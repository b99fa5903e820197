--------------------------- MODULE SessionTreeProofs ---------------------------
(***************************************************************************)
(* Proofs about SessionTree for every number of sessions, requests and     *)
(* failures.                                                               *)
(***************************************************************************)
EXTENDS SessionTree, TLAPS

----------------------------------------------------------------------------
(* The tree.  What is below a session is the least set with its children   *)
(* that is closed under children.                                          *)

LEMMA Numbering ==
    MaxSessions \in Nat /\ MaxSessions # 0 /\ MaxRequests \in Nat /\ MaxHitches \in Nat /\ NoParent \notin Sid
  BY TreeBounds DEF NoParent, Sid

LEMMA BelowLeast ==
    ASSUME NEW s, NEW kids, NEW S \in SUBSET Sid, kids[s] \subseteq S,
           \A c \in S : kids[c] \subseteq S
    PROVE  Below(s, kids) \subseteq S
  BY DEF Below

LEMMA BelowHas ==
    ASSUME NEW s \in Sid, NEW kids \in [Sid -> SUBSET Sid]
    PROVE  /\ Below(s, kids) \in SUBSET Sid
           /\ kids[s] \subseteq Below(s, kids)
           /\ \A c \in Below(s, kids) : kids[c] \subseteq Below(s, kids)
  <1>1. Below(s, kids) \in SUBSET Sid
    BY DEF Below
  <1>2. kids[s] \subseteq Below(s, kids)
    BY DEF Below
  <1>3. ASSUME NEW c \in Below(s, kids), NEW d \in kids[c] PROVE d \in Below(s, kids)
    <2>1. c \in Sid /\ d \in Sid
      BY <1>1, <1>3
    <2>2. ASSUME NEW S \in SUBSET Sid, kids[s] \subseteq S, \A x \in S : kids[x] \subseteq S
          PROVE  d \in S
      <3>1. c \in S
        BY <1>3, <2>2, BelowLeast
      <3>2. QED
        BY <1>3, <2>2, <3>1
    <2>3. QED
      BY <2>1, <2>2 DEF Below
  <1>4. QED
    BY <1>1, <1>2, <1>3

Kids == [p \in Sid |-> ChildrenOf(p)]
ListedKids == [p \in Sid |-> ListedChildren(p)]
Family(s) == {s} \union Offspring(s)

LEMMA Children ==
    /\ Kids \in [Sid -> SUBSET Sid] /\ ListedKids \in [Sid -> SUBSET Sid]
    /\ \A p \in Sid : Kids[p] = ChildrenOf(p) /\ ListedKids[p] = {c \in ChildrenOf(p) : Listed(c)}
    /\ \A s : Offspring(s) = Below(s, Kids) /\ Descendants(s) = Below(s, ListedKids)
    /\ \A p, c : c \in ChildrenOf(p) <=> c \in Sid /\ sessions[c].parent = p
  BY DEF Kids, ListedKids, ChildrenOf, ListedChildren, Offspring, Descendants

LEMMA OffspringHas ==
    ASSUME NEW s \in Sid
    PROVE  /\ Offspring(s) \in SUBSET Sid
           /\ ChildrenOf(s) \subseteq Offspring(s)
           /\ \A c \in Offspring(s) : ChildrenOf(c) \subseteq Offspring(s)
  BY Children, BelowHas

LEMMA OffspringLeast ==
    ASSUME NEW s \in Sid, NEW S \in SUBSET Sid, ChildrenOf(s) \subseteq S,
           \A c \in S : ChildrenOf(c) \subseteq S
    PROVE  Offspring(s) \subseteq S
  <1>1. Kids[s] \subseteq S /\ \A c \in S : Kids[c] \subseteq S
    BY Children
  <1>2. QED
    BY <1>1, Children, BelowLeast

(* What is below a descendant is below the session.                        *)
LEMMA OffspringDown ==
    ASSUME NEW s \in Sid, NEW c \in Offspring(s)
    PROVE  c \in Sid /\ Offspring(c) \subseteq Offspring(s)
  <1>1. c \in Sid
    BY OffspringHas
  <1>2. QED
    BY <1>1, OffspringHas, OffspringLeast

LEMMA DescendantsOffspring ==
    ASSUME NEW s \in Sid
    PROVE  Descendants(s) \subseteq Offspring(s)
  <1>1. /\ Offspring(s) \in SUBSET Sid /\ ListedKids[s] \subseteq Offspring(s)
        /\ \A c \in Offspring(s) : ListedKids[c] \subseteq Offspring(s)
    BY OffspringHas, Children
  <1>2. QED
    BY <1>1, Children, BelowLeast

(* An enumeration misses what lies below a row that is deleted.            *)
LEMMA MissedBelow ==
    ASSUME NEW s \in Sid, NEW d \in Offspring(s), d \notin Descendants(s),
           \A c \in Sid : sessions[c].parent # NoParent => sessions[c].row # "none"
    PROVE  \E b \in Offspring(s) : sessions[b].deleted /\ d \in Family(b)
  <1> DEFINE S == Descendants(s) \union
                    {x \in Sid : \E b \in Offspring(s) : sessions[b].deleted /\ x \in Family(b)}
  <1>1. S \in SUBSET Sid
    BY DescendantsOffspring, OffspringHas
  <1>2. ASSUME NEW p \in Sid, p = s \/ p \in Descendants(s), NEW c \in ChildrenOf(p)
        PROVE  c \in S
    <2>1. c \in Sid /\ sessions[c].parent = p /\ c \in Offspring(s)
      BY <1>2, Children, DescendantsOffspring, OffspringHas
    <2>2. CASE sessions[c].deleted
      BY <2>1, <2>2 DEF Family
    <2>3. CASE ~sessions[c].deleted
      <3>1. Listed(c)
        BY <2>1, <2>3, Numbering DEF Listed
      <3>2. c \in ListedKids[p]
        BY <1>2, <3>1, Children
      <3>3. QED
        BY <1>2, <3>2, Children, BelowHas
    <2>4. QED
      BY <2>2, <2>3
  <1>3. ASSUME NEW p \in Sid, NEW b \in Offspring(s), sessions[b].deleted, p \in Family(b),
               NEW c \in ChildrenOf(p)
        PROVE  c \in S
    <2>1. b \in Sid /\ c \in Sid
      BY OffspringHas, Children
    <2>2. c \in Family(b)
      BY <1>3, <2>1, OffspringHas DEF Family
    <2>3. QED
      BY <1>3, <2>1, <2>2
  <1>4. ChildrenOf(s) \subseteq S /\ \A p \in S : ChildrenOf(p) \subseteq S
    BY <1>1, <1>2, <1>3
  <1> HIDE DEF S
  <1>5. d \in S
    BY <1>1, <1>4, OffspringLeast
  <1>6. QED
    BY <1>5 DEF S

(* Sessions are numbered as they are created.                              *)
Numbered ==
    /\ \A c \in Sid : sessions[c].parent < c
    /\ \A c \in Sid : sessions[c].parent # NoParent =>
          sessions[c].row # "none" /\ sessions[sessions[c].parent].row # "none"
    /\ \A b, c \in Sid : b < c /\ sessions[b].row = "none" => sessions[c].row = "none"

LEMMA OffspringLater ==
    ASSUME NEW s \in Sid, Numbered
    PROVE  \A d \in Offspring(s) : s < d /\ d # s /\ sessions[d].row # "none"
  <1> DEFINE S == {d \in Sid : s < d /\ sessions[d].row # "none"}
  <1>1. ASSUME NEW p \in Sid, NEW c \in ChildrenOf(p) PROVE p < c /\ sessions[c].row # "none"
    BY Children, Numbering DEF Numbered
  <1>2. ChildrenOf(s) \subseteq S
    BY <1>1, Children
  <1>3. ASSUME NEW p \in S PROVE ChildrenOf(p) \subseteq S
    <2>1. ASSUME NEW c \in ChildrenOf(p) PROVE c \in S
      <3>1. p \in Sid /\ c \in Sid /\ p < c /\ s < p /\ sessions[c].row # "none"
        BY <1>1, Children
      <3>2. s < c
        BY <3>1 DEF Sid
      <3>3. QED
        BY <3>1, <3>2
    <2>2. QED
      BY <2>1
  <1> HIDE DEF S
  <1>4. Offspring(s) \subseteq S
    <2>1. S \in SUBSET Sid
      BY DEF S
    <2>2. QED
      BY <1>2, <1>3, <2>1, OffspringLeast
  <1>5. ASSUME NEW d \in Offspring(s) PROVE s < d /\ d # s /\ sessions[d].row # "none"
    <2>1. d \in Sid /\ s < d /\ sessions[d].row # "none"
      BY <1>4 DEF S
    <2>2. QED
      BY <2>1 DEF Sid
  <1>6. QED
    BY <1>5

(* The tree changes only when a session is spawned.                        *)
LEMMA SameOffspring ==
    ASSUME \A c \in Sid : sessions'[c].parent = sessions[c].parent
    PROVE  /\ \A p : ChildrenOf(p)' = ChildrenOf(p)
           /\ \A s : Offspring(s)' = Offspring(s)
  <1>1. \A p : ChildrenOf(p)' = ChildrenOf(p)
    BY DEF ChildrenOf
  <1>2. Kids' = Kids
    BY <1>1 DEF Kids
  <1>3. \A s : Offspring(s) = Below(s, Kids) /\ Offspring(s)' = Below(s, Kids')
    BY DEF Offspring, Kids
  <1>4. QED
    BY <1>1, <1>2, <1>3

LEMMA SpawnedOffspring ==
    ASSUME NEW p \in Sid, NEW c \in Sid, p # c, Numbered, sessions[c].row = "none",
           sessions'[c].parent = p,
           \A x \in Sid : x # c => sessions'[x].parent = sessions[x].parent,
           NEW a \in Sid
    PROVE  /\ Offspring(a) \subseteq Offspring(a)'
           /\ \A d \in Offspring(a)' : d \in Offspring(a) \/ (d = c /\ p \in Family(a))
  <1>1. sessions[c].parent = NoParent /\ \A x \in Sid : sessions[x].parent # c
    BY Numbering DEF Numbered
  <1>2. /\ \A x \in Sid : ChildrenOf(x) \subseteq ChildrenOf(x)'
        /\ \A x \in Sid : ChildrenOf(x)' \subseteq ChildrenOf(x) \union {c}
        /\ \A x \in Sid : x # p => ChildrenOf(x)' = ChildrenOf(x)
        /\ ChildrenOf(c)' = {}
    <2>1. ASSUME NEW x \in Sid, NEW y \in ChildrenOf(x) PROVE y \in ChildrenOf(x)' /\ y # c
      BY <1>1, <2>1, Numbering DEF ChildrenOf
    <2>2. ASSUME NEW x \in Sid, NEW y \in ChildrenOf(x)'
          PROVE  (y \in ChildrenOf(x) \/ (y = c /\ x = p)) /\ x # c
      BY <1>1, <2>2 DEF ChildrenOf
    <2>3. QED
      BY <2>1, <2>2
  <1>3. PICK kids \in [Sid -> SUBSET Sid] : /\ \A s : Offspring(s)' = Below(s, kids)
                                            /\ \A x \in Sid : kids[x] = ChildrenOf(x)'
    <2>1. \A s : Offspring(s)' = Below(s, Kids')
      BY DEF Offspring, Kids
    <2>2. Kids' \in [Sid -> SUBSET Sid] /\ \A x \in Sid : Kids'[x] = ChildrenOf(x)'
      BY DEF Kids, ChildrenOf
    <2>3. QED
      BY <2>1, <2>2
  <1>4. Offspring(a) \subseteq Offspring(a)'
    <2>1. PICK S \in SUBSET Sid : S = Offspring(a)' /\ kids[a] \subseteq S /\ \A x \in S : kids[x] \subseteq S
      BY <1>3, BelowHas
    <2>2. ChildrenOf(a) \subseteq S /\ \A x \in S : ChildrenOf(x) \subseteq S
      BY <1>2, <1>3, <2>1
    <2>3. QED
      BY <2>1, <2>2, OffspringLeast
  <1>5. ASSUME NEW d \in Offspring(a)' PROVE d \in Offspring(a) \/ (d = c /\ p \in Family(a))
    <2> DEFINE S == Offspring(a) \union {x \in {c} : p \in Family(a)}
    <2>1. S \in SUBSET Sid
      BY OffspringHas
    <2>2. kids[a] \subseteq S
      BY <1>2, <1>3, OffspringHas DEF Family
    <2>3. ASSUME NEW x \in S PROVE kids[x] \subseteq S
      <3>1. CASE x = c
        BY <1>2, <1>3, <3>1
      <3>2. CASE x # c
        BY <1>2, <1>3, <2>1, <3>2, OffspringHas DEF Family
      <3>3. QED
        BY <3>1, <3>2
    <2> HIDE DEF S
    <2>4. d \in S
      BY <1>3, <1>5, <2>1, <2>2, <2>3, BelowLeast
    <2>5. QED
      BY <2>4 DEF S
  <1>6. QED
    BY <1>4, <1>5

----------------------------------------------------------------------------
(* One session.  Ended: its instance was started and has ended.            *)

Ended(n) == n.instance \notin {"none", "Running"}

Sound(n) ==
    /\ n.row \in Terminal => Ended(n)
    /\ n.published # "none" => n.instance # "none"
    /\ n.published \in Terminal => n.instance # "Running"
    /\ n.row = "none" => n.instance = "none" /\ ~n.deleted
    /\ n.instance = "none" => n.stage = "loop" /\ ~n.activity /\ n.doomed = {}
    /\ n.doomed # {} => n.stage = "deleting"
    /\ n.activity /\ n.instance = "Running" => n.stage = "turn"
    /\ n.stage = "shutdown" => n.mode \in Lifecycle

(* What its parent may take for its end.                                   *)
Over(n, c) == Ended(n) \/ n.stage \in {"cancelled", "deleting"} \/ c \in Scheduled

(* How a session changes in any step, in a step that deletes nothing, in   *)
(* one that only corrects its row or passes it a message, and how its      *)
(* shutdown goes on.                                                       *)
Onward(n, m) ==
    /\ m.parent = n.parent
    /\ m.row # "none" <=> n.row # "none"
    /\ n.deleted => m.deleted
    /\ n.instance # "none" => m.instance # "none"
    /\ Ended(n) => Ended(m)
    /\ n.stage \in {"cancelled", "deleting"} => m.stage \in {"cancelled", "deleting"} \/ Ended(m)

Quiet(n, m) ==
    /\ Onward(n, m)
    /\ m.deleted = n.deleted /\ m.doomed = n.doomed
    /\ m.stage = "deleting" /\ m.instance = "Running" => n.stage = "deleting" /\ n.instance = "Running"
    /\ n.instance = "Running" /\ n.doomed # {} => m.instance = "Running"

Mild(n, m) ==
    /\ m.parent = n.parent /\ m.deleted = n.deleted /\ m.instance = n.instance
    /\ m.published = n.published /\ m.stage = n.stage /\ m.mode = n.mode
    /\ m.activity = n.activity /\ m.doomed = n.doomed /\ m.awaited = n.awaited
    /\ m.row # n.row => n.row # "none" /\ m.row # "none" /\ (m.row \in Terminal => Ended(n))

Steady(n, m) ==
    /\ m.row # "none" /\ ~m.deleted => n.row # "none" /\ ~n.deleted
    /\ m.stage = "shutdown" /\ m.instance = "Running" =>
         n.stage = "shutdown" /\ n.instance = "Running" /\ m.awaited = n.awaited

LEMMA MildIsQuiet ==
    ASSUME NEW n, NEW m, Sound(n), Mild(n, m)
    PROVE  Sound(m) /\ Quiet(n, m) /\ Steady(n, m)
  <1>1. Sound(m)
    BY DEF Sound, Mild, Ended
  <1>2. m.row # "none" <=> n.row # "none"
    BY DEF Mild
  <1>3. Quiet(n, m) /\ Steady(n, m)
    BY <1>2 DEF Quiet, Steady, Onward, Mild, Ended
  <1>4. QED
    BY <1>1, <1>3

LEMMA MildTwice ==
    ASSUME NEW n, NEW m, NEW o, Mild(n, m), Mild(m, o)
    PROVE  Mild(n, o)
  BY DEF Mild, Ended

LEMMA QuietTwice ==
    ASSUME NEW n, NEW m, NEW o, Quiet(n, m), Quiet(m, o)
    PROVE  Quiet(n, o)
  BY DEF Quiet, Onward, Ended

LEMMA SteadyTwice ==
    ASSUME NEW n, NEW m, NEW o, Steady(n, m), Steady(m, o)
    PROVE  Steady(n, o)
  BY DEF Steady

LEMMA Unchanged == ASSUME NEW n PROVE Mild(n, n) /\ Quiet(n, n) /\ Onward(n, n) /\ Steady(n, n)
  BY DEF Mild, Quiet, Onward, Steady

LEMMA OverStays ==
    ASSUME NEW n, NEW m, NEW c, Onward(n, m), Over(n, c)
    PROVE  Over(m, c)
  BY DEF Over, Onward

----------------------------------------------------------------------------
(* All the sessions: each is sound, and what a session holds for the end   *)
(* of a sub-agent is one.                                                  *)

Knows(n, c) == n.agents[c] = "terminal" \/ c \in n.reports

Good(states) ==
    /\ states \in [Sid -> SessionState]
    /\ \A c \in Sid : Sound(states[c])
    /\ \A s, c \in Sid : Knows(states[s], c) => Over(states[c], c)

LEMMA StaysGood ==
    ASSUME NEW A, NEW B, Good(A), B \in [Sid -> SessionState],
           \A c \in Sid : Sound(B[c]) /\ Onward(A[c], B[c]),
           \A s, c \in Sid : Knows(B[s], c) => Knows(A[s], c) \/ Over(B[c], c)
    PROVE  Good(B)
  <1>1. ASSUME NEW s \in Sid, NEW c \in Sid, Knows(B[s], c) PROVE Over(B[c], c)
    BY <1>1, OverStays DEF Good
  <1>2. QED
    BY <1>1 DEF Good

Mildly(A, B) == \A c \in Sid : Mild(A[c], B[c])

LEMMA OneGood ==
    ASSUME NEW A, Good(A), NEW s \in Sid, NEW B, B \in [Sid -> SessionState],
           \A c \in Sid : c # s => B[c] = A[c],
           Sound(B[s]), Onward(A[s], B[s]),
           \A c \in Sid : Knows(B[s], c) => Knows(A[s], c) \/ Over(A[c], c)
    PROVE  Good(B)
  <1>1. \A c \in Sid : Sound(B[c]) /\ Onward(A[c], B[c])
    BY Unchanged DEF Good
  <1>2. ASSUME NEW p \in Sid, NEW c \in Sid, Knows(B[p], c) PROVE Knows(A[p], c) \/ Over(B[c], c)
    BY <1>1, <1>2, OverStays
  <1>3. QED
    BY <1>1, <1>2, StaysGood

LEMMA AllGood ==
    ASSUME NEW A, Good(A), NEW B, B \in [Sid -> SessionState], Mildly(A, B),
           \A s, c \in Sid : Knows(B[s], c) => Knows(A[s], c) \/ Over(A[c], c)
    PROVE  Good(B)
  <1>1. \A c \in Sid : Sound(B[c]) /\ Onward(A[c], B[c])
    BY MildIsQuiet DEF Good, Mildly, Quiet
  <1>2. \A s, c \in Sid : Knows(B[s], c) => Knows(A[s], c) \/ Over(B[c], c)
    BY <1>1, OverStays
  <1>3. QED
    BY <1>1, <1>2, StaysGood

LEMMA StateOf ==
    ASSUME NEW A, Good(A), NEW s \in Sid
    PROVE  /\ A[s] \in SessionState /\ Sound(A[s])
           /\ A[s].parent \in 0 .. MaxSessions /\ A[s].row \in State /\ A[s].deleted \in BOOLEAN
           /\ A[s].instance \in {"none", "Running", "Completed", "Failed", "gone"}
           /\ A[s].published \in State
           /\ A[s].stage \in {"loop", "turn", "shutdown", "cancelled", "deleting"}
           /\ A[s].mode \in Lifecycle \union {"none"} /\ A[s].activity \in BOOLEAN
           /\ A[s].agents \in [Sid -> {"untracked", "running", "terminal"}]
           /\ A[s].awaited \in SUBSET Sid /\ A[s].doomed \in SUBSET Sid
           /\ A[s].inbox \in SUBSET Lifecycle /\ A[s].reports \in SUBSET Sid
  <1>1. A[s] \in SessionState /\ Sound(A[s])
    BY DEF Good
  <1>2. QED
    BY <1>1 DEF SessionState

(* Whoever looks at a session does not take one that runs for ended, not   *)
(* even with a row read before.                                            *)
LEMMA CorrectionIs ==
    ASSUME NEW n \in SessionState, Sound(n), NEW row \in State, NEW fix, fix = Correction(n, row)
    PROVE  /\ fix \in State
           /\ fix # "none" /\ row = n.row => n.row # "none"
           /\ fix \in Terminal => Ended(n)
  <1>1. n.row \in State /\ n.published \in State
        /\ n.instance \in {"none", "Running", "Completed", "Failed", "gone"}
    BY DEF SessionState
  <1>2. CASE fix = "completed" /\ n.published = "completed"
    BY <1>1, <1>2 DEF Sound, State, Terminal, Ended
  <1>3. CASE fix = "failed" /\ n.instance = "Failed"
    BY <1>1, <1>3 DEF Sound, State, Terminal, Ended
  <1>4. CASE n.instance = "Running" /\ fix \in {n.published, "active"}
    BY <1>1, <1>4 DEF Sound, State, Terminal, Ended
  <1>5. CASE fix = "none"
    BY <1>5 DEF State, Terminal
  <1>6. QED
    BY <1>2, <1>3, <1>4, <1>5 DEF Correction

(* Whoever looks at a session changes nothing but its row, and does not    *)
(* take one that runs for ended.                                           *)
LEMMA CorrectedIs ==
    ASSUME NEW A, Good(A), NEW looked, NEW B, B = Corrected(A, looked)
    PROVE  /\ Good(B) /\ Mildly(A, B)
           /\ \A c \in Sid : B[c].agents = A[c].agents /\ B[c].reports = A[c].reports
                             /\ B[c].inbox = A[c].inbox
  <1>2. ASSUME NEW c \in Sid
        PROVE  /\ B[c] \in SessionState /\ Mild(A[c], B[c])
               /\ B[c].agents = A[c].agents /\ B[c].reports = A[c].reports /\ B[c].inbox = A[c].inbox
    <2>1. PICK n \in SessionState : n = A[c] /\ Sound(n)
      BY StateOf
    <2>2. PICK fix : fix = Correction(n, n.row)
      OBVIOUS
    <2>3. fix \in State /\ (fix # "none" => n.row # "none") /\ (fix \in Terminal => Ended(n))
      BY <2>1, <2>2, CorrectionIs DEF SessionState
    <2>4. B[c] = IF c \in looked /\ fix # "none" THEN [n EXCEPT !.row = fix] ELSE n
      BY <2>1, <2>2 DEF Corrected
    <2>5. CASE B[c] = n
      BY <2>1, <2>5, Unchanged
    <2>6. CASE fix # "none" /\ B[c] = [n EXCEPT !.row = fix]
      <3>1. PICK m : m = [n EXCEPT !.row = fix]
        OBVIOUS
      <3>2. /\ m \in SessionState /\ m.row = fix
            /\ m.parent = n.parent /\ m.deleted = n.deleted /\ m.instance = n.instance
            /\ m.published = n.published /\ m.stage = n.stage /\ m.mode = n.mode
            /\ m.activity = n.activity /\ m.doomed = n.doomed /\ m.awaited = n.awaited
            /\ m.agents = n.agents /\ m.reports = n.reports /\ m.inbox = n.inbox
        BY <2>3, <3>1 DEF SessionState
      <3>3. Mild(n, m)
        BY <2>3, <2>6, <3>2 DEF Mild
      <3>4. QED
        BY <2>1, <2>6, <3>1, <3>2, <3>3
    <2>7. QED
      BY <2>4, <2>5, <2>6
  <1>3. B \in [Sid -> SessionState]
    <2>1. \A c \in Sid : Corrected(A, looked)[c] \in SessionState
      BY <1>2
    <2>2. QED
      BY <2>1 DEF Corrected
  <1>4. Good(B)
    BY <1>2, <1>3, AllGood DEF Mildly, Knows
  <1>5. QED
    BY <1>2, <1>4 DEF Mildly

(* A session tells its parent that it has ended, or says so each turn.     *)
LEMMA NotifyIs ==
    ASSUME NEW A, Good(A), NEW s \in Sid, Over(A[s], s), NEW B, B = Notify(A, s)
    PROVE  /\ Good(B) /\ Mildly(A, B)
           /\ \A c \in Sid : B[c].agents = A[c].agents
  <1>1. CASE B = A
    BY <1>1, Unchanged DEF Mildly
  <1>2. CASE A[s].parent # NoParent /\ B # A
    <2>1. PICK p \in Sid : p = A[s].parent
      BY <1>2, StateOf, Numbering DEF Sid, NoParent
    <2>2. PICK n \in SessionState : n = A[p] /\ Sound(n)
      BY StateOf
    <2>3. PICK m : m = [n EXCEPT !.reports = n.reports \union {s}]
      OBVIOUS
    <2>4. /\ m \in SessionState /\ m.reports = n.reports \union {s} /\ m.row = n.row
          /\ m.parent = n.parent /\ m.deleted = n.deleted /\ m.instance = n.instance
          /\ m.published = n.published /\ m.stage = n.stage /\ m.mode = n.mode
          /\ m.activity = n.activity /\ m.doomed = n.doomed /\ m.awaited = n.awaited
          /\ m.agents = n.agents
      BY <2>3 DEF SessionState
    <2>5. Mild(n, m)
      BY <2>4 DEF Mild
    <2>6. B = [A EXCEPT ![p] = m]
      BY <1>2, <2>1, <2>2, <2>3 DEF Notify, Good
    <2>7. \A c \in Sid : Knows(m, c) => Knows(A[p], c) \/ Over(A[c], c)
      BY <2>2, <2>4 DEF Knows
    <2>8. m \in SessionState /\ Sound(m) /\ Onward(A[p], m)
      BY <2>2, <2>4, <2>5, MildIsQuiet DEF Quiet
    <2>9. B \in [Sid -> SessionState] /\ B[p] = m /\ \A c \in Sid : c # p => B[c] = A[c]
      BY <2>4, <2>6 DEF Good
    <2>10. Good(B)
      BY <2>7, <2>8, <2>9, OneGood
    <2>11. QED
      BY <2>2, <2>4, <2>5, <2>9, <2>10, Unchanged DEF Mildly
  <1>3. QED
    BY <1>1, <1>2 DEF Notify

LEMMA MildOne ==
    ASSUME NEW A, Good(A), NEW s \in Sid, NEW B, B \in [Sid -> SessionState],
           \A c \in Sid : c # s => B[c] = A[c],
           Mild(A[s], B[s]),
           \A c \in Sid : Knows(B[s], c) => Knows(A[s], c) \/ Over(A[c], c)
    PROVE  Good(B) /\ Mildly(A, B)
  <1>1. Sound(B[s]) /\ Onward(A[s], B[s])
    BY MildIsQuiet DEF Good, Quiet
  <1>2. Good(B)
    BY <1>1, OneGood
  <1>3. QED
    BY <1>2, Unchanged DEF Mildly

LEMMA SignalledIs ==
    ASSUME NEW A, Good(A), NEW targets, NEW cmd \in Lifecycle, NEW B, B = Signalled(A, targets, cmd)
    PROVE  /\ Good(B) /\ Mildly(A, B)
           /\ \A c \in Sid : B[c].agents = A[c].agents /\ B[c].reports = A[c].reports
  <1>1. ASSUME NEW c \in Sid
        PROVE  /\ B[c] \in SessionState /\ Mild(A[c], B[c])
               /\ B[c].agents = A[c].agents /\ B[c].reports = A[c].reports
    <2>1. PICK n \in SessionState : n = A[c]
      BY StateOf
    <2>2. B[c] \in {n, [n EXCEPT !.inbox = n.inbox \union {cmd}]}
      BY <2>1 DEF Signalled
    <2>3. PICK m : m = [n EXCEPT !.inbox = n.inbox \union {cmd}]
      OBVIOUS
    <2>4. /\ m \in SessionState /\ m.row = n.row
          /\ m.parent = n.parent /\ m.deleted = n.deleted /\ m.instance = n.instance
          /\ m.published = n.published /\ m.stage = n.stage /\ m.mode = n.mode
          /\ m.activity = n.activity /\ m.doomed = n.doomed /\ m.awaited = n.awaited
          /\ m.agents = n.agents /\ m.reports = n.reports
      BY <2>3 DEF SessionState
    <2>5. Mild(n, m)
      BY <2>4 DEF Mild
    <2>6. QED
      BY <2>1, <2>2, <2>3, <2>4, <2>5, Unchanged
  <1>2. B \in [Sid -> SessionState]
    <2>1. \A c \in Sid : Signalled(A, targets, cmd)[c] \in SessionState
      BY <1>1
    <2>2. QED
      BY <2>1 DEF Signalled
  <1>3. Good(B)
    BY <1>1, <1>2, AllGood DEF Mildly, Knows
  <1>4. QED
    BY <1>1, <1>3 DEF Mildly

LEMMA MildSteps ==
    ASSUME NEW A, NEW B, Good(A), Mildly(A, B)
    PROVE  \A c \in Sid : Quiet(A[c], B[c]) /\ Steady(A[c], B[c])
  BY MildIsQuiet DEF Good, Mildly

(* The end of a shutdown.                                                  *)
LEMMA ConcludesIs ==
    ASSUME NEW A, Good(A), NEW s \in Sid, A[s].instance = "Running", A[s].stage \in {"loop", "shutdown"},
           NEW cmd \in Lifecycle, NEW B, B = Concludes(A, s, cmd)
    PROVE  /\ Good(B) /\ \A c \in Sid : Quiet(A[c], B[c]) /\ Steady(A[c], B[c])
           /\ \A c \in Sid : c # s => Mild(A[c], B[c])
  <1>1. PICK n \in SessionState : n = A[s] /\ Sound(n)
    BY StateOf
  <1>2. /\ n.instance = "Running" /\ n.stage \in {"loop", "shutdown"} /\ ~n.activity
        /\ n.doomed = {} /\ n.row # "none"
    BY <1>1, StateOf DEF Sound
  <1>3. PICK state : (cmd = "done" /\ state = "completed") \/ (cmd = "cancel" /\ state = "cancelled")
                     \/ (cmd = "delete" /\ state = "none")
    BY DEF Lifecycle
  <1>4. PICK m : m = IF cmd = "delete" THEN [n EXCEPT !.stage = "cancelled"]
                     ELSE [n EXCEPT !.row = state, !.published = state, !.instance = "Completed"]
    OBVIOUS
  <1>5. /\ m \in SessionState /\ Sound(m) /\ Quiet(n, m) /\ Steady(n, m) /\ Over(m, s)
        /\ m.agents = n.agents /\ m.reports = n.reports
    <2>1. CASE cmd = "delete"
      <3>1. m = [n EXCEPT !.stage = "cancelled"]
        BY <1>4, <2>1
      <3>2. /\ m \in SessionState /\ m.row = n.row
            /\ m.parent = n.parent /\ m.deleted = n.deleted /\ m.instance = n.instance
            /\ m.published = n.published /\ m.stage = "cancelled" /\ m.mode = n.mode
            /\ m.activity = n.activity /\ m.doomed = n.doomed /\ m.awaited = n.awaited
            /\ m.agents = n.agents /\ m.reports = n.reports
        BY <3>1 DEF SessionState
      <3>3. Sound(m)
        BY <1>1, <1>2, <3>2 DEF Sound, Ended
      <3>4. Quiet(n, m) /\ Steady(n, m) /\ Over(m, s)
        BY <1>2, <3>2 DEF Quiet, Steady, Onward, Ended, Over
      <3>5. QED
        BY <3>2, <3>3, <3>4
    <2>2. CASE cmd # "delete"
      <3>1. m = [n EXCEPT !.row = state, !.published = state, !.instance = "Completed"]
        BY <1>4, <2>2
      <3>2. state \in State /\ state # "none"
        BY <1>3, <2>2 DEF State, Terminal
      <3>3. /\ m \in SessionState /\ m.row = state
            /\ m.parent = n.parent /\ m.deleted = n.deleted /\ m.instance = "Completed"
            /\ m.published = state /\ m.stage = n.stage /\ m.mode = n.mode
            /\ m.activity = n.activity /\ m.doomed = n.doomed /\ m.awaited = n.awaited
            /\ m.agents = n.agents /\ m.reports = n.reports
        BY <3>1, <3>2 DEF SessionState
      <3>4. Sound(m)
        BY <1>1, <1>2, <3>2, <3>3 DEF Sound, Ended
      <3>5. Quiet(n, m) /\ Steady(n, m) /\ Over(m, s)
        BY <1>2, <3>2, <3>3 DEF Quiet, Steady, Onward, Ended, Over
      <3>6. QED
        BY <3>3, <3>4, <3>5
    <2>3. QED
      BY <2>1, <2>2
  <1>6. PICK C : C = [A EXCEPT ![s] = m]
    OBVIOUS
  <1>7. C \in [Sid -> SessionState] /\ C[s] = m /\ \A c \in Sid : c # s => C[c] = A[c]
    BY <1>5, <1>6 DEF Good
  <1>8. Good(C)
    <2>1. \A c \in Sid : Knows(C[s], c) => Knows(A[s], c)
      BY <1>1, <1>5, <1>7 DEF Knows
    <2>2. Sound(C[s]) /\ Onward(A[s], C[s])
      BY <1>1, <1>5, <1>7 DEF Quiet
    <2>3. QED
      BY <1>7, <2>1, <2>2, OneGood
  <1>9. B = Notify(C, s)
    <2>1. CASE cmd = "delete"
      BY <1>1, <1>4, <1>6, <2>1 DEF Concludes, Good
    <2>2. CASE cmd = "done"
      BY <1>1, <1>3, <1>4, <1>6, <2>2 DEF Concludes, Good
    <2>3. CASE cmd = "cancel"
      BY <1>1, <1>3, <1>4, <1>6, <2>3 DEF Concludes, Good
    <2>4. QED
      BY <2>1, <2>2, <2>3 DEF Lifecycle
  <1>10. Good(B) /\ Mildly(C, B)
    BY <1>5, <1>7, <1>8, <1>9, NotifyIs
  <1>11. ASSUME NEW c \in Sid PROVE Quiet(A[c], B[c]) /\ Steady(A[c], B[c])
    <2>1. Quiet(A[c], C[c]) /\ Steady(A[c], C[c])
      BY <1>1, <1>5, <1>7, Unchanged
    <2>2. Quiet(C[c], B[c]) /\ Steady(C[c], B[c])
      BY <1>8, <1>10, MildSteps
    <2>3. QED
      BY <2>1, <2>2, QuietTwice, SteadyTwice
  <1>12. \A c \in Sid : c # s => Mild(A[c], B[c])
    BY <1>7, <1>10 DEF Mildly
  <1>13. QED
    BY <1>10, <1>11, <1>12

----------------------------------------------------------------------------
(* Deletions.  Reached: deleted and ended, or out of reach.                *)

Reached(d) == (sessions[d].deleted /\ Ended(sessions[d])) \/ d \in spared
Ongoing(a) == Runs(a) /\ sessions[a].stage = "deleting"

(* What is on a list is below the session that is deleted.                 *)
Lists ==
    /\ \A s \in Sid : sessions[s].doomed \subseteq Offspring(s)
    /\ sweep.of = NoParent => sweep.doomed = {}
    /\ sweep.of # NoParent =>
         sweep.doomed \subseteq Offspring(sweep.of) /\ sessions[sweep.of].instance # "none"

(* Below a deleted row nothing is left but what is on some list.           *)
Covered == \A s \in Sid : sessions[s].deleted => \A d \in Family(s) : Reached(d) \/ d \in Doomed

(* A deletion reaches everything below its session that is not on its list.*)
Enumerated ==
    /\ \A a \in Sid : Ongoing(a) => \A d \in Offspring(a) : Reached(d) \/ d \in sessions[a].doomed
    /\ sweep.of # NoParent => \A d \in Offspring(sweep.of) : Reached(d) \/ d \in sweep.doomed

Fell == \A s \in felled : sessions[s].deleted /\ \A d \in Family(s) : Reached(d)

Deletions == Lists /\ Covered /\ Enumerated /\ Fell

Answered == deletion.pc = "ok" /\ ~deletion.misread => sessions[deletion.of].deleted

LEMMA DoomedIs ==
    /\ \A x : x \in Doomed <=> x \in sweep.doomed \/ \E a \in Sid : Runs(a) /\ x \in sessions[a].doomed
    /\ \A x : x \in Doomed' <=> x \in sweep'.doomed \/ \E a \in Sid : Runs(a)' /\ x \in sessions'[a].doomed
  BY DEF Doomed

LEMMA ReachedStays ==
    ASSUME \A c \in Sid : Onward(sessions[c], sessions'[c]), spared \subseteq spared'
    PROVE  /\ \A p : Offspring(p)' = Offspring(p) /\ Family(p)' = Family(p)
           /\ \A d \in Sid : Reached(d) => Reached(d)'
           /\ \A d \in Sid : sessions[d].deleted => sessions'[d].deleted
  <1>1. \A c \in Sid : sessions'[c].parent = sessions[c].parent
    BY DEF Onward
  <1>2. \A p : Offspring(p)' = Offspring(p)
    BY <1>1, SameOffspring
  <1>3. \A p : Family(p)' = Family(p)
    BY <1>2 DEF Family
  <1>4. \A d \in Sid : Reached(d) => Reached(d)'
    BY DEF Reached, Onward
  <1>5. QED
    BY <1>2, <1>3, <1>4 DEF Onward

LEMMA FamilyHas ==
    ASSUME NEW s \in Sid
    PROVE  /\ Family(s) \in SUBSET Sid /\ Offspring(s) \in SUBSET Sid
           /\ s \in Family(s) /\ Offspring(s) \subseteq Family(s)
           /\ \A d \in Family(s) : Family(d) \subseteq Family(s)
           /\ \A d \in Offspring(s) : Family(d) \subseteq Offspring(s)
  BY OffspringHas, OffspringDown DEF Family

LEMMA DeletionStep ==
    ASSUME Deletions, sweep.of \in 0 .. MaxSessions, sweep'.of \in 0 .. MaxSessions,
           felled \subseteq Sid, felled' \subseteq Sid,
           \A c \in Sid : Onward(sessions[c], sessions'[c]), spared \subseteq spared', Lists',
           \A x \in Doomed : Reached(x)' \/ x \in Doomed',
           \A s \in Sid : sessions'[s].deleted /\ ~sessions[s].deleted =>
              \A d \in Family(s) : Reached(d)' \/ d \in Doomed',
           \A a \in Sid : Ongoing(a)' =>
              \/ Ongoing(a) /\ \A d \in sessions[a].doomed : Reached(d)' \/ d \in sessions'[a].doomed
              \/ \A d \in Offspring(a) : Reached(d)' \/ d \in sessions'[a].doomed,
           sweep'.of # NoParent =>
              \/ sweep'.of = sweep.of /\ \A d \in sweep.doomed : Reached(d)' \/ d \in sweep'.doomed
              \/ \A d \in Offspring(sweep'.of) : Reached(d)' \/ d \in sweep'.doomed,
           \A s \in felled' : \/ s \in felled
                              \/ sessions'[s].deleted /\ \A d \in Family(s) : Reached(d)'
    PROVE  Deletions'
  <1>1. /\ \A p : Offspring(p)' = Offspring(p) /\ Family(p)' = Family(p)
        /\ \A d \in Sid : Reached(d) => Reached(d)'
        /\ \A d \in Sid : sessions[d].deleted => sessions'[d].deleted
    BY ReachedStays
  <1>2. Covered'
    <2>1. ASSUME NEW s \in Sid, sessions'[s].deleted, NEW d \in Family(s) PROVE Reached(d)' \/ d \in Doomed'
      <3>1. CASE ~sessions[s].deleted
        BY <2>1, <3>1
      <3>2. CASE sessions[s].deleted
        <4>1. d \in Sid /\ (Reached(d) \/ d \in Doomed)
          BY <2>1, <3>2, FamilyHas DEF Deletions, Covered
        <4>2. QED
          BY <1>1, <4>1
      <3>3. QED
        BY <3>1, <3>2
    <2>2. QED
      BY <1>1, <2>1 DEF Covered
  <1>3. ASSUME NEW a \in Sid, Ongoing(a)', NEW d \in Offspring(a) PROVE Reached(d)' \/ d \in sessions'[a].doomed
    <2>1. d \in Sid
      BY FamilyHas
    <2>2. CASE Ongoing(a) /\ \A x \in sessions[a].doomed : Reached(x)' \/ x \in sessions'[a].doomed
      <3>1. Reached(d) \/ d \in sessions[a].doomed
        BY <1>3, <2>2 DEF Deletions, Enumerated
      <3>2. QED
        BY <1>1, <2>1, <2>2, <3>1
    <2>3. QED
      BY <1>3, <2>2
  <1>4. ASSUME sweep'.of # NoParent, NEW d \in Offspring(sweep'.of) PROVE Reached(d)' \/ d \in sweep'.doomed
    <2>1. sweep'.of \in Sid
      BY <1>4, Numbering DEF Sid, NoParent
    <2>2. d \in Sid
      BY <1>4, <2>1, FamilyHas
    <2>3. CASE sweep'.of = sweep.of /\ \A x \in sweep.doomed : Reached(x)' \/ x \in sweep'.doomed
      <3>1. Reached(d) \/ d \in sweep.doomed
        BY <1>4, <2>3 DEF Deletions, Enumerated
      <3>2. QED
        BY <1>1, <2>2, <2>3, <3>1
    <2>4. QED
      BY <1>4, <2>3
  <1>5. Enumerated'
    <2>1. \A a \in Sid : Ongoing(a)' => \A d \in Offspring(a)' : Reached(d)' \/ d \in sessions'[a].doomed
      BY <1>1, <1>3
    <2>2. PICK t : t = sweep'.of
      OBVIOUS
    <2>3. t # NoParent => \A d \in Offspring(t)' : Reached(d)' \/ d \in sweep'.doomed
      BY <1>1, <1>4, <2>2
    <2>4. QED
      BY <2>1, <2>2, <2>3 DEF Enumerated, Offspring, Below, ChildrenOf
  <1>6. Fell'
    <2>1. ASSUME NEW s \in felled' PROVE sessions'[s].deleted /\ \A d \in Family(s) : Reached(d)'
      <3>1. s \in Sid
        OBVIOUS
      <3>2. CASE s \in felled
        <4>1. sessions[s].deleted /\ \A d \in Family(s) : Reached(d)
          BY <3>2 DEF Deletions, Fell
        <4>2. QED
          BY <1>1, <3>1, <4>1, FamilyHas
      <3>3. QED
        BY <3>2
    <2>2. QED
      BY <1>1, <2>1 DEF Fell
  <1>7. QED
    BY <1>2, <1>5, <1>6 DEF Deletions

----------------------------------------------------------------------------
(* The invariant.                                                          *)

(* Somebody looking at a session writes an end only when it has ended.     *)
Viewed ==
    /\ viewer.pc # "away" => viewer.of \in Sid /\ sessions[viewer.of].row # "none"
    /\ viewer.write \in Terminal => viewer.of \in Sid /\ Ended(sessions[viewer.of])

(* A shutdown awaits every sub-agent that has not ended.                   *)
Awaiting ==
    \A s \in Sid : Runs(s) /\ sessions[s].stage = "shutdown" =>
        \A c \in ListedChildren(s) :
            c \in sessions[s].awaited \/ Over(sessions[c], c) \/ c \in spared

Healthy == Good(sessions)

TreeInv == TreeTypeOK /\ Healthy /\ Numbered /\ Deletions /\ Answered /\ Viewed /\ Awaiting

LEMMA OnwardStep ==
    ASSUME Numbered, Viewed, \A c \in Sid : Onward(sessions[c], sessions'[c]),
           \A c \in Sid : sessions[c].parent \in 0 .. MaxSessions
    PROVE  Numbered' /\ (viewer' = viewer => Viewed')
  <1>1. /\ \A c \in Sid : sessions'[c].parent = sessions[c].parent
        /\ \A c \in Sid : sessions'[c].row # "none" <=> sessions[c].row # "none"
        /\ \A c \in Sid : Ended(sessions[c]) => Ended(sessions'[c])
    BY DEF Onward
  <1>2. viewer' = viewer => Viewed'
    BY <1>1 DEF Viewed
  <1>3. \A c \in Sid : sessions[c].parent = NoParent \/ sessions[c].parent \in Sid
    BY Numbering DEF Sid, NoParent
  <1>4. Numbered'
    BY <1>1, <1>3 DEF Numbered
  <1>5. QED
    BY <1>2, <1>4

LEMMA AwaitingStep ==
    ASSUME Awaiting, \A c \in Sid : Onward(sessions[c], sessions'[c]), spared \subseteq spared',
           \A s \in Sid : \/ Steady(sessions[s], sessions'[s])
                          \/ ~Runs(s)' \/ sessions'[s].stage # "shutdown"
                          \/ \A c \in ListedChildren(s) :
                                c \in sessions'[s].awaited \/ Over(sessions'[c], c) \/ c \in spared',
           \A c \in Sid : sessions'[c].row # "none" /\ ~sessions'[c].deleted => Listed(c)
    PROVE  Awaiting'
  <1>1. ASSUME NEW s \in Sid, Runs(s)', sessions'[s].stage = "shutdown", NEW c \in ListedChildren(s)'
        PROVE  c \in sessions'[s].awaited \/ Over(sessions'[c], c) \/ c \in spared'
    <2>1. c \in ListedChildren(s) /\ c \in Sid
      <3>1. /\ c \in Sid /\ sessions'[c].parent = s /\ sessions'[c].row # "none" /\ ~sessions'[c].deleted
        BY <1>1 DEF ListedChildren, ChildrenOf, Listed
      <3>2. sessions[c].parent = s /\ Listed(c)
        BY <3>1 DEF Onward
      <3>3. QED
        BY <3>1, <3>2 DEF ListedChildren, ChildrenOf
    <2>2. CASE Steady(sessions[s], sessions'[s])
      <3>1. Runs(s) /\ sessions[s].stage = "shutdown" /\ sessions'[s].awaited = sessions[s].awaited
        BY <1>1, <2>2 DEF Steady, Runs
      <3>2. c \in sessions[s].awaited \/ Over(sessions[c], c) \/ c \in spared
        BY <2>1, <3>1 DEF Awaiting
      <3>3. QED
        BY <2>1, <3>1, <3>2, OverStays
    <2>3. QED
      BY <1>1, <2>1, <2>2
  <1>2. QED
    BY <1>1 DEF Awaiting

LEMMA QuietStep ==
    ASSUME Deletions, sweep.of \in 0 .. MaxSessions, felled \subseteq Sid, Healthy,
           \A c \in Sid : Quiet(sessions[c], sessions'[c]), spared \subseteq spared',
           sweep' = sweep, felled' = felled
    PROVE  Deletions'
  <1>1. \A c \in Sid : Onward(sessions[c], sessions'[c]) /\ sessions'[c].doomed = sessions[c].doomed
                       /\ sessions'[c].deleted = sessions[c].deleted
    BY DEF Quiet
  <1>2. \A p : Offspring(p)' = Offspring(p)
    BY <1>1, ReachedStays
  <1>3. Lists'
    <2>1. PICK t : t = sweep.of /\ t = sweep'.of
      OBVIOUS
    <2>2. \A s \in Sid : sessions'[s].doomed \subseteq Offspring(s)'
      BY <1>1, <1>2 DEF Deletions, Lists
    <2>3. t # NoParent => t \in Sid /\ sessions'[t].instance # "none" /\ sweep'.doomed \subseteq Offspring(t)'
      BY <1>1, <1>2, <2>1, Numbering DEF Deletions, Lists, Onward, Sid, NoParent
    <2>4. QED
      BY <2>1, <2>2, <2>3 DEF Deletions, Lists, Offspring, Below, ChildrenOf
  <1>4. \A x \in Doomed : x \in Doomed'
    <2>1. ASSUME NEW a \in Sid, Runs(a), NEW x \in sessions[a].doomed PROVE Runs(a)' /\ x \in sessions'[a].doomed
      BY <1>1, <2>1 DEF Quiet, Runs
    <2>2. QED
      BY <2>1, DoomedIs
  <1>5. \A a \in Sid : Ongoing(a)' => Ongoing(a)
    BY DEF Quiet, Ongoing, Runs
  <1>6. QED
    BY <1>1, <1>3, <1>4, <1>5, DeletionStep

----------------------------------------------------------------------------
(* Steps that delete nothing.                                              *)

Gently(A, B) == Good(B) /\ \A c \in Sid : Quiet(A[c], B[c]) /\ Steady(A[c], B[c])

LEMMA MildlyGently ==
    ASSUME NEW A, NEW B, Good(A), Good(B), Mildly(A, B)
    PROVE  Gently(A, B)
  BY MildSteps DEF Gently

LEMMA GentlyTwice ==
    ASSUME NEW A, NEW B, NEW C, Gently(A, B), Gently(B, C)
    PROVE  Gently(A, C)
  BY QuietTwice, SteadyTwice DEF Gently

LEMMA OneGentlyAt ==
    ASSUME NEW A, Good(A), NEW s \in Sid, NEW B, B \in [Sid -> SessionState],
           \A c \in Sid : c # s => B[c] = A[c],
           Sound(B[s]), Quiet(A[s], B[s]), Steady(A[s], B[s]),
           \A c \in Sid : Knows(B[s], c) => Knows(A[s], c) \/ Over(A[c], c)
    PROVE  Gently(A, B)
  <1>1. Onward(A[s], B[s])
    BY DEF Quiet
  <1>2. Good(B)
    BY <1>1, OneGood
  <1>3. \A c \in Sid : Quiet(A[c], B[c]) /\ Steady(A[c], B[c])
    BY Unchanged
  <1>4. QED
    BY <1>2, <1>3 DEF Gently

(* A session that runs a shutdown, or could begin one, concludes it.       *)
Concluding(A, B, s) ==
    /\ A[s].stage \in {"loop", "shutdown"} /\ A[s].instance = "Running"
    /\ B[s].stage = "cancelled" \/ B[s].published \in {"completed", "cancelled"}

LEMMA MildGoesOn ==
    ASSUME NEW A, NEW B, Good(A), NEW s \in Sid, Mild(A[s], B[s])
    PROVE  ~Concluding(A, B, s)
  <1>1. Sound(A[s]) /\ B[s].stage = A[s].stage /\ B[s].published = A[s].published
    BY DEF Good, Mild
  <1>2. QED
    BY <1>1 DEF Concluding, Sound, Terminal

LEMMA OneGoesOn ==
    ASSUME NEW A, NEW B, Good(A), NEW s \in Sid, ~Concluding(A, B, s),
           \A c \in Sid : c # s => Mild(A[c], B[c])
    PROVE  \A x \in Sid : ~Concluding(A, B, x)
  BY MildGoesOn

LEMMA TurnStartsGently ==
    ASSUME Healthy, NEW s \in Sid, TurnStarts(s)
    PROVE  Gently(sessions, sessions') /\ \A x \in Sid : ~Concluding(sessions, sessions', x)
  <1>1. PICK n \in SessionState : n = sessions[s] /\ Sound(n)
    BY StateOf DEF Healthy
  <1>2. n.instance = "Running" /\ n.stage = "loop" /\ n.doomed = {} /\ n.row # "none"
    BY <1>1 DEF TurnStarts, Runs, Sound
  <1>3. PICK m : m = [n EXCEPT !.stage = "turn", !.activity = TRUE, !.row = "active", !.published = "active"]
    OBVIOUS
  <1>4. /\ m \in SessionState /\ m.row = "active"
        /\ m.parent = n.parent /\ m.deleted = n.deleted /\ m.instance = "Running"
        /\ m.published = "active" /\ m.stage = "turn" /\ m.mode = n.mode
        /\ m.activity = TRUE /\ m.doomed = n.doomed /\ m.awaited = n.awaited
        /\ m.agents = n.agents /\ m.reports = n.reports
    BY <1>2, <1>3 DEF SessionState, State
  <1>5. Sound(m)
    BY <1>2, <1>4 DEF Sound, Ended, Terminal
  <1>6. Quiet(n, m) /\ Steady(n, m)
    BY <1>2, <1>4 DEF Quiet, Steady, Onward, Ended
  <1>7. sessions' = [sessions EXCEPT ![s] = m]
    BY <1>1, <1>3 DEF TurnStarts, Healthy, Good
  <1>8. Gently(sessions, sessions') /\ sessions'[s] = m /\ \A c \in Sid : c # s => sessions'[c] = sessions[c]
    <2>1. /\ sessions' \in [Sid -> SessionState] /\ sessions'[s] = m
          /\ \A c \in Sid : c # s => sessions'[c] = sessions[c]
      BY <1>1, <1>4, <1>5, <1>6, <1>7 DEF Healthy, Good
    <2>2. \A c \in Sid : Knows(sessions'[s], c) => Knows(sessions[s], c)
      BY <1>1, <1>4, <1>5, <1>6, <1>7, <2>1 DEF Knows
    <2>3. QED
      BY <1>1, <1>4, <1>5, <1>6, <1>7, <2>1, <2>2, OneGentlyAt DEF Healthy
  <1>9. ~Concluding(sessions, sessions', s)
    BY <1>1, <1>2, <1>4, <1>8 DEF Concluding, Sound, Terminal
  <1>10. QED
    BY <1>8, <1>9, OneGoesOn, Unchanged DEF Healthy

LEMMA SpawnInstanceGently ==
    ASSUME Healthy, NEW s \in Sid, SpawnInstance(s) \/ SpawnFails(s)
    PROVE  Gently(sessions, sessions') /\ \A x \in Sid : ~Concluding(sessions, sessions', x)
  <1>1. PICK n \in SessionState : n = sessions[s] /\ Sound(n)
    BY StateOf DEF Healthy
  <1>2. /\ n.instance = "none" /\ n.row # "none" /\ n.stage = "loop" /\ ~n.activity /\ n.doomed = {}
        /\ n.published = "none" /\ n.row \notin Terminal
    BY <1>1 DEF SpawnInstance, SpawnFails, Sound, Ended
  <1>3. PICK m : \/ m = [n EXCEPT !.instance = "Running", !.row = "active"]
                      /\ sessions' = [sessions EXCEPT ![s] = m]
                 \/ m = [n EXCEPT !.instance = "gone"] /\ sessions' = [sessions EXCEPT ![s] = m]
    BY <1>1 DEF SpawnInstance, SpawnFails, Healthy, Good
  <1>4. /\ m \in SessionState /\ m.row \in {"active", n.row}
        /\ m.parent = n.parent /\ m.deleted = n.deleted /\ m.instance \in {"Running", "gone"}
        /\ m.published = n.published /\ m.stage = n.stage /\ m.mode = n.mode
        /\ m.activity = n.activity /\ m.doomed = n.doomed /\ m.awaited = n.awaited
        /\ m.agents = n.agents /\ m.reports = n.reports
    <2>1. CASE m = [n EXCEPT !.instance = "gone"]
      BY <2>1 DEF SessionState
    <2>2. CASE m = [n EXCEPT !.instance = "Running", !.row = "active"]
      BY <2>2 DEF SessionState, State
    <2>3. QED
      BY <1>3, <2>1, <2>2
  <1>5. Sound(m)
    BY <1>1, <1>2, <1>4 DEF Sound, Ended, Terminal
  <1>6. Quiet(n, m) /\ Steady(n, m)
    BY <1>2, <1>4 DEF Quiet, Steady, Onward, Ended
  <1>7. Gently(sessions, sessions') /\ sessions'[s] = m /\ \A c \in Sid : c # s => sessions'[c] = sessions[c]
    <2>1. /\ sessions' \in [Sid -> SessionState] /\ sessions'[s] = m
          /\ \A c \in Sid : c # s => sessions'[c] = sessions[c]
      BY <1>1, <1>3, <1>4, <1>5, <1>6 DEF Healthy, Good
    <2>2. \A c \in Sid : Knows(sessions'[s], c) => Knows(sessions[s], c)
      BY <1>1, <1>3, <1>4, <1>5, <1>6, <2>1 DEF Knows
    <2>3. QED
      BY <1>1, <1>3, <1>4, <1>5, <1>6, <2>1, <2>2, OneGentlyAt DEF Healthy
  <1>8. ~Concluding(sessions, sessions', s)
    BY <1>1, <1>2, <1>4, <1>7 DEF Concluding, Sound, Terminal
  <1>9. QED
    BY <1>7, <1>8, OneGoesOn, Unchanged DEF Healthy

LEMMA TurnCancelledGently ==
    ASSUME Healthy, NEW s \in Sid, TurnCancelled(s)
    PROVE  Gently(sessions, sessions') /\ \A x \in Sid : ~Concluding(sessions, sessions', x)
  <1>1. PICK n \in SessionState : n = sessions[s] /\ Sound(n)
    BY StateOf DEF Healthy
  <1>2. n.instance # "Running" /\ n.activity /\ n.instance # "none" /\ n.row # "none"
    BY <1>1 DEF TurnCancelled, Runs, Sound
  <1>3. PICK row \in {"active", n.row} :
           sessions' = [sessions EXCEPT ![s].activity = FALSE, ![s].row = row]
    BY <1>1 DEF TurnCancelled
  <1>4. PICK m : m = [n EXCEPT !.activity = FALSE, !.row = row]
    OBVIOUS
  <1>5. /\ m \in SessionState /\ m.row = row
        /\ m.parent = n.parent /\ m.deleted = n.deleted /\ m.instance = n.instance
        /\ m.published = n.published /\ m.stage = n.stage /\ m.mode = n.mode
        /\ m.activity = FALSE /\ m.doomed = n.doomed /\ m.awaited = n.awaited
        /\ m.agents = n.agents /\ m.reports = n.reports
    BY <1>3, <1>4 DEF SessionState, State
  <1>6. Sound(m)
    BY <1>1, <1>2, <1>3, <1>5 DEF Sound, Ended, Terminal
  <1>7. Quiet(n, m) /\ Steady(n, m)
    BY <1>2, <1>3, <1>5 DEF Quiet, Steady, Onward, Ended
  <1>8. sessions' = [sessions EXCEPT ![s] = m]
    BY <1>1, <1>3, <1>4 DEF Healthy, Good
  <1>9. Gently(sessions, sessions') /\ sessions'[s] = m /\ \A c \in Sid : c # s => sessions'[c] = sessions[c]
    <2>1. /\ sessions' \in [Sid -> SessionState] /\ sessions'[s] = m
          /\ \A c \in Sid : c # s => sessions'[c] = sessions[c]
      BY <1>1, <1>5, <1>6, <1>7, <1>8 DEF Healthy, Good
    <2>2. \A c \in Sid : Knows(sessions'[s], c) => Knows(sessions[s], c)
      BY <1>1, <1>5, <1>6, <1>7, <1>8, <2>1 DEF Knows
    <2>3. QED
      BY <1>1, <1>5, <1>6, <1>7, <1>8, <2>1, <2>2, OneGentlyAt DEF Healthy
  <1>10. ~Concluding(sessions, sessions', s)
    BY <1>1, <1>2, <1>5, <1>9 DEF Concluding, Sound, Terminal
  <1>11. QED
    BY <1>9, <1>10, OneGoesOn, Unchanged DEF Healthy

LEMMA ShutdownTimesOutGently ==
    ASSUME Healthy, NEW s \in Sid, ShutdownTimesOut(s)
    PROVE  Gently(sessions, sessions') /\ \A x \in Sid : ~Concluding(sessions, sessions', x)
  <1>1. PICK n \in SessionState : n = sessions[s] /\ Sound(n)
    BY StateOf DEF Healthy
  <1>2. n.instance = "Running" /\ n.stage = "shutdown" /\ n.doomed = {} /\ n.row # "none"
    BY <1>1 DEF ShutdownTimesOut, Runs, Sound
  <1>3. PICK m : m = [n EXCEPT !.row = "failed", !.published = "failed", !.instance = "Completed"]
    OBVIOUS
  <1>4. /\ m \in SessionState /\ m.row = "failed"
        /\ m.parent = n.parent /\ m.deleted = n.deleted /\ m.instance = "Completed"
        /\ m.published = "failed" /\ m.stage = n.stage /\ m.mode = n.mode
        /\ m.activity = n.activity /\ m.doomed = n.doomed /\ m.awaited = n.awaited
        /\ m.agents = n.agents /\ m.reports = n.reports
    BY <1>3 DEF SessionState, State, Terminal
  <1>5. Sound(m)
    BY <1>1, <1>2, <1>4 DEF Sound, Ended, Terminal
  <1>6. Quiet(n, m) /\ Steady(n, m)
    BY <1>2, <1>4 DEF Quiet, Steady, Onward, Ended
  <1>7. sessions' = [sessions EXCEPT ![s] = m]
    BY <1>1, <1>3 DEF ShutdownTimesOut, Healthy, Good
  <1>8. Gently(sessions, sessions') /\ sessions'[s] = m /\ \A c \in Sid : c # s => sessions'[c] = sessions[c]
    <2>1. /\ sessions' \in [Sid -> SessionState] /\ sessions'[s] = m
          /\ \A c \in Sid : c # s => sessions'[c] = sessions[c]
      BY <1>1, <1>4, <1>5, <1>6, <1>7 DEF Healthy, Good
    <2>2. \A c \in Sid : Knows(sessions'[s], c) => Knows(sessions[s], c)
      BY <1>1, <1>4, <1>5, <1>6, <1>7, <2>1 DEF Knows
    <2>3. QED
      BY <1>1, <1>4, <1>5, <1>6, <1>7, <2>1, <2>2, OneGentlyAt DEF Healthy
  <1>9. ~Concluding(sessions, sessions', s)
    BY <1>1, <1>2, <1>4, <1>8 DEF Concluding, Sound, Terminal
  <1>10. QED
    BY <1>8, <1>9, OneGoesOn, Unchanged DEF Healthy

LEMMA TurnCompletesTaskGently ==
    ASSUME Healthy, NEW s \in Sid, TurnCompletesTask(s)
    PROVE  Gently(sessions, sessions') /\ \A x \in Sid : ~Concluding(sessions, sessions', x)
  <1>1. PICK n \in SessionState : n = sessions[s] /\ Sound(n)
    BY StateOf DEF Healthy
  <1>2. n.instance = "Running" /\ n.stage = "turn" /\ n.activity /\ n.doomed = {} /\ n.row # "none"
    BY <1>1 DEF TurnCompletesTask, Runs, Sound
  <1>3. PICK m : m = [n EXCEPT !.activity = FALSE, !.row = "active", !.published = "completed",
                               !.instance = "Completed"]
    OBVIOUS
  <1>4. /\ m \in SessionState /\ m.row = "active"
        /\ m.parent = n.parent /\ m.deleted = n.deleted /\ m.instance = "Completed"
        /\ m.published = "completed" /\ m.stage = n.stage /\ m.mode = n.mode
        /\ m.activity = FALSE /\ m.doomed = n.doomed /\ m.awaited = n.awaited
        /\ m.agents = n.agents /\ m.reports = n.reports
    BY <1>3 DEF SessionState, State, Terminal
  <1>5. Sound(m)
    BY <1>1, <1>2, <1>4 DEF Sound, Ended, Terminal
  <1>6. Quiet(n, m) /\ Steady(n, m) /\ Over(m, s)
    BY <1>2, <1>4 DEF Quiet, Steady, Onward, Ended, Over
  <1>7. PICK C : C = [sessions EXCEPT ![s] = m]
    OBVIOUS
  <1>8. Gently(sessions, C) /\ C[s] = m /\ \A c \in Sid : c # s => C[c] = sessions[c]
    <2>1. C \in [Sid -> SessionState] /\ C[s] = m /\ \A c \in Sid : c # s => C[c] = sessions[c]
      BY <1>4, <1>7 DEF Healthy, Good
    <2>2. \A c \in Sid : Knows(C[s], c) => Knows(sessions[s], c)
      BY <1>1, <1>4, <2>1 DEF Knows
    <2>3. QED
      BY <1>1, <1>4, <1>5, <1>6, <2>1, <2>2, OneGentlyAt DEF Healthy
  <1>9. sessions' = Notify(C, s)
    BY <1>1, <1>3, <1>7 DEF TurnCompletesTask, Healthy, Good
  <1>10. Gently(C, sessions') /\ Mildly(C, sessions')
    BY <1>6, <1>8, <1>9, NotifyIs, MildlyGently DEF Gently
  <1>11. ~Concluding(sessions, sessions', s)
    BY <1>1, <1>2 DEF Concluding
  <1>12. \A c \in Sid : c # s => Mild(sessions[c], sessions'[c])
    BY <1>8, <1>10 DEF Mildly
  <1>13. QED
    BY <1>8, <1>10, <1>11, <1>12, GentlyTwice, OneGoesOn DEF Healthy

LEMMA ShownEnded ==
    ASSUME Healthy, NEW c \in Sid, Shown(c) \in Terminal
    PROVE  Ended(sessions[c])
  <1>1. PICK n \in SessionState : n = sessions[c] /\ Sound(n)
    BY StateOf DEF Healthy
  <1>2. PICK row : row = IF n.deleted THEN "none" ELSE n.row
    OBVIOUS
  <1>3. PICK published : published = IF n.instance = "gone" THEN "none" ELSE n.published
    OBVIOUS
  <1>4. n.row \in Terminal \/ n.published \in Terminal \/ n.instance = "Failed"
    <2>1. \/ n.instance = "Failed" \/ "completed" \in {row, published} \/ published \in Terminal
          \/ row \in Terminal
      BY <1>1, <1>2, <1>3 DEF Shown, Terminal
    <2>2. QED
      BY <1>2, <1>3, <2>1 DEF Terminal
  <1>5. n.published \in Terminal => n.instance # "none" /\ n.instance # "Running"
    BY <1>1 DEF Sound, Terminal
  <1>6. Ended(n)
    BY <1>1, <1>4, <1>5 DEF Sound, Ended
  <1>7. QED
    BY <1>1, <1>6

LEMMA ListingEnded ==
    ASSUME Healthy, NEW s \in Sid
    PROVE  /\ Listing(s) \in [Sid -> {"untracked", "running", "terminal"}]
           /\ \A c \in Sid : Listing(s)[c] = "terminal" => Over(sessions[c], c)
           /\ \A c \in ListedChildren(s) : Listing(s)[c] \in {"running", "terminal"}
  <1>1. \A c \in Sid : Listing(s)[c] = "terminal" => Shown(c) \in Terminal
    BY DEF Listing
  <1>2. \A c \in Sid : Listing(s)[c] = "terminal" => Over(sessions[c], c)
    BY <1>1, ShownEnded DEF Over
  <1>3. QED
    BY <1>2 DEF Listing, ListedChildren, ChildrenOf

LEMMA CommandMildly ==
    ASSUME Healthy, NEW s \in Sid, NEW cmd \in Lifecycle, CommandSent(s, cmd) \/ CommandIgnored(s, cmd)
    PROVE  Mildly(sessions, sessions') /\ Good(sessions')
  <1>1. PICK n \in SessionState : n = sessions[s] /\ Sound(n)
    BY StateOf DEF Healthy
  <1>2. PICK inbox \in SUBSET Lifecycle : sessions' = [sessions EXCEPT ![s].inbox = inbox]
    <2>1. n.inbox \in SUBSET Lifecycle
      BY DEF SessionState
    <2>2. QED
      BY <1>1, <2>1 DEF CommandSent, CommandIgnored
  <1>3. PICK m : m = [n EXCEPT !.inbox = inbox]
    OBVIOUS
  <1>4. /\ m \in SessionState /\ m.row = n.row
        /\ m.parent = n.parent /\ m.deleted = n.deleted /\ m.instance = n.instance
        /\ m.published = n.published /\ m.stage = n.stage /\ m.mode = n.mode
        /\ m.activity = n.activity /\ m.doomed = n.doomed /\ m.awaited = n.awaited
        /\ m.agents = n.agents /\ m.reports = n.reports
    BY <1>2, <1>3 DEF SessionState
  <1>5. Mild(n, m) /\ \A c \in Sid : Knows(m, c) => Knows(n, c)
    BY <1>4 DEF Mild, Knows
  <1>6. sessions' \in [Sid -> SessionState] /\ sessions'[s] = m /\ \A c \in Sid : c # s => sessions'[c] = sessions[c]
    BY <1>1, <1>2, <1>3, <1>4 DEF Healthy, Good
  <1>7. QED
    BY <1>1, <1>5, <1>6, MildOne DEF Healthy

(* The list of sub-agents is refreshed.                                    *)
LEMMA RelistedIs ==
    ASSUME Healthy, NEW s \in Sid, NEW agents \in {Listing(s), sessions[s].agents},
           NEW states \in {sessions, Corrected(sessions, ListedChildren(s))}
    PROVE  /\ Good(states) /\ Mildly(sessions, states)
           /\ \A c \in Sid : states[c].agents = sessions[c].agents /\ states[c].reports = sessions[c].reports
           /\ agents \in [Sid -> {"untracked", "running", "terminal"}]
           /\ \A c \in Sid : agents[c] = "terminal" => Over(sessions[c], c) /\ Over(states[c], c)
  <1>1. /\ Good(states) /\ Mildly(sessions, states)
        /\ \A c \in Sid : states[c].agents = sessions[c].agents /\ states[c].reports = sessions[c].reports
    <2>1. CASE states = sessions
      BY <2>1, Unchanged DEF Healthy, Mildly
    <2>2. CASE states = Corrected(sessions, ListedChildren(s))
      BY <2>2, CorrectedIs DEF Healthy
    <2>3. QED
      BY <2>1, <2>2
  <1>2. /\ agents \in [Sid -> {"untracked", "running", "terminal"}]
        /\ \A c \in Sid : agents[c] = "terminal" => Over(sessions[c], c)
    <2>1. CASE agents = Listing(s)
      BY <2>1, ListingEnded
    <2>2. CASE agents = sessions[s].agents
      BY <2>2, StateOf DEF Healthy, Good, Knows
    <2>3. QED
      BY <2>1, <2>2
  <1>3. \A c \in Sid : Over(sessions[c], c) => Over(states[c], c)
    BY <1>1, MildSteps, OverStays DEF Healthy, Quiet
  <1>4. QED
    BY <1>1, <1>2, <1>3

LEMMA TurnContinuesGently ==
    ASSUME Healthy, NEW s \in Sid, TurnContinues(s)
    PROVE  Gently(sessions, sessions') /\ \A x \in Sid : ~Concluding(sessions, sessions', x)
  <1>1. PICK agents \in {Listing(s), sessions[s].agents}, reports \in BOOLEAN,
             states \in {sessions, Corrected(sessions, ListedChildren(s))} :
          /\ reports => s \in Scheduled
          /\ LET next == [states EXCEPT ![s].stage = "loop", ![s].activity = FALSE,
                                        ![s].row = "active", ![s].agents = agents]
             IN  sessions' = IF reports THEN Notify(next, s) ELSE next
    BY ZenonT(60) DEF TurnContinues
  <1>2. /\ Good(states) /\ Mildly(sessions, states)
        /\ \A c \in Sid : states[c].agents = sessions[c].agents /\ states[c].reports = sessions[c].reports
        /\ agents \in [Sid -> {"untracked", "running", "terminal"}]
        /\ \A c \in Sid : agents[c] = "terminal" => Over(states[c], c)
    BY RelistedIs
  <1>3. PICK n \in SessionState : n = states[s] /\ Sound(n)
    BY <1>2, StateOf
  <1>4. n.instance = "Running" /\ n.stage = "turn" /\ n.doomed = {} /\ n.row # "none"
    <2>1. n.instance = "Running" /\ n.activity
      BY <1>2, <1>3 DEF TurnContinues, Runs, Mildly, Mild
    <2>2. QED
      BY <1>3, <2>1 DEF Sound
  <1>5. PICK m : m = [n EXCEPT !.stage = "loop", !.activity = FALSE, !.row = "active", !.agents = agents]
    OBVIOUS
  <1>6. /\ m \in SessionState /\ m.row = "active"
        /\ m.parent = n.parent /\ m.deleted = n.deleted /\ m.instance = "Running"
        /\ m.published = n.published /\ m.stage = "loop" /\ m.mode = n.mode
        /\ m.activity = FALSE /\ m.doomed = n.doomed /\ m.awaited = n.awaited
        /\ m.agents = agents /\ m.reports = n.reports
    BY <1>2, <1>4, <1>5 DEF SessionState, State
  <1>7. Sound(m)
    BY <1>3, <1>4, <1>6 DEF Sound, Ended, Terminal
  <1>8. Quiet(n, m) /\ Steady(n, m)
    BY <1>4, <1>6 DEF Quiet, Steady, Onward, Ended
  <1>9. PICK C : C = [states EXCEPT ![s] = m]
    OBVIOUS
  <1>10. C \in [Sid -> SessionState] /\ C[s] = m /\ \A c \in Sid : c # s => C[c] = states[c]
    BY <1>2, <1>6, <1>9 DEF Good
  <1>11. \A c \in Sid : Knows(C[s], c) => Knows(states[s], c) \/ Over(states[c], c)
    BY <1>2, <1>3, <1>6, <1>10 DEF Knows
  <1>12. Gently(states, C)
    BY <1>2, <1>3, <1>7, <1>8, <1>10, <1>11, OneGentlyAt
  <1>13. sessions' = IF reports THEN Notify(C, s) ELSE C
    <2>1. C = [states EXCEPT ![s].stage = "loop", ![s].activity = FALSE,
                             ![s].row = "active", ![s].agents = agents]
      BY <1>2, <1>3, <1>5, <1>9 DEF Good
    <2>2. QED
      BY <1>1, <2>1
  <1>14. Gently(C, sessions') /\ Mildly(C, sessions')
    <2>1. CASE reports
      <3>1. Over(C[s], s)
        BY <1>1, <2>1 DEF Over
      <3>2. QED
        BY <1>12, <1>13, <2>1, <3>1, NotifyIs, MildlyGently DEF Gently
    <2>2. CASE ~reports
      BY <1>12, <1>13, <2>2, Unchanged DEF Gently, Mildly
    <2>3. QED
      BY <2>1, <2>2
  <1>15. Gently(sessions, states)
    BY <1>2, MildlyGently DEF Healthy
  <1>16. ~Concluding(sessions, sessions', s)
    <2>1. sessions[s].stage = "turn"
      BY <1>2, <1>3, <1>4 DEF Mildly, Mild
    <2>2. QED
      BY <2>1 DEF Concluding
  <1>17. \A c \in Sid : c # s => Mild(sessions[c], sessions'[c])
    BY <1>2, <1>10, <1>14, MildTwice DEF Mildly
  <1>18. QED
    BY <1>12, <1>14, <1>15, <1>16, <1>17, GentlyTwice, OneGoesOn DEF Healthy

----------------------------------------------------------------------------
(* Graceful shutdowns.                                                     *)

(* A session hears of its sub-agents; its shutdown concludes only when it  *)
(* takes all it awaited for ended.                                         *)
LEMMA SettlingIs ==
    ASSUME NEW A, Good(A), NEW s \in Sid, A[s].instance = "Running", A[s].stage \in {"loop", "shutdown"},
           NEW agents \in [Sid -> {"untracked", "running", "terminal"}],
           \A c \in Sid : agents[c] = "terminal" => Over(A[c], c),
           NEW awaited, NEW B, B = Settling(A, s, agents, awaited)
    PROVE  /\ Gently(A, B)
           /\ \A c \in Sid : c # s => Mild(A[c], B[c])
           /\ \/ A[s].stage = "shutdown" /\ AllTerminal(agents, awaited)
              \/ Mildly(A, B)
  <1>1. PICK n \in SessionState : n = A[s] /\ Sound(n)
    BY StateOf
  <1>2. PICK m : m = [n EXCEPT !.agents = agents]
    OBVIOUS
  <1>3. /\ m \in SessionState /\ m.row = n.row
        /\ m.parent = n.parent /\ m.deleted = n.deleted /\ m.instance = n.instance
        /\ m.published = n.published /\ m.stage = n.stage /\ m.mode = n.mode
        /\ m.activity = n.activity /\ m.doomed = n.doomed /\ m.awaited = n.awaited
        /\ m.agents = agents /\ m.reports = n.reports
    BY <1>2 DEF SessionState
  <1>4. PICK C : C = [A EXCEPT ![s] = m]
    OBVIOUS
  <1>5. C \in [Sid -> SessionState] /\ C[s] = m /\ \A c \in Sid : c # s => C[c] = A[c]
    BY <1>3, <1>4 DEF Good
  <1>6. Good(C) /\ Mildly(A, C)
    <2>1. Mild(A[s], C[s])
      BY <1>1, <1>3, <1>5 DEF Mild
    <2>2. \A c \in Sid : Knows(C[s], c) => Knows(A[s], c) \/ Over(A[c], c)
      BY <1>1, <1>3, <1>5 DEF Knows
    <2>3. QED
      BY <1>5, <2>1, <2>2, MildOne
  <1>7. C = [A EXCEPT ![s].agents = agents]
    BY <1>1, <1>2, <1>4 DEF Good
  <1>8. B = IF A[s].stage = "shutdown" /\ AllTerminal(agents, awaited)
            THEN Concludes(C, s, A[s].mode) ELSE C
    BY <1>7 DEF Settling
  <1>9. CASE A[s].stage = "shutdown" /\ AllTerminal(agents, awaited)
    <2>1. PICK mode \in Lifecycle : mode = A[s].mode
      BY <1>1, <1>9 DEF Sound
    <2>2. B = Concludes(C, s, mode)
      BY <1>8, <1>9, <2>1
    <2>3. C[s].instance = "Running" /\ C[s].stage \in {"loop", "shutdown"}
      BY <1>1, <1>3, <1>5
    <2>4. /\ Good(B) /\ \A c \in Sid : Quiet(C[c], B[c]) /\ Steady(C[c], B[c])
          /\ \A c \in Sid : c # s => Mild(C[c], B[c])
      BY <1>6, <2>2, <2>3, ConcludesIs
    <2>5. Gently(A, B)
      BY <1>6, <2>4, MildlyGently, GentlyTwice DEF Gently
    <2>6. QED
      BY <1>5, <1>9, <2>4, <2>5
  <1>10. CASE ~(A[s].stage = "shutdown" /\ AllTerminal(agents, awaited))
    BY <1>6, <1>8, <1>10, MildlyGently DEF Mildly
  <1>11. QED
    BY <1>9, <1>10

(* What a step of a shutdown shows when it concludes.                      *)
LowerEnded(s) ==
    \A c \in ListedChildren(s) \ (spared' \union Scheduled) :
        ~Runs(c) \/ sessions[c].stage \in {"cancelled", "deleting"}

LEMMA AwaitedEnded ==
    ASSUME Awaiting, NEW s \in Sid, Runs(s), sessions[s].stage = "shutdown", spared \subseteq spared',
           NEW agents, \A c \in sessions[s].awaited : agents[c] = "terminal",
           \A c \in Sid : agents[c] = "terminal" => Over(sessions[c], c), sessions[s].awaited \subseteq Sid
    PROVE  LowerEnded(s)
  BY DEF Awaiting, LowerEnded, Over, Ended, Runs

LEMMA ReportHeardGently ==
    ASSUME Healthy, NEW s \in Sid, NEW c \in Sid, ReportHeard(s, c)
    PROVE  /\ Gently(sessions, sessions')
           /\ Awaiting => \A x \in Sid : Concluding(sessions, sessions', x) => LowerEnded(x)
  <1>1. PICK state \in {"terminal", "running"} :
          LET agents == IF sessions[s].agents[c] = "untracked" THEN sessions[s].agents
                        ELSE [sessions[s].agents EXCEPT ![c] = state]
          IN  sessions' = Settling(Corrected([sessions EXCEPT ![s].reports = @ \ {c}],
                                             {c} \intersect ListedChildren(s)),
                                   s, agents, sessions[s].awaited)
    BY DEF ReportHeard
  <1>2. PICK agents : agents = IF sessions[s].agents[c] = "untracked" THEN sessions[s].agents
                               ELSE [sessions[s].agents EXCEPT ![c] = state]
    OBVIOUS
  <1>3. PICK n \in SessionState : n = sessions[s] /\ Sound(n)
    BY StateOf DEF Healthy
  <1>4. /\ n.instance = "Running" /\ n.stage \in {"loop", "shutdown"} /\ c \in n.reports
        /\ spared' = spared
    BY <1>3 DEF ReportHeard, Runs
  <1>5. n.agents \in [Sid -> {"untracked", "running", "terminal"}]
    BY DEF SessionState
  <1>6. /\ agents \in [Sid -> {"untracked", "running", "terminal"}]
        /\ \A x \in Sid : agents[x] = "terminal" => Knows(n, x)
    BY <1>1, <1>2, <1>3, <1>4, <1>5 DEF Knows
  <1>7. \A x \in Sid : agents[x] = "terminal" => Over(sessions[x], x)
    BY <1>3, <1>6 DEF Healthy, Good
  <1>8. PICK m : m = [n EXCEPT !.reports = n.reports \ {c}]
    OBVIOUS
  <1>9. /\ m \in SessionState /\ m.row = n.row
        /\ m.parent = n.parent /\ m.deleted = n.deleted /\ m.instance = n.instance
        /\ m.published = n.published /\ m.stage = n.stage /\ m.mode = n.mode
        /\ m.activity = n.activity /\ m.doomed = n.doomed /\ m.awaited = n.awaited
        /\ m.agents = n.agents /\ m.reports = n.reports \ {c}
    BY <1>8 DEF SessionState
  <1>10. PICK C : C = [sessions EXCEPT ![s] = m]
    OBVIOUS
  <1>11. C \in [Sid -> SessionState] /\ C[s] = m /\ \A x \in Sid : x # s => C[x] = sessions[x]
    BY <1>9, <1>10 DEF Healthy, Good
  <1>12. Good(C) /\ Mildly(sessions, C)
    <2>1. Mild(sessions[s], C[s])
      BY <1>3, <1>9, <1>11 DEF Mild
    <2>2. \A x \in Sid : Knows(C[s], x) => Knows(sessions[s], x)
      BY <1>3, <1>9, <1>11 DEF Knows
    <2>3. QED
      BY <1>11, <2>1, <2>2, MildOne DEF Healthy
  <1>13. PICK D : D = Corrected(C, {c} \intersect ListedChildren(s))
    OBVIOUS
  <1>14. Good(D) /\ Mildly(C, D)
    BY <1>12, <1>13, CorrectedIs
  <1>15. Mildly(sessions, D)
    BY <1>12, <1>14, MildTwice DEF Mildly
  <1>16. Gently(sessions, D)
    BY <1>14, <1>15, MildlyGently DEF Healthy
  <1>17. \A x \in Sid : agents[x] = "terminal" => Over(D[x], x)
    BY <1>7, <1>16, OverStays DEF Gently, Quiet
  <1>18. sessions' = Settling(D, s, agents, n.awaited)
    <2>1. C = [sessions EXCEPT ![s].reports = @ \ {c}]
      BY <1>3, <1>8, <1>10 DEF Healthy, Good
    <2>2. QED
      BY <1>1, <1>2, <1>3, <1>13, <2>1
  <1>19. D[s].instance = "Running" /\ D[s].stage = n.stage
    BY <1>3, <1>4, <1>15 DEF Mildly, Mild
  <1>20. /\ Gently(D, sessions')
         /\ \A x \in Sid : x # s => Mild(D[x], sessions'[x])
         /\ \/ D[s].stage = "shutdown" /\ AllTerminal(agents, n.awaited)
            \/ Mildly(D, sessions')
    BY <1>4, <1>6, <1>14, <1>17, <1>18, <1>19, SettlingIs
  <1>21. Gently(sessions, sessions')
    BY <1>16, <1>20, GentlyTwice
  <1>22. ASSUME Awaiting, NEW x \in Sid, Concluding(sessions, sessions', x) PROVE LowerEnded(x)
    <2>1. ~Mild(sessions[x], sessions'[x])
      BY <1>22, MildGoesOn DEF Healthy
    <2>2. x = s /\ ~Mildly(D, sessions')
      BY <1>15, <1>20, <2>1, MildTwice DEF Mildly
    <2>3. \A y \in n.awaited : agents[y] = "terminal"
      BY <1>20, <2>2 DEF AllTerminal
    <2>4. sessions[s].stage = "shutdown" /\ Runs(s) /\ spared \subseteq spared' /\ n.awaited \subseteq Sid
      BY <1>3, <1>4, <1>19, <1>20, <2>2 DEF Runs, SessionState
    <2>5. QED
      BY <1>3, <1>7, <1>22, <2>2, <2>3, <2>4, AwaitedEnded
  <1>23. QED
    BY <1>21, <1>22

LEMMA AgentsPolledGently ==
    ASSUME Healthy, NEW s \in Sid, AgentsPolled(s)
    PROVE  /\ Gently(sessions, sessions')
           /\ Awaiting => \A x \in Sid : Concluding(sessions, sessions', x) => LowerEnded(x)
  <1>1. PICK n \in SessionState : n = sessions[s] /\ Sound(n)
    BY StateOf DEF Healthy
  <1>2. n.instance = "Running" /\ n.stage = "shutdown" /\ spared' = spared
    BY <1>1 DEF AgentsPolled, Runs
  <1>3. PICK ended : ended = {c \in sessions[s].awaited : Shown(c) \in Terminal}
    OBVIOUS
  <1>4. PICK agents : agents = [c \in Sid |-> IF c \in ended THEN "terminal" ELSE sessions[s].agents[c]]
    OBVIOUS
  <1>5. n.agents \in [Sid -> {"untracked", "running", "terminal"}] /\ n.awaited \in SUBSET Sid
    BY DEF SessionState
  <1>6. /\ agents \in [Sid -> {"untracked", "running", "terminal"}]
        /\ \A x \in Sid : agents[x] = "terminal" => Over(sessions[x], x)
    <2>1. agents \in [Sid -> {"untracked", "running", "terminal"}]
      BY <1>1, <1>4, <1>5
    <2>2. ASSUME NEW x \in Sid, agents[x] = "terminal" PROVE Over(sessions[x], x)
      <3>1. CASE x \in ended
        BY <1>3, <3>1, ShownEnded DEF Over
      <3>2. CASE x \notin ended
        <4>1. Knows(sessions[s], x)
          BY <1>4, <2>2, <3>2 DEF Knows
        <4>2. QED
          BY <4>1 DEF Healthy, Good
      <3>3. QED
        BY <3>1, <3>2
    <2>3. QED
      BY <2>1, <2>2
  <1>7. PICK D : /\ Good(D) /\ Mildly(sessions, D)
                 /\ sessions' = Settling(D, s, agents, n.awaited)
    <2>1. PICK looked : looked = {c \in sessions[s].awaited : Listed(c) /\ sessions[s].agents[c] = "running"}
      OBVIOUS
    <2>2. PICK D : D = Corrected(sessions, looked)
      OBVIOUS
    <2>3. Good(D) /\ Mildly(sessions, D)
      BY <2>2, CorrectedIs DEF Healthy
    <2>4. sessions' = Settling(D, s, agents, n.awaited)
      BY <1>1, <1>3, <1>4, <2>1, <2>2 DEF AgentsPolled
    <2>5. QED
      BY <2>3, <2>4
  <1>8. Gently(sessions, D)
    BY <1>7, MildlyGently DEF Healthy
  <1>9. \A x \in Sid : agents[x] = "terminal" => Over(D[x], x)
    BY <1>6, <1>8, OverStays DEF Gently, Quiet
  <1>10. D[s].instance = "Running" /\ D[s].stage = "shutdown"
    BY <1>1, <1>2, <1>7 DEF Mildly, Mild
  <1>11. /\ Gently(D, sessions')
         /\ \A x \in Sid : x # s => Mild(D[x], sessions'[x])
         /\ \/ D[s].stage = "shutdown" /\ AllTerminal(agents, n.awaited)
            \/ Mildly(D, sessions')
    BY <1>6, <1>7, <1>9, <1>10, SettlingIs
  <1>12. Gently(sessions, sessions')
    BY <1>8, <1>11, GentlyTwice
  <1>13. ASSUME Awaiting, NEW x \in Sid, Concluding(sessions, sessions', x) PROVE LowerEnded(x)
    <2>1. ~Mild(sessions[x], sessions'[x])
      BY <1>13, MildGoesOn DEF Healthy
    <2>2. x = s /\ ~Mildly(D, sessions')
      BY <1>7, <1>11, <2>1, MildTwice DEF Mildly
    <2>3. \A y \in n.awaited : agents[y] = "terminal"
      BY <1>11, <2>2 DEF AllTerminal
    <2>4. sessions[s].stage = "shutdown" /\ Runs(s) /\ spared \subseteq spared'
      BY <1>1, <1>2 DEF Runs
    <2>5. QED
      BY <1>1, <1>5, <1>6, <1>13, <2>2, <2>3, <2>4, AwaitedEnded
  <1>14. QED
    BY <1>12, <1>13

(* A sub-agent a shutdown does not await has ended for it, or is not on    *)
(* its list.                                                               *)
LEMMA ShutdownBeginsIs ==
    ASSUME Healthy, NEW s \in Sid, NEW cmd \in Lifecycle, ShutdownBegins(s, cmd)
    PROVE  /\ Good(sessions') /\ \A c \in Sid : Quiet(sessions[c], sessions'[c])
           /\ spared \subseteq spared' /\ (spared \subseteq Sid => spared' \subseteq Sid)
           /\ \A p \in Sid : \/ Steady(sessions[p], sessions'[p])
                             \/ \A c \in ListedChildren(p) :
                                   c \in sessions'[p].awaited \/ Over(sessions'[c], c) \/ c \in spared'
           /\ \A x \in Sid : Concluding(sessions, sessions', x) => LowerEnded(x)
           /\ hitches' = hitches \/ Hitch
  <1>1. PICK agents \in {Listing(s), sessions[s].agents}, lost \in {{}} \union {{c} : c \in Sid},
             states \in {sessions, Corrected(sessions, ListedChildren(s))} :
          LET targets == {c \in Sid : agents[c] = "running"}
              begun == [states EXCEPT ![s].inbox = @ \ {cmd}, ![s].agents = agents]
          IN  /\ lost \subseteq targets
              /\ IF lost = {} THEN Relisted(s, agents, states)
                 ELSE agents = Listing(s) /\ states = Corrected(sessions, ListedChildren(s)) /\ Hitch
              /\ IF targets = {} THEN sessions' = Concludes(begun, s, cmd)
                 ELSE sessions' = Signalled([begun EXCEPT ![s].stage = "shutdown", ![s].mode = cmd,
                                                           ![s].awaited = targets,
                                                           ![s].published = "active"],
                                            targets \ lost, IF cmd = "done" THEN "done" ELSE "cancel")
              /\ spared' = spared \union {c \in ListedChildren(s) : agents[c] = "untracked"}
    BY Zenon DEF ShutdownBegins
  <1>2. PICK targets : targets = {c \in Sid : agents[c] = "running"}
    OBVIOUS
  <1>3. /\ Good(states) /\ Mildly(sessions, states)
        /\ agents \in [Sid -> {"untracked", "running", "terminal"}]
        /\ \A c \in Sid : agents[c] = "terminal" => Over(sessions[c], c) /\ Over(states[c], c)
    BY RelistedIs
  <1>4. sessions[s].instance = "Running" /\ sessions[s].stage = "loop"
    BY DEF ShutdownBegins, Runs
  <1>5. PICK n \in SessionState : n = states[s] /\ Sound(n)
    BY <1>3, StateOf
  <1>6. PICK m : m = [n EXCEPT !.inbox = n.inbox \ {cmd}, !.agents = agents]
    OBVIOUS
  <1>7. /\ m \in SessionState /\ m.row = n.row
        /\ m.parent = n.parent /\ m.deleted = n.deleted /\ m.instance = n.instance
        /\ m.published = n.published /\ m.stage = n.stage /\ m.mode = n.mode
        /\ m.activity = n.activity /\ m.doomed = n.doomed /\ m.awaited = n.awaited
        /\ m.agents = agents /\ m.reports = n.reports
    BY <1>3, <1>6 DEF SessionState
  <1>8. PICK C : C = [states EXCEPT ![s] = m]
    OBVIOUS
  <1>9. C \in [Sid -> SessionState] /\ C[s] = m /\ \A c \in Sid : c # s => C[c] = states[c]
    BY <1>3, <1>7, <1>8 DEF Good
  <1>10. Good(C) /\ Mildly(states, C)
    <2>1. Mild(states[s], C[s])
      BY <1>5, <1>7, <1>9 DEF Mild
    <2>2. \A c \in Sid : Knows(C[s], c) => Knows(states[s], c) \/ Over(states[c], c)
      BY <1>3, <1>5, <1>7, <1>9 DEF Knows
    <2>3. QED
      BY <1>3, <1>9, <2>1, <2>2, MildOne
  <1>11. C = [states EXCEPT ![s].inbox = @ \ {cmd}, ![s].agents = agents]
    BY <1>3, <1>5, <1>6, <1>8 DEF Good
  <1>12. Mildly(sessions, C)
    BY <1>3, <1>10, MildTwice DEF Mildly
  <1>13. m.instance = "Running" /\ m.stage = "loop"
    BY <1>4, <1>9, <1>12 DEF Mildly, Mild
  <1>14. spared' = spared \union {c \in ListedChildren(s) : agents[c] = "untracked"}
    BY <1>1
  <1>15. spared \subseteq spared' /\ (spared \subseteq Sid => spared' \subseteq Sid)
    BY <1>14 DEF ListedChildren, ChildrenOf
  <1>16. ASSUME NEW c \in ListedChildren(s)
         PROVE  c \in targets \/ (agents[c] = "terminal" /\ Over(sessions[c], c)) \/ c \in spared'
    BY <1>2, <1>3, <1>14 DEF ListedChildren, ChildrenOf
  <1>17. Gently(sessions, C)
    BY <1>10, <1>12, MildlyGently DEF Healthy
  <1>18. hitches' = hitches \/ Hitch
    <2>1. Relisted(s, agents, states) \/ Hitch
      BY Zenon, <1>1
    <2>2. QED
      BY <2>1 DEF Relisted
  <1>19. CASE targets = {}
    <2>1. sessions' = Concludes(C, s, cmd)
      BY <1>1, <1>2, <1>11, <1>19
    <2>2. /\ Good(sessions') /\ \A c \in Sid : Quiet(C[c], sessions'[c]) /\ Steady(C[c], sessions'[c])
          /\ \A c \in Sid : c # s => Mild(C[c], sessions'[c])
      BY <1>9, <1>10, <1>13, <2>1, ConcludesIs
    <2>3. Gently(sessions, sessions')
      BY <1>17, <2>2, GentlyTwice DEF Gently
    <2>4. ASSUME NEW x \in Sid, Concluding(sessions, sessions', x) PROVE LowerEnded(x)
      <3>1. ~Mild(sessions[x], sessions'[x])
        BY <2>4, MildGoesOn DEF Healthy
      <3>2. x = s
        BY <1>12, <2>2, <3>1, MildTwice DEF Mildly
      <3>3. QED
        BY <1>16, <1>19, <3>2 DEF LowerEnded, Over, Ended, Runs
    <2>5. QED
      BY <1>15, <1>18, <2>2, <2>3, <2>4 DEF Gently
  <1>20. CASE targets # {}
    <2>1. PICK o : o = [m EXCEPT !.stage = "shutdown", !.mode = cmd, !.awaited = targets,
                                 !.published = "active"]
      OBVIOUS
    <2>2. /\ o \in SessionState /\ o.row = m.row
          /\ o.parent = m.parent /\ o.deleted = m.deleted /\ o.instance = m.instance
          /\ o.published = "active" /\ o.stage = "shutdown" /\ o.mode = cmd
          /\ o.activity = m.activity /\ o.doomed = m.doomed /\ o.awaited = targets
          /\ o.agents = m.agents /\ o.reports = m.reports
      <3>1. cmd \in Lifecycle \union {"none"} /\ "active" \in State /\ targets \in SUBSET Sid
        BY <1>2 DEF State
      <3>2. QED
        BY <1>7, <2>1, <3>1 DEF SessionState
    <2>3. Sound(m) /\ m.doomed = {} /\ ~m.activity
      BY <1>9, <1>10, <1>13, StateOf DEF Good, Sound
    <2>4. Sound(o)
      BY <1>13, <2>2, <2>3 DEF Sound, Ended, Terminal
    <2>5. Quiet(m, o)
      BY <1>13, <2>2 DEF Quiet, Onward, Ended
    <2>6. PICK D : D = [C EXCEPT ![s] = o]
      OBVIOUS
    <2>7. D \in [Sid -> SessionState] /\ D[s] = o /\ \A c \in Sid : c # s => D[c] = C[c]
      BY <1>9, <2>2, <2>6
    <2>8. Good(D)
      <3>1. Onward(C[s], D[s]) /\ Sound(D[s]) /\ \A c \in Sid : Knows(D[s], c) => Knows(C[s], c)
        BY <1>9, <2>2, <2>4, <2>5, <2>7 DEF Quiet, Knows
      <3>2. QED
        BY <1>10, <2>7, <3>1, OneGood
    <2>9. PICK signal \in Lifecycle : signal = IF cmd = "done" THEN "done" ELSE "cancel"
      BY DEF Lifecycle
    <2>10. sessions' = Signalled(D, targets \ lost, signal)
      <3>1. D = [C EXCEPT ![s].stage = "shutdown", ![s].mode = cmd, ![s].awaited = targets,
                          ![s].published = "active"]
        BY <1>9, <2>1, <2>6
      <3>2. QED
        BY <1>1, <1>2, <1>11, <1>20, <2>9, <3>1
    <2>11. Good(sessions') /\ Mildly(D, sessions')
      BY <2>8, <2>10, SignalledIs
    <2>12. ASSUME NEW c \in Sid
           PROVE  Quiet(sessions[c], sessions'[c]) /\ (c # s => Steady(sessions[c], sessions'[c]))
      <3>1. Quiet(C[c], D[c]) /\ (c # s => Steady(C[c], D[c]))
        BY <1>9, <2>5, <2>7, Unchanged
      <3>2. Quiet(D[c], sessions'[c]) /\ Steady(D[c], sessions'[c])
        BY <2>8, <2>11, MildSteps
      <3>3. Quiet(sessions[c], C[c]) /\ Steady(sessions[c], C[c])
        BY <1>17 DEF Gently
      <3>4. QED
        BY <3>1, <3>2, <3>3, QuietTwice, SteadyTwice
    <2>13. sessions'[s].awaited = targets /\ sessions'[s].stage = "shutdown" /\ sessions'[s].published = "active"
      BY <2>2, <2>7, <2>11 DEF Mildly, Mild
    <2>14. \A c \in ListedChildren(s) :
              c \in sessions'[s].awaited \/ Over(sessions'[c], c) \/ c \in spared'
      <3>1. \A c \in Sid : Over(sessions[c], c) => Over(sessions'[c], c)
        BY <2>12, OverStays DEF Quiet
      <3>2. QED
        BY <1>16, <2>13, <3>1 DEF ListedChildren, ChildrenOf
    <2>15. ASSUME NEW x \in Sid, Concluding(sessions, sessions', x) PROVE LowerEnded(x)
      <3>1. ~Mild(sessions[x], sessions'[x]) /\ x # s
        BY <2>13, <2>15, MildGoesOn DEF Healthy, Concluding
      <3>2. Mild(sessions[x], sessions'[x])
        BY <1>12, <2>7, <2>11, <3>1, MildTwice DEF Mildly
      <3>3. QED
        BY <3>1, <3>2
    <2>16. QED
      BY <1>15, <1>18, <2>11, <2>12, <2>14, <2>15
  <1>21. QED
    BY <1>19, <1>20

----------------------------------------------------------------------------
(* Rows corrected, deletions asked for.                                    *)

LEMMA RowCorrectedMildly ==
    ASSUME Healthy, Viewed, viewer.write \in State, RowCorrected
    PROVE  Mildly(sessions, sessions') /\ Good(sessions')
  <1>1. PICK s \in Sid : s = viewer.of /\ sessions[s].row # "none"
    BY DEF RowCorrected, Viewed
  <1>2. PICK n \in SessionState : n = sessions[s] /\ Sound(n)
    BY StateOf DEF Healthy
  <1>3. PICK row : row = IF viewer.write = "none" THEN n.row ELSE viewer.write
    OBVIOUS
  <1>4. /\ row \in State
        /\ row # n.row => row # "none" /\ (row \in Terminal => Ended(n))
    BY <1>1, <1>2, <1>3 DEF SessionState, Viewed
  <1>5. PICK m : m = [n EXCEPT !.row = row]
    OBVIOUS
  <1>6. /\ m \in SessionState /\ m.row = row
        /\ m.parent = n.parent /\ m.deleted = n.deleted /\ m.instance = n.instance
        /\ m.published = n.published /\ m.stage = n.stage /\ m.mode = n.mode
        /\ m.activity = n.activity /\ m.doomed = n.doomed /\ m.awaited = n.awaited
        /\ m.agents = n.agents /\ m.reports = n.reports
    BY <1>4, <1>5 DEF SessionState
  <1>7. Mild(n, m) /\ \A c \in Sid : Knows(m, c) => Knows(n, c)
    BY <1>1, <1>2, <1>4, <1>6 DEF Mild, Knows
  <1>8. sessions' = [sessions EXCEPT ![s].row = row]
    BY <1>1, <1>2, <1>3 DEF RowCorrected
  <1>9. sessions' \in [Sid -> SessionState] /\ sessions'[s] = m /\ \A c \in Sid : c # s => sessions'[c] = sessions[c]
    BY <1>2, <1>5, <1>6, <1>8 DEF Healthy, Good
  <1>10. QED
    BY <1>2, <1>7, <1>9, MildOne DEF Healthy

(* A client asks for a deletion by command.                                *)
LEMMA DeletionSentMildly ==
    ASSUME Healthy, NEW s \in Sid,
           sessions' = [Corrected(sessions, {s}) EXCEPT ![s].inbox =
                            IF Runs(s) THEN @ \union {"delete"} ELSE @]
    PROVE  Mildly(sessions, sessions') /\ Good(sessions')
  <1>1. PICK C : C = Corrected(sessions, {s})
    OBVIOUS
  <1>2. Good(C) /\ Mildly(sessions, C)
    BY <1>1, CorrectedIs DEF Healthy
  <1>3. PICK n \in SessionState : n = C[s] /\ Sound(n)
    BY <1>2, StateOf
  <1>4. PICK inbox : inbox = IF Runs(s) THEN n.inbox \union {"delete"} ELSE n.inbox
    OBVIOUS
  <1>5. inbox \in SUBSET Lifecycle
    BY <1>4 DEF SessionState, Lifecycle
  <1>6. PICK m : m = [n EXCEPT !.inbox = inbox]
    OBVIOUS
  <1>7. /\ m \in SessionState /\ m.row = n.row
        /\ m.parent = n.parent /\ m.deleted = n.deleted /\ m.instance = n.instance
        /\ m.published = n.published /\ m.stage = n.stage /\ m.mode = n.mode
        /\ m.activity = n.activity /\ m.doomed = n.doomed /\ m.awaited = n.awaited
        /\ m.agents = n.agents /\ m.reports = n.reports
    BY <1>5, <1>6 DEF SessionState
  <1>8. Mild(n, m) /\ \A c \in Sid : Knows(m, c) => Knows(n, c)
    BY <1>7 DEF Mild, Knows
  <1>9. sessions' = [C EXCEPT ![s].inbox = inbox]
    BY <1>1, <1>3, <1>4
  <1>10. sessions' \in [Sid -> SessionState] /\ sessions'[s] = m /\ \A c \in Sid : c # s => sessions'[c] = C[c]
    BY <1>2, <1>3, <1>6, <1>7, <1>9 DEF Good
  <1>11. Good(sessions') /\ Mildly(C, sessions')
    BY <1>2, <1>3, <1>8, <1>10, MildOne, ZenonT(60)
  <1>12. QED
    BY <1>2, <1>11, MildTwice DEF Mildly

----------------------------------------------------------------------------
(* Deletions.                                                              *)

(* A row is deleted: its instance ends, unless it was never started.       *)
LEMMA ErasedIs ==
    ASSUME NEW n \in SessionState, Sound(n), n.row # "none",
           NEW m, m.parent = n.parent, m.published = n.published, m.stage = n.stage,
           m.mode = n.mode, m.activity = n.activity, m.doomed = n.doomed,
           m.deleted = TRUE, m.row # "none",
           n.instance = "none" => m.instance = "none" /\ m.row = n.row,
           n.instance # "none" => Ended(m)
    PROVE  Sound(m) /\ Onward(n, m) /\ Steady(n, m) /\ m.instance # "Running"
  <1>1. Sound(m)
    BY DEF Sound, Ended
  <1>2. Onward(n, m) /\ Steady(n, m) /\ m.instance # "Running"
    BY DEF Onward, Steady, Ended
  <1>3. QED
    BY <1>1, <1>2

(* What a step of a deletion changes for the sessions: one is deleted or   *)
(* struck off a list, none else.                                           *)
Step(A, B) ==
    /\ Good(B)
    /\ \A c \in Sid : Onward(A[c], B[c]) /\ Steady(A[c], B[c])
    /\ \A x \in Sid : ~Concluding(A, B, x)

LEMMA StepAt ==
    ASSUME NEW A, Good(A), NEW s \in Sid, NEW B, B \in [Sid -> SessionState],
           \A c \in Sid : c # s => B[c] = A[c],
           Sound(B[s]), Onward(A[s], B[s]), Steady(A[s], B[s]),
           B[s].agents = A[s].agents, B[s].reports = A[s].reports,
           B[s].published = A[s].published, B[s].stage # "cancelled" \/ B[s].stage = A[s].stage
    PROVE  Step(A, B)
  <1>1. \A c \in Sid : Knows(B[s], c) => Knows(A[s], c)
    BY DEF Knows
  <1>2. Good(B)
    BY <1>1, OneGood
  <1>3. ~Concluding(A, B, s)
    BY DEF Good, Concluding, Sound, Terminal
  <1>4. \A x \in Sid : ~Concluding(A, B, x)
    BY <1>3, OneGoesOn, Unchanged
  <1>5. QED
    BY <1>2, <1>4, Unchanged DEF Step

(* A session e is deleted, or given up, and struck off the lists.          *)
LEMMA StruckOff ==
    ASSUME Deletions, sweep.of \in 0 .. MaxSessions, felled \subseteq Sid, felled' \subseteq Sid,
           \A c \in Sid : Onward(sessions[c], sessions'[c]), spared \subseteq spared', NEW e \in Sid,
           \A c \in Sid : c # e => Runs(c)' = Runs(c) /\ sessions'[c].deleted = sessions[c].deleted,
           Runs(e)' => Runs(e), \A c \in Sid : sessions'[c].stage = sessions[c].stage,
           \A c \in Sid : /\ sessions'[c].doomed \subseteq sessions[c].doomed
                          /\ sessions[c].doomed \subseteq sessions'[c].doomed \union {e},
           sweep'.doomed \subseteq sweep.doomed, sweep.doomed \subseteq sweep'.doomed \union {e},
           sweep'.of = sweep.of \/ (sweep'.of = NoParent /\ sweep'.doomed = {}),
           Reached(e)', \A x \in Offspring(e) : Reached(x)' \/ x \in Doomed',
           \A s \in felled' : \/ s \in felled
                              \/ s = e /\ sessions'[e].deleted /\ \A x \in Offspring(e) : Reached(x)'
    PROVE  Deletions'
  <1>1. /\ \A p : Offspring(p)' = Offspring(p)
        /\ \A d \in Sid : Reached(d) => Reached(d)'
    BY ReachedStays
  <1>2. PICK t : t = sweep.of
    OBVIOUS
  <1>3. PICK u : u = sweep'.of
    OBVIOUS
  <1>4. u \in 0 .. MaxSessions /\ t \in 0 .. MaxSessions
    BY <1>2, <1>3, Numbering DEF NoParent
  <1>5. Lists'
    <2>1. \A s \in Sid : sessions'[s].doomed \subseteq Offspring(s)'
      BY <1>1 DEF Deletions, Lists
    <2>2. u # NoParent => u = t /\ u \in Sid /\ sessions'[u].instance # "none" /\ sweep'.doomed \subseteq Offspring(u)'
      BY <1>1, <1>2, <1>3, <1>4 DEF Deletions, Lists, Onward, Sid, NoParent
    <2>3. u = NoParent => sweep'.doomed = {}
      BY <1>2, <1>3 DEF Deletions, Lists
    <2>4. QED
      BY <1>3, <2>1, <2>2, <2>3 DEF Lists, Offspring, Below, ChildrenOf
  <1>6. \A x \in Family(e) : Reached(x)' \/ x \in Doomed'
    BY DEF Family
  <1>7. ASSUME NEW x \in Doomed PROVE Reached(x)' \/ x \in Doomed'
    <2>1. CASE x = e
      BY <2>1
    <2>2. CASE x \in sweep.doomed /\ x # e
      BY <2>2, DoomedIs
    <2>3. ASSUME NEW a \in Sid, Runs(a), x \in sessions[a].doomed, x # e PROVE Reached(x)' \/ x \in Doomed'
      <3>1. CASE a = e
        BY <2>3, <3>1 DEF Deletions, Lists
      <3>2. CASE a # e
        <4>1. Runs(a)' /\ x \in sessions'[a].doomed
          BY <2>3, <3>2
        <4>2. QED
          BY <4>1, DoomedIs
      <3>3. QED
        BY <3>1, <3>2
    <2>4. QED
      BY <1>7, <2>1, <2>2, <2>3, DoomedIs
  <1>8. \A s \in Sid : sessions'[s].deleted /\ ~sessions[s].deleted =>
           \A d \in Family(s) : Reached(d)' \/ d \in Doomed'
    BY <1>6
  <1>9. \A a \in Sid : Ongoing(a)' => Ongoing(a)
    BY DEF Ongoing
  <1>10. \A a \in Sid : \A d \in sessions[a].doomed : Reached(d)' \/ d \in sessions'[a].doomed
    OBVIOUS
  <1>11. u # NoParent => u = t /\ \A d \in sweep.doomed : Reached(d)' \/ d \in sweep'.doomed
    BY <1>2, <1>3
  <1>12. \A s \in felled' : s \in felled \/ (sessions'[s].deleted /\ \A d \in Family(s) : Reached(d)')
    BY DEF Family
  <1>13. QED
    BY <1>2, <1>3, <1>4, <1>5, <1>7, <1>8, <1>9, <1>10, <1>11, <1>12, DeletionStep

(* A session is erased whose instance has ended or was never started.      *)
LEMMA ErasedAt ==
    ASSUME NEW A, Good(A), NEW e \in Sid, A[e].row # "none", NEW m \in SessionState,
           m.parent = A[e].parent, m.published = A[e].published,
           m.stage = A[e].stage, m.mode = A[e].mode, m.activity = A[e].activity, m.doomed = A[e].doomed,
           m.agents = A[e].agents, m.reports = A[e].reports, m.deleted = TRUE, m.row # "none",
           A[e].instance = "none" => m.instance = "none" /\ m.row = A[e].row,
           A[e].instance # "none" => Ended(m),
           NEW B, B \in [Sid -> SessionState], B[e] = m, \A c \in Sid : c # e => B[c] = A[c]
    PROVE  Step(A, B) /\ B[e].instance # "Running"
  <1>1. PICK n \in SessionState : n = A[e] /\ Sound(n)
    BY StateOf
  <1>2. Sound(m) /\ Onward(n, m) /\ Steady(n, m) /\ m.instance # "Running"
    BY <1>1, ErasedIs
  <1>3. /\ Sound(B[e]) /\ Onward(A[e], B[e]) /\ Steady(A[e], B[e])
        /\ B[e].agents = A[e].agents /\ B[e].reports = A[e].reports
        /\ B[e].published = A[e].published /\ B[e].stage = A[e].stage
    BY <1>1, <1>2
  <1>4. QED
    BY <1>2, <1>3, StepAt

(* deleteAgent, and a deletion by force.                                   *)
LEMMA DeletedAlone ==
    ASSUME Deletions, Healthy, sweep.of \in 0 .. MaxSessions, felled \subseteq Sid,
           NEW e \in Sid, Listed(e), Ended(sessions[e]), NEW m \in SessionState,
           m.parent = sessions[e].parent, m.published = sessions[e].published,
           m.stage = sessions[e].stage, m.mode = sessions[e].mode,
           m.activity = sessions[e].activity, m.doomed = sessions[e].doomed,
           m.agents = sessions[e].agents, m.reports = sessions[e].reports,
           m.deleted = TRUE, m.row # "none", Ended(m),
           sessions' = [sessions EXCEPT ![e] = m],
           spared \union Offspring(e) \subseteq spared', sweep' = sweep, felled' = felled
    PROVE  Step(sessions, sessions') /\ sessions'[e].deleted /\ Deletions'
  <1>1. PICK A : A = sessions
    OBVIOUS
  <1>2. PICK B : B = [A EXCEPT ![e] = m]
    OBVIOUS
  <1>3. Good(A) /\ A[e].row # "none" /\ A[e].instance # "none" /\ A[e].instance # "Running"
    BY <1>1 DEF Healthy, Listed, Ended
  <1>4. B \in [Sid -> SessionState] /\ B[e] = m /\ \A c \in Sid : c # e => B[c] = A[c]
    BY <1>2, <1>3 DEF Good
  <1>5. Step(A, B)
    BY <1>1, <1>3, <1>4, ErasedAt
  <1>6. sessions' = B
    BY <1>1, <1>2
  <1>7. \A c \in Sid : Onward(sessions[c], sessions'[c])
    BY <1>1, <1>5, <1>6 DEF Step
  <1>8. Reached(e)' /\ \A x \in Offspring(e) : Reached(x)'
    BY <1>4, <1>6 DEF Reached
  <1>9. /\ \A c \in Sid : c # e => Runs(c)' = Runs(c) /\ sessions'[c].deleted = sessions[c].deleted
        /\ ~Runs(e)'
    BY <1>1, <1>4, <1>6 DEF Runs, Ended
  <1>10. \A c \in Sid : sessions'[c].stage = sessions[c].stage /\ sessions'[c].doomed = sessions[c].doomed
    BY <1>1, <1>4, <1>6
  <1>11. Deletions'
    BY <1>7, <1>8, <1>9, <1>10, StruckOff
  <1>12. QED
    BY <1>1, <1>4, <1>5, <1>6, <1>11

LEMMA AgentDeletedIs ==
    ASSUME Deletions, Healthy, sweep.of \in 0 .. MaxSessions, felled \subseteq Sid,
           NEW s \in Sid, NEW c \in Sid, AgentDeleted(s, c)
    PROVE  Step(sessions, sessions') /\ sessions'[c].deleted /\ Deletions'
  <1>1. Listed(c) /\ Ended(sessions[c])
    BY ShownEnded DEF AgentDeleted, ListedChildren
  <1>2. PICK n \in SessionState : n = sessions[c]
    BY DEF Healthy, Good
  <1>3. PICK m : m = [n EXCEPT !.deleted = TRUE]
    OBVIOUS
  <1>4. /\ m \in SessionState /\ m.deleted = TRUE /\ m.row = n.row
        /\ m.parent = n.parent /\ m.instance = n.instance
        /\ m.published = n.published /\ m.stage = n.stage /\ m.mode = n.mode
        /\ m.activity = n.activity /\ m.doomed = n.doomed
        /\ m.agents = n.agents /\ m.reports = n.reports
    BY <1>3 DEF SessionState
  <1>5. /\ sessions' = [sessions EXCEPT ![c].deleted = TRUE, ![c].instance = IF @ = "Running" THEN "Failed" ELSE @]
        /\ Spare(c, Offspring(c)) /\ RestOfTree
    BY <1>1 DEF AgentDeleted, Erased, InstanceSurvives, Runs, Ended
  <1>6. sessions' = [sessions EXCEPT ![c] = m]
    <2>1. n.instance # "Running"
      BY <1>1, <1>2 DEF Ended
    <2>2. m = [n EXCEPT !.deleted = TRUE, !.instance = n.instance]
      BY <1>3 DEF SessionState
    <2>3. QED
      BY <1>2, <1>5, <2>1, <2>2 DEF Healthy, Good
  <1>7. m.row # "none" /\ Ended(m)
    BY <1>1, <1>2, <1>4 DEF Listed, Ended
  <1>8. spared \union Offspring(c) \subseteq spared' /\ sweep' = sweep /\ felled' = felled
    BY <1>5 DEF Spare, RestOfTree
  <1>9. QED
    BY <1>1, <1>2, <1>4, <1>6, <1>7, <1>8, DeletedAlone

(* By force: a row is deleted whose instance has ended.                    *)
LEMMA DeletionForced ==
    ASSUME Deletions, Healthy, sweep.of \in 0 .. MaxSessions, felled \subseteq Sid,
           NEW s \in Sid, Listed(s), Ended(sessions[s]), sweep' = sweep, felled' = felled,
           NEW instance \in {"gone", sessions[s].instance},
           sessions' = [sessions EXCEPT ![s].row = "failed", ![s].deleted = TRUE, ![s].instance = instance],
           Spare(s, Offspring(s))
    PROVE  Step(sessions, sessions') /\ sessions'[s].deleted /\ Deletions'
  <1>1. PICK n \in SessionState : n = sessions[s]
    BY DEF Healthy, Good
  <1>2. instance \in {"none", "Running", "Completed", "Failed", "gone"} /\ instance \notin {"none", "Running"}
    BY <1>1 DEF SessionState, Ended
  <1>3. PICK m : m = [n EXCEPT !.row = "failed", !.deleted = TRUE, !.instance = instance]
    OBVIOUS
  <1>4. /\ m \in SessionState /\ m.deleted = TRUE /\ m.row = "failed"
        /\ m.parent = n.parent /\ m.instance = instance
        /\ m.published = n.published /\ m.stage = n.stage /\ m.mode = n.mode
        /\ m.activity = n.activity /\ m.doomed = n.doomed
        /\ m.agents = n.agents /\ m.reports = n.reports
    <2>1. "failed" \in State
      BY DEF State, Terminal
    <2>2. QED
      BY <1>2, <1>3, <2>1 DEF SessionState
  <1>5. sessions' = [sessions EXCEPT ![s] = m]
    BY <1>1, <1>3 DEF Healthy, Good
  <1>6. spared \union Offspring(s) \subseteq spared'
    BY DEF Spare
  <1>7. m.row # "none" /\ Ended(m)
    BY <1>2, <1>4 DEF Ended
  <1>8. QED
    BY <1>1, <1>4, <1>5, <1>6, <1>7, DeletedAlone

(* When that fails the row is written all the same.                        *)
LEMMA ForcedInVain ==
    ASSUME Healthy, NEW s \in Sid, Listed(s), Ended(sessions[s]),
           sessions' = [sessions EXCEPT ![s].row = "failed"]
    PROVE  Mildly(sessions, sessions') /\ Good(sessions')
  <1>1. PICK n \in SessionState : n = sessions[s] /\ Sound(n)
    BY StateOf DEF Healthy
  <1>2. PICK m : m = [n EXCEPT !.row = "failed"]
    OBVIOUS
  <1>3. /\ m \in SessionState /\ m.row = "failed"
        /\ m.parent = n.parent /\ m.deleted = n.deleted /\ m.instance = n.instance
        /\ m.published = n.published /\ m.stage = n.stage /\ m.mode = n.mode
        /\ m.activity = n.activity /\ m.doomed = n.doomed /\ m.awaited = n.awaited
        /\ m.agents = n.agents /\ m.reports = n.reports
    <2>1. "failed" \in State
      BY DEF State, Terminal
    <2>2. QED
      BY <1>2, <2>1 DEF SessionState
  <1>4. Mild(n, m) /\ \A c \in Sid : Knows(m, c) => Knows(n, c)
    BY <1>1, <1>3 DEF Mild, Knows, Listed
  <1>5. sessions' \in [Sid -> SessionState] /\ sessions'[s] = m /\ \A c \in Sid : c # s => sessions'[c] = sessions[c]
    BY <1>1, <1>2, <1>3 DEF Healthy, Good
  <1>6. QED
    BY <1>1, <1>4, <1>5, MildOne DEF Healthy

(* What an enumeration finds: below the session everything is reached, on  *)
(* the new list, or missed and spared.                                     *)
LEMMA EnumeratedNow ==
    ASSUME Covered, Numbered, NEW s \in Sid, spared \union Missed(s) \subseteq spared',
           \A c \in Sid : Onward(sessions[c], sessions'[c]),
           NEW d \in Offspring(s)
    PROVE  Reached(d)' \/ d \in Descendants(s)
  <1>1. SUFFICES ASSUME d \notin Descendants(s) PROVE Reached(d)'
    OBVIOUS
  <1>2. PICK b \in Offspring(s) : sessions[b].deleted /\ d \in Family(b)
    BY <1>1, MissedBelow DEF Numbered
  <1>3. b \in Sid /\ d \in Sid
    BY FamilyHas
  <1>4. Reached(d) \/ d \in Missed(s)
    BY <1>1, <1>2, <1>3 DEF Covered, Missed
  <1>5. QED
    BY <1>3, <1>4, ReachedStays DEF Reached

LEMMA DescendantsEnumeratedIs ==
    ASSUME Deletions, Healthy, Numbered, sweep.of \in 0 .. MaxSessions, felled \subseteq Sid,
           NEW s \in Sid, DescendantsEnumerated(s)
    PROVE  /\ Step(sessions, sessions') /\ Deletions'
           /\ spared \subseteq spared' /\ (spared \subseteq Sid => spared' \subseteq Sid)
  <1>1. PICK n \in SessionState : n = sessions[s] /\ Sound(n)
    BY StateOf DEF Healthy
  <1>2. n.instance = "Running" /\ n.stage = "cancelled" /\ n.doomed = {}
    BY <1>1 DEF DescendantsEnumerated, Runs, Sound
  <1>3. PICK doomed \in SUBSET Sid :
           \/ /\ sessions' = [sessions EXCEPT ![s].stage = "deleting", ![s].doomed = doomed]
              /\ doomed = Descendants(s) /\ spared' = spared \union Missed(s)
           \/ /\ sessions' = [sessions EXCEPT ![s].stage = "deleting", ![s].doomed = doomed]
              /\ doomed = {} /\ spared' = spared \union Offspring(s)
    <2>1. CASE sessions' = [sessions EXCEPT ![s].stage = "deleting", ![s].doomed = Descendants(s)]
               /\ spared' = spared \union Missed(s)
      BY <2>1, DescendantsOffspring, FamilyHas
    <2>2. CASE sessions' = [sessions EXCEPT ![s].stage = "deleting"] /\ spared' = spared \union Offspring(s)
      <3>1. [n EXCEPT !.stage = "deleting"] = [n EXCEPT !.stage = "deleting", !.doomed = {}]
        BY <1>2 DEF SessionState
      <3>2. sessions' = [sessions EXCEPT ![s].stage = "deleting", ![s].doomed = {}]
        BY <1>1, <2>2, <3>1 DEF Healthy, Good
      <3>3. QED
        BY <2>2, <3>2
    <2>3. QED
      BY <2>1, <2>2 DEF DescendantsEnumerated
  <1>4. PICK m : m = [n EXCEPT !.stage = "deleting", !.doomed = doomed]
    OBVIOUS
  <1>5. /\ m \in SessionState /\ m.deleted = n.deleted /\ m.row = n.row
        /\ m.parent = n.parent /\ m.instance = n.instance
        /\ m.published = n.published /\ m.stage = "deleting" /\ m.mode = n.mode
        /\ m.activity = n.activity /\ m.doomed = doomed
        /\ m.agents = n.agents /\ m.reports = n.reports
    BY <1>4 DEF SessionState
  <1>6. PICK A : A = sessions
    OBVIOUS
  <1>7. Good(A) /\ A[s] = n
    BY <1>1, <1>6 DEF Healthy
  <1>8. PICK B : B = [A EXCEPT ![s] = m]
    OBVIOUS
  <1>9. B \in [Sid -> SessionState] /\ B[s] = m /\ \A c \in Sid : c # s => B[c] = A[c]
    BY <1>5, <1>7, <1>8 DEF Good
  <1>10. sessions' = B
    BY <1>1, <1>3, <1>4, <1>6, <1>8 DEF Healthy, Good
  <1>11. Sound(m) /\ Onward(n, m) /\ Steady(n, m)
    <2>1. Sound(m)
      BY <1>1, <1>2, <1>5 DEF Sound, Ended
    <2>2. Onward(n, m) /\ Steady(n, m)
      BY <1>2, <1>5 DEF Onward, Steady, Ended
    <2>3. QED
      BY <2>1, <2>2
  <1>12. Step(A, B)
    BY <1>5, <1>7, <1>9, <1>11, StepAt
  <1>13. \A c \in Sid : Onward(sessions[c], sessions'[c])
    BY <1>6, <1>10, <1>12 DEF Step
  <1>14. spared \subseteq spared' /\ (spared \subseteq Sid => spared' \subseteq Sid)
    BY <1>3, FamilyHas DEF Missed
  <1>15. /\ \A p : Offspring(p)' = Offspring(p)
         /\ \A d \in Sid : Reached(d) => Reached(d)'
    BY <1>13, <1>14, ReachedStays
  <1>16. sweep' = sweep /\ felled' = felled
    BY DEF DescendantsEnumerated, RestOfTree
  <1>17. /\ sessions'[s].doomed = doomed /\ sessions[s].doomed = {}
         /\ \A c \in Sid : c # s => sessions'[c] = sessions[c]
         /\ \A c \in Sid : sessions'[c].deleted = sessions[c].deleted
         /\ \A c \in Sid : Runs(c)' = Runs(c)
    BY <1>1, <1>2, <1>5, <1>6, <1>9, <1>10 DEF Runs
  <1>18. PICK t : t = sweep.of /\ t = sweep'.of
    BY <1>16
  <1>19. doomed \subseteq Offspring(s)
    BY <1>3, DescendantsOffspring
  <1>20. Lists'
    <2>1. \A c \in Sid : sessions'[c].doomed \subseteq Offspring(c)'
      BY <1>15, <1>17, <1>19 DEF Deletions, Lists
    <2>2. t # NoParent => t \in Sid /\ sessions'[t].instance # "none" /\ sweep'.doomed \subseteq Offspring(t)'
      BY <1>13, <1>15, <1>16, <1>18, Numbering DEF Deletions, Lists, Onward, Sid, NoParent
    <2>3. t = NoParent => sweep'.doomed = {}
      BY <1>16, <1>18 DEF Deletions, Lists
    <2>4. QED
      BY <1>18, <2>1, <2>2, <2>3 DEF Lists, Offspring, Below, ChildrenOf
  <1>21. ASSUME NEW x \in Doomed PROVE x \in Doomed'
    <2>1. ASSUME NEW a \in Sid, Runs(a), x \in sessions[a].doomed PROVE Runs(a)' /\ x \in sessions'[a].doomed
      BY <1>17, <2>1
    <2>2. QED
      BY <1>16, <2>1, DoomedIs
  <1>22. \A x \in Offspring(s) : Reached(x)' \/ x \in sessions'[s].doomed
    <2>1. CASE doomed = Descendants(s) /\ spared' = spared \union Missed(s)
      BY <1>13, <1>17, <2>1, EnumeratedNow DEF Deletions
    <2>2. CASE spared' = spared \union Offspring(s)
      BY <2>2 DEF Reached
    <2>3. QED
      BY <1>3, <2>1, <2>2
  <1>23. ASSUME NEW a \in Sid, Ongoing(a)'
         PROVE  \/ Ongoing(a) /\ \A d \in sessions[a].doomed : Reached(d)' \/ d \in sessions'[a].doomed
                \/ \A d \in Offspring(a) : Reached(d)' \/ d \in sessions'[a].doomed
    <2>1. CASE a = s
      BY <1>22, <2>1
    <2>2. CASE a # s
      BY <1>17, <1>23, <2>2 DEF Ongoing
    <2>3. QED
      BY <2>1, <2>2
  <1>24. Deletions'
    BY <1>13, <1>14, <1>16, <1>17, <1>18, <1>20, <1>21, <1>23, DeletionStep
  <1>25. QED
    BY <1>6, <1>10, <1>12, <1>14, <1>24

(* A session is erased: its row is deleted, and its instance ends if it    *)
(* was started.  Or one is struck off the list of a session.               *)
At(A, B, e) == B \in [Sid -> SessionState] /\ \A c \in Sid : c # e => B[c] = A[c]

Kept(n, m) ==
    /\ m.parent = n.parent /\ m.row = n.row /\ m.published = n.published /\ m.stage = n.stage
    /\ m.mode = n.mode /\ m.activity = n.activity /\ m.agents = n.agents /\ m.reports = n.reports

Erasing(n, m, instance) == Kept(n, m) /\ m.deleted = TRUE /\ m.instance = instance /\ m.doomed = n.doomed
Striking(n, m, d) ==
    Kept(n, m) /\ m.deleted = n.deleted /\ m.instance = n.instance /\ m.doomed = n.doomed \ {d}

(* What becomes of an instance that is deleted: one that never started     *)
(* stays so, any other does not run.                                       *)
Quits(before, after) ==
    /\ before = "none" => after = "none"
    /\ before # "none" => after \notin {"none", "Running"}

LEMMA ErasingAt ==
    ASSUME NEW A, Good(A), NEW e \in Sid, A[e].row # "none", NEW instance,
           Quits(A[e].instance, instance),
           NEW B, At(A, B, e), Erasing(A[e], B[e], instance)
    PROVE  /\ Step(A, B) /\ B[e].instance # "Running"
           /\ B[e].deleted /\ B[e].instance = instance
           /\ B[e].stage = A[e].stage /\ B[e].doomed = A[e].doomed
           /\ \A c \in Sid : c # e => B[c] = A[c]
  <1>1. PICK m \in SessionState : m = B[e]
    BY DEF At
  <1>2. A[e].instance # "none" => Ended(m)
    BY <1>1 DEF Ended, Erasing, Quits
  <1>3. Step(A, B) /\ B[e].instance # "Running"
    BY <1>1, <1>2, ErasedAt DEF At, Erasing, Kept, Quits
  <1>4. QED
    BY <1>3 DEF At, Erasing, Kept

(* Only the row is deleted.                                                *)
Surviving(n, m) == Erasing(n, m, n.instance) /\ m.awaited = n.awaited

LEMMA SurvivingAt ==
    ASSUME NEW A, Good(A), NEW e \in Sid, A[e].row # "none",
           NEW B, At(A, B, e), Surviving(A[e], B[e])
    PROVE  /\ Step(A, B) /\ B[e].deleted /\ B[e].instance = A[e].instance
           /\ B[e].stage = A[e].stage /\ B[e].doomed = A[e].doomed
           /\ \A c \in Sid : c # e => B[c] = A[c]
  <1>1. PICK n \in SessionState : n = A[e] /\ Sound(n)
    BY StateOf
  <1>2. PICK m \in SessionState : m = B[e]
    BY DEF At
  <1>3. Surviving(n, m) /\ n.row # "none"
    BY <1>1, <1>2
  <1>4. Sound(m) /\ Onward(n, m) /\ Steady(n, m)
    BY <1>1, <1>3 DEF Sound, Ended, Onward, Steady, Surviving, Erasing, Kept
  <1>5. /\ Sound(B[e]) /\ Onward(A[e], B[e]) /\ Steady(A[e], B[e])
        /\ B[e].agents = A[e].agents /\ B[e].reports = A[e].reports
        /\ B[e].published = A[e].published /\ B[e].stage = A[e].stage
    BY <1>1, <1>2, <1>3, <1>4 DEF Surviving, Erasing, Kept
  <1>6. Step(A, B)
    BY <1>5, StepAt DEF At
  <1>7. QED
    BY <1>6 DEF At, Surviving, Erasing, Kept

LEMMA StruckAt ==
    ASSUME NEW A, Good(A), NEW s \in Sid, NEW d \in Sid, d \in A[s].doomed,
           NEW B, At(A, B, s), Striking(A[s], B[s], d)
    PROVE  /\ Step(A, B) /\ B[s].doomed = A[s].doomed \ {d}
           /\ B[s].deleted = A[s].deleted /\ B[s].instance = A[s].instance /\ B[s].stage = A[s].stage
           /\ \A c \in Sid : c # s => B[c] = A[c]
  <1>1. PICK n \in SessionState : n = A[s] /\ Sound(n)
    BY StateOf
  <1>2. PICK m \in SessionState : m = B[s]
    BY DEF At
  <1>3. Striking(n, m, d) /\ n.stage = "deleting"
    BY <1>1, <1>2 DEF Sound
  <1>4. Sound(m) /\ Onward(n, m)
    BY <1>1, <1>3 DEF Sound, Onward, Ended, Striking, Kept
  <1>5. Steady(n, m)
    BY <1>3 DEF Steady, Striking, Kept
  <1>6. /\ Sound(B[s]) /\ Onward(A[s], B[s]) /\ Steady(A[s], B[s])
        /\ B[s].agents = A[s].agents /\ B[s].reports = A[s].reports
        /\ B[s].published = A[s].published /\ B[s].stage = A[s].stage
    BY <1>1, <1>2, <1>3, <1>4, <1>5 DEF Striking, Kept
  <1>7. Step(A, B)
    BY <1>6, StepAt DEF At
  <1>8. QED
    BY <1>7 DEF At, Striking, Kept

(* The same of the functions the actions write.                            *)
LEMMA ErasingIs ==
    ASSUME NEW A, Good(A), NEW e \in Sid,
           NEW instance \in {"none", "Running", "Completed", "Failed", "gone"},
           NEW B, B = [A EXCEPT ![e].deleted = TRUE, ![e].instance = instance]
    PROVE  At(A, B, e) /\ Erasing(A[e], B[e], instance)
  <1>1. PICK n \in SessionState : n = A[e]
    BY DEF Good
  <1>2. PICK m : m = [n EXCEPT !.deleted = TRUE, !.instance = instance]
    OBVIOUS
  <1>3. m \in SessionState /\ Erasing(n, m, instance)
    BY <1>2 DEF SessionState, Erasing, Kept
  <1>4. B \in [Sid -> SessionState] /\ B[e] = m /\ \A c \in Sid : c # e => B[c] = A[c]
    BY <1>1, <1>2, <1>3 DEF Good
  <1>5. QED
    BY <1>1, <1>3, <1>4 DEF At

LEMMA SurvivingIs ==
    ASSUME NEW A, Good(A), NEW e \in Sid, NEW B, B = [A EXCEPT ![e].deleted = TRUE]
    PROVE  At(A, B, e) /\ Surviving(A[e], B[e])
  <1>1. PICK n \in SessionState : n = A[e]
    BY DEF Good
  <1>2. PICK m : m = [n EXCEPT !.deleted = TRUE]
    OBVIOUS
  <1>3. m \in SessionState /\ Surviving(n, m)
    BY <1>2 DEF SessionState, Surviving, Erasing, Kept
  <1>4. B \in [Sid -> SessionState] /\ B[e] = m /\ \A c \in Sid : c # e => B[c] = A[c]
    BY <1>1, <1>2, <1>3 DEF Good
  <1>5. QED
    BY <1>1, <1>3, <1>4 DEF At

LEMMA StrikingIs ==
    ASSUME NEW A, Good(A), NEW s \in Sid, NEW d, NEW B, B = [A EXCEPT ![s].doomed = @ \ {d}]
    PROVE  At(A, B, s) /\ Striking(A[s], B[s], d)
  <1>1. PICK n \in SessionState : n = A[s]
    BY DEF Good
  <1>2. PICK doomed \in SUBSET Sid : doomed = n.doomed \ {d}
    BY <1>1 DEF SessionState
  <1>3. PICK m : m = [n EXCEPT !.doomed = doomed]
    OBVIOUS
  <1>4. m \in SessionState /\ Striking(n, m, d)
    BY <1>2, <1>3 DEF SessionState, Striking, Kept
  <1>5. B \in [Sid -> SessionState] /\ B[s] = m /\ \A c \in Sid : c # s => B[c] = A[c]
    BY <1>1, <1>2, <1>3, <1>4 DEF Good
  <1>6. QED
    BY <1>1, <1>4, <1>5 DEF At

LEMMA StepTwice ==
    ASSUME NEW A, NEW B, NEW C, Step(A, B), Step(B, C), NEW e \in Sid,
           \A c \in Sid : c # e => C[c] = B[c], B[e] = A[e]
    PROVE  Step(A, C)
  <1>1. ASSUME NEW c \in Sid PROVE Onward(A[c], C[c]) /\ Steady(A[c], C[c])
    <2>1. Onward(A[c], B[c]) /\ Steady(A[c], B[c]) /\ Onward(B[c], C[c]) /\ Steady(B[c], C[c])
      BY DEF Step
    <2>2. QED
      BY <2>1, SteadyTwice DEF Onward
  <1>2. ASSUME NEW x \in Sid, Concluding(A, C, x) PROVE FALSE
    BY <1>2 DEF Step, Concluding
  <1>3. QED
    BY <1>1, <1>2 DEF Step

LEMMA DescendantDeletedIs ==
    ASSUME Deletions, Healthy, Numbered, sweep.of \in 0 .. MaxSessions, felled \subseteq Sid,
           NEW s \in Sid, NEW d \in Sid, DescendantDeleted(s, d)
    PROVE  /\ Step(sessions, sessions') /\ Deletions'
           /\ spared \subseteq spared' /\ (spared \subseteq Sid => spared' \subseteq Sid)
  <1>1. Ongoing(s) /\ d \in sessions[s].doomed
    BY DEF DescendantDeleted, Ongoing
  <1>2. d \in Offspring(s) /\ d # s /\ sessions[d].row # "none"
    BY <1>1, OffspringLater DEF Deletions, Lists
  <1>3. PICK A : A = sessions
    OBVIOUS
  <1>4. Good(A)
    BY <1>3 DEF Healthy
  <1>5. PICK B : B = [A EXCEPT ![s].doomed = @ \ {d}]
    OBVIOUS
  <1>6. /\ Step(A, B) /\ B[s].doomed = A[s].doomed \ {d}
        /\ B[s].deleted = A[s].deleted /\ B[s].instance = A[s].instance /\ B[s].stage = A[s].stage
        /\ \A c \in Sid : c # s => B[c] = A[c]
    <2>1. At(A, B, s) /\ Striking(A[s], B[s], d)
      BY Zenon, <1>4, <1>5, StrikingIs
    <2>2. QED
      BY <1>1, <1>3, <1>4, <2>1, StruckAt
  <1>7. sweep' = sweep /\ felled' = felled
    BY DEF DescendantDeleted, RestOfTree
  <1>8. \A x \in Offspring(s) : Reached(x) \/ x \in sessions[s].doomed
    BY <1>1 DEF Deletions, Enumerated
  <1>9. PICK others \in SUBSET {d} :
           /\ Spare(d, others)
           /\ \/ /\ sessions' = [B EXCEPT ![d].deleted = TRUE, ![d].instance = IF @ = "Running" THEN "Failed" ELSE @]
              \/ others = {d} /\ sessions' = [B EXCEPT ![d].deleted = TRUE]
              \/ others = {d} /\ sessions' = B
    <2>1. \/ Erased(B, d, {}) \/ (sessions' = B /\ Spare(d, {d}))
      BY <1>3, <1>5 DEF DescendantDeleted
    <2>2. {} \in SUBSET {d} /\ {d} \in SUBSET {d} /\ {} \union {d} = {d}
      OBVIOUS
    <2>3. QED
      BY <2>1, <2>2 DEF Erased, InstanceSurvives
  <1>10. spared \subseteq spared' /\ (spared \subseteq Sid => spared' \subseteq Sid)
    BY <1>9 DEF Spare
  <1>11. Good(B) /\ B[d] = A[d] /\ B[d].row # "none"
    BY <1>2, <1>3, <1>6 DEF Step
  <1>12. PICK C : C = sessions'
    OBVIOUS
  <1>13. /\ Step(B, C) /\ C[d].stage = B[d].stage /\ C[d].doomed = B[d].doomed
         /\ C[d].instance = "Running" => B[d].instance = "Running"
         /\ \A c \in Sid : c # d => C[c] = B[c]
         /\ Reached(d)'
    <2>1. CASE sessions' = [B EXCEPT ![d].deleted = TRUE, ![d].instance = IF @ = "Running" THEN "Failed" ELSE @]
      <3>1. PICK instance : instance = IF B[d].instance = "Running" THEN "Failed" ELSE B[d].instance
        OBVIOUS
      <3>2. C = [B EXCEPT ![d].deleted = TRUE, ![d].instance = instance]
        BY <1>12, <2>1, <3>1
      <3>3. /\ instance \in {"none", "Running", "Completed", "Failed", "gone"}
            /\ Quits(B[d].instance, instance)
        BY <1>11, <3>1, StateOf DEF Quits
      <3>4. At(B, C, d) /\ Erasing(B[d], C[d], instance)
        BY Zenon, <1>11, <3>2, <3>3, ErasingIs
      <3>5. /\ Step(B, C) /\ C[d].instance # "Running"
            /\ C[d].deleted /\ C[d].instance = instance
            /\ C[d].stage = B[d].stage /\ C[d].doomed = B[d].doomed
            /\ \A c \in Sid : c # d => C[c] = B[c]
        BY <1>11, <3>3, <3>4, ErasingAt
      <3>6. instance = "none" => d \in spared'
        BY <1>3, <1>9, <1>11, <3>1 DEF Spare
      <3>7. QED
        BY <1>12, <3>5, <3>6 DEF Reached, Ended
    <2>2. CASE others = {d} /\ sessions' = [B EXCEPT ![d].deleted = TRUE]
      <3>1. Reached(d)'
        BY <1>9, <2>2 DEF Spare, Reached
      <3>2. C = [B EXCEPT ![d].deleted = TRUE]
        BY <1>12, <2>2
      <3>3. At(B, C, d) /\ Surviving(B[d], C[d])
        BY Zenon, <1>11, <3>2, SurvivingIs
      <3>4. /\ Step(B, C) /\ C[d].deleted /\ C[d].instance = B[d].instance
            /\ C[d].stage = B[d].stage /\ C[d].doomed = B[d].doomed
            /\ \A c \in Sid : c # d => C[c] = B[c]
        BY <1>11, <3>3, SurvivingAt
      <3>5. QED
        BY <3>1, <3>4
    <2>3. CASE others = {d} /\ sessions' = B
      <3>1. Reached(d)'
        BY <1>9, <2>3 DEF Spare, Reached
      <3>2. Step(B, C)
        BY <1>11, <1>12, <2>3, Unchanged, MildGoesOn DEF Step
      <3>3. QED
        BY <1>12, <2>3, <3>1, <3>2
    <2>4. QED
      BY <1>9, <2>1, <2>2, <2>3
  <1>14. Step(A, C)
    BY <1>6, <1>11, <1>13, StepTwice
  <1>15. \A c \in Sid : Onward(sessions[c], sessions'[c])
    BY <1>3, <1>12, <1>14 DEF Step
  <1>16. C[s] = B[s] /\ B[d] = A[d]
    BY <1>2, <1>11, <1>13
  <1>17. /\ \A c \in Sid : c # d => Runs(c)' = Runs(c) /\ sessions'[c].deleted = sessions[c].deleted
         /\ Runs(d)' => Runs(d)
    BY <1>3, <1>6, <1>12, <1>13, <1>16 DEF Runs
  <1>18. \A c \in Sid : sessions'[c].stage = sessions[c].stage
    BY <1>3, <1>6, <1>12, <1>13, <1>16
  <1>19. /\ \A c \in Sid : sessions'[c].doomed \subseteq sessions[c].doomed
                           /\ sessions[c].doomed \subseteq sessions'[c].doomed \union {d}
         /\ sessions'[s].doomed = sessions[s].doomed \ {d}
    BY <1>3, <1>6, <1>12, <1>13, <1>16
  <1>20. ASSUME NEW x \in Offspring(d) PROVE Reached(x)' \/ x \in Doomed'
    <2>1. x \in Offspring(s) /\ x # d /\ x \in Sid
      BY <1>2, <1>20, OffspringDown, OffspringLater, FamilyHas
    <2>2. Reached(x) \/ x \in sessions'[s].doomed
      BY <1>8, <1>19, <2>1
    <2>3. Runs(s)'
      BY <1>1, <1>2, <1>17 DEF Ongoing
    <2>4. Reached(x) => Reached(x)'
      BY <1>10, <1>15, <2>1, ReachedStays
    <2>5. QED
      BY <2>2, <2>3, <2>4, DoomedIs
  <1>21. Deletions'
    BY <1>7, <1>10, <1>13, <1>15, <1>17, <1>18, <1>19, <1>20, StruckOff
  <1>22. QED
    BY <1>3, <1>10, <1>12, <1>14, <1>21

LEMMA SelfDeletedIs ==
    ASSUME Deletions, Healthy, Numbered, sweep.of \in 0 .. MaxSessions, felled \subseteq Sid,
           NEW s \in Sid, SelfDeleted(s)
    PROVE  Step(sessions, sessions') /\ Deletions' /\ felled' \subseteq Sid
  <1>1. Ongoing(s) /\ sessions[s].doomed = {} /\ spared' = spared /\ sweep' = sweep
    BY DEF SelfDeleted, Ongoing
  <1>2. PICK A : A = sessions
    OBVIOUS
  <1>3. PICK n \in SessionState : n = A[s] /\ Sound(n)
    BY <1>2, StateOf DEF Healthy
  <1>4. Good(A) /\ n.row # "none" /\ n.instance = "Running" /\ n.doomed = {} /\ n.stage = "deleting"
    BY <1>1, <1>2, <1>3 DEF Healthy, Ongoing, Runs, Sound
  <1>5. \A x \in Offspring(s) : Reached(x)
    BY <1>1 DEF Deletions, Enumerated
  <1>6. CASE /\ \E result \in {"Completed", "Failed"} :
                   sessions' = [sessions EXCEPT ![s].deleted = TRUE, ![s].instance = result]
             /\ felled' = felled \union {s}
    <2>1. PICK result : /\ result \in {"Completed", "Failed"}
                        /\ sessions' = [A EXCEPT ![s].deleted = TRUE, ![s].instance = result]
      BY <1>2, <1>6
    <2>2. /\ Step(A, sessions') /\ sessions'[s].instance # "Running"
          /\ sessions'[s].deleted /\ sessions'[s].instance = result
          /\ sessions'[s].stage = A[s].stage /\ sessions'[s].doomed = A[s].doomed
          /\ \A c \in Sid : c # s => sessions'[c] = A[c]
      <3>1. result \in {"none", "Running", "Completed", "Failed", "gone"} /\ result \notin {"none", "Running"}
        BY <2>1
      <3>2. At(A, sessions', s) /\ Erasing(A[s], sessions'[s], result)
        BY Zenon, <1>4, <2>1, <3>1, ErasingIs
      <3>3. Good(A) /\ A[s].row # "none" /\ A[s].instance = "Running"
        BY <1>3, <1>4
      <3>4. PICK B : B = sessions'
        OBVIOUS
      <3>5. At(A, B, s) /\ Erasing(A[s], B[s], result)
        BY Zenon, <3>2, <3>4
      <3>6. Quits(A[s].instance, result)
        BY <3>1, <3>3 DEF Quits
      <3>7. /\ Step(A, B) /\ B[s].instance # "Running"
            /\ B[s].deleted /\ B[s].instance = result
            /\ B[s].stage = A[s].stage /\ B[s].doomed = A[s].doomed
            /\ \A c \in Sid : c # s => B[c] = A[c]
        <4>1. Good(A) /\ A[s].row # "none"
          BY <3>3
        <4>2. QED
          BY <3>5, <3>6, <4>1, ErasingAt
      <3>8. QED
        BY <3>4, <3>7
    <2>3. \A c \in Sid : Onward(sessions[c], sessions'[c])
      BY <1>2, <2>2 DEF Step
    <2>4. Reached(s)'
      BY <2>1, <2>2 DEF Reached, Ended
    <2>5. \A x \in Offspring(s) : Reached(x)'
      BY <1>1, <1>5, <2>3, ReachedStays, FamilyHas
    <2>6. /\ \A c \in Sid : c # s => Runs(c)' = Runs(c) /\ sessions'[c].deleted = sessions[c].deleted
          /\ ~Runs(s)'
          /\ \A c \in Sid : sessions'[c].stage = sessions[c].stage /\ sessions'[c].doomed = sessions[c].doomed
      BY <1>2, <2>2 DEF Runs
    <2>7. /\ felled' \subseteq Sid
          /\ \A x \in felled' : x \in felled \/ (x = s /\ sessions'[s].deleted)
      BY <1>6, <2>2
    <2>8. Deletions'
      BY <1>1, <2>3, <2>4, <2>5, <2>6, <2>7, StruckOff
    <2>9. QED
      BY <1>2, <2>2, <2>7, <2>8
  <1>7. CASE sessions' = [sessions EXCEPT ![s].instance = "Completed"] /\ felled' = felled
    <2>1. PICK m : m = [n EXCEPT !.instance = "Completed"]
      OBVIOUS
    <2>2. /\ m \in SessionState /\ m.deleted = n.deleted /\ m.row = n.row
          /\ m.parent = n.parent /\ m.instance = "Completed"
          /\ m.published = n.published /\ m.stage = n.stage /\ m.mode = n.mode
          /\ m.activity = n.activity /\ m.doomed = n.doomed
          /\ m.agents = n.agents /\ m.reports = n.reports
      BY <2>1 DEF SessionState
    <2>3. sessions' \in [Sid -> SessionState] /\ sessions'[s] = m /\ \A c \in Sid : c # s => sessions'[c] = A[c]
      BY <1>2, <1>3, <1>4, <1>7, <2>1, <2>2 DEF Good
    <2>4. Sound(m)
      BY <1>3, <1>4, <2>2 DEF Sound, Ended
    <2>5. Onward(n, m) /\ Steady(n, m)
      BY <1>4, <2>2 DEF Onward, Steady, Ended
    <2>6. Step(A, sessions')
      BY <1>3, <1>4, <2>2, <2>3, <2>4, <2>5, StepAt
    <2>7. Quiet(n, m)
      BY <1>4, <2>2, <2>5 DEF Quiet
    <2>8. \A c \in Sid : Quiet(sessions[c], sessions'[c])
      BY <1>2, <1>3, <2>3, <2>7, Unchanged
    <2>9. Deletions'
      BY <1>1, <1>7, <2>8, QuietStep
    <2>10. QED
      BY <1>2, <1>7, <2>6, <2>9
  <1>8. QED
    BY <1>6, <1>7 DEF SelfDeleted

LEMMA SweepBeginsIs ==
    ASSUME Deletions, Healthy, Numbered, sweep.of \in 0 .. MaxSessions, felled \subseteq Sid,
           NEW s \in Sid, SweepBegins(s)
    PROVE  /\ sessions' = sessions /\ Deletions'
           /\ spared \subseteq spared' /\ (spared \subseteq Sid => spared' \subseteq Sid)
           /\ sweep' \in [of : 0 .. MaxSessions, doomed : SUBSET Sid]
  <1>1. /\ sweep.of = NoParent /\ sweep' = [of |-> s, doomed |-> Descendants(s)]
        /\ spared' = spared \union Missed(s) /\ sessions' = sessions /\ felled' = felled
        /\ sessions[s].instance # "none"
    BY DEF SweepBegins
  <1>2. \A c \in Sid : Onward(sessions[c], sessions'[c])
    BY <1>1, Unchanged
  <1>3. spared \subseteq spared' /\ (spared \subseteq Sid => spared' \subseteq Sid)
    BY <1>1, FamilyHas DEF Missed
  <1>4. \A p : Offspring(p)' = Offspring(p)
    BY <1>2, <1>3, ReachedStays
  <1>5. PICK t : t = sweep'.of
    OBVIOUS
  <1>6. t = s /\ sweep'.doomed = Descendants(s) /\ s \in 0 .. MaxSessions /\ s # NoParent
    BY <1>1, <1>5, Numbering DEF Sid
  <1>7. Descendants(s) \subseteq Offspring(s) /\ Descendants(s) \subseteq Sid
    BY DescendantsOffspring, FamilyHas
  <1>8. Lists'
    <2>1. \A c \in Sid : sessions'[c].doomed \subseteq Offspring(c)'
      BY <1>1, <1>4 DEF Deletions, Lists
    <2>2. sessions'[t].instance # "none" /\ sweep'.doomed \subseteq Offspring(t)'
      BY <1>1, <1>4, <1>6, <1>7
    <2>3. QED
      BY <1>5, <1>6, <2>1, <2>2 DEF Lists, Offspring, Below, ChildrenOf
  <1>9. ASSUME NEW x \in Doomed PROVE x \in Doomed'
    <2>1. x \notin sweep.doomed
      BY <1>1 DEF Deletions, Lists
    <2>2. PICK a \in Sid : Runs(a) /\ x \in sessions[a].doomed
      BY <1>9, <2>1, DoomedIs
    <2>3. Runs(a)' /\ x \in sessions'[a].doomed
      BY <1>1, <2>2 DEF Runs
    <2>4. QED
      BY <2>3, DoomedIs
  <1>10. \A d \in Offspring(t) : Reached(d)' \/ d \in sweep'.doomed
    BY <1>1, <1>2, <1>6, EnumeratedNow DEF Deletions
  <1>11. \A a \in Sid : /\ Ongoing(a)' => Ongoing(a)
                        /\ sessions'[a].doomed = sessions[a].doomed /\ sessions'[a].deleted = sessions[a].deleted
    BY <1>1 DEF Ongoing, Runs
  <1>12. Deletions'
    BY <1>1, <1>2, <1>3, <1>5, <1>6, <1>8, <1>9, <1>10, <1>11, DeletionStep
  <1>13. QED
    BY <1>1, <1>3, <1>6, <1>7, <1>12

LEMMA RemovedIs ==
    ASSUME Healthy, NEW d \in Sid, sessions[d].row # "none", Removed(d)
    PROVE  /\ Step(sessions, sessions') /\ sessions'[d].deleted /\ Reached(d)'
           /\ spared \subseteq spared' /\ (spared \subseteq Sid => spared' \subseteq Sid)
           /\ \A c \in Sid : sessions'[c].stage = sessions[c].stage /\ sessions'[c].doomed = sessions[c].doomed
           /\ \A c \in Sid : c # d => Runs(c)' = Runs(c) /\ sessions'[c].deleted = sessions[c].deleted
           /\ Runs(d)' => Runs(d)
  <1>1. PICK A : A = sessions
    OBVIOUS
  <1>2. Good(A) /\ A[d].row # "none"
    BY <1>1 DEF Healthy
  <1>3. PICK B : B = sessions'
    OBVIOUS
  <1>4. PICK instance : instance = IF A[d].instance = "none" THEN A[d].instance ELSE "gone"
    OBVIOUS
  <1>5. CASE B = [A EXCEPT ![d].deleted = TRUE, ![d].instance = instance] /\ Spare(d, {})
    <2>1. /\ instance \in {"none", "Running", "Completed", "Failed", "gone"}
          /\ Quits(A[d].instance, instance)
      BY <1>4 DEF Quits
    <2>2. At(A, B, d) /\ Erasing(A[d], B[d], instance)
      BY Zenon, <1>2, <1>5, <2>1, ErasingIs
    <2>3. /\ Step(A, B) /\ B[d].instance # "Running"
          /\ B[d].deleted /\ B[d].instance = instance
          /\ B[d].stage = A[d].stage /\ B[d].doomed = A[d].doomed
          /\ \A c \in Sid : c # d => B[c] = A[c]
      BY <1>2, <2>1, <2>2, ErasingAt
    <2>4. Reached(d)'
      BY <1>1, <1>3, <1>4, <1>5, <2>3 DEF Reached, Ended, Spare
    <2>5. spared \subseteq spared' /\ (spared \subseteq Sid => spared' \subseteq Sid)
      BY <1>5 DEF Spare
    <2>6. QED
      BY <1>1, <1>3, <2>3, <2>4, <2>5 DEF Runs
  <1>6. CASE B = [A EXCEPT ![d].deleted = TRUE] /\ Spare(d, {d})
    <2>1. At(A, B, d) /\ Surviving(A[d], B[d])
      BY Zenon, <1>2, <1>6, SurvivingIs
    <2>2. /\ Step(A, B) /\ B[d].deleted /\ B[d].instance = A[d].instance
          /\ B[d].stage = A[d].stage /\ B[d].doomed = A[d].doomed
          /\ \A c \in Sid : c # d => B[c] = A[c]
      BY <1>2, <2>1, SurvivingAt
    <2>3. Reached(d)' /\ spared \subseteq spared' /\ (spared \subseteq Sid => spared' \subseteq Sid)
      BY <1>6 DEF Reached, Spare
    <2>4. QED
      BY <1>1, <1>3, <2>2, <2>3 DEF Runs
  <1>7. QED
    BY <1>1, <1>3, <1>4, <1>5, <1>6 DEF Removed, InstanceSurvives

(* What the sweeper is deleting.                                           *)
LEMMA SweptIs ==
    ASSUME Deletions, Healthy, sweep \in [of : 0 .. MaxSessions, doomed : SUBSET Sid],
           NEW t, t = sweep.of, t # NoParent
    PROVE  /\ t \in Sid /\ sessions[t].instance # "none" /\ sessions[t].row # "none"
           /\ sweep.doomed \subseteq Offspring(t) /\ sweep.doomed \subseteq Sid
           /\ \A x \in Offspring(t) : Reached(x) \/ x \in sweep.doomed
  <1>1. /\ t \in Sid /\ sessions[t].instance # "none"
        /\ sweep.doomed \subseteq Offspring(t) /\ sweep.doomed \subseteq Sid
        /\ \A x \in Offspring(t) : Reached(x) \/ x \in sweep.doomed
    BY DEF NoParent, Sid, Deletions, Lists, Enumerated
  <1>2. QED
    BY <1>1, StateOf DEF Healthy, Sound

LEMMA SweepContinuesIs ==
    ASSUME Deletions, Healthy, Numbered, felled \subseteq Sid,
           sweep \in [of : 0 .. MaxSessions, doomed : SUBSET Sid], SweepContinues
    PROVE  /\ Step(sessions, sessions') /\ Deletions'
           /\ spared \subseteq spared' /\ (spared \subseteq Sid => spared' \subseteq Sid)
           /\ sweep' \in [of : 0 .. MaxSessions, doomed : SUBSET Sid] /\ felled' \subseteq Sid
  <1>1. PICK t : t = sweep.of
    OBVIOUS
  <1>2. /\ t \in Sid /\ sweep.doomed \subseteq Offspring(t) /\ sweep.doomed \subseteq Sid
        /\ \A x \in Offspring(t) : Reached(x) \/ x \in sweep.doomed
    BY <1>1, SweptIs DEF SweepContinues
  <1>3. PICK d \in sweep.doomed : /\ Removed(d) \/ (UNCHANGED sessions /\ Spare(d, {d}))
                                  /\ sweep' = [sweep EXCEPT !.doomed = @ \ {d}]
    BY DEF SweepContinues
  <1>4. d \in Offspring(t) /\ d \in Sid /\ sessions[d].row # "none"
    BY <1>2, <1>3, OffspringLater
  <1>5. /\ Step(sessions, sessions') /\ Reached(d)'
        /\ spared \subseteq spared' /\ (spared \subseteq Sid => spared' \subseteq Sid)
        /\ \A c \in Sid : sessions'[c].stage = sessions[c].stage /\ sessions'[c].doomed = sessions[c].doomed
        /\ \A c \in Sid : c # d => Runs(c)' = Runs(c) /\ sessions'[c].deleted = sessions[c].deleted
        /\ Runs(d)' => Runs(d)
    <2>1. CASE Removed(d)
      BY <1>4, <2>1, RemovedIs
    <2>2. CASE sessions' = sessions /\ Spare(d, {d})
      <3>1. Step(sessions, sessions')
        BY <2>2, Unchanged, MildGoesOn DEF Step, Healthy
      <3>2. Reached(d)' /\ spared \subseteq spared' /\ (spared \subseteq Sid => spared' \subseteq Sid)
        BY <1>4, <2>2 DEF Spare, Reached
      <3>3. QED
        BY <2>2, <3>1, <3>2 DEF Runs
    <2>3. QED
      BY <1>3, <2>1, <2>2
  <1>6. \A c \in Sid : Onward(sessions[c], sessions'[c])
    BY <1>5 DEF Step
  <1>7. /\ sweep'.of = sweep.of /\ sweep'.doomed = sweep.doomed \ {d}
        /\ sweep' \in [of : 0 .. MaxSessions, doomed : SUBSET Sid]
    BY <1>3
  <1>8. ASSUME NEW x \in Offspring(d) PROVE Reached(x)' \/ x \in Doomed'
    <2>1. x \in Offspring(t) /\ x # d /\ x \in Sid
      BY <1>2, <1>4, <1>8, OffspringDown, OffspringLater
    <2>2. Reached(x) \/ x \in sweep'.doomed
      BY <1>2, <1>7, <2>1
    <2>3. Reached(x) => Reached(x)'
      BY <1>5, <1>6, <2>1, ReachedStays
    <2>4. QED
      BY <2>2, <2>3, DoomedIs
  <1>9. sweep.of \in 0 .. MaxSessions
    OBVIOUS
  <1>10. felled' = felled
    BY DEF SweepContinues
  <1>11. Deletions'
    BY <1>4, <1>5, <1>6, <1>7, <1>8, <1>9, <1>10, StruckOff
  <1>12. QED
    BY <1>5, <1>7, <1>10, <1>11

LEMMA SweepEndsIs ==
    ASSUME Deletions, Healthy, felled \subseteq Sid,
           sweep \in [of : 0 .. MaxSessions, doomed : SUBSET Sid], SweepEnds
    PROVE  /\ Step(sessions, sessions') /\ Deletions'
           /\ spared \subseteq spared' /\ (spared \subseteq Sid => spared' \subseteq Sid)
           /\ sweep' \in [of : 0 .. MaxSessions, doomed : SUBSET Sid] /\ felled' \subseteq Sid
  <1>1. PICK t : t = sweep.of
    OBVIOUS
  <1>2. sweep.doomed = {} /\ sweep' = [of |-> NoParent, doomed |-> {}]
    BY DEF SweepEnds
  <1>3. t \in Sid /\ sessions[t].row # "none" /\ \A x \in Offspring(t) : Reached(x)
    BY <1>1, <1>2, SweptIs DEF SweepEnds
  <1>4. sweep'.of = NoParent /\ sweep'.doomed = {} /\ sweep' \in [of : 0 .. MaxSessions, doomed : SUBSET Sid]
    BY <1>2, Numbering DEF NoParent
  <1>5. sweep.of \in 0 .. MaxSessions /\ sweep'.of \in 0 .. MaxSessions
    BY <1>4
  <1>6. CASE Removed(t) /\ felled' = felled \union {t}
    <2>1. /\ Step(sessions, sessions') /\ sessions'[t].deleted /\ Reached(t)'
          /\ spared \subseteq spared' /\ (spared \subseteq Sid => spared' \subseteq Sid)
          /\ \A c \in Sid : sessions'[c].stage = sessions[c].stage /\ sessions'[c].doomed = sessions[c].doomed
          /\ \A c \in Sid : c # t => Runs(c)' = Runs(c) /\ sessions'[c].deleted = sessions[c].deleted
          /\ Runs(t)' => Runs(t)
      BY <1>3, <1>6, RemovedIs
    <2>2. \A c \in Sid : Onward(sessions[c], sessions'[c])
      BY <2>1 DEF Step
    <2>3. \A x \in Offspring(t) : Reached(x)'
      BY <1>3, <2>1, <2>2, ReachedStays, FamilyHas
    <2>4. felled' \subseteq Sid /\ \A x \in felled' : x \in felled \/ (x = t /\ sessions'[t].deleted)
      BY <1>3, <1>6, <2>1
    <2>5. Deletions'
      BY <1>2, <1>3, <1>4, <1>5, <2>1, <2>2, <2>3, <2>4, StruckOff
    <2>6. QED
      BY <1>4, <2>1, <2>4, <2>5
  <1>7. CASE UNCHANGED <<sessions, spared, felled>>
    <2>1. Step(sessions, sessions') /\ \A c \in Sid : Onward(sessions[c], sessions'[c])
      BY <1>7, Unchanged, MildGoesOn DEF Step, Healthy
    <2>2. \A p : Offspring(p)' = Offspring(p)
      BY <1>7, <2>1, ReachedStays
    <2>3. Lists'
      <3>1. \A c \in Sid : sessions'[c].doomed \subseteq Offspring(c)'
        BY <1>7, <2>2 DEF Deletions, Lists
      <3>2. QED
        BY <1>4, <3>1 DEF Lists
    <2>4. \A x \in Doomed : x \in Doomed'
      BY <1>2, <1>7, DoomedIs DEF Runs
    <2>5. \A a \in Sid : /\ Ongoing(a)' => Ongoing(a)
                         /\ sessions'[a].doomed = sessions[a].doomed /\ sessions'[a].deleted = sessions[a].deleted
      BY <1>7 DEF Ongoing, Runs
    <2>6. Deletions'
      BY <1>4, <1>5, <1>7, <2>1, <2>3, <2>4, <2>5, DeletionStep
    <2>7. QED
      BY <1>4, <1>7, <2>1, <2>6
  <1>8. QED
    BY <1>1, <1>6, <1>7 DEF SweepEnds

----------------------------------------------------------------------------
(* A row is written: the only step that makes the tree grow.               *)

LEMMA SpawnRowIs ==
    ASSUME Healthy, Numbered, Deletions, Viewed, Awaiting, Answered, deletion.of \in Sid,
           sweep.of \in 0 .. MaxSessions, felled \subseteq Sid,
           NEW p \in Sid, SpawnRow(p)
    PROVE  /\ Healthy' /\ Numbered' /\ Deletions' /\ Viewed' /\ Awaiting' /\ Answered'
           /\ \A x \in Sid : ~Concluding(sessions, sessions', x)
           /\ spared \subseteq Sid => spared' \subseteq Sid
  <1>1. PICK c \in Sid :
           /\ sessions[c].row = "none" /\ \A b \in 1 .. c - 1 : sessions[b].row # "none"
           /\ sessions' = [sessions EXCEPT ![c] = [Absent EXCEPT !.parent = p, !.row = "active"]]
           /\ spared' = spared \union (IF OutOfReach(p) THEN {c} ELSE {})
    BY Zenon DEF SpawnRow
  <1>2. sessions[p].activity /\ viewer' = viewer /\ deletion' = deletion /\ sweep' = sweep /\ felled' = felled
    BY DEF SpawnRow, RestOfTree
  <1>3. PICK n \in SessionState : n = sessions[c] /\ Sound(n)
    BY StateOf DEF Healthy
  <1>4. PICK m : m = [Absent EXCEPT !.parent = p, !.row = "active"]
    OBVIOUS
  <1>5. /\ m \in SessionState /\ m.parent = p /\ m.row = "active" /\ m.deleted = FALSE
        /\ m.instance = "none" /\ m.published = "none" /\ m.stage = "loop" /\ m.activity = FALSE
        /\ m.doomed = {} /\ m.reports = {} /\ \A x \in Sid : m.agents[x] = "untracked"
    <2>1. p \in 0 .. MaxSessions /\ "active" \in State /\ "none" \in State /\ NoParent \in 0 .. MaxSessions
      BY Numbering DEF State, Sid, NoParent
    <2>2. [x \in Sid |-> "untracked"] \in [Sid -> {"untracked", "running", "terminal"}]
      OBVIOUS
    <2>3. QED
      BY <1>4, <2>1, <2>2 DEF Absent, SessionState
  <1>6. sessions' \in [Sid -> SessionState] /\ sessions'[c] = m /\ \A x \in Sid : x # c => sessions'[x] = sessions[x]
    BY <1>1, <1>4, <1>5 DEF Healthy, Good
  <1>7. n.row = "none" /\ n.instance = "none" /\ n.deleted = FALSE /\ n.stage = "loop" /\ n.doomed = {} /\ ~n.activity
    BY <1>1, <1>3 DEF Sound, SessionState
  <1>8. sessions[p].row # "none" /\ p # c
    <2>1. Sound(sessions[p])
      BY StateOf DEF Healthy
    <2>2. sessions[p].row # "none"
      BY <1>2, <2>1 DEF Sound
    <2>3. QED
      BY <1>1, <2>2
  <1>9. p < c
    <2>1. p \in Nat /\ c \in Nat /\ ~(c < p)
      BY <1>1, <1>8, Numbering DEF Numbered, Sid
    <2>2. QED
      BY <1>8, <2>1
  <1>10. Healthy'
    <2>1. Sound(m) /\ \A x \in Sid : ~Knows(m, x)
      BY <1>5 DEF Sound, Knows, Terminal, Ended
    <2>2. \A x \in Sid : Sound(sessions'[x])
      BY <1>6, <2>1 DEF Healthy, Good
    <2>3. ~Ended(n) /\ n.stage \notin {"cancelled", "deleting"}
      BY <1>7 DEF Ended
    <2>4. ASSUME NEW x \in Sid, NEW y \in Sid, Knows(sessions'[x], y) PROVE Over(sessions'[y], y)
      <3>1. x # c /\ Knows(sessions[x], y)
        BY <1>6, <2>1, <2>4
      <3>2. Over(sessions[y], y)
        BY <3>1 DEF Healthy, Good
      <3>3. CASE y = c
        BY <1>3, <2>3, <3>2, <3>3 DEF Over
      <3>4. CASE y # c
        BY <1>6, <3>2, <3>4
      <3>5. QED
        BY <3>3, <3>4
    <2>5. QED
      BY <1>6, <2>2, <2>4 DEF Healthy, Good
  <1>11. Numbered'
    <2>1. \A x \in Sid : sessions'[x].parent < x
      BY <1>5, <1>6, <1>9 DEF Numbered
    <2>2. ASSUME NEW x \in Sid, sessions'[x].parent # NoParent
          PROVE  sessions'[x].row # "none" /\ sessions'[sessions'[x].parent].row # "none"
      <3>1. CASE x = c
        BY <1>5, <1>6, <1>8, <3>1
      <3>2. CASE x # c
        <4>1. PICK q : q = sessions[x].parent /\ q = sessions'[x].parent
          BY <1>6, <3>2
        <4>2. q \in Sid /\ sessions[q].row # "none" /\ sessions[x].row # "none"
          <5>1. sessions[x].parent \in 0 .. MaxSessions /\ q # 0
            BY <2>2, <4>1, StateOf DEF Healthy, NoParent
          <5>2. q \in Sid
            BY <4>1, <5>1, Numbering DEF Sid
          <5>3. QED
            BY <2>2, <4>1, <5>2 DEF Numbered
        <4>3. QED
          BY <1>5, <1>6, <3>2, <4>1, <4>2
      <3>3. QED
        BY <3>1, <3>2
    <2>3. ASSUME NEW b \in Sid, NEW x \in Sid, b < x, sessions'[b].row = "none" PROVE sessions'[x].row = "none"
      <3>1. b # c /\ sessions[b].row = "none"
        BY <1>5, <1>6, <2>3
      <3>2. x # c
        BY <1>1, <2>3, <3>1 DEF Sid
      <3>3. QED
        BY <1>6, <2>3, <3>1, <3>2 DEF Numbered
    <2>4. QED
      BY <2>1, <2>2, <2>3 DEF Numbered
  <1>12. /\ \A a \in Sid : Offspring(a) \subseteq Offspring(a)'
         /\ \A a \in Sid : \A d \in Offspring(a)' : d \in Offspring(a) \/ (d = c /\ p \in Family(a))
         /\ \A a \in Sid : \A d \in Family(a)' : d \in Family(a) \/ (d = c /\ p \in Family(a))
    <2>1. sessions'[c].parent = p /\ \A x \in Sid : x # c => sessions'[x].parent = sessions[x].parent
      BY <1>5, <1>6
    <2>2. QED
      BY <1>1, <1>8, <2>1, SpawnedOffspring DEF Family
  <1>13. ASSUME NEW a \in Sid, p \in Family(a),
                sessions[a].deleted \/ sessions[a].stage = "deleting" \/ sweep.of = a
         PROVE  c \in spared'
    <2>1. OutOfReach(p)
      BY <1>13 DEF OutOfReach, Family
    <2>2. QED
      BY <1>1, <2>1
  <1>14. /\ \A a \in Sid : sessions'[a].doomed = sessions[a].doomed /\ Runs(a)' = Runs(a)
         /\ \A a \in Sid : sessions'[a].stage = sessions[a].stage /\ sessions'[a].deleted = sessions[a].deleted
         /\ \A a \in Sid : sessions'[a].instance = sessions[a].instance
    BY <1>3, <1>5, <1>6, <1>7, ZenonT(60) DEF Runs
  <1>15. \A x \in Doomed : x \in Doomed'
    BY <1>2, <1>14, DoomedIs
  <1>16. spared \subseteq spared' /\ (spared \subseteq Sid => spared' \subseteq Sid)
    BY <1>1
  <1>17. \A d \in Sid : Reached(d) => Reached(d)'
    BY <1>14, <1>16 DEF Reached, Ended
  <1>18. PICK t : t = sweep.of /\ t = sweep'.of
    BY <1>2
  <1>19. Deletions'
    <2>1. Lists'
      <3>1. \A x \in Sid : sessions'[x].doomed \subseteq Offspring(x)'
        BY <1>12, <1>14 DEF Deletions, Lists
      <3>2. t # NoParent => t \in Sid /\ sessions'[t].instance # "none" /\ sweep'.doomed \subseteq Offspring(t)'
        BY <1>2, <1>12, <1>14, <1>18, Numbering DEF Deletions, Lists, Sid, NoParent
      <3>3. t = NoParent => sweep'.doomed = {}
        BY <1>2, <1>18 DEF Deletions, Lists
      <3>4. QED
        BY <1>18, <3>1, <3>2, <3>3 DEF Lists, Offspring, Below, ChildrenOf
    <2>2. ASSUME NEW a \in Sid, sessions'[a].deleted, NEW d \in Family(a)' PROVE Reached(d)' \/ d \in Doomed'
      <3>1. sessions[a].deleted
        BY <1>14, <2>2
      <3>2. CASE d \in Family(a)
        BY <1>15, <1>17, <3>1, <3>2, FamilyHas DEF Deletions, Covered
      <3>3. CASE d = c /\ p \in Family(a)
        BY <1>13, <3>1, <3>3 DEF Reached
      <3>4. QED
        BY <1>12, <2>2, <3>2, <3>3
    <2>3. ASSUME NEW a \in Sid, Ongoing(a)', NEW d \in Offspring(a)' PROVE Reached(d)' \/ d \in sessions'[a].doomed
      <3>1. Ongoing(a)
        BY <1>14, <2>3 DEF Ongoing
      <3>2. CASE d \in Offspring(a)
        BY <1>14, <1>17, <3>1, <3>2, FamilyHas DEF Deletions, Enumerated
      <3>3. CASE d = c /\ p \in Family(a)
        BY <1>13, <3>1, <3>3 DEF Reached, Ongoing
      <3>4. QED
        BY <1>12, <2>3, <3>2, <3>3
    <2>4. ASSUME t # NoParent, NEW d \in Offspring(t)' PROVE Reached(d)' \/ d \in sweep'.doomed
      <3>1. t \in Sid
        BY <1>18, <2>4 DEF Sid, NoParent
      <3>2. CASE d \in Offspring(t)
        BY <1>2, <1>17, <1>18, <2>4, <3>1, <3>2, FamilyHas DEF Deletions, Enumerated
      <3>3. CASE d = c /\ p \in Family(t)
        BY <1>13, <1>18, <3>1, <3>3 DEF Reached
      <3>4. QED
        BY <1>12, <2>4, <3>1, <3>2, <3>3
    <2>5. ASSUME NEW a \in felled' PROVE sessions'[a].deleted /\ \A d \in Family(a)' : Reached(d)'
      <3>1. a \in Sid /\ sessions[a].deleted /\ \A d \in Family(a) : Reached(d)
        BY <1>2, <2>5 DEF Deletions, Fell
      <3>2. ASSUME NEW d \in Family(a)' PROVE Reached(d)'
        <4>1. CASE d \in Family(a)
          BY <1>17, <3>1, <4>1, FamilyHas
        <4>2. CASE d = c /\ p \in Family(a)
          BY <1>13, <3>1, <4>2 DEF Reached
        <4>3. QED
          BY <1>12, <3>1, <3>2, <4>1, <4>2
      <3>3. QED
        BY <1>14, <3>1, <3>2
    <2>6. Covered' /\ Fell'
      BY <2>2, <2>5 DEF Covered, Fell
    <2>7. Enumerated'
      BY <1>18, <2>3, <2>4 DEF Enumerated, Offspring, Below, ChildrenOf
    <2>8. QED
      BY <2>1, <2>6, <2>7 DEF Deletions
  <1>20. Viewed'
    <2>1. \A x \in Sid : (sessions[x].row # "none" => sessions'[x].row # "none")
                         /\ (Ended(sessions[x]) => Ended(sessions'[x]))
      BY <1>5, <1>6, <1>14 DEF Ended
    <2>2. PICK v : v = viewer.of /\ v = viewer'.of
      BY <1>2
    <2>3. QED
      BY <1>2, <2>1, <2>2 DEF Viewed
  <1>21. Answered'
    BY <1>2, <1>14 DEF Answered
  <1>22. Awaiting'
    <2>1. ASSUME NEW a \in Sid, Runs(a)', sessions'[a].stage = "shutdown", NEW x \in ListedChildren(a)'
          PROVE  x \in sessions'[a].awaited \/ Over(sessions'[x], x) \/ x \in spared'
      <3>1. Runs(a) /\ sessions[a].stage = "shutdown" /\ a # c /\ Sound(sessions[a])
        BY <1>3, <1>7, <1>14, <2>1, StateOf DEF Healthy
      <3>2. a # p
        BY <1>2, <3>1 DEF Sound, Runs
      <3>3. x \in Sid /\ sessions'[x].parent = a /\ sessions'[x].row # "none" /\ ~sessions'[x].deleted
        BY <2>1 DEF ListedChildren, ChildrenOf, Listed
      <3>4. x # c
        BY <1>5, <1>6, <3>2, <3>3
      <3>5. x \in ListedChildren(a)
        BY <1>6, <3>3, <3>4 DEF ListedChildren, ChildrenOf, Listed
      <3>6. x \in sessions[a].awaited \/ Over(sessions[x], x) \/ x \in spared
        BY <3>1, <3>5 DEF Awaiting
      <3>7. sessions'[a] = sessions[a] /\ sessions'[x] = sessions[x]
        BY <1>6, <3>1, <3>3, <3>4
      <3>8. QED
        BY <1>16, <3>6, <3>7
    <2>2. QED
      BY <2>1 DEF Awaiting
  <1>23. ASSUME NEW x \in Sid, Concluding(sessions, sessions', x) PROVE FALSE
    <2>1. x # c
      BY <1>3, <1>7, <1>23 DEF Concluding
    <2>2. Sound(sessions[x]) /\ sessions'[x] = sessions[x]
      BY <1>6, <2>1, StateOf DEF Healthy
    <2>3. QED
      BY <1>23, <2>2 DEF Concluding, Sound, Terminal
  <1>24. QED
    BY <1>10, <1>11, <1>16, <1>19, <1>20, <1>21, <1>22, <1>23

----------------------------------------------------------------------------
(* The invariant, step by step.                                            *)

LEMMA Counting ==
    ASSUME TreeTypeOK
    PROVE  /\ Hitch => hitches' \in 0 .. MaxHitches
           /\ Request => requests' \in 0 .. MaxRequests
  BY Numbering DEF TreeTypeOK, Hitch, Request

LEMMA Carried ==
    ASSUME TreeInv, Good(sessions'), spared \subseteq spared',
           \A c \in Sid : Onward(sessions[c], sessions'[c]),
           \A s \in Sid : \/ Steady(sessions[s], sessions'[s])
                          \/ \A c \in ListedChildren(s) :
                                c \in sessions'[s].awaited \/ Over(sessions'[c], c) \/ c \in spared'
    PROVE  /\ Healthy' /\ Numbered' /\ Awaiting'
           /\ viewer' = viewer => Viewed'
           /\ deletion' = deletion => Answered'
  <1>1. Healthy'
    BY DEF Healthy
  <1>2. \A c \in Sid : sessions[c].parent \in 0 .. MaxSessions
    BY StateOf DEF TreeInv, Healthy
  <1>3. Numbered' /\ (viewer' = viewer => Viewed')
    BY <1>2, OnwardStep DEF TreeInv
  <1>4. \A c \in Sid : sessions'[c].row # "none" /\ ~sessions'[c].deleted => Listed(c)
    <2>1. \A c \in Sid : sessions[c].deleted \in BOOLEAN /\ sessions'[c].deleted \in BOOLEAN
      BY <1>1, StateOf DEF TreeInv, Healthy
    <2>2. QED
      BY <2>1 DEF Onward, Listed
  <1>5. Awaiting'
    BY <1>4, AwaitingStep DEF TreeInv
  <1>6. deletion' = deletion => Answered'
    BY DEF TreeInv, TreeTypeOK, Answered, Onward
  <1>7. QED
    BY <1>1, <1>3, <1>5, <1>6

(* What a step must not do besides.                                        *)
Ends == \A x \in Sid : Concluding(sessions, sessions', x) => LowerEnded(x)

LEMMA GentleStep ==
    ASSUME TreeInv, Gently(sessions, sessions'), spared \subseteq spared', spared' \subseteq Sid, RestOfTree,
           requests' \in 0 .. MaxRequests, hitches' \in 0 .. MaxHitches
    PROVE  TreeInv'
  <1>1. /\ Good(sessions') /\ \A c \in Sid : Quiet(sessions[c], sessions'[c])
        /\ \A c \in Sid : Onward(sessions[c], sessions'[c]) /\ Steady(sessions[c], sessions'[c])
    BY DEF Gently, Quiet
  <1>2. viewer' = viewer /\ deletion' = deletion /\ sweep' = sweep /\ felled' = felled
    BY DEF RestOfTree
  <1>3. Healthy' /\ Numbered' /\ Awaiting' /\ Viewed' /\ Answered'
    BY <1>1, <1>2, Carried
  <1>4. Deletions'
    BY <1>1, <1>2, QuietStep DEF TreeInv, TreeTypeOK
  <1>5. TreeTypeOK'
    BY <1>1, <1>2 DEF TreeInv, TreeTypeOK, Good
  <1>6. QED
    BY <1>3, <1>4, <1>5 DEF TreeInv

LEMMA TurnSteps ==
    ASSUME TreeInv, NEW s \in Sid,
           \/ TurnStarts(s) \/ SpawnInstance(s) \/ SpawnFails(s) \/ TurnContinues(s)
           \/ TurnCompletesTask(s) \/ TurnCancelled(s) \/ ShutdownTimesOut(s)
           \/ AgentsPolled(s) \/ \E c \in Sid : ReportHeard(s, c)
    PROVE  TreeInv' /\ Ends
  <1>1. Healthy /\ Awaiting
    BY DEF TreeInv
  <1>2. Gently(sessions, sessions') /\ Ends
    <2>1. CASE AgentsPolled(s)
      BY <1>1, <2>1, AgentsPolledGently DEF Ends
    <2>2. CASE \E c \in Sid : ReportHeard(s, c)
      BY <1>1, <2>2, ReportHeardGently DEF Ends
    <2>3. CASE TurnStarts(s)
      BY <1>1, <2>3, TurnStartsGently DEF Ends
    <2>4. CASE SpawnInstance(s) \/ SpawnFails(s)
      BY <1>1, <2>4, SpawnInstanceGently DEF Ends
    <2>5. CASE TurnContinues(s)
      BY <1>1, <2>5, TurnContinuesGently DEF Ends
    <2>6. CASE TurnCompletesTask(s)
      BY <1>1, <2>6, TurnCompletesTaskGently DEF Ends
    <2>7. CASE TurnCancelled(s)
      BY <1>1, <2>7, TurnCancelledGently DEF Ends
    <2>8. CASE ShutdownTimesOut(s)
      BY <1>1, <2>8, ShutdownTimesOutGently DEF Ends
    <2>9. QED
      BY <2>1, <2>2, <2>3, <2>4, <2>5, <2>6, <2>7, <2>8
  <1>3. spared' = spared /\ RestOfTree
    BY DEF TurnStarts, SpawnInstance, SpawnFails, TurnContinues, TurnCompletesTask, TurnCancelled,
           ShutdownTimesOut, AgentsPolled, ReportHeard
  <1>4. requests' = requests /\ (hitches' = hitches \/ Hitch)
    BY DEF TurnStarts, SpawnInstance, SpawnFails, TurnContinues, TurnCompletesTask, TurnCancelled,
           ShutdownTimesOut, AgentsPolled, ReportHeard, NoCounters, Relisted
  <1>5. requests' \in 0 .. MaxRequests /\ hitches' \in 0 .. MaxHitches /\ spared' \subseteq Sid
    BY <1>3, <1>4, Counting DEF TreeInv, TreeTypeOK
  <1>6. QED
    BY <1>2, <1>3, <1>5, GentleStep

LEMMA CommandSteps ==
    ASSUME TreeInv, NEW s \in Sid, NEW cmd \in Lifecycle,
           CommandSent(s, cmd) \/ CommandIgnored(s, cmd) \/ ShutdownBegins(s, cmd)
    PROVE  TreeInv' /\ Ends
  <1>1. CASE CommandSent(s, cmd) \/ CommandIgnored(s, cmd)
    <2>1. Mildly(sessions, sessions') /\ Good(sessions')
      BY <1>1, CommandMildly DEF TreeInv
    <2>2. Gently(sessions, sessions') /\ Ends
      BY <2>1, MildlyGently, MildGoesOn DEF TreeInv, Healthy, Ends, Mildly
    <2>3. spared' = spared /\ RestOfTree
      BY <1>1 DEF CommandSent, CommandIgnored
    <2>4. (requests' = requests \/ Request) /\ hitches' = hitches
      BY <1>1 DEF CommandSent, CommandIgnored, NoCounters
    <2>5. requests' \in 0 .. MaxRequests /\ hitches' \in 0 .. MaxHitches /\ spared' \subseteq Sid
      BY <2>3, <2>4, Counting DEF TreeInv, TreeTypeOK
    <2>6. QED
      BY <2>2, <2>3, <2>5, GentleStep
  <1>2. CASE ShutdownBegins(s, cmd)
    <2>1. /\ Good(sessions') /\ \A c \in Sid : Quiet(sessions[c], sessions'[c])
          /\ spared \subseteq spared' /\ (spared \subseteq Sid => spared' \subseteq Sid)
          /\ \A p \in Sid : \/ Steady(sessions[p], sessions'[p])
                            \/ \A c \in ListedChildren(p) :
                                  c \in sessions'[p].awaited \/ Over(sessions'[c], c) \/ c \in spared'
          /\ Ends
      BY <1>2, ShutdownBeginsIs DEF TreeInv, Ends
    <2>2. /\ requests' = requests /\ (hitches' = hitches \/ Hitch)
          /\ viewer' = viewer /\ deletion' = deletion /\ sweep' = sweep /\ felled' = felled
      <3>1. requests' = requests /\ RestOfTree
        BY <1>2, Zenon DEF ShutdownBegins
      <3>2. hitches' = hitches \/ Hitch
        BY <1>2, ShutdownBeginsIs DEF TreeInv
      <3>3. QED
        BY <3>1, <3>2 DEF RestOfTree
    <2>3. \A c \in Sid : Onward(sessions[c], sessions'[c])
      BY <2>1 DEF Quiet
    <2>4. Healthy' /\ Numbered' /\ Awaiting' /\ Viewed' /\ Answered'
      BY <2>1, <2>2, <2>3, Carried
    <2>5. Deletions'
      BY <2>1, <2>2, QuietStep DEF TreeInv, TreeTypeOK
    <2>6. hitches' \in 0 .. MaxHitches
      BY <2>2, Counting DEF TreeInv, TreeTypeOK
    <2>7. TreeTypeOK'
      BY <2>1, <2>2, <2>6 DEF TreeInv, TreeTypeOK, Good
    <2>8. QED
      BY <2>1, <2>4, <2>5, <2>7 DEF TreeInv
  <1>3. QED
    BY <1>1, <1>2

(* A step of a deletion.                                                   *)
LEMMA StepCarries ==
    ASSUME TreeInv, Step(sessions, sessions'), Deletions', spared \subseteq spared', spared' \subseteq Sid,
           felled' \subseteq Sid, viewer' = viewer, Answered',
           deletion' \in [pc : {"none", "sent", "ok", "timedOut", "failed"}, of : Sid, misread : BOOLEAN],
           sweep' \in [of : 0 .. MaxSessions, doomed : SUBSET Sid],
           requests' \in 0 .. MaxRequests, hitches' \in 0 .. MaxHitches
    PROVE  TreeInv' /\ Ends
  <1>1. /\ Good(sessions') /\ Ends
        /\ \A c \in Sid : Onward(sessions[c], sessions'[c]) /\ Steady(sessions[c], sessions'[c])
    BY DEF Step, Ends
  <1>2. Healthy' /\ Numbered' /\ Awaiting' /\ Viewed'
    BY <1>1, Carried
  <1>3. TreeTypeOK'
    BY <1>1 DEF TreeInv, TreeTypeOK, Good
  <1>4. QED
    BY <1>1, <1>2, <1>3 DEF TreeInv

LEMMA StepAnswered ==
    ASSUME TreeInv, Step(sessions, sessions'), deletion' = deletion
    PROVE  Answered' /\ deletion' \in [pc : {"none", "sent", "ok", "timedOut", "failed"}, of : Sid, misread : BOOLEAN]
  BY DEF TreeInv, TreeTypeOK, Answered, Step, Onward

LEMMA DeletionSteps ==
    ASSUME TreeInv, NEW s \in Sid,
           \/ DescendantsEnumerated(s) \/ SelfDeleted(s)
           \/ \E d \in Sid : DescendantDeleted(s, d) \/ AgentDeleted(s, d)
    PROVE  TreeInv' /\ Ends
  <1>1. /\ Deletions /\ Healthy /\ Numbered /\ sweep.of \in 0 .. MaxSessions
        /\ felled \subseteq Sid /\ spared \subseteq Sid
    BY DEF TreeInv, TreeTypeOK
  <1>2. viewer' = viewer /\ deletion' = deletion /\ sweep' = sweep
    BY DEF DescendantsEnumerated, SelfDeleted, DescendantDeleted, AgentDeleted, RestOfTree
  <1>3. requests' \in 0 .. MaxRequests /\ hitches' \in 0 .. MaxHitches
    <2>1. (requests' = requests \/ Request) /\ (hitches' = hitches \/ Hitch)
      BY DEF DescendantsEnumerated, SelfDeleted, DescendantDeleted, AgentDeleted, Erased, InstanceSurvives
    <2>2. QED
      BY <2>1, Counting DEF TreeInv, TreeTypeOK
  <1>4. /\ Step(sessions, sessions') /\ Deletions'
        /\ spared \subseteq spared' /\ spared' \subseteq Sid /\ felled' \subseteq Sid
    <2>1. CASE DescendantsEnumerated(s)
      <3>1. felled' = felled
        BY <2>1 DEF DescendantsEnumerated, RestOfTree
      <3>2. QED
        BY <1>1, <2>1, <3>1, DescendantsEnumeratedIs
    <2>2. CASE SelfDeleted(s)
      <3>1. spared' = spared
        BY <2>2 DEF SelfDeleted
      <3>2. QED
        BY <1>1, <2>2, <3>1, SelfDeletedIs
    <2>3. ASSUME NEW d \in Sid, DescendantDeleted(s, d)
          PROVE  /\ Step(sessions, sessions') /\ Deletions'
                 /\ spared \subseteq spared' /\ spared' \subseteq Sid /\ felled' \subseteq Sid
      <3>1. felled' = felled
        BY <2>3 DEF DescendantDeleted, RestOfTree
      <3>2. QED
        BY <1>1, <2>3, <3>1, DescendantDeletedIs
    <2>4. ASSUME NEW d \in Sid, AgentDeleted(s, d)
          PROVE  /\ Step(sessions, sessions') /\ Deletions'
                 /\ spared \subseteq spared' /\ spared' \subseteq Sid /\ felled' \subseteq Sid
      <3>1. felled' = felled /\ Erased(sessions, d, Offspring(d))
        BY <2>4 DEF AgentDeleted, RestOfTree
      <3>2. spared \subseteq spared' /\ spared' \subseteq Sid
        BY <1>1, <3>1, FamilyHas DEF Erased, Spare
      <3>3. QED
        BY <1>1, <2>4, <3>1, <3>2, AgentDeletedIs
    <2>5. QED
      BY <2>1, <2>2, <2>3, <2>4
  <1>5. Answered' /\ deletion' \in [pc : {"none", "sent", "ok", "timedOut", "failed"}, of : Sid, misread : BOOLEAN]
    BY <1>2, <1>4, StepAnswered
  <1>6. sweep' \in [of : 0 .. MaxSessions, doomed : SUBSET Sid]
    BY <1>2 DEF TreeInv, TreeTypeOK
  <1>7. QED
    BY <1>2, <1>3, <1>4, <1>5, <1>6, StepCarries

(* A request that only writes a row or sends a command.                    *)
LEMMA MildRequest ==
    ASSUME TreeInv, Mildly(sessions, sessions'), Good(sessions'), Answered',
           deletion' \in [pc : {"none", "sent", "ok", "timedOut", "failed"}, of : Sid, misread : BOOLEAN],
           viewer' = viewer, sweep' = sweep, felled' = felled, spared' = spared,
           requests' \in 0 .. MaxRequests, hitches' \in 0 .. MaxHitches
    PROVE  TreeInv' /\ Ends
  <1>1. /\ Deletions /\ Healthy /\ sweep \in [of : 0 .. MaxSessions, doomed : SUBSET Sid]
        /\ felled \subseteq Sid /\ spared \subseteq Sid
    BY DEF TreeInv, TreeTypeOK
  <1>2. Gently(sessions, sessions')
    BY <1>1, MildlyGently DEF Healthy
  <1>3. Step(sessions, sessions')
    BY <1>1, <1>2, MildGoesOn DEF Gently, Quiet, Step, Healthy, Mildly
  <1>4. \A c \in Sid : Quiet(sessions[c], sessions'[c])
    BY <1>2 DEF Gently
  <1>5. Deletions'
    BY <1>1, <1>4, QuietStep
  <1>6. /\ spared \subseteq spared' /\ spared' \subseteq Sid /\ felled' \subseteq Sid
        /\ sweep' \in [of : 0 .. MaxSessions, doomed : SUBSET Sid]
    BY <1>1
  <1>7. QED
    BY <1>3, <1>5, <1>6, StepCarries

LEMMA RequestStep ==
    ASSUME TreeInv, NEW s \in Sid, DeletionRequested(s)
    PROVE  TreeInv' /\ Ends
  <1>1. /\ Deletions /\ Healthy /\ Numbered /\ sweep.of \in 0 .. MaxSessions
        /\ felled \subseteq Sid /\ spared \subseteq Sid
    BY DEF TreeInv, TreeTypeOK
  <1>2. /\ viewer' = viewer /\ sweep' = sweep /\ felled' = felled
        /\ (hitches' = hitches \/ Hitch) /\ Request /\ Listed(s)
    BY DEF DeletionRequested, Forced
  <1>3. requests' \in 0 .. MaxRequests /\ hitches' \in 0 .. MaxHitches
    BY <1>2, Counting DEF TreeInv, TreeTypeOK
  <1>4. sweep' \in [of : 0 .. MaxSessions, doomed : SUBSET Sid]
    BY <1>2 DEF TreeInv, TreeTypeOK
  <1>5. CASE Shown(s) \in Terminal \/ sessions[s].instance \in {"Completed", "Failed"}
    <2>1. Ended(sessions[s])
      BY <1>1, <1>5, ShownEnded DEF Ended
    <2>2. Forced(s)
      BY <1>5 DEF DeletionRequested
    <2>3. ASSUME NEW instance \in {"gone", sessions[s].instance},
                 sessions' = [sessions EXCEPT ![s].row = "failed", ![s].deleted = TRUE,
                                              ![s].instance = instance],
                 Spare(s, Offspring(s)), deletion' = [deletion EXCEPT !.pc = "ok", !.of = s]
          PROVE  TreeInv' /\ Ends
      <3>1. Step(sessions, sessions') /\ sessions'[s].deleted /\ Deletions'
        BY Zenon, <1>1, <1>2, <2>1, <2>3, DeletionForced
      <3>2. spared \subseteq spared' /\ spared' \subseteq Sid
        BY <1>1, <2>3, FamilyHas DEF Spare
      <3>3. /\ deletion' \in [pc : {"none", "sent", "ok", "timedOut", "failed"}, of : Sid, misread : BOOLEAN]
            /\ deletion'.of = s
        BY <2>3 DEF TreeInv, TreeTypeOK
      <3>4. Answered'
        BY <3>1, <3>3 DEF Answered
      <3>5. QED
        BY <1>1, <1>2, <1>3, <1>4, <3>1, <3>2, <3>3, <3>4, StepCarries
    <2>4. CASE /\ sessions' = [sessions EXCEPT ![s].row = "failed"]
               /\ spared' = spared /\ deletion' = [deletion EXCEPT !.pc = "failed", !.of = s]
      <3>1. Mildly(sessions, sessions') /\ Good(sessions')
        BY Zenon, <1>1, <1>2, <2>1, <2>4, ForcedInVain
      <3>2. /\ deletion' \in [pc : {"none", "sent", "ok", "timedOut", "failed"}, of : Sid, misread : BOOLEAN]
            /\ deletion'.pc = "failed"
        BY <2>4 DEF TreeInv, TreeTypeOK
      <3>3. Answered'
        BY <3>2 DEF Answered
      <3>4. QED
        BY <1>1, <1>2, <1>3, <1>4, <2>4, <3>1, <3>2, <3>3, MildRequest
    <2>5. QED
      BY <2>2, <2>3, <2>4 DEF Forced
  <1>6. CASE ~(Shown(s) \in Terminal \/ sessions[s].instance \in {"Completed", "Failed"})
    <2>1. /\ sessions' = [Corrected(sessions, {s}) EXCEPT ![s].inbox = IF Runs(s) THEN @ \union {"delete"} ELSE @]
          /\ spared' = spared /\ deletion' = [deletion EXCEPT !.pc = "sent", !.of = s]
      BY <1>6 DEF DeletionRequested
    <2>2. Mildly(sessions, sessions') /\ Good(sessions')
      BY Zenon, <1>1, <2>1, DeletionSentMildly
    <2>3. /\ deletion' \in [pc : {"none", "sent", "ok", "timedOut", "failed"}, of : Sid, misread : BOOLEAN]
          /\ deletion'.pc = "sent"
      BY <2>1 DEF TreeInv, TreeTypeOK
    <2>4. Answered'
      BY <2>3 DEF Answered
    <2>5. QED
      BY <1>1, <1>2, <1>3, <1>4, <2>1, <2>2, <2>3, <2>4, MildRequest
  <1>7. QED
    BY <1>5, <1>6

LEMMA SweepSteps ==
    ASSUME TreeInv, SweepContinues \/ SweepEnds \/ \E s \in Sid : SweepBegins(s)
    PROVE  TreeInv' /\ Ends
  <1>1. /\ Deletions /\ Healthy /\ Numbered /\ sweep.of \in 0 .. MaxSessions
        /\ sweep \in [of : 0 .. MaxSessions, doomed : SUBSET Sid]
        /\ felled \subseteq Sid /\ spared \subseteq Sid
    BY DEF TreeInv, TreeTypeOK
  <1>2. viewer' = viewer /\ deletion' = deletion
    BY DEF SweepContinues, SweepEnds, SweepBegins
  <1>3. requests' \in 0 .. MaxRequests /\ hitches' \in 0 .. MaxHitches
    <2>1. (requests' = requests \/ Request) /\ (hitches' = hitches \/ Hitch)
      BY DEF SweepContinues, SweepEnds, SweepBegins, Removed, InstanceSurvives
    <2>2. QED
      BY <2>1, Counting DEF TreeInv, TreeTypeOK
  <1>4. /\ Step(sessions, sessions') /\ Deletions' /\ spared \subseteq spared' /\ spared' \subseteq Sid
        /\ sweep' \in [of : 0 .. MaxSessions, doomed : SUBSET Sid] /\ felled' \subseteq Sid
    <2>1. CASE SweepContinues \/ SweepEnds
      BY <1>1, <2>1, SweepContinuesIs, SweepEndsIs
    <2>2. ASSUME NEW s \in Sid, SweepBegins(s)
          PROVE  /\ Step(sessions, sessions') /\ Deletions' /\ spared \subseteq spared' /\ spared' \subseteq Sid
                 /\ sweep' \in [of : 0 .. MaxSessions, doomed : SUBSET Sid] /\ felled' \subseteq Sid
      <3>1. /\ sessions' = sessions /\ Deletions' /\ spared \subseteq spared' /\ spared' \subseteq Sid
            /\ sweep' \in [of : 0 .. MaxSessions, doomed : SUBSET Sid]
        BY <1>1, <2>2, SweepBeginsIs
      <3>2. felled' = felled
        BY <2>2 DEF SweepBegins
      <3>3. Step(sessions, sessions')
        BY <1>1, <3>1, Unchanged, MildGoesOn DEF Step, Healthy
      <3>4. QED
        BY <1>1, <3>1, <3>2, <3>3
    <2>3. QED
      BY <2>1, <2>2
  <1>5. Answered' /\ deletion' \in [pc : {"none", "sent", "ok", "timedOut", "failed"}, of : Sid, misread : BOOLEAN]
    BY <1>2, <1>4, StepAnswered
  <1>6. QED
    BY <1>2, <1>3, <1>4, <1>5, StepCarries

LEMMA SettlingStep ==
    ASSUME TreeInv, DeletionSettles
    PROVE  TreeInv' /\ Ends
  <1>1. /\ sessions' = sessions /\ viewer' = viewer /\ sweep' = sweep /\ felled' = felled
        /\ spared' = spared /\ requests' = requests /\ (hitches' = hitches \/ Hitch)
    BY DEF DeletionSettles
  <1>2. Healthy /\ Deletions /\ felled \subseteq Sid /\ spared \subseteq Sid /\ sweep.of \in 0 .. MaxSessions
    BY DEF TreeInv, TreeTypeOK
  <1>3. Step(sessions, sessions') /\ \A c \in Sid : Quiet(sessions[c], sessions'[c])
    BY <1>1, <1>2, Unchanged, MildGoesOn DEF Step, Healthy
  <1>4. Deletions'
    BY <1>1, <1>2, <1>3, QuietStep
  <1>5. PICK of \in Sid : of = deletion.of
    BY DEF TreeInv, TreeTypeOK
  <1>6. /\ deletion' \in [pc : {"none", "sent", "ok", "timedOut", "failed"}, of : Sid, misread : BOOLEAN]
        /\ deletion'.of = of
        /\ deletion'.pc = "ok" /\ ~deletion'.misread => sessions[of].deleted
    BY <1>5 DEF DeletionSettles, TreeInv, TreeTypeOK
  <1>7. Answered'
    BY <1>1, <1>6 DEF Answered
  <1>8. /\ requests' \in 0 .. MaxRequests /\ hitches' \in 0 .. MaxHitches
        /\ sweep' \in [of : 0 .. MaxSessions, doomed : SUBSET Sid]
    BY <1>1, Counting DEF TreeInv, TreeTypeOK
  <1>9. spared \subseteq spared' /\ spared' \subseteq Sid /\ felled' \subseteq Sid
    BY <1>1, <1>2
  <1>10. QED
    BY <1>1, <1>3, <1>4, <1>6, <1>7, <1>8, <1>9, StepCarries

LEMMA ViewSteps ==
    ASSUME TreeInv, Views
    PROVE  TreeInv' /\ Ends
  <1>1. /\ deletion' = deletion /\ sweep' = sweep /\ felled' = felled
        /\ spared' = spared /\ requests' = requests /\ hitches' = hitches
    BY DEF Views, RowViewed, StatusViewed, RowCorrected, Unviewed, NoCounters
  <1>2. /\ Healthy /\ Deletions /\ felled \subseteq Sid /\ spared \subseteq Sid /\ sweep.of \in 0 .. MaxSessions
        /\ viewer \in [pc : {"away", "row", "write"}, of : 0 .. MaxSessions, row : State, write : State]
        /\ Viewed
    BY DEF TreeInv, TreeTypeOK
  <1>3. Mildly(sessions, sessions') /\ Good(sessions')
    <2>1. CASE RowCorrected
      BY <1>2, <2>1, RowCorrectedMildly
    <2>2. CASE sessions' = sessions
      BY <1>2, <2>2, Unchanged DEF Mildly, Healthy
    <2>3. QED
      BY <2>1, <2>2 DEF Views, RowViewed, StatusViewed, Unviewed
  <1>4. Gently(sessions, sessions') /\ Ends
    BY <1>2, <1>3, MildlyGently, MildGoesOn DEF Healthy, Ends, Mildly
  <1>5. \A c \in Sid : Quiet(sessions[c], sessions'[c]) /\ Onward(sessions[c], sessions'[c])
                       /\ Steady(sessions[c], sessions'[c])
    BY <1>4 DEF Gently, Quiet
  <1>6. Healthy' /\ Numbered' /\ Awaiting' /\ Answered'
    BY <1>1, <1>3, <1>5, Carried
  <1>7. Deletions'
    BY <1>1, <1>2, <1>5, QuietStep
  <1>8. /\ viewer' \in [pc : {"away", "row", "write"}, of : 0 .. MaxSessions, row : State, write : State]
        /\ Viewed'
    <2>1. CASE RowViewed
      <3>1. PICK s \in Sid : s = viewer.of /\ sessions[s].row # "none" /\ sessions[s].row \in State
        BY <1>2, <2>1, StateOf DEF RowViewed, Listed, Sid, NoParent, Healthy
      <3>2. viewer' = [viewer EXCEPT !.pc = "row", !.row = sessions[s].row] /\ sessions' = sessions
        BY <2>1, <3>1 DEF RowViewed, Unviewed
      <3>3. viewer'.of = s /\ viewer'.write = viewer.write
        BY <1>2, <3>1, <3>2
      <3>4. viewer' \in [pc : {"away", "row", "write"}, of : 0 .. MaxSessions, row : State, write : State]
        BY <1>2, <3>1, <3>2
      <3>5. QED
        BY <1>2, <3>1, <3>2, <3>3, <3>4 DEF Viewed
    <2>2. CASE StatusViewed
      <3>1. PICK s \in Sid : s = viewer.of /\ sessions[s].row # "none"
        BY <1>2, <2>2 DEF StatusViewed, Viewed
      <3>2. PICK row \in State : row = viewer.row
        BY <1>2
      <3>3. PICK fix : fix = Correction(sessions[s], row)
        OBVIOUS
      <3>4. fix \in State /\ (fix \in Terminal => Ended(sessions[s]))
        BY <1>2, <3>3, StateOf, CorrectionIs DEF Healthy
      <3>5. viewer' = [viewer EXCEPT !.pc = "write", !.row = "none", !.write = fix] /\ sessions' = sessions
        BY <2>2, <3>1, <3>2, <3>3 DEF StatusViewed, Unviewed
      <3>6. viewer'.of = s /\ viewer'.write = fix
        BY <1>2, <3>1, <3>5
      <3>7. viewer' \in [pc : {"away", "row", "write"}, of : 0 .. MaxSessions, row : State, write : State]
        <4>1. "none" \in State
          BY DEF State
        <4>2. QED
          BY <1>2, <3>4, <3>5, <4>1
      <3>8. QED
        BY <3>1, <3>4, <3>5, <3>6, <3>7 DEF Viewed
    <2>3. CASE RowCorrected
      <3>1. viewer' = [viewer EXCEPT !.pc = "away", !.write = "none"]
        BY <2>3 DEF RowCorrected
      <3>2. "none" \in State /\ "none" \notin Terminal
        BY DEF State, Terminal
      <3>3. QED
        BY <1>2, <3>1, <3>2 DEF Viewed
    <2>4. QED
      BY <2>1, <2>2, <2>3 DEF Views
  <1>9. TreeTypeOK'
    BY <1>1, <1>3, <1>8 DEF TreeInv, TreeTypeOK, Good
  <1>10. QED
    BY <1>4, <1>6, <1>7, <1>8, <1>9 DEF TreeInv

LEMMA StartsWell == TreeInit => TreeInv
  <1> SUFFICES ASSUME TreeInit PROVE TreeInv
    OBVIOUS
  <1>1. Absent \in SessionState /\ Sound(Absent) /\ ~Ended(Absent) /\ \A c \in Sid : ~Knows(Absent, c)
    <2>1. "none" \in State /\ NoParent \in 0 .. MaxSessions
      BY Numbering DEF State, NoParent
    <2>2. [c \in Sid |-> "untracked"] \in [Sid -> {"untracked", "running", "terminal"}]
      OBVIOUS
    <2>3. Absent \in SessionState
      BY <2>1, <2>2 DEF Absent, SessionState
    <2>4. QED
      BY <2>3 DEF Absent, Sound, Ended, Knows, Terminal
  <1>2. PICK root : root = [Absent EXCEPT !.row = "active", !.instance = "Running"]
    OBVIOUS
  <1>3. /\ root \in SessionState /\ root.row = "active" /\ root.instance = "Running"
        /\ root.parent = NoParent /\ root.deleted = FALSE /\ root.published = "none"
        /\ root.stage = "loop" /\ root.activity = FALSE /\ root.doomed = {}
        /\ root.agents = Absent.agents /\ root.reports = {}
    <2>1. "active" \in State
      BY DEF State
    <2>2. QED
      BY <1>1, <1>2, <2>1 DEF Absent, SessionState
  <1>4. Sound(root) /\ \A c \in Sid : ~Knows(root, c)
    BY <1>3 DEF Sound, Knows, Terminal, Absent
  <1>5. /\ sessions \in [Sid -> SessionState]
        /\ \A s \in Sid : sessions[s] = IF s = 1 THEN root ELSE Absent
    BY <1>1, <1>2, <1>3 DEF TreeInit
  <1>6. Healthy
    BY <1>1, <1>4, <1>5 DEF Healthy, Good
  <1>7. \A s \in Sid : /\ sessions[s].parent = NoParent /\ sessions[s].deleted = FALSE
                       /\ sessions[s].stage = "loop" /\ sessions[s].doomed = {}
                       /\ sessions[s].row = "none" => s # 1
                       /\ s # 1 => sessions[s].row = "none"
    BY <1>3, <1>5 DEF Absent
  <1>8. Numbered
    <2>1. \A c \in Sid : sessions[c].parent < c
      BY <1>7 DEF Sid, NoParent
    <2>2. \A b, c \in Sid : b < c /\ sessions[b].row = "none" => sessions[c].row = "none"
      BY <1>7 DEF Sid
    <2>3. QED
      BY <1>7, <2>1, <2>2 DEF Numbered
  <1>9. /\ viewer.pc = "away" /\ viewer.write = "none" /\ deletion.pc = "none"
        /\ sweep.of = NoParent /\ sweep.doomed = {} /\ felled = {}
    BY DEF TreeInit
  <1>10. Deletions
    BY <1>7, <1>9 DEF Deletions, Lists, Covered, Enumerated, Fell, Ongoing
  <1>11. Answered /\ Viewed /\ Awaiting
    BY <1>7, <1>9 DEF Answered, Viewed, Awaiting, Terminal
  <1>12. TreeTypeOK
    <2>1. 1 \in Sid /\ "none" \in State /\ NoParent \in 0 .. MaxSessions
      BY Numbering DEF Sid, State, NoParent
    <2>2. viewer \in [pc : {"away", "row", "write"}, of : 0 .. MaxSessions, row : State, write : State]
      BY <2>1, Numbering DEF TreeInit, Sid, NoParent
    <2>3. /\ deletion \in [pc : {"none", "sent", "ok", "timedOut", "failed"}, of : Sid, misread : BOOLEAN]
          /\ sweep \in [of : 0 .. MaxSessions, doomed : SUBSET Sid]
      BY <2>1 DEF TreeInit
    <2>4. felled \subseteq Sid /\ spared \subseteq Sid /\ requests \in 0 .. MaxRequests /\ hitches \in 0 .. MaxHitches
      BY Numbering DEF TreeInit
    <2>5. QED
      BY <1>5, <2>2, <2>3, <2>4 DEF TreeTypeOK
  <1>13. QED
    BY <1>6, <1>8, <1>10, <1>11, <1>12 DEF TreeInv

LEMMA NothingHappens ==
    ASSUME TreeInv, UNCHANGED treeVars
    PROVE  TreeInv'
  <1>1. /\ sessions' = sessions /\ viewer' = viewer /\ deletion' = deletion /\ sweep' = sweep
        /\ felled' = felled /\ spared' = spared /\ requests' = requests /\ hitches' = hitches
    BY DEF treeVars
  <1>2. Gently(sessions, sessions')
    BY <1>1, Unchanged DEF TreeInv, Healthy, Gently
  <1>3. /\ requests' \in 0 .. MaxRequests /\ hitches' \in 0 .. MaxHitches
        /\ spared \subseteq spared' /\ spared' \subseteq Sid
    BY <1>1 DEF TreeInv, TreeTypeOK
  <1>4. QED
    BY <1>1, <1>2, <1>3, GentleStep DEF RestOfTree

LEMMA EveryStep ==
    ASSUME TreeInv, TreeNext
    PROVE  TreeInv' /\ Ends
  <1>1. ASSUME NEW s \in Sid,
               \/ TurnStarts(s) \/ SpawnRow(s) \/ SpawnInstance(s) \/ SpawnFails(s)
               \/ TurnContinues(s) \/ TurnCompletesTask(s) \/ TurnCancelled(s)
               \/ \E cmd \in Lifecycle : CommandSent(s, cmd) \/ ShutdownBegins(s, cmd) \/ CommandIgnored(s, cmd)
               \/ \E c \in Sid : ReportHeard(s, c) \/ DescendantDeleted(s, c) \/ AgentDeleted(s, c)
               \/ AgentsPolled(s) \/ ShutdownTimesOut(s) \/ DescendantsEnumerated(s) \/ SelfDeleted(s)
               \/ DeletionRequested(s) \/ SweepBegins(s)
        PROVE  TreeInv' /\ Ends
    <2>1. CASE SpawnRow(s)
      <3>1. /\ Healthy /\ Numbered /\ Deletions /\ Viewed /\ Awaiting /\ Answered /\ deletion.of \in Sid
            /\ sweep.of \in 0 .. MaxSessions /\ felled \subseteq Sid /\ spared \subseteq Sid
        BY DEF TreeInv, TreeTypeOK
      <3>2. /\ Healthy' /\ Numbered' /\ Deletions' /\ Viewed' /\ Awaiting' /\ Answered'
            /\ Ends /\ spared' \subseteq Sid
        BY <2>1, <3>1, SpawnRowIs DEF Ends
      <3>3. /\ viewer' = viewer /\ deletion' = deletion /\ sweep' = sweep /\ felled' = felled
            /\ requests' = requests /\ hitches' = hitches
        BY <2>1 DEF SpawnRow, RestOfTree, NoCounters
      <3>4. TreeTypeOK'
        BY <3>2, <3>3 DEF TreeInv, TreeTypeOK, Healthy, Good
      <3>5. QED
        BY <3>2, <3>4 DEF TreeInv
    <2>2. CASE DeletionRequested(s)
      BY <2>2, RequestStep
    <2>3. CASE SweepBegins(s)
      BY <2>3, SweepSteps
    <2>4. CASE \E cmd \in Lifecycle : CommandSent(s, cmd) \/ ShutdownBegins(s, cmd) \/ CommandIgnored(s, cmd)
      BY <2>4, CommandSteps
    <2>5. CASE \/ DescendantsEnumerated(s) \/ SelfDeleted(s)
               \/ \E d \in Sid : DescendantDeleted(s, d) \/ AgentDeleted(s, d)
      BY <2>5, DeletionSteps
    <2>6. CASE \/ TurnStarts(s) \/ SpawnInstance(s) \/ SpawnFails(s) \/ TurnContinues(s)
               \/ TurnCompletesTask(s) \/ TurnCancelled(s) \/ ShutdownTimesOut(s)
               \/ AgentsPolled(s) \/ \E c \in Sid : ReportHeard(s, c)
      BY <2>6, TurnSteps
    <2>7. QED
      BY <1>1, <2>1, <2>2, <2>3, <2>4, <2>5, <2>6
  <1>2. QED
    BY <1>1, SettlingStep, SweepSteps, ViewSteps DEF TreeNext

LEMMA TreeInvariant == TreeSpec => []TreeInv
  <1>1. TreeInv /\ [TreeNext]_treeVars => TreeInv'
    BY EveryStep, NothingHappens
  <1>2. QED
    BY <1>1, StartsWell, PTL DEF TreeSpec

(* What a row, an instance and a shutdown of each session may be, and who  *)
(* is looking at them and deleting them, whatever happens.                 *)
THEOREM TreeTypes == TreeSpec => []TreeTypeOK
  <1>1. TreeInv => TreeTypeOK
    BY DEF TreeInv
  <1>2. QED
    BY <1>1, TreeInvariant, PTL

(* A deletion (deleteSession, the sweeper's cleanup_session, the session's *)
(* own) leaves no row and no instance of the session and of what it had    *)
(* spawned, except what it did not reach; a client that hears of it leaves *)
(* no more than what a deletion in progress has on its list.               *)
THEOREM GoneTogether == TreeSpec => []GoneWithOffspring
  <1>1. TreeInv => GoneWithOffspring
    <2> SUFFICES ASSUME TreeInv PROVE GoneWithOffspring
      OBVIOUS
    <2>1. ASSUME NEW d, Reached(d), d \notin spared PROVE Gone(d)
      BY <2>1 DEF Reached, Gone, Runs, Ended
    <2>2. \A s \in felled : \A d \in ({s} \union Offspring(s)) \ spared : Gone(d)
      BY <2>1 DEF TreeInv, Deletions, Fell, Family
    <2>3. ASSUME deletion.pc = "ok", ~deletion.misread,
                 NEW d \in ({deletion.of} \union Offspring(deletion.of)) \ (spared \union Doomed)
          PROVE  Gone(d)
      <3>1. deletion.of \in Sid /\ sessions[deletion.of].deleted
        BY <2>3 DEF TreeInv, TreeTypeOK, Answered
      <3>2. Reached(d)
        BY <2>3, <3>1 DEF TreeInv, Deletions, Covered, Family
      <3>3. QED
        BY <2>1, <2>3, <3>2
    <2>4. QED
      BY <2>2, <2>3 DEF GoneWithOffspring
  <1>2. QED
    BY <1>1, TreeInvariant, PTL

(* A graceful shutdown (maybeResolveAgentWaitCompletion) concludes only    *)
(* when the sub-agents the session knew of have ended, are cancelled or    *)
(* deleting themselves; those on a schedule apart.                         *)
THEOREM SubAgentsFirst == TreeSpec => EndsAfterSubAgents
  <1>1. TreeInv /\ [TreeNext]_treeVars =>
          [\A s \in Sid :
             (/\ sessions[s].stage \in {"loop", "shutdown"} /\ Runs(s)
              /\ sessions'[s].stage = "cancelled" \/ sessions'[s].published \in {"completed", "cancelled"})
             => \A c \in ListedChildren(s) \ (spared' \union Scheduled) :
                  ~Runs(c) \/ sessions[c].stage \in {"cancelled", "deleting"}]_treeVars
    BY EveryStep DEF Ends, Concluding, LowerEnded, Runs
  <1>2. QED
    BY <1>1, TreeInvariant, PTL DEF TreeSpec, EndsAfterSubAgents
=============================================================================
