CONSTANTS
    Session = {s1, s2}
    MaxSends = 2
    MaxHandles = 2
    MaxFaults = 2
SPECIFICATION CodexSpec
INVARIANT QueueFreedByClose
\* with the queue held nothing may be left to do
CHECK_DEADLOCK FALSE
