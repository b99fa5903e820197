CONSTANTS
    Prompt = {}
    cmdOf <- DoneOrCancel
    Child = {c1, c2}
    InitialChild = {c1}
    TurnOutcome <- AgentOutcomes
    TurnFailure = {}
    MaxSurprises = 2
    Inputs <- AgentsOrShutdown
    HydrateMayFail = FALSE
    RefreshMayFail = TRUE
    MAX_RETRIES = 3
    COPILOT_CONNECTION_CLOSED_MAX_RETRIES = 3
    MAX_DRAIN_PER_TURN = 2
    MAX_ITERATIONS_PER_EXECUTION = 1
    HISTORY_SIZE_CHECK_INTERVAL_ITERATIONS = 9
    ShutdownPolls = 2
SPECIFICATION FairSpec
\* what it leaves out is never all that may happen next
ACTION_CONSTRAINT OneQuestion
INVARIANTS
    TypeOK
    CommandsAnswered
PROPERTIES
    WaitKept
    AgentWaitEnds
    ShutdownEnds
\* a session that has ended stays as it is
CHECK_DEADLOCK FALSE
