CONSTANTS
    Prompt = {p1}
    cmdOf <- NoCommand
    Child = {c1}
    InitialChild = {c1}
    TurnOutcome <- WaitOutcomes
    TurnFailure = {}
    MaxSurprises = 1
    Inputs <- UserOnly
    HydrateMayFail = FALSE
    RefreshMayFail = FALSE
    MAX_RETRIES = 3
    COPILOT_CONNECTION_CLOSED_MAX_RETRIES = 3
    MAX_DRAIN_PER_TURN = 2
    MAX_ITERATIONS_PER_EXECUTION = 2
    HISTORY_SIZE_CHECK_INTERVAL_ITERATIONS = 3
    ShutdownPolls = 2
SPECIFICATION FairSpec
PROPERTIES
    DigestDelivered
\* a session that has ended stays as it is
CHECK_DEADLOCK FALSE
