CONSTANTS
    Prompt = {p1, p2}
    cmdOf <- Queries
    Child = {}
    InitialChild = {}
    TurnOutcome <- UserOutcomes
    TurnFailure = {}
    MaxSurprises = 2
    Inputs <- UserOrSystem
    HydrateMayFail = FALSE
    RefreshMayFail = FALSE
    MAX_RETRIES = 3
    COPILOT_CONNECTION_CLOSED_MAX_RETRIES = 3
    MAX_DRAIN_PER_TURN = 3
    MAX_ITERATIONS_PER_EXECUTION = 4
    HISTORY_SIZE_CHECK_INTERVAL_ITERATIONS = 3
    ShutdownPolls = 2
SPECIFICATION FairSpec
INVARIANTS
    PromptsAccounted
    CommandsAnswered
    CronNeverParked
PROPERTIES
    NoReplay
    WaitKept
    PromptsHandled
\* a session that has ended stays as it is
CHECK_DEADLOCK FALSE
