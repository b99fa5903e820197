CONSTANTS
    Prompt = {p1, p2}
    cmdOf <- NoCommand
    Child = {c1}
    InitialChild = {c1}
    TurnOutcome <- AgentWaits
    TurnFailure = {"other"}
    MaxSurprises = 3
    Inputs <- UserOnly
    HydrateMayFail = FALSE
    RefreshMayFail = FALSE
    MAX_RETRIES = 3
    COPILOT_CONNECTION_CLOSED_MAX_RETRIES = 3
    MAX_DRAIN_PER_TURN = 2
    MAX_ITERATIONS_PER_EXECUTION = 2
    HISTORY_SIZE_CHECK_INTERVAL_ITERATIONS = 3
    ShutdownPolls = 2
SPECIFICATION FairSpec
INVARIANTS
    PromptsAccounted
\* a session that has ended stays as it is
CHECK_DEADLOCK FALSE
