CONSTANTS
    Worker = {w1}
    NoWorker = nobody
    Store = store
    MaxTurns = 1
    MaxTroubles = 2
    MAX_HANDOFF_RETRIES = 2
    MAX_CONNECTION_RETRIES = 1
    SkipsUnready = TRUE
SPECIFICATION HandoffSpec
INVARIANT DehydrateKeepsDisk
\* a session that has had its turns stops
CHECK_DEADLOCK FALSE
