CONSTANTS
    FIFO_BUCKET_COUNT = 3
    MAX_BUCKET_BYTES = 12
    MAX_DRAIN_PER_TURN = 3
    MaxArrivals = 6
    ItemBytes <- MCItemBytes
    Worker = {w1, w2}
    NoWorker = nobody
    Store = store
    MaxTurns = 2
    MaxTroubles = 2
    MAX_HANDOFF_RETRIES = 2
    MAX_CONNECTION_RETRIES = 1
    SkipsUnready = FALSE
    Wait = {c1, c2}
    MaxDetours = 1
    MaxEvents = 4
    PageSize = 2
    MaxMishaps = 1
    Session = {s1, s2}
    MaxSends = 2
    MaxHandles = 2
    MaxFaults = 1
    MaxRecorded = 5
    Window = 2
    FeedPage = 2
    SyncPage = 2
    MaxMoves = 2
    MaxSessions = 3
    Scheduled = {3}
    MaxRequests = 2
    MaxHitches = 1
SPECIFICATION ServicesSpec
INVARIANTS
    ServicesTypeOK
    ArrivalOrder
    BucketsWithinLimit
    LostOnlyByOverflow
    SavedTurnsRemembered
    DehydrateKeepsDisk
    ShutdownKeepsTurns
    OwnAnswerReturned
    QuestionAnsweredOnce
    DeliveredOnceInOrder
    CompletedMeansConcluded
    OneTurnAtATime
    ShownOnceInOrder
    GapsOnlyFromOldAnswers
    GoneWithOffspring
PROPERTIES
    ImplementsQueue
    ArchiveDeletedKnowingly
    TurnSettles
    AnswerReachesWait
    EveryEventDelivered
    TurnsReturn
    PaneCatchesUp
    EndsAfterSubAgents
    RowsSettle
\* every component may stop: no prompt, no event, nothing to do
CHECK_DEADLOCK FALSE
