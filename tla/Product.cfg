\* The draft store and the backtest service: three requests at a time against
\* one draft, and two runs and a refreshing preflight with one worker thread, one
\* permit and one cache entry, with shutdown and cancellation at any moment.
SPECIFICATION ProductSpec
CONSTANTS
    d0 = d0
    d1 = d1
    d2 = d2
    d3 = d3
    gone = gone
    c1 = c1
    c2 = c2
    c3 = c3
    ka = ka
    Keys = {ka}
    Drafts = {d0, d1, d2, d3, gone}
    Calls = {c1, c2, c3}
    Seeds = {d0}
    Lost = {gone}
    NoDraft = NoDraft
    NoCall = NoCall
    NoSlot = NoSlot
    NoKey = NoKey
    Slots <- IdempotencySlots
    Hashes <- RequestHashes
    Scenes <- DraftScenes
    HistoryLimit = 2
    MaxAttempts = 3
    r1 = r1
    r2 = r2
    p1 = p1
    qa = qa
    qb = qb
    JobRuns = {r1, r2}
    Preflights = {p1}
    DataKey <- KeyOf
    Refreshes = {p1}
    MaxWorkers = 1
    Capacity = 1
    CacheSize = 1
    MaxRetries = 1
CHECK_DEADLOCK FALSE
INVARIANTS
    TypeOK
    SameKeySameAnswer
    OneTurnPerRequest
    EndsHonestly
    PreparationsFresh
PROPERTIES
    ImplementsContract
    LandsOnItsRevision
    JobsSettle
