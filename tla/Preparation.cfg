\* Two requests, one of which can be posted again after a failure, a
\* cancellation or a restart; every interleaving with one preparation thread,
\* one cancel request, one fault and one crash of the API process.
SPECIFICATION Spec
CONSTANTS
    r1 = r1
    r2 = r2
    r3 = r3
    qa = qa
    qb = qb
    Runs = {r1, r2, r3}
    Requests = {qa, qb}
    Request <- RequestOf
    Fingerprint <- ManifestOf
    Clients = {c1}
    NoRun = NoRun
    MaxThreads = 1
    MaxFaults = 1
    MaxRestarts = 1
CHECK_DEADLOCK FALSE
INVARIANTS
    TypeOK
    OnePreparation
    EveryIdAnswers
    PreparationCancelApplied
    QueuedIsDelivered
    AcceptedCancelLands
PROPERTIES
    FinalStaysFinal
