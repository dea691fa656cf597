\* Every interleaving of two submissions of one manifest, two workers and two
\* cancel requests, with one redelivery, one failing write and one crash.
SPECIFICATION Spec
CONSTANTS
    r1 = r1
    r2 = r2
    Runs = {r1, r2}
    Fingerprint <- OneFingerprint
    Workers = {w1, w2}
    Clients = {c1, c2}
    NoRun = NoRun
    MaxQueue = 2
    MaxRedeliver = 1
    MaxFaults = 1
    MaxCrashes = 1
SYMMETRY Symmetry
CHECK_DEADLOCK FALSE
INVARIANTS
    TypeOK
    SingleOwner
    OnlyErrorsFail
    AcceptedCancelSticks
    NoRunForgotten
PROPERTIES
    StoreContract
