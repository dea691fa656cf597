\* The same system under fair scheduling, without crashes and store faults:
\* every run settles, and a cancellation that meets an owner is carried out.
SPECIFICATION FairSpec
CONSTANTS
    r1 = r1
    r2 = r2
    Runs = {r1, r2}
    Fingerprint <- OneFingerprint
    Workers = {w1, w2}
    Clients = {c1}
    NoRun = NoRun
    MaxQueue = 2
    MaxRedeliver = 1
    MaxFaults = 0
    MaxCrashes = 0
CHECK_DEADLOCK FALSE
PROPERTIES
    RunSettles
    OwnerCompletesCancel
