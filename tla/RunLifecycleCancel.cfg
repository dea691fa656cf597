\* One submission, one worker, one cancel request, nothing crashes or fails.
SPECIFICATION FairSpec
CONSTANTS
    r1 = r1
    r2 = r2
    Runs = {r1, r2}
    Fingerprint <- OneFingerprint
    Workers = {w1}
    Clients = {c1}
    NoRun = NoRun
    MaxQueue = 1
    MaxRedeliver = 0
    MaxFaults = 0
    MaxCrashes = 0
CHECK_DEADLOCK FALSE
PROPERTIES
    CancelCompletes
