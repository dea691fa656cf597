\* One request whose message the queue refuses, posted again in the same process.
SPECIFICATION FairSpec
CONSTANTS
    r1 = r1
    r2 = r2
    r3 = r3
    qa = qa
    qb = qb
    Runs = {r1}
    Requests = {qa}
    Request <- RequestOf
    Fingerprint <- ManifestOf
    Clients = {}
    NoRun = NoRun
    MaxThreads = 1
    MaxFaults = 1
    MaxRestarts = 0
CHECK_DEADLOCK FALSE
PROPERTIES
    QueuedReplayRequeued
