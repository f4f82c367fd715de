\* Two requests at a time and three job identifiers: one original, two copies.
CONSTANTS
    j1 = j1
    j2 = j2
    j3 = j3
    r1 = r1
    r2 = r2
    Jobs = {j1, j2, j3}
    Requests = {r1, r2}
    NoJob = NoJob
    MaxEnqueued = 1
    SlowRetries = FALSE
SPECIFICATION FairSpec
INVARIANTS
    TypeOK
    OneCopyUnlessBroken
    RetriedJobsLiveOn
PROPERTY LocksAreReleased
