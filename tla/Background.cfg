\* One scheduled or queued post with its webhook, one export schedule with its
\* first archive, or one deletion: two replicas, two syncs.
SPECIFICATION FairSpec
CONSTANTS
    Replicas = {r1, r2}
    Syncs = {s1, s2}
    Events = {1, 2}
    MaxRetries = 5
    Page = 1
    MaxAttempts = 2
    MaxFaults = 2
    MaxChanges = 1
INVARIANTS TypeOK DoneOnce NotesAreTrue
PROPERTIES NothingReturns WaitingEnds
CHECK_DEADLOCK FALSE
