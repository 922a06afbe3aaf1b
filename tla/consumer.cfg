\* Two consumers and one partition, with fairness: rebalances, evicted
\* consumers, crashes, failed inserts and commits; a pool that takes a dict for
\* JSONB, and one that does not, as db.py creates it.  No symmetry: liveness.  The
\* processes may all have ended.
SPECIFICATION FairSpec
CONSTANTS
    Consumers = {c1, c2}
    Partitions = {p1}
    Entries = {a, b}
    Garbage = {bad}
    NoOne = NoOne
    BatchSize = 2
    OnBatch = TRUE
    Codecs = {TRUE, FALSE}
    MaxRecords = 2
    MaxFaults = 1
    MaxStarts = 2
CHECK_DEADLOCK FALSE
INVARIANTS
    CommitCoversOnlySettled
    CommitCoversOffered
    IndInv
PROPERTIES
    CommittedNeverRewinds
    ImplementsLogStore
    RecordsAreWorkedOff
