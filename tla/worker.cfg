\* Two workers of concurrency one, three anomalies of which at most one does not
\* parse, one fault, two starts, with fairness.  No symmetry: liveness.
\* Deadlock: the workers may all have ended.
SPECIFICATION FairSpec
CONSTANTS
    Workers = {w1, w2}
    Concurrency = 1
    MaxPushes = 3
    MaxUnreadable = 1
    MaxFaults = 1
    MaxStarts = 2
CHECK_DEADLOCK FALSE
INVARIANTS
    TypeOK
    TasksBounded
    EveryAnomalyIsAccountedFor
PROPERTIES
    ImplementsAnalysisOnce
    QueueIsWorkedOff
    StopTerminates
