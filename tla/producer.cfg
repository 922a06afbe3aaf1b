\* Three logs that normalise, one of them by defaults, and one that is blank, in
\* requests of up to two; two attempts, a buffer of two, one lost acknowledgement;
\* one insert of the consumer beside the startup, and one fault of the database.
\* No symmetry: liveness.  Deadlock: the process ends.
SPECIFICATION ServiceSpec
CONSTANTS
    b = b
    blank = blank
    Entries = {a, b, c, blank}
    Raw <- SomeRaw
    MaxRetries = 2
    MaxBatch = 2
    BufferLimit = 2
    MaxRepeats = 1
    MaxInserts = 1
    MaxDbFaults = 1
CHECK_DEADLOCK FALSE
INVARIANTS
    ServiceTypeOK
    TopicIsReadable
    DeadLettersAreNotInKafka
    NoDuplicatesBySend
    
    PoolTroubleHasACause
PROPERTIES
    FullForGood
    SendEnds
