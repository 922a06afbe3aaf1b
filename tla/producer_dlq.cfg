\* The client fails to deliver an entry, and reports it to the send of another.
SPECIFICATION Spec
CONSTANTS
    Entries = {a, b}
    Raw <- Good
    MaxRetries = 3
    MaxBatch = 1
    BufferLimit = 2
    MaxRepeats = 0
CHECK_DEADLOCK FALSE
INVARIANT
    FailedDeliveriesAreDeadLetters
