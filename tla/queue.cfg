\* Two pipelines, a queue of two, and one interruption.  Deadlock: detection
\* may have nothing more to report.
SPECIFICATION Spec
CONSTANTS
    e1 = e1  e2 = e2  e3 = e3  e4 = e4  e5 = e5
    k1 = k1  k2 = k2
    Events <- MCEvents
    Keys <- MCKeys
    KeyOf <- MCKeyOf
    Minor <- MCMinor
    Unreadable <- MCUnreadable
    Pushers = {p1, p2}
    MaxQueueSize = 2
    MaxBatch = 2
    MaxFaults = 1
SYMMETRY Interchangeable
CHECK_DEADLOCK FALSE
INVARIANTS
    QueueBound
    SuppressedOnlyBehindQueued
    DuplicatesBounded
    EveryEventHasAnOutcome
