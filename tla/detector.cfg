\* Two services; histories of three values, scoring from two on, training at
\* three windows and every two.  The bound on windows may have been reached.
SPECIFICATION Spec
CONSTANTS
    Services = {s1, s2}
    Grades = {0, 17, 50, 100}
    MinSamples = 2
    HistoryLen = 3
    MinTrain = 3
    Retrain = 2
    MaxBatch = 2
    MaxSeen = 6
CHECK_DEADLOCK FALSE
INVARIANTS
    TypeOK
    ForestIsCurrent
    FlaggedByStatistics
    FlaggedIsQueueable
