\* The code as main.py runs it: one process, no callback, a pool without a codec;
\* no faults.
SPECIFICATION FairSpec
CONSTANTS
    Consumers = {c1}
    Partitions = {p1}
    Entries = {a, b}
    Garbage = {bad}
    NoOne = NoOne
    BatchSize = 1
    OnBatch = FALSE
    Codecs = {FALSE}
    MaxRecords = 2
    MaxFaults = 0
    MaxStarts = 1
CHECK_DEADLOCK FALSE
PROPERTY
    EntriesGetStored
