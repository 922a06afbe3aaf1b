\* One call at a time, and both channels of an alert may fail.
SPECIFICATION Spec
CONSTANTS
    r1 = r1  r2 = r2  r3 = r3  r4 = r4  r5 = r5  r6 = r6  r7 = r7
    Results <- MCResults
    Channels <- MCChannels
    Severities <- MCSeverities
    Services <- MCServices
    SeverityOf <- MCSeverityOf
    ServiceOf <- MCServiceOf
    ConfidenceOf <- MCConfidenceOf
    Request <- MCRequest
    Reply <- MCReply
    Rules <- MCRules
    Concurrency = 1
    MaxFaults = 2
SYMMETRY Interchangeable
CHECK_DEADLOCK FALSE
INVARIANTS
    HeldBackAfterASending
