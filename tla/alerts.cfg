\* Two calls of process() at a time and one failure.  Deadlock: every analysis
\* may be processed.
SPECIFICATION Spec
CONSTANTS
    r1 = r1  r2 = r2  r3 = r3  r4 = r4  r5 = r5  r6 = r6  r7 = r7
    Results <- MCResults
    Channels <- MCChannels
    Severities <- MCSeverities
    Services <- MCServices
    SeverityOf <- MCSeverityOf
    ServiceOf <- MCServiceOf
    ConfidenceOf <- MCConfidenceOf
    Request <- MCRequest
    Reply <- MCReply
    Rules <- MCRules
    Concurrency = 2
    MaxFaults = 1
SYMMETRY Interchangeable
CHECK_DEADLOCK FALSE
INVARIANTS
    TypeOK
    StatusTellsDelivery
    CooldownHasACause
    OutcomesAgree
    RoutedPerCooldown
    FailedAnalysesStaySilent
