\* Three clients for two places, one failing payload, with fairness.  No
\* symmetry: liveness.  The clients may all have gone.
SPECIFICATION FairSpec
CONSTANTS
    Clients = {c1, c2, c3}
    MaxClients = 2
    MaxFaults = 1
CHECK_DEADLOCK FALSE
INVARIANTS
    TypeOK
    LimitExceededOnlyByOverlap
    QuietClientsStay
PROPERTY
    GoneClientsLeave
