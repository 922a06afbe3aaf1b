\* Two clients for two places.
SPECIFICATION Spec
CONSTANTS
    Clients = {c1, c2}
    MaxClients = 2
    MaxFaults = 0
CHECK_DEADLOCK FALSE
INVARIANT
    BroadcastReachesAll
