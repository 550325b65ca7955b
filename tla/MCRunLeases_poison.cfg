\* A cancelled run whose worker crashed blocks every later takeover.
SPECIFICATION LiveSpec
CONSTANTS
    w1 = w1
    w2 = w2
    host1 = host1
    host2 = host2
    Nobody = Nobody
    Worker = {w1, w2}
    WorkerId = {host1, host2}
    IdOf <- OneIdEach
    Run = {1, 2}
    Client = {c1}
    MaxCrashes = 1
    MaxFaults = 1
PROPERTY LeasedRunEnds
\* Every run ends, every transaction commits and the workers keep polling.
CHECK_DEADLOCK FALSE
