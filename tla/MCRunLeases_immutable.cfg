\* A cancellation and a worker's outcome overwrite each other.
SPECIFICATION Spec
CONSTANTS
    w1 = w1
    w2 = w2
    host1 = host1
    host2 = host2
    Nobody = Nobody
    Worker = {w1, w2}
    WorkerId = {host1, host2}
    IdOf <- OneIdEach
    Run = {1}
    Client = {c1}
    MaxCrashes = 0
    MaxFaults = 0
PROPERTY TerminalIsImmutable
\* Every run ends, every transaction commits and the workers keep polling.
CHECK_DEADLOCK FALSE
