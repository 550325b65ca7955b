\* Two workers and an API transaction race for two runs.
SPECIFICATION LiveSpec
CONSTANTS
    w1 = w1
    w2 = w2
    host1 = host1
    host2 = host2
    Nobody = Nobody
    Worker = {w1, w2}
    WorkerId = {host1, host2}
    IdOf <- OneIdEach
    Run = {1, 2}
    Client = {c1}
    MaxCrashes = 1
    MaxFaults = 1
INVARIANTS TypeOK LeasedHasLease QueuedIsUntouched SingleOutcome IndInv
PROPERTIES TerminalStaysTerminal QueueDrains RefinesLifecycle LifecycleIsLive
\* Every run ends, every transaction commits and the workers keep polling.
CHECK_DEADLOCK FALSE
