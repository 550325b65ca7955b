\* A tool call raises after it took a number.
SPECIFICATION Spec
CONSTANTS
    Thread = {t1, t2}
    MaxCalls = 3
    MaxTurns = 5
    MaxUsd = 2
    MaxBatch = 2
    MaxPrice = 1
INVARIANT CallsAreRecorded
\* An orchestration ends.
CHECK_DEADLOCK FALSE
