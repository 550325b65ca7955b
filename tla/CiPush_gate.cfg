\* Two attempts, humans who push and reset, an opt-in that runs out.
SPECIFICATION Spec
CONSTANTS
    Pinned = 2
    MaxCommits = 5
    MaxAttempts = 2
INVARIANTS TypeOK StatusTellsTheWrite
PROPERTIES HumanWorkIsKept WriteIsJustified
\* The run ends and humans run out of commits.
CHECK_DEADLOCK FALSE
