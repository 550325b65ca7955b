\* A writer without the repository in its allowlist, or a head that moved late.
SPECIFICATION Spec
CONSTANTS
    Pinned = 2
    MaxCommits = 5
    MaxAttempts = 2
INVARIANT EveryRefusalIsRecorded
\* The run ends and humans run out of commits.
CHECK_DEADLOCK FALSE
