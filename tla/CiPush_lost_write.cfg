\* The transaction of a write that landed is rolled back, and the run tried again.
SPECIFICATION Spec
CONSTANTS
    Pinned = 2
    MaxCommits = 5
    MaxAttempts = 2
INVARIANT SupersededByHumans
\* The run ends and humans run out of commits.
CHECK_DEADLOCK FALSE
