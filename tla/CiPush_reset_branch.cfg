\* A human resets the branch between the last read of the ref and the update.
SPECIFICATION Spec
CONSTANTS
    Pinned = 2
    MaxCommits = 5
    MaxAttempts = 2
PROPERTY WritesOnPinnedHead
\* The run ends and humans run out of commits.
CHECK_DEADLOCK FALSE
