\* A hunk with more lines than its header counts is applied without them.
SPECIFICATION Spec
CONSTANTS
    l1 = l1
    l2 = l2
    f = f
    g = g
    h = h
    a = a
    b = b
    Nobody = Nobody
    DevNull = DevNull
    Launch = {l1, l2}
    Scenario <- MiscountedScenarios
    MaxCrashes = 0
INVARIANT CountsAreChecked
\* Every launch is answered and every container ends.
CHECK_DEADLOCK FALSE
