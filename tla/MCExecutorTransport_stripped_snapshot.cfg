\* A patch tested without a file that the commit has.
SPECIFICATION Spec
CONSTANTS
    l1 = l1
    l2 = l2
    f = f
    g = g
    h = h
    a = a
    b = b
    Nobody = Nobody
    DevNull = DevNull
    Launch = {l1, l2}
    Scenario <- StrippedScenarios
    MaxCrashes = 0
INVARIANT TestedTreeIsPushed
\* Every launch is answered and every container ends.
CHECK_DEADLOCK FALSE
