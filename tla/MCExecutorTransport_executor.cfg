\* Launches that compete for a directory, and every small diff in a workspace.
SPECIFICATION LiveSpec
CONSTANTS
    l1 = l1
    l2 = l2
    f = f
    g = g
    h = h
    a = a
    b = b
    Nobody = Nobody
    DevNull = DevNull
    Launch = {l1, l2}
    Scenario <- AllScenarios
    MaxCrashes = 1
INVARIANTS TypeOK ResultIsOwn OneWriter BoxesAreRemoved ValidatedIsPushed PatchMeansWhatItSays
PROPERTIES RunsRecipeOnce EveryLaunchEnds
\* Every launch is answered and every container ends.
CHECK_DEADLOCK FALSE
