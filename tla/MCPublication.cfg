SPECIFICATION Spec
CONSTANTS
    Stores = {s1, s2}
    Gens = {g1, g2}
    NoGen = NoGen
    MaxRev = 1
    Retention = 1
INVARIANTS
    ActiveWasWitnessed
PROPERTIES
    ClosedStoreNeverActivates
    ServedUntilSuperseded
    StartupResolvesTheDead
    ActiveNeverGoesBack
SYMMETRY Symmetry
CHECK_DEADLOCK FALSE
