\* Any two operations may fail, crashes anywhere; histories of two.
SPECIFICATION Spec
CONSTANTS
    Entries = {e1, e2}
    Bindings = {b1, b2}
    Clients = {o1}
    StateRetention = 2
    GenerationRetention = 2
    FaultyOps = {"generation", "state", "pointer", "mirror", "prune", "reconcile",
                 "schedule", "quiesce"}
    MaxFaults = 2
    MaxFiles = 8
    NoEntries = NoEntries  NoBindings = NoBindings
SYMMETRY Symmetry
INVARIANTS PointerResolves LiveIsDurable ReadyMeansScheduled
PROPERTIES NoBlindPublication RefinesRegister
