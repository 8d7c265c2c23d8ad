\* What a callback that throws between the pokes of a discard leaves behind.
SPECIFICATION Spec
CONSTANTS
    Atoms = {a, b}
    MaxDrafts = 1
    MaxIntents = 1
    Values <- Bits
    Class <- Identity
    SetValues = {0}
    Updaters <- Flip
    Thrown = Thrown
    EffectsThrow = TRUE
    NoLog = NoLog
PROPERTIES DiscardsAreTold
CHECK_DEADLOCK FALSE
