\* Two atoms shared by two drafts, with updaters and callbacks that may throw.
SPECIFICATION Spec
CONSTANTS
    Atoms = {a, b}
    MaxDrafts = 2
    MaxIntents = 2
    Values <- Bits
    Class <- Identity
    SetValues = {0}
    Updaters <- FlipOrThrow
    Thrown = Thrown
    EffectsThrow = TRUE
    NoLog = NoLog
SYMMETRY AtomSymmetry
INVARIANTS TypeOK LogsStartOpen WrittenIsLogged
CHECK_DEADLOCK FALSE
