\* What a throwing updater leaves behind.
SPECIFICATION Spec
CONSTANTS
    Atoms = {a, b}
    MaxDrafts = 1
    MaxIntents = 1
    Values <- MCValues
    Class <- MCClass
    SetValues = {1, 2}
    Updaters <- WithThrow
    Thrown = Thrown
    EffectsThrow = FALSE
    NoLog = NoLog
PROPERTIES RetiredStaysResolved
CHECK_DEADLOCK FALSE
