\* Three overlapping drafts on one atom whose equality is coarser than identity,
\* callbacks that may throw, against the abstract branching store.
SPECIFICATION Spec
CONSTANTS
    Atoms = {a}
    MaxDrafts = 3
    MaxIntents = 2
    Values <- MCValues
    Class <- MCClass
    SetValues = {2}
    Updaters <- ToggleOnly
    Thrown = Thrown
    EffectsThrow = TRUE
    NoLog = NoLog
INVARIANTS TypeOK BaseIsReplay LogsStartOpen WrittenIsLogged
PROPERTIES ImplementsBranches NoSilentChange
CHECK_DEADLOCK FALSE
