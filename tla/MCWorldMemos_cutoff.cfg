SPECIFICATION SpecMemos
CONSTANTS
    a = a
    c1 = c1
    c2 = c2
    c3 = c3
    Atoms = {a}
    MaxDrafts = 2
    MaxIntents = 2
    Values <- Bits
    Class <- Identity
    SetValues = {}
    Updaters <- Flip
    Thrown = Thrown
    EffectsThrow = FALSE
    NoLog = NoLog
    Creation <- Crossed
    Watched = {c2}
    Shapes = {"diamond"}
    Body <- MCBody
    Awaited = Awaited
    Answer = 1
    None = None
    HandlersResolve = FALSE
    MaxClock = 5
INVARIANTS CutoffMissesNobody
CHECK_DEADLOCK FALSE
