SPECIFICATION SpecAll
CONSTANTS
    a = a
    b = b
    g = g
    h = h
    r = r
    s = s
    Atoms = {a}
    MaxDrafts = 2
    MaxIntents = 2
    Values <- Bits
    Class <- Identity
    SetValues = {}
    Updaters <- Flip
    Thrown = Thrown
    EffectsThrow = FALSE
    NoLog = NoLog
    Roots = {r, s}
    Early = {s}
    Hooks = {g, h}
    Home <- InR
    Reads <- AllReadA
    RefreshLanes = {1}
INVARIANTS ScreenIsCurrent CommitsTogether NoDraftLeaks
PROPERTIES RepairsAreNews

SYMMETRY Alike
CHECK_DEADLOCK FALSE
