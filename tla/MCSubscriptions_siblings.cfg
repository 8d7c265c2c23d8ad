SPECIFICATION SpecAll
CONSTANTS
    a = a
    b = b
    g = g
    h = h
    r = r
    s = s
    Atoms = {a, b}
    MaxDrafts = 2
    MaxIntents = 1
    Values <- Bits
    Class <- Identity
    SetValues = {}
    Updaters <- Flip
    Thrown = Thrown
    EffectsThrow = FALSE
    NoLog = NoLog
    Roots = {r, s}
    Early = {r, s}
    Hooks = {g, h}
    Home <- InR
    Reads <- ReadTheirOwn
    RefreshLanes = {}
INVARIANTS HandedIsShown

CHECK_DEADLOCK FALSE
