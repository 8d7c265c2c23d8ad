SPECIFICATION SpecAll
CONSTANTS
    a = a
    b = b
    g = g
    h = h
    r = r
    s = s
    Atoms = {a}
    MaxDrafts = 1
    MaxIntents = 2
    Values <- Bits
    Class <- Identity
    SetValues = {}
    Updaters <- Flip
    Thrown = Thrown
    EffectsThrow = FALSE
    NoLog = NoLog
    Roots = {r, s}
    Early = {r, s}
    Hooks = {g, h}
    Home <- InR
    Reads <- AllReadA
    RefreshLanes = {}
INVARIANTS GuestsCommitToo


CHECK_DEADLOCK FALSE
