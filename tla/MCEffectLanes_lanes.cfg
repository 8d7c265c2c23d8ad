\* Two effects in every pair of lanes, a host that mounts and unmounts, throws.
SPECIFICATION Spec
CONSTANTS
    NEffects = 2
    Values = {0, 1}
    Initial = 0
    Hosts = {h}
    CallbacksThrow = TRUE
    MaxWrites = 2
    MaxPumps = 2
INVARIANTS TypeOK QueuedOnce NothingForgotten
PROPERTIES CleanupsPaired
CHECK_DEADLOCK FALSE
