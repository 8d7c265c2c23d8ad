\* What a handler that disposes its own effect leaves behind.
SPECIFICATION Spec
CONSTANTS
    NEffects = 1
    Values = {0, 1}
    Initial = 0
    Hosts = {h}
    CallbacksThrow = FALSE
    MaxWrites = 1
    MaxPumps = 2
INVARIANTS DisposedIsClean
CHECK_DEADLOCK FALSE
