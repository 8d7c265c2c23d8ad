\* What a host that leaves with an empty queue takes along.
SPECIFICATION Spec
CONSTANTS
    NEffects = 1
    Values = {0, 1}
    Initial = 0
    Hosts = {h}
    CallbacksThrow = FALSE
    MaxWrites = 2
    MaxPumps = 2
PROPERTIES SettlesWithoutACommit
CHECK_DEADLOCK FALSE
