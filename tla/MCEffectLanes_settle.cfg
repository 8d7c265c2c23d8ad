\* Liveness: one effect in each lane, two hosts that hand the pumps over.
SPECIFICATION Spec
CONSTANTS
    NEffects = 1
    Values = {0, 1}
    Initial = 0
    Hosts = {h, i}
    CallbacksThrow = TRUE
    MaxWrites = 2
    MaxPumps = 2
PROPERTIES EffectsSettle
CHECK_DEADLOCK FALSE
