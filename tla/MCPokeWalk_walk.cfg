\* A subscriber that takes draft ids, a probe and an effect, over two passes.
SPECIFICATION Spec
CONSTANTS
    Producers <- MCProducers
    Root <- MCRoot
    Watchers = {v, p}
    Probes = {p}
    Effects = {e}
    Shapes <- MCShapes
    MaxPasses = 2
INVARIANTS TypeOK MissesNobody WokenOnce ProbesHearAll
PROPERTIES WalkEnds
CHECK_DEADLOCK FALSE
