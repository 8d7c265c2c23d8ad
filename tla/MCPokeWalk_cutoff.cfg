\* The value cutoff of a lone draft.
SPECIFICATION Spec
CONSTANTS
    Producers <- MCProducers
    Root <- MCRoot
    Watchers = {v, w, p}
    Probes = {p}
    Effects = {}
    Shapes <- MCShapes
    MaxPasses = 1
INVARIANTS CutoffIsPerProducer
CHECK_DEADLOCK FALSE
