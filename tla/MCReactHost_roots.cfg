\* Two roots and two transitions, where a poke or a retirement may throw.
SPECIFICATION Spec
CONSTANTS
    Roots = {r, s}
    MaxDrafts = 2
    EffectsThrow = TRUE
INVARIANTS TypeOK RecipientsAwaited NeverStranded CommittedStaysShown
PROPERTIES RetiresTogether EveryDraftEnds
CHECK_DEADLOCK FALSE
