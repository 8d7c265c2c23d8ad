------------------------------ MODULE ReactHost ------------------------------
(***************************************************************************)
(* Who ends a draft (packages/cosignals/src/react/host.ts, with the        *)
(* reducer and commit marker of CosignalsProvider.ts).                     *)
(*                                                                         *)
(* The first write of a React transition opens a draft and sends its id to *)
(* every registered root.  A root carries the ids React has committed into *)
(* its provider's reducer; committing one confirms it, and the draft is    *)
(* retired by the last root it was sent to that confirms it or goes away.  *)
(* A draft sent to nobody is retired by a microtask.                       *)
(*                                                                         *)
(* React is modelled from its use here: dispatched ids wait in the root's  *)
(* update queue, and a transition pass commits any of them, folded by the  *)
(* reducer in dispatch order.  Loops that retire drafts run effects, which *)
(* may open further drafts, so each iteration is a step of its own.        *)
(***************************************************************************)
EXTENDS Naturals, FiniteSets

CONSTANTS
    Roots,          \* the providers' connections, one per mounted root
    MaxDrafts,      \* bound: how many transitions write
    EffectsThrow    \* TRUE iff what a poke or a retirement runs may throw

DraftIds == 1..MaxDrafts

ASSUME BoundAssumption == MaxDrafts \in Nat
ASSUME FlagAssumption == EffectsThrow \in BOOLEAN

VARIABLES
    draftState,     \* draftState[d]: "unopened", "open", "retired", "discarded"
    root,           \* root[r]: "absent", "mounted", "hidden" or "gone"
    hostedDrafts,   \* the drafts with a record in the host
    recipients,     \* recipients[d]: the roots d still waits for
    audience,       \* audience[d]: the roots d was sent to
    due,            \* the drafts whose retirement microtask is queued
    ids,            \* ids[r]: the reducer state root r has committed
    pending,        \* pending[r]: the ids dispatched to r, not yet committed
    frame,          \* the bookkeeping loop that is running
    confirmed,      \* history: the drafts each root has confirmed
    left,           \* history: the roots that left after each draft was sent
    aborted         \* history: what a loop ran has thrown, and ended the loop

engine == <<draftState>>
records == <<hostedDrafts, recipients, audience>>
history == <<confirmed, left, aborted>>
vars == <<engine, root, records, due, ids, pending, frame, history>>

\* No loop, or a loop for a root: "poke" and then "confirm" over the ids it
\* committed, or "cleanup" over every record, with the ids not yet visited.
NoLoop == [kind |-> "none"]
LoopOf(kind, r, rest) == [kind |-> kind, root |-> r, rest |-> rest]

rootConnections == {r \in Roots : root[r] = "mounted"}
isLiveDraft(d) == draftState[d] = "open"
Least(S) == CHOOSE d \in S : \A e \in S : d <= e
-----------------------------------------------------------------------------
Init ==
    /\ draftState = [d \in DraftIds |-> "unopened"]
    /\ root = [r \in Roots |-> "absent"]
    /\ hostedDrafts = {}
    /\ recipients = [d \in DraftIds |-> {}]
    /\ audience = [d \in DraftIds |-> {}]
    /\ due = {}
    /\ ids = [r \in Roots |-> {}]
    /\ pending = [r \in Roots |-> {}]
    /\ frame = NoLoop
    /\ confirmed = [r \in Roots |-> {}]
    /\ left = [d \in DraftIds |-> {}]
    /\ aborted = FALSE

\* broadcastDraft: drop the records of ended drafts, record who is registered
\* now and dispatch the id to each of them.
Pruned == {e \in hostedDrafts : isLiveDraft(e)}
EveryRoot == Roots                      \* slip: unregistered roots included
Audience == rootConnections

\* With nobody to wait for, a microtask will retire the draft.
NeverDue(to) == FALSE                   \* slip: somebody will retire it
retiresItself(to) == to = {}

\* ambientClassifier for the first write inside a transition: open its draft
\* and broadcast it.  Effects of a running loop may do this too.  The later
\* writes of that transition leave the host alone.
firstWrite(d) ==
    /\ draftState[d] = "unopened"
    /\ \A e \in 1..(d-1) : draftState[e] # "unopened"
    /\ draftState' = [draftState EXCEPT ![d] = "open"]
    /\ hostedDrafts' = Pruned \cup {d}
    /\ recipients' = [recipients EXCEPT ![d] = Audience]
    /\ audience' = [audience EXCEPT ![d] = Audience]
    /\ pending' = [r \in Roots |-> IF r \in Audience THEN pending[r] \cup {d} ELSE pending[r]]
    /\ due' = IF retiresItself(Audience) THEN due \cup {d} ELSE due
    /\ UNCHANGED <<root, ids, frame, history>>

\* The microtask of a draft that was sent to nobody.
runMicrotask(d) ==
    LET mine == d \in hostedDrafts /\ recipients[d] = {}
    IN  /\ frame = NoLoop
        /\ d \in due
        /\ due' = due \ {d}
        /\ hostedDrafts' = IF mine THEN hostedDrafts \ {d} ELSE hostedDrafts
        /\ draftState' = IF mine /\ isLiveDraft(d)
                         THEN [draftState EXCEPT ![d] = "retired"] ELSE draftState
        /\ UNCHANGED <<root, recipients, audience, ids, pending, frame, history>>

\* An engine-side discard ends a draft behind the host's back.
discardDraft(d) ==
    /\ isLiveDraft(d)
    /\ draftState' = [draftState EXCEPT ![d] = "discarded"]
    /\ UNCHANGED <<root, records, due, ids, pending, frame, history>>

\* The commit marker's layout effects register the connection and confirm what
\* the provider rendered; a hidden tree that is revealed runs them again.
registerRootConnection(r) ==
    /\ frame = NoLoop
    /\ root[r] \in {"absent", "hidden"}
    /\ root' = [root EXCEPT ![r] = "mounted"]
    /\ frame' = LoopOf("poke", r, ids[r])
    /\ UNCHANGED <<engine, records, due, ids, pending, history>>

\* worldsReducer over the updates a pass takes: live ids accumulate.
AllIds(old, taken) == old \cup taken \cup {0}   \* slip: the repair wake counts
LastOnly(old, taken) == {d \in taken : isLiveDraft(d)}      \* slip
worldsReducer(old, taken) == {d \in old \cup taken : isLiveDraft(d)}

\* React commits a transition pass that took some of the pending updates, and
\* the marker confirms the world the provider rendered.
commit(r, taken) ==
    /\ frame = NoLoop
    /\ root[r] = "mounted"
    /\ taken # {} /\ taken \subseteq pending[r]
    /\ ids' = [ids EXCEPT ![r] = worldsReducer(ids[r], taken)]
    /\ pending' = [pending EXCEPT ![r] = @ \ taken]
    /\ frame' = LoopOf("poke", r, ids'[r])
    /\ confirmed' = [confirmed EXCEPT ![r] = @ \cup ids'[r]]
    /\ UNCHANGED <<engine, root, records, due, left, aborted>>

\* A throw takes the loop with it.
Thrown == EffectsThrow /\ frame' = NoLoop /\ aborted' = TRUE

\* confirmRootCommit pokes the committed drafts' atoms before any retirement.
poke ==
    /\ frame.kind = "poke"
    /\ \/ frame' = LoopOf("confirm", frame.root, frame.rest) /\ UNCHANGED aborted
       \/ Thrown
    /\ UNCHANGED <<engine, root, records, due, ids, pending, confirmed, left>>

\* The cleanup of the registration: unmounting or hiding a root drops its
\* connection and then walks the records, those added meanwhile included.
unregister(r, to) ==
    /\ frame = NoLoop
    /\ root[r] = "mounted" /\ to \in {"hidden", "gone"}
    /\ root' = [root EXCEPT ![r] = to]
    /\ frame' = LoopOf("cleanup", r, DraftIds)
    /\ left' = [d \in DraftIds |-> IF r \in audience[d] THEN left[d] \cup {r} ELSE left[d]]
    /\ UNCHANGED <<engine, records, due, ids, pending, confirmed, aborted>>

\* The draft is retired when nobody is left to wait for.
AnyOne(before, after) == before # after                     \* slip
lastOne(before, after) == before # after /\ after = {}

\* Whom d waits for once the loop has dealt with it.
ConfirmedOnly(d) ==                     \* slip: a root that leaves is kept
    IF frame.kind = "cleanup" THEN recipients[d] ELSE recipients[d] \ {frame.root}
stillAwaited(d) == recipients[d] \ {frame.root}

\* One iteration of the confirm or cleanup loop: the root is no longer waited
\* for, and if it was the last one the record goes and the draft is retired.
visit ==
    LET ahead == frame.rest \cap hostedDrafts
        d == Least(ahead)
        waiting == stillAwaited(d)
        ends == lastOne(recipients[d], waiting)
        retires == ends /\ isLiveDraft(d)
    IN  /\ frame.kind \in {"confirm", "cleanup"}
        /\ ahead # {}
        /\ recipients' = [recipients EXCEPT ![d] = waiting]
        /\ hostedDrafts' = IF ends THEN hostedDrafts \ {d} ELSE hostedDrafts
        /\ draftState' = IF retires THEN [draftState EXCEPT ![d] = "retired"] ELSE draftState
        /\ \/ frame' = [frame EXCEPT !.rest = @ \ (1..d)] /\ UNCHANGED aborted
           \/ retires /\ Thrown
        /\ UNCHANGED <<root, audience, due, ids, pending, confirmed, left>>

endLoop ==
    /\ frame.kind \in {"confirm", "cleanup"}
    /\ frame.rest \cap hostedDrafts = {}
    /\ frame' = NoLoop
    /\ UNCHANGED <<engine, root, records, due, ids, pending, history>>

Loop == poke \/ visit \/ endLoop

Next ==
    \/ \E d \in DraftIds : firstWrite(d) \/ runMicrotask(d) \/ discardDraft(d)
    \/ \E r \in Roots : registerRootConnection(r)
    \/ \E r \in Roots, taken \in SUBSET DraftIds : commit(r, taken)
    \/ \E r \in Roots, to \in {"hidden", "gone"} : unregister(r, to)
    \/ Loop

\* Loops are synchronous code.  Between two of them the event loop runs the
\* queued microtasks, and React commits the pending pass of a mounted root
\* sooner or later: it expires a lane that others keep starving.
Fairness ==
    /\ WF_vars(Loop)
    /\ \A d \in DraftIds : SF_vars(runMicrotask(d))
    /\ \A r \in Roots : SF_vars(\E taken \in SUBSET DraftIds : commit(r, taken))

Spec == Init /\ [][Next]_vars /\ Fairness
-----------------------------------------------------------------------------
(***************************************************************************)
(* Properties                                                              *)
(***************************************************************************)
TypeOK ==
    /\ draftState \in [DraftIds -> {"unopened", "open", "retired", "discarded"}]
    /\ root \in [Roots -> {"absent", "mounted", "hidden", "gone"}]
    /\ hostedDrafts \subseteq DraftIds
    /\ recipients \in [DraftIds -> SUBSET Roots]
    /\ audience \in [DraftIds -> SUBSET Roots]
    /\ due \subseteq DraftIds
    /\ ids \in [Roots -> SUBSET DraftIds]
    /\ pending \in [Roots -> SUBSET DraftIds]
    /\ frame \in {NoLoop} \cup
          [kind : {"poke", "confirm", "cleanup"}, root : Roots, rest : SUBSET DraftIds]
    /\ confirmed \in [Roots -> SUBSET DraftIds]
    /\ left \in [DraftIds -> SUBSET Roots]
    /\ aborted \in BOOLEAN

\* Whether the running loop is going to visit d on behalf of r.
Ahead(r, d) == frame # NoLoop /\ frame.root = r /\ d \in frame.rest

\* The recipients of an open draft are the roots that received it and have not
\* committed it: nobody else, but for whom the running loop is about to visit,
\* and all of those that have not left.  A throw leaves the rest of its loop
\* undone, here and below.
RecipientsAwaited ==
    ~aborted => \A d \in hostedDrafts : isLiveDraft(d) =>
        \A r \in audience[d] :
            LET awaited == d \notin confirmed[r] /\ r \notin left[d]
            IN  /\ awaited => r \in recipients[d]
                /\ r \in recipients[d] => awaited \/ Ahead(r, d)

\* No open draft is forgotten: the host has its record, and whoever it waits
\* for is bound to report, a root with the id still queued, the loop that is
\* running, or the microtask.
NeverStranded ==
    ~aborted => \A d \in DraftIds : isLiveDraft(d) =>
        /\ d \in hostedDrafts
        /\ recipients[d] = {} => d \in due
        /\ \A r \in recipients[d] :
              (r \in rootConnections /\ d \in pending[r]) \/ Ahead(r, d)

\* A draft is committed for everybody only after every root it was sent to has
\* confirmed it or gone away: no root jumps to a transition others still hold.
RetiresTogether ==
    [][\A d \in DraftIds : isLiveDraft(d) /\ draftState'[d] = "retired" =>
          \A r \in audience[d] : d \in confirmed[r] \/ r \in left[d]]_vars

\* A root that has committed an open draft keeps rendering with it: no later
\* pass of that root goes back to the values from before the transition.
CommittedStaysShown ==
    \A r \in rootConnections : \A d \in confirmed[r] :
        isLiveDraft(d) => d \in ids[r]

\* Every draft ends, but for those a throw has left behind.
EveryDraftEnds == \A d \in DraftIds : isLiveDraft(d) ~> ~isLiveDraft(d) \/ aborted
=============================================================================
