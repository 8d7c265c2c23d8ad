--------------------------- MODULE ReactHostProofs ---------------------------
(***************************************************************************)
(* Theorems about ReactHost, for every set of roots, every number of       *)
(* drafts, and whether or not effects throw.                               *)
(***************************************************************************)
EXTENDS ReactHost, DataLemmas, TLAPS

-----------------------------------------------------------------------------
(***************************************************************************)
(* The inductive invariant.  The properties of ReactHost speak of open     *)
(* drafts and of moments when no loop has thrown; these parts say what     *)
(* every step relies on, thrown or not.                                    *)
(***************************************************************************)
\* A draft that no transition has opened has left no trace in the host.
UnopenedUnknown ==
    \A d \in DraftIds : draftState[d] = "unopened" =>
        /\ d \notin hostedDrafts /\ audience[d] = {} /\ left[d] = {}
        /\ \A r \in Roots : d \notin pending[r] /\ d \notin confirmed[r]

\* What a root renders it has confirmed, and of what it has confirmed it
\* renders whatever is still open.
ConfirmedIsRendered ==
    \A r \in Roots :
        /\ ids[r] \subseteq confirmed[r]
        /\ \A d \in confirmed[r] : isLiveDraft(d) => d \in ids[r]

\* A root that was sent an open draft has it queued until it confirms it, and
\* is mounted until it leaves.
SentIsQueued ==
    \A d \in DraftIds : \A r \in audience[d] :
        /\ isLiveDraft(d) => d \in pending[r] \cup confirmed[r]
        /\ r \in rootConnections \/ r \in left[d]

\* The host waits for nobody the draft was not sent to, and stops waiting for
\* a root only once that has confirmed the draft or left.
RecipientsReport ==
    \A d \in DraftIds :
        /\ recipients[d] \subseteq audience[d]
        /\ \A r \in audience[d] \ recipients[d] : d \in confirmed[r] \/ r \in left[d]

\* An open draft has its record, and the microtask if it waits for nobody.
OpenIsHosted ==
    \A d \in DraftIds : isLiveDraft(d) =>
        /\ d \in hostedDrafts
        /\ recipients[d] = {} => d \in due

\* The loop that confirms visits drafts its root has confirmed, and the loop
\* that cleans up runs for a root that is not mounted.
LoopIsEntitled ==
    /\ frame.kind \in {"poke", "confirm"} => frame.rest \subseteq confirmed[frame.root]
    /\ frame.kind = "cleanup" => frame.root \notin rootConnections

\* Unless a throw ended a loop early, a root that has confirmed a draft or
\* left is waited for only until the running loop reaches the draft.
ReportIsHeard ==
    ~aborted => \A d \in hostedDrafts : isLiveDraft(d) =>
        \A r \in recipients[d] : d \in confirmed[r] \/ r \in left[d] => Ahead(r, d)

HostInv ==
    /\ TypeOK
    /\ UnopenedUnknown
    /\ ConfirmedIsRendered
    /\ SentIsQueued
    /\ RecipientsReport
    /\ OpenIsHosted
    /\ LoopIsEntitled
    /\ ReportIsHeard
-----------------------------------------------------------------------------
(***************************************************************************)
(* The loop's frame and its iteration.                                     *)
(***************************************************************************)
\* Either no loop runs, or one runs for a root over draft ids.
LEMMA FrameCases ==
    ASSUME TypeOK
    PROVE  \/ frame = NoLoop /\ frame.kind = "none"
           \/ /\ frame # NoLoop
              /\ frame.kind \in {"poke", "confirm", "cleanup"}
              /\ frame.root \in Roots /\ frame.rest \subseteq DraftIds
              /\ frame = LoopOf(frame.kind, frame.root, frame.rest)
<1>1. CASE frame = NoLoop
    BY <1>1 DEF NoLoop
<1>2. CASE frame # NoLoop
    <2>1. frame \in [kind : {"poke", "confirm", "cleanup"}, root : Roots, rest : SUBSET DraftIds]
        BY <1>2 DEF TypeOK
    <2> QED BY <1>2, <2>1 DEF LoopOf
<1> QED BY <1>1, <1>2

\* A loop under way differs from no loop.
LEMMA LoopIsNoNoLoop ==
    ASSUME NEW k \in {"poke", "confirm", "cleanup"}, NEW r, NEW S
    PROVE  /\ LoopOf(k, r, S) # NoLoop
           /\ LoopOf(k, r, S).kind = k /\ LoopOf(k, r, S).root = r /\ LoopOf(k, r, S).rest = S
BY DEF LoopOf, NoLoop

\* An iteration deals with the least hosted draft ahead, d: the root is crossed
\* out, a draft that thereby waits for nobody ends, and the loop moves on past
\* it unless the retirement throws.
Ends(d) == recipients[d] # {} /\ recipients[d] \subseteq {frame.root}
Visits(d) ==
    /\ frame.kind \in {"confirm", "cleanup"}
    /\ frame # NoLoop /\ frame.root \in Roots
    /\ d \in DraftIds /\ d \in hostedDrafts /\ d \in frame.rest
    /\ \A e \in frame.rest \cap hostedDrafts : d <= e
    /\ recipients' = [recipients EXCEPT ![d] = @ \ {frame.root}]
    /\ hostedDrafts' = IF Ends(d) THEN hostedDrafts \ {d} ELSE hostedDrafts
    /\ draftState' = IF Ends(d) /\ isLiveDraft(d) THEN [draftState EXCEPT ![d] = "retired"]
                     ELSE draftState
    /\ \/ frame' = LoopOf(frame.kind, frame.root, frame.rest \ (1..d)) /\ UNCHANGED aborted
       \/ frame' = NoLoop /\ aborted' = TRUE
    /\ UNCHANGED <<root, audience, due, ids, pending, confirmed, left>>

\* One iteration of a running loop is a visit of the first record ahead of it.
LEMMA VisitEffect == ASSUME TypeOK, visit PROVE \E d : Visits(d)
<1> DEFINE ahead == frame.rest \cap hostedDrafts
           d == Least(ahead)
<1>1. frame.kind \in {"confirm", "cleanup"} /\ ahead # {}
    BY DEF visit
<1>2. /\ frame # NoLoop /\ frame.root \in Roots /\ frame.rest \subseteq DraftIds
      /\ frame = LoopOf(frame.kind, frame.root, frame.rest)
    BY <1>1, FrameCases
<1>3. ahead \in SUBSET Nat
    BY <1>2 DEF DraftIds
<1>4. d \in ahead /\ \A e \in ahead : d <= e
    <2> HIDE DEF ahead
    <2>1. \E m \in ahead : \A e \in ahead : m <= e
        BY <1>1, <1>3, LeastNatural
    <2> QED BY <2>1 DEF Least
<1> HIDE DEF d
<1>5. recipients' = [recipients EXCEPT ![d] = @ \ {frame.root}]
    BY DEF visit, stillAwaited, d
<1>6. lastOne(recipients[d], stillAwaited(d)) <=> Ends(d)
    BY DEF lastOne, stillAwaited, Ends
<1>7. /\ hostedDrafts' = IF lastOne(recipients[d], stillAwaited(d)) THEN hostedDrafts \ {d} ELSE hostedDrafts
      /\ draftState' = IF lastOne(recipients[d], stillAwaited(d)) /\ isLiveDraft(d)
                       THEN [draftState EXCEPT ![d] = "retired"] ELSE draftState
      /\ \/ frame' = [frame EXCEPT !.rest = @ \ (1..d)] /\ UNCHANGED aborted
         \/ frame' = NoLoop /\ aborted' = TRUE
      /\ UNCHANGED <<root, audience, due, ids, pending, confirmed, left>>
    BY DEF visit, Thrown, d
<1>8. [frame EXCEPT !.rest = @ \ (1..d)] = LoopOf(frame.kind, frame.root, frame.rest \ (1..d))
    BY <1>2 DEF LoopOf
<1>9. Visits(d)
    BY <1>1, <1>2, <1>4, <1>5, <1>6, <1>7, <1>8 DEF Visits
<1> QED BY <1>9
-----------------------------------------------------------------------------
(***************************************************************************)
(* Types.                                                                  *)
(***************************************************************************)
LEMMA TypeInit == Init => TypeOK
<1> SUFFICES ASSUME Init PROVE TypeOK
    OBVIOUS
<1>1. /\ draftState \in [DraftIds -> {"unopened", "open", "retired", "discarded"}]
      /\ root \in [Roots -> {"absent", "mounted", "hidden", "gone"}]
    BY DEF Init
<1>2. /\ frame \in {NoLoop} \cup
             [kind : {"poke", "confirm", "cleanup"}, root : Roots, rest : SUBSET DraftIds]
      /\ aborted \in BOOLEAN
    BY DEF Init
<1> QED BY <1>1, <1>2 DEF Init, TypeOK

\* Every step keeps the variables within their types.
LEMMA TypeStep == TypeOK /\ [Next]_vars => TypeOK'
<1> SUFFICES ASSUME TypeOK, [Next]_vars PROVE TypeOK'
    OBVIOUS
<1> USE DEF TypeOK, isLiveDraft, records, engine, history
<1>1. ASSUME NEW d \in DraftIds, firstWrite(d) PROVE TypeOK'
    <2>1. Audience \subseteq Roots /\ Pruned \subseteq DraftIds
        BY DEF Audience, rootConnections, Pruned
    <2>2. pending' \in [Roots -> SUBSET DraftIds]
        BY <1>1, <2>1 DEF firstWrite
    <2>3. due' \subseteq DraftIds /\ hostedDrafts' \subseteq DraftIds
        BY <1>1, <2>1 DEF firstWrite
    <2> QED BY <1>1, <2>1, <2>2, <2>3 DEF firstWrite
<1>2. ASSUME NEW d \in DraftIds, runMicrotask(d) PROVE TypeOK'
    BY <1>2 DEF runMicrotask
<1>3. ASSUME NEW d \in DraftIds, discardDraft(d) PROVE TypeOK'
    BY <1>3 DEF discardDraft
<1>4. ASSUME NEW r \in Roots, registerRootConnection(r) PROVE TypeOK'
    BY <1>4 DEF registerRootConnection, LoopOf
<1>5. ASSUME NEW r \in Roots, NEW taken \in SUBSET DraftIds, commit(r, taken) PROVE TypeOK'
    <2>1. worldsReducer(ids[r], taken) \subseteq DraftIds
        BY DEF worldsReducer
    <2>2. ids' \in [Roots -> SUBSET DraftIds]
        BY <1>5, <2>1 DEF commit
    <2> QED BY <1>5, <2>2 DEF commit, LoopOf
<1>6. ASSUME NEW r \in Roots, NEW to \in {"hidden", "gone"}, unregister(r, to) PROVE TypeOK'
    <2>1. left' \in [DraftIds -> SUBSET Roots]
        BY <1>6 DEF unregister
    <2> QED BY <1>6, <2>1 DEF unregister, LoopOf
<1>7. CASE poke
    <2>1. frame.root \in Roots /\ frame.rest \subseteq DraftIds
        BY <1>7, FrameCases DEF poke
    <2>2. frame' \in {NoLoop} \cup
                [kind : {"poke", "confirm", "cleanup"}, root : Roots, rest : SUBSET DraftIds]
        BY <1>7, <2>1 DEF poke, LoopOf, Thrown
    <2>3. aborted' \in BOOLEAN
        BY <1>7 DEF poke, Thrown
    <2> QED BY <1>7, <2>2, <2>3 DEF poke
<1>8. CASE visit
    <2>1. PICK d : Visits(d)
        BY <1>8, VisitEffect
    <2>2. frame.rest \subseteq DraftIds
        BY <2>1, FrameCases DEF Visits
    <2>3. aborted' \in BOOLEAN
        BY <1>8 DEF visit, Thrown
    <2>4. frame' \in {NoLoop} \cup
             [kind : {"poke", "confirm", "cleanup"}, root : Roots, rest : SUBSET DraftIds]
        BY <2>1, <2>2 DEF Visits, LoopOf
    <2> QED BY <2>1, <2>2, <2>3, <2>4 DEF Visits
<1>9. CASE endLoop
    BY <1>9 DEF endLoop
<1>10. CASE UNCHANGED vars
    BY <1>10 DEF vars
<1> QED BY <1>1, <1>2, <1>3, <1>4, <1>5, <1>6, <1>7, <1>8, <1>9, <1>10 DEF Next, Loop

\* The host's books are well formed, in every execution.
THEOREM TypeCorrect == Spec => []TypeOK
<1>1. Init => TypeOK
    BY TypeInit
<1>2. TypeOK /\ [Next]_vars => TypeOK'
    BY TypeStep
<1> QED BY <1>1, <1>2, PTL DEF Spec
-----------------------------------------------------------------------------
(***************************************************************************)
(* Every step keeps the parts of the invariant.                            *)
(***************************************************************************)
\* A draft is only heard of once it is opened.
LEMMA UnopenedStep == HostInv /\ [Next]_vars => UnopenedUnknown'
<1> SUFFICES ASSUME HostInv, [Next]_vars PROVE UnopenedUnknown'
    OBVIOUS
<1> USE DEF HostInv, TypeOK, isLiveDraft, rootConnections, records, engine, history
<1>1. ASSUME NEW d \in DraftIds, firstWrite(d) PROVE UnopenedUnknown'
    BY <1>1 DEF firstWrite, Pruned, UnopenedUnknown
<1>2. ASSUME NEW d \in DraftIds, runMicrotask(d) PROVE UnopenedUnknown'
    BY <1>2 DEF runMicrotask, UnopenedUnknown
<1>3. ASSUME NEW d \in DraftIds, discardDraft(d) PROVE UnopenedUnknown'
    BY <1>3 DEF discardDraft, UnopenedUnknown
<1>4. ASSUME NEW r \in Roots, registerRootConnection(r) PROVE UnopenedUnknown'
    BY <1>4 DEF registerRootConnection, UnopenedUnknown
<1>5. ASSUME NEW r \in Roots, NEW taken \in SUBSET DraftIds, commit(r, taken) PROVE UnopenedUnknown'
    BY <1>5 DEF commit, worldsReducer, UnopenedUnknown, ConfirmedIsRendered
<1>6. ASSUME NEW r \in Roots, NEW to \in {"hidden", "gone"}, unregister(r, to) PROVE UnopenedUnknown'
    BY <1>6 DEF unregister, UnopenedUnknown, RecipientsReport
<1>7. CASE poke
    BY <1>7 DEF poke, UnopenedUnknown
<1>8. CASE visit
    <2>1. PICK d : Visits(d)
        BY <1>8, VisitEffect
    <2> QED BY <2>1 DEF Visits, UnopenedUnknown
<1>9. CASE endLoop
    BY <1>9 DEF endLoop, UnopenedUnknown
<1>10. CASE UNCHANGED vars
    BY <1>10 DEF vars, UnopenedUnknown
<1> QED BY <1>1, <1>2, <1>3, <1>4, <1>5, <1>6, <1>7, <1>8, <1>9, <1>10 DEF Next, Loop

\* A commit confirms the ids it renders, and the reducer only drops ended drafts.
LEMMA RenderedStep == HostInv /\ [Next]_vars => ConfirmedIsRendered'
<1> SUFFICES ASSUME HostInv, [Next]_vars PROVE ConfirmedIsRendered'
    OBVIOUS
<1> USE DEF HostInv, TypeOK, isLiveDraft, rootConnections, records, engine, history
<1>1. ASSUME NEW d \in DraftIds, firstWrite(d) PROVE ConfirmedIsRendered'
    BY <1>1 DEF firstWrite, UnopenedUnknown, ConfirmedIsRendered
<1>2. ASSUME NEW d \in DraftIds, runMicrotask(d) PROVE ConfirmedIsRendered'
    BY <1>2 DEF runMicrotask, ConfirmedIsRendered
<1>3. ASSUME NEW d \in DraftIds, discardDraft(d) PROVE ConfirmedIsRendered'
    BY <1>3 DEF discardDraft, ConfirmedIsRendered
<1>4. ASSUME NEW r \in Roots, registerRootConnection(r) PROVE ConfirmedIsRendered'
    BY <1>4 DEF registerRootConnection, ConfirmedIsRendered
<1>5. ASSUME NEW r \in Roots, NEW taken \in SUBSET DraftIds, commit(r, taken) PROVE ConfirmedIsRendered'
    BY <1>5 DEF commit, worldsReducer, ConfirmedIsRendered
<1>6. ASSUME NEW r \in Roots, NEW to \in {"hidden", "gone"}, unregister(r, to) PROVE ConfirmedIsRendered'
    BY <1>6 DEF unregister, ConfirmedIsRendered
<1>7. CASE poke
    BY <1>7 DEF poke, ConfirmedIsRendered
<1>8. CASE visit
    <2>1. PICK d : Visits(d)
        BY <1>8, VisitEffect
    <2> QED BY <2>1 DEF Visits, ConfirmedIsRendered
<1>9. CASE endLoop
    BY <1>9 DEF endLoop, ConfirmedIsRendered
<1>10. CASE UNCHANGED vars
    BY <1>10 DEF vars, ConfirmedIsRendered
<1> QED BY <1>1, <1>2, <1>3, <1>4, <1>5, <1>6, <1>7, <1>8, <1>9, <1>10 DEF Next, Loop

\* An id leaves the queue of a root only into what it confirms, and a root
\* that leaves is recorded with every draft it was sent.
LEMMA SentStep == HostInv /\ [Next]_vars => SentIsQueued'
<1> SUFFICES ASSUME HostInv, [Next]_vars PROVE SentIsQueued'
    OBVIOUS
<1> USE DEF HostInv, TypeOK, isLiveDraft, rootConnections, records, engine, history
<1>1. ASSUME NEW d \in DraftIds, firstWrite(d) PROVE SentIsQueued'
    BY <1>1 DEF firstWrite, Audience, SentIsQueued
<1>2. ASSUME NEW d \in DraftIds, runMicrotask(d) PROVE SentIsQueued'
    BY <1>2 DEF runMicrotask, SentIsQueued
<1>3. ASSUME NEW d \in DraftIds, discardDraft(d) PROVE SentIsQueued'
    BY <1>3 DEF discardDraft, SentIsQueued
<1>4. ASSUME NEW r \in Roots, registerRootConnection(r) PROVE SentIsQueued'
    BY <1>4 DEF registerRootConnection, SentIsQueued
<1>5. ASSUME NEW r \in Roots, NEW taken \in SUBSET DraftIds, commit(r, taken) PROVE SentIsQueued'
    BY <1>5 DEF commit, worldsReducer, SentIsQueued
<1>6. ASSUME NEW r \in Roots, NEW to \in {"hidden", "gone"}, unregister(r, to) PROVE SentIsQueued'
    BY <1>6 DEF unregister, SentIsQueued
<1>7. CASE poke
    BY <1>7 DEF poke, SentIsQueued
<1>8. CASE visit
    <2>1. PICK d : Visits(d)
        BY <1>8, VisitEffect
    <2> QED BY <2>1 DEF Visits, SentIsQueued
<1>9. CASE endLoop
    BY <1>9 DEF endLoop, SentIsQueued
<1>10. CASE UNCHANGED vars
    BY <1>10 DEF vars, SentIsQueued
<1> QED BY <1>1, <1>2, <1>3, <1>4, <1>5, <1>6, <1>7, <1>8, <1>9, <1>10 DEF Next, Loop

\* A loop crosses out a root only where it is entitled to.
LEMMA ReportStep == HostInv /\ [Next]_vars => RecipientsReport'
<1> SUFFICES ASSUME HostInv, [Next]_vars PROVE RecipientsReport'
    OBVIOUS
<1> USE DEF HostInv, TypeOK, isLiveDraft, rootConnections, records, engine, history
<1>1. ASSUME NEW d \in DraftIds, firstWrite(d) PROVE RecipientsReport'
    BY <1>1 DEF firstWrite, RecipientsReport
<1>2. ASSUME NEW d \in DraftIds, runMicrotask(d) PROVE RecipientsReport'
    BY <1>2 DEF runMicrotask, RecipientsReport
<1>3. ASSUME NEW d \in DraftIds, discardDraft(d) PROVE RecipientsReport'
    BY <1>3 DEF discardDraft, RecipientsReport
<1>4. ASSUME NEW r \in Roots, registerRootConnection(r) PROVE RecipientsReport'
    BY <1>4 DEF registerRootConnection, RecipientsReport
<1>5. ASSUME NEW r \in Roots, NEW taken \in SUBSET DraftIds, commit(r, taken) PROVE RecipientsReport'
    BY <1>5 DEF commit, RecipientsReport
<1>6. ASSUME NEW r \in Roots, NEW to \in {"hidden", "gone"}, unregister(r, to) PROVE RecipientsReport'
    BY <1>6 DEF unregister, RecipientsReport
<1>7. CASE poke
    BY <1>7 DEF poke, RecipientsReport
<1>8. CASE visit
    <2>1. PICK d : Visits(d)
        BY <1>8, VisitEffect
    <2> QED BY <2>1 DEF Visits, Ends, LoopIsEntitled, SentIsQueued, RecipientsReport
<1>9. CASE endLoop
    BY <1>9 DEF endLoop, RecipientsReport
<1>10. CASE UNCHANGED vars
    BY <1>10 DEF vars, RecipientsReport
<1> QED BY <1>1, <1>2, <1>3, <1>4, <1>5, <1>6, <1>7, <1>8, <1>9, <1>10 DEF Next, Loop

\* The record of an open draft goes only together with the draft.
LEMMA HostedStep == HostInv /\ [Next]_vars => OpenIsHosted'
<1> SUFFICES ASSUME HostInv, [Next]_vars PROVE OpenIsHosted'
    OBVIOUS
<1> USE DEF HostInv, TypeOK, isLiveDraft, rootConnections, records, engine, history
<1>1. ASSUME NEW d \in DraftIds, firstWrite(d) PROVE OpenIsHosted'
    BY <1>1 DEF firstWrite, Pruned, retiresItself, OpenIsHosted
<1>2. ASSUME NEW d \in DraftIds, runMicrotask(d) PROVE OpenIsHosted'
    BY <1>2 DEF runMicrotask, OpenIsHosted
<1>3. ASSUME NEW d \in DraftIds, discardDraft(d) PROVE OpenIsHosted'
    BY <1>3 DEF discardDraft, OpenIsHosted
<1>4. ASSUME NEW r \in Roots, registerRootConnection(r) PROVE OpenIsHosted'
    BY <1>4 DEF registerRootConnection, OpenIsHosted
<1>5. ASSUME NEW r \in Roots, NEW taken \in SUBSET DraftIds, commit(r, taken) PROVE OpenIsHosted'
    BY <1>5 DEF commit, OpenIsHosted
<1>6. ASSUME NEW r \in Roots, NEW to \in {"hidden", "gone"}, unregister(r, to) PROVE OpenIsHosted'
    BY <1>6 DEF unregister, OpenIsHosted
<1>7. CASE poke
    BY <1>7 DEF poke, OpenIsHosted
<1>8. CASE visit
    <2>1. PICK d : Visits(d)
        BY <1>8, VisitEffect
    <2>2. Ends(d) <=> recipients[d] # {} /\ recipients'[d] = {}
        BY <2>1 DEF Visits, Ends
    <2> QED BY <2>1, <2>2 DEF Visits, OpenIsHosted
<1>9. CASE endLoop
    BY <1>9 DEF endLoop, OpenIsHosted
<1>10. CASE UNCHANGED vars
    BY <1>10 DEF vars, OpenIsHosted
<1> QED BY <1>1, <1>2, <1>3, <1>4, <1>5, <1>6, <1>7, <1>8, <1>9, <1>10 DEF Next, Loop

\* A confirming loop starts from what its root renders, a cleanup from a root
\* that has just gone, and neither is overtaken by a commit or a mount.
LEMMA EntitledStep == HostInv /\ [Next]_vars => LoopIsEntitled'
<1> SUFFICES ASSUME HostInv, [Next]_vars PROVE LoopIsEntitled'
    OBVIOUS
<1> USE DEF HostInv, TypeOK, isLiveDraft, rootConnections, records, engine, history
<1>1. ASSUME NEW d \in DraftIds, firstWrite(d) PROVE LoopIsEntitled'
    BY <1>1 DEF firstWrite, LoopIsEntitled
<1>2. ASSUME NEW d \in DraftIds, runMicrotask(d) PROVE LoopIsEntitled'
    BY <1>2 DEF runMicrotask, LoopIsEntitled
<1>3. ASSUME NEW d \in DraftIds, discardDraft(d) PROVE LoopIsEntitled'
    BY <1>3 DEF discardDraft, LoopIsEntitled
<1>4. ASSUME NEW r \in Roots, registerRootConnection(r) PROVE LoopIsEntitled'
    BY <1>4, LoopIsNoNoLoop DEF registerRootConnection, LoopIsEntitled, ConfirmedIsRendered
<1>5. ASSUME NEW r \in Roots, NEW taken \in SUBSET DraftIds, commit(r, taken) PROVE LoopIsEntitled'
    BY <1>5, LoopIsNoNoLoop DEF commit, LoopIsEntitled
<1>6. ASSUME NEW r \in Roots, NEW to \in {"hidden", "gone"}, unregister(r, to) PROVE LoopIsEntitled'
    BY <1>6, LoopIsNoNoLoop DEF unregister, LoopIsEntitled
<1>7. CASE poke
    BY <1>7, LoopIsNoNoLoop DEF poke, Thrown, NoLoop, LoopIsEntitled
<1>8. CASE visit
    <2>1. PICK d : Visits(d)
        BY <1>8, VisitEffect
    <2> QED BY <2>1, LoopIsNoNoLoop DEF Visits, NoLoop, LoopIsEntitled
<1>9. CASE endLoop
    BY <1>9 DEF endLoop, NoLoop, LoopIsEntitled
<1>10. CASE UNCHANGED vars
    BY <1>10 DEF vars, LoopIsEntitled
<1> QED BY <1>1, <1>2, <1>3, <1>4, <1>5, <1>6, <1>7, <1>8, <1>9, <1>10 DEF Next, Loop

\* A confirmation or a departure starts the loop that will hear it, and the
\* loop passes no record by.
LEMMA HeardStep == HostInv /\ [Next]_vars => ReportIsHeard'
<1> SUFFICES ASSUME HostInv, [Next]_vars PROVE ReportIsHeard'
    OBVIOUS
<1> USE DEF HostInv, TypeOK, isLiveDraft, rootConnections, records, engine, history
<1>1. ASSUME NEW d \in DraftIds, firstWrite(d) PROVE ReportIsHeard'
    <2> SUFFICES ASSUME ~aborted, NEW e \in hostedDrafts', draftState'[e] = "open",
                        NEW r \in recipients'[e], e \in confirmed[r] \/ r \in left[e]
                 PROVE  Ahead(r, e)'
        BY <1>1 DEF firstWrite, ReportIsHeard
    <2>0. e \in DraftIds
        BY <1>1 DEF firstWrite, Pruned
    <2>1. r \in Roots /\ e # d
        BY <1>1, <2>0 DEF firstWrite, Audience, UnopenedUnknown
    <2>2. e \in hostedDrafts /\ draftState[e] = "open" /\ r \in recipients[e]
        BY <1>1, <2>1 DEF firstWrite, Pruned
    <2>3. Ahead(r, e)
        BY <2>2 DEF ReportIsHeard
    <2> QED BY <1>1, <2>3 DEF firstWrite, Ahead
<1>2. ASSUME NEW d \in DraftIds, runMicrotask(d) PROVE ReportIsHeard'
    BY <1>2 DEF runMicrotask, Ahead, ReportIsHeard
<1>3. ASSUME NEW d \in DraftIds, discardDraft(d) PROVE ReportIsHeard'
    BY <1>3 DEF discardDraft, Ahead, ReportIsHeard
<1>4. ASSUME NEW r \in Roots, registerRootConnection(r) PROVE ReportIsHeard'
    BY <1>4, LoopIsNoNoLoop DEF registerRootConnection, Ahead, ReportIsHeard
<1>5. ASSUME NEW r \in Roots, NEW taken \in SUBSET DraftIds, commit(r, taken) PROVE ReportIsHeard'
    BY <1>5, LoopIsNoNoLoop DEF commit, Ahead, ReportIsHeard
<1>6. ASSUME NEW r \in Roots, NEW to \in {"hidden", "gone"}, unregister(r, to) PROVE ReportIsHeard'
    BY <1>6, LoopIsNoNoLoop DEF unregister, Ahead, ReportIsHeard
<1>7. CASE poke
    BY <1>7, LoopIsNoNoLoop DEF poke, Thrown, Ahead, ReportIsHeard
<1>8. CASE visit
    <2>1. PICK d : Visits(d)
        BY <1>8, VisitEffect
    <2> SUFFICES ASSUME ~aborted', NEW e \in hostedDrafts', draftState'[e] = "open",
                        NEW r \in recipients'[e], e \in confirmed[r] \/ r \in left[e]
                 PROVE  Ahead(r, e)'
        BY <2>1 DEF Visits, ReportIsHeard
    <2>2. /\ ~aborted /\ e \in hostedDrafts /\ draftState[e] = "open" /\ r \in recipients[e]
          /\ frame' = LoopOf(frame.kind, frame.root, frame.rest \ (1..d))
        BY <2>1 DEF Visits
    <2>3. Ahead(r, e)
        BY <2>2 DEF ReportIsHeard
    <2>4. e # d /\ d <= e
        BY <2>1, <2>3 DEF Visits, Ahead
    <2>5. e \in frame.rest \ (1..d)
        BY <2>1, <2>3, <2>4 DEF Visits, Ahead, DraftIds
    <2> QED BY <2>1, <2>2, <2>3, <2>5, LoopIsNoNoLoop DEF Visits, Ahead
<1>9. CASE endLoop
    BY <1>9 DEF endLoop, Ahead, ReportIsHeard
<1>10. CASE UNCHANGED vars
    BY <1>10 DEF vars, Ahead, ReportIsHeard
<1> QED BY <1>1, <1>2, <1>3, <1>4, <1>5, <1>6, <1>7, <1>8, <1>9, <1>10 DEF Next, Loop

-----------------------------------------------------------------------------
(***************************************************************************)
(* The theorems.                                                           *)
(***************************************************************************)
\* The invariant holds before anything is mounted, ...
LEMMA HostInit == Init => HostInv
<1> SUFFICES ASSUME Init PROVE HostInv
    OBVIOUS
<1>1. TypeOK
    BY TypeInit
<1>2. frame.kind = "none"
    BY DEF Init, NoLoop
<1>3. /\ UnopenedUnknown /\ ConfirmedIsRendered /\ SentIsQueued
      /\ RecipientsReport /\ OpenIsHosted /\ ReportIsHeard
    BY DEF Init, UnopenedUnknown, ConfirmedIsRendered, SentIsQueued, RecipientsReport,
           OpenIsHosted, ReportIsHeard, isLiveDraft
<1>4. LoopIsEntitled
    BY <1>2 DEF LoopIsEntitled
<1> QED BY <1>1, <1>3, <1>4 DEF HostInv

\* Every step of the host keeps the invariant, ...
LEMMA HostStep == HostInv /\ [Next]_vars => HostInv'
<1> SUFFICES ASSUME HostInv, [Next]_vars PROVE HostInv'
    OBVIOUS
<1>1. TypeOK'
    BY TypeStep DEF HostInv
<1> QED BY <1>1, UnopenedStep, RenderedStep, SentStep, ReportStep, HostedStep, EntitledStep,
           HeardStep DEF HostInv

\* ... and so it holds in every reachable state.
LEMMA HostInvariant == Spec => []HostInv
<1> QED BY HostInit, HostStep, PTL DEF Spec

\* The host waits for exactly the roots that received an open draft and have
\* neither confirmed it nor left, but for those the running loop is about to
\* cross out.
THEOREM WaitsForTheRight == Spec => []RecipientsAwaited
<1>1. HostInv => RecipientsAwaited
    BY DEF HostInv, TypeOK, RecipientsReport, ReportIsHeard, RecipientsAwaited
<1> QED BY <1>1, HostInvariant, PTL

\* Somebody is always bound to end an open draft: a queued id of a mounted
\* root, the running loop, or the microtask of a draft sent to nobody.
THEOREM NobodyIsStranded == Spec => []NeverStranded
<1>1. HostInv => NeverStranded
    <2> SUFFICES ASSUME HostInv, ~aborted, NEW d \in DraftIds, isLiveDraft(d)
                 PROVE  /\ d \in hostedDrafts
                        /\ recipients[d] = {} => d \in due
                        /\ \A r \in recipients[d] :
                              (r \in rootConnections /\ d \in pending[r]) \/ Ahead(r, d)
        BY DEF NeverStranded
    <2>1. d \in hostedDrafts /\ (recipients[d] = {} => d \in due)
        BY DEF HostInv, OpenIsHosted
    <2>2. ASSUME NEW r \in recipients[d], ~Ahead(r, d)
          PROVE  r \in rootConnections /\ d \in pending[r]
        <3>1. d \notin confirmed[r] /\ r \notin left[d]
            BY <2>1, <2>2 DEF HostInv, ReportIsHeard
        <3>2. r \in audience[d]
            BY DEF HostInv, RecipientsReport
        <3> QED BY <3>1, <3>2 DEF HostInv, SentIsQueued
    <2> QED BY <2>1, <2>2
<1> QED BY <1>1, HostInvariant, PTL

\* A root keeps rendering with every open draft it has committed.
THEOREM ShownStaysShown == Spec => []CommittedStaysShown
<1>1. HostInv => CommittedStaysShown
    BY DEF HostInv, ConfirmedIsRendered, CommittedStaysShown, rootConnections
<1> QED BY <1>1, HostInvariant, PTL

\* No draft is retired while a root it was sent to has neither committed it
\* nor left, whatever mounts, hides and throws happen in between.
THEOREM RetiredTogether == Spec => RetiresTogether
<1> DEFINE Together ==
              \A d \in DraftIds : isLiveDraft(d) /\ draftState'[d] = "retired" =>
                  \A r \in audience[d] : d \in confirmed[r] \/ r \in left[d]
<1>1. HostInv /\ [Next]_vars => [Together]_vars
    <2> SUFFICES ASSUME HostInv, Next,
                        NEW d \in DraftIds, isLiveDraft(d), draftState'[d] = "retired",
                        NEW r \in audience[d]
                 PROVE  d \in confirmed[r] \/ r \in left[d]
        OBVIOUS
    <2> USE DEF isLiveDraft, engine, HostInv, TypeOK
    <2>1. ASSUME NEW e \in DraftIds, firstWrite(e) PROVE FALSE
        BY <2>1 DEF firstWrite
    <2>2. ASSUME NEW e \in DraftIds, runMicrotask(e) PROVE d \in confirmed[r] \/ r \in left[d]
        <3>1. e = d /\ recipients[d] = {}
            BY <2>2 DEF runMicrotask
        <3> QED BY <3>1 DEF RecipientsReport
    <2>3. ASSUME NEW e \in DraftIds, discardDraft(e) PROVE FALSE
        BY <2>3 DEF discardDraft
    <2>4. ASSUME NEW s \in Roots, registerRootConnection(s) PROVE FALSE
        BY <2>4 DEF registerRootConnection
    <2>5. ASSUME NEW s \in Roots, NEW taken \in SUBSET DraftIds, commit(s, taken) PROVE FALSE
        BY <2>5 DEF commit
    <2>6. ASSUME NEW s \in Roots, NEW to \in {"hidden", "gone"}, unregister(s, to) PROVE FALSE
        BY <2>6 DEF unregister
    <2>7. CASE poke
        BY <2>7 DEF poke
    <2>8. CASE visit
        <3>1. PICK e : Visits(e)
            BY <2>8, VisitEffect
        <3>2. e = d /\ Ends(d)
            BY <3>1 DEF Visits
        <3>3. CASE r \in recipients[d]
            <4>1. r = frame.root
                BY <3>2, <3>3 DEF Ends
            <4> QED BY <3>1, <3>2, <4>1 DEF Visits, LoopIsEntitled, SentIsQueued
        <3>4. CASE r \notin recipients[d]
            BY <3>4 DEF RecipientsReport
        <3> QED BY <3>3, <3>4
    <2>9. CASE endLoop
        BY <2>9 DEF endLoop
    <2> QED BY <2>1, <2>2, <2>3, <2>4, <2>5, <2>6, <2>7, <2>8, <2>9 DEF Next, Loop
<1> QED BY <1>1, HostInvariant, PTL DEF Spec, RetiresTogether
=============================================================================
