------------------------- MODULE DraftReadersProofs -------------------------
(***************************************************************************)
(* Those who read drafts.                                                  *)
(*                                                                         *)
(* Subscriptions: no stale screen, no torn commit, no leaked draft and no  *)
(* idle repair, for every set of components, roots, atoms and drafts.  The *)
(* invariant follows what a hook has been handed from its queue into a     *)
(* pass and out of it again, by a commit or because the pass is dropped,   *)
(* and says what keeps each rendering of it true until then.               *)
(*                                                                         *)
(* WorldMemos, in the second half: no memo serves a suspended state whose  *)
(* suspension was resolved, and what a memo serves is what evaluating the  *)
(* node would give, for every program whose bodies end.                    *)
(***************************************************************************)
EXTENDS Subscriptions, WorldMemos, DraftsProofs, FiniteSetTheorems

\* What the theorems assume: the atoms compare by identity, as they do by
\* default.
IdentityEquality == \A u, v \in Values : Same(u, v) => u = v
-----------------------------------------------------------------------------
(***************************************************************************)
(* The invariant                                                           *)
(***************************************************************************)
\* An update carries a draft only in the lane of that draft.
Wakes == {u \in [lane : {UrgentLane} \cup DraftIds, id : {REPAIR_WAKE} \cup DraftIds] :
             u.id # REPAIR_WAKE => u.lane = u.id}

Trees == [ids : SUBSET DraftIds, value : Values \cup {Thrown, "none"}, live : BOOLEAN]
HookStates ==
    [mounted : BOOLEAN, ids : SUBSET DraftIds, queue : SUBSET Wakes,
     delivered : SUBSET DraftIds, repairPending : BOOLEAN, rendered : Trees, committed : Trees]
Renders == [own : SUBSET DraftIds, shown : Trees]
Passes ==
    [stage : {"render", "poke", "confirm", "layout"}, root : Roots, sync : BOOLEAN,
     ids : SUBSET DraftIds, carries : BOOLEAN, world : SUBSET DraftIds, todo : SUBSET Hooks,
     taken : [Hooks -> SUBSET Wakes], done : UNION {[S -> Renders] : S \in SUBSET Hooks},
     moved : SUBSET Hooks, confirm : SUBSET DraftIds]
RenderNotes == [root : Roots, ids : SUBSET DraftIds]

\* Types.
SubsType ==
    /\ rootConnections \in SUBSET Roots /\ Early \subseteq rootConnections
    /\ recipients \in [DraftIds -> SUBSET Roots] /\ audience \in [DraftIds -> SUBSET Roots]
    /\ worlds \in [Roots -> SUBSET DraftIds] /\ sent \in [Roots -> SUBSET DraftIds]
    /\ hook \in [Hooks -> HookStates]
    /\ guests \in SUBSET Hooks
    /\ pass = NoPass \/ pass \in Passes
    /\ note = NoNote \/ note \in RenderNotes

Rendering == pass.stage = "render"
Ending == pass.stage \in {"poke", "confirm", "layout"}
InDone(h) == pass.stage # "none" /\ h \in DOMAIN pass.done
InTodo(h) == Rendering /\ h \in pass.todo
Taken(h) == IF Rendering THEN pass.taken[h] ELSE {}

\* The ids of S are in W, or their drafts have ended or were never sent to r.
Ended(d) == draftState[d] \in {"retired", "discarded"}
Past(r, d) == Ended(d) \/ (draftState[d] = "open" /\ r \notin audience[d])
Within(r, S, W) == \A d \in S : d \in W \/ Past(r, d)

\* An open draft waits for a root, and each root that it was sent to has its id
\* under way or committed.
HostsOK ==
    /\ \A d \in OpenDrafts : /\ recipients[d] # {}
                             /\ \A r \in audience[d] : d \in sent[r] \cup worlds[r]
    /\ \A r \in Roots : \A d \in sent[r] \cup worlds[r] : draftState[d] # "unopened"

\* What a pass takes it renders, in its own root; what it has rendered stands
\* in the hook; a pass that carries drafts renders whatever differs.
PassOK ==
    /\ Rendering =>
         /\ pass.todo \cap DOMAIN pass.done = {}
         /\ \A h \in Hooks : pass.taken[h] # {} => hook[h].mounted /\ h \in pass.todo \cup DOMAIN pass.done
         /\ \A h \in pass.todo \cup DOMAIN pass.done : hook[h].mounted => pass.taken[h] # {}
         /\ \A h \in pass.todo : Home(h) = pass.root
         /\ \A h \in DOMAIN pass.done : \A d \in OpenDrafts :
              d \in hook[h].ids \/ Update(d, d) \in pass.taken[h] => d \in pass.done[h].own
    /\ \A h \in Hooks : InDone(h) =>
         Home(h) = pass.root /\ hook[h].rendered = pass.done[h].shown /\ hook[h].rendered.live
    /\ pass.stage \in {"poke", "confirm"} => pass.carries
    /\ pass.stage \in {"render", "poke", "confirm"} /\ pass.carries =>
         \A h \in Mounted : Home(h) = pass.root /\ ~InTodo(h) /\ ~InDone(h) =>
             hook[h].rendered = hook[h].committed

\* The marks of a hook stand for updates that are on their way.
MarksOK(h) ==
    /\ ~hook[h].mounted =>
         hook[h].queue = {} /\ hook[h].delivered = {} /\ ~hook[h].repairPending
    /\ hook[h].mounted => hook[h].rendered.live /\ hook[h].committed.live
    /\ \A d \in hook[h].delivered :
         Update(d, d) \in hook[h].queue \/ (InTodo(h) /\ Update(d, d) \in pass.taken[h])
    /\ hook[h].repairPending => hook[h].queue # {} \/ (InTodo(h) /\ pass.taken[h] # {})

\* A hook shows what it rendered last, or will render again.
KeptOK(h) ==
    hook[h].mounted =>
        \/ hook[h].rendered = hook[h].committed \/ hook[h].queue # {} \/ Taken(h) # {}
        \/ Ending /\ InDone(h)

\* What a hook shows, and what the pass will make it show, is current, or the
\* hook will render again.
Current(h, tree) == tree.value = Resolutions(Reads(h))[tree.ids]
ScreenOK(h) ==
    hook[h].mounted =>
        /\ ~(Ending /\ InDone(h)) =>
             Current(h, hook[h].committed) \/ hook[h].queue # {} \/ Taken(h) # {}
        /\ InDone(h) =>
             \/ Current(h, pass.done[h].shown) \/ hook[h].queue # {}
             \/ Rendering /\ h \in pass.moved

\* Ids that are under way to a hook are under way to its root.
LeaksOK(h) ==
    /\ Within(Home(h), hook[h].ids, worlds[Home(h)])
    /\ \A u \in hook[h].queue :
         u.id # REPAIR_WAKE => Within(Home(h), {u.id}, sent[Home(h)] \cup worlds[Home(h)])
    /\ hook[h].mounted => Within(Home(h), hook[h].committed.ids, worlds[Home(h)])
    /\ Rendering => \A u \in pass.taken[h] : u.id # REPAIR_WAKE => Within(pass.root, {u.id}, pass.world)
    /\ Rendering /\ InDone(h) =>
         Within(pass.root, pass.done[h].own, pass.world) /\ Within(pass.root, pass.done[h].shown.ids, pass.world)
    /\ Ending /\ InDone(h) => Within(Home(h), pass.done[h].shown.ids, worlds[Home(h)])

\* The world of a pass is what its root is about to commit, and a note's ids
\* are those of such a world.
NoteWorld(r) == IF Rendering /\ r = pass.root THEN pass.world ELSE worlds[r]
WorldsOK ==
    /\ Rendering =>
         /\ Within(pass.root, worlds[pass.root] \cup pass.ids, pass.world)
         /\ pass.world \subseteq worlds[pass.root] \cup pass.ids
         /\ pass.ids \subseteq sent[pass.root]
    /\ note # NoNote => Within(note.root, note.ids, NoteWorld(note.root))

\* A hook that subscribed for itself has been handed every draft of its atom
\* that was sent to its root.
HandedOK(h) ==
    hook[h].mounted /\ h \notin guests =>
        \A d \in OpenDrafts : Reads(h) \in WrittenBy(d) /\ Home(h) \in audience[d] =>
            d \in hook[h].ids \/ Update(d, d) \in hook[h].queue \/ Update(d, d) \in Taken(h)

SubsInv ==
    /\ SubsType /\ HostsOK /\ PassOK /\ WorldsOK
    /\ \A h \in Hooks : MarksOK(h) /\ KeptOK(h) /\ ScreenOK(h) /\ LeaksOK(h) /\ HandedOK(h)
-----------------------------------------------------------------------------
(***************************************************************************)
(* What the steps of the engine do to values                               *)
(***************************************************************************)
\* Under identity a reader resolves exactly its replay, ...
ResolvesReplay ==
    \A a \in Atoms : \A W \in SUBSET DraftIds : Resolve(a, W) = Rp(a, W)
\* ... in every state with base and logs in step, ...
LEMMA ResolveMeans ==
    ASSUME UpdatersReturn, IdentityEquality
    PROVE  StoreInv => ResolvesReplay
<1> SUFFICES ASSUME StoreInv, NEW a \in Atoms, NEW W \in SUBSET DraftIds
             PROVE  Resolve(a, W) = Rp(a, W)
    BY DEF ResolvesReplay
<1>1. TypeOK
    BY DEF StoreInv, HistoryInv
<1>2. Class[Resolve(a, W)] = Class[Rp(a, W)]
    BY ResolveIsRp
<1>3. Rp(a, W) \in Values /\ Resolve(a, W) \in Values
    <2>1. \A V : Rp(a, V) \in Values
        BY <1>1, RpValue
    <2>2. replayLog(a, worldOf(W)) = Rp(a, W) /\ base[a] \in Values
        BY <1>1, RpIsReplay DEF TypeOK
    <2> QED BY <2>1, <2>2 DEF Resolve
<1> QED BY <1>2, <1>3 DEF IdentityEquality, Same

\* ... also after a step.
LEMMA ResolveMeansNext ==
    ASSUME UpdatersReturn, IdentityEquality
    PROVE  StoreInv' => ResolvesReplay'
BY ResolveMeans, PTL

\* Nobody sees anything else.
ValuesKept == \A a \in Atoms : Resolutions(a)' = Resolutions(a)

\* Whoever sees something else is told.
ChangesTold ==
    \A a \in Atoms : \A W \in SUBSET DraftIds :
        Resolutions(a)'[W] # Resolutions(a)[W] => a \in ToldOf(told')

\* Without a new base value, it is handed a draft.
DraftChangesHanded ==
    \A a \in Atoms : \A W \in SUBSET DraftIds :
        Resolutions(a)'[W] # Resolutions(a)[W] /\ base'[a] = base[a] =>
            \E d \in DraftIds : Wake(a, d) \in told'

\* Replays are values, ...
ReplaysAreValues == \A a \in Atoms : \A W \in SUBSET DraftIds : Rp(a, W) \in Values
\* ... in every well-typed state, ...
LEMMA ReplaysTyped == ASSUME UpdatersReturn PROVE TypeOK => ReplaysAreValues
BY RpValue DEF ReplaysAreValues

\* ... also after a step.
LEMMA ReplaysTypedNext == ASSUME UpdatersReturn PROVE TypeOK' => ReplaysAreValues'
BY ReplaysTyped, PTL

\* A step that leaves a replay equal leaves what is resolved the same.
LEMMA ByReplays ==
    ASSUME UpdatersReturn, IdentityEquality, StoreInv, StoreInv'
    PROVE  \A a \in Atoms : \A W \in SUBSET DraftIds :
              /\ Resolve(a, W) = Rp(a, W) /\ Resolve(a, W)' = Rp(a, W)'
              /\ (Same(Rp(a, W)', Rp(a, W)) \/ Same(Rp(a, W), Rp(a, W)')) =>
                     Resolve(a, W)' = Resolve(a, W)
<1> TAKE a \in Atoms
<1> TAKE W \in SUBSET DraftIds
<1>1. Resolve(a, W) = Rp(a, W) /\ Resolve(a, W)' = Rp(a, W)'
    BY ResolveMeans, ResolveMeansNext DEF ResolvesReplay
<1>2. Rp(a, W)' \in Values /\ Rp(a, W) \in Values
    BY ReplaysTyped, ReplaysTypedNext DEF ReplaysAreValues, StoreInv, HistoryInv
<1> QED BY <1>1, <1>2 DEF IdentityEquality, Same

\* What is resolved is a value or the error of an updater.
ResolveTyped ==
    \A a \in Atoms : \A W \in SUBSET DraftIds : Resolve(a, W) \in Values \cup {Thrown}
\* It is one in every state of the store.
LEMMA ResolveIsTyped == ASSUME StoreInv PROVE ResolveTyped
<1> SUFFICES ASSUME NEW a \in Atoms, NEW W \in SUBSET DraftIds
             PROVE  Resolve(a, W) \in Values \cup {Thrown}
    BY DEF ResolveTyped
<1>1. TypeOK /\ base[a] \in Values
    BY DEF StoreInv, HistoryInv, TypeOK
<1>2. replayLog(a, worldOf(W)) \in Values \cup {Thrown}
    BY <1>1, ReplayType DEF Results
<1> QED BY <1>1, <1>2 DEF Resolve

\* The hypotheses of the engine follow from what the theorems assume.
LEMMA IdentityRespects == ASSUME UpdatersReturn, IdentityEquality PROVE UpdatersRespectEquals
BY DEF UpdatersReturn, IdentityEquality, UpdatersRespectEquals, Same

\* A step of the engine alone keeps base and logs in step, ...
LEMMA StoreStep ==
    ASSUME UpdatersReturn, IdentityEquality, StoreInv, [Next]_vars
    PROVE  StoreInv'
BY IdentityRespects, BaseStep, TypeStep, LinkedStep, KeptStep, FreshStep DEF StoreInv, HistoryInv

\* ... and one that only tells something changes no value.
LEMMA StoreQuiet ==
    ASSUME StoreInv, UNCHANGED <<draftState, written, log, base, releasing, leaked>>,
           told' \in SUBSET Notices
    PROVE  StoreInv' /\ ValuesKept
<1>1. TypeOK'
    BY DEF StoreInv, HistoryInv, TypeOK
<1>2. OpenDrafts' = OpenDrafts /\ \A d : WrittenBy(d)' = WrittenBy(d) /\ IsOpen(d)' = IsOpen(d)
    BY DEF OpenDrafts, WrittenBy, IsOpen
<1>3. FreshUnwritten' /\ Linked' /\ Kept'
    BY <1>2 DEF StoreInv, HistoryInv, FreshUnwritten, Linked, Kept
<1>4. \A W : Applied(W)' = Applied(W) /\ worldOf(W)' = worldOf(W)
    BY <1>2 DEF Applied, worldOf
<1>5. \A a \in Atoms : \A W : replayLog(a, W)' = replayLog(a, W)
    BY <1>4 DEF replayLog
<1>6. BaseIsReplay'
    BY <1>5 DEF StoreInv, BaseIsReplay, Same
<1>7. ValuesKept
    BY <1>4, <1>5 DEF ValuesKept, Resolve, Resolutions
<1> QED BY <1>1, <1>3, <1>6, <1>7 DEF StoreInv, HistoryInv

\* Opening and releasing change no value.
LEMMA EngineQuiet ==
    ASSUME UpdatersReturn, IdentityEquality, StoreInv, StoreInv',
           releaseDraft \/ \E d \in DraftIds : openDraft(d)
    PROVE  ValuesKept
<1>1. ASSUME NEW a \in Atoms, NEW W \in SUBSET DraftIds PROVE Resolve(a, W)' = Resolve(a, W)
    <2>1. Same(Rp(a, W)', Rp(a, W))
        <3>1. CASE releaseDraft
            BY <3>1, ReleaseShows
        <3>2. ASSUME NEW d \in DraftIds, openDraft(d) PROVE Same(Rp(a, W)', Rp(a, W))
            BY <3>2, OpenShows DEF StoreInv, Same
        <3> QED BY <3>1, <3>2
    <2> QED BY <2>1, ByReplays
<1> QED BY <1>1 DEF ValuesKept, Resolutions

\* A drafted write hands its draft to whoever sees it.
LEMMA DraftWriteTold ==
    ASSUME UpdatersReturn, IdentityEquality, StoreInv, StoreInv',
           NEW d \in DraftIds, NEW b \in Atoms, NEW op \in Ops, appendDraftIntent(d, b, op)
    PROVE  ChangesTold /\ DraftChangesHanded
<1>1. told' = {Wake(b, d)} /\ draftIntent(d, b, op) /\ HistoryInv
    BY DEF appendDraftIntent, StoreInv
<1>2. ASSUME NEW a \in Atoms, NEW W \in SUBSET DraftIds, a # b
      PROVE  Resolve(a, W)' = Resolve(a, W)
    <2>1. Rp(a, W)' = Rp(a, W)
        BY <1>1, <1>2, DraftWriteShows
    <2> QED BY <2>1, ByReplays DEF Same
<1>3. b \in ToldOf(told') /\ Wake(b, d) \in told'
    BY <1>1 DEF ToldOf, Wake
<1> QED BY <1>2, <1>3 DEF ChangesTold, DraftChangesHanded, Resolutions

\* An urgent write starts a wave, or hands its atom's open drafts over.
LEMMA UrgentWriteTold ==
    ASSUME UpdatersReturn, IdentityEquality, StoreInv, StoreInv',
           NEW b \in Atoms, NEW op \in Ops, urgentWrite(b, op)
    PROVE  ChangesTold /\ DraftChangesHanded
<1>1. HistoryInv /\ UpdatersRespectEquals /\ TypeOK /\ urgentIntent(b, op)
    BY IdentityRespects DEF StoreInv, HistoryInv, urgentWrite
<1>2. ASSUME NEW a \in Atoms, NEW W \in SUBSET DraftIds, Resolve(a, W)' # Resolve(a, W)
      PROVE  /\ a \in ToldOf(told')
             /\ base'[a] = base[a] => \E d \in DraftIds : Wake(a, d) \in told'
    <2>1. a = b
        <3>1. a # b => Rp(a, W)' = Rp(a, W)
            BY <1>1, UrgentWriteShows
        <3> QED BY <1>2, <3>1, ByReplays DEF Same
    <2>2. CASE Same(base[b], op[base[b]])
        <3>1. ~(log[b] = NoLog \/ W \cap OpenInLog(b) = {})
            BY <1>1, <1>2, <2>1, <2>2, UnmovedShows, ByReplays
        <3>2. told' = pokeRebasedAtom(b)
            BY <2>2, <3>1 DEF urgentWrite, movesBase
        <3>3. PICK d \in W : d \in OpenInLog(b)
            BY <3>1
        <3>4. Wake(b, d) \in told' /\ d \in DraftIds
            BY <3>2, <3>3 DEF pokeRebasedAtom
        <3> QED BY <2>1, <3>4 DEF ToldOf, Wake
    <2>3. CASE ~Same(base[b], op[base[b]])
        <3>1. told' = {Wave(b)} /\ base'[b] = op[base[b]]
            BY <1>1, <2>3 DEF urgentWrite, urgentIntent, movesBase, TypeOK
        <3>2. base'[b] # base[b]
            BY <2>3, <3>1 DEF Same
        <3> QED BY <2>1, <3>1, <3>2 DEF ToldOf, Wave
    <2> QED BY <2>2, <2>3
<1> QED BY <1>2 DEF ChangesTold, DraftChangesHanded, Resolutions

\* A retirement pokes every atom that moves.
LEMMA RetireTold ==
    ASSUME UpdatersReturn, IdentityEquality, StoreInv, StoreInv',
           NEW d \in DraftIds, retireDraft(d)
    PROVE  ChangesTold
<1>1. ASSUME NEW a \in Atoms, NEW W \in SUBSET DraftIds, Resolve(a, W)' # Resolve(a, W)
      PROVE  a \in ToldOf(told')
    <2>1. HistoryInv
        BY DEF StoreInv
    <2>2. CASE a \in WrittenBy(d)
        <3>1. Poke(a) \in told'
            BY <2>1, <2>2, RetireShows
        <3> QED BY <3>1 DEF ToldOf, Poke
    <2>3. CASE a \notin WrittenBy(d)
        <3>1. Rp(a, W)' = Rp(a, W \cup {d})
            BY <2>1, RetireShows
        <3>2. Rp(a, W)' = Rp(a, W)
            BY <2>1, <2>3, <3>1, Strangers
        <3> QED BY <1>1, <3>2, ByReplays DEF Same
    <2> QED BY <2>2, <2>3
<1> QED BY <1>1 DEF ChangesTold, Resolutions
-----------------------------------------------------------------------------
(***************************************************************************)
(* What a hook does with a notice                                          *)
(***************************************************************************)
\* The change of a hook that hears the notices of a step.
HookHears(h) ==
    LET s == hook[h]
        t == hook'[h]
        stash == stashOf(h)
        differs == Resolutions(Reads(h))'[stash.ids] # stash.value
    IN  /\ t \in HookStates
        /\ t.mounted = s.mounted /\ t.ids = s.ids
        /\ t.rendered = s.rendered /\ t.committed = s.committed
        /\ s.queue \subseteq t.queue
        /\ \A u \in t.queue : u \in s.queue \/ u.id = REPAIR_WAKE \/ u.id \in WakesFor(h, told')
        /\ \A d \in t.delivered : d \in s.delivered \/ Update(d, d) \in t.queue
        /\ t.repairPending => s.repairPending \/ t.queue # {}
        /\ ~s.mounted => t = s
        /\ s.mounted => WakesFor(h, told') \subseteq t.delivered
        /\ s.mounted /\ Reads(h) \in ToldOf(told') /\ stash.live /\ differs => t.repairPending
        /\ t.repairPending /\ ~s.repairPending => differs

\* A draft that is handed over is one a root waits for.
WakesHosted == \A h \in Hooks : \A d \in WakesFor(h, told') : d \in OpenDrafts /\ recipients[d] # {}

\* Notified, in lane l, hands a draft over in the draft's own lane, ...
LEMMA HeardIsHeard ==
    ASSUME SubsType, NEW h \in Hooks, NEW l \in {UrgentLane} \cup DraftIds, Notified(l),
           \A d \in WakesFor(h, told') : d \in DraftIds /\ WakeLane(l, d) = d
    PROVE  HookHears(h)
<1> DEFINE s == hook[h]
           stash == stashOf(h)
           now == Resolutions(Reads(h))'[stash.ids]
           D == WakesFor(h, told')
           r == repaired(h, s, now # stash.value, l)
           t == deliver(r, D, l)
<1>1. s \in HookStates /\ hook'[h] = heard(h, told', now, l)
    BY DEF SubsType, Notified
<1>2. D \subseteq DraftIds /\ \A d \in D : WakeLane(l, d) = d
    OBVIOUS
<1>3. CASE h \notin Mounted \/ Reads(h) \notin ToldOf(told')
    <2>1. hook'[h] = s
        BY <1>1, <1>3 DEF heard
    <2>2. s.mounted => D = {}
        <3>1. ASSUME NEW d \in D PROVE Reads(h) \in ToldOf(told')
            BY DEF WakesFor, ToldOf
        <3> QED BY <1>3, <3>1 DEF Mounted
    <2>3. s.mounted => Reads(h) \notin ToldOf(told')
        BY <1>3 DEF Mounted
    <2> HIDE DEF D
    <2> QED BY <1>1, <2>1, <2>2, <2>3 DEF HookHears, D
<1>4. CASE h \in Mounted /\ Reads(h) \in ToldOf(told')
    <2>1. hook'[h] = t
        BY <1>1, <1>4 DEF heard
    <2> HIDE DEF now, stash, D
    <2>2. Update(l, REPAIR_WAKE) \in Wakes /\ \A d \in DraftIds : Update(d, d) \in Wakes
        BY DEF Wakes, Update
    <2>3. /\ r \in HookStates
          /\ r.mounted = s.mounted /\ r.ids = s.ids /\ r.rendered = s.rendered
          /\ r.committed = s.committed /\ r.delivered = s.delivered
          /\ r.queue = s.queue \/ (r.queue = s.queue \cup {Update(l, REPAIR_WAKE)})
          /\ r.repairPending => s.repairPending \/ r.queue # {}
          /\ stash.live /\ now # stash.value => r.repairPending
          /\ r.repairPending /\ ~s.repairPending => now # stash.value
        <3>1. r = s \/ (/\ now # stash.value
                        /\ r = [s EXCEPT !.repairPending = TRUE,
                                         !.queue = @ \cup {Update(l, REPAIR_WAKE)}])
            BY DEF repaired, stash
        <3>2. stash.live /\ now # stash.value /\ ~s.repairPending =>
                 r = [s EXCEPT !.repairPending = TRUE, !.queue = @ \cup {Update(l, REPAIR_WAKE)}]
            BY DEF repaired, stash
        <3> HIDE DEF r, s
        <3>3. CASE r = s
            BY <1>1, <3>2, <3>3 DEF HookStates
        <3>4. CASE /\ now # stash.value
                   /\ r = [s EXCEPT !.repairPending = TRUE, !.queue = @ \cup {Update(l, REPAIR_WAKE)}]
            BY <1>1, <2>2, <3>4 DEF HookStates
        <3> QED BY <3>1, <3>3, <3>4
    <2>4. \A u \in r.queue : u \in s.queue \/ u.id = REPAIR_WAKE
        BY <2>3 DEF Update
    <2> HIDE DEF r
    <2>5. /\ t \in HookStates
          /\ t.mounted = r.mounted /\ t.ids = r.ids /\ t.rendered = r.rendered
          /\ t.committed = r.committed /\ t.repairPending = r.repairPending
          /\ t.delivered = r.delivered \cup D
          /\ t.queue = r.queue \cup {Update(d, d) : d \in D \ r.delivered}
        <3>1. {Update(WakeLane(l, d), d) : d \in D \ r.delivered} = {Update(d, d) : d \in D \ r.delivered}
            BY <1>2 DEF D
        <3>2. t = [r EXCEPT !.delivered = @ \cup D,
                            !.queue = @ \cup {Update(d, d) : d \in D \ r.delivered}]
            BY <3>1 DEF deliver
        <3>3. {Update(d, d) : d \in D \ r.delivered} \subseteq Wakes
            BY <1>2, <2>2 DEF D
        <3> DEFINE Q == {Update(d, d) : d \in D \ r.delivered}
        <3> HIDE DEF Q, t
        <3> QED BY <1>2, <2>3, <3>2, <3>3 DEF HookStates, D, Q
    <2> HIDE DEF t, s
    <2>6. \A u \in t.queue : u \in s.queue \/ u.id = REPAIR_WAKE \/ u.id \in D
        <3>1. SUFFICES ASSUME NEW u \in t.queue, u \notin r.queue PROVE u.id \in D
            BY <2>4
        <3>2. PICK d \in D : u = Update(d, d)
            BY <2>5, <3>1
        <3> QED BY <3>2 DEF Update
    <2>9. \A d \in t.delivered : d \in s.delivered \/ Update(d, d) \in t.queue
        <3>1. r.delivered = s.delivered
            BY <2>3
        <3>2. t.delivered = r.delivered \cup D
            BY <2>5
        <3>3. \A d \in D \ r.delivered : Update(d, d) \in t.queue
            BY <2>5
        <3> QED BY <3>1, <3>2, <3>3
    <2>7. /\ t.mounted = s.mounted /\ t.ids = s.ids /\ t.rendered = s.rendered
          /\ t.committed = s.committed /\ s.queue \subseteq t.queue
          /\ t.repairPending => s.repairPending \/ t.queue # {}
          /\ D \subseteq t.delivered
          /\ stash.live /\ now # stash.value => t.repairPending
          /\ t.repairPending /\ ~s.repairPending => now # stash.value
        BY <2>3, <2>5
    <2>8. s.mounted
        BY <1>4 DEF Mounted, s
    <2> QED BY <2>1, <2>5, <2>6, <2>7, <2>8, <2>9 DEF HookHears, s, D, now, stash
<1> QED BY <1>3, <1>4

\* ... and so do the notices of every step that runs it.
LEMMA NotifiedHears ==
    ASSUME SubsType, WakesHosted, NEW l \in {UrgentLane} \cup DraftIds, Notified(l),
           l # UrgentLane => \A h \in Hooks : WakesFor(h, told') \subseteq {l}
    PROVE  /\ \A h \in Hooks : HookHears(h)
           /\ hook' \in [Hooks -> HookStates]
<1>1. ASSUME NEW h \in Hooks PROVE HookHears(h)
    <2>1. \A d \in WakesFor(h, told') : d \in DraftIds /\ WakeLane(l, d) = d
        BY DEF WakesHosted, WakeLane, hosted, OpenDrafts
    <2> QED BY <2>1, HeardIsHeard
<1>2. hook' \in [Hooks -> HookStates]
    <2>1. hook' = [h \in Hooks |-> hook'[h]]
        BY DEF Notified
    <2>2. \A h \in Hooks : hook'[h] \in HookStates
        BY <1>1 DEF HookHears
    <2> QED BY <2>1, <2>2
<1> QED BY <1>1, <1>2

\* A step that tells nobody anything.
LEMMA SilentHears ==
    ASSUME SubsType, told' = {}, hook' = hook
    PROVE  /\ \A h \in Hooks : HookHears(h)
           /\ hook' \in [Hooks -> HookStates]
           /\ \A h \in Hooks : WakesFor(h, told') = {}
<1>1. ASSUME NEW h \in Hooks PROVE HookHears(h) /\ WakesFor(h, told') = {}
    <2>1. WakesFor(h, told') = {} /\ Reads(h) \notin ToldOf(told')
        BY DEF WakesFor, ToldOf
    <2>2. hook'[h] \in HookStates /\ hook'[h] = hook[h]
        BY DEF SubsType
    <2> QED BY <2>1, <2>2 DEF HookHears
<1> QED BY <1>1 DEF SubsType
-----------------------------------------------------------------------------
(***************************************************************************)
(* Steps in which hooks at most hear: no pass begins, renders or commits   *)
(***************************************************************************)
\* What the invariant says of one hook.
HookOK(h) == MarksOK(h) /\ KeptOK(h) /\ ScreenOK(h) /\ LeaksOK(h) /\ HandedOK(h)

\* The pass renders and has rendered what it did.
SamePass ==
    \/ pass' = pass
    \/ /\ pass' \in Passes /\ pass \in Passes
       /\ \/ pass'.stage = pass.stage
          \/ pass.stage = "poke" /\ pass'.stage = "confirm"
          \/ pass.stage = "confirm" /\ pass'.stage = "layout"
       /\ pass'.root = pass.root /\ pass'.ids = pass.ids /\ pass'.carries = pass.carries
       /\ pass'.world = pass.world /\ pass'.todo = pass.todo /\ pass'.taken = pass.taken
       /\ pass'.done = pass.done /\ pass.moved \subseteq pass'.moved

\* A hook of the pass whose value moves is rendered again.
MovedHeard ==
    \A h \in Hooks : Rendering /\ InDone(h) =>
        \/ Resolutions(Reads(h))' = Resolutions(Reads(h))
        \/ h \in pass'.moved \/ WakesFor(h, told') # {}

\* Drafts only end or open, and are sent to nobody while they are open.
DraftsMoveOn ==
    \A d \in DraftIds : /\ Ended(d) => Ended(d)'
                        /\ d \in OpenDrafts =>
                              audience'[d] = audience[d] /\ (d \in OpenDrafts' \/ Ended(d)')
                        /\ d \in OpenDrafts' => d \in OpenDrafts \/ draftState[d] = "unopened"

\* A draft is handed to the hooks of the atoms it writes.
WritesHanded ==
    \A h \in Hooks : \A d \in DraftIds :
        d \in OpenDrafts' /\ Reads(h) \in WrittenBy(d)' =>
            (d \in OpenDrafts /\ Reads(h) \in WrittenBy(d)) \/ d \in WakesFor(h, told')

HearOnly ==
    /\ SamePass /\ (\A h \in Hooks : HookHears(h)) /\ hook' \in [Hooks -> HookStates]
    /\ worlds' = worlds /\ guests' = guests /\ \A r \in Roots : sent[r] \subseteq sent'[r]
    /\ note' = note \/ note' = NoNote
    /\ ChangesTold /\ (pass.stage = "layout" => ValuesKept)
    /\ MovedHeard /\ DraftsMoveOn /\ WritesHanded /\ WakesHosted

\* What is past for a root stays past.
LEMMA PastStays ==
    ASSUME DraftsMoveOn
    PROVE  \A r : \A S, V, W : S \subseteq DraftIds /\ Within(r, S, V) /\ V \subseteq W => Within(r, S, W)'
<1> SUFFICES ASSUME NEW r, NEW S, NEW V, NEW W, S \subseteq DraftIds, Within(r, S, V), V \subseteq W,
                    NEW d \in S, d \notin W
             PROVE  Past(r, d)'
    BY DEF Within
<1>1. d \in DraftIds /\ Past(r, d)
    BY DEF Within
<1>2. CASE Ended(d)
    BY <1>1, <1>2 DEF DraftsMoveOn, Past
<1>3. CASE draftState[d] = "open" /\ r \notin audience[d]
    BY <1>1, <1>3 DEF DraftsMoveOn, OpenDrafts, Past
<1> QED BY <1>1, <1>2, <1>3 DEF Past

\* What a pass is about is the same.
SameStage ==
    /\ Rendering' <=> Rendering
    /\ Ending' <=> Ending
    /\ \A h \in Hooks : /\ InDone(h)' <=> InDone(h)
                        /\ InTodo(h)' <=> InTodo(h)
                        /\ Taken(h)' = Taken(h)
SameFields ==
    /\ pass'.root = pass.root /\ pass'.ids = pass.ids /\ pass'.carries = pass.carries
    /\ pass'.world = pass.world /\ pass'.todo = pass.todo /\ pass'.taken = pass.taken
    /\ pass'.done = pass.done /\ pass.moved \subseteq pass'.moved

\* A pass that only heard of a step is what it was.
LEMMA StageSame == ASSUME SamePass PROVE SameStage /\ SameFields
<1>1. CASE pass' = pass
    BY <1>1 DEF SameStage, SameFields, Rendering, Ending, InDone, InTodo, Taken
<1>2. CASE pass' # pass
    <2>1. SameFields /\ pass \in Passes /\ pass' \in Passes
        BY <1>2 DEF SamePass, SameFields
    <2>2. Rendering' <=> Rendering
        BY <1>2 DEF SamePass, Rendering
    <2>3. Ending' <=> Ending
        BY <1>2 DEF SamePass, Ending
    <2>4. pass.stage # "none" /\ pass'.stage # "none"
        BY <2>1 DEF Passes
    <2>5. ASSUME NEW h \in Hooks
          PROVE  /\ InDone(h)' <=> InDone(h)
                 /\ InTodo(h)' <=> InTodo(h)
                 /\ Taken(h)' = Taken(h)
        BY <2>1, <2>2, <2>4 DEF SameFields, InDone, InTodo, Taken
    <2> QED BY <2>1, <2>2, <2>3, <2>5 DEF SameStage
<1> QED BY <1>1, <1>2

\* The marks still stand for updates.
LEMMA MarksHeard ==
    ASSUME NEW h \in Hooks, HookHears(h), SameStage, SameFields, MarksOK(h)
    PROVE  MarksOK(h)'
<1> DEFINE s == hook[h]
           t == hook'[h]
<1>1. /\ t.mounted = s.mounted /\ t.rendered = s.rendered /\ t.committed = s.committed
      /\ s.queue \subseteq t.queue
      /\ \A d \in t.delivered : d \in s.delivered \/ Update(d, d) \in t.queue
      /\ t.repairPending => s.repairPending \/ t.queue # {}
      /\ ~s.mounted => t = s
    BY DEF HookHears
<1>2. (InTodo(h)' <=> InTodo(h)) /\ pass'.taken = pass.taken
    BY DEF SameStage, SameFields
<1>3. ~t.mounted => t.queue = {} /\ t.delivered = {} /\ ~t.repairPending
    BY <1>1 DEF MarksOK
<1>4. t.mounted => t.rendered.live /\ t.committed.live
    BY <1>1 DEF MarksOK
<1>5. \A d \in t.delivered :
         Update(d, d) \in t.queue \/ (InTodo(h)' /\ Update(d, d) \in pass'.taken[h])
    <2> TAKE d \in t.delivered
    <2>1. CASE d \in s.delivered
        BY <1>1, <1>2, <2>1 DEF MarksOK
    <2>2. CASE Update(d, d) \in t.queue
        BY <2>2
    <2> QED BY <1>1, <2>1, <2>2
<1>6. t.repairPending => t.queue # {} \/ (InTodo(h)' /\ pass'.taken[h] # {})
    BY <1>1, <1>2 DEF MarksOK
<1> QED BY <1>3, <1>4, <1>5, <1>6 DEF MarksOK

\* What is kept is kept.
LEMMA KeptHeard ==
    ASSUME NEW h \in Hooks, HookHears(h), SameStage, KeptOK(h)
    PROVE  KeptOK(h)'
BY DEF HookHears, SameStage, KeptOK

\* A hook that could hear of a change would queue a repair.
LEMMA RepairQueued ==
    ASSUME NEW h \in Hooks, HookHears(h), ChangesTold, SubsType, MarksOK(h),
           hook[h].mounted, stashOf(h).live, Current(h, stashOf(h)),
           ~(stashOf(h).value = Resolutions(Reads(h))'[stashOf(h).ids])
    PROVE  hook'[h].queue # {} \/ Taken(h) # {}
<1> DEFINE stash == stashOf(h)
<1>1. stash.ids \in SUBSET DraftIds /\ Reads(h) \in Atoms
    BY RootsAssumption DEF SubsType, HookStates, Trees, stashOf
<1>2. Reads(h) \in ToldOf(told')
    BY <1>1 DEF ChangesTold, Current
<1>3. hook'[h].repairPending
    BY <1>2 DEF HookHears
<1>4. hook[h].repairPending \/ hook'[h].queue # {}
    BY <1>3 DEF HookHears
<1>5. hook[h].repairPending => hook[h].queue # {} \/ Taken(h) # {}
    BY DEF MarksOK, InTodo, Taken
<1> QED BY <1>4, <1>5 DEF HookHears

\* What a hook shows is current or it renders again.
LEMMA ScreenHeard ==
    ASSUME NEW h \in Hooks, HearOnly, SameStage, SameFields, SubsType, PassOK,
           MarksOK(h), KeptOK(h), ScreenOK(h)
    PROVE  ScreenOK(h)'
<1> DEFINE s == hook[h]
           t == hook'[h]
<1> SUFFICES ASSUME t.mounted
             PROVE  /\ ~(Ending' /\ InDone(h)') =>
                         Current(h, hook[h].committed)' \/ t.queue # {} \/ Taken(h)' # {}
                    /\ InDone(h)' =>
                         \/ Current(h, pass.done[h].shown)' \/ t.queue # {}
                         \/ Rendering' /\ h \in pass'.moved
    BY DEF ScreenOK
<1>1. /\ HookHears(h) /\ s.mounted /\ t.rendered = s.rendered /\ t.committed = s.committed
      /\ s.queue \subseteq t.queue /\ ChangesTold
    BY DEF HearOnly, HookHears
<1>2. /\ Taken(h)' = Taken(h) /\ (InDone(h)' <=> InDone(h)) /\ (Ending' <=> Ending)
      /\ (Rendering' <=> Rendering) /\ pass'.done = pass.done /\ pass.moved \subseteq pass'.moved
    BY DEF SameStage, SameFields
<1>3. s.rendered.live /\ s.committed.live
    BY <1>1 DEF MarksOK
<1>4. ASSUME ~(Ending /\ InDone(h)), t.queue = {}, Taken(h) = {}
      PROVE  Current(h, hook[h].committed)'
    <2>1. s.queue = {} /\ s.rendered = s.committed /\ Current(h, s.committed)
        BY <1>1, <1>4 DEF KeptOK, ScreenOK
    <2>2. stashOf(h) = s.committed
        BY <2>1 DEF stashOf
    <2>3. s.committed.value = Resolutions(Reads(h))'[s.committed.ids]
        BY <1>1, <1>3, <1>4, <2>1, <2>2, RepairQueued
    <2> QED BY <1>1, <2>3 DEF Current
<1>5. ASSUME InDone(h), t.queue = {}, ~(Rendering /\ h \in pass'.moved)
      PROVE  Current(h, pass.done[h].shown)'
    <2>1. /\ Current(h, pass.done[h].shown) /\ s.rendered = pass.done[h].shown
          /\ Home(h) = pass.root
        BY <1>1, <1>2, <1>5 DEF ScreenOK, PassOK
    <2>2. ASSUME Resolutions(Reads(h))' = Resolutions(Reads(h))
          PROVE  Current(h, pass.done[h].shown)'
        BY <1>2, <2>1, <2>2 DEF Current
    <2>3. CASE Rendering
        <3>1. ASSUME NEW d \in WakesFor(h, told') PROVE FALSE
            <4>1. d \in t.delivered
                BY <1>1, <3>1 DEF HookHears
            <4>2. d \in s.delivered
                BY <1>1, <1>5, <4>1 DEF HookHears
            <4>3. InTodo(h)
                BY <1>1, <1>5, <4>2 DEF MarksOK
            <4> QED BY <1>5, <2>3, <4>3 DEF PassOK, InTodo, InDone
        <3>2. Resolutions(Reads(h))' = Resolutions(Reads(h))
            BY <1>5, <2>3, <3>1 DEF HearOnly, MovedHeard
        <3> QED BY <2>2, <3>2
    <2>4. CASE pass.stage = "layout"
        <3>1. Resolutions(Reads(h))' = Resolutions(Reads(h))
            BY <2>4, RootsAssumption DEF HearOnly, ValuesKept
        <3> QED BY <2>2, <3>1
    <2>5. CASE pass.stage \in {"poke", "confirm"}
        <3>1. stashOf(h) = s.rendered /\ Taken(h) = {}
            BY <2>1, <2>5 DEF stashOf, Committing, Taken, Rendering
        <3>2. s.rendered.value = Resolutions(Reads(h))'[s.rendered.ids]
            BY <1>1, <1>3, <1>5, <2>1, <3>1, RepairQueued
        <3> QED BY <1>2, <2>1, <3>2 DEF Current
    <2>6. pass.stage \in {"render", "poke", "confirm", "layout"}
        BY <1>5 DEF InDone, SubsType, NoPass, Passes
    <2> QED BY <2>3, <2>4, <2>5, <2>6 DEF Rendering
<1> QED BY <1>2, <1>4, <1>5

\* Nothing is handed to a hook that its root does not have under way.
LEMMA LeaksHeard ==
    ASSUME NEW h \in Hooks, HearOnly, SameStage, SameFields, SubsType, HostsOK,
           LeaksOK(h)
    PROVE  LeaksOK(h)'
<1> DEFINE s == hook[h]
           t == hook'[h]
<1>1. /\ t.mounted = s.mounted /\ t.ids = s.ids /\ t.committed = s.committed
      /\ \A u \in t.queue : u \in s.queue \/ u.id = REPAIR_WAKE \/ u.id \in WakesFor(h, told')
      /\ t.queue \subseteq Wakes
    BY DEF HearOnly, HookHears, HookStates
<1>2. worlds' = worlds /\ sent[Home(h)] \subseteq sent'[Home(h)] /\ Home(h) \in Roots
    BY RootsAssumption DEF HearOnly
<1>3. \A r : \A S, V, W : S \subseteq DraftIds /\ Within(r, S, V) /\ V \subseteq W => Within(r, S, W)'
    BY PastStays DEF HearOnly
<1>4. /\ s.ids \subseteq DraftIds /\ s.committed.ids \subseteq DraftIds
      /\ \A u \in t.queue : u.id # REPAIR_WAKE => {u.id} \subseteq DraftIds
    BY <1>1 DEF SubsType, HookStates, Trees, Wakes
<1>5. Within(Home(h), hook[h].ids, worlds[Home(h)])'
    BY <1>1, <1>2, <1>3, <1>4 DEF LeaksOK
<1>6. ASSUME NEW u \in t.queue, u.id # REPAIR_WAKE
      PROVE  Within(Home(h), {u.id}, sent[Home(h)] \cup worlds[Home(h)])'
    <2>1. Within(Home(h), {u.id}, sent[Home(h)] \cup worlds[Home(h)])
        <3>1. CASE u \in s.queue
            BY <1>6, <3>1 DEF LeaksOK
        <3>2. CASE u.id \in WakesFor(h, told')
            <4>1. u.id \in OpenDrafts
                BY <3>2 DEF HearOnly, WakesHosted
            <4>2. CASE Home(h) \in audience[u.id]
                BY <4>1, <4>2 DEF HostsOK, Within
            <4>3. CASE Home(h) \notin audience[u.id]
                BY <4>1, <4>3 DEF OpenDrafts, Past, Within
            <4> QED BY <4>2, <4>3
        <3> QED BY <1>1, <1>6, <3>1, <3>2
    <2> QED BY <1>2, <1>3, <1>4, <1>6, <2>1
<1>7. t.mounted => Within(Home(h), hook[h].committed.ids, worlds[Home(h)])'
    BY <1>1, <1>2, <1>3, <1>4 DEF LeaksOK
<1>8. /\ (InDone(h)' <=> InDone(h)) /\ (Ending' <=> Ending) /\ (Rendering' <=> Rendering)
      /\ pass'.done = pass.done /\ pass'.taken = pass.taken /\ pass'.world = pass.world
      /\ pass'.root = pass.root
    BY DEF SameStage, SameFields
<1>9. Rendering' => \A u \in pass'.taken[h] : u.id # REPAIR_WAKE => Within(pass.root, {u.id}, pass.world)'
    <2> SUFFICES ASSUME Rendering, NEW u \in pass.taken[h], u.id # REPAIR_WAKE
                 PROVE  Within(pass.root, {u.id}, pass.world)'
        BY <1>8
    <2>1. u.id \in DraftIds
        BY DEF SubsType, Rendering, NoPass, Passes, Wakes
    <2> QED BY <1>3, <1>8, <2>1 DEF LeaksOK
<1>10. InDone(h) => pass.done[h].own \subseteq DraftIds /\ pass.done[h].shown.ids \subseteq DraftIds
    BY DEF InDone, SubsType, NoPass, Passes, Renders, Trees
<1>11. Rendering' /\ InDone(h)' =>
         Within(pass.root, pass.done[h].own, pass.world)' /\ Within(pass.root, pass.done[h].shown.ids, pass.world)'
    BY <1>3, <1>8, <1>10 DEF LeaksOK
<1>12. Ending' /\ InDone(h)' => Within(Home(h), pass.done[h].shown.ids, worlds[Home(h)])'
    BY <1>2, <1>3, <1>8, <1>10 DEF LeaksOK
<1> QED BY <1>5, <1>6, <1>7, <1>9, <1>11, <1>12 DEF LeaksOK

\* A hook is handed every draft of its atom.
LEMMA HandedHeard ==
    ASSUME NEW h \in Hooks, HearOnly, SameStage, SameFields, MarksOK(h), HandedOK(h)
    PROVE  HandedOK(h)'
<1> SUFFICES ASSUME hook'[h].mounted, h \notin guests',
                    NEW d \in OpenDrafts', Reads(h) \in WrittenBy(d)',
                    Home(h) \in audience'[d]
             PROVE  \/ d \in hook'[h].ids \/ Update(d, d) \in hook'[h].queue
                    \/ Update(d, d) \in Taken(h)'
    BY DEF HandedOK
<1>1. /\ HookHears(h) /\ hook[h].mounted /\ h \notin guests /\ hook'[h].ids = hook[h].ids
      /\ hook[h].queue \subseteq hook'[h].queue /\ Taken(h)' = Taken(h)
    BY DEF HearOnly, HookHears, SameStage
<1>2. CASE d \in OpenDrafts /\ Reads(h) \in WrittenBy(d)
    <2>1. Home(h) \in audience[d]
        BY <1>2 DEF HearOnly, DraftsMoveOn, OpenDrafts
    <2> QED BY <1>1, <1>2, <2>1 DEF HandedOK
<1>3. CASE d \in WakesFor(h, told')
    <2>1. d \in hook[h].delivered \/ Update(d, d) \in hook'[h].queue
        BY <1>1, <1>3 DEF HookHears
    <2>2. d \in hook[h].delivered => Update(d, d) \in hook[h].queue \cup Taken(h)
        BY DEF MarksOK, InTodo, Taken
    <2> QED BY <1>1, <2>1, <2>2
<1> QED
    <2>1. d \in DraftIds
        BY DEF OpenDrafts
    <2> QED BY <1>2, <1>3, <2>1 DEF HearOnly, WritesHanded

\* The pass renders what it took.
LEMMA PassHeard ==
    ASSUME HearOnly, SameStage, SameFields, SubsType, HostsOK, PassOK, WorldsOK,
           \A h \in Hooks : LeaksOK(h)
    PROVE  PassOK'
<1>1. \A h \in Hooks : /\ hook'[h].mounted = hook[h].mounted /\ hook'[h].ids = hook[h].ids
                       /\ hook'[h].rendered = hook[h].rendered
                       /\ hook'[h].committed = hook[h].committed
    BY DEF HearOnly, HookHears
<1>2. /\ \A h \in Hooks : (InDone(h)' <=> InDone(h)) /\ (InTodo(h)' <=> InTodo(h))
      /\ (Rendering' <=> Rendering)
      /\ pass'.done = pass.done /\ pass'.taken = pass.taken /\ pass'.todo = pass.todo
      /\ pass'.root = pass.root /\ pass'.carries = pass.carries
    BY DEF SameStage, SameFields
<1>3. ASSUME Rendering
      PROVE  /\ pass.todo \cap DOMAIN pass.done = {}
             /\ \A h \in Hooks : pass.taken[h] # {} => hook'[h].mounted /\ h \in pass.todo \cup DOMAIN pass.done
             /\ \A h \in pass.todo \cup DOMAIN pass.done : hook'[h].mounted => pass.taken[h] # {}
             /\ \A h \in pass.todo : Home(h) = pass.root
    <2>1. pass.todo \cup DOMAIN pass.done \subseteq Hooks
        BY <1>3 DEF Rendering, SubsType, NoPass, Passes
    <2> QED BY <1>1, <1>3, <2>1 DEF PassOK
<1>4. ASSUME Rendering, NEW h \in DOMAIN pass.done, NEW d \in OpenDrafts',
             d \in hook'[h].ids \/ Update(d, d) \in pass.taken[h]
      PROVE  d \in pass.done[h].own
    <2>1. h \in Hooks /\ pass \in Passes /\ InDone(h) /\ d \in DraftIds
        BY <1>4 DEF Rendering, SubsType, NoPass, Passes, InDone, OpenDrafts
    <2>2. Home(h) = pass.root /\ pass.root \in Roots
        BY <2>1 DEF PassOK, Passes
    <2>3. draftState[d] # "unopened"
        <3>1. CASE d \in hook'[h].ids
            <4>1. d \in worlds[Home(h)] \/ Past(Home(h), d)
                BY <1>1, <2>1, <3>1 DEF LeaksOK, Within
            <4> QED BY <2>2, <4>1 DEF HostsOK, Past, Ended
        <3>2. CASE Update(d, d) \in pass.taken[h]
            <4>1. Update(d, d).id = d /\ d # REPAIR_WAKE
                BY <2>1, BoundsAssumption DEF Update, REPAIR_WAKE, DraftIds
            <4>2. d \in pass.world \/ Past(pass.root, d)
                BY <1>4, <2>1, <3>2, <4>1 DEF LeaksOK, Within
            <4>3. pass.world \subseteq worlds[pass.root] \cup sent[pass.root]
                BY <1>4 DEF WorldsOK
            <4> QED BY <2>2, <4>2, <4>3 DEF HostsOK, Past, Ended
        <3> QED BY <1>4, <3>1, <3>2
    <2>4. d \in OpenDrafts
        BY <2>1, <2>3 DEF HearOnly, DraftsMoveOn
    <2> QED BY <1>1, <1>4, <2>1, <2>4 DEF PassOK
<1>5. \A h \in Hooks : InDone(h)' =>
         Home(h) = pass.root /\ hook'[h].rendered = pass.done[h].shown /\ hook'[h].rendered.live
    BY <1>1, <1>2 DEF PassOK
<1>6. pass'.stage \in {"poke", "confirm"} => pass.stage \in {"poke", "confirm"}
    <2>1. CASE pass' = pass
        BY <2>1
    <2>2. CASE pass' # pass
        BY <2>2 DEF HearOnly, SamePass
    <2> QED BY <2>1, <2>2
<1>7. pass'.stage \in {"render", "poke", "confirm"} => pass.stage \in {"render", "poke", "confirm"}
    BY <1>2, <1>6 DEF Rendering
<1>8. Mounted' = Mounted
    BY <1>1 DEF Mounted
<1>9. pass'.stage \in {"render", "poke", "confirm"} /\ pass.carries =>
         \A h \in Mounted : Home(h) = pass.root /\ ~InTodo(h)' /\ ~InDone(h)' =>
             hook'[h].rendered = hook'[h].committed
    BY <1>1, <1>2, <1>7 DEF PassOK, Mounted
<1>10. pass'.stage \in {"poke", "confirm"} => pass.carries
    BY <1>6 DEF PassOK
<1> QED BY <1>2, <1>3, <1>4, <1>5, <1>8, <1>9, <1>10 DEF PassOK

\* Worlds and notes stay.
LEMMA WorldsHeard ==
    ASSUME HearOnly, SameStage, SameFields, SubsType, WorldsOK
    PROVE  WorldsOK'
<1>1. /\ (Rendering' <=> Rendering) /\ pass'.root = pass.root /\ pass'.ids = pass.ids
      /\ pass'.world = pass.world /\ worlds' = worlds
    BY DEF SameStage, SameFields, HearOnly
<1>2. \A r : \A S, W : S \subseteq DraftIds /\ Within(r, S, W) => Within(r, S, W)'
    BY PastStays DEF HearOnly
<1>3. ASSUME Rendering
      PROVE  /\ Within(pass.root, worlds[pass.root] \cup pass.ids, pass.world)'
             /\ pass.world \subseteq worlds[pass.root] \cup pass.ids
             /\ pass.ids \subseteq sent'[pass.root]
    <2>1. pass.root \in Roots /\ worlds[pass.root] \cup pass.ids \subseteq DraftIds
        BY <1>3 DEF Rendering, SubsType, NoPass, Passes
    <2> QED BY <1>1, <1>2, <1>3, <2>1 DEF WorldsOK, HearOnly
<1>4. ASSUME note' # NoNote PROVE Within(note.root, note.ids, NoteWorld(note.root))'
    <2>1. note' = note /\ note \in RenderNotes
        BY <1>4 DEF HearOnly, SubsType
    <2>2. Within(note.root, note.ids, NoteWorld(note.root)) /\ note.ids \subseteq DraftIds
        BY <1>4, <2>1 DEF WorldsOK, RenderNotes
    <2>3. NoteWorld(note.root)' = NoteWorld(note.root)
        BY <1>1, <2>1 DEF NoteWorld
    <2> QED BY <1>2, <2>1, <2>2, <2>3
<1> QED BY <1>1, <1>3, <1>4 DEF WorldsOK

\* Together.
LEMMA HearStep ==
    ASSUME SubsInv, HearOnly
    PROVE  PassOK' /\ WorldsOK' /\ \A h \in Hooks : HookOK(h)'
<1>1. SameStage /\ SameFields
    BY StageSame DEF HearOnly
<1>2. PassOK'
    BY <1>1, PassHeard DEF SubsInv
<1>3. WorldsOK'
    BY <1>1, WorldsHeard DEF SubsInv
<1>4. ASSUME NEW h \in Hooks PROVE HookOK(h)'
    <2>1. HookHears(h)
        BY DEF HearOnly
    <2>2. MarksOK(h) /\ KeptOK(h) /\ ScreenOK(h) /\ LeaksOK(h) /\ HandedOK(h)
        BY DEF SubsInv
    <2>3. MarksOK(h)' /\ KeptOK(h)'
        BY <1>1, <2>1, <2>2, MarksHeard, KeptHeard
    <2>4. ScreenOK(h)' /\ LeaksOK(h)'
        BY <1>1, <2>2, ScreenHeard, LeaksHeard DEF SubsInv
    <2>5. HandedOK(h)'
        BY <1>1, <2>2, HandedHeard
    <2> QED BY <2>3, <2>4, <2>5 DEF HookOK
<1> QED BY <1>2, <1>3, <1>4
-----------------------------------------------------------------------------
(***************************************************************************)
(* The writes, retirements and notices                                     *)
(***************************************************************************)
\* Nobody sees anything else, so nobody needs to be told.
LEMMA KeptIsTold == ASSUME ValuesKept PROVE ChangesTold /\ MovedHeard
BY RootsAssumption DEF ValuesKept, ChangesTold, MovedHeard

\* No draft opens or ends, and none writes an atom.
LEMMA DraftsStay ==
    ASSUME draftState' = draftState, written' = written, audience' = audience
    PROVE  DraftsMoveOn /\ WritesHanded /\ OpenDrafts' = OpenDrafts
BY DEF DraftsMoveOn, WritesHanded, OpenDrafts, Ended, WrittenBy

\* A draft's hosts are where they were.
LEMMA HostsStay ==
    ASSUME HostsOK, draftState' = draftState,
           UNCHANGED <<recipients, audience, worlds, sent>>
    PROVE  HostsOK'
BY DEF HostsOK, OpenDrafts

\* Notices that are not wakes hand nothing over.
LEMMA NoWakes ==
    ASSUME \A n \in told' : n[1] # "wake"
    PROVE  WakesHosted /\ \A h \in Hooks : WakesFor(h, told') = {}
<1>1. \A h \in Hooks : WakesFor(h, told') = {}
    BY DEF WakesFor
<1> QED BY <1>1 DEF WakesHosted

\* In a quiet step the engine and all values stay as they are.
LEMMA QuietStep ==
    ASSUME StoreInv, Quiet, audience' = audience
    PROVE  /\ StoreInv' /\ ValuesKept /\ ChangesTold /\ MovedHeard
           /\ DraftsMoveOn /\ WritesHanded /\ OpenDrafts' = OpenDrafts
           /\ WakesHosted /\ \A d : Ended(d)' <=> Ended(d)
<1>1. told' = {} /\ UNCHANGED <<draftState, written, log, base, releasing, leaked>>
    BY DEF Quiet
<1>2. StoreInv' /\ ValuesKept
    BY <1>1, StoreQuiet
<1>3. WakesHosted
    BY <1>1, NoWakes
<1> QED BY <1>1, <1>2, <1>3, KeptIsTold, DraftsStay DEF Ended

\* What a step of this kind has to give.
Heard == HearOnly /\ StoreInv' /\ SubsType' /\ HostsOK'
AllInv == StoreInv /\ SubsInv

\* The first write of a transition sends its draft to every root.
LEMMA BroadcastHeard ==
    ASSUME UpdatersReturn, IdentityEquality, AllInv, NEW d \in DraftIds, broadcastDraft(d)
    PROVE  Heard
<1>1. /\ openDraft(d) /\ told' = {} /\ draftState[d] = "unopened"
      /\ draftState' = [draftState EXCEPT ![d] = "open"] /\ written' = written
      /\ recipients' = [recipients EXCEPT ![d] = rootConnections]
      /\ audience' = [audience EXCEPT ![d] = rootConnections]
      /\ sent' = [r \in Roots |-> IF r \in rootConnections THEN sent[r] \cup {d} ELSE sent[r]]
      /\ UNCHANGED <<rootConnections, worlds, hook, pass, note, guests>>
    BY DEF broadcastDraft, openDraft
<1>2. StoreInv /\ SubsType /\ HostsOK /\ draftState \in [DraftIds -> States] /\ FreshUnwritten
    BY DEF AllInv, SubsInv, StoreInv, HistoryInv, TypeOK
<1>3. StoreInv'
    <2>1. [Next]_vars
        BY <1>1 DEF Next
    <2> QED BY <1>2, <2>1, StoreStep
<1>4. ValuesKept
    BY <1>1, <1>2, <1>3, EngineQuiet
<1>5. WrittenBy(d) = {} /\ \A e : WrittenBy(e)' = WrittenBy(e)
    BY <1>1, <1>2 DEF FreshUnwritten, WrittenBy
<1>6. OpenDrafts' = OpenDrafts \cup {d} /\ d \notin OpenDrafts
    BY <1>1, <1>2 DEF OpenDrafts
<1>7. DraftsMoveOn
    BY <1>1, <1>2, <1>6 DEF DraftsMoveOn, Ended
<1>8. WritesHanded
    BY <1>5, <1>6 DEF WritesHanded
<1>9. SubsType'
    BY <1>1, <1>2 DEF SubsType
<1>10. HostsOK'
    <2>1. ASSUME NEW e \in OpenDrafts'
          PROVE  /\ recipients'[e] # {}
                 /\ \A r \in audience'[e] : e \in sent'[r] \cup worlds'[r]
        BY <1>1, <1>2, <1>6, RootsAssumption DEF SubsType, HostsOK, OpenDrafts
    <2>2. ASSUME NEW r \in Roots, NEW e \in sent'[r] \cup worlds'[r]
          PROVE  draftState'[e] # "unopened"
        BY <1>1, <1>2 DEF SubsType, HostsOK
    <2> QED BY <2>1, <2>2 DEF HostsOK
<1>11. /\ \A h \in Hooks : HookHears(h) /\ WakesFor(h, told') = {}
       /\ hook' \in [Hooks -> HookStates]
    BY <1>1, <1>2, SilentHears
<1>12. HearOnly
    BY <1>1, <1>4, <1>7, <1>8, <1>11, KeptIsTold DEF HearOnly, SamePass, WakesHosted
<1> QED BY <1>3, <1>9, <1>10, <1>12 DEF Heard

\* A write of a transition hands its draft to the hooks of its atom.
LEMMA DraftedHeard ==
    ASSUME UpdatersReturn, IdentityEquality, AllInv,
           NEW d \in DraftIds, NEW a \in Atoms, NEW op \in Ops, Drafted(d, a, op)
    PROVE  Heard
<1>1. /\ Interruptible /\ appendDraftIntent(d, a, op) /\ Notified(d)
      /\ UNCHANGED <<hosts, pass, note, guests>>
    BY DEF Drafted
<1>2. /\ draftState[d] = "open" /\ draftState' = draftState /\ told' = {Wake(a, d)}
      /\ written' = IF a \in WrittenBy(d) THEN written ELSE [written EXCEPT ![d] = Append(@, a)]
    BY <1>1 DEF appendDraftIntent, draftIntent
<1>3. /\ StoreInv /\ SubsType /\ HostsOK /\ TypeOK
      /\ draftState \in [DraftIds -> States] /\ written \in [DraftIds -> Seq(Atoms)]
    BY DEF AllInv, SubsInv, StoreInv, HistoryInv, TypeOK
<1>4. StoreInv'
    <2>1. [Next]_vars
        BY <1>1 DEF Next
    <2> QED BY <1>3, <2>1, StoreStep
<1>5. ChangesTold /\ DraftChangesHanded /\ base' = base
    BY <1>1, <1>3, <1>4, DraftWriteTold DEF appendDraftIntent, draftIntent
<1>6. OpenDrafts' = OpenDrafts /\ d \in OpenDrafts /\ DraftsMoveOn
    BY <1>1, <1>2 DEF OpenDrafts, DraftsMoveOn, Ended, hosts
<1>7. \A h \in Hooks : WakesFor(h, told') = IF Reads(h) = a THEN {d} ELSE {}
    <2> DEFINE w == Wake(a, d)
    <2>1. w[1] = "wake" /\ w[2] = a /\ w[3] = d
        BY DEF Wake
    <2> HIDE DEF w
    <2>2. told' = {w}
        BY <1>2 DEF w
    <2> TAKE h \in Hooks
    <2>3. {m \in told' : m[1] = "wake" /\ m[2] = Reads(h)} = IF Reads(h) = a THEN {w} ELSE {}
        BY <2>1, <2>2
    <2> QED BY <2>1, <2>3 DEF WakesFor
<1>8. WakesHosted
    BY <1>3, <1>6, <1>7 DEF WakesHosted, HostsOK
<1>9. \A h \in Hooks : WakesFor(h, told') \subseteq {d}
    BY <1>7
<1>10. (\A h \in Hooks : HookHears(h)) /\ hook' \in [Hooks -> HookStates]
    BY <1>1, <1>3, <1>8, <1>9, NotifiedHears
<1>11. WritesHanded
    <2>1. \A e \in DraftIds : WrittenBy(e)' \subseteq WrittenBy(e) \cup (IF e = d THEN {a} ELSE {})
        <3>1. CASE a \in WrittenBy(d)
            BY <1>2, <3>1 DEF WrittenBy
        <3>2. CASE a \notin WrittenBy(d)
            <4> TAKE e \in DraftIds
            <4>1. CASE e # d
                BY <1>2, <1>3, <3>2, <4>1 DEF WrittenBy
            <4>2. CASE e = d
                <5>1. written'[d] = Append(written[d], a) /\ written[d] \in Seq(Atoms)
                    BY <1>2, <1>3, <3>2
                <5>2. ASSUME NEW i \in DOMAIN written'[d] PROVE written'[d][i] \in WrittenBy(d) \cup {a}
                    BY <5>1, <5>2 DEF WrittenBy
                <5> QED BY <4>2, <5>2 DEF WrittenBy
            <4> QED BY <4>1, <4>2
        <3> QED BY <3>1, <3>2
    <2> QED BY <1>6, <1>7, <2>1 DEF WritesHanded
<1>12. MovedHeard
    <2> SUFFICES ASSUME NEW h \in Hooks, Resolutions(Reads(h))' # Resolutions(Reads(h))
                 PROVE  WakesFor(h, told') # {}
        BY DEF MovedHeard
    <2>1. PICK W \in SUBSET DraftIds : Resolutions(Reads(h))'[W] # Resolutions(Reads(h))[W]
        BY DEF Resolutions
    <2>2. PICK e \in DraftIds : Wake(Reads(h), e) \in told'
        BY <1>5, <2>1, RootsAssumption DEF DraftChangesHanded
    <2> QED BY <2>2 DEF WakesFor, Wake
<1>13. pass.stage # "layout"
    BY <1>1 DEF Interruptible
<1>14. HearOnly
    BY <1>1, <1>5, <1>6, <1>8, <1>10, <1>11, <1>12, <1>13 DEF HearOnly, SamePass, hosts
<1>15. SubsType' /\ HostsOK'
    BY <1>1, <1>2, <1>3, <1>10, HostsStay DEF SubsType, hosts
<1> QED BY <1>4, <1>14, <1>15 DEF Heard

\* An urgent write.
LEMMA WrittenHeard ==
    ASSUME UpdatersReturn, IdentityEquality, AllInv,
           NEW a \in Atoms, NEW op \in Ops, Written(a, op)
    PROVE  Heard
<1>1. /\ Interruptible /\ urgentWrite(a, op) /\ Notified(UrgentLane)
      /\ pass' = Outdated /\ UNCHANGED <<hosts, note, guests>>
    BY DEF Written, Running
<1>2. /\ draftState' = draftState /\ written' = written
      /\ told' \subseteq {Wave(a)} \cup {Wake(a, d) : d \in OpenInLog(a)}
    BY <1>1 DEF urgentWrite, urgentIntent, pokeRebasedAtom
<1>3. StoreInv /\ SubsType /\ HostsOK
    BY DEF AllInv, SubsInv
<1>4. StoreInv'
    <2>1. [Next]_vars
        BY <1>1 DEF Next
    <2> QED BY <1>3, <2>1, StoreStep
<1>5. ChangesTold /\ DraftChangesHanded
    BY <1>1, <1>3, <1>4, UrgentWriteTold
<1>6. WakesHosted
    <2>1. OpenInLog(a) \subseteq OpenDrafts
        BY DEF OpenInLog
    <2>2. \A h \in Hooks : WakesFor(h, told') \subseteq OpenInLog(a)
        BY <1>2 DEF WakesFor, Wave, Wake
    <2> QED BY <1>3, <2>1, <2>2 DEF WakesHosted, HostsOK
<1>7. (\A h \in Hooks : HookHears(h)) /\ hook' \in [Hooks -> HookStates]
    BY <1>1, <1>3, <1>6, NotifiedHears
<1>8. DraftsMoveOn /\ WritesHanded
    BY <1>1, <1>2, DraftsStay DEF hosts
<1>9. /\ pass = NoPass => pass' = pass
      /\ pass # NoPass => /\ pass \in Passes /\ pass' \in Passes
                          /\ pass' = [pass EXCEPT !.moved = @ \cup {h \in DOMAIN pass.done :
                                                       base'[Reads(h)] # base[Reads(h)]}]
    <2>1. pass = NoPass => pass' = pass
        BY <1>1 DEF Outdated
    <2> DEFINE M == {h \in DOMAIN pass.done : base'[Reads(h)] # base[Reads(h)]}
    <2>2. pass # NoPass => pass \in Passes /\ pass' = [pass EXCEPT !.moved = @ \cup M]
        BY <1>1, <1>3 DEF Outdated, SubsType
    <2>3. pass \in Passes => M \subseteq Hooks
        BY DEF Passes
    <2> HIDE DEF M
    <2>4. pass \in Passes => [pass EXCEPT !.moved = @ \cup M] \in Passes
        BY <2>3 DEF Passes
    <2> QED BY <2>1, <2>2, <2>4 DEF M
<1>10. SamePass /\ pass.stage # "layout"
    <2> DEFINE M == {h \in DOMAIN pass.done : base'[Reads(h)] # base[Reads(h)]}
    <2>1. pass # NoPass => pass \in Passes /\ pass' \in Passes /\ pass' = [pass EXCEPT !.moved = @ \cup M]
        BY <1>9
    <2> HIDE DEF M
    <2>2. SamePass
        BY <1>9, <2>1 DEF SamePass, Passes
    <2> QED BY <1>1, <2>2 DEF Interruptible
<1>11. MovedHeard
    <2> SUFFICES ASSUME NEW h \in Hooks, Rendering, InDone(h),
                        Resolutions(Reads(h))' # Resolutions(Reads(h)), h \notin pass'.moved
                 PROVE  WakesFor(h, told') # {}
        BY DEF MovedHeard
    <2>1. PICK W \in SUBSET DraftIds : Resolutions(Reads(h))'[W] # Resolutions(Reads(h))[W]
        BY DEF Resolutions
    <2>2. base'[Reads(h)] = base[Reads(h)]
        <3> DEFINE M == {g \in DOMAIN pass.done : base'[Reads(g)] # base[Reads(g)]}
        <3>1. pass \in Passes /\ pass'.moved = pass.moved \cup M
            BY <1>9 DEF Rendering, NoPass, Passes
        <3> QED BY <3>1 DEF InDone
    <2>3. PICK e \in DraftIds : Wake(Reads(h), e) \in told'
        BY <1>5, <2>1, <2>2, RootsAssumption DEF DraftChangesHanded
    <2> QED BY <2>3 DEF WakesFor, Wake
<1>12. HearOnly
    BY <1>1, <1>5, <1>6, <1>7, <1>8, <1>10, <1>11 DEF HearOnly, hosts
<1>13. SubsType' /\ HostsOK'
    BY <1>1, <1>2, <1>3, <1>7, <1>9, HostsStay DEF SubsType, hosts
<1> QED BY <1>4, <1>12, <1>13 DEF Heard

\* The release of an ended draft.
LEMMA ReleasedHeard ==
    ASSUME UpdatersReturn, IdentityEquality, AllInv, Released
    PROVE  Heard
<1>1. /\ releaseDraft /\ UNCHANGED <<hosts, hook, pass, note, guests>>
      /\ told' = {} /\ draftState' = draftState /\ written' = written
    BY DEF Released, releaseDraft
<1>2. StoreInv /\ SubsType /\ HostsOK
    BY DEF AllInv, SubsInv
<1>3. StoreInv'
    <2>1. [Next]_vars
        BY <1>1 DEF Next
    <2> QED BY <1>2, <2>1, StoreStep
<1>4. ValuesKept
    BY <1>1, <1>2, <1>3, EngineQuiet
<1>5. /\ \A h \in Hooks : HookHears(h)
      /\ hook' \in [Hooks -> HookStates]
    BY <1>1, <1>2, SilentHears
<1>6. WakesHosted
    BY <1>1, NoWakes
<1>7. HearOnly
    BY <1>1, <1>4, <1>5, <1>6, KeptIsTold, DraftsStay DEF HearOnly, SamePass, hosts
<1> QED BY <1>1, <1>2, <1>3, <1>5, <1>7, HostsStay DEF Heard, SubsType, hosts

\* A provider mounts, the work loop yields, or a root's confirmations are over.
LEMMA QuietHeard ==
    ASSUME UpdatersReturn, IdentityEquality, AllInv,
           yield \/ confirmed \/ \E r \in Roots : registerRootConnection(r)
    PROVE  Heard
<1>1. StoreInv /\ SubsType /\ HostsOK
    BY DEF AllInv, SubsInv
<1>2. /\ Quiet /\ UNCHANGED <<recipients, audience, worlds, sent, hook, guests>>
      /\ rootConnections \subseteq rootConnections' /\ rootConnections' \subseteq Roots
      /\ note' = note \/ note' = NoNote
      /\ \/ pass' = pass
         \/ pass.stage = "confirm" /\ pass' = [pass EXCEPT !.stage = "layout"]
    <2>1. CASE yield
        BY <1>1, <2>1 DEF yield, hosts, SubsType
    <2>2. CASE confirmed
        BY <1>1, <2>2 DEF confirmed, hosts, SubsType
    <2>3. ASSUME NEW r \in Roots, registerRootConnection(r)
          PROVE  /\ Quiet /\ UNCHANGED <<recipients, audience, worlds, sent, hook, pass, note, guests>>
                 /\ rootConnections' = rootConnections \cup {r}
        BY <2>3 DEF registerRootConnection
    <2> QED BY <1>1, <2>1, <2>2, <2>3 DEF SubsType
<1>3. pass' = pass \/ (pass' \in Passes /\ SamePass)
    BY <1>1, <1>2 DEF SubsType, NoPass, Passes, SamePass
<1>4. /\ StoreInv' /\ ValuesKept /\ ChangesTold /\ MovedHeard
      /\ DraftsMoveOn /\ WritesHanded /\ WakesHosted
    BY <1>1, <1>2, QuietStep
<1>5. /\ \A h \in Hooks : HookHears(h)
      /\ hook' \in [Hooks -> HookStates]
    BY <1>1, <1>2, SilentHears DEF Quiet
<1>6. HearOnly
    BY <1>2, <1>3, <1>4, <1>5 DEF HearOnly, SamePass
<1>7. SubsType'
    BY <1>1, <1>2, <1>3 DEF SubsType
<1>8. HostsOK'
    BY <1>1, <1>2, HostsStay DEF Quiet
<1> QED BY <1>4, <1>6, <1>7, <1>8 DEF Heard

\* A component is to be rendered again by its parent.
LEMMA RefreshHeard ==
    ASSUME UpdatersReturn, IdentityEquality, AllInv,
           NEW g \in Hooks, NEW lane \in RefreshLanes, refresh(g, lane)
    PROVE  Heard
<1> DEFINE u == Update(lane, REPAIR_WAKE)
<1>1. /\ hook[g].mounted /\ Quiet /\ UNCHANGED <<hosts, pass, note, guests>>
      /\ hook' = [hook EXCEPT ![g].queue = @ \cup {u}]
    BY DEF refresh, Mounted
<1>2. StoreInv /\ SubsType /\ HostsOK
    BY DEF AllInv, SubsInv
<1>3. u \in Wakes /\ u.id = REPAIR_WAKE
    BY RootsAssumption DEF Wakes, Update
<1> HIDE DEF u
<1>4. /\ StoreInv' /\ ValuesKept /\ ChangesTold /\ MovedHeard
      /\ DraftsMoveOn /\ WritesHanded /\ WakesHosted
    BY <1>1, <1>2, QuietStep DEF hosts
<1>5. ASSUME NEW h \in Hooks
      PROVE  HookHears(h)
    <2>1. hook[h] \in HookStates /\ told' = {}
        BY <1>1, <1>2 DEF SubsType, Quiet
    <2>2. WakesFor(h, told') = {} /\ Reads(h) \notin ToldOf(told')
        BY <2>1 DEF WakesFor, ToldOf
    <2>3. CASE h # g
        <3>1. hook'[h] = hook[h]
            BY <1>1, <1>2, <2>3 DEF SubsType
        <3> QED BY <2>1, <2>2, <3>1 DEF HookHears
    <2>4. CASE h = g
        <3> DEFINE t == hook'[g]
                   s == hook[g]
        <3>1. t = [s EXCEPT !.queue = @ \cup {u}] /\ s \in HookStates
            BY <1>1, <1>2 DEF SubsType
        <3> HIDE DEF t, s
        <3>2. /\ t \in HookStates /\ t.mounted = s.mounted /\ t.ids = s.ids
              /\ t.rendered = s.rendered /\ t.committed = s.committed
              /\ t.delivered = s.delivered /\ t.repairPending = s.repairPending
              /\ t.queue = s.queue \cup {u}
            BY <1>3, <3>1 DEF HookStates
        <3> QED BY <1>1, <1>3, <2>2, <2>4, <3>2 DEF HookHears, t, s
    <2> QED BY <2>3, <2>4
<1>6. hook' \in [Hooks -> HookStates]
    <2>1. \A h \in Hooks : hook'[h] \in HookStates
        BY <1>5 DEF HookHears
    <2>2. hook' = [h \in Hooks |-> hook'[h]]
        BY <1>1, <1>2 DEF SubsType
    <2> QED BY <2>1, <2>2
<1>7. HearOnly
    BY <1>1, <1>4, <1>5, <1>6 DEF HearOnly, SamePass, hosts
<1>8. SubsType' /\ HostsOK'
    BY <1>1, <1>2, <1>6, HostsStay DEF SubsType, hosts, Quiet
<1> QED BY <1>4, <1>7, <1>8 DEF Heard

\* A root that has committed drafts pokes their atoms.
LEMMA PokeHeard ==
    ASSUME UpdatersReturn, IdentityEquality, AllInv, pokeCommitted
    PROVE  Heard
<1>1. StoreInv /\ SubsType /\ HostsOK
    BY DEF AllInv, SubsInv
<1>2. /\ pass.stage = "poke" /\ told' = Pokes(pass.world)
      /\ UNCHANGED <<draftState, written, log, base, releasing, leaked>>
      /\ Notified(UrgentLane) /\ UNCHANGED <<hosts, note, guests>>
      /\ pass' = [pass EXCEPT !.stage = "confirm", !.confirm = pass.world]
    BY DEF pokeCommitted
<1>3. pass \in Passes
    BY <1>1, <1>2 DEF SubsType, NoPass
<1>4. pass' \in Passes /\ SamePass
    BY <1>2, <1>3 DEF SamePass, Passes
<1>5. told' \subseteq {Poke(a) : a \in Atoms}
    <2>1. \A d \in DraftIds : WrittenBy(d) \subseteq Atoms
        BY <1>1 DEF StoreInv, HistoryInv, TypeOK, WrittenBy
    <2> QED BY <1>2, <2>1 DEF Pokes, isLiveDraft, IsOpen
<1>6. told' \in SUBSET Notices /\ \A n \in told' : n[1] # "wake"
    BY <1>5 DEF Notices, Poke
<1>7. StoreInv' /\ ValuesKept
    BY <1>1, <1>2, <1>6, StoreQuiet
<1>8. WakesHosted /\ \A h \in Hooks : WakesFor(h, told') = {}
    BY <1>6, NoWakes
<1>9. (\A h \in Hooks : HookHears(h)) /\ hook' \in [Hooks -> HookStates]
    BY <1>1, <1>2, <1>8, NotifiedHears
<1>10. HearOnly
    BY <1>2, <1>4, <1>7, <1>8, <1>9, KeptIsTold, DraftsStay DEF HearOnly, hosts
<1>11. SubsType'
    BY <1>1, <1>2, <1>4, <1>9 DEF SubsType, hosts
<1>12. HostsOK'
    BY <1>1, <1>2, HostsStay DEF hosts
<1> QED BY <1>7, <1>10, <1>11, <1>12 DEF Heard

\* A root confirms a draft, the last one retires it.
LEMMA ConfirmHeard ==
    ASSUME UpdatersReturn, IdentityEquality, AllInv, confirm
    PROVE  Heard
<1>1. StoreInv /\ SubsType /\ HostsOK /\ draftState \in [DraftIds -> States]
    BY DEF AllInv, SubsInv, StoreInv, HistoryInv, TypeOK
<1> DEFINE d == Least(pass.confirm)
           waiting == recipients[d] \ {pass.root}
<1>2. /\ pass.stage = "confirm" /\ recipients' = [recipients EXCEPT ![d] = waiting]
      /\ pass' = [pass EXCEPT !.confirm = @ \ {d}]
      /\ IF recipients[d] # {} /\ waiting = {} /\ isLiveDraft(d)
         THEN retireDraft(d) /\ Notified(UrgentLane)
         ELSE Quiet /\ UNCHANGED hook
      /\ UNCHANGED <<rootConnections, audience, worlds, sent, note, guests>>
    BY DEF confirm
<1> HIDE DEF d
<1>3. pass \in Passes
    BY <1>1, <1>2 DEF SubsType, NoPass
<1>4. pass' \in Passes /\ SamePass
    BY <1>2, <1>3 DEF SamePass, Passes
<1>5. recipients' \in [DraftIds -> SUBSET Roots]
    BY <1>1, <1>2 DEF SubsType
<1>6. ASSUME hook' \in [Hooks -> HookStates] PROVE SubsType'
    BY <1>1, <1>2, <1>4, <1>5, <1>6 DEF SubsType
<1>7. CASE recipients[d] # {} /\ waiting = {} /\ isLiveDraft(d)
    <2>1. retireDraft(d) /\ Notified(UrgentLane) /\ d \in DraftIds
        BY <1>2, <1>7 DEF isLiveDraft, IsOpen
    <2>2. StoreInv'
        <3>1. [Next]_vars
            BY <2>1 DEF Next
        <3> QED BY <1>1, <3>1, StoreStep
    <2>3. ChangesTold
        BY <1>1, <2>1, <2>2, RetireTold
    <2>4. /\ draftState' = [draftState EXCEPT ![d] = "retired"] /\ written' = written
          /\ \A n \in told' : n[1] # "wake"
        <3> DEFINE folded(b) == replayLog(b, {d})
                   bad == {b \in WrittenBy(d) : folded(b) = Thrown}
                   done == DoneBefore(written[d], bad)
                   moved == {b \in done : ~Same(base[b], folded(b))}
        <3>1. /\ draftState' = [draftState EXCEPT ![d] = "retired"] /\ written' = written
              /\ told' = {Wave(b) : b \in moved} \cup {Poke(b) : b \in done}
            BY <2>1 DEF retireDraft
        <3> HIDE DEF moved, done
        <3>2. \A n \in told' : n[1] # "wake"
            <4>1. \A b : Wave(b)[1] # "wake" /\ Poke(b)[1] # "wake"
                BY DEF Wave, Poke
            <4> QED BY <3>1, <4>1
        <3> QED BY <3>1, <3>2
    <2>5. WakesHosted /\ \A h \in Hooks : WakesFor(h, told') = {}
        BY <2>4, NoWakes
    <2>6. (\A h \in Hooks : HookHears(h)) /\ hook' \in [Hooks -> HookStates]
        BY <1>1, <2>1, <2>5, NotifiedHears
    <2>7. /\ OpenDrafts' = OpenDrafts \ {d} /\ draftState'[d] = "retired"
          /\ \A e \in DraftIds \ {d} : draftState'[e] = draftState[e]
        <3>1. d \in DraftIds /\ draftState' = [draftState EXCEPT ![d] = "retired"]
            BY <2>1, <2>4
        <3>2. /\ draftState'[d] = "retired"
              /\ \A e \in DraftIds \ {d} : draftState'[e] = draftState[e]
            BY ONLY <1>1, <3>1
        <3> QED BY ONLY <3>1, <3>2 DEF OpenDrafts
    <2>8. DraftsMoveOn /\ WritesHanded
        <3>1. /\ audience' = audience /\ OpenDrafts' \subseteq OpenDrafts
              /\ \A e : WrittenBy(e)' = WrittenBy(e)
            BY <1>2, <2>4, <2>7 DEF WrittenBy
        <3>2. ASSUME NEW e \in DraftIds
              PROVE  (Ended(e) => Ended(e)') /\ (e \in OpenDrafts => e \in OpenDrafts' \/ Ended(e)')
            BY <2>7 DEF Ended
        <3> QED BY <3>1, <3>2 DEF DraftsMoveOn, WritesHanded
    <2>9. MovedHeard
        BY <1>2 DEF MovedHeard, Rendering
    <2>10. HearOnly
        BY <1>2, <1>4, <2>3, <2>5, <2>6, <2>8, <2>9 DEF HearOnly
    <2>11. HostsOK'
        BY <1>1, <1>2, <2>4, <2>7 DEF HostsOK, OpenDrafts, SubsType
    <2> QED BY <1>6, <2>2, <2>6, <2>10, <2>11 DEF Heard
<1>8. CASE ~(recipients[d] # {} /\ waiting = {} /\ isLiveDraft(d))
    <2>1. Quiet /\ hook' = hook
        BY <1>2, <1>8
    <2>2. /\ StoreInv' /\ ValuesKept /\ ChangesTold /\ MovedHeard
          /\ DraftsMoveOn /\ WritesHanded /\ WakesHosted /\ OpenDrafts' = OpenDrafts
        BY <1>1, <1>2, <2>1, QuietStep
    <2>3. /\ \A h \in Hooks : HookHears(h)
          /\ hook' \in [Hooks -> HookStates]
        BY <1>1, <2>1, SilentHears DEF Quiet
    <2>4. HearOnly
        BY <1>2, <1>4, <2>2, <2>3 DEF HearOnly
    <2>5. HostsOK'
        <3>1. \A e \in OpenDrafts : recipients'[e] # {}
            BY <1>1, <1>2, <1>8 DEF HostsOK, SubsType, isLiveDraft, IsOpen, OpenDrafts
        <3>2. draftState' = draftState
            BY <2>1 DEF Quiet
        <3> QED BY <1>1, <1>2, <2>2, <3>1, <3>2 DEF HostsOK
    <2> QED BY <1>6, <2>2, <2>3, <2>4, <2>5 DEF Heard
<1> QED BY <1>7, <1>8
-----------------------------------------------------------------------------
(***************************************************************************)
(* Passes begin, render, and are dropped                                   *)
(***************************************************************************)
\* The repair of a step says something new.
RepairIsNews ==
    \A h \in Mounted :
        LET shows == IF pass.stage \in {"poke", "confirm"} /\ h \in DOMAIN pass.done
                     THEN pass.done[h].shown ELSE hook[h].committed
        IN  hook'[h].repairPending /\ ~hook[h].repairPending =>
                shows.value # Resolutions(Reads(h))'[shows.ids]

\* A repair that a notice queues is news.
LEMMA HeardIsNews ==
    ASSUME SubsInv, HearOnly
    PROVE  RepairIsNews
<1> SUFFICES ASSUME NEW h \in Mounted, hook'[h].repairPending, ~hook[h].repairPending
             PROVE  LET shows == IF pass.stage \in {"poke", "confirm"} /\ h \in DOMAIN pass.done
                                 THEN pass.done[h].shown ELSE hook[h].committed
                    IN  shows.value # Resolutions(Reads(h))'[shows.ids]
    BY DEF RepairIsNews
<1> DEFINE shows == IF pass.stage \in {"poke", "confirm"} /\ h \in DOMAIN pass.done
                    THEN pass.done[h].shown ELSE hook[h].committed
<1>1. h \in Hooks /\ hook[h].mounted /\ PassOK
    BY DEF Mounted, SubsInv
<1>2. stashOf(h).value # Resolutions(Reads(h))'[stashOf(h).ids]
    BY <1>1 DEF HearOnly, HookHears
<1>3. stashOf(h) = shows
    <2>1. CASE ~Committing(Home(h))
        <3>1. pass.stage \in {"poke", "confirm"} /\ h \in DOMAIN pass.done => Home(h) = pass.root
            BY <1>1 DEF PassOK, InDone
        <3> QED BY <2>1, <3>1 DEF stashOf, Committing
    <2>2. CASE Committing(Home(h))
        <3>1. pass.stage \in {"poke", "confirm"} /\ pass.root = Home(h) /\ stashOf(h) = hook[h].rendered
            BY <2>2 DEF Committing, stashOf
        <3>2. CASE h \in DOMAIN pass.done
            BY <1>1, <3>1, <3>2 DEF PassOK, InDone
        <3>3. CASE h \notin DOMAIN pass.done
            BY <1>1, <3>1, <3>3 DEF PassOK, InDone, InTodo, Rendering, Mounted
        <3> QED BY <3>2, <3>3, <3>1
    <2> QED BY <2>1, <2>2
<1> QED BY <1>2, <1>3

\* No hook marks a repair as pending, so there is none to be news.
LEMMA NoRepairs ==
    ASSUME \A h \in Hooks : hook'[h].repairPending => hook[h].repairPending
    PROVE  RepairIsNews
BY DEF RepairIsNews, Mounted

\* Nothing a hook could see, hold or be handed changes.
Still ==
    /\ StoreInv'
    /\ \A h \in Hooks : Resolutions(Reads(h))' = Resolutions(Reads(h))
    /\ \A d : (Ended(d)' <=> Ended(d)) /\ WrittenBy(d)' = WrittenBy(d)
    /\ OpenDrafts' = OpenDrafts /\ draftState' = draftState /\ audience' = audience
\* A quiet step is one of these.
LEMMA QuietStill == ASSUME StoreInv, Quiet, audience' = audience PROVE Still
<1>1. StoreInv' /\ ValuesKept /\ OpenDrafts' = OpenDrafts /\ \A d : Ended(d)' <=> Ended(d)
    BY QuietStep
<1>2. \A d : WrittenBy(d)' = WrittenBy(d)
    BY DEF Quiet, WrittenBy
<1> QED BY <1>1, <1>2, RootsAssumption DEF Still, ValuesKept, Quiet

\* A draft that has been opened is open or has ended.
LEMMA OpenOrEnded ==
    ASSUME StoreInv, NEW d \in DraftIds, draftState[d] # "unopened"
    PROVE  d \in OpenDrafts \/ Ended(d)
BY DEF StoreInv, HistoryInv, TypeOK, States, OpenDrafts, Ended

\* worldsReducer keeps the drafts that are open.
LEMMA ReducerKeeps ==
    ASSUME NEW V, NEW W
    PROVE  worldsReducer(V, W) = (V \cup W) \cap OpenDrafts
BY DEF worldsReducer, isLiveDraft, IsOpen, OpenDrafts

\* The hooks once the pass that was rendering is dropped.
DroppedTo(h, s) ==
    /\ s \in HookStates /\ s.mounted = hook[h].mounted
    /\ s.queue = hook[h].queue \cup Taken(h)
    /\ s.mounted => /\ s.ids = hook[h].ids /\ s.delivered = hook[h].delivered
                    /\ s.repairPending = hook[h].repairPending
                    /\ s.rendered = hook[h].rendered /\ s.committed = hook[h].committed
    /\ ~s.mounted => s.queue = {} /\ s.delivered = {} /\ ~s.repairPending
    /\ s.ids \subseteq hook[h].ids

\* The hook of a component that is gone.
LEMMA AbsentOK ==
    /\ Absent \in HookStates /\ ~Absent.mounted /\ Absent.ids = {} /\ Absent.queue = {}
    /\ Absent.delivered = {} /\ ~Absent.repairPending
<1>1. NoTree \in Trees
    BY DEF NoTree, Trees
<1> QED BY <1>1 DEF Absent, HookStates

\* A dropped pass gives back what it took, and what it mounted is gone.
LEMMA DropGivesBack ==
    ASSUME SubsInv, pass = NoPass \/ Rendering, NEW h \in Hooks
    PROVE  DroppedTo(h, Dropped[h])
<1>1. /\ hook[h] \in HookStates /\ MarksOK(h) /\ PassOK
      /\ Rendering => pass \in Passes /\ pass # NoPass
    BY DEF SubsInv, SubsType, Rendering, NoPass
<1>2. CASE pass = NoPass
    <2>1. Dropped[h] = hook[h] /\ Taken(h) = {}
        BY <1>2 DEF Dropped, Taken, Rendering, NoPass
    <2> QED BY <1>1, <2>1 DEF DroppedTo, MarksOK
<1>3. CASE Rendering /\ hook[h].mounted
    <2> DEFINE s == hook[h]
    <2>1. Dropped[h] = [s EXCEPT !.queue = @ \cup pass.taken[h]] /\ Taken(h) = pass.taken[h]
        BY <1>1, <1>3 DEF Dropped, Taken
    <2>2. pass.taken[h] \subseteq Wakes
        BY <1>1, <1>3 DEF Passes
    <2> HIDE DEF s
    <2>3. s \in HookStates /\ s = hook[h]
        BY <1>1 DEF s
    <2>4. DEFINE t == Dropped[h]
    <2>5. /\ t.mounted = s.mounted /\ t.ids = s.ids /\ t.delivered = s.delivered
          /\ t.repairPending = s.repairPending /\ t.rendered = s.rendered
          /\ t.committed = s.committed /\ t.queue = s.queue \cup pass.taken[h]
          /\ t \in HookStates
        BY <2>1, <2>2, <2>3 DEF HookStates
    <2> QED BY <1>3, <2>1, <2>3, <2>5 DEF DroppedTo
<1>4. CASE Rendering /\ ~hook[h].mounted
    <2>1. Dropped[h] = Absent
        BY <1>1, <1>4 DEF Dropped
    <2>2. Taken(h) = {} /\ hook[h].queue = {}
        BY <1>1, <1>4 DEF Taken, PassOK, MarksOK
    <2>3. Absent.mounted = hook[h].mounted
        <3>1. hook[h].mounted \in BOOLEAN /\ Absent.mounted \in BOOLEAN
            BY <1>1, AbsentOK DEF HookStates
        <3> QED BY <1>4, <3>1, AbsentOK
    <2> QED BY <1>4, <2>1, <2>2, <2>3, AbsentOK DEF DroppedTo
<1> QED BY <1>2, <1>3, <1>4

\* What a hook may stand for when nothing of it is rendered: all that was under
\* way is in its queue or taken by the new pass, the rest is as it was.
LEMMA MovedQueue ==
    ASSUME AllInv, Still, NEW h \in Hooks,
           NEW s, DroppedTo(h, s), pass = NoPass \/ Rendering,
           hook'[h] \in HookStates,
           /\ hook'[h].mounted = s.mounted /\ hook'[h].ids = s.ids
           /\ hook'[h].delivered = s.delivered /\ hook'[h].repairPending = s.repairPending
           /\ hook'[h].rendered = s.rendered /\ hook'[h].committed = s.committed,
           hook'[h].queue \cup Taken(h)' = s.queue,
           Taken(h)' # {} => InTodo(h)', InTodo(h)' => Taken(h)' = pass'.taken[h],
           ~InDone(h)', h \in guests' \/ h \notin guests, UNCHANGED <<worlds, sent>>,
           \A u \in Taken(h)' : u.id # REPAIR_WAKE => Within(pass.root, {u.id}, pass.world)',
           pass'.stage = "none" \/ Rendering'
    PROVE  MarksOK(h)' /\ KeptOK(h)' /\ ScreenOK(h)' /\ LeaksOK(h)' /\ HandedOK(h)'
<1> DEFINE o == hook[h]
           t == hook'[h]
<1>1. /\ MarksOK(h) /\ KeptOK(h) /\ ScreenOK(h) /\ LeaksOK(h) /\ HandedOK(h)
      /\ SubsType /\ PassOK /\ WorldsOK
    BY DEF AllInv, SubsInv
<1>2. ~Ending /\ ~Ending'
    BY DEF Rendering, Ending, NoPass
<1>3. /\ t.mounted = o.mounted /\ t.queue \cup Taken(h)' = o.queue \cup Taken(h)
      /\ t.mounted => /\ t.ids = o.ids /\ t.delivered = o.delivered
                      /\ t.repairPending = o.repairPending
                      /\ t.rendered = o.rendered /\ t.committed = o.committed
      /\ ~t.mounted => t.queue = {} /\ t.delivered = {} /\ ~t.repairPending
      /\ t.ids \subseteq o.ids
    BY DEF DroppedTo
<1>4. MarksOK(h)'
    <2>1. InTodo(h) => Taken(h) = pass.taken[h]
        BY DEF InTodo, Taken
    <2> QED BY <1>1, <1>3, <2>1 DEF MarksOK
<1>5. KeptOK(h)'
    BY <1>1, <1>2, <1>3 DEF KeptOK
<1>6. ScreenOK(h)'
    BY <1>1, <1>2, <1>3 DEF ScreenOK, Current, Still
<1>7. HandedOK(h)'
    BY <1>1, <1>3 DEF HandedOK, Still
<1>8. LeaksOK(h)'
    <2>1. worlds' = worlds /\ sent' = sent
        OBVIOUS
    <2>2. Within(Home(h), hook[h].ids, worlds[Home(h)])'
        BY <1>1, <1>3, <2>1 DEF LeaksOK, Within, Past, Still
    <2>3. t.mounted => Within(Home(h), hook[h].committed.ids, worlds[Home(h)])'
        BY <1>1, <1>3, <2>1 DEF LeaksOK, Within, Past, Still
    <2>4. ASSUME NEW u \in t.queue, u.id # REPAIR_WAKE
          PROVE  Within(Home(h), {u.id}, sent[Home(h)] \cup worlds[Home(h)])'
        <3>1. CASE u \in o.queue
            BY <1>1, <2>1, <2>4, <3>1 DEF LeaksOK, Within, Past, Still
        <3>2. CASE u \in Taken(h)
            <4>1. Rendering /\ u \in pass.taken[h]
                BY <3>2 DEF Taken
            <4>2. pass.root = Home(h)
                <5>1. h \in pass.todo \cup DOMAIN pass.done /\ pass.stage # "none"
                    BY <1>1, <4>1 DEF PassOK, Rendering
                <5> QED BY <1>1, <4>1, <5>1 DEF PassOK, InDone
            <4>3. u.id \in pass.world \/ Past(Home(h), u.id)
                BY <1>1, <2>4, <4>1, <4>2 DEF LeaksOK, Within
            <4>4. pass.world \subseteq worlds[Home(h)] \cup sent[Home(h)]
                BY <1>1, <4>1, <4>2 DEF WorldsOK
            <4> QED BY <2>1, <4>3, <4>4 DEF Within, Past, Still
        <3> QED BY <1>3, <3>1, <3>2
    <2>5. Rendering' => \A u \in pass'.taken[h] : u.id # REPAIR_WAKE => Within(pass.root, {u.id}, pass.world)'
        BY DEF Taken
    <2> QED BY <1>2, <2>2, <2>3, <2>4, <2>5 DEF LeaksOK
<1> QED BY <1>4, <1>5, <1>6, <1>7, <1>8
\* What every step keeps.
Stepped == StoreInv' /\ SubsInv' /\ RepairIsNews

\* A step in which hooks at most hear.
LEMMA HeardSteps ==
    ASSUME AllInv, Heard
    PROVE  Stepped
<1>1. PassOK' /\ WorldsOK' /\ \A h \in Hooks : HookOK(h)'
    BY HearStep DEF AllInv, Heard
<1>2. RepairIsNews
    BY HeardIsNews DEF AllInv, Heard
<1> QED BY <1>1, <1>2 DEF Stepped, Heard, SubsInv, HookOK

\* A component leaves, and the pass that was rendering is dropped.
LEMMA UnmountSteps ==
    ASSUME AllInv, NEW g \in Hooks, unmount(g)
    PROVE  Stepped
<1>1. /\ Interruptible /\ note = NoNote /\ Quiet
      /\ hook' = [Dropped EXCEPT ![g] = Absent]
      /\ guests' = guests \ {g} /\ pass' = NoPass
      /\ UNCHANGED <<rootConnections, recipients, audience, worlds, sent, note>>
    BY DEF unmount, Running, Unwound, hosts
<1>2. StoreInv /\ SubsInv /\ SubsType /\ HostsOK
    BY DEF AllInv, SubsInv
<1>3. pass = NoPass \/ Rendering
    BY <1>1, <1>2 DEF Interruptible, Rendering, SubsType, Passes
<1>4. Still
    BY <1>1, <1>2, QuietStill DEF hosts
<1>5. \A h \in Hooks : hook'[h] = IF h = g THEN Absent ELSE Dropped[h]
    <2>1. Dropped = [h \in Hooks |-> Dropped[h]]
        BY <1>2 DEF Dropped, SubsType
    <2> QED BY <1>1, <2>1
<1>6. hook' \in [Hooks -> HookStates]
    <2>1. DOMAIN hook' = Hooks /\ hook' = [h \in Hooks |-> hook'[h]]
        BY <1>1, <1>2 DEF Dropped, SubsType
    <2>2. ASSUME NEW h \in Hooks PROVE hook'[h] \in HookStates
        <3>1. DroppedTo(h, Dropped[h])
            BY <1>2, <1>3, DropGivesBack
        <3> QED BY <1>5, <3>1, AbsentOK DEF DroppedTo
    <2> QED BY <2>1, <2>2
<1>7. /\ ~Rendering' /\ ~Ending' /\ pass'.stage = "none" /\ note' = NoNote
      /\ \A h \in Hooks : ~InDone(h)' /\ ~InTodo(h)' /\ Taken(h)' = {}
    BY <1>1 DEF Rendering, Ending, NoPass, InDone, InTodo, Taken
<1>8. SubsType' /\ HostsOK'
    BY <1>1, <1>2, <1>4, <1>6, HostsStay DEF SubsType, Still
<1>9. PassOK' /\ WorldsOK'
    BY <1>7 DEF PassOK, WorldsOK
<1>10. ASSUME NEW h \in Hooks
       PROVE  /\ MarksOK(h)' /\ KeptOK(h)' /\ ScreenOK(h)' /\ LeaksOK(h)' /\ HandedOK(h)'
              /\ hook'[h].repairPending => hook[h].repairPending
    <2>1. CASE h = g
        <3>1. /\ ~hook'[h].mounted /\ hook'[h].ids = {} /\ hook'[h].queue = {}
              /\ hook'[h].delivered = {} /\ ~hook'[h].repairPending
            BY <1>5, <2>1, AbsentOK
        <3> QED BY <1>7, <3>1 DEF MarksOK, KeptOK, ScreenOK, LeaksOK, HandedOK, Within
    <2>2. CASE h # g
        <3> DEFINE s == Dropped[h]
        <3>1. DroppedTo(h, s) /\ hook'[h] = s
            BY <1>2, <1>3, <1>5, <2>2, DropGivesBack
        <3> HIDE DEF s
        <3>2. /\ hook'[h] \in HookStates
              /\ hook'[h].mounted = s.mounted /\ hook'[h].ids = s.ids
              /\ hook'[h].delivered = s.delivered /\ hook'[h].repairPending = s.repairPending
              /\ hook'[h].rendered = s.rendered /\ hook'[h].committed = s.committed
              /\ hook'[h].queue \cup Taken(h)' = s.queue
            BY <1>6, <1>7, <3>1
        <3>3. h \in guests' \/ h \notin guests
            BY <1>1, <2>2
        <3>4. MarksOK(h)' /\ KeptOK(h)' /\ ScreenOK(h)' /\ LeaksOK(h)' /\ HandedOK(h)'
            BY <1>1, <1>3, <1>4, <1>7, <3>1, <3>2, <3>3, MovedQueue
        <3>5. hook'[h].repairPending => hook[h].repairPending
            BY <3>1 DEF DroppedTo
        <3> QED BY <3>4, <3>5
    <2> QED BY <2>1, <2>2
<1> QED BY <1>4, <1>8, <1>9, <1>10, NoRepairs DEF Stepped, SubsInv, Still

\* What the beginning of a pass starts from: an urgent pass takes no draft, and
\* a transition's pass finds all else done.
Ready(lanes) ==
    /\ lanes \in {{UrgentLane}, DraftIds}
    /\ pass = NoPass \/ (Rendering /\ note = NoNote)
    /\ lanes = DraftIds => pass = NoPass /\ UrgentWork = {} /\ note = NoNote

\* An urgent pass starts from there, ...
LEMMA UrgentReady ==
    ASSUME SubsType, NEW r \in Roots, NEW M, urgentPass(r, M)
    PROVE  Ready({UrgentLane}) /\ M \subseteq Mountable(r) /\ Begin(r, {UrgentLane}, M, TRUE)
<1>1. /\ Running \/ pass = NoPass
      /\ M \subseteq Mountable(r) /\ Begin(r, {UrgentLane}, M, TRUE)
    BY DEF urgentPass
<1>2. pass = NoPass \/ (Rendering /\ note = NoNote)
    BY <1>1 DEF Running, Interruptible, Unwound, Rendering, SubsType, Passes
<1>3. {UrgentLane} # DraftIds
    BY BoundsAssumption DEF UrgentLane, DraftIds
<1> QED BY <1>1, <1>2, <1>3 DEF Ready

\* ... and so does a transition's.
LEMMA TransitionReady ==
    ASSUME NEW r \in Roots, NEW M, transitionPass(r, M)
    PROVE  Ready(DraftIds) /\ M \subseteq Mountable(r) /\ Begin(r, DraftIds, M, FALSE)
BY DEF transitionPass, Running, Unwound, Ready

\* A pass begins.
LEMMA BeginSteps ==
    ASSUME AllInv, NEW r \in Roots, NEW lanes, NEW M \in SUBSET Hooks,
           NEW sync \in BOOLEAN, Ready(lanes), M \subseteq Mountable(r),
           Begin(r, lanes, M, sync)
    PROVE  Stepped
<1> DEFINE ids == sent[r] \cap lanes
           carries == ids # {}
           world == IF carries THEN worldsReducer(worlds[r], ids) ELSE worlds[r]
           takes(h) == IF Home(h) = r THEN LiveIn(Dropped[h].queue, lanes) ELSE {}
           rendered == M \cup {h \in Mounted : takes(h) # {}}
           taken == [h \in Hooks |-> takes(h)]
<1>1. /\ pass' = [stage |-> "render", root |-> r, sync |-> sync, ids |-> ids,
                  carries |-> carries, world |-> world, todo |-> rendered,
                  taken |-> taken, done |-> [h \in {} |-> NoTree],
                  moved |-> {}, confirm |-> {}]
      /\ hook' = [h \in Hooks |-> [Dropped[h] EXCEPT !.queue = @ \ takes(h)]]
      /\ note' = IF ~carries THEN note ELSE IF world = {} THEN NoNote ELSE [root |-> r, ids |-> world]
      /\ Quiet /\ UNCHANGED <<hosts, guests>>
    BY DEF Begin
<1>2. StoreInv /\ SubsInv /\ SubsType /\ HostsOK /\ WorldsOK
    BY DEF AllInv, SubsInv
<1>3. /\ lanes \in {{UrgentLane}, DraftIds}
      /\ pass = NoPass \/ Rendering
      /\ pass = NoPass \/ note = NoNote
      /\ lanes = DraftIds => pass = NoPass /\ UrgentWork = {} /\ note = NoNote
    BY DEF Ready
<1>4. Still
    BY <1>1, <1>2, QuietStill DEF hosts
<1>5. /\ ids \subseteq DraftIds /\ ids \subseteq sent[r]
      /\ worlds[r] \subseteq DraftIds /\ sent[r] \subseteq DraftIds
      /\ carries => lanes = DraftIds
    <2>1. UrgentLane \notin DraftIds
        BY BoundsAssumption DEF UrgentLane, DraftIds
    <2>2. worlds[r] \subseteq DraftIds /\ sent[r] \subseteq DraftIds
        BY <1>2 DEF SubsType
    <2>3. carries => lanes = DraftIds
        <3>1. lanes = {UrgentLane} => ids = {}
            BY <2>1, <2>2
        <3>2. lanes = {UrgentLane} \/ lanes = DraftIds
            BY DEF Ready
        <3> HIDE DEF ids
        <3> QED BY <3>1, <3>2
    <2> QED BY <2>2, <2>3
<1>6. /\ Within(r, worlds[r] \cup ids, world) /\ world \subseteq worlds[r] \cup ids
      /\ world \subseteq DraftIds
    <2>1. \A d \in worlds[r] \cup ids : d \in OpenDrafts \/ Ended(d)
        BY <1>2, <1>5, OpenOrEnded DEF HostsOK
    <2> QED BY <1>5, <2>1, ReducerKeeps DEF Within, Past
<1>7. \A h \in Hooks : DroppedTo(h, Dropped[h])
    BY <1>2, <1>3, DropGivesBack
<1>8. \A h \in Hooks : takes(h) \subseteq Dropped[h].queue /\ takes(h) \subseteq Wakes
    BY <1>7 DEF LiveIn, DroppedTo, HookStates
<1>9. \A h \in Hooks : takes(h) # {} => h \in Mounted /\ Home(h) = r
    <2> SUFFICES ASSUME NEW h \in Hooks, takes(h) # {} PROVE h \in Mounted /\ Home(h) = r
        OBVIOUS
    <2>1. DroppedTo(h, Dropped[h]) /\ Dropped[h].queue # {} /\ Home(h) = r
        BY <1>7, <1>8
    <2> QED BY <2>1 DEF DroppedTo, Mounted
<1>10. /\ rendered \subseteq Hooks /\ \A h \in rendered : Home(h) = r
       /\ \A h \in Hooks : takes(h) # {} => h \in rendered
       /\ \A h \in rendered : hook[h].mounted => takes(h) # {}
    BY <1>9 DEF Mounted, Mountable
<1> HIDE DEF ids, world, takes, rendered
<1>11. taken \in [Hooks -> SUBSET Wakes]
    BY <1>8
<1>12. /\ pass'.stage = "render" /\ pass'.root = r /\ pass'.ids = ids /\ pass'.carries = carries
       /\ pass'.world = world /\ pass'.todo = rendered /\ pass'.taken = taken
       /\ DOMAIN pass'.done = {} /\ pass'.moved = {}
       /\ pass' \in Passes
    <2> HIDE DEF taken, carries
    <2>1. carries \in BOOLEAN
        BY DEF carries
    <2>2. [h \in {} |-> NoTree] \in UNION {[S -> Renders] : S \in SUBSET Hooks}
        BY DEF NoTree
    <2> QED BY <1>1, <1>5, <1>6, <1>10, <1>11, <2>1, <2>2 DEF Passes
<1>13. /\ Rendering' /\ ~Ending'
       /\ \A h \in Hooks : /\ ~InDone(h)' /\ Taken(h)' = takes(h)
                           /\ InTodo(h)' <=> h \in rendered
    BY <1>12 DEF Rendering, Ending, InDone, InTodo, Taken
<1>14. ASSUME NEW h \in Hooks
       PROVE  LET t == hook'[h]
                  s == Dropped[h]
              IN  /\ t \in HookStates
                  /\ t.mounted = s.mounted /\ t.ids = s.ids /\ t.delivered = s.delivered
                  /\ t.repairPending = s.repairPending /\ t.rendered = s.rendered
                  /\ t.committed = s.committed /\ t.queue = s.queue \ takes(h)
    <2> DEFINE s == Dropped[h]
    <2>1. s \in HookStates /\ hook'[h] = [s EXCEPT !.queue = @ \ takes(h)]
        BY <1>1, <1>7 DEF DroppedTo
    <2> HIDE DEF s
    <2>2. [s EXCEPT !.queue = @ \ takes(h)] \in HookStates
        BY <2>1 DEF HookStates
    <2>3. LET t == hook'[h]
          IN  /\ t \in HookStates
              /\ t.mounted = s.mounted /\ t.ids = s.ids /\ t.delivered = s.delivered
              /\ t.repairPending = s.repairPending /\ t.rendered = s.rendered
              /\ t.committed = s.committed /\ t.queue = s.queue \ takes(h)
        BY <2>1, <2>2 DEF HookStates
    <2> QED BY <2>3 DEF s
<1>15. hook' \in [Hooks -> HookStates]
    BY <1>1, <1>14
<1>16. note' = NoNote \/ note' \in RenderNotes
    BY <1>1, <1>2, <1>6 DEF SubsType, RenderNotes
<1>17. SubsType' /\ HostsOK'
    BY <1>1, <1>2, <1>4, <1>12, <1>15, <1>16, HostsStay DEF SubsType, Still, hosts
<1>18. \A h \in Hooks : hook'[h].mounted = hook[h].mounted
    BY <1>7, <1>14 DEF DroppedTo
<1>19. ASSUME carries, NEW h \in Mounted', Home(h) = r, h \notin rendered
       PROVE  hook'[h].rendered = hook'[h].committed
    <2>1. h \in Mounted /\ h \in Hooks /\ hook[h].mounted
        BY <1>18, <1>19 DEF Mounted
    <2>2. pass = NoPass /\ UrgentWork = {} /\ lanes = DraftIds
        BY <1>3, <1>5, <1>19
    <2>3. LiveIn(hook[h].queue, {UrgentLane}) = {}
        BY <2>1, <2>2 DEF UrgentWork
    <2>4. Dropped[h] = hook[h]
        BY <2>2 DEF Dropped
    <2>5. LiveIn(hook[h].queue, DraftIds) = {}
        BY <1>10, <1>19, <2>1, <2>2, <2>4 DEF takes
    <2>6. hook[h].queue \subseteq Wakes
        BY <1>2, <2>1 DEF SubsType, HookStates
    <2>7. hook[h].queue = {}
        BY <2>3, <2>5, <2>6 DEF LiveIn, Wakes
    <2>8. hook[h].rendered = hook[h].committed
        BY <1>2, <2>1, <2>2, <2>7 DEF SubsInv, KeptOK, Taken, Rendering, Ending, NoPass
    <2> QED BY <1>14, <2>1, <2>4, <2>8
<1>20. PassOK'
    <2>1. /\ pass'.todo \cap DOMAIN pass'.done = {}
          /\ \A h \in Hooks : pass'.taken[h] # {} => hook'[h].mounted /\ h \in pass'.todo \cup DOMAIN pass'.done
          /\ \A h \in pass'.todo \cup DOMAIN pass'.done : hook'[h].mounted => pass'.taken[h] # {}
          /\ \A h \in pass'.todo : Home(h) = pass'.root
        BY <1>9, <1>10, <1>12, <1>18 DEF Mounted
    <2>2. \A h \in Mounted' : Home(h) = pass'.root /\ ~InTodo(h)' /\ ~InDone(h)' /\ pass'.carries =>
             hook'[h].rendered = hook'[h].committed
        BY <1>12, <1>13, <1>19 DEF Mounted
    <2>3. \A h \in DOMAIN pass'.done : FALSE
        BY <1>12
    <2> QED BY <1>12, <1>13, <2>1, <2>2, <2>3 DEF PassOK
<1>21. WorldsOK'
    <2>1. \A r2 \in Roots : NoteWorld(r2)' = IF r2 = r THEN world ELSE worlds[r2]
        BY <1>1, <1>12, <1>13 DEF NoteWorld, hosts
    <2>2. ASSUME note' # NoNote PROVE Within(note.root, note.ids, NoteWorld(note.root))'
        <3>1. CASE carries
            <4>1. note' = [root |-> r, ids |-> world]
                BY <1>1, <2>2, <3>1
            <4> QED BY <2>1, <4>1 DEF Within
        <3>2. CASE ~carries
            <4>1. note' = note /\ pass = NoPass /\ note \in RenderNotes
                BY <1>1, <1>2, <1>3, <2>2, <3>2 DEF SubsType
            <4>2. Within(note.root, note.ids, worlds[note.root]) /\ note.root \in Roots
                BY <1>2, <2>2, <4>1 DEF WorldsOK, NoteWorld, Rendering, NoPass, RenderNotes
            <4>3. world = worlds[r]
                BY <3>2 DEF world
            <4> QED BY <1>4, <2>1, <4>1, <4>2, <4>3 DEF Within, Past, Still
        <3> QED BY <3>1, <3>2
    <2>3. Within(pass.root, worlds[pass.root] \cup pass.ids, pass.world)'
        BY <1>1, <1>4, <1>6, <1>12 DEF Within, Past, Still, hosts
    <2> QED BY <1>1, <1>5, <1>6, <1>12, <2>2, <2>3 DEF WorldsOK, hosts
<1>22. ASSUME NEW h \in Hooks, NEW u \in Taken(h)', u.id # REPAIR_WAKE
       PROVE  Within(pass.root, {u.id}, pass.world)'
    <2>1. u \in takes(h) /\ u \in Wakes /\ Home(h) = r /\ u.lane \in lanes
        BY <1>8, <1>9, <1>13, <1>22 DEF LiveIn, takes
    <2>2. u.lane = u.id /\ u.id \in DraftIds
        BY <1>22, <2>1 DEF Wakes
    <2>3. u.id \in sent[r] \cup worlds[r] \/ Past(r, u.id)
        <3>1. u \in hook[h].queue \/ u \in Taken(h)
            BY <1>7, <1>8, <2>1 DEF DroppedTo
        <3>2. CASE u \in hook[h].queue
            BY <1>2, <1>22, <2>1, <3>2 DEF SubsInv, LeaksOK, Within
        <3>3. CASE u \in Taken(h)
            <4>1. Rendering /\ u \in pass.taken[h]
                BY <3>3 DEF Taken
            <4>2. pass.root = r
                <5>1. h \in pass.todo \cup DOMAIN pass.done /\ pass.stage # "none"
                    BY <1>2, <4>1 DEF SubsInv, PassOK, Rendering
                <5> QED BY <1>2, <2>1, <4>1, <5>1 DEF SubsInv, PassOK, InDone
            <4> QED BY <1>2, <1>22, <4>1, <4>2 DEF SubsInv, LeaksOK, WorldsOK, Within
        <3> QED BY <3>1, <3>2, <3>3
    <2>4. u.id \in ids \cup worlds[r] \/ Past(r, u.id)
        BY <2>1, <2>2, <2>3 DEF ids
    <2>5. u.id \in world \/ Past(r, u.id)
        BY <1>6, <2>4 DEF Within
    <2> QED BY <1>4, <1>12, <2>5 DEF Within, Past, Still
<1>23. ASSUME NEW h \in Hooks
       PROVE  /\ MarksOK(h)' /\ KeptOK(h)' /\ ScreenOK(h)' /\ LeaksOK(h)' /\ HandedOK(h)'
              /\ hook'[h].repairPending => hook[h].repairPending
    <2> DEFINE s == Dropped[h]
    <2>1. /\ DroppedTo(h, s) /\ hook'[h] \in HookStates
          /\ hook'[h].mounted = s.mounted /\ hook'[h].ids = s.ids
          /\ hook'[h].delivered = s.delivered /\ hook'[h].repairPending = s.repairPending
          /\ hook'[h].rendered = s.rendered /\ hook'[h].committed = s.committed
          /\ hook'[h].queue = s.queue \ takes(h) /\ takes(h) \subseteq s.queue
        BY <1>7, <1>8, <1>14
    <2> HIDE DEF s
    <2>2. hook'[h].queue \cup Taken(h)' = s.queue
        BY <1>13, <2>1
    <2>3. Taken(h)' # {} => InTodo(h)'
        BY <1>10, <1>13
    <2>4. Taken(h)' = pass'.taken[h]
        BY <1>12, <1>13
    <2>5. UNCHANGED <<worlds, sent>> /\ guests' = guests
        BY <1>1 DEF hosts
    <2>6. \A u \in Taken(h)' : u.id # REPAIR_WAKE => Within(pass.root, {u.id}, pass.world)'
        BY <1>22
    <2>7. MarksOK(h)' /\ KeptOK(h)' /\ ScreenOK(h)' /\ LeaksOK(h)' /\ HandedOK(h)'
        BY <1>3, <1>4, <1>13, <2>1, <2>2, <2>3, <2>4, <2>5, <2>6, MovedQueue
    <2>8. hook'[h].repairPending => hook[h].repairPending
        BY <2>1 DEF DroppedTo
    <2> QED BY <2>7, <2>8
<1> QED BY <1>4, <1>17, <1>20, <1>21, <1>23, NoRepairs DEF Stepped, SubsInv, Still
-----------------------------------------------------------------------------
(***************************************************************************)
(* Rendering and committing                                                *)
(***************************************************************************)
\* One component renders.
LEMMA RenderSteps ==
    ASSUME AllInv, NEW g \in Hooks, renderHook(g)
    PROVE  Stepped
<1> DEFINE own == worldsReducer(hook[g].ids, IdsOf(pass.taken[g]))
           noted == noteHookRender(pass.root, own)
           ids == IF noted # NoNote THEN noted.ids ELSE own
           shown == [ids |-> ids, value |-> Resolve(Reads(g), ids), live |-> TRUE]
           result == [own |-> own, shown |-> shown]
           done == [h \in DOMAIN pass.done \cup {g} |-> IF h = g THEN result ELSE pass.done[h]]
<1>1. /\ Rendering /\ g \in pass.todo /\ note' = noted
      /\ hook' = [hook EXCEPT ![g] = [cleared(@) EXCEPT !.rendered = shown]]
      /\ pass' = [pass EXCEPT !.todo = @ \ {g}, !.done = done]
      /\ Quiet /\ UNCHANGED <<hosts, guests>>
    BY DEF renderHook, Rendering
<1>2. /\ StoreInv /\ SubsType /\ HostsOK /\ PassOK /\ WorldsOK /\ pass \in Passes
      /\ \A h \in Hooks : MarksOK(h) /\ KeptOK(h) /\ ScreenOK(h) /\ LeaksOK(h) /\ HandedOK(h)
    BY <1>1 DEF AllInv, SubsInv, SubsType, Rendering, NoPass
<1>3. Still
    BY <1>1, <1>2, QuietStill DEF hosts
<1>4. /\ g \notin DOMAIN pass.done /\ Home(g) = pass.root /\ pass.root \in Roots
      /\ hook[g] \in HookStates /\ pass.taken[g] \subseteq Wakes /\ note \in {NoNote} \cup RenderNotes
    BY <1>1, <1>2 DEF PassOK, SubsType, Passes
<1>5. /\ own \subseteq OpenDrafts /\ own \subseteq DraftIds /\ Within(pass.root, own, pass.world)
      /\ \A d \in OpenDrafts : d \in hook[g].ids \/ Update(d, d) \in pass.taken[g] => d \in own
    <2>1. own = (hook[g].ids \cup IdsOf(pass.taken[g])) \cap OpenDrafts
        BY ReducerKeeps
    <2>2. OpenDrafts \subseteq DraftIds /\ \A d \in OpenDrafts : ~Ended(d)
        BY DEF OpenDrafts, Ended
    <2>3. \A d \in DraftIds : d # REPAIR_WAKE
        BY BoundsAssumption DEF DraftIds, REPAIR_WAKE
    <2>4. ASSUME NEW d \in own PROVE d \in pass.world \/ Past(pass.root, d)
        <3>1. CASE d \in hook[g].ids
            <4>1. d \in worlds[pass.root] \/ Past(pass.root, d)
                BY <1>2, <1>4, <2>1, <2>2, <2>4, <3>1 DEF LeaksOK, Within
            <4> QED BY <1>1, <1>2, <2>1, <2>2, <2>4, <4>1 DEF WorldsOK, Within
        <3>2. CASE d \in IdsOf(pass.taken[g])
            <4>1. PICK u \in pass.taken[g] : d = u.id
                BY <3>2 DEF IdsOf
            <4>2. u.id # REPAIR_WAKE
                BY <2>1, <2>2, <2>3, <2>4, <4>1
            <4>3. Within(pass.root, {u.id}, pass.world)
                BY <1>1, <1>2, <4>1, <4>2 DEF LeaksOK
            <4> QED BY <2>1, <2>2, <2>4, <4>1, <4>3 DEF Within
        <3> QED BY <2>1, <2>4, <3>1, <3>2
    <2>5. \A d \in OpenDrafts : Update(d, d) \in pass.taken[g] => d \in IdsOf(pass.taken[g])
        BY DEF IdsOf, Update
    <2> QED BY <2>1, <2>2, <2>4, <2>5 DEF Within
<1> HIDE DEF own
<1>6. /\ noted = NoNote \/ (noted \in RenderNotes /\ noted.root = pass.root /\ Within(pass.root, noted.ids, pass.world))
      /\ ids \subseteq DraftIds /\ Within(pass.root, ids, pass.world)
    <2>1. noted = NoNote \/ (noted \in RenderNotes /\ noted.root = pass.root /\ Within(pass.root, noted.ids, pass.world))
        <3>1. CASE note # NoNote /\ note.root = pass.root
            BY <1>1, <1>2, <1>4, <3>1 DEF noteHookRender, WorldsOK, NoteWorld
        <3>2. CASE ~(note # NoNote /\ note.root = pass.root) /\ own # {}
            BY <1>4, <1>5, <3>2 DEF noteHookRender, RenderNotes
        <3>3. CASE ~(note # NoNote /\ note.root = pass.root) /\ own = {}
            BY <3>3 DEF noteHookRender
        <3> QED BY <3>1, <3>2, <3>3
    <2> HIDE DEF noted
    <2>2. noted = NoNote => ids = own
        OBVIOUS
    <2>3. noted # NoNote => ids = noted.ids /\ ids \subseteq DraftIds
        BY <2>1 DEF RenderNotes
    <2> QED BY <1>5, <2>1, <2>2, <2>3
<1> HIDE DEF noted, ids
<1>7. shown \in Trees /\ shown.live /\ Current(g, shown) /\ shown.ids = ids
    <2>1. Reads(g) \in Atoms
        BY RootsAssumption
    <2>2. Resolve(Reads(g), ids) \in Values \cup {Thrown, "none"}
        <3>1. base[Reads(g)] \in Values /\ TypeOK /\ HistoryInv
            BY <1>2, <2>1 DEF StoreInv, HistoryInv, TypeOK
        <3>2. ResolveTyped
            BY <1>2, ResolveIsTyped
        <3> QED BY <1>6, <2>1, <3>2 DEF ResolveTyped
    <2>3. shown \in Trees
        BY <1>6, <2>2 DEF Trees
    <2>4. shown.value = Resolutions(Reads(g))[shown.ids]
        BY <1>6 DEF Resolutions
    <2> QED BY <2>3, <2>4 DEF Current
<1> HIDE DEF shown
<1>8. result \in Renders /\ result.own = own /\ result.shown = shown
    BY <1>5, <1>7 DEF Renders
<1> HIDE DEF result
<1>9. /\ DOMAIN done = DOMAIN pass.done \cup {g} /\ done[g] = result
      /\ \A h \in DOMAIN pass.done : done[h] = pass.done[h]
      /\ done \in UNION {[S -> Renders] : S \in SUBSET Hooks}
    <2>1. PICK S \in SUBSET Hooks : pass.done \in [S -> Renders]
        BY <1>2 DEF Passes
    <2>2. /\ DOMAIN done = S \cup {g} /\ DOMAIN pass.done = S /\ done[g] = result
          /\ \A h \in S : done[h] = pass.done[h]
        BY <1>4, <2>1
    <2>3. done \in [S \cup {g} -> Renders]
        BY <1>8, <2>1
    <2> HIDE DEF done
    <2>4. S \cup {g} \in SUBSET Hooks
        OBVIOUS
    <2>5. done \in UNION {[T -> Renders] : T \in SUBSET Hooks}
        BY <2>3, <2>4
    <2> QED BY <2>2, <2>5
<1> HIDE DEF done
<1>10. /\ pass' \in Passes /\ pass'.stage = "render" /\ pass'.root = pass.root
       /\ pass'.ids = pass.ids /\ pass'.carries = pass.carries /\ pass'.world = pass.world
       /\ pass'.taken = pass.taken /\ pass'.moved = pass.moved
       /\ pass'.todo = pass.todo \ {g} /\ pass'.done = done
    BY <1>1, <1>2, <1>9 DEF Passes, Rendering
<1>11. /\ Rendering' /\ ~Ending' /\ ~Ending
       /\ \A h \in Hooks : /\ Taken(h)' = Taken(h) /\ Taken(h) = pass.taken[h]
                           /\ InDone(h)' <=> InDone(h) \/ h = g
                           /\ InTodo(h)' <=> InTodo(h) /\ h # g
       /\ ~InDone(g) /\ InTodo(g)
    BY <1>1, <1>4, <1>9, <1>10 DEF Rendering, Ending, InDone, InTodo, Taken
<1>12. /\ hook' \in [Hooks -> HookStates]
       /\ \A h \in Hooks \ {g} : hook'[h] = hook[h]
       /\ hook'[g].mounted = hook[g].mounted /\ hook'[g].ids = hook[g].ids
       /\ hook'[g].queue = hook[g].queue /\ hook'[g].delivered = {} /\ ~hook'[g].repairPending
       /\ hook'[g].rendered = shown /\ hook'[g].committed = hook[g].committed
    <2> DEFINE s == hook[g]
               t == [cleared(s) EXCEPT !.rendered = shown]
    <2>1. hook' = [hook EXCEPT ![g] = t] /\ hook \in [Hooks -> HookStates]
        BY <1>1, <1>2 DEF SubsType
    <2>2. s \in HookStates
        BY <1>4
    <2> HIDE DEF s
    <2>3. /\ t \in HookStates /\ t.mounted = s.mounted /\ t.ids = s.ids /\ t.queue = s.queue
          /\ t.delivered = {} /\ ~t.repairPending /\ t.rendered = shown /\ t.committed = s.committed
        BY <1>7, <2>2 DEF HookStates, cleared
    <2> HIDE DEF t
    <2>4. hook'[g] = t
        BY <2>1
    <2> QED BY <2>1, <2>3, <2>4 DEF s
<1>13. SubsType' /\ HostsOK'
    BY <1>1, <1>2, <1>3, <1>6, <1>10, <1>12, HostsStay DEF SubsType, Still, hosts
<1>14. PassOK'
    <2>1. /\ pass'.todo \cap DOMAIN pass'.done = {}
          /\ \A h \in Hooks : pass'.taken[h] # {} => hook'[h].mounted /\ h \in pass'.todo \cup DOMAIN pass'.done
          /\ \A h \in pass'.todo : Home(h) = pass'.root
        BY <1>1, <1>2, <1>9, <1>10, <1>12 DEF PassOK
    <2>2. ASSUME NEW h \in pass'.todo \cup DOMAIN pass'.done, hook'[h].mounted
          PROVE  pass'.taken[h] # {}
        <3>1. h \in pass.todo \cup DOMAIN pass.done /\ h \in Hooks
            BY <1>1, <1>2, <1>9, <1>10, <2>2 DEF Passes
        <3>2. hook[h].mounted
            BY <1>12, <2>2, <3>1
        <3> QED BY <1>1, <1>2, <1>10, <3>1, <3>2 DEF PassOK
    <2>3. ASSUME NEW h \in DOMAIN pass'.done, NEW d \in OpenDrafts',
                 d \in hook'[h].ids \/ Update(d, d) \in pass'.taken[h]
          PROVE  d \in pass'.done[h].own
        <3>1. d \in OpenDrafts
            BY <1>3 DEF Still
        <3>2. CASE h = g
            BY <1>5, <1>8, <1>9, <1>10, <1>12, <2>3, <3>1, <3>2
        <3>3. CASE h # g
            <4>1. h \in DOMAIN pass.done /\ h \in Hooks
                BY <1>2, <1>9, <1>10, <3>3 DEF Passes
            <4> QED BY <1>1, <1>2, <1>9, <1>10, <1>12, <2>3, <3>1, <3>3, <4>1 DEF PassOK
        <3> QED BY <3>2, <3>3
    <2>4. ASSUME NEW h \in Hooks, InDone(h)'
          PROVE  Home(h) = pass'.root /\ hook'[h].rendered = pass'.done[h].shown /\ hook'[h].rendered.live
        <3>1. CASE h = g
            BY <1>4, <1>7, <1>8, <1>9, <1>10, <1>12, <3>1
        <3>2. CASE h # g
            <4>1. InDone(h) /\ h \in DOMAIN pass.done
                BY <1>11, <2>4, <3>2 DEF InDone
            <4> QED BY <1>2, <1>9, <1>10, <1>12, <3>2, <4>1 DEF PassOK
        <3> QED BY <3>1, <3>2
    <2>5. ASSUME pass'.carries, NEW h \in Mounted', Home(h) = pass'.root, ~InTodo(h)', ~InDone(h)'
          PROVE  hook'[h].rendered = hook'[h].committed
        <3>1. h \in Hooks /\ hook'[h].mounted
            BY <2>5 DEF Mounted
        <3>2. h # g
            BY <1>11, <2>5, <3>1
        <3>3. h \in Mounted /\ ~InTodo(h) /\ ~InDone(h)
            BY <1>11, <1>12, <2>5, <3>1, <3>2 DEF Mounted
        <3> QED BY <1>1, <1>2, <1>10, <1>12, <2>5, <3>1, <3>2, <3>3 DEF PassOK, Rendering
    <2> QED BY <1>10, <1>11, <2>1, <2>2, <2>3, <2>4, <2>5 DEF PassOK
<1>15. WorldsOK'
    <2>1. worlds' = worlds /\ sent' = sent
        BY <1>1 DEF hosts
    <2>2. note' # NoNote => Within(note.root, note.ids, NoteWorld(note.root))'
        BY <1>1, <1>3, <1>6, <1>10, <1>11 DEF NoteWorld, Within, Past, Still
    <2>3. /\ Within(pass.root, worlds[pass.root] \cup pass.ids, pass.world)'
          /\ pass'.world \subseteq worlds'[pass'.root] \cup pass'.ids
          /\ pass'.ids \subseteq sent'[pass'.root]
        BY <1>1, <1>2, <1>3, <1>10, <2>1 DEF WorldsOK, Within, Past, Still
    <2> QED BY <2>2, <2>3 DEF WorldsOK
<1>16. ASSUME NEW h \in Hooks, h # g PROVE HookOK(h)'
    <2>1. /\ hook'[h] = hook[h] /\ Taken(h)' = Taken(h) /\ pass'.taken[h] = pass.taken[h]
          /\ (InDone(h)' <=> InDone(h)) /\ (InTodo(h)' <=> InTodo(h))
          /\ InDone(h) => pass'.done[h] = pass.done[h]
          /\ pass'.moved = pass.moved /\ pass'.world = pass.world
          /\ guests' = guests /\ worlds' = worlds /\ sent' = sent
        BY <1>1, <1>9, <1>10, <1>11, <1>12, <1>16 DEF InDone, hosts
    <2>2. MarksOK(h)'
        BY <1>2, <2>1 DEF MarksOK
    <2>3. KeptOK(h)'
        BY <1>2, <1>11, <2>1 DEF KeptOK
    <2>4. ScreenOK(h)'
        BY <1>1, <1>2, <1>3, <1>11, <2>1 DEF ScreenOK, Current, Still
    <2>5. LeaksOK(h)'
        BY <1>1, <1>2, <1>3, <1>11, <2>1 DEF LeaksOK, Within, Past, Still
    <2>6. HandedOK(h)'
        BY <1>2, <1>3, <2>1 DEF HandedOK, Still
    <2> QED BY <2>2, <2>3, <2>4, <2>5, <2>6 DEF HookOK
<1>17. HookOK(g)'
    <2>1. /\ Taken(g)' = pass.taken[g] /\ pass'.taken[g] = pass.taken[g]
          /\ InDone(g)' /\ ~InTodo(g)' /\ pass'.done[g] = result
          /\ guests' = guests /\ worlds' = worlds /\ sent' = sent
        BY <1>1, <1>9, <1>10, <1>11 DEF hosts
    <2>2. hook[g].mounted => pass.taken[g] # {}
        BY <1>1, <1>2 DEF PassOK
    <2>3. MarksOK(g)'
        BY <1>2, <1>7, <1>12 DEF MarksOK
    <2>4. KeptOK(g)'
        BY <1>12, <2>1, <2>2 DEF KeptOK
    <2>5. ScreenOK(g)'
        BY <1>3, <1>7, <1>8, <1>12, <2>1, <2>2 DEF ScreenOK, Current, Still
    <2>6. LeaksOK(g)'
        <3>1. Within(pass.root, own, pass.world) /\ Within(pass.root, shown.ids, pass.world)
            BY <1>5, <1>6, <1>7
        <3> QED BY <1>1, <1>2, <1>3, <1>8, <1>10, <1>11, <1>12, <2>1, <3>1 DEF LeaksOK, Within, Past, Still
    <2>7. HandedOK(g)'
        BY <1>2, <1>3, <1>11, <1>12, <2>1 DEF HandedOK, Still
    <2> QED BY <2>3, <2>4, <2>5, <2>6, <2>7 DEF HookOK
<1>18. RepairIsNews
    <2>1. \A h \in Hooks : hook'[h].repairPending => hook[h].repairPending
        BY <1>12
    <2> QED BY <2>1, NoRepairs
<1> QED BY <1>3, <1>13, <1>14, <1>15, <1>16, <1>17, <1>18 DEF Stepped, SubsInv, HookOK, Still

\* A base value moved, and the whole pass renders again.
LEMMA RerenderSteps ==
    ASSUME AllInv, rerender
    PROVE  Stepped
<1> DEFINE world == IF pass.carries THEN worldsReducer(worlds[pass.root], pass.ids) ELSE pass.world
<1>1. /\ Rendering /\ pass.todo = {} /\ Quiet
      /\ pass' = [pass EXCEPT !.sync = TRUE, !.world = world, !.moved = {},
                              !.todo = DOMAIN pass.done, !.done = [h \in {} |-> NoTree]]
      /\ note' = IF ~pass.carries THEN note
                 ELSE IF world = {} THEN NoNote ELSE [root |-> pass.root, ids |-> world]
      /\ UNCHANGED <<hosts, hook, guests>>
    BY DEF rerender, Rendering
<1>2. /\ StoreInv /\ SubsType /\ HostsOK /\ PassOK /\ WorldsOK /\ pass \in Passes
      /\ \A h \in Hooks : MarksOK(h) /\ KeptOK(h) /\ ScreenOK(h) /\ LeaksOK(h) /\ HandedOK(h)
    BY <1>1 DEF AllInv, SubsInv, SubsType, Rendering, NoPass
<1>3. Still
    BY <1>1, <1>2, QuietStill DEF hosts
<1>4. /\ pass.root \in Roots /\ pass.ids \subseteq DraftIds /\ pass.world \subseteq DraftIds
      /\ worlds[pass.root] \subseteq DraftIds /\ DOMAIN pass.done \subseteq Hooks
      /\ pass.done \in UNION {[S -> Renders] : S \in SUBSET Hooks}
    BY <1>2 DEF Passes, SubsType
<1>5. /\ Within(pass.root, worlds[pass.root] \cup pass.ids, pass.world)
      /\ pass.world \subseteq worlds[pass.root] \cup pass.ids
      /\ pass.ids \subseteq sent[pass.root]
    BY <1>1, <1>2 DEF WorldsOK
<1>6. \A d \in worlds[pass.root] \cup pass.ids : d \in OpenDrafts \/ Ended(d)
    BY <1>2, <1>4, <1>5, OpenOrEnded DEF HostsOK
<1>7. /\ Within(pass.root, worlds[pass.root] \cup pass.ids, world)
      /\ world \subseteq worlds[pass.root] \cup pass.ids
      /\ Within(pass.root, pass.world, world) /\ world \subseteq DraftIds
    <2>1. CASE pass.carries
        <3>1. world = (worlds[pass.root] \cup pass.ids) \cap OpenDrafts
            BY <2>1, ReducerKeeps
        <3> QED BY <1>4, <1>5, <1>6, <3>1 DEF Within, Past
    <2>2. CASE ~pass.carries
        BY <1>4, <1>5, <2>2 DEF Within
    <2> QED BY <2>1, <2>2
<1> HIDE DEF world
<1>8. /\ pass' \in Passes /\ pass'.stage = "render" /\ pass'.root = pass.root
      /\ pass'.ids = pass.ids /\ pass'.carries = pass.carries /\ pass'.world = world
      /\ pass'.taken = pass.taken /\ pass'.todo = DOMAIN pass.done /\ DOMAIN pass'.done = {}
    <2> DEFINE none == [h \in {} |-> NoTree]
    <2>1. none \in UNION {[S -> Renders] : S \in SUBSET Hooks} /\ DOMAIN none = {}
        OBVIOUS
    <2> HIDE DEF none
    <2>2. pass' = [pass EXCEPT !.sync = TRUE, !.world = world, !.moved = {},
                               !.todo = DOMAIN pass.done, !.done = none]
        BY <1>1 DEF none
    <2> QED BY <1>1, <1>2, <1>4, <1>7, <2>1, <2>2 DEF Passes, Rendering
<1>9. /\ Rendering' /\ ~Ending' /\ ~Ending
      /\ \A h \in Hooks : /\ Taken(h)' = Taken(h) /\ Taken(h) = pass.taken[h]
                          /\ ~InDone(h)' /\ ~InTodo(h)
                          /\ InTodo(h)' <=> InDone(h)
    BY <1>1, <1>8 DEF Rendering, Ending, InDone, InTodo, Taken
<1>10. hook' = hook /\ worlds' = worlds /\ sent' = sent /\ guests' = guests
    BY <1>1 DEF hosts
<1>11. SubsType' /\ HostsOK'
    <2>1. note' = NoNote \/ note' \in RenderNotes
        BY <1>1, <1>2, <1>4, <1>7 DEF SubsType, RenderNotes
    <2> QED BY <1>1, <1>2, <1>3, <1>8, <2>1, HostsStay DEF SubsType, Still, hosts
<1>12. PassOK'
    <2>1. /\ pass'.todo \cap DOMAIN pass'.done = {}
          /\ \A h \in Hooks : pass'.taken[h] # {} => hook'[h].mounted /\ h \in pass'.todo \cup DOMAIN pass'.done
          /\ \A h \in pass'.todo \cup DOMAIN pass'.done : hook'[h].mounted => pass'.taken[h] # {}
        BY <1>1, <1>2, <1>8, <1>10 DEF PassOK
    <2>2. \A h \in pass'.todo : Home(h) = pass'.root
        BY <1>1, <1>2, <1>4, <1>8 DEF PassOK, InDone, Rendering
    <2>3. ASSUME pass'.carries, NEW h \in Mounted', Home(h) = pass'.root, ~InTodo(h)'
          PROVE  hook'[h].rendered = hook'[h].committed
        <3>1. h \in Hooks /\ h \in Mounted /\ ~InDone(h) /\ ~InTodo(h)
            BY <1>9, <1>10, <2>3 DEF Mounted
        <3> QED BY <1>1, <1>2, <1>8, <1>10, <2>3, <3>1 DEF PassOK, Rendering
    <2> QED BY <1>8, <1>9, <2>1, <2>2, <2>3 DEF PassOK
<1>13. WorldsOK'
    <2>1. note' # NoNote => Within(note.root, note.ids, NoteWorld(note.root))'
        <3>1. CASE pass.carries
            BY <1>1, <1>3, <1>8, <1>9, <3>1 DEF NoteWorld, Within, Past, Still
        <3>2. CASE ~pass.carries
            <4>1. note' = note /\ world = pass.world
                BY <1>1, <3>2 DEF world
            <4> QED BY <1>1, <1>2, <1>3, <1>8, <1>9, <1>10, <4>1 DEF WorldsOK, NoteWorld, Within, Past, Still
        <3> QED BY <3>1, <3>2
    <2>2. Within(pass.root, worlds[pass.root] \cup pass.ids, pass.world)'
        BY <1>3, <1>7, <1>8, <1>10 DEF Within, Past, Still
    <2> QED BY <1>5, <1>7, <1>8, <1>10, <2>1, <2>2 DEF WorldsOK
<1>14. ASSUME NEW h \in Hooks PROVE HookOK(h)'
    <2>1. MarksOK(h)'
        BY <1>2, <1>9, <1>10 DEF MarksOK
    <2>2. KeptOK(h)'
        BY <1>2, <1>9, <1>10 DEF KeptOK
    <2>3. ScreenOK(h)'
        BY <1>2, <1>3, <1>9, <1>10 DEF ScreenOK, Current, Still
    <2>4. LeaksOK(h)'
        <3>1. \A u \in pass.taken[h] : u.id # REPAIR_WAKE => Within(pass.root, {u.id}, world)
            BY <1>1, <1>2, <1>7 DEF LeaksOK, Within
        <3> QED BY <1>2, <1>3, <1>8, <1>9, <1>10, <3>1 DEF LeaksOK, Within, Past, Still
    <2>5. HandedOK(h)'
        BY <1>2, <1>3, <1>9, <1>10 DEF HandedOK, Still
    <2> QED BY <2>1, <2>2, <2>3, <2>4, <2>5 DEF HookOK
<1>15. RepairIsNews
    BY <1>10, NoRepairs
<1> QED BY <1>3, <1>11, <1>12, <1>13, <1>14, <1>15 DEF Stepped, SubsInv, HookOK, Still

\* React swaps the trees.
LEMMA CommitSteps ==
    ASSUME AllInv, commit
    PROVE  Stepped
<1> DEFINE stage == IF pass.carries THEN "poke" ELSE "layout"
<1>1. /\ Rendering /\ pass.todo = {} /\ pass.moved = {} /\ Quiet
      /\ worlds' = [worlds EXCEPT ![pass.root] = pass.world]
      /\ sent' = [sent EXCEPT ![pass.root] = @ \ pass.ids]
      /\ pass' = [pass EXCEPT !.stage = stage]
      /\ hook' = [h \in Hooks |-> IF h \in DOMAIN pass.done
                                  THEN [hook[h] EXCEPT !.ids = pass.done[h].own] ELSE hook[h]]
      /\ UNCHANGED <<rootConnections, recipients, audience, note, guests>>
    BY DEF commit, Rendering
<1>2. /\ StoreInv /\ SubsType /\ HostsOK /\ PassOK /\ WorldsOK /\ pass \in Passes
      /\ \A h \in Hooks : MarksOK(h) /\ KeptOK(h) /\ ScreenOK(h) /\ LeaksOK(h) /\ HandedOK(h)
    BY <1>1 DEF AllInv, SubsInv, SubsType, Rendering, NoPass
<1>3. Still
    BY <1>1, <1>2, QuietStill DEF hosts
<1>4. /\ pass.root \in Roots /\ pass.ids \subseteq DraftIds /\ pass.world \subseteq DraftIds
      /\ worlds[pass.root] \subseteq DraftIds /\ DOMAIN pass.done \subseteq Hooks
      /\ \A h \in DOMAIN pass.done : pass.done[h] \in Renders
    BY <1>2 DEF Passes, SubsType
<1>5. /\ Within(pass.root, worlds[pass.root] \cup pass.ids, pass.world)
      /\ pass.world \subseteq worlds[pass.root] \cup pass.ids
      /\ pass.ids \subseteq sent[pass.root]
    BY <1>1, <1>2 DEF WorldsOK
<1>6. /\ worlds' \in [Roots -> SUBSET DraftIds] /\ sent' \in [Roots -> SUBSET DraftIds]
      /\ \A r \in Roots : /\ worlds'[r] = IF r = pass.root THEN pass.world ELSE worlds[r]
                          /\ sent'[r] = IF r = pass.root THEN sent[r] \ pass.ids ELSE sent[r]
    BY <1>1, <1>2, <1>4 DEF SubsType
<1>7. /\ pass' \in Passes /\ pass'.stage = stage /\ pass'.root = pass.root
      /\ pass'.ids = pass.ids /\ pass'.carries = pass.carries /\ pass'.world = pass.world
      /\ pass'.taken = pass.taken /\ pass'.done = pass.done /\ pass'.todo = {}
      /\ stage \in {"poke", "layout"} /\ (stage = "poke" => pass.carries)
    BY <1>1, <1>2 DEF Passes
<1> HIDE DEF stage
<1>8. /\ ~Rendering' /\ Ending' /\ ~Ending
      /\ \A h \in Hooks : /\ Taken(h)' = {} /\ Taken(h) = pass.taken[h]
                          /\ InDone(h)' <=> InDone(h)
                          /\ ~InTodo(h) /\ ~InTodo(h)'
                          /\ InDone(h) <=> h \in DOMAIN pass.done
                          /\ Taken(h) # {} => InDone(h)
    <2>1. ~Rendering' /\ Ending' /\ ~Ending
        BY <1>1, <1>7 DEF Rendering, Ending
    <2>2. ASSUME NEW h \in Hooks
          PROVE  /\ Taken(h)' = {} /\ Taken(h) = pass.taken[h]
                 /\ InDone(h)' <=> InDone(h)
                 /\ ~InTodo(h) /\ ~InTodo(h)'
                 /\ InDone(h) <=> h \in DOMAIN pass.done
        BY <1>1, <1>7, <2>1 DEF Rendering, InDone, InTodo, Taken
    <2>3. \A h \in Hooks : pass.taken[h] # {} => h \in DOMAIN pass.done
        BY <1>1, <1>2 DEF PassOK
    <2> QED BY <2>1, <2>2, <2>3
<1>9. /\ hook' \in [Hooks -> HookStates]
      /\ \A h \in Hooks :
            LET t == hook'[h]
                s == hook[h]
            IN  /\ t.mounted = s.mounted /\ t.queue = s.queue /\ t.delivered = s.delivered
                /\ t.repairPending = s.repairPending
                /\ t.rendered = s.rendered /\ t.committed = s.committed
                /\ t.ids = IF h \in DOMAIN pass.done THEN pass.done[h].own ELSE s.ids
    <2>1. ASSUME NEW h \in Hooks
          PROVE  LET t == hook'[h]
                     s == hook[h]
                 IN  /\ t \in HookStates
                     /\ t.mounted = s.mounted /\ t.queue = s.queue /\ t.delivered = s.delivered
                     /\ t.repairPending = s.repairPending
                     /\ t.rendered = s.rendered /\ t.committed = s.committed
                     /\ t.ids = IF h \in DOMAIN pass.done THEN pass.done[h].own ELSE s.ids
        <3> DEFINE s == hook[h]
        <3>1. s \in HookStates /\ (h \in DOMAIN pass.done => pass.done[h].own \subseteq DraftIds)
            BY <1>2, <1>4 DEF SubsType, Renders
        <3>2. hook'[h] = IF h \in DOMAIN pass.done THEN [s EXCEPT !.ids = pass.done[h].own] ELSE s
            BY <1>1
        <3> HIDE DEF s
        <3>3. LET t == hook'[h]
              IN  /\ t \in HookStates
                  /\ t.mounted = s.mounted /\ t.queue = s.queue /\ t.delivered = s.delivered
                  /\ t.repairPending = s.repairPending
                  /\ t.rendered = s.rendered /\ t.committed = s.committed
                  /\ t.ids = IF h \in DOMAIN pass.done THEN pass.done[h].own ELSE s.ids
            BY <3>1, <3>2 DEF HookStates
        <3> QED BY <3>3 DEF s
    <2> QED BY <1>1, <2>1
<1>10. SubsType'
    BY <1>1, <1>2, <1>6, <1>7, <1>9 DEF SubsType
<1>11. HostsOK'
    <2>1. ASSUME NEW d \in OpenDrafts, NEW r \in audience[d] PROVE d \in sent'[r] \cup worlds'[r]
        <3>1. r \in Roots /\ d \in sent[r] \cup worlds[r] /\ ~Past(r, d)
            BY <1>2, <2>1 DEF HostsOK, SubsType, OpenDrafts, Past, Ended
        <3> QED BY <1>5, <1>6, <3>1 DEF Within
    <2>2. ASSUME NEW r \in Roots, NEW d \in sent'[r] \cup worlds'[r] PROVE draftState[d] # "unopened"
        <3>1. d \in sent[r] \cup worlds[r]
            BY <1>5, <1>6, <2>2
        <3> QED BY <1>2, <3>1 DEF HostsOK
    <2>3. OpenDrafts' = OpenDrafts /\ draftState' = draftState
        BY <1>3 DEF Still
    <2> QED BY <1>1, <1>2, <2>1, <2>2, <2>3 DEF HostsOK
<1>12. PassOK'
    <2>1. ASSUME NEW h \in Hooks, InDone(h)'
          PROVE  Home(h) = pass'.root /\ hook'[h].rendered = pass'.done[h].shown /\ hook'[h].rendered.live
        BY <1>2, <1>7, <1>8, <1>9, <2>1 DEF PassOK
    <2>2. ASSUME pass'.carries, NEW h \in Mounted', Home(h) = pass'.root, ~InDone(h)'
          PROVE  hook'[h].rendered = hook'[h].committed
        <3>1. h \in Hooks /\ h \in Mounted /\ ~InDone(h) /\ ~InTodo(h)
            BY <1>8, <1>9, <2>2 DEF Mounted
        <3> QED BY <1>1, <1>2, <1>7, <1>9, <2>2, <3>1 DEF PassOK, Rendering
    <2> QED BY <1>7, <1>8, <2>1, <2>2 DEF PassOK
<1>13. WorldsOK'
    <2>1. ASSUME note' # NoNote PROVE Within(note.root, note.ids, NoteWorld(note.root))'
        <3>1. note' = note /\ note.root \in Roots
            BY <1>1, <1>2, <2>1 DEF SubsType, RenderNotes
        <3>2. NoteWorld(note.root)' = NoteWorld(note.root)
            BY <1>1, <1>6, <1>8, <3>1 DEF NoteWorld
        <3> QED BY <1>2, <1>3, <2>1, <3>1, <3>2 DEF WorldsOK, Within, Past, Still
    <2> QED BY <1>8, <2>1 DEF WorldsOK
<1>14. \A r \in Roots : /\ Within(r, worlds[r], worlds'[r])
                       /\ Within(r, sent[r] \cup worlds[r], sent'[r] \cup worlds'[r])
    BY <1>5, <1>6 DEF Within
<1>15. ASSUME NEW h \in Hooks PROVE HookOK(h)'
    <2>1. /\ MarksOK(h) /\ KeptOK(h) /\ ScreenOK(h) /\ LeaksOK(h) /\ HandedOK(h)
          /\ Home(h) \in Roots /\ guests' = guests
        BY <1>1, <1>2, RootsAssumption
    <2>2. MarksOK(h)'
        BY <1>8, <1>9, <2>1 DEF MarksOK
    <2>3. KeptOK(h)'
        BY <1>8, <1>9, <2>1 DEF KeptOK
    <2>4. ScreenOK(h)'
        BY <1>1, <1>3, <1>7, <1>8, <1>9, <2>1 DEF ScreenOK, Current, Still
    <2>5. InDone(h) => Home(h) = pass.root /\ worlds'[Home(h)] = pass.world
        BY <1>2, <1>4, <1>6 DEF PassOK
    <2>6. LeaksOK(h)'
        <3>1. Within(Home(h), hook[h].ids, worlds[Home(h)])'
            <4>1. CASE InDone(h)
                BY <1>1, <1>3, <1>8, <1>9, <2>1, <2>5, <4>1 DEF LeaksOK, Within, Past, Still
            <4>2. CASE ~InDone(h)
                BY <1>3, <1>8, <1>9, <1>14, <2>1, <4>2 DEF LeaksOK, Within, Past, Still
            <4> QED BY <4>1, <4>2
        <3>2. \A u \in hook'[h].queue : u.id # REPAIR_WAKE => Within(Home(h), {u.id}, sent[Home(h)] \cup worlds[Home(h)])'
            BY <1>3, <1>9, <1>14, <2>1 DEF LeaksOK, Within, Past, Still
        <3>3. hook'[h].mounted => Within(Home(h), hook[h].committed.ids, worlds[Home(h)])'
            BY <1>3, <1>9, <1>14, <2>1 DEF LeaksOK, Within, Past, Still
        <3>4. InDone(h)' => Within(Home(h), pass.done[h].shown.ids, worlds[Home(h)])'
            BY <1>1, <1>3, <1>7, <1>8, <2>1, <2>5 DEF LeaksOK, Within, Past, Still
        <3> QED BY <1>8, <3>1, <3>2, <3>3, <3>4 DEF LeaksOK
    <2>7. HandedOK(h)'
        <3>1. CASE InDone(h)
            <4>1. \A d \in OpenDrafts : d \in hook[h].ids \/ Update(d, d) \in Taken(h) => d \in hook'[h].ids
                BY <1>1, <1>2, <1>8, <1>9, <3>1 DEF PassOK
            <4> QED BY <1>3, <1>9, <2>1, <4>1 DEF HandedOK, Still
        <3>2. CASE ~InDone(h)
            BY <1>3, <1>8, <1>9, <2>1, <3>2 DEF HandedOK, Still
        <3> QED BY <3>1, <3>2
    <2> QED BY <2>2, <2>3, <2>4, <2>6, <2>7 DEF HookOK
<1>16. RepairIsNews
    BY <1>9, NoRepairs
<1> QED BY <1>3, <1>10, <1>11, <1>12, <1>13, <1>15, <1>16 DEF Stepped, SubsInv, HookOK, Still

\* Every layout effect of the commit has run.
LEMMA LaidOutSteps ==
    ASSUME AllInv, laidOut
    PROVE  Stepped
<1>1. /\ pass.stage = "layout" /\ DOMAIN pass.done = {} /\ pass' = NoPass /\ Quiet
      /\ UNCHANGED <<hosts, hook, note, guests>>
    BY DEF laidOut
<1>2. /\ StoreInv /\ SubsType /\ HostsOK /\ WorldsOK
      /\ \A h \in Hooks : MarksOK(h) /\ KeptOK(h) /\ ScreenOK(h) /\ LeaksOK(h) /\ HandedOK(h)
    BY DEF AllInv, SubsInv
<1>3. Still
    BY <1>1, <1>2, QuietStill DEF hosts
<1>4. /\ ~Rendering' /\ ~Ending' /\ pass'.stage = "none" /\ ~Rendering
      /\ \A h \in Hooks : /\ ~InDone(h)' /\ ~InTodo(h)' /\ Taken(h)' = {}
                          /\ ~InDone(h) /\ ~InTodo(h) /\ Taken(h) = {}
    BY <1>1 DEF Rendering, Ending, NoPass, InDone, InTodo, Taken
<1>5. hook' = hook /\ worlds' = worlds /\ sent' = sent /\ guests' = guests /\ note' = note
    BY <1>1 DEF hosts
<1>6. SubsType' /\ HostsOK'
    BY <1>1, <1>2, <1>3, HostsStay DEF SubsType, Still, hosts
<1>7. PassOK'
    BY <1>4 DEF PassOK
<1>8. WorldsOK'
    BY <1>2, <1>3, <1>4, <1>5 DEF WorldsOK, NoteWorld, Within, Past, Still
<1>9. ASSUME NEW h \in Hooks PROVE HookOK(h)'
    <2>1. MarksOK(h)' /\ KeptOK(h)'
        BY <1>2, <1>4, <1>5 DEF MarksOK, KeptOK
    <2>2. ScreenOK(h)' /\ HandedOK(h)'
        BY <1>2, <1>3, <1>4, <1>5 DEF ScreenOK, Current, HandedOK, Still
    <2>3. LeaksOK(h)'
        BY <1>2, <1>3, <1>4, <1>5 DEF LeaksOK, Within, Past, Still
    <2> QED BY <2>1, <2>2, <2>3 DEF HookOK
<1>10. RepairIsNews
    BY <1>5, NoRepairs
<1> QED BY <1>3, <1>6, <1>7, <1>8, <1>9, <1>10 DEF Stepped, SubsInv, HookOK, Still

\* What correctSubscription does to a component that has just subscribed.
LEMMA Corrected ==
    ASSUME NEW h \in Hooks, HostsOK, NEW s, s \in HookStates,
           s.queue = {}, s.delivered = {}, ~s.repairPending
    PROVE  LET t == correctSubscription(h, s)
           IN  /\ t \in HookStates
               /\ t.mounted = s.mounted /\ t.ids = s.ids /\ ~t.repairPending
               /\ t.rendered = s.rendered /\ t.committed = s.committed
               /\ t.delivered = MissedBy(h)
               /\ \A d \in MissedBy(h) : Update(d, d) \in t.queue
               /\ \A u \in t.queue : u.id = REPAIR_WAKE \/ u.id \in MissedBy(h)
               /\ \/ Resolve(Reads(h), s.rendered.ids) = s.rendered.value
                  \/ t.queue # {}
<1> DEFINE D == MissedBy(h)
           U == {Update(d, d) : d \in D}
           r == deliver(s, D, UrgentLane)
           t == correctSubscription(h, s)
           current == Resolve(Reads(h), s.rendered.ids) = s.rendered.value
<1>1. D \subseteq OpenDrafts /\ D \subseteq DraftIds
    BY DEF MissedBy, draftsAffecting, OpenDrafts
<1>2. \A d \in D : WakeLane(UrgentLane, d) = d
    BY DEF WakeLane, MissedBy, hosted
<1> HIDE DEF D
<1>3. {Update(WakeLane(UrgentLane, d), d) : d \in D \ s.delivered} = U
    BY <1>2
<1>4. U \subseteq Wakes /\ Update(UrgentLane, REPAIR_WAKE) \in Wakes
    BY <1>1 DEF Update, Wakes
<1>5. \A u \in U : u.id \in D
    BY DEF Update
<1>6. \A d \in D : Update(d, d) \in U
    OBVIOUS
<1>7. r = [s EXCEPT !.delivered = @ \cup D, !.queue = @ \cup U]
    BY <1>3 DEF deliver
<1> HIDE DEF U, r
<1>8. /\ r \in HookStates /\ r.mounted = s.mounted /\ r.ids = s.ids
      /\ r.repairPending = s.repairPending /\ r.rendered = s.rendered
      /\ r.committed = s.committed /\ r.delivered = D /\ r.queue = U
    BY <1>1, <1>4, <1>7 DEF HookStates
<1>9. t = IF current THEN r ELSE [r EXCEPT !.queue = @ \cup {Update(UrgentLane, REPAIR_WAKE)}]
    BY DEF correctSubscription, r, D
<1> HIDE DEF t, current
<1>10. /\ t \in HookStates /\ t.mounted = r.mounted /\ t.ids = r.ids
       /\ t.repairPending = r.repairPending /\ t.rendered = r.rendered
       /\ t.committed = r.committed /\ t.delivered = r.delivered
       /\ t.queue = IF current THEN r.queue ELSE r.queue \cup {Update(UrgentLane, REPAIR_WAKE)}
    BY <1>4, <1>8, <1>9 DEF HookStates
<1>11. \A u \in t.queue : u.id = REPAIR_WAKE \/ u.id \in D
    BY <1>5, <1>8, <1>10 DEF Update
<1>12. \A d \in D : Update(d, d) \in t.queue
    BY <1>6, <1>8, <1>10
<1>13. current \/ t.queue # {}
    BY <1>10
<1>14. /\ t \in HookStates
       /\ t.mounted = s.mounted /\ t.ids = s.ids /\ ~t.repairPending
       /\ t.rendered = s.rendered /\ t.committed = s.committed
       /\ t.delivered = D
    BY <1>8, <1>10
<1> QED BY <1>11, <1>12, <1>13, <1>14 DEF t, current, D

\* The layout effects of one component run.
LEMMA LayoutSteps ==
    ASSUME AllInv, NEW g \in Hooks, layout(g)
    PROVE  Stepped
<1> DEFINE was == hook[g]
           fresh == [was EXCEPT !.mounted = TRUE]
           subscribed == IF was.mounted THEN was ELSE correctSubscription(g, fresh)
           shown == pass.done[g].shown
           rest == [h \in DOMAIN pass.done \ {g} |-> pass.done[h]]
<1>1. /\ pass.stage = "layout" /\ g \in DOMAIN pass.done /\ Quiet
      /\ hook' = [hook EXCEPT ![g] = [subscribed EXCEPT !.committed = shown]]
      /\ guests' = IF ~was.mounted /\ shown.ids # was.ids THEN guests \cup {g} ELSE guests
      /\ pass' = [pass EXCEPT !.done = rest]
      /\ UNCHANGED <<hosts, note>>
    BY DEF layout
<1>2. /\ StoreInv /\ SubsType /\ HostsOK /\ PassOK /\ WorldsOK /\ pass \in Passes
      /\ \A h \in Hooks : MarksOK(h) /\ KeptOK(h) /\ ScreenOK(h) /\ LeaksOK(h) /\ HandedOK(h)
    BY <1>1 DEF AllInv, SubsInv, SubsType, NoPass
<1>3. Still
    BY <1>1, <1>2, QuietStill DEF hosts
<1>4. PICK S \in SUBSET Hooks : pass.done \in [S -> Renders]
    BY <1>2 DEF Passes
<1>5. /\ DOMAIN rest = DOMAIN pass.done \ {g} /\ rest \in UNION {[T -> Renders] : T \in SUBSET Hooks}
      /\ \A h \in DOMAIN rest : rest[h] = pass.done[h]
    <2>1. rest \in [S \ {g} -> Renders] /\ S \ {g} \in SUBSET Hooks
        BY <1>4
    <2>2. DOMAIN rest = DOMAIN pass.done \ {g} /\ \A h \in DOMAIN rest : rest[h] = pass.done[h]
        OBVIOUS
    <2> QED BY <2>1, <2>2
<1> HIDE DEF rest
<1>6. /\ pass' \in Passes /\ pass'.stage = "layout" /\ pass'.done = rest
      /\ pass'.root = pass.root
    BY <1>1, <1>2, <1>5 DEF Passes
<1>7. /\ Ending /\ Ending' /\ ~Rendering /\ ~Rendering'
      /\ \A h \in Hooks : /\ Taken(h)' = {} /\ Taken(h) = {}
                          /\ ~InTodo(h) /\ ~InTodo(h)'
                          /\ InDone(h)' <=> InDone(h) /\ h # g
      /\ InDone(g)
    BY <1>1, <1>5, <1>6 DEF Rendering, Ending, InDone, InTodo, Taken
<1>8. /\ was \in HookStates /\ shown \in Trees /\ was.rendered = shown /\ shown.live
      /\ Within(Home(g), shown.ids, worlds[Home(g)]) /\ Home(g) \in Roots
      /\ shown \in Trees
    BY <1>1, <1>2, <1>4, <1>7, RootsAssumption DEF SubsType, Renders, PassOK, LeaksOK
<1>9. /\ subscribed \in HookStates /\ subscribed.mounted
      /\ subscribed.ids = was.ids /\ subscribed.rendered = was.rendered
      /\ was.mounted => subscribed = was
      /\ ~was.mounted =>
            /\ ~subscribed.repairPending /\ subscribed.delivered = MissedBy(g)
            /\ \A d \in MissedBy(g) : Update(d, d) \in subscribed.queue
            /\ \A u \in subscribed.queue : u.id = REPAIR_WAKE \/ u.id \in MissedBy(g)
            /\ Resolve(Reads(g), shown.ids) = shown.value \/ subscribed.queue # {}
    <2>1. CASE was.mounted
        BY <1>8, <2>1
    <2>2. CASE ~was.mounted
        <3>1. was.queue = {} /\ was.delivered = {} /\ ~was.repairPending
            BY <1>2, <2>2 DEF MarksOK
        <3> HIDE DEF was
        <3>2. /\ fresh \in HookStates /\ fresh.mounted /\ fresh.queue = {} /\ fresh.delivered = {}
              /\ ~fresh.repairPending /\ fresh.ids = was.ids /\ fresh.rendered = was.rendered
            BY <1>8, <3>1 DEF HookStates
        <3>3. subscribed = correctSubscription(g, fresh)
            BY <2>2
        <3> HIDE DEF fresh
        <3> DEFINE t == correctSubscription(g, fresh)
        <3>4. /\ t \in HookStates
              /\ t.mounted = fresh.mounted /\ t.ids = fresh.ids /\ ~t.repairPending
              /\ t.rendered = fresh.rendered
              /\ t.delivered = MissedBy(g)
              /\ \A d \in MissedBy(g) : Update(d, d) \in t.queue
              /\ \A u \in t.queue : u.id = REPAIR_WAKE \/ u.id \in MissedBy(g)
              /\ \/ Resolve(Reads(g), fresh.rendered.ids) = fresh.rendered.value
                 \/ t.queue # {}
            BY <1>2, <3>2, Corrected
        <3> HIDE DEF t
        <3>5. subscribed = t
            BY <3>3 DEF t
        <3> QED BY <1>8, <2>2, <3>2, <3>4, <3>5
    <2> QED BY <2>1, <2>2
<1> HIDE DEF subscribed
<1>10. /\ hook' \in [Hooks -> HookStates]
       /\ \A h \in Hooks \ {g} : hook'[h] = hook[h]
       /\ hook'[g].mounted /\ hook'[g].ids = was.ids /\ hook'[g].queue = subscribed.queue
       /\ hook'[g].delivered = subscribed.delivered
       /\ hook'[g].repairPending = subscribed.repairPending
       /\ hook'[g].rendered = shown /\ hook'[g].committed = shown
    <2> DEFINE s == [subscribed EXCEPT !.committed = shown]
    <2> HIDE DEF shown
    <2>1. /\ s \in HookStates /\ s.mounted = subscribed.mounted /\ s.ids = subscribed.ids
          /\ s.queue = subscribed.queue /\ s.delivered = subscribed.delivered
          /\ s.repairPending = subscribed.repairPending /\ s.rendered = subscribed.rendered
          /\ s.committed = shown
        BY <1>8, <1>9 DEF HookStates
    <2>2. hook' = [hook EXCEPT ![g] = s] /\ hook \in [Hooks -> HookStates]
        BY <1>1, <1>2 DEF SubsType
    <2> HIDE DEF s
    <2>3. hook'[g] = s
        BY <2>2
    <2> QED BY <1>8, <1>9, <2>1, <2>2, <2>3
<1>11. worlds' = worlds /\ sent' = sent /\ note' = note /\ guests' \in SUBSET Hooks
    BY <1>1, <1>2 DEF hosts, SubsType
<1>12. SubsType' /\ HostsOK'
    BY <1>1, <1>2, <1>3, <1>6, <1>10, <1>11, HostsStay DEF SubsType, Still, hosts
<1>13. PassOK'
    <2>1. ASSUME NEW h \in Hooks, InDone(h)'
          PROVE  Home(h) = pass'.root /\ hook'[h].rendered = pass'.done[h].shown /\ hook'[h].rendered.live
        <3>1. h # g /\ InDone(h) /\ pass'.done[h] = pass.done[h]
            BY <1>5, <1>6, <1>7, <2>1 DEF InDone
        <3> QED BY <1>2, <1>6, <1>10, <3>1 DEF PassOK
    <2> QED BY <1>6, <1>7, <2>1 DEF PassOK
<1>14. WorldsOK'
    BY <1>2, <1>3, <1>7, <1>11 DEF WorldsOK, NoteWorld, Within, Past, Still
<1>15. ASSUME NEW h \in Hooks, h # g PROVE HookOK(h)'
    <2>1. /\ hook'[h] = hook[h] /\ (InDone(h)' <=> InDone(h)) /\ (h \in guests' <=> h \in guests)
          /\ InDone(h) => pass'.done[h] = pass.done[h]
        BY <1>1, <1>5, <1>6, <1>7, <1>10, <1>15 DEF InDone
    <2>2. MarksOK(h)' /\ KeptOK(h)'
        BY <1>2, <1>7, <2>1 DEF MarksOK, KeptOK
    <2>3. ScreenOK(h)'
        BY <1>2, <1>3, <1>7, <2>1 DEF ScreenOK, Current, Still
    <2>4. LeaksOK(h)'
        BY <1>2, <1>3, <1>7, <1>11, <2>1 DEF LeaksOK, Within, Past, Still
    <2>5. HandedOK(h)'
        BY <1>2, <1>3, <1>7, <2>1 DEF HandedOK, Still
    <2> QED BY <2>2, <2>3, <2>4, <2>5 DEF HookOK
<1>16. HookOK(g)'
    <2>1. /\ MarksOK(g) /\ ScreenOK(g) /\ LeaksOK(g) /\ HandedOK(g)
          /\ ~InDone(g)' /\ ~InTodo(g) /\ Taken(g)' = {} /\ Taken(g) = {}
        BY <1>2, <1>7
    <2>2. /\ MissedBy(g) \subseteq OpenDrafts
          /\ \A d \in MissedBy(g) : d \in sent[Home(g)] \cup worlds[Home(g)]
        <3>1. MissedBy(g) \subseteq OpenDrafts /\ \A d \in MissedBy(g) : Home(g) \in audience[d]
            BY DEF MissedBy, draftsAffecting
        <3> QED BY <1>2, <1>8, <3>1 DEF HostsOK
    <2>3. MarksOK(g)'
        <3>1. CASE was.mounted
            BY <1>8, <1>9, <1>10, <2>1, <3>1 DEF MarksOK
        <3>2. CASE ~was.mounted
            BY <1>8, <1>9, <1>10, <3>2 DEF MarksOK
        <3> QED BY <3>1, <3>2
    <2>4. KeptOK(g)'
        BY <1>10 DEF KeptOK
    <2>5. ScreenOK(g)'
        <3>1. shown.value = Resolutions(Reads(g))[shown.ids] \/ subscribed.queue # {}
            <4>1. CASE was.mounted
                BY <1>7, <1>9, <2>1, <4>1 DEF ScreenOK, Current
            <4>2. CASE ~was.mounted
                <5>1. shown.ids \in SUBSET DraftIds
                    BY <1>8 DEF Trees
                <5>2. Resolutions(Reads(g))[shown.ids] = Resolve(Reads(g), shown.ids)
                    BY <5>1 DEF Resolutions
                <5> HIDE DEF was, shown
                <5> QED BY <1>9, <4>2, <5>2
            <4> QED BY <4>1, <4>2
        <3> HIDE DEF shown
        <3> QED BY <1>3, <1>10, <2>1, <3>1 DEF ScreenOK, Current, Still
    <2>6. LeaksOK(g)'
        <3>1. Within(Home(g), hook[g].ids, worlds[Home(g)])'
            BY <1>3, <1>10, <1>11, <2>1 DEF LeaksOK, Within, Past, Still
        <3>2. Within(Home(g), hook[g].committed.ids, worlds[Home(g)])'
            BY <1>3, <1>8, <1>10, <1>11 DEF Within, Past, Still
        <3>3. ASSUME NEW u \in hook'[g].queue, u.id # REPAIR_WAKE
              PROVE  Within(Home(g), {u.id}, sent[Home(g)] \cup worlds[Home(g)])'
            <4>1. CASE was.mounted
                BY <1>3, <1>9, <1>10, <1>11, <2>1, <3>3, <4>1 DEF LeaksOK, Within, Past, Still
            <4>2. CASE ~was.mounted
                <5>1. u.id \in MissedBy(g)
                    BY <1>9, <1>10, <3>3, <4>2
                <5> QED BY <1>11, <2>2, <5>1 DEF Within
            <4> QED BY <4>1, <4>2
        <3> QED BY <1>7, <2>1, <3>1, <3>2, <3>3 DEF LeaksOK
    <2>7. HandedOK(g)'
        <3>1. CASE was.mounted
            <4>1. guests' = guests /\ hook'[g].queue = hook[g].queue
                BY <1>1, <1>9, <1>10, <3>1
            <4> QED BY <1>3, <1>10, <2>1, <3>1, <4>1 DEF HandedOK, Still
        <3>2. CASE ~was.mounted
            <4> SUFFICES ASSUME g \notin guests', NEW d \in OpenDrafts, Reads(g) \in WrittenBy(d),
                                Home(g) \in audience[d]
                         PROVE  d \in hook'[g].ids \/ Update(d, d) \in hook'[g].queue
                BY <1>3, <1>10, <2>1 DEF HandedOK, Still
            <4>1. shown.ids = was.ids
                BY <1>1, <3>2
            <4>2. CASE d \in shown.ids
                BY <1>10, <4>1, <4>2
            <4>3. CASE d \notin shown.ids
                <5>1. d \in MissedBy(g)
                    BY <1>2, <1>8, <4>3 DEF MissedBy, draftsAffecting, HostsOK, hosted
                <5> QED BY <1>9, <1>10, <3>2, <5>1
            <4> QED BY <4>2, <4>3
        <3> QED BY <3>1, <3>2
    <2> QED BY <2>3, <2>4, <2>5, <2>6, <2>7 DEF HookOK
<1>17. RepairIsNews
    <2>1. \A h \in Hooks : hook'[h].repairPending => hook[h].repairPending
        BY <1>9, <1>10
    <2> QED BY <2>1, NoRepairs
<1> QED BY <1>3, <1>12, <1>13, <1>14, <1>15, <1>16, <1>17 DEF Stepped, SubsInv, HookOK, Still
-----------------------------------------------------------------------------
(***************************************************************************)
(* The theorems                                                            *)
(***************************************************************************)
\* The invariant holds when the program starts.
LEMMA AllInit == InitAll => AllInv
<1> SUFFICES ASSUME InitAll PROVE AllInv
    OBVIOUS
<1>1. StoreInv
    BY StoreInit DEF InitAll
<1>2. /\ ~Rendering /\ ~Ending /\ pass.stage = "none"
      /\ \A h \in Hooks : ~InDone(h) /\ ~InTodo(h) /\ Taken(h) = {}
    BY DEF InitAll, NoPass, Rendering, Ending, InDone, InTodo, Taken
<1>3. \A h \in Hooks : hook[h] = Absent
    BY DEF InitAll
<1>4. SubsType
    BY AbsentOK, RootsAssumption DEF InitAll, SubsType
<1>5. HostsOK
    BY DEF InitAll, Init, HostsOK, OpenDrafts
<1>6. PassOK /\ WorldsOK
    BY <1>2 DEF InitAll, PassOK, WorldsOK
<1>7. \A h \in Hooks : MarksOK(h) /\ KeptOK(h) /\ ScreenOK(h) /\ LeaksOK(h) /\ HandedOK(h)
    BY <1>2, <1>3, AbsentOK DEF MarksOK, KeptOK, ScreenOK, LeaksOK, HandedOK, Within
<1> QED BY <1>1, <1>4, <1>5, <1>6, <1>7 DEF AllInv, SubsInv

\* Every step keeps it, and its repairs are news.
LEMMA AllStep ==
    ASSUME UpdatersReturn, IdentityEquality, AllInv, NextAll
    PROVE  Stepped
<1>1. ASSUME NEW d \in DraftIds, broadcastDraft(d) PROVE Stepped
    BY <1>1, BroadcastHeard, HeardSteps
<1>2. ASSUME NEW d \in DraftIds, NEW a \in Atoms, NEW op \in Ops, Drafted(d, a, op) PROVE Stepped
    BY <1>2, DraftedHeard, HeardSteps
<1>3. ASSUME NEW a \in Atoms, NEW op \in Ops, Written(a, op) PROVE Stepped
    BY <1>3, WrittenHeard, HeardSteps
<1>4. CASE Released
    BY <1>4, ReleasedHeard, HeardSteps
<1>5. CASE yield \/ confirmed \/ \E r \in Roots : registerRootConnection(r)
    BY <1>5, QuietHeard, HeardSteps
<1>12. ASSUME NEW h \in Hooks, NEW lane \in RefreshLanes, refresh(h, lane) PROVE Stepped
    BY <1>12, RefreshHeard, HeardSteps
<1>6. ASSUME NEW r \in Roots, NEW M \in SUBSET Hooks, urgentPass(r, M) PROVE Stepped
    <2>1. Ready({UrgentLane}) /\ M \subseteq Mountable(r) /\ Begin(r, {UrgentLane}, M, TRUE)
        BY <1>6, UrgentReady DEF AllInv, SubsInv
    <2> QED BY <2>1, BeginSteps
<1>7. ASSUME NEW r \in Roots, NEW M \in SUBSET Hooks, transitionPass(r, M) PROVE Stepped
    <2>1. Ready(DraftIds) /\ M \subseteq Mountable(r) /\ Begin(r, DraftIds, M, FALSE)
        BY <1>7, TransitionReady
    <2> QED BY <2>1, BeginSteps
<1>8. CASE rerender \/ commit \/ laidOut
    BY <1>8, RerenderSteps, CommitSteps, LaidOutSteps
<1>9. CASE pokeCommitted
    BY <1>9, PokeHeard, HeardSteps
<1>10. CASE confirm
    BY <1>10, ConfirmHeard, HeardSteps
<1>11. ASSUME NEW h \in Hooks, renderHook(h) \/ layout(h) \/ unmount(h) PROVE Stepped
    BY <1>11, RenderSteps, LayoutSteps, UnmountSteps
<1> QED
    BY <1>1, <1>2, <1>3, <1>4, <1>5, <1>6, <1>7, <1>8, <1>9, <1>10, <1>11,
       <1>12 DEF NextAll

\* A step that changes nothing keeps it too.
LEMMA AllStutter ==
    ASSUME AllInv, UNCHANGED allVars
    PROVE  Stepped
<1>1. /\ UNCHANGED <<draftState, written, log, base, releasing, leaked, told>>
      /\ UNCHANGED <<rootConnections, recipients, audience, worlds, sent>>
      /\ UNCHANGED <<hook, guests, pass, note>>
    BY DEF allVars, vars, hosts
<1>2. StoreInv /\ SubsInv
    BY DEF AllInv
<1>3. told' \in SUBSET Notices
    BY <1>1, <1>2 DEF StoreInv, HistoryInv, TypeOK
<1>4. StoreInv' /\ ValuesKept
    BY <1>1, <1>2, <1>3, StoreQuiet
<1>5. /\ OpenDrafts' = OpenDrafts /\ \A d : WrittenBy(d)' = WrittenBy(d) /\ (Ended(d)' <=> Ended(d))
      /\ \A h \in Hooks : Resolutions(Reads(h))' = Resolutions(Reads(h))
    BY <1>1, <1>4, RootsAssumption DEF OpenDrafts, WrittenBy, Ended, ValuesKept
<1>6. SubsType' /\ HostsOK'
    BY <1>1, <1>2, HostsStay DEF SubsInv, SubsType
<1>7. /\ (Rendering' <=> Rendering) /\ (Ending' <=> Ending)
      /\ \A h \in Hooks : (InDone(h)' <=> InDone(h)) /\ (InTodo(h)' <=> InTodo(h)) /\ Taken(h)' = Taken(h)
      /\ \A r : NoteWorld(r)' = NoteWorld(r)
    BY <1>1 DEF Rendering, Ending, InDone, InTodo, Taken, NoteWorld
<1>8. PassOK'
    BY <1>1, <1>2, <1>5, <1>7 DEF SubsInv, PassOK, Mounted
<1>9. WorldsOK'
    BY <1>1, <1>2, <1>5, <1>7 DEF SubsInv, WorldsOK, Within, Past
<1>10. ASSUME NEW h \in Hooks PROVE HookOK(h)'
    <2>1. MarksOK(h) /\ KeptOK(h) /\ ScreenOK(h) /\ LeaksOK(h) /\ HandedOK(h)
        BY <1>2 DEF SubsInv
    <2>2. MarksOK(h)' /\ KeptOK(h)'
        BY <1>1, <1>7, <2>1 DEF MarksOK, KeptOK
    <2>3. ScreenOK(h)' /\ HandedOK(h)'
        BY <1>1, <1>5, <1>7, <2>1 DEF ScreenOK, Current, HandedOK
    <2>4. LeaksOK(h)'
        BY <1>1, <1>5, <1>7, <2>1 DEF LeaksOK, Within, Past
    <2> QED BY <2>2, <2>3, <2>4 DEF HookOK
<1>11. RepairIsNews
    BY <1>1, NoRepairs
<1> QED BY <1>4, <1>6, <1>8, <1>9, <1>10, <1>11 DEF Stepped, SubsInv, HookOK

\* It holds in every reachable state.
LEMMA AllInvariant ==
    ASSUME UpdatersReturn, IdentityEquality
    PROVE  SpecAll => []AllInv
<1>1. AllInv /\ [NextAll]_allVars => AllInv'
    BY AllStep, AllStutter DEF Stepped, AllInv
<1> QED BY AllInit, <1>1, PTL DEF SpecAll

\* No order of writes, renders, dropped passes, retirements and subscriptions
\* leaves a component behind: it shows what its signal is in the world it was
\* committed in, or an update is on its way to it.
THEOREM NoStaleScreen ==
    ASSUME UpdatersReturn, IdentityEquality
    PROVE  SpecAll => []ScreenIsCurrent
<1>1. AllInv => ScreenIsCurrent
    <2> SUFFICES ASSUME AllInv, Between, NEW h \in Mounted
                 PROVE  \/ hook[h].committed.value = Resolve(Reads(h), hook[h].committed.ids)
                        \/ OnItsWay(h)
        BY DEF ScreenIsCurrent
    <2>1. h \in Hooks /\ hook[h].mounted /\ ScreenOK(h) /\ SubsType
        BY DEF Mounted, AllInv, SubsInv
    <2>2. ~Ending /\ (Taken(h) # {} => OnItsWay(h))
        BY DEF Between, Ending, Taken, Rendering, OnItsWay, NoPass
    <2>3. Current(h, hook[h].committed) \/ OnItsWay(h)
        BY <2>1, <2>2 DEF ScreenOK, OnItsWay
    <2>4. hook[h].committed.ids \in SUBSET DraftIds
        BY <2>1 DEF SubsType, HookStates, Trees
    <2> QED BY <2>3, <2>4 DEF Current, Resolutions
<1> QED BY AllInvariant, <1>1, PTL

\* A component shows a draft that was sent to its root only once that root has
\* committed it.
THEOREM DraftsStayInTheirRoots ==
    ASSUME UpdatersReturn, IdentityEquality
    PROVE  SpecAll => []NoDraftLeaks
<1>1. AllInv => NoDraftLeaks
    <2> SUFFICES ASSUME AllInv, NEW h \in Mounted, NEW d \in hook[h].committed.ids, isLiveDraft(d),
                        Home(h) \in audience[d]
                 PROVE  d \in worlds[Home(h)]
        BY DEF NoDraftLeaks
    <2>1. LeaksOK(h) /\ hook[h].mounted
        BY DEF Mounted, AllInv, SubsInv
    <2>2. ~Past(Home(h), d)
        BY DEF isLiveDraft, IsOpen, Ended, Past
    <2> QED BY <2>1, <2>2 DEF LeaksOK, Within
<1> QED BY AllInvariant, <1>1, PTL

\* Two readers that hold the same of the open drafts that wrote an atom see the
\* same there.
LEMMA SameWriters ==
    ASSUME UpdatersReturn, IdentityEquality, StoreInv, NEW a \in Atoms,
           NEW V \in SUBSET DraftIds, NEW W \in SUBSET DraftIds,
           \A d \in OpenDrafts : a \in WrittenBy(d) => (d \in V <=> d \in W)
    PROVE  Resolve(a, V) = Resolve(a, W)
<1> DEFINE l == openLog(a)
           D == Applied(worldOf(V))
           E == Applied(worldOf(W))
<1>1. HistoryInv /\ TypeOK /\ l \in Logs
    BY NoLogReplay DEF StoreInv, HistoryInv
<1>2. ASSUME NEW i \in 1..Len(l.intents)
      PROVE  l.intents[i].draft \in D <=> l.intents[i].draft \in E
    <2> DEFINE e == l.intents[i].draft
    <2>1. e \in {Urgent} \cup DraftIds /\ (e # Urgent => a \in WrittenBy(e))
        BY <1>1, IntentDrafts
    <2> HIDE DEF e
    <2>2. e \in D <=> e \in E
        BY <2>1 DEF Applied, worldOf, OpenDrafts
    <2> QED BY <2>2 DEF e
<1>3. Len(l.intents) \in 0..Len(l.intents)
    BY <1>1 DEF Logs
<1>4. replay(l, D) = replay(l, E)
    <2> HIDE DEF l, D, E
    <2> QED BY <1>1, <1>2, <1>3, ReplayAgree DEF replay
<1>5. Rp(a, V) = Rp(a, W)
    BY <1>4 DEF Rp
<1> QED BY <1>5, ResolveMeans DEF ResolvesReplay

\* Once a root has committed a draft that it was sent and that is still open,
\* every component of it that has subscribed for itself and shows what it was
\* handed shows the draft, or is about to.
THEOREM NoTornCommit ==
    ASSUME UpdatersReturn, IdentityEquality
    PROVE  SpecAll => []CommitsTogether
<1>1. AllInv => CommitsTogether
    <2> SUFFICES ASSUME AllInv, Between, NEW h \in Mounted, h \notin guests, SentHome(h),
                        Handed(h) \subseteq hook[h].committed.ids, ~OnItsWay(h)
                 PROVE  hook[h].committed.value = Resolve(Reads(h), worlds[Home(h)])
        BY DEF CommitsTogether, ShowsCommitted
    <2>1. /\ h \in Hooks /\ hook[h].mounted /\ StoreInv /\ SubsType
          /\ ScreenOK(h) /\ LeaksOK(h) /\ HandedOK(h)
        BY DEF Mounted, AllInv, SubsInv
    <2>2. ~Ending /\ hook[h].queue = {} /\ Taken(h) = {}
        BY DEF Between, Ending, Taken, Rendering, OnItsWay, NoPass
    <2> DEFINE shown == hook[h].committed
    <2>3. /\ shown.ids \in SUBSET DraftIds /\ worlds[Home(h)] \in SUBSET DraftIds
          /\ Reads(h) \in Atoms
        BY <2>1, RootsAssumption DEF SubsType, HookStates, Trees
    <2>4. shown.value = Resolve(Reads(h), shown.ids)
        BY <2>1, <2>2, <2>3 DEF ScreenOK, Current, Resolutions
    <2>5. ASSUME NEW d \in OpenDrafts, Reads(h) \in WrittenBy(d)
          PROVE  d \in shown.ids <=> d \in worlds[Home(h)]
        <3>0. Home(h) \in audience[d]
            BY <2>5 DEF SentHome, draftsAffecting
        <3>1. isLiveDraft(d) /\ ~Past(Home(h), d)
            BY <3>0 DEF OpenDrafts, isLiveDraft, IsOpen, Ended, Past
        <3>2. d \in hook[h].ids
            BY <2>1, <2>2, <2>5, <3>0 DEF HandedOK
        <3>3. d \in shown.ids
            BY <3>1, <3>2 DEF Handed
        <3>4. d \in worlds[Home(h)]
            BY <2>1, <3>1, <3>3 DEF LeaksOK, Within
        <3> QED BY <3>3, <3>4
    <2>6. Resolve(Reads(h), shown.ids) = Resolve(Reads(h), worlds[Home(h)])
        <3> HIDE DEF shown
        <3> QED BY <2>1, <2>3, <2>5, SameWriters
    <2> QED BY <2>4, <2>6
<1> QED BY AllInvariant, <1>1, PTL

\* A repair is queued only where the component shows something else than it
\* would, once the commit under way is complete.
THEOREM NoIdleRepair ==
    ASSUME UpdatersReturn, IdentityEquality
    PROVE  SpecAll => RepairsAreNews
<1>1. AllInv /\ [NextAll]_allVars => [RepairIsNews]_allVars
    BY AllStep DEF Stepped
<1>2. SpecAll => [][RepairIsNews]_allVars
    BY AllInvariant, <1>1, PTL DEF SpecAll
<1>3. RepairIsNews <=>
        \A h \in Mounted :
          LET shows == IF pass.stage \in {"poke", "confirm"} /\ h \in DOMAIN pass.done
                       THEN pass.done[h].shown ELSE hook[h].committed
          IN  hook'[h].repairPending /\ ~hook[h].repairPending =>
                  shows.value # Resolutions(Reads(h))'[shows.ids]
    BY DEF RepairIsNews
<1> QED BY <1>2, <1>3, PTL DEF RepairsAreNews

-----------------------------------------------------------------------------
(***************************************************************************)
(* The clock.  Between two of its ticks nothing a memo rests on moves;     *)
(* what ends a suspension ticks it too, unless a settlement is under way,  *)
(* and that had ticked it.                                                 *)
(***************************************************************************)
\* A memo has the fields of one.
Memo(m) == m = [outcome |-> m.outcome, validAt |-> m.validAt,
                nodeChangedAt |-> m.nodeChangedAt, certificate |-> m.certificate]

MemosStamped ==
    /\ memos = [k \in Keys |-> memos[k]]
    /\ \A k \in Keys : memos[k] # None =>
          Memo(memos[k]) /\ memos[k].validAt \in Nat /\ memos[k].validAt <= clock

\* No memo of this reading of the clock is of a resolved suspension, and while
\* suspensions are still to be resolved there is no such memo at all.
StampedUnspent ==
    \A k \in Keys : memos[k] # None /\ memos[k].validAt = clock =>
        /\ ~settling
        /\ memos[k].outcome.kind = "suspended" => k \notin spent

\* A write that is walking has not met a settlement.
WalksAlone == walk # <<>> => ~settling /\ due = {}

SpentInv ==
    /\ TypeOK /\ clock \in Nat /\ parkedNodes \subseteq Computeds
    /\ MemosStamped /\ StampedUnspent
    /\ WalksAlone

\* The clock is a natural and never goes back.
LEMMA TicksOn ==
    ASSUME clock \in Nat, NEW n \in Nat, Ticks(n)
    PROVE  clock' \in Nat /\ clock' >= clock /\ (n > 0 => clock' > clock)
BY DEF Ticks

\* Over a tick the memos there are become memos of an earlier reading.
LEMMA TickedStamps ==
    ASSUME clock \in Nat, MemosStamped, clock' \in Nat, clock' >= clock, memos' = memos
    PROVE  /\ MemosStamped'
           /\ clock' > clock => StampedUnspent'
           /\ clock' = clock /\ StampedUnspent /\ UNCHANGED <<spent, settling>> =>
                 StampedUnspent'
<1>1. \A k \in Keys : memos[k] # None => memos[k].validAt <= clock' /\ memos[k].validAt \in Nat
    BY DEF MemosStamped
<1>2. MemosStamped'
    BY <1>1 DEF MemosStamped
<1>3. ASSUME clock' > clock PROVE StampedUnspent'
    <2>1. \A k \in Keys : memos[k] # None => memos[k].validAt # clock'
        BY <1>3 DEF MemosStamped
    <2> QED BY <2>1 DEF StampedUnspent
<1> QED BY <1>2, <1>3 DEF StampedUnspent

\* Steps of the drafts that come with a tick keep every part of the invariant.
LEMMA TickKeepsUnspent ==
    ASSUME SpentInv, TypeOK', clock' \in Nat, clock' > clock \/ clock' = clock,
           memos' = memos, UNCHANGED asyncs, Idle
    PROVE  SpentInv'
<1>1. clock' >= clock /\ UNCHANGED <<spent, settling, due, parkedNodes>> /\ ~settling /\ due = {}
    BY DEF SpentInv, asyncs, Idle
<1>2. MemosStamped' /\ StampedUnspent'
    BY <1>1, TickedStamps DEF SpentInv
<1> QED BY <1>1, <1>2 DEF SpentInv, WalksAlone

\* A list has finitely many members.
LEMMA MembersAreFew ==
    ASSUME NEW T, NEW s \in Seq(T)
    PROVE  IsFiniteSet(Members(s))
<1> DEFINE f == [i \in DOMAIN s |-> s[i]]
<1>1. Len(s) \in Nat /\ DOMAIN s = 1..Len(s)
    OBVIOUS
<1>2. IsFiniteSet(DOMAIN s)
    BY <1>1, FS_Interval
<1>3. f \in Surjection(DOMAIN s, Members(s))
    BY DEF Surjection, Members
<1> QED BY <1>2, <1>3, FS_Surjection

\* The atoms a retirement moves are among those its draft wrote.
LEMMA MovedAreFew ==
    ASSUME TypeOK, NEW d \in DraftIds, retireDraft(d)
    PROVE  /\ {a \in Atoms : base'[a] # base[a]} \subseteq WrittenBy(d)
           /\ IsFiniteSet(WrittenBy(d))
           /\ Cardinality({a \in Atoms : base'[a] # base[a]}) \in Nat
<1> DEFINE folded(b) == replayLog(b, {d})
           bad == {b \in WrittenBy(d) : folded(b) = Thrown}
           done == DoneBefore(written[d], bad)
           moved == {b \in done : ~Same(base[b], folded(b))}
<1>1. base' = [b \in Atoms |-> IF b \in moved THEN folded(b) ELSE base[b]]
    BY DEF retireDraft
<1>2. done \subseteq WrittenBy(d)
    BY DoneIsWritten DEF TypeOK
<1>3. {a \in Atoms : base'[a] # base[a]} \subseteq WrittenBy(d)
    <2> HIDE DEF folded, done
    <2> QED BY <1>1, <1>2
<1>4. written[d] \in Seq(Atoms) /\ WrittenBy(d) = Members(written[d])
    BY DEF TypeOK, WrittenBy, Members
<1> QED BY <1>3, <1>4, MembersAreFew, FS_Subset, FS_CardinalityType

\* A read in a world leaves memos of this reading of the clock, and none of
\* them offers what was resolved.
LEMMA ReadKeepsUnspent ==
    ASSUME SpentInv, ~settling, NEW n, NEW W, resolveState(n, W),
           UNCHANGED <<clock, settling>>
    PROVE  MemosStamped' /\ StampedUnspent'
<1> DEFINE resolved == Resolved(W, Trusted(W))
           visited == Visited(n, resolved)
           certificate == inheritCertificate(resolved, Trusted(W), W)
           waiting == {m \in visited \ Trusted(W) : resolved[m].outcome.kind = "suspended"}
           kept == {m \in waiting : /\ memos[<<m, W>>] # None
                                    /\ memos[<<m, W>>].outcome.kind = "suspended"
                                    /\ <<m, W>> \notin spent}
           fresh == {<<m, W>> : m \in waiting \ kept}
           new(k) == [outcome |-> resolved[k[1]].outcome, validAt |-> clock,
                      nodeChangedAt |-> changedAt[k[1]], certificate |-> certificate[k[1]]]
<1>1. /\ memos' = [k \in Keys |->
                     IF k[2] # W \/ k[1] \notin visited THEN memos[k]
                     ELSE IF k[1] \in Trusted(W) THEN [memos[k] EXCEPT !.validAt = clock]
                     ELSE new(k)]
      /\ spent' = spent \ fresh
    BY DEF resolveState
<1>2. clock \in Nat /\ clock' = clock /\ settling' = FALSE /\ MemosStamped /\ StampedUnspent
    BY DEF SpentInv
<1> HIDE DEF resolved, visited, certificate
<1>3. ASSUME NEW k \in Keys, memos'[k] # None
      PROVE  /\ Memo(memos'[k]) /\ memos'[k].validAt \in Nat /\ memos'[k].validAt <= clock
             /\ memos'[k].validAt = clock /\ memos'[k].outcome.kind = "suspended" => k \notin spent'
    <2>1. CASE k[2] # W \/ k[1] \notin visited
        <3>1. memos'[k] = memos[k]
            BY <1>1, <2>1
        <3> QED BY <1>1, <1>2, <1>3, <3>1 DEF MemosStamped, StampedUnspent
    <2>2. CASE k[2] = W /\ k[1] \in visited /\ k[1] \in Trusted(W)
        <3>1. memos'[k] = [memos[k] EXCEPT !.validAt = clock] /\ k = <<k[1], W>>
            BY <1>1, <2>2 DEF Keys
        <3>2. memoValid(k[1], W)
            BY <2>2 DEF Trusted
        <3>3. memos[k] # None /\ (memos[k].validAt = clock \/ stillPending(k))
            BY <3>1, <3>2 DEF memoValid
        <3>4. Memo(memos[k])
            BY <1>2, <3>3 DEF MemosStamped
        <3>5. /\ memos'[k].outcome = memos[k].outcome /\ memos'[k].validAt = clock
              /\ Memo(memos'[k])
            BY <3>1, <3>4 DEF Memo
        <3>6. memos[k].outcome.kind = "suspended" => k \notin spent
            BY <1>2, <3>3 DEF stillPending, StampedUnspent
        <3> QED BY <1>1, <1>2, <3>5, <3>6
    <2>3. CASE k[2] = W /\ k[1] \in visited /\ k[1] \notin Trusted(W)
        <3>1. memos'[k] = new(k) /\ k = <<k[1], W>>
            BY <1>1, <2>3 DEF Keys
        <3>2. memos'[k].outcome.kind = "suspended" => k[1] \in waiting
            BY <2>3, <3>1
        <3>3. k[1] \in waiting => k \notin spent \/ k \in fresh
            BY <3>1
        <3> QED BY <1>1, <1>2, <3>1, <3>2, <3>3 DEF Memo
    <2> QED BY <2>1, <2>2, <2>3
<1>4. memos' = [k \in Keys |-> memos'[k]]
    BY <1>1
<1> QED BY <1>2, <1>3, <1>4 DEF MemosStamped, StampedUnspent

\* The drafts of a memory of worlds do what Drafts says; the rest leaves them
\* alone.
DraftsAlone == UNCHANGED <<draftState, written, log, base, releasing, leaked>> /\ told' = {}
LEMMA DraftSteps ==
    ASSUME NextMemos
    PROVE  [Next]_vars \/ DraftsAlone
<1>1. LeavesDrafts => DraftsAlone
    BY DEF LeavesDrafts, DraftsAlone
<1>2. Compare => UNCHANGED vars
    BY DEF Compare
<1> QED BY <1>1, <1>2 DEF NextMemos, Next, Open, Retire, Discard, Append_, Urgent_, Release,
           Read, ReadBase, Settle, SettleDone, Tell

\* The drafts keep their types.
LEMMA DraftTypes ==
    ASSUME TypeOK, NextMemos
    PROVE  TypeOK'
<1>1. CASE [Next]_vars
    BY <1>1, TypeStep
<1>2. CASE DraftsAlone
    BY <1>2 DEF DraftsAlone, TypeOK
<1> QED BY <1>1, <1>2, DraftSteps

\* The steps of the drafts.
LEMMA DraftingKeepsUnspent ==
    ASSUME SpentInv, TypeOK',
           \/ \E d \in DraftIds : Open(d) \/ Retire(d) \/ Discard(d)
           \/ \E a \in Atoms, op \in Ops : Urgent_(a, op)
    PROVE  SpentInv'
<1>1. clock \in Nat /\ TypeOK
    BY DEF SpentInv
<1>2. ASSUME NEW d \in DraftIds, Open(d) \/ Discard(d) PROVE SpentInv'
    BY <1>1, <1>2, TicksOn, TickKeepsUnspent DEF Open, Discard, NoWalk
<1>3. ASSUME NEW d \in DraftIds, Retire(d) PROVE SpentInv'
    <2>1. 1 + Cardinality({a \in Atoms : base'[a] # base[a]}) \in Nat
        BY <1>1, <1>3, MovedAreFew DEF Retire
    <2>2. clock' \in Nat /\ clock' >= clock
        BY <1>1, <1>3, <2>1, TicksOn DEF Retire
    <2> QED BY <1>1, <1>3, <2>2, TickKeepsUnspent DEF Retire, NoWalk
<1>4. ASSUME NEW a \in Atoms, NEW op \in Ops, Urgent_(a, op) PROVE SpentInv'
    <2>1. \E n \in Nat : Ticks(n)
        <3> DEFINE logged == IF log[a] # NoLog THEN 1 ELSE 0
                   changed == IF Same(base[a], op[base[a]]) THEN 0 ELSE 1
        <3>1. Ticks(logged + changed)
            BY <1>4 DEF Urgent_
        <3> QED BY <3>1
    <2>2. clock' \in Nat /\ clock' >= clock
        BY <1>1, <2>1, TicksOn
    <2> QED BY <1>1, <1>4, <2>2, TickKeepsUnspent DEF Urgent_, NoWalk
<1> QED BY <1>2, <1>3, <1>4

\* The drafted write, whose poke then walks.
LEMMA WritingKeepsUnspent ==
    ASSUME SpentInv, TypeOK', NEW d \in DraftIds, NEW a \in Atoms, NEW op \in Ops,
           Append_(d, a, op)
    PROVE  SpentInv'
<1>1. clock \in Nat
    BY DEF SpentInv
<1> QED BY <1>1, TicksOn, TickKeepsUnspent DEF Append_

\* A release takes memos away and adds none.
LEMMA ReleasingKeepsUnspent ==
    ASSUME SpentInv, TypeOK', Release
    PROVE  SpentInv'
<1>1. /\ memos' = [k \in Keys |-> IF OpenDrafts # {} THEN memos[k] ELSE None]
      /\ spent' \subseteq spent /\ walk' = <<>>
      /\ UNCHANGED <<clock, parkedNodes, due, settling>>
    BY DEF Release, NoWalk
<1>2. \A k \in Keys : memos'[k] # None => memos'[k] = memos[k] /\ memos[k] # None
    BY <1>1
<1> QED BY <1>1, <1>2 DEF SpentInv, MemosStamped, StampedUnspent, WalksAlone

\* The reads, and the comparison of a walking write.
LEMMA ReadingKeepsUnspent ==
    ASSUME SpentInv, TypeOK', HandlersResolve = FALSE,
           \/ Compare
           \/ \E n \in Watched, W \in Worlds : Read(n, W)
    PROVE  SpentInv'
<1>1. ~settling /\ UNCHANGED <<clock, settling, due, parkedNodes>> /\ (walk' # <<>> => due = {})
    BY DEF SpentInv, WalksAlone, Compare, Read, Idle, NoWalk
<1>2. \E n, W : resolveState(n, W)
    BY DEF Compare, Read
<1>3. MemosStamped' /\ StampedUnspent'
    BY <1>1, <1>2, ReadKeepsUnspent
<1> QED BY <1>1, <1>3 DEF SpentInv, WalksAlone

\* A pull in base touches no memo.
LEMMA PullingKeepsUnspent ==
    ASSUME SpentInv, TypeOK', NEW c \in Computeds, ReadBase(c)
    PROVE  SpentInv'
<1>1. UNCHANGED <<clock, memos, spent, due, settling, walk>>
    BY DEF ReadBase, walking
<1>2. parkedNodes' \subseteq Computeds
    BY DEF SpentInv, ReadBase, pull, Moved
<1> QED BY <1>1, <1>2 DEF SpentInv, MemosStamped, StampedUnspent, WalksAlone

\* The settlement ticks before it resolves anything, and so does a microtask.
LEMMA SettlingKeepsUnspent ==
    ASSUME SpentInv, TypeOK', Settle \/ SettleDone \/ \E k \in Keys : Tell(k)
    PROVE  SpentInv'
<1>1. clock \in Nat /\ MemosStamped /\ parkedNodes \subseteq Computeds
    BY DEF SpentInv
<1>2. CASE Settle
    <2>1. IsFiniteSet(parkedNodes)
        BY <1>1, NodesAssumption, MembersAreFew, FS_Subset DEF Computeds
    <2>2. Cardinality(parkedNodes) \in Nat
        BY <2>1, FS_CardinalityType
    <2>3. clock' = clock + 1 + Cardinality(parkedNodes) /\ parkedNodes' = {} /\ memos' = memos
          /\ walk' = <<>>
        BY <1>2 DEF Settle, NoWalk
    <2> QED BY <1>1, <2>2, <2>3, TickedStamps DEF SpentInv, WalksAlone
<1>3. CASE SettleDone
    <2>1. \A k \in Keys : memos[k] # None => memos[k].validAt # clock
        BY <1>3 DEF SettleDone, SpentInv, StampedUnspent
    <2>2. UNCHANGED <<clock, memos, parkedNodes>> /\ walk' = <<>>
        BY <1>3 DEF SettleDone, NoWalk
    <2> QED BY <1>1, <2>1, <2>2 DEF SpentInv, MemosStamped, StampedUnspent, WalksAlone
<1>4. ASSUME NEW k \in Keys, Tell(k) PROVE SpentInv'
    <2>1. clock' = clock + 1 /\ UNCHANGED <<memos, parkedNodes>> /\ walk' = <<>>
        BY <1>4 DEF Tell, NoWalk
    <2> QED BY <1>1, <2>1, TickedStamps DEF SpentInv, WalksAlone
<1> QED BY <1>2, <1>3, <1>4

\* Every step keeps the invariant, and it holds at first.
LEMMA SpentStep ==
    ASSUME HandlersResolve = FALSE
    PROVE  SpentInv /\ [NextMemos]_memoVars => SpentInv'
<1> SUFFICES ASSUME SpentInv, [NextMemos]_memoVars PROVE SpentInv'
    OBVIOUS
<1>1. CASE UNCHANGED memoVars
    BY <1>1 DEF SpentInv, TypeOK, MemosStamped, StampedUnspent, WalksAlone, memoVars, vars,
        asyncs, walking
<1>2. CASE NextMemos
    <2>1. TypeOK'
        BY <1>2, DraftTypes DEF SpentInv
    <2> QED BY <1>2, <2>1, DraftingKeepsUnspent, WritingKeepsUnspent, ReleasingKeepsUnspent,
               ReadingKeepsUnspent, PullingKeepsUnspent, SettlingKeepsUnspent DEF NextMemos
<1> QED BY <1>1, <1>2

LEMMA SpentInit == InitMemos => SpentInv
<1> SUFFICES ASSUME InitMemos PROVE SpentInv
    OBVIOUS
<1>1. TypeOK
    BY TypeInit DEF InitMemos
<1> QED BY <1>1 DEF InitMemos, SpentInv, MemosStamped, StampedUnspent, WalksAlone

\* No memo serves a suspended state whose suspension was resolved, however
\* reads, writes, settlements and the microtasks behind them interleave, as
\* long as what a settlement notifies does not resolve worlds before it has
\* resolved its suspensions.
THEOREM ResolvedIsNotServed ==
    ASSUME HandlersResolve = FALSE
    PROVE  SpecMemos => []NeverServesSpent
<1>1. ASSUME SpentInv, Idle, NEW W \in (SUBSET OpenDrafts) \ {{}}, NEW n \in Trusted(W),
             memos[<<n, W>>].outcome.kind = "suspended"
      PROVE  <<n, W>> \notin spent
    <2>1. n \in Producers /\ memoValid(n, W)
        BY <1>1 DEF Trusted
    <2>2. <<n, W>> \in Keys
        BY <1>1, <2>1 DEF Keys, Worlds, OpenDrafts
    <2> QED BY <1>1, <2>1, <2>2 DEF memoValid, stillPending, SpentInv, StampedUnspent
<1>2. SpentInv => NeverServesSpent
    BY <1>1 DEF NeverServesSpent
<1> QED BY <1>2, SpentInit, SpentStep, PTL DEF SpecMemos

-----------------------------------------------------------------------------
(***************************************************************************)
(* Evaluation.  What the theorems ask of the program: its bodies read      *)
(* sources, await the promise or are done, with values; and they end, in   *)
(* that from every point of an evaluation only so much can still follow.   *)
(***************************************************************************)
Asks == [op : {"done"}, of : Values] \cup [op : {"read"}, of : Producers]
            \cup [op : {"use"}, of : {Awaited}]
BodiesAreWellTyped == \A s \in Shapes : \A p \in Points : Body(s, p[1], p[2]) \in Asks

\* The point after p once it read v.
After(p, v) == <<p[1], Append(p[2], v)>>
Start(n) == <<n, <<>>>>

\* rank bounds what follows each point of an evaluation in program s.
Falls(s, rank) ==
    \A p \in Points : LET i == Body(s, p[1], p[2]) IN
        i.op # "done" =>
            /\ \A v \in Values : rank[After(p, v)] < rank[p]
            /\ i.of \in Computeds => rank[Start(i.of)] < rank[p]
BodiesEnd(rank, most) ==
    /\ most \in [Shapes -> Nat]
    /\ \A s \in Shapes : rank[s] \in [Points -> 0..most[s]] /\ Falls(s, rank[s])

\* What happens at point p, when outs has the outcomes of the sources and f
\* what comes of the points after p.
Ran == [outcome : Outcomes, reads : SUBSET Producers]
ReadBy(i) == IF i.op = "read" THEN {i.of} ELSE {}
RunAt(s, outs, f, p) ==
    LET i == Body(s, p[1], p[2])
        got == outs[i.of]
        rest == f[After(p, got.of)]
    IN IF i.op = "done" THEN [outcome |-> Settled(i.of), reads |-> {}]
       ELSE IF got.kind = "suspended" THEN [outcome |-> Pending(i.of), reads |-> ReadBy(i)]
       ELSE [rest EXCEPT !.reads = @ \cup ReadBy(i)]

\* f is the evaluation of program s where the sources have the outcomes outs.
Evaluates(s, outs, f) ==
    /\ outs \in [Producers \cup {Awaited} -> Outcomes]
    /\ f \in [Points -> Ran]
    /\ \A p \in Points : f[p] = RunAt(s, outs, f, p)

\* The outcomes when those of K are known and the others are evaluated.
Outs(K, known, f) ==
    [n \in Producers \cup {Awaited} |-> IF n \in K THEN known[n] ELSE f[Start(n)].outcome]

\* What holds of a point because it holds of all that follow it holds of all.
LEMMA RankInduction ==
    ASSUME NEW N \in Nat, NEW rank \in [Points -> 0..N], NEW G,
           \A p \in Points : (\A q \in Points : rank[q] < rank[p] => q \in G) => p \in G
    PROVE  Points \subseteq G
<1> DEFINE Bad == {rank[p] : p \in Points \ G}
<1>1. SUFFICES ASSUME Bad # {} PROVE FALSE
    OBVIOUS
<1>2. Bad \in SUBSET Nat
    OBVIOUS
<1>3. PICK m \in Bad : \A k \in Bad : m <= k
    <2> HIDE DEF Bad
    <2> QED BY <1>1, <1>2, LeastNatural
<1>4. PICK p \in Points \ G : m = rank[p]
    BY <1>3
<1>5. \A q \in Points : rank[q] < rank[p] => q \in G
    BY <1>2, <1>3, <1>4
<1> QED BY <1>4, <1>5

\* Points and what follows them are points.
LEMMA PointsFollow ==
    ASSUME NEW p \in Points
    PROVE  /\ \A v \in Values : After(p, v) \in Points
           /\ \A n \in Computeds : Start(n) \in Points
           /\ p = <<p[1], p[2]>> /\ p[1] \in Computeds
<1>1. p[1] \in Computeds /\ p[2] \in Seq(Values) /\ p = <<p[1], p[2]>>
    BY DEF Points
<1>2. \A v \in Values : Append(p[2], v) \in Seq(Values)
    BY <1>1
<1>3. <<>> \in Seq(Values)
    OBVIOUS
<1>4. \A v \in Values : After(p, v) \in Points
    BY <1>1, <1>2 DEF Points, After
<1>5. \A n \in Computeds : Start(n) \in Points
    BY <1>3 DEF Points, Start
<1> QED BY <1>1, <1>4, <1>5

\* An evaluation starts at a point.
LEMMA StartsArePoints == \A n \in Computeds : Start(n) \in Points
<1>1. <<>> \in Seq(Values)
    OBVIOUS
<1> QED BY <1>1 DEF Points, Start

\* What a body asks for, and what it gets.
LEMMA AskTypes ==
    ASSUME BodiesAreWellTyped, NEW s \in Shapes, NEW p \in Points
    PROVE  LET i == Body(s, p[1], p[2]) IN
           /\ i.op = "done" => i.of \in Values
           /\ i.op # "done" => i.of \in Producers \cup {Awaited}
           /\ i.op = "read" => i.of \in Producers
           /\ i.op \notin {"done", "read"} => i.op = "use" /\ i.of = Awaited
           /\ ReadBy(i) \subseteq Producers
<1>1. Body(s, p[1], p[2]) \in Asks
    BY DEF BodiesAreWellTyped
<1> QED BY <1>1 DEF Asks, ReadBy

\* An outcome is a value or a wait.
LEMMA OutcomeKinds ==
    ASSUME NEW o \in Outcomes
    PROVE  /\ o.kind \in {"value", "suspended"}
           /\ o.kind = "value" => o.of \in Values /\ o = Settled(o.of)
           /\ o.kind = "suspended" => o.of \in Producers \cup {Awaited} /\ o = Pending(o.of)
BY DEF Outcomes, Settled, Pending

\* A point's result is one, and rests on nothing but what it asks for.
LEMMA RunAtType ==
    ASSUME BodiesAreWellTyped, NEW s \in Shapes, NEW p \in Points,
           NEW outs \in [Producers \cup {Awaited} -> Outcomes], NEW f \in [Points -> Ran]
    PROVE  RunAt(s, outs, f, p) \in Ran
<1> DEFINE i == Body(s, p[1], p[2])
           got == outs[i.of]
<1>1. CASE i.op = "done"
    BY <1>1, AskTypes DEF RunAt, Ran, Outcomes, Settled
<1>2. CASE i.op # "done"
    <2>1. i.of \in Producers \cup {Awaited} /\ ReadBy(i) \subseteq Producers
        BY <1>2, AskTypes
    <2>2. got \in Outcomes
        BY <2>1
    <2>3. CASE got.kind = "suspended"
        BY <1>2, <2>1, <2>3 DEF RunAt, Ran, Outcomes, Pending
    <2>4. CASE got.kind # "suspended"
        <3>1. After(p, got.of) \in Points
            BY <2>2, <2>4, OutcomeKinds, PointsFollow
        <3>2. f[After(p, got.of)] \in Ran
            BY <3>1
        <3>3. RunAt(s, outs, f, p) =
                 [f[After(p, got.of)] EXCEPT !.reads = @ \cup ReadBy(i)]
            BY <1>2, <2>4 DEF RunAt
        <3> QED BY <2>1, <3>2, <3>3 DEF Ran
    <2> QED BY <2>3, <2>4
<1> QED BY <1>1, <1>2

\* Two evaluations agree at a point if they agree on what it asks for and on
\* what follows.
AgreeFrom(i, p, outs, f, o, g) ==
    i.op # "done" => /\ o[i.of] = outs[i.of]
                     /\ outs[i.of].kind = "value" =>
                           g[After(p, outs[i.of].of)] = f[After(p, outs[i.of].of)]
LEMMA RunAtAgrees ==
    ASSUME BodiesAreWellTyped, NEW s \in Shapes, NEW p \in Points,
           NEW outs \in [Producers \cup {Awaited} -> Outcomes], NEW f, NEW o, NEW g,
           AgreeFrom(Body(s, p[1], p[2]), p, outs, f, o, g)
    PROVE  RunAt(s, o, g, p) = RunAt(s, outs, f, p)
<1> DEFINE i == Body(s, p[1], p[2])
<1>1. CASE i.op = "done"
    BY <1>1 DEF RunAt
<1>2. CASE i.op # "done"
    <2>1. outs[i.of] \in Outcomes
        BY <1>2, AskTypes
    <2>2. outs[i.of].kind # "suspended" => outs[i.of].kind = "value"
        BY <2>1, OutcomeKinds
    <2> QED BY <1>2, <2>2 DEF RunAt, AgreeFrom
<1> QED BY <1>1, <1>2

\* Outcomes, known or evaluated, are outcomes.
LEMMA OutsType ==
    ASSUME NEW K, Atoms \cup {Awaited} \subseteq K, NEW known, \A n \in K : known[n] \in Outcomes,
           NEW f \in [Points -> Ran]
    PROVE  Outs(K, known, f) \in [Producers \cup {Awaited} -> Outcomes]
<1>1. ASSUME NEW n \in Producers \cup {Awaited}, n \notin K PROVE f[Start(n)].outcome \in Outcomes
    <2>1. n \in Computeds
        BY <1>1 DEF Producers
    <2>2. Start(n) \in Points
        BY <2>1, StartsArePoints
    <2> QED BY <2>2 DEF Ran
<1> QED BY <1>1 DEF Outs

\* An evaluation exists: each point is settled once all of lower rank are.
LEMMA RunExists ==
    ASSUME BodiesAreWellTyped, NEW s \in Shapes,
           NEW N \in Nat, NEW rank \in [Points -> 0..N], Falls(s, rank),
           NEW K, Atoms \cup {Awaited} \subseteq K, NEW known, \A n \in K : known[n] \in Outcomes
    PROVE  \E f : Evaluates(s, Outs(K, known, f), f)
<1> DEFINE V == [Points -> Ran]
           At(g, p) == RunAt(s, Outs(K, known, g), g, p)
           Step == [i \in 1..(N+1) |-> [g \in V |->
                       [p \in Points |-> IF rank[p] = i - 1 THEN At(g, p) ELSE g[p]]]]
           b == [p \in Points |-> [outcome |-> known[Awaited], reads |-> {}]]
<1>1. b \in V
    BY DEF Ran
<1>2. ASSUME NEW g \in V PROVE \A p \in Points : At(g, p) \in Ran
    BY <1>2, OutsType, RunAtType
<1>3. Step \in [1..(N+1) -> [V -> V]]
    <2> HIDE DEF At
    <2> QED BY <1>2
<1>4. PICK h \in [0..(N+1) -> V] : \A i \in 1..(N+1) : h[i] = Step[i][h[i-1]]
    <2> HIDE DEF Step, V, b
    <2>1. N+1 \in Nat
        OBVIOUS
    <2>2. \E h \in [0..(N+1) -> V] : Solves(N+1, b, Step, h)
        BY <1>1, <1>3, <2>1, RecursionExists
    <2> QED BY <2>2 DEF Solves
<1>5. ASSUME NEW i \in 1..(N+1)
      PROVE  /\ i-1 \in 0..(N+1) /\ h[i-1] \in V
             /\ \A p \in Points : h[i][p] = IF rank[p] = i - 1 THEN At(h[i-1], p) ELSE h[i-1][p]
    <2> HIDE DEF At
    <2>1. i-1 \in 0..(N+1) /\ h[i-1] \in V
        BY <1>4
    <2> QED BY <2>1, <1>4
<1> HIDE DEF At, Step
<1>6. \A j \in 0..(N+1) : \A p \in Points : rank[p] < j => h[j][p] = h[rank[p]+1][p]
    <2> DEFINE P == {j \in 0..(N+1) : \A p \in Points : rank[p] < j => h[j][p] = h[rank[p]+1][p]}
    <2>1. 0 \in P
        OBVIOUS
    <2>2. ASSUME NEW i \in 1..(N+1), i-1 \in P PROVE i \in P
        <3>1. ASSUME NEW p \in Points, rank[p] < i PROVE h[i][p] = h[rank[p]+1][p]
            <4>1. rank[p] \in Int /\ i \in Int
                OBVIOUS
            <4>2. CASE rank[p] = i - 1
                BY <4>2
            <4>3. CASE rank[p] # i - 1
                <5>1. rank[p] < i - 1
                    BY <3>1, <4>1, <4>3
                <5> QED BY <1>5, <2>2, <4>3, <5>1
            <4> QED BY <4>2, <4>3
        <3> QED BY <3>1
    <2> HIDE DEF P
    <2>3. N+1 \in Nat
        OBVIOUS
    <2>4. 0..(N+1) \subseteq P
        BY <2>1, <2>2, <2>3, InductionTo
    <2> QED BY <2>4 DEF P
<1> DEFINE f == h[N+1]
<1>7. f \in V
    BY <1>4
<1>8. ASSUME NEW p \in Points PROVE f[p] = At(f, p)
    <2> DEFINE r == rank[p]
               g == h[r]
    <2>1. r \in 0..N /\ r+1 \in 1..(N+1) /\ r \in 0..(N+1) /\ N+1 \in 0..(N+1) /\ (r+1)-1 = r
        OBVIOUS
    <2>2. g \in V
        BY <2>1, <1>4
    <2>3. f[p] = At(g, p)
        <3>1. f[p] = h[r+1][p]
            BY <2>1, <1>6
        <3>2. h[r+1][p] = IF rank[p] = (r+1) - 1 THEN At(h[(r+1)-1], p) ELSE h[(r+1)-1][p]
            BY <2>1, <1>5
        <3> QED BY <2>1, <3>1, <3>2
    <2>4. ASSUME NEW q \in Points, rank[q] < r PROVE f[q] = g[q]
        <3>1. rank[q] < N+1
            BY <2>1, <2>4
        <3> QED BY <2>1, <2>4, <3>1, <1>6
    <2> DEFINE i == Body(s, p[1], p[2])
               outsG == Outs(K, known, g)
               outsF == Outs(K, known, f)
    <2> HIDE DEF f, g, r
    <2>5. outsG \in [Producers \cup {Awaited} -> Outcomes]
        BY <2>2, OutsType
    <2>6. ASSUME i.op # "done"
          PROVE  /\ outsF[i.of] = outsG[i.of]
                 /\ outsG[i.of].kind = "value" =>
                       f[After(p, outsG[i.of].of)] = g[After(p, outsG[i.of].of)]
        <3>1. i.of \in Producers \cup {Awaited}
            BY <2>6, AskTypes
        <3>2. ASSUME i.of \in K PROVE outsF[i.of] = outsG[i.of]
            BY <3>1, <3>2 DEF Outs
        <3>3. ASSUME i.of \notin K PROVE outsF[i.of] = outsG[i.of]
            <4>1. i.of \in Computeds
                BY <3>1, <3>3 DEF Producers
            <4>2. Start(i.of) \in Points
                BY <4>1, PointsFollow
            <4>3. rank[Start(i.of)] < r
                BY <2>6, <4>1 DEF Falls, r
            <4> QED BY <2>4, <3>1, <3>3, <4>2, <4>3 DEF Outs
        <3>4. outsG[i.of] \in Outcomes
            BY <2>5, <3>1
        <3>5. ASSUME outsG[i.of].kind = "value"
              PROVE  f[After(p, outsG[i.of].of)] = g[After(p, outsG[i.of].of)]
            <4>1. outsG[i.of].of \in Values
                BY <3>4, <3>5, OutcomeKinds
            <4>2. After(p, outsG[i.of].of) \in Points
                BY <4>1, PointsFollow
            <4>3. rank[After(p, outsG[i.of].of)] < r
                BY <2>6, <4>1 DEF Falls, r
            <4> QED BY <2>4, <4>2, <4>3
        <3> QED BY <3>2, <3>3, <3>5
    <2>7. RunAt(s, outsF, f, p) = RunAt(s, outsG, g, p)
        <3>1. AgreeFrom(Body(s, p[1], p[2]), p, outsG, g, outsF, f)
            BY <2>6 DEF AgreeFrom
        <3> HIDE DEF i, outsF, outsG
        <3>2. s \in Shapes /\ p \in Points
            OBVIOUS
        <3> QED BY <2>5, <3>1, <3>2, RunAtAgrees, Zenon
    <2> QED BY <2>3, <2>7 DEF At
<1>9. Outs(K, known, f) \in [Producers \cup {Awaited} -> Outcomes]
    BY <1>7, OutsType
<1> QED
    <2> HIDE DEF f
    <2> QED BY <1>7, <1>8, <1>9 DEF Evaluates, At


\* An evaluation, case by case.
LEMMA RunCases ==
    ASSUME BodiesAreWellTyped, NEW s \in Shapes, NEW outs, NEW f, Evaluates(s, outs, f),
           NEW p \in Points
    PROVE  LET i == Body(s, p[1], p[2])
               got == outs[i.of]
           IN  /\ i.op = "done" => f[p].outcome.kind = "value" /\ f[p].reads = {}
               /\ i.op # "done" =>
                    /\ got \in Outcomes /\ got.kind \in {"value", "suspended"}
                    /\ ReadBy(i) \subseteq f[p].reads
                    /\ got.kind = "suspended" => f[p].outcome.kind = "suspended"
                    /\ got.kind = "suspended" =>
                          f[p].outcome = Pending(i.of) /\ f[p].reads = ReadBy(i)
                    /\ got.kind = "value" =>
                          /\ got.of \in Values /\ After(p, got.of) \in Points
                          /\ f[p].outcome = f[After(p, got.of)].outcome
                          /\ f[p].reads = f[After(p, got.of)].reads \cup ReadBy(i)
<1> DEFINE i == Body(s, p[1], p[2])
           got == outs[i.of]
<1>1. f[p] = RunAt(s, outs, f, p)
    BY DEF Evaluates
<1>2. CASE i.op = "done"
    BY <1>1, <1>2 DEF RunAt, Settled
<1>3. CASE i.op # "done"
    <2>1. got \in Outcomes
        BY <1>3, AskTypes DEF Evaluates
    <2>2. got.kind \in {"value", "suspended"} /\ (got.kind = "value" => got.of \in Values)
        BY <2>1, OutcomeKinds
    <2>3. CASE got.kind = "suspended"
        <3>1. f[p].outcome = Pending(i.of) /\ f[p].reads = ReadBy(i)
            BY <1>1, <1>3, <2>3 DEF RunAt
        <3>2. Pending(i.of).kind = "suspended"
            BY DEF Pending
        <3> QED BY <1>3, <2>1, <2>2, <2>3, <3>1, <3>2
    <2>4. CASE got.kind = "value"
        <3>1. After(p, got.of) \in Points
            BY <2>2, <2>4, PointsFollow
        <3>2. f[After(p, got.of)] \in Ran
            BY <3>1 DEF Evaluates
        <3>3. f[p] = [f[After(p, got.of)] EXCEPT !.reads = @ \cup ReadBy(i)]
            BY <1>1, <1>3, <2>4 DEF RunAt
        <3>4. /\ f[p].outcome = f[After(p, got.of)].outcome
              /\ f[p].reads = f[After(p, got.of)].reads \cup ReadBy(i)
            BY <3>2, <3>3 DEF Ran
        <3> QED BY <1>3, <2>1, <2>2, <2>4, <3>1, <3>4
    <2> QED BY <2>2, <2>3, <2>4
<1> QED BY <1>2, <1>3

\* What an evaluation reads has a lower rank; what suspends it suspends; and
\* what it did not suspend on had a value.
Sound(s, outs, f, rank, p) ==
    /\ \A d \in f[p].reads \cap Computeds : rank[Start(d)] < rank[p]
    /\ f[p].outcome.kind = "suspended" =>
          LET of == f[p].outcome.of IN
          /\ of = Awaited \/ of \in f[p].reads
          /\ outs[of].kind = "suspended"
    /\ f[p].outcome.kind = "value" => \A d \in f[p].reads : outs[d].kind = "value"
LEMMA EvaluationIsSound ==
    ASSUME BodiesAreWellTyped, NEW s \in Shapes, NEW outs, NEW f, Evaluates(s, outs, f),
           NEW N \in Nat, NEW rank \in [Points -> 0..N], Falls(s, rank)
    PROVE  \A p \in Points : Sound(s, outs, f, rank, p)
<1> DEFINE G == {p \in Points : Sound(s, outs, f, rank, p)}
<1>1. ASSUME NEW p \in Points, \A q \in Points : rank[q] < rank[p] => q \in G
      PROVE  p \in G
    <2> DEFINE i == Body(s, p[1], p[2])
               got == outs[i.of]
               q == After(p, got.of)
    <2>1. CASE i.op = "done"
        BY <2>1, RunCases DEF Sound
    <2>2. CASE i.op # "done" /\ got.kind = "suspended"
        <3>1. f[p].outcome = Pending(i.of) /\ f[p].reads = ReadBy(i)
            BY <2>2, RunCases
        <3>2. i.of = Awaited \/ (i.op = "read" /\ ReadBy(i) = {i.of})
            BY <2>2, AskTypes DEF ReadBy
        <3>3. \A d \in ReadBy(i) \cap Computeds : rank[Start(d)] < rank[p]
            BY <2>2 DEF ReadBy, Falls
        <3> QED BY <2>2, <3>1, <3>2, <3>3 DEF Sound, Pending
    <2>3. CASE i.op # "done" /\ got.kind = "value"
        <3>0. \A x \in Points : rank[x] \in Int
            OBVIOUS
        <3>1. /\ q \in Points /\ got.of \in Values
              /\ f[p].outcome = f[q].outcome
              /\ f[p].reads = f[q].reads \cup ReadBy(i)
            BY <2>3, RunCases
        <3>2. rank[q] < rank[p]
            BY <2>3, <3>1 DEF Falls
        <3>3. Sound(s, outs, f, rank, q)
            BY <1>1, <3>1, <3>2
        <3>4. \A d \in ReadBy(i) : d = i.of /\ outs[d].kind = "value"
            BY <2>3 DEF ReadBy
        <3>5. \A d \in ReadBy(i) \cap Computeds : rank[Start(d)] < rank[p]
            BY <2>3 DEF ReadBy, Falls
        <3>6. \A d \in f[q].reads \cap Computeds : rank[Start(d)] < rank[p]
            <4>1. ASSUME NEW d \in f[q].reads \cap Computeds PROVE rank[Start(d)] < rank[p]
                <5>1. rank[Start(d)] < rank[q] /\ Start(d) \in Points
                    BY <3>3, <4>1, StartsArePoints DEF Sound
                <5>2. rank[Start(d)] \in Int /\ rank[q] \in Int /\ rank[p] \in Int
                    BY <3>0, <3>1, <5>1
                <5> QED BY <3>2, <5>1, <5>2
            <4> QED BY <4>1
        <3>7. \A d \in f[p].reads \cap Computeds : rank[Start(d)] < rank[p]
            BY <3>1, <3>5, <3>6
        <3> QED BY <3>1, <3>3, <3>4, <3>7 DEF Sound
    <2> QED BY <2>1, <2>2, <2>3, RunCases
<1> HIDE DEF G
<1>2. Points \subseteq G
    BY <1>1, RankInduction
<1> QED BY <1>2 DEF G

\* In C, which holds all that its members read, the sources have the same
\* outcomes in o as in outs, or those of the same computeds.
Matches(C, outs, f, o, g) ==
    /\ \A c \in C \cap Computeds : f[Start(c)].reads \subseteq C
    /\ \A c \in C : \/ o[c] = outs[c]
                    \/ /\ c \in Computeds
                       /\ outs[c] = f[Start(c)].outcome /\ o[c] = g[Start(c)].outcome
    /\ o[Awaited] = outs[Awaited] \/ outs[Awaited].kind = "suspended"
AgreesAt(p, C, outs, f, o, g) ==
    f[p].reads \subseteq C /\ (o[Awaited] = outs[Awaited] \/ f[p].outcome.kind = "value")
        => g[p] = f[p]

\* Two evaluations of the program agree on all that one of them read, if they
\* agree on the sources; where the promise settled between them, on all that
\* had a value.
LEMMA EvaluationsAgree ==
    ASSUME BodiesAreWellTyped, NEW s \in Shapes,
           NEW N \in Nat, NEW rank \in [Points -> 0..N], Falls(s, rank),
           NEW outs, NEW f, Evaluates(s, outs, f), NEW o, NEW g, Evaluates(s, o, g),
           NEW C, Matches(C, outs, f, o, g)
    PROVE  \A p \in Points : AgreesAt(p, C, outs, f, o, g)
<1> USE DEF Matches, AgreesAt
<1> DEFINE Steady == o[Awaited] = outs[Awaited]
           G == {p \in Points :
                  f[p].reads \subseteq C /\ (Steady \/ f[p].outcome.kind = "value") => g[p] = f[p]}
<1>1. ASSUME NEW p \in Points, \A q \in Points : rank[q] < rank[p] => q \in G,
             f[p].reads \subseteq C, Steady \/ f[p].outcome.kind = "value"
      PROVE  g[p] = f[p]
    <2> DEFINE i == Body(s, p[1], p[2])
               got == outs[i.of]
    <2>1. ASSUME i.op # "done" PROVE o[i.of] = got
        <3>1. CASE i.op = "read"
            <4>1. i.of \in C
                <5>1. i.of \in f[p].reads
                    <6>1. i.of \in ReadBy(i)
                        BY <3>1 DEF ReadBy
                    <6> QED BY <2>1, <6>1, RunCases
                <5> QED BY <1>1, <5>1
            <4>2. CASE i.of \in Computeds /\ got = f[Start(i.of)].outcome
                                           /\ o[i.of] = g[Start(i.of)].outcome
                <5>1. Start(i.of) \in Points /\ rank[Start(i.of)] < rank[p]
                    BY <2>1, <4>2, StartsArePoints DEF Falls
                <5>2. f[Start(i.of)].reads \subseteq C
                    BY <4>1, <4>2
                <5>3. Steady \/ got.kind = "value"
                    <6>1. /\ got.kind = "suspended" => f[p].outcome.kind = "suspended"
                          /\ got.kind \in {"value", "suspended"}
                        BY <2>1, RunCases
                    <6> QED BY <1>1, <6>1
                <5>4. g[Start(i.of)] = f[Start(i.of)]
                    BY <1>1, <4>2, <5>1, <5>2, <5>3
                <5> QED BY <4>2, <5>4
            <4> QED BY <4>1, <4>2
        <3>2. CASE i.op # "read"
            <4>1. i.of = Awaited
                BY <2>1, <3>2, AskTypes
            <4>2. got.kind = "suspended" => f[p].outcome.kind = "suspended"
                BY <2>1, RunCases
            <4> QED BY <1>1, <4>1, <4>2
        <3> QED BY <3>1, <3>2
    <2>2. ASSUME i.op # "done", got.kind = "value"
          PROVE  g[After(p, got.of)] = f[After(p, got.of)]
        <3> DEFINE q == After(p, got.of)
        <3>1. /\ q \in Points /\ got.of \in Values
              /\ f[p].outcome = f[q].outcome
              /\ f[q].reads \subseteq f[p].reads
            BY <2>2, RunCases
        <3>2. rank[q] < rank[p]
            BY <2>2, <3>1 DEF Falls
        <3> QED BY <1>1, <3>1, <3>2
    <2>3. AgreeFrom(Body(s, p[1], p[2]), p, outs, f, o, g)
        BY <2>1, <2>2 DEF AgreeFrom
    <2>4. outs \in [Producers \cup {Awaited} -> Outcomes]
        BY DEF Evaluates
    <2>5. RunAt(s, o, g, p) = RunAt(s, outs, f, p)
        BY <2>3, <2>4, RunAtAgrees
    <2> QED BY <2>5 DEF Evaluates
<1>2. ASSUME NEW p \in Points, \A q \in Points : rank[q] < rank[p] => q \in G
      PROVE  p \in G
    BY <1>1, <1>2
<1> HIDE DEF G
<1>3. Points \subseteq G
    BY <1>2, RankInduction
<1> QED BY <1>3 DEF G

-----------------------------------------------------------------------------
(***************************************************************************)
(* What Resolved computes.                                                 *)
(***************************************************************************)
\* A reader of a world resolves every atom to a value.
LEMMA ResolveValue ==
    ASSUME TypeOK, NEW a \in Atoms, NEW W
    PROVE  Resolve(a, W) \in Values
<1>1. replayLog(a, worldOf(W)) \in Values
    BY ReturnAssumption, RpValue, RpIsReplay
<1> QED BY <1>1 DEF Resolve, TypeOK

Typed ==
    /\ TypeOK
    /\ shape \in Shapes
    /\ status \in {"pending", "fulfilled"}
    /\ memos \in [Keys -> Memos \cup {None}]

\* The sources whose outcomes need no evaluation, and those outcomes.
Given(trusted) == trusted \cup Atoms \cup {Awaited}
Promised == IF status = "fulfilled" THEN Settled(Answer) ELSE Pending(Awaited)
Known(W, trusted) ==
    [n \in Given(trusted) |->
        IF n = Awaited THEN Promised
        ELSE IF n \in trusted THEN memos[<<n, W>>].outcome
        ELSE Settled(Resolve(n, W))]
OutsIn(W, trusted, f) == Outs(Given(trusted), Known(W, trusted), f)

\* f is the evaluation that Resolved is the summary of.
Resolves(W, trusted, f) ==
    /\ Evaluates(shape, OutsIn(W, trusted, f), f)
    /\ Resolved(W, trusted) =
          [n \in Producers |->
              [outcome |-> OutsIn(W, trusted, f)[n],
               reads |-> IF n \in trusted \cup Atoms THEN {} ELSE f[Start(n)].reads]]

\* What is known of the sources is an outcome.
LEMMA KnownOutcomes ==
    ASSUME Typed, NEW W, NEW trusted \in SUBSET Producers,
           \A n \in trusted : memos[<<n, W>>] \in Memos
    PROVE  \A n \in Given(trusted) : Known(W, trusted)[n] \in Outcomes
<1>1. Promised \in Outcomes
    BY PromiseAssumption DEF Promised, Outcomes, Settled, Pending
<1>2. ASSUME NEW n \in trusted PROVE memos[<<n, W>>].outcome \in Outcomes
    BY <1>2 DEF Memos
<1>3. ASSUME NEW n \in Atoms PROVE Settled(Resolve(n, W)) \in Outcomes
    BY <1>3, ResolveValue DEF Typed, Outcomes, Settled
<1> QED BY <1>1, <1>2, <1>3 DEF Given, Known

\* Resolved is the summary of an evaluation.
LEMMA ResolvedRuns ==
    ASSUME BodiesAreWellTyped, NEW rank, NEW most, BodiesEnd(rank, most), Typed,
           NEW W, NEW trusted \in SUBSET Producers,
           \A n \in trusted : memos[<<n, W>>] \in Memos
    PROVE  \E f : Resolves(W, trusted, f)
<1> DEFINE Got(g, i) ==
               CASE i.op = "use" ->
                        IF status = "fulfilled" THEN Settled(Answer) ELSE Pending(Awaited)
                 [] i.of \in trusted -> memos[<<i.of, W>>].outcome
                 [] i.of \in Atoms \ trusted -> Settled(Resolve(i.of, W))
                 [] OTHER -> g[<<i.of, <<>>>>].outcome
           At(g, p) ==
               LET i == Body(shape, p[1], p[2])
                   read == IF i.op = "read" THEN {i.of} ELSE {}
                   got == CASE i.op = "use" ->
                                   IF status = "fulfilled" THEN Settled(Answer)
                                   ELSE Pending(Awaited)
                            [] i.of \in trusted -> memos[<<i.of, W>>].outcome
                            [] i.of \in Atoms \ trusted -> Settled(Resolve(i.of, W))
                            [] OTHER -> g[<<i.of, <<>>>>].outcome
               IN IF i.op = "done" THEN [outcome |-> Settled(i.of), reads |-> {}]
                  ELSE IF got.kind = "suspended" THEN [outcome |-> Pending(i.of), reads |-> read]
                  ELSE LET rest == g[<<p[1], Append(p[2], got.of)>>]
                       IN [rest EXCEPT !.reads = @ \cup read]
           F(g) == [p \in Points |-> At(g, p)]
           R == CHOOSE g : g = F(g)
           r == rank[shape]
           N == most[shape]
<1>1. shape \in Shapes /\ N \in Nat /\ r \in [Points -> 0..N] /\ Falls(shape, r)
    BY DEF Typed, BodiesEnd
<1>2. PICK f : Evaluates(shape, OutsIn(W, trusted, f), f)
    <2>1. \A n \in Given(trusted) : Known(W, trusted)[n] \in Outcomes
        BY KnownOutcomes
    <2>2. Atoms \cup {Awaited} \subseteq Given(trusted)
        BY DEF Given
    <2> HIDE DEF N, r
    <2> QED BY <1>1, <2>1, <2>2, RunExists DEF OutsIn
<1> DEFINE outs == OutsIn(W, trusted, f)
<1>3. Resolved(W, trusted) =
          [n \in Producers |->
              IF n \in trusted THEN [outcome |-> memos[<<n, W>>].outcome, reads |-> {}]
              ELSE IF n \in Atoms THEN [outcome |-> Settled(Resolve(n, W)), reads |-> {}]
              ELSE R[<<n, <<>>>>]]
    BY DEF Resolved
<1>4. ASSUME NEW g, NEW p \in Points, \A q \in Points : r[q] < r[p] => g[q] = f[q]
      PROVE  At(g, p) = f[p]
    <2> DEFINE i == Body(shape, p[1], p[2])
               got == outs[i.of]
    <2>1. f[p] = RunAt(shape, outs, f, p)
        BY <1>2 DEF Evaluates
    <2>2. CASE i.op = "done"
        BY <2>1, <2>2 DEF RunAt
    <2>3. CASE i.op # "done"
        <3>1. i.of \in Producers \cup {Awaited} /\ (i.op = "use" <=> i.of = Awaited)
            BY <1>1, <2>3, AskTypes, PromiseAssumption
        <3>2. Got(g, i) = got
            <4>1. CASE i.op = "use"
                <5>1. got = Promised
                    BY <3>1, <4>1 DEF OutsIn, Outs, Given, Known
                <5>2. i.of \notin trusted /\ i.of \notin Atoms \ trusted
                    BY <3>1, <4>1, PromiseAssumption DEF Producers
                <5> QED BY <4>1, <5>1, <5>2 DEF Promised
            <4>2. CASE i.op # "use" /\ i.of \in trusted
                <5>1. got = memos[<<i.of, W>>].outcome
                    BY <3>1, <4>2 DEF OutsIn, Outs, Given, Known
                <5> QED BY <4>2, <5>1
            <4>3. CASE i.op # "use" /\ i.of \in Atoms \ trusted
                <5>1. got = Settled(Resolve(i.of, W))
                    BY <3>1, <4>3 DEF OutsIn, Outs, Given, Known, Producers
                <5> QED BY <4>3, <5>1
            <4>4. CASE i.op # "use" /\ i.of \notin trusted /\ i.of \notin Atoms
                <5>1. i.of \in Computeds /\ i.of \notin Given(trusted)
                    BY <3>1, <4>4 DEF Producers, Given
                <5>2. Start(i.of) \in Points /\ r[Start(i.of)] < r[p]
                    BY <1>1, <2>3, <5>1, StartsArePoints DEF Falls
                <5>3. got = f[Start(i.of)].outcome
                    BY <3>1, <5>1 DEF OutsIn, Outs
                <5>4. g[<<i.of, <<>>>>] = f[Start(i.of)]
                    BY <1>4, <5>2 DEF Start
                <5> QED BY <4>4, <5>3, <5>4
            <4> QED BY <4>1, <4>2, <4>3, <4>4
        <3>3. got \in Outcomes
            BY <1>2, <3>1 DEF Evaluates
        <3>4. got.kind # "suspended" => g[<<p[1], Append(p[2], got.of)>>] = f[After(p, got.of)]
            <4>1. ASSUME got.kind # "suspended" PROVE After(p, got.of) \in Points
                                                     /\ r[After(p, got.of)] < r[p]
                BY <1>1, <2>3, <3>3, <4>1, OutcomeKinds, PointsFollow DEF Falls
            <4> QED BY <1>4, <4>1 DEF After
        <3>5. At(g, p) =
                 IF Got(g, i).kind = "suspended"
                 THEN [outcome |-> Pending(i.of), reads |-> ReadBy(i)]
                 ELSE [g[<<p[1], Append(p[2], Got(g, i).of)>>] EXCEPT !.reads = @ \cup ReadBy(i)]
            BY <2>3 DEF ReadBy
        <3> HIDE DEF Got, At
        <3>6. f[p] = IF got.kind = "suspended"
                     THEN [outcome |-> Pending(i.of), reads |-> ReadBy(i)]
                     ELSE [f[After(p, got.of)] EXCEPT !.reads = @ \cup ReadBy(i)]
            BY <2>1, <2>3 DEF RunAt
        <3> QED BY <3>2, <3>4, <3>5, <3>6
    <2> QED BY <2>2, <2>3
<1>5. f = F(f)
    <2> HIDE DEF At
    <2>1. \A p \in Points : At(f, p) = f[p]
        BY <1>4
    <2>2. f \in [Points -> Ran]
        BY <1>2 DEF Evaluates
    <2> QED BY <2>1, <2>2
<1>6. R = F(R)
    <2> HIDE DEF F
    <2> QED BY <1>5
<1>7. \A p \in Points : R[p] = f[p]
    <2> DEFINE G == {p \in Points : R[p] = f[p]}
    <2>1. ASSUME NEW p \in Points, \A q \in Points : r[q] < r[p] => q \in G PROVE p \in G
        <3> HIDE DEF At, R
        <3>1. R[p] = At(R, p)
            BY <1>6
        <3> QED BY <1>4, <2>1, <3>1
    <2> HIDE DEF G, R, F, r, N
    <2>2. Points \subseteq G
        BY <1>1, <2>1, RankInduction
    <2> QED BY <2>2 DEF G
<1>8. ASSUME NEW n \in Producers
      PROVE  Resolved(W, trusted)[n] =
                [outcome |-> outs[n],
                 reads |-> IF n \in trusted \cup Atoms THEN {} ELSE f[Start(n)].reads]
    <2> HIDE DEF R
    <2>0. n # Awaited
        BY PromiseAssumption
    <2>1. CASE n \in trusted
        BY <1>3, <2>0, <2>1 DEF OutsIn, Outs, Given, Known
    <2>2. CASE n \in Atoms \ trusted
        BY <1>3, <2>0, <2>2 DEF OutsIn, Outs, Given, Known
    <2>3. CASE n \notin trusted /\ n \notin Atoms
        <3>1. n \in Computeds /\ n \notin Given(trusted)
            BY <2>0, <2>3 DEF Producers, Given
        <3>2. Start(n) \in Points
            BY <3>1, StartsArePoints
        <3>3. Resolved(W, trusted)[n] = f[Start(n)]
            BY <1>3, <1>7, <2>3, <3>2 DEF Start
        <3>4. outs[n] = f[Start(n)].outcome
            BY <3>1 DEF OutsIn, Outs
        <3>5. f[Start(n)] \in Ran
            BY <1>2, <3>2 DEF Evaluates
        <3> QED BY <2>3, <3>3, <3>4, <3>5 DEF Ran
    <2> QED BY <2>1, <2>2, <2>3
<1>9. Resolves(W, trusted, f)
    <2> HIDE DEF R, outs
    <2>1. Resolved(W, trusted) =
             [n \in Producers |->
                [outcome |-> outs[n],
                 reads |-> IF n \in trusted \cup Atoms THEN {} ELSE f[Start(n)].reads]]
        BY <1>3, <1>8
    <2> QED BY <1>2, <2>1 DEF Resolves, outs
<1> QED BY <1>9

-----------------------------------------------------------------------------
(***************************************************************************)
(* What a read visits, and what it certifies.                              *)
(***************************************************************************)
\* f gathers what is in A along the edges E.
Gathers(N, E, A, f) == f = [m \in N |-> A[m] \cup UNION {f[d] : d \in E[m]}]

\* What there is to gather along edges has a solution.
LEMMA GatherExists ==
    ASSUME NEW N, NEW E \in [N -> SUBSET N], NEW A
    PROVE  \E f : Gathers(N, E, A, f)
<1> DEFINE Shut(D) == \A m \in D : E[m] \subseteq D
           Reach(m) == {d \in N : \A D \in SUBSET N : m \in D /\ Shut(D) => d \in D}
           f == [m \in N |-> UNION {A[d] : d \in Reach(m)}]
<1>1. ASSUME NEW m \in N PROVE m \in Reach(m) /\ Shut(Reach(m)) /\ Reach(m) \subseteq N
    OBVIOUS
<1>2. ASSUME NEW m \in N, NEW d \in E[m] PROVE Reach(d) \subseteq Reach(m)
    <2>1. d \in N
        BY <1>2
    <2> QED BY <1>2, <2>1
<1>3. ASSUME NEW m \in N
      PROVE  Reach(m) \subseteq {m} \cup UNION {Reach(d) : d \in E[m]}
    <2> DEFINE D == {m} \cup UNION {Reach(d) : d \in E[m]}
    <2>1. E[m] \subseteq N
        BY <1>3
    <2>2. \A d \in E[m] : d \in Reach(d) /\ Shut(Reach(d)) /\ Reach(d) \subseteq N
        BY <1>1, <2>1
    <2>3. D \in SUBSET N /\ m \in D
        BY <2>2
    <2>4. Shut(D)
        <3> HIDE DEF Reach
        <3>1. E[m] \subseteq D
            BY <2>2
        <3>2. ASSUME NEW c \in D, c # m PROVE E[c] \subseteq D
            BY <2>2, <3>2
        <3> QED BY <3>1, <3>2
    <2> QED BY <2>3, <2>4
<1>4. ASSUME NEW m \in N PROVE f[m] = A[m] \cup UNION {f[d] : d \in E[m]}
    <2>1. \A d \in E[m] : d \in N
        BY <1>4
    <2>2. f[m] = UNION {A[d] : d \in Reach(m)} /\
          \A d \in E[m] : f[d] = UNION {A[c] : c \in Reach(d)}
        BY <1>4, <2>1
    <2>3. m \in Reach(m) /\ (\A d \in E[m] : Reach(d) \subseteq Reach(m))
        BY <1>1, <1>2, <1>4
    <2>4. \A c \in Reach(m) : c = m \/ \E d \in E[m] : c \in Reach(d)
        BY <1>3, <1>4
    <2> HIDE DEF f, Reach
    <2> QED BY <2>2, <2>3, <2>4
<1>5. f = [m \in N |-> A[m] \cup UNION {f[d] : d \in E[m]}]
    <2> HIDE DEF f
    <2>1. f = [m \in N |-> f[m]]
        BY DEF f
    <2> QED BY <1>4, <2>1
<1> QED BY <1>5 DEF Gathers

\* What holds of the atoms, and of a computed because it holds of all of lower
\* rank, holds of every producer.
LEMMA NodeInduction ==
    ASSUME NEW N \in Nat, NEW r \in [Points -> 0..N], NEW G, Atoms \subseteq G,
           \A c \in Computeds :
              (\A d \in Computeds : r[Start(d)] < r[Start(c)] => d \in G) => c \in G
    PROVE  Producers \subseteq G
<1> DEFINE H == {p \in Points : \A c \in Computeds : p = Start(c) => c \in G}
<1>1. ASSUME NEW p \in Points, \A q \in Points : r[q] < r[p] => q \in H PROVE p \in H
    <2>1. ASSUME NEW c \in Computeds, p = Start(c), NEW d \in Computeds,
                 r[Start(d)] < r[Start(c)]
          PROVE  d \in G
        BY <1>1, <2>1, StartsArePoints
    <2> QED BY <2>1
<1> HIDE DEF H
<1>2. Points \subseteq H
    BY <1>1, RankInduction
<1>3. \A c \in Computeds : c \in G
    BY <1>2, StartsArePoints DEF H
<1> QED BY <1>3 DEF Producers

\* Reads go down in rank.
Descends(r, reads) ==
    \A c \in Computeds : \A d \in reads[c] \cap Computeds : r[Start(d)] < r[Start(c)]

\* A read visits the node and, of each it visits, all that it reads.
LEMMA VisitedIsShut ==
    ASSUME NEW N \in Nat, NEW r \in [Points -> 0..N],
           NEW reads \in [Producers -> SUBSET Producers], Descends(r, reads),
           \A a \in Atoms : reads[a] = {},
           NEW resolved, \A m \in Producers : resolved[m].reads = reads[m],
           NEW n \in Producers
    PROVE  /\ Visited(n, resolved) \subseteq Producers
           /\ n \in Visited(n, resolved)
           /\ \A m \in Visited(n, resolved) : reads[m] \subseteq Visited(n, resolved)
<1> DEFINE F(f) == [m \in Producers |-> {m} \cup UNION {f[d] : d \in resolved[m].reads}]
           From == CHOOSE f : f = F(f)
<1>1. Visited(n, resolved) = From[n]
    BY DEF Visited
<1>2. \E f : f = F(f)
    <2> DEFINE A == [m \in Producers |-> {m}]
    <2>1. \E f : Gathers(Producers, reads, A, f)
        <3> HIDE DEF A
        <3> QED BY GatherExists
    <2>2. PICK f : f = [m \in Producers |-> A[m] \cup UNION {f[d] : d \in reads[m]}]
        BY <2>1 DEF Gathers
    <2>3. \A m \in Producers : A[m] \cup UNION {f[d] : d \in reads[m]} =
              {m} \cup UNION {f[d] : d \in resolved[m].reads}
        OBVIOUS
    <2>4. F(f) = [m \in Producers |-> A[m] \cup UNION {f[d] : d \in reads[m]}]
        BY <2>3
    <2> QED BY <2>2, <2>4
<1>3. From = F(From)
    <2> HIDE DEF F
    <2> QED BY <1>2
<1>4. \A m \in Producers : From[m] = {m} \cup UNION {From[d] : d \in reads[m]}
    <2> HIDE DEF From
    <2> QED BY <1>3
<1> HIDE DEF From
<1> DEFINE G == {m \in Producers : From[m] \subseteq Producers
                                   /\ \A x \in From[m] : reads[x] \subseteq From[m]}
<1>5. ASSUME NEW m \in Producers, reads[m] \subseteq G PROVE m \in G
    <2>1. \A d \in reads[m] : /\ d \in Producers /\ From[d] \subseteq Producers
                              /\ d \in From[d]
                              /\ \A x \in From[d] : reads[x] \subseteq From[d]
        BY <1>4, <1>5
    <2>2. From[m] \subseteq Producers
        BY <1>4, <2>1
    <2>3. ASSUME NEW x \in From[m] PROVE reads[x] \subseteq From[m]
        <3>1. CASE x = m
            BY <1>4, <2>1, <3>1
        <3>2. CASE x # m
            BY <1>4, <2>1, <3>2
        <3> QED BY <3>1, <3>2
    <2> QED BY <2>2, <2>3
<1>6. Atoms \subseteq G
    BY <1>5 DEF Producers
<1>7. ASSUME NEW c \in Computeds, \A d \in Computeds : r[Start(d)] < r[Start(c)] => d \in G
      PROVE  c \in G
    <2>1. c \in Producers
        BY DEF Producers
    <2>2. reads[c] \subseteq Producers
        BY <2>1
    <2>3. ASSUME NEW d \in reads[c] PROVE d \in G
        <3>1. d \in Atoms \/ d \in Computeds
            BY <2>2 DEF Producers
        <3> QED BY <1>6, <1>7, <3>1 DEF Descends
    <2> HIDE DEF G
    <2> QED BY <1>5, <2>1, <2>3
<1> HIDE DEF G
<1>8. Producers \subseteq G
    BY <1>6, <1>7, NodeInduction, Zenon
<1> QED BY <1>1, <1>4, <1>8 DEF G

\* The certificate of n, from those of what it reads.
Certifies(reads, trusted, W, cert, n) ==
    cert[n] = IF n \in trusted THEN memos[<<n, W>>].certificate
              ELSE IF n \in Atoms THEN {recordSource(n)}
              ELSE UNION {{recordSource(d)} \cup cert[d] : d \in reads[n]}

\* The certificates of a read solve their equations.
LEMMA CertificateIs ==
    ASSUME NEW reads \in [Producers -> SUBSET Producers], NEW trusted, NEW W, NEW resolved,
           \A m \in Producers \ (trusted \cup Atoms) : resolved[m].reads = reads[m],
           NEW n \in Producers
    PROVE  Certifies(reads, trusted, W, inheritCertificate(resolved, trusted, W), n)
<1> DEFINE F(f) == [m \in Producers |->
                       IF m \in trusted THEN memos[<<m, W>>].certificate
                       ELSE IF m \in Atoms THEN {recordSource(m)}
                       ELSE UNION {{recordSource(d)} \cup f[d] : d \in resolved[m].reads}]
           Of == CHOOSE f : f = F(f)
<1>1. inheritCertificate(resolved, trusted, W) = Of
    BY DEF inheritCertificate
<1>2. \E f : f = F(f)
    <2> DEFINE E == [m \in Producers |-> IF m \in trusted \cup Atoms THEN {} ELSE reads[m]]
               A == [m \in Producers |->
                        IF m \in trusted THEN memos[<<m, W>>].certificate
                        ELSE IF m \in Atoms THEN {recordSource(m)}
                        ELSE {recordSource(d) : d \in reads[m]}]
    <2>1. E \in [Producers -> SUBSET Producers]
        OBVIOUS
    <2>2. PICK f : f = [m \in Producers |-> A[m] \cup UNION {f[d] : d \in E[m]}]
        <3> HIDE DEF E, A
        <3>1. \E f : Gathers(Producers, E, A, f)
            BY <2>1, GatherExists
        <3> QED BY <3>1 DEF Gathers
    <2>3. ASSUME NEW m \in Producers
          PROVE  A[m] \cup UNION {f[d] : d \in E[m]} = F(f)[m]
        <3>1. CASE m \in trusted \/ m \in Atoms
            <4>1. E[m] = {} /\ UNION {f[d] : d \in {}} = {}
                BY <3>1
            <4>2. A[m] = IF m \in trusted THEN memos[<<m, W>>].certificate
                         ELSE {recordSource(m)}
                BY <3>1
            <4>3. F(f)[m] = A[m]
                BY <3>1, <4>2
            <4> HIDE DEF E, A, F
            <4> QED BY <4>1, <4>3
        <3>2. CASE m \notin trusted /\ m \notin Atoms
            <4>1. E[m] = reads[m] /\ A[m] = {recordSource(d) : d \in reads[m]}
                BY <3>2
            <4>2. F(f)[m] = UNION {{recordSource(d)} \cup f[d] : d \in reads[m]}
                BY <3>2
            <4> HIDE DEF E, A, F
            <4> QED BY <4>1, <4>2
        <3> QED BY <3>1, <3>2
    <2>4. F(f) = [m \in Producers |-> F(f)[m]]
        OBVIOUS
    <2> HIDE DEF F, A, E
    <2> QED BY <2>2, <2>3, <2>4
<1>3. Of = F(Of)
    <2> HIDE DEF F
    <2> QED BY <1>2
<1> HIDE DEF Of
<1>4. Of[n] = F(Of)[n]
    BY <1>3
<1>5. ~(n \in trusted) /\ ~(n \in Atoms) => resolved[n].reads = reads[n]
    OBVIOUS
<1>6. F(Of)[n] = IF n \in trusted THEN memos[<<n, W>>].certificate
                 ELSE IF n \in Atoms THEN {recordSource(n)}
                 ELSE UNION {{recordSource(d)} \cup Of[d] : d \in reads[n]}
    BY <1>5
<1> HIDE DEF F
<1> QED BY <1>1, <1>4, <1>6 DEF Certifies

\* A set of producers that is shut under reads, and in which every atom has an
\* entry in the certificate.
Rests(reads, cert) ==
    {D \in SUBSET Producers : /\ \A m \in D : reads[m] \subseteq D
                              /\ \A a \in D \cap Atoms : \E e \in cert : e.node = a}
Supported(reads, cert) == UNION Rests(reads, cert)

\* The largest such set is one, and grows with the certificate.
LEMMA SupportedRests ==
    ASSUME NEW reads, NEW cert
    PROVE  /\ Supported(reads, cert) \in Rests(reads, cert)
           /\ \A c : cert \subseteq c => Supported(reads, cert) \subseteq Supported(reads, c)
<1>1. Supported(reads, cert) \in Rests(reads, cert)
    <2>1. ASSUME NEW m \in Supported(reads, cert) PROVE m \in Producers
        <3>1. PICK D \in Rests(reads, cert) : m \in D
            BY DEF Supported
        <3> QED BY <3>1 DEF Rests
    <2>2. ASSUME NEW m \in Supported(reads, cert) PROVE reads[m] \subseteq Supported(reads, cert)
        <3>1. PICK D \in Rests(reads, cert) : m \in D
            BY DEF Supported
        <3>2. reads[m] \subseteq D
            BY <3>1 DEF Rests
        <3> QED BY <3>1, <3>2 DEF Supported
    <2>3. ASSUME NEW a \in Supported(reads, cert) \cap Atoms PROVE \E e \in cert : e.node = a
        <3>1. PICK D \in Rests(reads, cert) : a \in D
            BY DEF Supported
        <3> QED BY <3>1 DEF Rests
    <2> QED BY <2>1, <2>2, <2>3 DEF Rests
<1>2. ASSUME NEW c, cert \subseteq c PROVE Supported(reads, cert) \subseteq Supported(reads, c)
    <2>1. Rests(reads, cert) \subseteq Rests(reads, c)
        BY <1>2 DEF Rests
    <2> QED BY <2>1 DEF Supported
<1> QED BY <1>1, <1>2

\* What a read certifies of a node is made of what it trusted and of present
\* readings, and supports the node.
LEMMA CertificateSupports ==
    ASSUME NEW N \in Nat, NEW r \in [Points -> 0..N],
           NEW reads \in [Producers -> SUBSET Producers], Descends(r, reads),
           \A a \in Atoms : reads[a] = {},
           NEW trusted, NEW W, NEW resolved,
           \A m \in Producers \ (trusted \cup Atoms) : resolved[m].reads = reads[m],
           NEW S, \A d \in Producers : recordSource(d) \in S,
           \A m \in trusted : /\ memos[<<m, W>>].certificate \subseteq S
                              /\ m \in Supported(reads, memos[<<m, W>>].certificate)
    PROVE  \A n \in Producers :
              LET cert == inheritCertificate(resolved, trusted, W) IN
              cert[n] \subseteq S /\ n \in Supported(reads, cert[n])
<1> DEFINE cert == inheritCertificate(resolved, trusted, W)
           G == {n \in Producers : cert[n] \subseteq S /\ n \in Supported(reads, cert[n])}
<1>1. \A n \in Producers : Certifies(reads, trusted, W, cert, n)
    BY CertificateIs, Zenon
<1> HIDE DEF cert
<1>2. ASSUME NEW n \in Producers, n \in trusted PROVE n \in G
    <2>1. cert[n] = memos[<<n, W>>].certificate
        BY <1>1, <1>2 DEF Certifies
    <2> QED BY <1>2, <2>1
<1>3. ASSUME NEW n \in Atoms, n \notin trusted PROVE n \in G
    <2>1. n \in Producers /\ cert[n] = {recordSource(n)}
        BY <1>1, <1>3 DEF Producers, Certifies
    <2>2. recordSource(n).node = n
        BY DEF recordSource
    <2>3. {n} \in Rests(reads, cert[n])
        BY <2>1, <2>2 DEF Rests
    <2> QED BY <2>1, <2>3 DEF Supported
<1>4. ASSUME NEW n \in Computeds, n \notin trusted, reads[n] \subseteq G PROVE n \in G
    <2>1. n \in Producers /\ cert[n] = UNION {{recordSource(d)} \cup cert[d] : d \in reads[n]}
        BY <1>1, <1>4, NodesAssumption DEF Producers, Certifies
    <2>2. \A d \in reads[n] : d \in Producers /\ cert[d] \subseteq cert[n] /\ cert[d] \subseteq S
                              /\ d \in Supported(reads, cert[d])
        BY <1>4, <2>1
    <2>3. cert[n] \subseteq S
        BY <2>1, <2>2
    <2>4. reads[n] \subseteq Supported(reads, cert[n])
        BY <2>2, SupportedRests
    <2> DEFINE D == {n} \cup Supported(reads, cert[n])
    <2>5. D \in Rests(reads, cert[n])
        <3>1. Supported(reads, cert[n]) \in Rests(reads, cert[n])
            BY SupportedRests
        <3> QED BY <2>1, <2>4, <3>1, NodesAssumption DEF Rests
    <2>6. n \in Supported(reads, cert[n])
        BY <2>5 DEF Supported
    <2> QED BY <2>1, <2>3, <2>6
<1>5. Atoms \subseteq G
    BY <1>2, <1>3 DEF Producers
<1>6. ASSUME NEW c \in Computeds, \A d \in Computeds : r[Start(d)] < r[Start(c)] => d \in G
      PROVE  c \in G
    <2>1. c \in Producers
        BY DEF Producers
    <2>2. reads[c] \subseteq Producers
        BY <2>1
    <2>3. ASSUME NEW d \in reads[c] PROVE d \in G
        <3>1. d \in Atoms \/ d \in Computeds
            BY <2>2 DEF Producers
        <3> QED BY <1>5, <1>6, <3>1 DEF Descends
    <2> HIDE DEF G
    <2> QED BY <1>2, <1>4, <2>1, <2>3
<1> HIDE DEF G
<1>7. Producers \subseteq G
    BY <1>5, <1>6, NodeInduction, Zenon
<1> QED BY <1>7 DEF G, cert

-----------------------------------------------------------------------------
(***************************************************************************)
(* What evaluating everything in a world gives.                            *)
(***************************************************************************)
Pure(W) == Resolved(W, {})
PureReads(W) == [m \in Producers |-> Pure(W)[m].reads]

\* f is the evaluation of everything in W, outs its outcomes, and Pure(W) its
\* summary.
RunsTo(W, f, outs) ==
    /\ Evaluates(shape, outs, f)
    /\ outs[Awaited] = Promised
    /\ \A a \in Atoms : outs[a] = Settled(Resolve(a, W))
    /\ \A c \in Computeds : outs[c] = f[Start(c)].outcome
    /\ \A n \in Producers : Pure(W)[n].outcome = outs[n]
PurelyRuns(W, f) ==
    /\ \E outs : RunsTo(W, f, outs)
    /\ \A a \in Atoms : Pure(W)[a].reads = {}
    /\ \A c \in Computeds : Pure(W)[c].reads = f[Start(c)].reads
EverythingRuns == \A W \in SUBSET DraftIds : \E f : PurelyRuns(W, f)

\* Everything has an evaluation, in each world and after each step.
LEMMA PureRuns ==
    ASSUME BodiesAreWellTyped, NEW rank, NEW most, BodiesEnd(rank, most)
    PROVE  Typed => EverythingRuns
<1> SUFFICES ASSUME Typed, NEW W \in SUBSET DraftIds PROVE \E f : PurelyRuns(W, f)
    BY DEF EverythingRuns
<1>1. PICK f : Resolves(W, {}, f)
    BY ResolvedRuns
<1>0. PICK outs : outs = OutsIn(W, {}, f)
    OBVIOUS
<1>11. PICK P : P = Pure(W)
    OBVIOUS
<1>2. P = [n \in Producers |->
                   [outcome |-> outs[n],
                    reads |-> IF n \in Atoms THEN {} ELSE f[Start(n)].reads]]
    BY <1>0, <1>1, <1>11 DEF Resolves, Pure
<1>3. \A n \in Producers \cup {Awaited} :
          outs[n] = IF n \in Atoms \cup {Awaited} THEN Known(W, {})[n] ELSE f[Start(n)].outcome
    BY <1>0 DEF OutsIn, Outs, Given
<1>4. outs[Awaited] = Promised
    BY <1>3 DEF Known, Given
<1>5. \A a \in Atoms : outs[a] = Settled(Resolve(a, W))
    <2>1. \A a \in Atoms : a # Awaited /\ a \in Producers
        BY PromiseAssumption DEF Producers
    <2> QED BY <1>3, <2>1 DEF Known, Given
<1>6. \A c \in Computeds : outs[c] = f[Start(c)].outcome
    <2>1. \A c \in Computeds : c # Awaited /\ c \in Producers /\ c \notin Atoms
        BY PromiseAssumption, NodesAssumption DEF Producers
    <2> QED BY <1>3, <2>1
<1>7. \A c \in Computeds : c \in Producers /\ c \notin Atoms
    BY NodesAssumption DEF Producers
<1>8. \A a \in Atoms : a \in Producers
    BY DEF Producers
<1>9. ASSUME NEW n \in Producers
      PROVE  /\ P[n].outcome = outs[n]
             /\ P[n].reads = IF n \in Atoms THEN {} ELSE f[Start(n)].reads
    BY <1>2
<1>10. \A n \in Producers :
          /\ Pure(W)[n].outcome = outs[n]
          /\ Pure(W)[n].reads = IF n \in Atoms THEN {} ELSE f[Start(n)].reads
    BY <1>9, <1>11
<1>12. /\ \A a \in Atoms : Pure(W)[a].reads = {}
       /\ \A c \in Computeds : Pure(W)[c].reads = f[Start(c)].reads
    BY <1>7, <1>8, <1>10
<1>13. Evaluates(shape, outs, f)
    BY <1>0, <1>1 DEF Resolves
<1>14. RunsTo(W, f, outs)
    <2>1. \A n \in Producers : Pure(W)[n].outcome = outs[n]
        BY <1>10
    <2> QED BY <1>4, <1>5, <1>6, <1>13, <2>1 DEF RunsTo
<1>15. PurelyRuns(W, f)
    BY <1>12, <1>14 DEF PurelyRuns
<1> QED BY <1>15

LEMMA PureRunsNext ==
    ASSUME BodiesAreWellTyped, NEW rank, NEW most, BodiesEnd(rank, most)
    PROVE  Typed' => EverythingRuns'
BY PureRuns, PTL

\* Types, and the order of what is read.
LEMMA PureTypes ==
    ASSUME BodiesAreWellTyped, NEW rank, NEW most, BodiesEnd(rank, most), Typed,
           NEW W \in SUBSET DraftIds
    PROVE  /\ \A n \in Producers : Pure(W)[n].outcome \in Outcomes
           /\ PureReads(W) \in [Producers -> SUBSET Producers]
           /\ \A a \in Atoms : PureReads(W)[a] = {} /\ Pure(W)[a].outcome.kind = "value"
           /\ Descends(rank[shape], PureReads(W))
           /\ \A n \in Producers : PureReads(W)[n] = Pure(W)[n].reads
<1>1. PICK f : PurelyRuns(W, f)
    BY PureRuns DEF EverythingRuns
<1>2. PICK outs : /\ Evaluates(shape, outs, f)
                  /\ outs[Awaited] = Promised
                  /\ \A a \in Atoms : outs[a] = Settled(Resolve(a, W))
                  /\ \A c \in Computeds : outs[c] = f[Start(c)].outcome
                  /\ \A n \in Producers : Pure(W)[n].outcome = outs[n]
    BY <1>1 DEF PurelyRuns, RunsTo
<1>3. /\ \A a \in Atoms : Pure(W)[a].reads = {}
      /\ \A c \in Computeds : Pure(W)[c].reads = f[Start(c)].reads
    BY <1>1 DEF PurelyRuns
<1>4. \A c \in Computeds : f[Start(c)].reads \subseteq Producers
    BY <1>2, StartsArePoints DEF Evaluates, Ran
<1>5. \A n \in Producers : Pure(W)[n].outcome \in Outcomes
    BY <1>2 DEF Evaluates
<1>6. PureReads(W) \in [Producers -> SUBSET Producers]
    BY <1>3, <1>4 DEF PureReads, Producers
<1>7. \A n \in Producers : PureReads(W)[n] = Pure(W)[n].reads
    BY DEF PureReads
<1>8. \A a \in Atoms : PureReads(W)[a] = {} /\ Pure(W)[a].outcome.kind = "value"
    <2>1. \A a \in Atoms : a \in Producers
        BY DEF Producers
    <2>2. \A a \in Atoms : Pure(W)[a].outcome = Settled(Resolve(a, W))
        BY <1>2, <2>1
    <2>3. \A v : Settled(v).kind = "value"
        BY DEF Settled
    <2> QED BY <1>3, <1>7, <2>1, <2>2, <2>3
<1>9. Descends(rank[shape], PureReads(W))
    <2>1. shape \in Shapes /\ most[shape] \in Nat /\ rank[shape] \in [Points -> 0..most[shape]]
          /\ Falls(shape, rank[shape])
        BY DEF Typed, BodiesEnd
    <2>2. \A p \in Points : Sound(shape, outs, f, rank[shape], p)
        BY <1>2, <2>1, EvaluationIsSound
    <2>3. \A c \in Computeds : PureReads(W)[c] = f[Start(c)].reads
        BY <1>3, <1>7 DEF Producers
    <2> QED BY <2>2, <2>3, StartsArePoints DEF Descends, Sound
<1> QED BY <1>5, <1>6, <1>7, <1>8, <1>9

\* What is pending awaits the promise, still to settle, or something pending
\* that it reads; what has a value read values only.
LEMMA PurePends ==
    ASSUME BodiesAreWellTyped, NEW rank, NEW most, BodiesEnd(rank, most), Typed,
           NEW W \in SUBSET DraftIds, NEW n \in Producers
    PROVE  /\ Pure(W)[n].outcome.kind = "suspended" =>
                 LET of == Pure(W)[n].outcome.of IN
                 /\ n \in Computeds
                 /\ \/ of = Awaited /\ status = "pending"
                    \/ of \in PureReads(W)[n] \cap Computeds
                       /\ Pure(W)[of].outcome.kind = "suspended"
           /\ Pure(W)[n].outcome.kind = "value" =>
                 \A d \in PureReads(W)[n] : Pure(W)[d].outcome.kind = "value"
<1>1. PICK f : PurelyRuns(W, f)
    BY PureRuns DEF EverythingRuns
<1>2. PICK outs : /\ Evaluates(shape, outs, f)
                  /\ outs[Awaited] = Promised
                  /\ \A a \in Atoms : outs[a] = Settled(Resolve(a, W))
                  /\ \A c \in Computeds : outs[c] = f[Start(c)].outcome
                  /\ \A m \in Producers : Pure(W)[m].outcome = outs[m]
    BY <1>1 DEF PurelyRuns, RunsTo
<1>3. /\ PureReads(W) \in [Producers -> SUBSET Producers]
      /\ \A a \in Atoms : PureReads(W)[a] = {} /\ Pure(W)[a].outcome.kind = "value"
      /\ \A m \in Producers : PureReads(W)[m] = Pure(W)[m].reads
      /\ \A m \in Producers : Pure(W)[m].outcome \in Outcomes
    BY PureTypes
<1>4. CASE n \in Atoms
    BY <1>3, <1>4
<1>5. CASE n \in Computeds
    <2>1. shape \in Shapes /\ most[shape] \in Nat /\ rank[shape] \in [Points -> 0..most[shape]]
          /\ Falls(shape, rank[shape])
        BY DEF Typed, BodiesEnd
    <2>2. \A p \in Points : Sound(shape, outs, f, rank[shape], p)
        BY <1>2, <2>1, EvaluationIsSound
    <2>3. Sound(shape, outs, f, rank[shape], Start(n))
        BY <1>5, <2>2, StartsArePoints
    <2>4. f[Start(n)].reads = PureReads(W)[n] /\ f[Start(n)].outcome = Pure(W)[n].outcome
        BY <1>1, <1>2, <1>3, <1>5 DEF PurelyRuns
    <2>5. PureReads(W)[n] \subseteq Producers
        BY <1>3
    <2>6. ASSUME Pure(W)[n].outcome.kind = "value"
          PROVE  \A d \in PureReads(W)[n] : Pure(W)[d].outcome.kind = "value"
        BY <1>2, <2>3, <2>4, <2>5, <2>6 DEF Sound
    <2>7. ASSUME Pure(W)[n].outcome.kind = "suspended", Pure(W)[n].outcome.of = Awaited
          PROVE  status = "pending"
        <3>1. Promised.kind = "suspended"
            BY <1>2, <2>3, <2>4, <2>7 DEF Sound
        <3> QED BY <3>1 DEF Promised, Settled, Typed
    <2>8. ASSUME Pure(W)[n].outcome.kind = "suspended", Pure(W)[n].outcome.of # Awaited
          PROVE  Pure(W)[n].outcome.of \in PureReads(W)[n] \cap Computeds
                 /\ Pure(W)[Pure(W)[n].outcome.of].outcome.kind = "suspended"
        <3> DEFINE of == Pure(W)[n].outcome.of
        <3>1. of \in PureReads(W)[n] /\ outs[of].kind = "suspended"
            BY <2>3, <2>4, <2>8 DEF Sound
        <3>2. of \in Producers /\ Pure(W)[of].outcome.kind = "suspended"
            BY <1>2, <2>5, <3>1
        <3>3. of \notin Atoms
            BY <1>3, <3>2
        <3> QED BY <3>1, <3>2, <3>3 DEF Producers
    <2> QED BY <1>5, <2>6, <2>7, <2>8
<1> QED BY <1>4, <1>5 DEF Producers

\* Trusting memos that have what evaluating would give changes nothing.
LEMMA TrustedAgree ==
    ASSUME BodiesAreWellTyped, NEW rank, NEW most, BodiesEnd(rank, most), Typed,
           NEW W \in SUBSET DraftIds, NEW trusted \in SUBSET Producers,
           \A n \in trusted : /\ memos[<<n, W>>] \in Memos
                              /\ memos[<<n, W>>].outcome = Pure(W)[n].outcome
    PROVE  /\ \A n \in Producers : Resolved(W, trusted)[n].outcome = Pure(W)[n].outcome
           /\ \A n \in Producers : Resolved(W, trusted)[n].reads =
                                      IF n \in trusted THEN {} ELSE PureReads(W)[n]
<1>1. PICK f : PurelyRuns(W, f)
    BY PureRuns DEF EverythingRuns
<1>2. PICK outs : /\ Evaluates(shape, outs, f)
                  /\ outs[Awaited] = Promised
                  /\ \A a \in Atoms : outs[a] = Settled(Resolve(a, W))
                  /\ \A c \in Computeds : outs[c] = f[Start(c)].outcome
                  /\ \A m \in Producers : Pure(W)[m].outcome = outs[m]
    BY <1>1 DEF PurelyRuns, RunsTo
<1>3. PICK g : Resolves(W, trusted, g)
    BY ResolvedRuns
<1> DEFINE o == OutsIn(W, trusted, g)
<1>4. /\ Evaluates(shape, o, g)
      /\ Resolved(W, trusted) =
            [n \in Producers |->
                [outcome |-> o[n],
                 reads |-> IF n \in trusted \cup Atoms THEN {} ELSE g[Start(n)].reads]]
    BY <1>3 DEF Resolves
<1>5. /\ o[Awaited] = Promised
      /\ \A n \in trusted : o[n] = memos[<<n, W>>].outcome
      /\ \A a \in Atoms \ trusted : o[a] = Settled(Resolve(a, W))
      /\ \A c \in Computeds \ trusted : o[c] = g[Start(c)].outcome
    <2>1. \A n \in Producers \cup {Awaited} :
              o[n] = IF n \in Given(trusted) THEN Known(W, trusted)[n] ELSE g[Start(n)].outcome
        BY DEF OutsIn, Outs
    <2>2. \A n \in Producers : n # Awaited
        BY PromiseAssumption
    <2>3. \A c \in Computeds : c \in Producers /\ c \notin Atoms
        BY NodesAssumption DEF Producers
    <2>4. \A a \in Atoms : a \in Producers
        BY DEF Producers
    <2> HIDE DEF o
    <2> QED BY <2>1, <2>2, <2>3, <2>4 DEF Given, Known
<1>6. shape \in Shapes /\ most[shape] \in Nat /\ rank[shape] \in [Points -> 0..most[shape]]
      /\ Falls(shape, rank[shape])
    BY DEF Typed, BodiesEnd
<1> HIDE DEF o
<1>7. \A c \in Producers : \/ o[c] = outs[c]
                           \/ /\ c \in Computeds
                              /\ outs[c] = f[Start(c)].outcome /\ o[c] = g[Start(c)].outcome
    <2>1. \A n \in trusted : o[n] = outs[n]
        BY <1>2, <1>5
    <2>2. \A a \in Atoms \ trusted : o[a] = outs[a]
        BY <1>2, <1>5
    <2> QED BY <1>2, <1>5, <2>1, <2>2 DEF Producers
<1>8. \A p \in Points : f[p].reads \subseteq Producers
    BY <1>2 DEF Evaluates, Ran
<1>9. \A p \in Points : g[p] = f[p]
    <2>1. \A c \in Producers \cap Computeds : f[Start(c)].reads \subseteq Producers
        BY <1>8, StartsArePoints
    <2>2. o[Awaited] = outs[Awaited]
        BY <1>2, <1>5
    <2>3. Matches(Producers, outs, f, o, g)
        BY <1>7, <2>1, <2>2 DEF Matches
    <2>4. \A p \in Points : AgreesAt(p, Producers, outs, f, o, g)
        BY <1>2, <1>4, <1>6, <2>3, EvaluationsAgree
    <2> QED BY <1>8, <2>2, <2>4 DEF AgreesAt
<1>10. \A n \in Producers : o[n] = outs[n]
    BY <1>2, <1>7, <1>9, StartsArePoints
<1>11. ASSUME NEW n \in Producers
       PROVE  Resolved(W, trusted)[n].reads = IF n \in trusted THEN {} ELSE PureReads(W)[n]
    <2>1. Resolved(W, trusted)[n].reads =
             IF n \in trusted \cup Atoms THEN {} ELSE g[Start(n)].reads
        BY <1>4
    <2>2. /\ n \in Atoms => PureReads(W)[n] = {}
          /\ n \in Computeds => PureReads(W)[n] = f[Start(n)].reads
        BY <1>1, PureTypes DEF PurelyRuns
    <2>3. n \in Computeds => g[Start(n)] = f[Start(n)] /\ n \notin Atoms
        BY <1>9, StartsArePoints, NodesAssumption
    <2> QED BY <2>1, <2>2, <2>3 DEF Producers
<1>12. \A n \in Producers : Resolved(W, trusted)[n].outcome = o[n]
    BY <1>4
<1> QED BY <1>2, <1>10, <1>11, <1>12

\* A step that moves none of the sources of what is shut under reads moves
\* nothing of it; and if the promise settles, nothing that had a value.
LEMMA PureKept ==
    ASSUME BodiesAreWellTyped, NEW rank, NEW most, BodiesEnd(rank, most),
           Typed, Typed', shape' = shape,
           NEW W \in SUBSET DraftIds, NEW C \in SUBSET Producers,
           \A c \in C : PureReads(W)[c] \subseteq C,
           \A a \in C \cap Atoms : Resolve(a, W)' = Resolve(a, W),
           \/ status' = status
           \/ /\ status = "pending" /\ \A c \in C : Pure(W)[c].outcome.kind = "value"
    PROVE  \A c \in C : /\ Pure(W)'[c].outcome = Pure(W)[c].outcome
                        /\ PureReads(W)'[c] = PureReads(W)[c]
<1>1. PICK f : PurelyRuns(W, f)
    BY PureRuns DEF EverythingRuns
<1>2. PICK outs : /\ Evaluates(shape, outs, f)
                  /\ outs[Awaited] = Promised
                  /\ \A a \in Atoms : outs[a] = Settled(Resolve(a, W))
                  /\ \A c \in Computeds : outs[c] = f[Start(c)].outcome
                  /\ \A m \in Producers : Pure(W)[m].outcome = outs[m]
    BY <1>1 DEF PurelyRuns, RunsTo
<1>3. PICK g : PurelyRuns(W, g)'
    BY PureRunsNext DEF EverythingRuns
<1>4. PICK o : /\ Evaluates(shape', o, g)
               /\ o[Awaited] = Promised'
               /\ \A a \in Atoms : o[a] = Settled(Resolve(a, W)')
               /\ \A c \in Computeds : o[c] = g[Start(c)].outcome
               /\ \A m \in Producers : Pure(W)'[m].outcome = o[m]
    BY <1>3 DEF PurelyRuns, RunsTo
<1>5. shape \in Shapes /\ most[shape] \in Nat /\ rank[shape] \in [Points -> 0..most[shape]]
      /\ Falls(shape, rank[shape])
    BY DEF Typed, BodiesEnd
<1>6. PureReads(W) \in [Producers -> SUBSET Producers]
      /\ \A c \in Computeds : PureReads(W)[c] = f[Start(c)].reads
    <2>1. PureReads(W) \in [Producers -> SUBSET Producers]
          /\ \A n \in Producers : PureReads(W)[n] = Pure(W)[n].reads
        BY PureTypes
    <2> QED BY <1>1, <2>1 DEF PurelyRuns, Producers
<1>7. \A c \in C \cap Computeds : f[Start(c)].reads \subseteq C
    BY <1>6
<1>8. \A c \in C : \/ o[c] = outs[c]
                   \/ /\ c \in Computeds
                      /\ outs[c] = f[Start(c)].outcome /\ o[c] = g[Start(c)].outcome
    BY <1>2, <1>4 DEF Producers
<1> DEFINE Steady == status' = status
<1>9. /\ Steady => o[Awaited] = outs[Awaited]
      /\ ~Steady => outs[Awaited].kind = "suspended"
    BY <1>2, <1>4 DEF Promised, Pending
<1>10. ASSUME NEW c \in C \cap Computeds PROVE g[Start(c)] = f[Start(c)]
    <2>1. Matches(C, outs, f, o, g)
        BY <1>7, <1>8, <1>9 DEF Matches
    <2>2. \A p \in Points : AgreesAt(p, C, outs, f, o, g)
        <3>1. Evaluates(shape, o, g)
            BY <1>4
        <3> QED BY <1>2, <1>5, <2>1, <3>1, EvaluationsAgree
    <2>3. Steady \/ f[Start(c)].outcome.kind = "value"
        BY <1>2, <1>10
    <2> QED BY <1>7, <1>9, <1>10, <2>2, <2>3, StartsArePoints DEF AgreesAt
<1>11. ASSUME NEW c \in C \cap Computeds
       PROVE  Pure(W)'[c].outcome = Pure(W)[c].outcome /\ PureReads(W)'[c] = PureReads(W)[c]
    <2>1. c \in Producers
        BY <1>11
    <2>2. Pure(W)'[c].outcome = Pure(W)[c].outcome
        BY <1>2, <1>4, <1>10, <1>11, <2>1
    <2>3. Pure(W)'[c].reads = g[Start(c)].reads /\ PureReads(W)'[c] = Pure(W)'[c].reads
        BY <1>3, <1>11, <2>1 DEF PurelyRuns, PureReads
    <2> QED BY <1>6, <1>10, <1>11, <2>2, <2>3
<1>12. ASSUME NEW c \in C \cap Atoms
       PROVE  Pure(W)'[c].outcome = Pure(W)[c].outcome /\ PureReads(W)'[c] = PureReads(W)[c]
    <2>1. c \in Producers
        BY <1>12
    <2>2. Pure(W)'[c].outcome = Pure(W)[c].outcome
        BY <1>2, <1>4, <1>12, <2>1
    <2>3. Pure(W)'[c].reads = {} /\ PureReads(W)'[c] = Pure(W)'[c].reads
        BY <1>3, <1>12, <2>1 DEF PurelyRuns, PureReads
    <2>4. PureReads(W)[c] = {}
        BY <1>12, PureTypes
    <2> QED BY <2>2, <2>3, <2>4
<1> QED BY <1>11, <1>12 DEF Producers

-----------------------------------------------------------------------------
(***************************************************************************)
(* The invariant behind MemoServesCurrent.                                 *)
(***************************************************************************)
\* The readings of the atoms, and those that certificates have of them.
Readings ==
    /\ changedAt \in [Producers -> Nat] /\ draftRevision \in [Atoms -> Nat]
    /\ \A a \in Atoms : changedAt[a] <= clock /\ draftRevision[a] <= clock
CertificatesPast ==
    \A k \in Keys : memos[k] # None =>
        \A e \in memos[k].certificate :
            e.node \in Atoms => e.changedAt <= clock /\ e.revision <= clock

\* No atom that the certificate of a memo names has another reading by now.
Undisturbed(k) ==
    \A e \in memos[k].certificate : e.node \in Atoms => stillReads(e)
StampedRests ==
    \A k \in Keys : memos[k] # None /\ memos[k].validAt = clock => Undisturbed(k)

\* A memo is of drafts that were opened.
WorldsOpened ==
    \A k \in Keys : memos[k] # None => \A d \in k[2] : draftState[d] # "unopened"

\* A memo has what evaluating everything gives, and its certificate names all
\* the atoms this rests on.
Explained(k) ==
    /\ memos[k].outcome = Pure(k[2])[k[1]].outcome
    /\ k[1] \in Supported(PureReads(k[2]), memos[k].certificate)
MemosExplained ==
    \A k \in Keys :
        /\ memos[k] # None /\ k[2] \subseteq OpenDrafts
        /\ Undisturbed(k)
        /\ memos[k].outcome.kind = "suspended" => status = "pending"
        => Explained(k)

\* A pending memo is parked on what it awaits, until its suspension is
\* resolved; those that others await are parked themselves, or due to be told.
Awaits(k) ==
    IF memos[k].outcome.of = Awaited THEN Awaited ELSE <<memos[k].outcome.of, k[2]>>
Boxes == Keys \cup {Awaited}
ParkedBelow(rank) ==
    \A q \in Boxes : \A p \in parked[q] :
        /\ memos[p] # None /\ p[1] \in Computeds
        /\ q \in Keys => /\ q[1] \in Computeds
                         /\ rank[shape][Start(q[1])] < rank[shape][Start(p[1])]
PendingParked ==
    \A k \in Keys : memos[k] # None /\ memos[k].outcome.kind = "suspended" /\ k \notin spent =>
        k \in parked[Awaits(k)]
AwaitedParked ==
    \A q \in Keys : ~(parked[q] \subseteq spent) =>
        q \in due \/ (q \notin spent /\ \E r \in Boxes : q \in parked[r])
Parking(rank) ==
    /\ parked \in [Boxes -> SUBSET Keys] /\ spent \subseteq Keys /\ due \subseteq Keys
    /\ ParkedBelow(rank) /\ PendingParked /\ AwaitedParked
    /\ status = "fulfilled" /\ ~settling => parked[Awaited] \subseteq spent

\* A walk goes over producers, while a draft is open.
WalkOK == walk \in Seq(Producers) /\ (walk # <<>> => OpenDrafts # {})

\* A draft's written atoms are listed once.
WrittenOnce == \A d \in DraftIds : Distinct(written[d])

ServeInv(rank) ==
    /\ SpentInv /\ StoreInv /\ WrittenOnce /\ Typed
    /\ Readings /\ CertificatesPast /\ StampedRests
    /\ WorldsOpened /\ MemosExplained
    /\ Parking(rank) /\ WalkOK

-----------------------------------------------------------------------------
(***************************************************************************)
(* Steps that leave the memos alone.                                       *)
(***************************************************************************)
\* Of each atom, a step leaves readings and resolutions, or it leaves a
\* reading that no certificate can have.
AtomMoves(a) ==
    \/ changedAt'[a] > clock \/ draftRevision'[a] > clock
    \/ /\ changedAt'[a] = changedAt[a] /\ draftRevision'[a] = draftRevision[a]
       /\ \A W \in SUBSET OpenDrafts : W \subseteq OpenDrafts' => Resolve(a, W)' = Resolve(a, W)
AtomsMove == \A a \in Atoms : AtomMoves(a)

\* An open draft was open, or had yet to be opened.
OpensFresh ==
    /\ \A d \in OpenDrafts' : d \in OpenDrafts \/ draftState[d] = "unopened"
    /\ \A d \in DraftIds : draftState'[d] = "unopened" => draftState[d] = "unopened"

\* What is undisturbed after a step was before, and what it names stands.
LEMMA UndisturbedBefore ==
    ASSUME Typed, clock \in Nat, CertificatesPast, AtomsMove,
           NEW k \in Keys, memos[k] # None, memos'[k] = memos[k], Undisturbed(k)'
    PROVE  /\ Undisturbed(k)
           /\ \A e \in memos[k].certificate : e.node \in Atoms =>
                 \A W \in SUBSET OpenDrafts :
                    W \subseteq OpenDrafts' => Resolve(e.node, W)' = Resolve(e.node, W)
<1>1. ASSUME NEW e \in memos[k].certificate, e.node \in Atoms
      PROVE  /\ stillReads(e)
             /\ \A W \in SUBSET OpenDrafts :
                    W \subseteq OpenDrafts' => Resolve(e.node, W)' = Resolve(e.node, W)
    <2>1. e.changedAt = changedAt'[e.node] /\ e.revision = draftRevision'[e.node]
          /\ e = [node |-> e.node, changedAt |-> changedAt'[e.node],
                  revision |-> draftRevision'[e.node]]
        <3>1. stillReads(e)'
            BY <1>1 DEF Undisturbed
        <3>2. recordSource(e.node)' = e
            BY <3>1 DEF stillReads
        <3> QED BY <1>1, <3>2 DEF recordSource
    <2>2. e.changedAt <= clock /\ e.revision <= clock
        BY <1>1 DEF CertificatesPast
    <2>3. memos[k] \in Memos
        BY DEF Typed
    <2>4. e \in Sources
        BY <1>1, <2>3 DEF Memos
    <2>5. e.changedAt \in Nat /\ e.revision \in Nat
        BY <2>4 DEF Sources
    <2>6. AtomMoves(e.node)
        BY <1>1 DEF AtomsMove
    <2>7. /\ changedAt'[e.node] = changedAt[e.node]
          /\ draftRevision'[e.node] = draftRevision[e.node]
          /\ \A W \in SUBSET OpenDrafts :
                W \subseteq OpenDrafts' => Resolve(e.node, W)' = Resolve(e.node, W)
        <3>1. ~(changedAt'[e.node] > clock) /\ ~(draftRevision'[e.node] > clock)
            BY <2>1, <2>2, <2>5
        <3> QED BY <2>6, <3>1 DEF AtomMoves
    <2> QED BY <1>1, <2>1, <2>7 DEF stillReads, recordSource
<1> QED BY <1>1 DEF Undisturbed

\* A memo keeps its explanation over a step that leaves what it names.
LEMMA ExplainedKept ==
    ASSUME BodiesAreWellTyped, NEW rank, NEW most, BodiesEnd(rank, most),
           Typed, Typed', shape' = shape,
           NEW k \in Keys, memos[k] # None, memos'[k] = memos[k], Explained(k),
           \A e \in memos[k].certificate :
              e.node \in Atoms => Resolve(e.node, k[2])' = Resolve(e.node, k[2]),
           \/ status' = status
           \/ status = "pending" /\ memos[k].outcome.kind # "suspended"
    PROVE  Explained(k)'
<1> DEFINE W == k[2]
           n == k[1]
           cert == memos[k].certificate
           D == Supported(PureReads(W), cert)
           C == IF status' = status THEN D
                ELSE {c \in D : Pure(W)[c].outcome.kind = "value"}
<1>1. W \in SUBSET DraftIds /\ n \in Producers
    BY DEF Keys, Worlds
<1>2. n \in D /\ memos[k].outcome = Pure(W)[n].outcome
    BY DEF Explained
<1>3. /\ D \subseteq Producers
      /\ \A c \in D : PureReads(W)[c] \subseteq D
      /\ \A a \in D \cap Atoms : \E e \in cert : e.node = a
    BY SupportedRests DEF Rests
<1>4. /\ \A c \in Producers : Pure(W)[c].outcome \in Outcomes
      /\ PureReads(W) \in [Producers -> SUBSET Producers]
    BY <1>1, PureTypes
<1>5. \A c \in Producers : Pure(W)[c].outcome.kind = "value" =>
         \A d \in PureReads(W)[c] : Pure(W)[d].outcome.kind = "value"
    BY <1>1, PurePends
<1> HIDE DEF D
<1>6. C \in SUBSET Producers /\ C \subseteq D /\ n \in C
    <2>1. status' # status => Pure(W)[n].outcome.kind = "value"
        BY <1>1, <1>2, <1>4, OutcomeKinds
    <2> QED BY <1>2, <1>3, <2>1
<1>7. \A c \in C : PureReads(W)[c] \subseteq C
    BY <1>3, <1>4, <1>5
<1>8. \A a \in C \cap Atoms : Resolve(a, W)' = Resolve(a, W)
    BY <1>3, <1>6
<1>9. \/ status' = status
      \/ status = "pending" /\ \A c \in C : Pure(W)[c].outcome.kind = "value"
    OBVIOUS
<1> HIDE DEF C
<1>10. \A c \in C : /\ Pure(W)'[c].outcome = Pure(W)[c].outcome
                    /\ PureReads(W)'[c] = PureReads(W)[c]
    <2> HIDE DEF W
    <2> QED BY <1>1, <1>6, <1>7, <1>8, <1>9, PureKept
<1>11. C \in Rests(PureReads(W)', cert)
    BY <1>3, <1>6, <1>7, <1>10 DEF Rests
<1>12. n \in Supported(PureReads(W)', cert)
    BY <1>6, <1>11 DEF Supported
<1>13. memos'[k].outcome = Pure(W)'[n].outcome
    BY <1>2, <1>6, <1>10
<1> QED BY <1>12, <1>13 DEF Explained

\* Over a step that leaves the memos, what holds of them stays.
MemosHold == CertificatesPast /\ StampedRests /\ WorldsOpened /\ MemosExplained
PromiseMoves == status' = status \/ (status = "pending" /\ status' = "fulfilled")
LEMMA MemosMoveOn ==
    ASSUME BodiesAreWellTyped, NEW rank, NEW most, BodiesEnd(rank, most),
           Typed, Typed', clock \in Nat, clock' \in Nat, clock' >= clock, MemosStamped,
           Readings', MemosHold, AtomsMove, OpensFresh, PromiseMoves,
           shape' = shape, memos' = memos
    PROVE  MemosHold'
<1> USE DEF MemosHold
<1>1. CertificatesPast'
    <2> SUFFICES ASSUME NEW k \in Keys, memos[k] # None,
                        NEW e \in memos[k].certificate, e.node \in Atoms
                 PROVE  e.changedAt <= clock' /\ e.revision <= clock'
        BY DEF CertificatesPast
    <2>1. memos[k] \in Memos
        BY DEF Typed
    <2>2. e \in Sources
        BY <2>1 DEF Memos
    <2>3. e.changedAt \in Nat /\ e.revision \in Nat
        BY <2>2 DEF Sources
    <2>4. e.changedAt <= clock /\ e.revision <= clock
        BY DEF CertificatesPast
    <2> QED BY <2>3, <2>4
<1>2. StampedRests'
    <2> SUFFICES ASSUME NEW k \in Keys, memos[k] # None, memos[k].validAt = clock',
                        NEW e \in memos[k].certificate, e.node \in Atoms
                 PROVE  stillReads(e)'
        BY DEF StampedRests, Undisturbed
    <2>1. clock' = clock /\ memos[k].validAt = clock
        BY DEF MemosStamped
    <2>2. stillReads(e)
        BY <2>1 DEF StampedRests, Undisturbed
    <2>3. AtomMoves(e.node)
        BY DEF AtomsMove
    <2>4. /\ e.node \in Producers
          /\ changedAt'[e.node] \in Nat /\ changedAt'[e.node] <= clock'
          /\ draftRevision'[e.node] \in Nat /\ draftRevision'[e.node] <= clock'
        BY DEF Readings, Producers
    <2>5. changedAt'[e.node] = changedAt[e.node] /\ draftRevision'[e.node] = draftRevision[e.node]
        BY <2>1, <2>3, <2>4 DEF AtomMoves
    <2> QED BY <2>2, <2>5 DEF stillReads, recordSource
<1>3. WorldsOpened'
    <2> SUFFICES ASSUME NEW k \in Keys, memos[k] # None, NEW d \in k[2]
                 PROVE  draftState'[d] # "unopened"
        BY DEF WorldsOpened
    <2>1. d \in DraftIds
        BY DEF Keys, Worlds
    <2> QED BY <2>1 DEF WorldsOpened, OpensFresh
<1>4. MemosExplained'
    <2> SUFFICES ASSUME NEW k \in Keys, memos[k] # None, k[2] \subseteq OpenDrafts',
                        Undisturbed(k)',
                        memos[k].outcome.kind = "suspended" => status' = "pending"
                 PROVE  Explained(k)'
        BY DEF MemosExplained
    <2>1. k[2] \subseteq OpenDrafts
        BY DEF OpensFresh, WorldsOpened
    <2>2. /\ Undisturbed(k)
          /\ \A e \in memos[k].certificate : e.node \in Atoms =>
                \A W \in SUBSET OpenDrafts :
                    W \subseteq OpenDrafts' => Resolve(e.node, W)' = Resolve(e.node, W)
        BY UndisturbedBefore
    <2>3. memos[k].outcome.kind = "suspended" => status = "pending"
        BY DEF PromiseMoves
    <2>4. Explained(k)
        BY <2>1, <2>2, <2>3 DEF MemosExplained
    <2>5. \A e \in memos[k].certificate :
              e.node \in Atoms => Resolve(e.node, k[2])' = Resolve(e.node, k[2])
        BY <2>1, <2>2
    <2>6. \/ status' = status
          \/ status = "pending" /\ memos[k].outcome.kind # "suspended"
        BY DEF PromiseMoves
    <2> QED BY <2>4, <2>5, <2>6, ExplainedKept
<1> QED BY <1>1, <1>2, <1>3, <1>4

-----------------------------------------------------------------------------
(***************************************************************************)
(* What the steps of the drafts move.                                      *)
(***************************************************************************)
Moving == clock' \in Nat /\ clock' >= clock /\ Readings' /\ AtomsMove /\ OpensFresh

\* What a step shows nobody, of an atom whose readings it leaves, moves nothing.
LEMMA UnmovedAtoms ==
    ASSUME ValuesKept, \A a \in Atoms : changedAt'[a] = changedAt[a]
                                        /\ draftRevision'[a] = draftRevision[a]
    PROVE  AtomsMove
<1> SUFFICES ASSUME NEW a \in Atoms, NEW W \in SUBSET OpenDrafts
             PROVE  Resolve(a, W)' = Resolve(a, W)
    BY DEF AtomsMove, AtomMoves
<1>1. W \in SUBSET DraftIds
    BY DEF OpenDrafts
<1>2. Resolutions(a)'[W] = Resolutions(a)[W]
    BY DEF ValuesKept
<1> QED BY <1>1, <1>2 DEF Resolutions

\* Opening a draft.
LEMMA OpeningMoves ==
    ASSUME IdentityEquality, StoreInv, StoreInv', clock \in Nat, Readings,
           NEW d \in DraftIds, Open(d)
    PROVE  Moving
<1>1. openDraft(d) /\ clock' = clock + 1 /\ UNCHANGED <<changedAt, draftRevision>>
    BY DEF Open, Ticks, readings
<1>2. Readings' /\ clock' \in Nat /\ clock' >= clock
    <2>1. \A a \in Atoms : a \in Producers
        BY DEF Producers
    <2> QED BY <1>1, <2>1 DEF Readings
<1>3. AtomsMove
    BY <1>1, EngineQuiet, ReturnAssumption, UnmovedAtoms
<1>4. draftState \in [DraftIds -> States]
    BY DEF StoreInv, HistoryInv, TypeOK
<1>5. OpensFresh
    BY <1>1, <1>4 DEF OpensFresh, openDraft, OpenDrafts
<1> QED BY <1>2, <1>3, <1>5 DEF Moving

\* A drafted write.
LEMMA WritingMoves ==
    ASSUME IdentityEquality, StoreInv, StoreInv', clock \in Nat, Readings,
           NEW d \in DraftIds, NEW b \in Atoms, NEW op \in Ops, Append_(d, b, op)
    PROVE  Moving
<1>1. /\ draftIntent(d, b, op) /\ clock' = clock + 1 /\ UNCHANGED <<changedAt, draftState>>
      /\ draftRevision' = [a \in Atoms |-> IF a = b THEN clock + 1 ELSE draftRevision[a]]
    BY DEF Append_, Ticks, readings, Revised, appendDraftIntent, draftIntent
<1>2. clock' \in Nat /\ clock' >= clock /\ Readings'
    <2>1. \A a \in Atoms : a \in Producers
        BY DEF Producers
    <2> QED BY <1>1, <2>1 DEF Readings
<1>3. AtomsMove
    <2> SUFFICES ASSUME NEW a \in Atoms PROVE AtomMoves(a)
        BY DEF AtomsMove
    <2>1. CASE a = b
        BY <1>1, <2>1 DEF AtomMoves
    <2>2. CASE a # b
        <3>1. \A W \in SUBSET DraftIds : Rp(a, W)' = Rp(a, W)
            BY <1>1, <2>2, DraftWriteShows DEF StoreInv
        <3>2. \A W \in SUBSET DraftIds : Resolve(a, W)' = Resolve(a, W)
            BY <3>1, ByReplays, ReturnAssumption
        <3> QED BY <1>1, <2>2, <3>2 DEF AtomMoves, OpenDrafts
    <2> QED BY <2>1, <2>2
<1>4. OpensFresh
    BY <1>1 DEF OpensFresh, OpenDrafts
<1> QED BY <1>2, <1>3, <1>4 DEF Moving

\* An urgent write.
LEMMA UrgentMoves ==
    ASSUME IdentityEquality, StoreInv, StoreInv', clock \in Nat, Readings,
           NEW b \in Atoms, NEW op \in Ops, Urgent_(b, op)
    PROVE  Moving
<1> DEFINE logged == IF log[b] # NoLog THEN 1 ELSE 0
           changed == IF Same(base[b], op[base[b]]) THEN 0 ELSE 1
<1>1. /\ urgentIntent(b, op) /\ clock' = clock + (logged + changed) /\ draftState' = draftState
      /\ draftRevision' = [a \in Atoms |-> IF a \in (IF logged = 1 THEN {b} ELSE {})
                                           THEN clock + 1 ELSE draftRevision[a]]
      /\ changedAt' = IF changed = 1 THEN [changedAt EXCEPT ![b] = clock'] ELSE changedAt
    BY DEF Urgent_, Ticks, Revised, urgentWrite, urgentIntent
<1>2. logged \in {0, 1} /\ changed \in {0, 1}
    OBVIOUS
<1>3. clock' \in Nat /\ clock' >= clock /\ (logged = 1 \/ changed = 1 => clock' >= clock + 1)
    BY <1>1, <1>2
<1>4. Readings'
    <2>1. \A a \in Atoms : a \in Producers
        BY DEF Producers
    <2>2. changedAt' \in [Producers -> Nat] /\ \A a \in Atoms : changedAt'[a] <= clock'
        <3> HIDE DEF logged, changed
        <3> QED BY <1>1, <1>3, <2>1 DEF Readings
    <2>3. draftRevision' \in [Atoms -> Nat] /\ \A a \in Atoms : draftRevision'[a] <= clock'
        <3> HIDE DEF logged, changed
        <3> QED BY <1>1, <1>2, <1>3 DEF Readings
    <2> QED BY <2>2, <2>3 DEF Readings
<1>5. AtomsMove
    <2> SUFFICES ASSUME NEW a \in Atoms PROVE AtomMoves(a)
        BY DEF AtomsMove
    <2>1. a \in Producers /\ b \in Producers
        BY DEF Producers
    <2>2. CASE a = b /\ logged = 1
        <3>1. draftRevision'[a] = clock + 1
            <4> HIDE DEF logged
            <4> QED BY <1>1, <2>2
        <3> QED BY <3>1 DEF AtomMoves
    <2>3. CASE a = b /\ changed = 1
        <3>1. changedAt'[a] = clock'
            <4> HIDE DEF changed
            <4> QED BY <1>1, <2>1, <2>3 DEF Readings
        <3> QED BY <1>3, <2>3, <3>1 DEF AtomMoves
    <2>4. CASE a # b \/ (logged # 1 /\ changed # 1)
        <3>1. changedAt'[a] = changedAt[a] /\ draftRevision'[a] = draftRevision[a]
            <4> HIDE DEF logged, changed
            <4> QED BY <1>1, <2>1, <2>4 DEF Readings
        <3>2. \A W \in SUBSET DraftIds : Resolve(a, W)' = Resolve(a, W)
            <4>1. CASE a # b
                <5>1. \A W \in SUBSET DraftIds : Rp(a, W)' = Rp(a, W)
                    BY <1>1, <4>1, UrgentWriteShows DEF StoreInv
                <5> QED BY <5>1, ByReplays, ReturnAssumption
            <4>2. CASE logged # 1 /\ changed # 1
                <5>1. /\ log[b] = NoLog /\ Same(base[b], op[base[b]])
                    BY <4>2
                <5>2. UNCHANGED <<draftState, log, base>>
                    BY <1>1, <5>1 DEF urgentIntent, movesBase
                <5> QED BY <5>2 DEF Resolve, worldOf, OpenDrafts, replayLog, Applied
            <4> QED BY <2>4, <4>1, <4>2
        <3> QED BY <3>1, <3>2 DEF AtomMoves, OpenDrafts
    <2> QED BY <1>2, <2>2, <2>3, <2>4
<1>6. OpensFresh
    BY <1>1 DEF OpensFresh, OpenDrafts
<1> QED BY <1>3, <1>4, <1>5, <1>6 DEF Moving

\* A discard.
LEMMA DiscardMoves ==
    ASSUME IdentityEquality, StoreInv, StoreInv', clock \in Nat, Readings,
           NEW d \in DraftIds, Discard(d)
    PROVE  Moving
<1>1. /\ discardDraft(d) /\ clock' = clock + 1 /\ changedAt' = changedAt
      /\ draftRevision' = [a \in Atoms |-> IF a \in WrittenBy(d) THEN clock + 1
                                           ELSE draftRevision[a]]
    BY DEF Discard, Ticks, readings, Revised
<1>2. clock' \in Nat /\ clock' >= clock /\ Readings'
    <2>1. \A a \in Atoms : a \in Producers
        BY DEF Producers
    <2> QED BY <1>1, <2>1 DEF Readings
<1>3. AtomsMove
    <2> SUFFICES ASSUME NEW a \in Atoms PROVE AtomMoves(a)
        BY DEF AtomsMove
    <2>1. CASE a \in WrittenBy(d)
        BY <1>1, <2>1 DEF AtomMoves
    <2>2. CASE a \notin WrittenBy(d)
        <3>1. \A W : Rp(a, W \ {d}) = Rp(a, W)
            BY <2>2, Strangers DEF StoreInv
        <3>2. \A W \in SUBSET DraftIds : Rp(a, W)' = Rp(a, W)
            BY <1>1, <3>1, DiscardShows DEF StoreInv
        <3>3. \A W \in SUBSET DraftIds : Resolve(a, W)' = Resolve(a, W)
            BY <3>2, ByReplays, ReturnAssumption
        <3> QED BY <1>1, <2>2, <3>3 DEF AtomMoves, OpenDrafts
    <2> QED BY <2>1, <2>2
<1>4. draftState \in [DraftIds -> States]
    BY DEF StoreInv, HistoryInv, TypeOK
<1>5. OpensFresh
    BY <1>1, <1>4 DEF OpensFresh, discardDraft, OpenDrafts
<1> QED BY <1>2, <1>3, <1>5 DEF Moving

\* Of a list without repeats, no more entries are in M than M has.
LEMMA CountedAreFew ==
    ASSUME NEW T, NEW w \in Seq(T), Distinct(w), NEW M, IsFiniteSet(M), NEW i \in 0..Len(w)
    PROVE  LET U == {j \in 1..i : w[j] \in M}
           IN  Cardinality(U) \in Nat /\ Cardinality(U) <= Cardinality(M)
<1> DEFINE U == {j \in 1..i : w[j] \in M}
           f == [j \in U |-> w[j]]
<1>1. DOMAIN w = 1..Len(w) /\ Len(w) \in Nat
    OBVIOUS
<1>2. \A j, k \in U : f[j] = f[k] => j = k
    BY <1>1 DEF Distinct
<1>3. f \in [U -> M]
    OBVIOUS
<1>4. f \in Injection(U, M)
    <2> HIDE DEF f, U
    <2> QED BY <1>2, <1>3 DEF Injection, IsInjective
<1>5. IsFiniteSet(U) /\ Cardinality(U) <= Cardinality(M)
    <2> HIDE DEF f, U
    <2> QED BY <1>4, FS_Injection
<1>6. Cardinality(U) \in Nat
    <2> HIDE DEF U
    <2> QED BY <1>5, FS_CardinalityType
<1> QED BY <1>5, <1>6

\* A retirement.
LEMMA RetiringMoves ==
    ASSUME IdentityEquality, StoreInv, StoreInv', WrittenOnce, clock \in Nat, Readings,
           NEW d \in DraftIds, Retire(d)
    PROVE  Moving
<1> DEFINE moved == {a \in Atoms : base'[a] # base[a]}
           w == written[d]
           upTo(i) == clock + 1 + Cardinality({j \in 1..i : w[j] \in moved})
           at(a) == CHOOSE i \in DOMAIN w : w[i] = a
           W == WrittenBy(d)
<1>0. TypeOK
    BY DEF StoreInv, HistoryInv
<1>1. /\ retireDraft(d) /\ clock' = clock + (1 + Cardinality(moved))
      /\ draftRevision' = [a \in Atoms |-> IF a \in W THEN upTo(at(a) - 1) ELSE draftRevision[a]]
      /\ changedAt' = [n \in Producers |-> IF n \in moved THEN upTo(at(n)) ELSE changedAt[n]]
    BY DEF Retire, Ticks
<1>2. moved \subseteq W /\ IsFiniteSet(moved) /\ Cardinality(moved) \in Nat
    BY <1>0, <1>1, MovedAreFew, FS_Subset
<1>3. w \in Seq(Atoms) /\ Distinct(w) /\ Len(w) \in Nat /\ DOMAIN w = 1..Len(w)
    BY <1>0 DEF WrittenOnce, TypeOK
<1>4. \A a \in W : at(a) \in 1..Len(w)
    BY <1>3 DEF WrittenBy
<1>5. clock' \in Nat /\ clock' >= clock
    BY <1>1, <1>2
<1>6. \A i \in 0..Len(w) : upTo(i) \in Nat /\ upTo(i) > clock /\ upTo(i) <= clock'
    <2> SUFFICES ASSUME NEW i \in 0..Len(w)
                 PROVE  upTo(i) \in Nat /\ upTo(i) > clock /\ upTo(i) <= clock'
        OBVIOUS
    <2> DEFINE c == Cardinality({j \in 1..i : w[j] \in moved})
    <2>1. c \in Nat /\ c <= Cardinality(moved)
        <3> HIDE DEF moved, w
        <3> QED BY <1>2, <1>3, CountedAreFew
    <2>2. upTo(i) = clock + 1 + c
        OBVIOUS
    <2> HIDE DEF c, upTo, moved
    <2> QED BY <1>1, <1>2, <2>1, <2>2
<1>7. \A a \in W : /\ upTo(at(a)) \in Nat /\ upTo(at(a)) > clock /\ upTo(at(a)) <= clock'
                   /\ upTo(at(a) - 1) \in Nat /\ upTo(at(a) - 1) > clock
                   /\ upTo(at(a) - 1) <= clock'
    <2> HIDE DEF upTo, at, w
    <2> SUFFICES ASSUME NEW a \in W
                 PROVE  at(a) \in 0..Len(w) /\ at(a) - 1 \in 0..Len(w)
        BY <1>6
    <2> QED BY <1>3, <1>4
<1> HIDE DEF upTo, at, moved
<1>8. Readings'
    <2>1. \A a \in Atoms : a \in Producers
        BY DEF Producers
    <2>2. changedAt' \in [Producers -> Nat] /\ \A a \in Atoms : changedAt'[a] <= clock'
        BY <1>1, <1>2, <1>5, <1>7, <2>1 DEF Readings
    <2>3. draftRevision' \in [Atoms -> Nat] /\ \A a \in Atoms : draftRevision'[a] <= clock'
        BY <1>1, <1>5, <1>7 DEF Readings
    <2> QED BY <2>2, <2>3 DEF Readings
<1>9. AtomsMove
    <2> SUFFICES ASSUME NEW a \in Atoms PROVE AtomMoves(a)
        BY DEF AtomsMove
    <2>1. CASE a \in W
        BY <1>1, <1>7, <2>1 DEF AtomMoves
    <2>2. CASE a \notin W
        <3>1. \A V : Rp(a, V \cup {d}) = Rp(a, V)
            BY <2>2, Strangers DEF StoreInv
        <3>2. \A V \in SUBSET DraftIds : Rp(a, V)' = Rp(a, V)
            BY <1>1, <3>1, RetireShows, ReturnAssumption DEF StoreInv
        <3>3. \A V \in SUBSET DraftIds : Resolve(a, V)' = Resolve(a, V)
            BY <3>2, ByReplays, ReturnAssumption
        <3>4. changedAt'[a] = changedAt[a] /\ draftRevision'[a] = draftRevision[a]
            BY <1>1, <1>2, <2>2 DEF Producers
        <3> QED BY <3>3, <3>4 DEF AtomMoves, OpenDrafts
    <2> QED BY <2>1, <2>2
<1>10. OpensFresh
    BY <1>0, <1>1 DEF OpensFresh, retireDraft, OpenDrafts, TypeOK
<1> QED BY <1>5, <1>8, <1>9, <1>10 DEF Moving

\* A draft lists every atom it wrote once.
LEMMA WrittenOnceStep ==
    ASSUME TypeOK, WrittenOnce, [Next]_vars \/ DraftsAlone
    PROVE  WrittenOnce'
<1>1. CASE written' = written
    BY <1>1 DEF WrittenOnce
<1>2. ASSUME NEW d \in DraftIds, NEW a \in Atoms, NEW op \in Ops, draftIntent(d, a, op)
      PROVE  WrittenOnce'
    <2> SUFFICES ASSUME NEW e \in DraftIds PROVE Distinct(written'[e])
        BY DEF WrittenOnce
    <2>1. CASE a \in WrittenBy(d) \/ e # d
        BY <1>2, <2>1 DEF draftIntent, WrittenOnce, TypeOK
    <2>2. CASE a \notin WrittenBy(d) /\ e = d
        <3>1. written'[e] = Append(written[e], a)
            BY <1>2, <2>2 DEF draftIntent, TypeOK
        <3>2. Distinct(written[e]) /\ written[e] \in Seq(Atoms)
              /\ \A i \in DOMAIN written[e] : written[e][i] # a
            BY <2>2 DEF WrittenOnce, TypeOK, WrittenBy
        <3> QED BY <3>1, <3>2 DEF Distinct
    <2> QED BY <2>1, <2>2
<1>3. written' = written \/ \E d \in DraftIds, a \in Atoms, op \in Ops : draftIntent(d, a, op)
    BY DEF Next, DraftsAlone, vars, openDraft, retireDraft, discardDraft, abortDiscard,
        appendDraftIntent, abortAppend, urgentWrite, abortRebase, urgentIntent,
        releaseDraft, abortRelease
<1> QED BY <1>1, <1>2, <1>3

\* Base and logs stay in step.
LEMMA StoreKept ==
    ASSUME IdentityEquality, StoreInv, NextMemos
    PROVE  StoreInv'
<1>1. CASE [Next]_vars
    BY <1>1, StoreStep, ReturnAssumption
<1>2. CASE DraftsAlone
    BY <1>2, StoreQuiet DEF DraftsAlone
<1> QED BY <1>1, <1>2, DraftSteps

-----------------------------------------------------------------------------
(***************************************************************************)
(* The steps of the drafts keep the invariant.                             *)
(***************************************************************************)
\* Parking is about the memos and the suspensions.
LEMMA ParkingKept ==
    ASSUME NEW rank, Parking(rank), UNCHANGED <<shape, memos, status, parked, spent, due, settling>>
    PROVE  Parking(rank)'
BY DEF Parking, ParkedBelow, PendingParked, AwaitedParked, Awaits

\* What is left to show of a step that leaves the memos.
LEMMA MovingServes ==
    ASSUME BodiesAreWellTyped, NEW rank, NEW most, BodiesEnd(rank, most), IdentityEquality,
           ServeInv(rank), NextMemos, SpentInv',
           Moving, PromiseMoves, shape' = shape, memos' = memos, Parking(rank)', WalkOK'
    PROVE  ServeInv(rank)'
<1>1. TypeOK /\ StoreInv /\ WrittenOnce /\ Typed /\ MemosStamped /\ clock \in Nat
    BY DEF ServeInv, SpentInv
<1>2. TypeOK' /\ StoreInv' /\ WrittenOnce'
    BY <1>1, DraftTypes, StoreKept, DraftSteps, WrittenOnceStep
<1>3. Typed'
    BY <1>1, <1>2 DEF Typed, PromiseMoves
<1>4. MemosHold'
    <2>1. MemosHold
        BY DEF ServeInv, MemosHold
    <2> QED BY <1>1, <1>3, <2>1, MemosMoveOn DEF Moving
<1> QED BY <1>2, <1>3, <1>4 DEF ServeInv, MemosHold, Moving

\* The steps of the drafts leave the memos.
LEMMA DraftingServes ==
    ASSUME BodiesAreWellTyped, NEW rank, NEW most, BodiesEnd(rank, most), IdentityEquality,
           ServeInv(rank), SpentInv',
           \/ \E d \in DraftIds : Open(d) \/ Retire(d) \/ Discard(d)
           \/ \E d \in DraftIds, a \in Atoms, op \in Ops : Append_(d, a, op)
           \/ \E a \in Atoms, op \in Ops : Urgent_(a, op)
    PROVE  ServeInv(rank)'
<1>1. NextMemos
    BY DEF NextMemos
<1>2. StoreInv /\ StoreInv' /\ WrittenOnce /\ Readings /\ clock \in Nat /\ Parking(rank) /\ TypeOK
    BY <1>1, StoreKept DEF ServeInv, SpentInv
<1>3. Moving
    BY <1>2, OpeningMoves, WritingMoves, UrgentMoves, DiscardMoves, RetiringMoves
<1>4. UNCHANGED <<shape, memos, asyncs>>
    BY DEF Open, Retire, Discard, Append_, Urgent_
<1>5. UNCHANGED <<shape, memos, status, parked, spent, due, settling>>
    BY <1>4 DEF asyncs
<1>6. Parking(rank)' /\ PromiseMoves
    BY <1>2, <1>5, ParkingKept DEF PromiseMoves
<1>7. WalkOK'
    <2>1. CASE walk' = <<>>
        <3>1. <<>> \in Seq(Producers)
            OBVIOUS
        <3> QED BY <2>1, <3>1 DEF WalkOK
    <2>2. ASSUME NEW d \in DraftIds, NEW a \in Atoms, NEW op \in Ops, Append_(d, a, op)
          PROVE  WalkOK'
        <3>1. draftState' = draftState /\ draftState[d] = "open"
              /\ (walk' = <<a>> \/ walk' = <<>>)
            BY <2>2 DEF Append_, appendDraftIntent, draftIntent
        <3>2. OpenDrafts' # {}
            BY <3>1 DEF OpenDrafts
        <3>3. <<a>> \in Seq(Producers) /\ <<>> \in Seq(Producers)
            BY DEF Producers
        <3> QED BY <3>1, <3>2, <3>3 DEF WalkOK
    <2> QED BY <2>1, <2>2 DEF Open, Retire, Discard, Urgent_, NoWalk
<1> QED BY <1>1, <1>3, <1>5, <1>6, <1>7, MovingServes

\* A release leaves the memos, or takes them all.
LEMMA ReleasingServes ==
    ASSUME BodiesAreWellTyped, NEW rank, NEW most, BodiesEnd(rank, most), IdentityEquality,
           ServeInv(rank), SpentInv', Release
    PROVE  ServeInv(rank)'
<1>1. NextMemos
    BY DEF NextMemos
<1>2. /\ StoreInv /\ StoreInv' /\ WrittenOnce /\ Readings /\ clock \in Nat /\ Parking(rank)
      /\ TypeOK /\ Typed /\ StoreInv'
    BY <1>1, StoreKept DEF ServeInv, SpentInv
<1>3. /\ memos' = [k \in Keys |-> IF OpenDrafts # {} THEN memos[k] ELSE None]
      /\ parked' = [p \in DOMAIN parked |-> {k \in parked[p] : memos'[k] # None}]
      /\ spent' = {k \in spent : memos'[k] # None}
      /\ walk' = <<>> /\ releaseDraft /\ due = {}
      /\ UNCHANGED <<shape, clock, changedAt, draftRevision, status, due, settling>>
    BY DEF Release, NoWalk, readings, Idle
<1>4. WalkOK'
    <2>1. <<>> \in Seq(Producers)
        OBVIOUS
    <2> QED BY <1>3, <2>1 DEF WalkOK
<1>5. AtomsMove
    BY <1>2, <1>3, EngineQuiet, ReturnAssumption, UnmovedAtoms
<1>6. OpensFresh
    BY <1>3 DEF OpensFresh, releaseDraft, OpenDrafts
<1>7. Moving
    BY <1>2, <1>3, <1>5, <1>6 DEF Moving, Readings
<1>8. parked \in [Boxes -> SUBSET Keys] /\ spent \subseteq Keys /\ due \subseteq Keys
    BY <1>2 DEF Parking
<1>9. \A q \in Boxes : \A p \in parked[q] : memos[p] # None
    BY <1>2 DEF Parking, ParkedBelow
<1>10. CASE OpenDrafts # {}
    <2>1. memos' = memos
        BY <1>2, <1>3, <1>10 DEF Typed
    <2>2. DOMAIN parked = Boxes /\ parked = [p \in Boxes |-> parked[p]]
          /\ \A p \in Boxes : parked[p] \subseteq Keys
        BY <1>8
    <2>3. parked' = parked
        BY <1>3, <1>9, <2>1, <2>2
    <2>4. spent' \subseteq spent /\ \A k \in Keys : memos[k] # None => (k \in spent' <=> k \in spent)
        BY <1>3, <1>8, <2>1
    <2>5. \A q \in Boxes : parked[q] \subseteq spent <=> parked[q] \subseteq spent'
        BY <1>8, <1>9, <2>4
    <2>6. Parking(rank)'
        <3>1. parked' \in [Boxes -> SUBSET Keys] /\ spent' \subseteq Keys /\ due' \subseteq Keys
            BY <1>3, <1>8, <2>3, <2>4
        <3>2. ParkedBelow(rank)'
            BY <1>2, <1>3, <2>1, <2>3 DEF Parking, ParkedBelow
        <3>3. PendingParked'
            BY <1>2, <2>1, <2>3, <2>4 DEF Parking, PendingParked, Awaits
        <3>4. AwaitedParked'
            <4>1. \A q \in Keys : q \in Boxes
                BY DEF Boxes
            <4> QED BY <1>2, <1>3, <2>3, <2>4, <2>5, <4>1 DEF Parking, AwaitedParked
        <3>5. status' = "fulfilled" /\ ~settling' => parked'[Awaited] \subseteq spent'
            <4>1. Awaited \in Boxes
                BY DEF Boxes
            <4> QED BY <1>2, <1>3, <2>3, <2>5, <4>1 DEF Parking
        <3> QED BY <3>1, <3>2, <3>3, <3>4, <3>5 DEF Parking
    <2>7. PromiseMoves
        BY <1>3 DEF PromiseMoves
    <2> QED BY <1>1, <1>3, <1>4, <1>7, <2>1, <2>6, <2>7, MovingServes
<1>11. CASE OpenDrafts = {}
    <2>1. \A k \in Keys : memos'[k] = None
        BY <1>3, <1>11
    <2>2. memos' \in [Keys -> Memos \cup {None}]
        BY <1>3, <1>11
    <2>3. parked' = [p \in Boxes |-> {}] /\ spent' = {}
        BY <1>3, <1>8, <2>1
    <2>4. Parking(rank)'
        BY <1>3, <1>8, <2>1, <2>3 DEF Parking, ParkedBelow, PendingParked, AwaitedParked, Boxes
    <2>5. TypeOK' /\ WrittenOnce'
        BY <1>1, <1>2, DraftTypes, DraftSteps, WrittenOnceStep
    <2>6. Typed'
        BY <1>2, <1>3, <2>2, <2>5 DEF Typed
    <2>7. MemosHold'
        BY <2>1 DEF MemosHold, CertificatesPast, StampedRests, WorldsOpened, MemosExplained
    <2> QED BY <1>2, <1>4, <1>7, <2>4, <2>5, <2>6, <2>7 DEF ServeInv, Moving, MemosHold
<1> QED BY <1>10, <1>11

-----------------------------------------------------------------------------
(***************************************************************************)
(* Reads.                                                                  *)
(***************************************************************************)
\* Once the promise has settled and everybody was told, nobody's suspension is
\* unresolved: along what each awaits, it would end at the promise.
LEMMA NoneLeftPending ==
    ASSUME NEW rank, NEW most, BodiesEnd(rank, most), Typed, Parking(rank),
           ~settling, due = {}, status = "fulfilled"
    PROVE  \A k \in Keys : memos[k] # None /\ memos[k].outcome.kind = "suspended" => k \in spent
<1> DEFINE G == {p \in Points : \A q \in Keys :
                    q[1] \in Computeds /\ Start(q[1]) = p => parked[q] \subseteq spent}
<1>1. most[shape] \in Nat /\ rank[shape] \in [Points -> 0..most[shape]]
    BY DEF BodiesEnd, Typed
<1>2. parked[Awaited] \subseteq spent
    BY DEF Parking
<1>3. ASSUME NEW p \in Points, \A q \in Points : rank[shape][q] < rank[shape][p] => q \in G
      PROVE  p \in G
    <2> SUFFICES ASSUME NEW q \in Keys, q[1] \in Computeds, Start(q[1]) = p,
                        ~(parked[q] \subseteq spent)
                 PROVE  FALSE
        OBVIOUS
    <2>1. q \notin spent /\ \E r \in Boxes : q \in parked[r]
        BY DEF Parking, AwaitedParked
    <2>2. PICK r \in Boxes : q \in parked[r]
        BY <2>1
    <2>3. r \in Keys
        BY <1>2, <2>1, <2>2 DEF Boxes
    <2>4. r[1] \in Computeds /\ rank[shape][Start(r[1])] < rank[shape][p]
        BY <2>2, <2>3 DEF Parking, ParkedBelow
    <2>5. Start(r[1]) \in G
        BY <1>3, <2>4, StartsArePoints
    <2> QED BY <2>1, <2>2, <2>3, <2>4, <2>5
<1>4. Points \subseteq G
    <2> HIDE DEF G
    <2> QED BY <1>1, <1>3, RankInduction
<1>5. \A q \in Boxes : parked[q] \subseteq spent
    <2> SUFFICES ASSUME NEW q \in Boxes, NEW p \in parked[q] PROVE p \in spent
        OBVIOUS
    <2>1. CASE q \in Keys
        <3>1. q[1] \in Computeds
            BY <2>1 DEF Parking, ParkedBelow
        <3>2. Start(q[1]) \in G
            BY <1>4, <3>1, StartsArePoints
        <3> QED BY <2>1, <3>1, <3>2
    <2>2. CASE q = Awaited
        BY <1>2, <2>2
    <2> QED BY <2>1, <2>2 DEF Boxes
<1> SUFFICES ASSUME NEW k \in Keys, memos[k] # None, memos[k].outcome.kind = "suspended",
                    k \notin spent
             PROVE  FALSE
    OBVIOUS
<1>6. k \in parked[Awaits(k)]
    BY DEF Parking, PendingParked
<1>7. memos[k].outcome \in Outcomes
    BY DEF Typed, Memos
<1>8. Awaits(k) \in Boxes
    BY <1>7, OutcomeKinds DEF Awaits, Boxes, Keys
<1> QED BY <1>5, <1>6, <1>8

\* What holds of the atoms, and of a computed because it holds of all it reads,
\* holds of every producer.
LEMMA DescentInduction ==
    ASSUME NEW N \in Nat, NEW r \in [Points -> 0..N], NEW reads, Descends(r, reads),
           NEW G, Atoms \subseteq G,
           \A c \in Computeds : reads[c] \cap Computeds \subseteq G => c \in G
    PROVE  Producers \subseteq G
<1>1. ASSUME NEW c \in Computeds, \A d \in Computeds : r[Start(d)] < r[Start(c)] => d \in G
      PROVE  c \in G
    BY <1>1 DEF Descends
<1> QED BY <1>1, NodeInduction, Zenon

\* Then nothing evaluates to a suspension either.
LEMMA NothingPends ==
    ASSUME BodiesAreWellTyped, NEW rank, NEW most, BodiesEnd(rank, most), Typed,
           NEW W \in SUBSET DraftIds, status = "fulfilled"
    PROVE  \A n \in Producers : Pure(W)[n].outcome.kind # "suspended"
<1> DEFINE G == {n \in Producers : Pure(W)[n].outcome.kind # "suspended"}
<1>1. Atoms \subseteq G
    BY PureTypes DEF Producers
<1>2. \A c \in Computeds : PureReads(W)[c] \cap Computeds \subseteq G => c \in G
    BY PurePends DEF Producers
<1>3. Descends(rank[shape], PureReads(W))
    BY PureTypes
<1>4. most[shape] \in Nat /\ rank[shape] \in [Points -> 0..most[shape]]
    BY DEF BodiesEnd, Typed
<1> HIDE DEF G
<1>5. Producers \subseteq G
    BY <1>1, <1>2, <1>3, <1>4, DescentInduction, Zenon
<1> QED BY <1>5 DEF G

\* What is trusted is explained, and its suspension is unresolved.
LEMMA TrustedServe ==
    ASSUME NEW rank, NEW most, BodiesEnd(rank, most), ServeInv(rank), ~settling, due = {},
           NEW W \in Worlds, W \subseteq OpenDrafts, NEW n \in Trusted(W)
    PROVE  LET k == <<n, W>> IN
           /\ k \in Keys /\ n \in Producers /\ memos[k] \in Memos
           /\ Undisturbed(k) /\ Explained(k)
           /\ memos[k].outcome.kind = "suspended" => k \notin spent
<1> DEFINE k == <<n, W>>
<1>1. n \in Producers /\ k \in Keys /\ memoValid(n, W)
    BY DEF Trusted, Keys
<1>2. memos[k] # None /\ memos[k] \in Memos
    BY <1>1 DEF memoValid, ServeInv, Typed
<1>3. Undisturbed(k) /\ (memos[k].outcome.kind = "suspended" => k \notin spent)
    <2>1. CASE memos[k].validAt = clock
        BY <1>1, <1>2, <2>1 DEF ServeInv, StampedRests, SpentInv, StampedUnspent
    <2>2. CASE memos[k].validAt # clock
        BY <1>1, <2>2 DEF memoValid, stillPending, Undisturbed
    <2> QED BY <2>1, <2>2
<1>4. memos[k].outcome.kind = "suspended" => status = "pending"
    <2>1. status \in {"pending", "fulfilled"}
        BY DEF ServeInv, Typed
    <2>2. status = "fulfilled" => ~(memos[k].outcome.kind = "suspended" /\ k \notin spent)
        BY <1>1, <1>2, NoneLeftPending DEF ServeInv
    <2> QED BY <1>3, <2>1, <2>2
<1>5. Explained(k)
    BY <1>1, <1>2, <1>3, <1>4 DEF ServeInv, MemosExplained
<1> QED BY <1>1, <1>2, <1>3, <1>5

\* A reader of open drafts is served what evaluating everything would give.
LEMMA ServesNow ==
    ASSUME NEW rank, NEW most, BodiesEnd(rank, most), ServeInv(rank)
    PROVE  MemoServesCurrent
<1> SUFFICES ASSUME Idle, NEW W \in (SUBSET OpenDrafts) \ {{}}, NEW n \in Trusted(W)
             PROVE  memos[<<n, W>>].outcome = Pure(W)[n].outcome
    BY DEF MemoServesCurrent, Pure
<1>1. W \in Worlds /\ W \subseteq OpenDrafts
    BY DEF Worlds, OpenDrafts
<1>2. Explained(<<n, W>>)
    BY <1>1, TrustedServe DEF Idle
<1> QED BY <1>2 DEF Explained

\* Present readings, of which a certificate may be made.
Certs ==
    {e \in Sources : e.node \in Atoms =>
                        e.changedAt <= clock /\ e.revision <= clock /\ stillReads(e)}

\* The memos a read in W leaves of the nodes V that it visits, with these
\* certificates.
Made(W, V, cert) ==
    [k \in Keys |->
        IF k[2] # W \/ k[1] \notin V THEN memos[k]
        ELSE IF k[1] \in Trusted(W) THEN [memos[k] EXCEPT !.validAt = clock]
        ELSE [outcome |-> Pure(W)[k[1]].outcome, validAt |-> clock,
              nodeChangedAt |-> changedAt[k[1]], certificate |-> cert[k[1]]]]

\* Those of them that are pending, where they keep their suspension, and what
\* they await.
Waits(W, V) == {m \in V \ Trusted(W) : Pure(W)[m].outcome.kind = "suspended"}
Keeps(W, V) == {m \in Waits(W, V) : /\ memos[<<m, W>>] # None
                                    /\ memos[<<m, W>>].outcome.kind = "suspended"
                                    /\ <<m, W>> \notin spent}
Fresh(W, V) == {<<m, W>> : m \in Waits(W, V) \ Keeps(W, V)}
Box(W, m) == IF Pure(W)[m].outcome.of = Awaited THEN Awaited ELSE <<Pure(W)[m].outcome.of, W>>

\* What a read does.
ReadsIn(W, V, cert) ==
    /\ V \subseteq Producers
    /\ \A m \in V \ Trusted(W) : PureReads(W)[m] \subseteq V
    /\ \A m \in Producers : cert[m] \subseteq Certs /\ m \in Supported(PureReads(W), cert[m])
    /\ memos' = Made(W, V, cert)
    /\ spent' = spent \ Fresh(W, V)
    /\ parked' = [p \in DOMAIN parked |->
                    (parked[p] \ Fresh(W, V))
                        \cup {<<m, W>> : m \in {w \in Waits(W, V) : Box(W, w) = p}}]

\* A read in open drafts is one of these.
LEMMA ReadMakes ==
    ASSUME BodiesAreWellTyped, NEW rank, NEW most, BodiesEnd(rank, most),
           ServeInv(rank), ~settling, due = {},
           NEW W \in Worlds, W \subseteq OpenDrafts, NEW n \in Producers, resolveState(n, W)
    PROVE  \E V, cert : n \in V /\ ReadsIn(W, V, cert)
<1> DEFINE T == Trusted(W)
           resolved == Resolved(W, T)
           V == Visited(n, resolved)
           cert == inheritCertificate(resolved, T, W)
           waiting == {m \in V \ T : resolved[m].outcome.kind = "suspended"}
           kept == {m \in waiting : /\ memos[<<m, W>>] # None
                                    /\ memos[<<m, W>>].outcome.kind = "suspended"
                                    /\ <<m, W>> \notin spent}
           fresh == {<<m, W>> : m \in waiting \ kept}
           awaits(m) == IF resolved[m].outcome.of = Awaited THEN Awaited
                        ELSE <<resolved[m].outcome.of, W>>
           new(k) == [outcome |-> resolved[k[1]].outcome, validAt |-> clock,
                      nodeChangedAt |-> changedAt[k[1]], certificate |-> cert[k[1]]]
           reads == PureReads(W)
           readsT == [m \in Producers |-> IF m \in T THEN {} ELSE reads[m]]
<1>1. /\ memos' = [k \in Keys |->
                     IF k[2] # W \/ k[1] \notin V THEN memos[k]
                     ELSE IF k[1] \in T THEN [memos[k] EXCEPT !.validAt = clock]
                     ELSE new(k)]
      /\ spent' = spent \ fresh
      /\ parked' = [p \in DOMAIN parked |->
                      (parked[p] \ fresh)
                          \cup {<<m, W>> : m \in {w \in waiting : awaits(w) = p}}]
    BY DEF resolveState
<1>2. Typed /\ W \in SUBSET DraftIds /\ clock \in Nat /\ Readings /\ CertificatesPast
    BY DEF ServeInv, Worlds, SpentInv
<1>3. T \in SUBSET Producers
    BY DEF Trusted
<1>4. \A m \in T : /\ memos[<<m, W>>] \in Memos
                   /\ memos[<<m, W>>].outcome = Pure(W)[m].outcome
                   /\ m \in Supported(reads, memos[<<m, W>>].certificate)
                   /\ Undisturbed(<<m, W>>) /\ <<m, W>> \in Keys
    BY TrustedServe DEF Explained
<1> HIDE DEF T, reads
<1>5. \A m \in Producers : /\ resolved[m].outcome = Pure(W)[m].outcome
                           /\ resolved[m].reads = IF m \in T THEN {} ELSE PureReads(W)[m]
    BY <1>2, <1>3, <1>4, TrustedAgree
<1> HIDE DEF resolved
<1>6. /\ reads \in [Producers -> SUBSET Producers]
      /\ \A a \in Atoms : reads[a] = {}
      /\ Descends(rank[shape], reads)
    BY <1>2, PureTypes DEF reads
<1>7. most[shape] \in Nat /\ rank[shape] \in [Points -> 0..most[shape]]
    BY <1>2 DEF BodiesEnd, Typed
<1>8. /\ readsT \in [Producers -> SUBSET Producers]
      /\ \A a \in Atoms : readsT[a] = {}
      /\ Descends(rank[shape], readsT)
      /\ \A m \in Producers : resolved[m].reads = readsT[m]
    <2>1. Atoms \subseteq Producers /\ Computeds \subseteq Producers
        BY DEF Producers
    <2>2. /\ readsT \in [Producers -> SUBSET Producers]
          /\ \A a \in Atoms : readsT[a] = {}
          /\ \A m \in Producers : resolved[m].reads = readsT[m]
        BY <1>5, <1>6, <2>1 DEF reads
    <2>3. \A c \in Computeds : readsT[c] \subseteq reads[c]
        BY <2>1
    <2>4. Descends(rank[shape], readsT)
        <3> HIDE DEF readsT
        <3> QED BY <1>6, <2>3 DEF Descends
    <2> QED BY <2>2, <2>4
<1> HIDE DEF readsT
<1>9. V \subseteq Producers /\ n \in V /\ \A m \in V : readsT[m] \subseteq V
    <2> DEFINE N == most[shape]
               r == rank[shape]
    <2>1. N \in Nat /\ r \in [Points -> 0..N] /\ Descends(r, readsT)
        BY <1>7, <1>8
    <2> HIDE DEF N, r
    <2> QED BY <1>8, <2>1, VisitedIsShut, Zenon
<1>10. \A m \in V \ T : PureReads(W)[m] \subseteq V
    BY <1>9 DEF readsT, reads
<1>11. \A d \in Producers : recordSource(d) \in Certs
    BY <1>2 DEF recordSource, Certs, Sources, Readings, stillReads, Producers
<1>12. \A m \in T : memos[<<m, W>>].certificate \subseteq Certs
    <2> SUFFICES ASSUME NEW m \in T, NEW e \in memos[<<m, W>>].certificate
                 PROVE  e \in Certs
        OBVIOUS
    <2>1. memos[<<m, W>>] \in Memos /\ <<m, W>> \in Keys /\ Undisturbed(<<m, W>>)
        BY <1>4
    <2>2. e \in Sources /\ memos[<<m, W>>] # None
        BY <2>1, NoneAssumption DEF Memos
    <2> QED BY <1>2, <2>1, <2>2 DEF Certs, Undisturbed, CertificatesPast
<1>13. \A m \in Producers : cert[m] \subseteq Certs /\ m \in Supported(reads, cert[m])
    <2> DEFINE N == most[shape]
               r == rank[shape]
    <2>1. N \in Nat /\ r \in [Points -> 0..N] /\ Descends(r, reads)
        BY <1>6, <1>7
    <2>2. \A m \in Producers \ (T \cup Atoms) : resolved[m].reads = reads[m]
        BY <1>5 DEF reads
    <2>3. \A m \in T : /\ memos[<<m, W>>].certificate \subseteq Certs
                       /\ m \in Supported(reads, memos[<<m, W>>].certificate)
        BY <1>4, <1>12
    <2> HIDE DEF N, r
    <2> QED BY <1>6, <1>11, <2>1, <2>2, <2>3, CertificateSupports, Zenon
<1> HIDE DEF V, cert
<1>14. waiting = Waits(W, V)
    BY <1>5, <1>9 DEF Waits, T
<1>15. fresh = Fresh(W, V)
    BY <1>14 DEF Fresh, Keeps
<1>16. \A w \in waiting : awaits(w) = Box(W, w)
    BY <1>5, <1>9 DEF Box
<1>17. memos' = Made(W, V, cert)
    <2>1. \A k \in Keys : k[1] \in V => new(k) = [outcome |-> Pure(W)[k[1]].outcome,
              validAt |-> clock, nodeChangedAt |-> changedAt[k[1]], certificate |-> cert[k[1]]]
        BY <1>5, <1>9
    <2> HIDE DEF new
    <2> QED BY <1>1, <2>1 DEF Made, T
<1>18. parked' = [p \in DOMAIN parked |->
                    (parked[p] \ Fresh(W, V))
                        \cup {<<m, W>> : m \in {w \in Waits(W, V) : Box(W, w) = p}}]
    <2>1. \A p : {w \in waiting : awaits(w) = p} = {w \in Waits(W, V) : Box(W, w) = p}
        BY <1>14, <1>16
    <2> HIDE DEF waiting, awaits, fresh
    <2> QED BY <1>1, <1>15, <2>1
<1>19. ReadsIn(W, V, cert)
    <2> HIDE DEF waiting, awaits, fresh, new
    <2> QED BY <1>1, <1>9, <1>10, <1>13, <1>15, <1>17, <1>18 DEF ReadsIn, T, reads
<1> QED BY <1>9, <1>19

\* What a read of memos leaves.
ReadQuiet ==
    UNCHANGED <<draftState, log, base, shape, clock, changedAt, draftRevision, status, due, settling>>

\* So evaluating everything gives what it gave.
LEMMA PureSteady ==
    ASSUME BodiesAreWellTyped, NEW rank, NEW most, BodiesEnd(rank, most),
           Typed, Typed', ReadQuiet, NEW W \in SUBSET DraftIds
    PROVE  /\ \A n \in Producers : Pure(W)'[n].outcome = Pure(W)[n].outcome
           /\ PureReads(W)' = PureReads(W)
<1>1. \A a \in Atoms : Resolve(a, W)' = Resolve(a, W)
    BY DEF ReadQuiet, Resolve, worldOf, OpenDrafts, replayLog, Applied
<1>2. \A c \in Producers : PureReads(W)[c] \subseteq Producers
    BY PureTypes
<1>3. shape' = shape /\ status' = status /\ Producers \in SUBSET Producers
    BY DEF ReadQuiet
<1>4. \A c \in Producers : /\ Pure(W)'[c].outcome = Pure(W)[c].outcome
                           /\ PureReads(W)'[c] = PureReads(W)[c]
    <2> DEFINE C == Producers
    <2>1. /\ C \in SUBSET Producers /\ \A c \in C : PureReads(W)[c] \subseteq C
          /\ \A a \in C \cap Atoms : Resolve(a, W)' = Resolve(a, W)
        BY <1>1, <1>2
    <2>2. \A c \in C : /\ Pure(W)'[c].outcome = Pure(W)[c].outcome
                       /\ PureReads(W)'[c] = PureReads(W)[c]
        <3> HIDE DEF C
        <3> QED BY <1>3, <2>1, PureKept
    <2> QED BY <2>2
<1>5. PureReads(W)' = PureReads(W)
    <2>1. /\ PureReads(W)' = [m \in Producers |-> PureReads(W)'[m]]
          /\ PureReads(W) = [m \in Producers |-> PureReads(W)[m]]
        BY DEF PureReads
    <2> QED BY <1>4, <2>1
<1> QED BY <1>4, <1>5

\* The memos of a read, case by case.
LEMMA MadeMemos ==
    ASSUME BodiesAreWellTyped, NEW rank, NEW most, BodiesEnd(rank, most),
           ServeInv(rank), ~settling, due = {},
           NEW W \in Worlds, W \subseteq OpenDrafts, NEW V, NEW cert, ReadsIn(W, V, cert),
           NEW k \in Keys
    PROVE  /\ k[2] # W \/ k[1] \notin V => memos'[k] = memos[k]
           /\ k[2] = W /\ k[1] \in V \cap Trusted(W) =>
                 /\ memos[k] \in Memos /\ memos'[k] \in Memos
                 /\ memos'[k].outcome = memos[k].outcome
                 /\ memos'[k].certificate = memos[k].certificate
           /\ k[2] = W /\ k[1] \in V \ Trusted(W) =>
                 /\ memos'[k] \in Memos
                 /\ memos'[k].outcome = Pure(W)[k[1]].outcome
                 /\ memos'[k].certificate = cert[k[1]]
<1>1. Typed /\ W \in SUBSET DraftIds /\ clock \in Nat /\ Readings
    BY DEF ServeInv, Worlds, SpentInv
<1>2. k = <<k[1], k[2]>> /\ k[1] \in Producers
    BY DEF Keys
<1>3. memos' = Made(W, V, cert)
    BY DEF ReadsIn
<1>4. CASE k[2] # W \/ k[1] \notin V
    BY <1>3, <1>4 DEF Made
<1>5. CASE k[2] = W /\ k[1] \in V \cap Trusted(W)
    <2>1. memos[k] \in Memos
        BY <1>2, <1>5, TrustedServe
    <2>2. memos'[k] = [memos[k] EXCEPT !.validAt = clock]
        BY <1>3, <1>5 DEF Made
    <2> QED BY <1>1, <1>5, <2>1, <2>2 DEF Memos
<1>6. CASE k[2] = W /\ k[1] \in V \ Trusted(W)
    <2>1. memos'[k] = [outcome |-> Pure(W)[k[1]].outcome, validAt |-> clock,
                       nodeChangedAt |-> changedAt[k[1]], certificate |-> cert[k[1]]]
        BY <1>3, <1>6 DEF Made
    <2>2. Pure(W)[k[1]].outcome \in Outcomes
        BY <1>1, <1>2, PureTypes
    <2>3. cert[k[1]] \in SUBSET Sources
        BY <1>2 DEF ReadsIn, Certs
    <2>4. changedAt[k[1]] \in Nat
        BY <1>1, <1>2 DEF Readings
    <2> QED BY <1>1, <1>6, <2>1, <2>2, <2>3, <2>4 DEF Memos
<1> QED BY <1>4, <1>5, <1>6

\* The memos of a read hold what memos do.
LEMMA ReadHolds ==
    ASSUME BodiesAreWellTyped, NEW rank, NEW most, BodiesEnd(rank, most),
           ServeInv(rank), ~settling, due = {}, TypeOK', ReadQuiet,
           NEW W \in Worlds, W \subseteq OpenDrafts, NEW V, NEW cert, ReadsIn(W, V, cert)
    PROVE  Typed' /\ MemosHold'
<1>1. Typed /\ W \in SUBSET DraftIds /\ clock \in Nat /\ Readings /\ MemosHold
    BY DEF ServeInv, Worlds, SpentInv, MemosHold
<1>2. ASSUME NEW k \in Keys
      PROVE  \/ memos'[k] = memos[k]
             \/ memos'[k] \in Memos
    BY <1>2, MadeMemos DEF Keys
<1>3. memos' \in [Keys -> Memos \cup {None}]
    <2>1. memos' = [k \in Keys |-> memos'[k]]
        BY DEF ReadsIn, Made
    <2>2. \A k \in Keys : memos'[k] \in Memos \cup {None}
        BY <1>1, <1>2 DEF Typed
    <2> QED BY <2>1, <2>2
<1>4. Typed'
    BY <1>1, <1>3 DEF Typed, ReadQuiet
<1>5. \A k \in Keys : /\ \A n \in Producers : Pure(k[2])'[n].outcome = Pure(k[2])[n].outcome
                      /\ PureReads(k[2])' = PureReads(k[2])
    <2> SUFFICES ASSUME NEW k \in Keys
                 PROVE  /\ \A n \in Producers : Pure(k[2])'[n].outcome = Pure(k[2])[n].outcome
                        /\ PureReads(k[2])' = PureReads(k[2])
        OBVIOUS
    <2> DEFINE X == k[2]
    <2>1. X \in SUBSET DraftIds
        BY DEF Keys, Worlds
    <2> QED BY <1>1, <1>4, <2>1, PureSteady
<1>6. \A e : stillReads(e)' <=> stillReads(e)
    BY DEF ReadQuiet, stillReads, recordSource
<1>7. ASSUME NEW k \in Keys, memos'[k] # None
      PROVE  /\ \A e \in memos'[k].certificate :
                    e.node \in Atoms => e.changedAt <= clock /\ e.revision <= clock
             /\ memos'[k].validAt = clock => Undisturbed(k)'
             /\ \A d \in k[2] : draftState[d] # "unopened"
             /\ k[2] \subseteq OpenDrafts /\ Undisturbed(k)'
                /\ (memos'[k].outcome.kind = "suspended" => status = "pending") =>
                     Explained(k)'
    <2>1. k = <<k[1], k[2]>> /\ k[1] \in Producers
        BY DEF Keys
    <2>2. CASE k[2] # W \/ k[1] \notin V
        <3>1. memos'[k] = memos[k] /\ memos[k] # None
            BY <1>7, <2>2, MadeMemos
        <3>2. Undisturbed(k)' => Undisturbed(k)
            BY <1>6, <3>1 DEF Undisturbed
        <3>3. Undisturbed(k) => Undisturbed(k)'
            BY <1>6, <3>1 DEF Undisturbed
        <3>4. Explained(k) => Explained(k)'
            BY <1>5, <2>1, <3>1 DEF Explained
        <3> QED BY <1>1, <3>1, <3>2, <3>3, <3>4 DEF MemosHold, CertificatesPast, StampedRests,
                   WorldsOpened, MemosExplained
    <2>3. CASE k[2] = W /\ k[1] \in V \cap Trusted(W)
        <3>1. /\ memos[k] \in Memos /\ memos'[k].outcome = memos[k].outcome
              /\ memos'[k].certificate = memos[k].certificate
            BY <2>3, MadeMemos
        <3>2. Undisturbed(k) /\ Explained(k)
            BY <2>1, <2>3, TrustedServe
        <3>3. Undisturbed(k)'
            BY <1>6, <3>1, <3>2 DEF Undisturbed
        <3>4. Explained(k)'
            BY <1>5, <2>1, <3>1, <3>2 DEF Explained
        <3>5. memos[k] # None
            BY <3>1, NoneAssumption
        <3> QED BY <1>1, <3>1, <3>3, <3>4, <3>5 DEF MemosHold, CertificatesPast, WorldsOpened
    <2>4. CASE k[2] = W /\ k[1] \in V \ Trusted(W)
        <3>1. /\ memos'[k].outcome = Pure(W)[k[1]].outcome
              /\ memos'[k].certificate = cert[k[1]]
            BY <2>4, MadeMemos
        <3>2. cert[k[1]] \subseteq Certs /\ k[1] \in Supported(PureReads(W), cert[k[1]])
            BY <2>1 DEF ReadsIn
        <3>3. Undisturbed(k)'
            BY <1>6, <3>1, <3>2 DEF Undisturbed, Certs
        <3>4. Explained(k)'
            BY <1>5, <2>1, <2>4, <3>1, <3>2 DEF Explained
        <3>5. \A d \in k[2] : draftState[d] # "unopened"
            BY <2>4 DEF OpenDrafts
        <3> QED BY <3>1, <3>2, <3>3, <3>4, <3>5 DEF Certs
    <2> QED BY <2>1, <2>2, <2>3, <2>4
<1>8. clock' = clock /\ OpenDrafts' = OpenDrafts /\ draftState' = draftState /\ status' = status
    BY DEF ReadQuiet, OpenDrafts
<1>9. CertificatesPast' /\ StampedRests' /\ WorldsOpened' /\ MemosExplained'
    BY <1>7, <1>8 DEF CertificatesPast, StampedRests, WorldsOpened, MemosExplained
<1> QED BY <1>4, <1>9 DEF MemosHold

\* A read parks what is left pending.
LEMMA ReadParks ==
    ASSUME BodiesAreWellTyped, NEW rank, NEW most, BodiesEnd(rank, most),
           ServeInv(rank), ~settling, due = {}, ReadQuiet,
           NEW W \in Worlds, W \subseteq OpenDrafts, NEW V, NEW cert, ReadsIn(W, V, cert)
    PROVE  Parking(rank)'
<1> DEFINE T == Trusted(W)
           waiting == Waits(W, V)
           fresh == Fresh(W, V)
           box(m) == Box(W, m)
           key(m) == <<m, W>>
<1>1. Typed /\ W \in SUBSET DraftIds /\ Parking(rank)
    BY DEF ServeInv, Worlds
<1>2. /\ parked \in [Boxes -> SUBSET Keys] /\ spent \subseteq Keys
      /\ ParkedBelow(rank) /\ PendingParked /\ AwaitedParked
    BY <1>1 DEF Parking
<1>3. \A q \in Boxes : parked'[q] = (parked[q] \ fresh) \cup {key(m) : m \in {w \in waiting : box(w) = q}}
    BY <1>2 DEF ReadsIn
<1>4. spent' = spent \ fresh
    BY DEF ReadsIn
<1>5. \A m \in waiting : /\ m \in V \ T /\ m \in Producers /\ m \in Computeds
                         /\ Pure(W)[m].outcome.kind = "suspended"
                         /\ key(m) \in Keys /\ key(m)[1] = m /\ key(m)[2] = W
    <2>1. \A m \in waiting : /\ m \in V \ T /\ m \in Producers
                             /\ Pure(W)[m].outcome.kind = "suspended"
        BY DEF Waits, ReadsIn
    <2> QED BY <1>1, <2>1, PurePends DEF Keys
<1>6. \A m \in waiting :
          \/ box(m) = Awaited /\ status = "pending"
          \/ /\ box(m) = key(Pure(W)[m].outcome.of)
             /\ Pure(W)[m].outcome.of \in PureReads(W)[m] \cap Computeds
             /\ Pure(W)[Pure(W)[m].outcome.of].outcome.kind = "suspended"
    <2> SUFFICES ASSUME NEW m \in waiting
                 PROVE  \/ box(m) = Awaited /\ status = "pending"
                        \/ /\ box(m) = key(Pure(W)[m].outcome.of)
                           /\ Pure(W)[m].outcome.of \in PureReads(W)[m] \cap Computeds
                           /\ Pure(W)[Pure(W)[m].outcome.of].outcome.kind = "suspended"
        OBVIOUS
    <2> DEFINE of == Pure(W)[m].outcome.of
    <2>1. \/ of = Awaited /\ status = "pending"
          \/ of \in PureReads(W)[m] \cap Computeds /\ Pure(W)[of].outcome.kind = "suspended"
        BY <1>1, <1>5, PurePends
    <2>2. of \in Computeds => of # Awaited
        BY PromiseAssumption DEF Producers
    <2> QED BY <2>1, <2>2 DEF Box
<1>7. fresh \subseteq {key(m) : m \in waiting} /\ \A m \in waiting : box(m) \in Boxes
    <2>1. \A c \in Computeds : key(c) \in Keys
        BY DEF Keys, Producers
    <2> QED BY <1>6, <2>1 DEF Fresh, Boxes
<1>8. \A m \in waiting : key(m) \in fresh
                         \/ (/\ memos[key(m)] # None /\ memos[key(m)].outcome.kind = "suspended"
                             /\ key(m) \notin spent)
    BY DEF Fresh, Keeps
<1> HIDE DEF waiting, fresh, box
<1>9. \A k \in Keys : k \in fresh => k[2] = W /\ k[1] \in V \ T
    BY <1>5, <1>7
<1>10. \A m \in waiting : /\ memos'[key(m)] # None /\ memos'[key(m)].outcome = Pure(W)[m].outcome
    <2> SUFFICES ASSUME NEW m \in waiting
                 PROVE  /\ memos'[key(m)] # None
                        /\ memos'[key(m)].outcome = Pure(W)[m].outcome
        OBVIOUS
    <2> DEFINE k == key(m)
    <2>1. k \in Keys /\ k[1] = m /\ k[2] = W /\ m \in V \ Trusted(W)
        BY <1>5
    <2> HIDE DEF k
    <2>2. memos'[k] \in Memos /\ memos'[k].outcome = Pure(W)[m].outcome
        BY <2>1, MadeMemos
    <2> QED BY <2>2, NoneAssumption DEF k
<1>11. parked' \in [Boxes -> SUBSET Keys] /\ spent' \subseteq Keys /\ due' \subseteq Keys
    <2>1. parked' = [q \in Boxes |-> parked'[q]]
        BY <1>2 DEF ReadsIn
    <2>2. \A q \in Boxes : parked'[q] \in SUBSET Keys
        BY <1>2, <1>3, <1>5
    <2> QED BY <1>1, <1>2, <1>4, <2>1, <2>2 DEF Parking, ReadQuiet
<1>12. ParkedBelow(rank)'
    <2> SUFFICES ASSUME NEW q \in Boxes, NEW p \in parked'[q]
                 PROVE  /\ memos'[p] # None /\ p[1] \in Computeds
                        /\ q \in Keys => /\ q[1] \in Computeds
                              /\ rank[shape][Start(q[1])] < rank[shape][Start(p[1])]
        BY DEF ParkedBelow, ReadQuiet
    <2>1. CASE p \in parked[q]
        <3>1. /\ memos[p] # None /\ p[1] \in Computeds /\ p \in Keys
              /\ q \in Keys => /\ q[1] \in Computeds
                     /\ rank[shape][Start(q[1])] < rank[shape][Start(p[1])]
            BY <1>2, <2>1 DEF ParkedBelow
        <3>2. memos'[p] = memos[p] \/ memos'[p] \in Memos
            BY <3>1, MadeMemos DEF Keys
        <3> QED BY <3>1, <3>2, NoneAssumption
    <2>2. CASE p \notin parked[q]
        <3>1. PICK m \in waiting : p = key(m) /\ box(m) = q
            BY <1>3, <2>2
        <3>2. memos'[p] # None /\ p[1] = m /\ m \in Computeds
            BY <1>5, <1>10, <3>1
        <3>3. ASSUME q \in Keys
              PROVE  q[1] \in Computeds /\ rank[shape][Start(q[1])] < rank[shape][Start(m)]
            <4>1. q # Awaited
                BY <3>3, PromiseAssumption
            <4>2. q = key(Pure(W)[m].outcome.of) /\ Pure(W)[m].outcome.of \in PureReads(W)[m] \cap Computeds
                BY <1>6, <3>1, <4>1
            <4>3. Descends(rank[shape], PureReads(W))
                BY <1>1, PureTypes
            <4> QED BY <3>2, <4>2, <4>3 DEF Descends
        <3> QED BY <3>2, <3>3
    <2> QED BY <2>1, <2>2
<1>13. PendingParked'
    <2> SUFFICES ASSUME NEW k \in Keys, memos'[k] # None,
                        memos'[k].outcome.kind = "suspended", k \notin spent'
                 PROVE  k \in parked'[Awaits(k)']
        BY DEF PendingParked
    <2>1. CASE k[2] = W /\ k[1] \in V \ T
        <3>1. memos'[k].outcome = Pure(W)[k[1]].outcome /\ k = key(k[1]) /\ k[1] \in Producers
            BY <2>1, MadeMemos DEF Keys
        <3>2. k[1] \in waiting
            BY <2>1, <3>1 DEF waiting, Waits
        <3>3. Awaits(k)' = box(k[1])
            BY <2>1, <3>1 DEF Awaits, box, Box
        <3> QED BY <1>3, <1>7, <3>1, <3>2, <3>3
    <2>2. CASE k[2] # W \/ k[1] \notin V \ T
        <3>1. memos[k] # None /\ memos'[k].outcome = memos[k].outcome
            BY <2>2, MadeMemos, NoneAssumption
        <3>2. k \notin fresh /\ k \notin spent
            BY <1>4, <1>9, <2>2
        <3>3. k \in parked[Awaits(k)]
            BY <1>2, <3>1, <3>2 DEF PendingParked
        <3>4. Awaits(k)' = Awaits(k)
            BY <3>1 DEF Awaits
        <3>5. Awaits(k) \in Boxes
            <4>1. memos[k].outcome \in Outcomes
                BY <1>1, <3>1 DEF Typed, Memos
            <4> QED BY <3>1, <4>1, OutcomeKinds DEF Awaits, Boxes, Keys
        <3> QED BY <1>3, <3>2, <3>3, <3>4, <3>5
    <2> QED BY <2>1, <2>2
<1>14. AwaitedParked'
    <2> SUFFICES ASSUME NEW q \in Keys, NEW p \in parked'[q], p \notin spent'
                 PROVE  q \notin spent' /\ \E r \in Boxes : q \in parked'[r]
        BY DEF AwaitedParked
    <2>0. q \in Boxes
        BY DEF Boxes
    <2>1. ASSUME q \in fresh \/ q \notin spent, \/ q \in {key(m) : m \in waiting}
                                                \/ \E r \in Boxes : q \in parked[r]
          PROVE  q \notin spent' /\ \E r \in Boxes : q \in parked'[r]
        <3>1. q \notin spent'
            BY <1>4, <2>1
        <3>2. CASE q \in {key(m) : m \in waiting}
            BY <1>3, <1>7, <3>1, <3>2
        <3>3. CASE q \notin {key(m) : m \in waiting}
            BY <1>3, <1>7, <2>1, <3>1, <3>3
        <3> QED BY <3>2, <3>3
    <2>2. CASE p \in parked[q] \ fresh
        <3>1. p \notin spent
            BY <1>4, <2>2
        <3>2. q \notin spent /\ \E r \in Boxes : q \in parked[r]
            BY <1>2, <2>2, <3>1 DEF AwaitedParked
        <3> QED BY <2>1, <3>2
    <2>3. CASE p \notin parked[q] \ fresh
        <3>1. PICK m \in waiting : p = key(m) /\ box(m) = q
            BY <1>3, <2>0, <2>3
        <3> DEFINE of == Pure(W)[m].outcome.of
        <3>2. q = key(of) /\ of \in PureReads(W)[m] \cap Computeds
              /\ Pure(W)[of].outcome.kind = "suspended"
            BY <1>6, <3>1, PromiseAssumption
        <3> HIDE DEF of
        <3>3. of \in V
            BY <1>5, <3>2 DEF ReadsIn, T
        <3>4. CASE of \notin T
            <4>1. of \in waiting
                BY <3>2, <3>3, <3>4 DEF waiting, Waits, T
            <4> QED BY <1>8, <2>1, <3>2, <4>1
        <3>5. CASE of \in T
            <4>1. /\ q \in Keys /\ memos[q] \in Memos /\ Explained(q)
                  /\ memos[q].outcome.kind = "suspended" => q \notin spent
                BY <3>2, <3>5, TrustedServe DEF T
            <4>2. q[1] = of /\ q[2] = W
                BY <3>2
            <4>3. memos[q].outcome.kind = "suspended"
                BY <3>2, <4>1, <4>2 DEF Explained
            <4>4. q \in parked[Awaits(q)] /\ q \notin spent
                BY <1>2, <4>1, <4>3, NoneAssumption DEF PendingParked
            <4>5. Awaits(q) \in Boxes
                <5>1. memos[q].outcome \in Outcomes
                    BY <4>1 DEF Memos
                <5> QED BY <4>1, <4>3, <5>1, OutcomeKinds DEF Awaits, Boxes, Keys
            <4> QED BY <2>1, <4>4, <4>5
        <3> QED BY <3>4, <3>5
    <2> QED BY <2>2, <2>3
<1>15. status' = "fulfilled" /\ ~settling' => parked'[Awaited] \subseteq spent'
    <2> SUFFICES ASSUME status = "fulfilled" PROVE parked'[Awaited] \subseteq spent'
        BY DEF ReadQuiet
    <2>1. waiting = {}
        BY <1>1, <1>5, NothingPends
    <2>2. parked[Awaited] \subseteq spent
        BY <1>1 DEF Parking
    <2>3. Awaited \in Boxes
        BY DEF Boxes
    <2> QED BY <1>3, <1>4, <1>7, <2>1, <2>2, <2>3
<1> QED BY <1>11, <1>12, <1>13, <1>14, <1>15 DEF Parking


-----------------------------------------------------------------------------
(***************************************************************************)
(* The reads keep the invariant.                                           *)
(***************************************************************************)
\* A comparing write walks on over producers.
LEMMA WalkingOn ==
    ASSUME walk \in Seq(Producers), walk # <<>>, NEW n
    PROVE  pokedAfter(n) \in Seq(Producers)
<1>1. Creation \in Seq(Producers)
    BY NodesAssumption DEF Producers
<1>2. Readers(n) \in Seq(Producers)
    BY <1>1, OnlyKeeps DEF Readers
<1>3. Tail(walk) \in Seq(Producers)
    OBVIOUS
<1>4. Readers(n) \o Tail(walk) \in Seq(Producers)
    BY <1>2, <1>3
<1> QED BY <1>4, OnlyKeeps DEF pokedAfter

\* A render, latest(), a subscription's comparison, and a comparing write.
LEMMA ReadingServes ==
    ASSUME BodiesAreWellTyped, NEW rank, NEW most, BodiesEnd(rank, most), IdentityEquality,
           HandlersResolve = FALSE, ServeInv(rank), SpentInv',
           \/ Compare
           \/ \E n \in Watched, W \in Worlds : Read(n, W)
    PROVE  ServeInv(rank)'
<1>1. NextMemos
    BY DEF NextMemos
<1>2. /\ ~settling /\ due = {} /\ ReadQuiet
      /\ TypeOK /\ StoreInv /\ WrittenOnce /\ Readings /\ WalkOK
    <2>1. WalksAlone /\ TypeOK /\ StoreInv /\ WrittenOnce /\ Readings /\ WalkOK
        BY DEF ServeInv, SpentInv
    <2>2. CASE Compare
        BY <2>1, <2>2 DEF WalksAlone, Compare, ReadQuiet, vars, readings
    <2>3. ASSUME NEW n \in Watched, NEW W \in Worlds, Read(n, W)
          PROVE  ~settling /\ due = {} /\ ReadQuiet
        BY <2>3 DEF Read, Idle, LeavesDrafts, ReadQuiet, readings
    <2> QED BY <2>1, <2>2, <2>3
<1>3. PICK n \in Producers, W \in Worlds : W \subseteq OpenDrafts /\ resolveState(n, W)
    <2>1. CASE Compare
        <3>1. walk # <<>> /\ resolveState(Head(walk), OpenDrafts)
            BY <2>1 DEF Compare
        <3>2. walk \in Seq(Producers) /\ OpenDrafts # {}
            BY <1>2, <3>1 DEF WalkOK
        <3>3. Head(walk) \in Producers
            BY <3>1, <3>2
        <3>4. OpenDrafts \in Worlds
            <4>1. OpenDrafts \subseteq DraftIds
                BY DEF OpenDrafts
            <4>2. OpenDrafts \notin {{}} /\ OpenDrafts \in SUBSET DraftIds
                BY <3>2, <4>1, Zenon
            <4> QED BY <4>2, Zenon DEF Worlds
        <3>5. OpenDrafts \subseteq OpenDrafts
            OBVIOUS
        <3> WITNESS Head(walk) \in Producers, OpenDrafts \in Worlds
        <3> QED BY <3>1, <3>5
    <2>2. ASSUME NEW n \in Watched, NEW W \in Worlds, Read(n, W)
          PROVE  n \in Producers /\ W \subseteq OpenDrafts /\ resolveState(n, W)
        BY <2>2, NodesAssumption DEF Read
    <2> QED BY <2>1, <2>2
<1>4. PICK V, cert : ReadsIn(W, V, cert)
    BY <1>2, <1>3, ReadMakes
<1>5. TypeOK' /\ StoreInv' /\ WrittenOnce'
    BY <1>1, <1>2, DraftTypes, StoreKept, DraftSteps, WrittenOnceStep
<1>6. Typed' /\ MemosHold'
    BY <1>2, <1>3, <1>4, <1>5, ReadHolds
<1>7. Parking(rank)'
    BY <1>2, <1>3, <1>4, ReadParks
<1>8. Readings'
    BY <1>2 DEF ReadQuiet, Readings
<1>9. WalkOK'
    <2>1. CASE walk' = <<>>
        <3>1. <<>> \in Seq(Producers)
            OBVIOUS
        <3> QED BY <2>1, <3>1 DEF WalkOK
    <2>2. CASE Compare
        <3>1. walk # <<>> /\ walk' = pokedAfter(Head(walk)) /\ OpenDrafts' = OpenDrafts
            BY <2>2 DEF Compare, vars, OpenDrafts
        <3> QED BY <1>2, <3>1, WalkingOn DEF WalkOK
    <2> QED BY <2>1, <2>2 DEF Read, NoWalk
<1> QED BY <1>5, <1>6, <1>7, <1>8, <1>9 DEF ServeInv, MemosHold


-----------------------------------------------------------------------------
(***************************************************************************)
(* The pulls in base and the promise keep the invariant.                   *)
(***************************************************************************)
\* Steps that leave the drafts, their stamps and the readings of the atoms.
LEMMA QuietMoves ==
    ASSUME UNCHANGED <<draftState, log, base, draftRevision>>,
           clock \in Nat, clock' \in Nat, clock' >= clock, Readings,
           NEW moved \in SUBSET Computeds,
           changedAt' = [n \in Producers |-> IF n \in moved THEN clock' ELSE changedAt[n]]
    PROVE  Moving
<1>1. \A a \in Atoms : a \in Producers /\ a \notin moved
    BY NodesAssumption DEF Producers
<1>2. \A a \in Atoms : changedAt'[a] = changedAt[a] /\ draftRevision'[a] = draftRevision[a]
    BY <1>1
<1>3. changedAt' \in [Producers -> Nat]
    BY DEF Readings
<1>4. \A a \in Atoms : changedAt[a] \in Nat /\ draftRevision[a] \in Nat
    BY <1>1 DEF Readings
<1>5. Readings'
    BY <1>2, <1>3, <1>4 DEF Readings
<1>6. AtomsMove
    <2>1. \A a \in Atoms : \A W : Resolve(a, W)' = Resolve(a, W)
        BY DEF Resolve, worldOf, OpenDrafts, replayLog, Applied
    <2> QED BY <1>2, <2>1 DEF AtomsMove, AtomMoves
<1>7. OpensFresh
    BY DEF OpensFresh, OpenDrafts
<1> QED BY <1>5, <1>6, <1>7 DEF Moving

\* An empty walk is a walk.
LEMMA NoWalkOK ==
    ASSUME walk' = <<>>
    PROVE  WalkOK'
<1>1. <<>> \in Seq(Producers)
    OBVIOUS
<1> QED BY <1>1 DEF WalkOK

\* A pull moves readings of computeds only; certificates rest on the atoms.
LEMMA PullingServes ==
    ASSUME BodiesAreWellTyped, NEW rank, NEW most, BodiesEnd(rank, most), IdentityEquality,
           ServeInv(rank), SpentInv', NEW c \in Computeds, ReadBase(c)
    PROVE  ServeInv(rank)'
<1>1. NextMemos
    BY DEF NextMemos
<1>2. /\ UNCHANGED <<draftState, written, log, base, draftRevision, clock, shape, walk>>
      /\ UNCHANGED <<shape, memos, status, parked, spent, due, settling>>
    BY DEF ReadBase, LeavesDrafts, walking
<1>3. PICK moved \in SUBSET Computeds :
          changedAt' = [m \in Producers |-> IF m \in moved THEN clock ELSE changedAt[m]]
    BY DEF ReadBase, pull, Moved
<1>4. clock \in Nat /\ Readings /\ Parking(rank) /\ WalkOK
    BY DEF ServeInv, SpentInv
<1>5. Moving
    <2>1. clock' = clock /\ clock' \in Nat /\ clock' >= clock
        BY <1>2, <1>4
    <2>2. changedAt' = [m \in Producers |-> IF m \in moved THEN clock' ELSE changedAt[m]]
        BY <1>3, <2>1
    <2> QED BY <1>2, <1>4, <2>1, <2>2, QuietMoves
<1>6. Parking(rank)' /\ PromiseMoves
    BY <1>2, <1>4, ParkingKept DEF PromiseMoves
<1>7. WalkOK'
    BY <1>2, <1>4 DEF WalkOK, OpenDrafts
<1> QED BY <1>1, <1>2, <1>5, <1>6, <1>7, MovingServes

\* The settlement ticks the clock: a pending memo is served only while its
\* suspension stands, and this is about to be resolved.
LEMMA SettleServes ==
    ASSUME BodiesAreWellTyped, NEW rank, NEW most, BodiesEnd(rank, most), IdentityEquality,
           ServeInv(rank), SpentInv', Settle
    PROVE  ServeInv(rank)'
<1>1. NextMemos
    BY DEF NextMemos
<1>2. /\ UNCHANGED <<draftState, log, base, draftRevision, shape, memos, parked, spent, due>>
      /\ status = "pending" /\ status' = "fulfilled" /\ settling' = TRUE /\ walk' = <<>>
      /\ clock' = clock + 1 + Cardinality(parkedNodes)
      /\ changedAt' = [n \in Producers |-> IF n \in parkedNodes THEN clock' ELSE changedAt[n]]
    BY DEF Settle, LeavesDrafts, NoWalk
<1>3. clock \in Nat /\ Readings /\ Parking(rank) /\ parkedNodes \in SUBSET Computeds
    BY DEF ServeInv, SpentInv
<1>4. Cardinality(parkedNodes) \in Nat
    <2>1. IsFiniteSet(parkedNodes)
        BY <1>3, NodesAssumption, MembersAreFew, FS_Subset DEF Computeds
    <2> QED BY <2>1, FS_CardinalityType
<1>5. clock' \in Nat /\ clock' >= clock
    BY <1>2, <1>3, <1>4
<1>6. Moving
    BY <1>2, <1>3, <1>5, QuietMoves
<1>7. Parking(rank)' /\ PromiseMoves
    BY <1>2, <1>3 DEF Parking, ParkedBelow, PendingParked, AwaitedParked, Awaits, PromiseMoves
<1> QED BY <1>1, <1>2, <1>6, <1>7, NoWalkOK, MovingServes

\* What a pending memo awaits has a box.
LEMMA AwaitsABox ==
    ASSUME Typed, NEW k \in Keys, memos[k] # None, memos[k].outcome.kind = "suspended"
    PROVE  Awaits(k) \in Boxes
<1>1. memos[k].outcome \in Outcomes
    BY DEF Typed, Memos
<1> QED BY <1>1, OutcomeKinds DEF Awaits, Boxes, Keys

\* Resolving what is parked on p leaves nothing parked there, and what others
\* await of it is due to be told.
LEMMA ResolvingParks ==
    ASSUME NEW rank, Typed, Parking(rank), NEW p \in Boxes, Resolving(p),
           UNCHANGED <<shape, memos, status>>,
           status' = "fulfilled" /\ ~settling' => parked'[Awaited] \subseteq spent'
    PROVE  Parking(rank)'
<1> DEFINE now == parked[p] \ spent
<1>1. /\ spent' = spent \cup now
      /\ due' = (due \ {p}) \cup {k \in now : parked[k] # {}}
      /\ parked' = [parked EXCEPT ![p] = {}]
    BY DEF Resolving
<1>2. /\ parked \in [Boxes -> SUBSET Keys] /\ spent \subseteq Keys /\ due \subseteq Keys
      /\ ParkedBelow(rank) /\ PendingParked /\ AwaitedParked
    BY DEF Parking
<1>3. now \subseteq Keys /\ now \subseteq parked[p]
    BY <1>2
<1>4. \A q \in Boxes : parked'[q] = IF q = p THEN {} ELSE parked[q]
    BY <1>1, <1>2
<1>5. /\ parked' \in [Boxes -> SUBSET Keys] /\ spent' \subseteq Keys /\ due' \subseteq Keys
    BY <1>1, <1>2, <1>3
<1>6. ParkedBelow(rank)'
    <2>1. \A q \in Boxes : parked'[q] \subseteq parked[q]
        BY <1>4
    <2> QED BY <1>2, <2>1 DEF ParkedBelow
<1>7. PendingParked'
    <2> SUFFICES ASSUME NEW k \in Keys, memos[k] # None, memos[k].outcome.kind = "suspended",
                        k \notin spent'
                 PROVE  k \in parked'[Awaits(k)]
        BY DEF PendingParked, Awaits
    <2>1. k \notin spent /\ k \notin parked[p]
        BY <1>1
    <2>2. k \in parked[Awaits(k)]
        BY <1>2, <2>1 DEF PendingParked
    <2>3. Awaits(k) \in Boxes
        BY AwaitsABox
    <2> QED BY <1>4, <2>1, <2>2, <2>3
<1>8. AwaitedParked'
    <2> SUFFICES ASSUME NEW q \in Keys, ~(parked'[q] \subseteq spent')
                 PROVE  q \in due' \/ (q \notin spent' /\ \E r \in Boxes : q \in parked'[r])
        BY DEF AwaitedParked
    <2>1. q \in Boxes
        BY DEF Boxes
    <2>2. q # p /\ parked'[q] = parked[q]
        BY <1>4, <2>1
    <2>3. ~(parked[q] \subseteq spent) /\ parked[q] # {}
        BY <1>1, <2>2
    <2>4. q \in due \/ (q \notin spent /\ \E r \in Boxes : q \in parked[r])
        BY <1>2, <2>3 DEF AwaitedParked
    <2>5. CASE q \in due
        BY <1>1, <2>2, <2>5
    <2>6. CASE q \in now
        BY <1>1, <2>3, <2>6
    <2>7. ASSUME q \notin now, q \notin spent, NEW r \in Boxes, q \in parked[r]
          PROVE  q \notin spent' /\ q \in parked'[r]
        BY <1>1, <1>4, <2>7
    <2> QED BY <2>4, <2>5, <2>6, <2>7
<1> HIDE DEF now
<1> QED BY <1>5, <1>6, <1>7, <1>8 DEF Parking

\* The suspensions resolve, at once or in microtasks.
LEMMA ResolvingServes ==
    ASSUME BodiesAreWellTyped, NEW rank, NEW most, BodiesEnd(rank, most), IdentityEquality,
           ServeInv(rank), SpentInv', SettleDone \/ \E k \in Keys : Tell(k)
    PROVE  ServeInv(rank)'
<1>1. NextMemos
    BY DEF NextMemos
<1>2. /\ UNCHANGED <<draftState, log, base, draftRevision, changedAt, shape, memos, status>>
      /\ walk' = <<>> /\ (clock' = clock \/ clock' = clock + 1)
    BY DEF SettleDone, Tell, LeavesDrafts, NoWalk, readings
<1>3. clock \in Nat /\ Readings /\ Parking(rank) /\ Typed
    BY DEF ServeInv, SpentInv
<1>4. Moving
    <2>1. clock' \in Nat /\ clock' >= clock
        BY <1>2, <1>3
    <2>2. changedAt' = [n \in Producers |-> IF n \in {} THEN clock' ELSE changedAt[n]]
        BY <1>2, <1>3 DEF Readings
    <2>3. {} \in SUBSET Computeds
        OBVIOUS
    <2> QED BY <1>2, <1>3, <2>1, <2>2, <2>3, QuietMoves
<1>5. parked \in [Boxes -> SUBSET Keys] /\ due \subseteq Keys /\ Awaited \in Boxes
    BY <1>3 DEF Parking, Boxes
<1>6. Parking(rank)'
    <2>1. CASE SettleDone
        <3>1. Resolving(Awaited)
            BY <2>1 DEF SettleDone
        <3>2. parked'[Awaited] = {}
            BY <1>5, <3>1 DEF Resolving
        <3> QED BY <1>2, <1>3, <1>5, <3>1, <3>2, ResolvingParks
    <2>2. ASSUME NEW k \in Keys, Tell(k) PROVE Parking(rank)'
        <3>1. Resolving(k) /\ ~settling /\ k \in Boxes
            BY <2>2 DEF Tell, Boxes
        <3>2. status = "fulfilled" => parked[Awaited] \subseteq spent
            BY <1>3, <3>1 DEF Parking
        <3>3. parked'[Awaited] \subseteq parked[Awaited] /\ spent \subseteq spent'
            BY <1>5, <3>1 DEF Resolving
        <3>4. status' = "fulfilled" /\ ~settling' => parked'[Awaited] \subseteq spent'
            BY <1>2, <3>2, <3>3
        <3> QED BY <1>2, <1>3, <3>1, <3>4, ResolvingParks
    <2> QED BY <2>1, <2>2
<1>7. PromiseMoves /\ WalkOK'
    BY <1>2, NoWalkOK DEF PromiseMoves
<1> QED BY <1>1, <1>2, <1>4, <1>6, <1>7, MovingServes


\* Steps of others.
LEMMA StutterServes ==
    ASSUME BodiesAreWellTyped, NEW rank, NEW most, BodiesEnd(rank, most), IdentityEquality,
           ServeInv(rank), SpentInv', UNCHANGED memoVars
    PROVE  ServeInv(rank)'
<1>1. /\ UNCHANGED <<vars, draftState, written, log, base, draftRevision, changedAt, clock, walk>>
      /\ UNCHANGED <<shape, memos, status, parked, spent, due, settling>>
    BY DEF memoVars, vars, readings, asyncs, walking
<1>2. clock \in Nat /\ Readings /\ Parking(rank) /\ Typed /\ MemosHold /\ MemosStamped
      /\ StoreInv /\ WrittenOnce /\ WalkOK
    BY DEF ServeInv, SpentInv, MemosHold
<1>3. Moving
    <2>1. clock' \in Nat /\ clock' >= clock
        BY <1>1, <1>2
    <2>2. changedAt' = [n \in Producers |-> IF n \in {} THEN clock' ELSE changedAt[n]]
        BY <1>1, <1>2 DEF Readings
    <2>3. {} \in SUBSET Computeds
        OBVIOUS
    <2> QED BY <1>1, <1>2, <2>1, <2>2, <2>3, QuietMoves
<1>4. Parking(rank)' /\ PromiseMoves
    BY <1>1, <1>2, ParkingKept DEF PromiseMoves
<1>5. StoreInv'
    BY <1>1, <1>2, StoreStep, ReturnAssumption
<1>6. WrittenOnce' /\ WalkOK'
    BY <1>1, <1>2 DEF WrittenOnce, WalkOK, OpenDrafts
<1>7. Typed'
    <2>1. TypeOK'
        BY DEF SpentInv
    <2> QED BY <1>1, <1>2, <2>1 DEF Typed
<1>8. MemosHold'
    BY <1>1, <1>2, <1>3, <1>4, <1>7, MemosMoveOn DEF Moving
<1> QED BY <1>3, <1>4, <1>5, <1>6, <1>7, <1>8 DEF ServeInv, MemosHold, Moving

-----------------------------------------------------------------------------
(***************************************************************************)
(* Memos serve the current.                                                *)
(***************************************************************************)
LEMMA ServeInit ==
    ASSUME NEW rank, InitMemos
    PROVE  ServeInv(rank)
<1>1. Init /\ TypeOK
    BY TypeInit DEF InitMemos
<1>2. SpentInv /\ StoreInv
    BY <1>1, SpentInit, StoreInit
<1>3. \A k \in Keys : memos[k] = None
    BY DEF InitMemos
<1>4. /\ shape \in Shapes /\ status = "pending" /\ clock = 1 /\ walk = <<>>
      /\ memos = [k \in Keys |-> None] /\ changedAt = [n \in Producers |-> 0]
      /\ draftRevision = [a \in Atoms |-> 0] /\ spent = {} /\ due = {}
      /\ parked = [p \in Keys \cup {Awaited} |-> {}]
    BY DEF InitMemos
<1>5. WrittenOnce
    BY <1>1 DEF Init, WrittenOnce, Distinct
<1>6. Typed
    BY <1>1, <1>4 DEF Typed
<1>7. Readings
    BY <1>4 DEF Readings, Producers
<1>8. CertificatesPast /\ StampedRests /\ WorldsOpened /\ MemosExplained
    BY <1>3 DEF CertificatesPast, StampedRests, WorldsOpened, MemosExplained
<1>9. Parking(rank)
    <2>1. \A q \in Boxes : parked[q] = {}
        BY <1>4 DEF Boxes
    <2>2. \A q \in Keys : q \in Boxes
        BY DEF Boxes
    <2>3. parked \in [Boxes -> SUBSET Keys] /\ spent \subseteq Keys /\ due \subseteq Keys
        BY <1>4 DEF Boxes
    <2>4. ParkedBelow(rank) /\ PendingParked /\ AwaitedParked
        BY <1>3, <2>1, <2>2 DEF ParkedBelow, PendingParked, AwaitedParked
    <2> QED BY <1>4, <2>3, <2>4 DEF Parking
<1>10. WalkOK
    <2>1. <<>> \in Seq(Producers)
        OBVIOUS
    <2> QED BY <1>4, <2>1 DEF WalkOK
<1> QED BY <1>2, <1>5, <1>6, <1>7, <1>8, <1>9, <1>10 DEF ServeInv

\* Every step keeps the invariant.
LEMMA ServeStep ==
    ASSUME HandlersResolve = FALSE, IdentityEquality, BodiesAreWellTyped,
           NEW rank, NEW most, BodiesEnd(rank, most)
    PROVE  ServeInv(rank) /\ [NextMemos]_memoVars => ServeInv(rank)'
<1> SUFFICES ASSUME ServeInv(rank), [NextMemos]_memoVars PROVE ServeInv(rank)'
    OBVIOUS
<1>1. SpentInv'
    BY SpentStep DEF ServeInv
<1>2. CASE \/ \E d \in DraftIds : Open(d) \/ Retire(d) \/ Discard(d)
           \/ \E d \in DraftIds, a \in Atoms, op \in Ops : Append_(d, a, op)
           \/ \E a \in Atoms, op \in Ops : Urgent_(a, op)
    BY <1>1, <1>2, DraftingServes
<1>3. CASE Release
    BY <1>1, <1>3, ReleasingServes
<1>4. CASE Compare \/ \E n \in Watched, W \in Worlds : Read(n, W)
    BY <1>1, <1>4, ReadingServes
<1>5. CASE \E c \in Computeds : ReadBase(c)
    BY <1>1, <1>5, PullingServes
<1>6. CASE Settle
    BY <1>1, <1>6, SettleServes
<1>7. CASE SettleDone \/ \E k \in Keys : Tell(k)
    BY <1>1, <1>7, ResolvingServes
<1>8. CASE UNCHANGED memoVars
    BY <1>1, <1>8, StutterServes
<1> QED BY <1>2, <1>3, <1>4, <1>5, <1>6, <1>7, <1>8 DEF NextMemos

\* A memo that would be served to a reader of open drafts is what evaluating
\* the node in that world would give, for every program whose bodies end:
\* whatever opens, writes, retires, discards, releases or settles, and however
\* reads in other worlds and pulls in base come between.  As for
\* ResolvedIsNotServed, what a settlement notifies resolves no worlds before
\* the settlement has resolved its suspensions; and values are compared by
\* identity.
THEOREM MemosServeTheCurrent ==
    ASSUME HandlersResolve = FALSE, IdentityEquality, BodiesAreWellTyped,
           NEW rank, NEW most, BodiesEnd(rank, most)
    PROVE  SpecMemos => []MemoServesCurrent
<1>1. InitMemos => ServeInv(rank)
    BY ServeInit
<1>2. ServeInv(rank) /\ [NextMemos]_memoVars => ServeInv(rank)'
    BY ServeStep
<1>3. ServeInv(rank) => MemoServesCurrent
    BY ServesNow
<1> QED BY <1>1, <1>2, <1>3, PTL DEF SpecMemos
=============================================================================
