---------------------------- MODULE Subscriptions ----------------------------
(***************************************************************************)
(* Components that read signals (useSignal in                              *)
(* packages/cosignals/src/react/hooks.ts, with the wakes, notes and commits*)
(* of react/host.ts and react/CosignalsProvider.ts), over Drafts.          *)
(*                                                                         *)
(* A hook renders an atom in the world its pass carries.  A drafted write  *)
(* hands the draft's id to the hooks of its atom, in the lane of the       *)
(* transition; every notice lets a hook compare what it shows with what it *)
(* would show now, and queue an urgent repair where they differ.           *)
(*                                                                         *)
(* React is modelled from its use here.  An update waits in the queue of   *)
(* its hook or provider, with a lane: urgent, or a transition's.  A pass   *)
(* takes the updates of its lanes as they are when it begins, renders the  *)
(* provider and then hook after hook, and commits; a transition's pass     *)
(* lets the program in between, is dropped when urgent work arrives, and   *)
(* is rendered again in one go when a base value it read has moved.  An    *)
(* urgent pass runs without a break, also right behind a commit.           *)
(***************************************************************************)
EXTENDS Drafts, FiniteSets

CONSTANTS
    Roots,          \* the providers' connections
    Early,          \* the roots that are registered from the start
    Hooks,          \* the components, each with one useSignal
    Home(_),        \* the root a hook is rendered in
    Reads(_),       \* the atom it reads
    RefreshLanes    \* the lanes in which parents render a component again

REPAIR_WAKE == 0    \* the id of a wake that carries no draft
UrgentLane == 0     \* the other lanes are the transitions' own

ASSUME RootsAssumption ==
    /\ Early \subseteq Roots /\ Early # {}
    /\ \A h \in Hooks : Home(h) \in Roots /\ Reads(h) \in Atoms
    /\ RefreshLanes \subseteq {UrgentLane} \cup DraftIds

VARIABLES
    rootConnections,    \* the registered roots
    recipients,         \* recipients[d]: the roots d still waits for
    audience,           \* audience[d]: the roots d was sent to
    worlds,             \* worlds[r]: the ids root r has committed
    sent,               \* sent[r]: the ids dispatched to r, not yet committed
    hook,               \* hook[h]: the component and its UseValueState
    guests,             \* history: the components that mounted with ids that
                        \* were another's, their root's or a sibling's
    pass,               \* the pass React is rendering or committing
    note                \* the render-world note

hosts == <<rootConnections, recipients, audience, worlds, sent>>
allVars == <<vars, hosts, hook, guests, pass, note>>

NoPass == [stage |-> "none"]
NoNote == [root |-> "none"]
NoTree == [ids |-> {}, value |-> "none", live |-> FALSE]

\* A component that is not in the tree.
Absent == [mounted |-> FALSE, ids |-> {}, queue |-> {}, delivered |-> {},
           repairPending |-> FALSE, rendered |-> NoTree, committed |-> NoTree]

Mounted == {h \in Hooks : hook[h].mounted}
hosted(d) == recipients[d] # {}
isLiveDraft(d) == IsOpen(d)
Committing(r) == pass.stage \in {"poke", "confirm"} /\ pass.root = r
-----------------------------------------------------------------------------
(***************************************************************************)
(* Wakes                                                                   *)
(***************************************************************************)
Update(lane, id) == [lane |-> lane, id |-> id]

\* dispatchDraftWake: the ambient transition's lane, or else the owner's.
AmbientLane(ambient, d) == ambient              \* slip
WakeLane(ambient, d) ==
    IF ambient # UrgentLane THEN ambient ELSE IF hosted(d) THEN d ELSE UrgentLane

\* deliver: the ids of D that are not already on their way to this hook.
deliver(s, D, ambient) ==
    [s EXCEPT !.delivered = @ \cup D,
              !.queue = @ \cup {Update(WakeLane(ambient, d), d) : d \in D \ s.delivered}]

\* The atoms the step told of, and the drafts it handed over with them.
ToldOf(notices) == {n[2] : n \in notices}
WakesFor(h, notices) == {n[3] : n \in {m \in notices : m[1] = "wake" /\ m[2] = Reads(h)}}

\* onNotify trusts the last commit, and a render only while it commits.
AlwaysRendered(h) == hook[h].rendered           \* slip
stashOf(h) == IF Committing(Home(h)) THEN hook[h].rendered ELSE hook[h].committed

\* resolutionDiffers, where now is what each hook's stash resolves to.
repaired(h, s, differs, lane) ==
    IF stashOf(h).live /\ ~s.repairPending /\ differs
    THEN [s EXCEPT !.repairPending = TRUE, !.queue = @ \cup {Update(lane, REPAIR_WAKE)}]
    ELSE s

\* One flush: the mounted hooks over the atoms of the notices are notified,
\* and then those it hands drafts to are woken.
heard(h, notices, now, ambient) ==
    IF h \notin Mounted \/ Reads(h) \notin ToldOf(notices) THEN hook[h]
    ELSE deliver(repaired(h, hook[h], now # stashOf(h).value, ambient),
                 WakesFor(h, notices), ambient)

Resolutions(a) == [W \in SUBSET DraftIds |-> Resolve(a, W)]
Notified(ambient) ==
    hook' = [h \in Hooks |->
                heard(h, told', Resolutions(Reads(h))'[stashOf(h).ids], ambient)]

\* A step in which no draft, log or base value changes.
Quiet == told' = {} /\ UNCHANGED <<draftState, written, log, base, releasing, leaked>>
-----------------------------------------------------------------------------
InitAll ==
    /\ Init
    /\ rootConnections = Early
    /\ recipients = [d \in DraftIds |-> {}]
    /\ audience = [d \in DraftIds |-> {}]
    /\ worlds = [r \in Roots |-> {}]
    /\ sent = [r \in Roots |-> {}]
    /\ hook = [h \in Hooks |-> Absent]
    /\ guests = {} /\ pass = NoPass /\ note = NoNote

\* The program runs: no pass is committing or urgent, the stack is unwound, no
\* draft is between its end and its release, nor between its opening and the
\* write it was opened for.
Unwound == note = NoNote /\ releasing = <<>>
Interruptible ==
    pass.stage = "none" \/ (pass.stage = "render" /\ ~pass.sync)
Running == Interruptible /\ Unwound /\ \A d \in OpenDrafts : written[d] # <<>>

\* The first write of a transition opens its draft and broadcasts it.
broadcastDraft(d) ==
    /\ Running /\ openDraft(d)
    /\ \E a \in Atoms : Len(openLog(a).intents) < MaxIntents
    /\ recipients' = [recipients EXCEPT ![d] = rootConnections]
    /\ audience' = [audience EXCEPT ![d] = rootConnections]
    /\ sent' = [r \in Roots |-> IF r \in rootConnections THEN sent[r] \cup {d} ELSE sent[r]]
    /\ UNCHANGED <<rootConnections, worlds, hook, pass, note, guests>>

Drafted(d, a, op) ==
    /\ Interruptible /\ Unwound
    /\ \A e \in OpenDrafts \ {d} : written[e] # <<>>
    /\ appendDraftIntent(d, a, op)
    /\ Notified(d)
    /\ UNCHANGED <<hosts, pass, note, guests>>

\* The hooks of the pass that read a base value which now moves.
Outdated ==
    IF pass = NoPass THEN pass
    ELSE [pass EXCEPT !.moved = @ \cup {h \in DOMAIN pass.done : base'[Reads(h)] # base[Reads(h)]}]

Written(a, op) ==
    /\ Running /\ urgentWrite(a, op) /\ vars' # vars
    /\ Notified(UrgentLane)
    /\ pass' = Outdated
    /\ UNCHANGED <<hosts, note, guests>>

Released ==
    /\ releaseDraft
    /\ UNCHANGED <<hosts, hook, pass, note, guests>>

\* A provider mounts, and its marker registers the connection.
registerRootConnection(r) ==
    /\ Running /\ pass = NoPass /\ r \notin rootConnections
    /\ rootConnections' = rootConnections \cup {r}
    /\ Quiet /\ UNCHANGED <<recipients, audience, worlds, sent, hook, pass, note, guests>>
-----------------------------------------------------------------------------
(***************************************************************************)
(* Render passes                                                           *)
(***************************************************************************)
worldsReducer(prev, taken) == {d \in prev \cup taken : isLiveDraft(d)}

LiveIn(queue, lanes) == {u \in queue : u.lane \in lanes}
IdsOf(updates) == {u.id : u \in updates}

\* The hooks once a dropped pass has given back what it took: what it mounted
\* is gone, what it rendered keeps the marks of that render.
Dropped ==
    IF pass = NoPass THEN hook
    ELSE [h \in Hooks |-> IF hook[h].mounted
                          THEN [hook[h] EXCEPT !.queue = @ \cup pass.taken[h]] ELSE Absent]

\* The pass begins with the provider, which has updates of its own where the
\* pass takes a draft's id, and then notes its world.
Begin(r, lanes, mounting, sync) ==
    LET carries == sent[r] \cap lanes # {}
        world == IF carries THEN worldsReducer(worlds[r], sent[r] \cap lanes) ELSE worlds[r]
        takes(h) == IF Home(h) = r THEN LiveIn(Dropped[h].queue, lanes) ELSE {}
        rendered == mounting \cup {h \in Mounted : takes(h) # {}}
    IN  /\ carries \/ rendered # {}
        /\ pass' = [stage |-> "render", root |-> r, sync |-> sync, ids |-> sent[r] \cap lanes,
                    carries |-> carries, world |-> world, todo |-> rendered,
                    taken |-> [h \in Hooks |-> takes(h)],
                    done |-> [h \in {} |-> NoTree],
                    moved |-> {}, confirm |-> {}]
        /\ hook' = [h \in Hooks |-> [Dropped[h] EXCEPT !.queue = @ \ takes(h)]]
        /\ note' = IF ~carries THEN note
                   ELSE IF world = {} THEN NoNote ELSE [root |-> r, ids |-> world]
        /\ Quiet /\ UNCHANGED <<hosts, guests>>

\* The parent of a component renders it again, in the lane of its own update.
refresh(h, lane) ==
    /\ Running /\ h \in Mounted
    /\ hook' = [hook EXCEPT ![h].queue = @ \cup {Update(lane, REPAIR_WAKE)}]
    /\ Quiet /\ UNCHANGED <<hosts, pass, note, guests>>

Mountable(r) == {h \in Hooks \ Mounted : Home(h) = r}
UrgentWork == {Home(h) : h \in {m \in Mounted : LiveIn(hook[m].queue, {UrgentLane}) # {}}}

\* Urgent work drops the pass that is rendering.  Behind a commit it runs
\* before the stack unwinds, the note of that commit still standing.
urgentPass(r, mounting) ==
    /\ Running \/ (pass = NoPass /\ releasing = <<>>)
    /\ r \in rootConnections /\ mounting \subseteq Mountable(r)
    /\ r \in UrgentWork \/ mounting # {}
    /\ Begin(r, {UrgentLane}, mounting, TRUE)

\* React renders what transitions are pending in a root together.
transitionPass(r, mounting) ==
    /\ Running /\ pass = NoPass /\ UrgentWork = {}
    /\ r \in rootConnections /\ mounting \subseteq Mountable(r)
    /\ Begin(r, DraftIds, mounting, FALSE)

\* The work loop yields, or the stack unwinds: the note expires.
yield ==
    /\ pass = NoPass \/ (pass.stage = "render" /\ ~pass.sync)
    /\ note # NoNote /\ note' = NoNote
    /\ Quiet /\ UNCHANGED <<hosts, hook, pass, guests>>

\* noteHookRender: another root's note is dropped, and a hook with a world of
\* its own notes that where nobody has.
noteHookRender(r, ids) ==
    IF note # NoNote /\ note.root = r THEN note
    ELSE IF ids # {} THEN [root |-> r, ids |-> ids] ELSE NoNote

\* One useSignal renders: what was delivered is consumed, and the value is
\* that of the pass's noted world, or of the hook's own.
KeptMarks(s) == s                               \* slip
cleared(s) == [s EXCEPT !.delivered = {}, !.repairPending = FALSE]

renderHook(h) ==
    /\ pass.stage = "render" /\ h \in pass.todo
    /\ LET own == worldsReducer(hook[h].ids, IdsOf(pass.taken[h]))
           noted == noteHookRender(pass.root, own)
           ids == IF noted # NoNote THEN noted.ids ELSE own
           shown == [ids |-> ids, value |-> Resolve(Reads(h), ids), live |-> TRUE]
           result == [own |-> own, shown |-> shown]
       IN  /\ note' = noted
           /\ hook' = [hook EXCEPT ![h] = [cleared(@) EXCEPT !.rendered = shown]]
           /\ pass' = [pass EXCEPT
                          !.todo = @ \ {h},
                          !.done = [g \in DOMAIN @ \cup {h} |-> IF g = h THEN result ELSE @[g]]]
    /\ Quiet /\ UNCHANGED <<hosts, guests>>

\* React's check of the stores before it commits: a base value moved since a
\* hook of the pass read it, and all of it renders again without a break.
rerender ==
    /\ pass.stage = "render" /\ pass.todo = {} /\ pass.moved # {} /\ releasing = <<>>
    /\ LET world == IF pass.carries THEN worldsReducer(worlds[pass.root], pass.ids)
                    ELSE pass.world
       IN  /\ pass' = [pass EXCEPT !.sync = TRUE, !.world = world, !.moved = {},
                                   !.todo = DOMAIN pass.done, !.done = [h \in {} |-> NoTree]]
           /\ note' = IF ~pass.carries THEN note
                      ELSE IF world = {} THEN NoNote ELSE [root |-> pass.root, ids |-> world]
    /\ Quiet /\ UNCHANGED <<hosts, hook, guests>>
-----------------------------------------------------------------------------
(***************************************************************************)
(* Commits                                                                 *)
(***************************************************************************)
\* The notices over the drafts of W that are still open and hosted.
Pokes(W) == {Poke(a) : a \in UNION {WrittenBy(d) : d \in {e \in W : isLiveDraft(e) /\ hosted(e)}}}

\* React swaps the trees.
commit ==
    /\ pass.stage = "render" /\ pass.todo = {} /\ pass.moved = {} /\ releasing = <<>>
    /\ worlds' = [worlds EXCEPT ![pass.root] = pass.world]
    /\ sent' = [sent EXCEPT ![pass.root] = @ \ pass.ids]
    /\ pass' = [pass EXCEPT !.stage = IF pass.carries THEN "poke" ELSE "layout"]
    /\ hook' = [h \in Hooks |-> IF h \in DOMAIN pass.done
                                THEN [hook[h] EXCEPT !.ids = pass.done[h].own] ELSE hook[h]]
    /\ Quiet /\ UNCHANGED <<rootConnections, recipients, audience, note, guests>>

\* confirmRootCommit, where the provider rendered: the atoms of the drafts it
\* committed are poked, and then it confirms one draft after the other.
pokeCommitted ==
    /\ pass.stage = "poke"
    /\ told' = Pokes(pass.world)
    /\ UNCHANGED <<draftState, written, log, base, releasing, leaked>>
    /\ Notified(UrgentLane)
    /\ pass' = [pass EXCEPT !.stage = "confirm", !.confirm = pass.world]
    /\ UNCHANGED <<hosts, note, guests>>

Least(S) == CHOOSE d \in S : \A e \in S : d <= e

\* The last root a draft waited for retires it: it folds, and what hears of
\* that is notified while this root is still committing.
confirm ==
    LET d == Least(pass.confirm)
        waiting == recipients[d] \ {pass.root}
    IN  /\ pass.stage = "confirm" /\ pass.confirm # {} /\ releasing = <<>>
        /\ recipients' = [recipients EXCEPT ![d] = waiting]
        /\ pass' = [pass EXCEPT !.confirm = @ \ {d}]
        /\ IF recipients[d] # {} /\ waiting = {} /\ isLiveDraft(d)
           THEN retireDraft(d) /\ Notified(UrgentLane)
           ELSE Quiet /\ UNCHANGED hook
        /\ UNCHANGED <<rootConnections, audience, worlds, sent, note, guests>>

confirmed ==
    /\ pass.stage = "confirm" /\ pass.confirm = {} /\ releasing = <<>>
    /\ pass' = [pass EXCEPT !.stage = "layout"]
    /\ Quiet /\ UNCHANGED <<hosts, hook, note, guests>>

draftsAffecting(a) == {d \in OpenDrafts : a \in WrittenBy(d)}

\* correctSubscription for a hook that has just subscribed.
Uncorrected(h, s) == s                          \* slip
MissedBy(h) == {d \in draftsAffecting(Reads(h)) \ hook[h].rendered.ids :
                    hosted(d) /\ Home(h) \in audience[d]}
correctSubscription(h, s) ==
    LET s1 == deliver(s, MissedBy(h), UrgentLane)
    IN  IF Resolve(Reads(h), s.rendered.ids) = s.rendered.value THEN s1
        ELSE [s1 EXCEPT !.queue = @ \cup {Update(UrgentLane, REPAIR_WAKE)}]

\* The layout effects of one hook: a new one subscribes, and the committed
\* stash advances to what this pass rendered.
layout(h) ==
    /\ pass.stage = "layout" /\ h \in DOMAIN pass.done
    /\ LET was == hook[h]
           subscribed == IF was.mounted THEN was
                         ELSE correctSubscription(h, [was EXCEPT !.mounted = TRUE])
       IN  /\ hook' = [hook EXCEPT ![h] = [subscribed EXCEPT !.committed = pass.done[h].shown]]
           /\ guests' = IF ~was.mounted /\ pass.done[h].shown.ids # was.ids
                        THEN guests \cup {h} ELSE guests
    /\ pass' = [pass EXCEPT !.done = [g \in DOMAIN @ \ {h} |-> @[g]]]
    /\ Quiet /\ UNCHANGED <<hosts, note>>

laidOut ==
    /\ pass.stage = "layout" /\ DOMAIN pass.done = {}
    /\ pass' = NoPass
    /\ Quiet /\ UNCHANGED <<hosts, hook, note, guests>>

\* A component leaves the tree, in an urgent commit of its own.
unmount(h) ==
    /\ Running /\ h \in Mounted
    /\ hook' = [Dropped EXCEPT ![h] = Absent]
    /\ guests' = guests \ {h}
    /\ pass' = NoPass
    /\ Quiet /\ UNCHANGED <<hosts, note>>

NextAll ==
    \/ \E d \in DraftIds : broadcastDraft(d)
    \/ \E d \in DraftIds, a \in Atoms, op \in Ops : Drafted(d, a, op)
    \/ \E a \in Atoms, op \in Ops : Written(a, op)
    \/ Released
    \/ \E r \in Roots : registerRootConnection(r)
    \/ \E r \in Roots, mounting \in SUBSET Hooks :
          urgentPass(r, mounting) \/ transitionPass(r, mounting)
    \/ yield \/ rerender \/ commit \/ pokeCommitted \/ confirm \/ confirmed \/ laidOut
    \/ \E h \in Hooks, lane \in RefreshLanes \cap ({UrgentLane} \cup OpenDrafts) : refresh(h, lane)
    \/ \E h \in Hooks : renderHook(h) \/ layout(h) \/ unmount(h)

SpecAll == InitAll /\ [][NextAll]_allVars
-----------------------------------------------------------------------------
(***************************************************************************)
(* Properties                                                              *)
(***************************************************************************)
\* No commit is under way.
Between == pass.stage \in {"none", "render"} /\ releasing = <<>>

\* What is on its way to a hook, taken by a pass or not.
OnItsWay(h) == hook[h].queue # {} \/ (pass # NoPass /\ pass.taken[h] # {})

\* No stale screen: a component shows what its signal is now in the world it
\* was committed in, or has an update waiting that renders it again.  No
\* order of writes, renders, dropped passes, retirements and subscriptions
\* leaves it behind.
ScreenIsCurrent ==
    Between => \A h \in Mounted :
        \/ hook[h].committed.value = Resolve(Reads(h), hook[h].committed.ids)
        \/ OnItsWay(h)

\* What component h would show of the drafts its root has committed.
ShowsCommitted(h) ==
    \/ hook[h].committed.value = Resolve(Reads(h), worlds[Home(h)])
    \/ OnItsWay(h)

\* The drafts a component has been handed that are still open.
Handed(h) == {d \in hook[h].ids : isLiveDraft(d)}

\* The drafts that changed the atom of component h were sent to its root.
SentHome(h) == \A d \in draftsAffecting(Reads(h)) : Home(h) \in audience[d]

\* No torn commit: once a root has committed a draft that it was sent and that
\* is still open, every component of that root that has subscribed for itself,
\* and that shows the drafts it was handed, shows it, or is about to, whether it
\* was there when the draft was written or came later.
CommitsTogether ==
    Between => \A h \in Mounted \ guests :
        SentHome(h) /\ Handed(h) \subseteq hook[h].committed.ids => ShowsCommitted(h)

\* hooks.ts:174: without a snapshot noted by its provider a hook uses its own
\* reducer state, so a component shows every draft it was handed.
HandedIsShown ==
    Between => \A h \in Mounted :
        Handed(h) \subseteq hook[h].committed.ids \/ OnItsWay(h)

\* host.ts:396: a component that mounts within a transition's pass converges
\* with that root's commit like the others.
GuestsCommitToo == Between => \A h \in Mounted : ShowsCommitted(h)

\* A component shows a draft that was sent to its root only once that root has
\* committed it: no urgent frame, late wake or expired note shows it earlier.
NoDraftLeaks ==
    Between => \A h \in Mounted : \A d \in hook[h].committed.ids :
        isLiveDraft(d) /\ Home(h) \in audience[d] => d \in worlds[Home(h)]

\* host.ts:398: a root that mounted after a draft opened, and so was not sent it,
\* shows the committed world until that draft ends.
LateRootsStayCommitted ==
    Between => \A h \in Mounted : \A d \in hook[h].committed.ids :
        isLiveDraft(d) => Home(h) \in audience[d]

\* A repair is news: when one is queued, the component shows something else
\* than it would, once the commit under way is complete.
RepairsAreNews ==
    [][\A h \in Mounted :
          LET shows == IF pass.stage \in {"poke", "confirm"} /\ h \in DOMAIN pass.done
                       THEN pass.done[h].shown ELSE hook[h].committed
          IN  hook'[h].repairPending /\ ~hook[h].repairPending =>
                  shows.value # Resolutions(Reads(h))'[shows.ids]]_allVars
=============================================================================
