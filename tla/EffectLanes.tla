---------------------------- MODULE EffectLanes ----------------------------
(***************************************************************************)
(* The effect lanes of packages/cosignals/src/graph.ts and their React     *)
(* hosts (laneWakePump and registerEffectHost of react/host.ts, the        *)
(* DeferredEffectHost of react/CosignalsProvider.ts).  A write schedules   *)
(* every live effect into the queue of its lane.  The sync lane drains in  *)
(* the write's flush; the deferred ones wait for a pump: a microtask and a *)
(* timer, or the commits of a mounted host.                                *)
(*                                                                         *)
(* One atom stands for the graph: a computation's value is the atom's, and *)
(* an effect's values are equal when they are the same.  A drain is a      *)
(* frame on the call stack, top first: the lanes it still has to drain,    *)
(* where it is in the current round, and the entries left of it.  Program  *)
(* code (a callback, or a task at the bottom) writes, disposes, drains,    *)
(* and may have React commit, so drains nest.                              *)
(***************************************************************************)
EXTENDS Lists

CONSTANTS
    NEffects,       \* effects, numbered in subscription order
    Values,         \* values of the atom
    Initial,        \* the one it has when the effects are made
    Hosts,          \* React roots with a provider, mounted or not
    CallbacksThrow, \* whether computations, cleanups and handlers may throw
    MaxWrites,      \* bound: writes and batches of writes
    MaxPumps        \* bound: microtasks, or timers, outstanding at once

Sync == 0
UseLayoutEffect == 1
UseEffect == 2
Lanes == {Sync, UseLayoutEffect, UseEffect}
Deferred == {UseLayoutEffect, UseEffect}
Effects == 1..NEffects

ASSUME CountsAssumption == NEffects \in Nat /\ MaxWrites \in Nat /\ MaxPumps \in Nat
ASSUME ValuesAssumption == Initial \in Values
ASSUME ThrowAssumption == CallbacksThrow \in BOOLEAN

VARIABLES
    lane,           \* lane[e]: the lane of effect e, chosen when it is made
    current,        \* the atom's value
    watched,        \* the effects not disposed
    handled,        \* handled[e]: lastHandled, the value its handler last got
    cleanup,        \* the effects whose last run returned a cleanup
    scheduled,      \* the effects with the Scheduled flag
    queue,          \* queue[l]: the entries of lane l beyond its cursor
    pump,           \* the lanes with pumpRequested
    builtin,        \* builtin[l]: built-in pumps (microtasks, timers) to come
    mounted,        \* the hosts in effectHostWakes
    woken,          \* those of them with a wake to commit
    passiveDue,     \* the host whose passive phase is still to come, if any
    stack,          \* the drains under way
    writes,         \* how many writes were made
    dropped         \* effects a throw preempted, until they are scheduled again

effects == <<lane, watched, handled, cleanup>>
hosts == <<mounted, woken, passiveDue>>
pumps == <<pump, builtin>>
vars == <<current, effects, scheduled, queue, pumps, hosts, stack, writes, dropped>>

\* The effects have been made: each has run once and returned a cleanup.
Init ==
    /\ lane \in [Effects -> Lanes]
    /\ current = Initial
    /\ watched = Effects
    /\ handled = [e \in Effects |-> Initial]
    /\ cleanup = Effects
    /\ scheduled = {}
    /\ queue = [l \in Lanes |-> <<>>]
    /\ pump = {} /\ builtin = [l \in Deferred |-> 0]
    /\ mounted = {} /\ woken = {} /\ passiveDue = {}
    /\ stack = <<>>
    /\ writes = 0 /\ dropped = {}
-----------------------------------------------------------------------------
Top == Head(stack)
Under == Tail(stack)
Lane == Head(Top.todo)                  \* the lane the top frame is at

\* Program code runs: at the bottom of the stack or in a callback of the top.
UserRuns == stack # <<>> => Top.busy

\* The lane's head is not 0: some frame is in the middle of draining it.
Draining(l) == \E i \in DOMAIN stack : stack[i].phase # "enter" /\ Head(stack[i].todo) = l

\* The stack after a call that drains some lanes, one after the other.
Call(lanes, react) ==
    <<[todo |-> lanes, react |-> react, phase |-> "enter", value |-> current,
       left |-> <<>>, kept |-> <<>>, busy |-> FALSE]>> \o stack

\* requestLaneDrain for each lane of ask: wake the hosts if there are any,
\* else queue a microtask or a timer.
requestLaneDrain(ask, there) ==
    /\ pump' = pump \cup ask
    /\ builtin' = [l \in Deferred |-> IF l \in ask /\ there = {} THEN builtin[l] + 1 ELSE builtin[l]]
    /\ \A l \in Deferred : builtin'[l] <= MaxPumps

Subscribed == [e \in Effects |-> e]      \* the effects in subscription order

NotInARound(l) ==                       \* slip: an entry of a round counts as queued
    Only(Subscribed, {e \in watched \ scheduled : /\ lane[e] = l
                        /\ \A i \in DOMAIN stack : e \notin Members(stack[i].left)})
\* What a wave appends to a lane: its live effects that are not queued yet.
scheduleWatcher(l) == Only(Subscribed, {e \in watched \ scheduled : lane[e] = l})

\* A write, or a batch of writes (which may end at the value it began with):
\* the wave schedules the effects, and the flush drains the sync lane unless a
\* drain of it is under way.
writeAtom(new) ==
    LET ask == {l \in Deferred \ pump : scheduleWatcher(l) # <<>>}
    IN  /\ UserRuns /\ writes < MaxWrites
        /\ writes' = writes + 1
        /\ current' = new
        /\ queue' = [l \in Lanes |-> queue[l] \o scheduleWatcher(l)]
        /\ scheduled' = scheduled \cup UNION {Members(scheduleWatcher(l)) : l \in Lanes}
        /\ dropped' = {}
        /\ requestLaneDrain(ask, mounted)
        /\ woken' = IF ask = {} THEN woken ELSE woken \cup mounted
        /\ stack' = IF queue'[Sync] = <<>> \/ Draining(Sync) THEN stack
                    ELSE Call(<<Sync>>, FALSE)
        /\ UNCHANGED <<effects, mounted, passiveDue>>

\* The program disposes an effect.  The cleanup runs inside the call, so what
\* its code does is what the caller may do next.
disposeEffect(e) ==
    /\ UserRuns /\ e \in watched
    /\ watched' = watched \ {e}
    /\ cleanup' = cleanup \ {e}
    /\ UNCHANGED <<current, lane, handled, scheduled, queue, pumps, hosts, stack, writes, dropped>>

flushScheduledEffects ==
    /\ UserRuns /\ ~Draining(UseLayoutEffect)
    /\ \E l \in Deferred : queue[l] # <<>>
    /\ stack' = Call(<<UseLayoutEffect, UseEffect>>, FALSE)
    /\ UNCHANGED <<current, effects, scheduled, queue, pumps, hosts, writes, dropped>>
-----------------------------------------------------------------------------
(***************************************************************************)
(* A drain                                                                 *)
(***************************************************************************)
\* The stack when the top frame is done with its lane.
LeftLane ==
    IF Len(Top.todo) = 1 THEN Under
    ELSE <<[Top EXCEPT !.todo = Tail(@), !.phase = "enter"]>> \o Under

\* A lane that is empty or drained by a frame further down is left alone; a
\* drain ends when a round leaves the queue empty.
leaveLane ==
    /\ stack # <<>>
    /\ \/ Top.phase = "enter" /\ (queue[Lane] = <<>> \/ Draining(Lane))
       \/ Top.phase = "pull" /\ queue[Lane] = <<>>
    /\ stack' = LeftLane
    /\ UNCHANGED <<current, effects, scheduled, queue, pumps, hosts, writes, dropped>>

\* The top frame is about to pull a round.
AtRound ==
    /\ stack # <<>> /\ queue[Lane] # <<>>
    /\ Top.phase = "pull" \/ (Top.phase = "enter" /\ ~Draining(Lane))

survivors == {e \in watched : handled[e] # current}

\* Phase 1 of a round: every entry loses its Scheduled flag and is pulled; the
\* live ones whose value differs from the handled one survive.  No program
\* code that can write runs in between.
pullRound ==
    /\ AtRound
    /\ scheduled' = scheduled \ Members(queue[Lane])
    /\ queue' = [queue EXCEPT ![Lane] = <<>>]
    /\ stack' = <<[Top EXCEPT !.phase = "cleanup", !.value = current,
                              !.left = Only(queue[Lane], survivors)]>> \o Under
    /\ UNCHANGED <<current, effects, pumps, hosts, writes, dropped>>

InCallback == stack # <<>> /\ Top.busy
Between(phase) == stack # <<>> /\ ~Top.busy /\ Top.phase = phase /\ Top.left # <<>>
Entry == Head(Top.left)

Unmarked(e) == e \in watched \ scheduled    \* slip: skips after the cleanup ran
runs(e) == e \in watched                 \* in phase 2b

\* Phase 2a: an entry re-marked since its pull, or disposed, is skipped with
\* its cleanup; phase 2b skips the disposed ones.
skipEntry ==
    /\ \/ Between("cleanup") /\ (Entry \in scheduled \/ Entry \notin watched)
       \/ Between("run") /\ ~runs(Entry)
    /\ stack' = <<[Top EXCEPT !.left = Tail(@)]>> \o Under
    /\ UNCHANGED <<current, effects, scheduled, queue, pumps, hosts, writes, dropped>>

runEffectCleanup ==
    /\ Between("cleanup") /\ Entry \in watched \ scheduled
    /\ cleanup' = cleanup \ {Entry}
    /\ stack' = IF Entry \in cleanup THEN <<[Top EXCEPT !.busy = TRUE]>> \o Under
                ELSE <<[Top EXCEPT !.left = Tail(@), !.kept = Append(@, Entry)]>> \o Under
    /\ UNCHANGED <<current, lane, watched, handled, scheduled, queue, pumps, hosts, writes, dropped>>

\* Phase 2b: the handler gets the value of its pull.
runHandler ==
    /\ Between("run") /\ runs(Entry)
    /\ handled' = [handled EXCEPT ![Entry] = Top.value]
    /\ stack' = <<[Top EXCEPT !.busy = TRUE]>> \o Under
    /\ UNCHANGED <<current, lane, watched, cleanup, scheduled, queue, pumps, hosts, writes, dropped>>

\* The callback returns; a handler may return a cleanup, which replaces the
\* one before.
callbackReturns ==
    /\ InCallback
    /\ CASE Top.phase = "cleanup" ->
                /\ stack' = <<[Top EXCEPT !.busy = FALSE, !.left = Tail(@),
                                          !.kept = Append(@, Entry)]>> \o Under
                /\ UNCHANGED cleanup
         [] Top.phase = "run" ->
                /\ stack' = <<[Top EXCEPT !.busy = FALSE, !.left = Tail(@)]>> \o Under
                /\ cleanup' \in {cleanup, cleanup \cup {Entry}}
    /\ UNCHANGED <<current, lane, watched, handled, scheduled, queue, pumps, hosts, writes, dropped>>

\* The end of phase 2a, and of the round.
nextPhase ==
    /\ stack # <<>> /\ Top.phase \in {"cleanup", "run"} /\ Top.left = <<>>
    /\ stack' = <<[Top EXCEPT !.left = Top.kept, !.kept = <<>>,
                              !.phase = IF @ = "cleanup" THEN "run" ELSE "pull"]>> \o Under
    /\ UNCHANGED <<current, effects, scheduled, queue, pumps, hosts, writes, dropped>>

\* What a throw preempts: the rest of the round and what was queued after it.
Preempted == Members(queue[Lane]) \cup Members(Top.left) \cup Members(Top.kept)

RoundOnly == Members(Top.left) \cup Members(Top.kept)   \* slip: forgets the queue
clearedBy == Preempted

\* A throw leaves the frame: the entries it preempted are cleared, and the
\* lanes the call has not come to are not drained.
abortDrain ==
    /\ queue' = [queue EXCEPT ![Lane] = <<>>]
    /\ scheduled' = scheduled \ clearedBy
    /\ dropped' = dropped \cup Preempted
    /\ stack' = Under
    /\ UNCHANGED <<current, lane, handled, pumps, hosts, writes>>

\* A computation of the round throws, once the entries before it are pulled.
pullThrows ==
    /\ CallbacksThrow /\ AtRound
    /\ \E e \in Members(queue[Lane]) : e \in watched
    /\ abortDrain
    /\ UNCHANGED <<watched, cleanup>>

\* A callback throws; an effect whose cleanup throws is disposed.
callbackThrows ==
    /\ CallbacksThrow /\ InCallback
    /\ watched' = IF Top.phase = "cleanup" THEN watched \ {Entry} ELSE watched
    /\ abortDrain
    /\ UNCHANGED cleanup
-----------------------------------------------------------------------------
(***************************************************************************)
(* Pumps and hosts                                                         *)
(***************************************************************************)
KeptRequest(l) == pump                  \* slip: the request outlives its pump
pumpRuns(l) == pump \ {l}

\* The microtask: drainUseLayoutEffectLane.
microtask ==
    /\ stack = <<>> /\ builtin[UseLayoutEffect] > 0
    /\ builtin' = [builtin EXCEPT ![UseLayoutEffect] = @ - 1]
    /\ pump' = pumpRuns(UseLayoutEffect)
    /\ stack' = Call(<<UseLayoutEffect>>, FALSE)
    /\ UNCHANGED <<current, effects, scheduled, queue, hosts, writes, dropped>>

\* The timer: drainDeferredEffects.  Microtasks come before any timer.
timer ==
    /\ stack = <<>> /\ builtin[UseEffect] > 0 /\ builtin[UseLayoutEffect] = 0
    /\ builtin' = [builtin EXCEPT ![UseEffect] = @ - 1]
    /\ pump' = pumpRuns(UseEffect)
    /\ stack' = Call(<<UseLayoutEffect, UseEffect>>, FALSE)
    /\ UNCHANGED <<current, effects, scheduled, queue, hosts, writes, dropped>>

\* React can commit: from a task of its own, or where program code asks for a
\* synchronous commit outside React.
ReactMayRun == UserRuns /\ \A i \in DOMAIN stack : ~stack[i].react

\* The layout phase of a host's commit, its first one (which registers it),
\* one it was woken for, or any other.  React flushes the passive effects of
\* one commit before it begins another.
commitLayout(h) ==
    /\ ReactMayRun /\ passiveDue = {}
    /\ mounted' = mounted \cup {h}
    /\ woken' = woken \ {h}
    /\ passiveDue' = {h}
    /\ pump' = pumpRuns(UseLayoutEffect)
    /\ stack' = Call(<<UseLayoutEffect>>, TRUE)
    /\ UNCHANGED <<current, effects, scheduled, queue, builtin, writes, dropped>>

\* The passive phase of that commit: drainDeferredEffects.
commitPassive(h) ==
    /\ ReactMayRun /\ h \in passiveDue
    /\ passiveDue' = {}
    /\ pump' = pumpRuns(UseEffect)
    /\ stack' = Call(<<UseLayoutEffect, UseEffect>>, TRUE)
    /\ UNCHANGED <<current, effects, scheduled, queue, builtin, mounted, woken, writes, dropped>>

StillWoken(h) == woken                  \* slip: the wake outlives its host
otherWakes(h) == woken \ {h}

\* A host unmounts: its wake is deleted, and repumpDeferredLanes requests
\* every deferred lane that has entries again.
unregisterEffectHost(h) ==
    LET again == {l \in Deferred : queue[l] # <<>>}
    IN  /\ ReactMayRun /\ passiveDue = {} /\ h \in mounted
        /\ mounted' = mounted \ {h}
        /\ requestLaneDrain(again, mounted')
        /\ woken' = IF again = {} THEN otherWakes(h) ELSE otherWakes(h) \cup mounted'
        /\ UNCHANGED <<current, effects, scheduled, queue, passiveDue, stack, writes, dropped>>

Engine == leaveLane \/ pullRound \/ skipEntry \/ runEffectCleanup \/ runHandler \/ nextPhase

Next ==
    \/ Engine \/ callbackReturns \/ pullThrows \/ callbackThrows
    \/ \E new \in Values : writeAtom(new)
    \/ \E e \in Effects : disposeEffect(e)
    \/ flushScheduledEffects \/ microtask \/ timer
    \/ \E h \in Hosts : commitLayout(h) \/ commitPassive(h) \/ unregisterEffectHost(h)

\* A drain is a synchronous call and callbacks return; the event loop runs
\* what is queued; React commits a host it was asked to render, and then its
\* passive effects.
Fairness ==
    /\ WF_vars(Engine) /\ SF_vars(callbackReturns)
    /\ SF_vars(microtask) /\ SF_vars(timer)
    /\ \A h \in Hosts : SF_vars(h \in woken /\ commitLayout(h)) /\ SF_vars(commitPassive(h))

Spec == Init /\ [][Next]_vars /\ Fairness
-----------------------------------------------------------------------------
(***************************************************************************)
(* Properties                                                              *)
(***************************************************************************)
\* Every variable has its type; only mounted hosts have work to commit.
Frames == [todo : Seq(Lanes), react : BOOLEAN, busy : BOOLEAN, value : Values,
           phase : {"enter", "pull", "cleanup", "run"},
           left : Seq(Effects), kept : Seq(Effects)]
TypeOK ==
    /\ lane \in [Effects -> Lanes] /\ handled \in [Effects -> Values]
    /\ current \in Values
    /\ {watched, cleanup, scheduled, dropped} \subseteq SUBSET Effects
    /\ queue \in [Lanes -> Seq(Effects)]
    /\ pump \subseteq Deferred /\ builtin \in [Deferred -> 0..MaxPumps]
    /\ mounted \subseteq Hosts /\ woken \subseteq mounted /\ passiveDue \subseteq mounted
    /\ stack \in Seq(Frames)
    /\ writes \in 0..MaxWrites

\* The Scheduled flag is exactly membership of the queue of the effect's own
\* lane, once, through nested drains, throws and disposals: an effect with a
\* stray flag would never be scheduled again, one without it would run twice.
QueuedOnce ==
    /\ \A l \in Lanes : Distinct(queue[l])
    /\ \A e \in Effects :
        {l \in Lanes : e \in Members(queue[l])} = IF e \in scheduled THEN {lane[e]} ELSE {}

\* The entries of the rounds under way that will still get the present value.
InARound == UNION {Members(stack[i].left) \cup Members(stack[i].kept) :
                        i \in {j \in DOMAIN stack : stack[j].value = current}}

\* No settled change is forgotten: a live effect whose handler has not seen
\* the present value is scheduled or in a round with that value, unless a
\* throw preempted it.
NothingForgotten ==
    \A e \in watched : handled[e] # current => e \in scheduled \cup dropped \cup InARound

\* The effects whose previous run has been released and whose next is due.
Owed == UNION {Members(stack[i].kept) \cup
               (IF stack[i].phase = "run" THEN Members(stack[i].left) ELSE {}) :
                    i \in DOMAIN stack}

\* Once a cleanup has run, its handler runs: an effect leaves the second half
\* of a round by running, by being disposed, or because a callback threw.
CleanupsPaired ==
    [][\A e \in Owed \ Owed' :
            (Top.busy /\ Entry = e) \/ e \notin watched' \/ Len(stack') < Len(stack)]_vars

\* A live effect waits for a drain.
Waiting(e) == e \in scheduled \cap watched

\* Every waiting effect is pulled or disposed eventually, if no host is ever mounted or
\* one stays mounted from some time on.
EffectsSettle ==
    ([](mounted = {}) \/ <>[](mounted # {})) =>
        \A e \in Effects : Waiting(e) ~> ~Waiting(e)

\* Liveness never depends on a commit arriving: also when hosts come and go,
\* every waiting effect is pulled or disposed eventually.
SettlesWithoutACommit == \A e \in Effects : Waiting(e) ~> ~Waiting(e)

\* A cleanup runs before the next handler run and at disposal: a disposed
\* effect holds none.
DisposedIsClean == cleanup \subseteq watched
=============================================================================
