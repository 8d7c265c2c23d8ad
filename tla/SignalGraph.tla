---------------------------- MODULE SignalGraph ----------------------------
(***************************************************************************)
(* The base plane of packages/cosignals/src/graph.ts and asyncs.ts: atoms, *)
(* computeds, effects and subscriptions, the wave a write pushes through   *)
(* watched edges, the pull that validates against change clocks, the       *)
(* promotion and demotion of what becomes watched or unwatched, and        *)
(* computations that park on thenables.                                    *)
(*                                                                         *)
(* A pull runs one step at a time: a frame of the call stack validates     *)
(* (ensureFreshAt) or evaluates (recompute) one node, and the program gets *)
(* its turn when the stack is empty.  It may then write, read, subscribe,  *)
(* dispose, or run what is scheduled, in any order: a batch, a deferred    *)
(* lane or a flush are such orders.  A body is a function of the outcomes  *)
(* it has read so far.                                                     *)
(***************************************************************************)
EXTENDS Lists, FiniteSets

CONSTANTS
    Atoms, Computeds, Effects,
    Watchers,           \* subscriptions: one pinned edge, never evaluated
    Watchable,          \* what subscriptions may watch
    Thenables,          \* promises of the program
    Suspensions,        \* promises the engine makes; unreferenced ones recur
    Values, Initial,    \* values of the atoms, and the one they start with
    Fulfilments,        \* what the program's thenables may settle to
    None,               \* UNINITIALIZED, and the absence of a thing
    Shapes,             \* programs: which bodies the evaluated nodes have
    Body(_, _, _),      \* Body(s, n, seen): what n's body does after reading seen
    Written(_),         \* the atoms the program writes
    Cycle, Rejection,   \* reasons thrown: cycle detected, a rejected thenable
    MaxClock(_)         \* bound: readings of the change clock while a shape runs

Evaluated == Computeds \cup Effects
Producers == Atoms \cup Computeds
Sinks == Effects \cup Watchers
Promises == Thenables \cup Suspensions

ASSUME BoundAssumption == \A s \in Shapes : MaxClock(s) \in Nat \ {0}
ASSUME KindsAssumption ==
    /\ Atoms \cap (Evaluated \cup Watchers) = {} /\ Computeds \cap Sinks = {}
    /\ Effects \cap Watchers = {} /\ Thenables \cap Suspensions = {}
    /\ IsFiniteSet(Evaluated)
ASSUME ValuesAssumption ==
    /\ Initial \in Values /\ Fulfilments \subseteq Values /\ None \notin Values
    /\ Watchable \subseteq Producers /\ None \notin Producers

VARIABLES
    shape,              \* the program, the same all along
    val,                \* val[a]: value of an atom
    clock,              \* graphChangeClock
    changedAt,          \* changedAtGraphChange of a producer
    validAt,            \* validAtGraphChange of an evaluated node
    mark,               \* its staleness bits: "clean", "check" or "dirty"
    cache,              \* its value slot: the last settled value, or None
    async,              \* its async bits and throwable
    deps,               \* its dependency list
    life,               \* life[e]: "new", "alive" or "disposed"
    target,             \* target[w]: the node a subscription watches, or None
    watched,            \* the nodes with the Watched flag
    scheduled,          \* the sinks with the Scheduled flag
    told,               \* what an effect last handled, a subscription last read
    stack,              \* frames of the pull under way, top first
    task,               \* who asked for it
    status,             \* status[p] of a promise's box, "unseen" before it has one
    result,             \* result[t]: what a thenable settled to
    parkedNodes,        \* parkedNodes[p], parkedSuspensions[p]: what awaits p
    parkedSuspensions,
    resolved,           \* suspensions whose resolve was called
    settling            \* nodes and suspensions a settlement still has to handle

nodes == <<changedAt, validAt, mark, cache, async, deps>>
owners == <<life, target, watched>>
boxes == <<status, result, parkedNodes, parkedSuspensions, resolved>>
vars == <<shape, val, clock, nodes, owners, scheduled, told, stack, task, boxes, settling>>

Plain == [kind |-> "plain", of |-> None]
Failed(x) == [kind |-> "error", of |-> x]
Suspended(s) == [kind |-> "suspended", of |-> s]
Idle == [op |-> "idle", of |-> None]
Nothing == [nodes |-> {}, suspensions |-> {}, on |-> FALSE]


Init ==
    /\ shape \in Shapes
    /\ val = [a \in Atoms |-> Initial]
    /\ clock = 1
    /\ changedAt = [n \in Producers |-> 0]
    /\ validAt = [n \in Evaluated |-> 0]
    /\ mark = [n \in Evaluated |-> "dirty"]
    /\ cache = [n \in Evaluated |-> None]
    /\ async = [n \in Evaluated |-> Plain]
    /\ deps = [n \in Evaluated |-> <<>>]
    /\ life = [e \in Effects |-> "new"]
    /\ target = [w \in Watchers |-> None]
    /\ watched = {}
    /\ scheduled = {}
    /\ told = [s \in Sinks |-> None]
    /\ stack = <<>> /\ task = Idle
    /\ status = [p \in Promises |-> "unseen"]
    /\ result = [t \in Thenables |-> None]
    /\ parkedNodes = [p \in Promises |-> {}]
    /\ parkedSuspensions = [p \in Promises |-> {}]
    /\ resolved = {}
    /\ settling = Nothing

-----------------------------------------------------------------------------
(* Observers.  observerCount > 0 is reachability from a live sink.          *)

Reached(ds, lf, tg) ==
    LET Within[k \in 0..Cardinality(Computeds) + 1] ==
            IF k = 0
            THEN {e \in Effects : lf[e] = "alive"} \cup ({tg[w] : w \in Watchers} \ {None})
            ELSE Within[k - 1] \cup UNION {Members(ds[n]) : n \in Within[k - 1] \cap Evaluated}
    IN Within[Cardinality(Computeds) + 1]

Watched(n) == n \in watched

Computing == {stack[i].node : i \in {j \in DOMAIN stack : stack[j].mode = "run"}}

\* Slip: only a reading that moved makes the new subscriber check.
ReadingsOnly(ds, mk) ==
    [n \in Evaluated |->
        IF /\ n \in ((watched' \ watched) \cap Computeds) \ Computing
           /\ mk[n] = "clean"
           /\ \E d \in Members(ds[n]) : changedAt[d] > validAt[n]
        THEN "check" ELSE mk[n]]

\* The computeds that the edges, effects and subscriptions ds, lf, tg make
\* watched: each checks its dependencies once, deepest first (addObserver).
Promoted(ds, mk) ==
    LET new == (watched' \ watched) \cap Computeds
        Seeded[k \in 0..Cardinality(Computeds)] ==
            IF k = 0 THEN mk
            ELSE [n \in Evaluated |->
                    IF /\ n \in new \ Computing
                       /\ mk[n] = "clean"
                       /\ \E d \in Members(ds[n]) :
                            \/ changedAt[d] > validAt[n]
                            \/ d \in Computeds /\ Seeded[k - 1][d] /= "clean"
                    THEN "check" ELSE mk[n]]
    IN Seeded[Cardinality(Computeds)]

\* Those they make unwatched get a watermark for their unwatched life
\* (removeObserver).
Demoted(mk, va) ==
    [n \in Evaluated |->
            IF n \in (watched \ watched') \cap Computeds
            THEN IF mk[n] = "clean" THEN clock ELSE 0
            ELSE va[n]]

\* The edges or owners change to ds, lf, tg.
Relink(ds, lf, tg, mk, va) ==
    /\ watched' = IF ds = deps /\ lf = life /\ tg = target THEN watched ELSE Reached(ds, lf, tg)
    /\ mark' = Promoted(ds, mk)
    /\ validAt' = Demoted(mk, va)
    /\ deps' = ds /\ life' = lf /\ target' = tg

-----------------------------------------------------------------------------
(* The wave.                                                                *)

Subscribers(d) ==
    {n \in Evaluated : Watched(n) /\ d \in Members(deps[n])}
        \cup {w \in Watchers : target[w] = d}

\* Slip: the wave ends with the second ring.
FirstRing(d, mk) == {n \in Subscribers(d) \cap Computeds : mk[n] = "clean"}

\* The computeds whose subscribers the wave from d goes on to: clean ones it
\* reaches through clean ones.
Opened(d, mk) ==
    LET Clean(ns) == {n \in ns \cap Computeds : mk[n] = "clean"}
        Within[k \in 0..Cardinality(Computeds)] ==
            IF k = 0 THEN Clean(Subscribers(d))
            ELSE Within[k - 1] \cup Clean(UNION {Subscribers(n) : n \in Within[k - 1]})
    IN Within[Cardinality(Computeds)]

\* d has changed: the direct ring becomes dirty, what is below it possibly
\* stale, and every sink met is scheduled.
Wave(d, mk) ==
    LET ring == Subscribers(d)
        below == UNION {Subscribers(n) : n \in Opened(d, mk)}
    IN /\ mark' = [n \in Evaluated |->
                    IF n \in ring THEN "dirty"
                    ELSE IF n \in below /\ mk[n] = "clean" THEN "check"
                    ELSE mk[n]]
       /\ scheduled' = scheduled \cup ((ring \cup below) \cap Sinks)

-----------------------------------------------------------------------------
(* The pull.                                                                *)

IsFresh(n) == mark[n] = "clean" /\ (Watched(n) \/ validAt[n] = clock)

NeedsPull(d) == d \in Computeds /\ ~IsFresh(d)

Frame(n, mode) == [node |-> n, mode |-> mode, pos |-> 0, seen |-> <<>>]

\* ensureFreshAt(n): confirm the dependencies first, or evaluate at once.
Entered(n) ==
    Frame(n, IF mark[n] = "dirty" \/ cache[n] = None THEN "run" ELSE "check")

Top == Head(stack)
Below == Tail(stack)

\* The program has control: no pull is under way, no settled node waits.
Ready == stack = <<>> /\ task = Idle /\ settling.nodes = {}

\* Asking for a node that is being evaluated throws, and so does validating
\* one whose dependency changed while it is.
Push(frame, under) ==
    /\ ~(frame.mode = "run" /\ frame.node \in Computing)
    /\ stack' = <<frame>> \o under

\* One dependency confirmed, or found changed, or pulled first.
CheckStep ==
    /\ stack /= <<>> /\ Top.mode = "check"
    /\ LET n == Top.node
           d == deps[n][Top.pos + 1]
       IN \/ /\ Top.pos = Len(deps[n])          \* every one confirmed
             /\ mark' = [mark EXCEPT ![n] = "clean"]
             /\ validAt' = [validAt EXCEPT ![n] = clock]
             /\ stack' = Below
          \/ /\ Top.pos < Len(deps[n])
             /\ \/ /\ NeedsPull(d)
                   /\ Push(Entered(d), stack)
                \/ /\ ~NeedsPull(d)
                   /\ changedAt[d] > validAt[n]
                   /\ Push(Frame(n, "run"), Below)
                \/ /\ ~NeedsPull(d)
                   /\ changedAt[d] <= validAt[n]
                   /\ stack' = <<[Top EXCEPT !.pos = @ + 1]>> \o Below
             /\ UNCHANGED <<mark, validAt>>
    /\ UNCHANGED <<shape, val, clock, changedAt, cache, async, deps, owners,
                   scheduled, told, task, boxes, settling>>

\* trackRead(d) by the frame f: the list after the read, and the cursor.
Tracked(f, d) ==
    LET list == deps[f.node]
    IN IF d \in Members(SubSeq(list, 1, f.pos)) THEN [list |-> list, pos |-> f.pos]
       ELSE IF f.pos < Len(list) /\ list[f.pos + 1] = d
            THEN [list |-> list, pos |-> f.pos + 1]
            ELSE [list |-> SubSeq(list, 1, f.pos) \o <<d>> \o SubSeq(list, f.pos + 1, Len(list)),
                  pos |-> f.pos + 1]

Untouched(f) == [list |-> deps[f.node], pos |-> f.pos]

\* The read goes on: its edge exists, the body has seen one more value.
Continue(f, at, v) ==
    /\ Relink([deps EXCEPT ![f.node] = at.list], life, target, mark, validAt)
    /\ stack' = <<[f EXCEPT !.pos = at.pos, !.seen = Append(@, v)]>> \o Below
    /\ UNCHANGED <<changedAt, cache, async, boxes>>

\* Slip: the edges it did not read stay.
Untrimmed(f, at, under, value, outcome, changed) ==
    LET n == f.node
        kept == IF n \in Effects /\ life[n] = "disposed" THEN <<>> ELSE at.list
    IN /\ Relink([deps EXCEPT ![n] = kept], life, target,
                 [mark EXCEPT ![n] = "clean"], [validAt EXCEPT ![n] = clock])
       /\ cache' = [cache EXCEPT ![n] = value]
       /\ async' = [async EXCEPT ![n] = outcome]
       /\ changedAt' = [d \in Producers |-> IF d = n /\ changed THEN clock ELSE changedAt[d]]
       /\ stack' = under

\* The evaluation ends with an outcome: edges it did not read are dropped, the
\* node is clean as of now, and only a real change moves its reading.
Finish(f, at, under, value, outcome, changed) ==
    LET n == f.node
        kept == IF n \in Effects /\ life[n] = "disposed" THEN <<>> ELSE SubSeq(at.list, 1, at.pos)
    IN /\ Relink([deps EXCEPT ![n] = kept], life, target,
                 [mark EXCEPT ![n] = "clean"], [validAt EXCEPT ![n] = clock])
       /\ cache' = [cache EXCEPT ![n] = value]
       /\ async' = [async EXCEPT ![n] = outcome]
       /\ changedAt' = [d \in Producers |-> IF d = n /\ changed THEN clock ELSE changedAt[d]]
       /\ stack' = under

\* The span of n, if it is in one, ends.
EndSpan(n) ==
    resolved' = IF async[n].kind = "suspended" THEN resolved \cup {async[n].of} ELSE resolved

\* Slip: a value equal to the stale one it replaces counts as no change.
SettledSilently(f, at, v) ==
    LET n == f.node IN
    /\ Finish(f, at, Below, v, Plain, cache[n] /= v)
    /\ EndSpan(n)
    /\ UNCHANGED <<status, result, parkedNodes, parkedSuspensions>>

\* finishCompute: a value.
Settled(f, at, v) ==
    LET n == f.node IN
    /\ Finish(f, at, Below, v, Plain, cache[n] /= v \/ async[n] /= Plain)
    /\ EndSpan(n)
    /\ UNCHANGED <<status, result, parkedNodes, parkedSuspensions>>

\* finishCompute: a thrown reason, kept as the same box while it is the same.
Threw(f, at, under, reason) ==
    LET n == f.node IN
    /\ Finish(f, at, under, cache[n], Failed(reason), async[n] /= Failed(reason))
    /\ EndSpan(n)
    /\ UNCHANGED <<status, result, parkedNodes, parkedSuspensions>>

\* Nothing refers to a suspension any more: its identity may recur.
Unreferenced(s) ==
    /\ \A n \in Evaluated : async[n].of /= s
    /\ \A p \in Promises : s \notin parkedSuspensions[p]
    /\ s \notin settling.suspensions
    /\ parkedNodes[s] = {}

\* The suspension a node parks on: the one of its span unless that is spent.
\* While every identity is in use no evaluation that needs another is explored.
InSpan(n) == async[n].kind = "suspended" /\ async[n].of \notin resolved
SpanOf(n) ==
    IF InSpan(n) THEN async[n].of ELSE CHOOSE s \in Suspensions : Unreferenced(s)

\* Slip: a node that parks again is thought to be registered already.
ParkedOnce(f, at, p) ==
    LET n == f.node
        s == SpanOf(n)
        again == async[n] = Suspended(s)
    IN /\ InSpan(n) \/ \E u \in Suspensions : Unreferenced(u)
       /\ Finish(f, at, Below, cache[n], Suspended(s), TRUE)
       /\ resolved' = IF again THEN resolved ELSE resolved \ {s}
       /\ status' = [q \in Promises |->
                        IF q = p THEN "pending"
                        ELSE IF q = s /\ ~again THEN "unseen" ELSE status[q]]
       /\ parkedNodes' = [parkedNodes EXCEPT ![p] = IF again THEN @ ELSE @ \cup {n}]
       /\ parkedSuspensions' = [parkedSuspensions EXCEPT ![p] = @ \cup {s}]
       /\ UNCHANGED result

\* baseUse on a pending thenable: the evaluation parks.
Parked(f, at, p) ==
    LET n == f.node
        s == SpanOf(n)
        again == async[n] = Suspended(s)
    IN /\ InSpan(n) \/ \E u \in Suspensions : Unreferenced(u)
       /\ Finish(f, at, Below, cache[n], Suspended(s), TRUE)
       /\ resolved' = IF again THEN resolved ELSE resolved \ {s}
       /\ status' = [q \in Promises |->
                        IF q = p THEN "pending"
                        ELSE IF q = s /\ ~again THEN "unseen" ELSE status[q]]
       /\ parkedNodes' = [parkedNodes EXCEPT ![p] = @ \cup {n}]
       /\ parkedSuspensions' = [parkedSuspensions EXCEPT ![p] = @ \cup {s}]
       /\ UNCHANGED result

Instruction == Body(shape, Top.node, Top.seen)
Running(op) == stack /= <<>> /\ Top.mode = "run" /\ Instruction.op = op
Quiet == UNCHANGED <<shape, val, clock, scheduled, told, task, settling>>

\* The body reads an atom.
ReadAtom ==
    /\ Running("read") /\ Instruction.of \in Atoms
    /\ Continue(Top, Tracked(Top, Instruction.of), val[Instruction.of])
    /\ Quiet

\* The body reads a computed that is not fresh: pull it first.
PullDependency ==
    /\ Running("read") /\ NeedsPull(Instruction.of)
    /\ Push(Entered(Instruction.of), stack)
    /\ UNCHANGED <<nodes, owners, boxes>>
    /\ Quiet

\* The body reads a fresh computed: its value, its error, or its pendingness,
\* which parks the reader.  A suspension whose promise has already settled
\* does not park it: the read serves the stale value, or throws the promise.
ReadComputed ==
    /\ Running("read") /\ Instruction.of \in Computeds
    /\ IsFresh(Instruction.of)
    /\ LET d == Instruction.of
           at == Tracked(Top, d)
       IN \/ async[d].kind = "plain" /\ Continue(Top, at, cache[d])
          \/ async[d].kind = "error" /\ Threw(Top, at, Below, async[d].of)
          \/ /\ async[d].kind = "suspended"
             /\ \/ status[async[d].of] /= "fulfilled" /\ Parked(Top, at, async[d].of)
                \/ status[async[d].of] = "fulfilled" /\ cache[d] /= None
                   /\ Continue(Top, at, cache[d])
                \/ status[async[d].of] = "fulfilled" /\ cache[d] = None
                   /\ Threw(Top, at, Below, async[d].of)
    /\ Quiet

\* The body unwraps a thenable.
UseThenable ==
    /\ Running("use")
    /\ LET t == Instruction.of IN
       \/ status[t] \in {"unseen", "pending"} /\ Parked(Top, Untouched(Top), t)
       \/ status[t] = "fulfilled" /\ Continue(Top, Untouched(Top), result[t])
       \/ status[t] = "rejected" /\ Threw(Top, Untouched(Top), Below, Rejection)
    /\ Quiet

\* The body returns, or throws a reason of its own.
Return ==
    /\ \/ Running("done") /\ Settled(Top, Untouched(Top), Instruction.of)
       \/ Running("throw") /\ Threw(Top, Untouched(Top), Below, Instruction.of)
    /\ Quiet

-----------------------------------------------------------------------------
(* What the program does between pulls.                                     *)

\* writeAtom.
Write(a, v) ==
    /\ Ready /\ clock < MaxClock(shape) /\ a \in Written(shape)
    /\ val[a] /= v
    /\ val' = [val EXCEPT ![a] = v]
    /\ clock' = clock + 1
    /\ changedAt' = [changedAt EXCEPT ![a] = clock + 1]
    /\ Wave(a, mark)
    /\ UNCHANGED <<shape, validAt, cache, async, deps, owners, told, stack, task, boxes, settling>>

\* get() of a computed outside any evaluation.
Read(n) ==
    /\ Ready /\ ~IsFresh(n)
    /\ stack' = <<Entered(n)>>
    /\ task' = [op |-> "read", of |-> n]
    /\ UNCHANGED <<shape, val, clock, nodes, owners, scheduled, told, boxes, settling>>

\* What a node serves outside an evaluation.
Outcome(n) ==
    IF n \in Atoms THEN [kind |-> "value", of |-> val[n]]
    ELSE CASE async[n].kind = "plain" -> [kind |-> "value", of |-> cache[n]]
           [] async[n].kind = "error" -> async[n]
           [] async[n].kind = "suspended" -> [kind |-> "pending", of |-> None]

\* observeNode: the edge is pinned without evaluating the node; if the node
\* turns out stale, what was missed before the edge existed is delivered.  Of a
\* node that never settled its subscriber has seen nothing yet.
Subscribe(w, n) ==
    /\ Ready /\ target[w] = None
    /\ Relink(deps, life, [target EXCEPT ![w] = n], mark, validAt)
    /\ scheduled' = IF n \in Computeds /\ mark'[n] /= "clean" /\ cache[n] /= None
                    THEN scheduled \cup {w} ELSE scheduled
    /\ told' = [told EXCEPT ![w] = IF n \in Computeds /\ cache[n] = None THEN None ELSE Outcome(n)]
    /\ UNCHANGED <<shape, val, clock, changedAt, cache, async, stack, task, boxes, settling>>

\* disposeWatcher.
Unsubscribe(w) ==
    /\ Ready /\ target[w] /= None
    /\ Relink(deps, life, [target EXCEPT ![w] = None], mark, validAt)
    /\ scheduled' = scheduled \ {w}
    /\ told' = [told EXCEPT ![w] = None]
    /\ UNCHANGED <<shape, val, clock, changedAt, cache, async, stack, task, boxes, settling>>

\* makeEffect: the first evaluation.
CreateEffect(e) ==
    /\ Ready /\ life[e] = "new"
    /\ life' = [life EXCEPT ![e] = "alive"]
    /\ watched' = watched \cup {e}
    /\ stack' = <<Frame(e, "run")>>
    /\ task' = [op |-> "create", of |-> e]
    /\ UNCHANGED <<shape, val, clock, nodes, target, scheduled, told, boxes, settling>>

\* Slip: the lane keeps the disposed effect.
DisposedInQueue(e) ==
    /\ Relink([deps EXCEPT ![e] = <<>>], [life EXCEPT ![e] = "disposed"], target, mark, validAt)
    /\ told' = [told EXCEPT ![e] = None]
    /\ UNCHANGED scheduled

\* disposeEffect.
Disposed(e) ==
    /\ Relink([deps EXCEPT ![e] = <<>>], [life EXCEPT ![e] = "disposed"], target, mark, validAt)
    /\ told' = [told EXCEPT ![e] = None]
    /\ scheduled' = scheduled \ {e}

DisposeEffect(e) ==
    /\ Ready /\ life[e] = "alive"
    /\ Disposed(e)
    /\ UNCHANGED <<shape, val, clock, changedAt, cache, async, stack, task, boxes, settling>>

\* The lane's drain reaches e: pull it as its mark says.
Drain(e) ==
    /\ Ready /\ e \in scheduled \cap Effects
    /\ scheduled' = scheduled \ {e}
    /\ stack' = IF mark[e] = "clean" /\ cache[e] /= None THEN <<>> ELSE <<Entered(e)>>
    /\ task' = [op |-> "drain", of |-> e]
    /\ UNCHANGED <<shape, val, clock, nodes, owners, told, boxes, settling>>

\* The flush notifies w, whose callback reads the node it watches.
Notify(w) ==
    /\ Ready /\ w \in scheduled \cap Watchers
    /\ scheduled' = scheduled \ {w}
    /\ stack' = IF target[w] \in Atoms \/ IsFresh(target[w]) THEN <<>> ELSE <<Entered(target[w])>>
    /\ task' = [op |-> "notify", of |-> w]
    /\ UNCHANGED <<shape, val, clock, nodes, owners, told, boxes, settling>>

Ended(op) == stack = <<>> /\ task.op = op /\ task' = Idle

\* A read outside any evaluation is answered.
EndRead ==
    /\ Ended("read")
    /\ UNCHANGED <<shape, val, clock, nodes, owners, scheduled, told, stack, boxes, settling>>

EndNotify ==
    /\ Ended("notify")
    /\ told' = [told EXCEPT ![task.of] = Outcome(target[task.of])]
    /\ UNCHANGED <<shape, val, clock, nodes, owners, scheduled, stack, boxes, settling>>

\* The first evaluation is over: an error disposes the effect, a value is handled.
EndCreate ==
    /\ Ended("create")
    /\ LET e == task.of IN
       \/ async[e].kind = "error" /\ Disposed(e)
       \/ /\ async[e].kind /= "error"
          /\ told' = [told EXCEPT ![e] = IF async[e] = Plain THEN Outcome(e) ELSE @]
          /\ UNCHANGED <<mark, validAt, deps, owners, scheduled>>
    /\ UNCHANGED <<shape, val, clock, changedAt, cache, async, stack, boxes, settling>>

\* A drain's throw clears the entries it preempts, marks included.
Preempt ==
    /\ mark' = [n \in Evaluated |-> IF n \in scheduled THEN "clean" ELSE mark[n]]
    /\ scheduled' = scheduled \ Effects

\* The pulled effect handles a settled value, is silent while pending, and
\* throws an error out of the drain.
EndDrain ==
    /\ Ended("drain")
    /\ LET e == task.of IN
       \/ async[e].kind = "error" /\ Preempt /\ UNCHANGED told
       \/ /\ async[e].kind /= "error"
          /\ told' = [told EXCEPT ![e] = IF async[e] = Plain THEN Outcome(e) ELSE @]
          /\ UNCHANGED <<mark, scheduled>>
    /\ UNCHANGED <<shape, val, clock, changedAt, validAt, cache, async, deps, owners,
                   stack, boxes, settling>>

-----------------------------------------------------------------------------
(* A cycle.                                                                 *)

\* What the top frame asks for is being evaluated: the error leaves the
\* validations on its way and becomes the outcome of the nearest evaluation,
\* or leaves the pull.
ThrowCycle ==
    /\ stack /= <<>>
    /\ \/ /\ Running("read") /\ Instruction.of \in Computing
          /\ Entered(Instruction.of).mode = "run"
       \/ /\ Top.mode = "check" /\ Top.pos < Len(deps[Top.node])
          /\ LET d == deps[Top.node][Top.pos + 1] IN
             \/ d \in Computing /\ ~IsFresh(d) /\ Entered(d).mode = "run"
             \/ /\ Top.node \in Computing
                /\ ~NeedsPull(d)
                /\ changedAt[d] > validAt[Top.node]
    /\ LET runs == {i \in DOMAIN stack : stack[i].mode = "run"}
           i == CHOOSE j \in runs : \A k \in runs : j <= k
       IN IF runs = {}
          THEN stack' = <<>> /\ UNCHANGED <<nodes, owners, boxes>>
          ELSE Threw(stack[i], Untouched(stack[i]), SubSeq(stack, i + 1, Len(stack)), Cycle)
    /\ Quiet

-----------------------------------------------------------------------------
(* Settlement.                                                              *)

\* A promise of the program settles, or one of the engine that was resolved:
\* its box is told in a microtask.
Settle(p, how, v) ==
    /\ Ready /\ ~settling.on
    /\ clock + 1 + Cardinality(parkedNodes[p]) <= MaxClock(shape)
    /\ status[p] = "pending"
    /\ p \in Suspensions => p \in resolved /\ how = "fulfilled"
    /\ status' = [status EXCEPT ![p] = how]
    /\ result' = IF p \in Thenables /\ how = "fulfilled" THEN [result EXCEPT ![p] = v] ELSE result
    /\ clock' = clock + 1
    /\ settling' = [nodes |-> parkedNodes[p], suspensions |-> parkedSuspensions[p], on |-> TRUE]
    /\ parkedNodes' = [parkedNodes EXCEPT ![p] = {}]
    /\ parkedSuspensions' = [parkedSuspensions EXCEPT ![p] = {}]
    /\ UNCHANGED <<shape, val, nodes, owners, scheduled, told, stack, task, resolved>>

\* One node that was parked on it: invalidateComputed, then evaluate at once.
SettleNode(n) ==
    /\ stack = <<>> /\ task = Idle
    /\ n \in settling.nodes
    /\ settling' = [settling EXCEPT !.nodes = @ \ {n}]
    /\ clock' = clock + 1
    /\ LET dirty == [mark EXCEPT ![n] = "dirty"] IN
       IF n \in Effects
       THEN /\ mark' = dirty
            /\ scheduled' = IF life[n] = "alive" THEN scheduled \cup {n} ELSE scheduled
            /\ UNCHANGED changedAt
       ELSE Wave(n, dirty) /\ changedAt' = [changedAt EXCEPT ![n] = clock + 1]
    /\ stack' = <<Frame(n, "run")>>
    /\ task' = [op |-> "read", of |-> n]
    /\ UNCHANGED <<shape, val, validAt, cache, async, deps, owners, told, boxes>>

\* The batch of the settlement is over: its suspensions are released.
SettleDone ==
    /\ Ready /\ settling.on
    /\ resolved' = resolved \cup settling.suspensions
    /\ settling' = Nothing
    /\ UNCHANGED <<shape, val, clock, nodes, owners, scheduled, told, stack, task,
                   status, result, parkedNodes, parkedSuspensions>>

Pull ==
    \/ CheckStep \/ ReadAtom \/ PullDependency \/ ReadComputed \/ UseThenable \/ Return
    \/ ThrowCycle

Program ==
    \/ \E a \in Atoms, v \in Values : Write(a, v)
    \/ \E n \in Computeds : Read(n)
    \/ \E w \in Watchers, n \in Watchable : Subscribe(w, n)
    \/ \E w \in Watchers : Unsubscribe(w) \/ Notify(w)
    \/ \E e \in Effects : CreateEffect(e) \/ DisposeEffect(e) \/ Drain(e)

End == EndRead \/ EndNotify \/ EndCreate \/ EndDrain

Settlement ==
    \/ \E p \in Promises, how \in {"fulfilled", "rejected"}, v \in Fulfilments : Settle(p, how, v)
    \/ \E n \in Evaluated : SettleNode(n)
    \/ SettleDone

Next == Pull \/ Program \/ End \/ Settlement

Spec == Init /\ [][Next]_vars
-----------------------------------------------------------------------------
(* What the graph promises.                                                 *)

\* What an instruction of a body gets where the nodes have the outcomes env.
Got(i, env) ==
    IF i.op = "read"
    THEN IF i.of \in Atoms THEN [kind |-> "value", of |-> val[i.of]] ELSE env[i.of]
    ELSE IF status[i.of] = "fulfilled" THEN [kind |-> "value", of |-> result[i.of]]
    ELSE IF status[i.of] = "rejected" THEN Failed(Rejection)
    ELSE [kind |-> "pending", of |-> None]

\* What n's body returns, throws or waits for there.
Evaluation(n, env) ==
    LET Run[seen \in Seq(Values)] ==
            LET i == Body(shape, n, seen) IN
            IF i.op = "done" THEN [kind |-> "value", of |-> i.of]
            ELSE IF i.op = "throw" THEN Failed(i.of)
            ELSE IF \E v \in Values : Got(i, env) = [kind |-> "value", of |-> v]
                 THEN Run[Append(seen, Got(i, env).of)]
                 ELSE Got(i, env)
    IN Run[<<>>]

\* What it would if everything were evaluated now: a node that reads no deeper
\* than k levels has its outcome at level k, and one in a circle never has.
Current ==
    LET Deep[k \in 0..Cardinality(Evaluated)] ==
            IF k = 0 THEN [n \in Evaluated |-> Failed(Cycle)]
            ELSE LET below == Deep[k - 1] IN [n \in Evaluated |-> Evaluation(n, below)]
        top == Deep[Cardinality(Evaluated)]
    IN [n \in Producers \cup Effects |->
            IF n \in Atoms THEN [kind |-> "value", of |-> val[n]] ELSE top[n]]

TypeOK ==
    /\ shape \in Shapes
    /\ val \in [Atoms -> Values]
    /\ clock \in 1..MaxClock(shape)
    /\ changedAt \in [Producers -> 0..clock]
    /\ validAt \in [Evaluated -> 0..clock]
    /\ mark \in [Evaluated -> {"clean", "check", "dirty"}]
    /\ cache \in [Evaluated -> Values \cup {None}]
    /\ \A n \in Evaluated : Members(deps[n]) \subseteq Producers
    /\ life \in [Effects -> {"new", "alive", "disposed"}]
    /\ target \in [Watchers -> Producers \cup {None}]
    /\ scheduled \subseteq {e \in Effects : life[e] = "alive"} \cup {w \in Watchers : target[w] /= None}
    /\ status \in [Promises -> {"unseen", "pending", "fulfilled", "rejected"}]
    /\ parkedNodes \in [Promises -> SUBSET Evaluated]
    /\ parkedSuspensions \in [Promises -> SUBSET Suspensions]
    /\ resolved \subseteq Suspensions

\* A node that a read would serve without evaluating anything serves what
\* evaluating it would give: no write, settlement, promotion or demotion leaves
\* a stale cache behind that counts as fresh.
ReadsAreCurrent ==
    settling.nodes = {} =>
        \A n \in Computeds : IsFresh(n) => Outcome(n) = Current[n]

\* A subscriber that would see something other than what it last saw has been
\* scheduled, and so has an effect whose settled value is not the one it handled.
NobodyMissesAChange ==
    Ready =>
        /\ \A w \in Watchers :
             target[w] /= None /\ told[w] /= None /\ told[w] /= Current[target[w]]
                => w \in scheduled
        /\ \A e \in Effects :
             life[e] = "alive" /\ Current[e].kind = "value" /\ told[e] /= Current[e]
                => e \in scheduled

\* graph.ts:618: for every watched edge, a stale dependency implies a stale or
\* scheduled subscriber.  The wave relies on it where it stops.
StaleIsHeard ==
    Ready =>
        \A n \in Evaluated : Watched(n) =>
            \A d \in Members(deps[n]) \cap Computeds :
                mark[d] /= "clean" => mark[n] /= "clean" \/ n \in scheduled

\* No node depends on itself, however the edges moved: the recursions of
\* promotion, demotion and validation end.
Acyclic ==
    LET Within[k \in 0..Cardinality(Computeds)] ==
            IF k = 0 THEN [n \in Computeds |-> Members(deps[n])]
            ELSE [n \in Computeds |->
                    Within[k - 1][n]
                        \cup UNION {Members(deps[d]) : d \in Within[k - 1][n] \cap Computeds}]
    IN \A n \in Computeds : n \notin Within[Cardinality(Computeds)][n]

\* A parked node is known to a promise that is still to settle, and so is the
\* suspension its readers wait for, unless that was resolved.
ParkedIsAwaited ==
    Ready =>
        \A n \in Evaluated : async[n].kind = "suspended" =>
            \E p \in Promises :
                /\ status[p] = "pending"
                /\ n \in parkedNodes[p]
                /\ async[n].of \in resolved \cup parkedSuspensions[p]

\* asyncs.ts:253: a suspended node offers its readers a promise that is still to
\* resolve, or a suspended render would retry in a loop.
NeverServesResolved ==
    Ready /\ ~settling.on =>
        \A n \in Computeds : async[n].kind = "suspended" => async[n].of \notin resolved
=============================================================================
