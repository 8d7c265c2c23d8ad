--------------------------- MODULE ArenaRecords ---------------------------
(***************************************************************************)
(* Records of packages/cosignals-arena/src/graph.ts.  The arena engine     *)
(* keeps the graph of SignalGraph in numbered records that pass from one   *)
(* handle to the next: a handle names its record by an id, a record its    *)
(* handle by a pin, links and queue entries name records, and generations  *)
(* tell an entry that its record has changed hands.  What could go wrong   *)
(* is that one of them outlives what it names.                             *)
(*                                                                         *)
(* `core` is what the closure of createGraphCore holds, and the operators  *)
(* that take a core c are its functions.  Evaluations have no side effects *)
(* here and are one step; handlers, cleanups and notifications are frames  *)
(* in which the program may do anything it may do outside of them.         *)
(***************************************************************************)
EXTENDS Naturals, FiniteSets, SequencesExt

CONSTANTS
    Cells, Deriveds, Effects,
    Watchers,           \* render watchers: one pinned link, never evaluated
    Watchable,          \* what they may watch
    LaneOf(_),          \* "sync" or "useEffect", of an effect
    Cleans,             \* the effects whose handler returns a cleanup
    Body(_, _),         \* Body(n, seen): what n's body does after reading seen
    Mentions(_),        \* the deriveds a body refers to
    None,               \* UNINITIALIZED, and the absence of a handle
    Redisposes,         \* follow a disposal that reaches an effect again while
                        \* an earlier disposal of it is under way?
    Programs,           \* what there is of programs
    Touches(_),         \* bound: the handles one calls operations on
    MaxClock(_),        \* bound: readings of the change clock, of a program
    MaxDepth            \* bound: callbacks inside callbacks

ASSUME BoundsAssumption == MaxDepth \in Nat /\ \A p \in Programs : MaxClock(p) \in Nat

Handles == Cells \cup Deriveds \cup Effects \cup Watchers
Evaluated == Deriveds \cup Effects
Sinks == Effects \cup Watchers
Lanes == {"sync", "useEffect"}
Stale == {"check", "dirty"}
\* A handle has one record at most, so no more than this are ever in use.
Records == 1..Cardinality(Handles)
Detached == 0           \* DETACHED_CELL, DETACHED_DERIVED

VARIABLES
    running,            \* the program, the same all along
    core,               \* the engine's memory, queues and caches
    handled,            \* lastHandled of an effect
    armed,              \* the effects with a cleanup
    children,           \* children[e]: the effects e's last run created
    life,               \* "held", "dropped", "collected"; "new", "alive", "disposed"
    registry,           \* registry[n]: the record the finalizer would reclaim
    batch,              \* 0, or 1 + the depth at which the open batch began
    stack,              \* frames of the engine and the program's callbacks
    robbed              \* history: whose marks a delivery cleared for another

owners == <<handled, armed, children, life, registry>>
vars == <<running, core, owners, batch, stack, robbed>>

Born(n) ==
    CASE n \in Cells -> {"cell"}
      [] n \in Deriveds -> {"derived", "dirty"}
      [] n \in Effects -> {"watching", "effect", "watched", "dirty"}
      [] n \in Watchers -> {"watching", "render", "watched"}

EmptyLane == [queue |-> <<>>, head |-> 0]

Init ==
    /\ running \in Programs
    /\ core = [id |-> [n \in Handles |-> Detached],
               value |-> [n \in Handles |-> IF n \in Cells THEN 0 ELSE None],
               flags |-> [r \in Records |-> {}],
               lane |-> [r \in Records |-> "sync"],
               gen |-> [r \in Records |-> 0],
               pin |-> [r \in Records |-> None],
               deps |-> [r \in Records |-> <<>>],      \* the records read, in order
               subs |-> [r \in Records |-> <<>>],      \* the records of observers
               changedAt |-> [r \in Records |-> 0],
               validAt |-> [r \in Records |-> 0],
               free |-> <<>>, used |-> 0,              \* freeNodeStack, nextNodeRecord
               clock |-> 1,
               lanes |-> [l \in Lanes |-> EmptyLane],
               notify |-> <<>>,                        \* renderNotifyQueue
               pending |-> {}]                         \* pendingRegistrations
    /\ handled = [e \in Effects |-> None]
    /\ armed = {}
    /\ children = [e \in Effects |-> <<>>]
    /\ life = [n \in Handles |-> IF n \in Sinks THEN "new" ELSE "held"]
    /\ registry = [n \in Cells \cup Deriveds |-> Detached]
    /\ batch = 0 /\ stack = <<>> /\ robbed = {}

-----------------------------------------------------------------------------
(* Records: allocation, links and observers.                                *)

FlagsOf(c, n) == IF c.id[n] = Detached THEN Born(n) ELSE c.flags[c.id[n]]
IsStale(c, r) == c.flags[r] \cap Stale /= {}

PushFree(c, r) == [c EXCEPT !.free = <<r>> \o @]

AllocNode(c, n, flags) ==
    LET r == IF c.free = <<>> THEN c.used + 1 ELSE Head(c.free)
    IN [c EXCEPT !.free = IF @ = <<>> THEN @ ELSE Tail(@),
                 !.used = IF c.free = <<>> THEN @ + 1 ELSE @,
                 !.flags[r] = flags,
                 !.id[n] = r]

EnsureNodeRecord(c, n) ==
    IF c.id[n] /= Detached THEN c
    ELSE [AllocNode(c, n, Born(n) \cup {"registered"}) EXCEPT !.pending = @ \cup {n}]

EnsureDepRecord(c, n) ==
    IF c.id[n] = Detached /\ n \in Cells THEN AllocNode(c, n, {"cell"})
    ELSE EnsureNodeRecord(c, n)

\* Slip: the cell is not told that its record went back.
UnpinUntold(c, r) ==
    IF "cell" \in c.flags[r] /\ "registered" \notin c.flags[r]
    THEN PushFree([c EXCEPT !.flags[r] = {}, !.gen[r] = @ + 1,
                            !.changedAt[r] = 0, !.pin[r] = None], r)
    ELSE [c EXCEPT !.pin[r] = None]

\* The last link to r is gone: a cell's record that only links owned goes back.
UnpinDep(c, r) ==
    IF "cell" \in c.flags[r] /\ "registered" \notin c.flags[r]
    THEN PushFree([c EXCEPT !.id[c.pin[r]] = Detached, !.flags[r] = {}, !.gen[r] = @ + 1,
                            !.changedAt[r] = 0, !.pin[r] = None], r)
    ELSE [c EXCEPT !.pin[r] = None]

FreeLink(c, r) ==
    IF \E s \in Records : r \in ToSet(c.deps[s]) THEN c ELSE UnpinDep(c, r)

\* r has gained an observer (subs[r] holds it already): the first one promotes.
RECURSIVE AddObserver(_, _)
AddObserver(c, r) ==
    LET deps == c.deps[r]
        watched == [c EXCEPT !.flags[r] = @ \cup {"watched"}]
        linked == FoldLeft(LAMBDA m, d : AddObserver([m EXCEPT !.subs[d] = Append(@, r)], d),
                           watched, deps)
        invalid == \E d \in ToSet(deps) :
                      linked.changedAt[d] > c.validAt[r] \/ IsStale(linked, d)
    IN IF Len(c.subs[r]) /= 1 THEN c
       ELSE IF invalid /\ ~IsStale(linked, r)
            THEN [linked EXCEPT !.flags[r] = @ \cup {"check"}]
            ELSE linked

\* r has lost one: the last demotes.
RECURSIVE RemoveObserver(_, _)
RemoveObserver(c, r) ==
    LET unwatched == [c EXCEPT !.flags[r] = @ \ {"watched"}]
        unlinked ==
            FoldLeft(LAMBDA m, d : RemoveObserver([m EXCEPT !.subs[d] = RemoveFirst(@, r)], d),
                     unwatched, c.deps[r])
    IN IF c.subs[r] /= <<>> THEN c
       ELSE IF "derived" \in c.flags[r]
            THEN [unlinked EXCEPT !.validAt[r] = IF IsStale(c, r) THEN 0 ELSE c.clock]
            ELSE unwatched

\* The links of s after its first k are dropped, one after another.
RECURSIVE DropLinks(_, _, _)
DropLinks(c, s, k) ==
    LET r == c.deps[s][k + 1]
        cut == [c EXCEPT !.deps[s] = RemoveAt(@, k + 1)]
        unheard == IF s \in ToSet(c.subs[r])
                   THEN RemoveObserver([cut EXCEPT !.subs[r] = RemoveFirst(@, s)], r)
                   ELSE cut
    IN IF Len(c.deps[s]) <= k THEN c ELSE DropLinks(FreeLink(unheard, r), s, k)

\* A fresh link from s to n, behind the first k.
AddLink(c, s, n, k) ==
    LET m == EnsureDepRecord(c, n)
        r == m.id[n]
        linked == [m EXCEPT !.deps[s] = InsertAt(@, k + 1, r),
                            !.pin[r] = IF @ = None THEN n ELSE @]
    IN IF "watched" \in m.flags[s]
       THEN AddObserver([linked EXCEPT !.subs[r] = Append(@, s)], r)
       ELSE linked

\* "s read n", its cursor at pos: the core after it, and the cursor.
TrackRead(c, s, n, pos) ==
    LET r == c.id[n]
        deps == c.deps[s]
        Unchanged(at) == [core |-> c, pos |-> at]
    IN IF pos > 0 /\ deps[pos] = r THEN Unchanged(pos)
       ELSE IF pos < Len(deps) /\ deps[pos + 1] = r THEN Unchanged(pos + 1)
       ELSE IF /\ r /= Detached /\ "watched" \in c.flags[s]
               /\ c.subs[r] /= <<>> /\ Last(c.subs[r]) = s
               /\ r \in ToSet(SubSeq(deps, 1, pos))
            THEN Unchanged(pos)
            ELSE [core |-> AddLink(c, s, n, pos), pos |-> pos + 1]

-----------------------------------------------------------------------------
(* Marks: scheduling and the wave.                                          *)

\* Queue entries name the record and its generation; `of` is who was meant.
Schedule(c, r) ==
    LET entry == [rec |-> r, gen |-> c.gen[r], of |-> c.pin[r]]
        queued == [c EXCEPT !.flags[r] = @ \cup {"scheduled"}]
    IN IF "scheduled" \in c.flags[r] \/ "watched" \notin c.flags[r] THEN c
       ELSE IF "render" \in c.flags[r]
            THEN [queued EXCEPT !.notify = Append(@, c.pin[r])]
            ELSE [queued EXCEPT !.lanes[c.lane[r]].queue = Append(@, entry)]

\* markSubtreeStale, and propagateWave's ring where the change is certain.
RECURSIVE Mark(_, _, _)
Mark(c, s, certain) ==
    LET flags == c.flags[s]
        bits == IF certain THEN {"dirty"} ELSE IF IsStale(c, s) THEN flags \cap Stale ELSE {"check"}
        marked == [c EXCEPT !.flags[s] = (@ \ Stale) \cup bits]
    IN IF "watching" \in flags THEN Schedule(marked, s)
       ELSE IF IsStale(c, s) THEN marked
       ELSE FoldLeft(LAMBDA m, t : Mark(m, t, FALSE), marked, c.subs[s])

PropagateWave(c, r) == FoldLeft(LAMBDA m, s : Mark(m, s, TRUE), c, c.subs[r])

-----------------------------------------------------------------------------
(* The pull.  Bodies are pure, so an evaluation is an operator.             *)

\* recompute's tail: drop what was not read, store, stamp.
Settle(c, n, pos, v) ==
    LET r == c.id[n]
        trimmed == DropLinks(c, r, pos)
    IN [trimmed EXCEPT !.value[n] = v,
                       !.changedAt[r] = IF n \in Effects \/ c.value[n] /= v THEN c.clock ELSE @,
                       !.flags[r] = @ \ Stale,
                       !.validAt[r] = c.clock]

RECURSIVE Freshen(_, _), Evaluate(_, _, _, _), Confirm(_, _, _)

\* readDerived and ensureFresh.
Freshen(c, n) ==
    LET flags == FlagsOf(c, n)
    IN IF n \in Cells THEN c
       ELSE IF flags \cap Stale = {} /\ ("watched" \in flags \/ c.validAt[c.id[n]] = c.clock) THEN c
       ELSE IF "dirty" \in flags \/ c.value[n] = None
            THEN Evaluate(EnsureNodeRecord(c, n), n, 0, <<>>)
            ELSE Confirm(c, n, 1)

\* recompute(n), whose body has read seen and whose cursor is at pos.
Evaluate(c, n, pos, seen) ==
    LET step == Body(n, seen)
        fresh == Freshen(c, step.of)
        track == TrackRead(fresh, fresh.id[n], step.of, pos)
    IN IF step.op = "done" THEN Settle(c, n, pos, step.of)
       ELSE Evaluate(track.core, n, track.pos, Append(seen, fresh.value[step.of]))

\* ensureFresh's loop over the dependencies, from the i-th on.
Confirm(c, n, i) ==
    LET r == c.id[n]
        d == c.deps[r][i]
        fresh == Freshen(c, c.pin[d])
    IN IF i > Len(c.deps[r])
       THEN [c EXCEPT !.flags[r] = @ \ Stale, !.validAt[r] = c.clock]
       ELSE IF fresh.changedAt[d] > c.validAt[r] THEN Evaluate(fresh, n, 0, <<>>)
       ELSE Confirm(fresh, n, i + 1)

-----------------------------------------------------------------------------
(* The program's operations.                                                *)

Callbacks == {"handler", "cleanup", "onNotify"}
Depth == Cardinality({i \in DOMAIN stack : stack[i].op \in Callbacks})

\* The program runs: outside the engine, or in a callback.
Turn == stack /= <<>> => Head(stack).op \in Callbacks /\ Depth <= MaxDepth
Task == stack = <<>>

Callback(op, n) == [op |-> op, of |-> n]
Draining(l) == [op |-> "drain", of |-> l]
Flushing == [op |-> "flush", of |-> None]

\* What flush() leaves to do on a core, above the frames it was called from.
Flush(c, under) ==
    IF \/ c.lanes["sync"].head /= 0
       \/ c.lanes["sync"].queue = <<>> /\ c.notify = <<>>
    THEN under ELSE <<Draining("sync"), Flushing>> \o under

FlushUnlessBatched(c) == stack' = IF batch = 0 THEN Flush(c, stack) ELSE stack

\* writeCell.  A detached cell has nobody to tell unless drafts are live.
WriteCell(a) ==
    /\ Turn
    /\ \/ /\ core.id[a] = Detached
          /\ core' = [core EXCEPT !.value[a] = 1 - @]
          /\ UNCHANGED stack
       \/ /\ core.clock < MaxClock(running)
          /\ LET c == EnsureNodeRecord(core, a)
                 r == c.id[a]
             IN core' = PropagateWave([c EXCEPT !.value[a] = 1 - @, !.clock = @ + 1,
                                                !.changedAt[r] = c.clock + 1], r)
          /\ FlushUnlessBatched(core')
    /\ UNCHANGED <<running, owners, batch, robbed>>

\* readDerived outside an evaluation.
ReadDerived(d) ==
    /\ Turn /\ life[d] = "held"
    /\ core' = Freshen(core, d)
    /\ UNCHANGED <<running, owners, batch, stack, robbed>>

\* runHandler, on a core.
RunHandler(c, e, under) ==
    /\ handled' = [handled EXCEPT ![e] = c.value[e]]
    /\ stack' = <<Callback("handler", e)>> \o under

\* watcherAlive.
Alive(c, n) == c.id[n] /= Detached /\ c.pin[c.id[n]] = n

\* activeEffectOwner: whose handler is running, cleanups inside it included.
Owners ==
    LET handlers == SelectSeq(stack, LAMBDA f : f.op = "handler")
    IN IF handlers = <<>> THEN {} ELSE {Head(handlers).of}

MakeEffect(e) ==
    /\ Turn /\ life[e] = "new"
    /\ \A d \in Mentions(e) : life[d] = "held"
    /\ LET c == AllocNode(core, e, Born(e))
           r == c.id[e]
       IN core' = Freshen([c EXCEPT !.pin[r] = e, !.lane[r] = LaneOf(e)], e)
    /\ life' = [life EXCEPT ![e] = "alive"]
    /\ children' = [o \in Effects |->
                        IF o \in Owners /\ Alive(core, o) THEN Append(children[o], e)
                        ELSE children[o]]
    /\ RunHandler(core', e, stack)
    /\ UNCHANGED <<running, armed, registry, batch, robbed>>

\* observeNode.
ObserveNode(w, n) ==
    /\ Turn /\ life[w] = "new" /\ life[n] = "held"
    /\ LET own == AllocNode(core, w, Born(w))
           s == own.id[w]
           c == AddLink([own EXCEPT !.pin[s] = w], s, n, 0)
           late == n \in Deriveds /\ IsStale(c, c.id[n]) /\ c.value[n] /= None
       IN core' = IF late THEN Schedule([c EXCEPT !.flags[s] = @ \cup {"check"}], s) ELSE c
    /\ life' = [life EXCEPT ![w] = "alive"]
    /\ FlushUnlessBatched(core')
    /\ UNCHANGED <<running, handled, armed, children, registry, batch, robbed>>

DisposeWatcher(w) ==
    /\ Turn /\ Alive(core, w)
    /\ LET s == core.id[w]
           c == DropLinks([core EXCEPT !.flags[s] = @ \ {"watched"}], s, 0)
       IN core' = PushFree([c EXCEPT !.pin[s] = None, !.validAt[s] = 0, !.gen[s] = @ + 1], s)
    /\ life' = [life EXCEPT ![w] = "disposed"]
    /\ UNCHANGED <<running, handled, armed, children, registry, batch, stack, robbed>>

\* disposeEffect after the cleanup: unlink, unpin, reclaimEffectRecord.
Release(c, e) ==
    LET s == c.id[e]
        d == DropLinks(c, s, 0)
    IN PushFree([d EXCEPT !.pin[s] = None, !.gen[s] = @ + 1, !.lane[s] = "sync",
                          !.changedAt[s] = 0, !.validAt[s] = 0], s)

Disposing(e, todo) == [op |-> "dispose", of |-> e, todo |-> todo]
BeingDisposed(e) == \E i \in DOMAIN stack : stack[i].op = "dispose" /\ stack[i].of = e

\* disposeEffect begins, above the frames in under: it goes on in DisposeNext.
BeginDisposal(e, under) ==
    /\ Redisposes \/ ~BeingDisposed(e)
    /\ core' = [core EXCEPT !.flags[core.id[e]] = @ \ {"watched"}]
    /\ stack' = <<Disposing(e, children[e])>> \o under
    /\ children' = [children EXCEPT ![e] = <<>>]

DisposeEffect(e) ==
    /\ Turn /\ Alive(core, e)
    /\ BeginDisposal(e, stack)
    /\ UNCHANGED <<running, handled, armed, life, registry, batch, robbed>>

StartBatch ==
    /\ Task /\ batch = 0
    /\ batch' = 1 + Len(stack)
    /\ UNCHANGED <<running, core, owners, stack, robbed>>

EndBatch ==
    /\ Turn /\ batch = 1 + Len(stack)
    /\ batch' = 0
    /\ stack' = Flush(core, stack)
    /\ UNCHANGED <<running, core, owners, robbed>>

\* drainDeferredEffects by a pump, or flushScheduledEffects by the program.
DrainDeferredEffects ==
    /\ Turn
    /\ core.lanes["useEffect"].head = 0 /\ core.lanes["useEffect"].queue /= <<>>
    /\ stack' = <<Draining("useEffect")>> \o stack
    /\ UNCHANGED <<running, core, owners, batch, robbed>>

-----------------------------------------------------------------------------
(* Drains and deliveries.                                                   *)

\* Slip: the entry is taken, its membership is not given back.
PullUntaken(round, entry) ==
    LET c == round.core
        w == c.pin[entry.rec]
        pulled == IF IsStale(c, entry.rec) THEN Freshen(c, w) ELSE c
    IN IF c.gen[entry.rec] /= entry.gen \/ "watched" \notin c.flags[entry.rec] THEN round
       ELSE [core |-> pulled,
             kept |-> IF pulled.value[w] = handled[w] THEN round.kept
                      ELSE Append(round.kept, entry)]

\* Phase 1 for one entry of a round: pull, keep the effect if it has news.
PullEntry(round, entry) ==
    LET c == round.core
        r == entry.rec
        w == c.pin[r]
        taken == [c EXCEPT !.flags[r] = @ \ {"scheduled"}]
        pulled == IF IsStale(c, r) THEN Freshen(taken, w) ELSE taken
    IN IF c.gen[r] /= entry.gen THEN round
       ELSE IF "watched" \notin c.flags[r] THEN [round EXCEPT !.core = taken]
       ELSE [core |-> pulled,
             kept |-> IF pulled.value[w] = handled[w] THEN round.kept
                      ELSE Append(round.kept, entry)]

\* A round takes every entry queued when it starts; the drain ends without any.
DrainRound ==
    /\ stack /= <<>> /\ Head(stack).op = "drain"
    /\ LET l == Head(stack).of
           lane == core.lanes[l]
           taken == [core EXCEPT !.lanes[l].head = Len(lane.queue)]
           round == FoldLeft(PullEntry, [core |-> taken, kept |-> <<>>],
                             SubSeq(lane.queue, lane.head + 1, Len(lane.queue)))
       IN IF lane.head = Len(lane.queue)
          THEN /\ core' = [core EXCEPT !.lanes[l] = EmptyLane]
               /\ stack' = Tail(stack)
          ELSE /\ core' = round.core
               /\ stack' = <<[op |-> "cleanups", of |-> l, todo |-> round.kept, kept |-> <<>>]>>
                               \o Tail(stack)
    /\ UNCHANGED <<running, owners, batch, robbed>>

\* What a survivor's handle says: its record is still its own, and it lives.
Stands(entry) ==
    core.gen[entry.rec] = entry.gen /\ "watched" \in core.flags[entry.rec]

\* Phase 2a: the cleanup of the next survivor, unless it was marked again.
CleanUpNext ==
    /\ stack /= <<>> /\ Head(stack).op = "cleanups"
    /\ LET f == Head(stack)
           next == Head(f.todo)
           stays == Stands(next) /\ "scheduled" \notin core.flags[next.rec]
           rest == [f EXCEPT !.todo = Tail(@), !.kept = IF stays THEN Append(@, next) ELSE @]
       IN \/ /\ f.todo = <<>>
             /\ stack' = <<[f EXCEPT !.op = "handlers", !.todo = f.kept]>> \o Tail(stack)
             /\ UNCHANGED children
          \/ /\ f.todo /= <<>> /\ stays
             /\ stack' = <<[op |-> "reset", of |-> next.of, todo |-> children[next.of]], rest>>
                            \o Tail(stack)
             /\ children' = [children EXCEPT ![next.of] = <<>>]
          \/ /\ f.todo /= <<>> /\ ~stays
             /\ stack' = <<rest>> \o Tail(stack)
             /\ UNCHANGED children
    /\ UNCHANGED <<running, core, handled, armed, life, registry, batch, robbed>>

\* disposeChildren, then the effect's own cleanup: of a run that is over
\* (runEffectCleanup, "reset") or of a disposal, which then lets go of the record.
DisposeNext ==
    /\ stack /= <<>> /\ Head(stack).op \in {"reset", "dispose"}
    /\ LET f == Head(stack)
           child == Head(f.todo)
           rest == <<[f EXCEPT !.todo = Tail(@)]>> \o Tail(stack)
       IN \/ /\ f.todo /= <<>> /\ Alive(core, child)
             /\ BeginDisposal(child, rest)
             /\ UNCHANGED <<armed, life>>
          \/ /\ f.todo /= <<>> /\ ~Alive(core, child)
             /\ stack' = rest
             /\ UNCHANGED <<core, armed, children, life>>
          \/ /\ f.todo = <<>> /\ f.of \in armed
             /\ armed' = armed \ {f.of}
             /\ stack' = <<Callback("cleanup", f.of)>>
                            \o (IF f.op = "reset" THEN Tail(stack) ELSE stack)
             /\ UNCHANGED <<core, children, life>>
          \/ /\ f.todo = <<>> /\ f.of \notin armed
             /\ core' = IF f.op = "reset" THEN core ELSE Release(core, f.of)
             /\ life' = IF f.op = "reset" THEN life ELSE [life EXCEPT ![f.of] = "disposed"]
             /\ stack' = Tail(stack)
             /\ UNCHANGED <<armed, children>>
    /\ UNCHANGED <<running, handled, registry, batch, robbed>>

\* Phase 2b: the next handler; the next round when all have run.
HandleNext ==
    /\ stack /= <<>> /\ Head(stack).op = "handlers"
    /\ LET f == Head(stack)
           rest == <<[f EXCEPT !.todo = Tail(@)]>> \o Tail(stack)
       IN \/ /\ f.todo = <<>>
             /\ stack' = <<Draining(f.of)>> \o Tail(stack)
             /\ UNCHANGED handled
          \/ /\ f.todo /= <<>> /\ Stands(Head(f.todo))
             /\ RunHandler(core, Head(f.todo).of, rest)
          \/ /\ f.todo /= <<>> /\ ~Stands(Head(f.todo))
             /\ stack' = rest
             /\ UNCHANGED handled
    /\ UNCHANGED <<running, core, armed, children, life, registry, batch, robbed>>

\* Who has the record r by its own account.
Owns(n, r) ==
    /\ core.id[n] = r
    /\ IF n \in Sinks THEN core.pin[r] = n ELSE life[n] /= "collected"

\* flush after the sync drain: the buffer is taken, the marks of its watchers
\* are cleared, whoever has their records by now.
TakeNotifications ==
    /\ stack /= <<>> /\ Head(stack).op = "flush"
    /\ LET taken == core.notify
           cleared == {core.id[w] : w \in ToSet(taken)}
           marks == Stale \cup {"scheduled"}
           others == (Handles \ ToSet(taken))
       IN /\ core' = [core EXCEPT !.notify = <<>>,
                                  !.flags = [r \in Records |->
                                                IF r \in cleared THEN @[r] \ marks ELSE @[r]]]
          /\ robbed' = robbed \cup {n \in others : \E r \in cleared :
                                        Owns(n, r) /\ core.flags[r] \cap marks /= {}}
          /\ stack' = IF taken = <<>> THEN Tail(stack)
                      ELSE <<[op |-> "deliver", of |-> None, todo |-> taken]>> \o Tail(stack)
    /\ UNCHANGED <<running, owners, batch>>

DeliverNext ==
    /\ stack /= <<>> /\ Head(stack).op = "deliver"
    /\ LET f == Head(stack)
           w == Head(f.todo)
           rest == <<[f EXCEPT !.todo = Tail(@)]>> \o Tail(stack)
       IN stack' = IF f.todo = <<>> THEN Tail(stack)
                   ELSE IF Alive(core, w) THEN <<Callback("onNotify", w)>> \o rest ELSE rest
    /\ UNCHANGED <<running, core, owners, batch, robbed>>

\* A callback returns: a handler may leave a cleanup.
Return ==
    /\ stack /= <<>> /\ Head(stack).op \in Callbacks
    /\ batch /= 1 + Len(stack)
    /\ LET f == Head(stack)
       IN armed' = IF f.op = "handler" /\ f.of \in Cleans THEN armed \cup {f.of} ELSE armed
    /\ stack' = Tail(stack)
    /\ UNCHANGED <<running, core, handled, children, life, registry, batch, robbed>>

-----------------------------------------------------------------------------
(* Collection.                                                              *)

\* drainPendingRegistrations, a microtask.
DrainPendingRegistrations ==
    /\ Task /\ core.pending /= {}
    /\ registry' = [n \in DOMAIN registry |->
                        IF n \in core.pending THEN core.id[n] ELSE registry[n]]
    /\ core' = [core EXCEPT !.pending = {}]
    /\ UNCHANGED <<running, handled, armed, children, life, batch, stack, robbed>>

\* The program lets go of a derived.
Drop(d) ==
    /\ Turn /\ life[d] = "held"
    /\ life' = [life EXCEPT ![d] = "dropped"]
    /\ UNCHANGED <<running, core, handled, armed, children, registry, batch, stack, robbed>>

\* Nothing refers to d: no pin, no queue, no body that could still run.
Unreachable(d) ==
    /\ life[d] = "dropped"
    /\ d \notin core.pending
    /\ d \notin ToSet([r \in Records |-> core.pin[r]])
    /\ \A n \in Evaluated : d \in Mentions(n) => life[n] \in {"new", "disposed", "collected"}

\* reclaimNodeRecord.
ReclaimNodeRecord(c, r) ==
    LET d == DropLinks(c, r, 0)
    IN PushFree([d EXCEPT !.pin[r] = None, !.flags[r] = {}, !.lane[r] = "sync", !.subs[r] = <<>>,
                          !.changedAt[r] = 0, !.validAt[r] = 0, !.gen[r] = @ + 1], r)

\* The finalizer runs for a derived that was collected, in a task.
Finalize(d) ==
    /\ Task /\ Unreachable(d)
    /\ life' = [life EXCEPT ![d] = "collected"]
    /\ core' = IF registry[d] = Detached THEN core ELSE ReclaimNodeRecord(core, registry[d])
    /\ UNCHANGED <<running, handled, armed, children, registry, batch, stack, robbed>>

Touched(kind) == Touches(running) \cap kind

Next ==
    \/ \E a \in Touched(Cells) : WriteCell(a)
    \/ \E d \in Touched(Deriveds) : ReadDerived(d)
    \/ \E d \in Touched(Deriveds) : Drop(d)
    \/ \E e \in Touched(Effects) : MakeEffect(e)
    \/ \E e \in Touched(Effects) : DisposeEffect(e)
    \/ \E w \in Touched(Watchers) : \E n \in Watchable : ObserveNode(w, n)
    \/ \E w \in Touched(Watchers) : DisposeWatcher(w)
    \/ \E d \in Deriveds : Finalize(d)
    \/ StartBatch \/ EndBatch \/ DrainDeferredEffects
    \/ DrainRound \/ CleanUpNext \/ DisposeNext \/ HandleNext
    \/ TakeNotifications \/ DeliverNext \/ Return
    \/ DrainPendingRegistrations

Spec == Init /\ [][Next]_vars

-----------------------------------------------------------------------------
(* Properties.                                                              *)

Attached(n) ==
    /\ core.id[n] /= Detached
    /\ life[n] \in {"held", "dropped", "alive"}
Owned == {core.id[n] : n \in {m \in Handles : Attached(m)}}

\* No two handles share a record; every record is a handle's or free, once.
OneOwnerEach ==
    /\ IsInjective(core.free)
    /\ Owned \cap ToSet(core.free) = {}
    /\ Owned \cup ToSet(core.free) = 1..core.used
    /\ \A m, n \in Handles :
          Attached(m) /\ Attached(n) /\ core.id[m] = core.id[n] => m = n

\* A free record carries nothing over to its next owner.
FreeIsBlank ==
    \A r \in ToSet(core.free) :
        /\ core.deps[r] = <<>> /\ core.subs[r] = <<>> /\ core.pin[r] = None
        /\ core.lane[r] = "sync" /\ core.changedAt[r] = 0 /\ core.validAt[r] = 0

\* Links join owned records; whoever watches is in the list of what it reads;
\* what is read is pinned, by the handle it is the record of.
LinksHold ==
    \A s \in Owned :
        /\ \A r \in ToSet(core.deps[s]) :
              /\ r \in Owned /\ core.pin[r] /= None /\ core.id[core.pin[r]] = r
              /\ s \in ToSet(core.subs[r]) <=> {"watched", "watching"} \cap core.flags[s] /= {}
        /\ \A r \in ToSet(core.subs[s]) : r \in Owned /\ s \in ToSet(core.deps[r])

\* A queue entry passes the generation test only for the effect it was meant
\* for, and the finalizer only ever reclaims the record of what it collected.
NamesHold ==
    /\ \A l \in Lanes : \A entry \in ToSet(core.lanes[l].queue) :
          core.gen[entry.rec] = entry.gen => core.pin[entry.rec] = entry.of
    /\ \A n \in DOMAIN registry :
          registry[n] /= Detached /\ Attached(n) => registry[n] = core.id[n]

\* Whatever names a record (a handle, the free stack, a link, a queue entry, a
\* registration) names the one it means, however often records change hands.
RecordsAreOwned == OneOwnerEach /\ FreeIsBlank /\ LinksHold /\ NamesHold

\* The value n's body gives of the cells as they are.
RECURSIVE Outcome(_, _)
Outcome(n, seen) ==
    IF n \in Cells THEN core.value[n]
    ELSE LET step == Body(n, seen)
         IN IF step.op = "done" THEN step.of
            ELSE Outcome(n, Append(seen, Outcome(step.of, <<>>)))

Listening(e) == life[e] = "alive" /\ "watched" \in FlagsOf(core, e)
IsEntryOf(entry, e) == entry.rec = core.id[e] /\ entry.gen = core.gen[entry.rec]

\* e's run is ahead: a drain will come to its entry and find it stale, or has
\* pulled it and will run it.
RunIsAhead(e) ==
    \/ \E l \in Lanes :
          LET lane == core.lanes[l]
          IN \E i \in lane.head + 1 .. Len(lane.queue) :
                /\ IsEntryOf(lane.queue[i], e)
                /\ IsStale(core, core.id[e])
    \/ \E i \in DOMAIN stack :
          /\ stack[i].op \in {"cleanups", "handlers"}
          /\ \E entry \in ToSet(stack[i].todo) \cup ToSet(stack[i].kept) : IsEntryOf(entry, e)
          /\ core.value[e] = Outcome(e, <<>>)

\* A live effect that has not handled the value its body gives now has a run
\* ahead: records that change hands take no run with them (scheduleWatcher,
\* drainLane).
NoRunIsLost ==
    \A e \in Effects : Listening(e) /\ handled[e] /= Outcome(e, <<>>) => RunIsAhead(e)

\* The same of every effect but those whose marks, or whose computeds' marks, a
\* delivery took because their record had been a disposed subscription's.
RunsAreKept ==
    \A e \in Effects :
        Listening(e) /\ ({e} \cup Mentions(e)) \cap robbed = {}
            /\ handled[e] /= Outcome(e, <<>>) => RunIsAhead(e)
=============================================================================
