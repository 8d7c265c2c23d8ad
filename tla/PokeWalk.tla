------------------------------ MODULE PokeWalk ------------------------------
(***************************************************************************)
(* The poke walk (pokeDraftWatchers of packages/cosignals/src/graph.ts):   *)
(* draft activity on an atom notifies the draft-aware watchers downstream  *)
(* of it, and a drafted write also hands them its draft, without touching  *)
(* base state.  The walk is iterative: a cursor, the link to take after    *)
(* it, and a heap-allocated stack of suspended positions.                  *)
(*                                                                         *)
(* A link is <<p, i>>: the i-th subscriber of producer p.  The staleness   *)
(* bits and the tracer's causes are left out: the walk never reads them.   *)
(***************************************************************************)
EXTENDS Lists, FiniteSets

CONSTANTS
    Producers,      \* the atom Root and watched computeds over it
    Root,           \* the drafted atom
    Watchers,       \* subscribers with the WatchRender bit
    Probes,         \* those of them that have no draft-wake callback
    Effects,        \* ordinary engine effects
    Shapes,         \* the subscriber lists to consider, per producer
    MaxPasses       \* bound: how many pokes are made

Nodes == Producers \cup Watchers \cup Effects
None == <<>>        \* no link

ASSUME NodesAssumption ==
    /\ Root \in Producers /\ Probes \subseteq Watchers
    /\ Producers \cap (Watchers \cup Effects) = {} /\ Watchers \cap Effects = {}
    /\ IsFiniteSet(Producers)
ASSUME ShapesAssumption == Shapes \subseteq [Producers -> Seq(Nodes \ {Root})]
ASSUME PassesAssumption == MaxPasses \in Nat

VARIABLES
    subs,           \* subs[p]: the subscribers of p, in subscription order
    differs,        \* differs[p]: valueChanged(p), the cutoff's answer
    watched,        \* the subscriptions that are still alive
    pokePass,       \* the identity of the last walk
    stamp,          \* stamp[n]: the last walk that visited n
    pc,             \* "idle", "walk", "flush" or "wake"
    batched,        \* whether the caller is inside a batch
    cutoff,         \* whether the caller passed valueChanged
    cur, next,      \* the cursor and the link after it
    stack,          \* the suspended positions, top first
    changed,        \* whether the producer being walked has changed
    queued,         \* the watchers scheduled for a render notification
    wakes,          \* the watchers the draft id goes to, in order
    woken           \* the watchers this poke handed the draft id

graph == <<subs, differs>>
walk == <<cur, next, stack, changed>>
vars == <<subs, differs, watched, pokePass, stamp, pc, batched, cutoff, walk,
          queued, wakes, woken>>

SubOf(l) == subs[l[1]][l[2]]
NextSub(l) == IF l[2] < Len(subs[l[1]]) THEN <<l[1], l[2]+1>> ELSE None
FirstSub(p) == IF subs[p] = <<>> THEN None ELSE <<p, 1>>

\* The cutoff may answer anything that is consistent: a computed's value
\* differs only if the value of something it reads does.
Verdicts(s) ==
    {v \in [Producers -> BOOLEAN] :
        \A c \in Producers \ {Root} :
            v[c] => \E p \in Producers : v[p] /\ c \in Members(s[p])}

Init ==
    /\ subs \in Shapes
    /\ differs \in Verdicts(subs)
    /\ watched = Watchers \cup Effects
    /\ pokePass = 0
    /\ stamp = [n \in Nodes |-> 0]
    /\ pc = "idle"
    /\ batched \in BOOLEAN
    /\ cutoff = FALSE
    /\ cur = None /\ next = None /\ stack = <<>> /\ changed = FALSE
    /\ queued = {} /\ wakes = <<>> /\ woken = {}
-----------------------------------------------------------------------------
KeptFrame(frames, top) == frames        \* slip: resumed but not popped
popped(frames, top) == SubSeq(frames, top+1, Len(frames))

\* Where an iteration goes on: to the next link, else to the innermost
\* suspended position that has one, else out of the loop.
Resume(link, frames, verdict) ==
    LET open == {i \in DOMAIN frames : frames[i].next # None}
        top == CHOOSE i \in open : \A j \in open : i <= j
    IN  CASE link # None ->
                /\ cur' = link /\ next' = NextSub(link)
                /\ stack' = frames /\ changed' = verdict
                /\ UNCHANGED pc
          [] link = None /\ open # {} ->
                /\ cur' = frames[top].next /\ next' = NextSub(frames[top].next)
                /\ stack' = popped(frames, top)
                /\ changed' = frames[top].changed
                /\ UNCHANGED pc
          [] OTHER -> pc' = "flush" /\ UNCHANGED walk

\* pokeDraftWatchers(Root, wake, valueChanged): take a new pass and enter the
\* subscriber list of the root.
pokeDraftWatchers(useCutoff) ==
    /\ pc = "idle" /\ pokePass < MaxPasses
    /\ pokePass' = pokePass + 1
    /\ cutoff' = useCutoff
    /\ changed' = (useCutoff => differs[Root])
    /\ stack' = <<>> /\ wakes' = <<>> /\ woken' = {}
    /\ cur' = FirstSub(Root)
    /\ next' = IF cur' = None THEN None ELSE NextSub(cur')
    /\ pc' = IF cur' = None THEN "flush" ELSE "walk"
    /\ UNCHANGED <<graph, watched, stamp, batched, queued>>

AtFresh(n) == pc = "walk" /\ SubOf(cur) = n /\ stamp[n] # pokePass

\* The stamp this pass puts on a node it visits.
Unstamped(n) == stamp                   \* slip: every path visits its nodes
visitStamp(n) == [stamp EXCEPT ![n] = pokePass]

OnlyIfChanged(w) == changed             \* slip: pendingness taken for a value
hears(w) == w \in Probes \/ changed
EveryListener(w) == TRUE                \* slip: callback taken for granted
takesDraft(w) == w \notin Probes

\* A subscriber with the render bit: a probe hears every poke, the others
\* only when their producer changed, and those also get the draft id.
visitWatcher(w) ==
    /\ AtFresh(w)
    /\ stamp' = visitStamp(w)
    /\ queued' = IF hears(w) /\ w \in watched THEN queued \cup {w} ELSE queued
    /\ wakes' = IF hears(w) /\ takesDraft(w) THEN Append(wakes, w) ELSE wakes
    /\ Resume(next, stack, changed)
    /\ UNCHANGED <<graph, watched, pokePass, batched, cutoff, woken>>

\* The stack a descent leaves behind: the position after the computed is only
\* suspended when the computed has several subscribers of its own.
LostPosition(c, verdict) == stack       \* slip: the rest of the list is dropped
suspended(c, verdict) ==
    IF Len(subs[c]) > 1 THEN <<[next |-> next, changed |-> verdict]>> \o stack
    ELSE stack

\* A computed with subscribers: ask the cutoff about it and descend.
visitComputed(c) ==
    LET verdict == cutoff => differs[c]
    IN  /\ AtFresh(c)
        /\ subs[c] # <<>>
        /\ stamp' = visitStamp(c)
        /\ cur' = <<c, 1>>
        /\ next' = IF Len(subs[c]) > 1 THEN <<c, 2>> ELSE next
        /\ stack' = suspended(c, verdict)
        /\ changed' = verdict
        /\ UNCHANGED <<graph, watched, pokePass, pc, batched, cutoff, queued, wakes, woken>>

\* A computed nobody reads, and an ordinary effect, are stamped and passed.
passOver(n) ==
    /\ AtFresh(n)
    /\ n \in Effects \/ (n \in Producers /\ subs[n] = <<>>)
    /\ stamp' = visitStamp(n)
    /\ Resume(next, stack, changed)
    /\ UNCHANGED <<graph, watched, pokePass, batched, cutoff, queued, wakes, woken>>

\* A node this pass has already visited.
skipVisited ==
    /\ pc = "walk" /\ stamp[SubOf(cur)] = pokePass
    /\ Resume(next, stack, changed)
    /\ UNCHANGED <<graph, watched, pokePass, stamp, batched, cutoff, queued, wakes, woken>>

\* Disposing subscriptions unlinks them; the others keep their order.
Unlinked(gone) == [p \in Producers |-> Only(subs[p], Nodes \ gone)]

\* Outside a batch the walk flushes: effects run, and they and the delivered
\* notifications may dispose any subscription.
flush ==
    /\ pc = "flush"
    /\ pc' = "wake"
    /\ IF batched THEN UNCHANGED <<subs, watched, queued>>
       ELSE \E gone \in SUBSET watched :
                /\ watched' = watched \ gone
                /\ subs' = Unlinked(gone)
                /\ queued' = {}
    /\ UNCHANGED <<differs, pokePass, stamp, batched, cutoff, walk, wakes, woken>>

\* Hand the draft to the subscriptions that outlived the flush.
deliverWakes ==
    /\ pc = "wake"
    /\ pc' = "idle"
    /\ woken' = Members(wakes) \cap watched
    /\ UNCHANGED <<graph, watched, pokePass, stamp, batched, cutoff, walk, queued, wakes>>

Loop ==
    \/ \E w \in Watchers : visitWatcher(w)
    \/ \E c \in Producers : visitComputed(c)
    \/ \E n \in Producers \cup Effects : passOver(n)
    \/ skipVisited
    \/ flush
    \/ deliverWakes

Next == Loop \/ \E useCutoff \in BOOLEAN : pokeDraftWatchers(useCutoff)

\* The walk is one synchronous call, so nothing can suspend it for ever.
Spec == Init /\ [][Next]_vars /\ WF_vars(Loop)
-----------------------------------------------------------------------------
(***************************************************************************)
(* Properties                                                              *)
(***************************************************************************)
\* What is downstream of the root, within as many hops as there are producers.
Downstream ==
    LET within[k \in 0..Cardinality(Producers)] ==
            IF k = 0 THEN {Root}
            ELSE within[k-1] \cup UNION {Members(subs[p]) : p \in within[k-1] \cap Producers}
    IN  within[Cardinality(Producers)]

\* The producer a watcher is subscribed to.
Reads(w) == CHOOSE p \in Producers : w \in Members(subs[p])

\* Every position is a link of the graph, or none.
Links == {None} \cup (Producers \X (Nat \ {0}))
TypeOK ==
    /\ watched \subseteq Watchers \cup Effects
    /\ pokePass \in 0..MaxPasses
    /\ stamp \in [Nodes -> 0..MaxPasses]
    /\ pc \in {"idle", "walk", "flush", "wake"}
    /\ cur \in Links /\ next \in Links
    /\ stack \in Seq([next : Links, changed : BOOLEAN])
    /\ {batched, cutoff, changed} \subseteq BOOLEAN
    /\ queued \subseteq Watchers
    /\ wakes \in Seq(Watchers \ Probes)

\* A poke without a cutoff misses nobody: when the loop ends every watcher
\* downstream is scheduled, and every one that takes draft ids is to get this
\* one, however the links interleave shared computeds.
MissesNobody ==
    pc = "flush" /\ ~cutoff =>
        /\ Downstream \cap Watchers \subseteq queued
        /\ (Downstream \cap Watchers) \ Probes = Members(wakes)

\* A watcher that several paths lead to is handed the draft once.
WokenOnce == \A i, j \in DOMAIN wakes : i # j => wakes[i] # wakes[j]

\* A pendingness probe hears every poke, cutoff or not.
ProbesHearAll == pc = "flush" => Downstream \cap Probes \subseteq queued

\* Every poke's walk ends, whatever the graph.
WalkEnds == pc = "walk" ~> pc = "idle"

\* The cutoff is per producer: a subscriber is handed the draft exactly when
\* the value of the producer it subscribes to changed.
CutoffIsPerProducer ==
    pc = "flush" /\ cutoff =>
        Members(wakes) = {w \in (Downstream \cap Watchers) \ Probes : differs[Reads(w)]}
=============================================================================
