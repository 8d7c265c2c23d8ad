------------------------------- MODULE Drafts -------------------------------
(***************************************************************************)
(* Drafts and rebase logs (packages/cosignals/src/worlds.ts, with the      *)
(* write paths of signals.ts and writeAtom of graph.ts).                   *)
(*                                                                         *)
(* A write made inside a React transition does not touch its atom: it      *)
(* appends an intent to the atom's rebase log, tagged with the             *)
(* transition's draft.  A world is a set of drafts, and an atom's value in *)
(* a world is the replay of the log with the intents that world includes.  *)
(* Retiring a draft folds its replay into the base value, discarding drops *)
(* its intents, and both end by releasing the logs it wrote.               *)
(*                                                                         *)
(* An intent's payload is modelled as a function on Values: an updater is  *)
(* that function, a set-value the constant one, and a callback that throws *)
(* on a value maps it to Thrown.                                           *)
(***************************************************************************)
EXTENDS Naturals, Sequences

CONSTANTS
    Atoms,          \* the atoms (writable signals)
    MaxDrafts,      \* bound: how many drafts are ever opened
    MaxIntents,     \* bound: how long one rebase log may grow
    Values,         \* what an atom may hold
    Class,          \* equals(u, v) of the atoms is Class[u] = Class[v]
    SetValues,      \* the values the program passes to set()
    Updaters,       \* the updater functions the program passes to update()
    Thrown,         \* the result of an updater that throws
    EffectsThrow,   \* TRUE iff a callback a flush runs may throw out of it
    NoLog           \* an atom with no rebase log

DraftIds == 1..MaxDrafts
Urgent == 0         \* the draft of an urgent intent (null in the code)

SetTo(v) == [u \in Values |-> v]
Ops == {SetTo(v) : v \in SetValues} \cup Updaters

ASSUME BoundsAssumption == MaxDrafts \in Nat /\ MaxIntents \in Nat
ASSUME ClassAssumption ==
    /\ Class \in [Values -> Values]
    /\ \A v \in Values : Class[Class[v]] = Class[v]
ASSUME OpsAssumption ==
    /\ SetValues \subseteq Values
    /\ Thrown \notin Values
    /\ Updaters \subseteq [Values -> Values \cup {Thrown}]
ASSUME FlagAssumption == EffectsThrow \in BOOLEAN

\* What the engine asks of the program's callbacks: an updater returns on every
\* value, and does not tell apart values the atom's equality identifies.
UpdatersReturn == Updaters \subseteq [Values -> Values]
UpdatersRespectEquals ==
    \A f \in Updaters : \A u, v \in Values :
        Class[u] = Class[v] => Class[f[u]] = Class[f[v]]

Intents == [op : Ops, draft : {Urgent} \cup DraftIds]
Logs == [before : Values, intents : Seq(Intents)]
ASSUME NoLogAssumption == NoLog \notin Logs

VARIABLES
    draftState,     \* draftState[d]: the lifecycle of draft d
    written,        \* written[d]: the atoms d wrote, in first-write order
    log,            \* log[a]: the rebase log of a, or NoLog
    base,           \* base[a]: the base (committed) value of a
    releasing,      \* drafts that ended and are not yet released: the frames
                    \* of retireDraft and discardDraft below the running flush
    told,           \* what the last step announced to subscribers
    leaked          \* history: the atoms an end that threw did not release,
                    \* and no release has come to since

vars == <<draftState, written, log, base, releasing, told, leaked>>

States == {"unopened", "open", "retired", "discarded"}

\* What a step announces over the watched graph downstream of an atom: the
\* wave of a base change, a poke of its draft watchers, or a poke that also
\* hands one draft's id to the subscribers.
Wave(a) == <<"wave", a, Urgent>>
Poke(a) == <<"poke", a, Urgent>>
Wake(a, d) == <<"wake", a, d>>
Notices == {"wave", "poke", "wake"} \X Atoms \X ({Urgent} \cup DraftIds)
-----------------------------------------------------------------------------
IsOpen(d) == d \in DraftIds /\ draftState[d] = "open"
OpenDrafts == {d \in DraftIds : draftState[d] = "open"}
WrittenBy(d) == {written[d][i] : i \in DOMAIN written[d]}
OpenInLog(a) ==
    {d \in OpenDrafts : \E i \in DOMAIN log[a].intents : log[a].intents[i].draft = d}

Same(u, v) == Class[u] = Class[v]

\* Apply one intent: a result equal to the value so far keeps that value.
applyIntent(op, v) ==
    IF v = Thrown \/ op[v] = Thrown THEN Thrown
    ELSE IF Same(v, op[v]) THEN v ELSE op[v]

\* The drafts whose intents apply in world W: urgent and retired ones always,
\* and those of W.
Applied(W) == {Urgent} \cup {d \in DraftIds : draftState[d] = "retired"} \cup W

\* The value of log l after its first n intents, where those of D apply.
replayUpTo(l, n, D) ==
    LET v[i \in 0..Len(l.intents)] ==
            IF i = 0 THEN l.before
            ELSE IF l.intents[i].draft \in D
                 THEN applyIntent(l.intents[i].op, v[i-1])
                 ELSE v[i-1]
    IN  v[n]
replay(l, D) == replayUpTo(l, Len(l.intents), D)

replayLog(a, W) == IF log[a] = NoLog THEN base[a] ELSE replay(log[a], Applied(W))

\* A reader that holds the ids W: ended drafts drop out, and with none left
\* the reader is in the base world and reads the atom itself.
worldOf(W) == W \cap OpenDrafts
Resolve(a, W) == IF worldOf(W) = {} THEN base[a] ELSE replayLog(a, worldOf(W))

\* pokeRebasedAtom: an urgent write that left base alone still moved the
\* drafted replays, so each open draft of the log is handed to subscribers.
NoRebaseNotices(a) == {}        \* slip: trust the equality cutoff
pokeRebasedAtom(a) == {Wake(a, d) : d \in OpenInLog(a)}

\* Where draft d comes up in the log of a.
FirstIn(a, d) ==
    CHOOSE i \in DOMAIN log[a].intents :
        /\ log[a].intents[i].draft = d
        /\ \A j \in 1..(i-1) : log[a].intents[j].draft # d

\* The log a first drafted write creates.
RawLog(a) == [before |-> NoLog, intents |-> <<>>]   \* slip: initializer not run
NewLog(a) == [before |-> base[a], intents |-> <<>>]
openLog(a) == IF log[a] = NoLog THEN NewLog(a) ELSE log[a]

Extended(l, intent) == [l EXCEPT !.intents = Append(@, intent)]

\* The entries of a sequence of atoms a loop over it has done when it stops
\* at the first one in bad.
DoneBefore(atoms, bad) ==
    {atoms[i] : i \in {j \in DOMAIN atoms : \A k \in 1..j : atoms[k] \notin bad}}
-----------------------------------------------------------------------------
Init ==
    /\ draftState = [d \in DraftIds |-> "unopened"]
    /\ written = [d \in DraftIds |-> <<>>]
    /\ log = [a \in Atoms |-> NoLog]
    /\ base \in [Atoms -> Values]
    /\ releasing = <<>>
    /\ told = {}
    /\ leaked = {}

openDraft(d) ==
    /\ draftState[d] = "unopened"
    /\ \A e \in 1..(d-1) : draftState[e] # "unopened"
    /\ draftState' = [draftState EXCEPT ![d] = "open"]
    /\ told' = {}
    /\ UNCHANGED <<written, log, base, releasing, leaked>>

\* The intent enters the log, and the atom the draft's written set.
draftIntent(d, a, op) ==
    /\ draftState[d] = "open"
    /\ Len(openLog(a).intents) < MaxIntents
    /\ log' = [log EXCEPT ![a] = Extended(openLog(a), [op |-> op, draft |-> d])]
    /\ written' = IF a \in WrittenBy(d) THEN written
                  ELSE [written EXCEPT ![d] = Append(@, a)]
    /\ UNCHANGED <<draftState, base, releasing, leaked>>

appendDraftIntent(d, a, op) == draftIntent(d, a, op) /\ told' = {Wake(a, d)}

\* The poke's flush comes before its wakes: a callback that throws in it
\* leaves everybody notified and nobody woken.
abortAppend(d, a, op) ==
    /\ EffectsThrow
    /\ draftIntent(d, a, op)
    /\ told' = {Poke(a)}

\* set() and update() outside any transition.  A throwing updater ends the
\* call before it has changed anything, which is no step at all.
movesBase(a, op) == ~Same(base[a], op[base[a]])
urgentIntent(a, op) ==
    /\ op[base[a]] # Thrown
    /\ log[a] # NoLog => Len(log[a].intents) < MaxIntents
    /\ base' = IF movesBase(a, op) THEN [base EXCEPT ![a] = op[base[a]]] ELSE base
    /\ log' = IF log[a] # NoLog
              THEN [log EXCEPT ![a] = Extended(@, [op |-> op, draft |-> Urgent])]
              ELSE log
    /\ UNCHANGED <<draftState, written, releasing, leaked>>

urgentWrite(a, op) ==
    /\ urgentIntent(a, op)
    /\ told' = CASE movesBase(a, op) -> {Wave(a)}
                 [] log[a] # NoLog /\ ~movesBase(a, op) -> pokeRebasedAtom(a)
                 [] OTHER -> {}

\* pokeRebasedAtom pokes draft after draft, each with a flush of its own: one
\* that throws leaves its draft and those behind it unwoken.
abortRebase(a, op) ==
    /\ EffectsThrow
    /\ urgentIntent(a, op) /\ log[a] # NoLog /\ ~movesBase(a, op)
    /\ \E d \in OpenInLog(a) :
          told' = {Wake(a, e) : e \in {o \in OpenInLog(a) : FirstIn(a, o) < FirstIn(a, d)}}
                      \cup {Poke(a)}

\* Mark the draft retired, then write every atom's replay into base inside
\* one batch.  A replay that throws leaves the atoms after it unwritten and
\* takes the call out before its release.
retireDraft(d) ==
    LET folded(a) == replayLog(a, {d})
        bad == {a \in WrittenBy(d) : folded(a) = Thrown}
        done == DoneBefore(written[d], bad)
        moved == {a \in done : ~Same(base[a], folded(a))}
    IN  /\ draftState[d] = "open"
        /\ draftState' = [draftState EXCEPT ![d] = "retired"]
        /\ base' = [a \in Atoms |-> IF a \in moved THEN folded(a) ELSE base[a]]
        /\ releasing' = IF bad = {} THEN <<d>> \o releasing ELSE releasing
        /\ leaked' = IF bad = {} THEN leaked ELSE leaked \cup WrittenBy(d)
        /\ told' = {Wave(a) : a \in moved} \cup {Poke(a) : a \in done}
        /\ UNCHANGED <<written, log>>

discardDraft(d) ==
    /\ draftState[d] = "open"
    /\ draftState' = [draftState EXCEPT ![d] = "discarded"]
    /\ releasing' = <<d>> \o releasing
    /\ told' = {Poke(a) : a \in WrittenBy(d)}
    /\ UNCHANGED <<written, log, base, leaked>>

\* Each of those pokes flushes outside a batch: a callback that throws there
\* leaves the atoms behind it unpoked and takes the call out before its release.
abortDiscard(d) ==
    /\ EffectsThrow
    /\ draftState[d] = "open"
    /\ draftState' = [draftState EXCEPT ![d] = "discarded"]
    /\ \E reached \in DOMAIN written[d] :
          told' = {Poke(written[d][i]) : i \in 1..reached}
    /\ leaked' = leaked \cup WrittenBy(d)
    /\ UNCHANGED <<written, log, base, releasing>>

\* The length of a log's leading run of intents that no open draft issued.
DeadPrefix(l) ==
    CHOOSE p \in 0..Len(l.intents) :
        /\ \A i \in 1..p : ~IsOpen(l.intents[i].draft)
        /\ p < Len(l.intents) => IsOpen(l.intents[p+1].draft)

\* Slip: the whole log folds as soon as one of its drafts has ended.
FoldedWhole(l) ==
    IF \A i \in DOMAIN l.intents : ~IsOpen(l.intents[i].draft) THEN NoLog
    ELSE [before |-> replay(l, Applied({})),
          intents |-> SelectSeq(l.intents, LAMBDA i : IsOpen(i.draft))]

\* Slip: a log is deleted or left whole, its dead prefix never folded.
NotFolded(l) ==
    IF \A i \in DOMAIN l.intents : ~IsOpen(l.intents[i].draft) THEN NoLog ELSE l

\* Slip: the dead prefix is dropped, not folded.
DroppedPrefix(l) ==
    LET p == DeadPrefix(l)
    IN  IF p = Len(l.intents) THEN NoLog
        ELSE [l EXCEPT !.intents = SubSeq(@, p+1, Len(@))]

\* The log of an atom after releaseDraft has folded its dead prefix.
Compacted(l) ==
    LET p == DeadPrefix(l)
    IN  IF p = Len(l.intents) THEN NoLog
        ELSE [before |-> replayUpTo(l, p, Applied({})),
              intents |-> SubSeq(l.intents, p+1, Len(l.intents))]

\* When the last draft has ended, every log goes with it.
ReleasedLast == releasing # <<>>        \* slip: taken at every release
NothingLive == OpenDrafts = {}

\* The flush that ended the innermost retirement or discard has returned, and
\* its draft's logs are released; once nothing is live every log goes.
releaseDraft ==
    LET d == Head(releasing)
        logged == {a \in WrittenBy(d) : log[a] # NoLog}
        bad == {a \in logged : replayUpTo(log[a], DeadPrefix(log[a]), Applied({})) = Thrown}
        done == DoneBefore(written[d], bad)
    IN  /\ releasing # <<>>
        /\ releasing' = Tail(releasing)
        /\ log' = [a \in Atoms |->
                      IF bad = {} /\ NothingLive THEN NoLog
                      ELSE IF a \in logged \cap done THEN Compacted(log[a])
                      ELSE log[a]]
        /\ leaked' = IF bad = {} /\ NothingLive THEN {}
                     ELSE (leaked \cup WrittenBy(d)) \ done
        /\ told' = {}
        /\ UNCHANGED <<draftState, written, base>>

\* An effect the flush ran threw: the exception leaves retireDraft or
\* discardDraft past its call of releaseDraft.
abortRelease ==
    /\ EffectsThrow
    /\ releasing # <<>>
    /\ releasing' = Tail(releasing)
    /\ leaked' = leaked \cup WrittenBy(Head(releasing))
    /\ told' = {}
    /\ UNCHANGED <<draftState, written, log, base>>

Next ==
    \/ \E d \in DraftIds : openDraft(d) \/ retireDraft(d) \/ discardDraft(d)
    \/ \E d \in DraftIds : abortDiscard(d)
    \/ \E d \in DraftIds, a \in Atoms, op \in Ops :
          appendDraftIntent(d, a, op) \/ abortAppend(d, a, op)
    \/ \E a \in Atoms, op \in Ops : urgentWrite(a, op) \/ abortRebase(a, op)
    \/ releaseDraft
    \/ abortRelease

Spec == Init /\ [][Next]_vars
-----------------------------------------------------------------------------
(***************************************************************************)
(* Properties                                                              *)
(***************************************************************************)
\* Types: every log is well formed, base never holds the error of an updater.
TypeOK ==
    /\ draftState \in [DraftIds -> States]
    /\ written \in [DraftIds -> Seq(Atoms)]
    /\ log \in [Atoms -> Logs \cup {NoLog}]
    /\ base \in [Atoms -> Values]
    /\ releasing \in Seq(DraftIds)
    /\ told \in SUBSET Notices
    /\ leaked \in SUBSET Atoms

\* The written sets the engine keeps per draft (retirement, discard and late
\* subscriptions walk them) and the logs (replay and rebase notices walk
\* them) name the same atoms for every open draft.
WrittenIsLogged ==
    \A d \in OpenDrafts, a \in Atoms :
        a \in WrittenBy(d) <=> (log[a] # NoLog /\ d \in OpenInLog(a))

\* Bounded history: once the flushes of ended drafts are over, every log
\* starts with an intent of an open draft, so what precedes the oldest
\* pending transition is folded away and an atom nobody drafts has no log.
\* A log keeps a dead prefix only where an end that threw skipped its release,
\* and no longer than until the next draft that wrote the atom is released.
LogsStartOpen ==
    releasing = <<>> =>
        \A a \in Atoms : log[a] # NoLog => IsOpen(log[a].intents[1].draft) \/ a \in leaked

\* The base value that urgent writes and retirements maintain in place is,
\* at every moment, the replay of the log for the base world: the two planes
\* of an atom never drift apart.
BaseIsReplay == \A a \in Atoms : Same(base[a], replayLog(a, {}))

\* No step changes what some reader resolves without announcing it: if atom a
\* changes for the holder of the ids W, then the step started a base wave or
\* a poke from a, or woke one of the drafts in W over a.
NoSilentChange ==
    [][\A a \in Atoms : \A W \in SUBSET OpenDrafts :
          ~Same(Resolve(a, W), Resolve(a, W)') =>
              \/ Wave(a) \in told' \/ Poke(a) \in told'
              \/ \E d \in W : Wake(a, d) \in told']_vars

\* A draft that retires leaves whoever still holds its id with what it showed:
\* readers of worlds it belongs to resolve the same values after the fold as
\* before it, so a transition over several atoms commits all of them.
RetiredStaysResolved ==
    [][\A d \in OpenDrafts : draftState'[d] = "retired" =>
          \A a \in Atoms, W \in SUBSET OpenDrafts :
             d \in W /\ Resolve(a, W) # Thrown => Same(Resolve(a, W), Resolve(a, W)')]_vars

\* The pokes of a discard reach the subscribers of every atom whose readers
\* showed the draft and now show something else.
DiscardsAreTold ==
    [][\A d \in OpenDrafts : draftState'[d] = "discarded" =>
          \A a \in Atoms, W \in SUBSET OpenDrafts :
             d \in W /\ ~Same(Resolve(a, W), Resolve(a, W)') => Poke(a) \in told']_vars

\* The logs implement the branching store: for every set of draft ids a
\* reader may hold, opening, writing, retiring, discarding and releasing show
\* it exactly what the branches promise, and releasing shows nothing.
Store == INSTANCE BranchingStore WITH
            state <- draftState,
            val <- [a \in Atoms |-> [W \in SUBSET DraftIds |-> Class[Resolve(a, W)]]],
            notified <- {n[2] : n \in told}
ImplementsBranches == Store!Spec
=============================================================================
