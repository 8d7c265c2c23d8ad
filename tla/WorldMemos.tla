----------------------------- MODULE WorldMemos -----------------------------
(***************************************************************************)
(* Resolving computeds in draft worlds (the second half of                 *)
(* packages/cosignals/src/worlds.ts), over the drafts and logs of Drafts.  *)
(*                                                                         *)
(* A world is a set of open drafts.  Evaluating a node in one touches      *)
(* neither its value nor its edges in the graph; the outcome is kept in a  *)
(* memo, with a certificate: the sources read, each with its readings.  A  *)
(* memo serves while the clock stands still, or while its certificate      *)
(* holds.  While one draft is alone, a drafted write compares what each    *)
(* node resolved before and after it, and wakes only where they differ.    *)
(*                                                                         *)
(* The base plane is reduced to what certificates see of it: the last      *)
(* outcome pulled of a computed and its changedAt reading.  The program    *)
(* may await one promise; the suspension of a pending memo is named by the *)
(* memo's key.                                                             *)
(***************************************************************************)
EXTENDS Drafts, Lists, FiniteSets

CONSTANTS
    Creation,           \* the computeds, in the order they subscribed
    Watched,            \* the producers somebody reads
    Shapes,             \* programs: which bodies the computeds have
    Body(_, _, _),      \* Body(s, n, seen): what n's body does after reading seen
    Awaited, Answer,    \* the program's promise, and what it settles to
    None,               \* no memo
    HandlersResolve,    \* whether handlers that a settlement runs resolve worlds
    MaxClock            \* bound: the reading of the change clock writes stop at

Computeds == Members(Creation)
Producers == Atoms \cup Computeds
Worlds == (SUBSET DraftIds) \ {{}}
Keys == Producers \X Worlds

\* Where the evaluation of a computed may stand: what it has read so far.
Points == Computeds \X Seq(Values)

\* What came of a node, which sources were read with which readings, and the
\* two together in a memo.
Outcomes == [kind : {"value"}, of : Values] \cup
            [kind : {"suspended"}, of : Producers \cup {Awaited}]
Sources == [node : Producers, changedAt : Nat, revision : Nat]
Memos == [outcome : Outcomes, validAt : Nat, nodeChangedAt : Nat,
          certificate : SUBSET Sources]

ASSUME NodesAssumption ==
    /\ Creation \in Seq(Computeds) /\ Watched \subseteq Producers
    /\ Atoms \cap Computeds = {}
ASSUME PromiseAssumption == Awaited \notin Producers \cup Keys /\ Answer \in Values
ASSUME NoneAssumption == None \notin Memos
ASSUME ClockAssumption == MaxClock \in Nat /\ HandlersResolve \in BOOLEAN
ASSUME ReturnAssumption == UpdatersReturn

VARIABLES
    shape,              \* the program, the same all along
    clock,              \* graphChangeClock
    changedAt,          \* changedAtGraphChange of a producer
    baseChanged,        \* baseChangedAtGraphChange
    pulled,             \* pulled[c]: the outcome of c when last pulled in base
    draftRevision,      \* draftRevisionByAtom
    cutoffAt,           \* cutoffAtGraphChange of a draft, 0 once it overlapped
    memos,              \* memos[<<n, W>>]: the memo of n in world W, or None
    status,             \* of the promise: "pending" or "fulfilled"
    parkedNodes,        \* the computeds that await it in base
    parked,             \* parked[p]: the memos whose suspensions await p
    spent,              \* the memos whose suspension was resolved
    due,                \* those of them whose own box has yet to be told
    settling,           \* a settlement has not resolved its suspensions yet
    walk,               \* the nodes a drafted write's poke has still to reach
    compared,           \* those it has reached, and compared
    before,             \* history: what it resolved to before that write
    skipped             \* the nodes whose subscribers it did not wake

readings == <<changedAt, baseChanged, pulled>>
asyncs == <<status, parkedNodes, parked, spent, due, settling>>
walking == <<walk, compared, before, skipped>>
memoVars == <<vars, shape, clock, readings, draftRevision, cutoffAt, memos, asyncs, walking>>

Settled(v) == [kind |-> "value", of |-> v]
Pending(p) == [kind |-> "suspended", of |-> p]
-----------------------------------------------------------------------------
(***************************************************************************)
(* Evaluation                                                              *)
(***************************************************************************)
\* The outcome of every node in world W and what it read for it; the trusted
\* ones have theirs in a memo.  In the world {} this is the base plane.
Resolved(W, trusted) ==
    LET Run[p \in Points] ==
            LET i == Body(shape, p[1], p[2])
                read == IF i.op = "read" THEN {i.of} ELSE {}
                got == CASE i.op = "use" ->
                                IF status = "fulfilled" THEN Settled(Answer) ELSE Pending(Awaited)
                         [] i.of \in trusted -> memos[<<i.of, W>>].outcome
                         [] i.of \in Atoms \ trusted -> Settled(Resolve(i.of, W))
                         [] OTHER -> Run[<<i.of, <<>>>>].outcome
            IN IF i.op = "done" THEN [outcome |-> Settled(i.of), reads |-> {}]
               ELSE IF got.kind = "suspended" THEN [outcome |-> Pending(i.of), reads |-> read]
               ELSE LET rest == Run[<<p[1], Append(p[2], got.of)>>]
                    IN [rest EXCEPT !.reads = @ \cup read]
    IN [n \in Producers |->
            IF n \in trusted THEN [outcome |-> memos[<<n, W>>].outcome, reads |-> {}]
            ELSE IF n \in Atoms THEN [outcome |-> Settled(Resolve(n, W)), reads |-> {}]
            ELSE Run[<<n, <<>>>>]]

Visited(n, resolved) ==
    LET From[m \in Producers] == {m} \cup UNION {From[d] : d \in resolved[m].reads}
    IN From[n]

\* What recordSource puts into the certificate of whoever reads d.
recordSource(d) ==
    [node |-> d, changedAt |-> changedAt[d],
     revision |-> IF d \in Atoms THEN draftRevision[d] ELSE 0]

\* Certificates: the sources read, with the certificates of those inherited.
inheritCertificate(resolved, trusted, W) ==
    LET Of[n \in Producers] ==
            IF n \in trusted THEN memos[<<n, W>>].certificate
            ELSE IF n \in Atoms THEN {recordSource(n)}
            ELSE UNION {{recordSource(d)} \cup Of[d] : d \in resolved[n].reads}
    IN Of

\* Slip: the plane of base values alone decides.
BaseReadings(e) == changedAt[e.node] = e.changedAt
stillReads(e) == recordSource(e.node) = e

\* Slip: a pending outcome is as good as its certificate.
AnyPending(k) == TRUE
stillPending(k) == memos[k].outcome.kind = "suspended" => k \notin spent

memoValid(n, W) ==
    LET m == memos[<<n, W>>] IN
    /\ m # None
    /\ \/ m.validAt = clock
       \/ /\ m.nodeChangedAt = changedAt[n]
          /\ stillPending(<<n, W>>)
          /\ \A e \in m.certificate : stillReads(e)

Trusted(W) == {n \in Producers : memoValid(n, W)}

\* resolveState(n, W): every node on the way gets a memo of this reading of
\* the clock.  A pending one keeps its suspension while that is unresolved,
\* and parks it on what it awaits.
resolveState(n, W) ==
    \E trusted \in {Trusted(W)} : \E resolved \in {Resolved(W, trusted)} :
    \E visited \in {Visited(n, resolved)} :
        LET certificate == inheritCertificate(resolved, trusted, W)
            waiting == {m \in visited \ trusted : resolved[m].outcome.kind = "suspended"}
            kept == {m \in waiting : /\ memos[<<m, W>>] # None
                                     /\ memos[<<m, W>>].outcome.kind = "suspended"
                                     /\ <<m, W>> \notin spent}
            fresh == {<<m, W>> : m \in waiting \ kept}
            awaits(m) == IF resolved[m].outcome.of = Awaited THEN Awaited
                         ELSE <<resolved[m].outcome.of, W>>
        IN  /\ memos' = [k \in Keys |->
                            IF k[2] # W \/ k[1] \notin visited THEN memos[k]
                            ELSE IF k[1] \in trusted THEN [memos[k] EXCEPT !.validAt = clock]
                            ELSE [outcome |-> resolved[k[1]].outcome, validAt |-> clock,
                                  nodeChangedAt |-> changedAt[k[1]],
                                  certificate |-> certificate[k[1]]]]
            /\ spent' = spent \ fresh
            /\ parked' = [p \in DOMAIN parked |->
                            (parked[p] \ fresh)
                                \cup {<<m, W>> : m \in {w \in waiting : awaits(w) = p}}]

\* An ordinary read of n in base pulls it: what comes out differently gets a
\* new reading.
Base == Resolved({}, {})
Moved(n, now) == {m \in Visited(n, now) \cap Computeds : pulled[m] # now[m].outcome}
pull(n) ==
    \E now \in {Base} : \E moved \in {Moved(n, now)} :
        /\ moved # {}
        /\ pulled' = [m \in Computeds |-> IF m \in moved THEN now[m].outcome ELSE pulled[m]]
        /\ changedAt' = [m \in Producers |-> IF m \in moved THEN clock ELSE changedAt[m]]
        /\ parkedNodes' = parkedNodes \cup {m \in moved : pulled'[m] = Pending(Awaited)}
-----------------------------------------------------------------------------
(***************************************************************************)
(* The drafts, with their stamps                                           *)
(***************************************************************************)
InitMemos ==
    /\ Init
    /\ shape \in Shapes
    /\ clock = 1 /\ baseChanged = 1
    /\ changedAt = [n \in Producers |-> 0]
    /\ draftRevision = [a \in Atoms |-> 0]
    /\ cutoffAt = [d \in DraftIds |-> 0]
    /\ memos = [k \in Keys |-> None]
    /\ status = "pending"
    /\ pulled = [c \in Computeds |-> Base[c].outcome]
    /\ parkedNodes = {c \in Computeds : Base[c].outcome = Pending(Awaited)}
    /\ parked = [p \in Keys \cup {Awaited} |-> {}]
    /\ spent = {} /\ due = {} /\ settling = FALSE
    /\ walk = <<>> /\ compared = {} /\ before = None /\ skipped = {}

\* No settlement, no microtask of one and no walk is under way.
Idle == ~settling /\ due = {} /\ walk = <<>>
NoWalk == walk' = <<>> /\ compared' = {} /\ before' = None /\ skipped' = {}

Ticks(n) == clock' = clock + n /\ clock' <= MaxClock
Revised(as, at) == draftRevision' = [a \in Atoms |-> IF a \in as THEN at ELSE draftRevision[a]]

Open(d) ==
    /\ Idle /\ openDraft(d)
    /\ cutoffAt' = IF OpenDrafts = {} THEN [cutoffAt EXCEPT ![d] = clock]
                   ELSE [e \in DraftIds |-> 0]
    /\ Ticks(1) /\ NoWalk
    /\ UNCHANGED <<shape, readings, draftRevision, memos, asyncs>>

\* The nodes a poke reaches next, having been at n: its readers in base come
\* first, in the order they subscribed, and what it has reached is passed by.
Readers(n) == Only(Creation, {c \in Computeds : n \in Base[c].reads})
pokedAfter(n) == Only(Readers(n) \o Tail(walk), Producers \ (compared \cup {n}))

comparesFor(d) == cutoffAt[d] # 0 /\ cutoffAt[d] >= baseChanged

Append_(d, a, op) ==
    /\ Idle /\ appendDraftIntent(d, a, op)
    /\ Revised({a}, clock + 1)
    /\ Ticks(1)
    /\ walk' = IF comparesFor(d) THEN <<a>> ELSE <<>>
    /\ compared' = {}
    /\ before' = IF comparesFor(d) THEN Resolved({d}, {}) ELSE None
    /\ skipped' = {}
    /\ UNCHANGED <<shape, readings, cutoffAt, memos, asyncs>>

\* changedInCutoffWorld for the next node of the walk, which without a memo
\* is first read in base.
FirstReads(n) == walk # <<>> /\ Head(walk) = n /\ memos[<<n, OpenDrafts>>] = None

Compare ==
    /\ walk # <<>>
    /\ LET n == Head(walk)
           k == <<n, OpenDrafts>>
           old == IF memos[k] # None THEN memos[k].outcome ELSE Base[n].outcome
           same == old.kind = "suspended" => memos[k] # None /\ k \notin spent
       IN /\ FirstReads(n) => Moved(n, Base) = {}
          /\ resolveState(n, OpenDrafts)
          /\ skipped' = IF same /\ memos'[k].outcome = old THEN skipped \cup {n} ELSE skipped
    /\ compared' = compared \cup {Head(walk)}
    /\ walk' = pokedAfter(Head(walk))
    /\ UNCHANGED <<vars, shape, clock, readings, draftRevision, cutoffAt,
                   status, parkedNodes, due, settling, before>>

Urgent_(a, op) ==
    LET logged == IF log[a] # NoLog THEN 1 ELSE 0
        changed == IF Same(base[a], op[base[a]]) THEN 0 ELSE 1
    IN  /\ Idle /\ urgentWrite(a, op)
        /\ Revised(IF logged = 1 THEN {a} ELSE {}, clock + 1)
        /\ Ticks(logged + changed)
        /\ changedAt' = IF changed = 1 THEN [changedAt EXCEPT ![a] = clock'] ELSE changedAt
        /\ baseChanged' = IF changed = 1 THEN clock' ELSE baseChanged
        /\ NoWalk
        /\ UNCHANGED <<shape, pulled, cutoffAt, memos, asyncs>>

\* The atoms fold one after the other in one batch: of each, its revision
\* first, then its write.
Retire(d) ==
    LET moved == {a \in Atoms : base'[a] # base[a]}
        upTo(i) == clock + 1 + Cardinality({j \in 1..i : written[d][j] \in moved})
        at(a) == CHOOSE i \in DOMAIN written[d] : written[d][i] = a
    IN  /\ Idle /\ retireDraft(d)
        /\ Ticks(1 + Cardinality(moved))
        /\ draftRevision' = [a \in Atoms |-> IF a \in WrittenBy(d) THEN upTo(at(a) - 1)
                                             ELSE draftRevision[a]]
        /\ changedAt' = [n \in Producers |-> IF n \in moved THEN upTo(at(n)) ELSE changedAt[n]]
        /\ baseChanged' = IF moved = {} THEN baseChanged ELSE clock'
        /\ NoWalk
        /\ UNCHANGED <<shape, pulled, cutoffAt, memos, asyncs>>

Discard(d) ==
    /\ Idle /\ discardDraft(d)
    /\ Revised(WrittenBy(d), clock + 1)
    /\ Ticks(1) /\ NoWalk
    /\ UNCHANGED <<shape, readings, cutoffAt, memos, asyncs>>

\* The logs go, and at quiescence the memos with them.
Release ==
    /\ Idle /\ releaseDraft
    /\ memos' = [k \in Keys |-> IF OpenDrafts # {} THEN memos[k] ELSE None]
    /\ parked' = [p \in DOMAIN parked |-> {k \in parked[p] : memos'[k] # None}]
    /\ spent' = {k \in spent : memos'[k] # None}
    /\ NoWalk
    /\ UNCHANGED <<shape, clock, readings, draftRevision, cutoffAt,
                   status, parkedNodes, due, settling>>
-----------------------------------------------------------------------------
(***************************************************************************)
(* Reads, and the promise                                                  *)
(***************************************************************************)
LeavesDrafts ==
    /\ told' = {}
    /\ UNCHANGED <<draftState, written, log, base, releasing, leaked, shape, draftRevision, cutoffAt>>

\* A reader resolves n in a world of open drafts: a render, latest(), or the
\* comparison of a subscription.
Read(n, W) ==
    /\ Idle \/ (settling /\ HandlersResolve)
    /\ W \subseteq OpenDrafts
    /\ ~(memos[<<n, W>>] # None /\ memos[<<n, W>>].validAt = clock)
    /\ resolveState(n, W)
    /\ LeavesDrafts /\ NoWalk
    /\ UNCHANGED <<clock, readings, status, parkedNodes, due, settling>>

ReadBase(n) ==
    /\ (Idle /\ n \in Watched) \/ FirstReads(n)
    /\ pull(n)
    /\ LeavesDrafts
    /\ UNCHANGED <<clock, baseChanged, memos, status, parked, spent, due, settling, walking>>

\* The promise settles: what awaits it in base is invalidated and evaluated,
\* and the batch around that flushes before any suspension is resolved.
Settle ==
    /\ Idle /\ status = "pending"
    /\ parkedNodes # {} \/ parked[Awaited] # {}
    /\ LeavesDrafts /\ NoWalk
    /\ status' = "fulfilled"
    /\ clock' = clock + 1 + Cardinality(parkedNodes)
    /\ LET now == Resolved({}, {})' IN
       pulled' = [c \in Computeds |-> IF c \in parkedNodes THEN now[c].outcome ELSE pulled[c]]
    /\ changedAt' = [n \in Producers |-> IF n \in parkedNodes THEN clock' ELSE changedAt[n]]
    /\ baseChanged' = IF parkedNodes = {} THEN baseChanged ELSE clock'
    /\ parkedNodes' = {} /\ settling' = TRUE
    /\ UNCHANGED <<memos, parked, spent, due>>

\* Suspensions parked on p are resolved; the boxes of those that others await
\* are told in microtasks.
Resolving(p) ==
    LET now == parked[p] \ spent IN
    /\ spent' = spent \cup now
    /\ due' = (due \ {p}) \cup {k \in now : parked[k] # {}}
    /\ parked' = [parked EXCEPT ![p] = {}]

SettleDone ==
    /\ settling
    /\ Resolving(Awaited)
    /\ settling' = FALSE
    /\ LeavesDrafts /\ NoWalk
    /\ UNCHANGED <<clock, readings, memos, status, parkedNodes>>

Tell(k) ==
    /\ k \in due /\ ~settling
    /\ Resolving(k)
    /\ clock' = clock + 1
    /\ LeavesDrafts /\ NoWalk
    /\ UNCHANGED <<readings, memos, status, parkedNodes, settling>>

NextMemos ==
    \/ \E d \in DraftIds : Open(d) \/ Retire(d) \/ Discard(d)
    \/ \E d \in DraftIds, a \in Atoms, op \in Ops : Append_(d, a, op)
    \/ \E a \in Atoms, op \in Ops : Urgent_(a, op)
    \/ Release \/ Compare
    \/ \E n \in Watched, W \in Worlds : Read(n, W)
    \/ \E n \in Computeds : ReadBase(n)
    \/ Settle \/ SettleDone
    \/ \E k \in Keys : Tell(k)

SpecMemos == InitMemos /\ [][NextMemos]_memoVars
-----------------------------------------------------------------------------
(***************************************************************************)
(* Properties                                                              *)
(***************************************************************************)
\* A memo that would be served, to whichever reader of open drafts, is what
\* evaluating the node in that world would give: no drafted or urgent write,
\* retirement, discard, release or settlement leaves a memo behind that its
\* certificate wrongly vouches for.
MemoServesCurrent ==
    Idle => \A W \in (SUBSET OpenDrafts) \ {{}} :
        \A now \in {Resolved(W, {})} : \A n \in Trusted(W) :
            memos[<<n, W>>].outcome = now[n].outcome

\* asyncs.ts:201: no memo serves a suspended state whose suspension is
\* resolved; a render would suspend on a promise that is already fulfilled.
NeverServesSpent ==
    Idle => \A W \in (SUBSET OpenDrafts) \ {{}} : \A n \in Trusted(W) :
        memos[<<n, W>>].outcome.kind = "suspended" => <<n, W>> \notin spent

\* The lone draft's cutoff silences only those whose value in the draft's
\* world the write left alone.
CutoffMissesNobody ==
    \A now \in {Resolved(OpenDrafts, {})} :
        \A n \in skipped : now[n].outcome = before[n].outcome
=============================================================================
