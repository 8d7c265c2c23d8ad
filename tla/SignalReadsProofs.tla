------------------------- MODULE SignalReadsProofs -------------------------
(***************************************************************************)
(* What a read serves is what evaluating everything would give, for every  *)
(* graph, every program whose bodies are well typed and every bound.       *)
(*                                                                         *)
(* The invariant says of each clean node that some run of its body         *)
(* explains the outcome it keeps: the run asked for dependencies and       *)
(* promises, got what they have now unless they have moved since, and      *)
(* ended with that outcome.  Where everything is fresh nothing has moved,  *)
(* so the outcomes solve the equations of which Current is the solution.   *)
(*                                                                         *)
(* And whoever watches a node, or is an effect, and is neither scheduled   *)
(* nor being served has been told what a read serves.                      *)
(***************************************************************************)
EXTENDS SignalGraphProofs

-----------------------------------------------------------------------------
(***************************************************************************)
(* Records: the run of a body that explains what its node has              *)
(***************************************************************************)

\* The outcome of a node that has the value v, and of one that waits.
Just(v) == [kind |-> "value", of |-> v]
Wait == [kind |-> "pending", of |-> None]

\* The frame f has come past d among the dependencies of its node.
Behind(f, d) == \E k \in 1..f.pos : k <= Len(deps[f.node]) /\ deps[f.node][k] = d

\* A validation of n among the frames st has passed d.
Confirming(st, n, d) == \E i \in DOMAIN st : st[i].mode = "check" /\ st[i].node = n /\ Behind(st[i], d)

\* What n has of d is what d has now: a read would not evaluate n, or d has not
\* moved since n was evaluated, or a validation of n has passed d.
Heeds(n, d) ==
    \/ IsFresh(n)
    \/ changedAt[d] <= validAt[n]
    \/ Confirming(stack, n, d)

\* The thenable t has been fulfilled with v.
Answers(t, v) == t \in Thenables /\ status[t] = "fulfilled" /\ result[t] = v

\* n's body, after the first k - 1 values of seen, asks for what gave the k-th.
Retraces(n, seen, k) ==
    LET i == Body(shape, n, SubSeq(seen, 1, k - 1)) IN
    \/ i.op = "read" /\ i.of \in Members(deps[n]) /\ (Heeds(n, i.of) => Outcome(i.of) = Just(seen[k]))
    \/ i.op = "use" /\ Answers(i.of, seen[k])

\* n waits for the thenable t, or is about to be told of it.
WaitsFor(n, t) ==
    t \in Thenables /\ (n \in settling.nodes \/ (status[t] = "pending" /\ n \in parkedNodes[t]))

\* After all of seen it ends with the outcome n has.
Concluded(n, seen) ==
    LET i == Body(shape, n, seen) IN
    \/ i.op = "done" /\ Outcome(n) = Just(i.of)
    \/ i.op = "throw" /\ Outcome(n) = Failed(i.of)
    \/ /\ i.op = "read" /\ i.of \in Members(deps[n]) \cap Computeds /\ Outcome(n).kind # "value"
       /\ Heeds(n, i.of) => Outcome(i.of) = Outcome(n)
    \/ i.op = "use" /\ i.of \in Thenables /\ status[i.of] = "rejected" /\ Outcome(n) = Failed(Rejection)
    \/ i.op = "use" /\ WaitsFor(n, i.of) /\ Outcome(n) = Wait

\* There is a run of n's body that gave what n has.
Justified(n) ==
    \E seen \in Seq(Values) : (\A k \in 1..Len(seen) : Retraces(n, seen, k)) /\ Concluded(n, seen)

\* The nodes that need such a run: not those whose body has to run before they
\* are read.
Due(n) == (n \in Computeds \/ n \in watched) /\ mark[n] # "dirty" /\ n \notin Computing
\* Whoever needs a run has one.
Recorded(n) == Due(n) => Justified(n)

\* What a step leaves of that.
Stands(n) ==
    /\ shape' = shape /\ deps'[n] = deps[n] /\ Outcome(n)' = Outcome(n)
    /\ \A t \in Thenables : status[t] \in {"fulfilled", "rejected"} => status'[t] = status[t] /\ result'[t] = result[t]
    /\ \A t \in Thenables : WaitsFor(n, t) => WaitsFor(n, t)'
    /\ \A d \in Members(deps[n]) : Heeds(n, d)' => Heeds(n, d) /\ Outcome(d)' = Outcome(d)

\* A run explains what a node has for as long as what it was given stands.
LEMMA StillJustified ==
    ASSUME NEW n, Stands(n), Justified(n)
    PROVE  Justified(n)'
<1>1. PICK seen \in Seq(Values) : (\A k \in 1..Len(seen) : Retraces(n, seen, k)) /\ Concluded(n, seen)
    BY DEF Justified
<1>2. ASSUME NEW k \in 1..Len(seen) PROVE Retraces(n, seen, k)'
    <2>1. Retraces(n, seen, k)
        BY <1>1
    <2>2. PICK i : i = Body(shape, n, SubSeq(seen, 1, k - 1))
        OBVIOUS
    <2>3. Body(shape, n, SubSeq(seen, 1, k - 1))' = i
        BY <2>2 DEF Stands
    <2>4. CASE i.op = "read" /\ i.of \in Members(deps[n]) /\ (Heeds(n, i.of) => Outcome(i.of) = Just(seen[k]))
        <3>1. i.of \in Members(deps'[n]) /\ (Heeds(n, i.of)' => Outcome(i.of)' = Just(seen[k]))
            BY <2>4 DEF Stands
        <3> QED BY <2>3, <2>4, <3>1 DEF Retraces, Just
    <2>5. CASE i.op = "use" /\ Answers(i.of, seen[k])
        <3>1. Answers(i.of, seen[k])'
            BY <2>5 DEF Answers, Stands
        <3> QED BY <2>3, <2>5, <3>1 DEF Retraces
    <2> QED BY <2>1, <2>2, <2>4, <2>5 DEF Retraces
<1>3. Concluded(n, seen)'
    <2>1. Concluded(n, seen)
        BY <1>1
    <2>2. PICK i : i = Body(shape, n, seen)
        OBVIOUS
    <2>3. Body(shape, n, seen)' = i
        BY <2>2 DEF Stands
    <2>o. PICK o : o = Outcome(n)
        OBVIOUS
    <2>p. Outcome(n)' = o
        BY <2>o DEF Stands
    <2>4. CASE i.op = "read" /\ i.of \in Members(deps[n]) \cap Computeds /\ o.kind # "value"
               /\ (Heeds(n, i.of) => Outcome(i.of) = o)
        <3>1. i.of \in Members(deps'[n]) \cap Computeds /\ (Heeds(n, i.of)' => Outcome(i.of)' = o)
            BY <2>4 DEF Stands
        <3> QED BY <2>3, <2>4, <2>p, <3>1 DEF Concluded
    <2>5. CASE i.op = "done" /\ o = Just(i.of)
        BY <2>3, <2>5, <2>p DEF Concluded, Just
    <2>6. CASE i.op = "throw" /\ o = Failed(i.of)
        BY <2>3, <2>6, <2>p DEF Concluded, Failed
    <2>7. CASE i.op = "use" /\ i.of \in Thenables /\ status[i.of] = "rejected" /\ o = Failed(Rejection)
        <3>1. status'[i.of] = "rejected"
            BY <2>7 DEF Stands
        <3> QED BY <2>3, <2>7, <2>p, <3>1 DEF Concluded, Failed
    <2>8. CASE i.op = "use" /\ WaitsFor(n, i.of) /\ o = Wait
        <3>1. WaitsFor(n, i.of)'
            BY <2>8 DEF Stands, WaitsFor
        <3> QED BY <2>3, <2>8, <2>p, <3>1 DEF Concluded, Wait
    <2> QED BY <2>1, <2>2, <2>o, <2>4, <2>5, <2>6, <2>7, <2>8 DEF Concluded
<1> QED BY <1>2, <1>3 DEF Justified

\* A step that leaves all of it keeps the record.
LEMMA KeepsRecord ==
    ASSUME NEW n, Recorded(n), Due(n)' => Due(n) /\ Stands(n)
    PROVE  Recorded(n)'
BY StillJustified DEF Recorded

-----------------------------------------------------------------------------
(***************************************************************************)
(* Steps that move frames only                                             *)
(***************************************************************************)

\* What the values of running evaluations rest on.
Recalls(f, k) ==
    LET i == Body(shape, f.node, SubSeq(f.seen, 1, k - 1)) IN
    \/ i.op = "read" /\ Behind(f, i.of) /\ Outcome(i.of) = Just(f.seen[k])
    \/ i.op = "use" /\ Answers(i.of, f.seen[k])
\* A running evaluation has values of now; a validation is of nothing known stale.
Remembers(f) ==
    /\ f.mode = "run" => \A k \in 1..Len(f.seen) : Recalls(f, k)
    /\ f.mode = "check" => mark[f.node] # "dirty"

\* What is valid now is clean, and a box holds one reason.
NewClean == \A n \in Evaluated : validAt[n] = clock => mark[n] = "clean"
\* A box that holds an error holds nothing else.
Exact == \A n \in Evaluated : async[n].kind = "error" => async[n] = Failed(async[n].of)
\* Every frame of the stack remembers the reads of its run.
Remembered == \A i \in DOMAIN stack : Remembers(stack[i])

\* What a step leaves of the thenables: an answer stays, and who waits waits on.
Promising ==
    /\ \A t \in Thenables : status[t] \in {"fulfilled", "rejected"} => status'[t] = status[t] /\ result'[t] = result[t]
    /\ \A t \in Thenables : \A n \in Evaluated : mark'[n] # "dirty" /\ WaitsFor(n, t) => WaitsFor(n, t)'

\* The outcome of an evaluated node is what its cache and its throwable are.
LEMMA OutcomeStays ==
    ASSUME NEW n \in Evaluated, cache'[n] = cache[n], async'[n] = async[n]
    PROVE  Outcome(n)' = Outcome(n)
<1>1. n \notin Atoms
    BY KindsAssumption
<1>2. PICK a, c : a = async[n] /\ c = cache[n]
    OBVIOUS
<1>3. PICK o : o = CASE a.kind = "plain" -> [kind |-> "value", of |-> c]
                     [] a.kind = "error" -> a
                     [] a.kind = "suspended" -> [kind |-> "pending", of |-> None]
    OBVIOUS
<1>4. Outcome(n) = o
    BY <1>1, <1>2, <1>3, Zenon DEF Outcome
<1>5. Outcome(n)' = o
    BY <1>1, <1>2, <1>3, Zenon DEF Outcome
<1> QED BY <1>4, <1>5

\* A step that moves frames, and leaves nodes, edges and promises alone.
Calls ==
    /\ UNCHANGED <<shape, val, clock, nodes, status, result, parkedNodes>> /\ settling'.nodes = settling.nodes
    /\ Computing \subseteq Computing' /\ watched \subseteq watched' /\ watched' \ Computing' \subseteq watched
    /\ \A n \in Evaluated : \A d \in Members(deps[n]) : Confirming(stack', n, d) => Heeds(n, d)

\* A call that only moves frames takes no node's record.
LEMMA CallsRecord ==
    ASSUME Calls, NEW n \in Evaluated, n \in Computeds => n \notin Effects, Recorded(n)
    PROVE  Recorded(n)'
<1>1. UNCHANGED <<shape, val, clock, nodes, status, result, parkedNodes>> /\ settling'.nodes = settling.nodes
    BY DEF Calls
<1>2. UNCHANGED <<shape, val, clock, changedAt, validAt, mark, cache, async, deps, status, result, parkedNodes>>
    BY <1>1 DEF nodes
<1> SUFFICES ASSUME Due(n)' PROVE Due(n) /\ Stands(n)
    BY KeepsRecord
<1>3. n \notin Computing' /\ n \notin Computing /\ mark[n] # "dirty" /\ (n \in Computeds \/ n \in watched)
    BY <1>2 DEF Due, Calls
<1>4. \A d : Outcome(d)' = Outcome(d)
    BY <1>2 DEF Outcome
<1>5. IsFresh(n)' => IsFresh(n)
    BY <1>2, <1>3 DEF IsFresh, Watched, Calls
<1>6. ASSUME NEW d \in Members(deps[n]), Heeds(n, d)' PROVE Heeds(n, d)
    <2>1. Confirming(stack, n, d)' => Confirming(stack', n, d)
        BY <1>2 DEF Confirming, Behind
    <2>2. Confirming(stack', n, d) => Heeds(n, d)
        BY DEF Calls
    <2> QED BY <1>2, <1>5, <1>6, <2>1, <2>2 DEF Heeds
<1>7. \A t \in Thenables : WaitsFor(n, t) => WaitsFor(n, t)'
    BY <1>1, <1>2 DEF WaitsFor
<1>8. Stands(n)
    BY <1>2, <1>4, <1>6, <1>7 DEF Stands
<1> QED BY <1>3, <1>8 DEF Due

\* What running evaluations remember stays too, and so do the marks of time.
LEMMA CallsRemember ==
    ASSUME Calls, Remembered, NewClean, Exact,
           \A k \in DOMAIN stack' :
               \/ \E i \in DOMAIN stack : stack'[k] = stack[i]
               \/ stack'[k].mode = "run" /\ stack'[k].seen = <<>>
               \/ stack'[k].mode = "check" /\ mark[stack'[k].node] # "dirty"
    PROVE  Remembered' /\ NewClean' /\ Exact'
<1>1. UNCHANGED <<shape, val, clock, nodes, status, result, parkedNodes>>
    BY DEF Calls
<1>2. UNCHANGED <<shape, val, clock, changedAt, validAt, mark, cache, async, deps, status, result>>
    BY <1>1 DEF nodes
<1>3. NewClean' /\ Exact'
    BY <1>2 DEF NewClean, Exact
<1>4. \A d : Outcome(d)' = Outcome(d)
    BY <1>2 DEF Outcome
<1>5. ASSUME NEW f, Remembers(f) PROVE Remembers(f)'
    <2>1. ASSUME NEW k, Recalls(f, k) PROVE Recalls(f, k)'
        <3>1. \A d : Behind(f, d)' <=> Behind(f, d)
            BY <1>2 DEF Behind
        <3>2. \A d, v : Answers(d, v)' <=> Answers(d, v)
            BY <1>2 DEF Answers
        <3>3. PICK i : i = Body(shape, f.node, SubSeq(f.seen, 1, k - 1))
            OBVIOUS
        <3>4. Body(shape, f.node, SubSeq(f.seen, 1, k - 1))' = i
            BY <1>2, <3>3
        <3> QED BY <1>4, <2>1, <3>1, <3>2, <3>3, <3>4 DEF Recalls, Just
    <2> QED BY <1>2, <1>5, <2>1 DEF Remembers
<1>6. ASSUME NEW k \in DOMAIN stack' PROVE Remembers(stack[k])'
    <2>1. CASE \E i \in DOMAIN stack : stack'[k] = stack[i]
        <3>1. PICK i \in DOMAIN stack : stack'[k] = stack[i]
            BY <2>1
        <3>2. PICK f : f = stack[i]
            OBVIOUS
        <3>3. Remembers(f)
            BY <3>2 DEF Remembered
        <3>4. Remembers(f)'
            BY <1>5, <3>3
        <3>5. stack'[k] = f
            BY <3>1, <3>2
        <3> QED BY <3>4, <3>5 DEF Remembers, Recalls, Behind
    <2>2. CASE stack'[k].mode = "run" /\ stack'[k].seen = <<>>
        <3>1. PICK f : f = stack'[k]
            OBVIOUS
        <3>2. f.mode = "run" /\ f.seen = <<>>
            BY <2>2, <3>1
        <3> QED BY <3>1, <3>2 DEF Remembers
    <2>3. CASE stack'[k].mode = "check" /\ mark[stack'[k].node] # "dirty"
        BY <1>2, <2>3 DEF Remembers
    <2> QED BY <1>6, <2>1, <2>2, <2>3
<1> QED BY <1>3, <1>6 DEF Remembered

\* What a pull keeps true of records, beside the records themselves.
Valued == Remembered /\ NewClean /\ Exact

\* A step keeps the record of every node, of an effect if it hears.
KeepsRecords == \A n \in Evaluated : (n \in Computeds \/ Heard) /\ Recorded(n) => Recorded(n)'
\* A step keeps all of it.
KeepsValues == Valued' /\ KeepsRecords

\* The frames after a step: those of before, and g.
Joins(st, g) == \A k \in DOMAIN st : st[k] = g \/ \E i \in DOMAIN stack : st[k] = stack[i]

\* Pushing a frame adds that frame only.
LEMMA FramesPushed ==
    ASSUME NEW under \in Seq(Frames), UnderOf(under), NEW g \in Frames, NEW st, st = <<g>> \o under
    PROVE  Joins(st, g)
<1> SUFFICES ASSUME NEW k \in DOMAIN st
             PROVE  st[k] = g \/ \E i \in DOMAIN stack : st[k] = stack[i]
    BY DEF Joins
<1>1. DOMAIN under = 1..Len(under) /\ Len(under) \in Nat
    BY LenProperties
<1>2. <<g>> \in Seq(Frames) /\ Len(<<g>>) = 1 /\ <<g>>[1] = g
    OBVIOUS
<1>3. /\ st \in Seq(Frames) /\ Len(st) = 1 + Len(under)
      /\ \A j \in 1..(1 + Len(under)) : st[j] = IF j <= 1 THEN <<g>>[j] ELSE under[j-1]
    BY <1>1, <1>2, ConcatProperties
<1>4. DOMAIN st = 1..(1 + Len(under))
    BY <1>3, LenProperties
<1>5. st[k] = IF k <= 1 THEN <<g>>[k] ELSE under[k-1]
    BY <1>3, <1>4
<1>6. CASE k = 1
    BY <1>2, <1>5, <1>6
<1>7. CASE k # 1
    <2>1. k-1 \in DOMAIN under /\ ~(k <= 1)
        BY <1>1, <1>4, <1>7
    <2>2. PICK i \in Nat : \A j \in DOMAIN under : j + i \in DOMAIN stack /\ under[j] = stack[j+i]
        BY DEF UnderOf
    <2> QED BY <1>5, <2>1, <2>2
<1> QED BY <1>6, <1>7

\* Frames of before confirm what they confirmed, a new one nothing.
LEMMA JoinsConfirm ==
    ASSUME NEW st, NEW g, Joins(st, g), g.mode = "check" => g.pos = 0,
           NEW n, NEW d, Confirming(st, n, d)
    PROVE  Confirming(stack, n, d)
<1>1. PICK k \in DOMAIN st : st[k].mode = "check" /\ st[k].node = n /\ Behind(st[k], d)
    BY DEF Confirming
<1>2. PICK f : f = st[k]
    OBVIOUS
<1>3. f.mode = "check" /\ f.node = n /\ Behind(f, d)
    BY <1>1, <1>2
<1>4. f # g
    <2> SUFFICES ASSUME f = g PROVE FALSE
        OBVIOUS
    <2>1. 1..f.pos = {}
        BY <1>3
    <2> QED BY <1>3, <2>1 DEF Behind
<1>5. PICK i \in DOMAIN stack : f = stack[i]
    BY <1>2, <1>4 DEF Joins
<1> QED BY <1>3, <1>5 DEF Confirming

\* What a call leaves in place.
Calm == UNCHANGED <<shape, val, clock, nodes, watched, status, result, parkedNodes>> /\ settling'.nodes = settling.nodes

\* A call, or a step of a validation, with the frame g on top.
LEMMA PushValues ==
    ASSUME GraphInv, Valued, Calm,
           NEW under \in Seq(Frames), UnderOf(under), NEW g \in Frames,
           stack' = <<g>> \o under, Computing \subseteq Runs(under) \cup (IF g.mode = "run" THEN {g.node} ELSE {}),
           \/ g.mode = "run" /\ g.seen = <<>>
           \/ g.mode = "check" /\ mark[g.node] # "dirty"
              /\ \A d \in Members(deps[g.node]) : Behind(g, d) => Heeds(g.node, d)
    PROVE  KeepsValues
<1>1. UNCHANGED <<shape, val, clock, nodes, watched, status, result, parkedNodes>> /\ settling'.nodes = settling.nodes
    BY DEF Calm
<1>2. PICK st : st = <<g>> \o under
    OBVIOUS
<1>3. Joins(st, g)
    BY <1>2, FramesPushed
<1>4. stack' = st
    BY <1>2
<1>5. Computing \subseteq Computing'
    <2>1. Runs(under) \subseteq Runs(st) /\ (g.mode = "run" => g.node \in Runs(st))
        BY <1>2, RunsPushed
    <2>2. Computing' = Runs(st)
        BY <1>4 DEF Computing, Runs
    <2> QED BY <2>1, <2>2
<1>6. ASSUME NEW n \in Evaluated, NEW d \in Members(deps[n]), Confirming(st, n, d) PROVE Heeds(n, d)
    <2>1. PICK k \in DOMAIN st : st[k].mode = "check" /\ st[k].node = n /\ Behind(st[k], d)
        BY <1>6 DEF Confirming
    <2>2. PICK f : f = st[k]
        OBVIOUS
    <2>3. f.mode = "check" /\ f.node = n /\ Behind(f, d)
        BY <2>1, <2>2
    <2>4. CASE f = g
        BY <2>3, <2>4
    <2>5. ASSUME NEW i \in DOMAIN stack, f = stack[i] PROVE Heeds(n, d)
        BY <2>3, <2>5 DEF Confirming, Heeds
    <2> QED BY <1>3, <2>2, <2>4, <2>5 DEF Joins
<1>7. Calls
    <2>1. \A n \in Evaluated : \A d \in Members(deps[n]) : Confirming(stack', n, d) => Heeds(n, d)
        BY <1>4, <1>6
    <2> QED BY <1>1, <1>5, <2>1 DEF Calls
<1>8. Valued'
    <2>1. \A k \in DOMAIN st :
               \/ \E i \in DOMAIN stack : st[k] = stack[i]
               \/ st[k].mode = "run" /\ st[k].seen = <<>>
               \/ st[k].mode = "check" /\ mark[st[k].node] # "dirty"
        BY <1>3 DEF Joins
    <2>2. \A k \in DOMAIN stack' :
               \/ \E i \in DOMAIN stack : stack'[k] = stack[i]
               \/ stack'[k].mode = "run" /\ stack'[k].seen = <<>>
               \/ stack'[k].mode = "check" /\ mark[stack'[k].node] # "dirty"
        BY <1>4, <2>1
    <2>3. Remembered /\ NewClean /\ Exact
        BY DEF Valued
    <2> QED BY <1>7, <2>2, <2>3, CallsRemember DEF Valued
<1>9. KeepsRecords
    <2>1. \A n \in Evaluated : n \in Computeds => n \notin Effects
        BY KindsAssumption DEF Sinks
    <2> QED BY <1>7, <2>1, CallsRecord DEF KeepsRecords
<1> QED BY <1>8, <1>9 DEF KeepsValues

\* The frame of a call confirms nothing.
LEMMA EnteredValues ==
    ASSUME NEW d \in Evaluated, NEW g, g \in {Entered(d), Frame(d, "run")}
    PROVE  /\ g.node = d
           /\ \/ g.mode = "run" /\ g.seen = <<>>
              \/ g.mode = "check" /\ mark[g.node] # "dirty"
                 /\ \A c \in Members(deps[g.node]) : Behind(g, c) => Heeds(g.node, c)
<1>1. /\ g.node = d /\ g.seen = <<>> /\ g.pos = 0
      /\ g.mode \in {"run", "check"}
      /\ g.mode = "check" => mark[d] # "dirty"
    BY DEF Entered, Frame
<1>2. 1..g.pos = {}
    BY <1>1
<1>3. \A c : ~Behind(g, c)
    BY <1>2 DEF Behind
<1> QED BY <1>1, <1>3

\* The stack without its top frame evaluates nothing less if that one validates.
LEMMA ComputingTop ==
    ASSUME GraphInv, stack # <<>>, Top.mode = "check"
    PROVE  Computing = Runs(Below)
<1>1. Runs(stack) \subseteq Runs(Below)
    BY RunsTop
<1>2. Runs(Below) \subseteq Runs(stack)
    <2>1. Below \in Seq(Frames) /\ UnderOf(Below)
        BY UnderTop
    <2>2. PICK under : under = Below
        OBVIOUS
    <2>3. \A k \in DOMAIN under : \E i \in DOMAIN stack : under[k] = stack[i]
        BY <2>1, <2>2 DEF UnderOf
    <2>4. Runs(under) \subseteq Runs(stack)
        BY <2>3 DEF Runs
    <2> QED BY <2>2, <2>4
<1> QED BY <1>1, <1>2 DEF Computing, Runs

\* A body calls a computed that is not fresh.
LEMMA PullDependencyValues ==
    ASSUME GraphInv, Valued, PullDependency
    PROVE  KeepsValues
<1>d. PICK d : d = Instruction.of
    OBVIOUS
<1>g. PICK g : g = Entered(d)
    OBVIOUS
<1>s. PICK all : all = stack
    OBVIOUS
<1>1. d \in Computeds /\ stack' = <<g>> \o all
    BY <1>d, <1>g, <1>s DEF PullDependency, Push, NeedsPull
<1>2. Calm
    BY DEF PullDependency, Quiet, owners, boxes, Calm
<1>3. d \in Evaluated
    BY <1>1 DEF Evaluated
<1>4. all \in Seq(Frames) /\ UnderOf(all)
    BY <1>s, UnderAll
<1>5. g \in Frames
    BY <1>3, <1>g, EnteredFrame
<1>6. \/ g.mode = "run" /\ g.seen = <<>>
      \/ g.mode = "check" /\ mark[g.node] # "dirty"
         /\ \A c \in Members(deps[g.node]) : Behind(g, c) => Heeds(g.node, c)
    BY <1>3, <1>g, EnteredValues
<1>7. Computing \subseteq Runs(all)
    BY <1>s DEF Computing, Runs
<1> QED BY <1>1, <1>2, <1>4, <1>5, <1>6, <1>7, PushValues

-----------------------------------------------------------------------------
(***************************************************************************)
(* Steps that change one node                                              *)
(***************************************************************************)

\* What the validation on top and what is evaluated know before and after a step
\* of a pull that changes the outcome and the edges of t at most.
Evolves(t) ==
    /\ PullStep(t) /\ UNCHANGED <<shape, val>>
    /\ watched' \cap Effects \subseteq watched
    /\ \A n \in Evaluated \ {t} : async'[n] = async[n]
    /\ \A d \in Producers \ {t} : changedAt'[d] = changedAt[d]
    /\ \A e \in Effects \ {t} : validAt'[e] = validAt[e] /\ (mark'[e] = "clean" => mark[e] = "clean")
    /\ Computing \subseteq Computing' \cup {t}
    /\ \A k \in DOMAIN stack' : stack'[k].node = t \/ \E i \in DOMAIN stack : stack'[k] = stack[i]

\* It says nothing new of t, or t was not fresh and has changed now.
Tells(t) ==
    \/ Outcome(t)' = Outcome(t) /\ (t \in Producers => changedAt'[t] = changedAt[t])
    \/ t \notin FreshOnes /\ (t \in Producers => changedAt'[t] = clock)

\* No other outcome changes.
LEMMA OutcomeElsewhere ==
    ASSUME NEW t, Evolves(t), NEW d \in Producers, d # t
    PROVE  Outcome(d)' = Outcome(d)
<1>1. CASE d \in Atoms
    BY <1>1 DEF Outcome, Evolves
<1>2. CASE d \in Computeds
    <2>1. d \in Evaluated
        BY <1>2 DEF Evaluated
    <2>2. cache'[d] = cache[d] /\ async'[d] = async[d]
        BY <2>1 DEF Evolves, PullStep
    <2> QED BY <2>1, <2>2, OutcomeStays
<1> QED BY <1>1, <1>2 DEF Producers

\* The records of other nodes stand.
LEMMA OthersRecord ==
    ASSUME GraphInv, GraphInv', Validated, NewClean, NEW t \in Evaluated, Evolves(t), Tells(t), Promising,
           NEW n \in Evaluated, n # t, n \in Computeds \/ Heard, Recorded(n)
    PROVE  Recorded(n)'
<1> SUFFICES ASSUME Due(n)' PROVE Due(n) /\ Stands(n)
    BY KeepsRecord
<1>1. /\ clock' = clock /\ deps'[n] = deps[n] /\ cache'[n] = cache[n] /\ async'[n] = async[n]
      /\ mark[n] = "dirty" => mark'[n] = "dirty"
      /\ shape' = shape /\ val' = val
    BY DEF PullStep, Evolves
<1>2. n \in Computeds \/ (n \in Effects /\ Heard)
    BY DEF Evaluated
<1>3. n \notin Computing /\ mark'[n] # "dirty" /\ mark[n] # "dirty" /\ (n \in Computeds \/ n \in watched)
    BY <1>1, <1>2 DEF Due, Evolves
<1>4. Due(n)
    BY <1>3 DEF Due
<1>5. Outcome(n)' = Outcome(n)
    BY <1>1, OutcomeStays
<1>6. /\ \A th \in Thenables : status[th] \in {"fulfilled", "rejected"} => status'[th] = status[th] /\ result'[th] = result[th]
      /\ \A th \in Thenables : WaitsFor(n, th) => WaitsFor(n, th)'
    BY <1>3 DEF Promising
<1>7. IsFresh(n)' => IsFresh(n)
    <2>1. CASE n \in Computeds
        <3>1. IsFresh(n) <=> n \in FreshOnes
            BY <2>1 DEF IsFresh, FreshOnes, FreshIn, Watched
        <3>2. IsFresh(n)' <=> n \in FreshOnes'
            BY <2>1 DEF IsFresh, FreshOnes, FreshIn, Watched
        <3> QED BY <3>1, <3>2 DEF Evolves, PullStep
    <2>2. CASE n \in Effects
        <3>1. mark'[n] = "clean" => mark[n] = "clean"
            BY <2>2 DEF Evolves
        <3>2. n \notin Computeds
            BY <2>2, KindsAssumption DEF Sinks
        <3> QED BY <1>3, <3>1, <3>2 DEF IsFresh, Watched
    <2> QED BY <1>2, <2>1, <2>2
<1>8. IsFresh(n) => Members(deps[n]) \cap Computeds \subseteq FreshOnes
    <2>1. CASE n \in Computeds
        <3>1. IsFresh(n) <=> n \in FreshOnes
            BY <2>1 DEF IsFresh, FreshOnes, FreshIn, Watched
        <3> QED BY <3>1 DEF Validated, Supported, Supports
    <2>2. CASE n \in Effects /\ Heard
        <3>1. n \in watched
            BY <1>3, <2>2, KindsAssumption DEF Sinks
        <3> QED BY <2>2, <3>1 DEF IsFresh, Heard
    <2> QED BY <1>2, <2>1, <2>2
<1>9. ~IsFresh(n) => validAt'[n] <= validAt[n]
    <2>1. CASE n \in Computeds
        <3>1. IsFresh(n) <=> n \in FreshOnes
            BY <2>1 DEF IsFresh, FreshOnes, FreshIn, Watched
        <3> QED BY <2>1, <3>1 DEF Evolves, PullStep
    <2>2. CASE n \in Effects
        <3>1. validAt'[n] = validAt[n]
            BY <2>2 DEF Evolves
        <3>2. validAt[n] \in Nat
            BY DEF GraphInv, ClocksOK
        <3> QED BY <3>1, <3>2
    <2> QED BY <1>2, <2>1, <2>2
<1>10. /\ validAt[n] \in Nat /\ validAt'[n] \in Nat /\ clock \in Nat /\ validAt[n] <= clock
       /\ \A d \in Members(deps[n]) : d \in Producers /\ changedAt[d] \in Nat /\ changedAt'[d] \in Nat
    <2>1. \A d \in Members(deps[n]) : d \in Producers
        BY DEF GraphInv, NodesOK, Graphs, Members
    <2>2. validAt[n] \in 0..clock /\ validAt'[n] \in 0..clock' /\ clock \in Nat
        BY DEF GraphInv, ClocksOK
    <2>3. \A d \in Producers : changedAt[d] \in 0..clock /\ changedAt'[d] \in 0..clock'
        BY DEF GraphInv, ClocksOK
    <2> QED BY <1>1, <2>1, <2>2, <2>3
<1>11. ASSUME NEW d, Confirming(stack, n, d)' PROVE Confirming(stack, n, d)
    <2>1. PICK k \in DOMAIN stack' : stack'[k].mode = "check" /\ stack'[k].node = n /\ Behind(stack[k], d)'
        BY <1>11 DEF Confirming
    <2>2. PICK f : f = stack'[k]
        OBVIOUS
    <2>3. f.mode = "check" /\ f.node = n /\ Behind(f, d)'
        BY <2>1, <2>2 DEF Behind
    <2>4. Behind(f, d)
        BY <1>1, <2>3 DEF Behind
    <2>5. PICK i \in DOMAIN stack : f = stack[i]
        BY <2>2, <2>3 DEF Evolves
    <2> QED BY <2>3, <2>4, <2>5 DEF Confirming
<1>12. ASSUME NEW d \in Members(deps[n]), Heeds(n, d)', Outcome(d)' = Outcome(d), changedAt'[d] = changedAt[d]
       PROVE  Heeds(n, d) /\ Outcome(d)' = Outcome(d)
    <2>1. CASE IsFresh(n)
        BY <1>12, <2>1 DEF Heeds
    <2>2. CASE ~IsFresh(n)
        <3>1. changedAt'[d] <= validAt'[n] => changedAt[d] <= validAt[n]
            BY <1>9, <1>10, <1>12, <2>2
        <3> QED BY <1>7, <1>11, <1>12, <2>2, <3>1 DEF Heeds
    <2> QED BY <2>1, <2>2
<1>13. ASSUME NEW d \in Members(deps[n]), d # t PROVE Outcome(d)' = Outcome(d) /\ changedAt'[d] = changedAt[d]
    <2>1. d \in Producers
        BY <1>10
    <2> QED BY <1>13, <2>1, OutcomeElsewhere DEF Evolves
<1>14. ASSUME t \in Members(deps[n]), Heeds(n, t)', t \notin FreshOnes, t \in Producers => changedAt'[t] = clock PROVE FALSE
    <2>1. t \in Producers /\ t \in Computeds
        BY <1>10, <1>14, KindsAssumption DEF Producers
    <2>2. ~IsFresh(n) /\ ~IsFresh(n)'
        BY <1>7, <1>8, <1>14, <2>1
    <2>3. ~Confirming(stack, n, t)
        <3> SUFFICES ASSUME NEW i \in DOMAIN stack, stack[i].mode = "check", stack[i].node = n, Behind(stack[i], t)
                     PROVE  FALSE
            BY DEF Confirming
        <3>1. PICK f : f = stack[i]
            OBVIOUS
        <3>2. Passed(f)
            BY <3>1 DEF Validated, FramesSound, Sound
        <3> QED BY <1>14, <2>1, <3>1, <3>2 DEF Passed, Behind
    <2>4. ~Confirming(stack, n, t)'
        BY <1>11, <2>3
    <2>5. changedAt'[t] <= validAt'[n]
        BY <1>14, <2>2, <2>4 DEF Heeds
    <2>6. clock <= validAt'[n]
        BY <1>14, <2>1, <2>5
    <2>7. validAt[n] = clock
        BY <1>9, <1>10, <2>2, <2>6
    <2>8. mark[n] = "clean"
        BY <2>7 DEF NewClean
    <2> QED BY <2>2, <2>7, <2>8 DEF IsFresh
<1>15. ASSUME NEW d \in Members(deps[n]), Heeds(n, d)' PROVE Heeds(n, d) /\ Outcome(d)' = Outcome(d)
    <2>1. CASE d # t
        BY <1>12, <1>13, <1>15, <2>1
    <2>2. CASE d = t
        <3>1. d \in Producers
            BY <1>10
        <3>2. CASE Outcome(t)' = Outcome(t) /\ changedAt'[t] = changedAt[t]
            BY <1>12, <1>15, <2>2, <3>2
        <3>3. CASE t \notin FreshOnes /\ (t \in Producers => changedAt'[t] = clock)
            <4>1. t \in Members(deps[n]) /\ Heeds(n, t)'
                BY <1>15, <2>2
            <4> QED BY <1>14, <3>3, <4>1
        <3> QED BY <2>2, <3>1, <3>2, <3>3 DEF Tells
    <2> QED BY <2>1, <2>2
<1>16. Stands(n)
    BY <1>1, <1>5, <1>6, <1>15 DEF Stands
<1> QED BY <1>4, <1>16

\* So does what the frames of other nodes remember.
LEMMA OthersRemember ==
    ASSUME GraphInv, Validated, Remembered, NEW t, Evolves(t), Promising,
           Outcome(t)' = Outcome(t) \/ t \notin FreshOnes,
           \A m \in Evaluated : mark'[m] = "dirty" => mark[m] = "dirty",
           NEW i \in DOMAIN stack, NEW f, f = stack[i], f.mode = "run" => f.node # t
    PROVE  Remembers(f)'
<1>1. f \in Frames /\ f.node \in Evaluated
    <2>1. f \in Frames
        BY ElementOfSeq, LenProperties DEF GraphInv, StackOK
    <2> QED BY <2>1 DEF Frames
<1>2. Remembers(f)
    BY DEF Remembered
<1>3. shape' = shape
    BY DEF Evolves
<1>4. ASSUME f.mode = "run", NEW k \in 1..Len(f.seen) PROVE Recalls(f, k)'
    <2>1. Recalls(f, k)
        BY <1>2, <1>4 DEF Remembers
    <2>2. PICK j : j = Body(shape, f.node, SubSeq(f.seen, 1, k - 1))
        OBVIOUS
    <2>3. Body(shape, f.node, SubSeq(f.seen, 1, k - 1))' = j
        BY <1>3, <2>2
    <2>4. deps'[f.node] = deps[f.node]
        BY <1>1, <1>4 DEF Evolves, PullStep
    <2>5. CASE j.op = "read" /\ Behind(f, j.of) /\ Outcome(j.of) = Just(f.seen[k])
        <3>1. Behind(f, j.of)'
            BY <2>4, <2>5 DEF Behind
        <3>2. j.of \in Producers
            BY <1>1, <2>5, LenProperties, ElementOfSeq DEF Behind, GraphInv, NodesOK, Graphs, Frames
        <3>3. j.of \in Computeds => j.of \in FreshOnes
            <4>1. Passed(f)
                BY DEF Validated, FramesSound, Sound
            <4> QED BY <2>5, <4>1 DEF Behind, Passed
        <3>4. Outcome(j.of)' = Outcome(j.of)
            <4>1. CASE j.of # t
                BY <3>2, <4>1, OutcomeElsewhere
            <4>2. CASE j.of = t /\ j.of \in Computeds
                BY <3>3, <4>2
            <4>3. CASE j.of \in Atoms
                BY <4>3 DEF Outcome, Evolves
            <4> QED BY <3>2, <4>1, <4>2, <4>3 DEF Producers
        <3> QED BY <2>3, <2>5, <3>1, <3>4 DEF Recalls, Just
    <2>6. CASE j.op = "use" /\ Answers(j.of, f.seen[k])
        <3>1. Answers(j.of, f.seen[k])'
            BY <2>6 DEF Answers, Promising
        <3> QED BY <2>3, <2>6, <3>1 DEF Recalls
    <2> QED BY <2>1, <2>2, <2>5, <2>6 DEF Recalls
<1>5. f.mode = "check" => mark'[f.node] # "dirty"
    BY <1>1, <1>2 DEF Remembers
<1> QED BY <1>4, <1>5 DEF Remembers

\* The frames under the top one.
LEMMA BelowFrames == ASSUME GraphInv, stack # <<>> PROVE \A k \in DOMAIN Below : \E i \in DOMAIN stack : Below[k] = stack[i]
<1>1. Below \in Seq(Frames) /\ UnderOf(Below)
    BY UnderTop
<1>2. PICK under : under = Below
    OBVIOUS
<1>3. \A k \in DOMAIN under : \E i \in DOMAIN stack : under[k] = stack[i]
    BY <1>1, <1>2 DEF UnderOf
<1> QED BY <1>2, <1>3

\* Everything is confirmed: the record of the node stands for now.
LEMMA ConfirmedValues ==
    ASSUME GraphInv, GraphInv', Validated, Valued, stack # <<>>, Top.mode = "check", Top.pos = Len(deps[Top.node]),
           mark' = [mark EXCEPT ![Top.node] = "clean"], validAt' = [validAt EXCEPT ![Top.node] = clock],
           stack' = Below,
           UNCHANGED <<shape, val, clock, changedAt, cache, async, deps, watched, status, result, parkedNodes, settling>>
    PROVE  KeepsValues
<1>f. PICK f : f = Top
    OBVIOUS
<1>n. PICK t : t = f.node
    OBVIOUS
<1>1. f \in Frames /\ f = stack[1] /\ 1 \in DOMAIN stack /\ f.mode = "check" /\ f.pos = Len(deps[t])
    BY <1>f, <1>n, StackTop, UnderTop DEF GraphInv
<1>2. t \in Evaluated
    BY <1>1, <1>n DEF Frames
<1>3. mark' = [mark EXCEPT ![t] = "clean"] /\ validAt' = [validAt EXCEPT ![t] = clock]
    BY <1>f, <1>n
<1>4. /\ mark'[t] = "clean" /\ validAt'[t] = clock
      /\ \A m \in Evaluated \ {t} : mark'[m] = mark[m] /\ validAt'[m] = validAt[m]
      /\ deps[t] \in Seq(Producers) /\ DOMAIN deps[t] = 1..Len(deps[t]) /\ Len(deps[t]) \in Nat
    <2>1. mark \in [Evaluated -> Marks] /\ validAt \in [Evaluated -> 0..clock] /\ deps[t] \in Seq(Producers)
        BY <1>2 DEF GraphInv, NodesOK, ClocksOK, Graphs
    <2> QED BY <1>2, <1>3, <2>1, LenProperties
<1>5. Computing' = Computing
    <2>1. Computing = Runs(Below)
        BY ComputingTop
    <2> QED BY <2>1 DEF Computing, Runs
<1>6. \A k \in DOMAIN stack' : \E i \in DOMAIN stack : stack'[k] = stack[i]
    BY BelowFrames
<1>7. Outcome(t)' = Outcome(t)
    BY <1>2, OutcomeStays
<1>8. Evolves(t)
    <2>1. PullStep(t)
        BY <1>2, <1>3, Confirms
    <2>2. \A e \in Effects : e \in Evaluated
        BY DEF Evaluated
    <2> QED BY <1>4, <1>5, <1>6, <2>1, <2>2 DEF Evolves
<1>9. Tells(t)
    BY <1>7 DEF Tells
<1>10. Promising
    BY DEF Promising, WaitsFor
<1>11. ASSUME Recorded(t) PROVE Recorded(t)'
    <2> SUFFICES ASSUME Due(t)' PROVE Due(t) /\ Stands(t)
        BY <1>11, KeepsRecord
    <2>1. mark[t] # "dirty"
        BY <1>1, <1>n DEF Valued, Remembered, Remembers
    <2>2. Due(t)
        BY <1>5, <2>1 DEF Due
    <2>3. ASSUME NEW d \in Members(deps[t]) PROVE Heeds(t, d) /\ Outcome(d)' = Outcome(d)
        <3>1. PICK k \in 1..Len(deps[t]) : deps[t][k] = d
            BY <1>4 DEF Members
        <3>2. Behind(f, d)
            BY <1>1, <1>4, <1>n, <3>1 DEF Behind
        <3>3. Confirming(stack, t, d)
            BY <1>1, <1>n, <3>2 DEF Confirming
        <3>4. d \in Producers
            BY <1>4, <3>1, ElementOfSeq
        <3>5. Outcome(d)' = Outcome(d)
            BY <1>7, <1>8, <3>4, OutcomeElsewhere
        <3> QED BY <3>3, <3>5 DEF Heeds
    <2>4. Stands(t)
        BY <1>7, <1>10, <2>1, <2>3, <1>2, <1>4 DEF Stands, Promising
    <2> QED BY <2>2, <2>4
<1>12. KeepsRecords
    <2> SUFFICES ASSUME NEW n \in Evaluated, n \in Computeds \/ Heard, Recorded(n) PROVE Recorded(n)'
        BY DEF KeepsRecords
    <2>1. CASE n = t
        BY <1>11, <2>1
    <2>2. CASE n # t
        BY <1>2, <1>8, <1>9, <1>10, <2>2, OthersRecord DEF Valued
    <2> QED BY <2>1, <2>2
<1>13. Remembered'
    <2> SUFFICES ASSUME NEW k \in DOMAIN stack' PROVE Remembers(stack[k])'
        BY DEF Remembered
    <2>1. PICK i \in DOMAIN stack : stack'[k] = stack[i]
        BY <1>6
    <2>2. PICK g : g = stack[i]
        OBVIOUS
    <2>3. Remembers(g)'
        <3>1. Remembered
            BY DEF Valued
        <3>2. \A m \in Evaluated : mark'[m] = "dirty" => mark[m] = "dirty"
            BY <1>4
        <3>3. CASE g.mode = "run" => g.node # t
            BY <1>7, <1>8, <1>10, <2>2, <3>1, <3>2, <3>3, OthersRemember
        <3>4. CASE g.mode = "run" /\ g.node = t
            <4>1. Remembers(g)
                BY <2>2, <3>1 DEF Remembered
            <4>2. ASSUME NEW j \in 1..Len(g.seen) PROVE Recalls(g, j)'
                <5>1. Recalls(g, j)
                    BY <3>4, <4>1 DEF Remembers
                <5>2. \A d : Behind(g, d)' <=> Behind(g, d)
                    BY DEF Behind
                <5>3. \A d : Outcome(d)' = Outcome(d)
                    BY DEF Outcome
                <5>4. \A d, v : Answers(d, v)' <=> Answers(d, v)
                    BY DEF Answers
                <5>5. PICK b : b = Body(shape, g.node, SubSeq(g.seen, 1, j - 1))
                    OBVIOUS
                <5>6. Body(shape, g.node, SubSeq(g.seen, 1, j - 1))' = b
                    BY <5>5
                <5> QED BY <5>1, <5>2, <5>3, <5>4, <5>5, <5>6 DEF Recalls, Just
            <4> QED BY <3>4, <4>2 DEF Remembers
        <3> QED BY <3>3, <3>4
    <2> QED BY <2>1, <2>2, <2>3 DEF Remembers, Recalls, Behind
<1>14. NewClean' /\ Exact'
    BY <1>4 DEF Valued, NewClean, Exact
<1> QED BY <1>12, <1>13, <1>14 DEF KeepsValues, Valued

\* A step of a validation.
LEMMA CheckStepValues ==
    ASSUME GraphInv, GraphInv', Validated, Valued, CheckStep
    PROVE  KeepsValues
<1>f. PICK f : f = Top
    OBVIOUS
<1>n. PICK n : n = f.node
    OBVIOUS
<1>d. PICK d : d = deps[n][f.pos + 1]
    OBVIOUS
<1>u. PICK under : under = Below
    OBVIOUS
<1>s. PICK all : all = stack
    OBVIOUS
<1>1. /\ stack # <<>> /\ f.mode = "check"
      /\ UNCHANGED <<shape, val, clock, changedAt, cache, async, deps, watched, status, result, parkedNodes, settling>>
      /\ \/ /\ f.pos = Len(deps[n])
            /\ mark' = [mark EXCEPT ![n] = "clean"] /\ validAt' = [validAt EXCEPT ![n] = clock]
            /\ stack' = under
         \/ /\ f.pos < Len(deps[n]) /\ UNCHANGED <<mark, validAt>>
            /\ \/ NeedsPull(d) /\ stack' = <<Entered(d)>> \o all
               \/ changedAt[d] > validAt[n] /\ stack' = <<Frame(n, "run")>> \o under
               \/ /\ ~NeedsPull(d) /\ changedAt[d] <= validAt[n]
                  /\ stack' = <<[f EXCEPT !.pos = @ + 1]>> \o under
    BY <1>f, <1>n, <1>d, <1>u, <1>s DEF CheckStep, Push, owners, boxes
<1>2. f \in Frames /\ under \in Seq(Frames) /\ UnderOf(under) /\ f = stack[1] /\ 1 \in DOMAIN stack
    BY <1>1, <1>f, <1>u, StackTop, UnderTop DEF GraphInv
<1>3. n \in Evaluated /\ f.pos \in Nat
    BY <1>2, <1>n DEF Frames
<1>4. Computing = Runs(under) /\ Computing = Runs(all)
    BY <1>1, <1>f, <1>u, <1>s, ComputingTop DEF Computing, Runs
<1>5. mark[n] # "dirty"
    BY <1>1, <1>2, <1>n DEF Valued, Remembered, Remembers
<1>6. CASE f.pos = Len(deps[n]) /\ mark' = [mark EXCEPT ![n] = "clean"]
           /\ validAt' = [validAt EXCEPT ![n] = clock] /\ stack' = under
    BY <1>1, <1>6, <1>f, <1>n, <1>u, ConfirmedValues
<1>c. ASSUME UNCHANGED <<mark, validAt>> PROVE Calm
    BY <1>1, <1>c DEF Calm, nodes
<1>7. CASE UNCHANGED <<mark, validAt>> /\ NeedsPull(d) /\ stack' = <<Entered(d)>> \o all
    <2>1. PICK g : g = Entered(d)
        OBVIOUS
    <2>2. d \in Evaluated
        BY <1>7 DEF NeedsPull, Evaluated
    <2>3. g \in Frames
        BY <2>1, <2>2, EnteredFrame
    <2>4. \/ g.mode = "run" /\ g.seen = <<>>
          \/ g.mode = "check" /\ mark[g.node] # "dirty"
             /\ \A c \in Members(deps[g.node]) : Behind(g, c) => Heeds(g.node, c)
        BY <2>1, <2>2, EnteredValues
    <2>5. all \in Seq(Frames) /\ UnderOf(all)
        BY <1>s, UnderAll
    <2> QED BY <1>4, <1>7, <1>c, <2>1, <2>3, <2>4, <2>5, PushValues
<1>8. CASE UNCHANGED <<mark, validAt>> /\ stack' = <<Frame(n, "run")>> \o under
    <2>1. PICK g : g = Frame(n, "run")
        OBVIOUS
    <2>2. g \in Frames /\ g.mode = "run" /\ g.seen = <<>>
        BY <1>3, <2>1, EnteredFrame DEF Frame
    <2> QED BY <1>2, <1>4, <1>8, <1>c, <2>1, <2>2, PushValues
<1>9. CASE UNCHANGED <<mark, validAt>> /\ changedAt[d] <= validAt[n] /\ stack' = <<[f EXCEPT !.pos = @ + 1]>> \o under
    <2>1. PICK g : g = [f EXCEPT !.pos = @ + 1]
        OBVIOUS
    <2>2. g \in Frames /\ g.node = n /\ g.mode = "check" /\ g.pos = f.pos + 1
        <3>1. f \in Frames
            BY <1>2
        <3>2. f.mode = "check"
            BY <1>1
        <3> QED BY <1>n, <2>1, <3>1, <3>2 DEF Frames
    <2>3. ASSUME NEW c \in Members(deps[n]), Behind(g, c) PROVE Heeds(n, c)
        <3>1. PICK k \in 1..g.pos : k <= Len(deps[n]) /\ deps[n][k] = c
            BY <2>2, <2>3 DEF Behind
        <3>2. CASE k \in 1..f.pos
            <4>1. Behind(f, c)
                BY <1>n, <3>1, <3>2 DEF Behind
            <4> QED BY <1>1, <1>2, <1>n, <4>1 DEF Heeds, Confirming
        <3>3. CASE k = f.pos + 1
            BY <1>9, <1>d, <3>1, <3>3 DEF Heeds
        <3> QED BY <1>3, <2>2, <3>1, <3>2, <3>3
    <2>4. stack' = <<g>> \o under
        BY <1>9, <2>1
    <2>5. g.mode = "check" /\ mark[g.node] # "dirty" /\ \A c \in Members(deps[g.node]) : Behind(g, c) => Heeds(g.node, c)
        BY <1>5, <2>2, <2>3
    <2>6. g \in Frames /\ Calm
        BY <1>9, <1>c, <2>2
    <2> QED BY <1>2, <1>4, <2>4, <2>5, <2>6, PushValues
<1> QED BY <1>1, <1>6, <1>7, <1>8, <1>9

-----------------------------------------------------------------------------
(***************************************************************************)
(* An edge is read: promotion and demotion                                 *)
(***************************************************************************)

\* What a sequence begins with.
LEMMA Prefixes ==
    ASSUME NEW V, NEW s \in Seq(V), NEW v \in V
    PROVE  /\ SubSeq(s, 1, Len(s)) = s
           /\ \A k \in 1..Len(s)+1 : SubSeq(Append(s, v), 1, k-1) = SubSeq(s, 1, k-1)
           /\ \A k \in 1..Len(s) : Append(s, v)[k] = s[k]
           /\ Append(s, v)[Len(s)+1] = v /\ Len(Append(s, v)) = Len(s) + 1
<1>1. /\ Len(s) \in Nat /\ Append(s, v) \in Seq(V) /\ Len(Append(s, v)) = Len(s) + 1
      /\ Append(s, v)[Len(s)+1] = v /\ \A k \in 1..Len(s) : Append(s, v)[k] = s[k]
    BY AppendProperties, LenProperties
<1>2. SubSeq(s, 1, Len(s)) = s
    BY <1>1
<1>3. ASSUME NEW k \in 1..Len(s)+1 PROVE SubSeq(Append(s, v), 1, k-1) = SubSeq(s, 1, k-1)
    <2>1. PICK t : t = Append(s, v)
        OBVIOUS
    <2>2. k-1 \in 0..Len(s) /\ \A j \in 1..k-1 : t[j] = s[j]
        BY <1>1, <2>1
    <2>3. SubSeq(t, 1, k-1) = [j \in 1..k-1 |-> t[j]] /\ SubSeq(s, 1, k-1) = [j \in 1..k-1 |-> s[j]]
        BY <1>1, <2>1, <2>2
    <2> QED BY <2>1, <2>2, <2>3
<1> QED BY <1>1, <1>2, <1>3

\* The node t, which is evaluated, gets the edges of list, and marks mk and
\* watermarks va of its own.
Relinks(t, list, mk, va) ==
    /\ t \in Evaluated /\ t \in Computing /\ PullStep(t) /\ list \in Seq(Producers)
    /\ mk \in [Evaluated -> Marks] /\ va \in [Evaluated -> 0..clock]
    /\ \A n \in Evaluated \ {t} : mk[n] = mark[n] /\ va[n] = validAt[n]
    /\ va[t] = clock => mk[t] = "clean"
    /\ Relink([deps EXCEPT ![t] = list], life, target, mk, va)

\* What that leaves of effects and marks.
Relinked(t, mk) ==
    /\ watched' \cap Effects \subseteq watched
    /\ \A e \in Effects \ {t} : validAt'[e] = validAt[e] /\ (mark'[e] = "clean" => mark[e] = "clean")
    /\ \A n \in Evaluated : mark'[n] = "dirty" => mk[n] = "dirty"
    /\ NewClean'

\* Relinking the dependencies of t keeps the record of every other node.
LEMMA RelinkValues ==
    ASSUME GraphInv, Supported, NewClean, NEW t, NEW list, NEW mk, NEW va, Relinks(t, list, mk, va)
    PROVE  Relinked(t, mk)
<1>r. /\ t \in Evaluated /\ t \in Computing /\ PullStep(t) /\ list \in Seq(Producers)
      /\ mk \in [Evaluated -> Marks] /\ va \in [Evaluated -> 0..clock]
      /\ \A n \in Evaluated \ {t} : mk[n] = mark[n] /\ va[n] = validAt[n]
      /\ va[t] = clock => mk[t] = "clean"
      /\ Relink([deps EXCEPT ![t] = list], life, target, mk, va)
    BY DEF Relinks
<1>d. PICK ds : ds = [deps EXCEPT ![t] = list]
    OBVIOUS
<1>1. /\ mark' = Promoted(ds, mk) /\ validAt' = Demoted(mk, va) /\ Relink(ds, life, target, mk, va)
    BY <1>d, <1>r DEF Relink
<1>2. ds \in Graphs /\ target \in [Watchers -> Producers \cup {None}] /\ OwnersOK /\ ClocksOK /\ clock \in Nat \ {0}
    BY <1>d, <1>r DEF GraphInv, NodesOK, OwnersOK, Graphs, ClocksOK
<1>3. /\ \A n \in Evaluated : mark'[n] = "clean" => mk[n] = "clean"
      /\ watched' \cap Effects \subseteq Alive(life)
    BY <1>1, <1>2, <1>r, RelinkKeeps
<1>4. watched' \cap Effects \subseteq watched
    BY <1>3 DEF Supported, WatchedOK, Roots
<1>5. \A e \in Effects : e \in Evaluated /\ e \notin Computeds
    BY KindsAssumption DEF Evaluated, Sinks
<1>6. \A e \in Effects \ {t} : validAt'[e] = validAt[e] /\ (mark'[e] = "clean" => mark[e] = "clean")
    BY <1>1, <1>3, <1>5, <1>r DEF Demoted
<1>7. \A n \in Evaluated : mark'[n] \in {mk[n], "check"} /\ (mark'[n] # mk[n] => n \in Gained \ Computing)
    BY <1>1, <1>r, PromotedOnly
<1>8. NewClean'
    <2> SUFFICES ASSUME NEW n \in Evaluated, validAt'[n] = clock PROVE mark'[n] = "clean"
        BY <1>r DEF NewClean, PullStep
    <2>1. validAt'[n] = IF n \in (watched \ watched') \cap Computeds
                        THEN IF mk[n] = "clean" THEN clock ELSE 0 ELSE va[n]
        BY <1>1 DEF Demoted
    <2>2. CASE n \in (watched \ watched') \cap Computeds
        <3>1. mk[n] = "clean"
            BY <1>2, <2>1, <2>2
        <3>2. n \notin Gained
            BY <2>2 DEF Gained
        <3> QED BY <1>7, <3>1, <3>2
    <2>3. CASE n \notin (watched \ watched') \cap Computeds /\ n = t
        BY <1>7, <1>r, <2>1, <2>3
    <2>4. CASE n \notin (watched \ watched') \cap Computeds /\ n # t
        <3>1. validAt[n] = clock /\ mk[n] = mark[n]
            BY <1>r, <2>1, <2>4
        <3>2. mark[n] = "clean"
            BY <3>1 DEF NewClean
        <3>3. CASE n \in Computeds
            <4>1. n \in FreshOnes
                BY <3>1, <3>2, <3>3 DEF FreshOnes, FreshIn
            <4> QED BY <1>r, <4>1 DEF PullStep, FreshOnes, FreshIn
        <3>4. CASE n \notin Computeds
            BY <1>7, <3>1, <3>2, <3>4 DEF Gained
        <3> QED BY <3>3, <3>4
    <2> QED BY <2>2, <2>3, <2>4
<1> QED BY <1>4, <1>6, <1>7, <1>8 DEF Relinked

\* A list with d among those read.
Holds(at, d) == \E k \in 1..at.pos : k <= Len(at.list) /\ at.list[k] = d

\* What the body on top has asked for is answered by v.
Answered(at, v) ==
    \/ Instruction.op = "read" /\ Holds(at, Instruction.of) /\ Outcome(Instruction.of) = Just(v)
    \/ Instruction.op = "use" /\ Answers(Instruction.of, v)

\* The body sees one more value.
LEMMA ContinueValues ==
    ASSUME GraphInv, GraphInv', Validated, Valued, Steady, stack # <<>>, Top.mode = "run",
           NEW at, Advances(Top, at), NEW v \in Values, Continue(Top, at, v),
           \A d : Behind(Top, d) => Holds(at, d), Answered(at, v)
    PROVE  KeepsValues
<1>f. PICK f : f = Top
    OBVIOUS
<1>t. PICK t : t = f.node
    OBVIOUS
<1>l. PICK list : list = at.list
    OBVIOUS
<1>g. PICK g : g = [f EXCEPT !.pos = at.pos, !.seen = Append(@, v)]
    OBVIOUS
<1>u. PICK under : under = Below
    OBVIOUS
<1>1. f \in Frames /\ RunFree(under, t) /\ f.mode = "run"
    BY <1>f, <1>u, <1>t, StackTop DEF GraphInv
<1>2. t \in Evaluated /\ f.pos \in Nat /\ f.seen \in Seq(Values)
    BY <1>1, <1>t DEF Frames
<1>3. under \in Seq(Frames) /\ UnderOf(under) /\ f = stack[1] /\ 1 \in DOMAIN stack
    BY <1>f, <1>u, UnderTop
<1>4. /\ Relink([deps EXCEPT ![t] = list], life, target, mark, validAt)
      /\ stack' = <<g>> \o under
      /\ UNCHANGED <<changedAt, cache, async, status, result, parkedNodes>>
      /\ UNCHANGED <<shape, val, clock, settling>>
    BY <1>u, <1>f, <1>t, <1>l, <1>g DEF Continue, boxes, Steady
<1>5. PullStep(t)
    <2>1. clock' = clock
        BY <1>4
    <2> QED BY <1>f, <1>t, <2>1, ContinueSound
<1>6. /\ list \in Seq(Producers) /\ mark \in [Evaluated -> Marks] /\ validAt \in [Evaluated -> 0..clock]
      /\ at.pos \in Nat /\ deps \in Graphs
    BY <1>l DEF Advances, Spot, GraphInv, NodesOK, ClocksOK
<1>7. t \in Computing
    BY <1>1, <1>3, <1>t DEF Computing
<1>8. /\ watched' \cap Effects \subseteq watched
      /\ \A e \in Effects \ {t} : validAt'[e] = validAt[e] /\ (mark'[e] = "clean" => mark[e] = "clean")
      /\ \A n \in Evaluated : mark'[n] = "dirty" => mark[n] = "dirty"
      /\ NewClean'
    <2>1. PICK mk, va : mk = mark /\ va = validAt
        OBVIOUS
    <2>2. Relinks(t, list, mk, va)
        BY <1>2, <1>4, <1>5, <1>6, <1>7, <2>1 DEF Relinks, Valued, NewClean
    <2>3. NewClean /\ Supported
        BY DEF Valued, Validated
    <2>4. Relinked(t, mk)
        BY <2>2, <2>3, RelinkValues
    <2> QED BY <2>1, <2>4 DEF Relinked
<1>9. g \in Frames /\ g.node = t /\ g.mode = "run" /\ g.pos = at.pos /\ g.seen = Append(f.seen, v)
    <2>1. Append(f.seen, v) \in Seq(Values)
        BY <1>2, AppendProperties
    <2>2. f \in Frames /\ at.pos \in Nat
        BY <1>1, <1>6
    <2>3. f.mode = "run" /\ f.node = t
        BY <1>1, <1>t
    <2>4. g.node = f.node /\ g.mode = f.mode /\ g.pos = at.pos /\ g.seen = Append(f.seen, v)
        BY <1>g, <2>2 DEF Frames
    <2>5. g \in Frames
        BY <1>g, <2>1, <2>2 DEF Frames
    <2> QED BY <2>3, <2>4, <2>5
<1>10. PICK st : st = <<g>> \o under
    OBVIOUS
<1>11. Joins(st, g) /\ stack' = st
    BY <1>3, <1>4, <1>9, <1>10, FramesPushed
<1>12. Runs(stack) \subseteq Runs(st)
    <2>1. Runs(stack) \subseteq Runs(under) \cup {t}
        BY <1>f, <1>t, <1>u, RunsTop
    <2>2. Runs(under) \subseteq Runs(st) /\ t \in Runs(st)
        BY <1>3, <1>9, <1>10, RunsPushed
    <2> QED BY <2>1, <2>2
<1>13. Evolves(t)
    <2>1. Computing \subseteq Computing'
        BY <1>11, <1>12 DEF Computing, Runs
    <2>2. \A k \in DOMAIN stack' : stack'[k].node = t \/ \E i \in DOMAIN stack : stack'[k] = stack[i]
        BY <1>9, <1>11 DEF Joins
    <2> QED BY <1>4, <1>5, <1>8, <2>1, <2>2 DEF Evolves
<1>14. Promising
    BY <1>4 DEF Promising, WaitsFor
<1>15. \A d : Outcome(d)' = Outcome(d)
    BY <1>4 DEF Outcome
<1>16. Tells(t)
    BY <1>4, <1>15 DEF Tells
<1>17. t \in Computing'
    BY <1>7, <1>11, <1>12 DEF Computing, Runs
<1>18. KeepsRecords
    <2> SUFFICES ASSUME NEW n \in Evaluated, n \in Computeds \/ Heard, Recorded(n) PROVE Recorded(n)'
        BY DEF KeepsRecords
    <2>1. CASE n = t
        BY <1>17, <2>1 DEF Recorded, Due
    <2>2. CASE n # t
        BY <1>2, <1>13, <1>14, <1>16, <2>2, OthersRecord DEF Valued
    <2> QED BY <2>1, <2>2
<1>19. Remembers(g)'
    <2>1. deps'[t] = list
        BY <1>2, <1>4, <1>6 DEF Relink, Graphs
    <2>2. \A d : Holds(at, d) => Behind(g, d)'
        BY <1>9, <1>l, <2>1 DEF Holds, Behind
    <2>3. Remembers(f)
        BY <1>3 DEF Valued, Remembered
    <2>4. ASSUME NEW k \in 1..Len(f.seen) PROVE Recalls(g, k)'
        <3>1. Recalls(f, k)
            BY <1>1, <2>3, <2>4 DEF Remembers
        <3>2. SubSeq(g.seen, 1, k-1) = SubSeq(f.seen, 1, k-1) /\ g.seen[k] = f.seen[k]
            BY <1>2, <1>9, Prefixes
        <3>3. PICK b : b = Body(shape, f.node, SubSeq(f.seen, 1, k - 1))
            OBVIOUS
        <3>4. Body(shape, g.node, SubSeq(g.seen, 1, k - 1))' = b
            BY <1>4, <1>9, <1>t, <3>2, <3>3
        <3>5. CASE b.op = "read" /\ Behind(f, b.of) /\ Outcome(b.of) = Just(f.seen[k])
            <4>1. Behind(g, b.of)'
                BY <1>f, <2>2, <3>5
            <4> QED BY <1>15, <3>2, <3>4, <3>5, <4>1 DEF Recalls, Just
        <3>6. CASE b.op = "use" /\ Answers(b.of, f.seen[k])
            BY <1>4, <3>2, <3>4, <3>6 DEF Recalls, Answers
        <3> QED BY <3>1, <3>3, <3>5, <3>6 DEF Recalls
    <2>5. Recalls(g, Len(f.seen) + 1)'
        <3>1. PICK k : k = Len(f.seen) + 1
            OBVIOUS
        <3>2. k \in 1..Len(f.seen)+1 /\ k - 1 = Len(f.seen)
            <4>1. Len(f.seen) \in Nat
                BY <1>2, LenProperties
            <4> QED BY <3>1, <4>1
        <3>3. SubSeq(g.seen, 1, k-1) = f.seen /\ g.seen[k] = v
            BY <1>2, <1>9, <3>1, <3>2, Prefixes
        <3>4. PICK b : b = Instruction
            OBVIOUS
        <3>5. Body(shape, g.node, SubSeq(g.seen, 1, k - 1))' = b
            BY <1>4, <1>9, <1>f, <1>t, <3>3, <3>4 DEF Instruction
        <3>6. CASE b.op = "read" /\ Holds(at, b.of) /\ Outcome(b.of) = Just(v)
            <4>1. Behind(g, b.of)'
                BY <2>2, <3>6
            <4> QED BY <1>15, <3>1, <3>3, <3>5, <3>6, <4>1 DEF Recalls, Just
        <3>7. CASE b.op = "use" /\ Answers(b.of, v)
            BY <1>4, <3>1, <3>3, <3>5, <3>7 DEF Recalls, Answers
        <3> QED BY <3>4, <3>6, <3>7 DEF Answered
    <2>6. Len(g.seen) = Len(f.seen) + 1 /\ Len(f.seen) \in Nat
        BY <1>2, <1>9, Prefixes, LenProperties
    <2> QED BY <1>9, <2>4, <2>5, <2>6 DEF Remembers
<1>20. Remembered'
    <2> SUFFICES ASSUME NEW k \in DOMAIN stack' PROVE Remembers(stack[k])'
        BY DEF Remembered
    <2>1. PICK h : h = stack'[k]
        OBVIOUS
    <2>2. Remembers(h)'
        <3>1. CASE h = g
            BY <1>19, <3>1
        <3>2. CASE h # g
            <4>1. PICK i \in DOMAIN under : h = under[i]
                <5>1. k \in DOMAIN st /\ h = st[k]
                    BY <1>11, <2>1
                <5>2. Len(under) \in Nat /\ DOMAIN under = 1..Len(under)
                    BY <1>3, LenProperties
                <5>3. /\ <<g>> \in Seq(Frames) /\ Len(<<g>>) = 1 /\ <<g>>[1] = g
                    BY <1>9
                <5>4. /\ st \in Seq(Frames) /\ Len(st) = 1 + Len(under)
                      /\ \A j \in 1..(1 + Len(under)) : st[j] = IF j <= 1 THEN <<g>>[j] ELSE under[j-1]
                    BY <1>3, <1>10, <5>2, <5>3, ConcatProperties
                <5>5. DOMAIN st = 1..(1 + Len(under))
                    BY <5>4, LenProperties
                <5>6. k # 1
                    BY <3>2, <5>1, <5>2, <5>3, <5>4
                <5>7. k-1 \in DOMAIN under /\ h = under[k-1]
                    BY <5>1, <5>2, <5>4, <5>5, <5>6
                <5> QED BY <5>7
            <4>2. h.mode = "run" => h.node # t
                BY <1>1, <4>1 DEF RunFree
            <4>3. PICK j \in DOMAIN stack : h = stack[j]
                BY <1>3, <4>1 DEF UnderOf
            <4>4. Remembered
                BY DEF Valued
            <4>5. Outcome(t)' = Outcome(t)
                BY <1>15
            <4> QED BY <1>8, <1>13, <1>14, <4>2, <4>3, <4>4, <4>5, OthersRemember
        <3> QED BY <3>1, <3>2
    <2> QED BY <2>1, <2>2 DEF Remembers, Recalls, Behind
<1>21. Exact'
    BY <1>4 DEF Valued, Exact
<1> QED BY <1>8, <1>18, <1>20, <1>21 DEF KeepsValues, Valued

\* What a frame has read before stays among what it has read.
LEMMA UntouchedHolds == ASSUME NEW f, NEW d, Behind(f, d) PROVE Holds(Untouched(f), d)
BY DEF Behind, Holds, Untouched

\* A frame that tracks a read of c holds c, and what it held before.
LEMMA TrackedHolds ==
    ASSUME deps \in Graphs, NEW f \in Frames, f.pos <= Len(deps[f.node]), NEW c \in Producers
    PROVE  Holds(Tracked(f, c), c) /\ \A d : Behind(f, d) => Holds(Tracked(f, c), d)
<1>l. PICK list : list = deps[f.node]
    OBVIOUS
<1>p. PICK p : p = f.pos
    OBVIOUS
<1>h. PICK front : front = SubSeq(list, 1, p)
    OBVIOUS
<1>1. list \in Seq(Producers) /\ p \in Nat /\ Len(list) \in Nat /\ p <= Len(list) /\ DOMAIN list = 1..Len(list)
    BY <1>l, <1>p DEF Graphs, Frames
<1>2. front \in Seq(Producers) /\ Len(front) = p /\ \A k \in 1..p : front[k] = list[k]
    <2>1. /\ front \in Seq(Producers) /\ Len(front) = IF 1 <= p THEN p - 1 + 1 ELSE 0
          /\ \A k \in 1..p-1+1 : front[k] = list[1+k-1]
        <3>1. \A k \in 1..p : list[k] \in Producers
            BY <1>1
        <3> QED BY <1>1, <1>h, <3>1, SubSeqProperties
    <2>2. (IF 1 <= p THEN p - 1 + 1 ELSE 0) = p /\ p - 1 + 1 = p /\ \A k \in 1..p : 1+k-1 = k
        BY <1>1
    <2> QED BY <2>1, <2>2
<1>3. \A d : Behind(f, d) => \E k \in 1..p : list[k] = d
    BY <1>l, <1>p DEF Behind
<1>4. CASE c \in Members(front)
    <2>1. Tracked(f, c) = [list |-> list, pos |-> p]
        BY <1>4, <1>h, <1>l, <1>p DEF Tracked
    <2>2. PICK at : at = Tracked(f, c)
        OBVIOUS
    <2>3. at.list = list /\ at.pos = p
        BY <2>1, <2>2
    <2>4. \A d : (\E k \in 1..p : list[k] = d) => Holds(at, d)
        BY <1>1, <2>3 DEF Holds
    <2>5. \E k \in 1..p : list[k] = c
        <3>1. DOMAIN front = 1..p
            BY <1>2, LenProperties
        <3> QED BY <1>2, <1>4, <3>1 DEF Members
    <2> QED BY <1>3, <2>2, <2>4, <2>5
<1>5. CASE c \notin Members(front) /\ p < Len(list) /\ list[p + 1] = c
    <2>1. Tracked(f, c) = [list |-> list, pos |-> p + 1]
        BY <1>5, <1>h, <1>l, <1>p DEF Tracked
    <2>2. PICK at : at = Tracked(f, c)
        OBVIOUS
    <2>3. at.list = list /\ at.pos = p + 1
        BY <2>1, <2>2
    <2>4. \A d : (\E k \in 1..p+1 : list[k] = d) => Holds(at, d)
        BY <1>1, <1>5, <2>3 DEF Holds
    <2>5. 1..p \subseteq 1..p+1 /\ p + 1 \in 1..p+1
        BY <1>1
    <2> QED BY <1>3, <1>5, <2>2, <2>4, <2>5
<1>6. CASE c \notin Members(front) /\ ~(p < Len(list) /\ list[p + 1] = c)
    <2>0. PICK rest : rest = SubSeq(list, p + 1, Len(list))
        OBVIOUS
    <2>n. PICK new : new = front \o <<c>> \o rest
        OBVIOUS
    <2>1. Tracked(f, c) = [list |-> new, pos |-> p + 1]
        <3>1. Tracked(f, c) = [list |-> SubSeq(list, 1, p) \o <<c>> \o SubSeq(list, p + 1, Len(list)), pos |-> p + 1]
            BY <1>6, <1>h, <1>l, <1>p, Zenon DEF Tracked
        <3> QED BY <1>h, <2>0, <2>n, <3>1
    <2>2. PICK at : at = Tracked(f, c)
        OBVIOUS
    <2>3. at.list = new /\ at.pos = p + 1
        BY <2>1, <2>2
    <2>4. rest \in Seq(Producers) /\ Len(rest) \in Nat
        <3>1. p + 1 \in Int /\ Len(list) \in Int /\ \A i \in p + 1 .. Len(list) : list[i] \in Producers
            BY <1>1
        <3> QED BY <1>1, <2>0, <3>1, SubSeqProperties, LenProperties
    <2>5. PICK head : head = front \o <<c>>
        OBVIOUS
    <2>6. /\ head \in Seq(Producers) /\ Len(head) = p + 1
          /\ \A k \in 1..p : head[k] = list[k]
          /\ head[p + 1] = c
        <3>0. PICK one : one = <<c>>
            OBVIOUS
        <3>1. one \in Seq(Producers) /\ Len(one) = 1 /\ one[1] = c
            BY <3>0
        <3>2. /\ head \in Seq(Producers) /\ Len(head) = p + 1
              /\ \A k \in 1..p+1 : head[k] = IF k <= p THEN front[k] ELSE one[k - p]
            BY <1>1, <1>2, <2>5, <3>0, <3>1, ConcatProperties
        <3>3. p + 1 - p = 1 /\ ~(p + 1 <= p) /\ p + 1 \in 1..p+1 /\ \A k \in 1..p : k \in 1..p+1 /\ k <= p
            BY <1>1
        <3>4. head[p + 1] = c
            <4>1. PICK q : q = p + 1
                OBVIOUS
            <4>2. q \in 1..q /\ ~(q <= p) /\ q - p = 1
                BY <1>1, <4>1
            <4>3. head[q] = IF q <= p THEN front[q] ELSE one[q - p]
                BY <3>2, <4>1, <4>2
            <4> QED BY <3>1, <4>1, <4>2, <4>3
        <3>5. \A k \in 1..p : head[k] = front[k]
            BY <3>2, <3>3
        <3> QED BY <1>2, <3>2, <3>4, <3>5
    <2>7. /\ Len(new) = p + 1 + Len(rest)
          /\ \A k \in 1..p+1 : new[k] = head[k]
        <3>1. /\ new \in Seq(Producers) /\ Len(new) = p + 1 + Len(rest)
              /\ \A k \in 1..p+1+Len(rest) : new[k] = IF k <= p + 1 THEN head[k] ELSE rest[k - (p + 1)]
            <4>1. new = head \o rest
                BY <2>5, <2>n
            <4>2. PICK q : q = p + 1
                OBVIOUS
            <4>3. head \in Seq(Producers) /\ Len(head) = q
                BY <2>6, <4>2
            <4>4. /\ new \in Seq(Producers) /\ Len(new) = q + Len(rest)
                  /\ \A k \in 1..q+Len(rest) : new[k] = IF k <= q THEN head[k] ELSE rest[k - q]
                BY <2>4, <4>1, <4>3, ConcatProperties
            <4> QED BY <4>2, <4>4
        <3>2. \A k \in 1..p+1 : k \in 1..p+1+Len(rest) /\ k <= p + 1
            BY <1>1, <2>4
        <3> QED BY <3>1, <3>2
    <2>8. \A k \in 1..p+1 : k <= Len(new)
        BY <1>1, <2>4, <2>7
    <2>9. \A d : (\E k \in 1..p+1 : head[k] = d) => Holds(at, d)
        BY <2>3, <2>7, <2>8 DEF Holds
    <2>10. 1..p \subseteq 1..p+1 /\ p + 1 \in 1..p+1
        BY <1>1
    <2>11. Holds(at, c)
        BY <2>6, <2>9, <2>10
    <2>12. ASSUME NEW d, Behind(f, d) PROVE Holds(at, d)
        <3>1. PICK k \in 1..p : list[k] = d
            BY <1>3, <2>12
        <3> QED BY <2>6, <2>9, <2>10, <3>1
    <2> QED BY <2>2, <2>11, <2>12
<1> QED BY <1>4, <1>5, <1>6

-----------------------------------------------------------------------------
(***************************************************************************)
(* An evaluation ends                                                      *)
(***************************************************************************)

\* At the instruction i the body of t ends with the outcome o, which t has from
\* now on.
Ending(at, t, i, o) ==
    \/ i.op = "done" /\ o = Just(i.of)
    \/ i.op = "throw" /\ o = Failed(i.of)
    \/ i.op = "read" /\ i.of \in FreshOnes /\ Holds(at, i.of) /\ o.kind # "value" /\ Outcome(i.of) = o
    \/ i.op = "use" /\ i.of \in Thenables /\ status'[i.of] = "rejected" /\ o = Failed(Rejection)
    \/ i.op = "use" /\ WaitsFor(t, i.of)' /\ o = Wait

\* The front of a list.
LEMMA Fronts ==
    ASSUME NEW list \in Seq(Producers), NEW p \in Nat, p <= Len(list)
    PROVE  /\ SubSeq(list, 1, p) \in Seq(Producers) /\ DOMAIN SubSeq(list, 1, p) = 1..p
           /\ \A k \in 1..p : SubSeq(list, 1, p)[k] = list[k]
<1>h. PICK front : front = SubSeq(list, 1, p)
    OBVIOUS
<1>1. Len(list) \in Nat /\ DOMAIN list = 1..Len(list)
    BY LenProperties
<1>2. front \in Seq(Producers) /\ Len(front) = p /\ \A k \in 1..p : front[k] = list[k]
    <2>1. /\ front \in Seq(Producers) /\ Len(front) = IF 1 <= p THEN p - 1 + 1 ELSE 0
          /\ \A k \in 1..p-1+1 : front[k] = list[1+k-1]
        <3>1. \A k \in 1..p : list[k] \in Producers
            BY <1>1
        <3> QED BY <1>1, <1>h, <3>1, SubSeqProperties
    <2>2. (IF 1 <= p THEN p - 1 + 1 ELSE 0) = p /\ p - 1 + 1 = p /\ \A k \in 1..p : 1+k-1 = k
        OBVIOUS
    <2> QED BY <2>1, <2>2
<1>3. DOMAIN front = 1..p
    BY <1>2, LenProperties
<1> QED BY <1>2, <1>3, <1>h

\* The reads up to the cursor are the members of the front of the list.
LEMMA FrontHolds ==
    ASSUME NEW at, Spot(at), NEW front, front = SubSeq(at.list, 1, at.pos)
    PROVE  front \in Seq(Producers) /\ \A d : Holds(at, d) => d \in Members(front)
<1>l. PICK list : list = at.list
    OBVIOUS
<1>p. PICK p : p = at.pos
    OBVIOUS
<1>1. list \in Seq(Producers) /\ p \in Nat /\ p <= Len(list) /\ front = SubSeq(list, 1, p)
    BY <1>l, <1>p DEF Spot
<1>2. front \in Seq(Producers) /\ DOMAIN front = 1..p /\ \A k \in 1..p : front[k] = list[k]
    BY <1>1, Fronts
<1>4. ASSUME NEW d, Holds(at, d) PROVE d \in Members(front)
    <2>1. PICK k \in 1..p : list[k] = d
        BY <1>4, <1>l, <1>p DEF Holds
    <2> QED BY <1>2, <2>1 DEF Members
<1> QED BY <1>2, <1>4

\* The nodes and frames after an evaluation that ended.
LEMMA FinishEvolves ==
    ASSUME GraphInv, GraphInv', Validated, Valued, Steady, stack # <<>>, Top.mode = "run", NEW at, Advances(Top, at),
           NEW value, NEW outcome, NEW changed, Finish(Top, at, Below, value, outcome, changed)
    PROVE  /\ Evolves(Top.node) /\ Relinked(Top.node, [mark EXCEPT ![Top.node] = "clean"])
           /\ Top.node \notin FreshOnes
           /\ (Top.node \in Effects /\ life[Top.node] = "disposed") \/ deps'[Top.node] = SubSeq(at.list, 1, at.pos)
<1>f. PICK f : f = Top
    OBVIOUS
<1>t. PICK t : t = f.node
    OBVIOUS
<1>u. PICK under : under = Below
    OBVIOUS
<1>k. PICK kept : kept = IF t \in Effects /\ life[t] = "disposed" THEN <<>> ELSE SubSeq(at.list, 1, at.pos)
    OBVIOUS
<1>m. PICK mk : mk = [mark EXCEPT ![t] = "clean"]
    OBVIOUS
<1>v. PICK va : va = [validAt EXCEPT ![t] = clock]
    OBVIOUS
<1>1. f \in Frames /\ f.mode = "run" /\ f = stack[1] /\ 1 \in DOMAIN stack
    BY <1>f, StackTop, UnderTop DEF GraphInv
<1>2. t \in Evaluated
    BY <1>1, <1>t DEF Frames
<1>3. /\ Relink([deps EXCEPT ![t] = kept], life, target, mk, va)
      /\ cache' = [cache EXCEPT ![t] = value] /\ stack' = under /\ async' = [async EXCEPT ![t] = outcome]
      /\ changedAt' = [d \in Producers |-> IF d = t /\ changed THEN clock ELSE changedAt[d]]
    BY <1>f, <1>t, <1>u, <1>k, <1>m, <1>v DEF Finish
<1>4. PullStep(t)
    <2>1. Concludes(Top, at, Below)
        BY Zenon DEF Concludes
    <2> QED BY <1>f, <1>t, <2>1, TopEnds
<1>5. /\ mark \in [Evaluated -> Marks] /\ validAt \in [Evaluated -> 0..clock] /\ clock \in Nat /\ deps \in Graphs
      /\ changedAt \in [Producers -> 0..clock]
    BY DEF GraphInv, NodesOK, ClocksOK
<1>6. kept \in Seq(Producers)
    <2>1. SubSeq(at.list, 1, at.pos) \in Seq(Producers)
        BY FrontHolds DEF Advances
    <2> QED BY <1>k, <2>1
<1>7. t \in Computing
    BY <1>1, <1>t DEF Computing
<1>8. Relinked(t, mk)
    <2>1. mk \in [Evaluated -> Marks] /\ va \in [Evaluated -> 0..clock] /\ mk[t] = "clean"
          /\ \A n \in Evaluated \ {t} : mk[n] = mark[n] /\ va[n] = validAt[n]
        BY <1>2, <1>5, <1>m, <1>v DEF Marks
    <2>2. Relinks(t, kept, mk, va)
        BY <1>2, <1>3, <1>4, <1>6, <1>7, <2>1 DEF Relinks
    <2>3. NewClean /\ Supported
        BY DEF Valued, Validated
    <2> QED BY <2>2, <2>3, RelinkValues
<1>9. t \notin FreshOnes
    <2>1. Owed(f)
        BY <1>1 DEF Validated, FramesSound, Sound
    <2> QED BY <1>1, <1>t, <2>1, RunNotFresh
<1>10. Computing \subseteq Computing' \cup {t}
    <2>1. Runs(stack) \subseteq Runs(under) \cup {t}
        BY <1>f, <1>t, <1>u, RunsTop
    <2> QED BY <1>3, <2>1 DEF Computing, Runs
<1>11. \A k \in DOMAIN stack' : \E i \in DOMAIN stack : stack'[k] = stack[i]
    BY <1>3, <1>u, BelowFrames
<1>12. \A n \in Evaluated \ {t} : async'[n] = async[n]
    BY <1>3 DEF GraphInv, NodesOK, AsyncOK
<1>13. \A d \in Producers \ {t} : changedAt'[d] = changedAt[d]
    BY <1>3
<1>14. UNCHANGED <<shape, val>>
    BY DEF Steady
<1>15. Evolves(t)
    BY <1>4, <1>8, <1>10, <1>11, <1>12, <1>13, <1>14 DEF Evolves, Relinked
<1>16. deps'[t] = kept
    BY <1>2, <1>3, <1>5 DEF Relink, Graphs
<1> QED BY <1>8, <1>9, <1>15, <1>16, <1>f, <1>t, <1>k, <1>m

\* What a running evaluation reads behind its cursor keeps its outcome.
LEMMA EndedStays ==
    ASSUME GraphInv, NEW t, Evolves(t), t \in Evaluated, t \notin FreshOnes, NEW at, Spot(at),
           \A k \in 1..at.pos : at.list[k] \in Computeds => at.list[k] \in FreshOnes,
           NEW d, Holds(at, d)
    PROVE  Outcome(d)' = Outcome(d)
<1>1. PICK k \in 1..at.pos : k <= Len(at.list) /\ at.list[k] = d
    BY DEF Holds
<1>2. d \in Producers
    BY <1>1, LenProperties, ElementOfSeq DEF Spot
<1>3. d # t
    BY <1>1, <1>2, KindsAssumption DEF Producers
<1> QED BY <1>2, <1>3, OutcomeElsewhere

\* Its run is the record of its node.
LEMMA EndedRecord ==
    ASSUME GraphInv, GraphInv', Validated, Valued, Steady, stack # <<>>, Top.mode = "run", NEW at, Advances(Top, at),
           Evolves(Top.node), Top.node \notin FreshOnes, Promising,
           (Top.node \in Effects /\ life[Top.node] = "disposed") \/ deps'[Top.node] = SubSeq(at.list, 1, at.pos),
           life' = life, \A d : Behind(Top, d) => Holds(at, d),
           NEW t, t = Top.node, NEW b, b = Instruction, NEW o, Outcome(t)' = o,
           Ending(at, t, b, o)
    PROVE  Recorded(t)'
<1>f. PICK f : f = Top
    OBVIOUS
<1>t. t = f.node
    BY <1>f
<1>1. f \in Frames /\ f.mode = "run" /\ f = stack[1] /\ 1 \in DOMAIN stack
    BY <1>f, StackTop, UnderTop DEF GraphInv
<1>2. t \in Evaluated /\ f.seen \in Seq(Values) /\ Len(f.seen) \in Nat
    BY <1>1, <1>t, LenProperties DEF Frames
<1>3. shape' = shape /\ Spot(at) /\ \A k \in 1..at.pos : at.list[k] \in Computeds => at.list[k] \in FreshOnes
    BY DEF Steady, Advances
<1>4. Evolves(t) /\ t \notin FreshOnes /\ Outcome(t)' = o
    BY <1>f, <1>t
<1>5. \A d : Holds(at, d) => Outcome(d)' = Outcome(d)
    <2> SUFFICES ASSUME NEW d, Holds(at, d) PROVE Outcome(d)' = Outcome(d)
        OBVIOUS
    <2> QED BY <1>2, <1>3, <1>4, EndedStays
<1> SUFFICES ASSUME Due(t)' PROVE Justified(t)'
    BY <1>f, <1>t DEF Recorded
<1>6. deps'[t] = SubSeq(at.list, 1, at.pos)
    <2>1. CASE t \in Effects /\ life[t] = "disposed"
        <3>1. t \notin Alive(life')
            BY <2>1 DEF Alive
        <3>2. t \notin watched'
            BY <2>1, <3>1 DEF GraphInv, OwnersOK, FlagsOK
        <3>3. t \notin Computeds
            BY <2>1, KindsAssumption DEF Sinks
        <3> QED BY <3>2, <3>3 DEF Due
    <2> QED BY <1>f, <1>t, <2>1
<1>7. \A d : Holds(at, d) => d \in Members(deps'[t])
    <2>1. PICK front : front = SubSeq(at.list, 1, at.pos)
        OBVIOUS
    <2> QED BY <1>3, <1>6, <2>1, FrontHolds
<1>8. ASSUME NEW k \in 1..Len(f.seen) PROVE Retraces(t, f.seen, k)'
    <2>1. Recalls(f, k)
        <3>1. Remembers(f)
            BY <1>1 DEF Valued, Remembered
        <3> QED BY <1>1, <1>8, <3>1 DEF Remembers
    <2>2. PICK c : c = Body(shape, t, SubSeq(f.seen, 1, k - 1))
        OBVIOUS
    <2>3. Body(shape, t, SubSeq(f.seen, 1, k - 1))' = c
        BY <1>3, <2>2
    <2>4. CASE c.op = "read" /\ Behind(f, c.of) /\ Outcome(c.of) = Just(f.seen[k])
        <3>1. Holds(at, c.of)
            BY <1>f, <2>4
        <3>2. Outcome(c.of)' = Just(f.seen[k])
            BY <1>5, <2>4, <3>1
        <3>3. c.of \in Members(deps'[t])
            BY <1>7, <3>1
        <3> QED BY <2>3, <2>4, <3>2, <3>3 DEF Retraces, Just
    <2>5. CASE c.op = "use" /\ Answers(c.of, f.seen[k])
        <3>1. Answers(c.of, f.seen[k])'
            BY <2>5 DEF Answers, Promising
        <3> QED BY <2>3, <2>5, <3>1 DEF Retraces
    <2> QED BY <1>t, <2>1, <2>2, <2>4, <2>5 DEF Recalls
<1>9. Concluded(t, f.seen)'
    <2>2. Body(shape, t, f.seen)' = b
        BY <1>3, <1>f, <1>t DEF Instruction
    <2>3. CASE b.op = "done" /\ o = Just(b.of)
        BY <1>4, <2>2, <2>3 DEF Concluded, Just
    <2>4. CASE b.op = "throw" /\ o = Failed(b.of)
        BY <1>4, <2>2, <2>4 DEF Concluded, Failed
    <2>5. CASE b.op = "read" /\ b.of \in FreshOnes /\ Holds(at, b.of) /\ o.kind # "value" /\ Outcome(b.of) = o
        <3>1. Outcome(b.of)' = o /\ b.of \in Members(deps'[t]) /\ b.of \in Computeds
            BY <1>5, <1>7, <2>5 DEF FreshOnes, FreshIn
        <3> QED BY <1>4, <2>2, <2>5, <3>1 DEF Concluded
    <2>6. CASE b.op = "use" /\ b.of \in Thenables /\ status'[b.of] = "rejected" /\ o = Failed(Rejection)
        BY <1>4, <2>2, <2>6 DEF Concluded, Failed
    <2>7. CASE b.op = "use" /\ WaitsFor(t, b.of)' /\ o = Wait
        BY <1>4, <2>2, <2>7 DEF Concluded, Wait
    <2>8. \/ b.op = "done" /\ o = Just(b.of)
          \/ b.op = "throw" /\ o = Failed(b.of)
          \/ b.op = "read" /\ b.of \in FreshOnes /\ Holds(at, b.of) /\ o.kind # "value" /\ Outcome(b.of) = o
          \/ b.op = "use" /\ b.of \in Thenables /\ status'[b.of] = "rejected" /\ o = Failed(Rejection)
          \/ b.op = "use" /\ WaitsFor(t, b.of)' /\ o = Wait
        BY DEF Ending
    <2> QED BY <2>3, <2>4, <2>5, <2>6, <2>7, <2>8
<1> QED BY <1>2, <1>8, <1>9 DEF Justified

\* What a node serves, by the kind of its throwable.
Serves(a, c) == CASE a.kind = "plain" -> [kind |-> "value", of |-> c]
                  [] a.kind = "error" -> a
                  [] a.kind = "suspended" -> [kind |-> "pending", of |-> None]
\* The outcome of an evaluated node, by the kind of its box.
LEMMA OutcomeKinds ==
    ASSUME NEW n \in Evaluated
    PROVE  /\ async[n] = Plain => Outcome(n) = Just(cache[n])
           /\ async[n].kind = "plain" => Outcome(n) = Just(cache[n])
           /\ async[n].kind = "error" => Outcome(n) = async[n]
           /\ async[n].kind = "suspended" => Outcome(n) = Wait
           /\ async'[n] = Plain => Outcome(n)' = Just(cache'[n])
           /\ async'[n].kind = "error" => Outcome(n)' = async'[n]
           /\ async'[n].kind = "suspended" => Outcome(n)' = Wait
<1>1. n \notin Atoms
    BY KindsAssumption
<1>2. PICK a, c : a = async[n] /\ c = cache[n]
    OBVIOUS
<1>3. PICK o : o = Serves(a, c)
    OBVIOUS
<1>4. Outcome(n) = o
    BY <1>1, <1>2, <1>3, Zenon DEF Outcome, Serves
<1>5. PICK x, y : x = async'[n] /\ y = cache'[n]
    OBVIOUS
<1>6. PICK z : z = Serves(x, y)
    OBVIOUS
<1>7. Outcome(n)' = z
    BY <1>1, <1>5, <1>6, Zenon DEF Outcome, Serves
<1>8. ASSUME NEW A, NEW C PROVE /\ A.kind = "plain" => Serves(A, C) = Just(C)
                                /\ A.kind = "error" => Serves(A, C) = A
                                /\ A.kind = "suspended" => Serves(A, C) = Wait
    <2>1. "plain" # "error" /\ "plain" # "suspended" /\ "error" # "suspended"
        OBVIOUS
    <2>2. ASSUME A.kind = "plain" PROVE Serves(A, C) = Just(C)
        BY <2>1, <2>2 DEF Serves, Just
    <2>3. ASSUME A.kind = "error" PROVE Serves(A, C) = A
        BY <2>1, <2>3 DEF Serves
    <2>4. ASSUME A.kind = "suspended" PROVE Serves(A, C) = Wait
        BY <2>1, <2>4 DEF Serves, Wait
    <2> QED BY <2>2, <2>3, <2>4
<1>9. Plain.kind = "plain"
    BY DEF Plain
<1> QED BY <1>2, <1>3, <1>4, <1>5, <1>6, <1>7, <1>8, <1>9

\* An evaluation ends: what it gave is recorded, the other records stand.
LEMMA FinishValues ==
    ASSUME GraphInv, GraphInv', Validated, Valued, Steady, stack # <<>>, Top.mode = "run", NEW at, Advances(Top, at),
           Promising, \A d : Behind(Top, d) => Holds(at, d),
           NEW t, t = Top.node, NEW b, b = Instruction, NEW value, NEW outcome, NEW changed,
           Finish(Top, at, Below, value, outcome, changed), changed \/ (value = cache[t] /\ outcome = async[t]),
           outcome.kind = "error" => outcome = Failed(outcome.of),
           NEW o, Outcome(t)' = o, Ending(at, t, b, o)
    PROVE  KeepsValues
<1>1. /\ Evolves(t) /\ Relinked(t, [mark EXCEPT ![t] = "clean"]) /\ t \notin FreshOnes
      /\ (t \in Effects /\ life[t] = "disposed") \/ deps'[t] = SubSeq(at.list, 1, at.pos)
    BY FinishEvolves
<1>2. /\ cache' = [cache EXCEPT ![t] = value] /\ async' = [async EXCEPT ![t] = outcome] /\ life' = life
      /\ changedAt' = [d \in Producers |-> IF d = t /\ changed THEN clock ELSE changedAt[d]]
      /\ stack' = Below
    BY DEF Finish, Relink
<1>3. t \in Evaluated
    BY StackTop DEF GraphInv, Frames
<1>4. Recorded(t)'
    BY <1>1, <1>2, EndedRecord
<1>5. Tells(t)
    <2>1. CASE changed
        BY <1>1, <1>2, <2>1 DEF Tells
    <2>2. CASE ~changed /\ value = cache[t] /\ outcome = async[t]
        <3>1. cache'[t] = cache[t] /\ async'[t] = async[t]
            BY <1>2, <1>3, <2>2 DEF GraphInv, NodesOK, AsyncOK
        <3>2. Outcome(t)' = Outcome(t)
            BY <1>3, <3>1, OutcomeStays
        <3>3. t \in Producers => changedAt'[t] = changedAt[t]
            BY <1>2, <2>2
        <3> QED BY <3>2, <3>3 DEF Tells
    <2> QED BY <2>1, <2>2
<1>6. KeepsRecords
    <2> SUFFICES ASSUME NEW n \in Evaluated, n \in Computeds \/ Heard, Recorded(n) PROVE Recorded(n)'
        BY DEF KeepsRecords
    <2>1. CASE n = t
        BY <1>4, <2>1 DEF Recorded
    <2>2. CASE n # t
        BY <1>1, <1>3, <1>5, <2>2, OthersRecord DEF Valued
    <2> QED BY <2>1, <2>2
<1>7. Remembered'
    <2> SUFFICES ASSUME NEW k \in DOMAIN stack' PROVE Remembers(stack[k])'
        BY DEF Remembered
    <2>u. PICK under : under = Below
        OBVIOUS
    <2>1. /\ k \in DOMAIN under /\ stack'[k] = under[k] /\ RunFree(under, t)
          /\ \E i \in DOMAIN stack : under[k] = stack[i]
        BY <1>2, <2>u, BelowFrames, StackTop DEF GraphInv
    <2>2. PICK g : g = under[k]
        OBVIOUS
    <2>3. g.mode = "run" => g.node # t
        BY <2>1, <2>2 DEF RunFree
    <2>4. PICK i \in DOMAIN stack : g = stack[i]
        BY <2>1, <2>2
    <2>5. Remembered
        BY DEF Valued
    <2>6. \A m \in Evaluated : mark'[m] = "dirty" => mark[m] = "dirty"
        <3> SUFFICES ASSUME NEW m \in Evaluated, mark'[m] = "dirty" PROVE mark[m] = "dirty"
            OBVIOUS
        <3>1. [mark EXCEPT ![t] = "clean"][m] = "dirty"
            BY <1>1 DEF Relinked
        <3>2. mark \in [Evaluated -> Marks]
            BY DEF GraphInv, NodesOK
        <3> QED BY <1>3, <3>1, <3>2
    <2>7. Remembers(g)'
        BY <1>1, <2>3, <2>4, <2>5, <2>6, OthersRemember
    <2> QED BY <2>1, <2>2, <2>7 DEF Remembers, Recalls, Behind
<1>8. Exact'
    <2> SUFFICES ASSUME NEW n \in Evaluated, async'[n].kind = "error" PROVE async'[n] = Failed(async'[n].of)
        BY DEF Exact
    <2>1. CASE n = t
        <3>1. async'[t] = outcome
            BY <1>2, <1>3 DEF GraphInv, NodesOK, AsyncOK
        <3> QED BY <2>1, <3>1
    <2>2. CASE n # t
        <3>1. async'[n] = async[n]
            BY <1>1, <2>2 DEF Evolves
        <3> QED BY <3>1 DEF Valued, Exact
    <2> QED BY <2>1, <2>2
<1>9. NewClean'
    BY <1>1 DEF Relinked
<1> QED BY <1>6, <1>7, <1>8, <1>9 DEF KeepsValues, Valued

\* A value is returned.
LEMMA SettledValues ==
    ASSUME GraphInv, GraphInv', Validated, Valued, Steady, stack # <<>>, Top.mode = "run", NEW at, Advances(Top, at),
           \A d : Behind(Top, d) => Holds(at, d), NEW v, Instruction.op = "done", Instruction.of = v, Settled(Top, at, v)
    PROVE  KeepsValues
<1>t. PICK t : t = Top.node
    OBVIOUS
<1>b. PICK b : b = Instruction
    OBVIOUS
<1>1. t \in Evaluated
    BY <1>t, StackTop DEF GraphInv, Frames
<1>2. PICK changed : changed = (cache[t] # v \/ async[t] # Plain)
    OBVIOUS
<1>3. /\ Finish(Top, at, Below, v, Plain, changed)
      /\ UNCHANGED <<status, result, parkedNodes>>
    BY <1>t, <1>2 DEF Settled
<1>4. changed \/ (v = cache[t] /\ Plain = async[t])
    BY <1>2
<1>5. Promising
    BY <1>3 DEF Promising, WaitsFor, Steady
<1>6. cache'[t] = v /\ async'[t] = Plain
    BY <1>1, <1>3, <1>t DEF Finish, GraphInv, NodesOK, AsyncOK
<1>7. Outcome(t)' = Just(v)
    BY <1>1, <1>6, OutcomeKinds
<1>8. Ending(at, t, b, Just(v))
    BY <1>b DEF Ending
<1>9. Plain.kind # "error"
    BY DEF Plain
<1> QED BY <1>t, <1>b, <1>3, <1>4, <1>5, <1>7, <1>8, <1>9, FinishValues

\* A reason is thrown.
LEMMA ThrewValues ==
    ASSUME GraphInv, GraphInv', Validated, Valued, Steady, stack # <<>>, Top.mode = "run", NEW at, Advances(Top, at),
           \A d : Behind(Top, d) => Holds(at, d), NEW reason, Threw(Top, at, Below, reason),
           NEW t, t = Top.node, NEW b, b = Instruction, NEW o, o = Failed(reason), Ending(at, t, b, o)
    PROVE  KeepsValues
<1>1. t \in Evaluated
    BY StackTop DEF GraphInv, Frames
<1>2. PICK changed, value : changed = (async[t] # o) /\ value = cache[t]
    OBVIOUS
<1>3. /\ Finish(Top, at, Below, value, o, changed)
      /\ UNCHANGED <<status, result, parkedNodes>>
    BY <1>2 DEF Threw
<1>4. changed \/ (value = cache[t] /\ o = async[t])
    BY <1>2
<1>5. Promising
    BY <1>3 DEF Promising, WaitsFor, Steady
<1>6. async'[t] = o
    BY <1>1, <1>3 DEF Finish, GraphInv, NodesOK, AsyncOK
<1>7. o.kind = "error" /\ o = Failed(o.of)
    BY DEF Failed
<1>8. Outcome(t)' = o
    BY <1>1, <1>6, <1>7, OutcomeKinds
<1> QED BY <1>3, <1>4, <1>5, <1>7, <1>8, FinishValues

-----------------------------------------------------------------------------
(***************************************************************************)
(* The steps of a pull                                                     *)
(***************************************************************************)

\* The body serves on from a node whose suspension has settled while the node
\* still waits to be told: the stale value, or the promise as a reason.
ServesStale ==
    /\ Running("read") /\ Instruction.of \in Computeds /\ IsFresh(Instruction.of)
    /\ async[Instruction.of].kind = "suspended" /\ status[async[Instruction.of].of] = "fulfilled"

\* The evaluation parks.
LEMMA ParkedValues ==
    ASSUME GraphInv, GraphInv', Validated, Valued, Steady, stack # <<>>, Top.mode = "run", NEW at, Advances(Top, at),
           \A d : Behind(Top, d) => Holds(at, d), NEW p \in Promises,
           p \in Thenables => status[p] \in {"unseen", "pending"}, Parked(Top, at, p),
           NEW b, b = Instruction,
           \/ b.op = "use" /\ b.of = p /\ p \in Thenables
           \/ b.op = "read" /\ b.of \in FreshOnes /\ Holds(at, b.of) /\ Outcome(b.of) = Wait
    PROVE  KeepsValues
<1>t. PICK t : t = Top.node
    OBVIOUS
<1>1. t \in Evaluated
    BY <1>t, StackTop DEF GraphInv, Frames
<1>s. PICK s : s = SpanOf(t)
    OBVIOUS
<1>a. PICK again : again = (async[t] = Suspended(s))
    OBVIOUS
<1>2. /\ InSpan(t) \/ \E u \in Suspensions : Unreferenced(u)
      /\ Finish(Top, at, Below, cache[t], Suspended(s), TRUE)
      /\ status' = [q \in Promises |->
                        IF q = p THEN "pending"
                        ELSE IF q = s /\ ~again THEN "unseen" ELSE status[q]]
      /\ parkedNodes' = [parkedNodes EXCEPT ![p] = @ \cup {t}]
      /\ result' = result
    BY <1>t, <1>s, <1>a DEF Parked
<1>3. s \in Suspensions
    BY <1>1, <1>2, <1>s, SpanIsFree
<1>4. PICK value, outcome, changed : value = cache[t] /\ outcome = Suspended(s) /\ changed = TRUE
    OBVIOUS
<1>5. Finish(Top, at, Below, value, outcome, changed)
    BY <1>2, <1>4
<1>6. parkedNodes \in [Promises -> SUBSET Evaluated] /\ status \in [Promises -> Statuses]
    BY DEF GraphInv, BoxesOK
<1>7. \A th \in Thenables : th \in Promises /\ th # s
    BY <1>3, KindsAssumption DEF Promises
<1>8. Promising
    <2>1. ASSUME NEW th \in Thenables, status[th] \in {"fulfilled", "rejected"}
          PROVE  status'[th] = status[th] /\ result'[th] = result[th]
        BY <1>2, <1>7, <2>1
    <2>2. ASSUME NEW th \in Thenables, NEW n \in Evaluated, WaitsFor(n, th) PROVE WaitsFor(n, th)'
        <3>1. CASE n \in settling.nodes
            BY <3>1 DEF WaitsFor, Steady
        <3>2. CASE status[th] = "pending" /\ n \in parkedNodes[th]
            <4>1. status'[th] = "pending"
                BY <1>2, <1>7, <3>2
            <4>2. n \in parkedNodes'[th]
                BY <1>2, <1>6, <1>7, <3>2
            <4> QED BY <4>1, <4>2 DEF WaitsFor
        <3> QED BY <2>2, <3>1, <3>2 DEF WaitsFor
    <2> QED BY <2>1, <2>2 DEF Promising
<1>9. outcome.kind = "suspended"
    BY <1>4 DEF Suspended
<1>10. async'[t] = outcome
    BY <1>1, <1>5, <1>t DEF Finish, GraphInv, NodesOK, AsyncOK
<1>11. Outcome(t)' = Wait
    BY <1>1, <1>9, <1>10, OutcomeKinds
<1>12. Ending(at, t, b, Wait)
    <2>1. CASE b.op = "use" /\ b.of = p /\ p \in Thenables
        <3>1. status'[p] = "pending" /\ t \in parkedNodes'[p]
            BY <1>2, <1>6
        <3>2. WaitsFor(t, p)'
            BY <2>1, <3>1 DEF WaitsFor
        <3>3. WaitsFor(t, b.of)'
            BY <2>1, <3>2
        <3> QED BY <2>1, <3>3 DEF Ending
    <2>2. CASE b.op = "read" /\ b.of \in FreshOnes /\ Holds(at, b.of) /\ Outcome(b.of) = Wait
        <3>1. Wait.kind # "value"
            BY DEF Wait
        <3> QED BY <2>2, <3>1 DEF Ending
    <2> QED BY <2>1, <2>2
<1> QED BY <1>t, <1>4, <1>5, <1>8, <1>9, <1>11, <1>12, FinishValues

\* A body reads an atom, ...
LEMMA ReadAtomValues ==
    ASSUME BodiesAreWellTyped, GraphInv, GraphInv', Validated, Valued, ReadAtom
    PROVE  KeepsValues
<1>a. PICK a, v : a = Instruction.of /\ v = val[a]
    OBVIOUS
<1>1. /\ Running("read") /\ a \in Atoms /\ Steady
      /\ Continue(Top, Tracked(Top, a), v)
    BY <1>a, QuietIsSteady DEF ReadAtom
<1>2. v \in Values /\ a \in Producers /\ a \notin Computeds
    BY <1>a, <1>1, KindsAssumption DEF GraphInv, ClocksOK, Producers, Evaluated
<1>3. stack # <<>> /\ Top.mode = "run" /\ Top \in Frames /\ Top.pos <= Len(deps[Top.node]) /\ Instruction.op = "read"
    BY <1>1, RunningFrame
<1>4. PICK at : at = Tracked(Top, a)
    OBVIOUS
<1>5. Advances(Top, at)
    BY <1>1, <1>2, <1>4, TopAdvances
<1>6. Holds(at, a) /\ \A d : Behind(Top, d) => Holds(at, d)
    <2>1. PICK f : f = Top
        OBVIOUS
    <2>2. deps \in Graphs
        BY DEF GraphInv, NodesOK
    <2>3. Holds(Tracked(f, a), a) /\ \A d : Behind(f, d) => Holds(Tracked(f, a), d)
        BY <1>2, <1>3, <2>1, <2>2, TrackedHolds
    <2> QED BY <1>4, <2>1, <2>3
<1>7. Outcome(a) = Just(v)
    BY <1>1, <1>a DEF Outcome, Just
<1>8. Answered(at, v)
    BY <1>3, <1>6, <1>7, <1>a DEF Answered
<1> QED BY <1>1, <1>2, <1>3, <1>4, <1>5, <1>6, <1>8, ContinueValues

\* ... goes on with what a fresh computed has, ...
LEMMA ReadComputedValues ==
    ASSUME BodiesAreWellTyped, GraphInv, GraphInv', Validated, Valued, ReadComputed, ~ServesStale
    PROVE  KeepsValues
<1>d. PICK d, v, s : d = Instruction.of /\ v = cache[d] /\ s = async[d].of
    OBVIOUS
<1>b. PICK b : b = Instruction
    OBVIOUS
<1>1. /\ Running("read") /\ d \in Computeds /\ IsFresh(d) /\ Steady
      /\ \/ async[d].kind = "plain" /\ Continue(Top, Tracked(Top, d), v)
         \/ async[d].kind = "error" /\ Threw(Top, Tracked(Top, d), Below, s)
         \/ async[d].kind = "suspended" /\ status[s] # "fulfilled" /\ Parked(Top, Tracked(Top, d), s)
    BY <1>d, QuietIsSteady DEF ReadComputed, ServesStale
<1>2. d \in Producers /\ d \in Evaluated /\ mark[d] = "clean" /\ d \in FreshOnes
    BY <1>1 DEF Producers, Evaluated, IsFresh, FreshOnes, FreshIn, Watched
<1>3. stack # <<>> /\ Top.mode = "run" /\ Top \in Frames /\ Top.pos <= Len(deps[Top.node]) /\ Instruction.op = "read"
    BY <1>1, RunningFrame
<1>4. PICK at : at = Tracked(Top, d)
    OBVIOUS
<1>5. Advances(Top, at)
    BY <1>1, <1>2, <1>4, TopAdvances
<1>6. Holds(at, d) /\ \A c : Behind(Top, c) => Holds(at, c)
    <2>1. PICK f : f = Top
        OBVIOUS
    <2>2. deps \in Graphs
        BY DEF GraphInv, NodesOK
    <2>3. Holds(Tracked(f, d), d) /\ \A c : Behind(f, c) => Holds(Tracked(f, d), c)
        BY <1>2, <1>3, <2>1, <2>2, TrackedHolds
    <2> QED BY <1>4, <2>1, <2>3
<1>7. CASE async[d].kind = "plain" /\ Continue(Top, at, v)
    <2>1. async[d] = Plain
        BY <1>2, <1>7 DEF GraphInv, NodesOK, AsyncOK, Suspended
    <2>2. v \in Values
        <3>1. v \in Values \cup {None}
            BY <1>2, <1>d DEF GraphInv, NodesOK
        <3>2. v # None
            BY <1>1, <1>2, <1>d, <2>1 DEF GraphInv, NodesOK, Serving
        <3> QED BY <3>1, <3>2
    <2>3. Outcome(d) = Just(v)
        BY <1>2, <1>d, <1>7, OutcomeKinds
    <2>4. Answered(at, v)
        BY <1>3, <1>6, <1>d, <2>3 DEF Answered
    <2> QED BY <1>1, <1>3, <1>5, <1>6, <1>7, <2>2, <2>4, ContinueValues
<1>8. CASE async[d].kind = "error" /\ Threw(Top, at, Below, s)
    <2>1. PICK o : o = Failed(s)
        OBVIOUS
    <2>2. async[d] = o
        BY <1>2, <1>8, <1>d, <2>1 DEF Valued, Exact
    <2>3. Outcome(d) = o
        BY <1>2, <1>8, <2>2, OutcomeKinds
    <2>4. o.kind # "value"
        BY <2>1 DEF Failed
    <2>5. PICK t : t = Top.node
        OBVIOUS
    <2>6. b.op = "read" /\ b.of = d
        BY <1>3, <1>b, <1>d
    <2>7. Ending(at, t, b, o)
        BY <1>2, <1>6, <2>3, <2>4, <2>6 DEF Ending
    <2> QED BY <1>1, <1>3, <1>5, <1>6, <1>8, <1>b, <2>1, <2>5, <2>7, ThrewValues
<1>9. CASE async[d].kind = "suspended" /\ Parked(Top, at, s)
    <2>1. \E u \in Suspensions : async[d] = Suspended(u)
        BY <1>2, <1>9 DEF GraphInv, NodesOK, AsyncOK, Plain
    <2>2. s \in Suspensions
        BY <1>d, <2>1 DEF Suspended
    <2>3. s \in Promises /\ s \notin Thenables
        BY <2>2, KindsAssumption DEF Promises
    <2>4. Outcome(d) = Wait
        BY <1>2, <1>9, OutcomeKinds
    <2>5. b.op = "read" /\ b.of = d
        BY <1>3, <1>b, <1>d
    <2>6. b.op = "read" /\ b.of \in FreshOnes /\ Holds(at, b.of) /\ Outcome(b.of) = Wait
        BY <1>2, <1>6, <2>4, <2>5
    <2> QED BY <1>1, <1>3, <1>5, <1>6, <1>9, <1>b, <2>3, <2>6, ParkedValues
<1> QED BY <1>1, <1>4, <1>7, <1>8, <1>9

\* ... unwraps a thenable, ...
LEMMA UseThenableValues ==
    ASSUME BodiesAreWellTyped, GraphInv, GraphInv', Validated, Valued, UseThenable
    PROVE  KeepsValues
<1>t. PICK p, v : p = Instruction.of /\ v = result[p]
    OBVIOUS
<1>b. PICK b : b = Instruction
    OBVIOUS
<1>4. PICK at : at = Untouched(Top)
    OBVIOUS
<1>1. /\ Running("use") /\ Steady
      /\ \/ status[p] \in {"unseen", "pending"} /\ Parked(Top, at, p)
         \/ status[p] = "fulfilled" /\ Continue(Top, at, v)
         \/ status[p] = "rejected" /\ Threw(Top, at, Below, Rejection)
    BY <1>t, <1>4, QuietIsSteady DEF UseThenable
<1>2. p \in Thenables /\ p \in Promises
    BY <1>1, <1>t, RunningFrame DEF WellTyped, Promises
<1>3. stack # <<>> /\ Top.mode = "run" /\ Instruction.op = "use"
    BY <1>1, RunningFrame
<1>5. Advances(Top, at)
    BY <1>1, <1>4, TopAdvances
<1>6. \A d : Behind(Top, d) => Holds(at, d)
    <2>1. PICK f : f = Top
        OBVIOUS
    <2>2. \A d : Behind(f, d) => Holds(Untouched(f), d)
        BY UntouchedHolds
    <2> QED BY <1>4, <2>1, <2>2
<1>7. b.op = "use" /\ b.of = p
    BY <1>3, <1>b, <1>t
<1>8. CASE status[p] = "fulfilled" /\ Continue(Top, at, v)
    <2>1. v \in Values
        BY <1>2, <1>8, <1>t DEF GraphInv, BoxesOK
    <2>2. Answered(at, v)
        BY <1>2, <1>3, <1>8, <1>t DEF Answered, Answers
    <2> QED BY <1>1, <1>3, <1>5, <1>6, <1>8, <2>1, <2>2, ContinueValues
<1>9. CASE status[p] = "rejected" /\ Threw(Top, at, Below, Rejection)
    <2>1. PICK o, t : o = Failed(Rejection) /\ t = Top.node
        OBVIOUS
    <2>2. status' = status
        BY <1>9 DEF Threw
    <2>3. Ending(at, t, b, o)
        BY <1>2, <1>7, <1>9, <2>1, <2>2 DEF Ending
    <2> QED BY <1>1, <1>3, <1>5, <1>6, <1>9, <1>b, <2>1, <2>3, ThrewValues
<1>10. CASE status[p] \in {"unseen", "pending"} /\ Parked(Top, at, p)
    BY <1>1, <1>2, <1>3, <1>5, <1>6, <1>7, <1>10, <1>b, ParkedValues
<1> QED BY <1>1, <1>8, <1>9, <1>10

\* ... ends.
LEMMA ReturnValues ==
    ASSUME BodiesAreWellTyped, GraphInv, GraphInv', Validated, Valued, Return
    PROVE  KeepsValues
<1>1. Steady
    BY QuietIsSteady DEF Return
<1>2. PICK at, v : at = Untouched(Top) /\ v = Instruction.of
    OBVIOUS
<1>3. \/ Running("done") /\ Settled(Top, at, v)
      \/ Running("throw") /\ Threw(Top, at, Below, v)
    BY <1>2 DEF Return
<1>4. PICK op \in {"done", "throw"} : Running(op) /\ Instruction.op = op
    BY <1>3 DEF Running
<1>5. stack # <<>> /\ Top.mode = "run"
    BY <1>4, RunningFrame
<1>6. Advances(Top, at)
    BY <1>2, <1>4, TopAdvances
<1>7. \A d : Behind(Top, d) => Holds(at, d)
    <2>1. PICK f : f = Top
        OBVIOUS
    <2>2. \A d : Behind(f, d) => Holds(Untouched(f), d)
        BY UntouchedHolds
    <2> QED BY <1>2, <2>1, <2>2
<1>8. CASE Running("done") /\ Settled(Top, at, v)
    <2>1. Instruction.op = "done" /\ Instruction.of = v
        BY <1>2, <1>8 DEF Running
    <2> QED BY <1>1, <1>5, <1>6, <1>7, <1>8, <2>1, SettledValues
<1>9. CASE Running("throw") /\ Threw(Top, at, Below, v)
    <2>1. PICK b, t, o : b = Instruction /\ t = Top.node /\ o = Failed(v)
        OBVIOUS
    <2>2. b.op = "throw" /\ b.of = v
        BY <1>2, <1>9, <2>1 DEF Running
    <2>3. Ending(at, t, b, o)
        BY <2>1, <2>2 DEF Ending
    <2> QED BY <1>1, <1>5, <1>6, <1>7, <1>9, <2>1, <2>3, ThrewValues
<1> QED BY <1>3, <1>8, <1>9

\* A step of a pull that closes no circle and serves nothing stale.
LEMMA PullValues ==
    ASSUME BodiesAreWellTyped, GraphInv, GraphInv', Validated, Valued, Pull, ~ThrowCycle, ~ServesStale
    PROVE  KeepsValues
<1>1. CASE CheckStep
    BY <1>1, CheckStepValues
<1>2. CASE ReadAtom
    BY <1>2, ReadAtomValues
<1>3. CASE PullDependency
    BY <1>3, PullDependencyValues
<1>4. CASE ReadComputed
    BY <1>4, ReadComputedValues
<1>5. CASE UseThenable
    BY <1>5, UseThenableValues
<1>6. CASE Return
    BY <1>6, ReturnValues
<1> QED BY <1>1, <1>2, <1>3, <1>4, <1>5, <1>6 DEF Pull

-----------------------------------------------------------------------------
(***************************************************************************)
(* Calls of the program, and what they make watched or unwatched           *)
(***************************************************************************)

\* Outside a pull a step may begin one; it touches no node.
LEMMA CallValues ==
    ASSUME GraphInv, Valued, stack = <<>>,
           UNCHANGED <<shape, val, clock, nodes, status, result, parkedNodes>>, settling'.nodes = settling.nodes,
           watched \subseteq watched', watched' \ Computing' \subseteq watched,
           stack' = <<>> \/ \E d \in Evaluated : stack' \in {<<Entered(d)>>, <<Frame(d, "run")>>}
    PROVE  KeepsValues
<1>1. Computing = {}
    BY DEF Computing
<1>2. ASSUME NEW k \in DOMAIN stack'
      PROVE  /\ \/ stack'[k].mode = "run" /\ stack'[k].seen = <<>>
                \/ stack'[k].mode = "check" /\ mark[stack'[k].node] # "dirty"
             /\ stack'[k].pos = 0
    <2>1. PICK d \in Evaluated : stack' \in {<<Entered(d)>>, <<Frame(d, "run")>>}
        BY <1>2
    <2>2. PICK g : g \in {Entered(d), Frame(d, "run")} /\ stack' = <<g>>
        BY <2>1
    <2>3. stack'[k] = g
        BY <2>2
    <2>4. g.node = d /\ g.seen = <<>> /\ g.pos = 0 /\ g.mode \in {"run", "check"} /\ (g.mode = "check" => mark[d] # "dirty")
        BY <2>2 DEF Entered, Frame
    <2> QED BY <2>3, <2>4
<1>3. \A n, d : ~Confirming(stack', n, d)
    <2> SUFFICES ASSUME NEW n, NEW d, NEW k \in DOMAIN stack', Behind(stack'[k], d) PROVE FALSE
        BY DEF Confirming
    <2>1. 1..stack'[k].pos = {}
        BY <1>2
    <2> QED BY <2>1 DEF Behind
<1>4. Calls
    BY <1>1, <1>3 DEF Calls
<1>5. Remembered' /\ NewClean' /\ Exact'
    <2>1. \A k \in DOMAIN stack' :
               \/ \E i \in DOMAIN stack : stack'[k] = stack[i]
               \/ stack'[k].mode = "run" /\ stack'[k].seen = <<>>
               \/ stack'[k].mode = "check" /\ mark[stack'[k].node] # "dirty"
        BY <1>2
    <2>2. Remembered /\ NewClean /\ Exact
        BY DEF Valued
    <2> QED BY <1>4, <2>1, <2>2, CallsRemember
<1>6. \A n \in Evaluated : n \in Computeds => n \notin Effects
    BY KindsAssumption DEF Sinks
<1> QED BY <1>4, <1>5, <1>6, CallsRecord DEF KeepsValues, KeepsRecords, Valued

\* Nothing happens.
LEMMA StutterValues ==
    ASSUME Valued, UNCHANGED vars
    PROVE  KeepsValues
<1>1. UNCHANGED <<shape, val, clock, nodes, status, result, parkedNodes>> /\ settling' = settling
      /\ watched' = watched /\ stack' = stack
    BY DEF vars, owners, boxes
<1>2. Computing' = Computing
    BY <1>1 DEF Computing
<1>3. Calls
    <2>1. \A n \in Evaluated : \A d \in Members(deps[n]) : Confirming(stack', n, d) => Heeds(n, d)
        BY <1>1 DEF Heeds
    <2> QED BY <1>1, <1>2, <2>1 DEF Calls
<1>4. Remembered' /\ NewClean' /\ Exact'
    <2>1. \A k \in DOMAIN stack' :
               \/ \E i \in DOMAIN stack : stack'[k] = stack[i]
               \/ stack'[k].mode = "run" /\ stack'[k].seen = <<>>
               \/ stack'[k].mode = "check" /\ mark[stack'[k].node] # "dirty"
        BY <1>1
    <2>2. Remembered /\ NewClean /\ Exact
        BY DEF Valued
    <2> QED BY <1>3, <2>1, <2>2, CallsRemember
<1>5. \A n \in Evaluated : n \in Computeds => n \notin Effects
    BY KindsAssumption DEF Sinks
<1> QED BY <1>3, <1>4, <1>5, CallsRecord DEF KeepsValues, KeepsRecords, Valued

\* What promotion leaves clean has seen every reading of its dependencies.
LEMMA PromotedSees ==
    ASSUME NEW ds, NEW mk \in [Evaluated -> Marks], NEW n \in Gained \ Computing, Promoted(ds, mk)[n] = "clean"
    PROVE  \A d \in Members(ds[n]) : ~(changedAt[d] > validAt[n])
<1>n. PICK N : N = Cardinality(Computeds)
    OBVIOUS
<1>1. PICK R : /\ R[0] = mk /\ \A k \in 1..N : R[k] = Seeds(ds, mk, R[k-1])
               /\ Promoted(ds, mk) = R[N]
    BY <1>n, PromotedSteps
<1>2. n \in Evaluated /\ n \in Computeds
    BY DEF Gained, Evaluated
<1>3. N \in Nat \ {0}
    <2>1. IsFiniteSet(Computeds)
        BY KindsAssumption, FS_Subset DEF Evaluated
    <2>2. N \in Nat /\ N # 0
        BY <1>2, <1>n, <2>1, FS_CardinalityType, FS_EmptySet
    <2> QED BY <2>2
<1>4. R[N] = Seeds(ds, mk, R[N-1])
    BY <1>1, <1>3
<1>5. mk[n] = "clean"
    BY <1>2, PromotedOnly
<1> QED BY <1>1, <1>2, <1>4, <1>5 DEF Seeds

\* Owners and edges move outside a pull: an effect may let go of its edges.
LEMMA OwnersValues ==
    ASSUME GraphInv, GraphInv', Validated, Valued, stack = <<>>, stack' = <<>>,
           UNCHANGED <<shape, val, clock, changedAt, cache, async, status, result, parkedNodes, settling>>,
           NEW ds \in Graphs, NEW lf, NEW tg \in [Watchers -> Producers \cup {None}],
           Relink(ds, lf, tg, mark, validAt), Alive(lf) \subseteq Alive(life),
           \A n \in Evaluated : ds[n] = deps[n] \/ (n \in Effects \ Alive(lf) /\ ds[n] = <<>>)
    PROVE  KeepsValues
<1>m. PICK mk, va : mk = mark /\ va = validAt
    OBVIOUS
<1>a. PICK A, B : A = FreshOnes /\ B = FreshOnes'
    OBVIOUS
<1>1. /\ A = FreshIn(mk, watched, va, clock) /\ B = FreshIn(mark', watched', validAt', clock)
    BY <1>m, <1>a DEF FreshOnes
<1>2. /\ mk \in [Evaluated -> Marks] /\ va \in [Evaluated -> 0..clock] /\ ClocksOK /\ OwnersOK /\ clock \in Nat \ {0}
      /\ WatchedOK(deps, watched, life, target) /\ Supports(deps, FreshOnes) /\ deps \in Graphs
      /\ changedAt \in [Producers -> 0..clock]
    BY <1>m DEF GraphInv, ClocksOK, NodesOK, Validated, Supported
<1>3. /\ Relink(ds, lf, tg, mk, va) /\ deps' = ds /\ mark' = Promoted(ds, mk) /\ validAt' = Demoted(mk, va)
    BY <1>m DEF Relink
<1>4. \A n \in Computeds : n \in Evaluated /\ n \notin Effects
    BY KindsAssumption DEF Evaluated, Sinks
<1>5. Supports(ds, A)
    <2>1. A \subseteq Computeds
        BY <1>1 DEF FreshIn
    <2> QED BY <1>2, <1>4, <1>a, <2>1 DEF Supports
<1>6. FreshMoved(ds, mk, va, A, B)
    <2>1. \A n \in Gained : va[n] = validAt[n]
        BY <1>m
    <2> QED BY <1>1, <1>2, <1>3, <1>5, <2>1, RelinkFresh
<1>7. /\ A \subseteq B /\ B \subseteq A \cup Gained
      /\ \A n \in Evaluated : mk[n] = "dirty" => mark'[n] = "dirty"
    BY <1>6 DEF FreshMoved
<1>8. Computing = {} /\ Computing' = {}
    BY DEF Computing
<1>9. \A n \in Evaluated : mark'[n] \in {mk[n], "check"} /\ (mark'[n] # mk[n] => n \in Gained)
    BY <1>2, <1>3, PromotedOnly
<1>10. \A n \in Evaluated : validAt'[n] = IF n \in (watched \ watched') \cap Computeds
                                           THEN IF mk[n] = "clean" THEN clock ELSE 0 ELSE va[n]
    BY <1>3 DEF Demoted
<1>11. NewClean'
    <2> SUFFICES ASSUME NEW n \in Evaluated, validAt'[n] = clock PROVE mark'[n] = "clean"
        BY DEF NewClean
    <2>1. CASE n \in (watched \ watched') \cap Computeds
        <3>1. mk[n] = "clean" /\ n \notin Gained
            BY <1>2, <1>10, <2>1 DEF Gained
        <3> QED BY <1>9, <3>1
    <2>2. CASE n \notin (watched \ watched') \cap Computeds
        <3>1. va[n] = clock
            BY <1>10, <2>2
        <3>2. mk[n] = "clean"
            BY <1>m, <3>1 DEF Valued, NewClean
        <3>3. CASE n \in Computeds
            <4>1. n \in A
                BY <1>1, <3>1, <3>2, <3>3 DEF FreshIn
            <4> QED BY <1>1, <1>7, <4>1 DEF FreshIn
        <3>4. CASE n \notin Computeds
            BY <1>9, <3>2, <3>4 DEF Gained
        <3> QED BY <3>3, <3>4
    <2> QED BY <2>1, <2>2
<1>12. ASSUME NEW n \in Evaluated, Recorded(n) PROVE Recorded(n)'
    <2> SUFFICES ASSUME Due(n)' PROVE Due(n) /\ Stands(n)
        BY <1>12, KeepsRecord
    <2>1. mark[n] # "dirty"
        BY <1>7, <1>m DEF Due
    <2>2. CASE n \in Computeds
        <3>1. Due(n)
            BY <1>8, <2>1, <2>2 DEF Due
        <3>2. deps'[n] = deps[n]
            BY <1>3, <1>4, <2>2
        <3>3. Outcome(n)' = Outcome(n) /\ \A d : Outcome(d)' = Outcome(d)
            BY DEF Outcome
        <3>4. ASSUME NEW d \in Members(deps[n]), Heeds(n, d)' PROVE Heeds(n, d)
            <4>0. d \in Producers /\ changedAt[d] \in Nat /\ validAt[n] \in Nat /\ validAt'[n] \in Nat
                <5>1. d \in Producers
                    BY <1>2 DEF Graphs, Members
                <5>2. changedAt[d] \in 0..clock /\ validAt[n] \in 0..clock
                    BY <1>2, <1>m, <5>1
                <5>3. validAt'[n] \in 0..clock
                    BY DEF GraphInv, ClocksOK
                <5> QED BY <1>2, <5>1, <5>2, <5>3
            <4>1. CASE IsFresh(n)'
                <5>1. n \in B
                    BY <2>2, <4>1, <1>1 DEF IsFresh, Watched, FreshIn
                <5>2. CASE n \in A
                    BY <1>1, <1>m, <5>2 DEF FreshIn, IsFresh, Watched, Heeds
                <5>3. CASE n \in Gained
                    <6>1. Promoted(ds, mk)[n] = "clean"
                        BY <1>1, <1>3, <5>1 DEF FreshIn
                    <6>2. ~(changedAt[d] > validAt[n])
                        BY <1>2, <1>3, <1>8, <3>2, <5>3, <6>1, PromotedSees
                    <6>3. changedAt[d] <= validAt[n]
                        BY <4>0, <6>2
                    <6> QED BY <6>3 DEF Heeds
                <5> QED BY <1>7, <5>1, <5>2, <5>3
            <4>2. CASE changedAt'[d] <= validAt'[n]
                <5>1. CASE n \in (watched \ watched') \cap Computeds /\ mk[n] = "clean"
                    BY <1>m, <5>1 DEF Heeds, IsFresh, Watched
                <5>2. CASE n \in (watched \ watched') \cap Computeds /\ mk[n] # "clean"
                    <6>1. validAt'[n] = 0
                        BY <1>10, <5>2
                    <6>2. changedAt[d] <= validAt[n]
                        BY <4>0, <4>2, <6>1
                    <6> QED BY <6>2 DEF Heeds
                <5>3. CASE n \notin (watched \ watched') \cap Computeds
                    <6>1. validAt'[n] = validAt[n]
                        BY <1>10, <1>m, <5>3
                    <6> QED BY <4>2, <6>1 DEF Heeds
                <5> QED BY <5>1, <5>2, <5>3
            <4>3. ~Confirming(stack, n, d)'
                BY DEF Confirming
            <4> QED BY <3>4, <4>1, <4>2, <4>3 DEF Heeds
        <3>5. Stands(n)
            BY <3>2, <3>3, <3>4 DEF Stands, WaitsFor
        <3> QED BY <3>1, <3>5
    <2>3. CASE n \notin Computeds
        <3>0. n \in Effects
            BY <2>3 DEF Evaluated
        <3>1. n \in watched' /\ n \in Alive(lf)
            BY <2>3, <3>0 DEF Due, GraphInv, OwnersOK, FlagsOK, Relink
        <3>2. n \in watched
            BY <1>2, <3>1 DEF WatchedOK, Roots
        <3>3. Due(n)
            BY <1>8, <2>1, <3>2 DEF Due
        <3>4. deps'[n] = deps[n]
            BY <1>3, <3>1
        <3>5. mark'[n] = mark[n] /\ validAt'[n] = validAt[n]
            BY <1>9, <1>10, <1>m, <2>3 DEF Gained
        <3>6. Outcome(n)' = Outcome(n) /\ \A d : Outcome(d)' = Outcome(d)
            BY DEF Outcome
        <3>7. ASSUME NEW d \in Members(deps[n]), Heeds(n, d)' PROVE Heeds(n, d)
            <4>1. ~Confirming(stack, n, d)'
                BY DEF Confirming
            <4> QED BY <3>2, <3>5, <3>7, <4>1 DEF Heeds, IsFresh, Watched
        <3>8. Stands(n)
            BY <3>4, <3>6, <3>7 DEF Stands, WaitsFor
        <3> QED BY <3>3, <3>8
    <2> QED BY <2>2, <2>3
<1>13. Remembered' /\ Exact'
    BY DEF Remembered, Valued, Exact
<1> QED BY <1>11, <1>12, <1>13 DEF KeepsValues, KeepsRecords, Valued

-----------------------------------------------------------------------------
(***************************************************************************)
(* Writes and settlements: the clock ticks                                 *)
(***************************************************************************)

\* A reading of the clock later: whoever reads c, which has changed, is dirty.
Ticks(c) ==
    /\ clock' = clock + 1 /\ UNCHANGED <<shape, validAt, cache, async, deps, watched>>
    /\ \A d \in Producers \ {c} : Outcome(d)' = Outcome(d) /\ changedAt'[d] = changedAt[d]
    /\ c \in Producers => changedAt'[c] = clock + 1
    /\ \A n \in Evaluated \ {c} : mark'[n] # "clean" \/ mark[n] = "clean"
    /\ \A n \in Evaluated \ {c} : mark[n] = "dirty" => mark'[n] = "dirty"
    /\ \A n \in watched \cap Evaluated : c \in Members(deps[n]) => mark'[n] = "dirty"

\* A step that moves the clock for c keeps every other node's record.
LEMMA TicksRecord ==
    ASSUME GraphInv, stack = <<>>, NEW c, Ticks(c), NEW n \in Evaluated, n # c, Recorded(n),
           \A k \in DOMAIN stack' : stack'[k].mode = "run",
           \A t \in Thenables : status[t] \in {"fulfilled", "rejected"} => status'[t] = status[t] /\ result'[t] = result[t],
           \A t \in Thenables : WaitsFor(n, t) => WaitsFor(n, t)'
    PROVE  Recorded(n)'
<1> SUFFICES ASSUME Due(n)' PROVE Due(n) /\ Stands(n)
    BY KeepsRecord
<1>1. Computing = {}
    BY DEF Computing
<1>2. Due(n)
    BY <1>1 DEF Due, Ticks
<1>3. Outcome(n)' = Outcome(n)
    BY OutcomeStays DEF Ticks
<1>4. /\ clock \in Nat /\ validAt[n] \in Nat /\ validAt[n] <= clock /\ validAt'[n] = validAt[n]
      /\ \A d \in Members(deps[n]) : d \in Producers
    <2>1. clock \in Nat /\ validAt[n] \in 0..clock
        BY DEF GraphInv, ClocksOK
    <2>2. \A d \in Members(deps[n]) : d \in Producers
        BY DEF GraphInv, NodesOK, Graphs, Members
    <2> QED BY <2>1, <2>2 DEF Ticks
<1>5. ASSUME NEW d \in Members(deps[n]), Heeds(n, d)' PROVE Heeds(n, d) /\ Outcome(d)' = Outcome(d)
    <2>1. ~Confirming(stack, n, d)'
        BY DEF Confirming
    <2>2. IsFresh(n)' => mark'[n] = "clean" /\ n \in watched /\ mark[n] = "clean"
        <3>1. ~(validAt'[n] = clock')
            BY <1>4 DEF Ticks
        <3> QED BY <3>1 DEF IsFresh, Watched, Ticks
    <2>3. CASE d = c
        <3>1. ~IsFresh(n)'
            BY <2>2, <2>3 DEF Ticks
        <3>2. changedAt'[d] = clock + 1
            BY <1>4, <2>3 DEF Ticks
        <3>3. ~(changedAt'[d] <= validAt'[n])
            BY <1>4, <3>2
        <3> QED BY <1>5, <2>1, <3>1, <3>3 DEF Heeds
    <2>4. CASE d # c
        <3>1. Outcome(d)' = Outcome(d) /\ changedAt'[d] = changedAt[d]
            BY <1>4, <2>4 DEF Ticks
        <3>2. IsFresh(n)' => IsFresh(n)
            BY <2>2 DEF IsFresh, Watched
        <3> QED BY <1>4, <1>5, <2>1, <3>1, <3>2 DEF Heeds
    <2> QED BY <2>3, <2>4
<1>6. Stands(n)
    BY <1>3, <1>5 DEF Stands, Ticks
<1> QED BY <1>2, <1>6

\* Nothing is valid yet at the new reading.
LEMMA TicksValued ==
    ASSUME GraphInv, Valued, NEW c, Ticks(c), \A k \in DOMAIN stack' : stack'[k].mode = "run" /\ stack'[k].seen = <<>>
    PROVE  Valued'
<1>1. NewClean'
    <2>1. ASSUME NEW n \in Evaluated PROVE validAt'[n] # clock'
        <3>1. clock \in Nat /\ validAt[n] \in 0..clock
            BY DEF GraphInv, ClocksOK
        <3> QED BY <3>1 DEF Ticks
    <2> QED BY <2>1 DEF NewClean
<1>2. Exact'
    BY DEF Valued, Exact, Ticks
<1>3. Remembered'
    <2> SUFFICES ASSUME NEW k \in DOMAIN stack' PROVE Remembers(stack[k])'
        BY DEF Remembered
    <2>1. PICK g : g = stack'[k]
        OBVIOUS
    <2>2. g.mode = "run" /\ g.seen = <<>>
        BY <2>1
    <2> QED BY <2>1, <2>2 DEF Remembers
<1> QED BY <1>1, <1>2, <1>3 DEF Valued

\* The marks a wave leaves.
LEMMA WaveMarks ==
    ASSUME NEW d, NEW mk, Wave(d, mk), NEW n \in Evaluated
    PROVE  /\ mark'[n] = "clean" => mk[n] = "clean"
           /\ mk[n] = "dirty" => mark'[n] = "dirty"
           /\ n \in watched /\ d \in Members(deps[n]) => mark'[n] = "dirty"
<1>1. PICK ring, below : mark' = [m \in Evaluated |-> IF m \in ring THEN "dirty"
                                                       ELSE IF m \in below /\ mk[m] = "clean" THEN "check" ELSE mk[m]]
                         /\ ring = Subscribers(d)
    BY Zenon DEF Wave
<1>2. n \in watched /\ d \in Members(deps[n]) => n \in ring
    BY <1>1 DEF Subscribers, Watched
<1> QED BY <1>1, <1>2

\* A write keeps the records.
LEMMA WriteValues ==
    ASSUME GraphInv, Valued, NEW a \in Atoms, NEW v \in Values, Write(a, v)
    PROVE  KeepsValues
<1>m. PICK mk : mk = mark
    OBVIOUS
<1>1. /\ stack = <<>> /\ stack' = <<>> /\ clock' = clock + 1 /\ val' = [val EXCEPT ![a] = v] /\ Wave(a, mk)
      /\ changedAt' = [changedAt EXCEPT ![a] = clock + 1]
      /\ UNCHANGED <<shape, validAt, cache, async, deps, watched, status, result, parkedNodes, settling>>
    BY <1>m DEF Write, Ready, owners, boxes
<1>2. a \in Producers /\ a \notin Evaluated /\ a \notin Computeds
    BY KindsAssumption DEF Producers, Evaluated
<1>3. Ticks(a)
    <2>1. ASSUME NEW d \in Producers \ {a} PROVE Outcome(d)' = Outcome(d) /\ changedAt'[d] = changedAt[d]
        <3>1. changedAt'[d] = changedAt[d]
            BY <1>1 DEF GraphInv, ClocksOK
        <3>2. CASE d \in Atoms
            BY <1>1, <3>2 DEF Outcome, GraphInv, ClocksOK
        <3>3. CASE d \in Computeds
            BY <1>1, <3>3, OutcomeStays DEF Evaluated
        <3> QED BY <3>1, <3>2, <3>3 DEF Producers
    <2>2. changedAt'[a] = clock + 1
        BY <1>1, <1>2 DEF GraphInv, ClocksOK
    <2>3. \A n \in Evaluated : /\ mark'[n] # "clean" \/ mark[n] = "clean"
                               /\ mark[n] = "dirty" => mark'[n] = "dirty"
                               /\ n \in watched /\ a \in Members(deps[n]) => mark'[n] = "dirty"
        BY <1>1, <1>m, WaveMarks
    <2> QED BY <1>1, <2>1, <2>2, <2>3 DEF Ticks
<1>4. Valued'
    BY <1>1, <1>3, TicksValued
<1>5. ASSUME NEW n \in Evaluated, Recorded(n) PROVE Recorded(n)'
    <2>1. \A t \in Thenables : WaitsFor(n, t) => WaitsFor(n, t)'
        BY <1>1 DEF WaitsFor
    <2> QED BY <1>1, <1>2, <1>3, <1>5, <2>1, TicksRecord
<1> QED BY <1>4, <1>5 DEF KeepsValues, KeepsRecords

\* So does a settlement,
LEMMA SettleValues ==
    ASSUME GraphInv, Valued, NEW p \in Promises, NEW how, NEW v, Settle(p, how, v)
    PROVE  KeepsValues
<1>1. /\ stack = <<>> /\ stack' = <<>> /\ clock' = clock + 1 /\ settling.nodes = {} /\ status[p] = "pending"
      /\ status' = [status EXCEPT ![p] = how]
      /\ result' = IF p \in Thenables /\ how = "fulfilled" THEN [result EXCEPT ![p] = v] ELSE result
      /\ settling' = [nodes |-> parkedNodes[p], suspensions |-> parkedSuspensions[p], on |-> TRUE]
      /\ parkedNodes' = [parkedNodes EXCEPT ![p] = {}]
      /\ UNCHANGED <<shape, val, changedAt, validAt, mark, cache, async, deps, watched>>
    BY DEF Settle, Ready, owners, nodes
<1>2. \A d : Outcome(d)' = Outcome(d)
    BY <1>1 DEF Outcome
<1>3. Ticks(None)
    <2>1. None \notin Producers
        BY ValuesAssumption
    <2>2. \A n \in Evaluated : None \notin Members(deps[n])
        BY <2>1 DEF GraphInv, NodesOK, Graphs, Members
    <2> QED BY <1>1, <1>2, <2>1, <2>2 DEF Ticks
<1>4. Valued'
    BY <1>1, <1>3, TicksValued
<1>5. status \in [Promises -> Statuses] /\ parkedNodes \in [Promises -> SUBSET Evaluated]
      /\ result \in [Thenables -> Values \cup {None}]
    BY DEF GraphInv, BoxesOK
<1>6. ASSUME NEW t \in Thenables, status[t] \in {"fulfilled", "rejected"}
      PROVE  status'[t] = status[t] /\ result'[t] = result[t]
    <2>1. t # p /\ t \in Promises
        BY <1>1, <1>6 DEF Promises
    <2> QED BY <1>1, <1>5, <2>1
<1>7. ASSUME NEW n \in Evaluated, NEW t \in Thenables, WaitsFor(n, t) PROVE WaitsFor(n, t)'
    <2>1. status[t] = "pending" /\ n \in parkedNodes[t] /\ t \in Promises
        BY <1>1, <1>7 DEF WaitsFor, Promises
    <2>2. CASE t = p
        <3>1. n \in settling'.nodes
            BY <1>1, <2>1, <2>2
        <3> QED BY <3>1 DEF WaitsFor
    <2>3. CASE t # p
        <3>1. status'[t] = "pending" /\ n \in parkedNodes'[t]
            BY <1>1, <1>5, <2>1, <2>3
        <3> QED BY <3>1 DEF WaitsFor
    <2> QED BY <2>2, <2>3
<1>8. ASSUME NEW n \in Evaluated, n # None, Recorded(n) PROVE Recorded(n)'
    BY <1>1, <1>3, <1>6, <1>7, <1>8, TicksRecord
<1>9. ASSUME NEW n \in Evaluated, n \in Computeds \/ Heard, Recorded(n) PROVE Recorded(n)'
    <2>1. PICK c : c \notin Producers /\ c # n /\ Ticks(c)
        <3>1. CASE n # None
            BY <1>3, <3>1, ValuesAssumption
        <3>2. CASE n = None
            <4>1. PICK c : c \notin Producers \cup {None}
                <5>1. {x \in Producers \cup {None} : x \notin x} \notin Producers \cup {None}
                    OBVIOUS
                <5> QED BY <5>1
            <4>2. \A m \in Evaluated : c \notin Members(deps[m])
                BY <4>1 DEF GraphInv, NodesOK, Graphs, Members
            <4>3. Ticks(c)
                BY <1>1, <1>2, <4>1, <4>2 DEF Ticks
            <4> QED BY <3>2, <4>1, <4>3
        <3> QED BY <3>1, <3>2
    <2> QED BY <1>1, <1>6, <1>7, <1>9, <2>1, TicksRecord
<1> QED BY <1>4, <1>9 DEF KeepsValues, KeepsRecords

\* and each node that it invalidates.
LEMMA SettleNodeValues ==
    ASSUME GraphInv, Valued, NEW c \in Evaluated, SettleNode(c)
    PROVE  KeepsValues
<1>m. PICK mk : mk = [mark EXCEPT ![c] = "dirty"]
    OBVIOUS
<1>g. PICK g : g = Frame(c, "run")
    OBVIOUS
<1>1. /\ stack = <<>> /\ stack' = <<g>> /\ clock' = clock + 1
      /\ settling' = [settling EXCEPT !.nodes = @ \ {c}]
      /\ IF c \in Effects THEN mark' = mk /\ changedAt' = changedAt
         ELSE Wave(c, mk) /\ changedAt' = [changedAt EXCEPT ![c] = clock + 1]
      /\ UNCHANGED <<shape, val, validAt, cache, async, deps, watched, status, result, parkedNodes>>
    BY <1>m, <1>g DEF SettleNode, owners, boxes
<1>2. \A d : Outcome(d)' = Outcome(d)
    BY <1>1 DEF Outcome
<1>3. g.node = c /\ g.mode = "run" /\ g.seen = <<>>
    BY <1>g DEF Frame
<1>4. \A n \in Evaluated \ {c} : mk[n] = mark[n]
    BY <1>m DEF GraphInv, NodesOK
<1>5. Ticks(c)
    <2>1. CASE c \in Effects
        <3>1. c \notin Producers
            BY <2>1, KindsAssumption DEF Producers, Sinks, Evaluated
        <3>2. \A n \in Evaluated : c \notin Members(deps[n])
            BY <3>1 DEF GraphInv, NodesOK, Graphs, Members
        <3> QED BY <1>1, <1>2, <1>4, <2>1, <3>1, <3>2 DEF Ticks
    <2>2. CASE c \notin Effects
        <3>1. c \in Producers
            BY <2>2 DEF Producers, Evaluated
        <3>2. changedAt'[c] = clock + 1 /\ \A d \in Producers \ {c} : changedAt'[d] = changedAt[d]
            BY <1>1, <2>2, <3>1 DEF GraphInv, ClocksOK
        <3>3. \A n \in Evaluated : /\ mark'[n] = "clean" => mk[n] = "clean"
                                   /\ mk[n] = "dirty" => mark'[n] = "dirty"
                                   /\ n \in watched /\ c \in Members(deps[n]) => mark'[n] = "dirty"
            BY <1>1, <2>2, WaveMarks
        <3> QED BY <1>1, <1>2, <1>4, <3>1, <3>2, <3>3 DEF Ticks
    <2> QED BY <2>1, <2>2
<1>6. DOMAIN stack' = {1} /\ stack'[1] = g
    BY <1>1
<1>7. \A k \in DOMAIN stack' : stack'[k].mode = "run" /\ stack'[k].seen = <<>>
    BY <1>3, <1>6
<1>8. Valued'
    BY <1>5, <1>7, TicksValued
<1>9. ASSUME NEW n \in Evaluated, Recorded(n) PROVE Recorded(n)'
    <2>1. CASE n = c
        <3>1. n \in Computing'
            BY <1>3, <1>6, <2>1 DEF Computing
        <3> QED BY <3>1 DEF Recorded, Due
    <2>2. CASE n # c
        <3>1. n \in settling.nodes => n \in settling'.nodes
            BY <1>1, <2>2 DEF GraphInv, SettlingOK
        <3>2. \A t \in Thenables : WaitsFor(n, t) => WaitsFor(n, t)'
            BY <1>1, <3>1 DEF WaitsFor
        <3>3. \A t \in Thenables : status[t] \in {"fulfilled", "rejected"} => status'[t] = status[t] /\ result'[t] = result[t]
            BY <1>1
        <3> QED BY <1>1, <1>5, <1>7, <1>9, <2>2, <3>2, <3>3, TicksRecord
    <2> QED BY <2>1, <2>2
<1> QED BY <1>8, <1>9 DEF KeepsValues, KeepsRecords

-----------------------------------------------------------------------------
(***************************************************************************)
(* Every step                                                              *)
(***************************************************************************)

\* Who a task is for.
Asked ==
    /\ task.op \in {"create", "drain"} => task.of \in Effects
    /\ task.op = "notify" => task.of \in Watchers

\* The program calls for a pull, or none is needed.
LEMMA ReadsValues ==
    ASSUME GraphInv, Valued,
           \/ \E n \in Computeds : Read(n)
           \/ \E w \in Watchers : Notify(w)
           \/ \E e \in Effects : Drain(e) \/ CreateEffect(e)
    PROVE  KeepsValues
<1>1. /\ stack = <<>> /\ settling' = settling
      /\ UNCHANGED <<shape, val, clock, nodes, status, result, parkedNodes>>
    BY DEF Read, Notify, Drain, CreateEffect, Ready, owners, boxes
<1>2. CASE \E n \in Computeds : Read(n)
    <2>1. PICK n \in Computeds : stack' = <<Entered(n)>> /\ watched' = watched
        BY <1>2 DEF Read, owners
    <2>2. n \in Evaluated
        BY DEF Evaluated
    <2> QED BY <1>1, <2>1, <2>2, CallValues
<1>3. CASE \E w \in Watchers : Notify(w)
    <2>1. PICK w \in Watchers : /\ w \in scheduled /\ watched' = watched
                                /\ stack' = IF target[w] \in Atoms \/ IsFresh(target[w]) THEN <<>>
                                            ELSE <<Entered(target[w])>>
        BY <1>3 DEF Notify, owners
    <2>2. target[w] # None /\ target[w] \in Producers \cup {None}
        BY <2>1, KindsAssumption DEF GraphInv, OwnersOK, FlagsOK, Alive
    <2>3. target[w] \in Atoms \cup Evaluated
        BY <2>2 DEF Producers, Evaluated
    <2> QED BY <1>1, <2>1, <2>3, CallValues
<1>4. CASE \E e \in Effects : Drain(e)
    <2>1. PICK e \in Effects : /\ watched' = watched
                               /\ stack' = IF mark[e] = "clean" /\ cache[e] /= None THEN <<>> ELSE <<Entered(e)>>
        BY <1>4 DEF Drain, owners
    <2>2. e \in Evaluated
        BY DEF Evaluated
    <2> QED BY <1>1, <2>1, <2>2, CallValues
<1>5. CASE \E e \in Effects : CreateEffect(e)
    <2>1. PICK e \in Effects : watched' = watched \cup {e} /\ stack' = <<Frame(e, "run")>>
        BY <1>5 DEF CreateEffect
    <2>2. PICK g : g = Frame(e, "run")
        OBVIOUS
    <2>3. e \in Computing'
        <3>1. DOMAIN stack' = {1} /\ stack'[1] = g
            BY <2>1, <2>2
        <3>2. g.node = e /\ g.mode = "run"
            BY <2>2 DEF Frame
        <3> QED BY <3>1, <3>2 DEF Computing
    <2>4. e \in Evaluated
        BY DEF Evaluated
    <2> QED BY <1>1, <2>1, <2>3, <2>4, CallValues
<1> QED BY <1>2, <1>3, <1>4, <1>5

\* A subscription comes or goes.
LEMMA WatchValues ==
    ASSUME GraphInv, GraphInv', Validated, Valued, NEW w \in Watchers,
           (\E n \in Watchable : Subscribe(w, n)) \/ Unsubscribe(w)
    PROVE  KeepsValues
<1>d. PICK ds : ds = deps
    OBVIOUS
<1>l. PICK lf : lf = life
    OBVIOUS
<1>1. /\ stack = <<>> /\ stack' = <<>>
      /\ UNCHANGED <<shape, val, clock, changedAt, cache, async, status, result, parkedNodes, settling>>
      /\ \E n \in Watchable \cup {None} : Relink(deps, life, [target EXCEPT ![w] = n], mark, validAt)
    BY DEF Subscribe, Unsubscribe, Ready, boxes
<1>2. PICK n \in Watchable \cup {None} : Relink(deps, life, [target EXCEPT ![w] = n], mark, validAt)
    BY <1>1
<1>t. PICK tg : tg = [target EXCEPT ![w] = n]
    OBVIOUS
<1>3. Relink(ds, lf, tg, mark, validAt) /\ Alive(lf) \subseteq Alive(life)
    BY <1>2, <1>d, <1>l, <1>t
<1>4. tg \in [Watchers -> Producers \cup {None}]
    BY <1>t, ValuesAssumption DEF GraphInv, OwnersOK
<1>5. ds \in Graphs /\ \A m \in Evaluated : ds[m] = deps[m]
    BY <1>d DEF GraphInv, NodesOK
<1> QED BY <1>1, <1>3, <1>4, <1>5, OwnersValues

\* An effect is disposed.
LEMMA DisposedValues ==
    ASSUME GraphInv, GraphInv', Validated, Valued, NEW e \in Effects, Disposed(e), stack = <<>>, stack' = stack,
           UNCHANGED <<shape, val, clock, changedAt, cache, async, boxes, settling>>
    PROVE  KeepsValues
<1>d. PICK ds : ds = [deps EXCEPT ![e] = <<>>]
    OBVIOUS
<1>l. PICK lf : lf = [life EXCEPT ![e] = "disposed"]
    OBVIOUS
<1>t. PICK tg : tg = target
    OBVIOUS
<1>1. Relink(ds, lf, tg, mark, validAt)
    BY <1>d, <1>l, <1>t DEF Disposed
<1>2. Alive(lf) \subseteq Alive(life) /\ e \notin Alive(lf)
    BY <1>l DEF GraphInv, OwnersOK, Alive
<1>3. tg \in [Watchers -> Producers \cup {None}] /\ deps \in Graphs
    BY <1>t DEF GraphInv, OwnersOK, NodesOK
<1>4. ds \in Graphs
    <2>1. <<>> \in Seq(Producers)
        BY EmptySeq
    <2> QED BY <1>3, <1>d, <2>1 DEF Graphs
<1>5. \A m \in Evaluated : ds[m] = deps[m] \/ (m \in Effects \ Alive(lf) /\ ds[m] = <<>>)
    BY <1>2, <1>3, <1>d DEF Graphs
<1>6. stack' = <<>> /\ UNCHANGED <<shape, val, clock, changedAt, cache, async, status, result, parkedNodes, settling>>
    BY DEF boxes
<1> QED BY <1>1, <1>2, <1>3, <1>4, <1>5, <1>6, OwnersValues

\* Whatever the program does.
LEMMA ProgramValues ==
    ASSUME GraphInv, GraphInv', Validated, Valued, Program
    PROVE  KeepsValues
<1>1. ASSUME NEW e \in Effects, DisposeEffect(e) PROVE KeepsValues
    <2>1. /\ Disposed(e) /\ stack = <<>> /\ stack' = stack
          /\ UNCHANGED <<shape, val, clock, changedAt, cache, async, boxes, settling>>
        BY <1>1 DEF DisposeEffect, Ready
    <2> QED BY <2>1, DisposedValues
<1> QED BY <1>1, WriteValues, ReadsValues, WatchValues DEF Program

\* What stays when a drain throws: the computeds' records, and the effects' but
\* for those it preempts.
KeepsMost == Valued' /\ \A n \in Evaluated : (n \in Computeds \/ (Heard /\ ~Thrown)) /\ Recorded(n) => Recorded(n)'

\* What every step but a drain that throws does is more than what all do.
LEMMA KeepsAllIsMost == ASSUME KeepsValues PROVE KeepsMost
BY DEF KeepsValues, KeepsRecords, KeepsMost

\* A drain that throws preempts effects only.
LEMMA ThrownValues ==
    ASSUME GraphInv, Valued, Thrown, Preempt
    PROVE  KeepsMost
<1>1. /\ stack = <<>> /\ stack' = <<>>
      /\ UNCHANGED <<shape, val, clock, changedAt, validAt, cache, async, deps, watched, status, result, parkedNodes, settling>>
    BY DEF Thrown, EndDrain, Ended, owners, boxes
<1>2. scheduled \cap Computeds = {}
    BY KindsAssumption DEF GraphInv, OwnersOK, FlagsOK, Alive, Sinks
<1>3. /\ \A n \in Computeds : mark'[n] = mark[n]
      /\ \A n \in Evaluated : mark[n] = "clean" => mark'[n] = "clean"
    BY <1>2 DEF Preempt, Evaluated
<1>4. Valued'
    BY <1>1, <1>3 DEF Valued, Remembered, NewClean, Exact
<1>5. ASSUME NEW n \in Computeds, Recorded(n) PROVE Recorded(n)'
    <2> SUFFICES ASSUME Due(n)' PROVE Due(n) /\ Stands(n)
        BY <1>5, KeepsRecord
    <2>1. Computing = {} /\ Computing' = {}
        BY <1>1 DEF Computing
    <2>2. \A d : Outcome(d)' = Outcome(d)
        BY <1>1 DEF Outcome
    <2>3. \A d : Heeds(n, d)' => Heeds(n, d)
        BY <1>1, <1>3 DEF Heeds, IsFresh, Watched, Confirming
    <2>4. Stands(n)
        BY <1>1, <2>2, <2>3 DEF Stands, WaitsFor
    <2> QED BY <1>3, <2>1, <2>4 DEF Due
<1> QED BY <1>4, <1>5 DEF KeepsMost

\* Whatever ends.
LEMMA EndValues ==
    ASSUME GraphInv, GraphInv', Validated, Valued, Asked, End
    PROVE  KeepsMost
<1>1. /\ stack = <<>> /\ stack' = stack
      /\ UNCHANGED <<shape, val, clock, changedAt, cache, async, boxes, settling>>
    BY DEF End, EndRead, EndNotify, EndCreate, EndDrain, Ended, nodes
<1>2. ASSUME UNCHANGED <<mark, validAt, deps, watched>> PROVE KeepsMost
    <2>1. UNCHANGED <<shape, val, clock, nodes, status, result, parkedNodes>>
        BY <1>1, <1>2 DEF nodes, boxes
    <2> QED BY <1>1, <1>2, <2>1, CallValues, KeepsAllIsMost
<1>3. CASE EndRead \/ EndNotify
    <2>1. UNCHANGED <<mark, validAt, deps, watched>>
        BY <1>3 DEF EndRead, EndNotify, owners, nodes
    <2> QED BY <1>2, <2>1
<1>4. CASE EndCreate
    <2>1. Disposed(task.of) \/ UNCHANGED <<mark, validAt, deps, watched>>
        BY <1>4 DEF EndCreate, owners
    <2>2. task.of \in Effects
        BY <1>4 DEF EndCreate, Ended, Asked
    <2>3. CASE Disposed(task.of)
        BY <1>1, <2>2, <2>3, DisposedValues, KeepsAllIsMost
    <2> QED BY <1>2, <2>1, <2>3
<1>5. CASE EndDrain
    <2>1. UNCHANGED <<validAt, deps, watched>>
        BY <1>5 DEF EndDrain, owners
    <2>2. (Thrown /\ Preempt) \/ mark' = mark
        BY <1>5 DEF EndDrain, Thrown
    <2> QED BY <1>2, <2>1, <2>2, ThrownValues
<1> QED BY <1>3, <1>4, <1>5 DEF End

\* Whatever a settlement does.
LEMMA SettlementValues ==
    ASSUME GraphInv, Valued, Settlement
    PROVE  KeepsValues
<1>1. CASE SettleDone
    <2>1. /\ UNCHANGED <<shape, val, clock, nodes, status, result, parkedNodes, watched>>
          /\ stack = <<>> /\ stack' = <<>>
        BY <1>1 DEF SettleDone, Ready, owners
    <2>2. settling'.nodes = settling.nodes
        BY <1>1 DEF SettleDone, Ready, Nothing
    <2> QED BY <2>1, <2>2, CallValues
<1> QED BY <1>1, SettleValues, SettleNodeValues DEF Settlement

\* Tasks are for who they are for.
LEMMA AskedStep ==
    ASSUME Asked, [Next]_vars
    PROVE  Asked'
<1>1. CASE Pull
    <2>1. task' = task
        BY <1>1 DEF Pull, CheckStep, ReadAtom, PullDependency, ReadComputed, UseThenable, Return, ThrowCycle, Quiet
    <2> QED BY <2>1 DEF Asked
<1>2. CASE Program
    <2>1. \/ task' = task \/ task'.op = "read"
          \/ task'.op \in {"create", "drain"} /\ task'.of \in Effects
          \/ task'.op = "notify" /\ task'.of \in Watchers
        <3>1. CASE \E e \in Effects : CreateEffect(e) \/ DisposeEffect(e) \/ Drain(e)
            BY <3>1 DEF Drain, CreateEffect, DisposeEffect
        <3>2. CASE \E w \in Watchers : Unsubscribe(w) \/ Notify(w)
            BY <3>2 DEF Unsubscribe, Notify
        <3>3. CASE \E w \in Watchers, n \in Watchable : Subscribe(w, n)
            BY <3>3 DEF Subscribe
        <3>4. CASE \E n \in Computeds : Read(n)
            BY <3>4 DEF Read
        <3>5. CASE \E a \in Atoms, v \in Values : Write(a, v)
            BY <3>5 DEF Write
        <3> QED BY <1>2, <3>1, <3>2, <3>3, <3>4, <3>5 DEF Program
    <2> QED BY <2>1 DEF Asked
<1>3. CASE End
    <2>1. task'.op = "idle"
        BY <1>3 DEF End, EndRead, EndNotify, EndCreate, EndDrain, Ended, Idle
    <2> QED BY <2>1 DEF Asked
<1>4. CASE Settlement
    <2>1. task' = task \/ task'.op = "read"
        <3>1. ASSUME NEW p, NEW how, NEW v, Settle(p, how, v) PROVE task' = task
            BY <3>1 DEF Settle
        <3>2. ASSUME NEW n, SettleNode(n) PROVE task'.op = "read"
            <4>1. task' = [op |-> "read", of |-> n]
                BY <3>2 DEF SettleNode
            <4> QED BY <4>1
        <3>3. SettleDone => task' = task
            BY DEF SettleDone
        <3> QED BY <1>4, <3>1, <3>2, <3>3 DEF Settlement
    <2> QED BY <2>1 DEF Asked
<1>5. CASE UNCHANGED vars
    BY <1>5 DEF vars, Asked
<1> QED BY <1>1, <1>2, <1>3, <1>4, <1>5 DEF Next

\* Whatever happens, but a circle closed and a stale value served.
LEMMA ValuesStep ==
    ASSUME BodiesAreWellTyped, GraphSound, Valued, Asked, [Next]_vars, ~ThrowCycle, ~ServesStale
    PROVE  KeepsMost
<1>1. GraphInv /\ Validated /\ GraphInv'
    BY SoundStep DEF GraphSound
<1> QED BY <1>1, PullValues, ProgramValues, EndValues, SettlementValues, StutterValues, KeepsAllIsMost DEF Next

\* Nothing is fresh at first.
LEMMA ValuesInit == Init => Valued /\ Asked /\ \A n \in Evaluated : Recorded(n)
<1> SUFFICES ASSUME Init PROVE Valued /\ Asked /\ \A n \in Evaluated : Recorded(n)
    OBVIOUS
<1>1. /\ stack = <<>> /\ task = Idle /\ validAt = [n \in Evaluated |-> 0] /\ clock = 1
      /\ mark = [n \in Evaluated |-> "dirty"] /\ async = [n \in Evaluated |-> Plain]
    BY DEF Init
<1>2. Valued
    BY <1>1 DEF Valued, Remembered, NewClean, Exact, Plain
<1>3. Asked
    BY <1>1 DEF Asked, Idle
<1>4. \A n \in Evaluated : ~Due(n)
    BY <1>1 DEF Due
<1> QED BY <1>2, <1>3, <1>4 DEF Recorded

-----------------------------------------------------------------------------
(***************************************************************************)
(* From records to what evaluating everything would give                   *)
(***************************************************************************)

\* g hands what it is asked at goes on to where to says, and stops elsewhere.
HandsOn(S, goes, to, stop, g) == g = [s \in S |-> IF s \in goes THEN g[to[s]] ELSE stop[s]]

\* A recursion that passes its argument on until it stops has a solution, also
\* where it never does.
LEMMA PassedOn ==
    ASSUME NEW S, NEW goes \in SUBSET S, NEW to \in [goes -> S], NEW stop
    PROVE  \E g : HandsOn(S, goes, to, stop, g)
<1> DEFINE Closed(C) == \A y \in C \cap goes : to[y] \in C
           Reach(s) == {x \in S : \A C \in SUBSET S : s \in C /\ Closed(C) => x \in C}
           Stops(s) == Reach(s) \ goes
           At(X) == stop[CHOOSE x : x \in X]
           g == [s \in S |-> At(Stops(s))]
<1>1. ASSUME NEW s \in goes PROVE Stops(s) = Stops(to[s])
    <2>0. s \in S /\ to[s] \in S
        OBVIOUS
    <2>1. Reach(to[s]) \subseteq Reach(s)
        BY <2>0
    <2>2. Reach(s) \subseteq {s} \cup Reach(to[s])
        <3> DEFINE C0 == {s} \cup Reach(to[s])
        <3>1. C0 \in SUBSET S
            BY <2>0
        <3>2. to[s] \in Reach(to[s])
            BY <2>0
        <3>3. ASSUME NEW y \in Reach(to[s]), y \in goes PROVE to[y] \in Reach(to[s])
            BY <3>3
        <3>4. Closed(C0)
            BY <3>2, <3>3
        <3> QED BY <3>1, <3>4
    <2> HIDE DEF Reach
    <2> QED BY <2>1, <2>2
<1>2. ASSUME NEW s \in S \ goes PROVE Stops(s) = {s}
    <2>1. Closed({s}) /\ {s} \in SUBSET S
        OBVIOUS
    <2>2. Reach(s) \subseteq {s}
        BY <2>1
    <2>3. s \in Reach(s)
        OBVIOUS
    <2> HIDE DEF Reach
    <2> QED BY <2>2, <2>3
<1> HIDE DEF Stops
<1>3. ASSUME NEW s \in S PROVE g[s] = IF s \in goes THEN g[to[s]] ELSE stop[s]
    <2>1. CASE s \in goes
        <3>1. to[s] \in S /\ Stops(s) = Stops(to[s])
            BY <1>1, <2>1
        <3>2. PICK X : X = Stops(s)
            OBVIOUS
        <3>3. g[s] = At(X) /\ g[to[s]] = At(X)
            BY <3>1, <3>2
        <3> QED BY <2>1, <3>3
    <2>2. CASE s \notin goes
        <3>1. Stops(s) = {s}
            BY <1>2, <2>2
        <3>2. g[s] = At({s})
            BY <3>1
        <3>3. At({s}) = stop[s]
            OBVIOUS
        <3> QED BY <2>2, <3>2, <3>3
    <2> QED BY <2>1, <2>2
<1>4. g = [s \in S |-> IF s \in goes THEN g[to[s]] ELSE stop[s]]
    <2>1. g = [s \in S |-> g[s]]
        OBVIOUS
    <2> HIDE DEF g
    <2> QED BY <1>3, <2>1
<1>5. HandsOn(S, goes, to, stop, g)
    <2> HIDE DEF g
    <2> QED BY <1>4 DEF HandsOn
<1> HIDE DEF g
<1> QED BY <1>5

\* How a run of n's body goes on in env.
RunsOn(n, env, R, seen) ==
    LET i == Body(shape, n, seen) IN
    IF i.op = "done" THEN Just(i.of)
    ELSE IF i.op = "throw" THEN Failed(i.of)
    ELSE IF \E v \in Values : Got(i, env) = Just(v)
         THEN R[Append(seen, Got(i, env).of)]
         ELSE Got(i, env)

\* An evaluation is found read by read.
LEMMA EvaluationRuns ==
    ASSUME NEW n, NEW env
    PROVE  \E R : /\ \A seen \in Seq(Values) : R[seen] = RunsOn(n, env, R, seen)
                  /\ Evaluation(n, env) = R[<<>>]
<1> DEFINE S == Seq(Values)
           B(seen) == Body(shape, n, seen)
           goes == {seen \in S : B(seen).op # "done" /\ B(seen).op # "throw" /\ \E v \in Values : Got(B(seen), env) = Just(v)}
           to == [seen \in goes |-> Append(seen, Got(B(seen), env).of)]
           stop == [seen \in S |-> IF B(seen).op = "done" THEN Just(B(seen).of)
                                   ELSE IF B(seen).op = "throw" THEN Failed(B(seen).of)
                                   ELSE Got(B(seen), env)]
           F(g) == [seen \in Seq(Values) |->
                      LET i == Body(shape, n, seen) IN
                      IF i.op = "done" THEN [kind |-> "value", of |-> i.of]
                      ELSE IF i.op = "throw" THEN Failed(i.of)
                      ELSE IF \E v \in Values : Got(i, env) = [kind |-> "value", of |-> v]
                           THEN g[Append(seen, Got(i, env).of)]
                           ELSE Got(i, env)]
           R == CHOOSE g : g = F(g)
<1>1. to \in [goes -> S]
    <2>1. ASSUME NEW seen \in goes PROVE Append(seen, Got(B(seen), env).of) \in S
        <3>1. PICK v \in Values : Got(B(seen), env) = Just(v)
            OBVIOUS
        <3>2. Got(B(seen), env).of = v
            BY <3>1 DEF Just
        <3> HIDE DEF B
        <3> QED BY <3>2
    <2> HIDE DEF B
    <2> QED BY <2>1
<1>2. PICK g : g = [s \in S |-> IF s \in goes THEN g[to[s]] ELSE stop[s]]
    <2> HIDE DEF S, to, stop
    <2>1. goes \in SUBSET S
        OBVIOUS
    <2> HIDE DEF goes
    <2>2. PICK A, G, T, U : A = S /\ G = goes /\ T = to /\ U = stop
        OBVIOUS
    <2>3. G \in SUBSET A /\ T \in [G -> A]
        BY <1>1, <2>1, <2>2
    <2>4. PICK g : HandsOn(A, G, T, U, g)
        BY <2>3, PassedOn
    <2> QED BY <2>2, <2>4 DEF HandsOn
<1>3. ASSUME NEW seen \in S PROVE (IF seen \in goes THEN g[to[seen]] ELSE stop[seen]) = RunsOn(n, env, g, seen)
    <2>1. PICK i, w : i = Body(shape, n, seen) /\ w = Got(i, env)
        OBVIOUS
    <2>2. RunsOn(n, env, g, seen) = IF i.op = "done" THEN Just(i.of)
                                    ELSE IF i.op = "throw" THEN Failed(i.of)
                                    ELSE IF \E v \in Values : w = Just(v) THEN g[Append(seen, w.of)] ELSE w
        BY <2>1 DEF RunsOn
    <2>3. seen \in goes <=> i.op # "done" /\ i.op # "throw" /\ \E v \in Values : w = Just(v)
        BY <2>1
    <2>4. seen \in goes => to[seen] = Append(seen, w.of)
        BY <2>1
    <2>5. stop[seen] = IF i.op = "done" THEN Just(i.of) ELSE IF i.op = "throw" THEN Failed(i.of) ELSE w
        BY <2>1
    <2> HIDE DEF goes, to, stop
    <2> QED BY <2>2, <2>3, <2>4, <2>5
<1>4. \A h : F(h) = [seen \in S |-> RunsOn(n, env, h, seen)]
    BY DEF RunsOn, Just
<1>5. g = F(g)
    <2> HIDE DEF F, goes, to, stop, S
    <2> QED BY <1>2, <1>3, <1>4
<1>6. R = F(R)
    <2> HIDE DEF F
    <2> QED BY <1>5
<1>7. R = [seen \in S |-> RunsOn(n, env, R, seen)]
    <2> HIDE DEF F, R, S
    <2> QED BY <1>4, <1>6
<1>8. Evaluation(n, env) = R[<<>>]
    BY DEF Evaluation
<1>9. \A seen \in Seq(Values) : R[seen] = RunsOn(n, env, R, seen)
    <2>1. PICK Q : Q = R
        OBVIOUS
    <2>2. Q = [seen \in S |-> RunsOn(n, env, Q, seen)]
        <3> HIDE DEF R, S
        <3> QED BY <1>7, <2>1
    <2>3. \A seen \in Seq(Values) : Q[seen] = RunsOn(n, env, Q, seen)
        BY <2>2
    <2> HIDE DEF R
    <2> QED BY <2>1, <2>3
<1> HIDE DEF R
<1> QED BY <1>8, <1>9

\* env has what n's computed dependencies serve.
Knows(env, n) == \A d \in Members(deps[n]) \cap Computeds : env[d] = Outcome(d)

\* What a read of the trace gave, it gives in an env that knows the dependencies.
LEMMA GotAgain ==
    ASSUME GraphInv, NEW n \in Evaluated, IsFresh(n), NEW env, Knows(env, n),
           NEW seen, NEW k, Retraces(n, seen, k)
    PROVE  LET i == Body(shape, n, SubSeq(seen, 1, k - 1)) IN
           i.op \in {"read", "use"} /\ Got(i, env) = Just(seen[k])
<1>1. PICK i : i = Body(shape, n, SubSeq(seen, 1, k - 1))
    OBVIOUS
<1>2. \A d \in Members(deps[n]) : d \in Atoms \/ d \in Computeds
    BY DEF GraphInv, NodesOK, Graphs, Members, Producers
<1>3. CASE i.op = "read" /\ i.of \in Members(deps[n]) /\ (Heeds(n, i.of) => Outcome(i.of) = Just(seen[k]))
    <2>1. Outcome(i.of) = Just(seen[k])
        BY <1>3 DEF Heeds
    <2>2. CASE i.of \in Atoms
        <3>1. Got(i, env) = Just(val[i.of])
            BY <1>3, <2>2 DEF Got, Just
        <3>2. Outcome(i.of) = Just(val[i.of])
            BY <2>2, Zenon DEF Outcome, Just
        <3> QED BY <1>1, <1>3, <2>1, <3>1, <3>2
    <2>3. CASE i.of \notin Atoms
        <3>1. env[i.of] = Outcome(i.of)
            BY <1>2, <1>3, <2>3 DEF Knows
        <3>2. Got(i, env) = env[i.of]
            BY <1>3, <2>3 DEF Got
        <3> QED BY <1>1, <1>3, <2>1, <3>1, <3>2
    <2> QED BY <2>2, <2>3
<1>4. CASE i.op = "use" /\ Answers(i.of, seen[k])
    BY <1>1, <1>4 DEF Answers, Got, Just
<1> QED BY <1>1, <1>3, <1>4 DEF Retraces

\* A fresh node with a record serves what evaluating it gives, where its
\* dependencies have what they serve.
LEMMA JustifiedIsCurrent ==
    ASSUME GraphInv, settling.nodes = {}, NEW n \in Evaluated, IsFresh(n), Justified(n), NEW env, Knows(env, n)
    PROVE  Evaluation(n, env) = Outcome(n)
<1>1. PICK seen \in Seq(Values) : (\A k \in 1..Len(seen) : Retraces(n, seen, k)) /\ Concluded(n, seen)
    BY DEF Justified
<1>2. PICK R : (\A s \in Seq(Values) : R[s] = RunsOn(n, env, R, s)) /\ Evaluation(n, env) = R[<<>>]
    BY EvaluationRuns
<1> DEFINE L == Len(seen)
           P == {k \in 0..L : R[SubSeq(seen, 1, k)] = R[<<>>]}
<1>3. L \in Nat /\ DOMAIN seen = 1..L /\ \A k \in 1..L : seen[k] \in Values
    OBVIOUS
<1>4. \A k \in 0..L : SubSeq(seen, 1, k) \in Seq(Values)
    BY <1>3
<1>5. 0 \in P
    <2>1. SubSeq(seen, 1, 0) = <<>>
        OBVIOUS
    <2>2. R[SubSeq(seen, 1, 0)] = R[<<>>]
        BY <2>1, Zenon
    <2>3. 0 \in 0..L
        BY <1>3
    <2> QED BY <2>2, <2>3
<1>6. ASSUME NEW k \in 1..L, k - 1 \in P PROVE k \in P
    <2>1. PICK s, i, v : s = SubSeq(seen, 1, k - 1) /\ i = Body(shape, n, s) /\ v = seen[k]
        OBVIOUS
    <2>2. s \in Seq(Values) /\ v \in Values
        BY <1>3, <1>4, <2>1
    <2>3. i.op \in {"read", "use"} /\ Got(i, env) = Just(v)
        <3>1. Retraces(n, seen, k)
            BY <1>1
        <3> QED BY <2>1, <3>1, GotAgain
    <2>4. PICK w : w = Got(i, env)
        OBVIOUS
    <2>5. w = Just(v) /\ w.of = v
        BY <2>3, <2>4 DEF Just
    <2>6. R[s] = R[Append(s, v)]
        <3>1. R[s] = RunsOn(n, env, R, s)
            BY <1>2, <2>2
        <3>2. RunsOn(n, env, R, s) = IF \E u \in Values : w = Just(u) THEN R[Append(s, w.of)] ELSE w
            BY <2>1, <2>3, <2>4 DEF RunsOn
        <3> QED BY <2>2, <2>5, <3>1, <3>2
    <2>7. Append(s, v) = SubSeq(seen, 1, k)
        BY <1>3, <2>1
    <2>8. R[s] = R[<<>>]
        BY <1>6, <2>1
    <2> QED BY <1>3, <2>6, <2>7, <2>8
<1>7. R[seen] = R[<<>>]
    <2>1. L \in P
        <3> HIDE DEF P
        <3>1. 0..L \subseteq P
            BY <1>3, <1>5, <1>6, InductionTo
        <3> QED BY <1>3, <3>1
    <2>2. SubSeq(seen, 1, L) = seen
        BY <1>3
    <2> QED BY <2>1, <2>2
<1>8. PICK i, o, w : i = Body(shape, n, seen) /\ o = Outcome(n) /\ w = Got(i, env)
    OBVIOUS
<1>9. R[seen] = IF i.op = "done" THEN Just(i.of)
                ELSE IF i.op = "throw" THEN Failed(i.of)
                ELSE IF \E v \in Values : w = Just(v) THEN R[Append(seen, w.of)] ELSE w
    BY <1>2, <1>8 DEF RunsOn
<1>10. \/ i.op = "done" /\ o = Just(i.of)
       \/ i.op = "throw" /\ o = Failed(i.of)
       \/ /\ i.op = "read" /\ i.of \in Members(deps[n]) \cap Computeds /\ o.kind # "value"
          /\ Heeds(n, i.of) => Outcome(i.of) = o
       \/ i.op = "use" /\ i.of \in Thenables /\ status[i.of] = "rejected" /\ o = Failed(Rejection)
       \/ i.op = "use" /\ WaitsFor(n, i.of) /\ o = Wait
    BY <1>1, <1>8 DEF Concluded
<1>11. (i.op \notin {"done", "throw"} /\ w = o /\ o.kind # "value") => R[seen] = o
    <2>1. \A v : Just(v).kind = "value"
        BY DEF Just
    <2> QED BY <1>9, <2>1
<1>12. R[seen] = o
    <2>1. CASE i.op = "done" \/ i.op = "throw"
        BY <1>9, <1>10, <2>1
    <2>2. CASE i.op = "read" /\ i.of \in Members(deps[n]) \cap Computeds /\ o.kind # "value"
               /\ (Heeds(n, i.of) => Outcome(i.of) = o)
        <3>1. i.of \notin Atoms
            BY <2>2, KindsAssumption DEF Evaluated
        <3>2. w = env[i.of]
            BY <1>8, <2>2, <3>1 DEF Got
        <3>3. w = o
            BY <2>2, <3>2 DEF Knows, Heeds
        <3> QED BY <1>11, <2>2, <3>3
    <2>3. CASE i.op = "use" /\ i.of \in Thenables /\ status[i.of] = "rejected" /\ o = Failed(Rejection)
        <3>1. w = o
            BY <1>8, <2>3 DEF Got
        <3>2. o.kind # "value"
            BY <2>3 DEF Failed
        <3> QED BY <1>11, <2>3, <3>1, <3>2
    <2>4. CASE i.op = "use" /\ WaitsFor(n, i.of) /\ o = Wait
        <3>1. status[i.of] = "pending"
            BY <2>4 DEF WaitsFor
        <3>2. w = o
            BY <1>8, <2>4, <3>1 DEF Got, Wait
        <3>3. o.kind # "value"
            BY <2>4 DEF Wait
        <3> QED BY <1>11, <2>4, <3>2, <3>3
    <2> QED BY <1>10, <2>1, <2>2, <2>3, <2>4
<1> QED BY <1>2, <1>7, <1>8, <1>12

\* Among computeds there is one that reads none of them.
LEMMA SomeLeaf ==
    ASSUME NEW ds, Ordered(ds), NEW X \in SUBSET Computeds, X # {}
    PROVE  \E x \in X : Members(ds[x]) \cap X = {}
<1> DEFINE Leafless(Y) == Y # {} /\ \A y \in Y : Members(ds[y]) \cap Y # {}
           Sizes == {Cardinality(Y) : Y \in {Z \in SUBSET Computeds : Leafless(Z)}}
<1> SUFFICES ASSUME Leafless(X) PROVE FALSE
    OBVIOUS
<1>1. \A Y \in SUBSET Computeds : IsFiniteSet(Y) /\ Cardinality(Y) \in Nat
    <2>1. IsFiniteSet(Computeds)
        BY KindsAssumption, FS_Subset DEF Evaluated
    <2> QED BY <2>1, FS_Subset, FS_CardinalityType
<1>2. Sizes \in SUBSET Nat /\ Sizes # {}
    <2> HIDE DEF Leafless
    <2> QED BY <1>1
<1>3. PICK m \in Sizes : \A k \in Sizes : m <= k
    <2> HIDE DEF Sizes
    <2> QED BY <1>2, LeastNatural
<1>4. PICK Y \in SUBSET Computeds : Leafless(Y) /\ Cardinality(Y) = m
    BY <1>3
<1>5. PICK x \in Y : \A y \in Y : x \notin Members(ds[y])
    BY <1>4 DEF Ordered
<1> DEFINE Z == Y \ {x}
<1>6. Leafless(Z)
    BY <1>4, <1>5
<1>7. Cardinality(Z) = m - 1 /\ Z \in SUBSET Computeds
    BY <1>1, <1>4, <1>5, FS_RemoveElement
<1>8. m - 1 \in Sizes
    <2> HIDE DEF Leafless, Z
    <2> QED BY <1>6, <1>7
<1>9. m \in Nat
    BY <1>2, <1>3
<1> QED BY <1>3, <1>8, <1>9

\* What every evaluated node gives where the nodes have the outcomes env.
Evaluations(env) == [n \in Evaluated |-> Evaluation(n, env)]

\* The current outcomes are found level by level.
LEMMA CurrentSteps ==
    ASSUME NEW N, N = Cardinality(Evaluated)
    PROVE  \E D : /\ \A k \in 1..N : D[k] = Evaluations(D[k-1])
                  /\ \A n \in Evaluated : Current[n] = D[N][n]
                  /\ \A a \in Atoms : Current[a] = Just(val[a])
<1> DEFINE b == [n \in Evaluated |-> Failed(Cycle)]
           F(g) == [k \in 0..N |-> IF k = 0 THEN [n \in Evaluated |-> Failed(Cycle)]
                                   ELSE LET below == g[k-1] IN [n \in Evaluated |-> Evaluation(n, below)]]
           Run(m, g) == g[0] = b /\ \A k \in 1..m : g[k] = Evaluations(g[k-1])
           Has(m) == \E g : g = [k \in 0..m |-> g[k]] /\ Run(m, g)
           Bad == {m \in 0..N : ~Has(m)}
           D == CHOOSE g : g = F(g)
<1>1. N \in Nat
    BY KindsAssumption, FS_CardinalityType
<1>2. Has(0)
    <2>1. PICK g : g = [k \in 0..0 |-> b]
        OBVIOUS
    <2> HIDE DEF b
    <2>2. g[0] = b /\ g = [k \in 0..0 |-> g[k]]
        BY <2>1
    <2> QED BY <2>2
<1>3. ASSUME NEW m \in 1..N, Has(m-1) PROVE Has(m)
    <2>1. PICK g : g = [k \in 0..(m-1) |-> g[k]] /\ Run(m-1, g)
        BY <1>3
    <2>2. PICK v : v = Evaluations(g[m-1])
        OBVIOUS
    <2>3. PICK h : h = [k \in 0..m |-> IF k = m THEN v ELSE g[k]]
        OBVIOUS
    <2> HIDE DEF b
    <2>4. m \in Nat /\ m > 0
        BY <1>1
    <2>5. h[0] = b /\ h = [k \in 0..m |-> h[k]] /\ h[m] = v /\ \A k \in 0..(m-1) : h[k] = g[k]
        BY <2>1, <2>3, <2>4
    <2>6. ASSUME NEW k \in 1..m PROVE h[k] = Evaluations(h[k-1])
        <3>1. CASE k = m
            <4>1. m - 1 \in 0..(m-1)
                BY <2>4
            <4> QED BY <2>2, <2>5, <3>1, <4>1
        <3>2. CASE k # m
            <4>1. k \in 0..(m-1) /\ k-1 \in 0..(m-1) /\ k \in 1..(m-1)
                BY <2>4, <3>2
            <4> QED BY <2>1, <2>5, <4>1
        <3> QED BY <3>1, <3>2
    <2> QED BY <2>5, <2>6
<1>4. Has(N)
    <2> HIDE DEF Has
    <2> SUFFICES ASSUME Bad # {} PROVE FALSE
        BY <1>1
    <2>1. Bad \in SUBSET Nat
        OBVIOUS
    <2>2. PICK m \in Bad : \A k \in Bad : m <= k
        <3> HIDE DEF Bad
        <3> QED BY <2>1, LeastNatural
    <2>3. m \in 1..N /\ m-1 \in 0..N /\ m-1 \notin Bad
        BY <1>1, <1>2, <2>2
    <2> QED BY <1>3, <2>2, <2>3
<1>5. PICK g : g = [k \in 0..N |-> g[k]] /\ Run(N, g)
    BY <1>4
<1>6. g = F(g)
    <2>1. ASSUME NEW k \in 0..N PROVE g[k] = F(g)[k]
        <3>1. CASE k = 0
            BY <3>1, <1>5
        <3>2. CASE k # 0
            <4>1. k \in 1..N
                BY <1>1, <3>2
            <4>2. g[k] = [n \in Evaluated |-> Evaluation(n, g[k-1])]
                BY <1>5, <4>1 DEF Evaluations
            <4> QED BY <3>2, <4>2
        <3> QED BY <3>1, <3>2
    <2> QED BY <2>1, <1>5
<1>7. D = F(D)
    <2> HIDE DEF F
    <2> QED BY <1>6
<1>8. \A k \in 1..N : D[k] = Evaluations(D[k-1])
    <2>1. \A k \in 0..N : D[k] = F(D)[k]
        <3> HIDE DEF F, D
        <3>1. PICK Q : Q = F(D)
            OBVIOUS
        <3> QED BY <1>7
    <2> HIDE DEF D
    <2> QED BY <1>1, <2>1 DEF Evaluations
<1>9. Current = [n \in Producers \cup Effects |-> IF n \in Atoms THEN Just(val[n]) ELSE D[N][n]]
    BY DEF Current, Just
<1> HIDE DEF D
<1>10. \A n \in Evaluated : Current[n] = D[N][n]
    BY <1>9, KindsAssumption DEF Producers, Evaluated
<1>11. \A a \in Atoms : Current[a] = Just(val[a])
    BY <1>9 DEF Producers
<1> QED BY <1>8, <1>10, <1>11

\* What every fresh computed serves is justified by what those it reads serve.
FreshJustified == \A n \in FreshOnes : Justified(n)

\* From as many levels on as there are computeds, every fresh one has its outcome.
LEMMA LevelsReach ==
    ASSUME GraphInv, settling.nodes = {}, Supported, FreshJustified, NEW N, N = Cardinality(Evaluated),
           NEW D, \A k \in 1..N : D[k] = Evaluations(D[k-1])
    PROVE  \A k \in Cardinality(Computeds)..N : \A n \in FreshOnes : D[k][n] = Outcome(n)
<1> DEFINE M == Cardinality(Computeds)
           Right(k) == {n \in FreshOnes : \A j \in k..N : D[j][n] = Outcome(n)}
           P == {k \in 0..N : Right(k) = FreshOnes \/ k <= Cardinality(Right(k))}
<1>1. /\ IsFiniteSet(Computeds) /\ M \in Nat /\ N \in Nat /\ M <= N
      /\ FreshOnes \subseteq Computeds /\ IsFiniteSet(FreshOnes)
    <2>1. FreshOnes \subseteq Computeds /\ Computeds \subseteq Evaluated
        BY DEF FreshOnes, FreshIn, Evaluated
    <2> QED BY <2>1, KindsAssumption, FS_Subset, FS_CardinalityType
<1>2. \A k : Right(k) \in SUBSET FreshOnes /\ IsFiniteSet(Right(k)) /\ Cardinality(Right(k)) \in Nat
    <2>1. ASSUME NEW k PROVE Right(k) \in SUBSET FreshOnes
        OBVIOUS
    <2> HIDE DEF Right
    <2> QED BY <1>1, <2>1, FS_Subset, FS_CardinalityType
<1>3. ASSUME NEW k \in 1..N PROVE Right(k-1) \subseteq Right(k)
    BY <1>1
<1>4. 0 \in P
    <2>1. Cardinality(Right(0)) \in Nat
        <3> HIDE DEF Right
        <3> QED BY <1>2
    <2> HIDE DEF Right
    <2> QED BY <1>1, <2>1
<1>5. ASSUME NEW k \in 1..N, k-1 \in P PROVE k \in P
    <2>1. CASE Right(k-1) = FreshOnes
        <3>1. Right(k) = FreshOnes
            <4>1. Right(k) \subseteq FreshOnes
                OBVIOUS
            <4> HIDE DEF Right
            <4> QED BY <1>3, <2>1, <4>1
        <3> HIDE DEF Right
        <3> QED BY <1>1, <3>1
    <2>2. CASE Right(k-1) # FreshOnes
        <3> DEFINE X == FreshOnes \ Right(k-1)
        <3>1. X \in SUBSET Computeds /\ X # {}
            <4> HIDE DEF Right
            <4> QED BY <1>1, <1>2, <2>2
        <3>2. PICK x \in X : Members(deps[x]) \cap X = {}
            <4> HIDE DEF X
            <4> QED BY <3>1, SomeLeaf DEF Supported
        <3>3. x \in Right(k)
            <4> SUFFICES ASSUME NEW j \in k..N PROVE D[j][x] = Outcome(x)
                BY <3>2
            <4>1. j \in 1..N /\ j-1 \in (k-1)..N
                BY <1>1
            <4>2. x \in FreshOnes /\ x \in Evaluated
                BY <3>2 DEF FreshOnes, FreshIn, Evaluated
            <4>3. ASSUME NEW d \in Members(deps[x]) \cap Computeds PROVE D[j-1][d] = Outcome(d)
                <5>1. d \in FreshOnes
                    BY <4>2 DEF Supported, Supports
                <5>2. d \in Right(k-1)
                    <6> HIDE DEF Right
                    <6> QED BY <3>2, <5>1
                <5> QED BY <4>1, <5>2
            <4>4. PICK env : env = D[j-1]
                OBVIOUS
            <4>5. Knows(env, x)
                BY <4>3, <4>4 DEF Knows
            <4>6. IsFresh(x) /\ Justified(x)
                BY <4>2 DEF FreshOnes, FreshIn, IsFresh, Watched, FreshJustified
            <4>7. Evaluation(x, env) = Outcome(x)
                BY <4>2, <4>5, <4>6, JustifiedIsCurrent
            <4>8. D[j] = Evaluations(env)
                BY <4>1, <4>4
            <4> QED BY <4>2, <4>7, <4>8 DEF Evaluations
        <3> DEFINE A == Right(k-1)
                   B == Right(k)
        <3>4. x \notin A /\ A \subseteq B /\ x \in B
            <4> HIDE DEF Right
            <4> QED BY <1>3, <3>2, <3>3
        <3>5. IsFiniteSet(A) /\ IsFiniteSet(B) /\ Cardinality(A) \in Nat /\ Cardinality(B) \in Nat
            <4> HIDE DEF Right
            <4> QED BY <1>2
        <3>6. k-1 <= Cardinality(A)
            <4> HIDE DEF Right
            <4> QED BY <1>5, <2>2
        <3> HIDE DEF A, B
        <3>7. Cardinality(A \cup {x}) = Cardinality(A) + 1 /\ Cardinality(A \cup {x}) <= Cardinality(B)
            <4>1. A \cup {x} \in SUBSET B
                BY <3>4
            <4> QED BY <3>4, <3>5, <4>1, FS_AddElement, FS_Subset
        <3>8. k <= Cardinality(B)
            BY <3>5, <3>6, <3>7
        <3> QED BY <1>1, <3>8 DEF B
    <2> QED BY <2>1, <2>2
<1>6. M \in P
    <2> HIDE DEF P
    <2>1. 0..N \subseteq P
        BY <1>1, <1>4, <1>5, InductionTo
    <2> QED BY <1>1, <2>1
<1>7. Right(M) = FreshOnes
    <2> SUFFICES ASSUME M <= Cardinality(Right(M)) PROVE Right(M) = FreshOnes
        BY <1>6
    <2> HIDE DEF Right
    <2>1. Right(M) \in SUBSET FreshOnes /\ Right(M) \in SUBSET Computeds
        BY <1>1, <1>2
    <2>2. Cardinality(Right(M)) <= M /\ Cardinality(Right(M)) \in Nat
        BY <1>1, <1>2, <2>1, FS_Subset
    <2>3. Cardinality(Right(M)) = M
        BY <1>1, <2>2
    <2>4. Computeds = Right(M)
        BY <1>1, <2>1, <2>3, FS_Subset
    <2> QED BY <1>1, <2>1, <2>4
<1> SUFFICES ASSUME NEW k \in M..N, NEW n \in FreshOnes PROVE D[k][n] = Outcome(n)
    OBVIOUS
<1>8. n \in Right(M)
    BY <1>7
<1> QED BY <1>8

\* Every fresh computed, and every fresh effect with a record whose
\* dependencies are fresh, has the outcome evaluating everything would give.
LEMMA FreshAreCurrent ==
    ASSUME GraphInv, settling.nodes = {}, Supported, FreshJustified
    PROVE  /\ \A n \in FreshOnes : Outcome(n) = Current[n]
           /\ \A e \in Effects : IsFresh(e) /\ Justified(e) /\ Members(deps[e]) \cap Computeds \subseteq FreshOnes
                                     => Outcome(e) = Current[e]
           /\ \A a \in Atoms : Outcome(a) = Current[a]
<1>n. PICK N : N = Cardinality(Evaluated)
    OBVIOUS
<1>1. PICK D : /\ \A k \in 1..N : D[k] = Evaluations(D[k-1])
               /\ \A n \in Evaluated : Current[n] = D[N][n]
               /\ \A a \in Atoms : Current[a] = Just(val[a])
    BY <1>n, CurrentSteps
<1>m. PICK M : M = Cardinality(Computeds)
    OBVIOUS
<1>2. \A k \in M..N : \A n \in FreshOnes : D[k][n] = Outcome(n)
    BY <1>1, <1>n, <1>m, LevelsReach
<1>3. IsFiniteSet(Evaluated) /\ Computeds \in SUBSET Evaluated /\ M \in Nat /\ N \in Nat /\ M <= N
    <2>1. IsFiniteSet(Evaluated) /\ Computeds \in SUBSET Evaluated
        BY KindsAssumption DEF Evaluated
    <2> QED BY <1>n, <1>m, <2>1, FS_Subset, FS_CardinalityType
<1>4. \A n \in FreshOnes : Outcome(n) = Current[n]
    <2>1. FreshOnes \subseteq Evaluated
        BY DEF FreshOnes, FreshIn, Evaluated
    <2> QED BY <1>1, <1>2, <1>3, <2>1
<1>5. ASSUME NEW e \in Effects, IsFresh(e), Justified(e), Members(deps[e]) \cap Computeds \subseteq FreshOnes
      PROVE  Outcome(e) = Current[e]
    <2>1. e \in Evaluated /\ e \notin Computeds
        BY KindsAssumption DEF Evaluated, Sinks
    <2>2. M # N
        BY <1>n, <1>m, <1>3, <2>1, FS_Subset
    <2>3. N - 1 \in M..N /\ N \in 1..N
        BY <1>3, <2>2
    <2>4. PICK env : env = D[N-1]
        OBVIOUS
    <2>5. Knows(env, e)
        BY <1>2, <1>5, <2>3, <2>4 DEF Knows
    <2>6. Evaluation(e, env) = Outcome(e)
        BY <1>5, <2>1, <2>5, JustifiedIsCurrent
    <2>7. D[N] = Evaluations(env)
        BY <1>1, <2>3, <2>4
    <2> QED BY <1>1, <2>1, <2>6, <2>7 DEF Evaluations
<1>6. \A a \in Atoms : Outcome(a) = Current[a]
    <2>1. \A a \in Atoms : Outcome(a) = Just(val[a])
        BY Zenon DEF Outcome, Just
    <2> QED BY <1>1, <2>1
<1> QED BY <1>4, <1>5, <1>6

-----------------------------------------------------------------------------
(***************************************************************************)
(* What a read serves                                                      *)
(***************************************************************************)

\* The invariant behind it.
Reproducible == GraphSound /\ Valued /\ Asked /\ \A n \in Computeds : Recorded(n)

\* The invariant is inductive.
LEMMA ReproducibleStep ==
    ASSUME BodiesAreWellTyped, Reproducible, [Next]_vars, [~ThrowCycle /\ ~ServesStale]_vars
    PROVE  Reproducible'
<1>1. GraphSound' /\ Asked'
    BY SoundStep, AskedStep DEF Reproducible
<1>2. KeepsMost
    <2>1. CASE ~ThrowCycle /\ ~ServesStale
        BY <2>1, ValuesStep DEF Reproducible
    <2>2. CASE UNCHANGED vars
        BY <2>2, StutterValues, KeepsAllIsMost DEF Reproducible
    <2> QED BY <2>1, <2>2
<1>3. Valued' /\ \A n \in Computeds : Recorded(n)'
    BY <1>2 DEF KeepsMost, Reproducible, Evaluated
<1> QED BY <1>1, <1>3 DEF Reproducible

\* What is fresh has a record.
LEMMA FreshHasRecord ==
    ASSUME GraphSound, \A n \in Computeds : Recorded(n)
    PROVE  FreshJustified /\ Supported /\ GraphInv
<1>1. GraphInv /\ Validated
    BY DEF GraphSound
<1>2. ASSUME NEW n \in FreshOnes PROVE Justified(n)
    <2>1. n \in Computeds /\ mark[n] = "clean"
        BY DEF FreshOnes, FreshIn
    <2>2. n \notin Computing
        <3> SUFFICES ASSUME NEW i \in DOMAIN stack, stack[i].mode = "run", stack[i].node = n PROVE FALSE
            BY DEF Computing
        <3>1. Owed(stack[i])
            BY <1>1 DEF Validated, FramesSound, Sound
        <3> QED BY <2>1, <3>1 DEF Owed
    <2>3. Due(n)
        BY <2>1, <2>2 DEF Due
    <2> QED BY <2>1, <2>3 DEF Recorded
<1> QED BY <1>1, <1>2 DEF FreshJustified, Validated

\* A computed counts as fresh where it does.
LEMMA FreshIsFresh == ASSUME NEW n \in Computeds PROVE IsFresh(n) <=> n \in FreshOnes
BY DEF IsFresh, FreshOnes, FreshIn, Watched

\* While no read closes a circle and none is served a stale value on purpose, a
\* node that a read would serve without evaluating anything serves what
\* evaluating everything would give.
THEOREM ReadsServeTheCurrent ==
    ASSUME BodiesAreWellTyped
    PROVE  Spec /\ [][~ThrowCycle /\ ~ServesStale]_vars => []ReadsAreCurrent
<1>1. Init => Reproducible
    BY SoundInit, ValuesInit DEF Reproducible, Evaluated
<1>2. Reproducible /\ [Next]_vars /\ [~ThrowCycle /\ ~ServesStale]_vars => Reproducible'
    BY ReproducibleStep
<1>3. Reproducible => ReadsAreCurrent
    <2> SUFFICES ASSUME Reproducible, settling.nodes = {}, NEW n \in Computeds, IsFresh(n)
                 PROVE  Outcome(n) = Current[n]
        BY DEF ReadsAreCurrent
    <2>1. GraphInv /\ Supported /\ FreshJustified
        BY FreshHasRecord DEF Reproducible
    <2> QED BY <2>1, FreshAreCurrent, FreshIsFresh
<1> QED BY <1>1, <1>2, <1>3, PTL DEF Spec

-----------------------------------------------------------------------------
(***************************************************************************)
(* Pulls, as those who asked for them see them                             *)
(***************************************************************************)

\* One of the frames st is of n.
Names(st, n) == \E i \in DOMAIN st : st[i].node = n
\* n is pulled: one of the frames on the stack is its.
OnStack(n) == Names(stack, n)

\* n needs no pull.
Rests(n) == mark[n] = "clean" /\ (n \in Computeds => n \in FreshOnes)

\* A step of a pull lets every frame end with a node that rests, and leaves what
\* is fresh, and the effects that are not pulled, as they are.
Spares ==
    /\ FreshOnes \subseteq FreshOnes'
    /\ \A d \in Atoms \cup FreshOnes : Outcome(d)' = Outcome(d)
    /\ \A e \in Effects : ~OnStack(e) => mark'[e] = mark[e] /\ cache'[e] = cache[e] /\ async'[e] = async[e]
    /\ \A n \in Evaluated : OnStack(n) => OnStack(n)' \/ Rests(n)'

\* What is pushed on frames covers none of them.
LEMMA PushedNodes ==
    ASSUME NEW under \in Seq(Frames), NEW g \in Frames, NEW st, st = <<g>> \o under
    PROVE  \A n : n = g.node \/ Names(under, n) => Names(st, n)
<1>1. DOMAIN under = 1..Len(under) /\ Len(under) \in Nat
    BY LenProperties
<1>2. <<g>> \in Seq(Frames) /\ Len(<<g>>) = 1 /\ <<g>>[1] = g
    OBVIOUS
<1>3. /\ st \in Seq(Frames) /\ Len(st) = 1 + Len(under)
      /\ \A j \in 1..(1 + Len(under)) : st[j] = IF j <= 1 THEN <<g>>[j] ELSE under[j-1]
    BY <1>1, <1>2, ConcatProperties
<1>4. DOMAIN st = 1..(1 + Len(under))
    BY <1>3, LenProperties
<1>5. 1 \in DOMAIN st /\ st[1] = g
    BY <1>1, <1>2, <1>3, <1>4
<1>6. ASSUME NEW j \in DOMAIN under PROVE \E k \in DOMAIN st : st[k].node = under[j].node
    <2>1. PICK k : k = j + 1
        OBVIOUS
    <2>2. k \in 1..(1 + Len(under)) /\ ~(k <= 1) /\ k - 1 = j
        BY <1>1, <2>1
    <2>3. st[k] = under[j]
        BY <1>3, <2>2
    <2> QED BY <1>4, <2>2, <2>3
<1> QED BY <1>5, <1>6 DEF Names

\* The nodes on the stack are the top's and those below.
LEMMA NodesBelow ==
    ASSUME GraphInv, stack # <<>>, NEW n, OnStack(n), NEW under, under = Below
    PROVE  n = Top.node \/ Names(under, n)
<1>1. PICK i \in DOMAIN stack : stack[i].node = n
    BY DEF OnStack, Names
<1>2. /\ DOMAIN stack = 1..Len(stack) /\ Len(stack) \in Nat /\ Top = stack[1]
      /\ DOMAIN under = 1..Len(under) /\ Len(under) = Len(stack) - 1
      /\ \A j \in 1..Len(under) : under[j] = stack[j+1]
    BY HeadTailProperties, LenProperties DEF GraphInv, StackOK, Top, Below
<1>3. CASE i = 1
    BY <1>1, <1>2, <1>3
<1>4. CASE i # 1
    <2>1. i - 1 \in DOMAIN under /\ (i - 1) + 1 = i
        BY <1>2, <1>4
    <2>2. under[i-1] = stack[i]
        BY <1>2, <2>1
    <2> QED BY <1>1, <2>1, <2>2 DEF Names
<1> QED BY <1>3, <1>4

\* A new frame, or another one of the node on top, leaves every node on the stack.
LEMMA FramesStay ==
    ASSUME GraphInv, stack # <<>>, NEW g \in Frames,
           stack' = <<g>> \o stack \/ (stack' = <<g>> \o Below /\ g.node = Top.node)
    PROVE  \A n : OnStack(n) => OnStack(n)'
<1> SUFFICES ASSUME NEW n, OnStack(n) PROVE OnStack(n)'
    OBVIOUS
<1>1. PICK under, st : st = <<g>> \o under /\ stack' = st
                       /\ (under = stack \/ (under = Below /\ g.node = Top.node))
    OBVIOUS
<1>2. under \in Seq(Frames)
    BY <1>1, UnderTop DEF GraphInv, StackOK
<1>3. n = g.node \/ Names(under, n)
    <2>1. CASE under = stack
        BY <2>1 DEF OnStack
    <2>2. CASE under = Below /\ g.node = Top.node
        BY <2>2, NodesBelow
    <2> QED BY <1>1, <2>1, <2>2
<1>4. Names(st, n)
    BY <1>1, <1>2, <1>3, PushedNodes
<1> QED BY <1>1, <1>4 DEF OnStack

\* Frames come and go, nothing else.
LEMMA MovesSpare ==
    ASSUME GraphInv, stack # <<>>, UNCHANGED <<val, clock, nodes, watched>>, NEW g \in Frames,
           stack' = <<g>> \o stack \/ (stack' = <<g>> \o Below /\ g.node = Top.node)
    PROVE  Spares
<1>1. UNCHANGED <<mark, cache, async, validAt, val, clock, watched>>
    BY DEF nodes
<1>2. FreshOnes' = FreshOnes /\ \A d : Outcome(d)' = Outcome(d)
    BY <1>1 DEF FreshOnes, FreshIn, Outcome
<1> QED BY <1>1, <1>2, FramesStay DEF Spares

\* An ended frame leaves a node that rests.
LEMMA EndedSpares ==
    ASSUME GraphInv, stack # <<>>, stack' = Below, NEW t, t = Top.node, Rests(t)', val' = val,
           FreshOnes \subseteq FreshOnes', t \in FreshOnes => Outcome(t)' = Outcome(t),
           \A n \in Evaluated \ {t} : cache'[n] = cache[n] /\ async'[n] = async[n],
           \A e \in Effects \ {t} : mark'[e] = mark[e]
    PROVE  Spares
<1>1. ASSUME NEW n, OnStack(n) PROVE OnStack(n)' \/ Rests(n)'
    <2>1. PICK under : under = Below
        OBVIOUS
    <2>2. n = Top.node \/ Names(under, n)
        BY <1>1, <2>1, NodesBelow
    <2>3. stack' = under
        BY <2>1
    <2> QED BY <2>2, <2>3 DEF OnStack
<1>2. OnStack(t)
    BY UnderTop DEF OnStack, Names
<1>3. ASSUME NEW d \in Atoms \cup FreshOnes PROVE Outcome(d)' = Outcome(d)
    <2>1. CASE d \in Atoms
        <3>1. Outcome(d) = Just(val[d])
            BY <2>1, Zenon DEF Outcome, Just
        <3>2. Outcome(d)' = Just(val'[d])
            BY <2>1, Zenon DEF Outcome, Just
        <3> QED BY <3>1, <3>2
    <2>2. CASE d \in FreshOnes
        <3>1. d \in Evaluated
            BY <2>2 DEF FreshOnes, FreshIn, Evaluated
        <3>2. d # t => cache'[d] = cache[d] /\ async'[d] = async[d]
            BY <3>1
        <3> QED BY <2>2, <3>1, <3>2, OutcomeStays
    <2> QED BY <2>1, <2>2
<1>4. ASSUME NEW e \in Effects, ~OnStack(e) PROVE mark'[e] = mark[e] /\ cache'[e] = cache[e] /\ async'[e] = async[e]
    BY <1>2, <1>4 DEF Evaluated
<1> QED BY <1>1, <1>3, <1>4 DEF Spares

\* A step of a validation.
LEMMA CheckStepSpares ==
    ASSUME GraphInv, CheckStep
    PROVE  Spares
<1>f. PICK f : f = Top
    OBVIOUS
<1>n. PICK n : n = f.node
    OBVIOUS
<1>d. PICK d : d = deps[n][f.pos + 1]
    OBVIOUS
<1>1. /\ stack # <<>> /\ f.mode = "check"
      /\ UNCHANGED <<val, clock, changedAt, cache, async, deps, watched>>
      /\ \/ /\ mark' = [mark EXCEPT ![n] = "clean"] /\ validAt' = [validAt EXCEPT ![n] = clock]
            /\ stack' = Below
         \/ /\ UNCHANGED <<mark, validAt>>
            /\ \/ NeedsPull(d) /\ stack' = <<Entered(d)>> \o stack
               \/ stack' = <<Frame(n, "run")>> \o Below
               \/ stack' = <<[f EXCEPT !.pos = @ + 1]>> \o Below
    BY <1>f, <1>n, <1>d DEF CheckStep, Push, owners
<1>2. f \in Frames
    BY <1>1, <1>f, StackTop DEF GraphInv
<1>3. n \in Evaluated /\ f.pos \in Nat
    BY <1>2, <1>n DEF Frames
<1>4. CASE mark' = [mark EXCEPT ![n] = "clean"] /\ validAt' = [validAt EXCEPT ![n] = clock] /\ stack' = Below
    <2>1. PullStep(n)
        BY <1>1, <1>3, <1>4, Confirms
    <2>2. mark'[n] = "clean" /\ validAt'[n] = clock /\ \A e \in Effects \ {n} : mark'[e] = mark[e]
        BY <1>3, <1>4 DEF GraphInv, NodesOK, ClocksOK
    <2>3. Rests(n)'
        BY <1>1, <2>2 DEF Rests, FreshOnes, FreshIn
    <2>4. Outcome(n)' = Outcome(n)
        BY <1>1 DEF Outcome
    <2>5. FreshOnes \subseteq FreshOnes'
        BY <2>1 DEF PullStep
    <2> QED BY <1>1, <1>4, <1>f, <1>n, <2>2, <2>3, <2>4, <2>5, EndedSpares
<1>5. ASSUME UNCHANGED <<mark, validAt>> PROVE UNCHANGED <<val, clock, nodes, watched>>
    BY <1>1, <1>5 DEF nodes
<1>6. CASE UNCHANGED <<mark, validAt>> /\ NeedsPull(d) /\ stack' = <<Entered(d)>> \o stack
    <2>1. d \in Evaluated
        BY <1>6 DEF NeedsPull, Evaluated
    <2>2. Entered(d) \in Frames
        BY <2>1, EnteredFrame
    <2> QED BY <1>1, <1>5, <1>6, <2>2, MovesSpare
<1>7. CASE UNCHANGED <<mark, validAt>> /\ stack' = <<Frame(n, "run")>> \o Below
    <2>1. PICK g : g = Frame(n, "run")
        OBVIOUS
    <2>2. g \in Frames /\ g.node = n
        BY <1>3, <2>1, EnteredFrame DEF Frame
    <2> QED BY <1>1, <1>5, <1>7, <1>f, <1>n, <2>1, <2>2, MovesSpare
<1>8. CASE UNCHANGED <<mark, validAt>> /\ stack' = <<[f EXCEPT !.pos = @ + 1]>> \o Below
    <2>1. PICK g : g = [f EXCEPT !.pos = @ + 1]
        OBVIOUS
    <2>2. g \in Frames /\ g.node = n
        BY <1>2, <1>n, <2>1 DEF Frames
    <2> QED BY <1>1, <1>5, <1>8, <1>f, <1>n, <2>1, <2>2, MovesSpare
<1> QED BY <1>1, <1>4, <1>6, <1>7, <1>8

\* Edges of a node under evaluation move: no effect's mark does, nor its own.
LEMMA RelinkSpares ==
    ASSUME GraphInv, NEW t \in Computing, NEW list, NEW mk \in [Evaluated -> Marks], NEW va,
           Relink([deps EXCEPT ![t] = list], life, target, mk, va)
    PROVE  \A n \in Evaluated : n \in Effects \cup {t} => mark'[n] = mk[n]
<1>d. PICK ds : ds = [deps EXCEPT ![t] = list]
    OBVIOUS
<1>1. mark' = Promoted(ds, mk)
    BY <1>d DEF Relink
<1> SUFFICES ASSUME NEW n \in Evaluated, n \in Effects \cup {t}, mark'[n] # mk[n] PROVE FALSE
    OBVIOUS
<1>2. n \in Gained \ Computing
    BY <1>1, PromotedOnly
<1> QED BY <1>2, KindsAssumption DEF Gained, Sinks

\* The body sees one more value.
LEMMA ContinueSpares ==
    ASSUME GraphInv, GraphInv', Validated, Steady, stack # <<>>, Top.mode = "run",
           NEW at, Advances(Top, at), NEW v \in Values, Continue(Top, at, v)
    PROVE  Spares
<1>f. PICK f : f = Top
    OBVIOUS
<1>t. PICK t : t = f.node
    OBVIOUS
<1>l. PICK list : list = at.list
    OBVIOUS
<1>g. PICK g : g = [f EXCEPT !.pos = at.pos, !.seen = Append(@, v)]
    OBVIOUS
<1>m. PICK mk : mk = mark
    OBVIOUS
<1>1. f \in Frames /\ f = stack[1] /\ 1 \in DOMAIN stack /\ f.mode = "run"
    BY <1>f, StackTop, UnderTop DEF GraphInv
<1>2. /\ Relink([deps EXCEPT ![t] = list], life, target, mk, validAt)
      /\ stack' = <<g>> \o Below /\ cache' = cache /\ async' = async /\ val' = val
    BY <1>f, <1>t, <1>l, <1>g, <1>m DEF Continue, Steady
<1>3. PullStep(t)
    BY <1>f, <1>t, ContinueSound DEF Steady
<1>4. t \in Computing /\ mk \in [Evaluated -> Marks]
    BY <1>1, <1>t, <1>m DEF Computing, GraphInv, NodesOK
<1>5. \A e \in Effects : mark'[e] = mark[e]
    BY <1>2, <1>4, <1>m, RelinkSpares DEF Evaluated
<1>6. g \in Frames /\ g.node = t
    <2>1. f.seen \in Seq(Values) /\ f.node \in Evaluated /\ at.pos \in Nat
        BY <1>1 DEF Frames, Advances, Spot
    <2>2. Append(f.seen, v) \in Seq(Values)
        BY <2>1, AppendProperties
    <2> QED BY <1>1, <1>t, <1>g, <2>1, <2>2 DEF Frames
<1>7. \A n : OnStack(n) => OnStack(n)'
    BY <1>2, <1>6, <1>f, <1>t, FramesStay
<1>8. \A d : Outcome(d)' = Outcome(d)
    BY <1>2 DEF Outcome
<1>9. FreshOnes \subseteq FreshOnes'
    BY <1>3 DEF PullStep
<1> QED BY <1>2, <1>5, <1>7, <1>8, <1>9 DEF Spares

\* The evaluation on top ends.
LEMMA FinishSpares ==
    ASSUME GraphInv, GraphInv', Validated, Valued, Steady, stack # <<>>, Top.mode = "run",
           NEW at, Advances(Top, at), Concludes(Top, at, Below)
    PROVE  Spares
<1>v. PICK value, outcome, changed : Finish(Top, at, Below, value, outcome, changed)
    BY DEF Concludes
<1>t. PICK t : t = Top.node
    OBVIOUS
<1>k. PICK kept : kept = IF t \in Effects /\ life[t] = "disposed" THEN <<>> ELSE SubSeq(at.list, 1, at.pos)
    OBVIOUS
<1>m. PICK mk, va : mk = [mark EXCEPT ![t] = "clean"] /\ va = [validAt EXCEPT ![t] = clock]
    OBVIOUS
<1>1. Evolves(t) /\ t \notin FreshOnes
    BY <1>v, <1>t, FinishEvolves
<1>2. Relink([deps EXCEPT ![t] = kept], life, target, mk, va) /\ stack' = Below /\ val' = val /\ clock' = clock
    BY <1>v, <1>t, <1>k, <1>m DEF Finish, Steady
<1>3. Top \in Frames /\ Top = stack[1] /\ 1 \in DOMAIN stack
    BY StackTop, UnderTop DEF GraphInv
<1>4. t \in Computing /\ t \in Evaluated
    BY <1>3, <1>t DEF Computing, Frames
<1>5. mk \in [Evaluated -> Marks] /\ va[t] = clock /\ mk[t] = "clean" /\ \A n \in Evaluated \ {t} : mk[n] = mark[n]
    BY <1>4, <1>m DEF GraphInv, NodesOK, ClocksOK, Marks
<1>6. \A n \in Evaluated : n \in Effects \cup {t} => mark'[n] = mk[n]
    BY <1>2, <1>4, <1>5, RelinkSpares
<1>7. Rests(t)'
    <2>1. validAt' = Demoted(mk, va)
        BY <1>2 DEF Relink
    <2>2. validAt'[t] = clock
        BY <1>4, <1>5, <2>1 DEF Demoted
    <2>3. mark'[t] = "clean"
        BY <1>4, <1>5, <1>6
    <2> QED BY <1>2, <2>2, <2>3 DEF Rests, FreshOnes, FreshIn
<1>8. FreshOnes \subseteq FreshOnes' /\ \A n \in Evaluated \ {t} : cache'[n] = cache[n] /\ async'[n] = async[n]
    BY <1>1 DEF Evolves, PullStep
<1>9. \A e \in Effects \ {t} : mark'[e] = mark[e]
    BY <1>5, <1>6 DEF Evaluated
<1> QED BY <1>1, <1>2, <1>7, <1>8, <1>9, <1>t, EndedSpares

\* A step of a pull that closes no circle.
LEMMA PullSpares ==
    ASSUME BodiesAreWellTyped, GraphInv, GraphInv', Validated, Valued, Pull, ~ThrowCycle
    PROVE  Spares
<1>1. CASE CheckStep
    BY <1>1, CheckStepSpares
<1>2. CASE ReadAtom
    <2>a. PICK a : a = Instruction.of
        OBVIOUS
    <2>1. /\ Running("read") /\ a \in Atoms /\ Steady
          /\ Continue(Top, Tracked(Top, a), val[a])
        BY <1>2, <2>a, QuietIsSteady DEF ReadAtom
    <2>2. val[a] \in Values /\ a \in Producers /\ a \notin Computeds
        BY <2>1, KindsAssumption DEF GraphInv, ClocksOK, Producers, Evaluated
    <2>3. stack # <<>> /\ Top.mode = "run"
        BY <2>1, RunningFrame
    <2>4. Advances(Top, Tracked(Top, a))
        BY <2>1, <2>2, TopAdvances
    <2> QED BY <2>1, <2>2, <2>3, <2>4, ContinueSpares
<1>3. CASE PullDependency
    <2>d. PICK d, g : d = Instruction.of /\ g = Entered(d)
        OBVIOUS
    <2>1. /\ Running("read") /\ d \in Computeds /\ stack' = <<g>> \o stack
          /\ UNCHANGED <<val, clock, nodes, watched>>
        BY <1>3, <2>d DEF PullDependency, Push, NeedsPull, Quiet, owners
    <2>2. g \in Frames /\ stack # <<>>
        BY <2>1, <2>d, EnteredFrame, RunningFrame DEF Evaluated
    <2> QED BY <2>1, <2>2, MovesSpare
<1>4. CASE ReadComputed
    <2>d. PICK d, at : d = Instruction.of /\ at = Tracked(Top, d)
        OBVIOUS
    <2>1. /\ Running("read") /\ d \in Computeds /\ IsFresh(d) /\ Steady
          /\ \/ async[d].kind = "plain" /\ Continue(Top, at, cache[d])
             \/ Threw(Top, at, Below, async[d].of)
             \/ Parked(Top, at, async[d].of)
             \/ cache[d] # None /\ Continue(Top, at, cache[d])
        BY <1>4, <2>d, QuietIsSteady DEF ReadComputed
    <2>2. d \in Producers /\ d \in Evaluated /\ mark[d] = "clean" /\ d \in FreshOnes
        BY <2>1 DEF Producers, Evaluated, IsFresh, FreshOnes, FreshIn, Watched
    <2>3. stack # <<>> /\ Top.mode = "run"
        BY <2>1, RunningFrame
    <2>4. Advances(Top, at)
        BY <2>1, <2>2, <2>d, TopAdvances
    <2>5. cache[d] \in Values \cup {None} /\ (async[d].kind = "plain" => cache[d] \in Values)
        <3>1. cache[d] \in Values \cup {None}
            BY <2>2 DEF GraphInv, NodesOK
        <3>2. async[d].kind = "plain" => async[d] = Plain
            BY <2>2 DEF GraphInv, NodesOK, AsyncOK, Suspended
        <3> QED BY <2>1, <2>2, <3>1, <3>2 DEF GraphInv, NodesOK, Serving
    <2>6. Concludes(Top, at, Below) \/ (cache[d] \in Values /\ Continue(Top, at, cache[d]))
        BY <2>1, <2>5, ItConcludes
    <2> QED BY <2>1, <2>3, <2>4, <2>6, ContinueSpares, FinishSpares
<1>5. CASE UseThenable
    <2>t. PICK t, at : t = Instruction.of /\ at = Untouched(Top)
        OBVIOUS
    <2>1. /\ Running("use") /\ Steady
          /\ \/ Parked(Top, at, t)
             \/ status[t] = "fulfilled" /\ Continue(Top, at, result[t])
             \/ Threw(Top, at, Below, Rejection)
        BY <1>5, <2>t, QuietIsSteady DEF UseThenable
    <2>2. t \in Thenables
        BY <2>1, <2>t, RunningFrame DEF WellTyped
    <2>3. status[t] = "fulfilled" => result[t] \in Values
        BY <2>2 DEF GraphInv, BoxesOK
    <2>4. stack # <<>> /\ Top.mode = "run"
        BY <2>1, RunningFrame
    <2>5. Advances(Top, at)
        BY <2>1, <2>t, TopAdvances
    <2>6. Concludes(Top, at, Below) \/ (result[t] \in Values /\ Continue(Top, at, result[t]))
        BY <2>1, <2>3, ItConcludes
    <2> QED BY <2>1, <2>4, <2>5, <2>6, ContinueSpares, FinishSpares
<1>6. CASE Return
    <2>1. Steady
        BY <1>6, QuietIsSteady DEF Return
    <2>2. PICK at : at = Untouched(Top)
        OBVIOUS
    <2>3. PICK op : Running(op) /\ Concludes(Top, at, Below)
        BY <1>6, <2>2, ItConcludes DEF Return
    <2>4. stack # <<>> /\ Top.mode = "run" /\ Advances(Top, at)
        BY <2>2, <2>3, RunningFrame, TopAdvances
    <2> QED BY <2>1, <2>3, <2>4, FinishSpares
<1> QED BY <1>1, <1>2, <1>3, <1>4, <1>5, <1>6 DEF Pull

-----------------------------------------------------------------------------
(***************************************************************************)
(* Who knows what: watchers, effects, and those a pull is for              *)
(***************************************************************************)

\* s is whom the pull under way is for.
Served(s) == task.op \in {"notify", "create", "drain"} /\ task.of = s

\* What w last read of c is what a read gives now, at once.
Sees(w, c) == (c \in Computeds => c \in FreshOnes) /\ told[w] = Outcome(c)

\* The effect e has nothing to do: it has handled its value, if it has one.
Handled(e) == mark[e] = "clean" /\ (async[e] = Plain => told[e] = Outcome(e))

\* Who is not scheduled, nor served, has missed nothing.
WatchersKnow ==
    \A w \in Watchers : \A c \in Producers :
        target[w] = c /\ told[w] # None /\ w \notin scheduled /\ ~Served(w) => Sees(w, c)
\* Nor has an effect that is alive.
EffectsKnow == \A e \in Effects : life[e] = "alive" /\ e \notin scheduled /\ ~Served(e) => Handled(e)

\* Who is served will have been when the stack is empty.
Attended ==
    /\ \A w \in Watchers : \A c \in Computeds :
          task.op = "notify" /\ task.of = w /\ target[w] = c => c \in FreshOnes \/ OnStack(c)
    /\ \A e \in Effects : task.op \in {"create", "drain"} /\ task.of = e =>
          life[e] = "alive" /\ (mark[e] = "clean" \/ OnStack(e))

\* No effect is pulled behind the back of those two.
PulledOpenly == \A e \in Effects : OnStack(e) => life[e] # "alive" \/ e \in scheduled \/ Served(e)

\* What everyone knows, and who sees to it that the others will.
Knowing == told = [s \in Sinks |-> told[s]] /\ WatchersKnow /\ EffectsKnow /\ Attended /\ PulledOpenly

\* At first nobody watches.
LEMMA KnowingInit == Init => Knowing
<1> SUFFICES ASSUME Init PROVE Knowing
    OBVIOUS
<1>1. /\ target = [w \in Watchers |-> None] /\ told = [s \in Sinks |-> None] /\ task = Idle /\ stack = <<>>
      /\ life = [e \in Effects |-> "new"]
    BY DEF Init
<1>2. told = [s \in Sinks |-> told[s]]
    BY <1>1
<1>3. WatchersKnow
    <2>1. \A w \in Watchers : told[w] = None
        BY <1>1 DEF Sinks
    <2> QED BY <2>1 DEF WatchersKnow
<1>4. EffectsKnow
    <2>1. \A e \in Effects : life[e] # "alive"
        BY <1>1
    <2> QED BY <2>1 DEF EffectsKnow
<1>5. Attended
    BY <1>1 DEF Attended, Idle
<1>6. PulledOpenly
    BY <1>1 DEF PulledOpenly, OnStack, Names
<1> QED BY <1>2, <1>3, <1>4, <1>5, <1>6 DEF Knowing

\* What is on a stack of none and of one.
LEMMA OneOnStack ==
    /\ stack = <<>> => \A n : ~OnStack(n)
    /\ stack' = <<>> => \A n : ~OnStack(n)'
    /\ \A g : stack' = <<g>> => \A n : OnStack(n)' <=> n = g.node
<1>1. stack = <<>> => \A n : ~OnStack(n)
    BY DEF OnStack, Names
<1>2. stack' = <<>> => \A n : ~OnStack(n)'
    BY DEF OnStack, Names
<1>3. ASSUME NEW g, stack' = <<g>> PROVE \A n : OnStack(n)' <=> n = g.node
    <2>1. DOMAIN stack' = {1} /\ stack'[1] = g
        BY <1>3
    <2> QED BY <2>1 DEF OnStack, Names
<1> QED BY <1>1, <1>2, <1>3

\* An outcome follows from val, cache and async.
LEMMA OutcomesStay ==
    ASSUME NEW c \in Producers \cup Effects,
           c \in Atoms => val'[c] = val[c],
           c \in Evaluated => cache'[c] = cache[c] /\ async'[c] = async[c]
    PROVE  Outcome(c)' = Outcome(c)
<1>1. CASE c \in Evaluated
    BY <1>1, OutcomeStays
<1>2. CASE c \in Atoms
    <2>1. Outcome(c) = Just(val[c])
        BY <1>2, Zenon DEF Outcome, Just
    <2>2. Outcome(c)' = Just(val'[c])
        BY <1>2, Zenon DEF Outcome, Just
    <2> QED BY <1>2, <2>1, <2>2
<1> QED BY <1>1, <1>2 DEF Producers, Evaluated

\* A watcher knows on while what it watches serves on.
LEMMA SeesOn ==
    ASSUME NEW w, NEW c, Sees(w, c), told'[w] = told[w], c \in Computeds => c \in FreshOnes', Outcome(c)' = Outcome(c)
    PROVE  Sees(w, c)'
BY DEF Sees

\* An effect does while its own state is as it was.
LEMMA HandledOn ==
    ASSUME NEW e \in Effects, Handled(e), told'[e] = told[e], mark'[e] = mark[e], cache'[e] = cache[e], async'[e] = async[e]
    PROVE  Handled(e)'
<1>1. e \in Evaluated
    BY DEF Evaluated
<1>2. Outcome(e)' = Outcome(e)
    BY <1>1, OutcomeStays
<1> QED BY <1>2 DEF Handled

\* A watched computed that is clean is fresh; the target of a watcher is watched.
LEMMA TargetsWatched ==
    ASSUME WatchedOK(deps, watched, life, target), NEW w \in Watchers, NEW c, target[w] = c, c # None
    PROVE  c \in watched
BY DEF WatchedOK, Roots

\* A step of a pull leaves what everyone knows, and serves on.
LEMMA PullKnows ==
    ASSUME BodiesAreWellTyped, GraphInv, GraphInv', Validated, Valued, Knowing, Pull, ~ThrowCycle
    PROVE  Knowing'
<1>1. Spares
    BY PullSpares
<1>2. Withdrawn
    BY PullWithdraws
<1>3. UNCHANGED <<target, scheduled, told, task, life>>
    <2>1. CASE CheckStep
        BY <2>1 DEF CheckStep, owners
    <2>2. CASE Quiet /\ UNCHANGED <<nodes, owners, boxes>>
        BY <2>2 DEF Quiet, owners
    <2>3. ASSUME Quiet, NEW ds, NEW mk, NEW va, Relink(ds, life, target, mk, va) PROVE UNCHANGED <<target, scheduled, told, task, life>>
        BY <2>3 DEF Quiet, Relink
    <2>4. ASSUME Quiet, NEW f, NEW at, NEW v, Continue(f, at, v) PROVE UNCHANGED <<target, scheduled, told, task, life>>
        BY <2>3, <2>4 DEF Continue
    <2>5. ASSUME Quiet, NEW f, NEW at, NEW under, NEW v, NEW o, NEW ch, Finish(f, at, under, v, o, ch)
          PROVE  UNCHANGED <<target, scheduled, told, task, life>>
        BY <2>3, <2>5 DEF Finish
    <2>6. ASSUME Quiet, NEW f, NEW at, NEW p, Parked(f, at, p) PROVE UNCHANGED <<target, scheduled, told, task, life>>
        BY <2>5, <2>6 DEF Parked
    <2>7. ASSUME Quiet, NEW f, NEW at, NEW under, NEW x, Threw(f, at, under, x) PROVE UNCHANGED <<target, scheduled, told, task, life>>
        BY <2>5, <2>7 DEF Threw
    <2>8. ASSUME Quiet, NEW f, NEW at, NEW v, Settled(f, at, v) PROVE UNCHANGED <<target, scheduled, told, task, life>>
        BY <2>5, <2>8 DEF Settled
    <2>9. CASE ReadAtom
        BY <2>4, <2>9 DEF ReadAtom
    <2>10. CASE PullDependency
        BY <2>2, <2>10 DEF PullDependency
    <2>11. CASE ReadComputed
        <3>1. PICK d, at : /\ d = Instruction.of /\ at = Tracked(Top, d)
            OBVIOUS
        <3>2. /\ Quiet
              /\ \/ Continue(Top, at, cache[d]) \/ Threw(Top, at, Below, async[d].of) \/ Parked(Top, at, async[d].of)
            BY <2>11, <3>1 DEF ReadComputed
        <3> QED BY <2>4, <2>6, <2>7, <3>2
    <2>12. CASE UseThenable
        BY <2>4, <2>6, <2>7, <2>12 DEF UseThenable
    <2>13. CASE Return
        BY <2>7, <2>8, <2>13 DEF Return
    <2> QED BY <2>1, <2>9, <2>10, <2>11, <2>12, <2>13 DEF Pull
<1>4. \A s : Served(s)' <=> Served(s)
    BY <1>3 DEF Served
<1>5. WatchersKnow'
    <2> SUFFICES ASSUME NEW w \in Watchers, NEW c \in Producers, target'[w] = c, told'[w] # None, w \notin scheduled', ~Served(w)'
                 PROVE  Sees(w, c)'
        BY DEF WatchersKnow
    <2>1. Sees(w, c)
        BY <1>3, <1>4 DEF Knowing, WatchersKnow
    <2>2. c \in Atoms \cup FreshOnes
        BY <2>1 DEF Sees, Producers
    <2>3. Outcome(c)' = Outcome(c) /\ (c \in Computeds => c \in FreshOnes')
        <3>1. Outcome(c)' = Outcome(c)
            BY <1>1, <2>2 DEF Spares
        <3>2. FreshOnes \subseteq FreshOnes'
            BY <1>1 DEF Spares
        <3> QED BY <2>1, <3>1, <3>2 DEF Sees
    <2> QED BY <1>3, <2>1, <2>3, SeesOn
<1>6. EffectsKnow'
    <2> SUFFICES ASSUME NEW e \in Effects, life'[e] = "alive", e \notin scheduled', ~Served(e)'
                 PROVE  Handled(e)'
        BY DEF EffectsKnow
    <2>1. Handled(e) /\ ~OnStack(e)
        BY <1>3, <1>4 DEF Knowing, EffectsKnow, PulledOpenly
    <2>2. mark'[e] = mark[e] /\ cache'[e] = cache[e] /\ async'[e] = async[e]
        BY <1>1, <2>1 DEF Spares
    <2> QED BY <1>3, <2>1, <2>2, HandledOn
<1>7. Attended'
    <2>1. ASSUME NEW w \in Watchers, NEW c \in Computeds, task'.op = "notify", task'.of = w, target'[w] = c
          PROVE  c \in FreshOnes' \/ OnStack(c)'
        <3>1. c \in FreshOnes \/ OnStack(c)
            BY <1>3, <2>1 DEF Knowing, Attended
        <3>2. FreshOnes \subseteq FreshOnes' /\ (OnStack(c) => OnStack(c)' \/ Rests(c)')
            BY <1>1 DEF Spares, Evaluated
        <3> QED BY <3>1, <3>2 DEF Rests
    <2>2. ASSUME NEW e \in Effects, task'.op \in {"create", "drain"}, task'.of = e
          PROVE  life'[e] = "alive" /\ (mark'[e] = "clean" \/ OnStack(e)')
        <3>1. life[e] = "alive" /\ (mark[e] = "clean" \/ OnStack(e))
            BY <1>3, <2>2 DEF Knowing, Attended
        <3>2. (OnStack(e) => OnStack(e)' \/ Rests(e)') /\ (~OnStack(e) => mark'[e] = mark[e])
            BY <1>1 DEF Spares, Evaluated
        <3> QED BY <1>3, <3>1, <3>2 DEF Rests
    <2> QED BY <2>1, <2>2 DEF Attended
<1>8. PulledOpenly'
    <2> SUFFICES ASSUME NEW e \in Effects, OnStack(e)' PROVE life'[e] # "alive" \/ e \in scheduled' \/ Served(e)'
        BY DEF PulledOpenly
    <2>1. e \notin Computeds
        BY KindsAssumption DEF Sinks
    <2>2. OnStack(e)
        BY <1>2, <2>1 DEF OnStack, Names, Withdrawn
    <2> QED BY <1>3, <1>4, <2>2 DEF Knowing, PulledOpenly
<1>9. told' = [s \in Sinks |-> told'[s]]
    BY <1>3 DEF Knowing
<1> QED BY <1>5, <1>6, <1>7, <1>8, <1>9 DEF Knowing

-----------------------------------------------------------------------------
(***************************************************************************)
(* Writes and settlements schedule whoever they concern                    *)
(***************************************************************************)

\* Whoever is not told of a step has missed nothing in it.
LEMMA WatchersStay ==
    ASSUME WatchersKnow,
           \A w \in Watchers : \A c \in Producers :
               target'[w] = c /\ told'[w] # None /\ w \notin scheduled' /\ ~Served(w)' =>
                   \/ Sees(w, c)'
                   \/ /\ target[w] = c /\ told'[w] = told[w] /\ w \notin scheduled /\ ~Served(w)
                      /\ c \in FreshOnes => c \in FreshOnes'
                      /\ Outcome(c)' = Outcome(c)
    PROVE  WatchersKnow'
<1> SUFFICES ASSUME NEW w \in Watchers, NEW c \in Producers,
                    target'[w] = c, told'[w] # None, w \notin scheduled', ~Served(w)', ~Sees(w, c)'
             PROVE  FALSE
    BY DEF WatchersKnow
<1>1. /\ target[w] = c /\ told'[w] = told[w] /\ w \notin scheduled /\ ~Served(w)
      /\ c \in FreshOnes => c \in FreshOnes'
      /\ Outcome(c)' = Outcome(c)
    OBVIOUS
<1>2. Sees(w, c)
    BY <1>1 DEF WatchersKnow
<1>3. c \in Computeds => c \in FreshOnes'
    BY <1>1, <1>2 DEF Sees
<1> QED BY <1>1, <1>2, <1>3, SeesOn

\* Nor has an effect.
LEMMA EffectsStay ==
    ASSUME EffectsKnow,
           \A e \in Effects : life'[e] = "alive" /\ e \notin scheduled' /\ ~Served(e)' =>
               \/ Handled(e)'
               \/ /\ life[e] = "alive" /\ e \notin scheduled /\ ~Served(e)
                  /\ told'[e] = told[e] /\ mark'[e] = mark[e] /\ cache'[e] = cache[e] /\ async'[e] = async[e]
    PROVE  EffectsKnow'
<1> SUFFICES ASSUME NEW e \in Effects, life'[e] = "alive", e \notin scheduled', ~Served(e)', ~Handled(e)'
             PROVE  FALSE
    BY DEF EffectsKnow
<1>1. /\ life[e] = "alive" /\ e \notin scheduled /\ ~Served(e)
      /\ told'[e] = told[e] /\ mark'[e] = mark[e] /\ cache'[e] = cache[e] /\ async'[e] = async[e]
    OBVIOUS
<1>2. Handled(e)
    BY <1>1 DEF EffectsKnow
<1> QED BY <1>1, <1>2, HandledOn

\* Where nobody is served and nothing is pulled.
LEMMA NobodyServed ==
    /\ task.op \in {"idle", "read"} => \A s : ~Served(s)
    /\ task'.op \in {"idle", "read"} => \A s : ~Served(s)'
    /\ task'.op \in {"idle", "read"} => Attended'
    /\ stack' = <<>> => PulledOpenly'
<1>1. task.op \in {"idle", "read"} => \A s : ~Served(s)
    BY DEF Served
<1>2. task'.op \in {"idle", "read"} => \A s : ~Served(s)'
    BY DEF Served
<1>3. task'.op \in {"idle", "read"} => Attended'
    BY DEF Attended
<1>4. stack' = <<>> => PulledOpenly'
    BY OneOnStack DEF PulledOpenly
<1> QED BY <1>1, <1>2, <1>3, <1>4

\* A wave schedules the watchers of what it marks, and the effects it marks.
LEMMA WaveSchedules ==
    ASSUME NEW d, NEW mk \in [Evaluated -> Marks], Wave(d, mk)
    PROVE  /\ \A w \in Watchers : \A c \in Computeds :
                 target[w] = c /\ mk[c] = "clean" /\ mark'[c] # "clean" => w \in scheduled'
           /\ \A w \in Watchers : target[w] = d => w \in scheduled'
           /\ \A e \in Effects : mark'[e] # mk[e] => e \in scheduled'
           /\ scheduled \subseteq scheduled'
<1> DEFINE ring == Subscribers(d)
           below == UNION {Subscribers(m) : m \in Opened(d, mk)}
<1>1. /\ mark' = [m \in Evaluated |->
                    IF m \in ring THEN "dirty"
                    ELSE IF m \in below /\ mk[m] = "clean" THEN "check"
                    ELSE mk[m]]
      /\ scheduled' = scheduled \cup ((ring \cup below) \cap Sinks)
    BY DEF Wave
<1>2. PICK W : W = Opened(d, mk)
    OBVIOUS
<1>3. CleanOf(mk, Subscribers(d)) \subseteq W /\ \A m \in W : CleanOf(mk, Subscribers(m)) \subseteq W
    BY <1>2, OpenedCloses
<1>4. below = UNION {Subscribers(m) : m \in W} /\ ring = Subscribers(d)
    BY <1>2
<1> HIDE DEF ring, below
<1>5. ASSUME NEW w \in Watchers, NEW c \in Computeds, target[w] = c, mk[c] = "clean", mark'[c] # "clean"
      PROVE  w \in scheduled'
    <2>1. c \in ring \/ c \in below
        BY <1>1, <1>5 DEF Evaluated
    <2>2. c \in W
        BY <1>3, <1>4, <1>5, <2>1 DEF CleanOf
    <2>3. w \in Subscribers(c) /\ w \in Sinks
        BY <1>5 DEF Subscribers, Sinks
    <2> QED BY <1>1, <1>4, <2>2, <2>3
<1>6. ASSUME NEW w \in Watchers, target[w] = d PROVE w \in scheduled'
    <2>1. w \in Subscribers(d) /\ w \in Sinks
        BY <1>6 DEF Subscribers, Sinks
    <2> QED BY <1>1, <1>4, <2>1
<1>7. ASSUME NEW e \in Effects, mark'[e] # mk[e] PROVE e \in scheduled'
    <2>1. e \in Evaluated /\ e \in Sinks
        BY DEF Evaluated, Sinks
    <2>2. e \in ring \/ e \in below
        BY <1>1, <1>7, <2>1
    <2> QED BY <1>1, <2>1, <2>2
<1>8. scheduled \subseteq scheduled'
    BY <1>1
<1> QED BY <1>5, <1>6, <1>7, <1>8

\* What is watched, and stays clean, is fresh at any reading of the clock.
LEMMA WatchedStay ==
    ASSUME GraphInv, Validated, watched' = watched, NEW w \in Watchers, NEW c \in Producers, target[w] = c,
           c \in FreshOnes, mark'[c] = "clean"
    PROVE  c \in FreshOnes'
<1>1. c \in watched
    <2>1. c # None
        BY ValuesAssumption
    <2> QED BY <2>1, TargetsWatched DEF Validated, Supported
<1> QED BY <1>1 DEF FreshOnes, FreshIn

\* A write, ...
LEMMA WriteKnows ==
    ASSUME GraphInv, Validated, Knowing, NEW a \in Atoms, NEW v \in Values, Write(a, v)
    PROVE  Knowing'
<1>m. PICK mk : mk = mark
    OBVIOUS
<1>1. /\ stack' = <<>> /\ task = Idle /\ task' = Idle /\ Wave(a, mk) /\ val' = [val EXCEPT ![a] = v]
      /\ UNCHANGED <<cache, async, watched, life, target, told>>
    BY <1>m DEF Write, Ready, owners
<1>2. mk \in [Evaluated -> Marks] /\ val \in [Atoms -> Values]
    BY <1>m DEF GraphInv, NodesOK, ClocksOK
<1>3. \A s : ~Served(s) /\ ~Served(s)'
    BY <1>1, NobodyServed DEF Idle
<1>4. /\ \A w \in Watchers : \A c \in Computeds :
             target[w] = c /\ mk[c] = "clean" /\ mark'[c] # "clean" => w \in scheduled'
      /\ \A w \in Watchers : target[w] = a => w \in scheduled'
      /\ \A e \in Effects : mark'[e] # mk[e] => e \in scheduled'
      /\ scheduled \subseteq scheduled'
    BY <1>1, <1>2, WaveSchedules
<1>5. WatchersKnow'
    <2> SUFFICES ASSUME NEW w \in Watchers, NEW c \in Producers, target'[w] = c, told'[w] # None, w \notin scheduled'
                 PROVE  (c \in FreshOnes => c \in FreshOnes') /\ Outcome(c)' = Outcome(c)
        BY <1>1, <1>3, <1>4, WatchersStay DEF Knowing
    <2>1. c # a /\ target[w] = c
        BY <1>1, <1>4
    <2>2. c \in FreshOnes => c \in Computeds /\ mk[c] = "clean"
        BY <1>m DEF FreshOnes, FreshIn
    <2>3. c \in FreshOnes => c \in FreshOnes'
        BY <1>1, <1>4, <2>1, <2>2, WatchedStay
    <2>4. Outcome(c)' = Outcome(c)
        BY <1>1, <1>2, <2>1, OutcomesStay
    <2> QED BY <2>3, <2>4
<1>6. EffectsKnow'
    <2>1. \A e \in Effects : e \notin scheduled' => mark'[e] = mark[e]
        BY <1>4, <1>m
    <2> QED BY <1>1, <1>3, <1>4, <2>1, EffectsStay DEF Knowing
<1>7. Attended' /\ PulledOpenly'
    BY <1>1, NobodyServed DEF Idle
<1>8. told' = [s \in Sinks |-> told'[s]]
    BY <1>1 DEF Knowing
<1> QED BY <1>5, <1>6, <1>7, <1>8 DEF Knowing

\* ... a settlement, ...
LEMMA SettleKnows ==
    ASSUME GraphInv, Validated, Knowing, NEW p, NEW how, NEW v, Settle(p, how, v)
    PROVE  Knowing'
<1>1. /\ stack' = <<>> /\ task = Idle /\ task' = Idle
      /\ UNCHANGED <<val, mark, cache, async, watched, life, target, told, scheduled>>
    BY DEF Settle, Ready, owners, nodes
<1>3. \A s : ~Served(s) /\ ~Served(s)'
    BY <1>1, NobodyServed DEF Idle
<1>5. WatchersKnow'
    <2> SUFFICES ASSUME NEW w \in Watchers, NEW c \in Producers, target'[w] = c
                 PROVE  (c \in FreshOnes => c \in FreshOnes') /\ Outcome(c)' = Outcome(c)
        BY <1>1, <1>3, WatchersStay DEF Knowing
    <2>1. target[w] = c
        BY <1>1
    <2>2. c \in FreshOnes => mark[c] = "clean"
        BY DEF FreshOnes, FreshIn
    <2>3. c \in FreshOnes => c \in FreshOnes'
        BY <1>1, <2>1, <2>2, WatchedStay
    <2>4. Outcome(c)' = Outcome(c)
        BY <1>1, OutcomesStay
    <2> QED BY <2>3, <2>4
<1>6. EffectsKnow'
    BY <1>1, <1>3, EffectsStay DEF Knowing
<1>7. Attended' /\ PulledOpenly'
    BY <1>1, NobodyServed DEF Idle
<1>8. told' = [s \in Sinks |-> told'[s]]
    BY <1>1 DEF Knowing
<1> QED BY <1>5, <1>6, <1>7, <1>8 DEF Knowing

\* ... each node it invalidates.
LEMMA SettleNodeKnows ==
    ASSUME GraphInv, Validated, Knowing, NEW n \in Evaluated, SettleNode(n)
    PROVE  Knowing'
<1>m. PICK mk : mk = [mark EXCEPT ![n] = "dirty"]
    OBVIOUS
<1>g. PICK g : g = Frame(n, "run")
    OBVIOUS
<1>1. /\ stack' = <<g>> /\ task = Idle /\ task' = [op |-> "read", of |-> n]
      /\ IF n \in Effects
         THEN mark' = mk /\ scheduled' = IF life[n] = "alive" THEN scheduled \cup {n} ELSE scheduled
         ELSE Wave(n, mk)
      /\ UNCHANGED <<val, cache, async, watched, life, target, told>>
    BY <1>m, <1>g DEF SettleNode, owners
<1>2. mk \in [Evaluated -> Marks] /\ mk[n] = "dirty" /\ \A k \in Evaluated : k # n => mk[k] = mark[k]
    BY <1>m DEF GraphInv, NodesOK, Marks
<1>3. \A s : ~Served(s) /\ ~Served(s)'
    <2>1. task.op = "idle" /\ task'.op = "read"
        BY <1>1 DEF Idle
    <2> QED BY <2>1, NobodyServed
<1>4. /\ \A w \in Watchers : \A c \in Computeds :
             target[w] = c /\ mark[c] = "clean" /\ mark'[c] # "clean" => w \in scheduled'
      /\ \A e \in Effects : mark'[e] # mark[e] /\ life[e] = "alive" => e \in scheduled'
      /\ n \in Effects /\ life[n] = "alive" => n \in scheduled'
      /\ scheduled \subseteq scheduled'
    <2>1. CASE n \in Effects
        <3>1. n \notin Computeds
            BY <2>1, KindsAssumption DEF Sinks
        <3>2. \A k \in Evaluated : k # n => mark'[k] = mark[k]
            BY <1>1, <1>2, <2>1
        <3> QED BY <1>1, <2>1, <3>1, <3>2 DEF Evaluated
    <2>2. CASE n \notin Effects
        <3>1. /\ \A w \in Watchers : \A c \in Computeds :
                     target[w] = c /\ mk[c] = "clean" /\ mark'[c] # "clean" => w \in scheduled'
              /\ \A w \in Watchers : target[w] = n => w \in scheduled'
              /\ \A e \in Effects : mark'[e] # mk[e] => e \in scheduled'
              /\ scheduled \subseteq scheduled'
            BY <1>1, <1>2, <2>2, WaveSchedules
        <3>2. \A e \in Effects : mk[e] = mark[e]
            BY <1>2, <2>2 DEF Evaluated
        <3>3. \A c \in Computeds : c = n \/ mk[c] = mark[c]
            BY <1>2 DEF Evaluated
        <3> QED BY <2>2, <3>1, <3>2, <3>3
    <2> QED BY <2>1, <2>2
<1>5. WatchersKnow'
    <2> SUFFICES ASSUME NEW w \in Watchers, NEW c \in Producers, target'[w] = c, told'[w] # None, w \notin scheduled'
                 PROVE  (c \in FreshOnes => c \in FreshOnes') /\ Outcome(c)' = Outcome(c)
        BY <1>1, <1>3, <1>4, WatchersStay DEF Knowing
    <2>1. target[w] = c
        BY <1>1
    <2>2. c \in FreshOnes => c \in Computeds /\ mark[c] = "clean"
        BY DEF FreshOnes, FreshIn
    <2>3. c \in FreshOnes => c \in FreshOnes'
        BY <1>1, <1>4, <2>1, <2>2, WatchedStay
    <2>4. Outcome(c)' = Outcome(c)
        BY <1>1, OutcomesStay
    <2> QED BY <2>3, <2>4
<1>6. EffectsKnow'
    BY <1>1, <1>3, <1>4, EffectsStay DEF Knowing
<1>7. Attended'
    <2>1. task'.op = "read"
        BY <1>1
    <2> QED BY <2>1, NobodyServed
<1>8. PulledOpenly'
    <2> SUFFICES ASSUME NEW e \in Effects, OnStack(e)' PROVE life'[e] # "alive" \/ e \in scheduled'
        BY DEF PulledOpenly
    <2>1. g.node = n
        BY <1>g DEF Frame
    <2>2. e = n
        BY <1>1, <2>1, OneOnStack
    <2> QED BY <1>1, <1>4, <2>2
<1>9. told' = [s \in Sinks |-> told'[s]]
    BY <1>1 DEF Knowing
<1> QED BY <1>5, <1>6, <1>7, <1>8, <1>9 DEF Knowing

-----------------------------------------------------------------------------
(***************************************************************************)
(* Subscriptions and effects, their beginning and their end                *)
(***************************************************************************)

\* Relinking marks computeds only.
LEMMA RelinkMarks ==
    ASSUME NEW ds, NEW lf, NEW tg, NEW mk \in [Evaluated -> Marks], NEW va, Relink(ds, lf, tg, mk, va)
    PROVE  \A e \in Effects : mark'[e] = mk[e]
<1> SUFFICES ASSUME NEW e \in Effects, mark'[e] # mk[e] PROVE FALSE
    OBVIOUS
<1>1. mark' = Promoted(ds, mk)
    BY DEF Relink
<1>2. e \in Evaluated /\ e \notin Computeds
    BY KindsAssumption DEF Evaluated, Sinks
<1>3. e \in Gained
    BY <1>1, <1>2, PromotedOnly
<1> QED BY <1>2, <1>3 DEF Gained

\* The outcomes of what the program reads are as they were.
LEMMA OutcomesAre ==
    ASSUME UNCHANGED <<val, cache, async>>
    PROVE  \A c \in Producers : Outcome(c)' = Outcome(c)
BY OutcomesStay

\* A subscription starts with what it reads then, and hears what it missed.
LEMMA SubscribeKnows ==
    ASSUME GraphInv, GraphInv', Validated, Knowing, NEW w \in Watchers, NEW n \in Watchable, Subscribe(w, n)
    PROVE  Knowing'
<1>m. PICK mk : mk = mark
    OBVIOUS
<1>t. PICK tg : tg = [target EXCEPT ![w] = n]
    OBVIOUS
<1>1. /\ stack' = <<>> /\ task = Idle /\ task' = Idle
      /\ Relink(deps, life, tg, mk, validAt)
      /\ scheduled' = IF n \in Computeds /\ mark'[n] /= "clean" /\ cache[n] /= None
                      THEN scheduled \cup {w} ELSE scheduled
      /\ told' = [told EXCEPT ![w] = IF n \in Computeds /\ cache[n] = None THEN None ELSE Outcome(n)]
      /\ UNCHANGED <<val, cache, async>>
    BY <1>m, <1>t DEF Subscribe, Ready
<1>2. target' = tg /\ life' = life /\ mk \in [Evaluated -> Marks] /\ target \in [Watchers -> Producers \cup {None}]
    BY <1>1, <1>m DEF Relink, GraphInv, OwnersOK, NodesOK
<1>3. \A s : ~Served(s) /\ ~Served(s)'
    BY <1>1, NobodyServed DEF Idle
<1>4. Validated' /\ FreshOnes \subseteq FreshOnes'
    BY WatchSound
<1>5. \A c \in Producers : Outcome(c)' = Outcome(c)
    BY <1>1, OutcomesAre
<1>6. \A e \in Effects : mark'[e] = mark[e]
    <2>1. PICK ds, lf, va : Relink(ds, lf, tg, mk, va)
        BY <1>1
    <2> QED BY <1>2, <1>m, <2>1, RelinkMarks
<1>7. DOMAIN told = Sinks /\ w \in Sinks /\ \A s \in Sinks \ {w} : told'[s] = told[s]
    <2>1. told = [s \in Sinks |-> told[s]]
        BY DEF Knowing
    <2>2. DOMAIN told = Sinks
        BY <2>1
    <2> QED BY <1>1, <2>2 DEF Sinks
<1>8. ASSUME n \in Producers, told'[w] # None, w \notin scheduled' PROVE Sees(w, n)'
    <2>1. ~(n \in Computeds /\ cache[n] = None) /\ told'[w] = Outcome(n)
        BY <1>1, <1>7, <1>8
    <2>2. ASSUME n \in Computeds PROVE n \in FreshOnes'
        <3>1. mark'[n] = "clean"
            BY <1>1, <1>8, <2>1, <2>2
        <3>2. n # None /\ target'[w] = n
            BY <1>2, <1>t, <1>8, ValuesAssumption
        <3>3. n \in Roots(life', target')
            BY <3>2 DEF Roots
        <3>4. n \in watched'
            BY <1>4, <3>3 DEF Validated, Supported, WatchedOK
        <3> QED BY <2>2, <3>1, <3>4 DEF FreshOnes, FreshIn
    <2>3. Outcome(n)' = Outcome(n)
        BY <1>5, <1>8
    <2> QED BY <2>1, <2>2, <2>3 DEF Sees
<1>9. WatchersKnow'
    <2> SUFFICES ASSUME NEW u \in Watchers, NEW c \in Producers, target'[u] = c, told'[u] # None, u \notin scheduled'
                 PROVE  \/ Sees(u, c)'
                        \/ target[u] = c /\ told'[u] = told[u] /\ u \notin scheduled
        BY <1>3, <1>4, <1>5, WatchersStay DEF Knowing
    <2>1. CASE u = w
        <3>1. c = n
            BY <1>2, <1>t, <2>1
        <3> QED BY <1>8, <2>1, <3>1
    <2>2. CASE u # w
        <3>1. target[u] = c /\ u \in Sinks
            BY <1>2, <1>t, <2>2 DEF Sinks
        <3> QED BY <1>1, <1>7, <2>2, <3>1
    <2> QED BY <2>1, <2>2
<1>10. EffectsKnow'
    <2> SUFFICES ASSUME NEW e \in Effects, e \notin scheduled' PROVE told'[e] = told[e] /\ e \notin scheduled
        BY <1>1, <1>2, <1>3, <1>6, EffectsStay DEF Knowing
    <2>1. e \in Sinks \ {w}
        BY KindsAssumption DEF Sinks
    <2> QED BY <1>1, <1>7, <2>1
<1>11. Attended' /\ PulledOpenly'
    BY <1>1, NobodyServed DEF Idle
<1>12. told' = [s \in Sinks |-> told'[s]]
    BY <1>1 DEF Knowing
<1> QED BY <1>9, <1>10, <1>11, <1>12 DEF Knowing

\* One that ends is told nothing more.
LEMMA UnsubscribeKnows ==
    ASSUME GraphInv, GraphInv', Validated, Knowing, NEW w \in Watchers, Unsubscribe(w)
    PROVE  Knowing'
<1>m. PICK mk : mk = mark
    OBVIOUS
<1>t. PICK tg : tg = [target EXCEPT ![w] = None]
    OBVIOUS
<1>1. /\ stack' = <<>> /\ task = Idle /\ task' = Idle
      /\ Relink(deps, life, tg, mk, validAt)
      /\ scheduled' = scheduled \ {w}
      /\ told' = [told EXCEPT ![w] = None]
      /\ UNCHANGED <<val, cache, async>>
    BY <1>m, <1>t DEF Unsubscribe, Ready
<1>2. target' = tg /\ life' = life /\ mk \in [Evaluated -> Marks] /\ target \in [Watchers -> Producers \cup {None}]
    BY <1>1, <1>m DEF Relink, GraphInv, OwnersOK, NodesOK
<1>3. \A s : ~Served(s) /\ ~Served(s)'
    BY <1>1, NobodyServed DEF Idle
<1>4. FreshOnes \subseteq FreshOnes'
    BY WatchSound
<1>5. \A c \in Producers : Outcome(c)' = Outcome(c)
    BY <1>1, OutcomesAre
<1>6. \A e \in Effects : mark'[e] = mark[e]
    <2>1. PICK ds, lf, va : Relink(ds, lf, tg, mk, va)
        BY <1>1
    <2> QED BY <1>2, <1>m, <2>1, RelinkMarks
<1>7. \A s \in Sinks \ {w} : told'[s] = told[s]
    <2>1. told = [s \in Sinks |-> told[s]]
        BY DEF Knowing
    <2>2. DOMAIN told = Sinks
        BY <2>1
    <2> QED BY <1>1, <2>2
<1>9. WatchersKnow'
    <2> SUFFICES ASSUME NEW u \in Watchers, NEW c \in Producers, target'[u] = c, told'[u] # None, u \notin scheduled'
                 PROVE  target[u] = c /\ told'[u] = told[u] /\ u \notin scheduled
        BY <1>3, <1>4, <1>5, WatchersStay DEF Knowing
    <2>1. u # w
        BY <1>2, <1>t, ValuesAssumption
    <2>2. target[u] = c /\ u \in Sinks
        BY <1>2, <1>t, <2>1 DEF Sinks
    <2> QED BY <1>1, <1>7, <2>1, <2>2
<1>10. EffectsKnow'
    <2> SUFFICES ASSUME NEW e \in Effects, e \notin scheduled' PROVE told'[e] = told[e] /\ e \notin scheduled
        BY <1>1, <1>2, <1>3, <1>6, EffectsStay DEF Knowing
    <2>1. e \in Sinks \ {w}
        BY KindsAssumption DEF Sinks
    <2> QED BY <1>1, <1>7, <2>1
<1>11. Attended' /\ PulledOpenly'
    BY <1>1, NobodyServed DEF Idle
<1>12. told' = [s \in Sinks |-> told'[s]]
    BY <1>1 DEF Knowing
<1> QED BY <1>9, <1>10, <1>11, <1>12 DEF Knowing

\* So is an effect that is disposed.
LEMMA DisposedKnows ==
    ASSUME GraphInv, GraphInv', Validated, Knowing, NEW e \in Effects, Disposed(e), stack = <<>>, stack' = stack,
           clock' = clock, UNCHANGED <<val, cache, async>>, task' = Idle, \A s : Served(s) => s = e
    PROVE  Knowing'
<1>m. PICK mk : mk = mark
    OBVIOUS
<1>t. PICK lf : lf = [life EXCEPT ![e] = "disposed"]
    OBVIOUS
<1>1. /\ Relink([deps EXCEPT ![e] = <<>>], lf, target, mk, validAt)
      /\ told' = [told EXCEPT ![e] = None]
      /\ scheduled' = scheduled \ {e}
    BY <1>m, <1>t DEF Disposed
<1>2. target' = target /\ life' = lf /\ mk \in [Evaluated -> Marks] /\ life \in [Effects -> Lifes]
    BY <1>1, <1>m DEF Relink, GraphInv, OwnersOK, NodesOK
<1>3. \A s : ~Served(s)'
    BY NobodyServed DEF Idle
<1>4. FreshOnes \subseteq FreshOnes'
    BY DisposedSound
<1>5. \A c \in Producers : Outcome(c)' = Outcome(c)
    BY OutcomesAre
<1>6. \A f \in Effects : mark'[f] = mark[f]
    <2>1. PICK ds, tg, va : Relink(ds, lf, tg, mk, va)
        BY <1>1
    <2> QED BY <1>2, <1>m, <2>1, RelinkMarks
<1>7. \A s \in Sinks \ {e} : told'[s] = told[s]
    <2>1. told = [s \in Sinks |-> told[s]]
        BY DEF Knowing
    <2>2. DOMAIN told = Sinks
        BY <2>1
    <2> QED BY <1>1, <2>2
<1>9. WatchersKnow'
    <2> SUFFICES ASSUME NEW u \in Watchers, NEW c \in Producers, target'[u] = c, u \notin scheduled'
                 PROVE  target[u] = c /\ told'[u] = told[u] /\ u \notin scheduled /\ ~Served(u)
        BY <1>4, <1>5, WatchersStay DEF Knowing
    <2>1. u # e /\ u \in Sinks
        BY KindsAssumption DEF Sinks
    <2> QED BY <1>1, <1>2, <1>7, <2>1
<1>10. EffectsKnow'
    <2> SUFFICES ASSUME NEW f \in Effects, life'[f] = "alive", f \notin scheduled'
                 PROVE  life[f] = "alive" /\ told'[f] = told[f] /\ f \notin scheduled /\ ~Served(f)
        BY <1>6, EffectsStay DEF Knowing
    <2>1. f # e
        BY <1>2, <1>t
    <2>2. f \in Sinks \ {e}
        BY <2>1 DEF Sinks
    <2> QED BY <1>1, <1>2, <1>t, <1>7, <2>1, <2>2
<1>11. Attended' /\ PulledOpenly'
    BY NobodyServed DEF Idle
<1>12. told' = [s \in Sinks |-> told'[s]]
    BY <1>1 DEF Knowing
<1> QED BY <1>9, <1>10, <1>11, <1>12 DEF Knowing

\* One that is created is pulled at once.
LEMMA CreateKnows ==
    ASSUME GraphInv, Knowing, NEW e \in Effects, CreateEffect(e)
    PROVE  Knowing'
<1>g. PICK g : g = Frame(e, "run")
    OBVIOUS
<1>1. /\ life' = [life EXCEPT ![e] = "alive"] /\ watched' = watched \cup {e} /\ life[e] = "new"
      /\ stack' = <<g>> /\ task = Idle /\ task' = [op |-> "create", of |-> e]
      /\ UNCHANGED <<val, clock, validAt, mark, cache, async, target, scheduled, told>>
    BY <1>g DEF CreateEffect, nodes, Ready
<1>2. \A s : ~Served(s) /\ (Served(s)' <=> s = e)
    BY <1>1, NobodyServed DEF Idle, Served
<1>3. FreshOnes \subseteq FreshOnes'
    BY <1>1 DEF FreshOnes, FreshIn
<1>4. \A c \in Producers : Outcome(c)' = Outcome(c)
    BY <1>1, OutcomesAre
<1>5. WatchersKnow'
    BY <1>1, <1>2, <1>3, <1>4, WatchersStay DEF Knowing
<1>6. EffectsKnow'
    <2> SUFFICES ASSUME NEW f \in Effects, f # e, life'[f] = "alive" PROVE life[f] = "alive"
        BY <1>1, <1>2, EffectsStay DEF Knowing
    <2> QED BY <1>1
<1>7. \A n : OnStack(n)' <=> n = e
    <2>1. g.node = e
        BY <1>g DEF Frame
    <2> QED BY <1>1, <2>1, OneOnStack
<1>8. PulledOpenly'
    BY <1>2, <1>7 DEF PulledOpenly
<1>9. Attended'
    <2>1. task'.op = "create" /\ task'.of = e
        BY <1>1
    <2>2. life'[e] = "alive"
        BY <1>1 DEF GraphInv, OwnersOK
    <2>3. \A f \in Effects : task'.of = f => life'[f] = "alive" /\ OnStack(f)'
        BY <1>7, <2>1, <2>2
    <2> QED BY <2>1, <2>3 DEF Attended
<1>10. told' = [s \in Sinks |-> told'[s]]
    BY <1>1 DEF Knowing
<1> QED BY <1>5, <1>6, <1>8, <1>9, <1>10 DEF Knowing

-----------------------------------------------------------------------------
(***************************************************************************)
(* The flush, the lane, and every step                                     *)
(***************************************************************************)

\* Where no node changes, what anyone sees changes with what he was told.
LEMMA NodesAre ==
    ASSUME UNCHANGED <<val, clock, nodes, watched>>
    PROVE  /\ FreshOnes' = FreshOnes /\ UNCHANGED <<mark, cache, async>>
           /\ \A c \in Producers \cup Effects : Outcome(c)' = Outcome(c)
<1>1. UNCHANGED <<mark, cache, async, validAt>>
    BY DEF nodes
<1>2. FreshOnes' = FreshOnes
    BY <1>1 DEF FreshOnes, FreshIn
<1> QED BY <1>1, <1>2, OutcomesStay

\* A step that only takes up the next task, or puts one down.
LEMMA TasksKnow ==
    ASSUME Knowing, UNCHANGED <<val, clock, nodes, watched, life, target, told>>,
           \A s \in Sinks : s \notin scheduled' /\ ~Served(s)' => s \notin scheduled /\ ~Served(s),
           Attended', PulledOpenly'
    PROVE  Knowing'
<1>1. /\ FreshOnes' = FreshOnes /\ UNCHANGED <<mark, cache, async>>
      /\ \A c \in Producers \cup Effects : Outcome(c)' = Outcome(c)
    BY NodesAre
<1>2. WatchersKnow'
    BY <1>1, WatchersStay DEF Knowing, Sinks
<1>3. EffectsKnow'
    BY <1>1, EffectsStay DEF Knowing, Sinks
<1> QED BY <1>2, <1>3 DEF Knowing

\* The program reads a node.
LEMMA ReadKnows ==
    ASSUME Knowing, NEW n \in Computeds, Read(n)
    PROVE  Knowing'
<1>g. PICK g : g = Entered(n)
    OBVIOUS
<1>1. /\ stack' = <<g>> /\ task = Idle /\ task' = [op |-> "read", of |-> n]
      /\ UNCHANGED <<val, clock, nodes, watched, life, target, scheduled, told>>
    BY <1>g DEF Read, Ready, owners
<1>2. task'.op = "read" /\ task.op = "idle"
    BY <1>1 DEF Idle
<1>3. \A s : ~Served(s) /\ ~Served(s)'
    BY <1>2, NobodyServed
<1>4. Attended'
    BY <1>2, NobodyServed
<1>5. PulledOpenly'
    <2>1. g.node = n
        BY <1>g DEF Entered, Frame
    <2>2. \A e \in Effects : ~OnStack(e)'
        BY <1>1, <2>1, OneOnStack, KindsAssumption DEF Sinks
    <2> QED BY <2>2 DEF PulledOpenly
<1> QED BY <1>1, <1>3, <1>4, <1>5, TasksKnow

\* The flush comes to a watcher.
LEMMA NotifyKnows ==
    ASSUME GraphInv, Knowing, NEW w \in Watchers, Notify(w)
    PROVE  Knowing'
<1>1. /\ scheduled' = scheduled \ {w} /\ task = Idle /\ task' = [op |-> "notify", of |-> w]
      /\ stack' = IF target[w] \in Atoms \/ IsFresh(target[w]) THEN <<>> ELSE <<Entered(target[w])>>
      /\ UNCHANGED <<val, clock, nodes, watched, life, target, told>>
    BY DEF Notify, Ready, owners
<1>2. task'.op = "notify" /\ task'.of = w /\ task.op = "idle"
    BY <1>1 DEF Idle
<1>3. \A s : ~Served(s) /\ (Served(s)' <=> s = w)
    BY <1>2, NobodyServed DEF Served
<1>n. FreshOnes' = FreshOnes
    BY <1>1, NodesAre
<1>c. PICK c : c = target[w]
    OBVIOUS
<1>g. PICK g : g = Entered(c)
    OBVIOUS
<1>4. (stack' = <<>> \/ stack' = <<g>>) /\ g.node = c /\ c \in Producers
    <2>1. w \in scheduled
        BY DEF Notify
    <2>2. target[w] # None /\ target[w] \in Producers \cup {None}
        BY <2>1, KindsAssumption DEF GraphInv, OwnersOK, FlagsOK, Alive
    <2> QED BY <1>1, <1>c, <1>g, <2>2 DEF Entered, Frame
<1>5. c \in Computeds => c \in FreshOnes \/ stack' = <<g>>
    <2>1. c \in Computeds /\ IsFresh(c) => c \in FreshOnes
        BY DEF IsFresh, FreshOnes, FreshIn, Watched
    <2>2. c \in Computeds => c \notin Atoms
        BY KindsAssumption DEF Evaluated
    <2> QED BY <1>1, <1>c, <1>g, <2>1, <2>2
<1>6. Attended'
    <2>1. ASSUME NEW u \in Watchers, NEW d \in Computeds, task'.of = u, target'[u] = d
          PROVE  d \in FreshOnes' \/ OnStack(d)'
        <3>1. d = c
            BY <1>1, <1>2, <1>c, <2>1
        <3>2. stack' = <<g>> => g.node = c
            BY <1>g DEF Entered, Frame
        <3> QED BY <1>5, <1>n, <3>1, <3>2, OneOnStack
    <2> QED BY <1>2, <2>1 DEF Attended
<1>7. PulledOpenly'
    <2>1. \A n : OnStack(n)' => n = c
        BY <1>4, OneOnStack
    <2>2. c \notin Effects
        BY <1>4, KindsAssumption DEF Producers, Evaluated, Sinks
    <2> QED BY <2>1, <2>2 DEF PulledOpenly
<1> QED BY <1>1, <1>3, <1>6, <1>7, TasksKnow

\* The lane comes to an effect.
LEMMA DrainKnows ==
    ASSUME GraphInv, Knowing, NEW e \in Effects, Drain(e)
    PROVE  Knowing'
<1>g. PICK g : g = Entered(e)
    OBVIOUS
<1>1. /\ e \in scheduled /\ scheduled' = scheduled \ {e} /\ task = Idle /\ task' = [op |-> "drain", of |-> e]
      /\ stack' = IF mark[e] = "clean" /\ cache[e] /= None THEN <<>> ELSE <<g>>
      /\ UNCHANGED <<val, clock, nodes, watched, life, target, told>>
    BY <1>g DEF Drain, Ready, owners
<1>2. task'.op = "drain" /\ task'.of = e /\ task.op = "idle"
    BY <1>1 DEF Idle
<1>3. \A s : ~Served(s) /\ (Served(s)' <=> s = e)
    BY <1>2, NobodyServed DEF Served
<1>4. g.node = e /\ mark' = mark
    BY <1>1, <1>g DEF Entered, Frame, nodes
<1>5. life[e] = "alive"
    BY <1>1, KindsAssumption DEF GraphInv, OwnersOK, FlagsOK, Alive
<1>6. mark'[e] = "clean" \/ OnStack(e)'
    BY <1>1, <1>4, OneOnStack
<1>7. Attended'
    <2>1. \A f \in Effects : task'.of = f => life'[f] = "alive" /\ (mark'[f] = "clean" \/ OnStack(f)')
        BY <1>1, <1>2, <1>5, <1>6
    <2> QED BY <1>2, <2>1 DEF Attended
<1>8. PulledOpenly'
    <2>1. \A n : OnStack(n)' => n = e
        BY <1>1, <1>4, OneOnStack
    <2> QED BY <1>3, <2>1 DEF PulledOpenly
<1> QED BY <1>1, <1>3, <1>7, <1>8, TasksKnow

\* A read outside any evaluation is answered; a settlement is done; nothing happens.
LEMMA RestKnows ==
    ASSUME Knowing, EndRead \/ SettleDone \/ UNCHANGED vars
    PROVE  Knowing'
<1>1. CASE EndRead \/ SettleDone
    <2>1. /\ stack' = <<>> /\ task.op \in {"idle", "read"} /\ task'.op = "idle"
          /\ UNCHANGED <<val, clock, nodes, watched, life, target, scheduled, told>>
        BY <1>1 DEF EndRead, SettleDone, Ended, Ready, Idle, owners
    <2>2. (\A s : ~Served(s) /\ ~Served(s)') /\ Attended' /\ PulledOpenly'
        BY <2>1, NobodyServed
    <2> QED BY <2>1, <2>2, TasksKnow
<1>2. CASE UNCHANGED vars
    <2>1. UNCHANGED <<val, clock, nodes, watched, life, target, scheduled, told, task, stack>>
        BY <1>2 DEF vars, owners
    <2>2. FreshOnes' = FreshOnes /\ mark' = mark
        BY <2>1, NodesAre
    <2>3. \A s : (Served(s)' <=> Served(s)) /\ (OnStack(s)' <=> OnStack(s))
        BY <2>1 DEF Served, OnStack, Names
    <2>4. Attended' /\ PulledOpenly'
        BY <2>1, <2>2, <2>3 DEF Knowing, Attended, PulledOpenly
    <2> QED BY <2>1, <2>3, <2>4, TasksKnow
<1> QED BY <1>1, <1>2

\* A watcher has been notified: it has read its node.
LEMMA EndNotifyKnows ==
    ASSUME Asked, Knowing, EndNotify
    PROVE  Knowing'
<1>w. PICK w : w = task.of
    OBVIOUS
<1>1. /\ stack = <<>> /\ stack' = <<>> /\ task.op = "notify" /\ task' = Idle
      /\ told' = [told EXCEPT ![w] = Outcome(target[w])]
      /\ UNCHANGED <<val, clock, nodes, watched, life, target, scheduled>>
    BY <1>w DEF EndNotify, Ended, owners
<1>2. w \in Watchers /\ w \in Sinks
    BY <1>1, <1>w DEF Asked, Sinks
<1>3. \A s : (Served(s) <=> s = w) /\ ~Served(s)'
    BY <1>1, <1>w, NobodyServed DEF Idle, Served
<1>4. /\ FreshOnes' = FreshOnes /\ UNCHANGED <<mark, cache, async>>
      /\ \A c \in Producers \cup Effects : Outcome(c)' = Outcome(c)
    BY <1>1, NodesAre
<1>5. told'[w] = Outcome(target[w]) /\ \A s \in Sinks \ {w} : told'[s] = told[s]
    <2>1. told = [s \in Sinks |-> told[s]]
        BY DEF Knowing
    <2>2. DOMAIN told = Sinks
        BY <2>1
    <2> QED BY <1>1, <1>2, <2>2
<1>6. WatchersKnow'
    <2> SUFFICES ASSUME NEW u \in Watchers, NEW c \in Producers, target'[u] = c, u \notin scheduled'
                 PROVE  \/ Sees(u, c)'
                        \/ target[u] = c /\ told'[u] = told[u] /\ u \notin scheduled /\ ~Served(u)
        BY <1>4, WatchersStay DEF Knowing
    <2>1. CASE u = w
        <3>1. told'[u] = Outcome(c)
            BY <1>1, <1>5, <2>1
        <3>2. c \in Computeds => c \in FreshOnes
            BY <1>1, <1>w, <2>1, OneOnStack DEF Knowing, Attended
        <3> QED BY <1>4, <3>1, <3>2 DEF Sees
    <2>2. CASE u # w
        BY <1>1, <1>3, <1>5, <2>2 DEF Sinks
    <2> QED BY <2>1, <2>2
<1>7. EffectsKnow'
    <2>1. \A e \in Effects : e \in Sinks \ {w}
        BY <1>2, KindsAssumption DEF Sinks
    <2>2. \A e \in Effects : told'[e] = told[e] /\ ~Served(e)
        BY <1>3, <1>5, <2>1
    <2> QED BY <1>1, <1>4, <2>2, EffectsStay DEF Knowing
<1>8. Attended' /\ PulledOpenly'
    BY <1>1, NobodyServed DEF Idle
<1>9. told' = [s \in Sinks |-> told'[s]]
    BY <1>1 DEF Knowing
<1> QED BY <1>6, <1>7, <1>8, <1>9 DEF Knowing

\* An effect has been pulled without a throw: it handles the value, if there is one.
LEMMA HandlesKnows ==
    ASSUME Asked, Knowing, stack = <<>>, stack' = <<>>, task.op \in {"create", "drain"}, task' = Idle,
           NEW e, e = task.of, told' = [told EXCEPT ![e] = IF async[e] = Plain THEN Outcome(e) ELSE @],
           UNCHANGED <<val, clock, nodes, watched, life, target, scheduled>>
    PROVE  Knowing'
<1>2. e \in Effects /\ e \in Sinks
    BY DEF Asked, Sinks
<1>3. \A s : (Served(s) <=> s = e) /\ ~Served(s)'
    BY NobodyServed DEF Idle, Served
<1>4. /\ FreshOnes' = FreshOnes /\ UNCHANGED <<mark, cache, async>>
      /\ \A c \in Producers \cup Effects : Outcome(c)' = Outcome(c)
    BY NodesAre
<1>5. told'[e] = (IF async[e] = Plain THEN Outcome(e) ELSE told[e]) /\ \A s \in Sinks \ {e} : told'[s] = told[s]
    <2>1. told = [s \in Sinks |-> told[s]]
        BY DEF Knowing
    <2>2. DOMAIN told = Sinks
        BY <2>1
    <2> QED BY <1>2, <2>2
<1>6. WatchersKnow'
    <2>1. \A u \in Watchers : u \in Sinks \ {e}
        BY <1>2, KindsAssumption DEF Sinks
    <2>2. \A u \in Watchers : told'[u] = told[u] /\ ~Served(u)
        BY <1>3, <1>5, <2>1
    <2> QED BY <1>4, <2>2, WatchersStay DEF Knowing
<1>7. EffectsKnow'
    <2> SUFFICES ASSUME NEW f \in Effects
                 PROVE  Handled(f)' \/ (told'[f] = told[f] /\ ~Served(f))
        BY <1>4, EffectsStay DEF Knowing
    <2>1. CASE f = e
        <3>1. mark[e] = "clean"
            BY <1>2, OneOnStack DEF Knowing, Attended
        <3> QED BY <1>2, <1>4, <1>5, <2>1, <3>1 DEF Handled
    <2>2. CASE f # e
        BY <1>3, <1>5, <2>2 DEF Sinks
    <2> QED BY <2>1, <2>2
<1>8. Attended' /\ PulledOpenly'
    BY NobodyServed DEF Idle
<1>9. told' = [s \in Sinks |-> told'[s]]
    BY DEF Knowing
<1> QED BY <1>6, <1>7, <1>8, <1>9 DEF Knowing

\* Whatever ends without a throw out of a drain.
LEMMA EndKnows ==
    ASSUME GraphInv, GraphInv', Validated, Asked, Knowing, End, ~Thrown
    PROVE  Knowing'
<1>e. PICK e : e = task.of
    OBVIOUS
<1>1. CASE EndRead
    BY <1>1, RestKnows
<1>2. CASE EndNotify
    BY <1>2, EndNotifyKnows
<1>3. CASE EndCreate
    <2>1. /\ stack = <<>> /\ stack' = stack /\ task.op = "create" /\ task' = Idle
          /\ \/ Disposed(e)
             \/ /\ told' = [told EXCEPT ![e] = IF async[e] = Plain THEN Outcome(e) ELSE @]
                /\ UNCHANGED <<mark, validAt, deps, owners, scheduled>>
          /\ UNCHANGED <<val, clock, changedAt, cache, async>>
        BY <1>3, <1>e DEF EndCreate, Ended
    <2>2. e \in Effects
        BY <1>e, <2>1 DEF Asked
    <2>3. CASE Disposed(e)
        <3>1. \A s : Served(s) => s = e
            BY <1>e DEF Served
        <3> QED BY <2>1, <2>2, <2>3, <3>1, DisposedKnows
    <2>4. CASE /\ told' = [told EXCEPT ![e] = IF async[e] = Plain THEN Outcome(e) ELSE @]
               /\ UNCHANGED <<mark, validAt, deps, owners, scheduled>>
        <3>1. UNCHANGED <<val, clock, nodes, watched, life, target, scheduled>> /\ stack' = <<>>
            BY <2>1, <2>4 DEF nodes, owners
        <3> QED BY <1>e, <2>1, <2>4, <3>1, HandlesKnows
    <2> QED BY <2>1, <2>3, <2>4
<1>4. CASE EndDrain
    <2>1. /\ stack = <<>> /\ stack' = <<>> /\ task.op = "drain" /\ task' = Idle
          /\ told' = [told EXCEPT ![e] = IF async[e] = Plain THEN Outcome(e) ELSE @]
          /\ UNCHANGED <<val, clock, nodes, watched, life, target, scheduled>>
        BY <1>4, <1>e DEF EndDrain, Ended, Thrown, nodes, owners
    <2> QED BY <1>e, <2>1, HandlesKnows
<1> QED BY <1>1, <1>2, <1>3, <1>4 DEF End

\* Every step but a drain that throws and a circle.
LEMMA KnowingStep ==
    ASSUME BodiesAreWellTyped, GraphSound, Valued, Asked, Knowing, [Next]_vars, ~ThrowCycle, ~Thrown
    PROVE  Knowing'
<1>1. GraphInv /\ Validated /\ GraphInv'
    BY SoundStep DEF GraphSound
<1>2. CASE Pull
    BY <1>1, <1>2, PullKnows
<1>3. CASE Program
    <2>1. ASSUME NEW e \in Effects, DisposeEffect(e) PROVE Knowing'
        <3>1. /\ Disposed(e) /\ stack = <<>> /\ stack' = stack /\ clock' = clock /\ task = Idle /\ task' = Idle
              /\ UNCHANGED <<val, cache, async>>
            BY <2>1 DEF DisposeEffect, Ready
        <3>2. \A s : ~Served(s)
            BY <3>1, NobodyServed DEF Idle
        <3> QED BY <1>1, <3>1, <3>2, DisposedKnows
    <2> QED BY <1>1, <1>3, <2>1, WriteKnows, ReadKnows, SubscribeKnows, UnsubscribeKnows, NotifyKnows, CreateKnows,
               DrainKnows DEF Program
<1>4. CASE End
    BY <1>1, <1>4, EndKnows
<1>5. CASE Settlement
    BY <1>1, <1>5, SettleKnows, SettleNodeKnows, RestKnows DEF Settlement
<1> QED BY <1>2, <1>3, <1>4, <1>5, RestKnows DEF Next

-----------------------------------------------------------------------------
(***************************************************************************)
(* Nobody misses a change                                                  *)
(***************************************************************************)

\* The invariant behind it: reads can be relied on, whoever hears hears, and
\* the records of the effects stand as well.
Attentive == Reproducible /\ Heard /\ Knowing /\ \A e \in Effects : Recorded(e)

\* It holds at first.
LEMMA AttentiveInit == Init => Attentive
<1> SUFFICES ASSUME Init PROVE Attentive
    OBVIOUS
<1>1. GraphSound /\ Heard /\ Knowing
    BY SoundInit, KnowingInit
<1>2. Valued /\ Asked /\ \A n \in Evaluated : Recorded(n)
    BY ValuesInit
<1>3. \A n \in Computeds \cup Effects : Recorded(n)
    BY <1>2 DEF Evaluated
<1> QED BY <1>1, <1>2, <1>3 DEF Attentive, Reproducible

\* It is inductive.
LEMMA AttentiveStep ==
    ASSUME BodiesAreWellTyped, Attentive, [Next]_vars, [~ThrowCycle /\ ~ServesStale /\ ~Thrown]_vars
    PROVE  Attentive'
<1>1. GraphSound /\ Valued /\ Asked /\ Heard /\ Knowing /\ \A e \in Effects : Recorded(e)
    BY DEF Attentive, Reproducible
<1>2. CASE ~ThrowCycle /\ ~ServesStale /\ ~Thrown
    <2>1. Heard' /\ Knowing' /\ KeepsMost
        BY <1>1, <1>2, SoundStep, KnowingStep, ValuesStep
    <2>2. \A e \in Effects : Recorded(e)'
        BY <1>1, <1>2, <2>1 DEF KeepsMost, Evaluated
    <2>3. Reproducible'
        BY <1>2, ReproducibleStep DEF Attentive
    <2> QED BY <2>1, <2>2, <2>3 DEF Attentive
<1>3. CASE UNCHANGED vars
    <2>1. UNCHANGED <<clock, nodes, watched, life, target>>
        BY <1>3 DEF vars, owners
    <2>2. Heard'
        BY <1>1, <2>1, Untroubled
    <2>3. Knowing'
        BY <1>1, <1>3, RestKnows
    <2>4. \A e \in Effects : Recorded(e)'
        BY <1>1, <1>3, StutterValues DEF KeepsValues, KeepsRecords, Evaluated
    <2>5. Reproducible'
        BY <1>3, ReproducibleStep DEF Attentive
    <2> QED BY <2>2, <2>3, <2>4, <2>5 DEF Attentive
<1> QED BY <1>2, <1>3

\* A watcher that is not scheduled has seen what evaluating everything would give.
LEMMA WatchersAreCurrent ==
    ASSUME Attentive, Ready, NEW w \in Watchers, target[w] # None, told[w] # None, w \notin scheduled
    PROVE  told[w] = Current[target[w]]
<1>1. GraphInv /\ Supported /\ FreshJustified /\ settling.nodes = {}
    BY FreshHasRecord DEF Attentive, Reproducible, Ready
<1>2. PICK c : c = target[w]
    OBVIOUS
<1>3. c \in Atoms \cup Computeds
    BY <1>1, <1>2 DEF GraphInv, OwnersOK, Producers
<1>4. ~Served(w)
    BY NobodyServed DEF Ready, Idle
<1>5. Sees(w, c)
    BY <1>2, <1>3, <1>4 DEF Attentive, Knowing, WatchersKnow, Producers
<1>6. Outcome(c) = Current[c]
    BY <1>1, <1>3, <1>5, FreshAreCurrent DEF Sees
<1> QED BY <1>2, <1>5, <1>6 DEF Sees

\* An effect that is not scheduled has handled the value that evaluating
\* everything would give.
LEMMA EffectsAreCurrent ==
    ASSUME Attentive, Ready, NEW e \in Effects, life[e] = "alive", Current[e].kind = "value", e \notin scheduled
    PROVE  told[e] = Current[e]
<1>1. GraphInv /\ Supported /\ FreshJustified /\ settling.nodes = {} /\ stack = <<>>
    BY FreshHasRecord DEF Attentive, Reproducible, Ready
<1>2. ~Served(e)
    BY NobodyServed DEF Ready, Idle
<1>3. mark[e] = "clean" /\ (async[e] = Plain => told[e] = Outcome(e))
    BY <1>2 DEF Attentive, Knowing, EffectsKnow, Handled
<1>4. e \in watched
    BY <1>1 DEF Supported, WatchedOK, Roots, Alive
<1>5. IsFresh(e)
    BY <1>3, <1>4 DEF IsFresh, Watched
<1>6. Justified(e)
    <2>1. e \notin Computing
        BY <1>1 DEF Computing
    <2> QED BY <1>3, <1>4, <2>1 DEF Attentive, Recorded, Due
<1>7. Members(deps[e]) \cap Computeds \subseteq FreshOnes
    BY <1>3, <1>4 DEF Attentive, Heard
<1>8. Outcome(e) = Current[e]
    BY <1>1, <1>5, <1>6, <1>7, FreshAreCurrent
<1>9. async[e] = Plain
    <2>1. e \in Evaluated /\ e \notin Atoms
        BY KindsAssumption DEF Evaluated, Sinks
    <2>2. Outcome(e).kind = "value"
        BY <1>8
    <2>3. CASE async[e].kind = "error"
        BY <2>1, <2>2, <2>3 DEF Outcome
    <2>4. CASE \E s \in Suspensions : async[e] = Suspended(s)
        BY <2>1, <2>2, <2>4 DEF Outcome, Suspended
    <2> QED BY <1>1, <2>1, <2>3, <2>4 DEF GraphInv, NodesOK, AsyncOK
<1> QED BY <1>3, <1>8, <1>9

\* While no read closes a circle, none is served a stale value on purpose and no
\* effect throws as it is drained, a subscriber that would see something other
\* than what it last saw has been scheduled, and so has an effect whose settled
\* value is not the one it handled.
THEOREM NobodyIsMissed ==
    ASSUME BodiesAreWellTyped
    PROVE  Spec /\ [][~ThrowCycle /\ ~ServesStale /\ ~Thrown]_vars => []NobodyMissesAChange
<1>1. Init => Attentive
    BY AttentiveInit
<1>2. Attentive /\ [Next]_vars /\ [~ThrowCycle /\ ~ServesStale /\ ~Thrown]_vars => Attentive'
    BY AttentiveStep
<1>3. Attentive => NobodyMissesAChange
    BY WatchersAreCurrent, EffectsAreCurrent DEF NobodyMissesAChange
<1> QED BY <1>1, <1>2, <1>3, PTL DEF Spec
=============================================================================
