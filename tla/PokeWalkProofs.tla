--------------------------- MODULE PokeWalkProofs ---------------------------
(***************************************************************************)
(* Theorems about PokeWalk, for every finite graph, every order of its     *)
(* subscriber lists, any watchers, and any number of passes.               *)
(***************************************************************************)
EXTENDS PokeWalk, DataLemmas, FiniteSetTheorems, SequenceTheorems, TLAPS

-----------------------------------------------------------------------------
(***************************************************************************)
(* The inductive invariant.                                                *)
(***************************************************************************)
Frames == [next : Links, changed : BOOLEAN]

\* Subscriber lists of the graph, none of which holds the root; a watcher or
\* effect in one of them is alive.
GraphOK ==
    /\ subs \in [Producers -> Seq(Nodes \ {Root})]
    /\ \A p \in Producers : Members(subs[p]) \cap (Watchers \cup Effects) \subseteq watched

\* What the current pass has visited, the root included.
Visited == {Root} \cup {n \in Nodes : stamp[n] = pokePass}

\* A position of the walk is a link of a visited producer, or none.
IsLink(l) == l \in Producers \X Nat /\ l[2] \in 1..Len(subs[l[1]])
IsPosition(l) == l = None \/ (IsLink(l) /\ l[1] \in Visited)

\* The cursor is on a link, the link after it is next in hand, and so are the
\* suspended positions.
PositionsOK ==
    pc = "walk" =>
        /\ IsLink(cur) /\ cur[1] \in Visited
        /\ IsPosition(next) /\ (NextSub(cur) # None => next = NextSub(cur))
        /\ \A k \in DOMAIN stack : IsPosition(stack[k].next)

\* A position comes to the i-th subscriber of p when it is in that list and
\* not past it.
ComesTo(l, p, i) == l # None /\ l[1] = p /\ l[2] <= i
Covers(p, i) ==
    \/ ComesTo(cur, p, i) \/ ComesTo(next, p, i)
    \/ \E k \in DOMAIN stack : ComesTo(stack[k].next, p, i)

\* Whoever subscribes to a visited producer is visited, or one of the
\* positions of the walk comes to it.
Covered ==
    pc = "walk" =>
        \A p \in Visited \cap Producers : \A i \in 1..Len(subs[p]) :
            subs[p][i] \in Visited \/ Covers(p, i)

\* When the loop has ended the visited nodes are closed under subscription.
Closed ==
    pc = "flush" => \A p \in Visited \cap Producers : Members(subs[p]) \subseteq Visited

\* Nothing is visited that is not downstream of the root.
Confined == pc \in {"walk", "flush"} => Visited \subseteq Downstream

\* Without a cutoff every producer of the walk counts as changed.
Uncut ==
    pc = "walk" /\ ~cutoff =>
        changed = TRUE /\ \A k \in DOMAIN stack : stack[k].changed = TRUE

\* The visited watchers have been dealt with: probes are queued, and without
\* a cutoff everyone is, and is to get the draft unless it is a probe.
Told ==
    pc \in {"walk", "flush"} => \A w \in Visited \cap Watchers :
        /\ w \in Probes => w \in queued
        /\ ~cutoff => w \in queued /\ (w \notin Probes => w \in Members(wakes))

\* The draft goes to nodes of this pass only, and to none of them twice.
WakesOK ==
    /\ \A i \in DOMAIN wakes : stamp[wakes[i]] = pokePass
    /\ WokenOnce

\* Stamps are never ahead of the pass.
StampsOK == \A n \in Nodes : stamp[n] <= pokePass

WalkInv ==
    /\ TypeOK /\ GraphOK /\ StampsOK
    /\ PositionsOK /\ Covered /\ Closed /\ Confined
    /\ Uncut /\ Told /\ WakesOK
-----------------------------------------------------------------------------
(***************************************************************************)
(* Data: what is downstream of the root.                                   *)
(***************************************************************************)
\* The hops of Downstream, unfolded: hop 0 is the root, and each hop adds the
\* subscribers of the one before.
Hops(W) ==
    /\ W[0] = {Root}
    /\ \A k \in 1..Cardinality(Producers) :
          W[k] = W[k-1] \cup UNION {Members(subs[p]) : p \in W[k-1] \cap Producers}
    /\ Downstream = W[Cardinality(Producers)]

\* What is downstream is reached in at most as many hops as there are producers.
LEMMA DownstreamHops ==
    ASSUME subs \in [Producers -> Seq(Nodes \ {Root})]
    PROVE  \E W \in [0..Cardinality(Producers) -> SUBSET Nodes] : Hops(W)
<1> DEFINE N == Cardinality(Producers)
           V == SUBSET Nodes
           Next1(X) == X \cup UNION {Members(subs[p]) : p \in X \cap Producers}
           Step == [k \in 1..N |-> [X \in V |-> Next1(X)]]
           F(g) == [k \in 0..N |-> IF k = 0 THEN {Root} ELSE Next1(g[k-1])]
           R == CHOOSE g : g = F(g)
<1>1. N \in Nat
    BY NodesAssumption, FS_CardinalityType
<1>2. {Root} \in V
    BY NodesAssumption DEF Nodes
<1>3. ASSUME NEW X \in V PROVE Next1(X) \in V
    <2>1. ASSUME NEW p \in Producers PROVE Members(subs[p]) \subseteq Nodes
        BY DEF Members
    <2> QED BY <2>1
<1>4. Step \in [1..N -> [V -> V]]
    <2> HIDE DEF Next1, V
    <2> QED BY <1>3
<1>5. PICK g \in [0..N -> V] : g[0] = {Root} /\ \A k \in 1..N : g[k] = Step[k][g[k-1]]
    <2> HIDE DEF V, Next1, Step, N, F, R
    <2>1. \E g \in [0..N -> V] : Solves(N, {Root}, Step, g)
        BY <1>1, <1>2, <1>4, RecursionExists
    <2> QED BY <2>1 DEF Solves
<1>6. ASSUME NEW k \in 1..N PROVE g[k] = Next1(g[k-1])
    <2>2. g[k] = Step[k][g[k-1]]
        BY <1>5
    <2> HIDE DEF Next1, V
    <2>1. k-1 \in 0..N /\ g[k-1] \in V
        <3>1. k-1 \in 0..N
            BY <1>1
        <3> QED BY <3>1
    <2> HIDE DEF N
    <2>3. \A X \in V : Step[k][X] = Next1(X)
        BY <1>6
    <2> QED BY <2>1, <2>2, <2>3
<1>7. g = F(g)
    <2> HIDE DEF Next1, V
    <2>1. ASSUME NEW k \in 0..N PROVE g[k] = F(g)[k]
        <3>1. CASE k = 0
            BY <3>1, <1>5
        <3>2. CASE k # 0
            BY <1>1, <1>6, <3>2
        <3> QED BY <3>1, <3>2
    <2> QED BY <2>1, <1>5
<1>8. R = F(R)
    <2> HIDE DEF F
    <2> QED BY <1>7
<1>9. R[0] = {Root} /\ \A k \in 1..N : R[k] = Next1(R[k-1])
    <2> HIDE DEF R, Next1
    <2>1. \A k \in 0..N : R[k] = F(R)[k]
        <3> HIDE DEF F
        <3> QED BY <1>8
    <2> QED BY <1>1, <2>1
<1>10. R \in [0..N -> V]
    <2> DEFINE P == {k \in 0..N : R[k] \in V}
    <2> HIDE DEF R, Next1, V
    <2>1. 0 \in P
        BY <1>1, <1>2, <1>9
    <2>2. ASSUME NEW k \in 1..N, k-1 \in P PROVE k \in P
        BY <1>1, <1>3, <1>9, <2>2
    <2>3. 0..N \subseteq P
        <3> HIDE DEF P, N
        <3> QED BY <1>1, <2>1, <2>2, InductionTo
    <2> QED BY <1>8, <2>3
<1>11. Downstream = R[N]
    BY DEF Downstream
<1>12. Hops(R)
    <2> HIDE DEF R
    <2> QED BY <1>9, <1>11 DEF Hops
<1> QED
    <2> HIDE DEF R
    <2> QED BY <1>10, <1>12

\* What is downstream lies in every set that holds the root and the
\* subscribers of its producers.
LEMMA DownstreamLeast ==
    ASSUME subs \in [Producers -> Seq(Nodes \ {Root})],
           NEW X, Root \in X, \A p \in X \cap Producers : Members(subs[p]) \subseteq X
    PROVE  Downstream \subseteq X
<1> DEFINE N == Cardinality(Producers)
<1>1. N \in Nat
    BY NodesAssumption, FS_CardinalityType
<1>2. PICK W \in [0..N -> SUBSET Nodes] : Hops(W)
    BY DownstreamHops
<1> DEFINE P == {k \in 0..N : W[k] \subseteq X}
<1>3. 0 \in P
    BY <1>1, <1>2 DEF Hops
<1>4. ASSUME NEW k \in 1..N, k-1 \in P PROVE k \in P
    BY <1>2, <1>4 DEF Hops
<1>5. 0..N \subseteq P
    <2> HIDE DEF P, N
    <2> QED BY <1>1, <1>3, <1>4, InductionTo
<1> QED BY <1>1, <1>2, <1>5 DEF Hops

\* The root is downstream, and so are the subscribers of what is: with fewer
\* new producers than hops, some hop adds none, and nothing comes after it.
LEMMA DownstreamClosed ==
    ASSUME subs \in [Producers -> Seq(Nodes \ {Root})]
    PROVE  /\ Root \in Downstream
           /\ \A p \in Downstream \cap Producers : Members(subs[p]) \subseteq Downstream
<1> DEFINE N == Cardinality(Producers)
<1>1. N \in Nat
    BY NodesAssumption, FS_CardinalityType
<1>2. PICK W \in [0..N -> SUBSET Nodes] : Hops(W)
    BY DownstreamHops
<1> DEFINE Of(k) == W[k] \cap Producers
<1>3. \A k \in 0..N : IsFiniteSet(Of(k)) /\ Cardinality(Of(k)) \in Nat /\ Cardinality(Of(k)) <= N
    BY NodesAssumption, FS_Subset, FS_CardinalityType
<1>4. \A k \in 1..N : W[k-1] \subseteq W[k]
    BY <1>2 DEF Hops
<1>5. \E j \in 1..N : Of(j) = Of(j-1)
    <2> SUFFICES ASSUME \A j \in 1..N : Of(j) # Of(j-1) PROVE FALSE
        OBVIOUS
    <2> DEFINE P == {k \in 0..N : Cardinality(Of(k)) >= k+1}
    <2>1. 0 \in P
        <3>1. Of(0) = {Root}
            BY <1>2, NodesAssumption DEF Hops
        <3>2. Cardinality(Of(0)) = 1
            <4> HIDE DEF Of
            <4> QED BY <3>1, FS_Singleton
        <3> HIDE DEF Of
        <3> QED BY <1>1, <3>2
    <2>2. ASSUME NEW k \in 1..N, k-1 \in P PROVE k \in P
        <3>1. k \in 0..N /\ k-1 \in 0..N /\ Of(k-1) \in SUBSET Of(k)
            BY <1>1, <1>4
        <3>2. Cardinality(Of(k-1)) <= Cardinality(Of(k)) /\ Cardinality(Of(k)) # Cardinality(Of(k-1))
            <4> HIDE DEF Of
            <4> QED BY <1>3, <3>1, FS_Subset
        <3> HIDE DEF Of
        <3> QED BY <1>3, <2>2, <3>1, <3>2
    <2>3. 0..N \subseteq P
        <3> HIDE DEF P, N
        <3> QED BY <1>1, <2>1, <2>2, InductionTo
    <2> HIDE DEF Of
    <2>4. N \in 0..N /\ N \in P
        BY <1>1, <2>3
    <2> HIDE DEF N
    <2> QED BY <1>1, <1>3, <2>4
<1>6. PICK j \in 1..N : Of(j) = Of(j-1)
    BY <1>5
<1> DEFINE Q == {i \in 0..(N-j) : W[j+i] = W[j]}
<1>7. 0..(N-j) \subseteq Q
    <2>1. N-j \in Nat /\ 0 \in Q
        BY <1>1
    <2>2. ASSUME NEW i \in 1..(N-j), i-1 \in Q PROVE i \in Q
        <3>1. j+i \in 1..N /\ W[j+i-1] = W[j] /\ j+i-1 = j+(i-1)
            BY <1>1, <2>2
        <3>2. W[j+i] = W[j] \cup UNION {Members(subs[p]) : p \in Of(j)}
            BY <1>2, <3>1 DEF Hops
        <3>3. W[j] = W[j-1] \cup UNION {Members(subs[p]) : p \in Of(j-1)}
            BY <1>2 DEF Hops
        <3> HIDE DEF Of
        <3>4. W[j+i] = W[j]
            BY <1>6, <3>2, <3>3
        <3> QED BY <3>4
    <2> HIDE DEF Q
    <2>3. \A M \in Nat : 0 \in Q /\ (\A i \in 1..M : i-1 \in Q => i \in Q) => 0..M \subseteq Q
        BY InductionTo
    <2> QED BY <2>1, <2>2, <2>3
<1>8. Downstream = W[j]
    <2>1. N-j \in 0..(N-j) /\ j+(N-j) = N
        BY <1>1
    <2> QED BY <1>2, <1>7, <2>1 DEF Hops
<1>9. W[j] = W[j-1] \cup UNION {Members(subs[p]) : p \in Of(j)}
    BY <1>2, <1>6 DEF Hops
<1>10. Root \in W[j]
    <2> DEFINE P == {k \in 0..N : Root \in W[k]}
    <2>1. 0 \in P
        BY <1>1, <1>2 DEF Hops
    <2>2. ASSUME NEW k \in 1..N, k-1 \in P PROVE k \in P
        BY <1>4, <2>2
    <2>3. 0..N \subseteq P
        <3> HIDE DEF P, N
        <3> QED BY <1>1, <2>1, <2>2, InductionTo
    <2> QED BY <1>1, <2>3
<1> QED BY <1>8, <1>9, <1>10
-----------------------------------------------------------------------------
(***************************************************************************)
(* The cursor.                                                             *)
(***************************************************************************)
\* A subscriber list holds nodes other than the root, each at its place.
LEMMA ListsOK ==
    ASSUME GraphOK, NEW p \in Producers
    PROVE  /\ Len(subs[p]) \in Nat /\ DOMAIN subs[p] = 1..Len(subs[p])
           /\ \A i \in 1..Len(subs[p]) : subs[p][i] \in Nodes \ {Root} /\ subs[p][i] \in Members(subs[p])
           /\ subs[p] = <<>> <=> Len(subs[p]) = 0
<1>1. subs[p] \in Seq(Nodes \ {Root})
    BY DEF GraphOK
<1> QED BY <1>1 DEF Members

\* A link is not the absence of one.
LEMMA LinkIsNotNone == \A p, i : <<p, i>> # None /\ <<p, i>>[1] = p /\ <<p, i>>[2] = i
BY DEF None

\* The link after a link is the next one of its list, if there is one.
LEMMA NextLink ==
    ASSUME GraphOK, NEW l, IsLink(l)
    PROVE  /\ l \in Links /\ l # None /\ l[1] \in Producers /\ l[2] \in Nat \ {0}
           /\ \/ /\ NextSub(l) = <<l[1], l[2]+1>> /\ IsLink(NextSub(l)) /\ NextSub(l) # None
              \/ NextSub(l) = None /\ l[2] = Len(subs[l[1]])
<1>1. PICK p \in Producers, i \in Nat : l = <<p, i>>
    BY DEF IsLink
<1>2. l[1] = p /\ l[2] = i /\ l # None
    BY <1>1, LinkIsNotNone
<1>3. i \in 1..Len(subs[p]) /\ Len(subs[p]) \in Nat
    BY <1>2, ListsOK DEF IsLink
<1>4. l \in Links
    BY <1>1, <1>3 DEF Links
<1>5. CASE i < Len(subs[p])
    <2>1. NextSub(l) = <<p, i+1>>
        BY <1>2, <1>5 DEF NextSub
    <2>2. <<p, i+1>>[1] = p /\ <<p, i+1>>[2] = i+1 /\ <<p, i+1>> # None
        BY LinkIsNotNone
    <2>3. IsLink(NextSub(l))
        BY <1>3, <1>5, <2>1, <2>2 DEF IsLink
    <2> QED BY <1>2, <1>3, <1>4, <2>1, <2>2, <2>3
<1>6. CASE ~(i < Len(subs[p]))
    BY <1>2, <1>3, <1>4, <1>6 DEF NextSub
<1> QED BY <1>5, <1>6

\* Where an iteration goes on: to the link in hand, to the first suspended
\* position that is one, or out of the loop.
Goes(link, frames, verdict) ==
    \/ /\ link # None /\ pc' = pc
       /\ cur' = link /\ next' = NextSub(link) /\ stack' = frames /\ changed' = verdict
    \/ \E t \in DOMAIN frames :
          /\ link = None /\ pc' = pc
          /\ frames[t].next # None
          /\ \A k \in DOMAIN frames : k < t => frames[k].next = None
          /\ cur' = frames[t].next /\ next' = NextSub(frames[t].next)
          /\ stack' = SubSeq(frames, t+1, Len(frames)) /\ changed' = frames[t].changed
    \/ /\ link = None /\ \A k \in DOMAIN frames : frames[k].next = None
       /\ pc' = "flush" /\ UNCHANGED walk

\* Resume goes to the next subscriber of the innermost frame that has one.
LEMMA ResumeGoes ==
    ASSUME NEW link, NEW F, NEW frames \in Seq(F), NEW verdict, Resume(link, frames, verdict)
    PROVE  Goes(link, frames, verdict)
<1> DEFINE open == {k \in DOMAIN frames : frames[k].next # None}
           top == CHOOSE i \in open : \A j \in open : i <= j
<1>0. open \in SUBSET Nat
    OBVIOUS
<1>1. CASE link # None
    BY <1>1 DEF Resume, Goes
<1>2. CASE link = None /\ open # {}
    <2>1. \E m \in open : \A k \in open : m <= k
        <3> HIDE DEF open
        <3> QED BY <1>0, <1>2, LeastNatural
    <2>2. top \in open /\ \A k \in open : top <= k
        <3> HIDE DEF open
        <3> QED BY <2>1
    <2>3. /\ cur' = frames[top].next /\ next' = NextSub(frames[top].next)
          /\ stack' = popped(frames, top) /\ changed' = frames[top].changed /\ pc' = pc
        BY <1>2 DEF Resume
    <2> HIDE DEF top
    <2>4. \A k \in DOMAIN frames : k < top => frames[k].next = None
        BY <1>0, <2>2
    <2> QED BY <1>2, <2>2, <2>3, <2>4 DEF popped, Goes
<1>3. CASE link = None /\ open = {}
    BY <1>3 DEF Resume, Goes
<1> QED BY <1>1, <1>2, <1>3
\* Popping down to a frame leaves the frames under it, and those only.
Under(rest, frames, t) ==
    /\ \A k \in DOMAIN rest : \E j \in DOMAIN frames : rest[k] = frames[j]
    /\ \A j \in DOMAIN frames : t < j => \E k \in DOMAIN rest : rest[k] = frames[j]

\* The frames that are left are those under the one popped down to.
LEMMA PoppedFrames ==
    ASSUME NEW F, NEW frames \in Seq(F), NEW t \in DOMAIN frames
    PROVE  /\ SubSeq(frames, t+1, Len(frames)) \in Seq(F)
           /\ Under(SubSeq(frames, t+1, Len(frames)), frames, t)
<1> DEFINE rest == SubSeq(frames, t+1, Len(frames))
<1>1. t \in 1..Len(frames) /\ Len(frames) \in Nat /\ DOMAIN frames = 1..Len(frames)
    OBVIOUS
<1>2. \A i \in (t+1)..Len(frames) : frames[i] \in F
    BY <1>1
<1>3. /\ rest \in Seq(F)
      /\ Len(rest) = IF t+1 <= Len(frames) THEN Len(frames)-(t+1)+1 ELSE 0
      /\ \A i \in 1..(Len(frames)-(t+1)+1) : rest[i] = frames[(t+1)+i-1]
    BY <1>1, <1>2, SubSeqProperties
<1> HIDE DEF rest
<1>4. DOMAIN rest = 1..Len(rest) /\ Len(rest) = Len(frames) - t
    BY <1>1, <1>3
<1>5. ASSUME NEW k \in 1..(Len(frames)-t) PROVE rest[k] = frames[t+k] /\ t+k \in DOMAIN frames
    <2>1. k \in 1..(Len(frames)-(t+1)+1) /\ (t+1)+k-1 = t+k /\ t+k \in DOMAIN frames
        BY <1>1
    <2>2. rest[k] = frames[(t+1)+k-1]
        BY <1>3, <2>1
    <2> QED BY <2>1, <2>2
<1>6. ASSUME NEW j \in DOMAIN frames, t < j PROVE \E k \in DOMAIN rest : rest[k] = frames[j]
    <2>1. j-t \in DOMAIN rest /\ t+(j-t) = j
        BY <1>1, <1>4, <1>6
    <2> QED BY <1>4, <1>5, <2>1
<1>7. Under(rest, frames, t)
    BY <1>4, <1>5, <1>6 DEF Under
<1> QED BY <1>3, <1>7 DEF rest
-----------------------------------------------------------------------------
(***************************************************************************)
(* Types.                                                                  *)
(***************************************************************************)
\* The link after a position is a position.
LEMMA NextSubType == ASSUME NEW l \in Links, l # None PROVE NextSub(l) \in Links
<1>1. PICK p \in Producers, i \in Nat \ {0} : l = <<p, i>>
    BY DEF Links
<1> QED BY <1>1 DEF NextSub, Links

\* The cursor keeps its type when an iteration goes on.
LEMMA GoesType ==
    ASSUME TypeOK, Goes(next, stack, changed)
    PROVE  /\ cur' \in Links /\ next' \in Links /\ stack' \in Seq(Frames) /\ changed' \in BOOLEAN
           /\ pc' \in {pc, "flush"}
<1>1. stack \in Seq(Frames) /\ next \in Links /\ changed \in BOOLEAN
    BY DEF TypeOK, Frames
<1>2. CASE next # None /\ cur' = next /\ next' = NextSub(next) /\ stack' = stack
           /\ changed' = changed /\ pc' = pc
    BY <1>1, <1>2, NextSubType
<1>3. ASSUME NEW t \in DOMAIN stack, stack[t].next # None,
             cur' = stack[t].next, next' = NextSub(stack[t].next), pc' = pc,
             stack' = SubSeq(stack, t+1, Len(stack)), changed' = stack[t].changed
      PROVE  /\ cur' \in Links /\ next' \in Links /\ stack' \in Seq(Frames)
             /\ changed' \in BOOLEAN /\ pc' \in {pc, "flush"}
    <2>1. stack[t] \in Frames /\ t \in 1..Len(stack) /\ Len(stack) \in Nat
        BY <1>1
    <2>2. stack[t].next \in Links /\ stack[t].changed \in BOOLEAN
        BY <2>1 DEF Frames
    <2>3. SubSeq(stack, t+1, Len(stack)) \in Seq(Frames)
        BY <1>1, PoppedFrames
    <2> QED BY <1>3, <2>2, <2>3, NextSubType
<1>4. CASE pc' = "flush" /\ UNCHANGED walk
    BY <1>1, <1>4 DEF TypeOK, walk
<1> QED BY <1>2, <1>3, <1>4 DEF Goes

\* What is left of the stack when a position is resumed.
LEMMA PoppedStack ==
    ASSUME TypeOK, NEW t \in DOMAIN stack, stack' = SubSeq(stack, t+1, Len(stack))
    PROVE  /\ \A k \in DOMAIN stack' : \E j \in DOMAIN stack : stack'[k] = stack[j]
           /\ \A j \in DOMAIN stack : t < j => \E k \in DOMAIN stack' : stack'[k] = stack[j]
<1>1. stack \in Seq(Frames)
    BY DEF TypeOK, Frames
<1>2. Under(stack', stack, t)
    BY <1>1, PoppedFrames
<1> QED BY <1>2 DEF Under

\* Every walk begins with the books empty.
LEMMA TypeInit == Init => TypeOK
<1> SUFFICES ASSUME Init PROVE TypeOK
    OBVIOUS
<1>1. pokePass \in 0..MaxPasses /\ stamp \in [Nodes -> 0..MaxPasses]
    BY PassesAssumption DEF Init
<1>2. cur \in Links /\ next \in Links
    BY DEF Init, Links
<1>3. stack \in Seq(Frames) /\ wakes \in Seq(Watchers \ Probes)
    BY DEF Init
<1> QED BY <1>1, <1>2, <1>3 DEF Init, TypeOK, Frames

\* Every step keeps the variables within their types.
LEMMA TypeStep == TypeOK /\ [Next]_vars => TypeOK'
<1> SUFFICES ASSUME TypeOK, [Next]_vars PROVE TypeOK'
    OBVIOUS
<1> USE DEF TypeOK, Frames
<1>0. \A n \in Nodes : visitStamp(n) \in [Nodes -> 0..MaxPasses]
    BY DEF visitStamp
<1>1. ASSUME NEW w \in Watchers, visitWatcher(w) PROVE TypeOK'
    <2>1. Goes(next, stack, changed)
        BY <1>1, ResumeGoes DEF visitWatcher
    <2>2. stamp' \in [Nodes -> 0..MaxPasses] /\ queued' \subseteq Watchers
        BY <1>0, <1>1 DEF visitWatcher, Nodes
    <2>3. wakes' \in Seq(Watchers \ Probes)
        <3>1. CASE takesDraft(w)
            <4>1. w \in Watchers \ Probes
                BY <3>1 DEF takesDraft
            <4>2. Append(wakes, w) \in Seq(Watchers \ Probes)
                BY <4>1, AppendProperties
            <4> QED BY <1>1, <4>2 DEF visitWatcher
        <3>2. CASE ~takesDraft(w)
            BY <1>1, <3>2 DEF visitWatcher
        <3> QED BY <3>1, <3>2
    <2> QED BY <1>1, <2>1, <2>2, <2>3, GoesType DEF visitWatcher, graph
<1>2. ASSUME NEW c \in Producers, visitComputed(c) PROVE TypeOK'
    <2>1. stamp' \in [Nodes -> 0..MaxPasses]
        BY <1>0, <1>2 DEF visitComputed, Nodes
    <2>2. cur' \in Links /\ next' \in Links
        BY <1>2 DEF visitComputed, Links
    <2>3. changed' \in BOOLEAN
        BY <1>2 DEF visitComputed
    <2>4. stack' \in Seq(Frames)
        <3> DEFINE f == [next |-> next, changed |-> cutoff => differs[c]]
        <3>1. f \in Frames
            OBVIOUS
        <3> HIDE DEF f
        <3>2. <<f>> \in Seq(Frames)
            BY <3>1
        <3>3. <<f>> \o stack \in Seq(Frames)
            BY <3>2, ConcatProperties
        <3> QED BY <1>2, <3>3 DEF visitComputed, suspended, f
    <2> QED BY <1>2, <2>1, <2>2, <2>3, <2>4 DEF visitComputed, graph
<1>3. ASSUME NEW n \in Producers \cup Effects, passOver(n) PROVE TypeOK'
    <2>1. Goes(next, stack, changed)
        BY <1>3, ResumeGoes DEF passOver
    <2>2. stamp' \in [Nodes -> 0..MaxPasses]
        BY <1>0, <1>3 DEF passOver, Nodes
    <2> QED BY <1>3, <2>1, <2>2, GoesType DEF passOver, graph
<1>4. CASE skipVisited
    <2>1. Goes(next, stack, changed)
        BY <1>4, ResumeGoes DEF skipVisited
    <2> QED BY <1>4, <2>1, GoesType DEF skipVisited, graph
<1>5. CASE flush
    BY <1>5 DEF flush, walk
<1>6. CASE deliverWakes
    BY <1>6 DEF deliverWakes, graph, walk
<1>7. ASSUME NEW useCutoff \in BOOLEAN, pokeDraftWatchers(useCutoff) PROVE TypeOK'
    <2>1. pokePass' \in 0..MaxPasses
        BY <1>7, PassesAssumption DEF pokeDraftWatchers
    <2>2. FirstSub(Root) \in Links
        BY NodesAssumption DEF FirstSub, Links
    <2>3. cur' \in Links /\ next' \in Links
        BY <1>7, <2>2, NextSubType DEF pokeDraftWatchers, Links
    <2>4. changed' \in BOOLEAN /\ cutoff' \in BOOLEAN
        BY <1>7 DEF pokeDraftWatchers
    <2>5. stack' \in Seq(Frames) /\ wakes' \in Seq(Watchers \ Probes)
        BY <1>7 DEF pokeDraftWatchers
    <2> QED BY <1>7, <2>1, <2>3, <2>4, <2>5 DEF pokeDraftWatchers, graph
<1>8. CASE UNCHANGED vars
    BY <1>8 DEF vars, walk
<1> QED BY <1>1, <1>2, <1>3, <1>4, <1>5, <1>6, <1>7, <1>8 DEF Next, Loop

\* The walk's positions, its stack and the lists it fills are well formed, in
\* every execution.
THEOREM TypeCorrect == Spec => []TypeOK
<1> QED BY TypeInit, TypeStep, PTL DEF Spec
-----------------------------------------------------------------------------
(***************************************************************************)
(* One iteration of the loop.                                              *)
(***************************************************************************)
\* The cursor's subscriber is a node downstream of the root.
LEMMA CursorNode ==
    ASSUME WalkInv, pc = "walk"
    PROVE  SubOf(cur) \in (Nodes \ {Root}) \cap Downstream
<1>1. cur[1] \in Visited \cap Producers /\ cur[2] \in 1..Len(subs[cur[1]])
    BY DEF WalkInv, PositionsOK, IsLink
<1>2. cur[1] \in Downstream
    BY <1>1 DEF WalkInv, Confined
<1>3. SubOf(cur) \in Nodes \ {Root} /\ SubOf(cur) \in Members(subs[cur[1]])
    BY <1>1, ListsOK DEF WalkInv, SubOf
<1> QED BY <1>1, <1>2, <1>3, DownstreamClosed DEF WalkInv, GraphOK

\* A stamp adds its node to the visited ones.
LEMMA Stamping ==
    ASSUME TypeOK, NEW n \in Nodes, stamp' = visitStamp(n), pokePass' = pokePass
    PROVE  Visited' = Visited \cup {n}
BY DEF TypeOK, visitStamp, Visited

\* An iteration that passes its subscriber by or has dealt with it: the node
\* is visited, and unless it was before it has no subscribers of its own.
Passes ==
    /\ pc = "walk"
    /\ Visited' = Visited \cup {SubOf(cur)}
    /\ SubOf(cur) \in Producers => SubOf(cur) \in Visited \/ subs[SubOf(cur)] = <<>>
    /\ Goes(next, stack, changed)
    /\ UNCHANGED <<subs, pokePass, cutoff>>

\* The positions after a pass: the cursor's link is done, all others are kept.
LEMMA PassKeepsPositions ==
    ASSUME WalkInv, Passes
    PROVE  PositionsOK'
<1> DEFINE After(l) == l = None \/ (IsLink(l) /\ l[1] \in Visited')
<1> SUFFICES ASSUME pc' = "walk"
             PROVE  /\ IsLink(cur') /\ cur'[1] \in Visited' /\ After(next')
                    /\ NextSub(cur') # None => next' = NextSub(cur')
                    /\ \A k \in DOMAIN stack' : After(stack'[k].next)
    BY DEF PositionsOK, IsPosition, IsLink, NextSub, Passes, None
<1>1. \A l : IsPosition(l) => After(l)
    BY DEF IsPosition, Passes
<1>2. IsPosition(next) /\ \A k \in DOMAIN stack : IsPosition(stack[k].next)
    BY DEF WalkInv, PositionsOK, Passes
<1>3. ASSUME NEW l, IsPosition(l), l # None
      PROVE  IsLink(l) /\ l[1] \in Visited' /\ After(NextSub(l))
    <2>1. IsLink(l) /\ l[1] \in Visited'
        BY <1>3 DEF IsPosition, Passes
    <2>2. \/ NextSub(l) = None
          \/ IsLink(NextSub(l)) /\ NextSub(l) = <<l[1], l[2]+1>>
        BY <2>1, NextLink DEF WalkInv
    <2> QED BY <2>1, <2>2
<1> HIDE DEF After
<1>4. CASE next # None /\ cur' = next /\ next' = NextSub(next) /\ stack' = stack
    BY <1>1, <1>2, <1>3, <1>4
<1>5. ASSUME NEW t \in DOMAIN stack, stack[t].next # None,
             cur' = stack[t].next, next' = NextSub(stack[t].next),
             stack' = SubSeq(stack, t+1, Len(stack))
      PROVE  /\ IsLink(cur') /\ cur'[1] \in Visited' /\ After(next')
             /\ NextSub(cur') # None => next' = NextSub(cur')
             /\ \A k \in DOMAIN stack' : After(stack'[k].next)
    <2>1. \A k \in DOMAIN stack' : After(stack'[k].next)
        BY <1>1, <1>2, <1>5, PoppedStack DEF WalkInv
    <2> QED BY <1>2, <1>3, <1>5, <2>1
<1> QED BY <1>4, <1>5 DEF Goes, Passes

\* What the cursor comes to beyond its own link, the next position comes to.
LEMMA CursorPassed ==
    ASSUME WalkInv, pc = "walk", NEW p \in Producers, NEW i \in 1..Len(subs[p]),
           <<p, i>> # cur, ComesTo(cur, p, i) \/ ComesTo(next, p, i)
    PROVE  ComesTo(next, p, i)
<1> SUFFICES ASSUME ComesTo(cur, p, i) PROVE ComesTo(next, p, i)
    OBVIOUS
<1>1. IsLink(cur) /\ (NextSub(cur) # None => next = NextSub(cur))
    BY DEF WalkInv, PositionsOK
<1>2. Len(subs[p]) \in Nat /\ i \in Nat
    BY ListsOK DEF WalkInv
<1>3. cur[1] = p /\ cur[2] <= i /\ cur = <<cur[1], cur[2]>> /\ cur[2] \in Nat
    BY <1>1 DEF ComesTo, IsLink
<1>4. cur[2] + 1 <= i
    BY <1>2, <1>3
<1>5. NextSub(cur) = <<p, cur[2]+1>> /\ next = NextSub(cur)
    BY <1>1, <1>2, <1>3, <1>4, LinkIsNotNone DEF NextSub
<1> QED BY <1>4, <1>5, LinkIsNotNone DEF ComesTo

\* What the positions come to stays covered after a pass, but for the link of
\* the cursor itself.
LEMMA PassKeepsCover ==
    ASSUME WalkInv, Passes, pc' = "walk",
           NEW p \in Producers, NEW i \in 1..Len(subs[p]), Covers(p, i), <<p, i>> # cur
    PROVE  Covers(p, i)'
<1>2. ComesTo(cur, p, i) => ComesTo(next, p, i)
    BY CursorPassed DEF Passes
<1>3. CASE next # None /\ cur' = next /\ next' = NextSub(next) /\ stack' = stack
    BY <1>2, <1>3 DEF Covers, ComesTo
<1>4. ASSUME NEW t \in DOMAIN stack, next = None, stack[t].next # None,
             \A k \in DOMAIN stack : k < t => stack[k].next = None,
             cur' = stack[t].next, stack' = SubSeq(stack, t+1, Len(stack))
      PROVE  Covers(p, i)'
    <2>1. PICK k \in DOMAIN stack : ComesTo(stack[k].next, p, i)
        BY <1>2, <1>4 DEF Covers, ComesTo
    <2>2. ~(k < t)
        BY <1>4, <2>1 DEF ComesTo
    <2>3. CASE k = t
        BY <1>4, <2>1, <2>3 DEF Covers, ComesTo
    <2>4. CASE k # t
        <3>0. t < k
            BY <2>2, <2>4 DEF WalkInv, TypeOK
        <3>1. PICK j \in DOMAIN stack' : stack'[j] = stack[k]
            BY <1>4, <3>0, PoppedStack DEF WalkInv
        <3> QED BY <2>1, <3>1 DEF Covers, ComesTo
    <2> QED BY <2>3, <2>4
<1> QED BY <1>3, <1>4 DEF Goes, Passes

\* A pass leaves every subscriber of a visited producer visited or covered,
\* and visited once the loop has ended.
LEMMA PassKeepsCovered ==
    ASSUME WalkInv, Passes
    PROVE  Covered' /\ Closed'
<1>1. subs' = subs /\ pc = "walk"
    BY DEF Passes
<1>2. ASSUME NEW p \in Visited' \cap Producers, NEW i \in 1..Len(subs[p]), subs[p][i] \notin Visited'
      PROVE  Covers(p, i) /\ <<p, i>> # cur
    <2>1. p \in Visited
        <3>1. CASE p = SubOf(cur)
            <4>1. subs[p] # <<>>
                BY <1>2, ListsOK DEF WalkInv
            <4> QED BY <3>1, <4>1 DEF Passes
        <3>2. CASE p # SubOf(cur)
            BY <3>2 DEF Passes
        <3> QED BY <3>1, <3>2
    <2>2. subs[p][i] \notin Visited /\ subs[p][i] # SubOf(cur)
        BY <1>2 DEF Passes
    <2>3. Covers(p, i)
        BY <1>1, <1>2, <2>1, <2>2 DEF WalkInv, Covered
    <2> QED BY <2>2, <2>3, LinkIsNotNone DEF SubOf
<1>3. Covered'
    BY <1>1, <1>2, PassKeepsCover DEF Covered
<1>4. Closed'
    <2> SUFFICES ASSUME pc' = "flush", NEW p \in Visited' \cap Producers, NEW n \in Members(subs[p]),
                        n \notin Visited'
                 PROVE  FALSE
        BY <1>1 DEF Closed, Members
    <2>1. PICK i \in 1..Len(subs[p]) : n = subs[p][i]
        BY ListsOK DEF WalkInv, Members
    <2>2. Covers(p, i) /\ <<p, i>> # cur
        BY <1>2, <2>1
    <2>3. next = None /\ \A k \in DOMAIN stack : stack[k].next = None
        BY <1>1 DEF Goes, Passes
    <2>4. ComesTo(cur, p, i)
        BY <2>2, <2>3 DEF Covers, ComesTo
    <2>5. /\ IsLink(cur) /\ (NextSub(cur) # None => next = NextSub(cur))
        BY <1>1 DEF WalkInv, PositionsOK
    <2>6. cur[1] = p /\ cur[2] <= i /\ cur = <<cur[1], cur[2]>> /\ cur[2] = Len(subs[p])
        BY <2>3, <2>4, <2>5, NextLink DEF ComesTo, WalkInv, IsLink
    <2>7. Len(subs[p]) \in Nat
        BY ListsOK DEF WalkInv
    <2>8. cur[2] = i
        BY <2>6, <2>7
    <2> QED BY <2>2, <2>6, <2>8
<1> QED BY <1>3, <1>4

\* A pass stays downstream and hands the verdict of the producer it resumes.
LEMMA PassKeepsRest ==
    ASSUME WalkInv, Passes
    PROVE  Confined' /\ Uncut'
<1>1. Downstream' = Downstream
    BY DEF Downstream, Passes
<1>2. Confined'
    BY <1>1, CursorNode DEF Confined, WalkInv, Passes
<1>3. Uncut'
    <2> SUFFICES ASSUME pc' = "walk", ~cutoff
                 PROVE  changed' = TRUE /\ \A k \in DOMAIN stack' : stack'[k].changed = TRUE
        BY DEF Uncut, Passes
    <2>1. changed = TRUE /\ \A k \in DOMAIN stack : stack[k].changed = TRUE
        BY DEF WalkInv, Uncut, Passes
    <2>2. ASSUME NEW t \in DOMAIN stack, stack' = SubSeq(stack, t+1, Len(stack)),
                 changed' = stack[t].changed
          PROVE  changed' = TRUE /\ \A k \in DOMAIN stack' : stack'[k].changed = TRUE
        <3>1. ASSUME NEW k \in DOMAIN stack' PROVE stack'[k].changed = TRUE
            <4>1. PICK j \in DOMAIN stack : stack'[k] = stack[j]
                BY <2>2, PoppedStack DEF WalkInv
            <4> QED BY <2>1, <4>1
        <3> QED BY <2>1, <2>2, <3>1
    <2> QED BY <2>1, <2>2 DEF Goes, Passes
<1> QED BY <1>2, <1>3
-----------------------------------------------------------------------------
(***************************************************************************)
(* Every step keeps the invariant.                                         *)
(***************************************************************************)
\* A watcher is alive when the walk comes to it; it is queued and given the
\* draft by the rules of its kind, and it was not given it before.
LEMMA WatcherStep ==
    ASSUME WalkInv, TypeOK', NEW w \in Watchers, visitWatcher(w)
    PROVE  WalkInv'
<1>1. /\ pc = "walk" /\ SubOf(cur) = w /\ stamp[w] # pokePass /\ stamp' = visitStamp(w)
      /\ UNCHANGED <<subs, differs, watched, pokePass, batched, cutoff, woken>>
    BY DEF visitWatcher, AtFresh, graph
<1>2. Visited' = Visited \cup {w}
    BY <1>1, Stamping DEF WalkInv, Nodes
<1>3. Passes
    <2>1. stack \in Seq(Frames)
        BY DEF WalkInv, TypeOK, Frames
    <2>2. Goes(next, stack, changed)
        BY <2>1, ResumeGoes DEF visitWatcher
    <2> QED BY <1>1, <1>2, <2>2, NodesAssumption DEF Passes
<1>4. w \in watched
    <2>1. w \in Members(subs[cur[1]]) /\ cur[1] \in Producers
        BY <1>1, ListsOK DEF WalkInv, PositionsOK, IsLink, SubOf
    <2> QED BY <2>1 DEF WalkInv, GraphOK
<1>5. GraphOK' /\ StampsOK'
    BY <1>1 DEF WalkInv, TypeOK, GraphOK, StampsOK, visitStamp
<1>6. wakes \in Seq(Watchers \ Probes) /\ wakes' = IF hears(w) /\ takesDraft(w) THEN Append(wakes, w) ELSE wakes
    BY DEF WalkInv, TypeOK, visitWatcher
<1>7. CASE hears(w) /\ takesDraft(w)
    <2>1. w \in Watchers \ Probes
        BY <1>7 DEF takesDraft
    <2>2. /\ Len(wakes) \in Nat /\ DOMAIN wakes = 1..Len(wakes)
          /\ DOMAIN wakes' = 1..(Len(wakes)+1)
          /\ \A i \in 1..Len(wakes) : wakes'[i] = wakes[i]
          /\ wakes'[Len(wakes)+1] = w
        <3> DEFINE t == Append(wakes, w)
        <3>1. /\ t \in Seq(Watchers \ Probes) /\ Len(t) = Len(wakes)+1
              /\ \A i \in 1..Len(wakes) : t[i] = wakes[i]
              /\ t[Len(wakes)+1] = w
            BY <1>6, <2>1, AppendProperties
        <3>2. wakes' = t
            BY <1>6, <1>7
        <3> HIDE DEF t
        <3> QED BY <1>6, <3>1, <3>2
    <2>3. \A i \in DOMAIN wakes : wakes[i] \in Nodes /\ stamp[wakes[i]] = pokePass /\ wakes[i] # w
        BY <1>1, <1>6 DEF WalkInv, WakesOK, Nodes
    <2>4. \A i \in DOMAIN wakes' : stamp'[wakes'[i]] = pokePass
        <3>1. w \in Nodes /\ \A n \in Nodes : stamp'[n] = IF n = w THEN pokePass ELSE stamp[n]
            BY <1>1 DEF WalkInv, TypeOK, visitStamp, Nodes
        <3> QED BY <2>2, <2>3, <3>1
    <2>5. WokenOnce'
        <3>1. \A i, j \in DOMAIN wakes : i # j => wakes[i] # wakes[j]
            BY DEF WalkInv, WakesOK, WokenOnce
        <3> QED BY <2>2, <2>3, <3>1 DEF WokenOnce
    <2>6. Members(wakes) \cup {w} \subseteq Members(wakes')
        BY <2>2 DEF Members
    <2>7. Told'
        BY <1>1, <1>2, <1>4, <1>7, <2>1, <2>6 DEF WalkInv, Told, visitWatcher, Members
    <2>8. WakesOK'
        BY <1>1, <2>4, <2>5 DEF WakesOK
    <2> QED BY <1>3, <1>5, <2>7, <2>8, PassKeepsPositions, PassKeepsCovered, PassKeepsRest DEF WalkInv
<1>8. CASE ~(hears(w) /\ takesDraft(w))
    <2>1. wakes' = wakes
        BY <1>6, <1>8
    <2>2. WakesOK'
        <3>1. \A i \in DOMAIN wakes : wakes[i] \in Nodes /\ wakes[i] # w
            BY <1>1, <1>6 DEF WalkInv, WakesOK, Nodes
        <3>2. \A i \in DOMAIN wakes : stamp'[wakes[i]] = pokePass
            BY <1>1, <3>1 DEF WalkInv, TypeOK, WakesOK, visitStamp
        <3> QED BY <1>1, <2>1, <3>2 DEF WalkInv, WakesOK, WokenOnce
    <2>3. hears(w) \/ (w \notin Probes /\ cutoff)
        BY <1>1 DEF WalkInv, Uncut, hears
    <2>4. ~hears(w) \/ w \in Probes
        BY <1>8 DEF takesDraft
    <2>5. Told'
        BY <1>1, <1>2, <1>4, <2>1, <2>3, <2>4 DEF WalkInv, Told, visitWatcher
    <2> QED BY <1>3, <1>5, <2>2, <2>5, PassKeepsPositions, PassKeepsCovered, PassKeepsRest DEF WalkInv
<1> QED BY <1>7, <1>8

\* A node that is passed over, or was visited before, tells nobody anything.
LEMMA QuietStep ==
    ASSUME WalkInv, TypeOK', Passes, SubOf(cur) \in Watchers => SubOf(cur) \in Visited,
           UNCHANGED <<watched, queued, wakes>>,
           stamp' \in {stamp, visitStamp(SubOf(cur))}
    PROVE  WalkInv'
<1>1. SubOf(cur) \in Nodes
    BY CursorNode DEF Passes
<1>2. GraphOK' /\ StampsOK'
    <2>1. \A n \in Nodes : stamp'[n] \in {stamp[n], pokePass}
        BY <1>1 DEF WalkInv, TypeOK, visitStamp
    <2>2. pokePass \in Nat
        BY PassesAssumption DEF WalkInv, TypeOK
    <2> QED BY <2>1, <2>2 DEF WalkInv, GraphOK, StampsOK, Passes
<1>3. WakesOK'
    <2>1. \A i \in DOMAIN wakes : wakes[i] \in Nodes /\ stamp[wakes[i]] = pokePass
        BY DEF WalkInv, TypeOK, WakesOK, Nodes
    <2>2. \A i \in DOMAIN wakes : stamp'[wakes[i]] = pokePass
        BY <1>1, <2>1 DEF WalkInv, TypeOK, visitStamp
    <2> QED BY <2>2 DEF WalkInv, WakesOK, WokenOnce, Passes
<1>4. Told'
    BY DEF WalkInv, Told, Passes
<1> QED BY <1>2, <1>3, <1>4, PassKeepsPositions, PassKeepsCovered, PassKeepsRest DEF WalkInv

\* A computed is entered with every position kept: the next link goes on the
\* stack where the computed's own list has a next one.
LEMMA ComputedStep ==
    ASSUME WalkInv, TypeOK', NEW c \in Producers, visitComputed(c)
    PROVE  WalkInv'
<1> DEFINE verdict == (cutoff => differs[c])
<1>1. /\ pc = "walk" /\ SubOf(cur) = c /\ stamp' = visitStamp(c) /\ subs[c] # <<>>
      /\ cur' = <<c, 1>> /\ next' = (IF Len(subs[c]) > 1 THEN <<c, 2>> ELSE next)
      /\ changed' = verdict /\ stack' = suspended(c, verdict)
      /\ UNCHANGED <<subs, differs, watched, pokePass, pc, batched, cutoff, queued, wakes, woken>>
    BY DEF visitComputed, AtFresh, graph
<1>2. Visited' = Visited \cup {c}
    BY <1>1, Stamping DEF WalkInv, Nodes
<1>3. Len(subs[c]) \in Nat \ {0} /\ c \in Nodes
    BY <1>1, ListsOK DEF WalkInv, Nodes
<1>4. cur'[1] = c /\ cur'[2] = 1 /\ cur' # None /\ IsLink(cur')
    BY <1>1, <1>3, LinkIsNotNone DEF IsLink
<1>5. GraphOK' /\ StampsOK'
    BY <1>1, <1>3 DEF WalkInv, TypeOK, GraphOK, StampsOK, visitStamp
<1>6. WakesOK'
    <2>1. \A i \in DOMAIN wakes : wakes[i] \in Nodes /\ stamp[wakes[i]] = pokePass
        BY DEF WalkInv, TypeOK, WakesOK, Nodes
    <2>2. \A i \in DOMAIN wakes : stamp'[wakes[i]] = pokePass
        BY <1>1, <1>3, <2>1 DEF WalkInv, TypeOK, visitStamp
    <2> QED BY <1>1, <2>2 DEF WalkInv, WakesOK, WokenOnce
<1>7. Told'
    BY <1>1, <1>2, NodesAssumption DEF WalkInv, Told
<1>8. Closed' /\ Confined'
    <2>1. Downstream' = Downstream
        BY <1>1 DEF Downstream
    <2>2. c \in Downstream
        BY <1>1, CursorNode
    <2> QED BY <1>1, <1>2, <2>1, <2>2 DEF WalkInv, Closed, Confined
<1>9. /\ Len(subs[c]) > 1 =>
            /\ 1 \in DOMAIN stack' /\ stack'[1] = [next |-> next, changed |-> verdict]
            /\ \A k \in DOMAIN stack : k+1 \in DOMAIN stack' /\ stack'[k+1] = stack[k]
            /\ \A k \in DOMAIN stack' : k = 1 \/ (k-1 \in DOMAIN stack /\ stack'[k] = stack[k-1])
      /\ ~(Len(subs[c]) > 1) => stack' = stack
    <2> DEFINE f == [next |-> next, changed |-> verdict]
               t == <<f>> \o stack
    <2>1. stack \in Seq(Frames) /\ f \in Frames
        BY DEF WalkInv, TypeOK, Frames
    <2> HIDE DEF f
    <2>2. /\ <<f>> \in Seq(Frames) /\ Len(<<f>>) = 1 /\ <<f>>[1] = f
        BY <2>1
    <2>3. /\ t \in Seq(Frames) /\ Len(t) = 1 + Len(stack)
          /\ \A i \in 1..(1 + Len(stack)) : t[i] = IF i <= 1 THEN <<f>>[i] ELSE stack[i-1]
        BY <2>1, <2>2, ConcatProperties
    <2> HIDE DEF t
    <2>4. Len(stack) \in Nat /\ DOMAIN stack = 1..Len(stack) /\ DOMAIN t = 1..(1 + Len(stack))
        BY <2>1, <2>3
    <2>5. /\ 1 \in DOMAIN t /\ t[1] = f
          /\ \A k \in DOMAIN stack : k+1 \in DOMAIN t /\ t[k+1] = stack[k]
          /\ \A k \in DOMAIN t : k = 1 \/ (k-1 \in DOMAIN stack /\ t[k] = stack[k-1])
        BY <2>2, <2>3, <2>4
    <2>6. stack' = IF Len(subs[c]) > 1 THEN t ELSE stack
        BY <1>1 DEF suspended, t, f
    <2> QED BY <2>5, <2>6 DEF f
<1>10. Uncut'
    <2> SUFFICES ASSUME ~cutoff
                 PROVE  changed' = TRUE /\ \A k \in DOMAIN stack' : stack'[k].changed = TRUE
        BY <1>1 DEF Uncut
    <2>1. verdict = TRUE
        OBVIOUS
    <2>2. \A k \in DOMAIN stack : stack[k].changed = TRUE
        BY <1>1 DEF WalkInv, Uncut
    <2> HIDE DEF verdict
    <2>3. changed' = TRUE
        BY <1>1, <2>1
    <2>4. CASE Len(subs[c]) > 1
        <3>1. ASSUME NEW k \in DOMAIN stack' PROVE stack'[k].changed = TRUE
            BY <1>9, <2>1, <2>2, <2>4
        <3> QED BY <2>3, <3>1
    <2>5. CASE ~(Len(subs[c]) > 1)
        BY <1>9, <2>2, <2>3, <2>5
    <2> QED BY <2>4, <2>5
<1>11. PositionsOK'
    <2> DEFINE After(l) == l = None \/ (IsLink(l) /\ l[1] \in Visited')
    <2>1. IsPosition(next) /\ \A k \in DOMAIN stack : IsPosition(stack[k].next)
        BY <1>1 DEF WalkInv, PositionsOK
    <2>2. \A l : IsPosition(l) => After(l)
        BY <1>2 DEF IsPosition
    <2>3. Len(subs[c]) > 1 => IsLink(<<c, 2>>) /\ NextSub(<<c, 1>>) = <<c, 2>>
        BY <1>3, LinkIsNotNone DEF IsLink, NextSub
    <2>4. ~(Len(subs[c]) > 1) => NextSub(<<c, 1>>) = None
        BY <1>3, LinkIsNotNone DEF NextSub
    <2>5. After(next')
        BY <1>1, <1>2, <2>1, <2>2, <2>3, LinkIsNotNone
    <2>6. NextSub(cur') # None => next' = NextSub(cur')
        BY <1>1, <2>3, <2>4
    <2>7. \A k \in DOMAIN stack' : After(stack'[k].next)
        <3> HIDE DEF After
        <3>1. CASE Len(subs[c]) > 1
            BY <1>9, <2>1, <2>2, <3>1
        <3>2. CASE ~(Len(subs[c]) > 1)
            BY <1>9, <2>1, <2>2, <3>2
        <3> QED BY <3>1, <3>2
    <2> QED BY <1>1, <1>2, <1>4, <2>5, <2>6, <2>7
            DEF PositionsOK, IsPosition, IsLink, NextSub, None
<1>12. Covered'
    <2> SUFFICES ASSUME NEW p \in Visited' \cap Producers, NEW i \in 1..Len(subs[p]),
                        subs[p][i] \notin Visited'
                 PROVE  Covers(p, i)'
        BY <1>1 DEF Covered
    <2>0. Len(subs[p]) \in Nat /\ i \in Nat \ {0}
        BY ListsOK DEF WalkInv
    <2>1. CASE p = c
        BY <1>4, <2>0, <2>1 DEF Covers, ComesTo
    <2>2. CASE p # c
        <3>1. Covers(p, i)
            BY <1>1, <1>2, <2>2 DEF WalkInv, Covered
        <3>2. <<p, i>> # cur
            BY <1>1, <1>2, LinkIsNotNone DEF SubOf
        <3>3. CASE ComesTo(cur, p, i) \/ ComesTo(next, p, i)
            <4>1. ComesTo(next, p, i)
                BY <1>1, <3>2, <3>3, CursorPassed
            <4>2. CASE Len(subs[c]) > 1
                BY <1>9, <4>1, <4>2 DEF Covers
            <4>3. CASE ~(Len(subs[c]) > 1)
                BY <1>1, <4>1, <4>3 DEF Covers
            <4> QED BY <4>2, <4>3
        <3>4. ASSUME NEW k \in DOMAIN stack, ComesTo(stack[k].next, p, i) PROVE Covers(p, i)'
            <4>1. CASE Len(subs[c]) > 1
                BY <1>9, <3>4, <4>1 DEF Covers
            <4>2. CASE ~(Len(subs[c]) > 1)
                BY <1>9, <3>4, <4>2 DEF Covers
            <4> QED BY <4>1, <4>2
        <3> QED BY <3>1, <3>3, <3>4 DEF Covers
    <2> QED BY <2>1, <2>2
<1> QED BY <1>5, <1>6, <1>7, <1>8, <1>10, <1>11, <1>12 DEF WalkInv

\* A flush unlinks what it disposes, so that only the living stay linked.
LEMMA FlushStep ==
    ASSUME WalkInv, TypeOK', flush
    PROVE  WalkInv'
<1>1. pc' = "wake" /\ UNCHANGED <<differs, pokePass, stamp, batched, cutoff, walk, wakes, woken>>
    BY DEF flush
<1>2. GraphOK'
    <2>1. CASE UNCHANGED <<subs, watched>>
        BY <2>1 DEF WalkInv, GraphOK
    <2>2. ASSUME NEW gone \in SUBSET watched, watched' = watched \ gone, subs' = Unlinked(gone)
          PROVE  GraphOK'
        <3>1. ASSUME NEW p \in Producers
              PROVE  /\ subs'[p] \in Seq(Nodes \ {Root})
                     /\ Members(subs'[p]) \subseteq Members(subs[p]) \ gone
            BY <2>2, OnlyKeeps DEF WalkInv, GraphOK, Unlinked
        <3> QED BY <2>2, <3>1 DEF WalkInv, GraphOK, Unlinked
    <2> QED BY <2>1, <2>2 DEF flush
<1>3. StampsOK' /\ WakesOK'
    BY <1>1 DEF WalkInv, StampsOK, WakesOK, WokenOnce
<1> QED BY <1>1, <1>2, <1>3
        DEF WalkInv, PositionsOK, Covered, Closed, Confined, Uncut, Told

\* A poke starts at the root with everybody unvisited.
LEMMA PokeStep ==
    ASSUME WalkInv, TypeOK', NEW useCutoff \in BOOLEAN, pokeDraftWatchers(useCutoff)
    PROVE  WalkInv'
<1>1. /\ pokePass' = pokePass + 1 /\ cutoff' = useCutoff
      /\ changed' = (useCutoff => differs[Root]) /\ stack' = <<>> /\ wakes' = <<>>
      /\ cur' = FirstSub(Root)
      /\ next' = (IF cur' = None THEN None ELSE NextSub(cur'))
      /\ pc' = (IF cur' = None THEN "flush" ELSE "walk")
      /\ UNCHANGED <<subs, watched, stamp>>
    BY DEF pokeDraftWatchers, graph
<1>2. pokePass \in Nat /\ \A n \in Nodes : stamp[n] \in Nat /\ stamp[n] <= pokePass
    BY PassesAssumption DEF WalkInv, TypeOK, StampsOK
<1>3. Visited' = {Root}
    BY <1>1, <1>2 DEF Visited
<1>4. Root \in Producers /\ Root \notin Watchers
    BY NodesAssumption
<1>5. GraphOK' /\ StampsOK'
    BY <1>1, <1>2 DEF WalkInv, GraphOK, StampsOK
<1>6. WakesOK' /\ Told' /\ Uncut'
    <2>1. WakesOK'
        BY <1>1 DEF WakesOK, WokenOnce
    <2>2. Told'
        BY <1>3, <1>4 DEF Told
    <2>3. ASSUME ~cutoff' PROVE changed' = TRUE
        <3>1. (useCutoff => differs[Root]) = TRUE
            BY <1>1, <2>3
        <3> DEFINE v == (useCutoff => differs[Root])
        <3>2. changed' = v /\ v = TRUE
            BY <1>1, <3>1
        <3> HIDE DEF v
        <3> QED BY <3>2
    <2>4. Uncut'
        <3>1. DOMAIN stack' = {}
            BY <1>1
        <3> QED BY <2>3, <3>1 DEF Uncut
    <2> QED BY <2>1, <2>2, <2>4
<1>7. Confined'
    <2>1. Downstream' = Downstream
        BY <1>1 DEF Downstream
    <2> QED BY <1>3, <2>1, DownstreamClosed DEF WalkInv, GraphOK, Confined
<1>8. CASE subs[Root] = <<>>
    <2>1. pc' = "flush"
        BY <1>1, <1>8 DEF FirstSub
    <2>2. Closed'
        BY <1>1, <1>3, <1>8 DEF Closed, Members
    <2> QED BY <1>5, <1>6, <1>7, <2>1, <2>2 DEF WalkInv, PositionsOK, Covered
<1>9. CASE subs[Root] # <<>>
    <2>1. cur' = <<Root, 1>>
        BY <1>1, <1>9 DEF FirstSub
    <2>2. cur' # None /\ cur'[1] = Root /\ cur'[2] = 1
        BY <2>1, LinkIsNotNone
    <2>3. Len(subs[Root]) \in Nat \ {0}
        BY <1>4, <1>9, ListsOK DEF WalkInv
    <2>4. IsLink(cur')
        BY <1>4, <2>1, <2>2, <2>3 DEF IsLink
    <2>5. pc' = "walk" /\ next' = NextSub(cur')
        BY <1>1, <2>2
    <2>6. next' = None \/ (IsLink(next') /\ next'[1] = Root)
        <3>1. NextSub(cur') = None \/ (IsLink(NextSub(cur')) /\ NextSub(cur') = <<cur'[1], cur'[2]+1>>)
            BY <2>4, NextLink DEF WalkInv
        <3> QED BY <2>2, <2>5, <3>1, LinkIsNotNone
    <2>7. PositionsOK'
        BY <1>1, <1>3, <2>2, <2>4, <2>5, <2>6 DEF PositionsOK, IsPosition, IsLink, NextSub, None
    <2>8. Covered'
        BY <1>1, <1>3, <2>2, <2>3 DEF Covered, Covers, ComesTo
    <2> QED BY <1>5, <1>6, <1>7, <2>5, <2>7, <2>8 DEF WalkInv, Closed
<1> QED BY <1>8, <1>9

\* The invariant holds before the first walk, ...
LEMMA WalkInit == Init => WalkInv
<1> SUFFICES ASSUME Init PROVE WalkInv
    OBVIOUS
<1>1. TypeOK
    BY TypeInit
<1>2. subs \in [Producers -> Seq(Nodes \ {Root})]
    BY ShapesAssumption DEF Init
<1>3. GraphOK
    BY <1>2 DEF Init, GraphOK
<1>4. StampsOK /\ WakesOK
    BY DEF Init, StampsOK, WakesOK, WokenOnce
<1> QED BY <1>1, <1>3, <1>4
        DEF Init, WalkInv, PositionsOK, Covered, Closed, Confined, Uncut, Told

\* ... every step of a walk keeps it, ...
LEMMA WalkStep == WalkInv /\ [Next]_vars => WalkInv'
<1> SUFFICES ASSUME WalkInv, [Next]_vars PROVE WalkInv'
    OBVIOUS
<1>0. TypeOK'
    BY TypeStep DEF WalkInv
<1>1. ASSUME NEW w \in Watchers, visitWatcher(w) PROVE WalkInv'
    BY <1>0, <1>1, WatcherStep
<1>2. ASSUME NEW c \in Producers, visitComputed(c) PROVE WalkInv'
    BY <1>0, <1>2, ComputedStep
<1>3. ASSUME NEW n \in Producers \cup Effects, passOver(n) PROVE WalkInv'
    <2>1. /\ pc = "walk" /\ SubOf(cur) = n /\ stamp' = visitStamp(n)
          /\ n \in Effects \/ subs[n] = <<>>
          /\ UNCHANGED <<subs, watched, pokePass, cutoff, queued, wakes>>
        BY <1>3 DEF passOver, AtFresh, graph
    <2>2. n \notin Watchers /\ (n \in Producers => subs[n] = <<>>)
        BY <2>1, NodesAssumption
    <2>3. Visited' = Visited \cup {n}
        BY <2>1, Stamping DEF WalkInv, Nodes
    <2>4. Goes(next, stack, changed)
        <3>1. stack \in Seq(Frames)
            BY DEF WalkInv, TypeOK, Frames
        <3> QED BY <1>3, <3>1, ResumeGoes DEF passOver
    <2>5. Passes
        BY <2>1, <2>2, <2>3, <2>4 DEF Passes
    <2> QED BY <1>0, <2>1, <2>2, <2>5, QuietStep
<1>4. CASE skipVisited
    <2>1. /\ pc = "walk" /\ stamp[SubOf(cur)] = pokePass
          /\ UNCHANGED <<subs, watched, stamp, pokePass, cutoff, queued, wakes>>
        BY <1>4 DEF skipVisited, graph
    <2>2. SubOf(cur) \in Visited
        BY <2>1, CursorNode DEF Visited
    <2>3. Visited' = Visited
        BY <2>1 DEF Visited
    <2>4. Goes(next, stack, changed)
        <3>1. stack \in Seq(Frames)
            BY DEF WalkInv, TypeOK, Frames
        <3> QED BY <1>4, <3>1, ResumeGoes DEF skipVisited
    <2>5. Passes
        BY <2>1, <2>2, <2>3, <2>4 DEF Passes
    <2> QED BY <1>0, <2>1, <2>2, <2>5, QuietStep
<1>5. CASE flush
    BY <1>0, <1>5, FlushStep
<1>6. CASE deliverWakes
    <2>1. pc' = "idle" /\ UNCHANGED <<subs, watched, pokePass, stamp, wakes>>
        BY <1>6 DEF deliverWakes, graph
    <2> QED BY <1>0, <2>1 DEF WalkInv, GraphOK, StampsOK, PositionsOK, Covered, Closed, Confined,
                              Uncut, Told, WakesOK, WokenOnce
<1>7. ASSUME NEW useCutoff \in BOOLEAN, pokeDraftWatchers(useCutoff) PROVE WalkInv'
    BY <1>0, <1>7, PokeStep
<1>8. CASE UNCHANGED vars
    <2> USE <1>8 DEF vars, walk
    <2>1. Downstream' = Downstream /\ Visited' = Visited
        BY DEF Downstream, Visited
    <2>2. PositionsOK' /\ Covered' /\ Closed'
        BY <2>1 DEF WalkInv, PositionsOK, Covered, Closed, IsPosition, IsLink, NextSub, Covers, ComesTo
    <2>3. Confined' /\ Uncut' /\ Told'
        BY <2>1 DEF WalkInv, Confined, Uncut, Told
    <2>4. GraphOK' /\ StampsOK' /\ WakesOK'
        BY DEF WalkInv, GraphOK, StampsOK, WakesOK, WokenOnce
    <2> QED BY <1>0, <2>2, <2>3, <2>4 DEF WalkInv
<1> QED BY <1>1, <1>2, <1>3, <1>4, <1>5, <1>6, <1>7, <1>8 DEF Next, Loop

\* ... and so it holds in every reachable state.
LEMMA WalkInvariant == Spec => []WalkInv
<1> QED BY WalkInit, WalkStep, PTL DEF Spec
-----------------------------------------------------------------------------
(***************************************************************************)
(* The theorems.                                                           *)
(***************************************************************************)
\* When the loop has ended it has visited what is downstream, and that only.
LEMMA VisitedIsDownstream ==
    ASSUME WalkInv, pc = "flush"
    PROVE  Visited = Downstream
<1>1. \A p \in Visited \cap Producers : Members(subs[p]) \subseteq Visited
    BY DEF WalkInv, Closed
<1>2. Root \in Visited
    BY DEF Visited
<1>3. Downstream \subseteq Visited
    BY <1>1, <1>2, DownstreamLeast DEF WalkInv, GraphOK
<1> QED BY <1>3 DEF WalkInv, Confined

\* However many paths lead to a watcher, one poke hands it the draft once.
THEOREM NobodyWokenTwice == Spec => []WokenOnce
<1>1. WalkInv => WokenOnce
    BY DEF WalkInv, WakesOK
<1> QED BY <1>1, WalkInvariant, PTL

\* A pendingness probe downstream of the poked atom is always notified,
\* whatever the cutoff says of the producers on the way.
THEOREM ProbesAreTold == Spec => []ProbesHearAll
<1>1. WalkInv => ProbesHearAll
    <2> SUFFICES ASSUME WalkInv, pc = "flush" PROVE Downstream \cap Probes \subseteq queued
        BY DEF ProbesHearAll
    <2> QED BY VisitedIsDownstream, NodesAssumption DEF WalkInv, Told
<1> QED BY <1>1, WalkInvariant, PTL

\* A poke without a cutoff notifies every watcher downstream, and the draft
\* goes to exactly those of them that take drafts.
THEOREM PokesMissNobody == Spec => []MissesNobody
<1>1. WalkInv => MissesNobody
    <2> SUFFICES ASSUME WalkInv, pc = "flush", ~cutoff
                 PROVE  /\ Downstream \cap Watchers \subseteq queued
                        /\ (Downstream \cap Watchers) \ Probes = Members(wakes)
        BY DEF MissesNobody
    <2>1. Visited = Downstream
        BY VisitedIsDownstream
    <2>2. Members(wakes) \subseteq (Visited \cap Watchers) \ Probes
        BY DEF WalkInv, TypeOK, WakesOK, Members, Visited, Nodes
    <2> QED BY <2>1, <2>2 DEF WalkInv, Told
<1> QED BY <1>1, WalkInvariant, PTL
=============================================================================
