-------------------------- MODULE SignalGraphProofs --------------------------
(***************************************************************************)
(* Theorems about SignalGraph, for every program whose bodies are well     *)
(* typed, any number of nodes, thenables and suspensions: the books of the *)
(* graph are well formed, what is parked is awaited, a span keeps its      *)
(* suspension, what is fresh rests on what is fresh, the edges never close *)
(* a circle, and nothing stale is under a clean watched node.              *)
(***************************************************************************)
EXTENDS SignalGraph, DataLemmas, FiniteSetTheorems

\* What the theorems ask of a program: its bodies read producers, unwrap
\* thenables, return values or throw.
WellTyped(i) ==
    \/ i.op = "read" /\ i.of \in Producers
    \/ i.op = "use" /\ i.of \in Thenables
    \/ i.op = "done" /\ i.of \in Values
    \/ i.op = "throw"
BodiesAreWellTyped ==
    \A s \in Shapes : \A n \in Evaluated : \A seen \in Seq(Values) : WellTyped(Body(s, n, seen))
-----------------------------------------------------------------------------
(***************************************************************************)
(* The inductive invariant of the types.                                   *)
(***************************************************************************)
Marks == {"clean", "check", "dirty"}
Lifes == {"new", "alive", "disposed"}
Frames == [node : Evaluated, mode : {"run", "check"}, pos : Nat, seen : Seq(Values)]
Statuses == {"unseen", "pending", "fulfilled", "rejected"}
Graphs == [Evaluated -> Seq(Producers)]

Alive(lf) == {e \in Effects : lf[e] = "alive"}

\* A list of reads goes no further than the dependencies it extends, a
\* validation is of a node that has a value.
FrameOK(f, ds, ch) ==
    /\ f.mode = "run" => f.pos <= Len(ds[f.node])
    /\ f.mode = "check" => ch[f.node] # None

\* No two frames evaluate the same node.
RunsApart(st) ==
    \A i, j \in DOMAIN st :
        st[i].mode = "run" /\ st[j].mode = "run" /\ i # j => st[i].node # st[j].node

StackOK(st, ds, ch) ==
    st \in Seq(Frames) /\ (\A i \in DOMAIN st : FrameOK(st[i], ds, ch)) /\ RunsApart(st)

\* A node is settled, failed, or waits for a suspension.
AsyncOK(as) ==
    /\ as = [n \in Evaluated |-> as[n]]
    /\ \A n \in Evaluated :
          \/ as[n] = Plain
          \/ as[n].kind = "error"
          \/ \E s \in Suspensions : as[n] = Suspended(s)

\* A clean settled computed has a value to serve.
Serving(mk, as, ch) ==
    \A n \in Computeds : mk[n] = "clean" /\ as[n] = Plain => ch[n] # None

\* Who has the Watched and Scheduled flags is alive, or watches something.
FlagsOK(wd, sch, lf, tg) ==
    /\ wd \cap Effects \subseteq Alive(lf)
    /\ sch \subseteq Alive(lf) \cup {w \in Watchers : tg[w] # None}

\* The boxes of promises: what a fulfilled thenable gives is a value.
BoxesOK ==
    /\ status \in [Promises -> Statuses]
    /\ result \in [Thenables -> Values \cup {None}]
    /\ \A t \in Thenables : status[t] = "fulfilled" => result[t] \in Values
    /\ parkedNodes \in [Promises -> SUBSET Evaluated]
    /\ parkedSuspensions \in [Promises -> SUBSET Suspensions]
    /\ resolved \subseteq Suspensions

\* A settlement has a reading of the clock for each node it still has to handle.
SettlingOK ==
    /\ settling \in [nodes : SUBSET Evaluated, suspensions : SUBSET Suspensions, on : BOOLEAN]
    /\ clock + Cardinality(settling.nodes) <= MaxClock(shape)

ClocksOK ==
    /\ shape \in Shapes /\ clock \in Nat \ {0}
    /\ val \in [Atoms -> Values]
    /\ changedAt \in [Producers -> 0..clock] /\ validAt \in [Evaluated -> 0..clock]

NodesOK ==
    /\ mark \in [Evaluated -> Marks] /\ cache \in [Evaluated -> Values \cup {None}]
    /\ AsyncOK(async) /\ deps \in Graphs
    /\ Serving(mark, async, cache)

OwnersOK ==
    /\ life \in [Effects -> Lifes] /\ target \in [Watchers -> Producers \cup {None}]
    /\ FlagsOK(watched, scheduled, life, target)

GraphInv ==
    /\ ClocksOK /\ NodesOK /\ OwnersOK /\ BoxesOK /\ SettlingOK
    /\ StackOK(stack, deps, cache)

\* The invariant contains the types.
LEMMA GraphTypes == GraphInv => TypeOK
<1> SUFFICES ASSUME GraphInv PROVE TypeOK
    OBVIOUS
<1>1. Cardinality(settling.nodes) \in Nat /\ MaxClock(shape) \in Nat
    <2>1. IsFiniteSet(settling.nodes)
        BY KindsAssumption, FS_Subset DEF GraphInv, SettlingOK
    <2> QED BY <2>1, FS_CardinalityType, BoundAssumption DEF GraphInv, ClocksOK
<1>2. clock \in 1..MaxClock(shape)
    BY <1>1 DEF GraphInv, ClocksOK, SettlingOK
<1>3. \A n \in Evaluated : Members(deps[n]) \subseteq Producers
    BY DEF GraphInv, NodesOK, Graphs, Members
<1>4. scheduled \subseteq {e \in Effects : life[e] = "alive"} \cup {w \in Watchers : target[w] # None}
    BY DEF GraphInv, OwnersOK, FlagsOK, Alive
<1> QED BY <1>2, <1>3, <1>4
        DEF TypeOK, GraphInv, ClocksOK, NodesOK, OwnersOK, BoxesOK, Marks, Lifes, Statuses

\* It holds at first.
LEMMA GraphInit == Init => GraphInv
<1> SUFFICES ASSUME Init PROVE GraphInv
    OBVIOUS
<1>1. SettlingOK
    <2>1. Cardinality({}) = 0
        BY FS_EmptySet
    <2> QED BY <2>1, BoundAssumption DEF Init, SettlingOK, Nothing
<1>2. ClocksOK
    BY ValuesAssumption DEF Init, ClocksOK
<1>3. OwnersOK
    BY DEF Init, OwnersOK, FlagsOK, Alive, Lifes
<1>4. BoxesOK
    BY DEF Init, BoxesOK, Statuses, Promises
<1>5. NodesOK
    BY KindsAssumption DEF Init, NodesOK, AsyncOK, Graphs, Serving, Marks, Evaluated
<1>6. StackOK(stack, deps, cache)
    BY DEF Init, StackOK, RunsApart
<1> QED BY <1>1, <1>2, <1>3, <1>4, <1>5, <1>6 DEF GraphInv
-----------------------------------------------------------------------------
(***************************************************************************)
(* The recursions over the edges: what each one closes, and the types of   *)
(* what it yields.                                                         *)
(***************************************************************************)
\* The computeds are finitely many.
LEMMA SizeIsNatural == Cardinality(Computeds) \in Nat
<1>1. IsFiniteSet(Computeds)
    BY KindsAssumption, FS_Subset DEF Evaluated
<1> QED BY <1>1, FS_CardinalityType

\* A chain of subsets of a finite set that stays put once it repeats has
\* stopped after as many steps as the set has elements.
LEMMA ChainStops ==
    ASSUME NEW T, IsFiniteSet(T), NEW N, N = Cardinality(T), NEW S,
           \A k \in 0..N+1 : S[k] \subseteq T,
           \A k \in 1..N+1 : S[k-1] \subseteq S[k],
           \A k \in 1..N : S[k] = S[k-1] => S[k+1] = S[k]
    PROVE  S[N+1] = S[N]
<1>1. N \in Nat
    BY FS_CardinalityType
<1> SUFFICES ASSUME S[N+1] # S[N] PROVE FALSE
    OBVIOUS
<1>2. \A k \in 1..N+1 : S[k] # S[k-1]
    <2> DEFINE P == {k \in 0..N : S[N+1-k] # S[N-k]}
    <2>1. 0 \in P
        <3>1. N+1-0 = N+1 /\ N-0 = N /\ 0 \in 0..N
            BY <1>1
        <3> QED BY <3>1
    <2>2. ASSUME NEW k \in 1..N, k-1 \in P PROVE k \in P
        <3>1. N+1-(k-1) = (N+1-k)+1 /\ N-(k-1) = N+1-k /\ N-k = (N+1-k)-1 /\ N+1-k \in 1..N /\ k \in 0..N
            BY <1>1
        <3>2. S[(N+1-k)+1] # S[N+1-k]
            BY <2>2, <3>1
        <3>3. S[N+1-k] # S[(N+1-k)-1]
            BY <3>1, <3>2
        <3> QED BY <3>1, <3>3
    <2>3. 0..N \subseteq P
        <3> HIDE DEF P
        <3> QED BY <1>1, <2>1, <2>2, InductionTo
    <2>4. ASSUME NEW k \in 1..N+1 PROVE S[k] # S[k-1]
        <3>1. N+1-k \in 0..N /\ N+1-(N+1-k) = k /\ N-(N+1-k) = k-1
            BY <1>1
        <3>2. N+1-k \in P
            BY <2>3, <3>1
        <3> QED BY <3>1, <3>2
    <2> QED BY <2>4
<1>3. ASSUME NEW k \in 0..N+1 PROVE IsFiniteSet(S[k]) /\ Cardinality(S[k]) \in Nat
    BY FS_Subset, FS_CardinalityType
<1>4. ASSUME NEW k \in 1..N+1 PROVE Cardinality(S[k-1]) < Cardinality(S[k])
    <2>1. k \in 0..N+1 /\ k-1 \in 0..N+1
        BY <1>1
    <2>2. IsFiniteSet(S[k]) /\ S[k-1] \subseteq S[k] /\ S[k-1] # S[k]
        BY <1>2, <1>3, <2>1
    <2>3. Cardinality(S[k-1]) <= Cardinality(S[k]) /\ Cardinality(S[k-1]) # Cardinality(S[k])
        BY <2>2, FS_Subset
    <2> QED BY <1>3, <2>1, <2>3
<1>5. N+1 \in Nat
    BY <1>1
<1> DEFINE Q == {k \in 0..N+1 : k <= Cardinality(S[k])}
<1>6. 0 \in Q
    <2>1. 0 \in 0..N+1
        BY <1>1
    <2>2. Cardinality(S[0]) \in Nat
        BY <1>3, <2>1
    <2> QED BY <2>1, <2>2
<1>7. ASSUME NEW k \in 1..N+1, k-1 \in Q PROVE k \in Q
    <2>1. k \in 0..N+1 /\ k-1 \in 0..N+1 /\ k \in Nat
        BY <1>1
    <2>2. Cardinality(S[k]) \in Nat /\ Cardinality(S[k-1]) \in Nat
        BY <1>3, <2>1
    <2>3. k-1 <= Cardinality(S[k-1])
        BY <1>7
    <2>4. k <= Cardinality(S[k])
        BY <1>4, <2>1, <2>2, <2>3
    <2> QED BY <2>1, <2>4
<1>8. 0..N+1 \subseteq Q
    <2> HIDE DEF Q
    <2> QED BY <1>5, <1>6, <1>7, InductionTo
<1>9. N+1 \in 0..N+1
    BY <1>1
<1>10. N+1 <= Cardinality(S[N+1])
    BY <1>8, <1>9
<1>11. Cardinality(S[N+1]) <= N
    BY <1>9, FS_Subset
<1>12. Cardinality(S[N+1]) \in Nat
    BY <1>3, <1>9
<1> QED BY <1>1, <1>10, <1>11, <1>12

\* Who watches on his own account, and what is watched one edge further.
Roots(lf, tg) == Alive(lf) \cup ({tg[w] : w \in Watchers} \ {None})
Onward(ds, X) == X \cup UNION {Members(ds[n]) : n \in X \cap Evaluated}

\* The watched nodes are found edge by edge.
LEMMA ReachedSteps ==
    ASSUME NEW ds \in Graphs, NEW lf, NEW tg \in [Watchers -> Producers \cup {None}],
           NEW N, N = Cardinality(Computeds) + 1
    PROVE  \E R : /\ R[0] = Roots(lf, tg) /\ \A k \in 1..N : R[k] = Onward(ds, R[k-1])
                  /\ Reached(ds, lf, tg) = R[N]
<1> DEFINE V == SUBSET (Alive(lf) \cup Producers)
           b == Alive(lf) \cup ({tg[w] : w \in Watchers} \ {None})
           Next1(X) == X \cup UNION {Members(ds[n]) : n \in X \cap Evaluated}
           Step == [k \in 1..N |-> [X \in V |-> Next1(X)]]
           F(g) == [k \in 0..N |-> IF k = 0 THEN b ELSE Next1(g[k-1])]
           R == CHOOSE g : g = F(g)
<1>1. N \in Nat
    BY SizeIsNatural
<1>2. b \in V
    OBVIOUS
<1>3. ASSUME NEW X \in V PROVE Next1(X) \in V
    <2>1. \A n \in Evaluated : Members(ds[n]) \subseteq Producers
        BY DEF Graphs, Members
    <2> QED BY <2>1
<1>4. Step \in [1..N -> [V -> V]]
    <2> HIDE DEF Next1, V
    <2> QED BY <1>3
<1>5. PICK g \in [0..N -> V] : g[0] = b /\ \A k \in 1..N : g[k] = Step[k][g[k-1]]
    <2> HIDE DEF V, Next1, Step, F, R, b
    <2>1. \E g \in [0..N -> V] : Solves(N, b, Step, g)
        BY <1>1, <1>2, <1>4, RecursionExists
    <2> QED BY <2>1 DEF Solves
<1>6. ASSUME NEW k \in 1..N PROVE g[k] = Next1(g[k-1])
    <2> HIDE DEF Next1, V
    <2>1. k-1 \in 0..N /\ g[k-1] \in V
        <3>1. k-1 \in 0..N
            BY <1>1
        <3> QED BY <3>1
    <2> QED BY <1>5, <2>1
<1>7. g = F(g)
    <2> HIDE DEF Next1, V, b
    <2>1. ASSUME NEW k \in 0..N PROVE g[k] = F(g)[k]
        <3>1. CASE k = 0
            BY <3>1, <1>5
        <3>2. CASE k # 0
            BY <1>1, <1>6, <3>2
        <3> QED BY <3>1, <3>2
    <2> QED BY <2>1, <1>5
<1>8. R = F(R)
    <2> HIDE DEF F
    <2> QED BY <1>7
<1>9. R[0] = b /\ \A k \in 1..N : R[k] = Next1(R[k-1])
    <2> HIDE DEF R, Next1, b
    <2>1. \A k \in 0..N : R[k] = F(R)[k]
        <3> HIDE DEF F
        <3> QED BY <1>8
    <2> QED BY <1>1, <2>1
<1>10. Reached(ds, lf, tg) = R[N]
    BY DEF Reached, Alive
<1>11. R[0] = Roots(lf, tg) /\ \A k \in 1..N : R[k] = Onward(ds, R[k-1])
    <2> HIDE DEF R
    <2> QED BY <1>9 DEF Roots, Onward
<1> QED
    <2> HIDE DEF R
    <2> QED BY <1>10, <1>11

\* They are the least set with the roots that is closed under the edges.
LEMMA ReachedLeast ==
    ASSUME NEW ds \in Graphs, NEW lf, NEW tg \in [Watchers -> Producers \cup {None}],
           NEW U, Roots(lf, tg) \subseteq U, \A n \in U \cap Evaluated : Members(ds[n]) \subseteq U
    PROVE  Reached(ds, lf, tg) \subseteq U
<1>n. PICK N : N = Cardinality(Computeds) + 1
    OBVIOUS
<1>1. N \in Nat
    BY <1>n, SizeIsNatural
<1>2. PICK R : /\ R[0] = Roots(lf, tg) /\ \A k \in 1..N : R[k] = Onward(ds, R[k-1])
               /\ Reached(ds, lf, tg) = R[N]
    BY <1>n, ReachedSteps
<1> DEFINE P == {k \in 0..N : R[k] \subseteq U}
<1>3. 0 \in P
    BY <1>1, <1>2
<1>4. ASSUME NEW k \in 1..N, k-1 \in P PROVE k \in P
    <2>1. R[k] = R[k-1] \cup UNION {Members(ds[n]) : n \in R[k-1] \cap Evaluated} /\ R[k-1] \subseteq U
        BY <1>2, <1>4 DEF Onward
    <2>2. R[k] \subseteq U
        BY <2>1
    <2> QED BY <1>1, <2>2
<1>5. 0..N \subseteq P
    <2> HIDE DEF P
    <2> QED BY <1>1, <1>3, <1>4, InductionTo
<1> QED BY <1>1, <1>2, <1>5

\* They hold the roots, and what anything among them reads.
LEMMA ReachedCloses ==
    ASSUME NEW ds \in Graphs, NEW lf, NEW tg \in [Watchers -> Producers \cup {None}],
           NEW W, W = Reached(ds, lf, tg)
    PROVE  Roots(lf, tg) \subseteq W /\ \A n \in W \cap Evaluated : Members(ds[n]) \subseteq W
<1>n. PICK M : M = Cardinality(Computeds)
    OBVIOUS
<1>m. PICK N : N = M + 1
    OBVIOUS
<1>1. M \in Nat /\ N \in Nat
    BY <1>n, <1>m, SizeIsNatural
<1>2. PICK R : /\ R[0] = Roots(lf, tg) /\ \A k \in 1..N : R[k] = Onward(ds, R[k-1])
               /\ Reached(ds, lf, tg) = R[N]
    BY <1>n, <1>m, ReachedSteps
<1>3. ASSUME NEW k \in 1..N
      PROVE  R[k-1] \subseteq R[k] /\ \A n \in R[k-1] \cap Evaluated : Members(ds[n]) \subseteq R[k]
    BY <1>2 DEF Onward
<1>4. ASSUME NEW k \in 1..N PROVE R[k] \cap Effects = R[k-1] \cap Effects
    <2>1. \A n \in Evaluated : Members(ds[n]) \subseteq Producers
        BY DEF Graphs, Members
    <2>2. Producers \cap Effects = {}
        BY KindsAssumption DEF Producers, Evaluated, Sinks
    <2> QED BY <1>2, <2>1, <2>2 DEF Onward
<1>5. ASSUME NEW k \in 1..N, R[k] \cap Computeds = R[k-1] \cap Computeds, NEW n \in R[k] \cap Evaluated
      PROVE  Members(ds[n]) \subseteq R[k]
    BY <1>3, <1>4, <1>5 DEF Evaluated
<1> DEFINE S == [k \in 0..N |-> R[k] \cap Computeds]
<1>6. ASSUME NEW k \in 1..M, S[k] = S[k-1] PROVE S[k+1] = S[k]
    <2>1. k \in 1..N /\ k-1 \in 0..N /\ k+1 \in 1..N /\ k \in 0..N /\ k+1 \in 0..N /\ (k+1)-1 = k
        BY <1>1, <1>m
    <2>2. R[k] \cap Computeds = R[k-1] \cap Computeds
        BY <1>6, <2>1
    <2>3. \A n \in R[k] \cap Evaluated : Members(ds[n]) \subseteq R[k]
        BY <1>5, <2>1, <2>2
    <2>4. R[k+1] = Onward(ds, R[k])
        BY <1>2, <2>1
    <2>5. R[k+1] = R[k]
        BY <2>3, <2>4 DEF Onward
    <2> QED BY <2>1, <2>5
<1>7. S[M+1] = S[M]
    <2>1. IsFiniteSet(Computeds)
        BY KindsAssumption, FS_Subset DEF Evaluated
    <2>2. \A k \in 0..M+1 : S[k] \subseteq Computeds
        BY <1>m
    <2>3. ASSUME NEW k \in 1..M+1 PROVE S[k-1] \subseteq S[k]
        <3>1. k \in 1..N /\ k-1 \in 0..N /\ k \in 0..N
            BY <1>1, <1>m
        <3> QED BY <1>3, <3>1
    <2> HIDE DEF S
    <2> QED BY <1>n, <1>6, <2>1, <2>2, <2>3, ChainStops
<1>8. N \in 1..N /\ R[N] \cap Computeds = R[N-1] \cap Computeds
    <2>1. N-1 = M /\ N \in 0..N /\ M \in 0..N /\ N \in 1..N
        BY <1>1, <1>m
    <2>2. S[N] = S[M]
        BY <1>7, <1>m
    <2> QED BY <2>1, <2>2
<1>9. \A n \in R[N] \cap Evaluated : Members(ds[n]) \subseteq R[N]
    BY <1>5, <1>8
<1>10. Roots(lf, tg) \subseteq R[N]
    <2> DEFINE P == {k \in 0..N : R[0] \subseteq R[k]}
    <2>1. 0 \in P
        BY <1>1
    <2>2. ASSUME NEW k \in 1..N, k-1 \in P PROVE k \in P
        BY <1>1, <1>3, <2>2
    <2>3. 0..N \subseteq P
        <3> HIDE DEF P
        <3> QED BY <1>1, <2>1, <2>2, InductionTo
    <2> QED BY <1>1, <1>2, <2>3
<1> QED BY <1>2, <1>9, <1>10

\* The computeds a relinking makes watched.
Gained == (watched' \ watched) \cap Computeds

\* One round of promotion: m are the marks after the round before.
Seeds(ds, mk, m) ==
    [n \in Evaluated |->
        IF /\ n \in Gained \ Computing
           /\ mk[n] = "clean"
           /\ \E d \in Members(ds[n]) :
                \/ changedAt[d] > validAt[n]
                \/ d \in Computeds /\ m[d] # "clean"
        THEN "check" ELSE mk[n]]

\* Promotion goes round by round.
LEMMA PromotedSteps ==
    ASSUME NEW ds, NEW mk \in [Evaluated -> Marks], NEW N, N = Cardinality(Computeds)
    PROVE  \E R : /\ R[0] = mk /\ \A k \in 1..N : R[k] = Seeds(ds, mk, R[k-1])
                  /\ Promoted(ds, mk) = R[N]
<1> DEFINE new == (watched' \ watched) \cap Computeds
           V == [Evaluated -> Marks]
           Next1(m) == [n \in Evaluated |->
                    IF /\ n \in new \ Computing
                       /\ mk[n] = "clean"
                       /\ \E d \in Members(ds[n]) :
                            \/ changedAt[d] > validAt[n]
                            \/ d \in Computeds /\ m[d] /= "clean"
                    THEN "check" ELSE mk[n]]
           Step == [k \in 1..N |-> [m \in V |-> Next1(m)]]
           F(g) == [k \in 0..N |-> IF k = 0 THEN mk ELSE Next1(g[k-1])]
           R == CHOOSE g : g = F(g)
<1>1. N \in Nat
    BY SizeIsNatural
<1>2. mk \in V
    OBVIOUS
<1>3. ASSUME NEW m \in V PROVE Next1(m) \in V
    BY DEF Marks
<1>4. Step \in [1..N -> [V -> V]]
    <2> HIDE DEF Next1, V
    <2> QED BY <1>3
<1>5. PICK g \in [0..N -> V] : g[0] = mk /\ \A k \in 1..N : g[k] = Step[k][g[k-1]]
    <2> HIDE DEF V, Next1, Step, F, R
    <2>1. \E g \in [0..N -> V] : Solves(N, mk, Step, g)
        BY <1>1, <1>2, <1>4, RecursionExists
    <2> QED BY <2>1 DEF Solves
<1>6. ASSUME NEW k \in 1..N PROVE g[k] = Next1(g[k-1])
    <2> HIDE DEF Next1, V
    <2>1. k-1 \in 0..N /\ g[k-1] \in V
        <3>1. k-1 \in 0..N
            BY <1>1
        <3> QED BY <3>1
    <2> QED BY <1>5, <2>1
<1>7. g = F(g)
    <2> HIDE DEF Next1, V
    <2>1. ASSUME NEW k \in 0..N PROVE g[k] = F(g)[k]
        <3>1. CASE k = 0
            BY <3>1, <1>5
        <3>2. CASE k # 0
            BY <1>1, <1>6, <3>2
        <3> QED BY <3>1, <3>2
    <2> QED BY <2>1, <1>5
<1>8. R = F(R)
    <2> HIDE DEF F
    <2> QED BY <1>7
<1>9. R[0] = mk /\ \A k \in 1..N : R[k] = Next1(R[k-1])
    <2> HIDE DEF R, Next1
    <2>1. \A k \in 0..N : R[k] = F(R)[k]
        <3> HIDE DEF F
        <3> QED BY <1>8
    <2> QED BY <1>1, <2>1
<1>10. Promoted(ds, mk) = R[N]
    BY DEF Promoted
<1>11. R[0] = mk /\ \A k \in 1..N : R[k] = Seeds(ds, mk, R[k-1])
    <2> HIDE DEF R
    <2> QED BY <1>9 DEF Seeds, Gained
<1> QED
    <2> HIDE DEF R
    <2> QED BY <1>10, <1>11

\* Promotion changes the marks of clean computeds that become watched and are
\* not being evaluated, to "check".
LEMMA PromotedOnly ==
    ASSUME NEW ds, NEW mk \in [Evaluated -> Marks], NEW n \in Evaluated
    PROVE  /\ Promoted(ds, mk)[n] \in {mk[n], "check"}
           /\ Promoted(ds, mk)[n] # mk[n] => n \in Gained \ Computing /\ mk[n] = "clean"
<1>n. PICK N : N = Cardinality(Computeds)
    OBVIOUS
<1>1. N \in Nat
    BY <1>n, SizeIsNatural
<1>2. PICK R : /\ R[0] = mk /\ \A k \in 1..N : R[k] = Seeds(ds, mk, R[k-1])
               /\ Promoted(ds, mk) = R[N]
    BY <1>n, PromotedSteps
<1>3. CASE N = 0
    BY <1>2, <1>3
<1>4. CASE N # 0
    <2>1. N \in 1..N
        BY <1>1, <1>4
    <2>2. Promoted(ds, mk) = Seeds(ds, mk, R[N-1])
        BY <1>2, <2>1
    <2> QED BY <2>2 DEF Seeds
<1> QED BY <1>3, <1>4

\* Nodes whose dependencies have not moved, and are among them, stay clean.
LEMMA PromotedSpares ==
    ASSUME NEW ds, NEW mk \in [Evaluated -> Marks],
           NEW Q \in SUBSET Computeds, \A n \in Q : mk[n] = "clean",
           \A n \in Q \cap Gained : \A d \in Members(ds[n]) :
               ~(changedAt[d] > validAt[n]) /\ (d \in Computeds => d \in Q)
    PROVE  \A n \in Q : Promoted(ds, mk)[n] = "clean"
<1>n. PICK N : N = Cardinality(Computeds)
    OBVIOUS
<1>1. N \in Nat
    BY <1>n, SizeIsNatural
<1>2. PICK R : /\ R[0] = mk /\ \A k \in 1..N : R[k] = Seeds(ds, mk, R[k-1])
               /\ Promoted(ds, mk) = R[N]
    BY <1>n, PromotedSteps
<1> DEFINE P == {k \in 0..N : \A n \in Q : R[k][n] = "clean"}
<1>3. 0 \in P
    BY <1>1, <1>2
<1>4. ASSUME NEW k \in 1..N, k-1 \in P PROVE k \in P
    <2>1. R[k] = Seeds(ds, mk, R[k-1]) /\ k \in 0..N
        BY <1>1, <1>2
    <2>2. \A n \in Q : R[k-1][n] = "clean"
        BY <1>4
    <2>3. ASSUME NEW n \in Q PROVE R[k][n] = "clean"
        <3>1. n \in Evaluated /\ mk[n] = "clean"
            BY DEF Evaluated
        <3>2. CASE n \in Gained
            <4>1. \A d \in Members(ds[n]) : ~(changedAt[d] > validAt[n] \/ (d \in Computeds /\ R[k-1][d] # "clean"))
                BY <2>2, <3>2
            <4> QED BY <2>1, <3>1, <4>1 DEF Seeds
        <3>3. CASE n \notin Gained
            BY <2>1, <3>1, <3>3 DEF Seeds
        <3> QED BY <3>2, <3>3
    <2> QED BY <2>1, <2>3
<1>5. 0..N \subseteq P
    <2> HIDE DEF P
    <2> QED BY <1>1, <1>3, <1>4, InductionTo
<1> QED BY <1>1, <1>2, <1>5

\* A node that stays clean has clean dependencies whose readings have not moved.
LEMMA PromotedSettles ==
    ASSUME NEW ds, NEW mk \in [Evaluated -> Marks], NEW n \in Gained \ Computing,
           Promoted(ds, mk)[n] = "clean"
    PROVE  \A d \in Members(ds[n]) : d \in Computeds => Promoted(ds, mk)[d] = "clean"
<1>n. PICK N : N = Cardinality(Computeds)
    OBVIOUS
<1>1. N \in Nat
    BY <1>n, SizeIsNatural
<1>2. PICK R : /\ R[0] = mk /\ \A k \in 1..N : R[k] = Seeds(ds, mk, R[k-1])
               /\ Promoted(ds, mk) = R[N]
    BY <1>n, PromotedSteps
<1>r. PICK Q : Q = [k \in 0..N+1 |-> IF k = N+1 THEN Seeds(ds, mk, R[N]) ELSE R[k]]
    OBVIOUS
<1>3. Q[0] = mk /\ (\A k \in 1..N+1 : Q[k] = Seeds(ds, mk, Q[k-1])) /\ Promoted(ds, mk) = Q[N]
    <2>1. Q[0] = mk /\ Q[N] = R[N] /\ Q[N+1] = Seeds(ds, mk, R[N])
        BY <1>1, <1>2, <1>r
    <2>2. ASSUME NEW k \in 1..N+1 PROVE Q[k] = Seeds(ds, mk, Q[k-1])
        <3>1. CASE k = N+1
            <4>1. k-1 = N
                BY <1>1, <3>1
            <4> QED BY <2>1, <3>1, <4>1
        <3>2. CASE k # N+1
            <4>1. k \in 1..N /\ k \in 0..N+1 /\ k-1 \in 0..N+1 /\ k-1 # N+1
                BY <1>1, <3>2
            <4>2. Q[k] = R[k] /\ Q[k-1] = R[k-1]
                BY <1>r, <3>2, <4>1
            <4> QED BY <1>2, <4>1, <4>2
        <3> QED BY <3>1, <3>2
    <2> QED BY <1>2, <2>1, <2>2
<1> DEFINE S == [k \in 0..N+1 |-> {m \in Computeds : mk[m] = "clean" /\ Q[k][m] # "clean"}]
<1>4. ASSUME NEW k \in 0..N+1, NEW m \in Evaluated
      PROVE  mk[m] # "clean" => Q[k][m] # "clean"
    <2>1. CASE k = 0
        BY <1>3, <2>1
    <2>2. CASE k # 0
        <3>1. k \in 1..N+1
            BY <1>1, <2>2
        <3> QED BY <1>3, <3>1 DEF Seeds
    <2> QED BY <2>1, <2>2
<1>5. ASSUME NEW k \in 0..N+1, NEW m \in Computeds
      PROVE  Q[k][m] # "clean" <=> (mk[m] # "clean" \/ m \in S[k])
    <2>1. m \in Evaluated
        BY DEF Evaluated
    <2> QED BY <1>4, <2>1
<1>6. ASSUME NEW j \in 0..N, NEW k \in 0..N, S[j] = S[k] PROVE S[j+1] = S[k+1]
    <2>1. j+1 \in 1..N+1 /\ k+1 \in 1..N+1 /\ (j+1)-1 = j /\ (k+1)-1 = k /\ j \in 0..N+1 /\ k \in 0..N+1
        BY <1>1
    <2>2. \A m \in Computeds : Q[j][m] # "clean" <=> Q[k][m] # "clean"
        <3> HIDE DEF S
        <3> QED BY <1>5, <1>6, <2>1
    <2>3. Q[j+1] = Seeds(ds, mk, Q[j]) /\ Q[k+1] = Seeds(ds, mk, Q[k])
        BY <1>3, <2>1
    <2>4. \A m \in Evaluated : Q[j+1][m] = Q[k+1][m]
        BY <2>2, <2>3 DEF Seeds
    <2>5. j+1 \in 0..N+1 /\ k+1 \in 0..N+1
        BY <1>1
    <2> QED BY <2>4, <2>5 DEF Evaluated
<1>7. ASSUME NEW j \in 0..N, NEW k \in 0..N, S[j] \subseteq S[k] PROVE S[j+1] \subseteq S[k+1]
    <2>1. j+1 \in 1..N+1 /\ k+1 \in 1..N+1 /\ (j+1)-1 = j /\ (k+1)-1 = k /\ j \in 0..N+1 /\ k \in 0..N+1
        BY <1>1
    <2>2. \A m \in Computeds : Q[j][m] # "clean" => Q[k][m] # "clean"
        <3> HIDE DEF S
        <3> QED BY <1>5, <1>7, <2>1
    <2>3. Q[j+1] = Seeds(ds, mk, Q[j]) /\ Q[k+1] = Seeds(ds, mk, Q[k])
        BY <1>3, <2>1
    <2>4. \A m \in Evaluated : Q[j+1][m] # "clean" => Q[k+1][m] # "clean"
        BY <2>2, <2>3 DEF Seeds
    <2>5. j+1 \in 0..N+1 /\ k+1 \in 0..N+1
        BY <1>1
    <2> QED BY <2>4, <2>5 DEF Evaluated
<1>8. S[0] = {}
    BY <1>1, <1>3
<1>9. \A k \in 1..N+1 : S[k-1] \subseteq S[k]
    <2> DEFINE P == {k \in 0..N : S[k] \subseteq S[k+1]}
    <2>1. 0 \in P
        <3> HIDE DEF S
        <3> QED BY <1>1, <1>8
    <2>2. ASSUME NEW k \in 1..N, k-1 \in P PROVE k \in P
        <3>1. k-1 \in 0..N /\ k \in 0..N /\ (k-1)+1 = k
            BY <1>1
        <3>2. S[k-1] \subseteq S[k]
            BY <2>2, <3>1
        <3>3. S[(k-1)+1] \subseteq S[k+1]
            <4> HIDE DEF S
            <4> QED BY <1>7, <3>1, <3>2
        <3> QED BY <3>1, <3>3
    <2>3. 0..N \subseteq P
        <3> HIDE DEF P
        <3> QED BY <1>1, <2>1, <2>2, InductionTo
    <2>4. ASSUME NEW k \in 1..N+1 PROVE S[k-1] \subseteq S[k]
        <3>1. k-1 \in 0..N /\ (k-1)+1 = k
            BY <1>1
        <3> HIDE DEF S
        <3> QED BY <2>3, <3>1
    <2> QED BY <2>4
<1>10. S[N+1] = S[N]
    <2>1. IsFiniteSet(Computeds)
        BY KindsAssumption, FS_Subset DEF Evaluated
    <2>2. \A k \in 0..N+1 : S[k] \subseteq Computeds
        OBVIOUS
    <2>3. ASSUME NEW k \in 1..N, S[k] = S[k-1] PROVE S[k+1] = S[k]
        <3>1. k-1 \in 0..N /\ k \in 0..N /\ (k-1)+1 = k
            BY <1>1
        <3> HIDE DEF S
        <3>2. S[k+1] = S[(k-1)+1]
            BY <1>6, <2>3, <3>1
        <3> QED BY <3>1, <3>2
    <2> HIDE DEF S
    <2> QED BY <1>n, <1>9, <2>1, <2>2, <2>3, ChainStops
<1>11. N \in 0..N+1 /\ N+1 \in 0..N+1 /\ N+1 \in 1..N+1 /\ (N+1)-1 = N
    BY <1>1
<1>12. n \in Computeds /\ n \in Evaluated
    BY DEF Gained, Evaluated
<1>13. Q[N][n] = "clean"
    BY <1>3
<1>14. Q[N+1][n] = "clean" /\ mk[n] = "clean"
    <2> HIDE DEF S
    <2> QED BY <1>5, <1>10, <1>11, <1>12, <1>13
<1>15. Q[N+1] = Seeds(ds, mk, Q[N])
    BY <1>3, <1>11
<1>16. \A d \in Members(ds[n]) : ~(d \in Computeds /\ Q[N][d] # "clean")
    BY <1>12, <1>14, <1>15 DEF Seeds
<1> QED BY <1>3, <1>16

\* The clean computeds among ns.
CleanOf(mk, ns) == {n \in ns \cap Computeds : mk[n] = "clean"}

\* The wave's way is found edge by edge.
LEMMA OpenedSteps ==
    ASSUME NEW d, NEW mk, NEW N, N = Cardinality(Computeds)
    PROVE  \E R : /\ R[0] = CleanOf(mk, Subscribers(d))
                  /\ \A k \in 1..N : R[k] = R[k-1] \cup CleanOf(mk, UNION {Subscribers(n) : n \in R[k-1]})
                  /\ Opened(d, mk) = R[N]
<1> DEFINE V == SUBSET Computeds
           Clean(ns) == {n \in ns \cap Computeds : mk[n] = "clean"}
           b == Clean(Subscribers(d))
           Next1(X) == X \cup Clean(UNION {Subscribers(n) : n \in X})
           Step == [k \in 1..N |-> [X \in V |-> Next1(X)]]
           F(g) == [k \in 0..N |-> IF k = 0 THEN b ELSE Next1(g[k-1])]
           R == CHOOSE g : g = F(g)
<1>1. N \in Nat
    BY SizeIsNatural
<1>2. b \in V
    OBVIOUS
<1>3. ASSUME NEW X \in V PROVE Next1(X) \in V
    OBVIOUS
<1>4. Step \in [1..N -> [V -> V]]
    <2> HIDE DEF Next1, V
    <2> QED BY <1>3
<1>5. PICK g \in [0..N -> V] : g[0] = b /\ \A k \in 1..N : g[k] = Step[k][g[k-1]]
    <2> HIDE DEF V, Next1, Step, F, R, b
    <2>1. \E g \in [0..N -> V] : Solves(N, b, Step, g)
        BY <1>1, <1>2, <1>4, RecursionExists
    <2> QED BY <2>1 DEF Solves
<1>6. ASSUME NEW k \in 1..N PROVE g[k] = Next1(g[k-1])
    <2> HIDE DEF Next1, V
    <2>1. k-1 \in 0..N /\ g[k-1] \in V
        <3>1. k-1 \in 0..N
            BY <1>1
        <3> QED BY <3>1
    <2> QED BY <1>5, <2>1
<1>7. g = F(g)
    <2> HIDE DEF Next1, V, b
    <2>1. ASSUME NEW k \in 0..N PROVE g[k] = F(g)[k]
        <3>1. CASE k = 0
            BY <3>1, <1>5
        <3>2. CASE k # 0
            BY <1>1, <1>6, <3>2
        <3> QED BY <3>1, <3>2
    <2> QED BY <2>1, <1>5
<1>8. R = F(R)
    <2> HIDE DEF F
    <2> QED BY <1>7
<1>9. R[0] = b /\ \A k \in 1..N : R[k] = Next1(R[k-1])
    <2> HIDE DEF R, Next1, b
    <2>1. \A k \in 0..N : R[k] = F(R)[k]
        <3> HIDE DEF F
        <3> QED BY <1>8
    <2> QED BY <1>1, <2>1
<1>10. Opened(d, mk) = R[N]
    BY DEF Opened
<1>11. /\ R[0] = CleanOf(mk, Subscribers(d))
       /\ \A k \in 1..N : R[k] = R[k-1] \cup CleanOf(mk, UNION {Subscribers(n) : n \in R[k-1]})
    <2> HIDE DEF R
    <2> QED BY <1>9 DEF CleanOf
<1> QED
    <2> HIDE DEF R
    <2> QED BY <1>10, <1>11

\* It leads to every clean computed that is reached through clean ones.
LEMMA OpenedCloses ==
    ASSUME NEW d, NEW mk, NEW W, W = Opened(d, mk)
    PROVE  /\ CleanOf(mk, Subscribers(d)) \subseteq W /\ W \subseteq Computeds
           /\ \A n \in W : CleanOf(mk, Subscribers(n)) \subseteq W
<1>n. PICK N : N = Cardinality(Computeds)
    OBVIOUS
<1>1. N \in Nat
    BY <1>n, SizeIsNatural
<1> DEFINE More(X) == X \cup CleanOf(mk, UNION {Subscribers(n) : n \in X})
<1>2. PICK R : /\ R[0] = CleanOf(mk, Subscribers(d)) /\ \A k \in 1..N : R[k] = More(R[k-1])
               /\ Opened(d, mk) = R[N]
    BY <1>n, OpenedSteps
<1> DEFINE S == [k \in 0..N+1 |-> IF k = N+1 THEN More(R[N]) ELSE R[k]]
<1>3. ASSUME NEW k \in 1..N+1 PROVE S[k] = More(S[k-1]) /\ k-1 \in 0..N+1
    <2> HIDE DEF More
    <2>1. CASE k = N+1
        <3>1. k-1 = N /\ N \in 0..N+1 /\ N # N+1
            BY <1>1, <2>1
        <3> QED BY <2>1, <3>1
    <2>2. CASE k # N+1
        <3>1. k \in 1..N /\ k \in 0..N+1 /\ k-1 \in 0..N+1 /\ k-1 # N+1
            BY <1>1, <2>2
        <3> QED BY <1>2, <2>2, <3>1
    <2> QED BY <2>1, <2>2
<1>4. S[0] = CleanOf(mk, Subscribers(d)) /\ S[N] = R[N] /\ N+1 \in 1..N+1 /\ (N+1)-1 = N
    BY <1>1, <1>2
<1>5. ASSUME NEW k \in 0..N+1 PROVE CleanOf(mk, Subscribers(d)) \subseteq S[k] /\ S[k] \subseteq Computeds
    <2> DEFINE P == {j \in 0..N+1 : CleanOf(mk, Subscribers(d)) \subseteq S[j] /\ S[j] \subseteq Computeds}
    <2> HIDE DEF S
    <2>1. 0 \in P
        BY <1>1, <1>4 DEF CleanOf
    <2>2. ASSUME NEW j \in 1..N+1, j-1 \in P PROVE j \in P
        <3>1. S[j] = More(S[j-1]) /\ j \in 0..N+1
            BY <1>1, <1>3
        <3> QED BY <2>2, <3>1 DEF CleanOf
    <2>3. N+1 \in Nat
        BY <1>1
    <2>4. 0..N+1 \subseteq P
        <3> HIDE DEF P
        <3> QED BY <2>1, <2>2, <2>3, InductionTo
    <2> QED BY <2>4
<1>6. S[N+1] = S[N]
    <2>1. IsFiniteSet(Computeds)
        BY KindsAssumption, FS_Subset DEF Evaluated
    <2>2. \A k \in 0..N+1 : S[k] \subseteq Computeds
        <3> HIDE DEF S
        <3> QED BY <1>5
    <2>3. \A k \in 1..N+1 : S[k-1] \subseteq S[k]
        <3> HIDE DEF S
        <3> QED BY <1>3
    <2>4. ASSUME NEW k \in 1..N, S[k] = S[k-1] PROVE S[k+1] = S[k]
        <3>1. k \in 1..N+1 /\ k+1 \in 1..N+1 /\ (k+1)-1 = k
            BY <1>1
        <3> HIDE DEF S, More
        <3>2. S[k+1] = More(S[k])
            BY <1>3, <3>1
        <3>3. S[k] = More(S[k-1])
            BY <1>3, <3>1
        <3> QED BY <2>4, <3>2, <3>3
    <2> HIDE DEF S
    <2> QED BY <1>n, <2>1, <2>2, <2>3, <2>4, ChainStops
<1>7. W = S[N] /\ More(S[N]) = S[N] /\ N \in 0..N+1
    <2> HIDE DEF S, More
    <2>1. S[N+1] = More(S[N])
        BY <1>3, <1>4
    <2> QED BY <1>1, <1>2, <1>4, <1>6, <2>1
<1>8. CleanOf(mk, Subscribers(d)) \subseteq W /\ W \subseteq Computeds
    <2> HIDE DEF S, More
    <2> QED BY <1>5, <1>7
<1>9. CleanOf(mk, UNION {Subscribers(n) : n \in W}) \subseteq W
    <2> HIDE DEF S
    <2> QED BY <1>7
<1>10. \A n \in W : CleanOf(mk, Subscribers(n)) \subseteq W
    BY <1>9 DEF CleanOf
<1> QED BY <1>8, <1>10

\* Watched through the edges ds are computeds, atoms and live effects.
LEMMA ReachedAlive ==
    ASSUME NEW ds \in Graphs, NEW lf, NEW tg \in [Watchers -> Producers \cup {None}]
    PROVE  Reached(ds, lf, tg) \cap Effects \subseteq Alive(lf)
<1>u. PICK U : U = Alive(lf) \cup Producers
    OBVIOUS
<1>1. Roots(lf, tg) \subseteq U
    BY <1>u DEF Roots
<1>2. \A n \in U \cap Evaluated : Members(ds[n]) \subseteq U
    BY <1>u DEF Graphs, Members
<1>3. Reached(ds, lf, tg) \subseteq U
    BY <1>1, <1>2, ReachedLeast
<1>4. Producers \cap Effects = {}
    BY KindsAssumption DEF Producers, Evaluated, Sinks
<1> QED BY <1>3, <1>4, <1>u

\* What promotion leaves clean was clean before.
LEMMA PromotedMarks ==
    ASSUME NEW ds, NEW mk \in [Evaluated -> Marks]
    PROVE  /\ Promoted(ds, mk) \in [Evaluated -> Marks]
           /\ \A n \in Evaluated : Promoted(ds, mk)[n] = "clean" => mk[n] = "clean"
<1>n. PICK N : N = Cardinality(Computeds)
    OBVIOUS
<1>1. N \in Nat
    BY <1>n, SizeIsNatural
<1>2. PICK R : /\ R[0] = mk /\ \A k \in 1..N : R[k] = Seeds(ds, mk, R[k-1])
               /\ Promoted(ds, mk) = R[N]
    BY <1>n, PromotedSteps
<1>3. CASE N = 0
    BY <1>2, <1>3
<1>4. CASE N # 0
    <2>1. N \in 1..N
        BY <1>1, <1>4
    <2>2. Promoted(ds, mk) = Seeds(ds, mk, R[N-1])
        BY <1>2, <2>1
    <2> QED BY <2>2 DEF Seeds, Marks
<1> QED BY <1>3, <1>4

\* A wave goes on through computeds.
LEMMA OpenedComputeds == ASSUME NEW d, NEW mk PROVE Opened(d, mk) \subseteq Computeds
<1>1. PICK W : W = Opened(d, mk)
    OBVIOUS
<1> QED BY <1>1, OpenedCloses

-----------------------------------------------------------------------------
(***************************************************************************)
(* Edges, waves and the stack of a pull.                                   *)
(***************************************************************************)
\* Relinking keeps types, and no node becomes clean.
LEMMA RelinkKeeps ==
    ASSUME OwnersOK, ClocksOK, NEW ds \in Graphs, NEW lf, NEW tg \in [Watchers -> Producers \cup {None}],
           NEW mk \in [Evaluated -> Marks], NEW va \in [Evaluated -> 0..clock],
           Relink(ds, lf, tg, mk, va)
    PROVE  /\ mark' \in [Evaluated -> Marks]
           /\ \A n \in Evaluated : mark'[n] = "clean" => mk[n] = "clean"
           /\ validAt' \in [Evaluated -> 0..clock]
           /\ watched' \cap Effects \subseteq Alive(lf)
           /\ deps' = ds /\ life' = lf /\ target' = tg
<1>1. mark' = Promoted(ds, mk) /\ validAt' = Demoted(mk, va) /\ deps' = ds /\ life' = lf /\ target' = tg
    BY DEF Relink
<1>2. mark' \in [Evaluated -> Marks] /\ \A n \in Evaluated : mark'[n] = "clean" => mk[n] = "clean"
    BY <1>1, PromotedMarks
<1>3. validAt' \in [Evaluated -> 0..clock]
    BY <1>1 DEF Demoted, ClocksOK
<1>4. watched' \cap Effects \subseteq Alive(lf)
    <2>1. CASE ds = deps /\ lf = life /\ tg = target
        BY <2>1 DEF Relink, OwnersOK, FlagsOK
    <2>2. CASE ~(ds = deps /\ lf = life /\ tg = target)
        BY <2>2, ReachedAlive DEF Relink
    <2> QED BY <2>1, <2>2
<1> QED BY <1>1, <1>2, <1>3, <1>4

\* A wave schedules sinks that are alive, and makes no node clean.
LEMMA WaveKeeps ==
    ASSUME OwnersOK, NEW d \in Producers, NEW mk \in [Evaluated -> Marks], Wave(d, mk)
    PROVE  /\ mark' \in [Evaluated -> Marks]
           /\ \A n \in Evaluated : mark'[n] = "clean" => mk[n] = "clean"
           /\ scheduled' \subseteq Alive(life) \cup {w \in Watchers : target[w] # None}
<1> DEFINE ring == Subscribers(d)
           below == UNION {Subscribers(n) : n \in Opened(d, mk)}
<1>1. /\ mark' = [n \in Evaluated |->
                    IF n \in ring THEN "dirty"
                    ELSE IF n \in below /\ mk[n] = "clean" THEN "check"
                    ELSE mk[n]]
      /\ scheduled' = scheduled \cup ((ring \cup below) \cap Sinks)
    BY DEF Wave
<1>2. ASSUME NEW n \in Producers
      PROVE  Subscribers(n) \cap Sinks \subseteq Alive(life) \cup {w \in Watchers : target[w] # None}
    <2>1. {x \in Evaluated : Watched(x) /\ n \in Members(deps[x])} \cap Sinks \subseteq Alive(life)
        BY KindsAssumption DEF OwnersOK, FlagsOK, Watched, Sinks, Evaluated
    <2>2. n # None
        BY ValuesAssumption
    <2> QED BY <2>1, <2>2 DEF Subscribers
<1>3. Opened(d, mk) \subseteq Producers
    BY OpenedComputeds DEF Producers
<1>4. mark' \in [Evaluated -> Marks] /\ \A n \in Evaluated : mark'[n] = "clean" => mk[n] = "clean"
    <2> HIDE DEF ring, below
    <2> QED BY <1>1 DEF Marks
<1>5. (ring \cup below) \cap Sinks \subseteq Alive(life) \cup {w \in Watchers : target[w] # None}
    BY <1>2, <1>3
<1> QED
    <2> HIDE DEF ring, below
    <2> QED BY <1>1, <1>4, <1>5 DEF OwnersOK, FlagsOK

\* A list with the dependencies read so far, and how many they are.
Spot(at) == at.list \in Seq(Producers) /\ at.pos \in Nat /\ at.pos <= Len(at.list)

\* A read leaves a list that goes up to it.
LEMMA TrackedSpot ==
    ASSUME deps \in Graphs, NEW f \in Frames, f.pos <= Len(deps[f.node]), NEW d \in Producers
    PROVE  Spot(Tracked(f, d)) /\ Spot(Untouched(f))
<1> DEFINE list == deps[f.node]
           longer == SubSeq(list, 1, f.pos) \o <<d>> \o SubSeq(list, f.pos + 1, Len(list))
<1>1. list \in Seq(Producers) /\ f.pos \in Nat /\ Len(list) \in Nat /\ f.pos <= Len(list)
    BY DEF Graphs, Frames
<1>2. longer \in Seq(Producers) /\ Len(longer) = Len(list) + 1
    <2> HIDE DEF list
    <2>1. \A i \in 1..Len(list) : list[i] \in Producers
        BY <1>1
    <2>2. SubSeq(list, 1, f.pos) \in Seq(Producers) /\ Len(SubSeq(list, 1, f.pos)) = f.pos
        <3>1. \A i \in 1..f.pos : list[i] \in Producers
            BY <1>1, <2>1
        <3> QED BY <1>1, <3>1, SubSeqProperties
    <2>3. /\ SubSeq(list, f.pos + 1, Len(list)) \in Seq(Producers)
          /\ Len(SubSeq(list, f.pos + 1, Len(list))) = Len(list) - f.pos
        <3>1. f.pos + 1 \in Int /\ Len(list) \in Int /\ \A i \in f.pos + 1 .. Len(list) : list[i] \in Producers
            BY <1>1, <2>1
        <3>2. /\ SubSeq(list, f.pos + 1, Len(list)) \in Seq(Producers)
              /\ Len(SubSeq(list, f.pos + 1, Len(list))) =
                    IF f.pos + 1 <= Len(list) THEN Len(list) - (f.pos + 1) + 1 ELSE 0
            BY <3>1, SubSeqProperties
        <3> QED BY <1>1, <3>2
    <2>4. SubSeq(list, 1, f.pos) \o <<d>> \in Seq(Producers) /\ Len(SubSeq(list, 1, f.pos) \o <<d>>) = f.pos + 1
        BY <1>1, <2>2, ConcatProperties
    <2> QED BY <1>1, <2>3, <2>4, ConcatProperties
<1>3. Spot(Untouched(f))
    BY <1>1 DEF Spot, Untouched
<1>4. Spot(Tracked(f, d))
    <2>1. CASE d \in Members(SubSeq(list, 1, f.pos))
        BY <1>1, <2>1 DEF Spot, Tracked
    <2>2. CASE d \notin Members(SubSeq(list, 1, f.pos)) /\ f.pos < Len(list) /\ list[f.pos + 1] = d
        BY <1>1, <2>2 DEF Spot, Tracked
    <2>3. CASE d \notin Members(SubSeq(list, 1, f.pos)) /\ ~(f.pos < Len(list) /\ list[f.pos + 1] = d)
        <3>1. Tracked(f, d) = [list |-> longer, pos |-> f.pos + 1]
            BY <2>3, Zenon DEF Tracked
        <3> HIDE DEF longer, list
        <3> QED BY <1>1, <1>2, <3>1 DEF Spot
    <2> QED BY <2>1, <2>2, <2>3
<1> QED BY <1>3, <1>4

\* No frame of st evaluates n.
RunFree(st, n) == \A i \in DOMAIN st : st[i].mode = "run" => st[i].node # n

\* The top frame and what is under it.
LEMMA StackTop ==
    ASSUME NEW ds, NEW ch, StackOK(stack, ds, ch), stack # <<>>
    PROVE  /\ Top \in Frames /\ FrameOK(Top, ds, ch) /\ StackOK(Below, ds, ch)
           /\ Top.mode = "run" => RunFree(Below, Top.node)
<1>1. /\ stack \in Seq(Frames) /\ Len(stack) \in Nat \ {0} /\ DOMAIN stack = 1..Len(stack)
      /\ Top = stack[1] /\ Top \in Frames
      /\ Below \in Seq(Frames) /\ Len(Below) = Len(stack) - 1 /\ DOMAIN Below = 1..Len(Below)
      /\ \A i \in 1..Len(Below) : Below[i] = stack[i+1]
    BY HeadTailProperties, EmptySeq, LenProperties DEF StackOK, Top, Below
<1>2. \A i \in DOMAIN Below : i+1 \in DOMAIN stack /\ i+1 # 1 /\ Below[i] = stack[i+1]
    BY <1>1
<1>3. 1 \in DOMAIN stack
    BY <1>1
<1>4. FrameOK(Top, ds, ch) /\ \A i \in DOMAIN Below : FrameOK(Below[i], ds, ch)
    BY <1>1, <1>2, <1>3 DEF StackOK
<1>5. RunsApart(Below)
    BY <1>1, <1>2 DEF StackOK, RunsApart
<1>6. Top.mode = "run" => RunFree(Below, Top.node)
    BY <1>1, <1>2, <1>3 DEF StackOK, RunsApart, RunFree
<1> QED BY <1>1, <1>4, <1>5, <1>6 DEF StackOK

\* What is under any frame.
LEMMA StackUnder ==
    ASSUME NEW ds, NEW ch, StackOK(stack, ds, ch), NEW i \in DOMAIN stack, stack[i].mode = "run"
    PROVE  /\ stack[i] \in Frames /\ FrameOK(stack[i], ds, ch)
           /\ StackOK(SubSeq(stack, i + 1, Len(stack)), ds, ch)
           /\ RunFree(SubSeq(stack, i + 1, Len(stack)), stack[i].node)
<1> DEFINE under == SubSeq(stack, i + 1, Len(stack))
<1>1. /\ stack \in Seq(Frames) /\ Len(stack) \in Nat /\ DOMAIN stack = 1..Len(stack)
      /\ \A k \in 1..Len(stack) : stack[k] \in Frames
    BY LenProperties DEF StackOK
<1>2. /\ under \in Seq(Frames) /\ DOMAIN under = 1..(Len(stack) - i)
      /\ \A k \in 1..(Len(stack) - i) : under[k] = stack[k + i]
    <2>1. /\ under \in Seq(Frames)
          /\ Len(under) = IF i+1 <= Len(stack) THEN Len(stack) - (i+1) + 1 ELSE 0
          /\ \A k \in 1..(Len(stack) - (i+1) + 1) : under[k] = stack[i+1+k-1]
        BY <1>1, SubSeqProperties
    <2>2. DOMAIN under = 1..Len(under)
        BY <2>1, LenProperties
    <2> QED BY <1>1, <2>1, <2>2
<1> HIDE DEF under
<1>3. \A k \in DOMAIN under : k+i \in DOMAIN stack /\ k+i # i /\ under[k] = stack[k+i]
    BY <1>1, <1>2
<1>5. \A k \in DOMAIN under : FrameOK(under[k], ds, ch)
    BY <1>3 DEF StackOK
<1>6. RunsApart(under)
    <2> SUFFICES ASSUME NEW j \in DOMAIN under, NEW k \in DOMAIN under,
                        under[j].mode = "run", under[k].mode = "run", j # k
                 PROVE  under[j].node # under[k].node
        BY DEF RunsApart
    <2>1. j+i # k+i
        BY <1>1, <1>2
    <2> QED BY <1>3, <2>1 DEF StackOK, RunsApart
<1>7. RunFree(under, stack[i].node)
    BY <1>3 DEF StackOK, RunsApart, RunFree
<1>8. StackOK(under, ds, ch)
    BY <1>2, <1>5, <1>6 DEF StackOK
<1>9. stack[i] \in Frames /\ FrameOK(stack[i], ds, ch)
    BY <1>1 DEF StackOK
<1> QED BY <1>7, <1>8, <1>9 DEF under

\* A frame on top.
LEMMA StackPushed ==
    ASSUME NEW ds, NEW ch, NEW st, StackOK(st, ds, ch),
           NEW f \in Frames, FrameOK(f, ds, ch), f.mode = "run" => RunFree(st, f.node)
    PROVE  StackOK(<<f>> \o st, ds, ch)
<1> DEFINE more == <<f>> \o st
<1>1. st \in Seq(Frames) /\ Len(st) \in Nat /\ DOMAIN st = 1..Len(st)
    BY LenProperties DEF StackOK
<1>2. <<f>> \in Seq(Frames) /\ Len(<<f>>) = 1 /\ <<f>>[1] = f
    OBVIOUS
<1>3. more \in Seq(Frames) /\ Len(more) = 1 + Len(st)
      /\ \A k \in 1..(1 + Len(st)) : more[k] = IF k <= 1 THEN <<f>>[k] ELSE st[k-1]
    BY <1>1, <1>2, ConcatProperties
<1>4. DOMAIN more = 1..(1 + Len(st))
    BY <1>3, LenProperties
<1> HIDE DEF more
<1>5. \A k \in DOMAIN more :
         \/ k = 1 /\ more[k] = f
         \/ k > 1 /\ k-1 \in DOMAIN st /\ more[k] = st[k-1]
    BY <1>1, <1>2, <1>3, <1>4
<1>6. \A k \in DOMAIN more : FrameOK(more[k], ds, ch)
    BY <1>5 DEF StackOK
<1>7. RunsApart(more)
    <2> SUFFICES ASSUME NEW j \in DOMAIN more, NEW k \in DOMAIN more,
                        more[j].mode = "run", more[k].mode = "run", j # k
                 PROVE  more[j].node # more[k].node
        BY DEF RunsApart
    <2>1. CASE j = 1
        BY <1>5, <2>1 DEF RunFree
    <2>2. CASE k = 1
        BY <1>5, <2>2 DEF RunFree
    <2>3. CASE j # 1 /\ k # 1
        <3>1. j-1 \in DOMAIN st /\ k-1 \in DOMAIN st /\ j-1 # k-1
            BY <1>1, <1>4, <1>5, <2>3
        <3> QED BY <1>5, <2>3, <3>1 DEF StackOK, RunsApart
    <2> QED BY <2>1, <2>2, <2>3
<1> QED BY <1>3, <1>6, <1>7 DEF StackOK, more

\* Frames that do not evaluate n do not mind its list, nor that a node without
\* a value gets one.
LEMMA StackElsewhere ==
    ASSUME NEW ds, NEW ch, NEW ds2, NEW ch2, NEW st, StackOK(st, ds, ch), NEW n, RunFree(st, n),
           \A m \in Evaluated \ {n} : ds2[m] = ds[m],
           \A m \in Evaluated : ch[m] # None => ch2[m] # None
    PROVE  StackOK(st, ds2, ch2)
<1>1. ASSUME NEW i \in DOMAIN st PROVE FrameOK(st[i], ds2, ch2)
    <2>1. st[i].node \in Evaluated
        <3>1. st \in Seq(Frames)
            BY DEF StackOK
        <3>2. st[i] \in Frames
            BY <3>1, LenProperties, ElementOfSeq
        <3> QED BY <3>2 DEF Frames
    <2>2. FrameOK(st[i], ds, ch)
        BY DEF StackOK
    <2>3. CASE st[i].mode = "run"
        BY <2>1, <2>2, <2>3 DEF FrameOK, RunFree
    <2>4. CASE st[i].mode # "run"
        BY <2>1, <2>2, <2>4 DEF FrameOK
    <2> QED BY <2>3, <2>4
<1> QED BY <1>1 DEF StackOK

\* One frame, on nothing.
LEMMA StackOne ==
    ASSUME NEW ds, NEW ch, NEW f \in Frames, FrameOK(f, ds, ch)
    PROVE  StackOK(<<f>>, ds, ch) /\ StackOK(<<>>, ds, ch)
BY DEF StackOK, RunsApart
-----------------------------------------------------------------------------
(***************************************************************************)
(* How an evaluation goes on, and how it ends.                             *)
(***************************************************************************)
\* What a step of a pull leaves in place.
Steady == UNCHANGED <<shape, val, clock, scheduled, settling>>

\* What a step of a pull leaves in place keeps its types.
LEMMA SteadyKeeps ==
    ASSUME GraphInv, Steady, changedAt' \in [Producers -> 0..clock], validAt' \in [Evaluated -> 0..clock]
    PROVE  ClocksOK' /\ SettlingOK'
BY DEF GraphInv, Steady, ClocksOK, SettlingOK

\* An outcome of an evaluation, with the value that goes with it.
Yields(n, value, outcome) ==
    \/ value \in Values /\ outcome = Plain
    \/ value = cache[n] /\ outcome.kind = "error"
    \/ value = cache[n] /\ \E s \in Suspensions : outcome = Suspended(s)

\* The end of an evaluation, whatever its outcome: the frames under it stay in
\* order, since no other one evaluates the same node.
LEMMA FinishKeeps ==
    ASSUME GraphInv, Steady, NEW f, f.node \in Evaluated, NEW at, Spot(at), NEW under, NEW value, NEW outcome,
           NEW changed, StackOK(under, deps, cache), RunFree(under, f.node),
           Yields(f.node, value, outcome), Finish(f, at, under, value, outcome, changed)
    PROVE  ClocksOK' /\ SettlingOK' /\ NodesOK' /\ OwnersOK' /\ StackOK(stack, deps, cache)'
<1> DEFINE n == f.node
           kept == IF n \in Effects /\ life[n] = "disposed" THEN <<>> ELSE SubSeq(at.list, 1, at.pos)
           ds == [deps EXCEPT ![n] = kept]
           mk == [mark EXCEPT ![n] = "clean"]
           va == [validAt EXCEPT ![n] = clock]
<1>1. /\ Relink(ds, life, target, mk, va)
      /\ cache' = [cache EXCEPT ![n] = value] /\ async' = [async EXCEPT ![n] = outcome]
      /\ changedAt' = [d \in Producers |-> IF d = n /\ changed THEN clock ELSE changedAt[d]]
      /\ stack' = under
    BY DEF Finish
<1>2. kept \in Seq(Producers)
    <2>1. \A i \in 1..at.pos : at.list[i] \in Producers
        BY DEF Spot
    <2>2. 1 \in Int /\ at.pos \in Int
        BY DEF Spot
    <2>3. SubSeq(at.list, 1, at.pos) \in Seq(Producers)
        BY <2>1, <2>2, SubSeqProperties
    <2> QED BY <2>3
<1> HIDE DEF kept
<1>3. ClocksOK /\ OwnersOK /\ NodesOK
    BY DEF GraphInv
<1>4. ds \in Graphs /\ mk \in [Evaluated -> Marks] /\ va \in [Evaluated -> 0..clock]
    BY <1>2, <1>3 DEF NodesOK, ClocksOK, Graphs, Marks
<1>5. target \in [Watchers -> Producers \cup {None}]
    BY <1>3 DEF OwnersOK
<1> HIDE DEF ds, mk, va
<1>6. /\ mark' \in [Evaluated -> Marks]
      /\ \A m \in Evaluated : mark'[m] = "clean" => mk[m] = "clean"
      /\ validAt' \in [Evaluated -> 0..clock]
      /\ watched' \cap Effects \subseteq Alive(life)
      /\ deps' = ds /\ life' = life /\ target' = target
    BY <1>1, <1>3, <1>4, <1>5, RelinkKeeps
<1>7. changedAt' \in [Producers -> 0..clock]
    BY <1>1, <1>3 DEF ClocksOK
<1>8. OwnersOK'
    BY <1>3, <1>6 DEF OwnersOK, FlagsOK, Steady
<1>9. cache[n] \in Values \cup {None} /\ value \in Values \cup {None}
    BY <1>3 DEF NodesOK, Yields
<1>10. cache' \in [Evaluated -> Values \cup {None}]
    BY <1>1, <1>3, <1>9 DEF NodesOK
<1>11. async'[n] = outcome /\ \A m \in Evaluated \ {n} : async'[m] = async[m]
    BY <1>1, <1>3 DEF NodesOK, AsyncOK
<1>12. AsyncOK(async')
    <2>1. async' = [m \in Evaluated |-> async'[m]]
        BY <1>1, <1>3 DEF NodesOK, AsyncOK
    <2>2. outcome = Plain \/ outcome.kind = "error" \/ \E s \in Suspensions : outcome = Suspended(s)
        BY DEF Yields
    <2>3. ASSUME NEW m \in Evaluated
          PROVE  async'[m] = Plain \/ async'[m].kind = "error" \/ \E s \in Suspensions : async'[m] = Suspended(s)
        <3>1. CASE m = n
            BY <3>1, <2>2, <1>11
        <3>2. CASE m # n
            BY <3>2, <1>3, <1>11 DEF NodesOK, AsyncOK
        <3> QED BY <3>1, <3>2
    <2> QED BY <2>1, <2>3 DEF AsyncOK
<1>13. outcome = Plain => value # None
    <2>1. Plain.kind = "plain" /\ \A s : Suspended(s).kind = "suspended"
        BY DEF Plain, Suspended
    <2>2. outcome = Plain => ~(outcome.kind = "error") /\ ~(\E s \in Suspensions : outcome = Suspended(s))
        BY <2>1
    <2> QED BY <2>2, ValuesAssumption DEF Yields
<1>14. Serving(mark', async', cache')
    <2> SUFFICES ASSUME NEW m \in Computeds, mark'[m] = "clean", async'[m] = Plain PROVE cache'[m] # None
        BY DEF Serving
    <2>1. m \in Evaluated
        BY DEF Evaluated
    <2>2. CASE m = n
        BY <1>1, <1>3, <1>11, <1>13, <2>1, <2>2 DEF NodesOK
    <2>3. CASE m # n
        <3>1. mk[m] = mark[m] /\ async[m] = Plain /\ cache'[m] = cache[m]
            BY <1>1, <1>3, <1>11, <2>1, <2>3 DEF NodesOK, mk
        <3> QED BY <1>3, <1>6, <2>1, <3>1 DEF NodesOK, Serving
    <2> QED BY <2>2, <2>3
<1>15. NodesOK'
    BY <1>4, <1>6, <1>10, <1>12, <1>14 DEF NodesOK
<1>16. StackOK(under, ds, cache')
    <2>1. \A m \in Evaluated \ {n} : ds[m] = deps[m]
        BY <1>3 DEF ds, NodesOK, Graphs
    <2>2. \A m \in Evaluated : cache[m] # None => cache'[m] # None
        BY <1>1, <1>3, ValuesAssumption DEF NodesOK, Yields
    <2> QED BY <2>1, <2>2, StackElsewhere
<1> QED BY <1>1, <1>6, <1>7, <1>8, <1>15, <1>16, SteadyKeeps

\* Boxes stay in order when a span ends.
LEMMA SpanEnds ==
    ASSUME GraphInv, NEW n \in Evaluated, EndSpan(n),
           UNCHANGED <<status, result, parkedNodes, parkedSuspensions>>
    PROVE  BoxesOK'
<1>1. async[n].kind = "suspended" => async[n].of \in Suspensions
    BY DEF GraphInv, NodesOK, AsyncOK, Plain, Suspended
<1>2. BoxesOK
    BY DEF GraphInv
<1>3. resolved' \subseteq Suspensions
    BY <1>1, <1>2 DEF EndSpan, BoxesOK
<1> QED BY <1>2, <1>3 DEF BoxesOK

\* A value, ...
LEMMA SettledKeeps ==
    ASSUME GraphInv, Steady, stack # <<>>, Top.mode = "run", NEW at, Spot(at), NEW v \in Values,
           Settled(Top, at, v)
    PROVE  GraphInv'
<1>1. /\ Top \in Frames /\ StackOK(Below, deps, cache) /\ RunFree(Below, Top.node)
    BY StackTop DEF GraphInv
<1>2. Top.node \in Evaluated
    BY <1>1 DEF Frames
<1>3. Yields(Top.node, v, Plain)
    BY DEF Yields
<1>4. BoxesOK'
    BY <1>2, SpanEnds DEF Settled
<1>5. PICK changed : Finish(Top, at, Below, v, Plain, changed)
    BY DEF Settled
<1> QED BY <1>1, <1>2, <1>3, <1>4, <1>5, FinishKeeps DEF GraphInv

\* ... a thrown reason ...
LEMMA ThrewKeeps ==
    ASSUME GraphInv, Steady, NEW f, f.node \in Evaluated, NEW under, StackOK(under, deps, cache),
           RunFree(under, f.node), NEW at, Spot(at), NEW reason, Threw(f, at, under, reason)
    PROVE  GraphInv'
<1>1. Yields(f.node, cache[f.node], Failed(reason))
    BY DEF Yields, Failed
<1>2. BoxesOK'
    BY SpanEnds DEF Threw
<1>3. PICK changed : Finish(f, at, under, cache[f.node], Failed(reason), changed)
    BY DEF Threw
<1> QED BY <1>1, <1>2, <1>3, FinishKeeps DEF GraphInv

\* The suspension a node parks on is its own, or one nothing refers to.
LEMMA SpanIsFree ==
    ASSUME GraphInv, NEW n \in Evaluated, InSpan(n) \/ \E u \in Suspensions : Unreferenced(u)
    PROVE  /\ SpanOf(n) \in Suspensions
           /\ InSpan(n) => async[n] = Suspended(SpanOf(n))
           /\ ~InSpan(n) => Unreferenced(SpanOf(n))
<1>1. CASE InSpan(n)
    <2>1. async[n].kind = "suspended"
        BY <1>1 DEF InSpan
    <2>2. PICK s \in Suspensions : async[n] = Suspended(s)
        BY <2>1 DEF GraphInv, NodesOK, AsyncOK, Plain
    <2>3. SpanOf(n) = s
        BY <1>1, <2>2 DEF SpanOf, Suspended
    <2> QED BY <1>1, <2>2, <2>3
<1>2. CASE ~InSpan(n)
    <2>1. SpanOf(n) = CHOOSE s \in Suspensions : Unreferenced(s)
        BY <1>2 DEF SpanOf
    <2> DEFINE Free(s) == s \in Suspensions /\ Unreferenced(s)
    <2>2. \E s \in Suspensions : Unreferenced(s)
        BY <1>2
    <2>3. SpanOf(n) \in Suspensions /\ Unreferenced(SpanOf(n))
        BY <2>1, <2>2
    <2> QED BY <1>2, <2>3
<1> QED BY <1>1, <1>2

\* ... and a park.
LEMMA ParkedKeeps ==
    ASSUME GraphInv, Steady, stack # <<>>, Top.mode = "run", NEW at, Spot(at), NEW p \in Promises,
           p \in Thenables => status[p] # "fulfilled", Parked(Top, at, p)
    PROVE  GraphInv'
<1> DEFINE n == Top.node
           s == SpanOf(n)
           again == async[n] = Suspended(s)
<1>1. /\ Top \in Frames /\ StackOK(Below, deps, cache) /\ RunFree(Below, n)
    BY StackTop DEF GraphInv
<1>2. n \in Evaluated
    BY <1>1 DEF Frames
<1>3. s \in Suspensions
    BY <1>2, SpanIsFree DEF Parked
<1>4. Yields(n, cache[n], Suspended(s))
    BY <1>3 DEF Yields
<1>5. /\ Finish(Top, at, Below, cache[n], Suspended(s), TRUE)
      /\ resolved' = IF again THEN resolved ELSE resolved \ {s}
      /\ status' = [q \in Promises |->
                        IF q = p THEN "pending"
                        ELSE IF q = s /\ ~again THEN "unseen" ELSE status[q]]
      /\ parkedNodes' = [parkedNodes EXCEPT ![p] = @ \cup {n}]
      /\ parkedSuspensions' = [parkedSuspensions EXCEPT ![p] = @ \cup {s}]
      /\ result' = result
    BY DEF Parked
<1> HIDE DEF s, again
<1>6. BoxesOK'
    <2>1. BoxesOK
        BY DEF GraphInv
    <2>2. status' \in [Promises -> Statuses]
        BY <1>5, <2>1 DEF BoxesOK, Statuses
    <2>3. \A t \in Thenables : status'[t] = "fulfilled" => status[t] = "fulfilled"
        BY <1>5 DEF Promises
    <2>4. parkedNodes' \in [Promises -> SUBSET Evaluated] /\ parkedSuspensions' \in [Promises -> SUBSET Suspensions]
        BY <1>2, <1>3, <1>5, <2>1 DEF BoxesOK
    <2>5. resolved' \subseteq Suspensions
        BY <1>5, <2>1 DEF BoxesOK
    <2> QED BY <1>5, <2>1, <2>2, <2>3, <2>4, <2>5 DEF BoxesOK
<1> QED BY <1>1, <1>2, <1>4, <1>5, <1>6, FinishKeeps DEF GraphInv

\* The body sees one more value.
LEMMA ContinueKeeps ==
    ASSUME GraphInv, Steady, stack # <<>>, Top.mode = "run", NEW at, Spot(at), NEW v \in Values,
           Continue(Top, at, v)
    PROVE  GraphInv'
<1> DEFINE n == Top.node
           ds == [deps EXCEPT ![n] = at.list]
           f == [Top EXCEPT !.pos = at.pos, !.seen = Append(@, v)]
<1>1. /\ Top \in Frames /\ StackOK(Below, deps, cache) /\ RunFree(Below, n)
    BY StackTop DEF GraphInv
<1>2. n \in Evaluated
    BY <1>1 DEF Frames
<1>3. /\ Relink(ds, life, target, mark, validAt)
      /\ stack' = <<f>> \o Below
      /\ UNCHANGED <<changedAt, cache, async, boxes>>
    BY DEF Continue
<1>4. ClocksOK /\ OwnersOK /\ NodesOK
    BY DEF GraphInv
<1>5. ds \in Graphs /\ \A m \in Evaluated \ {n} : ds[m] = deps[m]
    BY <1>4 DEF NodesOK, Graphs, Spot
<1>6. f \in Frames /\ f.mode = "run" /\ f.node = n /\ f.pos = at.pos
    <2>1. Append(Top.seen, v) \in Seq(Values)
        BY <1>1, AppendProperties DEF Frames
    <2> QED BY <1>1, <2>1 DEF Frames, Spot
<1>7. FrameOK(f, ds, cache)
    <2>1. ds[n] = at.list
        BY <1>2, <1>4 DEF NodesOK, Graphs
    <2> HIDE DEF f, ds
    <2> QED BY <1>6, <2>1 DEF FrameOK, Spot
<1> HIDE DEF f, ds
<1>8. /\ mark' \in [Evaluated -> Marks]
      /\ \A m \in Evaluated : mark'[m] = "clean" => mark[m] = "clean"
      /\ validAt' \in [Evaluated -> 0..clock]
      /\ watched' \cap Effects \subseteq Alive(life)
      /\ deps' = ds /\ life' = life /\ target' = target
    <2>1. /\ target \in [Watchers -> Producers \cup {None}] /\ mark \in [Evaluated -> Marks]
          /\ validAt \in [Evaluated -> 0..clock]
        BY <1>4 DEF OwnersOK, NodesOK, ClocksOK
    <2> QED BY <1>3, <1>4, <1>5, <2>1, RelinkKeeps
<1>9. OwnersOK'
    BY <1>4, <1>8 DEF OwnersOK, FlagsOK, Steady
<1>10. NodesOK'
    BY <1>3, <1>4, <1>5, <1>8 DEF NodesOK, Serving, Evaluated
<1>11. BoxesOK'
    BY <1>3 DEF GraphInv, BoxesOK, boxes
<1>12. StackOK(stack', ds, cache)
    <2>1. StackOK(Below, ds, cache)
        BY <1>1, <1>5, StackElsewhere
    <2> QED BY <1>1, <1>3, <1>6, <1>7, <2>1, StackPushed
<1>13. ClocksOK' /\ SettlingOK'
    BY <1>3, <1>4, <1>8, SteadyKeeps DEF ClocksOK
<1> QED BY <1>3, <1>8, <1>9, <1>10, <1>11, <1>12, <1>13 DEF GraphInv
-----------------------------------------------------------------------------
(***************************************************************************)
(* The steps of a pull.                                                    *)
(***************************************************************************)
\* A node that is pulled gets a frame, at its first dependency or its first read.
LEMMA EnteredFrame ==
    ASSUME GraphInv, NEW n \in Evaluated
    PROVE  /\ Entered(n) \in Frames /\ FrameOK(Entered(n), deps, cache) /\ Entered(n).node = n
           /\ Frame(n, "run") \in Frames /\ FrameOK(Frame(n, "run"), deps, cache)
           /\ Frame(n, "run").node = n /\ Frame(n, "run").mode = "run"
<1>1. \A mode \in {"run", "check"} : Frame(n, mode) \in Frames
    BY DEF Frame, Frames
<1>2. Len(deps[n]) \in Nat
    BY DEF GraphInv, NodesOK, Graphs
<1>3. FrameOK(Frame(n, "run"), deps, cache)
    BY <1>2 DEF FrameOK, Frame
<1>4. cache[n] # None => FrameOK(Frame(n, "check"), deps, cache)
    BY <1>2 DEF FrameOK, Frame
<1>5. Entered(n) = Frame(n, "run") \/ (Entered(n) = Frame(n, "check") /\ cache[n] # None)
    BY DEF Entered
<1>6. \A mode \in {"run", "check"} : Frame(n, mode).node = n /\ Frame(n, mode).mode = mode
    BY DEF Frame
<1> QED BY <1>1, <1>3, <1>4, <1>5, <1>6

\* What is not being evaluated has no frame that evaluates it.
LEMMA NotComputing ==
    ASSUME GraphInv, stack # <<>>, NEW n, n \notin Computing
    PROVE  RunFree(stack, n) /\ RunFree(Below, n)
<1>1. RunFree(stack, n)
    BY DEF RunFree, Computing
<1>2. /\ DOMAIN Below = 1..Len(Below) /\ DOMAIN stack = 1..Len(stack) /\ Len(stack) \in Nat
      /\ Len(Below) = Len(stack) - 1 /\ \A i \in 1..Len(Below) : Below[i] = stack[i+1]
    BY HeadTailProperties, LenProperties DEF GraphInv, StackOK, Below
<1>3. \A i \in DOMAIN Below : i+1 \in DOMAIN stack /\ Below[i] = stack[i+1]
    BY <1>2
<1> QED BY <1>1, <1>3 DEF RunFree

\* A call.
LEMMA PushKeeps ==
    ASSUME GraphInv, stack # <<>>, NEW f \in Frames, FrameOK(f, deps, cache),
           NEW under \in {stack, Below}, Push(f, under)
    PROVE  StackOK(stack', deps, cache)
<1>1. StackOK(under, deps, cache)
    BY StackTop DEF GraphInv
<1>2. f.mode = "run" => RunFree(under, f.node)
    BY NotComputing DEF Push
<1> QED BY <1>1, <1>2, StackPushed DEF Push

\* One dependency confirmed, pulled, or found changed.
LEMMA CheckStepKeeps == GraphInv /\ CheckStep => GraphInv'
<1> SUFFICES ASSUME GraphInv, CheckStep PROVE GraphInv'
    OBVIOUS
<1> DEFINE n == Top.node
           d == deps[n][Top.pos + 1]
<1>1. /\ stack # <<>> /\ Top.mode = "check"
      /\ UNCHANGED <<shape, val, clock, changedAt, cache, async, deps, owners, scheduled, boxes, settling>>
    BY DEF CheckStep
<1>2. /\ Top \in Frames /\ FrameOK(Top, deps, cache) /\ StackOK(Below, deps, cache)
    BY <1>1, StackTop DEF GraphInv
<1>3. n \in Evaluated /\ cache[n] # None
    BY <1>1, <1>2 DEF Frames, FrameOK
<1>4. BoxesOK' /\ SettlingOK' /\ OwnersOK'
    BY <1>1 DEF GraphInv, BoxesOK, boxes, SettlingOK, OwnersOK, FlagsOK, owners
<1>5. ASSUME mark' = [mark EXCEPT ![n] = "clean"], validAt' = [validAt EXCEPT ![n] = clock], stack' = Below
      PROVE  GraphInv'
    <2>1. ClocksOK'
        <3>1. ClocksOK
            BY DEF GraphInv
        <3>2. validAt' \in [Evaluated -> 0..clock]
            <4>1. clock \in 0..clock /\ validAt \in [Evaluated -> 0..clock]
                BY <3>1 DEF ClocksOK
            <4> QED BY <1>5, <4>1
        <3>3. UNCHANGED <<shape, val, clock, changedAt>>
            BY <1>1
        <3> QED BY <3>1, <3>2, <3>3 DEF ClocksOK
    <2>2. NodesOK'
        BY <1>1, <1>3, <1>5 DEF GraphInv, NodesOK, Serving, Marks, Evaluated
    <2>3. StackOK(stack, deps, cache)'
        BY <1>1, <1>2, <1>5
    <2> QED BY <1>4, <2>1, <2>2, <2>3 DEF GraphInv
<1>6. ASSUME UNCHANGED <<mark, validAt>>, StackOK(stack', deps, cache) PROVE GraphInv'
    <2>1. ClocksOK' /\ NodesOK'
        BY <1>1, <1>6 DEF GraphInv, ClocksOK, NodesOK
    <2> QED BY <1>1, <1>4, <1>6, <2>1 DEF GraphInv
<1>7. CASE NeedsPull(d) /\ Push(Entered(d), stack) /\ UNCHANGED <<mark, validAt>>
    <2>1. d \in Evaluated
        BY <1>7 DEF NeedsPull, Evaluated
    <2>2. StackOK(stack', deps, cache)
        BY <1>1, <1>7, <2>1, EnteredFrame, PushKeeps
    <2> QED BY <1>6, <1>7, <2>2
<1>8. CASE Push(Frame(n, "run"), Below) /\ UNCHANGED <<mark, validAt>>
    <2>1. StackOK(stack', deps, cache)
        BY <1>1, <1>3, <1>8, EnteredFrame, PushKeeps
    <2> QED BY <1>6, <1>8, <2>1
<1>9. CASE stack' = <<[Top EXCEPT !.pos = @ + 1]>> \o Below /\ UNCHANGED <<mark, validAt>>
    <2> DEFINE f == [Top EXCEPT !.pos = @ + 1]
    <2>1. f \in Frames /\ f.mode = "check" /\ f.node = n
        BY <1>1, <1>2 DEF Frames
    <2>2. FrameOK(f, deps, cache)
        <3> HIDE DEF f
        <3> QED BY <1>3, <2>1 DEF FrameOK
    <2>3. StackOK(stack', deps, cache)
        <3> HIDE DEF f
        <3>1. stack' = <<f>> \o Below
            BY <1>9 DEF f
        <3>2. f.mode # "run"
            BY <2>1
        <3> QED BY <1>2, <2>1, <2>2, <3>1, <3>2, StackPushed
    <2> QED BY <1>6, <1>9, <2>3
<1> QED BY <1>5, <1>7, <1>8, <1>9 DEF CheckStep

\* The top frame is one of the graph's, and its body does what bodies do.
LEMMA RunningFrame ==
    ASSUME BodiesAreWellTyped, GraphInv, NEW op, Running(op)
    PROVE  /\ stack # <<>> /\ Top.mode = "run" /\ Instruction.op = op /\ WellTyped(Instruction)
           /\ Top \in Frames /\ Top.node \in Evaluated /\ Top.pos <= Len(deps[Top.node])
           /\ StackOK(Below, deps, cache) /\ RunFree(Below, Top.node)
           /\ Spot(Untouched(Top)) /\ \A d \in Producers : Spot(Tracked(Top, d))
<1>1. stack # <<>> /\ Top.mode = "run" /\ Instruction.op = op
    BY DEF Running
<1>2. Top \in Frames /\ FrameOK(Top, deps, cache) /\ StackOK(Below, deps, cache) /\ RunFree(Below, Top.node)
    BY <1>1, StackTop DEF GraphInv
<1>3. Top.node \in Evaluated /\ Top.pos <= Len(deps[Top.node]) /\ Top.seen \in Seq(Values)
    BY <1>1, <1>2 DEF Frames, FrameOK
<1>4. WellTyped(Instruction)
    BY <1>3 DEF Instruction, BodiesAreWellTyped, GraphInv, ClocksOK
<1>5. deps \in Graphs
    BY DEF GraphInv, NodesOK
<1>6. \A d \in Producers : Spot(Tracked(Top, d)) /\ Spot(Untouched(Top))
    BY <1>2, <1>3, <1>5, TrackedSpot
<1>7. Spot(Untouched(Top))
    BY <1>2, <1>3, <1>5 DEF Spot, Untouched, Graphs, Frames
<1> QED BY <1>1, <1>2, <1>3, <1>4, <1>6, <1>7

\* What most steps of a body leave in place.
LEMMA QuietIsSteady == Quiet => Steady
BY DEF Quiet, Steady

\* A body reads an atom, ...
LEMMA ReadAtomKeeps == BodiesAreWellTyped /\ GraphInv /\ ReadAtom => GraphInv'
<1> SUFFICES ASSUME BodiesAreWellTyped, GraphInv, ReadAtom PROVE GraphInv'
    OBVIOUS
<1>1. Running("read") /\ Instruction.of \in Atoms /\ Steady
      /\ Continue(Top, Tracked(Top, Instruction.of), val[Instruction.of])
    BY QuietIsSteady DEF ReadAtom
<1>2. val[Instruction.of] \in Values /\ Instruction.of \in Producers
    BY <1>1 DEF GraphInv, ClocksOK, Producers
<1> QED BY <1>1, <1>2, RunningFrame, ContinueKeeps

\* ... calls a computed that is not fresh, ...
LEMMA PullDependencyKeeps == BodiesAreWellTyped /\ GraphInv /\ PullDependency => GraphInv'
<1> SUFFICES ASSUME BodiesAreWellTyped, GraphInv, PullDependency PROVE GraphInv'
    OBVIOUS
<1> DEFINE d == Instruction.of
<1>1. /\ Running("read") /\ NeedsPull(d) /\ Push(Entered(d), stack)
      /\ UNCHANGED <<shape, val, clock, scheduled, settling, nodes, owners, boxes>>
    BY DEF PullDependency, Quiet
<1>2. d \in Evaluated
    BY <1>1 DEF NeedsPull, Evaluated
<1>3. StackOK(stack', deps, cache)
    BY <1>1, <1>2, RunningFrame, EnteredFrame, PushKeeps
<1>4. (ClocksOK /\ NodesOK /\ OwnersOK /\ BoxesOK /\ SettlingOK)'
    BY <1>1 DEF GraphInv, ClocksOK, NodesOK, OwnersOK, BoxesOK, SettlingOK, FlagsOK, nodes, owners, boxes
<1> QED BY <1>1, <1>3, <1>4 DEF GraphInv, nodes

\* ... goes on with what a fresh one has, ...
LEMMA ReadComputedKeeps == BodiesAreWellTyped /\ GraphInv /\ ReadComputed => GraphInv'
<1> SUFFICES ASSUME BodiesAreWellTyped, GraphInv, ReadComputed PROVE GraphInv'
    OBVIOUS
<1> DEFINE d == Instruction.of
           at == Tracked(Top, d)
<1>1. /\ Running("read") /\ d \in Computeds /\ IsFresh(d) /\ Steady
      /\ \/ async[d].kind = "plain" /\ Continue(Top, at, cache[d])
         \/ async[d].kind = "error" /\ Threw(Top, at, Below, async[d].of)
         \/ async[d].kind = "suspended" /\ Parked(Top, at, async[d].of)
         \/ async[d].kind = "suspended" /\ cache[d] # None /\ Continue(Top, at, cache[d])
         \/ async[d].kind = "suspended" /\ Threw(Top, at, Below, async[d].of)
    BY QuietIsSteady DEF ReadComputed
<1>2. d \in Producers /\ d \in Evaluated /\ mark[d] = "clean"
    BY <1>1 DEF Producers, Evaluated, IsFresh
<1>3. /\ stack # <<>> /\ Top.mode = "run" /\ Top.node \in Evaluated /\ Spot(at)
      /\ StackOK(Below, deps, cache) /\ RunFree(Below, Top.node)
    BY <1>1, <1>2, RunningFrame
<1>4. cache[d] \in Values \cup {None}
    BY <1>2 DEF GraphInv, NodesOK
<1>5. async[d].kind = "plain" => async[d] = Plain
    BY <1>2 DEF GraphInv, NodesOK, AsyncOK, Suspended
<1>6. async[d].kind = "suspended" => async[d].of \in Suspensions
    BY <1>2 DEF GraphInv, NodesOK, AsyncOK, Suspended, Plain
<1> HIDE DEF at, d
<1>7. CASE async[d].kind = "plain" /\ Continue(Top, at, cache[d])
    <2>1. cache[d] \in Values
        BY <1>1, <1>2, <1>4, <1>5, <1>7 DEF GraphInv, NodesOK, Serving
    <2> QED BY <1>1, <1>3, <1>7, <2>1, ContinueKeeps
<1>8. CASE Threw(Top, at, Below, async[d].of)
    BY <1>1, <1>3, <1>8, ThrewKeeps
<1>9. CASE async[d].kind = "suspended" /\ Parked(Top, at, async[d].of)
    <2>1. async[d].of \in Promises /\ async[d].of \notin Thenables
        BY <1>6, <1>9, KindsAssumption DEF Promises
    <2> QED BY <1>1, <1>3, <1>9, <2>1, ParkedKeeps
<1>10. CASE cache[d] # None /\ Continue(Top, at, cache[d])
    <2>1. cache[d] \in Values
        BY <1>4, <1>10
    <2> QED BY <1>1, <1>3, <1>10, <2>1, ContinueKeeps
<1> QED BY <1>1, <1>7, <1>8, <1>9, <1>10

\* ... unwraps a thenable, ...
LEMMA UseThenableKeeps == BodiesAreWellTyped /\ GraphInv /\ UseThenable => GraphInv'
<1> SUFFICES ASSUME BodiesAreWellTyped, GraphInv, UseThenable PROVE GraphInv'
    OBVIOUS
<1> DEFINE t == Instruction.of
<1>1. /\ Running("use") /\ Steady
      /\ \/ status[t] \in {"unseen", "pending"} /\ Parked(Top, Untouched(Top), t)
         \/ status[t] = "fulfilled" /\ Continue(Top, Untouched(Top), result[t])
         \/ status[t] = "rejected" /\ Threw(Top, Untouched(Top), Below, Rejection)
    BY QuietIsSteady DEF UseThenable
<1>2. t \in Thenables
    BY <1>1, RunningFrame DEF WellTyped
<1>3. t \in Promises /\ (status[t] = "fulfilled" => result[t] \in Values)
    BY <1>2 DEF GraphInv, BoxesOK, Promises
<1> HIDE DEF t
<1>4. /\ stack # <<>> /\ Top.mode = "run" /\ Top.node \in Evaluated /\ Spot(Untouched(Top))
      /\ StackOK(Below, deps, cache) /\ RunFree(Below, Top.node)
    BY <1>1, RunningFrame
<1>5. CASE status[t] \in {"unseen", "pending"} /\ Parked(Top, Untouched(Top), t)
    <2>1. status[t] # "fulfilled"
        BY <1>5
    <2> QED BY <1>1, <1>3, <1>4, <1>5, <2>1, ParkedKeeps
<1>6. CASE status[t] = "fulfilled" /\ Continue(Top, Untouched(Top), result[t])
    BY <1>1, <1>3, <1>4, <1>6, ContinueKeeps
<1>7. CASE Threw(Top, Untouched(Top), Below, Rejection)
    BY <1>1, <1>4, <1>7, ThrewKeeps
<1> QED BY <1>1, <1>5, <1>6, <1>7

\* ... ends.
LEMMA ReturnKeeps == BodiesAreWellTyped /\ GraphInv /\ Return => GraphInv'
<1> SUFFICES ASSUME BodiesAreWellTyped, GraphInv, Return PROVE GraphInv'
    OBVIOUS
<1>1. Steady
    BY QuietIsSteady DEF Return
<1>2. CASE Running("done") /\ Settled(Top, Untouched(Top), Instruction.of)
    <2>1. Instruction.of \in Values
        BY <1>2, RunningFrame DEF WellTyped
    <2> QED BY <1>1, <1>2, <2>1, RunningFrame, SettledKeeps
<1>3. CASE Running("throw") /\ Threw(Top, Untouched(Top), Below, Instruction.of)
    BY <1>1, <1>3, RunningFrame, ThrewKeeps
<1> QED BY <1>2, <1>3 DEF Return

\* A node pulled while it is evaluated: the evaluation on top throws, and the
\* validations above it are given up.
LEMMA ThrowCycleKeeps == GraphInv /\ ThrowCycle => GraphInv'
<1> SUFFICES ASSUME GraphInv, ThrowCycle PROVE GraphInv'
    OBVIOUS
<1> DEFINE runs == {i \in DOMAIN stack : stack[i].mode = "run"}
           i == CHOOSE j \in runs : \A k \in runs : j <= k
<1>1. /\ Steady
      /\ IF runs = {}
         THEN stack' = <<>> /\ UNCHANGED <<nodes, owners, boxes>>
         ELSE Threw(stack[i], Untouched(stack[i]), SubSeq(stack, i + 1, Len(stack)), Cycle)
    BY QuietIsSteady DEF ThrowCycle
<1>2. CASE runs = {}
    <2>1. (ClocksOK /\ NodesOK /\ OwnersOK /\ BoxesOK /\ SettlingOK)'
        BY <1>1, <1>2 DEF GraphInv, ClocksOK, NodesOK, OwnersOK, BoxesOK, SettlingOK, FlagsOK,
                          nodes, owners, boxes, Steady
    <2>2. StackOK(stack', deps', cache')
        BY <1>1, <1>2 DEF StackOK, RunsApart
    <2> QED BY <2>1, <2>2 DEF GraphInv
<1>3. CASE runs # {}
    <2>1. runs \in SUBSET Nat
        BY LenProperties DEF GraphInv, StackOK
    <2>2. i \in runs
        <3> HIDE DEF runs
        <3>1. \E j \in runs : \A k \in runs : j <= k
            BY <1>3, <2>1, LeastNatural
        <3> QED BY <3>1
    <2> HIDE DEF i
    <2> DEFINE f == stack[i]
               under == SubSeq(stack, i + 1, Len(stack))
    <2>3. f \in Frames /\ FrameOK(f, deps, cache) /\ StackOK(under, deps, cache) /\ RunFree(under, f.node)
        BY <2>2, StackUnder DEF GraphInv
    <2>4. f.mode = "run" /\ Threw(f, Untouched(f), under, Cycle)
        BY <1>1, <1>3, <2>2
    <2> HIDE DEF f, under, runs
    <2>5. f.node \in Evaluated /\ f.pos \in Nat /\ f.pos <= Len(deps[f.node])
        BY <2>3, <2>4 DEF Frames, FrameOK
    <2>6. Spot(Untouched(f))
        BY <2>5 DEF GraphInv, NodesOK, Graphs, Spot, Untouched
    <2> QED BY <1>1, <2>3, <2>4, <2>5, <2>6, ThrewKeeps
<1> QED BY <1>2, <1>3
-----------------------------------------------------------------------------
(***************************************************************************)
(* The steps of the program, and of a settlement.                          *)
(***************************************************************************)
\* What leaves a part's variables alone leaves the part alone.
LEMMA Stays ==
    ASSUME GraphInv
    PROVE  /\ UNCHANGED <<shape, val, clock, changedAt, validAt>> => ClocksOK'
           /\ UNCHANGED <<mark, cache, async, deps>> => NodesOK'
           /\ UNCHANGED boxes => BoxesOK'
           /\ UNCHANGED <<shape, clock, settling>> => SettlingOK'
           /\ UNCHANGED <<owners, scheduled>> => OwnersOK'
           /\ UNCHANGED <<stack, deps, cache>> => StackOK(stack', deps', cache')
BY DEF GraphInv, ClocksOK, NodesOK, BoxesOK, boxes, SettlingOK, OwnersOK, owners, FlagsOK

\* A pull from outside any evaluation.
LEMMA Called ==
    ASSUME GraphInv, NEW n \in Evaluated, UNCHANGED <<deps, cache>>,
           stack' \in {<<>>, <<Entered(n)>>, <<Frame(n, "run")>>}
    PROVE  StackOK(stack', deps', cache')
<1>1. \A f \in {Entered(n), Frame(n, "run")} : StackOK(<<f>>, deps, cache) /\ StackOK(<<>>, deps, cache)
    BY EnteredFrame, StackOne
<1> QED BY <1>1

\* Whoever owns edges may change: no node becomes clean.
LEMMA OwnersMove ==
    ASSUME GraphInv, NEW ds \in Graphs, NEW lf \in [Effects -> Lifes],
           NEW tg \in [Watchers -> Producers \cup {None}], Relink(ds, lf, tg, mark, validAt),
           UNCHANGED <<shape, val, clock, changedAt, cache, async, settling, boxes>>, stack = <<>>, stack' = stack,
           scheduled' \subseteq Alive(lf) \cup {w \in Watchers : tg[w] # None}
    PROVE  GraphInv'
<1>1. ClocksOK /\ OwnersOK /\ NodesOK
    BY DEF GraphInv
<1>2. /\ mark' \in [Evaluated -> Marks]
      /\ \A m \in Evaluated : mark'[m] = "clean" => mark[m] = "clean"
      /\ validAt' \in [Evaluated -> 0..clock]
      /\ watched' \cap Effects \subseteq Alive(lf)
      /\ deps' = ds /\ life' = lf /\ target' = tg
    <2>1. mark \in [Evaluated -> Marks] /\ validAt \in [Evaluated -> 0..clock]
        BY <1>1 DEF NodesOK, ClocksOK
    <2> QED BY <1>1, <2>1, RelinkKeeps
<1>3. OwnersOK'
    BY <1>2 DEF OwnersOK, FlagsOK
<1>4. NodesOK'
    BY <1>1, <1>2 DEF NodesOK, Serving, Evaluated
<1>5. ClocksOK'
    BY <1>1, <1>2 DEF ClocksOK
<1>6. StackOK(stack', deps', cache')
    BY DEF StackOK, RunsApart
<1> QED BY <1>3, <1>4, <1>5, <1>6, Stays DEF GraphInv

\* The program's steps: a write and its wave, ...
LEMMA WriteKeeps == ASSUME GraphInv, NEW a \in Atoms, NEW v \in Values, Write(a, v) PROVE GraphInv'
<1>1. /\ clock < MaxClock(shape) /\ settling.nodes = {}
      /\ val' = [val EXCEPT ![a] = v] /\ clock' = clock + 1
      /\ changedAt' = [changedAt EXCEPT ![a] = clock + 1] /\ Wave(a, mark)
      /\ UNCHANGED <<shape, validAt, cache, async, deps, owners, stack, boxes, settling>>
    BY DEF Write, Ready
<1>2. ClocksOK /\ OwnersOK /\ NodesOK /\ SettlingOK
    BY DEF GraphInv
<1>3. ClocksOK'
    <2>1. val' \in [Atoms -> Values]
        BY <1>1, <1>2 DEF ClocksOK
    <2>2. clock' = clock + 1 /\ clock \in Nat /\ shape' = shape
        BY <1>1, <1>2 DEF ClocksOK
    <2>3. changedAt' \in [Producers -> 0..clock'] /\ validAt' \in [Evaluated -> 0..clock']
        <3>1. \A k \in 0..clock : k \in 0..clock'
            BY <2>2
        <3>2. clock + 1 \in 0..clock'
            BY <2>2
        <3>3. changedAt \in [Producers -> 0..clock] /\ validAt \in [Evaluated -> 0..clock]
            BY <1>2 DEF ClocksOK
        <3> QED BY <1>1, <3>1, <3>2, <3>3
    <2> QED BY <1>2, <2>1, <2>2, <2>3 DEF ClocksOK
<1>4. SettlingOK'
    <2>1. Cardinality({}) = 0 /\ MaxClock(shape) \in Nat
        BY <1>2, FS_EmptySet, BoundAssumption DEF ClocksOK
    <2>2. clock + 1 <= MaxClock(shape) /\ clock + 1 \in Nat
        BY <1>1, <1>2, <2>1 DEF ClocksOK
    <2>3. settling' = settling /\ settling'.nodes = {} /\ clock' = clock + 1 /\ shape' = shape
        BY <1>1
    <2>4. clock' + Cardinality(settling'.nodes) <= MaxClock(shape')
        BY <2>1, <2>2, <2>3
    <2> QED BY <1>2, <2>3, <2>4 DEF SettlingOK
<1>5. /\ mark' \in [Evaluated -> Marks]
      /\ \A n \in Evaluated : mark'[n] = "clean" => mark[n] = "clean"
      /\ scheduled' \subseteq Alive(life) \cup {w \in Watchers : target[w] # None}
    <2>1. a \in Producers /\ mark \in [Evaluated -> Marks]
        BY <1>2 DEF Producers, NodesOK
    <2> QED BY <1>1, <1>2, <2>1, WaveKeeps
<1>6. NodesOK' /\ OwnersOK'
    BY <1>1, <1>2, <1>5 DEF NodesOK, Serving, Evaluated, OwnersOK, FlagsOK, owners
<1> QED BY <1>1, <1>3, <1>4, <1>6, Stays DEF GraphInv

\* ... a read from outside, ...
LEMMA ReadKeeps == ASSUME GraphInv, NEW n \in Computeds, Read(n) PROVE GraphInv'
<1>1. n \in Evaluated
    BY DEF Evaluated
<1>2. StackOK(stack', deps', cache')
    BY <1>1, Called DEF Read, nodes
<1> QED BY <1>2, Stays DEF Read, nodes, GraphInv

\* ... a subscription, ...
LEMMA SubscribeKeeps ==
    ASSUME GraphInv, NEW w \in Watchers, NEW n \in Watchable, Subscribe(w, n) PROVE GraphInv'
<1> DEFINE tg == [target EXCEPT ![w] = n]
<1>1. /\ Relink(deps, life, tg, mark, validAt) /\ stack = <<>>
      /\ scheduled' \subseteq scheduled \cup {w}
      /\ UNCHANGED <<shape, val, clock, changedAt, cache, async, stack, boxes, settling>>
    BY DEF Subscribe, Ready
<1>2. deps \in Graphs /\ OwnersOK
    BY DEF GraphInv, NodesOK
<1>3. tg \in [Watchers -> Producers \cup {None}] /\ tg[w] # None
    BY <1>2, ValuesAssumption DEF OwnersOK
<1>4. scheduled' \subseteq Alive(life) \cup {x \in Watchers : tg[x] # None}
    BY <1>1, <1>2, <1>3 DEF OwnersOK, FlagsOK
<1> HIDE DEF tg
<1> QED BY <1>1, <1>2, <1>3, <1>4, OwnersMove DEF OwnersOK

\* ... its end, ...
LEMMA UnsubscribeKeeps == ASSUME GraphInv, NEW w \in Watchers, Unsubscribe(w) PROVE GraphInv'
<1> DEFINE tg == [target EXCEPT ![w] = None]
<1>1. /\ Relink(deps, life, tg, mark, validAt) /\ stack = <<>>
      /\ scheduled' = scheduled \ {w}
      /\ UNCHANGED <<shape, val, clock, changedAt, cache, async, stack, boxes, settling>>
    BY DEF Unsubscribe, Ready
<1>2. deps \in Graphs /\ OwnersOK
    BY DEF GraphInv, NodesOK
<1>3. tg \in [Watchers -> Producers \cup {None}]
    BY <1>2 DEF OwnersOK
<1>4. scheduled' \subseteq Alive(life) \cup {x \in Watchers : tg[x] # None}
    BY <1>1, <1>2 DEF OwnersOK, FlagsOK
<1> HIDE DEF tg
<1> QED BY <1>1, <1>2, <1>3, <1>4, OwnersMove DEF OwnersOK

\* Also an effect that is disposed keeps the graph in order.
LEMMA DisposedKeeps ==
    ASSUME GraphInv, NEW e, Disposed(e), stack = <<>>,
           UNCHANGED <<shape, val, clock, changedAt, cache, async, stack, boxes, settling>>
    PROVE  GraphInv'
<1> DEFINE ds == [deps EXCEPT ![e] = <<>>]
           lf == [life EXCEPT ![e] = "disposed"]
<1>1. Relink(ds, lf, target, mark, validAt) /\ scheduled' = scheduled \ {e}
    BY DEF Disposed
<1>2. deps \in Graphs /\ OwnersOK
    BY DEF GraphInv, NodesOK
<1>3. ds \in Graphs
    <2>1. <<>> \in Seq(Producers)
        OBVIOUS
    <2> QED BY <1>2, <2>1 DEF Graphs
<1>4. lf \in [Effects -> Lifes] /\ target \in [Watchers -> Producers \cup {None}]
    BY <1>2 DEF OwnersOK, Lifes
<1>5. scheduled' \subseteq Alive(lf) \cup {x \in Watchers : target[x] # None}
    BY <1>1, <1>2 DEF OwnersOK, FlagsOK, Alive
<1> HIDE DEF ds, lf
<1> QED BY <1>1, <1>3, <1>4, <1>5, OwnersMove

\* ... an effect that is made, disposed or drained, ...
LEMMA EffectKeeps ==
    ASSUME GraphInv, NEW e \in Effects, CreateEffect(e) \/ DisposeEffect(e) \/ Drain(e) PROVE GraphInv'
<1>0. e \in Evaluated
    BY DEF Evaluated
<1>1. CASE CreateEffect(e)
    <2>1. StackOK(stack', deps', cache')
        BY <1>0, <1>1, Called DEF CreateEffect, nodes
    <2>2. OwnersOK'
        <3>1. OwnersOK
            BY DEF GraphInv
        <3>2. life' = [life EXCEPT ![e] = "alive"] /\ watched' = watched \cup {e} /\ UNCHANGED <<target, scheduled>>
            BY <1>1 DEF CreateEffect
        <3>3. Alive(life') = Alive(life) \cup {e}
            BY <3>1, <3>2 DEF OwnersOK, Alive
        <3> QED BY <3>1, <3>2, <3>3 DEF OwnersOK, FlagsOK, Lifes
    <2> QED BY <1>1, <2>1, <2>2, Stays DEF CreateEffect, nodes, GraphInv
<1>2. CASE DisposeEffect(e)
    BY <1>2, DisposedKeeps DEF DisposeEffect, Ready
<1>3. CASE Drain(e)
    <2>1. StackOK(stack', deps', cache')
        BY <1>0, <1>3, Called DEF Drain, nodes
    <2>2. OwnersOK'
        BY <1>3 DEF Drain, GraphInv, OwnersOK, FlagsOK, owners
    <2> QED BY <1>3, <2>1, <2>2, Stays DEF Drain, nodes, GraphInv
<1> QED BY <1>1, <1>2, <1>3

\* ... a subscription that is told, ...
LEMMA NotifyKeeps == ASSUME GraphInv, NEW w \in Watchers, Notify(w) PROVE GraphInv'
<1>1. /\ UNCHANGED <<shape, val, clock, nodes, owners, boxes, settling>>
      /\ scheduled' = scheduled \ {w} /\ w \in scheduled
      /\ stack' = IF target[w] \in Atoms \/ IsFresh(target[w]) THEN <<>> ELSE <<Entered(target[w])>>
    BY DEF Notify
<1>2. OwnersOK
    BY DEF GraphInv
<1>3. target[w] \in Producers
    BY <1>1, <1>2, KindsAssumption DEF OwnersOK, FlagsOK, Alive, Sinks, Evaluated
<1>4. StackOK(stack', deps', cache')
    <2>1. CASE target[w] \in Atoms
        BY <1>1, <2>1, StackOne DEF nodes, StackOK, RunsApart
    <2>2. CASE target[w] \notin Atoms
        <3>1. target[w] \in Evaluated
            BY <1>3, <2>2 DEF Producers, Evaluated
        <3> QED BY <1>1, <3>1, Called DEF nodes
    <2> QED BY <2>1, <2>2
<1>5. OwnersOK'
    BY <1>1, <1>2 DEF OwnersOK, FlagsOK, owners
<1> QED BY <1>1, <1>4, <1>5, Stays DEF nodes, GraphInv

\* ... and what follows a pull.
LEMMA EndKeeps == ASSUME GraphInv, End PROVE GraphInv'
<1>1. CASE EndRead
    BY <1>1, Stays DEF EndRead, nodes, GraphInv
<1>2. CASE EndNotify
    BY <1>2, Stays DEF EndNotify, nodes, GraphInv
<1>3. CASE EndCreate
    <2>1. CASE Disposed(task.of)
        BY <1>3, <2>1, DisposedKeeps DEF EndCreate, Ended
    <2>2. CASE UNCHANGED <<mark, validAt, deps, owners, scheduled>>
        BY <1>3, <2>2, Stays DEF EndCreate, GraphInv
    <2> QED BY <1>3, <2>1, <2>2 DEF EndCreate
<1>4. CASE EndDrain
    <2>1. UNCHANGED <<shape, val, clock, changedAt, validAt, cache, async, deps, owners, stack, boxes, settling>>
        BY <1>4 DEF EndDrain
    <2>2. CASE Preempt
        <3>1. OwnersOK /\ NodesOK
            BY DEF GraphInv
        <3>2. scheduled \cap Computeds = {}
            BY <3>1, KindsAssumption DEF OwnersOK, FlagsOK, Alive, Sinks
        <3>3. NodesOK'
            BY <2>1, <2>2, <3>1, <3>2 DEF Preempt, NodesOK, Serving, Marks, Evaluated
        <3>4. OwnersOK'
            BY <2>1, <2>2, <3>1 DEF Preempt, OwnersOK, FlagsOK, owners
        <3> QED BY <2>1, <3>3, <3>4, Stays DEF GraphInv
    <2>3. CASE UNCHANGED <<mark, scheduled>>
        BY <2>1, <2>3, Stays DEF GraphInv
    <2> QED BY <1>4, <2>2, <2>3 DEF EndDrain
<1> QED BY <1>1, <1>2, <1>3, <1>4 DEF End

\* A thenable settles: the clock has a reading for each node parked on it.
LEMMA SettleKeeps ==
    ASSUME GraphInv, NEW p \in Promises, NEW how \in {"fulfilled", "rejected"}, NEW v \in Fulfilments,
           Settle(p, how, v)
    PROVE  GraphInv'
<1>1. /\ clock + 1 + Cardinality(parkedNodes[p]) <= MaxClock(shape)
      /\ status' = [status EXCEPT ![p] = how]
      /\ result' = IF p \in Thenables /\ how = "fulfilled" THEN [result EXCEPT ![p] = v] ELSE result
      /\ clock' = clock + 1
      /\ settling' = [nodes |-> parkedNodes[p], suspensions |-> parkedSuspensions[p], on |-> TRUE]
      /\ parkedNodes' = [parkedNodes EXCEPT ![p] = {}]
      /\ parkedSuspensions' = [parkedSuspensions EXCEPT ![p] = {}]
      /\ UNCHANGED <<shape, val, nodes, owners, scheduled, stack, resolved>>
    BY DEF Settle
<1>2. ClocksOK /\ BoxesOK
    BY DEF GraphInv
<1>3. ClocksOK'
    BY <1>1, <1>2 DEF ClocksOK, nodes
<1>4. BoxesOK'
    <2>1. v \in Values
        BY ValuesAssumption
    <2>2. /\ status' \in [Promises -> Statuses] /\ result' \in [Thenables -> Values \cup {None}]
          /\ parkedNodes' \in [Promises -> SUBSET Evaluated]
          /\ parkedSuspensions' \in [Promises -> SUBSET Suspensions]
        BY <1>1, <1>2, <2>1 DEF BoxesOK, Statuses
    <2>3. ASSUME NEW t \in Thenables, status'[t] = "fulfilled" PROVE result'[t] \in Values
        BY <1>1, <1>2, <2>1, <2>3 DEF BoxesOK, Promises
    <2> QED BY <1>1, <1>2, <2>2, <2>3 DEF BoxesOK
<1>5. SettlingOK'
    <2>1. Cardinality(parkedNodes[p]) \in Nat
        BY <1>2, KindsAssumption, FS_Subset, FS_CardinalityType DEF BoxesOK
    <2> QED BY <1>1, <1>2, <2>1 DEF SettlingOK, BoxesOK, ClocksOK
<1> QED BY <1>1, <1>3, <1>4, <1>5, Stays DEF GraphInv, nodes

\* One of them is marked and evaluated, which takes a reading, ...
LEMMA SettleNodeKeeps == ASSUME GraphInv, NEW n \in Evaluated, SettleNode(n) PROVE GraphInv'
<1> DEFINE dirty == [mark EXCEPT ![n] = "dirty"]
<1>1. /\ n \in settling.nodes /\ settling' = [settling EXCEPT !.nodes = @ \ {n}]
      /\ clock' = clock + 1 /\ stack' = <<Frame(n, "run")>>
      /\ IF n \in Effects
         THEN /\ mark' = dirty
              /\ scheduled' = IF life[n] = "alive" THEN scheduled \cup {n} ELSE scheduled
              /\ UNCHANGED changedAt
         ELSE Wave(n, dirty) /\ changedAt' = [changedAt EXCEPT ![n] = clock + 1]
      /\ UNCHANGED <<shape, val, validAt, cache, async, deps, owners, boxes>>
    BY DEF SettleNode
<1>2. ClocksOK /\ OwnersOK /\ NodesOK /\ SettlingOK
    BY DEF GraphInv
<1>3. ClocksOK'
    BY <1>1, <1>2 DEF ClocksOK
<1>4. SettlingOK'
    <2>1. IsFiniteSet(settling.nodes)
        BY <1>2, KindsAssumption, FS_Subset DEF SettlingOK
    <2>2. /\ Cardinality(settling.nodes) \in Nat
          /\ Cardinality(settling.nodes \ {n}) = Cardinality(settling.nodes) - 1
        BY <1>1, <2>1, FS_CardinalityType, FS_RemoveElement
    <2>3. settling'.nodes = settling.nodes \ {n}
          /\ settling' \in [nodes : SUBSET Evaluated, suspensions : SUBSET Suspensions, on : BOOLEAN]
        BY <1>1, <1>2 DEF SettlingOK
    <2>4. clock \in Nat /\ clock' = clock + 1 /\ shape' = shape
        BY <1>1, <1>2 DEF ClocksOK
    <2>5. MaxClock(shape) \in Nat
        BY <1>2, BoundAssumption DEF ClocksOK
    <2>6. clock + 1 + (Cardinality(settling.nodes) - 1) <= MaxClock(shape)
        BY <1>2, <2>2, <2>4, <2>5 DEF SettlingOK
    <2> QED BY <2>2, <2>3, <2>4, <2>6 DEF SettlingOK
<1>5. dirty \in [Evaluated -> Marks] /\ \A m \in Evaluated : dirty[m] = "clean" => mark[m] = "clean"
    BY <1>2 DEF NodesOK, Marks
<1> HIDE DEF dirty
<1>6. /\ mark' \in [Evaluated -> Marks]
      /\ \A m \in Evaluated : mark'[m] = "clean" => mark[m] = "clean"
      /\ scheduled' \subseteq Alive(life) \cup {w \in Watchers : target[w] # None}
    <2>1. CASE n \in Effects
        BY <1>1, <1>2, <1>5, <2>1 DEF OwnersOK, FlagsOK, Alive
    <2>2. CASE n \notin Effects
        <3>1. n \in Producers
            BY <2>2 DEF Producers, Evaluated
        <3> QED BY <1>1, <1>2, <1>5, <2>2, <3>1, WaveKeeps
    <2> QED BY <2>1, <2>2
<1>7. NodesOK' /\ OwnersOK'
    BY <1>1, <1>2, <1>6 DEF NodesOK, Serving, Evaluated, OwnersOK, FlagsOK, owners
<1>8. StackOK(stack', deps', cache')
    BY <1>1, Called
<1> QED BY <1>1, <1>3, <1>4, <1>7, <1>8, Stays DEF GraphInv

\* ... until none is left.
LEMMA SettleDoneKeeps == ASSUME GraphInv, SettleDone PROVE GraphInv'
<1>1. /\ settling.nodes = {} /\ settling' = Nothing /\ resolved' = resolved \cup settling.suspensions
      /\ UNCHANGED <<shape, val, clock, nodes, owners, scheduled, stack, status, result, parkedNodes,
                     parkedSuspensions>>
    BY DEF SettleDone, Ready
<1>2. BoxesOK'
    BY <1>1 DEF GraphInv, BoxesOK, SettlingOK
<1>3. SettlingOK'
    BY <1>1 DEF GraphInv, SettlingOK, Nothing
<1> QED BY <1>1, <1>2, <1>3, Stays DEF GraphInv, nodes

\* Every step keeps the invariant.
LEMMA GraphStep == BodiesAreWellTyped /\ GraphInv /\ [Next]_vars => GraphInv'
<1> SUFFICES ASSUME BodiesAreWellTyped, GraphInv, [Next]_vars PROVE GraphInv'
    OBVIOUS
<1>1. CASE Pull
    BY <1>1, CheckStepKeeps, ReadAtomKeeps, PullDependencyKeeps, ReadComputedKeeps, UseThenableKeeps,
       ReturnKeeps, ThrowCycleKeeps DEF Pull
<1>2. CASE Program
    BY <1>2, WriteKeeps, ReadKeeps, SubscribeKeeps, UnsubscribeKeeps, NotifyKeeps, EffectKeeps DEF Program
<1>3. CASE End
    BY <1>3, EndKeeps
<1>4. CASE Settlement
    BY <1>4, SettleKeeps, SettleNodeKeeps, SettleDoneKeeps DEF Settlement
<1>5. CASE UNCHANGED vars
    BY <1>5, Stays DEF vars, nodes, GraphInv
<1> QED BY <1>1, <1>2, <1>3, <1>4, <1>5 DEF Next

\* So it always holds.
LEMMA GraphInvariant == ASSUME BodiesAreWellTyped PROVE Spec => []GraphInv
BY GraphInit, GraphStep, PTL DEF Spec

\* The graph's books are well formed in every execution of a well-typed
\* program: what is scheduled is alive, what is parked has its boxes, and the
\* clock never runs past its bound.
THEOREM TypeCorrect == ASSUME BodiesAreWellTyped PROVE Spec => []TypeOK
BY GraphInvariant, GraphTypes, PTL
-----------------------------------------------------------------------------
(***************************************************************************)
(* Who is parked is awaited.  Between the settlement of what it awaits and *)
(* its evaluation, a parked node is in the settlement's hands; while it is *)
(* evaluated, on the stack.                                                *)
(***************************************************************************)
Awaiting(n) ==
    \E p \in Promises :
        /\ status[p] = "pending"
        /\ n \in parkedNodes[p]
        /\ async[n].of \in resolved \cup parkedSuspensions[p]

Runs(st) == {st[i].node : i \in {j \in DOMAIN st : st[j].mode = "run"}}

ParkedOK ==
    \A n \in Evaluated : async[n].kind = "suspended" =>
        Awaiting(n) \/ n \in settling.nodes \/ n \in Runs(stack)

\* Who is evaluated by a frame more.
LEMMA RunsPushed ==
    ASSUME NEW st \in Seq(Frames), NEW f \in Frames
    PROVE  Runs(st) \subseteq Runs(<<f>> \o st) /\ (f.mode = "run" => f.node \in Runs(<<f>> \o st))
<1> DEFINE more == <<f>> \o st
<1>1. Len(st) \in Nat /\ DOMAIN st = 1..Len(st)
    BY LenProperties
<1>2. <<f>> \in Seq(Frames) /\ Len(<<f>>) = 1 /\ <<f>>[1] = f
    OBVIOUS
<1>3. more \in Seq(Frames) /\ Len(more) = 1 + Len(st)
      /\ \A k \in 1..(1 + Len(st)) : more[k] = IF k <= 1 THEN <<f>>[k] ELSE st[k-1]
    BY <1>1, <1>2, ConcatProperties
<1>4. DOMAIN more = 1..(1 + Len(st))
    BY <1>3, LenProperties
<1> HIDE DEF more
<1>5. /\ 1 \in DOMAIN more /\ more[1] = f
      /\ \A i \in DOMAIN st : i+1 \in DOMAIN more /\ more[i+1] = st[i]
    BY <1>1, <1>2, <1>3, <1>4
<1>6. Runs(st) \subseteq Runs(more) /\ (f.mode = "run" => f.node \in Runs(more))
    BY <1>5 DEF Runs
<1> QED BY <1>6 DEF more

\* Who is evaluated by a frame less.
LEMMA RunsTop ==
    ASSUME GraphInv, stack # <<>>
    PROVE  /\ Runs(stack) \subseteq Runs(Below) \cup {Top.node}
           /\ Top.mode = "check" => Runs(stack) \subseteq Runs(Below)
<1>1. /\ DOMAIN stack = 1..Len(stack) /\ Len(stack) \in Nat /\ Top = stack[1]
      /\ DOMAIN Below = 1..Len(Below) /\ Len(Below) = Len(stack) - 1
      /\ \A i \in 1..Len(Below) : Below[i] = stack[i+1]
    BY HeadTailProperties, LenProperties DEF GraphInv, StackOK, Top, Below
<1>2. \A i \in DOMAIN stack : (i = 1 /\ stack[i] = Top) \/ (i-1 \in DOMAIN Below /\ Below[i-1] = stack[i])
    BY <1>1
<1> QED BY <1>2 DEF Runs

\* A step that leaves the promises to whoever awaits them.
Patient == \A m \in Evaluated : async[m].kind = "suspended" /\ Awaiting(m) => Awaiting(m)'

\* Whoever touches no box lets everyone wait.
LEMMA StillPatient ==
    UNCHANGED <<status, parkedNodes, parkedSuspensions, async>> /\ resolved \subseteq resolved' => Patient
BY DEF Patient, Awaiting

\* Only n has a new outcome, and it is awaited if it is parked.
LEMMA OneOutcome ==
    ASSUME GraphInv, ParkedOK, NEW n \in Evaluated, NEW outcome, async' = [async EXCEPT ![n] = outcome],
           settling' = settling, Runs(stack) \subseteq Runs(stack') \cup {n},
           \A m \in Evaluated \ {n} : async[m].kind = "suspended" /\ Awaiting(m) => Awaiting(m)',
           outcome.kind = "suspended" => Awaiting(n)'
    PROVE  ParkedOK'
<1>1. async'[n] = outcome /\ \A m \in Evaluated \ {n} : async'[m] = async[m]
    BY DEF GraphInv, NodesOK, AsyncOK
<1>2. ASSUME NEW m \in Evaluated, async'[m].kind = "suspended"
      PROVE  Awaiting(m)' \/ m \in settling'.nodes \/ m \in Runs(stack')
    <2>1. CASE m = n
        BY <1>1, <1>2, <2>1
    <2>2. CASE m # n
        BY <1>1, <1>2, <2>2 DEF ParkedOK
    <2> QED BY <2>1, <2>2
<1> QED BY <1>2 DEF ParkedOK

\* No outcome is new.
LEMMA NoOutcome ==
    ASSUME ParkedOK, Patient, async' = async,
           settling.nodes \subseteq settling'.nodes \cup Runs(stack'), Runs(stack) \subseteq Runs(stack')
    PROVE  ParkedOK'
BY DEF ParkedOK, Patient

\* The evaluation of a frame that ends in a value or a throw.
LEMMA SettledParks ==
    ASSUME GraphInv, ParkedOK, NEW f, f.node \in Evaluated, NEW at, NEW under, NEW value, NEW outcome, NEW changed,
           Finish(f, at, under, value, outcome, changed), outcome.kind # "suspended", EndSpan(f.node),
           UNCHANGED <<status, parkedNodes, parkedSuspensions, settling>>,
           Runs(stack) \subseteq Runs(under) \cup {f.node}
    PROVE  ParkedOK'
<1>1. async' = [async EXCEPT ![f.node] = outcome] /\ stack' = under
    BY DEF Finish
<1>2. resolved \subseteq resolved'
    BY DEF EndSpan
<1>3. \A m \in Evaluated \ {f.node} : async[m].kind = "suspended" /\ Awaiting(m) => Awaiting(m)'
    BY <1>1, <1>2 DEF Awaiting, GraphInv, NodesOK, AsyncOK
<1> QED BY <1>1, <1>3, OneOutcome

\* One that parks.
LEMMA ParkedParks ==
    ASSUME GraphInv, ParkedOK, Steady, stack # <<>>, Top.mode = "run", NEW at, NEW p \in Promises, Parked(Top, at, p)
    PROVE  ParkedOK'
<1>n. PICK n : n = Top.node
    OBVIOUS
<1>s. PICK s : s = SpanOf(n)
    OBVIOUS
<1> DEFINE again == async[n] = Suspended(s)
<1>1. /\ async' = [async EXCEPT ![n] = Suspended(s)] /\ stack' = Below
      /\ InSpan(n) \/ \E u \in Suspensions : Unreferenced(u)
      /\ resolved' = IF again THEN resolved ELSE resolved \ {s}
      /\ status' = [q \in Promises |->
                        IF q = p THEN "pending"
                        ELSE IF q = s /\ ~again THEN "unseen" ELSE status[q]]
      /\ parkedNodes' = [parkedNodes EXCEPT ![p] = @ \cup {n}]
      /\ parkedSuspensions' = [parkedSuspensions EXCEPT ![p] = @ \cup {s}]
    BY <1>n, <1>s DEF Parked, Finish
<1>2. n \in Evaluated
    BY <1>n, StackTop DEF GraphInv, Frames
<1>3. (InSpan(n) => again) /\ (~InSpan(n) => Unreferenced(s))
    BY <1>1, <1>2, <1>s, SpanIsFree
<1>4. Runs(stack) \subseteq Runs(stack') \cup {n}
    BY <1>1, <1>n, RunsTop
<1>5. BoxesOK
    BY DEF GraphInv
<1>6. ~again => \A m \in Evaluated : async[m].of # s
    BY <1>3 DEF Unreferenced
<1>7. ~again => parkedNodes[s] = {}
    BY <1>3 DEF Unreferenced
<1>9. async'[n] = Suspended(s) /\ \A m \in Evaluated \ {n} : async'[m] = async[m]
    BY <1>1, <1>2 DEF GraphInv, NodesOK, AsyncOK
<1>10. Suspended(s).of = s
    BY DEF Suspended
<1> HIDE DEF again
<1>11. Awaiting(n)'
    <2>1. status'[p] = "pending" /\ n \in parkedNodes'[p] /\ s \in parkedSuspensions'[p]
        BY <1>1, <1>5 DEF BoxesOK
    <2> QED BY <1>9, <1>10, <2>1 DEF Awaiting
<1>12. ASSUME NEW m \in Evaluated \ {n}, Awaiting(m) PROVE Awaiting(m)'
    <2>1. PICK q \in Promises : /\ status[q] = "pending" /\ m \in parkedNodes[q]
                                /\ async[m].of \in resolved \cup parkedSuspensions[q]
        BY <1>12 DEF Awaiting
    <2>2. status'[q] = "pending"
        BY <1>1, <1>7, <2>1
    <2>3. parkedNodes[q] \subseteq parkedNodes'[q] /\ parkedSuspensions[q] \subseteq parkedSuspensions'[q]
        BY <1>1, <1>5 DEF BoxesOK
    <2>4. async[m].of \in resolved => async[m].of \in resolved'
        BY <1>1, <1>6
    <2> QED BY <1>9, <2>1, <2>2, <2>3, <2>4 DEF Awaiting
<1>13. settling' = settling
    BY DEF Steady
<1>15. async' = [async EXCEPT ![n] = Suspended(s)]
    BY <1>1
<1> QED BY <1>2, <1>4, <1>11, <1>12, <1>13, <1>15, OneOutcome

\* One that goes on.
LEMMA ContinueParks ==
    ASSUME GraphInv, ParkedOK, Steady, stack # <<>>, Top.mode = "run", NEW at, Spot(at), NEW v \in Values,
           Continue(Top, at, v)
    PROVE  ParkedOK'
<1> DEFINE f == [Top EXCEPT !.pos = at.pos, !.seen = Append(@, v)]
<1>1. stack' = <<f>> \o Below /\ UNCHANGED <<async, boxes, settling>>
    BY DEF Continue, Steady
<1>2. Top \in Frames /\ Below \in Seq(Frames)
    BY StackTop DEF GraphInv, StackOK
<1>3. f \in Frames /\ f.mode = "run" /\ f.node = Top.node
    <2>1. Append(Top.seen, v) \in Seq(Values)
        BY <1>2, AppendProperties DEF Frames
    <2> QED BY <1>2, <2>1 DEF Frames, Spot
<1> HIDE DEF f
<1>4. Runs(stack) \subseteq Runs(stack')
    BY <1>1, <1>2, <1>3, RunsTop, RunsPushed
<1> QED BY <1>1, <1>4, StillPatient, NoOutcome DEF boxes

\* One that throws.
LEMMA ThrewParks ==
    ASSUME GraphInv, ParkedOK, Steady, stack # <<>>, Top.node \in Evaluated, NEW at, NEW reason,
           Threw(Top, at, Below, reason)
    PROVE  ParkedOK'
<1>1. Failed(reason).kind # "suspended"
    BY DEF Failed
<1>2. PICK changed : Finish(Top, at, Below, cache[Top.node], Failed(reason), changed)
    BY DEF Threw
<1>3. EndSpan(Top.node) /\ UNCHANGED <<status, parkedNodes, parkedSuspensions, settling>>
    BY DEF Threw, Steady
<1> QED BY <1>1, <1>2, <1>3, RunsTop, SettledParks

\* The steps of a pull.
LEMMA PullParks == BodiesAreWellTyped /\ GraphInv /\ ParkedOK /\ Pull => ParkedOK'
<1> SUFFICES ASSUME BodiesAreWellTyped, GraphInv, ParkedOK, Pull PROVE ParkedOK'
    OBVIOUS
<1>1. CASE CheckStep
    <2>1. stack # <<>> /\ Top.mode = "check" /\ UNCHANGED <<async, boxes, settling>>
        BY <1>1 DEF CheckStep
    <2>2. /\ Top \in Frames /\ Below \in Seq(Frames) /\ stack \in Seq(Frames) /\ Runs(stack) \subseteq Runs(Below)
        BY <2>1, StackTop, RunsTop DEF GraphInv, StackOK
    <2> DEFINE d == deps[Top.node][Top.pos + 1]
               g == [Top EXCEPT !.pos = @ + 1]
    <2>3. \/ stack' = Below
          \/ NeedsPull(d) /\ stack' = <<Entered(d)>> \o stack
          \/ stack' = <<Frame(Top.node, "run")>> \o Below
          \/ stack' = <<g>> \o Below
        BY <1>1 DEF CheckStep, Push
    <2>4. NeedsPull(d) => Entered(d) \in Frames
        BY EnteredFrame DEF NeedsPull, Evaluated
    <2>5. Frame(Top.node, "run") \in Frames /\ g \in Frames
        <3>1. Frame(Top.node, "run") \in Frames
            <4>1. Top.node \in Evaluated
                BY <2>2 DEF Frames
            <4> QED BY <4>1, EnteredFrame
        <3>2. g \in Frames
            <4>1. Top \in Frames
                BY <2>2
            <4> QED BY <4>1 DEF Frames
        <3> QED BY <3>1, <3>2
    <2> HIDE DEF d, g
    <2>6. Runs(stack) \subseteq Runs(stack')
        BY <2>2, <2>3, <2>4, <2>5, RunsPushed
    <2> QED BY <2>1, <2>6, StillPatient, NoOutcome DEF boxes
<1>2. CASE ReadAtom
    <2>1. Running("read") /\ Steady /\ Continue(Top, Tracked(Top, Instruction.of), val[Instruction.of])
        BY <1>2, QuietIsSteady DEF ReadAtom
    <2>2. val[Instruction.of] \in Values /\ Instruction.of \in Producers
        BY <1>2 DEF ReadAtom, GraphInv, ClocksOK, Producers
    <2> QED BY <2>1, <2>2, RunningFrame, ContinueParks
<1>3. CASE PullDependency
    <2>1. /\ NeedsPull(Instruction.of) /\ stack' = <<Entered(Instruction.of)>> \o stack
          /\ UNCHANGED <<async, boxes, settling>>
        BY <1>3 DEF PullDependency, Push, Quiet, nodes
    <2>2. Entered(Instruction.of) \in Frames /\ stack \in Seq(Frames)
        BY <2>1, EnteredFrame DEF NeedsPull, Evaluated, GraphInv, StackOK
    <2>3. Runs(stack) \subseteq Runs(stack')
        BY <2>1, <2>2, RunsPushed
    <2> QED BY <2>1, <2>3, StillPatient, NoOutcome DEF boxes
<1>4. CASE ReadComputed
    <2> DEFINE d == Instruction.of
               at == Tracked(Top, d)
    <2>1. /\ Running("read") /\ d \in Computeds /\ IsFresh(d) /\ Steady
          /\ \/ async[d].kind = "plain" /\ Continue(Top, at, cache[d])
             \/ async[d].kind = "error" /\ Threw(Top, at, Below, async[d].of)
             \/ async[d].kind = "suspended" /\ Parked(Top, at, async[d].of)
             \/ async[d].kind = "suspended" /\ cache[d] # None /\ Continue(Top, at, cache[d])
             \/ async[d].kind = "suspended" /\ Threw(Top, at, Below, async[d].of)
        BY <1>4, QuietIsSteady DEF ReadComputed
    <2>2. d \in Producers /\ d \in Evaluated /\ mark[d] = "clean"
        BY <2>1 DEF Producers, Evaluated, IsFresh
    <2>3. stack # <<>> /\ Top.mode = "run" /\ Top.node \in Evaluated /\ Spot(at)
        BY <2>1, <2>2, RunningFrame
    <2>4. /\ cache[d] \in Values \cup {None}
          /\ async[d].kind = "plain" => cache[d] # None
          /\ async[d].kind = "suspended" => async[d].of \in Promises
        BY <2>1, <2>2 DEF GraphInv, NodesOK, AsyncOK, Serving, Plain, Suspended, Promises
    <2> HIDE DEF at, d
    <2>5. CASE cache[d] # None /\ Continue(Top, at, cache[d])
        <3>1. cache[d] \in Values
            BY <2>4, <2>5
        <3> QED BY <2>1, <2>3, <2>5, <3>1, ContinueParks
    <2>6. CASE Threw(Top, at, Below, async[d].of)
        BY <2>1, <2>3, <2>6, ThrewParks
    <2>7. CASE async[d].kind = "suspended" /\ Parked(Top, at, async[d].of)
        BY <2>1, <2>3, <2>4, <2>7, ParkedParks
    <2> QED BY <2>1, <2>4, <2>5, <2>6, <2>7
<1>5. CASE UseThenable
    <2> DEFINE t == Instruction.of
    <2>1. /\ Running("use") /\ Steady
          /\ \/ Parked(Top, Untouched(Top), t)
             \/ status[t] = "fulfilled" /\ Continue(Top, Untouched(Top), result[t])
             \/ Threw(Top, Untouched(Top), Below, Rejection)
        BY <1>5, QuietIsSteady DEF UseThenable
    <2>2. t \in Thenables
        BY <2>1, RunningFrame DEF WellTyped
    <2>3. t \in Promises /\ (status[t] = "fulfilled" => result[t] \in Values)
        BY <2>2 DEF GraphInv, BoxesOK, Promises
    <2>4. stack # <<>> /\ Top.mode = "run" /\ Top.node \in Evaluated /\ Spot(Untouched(Top))
        BY <2>1, RunningFrame
    <2> HIDE DEF t
    <2>5. CASE Parked(Top, Untouched(Top), t)
        BY <2>1, <2>3, <2>4, <2>5, ParkedParks
    <2>6. CASE status[t] = "fulfilled" /\ Continue(Top, Untouched(Top), result[t])
        BY <2>1, <2>3, <2>4, <2>6, ContinueParks
    <2>7. CASE Threw(Top, Untouched(Top), Below, Rejection)
        BY <2>1, <2>4, <2>7, ThrewParks
    <2> QED BY <2>1, <2>5, <2>6, <2>7
<1>6. CASE Return
    <2>1. Steady
        BY <1>6, QuietIsSteady DEF Return
    <2>2. CASE Running("done") /\ Settled(Top, Untouched(Top), Instruction.of)
        <3>1. stack # <<>> /\ Top.node \in Evaluated
            BY <2>2, RunningFrame
        <3>2. PICK changed : Finish(Top, Untouched(Top), Below, Instruction.of, Plain, changed)
            BY <2>2 DEF Settled
        <3>3. EndSpan(Top.node) /\ UNCHANGED <<status, parkedNodes, parkedSuspensions, settling>>
            BY <2>1, <2>2 DEF Settled, Steady
        <3>4. Plain.kind # "suspended"
            BY DEF Plain
        <3> QED BY <3>1, <3>2, <3>3, <3>4, RunsTop, SettledParks
    <2>3. CASE Running("throw") /\ Threw(Top, Untouched(Top), Below, Instruction.of)
        BY <2>1, <2>3, RunningFrame, ThrewParks
    <2> QED BY <1>6, <2>2, <2>3 DEF Return
<1>7. CASE ThrowCycle
    <2> DEFINE runs == {i \in DOMAIN stack : stack[i].mode = "run"}
               i == CHOOSE j \in runs : \A k \in runs : j <= k
    <2>1. /\ Steady
          /\ IF runs = {}
             THEN stack' = <<>> /\ UNCHANGED <<nodes, owners, boxes>>
             ELSE Threw(stack[i], Untouched(stack[i]), SubSeq(stack, i + 1, Len(stack)), Cycle)
        BY <1>7, QuietIsSteady DEF ThrowCycle
    <2>2. CASE runs = {}
        <3>1. Runs(stack) = {}
            BY <2>2 DEF Runs
        <3>2. UNCHANGED <<async, boxes, settling>>
            BY <2>1, <2>2 DEF Steady, nodes
        <3> QED BY <3>1, <3>2, StillPatient, NoOutcome DEF boxes
    <2>3. CASE runs # {}
        <3>1. runs \in SUBSET Nat /\ DOMAIN stack = 1..Len(stack) /\ Len(stack) \in Nat
            BY LenProperties DEF GraphInv, StackOK
        <3>2. i \in runs /\ \A k \in runs : i <= k
            <4> HIDE DEF runs
            <4>1. \E j \in runs : \A k \in runs : j <= k
                BY <2>3, <3>1, LeastNatural
            <4> QED BY <4>1
        <3> HIDE DEF i
        <3> DEFINE f == stack[i]
                   under == SubSeq(stack, i + 1, Len(stack))
        <3>3. f \in Frames
            BY <3>2, StackUnder DEF GraphInv
        <3>4. Threw(f, Untouched(f), under, Cycle)
            BY <2>1, <2>3
        <3>5. Runs(stack) \subseteq Runs(under) \cup {f.node}
            <4>1. \A k \in i+1..Len(stack) : stack[k] \in Frames
                BY <3>1, <3>2, LenProperties DEF GraphInv, StackOK
            <4>2. /\ under \in Seq(Frames)
                  /\ Len(under) = IF i+1 <= Len(stack) THEN Len(stack) - (i+1) + 1 ELSE 0
                  /\ \A k \in 1..(Len(stack) - (i+1) + 1) : under[k] = stack[i+1+k-1]
                BY <3>1, <3>2, <4>1, SubSeqProperties
            <4>3. DOMAIN under = 1..Len(under)
                BY <4>2, LenProperties
            <4> HIDE DEF under
            <4>4. \A k \in DOMAIN stack : k > i => k-i \in DOMAIN under /\ under[k-i] = stack[k]
                <5> SUFFICES ASSUME NEW k \in DOMAIN stack, k > i
                             PROVE  k-i \in DOMAIN under /\ under[k-i] = stack[k]
                    OBVIOUS
                <5> HIDE DEF runs
                <5>1. i \in Nat /\ k \in Nat /\ k <= Len(stack) /\ Len(stack) \in Nat
                    BY <3>1, <3>2
                <5>2. i+1 <= Len(stack)
                    BY <5>1
                <5>3. Len(under) = Len(stack) - (i+1) + 1
                    BY <4>2, <5>2
                <5>4. k-i \in 1..(Len(stack) - (i+1) + 1) /\ i+1+(k-i)-1 = k
                    BY <5>1
                <5>5. under[k-i] = stack[i+1+(k-i)-1]
                    BY <4>2, <5>4
                <5> QED BY <4>3, <5>3, <5>4, <5>5
            <4>5. \A k \in runs : k = i \/ k > i
                BY <3>1, <3>2
            <4> QED BY <4>4, <4>5 DEF Runs
        <3> HIDE DEF f, under, runs
        <3>6. f.node \in Evaluated
            BY <3>3 DEF Frames
        <3>7. Failed(Cycle).kind # "suspended"
            BY DEF Failed
        <3>8. PICK changed : Finish(f, Untouched(f), under, cache[f.node], Failed(Cycle), changed)
            BY <3>4 DEF Threw
        <3>9. EndSpan(f.node) /\ UNCHANGED <<status, parkedNodes, parkedSuspensions, settling>>
            BY <2>1, <3>4 DEF Threw, Steady
        <3> QED BY <3>5, <3>6, <3>7, <3>8, <3>9, SettledParks
    <2> QED BY <2>2, <2>3
<1> QED BY <1>1, <1>2, <1>3, <1>4, <1>5, <1>6, <1>7 DEF Pull

\* The program's steps evaluate nothing.
LEMMA ProgramParks == GraphInv /\ ParkedOK /\ (Program \/ End) => ParkedOK'
<1> SUFFICES ASSUME GraphInv, ParkedOK, Program \/ End PROVE ParkedOK'
    OBVIOUS
<1>1. stack = <<>> /\ UNCHANGED <<async, boxes, settling>>
    BY DEF Program, End, Write, Read, Subscribe, Unsubscribe, Notify, CreateEffect, DisposeEffect, Drain,
           EndRead, EndNotify, EndCreate, EndDrain, Ready, Ended, nodes
<1>2. Runs(stack) = {}
    BY <1>1 DEF Runs
<1> QED BY <1>1, <1>2, StillPatient, NoOutcome DEF boxes

\* A settlement takes those parked on it in hand, one by one.
LEMMA SettlementParks == GraphInv /\ ParkedOK /\ Settlement => ParkedOK'
<1> SUFFICES ASSUME GraphInv, ParkedOK, Settlement PROVE ParkedOK'
    OBVIOUS
<1>0. BoxesOK
    BY DEF GraphInv
<1>1. ASSUME NEW p \in Promises, NEW how \in {"fulfilled", "rejected"}, NEW v \in Fulfilments, Settle(p, how, v)
      PROVE  ParkedOK'
    <2>1. /\ stack = <<>> /\ settling.nodes = {} /\ UNCHANGED <<async, stack, resolved>>
          /\ status' = [status EXCEPT ![p] = how]
          /\ settling'.nodes = parkedNodes[p]
          /\ parkedNodes' = [parkedNodes EXCEPT ![p] = {}]
          /\ parkedSuspensions' = [parkedSuspensions EXCEPT ![p] = {}]
        BY <1>1 DEF Settle, Ready, nodes
    <2>2. Runs(stack) = {}
        BY <2>1 DEF Runs
    <2>3. ASSUME NEW m \in Evaluated, Awaiting(m) PROVE Awaiting(m)' \/ m \in settling'.nodes
        <3>1. PICK q \in Promises : /\ status[q] = "pending" /\ m \in parkedNodes[q]
                                    /\ async[m].of \in resolved \cup parkedSuspensions[q]
            BY <2>3 DEF Awaiting
        <3>2. CASE q = p
            BY <2>1, <3>1, <3>2
        <3>3. CASE q # p
            BY <1>0, <2>1, <3>1, <3>3 DEF Awaiting, BoxesOK
        <3> QED BY <3>2, <3>3
    <2> QED BY <2>1, <2>2, <2>3 DEF ParkedOK
<1>2. ASSUME NEW n \in Evaluated, SettleNode(n) PROVE ParkedOK'
    <2>1. /\ stack = <<>> /\ UNCHANGED <<async, boxes>> /\ stack' = <<Frame(n, "run")>>
          /\ settling' = [settling EXCEPT !.nodes = @ \ {n}]
        BY <1>2 DEF SettleNode
    <2>2. settling'.nodes = settling.nodes \ {n}
        BY <2>1 DEF GraphInv, SettlingOK
    <2>3. Runs(stack) = {} /\ n \in Runs(stack')
        BY <2>1 DEF Runs, Frame
    <2> QED BY <2>1, <2>2, <2>3, StillPatient, NoOutcome DEF boxes
<1>3. CASE SettleDone
    <2>1. /\ stack = <<>> /\ settling.nodes = {} /\ resolved \subseteq resolved'
          /\ UNCHANGED <<async, status, parkedNodes, parkedSuspensions, stack>>
        BY <1>3 DEF SettleDone, Ready, nodes
    <2> QED BY <2>1, StillPatient, NoOutcome
<1> QED BY <1>1, <1>2, <1>3 DEF Settlement

\* Every step.
LEMMA ParkStep == BodiesAreWellTyped /\ GraphInv /\ ParkedOK /\ [Next]_vars => ParkedOK'
<1> SUFFICES ASSUME BodiesAreWellTyped, GraphInv, ParkedOK, [Next]_vars PROVE ParkedOK'
    OBVIOUS
<1>1. CASE Next
    BY <1>1, PullParks, ProgramParks, SettlementParks DEF Next
<1>2. CASE UNCHANGED vars
    BY <1>2, StillPatient, NoOutcome DEF vars, nodes, boxes
<1> QED BY <1>1, <1>2

\* The two invariants together.
LEMMA ParkInvariant == ASSUME BodiesAreWellTyped PROVE Spec => [](GraphInv /\ ParkedOK)
<1>1. Init => ParkedOK
    BY DEF Init, ParkedOK, Plain
<1> QED BY <1>1, GraphInit, GraphStep, ParkStep, PTL DEF Spec

\* Nothing stays parked for good: whenever the program has control, a parked
\* node is known to a promise still to settle, and the suspension it offers its
\* readers was resolved or waits for the same promise.
THEOREM ParkedNodesAreAwaited == ASSUME BodiesAreWellTyped PROVE Spec => []ParkedIsAwaited
<1>1. GraphInv /\ ParkedOK => ParkedIsAwaited
    <2> SUFFICES ASSUME GraphInv, ParkedOK, Ready, NEW n \in Evaluated, async[n].kind = "suspended"
                 PROVE  Awaiting(n)
        BY DEF ParkedIsAwaited, Awaiting
    <2>1. Runs(stack) = {} /\ settling.nodes = {}
        BY DEF Ready, Runs
    <2> QED BY <2>1 DEF ParkedOK
<1> QED BY <1>1, ParkInvariant, PTL

-----------------------------------------------------------------------------
(***************************************************************************)
(* Freshness rests on freshness.  A computed is fresh when a read would    *)
(* serve it as it is; watched nodes are closed under edges; and no step of *)
(* a pull makes a node fresh that reads one which is not.                  *)
(***************************************************************************)
\* The computeds that a read would serve as they are, under the marks mk, the
\* watched nodes wd, the watermarks va and the clock c.
FreshIn(mk, wd, va, c) == {n \in Computeds : mk[n] = "clean" /\ (n \in wd \/ va[n] = c)}
FreshOnes == FreshIn(mark, watched, validAt, clock)

\* Among the computeds of S each is supported by computeds of S only.
Supports(ds, S) == \A n \in S : Members(ds[n]) \cap Computeds \subseteq S

\* Watched is what a live owner reaches.
WatchedOK(ds, wd, lf, tg) ==
    /\ Roots(lf, tg) \subseteq wd
    /\ \A n \in wd \cap Evaluated : Members(ds[n]) \subseteq wd

\* Relinking keeps the watched nodes closed.
LEMMA RelinkWatches ==
    ASSUME WatchedOK(deps, watched, life, target), NEW ds \in Graphs, NEW lf,
           NEW tg \in [Watchers -> Producers \cup {None}], NEW mk, NEW va, Relink(ds, lf, tg, mk, va)
    PROVE  WatchedOK(ds, watched', lf, tg)
<1>1. CASE ds = deps /\ lf = life /\ tg = target
    BY <1>1 DEF Relink
<1>2. CASE ~(ds = deps /\ lf = life /\ tg = target)
    <2>1. watched' = Reached(ds, lf, tg)
        BY <1>2 DEF Relink
    <2> QED BY <2>1, ReachedCloses DEF WatchedOK
<1> QED BY <1>1, <1>2

\* What relinking does to the nodes: A was fresh before it, B is after it.
FreshMoved(ds, mk, va, A, B) ==
    /\ A \subseteq B /\ B \subseteq A \cup Gained
    /\ Gained \cap Computing = {} => Supports(ds, B)
    /\ \A n \in Computeds : n \notin A => validAt'[n] <= va[n]
    /\ \A n \in Computeds : mk[n] = "clean" /\ va[n] = clock => validAt'[n] = clock
    /\ \A n \in Evaluated : mk[n] = "dirty" => mark'[n] = "dirty"

\* What is fresh stays fresh when edges move, and only what becomes watched can
\* join it, with all that supports it.
LEMMA RelinkFresh ==
    ASSUME ClocksOK, WatchedOK(deps, watched, life, target), NEW ds \in Graphs, NEW lf,
           NEW tg \in [Watchers -> Producers \cup {None}],
           NEW mk \in [Evaluated -> Marks], NEW va \in [Evaluated -> 0..clock],
           NEW A, A = FreshIn(mk, watched, va, clock), Supports(ds, A),
           Relink(ds, lf, tg, mk, va), \A n \in Gained : va[n] = validAt[n],
           NEW B, B = FreshIn(mark', watched', validAt', clock)
    PROVE  FreshMoved(ds, mk, va, A, B)
<1>1. mark' = Promoted(ds, mk) /\ validAt' = Demoted(mk, va)
    BY DEF Relink
<1>2. \A n \in Computeds : n \in Evaluated
    BY DEF Evaluated
<1>3. clock \in Nat /\ changedAt \in [Producers -> 0..clock]
    BY DEF ClocksOK
<1>4. \A n \in Computeds : validAt'[n] = IF n \in watched \ watched'
                                         THEN IF mk[n] = "clean" THEN clock ELSE 0
                                         ELSE va[n]
    BY <1>1, <1>2 DEF Demoted
<1>5. \A n \in A : n \in Computeds /\ mk[n] = "clean" /\ (n \in watched \/ va[n] = clock)
    BY DEF FreshIn
<1>6. \A n \in A : mark'[n] = "clean"
    <2>1. ASSUME NEW n \in A \cap Gained, NEW d \in Members(ds[n])
          PROVE  ~(changedAt[d] > validAt[n]) /\ (d \in Computeds => d \in A)
        <3>1. n \notin watched /\ n \in Evaluated
            BY <1>2 DEF Gained
        <3>2. validAt[n] = clock
            BY <1>5, <3>1
        <3>3. d \in Producers
            BY <3>1 DEF Graphs, Members
        <3>4. changedAt[d] \in 0..clock
            BY <1>3, <3>3
        <3>5. ~(changedAt[d] > clock)
            BY <1>3, <3>4
        <3>6. d \in Computeds => d \in A
            BY DEF Supports
        <3> QED BY <3>2, <3>5, <3>6
    <2>2. A \in SUBSET Computeds /\ \A n \in A : mk[n] = "clean"
        BY <1>5
    <2> QED BY <1>1, <2>1, <2>2, PromotedSpares
<1>7. A \subseteq B
    BY <1>4, <1>5, <1>6 DEF FreshIn
<1>8. \A n \in Computeds : mark'[n] = "clean" => mk[n] = "clean"
    <2>1. ASSUME NEW n \in Computeds, mark'[n] = "clean" PROVE mk[n] = "clean"
        <3>1. n \in Evaluated
            BY <1>2
        <3> QED BY <1>1, <2>1, <3>1, PromotedOnly
    <2> QED BY <2>1
<1>9. B \subseteq A \cup Gained
    BY <1>4, <1>8 DEF FreshIn, Gained
<1>10. ASSUME Gained \cap Computing = {} PROVE Supports(ds, B)
    <2>1. ASSUME NEW n \in B, NEW d \in Members(ds[n]) \cap Computeds PROVE d \in B
        <3>1. CASE n \in A
            BY <1>7, <3>1 DEF Supports
        <3>2. CASE n \notin A
            <4>1. n \in Gained \ Computing /\ mark'[n] = "clean" /\ n \in Evaluated
                BY <1>2, <1>9, <1>10, <3>2 DEF FreshIn
            <4>2. Promoted(ds, mk)[d] = "clean"
                BY <1>1, <4>1, PromotedSettles
            <4>3. n \in watched'
                BY <4>1 DEF Gained
            <4>4. WatchedOK(ds, watched', lf, tg)
                BY RelinkWatches
            <4>5. d \in watched'
                BY <4>1, <4>3, <4>4 DEF WatchedOK
            <4> QED BY <1>1, <4>2, <4>5 DEF FreshIn
        <3> QED BY <3>1, <3>2
    <2> QED BY <2>1 DEF Supports
<1>11. ASSUME NEW n \in Computeds, n \notin A PROVE validAt'[n] <= va[n]
    <2>1. va[n] \in 0..clock
        BY <1>2
    <2>2. ~(n \in watched /\ mk[n] = "clean")
        BY <1>11 DEF FreshIn
    <2>3. validAt'[n] \in {0, va[n]}
        BY <1>4, <2>2
    <2> QED BY <1>3, <2>1, <2>3
<1>12. ASSUME NEW n \in Computeds, mk[n] = "clean", va[n] = clock PROVE validAt'[n] = clock
    BY <1>4, <1>12
<1>13. ASSUME NEW n \in Evaluated, mk[n] = "dirty" PROVE mark'[n] = "dirty"
    BY <1>1, <1>13, PromotedOnly
<1> QED BY <1>7, <1>9, <1>10, <1>11, <1>12, <1>13 DEF FreshMoved

\* What one node's new edges make watched was fresh, if what it reads was.
LEMMA PullGains ==
    ASSUME ClocksOK, deps \in Graphs, WatchedOK(deps, watched, life, target), Supports(deps, FreshOnes),
           target \in [Watchers -> Producers \cup {None}],
           NEW t \in Evaluated, NEW list \in Seq(Producers),
           Members(list) \cap Computeds \subseteq Members(deps[t]) \cup FreshOnes,
           NEW mk, NEW va, Relink([deps EXCEPT ![t] = list], life, target, mk, va)
    PROVE  Gained \subseteq FreshOnes
<1> DEFINE ds == [deps EXCEPT ![t] = list]
           U == watched \cup FreshOnes \cup Atoms
<1>1. ds \in Graphs /\ ds[t] = list /\ \A n \in Evaluated \ {t} : ds[n] = deps[n]
    BY DEF Graphs
<1>2. \A n \in Evaluated : Members(ds[n]) \subseteq Producers /\ Members(deps[n]) \subseteq Producers
    BY <1>1 DEF Graphs, Members
<1> HIDE DEF ds
<1>3. \A n \in FreshOnes : n \in Computeds
    BY DEF FreshOnes, FreshIn
<1>4. ASSUME NEW n \in U \cap Evaluated PROVE Members(deps[n]) \subseteq U
    <2>1. CASE n \in watched
        BY <2>1 DEF WatchedOK
    <2>2. CASE n \in FreshOnes
        BY <1>2, <2>2 DEF Supports, Producers
    <2>3. n \notin Atoms
        BY KindsAssumption
    <2> QED BY <2>1, <2>2, <2>3
<1>5. \A n \in U \cap Evaluated : Members(ds[n]) \subseteq U
    <2>1. ASSUME NEW n \in U \cap Evaluated PROVE Members(ds[n]) \subseteq U
        <3>1. CASE n = t
            BY <1>1, <1>2, <1>4, <3>1 DEF Producers
        <3>2. CASE n # t
            BY <1>1, <1>4, <3>2
        <3> QED BY <3>1, <3>2
    <2> QED BY <2>1
<1>6. CASE watched' = watched
    BY <1>6 DEF Gained
<1>7. CASE watched' # watched
    <2>1. watched' = Reached(ds, life, target)
        BY <1>7 DEF Relink, ds
    <2>2. Roots(life, target) \subseteq U
        BY DEF WatchedOK
    <2>3. watched' \subseteq U
        <3> HIDE DEF U
        <3> QED BY <1>1, <1>5, <2>1, <2>2, ReachedLeast
    <2>4. Atoms \cap Computeds = {}
        BY KindsAssumption DEF Evaluated
    <2> QED BY <2>3, <2>4 DEF Gained
<1> QED BY <1>6, <1>7

-----------------------------------------------------------------------------
(***************************************************************************)
(* What the frames of a pull know: a validation has passed what is fresh,  *)
(* and what is evaluated still has its reason.                             *)
(***************************************************************************)
\* What made n be evaluated is still to see.
Moved(n) ==
    mark[n] = "dirty" \/ cache[n] = None \/ \E d \in Members(deps[n]) : changedAt[d] > validAt[n]

\* The dependencies a frame has passed are fresh.
Passed(f) ==
    \A k \in 1..f.pos :
        k <= Len(deps[f.node]) /\ deps[f.node][k] \in Computeds => deps[f.node][k] \in FreshOnes

\* What is validated is not fresh, or was made so while its validation waited;
\* what is evaluated is not fresh, for a reason.
Owed(f) ==
    f.node \in Computeds =>
        /\ f.mode = "check" /\ f.node \in FreshOnes => validAt[f.node] = clock
        /\ f.mode = "run" => f.node \notin FreshOnes /\ Moved(f.node)

Sound(f) == Passed(f) /\ Owed(f)

\* A validation of what is evaluated below it will meet a reading that moved.
Rechecked(f) ==
    \E k \in DOMAIN deps[f.node] : k > f.pos /\ changedAt[deps[f.node][k]] > validAt[f.node]
Chained(st) ==
    \A i, j \in DOMAIN st :
        /\ i < j /\ st[i].mode = "check" /\ st[j].mode = "run"
        /\ st[i].node = st[j].node /\ st[j].node \in Computeds
        => Rechecked(st[i])

FramesSound == (\A i \in DOMAIN stack : Sound(stack[i])) /\ Chained(stack)

\* Each entry of the list new is fresh, or stood no later in old.
Shifted(old, new) ==
    \A k \in DOMAIN new : new[k] \in Computeds =>
        new[k] \in FreshOnes \/ \E j \in 1..k : j \in DOMAIN old /\ new[k] = old[j]

\* What a step of a pull does to the nodes: t alone may become fresh.
PullStep(t) ==
    /\ clock' = clock
    /\ FreshOnes \subseteq FreshOnes' /\ FreshOnes' \subseteq FreshOnes \cup {t}
    /\ t \in FreshOnes' \ FreshOnes => validAt'[t] = clock
    /\ \A n \in Computeds \ {t} : n \notin FreshOnes => validAt'[n] <= validAt[n]
    /\ \A n \in FreshOnes : validAt[n] = clock => validAt'[n] = clock
    /\ \A n \in Evaluated \ {t} :
          deps'[n] = deps[n] /\ cache'[n] = cache[n] /\ (mark[n] = "dirty" => mark'[n] = "dirty")
    /\ \A d \in Producers : changedAt[d] <= changedAt'[d]
    /\ Shifted(deps[t], deps'[t])

\* Readings that moved have moved for good while a node is not fresh.
LEMMA StillMoved ==
    ASSUME ClocksOK, ClocksOK', NEW t, PullStep(t), NEW n \in Computeds \ {t}, n \notin FreshOnes,
           NEW d \in Producers, changedAt[d] > validAt[n]
    PROVE  changedAt'[d] > validAt'[n]
<1>1. n \in Evaluated
    BY DEF Evaluated
<1>2. validAt'[n] <= validAt[n] /\ changedAt[d] <= changedAt'[d]
    BY DEF PullStep
<1>3. /\ changedAt[d] \in 0..clock /\ validAt[n] \in 0..clock
      /\ changedAt'[d] \in 0..clock' /\ validAt'[n] \in 0..clock'
    BY <1>1 DEF ClocksOK
<1>4. clock \in Nat /\ clock' \in Nat
    BY DEF ClocksOK
<1>5. changedAt[d] \in Nat /\ validAt[n] \in Nat /\ changedAt'[d] \in Nat /\ validAt'[n] \in Nat
    BY <1>3, <1>4
<1> QED BY <1>2, <1>5

\* A frame that waits under a step of a pull stays sound.
LEMMA FrameStays ==
    ASSUME ClocksOK, ClocksOK', deps \in Graphs, deps' \in Graphs, NEW t, PullStep(t),
           NEW f \in Frames, Sound(f), f.node = t /\ t \in Computeds => f.mode = "check"
    PROVE  Sound(f)'
<1>n. PICK n : n = f.node
    OBVIOUS
<1>0. n \in Evaluated /\ f.pos \in Nat
    BY <1>n DEF Frames
<1>1. clock' = clock /\ FreshOnes \subseteq FreshOnes' /\ FreshOnes' \subseteq FreshOnes \cup {t}
    BY DEF PullStep
<1>2. DOMAIN deps[n] = 1..Len(deps[n]) /\ DOMAIN deps'[n] = 1..Len(deps'[n])
    <2>1. deps[n] \in Seq(Producers) /\ deps'[n] \in Seq(Producers)
        BY <1>0 DEF Graphs
    <2> QED BY <2>1, LenProperties
<1>3. Passed(f)'
    <2> SUFFICES ASSUME NEW k \in 1..f.pos, k <= Len(deps'[n]), deps'[n][k] \in Computeds
                 PROVE  deps'[n][k] \in FreshOnes'
        BY <1>n DEF Passed
    <2>1. \A j \in 1..f.pos : j \in DOMAIN deps[n] /\ deps[n][j] \in Computeds => deps[n][j] \in FreshOnes
        BY <1>n, <1>2 DEF Sound, Passed
    <2>2. k \in DOMAIN deps'[n]
        BY <1>0, <1>2
    <2>3. CASE n # t
        <3>1. deps'[n] = deps[n]
            BY <1>0, <2>3 DEF PullStep
        <3> QED BY <1>1, <2>1, <2>2, <3>1
    <2>4. CASE n = t
        <3>1. \/ deps'[n][k] \in FreshOnes
              \/ \E j \in 1..k : j \in DOMAIN deps[n] /\ deps'[n][k] = deps[n][j]
            BY <2>2, <2>4 DEF PullStep, Shifted
        <3>2. \A j \in 1..k : j \in 1..f.pos
            BY <1>0
        <3> QED BY <1>1, <2>1, <3>1, <3>2
    <2> QED BY <2>3, <2>4
<1>4. Owed(f)'
    <2> SUFFICES ASSUME n \in Computeds
                 PROVE  /\ f.mode = "check" /\ n \in FreshOnes' => validAt'[n] = clock'
                        /\ f.mode = "run" => n \notin FreshOnes' /\ Moved(n)'
        BY <1>n DEF Owed
    <2>1. /\ f.mode = "check" /\ n \in FreshOnes => validAt[n] = clock
          /\ f.mode = "run" => n \notin FreshOnes /\ Moved(n)
        BY <1>n DEF Sound, Owed
    <2>2. f.mode = "check" /\ n \in FreshOnes' => validAt'[n] = clock'
        BY <1>1, <2>1 DEF PullStep
    <2>3. ASSUME f.mode = "run" PROVE n \notin FreshOnes' /\ Moved(n)'
        <3>1. n # t /\ n \notin FreshOnes /\ Moved(n)
            BY <1>n, <2>1, <2>3
        <3>2. deps'[n] = deps[n] /\ cache'[n] = cache[n] /\ (mark[n] = "dirty" => mark'[n] = "dirty")
            BY <1>0, <3>1 DEF PullStep
        <3>3. \A d \in Members(deps[n]) : d \in Producers
            BY <1>0 DEF Graphs, Members
        <3>4. \A d \in Members(deps[n]) : changedAt[d] > validAt[n] => changedAt'[d] > validAt'[n]
            BY <3>1, <3>3, StillMoved
        <3>5. Moved(n)'
            BY <3>1, <3>2, <3>4 DEF Moved
        <3> QED BY <1>1, <3>1, <3>5
    <2> QED BY <2>2, <2>3
<1> QED BY <1>3, <1>4 DEF Sound

\* The frames of under are frames of the stack, in their order.
UnderOf(under) == \E i \in Nat : \A k \in DOMAIN under : k + i \in DOMAIN stack /\ under[k] = stack[k+i]

\* So do all the frames under it, and their validations stay due.
LEMMA UnderStays ==
    ASSUME GraphInv, FramesSound, ClocksOK', deps' \in Graphs, NEW t, PullStep(t),
           NEW under \in Seq(Frames), UnderOf(under), t \in Computeds => RunFree(under, t)
    PROVE  (\A k \in DOMAIN under : Sound(under[k])') /\ Chained(under)'
<1>0. ClocksOK /\ deps \in Graphs /\ DOMAIN under = 1..Len(under) /\ Len(under) \in Nat
    BY LenProperties DEF GraphInv, NodesOK
<1>i. PICK i \in Nat : \A k \in DOMAIN under : k + i \in DOMAIN stack /\ under[k] = stack[k+i]
    BY DEF UnderOf
<1>1. \A k \in DOMAIN under : Sound(under[k]) /\ under[k] \in Frames
    <2>1. \A k \in DOMAIN under : under[k] \in Frames
        BY <1>0, ElementOfSeq
    <2> QED BY <1>i, <2>1 DEF FramesSound
<1>2. ASSUME NEW k \in DOMAIN under PROVE Sound(under[k])'
    <2>1. PICK f : f = under[k]
        OBVIOUS
    <2>2. f.node = t /\ t \in Computeds => f.mode = "check"
        <3>1. f \in Frames
            BY <1>1, <2>1
        <3> QED BY <2>1, <3>1 DEF RunFree, Frames
    <2>3. Sound(f)'
        BY <1>0, <1>1, <2>1, <2>2, FrameStays
    <2> QED BY <2>1, <2>3
<1>3. ASSUME NEW k \in DOMAIN under, NEW j \in DOMAIN under, k < j,
             under[k].mode = "check", under[j].mode = "run", under[k].node = under[j].node,
             under[j].node \in Computeds
      PROVE  Rechecked(under[k])'
    <2>1. PICK n : n = under[k].node
        OBVIOUS
    <2>2. n \in Computeds /\ n # t /\ n \in Evaluated
        BY <1>3, <2>1 DEF RunFree, Evaluated
    <2>3. n \notin FreshOnes
        BY <1>1, <1>3, <2>1, <2>2 DEF Sound, Owed
    <2>4. Rechecked(under[k])
        <3>1. k + i < j + i
            BY <1>0, <1>3
        <3> QED BY <1>i, <1>3, <3>1 DEF FramesSound, Chained
    <2>5. PICK l \in DOMAIN deps[n] : l > under[k].pos /\ changedAt[deps[n][l]] > validAt[n]
        BY <2>1, <2>4 DEF Rechecked
    <2>6. deps[n][l] \in Producers
        <3>1. deps[n] \in Seq(Producers)
            BY <1>0, <2>2 DEF Graphs
        <3> QED BY <3>1, LenProperties, ElementOfSeq
    <2>7. deps'[n] = deps[n]
        BY <2>2 DEF PullStep
    <2>8. changedAt'[deps[n][l]] > validAt'[n]
        BY <1>0, <2>2, <2>3, <2>5, <2>6, StillMoved
    <2> QED BY <2>1, <2>5, <2>7, <2>8 DEF Rechecked
<1> QED BY <1>2, <1>3 DEF Chained

\* A sound frame on sound ones.
LEMMA SoundOn ==
    ASSUME NEW under \in Seq(Frames), NEW g \in Frames, stack' = <<g>> \o under,
           \A k \in DOMAIN under : Sound(under[k])', Chained(under)', Sound(g)',
           g.mode = "check" /\ g.node \in Computeds /\ ~RunFree(under, g.node) => Rechecked(g)'
    PROVE  FramesSound'
<1> DEFINE more == <<g>> \o under
<1>1. Len(under) \in Nat /\ DOMAIN under = 1..Len(under)
    BY LenProperties
<1>2. <<g>> \in Seq(Frames) /\ Len(<<g>>) = 1 /\ <<g>>[1] = g
    OBVIOUS
<1>3. more \in Seq(Frames) /\ Len(more) = 1 + Len(under)
      /\ \A k \in 1..(1 + Len(under)) : more[k] = IF k <= 1 THEN <<g>>[k] ELSE under[k-1]
    BY <1>1, <1>2, ConcatProperties
<1>4. DOMAIN more = 1..(1 + Len(under))
    BY <1>3, LenProperties
<1>5. stack' = more
    OBVIOUS
<1> HIDE DEF more
<1>6. \A k \in DOMAIN more : (k = 1 /\ more[k] = g) \/ (k-1 \in DOMAIN under /\ more[k] = under[k-1])
    BY <1>1, <1>2, <1>3, <1>4
<1>7. ASSUME NEW k \in DOMAIN more PROVE Sound(more[k])'
    <2>1. CASE more[k] = g
        BY <2>1
    <2>2. CASE k-1 \in DOMAIN under /\ more[k] = under[k-1]
        BY <2>2
    <2> QED BY <1>6, <2>1, <2>2
<1>8. ASSUME NEW i \in DOMAIN more, NEW j \in DOMAIN more, i < j, more[i].mode = "check", more[j].mode = "run",
             more[i].node = more[j].node, more[j].node \in Computeds
      PROVE  Rechecked(more[i])'
    <2>1. j # 1 /\ j-1 \in DOMAIN under /\ more[j] = under[j-1]
        BY <1>1, <1>4, <1>6, <1>8
    <2>2. CASE i = 1 /\ more[i] = g
        BY <1>8, <2>1, <2>2 DEF RunFree
    <2>3. CASE i-1 \in DOMAIN under /\ more[i] = under[i-1]
        <3>1. i-1 < j-1
            BY <1>1, <1>4, <1>8
        <3> QED BY <1>8, <2>1, <2>3, <3>1 DEF Chained
    <2> QED BY <1>6, <2>2, <2>3
<1> QED BY <1>5, <1>7, <1>8 DEF FramesSound, Chained

\* No set of computeds reads itself in a circle: each has one that none of it reads.
Ordered(ds) ==
    \A X \in SUBSET Computeds : X # {} => \E x \in X : \A y \in X : x \notin Members(ds[y])

\* What a new effect has not been.
Unborn ==
    \A e \in Effects : life[e] = "new" =>
        /\ deps[e] = <<>> /\ e \notin settling.nodes
        /\ \A p \in Promises : e \notin parkedNodes[p]
        /\ \A i \in DOMAIN stack : stack[i].node # e

\* A clean effect has fresh dependencies.
Heard == \A e \in watched \cap Effects : mark[e] = "clean" => Members(deps[e]) \cap Computeds \subseteq FreshOnes

Supported == Supports(deps, FreshOnes) /\ WatchedOK(deps, watched, life, target) /\ Ordered(deps)
Validated == Supported /\ FramesSound

\* A node that is not fresh may come to read fresh ones: no circle closes.
LEMMA OrderedStays ==
    ASSUME Ordered(deps), Supports(deps, FreshOnes), NEW t, t \notin FreshOnes, NEW ds,
           \A n \in Computeds \ {t} : ds[n] = deps[n],
           t \in Computeds => Members(ds[t]) \cap Computeds \subseteq Members(deps[t]) \cup FreshOnes
    PROVE  Ordered(ds)
<1> SUFFICES ASSUME NEW X \in SUBSET Computeds, X # {}
             PROVE  \E x \in X : \A y \in X : x \notin Members(ds[y])
    BY DEF Ordered
<1>1. CASE X \ FreshOnes = {}
    <2>1. t \notin X
        BY <1>1
    <2>2. PICK x \in X : \A y \in X : x \notin Members(deps[y])
        BY DEF Ordered
    <2> QED BY <2>1, <2>2
<1>2. CASE X \ FreshOnes # {}
    <2> DEFINE Y == X \ FreshOnes
    <2>1. Y \in SUBSET Computeds /\ Y # {}
        BY <1>2
    <2>2. PICK x \in Y : \A y \in Y : x \notin Members(deps[y])
        <3> HIDE DEF Y
        <3> QED BY <2>1 DEF Ordered
    <2>3. ASSUME NEW y \in X PROVE x \notin Members(deps[y])
        BY <2>2 DEF Supports
    <2>4. ASSUME NEW y \in X PROVE x \notin Members(ds[y])
        BY <2>2, <2>3
    <2> QED BY <2>2, <2>4
<1> QED BY <1>1, <1>2

\* What evaluates or is validated is not fresh without a reason.
AllOwed == \A i \in DOMAIN stack : Owed(stack[i])

\* t gets a new list of edges, and marks mk and watermarks va of its own, which
\* makes the computeds of A fresh.
Settles(t, list, mk, va, A) ==
    /\ mk \in [Evaluated -> Marks] /\ va \in [Evaluated -> 0..clock]
    /\ \A n \in Evaluated \ {t} : mk[n] = mark[n] /\ va[n] = validAt[n]
    /\ A = FreshIn(mk, watched, va, clock)
    /\ Members(list) \cap Computeds \subseteq Members(deps[t]) \cup FreshOnes
    /\ t \in A => Members(list) \cap Computeds \subseteq FreshOnes

\* The nodes after that, when the edges have moved.
EdgesMoved(t, list, mk, va, A) ==
    /\ FreshOnes' = A /\ FreshOnes \subseteq A /\ A \subseteq FreshOnes \cup {t}
    /\ Supported'
    /\ \A n \in Computeds : n \notin A => validAt'[n] <= va[n]
    /\ \A n \in Computeds : mk[n] = "clean" /\ va[n] = clock => validAt'[n] = clock
    /\ \A n \in Evaluated : mk[n] = "dirty" => mark'[n] = "dirty"
    /\ deps'[t] = list /\ \A n \in Evaluated \ {t} : deps'[n] = deps[n]

\* The edges of one node move within a pull: the fresh computeds are those of A.
LEMMA EdgesMove ==
    ASSUME GraphInv, Supported, AllOwed, NEW t \in Evaluated, t \notin FreshOnes,
           NEW list \in Seq(Producers), NEW mk, NEW va, NEW A, Settles(t, list, mk, va, A),
           Relink([deps EXCEPT ![t] = list], life, target, mk, va), clock' = clock
    PROVE  EdgesMoved(t, list, mk, va, A)
<1> DEFINE ds == [deps EXCEPT ![t] = list]
<1>0. /\ mk \in [Evaluated -> Marks] /\ va \in [Evaluated -> 0..clock]
      /\ \A n \in Evaluated \ {t} : mk[n] = mark[n] /\ va[n] = validAt[n]
      /\ A = FreshIn(mk, watched, va, clock)
      /\ Members(list) \cap Computeds \subseteq Members(deps[t]) \cup FreshOnes
      /\ t \in A => Members(list) \cap Computeds \subseteq FreshOnes
    BY DEF Settles
<1>1. /\ ClocksOK /\ deps \in Graphs /\ target \in [Watchers -> Producers \cup {None}]
      /\ Supports(deps, FreshOnes) /\ WatchedOK(deps, watched, life, target) /\ Ordered(deps)
    BY DEF GraphInv, NodesOK, OwnersOK, Supported
<1>2. ds \in Graphs /\ ds[t] = list /\ \A n \in Evaluated \ {t} : ds[n] = deps[n]
    BY <1>1 DEF Graphs
<1>3. deps' = ds /\ life' = life /\ target' = target
    BY DEF Relink
<1>4. Gained \subseteq FreshOnes
    BY <1>0, <1>1, PullGains
<1> HIDE DEF ds
<1>5. Relink(ds, life, target, mk, va)
    BY DEF ds
<1>6. FreshOnes \subseteq A /\ A \subseteq FreshOnes \cup {t}
    <2>1. ASSUME NEW n \in Computeds, n # t PROVE n \in A <=> n \in FreshOnes
        <3>1. mk[n] = mark[n] /\ va[n] = validAt[n]
            BY <1>0, <2>1 DEF Evaluated
        <3> QED BY <1>0, <3>1 DEF FreshIn, FreshOnes
    <2>2. \A n \in A \cup FreshOnes : n \in Computeds
        BY <1>0 DEF FreshIn, FreshOnes
    <2> QED BY <2>1, <2>2
<1>7. Supports(ds, A)
    <2>1. ASSUME NEW n \in A PROVE Members(ds[n]) \cap Computeds \subseteq A
        <3>1. CASE n = t
            BY <1>0, <1>2, <1>6, <2>1, <3>1
        <3>2. CASE n # t
            <4>1. n \in FreshOnes /\ n \in Evaluated
                BY <1>6, <3>2 DEF FreshOnes, FreshIn, Evaluated
            <4> QED BY <1>1, <1>2, <1>6, <3>2, <4>1 DEF Supports
        <3> QED BY <3>1, <3>2
    <2> QED BY <2>1 DEF Supports
<1>8. \A n \in Gained : va[n] = validAt[n]
    BY <1>0, <1>4 DEF Gained, Evaluated
<1>9. Gained \cap Computing = {}
    BY <1>4 DEF AllOwed, Owed, Computing, Gained
<1>10. /\ A \subseteq FreshOnes' /\ FreshOnes' \subseteq A \cup Gained
       /\ Supports(ds, FreshOnes')
       /\ \A n \in Computeds : n \notin A => validAt'[n] <= va[n]
       /\ \A n \in Computeds : mk[n] = "clean" /\ va[n] = clock => validAt'[n] = clock
       /\ \A n \in Evaluated : mk[n] = "dirty" => mark'[n] = "dirty"
    <2>1. PICK B : B = FreshIn(mark', watched', validAt', clock)
        OBVIOUS
    <2>2. FreshOnes' = B
        BY <2>1 DEF FreshOnes
    <2>3. FreshMoved(ds, mk, va, A, B)
        <3>1. ClocksOK /\ WatchedOK(deps, watched, life, target)
              /\ target \in [Watchers -> Producers \cup {None}] /\ ds \in Graphs
            BY <1>1, <1>2
        <3>2. mk \in [Evaluated -> Marks] /\ va \in [Evaluated -> 0..clock] /\ A = FreshIn(mk, watched, va, clock)
            BY <1>0
        <3> QED BY <1>5, <1>7, <1>8, <2>1, <3>1, <3>2, RelinkFresh
    <2> QED BY <1>9, <2>2, <2>3 DEF FreshMoved
<1>11. FreshOnes' = A
    BY <1>4, <1>6, <1>10
<1>12. WatchedOK(ds, watched', life, target)
    BY <1>1, <1>2, <1>5, RelinkWatches
<1>13. Ordered(ds)
    <2>1. \A n \in Computeds \ {t} : ds[n] = deps[n]
        BY <1>2 DEF Evaluated
    <2> QED BY <1>0, <1>1, <1>2, <2>1, OrderedStays
<1>14. Supported'
    BY <1>3, <1>10, <1>12, <1>13 DEF Supported
<1> QED BY <1>2, <1>3, <1>6, <1>10, <1>11, <1>14 DEF EdgesMoved

\* A read extends the list of a frame: what it has passed is fresh, what it had
\* not passed moves back by one at most.
Advances(f, at) ==
    /\ Spot(at) /\ Shifted(deps[f.node], at.list)
    /\ Members(deps[f.node]) \subseteq Members(at.list)
    /\ Members(at.list) \cap Computeds \subseteq Members(deps[f.node]) \cup FreshOnes
    /\ \A k \in 1..at.pos : at.list[k] \in Computeds => at.list[k] \in FreshOnes

\* It does when nothing is read ...
LEMMA UntouchedAdvances ==
    ASSUME deps \in Graphs, NEW f \in Frames, Spot(Untouched(f)), Passed(f)
    PROVE  Advances(f, Untouched(f))
<1>l. PICK list : list = deps[f.node]
    OBVIOUS
<1>p. PICK p : p = f.pos
    OBVIOUS
<1>1. Untouched(f) = [list |-> list, pos |-> p]
    BY <1>l, <1>p DEF Untouched
<1>2. Untouched(f).list = list /\ Untouched(f).pos = p
    BY <1>1
<1>3. list \in Seq(Producers) /\ p \in Nat /\ Len(list) \in Nat /\ p <= Len(list) /\ DOMAIN list = 1..Len(list)
    BY <1>2, LenProperties DEF Spot
<1>4. \A k \in 1..p : list[k] \in Computeds => list[k] \in FreshOnes
    BY <1>3, <1>l, <1>p DEF Passed
<1>5. Shifted(list, list)
    <2>1. \A k \in DOMAIN list : k \in 1..k
        BY <1>3
    <2> QED BY <2>1 DEF Shifted
<1> QED BY <1>2, <1>4, <1>5, <1>l DEF Advances

\* ... and when what is read is fresh, or is not a computed.
LEMMA ReadAdvances ==
    ASSUME deps \in Graphs, NEW f \in Frames, f.pos <= Len(deps[f.node]), Passed(f),
           NEW d \in Producers, d \in Computeds => d \in FreshOnes
    PROVE  Advances(f, Tracked(f, d))
<1>l. PICK list : list = deps[f.node]
    OBVIOUS
<1>p. PICK p : p = f.pos
    OBVIOUS
<1>1. list \in Seq(Producers) /\ p \in Nat /\ Len(list) \in Nat /\ p <= Len(list) /\ DOMAIN list = 1..Len(list)
    BY <1>l, <1>p DEF Graphs, Frames
<1>2. \A k \in 1..p : list[k] \in Computeds => list[k] \in FreshOnes
    BY <1>1, <1>l, <1>p DEF Passed
<1>3. Shifted(list, list)
    <2>1. \A k \in DOMAIN list : k \in 1..k
        BY <1>1
    <2> QED BY <2>1 DEF Shifted
<1>4. Spot(Tracked(f, d))
    BY TrackedSpot
<1>6. CASE d \in Members(SubSeq(list, 1, p))
    <2>1. Tracked(f, d) = [list |-> list, pos |-> p]
        BY <1>6, <1>l, <1>p DEF Tracked
    <2>2. Tracked(f, d).list = list /\ Tracked(f, d).pos = p
        BY <2>1
    <2>3. Advances(f, Tracked(f, d))
        BY <1>2, <1>3, <1>4, <1>l, <2>2 DEF Advances
    <2> QED BY <2>3
<1>7. CASE d \notin Members(SubSeq(list, 1, p)) /\ p < Len(list) /\ list[p + 1] = d
    <2>1. Tracked(f, d) = [list |-> list, pos |-> p + 1]
        BY <1>7, <1>l, <1>p DEF Tracked
    <2>2. Tracked(f, d).list = list /\ Tracked(f, d).pos = p + 1
        BY <2>1
    <2>3. \A k \in 1..p+1 : k \in 1..p \/ k = p+1
        BY <1>1
    <2>4. Advances(f, Tracked(f, d))
        BY <1>2, <1>3, <1>4, <1>7, <1>l, <2>2, <2>3 DEF Advances
    <2> QED BY <2>4
<1>8. CASE d \notin Members(SubSeq(list, 1, p)) /\ ~(p < Len(list) /\ list[p + 1] = d)
    <2>l. PICK front : front = SubSeq(list, 1, p)
        OBVIOUS
    <2>r. PICK back : back = SubSeq(list, p + 1, Len(list))
        OBVIOUS
    <2>m. PICK more : more = front \o <<d>> \o back
        OBVIOUS
    <2>1. Tracked(f, d).list = more /\ Tracked(f, d).pos = p + 1
        <3>1. Tracked(f, d) = [list |-> more, pos |-> p + 1]
            BY <1>8, <1>l, <1>p, <2>l, <2>r, <2>m, Zenon DEF Tracked
        <3> QED BY <3>1
    <2>2. \A i \in 1..Len(list) : list[i] \in Producers
        BY <1>1
    <2>3. front \in Seq(Producers) /\ Len(front) = p /\ \A i \in 1..p : front[i] = list[i]
        <3>1. 1 \in Int /\ p \in Int /\ \A i \in 1..p : list[i] \in Producers
            BY <1>1, <2>2
        <3>2. /\ front \in Seq(Producers) /\ Len(front) = IF 1 <= p THEN p - 1 + 1 ELSE 0
              /\ \A i \in 1..p-1+1 : front[i] = list[1+i-1]
            BY <2>l, <3>1, SubSeqProperties
        <3>3. \A i \in 1..p : i \in 1..p-1+1 /\ 1+i-1 = i
            BY <1>1
        <3>4. Len(front) = p
            BY <1>1, <3>2
        <3> QED BY <3>2, <3>3, <3>4
    <2>4. /\ back \in Seq(Producers) /\ Len(back) = Len(list) - p
          /\ \A i \in 1..(Len(list) - p) : back[i] = list[p+i]
        <3>1. p+1 \in Int /\ Len(list) \in Int /\ \A i \in p+1..Len(list) : list[i] \in Producers
            BY <1>1, <2>2
        <3>2. /\ back \in Seq(Producers) /\ Len(back) = IF p+1 <= Len(list) THEN Len(list) - (p+1) + 1 ELSE 0
              /\ \A i \in 1..Len(list)-(p+1)+1 : back[i] = list[(p+1)+i-1]
            BY <2>r, <3>1, SubSeqProperties
        <3>3. \A i \in 1..(Len(list) - p) : i \in 1..Len(list)-(p+1)+1 /\ (p+1)+i-1 = p+i
            BY <1>1
        <3>4. Len(back) = Len(list) - p
            <4>1. Len(back) = IF p+1 <= Len(list) THEN Len(list) - (p+1) + 1 ELSE 0
                BY <3>2
            <4>2. PICK l : l = Len(list)
                OBVIOUS
            <4>3. p \in Nat /\ l \in Nat /\ p <= l
                BY <1>1, <4>2
            <4>4. (IF p+1 <= l THEN l - (p+1) + 1 ELSE 0) = l - p
                BY <4>3
            <4> QED BY <4>1, <4>2, <4>4
        <3>5. back \in Seq(Producers)
            BY <3>2
        <3>6. ASSUME NEW i \in 1..(Len(list) - p) PROVE back[i] = list[p+i]
            BY <3>2, <3>3
        <3> QED BY <3>4, <3>5, <3>6
    <2>5. <<d>> \in Seq(Producers) /\ Len(<<d>>) = 1 /\ <<d>>[1] = d
        OBVIOUS
    <2>6. PICK mid : mid = front \o <<d>>
        OBVIOUS
    <2>7. /\ mid \in Seq(Producers) /\ Len(mid) = p + 1
          /\ \A i \in 1..p+1 : mid[i] = IF i <= p THEN front[i] ELSE <<d>>[i - p]
        BY <2>3, <2>5, <2>6, ConcatProperties
    <2>8. /\ more \in Seq(Producers) /\ Len(more) = (p+1) + (Len(list) - p)
          /\ \A i \in 1..(p+1) + (Len(list) - p) : more[i] = IF i <= p+1 THEN mid[i] ELSE back[i - (p+1)]
        <3>1. more = mid \o back
            BY <2>m, <2>6
        <3>2. back \in Seq(Producers) /\ Len(back) = Len(list) - p /\ mid \in Seq(Producers) /\ Len(mid) = p + 1
            BY <2>4, <2>7
        <3>3. /\ mid \o back \in Seq(Producers) /\ Len(mid \o back) = Len(mid) + Len(back)
              /\ \A i \in 1..Len(mid) + Len(back) :
                    (mid \o back)[i] = IF i <= Len(mid) THEN mid[i] ELSE back[i - Len(mid)]
            BY <3>2, ConcatProperties, Zenon
        <3> QED BY <3>1, <3>2, <3>3, Zenon
    <2>9. Len(more) = Len(list) + 1 /\ DOMAIN more = 1..(Len(list) + 1)
        <3>1. (p+1) + (Len(list) - p) = Len(list) + 1
            BY <1>1
        <3> QED BY <2>8, <3>1, LenProperties
    <2>10. ASSUME NEW k \in 1..p PROVE k \in DOMAIN more /\ more[k] = list[k]
        <3>1. k \in 1..p+1 /\ k <= p /\ k <= p+1 /\ k \in 1..(p+1) + (Len(list) - p) /\ k \in 1..(Len(list) + 1)
            BY <1>1
        <3>2. more[k] = mid[k]
            BY <2>8, <3>1
        <3>3. mid[k] = front[k]
            BY <2>7, <3>1
        <3> QED BY <2>3, <2>9, <3>1, <3>2, <3>3
    <2>11. more[p+1] = d /\ p+1 \in DOMAIN more
        <3>1. /\ p+1 \in 1..p+1 /\ ~(p+1 <= p) /\ p+1 <= p+1 /\ p+1 \in 1..(p+1) + (Len(list) - p)
              /\ p+1 \in 1..(Len(list) + 1) /\ (p+1) - p = 1
            BY <1>1
        <3>2. more[p+1] = mid[p+1]
            BY <2>8, <3>1
        <3>3. mid[p+1] = <<d>>[(p+1) - p]
            BY <2>7, <3>1
        <3> QED BY <2>5, <2>9, <3>1, <3>2, <3>3
    <2>12. ASSUME NEW k \in p+2..Len(list)+1 PROVE k \in DOMAIN more /\ more[k] = list[k-1]
        <3>1. /\ ~(k <= p+1) /\ k \in 1..(p+1) + (Len(list) - p) /\ k \in 1..(Len(list) + 1)
              /\ k - (p+1) \in 1..(Len(list) - p) /\ p + (k - (p+1)) = k-1
            BY <1>1
        <3>2. more[k] = back[k - (p+1)]
            BY <2>8, <3>1
        <3>3. back[k - (p+1)] = list[p + (k - (p+1))]
            BY <2>4, <3>1
        <3> QED BY <2>9, <3>1, <3>2, <3>3
    <2>13. ASSUME NEW k \in DOMAIN more
           PROVE  k \in 1..p \/ k = p+1 \/ k \in p+2..Len(list)+1
        BY <1>1, <2>9
    <2>14. Shifted(list, more)
        <3> SUFFICES ASSUME NEW k \in DOMAIN more, more[k] \in Computeds
                     PROVE  more[k] \in FreshOnes \/ \E j \in 1..k : j \in DOMAIN list /\ more[k] = list[j]
            BY DEF Shifted
        <3>1. CASE k \in 1..p
            BY <1>2, <2>10, <3>1
        <3>2. CASE k = p+1
            BY <2>11, <3>2
        <3>3. CASE k \in p+2..Len(list)+1
            <4>1. k-1 \in 1..k /\ k-1 \in DOMAIN list
                BY <1>1, <3>3
            <4> QED BY <2>12, <3>3, <4>1
        <3> QED BY <2>13, <3>1, <3>2, <3>3
    <2>15. Members(list) \subseteq Members(more)
        <3> SUFFICES ASSUME NEW i \in DOMAIN list PROVE \E k \in DOMAIN more : more[k] = list[i]
            BY DEF Members
        <3>1. CASE i <= p
            <4>1. i \in 1..p
                BY <1>1, <3>1
            <4> QED BY <2>10, <4>1
        <3>2. CASE ~(i <= p)
            <4>1. i+1 \in p+2..Len(list)+1 /\ (i+1)-1 = i
                BY <1>1, <3>2
            <4> QED BY <2>12, <4>1
        <3> QED BY <3>1, <3>2
    <2>16. Members(more) \cap Computeds \subseteq Members(list) \cup FreshOnes
        BY <2>14 DEF Members, Shifted
    <2>17. \A k \in 1..p+1 : more[k] \in Computeds => more[k] \in FreshOnes
        <3>1. \A k \in 1..p+1 : k \in 1..p \/ k = p+1
            BY <1>1
        <3> QED BY <1>2, <2>10, <2>11, <3>1
    <2>18. Advances(f, Tracked(f, d))
        BY <1>4, <1>l, <2>1, <2>14, <2>15, <2>16, <2>17 DEF Advances
    <2> QED BY <2>18
<1> QED BY <1>6, <1>7, <1>8

\* A list stands where it stood.
LEMMA ShiftedSelf == ASSUME NEW list \in Seq(Producers) PROVE Shifted(list, list)
<1>1. \A k \in DOMAIN list : k \in 1..k
    BY LenProperties
<1> QED BY <1>1 DEF Shifted

\* What is under the top frame.
LEMMA UnderTop ==
    ASSUME GraphInv, stack # <<>>
    PROVE  Below \in Seq(Frames) /\ UnderOf(Below) /\ Top = stack[1] /\ 1 \in DOMAIN stack
<1>1. /\ DOMAIN stack = 1..Len(stack) /\ Len(stack) \in Nat /\ Len(stack) # 0 /\ Top = stack[1]
      /\ Below \in Seq(Frames) /\ DOMAIN Below = 1..Len(Below) /\ Len(Below) = Len(stack) - 1
      /\ \A i \in 1..Len(Below) : Below[i] = stack[i+1]
    BY HeadTailProperties, LenProperties, EmptySeq DEF GraphInv, StackOK, Top, Below
<1>2. \A k \in DOMAIN Below : k+1 \in DOMAIN stack /\ Below[k] = stack[k+1]
    BY <1>1
<1>3. 1 \in Nat /\ 1 \in DOMAIN stack
    BY <1>1
<1> QED BY <1>1, <1>2, <1>3 DEF UnderOf

\* What is under any frame.
LEMMA UnderAny ==
    ASSUME GraphInv, NEW i \in DOMAIN stack, NEW under, under = SubSeq(stack, i+1, Len(stack))
    PROVE  under \in Seq(Frames) /\ UnderOf(under)
<1>1. DOMAIN stack = 1..Len(stack) /\ Len(stack) \in Nat /\ stack \in Seq(Frames)
    BY LenProperties DEF GraphInv, StackOK
<1>2. i \in Nat /\ i+1 \in Int /\ i <= Len(stack) /\ i+1 \in Nat
    BY <1>1
<1>3. \A k \in i+1..Len(stack) : stack[k] \in Frames
    BY <1>1, <1>2, ElementOfSeq
<1>4. /\ under \in Seq(Frames) /\ Len(under) = IF i+1 <= Len(stack) THEN Len(stack) - (i+1) + 1 ELSE 0
      /\ \A k \in 1..(Len(stack) - (i+1) + 1) : under[k] = stack[i+1+k-1]
    BY <1>1, <1>2, <1>3, SubSeqProperties
<1>5. Len(under) = IF i+1 <= Len(stack) THEN Len(stack) - (i+1) + 1 ELSE 0
    BY <1>4
<1>6. DOMAIN under = 1..Len(under)
    BY <1>4, LenProperties
<1>7. ASSUME NEW k \in DOMAIN under PROVE k + i \in DOMAIN stack /\ under[k] = stack[k+i]
    <2>1. PICK l : l = Len(stack)
        OBVIOUS
    <2>2. l \in Nat /\ i \in Nat /\ i <= l /\ k \in 1..(IF i+1 <= l THEN l - (i+1) + 1 ELSE 0)
        BY <1>1, <1>2, <1>5, <1>6, <2>1
    <2>3. k \in 1..(l - (i+1) + 1) /\ k + i \in 1..l /\ i+1+k-1 = k+i
        BY <2>2
    <2>4. under[k] = stack[i+1+k-1]
        BY <1>4, <2>1, <2>3
    <2> QED BY <1>1, <2>1, <2>3, <2>4
<1> QED BY <1>2, <1>4, <1>7 DEF UnderOf

\* Effects go on hearing when only t's edges move.
LEMMA HeardStays ==
    ASSUME Heard, Supported, OwnersOK', Alive(life') \subseteq Alive(life), FreshOnes \subseteq FreshOnes', NEW t,
           \A e \in Effects \ {t} : deps'[e] = deps[e] /\ (mark'[e] = "clean" => mark[e] = "clean"),
           t \in Effects =>
               \/ Members(deps'[t]) \cap Computeds \subseteq FreshOnes'
               \/ /\ mark'[t] = "clean" => mark[t] = "clean"
                  /\ Members(deps'[t]) \cap Computeds \subseteq Members(deps[t]) \cup FreshOnes'
    PROVE  Heard'
<1> SUFFICES ASSUME NEW e \in watched' \cap Effects, mark'[e] = "clean"
             PROVE  Members(deps'[e]) \cap Computeds \subseteq FreshOnes'
    BY DEF Heard
<1>1. e \in Alive(life)
    BY DEF OwnersOK, FlagsOK
<1>2. e \in watched
    BY <1>1 DEF Supported, WatchedOK, Roots
<1>3. mark[e] = "clean" => Members(deps[e]) \cap Computeds \subseteq FreshOnes
    BY <1>2 DEF Heard
<1>4. CASE e = t
    BY <1>3, <1>4
<1>5. CASE e # t
    BY <1>3, <1>5
<1> QED BY <1>4, <1>5

\* A node under evaluation is not fresh.
LEMMA RunNotFresh ==
    ASSUME NEW f, Owed(f), f.mode = "run"
    PROVE  f.node \notin FreshOnes
BY DEF Owed, FreshOnes, FreshIn

\* The body sees one more value.
LEMMA ContinueSound ==
    ASSUME GraphInv, GraphInv', Validated, clock' = clock, stack # <<>>, Top.mode = "run",
           NEW at, Advances(Top, at), NEW v \in Values, Continue(Top, at, v)
    PROVE  Validated' /\ (Heard => Heard') /\ PullStep(Top.node)
<1>f. PICK f : f = Top
    OBVIOUS
<1>t. PICK t : t = f.node
    OBVIOUS
<1>l. PICK list : list = at.list
    OBVIOUS
<1>g. PICK g : g = [f EXCEPT !.pos = at.pos, !.seen = Append(@, v)]
    OBVIOUS
<1>u. PICK under : under = Below
    OBVIOUS
<1>1. f \in Frames /\ RunFree(under, t) /\ f.mode = "run"
    BY <1>f, <1>u, <1>t, StackTop DEF GraphInv
<1>2. t \in Evaluated /\ f.pos \in Nat /\ f.seen \in Seq(Values)
    BY <1>1, <1>t DEF Frames
<1>3. under \in Seq(Frames) /\ UnderOf(under) /\ f = stack[1] /\ 1 \in DOMAIN stack
    BY <1>f, <1>u, UnderTop
<1>4. Sound(f) /\ Supported /\ FramesSound /\ \A i \in DOMAIN stack : Owed(stack[i])
    BY <1>3 DEF Validated, FramesSound, Sound
<1>5. t \notin FreshOnes
    BY <1>1, <1>4, <1>t, RunNotFresh DEF Sound
<1>6. /\ Relink([deps EXCEPT ![t] = list], life, target, mark, validAt)
      /\ stack' = <<g>> \o under /\ changedAt' = changedAt /\ cache' = cache
    BY <1>u, <1>f, <1>t, <1>l, <1>g DEF Continue
<1>7. /\ list \in Seq(Producers) /\ at.pos \in Nat /\ Shifted(deps[t], list)
      /\ Members(deps[t]) \subseteq Members(list)
      /\ Members(list) \cap Computeds \subseteq Members(deps[t]) \cup FreshOnes
      /\ \A k \in 1..at.pos : list[k] \in Computeds => list[k] \in FreshOnes
    BY <1>f, <1>t, <1>l DEF Advances, Spot
<1>8. mark \in [Evaluated -> Marks] /\ validAt \in [Evaluated -> 0..clock]
      /\ OwnersOK /\ OwnersOK' /\ ClocksOK /\ ClocksOK' /\ deps \in Graphs /\ deps' \in Graphs /\ life' = life
    BY <1>6 DEF GraphInv, NodesOK, ClocksOK, Relink
<1>9. /\ FreshOnes' = FreshOnes /\ Supported'
      /\ \A n \in Computeds : n \notin FreshOnes => validAt'[n] <= validAt[n]
      /\ \A n \in Computeds : mark[n] = "clean" /\ validAt[n] = clock => validAt'[n] = clock
      /\ \A n \in Evaluated : mark[n] = "dirty" => mark'[n] = "dirty"
      /\ deps'[t] = list /\ \A n \in Evaluated \ {t} : deps'[n] = deps[n]
    <2>1. PICK mk : mk = mark
        OBVIOUS
    <2>2. PICK va : va = validAt
        OBVIOUS
    <2>3. PICK A : A = FreshIn(mk, watched, va, clock)
        OBVIOUS
    <2>4. A = FreshOnes
        BY <2>1, <2>2, <2>3 DEF FreshOnes
    <2>5. mk \in [Evaluated -> Marks] /\ va \in [Evaluated -> 0..clock]
        BY <1>8, <2>1, <2>2
    <2>6. Relink([deps EXCEPT ![t] = list], life, target, mk, va)
        BY <1>6, <2>1, <2>2
    <2>7. \A n \in Evaluated \ {t} : mk[n] = mark[n] /\ va[n] = validAt[n]
        BY <2>1, <2>2
    <2>8. t \in A => Members(list) \cap Computeds \subseteq FreshOnes
        BY <1>5, <2>4
    <2>9. EdgesMoved(t, list, mk, va, A)
        <3>1. list \in Seq(Producers)
            BY <1>7
        <3>2. Members(list) \cap Computeds \subseteq Members(deps[t]) \cup FreshOnes
            BY <1>7
        <3>3. Supported /\ t \in Evaluated
            BY <1>2, <1>4
        <3>4. AllOwed
            BY <1>4 DEF AllOwed
        <3>5. Settles(t, list, mk, va, A)
            BY <2>3, <2>5, <2>7, <2>8, <3>2 DEF Settles
        <3> QED BY <1>5, <2>6, <3>1, <3>3, <3>4, <3>5, EdgesMove
    <2> QED BY <2>1, <2>2, <2>4, <2>9 DEF EdgesMoved
<1>10. PullStep(t)
    <2>1. \A n \in FreshOnes : validAt[n] = clock => validAt'[n] = clock
        BY <1>9 DEF FreshOnes, FreshIn
    <2>2. \A d \in Producers : changedAt[d] <= changedAt'[d]
        BY <1>6, <1>8 DEF ClocksOK
    <2> QED BY <1>6, <1>7, <1>9, <2>1, <2>2 DEF PullStep
<1>11. (\A k \in DOMAIN under : Sound(under[k])') /\ Chained(under)'
    BY <1>1, <1>3, <1>4, <1>8, <1>10, UnderStays
<1>12. g \in Frames /\ g.node = t /\ g.mode = "run" /\ g.pos = at.pos
    <2>1. Append(f.seen, v) \in Seq(Values)
        BY <1>2, AppendProperties
    <2> QED BY <1>1, <1>7, <1>g, <1>t, <2>1 DEF Frames
<1>13. Sound(g)'
    <2>1. Passed(g)'
        BY <1>7, <1>9, <1>12 DEF Passed
    <2>2. t \in Computeds => Moved(t)'
        <3> SUFFICES ASSUME t \in Computeds PROVE Moved(t)'
            OBVIOUS
        <3>1. Moved(t)
            BY <1>1, <1>4, <1>t DEF Sound, Owed
        <3>2. validAt'[t] <= validAt[t] /\ deps'[t] = list /\ (mark[t] = "dirty" => mark'[t] = "dirty")
            BY <1>2, <1>5, <1>9
        <3>3. ASSUME NEW d \in Members(deps[t]), changedAt[d] > validAt[t] PROVE changedAt'[d] > validAt'[t]
            <4>1. d \in Producers
                BY <1>2, <1>8 DEF Graphs, Members
            <4>2. changedAt[d] \in 0..clock /\ validAt[t] \in 0..clock /\ validAt'[t] \in 0..clock' /\ clock \in Nat
                BY <1>2, <1>8, <4>1 DEF ClocksOK
            <4> QED BY <1>6, <3>2, <3>3, <4>2
        <3>4. Members(deps[t]) \subseteq Members(list)
            BY <1>7
        <3> QED BY <1>6, <3>1, <3>2, <3>3, <3>4 DEF Moved
    <2>3. Owed(g)'
        BY <1>5, <1>9, <1>12, <2>2 DEF Owed
    <2> QED BY <2>1, <2>3 DEF Sound
<1>14. FramesSound'
    BY <1>3, <1>6, <1>11, <1>12, <1>13, SoundOn
<1>15. ASSUME Heard PROVE Heard'
    <2>1. \A e \in Evaluated : mark'[e] = "clean" => mark[e] = "clean"
        <3>1. target \in [Watchers -> Producers \cup {None}] /\ [deps EXCEPT ![t] = list] \in Graphs
            BY <1>7, <1>8 DEF OwnersOK, Graphs
        <3> QED BY <1>6, <1>8, <3>1, RelinkKeeps
    <2>2. \A e \in Effects : e \in Evaluated
        BY DEF Evaluated
    <2>3. \A e \in Effects \ {t} : deps'[e] = deps[e] /\ (mark'[e] = "clean" => mark[e] = "clean")
        BY <1>9, <2>1, <2>2
    <2>4. t \in Effects =>
               \/ Members(deps'[t]) \cap Computeds \subseteq FreshOnes'
               \/ /\ mark'[t] = "clean" => mark[t] = "clean"
                  /\ Members(deps'[t]) \cap Computeds \subseteq Members(deps[t]) \cup FreshOnes'
        BY <1>7, <1>9, <2>1, <2>2
    <2>5. FreshOnes \subseteq FreshOnes'
        BY <1>9
    <2> QED BY <1>4, <1>8, <1>15, <2>3, <2>4, <2>5, HeardStays
<1> QED BY <1>f, <1>t, <1>9, <1>10, <1>14, <1>15 DEF Validated

\* The evaluation of any frame ends.
LEMMA FinishSound ==
    ASSUME GraphInv, GraphInv', Validated, clock' = clock, NEW i \in DOMAIN stack,
           NEW f, f = stack[i], f.mode = "run", NEW at, Advances(f, at),
           NEW under \in Seq(Frames), UnderOf(under), RunFree(under, f.node),
           NEW value, NEW outcome, NEW changed, Finish(f, at, under, value, outcome, changed)
    PROVE  Validated' /\ (Heard => Heard') /\ PullStep(f.node)
<1>t. PICK t : t = f.node
    OBVIOUS
<1>k. PICK kept : kept = IF t \in Effects /\ life[t] = "disposed" THEN <<>> ELSE SubSeq(at.list, 1, at.pos)
    OBVIOUS
<1>m. PICK mk : mk = [mark EXCEPT ![t] = "clean"]
    OBVIOUS
<1>v. PICK va : va = [validAt EXCEPT ![t] = clock]
    OBVIOUS
<1>a. PICK A : A = FreshIn(mk, watched, va, clock)
    OBVIOUS
<1>1. /\ Relink([deps EXCEPT ![t] = kept], life, target, mk, va)
      /\ cache' = [cache EXCEPT ![t] = value] /\ stack' = under
      /\ changedAt' = [d \in Producers |-> IF d = t /\ changed THEN clock ELSE changedAt[d]]
    BY <1>t, <1>k, <1>m, <1>v DEF Finish
<1>2. /\ mark \in [Evaluated -> Marks] /\ validAt \in [Evaluated -> 0..clock]
      /\ OwnersOK /\ OwnersOK' /\ ClocksOK /\ ClocksOK' /\ deps \in Graphs /\ deps' \in Graphs /\ life' = life
      /\ clock \in Nat /\ cache \in [Evaluated -> Values \cup {None}]
    BY <1>1 DEF GraphInv, NodesOK, ClocksOK, Relink
<1>3. f \in Frames /\ t \in Evaluated
    <2>1. f \in Frames
        BY ElementOfSeq, LenProperties DEF GraphInv, StackOK
    <2> QED BY <1>t, <2>1 DEF Frames
<1>4. Sound(f) /\ Supported /\ FramesSound /\ \A j \in DOMAIN stack : Owed(stack[j])
    BY DEF Validated, FramesSound, Sound
<1>5. t \notin FreshOnes
    BY <1>4, <1>t, RunNotFresh DEF Sound
<1>6. /\ kept \in Seq(Producers) /\ Shifted(deps[t], kept)
      /\ Members(kept) \cap Computeds \subseteq FreshOnes
    <2>1. at.list \in Seq(Producers) /\ at.pos \in Nat /\ at.pos <= Len(at.list) /\ 1 \in Int /\ at.pos \in Int
        BY DEF Advances, Spot
    <2>2. \A k \in 1..at.pos : at.list[k] \in Producers
        BY <2>1
    <2>3. PICK front : front = SubSeq(at.list, 1, at.pos)
        OBVIOUS
    <2>4. /\ front \in Seq(Producers) /\ Len(front) = IF 1 <= at.pos THEN at.pos - 1 + 1 ELSE 0
          /\ \A k \in 1..at.pos-1+1 : front[k] = at.list[1+k-1]
        BY <2>1, <2>2, <2>3, SubSeqProperties
    <2>5. DOMAIN front = 1..Len(front) /\ Len(front) = IF 1 <= at.pos THEN at.pos - 1 + 1 ELSE 0
        BY <2>4, LenProperties
    <2>6. DOMAIN front = 1..at.pos
        <3>1. PICK p : p = at.pos
            OBVIOUS
        <3>2. p \in Nat
            BY <2>1, <3>1
        <3>3. (IF 1 <= p THEN p - 1 + 1 ELSE 0) = p
            BY <3>2
        <3> QED BY <2>5, <3>1, <3>3
    <2>7. ASSUME NEW k \in DOMAIN front PROVE front[k] = at.list[k] /\ k \in DOMAIN at.list
        <3>1. k \in 1..at.pos-1+1 /\ 1+k-1 = k /\ k \in 1..Len(at.list)
            BY <2>1, <2>6
        <3>2. DOMAIN at.list = 1..Len(at.list)
            BY <2>1, LenProperties
        <3> QED BY <2>4, <3>1, <3>2
    <2>8. \A k \in DOMAIN front : front[k] \in Computeds => front[k] \in FreshOnes
        BY <2>6, <2>7 DEF Advances
    <2>9. Shifted(deps[t], front)
        BY <2>8 DEF Shifted
    <2>10. Members(front) \cap Computeds \subseteq FreshOnes
        BY <2>8 DEF Members
    <2>11. CASE kept = front
        BY <2>4, <2>9, <2>10, <2>11
    <2>12. CASE kept = <<>>
        BY <2>12 DEF Shifted, Members
    <2> QED BY <1>k, <2>3, <2>11, <2>12
<1>7. /\ mk \in [Evaluated -> Marks] /\ va \in [Evaluated -> 0..clock]
      /\ mk[t] = "clean" /\ va[t] = clock
      /\ \A n \in Evaluated \ {t} : mk[n] = mark[n] /\ va[n] = validAt[n]
    BY <1>2, <1>3, <1>m, <1>v DEF Marks
<1>8. EdgesMoved(t, kept, mk, va, A)
    <2>1. kept \in Seq(Producers) /\ Members(kept) \cap Computeds \subseteq FreshOnes
        BY <1>6
    <2>2. Settles(t, kept, mk, va, A)
        BY <1>7, <1>a, <2>1 DEF Settles
    <2>3. AllOwed
        BY <1>4 DEF AllOwed
    <2>4. Relink([deps EXCEPT ![t] = kept], life, target, mk, va) /\ Supported /\ kept \in Seq(Producers)
        BY <1>1, <1>4, <2>1
    <2> QED BY <1>3, <1>5, <2>2, <2>3, <2>4, EdgesMove
<1>9. PullStep(t)
    <2>1. \A n \in FreshOnes : validAt[n] = clock => validAt'[n] = clock
        <3> SUFFICES ASSUME NEW n \in FreshOnes, validAt[n] = clock PROVE validAt'[n] = clock
            OBVIOUS
        <3>1. n \in Computeds /\ mark[n] = "clean" /\ n # t /\ n \in Evaluated
            BY <1>5 DEF FreshOnes, FreshIn, Evaluated
        <3> QED BY <1>7, <1>8, <3>1 DEF EdgesMoved
    <2>2. \A d \in Producers : changedAt[d] <= changedAt'[d]
        <3> SUFFICES ASSUME NEW d \in Producers PROVE changedAt[d] <= changedAt'[d]
            OBVIOUS
        <3>1. changedAt[d] \in 0..clock
            BY <1>2 DEF ClocksOK
        <3>2. changedAt'[d] \in {clock, changedAt[d]}
            BY <1>1
        <3> QED BY <1>2, <3>1, <3>2
    <2>3. t \in FreshOnes' => validAt'[t] = clock
        <3>1. t \in FreshOnes' => t \in Computeds
            BY <1>8, <1>a DEF FreshIn, EdgesMoved
        <3> QED BY <1>7, <1>8, <3>1 DEF EdgesMoved
    <2>4. ASSUME NEW n \in Computeds \ {t}, n \notin FreshOnes PROVE validAt'[n] <= validAt[n]
        <3>1. n \in Evaluated /\ n \notin A
            BY <1>8, <2>4 DEF Evaluated, EdgesMoved
        <3> QED BY <1>7, <1>8, <3>1 DEF EdgesMoved
    <2>5. \A n \in Evaluated \ {t} :
             deps'[n] = deps[n] /\ cache'[n] = cache[n] /\ (mark[n] = "dirty" => mark'[n] = "dirty")
        BY <1>1, <1>2, <1>7, <1>8 DEF EdgesMoved
    <2>6. FreshOnes \subseteq FreshOnes' /\ FreshOnes' \subseteq FreshOnes \cup {t} /\ Shifted(deps[t], deps'[t])
        BY <1>6, <1>8 DEF EdgesMoved
    <2> QED BY <2>1, <2>2, <2>3, <2>4, <2>5, <2>6 DEF PullStep
<1>10. FramesSound'
    <2>1. RunFree(under, t)
        BY <1>t
    <2>2. (\A k \in DOMAIN under : Sound(under[k])') /\ Chained(under)'
        BY <1>2, <1>4, <1>9, <2>1, UnderStays
    <2>3. stack' = under
        BY <1>1
    <2> QED BY <2>2, <2>3 DEF FramesSound, Chained
<1>11. ASSUME Heard PROVE Heard'
    <2>1. \A e \in Evaluated : mark'[e] = "clean" => mk[e] = "clean"
        <3>1. target \in [Watchers -> Producers \cup {None}] /\ [deps EXCEPT ![t] = kept] \in Graphs
            BY <1>2, <1>6 DEF OwnersOK, Graphs
        <3>2. mk \in [Evaluated -> Marks] /\ va \in [Evaluated -> 0..clock]
            BY <1>7
        <3> QED BY <1>1, <1>2, <3>1, <3>2, RelinkKeeps
    <2>2. \A e \in Effects : e \in Evaluated
        BY DEF Evaluated
    <2>3. \A e \in Effects \ {t} : deps'[e] = deps[e] /\ (mark'[e] = "clean" => mark[e] = "clean")
        BY <1>7, <1>8, <2>1, <2>2 DEF EdgesMoved
    <2>4. Members(deps'[t]) \cap Computeds \subseteq FreshOnes' /\ FreshOnes \subseteq FreshOnes'
        BY <1>6, <1>8 DEF EdgesMoved
    <2> QED BY <1>2, <1>4, <1>11, <2>3, <2>4, HeardStays
<1> QED BY <1>t, <1>8, <1>9, <1>10, <1>11 DEF Validated, EdgesMoved

\* The frames under some frame of the stack are in order.
LEMMA UnderSound ==
    ASSUME FramesSound, NEW under \in Seq(Frames), UnderOf(under)
    PROVE  (\A k \in DOMAIN under : Sound(under[k])) /\ Chained(under)
<1>1. DOMAIN under = 1..Len(under) /\ Len(under) \in Nat
    BY LenProperties
<1>2. PICK i \in Nat : \A k \in DOMAIN under : k + i \in DOMAIN stack /\ under[k] = stack[k+i]
    BY DEF UnderOf
<1>3. \A k \in DOMAIN under : Sound(under[k])
    BY <1>2 DEF FramesSound
<1>4. ASSUME NEW k \in DOMAIN under, NEW j \in DOMAIN under, k < j,
             under[k].mode = "check", under[j].mode = "run", under[k].node = under[j].node,
             under[j].node \in Computeds
      PROVE  Rechecked(under[k])
    <2>1. k + i < j + i
        BY <1>1, <1>2, <1>4
    <2> QED BY <1>2, <1>4, <2>1 DEF FramesSound, Chained
<1> QED BY <1>3, <1>4 DEF Chained

\* A step that touches no node and no owner.
LEMMA Untroubled ==
    ASSUME UNCHANGED <<clock, nodes, watched, life, target>>
    PROVE  /\ Supported => Supported'
           /\ Heard => Heard'
           /\ \A f : Sound(f) => Sound(f)'
           /\ \A f : Rechecked(f) => Rechecked(f)'
           /\ \A st : Chained(st) => Chained(st)'
<1>1. FreshOnes' = FreshOnes
    BY DEF FreshOnes, nodes
<1>2. Supported => Supported'
    BY <1>1 DEF Supported, nodes
<1>3. Heard => Heard'
    BY <1>1 DEF Heard, nodes
<1>4. \A f : Sound(f) => Sound(f)'
    BY <1>1 DEF Sound, Passed, Owed, Moved, nodes
<1>5. \A f : Rechecked(f) => Rechecked(f)'
    BY DEF Rechecked, nodes
<1>6. \A st : Chained(st) => Chained(st)'
    BY DEF Chained, Rechecked, nodes
<1> QED BY <1>2, <1>3, <1>4, <1>5, <1>6

\* A call, or a step of a validation.
LEMMA PushSound ==
    ASSUME Validated, UNCHANGED <<clock, nodes, watched, life, target>>,
           NEW under \in Seq(Frames), UnderOf(under), NEW g \in Frames, Sound(g),
           g.mode = "check" /\ g.node \in Computeds /\ ~RunFree(under, g.node) => Rechecked(g),
           stack' = <<g>> \o under
    PROVE  Validated' /\ (Heard => Heard')
<1>1. (\A k \in DOMAIN under : Sound(under[k])) /\ Chained(under)
    BY UnderSound DEF Validated
<1>2. (\A k \in DOMAIN under : Sound(under[k])') /\ Chained(under)' /\ Sound(g)' /\ Supported' /\ (Heard => Heard')
    BY <1>1, Untroubled DEF Validated
<1>3. g.mode = "check" /\ g.node \in Computeds /\ ~RunFree(under, g.node) => Rechecked(g)'
    BY Untroubled
<1>4. FramesSound'
    BY <1>2, <1>3, SoundOn
<1> QED BY <1>2, <1>4 DEF Validated

\* The whole stack is under a frame that is pushed on it.
LEMMA UnderAll == ASSUME GraphInv PROVE stack \in Seq(Frames) /\ UnderOf(stack)
<1>1. stack \in Seq(Frames) /\ DOMAIN stack = 1..Len(stack)
    BY LenProperties DEF GraphInv, StackOK
<1>2. \A k \in DOMAIN stack : k + 0 \in DOMAIN stack /\ stack[k] = stack[k+0]
    BY <1>1
<1> QED BY <1>1, <1>2 DEF UnderOf

\* A computed that is not fresh is entered where it stands.
LEMMA EnteredSound ==
    ASSUME GraphInv, FramesSound, NEW d \in Computeds, d \notin FreshOnes, NEW g, g = Entered(d)
    PROVE  /\ g \in Frames /\ Sound(g)
           /\ g.mode = "check" /\ g.node \in Computeds /\ ~RunFree(stack, g.node) => Rechecked(g)
<1>1. d \in Evaluated
    BY DEF Evaluated
<1>2. g \in Frames
    BY <1>1, EnteredFrame
<1>3. /\ g.node = d /\ g.pos = 0
      /\ g.mode = "run" <=> mark[d] = "dirty" \/ cache[d] = None
      /\ g.mode = "check" <=> ~(mark[d] = "dirty" \/ cache[d] = None)
    BY DEF Entered, Frame
<1>4. Passed(g)
    <2>1. 1..g.pos = {}
        BY <1>3
    <2> QED BY <2>1 DEF Passed
<1>5. Owed(g)
    BY <1>3 DEF Owed, Moved
<1>6. ASSUME g.mode = "check", ~RunFree(stack, d) PROVE Rechecked(g)
    <2>1. PICK j \in DOMAIN stack : stack[j].mode = "run" /\ stack[j].node = d
        BY <1>6 DEF RunFree
    <2>2. Moved(d)
        BY <2>1 DEF FramesSound, Sound, Owed
    <2>3. PICK e \in Members(deps[d]) : changedAt[e] > validAt[d]
        BY <1>3, <1>6, <2>2 DEF Moved
    <2>4. PICK k \in DOMAIN deps[d] : deps[d][k] = e
        BY DEF Members
    <2>5. k > 0
        BY <1>1, LenProperties DEF GraphInv, NodesOK, Graphs
    <2> QED BY <1>3, <2>3, <2>4, <2>5 DEF Rechecked
<1> QED BY <1>2, <1>3, <1>4, <1>5, <1>6 DEF Sound

\* A validation that has passed every dependency makes its node fresh, no other.
LEMMA Confirms ==
    ASSUME GraphInv, NEW n \in Evaluated, UNCHANGED <<clock, changedAt, cache, deps, watched>>,
           mark' = [mark EXCEPT ![n] = "clean"], validAt' = [validAt EXCEPT ![n] = clock]
    PROVE  PullStep(n)
<1>1. /\ mark \in [Evaluated -> Marks] /\ validAt \in [Evaluated -> 0..clock] /\ clock \in Nat
      /\ deps \in Graphs /\ ClocksOK
    BY DEF GraphInv, NodesOK, ClocksOK
<1>2. /\ mark'[n] = "clean" /\ validAt'[n] = clock
      /\ \A m \in Evaluated \ {n} : mark'[m] = mark[m] /\ validAt'[m] = validAt[m]
    BY <1>1
<1>3. FreshOnes \subseteq FreshOnes' /\ FreshOnes' \subseteq FreshOnes \cup {n}
    BY <1>2 DEF FreshOnes, FreshIn, Evaluated
<1>4. \A m \in FreshOnes : m \in Evaluated
    BY DEF FreshOnes, FreshIn, Evaluated
<1>5. \A m \in FreshOnes : validAt[m] = clock => validAt'[m] = clock
    BY <1>2, <1>4
<1>6. \A e \in Producers : changedAt[e] <= changedAt'[e]
    BY <1>1 DEF ClocksOK
<1>7. ASSUME NEW m \in Computeds \ {n} PROVE validAt'[m] <= validAt[m]
    <2>1. m \in Evaluated
        BY DEF Evaluated
    <2>2. validAt[m] \in 0..clock /\ validAt'[m] = validAt[m]
        BY <1>1, <1>2, <2>1
    <2> QED BY <1>1, <2>2
<1>8. Shifted(deps[n], deps'[n])
    <2>1. deps[n] \in Seq(Producers)
        BY <1>1 DEF Graphs
    <2> QED BY <2>1, ShiftedSelf
<1> QED BY <1>2, <1>3, <1>5, <1>6, <1>7, <1>8 DEF PullStep

\* One dependency confirmed, pulled, or found changed.
LEMMA CheckStepSound ==
    ASSUME GraphInv, GraphInv', Validated, CheckStep
    PROVE  Validated' /\ (Heard => Heard')
<1>f. PICK f : f = Top
    OBVIOUS
<1>n. PICK n : n = f.node
    OBVIOUS
<1>d. PICK d : d = deps[n][f.pos + 1]
    OBVIOUS
<1>u. PICK under : under = Below
    OBVIOUS
<1>1. /\ stack # <<>> /\ f.mode = "check"
      /\ UNCHANGED <<clock, changedAt, cache, async, deps, life, target, watched>>
      /\ \/ /\ f.pos = Len(deps[n])
            /\ mark' = [mark EXCEPT ![n] = "clean"] /\ validAt' = [validAt EXCEPT ![n] = clock]
            /\ stack' = under
         \/ /\ f.pos < Len(deps[n]) /\ UNCHANGED <<mark, validAt>>
            /\ \/ NeedsPull(d) /\ stack' = <<Entered(d)>> \o stack
               \/ changedAt[d] > validAt[n] /\ stack' = <<Frame(n, "run")>> \o under
               \/ /\ ~NeedsPull(d) /\ changedAt[d] <= validAt[n]
                  /\ stack' = <<[f EXCEPT !.pos = @ + 1]>> \o under
    BY <1>f, <1>n, <1>d, <1>u DEF CheckStep, Push, owners
<1>2. f \in Frames /\ under \in Seq(Frames) /\ UnderOf(under) /\ f = stack[1] /\ 1 \in DOMAIN stack
    BY <1>1, <1>f, <1>u, StackTop, UnderTop DEF GraphInv
<1>3. n \in Evaluated /\ f.pos \in Nat
    BY <1>2, <1>n DEF Frames
<1>4. Sound(f) /\ Supported /\ FramesSound
    BY <1>2 DEF Validated, FramesSound
<1>5. /\ mark \in [Evaluated -> Marks] /\ validAt \in [Evaluated -> 0..clock] /\ clock \in Nat
      /\ deps \in Graphs /\ ClocksOK /\ OwnersOK' /\ ClocksOK' /\ deps' \in Graphs
    BY DEF GraphInv, NodesOK, ClocksOK
<1>6. deps[n] \in Seq(Producers) /\ DOMAIN deps[n] = 1..Len(deps[n]) /\ Len(deps[n]) \in Nat
    <2>1. deps[n] \in Seq(Producers)
        BY <1>3, <1>5 DEF Graphs
    <2> QED BY <2>1, LenProperties
<1>7. CASE f.pos = Len(deps[n]) /\ mark' = [mark EXCEPT ![n] = "clean"]
           /\ validAt' = [validAt EXCEPT ![n] = clock] /\ stack' = under
    <2>1. /\ mark'[n] = "clean" /\ validAt'[n] = clock
          /\ \A m \in Evaluated \ {n} : mark'[m] = mark[m] /\ validAt'[m] = validAt[m]
        BY <1>3, <1>5, <1>7
    <2>2. /\ FreshOnes \subseteq FreshOnes' /\ FreshOnes' \subseteq FreshOnes \cup {n}
        BY <1>1, <2>1 DEF FreshOnes, FreshIn, Evaluated
    <2>3. Members(deps[n]) \cap Computeds \subseteq FreshOnes
        <3>1. \A k \in 1..f.pos : k <= Len(deps[n]) /\ deps[n][k] \in Computeds => deps[n][k] \in FreshOnes
            BY <1>4, <1>n DEF Sound, Passed
        <3>2. \A k \in 1..Len(deps[n]) : k <= Len(deps[n])
            BY <1>6
        <3> QED BY <1>6, <1>7, <3>1, <3>2 DEF Members
    <2>4. Supported'
        <3>1. Supports(deps, FreshOnes')
            BY <1>4, <2>2, <2>3 DEF Supported, Supports
        <3> QED BY <1>1, <1>4, <3>1 DEF Supported
    <2>5. PullStep(n)
        BY <1>1, <1>3, <1>7, Confirms
    <2>6. n \in Computeds => RunFree(under, n)
        <3> SUFFICES ASSUME n \in Computeds, NEW k \in DOMAIN under, under[k].mode = "run", under[k].node = n
                     PROVE  FALSE
            BY DEF RunFree
        <3>1. k+1 \in DOMAIN stack /\ under[k] = stack[k+1] /\ 1 < k+1
            <4>1. /\ DOMAIN stack = 1..Len(stack) /\ Len(stack) \in Nat /\ stack # <<>>
                  /\ DOMAIN Below = 1..Len(Below) /\ Len(Below) = Len(stack) - 1
                  /\ \A i \in 1..Len(Below) : Below[i] = stack[i+1]
                BY <1>1, HeadTailProperties, LenProperties DEF GraphInv, StackOK, Below
            <4> QED BY <1>u, <4>1
        <3>2. Rechecked(f)
            BY <1>1, <1>2, <1>4, <1>n, <3>1 DEF FramesSound, Chained
        <3>3. PICK j \in DOMAIN deps[n] : j > f.pos
            BY <1>n, <3>2 DEF Rechecked
        <3> QED BY <1>3, <1>6, <1>7, <3>3
    <2>7. (\A k \in DOMAIN under : Sound(under[k])') /\ Chained(under)'
        BY <1>2, <1>4, <1>5, <2>5, <2>6, UnderStays
    <2>8. FramesSound'
        BY <1>7, <2>7 DEF FramesSound, Chained
    <2>9. ASSUME Heard PROVE Heard'
        <3>1. \A e \in Effects \ {n} : deps'[e] = deps[e] /\ (mark'[e] = "clean" => mark[e] = "clean")
            BY <1>1, <2>1 DEF Evaluated
        <3>2. Members(deps'[n]) \cap Computeds \subseteq FreshOnes'
            BY <1>1, <2>2, <2>3
        <3> QED BY <1>1, <1>4, <1>5, <2>2, <2>9, <3>1, <3>2, HeardStays
    <2> QED BY <2>4, <2>8, <2>9 DEF Validated
<1>8. CASE f.pos < Len(deps[n]) /\ UNCHANGED <<mark, validAt>> /\ NeedsPull(d) /\ stack' = <<Entered(d)>> \o stack
    <2>1. UNCHANGED <<clock, nodes, watched, life, target>>
        BY <1>1, <1>8 DEF nodes
    <2>2. d \in Computeds /\ d \notin FreshOnes
        BY <1>8 DEF NeedsPull, IsFresh, FreshOnes, FreshIn, Watched
    <2>3. PICK g : g = Entered(d)
        OBVIOUS
    <2>4. PICK all : all = stack
        OBVIOUS
    <2>5. all \in Seq(Frames) /\ UnderOf(all)
        BY <2>4, UnderAll
    <2>6. /\ g \in Frames /\ Sound(g)
          /\ g.mode = "check" /\ g.node \in Computeds /\ ~RunFree(all, g.node) => Rechecked(g)
        BY <1>4, <2>2, <2>3, <2>4, EnteredSound
    <2>7. stack' = <<g>> \o all
        BY <1>8, <2>3, <2>4
    <2> QED BY <2>1, <2>5, <2>6, <2>7, PushSound
<1>9. CASE f.pos < Len(deps[n]) /\ UNCHANGED <<mark, validAt>> /\ changedAt[d] > validAt[n]
           /\ stack' = <<Frame(n, "run")>> \o under
    <2>1. UNCHANGED <<clock, nodes, watched, life, target>>
        BY <1>1, <1>9 DEF nodes
    <2>2. PICK g : g = Frame(n, "run")
        OBVIOUS
    <2>3. g \in Frames /\ g.node = n /\ g.mode = "run" /\ g.pos = 0
        BY <1>3, <2>2, EnteredFrame DEF Frame
    <2>4. f.pos + 1 \in DOMAIN deps[n] /\ d \in Members(deps[n]) /\ d \in Producers
        <3>1. f.pos + 1 \in DOMAIN deps[n]
            BY <1>3, <1>6, <1>9
        <3> QED BY <1>6, <1>d, <3>1, ElementOfSeq DEF Members
    <2>5. n \notin FreshOnes
        <3> SUFFICES ASSUME n \in FreshOnes PROVE FALSE
            OBVIOUS
        <3>1. n \in Computeds
            BY DEF FreshOnes, FreshIn
        <3>2. validAt[n] = clock
            BY <1>1, <1>4, <1>n, <3>1 DEF Sound, Owed
        <3>3. changedAt[d] \in 0..clock
            BY <1>5, <2>4 DEF ClocksOK
        <3> QED BY <1>5, <1>9, <3>2, <3>3
    <2>6. Sound(g)
        <3>1. 1..g.pos = {}
            BY <2>3
        <3> QED BY <1>9, <2>3, <2>4, <2>5, <3>1 DEF Sound, Passed, Owed, Moved
    <2>7. stack' = <<g>> \o under /\ g.mode # "check"
        BY <1>9, <2>2, <2>3
    <2> QED BY <1>2, <2>1, <2>3, <2>6, <2>7, PushSound
<1>10. CASE f.pos < Len(deps[n]) /\ UNCHANGED <<mark, validAt>> /\ ~NeedsPull(d) /\ changedAt[d] <= validAt[n]
            /\ stack' = <<[f EXCEPT !.pos = @ + 1]>> \o under
    <2>1. UNCHANGED <<clock, nodes, watched, life, target>>
        BY <1>1, <1>10 DEF nodes
    <2>2. PICK g : g = [f EXCEPT !.pos = @ + 1]
        OBVIOUS
    <2>3. g \in Frames /\ g.node = n /\ g.mode = "check" /\ g.pos = f.pos + 1
        <3>1. f \in Frames
            BY <1>2
        <3>2. f.mode = "check"
            BY <1>1
        <3> QED BY <1>n, <2>2, <3>1, <3>2 DEF Frames
    <2>4. d \in Computeds => d \in FreshOnes
        BY <1>10 DEF NeedsPull, IsFresh, FreshOnes, FreshIn, Watched
    <2>5. Passed(g)
        <3>1. \A k \in 1..g.pos : k \in 1..f.pos \/ k = f.pos + 1
            BY <1>3, <2>3
        <3>2. \A k \in 1..f.pos : k <= Len(deps[n]) /\ deps[n][k] \in Computeds => deps[n][k] \in FreshOnes
            BY <1>4, <1>n DEF Sound, Passed
        <3> QED BY <1>d, <2>3, <2>4, <3>1, <3>2 DEF Passed
    <2>6. Owed(g)
        BY <1>1, <1>4, <1>n, <2>3 DEF Sound, Owed
    <2>7. ASSUME g.node \in Computeds, ~RunFree(under, g.node) PROVE Rechecked(g)
        <3>1. PICK k \in DOMAIN under : under[k].mode = "run" /\ under[k].node = n
            BY <2>3, <2>7 DEF RunFree
        <3>2. k+1 \in DOMAIN stack /\ under[k] = stack[k+1] /\ 1 < k+1
            <4>1. /\ DOMAIN stack = 1..Len(stack) /\ Len(stack) \in Nat /\ stack # <<>>
                  /\ DOMAIN Below = 1..Len(Below) /\ Len(Below) = Len(stack) - 1
                  /\ \A i \in 1..Len(Below) : Below[i] = stack[i+1]
                BY <1>1, HeadTailProperties, LenProperties DEF GraphInv, StackOK, Below
            <4> QED BY <1>u, <4>1
        <3>3. Rechecked(f)
            BY <1>1, <1>2, <1>4, <1>n, <2>3, <2>7, <3>1, <3>2 DEF FramesSound, Chained
        <3>4. PICK j \in DOMAIN deps[n] : j > f.pos /\ changedAt[deps[n][j]] > validAt[n]
            BY <1>n, <3>3 DEF Rechecked
        <3>5. j # f.pos + 1
            <4> SUFFICES ASSUME j = f.pos + 1 PROVE FALSE
                OBVIOUS
            <4>1. changedAt[d] > validAt[n] /\ d \in Producers
                BY <1>6, <1>d, <3>4, ElementOfSeq
            <4>2. changedAt[d] \in 0..clock /\ validAt[n] \in 0..clock
                BY <1>3, <1>5, <4>1 DEF ClocksOK
            <4> QED BY <1>5, <1>10, <4>1, <4>2
        <3>6. j > f.pos + 1
            BY <1>3, <1>6, <3>4, <3>5
        <3> QED BY <2>3, <3>4, <3>6 DEF Rechecked
    <2>8. stack' = <<g>> \o under
        BY <1>10, <2>2
    <2> QED BY <1>2, <2>1, <2>3, <2>5, <2>6, <2>7, <2>8, PushSound DEF Sound
<1> QED BY <1>1, <1>7, <1>8, <1>9, <1>10

\* An evaluation ends, whatever its outcome.
Concludes(f, at, under) == \E value, outcome, changed : Finish(f, at, under, value, outcome, changed)

\* It does when it settles, throws or parks.
LEMMA ItConcludes ==
    ASSUME NEW f, NEW at
    PROVE  /\ \A v : Settled(f, at, v) => Concludes(f, at, Below)
           /\ \A p : Parked(f, at, p) => Concludes(f, at, Below)
           /\ \A under, reason : Threw(f, at, under, reason) => Concludes(f, at, under)
<1>1. \A v : Settled(f, at, v) => Concludes(f, at, Below)
    <2> SUFFICES ASSUME NEW v, Settled(f, at, v) PROVE Concludes(f, at, Below)
        OBVIOUS
    <2> QED BY Zenon DEF Settled, Concludes
<1>2. \A p : Parked(f, at, p) => Concludes(f, at, Below)
    <2> SUFFICES ASSUME NEW p, Parked(f, at, p) PROVE Concludes(f, at, Below)
        OBVIOUS
    <2> QED BY Zenon DEF Parked, Concludes
<1>3. \A under, reason : Threw(f, at, under, reason) => Concludes(f, at, under)
    <2> SUFFICES ASSUME NEW under, NEW reason, Threw(f, at, under, reason) PROVE Concludes(f, at, under)
        OBVIOUS
    <2> QED BY Zenon DEF Threw, Concludes
<1> QED BY <1>1, <1>2, <1>3

\* The evaluation on top ends.
LEMMA TopEnds ==
    ASSUME GraphInv, GraphInv', Validated, Steady, stack # <<>>, Top.mode = "run",
           NEW at, Advances(Top, at), Concludes(Top, at, Below)
    PROVE  Validated' /\ (Heard => Heard') /\ PullStep(Top.node)
<1>f. PICK f : f = Top
    OBVIOUS
<1>u. PICK under : under = Below
    OBVIOUS
<1>1. /\ under \in Seq(Frames) /\ UnderOf(under) /\ f = stack[1] /\ 1 \in DOMAIN stack
      /\ f.mode = "run" /\ Advances(f, at) /\ Concludes(f, at, under)
    BY <1>f, <1>u, UnderTop
<1>2. RunFree(under, f.node)
    BY <1>f, <1>u, StackTop DEF GraphInv
<1>3. PICK value, outcome, changed : Finish(f, at, under, value, outcome, changed)
    BY <1>1 DEF Concludes
<1>4. clock' = clock
    BY DEF Steady
<1> QED BY <1>f, <1>1, <1>2, <1>3, <1>4, FinishSound

\* What the body on top reads extends its frame.
LEMMA TopAdvances ==
    ASSUME BodiesAreWellTyped, GraphInv, Validated, NEW op, Running(op)
    PROVE  /\ Advances(Top, Untouched(Top))
           /\ \A d \in Producers : (d \in Computeds => d \in FreshOnes) => Advances(Top, Tracked(Top, d))
<1>f. PICK f : f = Top
    OBVIOUS
<1>1. /\ f \in Frames /\ f.pos <= Len(deps[f.node]) /\ stack # <<>>
    BY <1>f, RunningFrame
<1>2. f = stack[1] /\ 1 \in DOMAIN stack
    BY <1>f, <1>1, UnderTop
<1>3. Passed(f)
    BY <1>2 DEF Validated, FramesSound, Sound
<1>4. deps \in Graphs
    BY DEF GraphInv, NodesOK
<1>5. ASSUME NEW d \in Producers, d \in Computeds => d \in FreshOnes
      PROVE  Advances(f, Tracked(f, d))
    BY <1>1, <1>3, <1>4, <1>5, ReadAdvances
<1>6. Advances(f, Untouched(f))
    <2>1. Spot(Untouched(f))
        BY <1>f, RunningFrame
    <2> QED BY <1>1, <1>3, <1>4, <2>1, UntouchedAdvances
<1> QED BY <1>5, <1>6, <1>f

\* A body reads an atom, ...
LEMMA ReadAtomSound ==
    ASSUME BodiesAreWellTyped, GraphInv, GraphInv', Validated, ReadAtom
    PROVE  Validated' /\ (Heard => Heard')
<1>a. PICK a : a = Instruction.of
    OBVIOUS
<1>1. /\ Running("read") /\ a \in Atoms /\ Steady
      /\ Continue(Top, Tracked(Top, a), val[a])
    BY <1>a, QuietIsSteady DEF ReadAtom
<1>2. val[a] \in Values /\ a \in Producers /\ a \notin Computeds
    BY <1>1, KindsAssumption DEF GraphInv, ClocksOK, Producers, Evaluated
<1>3. stack # <<>> /\ Top.mode = "run" /\ clock' = clock
    BY <1>1, RunningFrame DEF Steady
<1>4. Advances(Top, Tracked(Top, a))
    BY <1>1, <1>2, TopAdvances
<1> QED BY <1>1, <1>2, <1>3, <1>4, ContinueSound

\* ... calls a computed that is not fresh, ...
LEMMA PullDependencySound ==
    ASSUME GraphInv, Validated, PullDependency
    PROVE  Validated' /\ (Heard => Heard')
<1>d. PICK d : d = Instruction.of
    OBVIOUS
<1>1. NeedsPull(d) /\ stack' = <<Entered(d)>> \o stack
    BY <1>d DEF PullDependency, Push
<1>2. UNCHANGED <<clock, nodes, watched, life, target>>
    BY DEF PullDependency, Quiet, owners
<1>3. d \in Computeds /\ d \notin FreshOnes
    BY <1>1 DEF NeedsPull, IsFresh, FreshOnes, FreshIn, Watched
<1>4. PICK g : g = Entered(d)
    OBVIOUS
<1>5. PICK all : all = stack
    OBVIOUS
<1>6. all \in Seq(Frames) /\ UnderOf(all)
    BY <1>5, UnderAll
<1>7. /\ g \in Frames /\ Sound(g)
      /\ g.mode = "check" /\ g.node \in Computeds /\ ~RunFree(all, g.node) => Rechecked(g)
    BY <1>3, <1>4, <1>5, EnteredSound DEF Validated
<1>8. stack' = <<g>> \o all
    BY <1>1, <1>4, <1>5
<1> QED BY <1>2, <1>6, <1>7, <1>8, PushSound

\* ... goes on with what a fresh one has, ...
LEMMA ReadComputedSound ==
    ASSUME BodiesAreWellTyped, GraphInv, GraphInv', Validated, ReadComputed
    PROVE  Validated' /\ (Heard => Heard')
<1>d. PICK d : d = Instruction.of
    OBVIOUS
<1>1. /\ Running("read") /\ d \in Computeds /\ IsFresh(d) /\ Steady
      /\ \/ async[d].kind = "plain" /\ Continue(Top, Tracked(Top, d), cache[d])
         \/ Threw(Top, Tracked(Top, d), Below, async[d].of)
         \/ Parked(Top, Tracked(Top, d), async[d].of)
         \/ cache[d] # None /\ Continue(Top, Tracked(Top, d), cache[d])
    BY <1>d, QuietIsSteady DEF ReadComputed
<1>2. d \in Producers /\ d \in Evaluated /\ mark[d] = "clean" /\ d \in FreshOnes
    BY <1>1 DEF Producers, Evaluated, IsFresh, FreshOnes, FreshIn, Watched
<1>3. stack # <<>> /\ Top.mode = "run" /\ clock' = clock
    BY <1>1, RunningFrame DEF Steady
<1>4. PICK at : at = Tracked(Top, d)
    OBVIOUS
<1>5. Advances(Top, at)
    BY <1>1, <1>2, <1>4, TopAdvances
<1>6. cache[d] \in Values \cup {None} /\ (async[d].kind = "plain" => cache[d] \in Values)
    <2>1. cache[d] \in Values \cup {None}
        BY <1>2 DEF GraphInv, NodesOK
    <2>2. async[d].kind = "plain" => async[d] = Plain
        BY <1>2 DEF GraphInv, NodesOK, AsyncOK, Suspended
    <2> QED BY <1>1, <1>2, <2>1, <2>2 DEF GraphInv, NodesOK, Serving
<1>7. CASE cache[d] \in Values /\ Continue(Top, at, cache[d])
    BY <1>3, <1>5, <1>7, ContinueSound
<1>8. CASE Concludes(Top, at, Below)
    BY <1>1, <1>3, <1>5, <1>8, TopEnds
<1>9. Concludes(Top, at, Below) \/ (cache[d] \in Values /\ Continue(Top, at, cache[d]))
    BY <1>1, <1>4, <1>6, ItConcludes
<1> QED BY <1>7, <1>8, <1>9

\* ... unwraps a thenable, ...
LEMMA UseThenableSound ==
    ASSUME BodiesAreWellTyped, GraphInv, GraphInv', Validated, UseThenable
    PROVE  Validated' /\ (Heard => Heard')
<1>t. PICK t : t = Instruction.of
    OBVIOUS
<1>1. /\ Running("use") /\ Steady
      /\ \/ Parked(Top, Untouched(Top), t)
         \/ status[t] = "fulfilled" /\ Continue(Top, Untouched(Top), result[t])
         \/ Threw(Top, Untouched(Top), Below, Rejection)
    BY <1>t, QuietIsSteady DEF UseThenable
<1>2. t \in Thenables
    BY <1>1, <1>t, RunningFrame DEF WellTyped
<1>3. status[t] = "fulfilled" => result[t] \in Values
    BY <1>2 DEF GraphInv, BoxesOK
<1>4. stack # <<>> /\ Top.mode = "run" /\ clock' = clock
    BY <1>1, RunningFrame DEF Steady
<1>5. PICK at : at = Untouched(Top)
    OBVIOUS
<1>6. Advances(Top, at)
    BY <1>1, <1>5, TopAdvances
<1>7. CASE result[t] \in Values /\ Continue(Top, at, result[t])
    BY <1>4, <1>6, <1>7, ContinueSound
<1>8. CASE Concludes(Top, at, Below)
    BY <1>1, <1>4, <1>6, <1>8, TopEnds
<1>9. Concludes(Top, at, Below) \/ (result[t] \in Values /\ Continue(Top, at, result[t]))
    BY <1>1, <1>3, <1>5, ItConcludes
<1> QED BY <1>7, <1>8, <1>9

\* ... ends.
LEMMA ReturnSound ==
    ASSUME BodiesAreWellTyped, GraphInv, GraphInv', Validated, Return
    PROVE  Validated' /\ (Heard => Heard')
<1>1. Steady
    BY QuietIsSteady DEF Return
<1>2. PICK op : Running(op) /\ Concludes(Top, Untouched(Top), Below)
    BY ItConcludes DEF Return
<1>3. stack # <<>> /\ Top.mode = "run"
    BY <1>2, RunningFrame
<1>4. PICK at : at = Untouched(Top)
    OBVIOUS
<1>5. Advances(Top, at)
    BY <1>2, <1>4, TopAdvances
<1> QED BY <1>1, <1>2, <1>3, <1>4, <1>5, TopEnds

\* A node pulled while it is evaluated ends the nearest evaluation.
LEMMA ThrowCycleSound ==
    ASSUME GraphInv, GraphInv', Validated, ThrowCycle
    PROVE  Validated' /\ (Heard => Heard')
<1> DEFINE runs == {j \in DOMAIN stack : stack[j].mode = "run"}
           least == CHOOSE j \in runs : \A k \in runs : j <= k
<1>1. /\ Steady
      /\ IF runs = {}
         THEN stack' = <<>> /\ UNCHANGED <<nodes, owners, boxes>>
         ELSE Threw(stack[least], Untouched(stack[least]), SubSeq(stack, least + 1, Len(stack)), Cycle)
    BY QuietIsSteady DEF ThrowCycle
<1>2. CASE runs = {}
    <2>1. UNCHANGED <<clock, nodes, watched, life, target>>
        BY <1>1, <1>2 DEF Steady, owners
    <2>2. Supported' /\ (Heard => Heard')
        BY <2>1, Untroubled DEF Validated
    <2>3. FramesSound'
        BY <1>1, <1>2 DEF FramesSound, Chained
    <2> QED BY <2>2, <2>3 DEF Validated
<1>3. CASE runs # {}
    <2>1. runs \in SUBSET Nat
        BY LenProperties DEF GraphInv, StackOK
    <2>2. least \in runs
        <3> HIDE DEF runs
        <3>1. \E j \in runs : \A k \in runs : j <= k
            BY <1>3, <2>1, LeastNatural
        <3> QED BY <3>1
    <2>i. PICK i : i = least
        OBVIOUS
    <2>f. PICK f : f = stack[i]
        OBVIOUS
    <2>u. PICK under : under = SubSeq(stack, i + 1, Len(stack))
        OBVIOUS
    <2>a. PICK at : at = Untouched(f)
        OBVIOUS
    <2>3. i \in DOMAIN stack /\ f.mode = "run"
        BY <2>2, <2>i, <2>f
    <2>4. Threw(f, at, under, Cycle) /\ clock' = clock
        BY <1>1, <1>3, <2>i, <2>f, <2>u, <2>a DEF Steady
    <2> HIDE DEF least, runs
    <2>5. f \in Frames /\ FrameOK(f, deps, cache) /\ RunFree(under, f.node)
        BY <2>3, <2>f, <2>u, StackUnder DEF GraphInv
    <2>6. under \in Seq(Frames) /\ UnderOf(under)
        BY <2>3, <2>u, UnderAny
    <2>7. Advances(f, at)
        <3>1. f.node \in Evaluated /\ f.pos \in Nat /\ f.pos <= Len(deps[f.node])
            BY <2>3, <2>5 DEF Frames, FrameOK
        <3>2. Spot(Untouched(f))
            BY <3>1 DEF GraphInv, NodesOK, Graphs, Spot, Untouched
        <3>3. Passed(f)
            BY <2>3, <2>f DEF Validated, FramesSound, Sound
        <3>4. deps \in Graphs
            BY DEF GraphInv, NodesOK
        <3> QED BY <2>5, <2>a, <3>2, <3>3, <3>4, UntouchedAdvances
    <2>8. PICK value, outcome, changed : Finish(f, at, under, value, outcome, changed)
        BY <2>4, ItConcludes DEF Concludes
    <2> QED BY <2>3, <2>4, <2>5, <2>6, <2>7, <2>8, <2>f, FinishSound
<1> QED BY <1>2, <1>3

\* Every step of a pull.
LEMMA PullSound ==
    ASSUME BodiesAreWellTyped, GraphInv, GraphInv', Validated, Pull
    PROVE  Validated' /\ (Heard => Heard')
BY CheckStepSound, ReadAtomSound, PullDependencySound, ReadComputedSound, UseThenableSound,
   ReturnSound, ThrowCycleSound DEF Pull

-----------------------------------------------------------------------------
(***************************************************************************)
(* Between pulls: the wave, the owners, what has not been created.         *)
(***************************************************************************)
\* What a stack of one frame, or of none, needs.
LEMMA OneSound ==
    /\ stack' = <<>> => FramesSound'
    /\ \A g : stack' = <<g>> /\ Sound(g)' => FramesSound'
<1>1. stack' = <<>> => FramesSound'
    BY DEF FramesSound, Chained
<1>2. ASSUME NEW g, stack' = <<g>>, Sound(g)' PROVE FramesSound'
    <2>1. DOMAIN stack' = {1} /\ stack'[1] = g
        BY <1>2
    <2>2. \A i, j \in DOMAIN stack' : ~(i < j)
        BY <2>1
    <2> QED BY <1>2, <2>1, <2>2 DEF FramesSound, Chained
<1> QED BY <1>1, <1>2

\* A step of the program that touches no node: it may call a node that is not fresh.
LEMMA CallSound ==
    ASSUME GraphInv, Validated, UNCHANGED <<clock, nodes, watched, life, target>>,
           \/ stack' = <<>>
           \/ \E d \in Effects : stack' \in {<<Entered(d)>>, <<Frame(d, "run")>>}
           \/ \E d \in Computeds : d \notin FreshOnes /\ stack' = <<Entered(d)>>
    PROVE  Validated' /\ (Heard => Heard')
<1>1. Supported' /\ (Heard => Heard')
    BY Untroubled DEF Validated
<1>2. CASE stack' = <<>>
    BY <1>1, <1>2, OneSound DEF Validated
<1>3. ASSUME NEW d \in Effects, NEW g, g \in {Entered(d), Frame(d, "run")}, stack' = <<g>> PROVE FramesSound'
    <2>1. g.node = d /\ g.pos = 0 /\ d \notin Computeds
        BY <1>3, KindsAssumption DEF Entered, Frame, Sinks
    <2>2. 1..g.pos = {}
        BY <2>1
    <2>3. Sound(g)
        BY <2>1, <2>2 DEF Sound, Passed, Owed
    <2> QED BY <1>3, <2>3, OneSound, Untroubled
<1>4. ASSUME NEW d \in Computeds, d \notin FreshOnes, NEW g, g = Entered(d), stack' = <<g>> PROVE FramesSound'
    <2>1. Sound(g)
        BY <1>4, EnteredSound DEF Validated
    <2> QED BY <1>4, <2>1, OneSound, Untroubled
<1>5. CASE \E d \in Effects : stack' \in {<<Entered(d)>>, <<Frame(d, "run")>>}
    BY <1>1, <1>3, <1>5 DEF Validated
<1>6. CASE \E d \in Computeds : d \notin FreshOnes /\ stack' = <<Entered(d)>>
    BY <1>1, <1>4, <1>6 DEF Validated
<1> QED BY <1>2, <1>5, <1>6

\* A reading of the clock later, what is marked clean and watched is fresh still
\* when its dependencies are.
LEMMA Ticked ==
    ASSUME GraphInv, Validated, clock' = clock + 1, UNCHANGED <<watched, validAt, deps, life, target>>,
           \A n \in watched \cap Computeds : mark'[n] = "clean" =>
               \A c \in Members(deps[n]) \cap Computeds : mark'[c] = "clean"
    PROVE  /\ Supported'
           /\ (\A n \in watched \cap Effects : mark'[n] = "clean" =>
                  \A c \in Members(deps[n]) \cap Computeds : mark'[c] = "clean") => Heard'
<1>1. clock \in Nat /\ \A n \in Computeds : validAt[n] \in 0..clock
    BY DEF GraphInv, ClocksOK, Evaluated
<1>2. FreshOnes' = {n \in Computeds : mark'[n] = "clean" /\ n \in watched}
    <2>1. \A n \in Computeds : validAt'[n] # clock'
        BY <1>1
    <2> QED BY <2>1 DEF FreshOnes, FreshIn
<1>3. \A n \in watched \cap Evaluated : Members(deps[n]) \subseteq watched
    BY DEF Validated, Supported, WatchedOK
<1>4. Supports(deps', FreshOnes')
    BY <1>2, <1>3 DEF Supports, Evaluated
<1>5. Supported'
    BY <1>4 DEF Validated, Supported
<1>6. (\A n \in watched \cap Effects : mark'[n] = "clean" =>
          \A c \in Members(deps[n]) \cap Computeds : mark'[c] = "clean") => Heard'
    BY <1>2, <1>3 DEF Heard, Evaluated
<1> QED BY <1>5, <1>6

\* The wave stops where everything is marked: below a node it leaves clean
\* nothing else is stale.
LEMMA WaveTells ==
    ASSUME NEW d, NEW mk \in [Evaluated -> Marks], Wave(d, mk),
           NEW n \in watched \cap Evaluated, mark'[n] = "clean", NEW c \in Members(deps[n]) \cap Computeds,
           mk[c] = "clean" \/ c = d
    PROVE  mark'[c] = "clean"
<1> DEFINE ring == Subscribers(d)
           below == UNION {Subscribers(m) : m \in Opened(d, mk)}
<1>1. mark' = [m \in Evaluated |->
                    IF m \in ring THEN "dirty"
                    ELSE IF m \in below /\ mk[m] = "clean" THEN "check"
                    ELSE mk[m]]
    BY DEF Wave
<1>2. PICK W : W = Opened(d, mk)
    OBVIOUS
<1>3. CleanOf(mk, Subscribers(d)) \subseteq W /\ \A m \in W : CleanOf(mk, Subscribers(m)) \subseteq W
    BY <1>2, OpenedCloses
<1>4. below = UNION {Subscribers(m) : m \in W}
    BY <1>2
<1> HIDE DEF ring, below
<1>5. n \notin ring /\ n \notin below /\ mk[n] = "clean"
    BY <1>1
<1>6. n \in Subscribers(c)
    BY DEF Subscribers, Watched
<1>7. c # d /\ mk[c] = "clean" /\ c \in Evaluated
    BY <1>5, <1>6 DEF ring, Evaluated
<1>8. c \notin W
    BY <1>4, <1>5, <1>6
<1>9. c \notin ring
    BY <1>3, <1>7, <1>8 DEF ring, CleanOf
<1>10. c \notin below
    BY <1>3, <1>4, <1>7, <1>8 DEF CleanOf
<1> QED BY <1>1, <1>7, <1>9, <1>10

\* Before the wave, too, nothing stale is under a clean watched node.
LEMMA CleanBelow ==
    ASSUME Validated, NEW n \in watched, mark[n] = "clean", NEW c \in Members(deps[n]) \cap Computeds,
           n \in Computeds \/ (n \in Effects /\ Heard)
    PROVE  mark[c] = "clean"
<1>1. CASE n \in Computeds
    BY <1>1 DEF Validated, Supported, Supports, FreshOnes, FreshIn
<1>2. CASE n \in Effects /\ Heard
    BY <1>2 DEF Heard, FreshOnes, FreshIn
<1> QED BY <1>1, <1>2

\* A change of d, with its wave.
LEMMA WaveSound ==
    ASSUME GraphInv, Validated, clock' = clock + 1, UNCHANGED <<watched, validAt, deps, life, target>>,
           NEW d, NEW mk \in [Evaluated -> Marks], Wave(d, mk),
           \A n \in Evaluated : n # d => mk[n] = mark[n], d \in Evaluated => mk[d] # "clean"
    PROVE  Supported' /\ (Heard => Heard')
<1>1. ASSUME NEW n \in watched \cap Evaluated, mark'[n] = "clean" PROVE mark[n] = "clean"
    <2>1. mk[n] = "clean"
        BY <1>1 DEF Wave
    <2> QED BY <2>1
<1>2. ASSUME NEW n \in watched \cap Evaluated, mark'[n] = "clean", NEW c \in Members(deps[n]) \cap Computeds,
             n \in Computeds \/ (n \in Effects /\ Heard)
      PROVE  mark'[c] = "clean"
    <2>1. mark[c] = "clean"
        BY <1>1, <1>2, CleanBelow
    <2>2. mk[c] = "clean" \/ c = d
        BY <2>1 DEF Evaluated
    <2> QED BY <1>2, <2>2, WaveTells
<1>3. \A n \in watched \cap Computeds : mark'[n] = "clean" =>
          \A c \in Members(deps[n]) \cap Computeds : mark'[c] = "clean"
    BY <1>2 DEF Evaluated
<1>4. Heard => \A n \in watched \cap Effects : mark'[n] = "clean" =>
          \A c \in Members(deps[n]) \cap Computeds : mark'[c] = "clean"
    BY <1>2 DEF Evaluated
<1> QED BY <1>3, <1>4, Ticked

\* A write.
LEMMA WriteSound ==
    ASSUME GraphInv, Validated, NEW a \in Atoms, NEW v \in Values, Write(a, v)
    PROVE  Validated' /\ (Heard => Heard')
<1>m. PICK mk : mk = mark
    OBVIOUS
<1>1. /\ clock' = clock + 1 /\ Wave(a, mk) /\ stack' = <<>>
      /\ UNCHANGED <<watched, validAt, deps, life, target>>
    BY <1>m DEF Write, Ready, owners
<1>2. mk \in [Evaluated -> Marks] /\ a \notin Evaluated /\ \A n \in Evaluated : mk[n] = mark[n]
    BY <1>m, KindsAssumption DEF GraphInv, NodesOK
<1>3. Supported' /\ (Heard => Heard')
    BY <1>1, <1>2, WaveSound
<1> QED BY <1>1, <1>3, OneSound DEF Validated

\* A thenable settles.
LEMMA SettleSound ==
    ASSUME GraphInv, Validated, NEW p, NEW how, NEW v, Settle(p, how, v)
    PROVE  Validated' /\ (Heard => Heard')
<1>1. /\ clock' = clock + 1 /\ mark' = mark /\ stack' = <<>>
      /\ UNCHANGED <<watched, validAt, deps, life, target>>
    BY DEF Settle, Ready, owners, nodes
<1>2. \A n \in watched \cap Computeds : mark'[n] = "clean" =>
          \A c \in Members(deps[n]) \cap Computeds : mark'[c] = "clean"
    BY <1>1, CleanBelow
<1>3. Heard => \A n \in watched \cap Effects : mark'[n] = "clean" =>
          \A c \in Members(deps[n]) \cap Computeds : mark'[c] = "clean"
    BY <1>1, CleanBelow
<1>4. Supported' /\ (Heard => Heard')
    BY <1>1, <1>2, <1>3, Ticked
<1> QED BY <1>1, <1>4, OneSound DEF Validated

\* One that was parked on it is marked and evaluated.
LEMMA SettleNodeSound ==
    ASSUME GraphInv, Validated, NEW n \in Evaluated, SettleNode(n)
    PROVE  Validated' /\ (Heard => Heard')
<1>m. PICK mk : mk = [mark EXCEPT ![n] = "dirty"]
    OBVIOUS
<1>g. PICK g : g = Frame(n, "run")
    OBVIOUS
<1>1. /\ clock' = clock + 1 /\ stack' = <<g>>
      /\ IF n \in Effects THEN mark' = mk ELSE Wave(n, mk)
      /\ UNCHANGED <<watched, validAt, deps, life, target>>
    BY <1>m, <1>g DEF SettleNode, owners
<1>2. mk \in [Evaluated -> Marks] /\ mk[n] = "dirty" /\ \A k \in Evaluated : k # n => mk[k] = mark[k]
    BY <1>m DEF GraphInv, NodesOK, Marks
<1>3. ASSUME n \in Effects PROVE Supported' /\ (Heard => Heard')
    <2>0. n \notin Computeds
        BY <1>3, KindsAssumption DEF Sinks
    <2>1. \A k \in Computeds : mark'[k] = mark[k]
        BY <1>1, <1>2, <1>3, <2>0 DEF Evaluated
    <2>2. \A k \in Effects : mark'[k] = "clean" => mark[k] = "clean"
        BY <1>1, <1>2, <1>3 DEF Evaluated
    <2>3. \A k \in watched \cap Computeds : mark'[k] = "clean" =>
              \A c \in Members(deps[k]) \cap Computeds : mark'[c] = "clean"
        BY <2>1, CleanBelow
    <2>4. ASSUME Heard, NEW k \in watched \cap Effects, mark'[k] = "clean", NEW c \in Members(deps[k]) \cap Computeds
          PROVE  mark'[c] = "clean"
        <3>1. mark[k] = "clean"
            BY <2>2, <2>4
        <3>2. mark[c] = "clean"
            BY <2>4, <3>1, CleanBelow
        <3> QED BY <2>1, <3>2
    <2> QED BY <1>1, <2>3, <2>4, Ticked
<1>4. ASSUME n \notin Effects PROVE Supported' /\ (Heard => Heard')
    BY <1>1, <1>2, <1>4, WaveSound
<1>5. Sound(g)'
    <2>1. g.node = n /\ g.pos = 0 /\ g.mode = "run"
        BY <1>g DEF Frame
    <2>2. 1..g.pos = {}
        BY <2>1
    <2>3. ASSUME n \in Computeds PROVE n \notin FreshOnes' /\ Moved(n)'
        <3>1. n \notin Effects
            BY <2>3, KindsAssumption DEF Sinks
        <3>2. mark'[n] = "dirty"
            BY <1>1, <1>2, <3>1 DEF Wave
        <3> QED BY <3>2 DEF Moved, FreshOnes, FreshIn
    <2> QED BY <2>1, <2>2, <2>3 DEF Sound, Passed, Owed
<1> QED BY <1>1, <1>3, <1>4, <1>5, OneSound DEF Validated

\* Whoever owns edges lets go of some, or takes one.
LEMMA OwnersSound ==
    ASSUME GraphInv, Validated, OwnersOK', stack = <<>>, stack' = <<>>, clock' = clock,
           NEW ds \in Graphs, NEW lf, NEW tg \in [Watchers -> Producers \cup {None}], NEW t,
           Relink(ds, lf, tg, mark, validAt), Alive(lf) \subseteq Alive(life),
           \A n \in Evaluated : ds[n] = deps[n] \/ (n = t /\ ds[n] = <<>>)
    PROVE  Validated' /\ (Heard => Heard') /\ FreshOnes \subseteq FreshOnes'
<1>m. PICK mk : mk = mark
    OBVIOUS
<1>v. PICK va : va = validAt
    OBVIOUS
<1>a. PICK A : A = FreshIn(mk, watched, va, clock)
    OBVIOUS
<1>b. PICK B : B = FreshIn(mark', watched', validAt', clock)
    OBVIOUS
<1>1. A = FreshOnes /\ B = FreshOnes'
    BY <1>m, <1>v, <1>a, <1>b DEF FreshOnes
<1>2. /\ mk \in [Evaluated -> Marks] /\ va \in [Evaluated -> 0..clock] /\ ClocksOK /\ OwnersOK
      /\ WatchedOK(deps, watched, life, target) /\ Supports(deps, FreshOnes) /\ Ordered(deps)
    BY <1>m, <1>v DEF GraphInv, ClocksOK, NodesOK, Validated, Supported
<1>3. Relink(ds, lf, tg, mk, va) /\ deps' = ds /\ life' = lf /\ target' = tg
    BY <1>m, <1>v DEF Relink
<1>4. \A n \in Computeds : Members(ds[n]) \subseteq Members(deps[n])
    <2>1. Members(<<>>) = {}
        BY DEF Members
    <2> QED BY <2>1 DEF Evaluated
<1>5. Supports(ds, A)
    <2>1. A \subseteq Computeds
        BY <1>a DEF FreshIn
    <2> QED BY <1>1, <1>2, <1>4, <2>1 DEF Supports
<1>6. FreshMoved(ds, mk, va, A, B)
    <2>1. \A n \in Gained : va[n] = validAt[n]
        BY <1>v
    <2>2. ClocksOK /\ WatchedOK(deps, watched, life, target)
        BY <1>2
    <2>3. Relink(ds, lf, tg, mk, va)
        BY <1>3
    <2>4. mk \in [Evaluated -> Marks] /\ va \in [Evaluated -> 0..clock]
        BY <1>2
    <2> QED BY <1>5, <1>a, <1>b, <2>1, <2>2, <2>3, <2>4, RelinkFresh
<1>7. Computing = {}
    BY DEF Computing
<1>8. Supports(deps', FreshOnes')
    BY <1>1, <1>3, <1>6, <1>7 DEF FreshMoved
<1>9. WatchedOK(deps', watched', life', target')
    <2>1. WatchedOK(ds, watched', lf, tg)
        BY <1>2, <1>3, RelinkWatches
    <2> QED BY <1>3, <2>1
<1>10. Ordered(deps')
    <2> SUFFICES ASSUME NEW X \in SUBSET Computeds, X # {} PROVE \E x \in X : \A y \in X : x \notin Members(ds[y])
        BY <1>3 DEF Ordered
    <2>1. PICK x \in X : \A y \in X : x \notin Members(deps[y])
        BY <1>2 DEF Ordered
    <2>2. \A y \in X : x \notin Members(ds[y])
        BY <1>4, <2>1
    <2> QED BY <2>2
<1>11. Validated'
    BY <1>8, <1>9, <1>10, OneSound DEF Validated, Supported
<1>12. ASSUME Heard PROVE Heard'
    <2>1. \A e \in Evaluated : mark'[e] = "clean" => mark[e] = "clean"
        BY <1>2, <1>3, <1>m, RelinkKeeps
    <2>2. FreshOnes \subseteq FreshOnes'
        BY <1>1, <1>6 DEF FreshMoved
    <2>3. \A e \in Effects \ {t} : deps'[e] = deps[e] /\ (mark'[e] = "clean" => mark[e] = "clean")
        BY <1>3, <2>1 DEF Evaluated
    <2>4. t \in Effects =>
               \/ Members(deps'[t]) \cap Computeds \subseteq FreshOnes'
               \/ /\ mark'[t] = "clean" => mark[t] = "clean"
                  /\ Members(deps'[t]) \cap Computeds \subseteq Members(deps[t]) \cup FreshOnes'
        <3>1. Members(<<>>) = {}
            BY DEF Members
        <3> QED BY <1>3, <2>1, <3>1 DEF Evaluated
    <2>5. Supported /\ Alive(life') \subseteq Alive(life)
        BY <1>3 DEF Validated
    <2> QED BY <1>12, <2>2, <2>3, <2>4, <2>5, HeardStays
<1> QED BY <1>1, <1>6, <1>11, <1>12 DEF FreshMoved

\* A subscription comes or goes.
LEMMA WatchSound ==
    ASSUME GraphInv, GraphInv', Validated, NEW w \in Watchers,
           (\E n \in Watchable : Subscribe(w, n)) \/ Unsubscribe(w)
    PROVE  Validated' /\ (Heard => Heard') /\ FreshOnes \subseteq FreshOnes'
<1>d. PICK ds : ds = deps
    OBVIOUS
<1>l. PICK lf : lf = life
    OBVIOUS
<1>1. /\ stack = <<>> /\ stack' = <<>> /\ clock' = clock
      /\ \E n \in Watchable \cup {None} : Relink(deps, life, [target EXCEPT ![w] = n], mark, validAt)
    BY DEF Subscribe, Unsubscribe, Ready
<1>2. PICK n \in Watchable \cup {None} : Relink(deps, life, [target EXCEPT ![w] = n], mark, validAt)
    BY <1>1
<1>t. PICK tg : tg = [target EXCEPT ![w] = n]
    OBVIOUS
<1>3. Relink(ds, lf, tg, mark, validAt) /\ Alive(lf) \subseteq Alive(life)
    BY <1>2, <1>d, <1>l, <1>t
<1>4. tg \in [Watchers -> Producers \cup {None}]
    BY <1>t, ValuesAssumption DEF GraphInv, OwnersOK
<1>5. ds \in Graphs /\ \A m \in Evaluated : ds[m] = deps[m]
    BY <1>d DEF GraphInv, NodesOK
<1>6. OwnersOK'
    BY DEF GraphInv
<1>7. \A m \in Evaluated : ds[m] = deps[m] \/ (m = w /\ ds[m] = <<>>)
    BY <1>5
<1> QED BY <1>1, <1>3, <1>4, <1>5, <1>6, <1>7, OwnersSound

\* An effect is disposed.
LEMMA DisposedSound ==
    ASSUME GraphInv, GraphInv', Validated, NEW e, Disposed(e), stack = <<>>, stack' = stack, clock' = clock
    PROVE  Validated' /\ (Heard => Heard') /\ FreshOnes \subseteq FreshOnes'
<1>d. PICK ds : ds = [deps EXCEPT ![e] = <<>>]
    OBVIOUS
<1>l. PICK lf : lf = [life EXCEPT ![e] = "disposed"]
    OBVIOUS
<1>t. PICK tg : tg = target
    OBVIOUS
<1>1. Relink(ds, lf, tg, mark, validAt)
    BY <1>d, <1>l, <1>t DEF Disposed
<1>2. Alive(lf) \subseteq Alive(life)
    BY <1>l DEF GraphInv, OwnersOK, Alive
<1>3. tg \in [Watchers -> Producers \cup {None}] /\ deps \in Graphs
    BY <1>t DEF GraphInv, OwnersOK, NodesOK
<1>4. ds \in Graphs
    <2>1. <<>> \in Seq(Producers)
        BY EmptySeq
    <2> QED BY <1>3, <1>d, <2>1 DEF Graphs
<1>5. \A m \in Evaluated : ds[m] = deps[m] \/ (m = e /\ ds[m] = <<>>)
    BY <1>3, <1>d DEF Graphs
<1>6. OwnersOK' /\ stack' = <<>>
    BY DEF GraphInv
<1> QED BY <1>1, <1>2, <1>3, <1>4, <1>5, <1>6, OwnersSound

\* An effect is created: it has read nothing yet.
LEMMA CreateSound ==
    ASSUME GraphInv, GraphInv', Validated, Unborn, NEW e \in Effects, CreateEffect(e)
    PROVE  Validated' /\ (Heard => Heard')
<1>g. PICK g : g = Frame(e, "run")
    OBVIOUS
<1>1. /\ life[e] = "new" /\ life' = [life EXCEPT ![e] = "alive"] /\ watched' = watched \cup {e}
      /\ stack' = <<g>> /\ UNCHANGED <<clock, target, changedAt, validAt, mark, cache, async, deps>>
    BY <1>g DEF CreateEffect, nodes
<1>2. e \notin Computeds /\ deps[e] = <<>> /\ Members(<<>>) = {}
    BY <1>1, KindsAssumption DEF Unborn, Members, Sinks
<1>3. FreshOnes' = FreshOnes
    BY <1>1, <1>2 DEF FreshOnes, FreshIn
<1>4. Supported'
    <2>1. Roots(life', target') \subseteq watched'
        BY <1>1 DEF Validated, Supported, WatchedOK, Roots, Alive, GraphInv, OwnersOK
    <2>2. \A n \in watched' \cap Evaluated : Members(deps'[n]) \subseteq watched'
        BY <1>1, <1>2 DEF Validated, Supported, WatchedOK
    <2> QED BY <1>1, <1>3, <2>1, <2>2 DEF Validated, Supported, WatchedOK
<1>5. Heard => Heard'
    BY <1>1, <1>2, <1>3 DEF Heard
<1>6. Sound(g)'
    <2>1. g.node = e /\ g.pos = 0
        BY <1>g DEF Frame
    <2>2. 1..g.pos = {}
        BY <2>1
    <2> QED BY <1>2, <2>1, <2>2 DEF Sound, Passed, Owed
<1> QED BY <1>1, <1>4, <1>5, <1>6, OneSound DEF Validated

\* The program's other calls.
LEMMA CallsSound ==
    ASSUME GraphInv, Validated,
           \/ \E n \in Computeds : Read(n)
           \/ \E w \in Watchers : Notify(w)
           \/ \E e \in Effects : Drain(e)
    PROVE  Validated' /\ (Heard => Heard')
<1>1. UNCHANGED <<clock, nodes, watched, life, target>>
    BY DEF Read, Notify, Drain, owners
<1>2. CASE \E n \in Computeds : Read(n)
    <2>1. PICK n \in Computeds : ~IsFresh(n) /\ stack' = <<Entered(n)>>
        BY <1>2 DEF Read
    <2>2. n \notin FreshOnes
        BY <2>1 DEF IsFresh, FreshOnes, FreshIn, Watched
    <2> QED BY <1>1, <2>1, <2>2, CallSound
<1>3. CASE \E w \in Watchers : Notify(w)
    <2>1. PICK w \in Watchers : /\ w \in scheduled
                                /\ stack' = IF target[w] \in Atoms \/ IsFresh(target[w]) THEN <<>>
                                            ELSE <<Entered(target[w])>>
        BY <1>3 DEF Notify
    <2>2. target[w] # None /\ target[w] \in Producers \cup {None}
        BY <2>1, KindsAssumption DEF GraphInv, OwnersOK, FlagsOK, Alive
    <2>3. target[w] \in Atoms \cup Computeds
        BY <2>2 DEF Producers
    <2>4. target[w] \in Computeds /\ ~IsFresh(target[w]) => target[w] \notin FreshOnes
        BY DEF IsFresh, FreshOnes, FreshIn, Watched
    <2> QED BY <1>1, <2>1, <2>3, <2>4, CallSound
<1>4. CASE \E e \in Effects : Drain(e)
    <2>1. PICK e \in Effects : stack' = IF mark[e] = "clean" /\ cache[e] /= None THEN <<>> ELSE <<Entered(e)>>
        BY <1>4 DEF Drain
    <2> QED BY <1>1, <2>1, CallSound
<1> QED BY <1>2, <1>3, <1>4

\* A drain that throws: it clears the marks of the effects it preempts.
Thrown == EndDrain /\ async[task.of].kind = "error"

\* Whatever ends.
LEMMA EndSound ==
    ASSUME GraphInv, GraphInv', Validated, End
    PROVE  Validated' /\ (~Thrown /\ Heard => Heard')
<1>1. stack = <<>> /\ stack' = stack /\ clock' = clock
    BY DEF End, EndRead, EndNotify, EndCreate, EndDrain, Ended
<1>2. CASE UNCHANGED <<clock, nodes, watched, life, target>>
    BY <1>1, <1>2, CallSound
<1>3. ASSUME NEW e, Disposed(e) PROVE Validated' /\ (Heard => Heard')
    BY <1>1, <1>3, DisposedSound
<1>4. CASE EndRead \/ EndNotify
    <2>1. UNCHANGED <<clock, nodes, watched, life, target>>
        BY <1>4 DEF EndRead, EndNotify, owners
    <2> QED BY <1>2, <2>1
<1>5. CASE EndCreate
    <2>1. Disposed(task.of) \/ UNCHANGED <<clock, nodes, watched, life, target>>
        BY <1>5 DEF EndCreate, owners, nodes
    <2> QED BY <1>2, <1>3, <2>1
<1>6. CASE EndDrain
    <2>1. UNCHANGED <<clock, changedAt, validAt, cache, async, deps, watched, life, target>>
        BY <1>6 DEF EndDrain, owners
    <2>2. CASE mark' = mark
        <3>1. UNCHANGED <<clock, nodes, watched, life, target>>
            BY <2>1, <2>2 DEF nodes
        <3> QED BY <1>2, <3>1
    <2>3. CASE Thrown /\ Preempt
        <3>1. scheduled \cap Computeds = {}
            BY KindsAssumption DEF GraphInv, OwnersOK, FlagsOK, Alive, Sinks
        <3>2. \A n \in Computeds : mark'[n] = mark[n]
            BY <2>3, <3>1 DEF Preempt, Evaluated
        <3>3. FreshOnes' = FreshOnes
            BY <2>1, <3>2 DEF FreshOnes, FreshIn
        <3>4. Supported'
            BY <2>1, <3>3 DEF Validated, Supported
        <3>5. FramesSound'
            BY <1>1, OneSound
        <3> QED BY <2>3, <3>4, <3>5 DEF Validated
    <2> QED BY <1>6, <2>2, <2>3 DEF EndDrain, Thrown
<1> QED BY <1>4, <1>5, <1>6 DEF End

\* Whatever the program does.
LEMMA ProgramSound ==
    ASSUME GraphInv, GraphInv', Validated, Unborn, Program
    PROVE  Validated' /\ (Heard => Heard')
<1>1. ASSUME NEW e \in Effects, DisposeEffect(e) PROVE Validated' /\ (Heard => Heard')
    <2>1. Disposed(e) /\ stack = <<>> /\ stack' = stack /\ clock' = clock
        BY <1>1 DEF DisposeEffect, Ready
    <2> QED BY <2>1, DisposedSound
<1> QED BY <1>1, WriteSound, CallsSound, WatchSound, CreateSound DEF Program

\* Whatever a settlement does.
LEMMA SettlementSound ==
    ASSUME GraphInv, Validated, Settlement
    PROVE  Validated' /\ (Heard => Heard')
<1>1. CASE SettleDone
    <2>1. UNCHANGED <<clock, nodes, watched, life, target>> /\ stack' = <<>>
        BY <1>1 DEF SettleDone, Ready, owners
    <2> QED BY <2>1, CallSound
<1> QED BY <1>1, SettleSound, SettleNodeSound DEF Settlement

\* What a step of a pull does to what has not been: it moves edges of the nodes on
\* the stack, parks those, and pulls computeds.
Withdrawn ==
    /\ UNCHANGED <<life, settling>>
    /\ \A n \in Evaluated : deps'[n] = deps[n] \/ \E i \in DOMAIN stack : stack[i].node = n
    /\ \A p \in Promises : \A n \in parkedNodes'[p] : n \in parkedNodes[p] \/ \E i \in DOMAIN stack : stack[i].node = n
    /\ \A k \in DOMAIN stack' : stack'[k].node \in Computeds \/ \E i \in DOMAIN stack : stack'[k].node = stack[i].node

\* What has not been is not on the stack, so it is not touched.
LEMMA StaysUnborn ==
    ASSUME Unborn, Withdrawn
    PROVE  Unborn'
<1> SUFFICES ASSUME NEW e \in Effects, life'[e] = "new"
             PROVE  /\ deps'[e] = <<>> /\ e \notin settling'.nodes
                    /\ \A p \in Promises : e \notin parkedNodes'[p]
                    /\ \A i \in DOMAIN stack' : stack'[i].node # e
    BY DEF Unborn
<1>1. /\ deps[e] = <<>> /\ e \notin settling.nodes
      /\ \A p \in Promises : e \notin parkedNodes[p]
      /\ \A i \in DOMAIN stack : stack[i].node # e
    BY DEF Unborn, Withdrawn
<1>2. e \in Evaluated /\ e \notin Computeds
    BY KindsAssumption DEF Evaluated, Sinks
<1> QED BY <1>1, <1>2 DEF Withdrawn

\* The frames of st are of n, or of nodes on the stack.
Joined(st, n) == \A k \in DOMAIN st : st[k].node = n \/ \E i \in DOMAIN stack : st[k].node = stack[i].node

\* The nodes of a stack after a call.
LEMMA NodesPushed ==
    ASSUME NEW under \in Seq(Frames), UnderOf(under), NEW g \in Frames, NEW st, st = <<g>> \o under
    PROVE  Joined(st, g.node)
<1> SUFFICES ASSUME NEW k \in DOMAIN st
             PROVE  st[k].node = g.node \/ \E i \in DOMAIN stack : st[k].node = stack[i].node
    BY DEF Joined
<1>1. DOMAIN under = 1..Len(under) /\ Len(under) \in Nat
    BY LenProperties
<1>2. <<g>> \in Seq(Frames) /\ Len(<<g>>) = 1 /\ <<g>>[1] = g
    OBVIOUS
<1>3. /\ st \in Seq(Frames) /\ Len(st) = 1 + Len(under)
      /\ \A j \in 1..(1 + Len(under)) : st[j] = IF j <= 1 THEN <<g>>[j] ELSE under[j-1]
    BY <1>1, <1>2, ConcatProperties
<1>4. DOMAIN st = 1..(1 + Len(under))
    BY <1>3, LenProperties
<1>5. st[k] = IF k <= 1 THEN <<g>>[k] ELSE under[k-1]
    BY <1>3, <1>4
<1>6. CASE k = 1
    BY <1>2, <1>5, <1>6
<1>7. CASE k # 1
    <2>1. k-1 \in DOMAIN under /\ ~(k <= 1)
        BY <1>1, <1>4, <1>7
    <2>2. PICK i \in Nat : \A j \in DOMAIN under : j + i \in DOMAIN stack /\ under[j] = stack[j+i]
        BY DEF UnderOf
    <2> QED BY <1>5, <2>1, <2>2
<1> QED BY <1>6, <1>7

\* An evaluation goes on.
LEMMA ContinueWithdraws ==
    ASSUME GraphInv, Steady, stack # <<>>, NEW at, at.pos \in Nat, NEW v \in Values, Continue(Top, at, v)
    PROVE  Withdrawn
<1>f. PICK f : f = Top
    OBVIOUS
<1>g. PICK g : g = [f EXCEPT !.pos = at.pos, !.seen = Append(@, v)]
    OBVIOUS
<1>u. PICK under : under = Below
    OBVIOUS
<1>1. /\ deps' = [deps EXCEPT ![f.node] = at.list] /\ stack' = <<g>> \o under
      /\ UNCHANGED <<life, settling, parkedNodes>>
    BY <1>f, <1>g, <1>u DEF Continue, Relink, Steady, boxes
<1>2. f \in Frames /\ under \in Seq(Frames) /\ UnderOf(under) /\ f = stack[1] /\ 1 \in DOMAIN stack
    BY <1>f, <1>u, StackTop, UnderTop DEF GraphInv
<1>3. g \in Frames /\ g.node = f.node
    <2>1. f.seen \in Seq(Values)
        BY <1>2 DEF Frames
    <2>2. Append(f.seen, v) \in Seq(Values)
        BY <2>1, AppendProperties
    <2> QED BY <1>2, <1>g, <2>2 DEF Frames
<1>4. \A k \in DOMAIN stack' : \E i \in DOMAIN stack : stack'[k].node = stack[i].node
    <2>1. PICK st : st = <<g>> \o under
        OBVIOUS
    <2>2. under \in Seq(Frames) /\ UnderOf(under)
        BY <1>2
    <2>3. g \in Frames
        BY <1>3
    <2>4. Joined(st, g.node)
        BY <2>1, <2>2, <2>3, NodesPushed
    <2> QED BY <1>1, <1>2, <1>3, <2>1, <2>4 DEF Joined
<1>5. \A n \in Evaluated : deps'[n] = deps[n] \/ n = f.node
    BY <1>1 DEF GraphInv, NodesOK, Graphs
<1> QED BY <1>1, <1>2, <1>4, <1>5 DEF Withdrawn

\* An evaluation ends: if it parks, that is its own node.
LEMMA FinishWithdraws ==
    ASSUME GraphInv, Steady, NEW i \in DOMAIN stack, NEW f, f = stack[i], NEW at,
           NEW under \in Seq(Frames), UnderOf(under), Concludes(f, at, under),
           \A p \in Promises : parkedNodes'[p] \subseteq parkedNodes[p] \cup {f.node}
    PROVE  Withdrawn
<1>1. PICK value, outcome, changed : Finish(f, at, under, value, outcome, changed)
    BY DEF Concludes
<1>2. stack' = under /\ UNCHANGED <<life, settling>>
    BY <1>1 DEF Finish, Relink, Steady
<1>3. \A n \in Evaluated : deps'[n] = deps[n] \/ n = f.node
    BY <1>1 DEF Finish, Relink, GraphInv, NodesOK, Graphs
<1>4. \A k \in DOMAIN stack' : \E j \in DOMAIN stack : stack'[k].node = stack[j].node
    BY <1>2 DEF UnderOf
<1> QED BY <1>2, <1>3, <1>4 DEF Withdrawn

\* What ends parks its own node, or none.
LEMMA ParksItself ==
    ASSUME GraphInv, NEW f, NEW at
    PROVE  /\ \A v : Settled(f, at, v) => parkedNodes' = parkedNodes
           /\ \A q : Parked(f, at, q) => \A p \in Promises : parkedNodes'[p] \subseteq parkedNodes[p] \cup {f.node}
           /\ \A under, reason : Threw(f, at, under, reason) => parkedNodes' = parkedNodes
<1>1. \A v : Settled(f, at, v) => parkedNodes' = parkedNodes
    BY DEF Settled
<1>2. ASSUME NEW q, Parked(f, at, q), NEW p \in Promises PROVE parkedNodes'[p] \subseteq parkedNodes[p] \cup {f.node}
    <2>1. parkedNodes' = [parkedNodes EXCEPT ![q] = @ \cup {f.node}]
        BY <1>2 DEF Parked
    <2> QED BY <2>1 DEF GraphInv, BoxesOK
<1>3. \A under, reason : Threw(f, at, under, reason) => parkedNodes' = parkedNodes
    BY DEF Threw
<1> QED BY <1>1, <1>2, <1>3

\* What a call or a validation leaves.
LEMMA PushWithdraws ==
    ASSUME GraphInv, UNCHANGED <<deps, life, settling, parkedNodes>>, NEW under \in Seq(Frames), UnderOf(under),
           \/ stack' = under
           \/ \E g \in Frames : /\ stack' = <<g>> \o under
                                /\ g.node \in Computeds \/ \E i \in DOMAIN stack : g.node = stack[i].node
    PROVE  Withdrawn
<1>1. CASE stack' = under
    BY <1>1 DEF Withdrawn, UnderOf
<1>2. ASSUME NEW g \in Frames, stack' = <<g>> \o under,
             g.node \in Computeds \/ \E i \in DOMAIN stack : g.node = stack[i].node
      PROVE  Withdrawn
    <2>1. PICK st : st = <<g>> \o under
        OBVIOUS
    <2>2. Joined(st, g.node)
        BY <2>1, NodesPushed
    <2>3. stack' = st
        BY <1>2, <2>1
    <2> QED BY <1>2, <2>2, <2>3 DEF Withdrawn, Joined
<1> QED BY <1>1, <1>2

\* The steps of a pull.
LEMMA PullWithdraws == ASSUME BodiesAreWellTyped, GraphInv, Pull PROVE Withdrawn
<1>q. Quiet => Steady
    BY QuietIsSteady
<1>1. ASSUME stack # <<>>, Steady, NEW at, Concludes(Top, at, Below),
             \A p \in Promises : parkedNodes'[p] \subseteq parkedNodes[p] \cup {Top.node}
      PROVE  Withdrawn
    <2>f. PICK f : f = Top
        OBVIOUS
    <2>u. PICK under : under = Below
        OBVIOUS
    <2>1. f = stack[1] /\ 1 \in DOMAIN stack /\ under \in Seq(Frames) /\ UnderOf(under)
        BY <1>1, <2>f, <2>u, UnderTop
    <2>2. Concludes(f, at, under) /\ \A p \in Promises : parkedNodes'[p] \subseteq parkedNodes[p] \cup {f.node}
        BY <1>1, <2>f, <2>u
    <2> QED BY <1>1, <2>1, <2>2, FinishWithdraws
<1>2. CASE CheckStep
    <2>f. PICK f : f = Top
        OBVIOUS
    <2>u. PICK under : under = Below
        OBVIOUS
    <2>d. PICK d : d = deps[f.node][f.pos + 1]
        OBVIOUS
    <2>a. PICK all : all = stack
        OBVIOUS
    <2>1. /\ stack # <<>> /\ UNCHANGED <<deps, life, settling, parkedNodes>>
          /\ \/ stack' = under
             \/ NeedsPull(d) /\ stack' = <<Entered(d)>> \o all
             \/ stack' = <<Frame(f.node, "run")>> \o under
             \/ stack' = <<[f EXCEPT !.pos = @ + 1]>> \o under
        BY <1>2, <2>f, <2>u, <2>d, <2>a DEF CheckStep, Push, owners, boxes
    <2>2. /\ f \in Frames /\ f = stack[1] /\ 1 \in DOMAIN stack /\ under \in Seq(Frames) /\ UnderOf(under)
          /\ all \in Seq(Frames) /\ UnderOf(all)
        BY <2>1, <2>f, <2>u, <2>a, StackTop, UnderTop, UnderAll DEF GraphInv
    <2>3. CASE stack' = under
        BY <2>1, <2>2, <2>3, PushWithdraws
    <2>4. CASE NeedsPull(d) /\ stack' = <<Entered(d)>> \o all
        <3>1. d \in Computeds /\ d \in Evaluated
            BY <2>4 DEF NeedsPull, Evaluated
        <3>2. Entered(d) \in Frames /\ Entered(d).node \in Computeds
            BY <3>1, EnteredFrame
        <3> QED BY <2>1, <2>2, <2>4, <3>2, PushWithdraws
    <2>5. CASE stack' = <<Frame(f.node, "run")>> \o under
        <3>1. f.node \in Evaluated
            BY <2>2 DEF Frames
        <3>2. Frame(f.node, "run") \in Frames /\ Frame(f.node, "run").node = f.node
            BY <3>1, EnteredFrame
        <3> QED BY <2>1, <2>2, <2>5, <3>2, PushWithdraws
    <2>6. CASE stack' = <<[f EXCEPT !.pos = @ + 1]>> \o under
        <3>1. PICK g : g = [f EXCEPT !.pos = @ + 1]
            OBVIOUS
        <3>2. g \in Frames /\ g.node = f.node
            <4>1. f \in Frames
                BY <2>2
            <4> QED BY <3>1, <4>1 DEF Frames
        <3>3. stack' = <<g>> \o under
            BY <2>6, <3>1
        <3> QED BY <2>1, <2>2, <3>2, <3>3, PushWithdraws
    <2> QED BY <2>1, <2>3, <2>4, <2>5, <2>6
<1>3. CASE ReadAtom
    <2>1. Running("read") /\ Steady
          /\ Continue(Top, Tracked(Top, Instruction.of), val[Instruction.of]) /\ Instruction.of \in Atoms
        BY <1>3, <1>q DEF ReadAtom
    <2>2. stack # <<>> /\ Tracked(Top, Instruction.of).pos \in Nat /\ val[Instruction.of] \in Values
        BY <2>1, RunningFrame DEF Spot, Producers, GraphInv, ClocksOK
    <2> QED BY <2>1, <2>2, ContinueWithdraws
<1>4. CASE PullDependency
    <2>d. PICK d : d = Instruction.of
        OBVIOUS
    <2>a. PICK all : all = stack
        OBVIOUS
    <2>1. NeedsPull(d) /\ stack' = <<Entered(d)>> \o all /\ UNCHANGED <<deps, life, settling, parkedNodes>>
        BY <1>4, <2>d, <2>a DEF PullDependency, Push, nodes, owners, boxes, Quiet
    <2>2. d \in Computeds /\ d \in Evaluated
        BY <2>1 DEF NeedsPull, Evaluated
    <2>3. Entered(d) \in Frames /\ Entered(d).node \in Computeds
        BY <2>2, EnteredFrame
    <2>4. all \in Seq(Frames) /\ UnderOf(all)
        BY <2>a, UnderAll
    <2> QED BY <2>1, <2>3, <2>4, PushWithdraws
<1>5. CASE ReadComputed
    <2>d. PICK d : d = Instruction.of
        OBVIOUS
    <2>t. PICK at : at = Tracked(Top, d)
        OBVIOUS
    <2>1. /\ Running("read") /\ d \in Computeds /\ IsFresh(d) /\ Steady
          /\ \/ async[d].kind = "plain" /\ Continue(Top, at, cache[d])
             \/ Threw(Top, at, Below, async[d].of)
             \/ Parked(Top, at, async[d].of)
             \/ cache[d] # None /\ Continue(Top, at, cache[d])
        BY <1>5, <1>q, <2>d, <2>t DEF ReadComputed
    <2>2. d \in Evaluated /\ d \in Producers /\ mark[d] = "clean"
        BY <2>1 DEF IsFresh, Evaluated, Producers
    <2>3. stack # <<>> /\ at.pos \in Nat
        BY <2>1, <2>2, <2>t, RunningFrame DEF Spot
    <2>4. async[d].kind = "plain" => cache[d] # None
        <3>1. async[d].kind = "plain" => async[d] = Plain
            BY <2>2 DEF GraphInv, NodesOK, AsyncOK, Suspended
        <3> QED BY <2>1, <2>2, <3>1 DEF GraphInv, NodesOK, Serving
    <2>5. CASE cache[d] # None /\ Continue(Top, at, cache[d])
        <3>1. cache[d] \in Values
            BY <2>2, <2>5 DEF GraphInv, NodesOK
        <3> QED BY <2>1, <2>3, <2>5, <3>1, ContinueWithdraws
    <2>6. CASE Threw(Top, at, Below, async[d].of) \/ Parked(Top, at, async[d].of)
        <3>1. Concludes(Top, at, Below)
            BY <2>6, ItConcludes
        <3>2. \A p \in Promises : parkedNodes'[p] \subseteq parkedNodes[p] \cup {Top.node}
            BY <2>6, ParksItself
        <3> QED BY <1>1, <2>1, <2>3, <3>1, <3>2
    <2> QED BY <2>1, <2>4, <2>5, <2>6
<1>6. CASE UseThenable
    <2>d. PICK t : t = Instruction.of
        OBVIOUS
    <2>t. PICK at : at = Untouched(Top)
        OBVIOUS
    <2>1. /\ Running("use") /\ Steady
          /\ \/ Parked(Top, at, t)
             \/ status[t] = "fulfilled" /\ Continue(Top, at, result[t])
             \/ Threw(Top, at, Below, Rejection)
        BY <1>6, <1>q, <2>d, <2>t DEF UseThenable
    <2>2. t \in Thenables /\ stack # <<>> /\ at.pos \in Nat
        BY <2>1, <2>d, <2>t, RunningFrame DEF WellTyped, Spot
    <2>3. CASE status[t] = "fulfilled" /\ Continue(Top, at, result[t])
        <3>1. result[t] \in Values
            BY <2>2, <2>3 DEF GraphInv, BoxesOK
        <3> QED BY <2>1, <2>2, <2>3, <3>1, ContinueWithdraws
    <2>4. CASE Threw(Top, at, Below, Rejection) \/ Parked(Top, at, t)
        <3>1. Concludes(Top, at, Below)
            BY <2>4, ItConcludes
        <3>2. \A p \in Promises : parkedNodes'[p] \subseteq parkedNodes[p] \cup {Top.node}
            BY <2>4, ParksItself
        <3> QED BY <1>1, <2>1, <2>2, <3>1, <3>2
    <2> QED BY <2>1, <2>3, <2>4
<1>7. CASE Return
    <2>1. /\ stack # <<>> /\ Steady /\ Concludes(Top, Untouched(Top), Below)
          /\ \A p \in Promises : parkedNodes'[p] \subseteq parkedNodes[p] \cup {Top.node}
        BY <1>7, <1>q, ItConcludes, ParksItself DEF Return, Running
    <2> QED BY <1>1, <2>1
<1>8. CASE ThrowCycle
    <2> DEFINE runs == {j \in DOMAIN stack : stack[j].mode = "run"}
               least == CHOOSE j \in runs : \A k \in runs : j <= k
    <2>1. /\ Steady
          /\ IF runs = {}
             THEN stack' = <<>> /\ UNCHANGED <<nodes, owners, boxes>>
             ELSE Threw(stack[least], Untouched(stack[least]), SubSeq(stack, least + 1, Len(stack)), Cycle)
        BY <1>8, <1>q DEF ThrowCycle
    <2>2. CASE runs = {}
        BY <2>1, <2>2 DEF Withdrawn, nodes, owners, boxes, Steady
    <2>3. CASE runs # {}
        <3>1. runs \in SUBSET Nat
            BY LenProperties DEF GraphInv, StackOK
        <3>2. least \in runs
            <4> HIDE DEF runs
            <4>1. \E j \in runs : \A k \in runs : j <= k
                BY <2>3, <3>1, LeastNatural
            <4> QED BY <4>1
        <3>i. PICK i : i = least
            OBVIOUS
        <3>f. PICK f : f = stack[i]
            OBVIOUS
        <3>u. PICK under : under = SubSeq(stack, i + 1, Len(stack))
            OBVIOUS
        <3>a. PICK at : at = Untouched(f)
            OBVIOUS
        <3>3. i \in DOMAIN stack
            BY <3>2, <3>i
        <3>4. Threw(f, at, under, Cycle)
            BY <2>1, <2>3, <3>i, <3>f, <3>u, <3>a
        <3> HIDE DEF least, runs
        <3>5. under \in Seq(Frames) /\ UnderOf(under)
            BY <3>3, <3>u, UnderAny
        <3>6. Concludes(f, at, under) /\ \A p \in Promises : parkedNodes'[p] \subseteq parkedNodes[p] \cup {f.node}
            BY <3>4, ItConcludes, ParksItself
        <3> QED BY <2>1, <3>3, <3>5, <3>6, <3>f, FinishWithdraws
    <2> QED BY <2>2, <2>3
<1> QED BY <1>2, <1>3, <1>4, <1>5, <1>6, <1>7, <1>8 DEF Pull

\* Outside a pull nothing is parked, and what is called has been created.
Spared ==
    /\ \A e \in Effects : life'[e] = "new" => life[e] = "new" /\ deps'[e] \in {deps[e], <<>>}
    /\ \A n \in settling'.nodes : n \in settling.nodes \/ \E p \in Promises : n \in parkedNodes[p]
    /\ \A p \in Promises : parkedNodes'[p] \subseteq parkedNodes[p]
    /\ \/ stack' = <<>>
       \/ \E g : stack' = <<g>> /\ \A e \in Effects : life'[e] = "new" /\ g.node = e => e \in settling.nodes

\* Then what has not been stays so.
LEMMA SparedStays == ASSUME Unborn, Spared PROVE Unborn'
<1> SUFFICES ASSUME NEW e \in Effects, life'[e] = "new"
             PROVE  /\ deps'[e] = <<>> /\ e \notin settling'.nodes
                    /\ \A p \in Promises : e \notin parkedNodes'[p]
                    /\ \A i \in DOMAIN stack' : stack'[i].node # e
    BY DEF Unborn
<1>1. /\ deps[e] = <<>> /\ e \notin settling.nodes
      /\ \A p \in Promises : e \notin parkedNodes[p]
    BY DEF Unborn, Spared
<1>2. deps'[e] = <<>> /\ e \notin settling'.nodes /\ \A p \in Promises : e \notin parkedNodes'[p]
    BY <1>1 DEF Spared
<1>3. \A i \in DOMAIN stack' : stack'[i].node # e
    <2>1. CASE stack' = <<>>
        BY <2>1
    <2>2. ASSUME NEW g, stack' = <<g>>, g.node # e PROVE \A i \in DOMAIN stack' : stack'[i].node # e
        BY <2>2
    <2> QED BY <1>1, <2>1, <2>2 DEF Spared
<1> QED BY <1>2, <1>3

\* A step that calls at most a computed.
LEMMA CallSpares ==
    ASSUME UNCHANGED <<life, deps, settling, parkedNodes>>,
           stack' = <<>> \/ \E g : stack' = <<g>> /\ g.node \in Computeds
    PROVE  Spared
<1>1. Computeds \cap Effects = {}
    BY KindsAssumption DEF Sinks
<1> QED BY <1>1 DEF Spared

\* A disposal.
LEMMA DisposedSpares ==
    ASSUME GraphInv, NEW e, Disposed(e), UNCHANGED <<settling, parkedNodes>>, stack' = <<>>
    PROVE  Spared
<1>1. deps' = [deps EXCEPT ![e] = <<>>] /\ life' = [life EXCEPT ![e] = "disposed"]
    BY DEF Disposed, Relink
<1>2. life \in [Effects -> Lifes] /\ deps \in Graphs
    BY DEF GraphInv, OwnersOK, NodesOK
<1>3. ASSUME NEW x \in Effects, life'[x] = "new" PROVE life[x] = "new" /\ deps'[x] \in {deps[x], <<>>}
    <2>1. x \in Evaluated /\ deps = [n \in Evaluated |-> deps[n]]
        BY <1>2 DEF Evaluated, Graphs
    <2> QED BY <1>1, <1>2, <1>3, <2>1
<1> QED BY <1>3 DEF Spared

\* What the program does.
LEMMA ProgramSpares == ASSUME GraphInv, Program PROVE Spared
<1>0. /\ life \in [Effects -> Lifes] /\ target \in [Watchers -> Producers \cup {None}]
      /\ scheduled \subseteq Alive(life) \cup {w \in Watchers : target[w] # None}
    BY DEF GraphInv, OwnersOK, FlagsOK
<1>1. \A n : Frame(n, "run").node = n /\ Entered(n).node = n
    BY DEF Frame, Entered
<1>2. ASSUME NEW a \in Atoms, NEW v \in Values, Write(a, v) PROVE Spared
    BY <1>2, CallSpares DEF Write, Ready, owners, boxes
<1>3. ASSUME NEW n \in Computeds, Read(n) PROVE Spared
    <2>1. UNCHANGED <<life, deps, settling, parkedNodes>> /\ stack' = <<Entered(n)>>
        BY <1>3 DEF Read, owners, nodes, boxes
    <2> QED BY <1>1, <2>1, CallSpares
<1>4. ASSUME NEW w \in Watchers, NEW n \in Watchable, Subscribe(w, n) PROVE Spared
    BY <1>4, CallSpares DEF Subscribe, Ready, Relink, boxes
<1>5. ASSUME NEW w \in Watchers, Unsubscribe(w) PROVE Spared
    BY <1>5, CallSpares DEF Unsubscribe, Ready, Relink, boxes
<1>6. ASSUME NEW w \in Watchers, Notify(w) PROVE Spared
    <2>1. /\ UNCHANGED <<life, deps, settling, parkedNodes>> /\ w \in scheduled
          /\ stack' = IF target[w] \in Atoms \/ IsFresh(target[w]) THEN <<>> ELSE <<Entered(target[w])>>
        BY <1>6 DEF Notify, owners, nodes, boxes
    <2>2. target[w] \in Atoms \cup Computeds
        BY <1>0, <2>1, KindsAssumption DEF Alive, Producers
    <2> QED BY <1>1, <2>1, <2>2, CallSpares
<1>7. ASSUME NEW e \in Effects, CreateEffect(e) PROVE Spared
    <2>1. /\ UNCHANGED <<deps, settling, parkedNodes>> /\ stack' = <<Frame(e, "run")>>
          /\ life' = [life EXCEPT ![e] = "alive"]
        BY <1>7 DEF CreateEffect, nodes, boxes
    <2>2. \A x \in Effects : life'[x] = "new" => life[x] = "new" /\ x # e
        BY <1>0, <2>1
    <2> QED BY <1>1, <2>1, <2>2 DEF Spared
<1>8. ASSUME NEW e \in Effects, DisposeEffect(e) PROVE Spared
    BY <1>8, DisposedSpares DEF DisposeEffect, Ready, boxes
<1>9. ASSUME NEW e \in Effects, Drain(e) PROVE Spared
    <2>1. /\ UNCHANGED <<life, deps, settling, parkedNodes>> /\ e \in scheduled
          /\ stack' = <<>> \/ stack' = <<Entered(e)>>
        BY <1>9 DEF Drain, owners, nodes, boxes
    <2>2. life[e] # "new"
        BY <1>0, <2>1, KindsAssumption DEF Alive
    <2> QED BY <1>1, <2>1, <2>2 DEF Spared
<1> QED BY <1>2, <1>3, <1>4, <1>5, <1>6, <1>7, <1>8, <1>9 DEF Program

\* What ends.
LEMMA EndSpares == ASSUME GraphInv, End PROVE Spared
<1>1. stack' = <<>> /\ UNCHANGED <<settling, parkedNodes>>
    BY DEF End, EndRead, EndNotify, EndCreate, EndDrain, Ended, boxes
<1>2. (\E e : Disposed(e)) \/ UNCHANGED <<life, deps>>
    BY DEF End, EndRead, EndNotify, EndCreate, EndDrain, owners, nodes
<1> QED BY <1>1, <1>2, DisposedSpares, CallSpares

\* What a settlement does.
LEMMA SettlementSpares == ASSUME GraphInv, Settlement PROVE Spared
<1>0. parkedNodes \in [Promises -> SUBSET Evaluated] /\ settling.nodes \subseteq Evaluated
      /\ settling \in [nodes : SUBSET Evaluated, suspensions : SUBSET Suspensions, on : BOOLEAN]
    BY DEF GraphInv, BoxesOK, SettlingOK
<1>1. ASSUME NEW p \in Promises, NEW how, NEW v, Settle(p, how, v) PROVE Spared
    <2>1. /\ settling'.nodes = parkedNodes[p] /\ parkedNodes' = [parkedNodes EXCEPT ![p] = {}]
          /\ UNCHANGED <<life, deps>> /\ stack' = <<>>
        BY <1>1 DEF Settle, Ready, owners, nodes
    <2>2. \A q \in Promises : parkedNodes'[q] \subseteq parkedNodes[q]
        BY <1>0, <2>1
    <2> QED BY <2>1, <2>2 DEF Spared
<1>2. ASSUME NEW n \in Evaluated, SettleNode(n) PROVE Spared
    <2>1. /\ settling' = [settling EXCEPT !.nodes = @ \ {n}] /\ n \in settling.nodes
          /\ UNCHANGED <<life, deps, parkedNodes>> /\ stack' = <<Frame(n, "run")>>
        BY <1>2 DEF SettleNode, owners, boxes
    <2>2. settling'.nodes \subseteq settling.nodes
        BY <1>0, <2>1
    <2>3. Frame(n, "run").node = n
        BY DEF Frame
    <2> QED BY <2>1, <2>2, <2>3 DEF Spared
<1>3. CASE SettleDone
    <2>1. settling'.nodes = {} /\ UNCHANGED <<life, deps, parkedNodes>> /\ stack' = <<>>
        BY <1>3 DEF SettleDone, Ready, Nothing, owners, nodes
    <2> QED BY <2>1 DEF Spared
<1> QED BY <1>1, <1>2, <1>3 DEF Settlement

\* What holds in every state, whatever throws.
GraphSound == GraphInv /\ Validated /\ Unborn

\* It holds at first: nothing has an edge.
LEMMA SoundInit == Init => GraphSound /\ Heard
<1> SUFFICES ASSUME Init PROVE GraphSound /\ Heard
    OBVIOUS
<1>1. GraphInv
    BY GraphInit
<1>2. /\ stack = <<>> /\ watched = {} /\ deps = [n \in Evaluated |-> <<>>] /\ settling = Nothing
      /\ life = [e \in Effects |-> "new"] /\ target = [w \in Watchers |-> None]
      /\ parkedNodes = [p \in Promises |-> {}]
    BY DEF Init
<1>3. Members(<<>>) = {}
    BY DEF Members
<1>4. \A n \in Evaluated : Members(deps[n]) = {}
    BY <1>2, <1>3
<1>5. Supports(deps, FreshOnes)
    BY <1>4 DEF Supports, FreshOnes, FreshIn, Evaluated
<1>6. WatchedOK(deps, watched, life, target)
    BY <1>2 DEF WatchedOK, Roots, Alive
<1>7. Ordered(deps)
    BY <1>4 DEF Ordered, Evaluated
<1>8. FramesSound
    BY <1>2 DEF FramesSound, Chained
<1>9. Unborn
    BY <1>2 DEF Unborn, Nothing, Evaluated
<1>10. Heard
    BY <1>2 DEF Heard
<1> QED BY <1>1, <1>5, <1>6, <1>7, <1>8, <1>9, <1>10 DEF GraphSound, Validated, Supported

\* Every step keeps it, and lets the effects hear on unless a drain throws.
LEMMA SoundStep ==
    ASSUME BodiesAreWellTyped, GraphSound, [Next]_vars
    PROVE  GraphSound' /\ (Heard /\ ~Thrown => Heard')
<1>1. GraphInv /\ Validated /\ Unborn
    BY DEF GraphSound
<1>2. GraphInv'
    BY <1>1, GraphStep
<1>3. CASE Pull
    <2>1. Unborn'
        BY <1>1, <1>3, PullWithdraws, StaysUnborn
    <2> QED BY <1>1, <1>2, <1>3, <2>1, PullSound DEF GraphSound
<1>4. CASE Program
    <2>1. Unborn'
        BY <1>1, <1>4, ProgramSpares, SparedStays
    <2> QED BY <1>1, <1>2, <1>4, <2>1, ProgramSound DEF GraphSound
<1>5. CASE End
    <2>1. Unborn'
        BY <1>1, <1>5, EndSpares, SparedStays
    <2> QED BY <1>1, <1>2, <1>5, <2>1, EndSound DEF GraphSound
<1>6. CASE Settlement
    <2>1. Unborn'
        BY <1>1, <1>6, SettlementSpares, SparedStays
    <2> QED BY <1>1, <1>2, <1>6, <2>1, SettlementSound DEF GraphSound
<1>7. CASE UNCHANGED vars
    <2>1. UNCHANGED <<clock, nodes, watched, life, target>> /\ UNCHANGED <<stack, settling, parkedNodes>>
        BY <1>7 DEF vars, owners, boxes
    <2>2. Supported' /\ (Heard => Heard')
        BY <1>1, <2>1, Untroubled DEF Validated
    <2>3. FramesSound'
        <3>1. \A i \in DOMAIN stack : Sound(stack[i])'
            BY <1>1, <2>1, Untroubled DEF Validated, FramesSound
        <3>2. Chained(stack)'
            BY <1>1, <2>1, Untroubled DEF Validated, FramesSound
        <3> QED BY <2>1, <3>1, <3>2 DEF FramesSound
    <2>4. Unborn'
        BY <1>1, <2>1 DEF Unborn, nodes
    <2> QED BY <1>2, <2>2, <2>3, <2>4 DEF GraphSound, Validated
<1> QED BY <1>3, <1>4, <1>5, <1>6, <1>7 DEF Next

-----------------------------------------------------------------------------
(***************************************************************************)
(* No circle, and nothing stale that is not heard.                         *)
(***************************************************************************)
\* What each computed reads, directly or through what it reads in X.
Through(X) == [n \in Computeds |-> X[n] \cup UNION {Members(deps[d]) : d \in X[n] \cap Computeds}]

\* What a node depends on is found edge by edge.
LEMMA DependsSteps ==
    ASSUME deps \in Graphs, NEW N, N = Cardinality(Computeds)
    PROVE  \E R : /\ R[0] = [n \in Computeds |-> Members(deps[n])]
                  /\ \A k \in 1..N : R[k] = Through(R[k-1])
                  /\ Acyclic <=> \A n \in Computeds : n \notin R[N][n]
<1> DEFINE V == [Computeds -> SUBSET Producers]
           b == [n \in Computeds |-> Members(deps[n])]
           Next1(X) == [n \in Computeds |-> X[n] \cup UNION {Members(deps[d]) : d \in X[n] \cap Computeds}]
           Step == [k \in 1..N |-> [X \in V |-> Next1(X)]]
           F(g) == [k \in 0..N |-> IF k = 0 THEN b ELSE Next1(g[k-1])]
           R == CHOOSE g : g = F(g)
<1>1. N \in Nat
    BY SizeIsNatural
<1>0. \A n \in Computeds : Members(deps[n]) \subseteq Producers
    BY DEF Graphs, Members, Evaluated
<1>2. b \in V
    BY <1>0
<1>3. ASSUME NEW X \in V PROVE Next1(X) \in V
    BY <1>0
<1>4. Step \in [1..N -> [V -> V]]
    <2> HIDE DEF Next1, V
    <2> QED BY <1>3
<1>5. PICK g \in [0..N -> V] : g[0] = b /\ \A k \in 1..N : g[k] = Step[k][g[k-1]]
    <2> HIDE DEF V, Next1, Step, F, R, b
    <2>1. \E g \in [0..N -> V] : Solves(N, b, Step, g)
        BY <1>1, <1>2, <1>4, RecursionExists
    <2> QED BY <2>1 DEF Solves
<1>6. ASSUME NEW k \in 1..N PROVE g[k] = Next1(g[k-1])
    <2> HIDE DEF Next1, V
    <2>1. k-1 \in 0..N /\ g[k-1] \in V
        <3>1. k-1 \in 0..N
            BY <1>1
        <3> QED BY <3>1
    <2> QED BY <1>5, <2>1
<1>7. g = F(g)
    <2> HIDE DEF Next1, V, b
    <2>1. ASSUME NEW k \in 0..N PROVE g[k] = F(g)[k]
        <3>1. CASE k = 0
            BY <3>1, <1>5
        <3>2. CASE k # 0
            BY <1>1, <1>6, <3>2
        <3> QED BY <3>1, <3>2
    <2> QED BY <2>1, <1>5
<1>8. R = F(R)
    <2> HIDE DEF F
    <2> QED BY <1>7
<1>9. R[0] = b /\ \A k \in 1..N : R[k] = Next1(R[k-1])
    <2> HIDE DEF R, Next1, b
    <2>1. \A k \in 0..N : R[k] = F(R)[k]
        <3> HIDE DEF F
        <3> QED BY <1>8
    <2> QED BY <1>1, <2>1
<1>10. Acyclic <=> \A n \in Computeds : n \notin R[N][n]
    BY DEF Acyclic
<1> QED
    <2> HIDE DEF R
    <2> QED BY <1>9, <1>10 DEF Through

\* Edges along which no set of computeds reads itself in a circle are acyclic.
LEMMA OrderedIsAcyclic == ASSUME deps \in Graphs, Ordered(deps) PROVE Acyclic
<1>n. PICK N : N = Cardinality(Computeds)
    OBVIOUS
<1>1. N \in Nat
    BY <1>n, SizeIsNatural
<1>2. PICK R : /\ R[0] = [n \in Computeds |-> Members(deps[n])]
               /\ \A k \in 1..N : R[k] = Through(R[k-1])
               /\ Acyclic <=> \A n \in Computeds : n \notin R[N][n]
    BY <1>n, DependsSteps
<1> SUFFICES ASSUME NEW n \in Computeds, n \in R[N][n] PROVE FALSE
    BY <1>2
<1> DEFINE ReadIn(k) == \A c \in R[k][n] : \E r \in {n} \cup (R[k][n] \cap Computeds) : c \in Members(deps[r])
           Bad == {k \in 0..N : ~ReadIn(k)}
<1>3. ReadIn(0)
    BY <1>2
<1>4. ASSUME NEW k \in 1..N, ReadIn(k-1) PROVE ReadIn(k)
    <2>1. R[k][n] = R[k-1][n] \cup UNION {Members(deps[d]) : d \in R[k-1][n] \cap Computeds}
        <3> HIDE DEF ReadIn
        <3>1. R[k] = Through(R[k-1])
            BY <1>2
        <3> QED BY <3>1 DEF Through
    <2> QED BY <1>4, <2>1
<1>5. ReadIn(N)
    <2> HIDE DEF ReadIn
    <2> SUFFICES ASSUME Bad # {} PROVE FALSE
        BY <1>1
    <2>1. Bad \in SUBSET Nat
        OBVIOUS
    <2>2. PICK m \in Bad : \A k \in Bad : m <= k
        <3> HIDE DEF Bad
        <3> QED BY <2>1, LeastNatural
    <2>3. m \in 1..N /\ m-1 \in 0..N /\ m-1 \notin Bad
        BY <1>1, <1>3, <2>2
    <2> QED BY <1>4, <2>2, <2>3
<1> DEFINE X == {n} \cup (R[N][n] \cap Computeds)
<1>6. PICK x \in X : \A y \in X : x \notin Members(deps[y])
    BY DEF Ordered
<1>7. x \in R[N][n]
    BY <1>6
<1> QED BY <1>5, <1>6, <1>7

\* GraphSound holds in every state.
LEMMA SoundAlways == ASSUME BodiesAreWellTyped PROVE Spec => []GraphSound
BY SoundInit, SoundStep, PTL DEF Spec

\* What a read serves without evaluating anything rests on what a read would
\* serve so: no write, settlement, promotion, demotion or throw leaves a fresh
\* computed with a dependency that is not.
THEOREM FreshRestsOnFresh == ASSUME BodiesAreWellTyped PROVE Spec => []Supports(deps, FreshOnes)
<1>1. GraphSound => Supports(deps, FreshOnes)
    BY DEF GraphSound, Validated, Supported
<1> QED BY <1>1, SoundAlways, PTL

\* The edges never close a circle, however reads, promotions, settlements and
\* throws move them: the recursions of the graph end.
THEOREM EdgesStayAcyclic == ASSUME BodiesAreWellTyped PROVE Spec => []Acyclic
<1>1. GraphSound => Acyclic
    BY OrderedIsAcyclic DEF GraphSound, GraphInv, NodesOK, Validated, Supported
<1> QED BY <1>1, SoundAlways, PTL

\* While no drain throws, a stale dependency of a watched node has marked or
\* scheduled it: the wave may stop at what is marked.
THEOREM StaleNodesAreHeard ==
    ASSUME BodiesAreWellTyped
    PROVE  Spec /\ [][~(EndDrain /\ async[task.of].kind = "error")]_vars => []StaleIsHeard
<1>1. Init => GraphSound /\ Heard
    BY SoundInit
<1>2. GraphSound /\ Heard /\ [Next]_vars /\ [~(EndDrain /\ async[task.of].kind = "error")]_vars
          => GraphSound' /\ Heard'
    <2> SUFFICES ASSUME GraphSound, Heard, [Next]_vars, [~(EndDrain /\ async[task.of].kind = "error")]_vars
                 PROVE  GraphSound' /\ Heard'
        OBVIOUS
    <2>1. CASE ~Thrown
        BY <2>1, SoundStep
    <2>2. CASE UNCHANGED vars
        <3>1. UNCHANGED <<clock, nodes, watched, life, target>>
            BY <2>2 DEF vars, owners
        <3>2. Heard'
            BY <3>1, Untroubled
        <3> QED BY <3>2, SoundStep
    <2> QED BY <2>1, <2>2 DEF Thrown
<1>3. GraphSound /\ Heard => StaleIsHeard
    <2> SUFFICES ASSUME GraphSound, Heard, NEW n \in watched \cap Evaluated, NEW d \in Members(deps[n]) \cap Computeds,
                        mark[d] # "clean"
                 PROVE  mark[n] # "clean"
        BY DEF StaleIsHeard, Watched
    <2>1. Validated
        BY DEF GraphSound
    <2> QED BY <2>1, CleanBelow DEF Evaluated
<1> QED BY <1>1, <1>2, <1>3, PTL DEF Spec
=============================================================================
