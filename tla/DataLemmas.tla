--------------------------- MODULE DataLemmas -----------------------------
(***************************************************************************)
(* The least-element principle on the naturals, the two forms of induction *)
(* the proofs of this project draw from it, and what Only leaves of a      *)
(* list.                                                                   *)
(***************************************************************************)
EXTENDS Lists, SequenceTheorems, WellFoundedInduction, TLAPS

\* A nonempty set of naturals has a least element.
LEMMA LeastNatural ==
    ASSUME NEW T \in SUBSET Nat, T # {}
    PROVE  \E m \in T : \A k \in T : m <= k
<1>1. \E m \in T : \A k \in T : ~ (<<k, m>> \in OpToRel(<, Nat))
    BY WFMin, NatLessThanWellFounded
<1>2. PICK m \in T : \A k \in T : ~ (<<k, m>> \in OpToRel(<, Nat))
    BY <1>1
<1>3. ASSUME NEW k \in T PROVE m <= k
    <2>1. ~ (<<k, m>> \in OpToRel(<, Nat))
        BY <1>2
    <2>2. ~ (k < m)
        BY <2>1 DEF OpToRel
    <2> QED BY <2>2
<1> QED BY <1>3

\* Induction up to N, with the induction predicate given as a set.
LEMMA InductionTo ==
    ASSUME NEW N \in Nat, NEW P, 0 \in P, \A i \in 1..N : i-1 \in P => i \in P
    PROVE  0..N \subseteq P
<1> DEFINE Bad == (0..N) \ P
<1>1. Bad \in SUBSET Nat
    OBVIOUS
<1> SUFFICES ASSUME Bad # {} PROVE FALSE
    OBVIOUS
<1>2. PICK m \in Bad : \A k \in Bad : m <= k
    <2> HIDE DEF Bad
    <2> QED BY <1>1, LeastNatural
<1>3. m \in 1..N /\ m-1 \in 0..N /\ m-1 \notin Bad
    BY <1>2
<1> QED BY <1>2, <1>3

\* The values of a recursion over 0..N that starts at b.
Solves(N, b, Step, g) == g[0] = b /\ \A i \in 1..N : g[i] = Step[i][g[i-1]]

\* A recursion over 0..N whose i-th step is the function Step[i] on V has a
\* solution.
LEMMA RecursionExists ==
    ASSUME NEW N \in Nat, NEW V, NEW b \in V, NEW Step \in [1..N -> [V -> V]]
    PROVE  \E g \in [0..N -> V] : Solves(N, b, Step, g)
<1> DEFINE Sol(n, g) == g[0] = b /\ \A i \in 1..n : g[i] = Step[i][g[i-1]]
<1> DEFINE Has(n) == \E g \in [0..n -> V] : Sol(n, g)
<1> DEFINE Bad == {n \in 0..N : ~ Has(n)}
<1>1. SUFFICES Has(N)
    BY DEF Solves
<1> HIDE DEF Has
<1>2. SUFFICES ASSUME Bad # {} PROVE FALSE
    OBVIOUS
<1>0. Bad \in SUBSET Nat
    OBVIOUS
<1>3. PICK m \in Bad : \A k \in Bad : m <= k
    <2> HIDE DEF Bad
    <2> QED BY <1>2, <1>0, LeastNatural
<1>4. m # 0
    <2> DEFINE g0 == [i \in 0..0 |-> b]
    <2>1. g0 \in [0..0 -> V] /\ Sol(0, g0)
        OBVIOUS
    <2>2. Has(0)
        BY <2>1 DEF Has
    <2> QED BY <2>2
<1>5. m - 1 \in 0..N /\ m - 1 \notin Bad
    BY <1>3, <1>4
<1>6. PICK g \in [0..(m-1) -> V] : Sol(m-1, g)
    BY <1>5 DEF Has
<1> DEFINE h == [i \in 0..m |-> IF i = m THEN Step[m][g[m-1]] ELSE g[i]]
<1>7. m \in 1..N
    BY <1>4
<1>8. Step[m][g[m-1]] \in V
    BY <1>7
<1>9. h \in [0..m -> V]
    BY <1>8
<1>10. h[0] = b
    BY <1>6, <1>4
<1>11. ASSUME NEW i \in 1..m PROVE h[i] = Step[i][h[i-1]]
    <2>1. CASE i = m
        BY <2>1, <1>7
    <2>2. CASE i # m
        <3>1. i \in 1..(m-1) /\ i-1 \in 0..(m-1) /\ i-1 # m /\ i \in 0..m /\ i-1 \in 0..m
            BY <2>2
        <3> QED BY <3>1, <2>2, <1>6
    <2> QED BY <2>1, <2>2
<1>12. Sol(m, h)
    BY <1>10, <1>11
<1>13. Has(m)
    BY <1>9, <1>12 DEF Has
<1> QED BY <1>13

\* One step of Only: what it has kept of list so far, s, grows by an entry in S.
OnlyStep(list, S, s, i) == IF list[i] \in S THEN Append(s, list[i]) ELSE s

\* kept is the recursion of Only.
OnlyRun(list, S, kept) ==
    kept[0] = <<>> /\ \A i \in 1..Len(list) : kept[i] = OnlyStep(list, S, kept[i-1], i)

\* Only is the last value of its recursion.
LEMMA OnlyRuns ==
    ASSUME NEW T, NEW list \in Seq(T), NEW S
    PROVE  \E kept : OnlyRun(list, S, kept) /\ Only(list, S) = kept[Len(list)]
<1> DEFINE N == Len(list)
           Step == [i \in 1..N |-> [s \in Seq(T) |-> OnlyStep(list, S, s, i)]]
           F(g) == [i \in 0..N |->
                      IF i = 0 THEN <<>>
                      ELSE IF list[i] \in S THEN Append(g[i-1], list[i]) ELSE g[i-1]]
           R == CHOOSE g : g = F(g)
<1>1. N \in Nat /\ \A i \in 1..N : list[i] \in T
    OBVIOUS
<1>2. Step \in [1..N -> [Seq(T) -> Seq(T)]]
    <2>1. ASSUME NEW i \in 1..N, NEW s \in Seq(T) PROVE OnlyStep(list, S, s, i) \in Seq(T)
        BY <1>1 DEF OnlyStep
    <2> QED BY <2>1
<1>3. PICK g \in [0..N -> Seq(T)] : g[0] = <<>> /\ \A i \in 1..N : g[i] = Step[i][g[i-1]]
    <2> HIDE DEF Step, N
    <2>1. <<>> \in Seq(T)
        OBVIOUS
    <2>2. \E g \in [0..N -> Seq(T)] : Solves(N, <<>>, Step, g)
        BY <1>1, <1>2, <2>1, RecursionExists
    <2> QED BY <2>2 DEF Solves
<1>4. g = F(g)
    <2>1. ASSUME NEW i \in 0..N PROVE g[i] = F(g)[i]
        <3>1. CASE i = 0
            BY <3>1, <1>3
        <3>2. CASE i # 0
            <4>1. i \in 1..N /\ i-1 \in 0..N
                BY <3>2, <1>1
            <4>2. g[i-1] \in Seq(T) /\ g[i] = Step[i][g[i-1]]
                BY <4>1, <1>3
            <4>3. g[i] = OnlyStep(list, S, g[i-1], i)
                BY <4>1, <4>2
            <4> QED BY <3>2, <4>1, <4>3 DEF OnlyStep
        <3> QED BY <3>1, <3>2
    <2> QED BY <2>1, <1>3
<1>5. R = F(R)
    <2> HIDE DEF F
    <2> QED BY <1>4
<1>6. Only(list, S) = R[N]
    BY DEF Only
<1>7. OnlyRun(list, S, R)
    <2>1. ASSUME NEW i \in 0..N PROVE R[i] = F(R)[i]
        <3> HIDE DEF F, R
        <3> QED BY <1>5
    <2>2. R[0] = <<>>
        <3> HIDE DEF R
        <3> QED BY <1>1, <2>1
    <2>3. ASSUME NEW i \in 1..N PROVE R[i] = OnlyStep(list, S, R[i-1], i)
        <3> HIDE DEF R
        <3>1. i \in 0..N /\ i # 0
            BY <1>1
        <3>2. R[i] = F(R)[i]
            BY <2>1, <3>1
        <3> QED BY <3>1, <3>2 DEF OnlyStep
    <2> HIDE DEF R, N
    <2>4. R[0] = <<>> /\ \A i \in 1..N : R[i] = OnlyStep(list, S, R[i-1], i)
        BY <2>2, <2>3
    <2> QED BY <2>4 DEF OnlyRun, N
<1> HIDE DEF R
<1> QED BY <1>6, <1>7

\* Only keeps what is in S of a list, and of a list without repeats it keeps
\* every entry once.
LEMMA OnlyKeeps ==
    ASSUME NEW T, NEW list \in Seq(T), NEW S
    PROVE  /\ Only(list, S) \in Seq(T)
           /\ Members(Only(list, S)) = Members(list) \cap S
           /\ Distinct(list) => Distinct(Only(list, S))
<1> DEFINE N == Len(list)
           Upto(i) == {list[j] : j \in 1..i}
           Good(i, s) == /\ s \in Seq(T) /\ Members(s) = Upto(i) \cap S
                         /\ Distinct(list) => Distinct(s)
<1>1. N \in Nat /\ \A i \in 1..N : list[i] \in T
    OBVIOUS
<1>2. PICK kept : OnlyRun(list, S, kept) /\ Only(list, S) = kept[N]
    BY OnlyRuns
<1>3. Good(0, <<>>)
    BY DEF Members, Distinct
<1>4. ASSUME NEW i \in 1..N, NEW s, Good(i-1, s)
      PROVE  Good(i, OnlyStep(list, S, s, i))
    <2>1. Upto(i) = Upto(i-1) \cup {list[i]}
        BY <1>1
    <2>2. CASE list[i] \notin S
        BY <1>4, <2>1, <2>2 DEF OnlyStep
    <2>3. CASE list[i] \in S
        <3> DEFINE t == Append(s, list[i])
        <3>1. s \in Seq(T) /\ list[i] \in T
            BY <1>1, <1>4
        <3>2. /\ t \in Seq(T) /\ Len(t) = Len(s) + 1 /\ t[Len(s)+1] = list[i]
              /\ \A j \in 1..Len(s) : t[j] = s[j]
            BY <3>1, AppendProperties
        <3>3. OnlyStep(list, S, s, i) = t
            BY <2>3 DEF OnlyStep
        <3> HIDE DEF t
        <3>4. Len(s) \in Nat /\ DOMAIN s = 1..Len(s) /\ DOMAIN t = 1..(Len(s)+1)
            BY <3>1, <3>2
        <3>5. Members(t) = Members(s) \cup {list[i]}
            BY <3>2, <3>4 DEF Members
        <3>6. ASSUME Distinct(list) PROVE Distinct(t)
            <4>1. list[i] \notin Upto(i-1)
                BY <1>1, <3>6 DEF Distinct
            <4>2. list[i] \notin Members(s)
                BY <1>4, <4>1
            <4>3. Distinct(s)
                BY <1>4, <3>6
            <4>4. ASSUME NEW j \in 1..Len(s) PROVE t[j] # list[i] /\ s[j] = t[j]
                BY <3>2, <3>4, <4>2 DEF Members
            <4>5. ASSUME NEW j \in DOMAIN t, NEW k \in DOMAIN t, j # k PROVE t[j] # t[k]
                <5>1. CASE j \in 1..Len(s) /\ k \in 1..Len(s)
                    BY <3>4, <4>3, <4>4, <4>5, <5>1 DEF Distinct
                <5>2. CASE j = Len(s)+1 \/ k = Len(s)+1
                    BY <3>2, <3>4, <4>4, <4>5, <5>2
                <5> QED BY <3>4, <5>1, <5>2
            <4> QED BY <4>5 DEF Distinct
        <3>7. Members(t) = Upto(i) \cap S
            BY <1>4, <2>1, <2>3, <3>5
        <3> QED BY <3>2, <3>3, <3>6, <3>7
    <2> QED BY <2>2, <2>3
<1>5. Good(N, kept[N])
    <2> DEFINE P == {i \in 0..N : Good(i, kept[i])}
    <2> HIDE DEF Good, N
    <2>1. kept[0] = <<>> /\ \A i \in 1..N : kept[i] = OnlyStep(list, S, kept[i-1], i)
        BY <1>2 DEF OnlyRun, N
    <2>2. 0 \in P
        BY <1>1, <1>3, <2>1
    <2>3. ASSUME NEW i \in 1..N, i-1 \in P PROVE i \in P
        BY <1>1, <1>4, <2>1, <2>3
    <2> HIDE DEF P
    <2>4. 0..N \subseteq P
        BY <1>1, <2>2, <2>3, InductionTo
    <2> QED BY <1>1, <2>4 DEF P
<1>6. Upto(N) = Members(list)
    BY <1>1 DEF Members
<1> QED BY <1>2, <1>5, <1>6
=============================================================================
