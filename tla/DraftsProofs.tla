---------------------------- MODULE DraftsProofs ----------------------------
(***************************************************************************)
(* Theorems about Drafts, for every set of atoms, values, updaters and     *)
(* every bound: what the history of its drafts keeps true, what readers    *)
(* see, and that the logs implement the branching store.  Each step of the *)
(* engine does to what any reader resolves what the abstract step          *)
(* promises.                                                               *)
(*                                                                         *)
(* The engine asks two things of updaters, and the theorems about readers  *)
(* assume them: that they return, and that they respect the atom's         *)
(* equality.                                                               *)
(***************************************************************************)
EXTENDS Drafts, DataLemmas, SequenceTheorems, TLAPS

-----------------------------------------------------------------------------
(***************************************************************************)
(* Replay.  The value of a log after n intents is defined by recursion on  *)
(* n; these lemmas turn the recursive definition into equations, by the    *)
(* least-element principle on the naturals.                                *)
(***************************************************************************)
Results == Values \cup {Thrown}

\* Every write of the program is a function from values to results.
LEMMA OpsType == Ops \subseteq [Values -> Results]
BY OpsAssumption DEF Ops, SetTo, Results

\* Applying an intent to a result gives a result.
LEMMA ApplyType ==
    ASSUME NEW op \in Ops, NEW v \in Results
    PROVE  applyIntent(op, v) \in Results
BY OpsType DEF applyIntent, Results

\* The replay of a well-formed log, intent by intent: it starts at the value
\* before drafts, an included intent applies, any other is skipped, and every
\* prefix has a value or the mark of a throwing updater.
LEMMA ReplayEquations ==
    ASSUME NEW l \in Logs, NEW D
    PROVE  /\ replayUpTo(l, 0, D) = l.before
           /\ \A n \in 1..Len(l.intents) :
                 replayUpTo(l, n, D) =
                    IF l.intents[n].draft \in D
                    THEN applyIntent(l.intents[n].op, replayUpTo(l, n-1, D))
                    ELSE replayUpTo(l, n-1, D)
           /\ \A n \in 0..Len(l.intents) : replayUpTo(l, n, D) \in Results
<1> DEFINE N == Len(l.intents)
           Step == [i \in 1..N |-> [v \in Results |->
                      IF l.intents[i].draft \in D
                      THEN applyIntent(l.intents[i].op, v) ELSE v]]
           F(g) == [i \in 0..N |->
                      IF i = 0 THEN l.before
                      ELSE IF l.intents[i].draft \in D
                           THEN applyIntent(l.intents[i].op, g[i-1])
                           ELSE g[i-1]]
           R == CHOOSE g : g = F(g)
<1>1. N \in Nat /\ \A i \in 1..N : l.intents[i].op \in Ops
    <2>1. l.intents \in Seq(Intents)
        BY DEF Logs
    <2>2. N \in Nat /\ \A i \in 1..N : l.intents[i] \in Intents
        BY <2>1
    <2> QED BY <2>2 DEF Intents
<1>2. l.before \in Results
    BY DEF Logs, Results
<1>3. Step \in [1..N -> [Results -> Results]]
    BY <1>1, ApplyType
<1>4. PICK g \in [0..N -> Results] :
          g[0] = l.before /\ \A i \in 1..N : g[i] = Step[i][g[i-1]]
    <2> HIDE DEF Step, N, F, R
    <2>1. \E g \in [0..N -> Results] : Solves(N, l.before, Step, g)
        BY <1>1, <1>2, <1>3, RecursionExists
    <2> QED BY <2>1 DEF Solves
<1>5. g = F(g)
    <2>1. ASSUME NEW i \in 0..N PROVE g[i] = F(g)[i]
        <3>1. CASE i = 0
            BY <3>1, <1>4
        <3>2. CASE i # 0
            <4>1. i \in 1..N /\ i-1 \in 0..N
                BY <3>2, <1>1
            <4>2. g[i-1] \in Results
                BY <4>1, <1>4
            <4>3. g[i] = Step[i][g[i-1]]
                BY <4>1, <1>4
            <4> QED BY <3>2, <4>1, <4>2, <4>3
        <3> QED BY <3>1, <3>2
    <2> QED BY <2>1, <1>4
<1>6. R = F(R)
    <2> HIDE DEF F
    <2> QED BY <1>5
<1>7. \A n : replayUpTo(l, n, D) = R[n]
    BY DEF replayUpTo
<1>8. R[0] = l.before
    <2> HIDE DEF R
    <2> QED BY <1>6, <1>1
<1>9. ASSUME NEW n \in 1..N
      PROVE  R[n] = IF l.intents[n].draft \in D
                    THEN applyIntent(l.intents[n].op, R[n-1]) ELSE R[n-1]
    <2> HIDE DEF R
    <2>1. R[n] = F(R)[n]
        <3> HIDE DEF F
        <3> QED BY <1>6
    <2>2. n \in 0..N /\ n # 0
        BY <1>1
    <2> QED BY <2>1, <2>2
<1>10. \A n \in 0..N : R[n] \in Results
    <2> DEFINE P == {n \in 0..N : R[n] \in Results}
    <2> HIDE DEF R
    <2>1. 0 \in P
        BY <1>1, <1>2, <1>8
    <2>2. ASSUME NEW i \in 1..N, i-1 \in P PROVE i \in P
        BY <1>1, <1>9, <2>2, ApplyType
    <2>3. 0..N \subseteq P
        <3> HIDE DEF P, N
        <3> QED BY <1>1, <2>1, <2>2, InductionTo
    <2> QED BY <2>3
<1> QED
    <2> HIDE DEF R
    <2> QED BY <1>7, <1>8, <1>9, <1>10
-----------------------------------------------------------------------------
(***************************************************************************)
(* The dead prefix of a log and what compaction leaves of it.              *)
(***************************************************************************)
\* The dead prefix is well defined: every intent in it is dead, and the one
\* after it, if there is one, is open.
LEMMA DeadPrefixExists ==
    ASSUME NEW l \in Logs
    PROVE  /\ DeadPrefix(l) \in 0..Len(l.intents)
           /\ \A i \in 1..DeadPrefix(l) : ~IsOpen(l.intents[i].draft)
           /\ DeadPrefix(l) < Len(l.intents) =>
                 IsOpen(l.intents[DeadPrefix(l)+1].draft)
<1> DEFINE N == Len(l.intents)
           Dead(p) == /\ \A i \in 1..p : ~IsOpen(l.intents[i].draft)
                      /\ p < N => IsOpen(l.intents[p+1].draft)
           Live == {i \in 1..N : IsOpen(l.intents[i].draft)}
<1>1. N \in Nat
    BY DEF Logs
<1>2. \E p \in 0..N : Dead(p)
    <2>1. CASE Live = {}
        <3>1. Dead(N)
            BY <1>1, <2>1
        <3> QED BY <1>1, <3>1
    <2>2. CASE Live # {}
        <3>0. Live \in SUBSET Nat
            OBVIOUS
        <3>1. PICK m \in Live : \A k \in Live : m <= k
            <4> HIDE DEF Live
            <4> QED BY <2>2, <3>0, LeastNatural
        <3>2. m-1 \in 0..N /\ m \in 1..N /\ IsOpen(l.intents[m].draft)
            BY <1>1, <3>1
        <3>3. ASSUME NEW i \in 1..(m-1) PROVE ~IsOpen(l.intents[i].draft)
            BY <1>1, <3>1, <3>2
        <3>4. Dead(m-1)
            BY <3>2, <3>3
        <3> QED BY <3>2, <3>4
    <2> QED BY <2>1, <2>2
<1> QED BY <1>2 DEF DeadPrefix

\* Compaction leaves a well-formed log, or none, unless the fold throws.
LEMMA CompactedType ==
    ASSUME NEW l \in Logs,
           replayUpTo(l, DeadPrefix(l), Applied({})) # Thrown
    PROVE  IF DeadPrefix(l) = Len(l.intents) THEN Compacted(l) = NoLog
           ELSE Compacted(l) \in Logs
<1> DEFINE p == DeadPrefix(l)
           b == replayUpTo(l, p, Applied({}))
           rest == SubSeq(l.intents, p+1, Len(l.intents))
<1>1. p \in 0..Len(l.intents) /\ Len(l.intents) \in Nat
    BY DeadPrefixExists DEF Logs
<1>2. b \in Values
    BY <1>1, ReplayEquations DEF Results
<1>3. rest \in Seq(Intents)
    <2> HIDE DEF p
    <2>1. l.intents \in Seq(Intents)
        BY DEF Logs
    <2>2. \A i \in (p+1)..Len(l.intents) : l.intents[i] \in Intents
        BY <1>1, <2>1
    <2>3. \A m, n \in Int : (\A i \in m..n : l.intents[i] \in Intents) =>
                               SubSeq(l.intents, m, n) \in Seq(Intents)
        BY SubSeqProperties
    <2> QED BY <1>1, <2>2, <2>3
<1>4. [before |-> b, intents |-> rest] \in Logs
    <2> HIDE DEF b, rest
    <2> QED BY <1>2, <1>3 DEF Logs
<1> QED BY <1>4 DEF Compacted

\* The atoms a loop has done are among those it walks, and none is bad.
LEMMA DoneIsWritten ==
    ASSUME NEW d \in DraftIds, written \in [DraftIds -> Seq(Atoms)], NEW bad
    PROVE  DoneBefore(written[d], bad) \subseteq WrittenBy(d) \ bad
<1>1. written[d] \in Seq(Atoms)
    OBVIOUS
<1>2. \A i \in DOMAIN written[d] : i \in 1..i
    BY <1>1
<1> QED BY <1>2 DEF DoneBefore, WrittenBy

\* The atoms a draft wrote are atoms.
LEMMA WrittenAreAtoms ==
    ASSUME NEW d \in DraftIds, written \in [DraftIds -> Seq(Atoms)]
    PROVE  WrittenBy(d) \subseteq Atoms
BY DEF WrittenBy
-----------------------------------------------------------------------------
(***************************************************************************)
(* Type correctness.                                                       *)
(***************************************************************************)
\* The replay of a typed state is a result, in whatever world.
LEMMA ReplayType ==
    ASSUME TypeOK, NEW a \in Atoms, NEW W
    PROVE  replayLog(a, W) \in Results
<1>1. CASE log[a] = NoLog
    BY <1>1 DEF replayLog, TypeOK, Results
<1>2. CASE log[a] # NoLog
    <2>1. log[a] \in Logs
        BY <1>2 DEF TypeOK
    <2>2. Len(log[a].intents) \in 0..Len(log[a].intents)
        BY <2>1 DEF Logs
    <2> QED BY <1>2, <2>1, <2>2, ReplayEquations DEF replayLog, replay
<1> QED BY <1>1, <1>2

\* A log with one more intent.
LEMMA ExtendLog ==
    ASSUME NEW l \in Logs, NEW i \in Intents
    PROVE  /\ Extended(l, i) \in Logs
           /\ Extended(l, i).before = l.before
           /\ Len(l.intents) \in Nat
           /\ Len(Extended(l, i).intents) = Len(l.intents) + 1
           /\ \A j \in 1..Len(l.intents) : Extended(l, i).intents[j] = l.intents[j]
           /\ Extended(l, i).intents[Len(l.intents)+1] = i
<1>1. l.intents \in Seq(Intents)
    BY DEF Logs
<1> DEFINE s == Append(l.intents, i)
<1>2. /\ s \in Seq(Intents)
      /\ Len(s) = Len(l.intents)+1
      /\ \A j \in 1..Len(l.intents) : s[j] = l.intents[j]
      /\ s[Len(l.intents)+1] = i
    BY <1>1, AppendProperties
<1>3. Extended(l, i).intents = s /\ Extended(l, i).before = l.before
    BY DEF Extended, Logs
<1>4. Extended(l, i) \in Logs
    <2> HIDE DEF s
    <2>1. Extended(l, i) = [l EXCEPT !.intents = s]
        BY DEF Extended, s
    <2> QED BY <1>2, <2>1 DEF Logs
<1> QED
    <2> HIDE DEF s
    <2> QED BY <1>1, <1>2, <1>3, <1>4

\* What a drafted write does to the logs and the written sets.
LEMMA AppendDraftEffect ==
    ASSUME TypeOK, NEW d \in DraftIds, NEW a \in Atoms, NEW op \in Ops,
           draftIntent(d, a, op)
    PROVE  /\ openLog(a) \in Logs
           /\ [op |-> op, draft |-> d] \in Intents
           /\ log'[a] = Extended(openLog(a), [op |-> op, draft |-> d])
           /\ \A b \in Atoms \ {a} : log'[b] = log[b]
           /\ \A e \in DraftIds :
                 WrittenBy(e)' = IF e = d THEN WrittenBy(d) \cup {a} ELSE WrittenBy(e)
<1>1. openLog(a) \in Logs
    BY DEF TypeOK, openLog, NewLog, Logs
<1>2. [op |-> op, draft |-> d] \in Intents
    BY DEF Intents
<1>3. log' = [log EXCEPT ![a] = Extended(openLog(a), [op |-> op, draft |-> d])]
    BY DEF draftIntent
<1>4. ASSUME NEW e \in DraftIds
      PROVE  WrittenBy(e)' = IF e = d THEN WrittenBy(d) \cup {a} ELSE WrittenBy(e)
    <2>1. CASE a \in WrittenBy(d)
        BY <2>1 DEF draftIntent, WrittenBy
    <2>2. CASE a \notin WrittenBy(d)
        <3>1. written[d] \in Seq(Atoms)
            BY DEF TypeOK
        <3>2. written' = [written EXCEPT ![d] = Append(written[d], a)]
            BY <2>2 DEF draftIntent
        <3>3. written'[e] = IF e = d THEN Append(written[d], a) ELSE written[e]
            BY <3>2 DEF TypeOK
        <3>4. CASE e = d
            <4> DEFINE s == Append(written[d], a)
            <4>1. /\ Len(written[d]) \in Nat
                  /\ DOMAIN written[d] = 1..Len(written[d])
                  /\ DOMAIN s = 1..(Len(written[d])+1)
                  /\ \A j \in 1..Len(written[d]) : s[j] = written[d][j]
                  /\ s[Len(written[d])+1] = a
                BY <3>1
            <4> HIDE DEF s
            <4>2. {s[j] : j \in DOMAIN s} = {written[d][j] : j \in DOMAIN written[d]} \cup {a}
                BY <4>1
            <4> QED BY <3>3, <3>4, <4>2 DEF WrittenBy, s
        <3>5. CASE e # d
            BY <3>3, <3>5 DEF WrittenBy
        <3> QED BY <3>4, <3>5
    <2> QED BY <2>1, <2>2
<1> QED
    <2>1. log'[a] = Extended(openLog(a), [op |-> op, draft |-> d])
        BY <1>3 DEF TypeOK
    <2>2. \A b \in Atoms \ {a} : log'[b] = log[b]
        BY <1>3 DEF TypeOK
    <2> QED BY <1>1, <1>2, <1>4, <2>1, <2>2

\* A drafted write preserves the types.
LEMMA AppendDraftType ==
    ASSUME TypeOK, NEW d \in DraftIds, NEW a \in Atoms, NEW op \in Ops,
           draftIntent(d, a, op), told' \subseteq Notices
    PROVE  TypeOK'
<1> DEFINE i == [op |-> op, draft |-> d]
<1>0. openLog(a) \in Logs /\ i \in Intents /\ log'[a] = Extended(openLog(a), i)
    BY AppendDraftEffect
<1>1. log'[a] \in Logs
    <2> HIDE DEF i
    <2> QED BY <1>0, ExtendLog
<1>4. log' \in [Atoms -> Logs \cup {NoLog}]
    BY <1>1 DEF TypeOK, draftIntent
<1>5. written' \in [DraftIds -> Seq(Atoms)]
    BY DEF TypeOK, draftIntent
<1> QED BY <1>4, <1>5 DEF TypeOK, draftIntent

\* What an urgent write does to a logged atom.
LEMMA UrgentWriteEffect ==
    ASSUME TypeOK, NEW a \in Atoms, NEW op \in Ops, urgentIntent(a, op), log[a] # NoLog
    PROVE  /\ log[a] \in Logs
           /\ [op |-> op, draft |-> Urgent] \in Intents
           /\ log' = [log EXCEPT ![a] = Extended(log[a], [op |-> op, draft |-> Urgent])]
BY DEF TypeOK, urgentIntent, Intents

\* An urgent write preserves the types.
LEMMA UrgentWriteType ==
    ASSUME TypeOK, NEW a \in Atoms, NEW op \in Ops, urgentIntent(a, op), told' \subseteq Notices
    PROVE  TypeOK'
<1>1. op[base[a]] \in Values
    BY OpsType DEF TypeOK, urgentIntent, Results
<1>2. base' \in [Atoms -> Values]
    BY <1>1 DEF TypeOK, urgentIntent
<1>3. log' \in [Atoms -> Logs \cup {NoLog}]
    <2>1. CASE log[a] = NoLog
        BY <2>1 DEF TypeOK, urgentIntent
    <2>2. CASE log[a] # NoLog
        <3> DEFINE i == [op |-> op, draft |-> Urgent]
        <3>1. /\ log[a] \in Logs /\ i \in Intents
              /\ log' = [log EXCEPT ![a] = Extended(log[a], i)]
            BY <2>2, UrgentWriteEffect
        <3>2. Extended(log[a], i) \in Logs
            <4> HIDE DEF i
            <4> QED BY <3>1, ExtendLog
        <3> QED BY <3>1, <3>2 DEF TypeOK
    <2> QED BY <2>1, <2>2
<1> QED BY <1>2, <1>3 DEF TypeOK, urgentIntent

\* A retirement, aborted or not, preserves the types.
LEMMA RetireType ==
    ASSUME TypeOK, NEW d \in DraftIds, retireDraft(d)
    PROVE  TypeOK'
<1> DEFINE folded(a) == replayLog(a, {d})
           bad == {a \in WrittenBy(d) : folded(a) = Thrown}
           done == DoneBefore(written[d], bad)
           moved == {a \in done : ~Same(base[a], folded(a))}
<1>1. done \subseteq WrittenBy(d) \ bad
    <2> HIDE DEF bad
    <2> QED BY DoneIsWritten DEF TypeOK
<1>2. done \subseteq Atoms
    BY <1>1, WrittenAreAtoms DEF TypeOK
<1>3. \A a \in moved : folded(a) \in Values
    <2>1. \A a \in done : folded(a) \in Results /\ folded(a) # Thrown
        BY <1>1, <1>2, ReplayType
    <2> QED BY <2>1 DEF Results
<1>4. base' = [a \in Atoms |-> IF a \in moved THEN folded(a) ELSE base[a]]
    BY DEF retireDraft
<1>5. base' \in [Atoms -> Values]
    <2> HIDE DEF moved, folded
    <2> QED BY <1>3, <1>4 DEF TypeOK
<1>6. releasing' \in Seq(DraftIds)
    <2>1. <<d>> \in Seq(DraftIds)
        OBVIOUS
    <2>2. <<d>> \o releasing \in Seq(DraftIds)
        BY <2>1, ConcatProperties DEF TypeOK
    <2> QED BY <2>2 DEF retireDraft, TypeOK
<1>7. told' \subseteq Notices
    <2>1. told' = {Wave(a) : a \in moved} \cup {Poke(a) : a \in done}
        BY DEF retireDraft
    <2>2. moved \subseteq Atoms
        BY <1>2
    <2> HIDE DEF moved, done
    <2> QED BY <1>2, <2>1, <2>2 DEF Wave, Poke, Notices
<1>8. draftState' \in [DraftIds -> States]
    BY DEF TypeOK, retireDraft, States
<1>9. leaked' \subseteq Atoms
    BY WrittenAreAtoms DEF TypeOK, retireDraft
<1> QED BY <1>5, <1>6, <1>7, <1>8, <1>9 DEF TypeOK, retireDraft

\* A discard preserves the types.
LEMMA DiscardType ==
    ASSUME TypeOK, NEW d \in DraftIds, discardDraft(d)
    PROVE  TypeOK'
<1>1. releasing' \in Seq(DraftIds)
    <2>1. <<d>> \in Seq(DraftIds)
        OBVIOUS
    <2>2. <<d>> \o releasing \in Seq(DraftIds)
        BY <2>1, ConcatProperties DEF TypeOK
    <2> QED BY <2>2 DEF discardDraft, TypeOK
<1>2. told' \subseteq Notices
    <2>1. WrittenBy(d) \subseteq Atoms
        BY WrittenAreAtoms DEF TypeOK
    <2> QED BY <2>1 DEF discardDraft, Poke, Notices
<1>3. draftState' \in [DraftIds -> States]
    BY DEF TypeOK, discardDraft, States
<1> QED BY <1>1, <1>2, <1>3 DEF TypeOK, discardDraft

\* A release preserves the types.
LEMMA ReleaseType ==
    ASSUME TypeOK, releaseDraft
    PROVE  TypeOK'
<1> DEFINE d == Head(releasing)
           logged == {a \in WrittenBy(d) : log[a] # NoLog}
           bad == {a \in logged :
                     replayUpTo(log[a], DeadPrefix(log[a]), Applied({})) = Thrown}
           done == DoneBefore(written[d], bad)
<1>1. d \in DraftIds /\ releasing' \in Seq(DraftIds)
    BY DEF releaseDraft, TypeOK
<1>2. done \subseteq WrittenBy(d) \ bad /\ WrittenBy(d) \subseteq Atoms
    <2> HIDE DEF bad, d
    <2> QED BY <1>1, DoneIsWritten, WrittenAreAtoms DEF TypeOK
<1>3. ASSUME NEW a \in logged \cap done
      PROVE  Compacted(log[a]) \in Logs \cup {NoLog}
    <2>1. log[a] \in Logs
        BY <1>2 DEF TypeOK
    <2>2. replayUpTo(log[a], DeadPrefix(log[a]), Applied({})) # Thrown
        BY <1>2
    <2> QED BY <2>1, <2>2, CompactedType
<1>4. log' = [a \in Atoms |->
                 IF bad = {} /\ NothingLive THEN NoLog
                 ELSE IF a \in logged \cap done THEN Compacted(log[a])
                 ELSE log[a]]
    BY DEF releaseDraft
<1>5. log' \in [Atoms -> Logs \cup {NoLog}]
    <2> HIDE DEF logged, done, bad
    <2> QED BY <1>3, <1>4 DEF TypeOK
<1>6. leaked' \subseteq Atoms
    <2>1. leaked' = IF bad = {} /\ NothingLive THEN {} ELSE (leaked \cup WrittenBy(d)) \ done
        BY DEF releaseDraft
    <2> HIDE DEF bad, done
    <2> QED BY <1>2, <2>1 DEF TypeOK
<1> QED BY <1>1, <1>5, <1>6 DEF TypeOK, releaseDraft

\* Every step preserves the types.
LEMMA TypeStep == TypeOK /\ [Next]_vars => TypeOK'
<1> SUFFICES ASSUME TypeOK, [Next]_vars PROVE TypeOK'
    OBVIOUS
<1>1. ASSUME NEW d \in DraftIds, openDraft(d) PROVE TypeOK'
    BY <1>1 DEF TypeOK, openDraft, States
<1>2. CASE abortRelease
    <2>1. releasing' \in Seq(DraftIds)
        BY <1>2 DEF abortRelease, TypeOK
    <2>2. leaked' \subseteq Atoms
        <3>1. Head(releasing) \in DraftIds
            BY <1>2 DEF abortRelease, TypeOK
        <3> QED BY <1>2, <3>1, WrittenAreAtoms DEF abortRelease, TypeOK
    <2> QED BY <1>2, <2>1, <2>2 DEF TypeOK, abortRelease
<1>3. CASE UNCHANGED vars
    BY <1>3 DEF TypeOK, vars
<1>4. ASSUME NEW d \in DraftIds, abortDiscard(d) PROVE TypeOK'
    <2>1. \A i \in DOMAIN written[d] : written[d][i] \in Atoms
        BY DEF TypeOK
    <2>2. PICK reached \in DOMAIN written[d] :
              told' = {Poke(written[d][i]) : i \in 1..reached}
        BY <1>4 DEF abortDiscard
    <2>3. 1..reached \subseteq DOMAIN written[d]
        <3>1. written[d] \in Seq(Atoms)
            BY DEF TypeOK
        <3> QED BY <3>1, <2>2
    <2>4. told' \subseteq Notices
        BY <2>1, <2>2, <2>3 DEF Poke, Notices
    <2>5. leaked' \subseteq Atoms
        BY <1>4, WrittenAreAtoms DEF abortDiscard, TypeOK
    <2> QED BY <1>4, <2>4, <2>5 DEF TypeOK, abortDiscard, States
<1>5. ASSUME NEW d \in DraftIds, NEW a \in Atoms, NEW op \in Ops,
             appendDraftIntent(d, a, op) \/ abortAppend(d, a, op)
      PROVE  TypeOK'
    <2>1. draftIntent(d, a, op) /\ told' \subseteq Notices
        BY <1>5 DEF appendDraftIntent, abortAppend, Wake, Poke, Notices
    <2> QED BY <2>1, AppendDraftType
<1>6. ASSUME NEW a \in Atoms, NEW op \in Ops, urgentWrite(a, op) \/ abortRebase(a, op)
      PROVE  TypeOK'
    <2>1. CASE urgentWrite(a, op)
        <3>1. told' \subseteq Notices
            BY <2>1 DEF urgentWrite, pokeRebasedAtom, OpenInLog, OpenDrafts, Wake, Wave, Notices
        <3> QED BY <2>1, <3>1, UrgentWriteType DEF urgentWrite
    <2>2. CASE abortRebase(a, op)
        <3>1. PICK woken \in SUBSET OpenInLog(a) :
                  told' = {Wake(a, d) : d \in woken} \cup {Poke(a)}
            BY <2>2 DEF abortRebase
        <3>2. woken \subseteq DraftIds
            BY DEF OpenInLog, OpenDrafts
        <3>3. told' \subseteq Notices
            BY <3>1, <3>2 DEF Wake, Poke, Notices
        <3> QED BY <2>2, <3>3, UrgentWriteType DEF abortRebase
    <2> QED BY <1>6, <2>1, <2>2
<1> QED
    BY <1>1, <1>2, <1>3, <1>4, <1>5, <1>6, RetireType, DiscardType, ReleaseType DEF Next

\* The initial states are typed.
LEMMA TypeInit == Init => TypeOK
BY DEF Init, TypeOK, States

\* Every reachable state is well typed: in particular no replay, fold or
\* compaction ever stores the outcome of a throwing updater in an atom or in
\* a log, whatever the updaters do.
THEOREM TypeCorrect == Spec => []TypeOK
BY TypeInit, TypeStep, PTL DEF Spec

\* The steps by what they do to drafts, logs and base, whatever they announce.
LEMMA StepKinds ==
    ASSUME [Next]_vars
    PROVE  \/ \E d \in DraftIds : openDraft(d) \/ retireDraft(d) \/ discardDraft(d) \/ abortDiscard(d)
           \/ \E d \in DraftIds, a \in Atoms, op \in Ops : draftIntent(d, a, op)
           \/ \E a \in Atoms, op \in Ops : urgentIntent(a, op)
           \/ releaseDraft \/ abortRelease \/ UNCHANGED vars
<1>1. ASSUME NEW d \in DraftIds, NEW a \in Atoms, NEW op \in Ops,
             appendDraftIntent(d, a, op) \/ abortAppend(d, a, op)
      PROVE  draftIntent(d, a, op)
    BY <1>1 DEF appendDraftIntent, abortAppend
<1>2. ASSUME NEW a \in Atoms, NEW op \in Ops, urgentWrite(a, op) \/ abortRebase(a, op)
      PROVE  urgentIntent(a, op)
    BY <1>2 DEF urgentWrite, abortRebase
<1> QED BY <1>1, <1>2, Zenon DEF Next
-----------------------------------------------------------------------------
(***************************************************************************)
(* Bounded history.  An inductive strengthening of WrittenIsLogged and     *)
(* LogsStartOpen: a log may start with dead intents only while some ending *)
(* draft that wrote it is still to be released, or a throw has leaked it.  *)
(***************************************************************************)
\* Every drafted intent's atom is in its draft's written set, also after the
\* draft has ended.
Linked ==
    \A a \in Atoms : log[a] # NoLog =>
        \A i \in 1..Len(log[a].intents) :
            LET d == log[a].intents[i].draft
            IN  d # Urgent => a \in WrittenBy(d) /\ draftState[d] # "unopened"

\* Every atom an open draft wrote still has one of its intents.
Kept ==
    \A d \in OpenDrafts : \A a \in WrittenBy(d) :
        log[a] # NoLog /\ \E i \in 1..Len(log[a].intents) : log[a].intents[i].draft = d

\* Every log starts open, is about to be released, or was left behind.
Headed(a) ==
    /\ log[a].intents # <<>>
    /\ \/ IsOpen(log[a].intents[1].draft)
       \/ \E j \in 1..Len(releasing) : a \in WrittenBy(releasing[j])
       \/ a \in leaked
HeadsOpen == \A a \in Atoms : log[a] # NoLog => Headed(a)

\* A draft has written nothing before it is opened.
FreshUnwritten ==
    \A d \in DraftIds : draftState[d] = "unopened" => WrittenBy(d) = {}

HistoryInv == TypeOK /\ FreshUnwritten /\ Linked /\ Kept

\* A compacted log holds the intents that followed the dead prefix.
LEMMA CompactedIntents ==
    ASSUME NEW l \in Logs, Compacted(l) # NoLog
    PROVE  LET p == DeadPrefix(l)
               c == Compacted(l)
           IN  /\ p \in 0..(Len(l.intents)-1)
               /\ Len(c.intents) = Len(l.intents) - p
               /\ \A i \in 1..Len(c.intents) : c.intents[i] = l.intents[p+i]
               /\ c.before = replayUpTo(l, p, Applied({}))
<1> DEFINE p == DeadPrefix(l)
           n == Len(l.intents)
           rest == SubSeq(l.intents, p+1, n)
<1>1. p \in 0..n /\ n \in Nat
    BY DeadPrefixExists DEF Logs
<1>2. p # n
    BY DEF Compacted
<1>3. Compacted(l) = [before |-> replayUpTo(l, p, Applied({})), intents |-> rest]
    BY <1>2 DEF Compacted
<1>4. Len(rest) = n - p /\ \A i \in 1..(n-p) : rest[i] = l.intents[p+i]
    <2> HIDE DEF p
    <2>1. l.intents \in Seq(Intents)
        BY DEF Logs
    <2>2. \A i \in (p+1)..n : l.intents[i] \in Intents
        BY <1>1, <2>1
    <2>3. \A m, k \in Int : (\A i \in m..k : l.intents[i] \in Intents) =>
             /\ Len(SubSeq(l.intents, m, k)) = IF m <= k THEN k-m+1 ELSE 0
             /\ \A i \in 1..(k-m+1) : SubSeq(l.intents, m, k)[i] = l.intents[m+i-1]
        BY SubSeqProperties
    <2>4. p+1 \in Int /\ n \in Int /\ p+1 <= n
        BY <1>1, <1>2
    <2>5. Len(rest) = n-(p+1)+1
        BY <2>2, <2>3, <2>4
    <2>6. \A i \in 1..(n-(p+1)+1) : rest[i] = l.intents[(p+1)+i-1]
        BY <2>2, <2>3, <2>4
    <2> HIDE DEF rest, n
    <2>7. n-(p+1)+1 = n-p /\ \A i \in Int : (p+1)+i-1 = p+i
        BY <1>1
    <2> HIDE DEF p
    <2>8. Len(rest) = n-p
        BY <2>5, <2>7
    <2>9. ASSUME NEW i \in 1..(n-p) PROVE rest[i] = l.intents[p+i]
        BY <1>1, <2>6, <2>7, <2>9
    <2> QED BY <2>8, <2>9
<1>5. Compacted(l).intents = rest /\ Compacted(l).before = replayUpTo(l, p, Applied({}))
    <2> HIDE DEF rest
    <2> QED BY <1>3
<1>6. p \in 0..(n-1)
    BY <1>1, <1>2
<1> QED
    <2> HIDE DEF rest
    <2> QED BY <1>4, <1>5, <1>6

\* Compaction deletes a log only when no open draft has an intent in it.
LEMMA CompactedAway ==
    ASSUME NEW l \in Logs, Compacted(l) = NoLog,
           replayUpTo(l, DeadPrefix(l), Applied({})) # Thrown
    PROVE  \A i \in 1..Len(l.intents) : ~IsOpen(l.intents[i].draft)
<1>1. CASE DeadPrefix(l) = Len(l.intents)
    BY <1>1, DeadPrefixExists
<1>2. CASE DeadPrefix(l) # Len(l.intents)
    BY <1>2, CompactedType, NoLogAssumption
<1> QED BY <1>1, <1>2

\* What a release does to each log: clear it, leave it, or compact it.
LEMMA ReleaseEffect ==
    ASSUME TypeOK, releaseDraft, NEW a \in Atoms
    PROVE  \/ log'[a] = NoLog /\ OpenDrafts = {}
           \/ log'[a] = log[a]
           \/ /\ log[a] \in Logs
              /\ replayUpTo(log[a], DeadPrefix(log[a]), Applied({})) # Thrown
              /\ log'[a] = Compacted(log[a])
<1> DEFINE d == Head(releasing)
           logged == {b \in WrittenBy(d) : log[b] # NoLog}
           bad == {b \in logged :
                     replayUpTo(log[b], DeadPrefix(log[b]), Applied({})) = Thrown}
           done == DoneBefore(written[d], bad)
<1>1. d \in DraftIds
    BY DEF releaseDraft, TypeOK
<1>2. done \subseteq WrittenBy(d) \ bad
    <2> HIDE DEF bad, d
    <2> QED BY <1>1, DoneIsWritten DEF TypeOK
<1>3. log'[a] = IF bad = {} /\ NothingLive THEN NoLog
                ELSE IF a \in logged \cap done THEN Compacted(log[a])
                ELSE log[a]
    BY DEF releaseDraft
<1>4. CASE a \in logged \cap done
    <2>1. log[a] \in Logs /\ a \notin bad
        BY <1>2, <1>4 DEF TypeOK
    <2> QED BY <1>3, <1>4, <2>1 DEF NothingLive
<1>5. CASE a \notin logged \cap done
    BY <1>3, <1>5 DEF NothingLive
<1> QED BY <1>4, <1>5

\* Written sets only grow, and a draft once opened stays opened.
LEMMA WrittenGrows ==
    ASSUME TypeOK, [Next]_vars, NEW d \in DraftIds
    PROVE  /\ WrittenBy(d) \subseteq WrittenBy(d)'
           /\ draftState[d] # "unopened" => draftState'[d] # "unopened"
<1>1. ASSUME NEW e \in DraftIds, openDraft(e) \/ retireDraft(e) \/ discardDraft(e) \/ abortDiscard(e)
      PROVE  /\ written' = written
             /\ draftState[d] # "unopened" => draftState'[d] # "unopened"
    BY <1>1 DEF openDraft, retireDraft, discardDraft, abortDiscard, TypeOK
<1>2. ASSUME NEW e \in DraftIds, NEW b \in Atoms, NEW op \in Ops,
             draftIntent(e, b, op)
      PROVE  draftState' = draftState /\ WrittenBy(d) \subseteq WrittenBy(d)'
    <2>1. WrittenBy(d)' = IF d = e THEN WrittenBy(e) \cup {b} ELSE WrittenBy(d)
        BY <1>2, AppendDraftEffect
    <2> QED BY <1>2, <2>1 DEF draftIntent
<1>3. CASE \/ \E b \in Atoms, op \in Ops : urgentIntent(b, op)
           \/ releaseDraft \/ abortRelease \/ UNCHANGED vars
    BY <1>3 DEF urgentIntent, releaseDraft, abortRelease, vars, WrittenBy
<1> QED BY <1>1, <1>2, <1>3, StepKinds DEF WrittenBy

\* Where an intent of a log comes from: it was there, or this step issued it,
\* urgently or for a draft that has the atom in its written set from now on.
LEMMA IntentOrigin ==
    ASSUME TypeOK, [Next]_vars, NEW a \in Atoms, log'[a] # NoLog,
           NEW i \in 1..Len(log'[a].intents)
    PROVE  \/ /\ log[a] \in Logs
              /\ \E j \in 1..Len(log[a].intents) : log'[a].intents[i] = log[a].intents[j]
           \/ log'[a].intents[i].draft = Urgent
           \/ \E d \in DraftIds : /\ log'[a].intents[i].draft = d
                                 /\ a \in WrittenBy(d)' /\ draftState'[d] = "open"
<1> DEFINE Kept0 == /\ log[a] \in Logs
                    /\ \E j \in 1..Len(log[a].intents) :
                          log'[a].intents[i] = log[a].intents[j]
<1>1. CASE log'[a] = log[a]
    BY <1>1 DEF TypeOK
<1>2. ASSUME NEW d \in DraftIds, NEW op \in Ops, draftIntent(d, a, op)
      PROVE  \/ Kept0
             \/ /\ log'[a].intents[i].draft = d
                /\ a \in WrittenBy(d)' /\ draftState'[d] = "open"
    <2> DEFINE in == [op |-> op, draft |-> d]
               n == Len(openLog(a).intents)
    <2>1. openLog(a) \in Logs /\ in \in Intents /\ log'[a] = Extended(openLog(a), in)
        BY <1>2, AppendDraftEffect
    <2>2. /\ n \in Nat /\ Len(log'[a].intents) = n+1
          /\ \A j \in 1..n : log'[a].intents[j] = openLog(a).intents[j]
          /\ log'[a].intents[n+1] = in
        <3> HIDE DEF in
        <3> QED BY <2>1, ExtendLog
    <2>3. CASE i = n+1
        <3>1. log'[a].intents[i].draft = d
            BY <2>2, <2>3
        <3>2. WrittenBy(d)' = WrittenBy(d) \cup {a}
            BY <1>2, AppendDraftEffect
        <3> QED BY <1>2, <3>1, <3>2 DEF draftIntent
    <2>4. CASE i # n+1
        <3>1. i \in 1..n
            BY <2>2, <2>4
        <3>2. log[a] # NoLog
            BY <3>1 DEF openLog, NewLog
        <3>3. openLog(a) = log[a]
            BY <3>2 DEF openLog
        <3> HIDE DEF n
        <3>4. log'[a].intents[i] = log[a].intents[i] /\ i \in 1..Len(log[a].intents)
            BY <2>2, <3>1, <3>3 DEF n
        <3> QED BY <2>1, <3>3, <3>4
    <2> QED BY <2>3, <2>4
<1>3. ASSUME NEW op \in Ops, urgentIntent(a, op), log'[a] # log[a]
      PROVE  Kept0 \/ log'[a].intents[i].draft = Urgent
    <2> DEFINE in == [op |-> op, draft |-> Urgent]
               n == Len(log[a].intents)
    <2>1. log[a] # NoLog
        BY <1>3 DEF urgentIntent
    <2>2. log[a] \in Logs /\ in \in Intents /\ log'[a] = Extended(log[a], in)
        BY <1>3, <2>1, UrgentWriteEffect DEF TypeOK
    <2>3. /\ n \in Nat /\ Len(log'[a].intents) = n+1
          /\ \A j \in 1..n : log'[a].intents[j] = log[a].intents[j]
          /\ log'[a].intents[n+1] = in
        <3> HIDE DEF in
        <3> QED BY <2>2, ExtendLog
    <2>4. CASE i = n+1
        BY <2>3, <2>4
    <2>5. CASE i # n+1
        <3>1. i \in 1..n
            BY <2>3, <2>5
        <3> QED BY <2>2, <2>3, <3>1
    <2> QED BY <2>4, <2>5
<1>4. CASE releaseDraft /\ log'[a] # log[a]
    <2>1. log[a] \in Logs /\ log'[a] = Compacted(log[a])
        BY <1>4, ReleaseEffect
    <2> DEFINE p == DeadPrefix(log[a])
    <2>2. /\ p \in 0..(Len(log[a].intents)-1)
          /\ Len(log'[a].intents) = Len(log[a].intents) - p
          /\ log'[a].intents[i] = log[a].intents[p+i]
        BY <2>1, CompactedIntents
    <2>3. Len(log[a].intents) \in Nat
        BY <2>1 DEF Logs
    <2>4. p+i \in 1..Len(log[a].intents)
        <3> HIDE DEF p
        <3> QED BY <2>2, <2>3
    <2> QED BY <2>1, <2>2, <2>4
<1>5. ASSUME NEW d \in DraftIds, openDraft(d) \/ retireDraft(d) \/ discardDraft(d) \/ abortDiscard(d)
      PROVE  log'[a] = log[a]
    BY <1>5 DEF openDraft, retireDraft, discardDraft, abortDiscard
<1>6. ASSUME abortRelease \/ UNCHANGED vars
      PROVE  log'[a] = log[a]
    BY <1>6 DEF abortRelease, vars
<1>7. ASSUME NEW d \in DraftIds, NEW b \in Atoms, NEW op \in Ops, b # a,
             draftIntent(d, b, op)
      PROVE  log'[a] = log[a]
    BY <1>7, AppendDraftEffect
<1>8. ASSUME NEW b \in Atoms, NEW op \in Ops, b # a, urgentIntent(b, op)
      PROVE  log'[a] = log[a]
    BY <1>8 DEF urgentIntent, movesBase, TypeOK
<1> QED
    <2>1. CASE log'[a] # log[a]
        <3>1. \/ \E d \in DraftIds, b \in Atoms, op \in Ops : draftIntent(d, b, op)
              \/ \E b \in Atoms, op \in Ops : urgentIntent(b, op)
              \/ releaseDraft
            BY <2>1, <1>5, <1>6, StepKinds
        <3>2. ASSUME NEW d \in DraftIds, NEW b \in Atoms, NEW op \in Ops,
                     draftIntent(d, b, op)
              PROVE  draftIntent(d, a, op)
            BY <2>1, <3>2, <1>7
        <3>3. ASSUME NEW b \in Atoms, NEW op \in Ops, urgentIntent(b, op)
              PROVE  urgentIntent(a, op)
            BY <2>1, <3>3, <1>8
        <3> QED BY <2>1, <3>1, <3>2, <3>3, <1>2, <1>3, <1>4
    <2> QED BY <1>1, <2>1

\* Every step keeps the intents in the logs linked to their drafts' written sets.
LEMMA LinkedStep == HistoryInv /\ [Next]_vars => Linked'
<1> SUFFICES ASSUME HistoryInv, [Next]_vars,
                    NEW a \in Atoms, log'[a] # NoLog, NEW i \in 1..Len(log'[a].intents),
                    NEW d, d = log'[a].intents[i].draft, d # Urgent
             PROVE  a \in WrittenBy(d)' /\ draftState'[d] # "unopened"
    BY DEF Linked
<1> USE DEF HistoryInv
<1>1. ASSUME log[a] \in Logs, NEW j \in 1..Len(log[a].intents),
             log'[a].intents[i] = log[a].intents[j]
      PROVE  a \in WrittenBy(d)' /\ draftState'[d] # "unopened"
    <2>1. log[a] # NoLog /\ log[a].intents[j] \in Intents
        BY <1>1, NoLogAssumption DEF Logs
    <2>2. d \in DraftIds
        BY <1>1, <2>1 DEF Intents
    <2>3. a \in WrittenBy(d) /\ draftState[d] # "unopened"
        BY <1>1, <2>1 DEF Linked
    <2> QED BY <2>2, <2>3, WrittenGrows
<1>2. ASSUME NEW e \in DraftIds, d = e, a \in WrittenBy(e)', draftState'[e] = "open"
      PROVE  a \in WrittenBy(d)' /\ draftState'[d] # "unopened"
    BY <1>2
<1> QED BY <1>1, <1>2, IntentOrigin

\* An intent of an open draft stays in its log, whatever the step.
LEMMA OpenIntentStays ==
    ASSUME TypeOK, [Next]_vars, NEW a \in Atoms, log[a] \in Logs,
           NEW j \in 1..Len(log[a].intents), IsOpen(log[a].intents[j].draft)
    PROVE  /\ log'[a] # NoLog
           /\ \E i \in 1..Len(log'[a].intents) : log'[a].intents[i] = log[a].intents[j]
<1> DEFINE n == Len(log[a].intents)
<1>0. log[a] # NoLog /\ n \in Nat
    BY NoLogAssumption DEF Logs
<1>1. CASE log'[a] = log[a]
    BY <1>0, <1>1
<1>2. ASSUME NEW in \in Intents, log'[a] = Extended(log[a], in)
      PROVE  /\ log'[a] # NoLog
             /\ \E i \in 1..Len(log'[a].intents) : log'[a].intents[i] = log[a].intents[j]
    <2>0. /\ Extended(log[a], in) \in Logs
          /\ Len(Extended(log[a], in).intents) = n+1
          /\ Extended(log[a], in).intents[j] = log[a].intents[j]
        BY ExtendLog
    <2>1. /\ log'[a] \in Logs /\ Len(log'[a].intents) = n+1
          /\ log'[a].intents[j] = log[a].intents[j]
        BY <1>2, <2>0
    <2>2. j \in 1..Len(log'[a].intents)
        BY <1>0, <2>1
    <2> QED BY <2>1, <2>2, NoLogAssumption
<1>3. ASSUME NEW d \in DraftIds, NEW b \in Atoms, NEW op \in Ops,
             draftIntent(d, b, op), a = b
      PROVE  \E in \in Intents : log'[a] = Extended(log[a], in)
    <2>1. openLog(a) = log[a]
        BY <1>0 DEF openLog
    <2>2. /\ [op |-> op, draft |-> d] \in Intents
          /\ log'[a] = Extended(openLog(a), [op |-> op, draft |-> d])
        BY <1>3, AppendDraftEffect
    <2> QED BY <2>1, <2>2
<1>4. ASSUME NEW b \in Atoms, NEW op \in Ops, urgentIntent(b, op), a = b
      PROVE  \E in \in Intents : log'[a] = Extended(log[a], in)
    BY <1>0, <1>4, UrgentWriteEffect DEF TypeOK
<1>5. ASSUME releaseDraft, log'[a] # log[a]
      PROVE  /\ log'[a] # NoLog
             /\ \E i \in 1..Len(log'[a].intents) : log'[a].intents[i] = log[a].intents[j]
    <2>1. OpenDrafts # {}
        BY DEF IsOpen, OpenDrafts
    <2>2. /\ replayUpTo(log[a], DeadPrefix(log[a]), Applied({})) # Thrown
          /\ log'[a] = Compacted(log[a])
        BY <1>5, <2>1, ReleaseEffect
    <2>3. log'[a] # NoLog
        BY <2>2, CompactedAway
    <2> DEFINE p == DeadPrefix(log[a])
    <2>4. /\ p \in 0..(n-1)
          /\ Len(log'[a].intents) = n - p
          /\ \A i \in 1..(n-p) : log'[a].intents[i] = log[a].intents[p+i]
        BY <2>2, <2>3, CompactedIntents
    <2>5. j \notin 1..p
        BY DeadPrefixExists
    <2> HIDE DEF p
    <2>6. j-p \in 1..(n-p) /\ p+(j-p) = j
        BY <1>0, <2>4, <2>5
    <2>7. log'[a].intents[j-p] = log[a].intents[j]
        BY <2>4, <2>6
    <2> QED BY <2>3, <2>4, <2>6, <2>7
<1>6. ASSUME \/ \E d \in DraftIds : openDraft(d) \/ retireDraft(d) \/ discardDraft(d) \/ abortDiscard(d)
             \/ abortRelease \/ UNCHANGED vars
      PROVE  log'[a] = log[a]
    BY <1>6 DEF openDraft, retireDraft, discardDraft, abortDiscard, abortRelease, vars
<1>7. ASSUME NEW d \in DraftIds, NEW b \in Atoms, NEW op \in Ops, b # a,
             draftIntent(d, b, op)
      PROVE  log'[a] = log[a]
    BY <1>7, AppendDraftEffect
<1>8. ASSUME NEW b \in Atoms, NEW op \in Ops, b # a, urgentIntent(b, op)
      PROVE  log'[a] = log[a]
    BY <1>8 DEF urgentIntent, movesBase, TypeOK
<1>9. ASSUME NEW d \in DraftIds, NEW b \in Atoms, NEW op \in Ops,
             draftIntent(d, b, op)
      PROVE  log'[a] = log[a] \/ \E in \in Intents : log'[a] = Extended(log[a], in)
    BY <1>9, <1>3, <1>7
<1>10. ASSUME NEW b \in Atoms, NEW op \in Ops, urgentIntent(b, op)
       PROVE  log'[a] = log[a] \/ \E in \in Intents : log'[a] = Extended(log[a], in)
    BY <1>10, <1>4, <1>8
<1> QED
    <2>1. \/ log'[a] = log[a]
          \/ \E in \in Intents : log'[a] = Extended(log[a], in)
          \/ releaseDraft /\ log'[a] # log[a]
        BY <1>6, <1>9, <1>10, StepKinds
    <2> QED BY <2>1, <1>1, <1>2, <1>5

\* Every step keeps, for each atom an open draft wrote, one of its intents.
LEMMA KeptStep == HistoryInv /\ [Next]_vars => Kept'
<1> SUFFICES ASSUME HistoryInv, [Next]_vars,
                    NEW d \in DraftIds, draftState'[d] = "open", NEW a \in WrittenBy(d)'
             PROVE  /\ log'[a] # NoLog
                    /\ \E i \in 1..Len(log'[a].intents) : log'[a].intents[i].draft = d
    BY DEF Kept, OpenDrafts
<1> USE DEF HistoryInv
<1>1. ASSUME draftState[d] = "open", a \in WrittenBy(d)
      PROVE  /\ log'[a] # NoLog
             /\ \E i \in 1..Len(log'[a].intents) : log'[a].intents[i].draft = d
    <2>1. a \in Atoms /\ IsOpen(d)
        BY <1>1, WrittenAreAtoms DEF TypeOK, IsOpen
    <2>2. log[a] \in Logs
        BY <1>1, <2>1 DEF Kept, OpenDrafts, TypeOK
    <2>3. PICK j \in 1..Len(log[a].intents) : log[a].intents[j].draft = d
        BY <1>1 DEF Kept, OpenDrafts
    <2> QED BY <2>1, <2>2, <2>3, OpenIntentStays
<1>2. ASSUME NEW e \in DraftIds, openDraft(e)
      PROVE  draftState[d] = "open" /\ a \in WrittenBy(d)
    <2>1. WrittenBy(d)' = WrittenBy(d)
        BY <1>2 DEF openDraft, WrittenBy
    <2>2. d # e
        BY <1>2, <2>1 DEF FreshUnwritten, openDraft
    <2> QED BY <1>2, <2>1, <2>2 DEF openDraft, TypeOK
<1>3. ASSUME NEW e \in DraftIds, retireDraft(e) \/ discardDraft(e) \/ abortDiscard(e)
      PROVE  draftState[d] = "open" /\ a \in WrittenBy(d)
    BY <1>3 DEF retireDraft, discardDraft, abortDiscard, TypeOK, WrittenBy
<1>4. ASSUME NEW e \in DraftIds, NEW b \in Atoms, NEW op \in Ops,
             draftIntent(e, b, op)
      PROVE  /\ log'[a] # NoLog
             /\ \E i \in 1..Len(log'[a].intents) : log'[a].intents[i].draft = d
    <2>1. draftState[d] = "open"
        BY <1>4 DEF draftIntent
    <2>2. CASE a \in WrittenBy(d)
        BY <1>1, <2>1, <2>2
    <2>3. CASE a \notin WrittenBy(d)
        <3> DEFINE in == [op |-> op, draft |-> e]
        <3>1. e = d /\ a = b
            BY <1>4, <2>3, AppendDraftEffect
        <3>2. openLog(a) \in Logs /\ in \in Intents /\ log'[a] = Extended(openLog(a), in)
            BY <1>4, <3>1, AppendDraftEffect
        <3>3. in.draft = d
            BY <3>1
        <3> HIDE DEF in
        <3> DEFINE n == Len(openLog(a).intents)
        <3>4. /\ n \in Nat /\ log'[a] \in Logs /\ Len(log'[a].intents) = n+1
              /\ log'[a].intents[n+1] = in
            BY <3>2, ExtendLog
        <3>5. n+1 \in 1..Len(log'[a].intents)
            BY <3>4
        <3> QED BY <3>3, <3>4, <3>5, NoLogAssumption
    <2> QED BY <2>2, <2>3
<1>5. ASSUME \/ \E b \in Atoms, op \in Ops : urgentIntent(b, op)
             \/ releaseDraft \/ abortRelease \/ UNCHANGED vars
      PROVE  draftState[d] = "open" /\ a \in WrittenBy(d)
    BY <1>5 DEF urgentIntent, releaseDraft, abortRelease, vars, WrittenBy
<1> QED BY <1>1, <1>2, <1>3, <1>4, <1>5, StepKinds

\* No step lets a draft write before it is open.
LEMMA FreshStep == HistoryInv /\ [Next]_vars => FreshUnwritten'
<1> SUFFICES ASSUME HistoryInv, [Next]_vars, NEW d \in DraftIds,
                    draftState'[d] = "unopened"
             PROVE  WrittenBy(d)' = {}
    BY DEF FreshUnwritten
<1> USE DEF HistoryInv
<1>1. draftState[d] = "unopened" /\ WrittenBy(d) = {}
    BY WrittenGrows DEF FreshUnwritten
<1>2. ASSUME NEW e \in DraftIds, NEW b \in Atoms, NEW op \in Ops,
             draftIntent(e, b, op)
      PROVE  WrittenBy(d)' = {}
    <2>1. e # d
        BY <1>1, <1>2 DEF draftIntent
    <2> QED BY <1>1, <1>2, <2>1, AppendDraftEffect
<1>3. ASSUME NEW e \in DraftIds, openDraft(e) \/ retireDraft(e) \/ discardDraft(e) \/ abortDiscard(e)
      PROVE  written' = written
    BY <1>3 DEF openDraft, retireDraft, discardDraft, abortDiscard
<1>4. ASSUME \/ \E b \in Atoms, op \in Ops : urgentIntent(b, op)
             \/ releaseDraft \/ abortRelease \/ UNCHANGED vars
      PROVE  written' = written
    BY <1>4 DEF urgentIntent, releaseDraft, abortRelease, vars
<1> QED BY <1>1, <1>2, <1>3, <1>4, StepKinds DEF WrittenBy

\* The initial states satisfy the history invariant.
LEMMA HistoryInit == Init => HistoryInv
<1> SUFFICES ASSUME Init PROVE HistoryInv
    OBVIOUS
<1>1. TypeOK
    BY TypeInit
<1>2. \A a \in Atoms : log[a] = NoLog
    BY DEF Init
<1>3. \A d \in DraftIds : draftState[d] = "unopened" /\ WrittenBy(d) = {}
    BY DEF Init, WrittenBy
<1> QED BY <1>1, <1>2, <1>3 DEF HistoryInv, FreshUnwritten, Linked, Kept, OpenDrafts

\* The history invariant holds in every reachable state.
LEMMA HistoryInvariant == Spec => []HistoryInv
<1>1. HistoryInv /\ [Next]_vars => HistoryInv'
    BY TypeStep, LinkedStep, KeptStep, FreshStep DEF HistoryInv
<1> QED BY HistoryInit, <1>1, PTL DEF Spec

\* The written sets and the logs name the same atoms for every open draft,
\* whatever the updaters and the effects throw: a late subscription that asks
\* the written sets and a rebase that asks the logs reach the same drafts.
THEOREM WrittenSetsAgree == Spec => []WrittenIsLogged
<1>1. HistoryInv => WrittenIsLogged
    <2> SUFFICES ASSUME HistoryInv, NEW d \in OpenDrafts, NEW a \in Atoms
                 PROVE  a \in WrittenBy(d) <=> (log[a] # NoLog /\ d \in OpenInLog(a))
        BY DEF WrittenIsLogged
    <2>1. log[a] # NoLog => DOMAIN log[a].intents = 1..Len(log[a].intents)
        BY DEF HistoryInv, TypeOK, Logs
    <2>2. d \in DraftIds /\ d # Urgent
        BY BoundsAssumption DEF OpenDrafts, DraftIds, Urgent
    <2>3. ASSUME a \in WrittenBy(d) PROVE log[a] # NoLog /\ d \in OpenInLog(a)
        BY <2>1, <2>3 DEF HistoryInv, Kept, OpenInLog
    <2>4. ASSUME log[a] # NoLog, d \in OpenInLog(a) PROVE a \in WrittenBy(d)
        <3>1. PICK i \in 1..Len(log[a].intents) : log[a].intents[i].draft = d
            BY <2>1, <2>4 DEF OpenInLog
        <3> QED BY <2>2, <2>4, <3>1 DEF HistoryInv, Linked
    <2> QED BY <2>3, <2>4
<1> QED BY HistoryInvariant, <1>1, PTL

-----------------------------------------------------------------------------
\* With updaters that return, every prefix of a replay has a value.
LEMMA ReplayTotal ==
    ASSUME UpdatersReturn, NEW l \in Logs, NEW D
    PROVE  \A n \in 0..Len(l.intents) : replayUpTo(l, n, D) \in Values
<1> DEFINE N == Len(l.intents)
           P == {n \in 0..N : replayUpTo(l, n, D) \in Values}
<1>1. N \in Nat /\ l.before \in Values
    BY DEF Logs
<1>2. 0 \in P
    BY <1>1, ReplayEquations
<1>3. ASSUME NEW i \in 1..N, i-1 \in P PROVE i \in P
    <2>1. l.intents[i].op \in Ops
        <3>1. l.intents[i] \in Intents
            BY DEF Logs
        <3> QED BY <3>1 DEF Intents
    <2>2. \A op \in Ops, v \in Values : op[v] \in Values
        BY OpsAssumption DEF UpdatersReturn, Ops, SetTo
    <2>3. \A op \in Ops, v \in Values : applyIntent(op, v) \in Values
        BY <2>2, OpsAssumption DEF applyIntent
    <2>4. i-1 \in 0..N /\ i \in 0..N /\ replayUpTo(l, i-1, D) \in Values
        BY <1>1, <1>3
    <2>5. applyIntent(l.intents[i].op, replayUpTo(l, i-1, D)) \in Values
        BY <2>1, <2>3, <2>4
    <2>6. replayUpTo(l, i, D) =
            IF l.intents[i].draft \in D
            THEN applyIntent(l.intents[i].op, replayUpTo(l, i-1, D))
            ELSE replayUpTo(l, i-1, D)
        BY <1>3, ReplayEquations
    <2>7. replayUpTo(l, i, D) \in Values
        BY <2>4, <2>5, <2>6
    <2> QED BY <2>4, <2>7
<1>4. 0..N \subseteq P
    <2> HIDE DEF P, N
    <2> QED BY <1>1, <1>2, <1>3, InductionTo
<1> QED BY <1>4

\* A loop that meets no bad atom does them all.
LEMMA DoneIsAll ==
    ASSUME NEW d \in DraftIds, written \in [DraftIds -> Seq(Atoms)]
    PROVE  DoneBefore(written[d], {}) = WrittenBy(d)
BY DEF DoneBefore, WrittenBy

\* An ended draft is in front of the frames to release, or its atoms leak.
LEMMA EndLeaves ==
    ASSUME NEW d \in DraftIds, retireDraft(d) \/ discardDraft(d) \/ abortDiscard(d)
    PROVE  \/ releasing' = <<d>> \o releasing /\ leaked' = leaked
           \/ releasing' = releasing /\ leaked' = leaked \cup WrittenBy(d)
BY Zenon DEF retireDraft, discardDraft, abortDiscard

\* A release compacts a log its draft wrote, or stops before it and leaves it
\* behind; the others stay as they are.
LEMMA ReleaseCompacts ==
    ASSUME TypeOK, releaseDraft, NEW a \in Atoms, log'[a] # NoLog
    PROVE  \/ log[a] \in Logs /\ log'[a] = Compacted(log[a])
           \/ log'[a] = log[a] /\ a \in leaked'
           \/ /\ log'[a] = log[a] /\ a \notin WrittenBy(Head(releasing))
              /\ a \in leaked => a \in leaked'
<1> DEFINE d == Head(releasing)
           logged == {b \in WrittenBy(d) : log[b] # NoLog}
           bad == {b \in logged :
                     replayUpTo(log[b], DeadPrefix(log[b]), Applied({})) = Thrown}
           done == DoneBefore(written[d], bad)
           all == bad = {} /\ NothingLive
<1>1. d \in DraftIds
    BY DEF releaseDraft, TypeOK
<1>2. done \subseteq WrittenBy(d)
    <2> HIDE DEF bad, d
    <2> QED BY <1>1, DoneIsWritten DEF TypeOK
<1>3. log'[a] = IF all THEN NoLog
                ELSE IF a \in logged \cap done THEN Compacted(log[a])
                ELSE log[a]
    BY DEF releaseDraft
<1>4. leaked' = IF all THEN {} ELSE (leaked \cup WrittenBy(d)) \ done
    BY DEF releaseDraft
<1> HIDE DEF all, done, bad
<1>5. ~all
    BY <1>3
<1>6. CASE a \in logged \cap done
    BY <1>3, <1>5, <1>6 DEF TypeOK
<1>7. CASE a \notin logged \cap done
    <2>1. log'[a] = log[a] /\ (a \in WrittenBy(d) => a \in logged)
        BY <1>3, <1>5, <1>7
    <2> HIDE DEF logged, d
    <2>2. CASE a \in WrittenBy(d)
        BY <1>4, <1>5, <1>7, <2>1, <2>2
    <2>3. CASE a \notin WrittenBy(d)
        BY <1>2, <1>4, <1>5, <2>1, <2>3 DEF d
    <2> QED BY <2>2, <2>3
<1> QED BY <1>6, <1>7

\* The frames of ended drafts grow and shrink at the front.
LEMMA PushedFrame ==
    ASSUME NEW e \in DraftIds, releasing \in Seq(DraftIds)
    PROVE  /\ Len(<<e>> \o releasing) = Len(releasing) + 1
           /\ (<<e>> \o releasing)[1] = e
           /\ \A j \in 1..Len(releasing) : (<<e>> \o releasing)[j+1] = releasing[j]
<1>1. <<e>> \in Seq(DraftIds) /\ Len(<<e>>) = 1 /\ <<e>>[1] = e
    OBVIOUS
<1> QED BY <1>1, ConcatProperties

\* What is left of the frames when the front one returns.
LEMMA PoppedFrame ==
    ASSUME releasing \in Seq(DraftIds), releasing # <<>>
    PROVE  /\ Len(releasing) \in Nat \ {0}
           /\ releasing[1] = Head(releasing)
           /\ Len(Tail(releasing)) = Len(releasing) - 1
           /\ \A j \in 1..Len(Tail(releasing)) : Tail(releasing)[j] = releasing[j+1]
BY HeadTailProperties

\* A log is accounted for by a frame whose draft wrote its atom.
LEMMA HeadedByFrame ==
    ASSUME NEW a \in Atoms, log'[a].intents # <<>>,
           NEW k \in 1..Len(releasing'), NEW d, releasing'[k] = d, a \in WrittenBy(d)'
    PROVE  Headed(a)'
BY DEF Headed, WrittenBy

\* A log is accounted for by an open draft with its first intent.
LEMMA HeadedByDraft ==
    ASSUME NEW a \in Atoms, log'[a].intents # <<>>,
           NEW d \in DraftIds, log'[a].intents[1].draft = d, draftState'[d] = "open"
    PROVE  Headed(a)'
BY DEF Headed, IsOpen

\* A log is accounted for by an end that left it behind.
LEMMA HeadedByLeak ==
    ASSUME NEW a \in Atoms, log'[a].intents # <<>>, a \in leaked'
    PROVE  Headed(a)'
BY DEF Headed

\* A step that leaves a log alone ends at most one draft, and that one is then
\* in front of the frames or leaks; a draft that was open and wrote stays
\* accounted for.
LEMMA HeadUntouched ==
    ASSUME HistoryInv, NEW a \in Atoms, log[a] # NoLog, Headed(a), log'[a] = log[a],
           [Next]_vars, ~releaseDraft
    PROVE  Headed(a)'
<1> DEFINE h == log[a].intents[1].draft
<1> USE DEF HistoryInv
<1>0. log'[a].intents # <<>> /\ 1 \in 1..Len(log[a].intents)
    <2>1. log[a].intents \in Seq(Intents) /\ log[a].intents # <<>>
        BY DEF TypeOK, Logs, Headed
    <2> QED BY <2>1
<1>1. releasing \in Seq(DraftIds)
    BY DEF TypeOK
<1>2. \A d \in DraftIds : a \in WrittenBy(d) => a \in WrittenBy(d)'
    BY WrittenGrows
<1>3. CASE IsOpen(h) /\ draftState'[h] = "open"
    <2>1. h \in DraftIds /\ log'[a].intents[1].draft = h
        BY <1>3 DEF IsOpen
    <2> QED BY <1>0, <1>3, <2>1, HeadedByDraft
<1>8. ASSUME NEW e \in DraftIds, h = e
      PROVE  a \in WrittenBy(e)
    <2>1. h # Urgent
        BY <1>8, BoundsAssumption DEF DraftIds, Urgent
    <2> QED BY <1>0, <1>8, <2>1 DEF Linked
<1>9. ASSUME NEW e \in DraftIds, retireDraft(e) \/ discardDraft(e) \/ abortDiscard(e), h # e, IsOpen(h)
      PROVE  draftState'[h] = "open"
    BY <1>9 DEF retireDraft, discardDraft, abortDiscard, TypeOK, IsOpen
<1>4. ASSUME NEW e \in DraftIds, retireDraft(e) \/ discardDraft(e) \/ abortDiscard(e),
             releasing' = <<e>> \o releasing, leaked' = leaked
      PROVE  Headed(a)'
    <2>2. /\ Len(releasing') = Len(releasing) + 1
          /\ releasing'[1] = e
          /\ \A j \in 1..Len(releasing) : releasing'[j+1] = releasing[j]
        BY <1>1, <1>4, PushedFrame
    <2>3. Len(releasing) \in Nat
        BY <1>1
    <2>4. CASE \E j \in 1..Len(releasing) : a \in WrittenBy(releasing[j])
        <3>1. PICK j \in 1..Len(releasing) : a \in WrittenBy(releasing[j])
            BY <2>4
        <3>2. PICK d \in DraftIds : d = releasing[j]
            BY <1>1
        <3>3. j+1 \in 1..Len(releasing') /\ releasing'[j+1] = d
            BY <2>2, <2>3, <3>2
        <3>4. a \in WrittenBy(d)
            BY <3>1, <3>2
        <3>5. a \in WrittenBy(d)'
            BY <1>2, <3>4
        <3> QED BY <1>0, <3>3, <3>5, HeadedByFrame
    <2>5. CASE h = e
        <3>1. a \in WrittenBy(e)
            BY <1>8, <2>5
        <3>3. a \in WrittenBy(e)'
            BY <1>2, <3>1
        <3>4. 1 \in 1..Len(releasing')
            BY <2>2, <2>3
        <3> QED BY <1>0, <2>2, <3>3, <3>4, HeadedByFrame
    <2>6. CASE IsOpen(h) /\ h # e
        BY <1>3, <1>4, <1>9, <2>6
    <2>7. CASE a \in leaked
        BY <1>0, <1>4, <2>7, HeadedByLeak
    <2> QED BY <2>4, <2>5, <2>6, <2>7 DEF Headed
<1>5. ASSUME releasing' = releasing, leaked \subseteq leaked',
             IsOpen(h) => draftState'[h] = "open" \/ a \in leaked'
      PROVE  Headed(a)'
    <2>1. CASE IsOpen(h)
        BY <1>0, <1>3, <1>5, <2>1, HeadedByLeak
    <2>2. CASE \E j \in 1..Len(releasing) : a \in WrittenBy(releasing[j])
        <3>1. PICK j \in 1..Len(releasing) : a \in WrittenBy(releasing[j])
            BY <2>2
        <3>2. PICK d \in DraftIds : d = releasing[j]
            BY <1>1
        <3>3. j \in 1..Len(releasing') /\ releasing'[j] = d
            BY <1>5, <3>2
        <3>4. a \in WrittenBy(d)'
            BY <1>2, <3>1, <3>2
        <3> QED BY <1>0, <3>3, <3>4, HeadedByFrame
    <2>3. CASE a \in leaked
        BY <1>0, <1>5, <2>3, HeadedByLeak
    <2> QED BY <2>1, <2>2, <2>3 DEF Headed
<1>6. ASSUME NEW e \in DraftIds, openDraft(e)
      PROVE  Headed(a)'
    <2>1. /\ releasing' = releasing /\ leaked' = leaked
          /\ IsOpen(h) => draftState'[h] = "open"
        BY <1>6 DEF openDraft, IsOpen, TypeOK
    <2> QED BY <1>5, <2>1
<1>7. ASSUME \/ \E e \in DraftIds, b \in Atoms, op \in Ops : draftIntent(e, b, op)
             \/ \E b \in Atoms, op \in Ops : urgentIntent(b, op)
             \/ UNCHANGED vars
      PROVE  Headed(a)'
    <2>1. releasing' = releasing /\ draftState' = draftState /\ leaked' = leaked
        BY <1>7 DEF draftIntent, urgentIntent, vars
    <2> QED BY <1>5, <2>1 DEF IsOpen
<1>10. ASSUME NEW e \in DraftIds, retireDraft(e) \/ discardDraft(e) \/ abortDiscard(e),
              releasing' = releasing, leaked' = leaked \cup WrittenBy(e)
       PROVE  Headed(a)'
    <2>1. IsOpen(h) => draftState'[h] = "open" \/ a \in leaked'
        BY <1>8, <1>9, <1>10
    <2> QED BY <1>5, <1>10, <2>1
<1>11. CASE abortRelease
    <2>1. /\ releasing # <<>> /\ releasing' = Tail(releasing)
          /\ leaked' = leaked \cup WrittenBy(Head(releasing)) /\ draftState' = draftState
        BY <1>11 DEF abortRelease
    <2>2. /\ Len(releasing) \in Nat \ {0} /\ releasing[1] = Head(releasing)
          /\ Len(releasing') = Len(releasing) - 1
          /\ \A j \in 1..Len(releasing') : releasing'[j] = releasing[j+1]
        BY <1>1, <2>1, PoppedFrame
    <2>3. CASE a \in leaked'
        BY <1>0, <2>3, HeadedByLeak
    <2>4. CASE IsOpen(h)
        BY <1>3, <2>1, <2>4 DEF IsOpen
    <2>5. CASE a \notin leaked' /\ \E j \in 1..Len(releasing) : a \in WrittenBy(releasing[j])
        <3>1. PICK j \in 1..Len(releasing) : a \in WrittenBy(releasing[j])
            BY <2>5
        <3>2. PICK d \in DraftIds : d = releasing[j]
            BY <1>1
        <3>3. j # 1
            BY <2>1, <2>2, <2>5, <3>1
        <3>4. j-1 \in 1..Len(releasing') /\ releasing'[j-1] = d
            BY <2>2, <3>2, <3>3
        <3>5. a \in WrittenBy(d)'
            BY <1>2, <3>1, <3>2
        <3> QED BY <1>0, <3>4, <3>5, HeadedByFrame
    <2>6. a \in leaked => a \in leaked'
        BY <2>1
    <2> QED BY <2>3, <2>4, <2>5, <2>6 DEF Headed
<1>12. ASSUME NEW e \in DraftIds, retireDraft(e) \/ discardDraft(e) \/ abortDiscard(e)
       PROVE  Headed(a)'
    BY <1>4, <1>10, <1>12, EndLeaves
<1> QED BY <1>6, <1>7, <1>11, <1>12, StepKinds

\* A release compacts the logs the draft wrote and pops its frame: a log it
\* did not touch was headed by an open draft or by a frame further back.
LEMMA HeadReleased ==
    ASSUME HistoryInv, NEW a \in Atoms, log'[a] # NoLog,
           log[a] # NoLog => Headed(a), releaseDraft
    PROVE  Headed(a)'
<1> DEFINE e == Head(releasing)
<1> USE DEF HistoryInv
<1>1. /\ releasing \in Seq(DraftIds) /\ releasing # <<>>
      /\ releasing' = Tail(releasing)
    BY DEF TypeOK, releaseDraft
<1>2. /\ Len(releasing) \in Nat \ {0}
      /\ releasing[1] = e
      /\ Len(releasing') = Len(releasing) - 1
      /\ \A j \in 1..Len(releasing') : releasing'[j] = releasing[j+1]
    BY <1>1, PoppedFrame
<1>3. CASE log[a] \in Logs /\ log'[a] = Compacted(log[a])
    <2>1. log[a] \in Logs /\ log'[a] = Compacted(log[a])
        BY <1>3
    <2> DEFINE l == log[a]
               p == DeadPrefix(l)
    <2>2. /\ p \in 0..(Len(l.intents)-1) /\ Len(l.intents) \in Nat
          /\ Len(log'[a].intents) = Len(l.intents) - p
          /\ \A i \in 1..(Len(l.intents) - p) : log'[a].intents[i] = l.intents[p+i]
        BY <2>1, CompactedIntents DEF Logs
    <2>3. IsOpen(l.intents[p+1].draft)
        <3> HIDE DEF l
        <3>1. p < Len(l.intents)
            BY <2>2
        <3> QED BY <2>1, <3>1, DeadPrefixExists DEF l
    <2>4. log'[a].intents[1].draft = l.intents[p+1].draft /\ log'[a].intents # <<>>
        <3> HIDE DEF l, p
        <3>1. 1 \in 1..(Len(l.intents) - p) /\ Len(log'[a].intents) # 0
            BY <2>2
        <3> QED BY <2>2, <3>1
    <2>5. l.intents[p+1].draft \in DraftIds /\ draftState'[l.intents[p+1].draft] = "open"
        BY <2>3 DEF IsOpen, releaseDraft
    <2> HIDE DEF l, p
    <2>6. PICK d \in DraftIds : d = log'[a].intents[1].draft /\ draftState'[d] = "open"
        BY <2>4, <2>5
    <2> QED BY <2>4, <2>6, HeadedByDraft
<1>4. CASE log'[a] = log[a] /\ a \notin WrittenBy(e) /\ (a \in leaked => a \in leaked')
    <2>1. log'[a] = log[a]
        BY <1>4
    <2>2. log[a].intents # <<>> /\ a \notin WrittenBy(e)
        BY <1>4, <2>1 DEF Headed
    <2>3. CASE IsOpen(log[a].intents[1].draft)
        BY <2>1, <2>2, <2>3, HeadedByDraft DEF IsOpen, releaseDraft
    <2>4. CASE a \in leaked
        BY <1>4, <2>1, <2>2, <2>4, HeadedByLeak
    <2>5. CASE ~IsOpen(log[a].intents[1].draft) /\ a \notin leaked
        <3>1. PICK j \in 1..Len(releasing) : a \in WrittenBy(releasing[j])
            BY <2>1, <2>5 DEF Headed
        <3>2. PICK d \in DraftIds : d = releasing[j]
            BY <1>1
        <3>3. j # 1
            BY <1>2, <2>2, <3>1
        <3>4. j-1 \in 1..Len(releasing') /\ releasing'[j-1] = d
            BY <1>2, <3>2, <3>3
        <3>5. a \in WrittenBy(d)'
            BY <3>1, <3>2 DEF releaseDraft, WrittenBy
        <3> QED BY <2>1, <2>2, <3>4, <3>5, HeadedByFrame
    <2> QED BY <2>3, <2>4, <2>5
<1>5. CASE log'[a] = log[a] /\ a \in leaked'
    <2>1. log'[a].intents # <<>>
        BY <1>5 DEF Headed
    <2> QED BY <1>5, <2>1, HeadedByLeak
<1> QED BY <1>3, <1>4, <1>5, ReleaseCompacts

\* A log that a write creates or extends is headed by its first intent.
LEMMA HeadWritten ==
    ASSUME HistoryInv, [Next]_vars, NEW a \in Atoms, log[a] # NoLog => Headed(a), log'[a] # log[a],
           \/ \E e \in DraftIds, b \in Atoms, op \in Ops : draftIntent(e, b, op)
           \/ \E b \in Atoms, op \in Ops : urgentIntent(b, op)
    PROVE  Headed(a)'
<1> USE DEF HistoryInv
<1>1. draftState' = draftState /\ releasing' = releasing /\ leaked' = leaked
    BY DEF draftIntent, urgentIntent
<1>2. ASSUME NEW in \in Intents, log[a] \in Logs, log'[a] = Extended(log[a], in)
      PROVE  Headed(a)'
    <2>1. /\ log'[a].intents # <<>>
          /\ log'[a].intents[1] = log[a].intents[1]
        <3>1. /\ Extended(log[a], in) \in Logs
              /\ Len(log[a].intents) \in Nat
              /\ Len(Extended(log[a], in).intents) = Len(log[a].intents) + 1
              /\ \A j \in 1..Len(log[a].intents) :
                    Extended(log[a], in).intents[j] = log[a].intents[j]
            BY <1>2, ExtendLog
        <3>2. 1 \in 1..Len(log[a].intents)
            <4>1. log[a].intents \in Seq(Intents) /\ log[a].intents # <<>>
                BY <1>2, NoLogAssumption DEF Logs, Headed
            <4> QED BY <4>1
        <3>3. log'[a].intents[1] = log[a].intents[1]
            BY <1>2, <3>1, <3>2
        <3>4. Len(log'[a].intents) # 0
            BY <1>2, <3>1
        <3> QED BY <3>3, <3>4
    <2>2. Headed(a)
        BY <1>2, NoLogAssumption
    <2>3. CASE IsOpen(log[a].intents[1].draft)
        BY <1>1, <2>1, <2>3, HeadedByDraft DEF IsOpen
    <2>5. CASE a \in leaked
        BY <1>1, <2>1, <2>5, HeadedByLeak
    <2>4. CASE ~IsOpen(log[a].intents[1].draft) /\ a \notin leaked
        <3>1. PICK j \in 1..Len(releasing) : a \in WrittenBy(releasing[j])
            BY <2>2, <2>4 DEF Headed
        <3>2. PICK d \in DraftIds : d = releasing[j]
            BY DEF TypeOK
        <3>3. a \in WrittenBy(d)'
            BY <3>1, <3>2, WrittenGrows
        <3> QED BY <1>1, <2>1, <3>2, <3>3, HeadedByFrame
    <2> QED BY <2>3, <2>4, <2>5
<1>3. ASSUME NEW e \in DraftIds, NEW b \in Atoms, NEW op \in Ops,
             draftIntent(e, b, op)
      PROVE  Headed(a)'
    <2> DEFINE in == [op |-> op, draft |-> e]
    <2>1. a = b
        BY <1>3, AppendDraftEffect
    <2>2. openLog(a) \in Logs /\ in \in Intents /\ log'[a] = Extended(openLog(a), in)
        BY <1>3, <2>1, AppendDraftEffect
    <2>3. in.draft = e /\ draftState'[e] = "open"
        BY <1>1, <1>3 DEF draftIntent
    <2> HIDE DEF in
    <2>4. CASE log[a] # NoLog
        <3>1. log[a] \in Logs /\ openLog(a) = log[a]
            BY <2>4 DEF openLog, TypeOK
        <3> QED BY <1>2, <2>2, <3>1
    <2>5. CASE log[a] = NoLog
        <3>1. Len(openLog(a).intents) = 0
            BY <2>5 DEF openLog, NewLog
        <3> DEFINE l == openLog(a)
        <3>2. /\ Len(Extended(l, in).intents) = Len(l.intents) + 1
              /\ Extended(l, in).intents[Len(l.intents)+1] = in
            BY <2>2, ExtendLog
        <3>3. Len(log'[a].intents) = 1 /\ log'[a].intents[1] = in
            BY <2>2, <3>1, <3>2
        <3>4. log'[a].intents # <<>>
            BY <3>3
        <3> QED BY <2>3, <3>3, <3>4, HeadedByDraft
    <2> QED BY <2>4, <2>5
<1>4. ASSUME NEW b \in Atoms, NEW op \in Ops, urgentIntent(b, op)
      PROVE  Headed(a)'
    <2>1. a = b /\ log[a] # NoLog
        BY <1>4 DEF urgentIntent, movesBase, TypeOK
    <2>2. /\ log[a] \in Logs
          /\ [op |-> op, draft |-> Urgent] \in Intents
          /\ log'[a] = Extended(log[a], [op |-> op, draft |-> Urgent])
        BY <1>4, <2>1, UrgentWriteEffect DEF TypeOK
    <2> QED BY <1>2, <2>2
<1> QED BY <1>3, <1>4

\* Every step keeps each log accounted for.
LEMMA HeadsOpenStep == HistoryInv /\ HeadsOpen /\ [Next]_vars => HeadsOpen'
<1> SUFFICES ASSUME HistoryInv, HeadsOpen, [Next]_vars, NEW a \in Atoms, log'[a] # NoLog
             PROVE  Headed(a)'
    BY DEF HeadsOpen
<1>1. log[a] # NoLog => Headed(a)
    BY DEF HeadsOpen
<1>3. CASE releaseDraft
    BY <1>1, <1>3, HeadReleased
<1>4. CASE log'[a] = log[a] /\ ~releaseDraft
    BY <1>1, <1>4, HeadUntouched
<1>5. CASE log'[a] # log[a] /\ ~releaseDraft
    <2>1. \/ \E e \in DraftIds, b \in Atoms, op \in Ops : draftIntent(e, b, op)
          \/ \E b \in Atoms, op \in Ops : urgentIntent(b, op)
        <3>1. ASSUME \/ \E e \in DraftIds : openDraft(e) \/ retireDraft(e) \/ discardDraft(e) \/ abortDiscard(e)
                     \/ abortRelease \/ UNCHANGED vars
              PROVE  FALSE
            BY <1>5, <3>1 DEF openDraft, retireDraft, discardDraft, abortDiscard, abortRelease, vars
        <3> QED BY <1>5, <3>1, StepKinds
    <2> QED BY <1>1, <1>5, <2>1, HeadWritten
<1> QED BY <1>3, <1>4, <1>5

\* History stays bounded, whatever updaters and effects throw: whenever no
\* flush of an ended draft is running, every log starts at an intent of an
\* open draft, unless the end of a draft that wrote it threw and no release
\* has come to it since.
THEOREM HistoryBounded == Spec => []LogsStartOpen
<1>1. Init => HeadsOpen
    BY DEF Init, HeadsOpen
<1>2. HistoryInv /\ HeadsOpen /\ [Next]_vars => HeadsOpen'
    BY HeadsOpenStep
<1>3. HeadsOpen => LogsStartOpen
    BY DEF HeadsOpen, Headed, LogsStartOpen
<1> QED BY HistoryInvariant, <1>1, <1>2, <1>3, PTL DEF Spec

-----------------------------------------------------------------------------
(***************************************************************************)
(* Replays of one log, of an extended one and of a compacted one           *)
(***************************************************************************)
\* Which intents apply is all that matters of D.
LEMMA ReplayAgree ==
    ASSUME NEW l \in Logs, NEW D, NEW E, NEW n \in 0..Len(l.intents),
           \A i \in 1..n : l.intents[i].draft \in D <=> l.intents[i].draft \in E
    PROVE  replayUpTo(l, n, D) = replayUpTo(l, n, E)
<1> DEFINE P == {i \in 0..n : replayUpTo(l, i, D) = replayUpTo(l, i, E)}
<1>1. n \in Nat /\ Len(l.intents) \in Nat
    BY DEF Logs
<1>2. 0 \in P
    BY <1>1, ReplayEquations
<1>3. ASSUME NEW i \in 1..n, i-1 \in P PROVE i \in P
    <2>1. i \in 1..Len(l.intents)
        BY <1>1
    <2>2. replayUpTo(l, i, D) =
                IF l.intents[i].draft \in D
                THEN applyIntent(l.intents[i].op, replayUpTo(l, i-1, D))
                ELSE replayUpTo(l, i-1, D)
        BY <2>1, ReplayEquations
    <2>3. replayUpTo(l, i, E) =
                IF l.intents[i].draft \in E
                THEN applyIntent(l.intents[i].op, replayUpTo(l, i-1, E))
                ELSE replayUpTo(l, i-1, E)
        BY <2>1, ReplayEquations
    <2>4. replayUpTo(l, i-1, D) = replayUpTo(l, i-1, E)
        BY <1>3
    <2>5. replayUpTo(l, i, D) = replayUpTo(l, i, E)
        BY <2>2, <2>3, <2>4
    <2> QED BY <1>1, <2>5
<1> HIDE DEF P
<1>4. 0..n \subseteq P
    BY <1>1, <1>2, <1>3, InductionTo
<1> QED BY <1>1, <1>4 DEF P

\* A log m that starts at the value l has after p intents and goes on with the
\* intents of l replays as l does.
LEMMA ReplayShifted ==
    ASSUME NEW l \in Logs, NEW m \in Logs, NEW D, NEW p \in Nat, NEW n \in Nat,
           p + n <= Len(l.intents), n <= Len(m.intents),
           \A i \in 1..n : m.intents[i] = l.intents[p+i],
           m.before = replayUpTo(l, p, D)
    PROVE  replayUpTo(m, n, D) = replayUpTo(l, p+n, D)
<1> DEFINE P == {i \in 0..n : replayUpTo(m, i, D) = replayUpTo(l, p+i, D)}
<1>1. Len(l.intents) \in Nat /\ Len(m.intents) \in Nat
    BY DEF Logs
<1>2. 0 \in P
    BY ReplayEquations
<1>3. ASSUME NEW i \in 1..n, i-1 \in P PROVE i \in P
    <2>1. i \in 1..Len(m.intents) /\ p+i \in 1..Len(l.intents) /\ (p+i)-1 = p+(i-1)
        BY <1>1
    <2>2. replayUpTo(m, i, D) =
                IF m.intents[i].draft \in D
                THEN applyIntent(m.intents[i].op, replayUpTo(m, i-1, D))
                ELSE replayUpTo(m, i-1, D)
        BY <2>1, ReplayEquations
    <2>3. replayUpTo(l, p+i, D) =
                IF l.intents[p+i].draft \in D
                THEN applyIntent(l.intents[p+i].op, replayUpTo(l, (p+i)-1, D))
                ELSE replayUpTo(l, (p+i)-1, D)
        BY <2>1, ReplayEquations
    <2>4. replayUpTo(m, i-1, D) = replayUpTo(l, (p+i)-1, D) /\ m.intents[i] = l.intents[p+i]
        BY <1>3, <2>1
    <2>5. replayUpTo(m, i, D) = replayUpTo(l, p+i, D)
        BY <2>2, <2>3, <2>4
    <2> QED BY <2>5
<1> HIDE DEF P
<1>4. 0..n \subseteq P
    BY <1>2, <1>3, InductionTo
<1> QED BY <1>4 DEF P

\* One more intent.
LEMMA ReplayExtended ==
    ASSUME NEW l \in Logs, NEW in \in Intents, NEW D
    PROVE  replay(Extended(l, in), D) =
              IF in.draft \in D THEN applyIntent(in.op, replay(l, D)) ELSE replay(l, D)
<1> DEFINE m == Extended(l, in)
           n == Len(l.intents)
<1>1. /\ m \in Logs /\ m.before = l.before /\ n \in Nat /\ Len(m.intents) = n+1
      /\ \A j \in 1..n : m.intents[j] = l.intents[j]
      /\ m.intents[n+1] = in
    BY ExtendLog
<1> HIDE DEF m
<1>2. replayUpTo(m, n, D) = replayUpTo(l, n, D)
    <2>1. m.before = replayUpTo(l, 0, D)
        BY <1>1, ReplayEquations
    <2>2. 0+n <= Len(l.intents) /\ n <= Len(m.intents) /\ 0+n = n /\ 0 \in Nat
        BY <1>1
    <2>3. \A i \in 1..n : m.intents[i] = l.intents[0+i]
        BY <1>1
    <2> HIDE DEF n
    <2>4. replayUpTo(m, n, D) = replayUpTo(l, 0+n, D)
        BY <1>1, <2>1, <2>2, <2>3, ReplayShifted DEF n
    <2> QED BY <2>2, <2>4
<1>3. n+1 \in 1..Len(m.intents) /\ (n+1)-1 = n
    BY <1>1
<1>4. replayUpTo(m, n+1, D) =
                IF m.intents[n+1].draft \in D
                THEN applyIntent(m.intents[n+1].op, replayUpTo(m, (n+1)-1, D))
                ELSE replayUpTo(m, (n+1)-1, D)
    BY <1>1, <1>3, ReplayEquations
<1>5. replay(m, D) = IF in.draft \in D THEN applyIntent(in.op, replay(l, D)) ELSE replay(l, D)
    BY <1>1, <1>2, <1>3, <1>4 DEF replay
<1> QED BY <1>5 DEF m

\* Compaction folds a prefix: nothing changes for a D in which the dead
\* intents apply as they do in the base world.
LEMMA ReplayCompacted ==
    ASSUME NEW l \in Logs, Compacted(l) # NoLog,
           replayUpTo(l, DeadPrefix(l), Applied({})) # Thrown, NEW D,
           \A i \in 1..DeadPrefix(l) :
               l.intents[i].draft \in D <=> l.intents[i].draft \in Applied({})
    PROVE  Compacted(l) \in Logs /\ replay(Compacted(l), D) = replay(l, D)
<1> DEFINE p == DeadPrefix(l)
           c == Compacted(l)
           n == Len(c.intents)
           N == Len(l.intents)
<1>1. /\ p \in 0..(N-1) /\ n = N - p
      /\ \A i \in 1..n : c.intents[i] = l.intents[p+i]
      /\ c.before = replayUpTo(l, p, Applied({}))
    BY CompactedIntents
<1>2. N \in Nat
    BY DEF Logs
<1>3. c \in Logs
    BY CompactedType
<1> HIDE DEF p, c, n, N
<1>4. replayUpTo(l, p, D) = replayUpTo(l, p, Applied({}))
    <2>1. p \in 0..Len(l.intents)
        BY <1>1, <1>2 DEF N
    <2>2. \A i \in 1..p : l.intents[i].draft \in D <=> l.intents[i].draft \in Applied({})
        BY DEF p
    <2> QED BY <2>1, <2>2, ReplayAgree
<1>5. p \in Nat /\ n \in Nat /\ p + n = N /\ p + n <= Len(l.intents) /\ n <= Len(c.intents)
    BY <1>1, <1>2 DEF N, n
<1>6. replayUpTo(c, n, D) = replayUpTo(l, p+n, D)
    BY <1>1, <1>3, <1>4, <1>5, ReplayShifted
<1> QED BY <1>3, <1>5, <1>6 DEF replay, c, n, N
-----------------------------------------------------------------------------
(***************************************************************************)
(* What an intent does to the class of a value                             *)
(***************************************************************************)
\* An intent maps equal values to equal ones, also when its cutoff keeps the
\* value it is applied to.
LEMMA ApplyRespects ==
    ASSUME UpdatersReturn, UpdatersRespectEquals,
           NEW op \in Ops, NEW u \in Values, NEW v \in Values, Same(u, v)
    PROVE  /\ op[u] \in Values /\ op[v] \in Values
           /\ applyIntent(op, u) \in Values /\ applyIntent(op, v) \in Values
           /\ Same(applyIntent(op, u), op[v])
<1>1. op[u] \in Values /\ op[v] \in Values /\ Class[op[u]] = Class[op[v]]
    BY OpsAssumption DEF UpdatersReturn, UpdatersRespectEquals, Ops, SetTo, Same
<1> QED BY <1>1, OpsAssumption DEF applyIntent, Same

\* The class of a value represents it.
LEMMA ClassRepresents ==
    ASSUME NEW v \in Values
    PROVE  Class[v] \in Values /\ Same(v, Class[v])
BY ClassAssumption DEF Same
-----------------------------------------------------------------------------
(***************************************************************************)
(* What the holder of the ids W reads                                      *)
(***************************************************************************)
\* The replay of an atom for the holder of W; an atom without a log is one
\* with an empty log.
Rp(a, W) == replay(openLog(a), Applied(worldOf(W)))

\* An empty log replays to the value it starts from.
LEMMA EmptyReplay ==
    ASSUME NEW v \in Values
    PROVE  /\ [before |-> v, intents |-> <<>>] \in Logs
           /\ \A D : replay([before |-> v, intents |-> <<>>], D) = v
<1> DEFINE m == [before |-> v, intents |-> <<>>]
<1>1. m \in Logs /\ m.before = v /\ Len(m.intents) = 0
    <2>1. <<>> \in Seq(Intents)
        OBVIOUS
    <2> QED BY <2>1 DEF Logs
<1> HIDE DEF m
<1>2. \A D : replay(m, D) = v
    BY <1>1, ReplayEquations DEF replay
<1> QED BY <1>1, <1>2 DEF m

\* The empty log an atom without one stands for replays to its base value.
LEMMA NoLogReplay ==
    ASSUME TypeOK, NEW a \in Atoms
    PROVE  /\ openLog(a) \in Logs
           /\ \A D : log[a] = NoLog => replay(openLog(a), D) = base[a]
<1>1. base[a] \in Values
    BY DEF TypeOK
<1> QED BY <1>1, EmptyReplay DEF TypeOK, openLog, NewLog

\* It is a value.
LEMMA RpValue ==
    ASSUME TypeOK, UpdatersReturn, NEW a \in Atoms, NEW W
    PROVE  Rp(a, W) \in Values
<1>1. openLog(a) \in Logs
    BY NoLogReplay
<1> DEFINE l == openLog(a)
<1>2. Len(l.intents) \in 0..Len(l.intents)
    BY <1>1 DEF Logs
<1>3. replayUpTo(l, Len(l.intents), Applied(worldOf(W))) \in Values
    BY <1>1, <1>2, ReplayTotal
<1> QED BY <1>3 DEF Rp, replay

\* It is what the code computes.
LEMMA RpIsReplay ==
    ASSUME TypeOK, NEW a \in Atoms, NEW W
    PROVE  replayLog(a, worldOf(W)) = Rp(a, W)
<1>1. CASE log[a] = NoLog
    BY <1>1, NoLogReplay DEF Rp, replayLog
<1>2. CASE log[a] # NoLog
    BY <1>2 DEF Rp, replayLog, openLog
<1> QED BY <1>1, <1>2

\* The engine's state with base and logs in step.
StoreInv == HistoryInv /\ BaseIsReplay

\* Base and logs are in step when base is the replay of nobody's drafts, ...
RpBase == \A a \in Atoms : Same(base[a], Rp(a, {}))
\* They say the same of a well-typed state, ...
LEMMA BaseByRp == TypeOK => (BaseIsReplay <=> RpBase)
<1> SUFFICES ASSUME TypeOK PROVE BaseIsReplay <=> RpBase
    OBVIOUS
<1>1. worldOf({}) = {}
    BY DEF worldOf
<1>2. \A a \in Atoms : replayLog(a, {}) = Rp(a, {})
    BY <1>1, RpIsReplay
<1> QED BY <1>2 DEF BaseIsReplay, RpBase

\* ... also after a step.
LEMMA BaseByRpNext == TypeOK' => (BaseIsReplay' <=> RpBase')
BY BaseByRp, PTL

\* Then every reader resolves to its replay, up to equality.
LEMMA ResolveIsRp ==
    ASSUME StoreInv, NEW a \in Atoms, NEW W
    PROVE  Class[Resolve(a, W)] = Class[Rp(a, W)]
<1>1. TypeOK /\ Same(base[a], Rp(a, {}))
    BY BaseByRp DEF StoreInv, HistoryInv, RpBase
<1>2. CASE worldOf(W) = {}
    <2>1. Rp(a, W) = Rp(a, {})
        BY <1>2 DEF Rp, worldOf
    <2> QED BY <1>1, <1>2, <2>1 DEF Resolve, Same
<1>3. CASE worldOf(W) # {}
    BY <1>1, <1>3, RpIsReplay DEF Resolve
<1> QED BY <1>2, <1>3
-----------------------------------------------------------------------------
(***************************************************************************)
(* What each step does to what its readers resolve                         *)
(***************************************************************************)
\* A step that leaves the log of a alone shows the holder of W what the holder
\* of V saw, if the same intents of the log apply.
LEMMA RpSameLog ==
    ASSUME TypeOK, NEW a \in Atoms, NEW V, NEW W, openLog(a)' = openLog(a),
           \A i \in 1..Len(openLog(a).intents) :
               openLog(a).intents[i].draft \in Applied(worldOf(V)) <=>
               openLog(a).intents[i].draft \in Applied(worldOf(W))'
    PROVE  Rp(a, W)' = Rp(a, V)
<1> DEFINE l == openLog(a)
           D == Applied(worldOf(V))
           E == Applied(worldOf(W))'
<1>1. l \in Logs
    BY NoLogReplay
<1>2. Rp(a, W)' = replay(l, E) /\ Rp(a, V) = replay(l, D)
    BY DEF Rp
<1>3. Len(l.intents) \in 0..Len(l.intents)
    BY <1>1 DEF Logs
<1> HIDE DEF l, D, E
<1>4. \A i \in 1..Len(l.intents) : l.intents[i].draft \in D <=> l.intents[i].draft \in E
    BY DEF l, D, E
<1> QED BY <1>1, <1>2, <1>3, <1>4, ReplayAgree DEF replay

\* The drafts of the intents of a log: the urgent one, or drafts that were
\* opened and have the atom in their written sets.
LEMMA IntentDrafts ==
    ASSUME HistoryInv, NEW a \in Atoms, NEW i \in 1..Len(openLog(a).intents)
    PROVE  LET e == openLog(a).intents[i].draft
           IN  /\ log[a] # NoLog
               /\ e \in {Urgent} \cup DraftIds
               /\ e # Urgent => a \in WrittenBy(e) /\ draftState[e] # "unopened"
<1>1. log[a] # NoLog
    <2>1. CASE log[a] = NoLog
        <3>1. openLog(a).intents = <<>>
            BY <2>1 DEF openLog, NewLog
        <3> QED BY <3>1
    <2> QED BY <2>1
<1>2. openLog(a) = log[a] /\ log[a] \in Logs
    BY <1>1 DEF openLog, HistoryInv, TypeOK
<1>3. log[a].intents[i] \in Intents
    BY <1>2 DEF Logs
<1>4. log[a].intents[i].draft \in {Urgent} \cup DraftIds
    BY <1>3 DEF Intents
<1> QED BY <1>1, <1>2, <1>4 DEF HistoryInv, Linked

\* Opening a draft shows nobody anything.
LEMMA OpenShows ==
    ASSUME HistoryInv, NEW d \in DraftIds, openDraft(d), NEW a \in Atoms, NEW W
    PROVE  Rp(a, W)' = Rp(a, W) /\ base'[a] = base[a]
<1>1. /\ draftState[d] = "unopened" /\ draftState' = [draftState EXCEPT ![d] = "open"]
      /\ UNCHANGED <<log, base>> /\ draftState \in [DraftIds -> States] /\ TypeOK
    BY DEF openDraft, HistoryInv, TypeOK
<1>2. openLog(a)' = openLog(a)
    BY <1>1 DEF openLog, NewLog
<1>3. ASSUME NEW i \in 1..Len(openLog(a).intents)
      PROVE  openLog(a).intents[i].draft \in Applied(worldOf(W)) <=>
             openLog(a).intents[i].draft \in Applied(worldOf(W))'
    <2> DEFINE e == openLog(a).intents[i].draft
    <2>1. e \in {Urgent} \cup DraftIds /\ (e # Urgent => draftState[e] # "unopened")
        BY IntentDrafts
    <2> HIDE DEF e
    <2>2. e = Urgent \/ (e \in DraftIds /\ draftState'[e] = draftState[e])
        BY <1>1, <2>1
    <2>3. e \in Applied(worldOf(W)) <=> e \in Applied(worldOf(W))'
        BY <2>2 DEF Applied, worldOf, OpenDrafts
    <2> QED BY <2>3 DEF e
<1> QED BY <1>1, <1>2, <1>3, RpSameLog

\* A drafted write shows its value to the holders of its draft.
LEMMA DraftWriteShows ==
    ASSUME HistoryInv, NEW d \in DraftIds, NEW b \in Atoms, NEW op \in Ops,
           draftIntent(d, b, op), NEW a \in Atoms, NEW W
    PROVE  /\ Rp(a, W)' = IF a = b /\ d \in W THEN applyIntent(op, Rp(a, W)) ELSE Rp(a, W)
           /\ base'[a] = base[a]
<1>1. /\ draftState[d] = "open" /\ UNCHANGED <<draftState, base>> /\ TypeOK
    BY DEF draftIntent, HistoryInv
<1>2. Applied(worldOf(W))' = Applied(worldOf(W))
    BY <1>1 DEF Applied, worldOf, OpenDrafts
<1>3. CASE a # b
    <2>1. log'[a] = log[a]
        BY <1>1, <1>3, AppendDraftEffect
    <2>2. openLog(a)' = openLog(a)
        BY <1>1, <2>1 DEF openLog, NewLog
    <2> QED BY <1>1, <1>2, <1>3, <2>2, RpSameLog
<1>4. CASE a = b
    <2> DEFINE in == [op |-> op, draft |-> d]
               l == openLog(b)
    <2>1. l \in Logs /\ in \in Intents /\ log'[b] = Extended(l, in)
        BY <1>1, AppendDraftEffect
    <2>2. in.draft = d /\ in.op = op
        OBVIOUS
    <2>3. d \in Applied(worldOf(W)) <=> d \in W
        BY <1>1, BoundsAssumption DEF Applied, worldOf, OpenDrafts, Urgent, DraftIds
    <2> HIDE DEF in
    <2>4. Extended(l, in) \in Logs
        BY <2>1, ExtendLog
    <2>5. openLog(b)' = Extended(l, in)
        BY <2>1, <2>4, NoLogAssumption DEF openLog
    <2>6. replay(Extended(l, in), Applied(worldOf(W))) =
              IF d \in W THEN applyIntent(op, replay(l, Applied(worldOf(W))))
              ELSE replay(l, Applied(worldOf(W)))
        BY <2>1, <2>2, <2>3, ReplayExtended
    <2>7. Rp(b, W)' = replay(Extended(l, in), Applied(worldOf(W)))
        BY <1>2, <2>5 DEF Rp
    <2>8. Rp(b, W) = replay(l, Applied(worldOf(W)))
        BY DEF Rp
    <2> QED BY <1>1, <1>4, <2>6, <2>7, <2>8
<1> QED BY <1>3, <1>4

\* An urgent write shows its value to everybody.
LEMMA UrgentWriteShows ==
    ASSUME HistoryInv, NEW b \in Atoms, NEW op \in Ops, urgentIntent(b, op),
           NEW a \in Atoms, NEW W
    PROVE  /\ Rp(a, W)' = IF a = b THEN applyIntent(op, Rp(a, W)) ELSE Rp(a, W)
           /\ base'[a] = IF a = b THEN applyIntent(op, base[a]) ELSE base[a]
<1>1. /\ op[base[b]] # Thrown /\ draftState' = draftState /\ TypeOK
      /\ base' = IF ~Same(base[b], op[base[b]]) THEN [base EXCEPT ![b] = op[base[b]]] ELSE base
    BY DEF urgentIntent, movesBase, HistoryInv
<1>2. Applied(worldOf(W))' = Applied(worldOf(W))
    BY <1>1 DEF Applied, worldOf, OpenDrafts
<1>3. base[b] \in Values /\ base[b] # Thrown /\ base \in [Atoms -> Values]
    BY <1>1, OpsAssumption DEF TypeOK
<1>4. base'[a] = IF a = b THEN applyIntent(op, base[a]) ELSE base[a]
    BY <1>1, <1>3 DEF applyIntent
<1>5. CASE a # b
    <2>1. log'[a] = log[a]
        BY <1>1, <1>5 DEF urgentIntent, movesBase, TypeOK
    <2>2. openLog(a)' = openLog(a)
        BY <1>4, <1>5, <2>1 DEF openLog, NewLog
    <2> QED BY <1>1, <1>2, <1>4, <1>5, <2>2, RpSameLog
<1>6. CASE a = b /\ log[b] = NoLog
    <2>1. log'[b] = NoLog
        BY <1>6 DEF urgentIntent
    <2>2. openLog(b)' = [before |-> base'[b], intents |-> <<>>] /\ base'[b] \in Values
        <3>1. base'[b] \in Values
            BY <1>1, <1>3, OpsType DEF Results
        <3> QED BY <2>1, <3>1 DEF openLog, NewLog
    <2> DEFINE v == base'[b]
               E == Applied(worldOf(W))
    <2>4. replay([before |-> v, intents |-> <<>>], E) = v
        <3> HIDE DEF v, E
        <3>1. v \in Values
            BY <2>2 DEF v
        <3> QED BY <3>1, EmptyReplay
    <2>5. Rp(b, W)' = replay([before |-> v, intents |-> <<>>], E)
        BY <1>2, <2>2 DEF Rp
    <2>6. Rp(b, W) = base[b]
        BY <1>1, <1>6, NoLogReplay DEF Rp
    <2> QED BY <1>4, <1>6, <2>4, <2>5, <2>6
<1>7. CASE a = b /\ log[b] # NoLog
    <2> DEFINE in == [op |-> op, draft |-> Urgent]
               l == openLog(b)
    <2>1. l = log[b] /\ l \in Logs /\ in \in Intents /\ log'[b] = Extended(l, in)
        BY <1>1, <1>7, UrgentWriteEffect DEF openLog, TypeOK
    <2>2. in.draft = Urgent /\ in.op = op
        OBVIOUS
    <2>3. Urgent \in Applied(worldOf(W))
        BY DEF Applied
    <2> HIDE DEF in
    <2>4. Extended(l, in) \in Logs
        BY <2>1, ExtendLog
    <2>5. openLog(b)' = Extended(l, in)
        BY <2>1, <2>4, NoLogAssumption DEF openLog
    <2>6. replay(Extended(l, in), Applied(worldOf(W))) =
              applyIntent(op, replay(l, Applied(worldOf(W))))
        BY <2>1, <2>2, <2>3, ReplayExtended
    <2>7. Rp(b, W)' = replay(Extended(l, in), Applied(worldOf(W)))
        BY <1>2, <2>5 DEF Rp
    <2>8. Rp(b, W) = replay(l, Applied(worldOf(W)))
        BY DEF Rp
    <2> QED BY <1>4, <1>7, <2>6, <2>7, <2>8
<1> QED BY <1>5, <1>6, <1>7

\* A draft none of whose intents is in a log makes no difference to it.
LEMMA Strangers ==
    ASSUME HistoryInv, NEW a \in Atoms, NEW d \in DraftIds, a \notin WrittenBy(d), NEW W
    PROVE  Rp(a, W \cup {d}) = Rp(a, W) /\ Rp(a, W \ {d}) = Rp(a, W)
<1> DEFINE l == openLog(a)
           D == Applied(worldOf(W))
           E == Applied(worldOf(W \cup {d}))
           F == Applied(worldOf(W \ {d}))
<1>1. l \in Logs
    BY NoLogReplay DEF HistoryInv
<1>2. ASSUME NEW i \in 1..Len(l.intents)
      PROVE  /\ l.intents[i].draft \in E <=> l.intents[i].draft \in D
             /\ l.intents[i].draft \in F <=> l.intents[i].draft \in D
    <2>1. l.intents[i].draft # d
        <3>1. d # Urgent
            BY BoundsAssumption DEF DraftIds, Urgent
        <3> QED BY <3>1, IntentDrafts
    <2> DEFINE e == l.intents[i].draft
    <2> HIDE DEF e
    <2>2. e # d
        BY <2>1 DEF e
    <2>3. (e \in E <=> e \in D) /\ (e \in F <=> e \in D)
        BY <2>2 DEF Applied, worldOf
    <2> QED BY <2>3 DEF e
<1>3. Len(l.intents) \in 0..Len(l.intents)
    BY <1>1 DEF Logs
<1>4. Rp(a, W) = replay(l, D) /\ Rp(a, W \cup {d}) = replay(l, E) /\ Rp(a, W \ {d}) = replay(l, F)
    BY DEF Rp
<1> HIDE DEF l, D, E, F
<1>5. replay(l, E) = replay(l, D) /\ replay(l, F) = replay(l, D)
    BY <1>1, <1>2, <1>3, ReplayAgree DEF replay
<1> QED BY <1>4, <1>5

\* A retirement shows every reader what the draft's own readers saw, and
\* writes that into the base values.
LEMMA RetireShows ==
    ASSUME HistoryInv, UpdatersReturn, NEW d \in DraftIds, retireDraft(d),
           NEW a \in Atoms, NEW W
    PROVE  /\ Rp(a, W)' = Rp(a, W \cup {d})
           /\ a \in WrittenBy(d) => Same(base'[a], Rp(a, {d})) /\ Poke(a) \in told'
           /\ a \notin WrittenBy(d) => base'[a] = base[a]
<1> DEFINE folded(b) == replayLog(b, {d})
           bad == {b \in WrittenBy(d) : folded(b) = Thrown}
           done == DoneBefore(written[d], bad)
           moved == {b \in done : ~Same(base[b], folded(b))}
<1>1. /\ draftState[d] = "open" /\ draftState' = [draftState EXCEPT ![d] = "retired"]
      /\ base' = [b \in Atoms |-> IF b \in moved THEN folded(b) ELSE base[b]]
      /\ told' = {Wave(b) : b \in moved} \cup {Poke(b) : b \in done}
      /\ log' = log /\ TypeOK
    BY DEF retireDraft, HistoryInv
<1>2. worldOf({d}) = {d}
    BY <1>1 DEF worldOf, OpenDrafts
<1>3. \A b \in Atoms : folded(b) = Rp(b, {d}) /\ folded(b) \in Values
    BY <1>1, <1>2, RpIsReplay, RpValue
<1>4. bad = {}
    <2>1. WrittenBy(d) \subseteq Atoms
        BY <1>1, WrittenAreAtoms DEF TypeOK
    <2> QED BY <1>3, <2>1, OpsAssumption
<1>5. done = WrittenBy(d)
    <2> HIDE DEF bad
    <2> QED BY <1>1, <1>4, DoneIsAll DEF TypeOK
<1> HIDE DEF done, folded
<1>6. a \in WrittenBy(d) => Same(base'[a], Rp(a, {d})) /\ Poke(a) \in told'
    BY <1>1, <1>3, <1>5 DEF Same
<1>7. a \notin WrittenBy(d) => base'[a] = base[a]
    BY <1>1, <1>5
<1>8. openLog(a)' = openLog(a)
    <2>1. CASE a \in WrittenBy(d)
        <3>1. log[a] # NoLog
            BY <1>1, <2>1 DEF HistoryInv, Kept, OpenDrafts
        <3> QED BY <1>1, <3>1 DEF openLog
    <2>2. CASE a \notin WrittenBy(d)
        BY <1>1, <1>7, <2>2 DEF openLog, NewLog
    <2> QED BY <2>1, <2>2
<1>9. Applied(worldOf(W))' = Applied(worldOf(W \cup {d}))
    <2>1. draftState \in [DraftIds -> States]
        BY <1>1 DEF TypeOK
    <2> QED BY <1>1, <2>1 DEF Applied, worldOf, OpenDrafts
<1>10. Rp(a, W)' = Rp(a, W \cup {d})
    BY <1>1, <1>8, <1>9, RpSameLog
<1> QED BY <1>6, <1>7, <1>10

\* A discard shows every reader what the readers without the draft saw.
LEMMA DiscardShows ==
    ASSUME HistoryInv, NEW d \in DraftIds, discardDraft(d) \/ abortDiscard(d),
           NEW a \in Atoms, NEW W
    PROVE  Rp(a, W)' = Rp(a, W \ {d}) /\ base'[a] = base[a]
<1>1. /\ draftState[d] = "open" /\ draftState' = [draftState EXCEPT ![d] = "discarded"]
      /\ log' = log /\ base' = base /\ TypeOK
    BY DEF discardDraft, abortDiscard, HistoryInv
<1>2. openLog(a)' = openLog(a)
    BY <1>1 DEF openLog, NewLog
<1>3. Applied(worldOf(W))' = Applied(worldOf(W \ {d}))
    <2>1. draftState \in [DraftIds -> States]
        BY <1>1 DEF TypeOK
    <2> QED BY <1>1, <2>1 DEF Applied, worldOf, OpenDrafts
<1> QED BY <1>1, <1>2, <1>3, RpSameLog

\* A release shows nobody anything: what it folds or drops applies to every
\* reader alike.
LEMMA ReleaseShows ==
    ASSUME StoreInv, UpdatersReturn, releaseDraft \/ abortRelease, NEW a \in Atoms, NEW W
    PROVE  Same(Rp(a, W)', Rp(a, W)) /\ base'[a] = base[a]
<1>1. /\ TypeOK /\ base' = base /\ draftState' = draftState
      /\ Same(base[a], Rp(a, {}))
    BY BaseByRp DEF StoreInv, HistoryInv, RpBase, releaseDraft, abortRelease
<1> DEFINE D == Applied(worldOf(W))
           l == openLog(a)
<1>2. Applied(worldOf(W))' = D
    BY <1>1 DEF Applied, worldOf, OpenDrafts
<1>3. CASE log'[a] = log[a]
    <2>1. openLog(a)' = openLog(a)
        BY <1>1, <1>3 DEF openLog, NewLog
    <2> QED BY <1>1, <1>2, <2>1, RpSameLog DEF Same
<1>4. ASSUME log'[a] = NoLog, log[a] # NoLog,
             \A i \in 1..Len(l.intents) : ~IsOpen(l.intents[i].draft)
      PROVE  Same(Rp(a, W)', Rp(a, W))
    <2>1. openLog(a)' = [before |-> base[a], intents |-> <<>>]
        BY <1>1, <1>4 DEF openLog, NewLog
    <2>2. Rp(a, W)' = base[a]
        <3>1. replay([before |-> base[a], intents |-> <<>>], D) = base[a]
            BY <1>1, EmptyReplay DEF TypeOK
        <3> QED BY <1>2, <2>1, <3>1 DEF Rp
    <2>3. Rp(a, W) = Rp(a, {})
        <3>1. \A i \in 1..Len(l.intents) :
                  l.intents[i].draft \in D <=> l.intents[i].draft \in Applied(worldOf({}))
            BY <1>4 DEF Applied, worldOf, OpenDrafts, IsOpen
        <3>2. l \in Logs
            BY <1>1, NoLogReplay
        <3>3. Len(l.intents) \in 0..Len(l.intents)
            BY <3>2 DEF Logs
        <3> HIDE DEF l, D
        <3>4. replay(l, D) = replay(l, Applied(worldOf({})))
            BY <3>1, <3>2, <3>3, ReplayAgree DEF replay
        <3> QED BY <3>4 DEF Rp, l, D
    <2> QED BY <1>1, <2>2, <2>3 DEF Same
<1>5. CASE log'[a] = NoLog /\ OpenDrafts = {} /\ log[a] # NoLog
    <2>1. \A i \in 1..Len(l.intents) : ~IsOpen(l.intents[i].draft)
        BY <1>5 DEF IsOpen, OpenDrafts
    <2> QED BY <1>1, <1>4, <1>5, <2>1
<1>6. CASE /\ log[a] \in Logs
           /\ replayUpTo(log[a], DeadPrefix(log[a]), Applied({})) # Thrown
           /\ log'[a] = Compacted(log[a])
    <2>1. log[a] # NoLog /\ l = log[a]
        BY <1>6, NoLogAssumption DEF openLog
    <2>2. CASE Compacted(log[a]) = NoLog
        <3>1. \A i \in 1..Len(l.intents) : ~IsOpen(l.intents[i].draft)
            BY <1>6, <2>1, <2>2, CompactedAway
        <3> QED BY <1>1, <1>4, <1>6, <2>1, <2>2, <3>1
    <2>3. CASE Compacted(log[a]) # NoLog
        <3>1. \A i \in 1..DeadPrefix(log[a]) : ~IsOpen(log[a].intents[i].draft)
            BY <1>6, DeadPrefixExists
        <3>2. \A i \in 1..DeadPrefix(log[a]) :
                  log[a].intents[i].draft \in D <=> log[a].intents[i].draft \in Applied({})
            BY <3>1 DEF Applied, worldOf, OpenDrafts, IsOpen
        <3>3. Compacted(log[a]) \in Logs /\ replay(Compacted(log[a]), D) = replay(log[a], D)
            <4> HIDE DEF D
            <4> QED BY <1>6, <2>3, <3>2, ReplayCompacted
        <3>4. openLog(a)' = Compacted(log[a])
            BY <1>6, <2>3 DEF openLog
        <3>5. Rp(a, W)' = replay(Compacted(log[a]), D) /\ Rp(a, W) = replay(log[a], D)
            BY <1>2, <2>1, <3>4 DEF Rp
        <3> QED BY <1>1, <3>3, <3>5 DEF Same
    <2> QED BY <2>2, <2>3
<1>7. CASE abortRelease
    BY <1>3, <1>7 DEF abortRelease
<1>8. CASE releaseDraft
    BY <1>1, <1>3, <1>5, <1>6, <1>8, ReleaseEffect
<1> QED BY <1>7, <1>8
-----------------------------------------------------------------------------
(***************************************************************************)
(* The two planes of an atom                                               *)
(***************************************************************************)
\* Every step keeps base and logs in step.
LEMMA BaseStep ==
    ASSUME UpdatersReturn, UpdatersRespectEquals, StoreInv, [Next]_vars
    PROVE  BaseIsReplay'
<1>1. TypeOK /\ TypeOK' /\ HistoryInv
    BY TypeStep DEF StoreInv, HistoryInv
<1>2. \A a \in Atoms : Same(base[a], Rp(a, {}))
    BY <1>1, BaseByRp DEF StoreInv, RpBase
<1>3. SUFFICES ASSUME NEW a \in Atoms PROVE Same(base'[a], Rp(a, {})')
    BY <1>1, BaseByRpNext DEF RpBase
<1>4. base[a] \in Values /\ Rp(a, {}) \in Values
    BY <1>1, RpValue DEF TypeOK
<1>5. ASSUME NEW d \in DraftIds, openDraft(d) PROVE Same(base'[a], Rp(a, {})')
    BY <1>1, <1>2, <1>5, OpenShows
<1>6. ASSUME NEW d \in DraftIds, NEW b \in Atoms, NEW op \in Ops, draftIntent(d, b, op)
      PROVE  Same(base'[a], Rp(a, {})')
    <2>1. Rp(a, {})' = Rp(a, {}) /\ base'[a] = base[a]
        BY <1>1, <1>6, DraftWriteShows
    <2> QED BY <1>2, <2>1
<1>7. ASSUME NEW b \in Atoms, NEW op \in Ops, urgentIntent(b, op)
      PROVE  Same(base'[a], Rp(a, {})')
    <2>1. /\ Rp(a, {})' = (IF a = b THEN applyIntent(op, Rp(a, {})) ELSE Rp(a, {}))
          /\ base'[a] = (IF a = b THEN applyIntent(op, base[a]) ELSE base[a])
        BY <1>1, <1>7, UrgentWriteShows
    <2>2. Same(applyIntent(op, base[a]), op[Rp(a, {})])
          /\ Same(applyIntent(op, Rp(a, {})), op[Rp(a, {})])
        BY <1>2, <1>4, ApplyRespects DEF Same
    <2> QED BY <1>2, <2>1, <2>2 DEF Same
<1>8. ASSUME NEW d \in DraftIds, retireDraft(d) PROVE Same(base'[a], Rp(a, {})')
    <2>1. /\ Rp(a, {})' = Rp(a, {} \cup {d})
          /\ a \in WrittenBy(d) => Same(base'[a], Rp(a, {d}))
          /\ a \notin WrittenBy(d) => base'[a] = base[a]
        BY <1>1, <1>8, RetireShows
    <2>2. CASE a \in WrittenBy(d)
        <3>1. {} \cup {d} = {d}
            OBVIOUS
        <3> QED BY <2>1, <2>2, <3>1
    <2>3. CASE a \notin WrittenBy(d)
        <3>1. Rp(a, {} \cup {d}) = Rp(a, {})
            BY <1>1, <2>3, Strangers
        <3> QED BY <1>2, <2>1, <2>3, <3>1
    <2> QED BY <2>2, <2>3
<1>9. ASSUME NEW d \in DraftIds, discardDraft(d) \/ abortDiscard(d)
      PROVE  Same(base'[a], Rp(a, {})')
    <2>1. Rp(a, {})' = Rp(a, {} \ {d}) /\ base'[a] = base[a]
        BY <1>1, <1>9, DiscardShows
    <2>2. {} \ {d} = {}
        OBVIOUS
    <2> QED BY <1>2, <2>1, <2>2
<1>10. CASE releaseDraft \/ abortRelease
    <2>1. Same(Rp(a, {})', Rp(a, {})) /\ base'[a] = base[a]
        BY <1>10, ReleaseShows
    <2> QED BY <1>2, <2>1 DEF Same
<1>11. CASE UNCHANGED vars
    <2>1. Rp(a, {})' = Rp(a, {}) /\ base'[a] = base[a]
        <3>1. openLog(a)' = openLog(a) /\ Applied(worldOf({}))' = Applied(worldOf({}))
            BY <1>11 DEF vars, openLog, NewLog, Applied, worldOf, OpenDrafts
        <3> QED BY <1>11, <3>1 DEF Rp, vars
    <2> QED BY <1>2, <2>1
<1> QED BY <1>5, <1>6, <1>7, <1>8, <1>9, <1>10, <1>11, StepKinds

\* Base and logs start in step: there are no logs.
LEMMA StoreInit == Init => StoreInv
<1>1. Init => BaseIsReplay
    BY DEF Init, BaseIsReplay, replayLog, Same
<1> QED BY <1>1, HistoryInit DEF StoreInv

\* They are in step in every reachable state.
LEMMA StoreInvariant ==
    ASSUME UpdatersReturn, UpdatersRespectEquals
    PROVE  Spec => []StoreInv
<1>1. StoreInv /\ [Next]_vars => StoreInv'
    BY BaseStep, TypeStep, LinkedStep, KeptStep, FreshStep DEF StoreInv, HistoryInv
<1> QED BY StoreInit, <1>1, PTL DEF Spec

\* The base value that urgent writes and retirements keep in place is always
\* the replay of the log for the base world.
THEOREM PlanesAgree ==
    ASSUME UpdatersReturn, UpdatersRespectEquals
    PROVE  Spec => []BaseIsReplay
<1>1. StoreInv => BaseIsReplay
    BY DEF StoreInv
<1> QED BY StoreInvariant, <1>1, PTL

-----------------------------------------------------------------------------
(***************************************************************************)
(* No change without a notice                                              *)
(***************************************************************************)
\* What readers resolve is their replay, up to equality, ...
ReadersReplay ==
    \A a \in Atoms : \A W \in SUBSET DraftIds : Class[Resolve(a, W)] = Class[Rp(a, W)]
\* ... where base and logs are in step, ...
LEMMA ReadersResolve == StoreInv => ReadersReplay
BY ResolveIsRp DEF ReadersReplay

\* ... also after a step.
LEMMA ReadersResolveNext == StoreInv' => ReadersReplay'
BY ReadersResolve, PTL

\* A reader none of whose drafts is in the log of an atom sees its base value.
LEMMA Outsiders ==
    ASSUME StoreInv, NEW a \in Atoms, NEW W \in SUBSET DraftIds,
           log[a] = NoLog \/ W \cap OpenInLog(a) = {}
    PROVE  Same(base[a], Rp(a, W))
<1> DEFINE l == openLog(a)
           D == Applied(worldOf(W))
           E == Applied(worldOf({}))
<1>1. l \in Logs /\ HistoryInv
    BY NoLogReplay DEF StoreInv, HistoryInv
<1>2. ASSUME NEW i \in 1..Len(l.intents)
      PROVE  l.intents[i].draft \in D <=> l.intents[i].draft \in E
    <2>1. log[a] # NoLog
        BY <1>1, IntentDrafts
    <2>2. l = log[a] /\ i \in DOMAIN log[a].intents
        BY <1>1, <2>1 DEF openLog, Logs
    <2>3. log[a].intents[i].draft \notin W \cap OpenDrafts
        BY <2>1, <2>2 DEF OpenInLog
    <2> QED BY <2>2, <2>3 DEF Applied, worldOf
<1>3. Len(l.intents) \in 0..Len(l.intents)
    BY <1>1 DEF Logs
<1>4. Rp(a, W) = replay(l, D) /\ Rp(a, {}) = replay(l, E)
    BY DEF Rp
<1> HIDE DEF l, D, E
<1>5. replay(l, D) = replay(l, E)
    BY <1>1, <1>2, <1>3, ReplayAgree DEF replay
<1>6. Same(base[a], Rp(a, {}))
    BY BaseByRp DEF StoreInv, HistoryInv, RpBase
<1> QED BY <1>4, <1>5, <1>6

\* An urgent write that leaves base alone shows the readers it tells nothing
\* the value they saw.
LEMMA UnmovedShows ==
    ASSUME UpdatersReturn, UpdatersRespectEquals, StoreInv, NEW b \in Atoms, NEW op \in Ops,
           urgentIntent(b, op), Same(base[b], op[base[b]]), NEW W \in SUBSET DraftIds,
           log[b] = NoLog \/ W \cap OpenInLog(b) = {}
    PROVE  Same(Rp(b, W), Rp(b, W)')
<1>1. TypeOK /\ HistoryInv
    BY DEF StoreInv, HistoryInv
<1>2. Same(base[b], Rp(b, W))
    BY Outsiders
<1>3. base[b] \in Values /\ Rp(b, W) \in Values
    BY <1>1, RpValue DEF TypeOK
<1>4. Same(applyIntent(op, Rp(b, W)), op[base[b]])
    BY <1>2, <1>3, ApplyRespects DEF Same
<1>5. Rp(b, W)' = applyIntent(op, Rp(b, W))
    BY <1>1, UrgentWriteShows
<1> QED BY <1>2, <1>4, <1>5 DEF Same

\* An atom changes for a reader only in a step that tells the atom's
\* subscribers, or wakes a draft the reader holds: no write, retirement,
\* discard or release goes unheard.  Assumed beside what the engine asks of
\* updaters: no callback throws out of a flush, because discardDraft stops
\* poking at the first that does.
THEOREM ChangesAreTold ==
    ASSUME UpdatersReturn, UpdatersRespectEquals, ~EffectsThrow
    PROVE  Spec => NoSilentChange
<1> DEFINE Heard(a, W) ==
              \/ Wave(a) \in told' \/ Poke(a) \in told'
              \/ \E d \in W : Wake(a, d) \in told'
<1>1. ASSUME StoreInv, StoreInv', [Next]_vars, NEW a \in Atoms, NEW W \in SUBSET OpenDrafts
      PROVE  Same(Rp(a, W), Rp(a, W)') \/ Heard(a, W)
    <2>1. TypeOK /\ HistoryInv /\ W \in SUBSET DraftIds
        BY <1>1 DEF StoreInv, HistoryInv, OpenDrafts
    <2>2. ASSUME NEW d \in DraftIds, openDraft(d) PROVE Same(Rp(a, W), Rp(a, W)')
        BY <2>1, <2>2, OpenShows DEF Same
    <2>3. ASSUME NEW d \in DraftIds, NEW b \in Atoms, NEW op \in Ops,
                 appendDraftIntent(d, b, op)
          PROVE  Same(Rp(a, W), Rp(a, W)') \/ Heard(a, W)
        <3>1. Rp(a, W)' = IF a = b /\ d \in W THEN applyIntent(op, Rp(a, W)) ELSE Rp(a, W)
            BY <2>1, <2>3, DraftWriteShows DEF appendDraftIntent
        <3>2. told' = {Wake(b, d)}
            BY <2>3 DEF appendDraftIntent
        <3>3. CASE a = b /\ d \in W
            BY <3>2, <3>3
        <3>4. CASE ~(a = b /\ d \in W)
            BY <3>1, <3>4 DEF Same
        <3> QED BY <3>3, <3>4
    <2>4. ASSUME NEW b \in Atoms, NEW op \in Ops, urgentWrite(b, op)
          PROVE  Same(Rp(a, W), Rp(a, W)') \/ Heard(a, W)
        <3>1. CASE a # b
            BY <2>1, <2>4, <3>1, UrgentWriteShows DEF Same, urgentWrite
        <3>2. CASE a = b /\ ~Same(base[b], op[base[b]])
            <4>1. Wave(b) \in told'
                BY <2>4, <3>2 DEF urgentWrite, movesBase
            <4> QED BY <3>2, <4>1
        <3>3. CASE a = b /\ Same(base[b], op[base[b]]) /\ log[b] # NoLog /\ W \cap OpenInLog(b) # {}
            <4>1. told' = pokeRebasedAtom(b)
                BY <2>4, <3>3 DEF urgentWrite, movesBase
            <4>2. PICK d \in W : d \in OpenInLog(b)
                BY <3>3
            <4>3. Wake(b, d) \in told'
                BY <4>1, <4>2 DEF pokeRebasedAtom
            <4> QED BY <3>3, <4>2, <4>3
        <3>4. CASE a = b /\ Same(base[b], op[base[b]]) /\ (log[b] = NoLog \/ W \cap OpenInLog(b) = {})
            BY <1>1, <2>1, <2>4, <3>4, UnmovedShows DEF urgentWrite
        <3> QED BY <3>1, <3>2, <3>3, <3>4
    <2>5. ASSUME NEW d \in DraftIds, retireDraft(d)
          PROVE  Same(Rp(a, W), Rp(a, W)') \/ Heard(a, W)
        <3>1. CASE a \in WrittenBy(d)
            <4>1. Poke(a) \in told'
                BY <2>1, <2>5, <3>1, RetireShows
            <4> QED BY <4>1
        <3>2. CASE a \notin WrittenBy(d)
            <4>1. Rp(a, W)' = Rp(a, W \cup {d})
                BY <2>1, <2>5, RetireShows
            <4> QED BY <2>1, <3>2, <4>1, Strangers DEF Same
        <3> QED BY <3>1, <3>2
    <2>6. ASSUME NEW d \in DraftIds, discardDraft(d)
          PROVE  Same(Rp(a, W), Rp(a, W)') \/ Heard(a, W)
        <3>1. CASE a \in WrittenBy(d)
            <4>1. Poke(a) \in told'
                BY <2>6, <3>1 DEF discardDraft
            <4> QED BY <4>1
        <3>2. CASE a \notin WrittenBy(d)
            <4>1. Rp(a, W)' = Rp(a, W \ {d})
                BY <2>1, <2>6, DiscardShows
            <4> QED BY <2>1, <3>2, <4>1, Strangers DEF Same
        <3> QED BY <3>1, <3>2
    <2>7. CASE releaseDraft \/ abortRelease
        BY <1>1, <2>7, ReleaseShows DEF Same
    <2>8. CASE UNCHANGED vars
        <3>1. openLog(a)' = openLog(a) /\ Applied(worldOf(W))' = Applied(worldOf(W))
            BY <2>8 DEF vars, openLog, NewLog, Applied, worldOf, OpenDrafts
        <3> QED BY <3>1 DEF Rp, Same
    <2> HIDE DEF Heard
    <2>9. /\ \A d \in DraftIds : ~abortDiscard(d)
          /\ \A d \in DraftIds, b \in Atoms, op \in Ops : ~abortAppend(d, b, op)
          /\ \A b \in Atoms, op \in Ops : ~abortRebase(b, op)
        BY DEF abortDiscard, abortAppend, abortRebase
    <2> QED BY <1>1, <2>2, <2>3, <2>4, <2>5, <2>6, <2>7, <2>8, <2>9 DEF Next
<1> HIDE DEF Heard
<1>2. ASSUME StoreInv, StoreInv', [Next]_vars, NEW a \in Atoms, NEW W \in SUBSET OpenDrafts
      PROVE  ~Same(Resolve(a, W), Resolve(a, W)') => Heard(a, W)
    <2>1. W \in SUBSET DraftIds
        BY DEF OpenDrafts
    <2>2. Class[Resolve(a, W)] = Class[Rp(a, W)]
        BY <1>2, <2>1, ReadersResolve DEF ReadersReplay
    <2>3. Class[Resolve(a, W)'] = Class[Rp(a, W)']
        BY <1>2, <2>1, ReadersResolveNext DEF ReadersReplay
    <2> QED BY <1>1, <1>2, <2>2, <2>3 DEF Same
<1>3. StoreInv /\ StoreInv' /\ [Next]_vars =>
          [\A a \in Atoms : \A W \in SUBSET OpenDrafts :
              ~Same(Resolve(a, W), Resolve(a, W)') =>
                  \/ Wave(a) \in told' \/ Poke(a) \in told'
                  \/ \E d \in W : Wake(a, d) \in told']_vars
    BY <1>2 DEF Heard
<1> QED BY StoreInvariant, <1>3, PTL DEF Spec, NoSilentChange
-----------------------------------------------------------------------------
(***************************************************************************)
(* The refinement                                                          *)
(***************************************************************************)
\* The branches of the abstract store: the classes of what readers resolve.
Branches == [a \in Atoms |-> [W \in SUBSET DraftIds |-> Class[Resolve(a, W)]]]
Announced == {n[2] : n \in told}

\* A branch holds the class of its replay, ...
BranchesReplay ==
    Branches = [a \in Atoms |-> [W \in SUBSET DraftIds |-> Class[Rp(a, W)]]]
\* ... where base and logs are in step, ...
LEMMA BranchIsReplay == StoreInv => BranchesReplay
BY ReadersResolve DEF ReadersReplay, Branches, BranchesReplay

\* ... also after a step.
LEMMA BranchIsReplayNext == StoreInv' => BranchesReplay'
BY BranchIsReplay, PTL

\* A step that shows no reader anything leaves the branches alone.
LEMMA BranchesKept ==
    ASSUME StoreInv, StoreInv',
           \A a \in Atoms : \A W \in SUBSET DraftIds : Same(Rp(a, W)', Rp(a, W))
    PROVE  Branches' = Branches
BY BranchIsReplay, BranchIsReplayNext DEF BranchesReplay, Same

\* An intent does to the class of a reader's value what it does to the value.
LEMMA IntentOnClass ==
    ASSUME UpdatersReturn, UpdatersRespectEquals, TypeOK, NEW a \in Atoms, NEW W,
           NEW op \in Ops
    PROVE  Class[applyIntent(op, Rp(a, W))] = Class[op[Class[Rp(a, W)]]]
<1>1. Rp(a, W) \in Values
    BY RpValue
<1>2. Class[Rp(a, W)] \in Values /\ Same(Rp(a, W), Class[Rp(a, W)])
    BY <1>1, ClassRepresents
<1> QED BY <1>1, <1>2, ApplyRespects DEF Same

\* The empty store: every branch holds the atom's initial value.
LEMMA BranchesInit == Init => Store!Init
<1> SUFFICES ASSUME Init PROVE Store!Init
    OBVIOUS
<1>1. base \in [Atoms -> Values] /\ told = {} /\ log = [a \in Atoms |-> NoLog]
      /\ draftState = [d \in DraftIds |-> "unopened"]
    BY DEF Init
<1>2. \A a \in Atoms : \A W : Resolve(a, W) = base[a]
    BY <1>1 DEF Resolve, replayLog
<1>3. Branches = [a \in Atoms |-> [W \in SUBSET DraftIds |-> Class[base[a]]]]
    BY <1>2 DEF Branches
<1>4. Announced = {}
    BY <1>1 DEF Announced
<1> QED BY <1>1, <1>3, <1>4 DEF Store!Init, Store!Worlds, Branches, Announced

\* openDraft is Open.
LEMMA OpenBranches ==
    ASSUME StoreInv, StoreInv', NEW d \in DraftIds, openDraft(d)
    PROVE  Store!Open(d)
<1>1. HistoryInv
    BY DEF StoreInv
<1>2. Branches' = Branches
    BY <1>1, OpenShows, BranchesKept DEF Same
<1>3. Announced' = {}
    BY DEF openDraft, Announced
<1>4. \A e \in DraftIds : e < d => draftState[e] # "unopened"
    BY BoundsAssumption DEF openDraft, DraftIds
<1> QED BY <1>2, <1>3, <1>4 DEF openDraft, Store!Open, Branches, Announced

\* appendDraftIntent is DraftWrite, whether or not its poke reaches the wakes.
LEMMA DraftWriteBranches ==
    ASSUME UpdatersReturn, UpdatersRespectEquals, StoreInv, StoreInv',
           NEW d \in DraftIds, NEW b \in Atoms, NEW op \in Ops,
           appendDraftIntent(d, b, op) \/ abortAppend(d, b, op)
    PROVE  Store!DraftWrite(d, b, op)
<1>0. draftIntent(d, b, op)
    BY DEF appendDraftIntent, abortAppend
<1>1. HistoryInv /\ TypeOK /\ BranchesReplay /\ BranchesReplay'
    BY BranchIsReplay, BranchIsReplayNext DEF StoreInv, HistoryInv
<1>2. ASSUME NEW a \in Atoms, NEW W \in SUBSET DraftIds
      PROVE  Class[Rp(a, W)'] = IF a = b /\ d \in W THEN Class[op[Class[Rp(a, W)]]]
                                ELSE Class[Rp(a, W)]
    BY <1>0, <1>1, DraftWriteShows, IntentOnClass
<1>3. Branches' = [Branches EXCEPT ![b] =
                      [W \in SUBSET DraftIds |-> IF d \in W THEN Class[op[Branches[b][W]]]
                                                 ELSE Branches[b][W]]]
    <2> DEFINE moved == [W \in SUBSET DraftIds |-> IF d \in W THEN Class[op[Branches[b][W]]]
                                                   ELSE Branches[b][W]]
    <2>1. \A W \in SUBSET DraftIds : Branches[b][W] = Class[Rp(b, W)]
        BY <1>1 DEF BranchesReplay
    <2>2. moved = [W \in SUBSET DraftIds |-> Class[Rp(b, W)']]
        BY <1>2, <2>1
    <2> HIDE DEF moved
    <2>3. ASSUME NEW a \in Atoms, a # b
          PROVE  [W \in SUBSET DraftIds |-> Class[Rp(a, W)']] = Branches[a]
        BY <1>1, <1>2, <2>3 DEF BranchesReplay
    <2>4. Branches' = [Branches EXCEPT ![b] = moved]
        BY <1>1, <2>2, <2>3 DEF BranchesReplay
    <2> QED BY <2>4 DEF moved
<1>4. Announced' = {b}
    <2>1. CASE appendDraftIntent(d, b, op)
        BY <2>1 DEF appendDraftIntent, Announced, Wake
    <2>2. CASE abortAppend(d, b, op)
        BY <2>2 DEF abortAppend, Announced, Poke
    <2> QED BY <2>1, <2>2
<1> QED BY <1>0, <1>3, <1>4 DEF draftIntent, Store!DraftWrite, Store!Worlds, Branches, Announced

\* urgentWrite is UrgentWrite, also where a poke of its throws, or shows
\* nobody anything.
LEMMA UrgentWriteBranches ==
    ASSUME UpdatersReturn, UpdatersRespectEquals, StoreInv, StoreInv',
           NEW b \in Atoms, NEW op \in Ops, urgentWrite(b, op) \/ abortRebase(b, op)
    PROVE  Store!UrgentWrite(b, op) \/ Store!Quiet
<1>0. urgentIntent(b, op)
    BY DEF urgentWrite, abortRebase
<1>1. HistoryInv /\ TypeOK /\ BranchesReplay /\ BranchesReplay' /\ draftState' = draftState
    BY <1>0, BranchIsReplay, BranchIsReplayNext DEF StoreInv, HistoryInv, urgentIntent
<1>2. ASSUME NEW a \in Atoms, NEW W \in SUBSET DraftIds
      PROVE  Class[Rp(a, W)'] = IF a = b THEN Class[op[Class[Rp(a, W)]]] ELSE Class[Rp(a, W)]
    BY <1>0, <1>1, UrgentWriteShows, IntentOnClass
<1>3. Branches' = [Branches EXCEPT ![b] =
                      [W \in SUBSET DraftIds |-> Class[op[Branches[b][W]]]]]
    BY <1>1, <1>2 DEF BranchesReplay
<1>4. CASE Announced' = {b}
    BY <1>1, <1>3, <1>4 DEF Store!UrgentWrite, Store!Worlds, Branches, Announced
<1>5. CASE Announced' # {b}
    <2>0. ~abortRebase(b, op)
        <3> DEFINE before(d) == {o \in OpenInLog(b) : FirstIn(b, o) < FirstIn(b, d)}
        <3>1. ASSUME NEW woken, told' = {Wake(b, e) : e \in woken} \cup {Poke(b)}
              PROVE  Announced' = {b}
            <4>1. Poke(b) \in told' /\ \A n \in told' : n[2] = b
                BY <3>1 DEF Wake, Poke
            <4> QED BY <4>1 DEF Announced, Poke
        <3>2. ASSUME abortRebase(b, op)
              PROVE  \E d \in OpenInLog(b) :
                         told' = {Wake(b, e) : e \in before(d)} \cup {Poke(b)}
            BY <3>2, Zenon DEF abortRebase
        <3> HIDE DEF before
        <3> QED BY <1>5, <3>1, <3>2
    <2>1. told' = {}
        BY <1>5, <2>0 DEF urgentWrite, pokeRebasedAtom, Announced, Wave, Wake
    <2>2. Same(base[b], op[base[b]]) /\ (log[b] = NoLog \/ OpenInLog(b) = {})
        BY <2>0, <2>1 DEF urgentWrite, movesBase, pokeRebasedAtom
    <2>3. ASSUME NEW a \in Atoms, NEW W \in SUBSET DraftIds PROVE Same(Rp(a, W)', Rp(a, W))
        <3>1. CASE a = b
            BY <1>0, <2>2, <3>1, UnmovedShows DEF Same
        <3>2. CASE a # b
            BY <1>0, <1>1, <3>2, UrgentWriteShows DEF Same
        <3> QED BY <3>1, <3>2
    <2>4. Branches' = Branches
        BY <2>3, BranchesKept
    <2>5. Announced' = {}
        BY <2>1 DEF Announced
    <2> QED BY <1>1, <2>4, <2>5 DEF Store!Quiet, Branches, Announced
<1> QED BY <1>4, <1>5

\* What a step announces concerns atoms.
LEMMA NoticesAreOfAtoms == TypeOK => Announced \in SUBSET Atoms
BY DEF TypeOK, Notices, Announced

\* ... also after a step.
LEMMA NoticesAreOfAtomsNext == TypeOK' => Announced' \in SUBSET Atoms
<1>1. ASSUME TypeOK' PROVE Announced' \in SUBSET Atoms
    BY <1>1 DEF TypeOK, Notices, Announced
<1> QED BY <1>1

\* retireDraft is Retire.
LEMMA RetireBranches ==
    ASSUME UpdatersReturn, StoreInv, StoreInv', NEW d \in DraftIds, retireDraft(d)
    PROVE  Store!Retire(d)
<1>1. HistoryInv /\ TypeOK' /\ BranchesReplay /\ BranchesReplay'
    BY BranchIsReplay, BranchIsReplayNext DEF StoreInv, HistoryInv
<1>2. \A a \in Atoms : \A W \in SUBSET DraftIds : Rp(a, W)' = Rp(a, W \cup {d})
    BY <1>1, RetireShows
<1>3. Branches' = [a \in Atoms |-> [W \in SUBSET DraftIds |-> Branches[a][W \cup {d}]]]
    BY <1>1, <1>2 DEF BranchesReplay
<1>4. Announced' \in SUBSET Atoms
    BY <1>1, NoticesAreOfAtomsNext
<1> QED BY <1>3, <1>4 DEF retireDraft, Store!Retire, Store!Worlds, Branches, Announced

\* discardDraft is Discard, whether or not a callback ends its pokes early.
LEMMA DiscardBranches ==
    ASSUME StoreInv, StoreInv', NEW d \in DraftIds, discardDraft(d) \/ abortDiscard(d)
    PROVE  Store!Discard(d)
<1>1. HistoryInv /\ TypeOK' /\ BranchesReplay /\ BranchesReplay'
    BY BranchIsReplay, BranchIsReplayNext DEF StoreInv, HistoryInv
<1>2. \A a \in Atoms : \A W \in SUBSET DraftIds : Rp(a, W)' = Rp(a, W \ {d})
    BY <1>1, DiscardShows
<1>3. Branches' = [a \in Atoms |-> [W \in SUBSET DraftIds |-> Branches[a][W \ {d}]]]
    BY <1>1, <1>2 DEF BranchesReplay
<1>4. Announced' \in SUBSET Atoms
    BY <1>1, NoticesAreOfAtomsNext
<1>5. draftState[d] = "open" /\ draftState' = [draftState EXCEPT ![d] = "discarded"]
    BY DEF discardDraft, abortDiscard
<1> QED BY <1>3, <1>4, <1>5 DEF Store!Discard, Store!Worlds, Branches, Announced

\* A release is Quiet.
LEMMA ReleaseBranches ==
    ASSUME UpdatersReturn, StoreInv, StoreInv', releaseDraft \/ abortRelease
    PROVE  Store!Quiet
<1>1. Branches' = Branches
    BY ReleaseShows, BranchesKept
<1>2. Announced' = {} /\ draftState' = draftState
    BY DEF releaseDraft, abortRelease, Announced
<1> QED BY <1>1, <1>2 DEF Store!Quiet, Branches, Announced

\* The rebase logs implement the branching store: whatever set of draft ids a
\* reader holds, what it resolves moves exactly as its branch does when drafts
\* are opened, written, retired and discarded, and releasing logs moves no
\* branch.
THEOREM LogsImplementBranches ==
    ASSUME UpdatersReturn, UpdatersRespectEquals
    PROVE  Spec => ImplementsBranches
<1>1. ASSUME StoreInv, StoreInv', [Next]_vars PROVE [Store!Next]_(Store!avars)
    <2>1. ASSUME NEW d \in DraftIds, openDraft(d) PROVE Store!Next
        BY <1>1, <2>1, OpenBranches DEF Store!Next
    <2>2. ASSUME NEW d \in DraftIds, retireDraft(d) PROVE Store!Next
        BY <1>1, <2>2, RetireBranches DEF Store!Next
    <2>3. ASSUME NEW d \in DraftIds, discardDraft(d) \/ abortDiscard(d) PROVE Store!Next
        BY <1>1, <2>3, DiscardBranches DEF Store!Next
    <2>4. ASSUME NEW d \in DraftIds, NEW b \in Atoms, NEW op \in Ops,
                 appendDraftIntent(d, b, op) \/ abortAppend(d, b, op)
          PROVE  Store!Next
        BY <1>1, <2>4, DraftWriteBranches DEF Store!Next
    <2>5. ASSUME NEW b \in Atoms, NEW op \in Ops, urgentWrite(b, op) \/ abortRebase(b, op)
          PROVE  Store!Next
        BY <1>1, <2>5, UrgentWriteBranches DEF Store!Next
    <2>6. CASE releaseDraft \/ abortRelease
        BY <1>1, <2>6, ReleaseBranches DEF Store!Next
    <2>7. CASE UNCHANGED vars
        <3>1. ASSUME NEW a \in Atoms, NEW W PROVE Resolve(a, W)' = Resolve(a, W)
            BY <2>7 DEF vars, Resolve, replayLog, Applied, worldOf, OpenDrafts
        <3>2. Branches' = Branches /\ Announced' = Announced /\ draftState' = draftState
            BY <2>7, <3>1 DEF vars, Branches, Announced
        <3> QED BY <3>2 DEF Store!avars, Branches, Announced
    <2> QED BY <1>1, <2>1, <2>2, <2>3, <2>4, <2>5, <2>6, <2>7 DEF Next
<1> QED BY StoreInvariant, BranchesInit, <1>1, PTL DEF Spec, ImplementsBranches, Store!Spec
=============================================================================
