-------------------------- MODULE EffectLanesProofs --------------------------
(***************************************************************************)
(* Proofs about EffectLanes, for every number of effects and hosts and     *)
(* every set of values.  The inductive invariant says of the drains under  *)
(* way what makes the queues right: no two of them are in a round of the   *)
(* same lane, so that nothing a nested drain pulls, runs or clears is an   *)
(* entry of a round further down the stack.                                *)
(***************************************************************************)
EXTENDS EffectLanes, DataLemmas

Entries(f) == Members(f.left) \cup Members(f.kept)

\* A frame that is in no round holds no entries; a callback runs for the first
\* of those left.
Shaped(f) ==
    /\ f.todo # <<>>
    /\ f.phase \in {"enter", "pull"} => f.left = <<>>
    /\ f.phase # "cleanup" => f.kept = <<>>
    /\ f.busy => f.left # <<>> /\ f.phase \in {"cleanup", "run"}

\* A round holds effects of its lane.
Homed(f, at) == \A e \in Entries(f) : at[e] = Head(f.todo)

\* The live entries of a round whose pull is out of date are queued again.
Requeued(f, now, live, marked) ==
    f.value # now => Entries(f) \cap live \subseteq marked

\* The effect whose handler is running has the value of its pull, unless it
\* is disposed or queued again.
Handed(f, live, had, marked) ==
    f.busy /\ f.phase = "run" /\ Head(f.left) \in live \ marked => had[Head(f.left)] = f.value

Sound(f, at, now, live, had, marked) ==
    /\ Shaped(f) /\ Homed(f, at)
    /\ Requeued(f, now, live, marked) /\ Handed(f, live, had, marked)

FramesSound ==
    \A i \in DOMAIN stack : Sound(stack[i], lane, current, watched, handled, scheduled)

\* No two frames are in the middle of draining the same lane.
Apart(s) ==
    \A i, j \in DOMAIN s : i # j /\ s[i].phase # "enter" /\ s[j].phase # "enter" =>
        Head(s[i].todo) # Head(s[j].todo)

LanesInv == TypeOK /\ FramesSound /\ Apart(stack) /\ QueuedOnce /\ NothingForgotten
-----------------------------------------------------------------------------
(***************************************************************************)
(* The three ways a step changes the stack of drains                       *)
(***************************************************************************)
IsPush(s, f, t) == Len(t) = Len(s) + 1 /\ t[1] = f /\ \A i \in 1..Len(s) : t[i+1] = s[i]
IsReplace(s, f, t) == Len(t) = Len(s) /\ t[1] = f /\ \A i \in 2..Len(s) : t[i] = s[i]
IsPop(s, t) == Len(t) + 1 = Len(s) /\ \A i \in 1..Len(t) : t[i] = s[i+1]

\* A call puts a frame on top.
LEMMA Pushing ==
    ASSUME NEW T, NEW s \in Seq(T), NEW f \in T
    PROVE  <<f>> \o s \in Seq(T) /\ IsPush(s, f, <<f>> \o s)
<1>1. <<f>> \in Seq(T) /\ Len(<<f>>) = 1 /\ <<f>>[1] = f
    OBVIOUS
<1> DEFINE u == <<f>>
<1> HIDE DEF u
<1>2. /\ u \o s \in Seq(T) /\ Len(u \o s) = Len(u) + Len(s)
      /\ \A i \in 1..(Len(u) + Len(s)) : (u \o s)[i] = IF i <= Len(u) THEN u[i] ELSE s[i - Len(u)]
    BY <1>1, ConcatProperties DEF u
<1>3. Len(u) = 1 /\ u[1] = f /\ Len(s) \in Nat
    BY <1>1 DEF u
<1>4. u \o s \in Seq(T) /\ Len(u \o s) = Len(s) + 1 /\ (u \o s)[1] = f
    BY <1>2, <1>3
<1>5. ASSUME NEW i \in 1..Len(s) PROVE (u \o s)[i+1] = s[i]
    BY <1>2, <1>3
<1>6. u \o s \in Seq(T) /\ IsPush(s, f, u \o s)
    BY <1>4, <1>5 DEF IsPush
<1> QED BY <1>6 DEF u

\* A return takes the top frame off.
LEMMA Popping ==
    ASSUME NEW T, NEW s \in Seq(T), s # <<>>
    PROVE  Tail(s) \in Seq(T) /\ IsPop(s, Tail(s))
<1>1. /\ Tail(s) \in Seq(T) /\ Len(Tail(s)) = Len(s) - 1
      /\ \A i \in 1..Len(Tail(s)) : Tail(s)[i] = s[i+1]
    BY HeadTailProperties
<1>2. Len(s) \in Nat
    OBVIOUS
<1> QED BY <1>1, <1>2 DEF IsPop

\* The top frame goes on.
LEMMA Replacing ==
    ASSUME NEW T, NEW s \in Seq(T), s # <<>>, NEW f \in T
    PROVE  <<f>> \o Tail(s) \in Seq(T) /\ IsReplace(s, f, <<f>> \o Tail(s))
<1> DEFINE u == Tail(s)
           t == <<f>> \o Tail(s)
<1>1. u \in Seq(T) /\ IsPop(s, u)
    BY Popping
<1>2. t \in Seq(T) /\ IsPush(u, f, t)
    BY <1>1, Pushing
<1> HIDE DEF u, t
<1>3. Len(s) \in Nat /\ Len(u) \in Nat
    BY <1>1
<1>4. Len(t) = Len(s) /\ t[1] = f
    BY <1>1, <1>2, <1>3 DEF IsPop, IsPush
<1>5. ASSUME NEW i \in 2..Len(s) PROVE t[i] = s[i]
    <2>1. i-1 \in 1..Len(u) /\ (i-1)+1 = i
        BY <1>1, <1>3 DEF IsPop
    <2>2. t[(i-1)+1] = u[i-1] /\ u[i-1] = s[(i-1)+1]
        BY <1>1, <1>2, <2>1 DEF IsPop, IsPush
    <2> QED BY <2>1, <2>2
<1>6. t \in Seq(T) /\ IsReplace(s, f, t)
    BY <1>2, <1>4, <1>5 DEF IsReplace
<1> QED BY <1>6 DEF t

\* The head of a nonempty list is one of its members, and the others are those
\* of its tail.
LEMMA MembersOfTail ==
    ASSUME NEW T, NEW s \in Seq(T), s # <<>>
    PROVE  /\ Head(s) \in T /\ Tail(s) \in Seq(T)
           /\ Members(s) = {Head(s)} \cup Members(Tail(s))
<1>1. Tail(s) \in Seq(T) /\ IsPop(s, Tail(s)) /\ Head(s) = s[1] /\ Len(s) \in Nat /\ Len(s) # 0
    BY Popping
<1> DEFINE u == Tail(s)
<1> HIDE DEF u
<1>2. /\ u \in Seq(T) /\ Len(u) \in Nat /\ Len(u) + 1 = Len(s)
      /\ \A i \in 1..Len(u) : u[i] = s[i+1]
    BY <1>1 DEF u, IsPop
<1>3. ASSUME NEW i \in 1..Len(s) PROVE s[i] \in {s[1]} \cup Members(u)
    <2>1. CASE i = 1
        BY <2>1
    <2>2. CASE i # 1
        <3>1. i-1 \in 1..Len(u) /\ (i-1)+1 = i
            BY <1>2, <2>2
        <3>2. u[i-1] = s[(i-1)+1]
            BY <1>2, <3>1
        <3> QED BY <1>2, <3>1, <3>2 DEF Members
    <2> QED BY <2>1, <2>2
<1>4. ASSUME NEW i \in 1..Len(u) PROVE u[i] \in Members(s)
    <2>1. i+1 \in 1..Len(s) /\ u[i] = s[i+1]
        BY <1>2
    <2> QED BY <2>1 DEF Members
<1>5. 1 \in 1..Len(s) /\ s[1] \in T
    BY <1>1
<1>6. Members(s) = {s[1]} \cup Members(u)
    <2>1. \A e \in Members(s) : e \in {s[1]} \cup Members(u)
        BY <1>3 DEF Members
    <2>2. \A e \in Members(u) : e \in Members(s)
        BY <1>2, <1>4 DEF Members
    <2>3. s[1] \in Members(s)
        BY <1>1, <1>5 DEF Members
    <2> QED BY <2>1, <2>2, <2>3
<1> QED BY <1>1, <1>5, <1>6 DEF u

\* Appending adds a member.
LEMMA MembersOfAppend ==
    ASSUME NEW T, NEW s \in Seq(T), NEW x \in T
    PROVE  Append(s, x) \in Seq(T) /\ Members(Append(s, x)) = Members(s) \cup {x}
<1> DEFINE t == Append(s, x)
<1>1. /\ t \in Seq(T) /\ Len(t) = Len(s) + 1 /\ t[Len(s)+1] = x
      /\ \A j \in 1..Len(s) : t[j] = s[j]
    BY AppendProperties
<1> HIDE DEF t
<1>2. Len(s) \in Nat /\ DOMAIN s = 1..Len(s) /\ DOMAIN t = 1..(Len(s)+1)
    BY <1>1
<1>3. Members(t) = Members(s) \cup {x}
    BY <1>1, <1>2 DEF Members
<1> QED BY <1>1, <1>3 DEF t

\* Joining two lists joins their members; two lists without repeats and
\* without a common member join to one without repeats.
LEMMA MembersOfJoin ==
    ASSUME NEW T, NEW s \in Seq(T), NEW u \in Seq(T)
    PROVE  /\ s \o u \in Seq(T) /\ Members(s \o u) = Members(s) \cup Members(u)
           /\ Distinct(s) /\ Distinct(u) /\ Members(s) \cap Members(u) = {} => Distinct(s \o u)
<1> DEFINE t == s \o u
<1>1. /\ t \in Seq(T) /\ Len(t) = Len(s) + Len(u)
      /\ \A i \in 1..(Len(s) + Len(u)) : t[i] = IF i <= Len(s) THEN s[i] ELSE u[i - Len(s)]
    BY ConcatProperties
<1> HIDE DEF t
<1>2. Len(s) \in Nat /\ Len(u) \in Nat
    OBVIOUS
<1>3. ASSUME NEW i \in 1..Len(s) PROVE i \in DOMAIN t /\ t[i] = s[i]
    BY <1>1, <1>2
<1>4. ASSUME NEW i \in 1..Len(u) PROVE Len(s)+i \in DOMAIN t /\ t[Len(s)+i] = u[i]
    <2>1. Len(s)+i \in 1..(Len(s) + Len(u)) /\ ~(Len(s)+i <= Len(s)) /\ (Len(s)+i) - Len(s) = i
        BY <1>2
    <2>2. t[Len(s)+i] = u[(Len(s)+i) - Len(s)]
        BY <1>1, <2>1
    <2> QED BY <1>1, <2>1, <2>2
<1>5. ASSUME NEW i \in DOMAIN t
      PROVE  \/ i \in 1..Len(s) /\ t[i] = s[i]
             \/ i - Len(s) \in 1..Len(u) /\ t[i] = u[i - Len(s)]
    BY <1>1, <1>2
<1>6. Members(t) = Members(s) \cup Members(u)
    <2>1. Members(s) \cup Members(u) \subseteq Members(t)
        BY <1>2, <1>3, <1>4 DEF Members
    <2>2. Members(t) \subseteq Members(s) \cup Members(u)
        BY <1>2, <1>5 DEF Members
    <2> QED BY <2>1, <2>2
<1>7. ASSUME Distinct(s), Distinct(u), Members(s) \cap Members(u) = {} PROVE Distinct(t)
    <2>1. ASSUME NEW i \in DOMAIN t, NEW j \in DOMAIN t, i # j PROVE t[i] # t[j]
        <3>1. i \in Nat /\ j \in Nat
            BY <1>1, <1>2
        <3>2. CASE i \in 1..Len(s) /\ t[i] = s[i] /\ j \in 1..Len(s) /\ t[j] = s[j]
            BY <1>7, <2>1, <3>2 DEF Distinct
        <3>3. CASE /\ i - Len(s) \in 1..Len(u) /\ t[i] = u[i - Len(s)]
                   /\ j - Len(s) \in 1..Len(u) /\ t[j] = u[j - Len(s)]
            <4>1. i - Len(s) # j - Len(s)
                BY <1>2, <2>1, <3>1
            <4> QED BY <1>7, <3>3, <4>1 DEF Distinct
        <3>4. CASE /\ i \in 1..Len(s) /\ t[i] = s[i]
                   /\ j - Len(s) \in 1..Len(u) /\ t[j] = u[j - Len(s)]
            BY <1>7, <3>4 DEF Members
        <3>5. CASE /\ j \in 1..Len(s) /\ t[j] = s[j]
                   /\ i - Len(s) \in 1..Len(u) /\ t[i] = u[i - Len(s)]
            BY <1>7, <3>5 DEF Members
        <3> QED BY <1>5, <2>1, <3>2, <3>3, <3>4, <3>5
    <2> QED BY <2>1 DEF Distinct
<1> QED BY <1>1, <1>6, <1>7 DEF t
-----------------------------------------------------------------------------
(***************************************************************************)
(* Frames that stay, and frames that are new                               *)
(***************************************************************************)
\* A frame is sound in the state after the step.
SoundAfter(f) == Sound(f, lane', current', watched', handled', scheduled')

\* What a lane's own frames say of the entries of the others.
LEMMA Elsewhere ==
    ASSUME LanesInv, stack # <<>>, Top.phase # "enter" \/ ~Draining(Lane)
    PROVE  \A i \in 2..Len(stack) :
              /\ stack[i].phase # "enter" => Head(stack[i].todo) # Lane
              /\ \A e \in Entries(stack[i]) : lane[e] # Lane
<1>1. Len(stack) \in Nat /\ Len(stack) # 0 /\ Top = stack[1] /\ DOMAIN stack = 1..Len(stack)
    BY DEF LanesInv, TypeOK, Top
<1> SUFFICES ASSUME NEW i \in 2..Len(stack)
             PROVE  /\ stack[i].phase # "enter" => Head(stack[i].todo) # Lane
                    /\ \A e \in Entries(stack[i]) : lane[e] # Lane
    OBVIOUS
<1>2. i \in DOMAIN stack /\ 1 \in DOMAIN stack /\ i # 1
    BY <1>1
<1>3. stack[i].phase # "enter" => Head(stack[i].todo) # Lane
    <2>1. CASE Top.phase # "enter"
        BY <1>1, <1>2, <2>1 DEF LanesInv, Apart, Lane
    <2>2. CASE ~Draining(Lane)
        BY <1>2, <2>2 DEF Draining
    <2> QED BY <2>1, <2>2
<1>4. Sound(stack[i], lane, current, watched, handled, scheduled)
    BY <1>2 DEF LanesInv, FramesSound
<1>5. stack[i].phase = "enter" => Entries(stack[i]) = {}
    BY <1>4 DEF Sound, Shaped, Entries, Members
<1>6. \A e \in Entries(stack[i]) : lane[e] = Head(stack[i].todo)
    BY <1>4 DEF Sound, Homed
<1> QED BY <1>3, <1>5, <1>6

\* The frames are sound after a call, ...
LEMMA SoundPush ==
    ASSUME stack \in Seq(Frames), stack' \in Seq(Frames), NEW f, IsPush(stack, f, stack'),
           SoundAfter(f), \A i \in 1..Len(stack) : SoundAfter(stack[i])
    PROVE  FramesSound'
<1>1. Len(stack) \in Nat /\ Len(stack') = Len(stack)+1 /\ DOMAIN stack' = 1..Len(stack')
    BY DEF IsPush
<1>2. ASSUME NEW i \in 1..Len(stack') PROVE SoundAfter(stack'[i])
    <2>1. CASE i = 1
        BY <2>1 DEF IsPush
    <2>2. CASE i # 1
        <3>1. i-1 \in 1..Len(stack) /\ (i-1)+1 = i
            BY <1>1, <2>2
        <3>2. stack'[(i-1)+1] = stack[i-1]
            BY <3>1 DEF IsPush
        <3> QED BY <3>1, <3>2
    <2> QED BY <2>1, <2>2
<1> QED BY <1>1, <1>2 DEF FramesSound, SoundAfter

\* ... after the top frame went on, ...
LEMMA SoundReplace ==
    ASSUME stack \in Seq(Frames), stack' \in Seq(Frames), NEW f, IsReplace(stack, f, stack'),
           SoundAfter(f), \A i \in 2..Len(stack) : SoundAfter(stack[i])
    PROVE  FramesSound'
<1>1. Len(stack) \in Nat /\ Len(stack') = Len(stack) /\ DOMAIN stack' = 1..Len(stack')
    BY DEF IsReplace
<1>2. ASSUME NEW i \in 1..Len(stack') PROVE SoundAfter(stack'[i])
    <2>1. CASE i = 1
        BY <2>1 DEF IsReplace
    <2>2. CASE i # 1
        <3>1. i \in 2..Len(stack)
            BY <1>1, <2>2
        <3> QED BY <3>1 DEF IsReplace
    <2> QED BY <2>1, <2>2
<1> QED BY <1>1, <1>2 DEF FramesSound, SoundAfter

\* ... and after it returned or was left by a throw.
LEMMA SoundPop ==
    ASSUME stack \in Seq(Frames), stack' \in Seq(Frames), IsPop(stack, stack'),
           \A i \in 2..Len(stack) : SoundAfter(stack[i])
    PROVE  FramesSound'
<1>1. Len(stack) \in Nat /\ Len(stack')+1 = Len(stack) /\ Len(stack') \in Nat
      /\ DOMAIN stack' = 1..Len(stack')
    BY DEF IsPop
<1>2. ASSUME NEW i \in 1..Len(stack') PROVE SoundAfter(stack'[i])
    <2>1. i+1 \in 2..Len(stack)
        BY <1>1
    <2>2. stack'[i] = stack[i+1]
        BY DEF IsPop
    <2> QED BY <2>1, <2>2
<1> QED BY <1>1, <1>2 DEF FramesSound, SoundAfter

\* A call enters no round.
LEMMA ApartPush ==
    ASSUME NEW s \in Seq(Frames), NEW t \in Seq(Frames), NEW f, IsPush(s, f, t),
           Apart(s), f.phase = "enter"
    PROVE  Apart(t)
<1>1. Len(s) \in Nat /\ Len(t) = Len(s)+1 /\ DOMAIN t = 1..Len(t) /\ DOMAIN s = 1..Len(s)
    BY DEF IsPush
<1>2. ASSUME NEW i \in DOMAIN t, t[i].phase # "enter"
      PROVE  i-1 \in DOMAIN s /\ t[i] = s[i-1]
    <2>1. i # 1
        BY <1>2 DEF IsPush
    <2>2. i-1 \in 1..Len(s) /\ (i-1)+1 = i
        BY <1>1, <2>1
    <2>3. t[(i-1)+1] = s[i-1]
        BY <2>2 DEF IsPush
    <2> QED BY <1>1, <2>2, <2>3
<1>3. ASSUME NEW i \in DOMAIN t, NEW j \in DOMAIN t, i # j,
             t[i].phase # "enter", t[j].phase # "enter"
      PROVE  Head(t[i].todo) # Head(t[j].todo)
    <2>1. i-1 \in DOMAIN s /\ j-1 \in DOMAIN s /\ t[i] = s[i-1] /\ t[j] = s[j-1]
        BY <1>2, <1>3
    <2>2. i-1 # j-1
        BY <1>1, <1>3
    <2> QED BY <1>3, <2>1, <2>2 DEF Apart
<1> QED BY <1>3 DEF Apart

\* The top frame enters no round, or one of a lane no other frame is in.
LEMMA ApartReplace ==
    ASSUME NEW s \in Seq(Frames), NEW t \in Seq(Frames), NEW f, IsReplace(s, f, t), Apart(s),
           \/ f.phase = "enter"
           \/ \A i \in 2..Len(s) : s[i].phase # "enter" => Head(s[i].todo) # Head(f.todo)
    PROVE  Apart(t)
<1>1. Len(s) \in Nat /\ Len(t) = Len(s) /\ DOMAIN t = 1..Len(t) /\ DOMAIN s = 1..Len(s)
    BY DEF IsReplace
<1>2. \A i \in 2..Len(s) : i \in DOMAIN s /\ t[i] = s[i]
    BY <1>1 DEF IsReplace
<1>3. ASSUME NEW i \in DOMAIN t, NEW j \in DOMAIN t, i # j,
             t[i].phase # "enter", t[j].phase # "enter"
      PROVE  Head(t[i].todo) # Head(t[j].todo)
    <2>1. CASE i = 1
        <3>1. t[i] = f /\ j \in 2..Len(s)
            BY <1>1, <1>3, <2>1 DEF IsReplace
        <3> QED BY <1>2, <1>3, <3>1
    <2>2. CASE j = 1
        <3>1. t[j] = f /\ i \in 2..Len(s)
            BY <1>1, <1>3, <2>2 DEF IsReplace
        <3> QED BY <1>2, <1>3, <3>1
    <2>3. CASE i # 1 /\ j # 1
        <3>1. i \in 2..Len(s) /\ j \in 2..Len(s)
            BY <1>1, <2>3
        <3> QED BY <1>2, <1>3, <3>1 DEF Apart
    <2> QED BY <2>1, <2>2, <2>3
<1> QED BY <1>3 DEF Apart

\* A return leaves the others as they were.
LEMMA ApartPop ==
    ASSUME NEW s \in Seq(Frames), NEW t \in Seq(Frames), IsPop(s, t), Apart(s)
    PROVE  Apart(t)
<1>1. Len(s) \in Nat /\ Len(t) \in Nat /\ Len(t)+1 = Len(s)
      /\ DOMAIN t = 1..Len(t) /\ DOMAIN s = 1..Len(s)
    BY DEF IsPop
<1>2. \A i \in DOMAIN t : i+1 \in DOMAIN s /\ t[i] = s[i+1]
    BY <1>1 DEF IsPop
<1>3. \A i, j \in DOMAIN t : i # j => i+1 # j+1
    BY <1>1
<1> QED BY <1>2, <1>3 DEF Apart
-----------------------------------------------------------------------------
(***************************************************************************)
(* The effects of the rounds under way, and those whose handler is owed    *)
(***************************************************************************)
Held(s, v) == UNION {Entries(s[i]) : i \in {j \in DOMAIN s : s[j].value = v}}

\* InARound is what the stack holds of the present value.
LEMMA HeldIsInARound == InARound = Held(stack, current)
BY DEF InARound, Held, Entries

\* A call takes nothing out of a round, ...
LEMMA HeldPush ==
    ASSUME NEW s \in Seq(Frames), NEW t \in Seq(Frames), NEW f, IsPush(s, f, t), NEW v
    PROVE  Held(s, v) \subseteq Held(t, v)
<1>1. Len(s) \in Nat /\ Len(t) = Len(s)+1 /\ DOMAIN t = 1..Len(t) /\ DOMAIN s = 1..Len(s)
    BY DEF IsPush
<1>2. \A i \in DOMAIN s : i+1 \in DOMAIN t /\ t[i+1] = s[i]
    BY <1>1 DEF IsPush
<1>3. ASSUME NEW e \in Held(s, v) PROVE e \in Held(t, v)
    <2>1. PICK i \in DOMAIN s : s[i].value = v /\ e \in Entries(s[i])
        BY <1>3 DEF Held
    <2>2. i+1 \in DOMAIN t /\ t[i+1].value = v /\ e \in Entries(t[i+1])
        BY <1>2, <2>1
    <2> QED BY <2>2 DEF Held
<1> QED BY <1>3

\* ... a frame that goes on only what it gives up itself, ...
LEMMA HeldReplace ==
    ASSUME NEW s \in Seq(Frames), NEW t \in Seq(Frames), s # <<>>, NEW f, IsReplace(s, f, t),
           NEW v, NEW e \in Held(s, v),
           s[1].value = v /\ e \in Entries(s[1]) => f.value = v /\ e \in Entries(f)
    PROVE  e \in Held(t, v)
<1>1. Len(s) \in Nat /\ Len(s) # 0 /\ Len(t) = Len(s)
      /\ DOMAIN t = 1..Len(t) /\ DOMAIN s = 1..Len(s)
    BY DEF IsReplace
<1>2. PICK i \in DOMAIN s : s[i].value = v /\ e \in Entries(s[i])
    BY DEF Held
<1>3. i \in DOMAIN t /\ t[i].value = v /\ e \in Entries(t[i])
    <2>1. CASE i = 1
        BY <1>1, <1>2, <2>1 DEF IsReplace
    <2>2. CASE i # 1
        <3>1. i \in 2..Len(s)
            BY <1>1, <2>2
        <3> QED BY <1>1, <1>2, <3>1 DEF IsReplace
    <2> QED BY <2>1, <2>2
<1> QED BY <1>3 DEF Held

\* ... and a return only what the frame held.
LEMMA HeldPop ==
    ASSUME NEW s \in Seq(Frames), NEW t \in Seq(Frames), IsPop(s, t),
           NEW v, NEW e \in Held(s, v), ~(s[1].value = v /\ e \in Entries(s[1]))
    PROVE  e \in Held(t, v)
<1>1. Len(s) \in Nat /\ Len(t) \in Nat /\ Len(t)+1 = Len(s)
      /\ DOMAIN t = 1..Len(t) /\ DOMAIN s = 1..Len(s)
    BY DEF IsPop
<1>2. PICK i \in DOMAIN s : s[i].value = v /\ e \in Entries(s[i])
    BY DEF Held
<1>3. i # 1
    BY <1>2
<1>4. i-1 \in DOMAIN t /\ (i-1)+1 = i
    BY <1>1, <1>3
<1>5. t[i-1] = s[(i-1)+1]
    BY <1>1, <1>4 DEF IsPop
<1>6. t[i-1].value = v /\ e \in Entries(t[i-1])
    BY <1>2, <1>4, <1>5
<1> QED BY <1>4, <1>6 DEF Held
-----------------------------------------------------------------------------
(***************************************************************************)
(* Steps that leave the queues alone                                       *)
(***************************************************************************)
\* What the invariant says of the top frame.
LEMMA TopFacts ==
    ASSUME LanesInv, stack # <<>>
    PROVE  /\ Top \in Frames /\ Top = stack[1] /\ Under \in Seq(Frames) /\ IsPop(stack, Under)
           /\ Len(stack) \in Nat /\ Len(stack) # 0 /\ DOMAIN stack = 1..Len(stack)
           /\ Sound(Top, lane, current, watched, handled, scheduled)
           /\ Lane \in Lanes /\ Len(Top.todo) \in Nat \ {0}
<1>1. stack \in Seq(Frames)
    BY DEF LanesInv, TypeOK
<1>2. Len(stack) \in Nat /\ Len(stack) # 0 /\ DOMAIN stack = 1..Len(stack) /\ Top = stack[1]
      /\ 1 \in DOMAIN stack
    BY <1>1 DEF Top
<1>3. Under \in Seq(Frames) /\ IsPop(stack, Under)
    BY <1>1, Popping DEF Under
<1>4. Top \in Frames
    BY <1>1, <1>2
<1>5. Sound(Top, lane, current, watched, handled, scheduled)
    BY <1>2 DEF LanesInv, FramesSound
<1>6. Top.todo \in Seq(Lanes) /\ Top.todo # <<>>
    BY <1>4, <1>5 DEF Frames, Sound, Shaped
<1>7. Lane \in Lanes /\ Len(Top.todo) \in Nat \ {0}
    BY <1>6 DEF Lane
<1> QED BY <1>2, <1>3, <1>4, <1>5, <1>7

\* A call that drains some lanes.
LEMMA CallKeeps ==
    ASSUME LanesInv, TypeOK', NEW lanes \in Seq(Lanes), lanes # <<>>, NEW react \in BOOLEAN,
           stack' = Call(lanes, react),
           UNCHANGED <<current, effects, scheduled, queue, dropped>>
    PROVE  LanesInv'
<1> DEFINE f == [todo |-> lanes, react |-> react, phase |-> "enter", value |-> current,
                 left |-> <<>>, kept |-> <<>>, busy |-> FALSE]
<1>1. stack \in Seq(Frames) /\ current \in Values
    BY DEF LanesInv, TypeOK
<1>2. f \in Frames
    BY <1>1 DEF Frames
<1>3. stack' = <<f>> \o stack
    BY DEF Call
<1>4. /\ f.todo = lanes /\ f.phase = "enter" /\ f.value = current
      /\ f.left = <<>> /\ f.kept = <<>> /\ f.busy = FALSE
    OBVIOUS
<1> HIDE DEF f
<1>5. stack' \in Seq(Frames) /\ IsPush(stack, f, stack')
    BY <1>1, <1>2, <1>3, Pushing
<1>6. Entries(f) = {}
    BY <1>4 DEF Entries, Members
<1>7. SoundAfter(f)
    BY <1>4, <1>6 DEF SoundAfter, Sound, Shaped, Homed, Requeued, Handed
<1>8. \A i \in 1..Len(stack) : SoundAfter(stack[i])
    BY <1>1 DEF SoundAfter, LanesInv, FramesSound, effects
<1>9. FramesSound'
    BY <1>1, <1>5, <1>7, <1>8, SoundPush
<1>10. Apart(stack')
    BY <1>1, <1>4, <1>5, ApartPush DEF LanesInv
<1>11. QueuedOnce'
    BY DEF LanesInv, QueuedOnce, effects
<1>12. NothingForgotten'
    <2>1. Held(stack, current) \subseteq Held(stack', current)
        BY <1>1, <1>5, HeldPush
    <2>2. InARound' = Held(stack', current') /\ InARound = Held(stack, current)
        BY HeldIsInARound DEF InARound, Held, Entries
    <2> QED BY <2>1, <2>2 DEF LanesInv, NothingForgotten, effects
<1> QED BY <1>9, <1>10, <1>11, <1>12 DEF LanesInv

\* A frame that goes on without touching the queues: whatever it gives up is
\* disposed, queued again or has the value of its pull.
LEMMA GoesOn ==
    ASSUME LanesInv, TypeOK', stack # <<>>, NEW f \in Frames, stack' = <<f>> \o Under,
           UNCHANGED <<current, lane, watched, handled, scheduled, queue, dropped>>,
           Sound(f, lane, current, watched, handled, scheduled),
           f.phase = "enter" \/ (Top.phase # "enter" /\ Head(f.todo) = Lane),
           f.value = Top.value,
           \A e \in Entries(Top) \ Entries(f) :
               e \in watched => e \in scheduled \/ handled[e] = Top.value
    PROVE  LanesInv'
<1>1. stack \in Seq(Frames) /\ Top = stack[1] /\ DOMAIN stack = 1..Len(stack) /\ Len(stack) \in Nat
    BY TopFacts DEF LanesInv, TypeOK
<1>2. stack' \in Seq(Frames) /\ IsReplace(stack, f, stack')
    BY <1>1, Replacing DEF Under
<1>3. FramesSound'
    <2>1. SoundAfter(f)
        BY DEF SoundAfter
    <2>2. \A i \in 2..Len(stack) : SoundAfter(stack[i])
        BY <1>1 DEF SoundAfter, LanesInv, FramesSound
    <2> QED BY <1>1, <1>2, <2>1, <2>2, SoundReplace
<1>4. Apart(stack')
    <2>1. \/ f.phase = "enter"
          \/ \A i \in 2..Len(stack) : stack[i].phase # "enter" => Head(stack[i].todo) # Head(f.todo)
        BY Elsewhere
    <2> QED BY <1>1, <1>2, <2>1, ApartReplace DEF LanesInv
<1>5. QueuedOnce'
    BY DEF LanesInv, QueuedOnce
<1>6. ASSUME NEW e \in watched', handled'[e] # current'
      PROVE  e \in scheduled' \cup dropped' \cup InARound'
    <2>1. e \in scheduled \cup dropped \cup InARound
        BY <1>6 DEF LanesInv, NothingForgotten
    <2>2. InARound' = Held(stack', current) /\ InARound = Held(stack, current)
        BY HeldIsInARound DEF InARound, Held, Entries
    <2>3. ASSUME e \in Held(stack, current), e \notin scheduled
          PROVE  e \in Held(stack', current)
        <3>1. stack[1].value = current /\ e \in Entries(stack[1]) =>
                  f.value = current /\ e \in Entries(f)
            BY <1>1, <1>6, <2>3
        <3> QED BY <1>1, <1>2, <2>3, <3>1, HeldReplace
    <2> QED BY <2>1, <2>2, <2>3
<1>7. NothingForgotten'
    BY <1>6 DEF NothingForgotten
<1> QED BY <1>3, <1>4, <1>5, <1>7 DEF LanesInv

\* A drain that leaves its lane.
LEMMA LeaveLaneStep ==
    ASSUME LanesInv, leaveLane
    PROVE  LanesInv'
<1>1. /\ stack # <<>> /\ stack' = LeftLane /\ Top.phase \in {"enter", "pull"}
      /\ UNCHANGED <<current, effects, scheduled, queue, pumps, hosts, writes, dropped>>
    BY DEF leaveLane
<1>2. /\ Top \in Frames /\ Under \in Seq(Frames) /\ IsPop(stack, Under) /\ Top = stack[1]
      /\ DOMAIN stack = 1..Len(stack) /\ Len(Top.todo) \in Nat \ {0}
      /\ Sound(Top, lane, current, watched, handled, scheduled)
    BY <1>1, TopFacts
<1>3. Top.left = <<>> /\ Top.kept = <<>> /\ Entries(Top) = {} /\ ~Top.busy
    BY <1>1, <1>2 DEF Sound, Shaped, Entries, Members
<1>4. CASE Len(Top.todo) = 1
    <2>1. stack' = Under
        BY <1>1, <1>4 DEF LeftLane
    <2>2. TypeOK'
        BY <1>1, <1>2, <2>1 DEF LanesInv, TypeOK, effects, pumps, hosts
    <2>3. stack \in Seq(Frames) /\ stack' \in Seq(Frames) /\ IsPop(stack, stack')
        BY <1>2, <2>1 DEF LanesInv, TypeOK
    <2>4. FramesSound'
        <3>1. \A i \in 2..Len(stack) : SoundAfter(stack[i])
            BY <1>1, <1>2 DEF SoundAfter, LanesInv, FramesSound, effects
        <3> QED BY <2>3, <3>1, SoundPop
    <2>5. Apart(stack')
        BY <2>3, ApartPop DEF LanesInv
    <2>6. NothingForgotten'
        <3>1. InARound' = Held(stack', current') /\ InARound = Held(stack, current)
            BY HeldIsInARound DEF InARound, Held, Entries
        <3>2. \A e \in Held(stack, current) : e \in Held(stack', current)
            BY <1>2, <1>3, <2>3, HeldPop
        <3> QED BY <1>1, <3>1, <3>2 DEF LanesInv, NothingForgotten, effects
    <2> QED BY <1>1, <2>2, <2>4, <2>5, <2>6 DEF LanesInv, QueuedOnce, effects
<1>5. CASE Len(Top.todo) # 1
    <2> DEFINE f == [Top EXCEPT !.todo = Tail(@), !.phase = "enter"]
    <2>1. stack' = <<f>> \o Under
        BY <1>1, <1>5 DEF LeftLane
    <2>2. Top.todo \in Seq(Lanes)
        BY <1>2 DEF Frames
    <2>3. Tail(Top.todo) \in Seq(Lanes) /\ Tail(Top.todo) # <<>>
        <3>1. Tail(Top.todo) \in Seq(Lanes) /\ Len(Tail(Top.todo)) + 1 = Len(Top.todo)
            BY <1>2, <2>2, Popping DEF IsPop
        <3> DEFINE u == Tail(Top.todo)
                   n == Len(Top.todo)
        <3> HIDE DEF u, n
        <3>2. u \in Seq(Lanes) /\ Len(u) + 1 = n /\ n \in Nat \ {0} /\ n # 1
            BY <1>2, <1>5, <3>1 DEF u, n
        <3>3. Len(u) # 0
            BY <3>2
        <3>4. u # <<>>
            BY <3>2, <3>3
        <3> QED BY <3>2, <3>4 DEF u
    <2>4. f \in Frames
        BY <1>2, <2>3 DEF Frames
    <2>5. /\ f.todo = Tail(Top.todo) /\ f.phase = "enter" /\ f.value = Top.value
          /\ f.left = Top.left /\ f.kept = Top.kept /\ f.busy = Top.busy
        BY <1>2 DEF Frames
    <2> HIDE DEF f
    <2>6. Entries(f) = {}
        BY <1>3, <2>5 DEF Entries
    <2>7. Sound(f, lane, current, watched, handled, scheduled)
        BY <1>3, <2>3, <2>5, <2>6 DEF Sound, Shaped, Homed, Requeued, Handed
    <2>8. TypeOK'
        <3>1. stack' \in Seq(Frames)
            BY <1>2, <2>1, <2>4, Pushing
        <3> QED BY <1>1, <3>1 DEF LanesInv, TypeOK, effects, pumps, hosts
    <2> QED BY <1>1, <1>3, <2>1, <2>4, <2>5, <2>7, <2>8, GoesOn DEF effects
<1> QED BY <1>4, <1>5

\* The first of the entries left, and the rest.
LEMMA EntryFacts ==
    ASSUME LanesInv, stack # <<>>, Top.left # <<>>
    PROVE  /\ Top.left \in Seq(Effects) /\ Top.kept \in Seq(Effects) /\ Entry \in Effects
           /\ Tail(Top.left) \in Seq(Effects)
           /\ Members(Top.left) = {Entry} \cup Members(Tail(Top.left))
           /\ Entry \in Entries(Top) /\ lane[Entry] = Lane
           /\ Top.phase \in {"cleanup", "run"}
<1>1. Top \in Frames /\ Sound(Top, lane, current, watched, handled, scheduled)
    BY TopFacts
<1>2. Top.left \in Seq(Effects) /\ Top.kept \in Seq(Effects)
      /\ Top.phase \in {"enter", "pull", "cleanup", "run"}
    BY <1>1 DEF Frames
<1>3. Entry \in Effects /\ Tail(Top.left) \in Seq(Effects)
      /\ Members(Top.left) = {Entry} \cup Members(Tail(Top.left))
    BY <1>2, MembersOfTail DEF Entry
<1>4. Entry \in Entries(Top)
    BY <1>3 DEF Entries
<1>5. lane[Entry] = Lane
    BY <1>1, <1>4 DEF Sound, Homed, Lane
<1>6. Top.phase \in {"cleanup", "run"}
    BY <1>1, <1>2 DEF Sound, Shaped
<1> QED BY <1>2, <1>3, <1>4, <1>5, <1>6

\* An entry that is skipped.
LEMMA SkipEntryStep ==
    ASSUME LanesInv, skipEntry
    PROVE  LanesInv'
<1> DEFINE f == [Top EXCEPT !.left = Tail(@)]
<1>1. /\ stack # <<>> /\ Top.left # <<>> /\ stack' = <<f>> \o Under
      /\ Entry \in scheduled \/ Entry \notin watched
      /\ UNCHANGED <<current, effects, scheduled, queue, pumps, hosts, writes, dropped>>
    BY DEF skipEntry, Between, runs
<1>2. ~Top.busy
    BY DEF skipEntry, Between
<1>3. /\ Top \in Frames /\ Under \in Seq(Frames)
      /\ Sound(Top, lane, current, watched, handled, scheduled)
    BY <1>1, TopFacts
<1>4. /\ Top.left \in Seq(Effects) /\ Tail(Top.left) \in Seq(Effects)
      /\ Members(Top.left) = {Entry} \cup Members(Tail(Top.left))
      /\ Top.phase \in {"cleanup", "run"}
    BY <1>1, EntryFacts
<1>5. f \in Frames
    BY <1>3, <1>4 DEF Frames
<1>6. /\ f.todo = Top.todo /\ f.phase = Top.phase /\ f.value = Top.value
      /\ f.left = Tail(Top.left) /\ f.kept = Top.kept /\ f.busy = Top.busy
    BY <1>3 DEF Frames
<1> HIDE DEF f
<1>7. Entries(Top) = {Entry} \cup Entries(f) /\ Entries(f) \subseteq Entries(Top)
    BY <1>4, <1>6 DEF Entries
<1>8. Sound(f, lane, current, watched, handled, scheduled)
    <2>1. Shaped(f)
        BY <1>2, <1>3, <1>4, <1>6 DEF Sound, Shaped
    <2>2. Homed(f, lane) /\ Requeued(f, current, watched, scheduled)
        BY <1>3, <1>6, <1>7 DEF Sound, Homed, Requeued
    <2>3. Handed(f, watched, handled, scheduled)
        BY <1>2, <1>6 DEF Handed
    <2> QED BY <2>1, <2>2, <2>3 DEF Sound
<1>9. TypeOK'
    <2>1. stack' \in Seq(Frames)
        BY <1>1, <1>3, <1>5, Pushing
    <2> QED BY <1>1, <2>1 DEF LanesInv, TypeOK, effects, pumps, hosts
<1>10. Top.phase # "enter" /\ Head(f.todo) = Lane
    BY <1>4, <1>6 DEF Lane
<1> QED BY <1>1, <1>5, <1>6, <1>7, <1>8, <1>9, <1>10, GoesOn DEF effects

\* An entry whose cleanup runs, or that has none.
LEMMA CleanupStep ==
    ASSUME LanesInv, runEffectCleanup
    PROVE  LanesInv'
<1>1. /\ stack # <<>> /\ Top.left # <<>> /\ Top.phase = "cleanup"
      /\ cleanup' = cleanup \ {Entry}
      /\ UNCHANGED <<current, lane, watched, handled, scheduled, queue, pumps, hosts, writes, dropped>>
    BY DEF runEffectCleanup, Between
<1>2. ~Top.busy
    BY DEF runEffectCleanup, Between
<1>3. /\ Top \in Frames /\ Under \in Seq(Frames)
      /\ Sound(Top, lane, current, watched, handled, scheduled)
    BY <1>1, TopFacts
<1>4. /\ Top.left \in Seq(Effects) /\ Top.kept \in Seq(Effects) /\ Entry \in Effects
      /\ Tail(Top.left) \in Seq(Effects)
      /\ Members(Top.left) = {Entry} \cup Members(Tail(Top.left))
    BY <1>1, EntryFacts
<1>5. CASE Entry \in cleanup
    <2> DEFINE f == [Top EXCEPT !.busy = TRUE]
    <2>1. stack' = <<f>> \o Under
        BY <1>5 DEF runEffectCleanup
    <2>2. f \in Frames
        BY <1>3 DEF Frames
    <2>3. /\ f.todo = Top.todo /\ f.phase = Top.phase /\ f.value = Top.value
          /\ f.left = Top.left /\ f.kept = Top.kept
        BY <1>3 DEF Frames
    <2> HIDE DEF f
    <2>4. Entries(f) = Entries(Top)
        BY <2>3 DEF Entries
    <2>5. Sound(f, lane, current, watched, handled, scheduled)
        BY <1>1, <1>3, <2>3, <2>4 DEF Sound, Shaped, Homed, Requeued, Handed
    <2>6. TypeOK'
        <3>1. stack' \in Seq(Frames)
            BY <1>3, <2>1, <2>2, Pushing
        <3> QED BY <1>1, <3>1 DEF LanesInv, TypeOK, pumps, hosts
    <2>7. Top.phase # "enter" /\ Head(f.todo) = Lane
        BY <1>1, <2>3 DEF Lane
    <2> QED BY <1>1, <2>1, <2>2, <2>3, <2>4, <2>5, <2>6, <2>7, GoesOn
<1>6. CASE Entry \notin cleanup
    <2> DEFINE f == [Top EXCEPT !.left = Tail(@), !.kept = Append(@, Entry)]
    <2>1. stack' = <<f>> \o Under
        BY <1>6 DEF runEffectCleanup
    <2>2. f \in Frames
        <3>1. Append(Top.kept, Entry) \in Seq(Effects)
            BY <1>4, MembersOfAppend
        <3> QED BY <1>3, <1>4, <3>1 DEF Frames
    <2>3. /\ f.todo = Top.todo /\ f.phase = Top.phase /\ f.value = Top.value /\ f.busy = Top.busy
          /\ f.left = Tail(Top.left) /\ f.kept = Append(Top.kept, Entry)
        BY <1>3 DEF Frames
    <2> HIDE DEF f
    <2>4. Entries(f) = Entries(Top)
        <3>1. Members(f.kept) = Members(Top.kept) \cup {Entry}
            BY <1>4, <2>3, MembersOfAppend
        <3> QED BY <1>4, <2>3, <3>1 DEF Entries
    <2>5. Sound(f, lane, current, watched, handled, scheduled)
        BY <1>1, <1>2, <1>3, <2>3, <2>4 DEF Sound, Shaped, Homed, Requeued, Handed
    <2>6. TypeOK'
        <3>1. stack' \in Seq(Frames)
            BY <1>3, <2>1, <2>2, Pushing
        <3> QED BY <1>1, <3>1 DEF LanesInv, TypeOK, pumps, hosts
    <2>7. Top.phase # "enter" /\ Head(f.todo) = Lane
        BY <1>1, <2>3 DEF Lane
    <2> QED BY <1>1, <2>1, <2>2, <2>3, <2>4, <2>5, <2>6, <2>7, GoesOn
<1> QED BY <1>5, <1>6

\* A callback that returns.
LEMMA ReturnStep ==
    ASSUME LanesInv, callbackReturns
    PROVE  LanesInv'
<1>1. /\ stack # <<>> /\ cleanup' \subseteq Effects
      /\ UNCHANGED <<current, lane, watched, handled, scheduled, queue, pumps, hosts, writes, dropped>>
    <2>1. stack # <<>> /\ Top.busy
        BY DEF callbackReturns, InCallback
    <2>2. Top.left # <<>>
        BY <2>1, TopFacts DEF Sound, Shaped
    <2>3. Entry \in Effects /\ Top.phase \in {"cleanup", "run"}
        BY <2>1, <2>2, EntryFacts
    <2> QED BY <2>1, <2>3 DEF callbackReturns, LanesInv, TypeOK
<1>2. Top.busy
    BY DEF callbackReturns, InCallback
<1>3. /\ Top \in Frames /\ Under \in Seq(Frames)
      /\ Sound(Top, lane, current, watched, handled, scheduled)
    BY <1>1, TopFacts
<1>4. Top.left # <<>>
    BY <1>2, <1>3 DEF Sound, Shaped
<1>5. /\ Top.left \in Seq(Effects) /\ Top.kept \in Seq(Effects) /\ Entry \in Effects
      /\ Tail(Top.left) \in Seq(Effects)
      /\ Members(Top.left) = {Entry} \cup Members(Tail(Top.left))
      /\ Top.phase \in {"cleanup", "run"}
    BY <1>1, <1>4, EntryFacts
<1>6. CASE Top.phase = "cleanup"
    <2> DEFINE f == [Top EXCEPT !.busy = FALSE, !.left = Tail(@), !.kept = Append(@, Entry)]
    <2>1. stack' = <<f>> \o Under
        BY <1>6 DEF callbackReturns
    <2>2. f \in Frames
        <3>1. Append(Top.kept, Entry) \in Seq(Effects)
            BY <1>5, MembersOfAppend
        <3> QED BY <1>3, <1>5, <3>1 DEF Frames
    <2>3. /\ f.todo = Top.todo /\ f.phase = Top.phase /\ f.value = Top.value
          /\ f.left = Tail(Top.left) /\ f.kept = Append(Top.kept, Entry)
        BY <1>3 DEF Frames
    <2>30. ~f.busy
        BY <1>3 DEF Frames
    <2> HIDE DEF f
    <2>4. Entries(f) = Entries(Top)
        <3>1. Members(f.kept) = Members(Top.kept) \cup {Entry}
            BY <1>5, <2>3, MembersOfAppend
        <3> QED BY <1>5, <2>3, <3>1 DEF Entries
    <2>5. Sound(f, lane, current, watched, handled, scheduled)
        BY <1>6, <1>3, <2>3, <2>30, <2>4 DEF Sound, Shaped, Homed, Requeued, Handed
    <2>6. TypeOK'
        <3>1. stack' \in Seq(Frames)
            BY <1>3, <2>1, <2>2, Pushing
        <3> QED BY <1>1, <3>1 DEF LanesInv, TypeOK, pumps, hosts
    <2>7. Top.phase # "enter" /\ Head(f.todo) = Lane
        BY <1>6, <2>3 DEF Lane
    <2> QED BY <1>1, <2>1, <2>2, <2>3, <2>4, <2>5, <2>6, <2>7, GoesOn
<1>7. CASE Top.phase = "run"
    <2> DEFINE f == [Top EXCEPT !.busy = FALSE, !.left = Tail(@)]
    <2>1. stack' = <<f>> \o Under
        BY <1>7 DEF callbackReturns
    <2>2. f \in Frames
        BY <1>3, <1>5 DEF Frames
    <2>3. /\ f.todo = Top.todo /\ f.phase = Top.phase /\ f.value = Top.value
          /\ f.left = Tail(Top.left) /\ f.kept = Top.kept
        BY <1>3 DEF Frames
    <2>30. ~f.busy
        BY <1>3 DEF Frames
    <2> HIDE DEF f
    <2>4. Entries(Top) = {Entry} \cup Entries(f) /\ Entries(f) \subseteq Entries(Top)
        BY <1>5, <2>3 DEF Entries
    <2>5. Sound(f, lane, current, watched, handled, scheduled)
        BY <1>7, <1>3, <2>3, <2>30, <2>4 DEF Sound, Shaped, Homed, Requeued, Handed
    <2>6. TypeOK'
        <3>1. stack' \in Seq(Frames)
            BY <1>3, <2>1, <2>2, Pushing
        <3> QED BY <1>1, <3>1 DEF LanesInv, TypeOK, pumps, hosts
    <2>7. Top.phase # "enter" /\ Head(f.todo) = Lane
        BY <1>7, <2>3 DEF Lane
    <2>8. Entry \in watched => Entry \in scheduled \/ handled[Entry] = Top.value
        BY <1>2, <1>3, <1>7 DEF Sound, Handed, Entry
    <2> QED BY <1>1, <2>1, <2>2, <2>3, <2>4, <2>5, <2>6, <2>7, <2>8, GoesOn
<1> QED BY <1>5, <1>6, <1>7

\* The end of phase 2a, or of a round.
LEMMA NextPhaseStep ==
    ASSUME LanesInv, nextPhase
    PROVE  LanesInv'
<1> DEFINE f == [Top EXCEPT !.left = Top.kept, !.kept = <<>>,
                            !.phase = IF @ = "cleanup" THEN "run" ELSE "pull"]
<1>1. /\ stack # <<>> /\ Top.phase \in {"cleanup", "run"} /\ Top.left = <<>>
      /\ stack' = <<f>> \o Under
      /\ UNCHANGED <<current, effects, scheduled, queue, pumps, hosts, writes, dropped>>
    BY DEF nextPhase
<1>2. /\ Top \in Frames /\ Under \in Seq(Frames)
      /\ Sound(Top, lane, current, watched, handled, scheduled)
    BY <1>1, TopFacts
<1>3. ~Top.busy /\ (Top.phase = "run" => Top.kept = <<>>)
    BY <1>1, <1>2 DEF Sound, Shaped
<1>4. f \in Frames
    <2>1. Top.kept \in Seq(Effects) /\ <<>> \in Seq(Effects)
        BY <1>2 DEF Frames
    <2>2. (IF Top.phase = "cleanup" THEN "run" ELSE "pull") \in {"enter", "pull", "cleanup", "run"}
        OBVIOUS
    <2> QED BY <1>2, <2>1, <2>2 DEF Frames
<1>5. /\ f.todo = Top.todo /\ f.value = Top.value /\ f.left = Top.kept /\ f.kept = <<>>
      /\ f.phase = (IF Top.phase = "cleanup" THEN "run" ELSE "pull") /\ f.busy = Top.busy
    BY <1>2 DEF Frames
<1> HIDE DEF f
<1>6. Entries(f) = Entries(Top)
    BY <1>1, <1>5 DEF Entries, Members
<1>7. Sound(f, lane, current, watched, handled, scheduled)
    <2>1. Shaped(f)
        BY <1>1, <1>2, <1>3, <1>5 DEF Sound, Shaped
    <2>2. Homed(f, lane) /\ Requeued(f, current, watched, scheduled)
        BY <1>2, <1>5, <1>6 DEF Sound, Homed, Requeued
    <2>3. Handed(f, watched, handled, scheduled)
        BY <1>3, <1>5 DEF Handed
    <2> QED BY <2>1, <2>2, <2>3 DEF Sound
<1>8. TypeOK'
    <2>1. stack' \in Seq(Frames)
        BY <1>1, <1>2, <1>4, Pushing
    <2> QED BY <1>1, <2>1 DEF LanesInv, TypeOK, effects, pumps, hosts
<1>9. Top.phase # "enter" /\ Head(f.todo) = Lane
    BY <1>1, <1>5 DEF Lane
<1> QED BY <1>1, <1>4, <1>5, <1>6, <1>7, <1>8, <1>9, GoesOn DEF effects

\* A handler that starts: the entry has the value of its pull.
LEMMA RunHandlerStep ==
    ASSUME LanesInv, runHandler
    PROVE  LanesInv'
<1> DEFINE f == [Top EXCEPT !.busy = TRUE]
<1>1. /\ stack # <<>> /\ Top.left # <<>> /\ Top.phase = "run" /\ stack' = <<f>> \o Under
      /\ handled' = [handled EXCEPT ![Entry] = Top.value]
      /\ UNCHANGED <<current, lane, watched, cleanup, scheduled, queue, pumps, hosts, writes, dropped>>
    BY DEF runHandler, Between
<1>2. Entry \in watched
    BY DEF runHandler, runs
<1>3. /\ Top \in Frames /\ Top = stack[1] /\ Under \in Seq(Frames)
      /\ DOMAIN stack = 1..Len(stack) /\ Len(stack) \in Nat
      /\ Sound(Top, lane, current, watched, handled, scheduled)
    BY <1>1, TopFacts
<1>4. /\ Top.left \in Seq(Effects) /\ Entry \in Effects /\ Entry \in Entries(Top)
      /\ lane[Entry] = Lane
    BY <1>1, EntryFacts
<1>5. f \in Frames
    BY <1>3 DEF Frames
<1>6. /\ f.todo = Top.todo /\ f.phase = Top.phase /\ f.value = Top.value
      /\ f.left = Top.left /\ f.kept = Top.kept
    BY <1>3 DEF Frames
<1>7. Top.value \in Values
    BY <1>3 DEF Frames
<1> HIDE DEF f
<1>8. Entries(f) = Entries(Top)
    BY <1>6 DEF Entries
<1>9. stack \in Seq(Frames) /\ stack' \in Seq(Frames) /\ IsReplace(stack, f, stack')
    BY <1>1, <1>5, Replacing DEF LanesInv, TypeOK, Under
<1>10. /\ handled' \in [Effects -> Values] /\ handled'[Entry] = Top.value
       /\ \A e \in Effects \ {Entry} : handled'[e] = handled[e]
    BY <1>1, <1>4, <1>7 DEF LanesInv, TypeOK
<1>11. TypeOK'
    BY <1>1, <1>9, <1>10 DEF LanesInv, TypeOK, pumps, hosts
<1>12. FramesSound'
    <2>1. SoundAfter(f)
        <3>1. Shaped(f) /\ Homed(f, lane') /\ Requeued(f, current', watched', scheduled')
            BY <1>1, <1>3, <1>6, <1>8 DEF Sound, Shaped, Homed, Requeued
        <3>2. Handed(f, watched', handled', scheduled')
            BY <1>6, <1>10 DEF Handed, Entry
        <3> QED BY <3>1, <3>2 DEF SoundAfter, Sound
    <2>2. ASSUME NEW i \in 2..Len(stack) PROVE SoundAfter(stack[i])
        <3>1. i \in DOMAIN stack /\ stack[i] \in Frames
              /\ Sound(stack[i], lane, current, watched, handled, scheduled)
            BY <1>3, <1>9 DEF LanesInv, FramesSound
        <3>2. \A e \in Entries(stack[i]) : lane[e] # Lane
            BY <1>1, Elsewhere
        <3>3. ASSUME stack[i].busy PROVE Head(stack[i].left) \in Effects \ {Entry}
            <4>1. stack[i].left # <<>> /\ stack[i].left \in Seq(Effects)
                BY <3>1, <3>3 DEF Sound, Shaped, Frames
            <4>2. Head(stack[i].left) \in Effects /\ Head(stack[i].left) \in Members(stack[i].left)
                BY <4>1, MembersOfTail
            <4>3. Head(stack[i].left) \in Entries(stack[i])
                BY <4>2 DEF Entries
            <4> QED BY <1>4, <3>2, <4>2, <4>3
        <3>4. Handed(stack[i], watched', handled', scheduled')
            BY <1>1, <1>10, <3>1, <3>3 DEF Sound, Handed
        <3> QED BY <1>1, <3>1, <3>4 DEF SoundAfter, Sound
    <2> QED BY <1>9, <2>1, <2>2, SoundReplace
<1>13. Apart(stack')
    <2>1. \A i \in 2..Len(stack) : stack[i].phase # "enter" => Head(stack[i].todo) # Head(f.todo)
        BY <1>1, <1>6, Elsewhere DEF Lane
    <2> QED BY <1>9, <2>1, ApartReplace DEF LanesInv
<1>14. QueuedOnce'
    BY <1>1 DEF LanesInv, QueuedOnce
<1>15. ASSUME NEW e \in watched', handled'[e] # current', e \notin scheduled' \cup dropped'
       PROVE  e \in InARound'
    <2>1. e \in Effects /\ e \in watched
        BY <1>1, <1>15 DEF LanesInv, TypeOK
    <2>2. CASE e # Entry
        <3>1. handled[e] # current
            BY <1>1, <1>10, <1>15, <2>1, <2>2
        <3>2. e \in InARound
            BY <1>1, <1>15, <2>1, <3>1 DEF LanesInv, NothingForgotten
        <3>3. InARound' = Held(stack', current') /\ InARound = Held(stack, current)
            BY HeldIsInARound DEF InARound, Held, Entries
        <3>4. e \in Held(stack', current)
            BY <1>1, <1>3, <1>6, <1>8, <1>9, <3>2, <3>3, HeldReplace
        <3> QED BY <1>1, <3>3, <3>4
    <2>3. CASE e = Entry
        <3>1. Top.value # current
            BY <1>1, <1>10, <1>15, <2>3
        <3>2. e \in scheduled
            BY <1>3, <1>4, <2>1, <2>3, <3>1 DEF Sound, Requeued
        <3> QED BY <1>1, <1>15, <3>2
    <2> QED BY <2>2, <2>3
<1>16. NothingForgotten'
    BY <1>15 DEF NothingForgotten
<1> QED BY <1>11, <1>12, <1>13, <1>14, <1>16 DEF LanesInv
-----------------------------------------------------------------------------
(***************************************************************************)
(* Steps that change the queues                                            *)
(***************************************************************************)
\* What QueuedOnce says, by effect.
LEMMA QueuedIsScheduled ==
    ASSUME LanesInv
    PROVE  \A l \in Lanes :
              /\ Members(queue[l]) \subseteq Effects
              /\ \A e \in Effects : e \in Members(queue[l]) <=> e \in scheduled /\ lane[e] = l
<1> SUFFICES ASSUME NEW l \in Lanes
             PROVE  /\ Members(queue[l]) \subseteq Effects
                    /\ \A e \in Effects : e \in Members(queue[l]) <=> e \in scheduled /\ lane[e] = l
    OBVIOUS
<1>1. queue[l] \in Seq(Effects)
    BY DEF LanesInv, TypeOK
<1>2. Members(queue[l]) \subseteq Effects
    BY <1>1 DEF Members
<1>3. ASSUME NEW e \in Effects
      PROVE  e \in Members(queue[l]) <=> e \in scheduled /\ lane[e] = l
    <2> DEFINE at == {k \in Lanes : e \in Members(queue[k])}
    <2>1. at = IF e \in scheduled THEN {lane[e]} ELSE {}
        BY DEF LanesInv, QueuedOnce
    <2>2. e \in Members(queue[l]) <=> l \in at
        OBVIOUS
    <2> QED BY <2>1, <2>2
<1> QED BY <1>2, <1>3

\* And back: it holds when it holds by effect.
LEMMA ScheduledIsQueued ==
    ASSUME NEW q, NEW marked, NEW at \in [Effects -> Lanes],
           \A l \in Lanes : \A e \in Effects :
               e \in Members(q[l]) <=> e \in marked /\ at[e] = l
    PROVE  \A e \in Effects :
              {l \in Lanes : e \in Members(q[l])} = IF e \in marked THEN {at[e]} ELSE {}
<1> SUFFICES ASSUME NEW e \in Effects
             PROVE  {l \in Lanes : e \in Members(q[l])} = IF e \in marked THEN {at[e]} ELSE {}
    OBVIOUS
<1>1. at[e] \in Lanes
    OBVIOUS
<1>2. CASE e \in marked
    BY <1>1, <1>2
<1>3. CASE e \notin marked
    BY <1>3
<1> QED BY <1>2, <1>3

\* A round is pulled: its lane is emptied, and what survives is in the round.
LEMMA PullRoundStep ==
    ASSUME LanesInv, pullRound
    PROVE  LanesInv'
<1> DEFINE f == [Top EXCEPT !.phase = "cleanup", !.value = current,
                            !.left = Only(queue[Lane], survivors)]
<1>1. /\ stack # <<>> /\ stack' = <<f>> \o Under
      /\ Top.phase = "pull" \/ (Top.phase = "enter" /\ ~Draining(Lane))
      /\ scheduled' = scheduled \ Members(queue[Lane])
      /\ queue' = [queue EXCEPT ![Lane] = <<>>]
      /\ UNCHANGED <<current, effects, pumps, hosts, writes, dropped>>
    BY DEF pullRound, AtRound
<1>2. /\ Top \in Frames /\ Top = stack[1] /\ Under \in Seq(Frames)
      /\ DOMAIN stack = 1..Len(stack) /\ Len(stack) \in Nat /\ Lane \in Lanes
      /\ Sound(Top, lane, current, watched, handled, scheduled)
    BY <1>1, TopFacts
<1>3. /\ queue \in [Lanes -> Seq(Effects)] /\ queue[Lane] \in Seq(Effects)
      /\ current \in Values /\ lane \in [Effects -> Lanes]
    BY <1>2 DEF LanesInv, TypeOK
<1>4. /\ Only(queue[Lane], survivors) \in Seq(Effects)
      /\ Members(Only(queue[Lane], survivors)) = Members(queue[Lane]) \cap survivors
    BY <1>3, OnlyKeeps
<1>5. f \in Frames
    BY <1>2, <1>3, <1>4 DEF Frames
<1>6. /\ f.todo = Top.todo /\ f.phase = "cleanup" /\ f.value = current
      /\ f.left = Only(queue[Lane], survivors) /\ f.kept = Top.kept /\ f.busy = Top.busy
    BY <1>2 DEF Frames
<1> HIDE DEF f
<1>7. Top.kept = <<>> /\ ~Top.busy /\ Entries(Top) = {}
    BY <1>1, <1>2 DEF Sound, Shaped, Entries, Members
<1>8. Entries(f) = Members(queue[Lane]) \cap survivors
    BY <1>4, <1>6, <1>7 DEF Entries, Members
<1>9. stack \in Seq(Frames) /\ stack' \in Seq(Frames) /\ IsReplace(stack, f, stack')
    BY <1>1, <1>5, Replacing DEF LanesInv, TypeOK, Under
<1>10. /\ queue' \in [Lanes -> Seq(Effects)] /\ queue'[Lane] = <<>>
       /\ \A l \in Lanes \ {Lane} : queue'[l] = queue[l]
    BY <1>1, <1>2, <1>3
<1>11. TypeOK'
    BY <1>1, <1>9, <1>10 DEF LanesInv, TypeOK, effects, pumps, hosts
<1>12. \A l \in Lanes :
          /\ Members(queue[l]) \subseteq Effects
          /\ \A e \in Effects : e \in Members(queue[l]) <=> e \in scheduled /\ lane[e] = l
    BY QueuedIsScheduled
<1>13. Top.phase # "enter" \/ ~Draining(Lane)
    BY <1>1
<1>14. FramesSound'
    <2>1. SoundAfter(f)
        <3>1. Shaped(f)
            BY <1>2, <1>6, <1>7 DEF Sound, Shaped
        <3>2. Homed(f, lane')
            BY <1>1, <1>2, <1>6, <1>8, <1>12 DEF Homed, Lane, effects
        <3>3. Requeued(f, current', watched', scheduled') /\ Handed(f, watched', handled', scheduled')
            BY <1>1, <1>6, <1>7 DEF Requeued, Handed
        <3> QED BY <3>1, <3>2, <3>3 DEF SoundAfter, Sound
    <2>2. ASSUME NEW i \in 2..Len(stack) PROVE SoundAfter(stack[i])
        <3>1. i \in DOMAIN stack /\ stack[i] \in Frames
              /\ Sound(stack[i], lane, current, watched, handled, scheduled)
            BY <1>2, <1>9 DEF LanesInv, FramesSound
        <3>2. \A e \in Entries(stack[i]) : lane[e] # Lane
            BY <1>1, <1>13, Elsewhere
        <3>3. Entries(stack[i]) \subseteq Effects
            BY <3>1 DEF Frames, Entries, Members
        <3>4. \A e \in Entries(stack[i]) : e \in scheduled => e \in scheduled'
            BY <1>1, <1>2, <1>12, <3>2, <3>3
        <3>5. Requeued(stack[i], current', watched', scheduled')
            BY <1>1, <3>1, <3>4 DEF Sound, Requeued, effects
        <3>6. ASSUME stack[i].busy PROVE Head(stack[i].left) \in Entries(stack[i])
            <4>1. stack[i].left # <<>> /\ stack[i].left \in Seq(Effects)
                BY <3>1, <3>6 DEF Sound, Shaped, Frames
            <4> QED BY <4>1, MembersOfTail DEF Entries
        <3>7. Handed(stack[i], watched', handled', scheduled')
            BY <1>1, <3>1, <3>4, <3>6 DEF Sound, Handed, effects
        <3> QED BY <1>1, <3>1, <3>5, <3>7 DEF SoundAfter, Sound, effects
    <2> QED BY <1>9, <2>1, <2>2, SoundReplace
<1>15. Apart(stack')
    <2>1. \A i \in 2..Len(stack) : stack[i].phase # "enter" => Head(stack[i].todo) # Head(f.todo)
        BY <1>1, <1>6, <1>13, Elsewhere DEF Lane
    <2> QED BY <1>9, <2>1, ApartReplace DEF LanesInv
<1>16. QueuedOnce'
    <2>1. \A l \in Lanes : Distinct(queue'[l])
        <3>1. Distinct(<<>>)
            BY DEF Distinct
        <3> QED BY <1>10, <3>1 DEF LanesInv, QueuedOnce
    <2>2. Members(<<>>) = {}
        BY DEF Members
    <2>3. ASSUME NEW l \in Lanes, NEW e \in Effects
          PROVE  e \in Members(queue'[l]) <=> e \in scheduled' /\ lane[e] = l
        BY <1>1, <1>2, <1>10, <1>12, <2>2
    <2>4. \A e \in Effects : {l \in Lanes : e \in Members(queue'[l])}
                             = IF e \in scheduled' THEN {lane[e]} ELSE {}
        <3> DEFINE q == queue'
                   marked == scheduled'
        <3>1. \A l \in Lanes : \A e \in Effects : e \in Members(q[l]) <=> e \in marked /\ lane[e] = l
            BY <2>3
        <3> HIDE DEF q, marked
        <3>2. \A e \in Effects : {l \in Lanes : e \in Members(q[l])}
                             = IF e \in marked THEN {lane[e]} ELSE {}
            BY <1>3, <3>1, ScheduledIsQueued
        <3> QED BY <3>2 DEF q, marked
    <2>5. lane' = lane
        BY <1>1 DEF effects
    <2> QED BY <2>1, <2>4, <2>5 DEF QueuedOnce
<1>17. ASSUME NEW e \in watched', handled'[e] # current', e \notin scheduled' \cup dropped'
       PROVE  e \in InARound'
    <2>1. e \in Effects /\ e \in watched /\ handled[e] # current /\ e \notin dropped
        BY <1>1, <1>17 DEF LanesInv, TypeOK, effects
    <2>2. InARound' = Held(stack', current) /\ InARound = Held(stack, current)
        BY <1>1, HeldIsInARound DEF InARound, Held, Entries
    <2>3. CASE e \in scheduled
        <3>1. e \in Entries(f)
            BY <1>1, <1>8, <1>17, <2>1, <2>3 DEF survivors
        <3>2. 1 \in DOMAIN stack' /\ stack'[1] = f
            BY <1>9, <1>1, <1>2 DEF IsReplace
        <3>3. e \in Held(stack', current)
            BY <1>6, <3>1, <3>2 DEF Held
        <3> QED BY <2>2, <3>3
    <2>4. CASE e \notin scheduled
        <3>1. e \in Held(stack, current)
            BY <2>1, <2>2, <2>4 DEF LanesInv, NothingForgotten
        <3>2. e \in Held(stack', current)
            BY <1>1, <1>2, <1>7, <1>9, <3>1, HeldReplace
        <3> QED BY <2>2, <3>2
    <2> QED BY <2>3, <2>4
<1>18. NothingForgotten'
    BY <1>17 DEF NothingForgotten
<1> QED BY <1>11, <1>14, <1>15, <1>16, <1>18 DEF LanesInv

\* A throw leaves the frame, and clears what it preempted with its flags.
LEMMA AbortKeeps ==
    ASSUME LanesInv, abortDrain, stack # <<>>, Top.phase # "enter" \/ ~Draining(Lane),
           watched' \subseteq watched, UNCHANGED cleanup
    PROVE  LanesInv'
<1>1. /\ queue' = [queue EXCEPT ![Lane] = <<>>]
      /\ scheduled' = scheduled \ Preempted /\ dropped' = dropped \cup Preempted
      /\ stack' = Under
      /\ UNCHANGED <<current, lane, handled, pumps, hosts, writes>>
    BY DEF abortDrain, clearedBy
<1>2. /\ Top \in Frames /\ Top = stack[1] /\ Under \in Seq(Frames) /\ IsPop(stack, Under)
      /\ DOMAIN stack = 1..Len(stack) /\ Len(stack) \in Nat /\ Lane \in Lanes
      /\ Sound(Top, lane, current, watched, handled, scheduled)
    BY TopFacts
<1>3. queue \in [Lanes -> Seq(Effects)] /\ lane \in [Effects -> Lanes]
    BY DEF LanesInv, TypeOK
<1>4. \A l \in Lanes :
          /\ Members(queue[l]) \subseteq Effects
          /\ \A e \in Effects : e \in Members(queue[l]) <=> e \in scheduled /\ lane[e] = l
    BY QueuedIsScheduled
<1>5. /\ Entries(Top) \subseteq Effects
      /\ Preempted = Members(queue[Lane]) \cup Entries(Top)
      /\ \A e \in Preempted : e \in Effects /\ lane[e] = Lane
    <2>1. Entries(Top) \subseteq Effects
        BY <1>2 DEF Entries, Frames, Members
    <2>2. \A e \in Entries(Top) : lane[e] = Lane
        BY <1>2 DEF Sound, Homed, Lane
    <2>3. Preempted = Members(queue[Lane]) \cup Entries(Top)
        BY DEF Preempted, Entries
    <2> QED BY <1>2, <1>4, <2>1, <2>2, <2>3
<1>6. /\ queue' \in [Lanes -> Seq(Effects)] /\ queue'[Lane] = <<>>
      /\ \A l \in Lanes \ {Lane} : queue'[l] = queue[l]
    BY <1>1, <1>2, <1>3
<1>7. stack \in Seq(Frames) /\ stack' \in Seq(Frames) /\ IsPop(stack, stack')
    BY <1>1, <1>2 DEF LanesInv, TypeOK
<1>8. TypeOK'
    BY <1>1, <1>5, <1>6, <1>7 DEF LanesInv, TypeOK, pumps, hosts
<1>9. FramesSound'
    <2>1. ASSUME NEW i \in 2..Len(stack) PROVE SoundAfter(stack[i])
        <3>1. i \in DOMAIN stack /\ stack[i] \in Frames
              /\ Sound(stack[i], lane, current, watched, handled, scheduled)
            BY <1>2, <1>7 DEF LanesInv, FramesSound
        <3>2. \A e \in Entries(stack[i]) : lane[e] # Lane
            BY Elsewhere
        <3>4. \A e \in Entries(stack[i]) : e \in scheduled => e \in scheduled'
            BY <1>1, <1>5, <3>2
        <3>5. Requeued(stack[i], current', watched', scheduled')
            BY <1>1, <3>1, <3>4 DEF Sound, Requeued
        <3>6. ASSUME stack[i].busy PROVE Head(stack[i].left) \in Entries(stack[i])
            <4>1. stack[i].left # <<>> /\ stack[i].left \in Seq(Effects)
                BY <3>1, <3>6 DEF Sound, Shaped, Frames
            <4> QED BY <4>1, MembersOfTail DEF Entries
        <3>7. Handed(stack[i], watched', handled', scheduled')
            BY <1>1, <3>1, <3>4, <3>6 DEF Sound, Handed
        <3> QED BY <1>1, <3>1, <3>5, <3>7 DEF SoundAfter, Sound
    <2> QED BY <1>7, <2>1, SoundPop
<1>10. Apart(stack')
    BY <1>7, ApartPop DEF LanesInv
<1>11. QueuedOnce'
    <2>1. \A l \in Lanes : Distinct(queue'[l])
        <3>1. Distinct(<<>>)
            BY DEF Distinct
        <3> QED BY <1>6, <3>1 DEF LanesInv, QueuedOnce
    <2>2. Members(<<>>) = {}
        BY DEF Members
    <2>3. ASSUME NEW l \in Lanes, NEW e \in Effects
          PROVE  e \in Members(queue'[l]) <=> e \in scheduled' /\ lane[e] = l
        <3>1. CASE l = Lane
            <4>1. e \notin Members(queue'[l])
                BY <1>6, <2>2, <3>1
            <4>2. e \in scheduled /\ lane[e] = l => e \in Preempted
                BY <1>4, <1>5, <3>1
            <4> QED BY <1>1, <4>1, <4>2
        <3>2. CASE l # Lane
            <4>1. e \in Members(queue'[l]) <=> e \in scheduled /\ lane[e] = l
                BY <1>4, <1>6, <3>2
            <4>2. lane[e] = l => e \notin Preempted
                BY <1>5, <3>2
            <4> QED BY <1>1, <4>1, <4>2
        <3> QED BY <3>1, <3>2
    <2>4. \A e \in Effects : {l \in Lanes : e \in Members(queue'[l])}
                             = IF e \in scheduled' THEN {lane[e]} ELSE {}
        <3> DEFINE q == queue'
                   marked == scheduled'
        <3>1. \A l \in Lanes : \A e \in Effects : e \in Members(q[l]) <=> e \in marked /\ lane[e] = l
            BY <2>3
        <3> HIDE DEF q, marked
        <3>2. \A e \in Effects : {l \in Lanes : e \in Members(q[l])}
                             = IF e \in marked THEN {lane[e]} ELSE {}
            BY <1>3, <3>1, ScheduledIsQueued
        <3> QED BY <3>2 DEF q, marked
    <2> QED BY <1>1, <2>1, <2>4 DEF QueuedOnce
<1>12. ASSUME NEW e \in watched', handled'[e] # current', e \notin scheduled' \cup dropped'
       PROVE  e \in InARound'
    <2>1. e \in watched /\ handled[e] # current /\ e \notin dropped /\ e \notin Preempted
        BY <1>1, <1>12
    <2>2. e \notin scheduled
        BY <1>1, <1>12, <2>1
    <2>3. InARound' = Held(stack', current') /\ InARound = Held(stack, current)
        BY HeldIsInARound DEF InARound, Held, Entries
    <2>4. e \in Held(stack, current)
        BY <2>1, <2>2, <2>3 DEF LanesInv, NothingForgotten
    <2>5. e \notin Entries(stack[1])
        BY <1>2, <1>5, <2>1
    <2>6. e \in Held(stack', current)
        BY <1>7, <2>4, <2>5, HeldPop
    <2> QED BY <1>1, <2>3, <2>6
<1>13. NothingForgotten'
    BY <1>12 DEF NothingForgotten
<1> QED BY <1>8, <1>9, <1>10, <1>11, <1>13 DEF LanesInv

\* A computation of a round throws.
LEMMA PullThrowsStep ==
    ASSUME LanesInv, pullThrows
    PROVE  LanesInv'
BY AbortKeeps DEF pullThrows, AtRound

\* A cleanup or a handler throws.
LEMMA CallbackThrowsStep ==
    ASSUME LanesInv, callbackThrows
    PROVE  LanesInv'
<1>1. stack # <<>> /\ Top.busy /\ abortDrain /\ watched' \subseteq watched /\ UNCHANGED cleanup
    BY DEF callbackThrows, InCallback
<1>2. Top.phase # "enter"
    BY <1>1, TopFacts DEF Sound, Shaped
<1> QED BY <1>1, <1>2, AbortKeeps

\* What a wave appends to a lane.
LEMMA WaveAppends ==
    ASSUME NEW l
    PROVE  /\ scheduleWatcher(l) \in Seq(Effects) /\ Distinct(scheduleWatcher(l))
           /\ Members(scheduleWatcher(l)) = {e \in Effects \cap (watched \ scheduled) : lane[e] = l}
<1>1. Subscribed \in Seq(Effects) /\ Len(Subscribed) = NEffects /\ \A e \in Effects : Subscribed[e] = e
    BY CountsAssumption DEF Subscribed, Effects
<1> DEFINE list == Subscribed
           due == {e \in watched \ scheduled : lane[e] = l}
<1>2. list \in Seq(Effects) /\ DOMAIN list = Effects /\ \A e \in Effects : list[e] = e
    BY <1>1 DEF Subscribed
<1>3. scheduleWatcher(l) = Only(list, due)
    BY DEF scheduleWatcher
<1> HIDE DEF list
<1>4. Distinct(list) /\ Members(list) = Effects
    BY <1>2 DEF Distinct, Members
<1> HIDE DEF due
<1>5. /\ Only(list, due) \in Seq(Effects) /\ Distinct(Only(list, due))
      /\ Members(Only(list, due)) = Effects \cap due
    BY <1>2, <1>4, OnlyKeeps
<1> QED BY <1>3, <1>5 DEF due

\* requestLaneDrain keeps the types of what it touches.
LEMMA RequestTyped ==
    ASSUME LanesInv, NEW ask \in SUBSET Deferred, NEW there, requestLaneDrain(ask, there)
    PROVE  pump' \subseteq Deferred /\ builtin' \in [Deferred -> 0..MaxPumps]
<1>1. /\ pump' = pump \cup ask
      /\ builtin' = [l \in Deferred |-> IF l \in ask /\ there = {} THEN builtin[l] + 1 ELSE builtin[l]]
      /\ \A l \in Deferred : builtin'[l] <= MaxPumps
    BY DEF requestLaneDrain
<1>2. pump \subseteq Deferred /\ builtin \in [Deferred -> 0..MaxPumps] /\ MaxPumps \in Nat
    BY CountsAssumption DEF LanesInv, TypeOK
<1>3. \A l \in Deferred : builtin[l] \in Nat /\ builtin[l] + 1 \in Nat
    BY <1>2
<1>4. \A l \in Deferred : builtin'[l] \in Nat /\ builtin'[l] <= MaxPumps
    BY <1>1, <1>3
<1>5. builtin' \in [Deferred -> 0..MaxPumps]
    BY <1>1, <1>2, <1>4
<1> QED BY <1>1, <1>2, <1>5

\* A write: the wave queues every live effect that is not queued.
LEMMA WriteStep ==
    ASSUME LanesInv, NEW new \in Values, writeAtom(new)
    PROVE  LanesInv'
<1> DEFINE ask == {l \in Deferred \ pump : scheduleWatcher(l) # <<>>}
           f == [todo |-> <<Sync>>, react |-> FALSE, phase |-> "enter", value |-> current,
                 left |-> <<>>, kept |-> <<>>, busy |-> FALSE]
<1>1. /\ writes < MaxWrites /\ writes' = writes + 1 /\ current' = new
      /\ queue' = [l \in Lanes |-> queue[l] \o scheduleWatcher(l)]
      /\ scheduled' = scheduled \cup UNION {Members(scheduleWatcher(l)) : l \in Lanes}
      /\ dropped' = {} /\ requestLaneDrain(ask, mounted)
      /\ woken' = (IF ask = {} THEN woken ELSE woken \cup mounted)
      /\ stack' = stack \/ stack' = <<f>> \o stack
      /\ UNCHANGED <<effects, mounted, passiveDue>>
    BY DEF writeAtom, Call
<1> HIDE DEF ask
<1>2. /\ queue \in [Lanes -> Seq(Effects)] /\ lane \in [Effects -> Lanes] /\ watched \subseteq Effects
      /\ stack \in Seq(Frames) /\ current \in Values /\ scheduled \subseteq Effects
    BY DEF LanesInv, TypeOK
<1>3. \A l \in Lanes :
           /\ scheduleWatcher(l) \in Seq(Effects) /\ Distinct(scheduleWatcher(l))
           /\ Members(scheduleWatcher(l)) = {e \in Effects \cap (watched \ scheduled) : lane[e] = l}
    BY WaveAppends
<1>4. \A l \in Lanes :
          /\ Members(queue[l]) \subseteq Effects /\ Distinct(queue[l])
          /\ \A e \in Effects : e \in Members(queue[l]) <=> e \in scheduled /\ lane[e] = l
    BY QueuedIsScheduled DEF LanesInv, QueuedOnce
<1>5. \A l \in Lanes :
          /\ queue'[l] \in Seq(Effects) /\ Distinct(queue'[l])
          /\ Members(queue'[l]) = Members(queue[l]) \cup Members(scheduleWatcher(l))
    <2> SUFFICES ASSUME NEW l \in Lanes
                 PROVE  /\ queue'[l] \in Seq(Effects) /\ Distinct(queue'[l])
                        /\ Members(queue'[l]) = Members(queue[l]) \cup Members(scheduleWatcher(l))
        OBVIOUS
    <2> DEFINE s == queue[l]
               u == scheduleWatcher(l)
    <2>1. queue'[l] = s \o u
        BY <1>1
    <2>2. s \in Seq(Effects) /\ u \in Seq(Effects) /\ Distinct(s) /\ Distinct(u)
        BY <1>2, <1>3, <1>4
    <2>3. Members(s) \cap Members(u) = {}
        BY <1>3, <1>4
    <2> HIDE DEF s, u
    <2>4. /\ s \o u \in Seq(Effects) /\ Members(s \o u) = Members(s) \cup Members(u)
          /\ Distinct(s \o u)
        BY <2>2, <2>3, MembersOfJoin
    <2> QED BY <2>1, <2>4 DEF s, u
<1>6. scheduled' = scheduled \cup watched
    <2>1. UNION {Members(scheduleWatcher(l)) : l \in Lanes} = watched \ scheduled
        BY <1>2, <1>3
    <2> QED BY <1>1, <2>1
<1>7. f \in Frames
    <2>1. <<Sync>> \in Seq(Lanes)
        BY DEF Lanes
    <2> QED BY <1>2, <2>1 DEF Frames
<1>8. \/ stack' = stack
      \/ stack' \in Seq(Frames) /\ IsPush(stack, f, stack')
    BY <1>1, <1>2, <1>7, Pushing
<1>9. TypeOK'
    <2>1. ask \in SUBSET Deferred
        BY DEF ask
    <2>2. pump' \subseteq Deferred /\ builtin' \in [Deferred -> 0..MaxPumps]
        BY <1>1, <2>1, RequestTyped
    <2>3. writes' \in 0..MaxWrites
        BY <1>1, CountsAssumption DEF LanesInv, TypeOK
    <2>4. mounted' \subseteq Hosts /\ woken' \subseteq mounted' /\ passiveDue' \subseteq mounted'
        BY <1>1 DEF LanesInv, TypeOK
    <2>5. stack' \in Seq(Frames)
        BY <1>2, <1>8
    <2>6. queue' \in [Lanes -> Seq(Effects)]
        BY <1>1, <1>5
    <2> QED BY <1>1, <1>2, <1>6, <2>2, <2>3, <2>4, <2>5, <2>6 DEF LanesInv, TypeOK, effects
<1>10. ASSUME NEW i \in 1..Len(stack) PROVE SoundAfter(stack[i])
    <2>1. stack[i] \in Frames /\ Sound(stack[i], lane, current, watched, handled, scheduled)
        BY <1>2 DEF LanesInv, FramesSound
    <2>2. watched' = watched /\ lane' = lane /\ handled' = handled
        BY <1>1 DEF effects
    <2>3. Requeued(stack[i], current', watched', scheduled')
        BY <1>6, <2>2 DEF Requeued
    <2>4. Handed(stack[i], watched', handled', scheduled')
        BY <1>6, <2>2 DEF Handed
    <2> QED BY <2>1, <2>2, <2>3, <2>4 DEF SoundAfter, Sound
<1>11. SoundAfter(f)
    <2>1. /\ f.todo = <<Sync>> /\ f.phase = "enter" /\ f.left = <<>> /\ f.kept = <<>> /\ f.busy = FALSE
        OBVIOUS
    <2> HIDE DEF f
    <2>2. Entries(f) = {}
        BY <2>1 DEF Entries, Members
    <2> QED BY <2>1, <2>2 DEF SoundAfter, Sound, Shaped, Homed, Requeued, Handed
<1>12. FramesSound'
    <2>1. CASE stack' = stack
        BY <1>2, <1>10, <2>1 DEF FramesSound, SoundAfter
    <2>2. CASE stack' \in Seq(Frames) /\ IsPush(stack, f, stack')
        <3> HIDE DEF f
        <3> QED BY <1>2, <1>10, <1>11, <2>2, SoundPush
    <2> QED BY <1>8, <2>1, <2>2
<1>13. Apart(stack')
    <2>1. CASE stack' = stack
        BY <2>1 DEF LanesInv
    <2>2. CASE stack' \in Seq(Frames) /\ IsPush(stack, f, stack')
        <3>1. f.phase = "enter"
            OBVIOUS
        <3> HIDE DEF f
        <3> QED BY <1>2, <2>2, <3>1, ApartPush DEF LanesInv
    <2> QED BY <1>8, <2>1, <2>2
<1>14. QueuedOnce'
    <2>1. \A l \in Lanes : \A e \in Effects :
              e \in Members(queue'[l]) <=> e \in scheduled' /\ lane[e] = l
        BY <1>2, <1>3, <1>4, <1>5, <1>6
    <2>2. \A e \in Effects : {l \in Lanes : e \in Members(queue'[l])}
                             = IF e \in scheduled' THEN {lane[e]} ELSE {}
        <3> DEFINE q == queue'
                   marked == scheduled'
        <3>1. \A l \in Lanes : \A e \in Effects : e \in Members(q[l]) <=> e \in marked /\ lane[e] = l
            BY <2>1
        <3> HIDE DEF q, marked
        <3>2. \A e \in Effects : {l \in Lanes : e \in Members(q[l])}
                             = IF e \in marked THEN {lane[e]} ELSE {}
            BY <1>2, <3>1, ScheduledIsQueued
        <3> QED BY <3>2 DEF q, marked
    <2>3. lane' = lane
        BY <1>1 DEF effects
    <2> QED BY <1>5, <2>2, <2>3 DEF QueuedOnce
<1>15. NothingForgotten'
    <2>1. watched' = watched
        BY <1>1 DEF effects
    <2> QED BY <1>6, <2>1 DEF NothingForgotten
<1> QED BY <1>9, <1>12, <1>13, <1>14, <1>15 DEF LanesInv
-----------------------------------------------------------------------------
(***************************************************************************)
(* The invariant                                                           *)
(***************************************************************************)
\* A disposal takes an effect out of what the invariant speaks of.
LEMMA DisposeStep ==
    ASSUME LanesInv, NEW e \in Effects, disposeEffect(e)
    PROVE  LanesInv'
<1>1. /\ watched' \subseteq watched /\ cleanup' \subseteq cleanup
      /\ UNCHANGED <<current, lane, handled, scheduled, queue, pumps, hosts, stack, writes, dropped>>
    BY DEF disposeEffect
<1>2. TypeOK'
    BY <1>1 DEF LanesInv, TypeOK, pumps, hosts
<1>3. FramesSound'
    <2>1. ASSUME NEW f, Sound(f, lane, current, watched, handled, scheduled)
          PROVE  SoundAfter(f)
        BY <1>1, <2>1 DEF Sound, SoundAfter, Requeued, Handed
    <2> QED BY <1>1, <2>1 DEF LanesInv, FramesSound, SoundAfter
<1> QED BY <1>1, <1>2, <1>3 DEF LanesInv, QueuedOnce, NothingForgotten, InARound

\* A host that leaves touches only the pumps and the hosts.
LEMMA UnregisterStep ==
    ASSUME LanesInv, NEW h \in Hosts, unregisterEffectHost(h)
    PROVE  LanesInv'
<1> DEFINE again == {l \in Deferred : queue[l] # <<>>}
<1>1. /\ mounted' = mounted \ {h} /\ passiveDue = {} /\ requestLaneDrain(again, mounted')
      /\ woken' = (IF again = {} THEN otherWakes(h) ELSE otherWakes(h) \cup mounted')
      /\ UNCHANGED <<current, effects, scheduled, queue, passiveDue, stack, writes, dropped>>
    BY DEF unregisterEffectHost
<1>2. pump' \subseteq Deferred /\ builtin' \in [Deferred -> 0..MaxPumps]
    <2> DEFINE there == mounted'
    <2>1. again \in SUBSET Deferred /\ requestLaneDrain(again, there)
        BY <1>1
    <2> HIDE DEF again, there
    <2> QED BY <2>1, RequestTyped
<1>3. mounted' \subseteq Hosts /\ woken' \subseteq mounted' /\ passiveDue' \subseteq mounted'
    BY <1>1 DEF LanesInv, TypeOK, otherWakes
<1>4. TypeOK'
    BY <1>1, <1>2, <1>3 DEF LanesInv, TypeOK, effects
<1> QED BY <1>1, <1>4
        DEF LanesInv, FramesSound, QueuedOnce, NothingForgotten, InARound, effects

\* The lanes the program's calls, the pumps and the hosts drain.
LEMMA DrainedLanes ==
    /\ <<UseLayoutEffect>> \in Seq(Lanes) /\ <<UseLayoutEffect>> # <<>>
    /\ <<UseLayoutEffect, UseEffect>> \in Seq(Lanes) /\ <<UseLayoutEffect, UseEffect>> # <<>>
<1>1. UseLayoutEffect \in Lanes /\ UseEffect \in Lanes
    BY DEF Lanes
<1> QED BY <1>1

\* The type of the stack after such a call.
LEMMA CallTyped ==
    ASSUME LanesInv, NEW lanes \in Seq(Lanes), NEW react \in BOOLEAN
    PROVE  Call(lanes, react) \in Seq(Frames)
<1> DEFINE f == [todo |-> lanes, react |-> react, phase |-> "enter", value |-> current,
                 left |-> <<>>, kept |-> <<>>, busy |-> FALSE]
<1>1. stack \in Seq(Frames) /\ f \in Frames
    BY DEF LanesInv, TypeOK, Frames
<1> HIDE DEF f
<1>2. <<f>> \o stack \in Seq(Frames)
    BY <1>1, Pushing
<1> QED BY <1>2 DEF Call, f

\* flushScheduledEffects called by the program.
LEMMA FlushStep ==
    ASSUME LanesInv, flushScheduledEffects
    PROVE  LanesInv'
<1>1. /\ stack' = Call(<<UseLayoutEffect, UseEffect>>, FALSE)
      /\ UNCHANGED <<current, effects, scheduled, queue, pumps, hosts, writes, dropped>>
    BY DEF flushScheduledEffects
<1>2. stack' \in Seq(Frames)
    BY <1>1, DrainedLanes, CallTyped
<1>3. TypeOK'
    BY <1>1, <1>2 DEF LanesInv, TypeOK, effects, pumps, hosts
<1> QED BY <1>1, <1>3, DrainedLanes, CallKeeps

\* The microtask and the timer.
LEMMA PumpStep ==
    ASSUME LanesInv, microtask \/ timer
    PROVE  LanesInv'
<1>1. PICK l \in Deferred :
          /\ builtin[l] > 0 /\ builtin' = [builtin EXCEPT ![l] = @ - 1] /\ pump' = pump \ {l}
          /\ \/ stack' = Call(<<UseLayoutEffect>>, FALSE)
             \/ stack' = Call(<<UseLayoutEffect, UseEffect>>, FALSE)
          /\ UNCHANGED <<current, effects, scheduled, queue, hosts, writes, dropped>>
    BY DEF microtask, timer, pumpRuns, Deferred
<1>2. stack' \in Seq(Frames)
    BY <1>1, DrainedLanes, CallTyped
<1>3. builtin' \in [Deferred -> 0..MaxPumps]
    <2>1. builtin \in [Deferred -> 0..MaxPumps] /\ MaxPumps \in Nat
        BY CountsAssumption DEF LanesInv, TypeOK
    <2>2. builtin[l] - 1 \in 0..MaxPumps
        BY <1>1, <2>1
    <2> QED BY <1>1, <2>1, <2>2
<1>4. TypeOK'
    BY <1>1, <1>2, <1>3 DEF LanesInv, TypeOK, effects, hosts
<1> QED BY <1>1, <1>4, DrainedLanes, CallKeeps

\* The two phases of a host's commit.
LEMMA CommitStep ==
    ASSUME LanesInv, NEW h \in Hosts, commitLayout(h) \/ commitPassive(h)
    PROVE  LanesInv'
<1>1. /\ pump' \subseteq pump
      /\ \/ stack' = Call(<<UseLayoutEffect>>, TRUE)
         \/ stack' = Call(<<UseLayoutEffect, UseEffect>>, TRUE)
      /\ UNCHANGED <<current, effects, scheduled, queue, builtin, writes, dropped>>
    BY DEF commitLayout, commitPassive, pumpRuns
<1>2. mounted' \subseteq Hosts /\ woken' \subseteq mounted' /\ passiveDue' \subseteq mounted'
    BY DEF commitLayout, commitPassive, LanesInv, TypeOK
<1>3. stack' \in Seq(Frames)
    BY <1>1, DrainedLanes, CallTyped
<1>4. TypeOK'
    BY <1>1, <1>2, <1>3 DEF LanesInv, TypeOK, effects
<1> QED BY <1>1, <1>4, DrainedLanes, CallKeeps

\* The invariant holds when the effects have been made.
LEMMA LanesInit == Init => LanesInv
<1> SUFFICES ASSUME Init PROVE LanesInv
    OBVIOUS
<1>1. /\ lane \in [Effects -> Lanes] /\ current = Initial /\ watched = Effects
      /\ handled = [e \in Effects |-> Initial] /\ cleanup = Effects /\ scheduled = {}
      /\ queue = [l \in Lanes |-> <<>>] /\ pump = {} /\ builtin = [l \in Deferred |-> 0]
      /\ mounted = {} /\ woken = {} /\ passiveDue = {} /\ stack = <<>>
      /\ writes = 0 /\ dropped = {}
    BY DEF Init
<1>2. TypeOK
    <2>1. <<>> \in Seq(Effects) /\ stack \in Seq(Frames)
        BY <1>1
    <2> QED BY <1>1, <2>1, CountsAssumption, ValuesAssumption DEF TypeOK
<1>3. DOMAIN stack = {}
    BY <1>1
<1>4. QueuedOnce
    <2>1. \A l \in Lanes : Distinct(queue[l]) /\ Members(queue[l]) = {}
        BY <1>1 DEF Distinct, Members
    <2>2. \A e \in Effects : {l \in Lanes : e \in Members(queue[l])} = {}
        BY <2>1
    <2> QED BY <1>1, <2>1, <2>2 DEF QueuedOnce
<1>5. NothingForgotten
    BY <1>1 DEF NothingForgotten
<1> QED BY <1>2, <1>3, <1>4, <1>5 DEF LanesInv, FramesSound, Apart

\* Every step keeps it.
LEMMA LanesStep == LanesInv /\ [Next]_vars => LanesInv'
<1> SUFFICES ASSUME LanesInv, [Next]_vars PROVE LanesInv'
    OBVIOUS
<1>1. CASE leaveLane
    BY <1>1, LeaveLaneStep
<1>2. CASE pullRound
    BY <1>2, PullRoundStep
<1>3. CASE skipEntry
    BY <1>3, SkipEntryStep
<1>4. CASE runEffectCleanup
    BY <1>4, CleanupStep
<1>5. CASE runHandler
    BY <1>5, RunHandlerStep
<1>6. CASE nextPhase
    BY <1>6, NextPhaseStep
<1>7. CASE callbackReturns
    BY <1>7, ReturnStep
<1>8. CASE pullThrows
    BY <1>8, PullThrowsStep
<1>9. CASE callbackThrows
    BY <1>9, CallbackThrowsStep
<1>10. CASE \E new \in Values : writeAtom(new)
    BY <1>10, WriteStep
<1>11. CASE \E e \in Effects : disposeEffect(e)
    BY <1>11, DisposeStep
<1>12. CASE flushScheduledEffects
    BY <1>12, FlushStep
<1>13. CASE microtask \/ timer
    BY <1>13, PumpStep
<1>14. CASE \E h \in Hosts : commitLayout(h) \/ commitPassive(h) \/ unregisterEffectHost(h)
    BY <1>14, CommitStep, UnregisterStep
<1>15. CASE UNCHANGED vars
    BY <1>15
       DEF vars, effects, pumps, hosts, LanesInv, TypeOK, FramesSound, QueuedOnce,
           NothingForgotten, InARound
<1> QED BY <1>1, <1>2, <1>3, <1>4, <1>5, <1>6, <1>7, <1>8, <1>9, <1>10, <1>11, <1>12, <1>13,
           <1>14, <1>15 DEF Next, Engine

\* The invariant holds in every reachable state.
LEMMA LanesInvariant == Spec => []LanesInv
BY LanesInit, LanesStep, PTL DEF Spec

\* Every variable has its type.
THEOREM TypeCorrect == Spec => []TypeOK
<1>1. LanesInv => TypeOK
    BY DEF LanesInv
<1> QED BY <1>1, LanesInvariant, PTL

\* The Scheduled flag is exactly membership of the queue of the effect's lane,
\* once, however drains nest, callbacks throw and effects are disposed.
THEOREM FlagIsMembership == Spec => []QueuedOnce
<1>1. LanesInv => QueuedOnce
    BY DEF LanesInv
<1> QED BY <1>1, LanesInvariant, PTL

\* A live effect whose handler has not seen the present value is scheduled, or
\* in a round that pulled it at that value, unless a throw preempted it.
THEOREM ChangesAreHandled == Spec => []NothingForgotten
<1>1. LanesInv => NothingForgotten
    BY DEF LanesInv
<1> QED BY <1>1, LanesInvariant, PTL
-----------------------------------------------------------------------------
(***************************************************************************)
(* Cleanups and runs come in pairs                                         *)
(***************************************************************************)
\* The effects of a frame whose previous run was released and whose next is due.
OwedBy(f) == Members(f.kept) \cup (IF f.phase = "run" THEN Members(f.left) ELSE {})

\* A stack that only grows, or whose top frame goes on, owes all it owed
\* except what that frame gives up.
LEMMA OwedStays ==
    ASSUME stack \in Seq(Frames), stack' \in Seq(Frames), NEW e \in Owed, NEW f,
           \/ IsPush(stack, f, stack')
           \/ /\ stack # <<>> /\ IsReplace(stack, f, stack')
              /\ e \in OwedBy(stack[1]) => e \in OwedBy(f)
    PROVE  e \in Owed'
<1> DEFINE n == Len(stack)
<1>1. n \in Nat /\ DOMAIN stack = 1..n /\ DOMAIN stack' = 1..Len(stack')
    OBVIOUS
<1>2. PICK i \in DOMAIN stack : e \in OwedBy(stack[i])
    BY DEF Owed, OwedBy
<1>3. SUFFICES \E j \in DOMAIN stack' : e \in OwedBy(stack'[j])
    BY DEF Owed, OwedBy
<1>4. CASE IsPush(stack, f, stack')
    <2>1. i+1 \in DOMAIN stack' /\ stack'[i+1] = stack[i]
        BY <1>1, <1>2, <1>4 DEF IsPush
    <2> QED BY <1>2, <2>1
<1>5. CASE stack # <<>> /\ IsReplace(stack, f, stack') /\ (e \in OwedBy(stack[1]) => e \in OwedBy(f))
    <2>1. i \in DOMAIN stack'
        BY <1>1, <1>2, <1>5 DEF IsReplace
    <2>2. CASE i = 1
        BY <1>2, <1>5, <2>1, <2>2 DEF IsReplace
    <2>3. CASE i # 1
        <3>1. i \in 2..n
            BY <1>1, <1>2, <2>3
        <3>2. stack'[i] = stack[i]
            BY <1>5, <3>1 DEF IsReplace
        <3> QED BY <1>2, <2>1, <3>2
    <2> QED BY <2>2, <2>3
<1> QED BY <1>4, <1>5

\* What a step may do to an effect that is owed its run.
Paired(e) == (Top.busy /\ Entry = e) \/ e \notin watched' \/ Len(stack') < Len(stack)

\* A frame that goes on gives up only an entry that ran or is disposed.
LEMMA GoingOnPairs ==
    ASSUME LanesInv, TypeOK', stack # <<>>, NEW f \in Frames, stack' = <<f>> \o Under,
           \A e \in OwedBy(Top) \ OwedBy(f) : Paired(e)
    PROVE  \A e \in Owed \ Owed' : Paired(e)
<1>1. stack \in Seq(Frames) /\ stack' \in Seq(Frames) /\ Top = stack[1]
    BY TopFacts DEF LanesInv, TypeOK
<1>2. IsReplace(stack, f, stack')
    BY <1>1, Replacing DEF Under
<1> QED BY <1>1, <1>2, OwedStays

\* Every step pairs.
LEMMA StepPairs ==
    ASSUME LanesInv, LanesInv', [Next]_vars
    PROVE  \A e \in Owed \ Owed' : Paired(e)
<1>1. stack \in Seq(Frames) /\ stack' \in Seq(Frames) /\ TypeOK'
    BY DEF LanesInv, TypeOK
<1>2. CASE stack' = stack
    BY <1>2 DEF Owed
<1>3. ASSUME stack # <<>>, stack' = Under PROVE \A e \in Owed \ Owed' : Paired(e)
    <2>1. IsPop(stack, stack') /\ Len(stack) \in Nat /\ Len(stack') \in Nat
        BY <1>1, <1>3, TopFacts
    <2>2. Len(stack') < Len(stack)
        BY <2>1 DEF IsPop
    <2> QED BY <2>2 DEF Paired
<1>4. ASSUME NEW lanes, NEW react, stack' = Call(lanes, react)
      PROVE  \A e \in Owed \ Owed' : Paired(e)
    <2> DEFINE f == [todo |-> lanes, react |-> react, phase |-> "enter", value |-> current,
                     left |-> <<>>, kept |-> <<>>, busy |-> FALSE]
               s == stack
    <2>1. stack' = <<f>> \o s
        BY <1>4 DEF Call
    <2> HIDE DEF f
    <2>2. f = (<<f>> \o s)[1] /\ Len(<<f>> \o s) = Len(s) + 1
        BY <1>1
    <2>3. f \in Frames
        BY <1>1, <2>1, <2>2
    <2>4. IsPush(stack, f, stack')
        BY <1>1, <2>1, <2>3, Pushing
    <2> QED BY <1>1, <2>4, OwedStays
<1>5. CASE leaveLane
    <2>1. stack # <<>> /\ stack' = LeftLane /\ Top.phase \in {"enter", "pull"}
        BY <1>5 DEF leaveLane
    <2>2. CASE Len(Top.todo) = 1
        BY <1>3, <2>1, <2>2 DEF LeftLane
    <2>3. CASE Len(Top.todo) # 1
        <3> DEFINE f == [Top EXCEPT !.todo = Tail(@), !.phase = "enter"]
        <3>1. stack' = <<f>> \o Under
            BY <2>1, <2>3 DEF LeftLane
        <3>2. Top.kept = <<>>
            BY <2>1, TopFacts DEF Sound, Shaped
        <3>3. OwedBy(Top) = {}
            BY <2>1, <3>2 DEF OwedBy, Members
        <3>4. f \in Frames
            <4>1. Top \in Frames
                BY <2>1, TopFacts
            <4>2. Top.todo \in Seq(Lanes) /\ Top.todo # <<>>
                BY <2>1, <4>1, TopFacts DEF Frames, Sound, Shaped
            <4>3. Tail(Top.todo) \in Seq(Lanes)
                BY <4>2
            <4> QED BY <4>1, <4>3 DEF Frames
        <3> HIDE DEF f
        <3> QED BY <1>1, <2>1, <3>1, <3>3, <3>4, GoingOnPairs
    <2> QED BY <2>2, <2>3
<1>6. CASE pullRound
    <2> DEFINE f == [Top EXCEPT !.phase = "cleanup", !.value = current,
                                !.left = Only(queue[Lane], survivors)]
    <2>1. stack # <<>> /\ stack' = <<f>> \o Under /\ Top.phase \in {"enter", "pull"}
        BY <1>6 DEF pullRound, AtRound
    <2>2. Top.kept = <<>>
        BY <2>1, TopFacts DEF Sound, Shaped
    <2>3. OwedBy(Top) = {}
        BY <2>1, <2>2 DEF OwedBy, Members
    <2>4. f \in Frames
        <3>1. Top \in Frames /\ Lane \in Lanes
            BY <2>1, TopFacts
        <3>2. queue[Lane] \in Seq(Effects) /\ current \in Values
            BY <3>1 DEF LanesInv, TypeOK
        <3>3. Only(queue[Lane], survivors) \in Seq(Effects)
            BY <3>2, OnlyKeeps
        <3> QED BY <3>1, <3>2, <3>3 DEF Frames
    <2> HIDE DEF f
    <2> QED BY <1>1, <2>1, <2>3, <2>4, GoingOnPairs
<1>7. CASE skipEntry
    <2> DEFINE f == [Top EXCEPT !.left = Tail(@)]
    <2>1. /\ stack # <<>> /\ Top.left # <<>> /\ stack' = <<f>> \o Under
          /\ Top.phase = "run" => Entry \notin watched'
        BY <1>7 DEF skipEntry, Between, runs, effects
    <2>2. Top \in Frames /\ Tail(Top.left) \in Seq(Effects)
          /\ Members(Top.left) = {Entry} \cup Members(Tail(Top.left))
        BY <2>1, TopFacts, EntryFacts
    <2>3. f \in Frames /\ f.left = Tail(Top.left) /\ f.kept = Top.kept /\ f.phase = Top.phase
        BY <2>2 DEF Frames
    <2> HIDE DEF f
    <2>4. \A e \in OwedBy(Top) \ OwedBy(f) : Paired(e)
        BY <2>1, <2>2, <2>3 DEF OwedBy, Paired
    <2> QED BY <1>1, <2>1, <2>3, <2>4, GoingOnPairs
<1>8. CASE runEffectCleanup
    <2>1. stack # <<>> /\ Top.left # <<>> /\ Top.phase = "cleanup"
        BY <1>8 DEF runEffectCleanup, Between
    <2>2. /\ Top \in Frames /\ Top.kept \in Seq(Effects) /\ Entry \in Effects
          /\ Tail(Top.left) \in Seq(Effects)
        BY <2>1, TopFacts, EntryFacts
    <2>3. Append(Top.kept, Entry) \in Seq(Effects)
          /\ Members(Top.kept) \subseteq Members(Append(Top.kept, Entry))
        BY <2>2, MembersOfAppend
    <2>4. PICK f \in Frames : /\ stack' = <<f>> \o Under /\ f.phase = "cleanup"
                              /\ f.kept \in {Top.kept, Append(Top.kept, Entry)}
        <3> DEFINE f == [Top EXCEPT !.busy = TRUE]
                   g == [Top EXCEPT !.left = Tail(@), !.kept = Append(@, Entry)]
        <3>1. f \in Frames /\ f.phase = "cleanup" /\ f.kept = Top.kept
            BY <2>1, <2>2 DEF Frames
        <3>2. g \in Frames /\ g.phase = "cleanup" /\ g.kept = Append(Top.kept, Entry)
            BY <2>1, <2>2, <2>3 DEF Frames
        <3>3. stack' = <<f>> \o Under \/ stack' = <<g>> \o Under
            BY <1>8 DEF runEffectCleanup
        <3> HIDE DEF f, g
        <3> QED BY <3>1, <3>2, <3>3
    <2>5. OwedBy(Top) \subseteq OwedBy(f)
        BY <2>1, <2>3, <2>4 DEF OwedBy
    <2> QED BY <1>1, <2>1, <2>4, <2>5, GoingOnPairs
<1>9. CASE runHandler
    <2> DEFINE f == [Top EXCEPT !.busy = TRUE]
    <2>1. stack # <<>> /\ stack' = <<f>> \o Under
        BY <1>9 DEF runHandler, Between
    <2>2. f \in Frames /\ f.left = Top.left /\ f.kept = Top.kept /\ f.phase = Top.phase
        BY <2>1, TopFacts DEF Frames
    <2> HIDE DEF f
    <2>3. OwedBy(f) = OwedBy(Top)
        BY <2>2 DEF OwedBy
    <2> QED BY <1>1, <2>1, <2>2, <2>3, GoingOnPairs
<1>10. CASE nextPhase
    <2> DEFINE f == [Top EXCEPT !.left = Top.kept, !.kept = <<>>,
                                !.phase = IF @ = "cleanup" THEN "run" ELSE "pull"]
    <2>1. /\ stack # <<>> /\ stack' = <<f>> \o Under
          /\ Top.phase \in {"cleanup", "run"} /\ Top.left = <<>>
        BY <1>10 DEF nextPhase
    <2>2. Top \in Frames /\ Sound(Top, lane, current, watched, handled, scheduled)
        BY <2>1, TopFacts
    <2>3. f \in Frames
        <3>1. Top.kept \in Seq(Effects) /\ <<>> \in Seq(Effects)
            BY <2>2 DEF Frames
        <3>2. (IF Top.phase = "cleanup" THEN "run" ELSE "pull") \in {"enter", "pull", "cleanup", "run"}
            OBVIOUS
        <3> QED BY <2>2, <3>1, <3>2 DEF Frames
    <2>4. f.left = Top.kept /\ f.phase = (IF Top.phase = "cleanup" THEN "run" ELSE "pull")
        BY <2>2 DEF Frames
    <2> HIDE DEF f
    <2>5. Top.phase = "run" => OwedBy(Top) = {}
        BY <2>1, <2>2 DEF OwedBy, Sound, Shaped, Members
    <2>6. Top.phase = "cleanup" => OwedBy(Top) \subseteq OwedBy(f)
        BY <2>4 DEF OwedBy
    <2> QED BY <1>1, <2>1, <2>3, <2>5, <2>6, GoingOnPairs
<1>11. CASE callbackReturns
    <2>1. stack # <<>> /\ Top.busy
        BY <1>11 DEF callbackReturns, InCallback
    <2>2. Top \in Frames /\ Top.left # <<>>
        BY <2>1, TopFacts DEF Sound, Shaped
    <2>3. /\ Top.kept \in Seq(Effects) /\ Entry \in Effects /\ Tail(Top.left) \in Seq(Effects)
          /\ Members(Top.left) = {Entry} \cup Members(Tail(Top.left))
          /\ Top.phase \in {"cleanup", "run"}
        BY <2>1, <2>2, EntryFacts
    <2>4. CASE Top.phase = "cleanup"
        <3> DEFINE f == [Top EXCEPT !.busy = FALSE, !.left = Tail(@), !.kept = Append(@, Entry)]
        <3>1. stack' = <<f>> \o Under
            BY <1>11, <2>4 DEF callbackReturns
        <3>2. Append(Top.kept, Entry) \in Seq(Effects)
              /\ Members(Append(Top.kept, Entry)) = Members(Top.kept) \cup {Entry}
            BY <2>3, MembersOfAppend
        <3>3. f \in Frames /\ f.kept = Append(Top.kept, Entry)
            BY <2>2, <2>3, <3>2 DEF Frames
        <3> HIDE DEF f
        <3>4. OwedBy(Top) \subseteq OwedBy(f)
            BY <2>4, <3>2, <3>3 DEF OwedBy
        <3> QED BY <1>1, <2>1, <3>1, <3>3, <3>4, GoingOnPairs
    <2>5. CASE Top.phase = "run"
        <3> DEFINE f == [Top EXCEPT !.busy = FALSE, !.left = Tail(@)]
        <3>1. stack' = <<f>> \o Under
            BY <1>11, <2>5 DEF callbackReturns
        <3>2. /\ f \in Frames /\ f.kept = Top.kept /\ f.left = Tail(Top.left)
              /\ f.phase = Top.phase
            BY <2>2, <2>3 DEF Frames
        <3> HIDE DEF f
        <3>3. \A e \in OwedBy(Top) \ OwedBy(f) : Paired(e)
            BY <2>1, <2>3, <3>2 DEF OwedBy, Paired
        <3> QED BY <1>1, <2>1, <3>1, <3>2, <3>3, GoingOnPairs
    <2> QED BY <2>3, <2>4, <2>5
<1>12. CASE pullThrows \/ callbackThrows
    BY <1>3, <1>12 DEF pullThrows, AtRound, callbackThrows, InCallback, abortDrain
<1>13. CASE \E new \in Values : writeAtom(new)
    BY <1>2, <1>4, <1>13 DEF writeAtom
<1>14. CASE flushScheduledEffects \/ microtask \/ timer
    BY <1>4, <1>14 DEF flushScheduledEffects, microtask, timer
<1>15. CASE \E h \in Hosts : commitLayout(h) \/ commitPassive(h)
    BY <1>4, <1>15 DEF commitLayout, commitPassive
<1>16. CASE \/ \E e \in Effects : disposeEffect(e)
            \/ \E h \in Hosts : unregisterEffectHost(h)
            \/ UNCHANGED vars
    BY <1>2, <1>16 DEF disposeEffect, unregisterEffectHost, vars
<1> QED BY <1>5, <1>6, <1>7, <1>8, <1>9, <1>10, <1>11, <1>12, <1>13, <1>14, <1>15, <1>16
        DEF Next, Engine

\* Once an effect's cleanup has run its handler runs, unless the effect is
\* disposed or a callback throws.
THEOREM CleanupThenRun == Spec => CleanupsPaired
<1>1. LanesInv /\ LanesInv' /\ [Next]_vars =>
          [\A e \in Owed \ Owed' :
              (Top.busy /\ Entry = e) \/ e \notin watched' \/ Len(stack') < Len(stack)]_vars
    BY StepPairs DEF Paired
<1> QED BY <1>1, LanesInvariant, PTL DEF Spec, CleanupsPaired
=============================================================================
