--------------------------- MODULE BranchingStore ---------------------------
(***************************************************************************)
(* What drafts and worlds promise their readers, with no log and no clock. *)
(*                                                                         *)
(* Every set of draft ids names a branch of the store: the world of a      *)
(* render pass that holds those ids, the empty set being the committed     *)
(* state.  A transition's write lands on the branches that contain its     *)
(* draft, an urgent write lands on all of them, committing a transition    *)
(* makes every branch equal to the one that already contained it, and      *)
(* abandoning it makes every branch equal to the one that never did.       *)
(* Values are compared through the atom's equality, so a branch holds the  *)
(* representative of its value's class.                                    *)
(***************************************************************************)
EXTENDS Naturals

CONSTANTS
    Atoms,          \* the atoms (writable signals)
    DraftIds,       \* draft ids, 1..n, given out in order and never reused
    Values,         \* what an atom may hold
    Class,          \* the atoms' equality: the representative of each value
    Ops             \* the writes: functions on Values, a set is a constant one

VARIABLES
    state,          \* "unopened", "open", "retired" or "discarded", per draft
    val,            \* val[a][W]: what a reader in world W sees of atom a
    notified        \* the atoms whose subscribers the last step notified

avars == <<state, val, notified>>

Worlds == SUBSET DraftIds

Init ==
    /\ state = [d \in DraftIds |-> "unopened"]
    /\ \E v0 \in [Atoms -> Values] :
          val = [a \in Atoms |-> [W \in Worlds |-> Class[v0[a]]]]
    /\ notified = {}

\* Opening a draft shows nothing to anybody.
Open(d) ==
    /\ state[d] = "unopened"
    /\ \A e \in DraftIds : e < d => state[e] # "unopened"
    /\ state' = [state EXCEPT ![d] = "open"]
    /\ notified' = {}
    /\ UNCHANGED val

\* A transition's write moves the branches that contain its draft, each one
\* from the value that branch has, and no other branch.
DraftWrite(d, a, op) ==
    /\ state[d] = "open"
    /\ notified' = {a}
    /\ UNCHANGED state
    /\ LET old == val[a] IN
       val' = [val EXCEPT ![a] =
                  [W \in Worlds |-> IF d \in W THEN Class[op[old[W]]] ELSE old[W]]]

\* An urgent write moves every branch, the committed one included.
UrgentWrite(a, op) ==
    /\ notified' = {a}
    /\ UNCHANGED state
    /\ LET old == val[a] IN
       val' = [val EXCEPT ![a] = [W \in Worlds |-> Class[op[old[W]]]]]

\* Committing a draft: every branch becomes the one that contained it.
Retire(d) ==
    /\ state[d] = "open"
    /\ state' = [state EXCEPT ![d] = "retired"]
    /\ notified' \in SUBSET Atoms
    /\ val' = [a \in Atoms |-> LET old == val[a] IN [W \in Worlds |-> old[W \cup {d}]]]

\* Abandoning a draft: every branch becomes the one that did not contain it.
Discard(d) ==
    /\ state[d] = "open"
    /\ state' = [state EXCEPT ![d] = "discarded"]
    /\ notified' \in SUBSET Atoms
    /\ val' = [a \in Atoms |-> LET old == val[a] IN [W \in Worlds |-> old[W \ {d}]]]

\* The engine's own housekeeping, and a write without effect, show nothing.
Quiet ==
    /\ notified' = {}
    /\ UNCHANGED <<state, val>>

Next ==
    \/ \E d \in DraftIds : Open(d) \/ Retire(d) \/ Discard(d)
    \/ \E d \in DraftIds, a \in Atoms, op \in Ops : DraftWrite(d, a, op)
    \/ \E a \in Atoms, op \in Ops : UrgentWrite(a, op)
    \/ Quiet

Spec == Init /\ [][Next]_avars
=============================================================================
