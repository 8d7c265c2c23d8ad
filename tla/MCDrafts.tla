------------------------------ MODULE MCDrafts ------------------------------
(***************************************************************************)
(* Instances of Drafts.  Three values in two classes, so that an equality  *)
(* cutoff may keep either of two equal values; a toggle, whose result      *)
(* depends on what it is replayed over and which respects the equality;    *)
(* and an updater that throws on one value.                                *)
(***************************************************************************)
EXTENDS Drafts, TLC

MCValues == {0, 1, 2}
MCClass == [v \in MCValues |-> v % 2]
Toggle == [v \in MCValues |-> IF v = 1 THEN 2 ELSE 1]
ThrowOnOne == [v \in MCValues |-> IF v = 1 THEN Thrown ELSE 1]

ToggleOnly == {Toggle}
WithThrow == {ThrowOnOne}

\* Two values under identity, for the runs with several atoms.
Bits == {0, 1}
Identity == [v \in Bits |-> v]
Flip == {[v \in Bits |-> 1 - v]}
FlipOrThrow == Flip \cup {[v \in Bits |-> IF v = 1 THEN Thrown ELSE 1]}

AtomSymmetry == Permutations(Atoms)
=============================================================================
