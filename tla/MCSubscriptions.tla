--------------------------- MODULE MCSubscriptions ---------------------------
(***************************************************************************)
(* Instances of Subscriptions: two components over one atom or one over    *)
(* each of two, in one root or one in each of two.                         *)
(***************************************************************************)
EXTENDS Subscriptions, TLC

CONSTANTS a, b, g, h, r, s

AllReadA(x) == a
ReadTheirOwn(x) == IF x = g THEN a ELSE b
InR(x) == r
Apart(x) == IF x = g THEN r ELSE s

Alike == Permutations(Hooks)

Bits == {"off", "on"}
Identity == [v \in Bits |-> v]
Flip == {[v \in Bits |-> IF v = "on" THEN "off" ELSE "on"]}
=============================================================================
