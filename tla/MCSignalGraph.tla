--------------------------- MODULE MCSignalGraph ---------------------------
(***************************************************************************)
(* Instances of SignalGraph: small programs over two atoms and two values, *)
(* one shape each for what a dependency list may do.                       *)
(***************************************************************************)
EXTENDS SignalGraph, TLC

CONSTANTS a, b, c1, c2, c3, e1, e2, t1, t2, Oops

Reading(d) == [op |-> "read", of |-> d]
Using(t) == [op |-> "use", of |-> t]
Done(v) == [op |-> "done", of |-> v]
Throwing(x) == [op |-> "throw", of |-> x]

\* The reads of s one after another, then the value f gives of what they saw.
InTurn(s, f(_), seen) ==
    IF Len(seen) < Len(s) THEN s[Len(seen) + 1] ELSE Done(f(seen))

First(seen) == seen[1]
And(seen) == seen[1] * seen[2]
Xor(seen) == (seen[1] + seen[2]) % 2

\* Reads d, and then what choose says of its value.
Switch(d, choose(_), seen) ==
    IF seen = <<>> THEN Reading(d)
    ELSE IF Len(seen) = 1 THEN choose(seen[1]) ELSE Done(seen[2])

\* Two paths from a, one of which is cut off while b is 0.
Diamond(n, seen) ==
    CASE n = c1 -> InTurn(<<Reading(a)>>, First, seen)
      [] n = c2 -> InTurn(<<Reading(a), Reading(b)>>, And, seen)
      [] n \in Effects -> InTurn(<<Reading(c1), Reading(c2)>>, Xor, seen)

\* Dependencies that come and go with a.
Dynamic(n, seen) ==
    CASE n = c1 -> InTurn(<<Reading(b)>>, First, seen)
      [] n = c2 -> Switch(a, LAMBDA v : IF v = 0 THEN Reading(c1) ELSE Done(1), seen)
      [] n \in Effects -> Switch(b, LAMBDA v : IF v = 0 THEN Reading(c2) ELSE Reading(a), seen)

\* c1 and c2 read each other, never both at once.
Swap(n, seen) ==
    CASE n = c1 -> Switch(a, LAMBDA v : IF v = 0 THEN Reading(b) ELSE Reading(c2), seen)
      [] n = c2 -> Switch(a, LAMBDA v : IF v = 0 THEN Reading(c1) ELSE Reading(b), seen)
      [] n \in Effects -> InTurn(<<Reading(c2), Reading(c1)>>, And, seen)

\* c1 reads itself while a is 0.
Selfish(n, seen) ==
    CASE n = c1 -> Switch(a, LAMBDA v : IF v = 0 THEN Reading(c1) ELSE Done(1), seen)
      [] n = c2 -> InTurn(<<Reading(a), Reading(c1)>>, Xor, seen)
      [] n \in Effects -> InTurn(<<Reading(c2)>>, First, seen)

\* c1 awaits t1 while a is 0; pendingness forwards to what reads it.
Await(n, seen) ==
    CASE n = c1 -> Switch(a, LAMBDA v : IF v = 0 THEN Using(t1) ELSE Done(0), seen)
      [] n = c2 -> InTurn(<<Reading(c1), Reading(a)>>, Xor, seen)
      [] n \in Effects -> InTurn(<<Reading(c2)>>, First, seen)

\* The effect awaits two thenables in turn.
Sequence(n, seen) ==
    CASE n \in Effects -> InTurn(<<Using(t1), Using(t2)>>, Xor, seen)
      [] n = c1 -> InTurn(<<Reading(a)>>, First, seen)
      [] OTHER -> Done(0)

\* c1 awaits one of two thenables chosen by a: a refetch may begin while an
\* earlier one is out.
Refetch(n, seen) ==
    CASE n = c1 -> Switch(a, LAMBDA v : IF v = 0 THEN Using(t1) ELSE Using(t2), seen)
      [] OTHER -> Done(0)

\* The first effect throws while a is 1, ahead of one that reads a through c1.
Throws(n, seen) ==
    CASE n = e1 -> Switch(a, LAMBDA v : IF v = 1 THEN Throwing(Oops) ELSE Done(0), seen)
      [] n = c1 -> InTurn(<<Reading(a)>>, First, seen)
      [] OTHER -> InTurn(<<Reading(c1)>>, First, seen)

\* c1 and c2 read each other while a is 0.
Cyclic(n, seen) ==
    CASE n = c1 -> Switch(a, LAMBDA v : IF v = 0 THEN Reading(c2) ELSE Done(0), seen)
      [] OTHER -> InTurn(<<Reading(c1)>>, First, seen)

MCBody(s, n, seen) ==
    CASE s = "diamond" -> Diamond(n, seen)
      [] s = "selfish" -> Selfish(n, seen)
      [] s = "dynamic" -> Dynamic(n, seen)
      [] s = "swap" -> Swap(n, seen)
      [] s = "await" -> Await(n, seen)
      [] s = "refetch" -> Refetch(n, seen)
      [] s = "throws" -> Throws(n, seen)
      [] s = "cyclic" -> Cyclic(n, seen)
      [] s = "sequence" -> Sequence(n, seen)

Bits == {0, 1}
\* The atoms that matter to a shape are the ones written while it runs.
WrittenIn(s) == IF s \in {"diamond", "dynamic", "swap"} THEN {a, b} ELSE {a}

\* A settlement takes two readings of the clock or more.
Clocks(s) == IF s \in {"sequence", "refetch", "await"} THEN 5 ELSE 4

AllShapes == {"diamond", "dynamic", "swap", "selfish", "await", "sequence", "refetch"}
=============================================================================
