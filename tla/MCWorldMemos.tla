---------------------------- MODULE MCWorldMemos ----------------------------
(***************************************************************************)
(* Instances of WorldMemos: two or three computeds over an atom.           *)
(***************************************************************************)
EXTENDS WorldMemos, TLC

CONSTANTS a, c1, c2, c3

Reading(d) == [op |-> "read", of |-> d]
Done(v) == [op |-> "done", of |-> v]

InTurn(s, f(_), seen) ==
    IF Len(seen) < Len(s) THEN s[Len(seen) + 1] ELSE Done(f(seen))

First(seen) == seen[1]
Xor(seen) == (seen[1] + seen[2]) % 2

\* c1 awaits the promise while a is 1, and c2 what c1 awaits.
Await(n, seen) ==
    CASE n = c1 -> IF seen = <<>> THEN Reading(a)
                   ELSE IF seen[1] = 0 THEN Done(0)
                   ELSE InTurn(<<Reading(a), [op |-> "use", of |-> Awaited]>>, LAMBDA s : s[2], seen)
      [] n = c2 -> InTurn(<<Reading(c1)>>, First, seen)
      [] OTHER -> InTurn(<<[op |-> "use", of |-> Awaited]>>, First, seen)

\* Two paths from a to c3.
Diamond(n, seen) ==
    CASE n = c3 -> InTurn(<<Reading(c1), Reading(c2)>>, Xor, seen)
      [] OTHER -> InTurn(<<Reading(a)>>, First, seen)

MCBody(s, n, seen) ==
    CASE s = "await" -> Await(n, seen)
      [] s = "diamond" -> Diamond(n, seen)

Two == <<c1, c2>>
Apart == <<c1, c2, c3>>
Crossed == <<c1, c3, c2>>
Bits == {0, 1}
Identity == [v \in Bits |-> v]
Flip == {[v \in Bits |-> 1 - v]}
=============================================================================
