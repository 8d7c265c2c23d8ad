-------------------------- MODULE MCArenaRecords --------------------------
(***************************************************************************)
(* Instances of ArenaRecords.                                              *)
(***************************************************************************)
EXTENDS ArenaRecords

CONSTANTS a1, a2, d1, e1, e2, e3, e4, e5, w1

Reading(n) == [op |-> "read", of |-> n]
Done(v) == [op |-> "done", of |-> v]

\* d1 reads a2 while a1 is 1; e1 reads d1; the other effects read a1.
MCBody(n, seen) ==
    CASE n = d1 -> IF seen = <<>> THEN Reading(a1)
                  ELSE IF Len(seen) = 1 /\ seen[1] = 1 THEN Reading(a2) ELSE Done(Last(seen))
      [] n = e1 -> IF seen = <<>> THEN Reading(d1) ELSE Done(seen[1])
      [] n \in {e2, e3, e4, e5} -> IF seen = <<>> THEN Reading(a1) ELSE Done(seen[1])

MCMentions(n) == IF n = e1 THEN {d1} ELSE {}
MCLaneOf(n) == IF n = e4 THEN "useEffect" ELSE "sync"

\* What the programs are about: siblings of one lane and a newcomer, a
\* subscription and effects that take its record, cells that lose their
\* records, computeds that are collected.
MCTouches(p) ==
    CASE p = "siblings" -> {a1, e2, e3}
      [] p = "newcomer" -> {a1, e2, e3, e5}
      [] p = "lanes" -> {a1, e2, e4}
      [] p = "takeover" -> {a1, e4, w1}
      [] p = "detach" -> {a1, a2, e1}
      [] p = "collect" -> {a1, d1, e1}
      [] p = "watch" -> {a1, d1, w1}

MCMaxClock(p) == IF p = "newcomer" THEN 2 ELSE IF p \in {"siblings", "detach"} THEN 4 ELSE 3
=============================================================================
