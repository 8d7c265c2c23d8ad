------------------------------- MODULE Lists -------------------------------
(***************************************************************************)
(* Helpers on sequences for the modules that are proved about: tlapm       *)
(* follows recursive functions, and neither RECURSIVE nor SelectSeq.       *)
(***************************************************************************)
EXTENDS Naturals, Sequences

Members(s) == {s[i] : i \in DOMAIN s}

Distinct(s) == \A i, j \in DOMAIN s : i # j => s[i] # s[j]

\* The entries of list that are in S, in their order.
Only(list, S) ==
    LET kept[i \in 0..Len(list)] ==
            IF i = 0 THEN <<>>
            ELSE IF list[i] \in S THEN Append(kept[i-1], list[i]) ELSE kept[i-1]
    IN  kept[Len(list)]
=============================================================================
