----------------------------- MODULE MCPokeWalk -----------------------------
(***************************************************************************)
(* Every graph of a root atom and two computeds over it, the second of     *)
(* which may read the first (a diamond), with every order of the           *)
(* subscriber lists.  Each watcher and effect subscribes to one producer.  *)
(***************************************************************************)
EXTENDS PokeWalk, SequencesExt

MCProducers == {1, 2, 3}
MCRoot == 1

\* Who reads whom: computed 2 reads the root, computed 3 what deps3 says.
ComputedsOf(p, deps3) ==
    (IF p = 1 THEN {2} ELSE {}) \cup (IF p \in deps3 THEN {3} ELSE {})

Orders(p, deps3, reads) ==
    SetToSeqs(ComputedsOf(p, deps3) \cup {w \in Watchers \cup Effects : reads[w] = p})

MCShapes ==
    UNION {{<<s1, s2, s3>> : s1 \in Orders(1, deps3, reads),
                             s2 \in Orders(2, deps3, reads),
                             s3 \in Orders(3, deps3, reads)} :
              deps3 \in {{1}, {2}, {1, 2}}, reads \in [Watchers \cup Effects -> MCProducers]}
=============================================================================
