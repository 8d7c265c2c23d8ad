---------------------------- MODULE MCReactHost ----------------------------
(***************************************************************************)
(* Instances of ReactHost: two roots that mount, hide, come back and       *)
(* unmount while transitions are pending.  Everything is bounded in the    *)
(* module; liveness is checked, so no symmetry.                            *)
(***************************************************************************)
EXTENDS ReactHost
=============================================================================
