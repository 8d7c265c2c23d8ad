--------------------------- MODULE MCEffectLanes ---------------------------
(***************************************************************************)
(* Instances of EffectLanes.  The lanes of the effects are chosen by Init, *)
(* so that one run covers every assignment.                                *)
(***************************************************************************)
EXTENDS EffectLanes
=============================================================================
