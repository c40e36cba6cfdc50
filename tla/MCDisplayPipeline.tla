-------------------------- MODULE MCDisplayPipeline --------------------------
(***************************************************************************)
(* DisplayPipeline for TLC, by itself: what happens with no race excluded. *)
(***************************************************************************)
EXTENDS DisplayPipeline

MCNoTrouble == {<<1, 0>>}
MCOneTrouble == {<<1, 1>>}
=============================================================================
