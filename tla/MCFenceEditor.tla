----------------------------- MODULE MCFenceEditor ----------------------------
(***************************************************************************)
(* A few fences drawn, saved and reloaded.                                 *)
(***************************************************************************)
EXTENDS FenceEditor
=============================================================================
