---------------------------- MODULE MCModeSwitch ----------------------------
(***************************************************************************)
(* An instance of ModeSwitch: one exception for each kind of handler, with *)
(* and without an error code.                                              *)
(***************************************************************************)
EXTENDS ModeSwitch

MCExceptions == {0, 3, 5, 8, 14}
=============================================================================
