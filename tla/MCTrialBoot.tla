---------------------------- MODULE MCTrialBoot ----------------------------
(***************************************************************************)
(* The instance of TrialBoot that TLC checks: a tick is a second and the   *)
(* timeouts are those of the code.                                         *)
(***************************************************************************)
EXTENDS TrialBoot
=============================================================================
