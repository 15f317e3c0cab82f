------------------------------ MODULE MCTimer -------------------------------
(***************************************************************************)
(* Instance of TimerM for TLC: the configurations give every constant.     *)
(***************************************************************************)
EXTENDS TimerM

=============================================================================
