------------------------------ MODULE MCSched -------------------------------
(***************************************************************************)
(* Instance of Sched for TLC, and the bugs its properties are tested with. *)
(***************************************************************************)
EXTENDS Sched

=============================================================================
