----------------------------- MODULE MCFramer -------------------------------
(***************************************************************************)
(* Instance of TOSBaseM on FramerM for TLC.                                *)
(***************************************************************************)
EXTENDS TOSBaseM

=============================================================================
