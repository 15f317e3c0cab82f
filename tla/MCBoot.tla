------------------------------- MODULE MCBoot -------------------------------
(***************************************************************************)
(* Instance of TOSBootM for TLC.                                           *)
(***************************************************************************)
EXTENDS TOSBootM

Bytes == Slots \union {0, 1, 2, 255}

=============================================================================
