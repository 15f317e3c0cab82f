------------------------------- MODULE MCDrip -------------------------------
(***************************************************************************)
(* Instance of DripM for TLC.                                              *)
(***************************************************************************)
EXTENDS DripM, TLC

CONSTANTS a, b

\* Two nodes that hear each other.
Pair == {<<a, b>>, <<b, a>>}

=============================================================================
