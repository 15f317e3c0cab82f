-------------------------------- MODULE MCAM --------------------------------
(***************************************************************************)
(* Instance of AMStandard for TLC.                                         *)
(***************************************************************************)
EXTENDS AMStandard

\* The sendDone event of AMStandard goes to the clients alone.
ClientsOnly == <<"client">>

=============================================================================
