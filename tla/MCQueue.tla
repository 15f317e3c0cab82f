------------------------------ MODULE MCQueue -------------------------------
(***************************************************************************)
(* Instance of QueuedSendM for TLC.                                        *)
(***************************************************************************)
EXTENDS QueuedSendM

\* The sendDone event goes to QueuedSendM and to the direct clients.
QueueThenClients == <<"queue", "client">>

QueueService == {"QueueServiceTask"}

=============================================================================
