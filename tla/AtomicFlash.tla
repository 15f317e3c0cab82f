---------------------------- MODULE AtomicFlash -----------------------------
(***************************************************************************)
(* What InternalFlash promises to the boot loader and to Deluge: a few     *)
(* bytes that survive a loss of power, and a write that a loss of power    *)
(* makes happen whole or not at all.                                       *)
(***************************************************************************)
CONSTANTS
  Addresses,
  Byte,
  NoRequest

VARIABLES
  contents,   \* what a read returns
  request,    \* the contents a write in progress is to leave, or NoRequest
  outcome     \* how the last write ended: "returned", or "lost" with the power

vars == <<contents, request, outcome>>

Contents == [Addresses -> Byte]

Init ==
  /\ contents \in Contents
  /\ request = NoRequest
  /\ outcome = "lost"

Ask ==
  /\ request = NoRequest
  /\ request' \in Contents
  /\ UNCHANGED <<contents, outcome>>

Complete ==
  /\ request # NoRequest
  /\ contents' = request
  /\ request' = NoRequest
  /\ outcome' = "returned"

\* Power is lost.
Forget ==
  /\ request' = NoRequest
  /\ outcome' = "lost"
  /\ UNCHANGED contents

Next == Ask \/ Complete \/ Forget

Spec == Init /\ [][Next]_vars

=============================================================================
