------------------------------- MODULE MCMate -------------------------------
(***************************************************************************)
(* Instances of MateEngineM for TLC: two contexts that timers start and    *)
(* one that runs once, and two shared variables.                           *)
(***************************************************************************)
EXTENDS MateEngineM

CONSTANTS t0, t1, once, a, b

MCUses == [c \in Contexts |-> IF c = t0 THEN {a, b} ELSE {a}]

MCNewUses == {{b}}

=============================================================================
