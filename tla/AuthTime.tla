------------------------------ MODULE AuthTime ------------------------------
(***************************************************************************)
(* The clock the authentication code is given.  lonejson never reads a      *)
(* clock: every call takes the current time from its caller, in seconds, as *)
(* a signed 64-bit number.                                                  *)
(***************************************************************************)
EXTENDS Integers

CONSTANT Int64Max  \* the largest time the code can represent

ASSUME TimeAssumption == Int64Max \in Nat

VARIABLE clock

TimeInit == clock = 0

Tick(bound) == clock < bound /\ clock < Int64Max /\ clock' = clock + 1
=============================================================================
