---------------------------- MODULE CoreRequest ----------------------------
(***************************************************************************)
(* The requests of a behaviour, in the order in which they arrive.         *)
(***************************************************************************)
EXTENDS Naturals

CONSTANT Requests

ASSUME RequestsAssumption == Requests \subseteq Nat \ {0}
=============================================================================
