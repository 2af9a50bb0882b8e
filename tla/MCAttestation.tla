--------------------------- MODULE MCAttestation ---------------------------
(***************************************************************************)
(* An instance of Attestation for TLC: two publishers, two days of two     *)
(* ticks, and a host that is on UTC or a tick ahead of it.                 *)
(***************************************************************************)
EXTENDS Attestation, TLC

MCOffsets == 0 .. 1
(* Publishers are interchangeable.                                         *)
MCSymmetry == Permutations(Publishers)
=============================================================================
