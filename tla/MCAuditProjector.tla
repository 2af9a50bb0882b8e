-------------------------- MODULE MCAuditProjector --------------------------
(***************************************************************************)
(* Instances of AuditProjector for TLC: three envelopes, two of them in    *)
(* one conversation, one outside any.                                      *)
(***************************************************************************)
EXTENDS AuditProjector, TLC
CONSTANTS e1, e2, e3, c1, none

MCUlid == e1 :> 1 @@ e2 :> 2 @@ e3 :> 3
MCConvOf == e1 :> c1 @@ e2 :> none @@ e3 :> c1

(* Bounds on the faults of a behaviour, one definition per run.            *)
NoFaults == [k \in FaultKinds |-> 0]
ExclusiveFaults == [NoFaults EXCEPT !["crash"] = 1, !["error"] = 1, !["vault"] = 1]
BesideFaults == [NoFaults EXCEPT !["boot"] = 1, !["error"] = 1, !["vault"] = 1]
=============================================================================
