-------------------------- MODULE MCAuditPipeline --------------------------
(***************************************************************************)
(* An instance of AuditPipeline for TLC: two envelopes of two subjects,    *)
(* which the appender may store in either order of their ULIDs.            *)
(***************************************************************************)
EXTENDS AuditPipeline, TLC
CONSTANTS e1, e2

MCSubjects == <<"oc.event", "oc.a2a">>
MCSubjectOf == e1 :> 1 @@ e2 :> 2
MCUlid == e1 :> 1 @@ e2 :> 2

(* Bounds on the faults of a behaviour.                                    *)
MCFaults ==
    [k \in FaultKinds |-> IF k \in {"boot", "crash", "reply"} THEN 1 ELSE 0]
MCProjectorFaults == [boot |-> 1, crash |-> 1, error |-> 1, vault |-> 0]
=============================================================================
