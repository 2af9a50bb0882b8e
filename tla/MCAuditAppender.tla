-------------------------- MODULE MCAuditAppender --------------------------
(***************************************************************************)
(* Instances of AuditAppender for TLC: three envelopes on two              *)
(* subjects whose ULIDs do not follow the order they are polled in.        *)
(***************************************************************************)
EXTENDS AuditAppender, TLC
CONSTANTS e1, e2, e3

MCSubjects == <<"oc.event", "oc.a2a">>
MCSubjectOf == e1 :> 2 @@ e2 :> 1 @@ e3 :> 1
MCUlid == e1 :> 1 @@ e2 :> 2 @@ e3 :> 3

(* Bounds on the faults of a behaviour, one definition per run.            *)
NoFaults == [k \in FaultKinds |-> 0]
SafetyFaults ==
    [NoFaults EXCEPT !["crash"] = 1, !["reply"] = 1, !["write"] = 1, !["ack"] = 1]
PromiseFaults ==
    [NoFaults EXCEPT !["boot"] = 1, !["crash"] = 1, !["ack"] = 1, !["write"] = 1, !["vault"] = 1]
=============================================================================
