---------------------------- MODULE AuditPromise ----------------------------
(***************************************************************************)
(* What the audit pipeline promises about one envelope, from the bus to    *)
(* the ledger: once queued it is stored; or it is refused, because it is   *)
(* bad or could not be verified; or it is lost, after max_deliver failed   *)
(* deliveries.  Stored is for ever.  The abstract specification that       *)
(* AuditAppender implements.                                               *)
(***************************************************************************)
EXTENDS Naturals

CONSTANTS
    Envelopes,
    BadEnvelopes,  \* the ones that do not parse or do not verify
    MaxDeliver

VARIABLES
    fate,       \* what has become of each envelope
    failures,   \* failures that can cost a delivery, so far
    outages     \* times Vault could not be asked, so far

Fates == {"idle", "queued", "stored", "refused", "lost"}

Init ==
    /\ fate = [e \in Envelopes |-> "idle"]
    /\ failures = 0
    /\ outages = 0

(***************************************************************************)
(* A step may decide the fate of several envelopes: a crash may lose every *)
(* message in hand that was at its last delivery.                          *)
(***************************************************************************)
Publish(e) == fate[e] = "idle" /\ fate'[e] = "queued"

Store(e) ==
    /\ fate[e] \in {"queued", "refused"}
    /\ e \notin BadEnvelopes
    /\ fate'[e] = "stored"

Refuse(e) ==
    /\ fate[e] = "queued"
    /\ e \in BadEnvelopes \/ outages' > 0
    /\ fate'[e] = "refused"

Lose(e) ==
    /\ fate[e] = "queued"
    /\ failures' >= MaxDeliver
    /\ fate'[e] = "lost"

Keep(e) == fate'[e] = fate[e]

Next ==
    /\ failures' \in {failures, failures + 1}
    /\ outages' \in {outages, outages + 1}
    /\ fate' \in [Envelopes -> Fates]
    /\ \A e \in Envelopes :
           Publish(e) \/ Store(e) \/ Refuse(e) \/ Lose(e) \/ Keep(e)

vars == <<fate, failures, outages>>

Spec == Init /\ [][Next]_vars
=============================================================================
