----------------------------- MODULE JetStream -----------------------------
(***************************************************************************)
(* NATS JetStream, as core/app/bus/nats_client.py and the appender use it  *)
(* (external): work sits in a stream; each subject filter has one durable  *)
(* pull consumer with explicit acknowledgement, redelivery after a NAK or  *)
(* after ack_wait, and at most max_deliver deliveries of a message.        *)
(* NAK delays and ack_wait are timers: they are modelled as "some time     *)
(* later".  The stream's max_age (7 or 30 days) is not modelled.           *)
(***************************************************************************)
EXTENDS AuditEvents, Naturals, Sequences

CONSTANTS
    SUBJECTS,   \* the subject filters, in the order the appender polls them
    SubjectOf,  \* the filter each envelope's subject matches
    MaxDeliver  \* ConsumerConfig.max_deliver: 5 in the code

ASSUME StreamAssumption ==
    /\ SubjectOf \in [Envelopes -> DOMAIN SUBJECTS]
    /\ MaxDeliver \in Nat \ {0}
    /\ Len(SUBJECTS) \in Nat \ {0}
    /\ DOMAIN SUBJECTS = 1 .. Len(SUBJECTS)

VARIABLES
    stream,     \* published envelopes, in stream order
    delivery,   \* what the consumer of its subject holds for each envelope
    deliveries  \* how often each envelope has been delivered

streamVars == <<stream, delivery, deliveries>>

(***************************************************************************)
(* absent: not published.  new: never delivered.  ready: to be delivered   *)
(* again.  pending: delivered, not acknowledged.  acked: settled.          *)
(* dead: max_deliver deliveries used up, never offered again.              *)
(***************************************************************************)
DeliveryStates == {"absent", "new", "ready", "pending", "acked", "dead"}

StreamTypeOK ==
    /\ stream \in Seq(Envelopes)
    /\ delivery \in [Envelopes -> DeliveryStates]
    /\ deliveries \in [Envelopes -> 0 .. MaxDeliver]

StreamInit ==
    /\ stream = <<>>
    /\ delivery = [e \in Envelopes |-> "absent"]
    /\ deliveries = [e \in Envelopes |-> 0]

(***************************************************************************)
(* bus.publish(): JetStream stores the message and answers with a PubAck.  *)
(***************************************************************************)
StreamPublish(e) ==
    /\ delivery[e] = "absent"
    /\ stream' = Append(stream, e)
    /\ delivery' = [delivery EXCEPT ![e] = "new"]
    /\ UNCHANGED deliveries

(***************************************************************************)
(* First deliveries follow the stream order of the subject; a redelivery   *)
(* comes whenever its timer has run out.                                   *)
(***************************************************************************)
Deliverable(s) ==
    {e \in Envelopes :
        /\ SubjectOf[e] = s
        /\ \/ delivery[e] = "ready"
           \/ \E i \in DOMAIN stream :
                /\ stream[i] = e
                /\ delivery[e] = "new"
                /\ \A j \in 1 .. i - 1 :
                      ~ (SubjectOf[stream[j]] = s /\ delivery[stream[j]] = "new")}

StreamDeliver(e) ==
    /\ delivery' = [delivery EXCEPT ![e] = "pending"]
    /\ deliveries' = [deliveries EXCEPT ![e] = @ + 1]
    /\ UNCHANGED stream

(***************************************************************************)
(* The consumer's record of e after msg.ack(), and after msg.nak() or the  *)
(* end of ack_wait.  The acknowledgement of a delivery that has timed out  *)
(* still settles the message; a NAK of one has no effect.                  *)
(***************************************************************************)
AfterAck(e) ==
    IF delivery[e] \in {"pending", "ready"} THEN "acked" ELSE delivery[e]

AfterRelease(e) ==
    IF delivery[e] = "pending"
    THEN IF deliveries[e] < MaxDeliver THEN "ready" ELSE "dead"
    ELSE delivery[e]
=============================================================================
