------------------------ MODULE AuditAppenderProofs ------------------------
(***************************************************************************)
(* Proofs about AuditAppender: for any envelopes, ULIDs, subjects, batch   *)
(* size, max_deliver and number of faults.  The last part is about         *)
(* AuditPipeline, the appender and the projector beside each other: each   *)
(* of its steps is a step of the appender or leaves the appender alone.    *)
(***************************************************************************)
EXTENDS AuditPipeline, AuditLedgerProofs, SequenceTheorems, FiniteSetTheorems,
        TLAPS

-----------------------------------------------------------------------------
(* Lemmas about the operators of the model.                                *)

(* The rest of a non-empty batch.                                          *)
LEMMA TailFacts ==
    ASSUME NEW S, NEW s \in Seq(S), s # <<>>
    PROVE  /\ Head(s) \in S
           /\ Head(s) = s[1]
           /\ Tail(s) \in Seq(S)
           /\ Len(s) \in Nat \ {0}
           /\ Len(Tail(s)) = Len(s) - 1
           /\ Len(s) = 1 <=> Tail(s) = <<>>
           /\ \A i \in 1 .. Len(Tail(s)) : Tail(s)[i] = s[i + 1]
<1>1. /\ Head(s) \in S /\ Tail(s) \in Seq(S) /\ Len(Tail(s)) = Len(s) - 1
      /\ \A i \in 1 .. Len(Tail(s)) : Tail(s)[i] = s[i + 1]
  BY HeadTailProperties
<1>2. Len(s) \in Nat \ {0} /\ Head(s) = s[1]
  BY EmptySeq
<1>3. Len(Tail(s)) = 0 => Tail(s) = <<>>
  BY <1>1, EmptySeq
<1>4. Tail(s) = <<>> => Len(Tail(s)) = 0
  BY EmptySeq
<1> QED
  BY <1>1, <1>2, <1>3, <1>4

(* A fault of one kind moves that counter by one and no other.             *)
LEMMA FaultFacts ==
    ASSUME faults \in [FaultKinds -> Nat], NEW k \in FaultKinds, Fault(k)
    PROVE  /\ faults' \in [FaultKinds -> Nat]
           /\ faults'[k] = faults[k] + 1
           /\ \A j \in FaultKinds \ {k} : faults'[j] = faults[j]
  BY DEF Fault

(* Deliverable messages are known to the stream and not exhausted; this    *)
(* and the facts about AfterAck and AfterRelease type the delivery state.  *)
LEMMA DeliveryFacts ==
    ASSUME StreamTypeOK, NEW e \in Envelopes
    PROVE  /\ AfterAck(e) \in DeliveryStates
           /\ AfterRelease(e) \in DeliveryStates
           /\ \A s \in {AfterAck(e), AfterRelease(e)} :
                SettledAs(e, s) => StreamTypeOK'
  BY DEF AfterAck, AfterRelease, DeliveryStates, StreamTypeOK, SettledAs

-----------------------------------------------------------------------------
(* Type correctness.                                                       *)

TypeInv == TypeOK /\ ReadyHasDeliveriesLeft

(* Initially every variable has its type.                                  *)
LEMMA InitTypeInv == Init => TypeInv
<1> SUFFICES ASSUME Init PROVE TypeInv
  OBVIOUS
<1>1. LedgerTypeOK
  BY EmptySeq DEF Init, LedgerInit, LedgerTypeOK, Hashes, NoVersion, Version
<1>2. StreamTypeOK /\ ReadyHasDeliveriesLeft
  BY EmptySeq, StreamAssumption
  DEF Init, StreamInit, StreamTypeOK, DeliveryStates, ReadyHasDeliveriesLeft
<1>3. turn \in DOMAIN SUBJECTS
  BY StreamAssumption DEF Init
<1>4. chain_head \in Hashes
  BY <1>1 DEF Init, Hashes, LedgerTypeOK
<1>5. batch \in Seq(Envelopes) /\ Len(batch) <= MaxBatch
  BY EmptySeq, AppenderAssumption DEF Init
<1> QED
  BY <1>1, <1>2, <1>3, <1>4, <1>5
  DEF Init, TypeInv, TypeOK, Places, Busy, FaultKinds

(* The stream's half of TypeInv survives acks, releases and crashes.       *)
LEMMA SettleKeepsStreamTypes ==
    ASSUME StreamTypeOK, ReadyHasDeliveriesLeft, NEW e \in Envelopes,
           \/ SettledAs(e, AfterAck(e))
           \/ SettledAs(e, AfterRelease(e))
           \/ UNCHANGED streamVars
    PROVE  StreamTypeOK' /\ ReadyHasDeliveriesLeft'
  BY StreamAssumption
  DEF StreamTypeOK, ReadyHasDeliveriesLeft, SettledAs, AfterAck, AfterRelease,
      DeliveryStates, streamVars

(* The appender's half of TypeInv survives the end of _process().          *)
LEMMA DoneTypes ==
    ASSUME TypeOK, pc \in Busy, Done
    PROVE  /\ pc' \in {"fetch", "screen"}
           /\ psubs' \subseteq DOMAIN SUBJECTS
           /\ turn' \in DOMAIN SUBJECTS
           /\ batch' \in Seq(Envelopes)
           /\ Len(batch') <= MaxBatch
           /\ pc' = "screen" => batch' # <<>>
           /\ pc' = "fetch" <=> batch' = <<>>
           /\ env' = NoBody
           /\ sealed' \in BOOLEAN
<1>1. batch \in Seq(Envelopes) /\ batch # <<>> /\ Len(batch) <= MaxBatch
  BY DEF TypeOK
<1>2. NextTurn \in DOMAIN SUBJECTS
  BY StreamAssumption DEF NextTurn, TypeOK
<1>3. /\ Tail(batch) \in Seq(Envelopes)
      /\ Len(batch) \in Nat \ {0}
      /\ Len(Tail(batch)) = Len(batch) - 1
      /\ Len(batch) = 1 <=> Tail(batch) = <<>>
  BY <1>1, TailFacts
<1>4. psubs \subseteq DOMAIN SUBJECTS /\ turn \in DOMAIN SUBJECTS
  BY DEF TypeOK
<1>5. batch' = Tail(batch) /\ psubs' = psubs /\ env' = NoBody /\ sealed' = FALSE
  BY DEF Done
<1>6. IF Len(batch) = 1 THEN pc' = "fetch" /\ turn' = NextTurn
                        ELSE pc' = "screen" /\ turn' = turn
  BY DEF Done
<1>7. MaxBatch \in Nat
  BY AppenderAssumption
<1>8. pc' \in {"fetch", "screen"} /\ turn' \in DOMAIN SUBJECTS
  BY <1>2, <1>4, <1>6
<1>9. Len(batch') <= MaxBatch
  BY <1>1, <1>3, <1>5, <1>7
<1>10. pc' = "fetch" <=> batch' = <<>>
  BY <1>3, <1>5, <1>6
<1> QED
  BY <1>3, <1>4, <1>5, <1>8, <1>9, <1>10

(* A step keeps the types.                                                 *)
LEMMA NextTypeInv ==
    ASSUME TypeInv, [Next]_vars
    PROVE  TypeInv'
<1> USE DEF TypeInv, vars, ledgerVars, streamVars, localVars
<1>0. batch # <<>> => Head(batch) \in Envelopes
  BY TailFacts DEF TypeOK
<1>1. ASSUME NEW e \in Envelopes, Publish(e) PROVE TypeInv'
  <2>1. StreamTypeOK' /\ ReadyHasDeliveriesLeft'
    BY <1>1, AppendFacts DEF Publish, StreamPublish, StreamTypeOK, DeliveryStates,
       ReadyHasDeliveriesLeft, TypeOK
  <2> QED
    BY <1>1, <2>1 DEF Publish, TypeOK, LedgerTypeOK, Hashes
<1>2. ASSUME Starting PROVE TypeInv'
  <2>1. \A e \in LatestScanned : ledger[e].id \in Hashes
    BY DEF LatestScanned, Scan, Stored, TypeOK, LedgerTypeOK
  <2>2. 0 \in Hashes
    BY DEF TypeOK, LedgerTypeOK, Hashes
  <2>3. StreamTypeOK' /\ ReadyHasDeliveriesLeft' /\ LedgerTypeOK'
    BY <1>2 DEF Starting, BootWithoutImmudb, BootWithoutJetStream, Boot, BootImpaired,
       JetStreamWaitTimesOut, Subscribed, TypeOK, StreamTypeOK, LedgerTypeOK, Hashes,
       ReadyHasDeliveriesLeft
  <2>4. CASE BootWithoutImmudb
    BY <2>3, <2>4, FaultFacts DEF BootWithoutImmudb, TypeOK, Places, Busy, FaultKinds, LedgerTypeOK, Hashes
  <2>5. CASE BootWithoutJetStream
    BY <2>1, <2>2, <2>3, <2>5, FaultFacts DEF BootWithoutJetStream, SeedChainHead, TypeOK, Places,
       Busy, FaultKinds, Hashes, LedgerTypeOK
  <2>6. CASE JetStreamWaitTimesOut
    BY <2>3, <2>6 DEF JetStreamWaitTimesOut, TypeOK, Places, Busy, Hashes
  <2>7. CASE Boot
    BY <2>1, <2>2, <2>3, <2>7, StreamAssumption, SMTT(20) DEF Boot, Subscribed, SeedChainHead, TypeOK,
       Places, Busy, Hashes
  <2>8. ASSUME NEW S \in SUBSET DOMAIN SUBJECTS, BootImpaired(S)
        PROVE  TypeInv'
    BY <2>1, <2>2, <2>3, <2>8, StreamAssumption, FaultFacts, SMTT(20) DEF BootImpaired, Subscribed,
       SeedChainHead, TypeOK, Places, Busy, FaultKinds, Hashes
  <2> QED
    BY <1>2, <2>4, <2>5, <2>6, <2>7, <2>8 DEF Starting
<1>3. ASSUME NEW e \in Envelopes, Deliver(e) PROVE TypeInv'
  <2>1. StreamTypeOK' /\ ReadyHasDeliveriesLeft'
    BY <1>3, StreamAssumption DEF Deliver, StreamDeliver, Deliverable, StreamTypeOK,
       DeliveryStates, ReadyHasDeliveriesLeft, TypeOK
  <2> QED
    BY <1>3, <2>1, AppendFacts, AppenderAssumption, SMTT(20)
    DEF Deliver, TypeOK, Places, Busy, LedgerTypeOK, Hashes
<1>4. CASE FetchReturns
  BY <1>4 DEF FetchReturns, TypeOK, Places, Busy, LedgerTypeOK, Hashes, StreamTypeOK,
     ReadyHasDeliveriesLeft
<1>5. CASE FetchTimesOut
  <2>1. NextTurn \in DOMAIN SUBJECTS
    BY StreamAssumption DEF NextTurn, TypeOK
  <2> QED
    BY <1>5, <2>1 DEF FetchTimesOut, TypeOK, Places, Busy, LedgerTypeOK, Hashes, StreamTypeOK,
       ReadyHasDeliveriesLeft
<1>6. ASSUME Processing PROVE TypeInv'
  <2>1. CASE Refuse
    <3>1. StreamTypeOK' /\ ReadyHasDeliveriesLeft' /\ faults' \in [FaultKinds -> Nat]
      BY <2>1, <1>0, SettleKeepsStreamTypes, FaultFacts
      DEF Refuse, SendAck, TypeOK, Busy, FaultKinds
    <3> QED
      BY <2>1, <1>0, <3>1, DoneTypes
      DEF Refuse, TypeOK, Places, Busy, LedgerTypeOK, Hashes
  <2>2. CASE RefuseUnverifiable
    <3>1. StreamTypeOK' /\ ReadyHasDeliveriesLeft' /\ faults' \in [FaultKinds -> Nat]
      BY <2>2, <1>0, SettleKeepsStreamTypes, FaultFacts
      DEF RefuseUnverifiable, TypeOK, Busy, FaultKinds
    <3> QED
      BY <2>2, <1>0, <3>1, DoneTypes
      DEF RefuseUnverifiable, TypeOK, Places, Busy, LedgerTypeOK, Hashes
  <2>3. CASE Accept
    BY <2>3 DEF Accept, TypeOK, Places, Busy, LedgerTypeOK, Hashes, StreamTypeOK,
       ReadyHasDeliveriesLeft
  <2>4. ASSUME NEW f \in Forms, Prepare(f) \/ PrepareUnsigned(f) PROVE TypeInv'
    <3>1. env' \in Body /\ env'.env = Head(batch)
      BY <2>4, <1>0 DEF Prepare, PrepareUnsigned, Link, Body, TypeOK, Busy, Hashes,
         LedgerTypeOK
    <3>2. faults' \in [FaultKinds -> Nat]
      BY <2>4, FaultFacts DEF Prepare, PrepareUnsigned, TypeOK, FaultKinds
    <3> QED
      BY <2>4, <3>1, <3>2 DEF Prepare, PrepareUnsigned, Link, TypeOK, Places, Busy,
         LedgerTypeOK, Hashes, StreamTypeOK, ReadyHasDeliveriesLeft
  <2>5. CASE Commit
    <3>1. LedgerTypeOK' /\ Len(bodies') >= Len(bodies)
      BY <2>5, SetEnvelopeFacts DEF Commit, TypeOK
    <3>2. chain_head' \in Hashes'
      BY <2>5, <3>1 DEF Commit, TypeOK, Hashes, LedgerTypeOK
    <3> QED
      BY <2>5, <3>1, <3>2 DEF Commit, TypeOK, Places, Busy, StreamTypeOK,
         ReadyHasDeliveriesLeft
  <2>6. CASE WriteFails
    <3>1. StreamTypeOK' /\ ReadyHasDeliveriesLeft' /\ faults' \in [FaultKinds -> Nat]
      BY <2>6, <1>0, SettleKeepsStreamTypes, FaultFacts
      DEF WriteFails, SendNak, TypeOK, Busy, FaultKinds
    <3> QED
      BY <2>6, <3>1, DoneTypes
      DEF WriteFails, TypeOK, Places, Busy, LedgerTypeOK, Hashes
  <2>7. CASE Acknowledge
    <3>1. StreamTypeOK' /\ ReadyHasDeliveriesLeft' /\ faults' \in [FaultKinds -> Nat]
      BY <2>7, <1>0, SettleKeepsStreamTypes, FaultFacts
      DEF Acknowledge, SendAck, TypeOK, Busy, FaultKinds
    <3>2. chain_head' \in Hashes
      BY <2>7, <1>0 DEF Acknowledge, TypeOK, LedgerTypeOK, Busy
    <3> QED
      BY <2>7, <3>1, <3>2, DoneTypes
      DEF Acknowledge, TypeOK, Places, Busy, LedgerTypeOK, Hashes
  <2>8. CASE ReplyLost
    <3>1. StreamTypeOK' /\ ReadyHasDeliveriesLeft' /\ faults' \in [FaultKinds -> Nat]
      BY <2>8, <1>0, SettleKeepsStreamTypes, FaultFacts
      DEF ReplyLost, SendNak, TypeOK, Busy, FaultKinds
    <3> QED
      BY <2>8, <3>1, DoneTypes
      DEF ReplyLost, TypeOK, Places, Busy, LedgerTypeOK, Hashes
  <2> QED
    BY <1>6, <2>1, <2>2, <2>3, <2>4, <2>5, <2>6, <2>7, <2>8 DEF Processing
<1>7. ASSUME NEW e \in Envelopes, RedeliverAbandoned(e) PROVE TypeInv'
  <2>1. StreamTypeOK' /\ ReadyHasDeliveriesLeft'
    BY <1>7, SettleKeepsStreamTypes DEF RedeliverAbandoned, TypeOK
  <2> QED
    BY <1>7, <2>1 DEF RedeliverAbandoned, TypeOK, LedgerTypeOK, Hashes
<1>8. ASSUME NEW e \in Envelopes, AckWaitExpires(e) PROVE TypeInv'
  <2>1. StreamTypeOK' /\ ReadyHasDeliveriesLeft' /\ faults' \in [FaultKinds -> Nat]
    BY <1>8, SettleKeepsStreamTypes, FaultFacts DEF AckWaitExpires, TypeOK, FaultKinds
  <2> QED
    BY <1>8, <2>1 DEF AckWaitExpires, TypeOK, LedgerTypeOK, Hashes
<1>9. CASE Crash
  <2>1. /\ batch' \in Seq(Envelopes) /\ Len(batch') <= MaxBatch
        /\ faults' \in [FaultKinds -> Nat] /\ turn' \in DOMAIN SUBJECTS
    BY <1>9, EmptySeq, FaultFacts, StreamAssumption, AppenderAssumption
    DEF Crash, TypeOK, FaultKinds
  <2>2. StreamTypeOK' /\ ReadyHasDeliveriesLeft' /\ LedgerTypeOK' /\ chain_head' \in Hashes'
    BY <1>9 DEF Crash, TypeOK, StreamTypeOK, ReadyHasDeliveriesLeft, LedgerTypeOK, Hashes
  <2> QED
    BY <1>9, <2>1, <2>2 DEF Crash, TypeOK, Places, Busy
<1>10. CASE UNCHANGED vars
  BY <1>10 DEF TypeOK, LedgerTypeOK, StreamTypeOK, Hashes, ReadyHasDeliveriesLeft
<1> QED
  BY <1>1, <1>2, <1>3, <1>4, <1>5, <1>6, <1>7, <1>8, <1>9, <1>10 DEF Next

(* Every state of the appender and the bus is well typed: among others,    *)
(* the chain head is always the hash of a committed body, and no envelope  *)
(* is delivered more than max_deliver times.                               *)
THEOREM TypeCorrect == Spec => []TypeOK
<1>1. Init => TypeInv
  BY InitTypeInv
<1>2. TypeInv /\ [Next]_vars => TypeInv'
  BY NextTypeInv
<1>3. TypeInv => TypeOK
  BY DEF TypeInv
<1> QED
  BY <1>1, <1>2, <1>3, PTL DEF Spec

-----------------------------------------------------------------------------
(* What is in hand.                                                        *)

(* The end of _process() takes the head out of the hand, and nothing else. *)
LEMMA DoneHand ==
    ASSUME TypeOK, HandInv, pc \in Busy, Done
    PROVE  /\ batch' \in Seq(Envelopes)
           /\ \A i \in DOMAIN batch' :
                 i + 1 \in DOMAIN batch /\ batch'[i] = batch[i + 1]
           /\ \A i \in DOMAIN batch' : batch'[i] # Head(batch)
           /\ \A i, j \in DOMAIN batch' : batch'[i] = batch'[j] => i = j
           /\ pc' = "fetch" => batch' = <<>>
           /\ pc' \in {"fetch", "screen"}
           /\ 1 \in DOMAIN batch /\ batch[1] = Head(batch)
           /\ \A e \in Envelopes :
                 InHand(e) /\ e # Head(batch) => InHand(e)'
<1>1. /\ batch' = Tail(batch)
      /\ batch \in Seq(Envelopes) /\ batch # <<>>
  BY DEF Done, TypeOK
<1>2. /\ batch' \in Seq(Envelopes)
      /\ Len(batch) \in Nat \ {0}
      /\ DOMAIN batch = 1 .. Len(batch)
      /\ DOMAIN batch' = 1 .. Len(batch) - 1
      /\ Head(batch) = batch[1]
      /\ \A i \in 1 .. Len(batch') : batch'[i] = batch[i + 1]
  BY <1>1, TailFacts
<1>3. \A i \in DOMAIN batch' : i + 1 \in DOMAIN batch /\ batch'[i] = batch[i + 1]
  BY <1>2
<1>4. \A i, j \in DOMAIN batch : batch[i] = batch[j] => i = j
  BY DEF HandInv
<1>5. \A i \in DOMAIN batch' : batch'[i] # Head(batch)
  BY <1>2, <1>3, <1>4
<1>6. \A i, j \in DOMAIN batch' : batch'[i] = batch'[j] => i = j
  BY <1>2, <1>3, <1>4
<1>7. \A e \in Envelopes : InHand(e) /\ e # Head(batch) => InHand(e)'
  <2> SUFFICES ASSUME NEW e \in Envelopes, NEW i \in DOMAIN batch,
                      batch[i] = e, e # Head(batch)
               PROVE  \E j \in DOMAIN batch' : batch'[j] = e
    BY DEF InHand
  <2>1. i - 1 \in DOMAIN batch' /\ batch'[i - 1] = batch[i]
    BY <1>2
  <2> QED
    BY <2>1
<1> QED
  BY <1>2, <1>3, <1>5, <1>6, <1>7, DoneTypes DEF Busy

(* Acks, releases and lost acks concern one message: the others keep their *)
(* state, and an open one becomes settled, ready or dead.                  *)
LEMMA SettleFacts ==
    ASSUME StreamTypeOK, NEW e \in Envelopes,
           \/ SettledAs(e, AfterAck(e))
           \/ SettledAs(e, AfterRelease(e))
           \/ UNCHANGED streamVars
    PROVE  /\ \A f \in Envelopes \ {e} : delivery'[f] = delivery[f]
           /\ deliveries' = deliveries
           /\ delivery'[e] \in {delivery[e], "acked", "ready", "dead"}
           /\ delivery'[e] = "pending" => delivery[e] = "pending"
           /\ delivery'[e] = "absent" <=> delivery[e] = "absent"
           /\ SettledAs(e, AfterRelease(e)) =>
                 IF delivery[e] = "pending" THEN delivery'[e] \in {"ready", "dead"}
                                            ELSE delivery'[e] = delivery[e]
           /\ SettledAs(e, AfterAck(e)) =>
                 delivery'[e] = "acked" \/ delivery'[e] = delivery[e]
           /\ SettledAs(e, AfterAck(e)) => delivery'[e] # "pending"
  BY DEF StreamTypeOK, SettledAs, AfterAck, AfterRelease, streamVars

(* The actions that end the processing of the head of the batch.           *)
Finish == Refuse \/ RefuseUnverifiable \/ WriteFails \/ Acknowledge \/ ReplyLost

(* The end of the work on a message takes it out of the batch, acked or to *)
(* be delivered again, and leaves the ledger alone.                        *)
LEMMA FinishFacts ==
    ASSUME TypeOK, Finish
    PROVE  /\ pc \in Busy /\ Done
           /\ Head(batch) \in Envelopes
           /\ bodies' = bodies /\ ledger' = ledger
           /\ \/ SettledAs(Head(batch), AfterAck(Head(batch)))
              \/ SettledAs(Head(batch), AfterRelease(Head(batch)))
              \/ UNCHANGED streamVars
<1>1. pc \in Busy => Head(batch) \in Envelopes
  BY TailFacts DEF TypeOK
<1> QED
  BY <1>1 DEF Finish, Refuse, RefuseUnverifiable, WriteFails, Acknowledge, ReplyLost,
     SendAck, SendNak, Busy, ledgerVars

(* A step keeps a message in hand once, and open.                          *)
LEMMA NextHandInv ==
    ASSUME TypeInv, HandInv, [Next]_vars
    PROVE  HandInv'
<1> USE DEF TypeInv
<1>0. StreamTypeOK /\ batch \in Seq(Envelopes) /\ pc \in Places
  BY DEF TypeOK
<1>00. \A i \in DOMAIN batch : batch[i] \in Envelopes
  BY <1>0
<1>1. ASSUME NEW e \in Envelopes, Publish(e) PROVE HandInv'
  BY <1>0, <1>00, <1>1 DEF Publish, StreamPublish, HandInv, localVars, StreamTypeOK, Bad
<1>2. CASE Starting
  <2>1. batch' = batch /\ batch = <<>> /\ pc' \in {"ended", "no_js", "fetch"}
    BY <1>2 DEF Starting, BootWithoutImmudb, BootWithoutJetStream, Boot, BootImpaired,
       JetStreamWaitTimesOut, Subscribed, TypeOK, Busy
  <2> QED
    BY <2>1, EmptySeq DEF HandInv
<1>3. ASSUME NEW e \in Envelopes, Deliver(e) PROVE HandInv'
  <2>1. /\ batch' = Append(batch, e) /\ pc = "fetch" /\ pc' = pc
        /\ delivery[e] \in {"ready", "new"}
        /\ delivery' = [delivery EXCEPT ![e] = "pending"]
    BY <1>3 DEF Deliver, StreamDeliver, Deliverable
  <2>2. \A i \in DOMAIN batch : batch[i] # e /\ delivery[batch[i]] = "pending"
    BY <2>1 DEF HandInv
  <2>3. \A i \in DOMAIN batch' :
           /\ delivery'[batch'[i]] = "pending"
           /\ i \in 1 .. Len(batch) + 1
           /\ i # Len(batch) + 1 => i \in DOMAIN batch /\ batch'[i] = batch[i]
           /\ i = Len(batch) + 1 => batch'[i] = e
    BY <1>0, <1>00, <2>1, <2>2, AppendFacts DEF StreamTypeOK
  <2>4. \A i, j \in DOMAIN batch' : batch'[i] = batch'[j] => i = j
    BY <2>2, <2>3, <1>0 DEF HandInv
  <2> QED
    BY <2>1, <2>3, <2>4 DEF HandInv
<1>4. CASE FetchReturns \/ FetchTimesOut \/ Accept
  BY <1>4 DEF FetchReturns, FetchTimesOut, Accept, HandInv, streamVars, Bad
<1>5. CASE Finish
  <2>1. \A i \in DOMAIN batch' : delivery'[batch'[i]] = delivery[batch'[i]]
    BY <1>0, <1>00, <1>5, FinishFacts, DoneHand, SettleFacts
  <2> QED
    BY <1>5, <2>1, FinishFacts, DoneHand, EmptySeq DEF HandInv, Busy
<1>6. ASSUME NEW f \in Forms, Prepare(f) \/ PrepareUnsigned(f) PROVE HandInv'
  BY <1>6 DEF Prepare, PrepareUnsigned, Link, HandInv, streamVars, Bad
<1>7. CASE Commit
  BY <1>7 DEF Commit, HandInv, streamVars, Bad
<1>8. ASSUME NEW e \in Envelopes, RedeliverAbandoned(e) PROVE HandInv'
  <2>1. \A i \in DOMAIN batch : batch[i] # e
    BY <1>8 DEF RedeliverAbandoned, InHand
  <2> QED
    BY <1>0, <1>00, <1>8, <2>1, SettleFacts DEF RedeliverAbandoned, HandInv, localVars, Bad
<1>9. ASSUME NEW e \in Envelopes, AckWaitExpires(e) PROVE HandInv'
  BY <1>0, <1>00, <1>9, SettleFacts DEF AckWaitExpires, HandInv, localVars, Bad, Busy
<1>10. CASE Crash
  BY <1>10, EmptySeq DEF Crash, HandInv
<1>11. CASE UNCHANGED vars
  BY <1>11 DEF vars, localVars, streamVars, HandInv, Bad
<1> QED
  BY <1>1, <1>2, <1>3, <1>4, <1>5, <1>6, <1>7, <1>8, <1>9, <1>10, <1>11
  DEF Next, Processing, Finish

-----------------------------------------------------------------------------
(* What the ledger holds.                                                  *)

(* The actions that neither write the ledger nor move the appender into,   *)
(* or out of, the write of an envelope.                                    *)
LEMMA LedgerStable ==
    ASSUME TypeOK, [Next]_vars, ~ Commit
    PROVE  ledger' = ledger /\ bodies' = bodies /\ Stored' = Stored
  BY DEF Next, Starting, Processing, Publish, BootWithoutImmudb, BootWithoutJetStream,
     Boot, BootImpaired, Subscribed, JetStreamWaitTimesOut, Deliver, FetchReturns,
     FetchTimesOut, Refuse, RefuseUnverifiable, Accept, Prepare, PrepareUnsigned, Link,
     WriteFails, Acknowledge, ReplyLost, RedeliverAbandoned, AckWaitExpires, Crash,
     vars, ledgerVars, Stored

(* A commit stores the envelope in hand and removes nothing.               *)
LEMMA CommitFacts ==
    ASSUME TypeOK, Commit
    PROVE  /\ env \in Body /\ env.env = Head(batch) /\ Head(batch) \in Envelopes
           /\ Stored' = Stored \cup {Head(batch)}
           /\ pc = "write" /\ pc' = "reply"
           /\ Len(bodies) \in Nat /\ DOMAIN bodies = 1 .. Len(bodies)
           /\ DOMAIN bodies' = 1 .. Len(bodies')
           /\ \/ /\ bodies' = bodies
                 /\ ledger'[Head(batch)].id \in DOMAIN bodies
              \/ /\ Len(bodies') = Len(bodies) + 1
                 /\ ledger'[Head(batch)].id = Len(bodies) + 1
                 /\ bodies'[Len(bodies) + 1] = env
                 /\ \A i \in DOMAIN bodies : bodies'[i] = bodies[i]
           /\ bodies'[ledger'[Head(batch)].id] = env
<1>1. /\ env \in Body /\ env.env = Head(batch) /\ Head(batch) \in Envelopes
      /\ SetEnvelope(env, sealed) /\ LedgerTypeOK /\ sealed \in BOOLEAN
      /\ pc = "write" /\ pc' = "reply"
  BY TailFacts DEF Commit, TypeOK, Busy
<1>2. /\ LedgerTypeOK'
      /\ ledger'[env.env].id \in DOMAIN bodies'
      /\ bodies'[ledger'[env.env].id] = env
      /\ \A e \in Envelopes \ {env.env} : ledger'[e] = ledger[e]
  BY <1>1, SetEnvelopeFacts
<1>3. Len(bodies) \in Nat /\ DOMAIN bodies = 1 .. Len(bodies) /\ DOMAIN bodies' = 1 .. Len(bodies')
  BY <1>1, <1>2 DEF LedgerTypeOK
<1>4. Stored' = Stored \cup {Head(batch)}
  BY <1>1, <1>2, <1>3 DEF Stored
<1>5. CASE /\ bodies' = Append(bodies, env)
           /\ ledger' = [ledger EXCEPT ![env.env] =
                            [id |-> Len(bodies) + 1, sealed |-> sealed]]
  <2>1. bodies \in Seq(Body) /\ ledger \in [Envelopes -> Version]
    BY <1>1 DEF LedgerTypeOK
  <2>2. /\ Len(bodies') = Len(bodies) + 1
        /\ bodies'[Len(bodies) + 1] = env
        /\ \A i \in DOMAIN bodies : bodies'[i] = bodies[i]
    BY <1>1, <1>3, <1>5, <2>1, AppendFacts
  <2>3. ledger'[Head(batch)].id = Len(bodies) + 1
    BY <1>1, <1>5, <2>1
  <2> QED
    BY <1>1, <1>2, <1>3, <1>4, <2>2, <2>3
<1>6. CASE bodies' = bodies
  BY <1>1, <1>2, <1>3, <1>4, <1>6
<1> QED
  BY <1>1, <1>5, <1>6 DEF SetEnvelope

(* A step keeps what is known at each await of _process.                   *)
LEMMA NextWriteInv ==
    ASSUME TypeInv, WriteInv, [Next]_vars
    PROVE  WriteInv'
<1> USE DEF TypeInv
<1>1. CASE Commit
  BY <1>1, CommitFacts DEF WriteInv, Commit
<1>2. CASE Finish
  BY <1>2, FinishFacts, DoneTypes DEF WriteInv
<1>3. ASSUME NEW f \in Forms, Prepare(f) \/ PrepareUnsigned(f) PROVE WriteInv'
  BY <1>3 DEF Prepare, PrepareUnsigned, Link, WriteInv
<1>4. CASE Starting
  BY <1>4 DEF Starting, BootWithoutImmudb, BootWithoutJetStream, Boot, BootImpaired,
     Subscribed, JetStreamWaitTimesOut, WriteInv
<1>5. CASE Crash
  BY <1>5 DEF Crash, WriteInv
<1>6. CASE ~ Commit /\ UNCHANGED <<pc, chain_head, env, batch>>
  <2>1. Stored' = Stored
    BY <1>6, LedgerStable
  <2> QED
    BY <1>6, <2>1 DEF WriteInv
<1>7. CASE FetchReturns \/ FetchTimesOut \/ Accept
  BY <1>7 DEF FetchReturns, FetchTimesOut, Accept, WriteInv
<1>8. ASSUME NEW e \in Envelopes, Deliver(e) PROVE WriteInv'
  BY <1>8 DEF Deliver, WriteInv
<1>9. (\E e \in Envelopes : Publish(e) \/ RedeliverAbandoned(e) \/ AckWaitExpires(e))
         \/ UNCHANGED vars
      => ~ Commit /\ UNCHANGED <<pc, chain_head, env, batch>>
  BY DEF Publish, RedeliverAbandoned, AckWaitExpires, vars, localVars, Commit
<1> QED
  BY <1>1, <1>2, <1>3, <1>4, <1>5, <1>6, <1>7, <1>8, <1>9 DEF Next, Processing, Finish

(* A step acknowledges only what is stored or refused.                     *)
LEMMA NextAccounted ==
    ASSUME TypeInv, HandInv, WriteInv, AckedIsAccountedFor, [Next]_vars
    PROVE  AckedIsAccountedFor'
<1> USE DEF TypeInv
<1>0. StreamTypeOK /\ Stored \subseteq Stored'
  BY LedgerStable, CommitFacts DEF TypeOK
<1>1. CASE Finish
  <2>1. SUFFICES ASSUME NEW e \in Envelopes, delivery'[e] = "acked", delivery[e] # "acked"
                 PROVE  e \in Stored' \/ e \in refused'
    BY <1>0, <1>1 DEF AckedIsAccountedFor, Finish, Refuse, RefuseUnverifiable, WriteFails,
       Acknowledge, ReplyLost
  <2>2. e = Head(batch)
    BY <1>0, <1>1, <2>1, FinishFacts, SettleFacts
  <2>3. ~ SettledAs(e, AfterRelease(e))
    BY <1>0, <2>1, SettleFacts
  <2>4. Refuse \/ RefuseUnverifiable \/ Acknowledge
    BY <1>1, <2>2, <2>3 DEF Finish, WriteFails, ReplyLost, SendNak
  <2> QED
    BY <1>0, <2>2, <2>4 DEF Refuse, RefuseUnverifiable, Acknowledge, WriteInv
<1>2. CASE ~ Finish
  <2>1. /\ refused' = refused
        /\ \A e \in Envelopes : delivery'[e] = "acked" => delivery[e] = "acked"
    BY <1>0, <1>2 DEF Next, Starting, Processing, Finish, Publish, StreamPublish,
       BootWithoutImmudb, BootWithoutJetStream, Boot, BootImpaired, Subscribed,
       JetStreamWaitTimesOut, Deliver, StreamDeliver, FetchReturns, FetchTimesOut,
       Accept, Prepare, PrepareUnsigned, Link, Commit, RedeliverAbandoned, AckWaitExpires,
       SettledAs, AfterRelease, Crash, vars, streamVars, StreamTypeOK
  <2> QED
    BY <1>0, <2>1 DEF AckedIsAccountedFor
<1> QED
  BY <1>1, <1>2

(* A step adds no link to a body that does not exist yet.                  *)
LEMMA NextWellFounded ==
    ASSUME TypeInv, WriteInv, ChainWellFounded, [Next]_vars
    PROVE  ChainWellFounded'
<1> USE DEF TypeInv
<1>1. CASE Commit
  <2>1. env.prev \in 0 .. Len(bodies)
    BY <1>1 DEF Commit, WriteInv, TypeOK, Hashes
  <2>2. CASE bodies' = bodies
    BY <2>2 DEF ChainWellFounded
  <2>3. CASE /\ Len(bodies') = Len(bodies) + 1
             /\ bodies'[Len(bodies) + 1] = env
             /\ \A i \in DOMAIN bodies : bodies'[i] = bodies[i]
    <3>1. /\ Len(bodies) \in Nat /\ DOMAIN bodies = 1 .. Len(bodies)
          /\ DOMAIN bodies' = 1 .. Len(bodies')
      BY <1>1, CommitFacts
    <3> QED
      BY <2>1, <2>3, <3>1 DEF ChainWellFounded
  <2> QED
    BY <1>1, <2>2, <2>3, CommitFacts
<1>2. CASE ~ Commit
  BY <1>2, LedgerStable DEF ChainWellFounded
<1> QED
  BY <1>1, <1>2

-----------------------------------------------------------------------------
(* What faults pay for.                                                    *)

(* The two sums of fault counters the properties speak of.                 *)
LEMMA FaultSums ==
    ASSUME faults \in [FaultKinds -> Nat]
    PROVE  /\ DeliveryFaults \in Nat /\ ForkFaults \in Nat
           /\ UNCHANGED faults =>
                 DeliveryFaults' = DeliveryFaults /\ ForkFaults' = ForkFaults
           /\ \A k \in {"crash", "reply"} : Fault(k) =>
                 DeliveryFaults' = DeliveryFaults + 1 /\ ForkFaults' = ForkFaults + 1
           /\ \A k \in {"write", "ack"} : Fault(k) =>
                 DeliveryFaults' = DeliveryFaults + 1 /\ ForkFaults' = ForkFaults
           /\ \A k \in {"boot", "vault"} : Fault(k) =>
                 DeliveryFaults' = DeliveryFaults /\ ForkFaults' = ForkFaults
<1>1. \A k \in FaultKinds : Fault(k) =>
          /\ faults'[k] = faults[k] + 1
          /\ \A j \in FaultKinds \ {k} : faults'[j] = faults[j]
  BY FaultFacts
<1>2. \A k \in FaultKinds : faults[k] \in Nat
  OBVIOUS
<1> QED
  BY <1>1, <1>2 DEF DeliveryFaults, ForkFaults, FaultKinds

(* The message whose processing ends is either settled, or a fault paid    *)
(* for the delivery it used up.                                            *)
LEMMA FinishBudget ==
    ASSUME TypeOK, HandInv, BudgetInv, Finish
    PROVE  BudgetInv'
<1> DEFINE h == Head(batch)
<1>1. /\ StreamTypeOK /\ h \in Envelopes /\ pc \in Busy /\ Done
      /\ \/ SettledAs(h, AfterAck(h))
         \/ SettledAs(h, AfterRelease(h))
         \/ UNCHANGED streamVars
      /\ faults \in [FaultKinds -> Nat]
  BY FinishFacts DEF TypeOK
<1>2. DeliveryFaults \in Nat /\ DeliveryFaults' \in {DeliveryFaults, DeliveryFaults + 1}
  BY <1>1, FaultSums DEF Finish, Refuse, RefuseUnverifiable, WriteFails, Acknowledge,
     ReplyLost, SendAck
<1>3. \A e \in Envelopes : deliveries'[e] = deliveries[e] /\ deliveries[e] \in Nat
  BY <1>1, SettleFacts DEF StreamTypeOK
<1>4. \A e \in Envelopes \ {h} :
          delivery'[e] = delivery[e] /\ (~ InHand(e)' => ~ InHand(e))
  BY <1>1, SettleFacts, DoneHand
<1>5. InHand(h) /\ delivery[h] \in {"pending", "ready", "dead"}
  BY <1>1, DoneHand DEF HandInv, InHand
<1>6. DeliveryFaults' = DeliveryFaults =>
          \/ SettledAs(h, AfterAck(h))
  BY <1>1, <1>2, FaultSums DEF Finish, Refuse, RefuseUnverifiable, WriteFails, Acknowledge,
     ReplyLost, SendAck
<1>7. DeliveryFaults' = DeliveryFaults /\ delivery'[h] \in {"ready", "dead", "pending"}
         => delivery[h] \in {"ready", "dead"} /\ delivery'[h] # "pending"
  BY <1>1, <1>5, <1>6, SettleFacts
<1> QED
  BY <1>1, <1>2, <1>3, <1>4, <1>5, <1>7 DEF BudgetInv

(* A step that uses up a delivery has a fault to show for it.              *)
LEMMA NextBudget ==
    ASSUME TypeInv, HandInv, BudgetInv, [Next]_vars
    PROVE  BudgetInv'
<1> USE DEF TypeInv
<1>0. /\ StreamTypeOK /\ faults \in [FaultKinds -> Nat] /\ batch \in Seq(Envelopes)
      /\ DeliveryFaults \in Nat
      /\ \A e \in Envelopes : deliveries[e] \in Nat
  BY FaultSums DEF TypeOK, StreamTypeOK
<1>1. CASE Finish
  BY <1>1, FinishBudget
<1>2. ASSUME NEW e \in Envelopes, Publish(e) PROVE BudgetInv'
  BY <1>0, <1>2, FaultSums DEF Publish, StreamPublish, BudgetInv, InHand, localVars, StreamTypeOK
<1>3. ASSUME NEW e \in Envelopes, Deliver(e) PROVE BudgetInv'
  <2>1. /\ batch' = Append(batch, e) /\ DeliveryFaults' = DeliveryFaults
        /\ delivery[e] \in {"ready", "new"}
        /\ delivery' = [delivery EXCEPT ![e] = "pending"]
        /\ deliveries' = [deliveries EXCEPT ![e] = @ + 1]
    BY <1>0, <1>3, FaultSums DEF Deliver, StreamDeliver, Deliverable
  <2>2. InHand(e)' /\ \A f \in Envelopes : ~ InHand(f)' => ~ InHand(f)
    <3>0. Len(batch) \in Nat /\ DOMAIN batch = 1 .. Len(batch)
      BY <1>0
    <3>1. /\ DOMAIN batch' = 1 .. Len(batch) + 1
          /\ batch'[Len(batch) + 1] = e
          /\ \A i \in 1 .. Len(batch) : batch'[i] = batch[i]
      BY <1>0, <2>1, AppendFacts
    <3>2. Len(batch) + 1 \in DOMAIN batch'
      BY <3>0, <3>1
    <3>3. \A i \in DOMAIN batch : i \in DOMAIN batch' /\ batch'[i] = batch[i]
      BY <3>0, <3>1
    <3> QED
      BY <3>1, <3>2, <3>3 DEF InHand
  <2>3. deliveries[e] <= DeliveryFaults
    BY <1>0, <2>1 DEF BudgetInv, ReadyHasDeliveriesLeft
  <2>4. \A f \in Envelopes \ {e} : delivery'[f] = delivery[f] /\ deliveries'[f] = deliveries[f]
    BY <2>1, <1>0 DEF StreamTypeOK
  <2>5. delivery'[e] = "pending" /\ deliveries'[e] = deliveries[e] + 1
    BY <2>1, <1>0 DEF StreamTypeOK
  <2> QED
    BY <1>0, <2>1, <2>2, <2>3, <2>4, <2>5 DEF BudgetInv
<1>4. ASSUME NEW e \in Envelopes, RedeliverAbandoned(e) PROVE BudgetInv'
  <2>1. /\ DeliveryFaults' = DeliveryFaults /\ batch' = batch
        /\ deliveries[e] <= DeliveryFaults
    BY <1>0, <1>4, FaultSums DEF RedeliverAbandoned, localVars, BudgetInv
  <2>2. \A f \in Envelopes : f # e => delivery'[f] = delivery[f]
    BY <1>0, <1>4, SettleFacts DEF RedeliverAbandoned
  <2>3. deliveries' = deliveries
    BY <1>4 DEF RedeliverAbandoned, SettledAs
  <2> QED
    BY <1>0, <2>1, <2>2, <2>3 DEF BudgetInv, InHand
<1>5. ASSUME NEW e \in Envelopes, AckWaitExpires(e) PROVE BudgetInv'
  <2>1. DeliveryFaults' = DeliveryFaults + 1 /\ batch' = batch
    BY <1>0, <1>5, FaultSums DEF AckWaitExpires, localVars
  <2>2. \A f \in Envelopes : f # e => delivery'[f] = delivery[f]
    BY <1>0, <1>5, SettleFacts DEF AckWaitExpires
  <2>3. deliveries' = deliveries
    BY <1>5 DEF AckWaitExpires, SettledAs
  <2> QED
    BY <1>0, <2>1, <2>2, <2>3 DEF BudgetInv, InHand
<1>6. CASE Crash
  <2>1. DeliveryFaults' = DeliveryFaults + 1 /\ UNCHANGED <<delivery, deliveries>>
    BY <1>0, <1>6, FaultSums DEF Crash, streamVars
  <2> QED
    BY <1>0, <2>1 DEF BudgetInv
<1>7. CASE /\ UNCHANGED <<delivery, deliveries, batch>>
           /\ DeliveryFaults' = DeliveryFaults
  BY <1>7 DEF BudgetInv, InHand
<1>8. Starting \/ FetchReturns \/ FetchTimesOut \/ Accept \/ Commit
        \/ (\E f \in Forms : Prepare(f) \/ PrepareUnsigned(f)) \/ UNCHANGED vars
      => /\ UNCHANGED <<delivery, deliveries, batch>>
         /\ DeliveryFaults' = DeliveryFaults
  BY <1>0, FaultSums DEF Starting, BootWithoutImmudb, BootWithoutJetStream, Boot, BootImpaired,
     Subscribed, JetStreamWaitTimesOut, FetchReturns, FetchTimesOut, Accept, Commit, Prepare,
     PrepareUnsigned, Link, vars, streamVars, localVars
<1> QED
  BY <1>1, <1>2, <1>3, <1>4, <1>5, <1>6, <1>7, <1>8 DEF Next, Processing, Finish

(* The forks are finitely many, and a new body adds at most itself.        *)
LEMMA ForksFinite ==
    ASSUME LedgerTypeOK
    PROVE  IsFiniteSet(Forks) /\ Cardinality(Forks) \in Nat
<1>1. Len(bodies) \in Nat /\ Forks \subseteq 1 .. Len(bodies)
  BY DEF LedgerTypeOK, Forks
<1>2. IsFiniteSet(1 .. Len(bodies))
  BY <1>1, FS_Interval
<1>3. IsFiniteSet(Forks)
  BY <1>1, <1>2, FS_Subset
<1> QED
  BY <1>3, FS_CardinalityType

(* A commit turns the debt of a lost chain head into one fork at most.     *)
LEMMA CommitForks ==
    ASSUME TypeInv, WriteInv, ChainWellFounded, ForkInv, Commit
    PROVE  ForkInv'
<1> USE DEF TypeInv
<1> DEFINE L == Len(bodies)
           i == ledger'[Head(batch)].id
<1>1. /\ L \in Nat /\ chain_head \in 0 .. L /\ env.prev = chain_head
      /\ pc = "write" /\ pc' = "reply" /\ batch' = batch
      /\ chain_head' = chain_head /\ faults' = faults
      /\ faults \in [FaultKinds -> Nat] /\ LedgerTypeOK
  BY CommitFacts DEF Commit, WriteInv, TypeOK, Hashes
<1>2. ForkFaults \in Nat /\ ForkFaults' = ForkFaults
  BY <1>1, FaultSums
<1>3. AtTip <=> L = chain_head
  BY <1>1 DEF AtTip
<1>4. AtTip' <=> Len(bodies') = i
  BY <1>1 DEF AtTip
<1>5. IsFiniteSet(Forks) /\ Cardinality(Forks) \in Nat
  BY <1>1, ForksFinite
<1>6. CASE bodies' = bodies /\ i \in DOMAIN bodies
  <2>1. Forks' = Forks
    BY <1>6 DEF Forks
  <2>2. bodies[i] = env
    BY <1>6, CommitFacts
  <2>3. i \in 1 .. L
    BY <1>6, CommitFacts
  <2>4. bodies[i].prev < i
    BY <1>6 DEF ChainWellFounded
  <2>5. chain_head < i
    BY <1>1, <2>2, <2>4
  <2>6. ~ AtTip
    BY <1>1, <1>3, <2>3, <2>5
  <2> QED
    BY <1>2, <2>1, <2>6 DEF ForkInv, EachForkCostsAFault
<1>7. CASE /\ Len(bodies') = L + 1
           /\ i = L + 1
           /\ bodies'[L + 1] = env
           /\ \A j \in DOMAIN bodies : bodies'[j] = bodies[j]
  <2>1. AtTip'
    BY <1>4, <1>7
  <2>2. DOMAIN bodies = 1 .. L /\ DOMAIN bodies' = 1 .. L + 1
    BY <1>7, CommitFacts
  <2>3. CASE chain_head = L
    <3>1. Forks' = Forks
      BY <1>1, <1>7, <2>2, <2>3 DEF Forks
    <3> QED
      BY <1>2, <2>1, <3>1 DEF ForkInv, EachForkCostsAFault
  <2>4. CASE chain_head # L
    <3>1. Forks' = Forks \cup {L + 1} /\ L + 1 \notin Forks
      <4>1. \A j \in 1 .. L : j \in Forks' <=> j \in Forks
        BY <1>1, <1>7, <2>2 DEF Forks
      <4>2. bodies'[L + 1].prev # L + 1 - 1
        BY <1>1, <1>7, <2>4
      <4>3. L + 1 \in Forks' /\ L + 1 \notin Forks
        BY <1>1, <2>2, <4>2 DEF Forks
      <4>4. Forks' \subseteq 1 .. L + 1 /\ Forks \subseteq 1 .. L
        BY <2>2 DEF Forks
      <4>5. 1 .. L + 1 = 1 .. L \cup {L + 1}
        BY <1>1
      <4> QED
        BY <4>1, <4>3, <4>4, <4>5
    <3>2. Cardinality(Forks') = Cardinality(Forks) + 1
      BY <1>5, <3>1, FS_AddElement
    <3>3. Cardinality(Forks) + 1 <= ForkFaults
      BY <1>3, <2>4 DEF ForkInv
    <3> QED
      BY <1>2, <2>1, <3>2, <3>3 DEF ForkInv, EachForkCostsAFault
  <2> QED
    BY <2>3, <2>4
<1> QED
  BY <1>6, <1>7, CommitFacts

(* A step adds no fork without a crash or a lost reply.                    *)
LEMMA NextForkInv ==
    ASSUME TypeInv, HandInv, WriteInv, ChainWellFounded, ForkInv, [Next]_vars
    PROVE  ForkInv'
<1> USE DEF TypeInv
<1>1. CASE Commit
  BY <1>1, CommitForks
<1>2. ASSUME ~ Commit PROVE ForkInv'
  <2>1. ledger' = ledger /\ bodies' = bodies /\ Forks' = Forks
    BY <1>2, LedgerStable DEF Forks
  <2>2. /\ ForkFaults \in Nat /\ Cardinality(Forks) \in Nat
        /\ faults \in [FaultKinds -> Nat] /\ LedgerTypeOK
    BY FaultSums, ForksFinite DEF TypeOK
  <2>3. CASE ForkFaults' = ForkFaults + 1
    BY <2>1, <2>2, <2>3 DEF ForkInv, EachForkCostsAFault
  <2>4. CASE ForkFaults' = ForkFaults /\ (AtTip => AtTip')
    BY <2>1, <2>2, <2>4 DEF ForkInv, EachForkCostsAFault
  <2>5. Crash \/ ReplyLost => ForkFaults' = ForkFaults + 1
    BY <2>2, FaultSums DEF Crash, ReplyLost
  <2>6. ForkFaults' = ForkFaults \/ Crash \/ ReplyLost
    BY <2>2, FaultSums
    DEF Next, Starting, Processing, Publish, BootWithoutImmudb, BootWithoutJetStream,
        Boot, BootImpaired, Subscribed, JetStreamWaitTimesOut, Deliver, FetchReturns,
        FetchTimesOut, Refuse, RefuseUnverifiable, SendAck, Accept, Prepare, PrepareUnsigned,
        Link, Commit, WriteFails, Acknowledge, RedeliverAbandoned, AckWaitExpires, vars
  <2>7. ASSUME Starting PROVE AtTip => AtTip'
    <3>1. pc # "reply" /\ pc' # "reply" /\ (pc # "off" => chain_head' = chain_head)
      BY <2>7 DEF Starting, BootWithoutImmudb, BootWithoutJetStream, Boot, BootImpaired,
         Subscribed, JetStreamWaitTimesOut
    <3>2. ASSUME pc = "off", AtTip PROVE chain_head' = 0 /\ Len(bodies) = 0
      <4>1. chain_head = 0 /\ Len(bodies) = 0
        BY <3>2 DEF WriteInv, AtTip
      <4>2. \A e \in LatestScanned : ledger[e].id = 0
        BY <2>2, <4>1 DEF LatestScanned, Scan, Stored, LedgerTypeOK, Hashes
      <4> QED
        BY <2>7, <3>2, <4>1, <4>2 DEF Starting, BootWithoutImmudb, BootWithoutJetStream, Boot,
           BootImpaired, SeedChainHead, JetStreamWaitTimesOut
    <3> QED
      BY <2>1, <3>1, <3>2 DEF AtTip
  <2>8. ASSUME Finish, ~ ReplyLost PROVE AtTip => AtTip'
    <3>1. pc' # "reply"
      BY <2>8, FinishFacts, DoneTypes
    <3>2. CASE Acknowledge
      BY <2>1, <3>1, <3>2 DEF AtTip, Acknowledge
    <3>3. CASE ~ Acknowledge
      BY <2>1, <2>8, <3>1, <3>3 DEF AtTip, Finish, Refuse, RefuseUnverifiable, WriteFails
    <3> QED
      BY <3>2, <3>3
  <2>9. ~ (Starting \/ Finish \/ Crash) =>
          /\ chain_head' = chain_head
          /\ pc' = "reply" <=> pc = "reply"
          /\ pc = "reply" => batch' = batch
    BY <1>2 DEF Next, Processing, Finish, Publish, Deliver, FetchReturns, FetchTimesOut, Accept,
       Prepare, PrepareUnsigned, Link, RedeliverAbandoned, AckWaitExpires, vars, localVars
  <2> QED
    BY <2>1, <2>3, <2>4, <2>5, <2>6, <2>7, <2>8, <2>9 DEF AtTip
<1> QED
  BY <1>1, <1>2

-----------------------------------------------------------------------------
(* The inductive invariant, and the theorems that follow from it.          *)

(* The inductive invariant holds initially.                                *)
LEMMA InitIndInv == Init => IndInv
<1> SUFFICES ASSUME Init PROVE IndInv
  OBVIOUS
<1>1. TypeOK /\ ReadyHasDeliveriesLeft
  BY InitTypeInv DEF TypeInv
<1>2. /\ bodies = <<>> /\ batch = <<>> /\ pc = "off" /\ chain_head = 0
      /\ DOMAIN bodies = {} /\ DOMAIN batch = {} /\ Len(bodies) = 0
  BY DEF Init, LedgerInit
<1>3. HandInv /\ WriteInv /\ ChainWellFounded
  BY <1>2 DEF HandInv, WriteInv, ChainWellFounded
<1>4. AckedIsAccountedFor
  BY DEF Init, StreamInit, AckedIsAccountedFor
<1>5. DeliveryFaults = 0 /\ ForkFaults = 0
  BY DEF Init, DeliveryFaults, ForkFaults, FaultKinds
<1>6. BudgetInv
  <2>1. \A e \in Envelopes : deliveries[e] = 0 /\ delivery[e] = "absent"
    BY DEF Init, StreamInit
  <2>2. \A e \in Envelopes :
           delivery[e] # "ready" /\ delivery[e] # "dead" /\ delivery[e] # "pending"
    BY <2>1
  <2>3. ASSUME NEW e \in Envelopes
        PROVE  deliveries[e] <= DeliveryFaults /\ deliveries[e] <= DeliveryFaults + 1
    <3>1. deliveries[e] = 0 /\ DeliveryFaults = 0
      BY <1>5, <2>1
    <3>2. 0 <= 0 /\ 0 <= 0 + 1
      OBVIOUS
    <3> QED
      BY ONLY <3>1, <3>2
  <2> QED
    BY <2>2, <2>3, Zenon DEF BudgetInv
<1>7. Cardinality(Forks) = 0
  <2>1. Forks = {}
    BY <1>2 DEF Forks
  <2> QED
    BY <2>1, FS_EmptySet
<1>8. ForkInv
  BY <1>2, <1>5, <1>7 DEF ForkInv, EachForkCostsAFault, AtTip
<1> QED
  BY <1>1, <1>3, <1>4, <1>6, <1>8 DEF IndInv

(* The inductive invariant is kept by every step.                          *)
LEMMA NextIndInv == IndInv /\ [Next]_vars => IndInv'
  BY NextTypeInv, NextHandInv, NextWriteInv, NextAccounted, NextBudget, NextWellFounded,
     NextForkInv DEF IndInv, TypeInv

(* The conjuncts of IndInv hold in every reachable state.                  *)
THEOREM Inductive == Spec => []IndInv
  BY InitIndInv, NextIndInv, PTL DEF Spec

(* No envelope is acknowledged before it is in the ledger, unless it was   *)
(* refused: a crash or a lost reply never loses an acknowledged envelope.  *)
THEOREM AckedSafe == Spec => []AckedIsAccountedFor
<1>1. IndInv => AckedIsAccountedFor
  BY DEF IndInv
<1> QED
  BY <1>1, Inductive, PTL

(* The hash chain is well founded, whatever is rewritten and however the   *)
(* head was seeded.                                                        *)
THEOREM ChainSafe == Spec => []ChainWellFounded
<1>1. IndInv => ChainWellFounded
  BY DEF IndInv
<1> QED
  BY <1>1, Inductive, PTL

(* The chain forks at most once per crash and per reply lost after the     *)
(* commit; in particular it never forks while neither happens.             *)
THEOREM ForksArePaidFor == Spec => []EachForkCostsAFault
<1>1. IndInv => EachForkCostsAFault
  BY DEF IndInv, ForkInv
<1> QED
  BY <1>1, Inductive, PTL

(* A message whose deliveries are exhausted has met max_deliver faults: no *)
(* path through _process() uses a delivery up by itself.                   *)
THEOREM LossIsPaidFor == Spec => []LossNeedsFaults
<1>1. IndInv => LossNeedsFaults
  <2> SUFFICES ASSUME IndInv, NEW e \in Envelopes, delivery[e] = "dead"
               PROVE  DeliveryFaults >= MaxDeliver
    BY DEF LossNeedsFaults
  <2>1. DeliveryFaults \in Nat /\ MaxDeliver \in Nat
    BY FaultSums, StreamAssumption DEF IndInv, TypeOK
  <2>2. deliveries[e] <= DeliveryFaults
    BY DEF IndInv, BudgetInv
  <2>3. deliveries[e] = MaxDeliver
    BY DEF IndInv, ReadyHasDeliveriesLeft
  <2> QED
    BY <2>1, <2>2, <2>3
<1> QED
  BY <1>1, Inductive, PTL

(* What has been acknowledged is never written again: whatever crashes and *)
(* redeliveries happen, its ledger entry stays as it was.                  *)
THEOREM AckedFinal == Spec => AckedIsFinal
<1>1. ASSUME IndInv, [Next]_vars
      PROVE  \A e \in Envelopes : delivery[e] = "acked" => ledger'[e] = ledger[e]
  <2>1. CASE ~ Commit
    BY <1>1, <2>1, LedgerStable DEF IndInv
  <2>2. CASE Commit
    <3>1. /\ LedgerTypeOK /\ env \in Body /\ sealed \in BOOLEAN
          /\ env.env = Head(batch) /\ SetEnvelope(env, sealed)
      BY <1>1, <2>2, CommitFacts DEF IndInv, TypeOK, Commit
    <3>2. \A e \in Envelopes \ {Head(batch)} : ledger'[e] = ledger[e]
      BY <3>1, SetEnvelopeFacts
    <3>3. batch \in Seq(Envelopes) /\ batch # <<>>
      BY <1>1, <2>2 DEF IndInv, TypeOK, Commit, Busy
    <3>4. 1 \in DOMAIN batch /\ Head(batch) = batch[1]
      BY <3>3, TailFacts
    <3>5. delivery[Head(batch)] # "acked"
      BY <1>1, <3>4 DEF IndInv, HandInv
    <3> QED
      BY <3>2, <3>5
  <2> QED
    BY <2>1, <2>2
<1> QED
  BY <1>1, Inductive, PTL DEF Spec, AckedIsFinal

-----------------------------------------------------------------------------
(* The appender implements the promise.                                    *)

(* What one step may do to one envelope: only what is in hand is stored or *)
(* refused, and only for the reasons the promise allows; a dead message    *)
(* that is in nobody's hand stays so.                                      *)
LEMMA StepFacts ==
    ASSUME TypeInv, HandInv, [Next]_vars, NEW e \in Envelopes
    PROVE  /\ delivery[e] # "absent" => delivery'[e] # "absent"
           /\ delivery[e] = "absent" => delivery'[e] \in {"absent", "new"}
           /\ delivery[e] = "dead" /\ ~ InHand(e) => delivery'[e] = "dead" /\ ~ InHand(e)'
           /\ Stored \subseteq Stored' /\ refused \subseteq refused'
           /\ e \in Stored' \ Stored => InHand(e) /\ ~ Bad(e)
           /\ e \in refused' \ refused => InHand(e) /\ (Bad(e) \/ faults'["vault"] > 0)
<1> USE DEF TypeInv
<1>0. /\ StreamTypeOK /\ batch \in Seq(Envelopes)
      /\ faults \in [FaultKinds -> Nat] /\ "vault" \in FaultKinds
  BY DEF TypeOK, FaultKinds
<1>1. pc \in Busy => InHand(Head(batch)) /\ Head(batch) \in Envelopes
  BY TailFacts DEF TypeOK, InHand
<1>2. CASE Finish
  <2>1. /\ pc \in Busy /\ Done /\ Head(batch) \in Envelopes
        /\ \/ SettledAs(Head(batch), AfterAck(Head(batch)))
           \/ SettledAs(Head(batch), AfterRelease(Head(batch)))
           \/ UNCHANGED streamVars
        /\ Stored' = Stored
    BY <1>2, FinishFacts DEF TypeOK, Stored
  <2>2. /\ \A f \in Envelopes \ {Head(batch)} : delivery'[f] = delivery[f]
        /\ delivery'[Head(batch)] \in {delivery[Head(batch)], "acked", "ready", "dead"}
        /\ delivery'[Head(batch)] = "absent" <=> delivery[Head(batch)] = "absent"
    BY <1>0, <2>1, SettleFacts
  <2>3. ~ InHand(e) => ~ InHand(e)' /\ e # Head(batch)
    BY <1>1, <2>1, DoneHand DEF InHand
  <2>4. delivery[Head(batch)] # "absent"
    BY <1>1, <2>1 DEF HandInv, InHand
  <2>5. /\ refused \subseteq refused'
        /\ e \in refused' \ refused => e = Head(batch) /\ (Refuse \/ RefuseUnverifiable)
    BY <1>2 DEF Finish, Refuse, RefuseUnverifiable, WriteFails, Acknowledge, ReplyLost
  <2>6. RefuseUnverifiable => faults'["vault"] > 0
    BY <1>0, FaultFacts DEF RefuseUnverifiable
  <2>7. Refuse => Bad(Head(batch))
    BY DEF Refuse
  <2> QED
    BY <1>1, <2>1, <2>2, <2>3, <2>4, <2>5, <2>6, <2>7
<1>3. CASE Commit
  <2>1. Stored' = Stored \cup {Head(batch)} /\ pc = "write"
    BY <1>3, CommitFacts
  <2>2. ~ Bad(Head(batch))
    BY <2>1 DEF HandInv
  <2>3. UNCHANGED <<stream, delivery, deliveries, batch, refused>>
    BY <1>3 DEF Commit, streamVars
  <2> QED
    BY <1>1, <2>1, <2>2, <2>3 DEF Busy, InHand
<1>4. CASE ~ Finish /\ ~ Commit
  <2>1. Stored' = Stored
    BY <1>4, LedgerStable
  <2>2. refused' = refused
    BY <1>4 DEF Next, Starting, Processing, Finish, Publish, BootWithoutImmudb,
       BootWithoutJetStream, Boot, BootImpaired, Subscribed, JetStreamWaitTimesOut, Deliver,
       FetchReturns, FetchTimesOut, Accept, Prepare, PrepareUnsigned, Link,
       RedeliverAbandoned, AckWaitExpires, Crash, vars
  <2>3. \/ delivery'[e] = delivery[e]
        \/ delivery[e] = "absent" /\ delivery'[e] = "new"
        \/ delivery[e] \in {"ready", "new"} /\ delivery'[e] = "pending"
        \/ delivery[e] = "pending" /\ delivery'[e] \in {"ready", "dead"}
    BY <1>0, <1>4 DEF Next, Starting, Processing, Finish, Publish, StreamPublish,
       BootWithoutImmudb, BootWithoutJetStream, Boot, BootImpaired, Subscribed,
       JetStreamWaitTimesOut, Deliver, StreamDeliver, Deliverable, FetchReturns,
       FetchTimesOut, Accept, Prepare, PrepareUnsigned, Link, RedeliverAbandoned,
       AckWaitExpires, SettledAs, AfterRelease, Crash, vars, streamVars, StreamTypeOK
  <2>4. ASSUME NEW f \in Envelopes, Deliver(f), ~ InHand(e), delivery[e] = "dead"
        PROVE  ~ InHand(e)'
    <3>1. batch' = Append(batch, f) /\ f # e
      BY <2>4 DEF Deliver, Deliverable
    <3>2. DOMAIN batch' = 1 .. Len(batch) + 1 /\ DOMAIN batch = 1 .. Len(batch)
      BY <1>0, <3>1, AppendFacts
    <3> QED
      BY <1>0, <2>4, <3>1, <3>2, AppendFacts DEF InHand
  <2>5. ASSUME ~ \E f \in Envelopes : Deliver(f) PROVE batch' = batch \/ batch' = <<>>
    BY <1>4, <2>5 DEF Next, Starting, Processing, Finish, Publish, BootWithoutImmudb,
       BootWithoutJetStream, Boot, BootImpaired, Subscribed, JetStreamWaitTimesOut,
       FetchReturns, FetchTimesOut, Accept, Prepare, PrepareUnsigned, Link,
       RedeliverAbandoned, AckWaitExpires, Crash, vars, localVars
  <2>6. batch' = <<>> => ~ InHand(e)'
    BY DEF InHand
  <2>7. delivery[e] = "dead" /\ ~ InHand(e) => ~ InHand(e)'
    BY <2>4, <2>5, <2>6 DEF InHand
  <2> QED
    BY <2>1, <2>2, <2>3, <2>7
<1> QED
  BY <1>2, <1>3, <1>4

(* The cases of Fate, one at a time.                                       *)
LEMMA FateFacts ==
    ASSUME NEW e \in Envelopes
    PROVE  /\ Fate(e) \in {"idle", "queued", "stored", "refused", "lost"}
           /\ Fate(e) = "stored" <=> e \in Stored
           /\ Fate(e) = "refused" <=> e \notin Stored /\ e \in refused
           /\ Fate(e) = "lost" <=> /\ e \notin Stored /\ e \notin refused
                                   /\ delivery[e] = "dead" /\ ~ InHand(e)
           /\ Fate(e) = "idle" <=> /\ e \notin Stored /\ e \notin refused
                                   /\ delivery[e] = "absent"
  BY DEF Fate

(* One step moves each envelope along the abstract lifecycle.              *)
LEMMA StepFate ==
    ASSUME IndInv, IndInv', [Next]_vars, NEW e \in Envelopes
    PROVE  \/ Fate(e) = "idle" /\ Fate(e)' = "queued"
           \/ Fate(e) \in {"queued", "refused"} /\ ~ Bad(e) /\ Fate(e)' = "stored"
           \/ /\ Fate(e) = "queued" /\ Fate(e)' = "refused"
              /\ Bad(e) \/ faults'["vault"] > 0
           \/ /\ Fate(e) = "queued" /\ Fate(e)' = "lost"
              /\ DeliveryFaults' >= MaxDeliver
           \/ Fate(e)' = Fate(e)
<1>1. /\ delivery[e] # "absent" => delivery'[e] # "absent"
      /\ delivery[e] = "absent" => delivery'[e] \in {"absent", "new"}
      /\ delivery[e] = "dead" /\ ~ InHand(e) => delivery'[e] = "dead" /\ ~ InHand(e)'
      /\ Stored \subseteq Stored' /\ refused \subseteq refused'
      /\ e \in Stored' \ Stored => InHand(e) /\ ~ Bad(e)
      /\ e \in refused' \ refused => InHand(e) /\ (Bad(e) \/ faults'["vault"] > 0)
  BY StepFacts DEF IndInv, TypeInv
<1>2. InHand(e) => delivery[e] \in {"pending", "ready", "dead"}
  BY DEF IndInv, HandInv, InHand
<1>3. /\ Fate(e) \in {"idle", "queued", "stored", "refused", "lost"}
      /\ Fate(e) = "stored" <=> e \in Stored
      /\ Fate(e) = "refused" <=> e \notin Stored /\ e \in refused
      /\ Fate(e) = "lost" <=> /\ e \notin Stored /\ e \notin refused
                              /\ delivery[e] = "dead" /\ ~ InHand(e)
      /\ Fate(e) = "idle" <=> /\ e \notin Stored /\ e \notin refused
                              /\ delivery[e] = "absent"
  BY FateFacts
<1>4. /\ Fate(e)' \in {"idle", "queued", "stored", "refused", "lost"}
      /\ Fate(e)' = "stored" <=> e \in Stored'
      /\ Fate(e)' = "refused" <=> e \notin Stored' /\ e \in refused'
      /\ Fate(e)' = "lost" <=> /\ e \notin Stored' /\ e \notin refused'
                               /\ delivery'[e] = "dead" /\ ~ InHand(e)'
      /\ Fate(e)' = "idle" <=> /\ e \notin Stored' /\ e \notin refused'
                               /\ delivery'[e] = "absent"
  BY DEF Fate
<1>5. delivery'[e] = "dead" => DeliveryFaults' >= MaxDeliver
  <2>1. delivery'[e] = "dead" => deliveries'[e] = MaxDeliver /\ deliveries'[e] <= DeliveryFaults'
    BY DEF IndInv, ReadyHasDeliveriesLeft, BudgetInv
  <2>2. DeliveryFaults' \in Nat /\ MaxDeliver \in Nat
    <3>1. faults' \in [FaultKinds -> Nat]
      BY DEF IndInv, TypeOK
    <3>2. /\ faults'["crash"] \in Nat /\ faults'["reply"] \in Nat
          /\ faults'["write"] \in Nat /\ faults'["ack"] \in Nat
      BY <3>1 DEF FaultKinds
    <3>3. DeliveryFaults' = faults'["crash"] + faults'["reply"] + faults'["write"]
                               + faults'["ack"]
      BY DEF DeliveryFaults
    <3>4. MaxDeliver \in Nat
      BY StreamAssumption
    <3>5. DeliveryFaults' \in Nat
      BY ONLY <3>2, <3>3
    <3> QED
      BY <3>4, <3>5
  <2> QED
    BY <2>1, <2>2
<1>6. CASE Fate(e) = "stored"
  BY <1>1, <1>3, <1>4, <1>6
<1>7. CASE Fate(e) = "refused"
  BY <1>1, <1>3, <1>4, <1>7
<1>8. CASE Fate(e) = "lost"
  BY <1>1, <1>3, <1>4, <1>8
<1>9. CASE Fate(e) = "idle"
  BY <1>1, <1>2, <1>3, <1>4, <1>9
<1>10. CASE Fate(e) = "queued"
  BY <1>1, <1>3, <1>4, <1>5, <1>10
<1> QED
  BY <1>3, <1>6, <1>7, <1>8, <1>9, <1>10

(* The counters of the promise move by one at a time.                      *)
LEMMA StepCounters ==
    ASSUME TypeOK, [Next]_vars
    PROVE  /\ DeliveryFaults' \in {DeliveryFaults, DeliveryFaults + 1}
           /\ faults'["vault"] \in {faults["vault"], faults["vault"] + 1}
<1>1. faults \in [FaultKinds -> Nat]
  BY DEF TypeOK
<1>2. UNCHANGED faults \/ \E k \in FaultKinds : Fault(k)
  BY DEF Next, Starting, Processing, Publish, BootWithoutImmudb, BootWithoutJetStream,
     Boot, BootImpaired, Subscribed, JetStreamWaitTimesOut, Deliver, FetchReturns,
     FetchTimesOut, Refuse, RefuseUnverifiable, SendAck, Accept, Prepare, PrepareUnsigned,
     Link, Commit, WriteFails, Acknowledge, ReplyLost, RedeliverAbandoned, AckWaitExpires,
     Crash, vars, FaultKinds
<1>3. DeliveryFaults' \in {DeliveryFaults, DeliveryFaults + 1}
  BY <1>1, <1>2, FaultSums DEF FaultKinds
<1>4. faults'["vault"] \in {faults["vault"], faults["vault"] + 1}
  <2>1. CASE UNCHANGED faults
    BY <2>1
  <2>2. ASSUME NEW k \in FaultKinds, Fault(k)
        PROVE  faults'["vault"] \in {faults["vault"], faults["vault"] + 1}
    BY <1>1, <2>2, FaultFacts DEF FaultKinds
  <2> QED
    BY <1>2, <2>1, <2>2
<1> QED
  BY <1>3, <1>4

(* The appender and the bus implement the abstract lifecycle of            *)
(* AuditPromise: initial states are initial there, and every step is one   *)
(* of its steps or a stutter.                                              *)
THEOREM AppenderKeepsPromise == Spec => PromiseKept
<1>1. Init => Promise!Init
  <2> SUFFICES ASSUME Init PROVE Promise!Init
    OBVIOUS
  <2>1. \A e \in Envelopes : e \notin Stored /\ e \notin refused /\ delivery[e] = "absent"
    BY DEF Init, LedgerInit, StreamInit, NoVersion, Stored
  <2>2. \A e \in Envelopes : Fate(e) = "idle"
    BY <2>1, FateFacts
  <2>3. DeliveryFaults = 0 /\ faults["vault"] = 0
    BY DEF Init, DeliveryFaults, FaultKinds
  <2> QED
    BY <2>2, <2>3 DEF Promise!Init
<1>2. IndInv /\ IndInv' /\ [Next]_vars => Promise!Next
  <2> SUFFICES ASSUME IndInv, IndInv', [Next]_vars PROVE Promise!Next
    OBVIOUS
  <2>1. /\ DeliveryFaults' \in {DeliveryFaults, DeliveryFaults + 1}
        /\ faults'["vault"] \in {faults["vault"], faults["vault"] + 1}
    BY StepCounters DEF IndInv
  <2>2. \A e \in Envelopes : Fate(e)' \in {"idle", "queued", "stored", "refused", "lost"}
    BY DEF Fate
  <2>3. ASSUME NEW e \in Envelopes
        PROVE  Promise!Publish(e) \/ Promise!Store(e) \/ Promise!Refuse(e)
                  \/ Promise!Lose(e) \/ Promise!Keep(e)
    BY StepFate DEF Bad, Promise!Publish, Promise!Store, Promise!Refuse, Promise!Lose,
       Promise!Keep
  <2> QED
    BY <2>1, <2>2, <2>3 DEF Promise!Next, Promise!Fates
<1> QED
  BY <1>1, <1>2, Inductive, PTL DEF Spec, PromiseKept, Promise!Spec

-----------------------------------------------------------------------------
(* What only a redelivery disturbs.                                        *)

(* A message is published once, and has been delivered when it is not new. *)
StreamInv ==
    /\ \A i, j \in DOMAIN stream : stream[i] = stream[j] => i = j
    /\ \A e \in Envelopes :
          delivery[e] # "absent" <=> \E i \in DOMAIN stream : stream[i] = e
    /\ \A e \in Envelopes :
          delivery[e] \notin {"absent", "new"} => deliveries[e] # 0

(* e is in hand and the ledger does not have it from this delivery.        *)
Unwritten(e) == InHand(e) /\ ~ (pc = "reply" /\ e = Head(batch))

(* What has not been delivered, or only now, is not stored.                *)
FreshInv ==
    \A e \in Envelopes :
        \/ deliveries[e] = 0
        \/ deliveries[e] = 1 /\ Unwritten(e)
        => e \notin Stored

(* A version that is hidden is of an envelope that was delivered again.    *)
BodyInv ==
    \A i \in DOMAIN bodies :
        LET e == bodies[i].env
        IN  e \in Stored /\ (ledger[e].id = i \/ deliveries[e] > 1)

(* First deliveries come in stream order, and a batch keeps it.            *)
Before(e, f) ==
    /\ SubjectOf[e] = SubjectOf[f]
    /\ \E i, j \in DOMAIN stream : i < j /\ stream[i] = e /\ stream[j] = f

Behind(e, f) ==
    \E a, b \in DOMAIN batch : a < b /\ batch[a] = e /\ batch[b] = f

OrderInv ==
    \A e, f \in Envelopes :
        Before(e, f) =>
            /\ deliveries[e] = 0 => deliveries[f] = 0
            /\ deliveries[e] = 1 /\ deliveries[f] = 1 /\ InHand(e) => Behind(e, f)
            /\ deliveries[e] = 1 /\ deliveries[f] = 1 /\ {e, f} \subseteq Stored
                  => ledger[e].id < ledger[f].id

DisturbInv == StreamInv /\ FreshInv /\ BodyInv /\ OrderInv

(* The steps that matter here; the others leave the ledger, the batch, the *)
(* stream and the numbers of deliveries as they are.                       *)
Idle ==
    /\ UNCHANGED <<ledgerVars, stream, deliveries, batch>>
    /\ pc' = "reply" <=> pc = "reply"
    /\ \A e \in Envelopes :
          /\ delivery'[e] = "absent" <=> delivery[e] = "absent"
          /\ delivery'[e] \in {"absent", "new"} <=> delivery[e] \in {"absent", "new"}

(* The steps, as far as the order of messages and bodies goes.             *)
LEMMA OrderKinds ==
    ASSUME TypeInv, HandInv, [Next]_vars
    PROVE  \/ \E e \in Envelopes : Publish(e) \/ Deliver(e)
           \/ Commit \/ Finish \/ Crash \/ Idle
<1>0. StreamTypeOK
  BY DEF TypeInv, TypeOK
<1>1. CASE \E e \in Envelopes : RedeliverAbandoned(e) \/ AckWaitExpires(e)
  <2>1. PICK e \in Envelopes : RedeliverAbandoned(e) \/ AckWaitExpires(e)
    BY <1>1
  <2>2. /\ delivery[e] = "pending" /\ SettledAs(e, AfterRelease(e))
        /\ UNCHANGED <<ledgerVars, localVars>>
    BY <2>1 DEF RedeliverAbandoned, AckWaitExpires
  <2>3. /\ stream' = stream /\ deliveries' = deliveries
        /\ delivery'[e] \in {"ready", "dead"}
        /\ \A f \in Envelopes \ {e} : delivery'[f] = delivery[f]
    BY <1>0, <2>2 DEF SettledAs, AfterRelease, StreamTypeOK
  <2>4. Idle
    BY <2>2, <2>3 DEF Idle, localVars
  <2> QED
    BY <2>4
<1>2. CASE Starting
  <2>1. /\ UNCHANGED <<ledgerVars, streamVars, batch>>
        /\ pc # "reply" /\ pc' # "reply"
    BY <1>2 DEF Starting, BootWithoutImmudb, BootWithoutJetStream, Boot, BootImpaired,
       JetStreamWaitTimesOut, Subscribed
  <2> QED
    BY <2>1 DEF Idle, streamVars
<1>3. CASE \/ FetchReturns \/ FetchTimesOut \/ Accept \/ UNCHANGED vars
           \/ \E f \in Forms : Prepare(f) \/ PrepareUnsigned(f)
  BY <1>3 DEF FetchReturns, FetchTimesOut, Accept, Prepare, PrepareUnsigned, Link, vars,
     streamVars, localVars, Idle
<1> QED
  BY <1>1, <1>2, <1>3 DEF Next, Processing, Finish

(* What is known of redeliveries holds initially.                          *)
LEMMA InitDisturbInv == Init => DisturbInv
<1> SUFFICES ASSUME Init PROVE DisturbInv
  OBVIOUS
<1>1. /\ stream = <<>> /\ bodies = <<>> /\ batch = <<>>
      /\ DOMAIN stream = {} /\ DOMAIN bodies = {} /\ DOMAIN batch = {}
  BY DEF Init, StreamInit, LedgerInit
<1>2. \A e \in Envelopes :
         delivery[e] = "absent" /\ deliveries[e] = 0 /\ e \notin Stored
  BY DEF Init, StreamInit, LedgerInit, Stored, NoVersion
<1> QED
  BY <1>1, <1>2 DEF DisturbInv, StreamInv, FreshInv, BodyInv, OrderInv, Before

(* A step leaves each message in its stream once.                          *)
LEMMA NextStreamInv ==
    ASSUME TypeInv, HandInv, StreamInv, [Next]_vars
    PROVE  StreamInv'
<1>0. /\ StreamTypeOK /\ stream \in Seq(Envelopes)
      /\ \A i \in DOMAIN stream : stream[i] \in Envelopes
      /\ DOMAIN stream = 1 .. Len(stream) /\ Len(stream) \in Nat
  BY DEF TypeInv, TypeOK, StreamTypeOK
<1>1. ASSUME NEW e \in Envelopes, Publish(e) PROVE StreamInv'
  <2>1. /\ delivery[e] = "absent" /\ stream' = Append(stream, e)
        /\ delivery' = [delivery EXCEPT ![e] = "new"] /\ deliveries' = deliveries
    BY <1>1 DEF Publish, StreamPublish
  <2>2. /\ DOMAIN stream' = 1 .. Len(stream) + 1
        /\ \A i \in DOMAIN stream : stream'[i] = stream[i]
        /\ stream'[Len(stream) + 1] = e
    BY <1>0, <2>1, AppendFacts
  <2>3. \A i \in DOMAIN stream : stream[i] # e
    BY <2>1 DEF StreamInv
  <2>4. \A i, j \in DOMAIN stream' : stream'[i] = stream'[j] => i = j
    BY <1>0, <2>2, <2>3 DEF StreamInv
  <2>5. ASSUME NEW f \in Envelopes
        PROVE  delivery'[f] # "absent" <=> \E i \in DOMAIN stream' : stream'[i] = f
    <3>1. CASE f = e
      <4>1. delivery'[f] = "new"
        BY <1>0, <2>1, <3>1 DEF StreamTypeOK
      <4>2. Len(stream) + 1 \in DOMAIN stream' /\ stream'[Len(stream) + 1] = f
        BY <1>0, <2>2, <3>1
      <4> QED
        BY <4>1, <4>2
    <3>2. CASE f # e
      <4>1. delivery'[f] = delivery[f]
        BY <1>0, <2>1, <3>2 DEF StreamTypeOK
      <4>2. (\E i \in DOMAIN stream' : stream'[i] = f) <=> \E i \in DOMAIN stream : stream[i] = f
        BY <1>0, <2>2, <3>2
      <4> QED
        BY <4>1, <4>2 DEF StreamInv
    <3> QED
      BY <3>1, <3>2
  <2>6. \A f \in Envelopes : delivery'[f] \notin {"absent", "new"} => deliveries'[f] # 0
    BY <1>0, <2>1 DEF StreamTypeOK, StreamInv
  <2> QED
    BY <2>4, <2>5, <2>6 DEF StreamInv
<1>2. ASSUME NEW e \in Envelopes, Deliver(e) PROVE StreamInv'
  BY <1>0, <1>2 DEF Deliver, StreamDeliver, Deliverable, StreamInv, StreamTypeOK
<1>3. CASE Finish
  <2>1. /\ stream' = stream /\ deliveries' = deliveries
        /\ \A e \in Envelopes :
              /\ delivery'[e] = "absent" <=> delivery[e] = "absent"
              /\ delivery'[e] \in {"absent", "new"} <=> delivery[e] \in {"absent", "new"}
    <3>1. /\ Head(batch) \in Envelopes /\ delivery[Head(batch)] \in {"pending", "ready", "dead"}
      BY <1>3, FinishFacts, TailFacts DEF TypeInv, TypeOK, HandInv
    <3>2. UNCHANGED streamVars \/ SettledAs(Head(batch), AfterAck(Head(batch)))
            \/ SettledAs(Head(batch), AfterRelease(Head(batch)))
      BY <1>3, FinishFacts DEF TypeInv
    <3> QED
      BY <1>0, <3>1, <3>2 DEF SettledAs, AfterAck, AfterRelease, StreamTypeOK, streamVars
  <2> QED
    BY <2>1 DEF StreamInv
<1>4. CASE Commit \/ Crash
  BY <1>4 DEF Commit, Crash, StreamInv, streamVars
<1>5. CASE Idle
  BY <1>5 DEF Idle, StreamInv
<1> QED
  BY <1>1, <1>2, <1>3, <1>4, <1>5, OrderKinds

(* In what was never delivered twice, head of the batch and stream agree.  *)
LEMMA HandFacts ==
    ASSUME TypeInv, HandInv, StreamInv
    PROVE  /\ batch \in Seq(Envelopes) /\ DOMAIN batch = 1 .. Len(batch) /\ Len(batch) \in Nat
           /\ \A e \in Envelopes : deliveries[e] \in Nat
           /\ \A e \in Envelopes : InHand(e) => deliveries[e] # 0
           /\ \A e, f \in Envelopes : Before(e, f) => e # f
           /\ \A e, f \in Envelopes : Behind(e, f) => InHand(e) /\ InHand(f) /\ e # f
           /\ pc \in Busy => /\ 1 \in DOMAIN batch /\ Head(batch) = batch[1]
                             /\ Head(batch) \in Envelopes /\ InHand(Head(batch))
<1>0. /\ StreamTypeOK /\ batch \in Seq(Envelopes)
      /\ stream \in Seq(Envelopes) /\ DOMAIN stream = 1 .. Len(stream)
      /\ DOMAIN batch = 1 .. Len(batch) /\ Len(batch) \in Nat
  BY DEF TypeInv, TypeOK, StreamTypeOK
<1>1. \A e \in Envelopes : InHand(e) => deliveries[e] # 0
  BY DEF InHand, HandInv, StreamInv
<1>2. \A e, f \in Envelopes : Before(e, f) => e # f
  BY <1>0 DEF Before, StreamInv
<1>3. \A e, f \in Envelopes : Behind(e, f) => InHand(e) /\ InHand(f) /\ e # f
  BY <1>0 DEF Behind, InHand, HandInv
<1>4. pc \in Busy => /\ 1 \in DOMAIN batch /\ Head(batch) = batch[1]
                     /\ Head(batch) \in Envelopes /\ InHand(Head(batch))
  BY <1>0, TailFacts DEF TypeInv, TypeOK, InHand
<1>5. \A e \in Envelopes : deliveries[e] \in Nat
  BY <1>0, StreamAssumption DEF StreamTypeOK
<1> QED
  BY <1>0, <1>1, <1>2, <1>3, <1>4, <1>5

(* What the head of a batch leaves behind.                                 *)
LEMMA FinishOrder ==
    ASSUME TypeInv, HandInv, StreamInv, FreshInv, BodyInv, OrderInv, Finish
    PROVE  FreshInv' /\ BodyInv' /\ OrderInv'
<1> DEFINE h == Head(batch)
<1>1. /\ pc \in Busy /\ Done /\ h \in Envelopes
      /\ UNCHANGED <<bodies, ledger, stream, deliveries>>
  BY FinishFacts DEF TypeInv, SettledAs, streamVars
<1>2. /\ DOMAIN batch = 1 .. Len(batch) /\ Len(batch) \in Nat
      /\ 1 \in DOMAIN batch /\ h = batch[1]
      /\ \A e, f \in Envelopes : Behind(e, f) => InHand(e) /\ InHand(f) /\ e # f
  BY <1>1, HandFacts
<1>3. /\ batch' = Tail(batch)
      /\ DOMAIN batch' = 1 .. Len(batch) - 1
      /\ \A i \in DOMAIN batch' : batch'[i] = batch[i + 1]
      /\ pc' # "reply"
  <2>1. batch \in Seq(Envelopes) /\ batch # <<>>
    BY <1>1 DEF TypeInv, TypeOK
  <2>2. batch' = Tail(batch) /\ pc' \in {"fetch", "screen"}
    BY <1>1 DEF Done
  <2> QED
    BY <2>1, <2>2, TailFacts
<1>4. \A e \in Envelopes : InHand(e)' => InHand(e) /\ e # h
  <2> SUFFICES ASSUME NEW e \in Envelopes, NEW i \in DOMAIN batch', batch'[i] = e
               PROVE  InHand(e) /\ e # h
    BY DEF InHand
  <2>1. i + 1 \in DOMAIN batch /\ batch[i + 1] = e /\ i + 1 # 1
    BY <1>2, <1>3
  <2> QED
    BY <1>2, <2>1 DEF InHand, HandInv
<1>5. ASSUME NEW e \in Envelopes, NEW f \in Envelopes, Behind(e, f), e # h
      PROVE  Behind(e, f)'
  <2>1. PICK a \in DOMAIN batch, b \in DOMAIN batch : a < b /\ batch[a] = e /\ batch[b] = f
    BY <1>5 DEF Behind
  <2>2. a # 1
    BY <1>2, <1>5, <2>1
  <2>3. /\ a - 1 \in DOMAIN batch' /\ b - 1 \in DOMAIN batch'
        /\ a - 1 < b - 1 /\ batch'[a - 1] = e /\ batch'[b - 1] = f
    BY <1>2, <1>3, <2>1, <2>2
  <2> QED
    BY <2>3 DEF Behind
<1>6. FreshInv'
  BY <1>1, <1>3, <1>4 DEF FreshInv, Unwritten, Stored
<1>7. BodyInv'
  BY <1>1 DEF BodyInv, Stored
<1>8. OrderInv'
  BY <1>1, <1>4, <1>5 DEF OrderInv, Before, Stored
<1> QED
  BY <1>6, <1>7, <1>8

(* A commit adds a body at the end of the chain, unless the envelope was   *)
(* delivered before.                                                       *)
LEMMA CommitOrder ==
    ASSUME TypeInv, HandInv, StreamInv, FreshInv, BodyInv, OrderInv, Commit
    PROVE  FreshInv' /\ BodyInv' /\ OrderInv'
<1> DEFINE h == Head(batch)
<1>1. /\ env \in Body /\ env.env = h /\ h \in Envelopes
      /\ Stored' = Stored \cup {h}
      /\ pc = "write" /\ pc' = "reply"
      /\ Len(bodies) \in Nat /\ DOMAIN bodies = 1 .. Len(bodies)
      /\ bodies'[ledger'[h].id] = env
  BY CommitFacts DEF TypeInv
<1>2. /\ UNCHANGED <<stream, deliveries, batch>>
      /\ SetEnvelope(env, sealed) /\ LedgerTypeOK /\ sealed \in BOOLEAN
  BY DEF Commit, streamVars, TypeInv, TypeOK
<1>3. /\ \A i \in DOMAIN bodies : i \in DOMAIN bodies' /\ bodies'[i] = bodies[i]
      /\ \A i \in DOMAIN bodies' :
             i \notin DOMAIN bodies => i = Len(bodies) + 1 /\ bodies'[i] = env
      /\ \A e \in Envelopes \ {h} : ledger'[e] = ledger[e]
      /\ ledger'[h].id \in DOMAIN bodies'
  BY <1>1, <1>2, SetEnvelopeFacts
<1>4. /\ \A e \in Envelopes : deliveries[e] \in Nat
      /\ \A e \in Envelopes : InHand(e) => deliveries[e] # 0
      /\ \A e, f \in Envelopes : Before(e, f) => e # f
      /\ \A e, f \in Envelopes : Behind(e, f) => InHand(e) /\ InHand(f) /\ e # f
      /\ InHand(h)
  BY <1>1, HandFacts DEF Busy
<1>5. h \in Stored => deliveries[h] > 1
  BY <1>1, <1>4 DEF FreshInv, Unwritten
<1>6. h \notin Stored => ledger'[h].id = Len(bodies) + 1
  BY <1>1, <1>3 DEF BodyInv
<1>7. FreshInv'
  BY <1>1, <1>2, <1>4 DEF FreshInv, Unwritten, InHand
<1>8. BodyInv'
  <2> SUFFICES ASSUME NEW i \in DOMAIN bodies'
               PROVE  LET e == bodies'[i].env
                      IN  e \in Stored' /\ (ledger'[e].id = i \/ deliveries[e] > 1)
    BY <1>2 DEF BodyInv
  <2>1. CASE i \notin DOMAIN bodies
    <3>1. i = Len(bodies) + 1 /\ bodies'[i].env = h
      BY <1>1, <1>3, <2>1
    <3> QED
      BY <1>1, <1>5, <1>6, <3>1
  <2>2. CASE i \in DOMAIN bodies /\ bodies[i].env = h
    BY <1>1, <1>3, <1>5, <2>2 DEF BodyInv
  <2>3. CASE i \in DOMAIN bodies /\ bodies[i].env # h
    <3>1. bodies[i].env \in Envelopes
      <4>1. bodies \in Seq(Body)
        BY <1>2 DEF LedgerTypeOK
      <4>2. bodies[i] \in Body
        BY <2>3, <4>1
      <4> QED
        BY <4>2 DEF Body
    <3> QED
      BY <1>1, <1>3, <2>3, <3>1 DEF BodyInv
  <2> QED
    BY <2>1, <2>2, <2>3
<1>9. ASSUME NEW e \in Envelopes, NEW f \in Envelopes, Before(e, f),
             deliveries[e] = 1, deliveries[f] = 1, {e, f} \subseteq Stored'
      PROVE  ledger'[e].id < ledger'[f].id
  <2>1. e # f
    BY <1>4, <1>9
  <2>2. CASE h = f
    <3>1. f \notin Stored /\ ledger'[f].id = Len(bodies) + 1
      BY <1>5, <1>6, <1>9, <2>2
    <3>2. ledger'[e] = ledger[e]
      BY <1>3, <2>1, <2>2
    <3>3. ledger[e].id \in 0 .. Len(bodies)
      BY <1>2 DEF LedgerTypeOK, Hashes
    <3> QED
      BY <1>1, <3>1, <3>2, <3>3
  <2>3. CASE h = e
    <3>1. Behind(e, f)
      BY <1>4, <1>9, <2>3 DEF OrderInv
    <3>2. Unwritten(f)
      BY <1>1, <1>4, <3>1 DEF Unwritten
    <3>3. f \notin Stored
      BY <1>9, <3>2 DEF FreshInv
    <3> QED
      BY <1>1, <1>9, <2>1, <2>3, <3>3
  <2>4. CASE h # e /\ h # f
    BY <1>1, <1>3, <1>9, <2>4 DEF OrderInv
  <2> QED
    BY <2>2, <2>3, <2>4
<1>10. OrderInv'
  <2>1. \A e, f \in Envelopes :
           /\ Before(e, f)' <=> Before(e, f)
           /\ Behind(e, f)' <=> Behind(e, f)
           /\ InHand(e)' <=> InHand(e)
    BY <1>2 DEF Before, Behind, InHand
  <2> QED
    BY <1>2, <1>9, <2>1 DEF OrderInv
<1> QED
  BY <1>7, <1>8, <1>10

(* A message that is delivered for the first time goes behind those of its *)
(* subject that were.                                                      *)
LEMMA DeliverOrder ==
    ASSUME TypeInv, HandInv, StreamInv, FreshInv, BodyInv, OrderInv,
           NEW g \in Envelopes, Deliver(g)
    PROVE  FreshInv' /\ BodyInv' /\ OrderInv'
<1>1. /\ pc = "fetch" /\ pc' = pc /\ batch' = Append(batch, g)
      /\ UNCHANGED <<bodies, ledger, stream>>
      /\ g \in Deliverable(turn)
      /\ deliveries' = [deliveries EXCEPT ![g] = @ + 1]
  BY DEF Deliver, StreamDeliver, ledgerVars
<1>2. /\ batch \in Seq(Envelopes) /\ DOMAIN batch = 1 .. Len(batch) /\ Len(batch) \in Nat
      /\ \A e \in Envelopes : deliveries[e] \in Nat
      /\ \A e, f \in Envelopes : Before(e, f) => e # f
  BY HandFacts
<1>3. /\ deliveries'[g] = deliveries[g] + 1
      /\ \A e \in Envelopes \ {g} : deliveries'[e] = deliveries[e]
  BY <1>1 DEF TypeInv, TypeOK, StreamTypeOK
<1>4. /\ DOMAIN batch' = 1 .. Len(batch) + 1
      /\ \A i \in DOMAIN batch : batch'[i] = batch[i]
      /\ batch'[Len(batch) + 1] = g
  BY <1>1, <1>2, AppendFacts
<1>5. \A e \in Envelopes : InHand(e)' <=> InHand(e) \/ e = g
  BY <1>2, <1>4 DEF InHand
<1>6. \A e, f \in Envelopes : Behind(e, f) => Behind(e, f)'
  BY <1>2, <1>4 DEF Behind
<1>7. \A e \in Envelopes : InHand(e) => Behind(e, g)'
  <2> SUFFICES ASSUME NEW e \in Envelopes, NEW i \in DOMAIN batch, batch[i] = e
               PROVE  Behind(e, g)'
    BY DEF InHand
  <2>1. /\ i \in DOMAIN batch' /\ Len(batch) + 1 \in DOMAIN batch' /\ i < Len(batch) + 1
        /\ batch'[i] = e /\ batch'[Len(batch) + 1] = g
    BY <1>2, <1>4
  <2> QED
    BY <2>1 DEF Behind
<1>8. ASSUME NEW e \in Envelopes, Before(e, g), deliveries[g] = 0
      PROVE  deliveries[e] # 0
  <2>1. delivery[g] # "ready"
    BY <1>8 DEF StreamInv
  <2>2. PICK k \in DOMAIN stream :
           /\ stream[k] = g
           /\ \A j \in 1 .. k - 1 :
                 ~ (SubjectOf[stream[j]] = SubjectOf[g] /\ delivery[stream[j]] = "new")
    BY <1>1, <2>1 DEF Deliverable
  <2>3. PICK i \in DOMAIN stream, j \in DOMAIN stream : i < j /\ stream[i] = e /\ stream[j] = g
    BY <1>8 DEF Before
  <2>4. j = k
    BY <2>2, <2>3 DEF StreamInv
  <2>5. DOMAIN stream = 1 .. Len(stream) /\ Len(stream) \in Nat
    BY DEF TypeInv, TypeOK, StreamTypeOK
  <2>6. delivery[e] # "new"
    BY <1>8, <2>2, <2>3, <2>4, <2>5 DEF Before
  <2>7. delivery[e] # "absent"
    BY <2>3 DEF StreamInv
  <2> QED
    BY <2>6, <2>7 DEF StreamInv
<1>9. FreshInv'
  <2>1. ASSUME NEW e \in Envelopes,
               \/ deliveries'[e] = 0
               \/ deliveries'[e] = 1 /\ Unwritten(e)'
        PROVE  e \notin Stored
    <3>1. CASE e = g
      BY <1>2, <1>3, <2>1, <3>1 DEF FreshInv
    <3>2. CASE e # g
      BY <1>1, <1>3, <1>5, <2>1, <3>2 DEF FreshInv, Unwritten
    <3> QED
      BY <3>1, <3>2
  <2>2. Stored' = Stored
    BY <1>1 DEF Stored
  <2> QED
    BY <2>1, <2>2 DEF FreshInv
<1>10. BodyInv'
  <2>1. \A e \in Envelopes : deliveries[e] > 1 => deliveries'[e] > 1
    BY <1>2, <1>3
  <2>2. \A i \in DOMAIN bodies : bodies[i].env \in Envelopes
    BY DEF BodyInv, Stored
  <2> QED
    BY <1>1, <2>1, <2>2 DEF BodyInv, Stored
<1>11. OrderInv'
  <2> SUFFICES ASSUME NEW e \in Envelopes, NEW f \in Envelopes, Before(e, f)
               PROVE  /\ deliveries'[e] = 0 => deliveries'[f] = 0
                      /\ deliveries'[e] = 1 /\ deliveries'[f] = 1 /\ InHand(e)' => Behind(e, f)'
                      /\ deliveries'[e] = 1 /\ deliveries'[f] = 1 /\ {e, f} \subseteq Stored
                            => ledger[e].id < ledger[f].id
    BY <1>1 DEF OrderInv, Before, Stored
  <2>1. e # f
    BY <1>2
  <2>2. CASE e = g
    <3>1. deliveries[e] = 0 => deliveries[f] = 0 /\ e \notin Stored
      BY DEF OrderInv, FreshInv
    <3> QED
      BY <1>2, <1>3, <2>1, <2>2, <3>1
  <2>3. CASE f = g
    <3>1. deliveries[f] = 0 => deliveries[e] # 0 /\ f \notin Stored
      BY <1>8, <2>3 DEF FreshInv
    <3>2. deliveries'[e] = 0 => deliveries'[f] = 0
      BY <1>2, <1>3, <2>1, <2>3, <3>1 DEF OrderInv
    <3>3. deliveries'[e] = 1 /\ deliveries'[f] = 1 /\ InHand(e)' => Behind(e, f)'
      BY <1>5, <1>7, <2>1, <2>3
    <3> QED
      BY <1>2, <1>3, <2>1, <2>3, <3>1, <3>2, <3>3
  <2>4. CASE e # g /\ f # g
    BY <1>3, <1>5, <1>6, <2>4 DEF OrderInv
  <2> QED
    BY <2>2, <2>3, <2>4
<1> QED
  BY <1>9, <1>10, <1>11

(* A publication disturbs neither batch nor ledger.                        *)
LEMMA PublishOrder ==
    ASSUME TypeInv, HandInv, StreamInv, FreshInv, BodyInv, OrderInv,
           NEW g \in Envelopes, Publish(g)
    PROVE  FreshInv' /\ BodyInv' /\ OrderInv'
<1>1. /\ UNCHANGED <<bodies, ledger, batch, pc, deliveries>>
      /\ delivery[g] = "absent" /\ stream' = Append(stream, g)
      /\ stream \in Seq(Envelopes) /\ DOMAIN stream = 1 .. Len(stream) /\ Len(stream) \in Nat
  BY DEF Publish, StreamPublish, ledgerVars, localVars, TypeInv, TypeOK, StreamTypeOK
<1>2. deliveries[g] = 0
  BY <1>1 DEF TypeInv, ReadyHasDeliveriesLeft
<1>3. /\ DOMAIN stream' = 1 .. Len(stream) + 1
      /\ \A i \in DOMAIN stream : stream'[i] = stream[i]
      /\ stream'[Len(stream) + 1] = g
  BY <1>1, AppendFacts
<1>4. \A e, f \in Envelopes : Before(e, f)' => Before(e, f) \/ f = g
  BY <1>1, <1>3 DEF Before
<1>5. FreshInv' /\ BodyInv'
  BY <1>1 DEF FreshInv, BodyInv, Unwritten, InHand, Stored
<1>6. OrderInv'
  BY <1>1, <1>2, <1>4 DEF OrderInv, Behind, InHand, Stored
<1> QED
  BY <1>5, <1>6

(* A step keeps what is known of redeliveries.                             *)
LEMMA NextDisturbInv ==
    ASSUME TypeInv, HandInv, DisturbInv, [Next]_vars
    PROVE  DisturbInv'
<1> USE DEF DisturbInv
<1>1. StreamInv'
  BY NextStreamInv
<1>2. CASE Crash
  <2>1. /\ UNCHANGED <<bodies, ledger, stream, deliveries>> /\ DOMAIN batch' = {}
    BY <1>2 DEF Crash, ledgerVars, streamVars
  <2> QED
    BY <1>1, <2>1 DEF FreshInv, BodyInv, OrderInv, Unwritten, InHand, Before, Stored
<1>3. CASE Idle
  <2>1. /\ UNCHANGED <<bodies, ledger, stream, deliveries, batch>>
        /\ pc' = "reply" <=> pc = "reply"
    BY <1>3 DEF Idle, ledgerVars
  <2> QED
    BY <1>1, <2>1 DEF FreshInv, BodyInv, OrderInv, Unwritten, InHand, Before, Behind, Stored
<1> QED
  BY <1>1, <1>2, <1>3, OrderKinds, PublishOrder, DeliverOrder, CommitOrder, FinishOrder

(* What is known of redeliveries bears out OnlyRedeliveryDisturbs.         *)
LEMMA DisturbMeaning ==
    ASSUME TypeInv, HandInv, ChainWellFounded, DisturbInv
    PROVE  OnlyRedeliveryDisturbs
<1>0. /\ LedgerTypeOK /\ bodies \in Seq(Body) /\ DOMAIN bodies = 1 .. Len(bodies)
      /\ stream \in Seq(Envelopes)
  BY DEF TypeInv, TypeOK, LedgerTypeOK, StreamTypeOK
<1>1. ASSUME NEW e \in Stored, bodies[ledger[e].id].prev # 0
      PROVE  bodies[ledger[e].id].prev \in DOMAIN bodies
  <2>1. ledger[e].id \in DOMAIN bodies
    BY <1>0 DEF LedgerTypeOK, Hashes, Stored
  <2>2. bodies[ledger[e].id].prev < ledger[e].id
    BY <2>1 DEF ChainWellFounded
  <2>3. bodies[ledger[e].id] \in Body
    BY <1>0, <2>1
  <2>4. bodies[ledger[e].id].prev \in Nat
    BY <2>3 DEF Body
  <2> QED
    BY <1>0, <1>1, <2>1, <2>2, <2>4
<1>2. IntactUnlessRedelivered
  BY <1>1 DEF IntactUnlessRedelivered, DisturbInv, BodyInv
<1>3. FirstTryOrder
  <2>1. \A i \in DOMAIN stream : stream[i] \in Envelopes
    BY <1>0
  <2> QED
    BY <2>1 DEF FirstTryOrder, DisturbInv, OrderInv, Before
<1> QED
  BY <1>2, <1>3 DEF OnlyRedeliveryDisturbs

(* Whatever crashes, lost replies and restarts: a link of the chain is     *)
(* hidden only by a second delivery of the entry it names, and envelopes   *)
(* that were delivered once are chained in the order of their subject      *)
(* (_process() in the order of fetch(), prev_hash from _chain_head).       *)
THEOREM RedeliveryAloneDisturbs == Spec => []OnlyRedeliveryDisturbs
<1>1. Init => DisturbInv
  BY InitDisturbInv
<1>2. IndInv /\ DisturbInv /\ [Next]_vars => DisturbInv'
  BY NextDisturbInv DEF IndInv, TypeInv
<1>3. IndInv /\ DisturbInv => OnlyRedeliveryDisturbs
  BY DisturbMeaning DEF IndInv, TypeInv
<1> QED
  BY <1>1, <1>2, <1>3, Inductive, PTL DEF Spec

-----------------------------------------------------------------------------
(* The pipeline: the appender and the projector beside each other.         *)

(* Each step of the pipeline is one of the appender, or leaves it alone.   *)
LEMMA PipelineSteps ==
    ASSUME [PipelineNext]_pipelineVars
    PROVE  [Next]_vars
<1>1. CASE StartUp
  BY <1>1 DEF StartUp, Next, Starting
<1>2. CASE CrashOfCore
  BY <1>2 DEF CrashOfCore, Next
<1>3. CASE Store
  BY <1>3 DEF Store, Next, Processing
<1>4. CASE Appending
  BY <1>4 DEF Appending, Other
<1>5. CASE Projecting
  <2>1. UNCHANGED ledgerVars
    BY <1>5 DEF Projecting, Projector!Cycle, Projector!FetchCheckpoint, Projector!ScanLedger,
       Projector!ScanNothingNew, Projector!NothingParses, Projector!WriteRows,
       Projector!CycleFails, Projector!CycleEnds, Projector!ledgerVars, ledgerVars
  <2> QED
    BY <1>5, <2>1 DEF Projecting, appenderVars, vars
<1>6. CASE UNCHANGED pipelineVars
  BY <1>6 DEF pipelineVars
<1> QED
  BY <1>1, <1>2, <1>3, <1>4, <1>5, <1>6 DEF PipelineNext

(* The appender's invariants hold beside the projector.                    *)
LEMMA PipelineInductive == PipelineSpec => [](IndInv /\ DisturbInv)
<1>1. PipelineInit => IndInv /\ DisturbInv
  BY InitIndInv, InitDisturbInv DEF PipelineInit
<1>2. IndInv /\ DisturbInv /\ [PipelineNext]_pipelineVars => (IndInv /\ DisturbInv)'
  BY NextIndInv, NextDisturbInv, PipelineSteps DEF IndInv, TypeInv
<1> QED
  BY <1>1, <1>2, PTL DEF PipelineSpec

(* The commit of a version that hides another is of a second delivery.     *)
LEMMA VersionsKept ==
    ASSUME IndInv, DisturbInv, [Next]_vars, NEW e \in Envelopes
    PROVE  /\ deliveries[e] \in Nat /\ deliveries'[e] \in Nat
           /\ deliveries'[e] >= deliveries[e]
           /\ e \in Stored => ledger'[e] = ledger[e] \/ deliveries[e] > 1
           /\ e \in Stored => e \in Stored'
<1> USE DEF IndInv
<1>0. /\ TypeInv /\ HandInv /\ StreamInv /\ FreshInv /\ TypeOK /\ StreamTypeOK
      /\ deliveries[e] \in Nat
  BY StreamAssumption DEF DisturbInv, TypeInv, TypeOK, StreamTypeOK
<1>1. deliveries'[e] \in Nat /\ deliveries'[e] >= deliveries[e]
  <2>1. CASE \E f \in Envelopes : Deliver(f)
    BY <1>0, <2>1 DEF Deliver, StreamDeliver, StreamTypeOK
  <2>2. CASE \E f \in Envelopes : Publish(f)
    BY <1>0, <2>2 DEF Publish, StreamPublish
  <2>3. CASE Commit \/ Crash
    BY <1>0, <2>3 DEF Commit, Crash, streamVars
  <2>4. CASE Finish
    BY <1>0, <2>4, FinishFacts DEF SettledAs, streamVars
  <2>5. CASE Idle
    BY <1>0, <2>5 DEF Idle
  <2> QED
    BY <1>0, <2>1, <2>2, <2>3, <2>4, <2>5, OrderKinds
<1>2. CASE ~ Commit
  BY <1>0, <1>1, <1>2, LedgerStable
<1>3. CASE Commit
  <2> DEFINE h == Head(batch)
  <2>1. /\ h \in Envelopes /\ Stored' = Stored \cup {h} /\ pc = "write"
        /\ env \in Body /\ env.env = h /\ SetEnvelope(env, sealed) /\ sealed \in BOOLEAN
        /\ LedgerTypeOK
    BY <1>0, <1>3, CommitFacts DEF Commit, TypeOK
  <2>2. InHand(h) /\ deliveries[h] # 0 /\ deliveries[h] \in Nat
    BY <1>0, <2>1, HandFacts DEF Busy
  <2>3. h \in Stored => deliveries[h] > 1
    BY <1>0, <2>1, <2>2 DEF FreshInv, Unwritten
  <2>4. e # h => ledger'[e] = ledger[e]
    BY <2>1, SetEnvelopeFacts
  <2> HIDE DEF h
  <2>5. e \in Stored => e \in Stored'
    BY <2>1
  <2>6. CASE e = h
    BY <1>0, <1>1, <2>3, <2>5, <2>6
  <2>7. CASE e # h
    BY <1>0, <1>1, <2>4, <2>5, <2>7
  <2> QED
    BY <2>6, <2>7
<1> QED
  BY <1>2, <1>3

-----------------------------------------------------------------------------
(* What the projector has read and written.                                *)

(* The steps of the projector that write no row: the pairs in hand stay,   *)
(* or go.                                                                  *)
Pairs(e) == raw_pairs["core"][e]
NoRows ==
    /\ UNCHANGED audit_entries
    /\ \/ UNCHANGED raw_pairs
       \/ \A e \in Envelopes : Pairs(e)' = NoVersion
Reads ==
    /\ Projector!ScanLedger("core")
    /\ UNCHANGED <<vars, audit_entries, late, projector_faults>>
    /\ \A e \in Envelopes :
          Pairs(e)' = IF e \in Projector!NewPairs("core") THEN ledger[e] ELSE NoVersion
Writes(doubted) ==
    /\ Projector!WriteRows("core", doubted)
    /\ UNCHANGED <<vars, late>>
    /\ \A e \in Envelopes : Pairs(e)' = NoVersion
    /\ audit_entries' =
          [e \in Envelopes |->
              IF e \in Projector!Rows("core") \ Rows
              THEN Projector!RowOf("core", e, doubted) ELSE audit_entries[e]]

TablesOK ==
    /\ audit_entries \in [Envelopes -> Projector!Row]
    /\ raw_pairs \in [Projector!Projectors -> [Envelopes -> Version]]
    /\ projector_faults \in [Projector!FaultKinds -> Nat]
    /\ at \in [Projector!Projectors -> Projector!Places]
    /\ checkpoint \in [Projector!Projectors -> Nat] /\ audit_checkpoint \in Nat

(* The steps, as far as the rows of the projection go.                     *)
LEMMA PipelineKinds ==
    ASSUME TablesOK, LedgerTypeOK, [PipelineNext]_pipelineVars
    PROVE  \/ NoRows
           \/ Reads
           \/ \E doubted \in SUBSET Envelopes : Writes(doubted)
<1>0. /\ "core" \in Projector!Projectors /\ raw_pairs["core"] \in [Envelopes -> Version]
      /\ raw_pairs \in [Projector!Projectors -> [Envelopes -> Version]]
  BY DEF TablesOK, Projector!Projectors
<1>1. CASE \/ StartUp \/ Store \/ Appending \/ UNCHANGED pipelineVars
           \/ Projector!FetchCheckpoint("core")
  BY <1>1 DEF StartUp, Store, Appending, Other, pipelineVars, projectorVars, projectorLocals,
     Projector!StartDeaf, Projector!Start, Projector!FetchCheckpoint, Projector!tables, NoRows
<1>2. CASE \/ CrashOfCore \/ Projector!ScanNothingNew("core")
           \/ Projector!NothingParses("core") \/ Projector!CycleFails("core")
  <2>1. /\ raw_pairs' = [raw_pairs EXCEPT !["core"] = Projector!NoPairs]
        /\ UNCHANGED audit_entries
    BY <1>2 DEF CrashOfCore, Projector!Crash, Projector!ScanNothingNew, Projector!NothingParses,
       Projector!CycleFails, Projector!CycleEnds, Projector!tables
  <2>2. raw_pairs'["core"] = Projector!NoPairs
    BY <1>0, <2>1
  <2> QED
    BY <2>1, <2>2 DEF NoRows, Pairs, Projector!NoPairs, Projector!NoVersion, NoVersion
<1>3. CASE Projector!ScanLedger("core") /\ UNCHANGED appenderVars
  <2>1. raw_pairs' = [raw_pairs EXCEPT !["core"] =
            [e \in Envelopes |-> IF e \in Projector!NewPairs("core") THEN ledger[e]
                                 ELSE Projector!NoVersion]]
    BY <1>3 DEF Projector!ScanLedger
  <2>2. UNCHANGED <<vars, audit_entries, late, projector_faults>>
    BY <1>3 DEF Projector!ScanLedger, Projector!tables, Projector!histories,
       Projector!ledgerVars, appenderVars, vars, ledgerVars
  <2>3. \A e \in Envelopes :
            Pairs(e)' = IF e \in Projector!NewPairs("core") THEN ledger[e] ELSE NoVersion
    BY <1>0, <2>1 DEF Pairs, Projector!NoVersion, NoVersion
  <2> QED
    BY <1>3, <2>2, <2>3 DEF Reads
<1>4. ASSUME NEW doubted \in SUBSET Envelopes, Projector!WriteRows("core", doubted),
             UNCHANGED appenderVars
      PROVE  Writes(doubted)
  <2>1. raw_pairs' = [raw_pairs EXCEPT !["core"] = Projector!NoPairs]
    BY <1>4 DEF Projector!WriteRows, Projector!CycleEnds
  <2>2. UNCHANGED <<vars, late>>
    BY <1>4 DEF Projector!WriteRows, Projector!CycleEnds, Projector!ledgerVars, appenderVars,
       vars, ledgerVars
  <2>3. \A e \in Envelopes : Pairs(e)' = NoVersion
    BY <1>0, <2>1 DEF Pairs, Projector!NoPairs, Projector!NoVersion, NoVersion
  <2>4. audit_entries' =
          [e \in Envelopes |->
              IF e \in Projector!Rows("core") \ Rows
              THEN Projector!RowOf("core", e, doubted) ELSE audit_entries[e]]
    BY <1>4 DEF Projector!WriteRows, Projector!InsertRows, Rows
  <2> QED
    BY <1>4, <2>2, <2>3, <2>4 DEF Writes
<1> QED
  BY <1>1, <1>2, <1>3, <1>4 DEF PipelineNext, Projecting, Projector!Cycle

(* A step keeps the types of the projection.                               *)
LEMMA NextTablesOK ==
    ASSUME TablesOK, LedgerTypeOK, [PipelineNext]_pipelineVars
    PROVE  TablesOK'
<1>0. /\ "core" \in Projector!Projectors
      /\ raw_pairs \in [Projector!Projectors -> [Envelopes -> Version]]
      /\ raw_pairs["core"] \in [Envelopes -> Version]
      /\ Projector!NoPairs \in [Envelopes -> Version]
      /\ ledger \in [Envelopes -> Version]
  BY DEF TablesOK, Projector!Projectors, Projector!NoPairs, Projector!NoVersion, Version,
     LedgerTypeOK
<1>1. raw_pairs' \in [Projector!Projectors -> [Envelopes -> Version]]
  <2>1. CASE \E r \in [Envelopes -> Version] : raw_pairs' = [raw_pairs EXCEPT !["core"] = r]
    BY <1>0, <2>1
  <2>2. CASE UNCHANGED raw_pairs
    BY <1>0, <2>2
  <2>3. CASE \/ StartUp \/ Store \/ Appending \/ UNCHANGED pipelineVars
             \/ Projector!FetchCheckpoint("core")
    BY <2>2, <2>3 DEF StartUp, Store, Appending, Other, pipelineVars, projectorVars,
       projectorLocals, Projector!StartDeaf, Projector!Start, Projector!FetchCheckpoint
  <2>4. CASE \/ CrashOfCore \/ Projector!ScanNothingNew("core")
             \/ Projector!NothingParses("core") \/ Projector!CycleFails("core")
             \/ \E doubted \in SUBSET Envelopes : Projector!WriteRows("core", doubted)
    BY <1>0, <2>1, <2>4 DEF CrashOfCore, Projector!Crash, Projector!ScanNothingNew,
       Projector!NothingParses, Projector!CycleFails, Projector!WriteRows, Projector!CycleEnds
  <2>5. CASE Projector!ScanLedger("core")
    <3> DEFINE r == [e \in Envelopes |-> IF e \in Projector!NewPairs("core") THEN ledger[e]
                                         ELSE Projector!NoVersion]
    <3>1. r \in [Envelopes -> Version] /\ raw_pairs' = [raw_pairs EXCEPT !["core"] = r]
      BY <1>0, <2>5 DEF Projector!ScanLedger, Projector!NoVersion, Version
    <3> HIDE DEF r
    <3> QED
      BY <2>1, <3>1
  <2> QED
    BY <2>3, <2>4, <2>5 DEF PipelineNext, Projecting, Projector!Cycle
<1>2. audit_entries' \in [Envelopes -> Projector!Row]
  <2>1. CASE NoRows \/ Reads
    BY <2>1 DEF NoRows, Reads, TablesOK
  <2>2. ASSUME NEW doubted \in SUBSET Envelopes, Writes(doubted)
        PROVE  audit_entries' \in [Envelopes -> Projector!Row]
    <3>1. \A e \in Envelopes : /\ raw_pairs["core"][e].id \in Nat
                               /\ raw_pairs["core"][e].sealed \in BOOLEAN
      BY <1>0 DEF Version
    <3>2. \A e \in Envelopes : Projector!RowOf("core", e, doubted) \in Projector!Row
      <4>1. \A e \in Envelopes : Projector!ChainOk("core", e) \in BOOLEAN
        BY DEF Projector!ChainOk
      <4> QED
        BY <3>1, <4>1 DEF Projector!RowOf, Projector!Row
    <3> QED
      BY <2>2, <3>2 DEF Writes, TablesOK
  <2> QED
    BY <2>1, <2>2, PipelineKinds
<1>3. at' \in [Projector!Projectors -> Projector!Places]
  <2>1. CASE \E place \in Projector!Places : Projector!Goto("core", place)
    BY <1>0, <2>1 DEF Projector!Goto, TablesOK
  <2>2. CASE UNCHANGED at
    BY <2>2 DEF TablesOK
  <2>3. CASE Store \/ Appending \/ UNCHANGED pipelineVars
    BY <2>2, <2>3 DEF Store, Appending, Other, pipelineVars, projectorVars, projectorLocals
  <2>4. CASE StartUp \/ CrashOfCore \/ Projecting
    <3>1. {"down", "deaf", "idle", "scan", "write"} \subseteq Projector!Places
      BY DEF Projector!Places
    <3> QED
      BY <2>1, <2>4, <3>1 DEF StartUp, CrashOfCore, Projecting, Projector!Cycle, Projector!Crash,
         Projector!StartDeaf, Projector!Start, Projector!FetchCheckpoint, Projector!ScanLedger,
         Projector!ScanNothingNew, Projector!NothingParses, Projector!CycleFails,
         Projector!WriteRows, Projector!CycleEnds, Projector!AfterZero
  <2> QED
    BY <2>3, <2>4 DEF PipelineNext
<1>4. projector_faults' \in [Projector!FaultKinds -> Nat]
  <2>1. CASE \E k \in Projector!FaultKinds : Projector!Fault(k)
    <3>1. \A k \in Projector!FaultKinds : projector_faults[k] + 1 \in Nat
      BY DEF TablesOK
    <3> QED
      BY <2>1, <3>1 DEF Projector!Fault, TablesOK
  <2>2. CASE UNCHANGED projector_faults
    BY <2>2 DEF TablesOK
  <2>3. CASE Store \/ Appending \/ UNCHANGED pipelineVars
    BY <2>2, <2>3 DEF Store, Appending, Other, pipelineVars, projectorVars, projectorLocals
  <2>4. CASE StartUp \/ CrashOfCore \/ Projecting
    <3>1. {"boot", "crash", "error", "vault"} \subseteq Projector!FaultKinds
      BY DEF Projector!FaultKinds
    <3> QED
      BY <2>1, <2>2, <2>4, <3>1 DEF StartUp, CrashOfCore, Projecting, Projector!Cycle,
         Projector!Crash, Projector!StartDeaf, Projector!Start, Projector!FetchCheckpoint,
         Projector!ScanLedger, Projector!ScanNothingNew, Projector!NothingParses,
         Projector!CycleFails, Projector!WriteRows
  <2> QED
    BY <2>3, <2>4 DEF PipelineNext
<1>5. checkpoint' \in [Projector!Projectors -> Nat]
  <2>1. CASE \E n \in Nat : checkpoint' = [checkpoint EXCEPT !["core"] = n]
    BY <1>0, <2>1 DEF TablesOK
  <2>2. CASE UNCHANGED checkpoint
    BY <2>2 DEF TablesOK
  <2>3. CASE \/ StartUp \/ Store \/ Appending \/ UNCHANGED pipelineVars
             \/ Projector!ScanLedger("core")
    BY <2>2, <2>3 DEF StartUp, Store, Appending, Other, pipelineVars, projectorVars,
       projectorLocals, Projector!StartDeaf, Projector!Start, Projector!ScanLedger
  <2>4. CASE \/ CrashOfCore
             \/ Projecting /\ ~ Projector!ScanLedger("core")
    <3>1. audit_checkpoint \in Nat /\ 0 \in Nat
      BY DEF TablesOK
    <3> QED
      BY <2>1, <2>4, <3>1 DEF CrashOfCore, Projector!Crash, Projecting, Projector!Cycle,
         Projector!FetchCheckpoint, Projector!ScanNothingNew, Projector!NothingParses,
         Projector!CycleFails, Projector!WriteRows, Projector!CycleEnds
  <2> QED
    BY <2>3, <2>4 DEF PipelineNext, Projecting
<1>6. audit_checkpoint' \in Nat
  <2>1. CASE \E e \in Envelopes : audit_checkpoint' = Ulid[e]
    BY <2>1, LedgerAssumption
  <2>2. CASE UNCHANGED audit_checkpoint
    BY <2>2 DEF TablesOK
  <2>3. CASE \E doubted \in SUBSET Envelopes : Projector!WriteRows("core", doubted)
    BY <2>1, <2>3 DEF Projector!WriteRows, Projector!AdvanceCheckpoint, Projector!LastOf,
       Projector!Batch
  <2>4. CASE ~ \E doubted \in SUBSET Envelopes : Projector!WriteRows("core", doubted)
    BY <2>2, <2>4 DEF PipelineNext, StartUp, CrashOfCore, Store, Appending, Other, Projecting,
       pipelineVars, projectorVars, projectorLocals, Projector!Start, Projector!StartDeaf,
       Projector!Crash, Projector!Cycle, Projector!FetchCheckpoint, Projector!ScanLedger,
       Projector!ScanNothingNew, Projector!NothingParses, Projector!CycleFails,
       Projector!CycleEnds, Projector!tables
  <2> QED
    BY <2>3, <2>4
<1> QED
  BY <1>1, <1>2, <1>3, <1>4, <1>5, <1>6 DEF TablesOK

(* A row, and a pair that was read, is of the current version of its       *)
(* entry, or the message was delivered again.                              *)
CurrentInv ==
    \A e \in Envelopes :
        /\ audit_entries[e].id # 0 => audit_entries[e].id = ledger[e].id \/ deliveries[e] > 1
        /\ Pairs(e).id # 0 => Pairs(e) = ledger[e] \/ deliveries[e] > 1

(* A step leaves rows and batches of the current versions, but for those   *)
(* of messages delivered again.                                            *)
LEMMA NextCurrentInv ==
    ASSUME IndInv, DisturbInv, TablesOK, CurrentInv, [PipelineNext]_pipelineVars
    PROVE  CurrentInv'
<1> SUFFICES ASSUME NEW e \in Envelopes
             PROVE  /\ audit_entries'[e].id # 0 =>
                          audit_entries'[e].id = ledger'[e].id \/ deliveries'[e] > 1
                    /\ Pairs(e)'.id # 0 => Pairs(e)' = ledger'[e] \/ deliveries'[e] > 1
  BY DEF CurrentInv
<1>0. LedgerTypeOK /\ [Next]_vars
  BY PipelineSteps DEF IndInv, TypeOK
<1>1. /\ deliveries[e] > 1 => deliveries'[e] > 1
      /\ e \in Stored => ledger'[e] = ledger[e] \/ deliveries'[e] > 1
  <2>1. /\ deliveries[e] \in Nat /\ deliveries'[e] \in Nat
        /\ deliveries'[e] >= deliveries[e]
        /\ e \in Stored => ledger'[e] = ledger[e] \/ deliveries[e] > 1
    BY <1>0, VersionsKept
  <2> QED
    BY <2>1
<1>2. /\ audit_entries[e].id # 0 => audit_entries[e].id = ledger'[e].id \/ deliveries'[e] > 1
      /\ Pairs(e).id # 0 => Pairs(e) = ledger'[e] \/ deliveries'[e] > 1
  BY <1>1 DEF CurrentInv, Stored
<1>3. NoVersion.id = 0
  BY DEF NoVersion
<1>4. CASE NoRows
  BY <1>2, <1>3, <1>4 DEF NoRows, Pairs
<1>5. CASE Reads
  BY <1>2, <1>3, <1>5 DEF Reads, vars, ledgerVars
<1>6. ASSUME NEW doubted \in SUBSET Envelopes, Writes(doubted)
      PROVE  /\ audit_entries'[e].id # 0 =>
                   audit_entries'[e].id = ledger'[e].id \/ deliveries'[e] > 1
             /\ Pairs(e)'.id # 0 => Pairs(e)' = ledger'[e] \/ deliveries'[e] > 1
  <2>1. CASE e \in Projector!Rows("core") \ Rows
    <3>1. audit_entries'[e].id = Pairs(e).id
      BY <1>6, <2>1 DEF Writes, Projector!RowOf, Pairs
    <3> QED
      BY <1>2, <1>3, <1>6, <3>1 DEF Writes
  <2>2. CASE e \notin Projector!Rows("core") \ Rows
    <3>1. audit_entries'[e] = audit_entries[e]
      BY <1>6, <2>2 DEF Writes
    <3> QED
      BY <1>2, <1>3, <1>6, <3>1 DEF Writes
  <2> QED
    BY <2>1, <2>2
<1> QED
  BY <1>0, <1>4, <1>5, <1>6, PipelineKinds

(* The projection is empty at first.                                       *)
LEMMA InitTables == PipelineInit => TablesOK /\ CurrentInv
<1> SUFFICES ASSUME PipelineInit PROVE TablesOK /\ CurrentInv
  OBVIOUS
<1>1. TablesOK
  BY DEF PipelineInit, Projector!Init, TablesOK, Projector!NoRow, Projector!Row,
     Projector!NoPairs, Projector!NoVersion, Version, Projector!Places
<1>2. \A e \in Envelopes : audit_entries[e].id = 0 /\ Pairs(e).id = 0
  BY DEF PipelineInit, Projector!Init, Projector!NoRow, Projector!NoPairs, Projector!NoVersion,
     Pairs, Projector!Projectors
<1> QED
  BY <1>1, <1>2 DEF CurrentInv

(* All of this holds in every state of the pipeline.                       *)
LEMMA TablesInductive == PipelineSpec => [](IndInv /\ DisturbInv /\ TablesOK /\ CurrentInv)
<1>1. /\ IndInv /\ DisturbInv /\ TablesOK /\ CurrentInv
      /\ [PipelineNext]_pipelineVars
      => (TablesOK /\ CurrentInv)'
  BY NextTablesOK, NextCurrentInv DEF IndInv, TypeOK
<1> QED
  BY <1>1, PipelineInductive, InitTables, PTL DEF PipelineSpec

(* A row is made from the current version of its entry, whatever crashes   *)
(* and restarts, unless the message was delivered more than once: the      *)
(* projector reads, in one scan, what the appender never rewrites.         *)
THEOREM RowsStayCurrent == PipelineSpec => []RowsAreCurrent
<1>1. CurrentInv => RowsAreCurrent
  BY DEF CurrentInv, RowsAreCurrent, Rows, Projector!Projected
<1> QED
  BY <1>1, TablesInductive, PTL

-----------------------------------------------------------------------------
(* The appender is the environment the projector's specification assumes.  *)

(* The counters of faults only grow, and keep to their bounds.             *)
LEMMA FaultsGrow ==
    ASSUME TypeInv, [Next]_vars
    PROVE  /\ UNCHANGED faults \/ \E k \in FaultKinds : Fault(k)
           /\ \A k \in FaultKinds :
                 faults[k] \in Nat /\ faults'[k] \in Nat /\ faults'[k] >= faults[k]
<1>0. /\ faults \in [FaultKinds -> Nat]
      /\ {"boot", "crash", "reply", "write", "ack", "vault"} \subseteq FaultKinds
  BY DEF TypeInv, TypeOK, FaultKinds
<1>1. UNCHANGED faults \/ \E k \in FaultKinds : Fault(k)
  BY <1>0 DEF Next, Starting, Processing, Publish, BootWithoutImmudb, BootWithoutJetStream,
     Boot, BootImpaired, Subscribed, JetStreamWaitTimesOut, Deliver, FetchReturns,
     FetchTimesOut, Refuse, RefuseUnverifiable, SendAck, Accept, Prepare, PrepareUnsigned,
     Link, Commit, WriteFails, Acknowledge, ReplyLost, RedeliverAbandoned, AckWaitExpires,
     Crash, vars
<1>2. ASSUME NEW k \in FaultKinds, Fault(k), NEW j \in FaultKinds
      PROVE  faults'[j] \in Nat /\ faults'[j] >= faults[j]
  <2>1. /\ faults'[k] = faults[k] + 1 /\ faults[k] \in Nat
        /\ j # k => faults'[j] = faults[j]
    BY <1>0, <1>2, FaultFacts
  <2>2. faults[j] \in Nat
    BY <1>0
  <2>3. CASE j = k
    BY <2>1, <2>3
  <2>4. CASE j # k
    BY <2>1, <2>2, <2>4
  <2> QED
    BY <2>3, <2>4
<1> QED
  BY <1>0, <1>1, <1>2

(* What is written without a seal is written after a fault of Vault.       *)
SealInv ==
    /\ \A k \in FaultKinds : faults[k] <= MaxFaults[k]
    /\ pc = "write" /\ ~ sealed => faults["vault"] # 0

(* A step writes without a seal only after a fault of Vault.               *)
LEMMA NextSealInv ==
    ASSUME TypeInv, SealInv, [Next]_vars
    PROVE  SealInv'
<1>0. /\ faults \in [FaultKinds -> Nat] /\ MaxFaults \in [FaultKinds -> Nat]
      /\ {"boot", "crash", "reply", "write", "ack", "vault"} \subseteq FaultKinds
  BY AppenderAssumption DEF TypeInv, TypeOK, FaultKinds
<1>1. ASSUME NEW k \in FaultKinds, Fault(k)
      PROVE  /\ \A j \in FaultKinds : faults'[j] <= MaxFaults[j] /\ faults'[j] >= faults[j]
             /\ faults'[k] # 0
  <2>1. faults[k] < MaxFaults[k]
    BY <1>1 DEF Fault
  <2>2. /\ faults'[k] = faults[k] + 1
        /\ \A j \in FaultKinds \ {k} : faults'[j] = faults[j]
    BY <1>0, <1>1, FaultFacts
  <2>3. faults[k] \in Nat /\ MaxFaults[k] \in Nat
    BY <1>0
  <2>4. faults'[k] <= MaxFaults[k] /\ faults'[k] >= faults[k] /\ faults'[k] # 0
    BY <2>1, <2>2, <2>3
  <2>5. \A j \in FaultKinds \ {k} : faults'[j] <= MaxFaults[j] /\ faults'[j] >= faults[j]
    BY <1>0, <2>2 DEF SealInv
  <2> QED
    BY <2>4, <2>5
<1>2. UNCHANGED faults \/ \E k \in FaultKinds : Fault(k)
  BY FaultsGrow
<1>3. \A j \in FaultKinds : faults'[j] <= MaxFaults[j] /\ faults'[j] >= faults[j]
  BY <1>0, <1>1, <1>2 DEF SealInv
<1>4. CASE pc' = "write" /\ ~ sealed'
  <2>1. CASE \E f \in Forms : PrepareUnsigned(f)
    BY <1>0, <1>1, <1>3, <2>1 DEF PrepareUnsigned, SealInv
  <2>2. CASE pc = "write" /\ ~ sealed
    BY <1>0, <1>3, <2>2 DEF SealInv
  <2>3. Finish => pc' # "write"
    BY FinishFacts, DoneTypes DEF TypeInv
  <2>4. \/ \E f \in Forms : PrepareUnsigned(f)
        \/ pc = "write" /\ ~ sealed
    BY <1>4, <2>3
    DEF Next, Starting, Processing, Finish, Publish, BootWithoutImmudb, BootWithoutJetStream,
        Boot, BootImpaired, Subscribed, JetStreamWaitTimesOut, Deliver, FetchReturns,
        FetchTimesOut, Accept, Prepare, Link, Commit, RedeliverAbandoned, AckWaitExpires,
        Crash, vars, localVars
  <2> QED
    BY <2>1, <2>2, <2>4
<1> QED
  BY <1>3, <1>4 DEF SealInv

(* Each body has a delivery of its own, which is over or wrote it.         *)
Attempts == Envelopes \X (1 .. MaxDeliver)
PaidBy(slot) ==
    /\ slot \in [DOMAIN bodies -> Attempts]
    /\ \A i, j \in DOMAIN bodies : slot[i] = slot[j] => i = j
    /\ \A i \in DOMAIN bodies, e \in Envelopes, n \in 1 .. MaxDeliver :
          slot[i] = <<e, n>> =>
              /\ n <= deliveries[e]
              /\ n = deliveries[e] => ~ Unwritten(e)
SlotInv == \E slot : PaidBy(slot)

(* A message in hand that the ledger did not have was in hand before, or   *)
(* has just been delivered.                                                *)
LEMMA UnwrittenBefore ==
    ASSUME IndInv, DisturbInv, [Next]_vars, NEW e \in Envelopes, Unwritten(e)'
    PROVE  Unwritten(e) \/ deliveries'[e] > deliveries[e]
<1>0. TypeInv /\ HandInv /\ StreamInv /\ TypeOK /\ StreamTypeOK
  BY DEF IndInv, DisturbInv, TypeInv, TypeOK
<1>1. CASE \E f \in Envelopes : Deliver(f)
  <2>1. PICK f \in Envelopes : Deliver(f)
    BY <1>1
  <2>2. /\ batch' = Append(batch, f) /\ batch \in Seq(Envelopes) /\ pc = "fetch"
        /\ deliveries' = [deliveries EXCEPT ![f] = @ + 1]
    BY <1>0, <2>1 DEF Deliver, StreamDeliver, TypeOK
  <2>3. CASE e = f
    BY <1>0, <2>2, <2>3, StreamAssumption DEF StreamTypeOK
  <2>4. CASE e # f
    <3>1. PICK i \in DOMAIN batch' : batch'[i] = e
      BY DEF Unwritten, InHand
    <3>2. i \in 1 .. Len(batch) /\ batch[i] = e
      BY <2>2, <2>4, <3>1, AppendFacts
    <3> QED
      BY <2>2, <3>2 DEF Unwritten, InHand
  <2> QED
    BY <2>3, <2>4
<1>2. CASE \E f \in Envelopes : Publish(f)
  BY <1>2 DEF Publish, localVars, Unwritten, InHand
<1>3. CASE Commit
  BY <1>3 DEF Commit, Unwritten, InHand
<1>4. CASE Crash
  BY <1>4 DEF Crash, Unwritten, InHand
<1>5. CASE Finish
  <2>1. pc \in Busy /\ Done
    BY <1>0, <1>5, FinishFacts
  <2>2. PICK i \in DOMAIN batch' : batch'[i] = e
    BY DEF Unwritten, InHand
  <2>3. i + 1 \in DOMAIN batch /\ batch[i + 1] = e /\ e # Head(batch)
    BY <1>0, <2>1, <2>2, DoneHand
  <2> QED
    BY <2>3 DEF Unwritten, InHand
<1>6. CASE Idle
  BY <1>6 DEF Idle, Unwritten, InHand
<1> QED
  BY <1>0, <1>1, <1>2, <1>3, <1>4, <1>5, <1>6, OrderKinds

(* A step that commits a body has a delivery to give it.                   *)
LEMMA NextSlotInv ==
    ASSUME IndInv, DisturbInv, SlotInv, [Next]_vars
    PROVE  SlotInv'
<1>0. /\ TypeInv /\ HandInv /\ StreamInv /\ TypeOK /\ StreamTypeOK
      /\ DOMAIN bodies = 1 .. Len(bodies) /\ Len(bodies) \in Nat
      /\ MaxDeliver \in Nat
  BY StreamAssumption DEF IndInv, DisturbInv, TypeInv, TypeOK, LedgerTypeOK
<1>1. PICK slot : PaidBy(slot)
  BY DEF SlotInv
<1>2. ASSUME NEW e \in Envelopes, NEW n \in 1 .. MaxDeliver,
             n <= deliveries[e], n = deliveries[e] => ~ Unwritten(e)
      PROVE  n <= deliveries'[e] /\ (n = deliveries'[e] => ~ Unwritten(e)')
  <2>1. /\ deliveries[e] \in Nat /\ deliveries'[e] \in Nat /\ deliveries'[e] >= deliveries[e]
    BY VersionsKept
  <2>2. Unwritten(e)' => Unwritten(e) \/ deliveries'[e] > deliveries[e]
    BY UnwrittenBefore
  <2> QED
    BY <1>0, <1>2, <2>1, <2>2
<1>3. CASE bodies' = bodies
  <2>1. PaidBy(slot)'
    BY <1>1, <1>2, <1>3 DEF PaidBy
  <2> QED
    BY <2>1 DEF SlotInv
<1>4. CASE Commit /\ bodies' # bodies
  <2>1. PICK h \in Envelopes : h = Head(batch)
    BY <1>0, <1>4, CommitFacts
  <2>2. /\ Len(bodies') = Len(bodies) + 1 /\ DOMAIN bodies' = 1 .. Len(bodies) + 1
        /\ pc = "write" /\ pc' = "reply" /\ batch' = batch /\ deliveries' = deliveries
    BY <1>0, <1>4, CommitFacts DEF Commit, streamVars
  <2>3. InHand(h) /\ deliveries[h] # 0 /\ deliveries[h] \in Nat
    BY <1>0, <2>1, <2>2, HandFacts DEF Busy
  <2>4. Unwritten(h) /\ deliveries[h] \in 1 .. MaxDeliver
    BY <1>0, <2>2, <2>3 DEF Unwritten, StreamTypeOK
  <2>5. ~ Unwritten(h)'
    BY <2>1, <2>2 DEF Unwritten
  <2> DEFINE new == <<h, deliveries[h]>>
             next == [i \in DOMAIN bodies' |-> IF i \in DOMAIN bodies THEN slot[i] ELSE new]
  <2>6. new \in Attempts /\ \A i \in DOMAIN bodies : slot[i] # new
    BY <1>1, <2>4 DEF PaidBy, Attempts
  <2>7. next \in [DOMAIN bodies' -> Attempts]
    BY <1>1, <2>6 DEF PaidBy
  <2>8. \A i, j \in DOMAIN bodies' : next[i] = next[j] => i = j
    <3>1. \A i \in DOMAIN bodies' : i \notin DOMAIN bodies => i = Len(bodies) + 1
      BY <1>0, <2>2
    <3> HIDE DEF new
    <3> QED
      BY <1>1, <2>6, <3>1 DEF PaidBy
  <2>9. ASSUME NEW i \in DOMAIN bodies', NEW e \in Envelopes, NEW n \in 1 .. MaxDeliver,
               next[i] = <<e, n>>
        PROVE  n <= deliveries'[e] /\ (n = deliveries'[e] => ~ Unwritten(e)')
    <3>1. CASE i \in DOMAIN bodies
      <4>1. slot[i] = <<e, n>>
        BY <2>9, <3>1
      <4> QED
        BY <1>1, <1>2, <3>1, <4>1 DEF PaidBy
    <3>2. CASE i \notin DOMAIN bodies
      <4>1. e = h /\ n = deliveries[h]
        BY <2>9, <3>2
      <4> QED
        BY <2>2, <2>3, <2>5, <4>1
    <3> QED
      BY <3>1, <3>2
  <2> HIDE DEF next
  <2>10. PICK paid : paid = next
    OBVIOUS
  <2>11. PaidBy(paid)'
    BY <2>7, <2>8, <2>9, <2>10 DEF PaidBy
  <2> QED
    BY <2>11 DEF SlotInv
<1> QED
  BY <1>0, <1>3, <1>4, LedgerStable

(* While a message in hand is not written there is room for one body more. *)
LEMMA RoomForOne ==
    ASSUME IndInv, DisturbInv, SlotInv, NEW h \in Envelopes, Unwritten(h)
    PROVE  Len(bodies) < Cardinality(Envelopes) * MaxDeliver
<1>0. /\ TypeInv /\ HandInv /\ StreamInv /\ StreamTypeOK
      /\ DOMAIN bodies = 1 .. Len(bodies) /\ Len(bodies) \in Nat
      /\ MaxDeliver \in Nat \ {0}
  BY StreamAssumption DEF IndInv, DisturbInv, TypeInv, TypeOK, LedgerTypeOK
<1>1. PICK slot : PaidBy(slot)
  BY DEF SlotInv
<1>2. deliveries[h] \in 1 .. MaxDeliver
  <2>1. deliveries[h] # 0 /\ deliveries[h] \in Nat
    BY <1>0, HandFacts DEF Unwritten
  <2> QED
    BY <1>0, <2>1 DEF StreamTypeOK
<1>3. <<h, deliveries[h]>> \in Attempts /\ \A i \in DOMAIN bodies : slot[i] # <<h, deliveries[h]>>
  BY <1>1, <1>2 DEF PaidBy, Attempts
<1>4. IsFiniteSet(1 .. MaxDeliver) /\ Cardinality(1 .. MaxDeliver) = MaxDeliver
  BY <1>0, FS_Interval
<1>5. /\ IsFiniteSet(Attempts)
      /\ Cardinality(Attempts) = Cardinality(Envelopes) * MaxDeliver
  BY <1>4, PipelineAssumption, FS_Product DEF Attempts
<1>6. slot \in Injection(1 .. Len(bodies), Attempts)
  BY <1>0, <1>1 DEF PaidBy, Injection, IsInjective
<1>7. slot \notin Surjection(1 .. Len(bodies), Attempts)
  BY <1>0, <1>3 DEF Surjection
<1>8. /\ Cardinality(1 .. Len(bodies)) <= Cardinality(Attempts)
      /\ Cardinality(1 .. Len(bodies)) # Cardinality(Attempts)
  BY <1>5, <1>6, <1>7, FS_Injection
<1>9. Cardinality(1 .. Len(bodies)) = Len(bodies)
  <2>1. Cardinality(1 .. Len(bodies)) = IF 1 > Len(bodies) THEN 0 ELSE Len(bodies) - 1 + 1
    BY <1>0, FS_Interval
  <2> QED
    BY <1>0, <2>1
<1>10. Cardinality(Attempts) \in Nat
  BY <1>5, FS_CardinalityType
<1> QED
  BY <1>0, <1>5, <1>8, <1>9, <1>10

(* Appender and projector are tasks of one process.                        *)
DoorInv == at["core"] = "down" <=> pc = "off"

(* Both tasks start and end with their process.                            *)
LEMMA NextDoorInv ==
    ASSUME TypeOK, TablesOK, DoorInv, [PipelineNext]_pipelineVars
    PROVE  DoorInv'
<1>0. "core" \in DOMAIN at
  BY DEF TablesOK, Projector!Projectors
<1>1. ASSUME NEW place, Projector!Goto("core", place) PROVE at'["core"] = place
  BY <1>0, <1>1 DEF Projector!Goto
<1>2. CASE StartUp
  <2>1. pc' # "off"
    BY <1>2 DEF StartUp, BootWithoutImmudb, BootWithoutJetStream, Boot, BootImpaired, Subscribed
  <2>2. at'["core"] \in {"idle", "deaf"}
    BY <1>1, <1>2 DEF StartUp, Projector!Start, Projector!StartDeaf
  <2> QED
    BY <2>1, <2>2 DEF DoorInv
<1>3. CASE CrashOfCore
  BY <1>1, <1>3 DEF CrashOfCore, Crash, Projector!Crash, DoorInv
<1>4. CASE Store
  BY <1>4 DEF Store, Commit, projectorLocals, DoorInv
<1>5. CASE Appending
  BY <1>5 DEF Appending, Other, projectorVars, projectorLocals, DoorInv
<1>6. CASE Projecting
  <2>1. pc' = pc /\ at["core"] # "down"
    BY <1>6 DEF Projecting, appenderVars, localVars, Projector!Cycle, Projector!FetchCheckpoint,
       Projector!ScanLedger, Projector!ScanNothingNew, Projector!NothingParses,
       Projector!CycleFails, Projector!WriteRows
  <2>2. at'["core"] \in {"idle", "scan", "write"}
    BY <1>1, <1>6 DEF Projecting, Projector!Cycle, Projector!FetchCheckpoint,
       Projector!ScanLedger, Projector!ScanNothingNew, Projector!NothingParses,
       Projector!CycleFails, Projector!WriteRows, Projector!CycleEnds, Projector!AfterZero
  <2> QED
    BY <2>1, <2>2 DEF DoorInv
<1>7. CASE UNCHANGED pipelineVars
  BY <1>7 DEF pipelineVars, projectorVars, projectorLocals, vars, localVars, DoorInv
<1> QED
  BY <1>2, <1>3, <1>4, <1>5, <1>6, <1>7 DEF PipelineNext

(* A commit is one of the writes that the projector's specification        *)
(* allows.                                                                 *)
LEMMA StoreIsAppending ==
    ASSUME IndInv, DisturbInv, SlotInv, SealInv, DoorInv, Store
    PROVE  Projector!Appending
<1>0. /\ TypeInv /\ TypeOK /\ HandInv /\ StreamInv /\ WriteInv
      /\ Commit /\ pc = "write" /\ SetEnvelope(env, sealed)
      /\ Projector!NoteLate(env.env) /\ UNCHANGED projectorLocals
  BY DEF IndInv, DisturbInv, TypeInv, Store, Commit
<1>1. /\ env \in Body /\ env.env \in Envelopes /\ env.env = Head(batch)
      /\ env.form \in Forms /\ env.prev \in Nat /\ sealed \in BOOLEAN
  BY <1>0, CommitFacts DEF TypeOK, Body
<1>2. env.prev \in Hashes /\ bodies \in Seq(Body)
  BY <1>0 DEF WriteInv, TypeOK, LedgerTypeOK
<1>3. PICK e \in Envelopes, form \in Forms, prev \in Nat, s \in BOOLEAN :
          /\ e = env.env /\ form = env.form /\ prev = env.prev /\ s = sealed
          /\ env = [env |-> e, form |-> form, prev |-> prev]
  BY <1>1 DEF Body
<1>4. prev \in Projector!Hashes \cap ({Len(bodies)} \cup Nat)
  BY <1>2, <1>3 DEF Projector!Hashes, Hashes
<1>5. at["core"] # "down"
  BY <1>0 DEF DoorInv
<1>6. Len(bodies) < Cardinality(Envelopes) * MaxDeliver
  <2>1. Unwritten(env.env)
    BY <1>0, <1>1, HandFacts DEF Unwritten, Busy
  <2> QED
    BY <1>1, <2>1, RoomForOne
<1>7. Projector!SetEnvelope([env |-> e, form |-> form, prev |-> prev], s)
  BY <1>0, <1>3 DEF SetEnvelope, Projector!SetEnvelope
<1>8. Projector!WriteLedger(e, form, prev, s)
  BY <1>0, <1>3, <1>5, <1>6, <1>7 DEF Projector!WriteLedger, projectorLocals, Projector!tables
<1>9. s \/ e \in IF MaxFaults["vault"] = 0 THEN {} ELSE Envelopes
  <2>1. CASE ~ s
    <3>1. /\ faults["vault"] # 0 /\ faults["vault"] <= MaxFaults["vault"]
          /\ faults["vault"] \in Nat
      BY <1>0, <1>3, <2>1 DEF SealInv, TypeOK, FaultKinds
    <3> QED
      BY <3>1
  <2> QED
    BY <2>1
<1> QED
  BY <1>4, <1>8, <1>9 DEF Projector!Appending

(* Each step of the pipeline is one of the projector's, or a stutter.      *)
LEMMA StepIsProjectors ==
    ASSUME IndInv, DisturbInv, SlotInv, SealInv, DoorInv, [PipelineNext]_pipelineVars
    PROVE  [Projector!Next]_(Projector!vars)
<1>1. CASE StartUp
  BY <1>1 DEF StartUp, Projector!Next, Projector!Projecting
<1>2. CASE CrashOfCore
  BY <1>2 DEF CrashOfCore, Projector!Next, Projector!Projecting, Projector!Projectors
<1>3. CASE Store
  BY <1>3, StoreIsAppending DEF Projector!Next
<1>4. CASE Projecting
  BY <1>4 DEF Projecting, Projector!Next, Projector!Projecting, Projector!Projectors
<1>5. CASE Appending \/ UNCHANGED pipelineVars
  <2>1. UNCHANGED ledgerVars /\ UNCHANGED projectorVars
    BY <1>5 DEF Appending, Other, pipelineVars, vars
  <2> QED
    BY <2>1 DEF ledgerVars, projectorVars, projectorLocals, Projector!vars,
       Projector!ledgerVars, Projector!tables, Projector!histories
<1> QED
  BY <1>1, <1>2, <1>3, <1>4, <1>5 DEF PipelineNext

(* The environment is an allowed one initially.                            *)
LEMMA InitProjectors == PipelineInit => SlotInv /\ SealInv /\ DoorInv
<1> SUFFICES ASSUME PipelineInit PROVE SlotInv /\ SealInv /\ DoorInv
  OBVIOUS
<1>1. bodies = <<>> /\ DOMAIN bodies = {} /\ pc = "off"
  BY DEF PipelineInit, Init, LedgerInit
<1>2. SlotInv
  <2>1. PaidBy([i \in DOMAIN bodies |-> 0])
    BY <1>1 DEF PaidBy
  <2> QED
    BY <2>1 DEF SlotInv
<1>3. SealInv
  BY AppenderAssumption DEF PipelineInit, Init, SealInv
<1>4. DoorInv
  BY DEF PipelineInit, Init, Projector!Init, DoorInv, Projector!Projectors
<1> QED
  BY <1>2, <1>3, <1>4

(* The appender and the process the projector runs in are an environment   *)
(* its specification allows: a body for each delivery at most, committed   *)
(* while core is up, with a link to a body that exists, and sealed unless  *)
(* Vault fails.  What is proved of the projector alone holds beside them.  *)
THEOREM AppenderIsItsEnvironment == PipelineSpec => ProjectorSpecMet
<1>1. PipelineInit => Projector!Init
  BY DEF PipelineInit
<1>2. /\ IndInv /\ DisturbInv /\ TablesOK /\ SlotInv /\ SealInv /\ DoorInv
      /\ [PipelineNext]_pipelineVars
      => (SlotInv /\ SealInv /\ DoorInv)' /\ [Projector!Next]_(Projector!vars)
  BY PipelineSteps, NextSlotInv, NextSealInv, NextDoorInv, StepIsProjectors
  DEF IndInv, TypeInv
<1> QED
  BY <1>1, <1>2, InitProjectors, TablesInductive, PTL
  DEF PipelineSpec, ProjectorSpecMet, Projector!Spec

-----------------------------------------------------------------------------
(* No false alarm.                                                         *)

(* Nothing has happened that may raise an alarm.                           *)
Calm ==
    /\ late = {} /\ ForkFaults = 0
    /\ \A e \in Envelopes : deliveries[e] <= 1
    /\ faults["vault"] = 0 /\ projector_faults["vault"] = 0

(* Trouble stays on record: what is calm now was calm before.              *)
LEMMA CalmBefore ==
    ASSUME IndInv, DisturbInv, TablesOK, [PipelineNext]_pipelineVars, Calm'
    PROVE  Calm
<1>0. TypeInv /\ [Next]_vars
  BY PipelineSteps DEF IndInv, TypeInv
<1>1. late \subseteq late'
  BY DEF PipelineNext, StartUp, CrashOfCore, Store, Appending, Other, Projecting,
     pipelineVars, projectorVars, Projector!Start, Projector!StartDeaf, Projector!Crash,
     Projector!NoteLate, Projector!Cycle, Projector!FetchCheckpoint, Projector!ScanLedger,
     Projector!ScanNothingNew, Projector!NothingParses, Projector!CycleFails,
     Projector!WriteRows, Projector!CycleEnds, Projector!histories
<1>2. ForkFaults = 0 /\ faults["vault"] = 0
  <2>1. \A k \in {"crash", "reply", "vault"} :
            faults[k] \in Nat /\ faults'[k] \in Nat /\ faults'[k] >= faults[k]
    BY <1>0, FaultsGrow DEF FaultKinds
  <2>2. /\ faults["crash"] \in Nat /\ faults'["crash"] \in Nat
        /\ faults'["crash"] >= faults["crash"]
        /\ faults["reply"] \in Nat /\ faults'["reply"] \in Nat
        /\ faults'["reply"] >= faults["reply"]
        /\ faults["vault"] \in Nat /\ faults'["vault"] \in Nat
        /\ faults'["vault"] >= faults["vault"]
    BY <2>1
  <2>3. faults'["crash"] + faults'["reply"] = 0 /\ faults'["vault"] = 0
    BY DEF Calm, ForkFaults
  <2> QED
    BY <2>2, <2>3 DEF ForkFaults
<1>3. \A e \in Envelopes : deliveries[e] <= 1
  <2>1. ASSUME NEW e \in Envelopes PROVE deliveries[e] <= 1
    <3>1. /\ deliveries[e] \in Nat /\ deliveries'[e] \in Nat
          /\ deliveries'[e] >= deliveries[e]
      BY <1>0, VersionsKept
    <3>2. deliveries'[e] <= 1
      BY DEF Calm
    <3> QED
      BY <3>1, <3>2
  <2> QED
    BY <2>1
<1>4. projector_faults["vault"] = 0
  <2>0. /\ projector_faults \in [Projector!FaultKinds -> Nat]
        /\ {"boot", "crash", "error", "vault"} = Projector!FaultKinds
    BY DEF TablesOK, Projector!FaultKinds
  <2>1. UNCHANGED projector_faults \/ \E k \in Projector!FaultKinds : Projector!Fault(k)
    BY <2>0 DEF PipelineNext, StartUp, CrashOfCore, Store, Appending, Other, Projecting,
       pipelineVars, projectorVars, projectorLocals, Projector!Start, Projector!StartDeaf,
       Projector!Crash, Projector!Cycle, Projector!FetchCheckpoint, Projector!ScanLedger,
       Projector!ScanNothingNew, Projector!NothingParses, Projector!CycleFails,
       Projector!WriteRows
  <2>2. projector_faults["vault"] \in Nat
    BY <2>0
  <2>3. ASSUME NEW k \in Projector!FaultKinds, Projector!Fault(k)
        PROVE  \/ projector_faults'["vault"] = projector_faults["vault"]
               \/ projector_faults'["vault"] = projector_faults["vault"] + 1
    BY <2>0, <2>3 DEF Projector!Fault
  <2>4. projector_faults'["vault"] = 0
    BY DEF Calm
  <2> QED
    BY <2>1, <2>2, <2>3, <2>4
<1> QED
  BY <1>1, <1>2, <1>3, <1>4 DEF Calm

(* Then the bodies are one chain, and each is the current version of its   *)
(* entry.                                                                  *)
LEMMA CalmFacts ==
    ASSUME IndInv, DisturbInv, CurrentInv, Calm
    PROVE  /\ DOMAIN bodies = 1 .. Len(bodies) /\ Len(bodies) \in Nat
           /\ \A i \in DOMAIN bodies :
                 /\ bodies[i].env \in Envelopes /\ bodies[i].env \in Stored
                 /\ bodies[i].prev = i - 1 /\ ledger[bodies[i].env].id = i
           /\ \A e \in Envelopes : Pairs(e).id # 0 => Pairs(e) = ledger[e] /\ e \in Stored
<1>0. /\ LedgerTypeOK /\ DOMAIN bodies = 1 .. Len(bodies) /\ Len(bodies) \in Nat
      /\ \A i \in DOMAIN bodies : bodies[i].env \in Envelopes
      /\ \A e \in Envelopes : ~ (deliveries[e] > 1)
  <2>1. LedgerTypeOK /\ bodies \in Seq(Body)
    BY DEF IndInv, TypeOK, LedgerTypeOK
  <2>2. \A e \in Envelopes : deliveries[e] \in Nat
    BY StreamAssumption DEF IndInv, TypeOK, StreamTypeOK
  <2>3. \A e \in Envelopes : deliveries[e] <= 1
    BY DEF Calm
  <2>4. ASSUME NEW e \in Envelopes PROVE ~ (deliveries[e] > 1)
    <3>1. deliveries[e] \in Nat /\ deliveries[e] <= 1
      BY <2>2, <2>3
    <3> QED
      BY <3>1
  <2>5. DOMAIN bodies = 1 .. Len(bodies) /\ Len(bodies) \in Nat
    BY <2>1
  <2>6. \A i \in DOMAIN bodies : bodies[i] \in Body
    BY <2>1
  <2> QED
    BY <2>1, <2>4, <2>5, <2>6 DEF Body
<1>1. Forks = {}
  <2>1. IsFiniteSet(Forks) /\ Cardinality(Forks) \in Nat /\ Cardinality(Forks) <= 0
    BY <1>0, ForksFinite DEF IndInv, ForkInv, EachForkCostsAFault, Calm
  <2> QED
    BY <2>1, FS_EmptySet
<1> QED
  BY <1>0, <1>1 DEF Forks, DisturbInv, BodyInv, CurrentInv, Stored

(* The entry under a key is of a body of that envelope.                    *)
NamesInv == \A e \in Envelopes : Names(ledger[e].id, e)

(* A step stores an envelope under the envelope's own key.                 *)
LEMMA NextNamesInv ==
    ASSUME TypeOK, NamesInv, [Next]_vars
    PROVE  NamesInv'
<1>1. CASE ~ Commit
  BY <1>1, LedgerStable DEF NamesInv, Names
<1>2. CASE Commit
  <2>1. LedgerTypeOK /\ env \in Body /\ sealed \in BOOLEAN /\ SetEnvelope(env, sealed)
    BY <1>2, CommitFacts DEF TypeOK, Commit
  <2> QED
    BY <2>1, SetEnvelopeKeepsNames DEF NamesInv
<1> QED
  BY <1>1, <1>2

(* While all is calm the chain follows the ULIDs, what is stored is        *)
(* sealed, a batch has no gap, and no row is flagged.                      *)
ChainAscends ==
    \A i, j \in DOMAIN bodies : i < j => Ulid[bodies[i].env] < Ulid[bodies[j].env]
StoredIsSealed == \A e \in Stored : ledger[e].sealed
BatchHasNoGap ==
    \A e, f \in Envelopes, g \in Stored :
        /\ Pairs(e).id # 0 /\ Pairs(f).id # 0
        /\ Ulid[f] <= Ulid[g] /\ Ulid[g] <= Ulid[e]
        => Pairs(g).id # 0
NoRowFlagged == \A e \in Rows : ~ Projector!HasIssues(audit_entries[e])
CalmInv == Calm => ChainAscends /\ StoredIsSealed /\ BatchHasNoGap /\ NoRowFlagged

(* The commit of a new envelope while all stays calm.                      *)
LEMMA CalmStore ==
    ASSUME IndInv, DisturbInv, SealInv, Calm, Calm', Store
    PROVE  \E h \in Envelopes :
              /\ h \notin Stored /\ Stored' = Stored \cup {h}
              /\ \A f \in Stored : f \in Envelopes /\ Ulid[f] < Ulid[h]
              /\ Len(bodies) \in Nat /\ DOMAIN bodies' = 1 .. Len(bodies) + 1
              /\ DOMAIN bodies = 1 .. Len(bodies)
              /\ \A i \in DOMAIN bodies : bodies'[i] = bodies[i]
              /\ bodies'[Len(bodies) + 1].env = h
              /\ \A e \in Envelopes \ {h} : ledger'[e] = ledger[e]
              /\ ledger'[h].sealed
<1>0. /\ TypeInv /\ TypeOK /\ HandInv /\ StreamInv /\ WriteInv /\ LedgerTypeOK
      /\ Commit /\ pc = "write" /\ SetEnvelope(env, sealed) /\ sealed \in BOOLEAN
      /\ Projector!NoteLate(env.env)
  BY DEF IndInv, DisturbInv, TypeInv, TypeOK, Store, Commit
<1>1. PICK h \in Envelopes : h = Head(batch) /\ h = env.env
  BY <1>0, CommitFacts
<1>2. /\ Stored' = Stored \cup {h} /\ Len(bodies) \in Nat
      /\ DOMAIN bodies = 1 .. Len(bodies) /\ DOMAIN bodies' = 1 .. Len(bodies')
      /\ \/ /\ bodies' = bodies
            /\ ledger'[h].id \in DOMAIN bodies
         \/ /\ Len(bodies') = Len(bodies) + 1
            /\ bodies'[Len(bodies) + 1] = env
            /\ \A i \in DOMAIN bodies : bodies'[i] = bodies[i]
      /\ bodies'[ledger'[h].id] = env
  BY <1>0, <1>1, CommitFacts
<1>3. h \notin Stored
  <2>1. Unwritten(h) /\ deliveries[h] # 0 /\ deliveries[h] \in Nat
    BY <1>0, <1>1, HandFacts DEF Unwritten, Busy
  <2>2. deliveries[h] <= 1
    BY DEF Calm
  <2>3. deliveries[h] = 1
    BY <2>1, <2>2
  <2> QED
    BY <2>1, <2>3 DEF DisturbInv, FreshInv
<1>4. bodies' # bodies
  <2>1. SUFFICES ASSUME bodies' = bodies PROVE FALSE
    OBVIOUS
  <2>2. PICK i \in DOMAIN bodies : i = ledger'[h].id /\ bodies[i].env = h
    <3>1. Len(bodies') # Len(bodies) + 1
      <4>1. Len(bodies') = Len(bodies) /\ Len(bodies) \in Nat
        BY <1>2, <2>1
      <4> QED
        BY <4>1
    <3>2. ledger'[h].id \in DOMAIN bodies
      BY <1>2, <3>1
    <3>3. bodies[ledger'[h].id] = env
      BY <1>2, <2>1
    <3> QED
      BY <1>1, <3>2, <3>3
  <2> QED
    BY <1>3, <2>2 DEF DisturbInv, BodyInv
<1>5. \A f \in Stored : f \in Envelopes /\ Ulid[f] < Ulid[h]
  <2>1. h \notin late'
    BY DEF Calm
  <2>2. \A f \in Stored : f \in Envelopes /\ ~ (Ulid[f] > Ulid[h])
    BY <1>0, <1>1, <1>3, <2>1 DEF Projector!NoteLate, Projector!Stored, Stored
  <2>3. ASSUME NEW f \in Stored PROVE Ulid[f] < Ulid[h]
    <3>1. Ulid[f] \in Nat /\ Ulid[h] \in Nat /\ Ulid[f] # Ulid[h] /\ ~ (Ulid[f] > Ulid[h])
      BY <1>3, <2>2, <2>3, LedgerAssumption
    <3> QED
      BY <3>1
  <2> QED
    BY <2>2, <2>3
<1>6. \A e \in Envelopes \ {h} : ledger'[e] = ledger[e]
  BY <1>0, <1>1, CommitFacts, SetEnvelopeFacts
<1>7. ledger'[h].sealed
  <2>1. sealed = TRUE
    BY <1>0 DEF SealInv, Calm
  <2>2. ledger \in [Envelopes -> Version]
    BY <1>0 DEF LedgerTypeOK
  <2>3. \E n : ledger' = [ledger EXCEPT ![h] = [id |-> n, sealed |-> TRUE]]
    BY <1>0, <1>1, <2>1 DEF SetEnvelope
  <2>4. PICK n : ledger' = [ledger EXCEPT ![h] = [id |-> n, sealed |-> TRUE]]
    BY <2>3
  <2>5. ledger'[h] = [id |-> n, sealed |-> TRUE]
    BY <2>2, <2>4
  <2> QED
    BY <2>5
<1> QED
  BY <1>1, <1>2, <1>3, <1>4, <1>5, <1>6, <1>7

(* The row before a row of a batch is of the body its link names.          *)
LEMMA LinkIsGood ==
    ASSUME IndInv, DisturbInv, CurrentInv, NamesInv, Calm, ChainAscends, BatchHasNoGap,
           NEW e \in Envelopes, Pairs(e).id # 0
    PROVE  Projector!ChainOk("core", e)
<1>0. /\ DOMAIN bodies = 1 .. Len(bodies) /\ Len(bodies) \in Nat
      /\ \A i \in DOMAIN bodies :
            /\ bodies[i].env \in Envelopes /\ bodies[i].env \in Stored
            /\ bodies[i].prev = i - 1 /\ ledger[bodies[i].env].id = i
      /\ \A d \in Envelopes : Pairs(d).id # 0 => Pairs(d) = ledger[d] /\ d \in Stored
  BY CalmFacts
<1>1. \A d \in Envelopes : Ulid[d] \in Nat
  BY LedgerAssumption
<1>2. SUFFICES ASSUME NEW f \in Envelopes, Pairs(f).id # 0, Ulid[f] < Ulid[e],
                      \A g \in Envelopes :
                          Pairs(g).id # 0 /\ Ulid[g] < Ulid[e] => Ulid[g] <= Ulid[f]
               PROVE  bodies[Pairs(e).id].prev = Pairs(f).id
  BY DEF Projector!ChainOk, Projector!LastOf, Projector!Before, Projector!Rows,
     Projector!Batch, Projector!PrevHash, Pairs
<1>3. PICK i \in DOMAIN bodies, j \in DOMAIN bodies :
          /\ i = Pairs(e).id /\ j = Pairs(f).id
          /\ bodies[i].env = e /\ bodies[j].env = f
  BY <1>0, <1>2 DEF NamesInv, Names
<1>4. j < i
  <2>1. i = j \/ i < j \/ j < i
    BY <1>0
  <2>2. i # j
    BY <1>1, <1>2, <1>3
  <2>3. ~ (i < j)
    BY <1>1, <1>2, <1>3 DEF ChainAscends
  <2> QED
    BY <2>1, <2>2, <2>3
<1>5. CASE j = i - 1
  BY <1>0, <1>3, <1>5
<1>6. CASE j < i - 1
  <2>1. PICK k \in DOMAIN bodies : j < k /\ k < i
    BY <1>0, <1>3, <1>4, <1>6
  <2>2. PICK g \in Envelopes : g = bodies[k].env /\ g \in Stored
    BY <1>0
  <2>3. Ulid[f] < Ulid[g] /\ Ulid[g] < Ulid[e]
    BY <1>3, <2>1, <2>2 DEF ChainAscends
  <2>4. Ulid[f] <= Ulid[g] /\ Ulid[g] <= Ulid[e]
    BY <1>1, <2>3
  <2>5. Pairs(g).id # 0
    BY <1>2, <2>2, <2>4 DEF BatchHasNoGap
  <2> QED
    BY <1>1, <1>2, <2>3, <2>5
<1> QED
  BY <1>0, <1>4, <1>5, <1>6

(* A step that neither commits nor writes rows keeps the calm; a commit    *)
(* adds the greatest key.                                                  *)
LEMMA NextCalmInv ==
    ASSUME IndInv, DisturbInv, SealInv, TablesOK, CurrentInv, NamesInv, CalmInv,
           [PipelineNext]_pipelineVars
    PROVE  CalmInv'
<1> SUFFICES ASSUME Calm'
             PROVE  ChainAscends' /\ StoredIsSealed' /\ BatchHasNoGap' /\ NoRowFlagged'
  BY DEF CalmInv
<1>0. /\ Calm /\ LedgerTypeOK /\ ChainAscends /\ StoredIsSealed /\ BatchHasNoGap
      /\ NoRowFlagged /\ NoVersion.id = 0
      /\ \A e \in Envelopes : Ulid[e] \in Nat
  BY CalmBefore, LedgerAssumption DEF CalmInv, IndInv, TypeOK, NoVersion
<1>00. \A e \in Envelopes : Pairs(e).id # 0 => Pairs(e) = ledger[e] /\ e \in Stored
  BY <1>0, CalmFacts
<1>1. CASE UNCHANGED ledgerVars
  <2>1. ChainAscends' /\ StoredIsSealed' /\ Stored' = Stored /\ ledger' = ledger
    BY <1>0, <1>1 DEF ChainAscends, StoredIsSealed, Stored, ledgerVars
  <2>2. BatchHasNoGap'
    <3>1. CASE NoRows \/ \E doubted \in SUBSET Envelopes : Writes(doubted)
      <4>1. CASE UNCHANGED raw_pairs
        BY <1>0, <2>1, <4>1 DEF BatchHasNoGap, Pairs
      <4>2. CASE \A e \in Envelopes : Pairs(e)' = NoVersion
        BY <1>0, <4>2 DEF BatchHasNoGap
      <4> QED
        BY <3>1, <4>1, <4>2 DEF NoRows, Writes
    <3>2. CASE Reads
      <4>1. /\ \A f \in Scan, e \in Stored : Ulid[e] <= Ulid[f] => e \in Scan
            /\ Scan \subseteq Stored /\ Stored \subseteq Envelopes
        <5>1. IsFiniteSet(Stored)
          BY PipelineAssumption, FS_Subset DEF Stored
        <5> QED
          BY <5>1, ScanFacts DEF Stored
      <4>2. \A e \in Envelopes :
                Pairs(e)'.id # 0 <=> e \in Scan /\ Ulid[e] > checkpoint["core"]
        <5>1. \A e \in Envelopes :
                  e \in Projector!NewPairs("core") <=> e \in Scan /\ Ulid[e] > checkpoint["core"]
          <6>1. Projector!Scan = Scan
            BY Zenon DEF Projector!Scan, Projector!Stored, Scan, Stored, Projector!Cardinality,
               Cardinality, Projector!IsFiniteSet, IsFiniteSet
          <6> QED
            BY <4>1, <6>1 DEF Projector!NewPairs
        <5> QED
          BY <1>0, <3>2, <4>1, <5>1 DEF Reads, Stored
      <4> SUFFICES ASSUME NEW e \in Envelopes, NEW f \in Envelopes, NEW g \in Stored',
                          Pairs(e)'.id # 0, Pairs(f)'.id # 0,
                          Ulid[f] <= Ulid[g], Ulid[g] <= Ulid[e]
                   PROVE  Pairs(g)'.id # 0
        BY DEF BatchHasNoGap
      <4>3. g \in Stored /\ g \in Envelopes /\ g \in Scan
        BY <2>1, <4>1, <4>2
      <4>4. Ulid[g] > checkpoint["core"]
        <5>1. Ulid[f] > checkpoint["core"]
          BY <4>2
        <5>2. checkpoint["core"] \in Nat
          BY DEF TablesOK, Projector!Projectors
        <5> QED
          BY <1>0, <4>3, <5>1, <5>2
      <4> QED
        BY <4>2, <4>3, <4>4
    <3> QED
      BY <1>0, <3>1, <3>2, PipelineKinds
  <2>3. NoRowFlagged'
    <3>1. CASE NoRows \/ Reads
      BY <1>0, <3>1 DEF NoRows, Reads, NoRowFlagged, Rows, Projector!Projected
    <3>2. ASSUME NEW doubted \in SUBSET Envelopes, Writes(doubted) PROVE NoRowFlagged'
      <4>1. doubted = {}
        <5>1. Projector!Fault("vault") => projector_faults'["vault"] # 0
          <6>1. /\ projector_faults \in [Projector!FaultKinds -> Nat]
                /\ "vault" \in Projector!FaultKinds
            BY DEF TablesOK, Projector!FaultKinds
          <6> QED
            BY <6>1 DEF Projector!Fault
        <5> QED
          BY <3>2, <5>1 DEF Writes, Projector!WriteRows, Calm
      <4> SUFFICES ASSUME NEW e \in Envelopes, audit_entries'[e].id # 0
                   PROVE  ~ Projector!HasIssues(audit_entries'[e])
        BY DEF NoRowFlagged, Rows, Projector!Projected
      <4>2. CASE e \in Projector!Rows("core") \ Rows
        <5>1. Pairs(e).id # 0
          BY <4>2 DEF Projector!Rows, Projector!Batch, Pairs
        <5>2. Projector!ChainOk("core", e)
          BY <1>0, <5>1, LinkIsGood
        <5>3. Pairs(e).sealed
          BY <1>0, <1>00, <5>1 DEF StoredIsSealed
        <5>4. audit_entries'[e] = Projector!RowOf("core", e, {})
          BY <3>2, <4>1, <4>2 DEF Writes
        <5>5. /\ audit_entries'[e].chain_valid = Projector!ChainOk("core", e)
              /\ audit_entries'[e].sigs_valid = (Pairs(e).sealed /\ e \notin {})
          BY <5>4 DEF Projector!RowOf, Pairs
        <5>6. audit_entries'[e].chain_valid /\ audit_entries'[e].sigs_valid
          BY <5>2, <5>3, <5>5
        <5> QED
          BY <5>6 DEF Projector!HasIssues
      <4>3. CASE e \notin Projector!Rows("core") \ Rows
        <5>1. audit_entries'[e] = audit_entries[e]
          BY <3>2, <4>3 DEF Writes
        <5>2. e \in Rows
          BY <5>1 DEF Rows, Projector!Projected
        <5> QED
          BY <1>0, <5>1, <5>2 DEF NoRowFlagged
      <4> QED
        BY <4>2, <4>3
    <3> QED
      BY <1>0, <3>1, <3>2, PipelineKinds
  <2> QED
    BY <2>1, <2>2, <2>3
<1>2. CASE Store
  <2>1. PICK h \in Envelopes :
            /\ h \notin Stored /\ Stored' = Stored \cup {h}
            /\ \A f \in Stored : f \in Envelopes /\ Ulid[f] < Ulid[h]
            /\ Len(bodies) \in Nat /\ DOMAIN bodies' = 1 .. Len(bodies) + 1
            /\ DOMAIN bodies = 1 .. Len(bodies)
            /\ \A i \in DOMAIN bodies : bodies'[i] = bodies[i]
            /\ bodies'[Len(bodies) + 1].env = h
            /\ \A e \in Envelopes \ {h} : ledger'[e] = ledger[e]
            /\ ledger'[h].sealed
    BY <1>0, <1>2, CalmStore
  <2>2. UNCHANGED <<raw_pairs, audit_entries>>
    BY <1>2 DEF Store, projectorLocals
  <2>3. ChainAscends'
    <3> SUFFICES ASSUME NEW i \in DOMAIN bodies', NEW j \in DOMAIN bodies', i < j
                 PROVE  Ulid[bodies'[i].env] < Ulid[bodies'[j].env]
      BY DEF ChainAscends
    <3>1. i \in DOMAIN bodies /\ bodies'[i] = bodies[i]
      BY <2>1
    <3>2. CASE j \in DOMAIN bodies
      BY <1>0, <2>1, <3>1, <3>2 DEF ChainAscends
    <3>3. CASE j \notin DOMAIN bodies
      <4>1. j = Len(bodies) + 1
        BY <2>1, <3>3
      <4>2. bodies[i].env \in Stored
        BY <1>0, <3>1, CalmFacts
      <4> QED
        BY <2>1, <3>1, <4>1, <4>2
    <3> QED
      BY <3>2, <3>3
  <2>4. StoredIsSealed'
    BY <1>0, <2>1 DEF StoredIsSealed
  <2>5. BatchHasNoGap'
    <3> SUFFICES ASSUME NEW e \in Envelopes, NEW f \in Envelopes, NEW g \in Stored',
                        Pairs(e).id # 0, Pairs(f).id # 0,
                        Ulid[f] <= Ulid[g], Ulid[g] <= Ulid[e]
                 PROVE  Pairs(g).id # 0
      BY <2>2 DEF BatchHasNoGap, Pairs
    <3>1. e \in Stored /\ Ulid[e] < Ulid[h]
      BY <1>00, <2>1
    <3>2. g # h
      BY <1>0, <3>1
    <3> QED
      BY <1>0, <2>1, <3>2 DEF BatchHasNoGap
  <2>6. NoRowFlagged'
    BY <1>0, <2>2 DEF NoRowFlagged, Rows, Projector!Projected
  <2> QED
    BY <2>3, <2>4, <2>5, <2>6
<1>3. UNCHANGED ledgerVars \/ Store
  BY DEF PipelineNext, StartUp, CrashOfCore, Appending, Projecting, pipelineVars, vars,
     BootWithoutImmudb, BootWithoutJetStream, Boot, BootImpaired, Subscribed, Crash,
     Projector!Cycle, Projector!FetchCheckpoint, Projector!ScanLedger,
     Projector!ScanNothingNew, Projector!NothingParses, Projector!CycleFails,
     Projector!WriteRows, Projector!CycleEnds, Projector!ledgerVars, ledgerVars
<1> QED
  BY <1>1, <1>2, <1>3

(* A row is flagged only after a crash, a lost reply, a redelivery, a      *)
(* fault of Vault, or an entry stored out of the order of its ULID: the    *)
(* projector's link test over one scan raises no alarm by itself.          *)
THEOREM OnlyTroubleIsFlagged == PipelineSpec => []NoFalseAlarm
<1>1. PipelineInit => NamesInv /\ CalmInv
  <2> SUFFICES ASSUME PipelineInit PROVE NamesInv /\ CalmInv
    OBVIOUS
  <2>1. /\ DOMAIN bodies = {} /\ \A e \in Envelopes : ledger[e].id = 0
    BY DEF PipelineInit, Init, LedgerInit, NoVersion
  <2>2. \A e \in Envelopes : audit_entries[e].id = 0 /\ Pairs(e).id = 0
    BY DEF PipelineInit, Projector!Init, Projector!NoRow, Projector!NoPairs,
       Projector!NoVersion, Pairs, Projector!Projectors
  <2> QED
    BY <2>1, <2>2 DEF NamesInv, Names, CalmInv, ChainAscends, StoredIsSealed, Stored,
       BatchHasNoGap, NoRowFlagged, Rows, Projector!Projected
<1>2. /\ IndInv /\ DisturbInv /\ TablesOK /\ CurrentInv /\ SealInv /\ NamesInv /\ CalmInv
      /\ [PipelineNext]_pipelineVars
      => (SealInv /\ NamesInv /\ CalmInv)'
  BY PipelineSteps, NextSealInv, NextNamesInv, NextCalmInv DEF IndInv, TypeInv
<1>3. IndInv /\ TablesOK /\ CalmInv => NoFalseAlarm
  <2> SUFFICES ASSUME IndInv, TablesOK, CalmInv, NEW e \in Rows,
                      Projector!HasIssues(audit_entries[e]),
                      late = {}, ~ (ForkFaults > 0),
                      \A f \in Envelopes : ~ (deliveries[f] > 1),
                      ~ (faults["vault"] + projector_faults["vault"] > 0)
               PROVE  FALSE
    BY DEF NoFalseAlarm
  <2>1. /\ ForkFaults \in Nat /\ faults["vault"] \in Nat /\ projector_faults["vault"] \in Nat
    BY FaultSums DEF IndInv, TypeOK, FaultKinds, TablesOK, Projector!FaultKinds
  <2>2. \A f \in Envelopes : deliveries[f] <= 1
    <3>1. ASSUME NEW f \in Envelopes PROVE deliveries[f] <= 1
      <4>1. deliveries[f] \in Nat /\ ~ (deliveries[f] > 1)
        BY StreamAssumption DEF IndInv, TypeOK, StreamTypeOK
      <4> QED
        BY <4>1
    <3> QED
      BY <3>1
  <2>3. ForkFaults = 0 /\ faults["vault"] = 0 /\ projector_faults["vault"] = 0
    BY <2>1
  <2>4. Calm
    BY <2>2, <2>3 DEF Calm
  <2> QED
    BY <2>4 DEF CalmInv, NoRowFlagged
<1> QED
  BY <1>1, <1>2, <1>3, InitProjectors, TablesInductive, PTL DEF PipelineSpec
=============================================================================
