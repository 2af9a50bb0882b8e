--------------------------- MODULE AuditAppender ---------------------------
(***************************************************************************)
(* The audit appender (core/app/audit/appender.py): one coroutine of       *)
(* openclaw-core that pulls envelopes from JetStream, checks the service's *)
(* signature, redacts, links, signs and writes them to immudb, and         *)
(* acknowledges.  An action ends where the code awaits something that can  *)
(* fail or where the process can die.                                      *)
(***************************************************************************)
EXTENDS AuditLedger, JetStream

CONSTANTS
    Garbled,    \* envelopes whose message does not parse
    Unsigned,   \* envelopes whose sig_service is empty or wrong
    MaxBatch,   \* psub.fetch(batch=...): 10 in the code
    MaxFaults   \* bound: how many faults of each kind the environment makes

(***************************************************************************)
(* boot: immudb, JetStream or a subscription is unavailable at startup.    *)
(* crash: the process dies, or stop() cancels the task.  reply: immudb     *)
(* commits but set_envelope() raises.  write: it raises without a commit.  *)
(* ack: an ack is lost, or ack_wait runs out under a message in hand.      *)
(* vault: a signature cannot be checked or made.                           *)
(***************************************************************************)
FaultKinds == {"boot", "crash", "reply", "write", "ack", "vault"}

ASSUME AppenderAssumption ==
    /\ Garbled \subseteq Envelopes
    /\ Unsigned \subseteq Envelopes
    /\ MaxBatch \in Nat \ {0}
    /\ MaxFaults \in [FaultKinds -> Nat]

VARIABLES
    pc,         \* where the coroutine stands
    chain_head, \* AuditAppender._chain_head; 0 is None
    psubs,      \* subjects with a pull subscription
    turn,       \* the subject being fetched or processed
    batch,      \* messages fetched and not finished, the head in process
    env,        \* the envelope under construction
    sealed,     \* whether it carries the appender's signature
    refused,    \* history: envelopes acknowledged without being written
    faults      \* history: faults so far, by kind

(* No envelope under construction.                                         *)
NoBody == <<>>

localVars == <<pc, chain_head, psubs, turn, batch, env, sealed>>
vars == <<ledgerVars, streamVars, localVars, refused, faults>>

(***************************************************************************)
(* off: no process.  no_js: _run() waits for JetStream.  ended: the        *)
(* process lives, the coroutine does not.  reply: immudb has committed,    *)
(* the appender does not know yet.                                         *)
(***************************************************************************)
Places == {"off", "no_js", "ended", "fetch", "screen", "prepare", "write",
           "reply"}
Busy == {"screen", "prepare", "write", "reply"}

TypeOK ==
    /\ LedgerTypeOK
    /\ StreamTypeOK
    /\ pc \in Places
    /\ chain_head \in Hashes
    /\ psubs \subseteq DOMAIN SUBJECTS
    /\ turn \in DOMAIN SUBJECTS
    /\ batch \in Seq(Envelopes)
    /\ Len(batch) <= MaxBatch
    /\ pc \in Busy => batch # <<>>
    /\ pc \notin Busy \cup {"fetch"} => batch = <<>>
    /\ env \in Body \cup {NoBody}
    /\ pc \in {"write", "reply"} => env \in Body /\ env.env = Head(batch)
    /\ sealed \in BOOLEAN
    /\ refused \subseteq Envelopes
    /\ faults \in [FaultKinds -> Nat]

Init ==
    /\ LedgerInit
    /\ StreamInit
    /\ pc = "off"
    /\ chain_head = 0
    /\ psubs = {}
    /\ turn = 1
    /\ batch = <<>>
    /\ env = NoBody
    /\ sealed = FALSE
    /\ refused = {}
    /\ faults = [k \in FaultKinds |-> 0]

Fault(k) ==
    /\ faults[k] < MaxFaults[k]
    /\ faults' = [faults EXCEPT ![k] = @ + 1]

NextTurn == (turn % Len(SUBJECTS)) + 1

-----------------------------------------------------------------------------
(* The services, through bus.publish().                                    *)
Publish(e) ==
    /\ StreamPublish(e)
    /\ UNCHANGED <<ledgerVars, localVars, refused, faults>>

-----------------------------------------------------------------------------
(* Startup: main.py's lifespan, AuditAppender.start(), head of _run().     *)

(* writer.connect() raises: the appender is not started at all.            *)
BootWithoutImmudb ==
    /\ pc = "off"
    /\ Fault("boot")
    /\ pc' = "ended"
    /\ UNCHANGED <<ledgerVars, streamVars, chain_head, psubs, turn, batch, env,
                   sealed, refused>>

(* _seed_chain_head() when the scan answers.                               *)
SeedChainHead ==
    \/ LatestScanned = {} /\ chain_head' = 0
    \/ \E e \in LatestScanned : chain_head' = ledger[e].id

(* bus.connect() had failed: the loop at the head of _run().               *)
BootWithoutJetStream ==
    /\ pc = "off"
    /\ Fault("boot")
    /\ SeedChainHead
    /\ pc' = "no_js"
    /\ UNCHANGED <<ledgerVars, streamVars, psubs, turn, batch, env, sealed,
                   refused>>

(* wait_for() raises TimeoutError after 5 s and nothing catches it.        *)
JetStreamWaitTimesOut ==
    /\ pc = "no_js"
    /\ pc' = "ended"
    /\ UNCHANGED <<ledgerVars, streamVars, chain_head, psubs, turn, batch, env,
                   sealed, refused, faults>>

Subscribed(S) ==
    /\ psubs' = S
    /\ pc' = IF S = {} THEN "ended" ELSE "fetch"
    /\ turn' = 1
    /\ UNCHANGED <<ledgerVars, streamVars, batch, env, sealed, refused>>

Boot ==
    /\ pc = "off"
    /\ SeedChainHead
    /\ Subscribed(DOMAIN SUBJECTS)
    /\ UNCHANGED faults

(* The seed scan raises, or some pull_subscribe() calls fail.              *)
BootImpaired(S) ==
    /\ pc = "off"
    /\ Fault("boot")
    /\ \/ chain_head' = 0 /\ S = DOMAIN SUBJECTS
       \/ SeedChainHead /\ S # DOMAIN SUBJECTS
    /\ Subscribed(S)

-----------------------------------------------------------------------------
(* The main loop of _run(): psub.fetch() of each subscription in turn.     *)

(* Mutant of Deliver: a fetch that runs while the batch is processed.      *)
DeliverPrefetches(e) ==
    /\ pc \notin {"off", "no_js", "ended"}
    /\ turn \in psubs
    /\ Len(batch) < MaxBatch
    /\ e \in Deliverable(turn)
    /\ StreamDeliver(e)
    /\ batch' = Append(batch, e)
    /\ UNCHANGED <<ledgerVars, pc, chain_head, psubs, turn, env, sealed,
                   refused, faults>>

Deliver(e) ==
    /\ pc = "fetch"
    /\ turn \in psubs
    /\ Len(batch) < MaxBatch
    /\ e \in Deliverable(turn)
    /\ StreamDeliver(e)
    /\ batch' = Append(batch, e)
    /\ UNCHANGED <<ledgerVars, pc, chain_head, psubs, turn, env, sealed,
                   refused, faults>>

FetchReturns ==
    /\ pc = "fetch"
    /\ batch # <<>>
    /\ pc' = "screen"
    /\ UNCHANGED <<ledgerVars, streamVars, chain_head, psubs, turn, batch, env,
                   sealed, refused, faults>>

(* Mutant of FetchTimesOut: an empty fetch is tried again.                 *)
FetchRetries ==
    /\ pc = "fetch"
    /\ batch = <<>>
    /\ turn \in psubs => Deliverable(turn) = {}
    /\ UNCHANGED vars

FetchTimesOut ==
    /\ pc = "fetch"
    /\ batch = <<>>
    /\ turn \in psubs => Deliverable(turn) = {}
    /\ turn' = NextTurn
    /\ UNCHANGED <<ledgerVars, streamVars, pc, chain_head, psubs, batch, env,
                   sealed, refused, faults>>

-----------------------------------------------------------------------------
(* _process() of the message at the head of the batch.                     *)

(* _process() returns: the next message, or the next subscription.         *)
Done ==
    /\ batch' = Tail(batch)
    /\ IF Len(batch) = 1
       THEN pc' = "fetch" /\ turn' = NextTurn
       ELSE pc' = "screen" /\ turn' = turn
    /\ env' = NoBody
    /\ sealed' = FALSE
    /\ UNCHANGED psubs

SettledAs(e, state) ==
    /\ delivery' = [delivery EXCEPT ![e] = state]
    /\ UNCHANGED <<stream, deliveries>>

(* msg.ack() is fire and forget: the server may never see it.              *)
SendAck ==
    \/ /\ SettledAs(Head(batch), AfterAck(Head(batch)))
       /\ UNCHANGED faults
    \/ /\ Fault("ack")
       /\ UNCHANGED streamVars

(* msg.nak(delay=5).                                                       *)
SendNak == SettledAs(Head(batch), AfterRelease(Head(batch)))

Bad(e) == e \in Garbled \cup Unsigned

(* Unparseable, or verify_envelope(slot="service") is False: ack and drop. *)
Refuse ==
    /\ pc = "screen"
    /\ Bad(Head(batch))
    /\ SendAck
    /\ refused' = refused \cup {Head(batch)}
    /\ Done
    /\ UNCHANGED <<ledgerVars, chain_head>>

(* Vault cannot be asked: verify_envelope() is False for a good envelope.  *)
(* Its ack arrives: were it lost too, the redelivery would be refused      *)
(* again, or accepted as any other.                                        *)
RefuseUnverifiable ==
    /\ pc = "screen"
    /\ ~ Bad(Head(batch))
    /\ Fault("vault")
    /\ SettledAs(Head(batch), AfterAck(Head(batch)))
    /\ refused' = refused \cup {Head(batch)}
    /\ Done
    /\ UNCHANGED <<ledgerVars, chain_head>>

(* Mutant of Accept: the result of verify_envelope() is ignored.           *)
AcceptUnverified ==
    /\ pc = "screen"
    /\ pc' = "prepare"
    /\ UNCHANGED <<ledgerVars, streamVars, chain_head, psubs, turn, batch, env,
                   sealed, refused, faults>>

Accept ==
    /\ pc = "screen"
    /\ ~ Bad(Head(batch))
    /\ pc' = "prepare"
    /\ UNCHANGED <<ledgerVars, streamVars, chain_head, psubs, turn, batch, env,
                   sealed, refused, faults>>

(* Mutant of Link: the head moves before the write is known to succeed.    *)
LinkMovesHead(form, signed) ==
    /\ pc = "prepare"
    /\ env' = [env |-> Head(batch), form |-> form, prev |-> chain_head]
    /\ sealed' = signed
    /\ chain_head' = Len(bodies) + 1
    /\ pc' = "write"
    /\ UNCHANGED <<ledgerVars, streamVars, psubs, turn, batch, refused>>

(* redact(), then prev_hash, then sign_envelope(slot="appender").  No      *)
(* producer sets prev_hash itself, which the appender would leave as it is.*)
Link(form, signed) ==
    /\ pc = "prepare"
    /\ env' = [env |-> Head(batch), form |-> form, prev |-> chain_head]
    /\ sealed' = signed
    /\ pc' = "write"
    /\ UNCHANGED <<ledgerVars, streamVars, chain_head, psubs, turn, batch,
                   refused>>

(* Mutant of Prepare: sign_envelope(slot="appender") is forgotten.         *)
PrepareUnsealed(form) == Link(form, FALSE) /\ UNCHANGED faults

Prepare(form) == Link(form, TRUE) /\ UNCHANGED faults
PrepareUnsigned(form) == Link(form, FALSE) /\ Fault("vault")

(* immudb commits set_envelope().                                          *)
Commit ==
    /\ pc = "write"
    /\ SetEnvelope(env, sealed)
    /\ pc' = "reply"
    /\ UNCHANGED <<streamVars, chain_head, psubs, turn, batch, env, sealed,
                   refused, faults>>

(* Mutant of WriteFails: the message is acknowledged all the same.         *)
WriteFailsAcked ==
    /\ pc = "write"
    /\ Fault("write")
    /\ SettledAs(Head(batch), AfterAck(Head(batch)))
    /\ Done
    /\ UNCHANGED <<ledgerVars, chain_head, refused>>

(* set_envelope() raises and nothing is committed (or the writer is not    *)
(* connected): nak(delay=5).                                               *)
WriteFails ==
    /\ pc = "write"
    /\ Fault("write")
    /\ SendNak
    /\ Done
    /\ UNCHANGED <<ledgerVars, chain_head, refused>>

(* Mutant of Acknowledge: _chain_head is not updated.                      *)
AcknowledgeKeepsHead ==
    /\ pc = "reply"
    /\ SendAck
    /\ Done
    /\ UNCHANGED <<ledgerVars, chain_head, refused>>

(* Mutant of Acknowledge: the ack is forgotten.                            *)
AcknowledgeForgets ==
    /\ pc = "reply"
    /\ chain_head' = ledger[Head(batch)].id
    /\ Done
    /\ UNCHANGED <<ledgerVars, streamVars, refused, faults>>

(* set_envelope() returns: the head moves, then msg.ack().                 *)
Acknowledge ==
    /\ pc = "reply"
    /\ chain_head' = ledger[Head(batch)].id
    /\ SendAck
    /\ Done
    /\ UNCHANGED <<ledgerVars, refused>>

(* Mutant of ReplyLost: the head moves and the write is tried again.       *)
ReplyLostRetries ==
    /\ pc = "reply"
    /\ Fault("reply")
    /\ chain_head' = ledger[Head(batch)].id
    /\ pc' = "prepare"
    /\ UNCHANGED <<ledgerVars, streamVars, psubs, turn, batch, env, sealed,
                   refused>>

(* set_envelope() raises after the commit: nak, and the head stays.        *)
ReplyLost ==
    /\ pc = "reply"
    /\ Fault("reply")
    /\ SendNak
    /\ Done
    /\ UNCHANGED <<ledgerVars, chain_head, refused>>

-----------------------------------------------------------------------------
(* Timers of the stream, and the end of the process.                       *)

InHand(e) == \E i \in DOMAIN batch : batch[i] = e

(* ack_wait runs out on a message nobody is working on any more.           *)
RedeliverAbandoned(e) ==
    /\ delivery[e] = "pending"
    /\ ~ InHand(e)
    /\ SettledAs(e, AfterRelease(e))
    /\ UNCHANGED <<ledgerVars, localVars, refused, faults>>

(* ack_wait (30 s) runs out while the message waits its turn in the batch; *)
(* it cannot while fetch() (1 s) is still filling the batch.               *)
AckWaitExpires(e) ==
    /\ delivery[e] = "pending"
    /\ pc \in Busy
    /\ InHand(e)
    /\ Fault("ack")
    /\ SettledAs(e, AfterRelease(e))
    /\ UNCHANGED <<ledgerVars, localVars, refused>>

(* The process dies, or stop() cancels the task at its next await: what is *)
(* in memory is gone; a write under way may or may not have committed.     *)
Crash ==
    /\ pc # "off"
    /\ Fault("crash")
    /\ pc' = "off"
    /\ chain_head' = 0
    /\ psubs' = {}
    /\ turn' = 1
    /\ batch' = <<>>
    /\ env' = NoBody
    /\ sealed' = FALSE
    /\ UNCHANGED <<ledgerVars, streamVars, refused>>

-----------------------------------------------------------------------------
Starting ==
    \/ BootWithoutImmudb
    \/ BootWithoutJetStream
    \/ JetStreamWaitTimesOut
    \/ Boot
    \/ \E S \in SUBSET DOMAIN SUBJECTS : BootImpaired(S)

Processing ==
    \/ Refuse
    \/ RefuseUnverifiable
    \/ Accept
    \/ \E f \in Forms : Prepare(f)
    \/ \E f \in Forms : PrepareUnsigned(f)
    \/ Commit
    \/ WriteFails
    \/ Acknowledge
    \/ ReplyLost

Next ==
    \/ \E e \in Envelopes : Publish(e)
    \/ Starting
    \/ \E e \in Envelopes : Deliver(e)
    \/ FetchReturns
    \/ FetchTimesOut
    \/ Processing
    \/ \E e \in Envelopes : RedeliverAbandoned(e)
    \/ \E e \in Envelopes : AckWaitExpires(e)
    \/ Crash

Spec == Init /\ [][Next]_vars

(***************************************************************************)
(* The coroutine takes its next step when it can, ack_wait runs out, and   *)
(* the core is started again after a crash (uvicorn under a supervisor).   *)
(* Nothing is assumed of publishers and faults, and nothing restarts a     *)
(* coroutine that has ended.                                               *)
(***************************************************************************)
Fairness ==
    /\ WF_vars(Boot)
    /\ \A e \in Envelopes : WF_vars(Deliver(e))
    /\ WF_vars(FetchReturns)
    /\ WF_vars(FetchTimesOut)
    /\ WF_vars(Refuse \/ Accept)
    /\ WF_vars(\E f \in Forms : Prepare(f))
    /\ WF_vars(Commit)
    /\ WF_vars(Acknowledge)
    /\ \A e \in Envelopes : WF_vars(RedeliverAbandoned(e))

FairSpec == Spec /\ Fairness

-----------------------------------------------------------------------------
(* Safety.                                                                 *)

(***************************************************************************)
(* No acknowledgement before the ledger has the envelope: whatever the     *)
(* crash or lost reply, an envelope the bus forgets is stored or refused.  *)
(***************************************************************************)
AckedIsAccountedFor ==
    \A e \in Envelopes :
        delivery[e] = "acked" => e \in Stored \/ e \in refused

(***************************************************************************)
(* The hash chain has no cycle: every link of every body ever committed    *)
(* names a body committed earlier, also after rewrites of a stored entry.  *)
(***************************************************************************)
ChainWellFounded == \A i \in DOMAIN bodies : bodies[i].prev < i

(***************************************************************************)
(* A body whose link is not the body committed just before it starts a     *)
(* fork (or a second root).  Every fork is paid for by a crash or by a     *)
(* reply lost after the commit: the appender alone never forks the chain.  *)
(***************************************************************************)
Forks == {i \in DOMAIN bodies : bodies[i].prev # i - 1}
ForkFaults == faults["crash"] + faults["reply"]
EachForkCostsAFault == Cardinality(Forks) <= ForkFaults

(***************************************************************************)
(* max_deliver is used up only by faults: no path of _process() leaves a   *)
(* message unacknowledged, or NAKs it, unless something failed.            *)
(***************************************************************************)
DeliveryFaults ==
    faults["crash"] + faults["reply"] + faults["write"] + faults["ack"]
LossNeedsFaults ==
    \A e \in Envelopes : delivery[e] = "dead" => DeliveryFaults >= MaxDeliver

(***************************************************************************)
(* Every link in the ledger is to a hash that some current entry has,      *)
(* unless the entry it names was redelivered, and so written twice.        *)
(***************************************************************************)
IntactUnlessRedelivered ==
    \A e \in Stored :
        LET p == bodies[ledger[e].id].prev
        IN  p # 0 => \/ ledger[bodies[p].env].id = p
                     \/ deliveries[bodies[p].env] > 1

(***************************************************************************)
(* Two envelopes of one subject that were each delivered once are chained  *)
(* in the order the stream has them.                                       *)
(***************************************************************************)
FirstTryOrder ==
    \A i, j \in DOMAIN stream :
        LET e == stream[i]
            f == stream[j]
        IN  /\ i < j
            /\ SubjectOf[e] = SubjectOf[f]
            /\ {e, f} \subseteq Stored
            /\ deliveries[e] = 1
            /\ deliveries[f] = 1
            => ledger[e].id < ledger[f].id

(***************************************************************************)
(* Only a redelivery disturbs the order of the chain: what was delivered   *)
(* once is linked to as it was written, and in the order of its subject.   *)
(***************************************************************************)
OnlyRedeliveryDisturbs == IntactUnlessRedelivered /\ FirstTryOrder

(***************************************************************************)
(* What has been acknowledged is final: its entry is never written again.  *)
(***************************************************************************)
AckedIsFinal ==
    [][\A e \in Envelopes : delivery[e] = "acked" => ledger'[e] = ledger[e]]_vars

-----------------------------------------------------------------------------
(* The promise the appender keeps.                                         *)

Fate(e) ==
    CASE e \in Stored -> "stored"
      [] e \notin Stored /\ e \in refused -> "refused"
      [] e \notin Stored \cup refused /\ delivery[e] = "dead" /\ ~ InHand(e) ->
            "lost"
      [] e \notin Stored \cup refused /\ delivery[e] = "absent" -> "idle"
      [] OTHER -> "queued"

Promise == INSTANCE AuditPromise WITH
    BadEnvelopes <- Garbled \cup Unsigned,
    fate <- [e \in Envelopes |-> Fate(e)],
    failures <- DeliveryFaults,
    outages <- faults["vault"]

(***************************************************************************)
(* Every behaviour of the appender and the bus is one the abstract         *)
(* lifecycle of AuditPromise allows.                                       *)
(***************************************************************************)
PromiseKept == Promise!Spec

-----------------------------------------------------------------------------
(* Why it is safe: the inductive invariant behind the properties above.    *)

(* A message is delivered again while deliveries are left, and only then.  *)
ReadyHasDeliveriesLeft ==
    \A e \in Envelopes :
        /\ delivery[e] = "ready" => deliveries[e] < MaxDeliver
        /\ delivery[e] = "dead" => deliveries[e] = MaxDeliver
        /\ delivery[e] \in {"absent", "new"} => deliveries[e] = 0

(* A message is in hand at most once, and is not settled while it is; its  *)
(* ack_wait cannot have run out while the batch is being fetched.          *)
HandInv ==
    /\ \A i, j \in DOMAIN batch : batch[i] = batch[j] => i = j
    /\ \A i \in DOMAIN batch :
          /\ delivery[batch[i]] \in {"pending", "ready", "dead"}
          /\ pc = "fetch" => delivery[batch[i]] = "pending"
    /\ pc \in {"prepare", "write", "reply"} => ~ Bad(Head(batch))

(* What is committed when the appender waits for immudb's reply.           *)
WriteInv ==
    /\ pc = "off" => chain_head = 0
    /\ pc = "write" => env.prev = chain_head
    /\ pc = "reply" => Head(batch) \in Stored

(* An open delivery of a message in hand is the only one that no fault has *)
(* paid for.                                                               *)
BudgetInv ==
    \A e \in Envelopes :
        /\ deliveries[e] <= DeliveryFaults + 1
        /\ \/ delivery[e] \in {"ready", "dead"}
           \/ delivery[e] = "pending" /\ ~ InHand(e)
           => deliveries[e] <= DeliveryFaults

(* The next new body continues the newest one unless a crash or a lost     *)
(* reply has moved the appender off the tip, which is not yet a fork.      *)
AtTip ==
    Len(bodies) = IF pc = "reply" THEN ledger[Head(batch)].id ELSE chain_head
ForkInv ==
    /\ EachForkCostsAFault
    /\ ~ AtTip => Cardinality(Forks) + 1 <= ForkFaults

IndInv ==
    /\ TypeOK
    /\ ReadyHasDeliveriesLeft
    /\ HandInv
    /\ WriteInv
    /\ AckedIsAccountedFor
    /\ BudgetInv
    /\ ChainWellFounded
    /\ ForkInv

-----------------------------------------------------------------------------
(* Liveness.                                                               *)

(***************************************************************************)
(* A published envelope that parses and verifies is eventually in the      *)
(* ledger, when every boot is complete, Vault answers and fewer than       *)
(* max_deliver deliveries fail.                                            *)
(***************************************************************************)
GoodIsStored ==
    \A e \in Envelopes :
        delivery[e] = "new" /\ ~ Bad(e) ~>
            \/ e \in Stored
            \/ faults["boot"] > 0 \/ faults["vault"] > 0
            \/ DeliveryFaults >= MaxDeliver

(***************************************************************************)
(* The bus does not keep a published message open for ever, unless a boot  *)
(* has left its subject without a subscription or the loop not running.    *)
(***************************************************************************)
EverythingSettles ==
    \A e \in Envelopes :
        delivery[e] = "new" ~>
            delivery[e] \in {"acked", "dead"} \/ faults["boot"] > 0

(***************************************************************************)
(* Both: a good envelope ends in the ledger, and every one ends.           *)
(***************************************************************************)
EnvelopesEnd == GoodIsStored /\ EverythingSettles
=============================================================================
