--------------------------- MODULE AuditPipeline ---------------------------
(***************************************************************************)
(* The audit half of openclaw-core: JetStream, the appender, the immudb    *)
(* ledger and the projector.  Appender and projector are tasks of one      *)
(* process (core/app/main.py): they start together and die together, and   *)
(* meet in the ledger only.                                                *)
(***************************************************************************)
EXTENDS AuditAppender

CONSTANT ProjectorFaults \* bound: faults of each kind of the projector

VARIABLES audit_entries, audit_conversations, audit_policy_decisions,
          audit_checkpoint, at, checkpoint, raw_pairs, pg_count, status,
          rebuilds, trusted, late, projector_faults

(* The projector, without conversations, policies or a rebuild; nothing    *)
(* but the appender writes to the ledger, so that every value parses.      *)
Projector == INSTANCE AuditProjector WITH
    Convs <- {},
    ConvOf <- [e \in Envelopes |-> 0],
    NoConv <- 0,
    Policied <- {},
    Corrupt <- {},
    BesideCore <- FALSE,
    Unsealed <- IF MaxFaults["vault"] = 0 THEN {} ELSE Envelopes,
    Relinks <- Nat,
    MaxBodies <- Cardinality(Envelopes) * MaxDeliver,
    MaxRebuilds <- 0,
    MaxFaults <- ProjectorFaults,
    faults <- projector_faults

(* MaxBodies above counts the envelopes.                                   *)
ASSUME PipelineAssumption == IsFiniteSet(Envelopes)

projectorLocals == <<audit_entries, audit_conversations,
                     audit_policy_decisions, audit_checkpoint, at, checkpoint,
                     raw_pairs, pg_count, status, rebuilds, trusted,
                     projector_faults>>
projectorVars == <<projectorLocals, late>>
appenderVars == <<streamVars, localVars, refused, faults>>
pipelineVars == <<vars, projectorVars>>

PipelineInit == Init /\ Projector!Init

-----------------------------------------------------------------------------
(* main.py's lifespan.  Without immudb neither task does anything.         *)

StartUp ==
    \/ BootWithoutImmudb /\ Projector!StartDeaf
    \/ /\ Boot \/ BootWithoutJetStream \/ \E S \in SUBSET DOMAIN SUBJECTS : BootImpaired(S)
       /\ Projector!Start \/ Projector!StartDeaf

CrashOfCore == Crash /\ Projector!Crash("core")

(* A commit of the appender reaches the projector through the ledger only. *)
Store ==
    /\ Commit
    /\ Projector!NoteLate(env.env)
    /\ UNCHANGED projectorLocals

(* Every other step of the bus and the appender.                           *)
Other(A) == A /\ UNCHANGED projectorVars
Appending ==
    /\ Other(Next)
    /\ UNCHANGED ledgerVars
    /\ "off" \notin {pc, pc'} \/ pc' = pc

Projecting == Projector!Cycle("core") /\ UNCHANGED appenderVars

PipelineNext ==
    \/ StartUp
    \/ CrashOfCore
    \/ Store
    \/ Appending
    \/ Projecting

PipelineSpec == PipelineInit /\ [][PipelineNext]_pipelineVars

(***************************************************************************)
(* The fairness of both tasks, and of the restart of their process.        *)
(***************************************************************************)
PipelineFairness ==
    /\ WF_pipelineVars(Boot /\ Projector!Start)
    /\ \A e \in Envelopes :
          /\ WF_pipelineVars(Other(Deliver(e)))
          /\ WF_pipelineVars(Other(RedeliverAbandoned(e)))
    /\ WF_pipelineVars(Other(FetchReturns))
    /\ WF_pipelineVars(Other(FetchTimesOut))
    /\ WF_pipelineVars(Other(Refuse) \/ Other(Accept))
    /\ WF_pipelineVars(\E f \in Forms : Other(Prepare(f)))
    /\ WF_pipelineVars(Store)
    /\ WF_pipelineVars(Other(Acknowledge))
    /\ WF_pipelineVars(/\ \/ Projector!FetchCheckpoint("core")
                          \/ Projector!ScanLedger("core")
                          \/ Projector!ScanNothingNew("core")
                          \/ Projector!WriteRows("core", {})
                       /\ UNCHANGED appenderVars)

FairPipelineSpec == PipelineSpec /\ PipelineFairness

-----------------------------------------------------------------------------
Rows == Projector!Projected

(***************************************************************************)
(* The projector alone is checked with an environment that writes no more  *)
(* than the appender: each delivery commits one body at most, while core   *)
(* is up, and signed unless Vault failed.                                  *)
(***************************************************************************)
ProjectorSpecMet == Projector!Spec

(***************************************************************************)
(* A row is the current version of its ledger entry, unless the message    *)
(* was delivered again and the entry rewritten behind the projector.       *)
(***************************************************************************)
RowsAreCurrent ==
    \A e \in Rows : audit_entries[e].id = ledger[e].id \/ deliveries[e] > 1

(***************************************************************************)
(* No false alarm: a row is flagged only after a crash or a lost reply     *)
(* (which fork the chain), after a redelivery (which rewrites an entry),   *)
(* when a signature could not be made or checked, or when entries were     *)
(* stored out of the order of their ULIDs.                                 *)
(***************************************************************************)
NoFalseAlarm ==
    \A e \in Rows :
        Projector!HasIssues(audit_entries[e]) =>
            \/ late # {}
            \/ ForkFaults > 0
            \/ \E f \in Envelopes : deliveries[f] > 1
            \/ faults["vault"] + projector_faults["vault"] > 0

(***************************************************************************)
(* End to end: a good envelope that reaches the bus reaches Postgres, but  *)
(* for a late one, when core's startup and Vault do not fail and fewer     *)
(* than max_deliver deliveries do.                                         *)
(***************************************************************************)
Outage == faults["boot"] + faults["vault"] + projector_faults["boot"] > 0
GoodIsProjected ==
    \A e \in Envelopes :
        delivery[e] = "new" /\ ~ Bad(e) ~>
            \/ e \in Rows \cup late
            \/ Outage
            \/ DeliveryFaults >= MaxDeliver
=============================================================================
