--------------------------- MODULE AuditProjector ---------------------------
(***************************************************************************)
(* The audit projector (core/app/audit/projector.py), which copies the     *)
(* immudb ledger into Postgres, and `oc audit projection rebuild`          *)
(* (core/app/cli/audit_cmds.py), which truncates the copy and runs the     *)
(* same cycle from a process of its own.  A cycle awaits three times: the  *)
(* checkpoint, the scan, and the transaction that inserts the rows and     *)
(* moves the checkpoint; the two projectors and the appender interleave    *)
(* there.  A transaction is atomic: it conflicts with any other on the     *)
(* rows it inserts and on the checkpoint row.                              *)
(***************************************************************************)
EXTENDS AuditLedger

CONSTANTS
    Convs,       \* conversations
    ConvOf,      \* conv_id of each envelope; NoConv is None
    NoConv,
    Policied,    \* envelopes whose `policy` is set
    Corrupt,     \* envelopes whose stored value does not parse
    BesideCore,  \* whether a rebuild runs while core is up
    Unsealed,    \* bound: envelopes the appender may store without its signature
    Relinks,     \* bound: links the appender may give a body besides the tip
    MaxBodies,   \* bound: bodies ever committed
    MaxRebuilds, \* bound: rebuilds
    MaxFaults    \* bound: faults of each kind

(* boot: immudb or Postgres is unreachable when core starts.  crash: a     *)
(* process dies.  error: a query or a scan raises.  vault: a signature     *)
(* cannot be checked.                                                      *)
FaultKinds == {"boot", "crash", "error", "vault"}

ASSUME ProjectorAssumption ==
    /\ ConvOf \in [Envelopes -> Convs \cup {NoConv}]
    /\ NoConv \notin Convs
    /\ Policied \subseteq Envelopes
    /\ Corrupt \subseteq Envelopes
    /\ BesideCore \in BOOLEAN
    /\ Unsealed \subseteq Envelopes
    /\ Relinks \subseteq Nat
    /\ MaxBodies \in Nat
    /\ MaxRebuilds \in Nat
    /\ MaxFaults \in [FaultKinds -> Nat]
    /\ \A e \in Envelopes : Ulid[e] > 0

(* core: the task inside openclaw-core.  cli: the rebuild command.         *)
Projectors == {"core", "cli"}

VARIABLES
    audit_entries,          \* the row of each envelope
    audit_conversations,    \* entry_count and has_integrity_issues
    audit_policy_decisions, \* how many rows each envelope has
    audit_checkpoint,       \* last_ulid; 0 is NULL
    at,         \* where each projector stands
    checkpoint, \* the last_ulid it read
    raw_pairs,  \* the versions it scanned
    pg_count,   \* the number of rows the rebuild counted
    status,     \* what the last finished rebuild reported
    rebuilds,   \* history: rebuilds so far
    trusted,    \* history: rows whose link was taken on trust
    late,       \* history: keys that appeared below a key already there
    faults      \* history: faults so far, by kind

tables == <<audit_entries, audit_conversations, audit_policy_decisions,
            audit_checkpoint>>
histories == <<rebuilds, trusted, late>>
vars == <<ledgerVars, tables, at, checkpoint, raw_pairs, pg_count, status,
          histories, faults>>

(***************************************************************************)
(* down: no process.  deaf: core runs without immudb or without a pool.    *)
(* idle: between two cycles.  scan, write: after the first and the second  *)
(* await of _cycle().  count, report: the end of a rebuild.                *)
(***************************************************************************)
Places == {"down", "deaf", "idle", "scan", "write", "count", "report"}

(* A row of audit_entries: the body it was made from, chain_valid, and     *)
(* sig_service_valid /\ sig_appender_valid.                                *)
Row == [id : Nat, chain_valid : BOOLEAN, sigs_valid : BOOLEAN]
NoRow == [id |-> 0, chain_valid |-> FALSE, sigs_valid |-> FALSE]

Projected == {e \in Envelopes : audit_entries[e].id # 0}

TypeOK ==
    /\ LedgerTypeOK
    /\ audit_entries \in [Envelopes -> Row]
    /\ \A e \in Envelopes : audit_entries[e].id \in Hashes
    /\ audit_conversations \in
          [Convs -> [entry_count : Nat, has_integrity_issues : BOOLEAN]]
    /\ audit_policy_decisions \in [Envelopes -> Nat]
    /\ audit_checkpoint \in {Ulid[e] : e \in Envelopes} \cup {0}
    /\ at \in [Projectors -> Places]
    /\ checkpoint \in [Projectors -> {Ulid[e] : e \in Envelopes} \cup {0}]
    /\ raw_pairs \in [Projectors -> [Envelopes -> Version]]
    /\ \A w \in Projectors, e \in Envelopes : raw_pairs[w][e].id \in Hashes
    /\ pg_count \in Nat
    /\ status \in {"none", "match", "differ"}
    /\ rebuilds \in Nat
    /\ trusted \subseteq Envelopes
    /\ late \subseteq Envelopes
    /\ faults \in [FaultKinds -> Nat]

NoPairs == [e \in Envelopes |-> NoVersion]

Init ==
    /\ LedgerInit
    /\ audit_entries = [e \in Envelopes |-> NoRow]
    /\ audit_conversations =
          [c \in Convs |-> [entry_count |-> 0, has_integrity_issues |-> FALSE]]
    /\ audit_policy_decisions = [e \in Envelopes |-> 0]
    /\ audit_checkpoint = 0
    /\ at = [w \in Projectors |-> "down"]
    /\ checkpoint = [w \in Projectors |-> 0]
    /\ raw_pairs = [w \in Projectors |-> NoPairs]
    /\ pg_count = 0
    /\ status = "none"
    /\ rebuilds = 0
    /\ trusted = {}
    /\ late = {}
    /\ faults = [k \in FaultKinds |-> 0]

Fault(k) ==
    /\ faults[k] < MaxFaults[k]
    /\ faults' = [faults EXCEPT ![k] = @ + 1]

-----------------------------------------------------------------------------
(* The appender, in the same process as the core projector.                *)

NoteLate(e) ==
    late' = IF e \notin Stored /\ \E f \in Stored : Ulid[f] > Ulid[e]
            THEN late \cup {e} ELSE late

WriteLedger(e, form, prev, sealed) ==
    /\ at["core"] # "down"
    /\ Len(bodies) < MaxBodies
    /\ SetEnvelope([env |-> e, form |-> form, prev |-> prev], sealed)
    /\ NoteLate(e)
    /\ UNCHANGED <<tables, at, checkpoint, raw_pairs, pg_count, status,
                   rebuilds, trusted, faults>>

-----------------------------------------------------------------------------
(* The core projector's process.                                           *)

Goto(w, place) == at' = [at EXCEPT ![w] = place]

(* main.py's lifespan: the writer is connected, the pool is created.       *)
Start ==
    /\ at["core"] = "down"
    /\ BesideCore \/ at["cli"] = "down"
    /\ Goto("core", "idle")
    /\ UNCHANGED <<ledgerVars, tables, checkpoint, raw_pairs, pg_count, status,
                   histories, faults>>

(* writer.connect() or projector.start() fails: is_connected stays False,  *)
(* or there is no task.  Nothing tries again.                              *)
StartDeaf ==
    /\ at["core"] = "down"
    /\ BesideCore \/ at["cli"] = "down"
    /\ Fault("boot")
    /\ Goto("core", "deaf")
    /\ UNCHANGED <<ledgerVars, tables, checkpoint, raw_pairs, pg_count, status,
                   histories>>

(* A process dies; a transaction it had open is rolled back.               *)
Crash(w) ==
    /\ at[w] # "down"
    /\ Fault("crash")
    /\ Goto(w, "down")
    /\ checkpoint' = [checkpoint EXCEPT ![w] = 0]
    /\ raw_pairs' = [raw_pairs EXCEPT ![w] = NoPairs]
    /\ pg_count' = IF w = "cli" THEN 0 ELSE pg_count
    /\ UNCHANGED <<ledgerVars, tables, status, histories>>

-----------------------------------------------------------------------------
(* _cycle().                                                               *)

FetchCheckpoint(w) ==
    /\ at[w] = "idle"
    /\ checkpoint' = [checkpoint EXCEPT ![w] = audit_checkpoint]
    /\ Goto(w, "scan")
    /\ UNCHANGED <<ledgerVars, tables, raw_pairs, pg_count, status, histories,
                   faults>>

(* Mutant of NewPairs: an inclusive cursor.                                *)
NewPairsInclusive(w) == {e \in Scan : Ulid[e] >= checkpoint[w]}

(* The scanned keys after the checkpoint.                                  *)
NewPairs(w) == {e \in Scan : Ulid[e] > checkpoint[w]}

ScanLedger(w) ==
    /\ at[w] = "scan"
    /\ NewPairs(w) # {}
    /\ raw_pairs' = [raw_pairs EXCEPT ![w] =
          [e \in Envelopes |-> IF e \in NewPairs(w) THEN ledger[e] ELSE NoVersion]]
    /\ Goto(w, "write")
    /\ UNCHANGED <<ledgerVars, tables, checkpoint, pg_count, status, histories,
                   faults>>

CycleEnds(w, place) ==
    /\ Goto(w, place)
    /\ checkpoint' = [checkpoint EXCEPT ![w] = 0]
    /\ raw_pairs' = [raw_pairs EXCEPT ![w] = NoPairs]
    /\ UNCHANGED <<ledgerVars, pg_count, status, rebuilds, late>>

(* Mutant of AfterZero: core's task ends when there is nothing to do.      *)
AfterZeroEnds(w) == IF w = "core" THEN "deaf" ELSE "count"

(* Where a projector goes after _cycle() has returned 0.                   *)
AfterZero(w) == IF w = "core" THEN "idle" ELSE "count"

ScanNothingNew(w) ==
    /\ at[w] = "scan"
    /\ NewPairs(w) = {}
    /\ CycleEnds(w, AfterZero(w))
    /\ UNCHANGED <<tables, trusted, faults>>

(* The batch, and the envelopes of it that parse.                          *)
Batch(w) == {e \in Envelopes : raw_pairs[w][e].id # 0}
Rows(w) == Batch(w) \ Corrupt

(* Nothing in the batch parses: return 0 before the transaction.           *)
NothingParses(w) ==
    /\ at[w] = "write"
    /\ Rows(w) = {}
    /\ CycleEnds(w, AfterZero(w))
    /\ UNCHANGED <<tables, trusted, faults>>

Before(S, e) == {f \in S : Ulid[f] < Ulid[e]}
LastOf(S) == {e \in S : \A f \in S : Ulid[f] <= Ulid[e]}
FirstOf(S) == {e \in S : \A f \in S : Ulid[e] <= Ulid[f]}

(* The link of the body that was scanned under e.                          *)
PrevHash(w, e) == bodies[raw_pairs[w][e].id].prev

(* Mutant of ChainOk: an entry that does not parse counts as a link.       *)
ChainOkOverCorrupt(w, e) ==
    \A f \in LastOf(Before(Batch(w), e)) : PrevHash(w, e) = raw_pairs[w][f].id

(* chain_ok: the link names the row before it in the batch, if any.        *)
ChainOk(w, e) ==
    \A f \in LastOf(Before(Rows(w), e)) : PrevHash(w, e) = raw_pairs[w][f].id

(* The row made of e; `doubted` are the ones Vault does not vouch for.     *)
RowOf(w, e, doubted) ==
    [id |-> raw_pairs[w][e].id,
     chain_valid |-> ChainOk(w, e),
     sigs_valid |-> raw_pairs[w][e].sealed /\ e \notin doubted]

HasIssues(row) == ~ (row.chain_valid /\ row.sigs_valid)

(* INSERT INTO audit_entries ... ON CONFLICT (ulid) DO NOTHING.            *)
InsertRows(w, doubted) ==
    audit_entries' = [e \in Envelopes |->
        IF e \in Rows(w) \ Projected THEN RowOf(w, e, doubted)
        ELSE audit_entries[e]]

RowsOfConv(w, c) == {e \in Rows(w) : ConvOf[e] = c}

(* Mutant of UpsertConversations: the flag of the last row wins.           *)
UpsertLastFlag(w, doubted) ==
    audit_conversations' = [c \in Convs |->
        IF RowsOfConv(w, c) = {} THEN audit_conversations[c] ELSE
        [entry_count |-> audit_conversations[c].entry_count
                            + Cardinality(RowsOfConv(w, c)),
         has_integrity_issues |->
            \E e \in LastOf(RowsOfConv(w, c)) : HasIssues(RowOf(w, e, doubted))]]

(* ON CONFLICT (conv_id) DO UPDATE: once per row of the batch, whether or  *)
(* not its insert into audit_entries did anything.                         *)
UpsertConversations(w, doubted) ==
    audit_conversations' = [c \in Convs |->
        [entry_count |-> audit_conversations[c].entry_count
                            + Cardinality(RowsOfConv(w, c)),
         has_integrity_issues |->
            \/ audit_conversations[c].has_integrity_issues
            \/ \E e \in RowsOfConv(w, c) : HasIssues(RowOf(w, e, doubted))]]

InsertPolicies(w) ==
    audit_policy_decisions' = [e \in Envelopes |->
        audit_policy_decisions[e] + IF e \in Rows(w) \cap Policied THEN 1 ELSE 0]

(* last_ulid: the last key of the batch, whether or not it parses.         *)
AdvanceCheckpoint(w) ==
    \E e \in LastOf(Batch(w)) : audit_checkpoint' = Ulid[e]

(* The transaction commits; n > 0, so a rebuild goes round again.          *)
WriteRows(w, doubted) ==
    /\ at[w] = "write"
    /\ Rows(w) # {}
    /\ doubted \subseteq Rows(w)
    /\ IF doubted = {} THEN UNCHANGED faults ELSE Fault("vault")
    /\ InsertRows(w, doubted)
    /\ UpsertConversations(w, doubted)
    /\ InsertPolicies(w)
    /\ AdvanceCheckpoint(w)
    /\ trusted' = trusted \cup (FirstOf(Rows(w)) \ Projected)
    /\ CycleEnds(w, "idle")

(* A query or the scan raises: rolled back.  _run() logs it and polls      *)
(* again; the rebuild command ends.  One that fails at the checkpoint has  *)
(* done nothing, as one that has not begun.                                *)
CycleFails(w) ==
    /\ at[w] \in {"scan", "write"}
    /\ Fault("error")
    /\ CycleEnds(w, IF w = "core" THEN "idle" ELSE "down")
    /\ UNCHANGED <<tables, trusted>>

-----------------------------------------------------------------------------
(* oc audit projection rebuild.                                            *)

(* Mutant of Rebuild: the checkpoint is not reset.                         *)
RebuildKeepsCheckpoint ==
    /\ at["cli"] = "down"
    /\ BesideCore \/ at["core"] = "down"
    /\ rebuilds < MaxRebuilds
    /\ rebuilds' = rebuilds + 1
    /\ audit_entries' = [e \in Envelopes |-> NoRow]
    /\ audit_conversations' =
          [c \in Convs |-> [entry_count |-> 0, has_integrity_issues |-> FALSE]]
    /\ audit_policy_decisions' = [e \in Envelopes |-> 0]
    /\ trusted' = {}
    /\ Goto("cli", "idle")
    /\ UNCHANGED <<ledgerVars, audit_checkpoint, checkpoint, raw_pairs, pg_count,
                   status, late, faults>>

(* One transaction truncates the tables and sets last_ulid to NULL.        *)
Rebuild ==
    /\ at["cli"] = "down"
    /\ BesideCore \/ at["core"] = "down"
    /\ rebuilds < MaxRebuilds
    /\ rebuilds' = rebuilds + 1
    /\ audit_entries' = [e \in Envelopes |-> NoRow]
    /\ audit_conversations' =
          [c \in Convs |-> [entry_count |-> 0, has_integrity_issues |-> FALSE]]
    /\ audit_policy_decisions' = [e \in Envelopes |-> 0]
    /\ audit_checkpoint' = 0
    /\ trusted' = {}
    /\ Goto("cli", "idle")
    /\ UNCHANGED <<ledgerVars, checkpoint, raw_pairs, pg_count, status, late,
                   faults>>

(* SELECT count( * ) FROM audit_entries.                                     *)
CountRows ==
    /\ at["cli"] = "count"
    /\ pg_count' = Cardinality(Projected)
    /\ Goto("cli", "report")
    /\ UNCHANGED <<ledgerVars, tables, checkpoint, raw_pairs, status, histories,
                   faults>>

(* Mutant of Report: only a surplus of rows is a mismatch.                 *)
ReportSurplus ==
    /\ at["cli"] = "report"
    /\ status' = IF pg_count <= Cardinality(Scan) THEN "match" ELSE "differ"
    /\ pg_count' = 0
    /\ Goto("cli", "down")
    /\ UNCHANGED <<ledgerVars, tables, checkpoint, raw_pairs, histories, faults>>

(* _immudb_entry_count(), and the verdict.                                 *)
Report ==
    /\ at["cli"] = "report"
    /\ status' = IF pg_count = Cardinality(Scan) THEN "match" ELSE "differ"
    /\ pg_count' = 0
    /\ Goto("cli", "down")
    /\ UNCHANGED <<ledgerVars, tables, checkpoint, raw_pairs, histories, faults>>

-----------------------------------------------------------------------------
Cycle(w) ==
    \/ FetchCheckpoint(w)
    \/ ScanLedger(w)
    \/ ScanNothingNew(w)
    \/ NothingParses(w)
    \/ \E doubted \in SUBSET Envelopes : WriteRows(w, doubted)
    \/ CycleFails(w)

Projecting ==
    \/ Start
    \/ StartDeaf
    \/ \E w \in Projectors : Cycle(w) \/ Crash(w)
    \/ Rebuild
    \/ CountRows
    \/ Report

(* The appender links a body to the newest one, or, after a restart, to    *)
(* another; it stores it signed, unless Vault fails.                       *)
Appending ==
    \E e \in Envelopes, form \in Forms, sealed \in BOOLEAN,
       prev \in Hashes \cap ({Len(bodies)} \cup Relinks) :
        /\ sealed \/ e \in Unsealed
        /\ WriteLedger(e, form, prev, sealed)

Next == Projecting \/ Appending

Spec == Init /\ [][Next]_vars

(***************************************************************************)
(* _run() polls for ever, the rebuild is a loop without waits, and core is *)
(* started again when it is down.  Nothing is assumed of faults, of the    *)
(* appender, or of who starts a rebuild.                                   *)
(***************************************************************************)
Fairness ==
    /\ WF_vars(Start)
    /\ \A w \in Projectors :
          WF_vars(\/ FetchCheckpoint(w)
                  \/ ScanLedger(w)
                  \/ ScanNothingNew(w)
                  \/ NothingParses(w)
                  \/ WriteRows(w, {}))
    /\ WF_vars(CountRows)
    /\ WF_vars(Report)

FairSpec == Spec /\ Fairness

-----------------------------------------------------------------------------
(* What holds whatever runs beside what.                                   *)

(***************************************************************************)
(* No row is missing from the tables derived from it, whichever projector  *)
(* wrote it and whatever was rolled back.                                  *)
(***************************************************************************)
DerivedTablesCover ==
    /\ \A c \in Convs :
          audit_conversations[c].entry_count >=
             Cardinality({e \in Projected : ConvOf[e] = c})
    /\ \A e \in Projected \cap Policied : audit_policy_decisions[e] >= 1

(***************************************************************************)
(* A flag on a row is never lost on its conversation.                      *)
(***************************************************************************)
IssuesSurface ==
    \A e \in Projected :
        HasIssues(audit_entries[e]) /\ ConvOf[e] # NoConv
        => audit_conversations[ConvOf[e]].has_integrity_issues

(***************************************************************************)
(* The tables derived from the rows agree with them: nothing is missing,   *)
(* and no flag is lost, whichever of two projectors wrote a row.           *)
(***************************************************************************)
DerivedTablesAgree == DerivedTablesCover /\ IssuesSurface

(***************************************************************************)
(* When a rebuild says that the rows match immudb, every key has its row,  *)
(* whatever core wrote in between (up to the cap on a scan).               *)
(***************************************************************************)
MatchIsTrue ==
    [][Report /\ status' = "match" /\ Cardinality(Stored) <= ScanLimit
       => Projected = Stored]_vars

-----------------------------------------------------------------------------
(* What holds when a rebuild runs only while core is stopped.              *)

(***************************************************************************)
(* Each envelope is counted once and has one policy row at most: nothing   *)
(* is processed twice, whatever fails or restarts.                         *)
(***************************************************************************)
ProcessedOnce ==
    /\ \A c \in Convs :
          audit_conversations[c].entry_count =
             Cardinality({e \in Projected : ConvOf[e] = c})
    /\ \A e \in Envelopes :
          audit_policy_decisions[e] =
             IF e \in Projected \cap Policied THEN 1 ELSE 0

(***************************************************************************)
(* The checkpoint passes a key that has no row only when its value does    *)
(* not parse or it was committed after a greater key.                      *)
(***************************************************************************)
SkippedIsLate ==
    \A e \in Stored :
        Ulid[e] <= audit_checkpoint => e \in Projected \cup Corrupt \cup late

(***************************************************************************)
(* chain_valid says whether the link names the hash of the row before it,  *)
(* for every row but the first of a cycle's batch.                         *)
(***************************************************************************)
Linked(e) ==
    \E f \in LastOf(Before(Projected, e)) :
        bodies[audit_entries[e].id].prev = audit_entries[f].id
ChainVerdict ==
    \A e \in Projected \ trusted : audit_entries[e].chain_valid <=> Linked(e)

(***************************************************************************)
(* "unparseable/corrupt entries are skipped": the only reason a rebuild    *)
(* has to report a mismatch (audit_cmds.py:394).                           *)
(***************************************************************************)
DifferMeansCorrupt ==
    [][Report /\ status' = "differ" => Stored \cap Corrupt # {}]_vars

(* Why: a row is never ahead of the checkpoint, and a batch in hand begins *)
(* behind it.                                                              *)
CursorInv ==
    /\ \A e \in Projected : Ulid[e] <= audit_checkpoint
    /\ \A w \in Projectors :
          /\ at[w] = "scan" => checkpoint[w] = audit_checkpoint
          /\ \A e \in Batch(w) : Ulid[e] > audit_checkpoint

(***************************************************************************)
(* Restarts, rollbacks and rebuilds leave neither a repeat nor a gap: each *)
(* envelope is counted once, and only late or corrupt keys are passed      *)
(* over, since the checkpoint moves with the rows.                         *)
(***************************************************************************)
ProjectorInv == TypeOK /\ ProcessedOnce /\ SkippedIsLate /\ CursorInv

-----------------------------------------------------------------------------
(* Liveness.                                                               *)

(***************************************************************************)
(* An envelope that parses and that came in order gets its row, when core  *)
(* reaches immudb and Postgres at its last start.                          *)
(***************************************************************************)
EventuallyProjected ==
    \A e \in Envelopes : e \in Stored \ (Corrupt \cup late) ~> e \in Projected

-----------------------------------------------------------------------------
(* What the comments and docstrings say, and the runs refute.              *)

(* projector.py:124-125, the cap matters "once a single cycle can exceed   *)
(* it": not while each cycle finds few new keys.                           *)
CapOnlyBoundsACycle ==
    [](Cardinality(Stored \ Projected) < ScanLimit) => EventuallyProjected
=============================================================================
