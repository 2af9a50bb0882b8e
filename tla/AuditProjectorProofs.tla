------------------------ MODULE AuditProjectorProofs ------------------------
(***************************************************************************)
(* Proofs about AuditProjector: for any envelopes, ULIDs, conversations,   *)
(* scan cap and number of faults and rebuilds.                             *)
(***************************************************************************)
EXTENDS AuditProjector, AuditLedgerProofs, FiniteSetTheorems, TLAPS

-----------------------------------------------------------------------------
(* The invariant that holds whatever runs beside what.                     *)

(* Every identifier, in the ledger, in a batch or in a row, names a body   *)
(* of its own envelope.                                                    *)
NamesInv ==
    \A e \in Envelopes :
        /\ Names(ledger[e].id, e)
        /\ Names(audit_entries[e].id, e)
        /\ \A w \in Projectors : Names(raw_pairs[w][e].id, e)

(* A batch is in hand only between the scan and the transaction, and it    *)
(* and the rows come from the ledger.                                      *)
BatchInv ==
    /\ \A w \in Projectors :
          /\ at[w] # "write" => Batch(w) = {}
          /\ Batch(w) \subseteq Stored
    /\ Projected \subseteq Stored

(* Rows are not lost between the count of a rebuild and its verdict.       *)
FiniteRows == IsFiniteSet(Projected)

CountInv == at["cli"] = "report" => pg_count <= Cardinality(Projected)

BaseInv == TypeOK /\ NamesInv /\ BatchInv

(* Hence what is stored, in hand or projected is finite.                   *)
LEMMA BaseFinite ==
    ASSUME TypeOK, NamesInv
    PROVE  /\ IsFiniteSet(Stored)
           /\ IsFiniteSet(Projected)
           /\ \A w \in Projectors : IsFiniteSet(Batch(w))
<1>1. LedgerTypeOK
  BY DEF TypeOK
<1>2. IsFiniteSet(Stored)
  <2> DEFINE id == [e \in Envelopes |-> ledger[e].id]
  <2>1. id \in [Envelopes -> Hashes] /\ Stored \in SUBSET Envelopes
    BY <1>1 DEF LedgerTypeOK, Stored
  <2>2. \A e \in Stored : id[e] # 0 /\ Names(id[e], e)
    BY DEF NamesInv, Stored
  <2> HIDE DEF id
  <2> QED
    BY <1>1, <2>1, <2>2, NamedIsFinite
<1>3. IsFiniteSet(Projected)
  <2> DEFINE id == [e \in Envelopes |-> audit_entries[e].id]
  <2>1. id \in [Envelopes -> Hashes] /\ Projected \in SUBSET Envelopes
    BY DEF TypeOK, Projected
  <2>2. \A e \in Projected : id[e] # 0 /\ Names(id[e], e)
    BY DEF NamesInv, Projected
  <2> HIDE DEF id
  <2> QED
    BY <1>1, <2>1, <2>2, NamedIsFinite
<1>4. ASSUME NEW w \in Projectors PROVE IsFiniteSet(Batch(w))
  <2> DEFINE id == [e \in Envelopes |-> raw_pairs[w][e].id]
  <2>1. id \in [Envelopes -> Hashes] /\ Batch(w) \in SUBSET Envelopes
    BY DEF TypeOK, Batch
  <2>2. \A e \in Batch(w) : id[e] # 0 /\ Names(id[e], e)
    BY DEF NamesInv, Batch
  <2> HIDE DEF id
  <2> QED
    BY <1>1, <2>1, <2>2, NamedIsFinite
<1> QED
  BY <1>2, <1>3, <1>4

-----------------------------------------------------------------------------
(* What a step can do.  Only four kinds of step change the ledger, the     *)
(* tables or a batch; the rest move a projector, or drop its batch.        *)

Quiet ==
    /\ UNCHANGED <<ledgerVars, tables, trusted, late>>
    /\ \A w \in Projectors :
          \/ raw_pairs'[w] = raw_pairs[w] /\ (at'[w] = "write" <=> at[w] = "write")
          \/ raw_pairs'[w] = NoPairs /\ at'[w] # "write"
    /\ \A w \in Projectors : at'[w] = "scan" =>
          \/ checkpoint'[w] = audit_checkpoint
          \/ at[w] = "scan" /\ checkpoint'[w] = checkpoint[w]

Appends ==
    \E e \in Envelopes, form \in Forms, sealed \in BOOLEAN, prev \in Hashes :
        WriteLedger(e, form, prev, sealed)

Writes == \E w \in Projectors, doubted \in SUBSET Envelopes : WriteRows(w, doubted)

Scans == \E w \in Projectors : ScanLedger(w)

(* The steps, as far as rows and batches go.                               *)
LEMMA StepKinds ==
    ASSUME TypeOK, [Next]_vars
    PROVE  Quiet \/ Appends \/ Writes \/ Scans \/ Rebuild
<1> USE DEF vars, histories, TypeOK, Goto
<1>1. CASE UNCHANGED vars
  BY <1>1 DEF Quiet
<1>2. CASE Start \/ StartDeaf \/ CountRows \/ Report
  BY <1>2 DEF Start, StartDeaf, CountRows, Report, Quiet, Projectors
<1>3. ASSUME NEW w \in Projectors, Crash(w) PROVE Quiet
  BY <1>3 DEF Crash, Quiet
<1>4. ASSUME NEW w \in Projectors, FetchCheckpoint(w) PROVE Quiet
  BY <1>4 DEF FetchCheckpoint, Quiet
<1>5. ASSUME NEW w \in Projectors, ScanNothingNew(w) \/ NothingParses(w) PROVE Quiet
  BY <1>5 DEF ScanNothingNew, NothingParses, CycleEnds, AfterZero, Quiet
<1>6. ASSUME NEW w \in Projectors, CycleFails(w) PROVE Quiet
  BY <1>6 DEF CycleFails, CycleEnds, Quiet
<1>7. CASE Appending
  BY <1>7 DEF Appending, Appends
<1> QED
  BY <1>1, <1>2, <1>3, <1>4, <1>5, <1>6, <1>7
  DEF Next, Projecting, Cycle, Writes, Scans

-----------------------------------------------------------------------------
(* Type correctness, and the origin of rows and batches.                   *)

(* The base invariant holds initially.                                     *)
LEMMA InitBaseInv == Init => BaseInv
<1> SUFFICES ASSUME Init PROVE BaseInv
  OBVIOUS
<1> USE DEF Init, LedgerInit, NoRow, NoPairs, NoVersion
<1>1. Hashes = {0} /\ bodies \in Seq(Body)
  BY EmptySeq DEF Hashes
<1>2. TypeOK
  BY <1>1 DEF TypeOK, LedgerTypeOK, Version, Row, Places, FaultKinds, Projectors
<1>3. NamesInv
  BY DEF NamesInv, Names
<1>4. BatchInv
  BY DEF BatchInv, Batch, Projected
<1> QED
  BY <1>2, <1>3, <1>4 DEF BaseInv

(* A batch is never negative in number: what its transaction adds to a     *)
(* conversation is a natural number.                                       *)
LEMMA RowsFinite ==
    ASSUME TypeOK, NamesInv, NEW w \in Projectors
    PROVE  /\ IsFiniteSet(Rows(w))
           /\ \A c \in Convs : /\ IsFiniteSet(RowsOfConv(w, c))
                              /\ Cardinality(RowsOfConv(w, c)) \in Nat
<1>1. IsFiniteSet(Batch(w))
  BY BaseFinite
<1>2. Rows(w) \subseteq Batch(w) /\ \A c \in Convs : RowsOfConv(w, c) \subseteq Batch(w)
  BY DEF Rows, RowsOfConv
<1> QED
  BY <1>1, <1>2, FS_Subset, FS_CardinalityType

(* A step keeps the types.                                                 *)
LEMMA NextTypeOK ==
    ASSUME TypeOK, NamesInv, [Next]_vars
    PROVE  TypeOK'
<1> USE DEF vars, tables, histories, ledgerVars, Goto
<1>0. /\ \A k \in FaultKinds : Fault(k) => faults' \in [FaultKinds -> Nat]
      /\ {"boot", "crash", "error", "vault"} \subseteq FaultKinds
  <2>1. faults \in [FaultKinds -> Nat]
    BY DEF TypeOK
  <2>2. \A k \in FaultKinds : Fault(k) => faults' \in [FaultKinds -> Nat]
    BY <2>1 DEF Fault
  <2> QED
    BY <2>2 DEF FaultKinds
<1>1. CASE UNCHANGED vars
  BY <1>1 DEF TypeOK, LedgerTypeOK, Hashes
<1>2. ASSUME NEW e \in Envelopes, NEW form \in Forms, NEW sealed \in BOOLEAN,
             NEW prev \in Hashes, WriteLedger(e, form, prev, sealed)
      PROVE  TypeOK'
  <2>1. [env |-> e, form |-> form, prev |-> prev] \in Body
    BY DEF Body, Hashes, TypeOK, LedgerTypeOK
  <2>2. LedgerTypeOK' /\ Hashes \subseteq Hashes'
    BY <1>2, <2>1, SetEnvelopeFacts, SetEnvelopeKeepsNames DEF WriteLedger, TypeOK
  <2>3. late' \subseteq Envelopes
    BY <1>2 DEF WriteLedger, NoteLate, TypeOK
  <2> QED
    BY <1>2, <2>2, <2>3 DEF WriteLedger, TypeOK
<1>3. CASE Start \/ StartDeaf
  BY <1>0, <1>3 DEF Start, StartDeaf, TypeOK, LedgerTypeOK, Hashes, Places, FaultKinds, Projectors
<1>4. ASSUME NEW w \in Projectors, Crash(w) PROVE TypeOK'
  BY <1>0, <1>4 DEF Crash, TypeOK, LedgerTypeOK, Hashes, Places, FaultKinds, NoPairs,
     NoVersion, Version
<1>5. ASSUME NEW w \in Projectors, FetchCheckpoint(w) PROVE TypeOK'
  BY <1>5 DEF FetchCheckpoint, TypeOK, LedgerTypeOK, Hashes, Places
<1>6. ASSUME NEW w \in Projectors, ScanLedger(w) PROVE TypeOK'
  <2>1. [e \in Envelopes |-> IF e \in NewPairs(w) THEN ledger[e] ELSE NoVersion]
           \in [Envelopes -> Version]
    BY DEF TypeOK, LedgerTypeOK, NoVersion, Version
  <2>2. raw_pairs' \in [Projectors -> [Envelopes -> Version]]
    BY <1>6, <2>1 DEF ScanLedger, TypeOK
  <2>3. \A v \in Projectors, e \in Envelopes : raw_pairs'[v][e].id \in Hashes
    BY <1>6 DEF ScanLedger, TypeOK, LedgerTypeOK, NoVersion, Hashes
  <2> QED
    BY <1>6, <2>2, <2>3 DEF ScanLedger, TypeOK, LedgerTypeOK, Hashes, Places
<1>7. ASSUME NEW w \in Projectors, ScanNothingNew(w) \/ NothingParses(w) \/ CycleFails(w)
      PROVE  TypeOK'
  <2>1. \E place \in Places : CycleEnds(w, place)
    BY <1>7 DEF ScanNothingNew, NothingParses, CycleFails, AfterZero, Places
  <2>2. faults' \in [FaultKinds -> Nat] /\ UNCHANGED <<tables, trusted>>
    BY <1>0, <1>7 DEF ScanNothingNew, NothingParses, CycleFails, TypeOK
  <2> QED
    BY <2>1, <2>2 DEF CycleEnds, TypeOK, LedgerTypeOK, Hashes, NoPairs, NoVersion, Version
<1>8. ASSUME NEW w \in Projectors, NEW doubted \in SUBSET Envelopes, WriteRows(w, doubted)
      PROVE  TypeOK'
  <2>1. \A e \in Envelopes : RowOf(w, e, doubted) \in Row /\ RowOf(w, e, doubted).id \in Hashes
    BY DEF RowOf, Row, TypeOK, Version, ChainOk
  <2>2. /\ audit_entries' \in [Envelopes -> Row]
        /\ \A e \in Envelopes : audit_entries'[e].id \in Hashes
    BY <1>8, <2>1 DEF WriteRows, InsertRows, TypeOK
  <2>3. audit_conversations' \in
           [Convs -> [entry_count : Nat, has_integrity_issues : BOOLEAN]]
    <3>1. ASSUME NEW c \in Convs
          PROVE  /\ audit_conversations[c].entry_count
                       + Cardinality(RowsOfConv(w, c)) \in Nat
                 /\ audit_conversations[c].has_integrity_issues \in BOOLEAN
      BY RowsFinite DEF TypeOK
    <3> QED
      BY <1>8, <3>1 DEF WriteRows, UpsertConversations
  <2>4. audit_policy_decisions' \in [Envelopes -> Nat]
    BY <1>8 DEF WriteRows, InsertPolicies, TypeOK
  <2>5. audit_checkpoint' \in {Ulid[e] : e \in Envelopes}
    BY <1>8 DEF WriteRows, AdvanceCheckpoint, LastOf, Batch
  <2>6. /\ at' \in [Projectors -> Places]
        /\ checkpoint' \in [Projectors -> {Ulid[e] : e \in Envelopes} \cup {0}]
        /\ raw_pairs' \in [Projectors -> [Envelopes -> Version]]
        /\ \A v \in Projectors, e \in Envelopes : raw_pairs'[v][e].id \in Hashes
    BY <1>8 DEF WriteRows, CycleEnds, TypeOK, LedgerTypeOK, Hashes, Places, NoPairs,
       NoVersion, Version
  <2>7. trusted' \subseteq Envelopes
    BY <1>8 DEF WriteRows, FirstOf, Rows, Batch, TypeOK
  <2>8. faults' \in [FaultKinds -> Nat]
    BY <1>0, <1>8 DEF WriteRows, TypeOK, FaultKinds
  <2>9. /\ LedgerTypeOK' /\ Hashes' = Hashes
        /\ UNCHANGED <<pg_count, status, rebuilds, late>>
    BY <1>8 DEF WriteRows, CycleEnds, TypeOK, LedgerTypeOK, Hashes
  <2> QED
    BY <2>2, <2>3, <2>4, <2>5, <2>6, <2>7, <2>8, <2>9 DEF TypeOK
<1>9. CASE Rebuild
  BY <1>9 DEF Rebuild, TypeOK, LedgerTypeOK, Hashes, Places, NoRow, Row, Projectors
<1>10. CASE CountRows
  <2>1. Cardinality(Projected) \in Nat
    BY BaseFinite, FS_CardinalityType
  <2> QED
    BY <1>10, <2>1 DEF CountRows, TypeOK, LedgerTypeOK, Hashes, Places, Projectors
<1>11. CASE Report
  BY <1>11 DEF Report, TypeOK, LedgerTypeOK, Hashes, Places, Projectors
<1>12. CASE Appending
  BY <1>2, <1>12 DEF Appending
<1> QED
  BY <1>1, <1>3, <1>4, <1>5, <1>6, <1>7, <1>8, <1>9, <1>10, <1>11, <1>12
  DEF Next, Projecting, Cycle

(* A step keeps every row and entry with its own envelope.                 *)
LEMMA NextNamesInv ==
    ASSUME TypeOK, NamesInv, [Next]_vars
    PROVE  NamesInv'
<1>0. Quiet \/ Appends \/ Writes \/ Scans \/ Rebuild
  BY StepKinds
<1> SUFFICES ASSUME NEW e \in Envelopes
             PROVE  /\ Names(ledger[e].id, e)'
                    /\ Names(audit_entries[e].id, e)'
                    /\ \A w \in Projectors : Names(raw_pairs[w][e].id, e)'
  BY DEF NamesInv
<1>1. CASE Quiet
  BY <1>1 DEF Quiet, NamesInv, Names, NoPairs, NoVersion, ledgerVars, tables
<1>2. ASSUME NEW d \in Envelopes, NEW form \in Forms, NEW sealed \in BOOLEAN,
             NEW prev \in Hashes, WriteLedger(d, form, prev, sealed)
      PROVE  /\ Names(ledger[e].id, e)'
             /\ Names(audit_entries[e].id, e)'
             /\ \A w \in Projectors : Names(raw_pairs[w][e].id, e)'
  <2>1. [env |-> d, form |-> form, prev |-> prev] \in Body /\ LedgerTypeOK
    BY DEF Body, Hashes, TypeOK, LedgerTypeOK
  <2>2. /\ \A id \in Hashes, f \in Envelopes : Names(id, f) => Names(id, f)'
        /\ \A f \in Envelopes : Names(ledger[f].id, f)'
    BY <1>2, <2>1, SetEnvelopeKeepsNames DEF WriteLedger, NamesInv
  <2>3. audit_entries[e].id \in Hashes /\ \A w \in Projectors : raw_pairs[w][e].id \in Hashes
    BY DEF TypeOK
  <2>4. audit_entries' = audit_entries /\ raw_pairs' = raw_pairs
    BY <1>2 DEF WriteLedger, tables
  <2> QED
    BY <2>2, <2>3, <2>4 DEF NamesInv, Names
<1>3. ASSUME NEW w \in Projectors, NEW doubted \in SUBSET Envelopes, WriteRows(w, doubted)
      PROVE  /\ Names(ledger[e].id, e)'
             /\ Names(audit_entries[e].id, e)'
             /\ \A v \in Projectors : Names(raw_pairs[v][e].id, e)'
  <2>1. bodies' = bodies /\ ledger' = ledger
    BY <1>3 DEF WriteRows, CycleEnds, ledgerVars
  <2>2. audit_entries'[e].id \in {audit_entries[e].id, raw_pairs[w][e].id}
    BY <1>3 DEF WriteRows, InsertRows, RowOf
  <2>3. \A v \in Projectors : raw_pairs'[v][e].id \in {raw_pairs[v][e].id, 0}
    BY <1>3 DEF WriteRows, CycleEnds, NoPairs, NoVersion, TypeOK
  <2> QED
    BY <2>1, <2>2, <2>3 DEF NamesInv, Names
<1>4. ASSUME NEW w \in Projectors, ScanLedger(w)
      PROVE  /\ Names(ledger[e].id, e)'
             /\ Names(audit_entries[e].id, e)'
             /\ \A v \in Projectors : Names(raw_pairs[v][e].id, e)'
  <2>1. bodies' = bodies /\ ledger' = ledger /\ audit_entries' = audit_entries
    BY <1>4 DEF ScanLedger, ledgerVars, tables
  <2>2. \A v \in Projectors : raw_pairs'[v][e].id \in {raw_pairs[v][e].id, ledger[e].id, 0}
    BY <1>4 DEF ScanLedger, NoVersion, TypeOK
  <2> QED
    BY <2>1, <2>2 DEF NamesInv, Names
<1>5. CASE Rebuild
  BY <1>5 DEF Rebuild, NamesInv, Names, NoRow, ledgerVars
<1> QED
  BY <1>0, <1>1, <1>2, <1>3, <1>4, <1>5 DEF Appends, Writes, Scans

(* A step leaves in a batch only what a scan has shown.                    *)
LEMMA NextBatchInv ==
    ASSUME BaseInv, [Next]_vars
    PROVE  BatchInv'
<1> USE DEF BaseInv
<1>0. Quiet \/ Appends \/ Writes \/ Scans \/ Rebuild
  BY StepKinds
<1>1. CASE Quiet
  BY <1>1 DEF Quiet, BatchInv, Batch, Stored, Projected, NoPairs, NoVersion, ledgerVars, tables
<1>2. ASSUME NEW d \in Envelopes, NEW form \in Forms, NEW sealed \in BOOLEAN,
             NEW prev \in Hashes, WriteLedger(d, form, prev, sealed)
      PROVE  BatchInv'
  <2>1. [env |-> d, form |-> form, prev |-> prev] \in Body /\ LedgerTypeOK
    BY DEF Body, Hashes, TypeOK, LedgerTypeOK
  <2>2. Stored \subseteq Stored'
    BY <1>2, <2>1, SetEnvelopeKeepsNames DEF WriteLedger
  <2> QED
    BY <1>2, <2>2 DEF WriteLedger, BatchInv, Batch, Projected, tables
<1>3. ASSUME NEW w \in Projectors, NEW doubted \in SUBSET Envelopes, WriteRows(w, doubted)
      PROVE  BatchInv'
  <2>1. ledger' = ledger /\ Projected' \subseteq Projected \cup Batch(w)
    BY <1>3 DEF WriteRows, CycleEnds, ledgerVars, InsertRows, Projected, Rows
  <2>2. /\ at'[w] = "idle" /\ Batch(w)' = {}
        /\ \A v \in Projectors \ {w} : at'[v] = at[v] /\ Batch(v)' = Batch(v)
    BY <1>3 DEF WriteRows, CycleEnds, Goto, NoPairs, NoVersion, TypeOK, Batch
  <2> QED
    BY <2>1, <2>2 DEF BatchInv, Stored
<1>4. ASSUME NEW w \in Projectors, ScanLedger(w)
      PROVE  BatchInv'
  <2>1. ledger' = ledger /\ audit_entries' = audit_entries
    BY <1>4 DEF ScanLedger, ledgerVars, tables
  <2>2. /\ at'[w] = "write" /\ Batch(w)' \subseteq NewPairs(w)
        /\ \A v \in Projectors \ {w} : at'[v] = at[v] /\ Batch(v)' = Batch(v)
    BY <1>4 DEF ScanLedger, Goto, NoVersion, TypeOK, Batch
  <2>3. NewPairs(w) \subseteq Stored
    BY DEF NewPairs, Scan
  <2> QED
    BY <2>1, <2>2, <2>3 DEF BatchInv, Stored, Projected
<1>5. CASE Rebuild
  BY <1>5 DEF Rebuild, BatchInv, Batch, Projected, Stored, NoRow, ledgerVars, Goto, TypeOK, Projectors
<1> QED
  BY <1>0, <1>1, <1>2, <1>3, <1>4, <1>5 DEF Appends, Writes, Scans

(* Rows, batches and versions are what they should be, whatever runs       *)
(* beside what.                                                            *)
THEOREM BaseInductive == Spec => []BaseInv
<1>1. Init => BaseInv
  BY InitBaseInv
<1>2. BaseInv /\ [Next]_vars => BaseInv'
  BY NextTypeOK, NextNamesInv, NextBatchInv DEF BaseInv
<1> QED
  BY <1>1, <1>2, PTL DEF Spec

-----------------------------------------------------------------------------
(* The derived tables.                                                     *)

RowsIn(c) == {e \in Projected : ConvOf[e] = c}

(* The transaction adds the rows it writes to the projected ones.          *)
LEMMA WrittenRows ==
    ASSUME BaseInv, NEW w \in Projectors, NEW doubted \in SUBSET Envelopes,
           WriteRows(w, doubted)
    PROVE  /\ Projected' = Projected \cup Rows(w)
           /\ \A c \in Convs : RowsIn(c)' = RowsIn(c) \cup RowsOfConv(w, c)
           /\ \A e \in Projected : audit_entries'[e] = audit_entries[e]
           /\ \A e \in Rows(w) \ Projected : audit_entries'[e] = RowOf(w, e, doubted)
<1>1. Rows(w) \subseteq Envelopes /\ \A e \in Rows(w) : raw_pairs[w][e].id # 0
  BY DEF Rows, Batch
<1>2. audit_entries' = [e \in Envelopes |->
          IF e \in Rows(w) \ Projected THEN RowOf(w, e, doubted) ELSE audit_entries[e]]
  BY DEF WriteRows, InsertRows
<1>3. \A e \in Envelopes : RowOf(w, e, doubted).id = raw_pairs[w][e].id
  BY DEF RowOf
<1>4. Projected' = Projected \cup Rows(w)
  BY <1>1, <1>2, <1>3 DEF Projected
<1> QED
  BY <1>1, <1>2, <1>4 DEF RowsIn, RowsOfConv, Projected

(* The derived tables agree with no rows.                                  *)
LEMMA InitDerived == Init => DerivedTablesAgree
<1> SUFFICES ASSUME Init PROVE DerivedTablesAgree
  OBVIOUS
<1>1. Projected = {}
  BY DEF Init, NoRow, Projected
<1>2. \A c \in Convs : {e \in Projected : ConvOf[e] = c} = {}
  BY <1>1
<1>3. Cardinality({}) = 0
  BY FS_EmptySet
<1> QED
  BY <1>1, <1>2, <1>3 DEF Init, DerivedTablesAgree, DerivedTablesCover, IssuesSurface

(* A step that adds rows adds to the derived tables what they call for.    *)
LEMMA NextDerived ==
    ASSUME BaseInv, DerivedTablesAgree, [Next]_vars
    PROVE  DerivedTablesAgree'
<1> USE DEF BaseInv
<1>0. Quiet \/ Appends \/ Writes \/ Scans \/ Rebuild
  BY StepKinds
<1>1. ASSUME UNCHANGED tables PROVE DerivedTablesAgree'
  BY <1>1 DEF DerivedTablesAgree, DerivedTablesCover, IssuesSurface, Projected, tables
<1>2. CASE Quiet \/ Appends \/ Scans
  BY <1>1, <1>2 DEF Quiet, Appends, WriteLedger, Scans, ScanLedger, tables
<1>3. ASSUME NEW w \in Projectors, NEW doubted \in SUBSET Envelopes, WriteRows(w, doubted)
      PROVE  DerivedTablesAgree'
  <2>1. /\ Projected' = Projected \cup Rows(w)
        /\ \A c \in Convs : RowsIn(c)' = RowsIn(c) \cup RowsOfConv(w, c)
        /\ \A e \in Projected : audit_entries'[e] = audit_entries[e]
        /\ \A e \in Rows(w) \ Projected : audit_entries'[e] = RowOf(w, e, doubted)
    BY <1>3, WrittenRows
  <2>2. audit_conversations' = [c \in Convs |->
           [entry_count |-> audit_conversations[c].entry_count
                               + Cardinality(RowsOfConv(w, c)),
            has_integrity_issues |->
               \/ audit_conversations[c].has_integrity_issues
               \/ \E e \in RowsOfConv(w, c) : HasIssues(RowOf(w, e, doubted))]]
    BY <1>3 DEF WriteRows, UpsertConversations
  <2>3. ASSUME NEW c \in Convs
        PROVE  audit_conversations'[c].entry_count >= Cardinality(RowsIn(c)')
    <3>1. IsFiniteSet(RowsIn(c)) /\ IsFiniteSet(RowsOfConv(w, c))
      BY BaseFinite, RowsFinite, FS_Subset DEF RowsIn
    <3>2. /\ Cardinality(RowsIn(c) \cup RowsOfConv(w, c)) =
                Cardinality(RowsIn(c)) + Cardinality(RowsOfConv(w, c))
                - Cardinality(RowsIn(c) \cap RowsOfConv(w, c))
          /\ IsFiniteSet(RowsIn(c) \cap RowsOfConv(w, c))
      BY <3>1, FS_Union, FS_Intersection
    <3>3. /\ Cardinality(RowsIn(c)) \in Nat
          /\ Cardinality(RowsOfConv(w, c)) \in Nat
          /\ Cardinality(RowsIn(c) \cap RowsOfConv(w, c)) \in Nat
      BY <3>1, <3>2, FS_CardinalityType
    <3>4. /\ audit_conversations[c].entry_count >= Cardinality(RowsIn(c))
          /\ audit_conversations[c].entry_count \in Nat
      BY DEF DerivedTablesAgree, DerivedTablesCover, RowsIn, TypeOK
    <3>5. audit_conversations'[c].entry_count =
             audit_conversations[c].entry_count + Cardinality(RowsOfConv(w, c))
      BY <2>2
    <3>6. RowsIn(c)' = RowsIn(c) \cup RowsOfConv(w, c)
      BY <2>1
    <3> QED
      BY <3>2, <3>3, <3>4, <3>5, <3>6
  <2>4. ASSUME NEW e \in (Projected' \cap Policied)
        PROVE  audit_policy_decisions'[e] >= 1
    <3>1. /\ e \in Envelopes
          /\ audit_policy_decisions[e] \in Nat
          /\ audit_policy_decisions'[e] = audit_policy_decisions[e]
                 + IF e \in Rows(w) \cap Policied THEN 1 ELSE 0
      BY <1>3, ProjectorAssumption DEF WriteRows, InsertPolicies, TypeOK
    <3>2. CASE e \in Rows(w)
      BY <3>1, <3>2
    <3>3. CASE e \in Projected
      BY <3>1, <3>3 DEF DerivedTablesAgree, DerivedTablesCover
    <3> QED
      BY <2>1, <3>2, <3>3
  <2>5. ASSUME NEW e \in Projected', HasIssues(audit_entries'[e]), ConvOf[e] # NoConv
        PROVE  audit_conversations'[ConvOf[e]].has_integrity_issues
    <3>1. e \in Envelopes /\ ConvOf[e] \in Convs
      BY <2>5, ProjectorAssumption DEF Projected
    <3>2. CASE e \in Projected
      <4>1. audit_conversations[ConvOf[e]].has_integrity_issues
        BY <2>1, <2>5, <3>2 DEF DerivedTablesAgree, IssuesSurface
      <4> QED
        BY <2>2, <3>1, <4>1
    <3>3. CASE e \in Rows(w) \ Projected
      <4>1. e \in RowsOfConv(w, ConvOf[e])
        BY <3>3 DEF RowsOfConv
      <4>2. HasIssues(RowOf(w, e, doubted))
        BY <2>1, <2>5, <3>3
      <4> QED
        BY <2>2, <3>1, <4>1, <4>2
    <3> QED
      BY <2>1, <3>2, <3>3
  <2> QED
    BY <2>3, <2>4, <2>5 DEF DerivedTablesAgree, DerivedTablesCover, IssuesSurface, RowsIn
<1>4. CASE Rebuild
  <2>1. Projected' = {}
    BY <1>4 DEF Rebuild, NoRow, Projected
  <2>2. \A c \in Convs : {e \in Projected' : ConvOf[e] = c} = {}
    BY <2>1
  <2>3. Cardinality({}) = 0
    BY FS_EmptySet
  <2> QED
    BY <1>4, <2>1, <2>2, <2>3
    DEF Rebuild, DerivedTablesAgree, DerivedTablesCover, IssuesSurface
<1> QED
  BY <1>0, <1>2, <1>3, <1>4 DEF Writes

(* Whichever of two projectors writes, and whatever fails or is rebuilt,   *)
(* no row is missing from the tables derived from it and no flag on a row  *)
(* is lost on its conversation.                                            *)
THEOREM DerivedTablesNeverBehind == Spec => []DerivedTablesAgree
<1>1. Init => DerivedTablesAgree
  BY InitDerived
<1>2. BaseInv /\ DerivedTablesAgree /\ [Next]_vars => DerivedTablesAgree'
  BY NextDerived
<1> QED
  BY <1>1, <1>2, BaseInductive, PTL DEF Spec

-----------------------------------------------------------------------------
(* The verdict of a rebuild.                                               *)

(* Until its verdict, a rebuild's count stands and no row goes: the only   *)
(* step that deletes rows is a rebuild, and there is one command.          *)
LEMMA ReportPending ==
    ASSUME BaseInv, [Next]_vars, at'["cli"] = "report"
    PROVE  \/ CountRows
           \/ at["cli"] = "report" /\ pg_count' = pg_count /\ Projected \subseteq Projected'
<1> USE DEF BaseInv, vars, tables, Goto
<1>1. at \in [Projectors -> Places] /\ "cli" \in Projectors /\ "core" \in Projectors
  BY DEF TypeOK, Projectors
<1>2. ASSUME NEW w \in Projectors, NEW doubted \in SUBSET Envelopes, WriteRows(w, doubted)
      PROVE  at["cli"] = "report" /\ pg_count' = pg_count /\ Projected \subseteq Projected'
  BY <1>1, <1>2, WrittenRows DEF WriteRows, CycleEnds
<1>3. ASSUME NEW w \in Projectors,
             \/ FetchCheckpoint(w) \/ ScanLedger(w) \/ ScanNothingNew(w)
             \/ NothingParses(w) \/ CycleFails(w)
      PROVE  at["cli"] = "report" /\ pg_count' = pg_count /\ Projected \subseteq Projected'
  BY <1>1, <1>3 DEF FetchCheckpoint, ScanLedger, ScanNothingNew, NothingParses, CycleFails,
     CycleEnds, AfterZero, Projected
<1>4. ASSUME NEW w \in Projectors, Crash(w)
      PROVE  at["cli"] = "report" /\ pg_count' = pg_count /\ Projected \subseteq Projected'
  BY <1>1, <1>4 DEF Crash, Projected
<1>5. CASE Start \/ StartDeaf \/ UNCHANGED vars
  BY <1>1, <1>5 DEF Start, StartDeaf, Projected
<1>6. CASE Appending
  BY <1>1, <1>6 DEF Appending, WriteLedger, Projected
<1>7. ~ Rebuild /\ ~ Report
  BY <1>1 DEF Rebuild, Report
<1> QED
  BY <1>2, <1>3, <1>4, <1>5, <1>6, <1>7 DEF Next, Projecting, Cycle

(* A step leaves the rebuild's counts true to what was counted.            *)
LEMMA NextCountInv ==
    ASSUME BaseInv, CountInv, FiniteRows', [Next]_vars
    PROVE  CountInv'
<1> SUFFICES ASSUME at'["cli"] = "report"
             PROVE  pg_count' <= Cardinality(Projected')
  BY DEF CountInv
<1>1. CASE CountRows
  <2>1. pg_count' = Cardinality(Projected) /\ Projected' = Projected
    BY <1>1 DEF CountRows, Projected, tables
  <2>2. Cardinality(Projected) \in Nat
    BY BaseFinite, FS_CardinalityType DEF BaseInv
  <2> QED
    BY <2>1, <2>2
<1>2. CASE at["cli"] = "report" /\ pg_count' = pg_count /\ Projected \subseteq Projected'
  <2>2. IsFiniteSet(Projected')
    BY DEF FiniteRows
  <2>3. /\ Cardinality(Projected) <= Cardinality(Projected')
        /\ Cardinality(Projected) \in Nat /\ Cardinality(Projected') \in Nat
    BY <1>2, <2>2, FS_Subset, FS_CardinalityType
  <2>4. pg_count <= Cardinality(Projected) /\ pg_count \in Nat
    BY <1>2 DEF CountInv, BaseInv, TypeOK
  <2> QED
    BY <1>2, <2>3, <2>4
<1> QED
  BY <1>1, <1>2, ReportPending

(* When a rebuild reports that the rows match immudb, every key has its    *)
(* row (up to the cap on a scan), whatever core wrote between the two      *)
(* counts.                                                                 *)
THEOREM MatchTrue == Spec => MatchIsTrue
<1>1. Init => CountInv
  BY DEF Init, CountInv, Projectors
<1>2. BaseInv => FiniteRows
  BY BaseFinite DEF BaseInv, FiniteRows
<1>3. BaseInv /\ CountInv /\ FiniteRows' /\ [Next]_vars => CountInv'
  BY NextCountInv
<1>4. ASSUME BaseInv, CountInv, Report, status' = "match",
             Cardinality(Stored) <= ScanLimit
      PROVE  Projected = Stored
  <2>1. IsFiniteSet(Stored) /\ Projected \subseteq Stored
    BY <1>4, BaseFinite DEF BaseInv, BatchInv
  <2>2. Scan = Stored
    BY <1>4, <2>1, ScanFacts
  <2>3. Cardinality(Stored) <= Cardinality(Projected)
    BY <1>4, <2>2 DEF Report, CountInv
  <2>4. /\ Cardinality(Projected) <= Cardinality(Stored)
        /\ Cardinality(Stored) = Cardinality(Projected) => Stored = Projected
        /\ Cardinality(Projected) \in Nat /\ Cardinality(Stored) \in Nat
    BY <2>1, FS_Subset, FS_CardinalityType
  <2> QED
    BY <2>3, <2>4
<1>5. BaseInv /\ CountInv /\ [Next]_vars
      => [Report /\ status' = "match" /\ Cardinality(Stored) <= ScanLimit
          => Projected = Stored]_vars
  BY <1>4
<1> QED
  BY <1>1, <1>2, <1>3, <1>5, BaseInductive, PTL DEF Spec, MatchIsTrue

-----------------------------------------------------------------------------
(* When a rebuild runs only while core is stopped.                         *)

(* One projector has a process.                                            *)
OneUp == at["core"] = "down" \/ at["cli"] = "down"

(* The cursor is at a stored key.                                          *)
CheckpointInv == audit_checkpoint # 0 => \E f \in Stored : Ulid[f] = audit_checkpoint

(* A batch in hand has no gap: what it lacks up to any of its keys came    *)
(* late.                                                                   *)
NoGap ==
    \A w \in Projectors : at[w] = "write" =>
        \A e \in Stored, f \in Batch(w) :
            audit_checkpoint < Ulid[e] /\ Ulid[e] <= Ulid[f] => e \in Batch(w) \cup late

PassInv == OneUp /\ CheckpointInv /\ CursorInv /\ NoGap /\ SkippedIsLate

(* While one projector is up the other has nothing in hand.                *)
LEMMA Solo ==
    ASSUME TypeOK, BatchInv, OneUp, NEW w \in Projectors, at[w] # "down"
    PROVE  \A v \in Projectors \ {w} : at[v] = "down" /\ Batch(v) = {}
  BY DEF OneUp, Projectors, BatchInv

(* ULIDs are positive and distinct.                                        *)
LEMMA UlidFacts ==
    /\ \A e \in Envelopes : Ulid[e] \in Nat /\ Ulid[e] > 0
    /\ \A e, f \in Envelopes : Ulid[e] = Ulid[f] => e = f
  BY LedgerAssumption, ProjectorAssumption

(* The invariant of one projector at a time holds initially.               *)
LEMMA InitPassInv == Init => PassInv
<1> SUFFICES ASSUME Init PROVE PassInv
  OBVIOUS
<1>1. Stored = {} /\ Projected = {} /\ \A w \in Projectors : Batch(w) = {}
  BY DEF Init, LedgerInit, NoVersion, NoPairs, NoRow, Stored, Projected, Batch
<1> QED
  BY <1>1 DEF Init, PassInv, OneUp, CheckpointInv, CursorInv, NoGap, SkippedIsLate, Projectors

(* A step starts no second projector when the rebuild needs core down.     *)
LEMMA NextOneUp ==
    ASSUME ~ BesideCore, TypeOK, OneUp, [Next]_vars
    PROVE  OneUp'
<1> USE DEF OneUp, Goto, Projectors
<1>1. at \in [Projectors -> Places]
  BY DEF TypeOK
<1>2. CASE Start \/ StartDeaf \/ Rebuild
  BY <1>1, <1>2 DEF Start, StartDeaf, Rebuild
<1>3. CASE CountRows \/ Report \/ Appending \/ UNCHANGED vars
  BY <1>1, <1>3 DEF CountRows, Report, Appending, WriteLedger, vars
<1>4. ASSUME NEW w \in Projectors, Cycle(w) \/ Crash(w) PROVE OneUp'
  <2>1. at[w] # "down" /\ \E place \in Places : Goto(w, place)
    BY <1>4 DEF Cycle, Crash, FetchCheckpoint, ScanLedger, ScanNothingNew, NothingParses,
       WriteRows, CycleFails, CycleEnds, AfterZero, Places
  <2> QED
    BY <1>1, <2>1
<1> QED
  BY <1>2, <1>3, <1>4 DEF Next, Projecting

(* What a scan takes is new, and leaves out nothing before its last key.   *)
LEMMA ScanTakes ==
    ASSUME BaseInv, PassInv, NEW w \in Projectors, ScanLedger(w)
    PROVE  /\ Batch(w)' = {e \in Scan : Ulid[e] > audit_checkpoint}
           /\ \A v \in Projectors \ {w} : Batch(v)' = Batch(v) /\ at'[v] = at[v]
           /\ at'[w] = "write"
           /\ UNCHANGED <<ledgerVars, tables, trusted, late, checkpoint, pg_count>>
<1>1. checkpoint[w] = audit_checkpoint
  BY DEF ScanLedger, PassInv, CursorInv
<1>2. Scan \subseteq Envelopes /\ \A e \in Scan : ledger[e].id # 0
  BY DEF Scan, Stored
<1>3. raw_pairs'[w] = [e \in Envelopes |->
                          IF e \in NewPairs(w) THEN ledger[e] ELSE NoVersion]
  BY DEF ScanLedger, BaseInv, TypeOK
<1>4. Batch(w)' = {e \in Scan : Ulid[e] > audit_checkpoint}
  BY <1>1, <1>2, <1>3 DEF Batch, NewPairs, NoVersion
<1>5. \A v \in Projectors \ {w} : Batch(v)' = Batch(v) /\ at'[v] = at[v]
  BY DEF ScanLedger, BaseInv, TypeOK, Batch, Goto
<1> QED
  BY <1>4, <1>5 DEF ScanLedger, BaseInv, TypeOK, Goto, histories

(* A step that changes neither the ledger nor the tables keeps the rest.   *)
LEMMA QuietPass ==
    ASSUME BaseInv, PassInv, Quiet
    PROVE  CheckpointInv' /\ CursorInv' /\ NoGap' /\ SkippedIsLate'
<1>1. /\ Stored' = Stored /\ Projected' = Projected
      /\ audit_checkpoint' = audit_checkpoint /\ late' = late
  BY DEF Quiet, ledgerVars, tables, Stored, Projected
<1>2. \A w \in Projectors :
         \/ Batch(w)' = Batch(w) /\ (at'[w] = "write" <=> at[w] = "write")
         \/ Batch(w)' = {} /\ at'[w] # "write"
  BY DEF Quiet, Batch, NoPairs, NoVersion
<1>3. CheckpointInv' /\ SkippedIsLate'
  BY <1>1 DEF PassInv, CheckpointInv, SkippedIsLate
<1>4. CursorInv'
  BY <1>1, <1>2 DEF PassInv, CursorInv, Quiet
<1>5. NoGap'
  BY <1>1, <1>2 DEF PassInv, NoGap
<1> QED
  BY <1>3, <1>4, <1>5

(* An envelope that is stored below the cursor, or inside a batch in hand, *)
(* is late: a greater key is stored already.                               *)
LEMMA AppendPass ==
    ASSUME BaseInv, PassInv, NEW d \in Envelopes, NEW form \in Forms, NEW sealed \in BOOLEAN,
           NEW prev \in Hashes, WriteLedger(d, form, prev, sealed)
    PROVE  CheckpointInv' /\ CursorInv' /\ NoGap' /\ SkippedIsLate'
<1>1. [env |-> d, form |-> form, prev |-> prev] \in Body /\ LedgerTypeOK
  BY DEF BaseInv, Body, Hashes, TypeOK, LedgerTypeOK
<1>2. Stored' = Stored \cup {d}
  BY <1>1, SetEnvelopeKeepsNames DEF WriteLedger
<1>3. /\ Projected' = Projected /\ audit_checkpoint' = audit_checkpoint
      /\ at' = at /\ checkpoint' = checkpoint
      /\ \A w \in Projectors : Batch(w)' = Batch(w)
  BY DEF WriteLedger, tables, Projected, Batch
<1>4. /\ late \subseteq late'
      /\ d \notin Stored /\ (\E f \in Stored : Ulid[f] > Ulid[d]) => d \in late'
  BY DEF WriteLedger, NoteLate
<1>5. Stored \subseteq Envelopes
  BY DEF Stored
<1>6. CheckpointInv' /\ CursorInv'
  BY <1>2, <1>3 DEF PassInv, CheckpointInv, CursorInv
<1>7. NoGap'
  <2> SUFFICES ASSUME NEW w \in Projectors, at'[w] = "write", NEW e \in Stored',
                      NEW f \in Batch(w), audit_checkpoint < Ulid[e], Ulid[e] <= Ulid[f]
               PROVE  e \in Batch(w) \cup late'
    BY <1>3 DEF NoGap
  <2>1. f \in Stored
    BY DEF BaseInv, BatchInv
  <2>2. CASE e \in Stored
    BY <1>3, <1>4, <2>2 DEF PassInv, NoGap
  <2>3. CASE e \notin Stored
    <3>1. e = d /\ e # f
      BY <1>2, <2>1, <2>3
    <3>2. Ulid[f] > Ulid[d]
      BY <1>5, <2>1, <3>1, UlidFacts
    <3> QED
      BY <1>4, <2>1, <2>3, <3>1, <3>2
  <2> QED
    BY <2>2, <2>3
<1>8. SkippedIsLate'
  <2> SUFFICES ASSUME NEW e \in Stored', Ulid[e] <= audit_checkpoint
               PROVE  e \in Projected \cup Corrupt \cup late'
    BY <1>3 DEF SkippedIsLate
  <2>1. CASE e \in Stored
    BY <1>4, <2>1 DEF PassInv, SkippedIsLate
  <2>2. CASE e \notin Stored
    <3>1. e = d /\ audit_checkpoint # 0
      BY <1>2, <2>2, UlidFacts
    <3>2. PICK f \in Stored : Ulid[f] = audit_checkpoint
      BY <3>1 DEF PassInv, CheckpointInv
    <3>3. Ulid[f] > Ulid[d]
      BY <1>5, <2>2, <3>1, <3>2, UlidFacts
    <3> QED
      BY <1>4, <2>2, <3>1, <3>3
  <2> QED
    BY <2>1, <2>2
<1> QED
  BY <1>6, <1>7, <1>8

(* A scan takes all there is from the checkpoint to its last key.          *)
LEMMA ScanPass ==
    ASSUME BaseInv, PassInv, NEW w \in Projectors, ScanLedger(w)
    PROVE  CheckpointInv' /\ CursorInv' /\ NoGap' /\ SkippedIsLate'
<1>1. /\ Batch(w)' = {e \in Scan : Ulid[e] > audit_checkpoint}
      /\ \A v \in Projectors \ {w} : Batch(v)' = Batch(v) /\ at'[v] = at[v]
      /\ at'[w] = "write"
      /\ UNCHANGED <<ledgerVars, tables, trusted, late, checkpoint, pg_count>>
  BY ScanTakes
<1>2. /\ Stored' = Stored /\ Projected' = Projected
      /\ audit_checkpoint' = audit_checkpoint /\ late' = late /\ checkpoint' = checkpoint
  BY <1>1 DEF ledgerVars, tables, Stored, Projected
<1>3. CheckpointInv' /\ SkippedIsLate'
  BY <1>2 DEF PassInv, CheckpointInv, SkippedIsLate
<1>4. CursorInv'
  BY <1>1, <1>2 DEF PassInv, CursorInv
<1>5. \A f \in Scan, e \in Stored : Ulid[e] <= Ulid[f] => e \in Scan
  BY BaseFinite, ScanFacts DEF BaseInv
<1>6. NoGap'
  <2> SUFFICES ASSUME NEW v \in Projectors, at'[v] = "write", NEW e \in Stored,
                      NEW f \in Batch(v)', audit_checkpoint < Ulid[e], Ulid[e] <= Ulid[f]
               PROVE  e \in Batch(v)' \cup late
    BY <1>2 DEF NoGap
  <2>1. CASE v = w
    <3>1. e \in Scan
      BY <1>1, <1>5, <2>1
    <3> QED
      BY <1>1, <2>1, <3>1, UlidFacts DEF Scan, Stored, BaseInv, TypeOK
  <2>2. CASE v # w
    BY <1>1, <2>2 DEF PassInv, NoGap
  <2> QED
    BY <2>1, <2>2
<1> QED
  BY <1>3, <1>4, <1>6

(* The transaction of the only projector moves the cursor to the last key  *)
(* of its batch: behind it are the rows, and no batch is left in hand.     *)
LEMMA WriteMoves ==
    ASSUME BaseInv, PassInv, NEW w \in Projectors, NEW doubted \in SUBSET Envelopes,
           WriteRows(w, doubted)
    PROVE  /\ audit_checkpoint' \in Nat /\ audit_checkpoint \in Nat
           /\ audit_checkpoint' > audit_checkpoint
           /\ \E l \in Batch(w) : Ulid[l] = audit_checkpoint'
           /\ \A e \in Batch(w) : /\ Ulid[e] > audit_checkpoint
                                  /\ Ulid[e] <= audit_checkpoint'
           /\ \A v \in Projectors : Batch(v)' = {}
           /\ at'[w] = "idle"
           /\ \A v \in Projectors \ {w} : at[v] = "down" /\ at'[v] = "down"
           /\ UNCHANGED <<ledgerVars, late>>
<1>1. at[w] = "write" /\ at' = [at EXCEPT ![w] = "idle"]
  BY DEF WriteRows, CycleEnds, Goto
<1>2. \A v \in Projectors \ {w} : at[v] = "down" /\ Batch(v) = {}
  BY <1>1, Solo DEF BaseInv, PassInv
<1>3. PICK l \in LastOf(Batch(w)) : audit_checkpoint' = Ulid[l]
  BY DEF WriteRows, AdvanceCheckpoint
<1>4. \A e \in Batch(w) : e \in Envelopes /\ Ulid[e] > audit_checkpoint
  BY DEF PassInv, CursorInv, Batch
<1>5. l \in Batch(w) /\ \A e \in Batch(w) : Ulid[e] <= Ulid[l]
  BY <1>3 DEF LastOf
<1>6. audit_checkpoint \in Nat
  BY UlidFacts DEF BaseInv, TypeOK
<1>7. \A v \in Projectors : Batch(v)' = {}
  BY <1>2 DEF WriteRows, CycleEnds, Batch, NoPairs, NoVersion, BaseInv, TypeOK
<1>8. at'[w] = "idle" /\ \A v \in Projectors \ {w} : at'[v] = "down"
  BY <1>1, <1>2 DEF BaseInv, TypeOK
<1>9. UNCHANGED <<ledgerVars, late>>
  BY DEF WriteRows, CycleEnds
<1> QED
  BY <1>2, <1>3, <1>4, <1>5, <1>6, <1>7, <1>8, <1>9, UlidFacts

(* Writing the batch moves rows and checkpoint on together.                *)
LEMMA WritePass ==
    ASSUME BaseInv, PassInv, NEW w \in Projectors, NEW doubted \in SUBSET Envelopes,
           WriteRows(w, doubted)
    PROVE  CheckpointInv' /\ CursorInv' /\ NoGap' /\ SkippedIsLate'
<1>1. /\ audit_checkpoint' \in Nat /\ audit_checkpoint \in Nat
      /\ audit_checkpoint' > audit_checkpoint
      /\ \E l \in Batch(w) : Ulid[l] = audit_checkpoint'
      /\ \A e \in Batch(w) : /\ Ulid[e] > audit_checkpoint
                             /\ Ulid[e] <= audit_checkpoint'
      /\ \A v \in Projectors : Batch(v)' = {}
      /\ at'[w] = "idle"
      /\ \A v \in Projectors \ {w} : at'[v] = "down"
      /\ UNCHANGED <<ledgerVars, late>>
  BY WriteMoves
<1>2. Projected' = Projected \cup Rows(w) /\ Rows(w) = Batch(w) \ Corrupt
  BY WrittenRows DEF Rows
<1>3. Stored' = Stored /\ Batch(w) \subseteq Stored /\ Stored \subseteq Envelopes
  BY <1>1 DEF ledgerVars, Stored, BaseInv, BatchInv
<1>4. CheckpointInv'
  BY <1>1, <1>3 DEF CheckpointInv
<1>5. CursorInv'
  <2>1. \A e \in Projected' : Ulid[e] <= audit_checkpoint'
    BY <1>1, <1>2, UlidFacts DEF PassInv, CursorInv, Projected
  <2>2. \A v \in Projectors : at'[v] # "scan"
    BY <1>1
  <2> QED
    BY <1>1, <2>1, <2>2 DEF CursorInv
<1>6. NoGap'
  BY <1>1 DEF NoGap
<1>7. SkippedIsLate'
  <2> SUFFICES ASSUME NEW e \in Stored, Ulid[e] <= audit_checkpoint'
               PROVE  e \in Projected' \cup Corrupt \cup late
    BY <1>1, <1>3 DEF SkippedIsLate
  <2>1. CASE Ulid[e] <= audit_checkpoint
    BY <1>2, <2>1 DEF PassInv, SkippedIsLate
  <2>2. CASE Ulid[e] > audit_checkpoint
    <3>1. PICK l \in Batch(w) : Ulid[l] = audit_checkpoint'
      BY <1>1
    <3>2. at[w] = "write"
      BY DEF WriteRows
    <3>3. e \in Batch(w) \cup late
      BY <2>2, <3>1, <3>2 DEF PassInv, NoGap
    <3> QED
      BY <1>2, <3>3
  <2> QED
    BY <1>1, <1>3, <2>1, <2>2, UlidFacts
<1> QED
  BY <1>4, <1>5, <1>6, <1>7

(* A rebuild starts from nothing, and no other projector has a batch.      *)
LEMMA RebuildPass ==
    ASSUME ~ BesideCore, BaseInv, PassInv, Rebuild
    PROVE  CheckpointInv' /\ CursorInv' /\ NoGap' /\ SkippedIsLate'
<1>1. /\ at["cli"] = "down" /\ at["core"] = "down"
      /\ at' = [at EXCEPT !["cli"] = "idle"]
      /\ audit_checkpoint' = 0 /\ Projected' = {}
      /\ UNCHANGED <<ledgerVars, raw_pairs>>
  BY DEF Rebuild, Goto, Projected, NoRow
<1>2. \A v \in Projectors : Batch(v)' = {} /\ at'[v] # "scan" /\ at'[v] # "write"
  BY <1>1 DEF Projectors, Batch, BaseInv, BatchInv, TypeOK
<1>3. \A e \in Stored' : ~ (Ulid[e] <= 0)
  BY UlidFacts DEF Stored
<1> QED
  BY <1>1, <1>2, <1>3 DEF CheckpointInv, CursorInv, NoGap, SkippedIsLate

(* A step keeps the invariant of one projector at a time.                  *)
LEMMA NextPassInv ==
    ASSUME ~ BesideCore, BaseInv, PassInv, [Next]_vars
    PROVE  PassInv'
<1>1. OneUp'
  BY NextOneUp DEF BaseInv, PassInv
<1>2. Quiet \/ Appends \/ Writes \/ Scans \/ Rebuild
  BY StepKinds DEF BaseInv
<1>3. CheckpointInv' /\ CursorInv' /\ NoGap' /\ SkippedIsLate'
  BY <1>2, QuietPass, AppendPass, ScanPass, WritePass, RebuildPass
  DEF Appends, Writes, Scans
<1> QED
  BY <1>1, <1>3 DEF PassInv

(* What a transaction inserts was not there: the rows are behind the       *)
(* cursor and the batch is after it.                                       *)
LEMMA RowsAreNew ==
    ASSUME BaseInv, PassInv, NEW w \in Projectors
    PROVE  Rows(w) \cap Projected = {}
<1>1. /\ \A e \in Projected : Ulid[e] <= audit_checkpoint
      /\ \A e \in Batch(w) : e \in Envelopes /\ Ulid[e] > audit_checkpoint
  BY DEF PassInv, CursorInv, Batch
<1>2. audit_checkpoint \in Nat
  BY UlidFacts DEF BaseInv, TypeOK
<1> QED
  BY <1>1, <1>2, UlidFacts DEF Rows

(* Nothing has been processed initially.                                   *)
LEMMA InitProcessedOnce == Init => ProcessedOnce
<1> SUFFICES ASSUME Init PROVE ProcessedOnce
  OBVIOUS
<1>1. Projected = {}
  BY DEF Init, NoRow, Projected
<1>2. \A c \in Convs : {e \in Projected : ConvOf[e] = c} = {}
  BY <1>1
<1>3. Cardinality({}) = 0
  BY FS_EmptySet
<1> QED
  BY <1>1, <1>2, <1>3 DEF Init, ProcessedOnce

(* A step processes no entry a second time.                                *)
LEMMA NextProcessedOnce ==
    ASSUME BaseInv, PassInv, ProcessedOnce, [Next]_vars
    PROVE  ProcessedOnce'
<1>0. Quiet \/ Appends \/ Writes \/ Scans \/ Rebuild
  BY StepKinds DEF BaseInv
<1>1. ASSUME UNCHANGED tables PROVE ProcessedOnce'
  BY <1>1 DEF ProcessedOnce, Projected, tables
<1>2. CASE Quiet \/ Appends \/ Scans
  BY <1>1, <1>2 DEF Quiet, Appends, WriteLedger, Scans, ScanLedger, tables
<1>3. ASSUME NEW w \in Projectors, NEW doubted \in SUBSET Envelopes, WriteRows(w, doubted)
      PROVE  ProcessedOnce'
  <2>1. /\ Projected' = Projected \cup Rows(w)
        /\ \A c \in Convs : RowsIn(c)' = RowsIn(c) \cup RowsOfConv(w, c)
    BY <1>3, WrittenRows
  <2>2. Rows(w) \cap Projected = {}
    BY RowsAreNew
  <2>3. ASSUME NEW c \in Convs
        PROVE  audit_conversations'[c].entry_count = Cardinality(RowsIn(c)')
    <3>1. IsFiniteSet(RowsIn(c)) /\ IsFiniteSet(RowsOfConv(w, c))
      BY BaseFinite, RowsFinite, FS_Subset DEF RowsIn, BaseInv
    <3>2. RowsIn(c) \cap RowsOfConv(w, c) = {}
      BY <2>2 DEF RowsIn, RowsOfConv
    <3>3. Cardinality(RowsIn(c) \cup RowsOfConv(w, c)) =
             Cardinality(RowsIn(c)) + Cardinality(RowsOfConv(w, c)) - Cardinality({})
      BY <3>1, <3>2, FS_Union
    <3>4. /\ Cardinality({}) = 0
          /\ Cardinality(RowsIn(c)) \in Nat /\ Cardinality(RowsOfConv(w, c)) \in Nat
      BY <3>1, FS_EmptySet, FS_CardinalityType
    <3>5. audit_conversations'[c].entry_count =
             audit_conversations[c].entry_count + Cardinality(RowsOfConv(w, c))
      BY <1>3 DEF WriteRows, UpsertConversations
    <3>6. audit_conversations[c].entry_count = Cardinality(RowsIn(c))
      BY DEF ProcessedOnce, RowsIn
    <3>7. RowsIn(c)' = RowsIn(c) \cup RowsOfConv(w, c)
      BY <2>1
    <3> QED
      BY <3>3, <3>4, <3>5, <3>6, <3>7
  <2>4. ASSUME NEW e \in Envelopes
        PROVE  audit_policy_decisions'[e] = IF e \in Projected' \cap Policied THEN 1 ELSE 0
    <3>1. audit_policy_decisions'[e] =
             audit_policy_decisions[e] + IF e \in Rows(w) \cap Policied THEN 1 ELSE 0
      BY <1>3 DEF WriteRows, InsertPolicies
    <3>2. audit_policy_decisions[e] = IF e \in Projected \cap Policied THEN 1 ELSE 0
      BY DEF ProcessedOnce
    <3> QED
      BY <2>1, <2>2, <3>1, <3>2
  <2> QED
    BY <2>3, <2>4 DEF ProcessedOnce, RowsIn
<1>4. CASE Rebuild
  <2>1. Projected' = {}
    BY <1>4 DEF Rebuild, NoRow, Projected
  <2>2. \A c \in Convs : {e \in Projected' : ConvOf[e] = c} = {}
    BY <2>1
  <2>3. Cardinality({}) = 0
    BY FS_EmptySet
  <2> QED
    BY <1>4, <2>1, <2>2, <2>3 DEF Rebuild, ProcessedOnce
<1> QED
  BY <1>0, <1>2, <1>3, <1>4 DEF Writes

(* When a rebuild runs only while core is stopped, restarts, rollbacks and *)
(* rebuilds leave neither a repeat nor a gap in the tables.                *)
THEOREM NoRepeatNoGap ==
    ASSUME ~ BesideCore
    PROVE  Spec => []ProjectorInv
<1>1. Init => PassInv /\ ProcessedOnce
  BY InitPassInv, InitProcessedOnce
<1>2. BaseInv /\ PassInv /\ ProcessedOnce /\ [Next]_vars => PassInv' /\ ProcessedOnce'
  BY NextPassInv, NextProcessedOnce
<1>3. BaseInv /\ PassInv /\ ProcessedOnce => ProjectorInv
  BY DEF BaseInv, PassInv, ProjectorInv
<1> QED
  BY <1>1, <1>2, <1>3, BaseInductive, PTL DEF Spec

-----------------------------------------------------------------------------
(* The verdict on the chain.                                               *)

(* The row before an old row is the one it was; the row before a new one   *)
(* is in its batch, unless it is the first.                                *)
LEMMA WhoIsBefore ==
    ASSUME BaseInv, PassInv, NEW w \in Projectors, NEW doubted \in SUBSET Envelopes,
           WriteRows(w, doubted)
    PROVE  /\ \A e \in Projected : Before(Projected', e) = Before(Projected, e)
           /\ \A e \in Rows(w) \ FirstOf(Rows(w)) :
                 /\ Before(Rows(w), e) # {}
                 /\ LastOf(Before(Projected', e)) = LastOf(Before(Rows(w), e))
<1>1. /\ Projected' = Projected \cup Rows(w)
      /\ Projected \subseteq Envelopes /\ Rows(w) \subseteq Envelopes
  BY WrittenRows DEF Projected, Rows, Batch
<1>2. \A p \in Projected, r \in Rows(w) : Ulid[p] < Ulid[r]
  <2>1. audit_checkpoint \in Nat
    BY UlidFacts DEF BaseInv, TypeOK
  <2>2. /\ \A e \in Projected : Ulid[e] <= audit_checkpoint
        /\ \A e \in Rows(w) : Ulid[e] > audit_checkpoint
    BY DEF PassInv, CursorInv, Rows
  <2> QED
    BY <1>1, <2>1, <2>2, UlidFacts
<1>3. ASSUME NEW e \in Projected
      PROVE  Before(Projected', e) = Before(Projected, e)
  <2>1. \A r \in Rows(w) : ~ (Ulid[r] < Ulid[e])
    BY <1>1, <1>2, UlidFacts
  <2> QED
    BY <1>1, <2>1 DEF Before
<1>4. ASSUME NEW e \in Rows(w) \ FirstOf(Rows(w))
      PROVE  /\ Before(Rows(w), e) # {}
             /\ LastOf(Before(Projected', e)) = LastOf(Before(Rows(w), e))
  <2>1. PICK f \in Rows(w) : ~ (Ulid[e] <= Ulid[f])
    BY DEF FirstOf
  <2>2. f \in Before(Rows(w), e)
    BY <1>1, <2>1, UlidFacts DEF Before
  <2>3. Before(Projected', e) = Projected \cup Before(Rows(w), e)
    BY <1>1, <1>2 DEF Before
  <2>4. \A p \in Projected, r \in Before(Rows(w), e) : Ulid[p] < Ulid[r]
    BY <1>2 DEF Before
  <2>5. Before(Rows(w), e) \subseteq Envelopes
    BY <1>1 DEF Before
  <2> QED
    <3>1. \A r \in Before(Rows(w), e) : Ulid[r] \in Nat /\ ~ (Ulid[r] < Ulid[f] /\ Ulid[f] < Ulid[r])
      BY <2>2, <2>5, UlidFacts
    <3>2. \A p \in Projected : Ulid[p] \in Nat /\ Ulid[p] < Ulid[f] /\ ~ (Ulid[f] <= Ulid[p])
      BY <1>1, <2>2, <2>4, <2>5, UlidFacts
    <3>3. \A p \in Projected, r \in Before(Rows(w), e) : Ulid[p] <= Ulid[r]
      BY <2>4, <2>5, <1>1, UlidFacts
    <3> QED
      BY <2>2, <2>3, <3>2, <3>3 DEF LastOf
<1> QED
  BY <1>3, <1>4

(* The rows before a row of a batch have a last one, and one only.         *)
LEMMA OneLast ==
    ASSUME NEW S \in SUBSET Envelopes, NEW e \in Envelopes, Before(S, e) # {}
    PROVE  \E f \in Before(S, e) : LastOf(Before(S, e)) = {f}
<1> DEFINE B == Before(S, e)
           U == {Ulid[f] : f \in B}
<1>1. B \subseteq Envelopes /\ \A f \in B : Ulid[f] < Ulid[e]
  BY DEF Before
<1>2. U \in SUBSET Nat /\ U # {} /\ Ulid[e] \in Nat /\ \A n \in U : n <= Ulid[e]
  BY <1>1, UlidFacts
<1>3. PICK n \in U : \A m \in U : m <= n
  <2> HIDE DEF U
  <2> QED
    BY <1>2, GreatestNat
<1>4. PICK f \in B : Ulid[f] = n
  OBVIOUS
<1>5. \A g \in B : Ulid[g] <= Ulid[f]
  BY <1>3, <1>4
<1>6. \A g \in LastOf(B) : g = f
  BY <1>1, <1>5, UlidFacts DEF LastOf
<1> QED
  BY <1>5, <1>6 DEF LastOf

(* The bodies that rows name do not change.                                *)
LEMMA RowBodiesStay ==
    ASSUME BaseInv, [Next]_vars
    PROVE  \A i \in DOMAIN bodies : i \in DOMAIN bodies' /\ bodies'[i] = bodies[i]
<1>1. CASE Appends
  <2>1. PICK d \in Envelopes, form \in Forms, sealed \in BOOLEAN, prev \in Hashes :
           WriteLedger(d, form, prev, sealed)
    BY <1>1 DEF Appends
  <2>2. [env |-> d, form |-> form, prev |-> prev] \in Body /\ LedgerTypeOK
    BY DEF BaseInv, Body, Hashes, TypeOK, LedgerTypeOK
  <2> QED
    BY <2>1, <2>2, SetEnvelopeFacts DEF WriteLedger
<1>2. CASE Quiet \/ Writes \/ Scans \/ Rebuild
  BY <1>2 DEF Quiet, Writes, WriteRows, CycleEnds, Scans, ScanLedger, Rebuild, ledgerVars
<1> QED
  BY <1>1, <1>2, StepKinds DEF BaseInv

(* A step that writes rows gives each the verdict its link deserves.       *)
LEMMA NextChainVerdict ==
    ASSUME BaseInv, PassInv, ChainVerdict, [Next]_vars
    PROVE  ChainVerdict'
<1>0. Quiet \/ Appends \/ Writes \/ Scans \/ Rebuild
  BY StepKinds DEF BaseInv
<1>1. \A e \in Projected : bodies'[audit_entries[e].id] = bodies[audit_entries[e].id]
  BY RowBodiesStay DEF BaseInv, NamesInv, Names, Projected
<1>2. CASE Quiet \/ Appends \/ Scans
  <2>1. audit_entries' = audit_entries /\ trusted' = trusted
    BY <1>2 DEF Quiet, Appends, WriteLedger, Scans, ScanLedger, tables, histories
  <2>2. Projected' = Projected
    BY <2>1 DEF Projected
  <2> QED
    BY <1>1, <2>1, <2>2 DEF ChainVerdict, Linked
<1>3. ASSUME NEW w \in Projectors, NEW doubted \in SUBSET Envelopes, WriteRows(w, doubted)
      PROVE  ChainVerdict'
  <2>1. /\ Projected' = Projected \cup Rows(w)
        /\ \A e \in Projected : audit_entries'[e] = audit_entries[e]
        /\ \A e \in Rows(w) \ Projected : audit_entries'[e] = RowOf(w, e, doubted)
    BY <1>3, WrittenRows DEF BaseInv
  <2>2. /\ \A e \in Projected : Before(Projected', e) = Before(Projected, e)
        /\ \A e \in Rows(w) \ FirstOf(Rows(w)) :
              /\ Before(Rows(w), e) # {}
              /\ LastOf(Before(Projected', e)) = LastOf(Before(Rows(w), e))
    BY <1>3, WhoIsBefore
  <2>3. Rows(w) \cap Projected = {} /\ Rows(w) \subseteq Envelopes
    BY RowsAreNew DEF Rows, Batch
  <2>4. trusted' = trusted \cup (FirstOf(Rows(w)) \ Projected) /\ bodies' = bodies
    BY <1>3 DEF WriteRows, CycleEnds, ledgerVars
  <2> SUFFICES ASSUME NEW e \in Projected', e \notin trusted'
               PROVE  audit_entries'[e].chain_valid <=> Linked(e)'
    BY DEF ChainVerdict
  <2>5. CASE e \in Projected
    <3>1. audit_entries[e].chain_valid <=> Linked(e)
      BY <2>4, <2>5 DEF ChainVerdict
    <3>2. \A f \in LastOf(Before(Projected, e)) : f \in Projected
      BY DEF LastOf, Before
    <3>3. Linked(e)' <=> Linked(e)
      BY <2>1, <2>2, <2>4, <2>5, <3>2 DEF Linked
    <3> QED
      BY <2>1, <2>5, <3>1, <3>3
  <2>6. CASE e \in Rows(w)
    <3>1. e \in Rows(w) \ FirstOf(Rows(w)) /\ e \notin Projected
      BY <2>3, <2>4, <2>6
    <3>2. PICK f \in Before(Rows(w), e) : LastOf(Before(Rows(w), e)) = {f}
      BY <2>2, <2>3, <3>1, OneLast
    <3>3. f \in Rows(w) \ Projected
      BY <2>3 DEF Before
    <3>4. /\ audit_entries'[e] = RowOf(w, e, doubted)
          /\ audit_entries'[f] = RowOf(w, f, doubted)
      BY <2>1, <3>1, <3>3
    <3>5. /\ audit_entries'[e].id = raw_pairs[w][e].id
          /\ audit_entries'[f].id = raw_pairs[w][f].id
          /\ audit_entries'[e].chain_valid = ChainOk(w, e)
      BY <3>4 DEF RowOf
    <3>6. ChainOk(w, e) <=> PrevHash(w, e) = raw_pairs[w][f].id
      BY <3>2 DEF ChainOk
    <3>7. Linked(e)' <=> bodies'[audit_entries'[e].id].prev = audit_entries'[f].id
      BY <2>2, <3>1, <3>2 DEF Linked
    <3> QED
      BY <2>4, <3>5, <3>6, <3>7 DEF PrevHash
  <2> QED
    BY <2>1, <2>5, <2>6
<1>4. CASE Rebuild
  <2>1. Projected' = {}
    BY <1>4 DEF Rebuild, NoRow, Projected
  <2> QED
    BY <2>1 DEF ChainVerdict
<1> QED
  BY <1>0, <1>2, <1>3, <1>4 DEF Writes

(* When a rebuild runs only while core is stopped, chain_valid says of     *)
(* every row, but the first of a batch, whether its link names the row     *)
(* before it, though the cycle compared it within its batch only.          *)
THEOREM ChainVerdictTrue ==
    ASSUME ~ BesideCore
    PROVE  Spec => []ChainVerdict
<1>1. Init => PassInv
  BY InitPassInv
<1>2. ASSUME Init PROVE ChainVerdict
  <2>1. Projected = {}
    BY <1>2 DEF Init, Projected, NoRow
  <2> QED
    BY <2>1 DEF ChainVerdict
<1>3. BaseInv /\ PassInv /\ [Next]_vars => PassInv'
  BY NextPassInv
<1>4. BaseInv /\ PassInv /\ ChainVerdict /\ [Next]_vars => ChainVerdict'
  BY NextChainVerdict
<1> QED
  BY <1>1, <1>2, <1>3, <1>4, BaseInductive, PTL DEF Spec

-----------------------------------------------------------------------------
(* A mismatch.                                                             *)

(* While a rebuild runs nothing is appended, and what it has copied is     *)
(* what one scan shows up to the cursor, less what does not parse.         *)
Copied == Projected = {e \in Scan \ Corrupt : Ulid[e] <= audit_checkpoint}

RebuildInv ==
    at["cli"] # "down" =>
        /\ Copied
        /\ at["cli"] = "write" => Batch("cli") = {e \in Scan : Ulid[e] > audit_checkpoint}
        /\ at["cli"] \in {"count", "report"} =>
              \A e \in Scan : Ulid[e] > audit_checkpoint => e \in Corrupt
        /\ at["cli"] = "report" => pg_count = Cardinality(Projected)

(* With core stopped, only the rebuild itself moves.                       *)
LEMMA RebuildAlone ==
    ASSUME ~ BesideCore, BaseInv, PassInv, [Next]_vars, at["cli"] # "down"
    PROVE  Cycle("cli") \/ Crash("cli") \/ CountRows \/ Report \/ UNCHANGED vars
<1>1. at["core"] = "down"
  BY DEF PassInv, OneUp
<1>2. ~ Start /\ ~ StartDeaf /\ ~ Rebuild /\ ~ Appending
  BY <1>1 DEF Start, StartDeaf, Rebuild, Appending, WriteLedger
<1>3. ~ Cycle("core") /\ ~ Crash("core")
  BY <1>1 DEF Cycle, Crash, FetchCheckpoint, ScanLedger, ScanNothingNew, NothingParses,
     WriteRows, CycleFails
<1> QED
  BY <1>2, <1>3 DEF Next, Projecting, Projectors

(* A step of a rebuild leaves out only what does not parse.                *)
LEMMA NextRebuildInv ==
    ASSUME ~ BesideCore, BaseInv, PassInv, RebuildInv, [Next]_vars
    PROVE  RebuildInv'
<1> SUFFICES ASSUME at'["cli"] # "down" PROVE RebuildInv'
  BY DEF RebuildInv
<1> USE DEF Projectors
<1>0. at \in [Projectors -> Places] /\ audit_checkpoint \in Nat
      /\ \A e \in Scan : e \in Envelopes /\ Ulid[e] \in Nat
  BY UlidFacts DEF BaseInv, TypeOK, Scan, Stored
<1>1. CASE at["cli"] = "down"
  <2>1. Rebuild
    BY <1>0, <1>1 DEF Next, Projecting, Cycle, Start, StartDeaf, Crash, CountRows, Report,
       Appending, WriteLedger, vars, FetchCheckpoint, ScanLedger, ScanNothingNew,
       NothingParses, WriteRows, CycleFails, CycleEnds, Goto
  <2>2. /\ at'["cli"] = "idle" /\ audit_checkpoint' = 0 /\ Projected' = {} /\ Scan' = Scan
    BY <1>0, <2>1 DEF Rebuild, Goto, Projected, NoRow, ledgerVars, Scan, Stored
  <2>3. \A e \in Scan : ~ (Ulid[e] <= 0)
    BY <1>0, UlidFacts
  <2> QED
    BY <2>2, <2>3 DEF RebuildInv, Copied
<1>2. CASE at["cli"] # "down" /\ UNCHANGED <<ledgerVars, tables>>
  <2>1. Scan' = Scan /\ Projected' = Projected /\ audit_checkpoint' = audit_checkpoint
    BY <1>2 DEF ledgerVars, tables, Scan, Stored, Projected
  <2>2. Copied /\ Copied'
    BY <1>2, <2>1 DEF RebuildInv, Copied
  <2>3. Cycle("cli") \/ Crash("cli") \/ CountRows \/ Report \/ UNCHANGED vars
    BY <1>2, RebuildAlone
  <2>4. CASE FetchCheckpoint("cli")
    BY <1>0, <2>2, <2>4 DEF FetchCheckpoint, Goto, RebuildInv
  <2>5. CASE ScanLedger("cli")
    BY <2>1, <2>2, <2>5, ScanTakes DEF RebuildInv
  <2>6. CASE ScanNothingNew("cli")
    <3>1. checkpoint["cli"] = audit_checkpoint /\ at'["cli"] = "count"
      BY <1>0, <2>6 DEF ScanNothingNew, CycleEnds, AfterZero, Goto, PassInv, CursorInv
    <3>2. \A e \in Scan : ~ (Ulid[e] > audit_checkpoint)
      BY <2>6, <3>1 DEF ScanNothingNew, NewPairs
    <3> QED
      BY <2>1, <2>2, <3>1, <3>2 DEF RebuildInv
  <2>7. CASE NothingParses("cli")
    <3>1. at["cli"] = "write" /\ Rows("cli") = {} /\ at'["cli"] = "count"
      BY <1>0, <2>7 DEF NothingParses, CycleEnds, AfterZero, Goto
    <3>2. \A e \in Scan : Ulid[e] > audit_checkpoint => e \in Corrupt
      BY <1>2, <3>1 DEF RebuildInv, Rows
    <3> QED
      BY <2>1, <2>2, <3>1, <3>2 DEF RebuildInv
  <2>8. CASE CountRows
    <3>1. /\ at["cli"] = "count" /\ at'["cli"] = "report"
          /\ pg_count' = Cardinality(Projected)
      BY <1>0, <2>8 DEF CountRows, Goto
    <3> QED
      BY <1>2, <2>1, <2>2, <3>1 DEF RebuildInv
  <2>9. CASE UNCHANGED vars
    BY <1>2, <2>1, <2>2, <2>9 DEF RebuildInv, vars, Batch
  <2>10. ~ Crash("cli") /\ ~ CycleFails("cli") /\ ~ Report
    BY <1>0 DEF Crash, CycleFails, CycleEnds, Report, Goto
  <2>11. \A doubted \in SUBSET Envelopes : ~ WriteRows("cli", doubted)
    <3> SUFFICES ASSUME NEW doubted \in SUBSET Envelopes, WriteRows("cli", doubted)
                 PROVE  FALSE
      OBVIOUS
    <3>1. audit_checkpoint' > audit_checkpoint
      BY WriteMoves
    <3> QED
      BY <1>0, <2>1, <3>1
  <2> QED
    BY <2>3, <2>4, <2>5, <2>6, <2>7, <2>8, <2>9, <2>10, <2>11 DEF Cycle
<1>3. ASSUME at["cli"] # "down", NEW doubted \in SUBSET Envelopes, WriteRows("cli", doubted)
      PROVE  RebuildInv'
  <2>1. /\ audit_checkpoint' \in Nat
        /\ audit_checkpoint' > audit_checkpoint
        /\ \A e \in Batch("cli") : Ulid[e] <= audit_checkpoint'
        /\ at'["cli"] = "idle"
        /\ UNCHANGED <<ledgerVars, late>>
    BY <1>3, WriteMoves
  <2>2. Projected' = Projected \cup (Batch("cli") \ Corrupt)
    BY <1>3, WrittenRows DEF Rows
  <2>3. Scan' = Scan
    BY <2>1 DEF ledgerVars, Scan, Stored
  <2>4. Batch("cli") = {e \in Scan : Ulid[e] > audit_checkpoint} /\ Copied
    BY <1>3 DEF RebuildInv, WriteRows
  <2>5. Copied'
    BY <1>0, <2>1, <2>2, <2>3, <2>4 DEF Copied
  <2> QED
    BY <2>1, <2>5 DEF RebuildInv
<1>4. CASE at["cli"] # "down"
  <2>1. Cycle("cli") \/ Crash("cli") \/ CountRows \/ Report \/ UNCHANGED vars
    BY <1>4, RebuildAlone
  <2>2. CASE \E doubted \in SUBSET Envelopes : WriteRows("cli", doubted)
    BY <1>3, <1>4, <2>2
  <2>3. CASE ~ \E doubted \in SUBSET Envelopes : WriteRows("cli", doubted)
    <3>1. UNCHANGED <<ledgerVars, tables>>
      BY <2>1, <2>3 DEF Cycle, Crash, CountRows, Report, vars, FetchCheckpoint, ScanLedger,
         ScanNothingNew, NothingParses, CycleFails, CycleEnds
    <3> QED
      BY <1>2, <1>4, <3>1
  <2> QED
    BY <2>2, <2>3
<1> QED
  BY <1>1, <1>4

(* When a rebuild runs only while core is stopped, it reports a mismatch   *)
(* only if some stored value does not parse: neither the cap on a scan nor *)
(* keys that once came late can be the reason.                             *)
THEOREM DifferCorrupt ==
    ASSUME ~ BesideCore
    PROVE  Spec => DifferMeansCorrupt
<1>1. Init => PassInv /\ RebuildInv
  BY InitPassInv DEF Init, RebuildInv, Projectors
<1>2. BaseInv /\ PassInv /\ RebuildInv /\ [Next]_vars => PassInv' /\ RebuildInv'
  BY NextPassInv, NextRebuildInv
<1>3. ASSUME BaseInv, RebuildInv, Report, status' = "differ"
      PROVE  Stored \cap Corrupt # {}
  <2>1. /\ at["cli"] = "report" /\ pg_count # Cardinality(Scan)
        /\ pg_count = Cardinality(Projected)
        /\ Copied
        /\ \A e \in Scan : Ulid[e] > audit_checkpoint => e \in Corrupt
    BY <1>3 DEF Report, RebuildInv
  <2>2. PICK e \in Scan : e \notin Projected
    <3>1. Projected \subseteq Scan /\ Projected # Scan
      BY <2>1 DEF Copied
    <3> QED
      BY <3>1
  <2>3. e \in Stored /\ Ulid[e] \in Nat /\ audit_checkpoint \in Nat
    BY <1>3, UlidFacts DEF Scan, Stored, BaseInv, TypeOK
  <2>4. e \in Corrupt
    BY <2>1, <2>2, <2>3 DEF Copied
  <2> QED
    BY <2>3, <2>4
<1>4. BaseInv /\ RebuildInv => [Report /\ status' = "differ" => Stored \cap Corrupt # {}]_vars
  BY <1>3
<1> QED
  BY <1>1, <1>2, <1>4, BaseInductive, PTL DEF Spec, DifferMeansCorrupt
=============================================================================
