---------------------------- MODULE AuditLedger ----------------------------
(***************************************************************************)
(* The immudb ledger of audit envelopes, as core/app/audit/immudb_writer.py *)
(* uses it, and the canonical hash of core/app/audit/envelope.py.          *)
(*                                                                         *)
(* immudb is a versioned key/value store: a key is an envelope's ULID and  *)
(* a second set() of the same key adds a version that hides the first.     *)
(* canonical_sha256() is modelled as collision free: two bodies have the   *)
(* same hash exactly when they are equal.  `bodies` lists every body ever  *)
(* committed, each once, and the hash of a body is its position there;     *)
(* 0 stands for prev_hash = None.                                          *)
(***************************************************************************)
EXTENDS AuditEvents, Naturals, Sequences, FiniteSets

CONSTANTS
    Ulid,       \* their ULIDs, as the rank of each in lexicographic order
    Forms,      \* what redaction can make of a payload (policy, OPA, Vault)
    ScanLimit   \* immudb's cap on one scan: 1000 in the code

ASSUME LedgerAssumption ==
    /\ Ulid \in [Envelopes -> Nat]
    /\ \A e, f \in Envelopes : Ulid[e] = Ulid[f] => e = f
    /\ Forms # {}
    /\ ScanLimit \in Nat \ {0}

VARIABLES
    bodies,     \* every committed body, in order of its first commit
    ledger      \* the current version under each key; id 0: no such key

ledgerVars == <<bodies, ledger>>

(***************************************************************************)
(* The part of an envelope that canonical_sha256() covers: which event it  *)
(* is, its redacted payload, its link.  The two signatures are excluded.   *)
(***************************************************************************)
Body == [env : Envelopes, form : Forms, prev : Nat]

Version == [id : Nat, sealed : BOOLEAN]
NoVersion == [id |-> 0, sealed |-> FALSE]

Hashes == 0 .. Len(bodies)

Stored == {e \in Envelopes : ledger[e].id # 0}

LedgerTypeOK ==
    /\ bodies \in Seq(Body)
    /\ ledger \in [Envelopes -> Version]
    /\ \A e \in Envelopes : ledger[e].id \in Hashes

LedgerInit ==
    /\ bodies = <<>>
    /\ ledger = [e \in Envelopes |-> NoVersion]

(***************************************************************************)
(* scan(b"", b"", False, ScanLimit): the first ScanLimit keys, ascending.  *)
(***************************************************************************)
Scan == {e \in Stored :
            Cardinality({f \in Stored : Ulid[f] <= Ulid[e]}) <= ScanLimit}

(***************************************************************************)
(* get_latest_value(): the last key of ONE scan (a singleton, or empty).   *)
(***************************************************************************)
LatestScanned == {e \in Scan : \A f \in Scan : Ulid[f] <= Ulid[e]}

(***************************************************************************)
(* set_envelope() when immudb commits it: body b, signed or not by the     *)
(* appender, becomes the current version of its ULID.                      *)
(***************************************************************************)
SetEnvelope(b, sealed) ==
    \/ /\ \A i \in DOMAIN bodies : bodies[i] # b
       /\ bodies' = Append(bodies, b)
       /\ ledger' = [ledger EXCEPT ![b.env] =
                        [id |-> Len(bodies) + 1, sealed |-> sealed]]
    \/ \E i \in DOMAIN bodies :
       /\ bodies[i] = b
       /\ bodies' = bodies
       /\ ledger' = [ledger EXCEPT ![b.env] = [id |-> i, sealed |-> sealed]]
=============================================================================
