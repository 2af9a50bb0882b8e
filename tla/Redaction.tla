----------------------------- MODULE Redaction -----------------------------
(***************************************************************************)
(* The redaction of a payload before it is stored                          *)
(* (core/app/audit/redaction.py, policy/redaction.rego), between the bus   *)
(* and the ledger: the appender takes one envelope at a time, asks OPA for *)
(* a decision on each field, seals fields with Vault, and stores what is   *)
(* left.  OPA and Vault fail and come back, the policy is edited, and an   *)
(* envelope that is delivered again is redacted again from what was        *)
(* published.                                                              *)
(***************************************************************************)
EXTENDS Integers, Sequences, SequencesExt

CONSTANTS
    Envelopes,
    SubjectOf,   \* each envelope's subject: a prefix that the code looks at
    FieldsOf,    \* the names of the fields of its payload, in order
    HighEntropy, \* <<envelope, field>>: values that look like a secret
    SecretNames, \* names that match secret_key_pattern, by policy version
    redaction_enabled,
    MaxRedactFaults \* bound: faults

Versions == DOMAIN SecretNames

(* The keys of a payload differ; there is a policy on disk.                *)
ASSUME RedactionAssumption ==
    /\ \A e \in Envelopes :
          /\ FieldsOf[e] \in Seq(Range(FieldsOf[e]))
          /\ IsInjective(FieldsOf[e])
    /\ Versions = 1 .. Len(SecretNames) /\ 1 \in Versions
    /\ redaction_enabled \in BOOLEAN
    /\ MaxRedactFaults \in Nat

VARIABLES
    queue,   \* the envelopes that the bus has and that are not acknowledged
    job,     \* the envelope in work, and the locals of redact()
    ledger,  \* what has been stored
    file,    \* the version of redaction.rego on disk
    opa,     \* whether OPA answers, and the version it has loaded
    cached,  \* _policy_version()'s cache
    redact_faults \* history

redactVars == <<queue, job, ledger, file, opa, cached, redact_faults>>

None == 0      \* no policy loaded, no version read, nobody asked
Unreadable == -1

Idle == [at |-> "idle"]
Fields(e) == Range(FieldsOf[e])
All(e, outcome) == [f \in Fields(e) |-> outcome]

RedactInit ==
    /\ queue = Envelopes
    /\ job = Idle
    /\ ledger = {}
    /\ file = 1
    /\ opa \in [up : BOOLEAN, policy : {None, file}]
    /\ cached = None
    /\ redact_faults = 0

Fault == redact_faults < MaxRedactFaults /\ redact_faults' = redact_faults + 1

-----------------------------------------------------------------------------
(* The policy.                                                             *)

Telemetry == {"oc.event.git.", "oc.event.claude.", "oc.event.fs."}

EncryptedNames(subject) ==
    CASE subject = "oc.event.mail." -> {"body", "subject", "snippet"}
      [] subject = "oc.event.calendar." -> {"description", "summary", "location"}
      [] subject = "oc.mcp.fs-asher." -> {"contents", "content", "diff"}
      [] OTHER -> {}

classify(version, subject, field) ==
    CASE field \in SecretNames[version] -> "drop"
      [] field \notin SecretNames[version] /\ field \in EncryptedNames(subject) -> "encrypt"
      [] OTHER -> "keep"

(* OPA's decision, or none when it has no policy; then the entropy net.    *)
Decision(e, version, field) ==
    LET decided == IF version = None THEN "keep"
                   ELSE classify(version, SubjectOf[e], field)
    IN  IF decided = "keep" /\ SubjectOf[e] \notin Telemetry /\ <<e, field>> \in HighEntropy
        THEN "drop" ELSE decided

-----------------------------------------------------------------------------
(* redact().                                                               *)

(* The version is read once in a process, and so is that it is not readable.*)
Begin(e) ==
    LET skip == FieldsOf[e] = <<>> \/ ~ redaction_enabled
    IN  /\ job.at = "idle" /\ e \in queue
        /\ \/ cached # None /\ UNCHANGED <<cached, redact_faults>>
           \/ cached = None /\ cached' = file /\ UNCHANGED redact_faults
           \/ cached = None /\ cached' = Unreadable /\ Fault
        /\ job' = [at |-> IF skip THEN "store" ELSE "query", env |-> e,
                   version |-> cached', by |-> None, left |-> FieldsOf[e],
                   out |-> IF skip THEN All(e, "verbatim") ELSE <<>>,
                   blobs |-> <<>>, failed |-> {}]
        /\ UNCHANGED <<queue, ledger, file, opa>>

QueryOpa ==
    /\ job.at = "query" /\ opa.up
    /\ job' = [job EXCEPT !.at = "fields", !.by = opa.policy]
    /\ UNCHANGED <<queue, ledger, file, opa, cached, redact_faults>>

(* Mutant of OpaUnavailable: waiting for OPA.                              *)
OpaAwaited ==
    /\ job.at = "query" /\ opa.up /\ Fault
    /\ UNCHANGED <<queue, job, ledger, file, opa, cached>>

(* It is down, too slow, or answers with an error: every field goes.       *)
OpaUnavailable ==
    /\ job.at = "query"
    /\ IF opa.up THEN Fault ELSE UNCHANGED redact_faults
    /\ job' = [job EXCEPT !.at = "store", !.left = <<>>, !.by = Unreadable,
                          !.out = All(job.env, "unavailable")]
    /\ UNCHANGED <<queue, ledger, file, opa, cached>>

(* The loop over the fields.                                               *)
InLoop(decision) ==
    /\ job.at = "fields" /\ job.left # <<>>
    /\ Decision(job.env, job.by, Head(job.left)) = decision
    /\ UNCHANGED <<queue, ledger, file, opa, cached>>

With(out, field, outcome) ==
    [f \in DOMAIN out \cup {field} |-> IF f = field THEN outcome ELSE out[f]]

NextField(outcome, blobs, failed) ==
    job' = [job EXCEPT !.left = Tail(@), !.out = With(@, Head(job.left), outcome),
                       !.blobs = @ \o blobs, !.failed = @ \cup failed]

Drop == InLoop("drop") /\ NextField("redacted", <<>>, {}) /\ UNCHANGED redact_faults
Keep == InLoop("keep") /\ NextField("verbatim", <<>>, {}) /\ UNCHANGED redact_faults
Seal ==
    /\ InLoop("encrypt")
    /\ NextField("encrypted", <<Head(job.left)>>, {})
    /\ UNCHANGED redact_faults

(* Mutants of VaultFails: the value is kept, or marked as encrypted.       *)
VaultFailsKept ==
    InLoop("encrypt") /\ NextField("verbatim", <<>>, {Head(job.left)}) /\ Fault
VaultFailsMarked ==
    InLoop("encrypt") /\ NextField("encrypted", <<>>, {Head(job.left)}) /\ Fault

VaultFails ==
    InLoop("encrypt") /\ NextField("redacted", <<>>, {Head(job.left)}) /\ Fault

(* The envelope gets its new payload only when all of it is there.         *)
Redacted ==
    /\ job.at = "fields" /\ job.left = <<>>
    /\ job' = [job EXCEPT !.at = "store"]
    /\ UNCHANGED <<queue, ledger, file, opa, cached, redact_faults>>

-----------------------------------------------------------------------------
(* The appender around it.                                                 *)

Entry == [env |-> job.env, payload |-> job.out, encrypted_blobs |-> job.blobs,
          version |-> job.version, by |-> job.by, failed |-> job.failed]

(* It is stored and acknowledged; or the acknowledgement is lost.          *)
Store ==
    /\ job.at = "store" /\ job' = Idle
    /\ ledger' = ledger \cup {Entry}
    /\ \/ queue' = queue \ {job.env} /\ UNCHANGED redact_faults
       \/ UNCHANGED queue /\ Fault
    /\ UNCHANGED <<file, opa, cached>>

(* immudb fails: the message comes again.                                  *)
StoreFails ==
    /\ job.at = "store" /\ job' = Idle
    /\ Fault
    /\ UNCHANGED <<queue, ledger, file, opa, cached>>

CoreRestarts ==
    /\ Fault
    /\ job' = Idle /\ cached' = None
    /\ UNCHANGED <<queue, ledger, file, opa>>

(* A new redaction.rego is put on disk; OPA reads it when it starts.       *)
PolicyEdited ==
    /\ file + 1 \in Versions /\ file' = file + 1
    /\ UNCHANGED <<queue, job, ledger, opa, cached, redact_faults>>

OpaStops ==
    /\ opa.up /\ Fault /\ opa' = [opa EXCEPT !.up = FALSE]
    /\ UNCHANGED <<queue, job, ledger, file, cached>>

OpaStarts ==
    /\ ~ opa.up
    /\ \E policy \in {None, file} : opa' = [up |-> TRUE, policy |-> policy]
    /\ UNCHANGED <<queue, job, ledger, file, cached, redact_faults>>

RedactNext ==
    \/ \E e \in Envelopes : Begin(e)
    \/ QueryOpa \/ OpaUnavailable
    \/ Drop \/ Keep \/ Seal \/ VaultFails \/ Redacted
    \/ Store \/ StoreFails \/ CoreRestarts
    \/ PolicyEdited \/ OpaStops \/ OpaStarts

RedactSpec == RedactInit /\ [][RedactNext]_redactVars

(***************************************************************************)
(* The appender goes on: its calls return or time out.  Nothing is assumed *)
(* of OPA, which may never come back.                                      *)
(***************************************************************************)
FairRedactSpec ==
    /\ RedactSpec
    /\ \A e \in Envelopes : SF_redactVars(Begin(e))
    /\ WF_redactVars(QueryOpa \/ OpaUnavailable)
    /\ WF_redactVars(Drop \/ Keep \/ Seal \/ VaultFails \/ Redacted)
    /\ WF_redactVars(Store)

-----------------------------------------------------------------------------
Outcomes == {"verbatim", "redacted", "unavailable", "encrypted"}

(* Types; what is stored has every field of what was published.            *)
RedactTypeOK ==
    /\ queue \subseteq Envelopes
    /\ job.at \in {"idle", "query", "fields", "store"}
    /\ job.at # "idle" =>
          /\ job.env \in queue
          /\ job.by \in Versions \cup {None, Unreadable}
          /\ \A f \in DOMAIN job.out : job.out[f] \in Outcomes
    /\ \A s \in ledger : DOMAIN s.payload = Fields(s.env)
    /\ file \in Versions /\ cached \in Versions \cup {None, Unreadable}
    /\ redact_faults <= MaxRedactFaults

(* What a decision makes of a field, when nothing fails.                   *)
Outcome(decision) ==
    CASE decision = "drop" -> "redacted"
      [] decision = "encrypt" -> "encrypted"
      [] decision = "keep" -> "verbatim"

(***************************************************************************)
(* A failure costs the field it hits and no other: each stored field is    *)
(* what the policy of the moment makes of it, or, if Vault has failed for  *)
(* it, redacted; and if OPA did not answer, none is known.                 *)
(***************************************************************************)
FieldsAsDecided ==
    \A s \in ledger :
        redaction_enabled => \A f \in Fields(s.env) :
            s.payload[f] = CASE s.by = Unreadable -> "unavailable"
                             [] s.by # Unreadable /\ f \in s.failed -> "redacted"
                             [] OTHER -> Outcome(Decision(s.env, s.by, f))

(***************************************************************************)
(* Whatever fails, a value that every version of the policy drops or       *)
(* encrypts is stored only when OPA answers without a policy, or redaction *)
(* is off.  (redaction.py:24, "Never fail open", holds but for the first.) *)
(***************************************************************************)
OpenOnlyWithoutPolicy ==
    \A s \in ledger : \A f \in Fields(s.env) :
        /\ s.payload[f] = "verbatim"
        /\ \A v \in Versions : classify(v, SubjectOf[s.env], f) # "keep"
        => s.by = None

(***************************************************************************)
(* A stored envelope has one blob for each field that says it is           *)
(* encrypted, in their order, and no other: also when Vault fails between  *)
(* two of them, and when a delivery was given up half-way.                 *)
(***************************************************************************)
BlobsMatchPlaceholders ==
    \A s \in ledger :
        LET blobs == s.encrypted_blobs
            fields == FieldsOf[s.env]
        IN  /\ Range(blobs) = {f \in Fields(s.env) : s.payload[f] = "encrypted"}
            /\ \A i, j \in DOMAIN blobs : i < j =>
                  \E k, l \in DOMAIN fields :
                      k < l /\ fields[k] = blobs[i] /\ fields[l] = blobs[j]

(***************************************************************************)
(* A stored envelope is what the policy of the moment made of it, field by *)
(* field, with its blobs, wherever Vault failed.                           *)
(***************************************************************************)
RedactInv == RedactTypeOK /\ FieldsAsDecided /\ BlobsMatchPlaceholders

(***************************************************************************)
(* Every envelope is stored in the end, with OPA or Vault down for ever.   *)
(***************************************************************************)
RedactionNeverBlocks ==
    \A e \in Envelopes : <>(\E s \in ledger : s.env = e)
=============================================================================
