-------------------------- MODULE RedactionProofs --------------------------
(***************************************************************************)
(* Proofs about Redaction: what is stored is what the policy of the moment *)
(* made of it, for every set of envelopes, every policy history and any    *)
(* number of faults of OPA, Vault, the ledger and the process.             *)
(***************************************************************************)
EXTENDS Redaction, SequenceTheorems, TLAPS

JobFields == {"at", "env", "version", "by", "left", "out", "blobs", "failed"}

(* The loop is behind the first n fields of the envelope of s: those have  *)
(* their outcome, and no other has.                                        *)
Behind(s, n) == DOMAIN s.payload = {FieldsOf[s.env][i] : i \in 1 .. n}

(* The outcome that a field must have in s.                                *)
AsDecided(s, f) ==
    s.payload[f] = CASE s.by = Unreadable -> "unavailable"
                     [] s.by # Unreadable /\ f \in s.failed -> "redacted"
                     [] OTHER -> Outcome(Decision(s.env, s.by, f))

Precedes(fields, f, g) ==
    \E k, l \in DOMAIN fields : k < l /\ fields[k] = f /\ fields[l] = g

InOrder(s) ==
    \A i, j \in DOMAIN s.encrypted_blobs : i < j =>
        Precedes(FieldsOf[s.env], s.encrypted_blobs[i], s.encrypted_blobs[j])

BlobsFit(s) ==
    /\ s.encrypted_blobs \in Seq(Fields(s.env))
    /\ \A f \in DOMAIN s.payload :
          s.payload[f] = "encrypted" =>
              \E i \in DOMAIN s.encrypted_blobs : s.encrypted_blobs[i] = f
    /\ \A i \in DOMAIN s.encrypted_blobs :
          /\ s.encrypted_blobs[i] \in DOMAIN s.payload
          /\ s.payload[s.encrypted_blobs[i]] = "encrypted"
    /\ InOrder(s)

(* What holds of an entry, and of one in the making.                       *)
EntryInv(s) ==
    /\ s.env \in Envelopes
    /\ s.by \in Versions \cup {None, Unreadable}
    /\ \A f \in DOMAIN s.payload : s.payload[f] \in Outcomes
    /\ ~ redaction_enabled => s.by = None
    /\ redaction_enabled => \A f \in DOMAIN s.payload : AsDecided(s, f)
    /\ BlobsFit(s)

LoopInv ==
    LET fields == FieldsOf[job.env]
        n == Len(fields) - Len(job.left)
    IN  /\ job.left \in Seq(Fields(job.env))
        /\ n \in 0 .. Len(fields)
        /\ \A i \in 1 .. Len(job.left) : job.left[i] = fields[n + i]
        /\ Behind(Entry, n)
        /\ job.failed \subseteq DOMAIN job.out

JobInv ==
    \/ job = Idle
    \/ /\ DOMAIN job = JobFields
       /\ job.at \in {"query", "fields", "store"}
       /\ job.env \in queue
       /\ EntryInv(Entry)
       /\ job.at \in {"query", "fields"} =>
             redaction_enabled /\ LoopInv /\ job.by # Unreadable
       /\ job.at = "query" => job.left = FieldsOf[job.env] /\ job.out = <<>>
                              /\ job.blobs = <<>> /\ job.failed = {}
       /\ job.at = "store" => DOMAIN job.out = Fields(job.env)

WorldInv ==
    /\ queue \subseteq Envelopes
    /\ file \in Versions /\ cached \in Versions \cup {None, Unreadable}
    /\ opa \in [up : BOOLEAN, policy : Versions \cup {None}]
    /\ redact_faults \in 0 .. MaxRedactFaults

LedgerInv == \A s \in ledger : EntryInv(s) /\ DOMAIN s.payload = Fields(s.env)

StoredAsDecided == WorldInv /\ JobInv /\ LedgerInv

-----------------------------------------------------------------------------
(* Versions are positive numbers and none of the two markers.              *)
LEMMA VersionFacts == /\ \A v \in Versions : v \in Int /\ v >= 1
                      /\ None \notin Versions /\ Unreadable \notin Versions /\ 1 \in Versions
  BY RedactionAssumption DEF None, Unreadable

(* The loop has each field of an envelope once.                            *)
LEMMA FieldFacts ==
  ASSUME NEW e \in Envelopes
  PROVE  /\ FieldsOf[e] \in Seq(Fields(e))
         /\ \A i, j \in 1 .. Len(FieldsOf[e]) : FieldsOf[e][i] = FieldsOf[e][j] => i = j
         /\ Fields(e) = {FieldsOf[e][i] : i \in 1 .. Len(FieldsOf[e])}
         /\ DOMAIN FieldsOf[e] = 1 .. Len(FieldsOf[e])
         /\ Len(FieldsOf[e]) \in Nat
  <1>1. FieldsOf[e] \in Seq(Range(FieldsOf[e])) /\ IsInjective(FieldsOf[e])
    BY RedactionAssumption
  <1> QED BY <1>1 DEF Fields, Range, IsInjective

(* A decision is one of three.                                             *)
LEMMA DecisionFacts ==
  ASSUME NEW e, NEW v, NEW f
  PROVE  /\ Decision(e, v, f) \in {"drop", "keep", "encrypt"}
         /\ Outcome(Decision(e, v, f)) \in Outcomes
         /\ v # None /\ classify(v, SubjectOf[e], f) # "keep" =>
               Outcome(Decision(e, v, f)) # "verbatim"
  <1>1. classify(v, SubjectOf[e], f) \in {"drop", "keep", "encrypt"}
    BY DEF classify
  <1>2. /\ Decision(e, v, f) \in {"drop", "keep", "encrypt"}
        /\ v # None /\ classify(v, SubjectOf[e], f) # "keep" => Decision(e, v, f) # "keep"
    BY <1>1 DEF Decision
  <1> QED BY <1>2 DEF Outcome, Outcomes

(* What the run of this model checks is part of the invariant.             *)
LEMMA StoredMeaning ==
  ASSUME StoredAsDecided
  PROVE  RedactInv /\ OpenOnlyWithoutPolicy
  <1>1. RedactTypeOK
    <2>1. job.at \in {"idle", "query", "fields", "store"}
      BY DEF StoredAsDecided, JobInv, Idle
    <2>2. ASSUME job.at # "idle"
          PROVE  /\ job.env \in queue
                 /\ job.by \in Versions \cup {None, Unreadable}
                 /\ \A f \in DOMAIN job.out : job.out[f] \in Outcomes
      BY <2>2 DEF StoredAsDecided, JobInv, Idle, EntryInv, Entry
    <2>3. \A s \in ledger : DOMAIN s.payload = Fields(s.env)
      BY DEF StoredAsDecided, LedgerInv
    <2> QED BY <2>1, <2>2, <2>3, RedactionAssumption DEF RedactTypeOK, StoredAsDecided, WorldInv
  <1>2. FieldsAsDecided
    BY DEF FieldsAsDecided, StoredAsDecided, LedgerInv, EntryInv, AsDecided
  <1>3. BlobsMatchPlaceholders
    <2> SUFFICES ASSUME NEW s \in ledger
                 PROVE  /\ Range(s.encrypted_blobs) =
                              {f \in Fields(s.env) : s.payload[f] = "encrypted"}
                        /\ \A i, j \in DOMAIN s.encrypted_blobs : i < j =>
                              \E k, l \in DOMAIN FieldsOf[s.env] :
                                  /\ k < l /\ FieldsOf[s.env][k] = s.encrypted_blobs[i]
                                  /\ FieldsOf[s.env][l] = s.encrypted_blobs[j]
      BY DEF BlobsMatchPlaceholders
    <2>1. BlobsFit(s) /\ s.env \in Envelopes /\ DOMAIN s.payload = Fields(s.env)
      BY DEF StoredAsDecided, LedgerInv, EntryInv
    <2>2. \A i, j \in DOMAIN s.encrypted_blobs : i < j =>
             Precedes(FieldsOf[s.env], s.encrypted_blobs[i], s.encrypted_blobs[j])
      BY <2>1 DEF BlobsFit, InOrder
    <2>3. Range(s.encrypted_blobs) = {f \in Fields(s.env) : s.payload[f] = "encrypted"}
      BY <2>1 DEF BlobsFit, Range
    <2> QED BY <2>2, <2>3 DEF Precedes
  <1>4. OpenOnlyWithoutPolicy
    <2> SUFFICES ASSUME NEW s \in ledger, NEW f \in Fields(s.env), s.payload[f] = "verbatim",
                        \A v \in Versions : classify(v, SubjectOf[s.env], f) # "keep",
                        s.by # None
                 PROVE  FALSE
      BY DEF OpenOnlyWithoutPolicy
    <2>1. AsDecided(s, f) /\ s.by \in Versions \cup {Unreadable}
      BY DEF StoredAsDecided, LedgerInv, EntryInv
    <2>2. s.by # Unreadable /\ f \notin s.failed
      BY <2>1 DEF AsDecided
    <2>3. s.payload[f] = Outcome(Decision(s.env, s.by, f)) /\ s.by \in Versions
      BY <2>1, <2>2 DEF AsDecided
    <2> QED BY <2>3, DecisionFacts
  <1> QED BY <1>1, <1>2, <1>3, <1>4 DEF RedactInv

(* The invariant holds initially.                                          *)
LEMMA StoredInit == RedactInit => StoredAsDecided
  <1> SUFFICES ASSUME RedactInit PROVE StoredAsDecided OBVIOUS
  <1>1. WorldInv
    BY VersionFacts, RedactionAssumption DEF RedactInit, WorldInv
  <1> QED BY <1>1 DEF RedactInit, StoredAsDecided, JobInv, LedgerInv

-----------------------------------------------------------------------------
(* What one more field does to an entry: t is s with the outcome of f.     *)
Adds(s, t, f, outcome, blobs, failed) ==
    /\ t.env = s.env /\ t.by = s.by /\ t.payload = With(s.payload, f, outcome)
    /\ t.encrypted_blobs = s.encrypted_blobs \o blobs /\ t.failed = s.failed \cup failed
    /\ \/ /\ outcome = Outcome(Decision(s.env, s.by, f)) /\ failed = {}
          /\ blobs = IF outcome = "encrypted" THEN <<f>> ELSE <<>>
       \/ outcome = "redacted" /\ failed = {f} /\ blobs = <<>>

(* A field with its outcome extends a payload that is as decided.          *)
LEMMA FieldAdded ==
  ASSUME NEW s, NEW t, NEW n, NEW f, NEW outcome, NEW blobs, NEW failed,
         EntryInv(s), Behind(s, n), s.failed \subseteq DOMAIN s.payload,
         redaction_enabled, s.by # Unreadable,
         n \in 0 .. Len(FieldsOf[s.env]) - 1, f = FieldsOf[s.env][n + 1],
         Adds(s, t, f, outcome, blobs, failed)
  PROVE  EntryInv(t) /\ Behind(t, n + 1) /\ t.failed \subseteq DOMAIN t.payload
  <1> USE DEF Adds
  <1> DEFINE fields == FieldsOf[s.env]
  <1>1. /\ s.env \in Envelopes /\ s.by \in Versions \cup {None, Unreadable}
        /\ \A g \in DOMAIN s.payload : s.payload[g] \in Outcomes /\ AsDecided(s, g)
        /\ BlobsFit(s)
    BY DEF EntryInv
  <1>2. /\ fields \in Seq(Fields(s.env)) /\ Len(fields) \in Nat /\ DOMAIN fields = 1 .. Len(fields)
        /\ \A i, j \in 1 .. Len(fields) : fields[i] = fields[j] => i = j
        /\ Fields(s.env) = {fields[i] : i \in 1 .. Len(fields)}
    BY <1>1, FieldFacts
  <1>3. n \in Nat /\ n + 1 \in 1 .. Len(fields) /\ DOMAIN s.payload = {fields[i] : i \in 1 .. n}
    BY <1>2 DEF Behind
  <1>4. f \notin DOMAIN s.payload /\ f \in Fields(s.env)
    <2>1. f = fields[n + 1] /\ f \in Fields(s.env)
      BY <1>2, <1>3
    <2>2. \A i \in 1 .. n : i \in 1 .. Len(fields) /\ i # n + 1
      BY <1>2, <1>3
    <2>3. \A i \in 1 .. n : fields[i] # f
      BY <1>2, <1>3, <2>1, <2>2
    <2> QED BY <1>3, <2>1, <2>3
  <1>5. DOMAIN t.payload = DOMAIN s.payload \cup {f} /\ t.payload[f] = outcome
        /\ \A g \in DOMAIN s.payload : t.payload[g] = s.payload[g]
    BY <1>4 DEF With
  <1>6. Behind(t, n + 1)
    <2>1. \A i \in 1 .. n + 1 : i \in 1 .. n \/ i = n + 1
      BY <1>3
    <2>2. \A i \in 1 .. n : i \in 1 .. n + 1
      BY <1>3
    <2> QED BY <1>3, <1>5, <2>1, <2>2 DEF Behind
  <1>7. outcome = "encrypted" => blobs = <<f>>
    OBVIOUS
  <1>7a. outcome \in Outcomes
    BY DecisionFacts DEF Outcomes
  <1>8. \A g \in DOMAIN t.payload : t.payload[g] \in Outcomes
    BY <1>1, <1>5, <1>7a
  <1>9. \A g \in DOMAIN t.payload : AsDecided(t, g)
    <2>1. ASSUME NEW g \in DOMAIN s.payload PROVE AsDecided(t, g)
      <3>1. g # f /\ (g \in t.failed <=> g \in s.failed)
        BY <1>4
      <3> QED BY <1>1, <1>5, <3>1 DEF AsDecided
    <2>2. AsDecided(t, f)
      <3>1. f \in t.failed <=> failed = {f}
        BY <1>4
      <3> QED BY <1>5, <3>1 DEF AsDecided
    <2> QED BY <1>5, <2>1, <2>2
  <1>10. BlobsFit(t)
    <2>1. /\ s.encrypted_blobs \in Seq(Fields(s.env)) /\ Len(s.encrypted_blobs) \in Nat
          /\ DOMAIN s.encrypted_blobs = 1 .. Len(s.encrypted_blobs)
          /\ \A i \in 1 .. Len(s.encrypted_blobs) :
                s.encrypted_blobs[i] \in DOMAIN s.payload /\ s.payload[s.encrypted_blobs[i]] = "encrypted"
      BY <1>1 DEF BlobsFit
    <2>2. CASE outcome # "encrypted"
      <3>1. t.encrypted_blobs = s.encrypted_blobs
        BY <2>1, <2>2
      <3> QED BY <1>1, <1>4, <1>5, <2>2, <3>1 DEF BlobsFit, InOrder
    <2>3. CASE outcome = "encrypted"
      <3> DEFINE m == Len(s.encrypted_blobs)
      <3>0. /\ m \in Nat /\ DOMAIN s.encrypted_blobs = 1 .. m
            /\ \A i, j \in 1 .. m : i < j =>
                  Precedes(fields, s.encrypted_blobs[i], s.encrypted_blobs[j])
        BY <1>1, <2>1 DEF BlobsFit, InOrder
      <3>1. t.encrypted_blobs = Append(s.encrypted_blobs, f)
        <4>1. t.encrypted_blobs = s.encrypted_blobs \o <<f>>
          BY <1>7, <2>3
        <4>2. s.encrypted_blobs \o <<f>> = Append(s.encrypted_blobs, f)
          BY <1>4, <2>1, AppendIsConcat
        <4> QED BY <4>1, <4>2
      <3>2. /\ DOMAIN t.encrypted_blobs = 1 .. m + 1 /\ t.encrypted_blobs[m + 1] = f
            /\ \A i \in 1 .. m : t.encrypted_blobs[i] = s.encrypted_blobs[i]
            /\ t.encrypted_blobs \in Seq(Fields(s.env))
        BY <1>4, <2>1, <3>1
      <3>3. \A g \in DOMAIN t.payload : t.payload[g] = "encrypted" =>
               \E i \in DOMAIN t.encrypted_blobs : t.encrypted_blobs[i] = g
        <4>1. ASSUME NEW g \in DOMAIN s.payload, s.payload[g] = "encrypted"
              PROVE  \E i \in DOMAIN t.encrypted_blobs : t.encrypted_blobs[i] = g
          <5>1. PICK i \in 1 .. m : s.encrypted_blobs[i] = g
            BY <1>1, <2>1, <4>1 DEF BlobsFit
          <5>2. i \in 1 .. m + 1
            BY <2>1
          <5> QED BY <3>2, <5>1, <5>2
        <4>2. m + 1 \in DOMAIN t.encrypted_blobs
          BY <2>1, <3>2
        <4> QED BY <1>5, <3>2, <4>1, <4>2
      <3>4. \A i \in 1 .. m + 1 : i \in 1 .. m \/ i = m + 1
        BY <2>1
      <3>5. \A i \in DOMAIN t.encrypted_blobs :
               /\ t.encrypted_blobs[i] \in DOMAIN t.payload
               /\ t.payload[t.encrypted_blobs[i]] = "encrypted"
        BY <1>5, <2>1, <2>3, <3>2, <3>4
      <3>6. ASSUME NEW i \in 1 .. m + 1, NEW j \in 1 .. m + 1, i < j
            PROVE  Precedes(fields, t.encrypted_blobs[i], t.encrypted_blobs[j])
        <4>1. i \in 1 .. m
          BY <2>1, <3>6
        <4>2. CASE j \in 1 .. m
          <5>1. Precedes(fields, s.encrypted_blobs[i], s.encrypted_blobs[j])
            BY <3>0, <3>6, <4>1, <4>2
          <5> QED BY <3>2, <4>1, <4>2, <5>1
        <4>3. CASE j = m + 1
          <5>1. PICK k \in 1 .. n : fields[k] = s.encrypted_blobs[i]
            BY <1>3, <2>1, <4>1
          <5>2. k < n + 1 /\ k \in DOMAIN fields /\ n + 1 \in DOMAIN fields
            BY <1>2, <1>3
          <5>3. Precedes(fields, s.encrypted_blobs[i], f)
            BY <1>3, <5>1, <5>2 DEF Precedes
          <5> QED BY <3>2, <4>1, <4>3, <5>3
        <4> QED BY <3>4, <4>2, <4>3
      <3>7. InOrder(t)
        BY <3>2, <3>6 DEF InOrder
      <3>8. t.encrypted_blobs \in Seq(Fields(t.env))
        BY <3>2
      <3> HIDE DEF m, fields
      <3> QED BY <3>3, <3>5, <3>7, <3>8 DEF BlobsFit
    <2> QED BY <2>2, <2>3
  <1>11. t.failed \subseteq DOMAIN t.payload
    BY <1>5
  <1> QED BY <1>1, <1>6, <1>8, <1>9, <1>10, <1>11 DEF EntryInv

-----------------------------------------------------------------------------
(* The steps.                                                              *)

(* A step keeps the types of queue, policies and faults.                   *)
LEMMA WorldStep == StoredAsDecided /\ [RedactNext]_redactVars => WorldInv'
  <1> SUFFICES ASSUME StoredAsDecided, [RedactNext]_redactVars PROVE WorldInv'
    OBVIOUS
  <1>0. WorldInv /\ MaxRedactFaults \in Nat
    BY RedactionAssumption DEF StoredAsDecided
  <1>1. Fault => redact_faults' \in 0 .. MaxRedactFaults
    BY <1>0 DEF WorldInv, Fault
  <1> USE <1>0, <1>1 DEF WorldInv
  <1>2. ASSUME NEW e \in Envelopes, Begin(e) PROVE WorldInv'
    BY <1>2 DEF Begin
  <1>3. CASE QueryOpa
    BY <1>3 DEF QueryOpa
  <1>4. CASE OpaUnavailable
    BY <1>4 DEF OpaUnavailable
  <1>5. CASE Drop \/ Keep \/ Seal \/ VaultFails
    BY <1>5 DEF Drop, Keep, Seal, VaultFails, InLoop
  <1>6. CASE Redacted
    BY <1>6 DEF Redacted
  <1>7. CASE Store
    BY <1>7 DEF Store
  <1>8. CASE StoreFails
    BY <1>8 DEF StoreFails
  <1>9. CASE CoreRestarts
    BY <1>9 DEF CoreRestarts
  <1>10. CASE PolicyEdited
    BY <1>10 DEF PolicyEdited
  <1>11. CASE OpaStops
    BY <1>11 DEF OpaStops
  <1>12. CASE OpaStarts
    BY <1>12 DEF OpaStarts
  <1>13. CASE UNCHANGED redactVars
    BY <1>13 DEF redactVars
  <1> QED BY <1>2, <1>3, <1>4, <1>5, <1>6, <1>7, <1>8, <1>9, <1>10, <1>11, <1>12, <1>13
          DEF RedactNext

(* A step stores only what is as decided.                                  *)
LEMMA LedgerStep == StoredAsDecided /\ [RedactNext]_redactVars => LedgerInv'
  <1> SUFFICES ASSUME StoredAsDecided, [RedactNext]_redactVars PROVE LedgerInv'
    OBVIOUS
  <1>0. LedgerInv
    BY DEF StoredAsDecided
  <1>1. CASE Store
    <2>1. EntryInv(Entry) /\ DOMAIN Entry.payload = Fields(Entry.env)
      BY <1>1 DEF Store, StoredAsDecided, JobInv, Idle, Entry
    <2>2. ledger' = ledger \cup {Entry}
      BY <1>1 DEF Store
    <2> QED BY <1>0, <2>1, <2>2 DEF LedgerInv
  <1>2. CASE UNCHANGED ledger
    BY <1>0, <1>2 DEF LedgerInv
  <1> QED BY <1>1, <1>2 DEF RedactNext, redactVars, Begin, QueryOpa, OpaUnavailable, Drop, Keep,
             Seal, VaultFails, InLoop, Redacted, StoreFails, CoreRestarts, PolicyEdited,
             OpaStops, OpaStarts

(* The rest of a sequence that is not empty.                               *)
LEMMA TailFacts ==
  ASSUME NEW S, NEW q \in Seq(S), q # <<>>
  PROVE  /\ Len(q) \in Nat \ {0} /\ Head(q) = q[1]
         /\ Tail(q) \in Seq(S) /\ Len(Tail(q)) = Len(q) - 1
         /\ \A i \in 1 .. Len(q) - 1 : Tail(q)[i] = q[i + 1]
  BY HeadTailProperties, EmptySeq

(* One more field, whatever comes of it.                                   *)
LEMMA FieldStep == StoredAsDecided /\ (Drop \/ Keep \/ Seal \/ VaultFails) => JobInv'
  <1> SUFFICES ASSUME StoredAsDecided, Drop \/ Keep \/ Seal \/ VaultFails PROVE JobInv'
    OBVIOUS
  <1> DEFINE f == Head(job.left)
             fields == FieldsOf[job.env]
             n == Len(fields) - Len(job.left)
  <1>1. PICK outcome, blobs, failed :
           /\ NextField(outcome, blobs, failed)
           /\ \/ /\ outcome = Outcome(Decision(job.env, job.by, f)) /\ failed = {}
                 /\ blobs = IF outcome = "encrypted" THEN <<f>> ELSE <<>>
              \/ outcome = "redacted" /\ failed = {f} /\ blobs = <<>>
    BY DEF Drop, Keep, Seal, VaultFails, InLoop, Outcome
  <1>2. job.at = "fields" /\ job.left # <<>> /\ queue' = queue
    BY DEF Drop, Keep, Seal, VaultFails, InLoop
  <1>3. /\ DOMAIN job = JobFields /\ job.env \in queue /\ EntryInv(Entry)
        /\ redaction_enabled /\ LoopInv /\ job.by # Unreadable
    BY <1>2 DEF StoredAsDecided, JobInv, Idle
  <1>4. /\ DOMAIN job' = JobFields
        /\ job'.at = "fields" /\ job'.env = job.env /\ job'.by = job.by
        /\ job'.left = Tail(job.left) /\ job'.out = With(job.out, f, outcome)
        /\ job'.blobs = job.blobs \o blobs /\ job'.failed = job.failed \cup failed
    BY <1>1, <1>2, <1>3 DEF NextField, JobFields
  <1>5. Len(fields) \in Nat /\ job.left \in Seq(Fields(job.env)) /\ n \in 0 .. Len(fields)
        /\ \A i \in 1 .. Len(job.left) : job.left[i] = fields[n + i]
    BY <1>3, FieldFacts DEF LoopInv, StoredAsDecided, WorldInv
  <1>6. /\ Len(job.left) \in Nat \ {0} /\ f = job.left[1]
        /\ Tail(job.left) \in Seq(Fields(job.env)) /\ Len(Tail(job.left)) = Len(job.left) - 1
        /\ \A i \in 1 .. Len(job.left) - 1 : Tail(job.left)[i] = job.left[i + 1]
    BY <1>2, <1>5, TailFacts
  <1>7. n \in 0 .. Len(fields) - 1 /\ f = fields[n + 1]
    <2> HIDE DEF f, fields
    <2>1. 1 \in 1 .. Len(job.left)
      BY <1>6
    <2>2. f = fields[n + 1]
      BY <1>5, <1>6, <2>1
    <2> QED BY <1>5, <1>6, <2>2
  <1>8. EntryInv(Entry') /\ Behind(Entry', n + 1) /\ Entry'.failed \subseteq DOMAIN Entry'.payload
    <2>1. /\ Entry.env = job.env /\ Entry.by = job.by /\ Entry.payload = job.out
          /\ Entry.encrypted_blobs = job.blobs /\ Entry.failed = job.failed
          /\ Entry'.env = job.env /\ Entry'.by = job.by
          /\ Entry'.payload = With(job.out, f, outcome)
          /\ Entry'.encrypted_blobs = job.blobs \o blobs /\ Entry'.failed = job.failed \cup failed
      BY <1>4 DEF Entry
    <2>3. \/ /\ outcome = Outcome(Decision(Entry.env, Entry.by, f)) /\ failed = {}
             /\ blobs = IF outcome = "encrypted" THEN <<f>> ELSE <<>>
          \/ outcome = "redacted" /\ failed = {f} /\ blobs = <<>>
      BY <1>1, <2>1
    <2>4. /\ n \in 0 .. Len(FieldsOf[Entry.env]) - 1 /\ f = FieldsOf[Entry.env][n + 1]
          /\ Entry.failed \subseteq DOMAIN Entry.payload /\ Entry.by # Unreadable
          /\ Behind(Entry, n)
      BY <1>3, <1>7, <2>1 DEF LoopInv
    <2>5. /\ Entry'.env = Entry.env /\ Entry'.by = Entry.by
          /\ Entry'.payload = With(Entry.payload, f, outcome)
          /\ Entry'.encrypted_blobs = Entry.encrypted_blobs \o blobs
          /\ Entry'.failed = Entry.failed \cup failed
      BY <2>1
    <2>6. PICK s, t, g, k : s = Entry /\ t = Entry' /\ g = f /\ k = n
      OBVIOUS
    <2> HIDE DEF f, n
    <2>7. EntryInv(s) /\ redaction_enabled
      BY <1>3, <2>6
    <2>8. /\ k \in 0 .. Len(FieldsOf[s.env]) - 1 /\ g = FieldsOf[s.env][k + 1]
          /\ s.failed \subseteq DOMAIN s.payload /\ s.by # Unreadable
          /\ Behind(s, k)
      BY <2>4, <2>6
    <2>9. Adds(s, t, g, outcome, blobs, failed)
      BY <2>3, <2>5, <2>6 DEF Adds
    <2>10. EntryInv(t) /\ Behind(t, k + 1) /\ t.failed \subseteq DOMAIN t.payload
      BY <2>7, <2>8, <2>9, FieldAdded
    <2> QED BY <2>6, <2>10
  <1>9. LoopInv'
    <2> HIDE DEF f
    <2>1. Len(FieldsOf[job'.env]) - Len(job'.left) = n + 1
      <3>1. FieldsOf[job'.env] = fields /\ Len(job'.left) = Len(job.left) - 1
        BY <1>4, <1>6
      <3> HIDE DEF fields
      <3> QED BY <1>5, <1>6, <3>1
    <2>2. \A i \in 1 .. Len(job'.left) : job'.left[i] = FieldsOf[job'.env][n + 1 + i]
      <3> TAKE i \in 1 .. Len(job'.left)
      <3>1. i \in 1 .. Len(job.left) - 1 /\ i + 1 \in 1 .. Len(job.left) /\ i \in Nat
        BY <1>4, <1>6
      <3>2. Tail(job.left)[i] = fields[n + (i + 1)]
        BY <1>5, <1>6, <3>1
      <3>3. n \in Int /\ i \in Int
        BY <1>5, <3>1
      <3> HIDE DEF n
      <3>4. n + (i + 1) = n + 1 + i
        BY <3>3
      <3> QED BY <1>4, <3>2, <3>4
    <2>3. n + 1 \in 0 .. Len(FieldsOf[job'.env])
      <3>1. FieldsOf[job'.env] = fields
        BY <1>4
      <3>2. \A k, m : m \in Nat /\ k \in 0 .. m - 1 => k + 1 \in 0 .. m
        OBVIOUS
      <3> HIDE DEF n, fields
      <3> QED BY <1>5, <1>7, <3>1, <3>2
    <2>4. job'.left \in Seq(Fields(job'.env))
      BY <1>4, <1>6
    <2> HIDE DEF n
    <2> QED BY <1>8, <2>1, <2>2, <2>3, <2>4 DEF LoopInv, Entry
  <1> QED BY <1>2, <1>3, <1>4, <1>8, <1>9 DEF JobInv

(* What Begin, an answer of OPA and the end of the loop make of the job.   *)
LEMMA BeginStep ==
  ASSUME StoredAsDecided, NEW e \in Envelopes, Begin(e)
  PROVE  JobInv'
  <1> DEFINE skip == FieldsOf[e] = <<>> \/ ~ redaction_enabled
             out == IF skip THEN All(e, "verbatim") ELSE <<>>
  <1>1. /\ job' = [at |-> IF skip THEN "store" ELSE "query", env |-> e,
                   version |-> cached', by |-> None, left |-> FieldsOf[e], out |-> out,
                   blobs |-> <<>>, failed |-> {}]
        /\ e \in queue /\ queue' = queue
    BY DEF Begin
  <1>2. /\ DOMAIN job' = JobFields /\ job'.env = e /\ job'.by = None /\ job'.out = out
        /\ job'.left = FieldsOf[e] /\ job'.blobs = <<>> /\ job'.failed = {}
        /\ job'.at = IF skip THEN "store" ELSE "query"
    BY <1>1 DEF JobFields
  <1>3. /\ FieldsOf[e] \in Seq(Fields(e)) /\ Len(FieldsOf[e]) \in Nat
        /\ Fields(e) = {FieldsOf[e][i] : i \in 1 .. Len(FieldsOf[e])}
    BY FieldFacts
  <1>4. skip => (DOMAIN out = Fields(e) /\ \A f \in DOMAIN out : out[f] = "verbatim")
    BY DEF All
  <1>5. ~ skip => DOMAIN out = {}
    OBVIOUS
  <1>6. redaction_enabled => DOMAIN out = {}
    <2>1. FieldsOf[e] = <<>> => Fields(e) = {}
      BY <1>3
    <2> QED BY <1>4, <1>5, <2>1
  <1>7. /\ Entry'.env = e /\ Entry'.by = None /\ Entry'.payload = out
        /\ Entry'.encrypted_blobs = <<>> /\ Entry'.failed = {}
    BY <1>2 DEF Entry
  <1> HIDE DEF out
  <1>8. EntryInv(Entry')
    <2>1. BlobsFit(Entry')
      <3>1. <<>> \in Seq(Fields(e)) /\ DOMAIN <<>> = {}
        OBVIOUS
      <3> QED BY <1>4, <1>5, <1>7, <3>1 DEF BlobsFit, InOrder
    <2>2. \A f \in DOMAIN out : out[f] \in Outcomes
      BY <1>4, <1>5 DEF Outcomes
    <2> QED BY <1>6, <1>7, <2>1, <2>2 DEF EntryInv
  <1>9. ~ skip => LoopInv'
    <2> SUFFICES ASSUME ~ skip PROVE LoopInv'
      OBVIOUS
    <2>1. Behind(Entry', 0)
      BY <1>5, <1>7 DEF Behind
    <2>2. Len(FieldsOf[job'.env]) - Len(job'.left) = 0
      BY <1>2, <1>3
    <2>3. 0 \in 0 .. Len(FieldsOf[job'.env]) /\ job'.left \in Seq(Fields(job'.env))
      BY <1>2, <1>3
    <2>4. \A i \in 1 .. Len(job'.left) : job'.left[i] = FieldsOf[job'.env][0 + i]
      BY <1>2, <1>3
    <2>5. job'.failed \subseteq DOMAIN job'.out
      BY <1>2
    <2> QED BY <2>1, <2>2, <2>3, <2>4, <2>5 DEF LoopInv
  <1> QED BY <1>1, <1>2, <1>4, <1>5, <1>8, <1>9 DEF JobInv, None, Unreadable

(* The answer of OPA, or its absence, starts the loop at its first field.  *)
LEMMA OpaStep == StoredAsDecided /\ (QueryOpa \/ OpaUnavailable) => JobInv'
  <1> SUFFICES ASSUME StoredAsDecided, QueryOpa \/ OpaUnavailable PROVE JobInv'
    OBVIOUS
  <1>1. /\ job.at = "query" /\ queue' = queue
        /\ DOMAIN job = JobFields /\ job.env \in queue /\ EntryInv(Entry)
        /\ redaction_enabled /\ LoopInv /\ job.left = FieldsOf[job.env]
        /\ job.out = <<>> /\ job.blobs = <<>> /\ job.failed = {}
        /\ job.env \in Envelopes /\ opa.policy \in Versions \cup {None}
    BY DEF QueryOpa, OpaUnavailable, StoredAsDecided, JobInv, Idle, WorldInv
  <1>2. BlobsFit(Entry) /\ Entry.env = job.env /\ Entry.encrypted_blobs = <<>>
    BY <1>1 DEF EntryInv, Entry
  <1>3. CASE QueryOpa
    <2>1. /\ DOMAIN job' = JobFields /\ job'.at = "fields" /\ job'.by = opa.policy
          /\ job'.env = job.env /\ job'.left = job.left /\ job'.out = <<>>
          /\ job'.blobs = <<>> /\ job'.failed = {}
      BY <1>1, <1>3 DEF QueryOpa, JobFields
    <2>2. /\ Entry'.env = job.env /\ Entry'.by = opa.policy /\ Entry'.payload = <<>>
          /\ Entry'.encrypted_blobs = <<>> /\ Entry'.failed = {}
      BY <2>1 DEF Entry
    <2>3. DOMAIN Entry'.payload = {} /\ DOMAIN Entry'.encrypted_blobs = {}
      BY <2>2
    <2>4. BlobsFit(Entry')
      BY <2>2, <2>3 DEF BlobsFit, InOrder
    <2>5. EntryInv(Entry')
      BY <1>1, <2>2, <2>3, <2>4 DEF EntryInv
    <2>6. LoopInv'
      <3>1. Entry.payload = <<>> /\ Entry.env = job.env
        BY <1>1 DEF Entry
      <3> QED BY <1>1, <2>1, <2>2, <3>1 DEF LoopInv, Behind
    <2> QED BY <1>1, <2>1, <2>5, <2>6, VersionFacts DEF JobInv, None, Unreadable
  <1>4. CASE OpaUnavailable
    <2>1. /\ DOMAIN job' = JobFields /\ job'.at = "store" /\ job'.by = Unreadable
          /\ job'.env = job.env /\ job'.out = All(job.env, "unavailable")
          /\ job'.blobs = <<>> /\ job'.failed = {}
      BY <1>1, <1>4 DEF OpaUnavailable, JobFields
    <2>2. /\ Entry'.env = job.env /\ Entry'.by = Unreadable
          /\ DOMAIN Entry'.payload = Fields(job.env)
          /\ \A f \in DOMAIN Entry'.payload : Entry'.payload[f] = "unavailable"
          /\ Entry'.encrypted_blobs = <<>>
      BY <2>1 DEF Entry, All
    <2>3. DOMAIN Entry'.encrypted_blobs = {} /\ <<>> \in Seq(Fields(job.env))
      BY <2>2
    <2>4. BlobsFit(Entry')
      BY <2>2, <2>3 DEF BlobsFit, InOrder
    <2>5. EntryInv(Entry')
      BY <1>1, <2>2, <2>4 DEF EntryInv, AsDecided, Outcomes
    <2> QED BY <1>1, <2>1, <2>2, <2>5 DEF JobInv, Entry
  <1> QED BY <1>3, <1>4

(* The end of the loop has decided every field.                            *)
LEMMA LoopEnds == StoredAsDecided /\ Redacted => JobInv'
  <1> SUFFICES ASSUME StoredAsDecided, Redacted PROVE JobInv'
    OBVIOUS
  <1>1. /\ DOMAIN job = JobFields /\ job.at = "fields" /\ job.left = <<>>
        /\ job.env \in queue /\ EntryInv(Entry) /\ LoopInv
        /\ job.env \in Envelopes /\ queue' = queue
    BY DEF Redacted, StoredAsDecided, JobInv, Idle, WorldInv
  <1>2. DOMAIN job.out = Fields(job.env)
    <2>1. Entry.payload = job.out /\ Entry.env = job.env
      BY DEF Entry
    <2>2. Behind(Entry, Len(FieldsOf[job.env]))
      BY <1>1, FieldFacts DEF LoopInv
    <2> QED BY <1>1, <2>1, <2>2, FieldFacts DEF Behind
  <1>3. /\ DOMAIN job' = JobFields /\ job'.at = "store" /\ job'.env = job.env
        /\ job'.out = job.out /\ Entry' = Entry
    BY <1>1 DEF Redacted, JobFields, Entry
  <1> QED BY <1>1, <1>2, <1>3 DEF JobInv

(* The invariant is kept by every step.                                    *)
LEMMA StoredStep == StoredAsDecided /\ [RedactNext]_redactVars => StoredAsDecided'
  <1> SUFFICES ASSUME StoredAsDecided, [RedactNext]_redactVars PROVE JobInv'
    BY WorldStep, LedgerStep DEF StoredAsDecided
  <1>1. CASE job' = Idle
    BY <1>1 DEF JobInv
  <1>2. CASE job' = job /\ queue' = queue
    BY <1>2 DEF StoredAsDecided, JobInv, LoopInv, Entry, Behind
  <1>3. CASE \E e \in Envelopes : Begin(e)
    BY <1>3, BeginStep
  <1>4. CASE QueryOpa \/ OpaUnavailable
    BY <1>4, OpaStep
  <1>5. CASE Drop \/ Keep \/ Seal \/ VaultFails
    BY <1>5, FieldStep
  <1>6. CASE Redacted
    BY <1>6, LoopEnds
  <1> QED BY <1>1, <1>2, <1>3, <1>4, <1>5, <1>6
          DEF RedactNext, redactVars, Store, StoreFails, CoreRestarts, PolicyEdited,
              OpaStops, OpaStarts

-----------------------------------------------------------------------------
(* Every field stored is as OPA, Vault and its own entropy decided.        *)
THEOREM Stored == RedactSpec => []StoredAsDecided
  BY StoredInit, StoredStep, PTL DEF RedactSpec

(***************************************************************************)
(* Whatever fails, and whenever: a stored payload is, field by field, what *)
(* the policy that OPA had made of it, and its blobs are its placeholders' *)
(* (redact() between the first field and the last).                        *)
(***************************************************************************)
THEOREM FieldsAreAsDecided == RedactSpec => []RedactInv
  BY Stored, StoredMeaning, PTL

(***************************************************************************)
(* A value that every version of redaction.rego drops or encrypts is in    *)
(* the ledger only when OPA answered without a policy, or redaction was    *)
(* switched off.  When OPA or Vault cannot be asked it is not: no failure  *)
(* of a call opens a value ("Never fail open").                            *)
(***************************************************************************)
THEOREM NeverOpen == RedactSpec => []OpenOnlyWithoutPolicy
  BY Stored, StoredMeaning, PTL
=============================================================================
