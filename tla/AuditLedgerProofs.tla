-------------------------- MODULE AuditLedgerProofs --------------------------
(***************************************************************************)
(* Facts about the ledger that the proofs of its writer and of its readers *)
(* share: what set_envelope() changes, that the ledger is finite, and what *)
(* one capped scan returns.                                                *)
(***************************************************************************)
EXTENDS AuditLedger, SequenceTheorems, FiniteSetTheorems, WellFoundedInduction,
        TLAPS

(* Appending to a sequence keeps its elements and adds one.                *)
LEMMA AppendFacts ==
    ASSUME NEW S, NEW s \in Seq(S), NEW x \in S
    PROVE  /\ Append(s, x) \in Seq(S)
           /\ Len(Append(s, x)) = Len(s) + 1
           /\ DOMAIN Append(s, x) = 1 .. Len(s) + 1
           /\ \A i \in 1 .. Len(s) : Append(s, x)[i] = s[i]
           /\ Append(s, x)[Len(s) + 1] = x
  OBVIOUS

(* set_envelope() keeps every body, and puts the one it is given under its *)
(* key.                                                                    *)
LEMMA SetEnvelopeFacts ==
    ASSUME LedgerTypeOK, NEW b \in Body, NEW s \in BOOLEAN, SetEnvelope(b, s)
    PROVE  /\ LedgerTypeOK'
           /\ Len(bodies') >= Len(bodies)
           /\ \A i \in DOMAIN bodies : i \in DOMAIN bodies' /\ bodies'[i] = bodies[i]
           /\ \A i \in DOMAIN bodies' :
                  i \notin DOMAIN bodies => i = Len(bodies) + 1 /\ bodies'[i] = b
           /\ ledger'[b.env].id \in DOMAIN bodies'
           /\ bodies'[ledger'[b.env].id] = b
           /\ \A e \in Envelopes \ {b.env} : ledger'[e] = ledger[e]
<1>1. b.env \in Envelopes
  BY DEF Body
<1>2. CASE /\ bodies' = Append(bodies, b)
           /\ ledger' = [ledger EXCEPT ![b.env] =
                            [id |-> Len(bodies) + 1, sealed |-> s]]
  BY <1>1, <1>2, AppendFacts DEF LedgerTypeOK, Hashes, Version
<1>3. CASE \E i \in DOMAIN bodies :
             /\ bodies[i] = b
             /\ bodies' = bodies
             /\ ledger' = [ledger EXCEPT ![b.env] = [id |-> i, sealed |-> s]]
  <2>1. PICK i \in DOMAIN bodies :
             /\ bodies[i] = b
             /\ bodies' = bodies
             /\ ledger' = [ledger EXCEPT ![b.env] = [id |-> i, sealed |-> s]]
    BY <1>3
  <2>2. DOMAIN bodies = 1 .. Len(bodies) /\ Len(bodies) \in Nat
    BY DEF LedgerTypeOK
  <2> QED
    BY <1>1, <2>1, <2>2 DEF LedgerTypeOK, Hashes, Version
<1> QED
  BY <1>2, <1>3 DEF SetEnvelope

(* A set of natural numbers has a least one, and, when it is bounded, a    *)
(* greatest one.                                                           *)
LEMMA LeastNat ==
    ASSUME NEW S \in SUBSET Nat, S # {}
    PROVE  \E n \in S : \A m \in S : n <= m
<1>1. PICK n \in S : \A m \in S : ~ (<<m, n>> \in OpToRel(<, Nat))
  BY NatLessThanWellFounded, WFMin
<1>2. \A m \in S : ~ (m < n)
  BY <1>1 DEF OpToRel
<1> QED
  BY <1>2

(* A bounded set of naturals that is not empty has a greatest element.     *)
LEMMA GreatestNat ==
    ASSUME NEW S \in SUBSET Nat, S # {}, NEW b \in Nat, \A n \in S : n <= b
    PROVE  \E n \in S : \A m \in S : m <= n
<1> DEFINE T == {k \in Nat : \E n \in S : n + k = b}
<1>1. T \in SUBSET Nat /\ T # {}
  <2>1. PICK n \in S : n <= b
    OBVIOUS
  <2>2. b - n \in Nat /\ n + (b - n) = b
    BY <2>1
  <2> QED
    BY <2>2
<1>2. PICK t \in T : \A u \in T : t <= u
  BY <1>1, LeastNat
<1>3. PICK n \in S : n + t = b
  OBVIOUS
<1>4. ASSUME NEW m \in S PROVE m <= n
  <2>1. b - m \in T
    OBVIOUS
  <2> QED
    <3>1. t <= b - m /\ t \in Nat /\ m \in Nat /\ n \in Nat /\ n + t = b
      BY <1>2, <1>3, <2>1
    <3> HIDE DEF T
    <3> QED
      BY <3>1
<1> QED
  BY <1>4

-----------------------------------------------------------------------------
(* Identifiers that name a body of the right envelope.                     *)

Names(id, e) == id # 0 => id \in DOMAIN bodies /\ bodies[id].env = e

(* set_envelope() leaves every name good and stores one more envelope.     *)
LEMMA SetEnvelopeKeepsNames ==
    ASSUME LedgerTypeOK, NEW b \in Body, NEW s \in BOOLEAN, SetEnvelope(b, s)
    PROVE  /\ \A id \in Hashes, e \in Envelopes : Names(id, e) => Names(id, e)'
           /\ (\A e \in Envelopes : Names(ledger[e].id, e))
              => (\A e \in Envelopes : Names(ledger[e].id, e))'
           /\ Stored' = Stored \cup {b.env}
           /\ Hashes \subseteq Hashes'
<1>1. /\ LedgerTypeOK'
      /\ Len(bodies') >= Len(bodies)
      /\ \A i \in DOMAIN bodies : i \in DOMAIN bodies' /\ bodies'[i] = bodies[i]
      /\ ledger'[b.env].id \in DOMAIN bodies'
      /\ bodies'[ledger'[b.env].id] = b
      /\ \A e \in Envelopes \ {b.env} : ledger'[e] = ledger[e]
  BY SetEnvelopeFacts
<1>2. b.env \in Envelopes
  BY DEF Body
<1>3. \A id \in Hashes, e \in Envelopes : Names(id, e) => Names(id, e)'
  BY <1>1 DEF Names
<1>4. Hashes \subseteq Hashes'
  BY <1>1 DEF Hashes, LedgerTypeOK
<1>5. ASSUME \A e \in Envelopes : Names(ledger[e].id, e), NEW e \in Envelopes
      PROVE  Names(ledger[e].id, e)'
  <2>1. CASE e = b.env
    BY <1>1, <2>1 DEF Names
  <2>2. CASE e # b.env
    BY <1>1, <1>3, <1>5, <2>2 DEF Names, LedgerTypeOK
  <2> QED
    BY <2>1, <2>2
<1>6. 0 \notin DOMAIN bodies'
  BY <1>1 DEF LedgerTypeOK
<1>7. Stored' = Stored \cup {b.env}
  BY <1>1, <1>2, <1>6 DEF Stored
<1> QED
  BY <1>3, <1>4, <1>5, <1>7

(* Envelopes told apart by the bodies they name are no more than the       *)
(* bodies: a set of them is finite.                                        *)
LEMMA NamedIsFinite ==
    ASSUME LedgerTypeOK, NEW S \in SUBSET Envelopes, NEW id \in [Envelopes -> Hashes],
           \A e \in S : id[e] # 0 /\ Names(id[e], e)
    PROVE  IsFiniteSet(S)
<1> DEFINE f == [e \in S |-> id[e]]
<1>1. DOMAIN bodies = 1 .. Len(bodies) /\ Len(bodies) \in Nat
  BY DEF LedgerTypeOK
<1>2. f \in [S -> 1 .. Len(bodies)]
  BY <1>1 DEF Names
<1>3. \A a, b \in S : f[a] = f[b] => a = b
  BY DEF Names
<1>4. f \in Injection(S, 1 .. Len(bodies))
  BY <1>2, <1>3 DEF Injection, IsInjective
<1>5. IsFiniteSet(1 .. Len(bodies))
  BY <1>1, FS_Interval
<1> QED
  BY <1>4, <1>5, FS_Injection

(* scan() returns the smallest keys, and all of them below its cap.        *)
LEMMA ScanFacts ==
    ASSUME IsFiniteSet(Stored)
    PROVE  /\ Scan \subseteq Stored
           /\ \A f \in Scan, e \in Stored : Ulid[e] <= Ulid[f] => e \in Scan
           /\ Cardinality(Stored) <= ScanLimit => Scan = Stored
<1> DEFINE UpTo(e) == {f \in Stored : Ulid[f] <= Ulid[e]}
<1>1. \A e \in Stored : IsFiniteSet(UpTo(e)) /\ Cardinality(UpTo(e)) \in Nat
                        /\ Cardinality(UpTo(e)) <= Cardinality(Stored)
  BY FS_Subset, FS_CardinalityType
<1>2. ASSUME NEW f \in Scan, NEW e \in Stored, Ulid[e] <= Ulid[f]
      PROVE  e \in Scan
  <2>1. f \in Stored /\ Cardinality(UpTo(f)) <= ScanLimit
    BY DEF Scan
  <2>2. UpTo(e) \subseteq UpTo(f)
    BY <1>2, <2>1, LedgerAssumption DEF Stored
  <2>3. Cardinality(UpTo(e)) <= Cardinality(UpTo(f))
    BY <1>1, <2>1, <2>2, FS_Subset
  <2>4. Cardinality(UpTo(e)) <= ScanLimit
    <3> HIDE DEF UpTo
    <3> QED
      BY <1>1, <2>1, <2>3, LedgerAssumption
  <2> QED
    BY <2>4 DEF Scan
<1>3. ASSUME Cardinality(Stored) <= ScanLimit PROVE Scan = Stored
  <2>1. Cardinality(Stored) \in Nat
    BY FS_CardinalityType
  <2>2. ASSUME NEW e \in Stored PROVE Cardinality(UpTo(e)) <= ScanLimit
    <3>1. /\ Cardinality(UpTo(e)) \in Nat
          /\ Cardinality(UpTo(e)) <= Cardinality(Stored)
      BY <1>1
    <3> HIDE DEF UpTo
    <3> QED
      BY <1>3, <2>1, <3>1, LedgerAssumption
  <2> QED
    BY <2>2 DEF Scan
<1>4. Scan \subseteq Stored
  BY DEF Scan
<1> QED
  BY <1>2, <1>3, <1>4
=============================================================================
