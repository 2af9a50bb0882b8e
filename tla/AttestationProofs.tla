------------------------- MODULE AttestationProofs -------------------------
(***************************************************************************)
(* Proofs about Attestation: what the files of the attestation repository  *)
(* say of one another and of the projection, for any number of entries,    *)
(* days, publishers, publications, failing calls and rebuilds.             *)
(***************************************************************************)
EXTENDS Attestation, FiniteSetTheorems, FunctionTheorems, WellFoundedInduction, TLAPS

PubFields == {"at", "asked", "date", "doc", "sha", "fetched"}
LeavesOf(doc) == Range(doc.leaf_hashes)
Has(i, date) == commits[i].date = date

(* The days and the clock.                                                 *)
ClockInv ==
    /\ ts \in [Entries -> 0 .. clock]
    /\ rows \subseteq {e \in Entries : ts[e] # 0}
    /\ clock \in Nat /\ offset \in Offsets
    /\ truncated \subseteq {e \in Entries : ts[e] # 0}
    /\ started \in 0 .. MaxPublications /\ faults \in 0 .. MaxPublishFaults

(* The leaves of a document are entries of its day that have had a row.    *)
DocInv(doc, date) ==
    \A e \in LeavesOf(doc) : e \in rows \cup truncated /\ Within(ts[e], date)

(* A document fetched when there were n commits has the leaves of each     *)
(* version of its file among them, except what has been truncated.         *)
Covers(doc, date, n) ==
    \A i \in 1 .. n :
        Has(i, date) /\ Leaves(i) \cap truncated = {} => Leaves(i) \subseteq LeavesOf(doc)

PubInv ==
    /\ DOMAIN pub = Publishers /\ pub = [p \in Publishers |-> pub[p]]
    /\ \A p \in Publishers :
          /\ DOMAIN pub[p] = PubFields
          /\ pub[p].at \in {"idle", "fetch", "lookup", "put"}
          /\ pub[p].date \in Days \cup {0}
          /\ pub[p].at # "idle" => pub[p].date \in Days
          /\ pub[p].sha \in 0 .. Len(commits) /\ pub[p].fetched \in 0 .. Len(commits)
          /\ pub[p].at \in {"lookup", "put"} =>
                /\ DocInv(pub[p].doc, pub[p].date)
                /\ Covers(pub[p].doc, pub[p].date, pub[p].fetched)

(* A version replaces the one before it of the same file.                  *)
ChainInv ==
    /\ DOMAIN commits = 1 .. Len(commits) /\ Len(commits) \in Nat
    /\ \A j \in 1 .. Len(commits) :
          /\ commits[j].date \in Days
          /\ commits[j].base \in 0 .. j - 1
          /\ commits[j].base # 0 => Has(commits[j].base, commits[j].date)
          /\ \A i \in 1 .. j - 1 : Has(i, commits[j].date) => i <= commits[j].base
          /\ DocInv(commits[j].doc, commits[j].date)
          /\ commits[j].fetched \in 0 .. Len(commits)
          /\ Covers(commits[j].doc, commits[j].date, commits[j].fetched)

(* Without --date the day that was taken is over.                          *)
DefaultInv == DefaultDayIsOver

AttestProofInv == ClockInv /\ PubInv /\ ChainInv /\ DefaultInv

-----------------------------------------------------------------------------
(* Sets of entries in their order.                                         *)

(* A bounded set of naturals that is not empty has a greatest element.     *)
LEMMA GreatestOf ==
  ASSUME NEW S \in SUBSET Nat, S # {}, NEW b \in Nat, \A n \in S : n <= b
  PROVE  \E n \in S : \A m \in S : m <= n
  <1> DEFINE T == {k \in Nat : \E n \in S : n + k = b}
  <1>1. T \in SUBSET Nat /\ T # {}
    <2>1. PICK n \in S : n <= b
      OBVIOUS
    <2>2. b - n \in Nat /\ n + (b - n) = b
      BY <2>1
    <2> QED BY <2>2
  <1>2. PICK t \in T : \A u \in T : ~ (<<u, t>> \in OpToRel(<, Nat))
    BY <1>1, NatLessThanWellFounded, WFMin
  <1>3. \A u \in T : ~ (u < t)
    BY <1>2 DEF OpToRel
  <1>4. PICK n \in S : n + t = b
    OBVIOUS
  <1>5. ASSUME NEW m \in S PROVE m <= n
    <2>1. b - m \in T
      OBVIOUS
    <2>2. ~ (b - m < t) /\ t \in Nat /\ m \in Nat /\ n \in Nat
      BY <1>3, <2>1
    <2> HIDE DEF T
    <2> QED BY <1>4, <2>2
  <1> QED BY <1>5

(* The list of a set of entries has each of its elements, and no other.    *)
LEMMA OrderedFacts ==
  ASSUME NEW S \in SUBSET Entries
  PROVE  /\ Range(Ordered(S)) = S
         /\ Cardinality(S) \in Nat /\ Ordered(S) \in [1 .. Cardinality(S) -> S]
  <1> DEFINE c == Cardinality(S)
             upTo(e) == {f \in S : f <= e}
             rank == [e \in S |-> Rank(S, e)]
  <1>1. IsFiniteSet(S) /\ c \in Nat /\ IsFiniteSet(1 .. c) /\ Cardinality(1 .. c) = c
    <2>1. IsFiniteSet(Entries)
      BY AttestationAssumption, FS_Interval DEF Entries
    <2>2. IsFiniteSet(S) /\ c \in Nat
      BY <2>1, FS_Subset, FS_CardinalityType
    <2> QED BY <2>2, FS_Interval
  <1>2. \A e \in S : e \in Nat
    BY AttestationAssumption DEF Entries
  <1>3. ASSUME NEW e \in S PROVE Rank(S, e) \in 1 .. c
    <2>1. upTo(e) \in SUBSET S /\ e \in upTo(e)
      BY <1>2, <1>3
    <2>2. IsFiniteSet(upTo(e)) /\ Cardinality(upTo(e)) \in Nat /\ Cardinality(upTo(e)) <= c
      BY <1>1, <2>1, FS_Subset, FS_CardinalityType
    <2>3. Cardinality(upTo(e)) # 0
      BY <2>1, <2>2, FS_EmptySet
    <2> HIDE DEF c
    <2> QED BY <1>1, <2>2, <2>3 DEF Rank
  <1>4. ASSUME NEW e \in S, NEW f \in S, Rank(S, e) = Rank(S, f), e < f PROVE FALSE
    <2>1. upTo(e) \in SUBSET upTo(f) /\ f \in upTo(f) /\ f \notin upTo(e)
      BY <1>2, <1>4
    <2>2. IsFiniteSet(upTo(f))
      <3>1. upTo(f) \in SUBSET S
        OBVIOUS
      <3> QED BY <1>1, <3>1, FS_Subset
    <2>3. Cardinality(upTo(f)) = Cardinality(upTo(e))
      BY <1>4 DEF Rank
    <2>4. upTo(f) = upTo(e)
      <3> HIDE DEF upTo
      <3> QED BY <2>1, <2>2, <2>3, FS_Subset
    <2> QED BY <2>1, <2>4
  <1>5. \A e, f \in S : Rank(S, e) = Rank(S, f) => e = f
    <2> SUFFICES ASSUME NEW e \in S, NEW f \in S, Rank(S, e) = Rank(S, f), e # f
                 PROVE  FALSE
      OBVIOUS
    <2>1. e < f \/ f < e
      BY <1>2
    <2> QED BY <1>4, <2>1
  <1>6. \A i \in 1 .. c : \E e \in S : Rank(S, e) = i
    <2>1. rank \in Injection(S, 1 .. c)
      BY <1>3, <1>5 DEF Injection, IsInjective
    <2>2. rank \in Surjection(S, 1 .. c)
      BY <1>1, <2>1, FS_Injection
    <2> QED BY <2>2 DEF Surjection
  <1>7. \A i \in 1 .. c : Ordered(S)[i] \in S /\ Rank(S, Ordered(S)[i]) = i
    BY <1>6 DEF Ordered
  <1>8. DOMAIN Ordered(S) = 1 .. c
    BY DEF Ordered
  <1>9. ASSUME NEW e \in S PROVE \E i \in 1 .. c : Ordered(S)[i] = e
    BY <1>3, <1>5, <1>7
  <1>10. Range(Ordered(S)) = S
    BY <1>7, <1>8, <1>9 DEF Range
  <1>11. Ordered(S) \in [1 .. Cardinality(S) -> S]
    BY <1>7 DEF Ordered
  <1> QED BY <1>1, <1>10, <1>11

(* The version of a file that GitHub has is its greatest index.            *)
LEMMA FileFacts ==
  ASSUME DOMAIN commits = 1 .. Len(commits), Len(commits) \in Nat, NEW date
  PROVE  /\ FileOf(date) \in 0 .. Len(commits)
         /\ FileOf(date) # 0 => Has(FileOf(date), date)
         /\ \A i \in 1 .. Len(commits) : Has(i, date) => i <= FileOf(date)
  <1> DEFINE of == {i \in DOMAIN commits : commits[i].date = date}
  <1>1. CASE of = {}
    BY <1>1 DEF FileOf, Has
  <1>2. CASE of # {}
    <2>1. of \in SUBSET Nat /\ \A i \in of : i <= Len(commits)
      OBVIOUS
    <2>2. \E i \in of : \A j \in of : j <= i
      BY <1>2, <2>1, GreatestOf
    <2>3. FileOf(date) \in of /\ \A j \in of : j <= FileOf(date)
      BY <1>2, <2>2 DEF FileOf
    <2> QED BY <2>3 DEF Has
  <1> QED BY <1>1, <1>2

(* The days that rows are selected by do not overlap.                      *)
LEMMA DaysApart ==
  ASSUME NEW a \in Nat, NEW b \in Nat, NEW moment \in Int,
         Within(moment, a), Within(moment, b)
  PROVE  a = b
  <1>0. DayLength \in Nat
    BY AttestationAssumption
  <1>1. ASSUME NEW c \in Nat, NEW d \in Nat, c < d
        PROVE  c * DayLength + DayLength <= d * DayLength
    <2>1. PICK k \in Nat : d = c + 1 + k
      <3>1. d - c - 1 \in Nat /\ d = c + 1 + (d - c - 1)
        BY <1>1
      <3> QED BY <3>1
    <2>2. d * DayLength = c * DayLength + DayLength + k * DayLength
      BY <1>0, <2>1
    <2>3. k * DayLength \in Nat /\ c * DayLength \in Nat
      BY <1>0
    <2> QED BY <1>0, <2>2, <2>3
  <1>2. a * DayLength \in Int /\ b * DayLength \in Int
    BY <1>0
  <1>3. ~ (a < b)
    <2> SUFFICES ASSUME a < b PROVE FALSE
      OBVIOUS
    <2>1. a * DayLength + DayLength <= b * DayLength
      BY <1>1
    <2> QED BY <1>0, <1>2, <2>1 DEF Within, start
  <1>4. ~ (b < a)
    <2> SUFFICES ASSUME b < a PROVE FALSE
      OBVIOUS
    <2>1. b * DayLength + DayLength <= a * DayLength
      BY <1>1
    <2> QED BY <1>0, <1>2, <2>1 DEF Within, start
  <1> QED BY <1>3, <1>4

(* What the run of this model checks follows.                              *)
LEMMA AttestMeaning ==
  ASSUME AttestProofInv
  PROVE  AttestInv /\ EntriesLostByOverlapOnly /\ DaysAreSettled
  <1> USE DEF AttestProofInv
  <1>0. /\ DOMAIN commits = 1 .. Len(commits) /\ Len(commits) \in Nat
        /\ \A j \in 1 .. Len(commits) : Leaves(j) = LeavesOf(commits[j].doc)
    BY DEF ChainInv, Leaves, LeavesOf
  <1>1. AttestTypeOK
    <2>1. /\ ts \in [Entries -> 0 .. clock] /\ rows \subseteq {e \in Entries : ts[e] # 0}
          /\ clock \in Nat /\ offset \in Offsets
          /\ started <= MaxPublications /\ faults <= MaxPublishFaults
      BY AttestationAssumption DEF ClockInv
    <2>2. \A p \in Publishers :
             /\ pub[p].at \in {"idle", "fetch", "lookup", "put"}
             /\ pub[p].date \in Days \cup {0}
             /\ {pub[p].sha, pub[p].fetched} \subseteq 0 .. Len(commits)
      BY DEF PubInv
    <2>3. \A i \in DOMAIN commits : commits[i].date \in Days
      BY <1>0 DEF ChainInv
    <2> QED BY <2>1, <2>2, <2>3 DEF AttestTypeOK
  <1>2. NothingReplacedUnseen
    <2>1. ASSUME NEW i \in 1 .. Len(commits), NEW j \in 1 .. Len(commits), i < j,
                 commits[i].date = commits[j].date
          PROVE  commits[i].base < commits[j].base
      <3>1. i \in 1 .. j - 1 /\ Has(i, commits[j].date)
        BY <1>0, <2>1 DEF Has
      <3>2. i <= commits[j].base /\ commits[i].base \in 0 .. i - 1 /\ commits[j].base \in 0 .. j - 1
        BY <3>1 DEF ChainInv
      <3> QED BY <1>0, <3>2
    <2>2. ASSUME NEW i \in 1 .. Len(commits), NEW j \in 1 .. Len(commits), i # j,
                 commits[i].date = commits[j].date
          PROVE  commits[i].base # commits[j].base
      <3>1. i < j \/ j < i
        BY <1>0, <2>2
      <3>2. commits[i].base \in Int /\ commits[j].base \in Int
        BY DEF ChainInv
      <3> QED BY <2>1, <2>2, <3>1, <3>2
    <2> QED BY <1>0, <2>2 DEF NothingReplacedUnseen
  <1>3. EntriesLostByOverlapOnly
    <2> SUFFICES ASSUME NEW j \in 1 .. Len(commits), commits[j].base # 0,
                        ~ (Leaves(commits[j].base) \subseteq Leaves(j)),
                        Leaves(commits[j].base) \cap truncated = {}
                 PROVE  commits[j].fetched < commits[j].base
      BY <1>0 DEF EntriesLostByOverlapOnly
    <2>1. /\ commits[j].base \in 0 .. j - 1 /\ Has(commits[j].base, commits[j].date)
          /\ commits[j].fetched \in 0 .. Len(commits)
          /\ Covers(commits[j].doc, commits[j].date, commits[j].fetched)
      BY DEF ChainInv
    <2>2. commits[j].base \notin 1 .. commits[j].fetched
      BY <1>0, <2>1 DEF Covers
    <2> QED BY <1>0, <2>1, <2>2
  <1>4. OneDayEach
    <2> SUFFICES ASSUME NEW i \in DOMAIN commits, NEW j \in DOMAIN commits,
                        NEW e \in Leaves(i), e \in Leaves(j)
                 PROVE  commits[i].date = commits[j].date
      BY DEF OneDayEach
    <2>1. Within(ts[e], commits[i].date) /\ Within(ts[e], commits[j].date)
      BY <1>0 DEF ChainInv, DocInv
    <2>2. commits[i].date \in Nat /\ commits[j].date \in Nat
      BY <1>0 DEF ChainInv, Days
    <2>3. ts[e] \in Int
      <3>1. e \in Entries
        BY <1>0 DEF ChainInv, DocInv, ClockInv
      <3> QED BY <3>1 DEF ClockInv
    <2> QED BY <2>1, <2>2, <2>3, DaysApart
  <1> QED BY <1>1, <1>2, <1>3, <1>4 DEF AttestInv, DaysAreSettled, DefaultInv

-----------------------------------------------------------------------------
(* The Merkle tree.                                                        *)

(* Induction over the naturals, for a set of them.                         *)
LEMMA Induction ==
  ASSUME NEW S, 0 \in S, \A n \in Nat : n \in S => n + 1 \in S
  PROVE  \A n \in Nat : n \in S
  <1> DEFINE T == {n \in Nat : n \notin S}
  <1> SUFFICES ASSUME T # {} PROVE FALSE
    OBVIOUS
  <1>1. PICK t \in T : \A u \in T : ~ (<<u, t>> \in OpToRel(<, Nat))
    BY NatLessThanWellFounded, WFMin
  <1>2. \A u \in T : ~ (u < t)
    BY <1>1 DEF OpToRel
  <1>3. t \in Nat /\ t # 0 /\ t \notin S
    OBVIOUS
  <1>4. t - 1 \in Nat /\ t - 1 < t
    BY <1>3
  <1>5. t - 1 \in S
    BY <1>2, <1>4
  <1>6. (t - 1) + 1 \in S
    BY <1>4, <1>5
  <1> QED BY <1>3, <1>6

(* The lowest n + 1 layers.                                                *)
Bottom(leaves) == [i \in DOMAIN leaves |-> <<leaves[i]>>]
Climbs(leaves, f, n) ==
    /\ DOMAIN f = 0 .. n
    /\ f[0] = Bottom(leaves)
    /\ \A k \in 0 .. n - 1 : f[k + 1] = Above(f[k])

(* There is one way to climb from the leaves at most.                      *)
LEMMA ClimbsAgree ==
  ASSUME NEW leaves, NEW f, NEW g, NEW m \in Nat, NEW n \in Nat, m <= n,
         Climbs(leaves, f, m), Climbs(leaves, g, n)
  PROVE  \A k \in 0 .. m : f[k] = g[k]
  <1> DEFINE S == {k \in Nat : k <= m => f[k] = g[k]}
  <1>1. 0 \in S
    BY DEF Climbs
  <1>2. ASSUME NEW k \in Nat, k \in S PROVE k + 1 \in S
    <2> SUFFICES ASSUME k + 1 <= m PROVE f[k + 1] = g[k + 1]
      OBVIOUS
    <2>1. k \in 0 .. m - 1 /\ k \in 0 .. n - 1 /\ k <= m
      OBVIOUS
    <2>2. f[k] = g[k]
      BY <1>2, <2>1
    <2> QED BY <2>1, <2>2 DEF Climbs
  <1> HIDE DEF S
  <1>3. \A k \in Nat : k \in S
    BY <1>1, <1>2, Induction
  <1> QED BY <1>3 DEF S

(* And there is one, to any height.                                        *)
LEMMA ClimbsExist ==
  ASSUME NEW leaves
  PROVE  \A n \in Nat : \E f : Climbs(leaves, f, n)
  <1> DEFINE S == {n \in Nat : \E f : Climbs(leaves, f, n)}
  <1>1. 0 \in S
    <2>1. Climbs(leaves, [k \in 0 .. 0 |-> Bottom(leaves)], 0)
      BY DEF Climbs
    <2> QED BY <2>1
  <1>2. ASSUME NEW n \in Nat, n \in S PROVE n + 1 \in S
    <2>1. PICK f : Climbs(leaves, f, n)
      BY <1>2
    <2> DEFINE g == [k \in 0 .. n + 1 |-> IF k = n + 1 THEN Above(f[n]) ELSE f[k]]
    <2>2. DOMAIN g = 0 .. n + 1 /\ g[0] = Bottom(leaves)
      BY <2>1 DEF Climbs
    <2>3. ASSUME NEW k \in 0 .. (n + 1) - 1 PROVE g[k + 1] = Above(g[k])
      <3>1. k \in 0 .. n /\ k + 1 \in 0 .. n + 1 /\ k # n + 1 /\ g[k] = f[k]
        OBVIOUS
      <3>2. CASE k = n
        BY <3>1, <3>2
      <3>3. CASE k # n
        <4>1. k \in 0 .. n - 1 /\ k + 1 # n + 1
          BY <3>1, <3>3
        <4> QED BY <2>1, <3>1, <4>1 DEF Climbs
      <3> QED BY <3>2, <3>3
    <2>4. Climbs(leaves, g, n + 1)
      <3> HIDE DEF g
      <3> QED BY <2>2, <2>3 DEF Climbs
    <2> QED BY <2>4
  <1> HIDE DEF S
  <1>3. \A n \in Nat : n \in S
    BY <1>1, <1>2, Induction
  <1> QED BY <1>3 DEF S

(* The definition by recursion defines what it says.                       *)
LEMMA LayersFacts ==
  ASSUME NEW leaves
  PROVE  /\ Layers(leaves)[0] = Bottom(leaves)
         /\ \A n \in Nat : Layers(leaves)[n + 1] = Above(Layers(leaves)[n])
  <1> DEFINE up(n) == CHOOSE f : Climbs(leaves, f, n)
             all == [n \in Nat |-> up(n)[n]]
             Is(g) == g = [n \in Nat |-> IF n = 0 THEN Bottom(leaves) ELSE Above(g[n - 1])]
  <1>1. \A n \in Nat : Climbs(leaves, up(n), n)
    BY ClimbsExist
  <1>2. all[0] = Bottom(leaves)
    BY <1>1 DEF Climbs
  <1>3. ASSUME NEW n \in Nat PROVE all[n + 1] = Above(all[n])
    <2>1. n + 1 \in Nat /\ n <= n + 1 /\ n \in 0 .. n /\ n \in 0 .. (n + 1) - 1
      OBVIOUS
    <2>2. Climbs(leaves, up(n), n) /\ Climbs(leaves, up(n + 1), n + 1)
      BY <1>1, <2>1
    <2> HIDE DEF up
    <2>3. up(n)[n] = up(n + 1)[n]
      BY <2>1, <2>2, ClimbsAgree
    <2>4. up(n + 1)[n + 1] = Above(up(n + 1)[n])
      BY <2>1, <2>2 DEF Climbs
    <2> QED BY <2>1, <2>3, <2>4
  <1>4. Is(all)
    <2> HIDE DEF up
    <2>1. ASSUME NEW n \in Nat
          PROVE  all[n] = IF n = 0 THEN Bottom(leaves) ELSE Above(all[n - 1])
      <3>1. CASE n = 0
        BY <1>2, <3>1
      <3>2. CASE n # 0
        <4>1. n - 1 \in Nat /\ (n - 1) + 1 = n
          BY <3>2
        <4>2. all[(n - 1) + 1] = Above(all[n - 1])
          BY <1>3, <4>1
        <4> QED BY <3>2, <4>1, <4>2
      <3> QED BY <3>1, <3>2
    <2>2. all = [n \in Nat |-> all[n]]
      OBVIOUS
    <2> QED BY <2>1, <2>2
  <1>5. Layers(leaves) = CHOOSE g : Is(g)
    BY DEF Layers, Bottom
  <1>6. Is(Layers(leaves))
    <2> HIDE DEF Is, all
    <2> QED BY <1>4, <1>5
  <1> QED BY <1>6

(* A layer of n hashes.                                                    *)
HasLength(layer, n) == layer = [i \in 1 .. n |-> layer[i]]

(* A function on 1 .. n is a sequence of that length.                      *)
LEMMA LengthOf ==
  ASSUME NEW layer, NEW n \in Nat, HasLength(layer, n)
  PROVE  Len(layer) = n /\ DOMAIN layer = 1 .. n
  <1> DEFINE S == {layer[i] : i \in 1 .. n}
  <1>1. layer \in [1 .. n -> S]
    BY DEF HasLength
  <1>2. layer \in Seq(S)
    BY <1>1
  <1> HIDE DEF S
  <1> QED BY <1>1, <1>2

(* A layer above one of more than one hash has about half as many.         *)
LEMMA AboveLength ==
  ASSUME NEW layer, NEW n \in Nat \ {0}, HasLength(layer, n)
  PROVE  /\ n = 1 => Above(layer) = layer
         /\ n > 1 => Above(layer) = NextLayer(layer) /\ HasLength(Above(layer), (n + 1) \div 2)
  <1>1. Len(layer) = n
    BY LengthOf
  <1>2. n = 1 => Above(layer) = layer
    BY <1>1 DEF Above
  <1>3. n > 1 => Above(layer) = NextLayer(layer)
    BY <1>1 DEF Above
  <1>4. NextLayer(layer) = [i \in 1 .. (n + 1) \div 2 |-> NextLayer(layer)[i]]
    BY <1>1 DEF NextLayer
  <1> QED BY <1>2, <1>3, <1>4 DEF HasLength

(* A layer fixes the one below it, when their lengths are known.           *)
LEMMA AboveInjective ==
  ASSUME NEW a, NEW b, NEW n \in Nat \ {0}, HasLength(a, n), HasLength(b, n), Above(a) = Above(b)
  PROVE  a = b
  <1>1. CASE n = 1
    BY <1>1, AboveLength
  <1>2. CASE n > 1
    <2>1. NextLayer(a) = NextLayer(b) /\ Len(a) = n /\ Len(b) = n
      BY <1>2, AboveLength, LengthOf
    <2>2. ASSUME NEW i \in 1 .. (n + 1) \div 2
          PROVE  /\ a[2 * i - 1] = b[2 * i - 1]
                 /\ 2 * i <= n => a[2 * i] = b[2 * i]
      <3>1. NextLayer(a)[i] = NextLayer(b)[i]
        BY <2>1
      <3> DEFINE last == IF 2 * i > n THEN n ELSE 2 * i
      <3>2. <<a[2 * i - 1], a[last]>> = <<b[2 * i - 1], b[last]>>
        BY <2>1, <3>1 DEF NextLayer
      <3>3. 2 * i <= n => last = 2 * i
        OBVIOUS
      <3> HIDE DEF last
      <3> QED BY <3>2, <3>3
    <2>3. ASSUME NEW j \in 1 .. n PROVE a[j] = b[j]
      <3>1. PICK i \in 1 .. (n + 1) \div 2 : j = 2 * i - 1 \/ j = 2 * i
        <4>1. (j + 1) \div 2 \in 1 .. (n + 1) \div 2
          OBVIOUS
        <4>2. j = 2 * ((j + 1) \div 2) - 1 \/ j = 2 * ((j + 1) \div 2)
          OBVIOUS
        <4> QED BY <4>1, <4>2
      <3> QED BY <2>2, <3>1
    <2> QED BY <2>3 DEF HasLength
  <1> QED BY <1>1, <1>2

(* Of two lists of the same length the layers have the same lengths, and   *)
(* after as many layers as leaves there is one hash.                       *)
LEMMA LayerLengths ==
  ASSUME NEW m \in Nat \ {0}, NEW a, NEW b, HasLength(a, m), HasLength(b, m), NEW k \in Nat
  PROVE  \E n \in Nat \ {0} :
            /\ HasLength(Layers(a)[k], n) /\ HasLength(Layers(b)[k], n)
            /\ k < m => n <= m - k
            /\ k >= m => n = 1
  <1> DEFINE Fits(j, n) ==
                /\ HasLength(Layers(a)[j], n) /\ HasLength(Layers(b)[j], n)
                /\ j < m => n <= m - j
                /\ j >= m => n = 1
             S == {j \in Nat : \E n \in Nat \ {0} : Fits(j, n)}
  <1>1. 0 \in S
    <2>1. DOMAIN a = 1 .. m /\ DOMAIN b = 1 .. m
      BY LengthOf
    <2>2. HasLength(Bottom(a), m) /\ HasLength(Bottom(b), m)
      BY <2>1 DEF Bottom, HasLength
    <2>3. HasLength(Layers(a)[0], m) /\ HasLength(Layers(b)[0], m)
      BY <2>2, LayersFacts
    <2>4. Fits(0, m)
      BY <2>3
    <2> HIDE DEF Fits
    <2> QED BY <2>4
  <1>2. ASSUME NEW j \in Nat, j \in S PROVE j + 1 \in S
    <2>1. PICK n \in Nat \ {0} : Fits(j, n)
      BY <1>2
    <2>2. Layers(a)[j + 1] = Above(Layers(a)[j]) /\ Layers(b)[j + 1] = Above(Layers(b)[j])
      BY LayersFacts
    <2>3. CASE n = 1
      <3>1. Layers(a)[j + 1] = Layers(a)[j] /\ Layers(b)[j + 1] = Layers(b)[j]
        BY <2>1, <2>2, <2>3, AboveLength
      <3>2. Fits(j + 1, 1)
        BY <2>1, <2>3, <3>1
      <3> HIDE DEF Fits
      <3> QED BY <3>2
    <2>4. CASE n > 1
      <3>1. /\ HasLength(Layers(a)[j + 1], (n + 1) \div 2)
            /\ HasLength(Layers(b)[j + 1], (n + 1) \div 2)
        BY <2>1, <2>2, <2>4, AboveLength
      <3>2. (n + 1) \div 2 \in Nat \ {0} /\ (n + 1) \div 2 <= n - 1
        BY <2>4
      <3>3. j < m /\ n <= m - j
        BY <2>1, <2>4
      <3>4. Fits(j + 1, (n + 1) \div 2)
        BY <3>1, <3>2, <3>3, <2>4
      <3> HIDE DEF Fits
      <3> QED BY <3>2, <3>4
    <2> QED BY <2>3, <2>4
  <1> HIDE DEF S
  <1>3. k \in S
    BY <1>1, <1>2, Induction
  <1> QED BY <1>3 DEF S

(* Of two lists of one length the same root makes the same list: each      *)
(* layer fixes the one below it.                                           *)
LEMMA RootFixes ==
  ASSUME NEW S, NEW m \in Nat, NEW a \in [1 .. m -> S], NEW b \in [1 .. m -> S],
         merkle_root(a) = merkle_root(b)
  PROVE  a = b
  <1>0. HasLength(a, m) /\ HasLength(b, m) /\ Len(a) = m /\ Len(b) = m
    BY LengthOf DEF HasLength
  <1>1. CASE m = 0
    BY <1>1
  <1>2. CASE m # 0
    <2>1. Layers(a)[m][1] = Layers(b)[m][1]
      <3>1. a # <<>> /\ b # <<>>
        BY <1>0, <1>2
      <3> QED BY <1>0, <3>1 DEF merkle_root
    <2>2. Layers(a)[m] = Layers(b)[m]
      <3>1. HasLength(Layers(a)[m], 1) /\ HasLength(Layers(b)[m], 1)
        BY <1>0, <1>2, LayerLengths
      <3> QED BY <2>1, <3>1 DEF HasLength
    <2> DEFINE D == {j \in Nat : j <= m => Layers(a)[m - j] = Layers(b)[m - j]}
    <2>3. 0 \in D
      BY <2>2
    <2>4. ASSUME NEW j \in Nat, j \in D PROVE j + 1 \in D
      <3> SUFFICES ASSUME j + 1 <= m
                   PROVE  Layers(a)[m - (j + 1)] = Layers(b)[m - (j + 1)]
        OBVIOUS
      <3> DEFINE k == m - (j + 1)
      <3>1. k \in Nat /\ k + 1 = m - j /\ j <= m
        OBVIOUS
      <3>2. Layers(a)[k + 1] = Layers(b)[k + 1]
        BY <2>4, <3>1
      <3> HIDE DEF k
      <3>3. Above(Layers(a)[k]) = Above(Layers(b)[k])
        BY <3>1, <3>2, LayersFacts
      <3>4. PICK n \in Nat \ {0} : HasLength(Layers(a)[k], n) /\ HasLength(Layers(b)[k], n)
        BY <1>0, <1>2, <3>1, LayerLengths
      <3>5. Layers(a)[k] = Layers(b)[k]
        BY <3>3, <3>4, AboveInjective
      <3> QED BY <3>5 DEF k
    <2> HIDE DEF D
    <2>5. m \in D
      BY <2>3, <2>4, Induction
    <2>6. Bottom(a) = Bottom(b)
      <3>1. Layers(a)[m - m] = Layers(b)[m - m] /\ m - m = 0
        BY <2>5 DEF D
      <3> QED BY <3>1, LayersFacts
    <2>7. ASSUME NEW i \in 1 .. m PROVE a[i] = b[i]
      <3>1. Bottom(a)[i] = <<a[i]>> /\ Bottom(b)[i] = <<b[i]>>
        BY DEF Bottom
      <3>2. <<a[i]>> = <<b[i]>>
        BY <2>6, <3>1
      <3> QED BY <3>2
    <2> QED BY <2>7
  <1> QED BY <1>1, <1>2

-----------------------------------------------------------------------------
(* The steps.                                                              *)

(* The invariant holds initially.                                          *)
LEMMA AttestInitial == AttestInit => AttestProofInv
  <1> SUFFICES ASSUME AttestInit PROVE AttestProofInv
    OBVIOUS
  <1>1. ClockInv
    BY AttestationAssumption DEF AttestInit, ClockInv
  <1>2. PubInv
    BY DEF AttestInit, PubInv, Idle, PubFields
  <1>3. ChainInv
    BY DEF AttestInit, ChainInv
  <1>4. DefaultInv
    BY DEF AttestInit, DefaultInv, DefaultDayIsOver, Idle
  <1> QED BY <1>1, <1>2, <1>3, <1>4 DEF AttestProofInv

(* Each publisher's part of a step.                                        *)
PubStep(p) == Start(p) \/ Fetch(p) \/ LookUp(p) \/ Put(p) \/ Fails(p)
Others == (\E e \in Entries : Emit(e) \/ InsertRow(e)) \/ Truncate \/ Tick

(* No step moves the clock back or dates a row in the future.              *)
LEMMA ClockStep == AttestProofInv /\ [AttestNext]_attestVars => ClockInv'
  <1> SUFFICES ASSUME AttestProofInv, [AttestNext]_attestVars PROVE ClockInv'
    OBVIOUS
  <1> USE AttestationAssumption DEF AttestProofInv, ClockInv
  <1>1. ASSUME NEW e \in Entries, Emit(e) PROVE ClockInv'
    BY <1>1 DEF Emit
  <1>2. ASSUME NEW e \in Entries, InsertRow(e) PROVE ClockInv'
    BY <1>2 DEF InsertRow
  <1>3. CASE Truncate
    BY <1>3 DEF Truncate
  <1>4. CASE Tick
    BY <1>4 DEF Tick
  <1>5. ASSUME NEW p \in Publishers, PubStep(p) PROVE ClockInv'
    <2>1. Still /\ started' \in 0 .. MaxPublications /\ faults' \in 0 .. MaxPublishFaults
      <3>1. CASE Start(p)
        BY <3>1 DEF Start
      <3>2. CASE Fails(p)
        BY <3>2 DEF Fails
      <3>3. CASE Fetch(p) \/ LookUp(p) \/ Put(p)
        BY <3>3 DEF Fetch, LookUp, Put
      <3> QED BY <1>5, <3>1, <3>2, <3>3 DEF PubStep
    <2> QED BY <2>1 DEF Still
  <1>6. CASE UNCHANGED attestVars
    BY <1>6 DEF attestVars
  <1> QED BY <1>1, <1>2, <1>3, <1>4, <1>5, <1>6 DEF AttestNext, PubStep

(* Entries keep their ts and have had  a row for ever; versions stay.      *)
LEMMA Grows ==
  ASSUME AttestProofInv, [AttestNext]_attestVars
  PROVE  /\ \A e \in rows \cup truncated : e \in rows' \cup truncated' /\ ts'[e] = ts[e]
         /\ truncated \subseteq truncated'
         /\ \/ commits' = commits
            \/ \E p \in Publishers : Put(p) /\ Accepts(p) /\ Commit(p)
  <1> USE DEF AttestProofInv, ClockInv
  <1>2. ASSUME NEW e \in Entries, Emit(e) \/ InsertRow(e)
        PROVE  /\ \A f \in rows \cup truncated : f \in rows' \cup truncated' /\ ts'[f] = ts[f]
               /\ truncated \subseteq truncated' /\ commits' = commits
    BY <1>2 DEF Emit, InsertRow
  <1>3. CASE Truncate \/ Tick
    BY <1>3 DEF Truncate, Tick
  <1>4. ASSUME NEW p \in Publishers, PubStep(p)
        PROVE  Still /\ (commits' = commits \/ (Put(p) /\ Accepts(p) /\ Commit(p)))
    BY <1>4 DEF PubStep, Start, Fetch, LookUp, Put, Fails
  <1>5. CASE UNCHANGED attestVars
    BY <1>5 DEF attestVars
  <1> QED BY <1>2, <1>3, <1>4, <1>5 DEF AttestNext, PubStep, Still

(* A commit adds one version at the end and changes none before it.        *)
LEMMA CommitFacts ==
  ASSUME AttestProofInv, NEW p \in Publishers, Commit(p)
  PROVE  /\ DOMAIN commits' = 1 .. Len(commits) + 1 /\ Len(commits') = Len(commits) + 1
         /\ \A i \in 1 .. Len(commits) : commits'[i] = commits[i]
         /\ commits'[Len(commits) + 1] = [date |-> pub[p].date, doc |-> pub[p].doc,
                                          base |-> pub[p].sha, fetched |-> pub[p].fetched]
  <1>1. DOMAIN commits = 1 .. Len(commits) /\ Len(commits) \in Nat
    BY DEF AttestProofInv, ChainInv
  <1> QED BY <1>1 DEF Commit

(* Division by the length of a day is monotonic, below 0 too.              *)
LEMMA DivMonotonic ==
  ASSUME NEW a \in Int, NEW b \in Int, a <= b, NEW d \in Nat \ {0}
  PROVE  a \div d <= b \div d /\ a \div d \in Int /\ b \div d \in Int
  <1> DEFINE q == a \div d
             r == b \div d
  <1>1. q \in Int /\ r \in Int /\ d * q <= a /\ b < d * (r + 1)
    OBVIOUS
  <1>2. d * q < d * (r + 1)
    BY <1>1
  <1> HIDE DEF q, r
  <1>3. q < r + 1
    BY <1>1, <1>2
  <1>4. q <= r
    BY <1>1, <1>3
  <1> QED BY <1>1, <1>4 DEF q, r

(* The default date is of a day that is over, or the host is ahead of UTC. *)
LEMMA DefaultStep == AttestProofInv /\ [AttestNext]_attestVars => DefaultInv'
  <1> SUFFICES ASSUME AttestProofInv, [AttestNext]_attestVars, NEW p \in Publishers,
                      pub'[p].at # "idle", pub'[p].asked = 0
               PROVE  pub'[p].date < Today' \/ offset' > 0
    BY DEF DefaultInv, DefaultDayIsOver
  <1>0. /\ clock \in Nat /\ offset \in Int /\ DayLength \in Nat \ {0}
        /\ pub[p].date \in Nat /\ Today \in Int
    <2>1. /\ clock \in Nat /\ offset \in Int /\ DayLength \in Nat \ {0}
          /\ pub[p].date \in Nat
      BY AttestationAssumption DEF AttestProofInv, ClockInv, PubInv, Days
    <2>2. clock \in Int /\ clock <= clock
      BY <2>1
    <2>3. Today \in Int
      BY <2>1, <2>2, DivMonotonic DEF Today
    <2> QED BY <2>1, <2>3
  <1>1. offset' = offset /\ Today' >= Today /\ Today' \in Int
    <2>1. offset' = offset /\ clock' \in {clock, clock + 1}
      BY DEF AttestNext, attestVars, Emit, InsertRow, Truncate, Tick, Start, Fetch, LookUp,
             Put, Fails, Still
    <2>2. clock' \in Int /\ clock <= clock'
      BY <1>0, <2>1
    <2>3. clock \div DayLength <= clock' \div DayLength
          /\ clock \div DayLength \in Int /\ clock' \div DayLength \in Int
      BY <1>0, <2>2, DivMonotonic
    <2> QED BY <2>1, <2>3 DEF Today
  <1>2. CASE pub'[p] = pub[p]
    <2>1. pub[p].date < Today \/ offset > 0
      BY <1>2 DEF AttestProofInv, DefaultInv, DefaultDayIsOver
    <2> QED BY <1>0, <1>1, <1>2, <2>1
  <1>3. CASE pub'[p].asked = pub[p].asked /\ pub'[p].date = pub[p].date /\ pub[p].at # "idle"
    <2>1. pub[p].date < Today \/ offset > 0
      BY <1>3 DEF AttestProofInv, DefaultInv, DefaultDayIsOver
    <2> QED BY <1>0, <1>1, <1>3, <2>1
  <1>4. CASE Start(p)
    <2>1. pub'[p].date = Yesterday
      <3>1. DOMAIN pub = Publishers
        BY DEF AttestProofInv, PubInv
      <3>2. PICK date \in Days \cup {0} :
               pub' = [pub EXCEPT ![p] = [Idle EXCEPT !.at = "fetch", !.asked = date,
                                                       !.date = target(date)]]
        BY <1>4 DEF Start
      <3>3. pub'[p] = [Idle EXCEPT !.at = "fetch", !.asked = date, !.date = target(date)]
        BY <3>1, <3>2
      <3>4. pub'[p].asked = date /\ pub'[p].date = target(date)
        BY <3>3 DEF Idle
      <3> QED BY <3>4 DEF target
    <2>2. CASE offset > 0
      BY <1>1, <2>2
    <2>3. CASE ~ (offset > 0)
      <3>1. clock + offset \in Int /\ clock + offset <= clock /\ clock \in Int
        BY <1>0, <2>3
      <3>2. /\ (clock + offset) \div DayLength <= clock \div DayLength
            /\ (clock + offset) \div DayLength \in Int /\ clock \div DayLength \in Int
        BY <1>0, <3>1, DivMonotonic
      <3>3. Yesterday < Today /\ Yesterday \in Int
        BY <3>2 DEF Yesterday, Today
      <3> QED BY <1>0, <1>1, <2>1, <3>3
    <2> QED BY <2>2, <2>3
  <1>5. \/ pub'[p] = pub[p] \/ Start(p)
        \/ pub'[p].asked = pub[p].asked /\ pub'[p].date = pub[p].date /\ pub[p].at # "idle"
    <2>0. DOMAIN pub = Publishers /\ DOMAIN pub[p] = PubFields
      BY DEF AttestProofInv, PubInv
    <2>1. CASE UNCHANGED pub
      BY <2>1
    <2>2. ASSUME NEW q \in Publishers, PubStep(q), q # p PROVE pub'[p] = pub[p]
      BY <2>0, <2>2 DEF PubStep, Start, Fetch, LookUp, Put, Fails, Commit, Ends
    <2>3. CASE Fetch(p) \/ LookUp(p)
      BY <2>0, <2>3 DEF Fetch, LookUp, PubFields
    <2>4. CASE Put(p) \/ Fails(p)
      BY <2>0, <2>4 DEF Put, Fails, Commit, Ends, Idle
    <2> QED BY <2>1, <2>2, <2>3, <2>4 DEF AttestNext, PubStep, Emit, InsertRow, Truncate, Tick,
               attestVars
  <1> QED BY <1>2, <1>3, <1>4, <1>5

(* What holds of a document stays true of it.                              *)
LEMMA DocumentsKeep ==
  ASSUME AttestProofInv, [AttestNext]_attestVars, NEW doc, NEW date, NEW n \in 0 .. Len(commits)
  PROVE  /\ DocInv(doc, date) =>
              \A e \in LeavesOf(doc) : e \in rows' \cup truncated' /\ Within(ts'[e], date)
         /\ Covers(doc, date, n) =>
              \A i \in 1 .. n :
                 commits'[i].date = date /\ Range(commits'[i].doc.leaf_hashes) \cap truncated' = {}
                    => Range(commits'[i].doc.leaf_hashes) \subseteq LeavesOf(doc)
  <1>1. /\ \A e \in rows \cup truncated : e \in rows' \cup truncated' /\ ts'[e] = ts[e]
        /\ truncated \subseteq truncated'
    BY Grows
  <1>2. Len(commits) \in Nat
    BY DEF AttestProofInv, ChainInv
  <1>3. \A i \in 1 .. n : commits'[i] = commits[i]
    <2>1. CASE commits' = commits
      BY <2>1
    <2>2. ASSUME NEW p \in Publishers, Commit(p)
          PROVE  \A i \in 1 .. n : commits'[i] = commits[i]
      <3>1. \A i \in 1 .. Len(commits) : commits'[i] = commits[i]
        BY <2>2, CommitFacts
      <3>2. \A i \in 1 .. n : i \in 1 .. Len(commits)
        BY <1>2
      <3> QED BY <3>1, <3>2
    <2> QED BY <2>1, <2>2, Grows
  <1> QED BY <1>1, <1>3 DEF DocInv, Covers, Has, Leaves

(* The number of versions never falls.                                     *)
LEMMA NumberOfCommits ==
  ASSUME AttestProofInv, [AttestNext]_attestVars
  PROVE  Len(commits') \in Nat /\ Len(commits) \in Nat /\ Len(commits') >= Len(commits)
  <1>1. Len(commits) \in Nat
    BY DEF AttestProofInv, ChainInv
  <1>2. CASE commits' = commits
    BY <1>1, <1>2
  <1>3. ASSUME NEW p \in Publishers, Commit(p)
        PROVE  Len(commits') = Len(commits) + 1
    BY <1>3, CommitFacts
  <1> QED BY <1>1, <1>2, <1>3, Grows

(* The rows that are fetched are those of the day.                         *)
LEMMA FetchFacts ==
  ASSUME AttestProofInv, NEW p \in Publishers, Fetch(p)
  PROVE  LeavesOf(pub'[p].doc) = {e \in rows : Within(ts[e], pub[p].date)}
  <1>1. pub'[p].doc = build_attestation(fetch_day_envelopes(pub[p].date))
    BY DEF Fetch, AttestProofInv, PubInv, PubFields
  <1>2. pub'[p].doc.leaf_hashes = Ordered({e \in rows : Within(ts[e], pub[p].date)})
    BY <1>1 DEF build_attestation, fetch_day_envelopes, RowsOf
  <1>3. {e \in rows : Within(ts[e], pub[p].date)} \in SUBSET Entries
    BY DEF AttestProofInv, ClockInv
  <1> QED BY <1>2, <1>3, OrderedFacts DEF LeavesOf

(* What the publishers hold stays true of rows and versions.               *)
LEMMA PubKeeps == AttestProofInv /\ [AttestNext]_attestVars => PubInv'
  <1> SUFFICES ASSUME AttestProofInv, [AttestNext]_attestVars PROVE PubInv'
    OBVIOUS
  <1>0. /\ DOMAIN pub = Publishers /\ pub = [p \in Publishers |-> pub[p]]
        /\ Len(commits') \in Nat /\ Len(commits) \in Nat /\ Len(commits') >= Len(commits)
    BY NumberOfCommits DEF AttestProofInv, PubInv
  <1>1. DOMAIN pub' = Publishers /\ pub' = [p \in Publishers |-> pub'[p]]
    <2>1. CASE UNCHANGED pub
      BY <1>0, <2>1
    <2>2. ASSUME NEW p \in Publishers, PubStep(p)
          PROVE  DOMAIN pub' = Publishers /\ pub' = [q \in Publishers |-> pub'[q]]
      BY <1>0, <2>2 DEF PubStep, Start, Fetch, LookUp, Put, Fails, Commit, Ends
    <2> QED BY <2>1, <2>2 DEF AttestNext, PubStep, Emit, InsertRow, Truncate, Tick, attestVars
  <1> SUFFICES ASSUME NEW p \in Publishers
               PROVE  /\ DOMAIN pub'[p] = PubFields
                      /\ pub'[p].at \in {"idle", "fetch", "lookup", "put"}
                      /\ pub'[p].date \in Days \cup {0}
                      /\ pub'[p].at # "idle" => pub'[p].date \in Days
                      /\ pub'[p].sha \in 0 .. Len(commits')
                      /\ pub'[p].fetched \in 0 .. Len(commits')
                      /\ pub'[p].at \in {"lookup", "put"} =>
                            /\ DocInv(pub[p].doc, pub[p].date)'
                            /\ Covers(pub[p].doc, pub[p].date, pub[p].fetched)'
    BY <1>1 DEF PubInv
  <1>2. /\ DOMAIN pub[p] = PubFields
        /\ pub[p].at \in {"idle", "fetch", "lookup", "put"}
        /\ pub[p].date \in Days \cup {0}
        /\ pub[p].at # "idle" => pub[p].date \in Days
        /\ pub[p].sha \in 0 .. Len(commits) /\ pub[p].fetched \in 0 .. Len(commits)
        /\ pub[p].at \in {"lookup", "put"} =>
              /\ DocInv(pub[p].doc, pub[p].date)
              /\ Covers(pub[p].doc, pub[p].date, pub[p].fetched)
    BY DEF AttestProofInv, PubInv
  <1>3. pub[p].sha \in 0 .. Len(commits') /\ pub[p].fetched \in 0 .. Len(commits')
    BY <1>0, <1>2
  <1>4. ASSUME pub'[p].doc = pub[p].doc, pub'[p].date = pub[p].date,
               pub'[p].fetched = pub[p].fetched, pub[p].at \in {"lookup", "put"}
        PROVE  /\ DocInv(pub[p].doc, pub[p].date)'
               /\ Covers(pub[p].doc, pub[p].date, pub[p].fetched)'
    <2>1. PICK doc, date, n : doc = pub[p].doc /\ date = pub[p].date /\ n = pub[p].fetched
      OBVIOUS
    <2>2. DocInv(doc, date) /\ Covers(doc, date, n) /\ n \in 0 .. Len(commits)
      BY <1>2, <1>4, <2>1
    <2>3. /\ \A e \in LeavesOf(doc) : e \in rows' \cup truncated' /\ Within(ts'[e], date)
          /\ \A i \in 1 .. n :
                commits'[i].date = date /\ Range(commits'[i].doc.leaf_hashes) \cap truncated' = {}
                   => Range(commits'[i].doc.leaf_hashes) \subseteq LeavesOf(doc)
      BY <2>2, DocumentsKeep
    <2> QED BY <1>4, <2>1, <2>3 DEF DocInv, Covers, Has, Leaves, LeavesOf
  <1>5. CASE pub'[p] = pub[p]
    BY <1>2, <1>3, <1>4, <1>5
  <1>6. CASE Start(p)
    <2>1. PICK date \in Days \cup {0} :
             /\ target(date) \in Days
             /\ pub' = [pub EXCEPT ![p] = [Idle EXCEPT !.at = "fetch", !.asked = date,
                                                       !.date = target(date)]]
      BY <1>6 DEF Start
    <2>2. pub'[p] = [Idle EXCEPT !.at = "fetch", !.asked = date, !.date = target(date)]
      BY <1>0, <2>1
    <2>3. /\ DOMAIN pub'[p] = PubFields /\ pub'[p].at = "fetch" /\ pub'[p].date = target(date)
          /\ pub'[p].sha = 0 /\ pub'[p].fetched = 0
      BY <2>2 DEF Idle, PubFields
    <2> QED BY <1>0, <2>1, <2>3
  <1>7. CASE Fetch(p)
    <2>1. /\ DOMAIN pub'[p] = PubFields /\ pub'[p].at = "lookup" /\ pub'[p].date = pub[p].date
          /\ pub'[p].sha = pub[p].sha /\ pub'[p].fetched = Len(commits)
      BY <1>0, <1>2, <1>7 DEF Fetch, PubFields
    <2>2. pub[p].date \in Days
      BY <1>2, <1>7 DEF Fetch
    <2>3. LeavesOf(pub'[p].doc) = {e \in rows : Within(ts[e], pub[p].date)}
      BY <1>7, FetchFacts
    <2>4. UNCHANGED <<ts, rows, truncated, commits>>
      BY <1>7 DEF Fetch, Still
    <2>5. DocInv(pub[p].doc, pub[p].date)'
      BY <2>1, <2>3, <2>4 DEF DocInv, LeavesOf
    <2>6. Covers(pub[p].doc, pub[p].date, pub[p].fetched)'
      <3>1. ASSUME NEW i \in 1 .. Len(commits), Has(i, pub[p].date), Leaves(i) \cap truncated = {}
            PROVE  Leaves(i) \subseteq {e \in rows : Within(ts[e], pub[p].date)}
        BY <3>1 DEF AttestProofInv, ChainInv, DocInv, Has, Leaves, LeavesOf
      <3> QED BY <2>1, <2>3, <2>4, <3>1 DEF Covers, Has, Leaves, LeavesOf
    <2> QED BY <1>0, <1>3, <2>1, <2>2, <2>5, <2>6
  <1>8. CASE LookUp(p)
    <2>1. /\ DOMAIN pub'[p] = PubFields /\ pub'[p].at = "put" /\ pub'[p].date = pub[p].date
          /\ pub'[p].sha = FileOf(pub[p].date) /\ pub'[p].fetched = pub[p].fetched
          /\ pub'[p].doc = pub[p].doc /\ pub[p].at = "lookup"
      BY <1>0, <1>2, <1>8 DEF LookUp, PubFields
    <2>2. FileOf(pub[p].date) \in 0 .. Len(commits)
      BY FileFacts DEF AttestProofInv, ChainInv
    <2> QED BY <1>0, <1>2, <1>3, <1>4, <2>1, <2>2
  <1>9. CASE Put(p) \/ Fails(p)
    <2>1. pub'[p] = Idle
      BY <1>0, <1>9 DEF Put, Fails, Commit, Ends
    <2> QED BY <1>0, <2>1 DEF Idle, PubFields
  <1>10. \/ pub'[p] = pub[p] \/ Start(p) \/ Fetch(p) \/ LookUp(p) \/ Put(p) \/ Fails(p)
    <2>1. ASSUME NEW q \in Publishers, PubStep(q), q # p PROVE pub'[p] = pub[p]
      BY <1>0, <2>1 DEF PubStep, Start, Fetch, LookUp, Put, Fails, Commit, Ends
    <2> QED BY <2>1 DEF AttestNext, PubStep, Emit, InsertRow, Truncate, Tick, attestVars
  <1> QED BY <1>5, <1>6, <1>7, <1>8, <1>9, <1>10

(* Each version keeps naming the one it replaced, of its own day.          *)
LEMMA ChainKeeps == AttestProofInv /\ [AttestNext]_attestVars => ChainInv'
  <1> SUFFICES ASSUME AttestProofInv, [AttestNext]_attestVars PROVE ChainInv'
    OBVIOUS
  <1> DEFINE n == Len(commits)
  <1>0. n \in Nat /\ DOMAIN commits = 1 .. n
    BY DEF AttestProofInv, ChainInv
  <1>1. ASSUME NEW j \in 1 .. n, commits'[j] = commits[j],
               \A i \in 1 .. n : commits'[i] = commits[i], Len(commits') \in Nat, Len(commits') >= n
        PROVE  /\ commits'[j].date \in Days
               /\ commits'[j].base \in 0 .. j - 1
               /\ commits'[j].base # 0 => Has(commits[j].base, commits[j].date)'
               /\ \A i \in 1 .. j - 1 : Has(i, commits[j].date)' => i <= commits'[j].base
               /\ DocInv(commits[j].doc, commits[j].date)'
               /\ commits'[j].fetched \in 0 .. Len(commits')
               /\ Covers(commits[j].doc, commits[j].date, commits[j].fetched)'
    <2>1. PICK doc, date, m, base : /\ doc = commits[j].doc /\ date = commits[j].date
                                    /\ m = commits[j].fetched /\ base = commits[j].base
      OBVIOUS
    <2>2. /\ date \in Days /\ base \in 0 .. j - 1
          /\ base # 0 => Has(base, date)
          /\ \A i \in 1 .. j - 1 : Has(i, date) => i <= base
          /\ DocInv(doc, date) /\ m \in 0 .. n /\ Covers(doc, date, m)
      BY <2>1 DEF AttestProofInv, ChainInv
    <2>3. /\ \A e \in LeavesOf(doc) : e \in rows' \cup truncated' /\ Within(ts'[e], date)
          /\ \A i \in 1 .. m :
                commits'[i].date = date /\ Range(commits'[i].doc.leaf_hashes) \cap truncated' = {}
                   => Range(commits'[i].doc.leaf_hashes) \subseteq LeavesOf(doc)
      BY <2>2, DocumentsKeep
    <2>4. DocInv(commits[j].doc, commits[j].date)'
          /\ Covers(commits[j].doc, commits[j].date, commits[j].fetched)'
      BY <1>1, <2>1, <2>3 DEF DocInv, Covers, Has, Leaves, LeavesOf
    <2>5. \A i \in 1 .. j - 1 : Has(i, commits[j].date)' => i <= commits'[j].base
      <3>1. \A i \in 1 .. j - 1 : commits'[i] = commits[i]
        BY <1>0, <1>1
      <3> QED BY <1>1, <2>1, <2>2, <3>1 DEF Has
    <2>6. commits'[j].base # 0 => Has(commits[j].base, commits[j].date)'
      <3>1. base # 0 => commits'[base] = commits[base]
        BY <1>0, <1>1, <2>2
      <3> QED BY <1>1, <2>1, <2>2, <3>1 DEF Has
    <2>7. commits'[j].fetched \in 0 .. Len(commits')
      BY <1>0, <1>1, <2>1, <2>2
    <2>8. commits'[j].date \in Days /\ commits'[j].base \in 0 .. j - 1
      BY <1>1, <2>1, <2>2
    <2> QED BY <2>4, <2>5, <2>6, <2>7, <2>8
  <1>2. CASE commits' = commits
    <2>1. ASSUME NEW j \in 1 .. n
          PROVE  /\ commits'[j].date \in Days
                 /\ commits'[j].base \in 0 .. j - 1
                 /\ commits'[j].base # 0 => Has(commits[j].base, commits[j].date)'
                 /\ \A i \in 1 .. j - 1 : Has(i, commits[j].date)' => i <= commits'[j].base
                 /\ DocInv(commits[j].doc, commits[j].date)'
                 /\ commits'[j].fetched \in 0 .. Len(commits')
                 /\ Covers(commits[j].doc, commits[j].date, commits[j].fetched)'
      BY <1>0, <1>1, <1>2
    <2>2. DOMAIN commits' = 1 .. Len(commits') /\ Len(commits') = n
      BY <1>0, <1>2
    <2> QED BY <1>0, <2>1, <2>2 DEF ChainInv
  <1>3. ASSUME NEW p \in Publishers, Put(p), Accepts(p), Commit(p) PROVE ChainInv'
    <2>1. /\ DOMAIN commits' = 1 .. n + 1 /\ Len(commits') = n + 1
          /\ \A i \in 1 .. n : commits'[i] = commits[i]
          /\ commits'[n + 1] = [date |-> pub[p].date, doc |-> pub[p].doc,
                                base |-> pub[p].sha, fetched |-> pub[p].fetched]
      BY <1>3, CommitFacts
    <2>2. PICK doc, date, m, base : /\ doc = pub[p].doc /\ date = pub[p].date
                                    /\ m = pub[p].fetched /\ base = pub[p].sha
      OBVIOUS
    <2>3. /\ date \in Days /\ base \in 0 .. n /\ m \in 0 .. n
          /\ DocInv(doc, date) /\ Covers(doc, date, m)
      BY <1>3, <2>2 DEF Put, AttestProofInv, PubInv
    <2>4. /\ base # 0 => Has(base, date)
          /\ \A i \in 1 .. n : Has(i, date) => i <= base
      <3>1. base = FileOf(date)
        BY <1>3, <2>2 DEF Accepts
      <3> QED BY <1>0, <3>1, FileFacts
    <2>5. /\ \A e \in LeavesOf(doc) : e \in rows' \cup truncated' /\ Within(ts'[e], date)
          /\ \A i \in 1 .. m :
                commits'[i].date = date /\ Range(commits'[i].doc.leaf_hashes) \cap truncated' = {}
                   => Range(commits'[i].doc.leaf_hashes) \subseteq LeavesOf(doc)
      BY <2>3, DocumentsKeep
    <2>6. commits'[n + 1].date = date /\ commits'[n + 1].doc = doc
          /\ commits'[n + 1].base = base /\ commits'[n + 1].fetched = m
      BY <2>1, <2>2
    <2>7. /\ commits'[n + 1].base # 0 =>
                commits'[commits'[n + 1].base].date = commits'[n + 1].date
          /\ \A i \in 1 .. n : commits'[i].date = commits'[n + 1].date => i <= commits'[n + 1].base
      BY <1>0, <2>1, <2>3, <2>4, <2>6 DEF Has
    <2>8. ASSUME NEW j \in 1 .. n + 1, j = n + 1
          PROVE  /\ commits'[j].date \in Days
                 /\ commits'[j].base \in 0 .. j - 1
                 /\ commits'[j].base # 0 => commits'[commits'[j].base].date = commits'[j].date
                 /\ \A i \in 1 .. j - 1 : commits'[i].date = commits'[j].date => i <= commits'[j].base
                 /\ DocInv(commits[j].doc, commits[j].date)'
                 /\ commits'[j].fetched \in 0 .. Len(commits')
                 /\ Covers(commits[j].doc, commits[j].date, commits[j].fetched)'
      <3>1. j - 1 = n /\ 0 .. j - 1 = 0 .. n
        BY <1>0, <2>8
      <3>2. /\ DocInv(commits[j].doc, commits[j].date)'
            /\ Covers(commits[j].doc, commits[j].date, commits[j].fetched)'
        BY <2>5, <2>6, <2>8 DEF DocInv, Covers, Has, Leaves, LeavesOf
      <3>3. commits'[j].fetched \in 0 .. Len(commits')
        BY <1>0, <2>1, <2>3, <2>6, <2>8
      <3> QED BY <2>3, <2>6, <2>7, <2>8, <3>1, <3>2, <3>3
    <2>9. \A j \in 1 .. n + 1 : j \in 1 .. n \/ j = n + 1
      BY <1>0
    <2>10. Len(commits') \in Nat /\ Len(commits') >= n
      BY <1>0, <2>1
    <2>11. ASSUME NEW j \in 1 .. n + 1
           PROVE  /\ commits'[j].date \in Days
                  /\ commits'[j].base \in 0 .. j - 1
                  /\ commits'[j].base # 0 => commits'[commits'[j].base].date = commits'[j].date
                  /\ \A i \in 1 .. j - 1 : commits'[i].date = commits'[j].date => i <= commits'[j].base
                  /\ DocInv(commits[j].doc, commits[j].date)'
                  /\ commits'[j].fetched \in 0 .. Len(commits')
                  /\ Covers(commits[j].doc, commits[j].date, commits[j].fetched)'
      <3>1. CASE j = n + 1
        BY <2>8, <3>1
      <3>2. CASE j \in 1 .. n
        <4>1. /\ commits'[j].base # 0 => Has(commits[j].base, commits[j].date)'
              /\ \A i \in 1 .. j - 1 : Has(i, commits[j].date)' => i <= commits'[j].base
              /\ commits'[j].date \in Days
              /\ commits'[j].base \in 0 .. j - 1
              /\ DocInv(commits[j].doc, commits[j].date)'
              /\ commits'[j].fetched \in 0 .. Len(commits')
              /\ Covers(commits[j].doc, commits[j].date, commits[j].fetched)'
          BY <1>1, <2>1, <2>10, <3>2
        <4> QED BY <4>1 DEF Has
      <3> QED BY <2>9, <3>1, <3>2
    <2> QED BY <2>1, <2>10, <2>11 DEF ChainInv, Has
  <1> QED BY <1>2, <1>3, Grows

(* What the publishers' steps rely on holds in every reachable state.      *)
THEOREM AttestInductive == AttestSpec => []AttestProofInv
  <1>1. AttestProofInv /\ [AttestNext]_attestVars => AttestProofInv'
    BY ClockStep, PubKeeps, ChainKeeps, DefaultStep DEF AttestProofInv
  <1> QED BY AttestInitial, <1>1, PTL DEF AttestSpec

(***************************************************************************)
(* Whatever runs of `oc attest publish` overlap or fail: a version of a    *)
(* day's file replaces only the one its publisher has looked up, so that   *)
(* each version has one successor at most (the sha of the PUT).            *)
(***************************************************************************)
THEOREM VersionsFormAChain == AttestSpec => []AttestInv
  BY AttestInductive, AttestMeaning, PTL

(***************************************************************************)
(* A version lacks an entry of the one it replaces only when its rows were *)
(* read before that one was committed, or a rebuild had truncated the row: *)
(* the late rows that a projector inserts are never the cause.             *)
(***************************************************************************)
THEOREM LossNeedsOverlap == AttestSpec => []EntriesLostByOverlapOnly
  BY AttestInductive, AttestMeaning, PTL

(***************************************************************************)
(* No entry is attested for two days, at whatever moment it was made       *)
(* (fetch_day_envelopes); and the day that is taken without --date (the    *)
(* yesterday of attest_cmds.publish) is over by UTC, unless the host is    *)
(* ahead of it.  Nothing is said of a day given with --date.               *)
(***************************************************************************)
THEOREM AttestedDaysAreSettled == AttestSpec => []DaysAreSettled
  BY AttestInductive, AttestMeaning, PTL

-----------------------------------------------------------------------------
(* Documents are what build_attestation makes of rows.                     *)
Built(doc) ==
    /\ doc.entry_count \in Nat
    /\ doc.leaf_hashes \in [1 .. doc.entry_count -> Entries]
    /\ doc.merkle_root = merkle_root(doc.leaf_hashes)
BuiltInv ==
    /\ \A p \in Publishers : pub[p].at \in {"lookup", "put"} => Built(pub[p].doc)
    /\ \A j \in DOMAIN commits : Built(commits[j].doc)

(* The document of a SELECT has a root and a count of its leaves.          *)
LEMMA FetchBuilds ==
  ASSUME AttestProofInv, NEW p \in Publishers, Fetch(p)
  PROVE  Built(pub'[p].doc)
  <1> DEFINE S == {e \in rows : Within(ts[e], pub[p].date)}
             raw == Ordered(S)
  <1>1. pub'[p].doc = build_attestation(raw)
    BY DEF Fetch, AttestProofInv, PubInv, PubFields, fetch_day_envelopes, RowsOf
  <1>2. S \in SUBSET Entries
    BY DEF AttestProofInv, ClockInv
  <1>3. Cardinality(S) \in Nat /\ raw \in [1 .. Cardinality(S) -> Entries]
    BY <1>2, OrderedFacts
  <1>4. HasLength(raw, Cardinality(S))
    BY <1>3 DEF HasLength
  <1> HIDE DEF S, raw
  <1>5. Len(raw) = Cardinality(S)
    BY <1>3, <1>4, LengthOf
  <1> QED BY <1>1, <1>3, <1>5 DEF Built, build_attestation

(* A step builds documents at the SELECT only, and commits those.          *)
LEMMA BuiltStep == AttestProofInv /\ BuiltInv /\ [AttestNext]_attestVars => BuiltInv'
  <1> SUFFICES ASSUME AttestProofInv, BuiltInv, [AttestNext]_attestVars PROVE BuiltInv'
    OBVIOUS
  <1>0. DOMAIN pub = Publishers /\ \A p \in Publishers : DOMAIN pub[p] = PubFields
    BY DEF AttestProofInv, PubInv
  <1>1. ASSUME NEW p \in Publishers, pub'[p].at \in {"lookup", "put"}
        PROVE  Built(pub'[p].doc)
    <2>1. CASE Fetch(p)
      BY <2>1, FetchBuilds
    <2>2. \/ Fetch(p)
          \/ pub[p].at \in {"lookup", "put"} /\ pub'[p].doc = pub[p].doc
      <3>1. ASSUME NEW q \in Publishers, PubStep(q), q # p PROVE pub'[p] = pub[p]
        BY <1>0, <3>1 DEF PubStep, Start, Fetch, LookUp, Put, Fails, Commit, Ends
      <3>2. CASE LookUp(p)
        BY <1>0, <3>2 DEF LookUp, PubFields
      <3>3. CASE Put(p) \/ Fails(p)
        BY <1>0, <1>1, <3>3 DEF Put, Fails, Commit, Ends, Idle
      <3>4. CASE Start(p)
        BY <1>0, <1>1, <3>4 DEF Start, Idle
      <3>5. pub'[p] = pub[p] \/ \E q \in Publishers : PubStep(q)
        BY DEF AttestNext, PubStep, Emit, InsertRow, Truncate, Tick, attestVars
      <3> QED BY <1>1, <3>1, <3>2, <3>3, <3>4, <3>5 DEF PubStep
    <2>3. CASE pub[p].at \in {"lookup", "put"} /\ pub'[p].doc = pub[p].doc
      BY <2>3 DEF BuiltInv
    <2> QED BY <2>1, <2>2, <2>3
  <1>2. ASSUME NEW j \in DOMAIN commits' PROVE Built(commits'[j].doc)
    <2>1. CASE commits' = commits
      BY <2>1, <1>2 DEF BuiltInv
    <2>2. ASSUME NEW p \in Publishers, Put(p), Commit(p) PROVE Built(commits'[j].doc)
      <3>1. /\ DOMAIN commits' = 1 .. Len(commits) + 1
            /\ \A i \in 1 .. Len(commits) : commits'[i] = commits[i]
            /\ commits'[Len(commits) + 1] =
                  [date |-> pub[p].date, doc |-> pub[p].doc,
                   base |-> pub[p].sha, fetched |-> pub[p].fetched]
        BY <2>2, CommitFacts
      <3>2. commits'[Len(commits) + 1].doc = pub[p].doc
        BY <3>1
      <3>3. DOMAIN commits = 1 .. Len(commits) /\ Len(commits) \in Nat
        BY DEF AttestProofInv, ChainInv
      <3>4. j \in 1 .. Len(commits) \/ j = Len(commits) + 1
        BY <1>2, <3>1, <3>3
      <3>5. Built(pub[p].doc)
        BY <2>2 DEF Put, BuiltInv
      <3> QED BY <3>1, <3>2, <3>3, <3>4, <3>5 DEF BuiltInv
    <2> QED BY <2>1, <2>2, Grows
  <1> QED BY <1>1, <1>2 DEF BuiltInv

(***************************************************************************)
(* The root and the count of an attestation fix its leaves and their order *)
(* (_merkle_root repeats the last hash of an odd layer): a list of as many *)
(* entries with that root is the list that was published.                  *)
(***************************************************************************)
THEOREM RootsFixLeaves == AttestSpec => []RootFixesLeaves
  <1>1. AttestInit => BuiltInv
    BY DEF AttestInit, BuiltInv, Idle
  <1>2. BuiltInv => RootFixesLeaves
    <2> SUFFICES ASSUME BuiltInv, NEW i \in DOMAIN commits,
                        NEW leaves \in [1 .. commits[i].doc.entry_count -> Entries],
                        merkle_root(leaves) = commits[i].doc.merkle_root
                 PROVE  leaves = commits[i].doc.leaf_hashes
      BY DEF RootFixesLeaves
    <2>1. Built(commits[i].doc)
      BY DEF BuiltInv
    <2> QED BY <2>1, RootFixes DEF Built
  <1> QED BY <1>1, <1>2, AttestInductive, BuiltStep, PTL DEF AttestSpec
=============================================================================
