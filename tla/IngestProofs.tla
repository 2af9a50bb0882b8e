---------------------------- MODULE IngestProofs ----------------------------
(***************************************************************************)
(* Proofs about Ingest: what debouncing keeps of the changes on a disk,    *)
(* and what bus, manifests and answers say of one another, for any number  *)
(* of paths, changes, hooks, connections and faults.                       *)
(***************************************************************************)
EXTENDS Ingest, FiniteSetTheorems, SequenceTheorems, WellFoundedInduction, TLAPS

-----------------------------------------------------------------------------
(* The watcher: the inductive invariant.                                   *)

(* What notify tells: of one path, or of the two of a rename.              *)
OfOne == {Event(what, <<p>>) : what \in {"create", "modify", "remove", "from", "to"}, p \in Paths}
OfTwo == {Event("both", <<p, q>>) : p \in Paths, q \in Paths}
IsNotice(n) ==
    \/ n \in OfOne
    \/ n \in OfTwo /\ n.paths[1] # n.paths[2]
Names(n) == IF n \in OfOne THEN {n.paths[1]} ELSE {n.paths[1], n.paths[2]}
Says(n, p) ==
    CASE n.what \in {"create", "to"} -> "created"
      [] n.what \in {"remove", "from"} -> "deleted"
      [] n.what = "modify" -> "modified"
      [] OTHER -> IF p = n.paths[1] THEN "deleted" ELSE "created"

Entry == [kind : Kinds, count : Nat \ {0}, age : Nat, rename_pair : Nat]
PostedEvent ==
    [source : {"fswatch"}, path : Paths \ Excluded, kind : Kinds, change_count  : Nat,
     rename_pair : Nat, run : Nat]
Rename == [run : Nat, id : Nat, paths : SUBSET Paths]

TypesInv ==
    /\ disk \subseteq Paths /\ changed \in [Paths -> Nat]
    /\ rename_counter \in Nat
    /\ watch_faults \in [unnoticed : Nat, slow : Nat, restart : Nat]
    /\ channel \in Seq(OfOne \cup OfTwo) /\ \A i \in DOMAIN channel : IsNotice(channel[i])
    /\ DOMAIN pending \subseteq Paths \ Excluded
    /\ \A p \in DOMAIN pending : pending[p] \in Entry
    /\ ready \subseteq DOMAIN pending
    /\ posted \in Seq(PostedEvent) /\ renames \in Seq(Rename)
    /\ \/ posting = <<>>
       \/ posted # <<>> /\ posting = <<posted[Len(posted)]>>

(* A call waits for no longer than its timeout, and the posts of a pass    *)
(* follow one another at once.                                             *)
WaitInv ==
    /\ waited \in Nat /\ flushes \in Nat
    /\ posting = <<>> => waited <= Debounce
    /\ posting # <<>> => waited <= PostTimeout
    /\ posting = <<>> /\ ready # {} => waited = 0

(* How old what is not flushed now can be: a window, the wait so far, and  *)
(* a timeout for each post of the pass that is over.                       *)
Slack == PostTimeout * flushes
InHand == IF posting = <<>> THEN 0 ELSE PostTimeout
AgeInv ==
    \A p \in DOMAIN pending \ ready :
        pending[p].age + InHand < Debounce + waited + Slack

(* Every id that is pending or posted is of one rename.                    *)
IdOf(run, id, p) ==
    \E i \in DOMAIN renames : renames[i].run = run /\ renames[i].id = id /\ p \in renames[i].paths

RenameInv ==
    /\ \A i \in DOMAIN renames :
          /\ renames[i].run <= watch_faults.restart
          /\ renames[i].run = watch_faults.restart => renames[i].id <= rename_counter
    /\ \A i, j \in DOMAIN renames :
          renames[i].run = renames[j].run /\ renames[i].id = renames[j].id => i = j
    /\ \A p \in DOMAIN pending :
          pending[p].rename_pair # NoRename =>
              IdOf(watch_faults.restart, pending[p].rename_pair, p)
    /\ \A k \in DOMAIN posted :
          posted[k].rename_pair # NoRename =>
              IdOf(posted[k].run, posted[k].rename_pair, posted[k].path)

(* The last that was said of a path is what the disk is.                   *)
Is(p, kind) == (p \in disk) <=> (kind # "deleted")
Coming(p) == {i \in DOMAIN channel : p \in Names(channel[i])}

ToldOf(p) ==
    /\ \A i \in Coming(p) :
          (\A j \in Coming(p) : j <= i) => Is(p, Says(channel[i], p))
    /\ Coming(p) = {} /\ p \in DOMAIN pending => Is(p, pending[p].kind)
    /\ Coming(p) = {} /\ p \notin DOMAIN pending /\ changed[p] # 0 =>
          \E k \in PostsOf(p) :
              (\A l \in PostsOf(p) : l <= k) /\ Is(p, posted[k].kind)
    /\ changed[p] = 0 => Coming(p) = {} /\ p \notin DOMAIN pending /\ PostsOf(p) = {}

ToldInv == \A p \in Paths \ Excluded : ToldOf(p)

OutcomeInv == Noticed => ToldInv

WatchProofInv == TypesInv /\ WaitInv /\ AgeInv /\ RenameInv /\ OutcomeInv

(***************************************************************************)
(* What a step of the whole is to the watcher.                             *)
(***************************************************************************)
WatchStep ==
    \/ DiskStep \/ ReceiveEvent \/ ReceiveNothing \/ \E p \in Paths : flush_one(p)
    \/ PostEnds \/ PostTimesOut \/ PostWaits \/ Tick \/ Restart
    \/ UNCHANGED watchVars

(* Each step of ingest is one of the watcher, or leaves it alone.          *)
LEMMA WatcherKinds == [BoundedNext]_ingestVars => WatchStep
<1>1. CASE UNCHANGED ingestVars
  BY <1>1 DEF ingestVars, WatchStep
<1>2. CASE IngestNext
  <2>1. CASE Outside
    BY <2>1 DEF Outside, Alone, WatchStep
  <2>2. CASE \/ Alone(ReceiveEvent) \/ Alone(ReceiveNothing)
             \/ PostReturns \/ PostLingers \/ PostAbandoned
    BY <2>2 DEF Alone, PostReturns, PostLingers, PostAbandoned, WatchStep
  <2>3. CASE \E p \in Paths : Post(p)
    BY <2>3 DEF Post, WatchStep
  <2>4. CASE \E c \in DOMAIN conns : Handling(c)
    BY <2>4 DEF Handling, WatchStep
  <2> QED
    BY <1>2, <2>1, <2>2, <2>3, <2>4 DEF IngestNext
<1> QED
  BY <1>1, <1>2 DEF BoundedNext

-----------------------------------------------------------------------------
(* What notify tells of a change, and what the loop makes of it.           *)

(* What notify's events name.                                              *)
LEMMA NoticeFacts ==
    /\ \A what \in {"create", "modify", "remove", "from", "to"}, p \in Paths :
          LET n == Event(what, <<p>>)
          IN  n \in OfOne /\ IsNotice(n) /\ Names(n) = {p}
    /\ \A p, q \in Paths :
          LET n == Event("both", <<p, q>>)
          IN  /\ n \in OfTwo /\ n \notin OfOne /\ Names(n) = {p, q}
              /\ p # q => IsNotice(n)
<1>1. ASSUME NEW what \in {"create", "modify", "remove", "from", "to"}, NEW p \in Paths
      PROVE  LET n == Event(what, <<p>>)
             IN  n \in OfOne /\ IsNotice(n) /\ Names(n) = {p}
  <2>1. Event(what, <<p>>) \in OfOne /\ Event(what, <<p>>).paths[1] = p
    BY DEF Event, OfOne
  <2> QED
    BY <2>1 DEF IsNotice, Names
<1>2. ASSUME NEW p \in Paths, NEW q \in Paths
      PROVE  LET n == Event("both", <<p, q>>)
             IN  /\ n \in OfTwo /\ n \notin OfOne /\ Names(n) = {p, q}
                 /\ p # q => IsNotice(n)
  <2>1. /\ Event("both", <<p, q>>) \in OfTwo /\ Event("both", <<p, q>>) \notin OfOne
        /\ Event("both", <<p, q>>).paths[1] = p /\ Event("both", <<p, q>>).paths[2] = q
    <3>1. Event("both", <<p, q>>) \in OfTwo
      BY DEF OfTwo
    <3>2. \A n \in OfOne : n.what # "both"
      BY DEF OfOne, Event
    <3>3. Event("both", <<p, q>>).what = "both"
      BY DEF Event
    <3> QED
      BY <3>1, <3>2, <3>3 DEF Event
  <2> QED
    BY <2>1 DEF IsNotice, Names
<1> QED
  BY <1>1, <1>2

(* An event names paths.                                                   *)
LEMMA NamesInPaths == \A n \in OfOne \cup OfTwo : Names(n) \subseteq Paths
<1>1. \A n \in OfOne : n.paths[1] \in Paths
  BY DEF OfOne, Event
<1>2. \A n \in OfTwo : n.paths[1] \in Paths /\ n.paths[2] \in Paths
  BY DEF OfTwo, Event
<1> QED
  BY <1>1, <1>2 DEF Names

(* A change that is noticed ends with a notice of all its paths that says  *)
(* what has become of them; one of its notices is of a path alone.         *)
Notices(touched, k) ==
    LET last == Len(channel) + k
    IN  /\ DOMAIN channel' = 1 .. last
        /\ \A i \in DOMAIN channel : channel'[i] = channel[i]
        /\ \A i \in Len(channel) + 1 .. last :
              IsNotice(channel'[i]) /\ Names(channel'[i]) \subseteq touched
        /\ channel' \in Seq(OfOne \cup OfTwo)
        /\ Names(channel'[last]) = touched
        /\ \A p \in touched :
              /\ (p \in disk') <=> (Says(channel'[last], p) # "deleted")
              /\ changed'[p] = changed[p] + 1
              /\ \E j \in Len(channel) + 1 .. last :
                    /\ channel'[j] \in OfOne /\ p \in Names(channel'[j])
                    /\ \A i \in Len(channel) + 1 .. last :
                          channel'[i] \in OfOne /\ p \in Names(channel'[i]) => i = j
        /\ \A p \in Paths \ touched :
              /\ (p \in disk') <=> (p \in disk)
              /\ changed'[p] = changed[p]

(* A change on the disk sends its events, unless it goes unnoticed.        *)
LEMMA DiskFacts ==
    ASSUME TypesInv, DiskStep
    PROVE  /\ UNCHANGED <<loopVars, posted, renames>> /\ Receiving
           /\ disk' \subseteq Paths /\ changed' \in [Paths -> Nat]
           /\ \/ /\ watch_faults' = [watch_faults EXCEPT !.unnoticed = @ + 1]
                 /\ UNCHANGED channel
              \/ /\ UNCHANGED watch_faults
                 /\ \E touched \in SUBSET Paths, k \in {1, 3} : Notices(touched, k)
<1> USE DEF TypesInv
<1>1. ASSUME NEW what \in {"create", "modify", "remove"}, NEW p \in Paths,
             Change({p}, <<Event(what, <<p>>)>>),
             disk' = IF what = "create" THEN disk \cup {p}
                     ELSE IF what = "remove" THEN disk \ {p} ELSE disk,
             what = "modify" => p \in disk
      PROVE  Notices({p}, 1) /\ disk' \subseteq Paths
  <2> DEFINE n == Event(what, <<p>>)
  <2>1. n \in OfOne /\ IsNotice(n) /\ Names(n) = {p} /\ n.what = what
    BY NoticeFacts DEF Event
  <2>2. channel' = channel \o <<n>> /\ <<n>> \in Seq(OfOne \cup OfTwo) /\ Len(<<n>>) = 1
        /\ <<n>>[1] = n /\ DOMAIN channel = 1 .. Len(channel) /\ Len(channel) \in Nat
    BY <1>1, <2>1 DEF Change
  <2>3. /\ DOMAIN channel' = 1 .. Len(channel) + 1 /\ channel' \in Seq(OfOne \cup OfTwo)
        /\ \A i \in DOMAIN channel : channel'[i] = channel[i]
        /\ channel'[Len(channel) + 1] = n
    <3> HIDE DEF n
    <3> QED
      BY <2>2, ConcatProperties
  <2>4. /\ changed'[p] = changed[p] + 1
        /\ \A q \in Paths \ {p} : changed'[q] = changed[q]
    BY <1>1 DEF Change
  <2>5. (p \in disk') <=> (Says(n, p) # "deleted")
    BY <1>1, <2>1 DEF Says
  <2> HIDE DEF n
  <2>6. \A q \in Paths \ {p} : (q \in disk') <=> (q \in disk)
    BY <1>1
  <2>7. \A i \in Len(channel) + 1 .. Len(channel) + 1 : i = Len(channel) + 1
    BY <2>2
  <2> QED
    BY <1>1, <2>1, <2>2, <2>3, <2>4, <2>5, <2>6, <2>7 DEF Notices
<1>2. ASSUME NEW p \in Paths, NEW q \in Paths, RenameFile(p, q)
      PROVE  Notices({p, q}, 3) /\ disk' \subseteq Paths
  <2> DEFINE a == Event("from", <<p>>)
             b == Event("to", <<q>>)
             n == Event("both", <<p, q>>)
  <2>0. p # q
    BY <1>2 DEF RenameFile
  <2>1. /\ a \in OfOne /\ IsNotice(a) /\ Names(a) = {p}
        /\ b \in OfOne /\ IsNotice(b) /\ Names(b) = {q}
        /\ n \in OfTwo /\ IsNotice(n) /\ Names(n) = {p, q}
        /\ n.what = "both" /\ n.paths[1] = p
    BY <2>0, NoticeFacts DEF Event
  <2>2. channel' = channel \o <<a, b, n>>
    BY <1>2 DEF RenameFile, Change
  <2>3. Says(n, p) = "deleted" /\ Says(n, q) = "created"
    BY <2>0, <2>1 DEF Says
  <2>4. /\ changed'[p] = changed[p] + 1 /\ changed'[q] = changed[q] + 1
        /\ \A r \in Paths \ {p, q} : changed'[r] = changed[r]
        /\ disk' = (disk \ {p}) \cup {q}
    <3>1. /\ disk' = (disk \ {p}) \cup {q}
          /\ changed' = [r \in Paths |-> changed[r] + IF r \in {p, q} THEN 1 ELSE 0]
      BY <1>2 DEF RenameFile, Change
    <3>2. \A r \in Paths : changed[r] \in Nat /\ changed[r] + 1 # 0 /\ changed[r] + 0 = changed[r]
      BY DEF TypesInv
    <3>3. changed'[p] = changed[p] + 1 /\ changed'[q] = changed[q] + 1
      BY <3>1
    <3>4. \A r \in Paths \ {p, q} : changed'[r] = changed[r]
      BY <3>1, <3>2
    <3> QED
      BY <3>1, <3>2, <3>3, <3>4
  <2> HIDE DEF a, b, n
  <2>5. /\ <<a, b, n>> \in Seq(OfOne \cup OfTwo) /\ Len(<<a, b, n>>) = 3
        /\ <<a, b, n>>[1] = a /\ <<a, b, n>>[2] = b /\ <<a, b, n>>[3] = n
        /\ DOMAIN channel = 1 .. Len(channel) /\ Len(channel) \in Nat
    BY <2>1
  <2>6. /\ DOMAIN channel' = 1 .. Len(channel) + 3 /\ channel' \in Seq(OfOne \cup OfTwo)
        /\ \A i \in DOMAIN channel : channel'[i] = channel[i]
        /\ channel'[Len(channel) + 1] = a
        /\ channel'[Len(channel) + 2] = b
        /\ channel'[Len(channel) + 3] = n
    BY <2>2, <2>5, ConcatProperties
  <2>7. \A i \in Len(channel) + 1 .. Len(channel) + 3 :
            IsNotice(channel'[i]) /\ Names(channel'[i]) \subseteq {p, q}
    <3>0. PICK L \in Nat : L = Len(channel)
      BY <2>5
    <3>1. \A i \in L + 1 .. L + 3 : i \in {L + 1, L + 2, L + 3}
      OBVIOUS
    <3> QED
      BY <2>1, <2>6, <3>0, <3>1
  <2>8. \A r \in {p, q} : \E j \in Len(channel) + 1 .. Len(channel) + 3 :
            /\ channel'[j] \in OfOne /\ r \in Names(channel'[j])
            /\ \A i \in Len(channel) + 1 .. Len(channel) + 3 :
                  channel'[i] \in OfOne /\ r \in Names(channel'[i]) => i = j
    <3>0. PICK L \in Nat : L = Len(channel)
      BY <2>5
    <3>1. /\ L + 1 \in L + 1 .. L + 3 /\ L + 2 \in L + 1 .. L + 3
          /\ L + 1 # L + 2
          /\ \A i \in L + 1 .. L + 3 : i = L + 1 \/ i = L + 2 \/ i = L + 3
      OBVIOUS
    <3>2. n \notin OfOne
      BY NoticeFacts DEF n
    <3>3. /\ channel'[L + 1] \in OfOne /\ Names(channel'[L + 1]) = {p}
          /\ channel'[L + 2] \in OfOne /\ Names(channel'[L + 2]) = {q}
          /\ channel'[L + 3] \notin OfOne
      BY <2>1, <2>6, <3>0, <3>2
    <3>4. \A i \in L + 1 .. L + 3 :
             channel'[i] \in OfOne /\ p \in Names(channel'[i]) => i = L + 1
      BY <2>0, <3>1, <3>3
    <3>5. \A i \in L + 1 .. L + 3 :
             channel'[i] \in OfOne /\ q \in Names(channel'[i]) => i = L + 2
      BY <2>0, <3>1, <3>3
    <3> DEFINE Lone(r, j) ==
                  /\ channel'[j] \in OfOne /\ r \in Names(channel'[j])
                  /\ \A i \in L + 1 .. L + 3 :
                        channel'[i] \in OfOne /\ r \in Names(channel'[i]) => i = j
    <3>6. Lone(p, L + 1) /\ Lone(q, L + 2)
      BY <3>3, <3>4, <3>5
    <3> HIDE DEF Lone
    <3>7. \A r \in {p, q} : \E j \in L + 1 .. L + 3 : Lone(r, j)
      BY <3>1, <3>6
    <3> QED
      BY <3>0, <3>7 DEF Lone
  <2> QED
    BY <2>0, <2>1, <2>3, <2>4, <2>6, <2>7, <2>8 DEF Notices
<1>3. ASSUME NEW p \in Paths, CreateFile(p) \/ ModifyFile(p) \/ RemoveFile(p)
      PROVE  Notices({p}, 1) /\ disk' \subseteq Paths
  BY <1>1, <1>3 DEF CreateFile, ModifyFile, RemoveFile
<1>4. ASSUME NEW paths, NEW evs, Change(paths, evs)
      PROVE  changed' \in [Paths -> Nat]
  <2>1. \A p \in Paths : (changed[p] + IF p \in paths THEN 1 ELSE 0) \in Nat
    OBVIOUS
  <2> QED
    BY <1>4, <2>1 DEF Change
<1>5. ASSUME NEW p \in Paths,
             CreateFile(p) \/ ModifyFile(p) \/ RemoveFile(p) \/ \E q \in Paths : RenameFile(p, q)
      PROVE  changed' \in [Paths -> Nat]
  BY <1>4, <1>5 DEF CreateFile, ModifyFile, RemoveFile, RenameFile
<1>6. ASSUME NEW p \in Paths, UnnoticedChange(p)
      PROVE  /\ UNCHANGED <<loopVars, posted, renames, channel>> /\ Receiving
             /\ disk' \subseteq Paths /\ changed' \in [Paths -> Nat]
             /\ watch_faults' = [watch_faults EXCEPT !.unnoticed = @ + 1]
  <2>1. changed' = [changed EXCEPT ![p] = @ + 1] /\ changed[p] + 1 \in Nat
    BY <1>6 DEF UnnoticedChange
  <2>2. changed' \in [Paths -> Nat]
    BY <2>1
  <2> QED
    BY <1>6, <2>2 DEF UnnoticedChange, WatchFault
<1>7. ASSUME NEW p \in Paths, CreateFile(p) \/ ModifyFile(p) \/ RemoveFile(p) \/ \E q \in Paths : RenameFile(p, q)
      PROVE  UNCHANGED <<loopVars, posted, renames, watch_faults>> /\ Receiving
  BY <1>7 DEF CreateFile, ModifyFile, RemoveFile, RenameFile, Change
<1> QED
  <2>1. CASE \E p \in Paths : UnnoticedChange(p)
    BY <1>6, <2>1
  <2>2. ASSUME NEW p \in Paths, CreateFile(p) \/ ModifyFile(p) \/ RemoveFile(p)
        PROVE  /\ UNCHANGED <<loopVars, posted, renames, watch_faults>> /\ Receiving
               /\ disk' \subseteq Paths /\ changed' \in [Paths -> Nat]
               /\ \E touched \in SUBSET Paths, k \in {1, 3} : Notices(touched, k)
    <3>1. Notices({p}, 1) /\ disk' \subseteq Paths
      BY <1>3, <2>2
    <3>2. {p} \in SUBSET Paths /\ 1 \in {1, 3}
      OBVIOUS
    <3> QED
      BY <1>5, <1>7, <2>2, <3>1, <3>2
  <2>3. ASSUME NEW p \in Paths, NEW q \in Paths, RenameFile(p, q)
        PROVE  /\ UNCHANGED <<loopVars, posted, renames, watch_faults>> /\ Receiving
               /\ disk' \subseteq Paths /\ changed' \in [Paths -> Nat]
               /\ \E touched \in SUBSET Paths, k \in {1, 3} : Notices(touched, k)
    <3>1. Notices({p, q}, 3) /\ disk' \subseteq Paths
      BY <1>2, <2>3
    <3>2. {p, q} \in SUBSET Paths /\ 3 \in {1, 3}
      OBVIOUS
    <3> QED
      BY <1>5, <1>7, <2>3, <3>1, <3>2
  <2> QED
    BY <2>1, <2>2, <2>3 DEF DiskStep

(* map_event says the same of a path as its notice.                        *)
Said(ms, p) == CHOOSE m \in Range(ms) : m.path = p

(* map_event says of each path what the event says.                        *)
LEMMA MapFacts ==
    ASSUME NEW n \in OfOne \cup OfTwo, IsNotice(n), NEW id \in Nat
    PROVE  LET ms == map_event(n, id)
           IN  /\ {ms[i].path : i \in DOMAIN ms} = Names(n)
               /\ \A p \in Names(n) :
                     /\ Said(ms, p).kind = Says(n, p)
                     /\ Said(ms, p).rename_pair = IF n \in OfOne THEN NoRename ELSE id
<1> DEFINE ms == map_event(n, id)
<1>1. CASE n \in OfOne
  <2>1. PICK what \in {"create", "modify", "remove", "from", "to"}, p \in Paths :
            n = Event(what, <<p>>)
    BY <1>1 DEF OfOne
  <2>2. n.what = what /\ n.paths = <<p>> /\ DOMAIN n.paths = {1} /\ n.paths[1] = p
    BY <2>1 DEF Event
  <2>3. ms = [i \in {1} |-> [path |-> p, kind |-> Says(n, p), rename_pair |-> NoRename]]
    <3>1. ms = [i \in {1} |-> [path |-> n.paths[i], kind |-> Says(n, p), rename_pair |-> NoRename]]
      BY <2>2 DEF map_event, Says
    <3> QED
      BY <2>2, <3>1
  <2> HIDE DEF ms
  <2>4. Range(ms) = {[path |-> p, kind |-> Says(n, p), rename_pair |-> NoRename]}
    BY <2>3 DEF Range
  <2>5. Said(ms, p) = [path |-> p, kind |-> Says(n, p), rename_pair |-> NoRename]
    BY <2>4 DEF Said
  <2>6. Names(n) = {p} /\ {ms[i].path : i \in DOMAIN ms} = {p}
    BY <1>1, <2>2, <2>3 DEF Names
  <2> QED
    BY <1>1, <2>5, <2>6 DEF ms
<1>2. CASE n \notin OfOne
  <2>1. PICK p \in Paths, q \in Paths : n = Event("both", <<p, q>>)
    BY <1>2 DEF OfTwo
  <2>2. n.what = "both" /\ n.paths[1] = p /\ n.paths[2] = q /\ p # q
    BY <1>2, <2>1 DEF Event, IsNotice
  <2> DEFINE a == [path |-> p, kind |-> "deleted", rename_pair |-> id]
             b == [path |-> q, kind |-> "created", rename_pair |-> id]
  <2>3. ms = <<a, b>>
    BY <2>2 DEF map_event
  <2> HIDE DEF ms
  <2>4. a.path = p /\ b.path = q
    OBVIOUS
  <2>5. Range(ms) = {a, b} /\ {ms[i].path : i \in DOMAIN ms} = {p, q}
    <3> HIDE DEF a, b
    <3>1. DOMAIN ms = {1, 2} /\ ms[1] = a /\ ms[2] = b
      BY <2>3
    <3> QED
      BY <2>4, <3>1 DEF Range
  <2>6. Said(ms, p) = a /\ Said(ms, q) = b
    <3> HIDE DEF a, b
    <3> QED
      BY <2>2, <2>4, <2>5 DEF Said
  <2>7. Names(n) = {p, q} /\ Says(n, p) = "deleted" /\ Says(n, q) = "created"
    BY <1>2, <2>2 DEF Names, Says
  <2> QED
    BY <1>2, <2>5, <2>6, <2>7 DEF ms
<1> QED
  BY <1>1, <1>2

(* The table after a notice.                                               *)
Held(p) == IF p \in DOMAIN pending THEN pending[p].rename_pair ELSE NoRename
HeldCount(p) == IF p \in DOMAIN pending THEN pending[p].count ELSE 0

(* The entry API changes the entries of the paths named and no other.      *)
LEMMA NoteFacts ==
    ASSUME TypesInv, NEW n \in OfOne \cup OfTwo, IsNotice(n), NEW id \in Nat
    PROVE  LET new == Note(pending, map_event(n, id))
           IN  /\ DOMAIN new = DOMAIN pending \cup (Names(n) \ Excluded)
               /\ \A p \in DOMAIN new : new[p] \in Entry
               /\ \A p \in DOMAIN pending \ Names(n) : new[p] = pending[p]
               /\ \A p \in Names(n) \ Excluded :
                     /\ new[p].kind = Says(n, p) /\ new[p].age = 0
                     /\ new[p].count = HeldCount(p) + 1
                     /\ new[p].rename_pair \in {Held(p), IF n \in OfOne THEN NoRename ELSE id}
                     /\ n \in OfOne => new[p].rename_pair = Held(p)
<1> DEFINE ms == map_event(n, id)
           named == {ms[i].path : i \in DOMAIN ms} \ Excluded
           Old(p) == IF p \in DOMAIN pending THEN pending[p]
                     ELSE [count |-> 0, rename_pair |-> NoRename]
           new == Note(pending, ms)
<1>1. new = [p \in DOMAIN pending \cup named |->
                IF p \in named THEN Coalesce(Old(p), Said(ms, p)) ELSE pending[p]]
  BY DEF Note, Said
<1>2. /\ named = Names(n) \ Excluded
      /\ \A p \in Names(n) :
            /\ Said(ms, p).kind = Says(n, p)
            /\ Said(ms, p).rename_pair = IF n \in OfOne THEN NoRename ELSE id
  BY MapFacts
<1>3. \A p \in DOMAIN pending : pending[p] \in Entry
  BY DEF TypesInv
<1>4. \A p : /\ Old(p).count \in Nat /\ Old(p).count = HeldCount(p)
             /\ Old(p).rename_pair = Held(p) /\ Held(p) \in Nat
  BY <1>3 DEF Held, HeldCount, Entry, NoRename
<1> HIDE DEF ms, named, Old, new
<1>5. \A p : Says(n, p) \in Kinds
  BY DEF Says, Kinds
<1>6. /\ DOMAIN new = DOMAIN pending \cup named
      /\ \A p \in named : new[p] = Coalesce(Old(p), Said(ms, p))
      /\ \A p \in DOMAIN pending \ named : new[p] = pending[p]
  BY <1>1
<1>7. ASSUME NEW p \in named
      PROVE  /\ new[p] \in Entry /\ new[p].kind = Says(n, p) /\ new[p].age = 0
             /\ new[p].count = HeldCount(p) + 1
             /\ new[p].rename_pair \in {Held(p), IF n \in OfOne THEN NoRename ELSE id}
             /\ n \in OfOne => new[p].rename_pair = Held(p)
  <2>1. new[p] = [kind |-> Says(n, p), count |-> Old(p).count + 1, age |-> 0,
                  rename_pair |-> IF Said(ms, p).rename_pair # NoRename
                                  THEN Said(ms, p).rename_pair ELSE Held(p)]
    BY <1>2, <1>4, <1>6 DEF Coalesce
  <2>2. Old(p).count + 1 \in Nat \ {0}
    BY <1>4
  <2>3. Said(ms, p).rename_pair \in Nat
    BY <1>2 DEF NoRename
  <2>4. new[p] \in Entry
    BY <1>4, <1>5, <2>1, <2>2, <2>3 DEF Entry
  <2> QED
    BY <1>2, <1>4, <2>1, <2>4
<1>8. \A p \in DOMAIN pending : p \notin Excluded
  BY DEF TypesInv
<1> QED
  BY <1>2, <1>3, <1>6, <1>7, <1>8 DEF ms, new

-----------------------------------------------------------------------------
(* The steps of the loop, as the invariants need them.                     *)

Received(n) ==
    /\ channel # <<>> /\ n = channel[1] /\ n \in OfOne \cup OfTwo /\ IsNotice(n)
    /\ channel' \in Seq(OfOne \cup OfTwo) /\ Len(channel) \in Nat
    /\ DOMAIN channel' = 1 .. Len(channel) - 1
    /\ \A i \in DOMAIN channel' : channel'[i] = channel[i + 1]
    /\ DOMAIN pending' = DOMAIN pending \cup (Names(n) \ Excluded)
    /\ \A p \in DOMAIN pending' : pending'[p] \in Entry
    /\ \A p \in DOMAIN pending \ Names(n) : pending'[p] = pending[p]
    /\ \A p \in Names(n) \ Excluded :
          /\ pending'[p].kind = Says(n, p) /\ pending'[p].age = 0
          /\ pending'[p].count = HeldCount(p) + 1
          /\ pending'[p].rename_pair \in
                {Held(p), IF n \in OfOne THEN NoRename ELSE rename_counter'}
          /\ n \in OfOne => pending'[p].rename_pair = Held(p)
    /\ rename_counter' = rename_counter + (IF n \in OfOne THEN 0 ELSE 1)
    /\ renames' = IF n \in OfOne THEN renames
                  ELSE Append(renames, [run |-> watch_faults.restart, id |-> rename_counter',
                                        paths |-> Names(n)])
    /\ ready' = Ready(pending') /\ waited' = 0 /\ flushes' = 0 /\ posting = <<>>
    /\ UNCHANGED <<disk, changed, posting, posted, watch_faults>>

(* What receiving an event does to channel and entries.                    *)
LEMMA ReceiveFacts ==
    ASSUME TypesInv, ReceiveEvent
    PROVE  Received(channel[1])
<1> DEFINE n == channel[1]
<1>1. channel \in Seq(OfOne \cup OfTwo) /\ channel # <<>> /\ Head(channel) = n
  BY DEF TypesInv, ReceiveEvent
<1>2. /\ Len(channel) \in Nat \ {0} /\ 1 \in DOMAIN channel
      /\ channel' \in Seq(OfOne \cup OfTwo) /\ DOMAIN channel' = 1 .. Len(channel) - 1
      /\ \A i \in DOMAIN channel' : channel'[i] = channel[i + 1]
  <2>1. channel' = Tail(channel)
    BY DEF ReceiveEvent
  <2> QED
    BY <1>1, <2>1
<1>3. n \in OfOne \cup OfTwo /\ IsNotice(n)
  BY <1>1, <1>2 DEF TypesInv
<1> HIDE DEF n
<1>4. n.what = "both" <=> n \notin OfOne
  <2>1. \A m \in OfOne : m.what # "both"
    BY DEF OfOne, Event
  <2>2. \A m \in OfTwo : m.what = "both"
    BY DEF OfTwo, Event
  <2> QED
    BY <1>3, <2>1, <2>2
<1>5. /\ rename_counter' = rename_counter + (IF n \in OfOne THEN 0 ELSE 1)
      /\ rename_counter' \in Nat
      /\ pending' = Note(pending, map_event(n, rename_counter'))
  BY <1>1, <1>4 DEF ReceiveEvent, TypesInv
<1>6. n \notin OfOne => Range(n.paths) = Names(n)
  <2> SUFFICES ASSUME n \notin OfOne PROVE Range(n.paths) = Names(n)
    OBVIOUS
  <2>1. PICK p \in Paths, q \in Paths : n = Event("both", <<p, q>>)
    <3>1. n \in OfTwo
      BY <1>3
    <3>2. \A m \in OfTwo : \E p, q \in Paths : m = Event("both", <<p, q>>)
      BY DEF OfTwo
    <3> QED
      BY <3>1, <3>2
  <2>2. n.paths = <<p, q>> /\ DOMAIN n.paths = {1, 2} /\ n.paths[1] = p /\ n.paths[2] = q
    BY <2>1 DEF Event
  <2> QED
    BY <2>2 DEF Names, Range
<1>7. PICK id \in Nat : id = rename_counter'
  BY <1>5
<1>8. /\ DOMAIN pending' = DOMAIN pending \cup (Names(n) \ Excluded)
      /\ \A p \in DOMAIN pending' : pending'[p] \in Entry
      /\ \A p \in DOMAIN pending \ Names(n) : pending'[p] = pending[p]
      /\ \A p \in Names(n) \ Excluded :
            /\ pending'[p].kind = Says(n, p) /\ pending'[p].age = 0
            /\ pending'[p].count = HeldCount(p) + 1
            /\ pending'[p].rename_pair \in {Held(p), IF n \in OfOne THEN NoRename ELSE id}
            /\ n \in OfOne => pending'[p].rename_pair = Held(p)
  <2> DEFINE new == Note(pending, map_event(n, id))
  <2>1. /\ DOMAIN new = DOMAIN pending \cup (Names(n) \ Excluded)
        /\ \A p \in DOMAIN new : new[p] \in Entry
        /\ \A p \in DOMAIN pending \ Names(n) : new[p] = pending[p]
        /\ \A p \in Names(n) \ Excluded :
              /\ new[p].kind = Says(n, p) /\ new[p].age = 0
              /\ new[p].count = HeldCount(p) + 1
              /\ new[p].rename_pair \in {Held(p), IF n \in OfOne THEN NoRename ELSE id}
              /\ n \in OfOne => new[p].rename_pair = Held(p)
    BY <1>3, NoteFacts
  <2>2. pending' = new
    BY <1>5, <1>7
  <2> HIDE DEF new
  <2> QED
    BY <2>1, <2>2
<1>9. /\ renames' = IF n \in OfOne THEN renames
                    ELSE Append(renames, [run |-> watch_faults.restart, id |-> rename_counter',
                                          paths |-> Names(n)])
      /\ ready' = Ready(pending') /\ waited' = 0 /\ flushes' = 0 /\ posting = <<>>
      /\ UNCHANGED <<disk, changed, posting, posted, watch_faults>>
  BY <1>1, <1>4, <1>6 DEF ReceiveEvent, Receiving
<1> QED
  BY <1>1, <1>2, <1>3, <1>5, <1>7, <1>8, <1>9 DEF Received, n

(* flush_one takes a path from the table to the posts.                     *)
Flushed(p) ==
    /\ p \in ready /\ p \in DOMAIN pending /\ posting = <<>>
    /\ ready' = ready \ {p}
    /\ DOMAIN pending' = DOMAIN pending \ {p}
    /\ \A q \in DOMAIN pending' : pending'[q] = pending[q]
    /\ Len(posted) \in Nat /\ DOMAIN posted' = 1 .. Len(posted) + 1 /\ Len(posted') = Len(posted) + 1
    /\ DOMAIN posted = 1 .. Len(posted)
    /\ \A k \in DOMAIN posted : posted'[k] = posted[k]
    /\ posted' \in Seq(PostedEvent)
    /\ LET ev == posted'[Len(posted) + 1]
       IN  /\ ev \in PostedEvent /\ posting' = <<ev>>
           /\ ev.path = p /\ ev.kind = pending[p].kind /\ ev.change_count = pending[p].count
           /\ ev.rename_pair = pending[p].rename_pair /\ ev.run = watch_faults.restart
    /\ flushes' = flushes + 1
    /\ UNCHANGED <<disk, channel, changed, rename_counter, waited, renames, watch_faults>>

(* What flushing a path does to entries and posts.                         *)
LEMMA FlushFacts ==
    ASSUME TypesInv, NEW p, flush_one(p)
    PROVE  Flushed(p)
<1> DEFINE ev == [source |-> "fswatch", path |-> p, kind |-> pending[p].kind,
                  change_count |-> pending[p].count, rename_pair |-> pending[p].rename_pair,
                  run |-> watch_faults.restart]
<1>1. p \in DOMAIN pending /\ p \in Paths \ Excluded /\ pending[p] \in Entry
  BY DEF TypesInv, flush_one
<1>2. ev \in PostedEvent
  BY <1>1 DEF TypesInv, Entry, PostedEvent
<1>3. posted' = Append(posted, ev) /\ posting' = <<ev>>
  BY DEF flush_one
<1>4. /\ ev.path = p /\ ev.kind = pending[p].kind /\ ev.change_count = pending[p].count
      /\ ev.rename_pair = pending[p].rename_pair /\ ev.run = watch_faults.restart
  OBVIOUS
<1> HIDE DEF ev
<1>5. /\ Len(posted) \in Nat /\ DOMAIN posted' = 1 .. Len(posted) + 1
      /\ Len(posted') = Len(posted) + 1 /\ DOMAIN posted = 1 .. Len(posted)
      /\ \A k \in DOMAIN posted : posted'[k] = posted[k]
      /\ posted'[Len(posted) + 1] = ev /\ posted' \in Seq(PostedEvent)
  <2>1. posted \in Seq(PostedEvent)
    BY DEF TypesInv
  <2> QED
    BY <1>2, <1>3, <2>1, AppendProperties
<1> QED
  BY <1>1, <1>2, <1>3, <1>4, <1>5 DEF Flushed, flush_one, diskVars

(* Time makes every entry older.                                           *)
LEMMA OlderFacts ==
    ASSUME TypesInv, Older
    PROVE  /\ DOMAIN pending' = DOMAIN pending
           /\ \A p \in DOMAIN pending :
                 /\ pending'[p] \in Entry /\ pending'[p].age = pending[p].age + 1
                 /\ pending'[p].kind = pending[p].kind
                 /\ pending'[p].count = pending[p].count
                 /\ pending'[p].rename_pair = pending[p].rename_pair
<1>1. \A p \in DOMAIN pending : pending'[p] = [pending[p] EXCEPT !.age = @ + 1]
  BY DEF Older
<1>2. DOMAIN pending' = DOMAIN pending
  BY DEF Older
<1>3. ASSUME NEW p \in DOMAIN pending
      PROVE  /\ pending'[p] \in Entry /\ pending'[p].age = pending[p].age + 1
             /\ pending'[p].kind = pending[p].kind
             /\ pending'[p].count = pending[p].count
             /\ pending'[p].rename_pair = pending[p].rename_pair
  <2>1. pending[p] \in Entry
    BY DEF TypesInv
  <2>2. pending[p].age + 1 \in Nat
    BY <2>1 DEF Entry
  <2> QED
    BY <1>1, <2>1, <2>2 DEF Entry
<1> QED
  BY <1>2, <1>3

-----------------------------------------------------------------------------
(* The invariant is inductive.                                             *)

(* The invariant of the watcher holds initially.                           *)
LEMMA WatchInitial == WatchInit => WatchProofInv
<1> SUFFICES ASSUME WatchInit PROVE WatchProofInv
  OBVIOUS
<1>1. /\ channel = <<>> /\ DOMAIN channel = {} /\ DOMAIN pending = {} /\ ready = {}
      /\ posted = <<>> /\ DOMAIN posted = {} /\ renames = <<>> /\ DOMAIN renames = {}
      /\ posting = <<>>
  BY DEF WatchInit
<1>2. /\ disk \subseteq Paths /\ changed \in [Paths -> Nat] /\ rename_counter \in Nat
      /\ watch_faults \in [unnoticed : Nat, slow : Nat, restart : Nat]
  BY FsWatchAssumption DEF WatchInit
<1>3. TypesInv
  BY <1>1, <1>2 DEF TypesInv
<1>6. WaitInv
  BY <1>1, FsWatchAssumption DEF WatchInit, WaitInv
<1>4. AgeInv /\ RenameInv
  BY <1>1 DEF AgeInv, RenameInv
<1>5. ToldInv
  <2>1. \A p \in Paths : changed[p] = 0
    BY DEF WatchInit
  <2> QED
    BY <1>1, <2>1 DEF ToldInv, ToldOf, Coming, PostsOf
<1> QED
  BY <1>3, <1>4, <1>5, <1>6 DEF WatchProofInv, OutcomeInv

(* The steps that only move the clock, or nothing.                         *)
Passes(t) ==
    /\ DOMAIN pending' = DOMAIN pending
    /\ \A p \in DOMAIN pending :
          /\ pending'[p] \in Entry /\ pending'[p].age = pending[p].age + t
          /\ pending'[p].kind = pending[p].kind
          /\ pending'[p].count = pending[p].count
          /\ pending'[p].rename_pair = pending[p].rename_pair
    /\ UNCHANGED <<disk, channel, changed, rename_counter, posted, renames>>
    /\ posting' \in {posting, <<>>}

(* The steps that change neither disk, channel nor what is pending.        *)
LEMMA QuietSteps ==
    ASSUME TypesInv,
           ReceiveNothing \/ PostEnds \/ PostTimesOut \/ PostWaits \/ Tick \/ UNCHANGED watchVars
    PROVE  \/ Passes(0) /\ UNCHANGED <<watch_faults, ready, waited, flushes, posting>>
           \/ /\ Passes(0) /\ posting = <<>>
              /\ ready' = Ready(pending) /\ waited' = 0 /\ flushes' = 0
              /\ UNCHANGED <<watch_faults, posting>>
           \/ /\ Passes(0) /\ posting # <<>> /\ posting' = <<>> /\ waited' = 0
              /\ UNCHANGED <<ready, flushes>>
              /\ \/ UNCHANGED watch_faults
                 \/ watch_faults' = [watch_faults EXCEPT !.slow = @ + 1]
           \/ /\ Passes(1) /\ waited' = waited + 1
              /\ UNCHANGED <<watch_faults, ready, flushes, posting>>
              /\ \/ posting = <<>> /\ ready = {} /\ waited < Debounce
                 \/ posting # <<>> /\ waited < PostTimeout
<1>0. \A p \in DOMAIN pending : pending[p] \in Entry /\ pending[p].age + 0 = pending[p].age
  BY DEF TypesInv, Entry
<1>1. CASE ReceiveNothing
  BY <1>0, <1>1 DEF ReceiveNothing, Receiving, Passes, diskVars
<1>2. CASE PostEnds
  BY <1>0, <1>2 DEF PostEnds, PostOver, Passes, diskVars
<1>3. CASE PostTimesOut
  BY <1>0, <1>3 DEF PostTimesOut, PostOver, WatchFault, Passes, diskVars
<1>4. CASE PostWaits \/ Tick
  <2>1. Older
    BY <1>4 DEF PostWaits, Tick
  <2>2. Passes(1)
    BY <2>1, OlderFacts DEF Older, Passes, diskVars
  <2> QED
    BY <1>4, <2>1, <2>2 DEF PostWaits, Tick, Receiving, Older
<1>5. CASE UNCHANGED watchVars
  BY <1>0, <1>5 DEF watchVars, diskVars, loopVars, Passes
<1> QED
  BY <1>1, <1>2, <1>3, <1>4, <1>5

(* A step keeps the types.                                                 *)
LEMMA TypesStep ==
    ASSUME TypesInv, WatchStep
    PROVE  TypesInv'
<1>1. CASE DiskStep
  <2>1. /\ UNCHANGED <<loopVars, posted, renames>>
        /\ disk' \subseteq Paths /\ changed' \in [Paths -> Nat]
    BY <1>1, DiskFacts
  <2>2. watch_faults' \in [unnoticed : Nat, slow : Nat, restart : Nat]
    <3>1. \/ watch_faults' = watch_faults
          \/ watch_faults' = [watch_faults EXCEPT !.unnoticed = @ + 1]
      BY <1>1, DiskFacts
    <3>2. watch_faults.unnoticed + 1 \in Nat
      BY DEF TypesInv
    <3> QED
      BY <3>1, <3>2 DEF TypesInv
  <2>3. channel' \in Seq(OfOne \cup OfTwo) /\ \A i \in DOMAIN channel' : IsNotice(channel'[i])
    <3>1. CASE channel' = channel
      BY <3>1 DEF TypesInv
    <3>2. ASSUME NEW touched \in SUBSET Paths, NEW k \in {1, 3}, Notices(touched, k)
          PROVE  channel' \in Seq(OfOne \cup OfTwo) /\ \A i \in DOMAIN channel' : IsNotice(channel'[i])
      <4>1. DOMAIN channel = 1 .. Len(channel) /\ Len(channel) \in Nat
        BY DEF TypesInv
      <4>2. DOMAIN channel' = DOMAIN channel \cup (Len(channel) + 1 .. Len(channel) + k)
        BY <3>2, <4>1 DEF Notices
      <4>3. \A i \in DOMAIN channel : IsNotice(channel'[i])
        BY <3>2 DEF Notices, TypesInv
      <4>4. \A i \in Len(channel) + 1 .. Len(channel) + k : IsNotice(channel'[i])
        BY <3>2 DEF Notices
      <4> QED
        BY <3>2, <4>2, <4>3, <4>4 DEF Notices
    <3> QED
      BY <1>1, <3>1, <3>2, DiskFacts
  <2> QED
    BY <2>1, <2>2, <2>3 DEF TypesInv, loopVars
<1>2. CASE ReceiveEvent
  <2>1. PICK n : Received(n)
    BY <1>2, ReceiveFacts
  <2>2. \A i \in DOMAIN channel' : IsNotice(channel'[i])
    <3>1. \A i \in DOMAIN channel' : i + 1 \in DOMAIN channel
      <4>1. channel \in Seq(OfOne \cup OfTwo)
        BY DEF TypesInv
      <4> QED
        BY <2>1, <4>1 DEF Received
    <3> QED
      BY <2>1, <3>1 DEF Received, TypesInv
  <2>3. rename_counter' \in Nat /\ ready' \subseteq DOMAIN pending'
    BY <2>1 DEF Received, TypesInv, Ready
  <2>4. DOMAIN pending' \subseteq Paths \ Excluded
    <3>1. Names(n) \subseteq Paths
      BY <2>1, NamesInPaths DEF Received
    <3> QED
      BY <2>1, <3>1 DEF Received, TypesInv
  <2>5. renames' \in Seq(Rename)
    <3>1. Names(n) \subseteq Paths
      BY <2>1, NamesInPaths DEF Received
    <3>2. [run |-> watch_faults.restart, id |-> rename_counter', paths |-> Names(n)] \in Rename
      BY <2>3, <3>1 DEF Rename, TypesInv
    <3>3. renames \in Seq(Rename)
      BY DEF TypesInv
    <3> QED
      BY <2>1, <3>2, <3>3 DEF Received
  <2> QED
    BY <2>1, <2>2, <2>3, <2>4, <2>5 DEF Received, TypesInv
<1>3. ASSUME NEW p \in Paths, flush_one(p) PROVE TypesInv'
  <2>1. Flushed(p)
    BY <1>3, FlushFacts
  <2>2. posted' # <<>> /\ posting' = <<posted'[Len(posted')]>>
    BY <2>1 DEF Flushed
  <2> QED
    BY <2>1, <2>2 DEF Flushed, TypesInv
<1>4. CASE Restart
  <2>1. /\ DOMAIN pending' = {} /\ channel' = <<>> /\ ready' = {} /\ posting' = <<>>
        /\ rename_counter' = 0
        /\ watch_faults' = [watch_faults EXCEPT !.restart = @ + 1]
        /\ UNCHANGED <<disk, changed, posted, renames>>
    BY <1>4 DEF Restart, WatchFault
  <2>2. DOMAIN channel' = {}
    BY <2>1
  <2>3. watch_faults' \in [unnoticed : Nat, slow : Nat, restart : Nat]
    <3>1. watch_faults.restart + 1 \in Nat
      BY DEF TypesInv
    <3> QED
      BY <2>1, <3>1 DEF TypesInv
  <2> QED
    BY <2>1, <2>2, <2>3 DEF TypesInv
<1>5. CASE ReceiveNothing \/ PostEnds \/ PostTimesOut \/ PostWaits \/ Tick \/ UNCHANGED watchVars
  <2>1. PICK t : Passes(t)
    BY <1>5, QuietSteps
  <2>2. /\ watch_faults' \in [unnoticed : Nat, slow : Nat, restart : Nat]
        /\ ready' \subseteq DOMAIN pending
    <3>1. /\ \/ watch_faults' = watch_faults
             \/ watch_faults' = [watch_faults EXCEPT !.slow = @ + 1]
          /\ ready' = ready \/ ready' = Ready(pending)
      BY <1>5, QuietSteps
    <3>2. watch_faults.slow + 1 \in Nat /\ Ready(pending) \subseteq DOMAIN pending
      BY DEF TypesInv, Ready
    <3> QED
      BY <3>1, <3>2 DEF TypesInv
  <2>3. DOMAIN pending' \subseteq Paths \ Excluded /\ ready' \subseteq DOMAIN pending'
        /\ \A p \in DOMAIN pending' : pending'[p] \in Entry
    BY <2>1, <2>2 DEF Passes, TypesInv
  <2>4. \/ posting' = <<>>
        \/ posted' # <<>> /\ posting' = <<posted'[Len(posted')]>>
    BY <2>1 DEF Passes, TypesInv
  <2>5. UNCHANGED <<disk, channel, changed, rename_counter, posted, renames>>
    BY <2>1 DEF Passes
  <2> QED
    BY <2>2, <2>3, <2>4, <2>5 DEF TypesInv
<1> QED
  BY <1>1, <1>2, <1>3, <1>4, <1>5 DEF WatchStep

(* A step keeps the waits within their timeouts.                           *)
LEMMA WaitStep ==
    ASSUME TypesInv, WaitInv, WatchStep
    PROVE  WaitInv'
<1>0. Debounce \in Nat /\ PostTimeout \in Nat /\ waited \in Nat /\ flushes \in Nat
  BY FsWatchAssumption DEF WaitInv
<1>1. CASE DiskStep
  BY <1>1, DiskFacts DEF WaitInv, loopVars
<1>2. CASE ReceiveEvent
  BY <1>0, <1>2 DEF ReceiveEvent, Receiving, WaitInv
<1>3. ASSUME NEW p \in Paths, flush_one(p) PROVE WaitInv'
  <2>0. Flushed(p)
    BY <1>3, FlushFacts
  <2>1. posting' # <<>> /\ waited' = 0 /\ flushes' = flushes + 1
    BY <2>0 DEF Flushed, WaitInv
  <2> QED
    BY <1>0, <2>1 DEF WaitInv
<1>4. CASE Restart
  BY <1>0, <1>4 DEF Restart, WaitInv
<1>5. CASE ReceiveNothing \/ PostEnds \/ PostTimesOut \/ PostWaits \/ Tick \/ UNCHANGED watchVars
  BY <1>0, <1>5, QuietSteps DEF WaitInv
<1> QED
  BY <1>1, <1>2, <1>3, <1>4, <1>5 DEF WatchStep

(* The bound on delays grows with each post of a pass, and only then.      *)
LEMMA SlackFacts ==
    ASSUME WaitInv
    PROVE  /\ Slack \in Nat /\ Debounce \in Nat \ {0} /\ PostTimeout \in Nat
           /\ UNCHANGED flushes => Slack' = Slack
           /\ flushes' = flushes + 1 => Slack' = Slack + PostTimeout
           /\ flushes' = 0 => Slack' = 0
<1>1. PostTimeout \in Nat /\ flushes \in Nat /\ Debounce \in Nat \ {0}
  BY FsWatchAssumption DEF WaitInv
<1>2. \A a, b \in Nat : a * b \in Nat /\ a * (b + 1) = a * b + a /\ a * 0 = 0
  OBVIOUS
<1> QED
  BY <1>1, <1>2 DEF Slack

(* A step leaves no entry beyond its age.                                  *)
LEMMA AgeStep ==
    ASSUME TypesInv, WaitInv, AgeInv, WatchStep
    PROVE  AgeInv'
<1>0. /\ Slack \in Nat /\ Debounce \in Nat \ {0} /\ PostTimeout \in Nat /\ waited \in Nat
      /\ \A p \in DOMAIN pending : pending[p].age \in Nat
      /\ \A p \in DOMAIN pending \ ready :
            /\ posting = <<>> => pending[p].age < Debounce + waited + Slack
            /\ posting # <<>> => pending[p].age + PostTimeout < Debounce + waited + Slack
  BY SlackFacts DEF TypesInv, WaitInv, Entry, AgeInv, InHand
<1>e. ASSUME posting' = <<>>,
             \A p \in DOMAIN pending' \ ready' :
                 pending'[p].age \in Nat /\ pending'[p].age < Debounce + waited' + Slack'
      PROVE  AgeInv'
  BY <1>e DEF AgeInv, InHand
<1>f. ASSUME posting' # <<>>,
             \A p \in DOMAIN pending' \ ready' :
                 pending'[p].age + PostTimeout < Debounce + waited' + Slack'
      PROVE  AgeInv'
  BY <1>f DEF AgeInv, InHand
<1>1. CASE DiskStep
  BY <1>1, DiskFacts, SlackFacts DEF loopVars, AgeInv, InHand
<1>2. CASE ReceiveEvent
  <2>1. PICK n : Received(n)
    BY <1>2, ReceiveFacts
  <2>2. /\ ready' = Ready(pending') /\ waited' = 0 /\ Slack' = 0 /\ posting' = <<>>
        /\ \A p \in DOMAIN pending' : pending'[p].age \in Nat
    BY <2>1, SlackFacts DEF Received, Entry
  <2>3. \A p \in DOMAIN pending' \ ready' : pending'[p].age < Debounce
    BY <1>0, <2>2 DEF Ready
  <2> QED
    BY <1>0, <1>e, <2>2, <2>3
<1>3. ASSUME NEW p \in Paths, flush_one(p) PROVE AgeInv'
  <2>1. Flushed(p)
    BY <1>3, FlushFacts
  <2>2. /\ Slack' = Slack + PostTimeout /\ waited' = waited
        /\ posting = <<>> /\ posting' # <<>>
    BY <2>1, SlackFacts DEF Flushed
  <2>3. \A q \in DOMAIN pending' \ ready' : q \in DOMAIN pending \ ready /\ pending'[q] = pending[q]
    BY <2>1 DEF Flushed
  <2> QED
    BY <1>0, <1>f, <2>2, <2>3
<1>4. CASE Restart
  <2>1. DOMAIN pending' = {}
    BY <1>4 DEF Restart
  <2> QED
    BY <2>1 DEF AgeInv
<1>5. CASE ReceiveNothing \/ PostEnds \/ PostTimesOut \/ PostWaits \/ Tick \/ UNCHANGED watchVars
  <2>0. ASSUME NEW t \in {0, 1}, Passes(t)
        PROVE  /\ DOMAIN pending' = DOMAIN pending
               /\ \A p \in DOMAIN pending :
                     pending'[p].age = pending[p].age + t /\ pending'[p].age \in Nat
    BY <2>0 DEF Passes, Entry
  <2>1. CASE Passes(0) /\ UNCHANGED <<ready, waited, flushes, posting>>
    <3>1. Slack' = Slack
      BY <2>1, SlackFacts
    <3> QED
      BY <1>0, <1>e, <1>f, <2>0, <2>1, <3>1
  <2>2. CASE /\ Passes(0) /\ posting = <<>> /\ UNCHANGED posting
             /\ ready' = Ready(pending) /\ waited' = 0 /\ flushes' = 0
    <3>1. Slack' = 0
      BY <2>2, SlackFacts
    <3>2. \A p \in DOMAIN pending' \ ready' : pending[p].age < Debounce /\ p \in DOMAIN pending
      BY <1>0, <2>0, <2>2 DEF Ready
    <3> QED
      BY <1>0, <1>e, <2>0, <2>2, <3>1, <3>2
  <2>3. CASE /\ Passes(0) /\ posting # <<>> /\ posting' = <<>> /\ waited' = 0
             /\ UNCHANGED <<ready, flushes>>
    <3>1. Slack' = Slack /\ waited <= PostTimeout
      BY <2>3, SlackFacts DEF WaitInv
    <3> QED
      BY <1>0, <1>e, <2>0, <2>3, <3>1
  <2>4. CASE Passes(1) /\ waited' = waited + 1 /\ UNCHANGED <<ready, flushes, posting>>
    <3>1. Slack' = Slack
      BY <2>4, SlackFacts
    <3> QED
      BY <1>0, <1>e, <1>f, <2>0, <2>4, <3>1
  <2> QED
    BY <1>5, <2>1, <2>2, <2>3, <2>4, QuietSteps
<1> QED
  BY <1>1, <1>2, <1>3, <1>4, <1>5 DEF WatchStep

(* A step gives no id of a rename to a path that was not renamed.          *)
LEMMA RenameStep ==
    ASSUME TypesInv, TypesInv', RenameInv, WatchStep
    PROVE  RenameInv'
<1>0. /\ DOMAIN renames = 1 .. Len(renames) /\ Len(renames) \in Nat
      /\ \A i \in DOMAIN renames : renames[i] \in Rename
      /\ watch_faults.restart \in Nat /\ rename_counter \in Nat
  <2>1. renames \in Seq(Rename)
    BY DEF TypesInv
  <2>2. watch_faults.restart \in Nat /\ rename_counter \in Nat
    BY DEF TypesInv
  <2>3. /\ DOMAIN renames = 1 .. Len(renames) /\ Len(renames) \in Nat
        /\ \A i \in DOMAIN renames : renames[i] \in Rename
    BY <2>1
  <2> QED
    BY <2>2, <2>3
<1>1. ASSUME UNCHANGED <<renames, posted, rename_counter>>,
             watch_faults'.restart = watch_faults.restart,
             \A p \in DOMAIN pending' :
                 p \in DOMAIN pending /\ pending'[p].rename_pair = pending[p].rename_pair
      PROVE  RenameInv'
  BY <1>1 DEF RenameInv, IdOf
<1>2. CASE DiskStep
  <2>1. UNCHANGED <<renames, posted, rename_counter, pending>>
    BY <1>2, DiskFacts DEF loopVars
  <2>2. watch_faults'.restart = watch_faults.restart
    <3>1. \/ watch_faults' = watch_faults
          \/ watch_faults' = [watch_faults EXCEPT !.unnoticed = @ + 1]
      BY <1>2, DiskFacts
    <3> QED
      BY <3>1 DEF TypesInv
  <2> QED
    BY <1>1, <2>1, <2>2
<1>3. CASE ReceiveEvent
  <2>1. PICK n : Received(n)
    BY <1>3, ReceiveFacts
  <2>2. UNCHANGED <<posted, watch_faults>>
    BY <2>1 DEF Received
  <2>3. \A p \in DOMAIN pending : p \notin Excluded
    BY DEF TypesInv
  <2>4. CASE n \in OfOne
    <3>1. UNCHANGED <<renames, rename_counter>>
      BY <1>0, <2>1, <2>4 DEF Received
    <3>2. \A p \in DOMAIN pending' : pending'[p].rename_pair = Held(p)
      <4>1. ASSUME NEW p \in DOMAIN pending'
            PROVE  p \in Names(n) \ Excluded \/ p \in DOMAIN pending \ Names(n)
        BY <2>1, <2>3 DEF Received
      <4> QED
        BY <2>1, <2>4, <4>1 DEF Received, Held
    <3>3. \A p \in DOMAIN pending' :
              pending'[p].rename_pair # NoRename =>
                  IdOf(watch_faults.restart, pending'[p].rename_pair, p)
      BY <3>2 DEF Held, RenameInv
    <3> QED
      BY <2>2, <3>1, <3>3 DEF RenameInv, IdOf
  <2>5. CASE n \notin OfOne
    <3> DEFINE r == [run |-> watch_faults.restart, id |-> rename_counter', paths |-> Names(n)]
               L == Len(renames) + 1
    <3>1. /\ renames' = Append(renames, r) /\ rename_counter' = rename_counter + 1
          /\ r.run = watch_faults.restart /\ r.id = rename_counter' /\ r.paths = Names(n)
      BY <2>1, <2>5 DEF Received
    <3>2. r \in Rename
      BY <1>0, <2>1, <3>1, NamesInPaths DEF Rename, Received
    <3> HIDE DEF r
    <3>3. /\ DOMAIN renames' = 1 .. L /\ renames'[L] = r
          /\ \A i \in DOMAIN renames : renames'[i] = renames[i]
      <4>1. renames \in Seq(Rename)
        BY DEF TypesInv
      <4> QED
        BY <3>1, <3>2, <4>1, AppendProperties
    <3>4. \A i \in DOMAIN renames' : i \in DOMAIN renames \/ i = L
      BY <1>0, <3>3
    <3>5. \A i \in DOMAIN renames :
              /\ renames[i].run <= watch_faults.restart
              /\ renames[i].run = watch_faults.restart => renames[i].id <= rename_counter
              /\ renames[i].id \in Nat /\ renames[i].run \in Nat
      BY <1>0 DEF RenameInv, Rename
    <3>6. \A i \in DOMAIN renames' :
              /\ renames'[i].run <= watch_faults'.restart
              /\ renames'[i].run = watch_faults'.restart => renames'[i].id <= rename_counter'
      BY <1>0, <2>2, <3>1, <3>3, <3>4, <3>5
    <3>7. \A i \in DOMAIN renames : ~ (renames[i].run = r.run /\ renames[i].id = r.id)
      BY <1>0, <3>1, <3>5
    <3>8. \A i, j \in DOMAIN renames' :
              renames'[i].run = renames'[j].run /\ renames'[i].id = renames'[j].id => i = j
      BY <3>3, <3>4, <3>7 DEF RenameInv
    <3>9. ASSUME NEW run, NEW id, NEW p, IdOf(run, id, p)
          PROVE  \E i \in DOMAIN renames' :
                    /\ renames'[i].run = run /\ renames'[i].id = id /\ p \in renames'[i].paths
      BY <1>0, <3>3, <3>9 DEF IdOf
    <3>10. ASSUME NEW p \in DOMAIN pending', pending'[p].rename_pair # NoRename
           PROVE  \E i \in DOMAIN renames' :
                     /\ renames'[i].run = watch_faults'.restart
                     /\ renames'[i].id = pending'[p].rename_pair /\ p \in renames'[i].paths
      <4>1. \/ p \in Names(n) \ Excluded
            \/ p \in DOMAIN pending \ Names(n)
        BY <2>1, <2>3 DEF Received
      <4>2. \/ p \in Names(n) /\ pending'[p].rename_pair = rename_counter'
            \/ pending'[p].rename_pair = Held(p)
        BY <2>1, <2>5, <4>1 DEF Received, Held
      <4>3. CASE p \in Names(n) /\ pending'[p].rename_pair = rename_counter'
        BY <1>0, <2>2, <3>1, <3>3, <4>3
      <4>4. CASE pending'[p].rename_pair = Held(p)
        <5>1. IdOf(watch_faults.restart, pending'[p].rename_pair, p)
          BY <3>10, <4>4 DEF Held, RenameInv
        <5> QED
          BY <2>2, <3>9, <5>1
      <4> QED
        BY <4>2, <4>3, <4>4
    <3>11. ASSUME NEW k \in DOMAIN posted, posted[k].rename_pair # NoRename
           PROVE  \E i \in DOMAIN renames' :
                     /\ renames'[i].run = posted[k].run
                     /\ renames'[i].id = posted[k].rename_pair
                     /\ posted[k].path \in renames'[i].paths
      BY <3>9, <3>11 DEF RenameInv
    <3> QED
      BY <2>2, <3>6, <3>8, <3>10, <3>11 DEF RenameInv, IdOf
  <2> QED
    BY <2>4, <2>5
<1>4. ASSUME NEW p \in Paths, flush_one(p) PROVE RenameInv'
  <2>1. Flushed(p)
    BY <1>4, FlushFacts
  <2>2. /\ UNCHANGED <<renames, rename_counter, watch_faults>>
        /\ \A q \in DOMAIN pending' : q \in DOMAIN pending /\ pending'[q] = pending[q]
    BY <2>1 DEF Flushed
  <2>3. ASSUME NEW k \in DOMAIN posted', posted'[k].rename_pair # NoRename
        PROVE  IdOf(posted'[k].run, posted'[k].rename_pair, posted'[k].path)
    <3>1. CASE k \in DOMAIN posted
      BY <2>1, <2>3, <3>1 DEF Flushed, RenameInv
    <3>2. CASE k \notin DOMAIN posted
      <4>1. k = Len(posted) + 1
        BY <2>1, <3>2 DEF Flushed
      <4> QED
        BY <2>1, <2>3, <4>1 DEF Flushed, RenameInv
    <3> QED
      BY <3>1, <3>2
  <2> QED
    BY <2>2, <2>3 DEF RenameInv, IdOf
<1>5. CASE Restart
  <2>1. /\ DOMAIN pending' = {} /\ UNCHANGED <<posted, renames>>
        /\ watch_faults'.restart = watch_faults.restart + 1
    BY <1>5 DEF Restart, WatchFault, TypesInv
  <2>2. \A i \in DOMAIN renames :
            /\ renames[i].run <= watch_faults.restart /\ renames[i].run \in Nat
    BY <1>0 DEF RenameInv, Rename
  <2>3. \A i \in DOMAIN renames :
            /\ renames[i].run <= watch_faults.restart + 1
            /\ renames[i].run # watch_faults.restart + 1
    BY <1>0, <2>2
  <2> QED
    BY <2>1, <2>3 DEF RenameInv, IdOf
<1>6. CASE ReceiveNothing \/ PostEnds \/ PostTimesOut \/ PostWaits \/ Tick \/ UNCHANGED watchVars
  <2>1. PICK t : Passes(t)
    BY <1>6, QuietSteps
  <2>2. watch_faults'.restart = watch_faults.restart
    BY <1>6, QuietSteps DEF TypesInv
  <2> QED
    BY <1>1, <2>1, <2>2 DEF Passes
<1> QED
  BY <1>2, <1>3, <1>4, <1>5, <1>6 DEF WatchStep

(* A change on the disk with its events keeps what is told true.           *)
LEMMA DiskTold ==
    ASSUME TypesInv, NEW p \in Paths \ Excluded, ToldOf(p), UNCHANGED <<loopVars, posted>>,
           NEW touched \in SUBSET Paths, NEW k \in {1, 3}, Notices(touched, k)
    PROVE  ToldOf(p)'
<1>0. Len(channel) \in Nat /\ DOMAIN channel = 1 .. Len(channel)
  BY DEF TypesInv
<1> PICK last \in Nat : last = Len(channel) + k
  BY <1>0
<1>1. /\ DOMAIN channel = 1 .. Len(channel) /\ Len(channel) \in Nat
      /\ DOMAIN channel' = 1 .. last /\ last \in DOMAIN channel'
      /\ \A i \in DOMAIN channel : i \in DOMAIN channel' /\ channel'[i] = channel[i]
      /\ \A i \in DOMAIN channel' :
            i \in DOMAIN channel \/ Names(channel'[i]) \subseteq touched
      /\ Names(channel'[last]) = touched
      /\ UNCHANGED <<pending, posted>>
  <2>1. /\ DOMAIN channel' = 1 .. last
        /\ \A i \in DOMAIN channel : channel'[i] = channel[i]
        /\ \A i \in Len(channel) + 1 .. last : Names(channel'[i]) \subseteq touched
        /\ Names(channel'[last]) = touched
    BY DEF Notices
  <2>2. last \in 1 .. last /\ \A i \in 1 .. Len(channel) : i \in 1 .. last
    BY <1>0
  <2>3. \A i \in 1 .. last : i \in 1 .. Len(channel) \/ i \in Len(channel) + 1 .. last
    BY <1>0
  <2> QED
    BY <1>0, <2>1, <2>2, <2>3 DEF loopVars
<1>2. CASE p \in touched
  <2>1. last \in Coming(p)' /\ \A j \in Coming(p)' : j <= last
    BY <1>1, <1>2 DEF Coming
  <2>2. Is(p, Says(channel[last], p))' /\ changed'[p] # 0
    <3>1. /\ (p \in disk') <=> (Says(channel'[last], p) # "deleted")
          /\ changed'[p] = changed[p] + 1
      BY <1>2 DEF Notices
    <3>2. changed[p] \in Nat
      BY DEF TypesInv
    <3> QED
      BY <3>1, <3>2 DEF Is
  <2>3. ASSUME NEW i \in Coming(p)', \A j \in Coming(p)' : j <= i
        PROVE  i = last
    <3>1. i \in 1 .. last /\ last <= i
      BY <1>1, <2>1, <2>3 DEF Coming
    <3> QED
      BY <1>1, <3>1
  <2>4. \A i \in Coming(p)' : (\A j \in Coming(p)' : j <= i) => Is(p, Says(channel[i], p))'
    BY <2>2, <2>3
  <2> QED
    BY <2>1, <2>2, <2>4 DEF ToldOf
<1>3. CASE p \notin touched
  <2>1. Coming(p)' = Coming(p)
    BY <1>1, <1>3 DEF Coming
  <2>2. /\ changed'[p] = changed[p] /\ ((p \in disk') <=> (p \in disk))
        /\ \A i \in Coming(p) : channel'[i] = channel[i]
    BY <1>1, <1>3 DEF Notices, Coming
  <2> QED
    BY <1>1, <2>1, <2>2 DEF ToldOf, Is, PostsOf
<1> QED
  BY <1>2, <1>3

(* Receiving an event keeps what is told true.                             *)
LEMMA ReceiveTold ==
    ASSUME TypesInv, NEW p \in Paths \ Excluded, ToldOf(p), NEW n, Received(n)
    PROVE  ToldOf(p)'
<1>1. /\ DOMAIN channel = 1 .. Len(channel) /\ Len(channel) \in Nat \ {0}
      /\ DOMAIN channel' = 1 .. Len(channel) - 1
      /\ \A i \in DOMAIN channel' : channel'[i] = channel[i + 1]
      /\ n = channel[1] /\ UNCHANGED <<disk, changed, posted>>
  BY DEF TypesInv, Received
<1>2. \A i \in DOMAIN channel' : i \in Coming(p)' <=> i + 1 \in Coming(p)
  BY <1>1 DEF Coming
<1>3. \A j \in Coming(p) : j = 1 \/ j - 1 \in Coming(p)'
  BY <1>1, <1>2 DEF Coming
<1>4. 1 \in Coming(p) <=> p \in Names(n)
  BY <1>1 DEF Coming
<1>5. ASSUME NEW i \in Coming(p)', \A j \in Coming(p)' : j <= i
      PROVE  Is(p, Says(channel[i], p))'
  <2>1. i \in DOMAIN channel' /\ i + 1 \in Coming(p)
    BY <1>2, <1>5 DEF Coming
  <2>2. \A j \in Coming(p) : j <= i + 1
    <3>1. Coming(p) \subseteq Nat /\ i \in Nat
      BY <1>1, <2>1 DEF Coming
    <3>2. i >= 1
      BY <1>1, <2>1
    <3> QED
      BY <1>3, <1>5, <3>1, <3>2
  <2>3. Is(p, Says(channel[i + 1], p))
    BY <2>1, <2>2 DEF ToldOf
  <2> QED
    BY <1>1, <2>1, <2>3 DEF Is
<1>6. p \in Names(n) => p \in DOMAIN pending' /\ pending'[p].kind = Says(n, p)
  BY DEF Received
<1>7. p \notin Names(n) =>
          /\ p \in DOMAIN pending' <=> p \in DOMAIN pending
          /\ p \in DOMAIN pending => pending'[p] = pending[p]
  BY DEF Received
<1>8. Coming(p)' = {} => Coming(p) \subseteq {1}
  BY <1>3
<1>9. ASSUME Coming(p)' = {}, p \in DOMAIN pending' PROVE Is(p, pending[p].kind)'
  <2>1. CASE p \in Names(n)
    <3>1. Is(p, Says(channel[1], p))
      BY <1>4, <1>8, <1>9, <2>1 DEF ToldOf
    <3> QED
      BY <1>1, <1>6, <2>1, <3>1 DEF Is
  <2>2. CASE p \notin Names(n)
    <3>1. Coming(p) = {}
      BY <1>4, <1>8, <1>9, <2>2
    <3> QED
      BY <1>1, <1>7, <1>9, <2>2, <3>1 DEF ToldOf, Is
  <2> QED
    BY <2>1, <2>2
<1>10. ASSUME Coming(p)' = {}, p \notin DOMAIN pending', changed'[p] # 0
       PROVE  \E k \in PostsOf(p)' :
                  (\A l \in PostsOf(p)' : l <= k) /\ Is(p, posted[k].kind)'
  <2>1. p \notin Names(n) /\ Coming(p) = {} /\ p \notin DOMAIN pending
    BY <1>4, <1>6, <1>7, <1>8, <1>10
  <2>2. PICK k \in PostsOf(p) : (\A l \in PostsOf(p) : l <= k) /\ Is(p, posted[k].kind)
    BY <1>1, <1>10, <2>1 DEF ToldOf
  <2>3. PostsOf(p)' = PostsOf(p)
    BY <1>1 DEF PostsOf
  <2> QED
    BY <1>1, <2>2, <2>3 DEF Is
<1>11. ASSUME changed'[p] = 0
       PROVE  Coming(p)' = {} /\ p \notin DOMAIN pending' /\ PostsOf(p)' = {}
  <2>1. Coming(p) = {} /\ p \notin DOMAIN pending /\ PostsOf(p) = {}
    BY <1>1, <1>11 DEF ToldOf
  <2> QED
    BY <1>1, <1>2, <1>4, <1>7, <2>1 DEF Coming, PostsOf
<1> QED
  BY <1>5, <1>9, <1>10, <1>11 DEF ToldOf

(* Flushing a path keeps what is told true.                                *)
LEMMA FlushTold ==
    ASSUME TypesInv, NEW q \in Paths \ Excluded, ToldOf(q), NEW p, Flushed(p)
    PROVE  ToldOf(q)'
<1>1. /\ UNCHANGED <<disk, channel, changed>> /\ Coming(q)' = Coming(q)
      /\ DOMAIN posted = 1 .. Len(posted) /\ Len(posted) \in Nat
      /\ DOMAIN posted' = 1 .. Len(posted) + 1
      /\ \A k \in DOMAIN posted : posted'[k] = posted[k]
  BY DEF Flushed, Coming
<1>2. CASE q = p
  <2>1. /\ p \in DOMAIN pending /\ p \notin DOMAIN pending'
        /\ Len(posted) + 1 \in PostsOf(q)'
        /\ posted'[Len(posted) + 1].kind = pending[q].kind
    BY <1>1, <1>2 DEF Flushed, PostsOf
  <2>2. \A l \in PostsOf(q)' : l <= Len(posted) + 1
    BY <1>1 DEF PostsOf
  <2>3. Coming(q) = {} => Is(q, posted[Len(posted)].kind)'
    <3>1. Coming(q) = {} => Is(q, pending[q].kind)
      BY <1>2, <2>1 DEF ToldOf
    <3>2. Len(posted') = Len(posted) + 1
      BY DEF Flushed
    <3> QED
      BY <1>1, <2>1, <3>1, <3>2 DEF Is
  <2>4. changed[q] # 0
    BY <1>2, <2>1 DEF ToldOf
  <2>5. Len(posted') = Len(posted) + 1
    BY DEF Flushed
  <2>6. Coming(q)' = {} =>
            \E k \in PostsOf(q)' : (\A l \in PostsOf(q)' : l <= k) /\ Is(q, posted[k].kind)'
    BY <1>1, <2>1, <2>2, <2>3, <2>5
  <2>7. \A i \in Coming(q) :
            (\A j \in Coming(q) : j <= i) => Is(q, Says(channel[i], q))'
    BY <1>1 DEF ToldOf, Is
  <2> QED
    BY <1>1, <1>2, <2>1, <2>4, <2>6, <2>7 DEF ToldOf
<1>3. CASE q # p
  <2>1. /\ q \in DOMAIN pending' <=> q \in DOMAIN pending
        /\ q \in DOMAIN pending => pending'[q] = pending[q]
    BY <1>3 DEF Flushed
  <2>2. PostsOf(q)' = PostsOf(q) /\ \A k \in PostsOf(q) : posted'[k] = posted[k]
    <3>1. posted'[Len(posted) + 1].path = p
      BY DEF Flushed
    <3>2. \A k \in DOMAIN posted' : k \in DOMAIN posted \/ k = Len(posted) + 1
      BY <1>1
    <3>3. \A k \in DOMAIN posted : k \in DOMAIN posted'
      BY <1>1
    <3> QED
      BY <1>1, <1>3, <3>1, <3>2, <3>3 DEF PostsOf
  <2> QED
    BY <1>1, <2>1, <2>2 DEF ToldOf, Is
<1> QED
  BY <1>2, <1>3

(* A step keeps what is told of every path true.                           *)
LEMMA OutcomeStep ==
    ASSUME TypesInv, OutcomeInv, WatchStep
    PROVE  OutcomeInv'
<1>0. watch_faults.unnoticed \in Nat /\ watch_faults.restart \in Nat
  BY DEF TypesInv
<1> SUFFICES ASSUME Noticed', NEW p \in Paths \ Excluded PROVE ToldOf(p)'
  BY DEF OutcomeInv, ToldInv
<1>1. ASSUME watch_faults'.unnoticed = watch_faults.unnoticed,
             watch_faults'.restart = watch_faults.restart
      PROVE  ToldOf(p)
  <2>1. Noticed
    BY <1>1 DEF Noticed
  <2> QED
    BY <2>1 DEF OutcomeInv, ToldInv
<1>2. CASE DiskStep
  <2>1. CASE watch_faults' = [watch_faults EXCEPT !.unnoticed = @ + 1]
    BY <1>0, <2>1 DEF Noticed, TypesInv
  <2>2. ASSUME UNCHANGED watch_faults, NEW touched \in SUBSET Paths, NEW k \in {1, 3},
               Notices(touched, k)
        PROVE  ToldOf(p)'
    BY <1>1, <1>2, <2>2, DiskFacts, DiskTold
  <2> QED
    BY <1>2, <2>1, <2>2, DiskFacts
<1>3. CASE ReceiveEvent
  <2>1. PICK n : Received(n)
    BY <1>3, ReceiveFacts
  <2>2. ToldOf(p)
    BY <1>1, <2>1 DEF Received
  <2> QED
    BY <2>1, <2>2, ReceiveTold
<1>4. ASSUME NEW q \in Paths, flush_one(q) PROVE ToldOf(p)'
  <2>1. Flushed(q)
    BY <1>4, FlushFacts
  <2>2. ToldOf(p)
    BY <1>1, <2>1 DEF Flushed
  <2> QED
    BY <2>1, <2>2, FlushTold
<1>5. CASE Restart
  <2>1. watch_faults' = [watch_faults EXCEPT !.restart = @ + 1]
    BY <1>5 DEF Restart, WatchFault
  <2> QED
    BY <1>0, <2>1 DEF Noticed, TypesInv
<1>6. CASE ReceiveNothing \/ PostEnds \/ PostTimesOut \/ PostWaits \/ Tick \/ UNCHANGED watchVars
  <2>1. PICK t : Passes(t)
    BY <1>6, QuietSteps
  <2>2. ToldOf(p)
    <3>1. /\ watch_faults'.unnoticed = watch_faults.unnoticed
          /\ watch_faults'.restart = watch_faults.restart
      BY <1>6, QuietSteps DEF TypesInv
    <3> QED
      BY <1>1, <3>1
  <2>3. /\ UNCHANGED <<disk, channel, changed, posted>> /\ DOMAIN pending' = DOMAIN pending
        /\ \A q \in DOMAIN pending : pending'[q].kind = pending[q].kind
    BY <2>1 DEF Passes
  <2> QED
    BY <2>2, <2>3 DEF ToldOf, Is, Coming, PostsOf
<1> QED
  BY <1>2, <1>3, <1>4, <1>5, <1>6 DEF WatchStep

(* The invariant contains what the runs check.                             *)
LEMMA WatchMeaning == WatchProofInv => WatcherInv
<1> SUFFICES ASSUME WatchProofInv PROVE WatcherInv
  OBVIOUS
<1> USE DEF WatchProofInv
<1>1. WatchTypeOK
  <2>1. posted \in Seq(PostedEvent) /\ Len(posting) <= 1
    <3>1. CASE posting = <<>>
      BY <3>1 DEF TypesInv
    <3>2. ASSUME NEW ev, posting = <<ev>> PROVE Len(posting) <= 1
      BY <3>2
    <3> QED
      BY <3>1, <3>2 DEF TypesInv
  <2>2. \A ev \in Range(posted) : ev \in PostedEvent
    BY <2>1 DEF Range
  <2>3. /\ disk \subseteq Paths /\ DOMAIN pending \subseteq Paths \ Excluded
        /\ \A p \in DOMAIN pending : pending[p] \in Entry
        /\ ready \subseteq DOMAIN pending
    BY DEF TypesInv
  <2>4. /\ waited \in 0 .. IF posting = <<>> THEN Debounce ELSE PostTimeout
        /\ flushes \in Nat
    BY FsWatchAssumption DEF WaitInv
  <2> QED
    BY <2>1, <2>2, <2>3, <2>4 DEF WatchTypeOK, Entry, PostedEvent
<1>2. QuietIsFlushed
  <2> SUFFICES ASSUME Receiving, NEW p \in DOMAIN pending
               PROVE  pending[p].age < 2 * Debounce + PostTimeout * flushes
    BY DEF QuietIsFlushed
  <2>1. pending[p].age < Debounce + waited + Slack /\ pending[p].age \in Nat
    BY DEF AgeInv, InHand, Receiving, TypesInv, Entry
  <2>2. Slack \in Nat /\ Debounce \in Nat /\ waited \in 0 .. Debounce
    BY SlackFacts DEF WaitInv, Receiving
  <2>3. pending[p].age < 2 * Debounce + Slack
    BY <2>1, <2>2
  <2> QED
    BY <2>3 DEF Slack
<1>3. PairsAreOfOneRename
  <2> SUFFICES ASSUME NEW k \in DOMAIN posted, posted[k].rename_pair # NoRename
               PROVE  \E r \in Range(renames) :
                         /\ r.run = posted[k].run /\ r.id = posted[k].rename_pair
                         /\ posted[k].path \in r.paths
                         /\ \A s \in Range(renames) : s.run = r.run /\ s.id = r.id => s = r
    BY DEF PairsAreOfOneRename, Range
  <2>1. PICK i \in DOMAIN renames :
            /\ renames[i].run = posted[k].run /\ renames[i].id = posted[k].rename_pair
            /\ posted[k].path \in renames[i].paths
    BY DEF RenameInv, IdOf
  <2> QED
    BY <2>1 DEF RenameInv, Range
<1>4. LastPostIsTrue
  <2> SUFFICES ASSUME WatchAtRest, Noticed, NEW p \in Paths \ Excluded
               PROVE  IF changed[p] = 0 THEN PostsOf(p) = {}
                      ELSE \E k \in PostsOf(p) :
                              /\ \A l \in PostsOf(p) : l <= k
                              /\ (p \in disk) <=> (posted[k].kind # "deleted")
    BY DEF LastPostIsTrue
  <2>1. ToldOf(p) /\ Coming(p) = {} /\ p \notin DOMAIN pending
    BY DEF OutcomeInv, ToldInv, WatchAtRest, Coming
  <2> QED
    BY <2>1 DEF ToldOf, Is
<1> QED
  BY <1>1, <1>2, <1>3, <1>4 DEF WatcherInv

(***************************************************************************)
(* However the events of a disk are merged, delayed and interrupted, a     *)
(* quiet path waits two windows and the posts before its own at most, a    *)
(* rename_pair names one rename, and the last post of a path tells what    *)
(* has become of it.                                                       *)
(***************************************************************************)
THEOREM BurstsKeepTheirOutcome == IngestSpec => []WatcherInv
<1>1. IngestInit => WatchProofInv
  BY WatchInitial DEF IngestInit
<1>2. WatchProofInv /\ [BoundedNext]_ingestVars => WatchProofInv'
  BY WatcherKinds, TypesStep, WaitStep, AgeStep, RenameStep, OutcomeStep DEF WatchProofInv
<1>3. WatchProofInv => WatcherInv
  BY WatchMeaning
<1> QED
  BY <1>1, <1>2, <1>3, PTL DEF IngestSpec

(***************************************************************************)
(* A path that has gone quiet waits for its flush no longer than two       *)
(* windows, and the timeout of a post for each event that the pass of the  *)
(* loop has posted: whether the posts are answered at once, late or never, *)
(* and however busy the other paths are.                                   *)
(***************************************************************************)
THEOREM QuietPathsAreFlushed == IngestSpec => []QuietIsFlushed
<1>1. WatcherInv => QuietIsFlushed
  BY DEF WatcherInv
<1> QED
  BY <1>1, BurstsKeepTheirOutcome, PTL

-----------------------------------------------------------------------------
(* What MapThenSumSet makes of the counts: it takes the elements one at a  *)
(* time, and the order it takes them in does not matter.                   *)

(* Induction over the naturals, for a set of them.                         *)
LEMMA Induction ==
    ASSUME NEW S, 0 \in S, \A n \in Nat : n \in S => n + 1 \in S
    PROVE  \A n \in Nat : n \in S
<1> DEFINE T == {n \in Nat : n \notin S}
<1> SUFFICES ASSUME T # {} PROVE FALSE
  OBVIOUS
<1>1. PICK t \in T : \A u \in T : ~ (<<u, t>> \in OpToRel(<, Nat))
  BY NatLessThanWellFounded, WFMin
<1>2. \A u \in T : ~ (u < t)
  BY <1>1 DEF OpToRel
<1>3. t \in Nat /\ t # 0 /\ t \notin S
  OBVIOUS
<1>4. t - 1 \in Nat /\ t - 1 < t
  BY <1>3
<1>5. t - 1 \in S
  BY <1>2, <1>4
<1>6. (t - 1) + 1 \in S
  BY <1>4, <1>5
<1> QED
  BY <1>3, <1>6

(* A finite set with an element less.                                      *)
LEMMA OneLess ==
    ASSUME NEW T, IsFiniteSet(T), NEW x \in T
    PROVE  /\ IsFiniteSet(T \ {x}) /\ Cardinality(T) \in Nat \ {0}
           /\ Cardinality(T \ {x}) = Cardinality(T) - 1
<1>1. Cardinality(T) \in Nat /\ Cardinality(T) # 0
  BY FS_CardinalityType, FS_EmptySet
<1> QED
  BY <1>1, FS_RemoveElement

(* How MapThenSumSet goes through a set, and the part of it for subsets of *)
(* n elements at most.                                                     *)
Pick(T) == CHOOSE x \in T : TRUE
Levels(S, n) == {T \in SUBSET S : Cardinality(T) <= n}
SumsUp(s, domain, g) ==
    g = [T \in domain |-> IF T = {} THEN 0 ELSE s[Pick(T)].change_count + g[T \ {Pick(T)}]]
SumsWithin(s, S, g) ==
    \A T \in SUBSET S :
        g[T] = IF T = {} THEN 0 ELSE s[Pick(T)].change_count + g[T \ {Pick(T)}]

(* The sums of small sets give those of sets with an element more.         *)
LEMMA LevelsExist ==
    ASSUME NEW s, NEW S, IsFiniteSet(S)
    PROVE  \A n \in Nat : \E g : SumsUp(s, Levels(S, n), g)
<1> DEFINE D == {n \in Nat : \E g : SumsUp(s, Levels(S, n), g)}
<1>0. ASSUME NEW T \in SUBSET S, T # {}
      PROVE  /\ Pick(T) \in T /\ T \ {Pick(T)} \in SUBSET S
             /\ Cardinality(T) \in Nat \ {0}
             /\ Cardinality(T \ {Pick(T)}) = Cardinality(T) - 1
  <2>1. Pick(T) \in T /\ IsFiniteSet(T)
    BY <1>0, FS_Subset DEF Pick
  <2> QED
    BY <2>1, OneLess
<1>1. 0 \in D
  <2>1. ASSUME NEW T \in Levels(S, 0) PROVE T = {}
    <3>1. T \in SUBSET S /\ Cardinality(T) <= 0
      BY DEF Levels
    <3>2. T # {} => Cardinality(T) \in Nat \ {0}
      BY <1>0, <3>1
    <3> QED
      BY <3>1, <3>2
  <2>2. SumsUp(s, Levels(S, 0), [T \in Levels(S, 0) |-> 0])
    BY <2>1 DEF SumsUp
  <2> QED
    BY <2>2
<1>2. ASSUME NEW n \in Nat, n \in D PROVE n + 1 \in D
  <2>1. PICK g : SumsUp(s, Levels(S, n), g)
    BY <1>2
  <2> DEFINE next(f, T) == IF T = {} THEN 0 ELSE s[Pick(T)].change_count + f[T \ {Pick(T)}]
             h == [T \in Levels(S, n + 1) |-> next(g, T)]
  <2>2. \A T \in Levels(S, n) : g[T] = next(g, T)
    BY <2>1 DEF SumsUp
  <2>3. \A T \in Levels(S, n) : T \in Levels(S, n + 1)
    <3>1. ASSUME NEW T \in Levels(S, n) PROVE Cardinality(T) \in Nat
      BY FS_Subset, FS_CardinalityType DEF Levels
    <3> QED
      BY <3>1 DEF Levels
  <2>4. ASSUME NEW T \in Levels(S, n + 1) PROVE next(g, T) = next(h, T)
    <3>1. CASE T = {}
      BY <3>1
    <3>2. CASE T # {}
      <4> DEFINE U == T \ {Pick(T)}
      <4>1. U \in Levels(S, n)
        BY <1>0, <3>2 DEF Levels
      <4>2. h[U] = next(g, U) /\ g[U] = next(g, U)
        BY <2>2, <2>3, <4>1
      <4> QED
        BY <3>2, <4>2
    <3> QED
      BY <3>1, <3>2
  <2>5. h = [T \in Levels(S, n + 1) |-> next(h, T)]
    <3>1. h = [T \in Levels(S, n + 1) |-> next(g, T)]
      OBVIOUS
    <3> HIDE DEF h, next
    <3> QED
      BY <2>4, <3>1
  <2> HIDE DEF h
  <2>6. SumsUp(s, Levels(S, n + 1), h)
    BY <2>5 DEF SumsUp
  <2> QED
    BY <2>6
<1> HIDE DEF D
<1>3. \A n \in Nat : n \in D
  BY <1>1, <1>2, Induction
<1> QED
  BY <1>3 DEF D

(* The recursion of MapThenSumSet defines a sum for each subset.           *)
LEMMA SumsExist ==
    ASSUME NEW s, NEW S, IsFiniteSet(S)
    PROVE  \E g : SumsUp(s, SUBSET S, g) /\ CountsOf(s, S) = g[S]
<1>1. Cardinality(S) \in Nat
  BY FS_CardinalityType
<1>2. Levels(S, Cardinality(S)) = SUBSET S
  BY FS_Subset DEF Levels
<1>3. \E g : SumsUp(s, SUBSET S, g)
  <2>1. \E g : SumsUp(s, Levels(S, Cardinality(S)), g)
    BY <1>1, LevelsExist
  <2> QED
    BY <1>2, <2>1
<1>4. CountsOf(s, S) = (CHOOSE g : SumsUp(s, SUBSET S, g))[S]
  BY DEF CountsOf, MapThenSumSet, MapThenFoldSet, SumsUp, Pick
<1> QED
  BY <1>3, <1>4

(* The sum of a set is that of its elements, wherever it is computed.      *)
LEMMA SumsAgree ==
    ASSUME NEW s, NEW f, NEW t, NEW g, NEW R, IsFiniteSet(R),
           SumsWithin(s, R, f), SumsWithin(t, R, g), \A k \in R : s[k] = t[k]
    PROVE  f[R] = g[R]
<1> DEFINE D == {n \in Nat : \A U \in SUBSET R : Cardinality(U) = n => f[U] = g[U]}
<1>1. \A U \in SUBSET R :
         /\ f[U] = IF U = {} THEN 0 ELSE s[Pick(U)].change_count + f[U \ {Pick(U)}]
         /\ g[U] = IF U = {} THEN 0 ELSE t[Pick(U)].change_count + g[U \ {Pick(U)}]
  BY DEF SumsWithin
<1>2. \A U \in SUBSET R : IsFiniteSet(U)
  BY FS_Subset
<1>3. 0 \in D
  <2>1. \A U \in SUBSET R : Cardinality(U) = 0 => U = {}
    BY <1>2, FS_EmptySet
  <2> QED
    BY <1>1, <2>1
<1>4. ASSUME NEW n \in Nat, n \in D PROVE n + 1 \in D
  <2> SUFFICES ASSUME NEW U \in SUBSET R, Cardinality(U) = n + 1 PROVE f[U] = g[U]
    OBVIOUS
  <2>1. U # {}
    BY FS_EmptySet
  <2>2. Pick(U) \in U
    BY <2>1 DEF Pick
  <2>3. U \ {Pick(U)} \in SUBSET R /\ Cardinality(U \ {Pick(U)}) = n
    BY <1>2, <2>2, OneLess
  <2>4. f[U \ {Pick(U)}] = g[U \ {Pick(U)}]
    BY <1>4, <2>3
  <2> QED
    BY <1>1, <2>1, <2>2, <2>4
<1> HIDE DEF D
<1>5. \A n \in Nat : n \in D
  BY <1>3, <1>4, Induction
<1>6. Cardinality(R) \in Nat /\ R \in SUBSET R
  BY FS_CardinalityType
<1> QED
  BY <1>5, <1>6 DEF D

(* What the recursion says of CountsOf itself.                             *)
LEMMA CountsUnfold ==
    ASSUME NEW s, NEW S, IsFiniteSet(S)
    PROVE  CountsOf(s, S) =
              IF S = {} THEN 0 ELSE s[Pick(S)].change_count + CountsOf(s, S \ {Pick(S)})
<1>1. PICK f : SumsUp(s, SUBSET S, f) /\ CountsOf(s, S) = f[S]
  BY SumsExist
<1>2. f[S] = IF S = {} THEN 0 ELSE s[Pick(S)].change_count + f[S \ {Pick(S)}]
  BY <1>1 DEF SumsUp
<1>3. CASE S = {}
  BY <1>1, <1>2, <1>3
<1>4. CASE S # {}
  <2> DEFINE T == S \ {Pick(S)}
  <2>1. IsFiniteSet(T) /\ T \subseteq S
    BY FS_Subset
  <2>2. PICK g : SumsUp(s, SUBSET T, g) /\ CountsOf(s, T) = g[T]
    BY <2>1, SumsExist
  <2> HIDE DEF T
  <2>3. f[T] = g[T]
    <3>1. SumsWithin(s, T, f)
      BY <1>1, <2>1 DEF SumsUp, SumsWithin
    <3>2. SumsWithin(s, T, g)
      BY <2>2 DEF SumsUp, SumsWithin
    <3> QED
      BY <2>1, <3>1, <3>2, SumsAgree
  <2> QED
    BY <1>1, <1>2, <1>4, <2>2, <2>3 DEF T
<1> QED
  BY <1>3, <1>4

(* Only the elements of the set count.                                     *)
LEMMA CountsAgree ==
    ASSUME NEW s, NEW t, NEW S, IsFiniteSet(S), \A k \in S : s[k] = t[k]
    PROVE  CountsOf(s, S) = CountsOf(t, S)
<1>1. PICK f : SumsUp(s, SUBSET S, f) /\ CountsOf(s, S) = f[S]
  BY SumsExist
<1>2. PICK g : SumsUp(t, SUBSET S, g) /\ CountsOf(t, S) = g[S]
  BY SumsExist
<1>3. SumsWithin(s, S, f) /\ SumsWithin(t, S, g)
  BY <1>1, <1>2 DEF SumsUp, SumsWithin
<1>4. f[S] = g[S]
  BY <1>1, <1>2, <1>3, SumsAgree
<1> QED
  BY <1>1, <1>2, <1>4

(* The sum of numbers is a number, and each may be counted last.           *)
LEMMA CountsAdd ==
    ASSUME NEW s, NEW S, IsFiniteSet(S), \A k \in S : s[k].change_count \in Nat
    PROVE  /\ CountsOf(s, S) \in Nat
           /\ \A x \in S : CountsOf(s, S) = s[x].change_count + CountsOf(s, S \ {x})
<1> DEFINE W(k) == s[k].change_count
           Sum(T) == CountsOf(s, T)
           D == {n \in Nat : \A T \in SUBSET S : Cardinality(T) <= n =>
                    /\ Sum(T) \in Nat
                    /\ \A x \in T : Sum(T) = W(x) + Sum(T \ {x})}
<1>1. \A T \in SUBSET S : IsFiniteSet(T) /\ Cardinality(T) \in Nat
  BY FS_Subset, FS_CardinalityType
<1>2. \A T \in SUBSET S : T # {} => Pick(T) \in T
  BY DEF Pick
<1>3. \A T \in SUBSET S : Sum(T) = IF T = {} THEN 0 ELSE W(Pick(T)) + Sum(T \ {Pick(T)})
  BY <1>1, CountsUnfold
<1>4. \A k \in S : W(k) \in Nat
  OBVIOUS
<1> HIDE DEF W, Sum
<1>5. 0 \in D
  <2>1. ASSUME NEW T \in SUBSET S, Cardinality(T) <= 0 PROVE T = {}
    <3>1. Cardinality(T) = 0
      BY <1>1, <2>1
    <3> QED
      BY <1>1, <3>1, FS_EmptySet
  <2>2. {} \in SUBSET S
    OBVIOUS
  <2>3. Sum({}) = 0
    BY <1>3, <2>2
  <2>4. ASSUME NEW T \in SUBSET S, Cardinality(T) <= 0
        PROVE  Sum(T) \in Nat /\ \A x \in T : Sum(T) = W(x) + Sum(T \ {x})
    <3>1. T = {}
      BY <2>1, <2>4
    <3> QED
      BY <2>3, <3>1
  <2> QED
    BY <2>4
<1>6. ASSUME NEW n \in Nat, n \in D PROVE n + 1 \in D
  <2> SUFFICES ASSUME NEW T \in SUBSET S, Cardinality(T) = n + 1
               PROVE  /\ Sum(T) \in Nat
                      /\ \A x \in T : Sum(T) = W(x) + Sum(T \ {x})
    <3>1. \A T \in SUBSET S :
             Cardinality(T) <= n + 1 => Cardinality(T) <= n \/ Cardinality(T) = n + 1
      BY <1>1
    <3> QED
      BY <1>6, <3>1
  <2> DEFINE c == Pick(T)
  <2>1. T # {} /\ IsFiniteSet(T)
    BY <1>1, FS_EmptySet
  <2>2. c \in T /\ W(c) \in Nat
    BY <1>2, <1>4, <2>1
  <2>3. Sum(T) = W(c) + Sum(T \ {c})
    BY <1>3, <2>1
  <2>4. \A x \in T : Cardinality(T \ {x}) = n /\ T \ {x} \in SUBSET S
    BY <2>1, OneLess
  <2> HIDE DEF c
  <2>5. ASSUME NEW x \in T
        PROVE  /\ Sum(T \ {x}) \in Nat
               /\ \A y \in T \ {x} : Sum(T \ {x}) = W(y) + Sum((T \ {x}) \ {y})
    BY <1>6, <2>4
  <2>6. Sum(T) \in Nat
    BY <2>2, <2>3, <2>5
  <2>7. ASSUME NEW x \in T PROVE Sum(T) = W(x) + Sum(T \ {x})
    <3>1. CASE x = c
      BY <2>3, <3>1
    <3>2. CASE x # c
      <4>1. Sum(T \ {c}) = W(x) + Sum((T \ {c}) \ {x}) /\ Sum(T \ {c}) \in Nat
        BY <2>2, <2>5, <3>2
      <4>2. Sum(T \ {x}) = W(c) + Sum((T \ {x}) \ {c}) /\ Sum(T \ {x}) \in Nat
        BY <2>2, <2>5, <3>2
      <4>3. (T \ {c}) \ {x} = (T \ {x}) \ {c}
        OBVIOUS
      <4>4. Sum((T \ {c}) \ {x}) \in Nat
        <5>1. IsFiniteSet(T \ {c}) /\ Cardinality(T \ {c}) = n /\ x \in T \ {c}
          BY <1>1, <2>2, <2>4, <3>2
        <5>2. Cardinality((T \ {c}) \ {x}) = n - 1
          BY <5>1, OneLess
        <5>3. Cardinality((T \ {c}) \ {x}) <= n /\ (T \ {c}) \ {x} \in SUBSET S
          BY <5>2
        <5> QED
          BY <1>6, <5>3
      <4>5. W(x) \in Nat
        BY <1>4
      <4> QED
        BY <2>2, <2>3, <4>1, <4>2, <4>3, <4>4, <4>5
    <3> QED
      BY <3>1, <3>2
  <2> QED
    BY <2>6, <2>7
<1> HIDE DEF D
<1>7. \A n \in Nat : n \in D
  BY <1>5, <1>6, Induction
<1>8. Cardinality(S) \in Nat /\ S \in SUBSET S
  BY FS_CardinalityType
<1> QED
  BY <1>7, <1>8 DEF D, W, Sum

-----------------------------------------------------------------------------
(* The counts, with the events that are still to be merged.                *)

(* The notices to come of p alone; a rename is also told of both its paths.*)
Lone(p) == {i \in Coming(p) : channel[i] \in OfOne}
Renamed(p) == {i \in DOMAIN renames : p \in renames[i].paths}

CountOf(p) ==
    CountsOf(posted, PostsOf(p)) + HeldCount(p) + Cardinality(Lone(p))
        = changed[p] + Cardinality(Renamed(p))
CountInv == Noticed => \A p \in Paths \ Excluded : CountOf(p)

(* What is added is a number.                                              *)
LEMMA CountTypes ==
    ASSUME TypesInv, NEW p \in Paths
    PROVE  /\ CountsOf(posted, PostsOf(p)) \in Nat /\ HeldCount(p) \in Nat
           /\ IsFiniteSet(PostsOf(p)) /\ IsFiniteSet(Lone(p)) /\ IsFiniteSet(Renamed(p))
           /\ Cardinality(Lone(p)) \in Nat /\ Cardinality(Renamed(p)) \in Nat
           /\ changed[p] \in Nat
<1>1. posted \in Seq(PostedEvent) /\ renames \in Seq(Rename) /\ channel \in Seq(OfOne \cup OfTwo)
  BY DEF TypesInv
<1>2. \A S, T : IsFiniteSet(S) /\ T \subseteq S => IsFiniteSet(T)
  BY FS_Subset
<1>3. IsFiniteSet(DOMAIN posted) /\ IsFiniteSet(DOMAIN renames) /\ IsFiniteSet(DOMAIN channel)
  <2>1. \A n \in Nat : IsFiniteSet(1 .. n)
    BY FS_Interval
  <2> QED
    BY <1>1, <2>1
<1>4. IsFiniteSet(PostsOf(p)) /\ IsFiniteSet(Lone(p)) /\ IsFiniteSet(Renamed(p))
  BY <1>2, <1>3 DEF PostsOf, Lone, Coming, Renamed
<1>5. ASSUME NEW k \in PostsOf(p) PROVE posted[k].change_count \in Nat
  <2>1. posted[k] \in PostedEvent
    BY <1>1 DEF PostsOf
  <2> QED
    BY <2>1 DEF PostedEvent
<1>6. CountsOf(posted, PostsOf(p)) \in Nat
  BY <1>4, <1>5, CountsAdd
<1>7. HeldCount(p) \in Nat /\ changed[p] \in Nat
  BY DEF HeldCount, TypesInv, Entry
<1> QED
  BY <1>4, <1>6, <1>7, FS_CardinalityType

(* A change of the disk is one notice more of each path it touches.        *)
LEMMA DiskCounts ==
    ASSUME TypesInv, NEW p \in Paths \ Excluded, CountOf(p),
           UNCHANGED <<loopVars, posted, renames>>,
           NEW touched \in SUBSET Paths, NEW k \in {1, 3}, Notices(touched, k)
    PROVE  CountOf(p)'
<1> PICK L \in Nat : L = Len(channel) /\ DOMAIN channel = 1 .. L
  <2>1. channel \in Seq(OfOne \cup OfTwo)
    BY DEF TypesInv
  <2> QED
    BY <2>1
<1>1. /\ DOMAIN channel' = 1 .. L + k
      /\ \A i \in 1 .. L : channel'[i] = channel[i]
      /\ \A i \in L + 1 .. L + k : Names(channel'[i]) \subseteq touched
  BY DEF Notices
<1>2. /\ \A i \in 1 .. L + k : i \in 1 .. L \/ i \in L + 1 .. L + k
      /\ \A i \in 1 .. L : i \in 1 .. L + k
      /\ \A i \in L + 1 .. L + k : i \in 1 .. L + k /\ i \notin 1 .. L
  OBVIOUS
<1>3. /\ CountsOf(posted, PostsOf(p))' = CountsOf(posted, PostsOf(p))
      /\ HeldCount(p)' = HeldCount(p) /\ Renamed(p)' = Renamed(p)
  BY DEF loopVars, PostsOf, HeldCount, Renamed
<1>4. /\ CountsOf(posted, PostsOf(p)) \in Nat /\ HeldCount(p) \in Nat
      /\ Cardinality(Lone(p)) \in Nat /\ Cardinality(Renamed(p)) \in Nat
      /\ changed[p] \in Nat /\ IsFiniteSet(Lone(p))
  BY CountTypes
<1>5. CASE p \in touched
  <2>1. /\ changed'[p] = changed[p] + 1
        /\ \E j \in L + 1 .. L + k :
              /\ channel'[j] \in OfOne /\ p \in Names(channel'[j])
              /\ \A i \in L + 1 .. L + k :
                    channel'[i] \in OfOne /\ p \in Names(channel'[i]) => i = j
    BY <1>5 DEF Notices
  <2>2. PICK j \in L + 1 .. L + k :
              /\ channel'[j] \in OfOne /\ p \in Names(channel'[j])
              /\ \A i \in L + 1 .. L + k :
                    channel'[i] \in OfOne /\ p \in Names(channel'[i]) => i = j
    BY <2>1
  <2>3. j \notin Lone(p)
    BY <1>2 DEF Lone, Coming
  <2>4. \A i : i \in Lone(p)' <=> i \in Lone(p) \cup {j}
    BY <1>1, <1>2, <2>2 DEF Lone, Coming
  <2>5. Lone(p)' = Lone(p) \cup {j}
    BY <2>4
  <2>6. Cardinality(Lone(p)') = Cardinality(Lone(p)) + 1
    BY <1>4, <2>3, <2>5, FS_AddElement
  <2>7. CountsOf(posted, PostsOf(p)) + HeldCount(p) + (Cardinality(Lone(p)) + 1)
            = (changed[p] + 1) + Cardinality(Renamed(p))
    <3>1. PICK a \in Nat, b \in Nat, c \in Nat, d \in Nat, e \in Nat :
              /\ a = CountsOf(posted, PostsOf(p)) /\ b = HeldCount(p)
              /\ c = Cardinality(Lone(p)) /\ d = changed[p] /\ e = Cardinality(Renamed(p))
      BY <1>4
    <3>2. a + b + c = d + e
      BY <3>1 DEF CountOf
    <3>3. a + b + (c + 1) = (d + 1) + e
      BY <3>2
    <3> QED
      BY <3>1, <3>3
  <2> QED
    BY <1>3, <2>1, <2>6, <2>7 DEF CountOf
<1>6. CASE p \notin touched
  <2>1. changed'[p] = changed[p]
    BY <1>6 DEF Notices
  <2>2. \A i : i \in Lone(p)' <=> i \in Lone(p)
    BY <1>1, <1>2, <1>6 DEF Lone, Coming
  <2>3. Lone(p)' = Lone(p)
    BY <2>2
  <2> QED
    BY <1>3, <2>1, <2>3 DEF CountOf
<1> QED
  BY <1>5, <1>6

(* Positions in a queue whose head is taken.                               *)
LEMMA Shifted ==
    ASSUME NEW S, NEW T, NEW L \in Nat, S \subseteq 1 .. L,
           T = {i \in 1 .. L - 1 : i + 1 \in S}
    PROVE  Cardinality(T) = Cardinality(S \ {1})
<1> DEFINE f == [i \in T |-> i + 1]
<1>1. \A i \in T : i \in Nat /\ i >= 1 /\ f[i] = i + 1 /\ f[i] \in S \ {1}
  OBVIOUS
<1>2. \A j \in S \ {1} : j - 1 \in T /\ f[j - 1] = j
  <2>1. \A j \in S \ {1} : j \in Nat /\ j - 1 \in 1 .. L - 1 /\ (j - 1) + 1 = j
    OBVIOUS
  <2> QED
    BY <2>1
<1>3. f \in [T -> S \ {1}]
  BY <1>1
<1> HIDE DEF f
<1>4. f \in Bijection(T, S \ {1})
  <2>1. \A i, j \in T : f[i] = f[j] => i = j
    BY <1>1
  <2>2. \A j \in S \ {1} : \E i \in T : f[i] = j
    BY <1>2
  <2>3. f \in Injection(T, S \ {1})
    BY <1>3, <2>1 DEF Injection, IsInjective
  <2>4. f \in Surjection(T, S \ {1})
    BY <1>3, <2>2 DEF Surjection
  <2> QED
    BY <2>3, <2>4 DEF Bijection
<1>5. IsFiniteSet(T)
  <2>1. IsFiniteSet(1 .. L - 1)
    BY FS_Interval
  <2> QED
    BY <2>1, FS_Subset
<1>6. ExistsBijection(T, S \ {1})
  BY <1>4 DEF ExistsBijection
<1> QED
  BY <1>5, <1>6, FS_Bijection

(* An event received is counted in the entries of its paths.               *)
LEMMA ReceiveCounts ==
    ASSUME TypesInv, NEW p \in Paths \ Excluded, CountOf(p), NEW n, Received(n)
    PROVE  CountOf(p)'
<1> PICK L \in Nat : L = Len(channel) /\ DOMAIN channel = 1 .. L /\ L # 0
  <2>1. channel \in Seq(OfOne \cup OfTwo) /\ channel # <<>>
    BY DEF TypesInv, Received
  <2> QED
    BY <2>1
<1>1. /\ DOMAIN channel' = 1 .. L - 1 /\ n = channel[1]
      /\ \A i \in 1 .. L - 1 : channel'[i] = channel[i + 1]
      /\ UNCHANGED <<changed, posted>>
  BY DEF Received
<1>2. /\ CountsOf(posted, PostsOf(p)) \in Nat /\ HeldCount(p) \in Nat
      /\ Cardinality(Lone(p)) \in Nat /\ Cardinality(Renamed(p)) \in Nat
      /\ changed[p] \in Nat /\ IsFiniteSet(Lone(p)) /\ IsFiniteSet(Renamed(p))
  BY CountTypes
<1>3. CountsOf(posted, PostsOf(p))' = CountsOf(posted, PostsOf(p))
  BY <1>1 DEF PostsOf
<1>4. Lone(p)' = {i \in 1 .. L - 1 : i + 1 \in Lone(p)}
  <2>1. \A i \in 1 .. L - 1 : i + 1 \in 1 .. L
    OBVIOUS
  <2> QED
    BY <1>1, <2>1 DEF Lone, Coming
<1>5. Lone(p) \subseteq 1 .. L
  BY DEF Lone, Coming
<1>6. Cardinality(Lone(p)') = Cardinality(Lone(p) \ {1})
  <2>1. PICK T : T = Lone(p)'
    OBVIOUS
  <2> QED
    BY <1>4, <1>5, <2>1, Shifted
<1>7. 1 \in Lone(p) <=> n \in OfOne /\ p \in Names(n)
  BY <1>1 DEF Lone, Coming
<1>8. Cardinality(Lone(p)') =
          IF n \in OfOne /\ p \in Names(n) THEN Cardinality(Lone(p)) - 1
          ELSE Cardinality(Lone(p))
  <2>1. Cardinality(Lone(p) \ {1}) =
            IF 1 \in Lone(p) THEN Cardinality(Lone(p)) - 1 ELSE Cardinality(Lone(p))
    BY <1>2, FS_RemoveElement
  <2> QED
    BY <1>6, <1>7, <2>1
<1>9. HeldCount(p)' = IF p \in Names(n) THEN HeldCount(p) + 1 ELSE HeldCount(p)
  <2>1. CASE p \in Names(n)
    BY <2>1 DEF Received, HeldCount
  <2>2. CASE p \notin Names(n)
    BY <1>2, <2>2 DEF Received, HeldCount
  <2> QED
    BY <2>1, <2>2
<1>10. Cardinality(Renamed(p)') =
           IF n \notin OfOne /\ p \in Names(n) THEN Cardinality(Renamed(p)) + 1
           ELSE Cardinality(Renamed(p))
  <2>1. CASE n \in OfOne
    BY <1>2, <2>1 DEF Received, Renamed
  <2>2. CASE n \notin OfOne
    <3>1. PICK r : /\ r = [run |-> watch_faults.restart, id |-> rename_counter', paths |-> Names(n)]
                   /\ renames' = Append(renames, r) /\ r.paths = Names(n)
      BY <2>2 DEF Received
    <3>2. PICK m \in Nat : m = Len(renames) /\ DOMAIN renames = 1 .. m
      <4>1. renames \in Seq(Rename)
        BY DEF TypesInv
      <4> QED
        BY <4>1
    <3>3. /\ DOMAIN renames' = 1 .. m + 1 /\ renames'[m + 1] = r
          /\ \A i \in 1 .. m : renames'[i] = renames[i]
      BY <3>1, <3>2, AppendProperties DEF TypesInv
    <3>4. /\ \A i \in 1 .. m + 1 : i \in 1 .. m \/ i = m + 1
          /\ m + 1 \in 1 .. m + 1 /\ m + 1 \notin 1 .. m /\ \A i \in 1 .. m : i \in 1 .. m + 1
      OBVIOUS
    <3>5. Renamed(p)' = IF p \in Names(n) THEN Renamed(p) \cup {m + 1} ELSE Renamed(p)
      <4>1. \A i : i \in Renamed(p)' <=> i \in Renamed(p) \/ (p \in Names(n) /\ i = m + 1)
        BY <3>1, <3>2, <3>3, <3>4 DEF Renamed
      <4> QED
        BY <4>1
    <3>6. m + 1 \notin Renamed(p)
      BY <3>2, <3>4 DEF Renamed
    <3>7. Cardinality(Renamed(p) \cup {m + 1}) = Cardinality(Renamed(p)) + 1
      BY <1>2, <3>6, FS_AddElement
    <3> QED
      BY <2>2, <3>5, <3>7
  <2> QED
    BY <2>1, <2>2
<1>11. PICK a \in Nat, b \in Nat, c \in Nat, d \in Nat, e \in Nat :
          /\ a = CountsOf(posted, PostsOf(p)) /\ b = HeldCount(p)
          /\ c = Cardinality(Lone(p)) /\ d = changed[p] /\ e = Cardinality(Renamed(p))
  BY <1>2
<1>12. a + b + c = d + e
  BY <1>11 DEF CountOf
<1> QED
  <2>1. changed'[p] = changed[p]
    BY <1>1
  <2>2. CASE p \notin Names(n)
    BY <1>3, <1>8, <1>9, <1>10, <2>1, <2>2 DEF CountOf
  <2>3. CASE p \in Names(n) /\ n \in OfOne
    <3>1. a + (b + 1) + (c - 1) = d + e
      BY <1>12
    <3> QED
      BY <1>3, <1>8, <1>9, <1>10, <1>11, <2>1, <2>3, <3>1 DEF CountOf
  <2>4. CASE p \in Names(n) /\ n \notin OfOne
    <3>1. a + (b + 1) + c = d + (e + 1)
      BY <1>12
    <3> QED
      BY <1>3, <1>8, <1>9, <1>10, <1>11, <2>1, <2>4, <3>1 DEF CountOf
  <2> QED
    BY <2>2, <2>3, <2>4

(* What an entry counted is what its event says.                           *)
LEMMA FlushCounts ==
    ASSUME TypesInv, TypesInv', NEW q \in Paths \ Excluded, CountOf(q), NEW p, Flushed(p)
    PROVE  CountOf(q)'
<1> PICK L \in Nat : L = Len(posted)
  BY DEF Flushed
<1>1. /\ DOMAIN posted = 1 .. L /\ DOMAIN posted' = 1 .. L + 1
      /\ \A k \in 1 .. L : posted'[k] = posted[k]
      /\ posted'[L + 1].path = p /\ posted'[L + 1].change_count = pending[p].count
      /\ UNCHANGED <<channel, changed, renames>>
      /\ p \in DOMAIN pending /\ DOMAIN pending' = DOMAIN pending \ {p}
      /\ \A r \in DOMAIN pending' : pending'[r] = pending[r]
  BY DEF Flushed
<1>2. /\ Lone(q)' = Lone(q) /\ Renamed(q)' = Renamed(q) /\ changed'[q] = changed[q]
  BY <1>1 DEF Lone, Coming, Renamed
<1>3. /\ CountsOf(posted, PostsOf(q)) \in Nat /\ HeldCount(q) \in Nat
      /\ Cardinality(Lone(q)) \in Nat /\ IsFiniteSet(PostsOf(q))
      /\ PostsOf(q) \subseteq 1 .. L
  BY <1>1, CountTypes DEF PostsOf
<1>4. PICK s, S : s = posted' /\ S = PostsOf(q)'
  OBVIOUS
<1>5. CountsOf(posted, PostsOf(q))' = CountsOf(s, S)
  BY <1>4
<1>6. CountsOf(s, PostsOf(q)) = CountsOf(posted, PostsOf(q))
  <2>1. \A k \in PostsOf(q) : s[k] = posted[k]
    BY <1>1, <1>3, <1>4
  <2> QED
    BY <1>3, <2>1, CountsAgree
<1>7. \A k \in 1 .. L + 1 : k \in 1 .. L \/ k = L + 1
  OBVIOUS
<1>8. CASE q = p
  <2>1. S = PostsOf(q) \cup {L + 1} /\ L + 1 \notin PostsOf(q)
    <3>1. L + 1 \in 1 .. L + 1 /\ L + 1 \notin 1 .. L /\ \A k \in 1 .. L : k \in 1 .. L + 1
      OBVIOUS
    <3>2. \A k : k \in S <=> k \in PostsOf(q) \/ k = L + 1
      BY <1>1, <1>4, <1>7, <1>8, <3>1 DEF PostsOf
    <3> QED
      BY <1>3, <3>1, <3>2
  <2>2. IsFiniteSet(S) /\ S \ {L + 1} = PostsOf(q) /\ L + 1 \in S
    BY <1>3, <2>1, FS_AddElement
  <2>3. ASSUME NEW k \in S PROVE s[k].change_count \in Nat
    <3>1. posted' \in Seq(PostedEvent) /\ k \in DOMAIN posted'
      BY <1>4 DEF TypesInv, PostsOf
    <3>2. s[k] \in PostedEvent
      BY <1>4, <3>1
    <3> QED
      BY <3>2 DEF PostedEvent
  <2>4. CountsOf(s, S) = s[L + 1].change_count + CountsOf(s, S \ {L + 1})
    BY <2>2, <2>3, CountsAdd
  <2>5. CountsOf(s, S) = HeldCount(q) + CountsOf(posted, PostsOf(q))
    BY <1>1, <1>4, <1>6, <1>8, <2>2, <2>4 DEF HeldCount
  <2>6. HeldCount(q)' = 0
    BY <1>1, <1>8 DEF HeldCount
  <2> QED
    BY <1>2, <1>3, <1>5, <2>5, <2>6 DEF CountOf
<1>9. CASE q # p
  <2>1. S = PostsOf(q)
    <3>1. \A k \in 1 .. L : k \in 1 .. L + 1
      OBVIOUS
    <3>2. \A k : k \in S <=> k \in PostsOf(q)
      BY <1>1, <1>4, <1>7, <1>9, <3>1 DEF PostsOf
    <3> QED
      BY <3>2
  <2>2. HeldCount(q)' = HeldCount(q)
    BY <1>1, <1>9 DEF HeldCount
  <2> QED
    BY <1>2, <1>5, <1>6, <2>1, <2>2 DEF CountOf
<1> QED
  BY <1>8, <1>9

(* A step keeps the counts of every path.                                  *)
LEMMA CountStep ==
    ASSUME TypesInv, TypesInv', CountInv, WatchStep
    PROVE  CountInv'
<1>0. watch_faults \in [unnoticed : Nat, slow : Nat, restart : Nat]
  BY DEF TypesInv
<1> SUFFICES ASSUME Noticed', NEW p \in Paths \ Excluded PROVE CountOf(p)'
  BY DEF CountInv
<1>1. ASSUME watch_faults'.unnoticed = watch_faults.unnoticed,
             watch_faults'.restart = watch_faults.restart
      PROVE  CountOf(p)
  <2>1. Noticed
    BY <1>1 DEF Noticed
  <2> QED
    BY <2>1 DEF CountInv
<1>2. CASE DiskStep
  <2>1. CASE watch_faults' = [watch_faults EXCEPT !.unnoticed = @ + 1]
    BY <1>0, <2>1 DEF Noticed
  <2>2. ASSUME UNCHANGED watch_faults, NEW touched \in SUBSET Paths, NEW k \in {1, 3},
               Notices(touched, k)
        PROVE  CountOf(p)'
    <3>1. UNCHANGED <<loopVars, posted, renames>>
      BY <1>2, DiskFacts
    <3>2. CountOf(p)
      BY <1>1, <2>2
    <3> QED
      BY <2>2, <3>1, <3>2, DiskCounts
  <2> QED
    BY <1>2, <2>1, <2>2, DiskFacts
<1>3. CASE ReceiveEvent
  <2>1. PICK n : Received(n)
    BY <1>3, ReceiveFacts
  <2>2. CountOf(p)
    BY <1>1, <2>1 DEF Received
  <2> QED
    BY <2>1, <2>2, ReceiveCounts
<1>4. ASSUME NEW q \in Paths, flush_one(q) PROVE CountOf(p)'
  <2>1. Flushed(q)
    BY <1>4, FlushFacts
  <2>2. CountOf(p)
    BY <1>1, <2>1 DEF Flushed
  <2> QED
    BY <2>1, <2>2, FlushCounts
<1>5. CASE Restart
  <2>1. watch_faults' = [watch_faults EXCEPT !.restart = @ + 1]
    BY <1>5 DEF Restart, WatchFault
  <2> QED
    BY <1>0, <2>1 DEF Noticed
<1>6. CASE ReceiveNothing \/ PostEnds \/ PostTimesOut \/ PostWaits \/ Tick \/ UNCHANGED watchVars
  <2>1. PICK t : Passes(t)
    BY <1>6, QuietSteps
  <2>2. CountOf(p)
    <3>1. /\ watch_faults'.unnoticed = watch_faults.unnoticed
          /\ watch_faults'.restart = watch_faults.restart
      BY <1>6, QuietSteps DEF TypesInv
    <3> QED
      BY <1>1, <3>1
  <2>3. /\ UNCHANGED <<channel, changed, posted, renames>> /\ DOMAIN pending' = DOMAIN pending
        /\ \A q \in DOMAIN pending : pending'[q].count = pending[q].count
    BY <2>1 DEF Passes
  <2>4. HeldCount(p)' = HeldCount(p) /\ Lone(p)' = Lone(p) /\ Renamed(p)' = Renamed(p)
    BY <2>3 DEF HeldCount, Lone, Coming, Renamed
  <2>5. CountsOf(posted, PostsOf(p))' = CountsOf(posted, PostsOf(p))
    BY <2>3 DEF PostsOf
  <2> QED
    BY <2>2, <2>3, <2>4, <2>5 DEF CountOf
<1> QED
  BY <1>2, <1>3, <1>4, <1>5, <1>6 DEF WatchStep

(* Initially there is nothing to count.                                    *)
LEMMA CountInitial == WatchInit => CountInv
<1> SUFFICES ASSUME WatchInit, NEW p \in Paths \ Excluded PROVE CountOf(p)
  BY DEF CountInv
<1>1. /\ PostsOf(p) = {} /\ Lone(p) = {} /\ Renamed(p) = {}
      /\ HeldCount(p) = 0 /\ changed[p] = 0
  BY DEF WatchInit, PostsOf, Lone, Coming, Renamed, HeldCount
<1>2. Cardinality({}) = 0 /\ IsFiniteSet({})
  BY FS_EmptySet
<1>3. CountsOf(posted, {}) = 0
  BY <1>2, CountsUnfold
<1> QED
  BY <1>1, <1>2, <1>3 DEF CountOf

(***************************************************************************)
(* However the events of a path were merged, held up and flushed, at rest  *)
(* the counts that its posts carry add up to what happened to it.          *)
(***************************************************************************)
THEOREM EveryEventIsCounted == IngestSpec => []CountsAddUp
<1>1. IngestInit => TypesInv /\ CountInv
  BY WatchInitial, CountInitial DEF IngestInit, WatchProofInv
<1>2. TypesInv /\ CountInv /\ [BoundedNext]_ingestVars => (TypesInv /\ CountInv)'
  BY WatcherKinds, TypesStep, CountStep
<1>3. TypesInv /\ CountInv => CountsAddUp
  <2> SUFFICES ASSUME TypesInv, CountInv, WatchAtRest, Noticed, NEW p \in Paths \ Excluded
               PROVE  CountsOf(posted, PostsOf(p)) = changed[p] + Cardinality(Renamed(p))
    BY DEF CountsAddUp, Renamed
  <2>1. HeldCount(p) = 0 /\ Lone(p) = {}
    BY DEF WatchAtRest, HeldCount, Lone, Coming
  <2>2. Cardinality({}) = 0
    BY FS_EmptySet
  <2> QED
    BY <2>1, <2>2, CountTypes DEF CountInv, CountOf
<1> QED
  BY <1>1, <1>2, <1>3, PTL DEF IngestSpec

-----------------------------------------------------------------------------
(* The receiver: the inductive invariant.                                  *)

Bodies == HookBodies \cup PostedEvent
Lines == {HEADER} \cup {b.hook : b \in {c \in HookBodies : c.source = "claude"}}
Conn == [body : Bodies, at : {"filter", "publish", "over"}, answer : {0, 200, 500}]

ConnsInv ==
    /\ listening \in BOOLEAN /\ day \in Days
    /\ receiver_faults \in [ReceiverFaultKinds -> Nat]
    /\ conns \in Seq(Conn) /\ published \in Seq(Bodies)
    /\ \A c \in DOMAIN conns : conns[c].at # "over" => conns[c].answer = 0
    /\ manifests \in [Days -> [Sessions -> Seq(Lines)]]

(* Each published event is of a connection of its own, and those that were *)
(* answered with 200 have one, unless the policy drops it.                 *)
Origin(f) ==
    /\ f \in [DOMAIN published -> DOMAIN conns]
    /\ \A i, j \in DOMAIN published : f[i] = f[j] => i = j
    /\ \A i \in DOMAIN published :
          conns[f[i]].body = published[i] /\ conns[f[i]].at = "over"
    /\ \A c \in DOMAIN conns :
          conns[c].answer = 200 /\ ~ Dropped(conns[c].body) =>
              \E i \in DOMAIN published : f[i] = c
OriginInv == \E f : Origin(f)

(* Each connection of a hook has a line of its own.                        *)
HookConns(s, h) == {c \in DOMAIN conns : IsHook(conns[c].body, s, h)}
Noted(g, s, h) ==
    /\ g \in [HookConns(s, h) -> LinesOf(s, h)]
    /\ \A c, d \in HookConns(s, h) : g[c] = g[d] => c = d
LinesInv ==
    receiver_faults["disk"] = 0 => \A s \in Sessions : \A h : \E g : Noted(g, s, h)

ReceiverProofInv == ConnsInv /\ HeaderFirst /\ OriginInv /\ LinesInv

(* fswatch's bodies and those of the hooks are told apart.                 *)
LEMMA BodyFacts ==
    /\ \A b \in PostedEvent : b.source = "fswatch"
    /\ \A b \in HookBodies : b.source # "fswatch"
    /\ \A b \in Bodies : b.source = "claude" => b \in HookBodies /\ b.hook \in Lines /\ b.hook # HEADER
  BY IngestReceiverAssumption DEF PostedEvent, Bodies, Lines

-----------------------------------------------------------------------------
(* What it means.                                                          *)

(* What maps one to one into a finite set is no larger.                    *)
LEMMA Fits ==
    ASSUME NEW S, NEW T, IsFiniteSet(T), NEW f \in [S -> T],
           \A a, b \in S : f[a] = f[b] => a = b
    PROVE  /\ IsFiniteSet(S) /\ Cardinality(S) <= Cardinality(T)
           /\ Cardinality(S) \in Nat /\ Cardinality(T) \in Nat
<1>1. f \in Injection(S, T)
  BY DEF Injection, IsInjective
<1> QED
  BY <1>1, FS_Injection, FS_CardinalityType

(* Connections, events and manifest lines are finitely many.               *)
LEMMA FiniteRecords ==
    ASSUME ConnsInv
    PROVE  /\ \A S \in SUBSET DOMAIN conns : IsFiniteSet(S)
           /\ \A S \in SUBSET DOMAIN published : IsFiniteSet(S)
           /\ \A s \in Sessions : \A h : IsFiniteSet(LinesOf(s, h))
<1>1. /\ DOMAIN conns = 1 .. Len(conns) /\ Len(conns) \in Int
      /\ DOMAIN published = 1 .. Len(published) /\ Len(published) \in Int
  BY DEF ConnsInv
<1>2. IsFiniteSet(1 .. Len(conns)) /\ IsFiniteSet(1 .. Len(published))
  BY <1>1, FS_Interval
<1>3. ASSUME NEW s \in Sessions, NEW h PROVE IsFiniteSet(LinesOf(s, h))
  <2> DEFINE a == Len(manifests[1][s])
             b == Len(manifests[2][s])
  <2>1. /\ manifests[1][s] \in Seq(Lines) /\ manifests[2][s] \in Seq(Lines)
        /\ Days = {1, 2}
    BY DEF ConnsInv, Days
  <2>2. /\ a \in Nat /\ b \in Nat
        /\ DOMAIN manifests[1][s] = 1 .. a /\ DOMAIN manifests[2][s] = 1 .. b
    BY <2>1
  <2> HIDE DEF a, b
  <2>3. \A d \in Days : DOMAIN manifests[d][s] \subseteq 1 .. a + b
    BY <2>1, <2>2
  <2>4. LinesOf(s, h) \in SUBSET (Days \X (1 .. a + b))
    BY <2>3 DEF LinesOf
  <2>5. IsFiniteSet(Days) /\ IsFiniteSet(1 .. a + b)
    <3>1. a + b \in Int /\ 1 \in Int /\ 2 \in Int /\ Days = 1 .. 2
      BY <2>2 DEF Days
    <3> QED
      BY <3>1, FS_Interval
  <2> QED
    BY <2>4, <2>5, FS_Product, FS_Subset
<1> QED
  BY <1>1, <1>2, <1>3, FS_Subset

(* The two maps of the invariant give the counts that the runs check.      *)
LEMMA ReceiverMeaning == ReceiverProofInv => ReceiverInv
<1> SUFFICES ASSUME ReceiverProofInv PROVE ReceiverInv
  OBVIOUS
<1> USE DEF ReceiverProofInv
<1>1. ReceiverTypeOK
  <2>1. \A c \in DOMAIN conns : conns[c] \in Conn
    BY DEF ConnsInv
  <2> QED
    BY <2>1 DEF ConnsInv, ReceiverTypeOK, Conn
<1>2. PICK f : Origin(f)
  BY DEF OriginInv
<1>3. ManifestCoversEvents
  <2> SUFFICES ASSUME receiver_faults["disk"] = 0, NEW s \in Sessions, NEW h
               PROVE  Cardinality({i \in DOMAIN published : IsHook(published[i], s, h)})
                         <= Cardinality(LinesOf(s, h))
    BY DEF ManifestCoversEvents
  <2> DEFINE P == {i \in DOMAIN published : IsHook(published[i], s, h)}
  <2>1. PICK g : Noted(g, s, h)
    BY DEF LinesInv
  <2>2. \A i \in P : f[i] \in HookConns(s, h)
    BY <1>2 DEF Origin, HookConns
  <2>3. [i \in P |-> g[f[i]]] \in [P -> LinesOf(s, h)]
    BY <2>1, <2>2 DEF Noted
  <2>4. \A i, j \in P : g[f[i]] = g[f[j]] => i = j
    BY <1>2, <2>1, <2>2 DEF Noted, Origin
  <2>5. IsFiniteSet(LinesOf(s, h))
    BY FiniteRecords
  <2> HIDE DEF P
  <2>6. Cardinality(P) <= Cardinality(LinesOf(s, h))
    <3> DEFINE k == [i \in P |-> g[f[i]]]
    <3>1. k \in [P -> LinesOf(s, h)] /\ \A i, j \in P : k[i] = k[j] => i = j
      BY <2>3, <2>4
    <3> HIDE DEF k
    <3> QED
      BY <2>5, <3>1, Fits
  <2> QED
    BY <2>6 DEF P
<1>4. AnswersAreTrue
  <2> SUFFICES ASSUME NEW b, NEW e \in DOMAIN conns, b = conns[e].body
               PROVE  LET Same == {d \in DOMAIN conns : conns[d].body = b}
                      IN  /\ PublishedOf(b) <= Cardinality(Same)
                          /\ PublishedOf(b) >=
                                Cardinality({d \in Same : conns[d].answer = 200 /\ ~ Dropped(b)})
    BY DEF AnswersAreTrue
  <2> DEFINE Same == {d \in DOMAIN conns : conns[d].body = b}
             Good == {d \in Same : conns[d].answer = 200 /\ ~ Dropped(b)}
             P == {i \in DOMAIN published : published[i] = b}
  <2>1. \A i \in P : f[i] \in Same
    BY <1>2 DEF Origin
  <2>2. \A i, j \in P : f[i] = f[j] => i = j
    BY <1>2 DEF Origin
  <2>3. \A d \in Good : \E i \in P : f[i] = d
    BY <1>2 DEF Origin
  <2>4. IsFiniteSet(Same) /\ IsFiniteSet(P)
    BY FiniteRecords
  <2> HIDE DEF P, Same, Good
  <2>5. Cardinality(P) <= Cardinality(Same) /\ Cardinality(P) \in Nat
    <3> DEFINE k == [i \in P |-> f[i]]
    <3>1. k \in [P -> Same] /\ \A i, j \in P : k[i] = k[j] => i = j
      BY <2>1, <2>2
    <3> HIDE DEF k
    <3> QED
      BY <2>4, <3>1, Fits
  <2>6. Cardinality(Good) <= Cardinality(P) /\ Cardinality(Good) \in Nat
    <3> DEFINE k == [d \in Good |-> CHOOSE i \in P : f[i] = d]
    <3>1. \A d \in Good : k[d] \in P /\ f[k[d]] = d
      BY <2>3
    <3>2. k \in [Good -> P]
      BY <3>1
    <3> HIDE DEF k
    <3>3. \A c, d \in Good : k[c] = k[d] => c = d
      BY <3>1
    <3> QED
      BY <2>4, <3>2, <3>3, Fits
  <2>7. PublishedOf(b) = Cardinality(P)
    BY DEF PublishedOf, P
  <2> QED
    BY <2>5, <2>6, <2>7 DEF Same, Good
<1> QED
  BY <1>1, <1>3, <1>4 DEF ReceiverInv

-----------------------------------------------------------------------------
(* The steps of the receiver.                                              *)

ReceiverStep ==
    \/ \E b \in Bodies : Connect(b)
    \/ \E c \in DOMAIN conns : emit_event(c)
    \/ Midnight \/ StopReceiver \/ StartReceiver
    \/ UNCHANGED receiverVars

(* Each step of ingest is one of the receiver, or leaves it alone.         *)
LEMMA ReceiverKinds ==
    ASSUME TypesInv, [BoundedNext]_ingestVars
    PROVE  ReceiverStep
<1>1. CASE UNCHANGED ingestVars
  BY <1>1 DEF ingestVars, ReceiverStep
<1>2. CASE IngestNext
  <2>1. CASE Outside
    <3>1. CASE FireHook
      BY <3>1 DEF FireHook, ReceiverStep, Bodies
    <3> QED
      BY <2>1, <3>1 DEF Outside, Alone, ReceiverStep
  <2>2. CASE \/ Alone(ReceiveEvent) \/ Alone(ReceiveNothing)
             \/ PostReturns \/ PostLingers \/ PostAbandoned
    BY <2>2 DEF Alone, PostReturns, PostLingers, PostAbandoned, ReceiverStep
  <2>3. ASSUME NEW p \in Paths, Post(p) PROVE ReceiverStep
    <3>1. Flushed(p)
      BY <2>3, FlushFacts DEF Post
    <3>2. posting'[1] \in Bodies
      BY <3>1 DEF Flushed, Bodies
    <3> QED
      BY <2>3, <3>2 DEF Post, ReceiverStep
  <2>4. CASE \E c \in DOMAIN conns : Handling(c)
    BY <2>4 DEF Handling, ReceiverStep
  <2> QED
    BY <1>2, <2>1, <2>2, <2>3, <2>4 DEF IngestNext
<1> QED
  BY <1>1, <1>2 DEF BoundedNext

(* All but the last of a sequence.                                         *)
LEMMA FrontFacts ==
    ASSUME NEW S, NEW s \in Seq(S), Len(s) # 0
    PROVE  /\ Front(s) \in Seq(S) /\ DOMAIN Front(s) = 1 .. Len(s) - 1
           /\ \A n \in DOMAIN Front(s) : Front(s)[n] = s[n]
<1>1. PICK m \in Nat : m = Len(s) - 1 /\ m < Len(s)
  <2>1. Len(s) \in Nat /\ Len(s) - 1 \in Nat /\ Len(s) - 1 < Len(s)
    OBVIOUS
  <2> QED
    BY <2>1
<1>2. Front(s) = SubSeq(s, 1, m)
  BY <1>1 DEF Front
<1> QED
  BY <1>1, <1>2

(* A manifest with one more line.                                          *)
LEMMA WithLineFacts ==
    ASSUME NEW file \in Seq(Lines), NEW b, b.hook \in Lines, b.hook # HEADER
    PROVE  LET new == WithLine(file, b)
           IN  /\ new \in Seq(Lines) /\ Len(new) > Len(file) /\ Len(new) \in Nat
               /\ new[Len(new)] = b.hook
               /\ \A n \in DOMAIN file : n \in DOMAIN new /\ new[n] = file[n]
               /\ \A n \in DOMAIN new : new[n] = HEADER => n = 1 \/ n \in DOMAIN file
               /\ Front(new) \in Seq(Lines) /\ DOMAIN Front(new) = 1 .. Len(new) - 1
               /\ \A n \in DOMAIN Front(new) : new[n] = Front(new)[n]
<1> DEFINE new == WithLine(file, b)
           h == b.hook
<1>0. /\ DOMAIN file = 1 .. Len(file) /\ Len(file) \in Nat
      /\ h \in Lines /\ h # HEADER /\ HEADER \in Lines
  BY DEF Lines
<1>1. CASE b.hook = "SessionStart" /\ file = <<>>
  <2>1. new = <<HEADER>> \o <<h>>
    BY <1>1 DEF WithLine
  <2> HIDE DEF new, h
  <2>2. Len(file) = 0 /\ DOMAIN file = {}
    BY <1>1
  <2>3. /\ new \in Seq(Lines) /\ Len(new) = 2 /\ DOMAIN new = 1 .. 2
        /\ new[1] = HEADER /\ new[2] = h
    <3>1. /\ <<HEADER>> \in Seq(Lines) /\ Len(<<HEADER>>) = 1 /\ <<HEADER>>[1] = HEADER
          /\ <<h>> \in Seq(Lines) /\ Len(<<h>>) = 1 /\ <<h>>[1] = h
      BY <1>0
    <3> QED
      BY <2>1, <3>1, ConcatProperties
  <2>4. /\ Front(new) \in Seq(Lines) /\ DOMAIN Front(new) = 1 .. 1
        /\ \A n \in DOMAIN Front(new) : Front(new)[n] = new[n]
    <3>1. Len(new) - 1 = 1 /\ Len(new) # 0
      BY <2>3
    <3>2. /\ Front(new) \in Seq(Lines) /\ DOMAIN Front(new) = 1 .. Len(new) - 1
          /\ \A n \in DOMAIN Front(new) : Front(new)[n] = new[n]
      BY <2>3, <3>1, FrontFacts
    <3> QED
      BY <3>1, <3>2
  <2> QED
    BY <1>0, <2>2, <2>3, <2>4 DEF new, h
<1>2. CASE ~ (b.hook = "SessionStart" /\ file = <<>>)
  <2>1. new = file \o <<h>>
    BY <1>2 DEF WithLine
  <2> HIDE DEF new, h
  <2>2. /\ new \in Seq(Lines) /\ Len(new) = Len(file) + 1 /\ DOMAIN new = 1 .. Len(file) + 1
        /\ new[Len(file) + 1] = h /\ \A n \in DOMAIN file : new[n] = file[n]
    <3>1. <<h>> \in Seq(Lines) /\ Len(<<h>>) = 1 /\ <<h>>[1] = h
      BY <1>0
    <3> QED
      BY <1>0, <2>1, <3>1, ConcatProperties
  <2>3. /\ Front(new) \in Seq(Lines) /\ DOMAIN Front(new) = 1 .. Len(file)
        /\ \A n \in DOMAIN Front(new) : Front(new)[n] = new[n]
    <3>1. Len(file) + 1 - 1 = Len(file)
      BY <1>0
    <3> QED
      BY <1>0, <2>2, <3>1, FrontFacts
  <2> QED
    BY <1>0, <2>2, <2>3 DEF new, h
<1> QED
  BY <1>1, <1>2

(* What a connection does to the manifests.                                *)
Appends(b) ==
    /\ manifests' \in [Days -> [Sessions -> Seq(Lines)]]
    /\ \A d \in Days, s \in Sessions :
          /\ \A n \in DOMAIN manifests[d][s] :
                n \in DOMAIN manifests'[d][s] /\ manifests'[d][s][n] = manifests[d][s][n]
          /\ \A n \in DOMAIN manifests'[d][s] :
                manifests'[d][s][n] = HEADER => n = 1 \/ n \in DOMAIN manifests[d][s]
    /\ receiver_faults'["disk"] = 0 =>
          /\ receiver_faults["disk"] = 0
          /\ b.source = "claude" /\ b.session_id \in Sessions =>
                \E n \in DOMAIN manifests'[day][b.session_id] :
                    /\ n \notin DOMAIN manifests[day][b.session_id]
                    /\ manifests'[day][b.session_id][n] = b.hook

(* What append_manifest does to the manifests.                             *)
LEMMA ManifestFacts ==
    ASSUME ConnsInv, NEW b \in Bodies, append_manifest(b)
    PROVE  Appends(b) /\ receiver_faults' \in [ReceiverFaultKinds -> Nat]
<1>0. /\ receiver_faults["disk"] \in Nat /\ "disk" \in ReceiverFaultKinds
      /\ receiver_faults \in [ReceiverFaultKinds -> Nat]
      /\ manifests \in [Days -> [Sessions -> Seq(Lines)]] /\ day \in Days
      /\ \A d \in Days, s \in Sessions : manifests[d][s] \in Seq(Lines)
  BY DEF ConnsInv, ReceiverFaultKinds
<1>1. CASE b.source # "claude" \/ b.session_id \notin Sessions
  <2>1. UNCHANGED <<manifests, receiver_faults>>
    BY <1>1 DEF append_manifest
  <2> QED
    BY <1>0, <1>1, <2>1 DEF Appends
<1>2. CASE b.source = "claude" /\ b.session_id \in Sessions
  <2> DEFINE s == b.session_id
             file == manifests[day][s]
             new == WithLine(file, b)
  <2>1. b.hook \in Lines /\ b.hook # HEADER /\ file \in Seq(Lines) /\ s \in Sessions
    BY <1>0, <1>2, BodyFacts
  <2>2. /\ DOMAIN file = 1 .. Len(file) /\ Len(file) \in Nat
        /\ new \in Seq(Lines) /\ Len(new) > Len(file) /\ Len(new) \in Nat
        /\ DOMAIN new = 1 .. Len(new) /\ new[Len(new)] = b.hook
        /\ \A n \in DOMAIN file : n \in DOMAIN new /\ new[n] = file[n]
        /\ \A n \in DOMAIN new : new[n] = HEADER => n = 1 \/ n \in DOMAIN file
        /\ Front(new) \in Seq(Lines) /\ DOMAIN Front(new) = 1 .. Len(new) - 1
        /\ \A n \in DOMAIN Front(new) : new[n] = Front(new)[n]
    <3>1. /\ new \in Seq(Lines) /\ Len(new) > Len(file) /\ Len(new) \in Nat
          /\ new[Len(new)] = b.hook
          /\ \A n \in DOMAIN file : n \in DOMAIN new /\ new[n] = file[n]
          /\ \A n \in DOMAIN new : new[n] = HEADER => n = 1 \/ n \in DOMAIN file
          /\ Front(new) \in Seq(Lines) /\ DOMAIN Front(new) = 1 .. Len(new) - 1
          /\ \A n \in DOMAIN Front(new) : new[n] = Front(new)[n]
      <4> HIDE DEF file
      <4> QED
        BY <2>1, WithLineFacts
    <3> HIDE DEF new, file
    <3>2. DOMAIN file = 1 .. Len(file) /\ Len(file) \in Nat /\ DOMAIN new = 1 .. Len(new)
      BY <2>1, <3>1
    <3> QED
      BY <3>1, <3>2
  <2>3. \/ /\ manifests' = [manifests EXCEPT ![day][s] = new]
           /\ UNCHANGED receiver_faults
        \/ Fault("disk") /\ UNCHANGED manifests
        \/ /\ Fault("disk")
           /\ manifests' = [manifests EXCEPT ![day][s] = Front(new)]
    BY <1>2 DEF append_manifest
  <2>4. Fault("disk") =>
            /\ receiver_faults'["disk"] # 0
            /\ receiver_faults' \in [ReceiverFaultKinds -> Nat]
    BY <1>0 DEF Fault
  <2>5. ASSUME NEW f \in Seq(Lines), manifests' = [manifests EXCEPT ![day][s] = f]
        PROVE  /\ manifests' \in [Days -> [Sessions -> Seq(Lines)]] /\ manifests'[day][s] = f
               /\ \A d \in Days, t \in Sessions :
                     ~ (d = day /\ t = s) => manifests'[d][t] = manifests[d][t]
    BY <1>0, <2>1, <2>5
  <2> HIDE DEF s, file, new
  <2>6. CASE /\ manifests' = [manifests EXCEPT ![day][s] = new]
             /\ UNCHANGED receiver_faults
    <3>1. /\ manifests' \in [Days -> [Sessions -> Seq(Lines)]] /\ manifests'[day][s] = new
          /\ \A d \in Days, t \in Sessions :
                ~ (d = day /\ t = s) => manifests'[d][t] = manifests[d][t]
      BY <2>2, <2>5, <2>6
    <3>2. Len(new) \in DOMAIN new /\ Len(new) \notin DOMAIN file
      BY <2>2
    <3>3. \A n \in DOMAIN file : n \in DOMAIN new /\ new[n] = file[n]
      BY <2>2
    <3>4. \A n \in DOMAIN new : new[n] = HEADER => n = 1 \/ n \in DOMAIN file
      BY <2>2
    <3>5. manifests[day][s] = file /\ new[Len(new)] = b.hook
      BY <2>2 DEF file
    <3>6. ASSUME NEW d \in Days, NEW t \in Sessions
          PROVE  /\ \A n \in DOMAIN manifests[d][t] :
                       n \in DOMAIN manifests'[d][t] /\ manifests'[d][t][n] = manifests[d][t][n]
                 /\ \A n \in DOMAIN manifests'[d][t] :
                       manifests'[d][t][n] = HEADER => n = 1 \/ n \in DOMAIN manifests[d][t]
      <4>1. CASE d = day /\ t = s
        BY <3>1, <3>3, <3>4, <3>5, <4>1
      <4>2. CASE ~ (d = day /\ t = s)
        <5>1. manifests'[d][t] = manifests[d][t]
          BY <3>1, <4>2
        <5> QED
          BY <5>1
      <4> QED
        BY <4>1, <4>2
    <3>7. \E n \in DOMAIN manifests'[day][s] :
              n \notin DOMAIN manifests[day][s] /\ manifests'[day][s][n] = b.hook
      BY <3>1, <3>2, <3>5
    <3>8. s = b.session_id
      BY DEF s
    <3> QED
      BY <1>0, <2>6, <3>1, <3>6, <3>7, <3>8 DEF Appends
  <2>7. CASE Fault("disk") /\ UNCHANGED manifests
    BY <1>0, <2>4, <2>7 DEF Appends
  <2>8. CASE Fault("disk") /\ manifests' = [manifests EXCEPT ![day][s] = Front(new)]
    <3>1. /\ manifests' \in [Days -> [Sessions -> Seq(Lines)]] /\ manifests'[day][s] = Front(new)
          /\ \A d \in Days, t \in Sessions :
                ~ (d = day /\ t = s) => manifests'[d][t] = manifests[d][t]
      BY <2>2, <2>5, <2>8
    <3>2. /\ \A n \in DOMAIN file : n \in DOMAIN Front(new) /\ Front(new)[n] = file[n]
          /\ \A n \in DOMAIN Front(new) : Front(new)[n] = HEADER => n = 1 \/ n \in DOMAIN file
      <4>1. \A n \in DOMAIN file : n \in DOMAIN Front(new)
        BY <2>2
      <4>2. \A n \in DOMAIN Front(new) : n \in DOMAIN new
        BY <2>2
      <4> QED
        BY <2>2, <4>1, <4>2
    <3> QED
      BY <1>0, <2>1, <2>4, <2>8, <3>1, <3>2 DEF Appends, file
  <2> QED
    BY <1>0, <2>3, <2>4, <2>6, <2>7, <2>8
<1> QED
  BY <1>1, <1>2

(* What the steps do to the connections.                                   *)
Connects(b) ==
    /\ listening /\ UNCHANGED <<listening, day, published>>
    /\ \E new \in Conn :
          /\ conns' = Append(conns, new) /\ new.body = b
          /\ new.at # "over" => new.answer = 0
          /\ new.answer # 200
    /\ Appends(b) /\ receiver_faults' \in [ReceiverFaultKinds -> Nat]

(* What a connection does up to its first await.                           *)
LEMMA ConnectFacts ==
    ASSUME ConnsInv, NEW b \in Bodies, Connect(b)
    PROVE  Connects(b)
<1>1. UNCHANGED <<listening, day, published>> /\ listening
  BY DEF Connect
<1>2. CASE b = ParseError
  <2> DEFINE new == [[body |-> b, at |-> "filter", answer |-> 0]
                        EXCEPT !.at = "over", !.answer = 500]
  <2>1. new \in Conn /\ new.body = b /\ new.at = "over" /\ new.answer = 500
    BY DEF Conn
  <2>2. conns' = Append(conns, new) /\ UNCHANGED <<manifests, receiver_faults>>
    BY <1>2 DEF Connect
  <2>3. b.source # "claude"
    BY <1>2 DEF ParseError
  <2>4. Appends(b)
    BY <2>2, <2>3 DEF Appends, ConnsInv
  <2> HIDE DEF new
  <2> QED
    BY <1>1, <2>1, <2>2, <2>4 DEF Connects, ConnsInv
<1>3. CASE b # ParseError
  <2> DEFINE new == [body |-> b, at |-> "filter", answer |-> 0]
  <2>1. new \in Conn /\ new.body = b /\ new.at = "filter" /\ new.answer = 0
    BY DEF Conn
  <2>2. conns' = Append(conns, new) /\ append_manifest(b)
    BY <1>3 DEF Connect
  <2> HIDE DEF new
  <2> QED
    BY <1>1, <2>1, <2>2, ManifestFacts DEF Connects
<1> QED
  BY <1>2, <1>3

(* A connection goes on, and may publish its event.                        *)
Emits(c) ==
    /\ conns[c].at # "over"
    /\ DOMAIN conns' = DOMAIN conns /\ conns' \in Seq(Conn)
    /\ \A d \in DOMAIN conns : d # c => conns'[d] = conns[d]
    /\ conns'[c].body = conns[c].body
    /\ conns'[c].at # "over" => conns'[c].answer = 0
    /\ \/ /\ published' = published
          /\ conns'[c].answer = 200 => Dropped(conns[c].body)
       \/ /\ published' = Append(published, conns[c].body)
          /\ conns'[c].at = "over"
    /\ UNCHANGED <<listening, manifests, day>>
    /\ receiver_faults' \in [ReceiverFaultKinds -> Nat]
    /\ receiver_faults'["disk"] = receiver_faults["disk"]

(* A fault of another kind leaves the disk as good as it was.              *)
LEMMA OtherFaults ==
    ASSUME ConnsInv, NEW k \in ReceiverFaultKinds \ {"disk"},
           Fault(k) \/ UNCHANGED receiver_faults
    PROVE  /\ receiver_faults' \in [ReceiverFaultKinds -> Nat]
           /\ receiver_faults'["disk"] = receiver_faults["disk"]
<1>1. /\ receiver_faults \in [ReceiverFaultKinds -> Nat] /\ "disk" \in ReceiverFaultKinds
      /\ receiver_faults[k] + 1 \in Nat
  BY DEF ConnsInv, ReceiverFaultKinds
<1> QED
  BY <1>1 DEF Fault

(* What emit_event does to the bus and the answer.                         *)
LEMMA EmitFacts ==
    ASSUME ConnsInv, NEW c \in DOMAIN conns, emit_event(c)
    PROVE  Emits(c)
<1>0. /\ conns \in Seq(Conn) /\ conns[c] \in Conn
      /\ conns[c].at # "over" => conns[c].answer = 0
      /\ {"no_opa", "bus", "reply"} \subseteq ReceiverFaultKinds \ {"disk"}
  BY DEF ConnsInv, ReceiverFaultKinds
<1>1. ASSUME NEW status \in {200, 500}, AnswerWith(c, status)
      PROVE  /\ DOMAIN conns' = DOMAIN conns /\ conns' \in Seq(Conn)
             /\ \A d \in DOMAIN conns : d # c => conns'[d] = conns[d]
             /\ conns'[c].body = conns[c].body
             /\ conns'[c].at = "over" /\ conns'[c].answer = status
  <2> DEFINE half == [conns[c] EXCEPT !.at = "over"]
  <2>1. half \in Conn /\ half.body = conns[c].body /\ half.at = "over"
    BY <1>0 DEF Conn
  <2>2. conns' = [conns EXCEPT ![c] = [half EXCEPT !.answer = status]]
    BY <1>0, <1>1 DEF AnswerWith
  <2> HIDE DEF half
  <2> DEFINE new == [half EXCEPT !.answer = status]
  <2>3. /\ new \in Conn /\ new.body = conns[c].body /\ new.at = "over" /\ new.answer = status
    BY <2>1 DEF Conn
  <2>4. conns' = [conns EXCEPT ![c] = new]
    BY <2>2
  <2> HIDE DEF new
  <2> QED
    BY <1>0, <2>3, <2>4
<1>2. ASSUME To(c, "publish")
      PROVE  /\ DOMAIN conns' = DOMAIN conns /\ conns' \in Seq(Conn)
             /\ \A d \in DOMAIN conns : d # c => conns'[d] = conns[d]
             /\ conns'[c].body = conns[c].body
             /\ conns'[c].at = "publish" /\ conns'[c].answer = conns[c].answer
  <2> DEFINE new == [conns[c] EXCEPT !.at = "publish"]
  <2>1. /\ new \in Conn /\ new.body = conns[c].body
        /\ new.at = "publish" /\ new.answer = conns[c].answer
    BY <1>0 DEF Conn
  <2>2. conns' = [conns EXCEPT ![c] = new]
    BY <1>0, <1>2 DEF To
  <2> HIDE DEF new
  <2> QED
    BY <1>0, <2>1, <2>2
<1>3. CASE should_keep(c)
  <2>1. /\ conns[c].at = "filter" /\ UNCHANGED <<listening, manifests, day, published>>
        /\ Fault("no_opa") \/ UNCHANGED receiver_faults
        /\ \/ Dropped(conns[c].body) /\ AnswerWith(c, 200)
           \/ To(c, "publish")
    BY <1>3 DEF should_keep
  <2>2. /\ receiver_faults' \in [ReceiverFaultKinds -> Nat]
        /\ receiver_faults'["disk"] = receiver_faults["disk"]
    BY <1>0, <2>1, OtherFaults
  <2> QED
    BY <1>0, <1>1, <1>2, <2>1, <2>2 DEF Emits
<1>4. CASE PublishEvent(c)
  <2>1. /\ conns[c].at = "publish" /\ UNCHANGED <<listening, manifests, day>>
        /\ published' = Append(published, conns[c].body)
        /\ Fault("reply") \/ UNCHANGED receiver_faults
        /\ \E status \in {200, 500} : AnswerWith(c, status)
    BY <1>4 DEF PublishEvent
  <2>2. /\ receiver_faults' \in [ReceiverFaultKinds -> Nat]
        /\ receiver_faults'["disk"] = receiver_faults["disk"]
    BY <1>0, <2>1, OtherFaults
  <2>4. /\ DOMAIN conns' = DOMAIN conns /\ conns' \in Seq(Conn)
        /\ \A d \in DOMAIN conns : d # c => conns'[d] = conns[d]
        /\ conns'[c].body = conns[c].body /\ conns'[c].at = "over"
    BY <1>1, <2>1
  <2> QED
    BY <2>1, <2>2, <2>4 DEF Emits
<1>5. CASE PublishFails(c)
  <2>1. /\ conns[c].at = "publish" /\ UNCHANGED <<listening, manifests, day, published>>
        /\ Fault("bus")
        /\ AnswerWith(c, 500)
    BY <1>5 DEF PublishFails
  <2>2. /\ receiver_faults' \in [ReceiverFaultKinds -> Nat]
        /\ receiver_faults'["disk"] = receiver_faults["disk"]
    BY <1>0, <2>1, OtherFaults
  <2>3. /\ DOMAIN conns' = DOMAIN conns /\ conns' \in Seq(Conn)
        /\ \A d \in DOMAIN conns : d # c => conns'[d] = conns[d]
        /\ conns'[c].body = conns[c].body
        /\ conns'[c].at = "over" /\ conns'[c].answer = 500
    BY <1>1, <2>1
  <2> QED
    BY <2>1, <2>2, <2>3 DEF Emits
<1> QED
  BY <1>3, <1>4, <1>5 DEF emit_event

(* The steps that touch neither bus nor manifests, and no connection but   *)
(* to end it.                                                              *)
Rests ==
    /\ UNCHANGED <<manifests, published>> /\ listening' \in BOOLEAN /\ day' \in Days
    /\ receiver_faults' \in [ReceiverFaultKinds -> Nat]
    /\ receiver_faults'["disk"] = receiver_faults["disk"]
    /\ DOMAIN conns' = DOMAIN conns /\ conns' \in Seq(Conn)
    /\ \A c \in DOMAIN conns :
          /\ conns'[c].body = conns[c].body /\ conns'[c].answer = conns[c].answer
          /\ conns'[c].at \in {conns[c].at, "over"}

(* The steps that touch neither bus nor manifests.                         *)
LEMMA RestFacts ==
    ASSUME ConnsInv, Midnight \/ StopReceiver \/ StartReceiver \/ UNCHANGED receiverVars
    PROVE  Rests
<1>0. /\ conns \in Seq(Conn) /\ \A c \in DOMAIN conns : conns[c] \in Conn
      /\ receiver_faults \in [ReceiverFaultKinds -> Nat] /\ listening \in BOOLEAN /\ day \in Days
      /\ {"midnight", "stop"} \subseteq ReceiverFaultKinds \ {"disk"}
  BY DEF ConnsInv, ReceiverFaultKinds
<1>1. CASE Midnight
  BY <1>0, <1>1, OtherFaults DEF Midnight, Rests
<1>2. CASE StopReceiver
  <2>1. /\ conns' = [c \in DOMAIN conns |-> [conns[c] EXCEPT !.at = "over"]]
        /\ Fault("stop") /\ listening' = FALSE /\ UNCHANGED <<manifests, day, published>>
    BY <1>2 DEF StopReceiver
  <2>2. \A c \in DOMAIN conns :
            LET new == [conns[c] EXCEPT !.at = "over"]
            IN  /\ new \in Conn /\ new.body = conns[c].body /\ new.answer = conns[c].answer
                /\ new.at = "over"
    BY <1>0 DEF Conn
  <2>3. DOMAIN conns = 1 .. Len(conns) /\ Len(conns) \in Nat
    BY <1>0
  <2>4. DOMAIN conns' = DOMAIN conns /\ conns' \in Seq(Conn)
    <3>1. conns' \in [1 .. Len(conns) -> Conn]
      BY <2>1, <2>2, <2>3
    <3> QED
      BY <2>3, <3>1
  <2>5. /\ receiver_faults' \in [ReceiverFaultKinds -> Nat]
        /\ receiver_faults'["disk"] = receiver_faults["disk"]
    BY <1>0, <2>1, OtherFaults
  <2> QED
    BY <1>0, <2>1, <2>2, <2>4, <2>5 DEF Rests
<1>3. CASE StartReceiver
  BY <1>0, <1>3 DEF StartReceiver, Rests
<1>4. CASE UNCHANGED receiverVars
  BY <1>0, <1>4 DEF receiverVars, Rests
<1> QED
  BY <1>1, <1>2, <1>3, <1>4

(* The invariant of the receiver holds initially.                          *)
LEMMA ReceiverInitial == ReceiverInit => ReceiverProofInv
<1> SUFFICES ASSUME ReceiverInit PROVE ReceiverProofInv
  OBVIOUS
<1>1. /\ conns = <<>> /\ published = <<>> /\ day = 1 /\ listening \in BOOLEAN
      /\ manifests = [d \in Days |-> [s \in Sessions |-> <<>>]]
      /\ receiver_faults = [k \in ReceiverFaultKinds |->
                                IF k = "deaf" /\ ~ listening THEN 1 ELSE 0]
  BY DEF ReceiverInit
<1>2. /\ conns \in Seq(Conn) /\ DOMAIN conns = {}
      /\ published \in Seq(Bodies) /\ DOMAIN published = {}
  BY <1>1
<1>3. \A d \in Days, s \in Sessions : manifests[d][s] = <<>> /\ DOMAIN manifests[d][s] = {}
  BY <1>1
<1>4. ConnsInv
  <2>1. receiver_faults \in [ReceiverFaultKinds -> Nat]
    BY <1>1
  <2>2. manifests \in [Days -> [Sessions -> Seq(Lines)]]
    BY <1>1
  <2>3. day \in Days
    BY <1>1 DEF Days
  <2> QED
    BY <1>1, <1>2, <2>1, <2>2, <2>3 DEF ConnsInv
<1>5. HeaderFirst
  BY <1>3 DEF HeaderFirst
<1>6. OriginInv
  <2>1. Origin([i \in {} |-> 0])
    BY <1>2 DEF Origin
  <2> QED
    BY <2>1 DEF OriginInv
<1>7. LinesInv
  <2>1. ASSUME NEW s \in Sessions, NEW h PROVE Noted([c \in {} |-> 0], s, h)
    BY <1>2 DEF Noted, HookConns
  <2> QED
    BY <2>1 DEF LinesInv
<1> QED
  BY <1>4, <1>5, <1>6, <1>7 DEF ReceiverProofInv

(* What the three kinds of step have in common, for each connection there  *)
(* was.                                                                    *)
LEMMA StepKinds ==
    ASSUME ConnsInv, ReceiverStep
    PROVE  \/ \E b \in Bodies : Connects(b)
           \/ \E c \in DOMAIN conns : Emits(c)
           \/ Rests
  BY ConnectFacts, EmitFacts, RestFacts DEF ReceiverStep

(* A step keeps connections, bus and manifests typed.                      *)
LEMMA ConnsStep ==
    ASSUME ConnsInv, ReceiverStep
    PROVE  ConnsInv'
<1>0. /\ conns \in Seq(Conn) /\ published \in Seq(Bodies)
      /\ \A c \in DOMAIN conns :
            conns[c] \in Conn /\ (conns[c].at # "over" => conns[c].answer = 0)
      /\ listening \in BOOLEAN /\ day \in Days
      /\ manifests \in [Days -> [Sessions -> Seq(Lines)]]
  BY DEF ConnsInv
<1>1. ASSUME NEW b \in Bodies, Connects(b) PROVE ConnsInv'
  <2>1. PICK new \in Conn : /\ conns' = Append(conns, new)
                            /\ new.at # "over" => new.answer = 0
    BY <1>1 DEF Connects
  <2>2. /\ conns' \in Seq(Conn) /\ DOMAIN conns' = DOMAIN conns \cup {Len(conns) + 1}
        /\ conns'[Len(conns) + 1] = new
        /\ \A c \in DOMAIN conns : conns'[c] = conns[c]
    BY <1>0, <2>1, AppendProperties
  <2>3. \A c \in DOMAIN conns' : conns'[c].at # "over" => conns'[c].answer = 0
    BY <1>0, <2>1, <2>2
  <2>4. /\ listening' \in BOOLEAN /\ day' \in Days /\ published' \in Seq(Bodies)
        /\ receiver_faults' \in [ReceiverFaultKinds -> Nat]
        /\ manifests' \in [Days -> [Sessions -> Seq(Lines)]]
    BY <1>0, <1>1 DEF Connects, Appends
  <2> QED
    BY <2>2, <2>3, <2>4 DEF ConnsInv
<1>2. ASSUME NEW c \in DOMAIN conns, Emits(c) PROVE ConnsInv'
  <2>1. published' \in Seq(Bodies)
    <3>1. conns[c].body \in Bodies
      BY <1>0 DEF Conn
    <3>2. published \in Seq(Bodies)
      BY DEF ConnsInv
    <3>3. CASE published' = published
      BY <3>2, <3>3
    <3>4. CASE published' = Append(published, conns[c].body)
      BY <3>1, <3>2, <3>4, AppendProperties
    <3> QED
      BY <1>2, <3>3, <3>4 DEF Emits
  <2>2. \A d \in DOMAIN conns' : conns'[d].at # "over" => conns'[d].answer = 0
    BY <1>0, <1>2 DEF Emits
  <2> QED
    BY <1>0, <1>2, <2>1, <2>2 DEF Emits, ConnsInv
<1>3. CASE Rests
  <2>1. \A d \in DOMAIN conns' : conns'[d].at # "over" => conns'[d].answer = 0
    BY <1>0, <1>3 DEF Rests
  <2> QED
    BY <1>0, <1>3, <2>1 DEF Rests, ConnsInv
<1> QED
  BY <1>1, <1>2, <1>3, StepKinds

(* A step starts no manifest without its header.                           *)
LEMMA HeaderStep ==
    ASSUME ConnsInv, HeaderFirst, ReceiverStep
    PROVE  HeaderFirst'
<1>1. ASSUME NEW b \in Bodies, Appends(b) PROVE HeaderFirst'
  BY <1>1 DEF Appends, HeaderFirst
<1> QED
  BY <1>1, StepKinds DEF Connects, Emits, Rests, HeaderFirst

(* A connection keeps what the bus and its answer say of it.               *)
LEMMA OriginKept ==
    ASSUME ConnsInv, NEW f, Origin(f), published' = published,
           DOMAIN conns \subseteq DOMAIN conns',
           \A c \in DOMAIN conns : conns'[c].body = conns[c].body
                                   /\ (conns[c].at = "over" => conns'[c].at = "over"),
           \A c \in DOMAIN conns' :
                conns'[c].answer = 200 /\ ~ Dropped(conns'[c].body) =>
                    c \in DOMAIN conns /\ conns[c].answer = 200
    PROVE  OriginInv'
<1>1. /\ f \in [DOMAIN published' -> DOMAIN conns']
      /\ \A i, j \in DOMAIN published' : f[i] = f[j] => i = j
  BY DEF Origin
<1>2. \A i \in DOMAIN published' :
          conns'[f[i]].body = published'[i] /\ conns'[f[i]].at = "over"
  BY DEF Origin
<1>3. ASSUME NEW c \in DOMAIN conns', conns'[c].answer = 200, ~ Dropped(conns'[c].body)
      PROVE  \E i \in DOMAIN published' : f[i] = c
  <2>1. c \in DOMAIN conns /\ conns[c].answer = 200 /\ conns'[c].body = conns[c].body
    BY <1>3
  <2>2. ~ Dropped(conns[c].body)
    BY <1>3, <2>1 DEF Dropped
  <2> QED
    BY <2>1, <2>2 DEF Origin
<1>4. \A c \in DOMAIN conns' :
          conns'[c].answer = 200 /\ ~ Dropped(conns'[c].body) =>
              \E i \in DOMAIN published' : f[i] = c
  BY <1>3
<1>5. (Origin(f))'
  BY <1>1, <1>2, <1>4 DEF Origin, Dropped
<1> QED
  BY <1>5 DEF OriginInv

(* A step publishes only the event of a connection, once.                  *)
LEMMA OriginStep ==
    ASSUME ConnsInv, OriginInv, ReceiverStep
    PROVE  OriginInv'
<1>0. /\ conns \in Seq(Conn) /\ published \in Seq(Bodies)
      /\ \A c \in DOMAIN conns : conns[c].at # "over" => conns[c].answer = 0
  BY DEF ConnsInv
<1>f. PICK f : Origin(f)
  BY DEF OriginInv
<1>1. ASSUME NEW b \in Bodies, Connects(b) PROVE OriginInv'
  <2>1. PICK new \in Conn : conns' = Append(conns, new) /\ new.answer # 200
    BY <1>1 DEF Connects
  <2>2. /\ DOMAIN conns' = DOMAIN conns \cup {Len(conns) + 1}
        /\ conns'[Len(conns) + 1] = new
        /\ \A c \in DOMAIN conns : conns'[c] = conns[c]
    BY <1>0, <2>1, AppendProperties
  <2> QED
    BY <1>1, <1>f, <2>1, <2>2, OriginKept DEF Connects
<1>2. ASSUME NEW c \in DOMAIN conns, Emits(c), published' = published,
             conns'[c].answer = 200 => Dropped(conns[c].body)
      PROVE  OriginInv'
  <2>1. ASSUME NEW d \in DOMAIN conns', conns'[d].answer = 200, ~ Dropped(conns'[d].body)
        PROVE  d \in DOMAIN conns /\ conns[d].answer = 200
    <3>1. CASE d = c
      <4>1. conns'[d].body = conns[c].body
        BY <1>2, <3>1 DEF Emits
      <4>2. ~ Dropped(conns[c].body)
        BY <2>1, <4>1 DEF Dropped
      <4> QED
        BY <1>2, <2>1, <3>1, <4>2
    <3> QED
      BY <1>2, <2>1, <3>1 DEF Emits
  <2>2. \A d \in DOMAIN conns : conns'[d].body = conns[d].body
                                /\ (conns[d].at = "over" => conns'[d].at = "over")
    BY <1>2 DEF Emits
  <2>3. DOMAIN conns \subseteq DOMAIN conns'
    BY <1>2 DEF Emits
  <2> QED
    BY <1>2, <1>f, <2>1, <2>2, <2>3, OriginKept
<1>3. ASSUME NEW c \in DOMAIN conns, Emits(c),
             published' = Append(published, conns[c].body), conns'[c].at = "over"
      PROVE  OriginInv'
  <2>n. PICK n : n = Len(published) + 1
    OBVIOUS
  <2>1. /\ DOMAIN published' = DOMAIN published \cup {n} /\ n \notin DOMAIN published
        /\ published'[n] = conns[c].body
        /\ \A i \in DOMAIN published : published'[i] = published[i]
    <3>1. conns[c].body \in Bodies
      <4>1. conns[c] \in Conn
        BY <1>0
      <4> QED
        BY <4>1 DEF Conn
    <3>2. Len(published) \in Nat /\ DOMAIN published = 1 .. Len(published)
      BY <1>0
    <3> QED
      BY <1>0, <1>3, <2>n, <3>1, <3>2, AppendProperties
  <2>k. PICK k : k = [i \in DOMAIN published \cup {n} |-> IF i = n THEN c ELSE f[i]]
    OBVIOUS
  <2>2. /\ k[n] = c /\ \A i \in DOMAIN published : k[i] = f[i] /\ f[i] \in DOMAIN conns
        /\ k \in [DOMAIN published \cup {n} -> DOMAIN conns]
    BY <1>f, <2>1, <2>k DEF Origin
  <2>3. \A i \in DOMAIN published : f[i] # c
    BY <1>3, <1>f DEF Origin, Emits
  <2>4. /\ DOMAIN conns' = DOMAIN conns
        /\ \A d \in DOMAIN conns : conns'[d].body = conns[d].body
        /\ \A d \in DOMAIN conns : d # c => conns'[d] = conns[d]
    BY <1>3 DEF Emits
  <2>5. /\ k \in [DOMAIN published' -> DOMAIN conns']
        /\ \A i, j \in DOMAIN published' : k[i] = k[j] => i = j
    BY <1>f, <2>1, <2>2, <2>3, <2>4 DEF Origin
  <2>6. \A i \in DOMAIN published' :
            conns'[k[i]].body = published'[i] /\ conns'[k[i]].at = "over"
    <3>1. conns'[k[n]].body = published'[n] /\ conns'[k[n]].at = "over"
      BY <1>3, <2>1, <2>2, <2>4
    <3>2. ASSUME NEW i \in DOMAIN published
          PROVE  conns'[k[i]].body = published'[i] /\ conns'[k[i]].at = "over"
      BY <1>f, <2>1, <2>2, <2>3, <2>4 DEF Origin
    <3> QED
      BY <2>1, <3>1, <3>2
  <2>7. ASSUME NEW d \in DOMAIN conns', conns'[d].answer = 200, ~ Dropped(conns'[d].body)
        PROVE  \E i \in DOMAIN published' : k[i] = d
    <3>1. CASE d = c
      BY <2>1, <2>2, <3>1
    <3>2. CASE d # c
      <4>1. conns[d].answer = 200 /\ conns'[d].body = conns[d].body /\ d \in DOMAIN conns
        BY <2>4, <2>7, <3>2
      <4>2. ~ Dropped(conns[d].body)
        BY <2>7, <4>1 DEF Dropped
      <4>3. PICK i \in DOMAIN published : f[i] = d
        BY <1>f, <4>1, <4>2 DEF Origin
      <4> QED
        BY <2>1, <2>2, <4>3
    <3> QED
      BY <3>1, <3>2
  <2>8. \A d \in DOMAIN conns' :
            conns'[d].answer = 200 /\ ~ Dropped(conns'[d].body) =>
                \E i \in DOMAIN published' : k[i] = d
    BY <2>7
  <2>9. (Origin(k))'
    BY <2>5, <2>6, <2>8 DEF Origin, Dropped
  <2> QED
    BY <2>9 DEF OriginInv
<1>4. CASE Rests
  <2>1. /\ published' = published /\ DOMAIN conns \subseteq DOMAIN conns'
        /\ \A c \in DOMAIN conns : conns'[c].body = conns[c].body
                                   /\ (conns[c].at = "over" => conns'[c].at = "over")
        /\ \A c \in DOMAIN conns' : conns'[c].answer = conns[c].answer /\ c \in DOMAIN conns
    BY <1>4 DEF Rests
  <2> QED
    BY <1>f, <2>1, OriginKept
<1>5. ASSUME NEW c \in DOMAIN conns, Emits(c) PROVE OriginInv'
  BY <1>2, <1>3, <1>5 DEF Emits
<1> QED
  BY <1>1, <1>4, <1>5, StepKinds

(* A hook keeps its line.                                                  *)
LEMMA NotedKept ==
    ASSUME NEW s \in Sessions, NEW h, NEW g, Noted(g, s, h),
           HookConns(s, h)' = HookConns(s, h), LinesOf(s, h) \subseteq LinesOf(s, h)'
    PROVE  \E k : Noted(k, s, h)'
<1>1. (Noted(g, s, h))'
  BY DEF Noted
<1> QED
  BY <1>1

(* A step leaves each connection of a hook its line, unless the disk       *)
(* fails.                                                                  *)
LEMMA LinesStep ==
    ASSUME ConnsInv, LinesInv, ReceiverStep
    PROVE  LinesInv'
<1>0. conns \in Seq(Conn) /\ day \in Days
  BY DEF ConnsInv
<1>1. ASSUME NEW b \in Bodies, Connects(b) PROVE LinesInv'
  <2> SUFFICES ASSUME receiver_faults'["disk"] = 0, NEW s \in Sessions, NEW h
               PROVE  \E g : Noted(g, s, h)'
    BY DEF LinesInv
  <2>0. Appends(b) /\ receiver_faults["disk"] = 0
    BY <1>1 DEF Connects, Appends
  <2>1. PICK g : Noted(g, s, h)
    BY <2>0 DEF LinesInv
  <2>2. PICK new \in Conn : conns' = Append(conns, new) /\ new.body = b
    BY <1>1 DEF Connects
  <2>n. PICK last : last = Len(conns) + 1
    OBVIOUS
  <2>3. /\ DOMAIN conns' = DOMAIN conns \cup {last} /\ last \notin DOMAIN conns
        /\ conns'[last].body = b
        /\ \A c \in DOMAIN conns : conns'[c] = conns[c]
    <3>1. Len(conns) \in Nat /\ DOMAIN conns = 1 .. Len(conns)
      BY <1>0
    <3> QED
      BY <1>0, <2>2, <2>n, <3>1, AppendProperties
  <2>4. LinesOf(s, h) \subseteq LinesOf(s, h)'
    <3> SUFFICES ASSUME NEW d \in Days, NEW n \in DOMAIN manifests[d][s],
                        manifests[d][s][n] = h
                 PROVE  <<d, n>> \in LinesOf(s, h)'
      BY DEF LinesOf
    <3>1. n \in DOMAIN manifests'[d][s] /\ manifests'[d][s][n] = h
      BY <2>0 DEF Appends
    <3> QED
      BY <3>1 DEF LinesOf
  <2>5. \A c \in DOMAIN conns : c \in HookConns(s, h)' <=> c \in HookConns(s, h)
    BY <2>3 DEF HookConns, IsHook
  <2>6. HookConns(s, h)' \subseteq HookConns(s, h) \cup {last}
    BY <2>3, <2>5 DEF HookConns
  <2>7. CASE last \notin HookConns(s, h)'
    <3>1. HookConns(s, h) \subseteq DOMAIN conns
      BY DEF HookConns
    <3>2. HookConns(s, h)' = HookConns(s, h)
      BY <2>5, <2>6, <2>7, <3>1
    <3> QED
      BY <2>1, <2>4, <3>2, NotedKept
  <2>8. CASE last \in HookConns(s, h)'
    <3>1. b.source = "claude" /\ b.session_id = s /\ b.hook = h
      BY <2>3, <2>8 DEF HookConns, IsHook
    <3>2. PICK n \in DOMAIN manifests'[day][s] :
              n \notin DOMAIN manifests[day][s] /\ manifests'[day][s][n] = h
      BY <2>0, <3>1 DEF Appends
    <3>x. PICK x : x = <<day, n>>
      OBVIOUS
    <3>3. x \in LinesOf(s, h)' /\ x \notin LinesOf(s, h)
      BY <1>0, <3>2, <3>x DEF LinesOf
    <3>k. PICK k : k = [c \in HookConns(s, h) \cup {last} |-> IF c = last THEN x ELSE g[c]]
      OBVIOUS
    <3>4. /\ HookConns(s, h)' = HookConns(s, h) \cup {last} /\ last \notin HookConns(s, h)
      BY <2>3, <2>5, <2>6, <2>8 DEF HookConns
    <3>5. k[last] = x /\ \A c \in HookConns(s, h) : k[c] = g[c] /\ g[c] \in LinesOf(s, h)
      BY <2>1, <3>4, <3>k DEF Noted
    <3>6. k \in [HookConns(s, h) \cup {last} -> LinesOf(s, h)']
      BY <2>4, <3>3, <3>5, <3>k
    <3>7. \A c, d \in HookConns(s, h) \cup {last} : k[c] = k[d] => c = d
      BY <2>1, <3>3, <3>5 DEF Noted
    <3>8. (Noted(k, s, h))'
      BY <3>4, <3>6, <3>7 DEF Noted
    <3> QED
      BY <3>8
  <2> QED
    BY <2>7, <2>8
<1>2. ASSUME manifests' = manifests, receiver_faults'["disk"] = receiver_faults["disk"],
             DOMAIN conns' = DOMAIN conns,
             \A c \in DOMAIN conns : conns'[c].body = conns[c].body
      PROVE  LinesInv'
  <2> SUFFICES ASSUME receiver_faults'["disk"] = 0, NEW s \in Sessions, NEW h
               PROVE  \E g : Noted(g, s, h)'
    BY DEF LinesInv
  <2>1. PICK g : Noted(g, s, h)
    BY <1>2 DEF LinesInv
  <2>2. LinesOf(s, h)' = LinesOf(s, h)
    BY <1>2 DEF LinesOf
  <2>3. HookConns(s, h)' = HookConns(s, h)
    BY <1>2 DEF HookConns, IsHook
  <2> QED
    BY <2>1, <2>2, <2>3, NotedKept
<1>3. ASSUME NEW c \in DOMAIN conns, Emits(c) PROVE LinesInv'
  <2>1. /\ manifests' = manifests /\ receiver_faults'["disk"] = receiver_faults["disk"]
        /\ DOMAIN conns' = DOMAIN conns
        /\ \A d \in DOMAIN conns : conns'[d].body = conns[d].body
    BY <1>3 DEF Emits
  <2> QED
    BY <1>2, <2>1
<1>4. CASE Rests
  <2>1. /\ manifests' = manifests /\ receiver_faults'["disk"] = receiver_faults["disk"]
        /\ DOMAIN conns' = DOMAIN conns
        /\ \A d \in DOMAIN conns : conns'[d].body = conns[d].body
    BY <1>4 DEF Rests
  <2> QED
    BY <1>2, <2>1
<1> QED
  BY <1>1, <1>3, <1>4, StepKinds

(* Manifest, bus and answers agree, whatever the hooks that overlap, the   *)
(* writes and calls that fail and the stops of core (hooks.py, emit.py):   *)
(* each event on the bus has its connection and, unless the disk failed,   *)
(* its line; a 200 means that it is on the bus or that the policy drops    *)
(* it; a header is a file's first line or none.                            *)
THEOREM RecordsAgree == IngestSpec => []ReceiverInv
<1>1. IngestInit => TypesInv /\ ReceiverProofInv
  BY WatchInitial, ReceiverInitial DEF IngestInit, WatchProofInv
<1>2. (TypesInv /\ ReceiverProofInv) /\ [BoundedNext]_ingestVars => (TypesInv /\ ReceiverProofInv)'
  <2> SUFFICES ASSUME TypesInv, ReceiverProofInv, [BoundedNext]_ingestVars
               PROVE  TypesInv' /\ ReceiverProofInv'
    OBVIOUS
  <2>1. ReceiverStep
    BY ReceiverKinds
  <2>2. TypesInv'
    BY WatcherKinds, TypesStep
  <2> QED
    BY <2>1, <2>2, ConnsStep, HeaderStep, OriginStep, LinesStep DEF ReceiverProofInv
<1>3. ReceiverProofInv => ReceiverInv
  BY ReceiverMeaning
<1> QED
  BY <1>1, <1>2, <1>3, PTL DEF IngestSpec

-----------------------------------------------------------------------------
(* The order of the events: as long as fswatch waits for each answer, at   *)
(* most one of its connections is open, that of its last post, and the     *)
(* events published before it are of earlier posts.                        *)

FromWatcher == {i \in DOMAIN published : published[i].source = "fswatch"}
Calm == watch_faults.slow + watch_faults.restart = 0

Follows(h) ==
    /\ h \in [FromWatcher -> DOMAIN posted]
    /\ \A i, j \in FromWatcher : i < j => h[i] < h[j]
    /\ \A i \in FromWatcher : posted[h[i]] = published[i]

Open == {c \in DOMAIN conns : conns[c].at # "over" /\ conns[c].body.source = "fswatch"}
LastOpen(h) ==
    Open # {} =>
        /\ Open = {conn} /\ posting = <<conns[conn].body>>
        /\ \A i \in FromWatcher : h[i] < Len(posted)

OrderInv == conn \in Nat /\ (Calm => \E h : Follows(h) /\ LastOpen(h))

(* A map that keeps the order bears out EventsInOrder.                     *)
LEMMA OrderMeaning == ConnsInv /\ OrderInv => EventsInOrder
<1> SUFFICES ASSUME OrderInv, Calm,
                    NEW p \in Paths, NEW i \in EventsOf(p), NEW j \in EventsOf(p), i < j
             PROVE  \E k, l \in PostsOf(p) :
                        k < l /\ posted[k] = published[i] /\ posted[l] = published[j]
  BY DEF EventsInOrder, Calm
<1>1. PICK h : Follows(h)
  BY DEF OrderInv
<1>2. i \in FromWatcher /\ j \in FromWatcher /\ published[i].path = p /\ published[j].path = p
  BY DEF EventsOf, FromWatcher
<1>3. h[i] \in PostsOf(p) /\ h[j] \in PostsOf(p)
  BY <1>1, <1>2 DEF Follows, PostsOf
<1> QED
  BY <1>1, <1>2, <1>3 DEF Follows

(* The same map of events to posts serves where none is published.         *)
LEMMA OrderKept ==
    ASSUME TypesInv, OrderInv, conn' \in Nat, Calm' => Calm, published' = published,
           \A k \in DOMAIN posted : k \in DOMAIN posted' /\ posted'[k] = posted[k],
           \/ Open' = {}
           \/ /\ Open' = Open /\ UNCHANGED <<conn, posting, posted>>
              /\ \A c \in Open : conns'[c].body = conns[c].body
           \/ /\ Open' = {conn'} /\ posting' = <<conns'[conn'].body>>
              /\ Len(posted') = Len(posted) + 1
    PROVE  OrderInv'
<1> SUFFICES ASSUME Calm' PROVE \E h : Follows(h)' /\ LastOpen(h)'
  BY DEF OrderInv
<1>1. PICK h : Follows(h) /\ LastOpen(h)
  BY DEF OrderInv
<1>2. FromWatcher' = FromWatcher
  BY DEF FromWatcher
<1>3. Follows(h)'
  BY <1>1, <1>2 DEF Follows, FromWatcher
<1>4. CASE Open' = {}
  BY <1>3, <1>4 DEF LastOpen
<1>5. CASE /\ Open' = Open /\ UNCHANGED <<conn, posting, posted>>
           /\ \A c \in Open : conns'[c].body = conns[c].body
  <2>1. LastOpen(h)'
    BY <1>1, <1>2, <1>5 DEF LastOpen
  <2> QED
    BY <1>3, <2>1
<1>6. CASE /\ Open' = {conn'} /\ posting' = <<conns'[conn'].body>>
           /\ Len(posted') = Len(posted) + 1
  <2>1. DOMAIN posted = 1 .. Len(posted) /\ Len(posted) \in Nat
    BY DEF TypesInv
  <2>2. \A i \in FromWatcher : h[i] < Len(posted')
    BY <1>1, <1>6, <2>1 DEF Follows
  <2>3. LastOpen(h)'
    BY <1>2, <1>6, <2>2 DEF LastOpen
  <2> QED
    BY <1>3, <2>3
<1> QED
  BY <1>4, <1>5, <1>6

(* A step of the receiver without one of the watcher.                      *)
LEMMA OrderBeside ==
    ASSUME TypesInv, ConnsInv, OrderInv, UNCHANGED <<posted, posting, watch_faults, conn>>,
           \/ \E b \in HookBodies : Connect(b)
           \/ \E c \in DOMAIN conns : emit_event(c)
           \/ Midnight \/ StopReceiver \/ StartReceiver \/ UNCHANGED receiverVars
    PROVE  OrderInv'
<1>0. /\ conns \in Seq(Conn) /\ published \in Seq(Bodies) /\ conn \in Nat
      /\ Calm' => Calm
  BY DEF ConnsInv, OrderInv, Calm
<1>1. ASSUME NEW b \in HookBodies, Connects(b) PROVE OrderInv'
  <2>1. PICK new \in Conn : conns' = Append(conns, new) /\ new.body = b
    BY <1>1 DEF Connects
  <2>2. /\ DOMAIN conns' = DOMAIN conns \cup {Len(conns) + 1}
        /\ conns'[Len(conns) + 1].body.source # "fswatch"
        /\ \A c \in DOMAIN conns : conns'[c] = conns[c]
    BY <1>0, <2>1, AppendProperties, BodyFacts
  <2>3. Open' = Open
    BY <2>2 DEF Open
  <2>4. \A c \in Open : conns'[c].body = conns[c].body
    BY <2>2 DEF Open
  <2> QED
    BY <1>0, <1>1, <2>3, <2>4, OrderKept DEF Connects
<1>2. ASSUME NEW c \in DOMAIN conns, Emits(c) PROVE OrderInv'
  <2>1. /\ DOMAIN conns' = DOMAIN conns
        /\ \A d \in DOMAIN conns : conns'[d].body = conns[d].body
        /\ \A d \in DOMAIN conns : d # c => conns'[d] = conns[d]
        /\ conns[c].at # "over"
    BY <1>2 DEF Emits
  <2>2. Open' \subseteq Open /\ (conns'[c].at # "over" => Open' = Open)
    BY <2>1 DEF Open
  <2>3. CASE published' = published
    <3>1. CASE conns'[c].at # "over"
      BY <1>0, <2>1, <2>2, <2>3, <3>1, OrderKept DEF Open
    <3>2. CASE conns'[c].at = "over" /\ conns[c].body.source # "fswatch"
      <4>1. Open' = Open
        BY <2>1, <2>2, <3>2 DEF Open
      <4> QED
        BY <1>0, <2>1, <2>3, <4>1, OrderKept DEF Open
    <3>3. CASE conns'[c].at = "over" /\ conns[c].body.source = "fswatch"
      <4>1. SUFFICES ASSUME Calm PROVE OrderInv'
        BY <1>0 DEF OrderInv
      <4>2. Open = {conn}
        BY <2>1, <3>3, <4>1 DEF OrderInv, LastOpen, Open
      <4>3. c \in Open /\ c \notin Open'
        BY <2>1, <3>3 DEF Open
      <4>4. Open' = {}
        BY <2>2, <4>2, <4>3
      <4> QED
        BY <1>0, <2>3, <4>4, OrderKept
    <3> QED
      BY <3>1, <3>2, <3>3
  <2>4. CASE published' = Append(published, conns[c].body) /\ conns'[c].at = "over"
    <3> SUFFICES ASSUME Calm' PROVE \E h : Follows(h)' /\ LastOpen(h)'
      BY <1>0 DEF OrderInv
    <3>1. PICK h : Follows(h) /\ LastOpen(h)
      BY <1>0 DEF OrderInv
    <3>n. PICK n : n = Len(published) + 1
      OBVIOUS
    <3>2. /\ DOMAIN published' = DOMAIN published \cup {n} /\ n \notin DOMAIN published
          /\ published'[n] = conns[c].body /\ n \in Nat
          /\ \A i \in DOMAIN published : published'[i] = published[i] /\ i < n /\ i \in Nat
      <4>1. Len(published) \in Nat /\ DOMAIN published = 1 .. Len(published)
        BY <1>0
      <4>2. conns[c] \in Conn
        BY <1>0
      <4>3. conns[c].body \in Bodies
        BY <4>2 DEF Conn
      <4> QED
        BY <1>0, <2>4, <3>n, <4>1, <4>3, AppendProperties
    <3>3. CASE conns[c].body.source # "fswatch"
      <4>1. FromWatcher' = FromWatcher
        BY <3>2, <3>3 DEF FromWatcher
      <4>2. Follows(h)'
        BY <3>1, <3>2, <4>1 DEF Follows, FromWatcher
      <4>3. Open' = Open /\ \A d \in Open : conns'[d].body = conns[d].body
        BY <2>1, <2>2, <3>3 DEF Open
      <4>4. LastOpen(h)'
        BY <3>1, <4>1, <4>3 DEF LastOpen
      <4> QED
        BY <4>2, <4>4
    <3>4. CASE conns[c].body.source = "fswatch"
      <4>1. c \in Open
        BY <2>1, <3>4 DEF Open
      <4>2. /\ Open = {conn} /\ c = conn /\ posting = <<conns[c].body>>
            /\ \A i \in FromWatcher : h[i] < Len(posted)
        BY <3>1, <4>1 DEF LastOpen
      <4>3. conns[c].body = posted[Len(posted)] /\ Len(posted) \in DOMAIN posted
        BY <4>2 DEF TypesInv
      <4>4. Open' = {}
        BY <2>1, <2>2, <2>4, <4>2 DEF Open
      <4>5. FromWatcher' = FromWatcher \cup {n} /\ n \notin FromWatcher
        BY <3>2, <3>4 DEF FromWatcher
      <4>k. PICK k : k = [i \in FromWatcher \cup {n} |-> IF i = n THEN Len(posted) ELSE h[i]]
        OBVIOUS
      <4>6. /\ k[n] = Len(posted)
            /\ \A i \in FromWatcher : /\ k[i] = h[i] /\ k[i] \in DOMAIN posted
                                      /\ i \in DOMAIN published
        BY <3>1, <4>5, <4>k DEF Follows, FromWatcher
      <4>7. k \in [FromWatcher \cup {n} -> DOMAIN posted]
        BY <4>3, <4>6, <4>k
      <4>8. \A i, j \in FromWatcher \cup {n} : i < j => k[i] < k[j]
        <5>1. \A i \in FromWatcher : ~ n < i
          BY <3>2, <4>6
        <5> QED
          BY <3>1, <3>2, <4>2, <4>6, <5>1 DEF Follows
      <4>9. \A i \in FromWatcher \cup {n} : posted[k[i]] = published'[i]
        BY <3>1, <3>2, <4>3, <4>6 DEF Follows
      <4>10. Follows(k)'
        BY <4>5, <4>7, <4>8, <4>9 DEF Follows
      <4> QED
        BY <4>4, <4>10 DEF LastOpen
    <3> QED
      BY <3>3, <3>4
  <2> QED
    BY <1>2, <2>3, <2>4 DEF Emits
<1>3. CASE Rests
  <2> SUFFICES ASSUME Calm PROVE OrderInv'
    BY <1>0 DEF OrderInv
  <2>1. Open' \subseteq Open /\ \A c \in Open : conns'[c].body = conns[c].body
    BY <1>3 DEF Rests, Open
  <2>2. Open = {} \/ Open = {conn}
    BY DEF OrderInv, LastOpen
  <2>3. Open' = {} \/ Open' = Open
    BY <2>1, <2>2
  <2> QED
    BY <1>0, <1>3, <2>1, <2>3, OrderKept DEF Rests
<1>4. HookBodies \subseteq Bodies
  BY DEF Bodies
<1> QED
  BY <1>1, <1>2, <1>3, <1>4, ConnectFacts, EmitFacts, RestFacts

(* fswatch posts when it has had its answer.                               *)
LEMMA OrderPost ==
    ASSUME TypesInv, ConnsInv, OrderInv, NEW p \in Paths, Post(p)
    PROVE  OrderInv'
<1>0. /\ conns \in Seq(Conn) /\ conn \in Nat /\ posting = <<>> /\ Flushed(p)
      /\ UNCHANGED watch_faults
  BY FlushFacts DEF ConnsInv, OrderInv, Post, flush_one
<1>1. /\ Len(posted') = Len(posted) + 1
      /\ \A k \in DOMAIN posted : k \in DOMAIN posted' /\ posted'[k] = posted[k]
  BY <1>0 DEF Flushed
<1>b. PICK b \in PostedEvent : posting' = <<b>>
  BY <1>0 DEF Flushed
<1>2. SUFFICES ASSUME Calm PROVE OrderInv'
  <2>1. Calm' = Calm
    BY <1>0 DEF Calm
  <2>2. conn' \in Nat
    <3>1. CASE conn' = 0
      BY <3>1
    <3>2. CASE Connect(posting'[1]) /\ conn' = Len(conns')
      <4>1. Connects(b)
        BY <1>b, <3>2, ConnectFacts DEF Bodies
      <4>2. conns' \in Seq(Conn)
        BY <1>0, <4>1, AppendProperties DEF Connects
      <4> QED
        BY <3>2, <4>2
    <3> QED
      BY <3>1, <3>2 DEF Post
  <2> QED
    BY <2>1, <2>2 DEF OrderInv
<1>3. Open = {}
  BY <1>0, <1>2 DEF OrderInv, LastOpen
<1>4. Calm' => Calm
  BY <1>2
<1>5. CASE Connect(posting'[1]) /\ conn' = Len(conns')
  <2>1. Connects(b)
    BY <1>b, <1>5, ConnectFacts DEF Bodies
  <2>2. PICK new \in Conn : conns' = Append(conns, new) /\ new.body = b
    BY <2>1 DEF Connects
  <2>3. /\ DOMAIN conns' = DOMAIN conns \cup {conn'} /\ conns'[conn'].body = b
        /\ \A c \in DOMAIN conns : conns'[c] = conns[c]
        /\ conn' \in Nat
    BY <1>0, <1>5, <2>2, AppendProperties
  <2>4. Open' \subseteq {conn'}
    BY <1>3, <2>3 DEF Open
  <2>5. posting' = <<conns'[conn'].body>>
    BY <1>b, <2>3
  <2>6. Open' = {} \/ Open' = {conn'}
    BY <2>4
  <2>7. published' = published
    BY <2>1 DEF Connects
  <2> QED
    BY <1>1, <1>4, <2>3, <2>5, <2>6, <2>7, OrderKept
<1>6. CASE conn' = 0 /\ UNCHANGED receiverVars
  <2>1. Open' = {} /\ published' = published /\ conn' \in Nat
    BY <1>3, <1>6 DEF Open, receiverVars
  <2> QED
    BY <1>1, <1>4, <2>1, OrderKept
<1> QED
  BY <1>5, <1>6 DEF Post

(* A step that ends the wait: fswatch stops waiting at its own cost only.  *)
LEMMA OrderEnds ==
    ASSUME TypesInv, ConnsInv, OrderInv, PostReturns \/ PostAbandoned \/ Alone(Restart)
    PROVE  OrderInv'
<1>0. /\ watch_faults \in [unnoticed : Nat, slow : Nat, restart : Nat] /\ conn \in Nat
      /\ conn' = conn
  BY DEF TypesInv, OrderInv, PostReturns, PostAbandoned, Alone
<1>1. CASE PostReturns
  <2>1. /\ UNCHANGED <<posted, watch_faults>> /\ posting # <<>>
        /\ UNCHANGED <<conns, published>> /\ ~ Waiting
    BY <1>1 DEF PostReturns, PostEnds, PostOver, Alone, receiverVars
  <2>2. Calm' = Calm
    BY <2>1 DEF Calm
  <2>3. SUFFICES ASSUME Calm PROVE OrderInv'
    BY <1>0, <2>2 DEF OrderInv
  <2>4. PICK h : LastOpen(h)
    BY <2>3 DEF OrderInv
  <2>5. Open = {}
    <3>1. SUFFICES ASSUME Open # {} PROVE FALSE
      OBVIOUS
    <3>2. conn \in Open
      BY <2>4, <3>1 DEF LastOpen
    <3>3. conn # 0
      <4>1. conn \in DOMAIN conns /\ conns \in Seq(Conn)
        BY <3>2 DEF Open, ConnsInv
      <4> QED
        BY <4>1
    <3> QED
      BY <2>1, <3>2, <3>3 DEF Waiting, Open
  <2>6. Open' = {}
    BY <2>1, <2>5 DEF Open
  <2> QED
    BY <1>0, <2>1, <2>2, <2>6, OrderKept
<1>2. CASE PostAbandoned
  <2>1. watch_faults' = [watch_faults EXCEPT !.slow = @ + 1]
    BY <1>2 DEF PostAbandoned, Alone, PostTimesOut, WatchFault
  <2>2. watch_faults'.slow = watch_faults.slow + 1 /\ watch_faults'.restart = watch_faults.restart
    BY <1>0, <2>1
  <2>3. ~ Calm'
    BY <1>0, <2>2 DEF Calm
  <2> QED
    BY <1>0, <2>3 DEF OrderInv
<1>3. CASE Alone(Restart)
  <2>1. watch_faults' = [watch_faults EXCEPT !.restart = @ + 1]
    BY <1>3 DEF Alone, Restart, WatchFault
  <2>2. watch_faults'.restart = watch_faults.restart + 1 /\ watch_faults'.slow = watch_faults.slow
    BY <1>0, <2>1
  <2>3. ~ Calm'
    BY <1>0, <2>2 DEF Calm
  <2> QED
    BY <1>0, <2>3 DEF OrderInv
<1> QED
  BY <1>1, <1>2, <1>3

(* A step keeps the order of posts on the bus.                             *)
LEMMA OrderStep ==
    ASSUME TypesInv, ConnsInv, OrderInv, [BoundedNext]_ingestVars
    PROVE  OrderInv'
<1>1. CASE UNCHANGED ingestVars
  <2>1. UNCHANGED <<posted, posting, watch_faults, conn>> /\ UNCHANGED receiverVars
    BY <1>1 DEF ingestVars, watchVars, loopVars
  <2> QED
    BY <2>1, OrderBeside
<1>2. CASE Alone(DiskStep)
  <2>1. UNCHANGED <<posted, posting, conn>> /\ UNCHANGED receiverVars /\ published' = published
    BY <1>2, DiskFacts DEF Alone, loopVars, receiverVars
  <2>2. watch_faults'.slow = watch_faults.slow /\ watch_faults'.restart = watch_faults.restart
    <3>1. watch_faults \in [unnoticed : Nat, slow : Nat, restart : Nat]
      BY DEF TypesInv
    <3>2. \/ watch_faults' = watch_faults
          \/ watch_faults' = [watch_faults EXCEPT !.unnoticed = @ + 1]
      BY <1>2, DiskFacts DEF Alone
    <3> QED
      BY <3>1, <3>2
  <2>3. Calm' = Calm
    BY <2>2 DEF Calm
  <2>4. Open' = Open /\ \A c \in Open : conns'[c].body = conns[c].body
    BY <2>1 DEF Open, receiverVars
  <2>5. conn' \in Nat
    BY <2>1 DEF OrderInv
  <2> QED
    BY <2>1, <2>3, <2>4, <2>5, OrderKept
<1>3. CASE Alone(Tick) \/ PostLingers \/ Alone(ReceiveEvent) \/ Alone(ReceiveNothing)
  <2>1. UNCHANGED <<posted, posting, watch_faults, conn>> /\ UNCHANGED receiverVars
    BY <1>3 DEF Alone, Tick, PostLingers, PostWaits, Older, ReceiveEvent, ReceiveNothing
  <2> QED
    BY <2>1, OrderBeside
<1>4. CASE /\ FireHook \/ Midnight \/ StopReceiver \/ StartReceiver
           /\ UNCHANGED <<watchVars, conn, refused>>
  <2>1. UNCHANGED <<posted, posting, watch_faults, conn>>
    BY <1>4 DEF watchVars, loopVars
  <2> QED
    BY <1>4, <2>1, OrderBeside DEF FireHook
<1>5. CASE \E c \in DOMAIN conns : Handling(c)
  <2>1. UNCHANGED <<posted, posting, watch_faults, conn>>
    BY <1>5 DEF Handling, watchVars, loopVars
  <2> QED
    BY <1>5, <2>1, OrderBeside DEF Handling
<1>6. CASE \E p \in Paths : Post(p)
  BY <1>6, OrderPost
<1>7. CASE PostReturns \/ PostAbandoned \/ Alone(Restart)
  BY <1>7, OrderEnds
<1> QED
  BY <1>1, <1>2, <1>3, <1>4, <1>5, <1>6, <1>7 DEF BoundedNext, IngestNext, Outside

(* The events of a path are on the bus in the order in which fswatch       *)
(* posted them, although core handles each in a coroutine of its own: for  *)
(* any number of paths, posts and hooks, as long as fswatch neither gives  *)
(* up waiting (post_body's timeout) nor is restarted.                      *)
THEOREM EventsKeepOrder == IngestSpec => []EventsInOrder
<1>1. IngestInit => TypesInv /\ ConnsInv /\ OrderInv
  <2> SUFFICES ASSUME IngestInit PROVE TypesInv /\ ConnsInv /\ OrderInv
    OBVIOUS
  <2>1. TypesInv /\ ConnsInv
    BY WatchInitial, ReceiverInitial DEF IngestInit, WatchProofInv, ReceiverProofInv
  <2>2. conns = <<>> /\ published = <<>> /\ conn = 0
    BY DEF IngestInit, ReceiverInit
  <2>3. Open = {} /\ FromWatcher = {}
    BY <2>2 DEF Open, FromWatcher
  <2>4. Follows([i \in {} |-> 0])
    BY <2>3 DEF Follows
  <2>5. LastOpen([i \in {} |-> 0])
    BY <2>3 DEF LastOpen
  <2> QED
    BY <2>1, <2>2, <2>4, <2>5 DEF OrderInv
<1>2. (TypesInv /\ ConnsInv /\ OrderInv) /\ [BoundedNext]_ingestVars
          => (TypesInv /\ ConnsInv /\ OrderInv)'
  BY WatcherKinds, TypesStep, ReceiverKinds, ConnsStep, OrderStep
<1>3. TypesInv /\ ConnsInv /\ OrderInv => EventsInOrder
  BY OrderMeaning
<1> QED
  BY <1>1, <1>2, <1>3, PTL DEF IngestSpec
=============================================================================
