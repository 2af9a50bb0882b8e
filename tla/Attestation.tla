---------------------------- MODULE Attestation ----------------------------
(***************************************************************************)
(* `oc attest publish` (core/app/tasks/attestation_publisher.py and        *)
(* core/app/cli/attest_cmds.py): a process reads the rows of one day from  *)
(* the projection, computes their Merkle root and commits the document to  *)
(* a GitHub repository, one file a day, replacing the version it has       *)
(* looked up just before.  Several may run at once, beside a projector     *)
(* that still inserts rows and a rebuild that truncates them.              *)
(***************************************************************************)
EXTENDS Integers, Sequences, SequencesExt, FiniteSets

CONSTANTS
    MaxEntries, \* bound: entries of the ledger
    MaxDays,    \* bound: UTC days
    DayLength,  \* ticks in a day
    Publishers, \* processes that may run at the same time
    Offsets,    \* what the host's clock may be ahead of UTC, in ticks
    MaxPublications, \* bound: runs of the command
    MaxPublishFaults \* bound: faults, and rebuilds

(* The entries in the order of their ULIDs.                                *)
Entries == 1 .. MaxEntries
Days == 1 .. MaxDays

ASSUME AttestationAssumption ==
    /\ {MaxEntries, MaxPublications, MaxPublishFaults} \subseteq Nat
    /\ {MaxDays, DayLength} \subseteq Nat \ {0}
    /\ Offsets \subseteq Int

VARIABLES
    ts,         \* the moment of each entry's envelope, 0: it is not made yet
    rows,       \* Postgres: the entries that have a row
    clock,      \* UTC, in ticks: day d begins at d * DayLength
    offset,     \* the host's time zone
    pub,        \* each publisher: where it is, and its locals
    commits,    \* GitHub: every version of every file, oldest first
    started,    \* history: runs of the command
    faults,     \* history: failing calls, crashes and rebuilds
    truncated   \* history: rows that a rebuild has removed

attestVars == <<ts, rows, clock, offset, pub, commits, started, faults, truncated>>

Yesterday == (clock + offset) \div DayLength - 1   \* of the host
Today == clock \div DayLength                      \* of UTC
Idle == [at |-> "idle", asked |-> 0, date |-> 0, doc |-> <<>>, sha |-> 0, fetched |-> 0]

AttestInit ==
    /\ ts = [e \in Entries |-> 0]
    /\ rows = {}
    /\ clock = DayLength
    /\ offset \in Offsets
    /\ pub = [p \in Publishers |-> Idle]
    /\ commits = <<>>
    /\ started = 0
    /\ faults = 0
    /\ truncated = {}

-----------------------------------------------------------------------------
(* The Merkle tree.  A hash is the term it hashes: there are no collisions;*)
(* the hashes of an entry's raw_envelope, of a pair and of nothing are     *)
(* tuples of one, two and no terms.                                        *)

(* Mutant of NextLayer: an odd layer loses its last hash.                  *)
NextLayerDrops(layer) ==
    [i \in 1 .. Len(layer) \div 2 |-> <<layer[2 * i - 1], layer[2 * i]>>]

(***************************************************************************)
(* One layer from the one below: an odd layer repeats its last hash.       *)
(***************************************************************************)
NextLayer(layer) ==
    [i \in 1 .. (Len(layer) + 1) \div 2 |->
        <<layer[2 * i - 1], layer[IF 2 * i > Len(layer) THEN Len(layer) ELSE 2 * i]>>]

(* while len(layer) > 1: the layers from the leaves up; the last repeats.   *)
Above(layer) == IF Len(layer) = 1 THEN layer ELSE NextLayer(layer)
Layers(leaves) ==
    LET layer[n \in Nat] == IF n = 0 THEN [i \in DOMAIN leaves |-> <<leaves[i]>>]
                            ELSE Above(layer[n - 1])
    IN  layer

merkle_root(leaves) ==
    IF leaves = <<>> THEN <<>> ELSE Layers(leaves)[Len(leaves)][1]

build_attestation(raw) ==
    [entry_count |-> Len(raw),
     first_ulid |-> IF raw = <<>> THEN 0 ELSE Head(raw),
     last_ulid |-> IF raw = <<>> THEN 0 ELSE Last(raw),
     merkle_root |-> merkle_root(raw),
     leaf_hashes |-> raw]

-----------------------------------------------------------------------------
(* The projection.                                                         *)

(* An envelope is made; ts and ULID are of the same moment.                *)
Emit(e) ==
    /\ ts[e] = 0 /\ e - 1 \in {0} \cup {f \in Entries : ts[f] # 0}
    /\ ts' = [ts EXCEPT ![e] = clock]
    /\ UNCHANGED <<rows, clock, offset, pub, commits, started, faults, truncated>>

(* The projector inserts its row, at any time and in any order.            *)
InsertRow(e) ==
    /\ ts[e] # 0 /\ e \notin rows
    /\ rows' = rows \cup {e}
    /\ UNCHANGED <<ts, clock, offset, pub, commits, started, faults, truncated>>

(* A rebuild truncates the table, and the rows come again.                 *)
Truncate ==
    /\ faults < MaxPublishFaults /\ faults' = faults + 1
    /\ rows # {} /\ rows' = {}
    /\ truncated' = truncated \cup rows
    /\ UNCHANGED <<ts, clock, offset, pub, commits, started>>

Tick ==
    /\ (clock + 1) \div DayLength \in Days
    /\ clock' = clock + 1
    /\ UNCHANGED <<ts, rows, offset, pub, commits, started, faults, truncated>>

-----------------------------------------------------------------------------
(* The publisher.                                                          *)

(* Mutant of target: the day that is going on.                             *)
targetToday(date) == IF date = 0 THEN Today ELSE date

(* The day given with --date, or the host's yesterday.                     *)
target(date) == IF date = 0 THEN Yesterday ELSE date

Still == UNCHANGED <<ts, rows, clock, offset, truncated>>

(* A set of entries in the order of their ULIDs.                           *)
Rank(S, e) == Cardinality({f \in S : f <= e})
Ordered(S) == [i \in 1 .. Cardinality(S) |-> CHOOSE e \in S : Rank(S, e) = i]

(* Midnight of a date, UTC.                                                *)
start(date) == date * DayLength

(* Mutant of Within: the end of the day belongs to it too.                 *)
WithinClosed(moment, date) == start(date) <= moment /\ moment <= start(date) + DayLength

(* WHERE ts >= $1 AND ts < $2                                              *)
Within(moment, date) == start(date) <= moment /\ moment < start(date) + DayLength

(* The entries of a day that have a row.                                   *)
RowsOf(d) == Ordered({e \in rows : Within(ts[e], d)})

(* Mutant of fetch_day_envelopes: with a limit on the number of rows.      *)
fetch_day_limited(d) ==
    SubSeq(RowsOf(d), 1, IF Len(RowsOf(d)) > 2 THEN 2 ELSE Len(RowsOf(d)))

(* SELECT ... ORDER BY ulid: all of them.                                  *)
fetch_day_envelopes(d) == RowsOf(d)

Start(p) ==
    /\ pub[p].at = "idle" /\ started < MaxPublications
    /\ started' = started + 1
    /\ \E date \in Days \cup {0} :
          /\ target(date) \in Days
          /\ pub' = [pub EXCEPT ![p] = [Idle EXCEPT !.at = "fetch", !.asked = date,
                                                       !.date = target(date)]]
    /\ UNCHANGED <<commits, faults>> /\ Still

(* One SELECT; the document is built from its rows, and then the token of  *)
(* the GitHub App is fetched.                                              *)
Fetch(p) ==
    /\ pub[p].at = "fetch"
    /\ pub' = [pub EXCEPT ![p].at = "lookup", ![p].fetched = Len(commits),
                          ![p].doc = build_attestation(fetch_day_envelopes(pub[p].date))]
    /\ UNCHANGED <<commits, started, faults>> /\ Still

(* GitHub: the version of a day's file, 0 if there is none.                *)
FileOf(date) == LET of == {i \in DOMAIN commits : commits[i].date = date}
                IN  IF of = {} THEN 0 ELSE CHOOSE i \in of : \A j \in of : j <= i

(* GET: 200 with the sha, or 404 or 409 when there is no file.             *)
LookUp(p) ==
    /\ pub[p].at = "lookup"
    /\ pub' = [pub EXCEPT ![p].at = "put", ![p].sha = FileOf(pub[p].date)]
    /\ UNCHANGED <<commits, started, faults>> /\ Still

Ends(p) == pub' = [pub EXCEPT ![p] = Idle]

Commit(p) ==
    /\ commits' = Append(commits, [date |-> pub[p].date, doc |-> pub[p].doc,
                                   base |-> pub[p].sha, fetched |-> pub[p].fetched])
    /\ Ends(p)

(* PUT: GitHub accepts it if the sha is still the file's.  Whether the     *)
(* reply arrives, or the PUT is refused, changes the exit code only.       *)
Accepts(p) == pub[p].sha = FileOf(pub[p].date)

(* Mutant of Put: a refused PUT is sent again with the file's present sha. *)
PutAgain(p) ==
    /\ pub[p].at = "put"
    /\ Commit(p)
    /\ UNCHANGED <<started, faults>> /\ Still

Put(p) ==
    /\ pub[p].at = "put"
    /\ IF Accepts(p) THEN Commit(p) ELSE Ends(p) /\ UNCHANGED commits
    /\ UNCHANGED <<started, faults>> /\ Still

(* Any other call fails, or the process ends: exit code 1.                 *)
Fails(p) ==
    /\ faults < MaxPublishFaults /\ faults' = faults + 1
    /\ pub[p].at \in {"fetch", "lookup", "put"}
    /\ Ends(p)
    /\ UNCHANGED <<commits, started>> /\ Still

AttestNext ==
    \/ \E e \in Entries : Emit(e) \/ InsertRow(e)
    \/ Truncate
    \/ Tick
    \/ \E p \in Publishers :
          Start(p) \/ Fetch(p) \/ LookUp(p) \/ Put(p) \/ Fails(p)

AttestSpec == AttestInit /\ [][AttestNext]_attestVars

-----------------------------------------------------------------------------
(* Types; a publisher's sha names a version there has been.                *)
AttestTypeOK ==
    /\ ts \in [Entries -> 0 .. clock]
    /\ rows \subseteq {e \in Entries : ts[e] # 0}
    /\ clock \in Nat /\ offset \in Offsets
    /\ \A p \in Publishers :
          /\ pub[p].at \in {"idle", "fetch", "lookup", "put"}
          /\ pub[p].date \in Days \cup {0}
          /\ {pub[p].sha, pub[p].fetched} \subseteq 0 .. Len(commits)
    /\ \A i \in DOMAIN commits : commits[i].date \in Days
    /\ started <= MaxPublications /\ faults <= MaxPublishFaults

Leaves(i) == Range(commits[i].doc.leaf_hashes)

(***************************************************************************)
(* A published root and count fix the leaves and their order: no other     *)
(* list of as many leaves has that root, although an odd layer repeats its *)
(* last hash.  (Without the count one would: that hash written twice.)     *)
(***************************************************************************)
RootFixesLeaves ==
    \A i \in DOMAIN commits :
        LET doc == commits[i].doc
        IN  \A leaves \in [1 .. doc.entry_count -> Entries] :
                merkle_root(leaves) = doc.merkle_root => leaves = doc.leaf_hashes

(***************************************************************************)
(* A version replaces none that its publisher has not looked up: of two    *)
(* publications with the same base, one fails.                             *)
(***************************************************************************)
NothingReplacedUnseen ==
    \A i, j \in DOMAIN commits :
        i # j /\ commits[i].date = commits[j].date => commits[i].base # commits[j].base

(***************************************************************************)
(* Well typed, and the history of each file is a chain: a version has one  *)
(* successor at most.                                                      *)
(***************************************************************************)
AttestInv == AttestTypeOK /\ NothingReplacedUnseen

(***************************************************************************)
(* A later version of a file has the entries of the earlier one, unless    *)
(* its publisher had read the rows before the earlier one was committed    *)
(* (two publications overlapped: the second looks up the sha only after it *)
(* has read the rows), or a rebuild had truncated them.                    *)
(***************************************************************************)
EntriesLostByOverlapOnly ==
    \A j \in DOMAIN commits :
        LET i == commits[j].base
        IN  i # 0 /\ ~ (Leaves(i) \subseteq Leaves(j)) =>
                commits[j].fetched < i \/ Leaves(i) \cap truncated # {}

(***************************************************************************)
(* No entry is attested for two days, an entry made at midnight included:  *)
(* the intervals that the rows of two days are selected by do not meet.    *)
(***************************************************************************)
OneDayEach ==
    \A i, j \in DOMAIN commits :
        commits[i].date # commits[j].date => Leaves(i) \cap Leaves(j) = {}

(***************************************************************************)
(* Without --date, the day taken is over, so that no entry of it is still  *)
(* to be made: unless the host's clock is ahead of UTC, whose days the     *)
(* rows are selected by.                                                   *)
(***************************************************************************)
DefaultDayIsOver ==
    \A p \in Publishers :
        pub[p].at # "idle" /\ pub[p].asked = 0 => pub[p].date < Today \/ offset > 0

(***************************************************************************)
(* No entry is attested for two days, and the day taken without --date is  *)
(* over.  (A day given with --date may be going on, and so may the default *)
(* one of a host ahead of UTC.)                                            *)
(***************************************************************************)
DaysAreSettled == OneDayEach /\ DefaultDayIsOver
=============================================================================
