------------------------------ MODULE FsWatch ------------------------------
(***************************************************************************)
(* The file-system watcher (ingest/fswatch/src/main.rs): one thread takes  *)
(* the events of the notify crate from a channel, merges those of a path   *)
(* until the path has been quiet for the debounce window, and then posts   *)
(* one event for it to the ingest socket, waiting for the answer.  The     *)
(* disk, notify and the time are its environment.  The loop keeps up with  *)
(* its events: time passes while it waits for one, or for an answer.       *)
(***************************************************************************)
EXTENDS Naturals, Sequences, SequencesExt, FiniteSets, FiniteSetsExt

CONSTANTS
    Paths,      \* files under OC_FSWATCH_ROOT
    Existing,   \* the files that are there at the start
    Excluded,   \* those that a pattern of exclude.toml matches
    Debounce,   \* the window, in ticks
    PostTimeout, \* 3 s in the code, in ticks: the longest wait for an answer
    MaxChanges, \* bound: changes on the disk
    MaxBacklog, \* bound: events the loop has not received
    MaxWatchFaults \* bound: unnoticed changes, abandoned posts and restarts

ASSUME FsWatchAssumption ==
    /\ Existing \cup Excluded \subseteq Paths
    /\ {Debounce, PostTimeout} \subseteq Nat \ {0}
    /\ {MaxChanges, MaxBacklog, MaxWatchFaults} \subseteq Nat

VARIABLES
    disk,       \* the paths that exist
    channel,    \* what notify has sent and the loop has not received
    pending,    \* the pending entry of each path that has one
    rename_counter,
    ready,      \* the paths this iteration still has to flush
    posting,    \* the event being posted, as a sequence of at most one
    waited,     \* the ticks since recv_timeout() or post_body() was called
    flushes,    \* history: the posts since recv_timeout() last returned
    posted,     \* history: every event posted, in order, and its process
    changes,    \* history: how many changes there were
    changed,    \* history: how often each path changed
    renames,    \* history: the two paths of each rename, by process and id
    watch_faults \* history: unnoticed changes, abandoned posts, and restarts

diskVars == <<disk, channel, changes, changed>>
loopVars == <<pending, rename_counter, ready, posting, waited, flushes>>
watchVars == <<diskVars, loopVars, posted, renames, watch_faults>>

NoRename == 0
Kinds == {"created", "modified", "deleted"}
Event(what, paths) == [what |-> what, paths |-> paths]

WatchInit ==
    /\ disk = Existing
    /\ channel = <<>>
    /\ pending = [p \in {} |-> 0]
    /\ rename_counter = 0
    /\ ready = {}
    /\ posting = <<>>
    /\ waited = 0
    /\ flushes = 0
    /\ posted = <<>>
    /\ changes = 0
    /\ changed = [p \in Paths |-> 0]
    /\ renames = <<>>
    /\ watch_faults = [unnoticed |-> 0, slow |-> 0, restart |-> 0]

(* One more fault of a kind.                                               *)
WatchFault(kind) ==
    /\ watch_faults.unnoticed + watch_faults.slow + watch_faults.restart < MaxWatchFaults
    /\ watch_faults' = [watch_faults EXCEPT ![kind] = @ + 1]

-----------------------------------------------------------------------------
(* The disk, and the events that notify makes of its changes: a rename is  *)
(* one for each name and one for both.  A change made while the loop posts *)
(* waits in the channel, and is as one made right after.                   *)

Receiving == ready = {} /\ posting = <<>>

Change(paths, evs) ==
    /\ Receiving /\ Len(channel) < MaxBacklog
    /\ changes < MaxChanges /\ changes' = changes + 1
    /\ changed' = [p \in Paths |-> changed[p] + IF p \in paths THEN 1 ELSE 0]
    /\ channel' = channel \o evs
    /\ UNCHANGED <<loopVars, posted, renames, watch_faults>>

CreateFile(p) ==
    /\ p \notin disk
    /\ disk' = disk \cup {p}
    /\ Change({p}, <<Event("create", <<p>>)>>)

ModifyFile(p) ==
    /\ p \in disk
    /\ Change({p}, <<Event("modify", <<p>>)>>)
    /\ UNCHANGED disk

RemoveFile(p) ==
    /\ p \in disk
    /\ disk' = disk \ {p}
    /\ Change({p}, <<Event("remove", <<p>>)>>)

RenameFile(p, q) ==
    /\ p \in disk /\ q # p
    /\ disk' = (disk \ {p}) \cup {q}
    /\ Change({p, q}, <<Event("from", <<p>>), Event("to", <<q>>),
                        Event("both", <<p, q>>)>>)

(* The kernel's queue overflows, or a directory is not watched yet.        *)
UnnoticedChange(p) ==
    /\ WatchFault("unnoticed")
    /\ Receiving
    /\ changes < MaxChanges /\ changes' = changes + 1
    /\ disk' = IF p \in disk THEN disk \ {p} ELSE disk \cup {p}
    /\ changed' = [changed EXCEPT ![p] = @ + 1]
    /\ UNCHANGED <<channel, loopVars, posted, renames>>

-----------------------------------------------------------------------------
(* The loop.                                                               *)

(* Mutant of map_event: every event carries the id of the last rename.     *)
map_event_tagged(ev, id) ==
    LET kind == IF ev.what \in {"remove", "from"} THEN "deleted"
                ELSE IF ev.what = "modify" THEN "modified" ELSE "created"
    IN  [i \in DOMAIN ev.paths |-> [path |-> ev.paths[i], rename_pair |-> id,
            kind |-> IF ev.what = "both" /\ i = 1 THEN "deleted" ELSE kind]]

(***************************************************************************)
(* map_event: what an event says of each of its paths.  id is the rename   *)
(* counter after the event.                                                *)
(***************************************************************************)
map_event(ev, id) ==
    LET All(kind) == [i \in DOMAIN ev.paths |->
                         [path |-> ev.paths[i], kind |-> kind, rename_pair |-> NoRename]]
        Named(path, kind) == [path |-> path, kind |-> kind, rename_pair |-> id]
    IN  CASE ev.what \in {"create", "to"} -> All("created")
          [] ev.what \in {"remove", "from"} -> All("deleted")
          [] ev.what = "modify" -> All("modified")
          [] OTHER -> <<Named(ev.paths[1], "deleted"), Named(ev.paths[2], "created")>>

(* Mutant of Coalesce: a new kind starts a new count.                      *)
CoalesceAnew(old, m) ==
    [kind |-> m.kind,
     count |-> IF old.count > 0 /\ old.kind = m.kind THEN old.count + 1 ELSE 1,
     age |-> 0, rename_pair |-> IF m.rename_pair # NoRename THEN m.rename_pair ELSE old.rename_pair]

(* The pending entry of a path after one more change of it.                *)
Coalesce(old, m) ==
    [kind |-> m.kind,
     count |-> old.count + 1,
     age |-> 0,
     rename_pair |-> IF m.rename_pair # NoRename THEN m.rename_pair ELSE old.rename_pair]

(* The pending entries after an event, which names a path once.            *)
Note(pend, ms) ==
    LET named == {ms[i].path : i \in DOMAIN ms} \ Excluded
        Said(p) == CHOOSE m \in Range(ms) : m.path = p
        Old(p) == IF p \in DOMAIN pend THEN pend[p]
                  ELSE [count |-> 0, rename_pair |-> NoRename]
    IN  [p \in DOMAIN pend \cup named |->
            IF p \in named THEN Coalesce(Old(p), Said(p)) ELSE pend[p]]

(* now.duration_since(p.last) >= debounce                                  *)
Ready(pend) == {p \in DOMAIN pend : pend[p].age >= Debounce}

(* Mutant of ReceiveEvent: paths are flushed only when nothing happens.    *)
ReceiveEventOnly ==
    /\ Receiving /\ channel # <<>>
    /\ LET ev == Head(channel)
       IN  /\ rename_counter' = rename_counter + IF ev.what = "both" THEN 1 ELSE 0
           /\ pending' = Note(pending, map_event(ev, rename_counter'))
           /\ renames' = IF ev.what # "both" THEN renames
                         ELSE Append(renames, [run |-> watch_faults.restart,
                                               id |-> rename_counter',
                                               paths |-> Range(ev.paths)])
    /\ channel' = Tail(channel)
    /\ waited' = 0 /\ flushes' = 0
    /\ UNCHANGED <<disk, changes, changed, ready, posting, posted, watch_faults>>

(* recv_timeout() returns an event.                                        *)
ReceiveEvent ==
    /\ Receiving /\ channel # <<>>
    /\ LET ev == Head(channel)
       IN  /\ rename_counter' = rename_counter + IF ev.what = "both" THEN 1 ELSE 0
           /\ pending' = Note(pending, map_event(ev, rename_counter'))
           /\ renames' = IF ev.what # "both" THEN renames
                         ELSE Append(renames, [run |-> watch_faults.restart,
                                               id |-> rename_counter',
                                               paths |-> Range(ev.paths)])
    /\ channel' = Tail(channel)
    /\ ready' = Ready(pending')
    /\ waited' = 0 /\ flushes' = 0
    /\ UNCHANGED <<disk, changes, changed, posting, posted, watch_faults>>

(* recv_timeout() times out, or returns an error of the watcher.           *)
ReceiveNothing ==
    /\ Receiving /\ channel = <<>> /\ waited >= Debounce
    /\ ready' = Ready(pending)
    /\ waited' = 0 /\ flushes' = 0
    /\ UNCHANGED <<diskVars, pending, rename_counter, posting, posted, renames,
                   watch_faults>>

(* flush_one: the entry is removed, and its event posted.                  *)
flush_one(p) ==
    /\ p \in ready /\ posting = <<>>
    /\ ready' = ready \ {p}
    /\ pending' = [q \in DOMAIN pending \ {p} |-> pending[q]]
    /\ LET ev == [source |-> "fswatch", path |-> p, kind |-> pending[p].kind,
                  change_count |-> pending[p].count,
                  rename_pair |-> pending[p].rename_pair,
                  run |-> watch_faults.restart]
       IN  posting' = <<ev>> /\ posted' = Append(posted, ev)
    /\ flushes' = flushes + 1
    /\ UNCHANGED <<diskVars, rename_counter, waited, renames, watch_faults>>

(* post_body fails, is answered (it does not look at the answer), or times *)
(* out.                                                                    *)
PostOver ==
    /\ posting # <<>>
    /\ posting' = <<>>
    /\ waited' = 0
    /\ UNCHANGED <<diskVars, pending, rename_counter, ready, flushes, posted, renames>>

PostEnds == PostOver /\ UNCHANGED watch_faults
PostTimesOut == PostOver /\ waited = PostTimeout /\ WatchFault("slow")

(* Time passes, and no path hears of it but by its age.                    *)
Older ==
    /\ waited' = waited + 1
    /\ pending' = [p \in DOMAIN pending |-> [pending[p] EXCEPT !.age = @ + 1]]
    /\ UNCHANGED <<diskVars, rename_counter, ready, posting, flushes, posted,
                   renames, watch_faults>>

(* ... in recv_timeout(), or in post_body() until its read times out.      *)
Tick == Receiving /\ channel = <<>> /\ waited < Debounce /\ Older
PostWaits == posting # <<>> /\ waited < PostTimeout /\ Older

(* The process ends, and systemd starts another.                           *)
Restart ==
    /\ WatchFault("restart")
    /\ channel' = <<>>
    /\ pending' = [p \in {} |-> 0]
    /\ rename_counter' = 0
    /\ ready' = {} /\ posting' = <<>> /\ waited' = 0 /\ flushes' = 0
    /\ UNCHANGED <<disk, changes, changed, posted, renames>>

DiskStep ==
    \E p \in Paths :
        \/ CreateFile(p) \/ ModifyFile(p) \/ RemoveFile(p) \/ UnnoticedChange(p)
        \/ \E q \in Paths : RenameFile(p, q)

-----------------------------------------------------------------------------
(***************************************************************************)
(* The watcher has nothing left to do.                                     *)
(***************************************************************************)
WatchAtRest == channel = <<>> /\ DOMAIN pending = {} /\ posting = <<>>

PostsOf(p) == {k \in DOMAIN posted : posted[k].path = p}
Noticed == watch_faults.unnoticed + watch_faults.restart = 0

WatchTypeOK ==
    /\ disk \subseteq Paths
    /\ DOMAIN pending \subseteq Paths \ Excluded
    /\ \A p \in DOMAIN pending :
          pending[p] \in [kind : Kinds, count : Nat \ {0}, age : Nat, rename_pair : Nat]
    /\ ready \subseteq DOMAIN pending
    /\ Len(posting) <= 1
    /\ \A ev \in Range(posted) : ev.path \in Paths \ Excluded /\ ev.kind \in Kinds
    /\ waited \in 0 .. IF posting = <<>> THEN Debounce ELSE PostTimeout
    /\ flushes \in Nat

(***************************************************************************)
(* A path that has gone quiet is flushed within two windows, however busy  *)
(* the others keep the loop, and a post's timeout for each event the loop  *)
(* has posted in its last pass: it waits for one answer after the other.   *)
(***************************************************************************)
QuietIsFlushed ==
    Receiving => \A p \in DOMAIN pending :
        pending[p].age < 2 * Debounce + PostTimeout * flushes

(***************************************************************************)
(* A rename_pair names one rename of the process that sent it: the events  *)
(* that carry it are of its two paths.                                     *)
(***************************************************************************)
PairsAreOfOneRename ==
    \A ev \in Range(posted) : ev.rename_pair # NoRename =>
        \E r \in Range(renames) :
            /\ r.run = ev.run /\ r.id = ev.rename_pair
            /\ ev.path \in r.paths
            /\ \A s \in Range(renames) : s.run = r.run /\ s.id = r.id => s = r

(***************************************************************************)
(* When the watcher is at rest, the last event it posted of a path says    *)
(* whether the path exists, although only the last kind of a burst is      *)
(* kept: unless a change went unnoticed or the process ended.              *)
(***************************************************************************)
LastPostIsTrue ==
    WatchAtRest /\ Noticed =>
        \A p \in Paths \ Excluded :
            IF changed[p] = 0 THEN PostsOf(p) = {}
            ELSE \E k \in PostsOf(p) :
                    /\ \A l \in PostsOf(p) : l <= k
                    /\ (p \in disk) <=> (posted[k].kind # "deleted")

(***************************************************************************)
(* What debouncing keeps of a burst: the table is well typed, nothing at   *)
(* rest stays in it, no rename is mistaken for another, and the outcome is *)
(* not lost.                                                               *)
(***************************************************************************)
WatcherInv == WatchTypeOK /\ QuietIsFlushed /\ PairsAreOfOneRename /\ LastPostIsTrue

(* What the events of a history say were merged into those numbered in S.  *)
CountsOf(history, S) == MapThenSumSet(LAMBDA k : history[k].change_count, S)

(***************************************************************************)
(* Every event is counted, however they were merged: at rest the counts of *)
(* a path's posts add up to its changes, one more for each rename (which   *)
(* notify tells twice to either path).                                     *)
(***************************************************************************)
CountsAddUp ==
    WatchAtRest /\ Noticed =>
        \A p \in Paths \ Excluded :
            CountsOf(posted, PostsOf(p)) =
                changed[p] + Cardinality({i \in DOMAIN renames : p \in renames[i].paths})
=============================================================================
