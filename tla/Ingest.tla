------------------------------- MODULE Ingest -------------------------------
(***************************************************************************)
(* The watcher and the receiver: fswatch posts one event at a time over    *)
(* the socket that core serves, beside the hook scripts, and waits for the *)
(* answer for no longer than its timeout.                                  *)
(***************************************************************************)
EXTENDS FsWatch, IngestReceiver

CONSTANT MaxIncidents \* bound: changes on the disk, hooks and faults together

VARIABLES
    conn,   \* the connection of the post being waited for; 0: it was refused
    refused \* history: posts refused because nobody listens

ingestVars == <<watchVars, receiverVars, conn, refused>>

IngestInit == WatchInit /\ ReceiverInit /\ conn = 0 /\ refused = 0

-----------------------------------------------------------------------------
(* post_event: connect and send.                                           *)
Post(p) ==
    /\ flush_one(p)
    /\ \/ /\ Connect(posting'[1])
          /\ conn' = Len(conns')
          /\ UNCHANGED refused
       \/ /\ ~ listening
          /\ conn' = 0
          /\ refused' = refused + 1
          /\ UNCHANGED receiverVars

(* Mutant of Waiting: the socket is closed once the event is written.      *)
WaitingNever == FALSE

Waiting == posting # <<>> /\ conn # 0 /\ conns[conn].at # "over"
Alone(A) == A /\ UNCHANGED <<receiverVars, conn, refused>>

PostReturns == Alone(PostEnds) /\ ~ Waiting
PostLingers == Alone(PostWaits) /\ Waiting
PostAbandoned == Alone(PostTimesOut) /\ Waiting

Handling(c) == emit_event(c) /\ UNCHANGED <<watchVars, conn, refused>>

Outside ==
    \/ Alone(DiskStep)
    \/ /\ FireHook \/ Midnight \/ StopReceiver \/ StartReceiver
       /\ UNCHANGED <<watchVars, conn, refused>>
    \/ Alone(Restart)
    \/ Alone(Tick)

IngestNext ==
    \/ Outside
    \/ Alone(ReceiveEvent)
    \/ Alone(ReceiveNothing)
    \/ \E p \in Paths : Post(p)
    \/ PostReturns
    \/ PostLingers
    \/ PostAbandoned
    \/ \E c \in DOMAIN conns : Handling(c)

Incidents ==
    changes + Hooked + ReceiverFaults
        + watch_faults.unnoticed + watch_faults.slow + watch_faults.restart
BoundedNext == IngestNext /\ Incidents' <= MaxIncidents

IngestSpec == IngestInit /\ [][BoundedNext]_ingestVars

(***************************************************************************)
(* The loop of fswatch and the coroutines of core go on, and so does time. *)
(***************************************************************************)
IngestFairness ==
    /\ WF_ingestVars(Alone(ReceiveEvent))
    /\ WF_ingestVars(Alone(ReceiveNothing))
    /\ WF_ingestVars(Alone(Tick))
    /\ WF_ingestVars(\E p \in Paths : Post(p))
    /\ WF_ingestVars(PostReturns)
    /\ \A c \in 1 .. MaxChanges + MaxChanges + MaxHooks :
          WF_ingestVars(c \in DOMAIN conns /\ Handling(c))

FairIngestSpec == IngestSpec /\ IngestFairness

-----------------------------------------------------------------------------
EventsOf(p) ==
    {i \in DOMAIN published : published[i].source = "fswatch" /\ published[i].path = p}

(***************************************************************************)
(* The bus has the events of a path in the order of its posts, although    *)
(* each is handled by a coroutine of its own: fswatch waits for one before *)
(* it posts the next, unless it stops waiting or is restarted.             *)
(***************************************************************************)
EventsInOrder ==
    watch_faults.slow + watch_faults.restart = 0 =>
        \A p \in Paths : \A i, j \in EventsOf(p) :
            i < j => \E k, l \in PostsOf(p) :
                k < l /\ posted[k] = published[i] /\ posted[l] = published[j]

(***************************************************************************)
(* End to end, without faults that lose or overtake an event: a path that  *)
(* changed and then comes to rest gets an event, and the last one says     *)
(* whether it exists.  A signature that could not be made is no such fault *)
(* (the appender refuses the event later), nor is an OPA that fails.       *)
(***************************************************************************)
Undisturbed ==
    /\ Noticed /\ watch_faults.slow = 0 /\ refused = 0
    /\ receiver_faults["bus"] + receiver_faults["stop"] = 0

LastEventIsTrue ==
    <>[](Undisturbed =>
            \A p \in Paths \ (Excluded \cup Noise) :
                changed[p] > 0 =>
                    \E i \in EventsOf(p) :
                        /\ \A j \in EventsOf(p) : j <= i
                        /\ (p \in disk) <=> (published[i].kind # "deleted"))
=============================================================================
