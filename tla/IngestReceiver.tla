--------------------------- MODULE IngestReceiver ---------------------------
(***************************************************************************)
(* The receiver of the ingest socket in core (core/app/ingest/hooks.py,    *)
(* filter.py, emit.py, worker.py): each connection is a coroutine of one   *)
(* event loop that reads a payload, appends to the session's manifest when *)
(* Claude Code sent it, asks OPA whether to keep it, publishes it and      *)
(* answers.  Every await is a point where the others go on; what is        *)
(* between two of them is one step.  A failing signature is none: the      *)
(* event is published unsigned (signer.py).                                *)
(***************************************************************************)
EXTENDS Naturals, Sequences, SequencesExt, FiniteSets

CONSTANTS
    Sessions,   \* Claude Code sessions
    HookBodies, \* what the hook scripts post
    Noise,      \* paths that ingest.rego drops
    MaxHooks,   \* bound: hooks that Claude Code and git fire
    MaxReceiverFaults \* bound: faults of the receiver, and midnights

HEADER == "header"   \* the first line of a manifest is no hook

ASSUME IngestReceiverAssumption ==
    /\ \A b \in HookBodies :
          /\ b.source \in {"claude", "git", "unparsable"}
          /\ b.source = "claude" => b.hook # HEADER
    /\ {MaxHooks, MaxReceiverFaults} \subseteq Nat

VARIABLES
    listening,  \* whether the socket is served
    conns,      \* the connections, in the order in which they were made
    manifests,  \* the lines of each session's file of each day
    day,        \* the UTC date
    published,  \* the bus: every event published, in order
    receiver_faults \* history

receiverVars == <<listening, conns, manifests, day, published, receiver_faults>>

(* no_opa: OPA fails.  bus: publishing fails.  reply: the bus stored the   *)
(* event and publish() raises.  disk: the manifest is not or not entirely  *)
(* written.  deaf: the socket cannot be bound.  stop: core stops.          *)
(* midnight: the manifests get new names.                                  *)
ReceiverFaultKinds == {"no_opa", "bus", "reply", "disk", "deaf", "stop", "midnight"}
Days == 1 .. 2

(* The payloads of the hook scripts; fswatch's are the records it posts.   *)
ClaudeBody(s, h, blank) ==
    [source |-> "claude", session_id |-> s, hook |-> h, blank |-> blank]
GitBody == [source |-> "git"]
ParseError == [source |-> "unparsable"]

ReceiverInit ==
    /\ listening \in BOOLEAN  \* start() may fail, and core go on without
    /\ conns = <<>>
    /\ manifests = [d \in Days |-> [s \in Sessions |-> <<>>]]
    /\ day = 1
    /\ published = <<>>
    /\ receiver_faults = [k \in ReceiverFaultKinds |->
                              IF k = "deaf" /\ ~ listening THEN 1 ELSE 0]

ReceiverFaults == FoldFunction(LAMBDA a, b : a + b, 0, receiver_faults)
Fault(k) ==
    /\ ReceiverFaults < MaxReceiverFaults
    /\ receiver_faults' = [receiver_faults EXCEPT ![k] = @ + 1]

(* A connection that goes on, and one that is over with an answer.         *)
To(c, at) == conns' = [conns EXCEPT ![c].at = at]
AnswerWith(c, status) == conns' = [conns EXCEPT ![c].at = "over", ![c].answer = status]

-----------------------------------------------------------------------------
(***************************************************************************)
(* append_manifest: the file is made, with a header, by a SessionStart,   *)
(* and without one by any other hook that comes first.  A file of no line, *)
(* which a failed write may leave, is taken for one that is not there.     *)
(***************************************************************************)
WithLine(file, body) ==
    (IF body.hook = "SessionStart" /\ file = <<>> THEN <<HEADER>> ELSE file)
        \o <<body.hook>>

append_manifest(body) ==
    IF body.source # "claude" \/ body.session_id \notin Sessions THEN UNCHANGED <<manifests, receiver_faults>>
    ELSE \/ /\ manifests' = [manifests EXCEPT ![day][body.session_id] = WithLine(@, body)]
            /\ UNCHANGED receiver_faults
         \/ Fault("disk") /\ UNCHANGED manifests
         \/ /\ Fault("disk")
            /\ manifests' = [manifests EXCEPT ![day][body.session_id] = Front(WithLine(@, body))]

(* A connection is accepted, read and handled up to the first await, OPA's *)
(* answer.  A payload that is no JSON is answered with 500.                *)
Connect(body) ==
    LET new == [body |-> body, at |-> "filter", answer |-> 0]
    IN  /\ listening
        /\ IF body = ParseError
           THEN /\ conns' = Append(conns, [new EXCEPT !.at = "over", !.answer = 500])
                /\ UNCHANGED <<manifests, receiver_faults>>
           ELSE conns' = Append(conns, new) /\ append_manifest(body)
        /\ UNCHANGED <<listening, day, published>>

(* ingest.rego on the events of this socket.                               *)
Dropped(body) ==
    \/ body.source = "fswatch" /\ body.path \in Noise
    \/ body.source = "claude" /\ body.hook = "Notification" /\ body.blank

(* Mutant of should_keep: a failing OPA drops the event.                   *)
should_keep_closed(c) ==
    /\ conns[c].at = "filter"
    /\ \/ /\ IF Dropped(conns[c].body) THEN AnswerWith(c, 200) ELSE To(c, "publish")
          /\ UNCHANGED receiver_faults
       \/ Fault("no_opa") /\ AnswerWith(c, 200)
    /\ UNCHANGED <<listening, manifests, day, published>>

should_keep(c) ==
    /\ conns[c].at = "filter"
    /\ \/ /\ IF Dropped(conns[c].body) THEN AnswerWith(c, 200) ELSE To(c, "publish")
          /\ UNCHANGED receiver_faults
       \/ Fault("no_opa") /\ To(c, "publish")
    /\ UNCHANGED <<listening, manifests, day, published>>

PublishEvent(c) ==
    /\ conns[c].at = "publish"
    /\ published' = Append(published, conns[c].body)
    /\ \/ AnswerWith(c, 200) /\ UNCHANGED receiver_faults
       \/ AnswerWith(c, 500) /\ Fault("reply")
    /\ UNCHANGED <<listening, manifests, day>>

(* Mutant of PublishFails: the failure is swallowed.                       *)
PublishFailsQuietly(c) ==
    /\ conns[c].at = "publish"
    /\ Fault("bus")
    /\ AnswerWith(c, 200)
    /\ UNCHANGED <<listening, manifests, day, published>>

PublishFails(c) ==
    /\ conns[c].at = "publish"
    /\ Fault("bus")
    /\ AnswerWith(c, 500)
    /\ UNCHANGED <<listening, manifests, day, published>>

emit_event(c) == should_keep(c) \/ PublishEvent(c) \/ PublishFails(c)

Midnight ==
    /\ day + 1 \in Days /\ day' = day + 1
    /\ Fault("midnight")
    /\ UNCHANGED <<listening, conns, manifests, published>>

(* core stops, or dies: the coroutines end where they are.                 *)
StopReceiver ==
    /\ Fault("stop")
    /\ listening' = FALSE
    /\ conns' = [c \in DOMAIN conns |-> [conns[c] EXCEPT !.at = "over"]]
    /\ UNCHANGED <<manifests, day, published>>

(* It starts again, and binds the socket.                             *)
StartReceiver ==
    /\ ~ listening
    /\ listening' = TRUE
    /\ UNCHANGED <<conns, manifests, day, published, receiver_faults>>

Hooked == Len(SelectSeq(conns, LAMBDA c : c.body.source # "fswatch"))

(* A hook script posts, and gives up after 3 s; the coroutine does not.    *)
FireHook ==
    /\ Hooked < MaxHooks
    /\ \E body \in HookBodies : Connect(body)

-----------------------------------------------------------------------------
InFlight == {c \in DOMAIN conns : conns[c].at # "over"}
PublishedOf(body) == Cardinality({i \in DOMAIN published : published[i] = body})

ReceiverTypeOK ==
    /\ {listening} \subseteq BOOLEAN
    /\ \A c \in DOMAIN conns :
          /\ conns[c].at \in {"filter", "publish", "over"}
          /\ conns[c].answer \in {0, 200, 500}
    /\ day \in Days
    /\ receiver_faults \in [ReceiverFaultKinds -> Nat]

IsHook(b, s, h) == b.source = "claude" /\ b.session_id = s /\ b.hook = h
LinesOf(s, h) ==
    UNION {{<<d, n>> : n \in {n \in DOMAIN manifests[d][s] : manifests[d][s][n] = h}} : d \in Days}

(***************************************************************************)
(* The manifest comes before the event: a session's published hooks have   *)
(* each their line, in the file of some day, unless a write failed.        *)
(***************************************************************************)
ManifestCoversEvents ==
    receiver_faults["disk"] = 0 =>
        \A s \in Sessions, h \in {b.hook : b \in {c \in HookBodies : c.source = "claude"}} :
            Cardinality({i \in DOMAIN published : IsHook(published[i], s, h)}) <=
            Cardinality(LinesOf(s, h))

(***************************************************************************)
(* 200 means that the event was published or that the policy drops it; an  *)
(* event is published once at most for each connection.                    *)
(***************************************************************************)
AnswersAreTrue ==
    \A c \in DOMAIN conns :
        LET body == conns[c].body
            Same == {d \in DOMAIN conns : conns[d].body = body}
        IN  /\ PublishedOf(body) <= Cardinality(Same)
            /\ PublishedOf(body) >=
                  Cardinality({d \in Same : conns[d].answer = 200 /\ ~ Dropped(body)})

(***************************************************************************)
(* The header of a manifest comes first or not at all, whichever of the    *)
(* session's hooks is handled first, and however often it starts.          *)
(***************************************************************************)
HeaderFirst ==
    \A d \in Days, s \in Sessions : \A i \in DOMAIN manifests[d][s] :
        manifests[d][s][i] = HEADER => i = 1

(***************************************************************************)
(* What the receiver's three records say of one another: manifest, bus and *)
(* answers, with coroutines that overlap and calls that fail.              *)
(***************************************************************************)
ReceiverInv == ReceiverTypeOK /\ HeaderFirst /\ ManifestCoversEvents /\ AnswersAreTrue
=============================================================================
