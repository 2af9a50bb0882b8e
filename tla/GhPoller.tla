------------------------------ MODULE GhPoller ------------------------------
(***************************************************************************)
(* The GitHub poller (core/app/ingest/poller.py, checkpoint.py): one task  *)
(* per repository and endpoint lists the newest entities, compares them    *)
(* with the `seen` map it keeps in Postgres, publishes an event for each   *)
(* difference and only then saves the map.  This is one such task; tasks   *)
(* share nothing but the cached token.                                     *)
(* The ingest filter keeps every event of the poller (`changed` is always  *)
(* true), also when OPA is unreachable.                                    *)
(***************************************************************************)
EXTENDS Naturals, Sequences, FiniteSets

CONSTANTS
    MaxEntities, \* bound: entities (pull requests, commits, ...)
    KeyRank,    \* the rank of each entity's key as a string
    Mutable,    \* whether the endpoint has an updated_field
    ByUpdate,   \* whether its list is sorted by that field
    PageSize,   \* per_page: 20 or 10 in the code
    SEEN_CAP,   \* 500 in the code
    Cadence,    \* times are in units of the first backoff, 30 s
    RateCap,    \* longest backoff after a 429: 600 s in the code
    ErrorCap,   \* longest backoff after any other failure: 300 s
    StallAfter, \* failing for this long is reported: 3600 s
    MaxChanges, \* bound: changes on GitHub
    MaxResets,  \* bound: checkpoints deleted by the operator
    MaxFaults,  \* bound: faults of each kind
    MaxIncidents \* bound: faults and deleted checkpoints together

(* The entities in the order of their creation.                            *)
Entities == 1 .. MaxEntities

(***************************************************************************)
(* http: GitHub answers 429.  error: any other exception of a step, which  *)
(* then has no effect.  reply: a publish or a save that had its effect     *)
(* raises.  crash: the process dies, or stop() cancels the task.           *)
(***************************************************************************)
FaultKinds == {"http", "error", "reply", "crash"}

ASSUME PollerAssumption ==
    /\ KeyRank \in [Entities -> Nat]
    /\ \A e, f \in Entities : KeyRank[e] = KeyRank[f] => e = f
    /\ {Mutable, ByUpdate} \subseteq BOOLEAN
    /\ {PageSize, SEEN_CAP, Cadence, RateCap, ErrorCap} \subseteq Nat \ {0}
    /\ {MaxEntities, StallAfter, MaxChanges, MaxResets, MaxIncidents} \subseteq Nat
    /\ MaxFaults \in [FaultKinds -> Nat]

VARIABLES
    listed_at,  \* GitHub: the time each entity is listed by; 0: it is not there
    updated_at, \* GitHub: when each was last changed
    clock,      \* GitHub: the time, which ticks at each change
    lookup,     \* Postgres: the checkpoint, and whether there is one
    pc,         \* where the task stands
    page,       \* the versions it fetched
    events,     \* the events it has still to publish
    next_cp,    \* the `seen` map it is going to save
    backoff,    \* its current backoff
    elapsed,    \* the time it has slept since last_success
    published,  \* the bus: every event published, in order
    baselined,  \* history: versions that a baseline took without an event
    alarmed,    \* history: whether _maybe_health() has emitted since then
    missed,     \* history: how often since then it tried and failed
    resets,     \* history: checkpoints deleted so far
    faults      \* history: faults so far, by kind

githubVars == <<listed_at, updated_at, clock>>
roundVars == <<page, events, next_cp>>
vars == <<githubVars, lookup, pc, roundVars, backoff, elapsed, published,
          baselined, alarmed, missed, resets, faults>>

(* off: no task.  fetch, load, emit, save: what it awaits next.            *)
Places == {"off", "fetch", "load", "emit", "save", "sleep"}

Version == [entity : Entities, at : Nat]
Item == [entity : Entities, at : Nat, listed : Nat]
Event == [entity : Entities, at : Nat, listed : Nat, is_new : BOOLEAN]
Seen == [Entities -> Nat]
NothingSeen == [e \in Entities |-> 0]

TypeOK ==
    /\ listed_at \in [Entities -> Nat]
    /\ updated_at \in [Entities -> Nat]
    /\ clock \in Nat
    /\ lookup \in [exists : BOOLEAN, seen : Seen]
    /\ pc \in Places
    /\ page \subseteq Item
    /\ events \subseteq Event
    /\ events # {} <=> pc = "emit"
    /\ next_cp \in Seen
    /\ backoff \in Nat /\ (backoff <= RateCap \/ backoff <= ErrorCap)
    /\ elapsed \in Nat
    /\ published \in Seq(Event)
    /\ baselined \subseteq Version
    /\ alarmed \in BOOLEAN
    /\ missed \in Nat
    /\ resets \in Nat
    /\ faults \in [FaultKinds -> Nat]

Init ==
    /\ listed_at = [e \in Entities |-> 0]
    /\ updated_at = [e \in Entities |-> 0]
    /\ clock = 0
    /\ lookup = [exists |-> FALSE, seen |-> NothingSeen]
    /\ pc = "off"
    /\ page = {}
    /\ events = {}
    /\ next_cp = NothingSeen
    /\ backoff = 0
    /\ elapsed = 0
    /\ published = <<>>
    /\ baselined = {}
    /\ alarmed = FALSE
    /\ missed = 0
    /\ resets = 0
    /\ faults = [k \in FaultKinds |-> 0]

Interruptions == faults["error"] + faults["reply"] + faults["crash"]
MayHappen == Interruptions + faults["http"] + resets < MaxIncidents

Fault(k) ==
    /\ MayHappen
    /\ faults[k] < MaxFaults[k]
    /\ faults' = [faults EXCEPT ![k] = @ + 1]

-----------------------------------------------------------------------------
(* GitHub.                                                                 *)

Ticks(e) ==
    /\ clock < MaxChanges
    /\ clock' = clock + 1
    /\ updated_at' = [updated_at EXCEPT ![e] = clock + 1]
    /\ UNCHANGED <<lookup, pc, roundVars, backoff, elapsed, published,
                   baselined, alarmed, missed, resets, faults>>

Exists(e) == listed_at[e] # 0

Create(e) ==
    /\ \A f \in Entities : Exists(f) <=> f < e
    /\ Ticks(e)
    /\ listed_at' = [listed_at EXCEPT ![e] = clock + 1]

Update(e) ==
    /\ Exists(e)
    /\ Mutable
    /\ Ticks(e)
    /\ listed_at' = IF ByUpdate THEN [listed_at EXCEPT ![e] = clock + 1]
                                ELSE listed_at

(* The first page: the entities listed by the latest times.                *)
FirstPage ==
    {e \in Entities :
        /\ Exists(e)
        /\ Cardinality({f \in Entities : listed_at[f] > listed_at[e]}) < PageSize}

(* The operator deletes the checkpoint (docs/RUNBOOK.md).                  *)
ResetCheckpoint ==
    /\ lookup.exists
    /\ MayHappen
    /\ resets < MaxResets
    /\ resets' = resets + 1
    /\ lookup' = [exists |-> FALSE, seen |-> NothingSeen]
    /\ UNCHANGED <<githubVars, pc, roundVars, backoff, elapsed, published,
                   baselined, alarmed, missed, faults>>

-----------------------------------------------------------------------------
(* diff() and _trim().                                                     *)

(* What `seen` holds for an entity changed at t: "1" without updated_field. *)
Mark(t) == IF Mutable THEN t ELSE 1

IsNew(v, seen) == seen[v.entity] = 0

IsNews(v, seen) ==
    IsNew(v, seen) \/ (Mutable /\ seen[v.entity] # v.at)

(* Keep the keys that are greatest as strings.                             *)
Trim(seen) ==
    [e \in Entities |->
        IF Cardinality({f \in Entities : seen[f] # 0 /\ KeyRank[f] > KeyRank[e]})
              < SEEN_CAP
        THEN seen[e] ELSE 0]

(* Mutant of EventsOf: every event is labelled new.                        *)
EventsAlwaysNew(seen) ==
    {[entity |-> v.entity, at |-> v.at, listed |-> v.listed, is_new |-> TRUE] :
        v \in {w \in page : IsNews(w, seen)}}

EventsOf(seen) ==
    {[entity |-> v.entity, at |-> v.at, listed |-> v.listed,
      is_new |-> IsNew(v, seen)] :
        v \in {w \in page : IsNews(w, seen)}}

InPage(e) == \E v \in page : v.entity = e
FetchedAt(e) == (CHOOSE v \in page : v.entity = e).at

SeenAfter(seen) ==
    Trim([e \in Entities |-> IF InPage(e) THEN Mark(FetchedAt(e)) ELSE seen[e]])

-----------------------------------------------------------------------------
(* _poll_forever().                                                        *)

Start ==
    /\ pc = "off"
    /\ pc' = "fetch"
    /\ UNCHANGED <<githubVars, lookup, roundVars, backoff, elapsed, published,
                   baselined, alarmed, missed, resets, faults>>

(* The round is over, one way or the other: _sleep().                      *)
Sleep ==
    /\ pc' = "sleep"
    /\ page' = {}
    /\ events' = {}
    /\ next_cp' = NothingSeen

(* installation_token() and _fetch().                                      *)
Fetch ==
    /\ pc = "fetch"
    /\ pc' = "load"
    /\ page' = {[entity |-> e, at |-> updated_at[e], listed |-> listed_at[e]] :
                    e \in FirstPage}
    /\ UNCHANGED <<githubVars, lookup, events, next_cp, backoff, elapsed,
                   published, baselined, alarmed, missed, resets, faults>>

(* load_checkpoint() returns and diff() compares; without a checkpoint the *)
(* page is the baseline.                                                   *)
Load ==
    /\ pc = "load"
    /\ next_cp' = SeenAfter(lookup.seen)
    /\ IF lookup.exists
       THEN /\ events' = EventsOf(lookup.seen)
            /\ UNCHANGED baselined
       ELSE /\ events' = {}
            /\ baselined' = baselined \cup
                               {[entity |-> v.entity, at |-> v.at] : v \in page}
    /\ pc' = IF events' = {} THEN "save" ELSE "emit"
    /\ UNCHANGED <<githubVars, lookup, page, backoff, elapsed, published,
                   alarmed, missed, resets, faults>>

(* The event whose turn it is: the list is worked off from its top.        *)
Foremost(ev) == ev \in events /\ \A d \in events : d.listed <= ev.listed

(* emit_event() returns.                                                   *)
Emit(ev) ==
    /\ pc = "emit"
    /\ Foremost(ev)
    /\ published' = Append(published, ev)
    /\ events' = events \ {ev}
    /\ pc' = IF events' = {} THEN "save" ELSE "emit"
    /\ UNCHANGED <<githubVars, lookup, page, next_cp, backoff, elapsed,
                   baselined, alarmed, missed, resets, faults>>

Saved == lookup' = [exists |-> TRUE, seen |-> next_cp]

(* save_checkpoint() returns.                                              *)
Save ==
    /\ pc = "save"
    /\ Saved
    /\ backoff' = 0
    /\ elapsed' = 0
    /\ alarmed' = FALSE
    /\ missed' = 0
    /\ Sleep
    /\ UNCHANGED <<githubVars, published, baselined, resets, faults>>

NextBackoff(cap) ==
    LET next == IF backoff = 0 THEN 1 ELSE 2 * backoff
    IN  IF next < cap THEN next ELSE cap

(* _maybe_health(): after an hour without success each failing round tries *)
(* to report it.  The report goes to the same bus and may fail as well     *)
(* (its exception is only logged).                                         *)
MaybeHealth ==
    \/ elapsed <= StallAfter /\ UNCHANGED <<alarmed, missed>>
    \/ elapsed > StallAfter /\ alarmed' = TRUE /\ UNCHANGED missed
    \/ elapsed > StallAfter /\ missed' = missed + 1 /\ UNCHANGED alarmed

(* Mutant of Fails: only HTTP errors are reported.                         *)
FailsSilently(k, cap) ==
    /\ Fault(k)
    /\ backoff' = NextBackoff(cap)
    /\ IF k = "http" THEN MaybeHealth ELSE UNCHANGED <<alarmed, missed>>
    /\ Sleep
    /\ UNCHANGED <<githubVars, elapsed, baselined, resets>>

(* A step raises: back off, and report it if it is time to.  The next      *)
(* round begins afresh.                                                    *)
Fails(k, cap) ==
    /\ Fault(k)
    /\ backoff' = NextBackoff(cap)
    /\ MaybeHealth
    /\ Sleep
    /\ UNCHANGED <<githubVars, elapsed, baselined, resets>>

RateLimited ==
    /\ pc = "fetch"
    /\ Fails("http", RateCap)
    /\ UNCHANGED <<lookup, published>>

(* Mutant of StepFails: the map is saved in spite of the failure.          *)
StepFailsSaved ==
    /\ pc = "emit"
    /\ Saved
    /\ Fails("error", ErrorCap)
    /\ UNCHANGED published

StepFails ==
    /\ pc \in {"fetch", "load", "emit", "save"}
    /\ Fails("error", ErrorCap)
    /\ UNCHANGED <<lookup, published>>

(* JetStream has stored the event, publish() raises.                       *)
EmitReplyLost(ev) ==
    /\ pc = "emit"
    /\ Foremost(ev)
    /\ published' = Append(published, ev)
    /\ Fails("reply", ErrorCap)
    /\ UNCHANGED lookup

SaveReplyLost ==
    /\ pc = "save"
    /\ Saved
    /\ Fails("reply", ErrorCap)
    /\ UNCHANGED published

(* Mutant of Wake: a failure ends the task.                                *)
WakeUnlessFailed ==
    /\ pc = "sleep"
    /\ backoff = 0
    /\ pc' = "fetch"
    /\ elapsed' = elapsed + Cadence
    /\ UNCHANGED <<githubVars, lookup, roundVars, backoff, published,
                   baselined, alarmed, missed, resets, faults>>

(* The sleep: the cadence after a success, else the backoff.               *)
Wake ==
    /\ pc = "sleep"
    /\ pc' = "fetch"
    /\ elapsed' = elapsed + (IF backoff = 0 THEN Cadence ELSE backoff)
    /\ UNCHANGED <<githubVars, lookup, roundVars, backoff, published,
                   baselined, alarmed, missed, resets, faults>>

Crash ==
    /\ pc # "off"
    /\ Fault("crash")
    /\ pc' = "off"
    /\ page' = {}
    /\ events' = {}
    /\ next_cp' = NothingSeen
    /\ backoff' = 0
    /\ elapsed' = 0
    /\ alarmed' = FALSE
    /\ missed' = 0
    /\ UNCHANGED <<githubVars, lookup, published, baselined, resets>>

-----------------------------------------------------------------------------
Next ==
    \/ \E e \in Entities : Create(e) \/ Update(e)
    \/ ResetCheckpoint
    \/ Start
    \/ Fetch
    \/ Load
    \/ \E ev \in events : Emit(ev)
    \/ Save
    \/ RateLimited
    \/ StepFails
    \/ \E ev \in events : EmitReplyLost(ev)
    \/ SaveReplyLost
    \/ Wake
    \/ Crash

Spec == Init /\ [][Next]_vars

(***************************************************************************)
(* The task takes its next step when it can, and core is started again.    *)
(* Nothing is assumed of GitHub, the operator or faults.                   *)
(***************************************************************************)
Fairness ==
    /\ WF_vars(Start)
    /\ WF_vars(Fetch)
    /\ WF_vars(Load)
    /\ WF_vars(\E ev \in events : Emit(ev))
    /\ WF_vars(Save)
    /\ WF_vars(Wake)

FairSpec == Spec /\ Fairness

-----------------------------------------------------------------------------
(* Safety.                                                                 *)

Reported(e, mark) ==
    \/ \E i \in DOMAIN published :
          published[i].entity = e /\ Mark(published[i].at) = mark
    \/ \E v \in baselined : v.entity = e /\ Mark(v.at) = mark

(***************************************************************************)
(* The checkpoint is never ahead of the bus: what it makes the poller pass *)
(* over for ever was published, or is part of a baseline.                  *)
(***************************************************************************)
RememberedIsReported ==
    \A e \in Entities :
        lookup.seen[e] # 0 => Reported(e, lookup.seen[e])

(***************************************************************************)
(* An event is repeated only after a failure or a restart, and at most     *)
(* once for each, as long as the map is not trimmed.                       *)
(***************************************************************************)
Copies(v) ==
    Cardinality({i \in DOMAIN published :
                    published[i].entity = v.entity /\ published[i].at = v.at})
RepeatsArePaidFor ==
    \A i \in DOMAIN published : Copies(published[i]) <= Interruptions + 1

(***************************************************************************)
(* An entity is announced as new again only after a failure, a restart or  *)
(* a reset.                                                                *)
(***************************************************************************)
NewOnce ==
    \A e \in Entities :
        Cardinality({i \in DOMAIN published :
                        published[i].entity = e /\ published[i].is_new})
           <= Interruptions + resets + 1

(***************************************************************************)
(* What the bus gets twice, as an event or as news, is bounded by the      *)
(* failures and restarts there have been.                                  *)
(***************************************************************************)
RepeatsBounded == RepeatsArePaidFor /\ NewOnce

(* It has slept for at most the hour and n sleeps.                         *)
Sleeps == {0, Cadence, RateCap, ErrorCap}
WithinSleeps(n) == \E sleep \in Sleeps : elapsed <= StallAfter + n * sleep

(***************************************************************************)
(* The report that an endpoint keeps failing reaches the bus not later     *)
(* than one sleep after the hour is over, and one more for each time the   *)
(* bus refused it.  This is time slept: the rounds themselves take time    *)
(* too, and _maybe_health() reports no later for it.                       *)
(***************************************************************************)
StallIsReported == alarmed \/ WithinSleeps(missed + 1)

-----------------------------------------------------------------------------
(* Why it is safe: the inductive invariant behind RememberedIsReported and *)
(* StallIsReported.                                                        *)

SeenInv ==
    /\ ~ lookup.exists => lookup.seen = NothingSeen
    /\ ~ Mutable => \A e \in Entities : {lookup.seen[e], next_cp[e]} \subseteq {0, 1}

(* What is about to be remembered is reported, or about to be.             *)
RoundInv ==
    pc \in {"emit", "save"} =>
        \A e \in Entities :
            next_cp[e] # 0 =>
                \/ Reported(e, next_cp[e])
                \/ \E ev \in events : ev.entity = e /\ Mark(ev.at) = next_cp[e]

StallInv ==
    /\ StallIsReported
    /\ pc = "sleep" => alarmed \/ WithinSleeps(missed)

PollerInv ==
    /\ TypeOK
    /\ RememberedIsReported
    /\ SeenInv
    /\ RoundInv
    /\ StallInv

-----------------------------------------------------------------------------
(* Liveness.                                                               *)

(***************************************************************************)
(* When GitHub comes to rest, the current version of every entity on the   *)
(* first page is published, unless a baseline took it.                     *)
(***************************************************************************)
LastChangesAreReported ==
    clock = MaxChanges ~>
        \A e \in FirstPage :
            LET v == [entity |-> e, at |-> updated_at[e]]
            IN  Copies(v) > 0 \/ v \in baselined

-----------------------------------------------------------------------------
(* What the documents say, and a run refutes.                              *)

(* docs/phases/phase-3.md:177, "emit one NATS event per new/changed        *)
(* entity".                                                                *)
OneEventPerChange ==
    \A i, j \in DOMAIN published :
        /\ published[i].entity = published[j].entity
        /\ published[i].at = published[j].at
        => i = j
=============================================================================
