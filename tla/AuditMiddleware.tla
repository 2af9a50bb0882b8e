-------------------------- MODULE AuditMiddleware --------------------------
(***************************************************************************)
(* The middleware around every handler (core/app/audit/middleware.py): it  *)
(* publishes an envelope, runs the handler, publishes a second one and     *)
(* sends the response.  Signing and publishing are awaits: requests        *)
(* overlap.  Neither may stop a request.                                   *)
(***************************************************************************)
EXTENDS CoreRequest, Sequences, SequencesExt, FiniteSets

CONSTANTS
    MaxOpen,         \* bound: requests in work at a time
    MaxRequestFaults \* bound: faults

ASSUME AuditMiddlewareAssumption == {MaxOpen, MaxRequestFaults} \subseteq Nat

VARIABLES
    at,   \* where each request is
    bus,  \* the envelopes of each request on the bus, in order
    failures \* history: faults: of bus or Vault, db, crash; the requests hit

middlewareVars == <<at, bus, failures>>

Places == {"none", "handler", "returned", "answered", "raised", "cut"}
Open == {r \in Requests : at[r] \in {"handler", "returned"}}

MiddlewareInit ==
    /\ at = [r \in Requests |-> "none"]
    /\ bus = [r \in Requests |-> <<>>]
    /\ failures = <<>>

Move(r, from, to) == at[r] = from /\ at' = [at EXCEPT ![r] = to]
Fault(kind, r) ==
    /\ Len(failures) < MaxRequestFaults
    /\ failures' = Append(failures, [kind |-> kind, hit |-> r])

(* sign_envelope and _publish_safe: the envelope goes out, or it does not, *)
(* which is logged.  (One that goes out unsigned, when Vault fails, is     *)
(* refused by the appender: it is counted with those that do not.)         *)
Send(r, action, status) ==
    \/ /\ bus' = [bus EXCEPT ![r] = Append(@, [action |-> action, status |-> status])]
       /\ UNCHANGED failures
    \/ UNCHANGED bus /\ Fault("bus", r)

Arrives(r, place) == Cardinality(Open) < MaxOpen /\ Move(r, "none", place)

(* Mutant of SendRequest: the envelope is left to a task of its own that   *)
(* may not have run yet.                                                   *)
SendRequestLater(r) ==
    Arrives(r, "handler") /\ (Send(r, "request", 0) \/ UNCHANGED <<bus, failures>>)

(* A request arrives, and its envelope goes out.                           *)
SendRequest(r) == Arrives(r, "handler") /\ Send(r, "request", 0)

(* One to /health, /static or the icon is not audited.                     *)
Pass(r) == Arrives(r, "handler") /\ UNCHANGED <<bus, failures>>

(* call_next(): the handler returns, or raises out of the middleware.      *)
Returns(r) == Move(r, "handler", "returned") /\ UNCHANGED <<bus, failures>>
Raises(r) == Move(r, "handler", "raised") /\ UNCHANGED bus /\ Fault("db", r)

SendResponse(r, status) ==
    Move(r, "returned", "answered") /\ Send(r, "response", status)

(* The process ends with what it has in work.  (A response's envelope that *)
(* is out when the response is not yet is taken as one that is not out.)   *)
Crash ==
    /\ at' = [r \in Requests |-> IF r \in Open THEN "cut" ELSE at[r]]
    /\ UNCHANGED bus
    /\ Fault("crash", 0)

-----------------------------------------------------------------------------
Hit(kind, r) == [kind |-> kind, hit |-> r] \in Range(failures)

(* A request's envelope comes before all else, or a fault has hit.         *)
AnnouncedBeforeRun(audited) ==
    \A r \in audited :
        at[r] # "none" =>
            \/ bus[r] # <<>> /\ Head(bus[r]).action = "request"
            \/ Hit("bus", r)

(* One record of each answer, as given, after the request's; and an answer *)
(* unless the handler has raised.                                          *)
AnswersRecorded(audited, Status(_)) ==
    \A r \in audited :
        LET answers == {i \in DOMAIN bus[r] : bus[r][i].action = "response"}
        IN  /\ at[r] = "answered" => answers # {} \/ Hit("bus", r)
            /\ at[r] = "raised" => Hit("db", r) /\ answers = {}
            /\ \A i \in answers :
                  /\ bus[r][i].status = Status(r)
                  /\ i = Len(bus[r])
                  /\ i = 2 \/ Hit("bus", r)
=============================================================================
