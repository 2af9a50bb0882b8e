---------------------------- MODULE CoreRequests ----------------------------
(***************************************************************************)
(* Requests to core: the audit middleware around the handlers of /auth     *)
(* (core/app/auth/router.py), the clients that send them, and a process    *)
(* that ends and starts again over the same SQLite file.                   *)
(***************************************************************************)
EXTENDS WebAuthn, AuditMiddleware

VARIABLE asked  \* what each request asks for

requestVars == <<webAuthnVars, middlewareVars, asked>>

Nothing == [op |-> "none"]

RequestsInit ==
    /\ WebAuthnInit
    /\ MiddlewareInit
    /\ asked = [r \in Requests |-> Nothing]

(* What clients have in hand: the replies that have reached them.          *)
InHand(kind) ==
    {replies[r] : r \in {q \in Requests :
        at[q] = "answered" /\ replies[q].status = 200 /\ replies[q].kind = kind}}
Answers(kind) == {a \in responses : a.kind = kind}

Questions ==
    [op : {"health"}]
    \cup [op : {"register/begin"}, user : Users]
    \cup [op : {"register/complete"}, answer : Answers("register")]
    \cup [op : {"login/begin"}, user : Users \cup {NoUser}]
    \cup [op : {"login/complete"}, answer : Answers("login")]
    \cup [op : {"me"}, token : {t.token : t \in InHand("token")}]

(* Requests are numbered as they arrive.                                   *)
Next(r) == at[r] = "none" /\ \A q \in Requests : q < r => at[q] # "none"

Ask(r, question) ==
    /\ Next(r)
    /\ IF question.op = "health" THEN Pass(r) ELSE SendRequest(r)
    /\ asked' = [asked EXCEPT ![r] = question]
    /\ UNCHANGED webAuthnVars

Call(r) ==
    LET q == asked[r]
    IN  \/ q.op = "register/begin" /\ RegisterBegin(r, q.user)
        \/ q.op = "register/complete" /\ RegisterComplete(r, q.answer)
        \/ q.op = "login/begin" /\ LoginBegin(r, q.user)
        \/ q.op = "login/complete" /\ LoginComplete(r, q.answer)
        \/ q.op = "me" /\ Me(r, q.token)

(* The handler runs; the middleware goes on with its response.             *)
Handle(r) == Returns(r) /\ Call(r) /\ asked' = [asked EXCEPT ![r] = [op |-> @.op]]

(* /health: no envelope before it and none after.                          *)
Skip(r) ==
    /\ asked[r].op = "health" /\ Move(r, "handler", "answered")
    /\ UNCHANGED <<bus, failures, asked, webAuthnVars>>

(* SQLite fails: a completion is refused, other handlers raise.  The token *)
(* needs no SQLite, the list of credentials does.                          *)
HandleFails(r) ==
    LET q == asked[r]
    IN  /\ at[r] = "handler" /\ q.op \notin {"health", "none"}
        /\ q.op = "me" => verify_access_token(q.token)
        /\ HandlerFails(r, q.op)
        /\ IF replies'[r].status = 500
           THEN Raises(r)
           ELSE Move(r, "handler", "returned") /\ UNCHANGED bus /\ Fault("db", r)
        /\ asked' = [asked EXCEPT ![r] = [op |-> q.op]]

Respond(r) ==
    SendResponse(r, replies[r].status) /\ UNCHANGED <<asked, webAuthnVars>>

Devised ==
    /\ \E d \in Devices :
          \/ \E o \in InHand("register") : MakeKey(d, o)
          \/ \E o \in InHand("login") : SignChallenge(d, o)
    /\ UNCHANGED <<middlewareVars, asked>>

Restart ==
    /\ Crash
    /\ process' = process + 1
    /\ UNCHANGED <<users, credentials, challenges, now, ticks, devices, responses,
                   replies, completed, asked>>

RequestsNext ==
    \/ \E r \in Requests :
          \/ \E question \in Questions : Ask(r, question)
          \/ Handle(r) \/ Skip(r) \/ HandleFails(r) \/ Respond(r)
    \/ Devised
    \/ Tick /\ UNCHANGED <<middlewareVars, asked>>
    \/ Restart

RequestsSpec == RequestsInit /\ [][RequestsNext]_requestVars

-----------------------------------------------------------------------------
IsAudited(r) == asked[r].op \notin {"none", "health"}
AuditedRequests == {r \in Requests : IsAudited(r)}

(* Types; each credential has one row, and each challenge.                 *)
RequestsTypeOK ==
    /\ credentials \subseteq
          [id : [device : Devices, n : Nat], user : users, count : Nat]
    /\ Cardinality(Ids(credentials)) = Cardinality(credentials)
    /\ \A c \in challenges :
          /\ c.id \in Requests \cup {Earlier} /\ c.kind \in {"register", "login"}
          /\ c.user \in users \cup Users \cup {NoUser} /\ c.expires \in Nat
    /\ Cardinality({c.id : c \in challenges}) = Cardinality(challenges)
    /\ at \in [Requests -> Places]
    /\ \A r \in Requests : at[r] = "answered" /\ IsAudited(r) => replies[r].status # 0
    /\ Len(failures) <= MaxRequestFaults

(***************************************************************************)
(* No handler runs, and so nothing in SQLite changes, before the envelope  *)
(* of its request is on the bus, unless publishing it has failed.          *)
(***************************************************************************)
EffectsAreAnnounced == AnnouncedBeforeRun(AuditedRequests)

(***************************************************************************)
(* What the client is told is what the bus is told, once and after the     *)
(* request, except where a fault has hit; and only a handler that raises   *)
(* leaves a request without an answer, never the bus or Vault.             *)
(***************************************************************************)
AnswersAreRecorded == AnswersRecorded(AuditedRequests, LAMBDA r : replies[r].status)

(***************************************************************************)
(* The bus has the story of every request: announced before it ran, and    *)
(* its answer as the client got it.                                        *)
(***************************************************************************)
RequestsInv == RequestsTypeOK /\ EffectsAreAnnounced /\ AnswersAreRecorded
=============================================================================
