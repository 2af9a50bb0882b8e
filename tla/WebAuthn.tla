------------------------------ MODULE WebAuthn ------------------------------
(***************************************************************************)
(* Enrolment and sign-in (core/app/auth): the handlers of /auth over an    *)
(* SQLite file, the tokens they issue, and, as environment, the            *)
(* authenticators that answer their challenges.  The handlers are `async   *)
(* def` over blocking code: each runs to its end in one step of the event  *)
(* loop.  The answers reach them in any order, more than once, or late.    *)
(***************************************************************************)
EXTENDS CoreRequest, Integers, FiniteSets, Sequences

CONSTANTS
    Users,
    NoUser,    \* a sign-in that names no user
    Devices,   \* authenticators
    CHALLENGE_TTL, \* CHALLENGE_TTL_SECONDS, in ticks
    ACCESS_TTL,    \* _ACCESS_TTL_SECONDS, in ticks
    DayLength, \* ticks of a UTC day
    MaxTicks,  \* bound: ticks of a behaviour
    MaxAnswers \* bound: answers that authenticators give

ASSUME WebAuthnAssumption ==
    /\ NoUser \notin Users
    /\ {CHALLENGE_TTL, ACCESS_TTL, MaxTicks, MaxAnswers} \subseteq Nat
    /\ DayLength \in Nat \ {0}

VARIABLES
    users,       \* SQLite: the users
    credentials, \* SQLite: webauthn_credentials
    challenges,  \* SQLite: pending_challenges
    process,     \* the process that runs: each has its own _SIGNING_KEY
    now,         \* the clock, in ticks
    ticks,       \* history: how often it has ticked
    devices,     \* each authenticator: its keys, and its counter if it counts
    responses,   \* what authenticators have answered
    replies,     \* what the handler of each request has returned
    completed    \* history: the ceremonies completed, in order

webAuthnVars ==
    <<users, credentials, challenges, process, now, ticks, devices, responses,
      replies, completed>>

(* The n-th key that a device has made.                                    *)
Credential(d, n) == [device |-> d, n |-> n]
NoReply == [status |-> 0]
Earlier == 0  \* a challenge of an earlier process
DayOf(t) == t \div DayLength

(***************************************************************************)
(* The database is new, or has a user with one key and a ceremony that an  *)
(* earlier process has begun and the device answered: a sign-in with that  *)
(* key, or an enrolment that was begun before there was a key.             *)
(***************************************************************************)
WebAuthnInit ==
    /\ process = 1
    /\ now \in 0 .. DayLength - 1
    /\ ticks = 0
    /\ replies = [r \in Requests |-> NoReply]
    /\ completed = <<>>
    /\ \E counts \in BOOLEAN :
          \/ /\ users = {} /\ credentials = {} /\ challenges = {} /\ responses = {}
             /\ devices = [d \in Devices |-> [keys |-> 0, counts |-> counts, counter |-> 0]]
          \/ \E user \in Users, d \in Devices, kind \in {"register", "login"} :
                LET n == IF kind = "login" THEN 1 ELSE 2
                    count == IF kind = "login" /\ counts THEN 1 ELSE 0
                IN  /\ users = {user}
                    /\ credentials = {[id |-> Credential(d, 1), user |-> user, count |-> 0]}
                    /\ challenges = {[id |-> Earlier, kind |-> kind, user |-> user,
                                      expires |-> now + CHALLENGE_TTL]}
                    /\ responses = {[kind |-> kind, id |-> Earlier, count |-> count,
                                     cred |-> Credential(d, n)]}
                    /\ devices = [e \in Devices |->
                          [keys |-> IF e = d THEN n ELSE 0, counts |-> counts,
                           counter |-> IF e = d THEN count ELSE 0]]

Reply(r, reply) == replies' = [replies EXCEPT ![r] = reply]
Outside == UNCHANGED <<process, now, ticks, devices, responses>>

-----------------------------------------------------------------------------
(* Challenges.                                                             *)

(* What is left after the sweep.  It compares `...T...` with the date and  *)
(* time of datetime('now'), which have a space there, as texts: of today's *)
(* challenges none is deleted, expired or not.                             *)
Swept == {c \in challenges : DayOf(c.expires) >= DayOf(now)}

(* The row a completion finds, unless it has expired.                      *)
Pending(kind, id) ==
    {c \in Swept : c.id = id /\ c.kind = kind /\ c.expires >= now}

(* Mutant of Consume: the row stays.                                       *)
ConsumeNot(c) == challenges' = Swept

Consume(c) == challenges' = Swept \ {c}

(* One transaction.  The challenge, which has the request's id, is given   *)
(* to the browser with the credentials that it excludes or allows.         *)
Begin(r, kind, user, listed) ==
    /\ challenges' = Swept \cup
          {[id |-> r, kind |-> kind, user |-> user, expires |-> now + CHALLENGE_TTL]}
    /\ Reply(r, [status |-> 200, kind |-> kind, id |-> r, listed |-> listed,
                 before |-> Len(completed)])  \* history
    /\ UNCHANGED <<credentials, completed>>

(* An exception: the transaction is rolled back, the sweep's is not.       *)
Refuse(r, status) ==
    /\ challenges' = Swept
    /\ Reply(r, [status |-> status])
    /\ UNCHANGED <<users, credentials, completed>>

-----------------------------------------------------------------------------
(* Tokens.                                                                 *)

mint_access_token(c, cred) ==
    [sub |-> cred.user, cid |-> cred.id, exp |-> now + ACCESS_TTL, key |-> process]

(* Mutant of verify_access_token: exp is not looked at.                    *)
verify_signature(token) == token.key = process

verify_access_token(token) == token.key = process /\ now <= token.exp

(* The token of a completed ceremony goes out with its reply.              *)
Complete(r, kind, c, cred) ==
    /\ Consume(c)
    /\ completed' = Append(completed, [kind |-> kind, challenge |-> c.id, cred |-> cred.id,
                                       count |-> cred.count, late |-> c.expires < now,
                                       at |-> now, by |-> process])
    /\ Reply(r, [status |-> 200, kind |-> "token", token |-> mint_access_token(c, cred)])

-----------------------------------------------------------------------------
(* The handlers.                                                           *)

RowsOf(user) == {c \in credentials : c.user = user}
Ids(rows) == {c.id : c \in rows}

RegisterBegin(r, user) ==
    /\ users' = users \cup {user}
    /\ Begin(r, "register", user, Ids(RowsOf(user)))
    /\ Outside

(* The credential is the primary key of its table.                         *)
Enrol(r, answer, c) ==
    LET cred == [id |-> answer.cred, user |-> c.user, count |-> answer.count]
    IN  /\ cred.id \notin Ids(credentials)
        /\ credentials' = credentials \cup {cred}
        /\ Complete(r, "register", c, cred)
        /\ UNCHANGED users

RegisterComplete(r, answer) ==
    /\ \/ \E c \in Pending("register", answer.id) : Enrol(r, answer, c)
       \/ /\ Pending("register", answer.id) = {} \/ answer.cred \in Ids(credentials)
          /\ Refuse(r, 400)
    /\ Outside

(* A user that does not exist, or none, leaves the choice to the browser.  *)
LoginBegin(r, user) ==
    /\ Begin(r, "login", user, Ids(RowsOf(user)))
    /\ Outside /\ UNCHANGED users

(* The library's rule for sign_count.                                      *)
CountRises(old, new) == new > old \/ (old = 0 /\ new = 0)

(* Mutant of SetCount: no UPDATE.                                          *)
SetCountNot(cred, count) == UNCHANGED credentials

SetCount(cred, count) ==
    credentials' = (credentials \ {cred}) \cup {[cred EXCEPT !.count = count]}

Verified(answer) ==
    {cred \in credentials : cred.id = answer.cred /\ CountRises(cred.count, answer.count)}

LoginComplete(r, answer) ==
    /\ \/ \E c \in Pending("login", answer.id), cred \in Verified(answer) :
             /\ SetCount(cred, answer.count)
             /\ Complete(r, "login", c, [cred EXCEPT !.count = answer.count])
             /\ UNCHANGED users
       \/ /\ Pending("login", answer.id) = {} \/ Verified(answer) = {}
          /\ Refuse(r, 401)
    /\ Outside

(* The user's credentials, for the bearer of a token: its verification and *)
(* the answer change nothing, and are one step.                            *)
Me(r, token) ==
    /\ Reply(r, IF verify_access_token(token)
                THEN [status |-> 200, kind |-> "me", token |-> token, at |-> now, by |-> process]
                ELSE [status |-> 401])
    /\ Outside /\ UNCHANGED <<users, credentials, challenges, completed>>

(* SQLite fails, in the sweep or after it.  Completions turn it into a     *)
(* refusal, the other handlers raise.                                      *)
HandlerFails(r, op) ==
    /\ challenges' \in {challenges, Swept}
    /\ Reply(r, [status |-> CASE op = "register/complete" -> 400
                              [] op = "login/complete" -> 401
                              [] OTHER -> 500])
    /\ Outside /\ UNCHANGED <<users, credentials, completed>>

-----------------------------------------------------------------------------
(* The environment.                                                        *)

(* A page asks its authenticator once for the options it has been given.   *)
MayAnswer(options) ==
    /\ Cardinality(responses) < MaxAnswers
    /\ options.id \notin {a.id : a \in responses}

(* An authenticator makes a key, unless the options exclude one of its own.*)
MakeKey(d, options) ==
    /\ MayAnswer(options) /\ options.kind = "register"
    /\ \A id \in options.listed : id.device # d
    /\ LET key == Credential(d, devices[d].keys + 1)
       IN  responses' = responses \cup
              {[kind |-> "register", id |-> options.id, cred |-> key,
                count |-> devices[d].counter]}
    /\ devices' = [devices EXCEPT ![d].keys = @ + 1]
    /\ UNCHANGED <<users, credentials, challenges, process, now, ticks, replies, completed>>

(* It signs with a key that the options allow; none listed: with any.      *)
SignChallenge(d, options) ==
    LET count == IF devices[d].counts THEN devices[d].counter + 1 ELSE 0
    IN  /\ MayAnswer(options) /\ options.kind = "login"
        /\ \E n \in 1 .. devices[d].keys :
              /\ options.listed = {} \/ Credential(d, n) \in options.listed
              /\ responses' = responses \cup
                    {[kind |-> "login", id |-> options.id, cred |-> Credential(d, n),
                      count |-> count]}
        /\ devices' = [devices EXCEPT ![d].counter = count]
        /\ UNCHANGED <<users, credentials, challenges, process, now, ticks, replies, completed>>

Tick ==
    /\ ticks < MaxTicks /\ ticks' = ticks + 1
    /\ now' = now + 1
    /\ UNCHANGED <<users, credentials, challenges, process, devices, responses, replies,
                   completed>>

-----------------------------------------------------------------------------
(***************************************************************************)
(* A challenge completes one ceremony, however often and in whatever order *)
(* its answers are sent.                                                   *)
(***************************************************************************)
ChallengeUsedOnce ==
    \A i, j \in DOMAIN completed :
        i # j => completed[i].challenge # completed[j].challenge

(* None completes after its expiry, although the sweep keeps the expired   *)
(* ones of the day.                                                        *)
ChallengeUsedInTime == \A i \in DOMAIN completed : ~ completed[i].late

(***************************************************************************)
(* The counts that are accepted from one credential rise, also when its    *)
(* answers arrive out of order (0 is that of a device without a counter).  *)
(***************************************************************************)
AcceptedCountsRise ==
    \A i, j \in DOMAIN completed :
        i < j /\ completed[i].cred = completed[j].cred =>
            CountRises(completed[i].count, completed[j].count)

(***************************************************************************)
(* The stored count is never ahead of the authenticator's: its next answer *)
(* would be refused.                                                       *)
(***************************************************************************)
CounterNeverAhead ==
    \A c \in credentials : c.count <= devices[c.id.device].counter

(* The ceremonies completed before a challenge was made, and when a key    *)
(* was enrolled: 0 for one that was there at the start.                    *)
BegunAt(id) == IF id = Earlier THEN -1 ELSE replies[id].before
EnrolledAt(id) ==
    LET ends == {j \in DOMAIN completed :
                   completed[j].kind = "register" /\ completed[j].cred = id}
    IN  IF ends = {} THEN 0 ELSE CHOOSE j \in ends : TRUE

(***************************************************************************)
(* A user has two keys of one device only when the second enrolment was    *)
(* begun before the first was complete: its list of credentials was old.   *)
(***************************************************************************)
OneKeyEach ==
    \A i \in DOMAIN completed, c, k \in credentials :
        /\ completed[i].kind = "register" /\ completed[i].cred = k.id
        /\ c # k /\ c.user = k.user /\ c.id.device = k.id.device
        => EnrolledAt(c.id) > BegunAt(completed[i].challenge)

Tokens == {t \in {replies[r] : r \in Requests} : t.status = 200 /\ t.kind = "token"}

(***************************************************************************)
(* A token is of the owner of the credential that signed, whoever the      *)
(* sign-in was begun for.                                                  *)
(***************************************************************************)
TokensNameOwners ==
    \A t \in Tokens :
        \E c \in credentials : c.id = t.token.cid /\ c.user = t.token.sub

(***************************************************************************)
(* /auth/me answers only the bearer of a token from a ceremony that this   *)
(* process has completed within the token's life.                          *)
(***************************************************************************)
SessionsAreRecent ==
    \A r \in Requests :
        replies[r].status = 200 /\ replies[r].kind = "me" =>
            \E i \in DOMAIN completed :
                /\ completed[i].cred = replies[r].token.cid
                /\ completed[i].by = replies[r].by
                /\ completed[i].at + ACCESS_TTL >= replies[r].at

(***************************************************************************)
(* The table does not keep what expired before the day of the last         *)
(* challenge that was made.                                                *)
(***************************************************************************)
PendingIsRecent ==
    \A c, d \in challenges :
        DayOf(c.expires) >= DayOf(d.expires - CHALLENGE_TTL)

(***************************************************************************)
(* A challenge completes one ceremony, in time, and is not kept for ever.  *)
(***************************************************************************)
CeremonyInv == ChallengeUsedOnce /\ ChallengeUsedInTime /\ PendingIsRecent

(***************************************************************************)
(* Counts tell the answers of a credential apart, without shutting its     *)
(* owner out, and an authenticator is enrolled once unless two enrolments  *)
(* overlap.                                                                *)
(***************************************************************************)
CredentialInv == AcceptedCountsRise /\ CounterNeverAhead /\ OneKeyEach

(***************************************************************************)
(* A session is of the owner of the key that earned it, of this process,   *)
(* and not expired.                                                        *)
(***************************************************************************)
SessionInv == TokensNameOwners /\ SessionsAreRecent
=============================================================================
