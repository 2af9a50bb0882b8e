------------------------- MODULE CoreRequestsProofs -------------------------
(***************************************************************************)
(* Proofs about CoreRequests: enrolment, sign-in and sessions, and their   *)
(* record on the bus, for any number of users, authenticators, requests,   *)
(* answers, days and faults.                                               *)
(***************************************************************************)
EXTENDS CoreRequests, FiniteSetTheorems, SequenceTheorems, TLAPS

CredIds == [device : Devices, n : Nat]
ChallengeIds == Requests \cup {Earlier}
Ceremonies == {"register", "login"}

(* The types; a credential, and a challenge, has one row.                  *)
StoreInv ==
    /\ users \subseteq Users
    /\ credentials \subseteq [id : CredIds, user : users, count : Nat]
    /\ challenges \subseteq
          [id : ChallengeIds, kind : Ceremonies, user : Users \cup {NoUser}, expires : Nat]
    /\ IsFiniteSet(credentials) /\ IsFiniteSet(challenges)
    /\ \A c, d \in credentials : c.id = d.id => c = d
    /\ \A c, d \in challenges : c.id = d.id => c = d
    /\ \A c \in challenges : c.kind = "register" => c.user \in users

WorldInv ==
    /\ process \in Nat /\ now \in Nat
    /\ devices \in [Devices -> [keys : Nat, counts : BOOLEAN, counter : Nat]]
    /\ responses \subseteq [kind : Ceremonies, id : ChallengeIds, count : Nat, cred : CredIds]
    /\ DOMAIN replies = Requests /\ DOMAIN asked = Requests
    /\ at \in [Requests -> Places]

Ceremony == [kind : Ceremonies, challenge : ChallengeIds, cred : CredIds, count : Nat,
             late : BOOLEAN, at : Nat, by : Nat]

(* The challenges of requests whose handler has run.                       *)
Ran(id) == id = Earlier \/ at[id] \notin {"none", "handler"}

ChallengeInv ==
    /\ completed \in Seq(Ceremony)
    /\ \A c \in challenges :
          /\ Ran(c.id) /\ c.expires <= now + CHALLENGE_TTL
          /\ \A i \in DOMAIN completed : completed[i].challenge # c.id
    /\ \A i \in DOMAIN completed : Ran(completed[i].challenge)
    /\ CeremonyInv

CounterInv ==
    /\ \A d \in Devices : ~ devices[d].counts => devices[d].counter = 0
    /\ \A a \in responses : a.count <= devices[a.cred.device].counter
    /\ \A i \in DOMAIN completed :
          \E c \in credentials : c.id = completed[i].cred /\ completed[i].count <= c.count
    /\ AcceptedCountsRise /\ CounterNeverAhead

(* What a request has been answered with: options of a kind.               *)
IsOptions(r, kind) == replies[r].status = 200 /\ replies[r].kind = kind

(* A user's credentials that a ceremony's options do not list are newer.   *)
Listed(c) ==
    \A k \in credentials :
        k.user = c.user /\ k.id \notin replies[c.id].listed =>
            EnrolledAt(k.id) > replies[c.id].before

EnrolledOnce ==
    \A i, j \in DOMAIN completed :
        /\ completed[i].kind = "register" /\ completed[j].kind = "register"
        /\ completed[i].cred = completed[j].cred
        => i = j

KeyInv ==
    /\ EnrolledOnce
    /\ \A r \in Requests, kind \in Ceremonies :
          IsOptions(r, kind) => /\ Ran(r) /\ replies[r].id = r
                                /\ replies[r].before \in 0 .. Len(completed)
    /\ \A a \in responses :
          a.kind = "register" /\ a.id # Earlier =>
              /\ IsOptions(a.id, "register")
              /\ \A id \in replies[a.id].listed : id.device # a.cred.device
    /\ \A c \in challenges :
          c.kind = "register" /\ c.id # Earlier => IsOptions(c.id, "register") /\ Listed(c)
    /\ \A i \in DOMAIN completed :
          completed[i].kind = "register" /\ completed[i].challenge # Earlier =>
              IsOptions(completed[i].challenge, "register")
    /\ OneKeyEach

(* A token that somebody may have.                                         *)
TokenInv(token) ==
    /\ token.exp \in Int
    /\ \E c \in credentials : c.id = token.cid /\ c.user = token.sub
    /\ \E i \in DOMAIN completed :
          /\ completed[i].cred = token.cid /\ completed[i].by = token.key
          /\ completed[i].at + ACCESS_TTL = token.exp

AskedInv ==
    \A r \in Requests :
        at[r] = "handler" =>
            /\ asked[r].op = "register/begin" => asked[r].user \in Users
            /\ asked[r].op = "login/begin" => asked[r].user \in Users \cup {NoUser}
            /\ asked[r].op = "register/complete" => asked[r].answer \in Answers("register")
            /\ asked[r].op = "login/complete" => asked[r].answer \in Answers("login")
            /\ asked[r].op = "me" => TokenInv(asked[r].token)

TokensInv ==
    /\ \A r \in Requests : IsOptions(r, "token") => TokenInv(replies[r].token)
    /\ SessionsAreRecent

RequestRecord == [action |-> "request", status |-> 0]
ResponseRecord(r) == [action |-> "response", status |-> replies[r].status]

Recorded(r) ==
    /\ replies[r].status \in Nat
    /\ at[r] = "none" => asked[r] = Nothing /\ bus[r] = <<>>
    /\ at[r] \in {"returned", "answered"} /\ IsAudited(r) => replies[r].status # 0
    /\ at[r] = "raised" => Hit("db", r)
    /\ IsAudited(r) =>
          \/ bus[r] = <<RequestRecord>> /\ (at[r] = "answered" => Hit("bus", r))
          \/ bus[r] = <<>> /\ Hit("bus", r)
          \/ /\ at[r] = "answered"
             /\ \/ bus[r] = <<RequestRecord, ResponseRecord(r)>>
                \/ bus[r] = <<ResponseRecord(r)>> /\ Hit("bus", r)

RecordInv ==
    /\ bus \in [Requests -> Seq([action : {"request", "response"}, status : Nat])]
    /\ failures \in Seq([kind : {"bus", "db", "crash"}, hit : Requests \cup {0}])
    /\ Len(failures) <= MaxRequestFaults
    /\ \A r \in Requests : Recorded(r)

RequestsProofInv ==
    /\ WorldInv /\ StoreInv /\ ChallengeInv /\ CounterInv /\ KeyInv
    /\ AskedInv /\ TokensInv /\ RecordInv

-----------------------------------------------------------------------------
(* What the run of this model checks follows.                              *)

(* There are as many ids as records, when ids are distinct.                *)
LEMMA SameCardinality ==
  ASSUME NEW S, IsFiniteSet(S), \A c, d \in S : c.id = d.id => c = d
  PROVE  Cardinality({c.id : c \in S}) = Cardinality(S)
  <1> DEFINE T == {c.id : c \in S}
             f == [c \in S |-> c.id]
  <1>1. f \in Bijection(S, T)
    BY DEF Bijection, Injection, Surjection, IsInjective
  <1>2. ExistsBijection(S, T)
    BY <1>1 DEF ExistsBijection
  <1> QED BY <1>2, FS_Bijection

(* The invariant contains what the runs check.                             *)
LEMMA RequestsMeaning ==
  ASSUME RequestsProofInv
  PROVE  CeremonyInv /\ CredentialInv /\ SessionInv /\ RequestsInv
  <1> USE DEF RequestsProofInv
  <1>1. CeremonyInv
    BY DEF ChallengeInv
  <1>2. CredentialInv
    BY DEF CounterInv, KeyInv, CredentialInv
  <1>3. SessionInv
    <2>1. TokensNameOwners
      BY DEF TokensInv, TokensNameOwners, Tokens, IsOptions, TokenInv
    <2> QED BY <2>1 DEF TokensInv, SessionInv
  <1>4. RequestsTypeOK
    <2>1. Cardinality(Ids(credentials)) = Cardinality(credentials)
      BY SameCardinality DEF StoreInv, Ids
    <2>2. Cardinality({c.id : c \in challenges}) = Cardinality(challenges)
      BY SameCardinality DEF StoreInv
    <2> QED BY <2>1, <2>2 DEF RequestsTypeOK, StoreInv, WorldInv, RecordInv, Recorded, CredIds, ChallengeIds,
               Ceremonies
  <1>5. ASSUME NEW r \in AuditedRequests
        PROVE  /\ at[r] \in Places /\ r \in Requests /\ replies[r].status \in Nat
               /\ at[r] = "raised" => Hit("db", r)
               /\ \/ bus[r] = <<RequestRecord>> /\ (at[r] = "answered" => Hit("bus", r))
                  \/ bus[r] = <<>> /\ Hit("bus", r)
                  \/ at[r] = "answered" /\ bus[r] = <<RequestRecord, ResponseRecord(r)>>
                  \/ at[r] = "answered" /\ bus[r] = <<ResponseRecord(r)>> /\ Hit("bus", r)
    BY DEF RecordInv, Recorded, WorldInv, AuditedRequests
  <1>6. EffectsAreAnnounced
    <2> SUFFICES ASSUME NEW r \in AuditedRequests
                 PROVE  (bus[r] # <<>> /\ Head(bus[r]).action = "request") \/ Hit("bus", r)
      BY DEF EffectsAreAnnounced, AnnouncedBeforeRun
    <2>1. /\ Head(<<RequestRecord>>) = RequestRecord /\ <<RequestRecord>> # <<>>
          /\ Head(<<RequestRecord, ResponseRecord(r)>>) = RequestRecord
          /\ <<RequestRecord, ResponseRecord(r)>> # <<>>
      OBVIOUS
    <2>2. RequestRecord.action = "request"
      BY DEF RequestRecord
    <2> QED BY <1>5, <2>1, <2>2
  <1>7. AnswersAreRecorded
    <2> SUFFICES ASSUME NEW r \in AuditedRequests
                 PROVE  LET answers == {i \in DOMAIN bus[r] : bus[r][i].action = "response"}
                        IN  /\ at[r] = "answered" => answers # {} \/ Hit("bus", r)
                            /\ at[r] = "raised" => Hit("db", r) /\ answers = {}
                            /\ \A i \in answers :
                                  /\ bus[r][i].status = replies[r].status
                                  /\ i = Len(bus[r])
                                  /\ i = 2 \/ Hit("bus", r)
      BY DEF AnswersAreRecorded, AnswersRecorded
    <2>1. CASE bus[r] = <<RequestRecord>> /\ (at[r] = "answered" => Hit("bus", r))
      BY <1>5, <2>1 DEF RequestRecord
    <2>2. CASE bus[r] = <<>> /\ Hit("bus", r)
      BY <1>5, <2>2
    <2>3. CASE at[r] = "answered" /\ bus[r] = <<RequestRecord, ResponseRecord(r)>>
      BY <2>3 DEF RequestRecord, ResponseRecord
    <2>4. CASE at[r] = "answered" /\ bus[r] = <<ResponseRecord(r)>> /\ Hit("bus", r)
      BY <2>4 DEF ResponseRecord
    <2> QED BY <1>5, <2>1, <2>2, <2>3, <2>4
  <1> QED BY <1>1, <1>2, <1>3, <1>4, <1>6, <1>7 DEF RequestsInv

-----------------------------------------------------------------------------
(* The initial states.                                                     *)

(* What is assumed of the constants, in one place.                         *)
LEMMA ConstantFacts ==
  /\ Requests \subseteq Nat \ {0} /\ Earlier = 0 /\ Earlier \notin Requests
  /\ CHALLENGE_TTL \in Nat /\ ACCESS_TTL \in Nat /\ DayLength \in Nat \ {0}
  /\ MaxRequestFaults \in Nat /\ NoUser \notin Users
  BY RequestsAssumption, WebAuthnAssumption, AuditMiddlewareAssumption DEF Earlier

(* A later time is not of an earlier day.                                  *)
LEMMA DayMonotonic ==
  ASSUME NEW a \in Int, NEW b \in Int, a <= b
  PROVE  DayOf(a) <= DayOf(b) /\ DayOf(a) \in Int /\ DayOf(b) \in Int
  <1> DEFINE d == DayLength
             q == a \div d
             r == b \div d
  <1>1. q \in Int /\ r \in Int /\ d * q <= a /\ b < d * (r + 1) /\ d \in Nat \ {0}
    BY ConstantFacts
  <1> HIDE DEF q, r, d
  <1>2. d * q < d * (r + 1)
    BY <1>1
  <1>3. q < r + 1
    BY <1>1, <1>2
  <1>4. q <= r
    BY <1>1, <1>3
  <1> QED BY <1>1, <1>4 DEF DayOf, d, q, r

(* The invariant holds initially.                                          *)
LEMMA RequestsInitial == RequestsInit => RequestsProofInv
  <1> SUFFICES ASSUME RequestsInit PROVE RequestsProofInv
    OBVIOUS
  <1> USE ConstantFacts DEF RequestsInit, WebAuthnInit, MiddlewareInit
  <1>0. /\ now \in Nat /\ completed = <<>> /\ process = 1
        /\ \A r \in Requests : replies[r].status = 0
    BY DEF NoReply
  <1>1. \/ credentials = {} /\ challenges = {} /\ responses = {} /\ users = {}
        \/ \E user \in Users, d \in Devices, kind \in Ceremonies, count \in {0, 1} :
              /\ users = {user}
              /\ credentials = {[id |-> Credential(d, 1), user |-> user, count |-> 0]}
              /\ challenges = {[id |-> Earlier, kind |-> kind, user |-> user,
                                expires |-> now + CHALLENGE_TTL]}
              /\ \E n \in {1, 2} : responses = {[kind |-> kind, id |-> Earlier, count |-> count,
                                                 cred |-> Credential(d, n)]}
              /\ devices[d].counter = count
    BY DEF Ceremonies
  <1>2. /\ devices \in [Devices -> [keys : Nat, counts : BOOLEAN, counter : Nat]]
        /\ \A d \in Devices : ~ devices[d].counts => devices[d].counter = 0
    OBVIOUS
  <1>3. WorldInv
    <2>1. responses \subseteq [kind : Ceremonies, id : ChallengeIds, count : Nat, cred : CredIds]
      BY <1>1 DEF CredIds, ChallengeIds, Ceremonies, Credential
    <2> QED BY <1>0, <1>2, <2>1 DEF WorldInv, Places
  <1>4. StoreInv
    <2>1. IsFiniteSet(credentials) /\ IsFiniteSet(challenges)
      <3>1. \A x : IsFiniteSet({x})
        BY FS_Singleton
      <3>2. CASE credentials = {} /\ challenges = {}
        BY <3>2, FS_EmptySet
      <3>3. ASSUME NEW user, NEW d, NEW kind,
                   credentials = {[id |-> Credential(d, 1), user |-> user, count |-> 0]},
                   challenges = {[id |-> Earlier, kind |-> kind, user |-> user,
                                  expires |-> now + CHALLENGE_TTL]}
            PROVE  IsFiniteSet(credentials) /\ IsFiniteSet(challenges)
        BY <3>1, <3>3, Zenon
      <3> HIDE DEF RequestsInit, WebAuthnInit, MiddlewareInit
      <3>4. CASE \E user \in Users, d \in Devices, kind \in Ceremonies :
                   /\ credentials = {[id |-> Credential(d, 1), user |-> user, count |-> 0]}
                   /\ challenges = {[id |-> Earlier, kind |-> kind, user |-> user,
                                     expires |-> now + CHALLENGE_TTL]}
        <4>1. PICK user, d, kind :
                 /\ credentials = {[id |-> Credential(d, 1), user |-> user, count |-> 0]}
                 /\ challenges = {[id |-> Earlier, kind |-> kind, user |-> user,
                                   expires |-> now + CHALLENGE_TTL]}
          BY <3>4, Zenon
        <4> QED BY <3>3, <4>1, Zenon
      <3>5. \/ credentials = {} /\ challenges = {}
            \/ \E user \in Users, d \in Devices, kind \in Ceremonies :
                  /\ credentials = {[id |-> Credential(d, 1), user |-> user, count |-> 0]}
                  /\ challenges = {[id |-> Earlier, kind |-> kind, user |-> user,
                                    expires |-> now + CHALLENGE_TTL]}
        BY <1>1, Zenon
      <3> QED BY <3>2, <3>4, <3>5, Zenon
    <2>2. /\ users \subseteq Users
          /\ credentials \subseteq [id : CredIds, user : users, count : Nat]
      BY <1>1 DEF CredIds, Credential
    <2>3. challenges \subseteq
             [id : ChallengeIds, kind : Ceremonies, user : Users \cup {NoUser}, expires : Nat]
      BY <1>0, <1>1 DEF ChallengeIds
    <2>4. /\ \A c, d \in credentials : c.id = d.id => c = d
          /\ \A c, d \in challenges : c.id = d.id => c = d
          /\ \A c \in challenges : c.kind = "register" => c.user \in users
      BY <1>1
    <2> QED BY <2>1, <2>2, <2>3, <2>4 DEF StoreInv
  <1>5. ChallengeInv
    <2>1. ChallengeUsedOnce /\ ChallengeUsedInTime
      BY <1>0 DEF ChallengeUsedOnce, ChallengeUsedInTime
    <2>2. PendingIsRecent
      <3> SUFFICES ASSUME NEW c \in challenges
                   PROVE  DayOf(c.expires) >= DayOf(c.expires - CHALLENGE_TTL)
        BY <1>1 DEF PendingIsRecent
      <3>1. c.expires \in Int /\ c.expires - CHALLENGE_TTL \in Int
            /\ c.expires - CHALLENGE_TTL <= c.expires
        BY <1>0, <1>1
      <3>2. /\ DayOf(c.expires - CHALLENGE_TTL) <= DayOf(c.expires)
            /\ DayOf(c.expires - CHALLENGE_TTL) \in Int /\ DayOf(c.expires) \in Int
        BY <3>1, DayMonotonic
      <3> QED BY <3>2
    <2>3. \A c \in challenges : Ran(c.id) /\ c.expires <= now + CHALLENGE_TTL
      BY <1>0, <1>1 DEF Ran
    <2> QED BY <1>0, <2>1, <2>2, <2>3 DEF ChallengeInv, CeremonyInv
  <1>6. CounterInv
    <2>1. \A a \in responses : a.count <= devices[a.cred.device].counter
      BY <1>1 DEF Credential
    <2>2. CounterNeverAhead
      BY <1>1 DEF CounterNeverAhead, Credential
    <2> QED BY <1>0, <1>2, <2>1, <2>2 DEF CounterInv, AcceptedCountsRise
  <1>7. KeyInv
    BY <1>0, <1>1 DEF KeyInv, EnrolledOnce, IsOptions, OneKeyEach
  <1>8. AskedInv
    BY DEF AskedInv
  <1>9. TokensInv
    BY <1>0 DEF TokensInv, IsOptions, SessionsAreRecent
  <1>10. RecordInv
    BY <1>0 DEF RecordInv, Recorded, IsAudited, Nothing
  <1> QED BY <1>3, <1>4, <1>5, <1>6, <1>7, <1>8, <1>9, <1>10 DEF RequestsProofInv

-----------------------------------------------------------------------------
(* The kinds of steps.                                                     *)

Quiet ==
    /\ UNCHANGED <<users, credentials, challenges, devices, responses, replies, completed>>
    /\ now' \in {now, now + 1} /\ process' \in {process, process + 1}

HandlerRuns(r) ==
    /\ at[r] = "handler"
    /\ at' = [at EXCEPT ![r] = "returned"] \/ at' = [at EXCEPT ![r] = "raised"]
    /\ DOMAIN replies' = Requests /\ \A q \in Requests : q # r => replies'[q] = replies[q]
    /\ asked' = [asked EXCEPT ![r] = [op |-> @.op]]
    /\ UNCHANGED <<process, now, devices, responses>>

Offers(r, kind, user) ==
    /\ HandlerRuns(r)
    /\ kind \in Ceremonies /\ user \in Users \cup {NoUser}
    /\ kind = "register" => user \in users'
    /\ users \subseteq users' /\ users' \subseteq Users
    /\ Begin(r, kind, user, Ids(RowsOf(user)))

Refuses(r) ==
    /\ HandlerRuns(r)
    /\ challenges' \subseteq challenges
    /\ \E status \in {400, 401, 500} : replies'[r] = [status |-> status]
    /\ UNCHANGED <<users, credentials, completed>>

Enrols(r, answer, c) ==
    /\ HandlerRuns(r) /\ answer \in Answers("register")
    /\ c \in Pending("register", answer.id) /\ Enrol(r, answer, c)

SignsIn(r, answer, c, cred) ==
    /\ HandlerRuns(r) /\ answer \in Answers("login")
    /\ c \in Pending("login", answer.id) /\ cred \in Verified(answer)
    /\ SetCount(cred, answer.count)
    /\ Complete(r, "login", c, [cred EXCEPT !.count = answer.count])
    /\ UNCHANGED users

AnswersMe(r) == HandlerRuns(r) /\ TokenInv(asked[r].token) /\ Me(r, asked[r].token)

HandlerStep(r) ==
    \/ \E kind \in Ceremonies, user \in Users \cup {NoUser} : Offers(r, kind, user)
    \/ Refuses(r)
    \/ \E answer \in responses, c \in challenges : Enrols(r, answer, c)
    \/ \E answer \in responses, c \in challenges, cred \in credentials :
          SignsIn(r, answer, c, cred)
    \/ AnswersMe(r)

DeviceStep ==
    /\ \E d \in Devices :
          \/ \E o \in InHand("register") : MakeKey(d, o)
          \/ \E o \in InHand("login") : SignChallenge(d, o)
    /\ UNCHANGED <<middlewareVars, asked>>

(* What the queries return is in the tables.                               *)
LEMMA SweptFacts ==
  /\ Swept \subseteq challenges
  /\ \A kind, id : Pending(kind, id) \subseteq challenges
  /\ \A answer : Verified(answer) \subseteq credentials
  /\ \A kind : Answers(kind) \subseteq responses
  BY DEF Swept, Pending, Verified, Answers

(* The handler of a request, and what fails in it.                         *)
LEMMA HandleKinds ==
  ASSUME RequestsProofInv, NEW r \in Requests, Handle(r) \/ HandleFails(r)
  PROVE  HandlerStep(r)
  <1> DEFINE q == asked[r]
  <1>0. /\ DOMAIN replies = Requests /\ DOMAIN asked = Requests /\ at \in [Requests -> Places]
        /\ users \subseteq Users
    BY DEF RequestsProofInv, WorldInv, StoreInv
  <1>1. CASE HandleFails(r)
    <2>1. HandlerFails(r, q.op) /\ at[r] = "handler"
          /\ (at' = [at EXCEPT ![r] = "returned"] \/ at' = [at EXCEPT ![r] = "raised"])
          /\ asked' = [asked EXCEPT ![r] = [op |-> @.op]]
      BY <1>0, <1>1 DEF HandleFails, Raises, Move
    <2>2. \E status \in {400, 401, 500} : replies' = [replies EXCEPT ![r] = [status |-> status]]
      <3> DEFINE code == CASE q.op = "register/complete" -> 400
                           [] q.op = "login/complete" -> 401
                           [] OTHER -> 500
      <3>1. replies' = [replies EXCEPT ![r] = [status |-> code]]
        BY <2>1 DEF HandlerFails, Reply
      <3>2. CASE q.op = "register/complete"
        BY <3>1, <3>2
      <3>3. CASE q.op = "login/complete"
        BY <3>1, <3>3
      <3>4. CASE q.op \notin {"register/complete", "login/complete"}
        <4>1. code = 500
          BY <3>4
        <4> HIDE DEF code
        <4> QED BY <3>1, <4>1
      <3> QED BY <3>2, <3>3, <3>4
    <2>3. HandlerRuns(r) /\ \E status \in {400, 401, 500} : replies'[r] = [status |-> status]
      BY <1>0, <2>1, <2>2 DEF HandlerRuns, HandlerFails, Outside
    <2>4. Refuses(r)
      BY <2>1, <2>3, SweptFacts DEF Refuses, HandlerFails
    <2> QED BY <2>4 DEF HandlerStep
  <1>2. CASE Handle(r)
    <2>1. /\ at[r] = "handler" /\ at' = [at EXCEPT ![r] = "returned"]
          /\ asked' = [asked EXCEPT ![r] = [op |-> @.op]] /\ Call(r)
      BY <1>2 DEF Handle, Returns, Move
    <2>2. ASSUME NEW reply, Reply(r, reply), Outside PROVE HandlerRuns(r) /\ replies'[r] = reply
      BY <1>0, <2>1, <2>2 DEF HandlerRuns, Reply, Outside
    <2>3. CASE q.op = "register/begin" /\ RegisterBegin(r, q.user)
      <3>1. q.user \in Users
        BY <2>1, <2>3 DEF RequestsProofInv, AskedInv
      <3>2. HandlerRuns(r)
        BY <2>2, <2>3 DEF RegisterBegin, Begin
      <3>3. Offers(r, "register", q.user)
        BY <1>0, <2>3, <3>1, <3>2 DEF Offers, RegisterBegin, Ceremonies
      <3> QED BY <3>1, <3>3 DEF HandlerStep, Ceremonies
    <2>4. CASE q.op = "login/begin" /\ LoginBegin(r, q.user)
      <3>1. q.user \in Users \cup {NoUser}
        BY <2>1, <2>4 DEF RequestsProofInv, AskedInv
      <3>2. HandlerRuns(r)
        BY <2>2, <2>4 DEF LoginBegin, Begin
      <3>3. Offers(r, "login", q.user)
        BY <1>0, <2>4, <3>1, <3>2 DEF Offers, LoginBegin, Ceremonies
      <3> QED BY <3>1, <3>3 DEF HandlerStep, Ceremonies
    <2>5. ASSUME Refuse(r, 400) \/ Refuse(r, 401), Outside, UNCHANGED users
          PROVE  HandlerStep(r)
      <3>1. HandlerRuns(r) /\ \E status \in {400, 401, 500} : replies'[r] = [status |-> status]
        BY <2>2, <2>5 DEF Refuse
      <3>2. Refuses(r)
        BY <2>5, <3>1, SweptFacts DEF Refuses, Refuse
      <3> QED BY <3>2 DEF HandlerStep
    <2>6. CASE q.op = "register/complete" /\ RegisterComplete(r, q.answer)
      <3>1. q.answer \in Answers("register")
        BY <2>1, <2>6 DEF RequestsProofInv, AskedInv
      <3>2. Outside
        BY <2>6 DEF RegisterComplete
      <3>3. ASSUME NEW c \in Pending("register", q.answer.id), Enrol(r, q.answer, c)
            PROVE  HandlerStep(r)
        <4>1. HandlerRuns(r)
          BY <2>2, <3>2, <3>3 DEF Enrol, Complete
        <4>2. Enrols(r, q.answer, c)
          BY <3>1, <3>3, <4>1 DEF Enrols
        <4> QED BY <3>1, <3>3, <4>2, SweptFacts DEF HandlerStep
      <3>4. CASE Refuse(r, 400)
        BY <2>5, <3>2, <3>4 DEF Refuse
      <3> QED BY <2>6, <3>3, <3>4 DEF RegisterComplete
    <2>7. CASE q.op = "login/complete" /\ LoginComplete(r, q.answer)
      <3>1. q.answer \in Answers("login")
        BY <2>1, <2>7 DEF RequestsProofInv, AskedInv
      <3>2. Outside
        BY <2>7 DEF LoginComplete
      <3>3. ASSUME NEW c \in Pending("login", q.answer.id), NEW cred \in Verified(q.answer),
                   SetCount(cred, q.answer.count), UNCHANGED users,
                   Complete(r, "login", c, [cred EXCEPT !.count = q.answer.count])
            PROVE  HandlerStep(r)
        <4>1. HandlerRuns(r)
          BY <2>2, <3>2, <3>3 DEF Complete
        <4>2. SignsIn(r, q.answer, c, cred)
          BY <3>1, <3>3, <4>1 DEF SignsIn
        <4> QED BY <3>1, <3>3, <4>2, SweptFacts DEF HandlerStep
      <3>4. CASE Refuse(r, 401)
        BY <2>5, <3>2, <3>4 DEF Refuse
      <3> QED BY <2>7, <3>3, <3>4 DEF LoginComplete
    <2>8. CASE q.op = "me" /\ Me(r, q.token)
      <3>1. TokenInv(q.token)
        BY <2>1, <2>8 DEF RequestsProofInv, AskedInv
      <3>2. HandlerRuns(r)
        BY <2>2, <2>8 DEF Me
      <3>3. AnswersMe(r)
        BY <2>8, <3>1, <3>2 DEF AnswersMe
      <3> QED BY <3>3 DEF HandlerStep
    <2> QED BY <2>1, <2>3, <2>4, <2>6, <2>7, <2>8 DEF Call
  <1> QED BY <1>1, <1>2

(* A step runs a handler, is of an authenticator, or touches neither       *)
(* tables nor answers.                                                     *)
LEMMA StepKinds ==
  ASSUME RequestsProofInv, [RequestsNext]_requestVars
  PROVE  Quiet \/ (\E r \in Requests : HandlerStep(r)) \/ DeviceStep
  <1>1. ASSUME NEW r \in Requests, \E question \in Questions : Ask(r, question)
        PROVE  Quiet
    BY <1>1 DEF Ask, Quiet, webAuthnVars
  <1>2. ASSUME NEW r \in Requests, Skip(r) \/ Respond(r) PROVE Quiet
    BY <1>2 DEF Skip, Respond, Quiet, webAuthnVars
  <1>3. CASE (Tick /\ UNCHANGED <<middlewareVars, asked>>) \/ Restart
    BY <1>3 DEF Tick, Restart, Quiet
  <1>4. CASE Devised
    BY <1>4 DEF Devised, DeviceStep
  <1>5. CASE UNCHANGED requestVars
    BY <1>5 DEF requestVars, webAuthnVars, Quiet
  <1> QED BY <1>1, <1>2, <1>3, <1>4, <1>5, HandleKinds DEF RequestsNext

-----------------------------------------------------------------------------
(* Where the requests are.                                                 *)

(* A request whose handler has run does not enter it again.                *)
LEMMA Places1 ==
  ASSUME RequestsProofInv, [RequestsNext]_requestVars
  PROVE  /\ at' \in [Requests -> Places] /\ DOMAIN asked' = Requests
         /\ \A q \in Requests : at[q] \notin {"none", "handler"} => at'[q] \notin {"none", "handler"}
         /\ \A q \in Requests : at'[q] = "handler" =>
               \/ at[q] = "handler" /\ asked'[q] = asked[q]
               \/ asked'[q] \in Questions
         /\ \A id : Ran(id) /\ id \in ChallengeIds => Ran(id)'
  <1>0. at \in [Requests -> Places] /\ DOMAIN asked = Requests
    BY DEF RequestsProofInv, WorldInv
  <1>1. ASSUME NEW r \in Requests, NEW question \in Questions, Ask(r, question)
        PROVE  /\ at' = [at EXCEPT ![r] = "handler"] /\ at[r] = "none"
               /\ asked' = [asked EXCEPT ![r] = question]
    BY <1>1 DEF Ask, Pass, SendRequest, Arrives, Move
  <1>2. ASSUME NEW r \in Requests, Handle(r) \/ HandleFails(r) \/ Skip(r) \/ Respond(r)
        PROVE  /\ \/ at' = [at EXCEPT ![r] = "returned"] \/ at' = [at EXCEPT ![r] = "raised"]
                  \/ at' = [at EXCEPT ![r] = "answered"]
               /\ asked' = asked \/ asked' = [asked EXCEPT ![r] = [op |-> @.op]]
    <2>1. CASE Handle(r) \/ HandleFails(r)
      BY <2>1 DEF Handle, HandleFails, Returns, Raises, Move
    <2>2. CASE Skip(r) \/ Respond(r)
      BY <2>2 DEF Skip, Respond, SendResponse, Move
    <2> QED BY <1>2, <2>1, <2>2
  <1>3. CASE Restart
    <2>1. at' = [r \in Requests |-> IF r \in Open THEN "cut" ELSE at[r]] /\ asked' = asked
      BY <1>3 DEF Restart, Crash
    <2> QED BY <1>0, <2>1 DEF Places, Open, Ran, ChallengeIds
  <1>4. CASE UNCHANGED <<at, asked>>
    BY <1>0, <1>4 DEF Ran
  <1>5. ASSUME NEW r \in Requests, NEW place \in {"returned", "raised", "answered"},
               at' = [at EXCEPT ![r] = place],
               asked' = asked \/ asked' = [asked EXCEPT ![r] = [op |-> @.op]]
        PROVE  /\ at' \in [Requests -> Places] /\ DOMAIN asked' = Requests
               /\ \A q \in Requests : at[q] \notin {"none", "handler"} => at'[q] \notin {"none", "handler"}
               /\ \A q \in Requests : at'[q] = "handler" => at[q] = "handler" /\ asked'[q] = asked[q]
    BY <1>0, <1>5 DEF Places
  <1>6. ASSUME NEW r \in Requests, NEW question \in Questions, Ask(r, question)
        PROVE  /\ at' \in [Requests -> Places] /\ DOMAIN asked' = Requests
               /\ \A q \in Requests : at[q] \notin {"none", "handler"} => at'[q] \notin {"none", "handler"}
               /\ \A q \in Requests : at'[q] = "handler" =>
                     \/ at[q] = "handler" /\ asked'[q] = asked[q]
                     \/ asked'[q] \in Questions
    <2>1. /\ at' = [at EXCEPT ![r] = "handler"] /\ at[r] = "none"
          /\ asked' = [asked EXCEPT ![r] = question]
      BY <1>1, <1>6
    <2>2. asked'[r] = question
      BY <1>0, <2>1
    <2>3. \A q \in Requests : q # r => at'[q] = at[q] /\ asked'[q] = asked[q]
      BY <1>0, <2>1
    <2> HIDE DEF Questions
    <2> QED BY <1>0, <2>1, <2>2, <2>3 DEF Places
  <1>7. UNCHANGED <<at, asked>> \/ Restart
        \/ (\E r \in Requests, question \in Questions : Ask(r, question))
        \/ (\E r \in Requests : Handle(r) \/ HandleFails(r) \/ Skip(r) \/ Respond(r))
    BY DEF RequestsNext, requestVars, middlewareVars, Devised
  <1>8. /\ at' \in [Requests -> Places] /\ DOMAIN asked' = Requests
        /\ \A q \in Requests : at[q] \notin {"none", "handler"} => at'[q] \notin {"none", "handler"}
        /\ \A q \in Requests : at'[q] = "handler" =>
              \/ at[q] = "handler" /\ asked'[q] = asked[q]
              \/ asked'[q] \in Questions
    BY <1>2, <1>3, <1>4, <1>5, <1>6, <1>7
  <1> QED BY <1>8 DEF Ran, ChallengeIds

(* A handler that runs has not run before, and has afterwards.             *)
LEMMA RunsFacts ==
  ASSUME RequestsProofInv, NEW r \in Requests, HandlerRuns(r)
  PROVE  /\ r # Earlier /\ r \in ChallengeIds /\ ~ Ran(r) /\ Ran(r)'
         /\ \A c \in challenges : c.id # r
         /\ \A i \in DOMAIN completed : completed[i].challenge # r
         /\ now \in Nat /\ now' = now /\ process' = process
  <1>1. at \in [Requests -> Places] /\ now \in Nat
    BY DEF RequestsProofInv, WorldInv
  <1>2. r # Earlier /\ ~ Ran(r) /\ Ran(r)'
    BY <1>1, ConstantFacts DEF HandlerRuns, Ran
  <1> QED BY <1>1, <1>2 DEF ChallengeIds, HandlerRuns, RequestsProofInv, ChallengeInv

-----------------------------------------------------------------------------
(* The tables.                                                             *)

(* A step keeps the tables of SQLite typed, with one row per key.          *)
LEMMA StoreStep == RequestsProofInv /\ [RequestsNext]_requestVars => StoreInv'
  <1> SUFFICES ASSUME RequestsProofInv, [RequestsNext]_requestVars PROVE StoreInv'
    OBVIOUS
  <1>0. /\ StoreInv
        /\ responses \subseteq [kind : Ceremonies, id : ChallengeIds, count : Nat, cred : CredIds]
    BY DEF RequestsProofInv, WorldInv
  <1>1. ASSUME UNCHANGED <<users, credentials>>, challenges' \subseteq challenges
        PROVE  StoreInv'
    <2>1. IsFiniteSet(challenges')
      BY <1>0, <1>1, FS_Subset DEF StoreInv
    <2> QED BY <1>0, <1>1, <2>1 DEF StoreInv
  <1>2. ASSUME NEW r \in Requests, NEW kind, NEW user, Offers(r, kind, user) PROVE StoreInv'
    <2> DEFINE new == [id |-> r, kind |-> kind, user |-> user, expires |-> now + CHALLENGE_TTL]
    <2>1. /\ challenges' = Swept \cup {new} /\ credentials' = credentials
          /\ kind \in Ceremonies /\ user \in Users \cup {NoUser}
          /\ kind = "register" => user \in users'
          /\ users \subseteq users' /\ users' \subseteq Users
      BY <1>2 DEF Offers, Begin
    <2>2. /\ r \in ChallengeIds /\ now \in Nat /\ \A c \in challenges : c.id # r
      BY <1>2, RunsFacts DEF Offers
    <2>3. IsFiniteSet(challenges')
      <3>1. IsFiniteSet(Swept)
        BY <1>0, SweptFacts, FS_Subset DEF StoreInv
      <3> QED BY <2>1, <3>1, FS_AddElement
    <2>4. new \in [id : ChallengeIds, kind : Ceremonies, user : Users \cup {NoUser}, expires : Nat]
      BY <2>1, <2>2, ConstantFacts
    <2>5. new.id = r /\ new.kind = kind /\ new.user = user
      OBVIOUS
    <2> HIDE DEF new
    <2>6. \A c \in challenges' : c \in challenges \/ c = new
      BY <2>1, SweptFacts
    <2> QED BY <1>0, <2>1, <2>2, <2>3, <2>4, <2>5, <2>6 DEF StoreInv
  <1>3. ASSUME NEW r \in Requests, NEW answer \in responses, NEW c \in challenges,
               Enrols(r, answer, c)
        PROVE  StoreInv'
    <2> DEFINE cred == [id |-> answer.cred, user |-> c.user, count |-> answer.count]
    <2>1. /\ cred.id \notin Ids(credentials) /\ credentials' = credentials \cup {cred}
          /\ users' = users /\ challenges' = Swept \ {c} /\ c.kind = "register"
      BY <1>3 DEF Enrols, Enrol, Complete, Consume, Pending
    <2>2. /\ cred \in [id : CredIds, user : users, count : Nat]
          /\ \A k \in credentials : k.id # cred.id
      BY <1>0, <1>3, <2>1 DEF StoreInv, Ids
    <2> HIDE DEF cred
    <2>3. IsFiniteSet(credentials') /\ IsFiniteSet(challenges')
      BY <1>0, <2>1, SweptFacts, FS_AddElement, FS_Subset DEF StoreInv
    <2> QED BY <1>0, <2>1, <2>2, <2>3, SweptFacts DEF StoreInv
  <1>4. ASSUME NEW r \in Requests, NEW answer \in responses, NEW c \in challenges,
               NEW cred \in credentials, SignsIn(r, answer, c, cred)
        PROVE  StoreInv'
    <2> DEFINE new == [cred EXCEPT !.count = answer.count]
    <2>1. /\ credentials' = (credentials \ {cred}) \cup {new} /\ users' = users
          /\ challenges' = Swept \ {c}
      BY <1>4 DEF SignsIn, SetCount, Complete, Consume
    <2>2. new \in [id : CredIds, user : users, count : Nat] /\ new.id = cred.id
      BY <1>0, <1>4 DEF StoreInv
    <2> HIDE DEF new
    <2>3. IsFiniteSet(credentials') /\ IsFiniteSet(challenges')
      BY <1>0, <2>1, SweptFacts, FS_AddElement, FS_RemoveElement, FS_Subset DEF StoreInv
    <2>4. \A k \in credentials' : k = new \/ (k \in credentials /\ k.id # new.id)
      BY <1>0, <2>1, <2>2 DEF StoreInv
    <2>5. \A k, l \in credentials' : k.id = l.id => k = l
      BY <1>0, <2>4 DEF StoreInv
    <2> QED BY <1>0, <2>1, <2>2, <2>3, <2>5, SweptFacts DEF StoreInv
  <1>5. ASSUME NEW r \in Requests, Refuses(r) \/ AnswersMe(r) PROVE StoreInv'
    BY <1>1, <1>5 DEF Refuses, AnswersMe, Me
  <1>6. CASE Quiet \/ DeviceStep
    BY <1>1, <1>6 DEF Quiet, DeviceStep, MakeKey, SignChallenge
  <1> QED BY <1>2, <1>3, <1>4, <1>5, <1>6, StepKinds DEF HandlerStep

(* A step keeps the types of everything else.                              *)
LEMMA WorldStep == RequestsProofInv /\ [RequestsNext]_requestVars => WorldInv'
  <1> SUFFICES ASSUME RequestsProofInv, [RequestsNext]_requestVars PROVE WorldInv'
    OBVIOUS
  <1>0. WorldInv /\ at' \in [Requests -> Places] /\ DOMAIN asked' = Requests
    BY Places1 DEF RequestsProofInv
  <1>1. CASE Quiet
    BY <1>0, <1>1 DEF WorldInv, Quiet
  <1>2. ASSUME NEW r \in Requests, HandlerStep(r) PROVE WorldInv'
    <2>1. HandlerRuns(r)
      BY <1>2 DEF HandlerStep, Offers, Refuses, Enrols, SignsIn, AnswersMe
    <2> QED BY <1>0, <2>1 DEF WorldInv, HandlerRuns
  <1>3. ASSUME NEW kind \in Ceremonies, NEW o \in InHand(kind)
        PROVE  o.id \in ChallengeIds /\ o.id # Earlier
    <2>1. PICK q \in Requests : o = replies[q] /\ IsOptions(q, kind)
      BY <1>3 DEF InHand, IsOptions
    <2>2. o.id = q
      BY <2>1 DEF RequestsProofInv, KeyInv
    <2> QED BY <2>2, ConstantFacts DEF ChallengeIds
  <1>4. ASSUME NEW d \in Devices, NEW o \in InHand("register"), MakeKey(d, o) PROVE WorldInv'
    <2> DEFINE key == Credential(d, devices[d].keys + 1)
               new == [kind |-> "register", id |-> o.id, cred |-> key, count |-> devices[d].counter]
    <2>1. /\ responses' = responses \cup {new}
          /\ devices' = [devices EXCEPT ![d].keys = @ + 1]
          /\ UNCHANGED <<process, now, replies>>
      BY <1>4 DEF MakeKey
    <2>2. devices[d] \in [keys : Nat, counts : BOOLEAN, counter : Nat]
      BY <1>0 DEF WorldInv
    <2>3. new \in [kind : Ceremonies, id : ChallengeIds, count : Nat, cred : CredIds]
      BY <1>3, <2>2 DEF Ceremonies, CredIds, Credential
    <2>4. devices' \in [Devices -> [keys : Nat, counts : BOOLEAN, counter : Nat]]
      BY <1>0, <2>1, <2>2 DEF WorldInv
    <2> HIDE DEF new
    <2> QED BY <1>0, <2>1, <2>3, <2>4 DEF WorldInv
  <1>5. ASSUME NEW d \in Devices, NEW o \in InHand("login"), SignChallenge(d, o) PROVE WorldInv'
    <2> DEFINE count == IF devices[d].counts THEN devices[d].counter + 1 ELSE 0
    <2>1. PICK n \in 1 .. devices[d].keys :
             responses' = responses \cup
                {[kind |-> "login", id |-> o.id, cred |-> Credential(d, n), count |-> count]}
      BY <1>5 DEF SignChallenge
    <2>2. /\ devices' = [devices EXCEPT ![d].counter = count]
          /\ UNCHANGED <<process, now, replies>>
      BY <1>5 DEF SignChallenge
    <2>3. devices[d] \in [keys : Nat, counts : BOOLEAN, counter : Nat] /\ count \in Nat
      BY <1>0 DEF WorldInv
    <2>4. [kind |-> "login", id |-> o.id, cred |-> Credential(d, n), count |-> count]
             \in [kind : Ceremonies, id : ChallengeIds, count : Nat, cred : CredIds]
      <3>1. n \in Nat /\ o.id \in ChallengeIds
        BY <1>3, <2>3 DEF Ceremonies
      <3> HIDE DEF count
      <3> QED BY <2>3, <3>1 DEF Ceremonies, CredIds, Credential
    <2> HIDE DEF count
    <2>5. devices' \in [Devices -> [keys : Nat, counts : BOOLEAN, counter : Nat]]
      BY <1>0, <2>2, <2>3 DEF WorldInv
    <2> QED BY <1>0, <2>1, <2>2, <2>4, <2>5 DEF WorldInv
  <1> QED BY <1>1, <1>2, <1>4, <1>5, StepKinds DEF DeviceStep

-----------------------------------------------------------------------------
(* A ceremony is completed: what its two handlers have in common.          *)

Completion(answer, c) ==
    [kind |-> c.kind, challenge |-> c.id, cred |-> answer.cred, count |-> answer.count,
     late |-> FALSE, at |-> now, by |-> process]

Completes(r, answer, c) ==
    /\ HandlerRuns(r) /\ answer \in responses /\ c \in challenges
    /\ answer.kind = c.kind /\ answer.id = c.id
    /\ challenges' = Swept \ {c}
    /\ completed' = Append(completed, Completion(answer, c))
    /\ \E k \in credentials' :
          /\ k.id = answer.cred
          /\ replies'[r] = [status |-> 200, kind |-> "token",
                           token |-> [sub |-> k.user, cid |-> k.id, exp |-> now + ACCESS_TTL,
                                      key |-> process]]

(* A ceremony that succeeds uses up its challenge, in time.                *)
LEMMA CompletesFacts ==
  ASSUME RequestsProofInv, NEW r \in Requests, NEW answer \in responses, NEW c \in challenges,
         Enrols(r, answer, c) \/ \E cred \in credentials : SignsIn(r, answer, c, cred)
  PROVE  Completes(r, answer, c)
  <1>0. /\ now \in Nat /\ DOMAIN replies = Requests
        /\ c \in [id : ChallengeIds, kind : Ceremonies, user : Users \cup {NoUser}, expires : Nat]
    BY DEF RequestsProofInv, WorldInv, StoreInv
  <1>1. ASSUME NEW kind, NEW cred \in credentials', cred.id = answer.cred,
               cred.count = answer.count,
               answer \in Answers(kind), c \in Pending(kind, answer.id), Complete(r, kind, c, cred),
               HandlerRuns(r)
        PROVE  Completes(r, answer, c)
    <2>1. /\ c.kind = kind /\ c.id = answer.id /\ (c.expires < now) = FALSE
          /\ answer.kind = kind
      BY <1>0, <1>1 DEF Pending, Answers
    <2>2. /\ completed' = Append(completed, Completion(answer, c))
          /\ challenges' = Swept \ {c}
      BY <1>1, <2>1 DEF Complete, Completion, Consume
    <2>3. replies'[r] =
            [status |-> 200, kind |-> "token",
             token |-> [sub |-> cred.user, cid |-> cred.id, exp |-> now + ACCESS_TTL,
                        key |-> process]]
      BY <1>0, <1>1 DEF Complete, Reply, mint_access_token
    <2> QED BY <1>1, <2>1, <2>2, <2>3 DEF Completes
  <1>2. CASE Enrols(r, answer, c)
    <2> DEFINE cred == [id |-> answer.cred, user |-> c.user, count |-> answer.count]
    <2>1. Complete(r, "register", c, cred)
      BY <1>2 DEF Enrols, Enrol
    <2>2. cred.id = answer.cred /\ cred.count = answer.count
      OBVIOUS
    <2>3. cred \in credentials'
      BY <1>2 DEF Enrols, Enrol
    <2> HIDE DEF cred
    <2> QED BY <1>1, <1>2, <2>1, <2>2, <2>3 DEF Enrols
  <1>3. ASSUME NEW cred \in credentials, SignsIn(r, answer, c, cred)
        PROVE  Completes(r, answer, c)
    <2> DEFINE new == [cred EXCEPT !.count = answer.count]
    <2>1. Complete(r, "login", c, new)
      BY <1>3 DEF SignsIn
    <2>2. new.id = answer.cred /\ new.count = answer.count
      BY <1>3 DEF SignsIn, Verified, RequestsProofInv, StoreInv
    <2>3. new \in credentials'
      BY <1>3 DEF SignsIn, SetCount
    <2> HIDE DEF new
    <2> QED BY <1>1, <1>3, <2>1, <2>2, <2>3 DEF SignsIn
  <1> QED BY <1>2, <1>3

(* The history grows by one.                                               *)
LEMMA Appended ==
  ASSUME RequestsProofInv, NEW r \in Requests, NEW answer \in responses, NEW c \in challenges,
         Completes(r, answer, c)
  PROVE  /\ Completion(answer, c) \in Ceremony
         /\ completed' \in Seq(Ceremony) /\ Len(completed) \in Nat
         /\ DOMAIN completed = 1 .. Len(completed)
         /\ Len(completed') = Len(completed) + 1
         /\ DOMAIN completed' = 1 .. (Len(completed) + 1)
         /\ \A i \in DOMAIN completed : completed'[i] = completed[i]
         /\ completed'[Len(completed) + 1] = Completion(answer, c)
         /\ \A i \in DOMAIN completed' : i \in DOMAIN completed \/ i = Len(completed) + 1
  <1>1. /\ answer \in [kind : Ceremonies, id : ChallengeIds, count : Nat, cred : CredIds]
        /\ c \in [id : ChallengeIds, kind : Ceremonies, user : Users \cup {NoUser}, expires : Nat]
        /\ now \in Nat /\ process \in Nat /\ completed \in Seq(Ceremony)
    BY DEF RequestsProofInv, WorldInv, StoreInv, ChallengeInv
  <1>2. Completion(answer, c) \in Ceremony
    BY <1>1 DEF Completion, Ceremony
  <1>3. completed' = Append(completed, Completion(answer, c))
    BY DEF Completes
  <1> QED BY <1>1, <1>2, <1>3

-----------------------------------------------------------------------------
(* A step offers a challenge, completes one, or does neither.              *)

Idles ==
    /\ completed' = completed /\ challenges' \subseteq challenges
    /\ now' \in {now, now + 1}

(* The steps, as far as challenges go: none, a new one, or one used up.    *)
LEMMA ChallengeSteps ==
  ASSUME RequestsProofInv, [RequestsNext]_requestVars
  PROVE  \/ Idles
         \/ \E r \in Requests, kind \in Ceremonies, user \in Users \cup {NoUser} :
               Offers(r, kind, user)
         \/ \E r \in Requests, answer \in responses, c \in challenges : Completes(r, answer, c)
  <1>1. CASE Quiet
    BY <1>1 DEF Quiet, Idles
  <1>2. ASSUME NEW r \in Requests, Refuses(r) PROVE Idles
    BY <1>2 DEF Refuses, HandlerRuns, Idles
  <1>3. ASSUME NEW r \in Requests, AnswersMe(r) PROVE Idles
    BY <1>3 DEF AnswersMe, Me, Outside, Idles
  <1>4. CASE DeviceStep
    BY <1>4 DEF DeviceStep, MakeKey, SignChallenge, Idles
  <1> QED BY <1>1, <1>2, <1>3, <1>4, StepKinds, CompletesFacts DEF HandlerStep

(* A step keeps used and expired challenges out of the table.              *)
LEMMA ChallengeStep == RequestsProofInv /\ [RequestsNext]_requestVars => ChallengeInv'
  <1> SUFFICES ASSUME RequestsProofInv, [RequestsNext]_requestVars PROVE ChallengeInv'
    OBVIOUS
  <1>0. /\ ChallengeInv /\ completed \in Seq(Ceremony) /\ now \in Nat
        /\ challenges \subseteq
              [id : ChallengeIds, kind : Ceremonies, user : Users \cup {NoUser}, expires : Nat]
        /\ \A id : Ran(id) /\ id \in ChallengeIds => Ran(id)'
    BY Places1 DEF RequestsProofInv, WorldInv, StoreInv, ChallengeInv
  <1>1. \A i \in DOMAIN completed : completed[i] \in Ceremony /\ completed[i].challenge \in ChallengeIds
    <2>1. \A x \in Ceremony : x.challenge \in ChallengeIds
      BY DEF Ceremony
    <2>2. \A i \in DOMAIN completed : completed[i] \in Ceremony
      BY <1>0
    <2> QED BY <2>1, <2>2
  <1>2. CASE Idles
    <2>1. CeremonyInv'
      BY <1>0, <1>2 DEF ChallengeInv, CeremonyInv, ChallengeUsedOnce, ChallengeUsedInTime,
                        PendingIsRecent, Idles, DayOf
    <2>2. \A c \in challenges' : c.expires <= now' + CHALLENGE_TTL
      BY <1>0, <1>2, ConstantFacts DEF ChallengeInv, Idles
    <2>3. \A c \in challenges' : Ran(c.id)'
      BY <1>0, <1>2 DEF ChallengeInv, Idles
    <2>4. \A i \in DOMAIN completed' : Ran(completed[i].challenge)'
      BY <1>0, <1>1, <1>2 DEF ChallengeInv, Idles
    <2> QED BY <1>0, <1>2, <2>1, <2>2, <2>3, <2>4 DEF ChallengeInv, Idles
  <1>3. ASSUME NEW r \in Requests, NEW kind \in Ceremonies, NEW user \in Users \cup {NoUser},
               Offers(r, kind, user)
        PROVE  ChallengeInv'
    <2> DEFINE new == [id |-> r, kind |-> kind, user |-> user, expires |-> now + CHALLENGE_TTL]
    <2>1. challenges' = Swept \cup {new} /\ completed' = completed /\ HandlerRuns(r)
      BY <1>3 DEF Offers, Begin
    <2>2. /\ r \in ChallengeIds /\ Ran(r)' /\ now' = now
          /\ \A i \in DOMAIN completed : completed[i].challenge # r
      BY <2>1, RunsFacts
    <2>3. new.id = r /\ new.expires = now + CHALLENGE_TTL
      OBVIOUS
    <2> HIDE DEF new
    <2>4. \A c \in challenges' : c = new \/ (c \in challenges /\ DayOf(c.expires) >= DayOf(now))
      BY <2>1 DEF Swept
    <2>5. \A c \in challenges' :
             /\ Ran(c.id)' /\ c.expires \in Nat /\ c.expires <= now' + CHALLENGE_TTL
             /\ \A i \in DOMAIN completed : completed[i].challenge # c.id
      BY <1>0, <2>2, <2>3, <2>4, ConstantFacts DEF ChallengeInv
    <2>6. PendingIsRecent'
      <3> SUFFICES ASSUME NEW c \in challenges', NEW d \in challenges'
                   PROVE  DayOf(c.expires) >= DayOf(d.expires - CHALLENGE_TTL)
        BY DEF PendingIsRecent, DayOf
      <3>1. /\ d.expires - CHALLENGE_TTL \in Int /\ d.expires - CHALLENGE_TTL <= now
            /\ now <= now + CHALLENGE_TTL /\ now \in Int /\ now + CHALLENGE_TTL \in Int
            /\ c.expires \in Int
        BY <1>0, <2>2, <2>5, ConstantFacts
      <3>2. /\ DayOf(d.expires - CHALLENGE_TTL) <= DayOf(now)
            /\ DayOf(d.expires - CHALLENGE_TTL) \in Int /\ DayOf(now) \in Int
        BY <3>1, DayMonotonic
      <3>3. DayOf(c.expires) >= DayOf(now) /\ DayOf(c.expires) \in Int
        <4>1. DayOf(now) <= DayOf(now + CHALLENGE_TTL) /\ DayOf(now + CHALLENGE_TTL) \in Int
          BY <3>1, DayMonotonic
        <4>2. DayOf(c.expires) \in Int
          BY <3>1, DayMonotonic
        <4> QED BY <2>3, <2>4, <3>2, <4>1, <4>2
      <3> QED BY <3>2, <3>3
    <2>7. CeremonyInv'
      BY <1>0, <2>1, <2>6 DEF ChallengeInv, CeremonyInv, ChallengeUsedOnce, ChallengeUsedInTime
    <2>8. \A i \in DOMAIN completed' : Ran(completed[i].challenge)'
      BY <1>0, <1>1, <2>1 DEF ChallengeInv, Ran
    <2> QED BY <1>0, <2>1, <2>5, <2>7, <2>8 DEF ChallengeInv
  <1>4. ASSUME NEW r \in Requests, NEW answer \in responses, NEW c \in challenges,
               Completes(r, answer, c)
        PROVE  ChallengeInv'
    <2> DEFINE last == Len(completed) + 1
    <2>1. /\ challenges' = Swept \ {c} /\ HandlerRuns(r) /\ challenges' \subseteq challenges
      BY <1>4, SweptFacts DEF Completes
    <2>2. /\ completed' \in Seq(Ceremony)
          /\ \A i \in DOMAIN completed : completed'[i] = completed[i]
          /\ completed'[last].challenge = c.id /\ completed'[last].late = FALSE
          /\ \A i \in DOMAIN completed' : i \in DOMAIN completed \/ i = last
      <3>1. /\ Completion(answer, c).challenge = c.id /\ Completion(answer, c).late = FALSE
        BY DEF Completion
      <3> QED BY <1>4, <3>1, Appended
    <2>3. now' = now
      BY <2>1, RunsFacts
    <2>4. /\ Ran(c.id) /\ c.id \in ChallengeIds
          /\ \A i \in DOMAIN completed : completed[i].challenge # c.id
      BY <1>0 DEF ChallengeInv
    <2>5. \A d \in challenges' : d \in challenges /\ d.id # c.id
      BY <2>1 DEF RequestsProofInv, StoreInv
    <2> HIDE DEF last
    <2>6. \A i \in DOMAIN completed' : Ran(completed[i].challenge)'
      BY <1>0, <1>1, <2>2, <2>4 DEF ChallengeInv, Ran
    <2>7. \A d \in challenges' : \A i \in DOMAIN completed' : completed'[i].challenge # d.id
      BY <1>0, <2>2, <2>5 DEF ChallengeInv
    <2>8. \A d \in challenges' : Ran(d.id)' /\ d.expires <= now' + CHALLENGE_TTL
      BY <1>0, <2>3, <2>5 DEF ChallengeInv
    <2>9. ChallengeUsedOnce'
      BY <1>0, <2>2, <2>4 DEF ChallengeInv, CeremonyInv, ChallengeUsedOnce
    <2>10. ChallengeUsedInTime'
      BY <1>0, <2>2 DEF ChallengeInv, CeremonyInv, ChallengeUsedInTime
    <2>11. PendingIsRecent'
      BY <1>0, <2>1 DEF ChallengeInv, CeremonyInv, PendingIsRecent, DayOf
    <2> QED BY <2>2, <2>6, <2>7, <2>8, <2>9, <2>10, <2>11 DEF ChallengeInv, CeremonyInv
  <1> QED BY <1>2, <1>3, <1>4, ChallengeSteps

-----------------------------------------------------------------------------
(* Counts.                                                                 *)

(* The history of ceremonies is well typed.                                *)
LEMMA CompletedTyped ==
  ASSUME RequestsProofInv
  PROVE  /\ completed \in Seq(Ceremony) /\ Len(completed) \in Nat
         /\ DOMAIN completed = 1 .. Len(completed)
         /\ \A i \in DOMAIN completed :
               /\ completed[i].count \in Nat /\ completed[i].at \in Nat
               /\ completed[i].cred \in CredIds /\ completed[i].challenge \in ChallengeIds
               /\ completed[i].kind \in Ceremonies
  <1>1. completed \in Seq(Ceremony)
    BY DEF RequestsProofInv, ChallengeInv
  <1>2. \A x \in Ceremony : /\ x.count \in Nat /\ x.at \in Nat /\ x.cred \in CredIds
                            /\ x.challenge \in ChallengeIds /\ x.kind \in Ceremonies
    BY DEF Ceremony
  <1>3. \A i \in DOMAIN completed : completed[i] \in Ceremony
    BY <1>1
  <1> QED BY <1>1, <1>2, <1>3

(* A step keeps counts in order: device, answer, stored and accepted.      *)
LEMMA CounterStep == RequestsProofInv /\ [RequestsNext]_requestVars => CounterInv'
  <1> SUFFICES ASSUME RequestsProofInv, [RequestsNext]_requestVars PROVE CounterInv'
    OBVIOUS
  <1>0. /\ CounterInv
        /\ devices \in [Devices -> [keys : Nat, counts : BOOLEAN, counter : Nat]]
        /\ responses \subseteq [kind : Ceremonies, id : ChallengeIds, count : Nat, cred : CredIds]
        /\ \A c \in credentials : c.id \in CredIds /\ c.count \in Nat
        /\ \A c, d \in credentials : c.id = d.id => c = d
    BY DEF RequestsProofInv, WorldInv, StoreInv
  <1>1. \A id \in CredIds : id.device \in Devices
    BY DEF CredIds
  <1>2. CASE UNCHANGED <<credentials, devices, responses, completed>>
    BY <1>0, <1>2 DEF CounterInv, AcceptedCountsRise, CounterNeverAhead
  <1>3. ASSUME NEW d \in Devices, NEW options, MakeKey(d, options) PROVE CounterInv'
    <2>1. /\ devices' = [devices EXCEPT ![d].keys = @ + 1]
          /\ UNCHANGED <<credentials, completed>>
      BY <1>3 DEF MakeKey
    <2>2. PICK new : /\ responses' = responses \cup {new}
                     /\ new.cred.device = d /\ new.count = devices[d].counter
      <3> DEFINE made == [kind |-> "register", id |-> options.id, count |-> devices[d].counter,
                          cred |-> Credential(d, devices[d].keys + 1)]
      <3>1. responses' = responses \cup {made}
        BY <1>3 DEF MakeKey
      <3>2. made.cred.device = d /\ made.count = devices[d].counter
        BY DEF Credential
      <3> HIDE DEF made
      <3> QED BY <3>1, <3>2
    <2>3. /\ \A e \in Devices : devices'[e].counter = devices[e].counter
          /\ \A e \in Devices : devices'[e].counts = devices[e].counts
          /\ devices[d].counter \in Nat
      BY <1>0, <2>1
    <2>4. \A a \in responses' : a.count <= devices'[a.cred.device].counter
      BY <1>0, <1>1, <2>2, <2>3 DEF CounterInv
    <2> QED BY <1>0, <1>1, <2>1, <2>3, <2>4 DEF CounterInv, AcceptedCountsRise, CounterNeverAhead
  <1>4. ASSUME NEW d \in Devices, NEW options, SignChallenge(d, options) PROVE CounterInv'
    <2> DEFINE count == IF devices[d].counts THEN devices[d].counter + 1 ELSE 0
    <2>1. /\ devices' = [devices EXCEPT ![d].counter = count]
          /\ UNCHANGED <<credentials, completed>>
      BY <1>4 DEF SignChallenge
    <2>2. PICK new : /\ responses' = responses \cup {new}
                     /\ new.cred.device = d /\ new.count = count
      <3> DEFINE Made(n) == [kind |-> "login", id |-> options.id, cred |-> Credential(d, n),
                             count |-> count]
      <3>1. PICK n \in 1 .. devices[d].keys : responses' = responses \cup {Made(n)}
        BY <1>4 DEF SignChallenge
      <3>2. Made(n).cred.device = d /\ Made(n).count = count
        BY DEF Credential
      <3> HIDE DEF Made
      <3> QED BY <3>1, <3>2
    <2>3. /\ count \in Nat /\ devices[d].counter <= count
          /\ ~ devices[d].counts => count = 0
      BY <1>0 DEF CounterInv
    <2> HIDE DEF count
    <2>4. /\ \A e \in Devices : devices'[e].counter = IF e = d THEN count ELSE devices[e].counter
          /\ \A e \in Devices : devices'[e].counts = devices[e].counts
          /\ \A e \in Devices : devices[e].counter \in Nat
      BY <1>0, <2>1
    <2>5. \A e \in Devices : devices[e].counter <= devices'[e].counter
      BY <2>3, <2>4
    <2>6. \A e \in Devices : devices'[e].counter \in Nat
      BY <2>3, <2>4
    <2>7. \A a \in responses' : a.count <= devices'[a.cred.device].counter
      <3>1. \A a \in responses : a.count \in Nat /\ a.cred.device \in Devices
        BY <1>0, <1>1
      <3>2. \A a \in responses : a.count <= devices'[a.cred.device].counter
        BY <1>0, <2>4, <2>5, <2>6, <3>1 DEF CounterInv
      <3> QED BY <2>2, <2>3, <2>4, <3>2
    <2>8. CounterNeverAhead'
      BY <1>0, <1>1, <2>1, <2>4, <2>5, <2>6 DEF CounterInv, CounterNeverAhead
    <2> QED BY <1>0, <2>1, <2>3, <2>4, <2>7, <2>8 DEF CounterInv, AcceptedCountsRise
  <1>5. ASSUME NEW r \in Requests, NEW answer \in responses, NEW c \in challenges,
               NEW old, NEW cred,
               Completes(r, answer, c), UNCHANGED <<devices, responses>>,
               \A k \in credentials : k.id # answer.cred \/ k = old,
               old \in credentials => CountRises(old.count, answer.count),
               cred.id = answer.cred, cred.count = answer.count, cred \in credentials',
               credentials \ {old} \subseteq credentials',
               credentials' \subseteq credentials \cup {cred},
               old \in credentials => old.id = answer.cred
        PROVE  CounterInv'
    <2> DEFINE last == Len(completed) + 1
    <2>1. /\ \A i \in DOMAIN completed : completed'[i] = completed[i]
          /\ completed'[last].cred = answer.cred /\ completed'[last].count = answer.count
          /\ \A i \in DOMAIN completed' : i \in DOMAIN completed \/ i = last
          /\ \A i \in DOMAIN completed : i < last
          /\ last \notin DOMAIN completed /\ last \in Nat
      <3>1. Completion(answer, c).cred = answer.cred /\ Completion(answer, c).count = answer.count
        BY DEF Completion
      <3> QED BY <1>5, <3>1, Appended
    <2>2. /\ answer.count \in Nat /\ answer.cred \in CredIds
          /\ answer.count <= devices[answer.cred.device].counter
      BY <1>0 DEF CounterInv
    <2>3. ASSUME NEW i \in DOMAIN completed, completed[i].cred = answer.cred
          PROVE  /\ old \in credentials /\ completed[i].count <= old.count
                 /\ completed[i].count \in Nat /\ old.count \in Nat
      BY <1>0, <1>5, <2>3, CompletedTyped DEF CounterInv
    <2>4. ASSUME NEW i \in DOMAIN completed, completed[i].cred = answer.cred
          PROVE  CountRises(completed[i].count, answer.count)
      BY <1>5, <2>2, <2>3, <2>4 DEF CountRises
    <2> HIDE DEF last
    <2>5. AcceptedCountsRise'
      <3> SUFFICES ASSUME NEW i \in DOMAIN completed', NEW j \in DOMAIN completed', i < j,
                          completed'[i].cred = completed'[j].cred
                   PROVE  CountRises(completed'[i].count, completed'[j].count)
        BY DEF AcceptedCountsRise, CountRises
      <3>1. i \in DOMAIN completed
        BY <2>1, CompletedTyped
      <3>2. CASE j = last
        BY <2>1, <2>4, <3>1, <3>2
      <3>3. CASE j \in DOMAIN completed
        BY <1>0, <2>1, <3>1, <3>3 DEF CounterInv, AcceptedCountsRise
      <3> QED BY <2>1, <3>2, <3>3
    <2>6. \A i \in DOMAIN completed' :
             \E k \in credentials' : k.id = completed'[i].cred /\ completed'[i].count <= k.count
      <3>1. ASSUME NEW i \in DOMAIN completed, completed[i].cred = answer.cred
            PROVE  completed[i].count <= cred.count
        BY <1>5, <2>2, <2>3, <2>4, <3>1 DEF CountRises
      <3>2. ASSUME NEW i \in DOMAIN completed, completed[i].cred # answer.cred
            PROVE  \E k \in credentials' : k.id = completed[i].cred /\ completed[i].count <= k.count
        <4>1. PICK k \in credentials : k.id = completed[i].cred /\ completed[i].count <= k.count
          BY <1>0 DEF CounterInv
        <4>2. k \in credentials'
          BY <1>5, <3>2, <4>1
        <4> QED BY <4>1, <4>2
      <3>3. answer.count <= cred.count
        BY <1>5, <2>2
      <3> QED BY <1>5, <2>1, <3>1, <3>2, <3>3
    <2>7. CounterNeverAhead'
      BY <1>0, <1>5, <2>2 DEF CounterInv, CounterNeverAhead
    <2> QED BY <1>0, <1>5, <2>5, <2>6, <2>7 DEF CounterInv
  <1>6. ASSUME NEW r \in Requests, NEW answer \in responses, NEW c \in challenges,
               Enrols(r, answer, c)
        PROVE  CounterInv'
    <2> DEFINE cred == [id |-> answer.cred, user |-> c.user, count |-> answer.count]
    <2>1. /\ answer.cred \notin Ids(credentials) /\ credentials' = credentials \cup {cred}
          /\ UNCHANGED <<devices, responses>>
      BY <1>6 DEF Enrols, Enrol, HandlerRuns
    <2>2. cred.id = answer.cred /\ cred.count = answer.count
      OBVIOUS
    <2> HIDE DEF cred
    <2>3. cred \notin credentials /\ \A k \in credentials : k.id # answer.cred
      BY <2>1, <2>2 DEF Ids
    <2>4. Completes(r, answer, c)
      BY <1>6, CompletesFacts
    <2> QED BY <1>5, <2>1, <2>2, <2>3, <2>4
  <1>7. ASSUME NEW r \in Requests, NEW answer \in responses, NEW c \in challenges,
               NEW old \in credentials, SignsIn(r, answer, c, old)
        PROVE  CounterInv'
    <2> DEFINE cred == [old EXCEPT !.count = answer.count]
    <2>1. /\ credentials' = (credentials \ {old}) \cup {cred}
          /\ UNCHANGED <<devices, responses>>
          /\ old.id = answer.cred /\ CountRises(old.count, answer.count)
      BY <1>7 DEF SignsIn, SetCount, Verified, HandlerRuns
    <2>2. cred.id = answer.cred /\ cred.count = answer.count
      BY <2>1 DEF RequestsProofInv, StoreInv
    <2> HIDE DEF cred
    <2>3. \A k \in credentials : k.id # answer.cred \/ k = old
      BY <1>0, <2>1
    <2>4. Completes(r, answer, c)
      BY <1>7, CompletesFacts
    <2> QED BY <1>5, <2>1, <2>2, <2>3, <2>4
  <1>8. ASSUME NEW r \in Requests, Refuses(r) \/ AnswersMe(r)
                  \/ \E kind \in Ceremonies, user \in Users \cup {NoUser} : Offers(r, kind, user)
        PROVE  UNCHANGED <<credentials, devices, responses, completed>>
    BY <1>8 DEF Refuses, AnswersMe, Me, Outside, Offers, Begin, HandlerRuns
  <1>9. Quiet => UNCHANGED <<credentials, devices, responses, completed>>
    BY DEF Quiet
  <1> QED BY <1>2, <1>3, <1>4, <1>6, <1>7, <1>8, <1>9, StepKinds DEF HandlerStep, DeviceStep

-----------------------------------------------------------------------------
(* Keys.                                                                   *)

(* EnrolledAt and BegunAt of given ceremonies and replies.                 *)
EnrolledIn(s, id) ==
    LET ends == {j \in DOMAIN s : s[j].kind = "register" /\ s[j].cred = id}
    IN  IF ends = {} THEN 0 ELSE CHOOSE j \in ends : TRUE
Once(s, id) ==
    \A i, j \in DOMAIN s :
        /\ s[i].kind = "register" /\ s[j].kind = "register" /\ s[i].cred = id /\ s[j].cred = id
        => i = j
BegunIn(rs, id) == IF id = Earlier THEN -1 ELSE rs[id].before
OptionsIn(rs, r, kind) == rs[r].status = 200 /\ rs[r].kind = kind

(* The enrolment of a key enrolled once is that one.                       *)
LEMMA EnrolledMeaning ==
  ASSUME NEW s, NEW id, Once(s, id)
  PROVE  /\ \A j \in DOMAIN s : s[j].kind = "register" /\ s[j].cred = id => EnrolledIn(s, id) = j
         /\ (\A j \in DOMAIN s : ~ (s[j].kind = "register" /\ s[j].cred = id))
               => EnrolledIn(s, id) = 0
  <1> DEFINE ends == {j \in DOMAIN s : s[j].kind = "register" /\ s[j].cred = id}
  <1>1. ASSUME NEW j \in ends PROVE (CHOOSE k \in ends : TRUE) = j
    <2>1. (CHOOSE k \in ends : TRUE) \in ends
      BY <1>1
    <2> QED BY <2>1 DEF Once
  <1>2. EnrolledIn(s, id) = IF ends = {} THEN 0 ELSE CHOOSE j \in ends : TRUE
    BY DEF EnrolledIn
  <1> QED BY <1>1, <1>2

(* A longer history: a credential is enrolled no earlier in it.            *)
LEMMA EnrolledLater ==
  ASSUME NEW s, NEW t, NEW n \in Nat, NEW id, Once(s, id), Once(t, id),
         DOMAIN s = 1 .. n, DOMAIN t = 1 .. n + 1, \A i \in 1 .. n : t[i] = s[i]
  PROVE  /\ EnrolledIn(s, id) \in 0 .. n /\ EnrolledIn(s, id) <= EnrolledIn(t, id)
         /\ EnrolledIn(t, id) \in Nat
         /\ t[n + 1].kind = "register" /\ t[n + 1].cred = id => EnrolledIn(t, id) = n + 1
  <1>1. CASE \E j \in DOMAIN s : s[j].kind = "register" /\ s[j].cred = id
    <2>1. PICK j \in DOMAIN s : s[j].kind = "register" /\ s[j].cred = id
      BY <1>1
    <2>2. EnrolledIn(s, id) = j
      BY <2>1, EnrolledMeaning
    <2>3. j \in DOMAIN t /\ t[j].kind = "register" /\ t[j].cred = id
      BY <2>1
    <2>4. EnrolledIn(t, id) = j
      BY <2>3, EnrolledMeaning
    <2>5. t[n + 1].kind = "register" /\ t[n + 1].cred = id => n + 1 = j
      BY <2>3 DEF Once
    <2> QED BY <2>1, <2>2, <2>4, <2>5
  <1>2. CASE ~ \E j \in DOMAIN s : s[j].kind = "register" /\ s[j].cred = id
    <2>1. EnrolledIn(s, id) = 0
      BY <1>2, EnrolledMeaning
    <2>2. CASE t[n + 1].kind = "register" /\ t[n + 1].cred = id
      BY <2>1, <2>2, EnrolledMeaning
    <2>3. CASE ~ (t[n + 1].kind = "register" /\ t[n + 1].cred = id)
      <3>1. \A j \in DOMAIN t : j \in DOMAIN s \/ j = n + 1
        OBVIOUS
      <3>2. \A j \in DOMAIN t : ~ (t[j].kind = "register" /\ t[j].cred = id)
        BY <1>2, <2>3, <3>1
      <3>3. EnrolledIn(t, id) = 0
        BY <3>2, EnrolledMeaning
      <3> QED BY <2>1, <2>3, <3>3
    <2> QED BY <2>2, <2>3
  <1> QED BY <1>1, <1>2

(* Options that are given do not change.                                   *)
LEMMA OptionsStay ==
  ASSUME RequestsProofInv, [RequestsNext]_requestVars
  PROVE  /\ \A q \in Requests, kind \in Ceremonies :
               IsOptions(q, kind) => replies'[q] = replies[q] /\ IsOptions(q, kind)'
         /\ \A q \in Requests, kind \in Ceremonies :
               IsOptions(q, kind)' =>
                  \/ IsOptions(q, kind)
                  \/ \E user \in Users \cup {NoUser} : Offers(q, kind, user)
  <1>1. CASE Quiet \/ DeviceStep
    <2>1. UNCHANGED replies
      BY <1>1 DEF Quiet, DeviceStep, MakeKey, SignChallenge
    <2> QED BY <2>1 DEF IsOptions
  <1>2. ASSUME NEW r \in Requests, HandlerStep(r)
        PROVE  /\ \A q \in Requests, kind \in Ceremonies :
                     IsOptions(q, kind) => replies'[q] = replies[q] /\ IsOptions(q, kind)'
               /\ \A q \in Requests, kind \in Ceremonies :
                     IsOptions(q, kind)' =>
                        \/ IsOptions(q, kind)
                        \/ \E user \in Users \cup {NoUser} : Offers(q, kind, user)
    <2>1. HandlerRuns(r) /\ \A q \in Requests : q # r => replies'[q] = replies[q]
      BY <1>2, CompletesFacts DEF HandlerStep, Offers, Refuses, AnswersMe, Completes, HandlerRuns
    <2>2. \A kind \in Ceremonies : ~ IsOptions(r, kind)
      BY <2>1, RunsFacts DEF RequestsProofInv, KeyInv
    <2>3. ASSUME NEW kind \in Ceremonies, IsOptions(r, kind)'
          PROVE  \E user \in Users \cup {NoUser} : Offers(r, kind, user)
      <3>1. ASSUME Refuses(r) PROVE FALSE
        BY <2>3, <3>1 DEF Refuses, IsOptions
      <3>2. ASSUME AnswersMe(r) PROVE FALSE
        <4>1. DOMAIN replies = Requests
          BY DEF RequestsProofInv, WorldInv
        <4> DEFINE good == [status |-> 200, kind |-> "me", token |-> asked[r].token,
                            at |-> now, by |-> process]
        <4>2. good.kind = "me"
          OBVIOUS
        <4> HIDE DEF good
        <4>3. replies'[r] = good \/ replies'[r] = [status |-> 401]
          BY <3>2, <4>1 DEF AnswersMe, Me, Reply, good
        <4> QED BY <2>3, <4>2, <4>3 DEF IsOptions, Ceremonies
      <3>3. ASSUME NEW answer \in responses, NEW c \in challenges, Completes(r, answer, c)
            PROVE  FALSE
        BY <2>3, <3>3 DEF Completes, IsOptions, Ceremonies
      <3>4. ASSUME NEW kind2 \in Ceremonies, NEW user \in Users \cup {NoUser},
                   Offers(r, kind2, user)
            PROVE  kind2 = kind
        <4>1. DOMAIN replies = Requests
          BY DEF RequestsProofInv, WorldInv
        <4> QED BY <2>3, <3>4, <4>1 DEF Offers, Begin, Reply, IsOptions
      <3> QED BY <1>2, <3>1, <3>2, <3>3, <3>4, CompletesFacts DEF HandlerStep
    <2> QED BY <2>1, <2>2, <2>3 DEF IsOptions
  <1> QED BY <1>1, <1>2, StepKinds

(* What the ceremonies' options are based on, where no ceremony ends.      *)
KeysIdle == completed' = completed /\ credentials' = credentials

(* When a ceremony began is fixed once it is complete.                     *)
LEMMA BegunFacts ==
  ASSUME RequestsProofInv, [RequestsNext]_requestVars,
         NEW i \in DOMAIN completed, completed[i].kind = "register"
  PROVE  /\ BegunIn(replies', completed[i].challenge) = BegunIn(replies, completed[i].challenge)
         /\ BegunIn(replies, completed[i].challenge) \in -1 .. Len(completed)
         /\ completed[i].challenge # Earlier =>
               OptionsIn(replies', completed[i].challenge, "register")
  <1>1. CASE completed[i].challenge = Earlier
    BY <1>1, CompletedTyped DEF BegunIn
  <1>2. CASE completed[i].challenge # Earlier
    <2>1. completed[i].challenge \in Requests /\ IsOptions(completed[i].challenge, "register")
      BY <1>2, CompletedTyped DEF RequestsProofInv, KeyInv, ChallengeIds
    <2>2. replies[completed[i].challenge].before \in 0 .. Len(completed)
      BY <2>1 DEF RequestsProofInv, KeyInv, Ceremonies
    <2>3. /\ replies'[completed[i].challenge] = replies[completed[i].challenge]
          /\ OptionsIn(replies', completed[i].challenge, "register")
      <3>1. ASSUME NEW q \in Requests, IsOptions(q, "register")
            PROVE  replies'[q] = replies[q] /\ OptionsIn(replies', q, "register")
        BY <3>1, OptionsStay DEF Ceremonies, IsOptions, OptionsIn
      <3> QED BY <2>1, <3>1
    <2> QED BY <1>2, <2>2, <2>3, CompletedTyped DEF BegunIn
  <1> QED BY <1>1, <1>2

(* Options name their own request and a moment of the history.             *)
LEMMA OptionsTyped ==
  ASSUME RequestsProofInv, [RequestsNext]_requestVars, Len(completed') \in Nat,
         Len(completed) <= Len(completed')
  PROVE  \A r \in Requests, kind \in Ceremonies :
            IsOptions(r, kind)' => /\ Ran(r)' /\ replies'[r].id = r
                                   /\ replies'[r].before \in 0 .. Len(completed')
  <1> SUFFICES ASSUME NEW r \in Requests, NEW kind \in Ceremonies, IsOptions(r, kind)'
               PROVE  /\ Ran(r)' /\ replies'[r].id = r
                      /\ replies'[r].before \in 0 .. Len(completed')
    OBVIOUS
  <1>1. CASE IsOptions(r, kind)
    <2>1. Ran(r)'
      BY <1>1, Places1 DEF RequestsProofInv, KeyInv, ChallengeIds
    <2> QED BY <1>1, <2>1, OptionsStay, CompletedTyped DEF RequestsProofInv, KeyInv
  <1>2. ASSUME NEW user \in Users \cup {NoUser}, Offers(r, kind, user)
        PROVE  /\ Ran(r)' /\ replies'[r].id = r
               /\ replies'[r].before \in 0 .. Len(completed')
    <2>1. Ran(r)' /\ DOMAIN replies = Requests
      BY <1>2, RunsFacts DEF Offers, RequestsProofInv, WorldInv
    <2>2. replies'[r].id = r /\ replies'[r].before = Len(completed)
      BY <1>2, <2>1 DEF Offers, Begin, Reply
    <2> QED BY <2>1, <2>2, CompletedTyped
  <1> QED BY <1>1, <1>2, OptionsStay

(* A step that completes no ceremony.                                      *)
LEMMA KeysIdleStep ==
  ASSUME RequestsProofInv, [RequestsNext]_requestVars, KeysIdle
  PROVE  KeyInv'
  <1>0. /\ KeyInv /\ completed' = completed /\ credentials' = credentials
        /\ responses \subseteq [kind : Ceremonies, id : ChallengeIds, count : Nat, cred : CredIds]
        /\ \A c \in challenges : c.id \in ChallengeIds
    BY DEF RequestsProofInv, WorldInv, StoreInv, KeysIdle
  <1>1. \A r \in Requests, kind \in Ceremonies :
           IsOptions(r, kind)' => /\ Ran(r)' /\ replies'[r].id = r
                                  /\ replies'[r].before \in 0 .. Len(completed')
    BY <1>0, OptionsTyped, CompletedTyped
  <1>2. ASSUME NEW q \in Requests, IsOptions(q, "register")
        PROVE  replies'[q] = replies[q] /\ IsOptions(q, "register")'
    BY <1>2, OptionsStay DEF Ceremonies
  <1>3. \A a \in responses' :
           a.kind = "register" /\ a.id # Earlier =>
              /\ IsOptions(a.id, "register")'
              /\ \A id \in replies'[a.id].listed : id.device # a.cred.device
    <2> DEFINE Good(a) == a.kind = "register" /\ a.id # Earlier =>
                  /\ a.id \in Requests /\ IsOptions(a.id, "register")
                  /\ \A id \in replies[a.id].listed : id.device # a.cred.device
    <2>1. \A a \in responses : Good(a)
      BY <1>0 DEF KeyInv, ChallengeIds
    <2>2. ASSUME NEW d \in Devices, NEW o \in InHand("register"), MakeKey(d, o)
          PROVE  \A a \in responses' : Good(a)
      <3> DEFINE made == [kind |-> "register", id |-> o.id, count |-> devices[d].counter,
                          cred |-> Credential(d, devices[d].keys + 1)]
      <3>1. responses' = responses \cup {made} /\ \A id \in o.listed : id.device # d
        BY <2>2 DEF MakeKey
      <3>2. PICK q \in Requests : o = replies[q] /\ IsOptions(q, "register")
        BY DEF InHand, IsOptions
      <3>3. o.id = q
        BY <1>0, <3>2 DEF KeyInv, Ceremonies
      <3>4. made.id = o.id /\ made.cred.device = d
        BY DEF Credential
      <3> HIDE DEF made
      <3>5. Good(made)
        BY <3>1, <3>2, <3>3, <3>4
      <3> QED BY <2>1, <3>1, <3>5
    <2>3. ASSUME NEW d \in Devices, NEW o \in InHand("login"), SignChallenge(d, o)
          PROVE  \A a \in responses' : Good(a)
      <3> DEFINE count == IF devices[d].counts THEN devices[d].counter + 1 ELSE 0
                 Made(n) == [kind |-> "login", id |-> o.id, cred |-> Credential(d, n),
                             count |-> count]
      <3>1. PICK n \in 1 .. devices[d].keys : responses' = responses \cup {Made(n)}
        BY <2>3 DEF SignChallenge
      <3>2. Made(n).kind = "login"
        OBVIOUS
      <3> HIDE DEF Made
      <3>3. Good(Made(n))
        BY <3>2
      <3> QED BY <2>1, <3>1, <3>3
    <2>4. ASSUME NEW r \in Requests, HandlerStep(r) PROVE responses' = responses
      BY <2>4, CompletesFacts DEF HandlerStep, Offers, Refuses, AnswersMe, Completes, HandlerRuns
    <2>5. Quiet => responses' = responses
      BY DEF Quiet
    <2>6. \A a \in responses' : Good(a)
      <3> HIDE DEF Good
      <3> QED BY <2>1, <2>2, <2>3, <2>4, <2>5, StepKinds DEF DeviceStep
    <2> QED BY <1>2, <2>6
  <1>4. \A c \in challenges' :
           c.kind = "register" /\ c.id # Earlier => IsOptions(c.id, "register")' /\ Listed(c)'
    <2>1. ASSUME NEW c \in challenges, c.kind = "register", c.id # Earlier
          PROVE  IsOptions(c.id, "register")' /\ Listed(c)'
      <3>1. c.id \in Requests /\ IsOptions(c.id, "register") /\ Listed(c)
        BY <1>0, <2>1 DEF KeyInv, ChallengeIds
      <3>2. replies'[c.id] = replies[c.id] /\ IsOptions(c.id, "register")'
        BY <1>2, <3>1
      <3> QED BY <1>0, <3>1, <3>2 DEF Listed, EnrolledAt
    <2>2. ASSUME NEW r \in Requests, NEW kind \in Ceremonies, NEW user \in Users \cup {NoUser},
                 Offers(r, kind, user), NEW c \in challenges', c \notin challenges,
                 c.kind = "register"
          PROVE  IsOptions(c.id, "register")' /\ Listed(c)'
      <3> DEFINE new == [id |-> r, kind |-> kind, user |-> user, expires |-> now + CHALLENGE_TTL]
      <3>1. c = new
        BY <2>2, SweptFacts DEF Offers, Begin
      <3>2. c.id = r /\ c.kind = kind /\ c.user = user
        BY <3>1
      <3>3. DOMAIN replies = Requests
        BY DEF RequestsProofInv, WorldInv
      <3>4. replies'[r] = [status |-> 200, kind |-> kind, id |-> r, listed |-> Ids(RowsOf(user)),
                           before |-> Len(completed)]
        BY <2>2, <3>3 DEF Offers, Begin, Reply
      <3>5. IsOptions(r, "register")'
        BY <2>2, <3>2, <3>4 DEF IsOptions
      <3>6. \A k \in credentials' : k.user = c.user => k.id \in replies'[c.id].listed
        BY <1>0, <3>2, <3>4 DEF Ids, RowsOf
      <3> QED BY <3>2, <3>5, <3>6 DEF Listed
    <2>3. CASE Idles
      BY <2>1, <2>3 DEF Idles
    <2>4. ASSUME NEW r \in Requests, NEW answer \in responses, NEW c \in challenges,
                 Completes(r, answer, c)
          PROVE  challenges' \subseteq challenges
      BY <2>4, SweptFacts DEF Completes
    <2> QED BY <2>1, <2>2, <2>3, <2>4, ChallengeSteps
  <1>5. \A i \in DOMAIN completed' :
           completed'[i].kind = "register" /\ completed'[i].challenge # Earlier =>
              OptionsIn(replies', completed'[i].challenge, "register")
    BY <1>0, BegunFacts
  <1>6. OneKeyEach'
    <2> SUFFICES ASSUME NEW i \in DOMAIN completed, NEW c \in credentials, NEW k \in credentials,
                        completed[i].kind = "register", completed[i].cred = k.id,
                        c # k, c.user = k.user, c.id.device = k.id.device
                 PROVE  EnrolledIn(completed, c.id) > BegunIn(replies', completed[i].challenge)
      BY <1>0 DEF OneKeyEach, EnrolledAt, EnrolledIn, BegunAt, BegunIn
    <2>1. EnrolledIn(completed, c.id) > BegunIn(replies, completed[i].challenge)
      BY <1>0 DEF KeyInv, OneKeyEach, EnrolledAt, EnrolledIn, BegunAt, BegunIn
    <2> QED BY <2>1, BegunFacts
  <1>7. EnrolledOnce'
    BY <1>0 DEF KeyInv, EnrolledOnce
  <1> QED BY <1>1, <1>3, <1>4, <1>5, <1>6, <1>7 DEF KeyInv, IsOptions, OptionsIn

(* Where the credentials come from when a ceremony ends.                   *)
Enrolled(answer, c) ==
    /\ \A k \in credentials' :
          \/ \E l \in credentials : l.id = k.id /\ l.user = k.user
          \/ c.kind = "register" /\ k.id = answer.cred /\ k.user = c.user
    /\ c.kind = "register" => \A l \in credentials : l.id # answer.cred
    /\ c.kind = "register" => answer \in Answers("register")

(* What a ceremony that succeeds does to credentials and history.          *)
LEMMA EnrolledFacts ==
  ASSUME RequestsProofInv, NEW r \in Requests, NEW answer \in responses, NEW c \in challenges,
         Enrols(r, answer, c) \/ \E cred \in credentials : SignsIn(r, answer, c, cred)
  PROVE  Enrolled(answer, c)
  <1>1. CASE Enrols(r, answer, c)
    <2> DEFINE cred == [id |-> answer.cred, user |-> c.user, count |-> answer.count]
    <2>1. /\ answer.cred \notin Ids(credentials) /\ credentials' = credentials \cup {cred}
          /\ answer \in Answers("register") /\ c.kind = "register"
      BY <1>1 DEF Enrols, Enrol, Pending
    <2>2. cred.id = answer.cred /\ cred.user = c.user
      OBVIOUS
    <2> HIDE DEF cred
    <2> QED BY <2>1, <2>2 DEF Enrolled, Ids
  <1>2. ASSUME NEW cred \in credentials, SignsIn(r, answer, c, cred)
        PROVE  Enrolled(answer, c)
    <2> DEFINE new == [cred EXCEPT !.count = answer.count]
    <2>1. /\ credentials' = (credentials \ {cred}) \cup {new} /\ c.kind = "login"
      BY <1>2 DEF SignsIn, SetCount, Pending
    <2>2. new.id = cred.id /\ new.user = cred.user
      BY DEF RequestsProofInv, StoreInv
    <2> HIDE DEF new
    <2> QED BY <2>1, <2>2 DEF Enrolled
  <1> QED BY <1>1, <1>2

(* A step that completes one.                                              *)
LEMMA KeysEndStep ==
  ASSUME RequestsProofInv, [RequestsNext]_requestVars, NEW r \in Requests,
         NEW answer \in responses, NEW c \in challenges,
         Completes(r, answer, c), Enrolled(answer, c)
  PROVE  KeyInv'
  <1> DEFINE n == Len(completed)
  <1>0. /\ KeyInv /\ responses' = responses /\ challenges' \subseteq challenges
        /\ \A a \in responses : a.id \in ChallengeIds
        /\ \A d \in challenges : d.id \in ChallengeIds
        /\ answer.id = c.id /\ answer.kind = c.kind
        /\ \A k, l \in credentials' : k.id = l.id => k = l
        /\ \A i \in DOMAIN completed : \E k \in credentials : k.id = completed[i].cred
    BY SweptFacts, StoreStep DEF RequestsProofInv, WorldInv, StoreInv, CounterInv, Completes, HandlerRuns
  <1>1. /\ n \in Nat /\ Len(completed') = n + 1
        /\ DOMAIN completed = 1 .. n /\ DOMAIN completed' = 1 .. n + 1
        /\ \A i \in 1 .. n : completed'[i] = completed[i]
        /\ completed'[n + 1].kind = c.kind /\ completed'[n + 1].cred = answer.cred
        /\ completed'[n + 1].challenge = c.id
    <2>1. /\ Completion(answer, c).kind = c.kind /\ Completion(answer, c).cred = answer.cred
          /\ Completion(answer, c).challenge = c.id
      BY DEF Completion
    <2> QED BY <2>1, Appended
  <1> HIDE DEF n
  <1>2. \A i \in DOMAIN completed' : i \in DOMAIN completed \/ i = n + 1
    BY <1>1
  <1>3. ASSUME c.kind = "register", NEW i \in DOMAIN completed
        PROVE  completed[i].cred # answer.cred
    BY <1>0, <1>3 DEF Enrolled
  <1>4. EnrolledOnce'
    <2> SUFFICES ASSUME NEW i \in DOMAIN completed', NEW j \in DOMAIN completed',
                        completed'[i].kind = "register", completed'[j].kind = "register",
                        completed'[i].cred = completed'[j].cred
                 PROVE  i = j
      BY DEF EnrolledOnce
    <2>1. CASE i \in DOMAIN completed /\ j \in DOMAIN completed
      BY <1>0, <1>1, <2>1 DEF KeyInv, EnrolledOnce
    <2>2. CASE i \in DOMAIN completed /\ j = n + 1
      BY <1>1, <1>3, <2>2
    <2>3. CASE j \in DOMAIN completed /\ i = n + 1
      BY <1>1, <1>3, <2>3
    <2> QED BY <1>2, <2>1, <2>2, <2>3
  <1>5. \A id : /\ EnrolledIn(completed, id) \in 0 .. n
                /\ EnrolledIn(completed, id) <= EnrolledIn(completed', id)
                /\ EnrolledIn(completed', id) \in Nat
                /\ c.kind = "register" /\ id = answer.cred => EnrolledIn(completed', id) = n + 1
    <2> TAKE id
    <2>1. Once(completed, id) /\ Once(completed', id)
      BY <1>0, <1>4 DEF KeyInv, EnrolledOnce, Once
    <2> QED BY <1>1, <2>1, EnrolledLater
  <1>6. ASSUME NEW q \in Requests, IsOptions(q, "register")
        PROVE  /\ replies'[q] = replies[q] /\ IsOptions(q, "register")'
               /\ replies[q].before \in 0 .. n
    BY <1>0, <1>6, OptionsStay DEF Ceremonies, KeyInv, n
  <1>7. \A q \in Requests, kind \in Ceremonies :
           IsOptions(q, kind)' => /\ Ran(q)' /\ replies'[q].id = q
                                  /\ replies'[q].before \in 0 .. Len(completed')
    BY <1>1, OptionsTyped DEF n
  <1>8. \A a \in responses' :
           a.kind = "register" /\ a.id # Earlier =>
              /\ IsOptions(a.id, "register")'
              /\ \A id \in replies'[a.id].listed : id.device # a.cred.device
    BY <1>0, <1>6 DEF KeyInv, ChallengeIds
  <1>9. \A d \in challenges' :
           d.kind = "register" /\ d.id # Earlier => IsOptions(d.id, "register")' /\ Listed(d)'
    <2> SUFFICES ASSUME NEW d \in challenges, d.kind = "register", d.id # Earlier
                 PROVE  IsOptions(d.id, "register")' /\ Listed(d)'
      BY <1>0
    <2>1. d.id \in Requests /\ IsOptions(d.id, "register") /\ Listed(d)
      BY <1>0 DEF KeyInv, ChallengeIds
    <2>2. ASSUME NEW k \in credentials', k.user = d.user, k.id \notin replies[d.id].listed
          PROVE  EnrolledIn(completed', k.id) > replies[d.id].before
      <3>1. CASE c.kind = "register" /\ k.id = answer.cred
        BY <1>1, <1>5, <1>6, <2>1, <3>1
      <3>2. ASSUME NEW l \in credentials, l.id = k.id, l.user = k.user
            PROVE  EnrolledIn(completed', k.id) > replies[d.id].before
        <4>1. EnrolledIn(completed, k.id) > replies[d.id].before
          BY <2>1, <2>2, <3>2 DEF Listed, EnrolledAt, EnrolledIn
        <4> QED BY <1>1, <1>5, <1>6, <2>1, <4>1
      <3> QED BY <3>1, <3>2 DEF Enrolled
    <2>3. replies'[d.id] = replies[d.id] /\ IsOptions(d.id, "register")'
      BY <1>6, <2>1
    <2> QED BY <2>2, <2>3 DEF Listed, EnrolledAt, EnrolledIn
  <1>10. ASSUME c.kind = "register", c.id # Earlier
         PROVE  /\ c.id \in Requests /\ IsOptions(c.id, "register") /\ Listed(c)
                /\ OptionsIn(replies', c.id, "register")
    BY <1>0, <1>6, <1>10 DEF KeyInv, ChallengeIds, IsOptions, OptionsIn
  <1>11. \A i \in DOMAIN completed' :
           completed'[i].kind = "register" /\ completed'[i].challenge # Earlier =>
              OptionsIn(replies', completed'[i].challenge, "register")
    BY <1>1, <1>2, <1>10, BegunFacts
  <1>12. OneKeyEach'
    <2> SUFFICES ASSUME NEW i \in DOMAIN completed', NEW k \in credentials', NEW l \in credentials',
                        completed'[i].kind = "register", completed'[i].cred = l.id,
                        k # l, k.user = l.user, k.id.device = l.id.device
                 PROVE  EnrolledIn(completed', k.id) > BegunIn(replies', completed'[i].challenge)
      BY DEF OneKeyEach, EnrolledAt, EnrolledIn, BegunAt, BegunIn
    <2>1. k.id # l.id
      BY <1>0
    <2>2. CASE i \in DOMAIN completed
      <3>1. /\ completed[i].kind = "register" /\ completed[i].cred = l.id
            /\ completed'[i] = completed[i]
        BY <1>1, <2>2
      <3>2. /\ BegunIn(replies', completed[i].challenge) = BegunIn(replies, completed[i].challenge)
            /\ BegunIn(replies, completed[i].challenge) \in -1 .. n
        BY <2>2, <3>1, BegunFacts DEF n
      <3>3. CASE c.kind = "register" /\ k.id = answer.cred
        BY <1>1, <1>5, <3>1, <3>2, <3>3
      <3>4. ASSUME NEW m \in credentials, m.id = k.id, m.user = k.user
            PROVE  EnrolledIn(completed, k.id) > BegunIn(replies, completed[i].challenge)
        <4>1. PICK o \in credentials : o.id = l.id /\ o.user = l.user
          BY <1>3, <2>2, <3>1 DEF Enrolled
        <4>2. m # o /\ m.user = o.user /\ m.id.device = o.id.device
          BY <2>1, <3>4, <4>1
        <4> QED BY <1>0, <2>2, <3>1, <3>4, <4>1, <4>2
                DEF KeyInv, OneKeyEach, EnrolledAt, EnrolledIn, BegunAt, BegunIn
      <3> QED BY <1>1, <1>5, <3>1, <3>2, <3>3, <3>4 DEF Enrolled
    <2>3. CASE i = n + 1
      <3>1. c.kind = "register" /\ l.id = answer.cred /\ completed'[i].challenge = c.id
        BY <1>1, <2>3
      <3>2. PICK m \in credentials : m.id = k.id /\ m.user = k.user
        BY <2>1, <3>1 DEF Enrolled
      <3>3. l.user = c.user
        BY <3>1 DEF Enrolled
      <3>4. CASE c.id = Earlier
        BY <1>1, <1>5, <3>1, <3>4 DEF BegunIn
      <3>5. CASE c.id # Earlier
        <4>1. /\ c.id \in Requests /\ IsOptions(c.id, "register") /\ Listed(c)
              /\ replies'[c.id] = replies[c.id] /\ replies[c.id].before \in 0 .. n
          BY <1>6, <1>10, <3>1, <3>5
        <4>2. \A id \in replies[c.id].listed : id.device # answer.cred.device
          BY <1>0, <3>1, <3>5 DEF KeyInv
        <4>3. k.id \notin replies[c.id].listed
          BY <3>1, <4>2
        <4>4. EnrolledIn(completed, k.id) > replies[c.id].before
          BY <3>2, <3>3, <4>1, <4>3 DEF Listed, EnrolledAt, EnrolledIn
        <4> QED BY <1>1, <1>5, <3>1, <3>5, <4>1, <4>4 DEF BegunIn
      <3> QED BY <3>4, <3>5
    <2> QED BY <1>2, <2>2, <2>3
  <1> QED BY <1>4, <1>7, <1>8, <1>9, <1>11, <1>12 DEF KeyInv, IsOptions, OptionsIn

(* A step keeps two keys of one device to overlapping enrolments.          *)
LEMMA KeyStep == RequestsProofInv /\ [RequestsNext]_requestVars => KeyInv'
  <1> SUFFICES ASSUME RequestsProofInv, [RequestsNext]_requestVars PROVE KeyInv'
    OBVIOUS
  <1>1. Quiet => KeysIdle
    BY DEF Quiet, KeysIdle
  <1>2. DeviceStep => KeysIdle
    BY DEF DeviceStep, MakeKey, SignChallenge, KeysIdle
  <1>3. ASSUME NEW r \in Requests, Refuses(r) \/ AnswersMe(r)
                  \/ \E kind \in Ceremonies, user \in Users \cup {NoUser} : Offers(r, kind, user)
        PROVE  KeysIdle
    BY <1>3 DEF Refuses, AnswersMe, Me, Outside, Offers, Begin, KeysIdle
  <1>4. ASSUME NEW r \in Requests, NEW answer \in responses, NEW c \in challenges,
               Enrols(r, answer, c) \/ \E cred \in credentials : SignsIn(r, answer, c, cred)
        PROVE  KeyInv'
    BY <1>4, CompletesFacts, EnrolledFacts, KeysEndStep
  <1> QED BY <1>1, <1>2, <1>3, <1>4, KeysIdleStep, StepKinds DEF HandlerStep

-----------------------------------------------------------------------------
(* Tokens.                                                                 *)

(* A step leaves every row's owner, and what has been completed.           *)
LEMMA HistoryStays ==
  ASSUME RequestsProofInv, [RequestsNext]_requestVars
  PROVE  /\ \A k \in credentials : \E l \in credentials' : l.id = k.id /\ l.user = k.user
         /\ \A i \in DOMAIN completed : i \in DOMAIN completed' /\ completed'[i] = completed[i]
         /\ \A q \in Requests : replies'[q] = replies[q] \/ HandlerStep(q)
         /\ responses \subseteq responses'
  <1>1. CASE Quiet
    BY <1>1 DEF Quiet
  <1>2. CASE DeviceStep
    BY <1>2 DEF DeviceStep, MakeKey, SignChallenge
  <1>3. ASSUME NEW r \in Requests, HandlerStep(r)
        PROVE  /\ \A k \in credentials : \E l \in credentials' : l.id = k.id /\ l.user = k.user
               /\ \A i \in DOMAIN completed : i \in DOMAIN completed' /\ completed'[i] = completed[i]
               /\ \A q \in Requests : replies'[q] = replies[q] \/ HandlerStep(q)
               /\ responses \subseteq responses'
    <2>1. HandlerRuns(r) /\ \A q \in Requests : q # r => replies'[q] = replies[q]
      BY <1>3, CompletesFacts DEF HandlerStep, Offers, Refuses, AnswersMe, Completes, HandlerRuns
    <2>2. \A k \in credentials : \E l \in credentials' : l.id = k.id /\ l.user = k.user
      <3>1. ASSUME NEW answer, NEW old \in credentials, NEW c, SignsIn(r, answer, c, old),
                   NEW k \in credentials
            PROVE  \E l \in credentials' : l.id = k.id /\ l.user = k.user
        <4> DEFINE new == [old EXCEPT !.count = answer.count]
        <4>1. credentials' = (credentials \ {old}) \cup {new}
          BY <3>1 DEF SignsIn, SetCount
        <4>2. new.id = old.id /\ new.user = old.user
          BY DEF RequestsProofInv, StoreInv
        <4> HIDE DEF new
        <4> QED BY <4>1, <4>2
      <3>2. ASSUME NEW answer, NEW c, Enrols(r, answer, c) PROVE credentials \subseteq credentials'
        BY <3>2 DEF Enrols, Enrol
      <3>3. ASSUME Refuses(r) \/ AnswersMe(r)
                     \/ \E kind \in Ceremonies, user \in Users \cup {NoUser} : Offers(r, kind, user)
            PROVE  credentials' = credentials
        BY <3>3 DEF Refuses, AnswersMe, Me, Outside, Offers, Begin
      <3> QED BY <1>3, <3>1, <3>2, <3>3 DEF HandlerStep
    <2>3. \A i \in DOMAIN completed : i \in DOMAIN completed' /\ completed'[i] = completed[i]
      <3>1. ASSUME NEW answer \in responses, NEW c \in challenges, Completes(r, answer, c)
            PROVE  \A i \in DOMAIN completed : i \in DOMAIN completed' /\ completed'[i] = completed[i]
        BY <3>1, Appended
      <3>2. ASSUME Refuses(r) \/ AnswersMe(r)
                     \/ \E kind \in Ceremonies, user \in Users \cup {NoUser} : Offers(r, kind, user)
            PROVE  completed' = completed
        BY <3>2 DEF Refuses, AnswersMe, Me, Offers, Begin
      <3> QED BY <1>3, <3>1, <3>2, CompletesFacts DEF HandlerStep
    <2> QED BY <1>3, <2>1, <2>2, <2>3 DEF HandlerRuns
  <1> QED BY <1>1, <1>2, <1>3, StepKinds

(* A token that was earned stays so.                                       *)
LEMMA TokenStays ==
  ASSUME RequestsProofInv, [RequestsNext]_requestVars, NEW token, TokenInv(token)
  PROVE  TokenInv(token)'
  <1>1. PICK c \in credentials : c.id = token.cid /\ c.user = token.sub
    BY DEF TokenInv
  <1>2. PICK i \in DOMAIN completed :
           /\ completed[i].cred = token.cid /\ completed[i].by = token.key
           /\ completed[i].at + ACCESS_TTL = token.exp
    BY DEF TokenInv
  <1>3. PICK l \in credentials' : l.id = c.id /\ l.user = c.user
    BY HistoryStays
  <1>4. i \in DOMAIN completed' /\ completed'[i] = completed[i]
    BY HistoryStays
  <1> QED BY <1>1, <1>2, <1>3, <1>4 DEF TokenInv

(* A token is issued with the end of a ceremony.                           *)
LEMMA TokenIssued ==
  ASSUME RequestsProofInv, NEW r \in Requests, NEW answer \in responses, NEW c \in challenges,
         Completes(r, answer, c)
  PROVE  /\ replies'[r].kind = "token" /\ TokenInv(replies[r].token)'
  <1>1. PICK k \in credentials' :
           /\ k.id = answer.cred
           /\ replies'[r] = [status |-> 200, kind |-> "token",
                             token |-> [sub |-> k.user, cid |-> k.id, exp |-> now + ACCESS_TTL,
                                        key |-> process]]
    BY DEF Completes
  <1>2. /\ Len(completed) + 1 \in DOMAIN completed'
        /\ completed'[Len(completed) + 1] = Completion(answer, c)
    BY Appended
  <1>3. now \in Nat
    BY DEF RequestsProofInv, WorldInv
  <1>4. /\ Completion(answer, c).cred = answer.cred /\ Completion(answer, c).by = process
        /\ Completion(answer, c).at = now
    BY DEF Completion
  <1>5. /\ replies'[r].token.cid = k.id /\ replies'[r].token.sub = k.user
        /\ replies'[r].token.exp = now + ACCESS_TTL /\ replies'[r].token.key = process
        /\ replies'[r].kind = "token"
    BY <1>1
  <1> QED BY <1>1, <1>2, <1>3, <1>4, <1>5, ConstantFacts DEF TokenInv

(* A step gives out earned tokens only.                                    *)
LEMMA TokensStep == RequestsProofInv /\ [RequestsNext]_requestVars => TokensInv'
  <1> SUFFICES ASSUME RequestsProofInv, [RequestsNext]_requestVars PROVE TokensInv'
    OBVIOUS
  <1>0. DOMAIN replies = Requests /\ now \in Nat
    BY DEF RequestsProofInv, WorldInv
  <1>1. ASSUME NEW r \in Requests, IsOptions(r, "token")'
        PROVE  TokenInv(replies[r].token)'
    <2>1. CASE replies'[r] = replies[r]
      <3>1. PICK token : token = replies[r].token
        OBVIOUS
      <3>2. TokenInv(token)
        BY <1>1, <2>1, <3>1 DEF IsOptions, RequestsProofInv, TokensInv
      <3>3. TokenInv(token)'
        BY <3>2, TokenStays
      <3> QED BY <2>1, <3>1, <3>3 DEF TokenInv
    <2>2. ASSUME NEW answer \in responses, NEW c \in challenges, Completes(r, answer, c)
          PROVE  TokenInv(replies[r].token)'
      BY <2>2, TokenIssued
    <2>3. ASSUME Refuses(r) PROVE FALSE
      BY <1>1, <2>3 DEF Refuses, IsOptions
    <2>4. ASSUME AnswersMe(r) PROVE FALSE
      <3> DEFINE good == [status |-> 200, kind |-> "me", token |-> asked[r].token,
                          at |-> now, by |-> process]
      <3>1. good.kind = "me"
        OBVIOUS
      <3> HIDE DEF good
      <3>2. replies'[r] = good \/ replies'[r] = [status |-> 401]
        BY <1>0, <2>4 DEF AnswersMe, Me, Reply, good
      <3> QED BY <1>1, <3>1, <3>2 DEF IsOptions
    <2>5. ASSUME NEW kind \in Ceremonies, NEW user \in Users \cup {NoUser}, Offers(r, kind, user)
          PROVE  FALSE
      <3>1. replies'[r].kind = kind
        BY <1>0, <2>5 DEF Offers, Begin, Reply
      <3> QED BY <1>1, <3>1 DEF IsOptions, Ceremonies
    <2> QED BY <2>1, <2>2, <2>3, <2>4, <2>5, HistoryStays, CompletesFacts DEF HandlerStep
  <1>2. SessionsAreRecent'
    <2> SUFFICES ASSUME NEW r \in Requests, replies'[r].status = 200, replies'[r].kind = "me"
                 PROVE  \E i \in DOMAIN completed' :
                           /\ completed'[i].cred = replies'[r].token.cid
                           /\ completed'[i].by = replies'[r].by
                           /\ completed'[i].at + ACCESS_TTL >= replies'[r].at
      BY DEF SessionsAreRecent
    <2>1. CASE replies'[r] = replies[r]
      <3>1. PICK i \in DOMAIN completed :
               /\ completed[i].cred = replies[r].token.cid
               /\ completed[i].by = replies[r].by
               /\ completed[i].at + ACCESS_TTL >= replies[r].at
        BY <2>1 DEF RequestsProofInv, TokensInv, SessionsAreRecent
      <3> QED BY <2>1, <3>1, HistoryStays
    <2>2. CASE AnswersMe(r)
      <3> DEFINE token == asked[r].token
                 good == [status |-> 200, kind |-> "me", token |-> token,
                          at |-> now, by |-> process]
      <3>1. TokenInv(token) /\ verify_access_token(token) /\ replies'[r] = good
            /\ completed' = completed
        BY <1>0, <2>2 DEF AnswersMe, Me, Reply
      <3>2. PICK i \in DOMAIN completed :
               /\ completed[i].cred = token.cid /\ completed[i].by = token.key
               /\ completed[i].at + ACCESS_TTL = token.exp
        BY <3>1 DEF TokenInv
      <3>3. good.token = token /\ good.at = now /\ good.by = process
        OBVIOUS
      <3>4. token.key = process /\ now <= token.exp /\ token.exp \in Int
        BY <3>1 DEF verify_access_token, TokenInv
      <3> HIDE DEF good, token
      <3> QED BY <1>0, <3>1, <3>2, <3>3, <3>4
    <2>3. ASSUME NEW answer \in responses, NEW c \in challenges, Completes(r, answer, c)
          PROVE  FALSE
      BY <2>3, TokenIssued
    <2>4. ASSUME Refuses(r) PROVE FALSE
      BY <2>4 DEF Refuses
    <2>5. ASSUME NEW kind \in Ceremonies, NEW user \in Users \cup {NoUser}, Offers(r, kind, user)
          PROVE  FALSE
      <3>1. replies'[r].kind = kind
        BY <1>0, <2>5 DEF Offers, Begin, Reply
      <3> QED BY <3>1 DEF Ceremonies
    <2> QED BY <2>1, <2>2, <2>3, <2>4, <2>5, HistoryStays, CompletesFacts DEF HandlerStep
  <1> QED BY <1>1, <1>2 DEF TokensInv

(* A question is one that can be asked: with an answer that was given, or  *)
(* with a token that was issued.                                           *)
LEMMA QuestionFacts ==
  ASSUME RequestsProofInv, NEW q \in Questions
  PROVE  /\ q.op = "register/begin" => q.user \in Users
         /\ q.op = "login/begin" => q.user \in Users \cup {NoUser}
         /\ q.op = "register/complete" => q.answer \in Answers("register")
         /\ q.op = "login/complete" => q.answer \in Answers("login")
         /\ q.op = "me" => TokenInv(q.token)
         /\ q.op # "none"
  <1>1. CASE q \in [op : {"health"}]
    BY <1>1
  <1>2. CASE q \in [op : {"register/begin"}, user : Users]
    BY <1>2
  <1>3. CASE q \in [op : {"register/complete"}, answer : Answers("register")]
    BY <1>3
  <1>4. CASE q \in [op : {"login/begin"}, user : Users \cup {NoUser}]
    BY <1>4
  <1>5. CASE q \in [op : {"login/complete"}, answer : Answers("login")]
    BY <1>5
  <1>6. CASE q \in [op : {"me"}, token : {t.token : t \in InHand("token")}]
    <2>1. q.op = "me" /\ \E t \in InHand("token") : q.token = t.token
      BY <1>6
    <2>2. \A t \in InHand("token") : TokenInv(t.token)
      BY DEF InHand, RequestsProofInv, TokensInv, IsOptions
    <2> QED BY <2>1, <2>2
  <1> QED BY <1>1, <1>2, <1>3, <1>4, <1>5, <1>6 DEF Questions

(* A request asks with what its client can have.                           *)
LEMMA AskedStep == RequestsProofInv /\ [RequestsNext]_requestVars => AskedInv'
  <1> SUFFICES ASSUME RequestsProofInv, [RequestsNext]_requestVars, NEW r \in Requests,
                      at'[r] = "handler"
               PROVE  /\ asked'[r].op = "register/begin" => asked'[r].user \in Users
                      /\ asked'[r].op = "login/begin" => asked'[r].user \in Users \cup {NoUser}
                      /\ asked'[r].op = "register/complete" =>
                            asked'[r].answer \in Answers("register")'
                      /\ asked'[r].op = "login/complete" => asked'[r].answer \in Answers("login")'
                      /\ asked'[r].op = "me" => TokenInv(asked[r].token)'
    BY DEF AskedInv
  <1>1. \A kind : Answers(kind) \subseteq Answers(kind)'
    BY HistoryStays DEF Answers
  <1>2. PICK q : q = asked'[r]
    OBVIOUS
  <1>3. /\ q.op = "register/begin" => q.user \in Users
        /\ q.op = "login/begin" => q.user \in Users \cup {NoUser}
        /\ q.op = "register/complete" => q.answer \in Answers("register")
        /\ q.op = "login/complete" => q.answer \in Answers("login")
        /\ q.op = "me" => TokenInv(q.token)
    <2>1. CASE q \in Questions
      BY <2>1, QuestionFacts
    <2>2. CASE at[r] = "handler" /\ q = asked[r]
      BY <2>2 DEF RequestsProofInv, AskedInv
    <2> QED BY <1>2, <2>1, <2>2, Places1
  <1>4. q.op = "me" => TokenInv(asked[r].token)'
    <2>1. ASSUME q.op = "me" PROVE TokenInv(asked[r].token)'
      <3>1. PICK token : token = q.token
        OBVIOUS
      <3>2. TokenInv(token)'
        BY <1>3, <2>1, <3>1, TokenStays
      <3> QED BY <1>2, <3>1, <3>2 DEF TokenInv
    <2> QED BY <2>1
  <1> QED BY <1>1, <1>2, <1>3, <1>4

-----------------------------------------------------------------------------
(* The record on the bus.                                                  *)

(* A handler gives an answer.                                              *)
LEMMA HandlerAnswers ==
  ASSUME RequestsProofInv, NEW r \in Requests, HandlerStep(r)
  PROVE  replies'[r].status \in Nat \ {0}
  <1>0. DOMAIN replies = Requests
    BY DEF RequestsProofInv, WorldInv
  <1>1. ASSUME Refuses(r) PROVE replies'[r].status \in Nat \ {0}
    BY <1>1 DEF Refuses
  <1>2. ASSUME NEW answer \in responses, NEW c \in challenges, Completes(r, answer, c)
        PROVE  replies'[r].status \in Nat \ {0}
    BY <1>2 DEF Completes
  <1>3. ASSUME NEW kind, NEW user, Offers(r, kind, user) PROVE replies'[r].status \in Nat \ {0}
    BY <1>0, <1>3 DEF Offers, Begin, Reply
  <1>4. ASSUME AnswersMe(r) PROVE replies'[r].status \in Nat \ {0}
    <2> DEFINE good == [status |-> 200, kind |-> "me", token |-> asked[r].token,
                        at |-> now, by |-> process]
    <2>1. good.status = 200
      OBVIOUS
    <2> HIDE DEF good
    <2>2. replies'[r] = good \/ replies'[r] = [status |-> 401]
      BY <1>0, <1>4 DEF AnswersMe, Me, Reply, good
    <2> QED BY <2>1, <2>2
  <1> QED BY <1>1, <1>2, <1>3, <1>4, CompletesFacts DEF HandlerStep

Faults == [kind : {"bus", "db", "crash"}, hit : Requests \cup {0}]

(* Faults are remembered.                                                  *)
LEMMA FaultFacts ==
  ASSUME RecordInv
  PROVE  /\ \A kind \in {"bus", "db", "crash"}, q \in Requests \cup {0} :
               Fault(kind, q) =>
                  /\ failures' \in Seq(Faults) /\ Len(failures') <= MaxRequestFaults
                  /\ \A k, p : Hit(k, p) => Hit(k, p)'
                  /\ Hit(kind, q)'
         /\ failures' = failures =>
               /\ failures' \in Seq(Faults) /\ Len(failures') <= MaxRequestFaults
               /\ \A k, p : Hit(k, p) => Hit(k, p)'
  <1>0. failures \in Seq(Faults) /\ Len(failures) <= MaxRequestFaults
    BY DEF RecordInv, Faults
  <1>1. ASSUME NEW kind \in {"bus", "db", "crash"}, NEW q \in Requests \cup {0}, Fault(kind, q)
        PROVE  /\ failures' \in Seq(Faults) /\ Len(failures') <= MaxRequestFaults
               /\ \A k, p : Hit(k, p) => Hit(k, p)'
               /\ Hit(kind, q)'
    <2> DEFINE x == [kind |-> kind, hit |-> q]
    <2>1. x \in Faults
      BY DEF Faults
    <2>2. failures' = Append(failures, x) /\ Len(failures) < MaxRequestFaults
      BY <1>1 DEF Fault
    <2>3. Hit(kind, q)' = (x \in Range(failures'))
      BY DEF Hit
    <2> HIDE DEF x
    <2>4. failures' \in Seq(Faults) /\ Len(failures') <= MaxRequestFaults
      BY <1>0, <2>1, <2>2, ConstantFacts
    <2>5. /\ \A i \in DOMAIN failures : i \in DOMAIN failures' /\ failures'[i] = failures[i]
          /\ Len(failures) + 1 \in DOMAIN failures' /\ failures'[Len(failures) + 1] = x
      BY <1>0, <2>1, <2>2
    <2>6. \A k, p : Hit(k, p) => Hit(k, p)'
      BY <2>5 DEF Hit, Range
    <2> QED BY <2>3, <2>4, <2>5, <2>6 DEF Range
  <1>2. failures' = failures => \A k, p : Hit(k, p) => Hit(k, p)'
    BY DEF Hit
  <1> QED BY <1>0, <1>1, <1>2

(* A request that a step leaves where it is keeps its record.              *)
LEMMA RecordStays ==
  ASSUME NEW q \in Requests, Recorded(q), \A k, p : Hit(k, p) => Hit(k, p)',
         asked'[q].op = asked[q].op, asked[q] = Nothing => asked'[q] = Nothing,
         bus'[q] = bus[q], replies'[q] = replies[q],
         at'[q] = at[q] \/ (at'[q] = "cut" /\ q \in Open)
  PROVE  Recorded(q)'
  <1>1. IsAudited(q)' <=> IsAudited(q)
    BY DEF IsAudited
  <1>2. ResponseRecord(q)' = ResponseRecord(q) /\ RequestRecord' = RequestRecord
    BY DEF ResponseRecord, RequestRecord
  <1>3. (Hit("db", q) => Hit("db", q)') /\ (Hit("bus", q) => Hit("bus", q)')
    OBVIOUS
  <1>4. /\ at[q] = "answered" => at'[q] = "answered"
        /\ at'[q] = "none" => at[q] = "none"
        /\ at'[q] = "raised" => at[q] = "raised"
    BY DEF Open
  <1>5. at'[q] \in {"returned", "answered"} => at'[q] = at[q]
    OBVIOUS
  <1>6. IsAudited(q)' =>
           \/ bus'[q] = <<RequestRecord>> /\ (at'[q] = "answered" => Hit("bus", q)')
           \/ bus'[q] = <<>> /\ Hit("bus", q)'
           \/ /\ at'[q] = "answered"
              /\ \/ bus'[q] = <<RequestRecord, ResponseRecord(q)>>
                 \/ bus'[q] = <<ResponseRecord(q)>> /\ Hit("bus", q)'
    <2> SUFFICES ASSUME IsAudited(q)
                 PROVE  \/ bus[q] = <<RequestRecord>> /\ (at'[q] = "answered" => Hit("bus", q)')
                        \/ bus[q] = <<>> /\ Hit("bus", q)'
                        \/ /\ at'[q] = "answered"
                           /\ \/ bus[q] = <<RequestRecord, ResponseRecord(q)>>
                              \/ bus[q] = <<ResponseRecord(q)>> /\ Hit("bus", q)'
      BY <1>1
    <2>0. \/ bus[q] = <<RequestRecord>> /\ (at[q] = "answered" => Hit("bus", q))
          \/ bus[q] = <<>> /\ Hit("bus", q)
          \/ at[q] = "answered" /\ bus[q] = <<RequestRecord, ResponseRecord(q)>>
          \/ at[q] = "answered" /\ bus[q] = <<ResponseRecord(q)>> /\ Hit("bus", q)
      BY DEF Recorded
    <2>1. CASE bus[q] = <<RequestRecord>> /\ (at[q] = "answered" => Hit("bus", q))
      BY <1>3, <1>5, <2>1
    <2>2. CASE bus[q] = <<>> /\ Hit("bus", q)
      BY <1>3, <2>2
    <2>3. CASE at[q] = "answered" /\ bus[q] = <<RequestRecord, ResponseRecord(q)>>
      BY <1>4, <2>3
    <2>4. CASE at[q] = "answered" /\ bus[q] = <<ResponseRecord(q)>> /\ Hit("bus", q)
      BY <1>3, <1>4, <2>4
    <2> QED BY <2>0, <2>1, <2>2, <2>3, <2>4
  <1> QED BY <1>1, <1>2, <1>3, <1>4, <1>5, <1>6 DEF Recorded

Envelopes == [action : {"request", "response"}, status : Nat]

(* An envelope goes out, or a fault has hit its request.                   *)
LEMMA SendFacts ==
  ASSUME RecordInv, NEW r \in Requests, NEW action \in {"request", "response"},
         NEW status \in Nat, Send(r, action, status)
  PROVE  /\ bus' \in [Requests -> Seq(Envelopes)]
         /\ failures' \in Seq(Faults) /\ Len(failures') <= MaxRequestFaults
         /\ \A k, p : Hit(k, p) => Hit(k, p)'
         /\ \A q \in Requests : q # r => bus'[q] = bus[q]
         /\ \/ bus'[r] = Append(bus[r], [action |-> action, status |-> status])
            \/ bus'[r] = bus[r] /\ Hit("bus", r)'
  <1>0. bus \in [Requests -> Seq(Envelopes)]
    BY DEF RecordInv, Envelopes
  <1>1. CASE /\ bus' = [bus EXCEPT ![r] = Append(@, [action |-> action, status |-> status])]
             /\ UNCHANGED failures
    <2> DEFINE x == [action |-> action, status |-> status]
    <2>1. x \in Envelopes
      BY DEF Envelopes
    <2> HIDE DEF x
    <2>2. bus' = [bus EXCEPT ![r] = Append(@, x)]
      BY <1>1 DEF x
    <2>3. bus'[r] = Append(bus[r], x) /\ bus' \in [Requests -> Seq(Envelopes)]
      BY <1>0, <2>1, <2>2
    <2> QED BY <1>0, <1>1, <2>2, <2>3, FaultFacts DEF x
  <1>2. CASE UNCHANGED bus /\ Fault("bus", r)
    BY <1>0, <1>2, FaultFacts
  <1> QED BY <1>1, <1>2 DEF Send

(* Appending to sequences of no and of one element.                        *)
LEMMA Pairs ==
  ASSUME NEW x, NEW y
  PROVE  Append(<<x>>, y) = <<x, y>> /\ Append(<<>>, y) = <<y>>
  <1>1. PICK S : S = {x, y}
    OBVIOUS
  <1>2. x \in S /\ y \in S
    BY <1>1
  <1>3. /\ <<x>> \in Seq(S) /\ <<x, y>> \in Seq(S) /\ <<y>> \in Seq(S) /\ <<>> \in Seq(S)
        /\ Len(<<x>>) = 1 /\ Len(<<x, y>>) = 2
    BY <1>2
  <1>4. Append(<<>>, y) = <<y>>
    BY <1>2, <1>3, SeqEqual, AppendProperties
  <1>5. PICK s : s = <<x>>
    OBVIOUS
  <1>6. /\ Append(s, y) \in Seq(S) /\ Len(Append(s, y)) = 2
        /\ \A i \in 1 .. 1 : Append(s, y)[i] = s[i]
        /\ Append(s, y)[2] = y
    BY <1>2, <1>3, <1>5, AppendProperties
  <1>7. \A i \in 1 .. 2 : Append(s, y)[i] = <<x, y>>[i]
    BY <1>5, <1>6
  <1>8. Append(s, y) = <<x, y>>
    BY <1>3, <1>6, <1>7, SeqEqual
  <1> QED BY <1>4, <1>5, <1>8

(* A step keeps the record of each request determined by its progress.     *)
LEMMA RecordStep == RequestsProofInv /\ [RequestsNext]_requestVars => RecordInv'
  <1> SUFFICES ASSUME RequestsProofInv, [RequestsNext]_requestVars PROVE RecordInv'
    OBVIOUS
  <1>0. /\ RecordInv /\ at \in [Requests -> Places] /\ DOMAIN asked = Requests
        /\ bus \in [Requests -> Seq(Envelopes)]
        /\ \A q \in Requests : Recorded(q)
    BY DEF RequestsProofInv, WorldInv, RecordInv, Envelopes
  <1>1. ASSUME NEW r \in Requests, NEW place,
               at' = [at EXCEPT ![r] = place],
               \A q \in Requests : q # r => asked'[q] = asked[q] /\ replies'[q] = replies[q],
               bus' \in [Requests -> Seq(Envelopes)],
               failures' \in Seq(Faults), Len(failures') <= MaxRequestFaults,
               \A k, p : Hit(k, p) => Hit(k, p)',
               \A q \in Requests : q # r => bus'[q] = bus[q],
               Recorded(r)'
        PROVE  RecordInv'
    <2>1. ASSUME NEW q \in Requests, q # r PROVE Recorded(q)'
      <3>1. /\ asked'[q] = asked[q] /\ replies'[q] = replies[q] /\ bus'[q] = bus[q]
            /\ at'[q] = at[q] /\ Recorded(q)
        BY <1>0, <1>1, <2>1
      <3> QED BY <1>1, <3>1, RecordStays
    <2> QED BY <1>1, <2>1 DEF RecordInv, Envelopes, Faults
  <1>2. ASSUME UNCHANGED <<replies, asked, bus>>,
               \A q \in Requests : at'[q] = at[q] \/ (at'[q] = "cut" /\ q \in Open),
               failures' = failures \/ Fault("crash", 0)
        PROVE  RecordInv'
    <2>1. /\ failures' \in Seq(Faults) /\ Len(failures') <= MaxRequestFaults
          /\ \A k, p : Hit(k, p) => Hit(k, p)'
      BY <1>0, <1>2, FaultFacts
    <2>2. ASSUME NEW q \in Requests PROVE Recorded(q)'
      BY <1>0, <1>2, <2>1, RecordStays
    <2> QED BY <1>0, <1>2, <2>1, <2>2 DEF RecordInv, Envelopes, Faults
  <1>3. ASSUME NEW r \in Requests, NEW question \in Questions, Ask(r, question)
        PROVE  RecordInv'
    <2>1. /\ at' = [at EXCEPT ![r] = "handler"] /\ at[r] = "none"
          /\ asked' = [asked EXCEPT ![r] = question] /\ replies' = replies
          /\ IF question.op = "health" THEN UNCHANGED <<bus, failures>>
                                       ELSE Send(r, "request", 0)
      BY <1>3 DEF Ask, Pass, SendRequest, Arrives, Move, webAuthnVars
    <2>2. /\ at'[r] = "handler" /\ asked'[r] = question /\ bus[r] = <<>>
          /\ replies'[r].status \in Nat
          /\ \A q \in Requests : q # r => asked'[q] = asked[q] /\ replies'[q] = replies[q]
      BY <1>0, <2>1 DEF Recorded
    <2>3. CASE question.op = "health"
      <3>1. ~ IsAudited(r)'
        BY <2>2, <2>3 DEF IsAudited
      <3>2. Recorded(r)'
        BY <2>2, <3>1 DEF Recorded
      <3>3. /\ bus' = bus /\ failures' \in Seq(Faults) /\ Len(failures') <= MaxRequestFaults
            /\ \A k, p : Hit(k, p) => Hit(k, p)'
        BY <1>0, <2>1, <2>3, FaultFacts
      <3> QED BY <1>0, <1>1, <2>1, <2>2, <3>2, <3>3
    <2>4. CASE question.op # "health"
      <3>1. Send(r, "request", 0)
        BY <2>1, <2>4
      <3>2. /\ bus' \in [Requests -> Seq(Envelopes)]
            /\ failures' \in Seq(Faults) /\ Len(failures') <= MaxRequestFaults
            /\ \A k, p : Hit(k, p) => Hit(k, p)'
            /\ \A q \in Requests : q # r => bus'[q] = bus[q]
            /\ \/ bus'[r] = Append(bus[r], [action |-> "request", status |-> 0])
               \/ bus'[r] = bus[r] /\ Hit("bus", r)'
        BY <1>0, <3>1, SendFacts
      <3>3. bus'[r] = <<RequestRecord>> \/ (bus'[r] = <<>> /\ Hit("bus", r)')
        BY <2>2, <3>2 DEF RequestRecord
      <3>4. Recorded(r)'
        BY <2>2, <3>3 DEF Recorded, RequestRecord
      <3> QED BY <1>1, <2>1, <2>2, <3>2, <3>4
    <2> QED BY <2>3, <2>4
  <1>4. ASSUME NEW r \in Requests, Handle(r) \/ HandleFails(r) PROVE RecordInv'
    <2>1. HandlerStep(r) /\ replies'[r].status \in Nat \ {0}
      BY <1>4, HandleKinds, HandlerAnswers
    <2>2. /\ at[r] = "handler"
          /\ \A q \in Requests : q # r => replies'[q] = replies[q]
          /\ asked' = [asked EXCEPT ![r] = [op |-> @.op]]
      BY <2>1, CompletesFacts DEF HandlerStep, Offers, Refuses, AnswersMe, Completes, HandlerRuns
    <2>3. /\ bus' = bus
          /\ \/ at' = [at EXCEPT ![r] = "returned"] /\ (failures' = failures \/ Fault("db", r))
             \/ at' = [at EXCEPT ![r] = "raised"] /\ Fault("db", r)
      BY <1>4 DEF Handle, HandleFails, Returns, Raises, Move
    <2>4. /\ failures' \in Seq(Faults) /\ Len(failures') <= MaxRequestFaults
          /\ \A k, p : Hit(k, p) => Hit(k, p)'
          /\ at'[r] = "returned" \/ (at'[r] = "raised" /\ Hit("db", r)')
      BY <1>0, <2>3, FaultFacts
    <2>5. /\ \A q \in Requests : q # r => asked'[q] = asked[q]
          /\ asked'[r].op = asked[r].op
      BY <1>0, <2>2
    <2>6. IsAudited(r)' => bus'[r] = <<RequestRecord>> \/ (bus'[r] = <<>> /\ Hit("bus", r)')
      BY <1>0, <2>2, <2>3, <2>4, <2>5 DEF Recorded, IsAudited
    <2>7. Recorded(r)'
      BY <2>1, <2>4, <2>6 DEF Recorded, RequestRecord
    <2> QED BY <1>0, <1>1, <2>2, <2>3, <2>4, <2>5, <2>7
  <1>5. ASSUME NEW r \in Requests, Skip(r) PROVE RecordInv'
    <2>1. /\ at' = [at EXCEPT ![r] = "answered"] /\ asked[r].op = "health"
          /\ UNCHANGED <<bus, failures, asked, replies>>
      BY <1>5 DEF Skip, Move, webAuthnVars
    <2>2. at'[r] = "answered" /\ ~ IsAudited(r)' /\ replies'[r].status \in Nat
      BY <1>0, <2>1 DEF IsAudited, Recorded
    <2>3. Recorded(r)'
      BY <2>2 DEF Recorded
    <2>4. /\ failures' \in Seq(Faults) /\ Len(failures') <= MaxRequestFaults
          /\ \A k, p : Hit(k, p) => Hit(k, p)'
      BY <1>0, <2>1, FaultFacts
    <2> QED BY <1>0, <1>1, <2>1, <2>3, <2>4
  <1>6. ASSUME NEW r \in Requests, Respond(r) PROVE RecordInv'
    <2>1. /\ at' = [at EXCEPT ![r] = "answered"] /\ at[r] = "returned"
          /\ UNCHANGED <<asked, replies>> /\ Send(r, "response", replies[r].status)
      BY <1>6 DEF Respond, SendResponse, Move, webAuthnVars
    <2>2. replies[r].status \in Nat /\ at'[r] = "answered"
      BY <1>0, <2>1 DEF Recorded
    <2>3. /\ bus' \in [Requests -> Seq(Envelopes)]
          /\ failures' \in Seq(Faults) /\ Len(failures') <= MaxRequestFaults
          /\ \A k, p : Hit(k, p) => Hit(k, p)'
          /\ \A q \in Requests : q # r => bus'[q] = bus[q]
          /\ \/ bus'[r] = Append(bus[r], ResponseRecord(r))
             \/ bus'[r] = bus[r] /\ Hit("bus", r)'
      BY <1>0, <2>1, <2>2, SendFacts DEF ResponseRecord
    <2>4. ASSUME IsAudited(r)
          PROVE  \/ bus'[r] = <<RequestRecord>> /\ Hit("bus", r)'
                 \/ bus'[r] = <<>> /\ Hit("bus", r)'
                 \/ bus'[r] = <<RequestRecord, ResponseRecord(r)>>
                 \/ bus'[r] = <<ResponseRecord(r)>> /\ Hit("bus", r)'
      <3>1. bus[r] = <<RequestRecord>> \/ (bus[r] = <<>> /\ Hit("bus", r)')
        BY <1>0, <2>1, <2>3, <2>4 DEF Recorded
      <3>2. /\ Append(<<RequestRecord>>, ResponseRecord(r)) = <<RequestRecord, ResponseRecord(r)>>
            /\ Append(<<>>, ResponseRecord(r)) = <<ResponseRecord(r)>>
        <4>1. \A x, y : Append(<<x>>, y) = <<x, y>> /\ Append(<<>>, y) = <<y>>
          BY Pairs
        <4> QED BY <4>1
      <3> QED BY <2>3, <3>1, <3>2
    <2>5. /\ IsAudited(r)' <=> IsAudited(r)
          /\ IsAudited(r) => replies'[r].status # 0
          /\ ResponseRecord(r)' = ResponseRecord(r) /\ RequestRecord' = RequestRecord
      BY <1>0, <2>1 DEF IsAudited, Recorded, ResponseRecord, RequestRecord
    <2>6. Recorded(r)'
      BY <2>1, <2>2, <2>4, <2>5 DEF Recorded
    <2> QED BY <1>1, <2>1, <2>3, <2>6
  <1>7. CASE Devised \/ (Tick /\ UNCHANGED <<middlewareVars, asked>>) \/ UNCHANGED requestVars
    BY <1>2, <1>7 DEF Devised, MakeKey, SignChallenge, Tick, requestVars, middlewareVars, webAuthnVars
  <1>8. CASE Restart
    <2>1. \A q \in Requests : at'[q] = at[q] \/ (at'[q] = "cut" /\ q \in Open)
      BY <1>8 DEF Restart, Crash
    <2> QED BY <1>2, <1>8, <2>1 DEF Restart, Crash
  <1> QED BY <1>3, <1>4, <1>5, <1>6, <1>7, <1>8 DEF RequestsNext

-----------------------------------------------------------------------------

(* The invariant is kept by every step.                                    *)
LEMMA RequestsStep == RequestsProofInv /\ [RequestsNext]_requestVars => RequestsProofInv'
  <1> SUFFICES ASSUME RequestsProofInv, [RequestsNext]_requestVars PROVE RequestsProofInv'
    OBVIOUS
  <1>1. WorldInv' /\ StoreInv'
    BY WorldStep, StoreStep
  <1>2. ChallengeInv' /\ CounterInv' /\ KeyInv'
    BY ChallengeStep, CounterStep, KeyStep
  <1>3. AskedInv' /\ TokensInv' /\ RecordInv'
    BY AskedStep, TokensStep, RecordStep
  <1> QED BY <1>1, <1>2, <1>3 DEF RequestsProofInv

(* The inductive invariant holds in every state.                           *)
THEOREM RequestsInductive == RequestsSpec => []RequestsProofInv
  BY RequestsInitial, RequestsStep, PTL DEF RequestsSpec

(* However often, in whatever order and however late the answers to a      *)
(* challenge reach the completions of router.py, also after a restart, it  *)
(* completes one ceremony and none after its expiry, and the table does    *)
(* not keep it beyond the day's sweep.                                     *)
THEOREM ChallengesServeOnce == RequestsSpec => []CeremonyInv
  <1>1. RequestsProofInv => CeremonyInv
    BY RequestsMeaning
  <1> QED BY <1>1, RequestsInductive, PTL

(* The counts that the sign-in accepts from a credential rise, the stored  *)
(* count is never ahead of the authenticator's, and a user has two keys of *)
(* one device only when the second enrolment was begun before the first    *)
(* was complete.                                                           *)
THEOREM CountsRiseKeysDiffer == RequestsSpec => []CredentialInv
  <1>1. RequestsProofInv => CredentialInv
    BY RequestsMeaning
  <1> QED BY <1>1, RequestsInductive, PTL

(* Every token is of the owner of the credential that signed, and /auth/me *)
(* answers only the bearer of one that this process has issued within the  *)
(* token's life.                                                           *)
THEOREM SessionsAreEarned == RequestsSpec => []SessionInv
  <1>1. RequestsProofInv => SessionInv
    BY RequestsMeaning
  <1> QED BY <1>1, RequestsInductive, PTL

(* The middleware announces every request before its handler runs, and     *)
(* records the answer that the client got, once and after it, except where *)
(* a fault has hit, for any number of requests in any order of their       *)
(* awaits.                                                                 *)
THEOREM RequestsAreRecorded == RequestsSpec => []RequestsInv
  <1>1. RequestsProofInv => RequestsInv
    BY RequestsMeaning
  <1> QED BY <1>1, RequestsInductive, PTL
=============================================================================
