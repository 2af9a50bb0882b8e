--------------------------- MODULE GhPollerProofs ---------------------------
(***************************************************************************)
(* Proofs about GhPoller: for any number of entities, order of keys, page  *)
(* size, cap on the map, timing and number of changes, resets and faults.  *)
(***************************************************************************)
EXTENDS GhPoller, FiniteSetTheorems, TLAPS

-----------------------------------------------------------------------------
(* Lemmas about the operators of the model.                                *)

(* A fault of one kind keeps the counters natural numbers.                 *)
LEMMA FaultType ==
    ASSUME faults \in [FaultKinds -> Nat], NEW k \in FaultKinds, Fault(k)
    PROVE  faults' \in [FaultKinds -> Nat]
  BY DEF Fault

(* The timing constants are natural numbers.                               *)
LEMMA Numbers ==
    /\ PageSize \in Nat /\ SEEN_CAP \in Nat /\ Cadence \in Nat
    /\ RateCap \in Nat /\ ErrorCap \in Nat /\ StallAfter \in Nat
  BY PollerAssumption

(* A task that has slept for nothing, or not longer than the hour, is      *)
(* within any number of sleeps of it.                                      *)
LEMMA SleepsZero ==
    ASSUME elapsed \in Nat, elapsed <= StallAfter, NEW n \in Nat
    PROVE  WithinSleeps(n)
<1>1. 0 \in Sleeps /\ n * 0 = 0 /\ elapsed <= StallAfter + 0
  BY Numbers DEF Sleeps
<1> QED
  BY <1>1 DEF WithinSleeps

(* One more sleep, of at most one of the lengths, takes it one further.    *)
LEMMA SleepsAdd ==
    ASSUME NEW n \in Nat, NEW t \in Nat, NEW s \in Sleeps, t <= StallAfter + n * s,
           NEW d \in Nat, NEW c \in Sleeps, d <= c
    PROVE  \E m \in Sleeps : t + d <= StallAfter + (n + 1) * m
<1>1. Sleeps \subseteq Nat /\ StallAfter \in Nat
  BY Numbers DEF Sleeps
<1>2. \A a, b \in Nat : (n + 1) * a = n * a + a /\ n * a \in Nat
                       /\ (a <= b => n * a <= n * b)
  OBVIOUS
<1>3. CASE s <= c
  <2>1. n * s <= n * c /\ (n + 1) * c = n * c + c /\ n * s \in Nat /\ n * c \in Nat
    BY <1>1, <1>2, <1>3
  <2>2. t + d <= StallAfter + (n + 1) * c
    BY <1>1, <2>1
  <2> QED
    BY <2>2
<1>4. CASE c <= s
  <2>1. (n + 1) * s = n * s + s /\ n * s \in Nat
    BY <1>1, <1>2
  <2>2. t + d <= StallAfter + (n + 1) * s
    BY <1>1, <1>4, <2>1
  <2> QED
    BY <2>2
<1> QED
  BY <1>1, <1>3, <1>4

(* What the map holds for an entity is a number, and not 0 for one that    *)
(* exists; without an updated_field it is 1.                               *)
LEMMA MarkType ==
    ASSUME NEW t \in Nat
    PROVE  Mark(t) \in Nat /\ (~ Mutable => Mark(t) = 1)
  BY DEF Mark

(* The version FetchedAt() looks at is one of the page.                    *)
LEMMA FetchedIsInPage ==
    ASSUME page \subseteq Item, NEW e \in Entities, InPage(e)
    PROVE  \E v \in page : v.entity = e /\ v.at = FetchedAt(e) /\ v \in Item
<1> DEFINE v == CHOOSE v \in page : v.entity = e
<1>1. v \in page /\ v.entity = e
  BY DEF InPage
<1> QED
  BY <1>1 DEF FetchedAt

(* Trimming only forgets.                                                  *)
LEMMA TrimForgets ==
    ASSUME NEW seen \in Seen
    PROVE  /\ Trim(seen) \in Seen
           /\ \A e \in Entities : Trim(seen)[e] \in {0, seen[e]}
  BY DEF Trim, Seen

(* The next map has for each entity what the last one had, or its version  *)
(* in the page, or nothing.                                                *)
LEMMA SeenAfterFacts ==
    ASSUME page \subseteq Item, NEW seen \in Seen
    PROVE  /\ SeenAfter(seen) \in Seen
           /\ \A e \in Entities :
                 SeenAfter(seen)[e] # 0 =>
                    \/ ~ InPage(e) /\ SeenAfter(seen)[e] = seen[e]
                    \/ InPage(e) /\ SeenAfter(seen)[e] = Mark(FetchedAt(e))
<1> DEFINE all == [e \in Entities |-> IF InPage(e) THEN Mark(FetchedAt(e)) ELSE seen[e]]
<1>1. ASSUME NEW e \in Entities, InPage(e)
      PROVE  Mark(FetchedAt(e)) \in Nat
  BY <1>1, FetchedIsInPage, MarkType DEF Item
<1>2. all \in Seen
  BY <1>1 DEF Seen
<1>3. SeenAfter(seen) = Trim(all)
  BY DEF SeenAfter
<1>4. ASSUME NEW e \in Entities, SeenAfter(seen)[e] # 0
      PROVE  SeenAfter(seen)[e] = all[e]
  <2> HIDE DEF all
  <2> QED
    BY <1>2, <1>3, <1>4, TrimForgets
<1>5. SeenAfter(seen) \in Seen
  <2> HIDE DEF all
  <2> QED
    BY <1>2, <1>3, TrimForgets
<1> QED
  BY <1>4, <1>5

(* An event is a version of the page and a label.                          *)
LEMMA EventsOfFacts ==
    ASSUME page \subseteq Item, NEW seen \in Seen
    PROVE  /\ EventsOf(seen) \subseteq Event
           /\ \A v \in page :
                 IsNews(v, seen) =>
                    \E ev \in EventsOf(seen) : ev.entity = v.entity /\ ev.at = v.at
<1> DEFINE event(v) == [entity |-> v.entity, at |-> v.at, listed |-> v.listed,
                        is_new |-> IsNew(v, seen)]
<1>1. EventsOf(seen) = {event(v) : v \in {w \in page : IsNews(w, seen)}}
  BY DEF EventsOf
<1>2. ASSUME NEW v \in page
      PROVE  event(v) \in Event /\ event(v).entity = v.entity /\ event(v).at = v.at
  <2>1. v \in Item /\ IsNew(v, seen) \in BOOLEAN
    BY DEF IsNew
  <2> QED
    BY <2>1 DEF Item, Event
<1> HIDE DEF event
<1> QED
  BY <1>1, <1>2

(* Publishing and baselines only add to what has been reported.            *)
LEMMA ReportedIsKept ==
    ASSUME published \in Seq(Event), baselined \subseteq baselined',
           \/ UNCHANGED published
           \/ \E ev \in Event : published' = Append(published, ev),
           NEW e, NEW mark, Reported(e, mark)
    PROVE  Reported(e, mark)'
<1>1. \A i \in DOMAIN published :
         i \in DOMAIN published' /\ published'[i] = published[i]
  <2>1. CASE UNCHANGED published
    BY <2>1
  <2>2. CASE \E ev \in Event : published' = Append(published, ev)
    BY <2>2
  <2> QED
    BY <2>1, <2>2
<1> QED
  BY <1>1 DEF Reported, Mark

(* The event that is published has been reported.                          *)
LEMMA PublishedIsReported ==
    ASSUME published \in Seq(Event), NEW ev \in Event,
           published' = Append(published, ev)
    PROVE  Reported(ev.entity, Mark(ev.at))'
<1>1. /\ Len(published) + 1 \in DOMAIN published'
      /\ published'[Len(published) + 1] = ev
  OBVIOUS
<1> QED
  BY <1>1 DEF Reported, Mark

-----------------------------------------------------------------------------
(* Every step preserves the invariant.                                     *)

(* The invariant holds initially.                                          *)
LEMMA PollerInit == Init => PollerInv
<1> SUFFICES ASSUME Init PROVE PollerInv
  OBVIOUS
<1>1. NothingSeen \in Seen
  BY DEF NothingSeen, Seen
<1>2. /\ lookup \in [exists : BOOLEAN, seen : Seen] /\ next_cp \in Seen
      /\ published \in Seq(Event) /\ baselined \subseteq Version
      /\ page \subseteq Item /\ events \subseteq Event
  BY <1>1 DEF Init
<1>6. /\ listed_at \in [Entities -> Nat] /\ updated_at \in [Entities -> Nat]
      /\ faults \in [FaultKinds -> Nat]
  BY DEF Init
<1>7. backoff \in Nat /\ backoff <= RateCap
      /\ {clock, elapsed, missed, resets} \subseteq Nat
  BY Numbers DEF Init
<1>8. pc \in Places /\ (events # {} <=> pc = "emit") /\ alarmed \in BOOLEAN
  BY DEF Init, Places
<1>5. TypeOK
  BY <1>2, <1>6, <1>7, <1>8 DEF TypeOK
<1>3. RememberedIsReported /\ SeenInv /\ RoundInv
  BY DEF Init, RememberedIsReported, SeenInv, RoundInv, NothingSeen
<1>4. StallInv
  BY <1>7, Numbers, SleepsZero DEF Init, StallInv, StallIsReported
<1> QED
  BY <1>5, <1>3, <1>4 DEF PollerInv

(* Steps that change neither the map nor what has been reported, and leave *)
(* the round alone or end it.                                              *)
LEMMA QuietStep ==
    ASSUME PollerInv, UNCHANGED <<lookup, published, baselined>>,
           \/ UNCHANGED <<pc, events, next_cp>>
           \/ pc' \notin {"emit", "save"} /\ next_cp' \in {next_cp, NothingSeen}
    PROVE  RememberedIsReported' /\ SeenInv' /\ RoundInv'
<1>1. \A e \in Entities : NothingSeen[e] = 0
  BY DEF NothingSeen
<1>2. \A e, mark : Reported(e, mark)' <=> Reported(e, mark)
  BY DEF Reported, Mark
<1>3. RememberedIsReported'
  BY <1>2 DEF PollerInv, RememberedIsReported
<1>4. SeenInv'
  BY <1>1 DEF PollerInv, SeenInv
<1>5. RoundInv'
  BY <1>2 DEF PollerInv, RoundInv, Mark
<1> QED
  BY <1>3, <1>4, <1>5

(* A tick of the clock at an entity keeps the invariant.                   *)
LEMMA TicksKeep ==
    ASSUME PollerInv, NEW e \in Entities, Ticks(e),
           listed_at' \in [Entities -> Nat]
    PROVE  PollerInv'
<1>4. TypeOK
  BY DEF PollerInv
<1>5. clock' \in Nat /\ updated_at' \in [Entities -> Nat]
  BY <1>4 DEF TypeOK, Ticks
<1>6. UNCHANGED <<lookup, pc, page, events, next_cp, backoff, elapsed, published,
                  baselined, alarmed, missed, resets, faults>>
  BY DEF Ticks, roundVars
<1>1. TypeOK'
  BY <1>4, <1>5, <1>6 DEF TypeOK
<1>2. RememberedIsReported' /\ SeenInv' /\ RoundInv'
  BY QuietStep DEF Ticks, roundVars
<1>3. StallInv'
  BY DEF PollerInv, StallInv, StallIsReported, WithinSleeps, Ticks
<1> QED
  BY <1>1, <1>2, <1>3 DEF PollerInv

(* A change at GitHub keeps the invariant.                                 *)
LEMMA CreateUpdateKeep ==
    ASSUME PollerInv, NEW e \in Entities, Create(e) \/ Update(e)
    PROVE  PollerInv'
<1>1. Ticks(e)
  BY DEF Create, Update
<1>2. listed_at' \in [Entities -> Nat]
  BY DEF PollerInv, TypeOK, Create, Update
<1> QED
  BY <1>1, <1>2, TicksKeep

(* The operator's reset keeps the invariant.                               *)
LEMMA ResetKeeps == PollerInv /\ ResetCheckpoint => PollerInv'
<1> SUFFICES ASSUME PollerInv, ResetCheckpoint PROVE PollerInv'
  OBVIOUS
<1>1. TypeOK /\ NothingSeen \in Seen /\ \A e \in Entities : NothingSeen[e] = 0
  BY DEF PollerInv, NothingSeen, Seen
<1>2. UNCHANGED <<listed_at, updated_at, clock, pc, page, events, next_cp, backoff,
                  elapsed, published, baselined, alarmed, missed, faults>>
  BY DEF ResetCheckpoint, githubVars, roundVars
<1>3. /\ lookup' = [exists |-> FALSE, seen |-> NothingSeen]
      /\ resets' = resets + 1
  BY DEF ResetCheckpoint
<1>4. TypeOK'
  BY <1>1, <1>2, <1>3 DEF TypeOK
<1>5. RememberedIsReported'
  BY <1>1, <1>3 DEF RememberedIsReported
<1>6. SeenInv'
  BY <1>1, <1>2, <1>3 DEF PollerInv, SeenInv
<1>7. RoundInv'
  BY <1>2 DEF PollerInv, RoundInv, Reported, Mark
<1>8. StallInv'
  BY <1>2 DEF PollerInv, StallInv, StallIsReported, WithinSleeps
<1> QED
  BY <1>4, <1>5, <1>6, <1>7, <1>8 DEF PollerInv

(* A start of the task keeps the invariant.                                *)
LEMMA StartKeeps == PollerInv /\ Start => PollerInv'
<1> SUFFICES ASSUME PollerInv, Start PROVE PollerInv'
  OBVIOUS
<1>1. /\ pc = "off" /\ pc' = "fetch"
      /\ UNCHANGED <<listed_at, updated_at, clock, lookup, page, events, next_cp,
                     backoff, elapsed, published, baselined, alarmed, missed, resets, faults>>
  BY DEF Start, githubVars, roundVars
<1>2. TypeOK'
  BY <1>1 DEF PollerInv, TypeOK, Places
<1>3. RememberedIsReported' /\ SeenInv' /\ RoundInv'
  BY <1>1, QuietStep
<1>4. StallInv'
  BY <1>1 DEF PollerInv, StallInv, StallIsReported, WithinSleeps
<1> QED
  BY <1>2, <1>3, <1>4 DEF PollerInv

(* A fetch keeps the invariant.                                            *)
LEMMA FetchKeeps == PollerInv /\ Fetch => PollerInv'
<1> SUFFICES ASSUME PollerInv, Fetch PROVE PollerInv'
  OBVIOUS
<1>1. /\ pc = "fetch" /\ pc' = "load"
      /\ UNCHANGED <<listed_at, updated_at, clock, lookup, events, next_cp, backoff,
                     elapsed, published, baselined, alarmed, missed, resets, faults>>
  BY DEF Fetch, githubVars
<1>2. page' \subseteq Item
  <2>1. \A e \in FirstPage : e \in Entities
    BY DEF FirstPage
  <2>2. \A e \in Entities : updated_at[e] \in Nat /\ listed_at[e] \in Nat
    BY DEF PollerInv, TypeOK
  <2> QED
    BY <2>1, <2>2 DEF Fetch, Item
<1>3. TypeOK'
  BY <1>1, <1>2 DEF PollerInv, TypeOK, Places
<1>4. RememberedIsReported' /\ SeenInv' /\ RoundInv'
  BY <1>1, QuietStep
<1>5. StallInv'
  BY <1>1 DEF PollerInv, StallInv, StallIsReported, WithinSleeps
<1> QED
  BY <1>3, <1>4, <1>5 DEF PollerInv

(* What diff() does not report, the checkpoint already remembers.          *)
LEMMA NoNewsIsRemembered ==
    ASSUME SeenInv, NEW v \in Item, ~ IsNews(v, lookup.seen)
    PROVE  lookup.seen[v.entity] # 0 /\ lookup.seen[v.entity] = Mark(v.at)
<1>1. v.entity \in Entities
  BY DEF Item
<1>2. CASE Mutable
  BY <1>2 DEF IsNews, IsNew, Mark
<1>3. CASE ~ Mutable
  BY <1>1, <1>3 DEF IsNews, IsNew, Mark, SeenInv
<1> QED
  BY <1>2, <1>3

(* The diff against the checkpoint keeps the invariant.                    *)
LEMMA LoadKeeps == PollerInv /\ Load => PollerInv'
<1> SUFFICES ASSUME PollerInv, Load PROVE PollerInv'
  OBVIOUS
<1>1. /\ next_cp' = SeenAfter(lookup.seen)
      /\ pc' = IF events' = {} THEN "save" ELSE "emit"
      /\ UNCHANGED <<listed_at, updated_at, clock, lookup, page, backoff, elapsed,
                     published, alarmed, missed, resets, faults>>
  BY DEF Load, githubVars
<1>2. TypeOK /\ page \subseteq Item /\ lookup.seen \in Seen /\ SeenInv
  BY DEF PollerInv, TypeOK
<1>3. \/ lookup.exists /\ events' = EventsOf(lookup.seen) /\ UNCHANGED baselined
      \/ /\ ~ lookup.exists /\ events' = {}
         /\ baselined' = baselined \cup {[entity |-> v.entity, at |-> v.at] : v \in page}
  BY DEF Load
<1>4. next_cp' \in Seen
  BY <1>1, <1>2, SeenAfterFacts
<1>5. events' \subseteq Event
  BY <1>2, <1>3, EventsOfFacts
<1>6. baselined \subseteq baselined' /\ baselined' \subseteq Version
  <2>1. {[entity |-> v.entity, at |-> v.at] : v \in page} \subseteq Version
    BY <1>2 DEF Item, Version
  <2> QED
    BY <1>2, <1>3, <2>1 DEF TypeOK
<1>7. TypeOK'
  BY <1>1, <1>2, <1>4, <1>5, <1>6 DEF TypeOK, Places
<1>8. \A e, mark : Reported(e, mark) => Reported(e, mark)'
  BY <1>1, <1>2, <1>6, ReportedIsKept DEF TypeOK
<1>9. RememberedIsReported'
  BY <1>1, <1>8 DEF PollerInv, RememberedIsReported
<1>10. SeenInv'
  <2>1. ASSUME ~ Mutable, NEW e \in Entities
        PROVE  next_cp'[e] \in {0, 1}
    <3>1. CASE next_cp'[e] = 0
      BY <3>1
    <3>2. CASE next_cp'[e] # 0 /\ ~ InPage(e) /\ next_cp'[e] = lookup.seen[e]
      BY <1>2, <2>1, <3>2 DEF SeenInv
    <3>3. CASE next_cp'[e] # 0 /\ InPage(e) /\ next_cp'[e] = Mark(FetchedAt(e))
      BY <2>1, <3>3 DEF Mark
    <3> QED
      BY <1>1, <1>2, <3>1, <3>2, <3>3, SeenAfterFacts
  <2> QED
    BY <1>1, <1>2, <2>1 DEF SeenInv
<1>11. RoundInv'
  <2> SUFFICES ASSUME NEW e \in Entities, next_cp'[e] # 0
               PROVE  \/ Reported(e, next_cp[e])'
                      \/ \E ev \in events' : ev.entity = e /\ Mark(ev.at) = next_cp'[e]
    BY DEF RoundInv, Mark
  <2>1. CASE ~ InPage(e) /\ next_cp'[e] = lookup.seen[e]
    <3>1. Reported(e, lookup.seen[e])
      BY <2>1 DEF PollerInv, RememberedIsReported
    <3>2. Reported(e, lookup.seen[e])'
      BY <1>1, <1>8, <3>1
    <3> QED
      BY <1>1, <2>1, <3>2
  <2>2. CASE InPage(e) /\ next_cp'[e] = Mark(FetchedAt(e))
    <3>1. PICK v \in page : v.entity = e /\ next_cp'[e] = Mark(v.at) /\ v \in Item
      BY <1>2, <2>2, FetchedIsInPage
    <3>2. CASE ~ lookup.exists
      <4>1. [entity |-> e, at |-> v.at] \in baselined'
        BY <1>3, <3>1, <3>2
      <4> QED
        BY <3>1, <4>1 DEF Reported, Mark
    <3>3. CASE lookup.exists /\ IsNews(v, lookup.seen)
      BY <1>2, <1>3, <3>1, <3>3, EventsOfFacts
    <3>4. CASE ~ IsNews(v, lookup.seen)
      <4>1. Reported(e, Mark(v.at))
        BY <1>2, <3>1, <3>4, NoNewsIsRemembered DEF PollerInv, RememberedIsReported
      <4>2. Reported(e, Mark(v.at))'
        BY <1>8, <4>1 DEF Reported, Mark
      <4> QED
        BY <3>1, <4>2 DEF Reported, Mark
    <3> QED
      BY <3>2, <3>3, <3>4
  <2> QED
    BY <1>1, <1>2, <2>1, <2>2, SeenAfterFacts
<1>12. StallInv'
  BY <1>1 DEF PollerInv, StallInv, StallIsReported, WithinSleeps
<1> QED
  BY <1>7, <1>9, <1>10, <1>11, <1>12 DEF PollerInv

(* A publication keeps the invariant.                                      *)
LEMMA EmitKeeps ==
    ASSUME PollerInv, NEW ev \in events, Emit(ev)
    PROVE  PollerInv'
<1>1. /\ published' = Append(published, ev)
      /\ events' = events \ {ev}
      /\ pc = "emit"
      /\ pc' = IF events' = {} THEN "save" ELSE "emit"
      /\ UNCHANGED <<listed_at, updated_at, clock, lookup, page, next_cp, backoff,
                     elapsed, baselined, alarmed, missed, resets, faults>>
  BY DEF Emit, githubVars
<1>2. TypeOK /\ ev \in Event /\ published \in Seq(Event)
  BY DEF PollerInv, TypeOK
<1>3. published' \in Seq(Event)
  BY <1>1, <1>2
<1>4. TypeOK'
  BY <1>1, <1>2, <1>3 DEF TypeOK, Places
<1>5. \A e, mark : Reported(e, mark) => Reported(e, mark)'
  BY <1>1, <1>2, ReportedIsKept
<1>6. RememberedIsReported'
  BY <1>1, <1>5 DEF PollerInv, RememberedIsReported
<1>7. SeenInv'
  BY <1>1 DEF PollerInv, SeenInv
<1>8. RoundInv'
  <2> SUFFICES ASSUME NEW e \in Entities, next_cp[e] # 0
               PROVE  \/ Reported(e, next_cp[e])'
                      \/ \E d \in events' : d.entity = e /\ Mark(d.at) = next_cp[e]
    BY <1>1 DEF RoundInv, Mark
  <2>1. CASE Reported(e, next_cp[e])
    <3>1. Reported(e, next_cp[e])'
      BY <1>1, <1>5, <2>1 DEF Reported, Mark
    <3> QED
      BY <3>1
  <2>2. CASE ev.entity = e /\ Mark(ev.at) = next_cp[e]
    <3>1. Reported(ev.entity, Mark(ev.at))'
      BY <1>1, <1>2, PublishedIsReported
    <3> QED
      BY <1>1, <2>2, <3>1 DEF Reported, Mark
  <2>3. CASE \E d \in events : d # ev /\ d.entity = e /\ Mark(d.at) = next_cp[e]
    BY <1>1, <2>3
  <2> QED
    BY <1>1, <2>1, <2>2, <2>3 DEF PollerInv, RoundInv
<1>9. StallInv'
  BY <1>1 DEF PollerInv, StallInv, StallIsReported, WithinSleeps
<1> QED
  BY <1>4, <1>6, <1>7, <1>8, <1>9 DEF PollerInv

(* What the round was going to save is reported once nothing is left to    *)
(* publish.                                                                *)
LEMMA SavedIsReported ==
    ASSUME PollerInv, pc = "save", Saved, UNCHANGED <<published, baselined>>
    PROVE  /\ lookup' \in [exists : BOOLEAN, seen : Seen]
           /\ RememberedIsReported'
           /\ next_cp' = NothingSeen => SeenInv'
<1>1. lookup' = [exists |-> TRUE, seen |-> next_cp] /\ next_cp \in Seen /\ events = {}
  BY DEF PollerInv, TypeOK, Saved
<1>2. \A e \in Entities : next_cp[e] # 0 => Reported(e, next_cp[e])
  BY <1>1 DEF PollerInv, RoundInv
<1>3. RememberedIsReported'
  BY <1>1, <1>2 DEF RememberedIsReported, Reported, Mark
<1>4. next_cp' = NothingSeen => SeenInv'
  BY <1>1 DEF PollerInv, SeenInv, NothingSeen
<1> QED
  BY <1>1, <1>3, <1>4

(* A task that goes to sleep has nothing in hand.                          *)
LEMMA SleepType ==
    ASSUME Sleep
    PROVE  /\ pc' = "sleep" /\ page' = {} /\ events' = {}
           /\ next_cp' = NothingSeen /\ next_cp' \in Seen
  BY DEF Sleep, NothingSeen, Seen

(* A task that has slept for nothing is not late.                          *)
LEMMA StallAfresh ==
    ASSUME elapsed' = 0, missed' = 0
    PROVE  StallInv'
<1>1. 0 \in Sleeps /\ 0 <= StallAfter + 0 * 0 /\ 0 <= StallAfter + (0 + 1) * 0
  BY Numbers DEF Sleeps
<1>2. WithinSleeps(missed)' /\ WithinSleeps(missed + 1)'
  BY <1>1 DEF WithinSleeps, Sleeps
<1> QED
  BY <1>2 DEF StallInv, StallIsReported

(* A save keeps the invariant: all it remembers has been reported.         *)
LEMMA SaveKeeps == PollerInv /\ Save => PollerInv'
<1> SUFFICES ASSUME PollerInv, Save PROVE PollerInv'
  OBVIOUS
<1>1. /\ pc = "save" /\ Saved /\ Sleep
      /\ backoff' = 0 /\ elapsed' = 0 /\ alarmed' = FALSE /\ missed' = 0
      /\ UNCHANGED <<listed_at, updated_at, clock, published, baselined, resets, faults>>
  BY DEF Save, githubVars
<1>2. /\ lookup' \in [exists : BOOLEAN, seen : Seen]
      /\ RememberedIsReported' /\ SeenInv'
  BY <1>1, SavedIsReported, SleepType
<1>5. /\ TypeOK /\ backoff' \in Nat /\ backoff' <= RateCap /\ elapsed' \in Nat
      /\ pc' = "sleep" /\ page' \subseteq Item /\ events' = {} /\ next_cp' \in Seen
  BY <1>1, Numbers, SleepType DEF PollerInv
<1>3. TypeOK'
  BY <1>1, <1>2, <1>5 DEF TypeOK, Places
<1>6. RoundInv'
  BY <1>1, SleepType DEF RoundInv
<1>4. StallInv'
  BY <1>1, StallAfresh
<1> QED
  BY <1>2, <1>3, <1>4, <1>6 DEF PollerInv

(* The backoff grows up to its cap and never beyond it.                    *)
LEMMA BackoffType ==
    ASSUME backoff \in Nat, NEW cap \in Nat \ {0}
    PROVE  NextBackoff(cap) \in Nat /\ NextBackoff(cap) <= cap
  BY DEF NextBackoff

(* What every failure has in common.                                       *)
LEMMA FailsFacts ==
    ASSUME PollerInv, NEW k \in FaultKinds, NEW cap \in {RateCap, ErrorCap},
           Fails(k, cap),
           lookup' \in [exists : BOOLEAN, seen : Seen], published' \in Seq(Event)
    PROVE  TypeOK' /\ RoundInv' /\ StallInv'
<1>1. /\ Fault(k) /\ Sleep
      /\ backoff' = NextBackoff(cap)
      /\ MaybeHealth
      /\ UNCHANGED <<listed_at, updated_at, clock, elapsed, baselined, resets>>
  BY DEF Fails, githubVars
<1>2. TypeOK
  BY DEF PollerInv
<1>3. faults' \in [FaultKinds -> Nat]
  BY <1>1, <1>2, FaultType DEF TypeOK
<1>4. backoff' \in Nat /\ (backoff' <= RateCap \/ backoff' <= ErrorCap)
  <2>1. cap \in Nat \ {0}
    BY PollerAssumption
  <2> QED
    BY <1>1, <1>2, <2>1, BackoffType DEF TypeOK
<1>8. alarmed' \in BOOLEAN /\ missed' \in Nat
  <2>1. alarmed \in BOOLEAN /\ missed \in Nat
    BY <1>2 DEF TypeOK
  <2>2. alarmed' \in {alarmed, TRUE}
    BY <1>1, Zenon DEF MaybeHealth
  <2>3. missed' \in {missed, missed + 1}
    BY <1>1, Zenon DEF MaybeHealth
  <2>4. alarmed' \in BOOLEAN
    BY <2>1, <2>2, Zenon
  <2> QED
    BY <2>1, <2>3, <2>4
<1>9. /\ pc' = "sleep" /\ page' \subseteq Item /\ events' = {} /\ next_cp' \in Seen
  BY <1>1, SleepType
<1>5. TypeOK'
  BY <1>1, <1>2, <1>3, <1>4, <1>8, <1>9 DEF TypeOK, Places
<1>6. RoundInv'
  BY <1>1, SleepType DEF RoundInv
<1>7. StallInv'
  <2>1. elapsed' = elapsed /\ elapsed \in Nat /\ missed \in Nat
    BY <1>1, <1>2 DEF TypeOK
  <2>2. CASE elapsed <= StallAfter
    <3>1. WithinSleeps(missed') /\ WithinSleeps(missed' + 1)
      BY <1>8, <2>1, <2>2, SleepsZero
    <3> QED
      BY <2>1, <3>1 DEF StallInv, StallIsReported, WithinSleeps, Sleeps
  <2>3. CASE elapsed > StallAfter /\ alarmed' = TRUE
    BY <2>3 DEF StallInv, StallIsReported
  <2>4. CASE elapsed > StallAfter /\ missed' = missed + 1 /\ alarmed' = alarmed
    <3>1. CASE alarmed
      BY <2>4, <3>1 DEF StallInv, StallIsReported
    <3>2. CASE ~ alarmed
      <4>1. PICK s \in Sleeps : elapsed <= StallAfter + (missed + 1) * s
        BY <3>2 DEF PollerInv, StallInv, StallIsReported, WithinSleeps
      <4>2. 0 \in Sleeps
        BY DEF Sleeps
      <4>3. \E m \in Sleeps : elapsed + 0 <= StallAfter + (missed + 1 + 1) * m
        BY <2>1, <4>1, <4>2, SleepsAdd
      <4>4. PICK m \in Sleeps : elapsed <= StallAfter + (missed + 1 + 1) * m
        BY <2>1, <4>3
      <4>6. missed' = missed + 1 /\ elapsed' = elapsed
        BY <2>1, <2>4
      <4>7. elapsed' <= StallAfter + missed' * s
        BY <4>1, <4>6
      <4>8. elapsed' <= StallAfter + (missed' + 1) * m
        BY <4>4, <4>6
      <4>5. WithinSleeps(missed)' /\ WithinSleeps(missed + 1)'
        BY <4>7, <4>8 DEF WithinSleeps, Sleeps
      <4> QED
        BY <4>5 DEF StallInv, StallIsReported
    <3> QED
      BY <3>1, <3>2
  <2>5. elapsed <= StallAfter \/ elapsed > StallAfter
    BY <2>1, Numbers
  <2> QED
    BY <1>1, <2>2, <2>3, <2>4, <2>5 DEF MaybeHealth
<1> QED
  BY <1>5, <1>6, <1>7

(* A failure at any await keeps the invariant.                             *)
LEMMA FailuresKeep ==
    ASSUME PollerInv,
           RateLimited \/ StepFails \/ SaveReplyLost \/ \E ev \in events : EmitReplyLost(ev)
    PROVE  PollerInv'
<1>1. TypeOK /\ {"http", "error", "reply", "crash"} \subseteq FaultKinds
  BY DEF PollerInv, FaultKinds
<1>2. ASSUME NEW k \in FaultKinds, NEW cap, Fails(k, cap)
      PROVE  UNCHANGED baselined /\ pc' = "sleep" /\ next_cp' = NothingSeen
  BY <1>2 DEF Fails, Sleep
<1>3. ASSUME NEW k \in FaultKinds, NEW cap \in {RateCap, ErrorCap}, Fails(k, cap),
             UNCHANGED <<lookup, published>>
      PROVE  PollerInv'
  <2>1. TypeOK' /\ RoundInv' /\ StallInv'
    BY <1>1, <1>3, FailsFacts DEF TypeOK
  <2>2. RememberedIsReported' /\ SeenInv'
    BY <1>2, <1>3, QuietStep
  <2> QED
    BY <2>1, <2>2 DEF PollerInv
<1>4. CASE RateLimited
  BY <1>1, <1>3, <1>4 DEF RateLimited
<1>5. CASE StepFails
  BY <1>1, <1>3, <1>5 DEF StepFails
<1>6. CASE SaveReplyLost
  <2>1. pc = "save" /\ Saved /\ Fails("reply", ErrorCap) /\ UNCHANGED published
    BY <1>6 DEF SaveReplyLost
  <2>2. /\ lookup' \in [exists : BOOLEAN, seen : Seen]
        /\ RememberedIsReported' /\ SeenInv'
    BY <1>1, <1>2, <2>1, SavedIsReported
  <2>3. TypeOK' /\ RoundInv' /\ StallInv'
    BY <1>1, <2>1, <2>2, FailsFacts DEF TypeOK
  <2> QED
    BY <2>2, <2>3 DEF PollerInv
<1>7. ASSUME NEW ev \in events, EmitReplyLost(ev)
      PROVE  PollerInv'
  <2>1. /\ published' = Append(published, ev)
        /\ Fails("reply", ErrorCap) /\ UNCHANGED lookup
    BY <1>7 DEF EmitReplyLost
  <2>2. ev \in Event /\ published \in Seq(Event)
    BY <1>1 DEF TypeOK
  <2>3. published' \in Seq(Event)
    BY <2>1, <2>2
  <2>4. TypeOK' /\ RoundInv' /\ StallInv'
    BY <1>1, <2>1, <2>3, FailsFacts DEF TypeOK
  <2>5. UNCHANGED baselined /\ next_cp' = NothingSeen
    BY <1>1, <1>2, <2>1
  <2>6. \A e, mark : Reported(e, mark) => Reported(e, mark)'
    BY <2>1, <2>2, <2>5, ReportedIsKept
  <2>7. RememberedIsReported'
    BY <2>1, <2>6 DEF PollerInv, RememberedIsReported
  <2>8. SeenInv'
    BY <2>1, <2>5 DEF PollerInv, SeenInv, NothingSeen
  <2> QED
    BY <2>4, <2>7, <2>8 DEF PollerInv
<1> QED
  BY <1>4, <1>5, <1>6, <1>7

(* The end of a sleep keeps the invariant.                                 *)
LEMMA WakeKeeps == PollerInv /\ Wake => PollerInv'
<1> SUFFICES ASSUME PollerInv, Wake PROVE PollerInv'
  OBVIOUS
<1>1. /\ pc = "sleep" /\ pc' = "fetch"
      /\ elapsed' = elapsed + (IF backoff = 0 THEN Cadence ELSE backoff)
      /\ UNCHANGED <<listed_at, updated_at, clock, lookup, page, events, next_cp,
                     backoff, published, baselined, alarmed, missed, resets, faults>>
  BY DEF Wake, githubVars, roundVars
<1>2. TypeOK'
  BY <1>1, Numbers DEF PollerInv, TypeOK, Places
<1>3. RememberedIsReported' /\ SeenInv' /\ RoundInv'
  BY <1>1, QuietStep
<1>4. StallIsReported'
  <2>1. elapsed \in Nat /\ missed \in Nat /\ missed' = missed
    BY <1>1 DEF PollerInv, TypeOK
  <2>2. PICK d \in Nat : elapsed' = elapsed + d /\ \E c \in Sleeps : d <= c
    BY <1>1, Numbers DEF PollerInv, TypeOK, Sleeps
  <2>3. CASE alarmed
    BY <1>1, <2>3 DEF StallIsReported
  <2>4. CASE ~ alarmed
    <3>1. PICK s \in Sleeps : elapsed <= StallAfter + missed * s
      BY <1>1, <2>4 DEF PollerInv, StallInv, WithinSleeps
    <3>2. \E m \in Sleeps : elapsed + d <= StallAfter + (missed + 1) * m
      BY <2>1, <2>2, <3>1, SleepsAdd
    <3>3. WithinSleeps(missed + 1)'
      BY <2>1, <2>2, <3>2 DEF WithinSleeps, Sleeps
    <3> QED
      BY <3>3 DEF StallIsReported
  <2> QED
    BY <2>3, <2>4
<1> QED
  BY <1>1, <1>2, <1>3, <1>4 DEF PollerInv, StallInv

(* A crash keeps the invariant.                                            *)
LEMMA CrashKeeps == PollerInv /\ Crash => PollerInv'
<1> SUFFICES ASSUME PollerInv, Crash PROVE PollerInv'
  OBVIOUS
<1>1. /\ Fault("crash")
      /\ pc' = "off" /\ page' = {} /\ events' = {} /\ next_cp' = NothingSeen
      /\ backoff' = 0 /\ elapsed' = 0 /\ alarmed' = FALSE /\ missed' = 0
      /\ UNCHANGED <<listed_at, updated_at, clock, lookup, published, baselined, resets>>
  BY DEF Crash, githubVars
<1>2. faults' \in [FaultKinds -> Nat] /\ NothingSeen \in Seen
  BY <1>1, FaultType DEF PollerInv, TypeOK, FaultKinds, NothingSeen, Seen
<1>6. TypeOK /\ backoff' \in Nat /\ backoff' <= RateCap /\ elapsed' \in Nat
  BY <1>1, Numbers DEF PollerInv
<1>3. TypeOK'
  BY <1>1, <1>2, <1>6 DEF TypeOK, Places
<1>4. RememberedIsReported' /\ SeenInv' /\ RoundInv'
  BY <1>1, QuietStep
<1>5. StallInv'
  BY <1>1, StallAfresh
<1> QED
  BY <1>3, <1>4, <1>5 DEF PollerInv

(* A stutter keeps the invariant.                                          *)
LEMMA StutterKeeps == PollerInv /\ UNCHANGED vars => PollerInv'
<1> SUFFICES ASSUME PollerInv, UNCHANGED vars PROVE PollerInv'
  OBVIOUS
<1>1. UNCHANGED <<listed_at, updated_at, clock, lookup, pc, page, events, next_cp,
                  backoff, elapsed, published, baselined, alarmed, missed, resets, faults>>
  BY DEF vars, githubVars, roundVars
<1>2. TypeOK'
  BY <1>1 DEF PollerInv, TypeOK
<1>3. RememberedIsReported' /\ SeenInv' /\ RoundInv'
  BY <1>1, QuietStep
<1>4. StallInv'
  BY <1>1 DEF PollerInv, StallInv, StallIsReported, WithinSleeps
<1> QED
  BY <1>2, <1>3, <1>4 DEF PollerInv

(* The invariant is kept by every step.                                    *)
LEMMA PollerStep == PollerInv /\ [Next]_vars => PollerInv'
<1> SUFFICES ASSUME PollerInv, [Next]_vars PROVE PollerInv'
  OBVIOUS
<1>1. CASE \E e \in Entities : Create(e) \/ Update(e)
  BY <1>1, CreateUpdateKeep
<1>2. CASE ResetCheckpoint \/ Start \/ Fetch \/ Load \/ Save \/ Wake \/ Crash
  BY <1>2, ResetKeeps, StartKeeps, FetchKeeps, LoadKeeps, SaveKeeps, WakeKeeps, CrashKeeps
<1>3. CASE \E ev \in events : Emit(ev)
  BY <1>3, EmitKeeps
<1>4. CASE RateLimited \/ StepFails \/ SaveReplyLost \/ \E ev \in events : EmitReplyLost(ev)
  BY <1>4, FailuresKeep
<1>5. CASE UNCHANGED vars
  BY <1>5, StutterKeeps
<1> QED
  BY <1>1, <1>2, <1>3, <1>4, <1>5 DEF Next

-----------------------------------------------------------------------------
(* The theorems.                                                           *)

(* The invariant of the poller holds in every state, whatever fails and    *)
(* whenever core stops.                                                    *)
THEOREM PollerInductive == Spec => []PollerInv
<1> QED
  BY PollerInit, PollerStep, PTL DEF Spec

(* The checkpoint is never ahead of the bus: poller.py publishes first and *)
(* saves the map only when every event of the round is published.          *)
THEOREM RememberedSafe == Spec => []RememberedIsReported
<1>1. PollerInv => RememberedIsReported
  BY DEF PollerInv
<1> QED
  BY <1>1, PollerInductive, PTL

(* The report that a task keeps failing (_maybe_health) is on the bus      *)
(* within one sleep of the hour, and one more for each report that the bus *)
(* did not take: whose failure is only logged, and tried again after the   *)
(* next round that fails.                                                  *)
THEOREM StallsSafe == Spec => []StallIsReported
<1>1. PollerInv => StallIsReported
  BY DEF PollerInv, StallInv
<1> QED
  BY <1>1, PollerInductive, PTL

-----------------------------------------------------------------------------
(* What a failure can repeat.                                              *)

Is(ev, v) == ev.entity = v.entity /\ ev.at = v.at

(* GitHub's times only grow; an entity that is listed has been updated.    *)
ClockInv ==
    \A e \in Entities :
        /\ listed_at[e] <= clock /\ updated_at[e] <= clock
        /\ listed_at[e] # 0 => updated_at[e] # 0

(* What is in the maps, in the page and on the bus is not ahead of GitHub. *)
AgeInv ==
    /\ Mutable => \A e \in Entities :
          lookup.seen[e] <= updated_at[e] /\ next_cp[e] <= updated_at[e]
    /\ \A v \in page : 0 < v.at /\ v.at <= updated_at[v.entity]
    /\ \A i \in DOMAIN published : published[i].at <= updated_at[published[i].entity]

(* v is not on the first page, and never will be again.                    *)
Gone(v) == ~ (v.entity \in FirstPage /\ updated_at[v.entity] = v.at)

(* The page has one version of an entity, none older than the map has, and *)
(* lacks of what has been published only what is gone.                     *)
PageInv ==
    /\ \A v, w \in page : v.entity = w.entity => v = w
    /\ \A ev \in events : \E v \in page : Is(ev, v)
    /\ \A ev, d \in events : ev.entity = d.entity => ev = d
    /\ pc = "load" =>
          /\ Mutable => \A v \in page : lookup.seen[v.entity] <= v.at
          /\ \A i \in DOMAIN published :
                \/ Gone(published[i])
                \/ \E v \in page : Is(v, published[i])

(* A map that makes diff() pass over v.                                    *)
PassesOver(seen, v) == seen[v.entity] # 0 /\ (Mutable => seen[v.entity] >= v.at)

Due(v) == Copies(v) + (IF \E ev \in events : Is(ev, v) THEN 1 ELSE 0)

(* v is not published again unless something fails.                        *)
Settled(v) ==
    CASE pc = "load" ->
            \/ ~ lookup.exists \/ PassesOver(lookup.seen, v)
            \/ Gone(v) /\ ~ \E w \in page : Is(w, v)
      [] pc \in {"emit", "save"} -> PassesOver(next_cp, v) \/ Gone(v)
      [] OTHER -> ~ lookup.exists \/ PassesOver(lookup.seen, v) \/ Gone(v)

CopiesInv ==
    \A v \in Version :
        /\ Due(v) <= Interruptions + 1
        /\ Due(v) = Interruptions + 1 => Settled(v)

(* The same for the first event of an entity.                              *)
News(e) == {i \in DOMAIN published : published[i].entity = e /\ published[i].is_new}
NewsDue(e) ==
    Cardinality(News(e)) + (IF \E ev \in events : ev.entity = e /\ ev.is_new THEN 1 ELSE 0)
Known(e) == IF pc \in {"emit", "save"} THEN next_cp[e] # 0 ELSE lookup.seen[e] # 0

NewsInv ==
    \A e \in Entities :
        /\ NewsDue(e) <= Interruptions + resets + 1
        /\ NewsDue(e) = Interruptions + resets + 1 => Known(e)

RepeatInv == ClockInv /\ AgeInv /\ PageInv /\ CopiesInv /\ NewsInv

(* Counting what is on the bus.                                            *)
LEMMA OneMore ==
    ASSUME NEW n \in Nat, NEW S \in SUBSET (1 .. n)
    PROVE  /\ Cardinality(S) \in Nat
           /\ Cardinality(S \cup {n + 1}) = Cardinality(S) + 1
<1>1. IsFiniteSet(S)
  BY FS_Interval, FS_Subset, 1 \in Int, n \in Int
<1>2. n + 1 \notin S
  OBVIOUS
<1> QED
  BY <1>1, <1>2, FS_CardinalityType, FS_AddElement

(* The counts of publications are numbers.                                 *)
LEMMA CountFacts ==
    ASSUME published \in Seq(Event)
    PROVE  /\ \A v : Copies(v) \in Nat
           /\ \A e : Cardinality(News(e)) \in Nat
<1>1. DOMAIN published = 1 .. Len(published) /\ Len(published) \in Nat
  OBVIOUS
<1>2. ASSUME NEW v PROVE Copies(v) \in Nat
  <2> DEFINE S == {i \in DOMAIN published :
                      published[i].entity = v.entity /\ published[i].at = v.at}
  <2>1. S \subseteq 1 .. Len(published)
    BY <1>1
  <2>2. Cardinality(S) \in Nat
    <3> HIDE DEF S
    <3> QED
      BY <1>1, <2>1, OneMore
  <2> QED
    BY <2>2 DEF Copies
<1>3. ASSUME NEW e PROVE Cardinality(News(e)) \in Nat
  <2>1. News(e) \subseteq 1 .. Len(published)
    BY <1>1 DEF News
  <2> QED
    BY <1>1, <2>1, OneMore
<1> QED
  BY <1>2, <1>3

(* Without a publication the counts stay.                                  *)
LEMMA CountStays ==
    ASSUME UNCHANGED published
    PROVE  /\ \A v \in Version : Copies(v)' = Copies(v)
           /\ \A e \in Entities : News(e)' = News(e)
  BY DEF Copies, News

(* A publication adds one to its own version, and to the news of its       *)
(* entity when it is marked new.                                           *)
LEMMA CountGrows ==
    ASSUME published \in Seq(Event), NEW ev \in Event, published' = Append(published, ev)
    PROVE  /\ \A v \in Version : Copies(v)' = Copies(v) + (IF Is(ev, v) THEN 1 ELSE 0)
           /\ \A e \in Entities :
                 Cardinality(News(e))' =
                    Cardinality(News(e)) + (IF ev.entity = e /\ ev.is_new THEN 1 ELSE 0)
<1> DEFINE n == Len(published)
<1>1. /\ DOMAIN published = 1 .. n /\ n \in Nat
      /\ DOMAIN published' = 1 .. n + 1
      /\ \A i \in 1 .. n : published'[i] = published[i]
      /\ published'[n + 1] = ev
  OBVIOUS
<1>2. ASSUME NEW v \in Version
      PROVE  Copies(v)' = Copies(v) + (IF Is(ev, v) THEN 1 ELSE 0)
  <2> DEFINE S == {i \in DOMAIN published :
                      published[i].entity = v.entity /\ published[i].at = v.at}
             T == {i \in DOMAIN published' :
                      published'[i].entity = v.entity /\ published'[i].at = v.at}
  <2>1. Copies(v) = Cardinality(S) /\ Copies(v)' = Cardinality(T)
    BY DEF Copies
  <2>2. S \subseteq 1 .. n
    BY <1>1
  <2>3. T = IF Is(ev, v) THEN S \cup {n + 1} ELSE S
    BY <1>1 DEF Is
  <2>4. Cardinality(S) \in Nat /\ Cardinality(S \cup {n + 1}) = Cardinality(S) + 1
    <3> HIDE DEF S
    <3> QED
      BY <1>1, <2>2, OneMore
  <2> HIDE DEF S, T
  <2> QED
    BY <2>1, <2>3, <2>4
<1>3. ASSUME NEW e \in Entities
      PROVE  Cardinality(News(e))' =
                Cardinality(News(e)) + (IF ev.entity = e /\ ev.is_new THEN 1 ELSE 0)
  <2>1. News(e) \subseteq 1 .. n
    BY <1>1 DEF News
  <2>2. News(e)' = IF ev.entity = e /\ ev.is_new THEN News(e) \cup {n + 1} ELSE News(e)
    BY <1>1 DEF News
  <2>3. /\ Cardinality(News(e)) \in Nat
        /\ Cardinality(News(e) \cup {n + 1}) = Cardinality(News(e)) + 1
    BY <1>1, <2>1, OneMore
  <2> QED
    BY <2>2, <2>3
<1> QED
  BY <1>2, <1>3

(* Failures and restarts are counted; a 429 is neither.                    *)
LEMMA InterruptionFacts ==
    ASSUME TypeOK
    PROVE  /\ Interruptions \in Nat
           /\ UNCHANGED faults => Interruptions' = Interruptions
           /\ Fault("http") => Interruptions' = Interruptions
           /\ \A k \in {"error", "reply", "crash"} :
                 Fault(k) => Interruptions' = Interruptions + 1
<1>1. /\ faults \in [FaultKinds -> Nat]
      /\ {"http", "error", "reply", "crash"} \subseteq FaultKinds
  BY DEF TypeOK, FaultKinds
<1>2. faults["error"] \in Nat /\ faults["reply"] \in Nat /\ faults["crash"] \in Nat
  BY <1>1
<1>3. \A k \in FaultKinds : Fault(k) => faults' = [faults EXCEPT ![k] = @ + 1]
  BY DEF Fault
<1> QED
  BY <1>1, <1>2, <1>3 DEF Interruptions

(* With room for every entity the map is not trimmed.                      *)
LEMMA TrimKeeps ==
    ASSUME MaxEntities <= SEEN_CAP, NEW seen \in Seen
    PROVE  Trim(seen) = seen
<1>1. ASSUME NEW e \in Entities
      PROVE  Cardinality({f \in Entities : seen[f] # 0 /\ KeyRank[f] > KeyRank[e]}) < SEEN_CAP
  <2> DEFINE S == {f \in Entities : seen[f] # 0 /\ KeyRank[f] > KeyRank[e]}
  <2>1. MaxEntities \in Nat /\ SEEN_CAP \in Nat /\ KeyRank[e] \in Nat
    BY PollerAssumption
  <2>2. IsFiniteSet(Entities) /\ Cardinality(Entities) = MaxEntities
    <3>1. /\ IsFiniteSet(1 .. MaxEntities)
          /\ Cardinality(1 .. MaxEntities) =
                IF 1 > MaxEntities THEN 0 ELSE MaxEntities - 1 + 1
      BY <2>1, 1 \in Int, MaxEntities \in Int, FS_Interval
    <3>2. Cardinality(1 .. MaxEntities) = MaxEntities
      BY <2>1, <3>1
    <3> QED
      BY <3>1, <3>2 DEF Entities
  <2>3. S \subseteq Entities \ {e}
    BY <2>1
  <2>4. IsFiniteSet(Entities \ {e}) /\ Cardinality(Entities \ {e}) = MaxEntities - 1
    BY <2>2, FS_RemoveElement
  <2> HIDE DEF S
  <2>5. Cardinality(S) <= MaxEntities - 1 /\ Cardinality(S) \in Nat
    BY <2>3, <2>4, FS_Subset, FS_CardinalityType
  <2> QED
    BY <2>1, <2>5 DEF S
<1>2. seen \in [Entities -> Nat]
  BY DEF Seen
<1> QED
  BY <1>1, <1>2 DEF Trim

(* A change on GitHub brings no old version back to the first page.        *)
LEMMA GoneStays ==
    ASSUME TypeOK, ClockInv, NEW f \in Entities, Create(f) \/ Update(f),
           NEW e \in Entities, NEW t \in Nat, t <= updated_at[e],
           ~ (e \in FirstPage /\ updated_at[e] = t)
    PROVE  ~ (e \in FirstPage /\ updated_at[e] = t)'
<1>0. /\ listed_at \in [Entities -> Nat] /\ updated_at \in [Entities -> Nat] /\ clock \in Nat
      /\ updated_at' = [updated_at EXCEPT ![f] = clock + 1]
      /\ listed_at' = listed_at \/ listed_at' = [listed_at EXCEPT ![f] = clock + 1]
      /\ updated_at[e] <= clock
  BY DEF TypeOK, Create, Update, Ticks, ClockInv
<1>1. CASE e = f
  BY <1>0, <1>1
<1>2. CASE e # f
  <2>1. updated_at'[e] = updated_at[e] /\ listed_at'[e] = listed_at[e]
    BY <1>0, <1>2
  <2>2. ASSUME e \in FirstPage' PROVE e \in FirstPage
    <3> DEFINE S == {g \in Entities : listed_at[g] > listed_at[e]}
               T == {g \in Entities : listed_at'[g] > listed_at'[e]}
    <3>1. /\ listed_at[e] # 0 /\ Cardinality(T) < PageSize
      BY <2>1, <2>2 DEF FirstPage, Exists
    <3>2. S \subseteq T
      <4>1. clock + 1 > listed_at[e]
        BY <1>0 DEF ClockInv
      <4> QED
        BY <1>0, <2>1, <4>1
    <3>3. IsFiniteSet(Entities)
      BY PollerAssumption, FS_Interval, 1 \in Int, MaxEntities \in Int DEF Entities
    <3>4. T \subseteq Entities
      OBVIOUS
    <3> HIDE DEF S, T
    <3>5. /\ Cardinality(S) <= Cardinality(T)
          /\ Cardinality(S) \in Nat /\ Cardinality(T) \in Nat
      BY <3>2, <3>3, <3>4, FS_Subset, FS_CardinalityType
    <3>6. Cardinality(S) < PageSize
      BY <3>1, <3>5, Numbers
    <3> QED
      BY <3>1, <3>6 DEF FirstPage, Exists, S
  <2> QED
    BY <2>1, <2>2
<1> QED
  BY <1>1, <1>2

(* The kinds of steps.                                                     *)
Github == \E e \in Entities : Create(e) \/ Update(e)

Rests ==
    /\ UNCHANGED <<githubVars, lookup, roundVars, published, resets>>
    /\ Interruptions' = Interruptions
    /\ \/ pc' = pc
       \/ pc \in {"off", "sleep"} /\ pc' = "fetch"

GivesUp ==
    /\ UNCHANGED <<githubVars, resets>>
    /\ pc' \in {"off", "sleep"} /\ page' = {} /\ events' = {} /\ next_cp' = NothingSeen
    /\ \/ /\ pc = "fetch"
          /\ Interruptions' = Interruptions
          /\ UNCHANGED <<lookup, published>>
       \/ /\ Interruptions' = Interruptions + 1
          /\ UNCHANGED lookup \/ (Saved /\ pc = "save")
          /\ published' = published \/ \E ev \in events : published' = Append(published, ev)

(* The steps, as far as repeats go.                                        *)
LEMMA PollerKinds ==
    ASSUME TypeOK, [Next]_vars
    PROVE  \/ Github \/ ResetCheckpoint \/ Fetch \/ Load \/ Save
           \/ Rests \/ GivesUp
           \/ \E ev \in events : Emit(ev)
<1>1. CASE Start \/ Wake \/ UNCHANGED vars
  BY <1>1, InterruptionFacts DEF Start, Wake, vars, Rests
<1>2. CASE RateLimited
  BY <1>2, InterruptionFacts DEF RateLimited, Fails, Sleep, GivesUp
<1>3. CASE StepFails \/ SaveReplyLost
  BY <1>3, InterruptionFacts DEF StepFails, SaveReplyLost, Fails, Sleep, GivesUp
<1>4. CASE \E ev \in events : EmitReplyLost(ev)
  BY <1>4, InterruptionFacts DEF EmitReplyLost, Fails, Sleep, GivesUp
<1>5. CASE Crash
  BY <1>5, InterruptionFacts DEF Crash, GivesUp
<1> QED
  BY <1>1, <1>2, <1>3, <1>4, <1>5 DEF Next, Github

(* What the next map holds when it is not trimmed.                         *)
LEMMA LoadFacts ==
    ASSUME MaxEntities <= SEEN_CAP, TypeOK, PageInv, Load
    PROVE  /\ \A v \in page : next_cp'[v.entity] = Mark(v.at)
           /\ \A e \in Entities :
                 \/ next_cp'[e] = lookup.seen[e]
                 \/ \E v \in page : v.entity = e /\ next_cp'[e] = Mark(v.at)
<1> DEFINE all == [e \in Entities |->
                      IF InPage(e) THEN Mark(FetchedAt(e)) ELSE lookup.seen[e]]
<1>1. page \subseteq Item /\ lookup.seen \in Seen
  BY DEF TypeOK
<1>2. \A e \in Entities : InPage(e) => Mark(FetchedAt(e)) \in Nat
  BY <1>1, FetchedIsInPage, MarkType DEF Item
<1>3. all \in Seen
  BY <1>1, <1>2 DEF Seen
<1>4. next_cp' = all
  <2>1. next_cp' = Trim(all)
    BY DEF Load, SeenAfter
  <2> HIDE DEF all
  <2> QED
    BY <1>3, <2>1, TrimKeeps
<1>5. ASSUME NEW v \in page PROVE next_cp'[v.entity] = Mark(v.at)
  <2>1. InPage(v.entity) /\ v.entity \in Entities
    BY <1>1 DEF InPage, Item
  <2>2. FetchedAt(v.entity) = v.at
    BY <1>1, <2>1, FetchedIsInPage DEF PageInv
  <2> QED
    BY <1>4, <2>1, <2>2
<1>6. \A e \in Entities : ~ InPage(e) => next_cp'[e] = lookup.seen[e]
  BY <1>4
<1> QED
  BY <1>5, <1>6 DEF InPage

(* Only old versions are on the bus or about to be.                        *)
LEMMA DueIsOld ==
    ASSUME TypeOK, AgeInv, PageInv, NEW v \in Version, Due(v) >= 1
    PROVE  v.at <= updated_at[v.entity]
<1>1. CASE \E ev \in events : Is(ev, v)
  BY <1>1 DEF AgeInv, PageInv, Is
<1>2. CASE ~ \E ev \in events : Is(ev, v)
  <2>1. Copies(v) # 0
    BY <1>2 DEF Due
  <2>2. PICK i \in DOMAIN published : Is(published[i], v)
    <3>1. SUFFICES ASSUME ~ \E i \in DOMAIN published : Is(published[i], v) PROVE FALSE
      OBVIOUS
    <3>2. {i \in DOMAIN published :
             published[i].entity = v.entity /\ published[i].at = v.at} = {}
      BY <3>1 DEF Is
    <3> QED
      BY <2>1, <3>2, FS_EmptySet DEF Copies
  <2> QED
    BY <2>2 DEF AgeInv, Is
<1> QED
  BY <1>1, <1>2

(* What is due is what was published, and one more at most.                *)
LEMMA DueFacts ==
    ASSUME TypeOK
    PROVE  /\ \A v \in Version : Copies(v) \in Nat /\ Due(v) \in {Copies(v), Copies(v) + 1}
           /\ \A e \in Entities :
                 /\ Cardinality(News(e)) \in Nat
                 /\ NewsDue(e) \in {Cardinality(News(e)), Cardinality(News(e)) + 1}
           /\ Interruptions \in Nat /\ resets \in Nat
<1>1. published \in Seq(Event) /\ resets \in Nat
  BY DEF TypeOK
<1>2. \A v \in Version : Copies(v) \in Nat
  BY <1>1, CountFacts
<1>3. \A e \in Entities : Cardinality(News(e)) \in Nat
  BY <1>1, CountFacts
<1> QED
  BY <1>1, <1>2, <1>3, InterruptionFacts DEF Due, NewsDue

(* Nothing is due initially.                                               *)
LEMMA RepeatInit == Init => RepeatInv
<1> SUFFICES ASSUME Init PROVE RepeatInv
  OBVIOUS
<1>1. /\ published = <<>> /\ DOMAIN published = {} /\ page = {} /\ events = {}
      /\ pc = "off" /\ clock = 0 /\ ~ lookup.exists
      /\ \A e \in Entities : /\ listed_at[e] = 0 /\ updated_at[e] = 0
                             /\ lookup.seen[e] = 0 /\ next_cp[e] = 0
  BY DEF Init, NothingSeen
<1>2. \A v : Copies(v) = 0
  <2>1. \A v : {i \in DOMAIN published :
                   published[i].entity = v.entity /\ published[i].at = v.at} = {}
    BY <1>1
  <2> QED
    BY <2>1, FS_EmptySet DEF Copies
<1>3. \A e \in Entities : Cardinality(News(e)) = 0
  <2>1. \A e \in Entities : News(e) = {}
    BY <1>1 DEF News
  <2> QED
    BY <2>1, FS_EmptySet
<1>4. Interruptions = 0 /\ resets = 0
  BY DEF Init, Interruptions, FaultKinds
<1>5. ClockInv /\ AgeInv /\ PageInv
  BY <1>1 DEF ClockInv, AgeInv, PageInv
<1>6. CopiesInv
  <2>1. \A v \in Version : Due(v) = 0
    BY <1>1, <1>2 DEF Due
  <2> QED
    BY <1>4, <2>1 DEF CopiesInv
<1>7. NewsInv
  <2>1. \A e \in Entities : NewsDue(e) = 0
    BY <1>1, <1>3 DEF NewsDue
  <2> QED
    BY <1>4, <2>1 DEF NewsInv
<1> QED
  BY <1>5, <1>6, <1>7 DEF RepeatInv

(* GitHub changes: everything in the task and on the bus stays.            *)
LEMMA GithubRepeat ==
    ASSUME TypeOK, RepeatInv, Github
    PROVE  RepeatInv'
<1>1. PICK f \in Entities : Create(f) \/ Update(f)
  BY DEF Github
<1>2. /\ UNCHANGED <<lookup, pc, page, events, next_cp, published, resets, faults>>
      /\ clock' = clock + 1
      /\ updated_at' = [updated_at EXCEPT ![f] = clock + 1]
      /\ listed_at' = listed_at \/ listed_at' = [listed_at EXCEPT ![f] = clock + 1]
  BY <1>1 DEF Create, Update, Ticks, roundVars
<1>3. /\ listed_at \in [Entities -> Nat] /\ updated_at \in [Entities -> Nat] /\ clock \in Nat
      /\ lookup.seen \in [Entities -> Nat] /\ next_cp \in [Entities -> Nat]
      /\ page \subseteq Item /\ published \in Seq(Event)
      /\ \A i \in DOMAIN published : published[i] \in Event
  BY DEF TypeOK, Seen
<1>4. \A e \in Entities : updated_at'[e] \in Nat /\ updated_at[e] <= updated_at'[e]
  BY <1>2, <1>3 DEF RepeatInv, ClockInv
<1>5. ClockInv'
  BY <1>2, <1>3 DEF RepeatInv, ClockInv
<1>6. AgeInv'
  <2>1. \A v \in page : v.entity \in Entities /\ v.at \in Nat
    BY <1>3 DEF Item
  <2>2. \A i \in DOMAIN published : published[i].entity \in Entities /\ published[i].at \in Nat
    BY <1>3 DEF Event
  <2> QED
    BY <1>2, <1>3, <1>4, <2>1, <2>2 DEF RepeatInv, AgeInv
<1>7. ASSUME NEW v, v.entity \in Entities, v.at \in Nat, v.at <= updated_at[v.entity], Gone(v)
      PROVE  ~ (v.entity \in FirstPage' /\ updated_at'[v.entity] = v.at)
  BY <1>1, <1>7, GoneStays DEF Gone, RepeatInv
<1>8. PageInv'
  <2>1. \A i \in DOMAIN published :
           /\ published[i].entity \in Entities /\ published[i].at \in Nat
           /\ published[i].at <= updated_at[published[i].entity]
    BY <1>3 DEF Event, RepeatInv, AgeInv
  <2>2. \A i \in DOMAIN published : Gone(published[i]) => Gone(published[i])'
    BY <1>2, <1>7, <2>1 DEF Gone
  <2> QED
    BY <1>2, <2>2 DEF RepeatInv, PageInv, Is, Gone
<1>9. Interruptions' = Interruptions
  BY <1>2 DEF Interruptions
<1>10. CopiesInv'
  <2> SUFFICES ASSUME NEW v \in Version
               PROVE  /\ Due(v)' <= Interruptions + 1
                      /\ Due(v)' = Interruptions + 1 => Settled(v)'
    BY <1>9 DEF CopiesInv
  <2>1. Due(v)' = Due(v)
    BY <1>2, CountStays DEF Due, Is
  <2>2. ASSUME Due(v) = Interruptions + 1 PROVE Settled(v)'
    <3>1. Settled(v)
      BY <2>2 DEF RepeatInv, CopiesInv
    <3>2. Gone(v) => Gone(v)'
      BY <1>7, <2>2, DueIsOld, DueFacts DEF RepeatInv, Version, Gone
    <3> QED
      BY <1>2, <3>1, <3>2 DEF Settled, PassesOver, Is
  <2> QED
    BY <2>1, <2>2 DEF RepeatInv, CopiesInv
<1>11. NewsInv'
  BY <1>2, <1>9, CountStays DEF RepeatInv, NewsInv, NewsDue, Known
<1> QED
  BY <1>5, <1>6, <1>8, <1>10, <1>11 DEF RepeatInv

(* The rows of the operator's reset: the next round is a baseline, and a   *)
(* round under way saves what it has.                                      *)
LEMMA ResetRepeat ==
    ASSUME TypeOK, RepeatInv, ResetCheckpoint
    PROVE  RepeatInv'
<1>1. /\ lookup' = [exists |-> FALSE, seen |-> NothingSeen] /\ resets' = resets + 1
      /\ UNCHANGED <<listed_at, updated_at, clock, pc, page, events, next_cp, published,
                     faults>>
      /\ \A e \in Entities : NothingSeen[e] = 0
  BY DEF ResetCheckpoint, githubVars, roundVars, NothingSeen
<1>2. /\ updated_at \in [Entities -> Nat] /\ page \subseteq Item
      /\ \A v \in page : v.entity \in Entities /\ v.at \in Nat
  BY DEF TypeOK, Item
<1>3. ClockInv' /\ AgeInv' /\ PageInv'
  <2>1. ClockInv'
    BY <1>1 DEF RepeatInv, ClockInv
  <2>2. AgeInv'
    BY <1>1, <1>2 DEF RepeatInv, AgeInv
  <2>3. PageInv'
    BY <1>1, <1>2 DEF RepeatInv, PageInv, Is, Gone, FirstPage, Exists
  <2> QED
    BY <2>1, <2>2, <2>3
<1>4. Interruptions' = Interruptions
  BY <1>1 DEF Interruptions
<1>5. CopiesInv'
  <2>1. \A v \in Version : Due(v)' = Due(v)
    BY <1>1, CountStays DEF Due, Is
  <2>2. \A v \in Version : Gone(v)' <=> Gone(v)
    BY <1>1 DEF Gone, FirstPage, Exists
  <2>3. \A v \in Version : Settled(v) => Settled(v)'
    BY <1>1, <2>2 DEF Settled, PassesOver
  <2> QED
    BY <1>4, <2>1, <2>3 DEF RepeatInv, CopiesInv
<1>6. NewsInv'
  <2>1. \A e \in Entities : NewsDue(e)' = NewsDue(e) /\ NewsDue(e) \in Nat
    BY <1>1, CountStays, DueFacts DEF NewsDue
  <2>2. Interruptions \in Nat /\ resets \in Nat
    BY DueFacts
  <2> QED
    BY <1>1, <1>4, <2>1, <2>2 DEF RepeatInv, NewsInv
<1> QED
  BY <1>3, <1>5, <1>6 DEF RepeatInv

(* The task is started or wakes up, or nothing happens.                    *)
LEMMA RestRepeat ==
    ASSUME TypeOK, RepeatInv, Rests
    PROVE  RepeatInv'
<1>1. /\ UNCHANGED <<listed_at, updated_at, clock, lookup, page, events, next_cp,
                     published, resets>>
      /\ Interruptions' = Interruptions
      /\ pc' = pc \/ (pc \in {"off", "sleep"} /\ pc' = "fetch")
  BY DEF Rests, githubVars, roundVars
<1>2. \A v : Gone(v)' <=> Gone(v)
  BY <1>1 DEF Gone, FirstPage, Exists
<1>3. ClockInv' /\ AgeInv'
  BY <1>1 DEF RepeatInv, ClockInv, AgeInv
<1>4. PageInv'
  BY <1>1, <1>2 DEF RepeatInv, PageInv, Is, Gone, FirstPage, Exists
<1>5. \A v \in Version : Due(v)' = Due(v)
  BY <1>1, CountStays DEF Due, Is
<1>6. \A v \in Version : Settled(v) => Settled(v)'
  BY <1>1, <1>2 DEF Settled, PassesOver, Is
<1>7. CopiesInv'
  BY <1>1, <1>5, <1>6 DEF RepeatInv, CopiesInv
<1>8. NewsInv'
  BY <1>1, CountStays DEF RepeatInv, NewsInv, NewsDue, Known
<1> QED
  BY <1>3, <1>4, <1>7, <1>8 DEF RepeatInv

(* What is fetched is the first page as it is.                             *)
LEMMA FetchRepeat ==
    ASSUME TypeOK, RepeatInv, Fetch
    PROVE  RepeatInv'
<1>1. /\ pc = "fetch" /\ pc' = "load"
      /\ page' = {[entity |-> e, at |-> updated_at[e], listed |-> listed_at[e]] :
                      e \in FirstPage}
      /\ UNCHANGED <<listed_at, updated_at, clock, lookup, events, next_cp, published,
                     resets, faults>>
      /\ events = {}
  BY DEF Fetch, githubVars, TypeOK
<1>2. /\ \A e \in FirstPage : e \in Entities /\ listed_at[e] # 0
      /\ updated_at \in [Entities -> Nat] /\ published \in Seq(Event)
      /\ \A i \in DOMAIN published : published[i] \in Event
  BY DEF FirstPage, Exists, TypeOK
<1>3. /\ \A v \in page' : v.entity \in FirstPage /\ v.at = updated_at[v.entity]
                          /\ v.listed = listed_at[v.entity]
      /\ \A e \in FirstPage : \E v \in page' : v.entity = e /\ v.at = updated_at[e]
  <2> DEFINE version(e) == [entity |-> e, at |-> updated_at[e], listed |-> listed_at[e]]
  <2>1. page' = {version(e) : e \in FirstPage}
    BY <1>1
  <2>2. \A e : /\ version(e).entity = e /\ version(e).at = updated_at[e]
               /\ version(e).listed = listed_at[e]
    OBVIOUS
  <2> HIDE DEF version
  <2> QED
    BY <2>1, <2>2
<1>4. \A v : Gone(v)' <=> Gone(v)
  BY <1>1 DEF Gone, FirstPage, Exists
<1>5. \A v : Gone(v) <=> ~ \E w \in page' : Is(w, v)
  BY <1>3 DEF Gone, Is
<1>6. ClockInv'
  BY <1>1 DEF RepeatInv, ClockInv
<1>7. AgeInv'
  <2>1. \A v \in page' : 0 < v.at /\ v.at <= updated_at[v.entity]
    BY <1>2, <1>3 DEF RepeatInv, ClockInv
  <2> QED
    BY <1>1, <2>1 DEF RepeatInv, AgeInv
<1>8. PageInv'
  <2>1. \A v, w \in page' : v.entity = w.entity => v = w
    BY <1>1
  <2>2. Mutable => \A v \in page' : lookup.seen[v.entity] <= v.at
    BY <1>2, <1>3 DEF RepeatInv, AgeInv
  <2>3. \A i \in DOMAIN published :
           Gone(published[i])' \/ \E v \in page' : Is(v, published'[i])
    BY <1>1, <1>4, <1>5
  <2>4. \A i \in DOMAIN published' :
           Gone(published[i])' \/ \E v \in page' : Is(v, published[i])'
    BY <1>1, <2>3 DEF Is
  <2> QED
    BY <1>1, <2>1, <2>2, <2>4 DEF PageInv, Is
<1>9. Interruptions' = Interruptions
  BY <1>1 DEF Interruptions
<1>10. \A v \in Version : Due(v)' = Due(v)
  BY <1>1, CountStays DEF Due, Is
<1>11. ASSUME NEW v \in Version, Settled(v) PROVE Settled(v)'
  <2>1. ~ lookup.exists \/ PassesOver(lookup.seen, v) \/ Gone(v)
    BY <1>1, <1>11 DEF Settled
  <2>2. \/ ~ lookup'.exists \/ PassesOver(lookup'.seen, v)
        \/ (Gone(v)' /\ ~ \E w \in page' : Is(w, v))
    BY <1>1, <1>4, <1>5, <2>1
  <2> QED
    BY <1>1, <2>2 DEF Settled, PassesOver, Is
<1>12. CopiesInv'
  BY <1>9, <1>10, <1>11 DEF RepeatInv, CopiesInv
<1>13. NewsInv'
  BY <1>1, <1>9, CountStays DEF RepeatInv, NewsInv, NewsDue, Known
<1> QED
  BY <1>6, <1>7, <1>8, <1>12, <1>13 DEF RepeatInv

(* diff() reports a version that the map passes over neither now nor ever  *)
(* after.                                                                  *)
LEMMA LoadRepeat ==
    ASSUME MaxEntities <= SEEN_CAP, TypeOK, SeenInv, RepeatInv, Load
    PROVE  RepeatInv'
<1>1. /\ pc = "load" /\ pc' \in {"emit", "save"}
      /\ UNCHANGED <<listed_at, updated_at, clock, lookup, page, published, resets, faults>>
      /\ events = {}
  BY DEF Load, githubVars, TypeOK
<1>2. /\ page \subseteq Item /\ lookup.seen \in [Entities -> Nat]
      /\ updated_at \in [Entities -> Nat]
      /\ \A v \in page : v.entity \in Entities /\ v.at \in Nat
  BY DEF TypeOK, Seen, Item
<1>3. /\ \A v \in page : next_cp'[v.entity] = Mark(v.at)
      /\ \A e \in Entities :
            \/ next_cp'[e] = lookup.seen[e]
            \/ \E v \in page : v.entity = e /\ next_cp'[e] = Mark(v.at)
  BY LoadFacts DEF RepeatInv
<1>4. \A ev \in events' :
         /\ lookup.exists
         /\ \E v \in page : /\ Is(ev, v) /\ IsNews(v, lookup.seen)
                            /\ ev.listed = v.listed
                            /\ ev.is_new = IsNew(v, lookup.seen)
                            /\ ev = [entity |-> v.entity, at |-> v.at, listed |-> v.listed,
                                     is_new |-> IsNew(v, lookup.seen)]
  BY DEF Load, EventsOf, Is
<1>5. \A v : Gone(v)' <=> Gone(v)
  BY <1>1 DEF Gone, FirstPage, Exists
<1>6. \A v, w \in page : v.entity = w.entity => v = w
  BY DEF RepeatInv, PageInv
<1>7. ClockInv'
  BY <1>1 DEF RepeatInv, ClockInv
<1>8. AgeInv'
  <2>1. ASSUME Mutable, NEW e \in Entities PROVE next_cp'[e] <= updated_at[e]
    BY <1>2, <1>3, <2>1 DEF RepeatInv, AgeInv, Mark
  <2> QED
    BY <1>1, <2>1 DEF RepeatInv, AgeInv
<1>9. PageInv'
  <2>1. \A ev \in events' : \E v \in page : Is(ev, v)
    BY <1>4
  <2>2. \A ev, d \in events' : ev.entity = d.entity => ev = d
    BY <1>4, <1>6 DEF Is
  <2>3. pc' # "load"
    BY <1>1
  <2> QED
    BY <1>1, <1>6, <2>1, <2>2, <2>3 DEF PageInv, Is
<1>10. Interruptions' = Interruptions
  BY <1>1 DEF Interruptions
<1>11. /\ \A v \in Version : Copies(v)' = Copies(v) /\ Due(v) = Copies(v)
       /\ \A e \in Entities : News(e)' = News(e) /\ NewsDue(e) = Cardinality(News(e))
  BY <1>1, CountStays, DueFacts DEF Due, NewsDue
<1>12. /\ \A v \in Version : Copies(v) \in Nat
       /\ \A e \in Entities : Cardinality(News(e)) \in Nat
       /\ Interruptions \in Nat /\ resets \in Nat
  BY DueFacts
<1>13. ASSUME NEW v \in Version
       PROVE  Due(v)' = Copies(v) + (IF \E ev \in events' : Is(ev, v) THEN 1 ELSE 0)
  BY <1>11 DEF Due, Is
<1>14. ASSUME NEW v \in Version, \E w \in page : Is(w, v)
       PROVE  PassesOver(next_cp', v)
  <2>1. PICK w \in page : Is(w, v)
    BY <1>14
  <2>2. next_cp'[v.entity] = Mark(v.at) /\ v.at \in Nat /\ 0 < v.at
    BY <1>2, <1>3, <2>1 DEF Is, RepeatInv, AgeInv
  <2> QED
    BY <2>2 DEF PassesOver, Mark
<1>15. ASSUME NEW v \in Version, PassesOver(lookup.seen, v)
       PROVE  PassesOver(next_cp', v)
  <2>1. v.entity \in Entities /\ v.at \in Nat
    BY DEF Version
  <2>2. CASE next_cp'[v.entity] = lookup.seen[v.entity]
    BY <1>15, <2>2 DEF PassesOver
  <2>3. ASSUME NEW w \in page, w.entity = v.entity, next_cp'[v.entity] = Mark(w.at)
        PROVE  PassesOver(next_cp', v)
    <3>1. 0 < w.at /\ w.at \in Nat
      BY <1>2, <2>3 DEF RepeatInv, AgeInv
    <3>2. Mutable => lookup.seen[v.entity] <= w.at
      BY <1>1, <2>3 DEF RepeatInv, PageInv
    <3>3. Mutable => lookup.seen[v.entity] >= v.at /\ lookup.seen[v.entity] \in Nat
      BY <1>2, <1>15, <2>1 DEF PassesOver
    <3> QED
      BY <2>1, <2>3, <3>1, <3>2, <3>3 DEF PassesOver, Mark
  <2> QED
    BY <1>3, <2>1, <2>2, <2>3
<1>16. ASSUME NEW v \in Version, NEW ev \in events', Is(ev, v)
       PROVE  ~ Settled(v) /\ \E w \in page : Is(w, v)
  <2>1. PICK w \in page : Is(ev, w) /\ IsNews(w, lookup.seen) /\ lookup.exists
    BY <1>4
  <2>2. Is(w, v) /\ w.entity \in Entities /\ w.at \in Nat
    BY <1>2, <1>16, <2>1 DEF Is
  <2>3. Mutable => lookup.seen[w.entity] <= w.at /\ lookup.seen[w.entity] \in Nat
    BY <1>1, <1>2, <2>2 DEF RepeatInv, PageInv
  <2>4. ~ PassesOver(lookup.seen, w)
    BY <2>1, <2>2, <2>3 DEF PassesOver, IsNews, IsNew
  <2>5. ~ PassesOver(lookup.seen, v)
    BY <2>2, <2>4 DEF PassesOver, Is
  <2> QED
    BY <1>1, <2>1, <2>2, <2>5 DEF Settled
<1>17. CopiesInv'
  <2> SUFFICES ASSUME NEW v \in Version
               PROVE  /\ Due(v)' <= Interruptions + 1
                      /\ Due(v)' = Interruptions + 1 => Settled(v)'
    BY <1>10 DEF CopiesInv
  <2>1. /\ Copies(v) <= Interruptions + 1
        /\ Copies(v) = Interruptions + 1 => Settled(v)
    BY <1>11 DEF RepeatInv, CopiesInv
  <2>2. PassesOver(next_cp', v) \/ Gone(v) => Settled(v)'
    BY <1>1, <1>5 DEF Settled, PassesOver
  <2>3. CASE \E ev \in events' : Is(ev, v)
    <3>1. ~ Settled(v) /\ PassesOver(next_cp', v)
      BY <1>14, <1>16, <2>3
    <3>2. Due(v)' = Copies(v) + 1
      BY <1>13, <2>3
    <3> QED
      BY <1>12, <2>1, <2>2, <3>1, <3>2
  <2>4. CASE ~ \E ev \in events' : Is(ev, v)
    <3>1. Due(v)' = Copies(v)
      BY <1>12, <1>13, <2>4
    <3>2. ASSUME Copies(v) = Interruptions + 1, ~ \E w \in page : Is(w, v)
          PROVE  Gone(v) \/ PassesOver(lookup.seen, v)
      <4>1. \E i \in DOMAIN published : Is(published[i], v)
        <5>1. SUFFICES ASSUME ~ \E i \in DOMAIN published : Is(published[i], v) PROVE FALSE
          OBVIOUS
        <5>2. {i \in DOMAIN published :
                 published[i].entity = v.entity /\ published[i].at = v.at} = {}
          BY <5>1 DEF Is
        <5>3. Copies(v) = 0
          BY <5>2, FS_EmptySet DEF Copies
        <5> QED
          BY <1>12, <3>2, <5>3
      <4>2. PICK i \in DOMAIN published : Is(published[i], v)
        BY <4>1
      <4>3. Gone(published[i]) \/ \E w \in page : Is(w, published[i])
        BY <1>1 DEF RepeatInv, PageInv
      <4> QED
        BY <3>2, <4>2, <4>3 DEF Gone, Is
    <3>3. Copies(v) = Interruptions + 1 => PassesOver(next_cp', v) \/ Gone(v)
      BY <1>14, <1>15, <3>2
    <3> QED
      BY <2>1, <2>2, <3>1, <3>3
  <2> QED
    BY <2>3, <2>4
<1>18. NewsInv'
  <2> SUFFICES ASSUME NEW e \in Entities
               PROVE  /\ NewsDue(e)' <= Interruptions + resets + 1
                      /\ NewsDue(e)' = Interruptions + resets + 1 => next_cp'[e] # 0
    BY <1>1, <1>10 DEF NewsInv, Known
  <2> DEFINE n == Cardinality(News(e))
  <2>1. /\ n \in Nat /\ n <= Interruptions + resets + 1
        /\ n = Interruptions + resets + 1 => lookup.seen[e] # 0
    BY <1>1, <1>11, <1>12 DEF RepeatInv, NewsInv, Known
  <2>2. NewsDue(e)' = n + (IF \E ev \in events' : ev.entity = e /\ ev.is_new THEN 1 ELSE 0)
    BY <1>11 DEF NewsDue
  <2>3. \A v \in page : v.entity = e => next_cp'[e] # 0
    BY <1>2, <1>3 DEF RepeatInv, AgeInv, Mark
  <2>4. CASE \E ev \in events' : ev.entity = e /\ ev.is_new
    <3>1. \E v \in page : v.entity = e /\ lookup.seen[e] = 0
      <4>1. PICK ev \in events' : ev.entity = e /\ ev.is_new
        BY <2>4
      <4>2. PICK v \in page : Is(ev, v) /\ ev.is_new = IsNew(v, lookup.seen)
        BY <1>4
      <4>3. IsNew(v, lookup.seen)
        BY <4>1, <4>2, Zenon
      <4> QED
        BY <4>1, <4>2, <4>3 DEF Is, IsNew
    <3> HIDE DEF n
    <3> QED
      BY <1>12, <2>1, <2>2, <2>3, <2>4, <3>1
  <2>5. CASE ~ \E ev \in events' : ev.entity = e /\ ev.is_new
    <3>1. lookup.seen[e] # 0 => next_cp'[e] # 0
      BY <1>3, <2>3
    <3> HIDE DEF n
    <3> QED
      BY <1>12, <2>1, <2>2, <2>5, <3>1
  <2> QED
    BY <2>4, <2>5
<1> QED
  BY <1>7, <1>8, <1>9, <1>17, <1>18 DEF RepeatInv

(* A published event is no longer due, and has its copy.                   *)
LEMMA EmitRepeat ==
    ASSUME TypeOK, RepeatInv, NEW ev \in events, Emit(ev)
    PROVE  RepeatInv'
<1>1. /\ pc = "emit" /\ pc' \in {"emit", "save"}
      /\ published' = Append(published, ev) /\ events' = events \ {ev}
      /\ UNCHANGED <<listed_at, updated_at, clock, lookup, page, next_cp, resets, faults>>
  BY DEF Emit, githubVars
<1>2. /\ published \in Seq(Event) /\ ev \in Event /\ ev.entity \in Entities
      /\ DOMAIN published' = 1 .. Len(published) + 1 /\ Len(published) \in Nat
      /\ \A i \in 1 .. Len(published) : published'[i] = published[i]
      /\ published'[Len(published) + 1] = ev
  BY <1>1 DEF TypeOK, Event
<1>3. PICK w \in page : Is(ev, w)
  BY DEF RepeatInv, PageInv
<1>4. \A d \in events : d.entity = ev.entity => d = ev
  BY DEF RepeatInv, PageInv
<1>5. ClockInv'
  BY <1>1 DEF RepeatInv, ClockInv
<1>6. AgeInv'
  <2>1. ev.at <= updated_at[ev.entity]
    BY <1>3 DEF RepeatInv, AgeInv, Is
  <2>2. \A i \in DOMAIN published' : published'[i].at <= updated_at[published'[i].entity]
    BY <1>2, <2>1 DEF RepeatInv, AgeInv
  <2> QED
    BY <1>1, <2>2 DEF RepeatInv, AgeInv
<1>7. PageInv'
  BY <1>1 DEF RepeatInv, PageInv, Is
<1>8. Interruptions' = Interruptions
  BY <1>1 DEF Interruptions
<1>9. \A v : Gone(v)' <=> Gone(v)
  BY <1>1 DEF Gone, FirstPage, Exists
<1>10. ASSUME NEW v \in Version PROVE Due(v)' = Due(v)
  <2>1. Copies(v) \in Nat /\ Copies(v)' = Copies(v) + (IF Is(ev, v) THEN 1 ELSE 0)
    BY <1>1, <1>2, CountGrows, DueFacts
  <2>2. CASE Is(ev, v)
    <3>1. ~ \E d \in events' : Is(d, v)
      BY <1>1, <1>4, <2>2 DEF Is
    <3>2. /\ Due(v) = Copies(v) + 1
          /\ Due(v)' = Copies(v)'
      BY <2>1, <2>2, <3>1 DEF Due, Is
    <3> QED
      BY <2>1, <2>2, <3>2
  <2>3. CASE ~ Is(ev, v)
    <3>1. (\E d \in events' : Is(d, v)) <=> (\E d \in events : Is(d, v))
      BY <1>1, <2>3
    <3> QED
      BY <2>1, <2>3, <3>1 DEF Due, Is
  <2> QED
    BY <2>2, <2>3
<1>11. CopiesInv'
  <2>1. \A v \in Version : Settled(v) => Settled(v)'
    BY <1>1, <1>9 DEF Settled, PassesOver
  <2> QED
    BY <1>8, <1>10, <2>1 DEF RepeatInv, CopiesInv
<1>12. ASSUME NEW e \in Entities PROVE NewsDue(e)' = NewsDue(e)
  <2> DEFINE new == ev.entity = e /\ ev.is_new
  <2>1. /\ Cardinality(News(e)) \in Nat
        /\ Cardinality(News(e))' = Cardinality(News(e)) + (IF new THEN 1 ELSE 0)
    BY <1>1, <1>2, CountGrows, DueFacts
  <2>2. CASE new
    <3>1. ~ \E d \in events' : d.entity = e /\ d.is_new
      BY <1>1, <1>4, <2>2
    <3>2. /\ NewsDue(e) = Cardinality(News(e)) + 1
          /\ NewsDue(e)' = Cardinality(News(e))' + 0
      BY <2>2, <3>1 DEF NewsDue
    <3> QED
      BY <2>1, <2>2, <3>2
  <2>3. CASE ~ new
    <3>1. (\E d \in events' : d.entity = e /\ d.is_new)
            <=> (\E d \in events : d.entity = e /\ d.is_new)
      BY <1>1, <2>3
    <3> QED
      BY <2>1, <2>3, <3>1 DEF NewsDue
  <2> QED
    BY <2>2, <2>3
<1>13. NewsInv'
  BY <1>1, <1>8, <1>12 DEF RepeatInv, NewsInv, Known
<1> QED
  BY <1>5, <1>6, <1>7, <1>11, <1>13 DEF RepeatInv

(* What was about to be remembered is.                                     *)
LEMMA SaveRepeat ==
    ASSUME TypeOK, RepeatInv, Save
    PROVE  RepeatInv'
<1>1. /\ pc = "save" /\ pc' = "sleep" /\ events = {} /\ events' = {} /\ page' = {}
      /\ lookup' = [exists |-> TRUE, seen |-> next_cp]
      /\ next_cp' = NothingSeen /\ \A e \in Entities : NothingSeen[e] = 0
      /\ UNCHANGED <<listed_at, updated_at, clock, published, resets, faults>>
  BY DEF Save, Saved, Sleep, githubVars, TypeOK, NothingSeen
<1>2. updated_at \in [Entities -> Nat]
  BY DEF TypeOK
<1>3. ClockInv' /\ AgeInv'
  BY <1>1, <1>2 DEF RepeatInv, ClockInv, AgeInv
<1>4. PageInv'
  BY <1>1 DEF PageInv
<1>5. Interruptions' = Interruptions
  BY <1>1 DEF Interruptions
<1>6. \A v : Gone(v)' <=> Gone(v)
  BY <1>1 DEF Gone, FirstPage, Exists
<1>7. CopiesInv'
  <2>1. \A v \in Version : Due(v)' = Due(v)
    BY <1>1, CountStays DEF Due, Is
  <2>2. \A v \in Version : Settled(v) => Settled(v)'
    BY <1>1, <1>6 DEF Settled, PassesOver
  <2> QED
    BY <1>5, <2>1, <2>2 DEF RepeatInv, CopiesInv
<1>8. NewsInv'
  BY <1>1, <1>5, CountStays DEF RepeatInv, NewsInv, NewsDue, Known
<1> QED
  BY <1>3, <1>4, <1>7, <1>8 DEF RepeatInv

(* A failure or the end of the process pays for what it makes the next     *)
(* round repeat; a 429 comes before there is anything to repeat.           *)
LEMMA GivesUpRepeat ==
    ASSUME TypeOK, RepeatInv, GivesUp
    PROVE  RepeatInv'
<1>1. /\ UNCHANGED <<listed_at, updated_at, clock, resets>>
      /\ pc' \in {"off", "sleep"} /\ page' = {} /\ events' = {}
      /\ next_cp' = NothingSeen /\ \A e \in Entities : NothingSeen[e] = 0
      /\ lookup' = lookup \/ lookup'.seen = next_cp
      /\ updated_at \in [Entities -> Nat] /\ published \in Seq(Event)
  BY DEF GivesUp, Saved, githubVars, TypeOK, NothingSeen
<1>2. \/ published' = published
      \/ \E ev \in events : published' = Append(published, ev)
  BY DEF GivesUp
<1>3. ClockInv' /\ PageInv'
  BY <1>1 DEF RepeatInv, ClockInv, PageInv
<1>4. AgeInv'
  <2>1. \A i \in DOMAIN published' : published'[i].at <= updated_at[published'[i].entity]
    <3>1. CASE published' = published
      BY <3>1 DEF RepeatInv, AgeInv
    <3>2. ASSUME NEW ev \in events, published' = Append(published, ev)
          PROVE  \A i \in DOMAIN published' : published'[i].at <= updated_at[published'[i].entity]
      <4>1. ev \in Event /\ ev.at <= updated_at[ev.entity]
        BY DEF RepeatInv, AgeInv, PageInv, Is, TypeOK
      <4>2. /\ DOMAIN published' = 1 .. Len(published) + 1 /\ Len(published) \in Nat
            /\ \A i \in 1 .. Len(published) : published'[i] = published[i]
            /\ published'[Len(published) + 1] = ev
        BY <1>1, <3>2, <4>1
      <4> QED
        BY <1>1, <4>1, <4>2 DEF RepeatInv, AgeInv
    <3> QED
      BY <1>2, <3>1, <3>2
  <2> QED
    BY <1>1, <2>1 DEF RepeatInv, AgeInv
<1>5. /\ \A v \in Version : Copies(v)' \in Nat /\ Due(v)' = Copies(v)'
      /\ \A e \in Entities : /\ Cardinality(News(e))' \in Nat
                             /\ NewsDue(e)' = Cardinality(News(e))'
  <2>1. published' \in Seq(Event)
    <3>1. events \subseteq Event
      BY DEF TypeOK
    <3> QED
      BY <1>1, <1>2, <3>1
  <2>2. /\ \A v \in Version : Copies(v)' \in Nat
        /\ \A e \in Entities : Cardinality(News(e))' \in Nat
    <3>1. DOMAIN published' = 1 .. Len(published') /\ Len(published') \in Nat
      BY <2>1
    <3>2. ASSUME NEW S \in SUBSET (DOMAIN published') PROVE Cardinality(S) \in Nat
      BY <3>1, OneMore
    <3> QED
      BY <3>2 DEF Copies, News
  <2> QED
    BY <1>1, <2>2 DEF Due, NewsDue
<1>6. /\ \A v \in Version : Copies(v)' <= Due(v) /\ Due(v) \in Nat
      /\ \A e \in Entities : Cardinality(News(e))' <= NewsDue(e) /\ NewsDue(e) \in Nat
  <2>1. CASE published' = published
    BY <2>1, CountStays, DueFacts
  <2>2. ASSUME NEW ev \in events, published' = Append(published, ev)
        PROVE  /\ \A v \in Version : Copies(v)' <= Due(v)
               /\ \A e \in Entities : Cardinality(News(e))' <= NewsDue(e)
    <3>1. ev \in Event
      BY DEF TypeOK
    <3>2. /\ \A v \in Version : Copies(v)' = Copies(v) + (IF Is(ev, v) THEN 1 ELSE 0)
          /\ \A e \in Entities :
                Cardinality(News(e))' =
                   Cardinality(News(e)) + (IF ev.entity = e /\ ev.is_new THEN 1 ELSE 0)
      BY <1>1, <2>2, <3>1, CountGrows
    <3> QED
      BY <3>2, DueFacts DEF Due, NewsDue
  <2> QED
    BY <1>2, <2>1, <2>2, DueFacts
<1>7. Interruptions \in Nat /\ resets \in Nat
  BY DueFacts
<1>8. CASE Interruptions' = Interruptions + 1
  <2>1. CopiesInv'
    <3>1. ASSUME NEW v \in Version
          PROVE  Due(v)' \in Nat /\ Due(v)' <= Interruptions + 1
      <4>1. Due(v) <= Interruptions + 1
        BY DEF RepeatInv, CopiesInv
      <4>2. Copies(v)' <= Due(v) /\ Due(v) \in Nat /\ Copies(v)' \in Nat /\ Due(v)' = Copies(v)'
        BY <1>5, <1>6
      <4> QED
        BY <1>7, <4>1, <4>2
    <3>2. \A v \in Version : Due(v)' <= Interruptions' + 1 /\ Due(v)' # Interruptions' + 1
      BY <1>7, <1>8, <3>1
    <3> QED
      BY <3>2 DEF CopiesInv
  <2>2. NewsInv'
    <3>1. ASSUME NEW e \in Entities
          PROVE  NewsDue(e)' \in Nat /\ NewsDue(e)' <= Interruptions + resets + 1
      <4>1. NewsDue(e) <= Interruptions + resets + 1
        BY DEF RepeatInv, NewsInv
      <4>2. /\ Cardinality(News(e))' <= NewsDue(e) /\ NewsDue(e) \in Nat
            /\ Cardinality(News(e))' \in Nat /\ NewsDue(e)' = Cardinality(News(e))'
        BY <1>5, <1>6
      <4> QED
        BY <1>7, <4>1, <4>2
    <3>2. \A e \in Entities : /\ NewsDue(e)' <= Interruptions' + resets' + 1
                              /\ NewsDue(e)' # Interruptions' + resets' + 1
      BY <1>1, <1>7, <1>8, <3>1
    <3> QED
      BY <3>2 DEF NewsInv
  <2> QED
    BY <1>3, <1>4, <2>1, <2>2 DEF RepeatInv
<1>9. CASE pc = "fetch" /\ Interruptions' = Interruptions /\ UNCHANGED <<lookup, published>>
  <2>1. events = {}
    BY <1>9 DEF TypeOK
  <2>2. \A v : Gone(v)' <=> Gone(v)
    BY <1>1 DEF Gone, FirstPage, Exists
  <2>3. CopiesInv'
    <3>1. \A v \in Version : Due(v)' = Due(v)
      BY <1>1, <1>9, <2>1, CountStays DEF Due, Is
    <3>2. \A v \in Version : Settled(v) => Settled(v)'
      BY <1>1, <1>9, <2>2 DEF Settled, PassesOver
    <3> QED
      BY <1>9, <3>1, <3>2 DEF RepeatInv, CopiesInv
  <2>4. NewsInv'
    BY <1>1, <1>9, <2>1, CountStays DEF RepeatInv, NewsInv, NewsDue, Known
  <2> QED
    BY <1>3, <1>4, <2>3, <2>4 DEF RepeatInv
<1> QED
  BY <1>8, <1>9 DEF GivesUp

(* With room for every entity, a step makes an event due again only after  *)
(* a fault.                                                                *)
LEMMA RepeatStep ==
    ASSUME MaxEntities <= SEEN_CAP, TypeOK, SeenInv, RepeatInv, [Next]_vars
    PROVE  RepeatInv'
BY PollerKinds, GithubRepeat, ResetRepeat, FetchRepeat, LoadRepeat, SaveRepeat, RestRepeat,
   GivesUpRepeat, EmitRepeat

(* With room in the map for every entity (SEEN_CAP of checkpoint.py), what *)
(* poller.py publishes twice is paid for: each copy of an event by a       *)
(* failure or a restart, each repeated "new" by one or by a reset of the   *)
(* checkpoint; a 429 costs nothing.                                        *)
THEOREM RepeatsPaidFor ==
    ASSUME MaxEntities <= SEEN_CAP
    PROVE  Spec => []RepeatsBounded
<1>1. Init => RepeatInv
  BY RepeatInit
<1>2. PollerInv /\ RepeatInv /\ [Next]_vars => RepeatInv'
  BY RepeatStep DEF PollerInv
<1>3. ASSUME TypeOK, RepeatInv PROVE RepeatsBounded
  <2>1. ASSUME NEW i \in DOMAIN published
        PROVE  Copies(published[i]) <= Interruptions + 1
    <3> DEFINE v == [entity |-> published[i].entity, at |-> published[i].at]
    <3>1. published[i] \in Event
      BY <1>3 DEF TypeOK
    <3>2. v \in Version
      BY <3>1 DEF Event, Version
    <3>3. Copies(published[i]) = Copies(v)
      BY DEF Copies
    <3> HIDE DEF v
    <3> QED
      BY <1>3, <3>2, <3>3, DueFacts DEF RepeatInv, CopiesInv
  <2>2. ASSUME NEW e \in Entities
        PROVE  Cardinality(News(e)) <= Interruptions + resets + 1
    BY <1>3, DueFacts DEF RepeatInv, NewsInv
  <2> QED
    BY <2>1, <2>2 DEF RepeatsBounded, RepeatsArePaidFor, NewOnce, News
<1>4. PollerInv => TypeOK
  BY DEF PollerInv
<1> QED
  BY <1>1, <1>2, <1>3, <1>4, PollerInductive, PTL DEF Spec
=============================================================================
