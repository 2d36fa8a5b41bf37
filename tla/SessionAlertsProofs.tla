------------------------- MODULE SessionAlertsProofs -------------------------
(***************************************************************************)
(* Proofs about SessionAlerts, for any SANs, initiators, requests, settings *)
(* and grace periods: types, and that no alert comes before its grace      *)
(* period. The invariant behind the second relates each row of the table   *)
(* alert_session_state to what the answers have said: a row is never older *)
(* than the last answer that left its key out.                             *)
(***************************************************************************)
EXTENDS SessionAlerts, TLAPS

USE InventoryAssumption, WatchedAssumption, TimeAssumption, SettingsAssumption

OverviewOf(s) == [san : {s}, conf : {{}, Ini[s]}, act : SUBSET Ini[s]]

\* A request that is reading has the configuration of the SAN it asks about.
Reading == \A p \in Poll : poll[p].ph = "sessions" => poll[p].data \in OverviewOf(poll[p].san)

RowsAreCovered ==
  \A s \in San, k \in Keys : rows[s][k] # None => rows[s][k] <= fine[s][k]

IInv == TypeOK /\ Reading /\ RowsAreCovered

\* What a counter is one tick later.
LEMMA OlderCounts ==
  ASSUME NEW f, NEW S, f \in [Keys -> 0..Grace \cup S], S \subseteq {None}
  PROVE  /\ Older(f) \in [Keys -> 0..Grace \cup S]
         /\ \A k \in Keys : Older(f)[k] = IF f[k] \in 0..(Grace - 1) THEN f[k] + 1 ELSE f[k]
  <1>1. ASSUME NEW k \in Keys
        PROVE  (IF f[k] \in 0..(Grace - 1) THEN f[k] + 1 ELSE f[k]) \in 0..Grace \cup S
    BY <1>1, SMT
  <1> QED BY <1>1 DEF Older

\* Rows keep their type when a poll finalises them.
LEMMA FinalizeCounts ==
  ASSUME NEW row \in [Keys -> 0..Grace \cup {None}], NEW violated
  PROVE  FinalizeSessionGrace(row, violated) \in [Keys -> 0..Grace \cup {None}]
  BY SMT DEF FinalizeSessionGrace

\* What is found is about known keys.
LEMMA FoundKeys ==
  ASSUME NEW st \in Settings, NEW data \in Overviews \cup {NoOverview}
  PROVE  Found(st, data) \subseteq Keys
  <1>1. CASE data = NoOverview
    <2>1. data.conf = {}
      BY <1>1 DEF NoOverview, Overview
    <2> QED BY <2>1 DEF Found
  <1>2. CASE data \in Overviews
    <2>1. PICK s \in San : data \in OverviewOf(s)
      BY <1>2 DEF Overviews, OverviewOf
    <2>2. data.conf \subseteq Initiators /\ data.san \in San
      BY <2>1 DEF Initiators, OverviewOf
    <2> QED BY <2>2 DEF Found, Keys
  <1> QED BY <1>1, <1>2

\* An overview of a SAN is one of the overviews.
LEMMA OverviewIsOne ==
  ASSUME NEW s \in San, NEW d \in OverviewOf(s)
  PROVE  d \in Overviews
  BY DEF Overviews, OverviewOf

PollType == [ph : Phases, san : San \cup {None}, asks : BOOLEAN, set : Settings \cup {None},
             data : Overviews \cup {NoOverview}]

PollOK(q) == /\ q \in PollType
             /\ q.ph # "idle" => q.san \in San
             /\ q.ph = "ready" => q.asks
             /\ q.asks => q.set \in Settings
             /\ q.ph = "sessions" => q.data \in OverviewOf(q.san)

CacheType == [data : Overviews \cup {NoOverview}, left : 0..TTL]

LEMMA IdleIsOK == PollOK(Idle)
  BY DEF PollOK, PollType, Idle, Phases

\* The part of the invariant about requests, one request at a time.
LEMMA Pointwise ==
  IInv <=> /\ live \in [San -> SUBSET Initiators] /\ \A s \in San : live[s] \subseteq Ini[s]
           /\ sick \subseteq San /\ set \in Settings /\ cache \in CacheType
           /\ poll \in [Poll -> PollType] /\ \A p \in Poll : PollOK(poll[p])
           /\ rows \in [San -> [Keys -> 0..Grace \cup {None}]]
           /\ alerts \in [San -> SUBSET Keys]
           /\ fine \in [San -> [Keys -> 0..Grace]]
           /\ RowsAreCovered
  BY Zenon DEF IInv, TypeOK, Reading, PollOK, PollType, CacheType

\* A step that changes one request.
LEMMA OnePoll ==
  ASSUME NEW p \in Poll, NEW q, PollOK(q), IInv, poll' = [poll EXCEPT ![p] = q]
  PROVE  poll' \in [Poll -> PollType] /\ \A r \in Poll : PollOK(poll'[r])
  <1>1. poll \in [Poll -> PollType] /\ \A r \in Poll : PollOK(poll[r])
    BY Pointwise
  <1>2. q \in PollType
    BY DEF PollOK
  <1>3. \A r \in Poll : poll'[r] = IF r = p THEN q ELSE poll[r]
    BY <1>1
  <1> QED BY <1>1, <1>2, <1>3

LEMMA InitInv == Init => IInv
  <1> SUFFICES ASSUME Init PROVE IInv
    OBVIOUS
  <1>1. live \in [San -> SUBSET Initiators] /\ \A s \in San : live[s] \subseteq Ini[s]
    BY DEF Init
  <1>2. cache \in CacheType
    BY DEF Init, Empty, CacheType
  <1>3. poll \in [Poll -> PollType] /\ \A p \in Poll : PollOK(poll[p])
    <2>1. Idle \in PollType
      BY IdleIsOK DEF PollOK
    <2> QED BY <2>1, IdleIsOK DEF Init
  <1>4. rows \in [San -> [Keys -> 0..Grace \cup {None}]] /\ RowsAreCovered
    BY DEF Init, RowsAreCovered
  <1>5. fine \in [San -> [Keys -> 0..Grace]] /\ alerts \in [San -> SUBSET Keys]
    BY DEF Init
  <1>6. sick \subseteq San /\ set \in Settings
    BY DEF Init
  <1> QED BY <1>1, <1>2, <1>3, <1>4, <1>5, <1>6, Pointwise

\* What no action but those of the outside changes.
LEMMA OutsideStays ==
  ASSUME IInv, UNCHANGED outside
  PROVE  /\ live' \in [San -> SUBSET Initiators] /\ \A s \in San : live'[s] \subseteq Ini[s]
         /\ sick' \subseteq San /\ set' \in Settings
  BY Pointwise DEF outside

LEMMA CountersStay ==
  ASSUME IInv, UNCHANGED <<rows, fine>>
  PROVE  /\ rows' \in [San -> [Keys -> 0..Grace \cup {None}]]
         /\ fine' \in [San -> [Keys -> 0..Grace]]
         /\ RowsAreCovered'
  BY Pointwise DEF RowsAreCovered

\* The invariant one step later, in the form in which the actions are shown to keep it.
LEMMA PointwisePrime ==
  IInv' <=> /\ live' \in [San -> SUBSET Initiators] /\ \A s \in San : live'[s] \subseteq Ini[s]
            /\ sick' \subseteq San /\ set' \in Settings /\ cache' \in CacheType
            /\ poll' \in [Poll -> PollType] /\ \A p \in Poll : PollOK(poll'[p])
            /\ rows' \in [San -> [Keys -> 0..Grace \cup {None}]]
            /\ alerts' \in [San -> SUBSET Keys]
            /\ fine' \in [San -> [Keys -> 0..Grace]]
            /\ RowsAreCovered'
  BY Zenon DEF IInv, TypeOK, Reading, PollOK, PollType, CacheType

\* Time passes: each row and its answer age together.
LEMMA TickStep == ASSUME IInv, Tick PROVE IInv'
  <1>1. rows \in [San -> [Keys -> 0..Grace \cup {None}]] /\ fine \in [San -> [Keys -> 0..Grace]]
    BY Pointwise
  <1>2. ASSUME NEW s \in San
        PROVE  /\ rows'[s] = Older(rows[s]) /\ fine'[s] = Older(fine[s])
               /\ Older(rows[s]) \in [Keys -> 0..Grace \cup {None}]
               /\ Older(fine[s]) \in [Keys -> 0..Grace]
    <2>1. rows'[s] = Older(rows[s]) /\ fine'[s] = Older(fine[s])
      BY DEF Tick
    <2>2. rows[s] \in [Keys -> 0..Grace \cup {None}] /\ fine[s] \in [Keys -> 0..Grace \cup {}]
      BY <1>1
    <2>3. Older(fine[s]) \in [Keys -> 0..Grace \cup {}]
      BY <2>2, OlderCounts
    <2> QED BY <2>1, <2>2, <2>3, OlderCounts
  <1>3. rows' \in [San -> [Keys -> 0..Grace \cup {None}]] /\ fine' \in [San -> [Keys -> 0..Grace]]
    BY <1>2 DEF Tick
  <1>4. RowsAreCovered'
    <2> SUFFICES ASSUME NEW s \in San, NEW k \in Keys, rows'[s][k] # None
                 PROVE  rows'[s][k] <= fine'[s][k]
      BY DEF RowsAreCovered
    <2>1. /\ Older(rows[s])[k] = IF rows[s][k] \in 0..(Grace - 1) THEN rows[s][k] + 1 ELSE rows[s][k]
          /\ Older(fine[s])[k] = IF fine[s][k] \in 0..(Grace - 1) THEN fine[s][k] + 1 ELSE fine[s][k]
      BY Zenon DEF Older
    <2>2. /\ rows'[s][k] = IF rows[s][k] \in 0..(Grace - 1) THEN rows[s][k] + 1 ELSE rows[s][k]
          /\ fine'[s][k] = IF fine[s][k] \in 0..(Grace - 1) THEN fine[s][k] + 1 ELSE fine[s][k]
      <3>1. rows'[s] = Older(rows[s]) /\ fine'[s] = Older(fine[s])
        BY <1>2
      <3> QED BY <2>1, <3>1
    <2>3. rows[s][k] \in 0..Grace \cup {None} /\ fine[s][k] \in 0..Grace
      BY <1>1
    <2>4. rows[s][k] # None => rows[s][k] <= fine[s][k]
      BY Pointwise DEF RowsAreCovered
    <2> QED BY <2>2, <2>3, <2>4, SMT
  <1>5. cache' \in CacheType
    <2>1. cache \in CacheType
      BY Pointwise
    <2>2. Empty \in CacheType
      BY DEF Empty, CacheType
    <2>3. CASE cache.left > 1
      <3>1. cache' = [cache EXCEPT !.left = cache.left - 1]
        BY <2>3 DEF Tick, Aged
      <3>2. cache.left \in 0..TTL /\ cache.left - 1 \in 0..TTL
        BY <2>1, <2>3 DEF CacheType
      <3> QED BY <2>1, <3>1, <3>2 DEF CacheType
    <2>4. CASE ~(cache.left > 1)
      BY <2>2, <2>4 DEF Tick, Aged
    <2> QED BY <2>3, <2>4
  <1>6. UNCHANGED <<outside, poll, alerts>>
    BY DEF Tick
  <1>7. poll' \in [Poll -> PollType] /\ \A p \in Poll : PollOK(poll'[p])
    BY <1>6, Pointwise
  <1>8. alerts' \in [San -> SUBSET Keys]
    BY <1>6, Pointwise
  <1> QED BY <1>3, <1>4, <1>5, <1>6, <1>7, <1>8, OutsideStays, PointwisePrime

\* A request begins or goes on with its reading.
LEMMA AskStep == ASSUME IInv, NEW p \in Poll, NEW s \in San, Ask(p, s) PROVE IInv'
  <1> DEFINE q == [ph |-> IF Fresh THEN "ready" ELSE "conf", san |-> s, asks |-> TRUE,
                   set |-> set, data |-> IF Fresh THEN cache.data ELSE NoOverview]
  <1>1. cache \in CacheType /\ set \in Settings
    BY Pointwise
  <1>2. PollOK(q)
    <2>1. cache.data \in Overviews \cup {NoOverview}
      BY <1>1 DEF CacheType
    <2> QED BY <1>1, <2>1 DEF PollOK, PollType, Phases
  <1>3. poll' = [poll EXCEPT ![p] = q] /\ UNCHANGED <<outside, cache, rows, alerts, fine>>
    BY DEF Ask
  <1> HIDE DEF q
  <1>4. poll' \in [Poll -> PollType] /\ \A r \in Poll : PollOK(poll'[r])
    BY <1>2, <1>3, OnePoll
  <1>5. cache' \in CacheType /\ alerts' \in [San -> SUBSET Keys]
    BY <1>3, Pointwise
  <1> QED BY <1>3, <1>4, <1>5, OutsideStays, CountersStay, PointwisePrime

LEMMA ShowStep == ASSUME IInv, NEW p \in Poll, NEW s \in San, Show(p, s) PROVE IInv'
  <1> DEFINE q == [Idle EXCEPT !.ph = "conf", !.san = s]
  <1>2. PollOK(q)
    BY DEF PollOK, PollType, Phases, Idle
  <1>3. poll' = [poll EXCEPT ![p] = q] /\ UNCHANGED <<outside, cache, rows, alerts, fine>>
    BY DEF Show
  <1> HIDE DEF q
  <1>4. poll' \in [Poll -> PollType] /\ \A r \in Poll : PollOK(poll'[r])
    BY <1>2, <1>3, OnePoll
  <1>5. cache' \in CacheType /\ alerts' \in [San -> SUBSET Keys]
    BY <1>3, Pointwise
  <1> QED BY <1>3, <1>4, <1>5, OutsideStays, CountersStay, PointwisePrime

LEMMA ReadConfStep == ASSUME IInv, NEW p \in Poll, ReadConf(p) PROVE IInv'
  <1> DEFINE s == poll[p].san
             conf == IF s \in sick THEN {} ELSE Ini[s]
             q == [poll[p] EXCEPT !.ph = "sessions", !.data = Overview(s, conf, {})]
  <1>1. poll[p].ph = "conf" /\ PollOK(poll[p]) /\ poll \in [Poll -> PollType]
    BY Pointwise DEF ReadConf
  <1>2. s \in San
    BY <1>1 DEF PollOK
  <1>3. Overview(s, conf, {}) \in OverviewOf(s)
    BY <1>2 DEF Overview, OverviewOf
  <1>4. PollOK(q)
    <2>1. Overview(s, conf, {}) \in Overviews
      BY <1>2, <1>3, OverviewIsOne
    <2> QED BY <1>1, <1>2, <1>3, <2>1 DEF PollOK, PollType, Phases
  <1>5. poll' = [poll EXCEPT ![p] = q] /\ UNCHANGED <<outside, cache, rows, alerts, fine>>
    BY <1>1 DEF ReadConf
  <1> HIDE DEF q
  <1>6. poll' \in [Poll -> PollType] /\ \A r \in Poll : PollOK(poll'[r])
    BY <1>4, <1>5, OnePoll
  <1>7. cache' \in CacheType /\ alerts' \in [San -> SUBSET Keys]
    BY <1>5, Pointwise
  <1> QED BY <1>5, <1>6, <1>7, OutsideStays, CountersStay, PointwisePrime

LEMMA ReadSessionsStep == ASSUME IInv, NEW p \in Poll, ReadSessions(p) PROVE IInv'
  <1> DEFINE s == poll[p].san
             act == IF s \in sick \/ poll[p].data.conf = {} THEN {} ELSE live[s]
             data == [poll[p].data EXCEPT !.act = act]
             q == IF poll[p].asks THEN [poll[p] EXCEPT !.ph = "ready", !.data = data] ELSE Idle
  <1>1. poll[p].ph = "sessions" /\ PollOK(poll[p]) /\ poll \in [Poll -> PollType]
    BY Pointwise DEF ReadSessions
  <1>2. s \in San /\ poll[p].data \in OverviewOf(s)
    BY <1>1 DEF PollOK
  <1>3. act \in SUBSET Ini[s]
    BY <1>2, Pointwise
  <1>4. data \in Overviews
    <2> HIDE DEF act
    <2>1. data \in OverviewOf(s)
      BY <1>2, <1>3 DEF OverviewOf
    <2> QED BY <1>2, <2>1, OverviewIsOne
  <1>5. PollOK(q)
    <2> HIDE DEF data
    <2>1. CASE poll[p].asks
      BY <1>1, <1>2, <1>4, <2>1 DEF PollOK, PollType, Phases
    <2>2. CASE ~poll[p].asks
      BY <2>2, IdleIsOK
    <2> QED BY <2>1, <2>2
  <1>6. /\ poll' = [poll EXCEPT ![p] = q] /\ cache' = Kept(data)
        /\ UNCHANGED <<outside, rows, alerts, fine>>
    BY <1>1 DEF ReadSessions
  <1> HIDE DEF q, data
  <1>7. poll' \in [Poll -> PollType] /\ \A r \in Poll : PollOK(poll'[r])
    BY <1>5, <1>6, OnePoll
  <1>8. cache' \in CacheType
    BY <1>4, <1>6 DEF Kept, CacheType
  <1>9. alerts' \in [San -> SUBSET Keys]
    BY <1>6, Pointwise
  <1> QED BY <1>6, <1>7, <1>8, <1>9, OutsideStays, CountersStay, PointwisePrime

LEMMA FailsStep == ASSUME IInv, NEW p \in Poll, Fails(p) PROVE IInv'
  <1>1. /\ poll[p].ph # "idle" /\ PollOK(poll[p]) /\ poll \in [Poll -> PollType]
        /\ poll[p].san \in San
    BY Pointwise DEF Fails, PollOK
  <1>2. UNCHANGED <<outside, cache, rows, fine>>
    BY DEF Fails
  <1>3. alerts' \in [San -> SUBSET Keys]
    BY <1>1, Pointwise DEF Fails
  <1>4. poll' \in [Poll -> PollType] /\ \A r \in Poll : PollOK(poll'[r])
    <2>1. CASE poll' = [poll EXCEPT ![p] = Idle]
      BY <2>1, IdleIsOK, OnePoll
    <2>2. CASE poll' = [poll EXCEPT ![p] = IF @.ph = "ready" THEN Idle
                                           ELSE [@ EXCEPT !.asks = FALSE, !.set = None]]
      <3> DEFINE q == IF poll[p].ph = "ready" THEN Idle
                      ELSE [poll[p] EXCEPT !.asks = FALSE, !.set = None]
      <3>1. poll' = [poll EXCEPT ![p] = q]
        BY <1>1, <2>2
      <3>2. PollOK(q)
        <4>1. CASE poll[p].ph = "ready"
          BY <4>1, IdleIsOK
        <4>2. CASE poll[p].ph # "ready"
          BY <1>1, <4>2 DEF PollOK, PollType
        <4> QED BY <4>1, <4>2
      <3> HIDE DEF q
      <3> QED BY <3>1, <3>2, OnePoll
    <2> QED BY <2>1, <2>2 DEF Fails
  <1>5. cache' \in CacheType
    BY <1>2, Pointwise
  <1> QED BY <1>2, <1>3, <1>4, <1>5, OutsideStays, CountersStay, PointwisePrime

\* detectAlerts() deletes the rows it leaves out and begins the new ones at the
\* age nothing is younger than.
LEMMA AnswerStep == ASSUME IInv, NEW p \in Poll, Answer(p) PROVE IInv'
  <1> DEFINE s == poll[p].san
             st == poll[p].set
             found == Found(st, poll[p].data)
             graced == st.on /\ st.grace > 0
             row == IF graced THEN FinalizeSessionGrace(rows[s], found) ELSE [k \in Keys |-> None]
             fresh == [k \in Keys |-> IF k \in found /\ graced THEN fine[s][k] ELSE 0]
             raised == {k \in found : graced => row[k] >= st.grace}
  <1>1. poll[p].ph = "ready" /\ PollOK(poll[p]) /\ poll \in [Poll -> PollType]
    BY Pointwise DEF Answer
  <1>2. s \in San /\ st \in Settings /\ poll[p].data \in Overviews \cup {NoOverview}
    BY <1>1 DEF PollOK, PollType
  <1>3. /\ rows \in [San -> [Keys -> 0..Grace \cup {None}]]
        /\ fine \in [San -> [Keys -> 0..Grace]] /\ alerts \in [San -> SUBSET Keys]
        /\ \A k \in Keys : rows[s][k] # None => rows[s][k] <= fine[s][k]
    BY <1>2, Pointwise DEF RowsAreCovered
  <1>4. /\ poll' = [poll EXCEPT ![p] = Idle] /\ UNCHANGED <<outside, cache>>
        /\ rows' = [rows EXCEPT ![s] = row] /\ alerts' = [alerts EXCEPT ![s] = raised]
        /\ fine' = [fine EXCEPT ![s] = fresh]
    BY <1>2, <1>3 DEF Answer
  <1>5. found \subseteq Keys
    BY <1>2, FoundKeys
  <1>6. row \in [Keys -> 0..Grace \cup {None}]
    BY <1>2, <1>3, FinalizeCounts
  <1>7. fresh \in [Keys -> 0..Grace]
    BY <1>2, <1>3
  <1>8. \A k \in Keys : row[k] # None => row[k] <= fresh[k]
    <2> SUFFICES ASSUME NEW k \in Keys, row[k] # None PROVE row[k] <= fresh[k]
      OBVIOUS
    <2> HIDE DEF found
    <2>1. graced /\ k \in found
      BY DEF FinalizeSessionGrace
    <2>2. row[k] = (IF rows[s][k] = None THEN 0 ELSE rows[s][k]) /\ fresh[k] = fine[s][k]
      BY <2>1 DEF FinalizeSessionGrace
    <2>3. rows[s][k] \in 0..Grace \cup {None} /\ fine[s][k] \in 0..Grace
      BY <1>2, <1>3
    <2> QED BY <1>3, <2>2, <2>3
  <1> HIDE DEF s, st, found, graced, row, fresh
  <1>9. rows' \in [San -> [Keys -> 0..Grace \cup {None}]] /\ fine' \in [San -> [Keys -> 0..Grace]]
    BY <1>3, <1>4, <1>6, <1>7
  <1>10. RowsAreCovered'
    <2> SUFFICES ASSUME NEW t \in San, NEW k \in Keys, rows'[t][k] # None
                 PROVE  rows'[t][k] <= fine'[t][k]
      BY DEF RowsAreCovered
    <2>1. CASE t = s
      BY <1>2, <1>3, <1>4, <1>8, <2>1
    <2>2. CASE t # s
      BY <1>3, <1>4, <2>2, Pointwise DEF RowsAreCovered
    <2> QED BY <2>1, <2>2
  <1>11. alerts' \in [San -> SUBSET Keys]
    BY <1>3, <1>4, <1>5
  <1>12. poll' \in [Poll -> PollType] /\ \A r \in Poll : PollOK(poll'[r])
    BY <1>4, IdleIsOK, OnePoll
  <1>13. cache' \in CacheType
    BY <1>4, Pointwise
  <1> QED BY <1>4, <1>9, <1>10, <1>11, <1>12, <1>13, OutsideStays, PointwisePrime

\* What happens outside, new settings and a restart.
LEMMA OutsideStep ==
  ASSUME IInv,
         \/ \E s \in San : HealthChanges(s) \/ \E i \in Ini[s] : SessionChanges(s, i)
         \/ Restart \/ \E new \in Settings : SaveSettings(new)
  PROVE  IInv'
  <1>1. Empty \in CacheType
    BY DEF Empty, CacheType
  <1>2. ASSUME NEW s \in San, HealthChanges(s) PROVE IInv'
    <2>1. sick' \subseteq San /\ UNCHANGED <<live, set, cache, poll, rows, alerts, fine>>
      BY <1>2, Pointwise DEF HealthChanges
    <2> QED BY <2>1, Pointwise, CountersStay, PointwisePrime
  <1>3. ASSUME NEW s \in San, NEW i \in Ini[s], SessionChanges(s, i) PROVE IInv'
    <2>1. UNCHANGED <<sick, set, cache, poll, rows, alerts, fine>>
      BY <1>3 DEF SessionChanges
    <2>2. live' \in [San -> SUBSET Initiators] /\ \A t \in San : live'[t] \subseteq Ini[t]
      <3>1. live \in [San -> SUBSET Initiators] /\ \A t \in San : live[t] \subseteq Ini[t]
        BY Pointwise
      <3>2. (IF i \in live[s] THEN live[s] \ {i} ELSE live[s] \cup {i}) \in SUBSET Ini[s]
        BY <1>3, <3>1
      <3>3. Ini[s] \subseteq Initiators
        BY DEF Initiators
      <3>4. live' = [live EXCEPT ![s] = IF i \in live[s] THEN live[s] \ {i} ELSE live[s] \cup {i}]
        BY <1>3, <3>1 DEF SessionChanges
      <3>5. \A t \in San : live'[t] = IF t = s THEN IF i \in live[s] THEN live[s] \ {i} ELSE live[s] \cup {i}
                                      ELSE live[t]
        BY <3>1, <3>4
      <3> QED BY <3>1, <3>2, <3>3, <3>4, <3>5
    <2> QED BY <2>1, <2>2, Pointwise, CountersStay, PointwisePrime
  <1>4. ASSUME Restart PROVE IInv'
    <2>1. cache' = Empty /\ poll' = [p \in Poll |-> Idle] /\ UNCHANGED <<outside, rows, alerts, fine>>
      BY <1>4 DEF Restart
    <2>2. poll' \in [Poll -> PollType] /\ \A p \in Poll : PollOK(poll'[p])
      <3>1. Idle \in PollType
        BY IdleIsOK DEF PollOK
      <3> QED BY <2>1, <3>1, IdleIsOK
    <2>3. alerts' \in [San -> SUBSET Keys]
      BY <2>1, Pointwise
    <2> QED BY <1>1, <2>1, <2>2, <2>3, OutsideStays, CountersStay, PointwisePrime
  <1>5. ASSUME NEW new \in Settings, SaveSettings(new) PROVE IInv'
    <2>1. set' = new /\ cache' = Empty /\ UNCHANGED <<live, sick, poll, rows, alerts, fine>>
      BY <1>5 DEF SaveSettings
    <2> QED BY <1>1, <2>1, Pointwise, CountersStay, PointwisePrime
  <1> QED BY <1>2, <1>3, <1>4, <1>5

LEMMA NextInv == IInv /\ [Next]_vars => IInv'
  <1> SUFFICES ASSUME IInv, [Next]_vars PROVE IInv'
    OBVIOUS
  <1>1. CASE UNCHANGED vars
    <2>1. UNCHANGED <<outside, cache, poll, rows, alerts, fine>>
      BY <1>1 DEF vars, outside
    <2>2. /\ cache' \in CacheType /\ alerts' \in [San -> SUBSET Keys]
          /\ poll' \in [Poll -> PollType] /\ \A p \in Poll : PollOK(poll'[p])
      BY <2>1, Pointwise
    <2> QED BY <2>1, <2>2, OutsideStays, CountersStay, PointwisePrime
  <1>2. CASE Tick
    BY <1>2, TickStep
  <1>3. CASE \/ \E s \in San : HealthChanges(s) \/ \E i \in Ini[s] : SessionChanges(s, i)
             \/ Restart \/ \E new \in Settings : SaveSettings(new)
    BY <1>3, OutsideStep
  <1>4. ASSUME NEW p \in Poll,
               PollStep(p) \/ Fails(p) \/ \E s \in San : Ask(p, s) \/ Show(p, s)
        PROVE  IInv'
    BY <1>4, ReadConfStep, ReadSessionsStep, AnswerStep, FailsStep, AskStep, ShowStep DEF PollStep
  <1> QED BY <1>1, <1>2, <1>3, <1>4 DEF Next

(***************************************************************************)
(* The state keeps its types: rows of the table alert_session_state are    *)
(* about known keys, and the overview of withCache() is one that was read. *)
(***************************************************************************)
THEOREM TypeCorrect == Spec => []TypeOK
  <1>1. IInv => TypeOK
    BY DEF IInv
  <1> QED BY InitInv, NextInv, <1>1, PTL DEF Spec

(***************************************************************************)
(* The session alerts that detectAlerts() raises are due: every answer      *)
(* about the SAN has reported the loss for the whole grace period, however  *)
(* the polls overlap and whatever overview the cache gave them.             *)
(***************************************************************************)
THEOREM AlertsAreDue == Spec => AlertIsDue
  <1>1. ASSUME IInv, Next
        PROVE  \A s \in San : \A k \in alerts'[s] \ alerts[s] :
                 \E p \in Poll : poll[p].san = s /\ poll[p].ph = "ready" /\ poll[p].set.grace <= fine[s][k]
    <2> SUFFICES ASSUME NEW s \in San, NEW k \in alerts'[s] \ alerts[s]
                 PROVE  \E p \in Poll : /\ poll[p].san = s /\ poll[p].ph = "ready"
                                        /\ poll[p].set.grace <= fine[s][k]
      OBVIOUS
    <2> USE <1>1
    <2>1. alerts \in [San -> SUBSET Keys]
      BY Pointwise
    <2>2. alerts' # alerts
      OBVIOUS
    <2>3. PICK p \in Poll : Answer(p)
      <3>1. ASSUME NEW p \in Poll, Fails(p) PROVE FALSE
        <4>1. alerts' = [alerts EXCEPT ![poll[p].san] = {}] \/ alerts' = alerts
          BY <3>1 DEF Fails
        <4> QED BY <2>1, <4>1
      <3> QED BY <2>2, <3>1 DEF Next, Tick, Restart, SaveSettings, HealthChanges, SessionChanges,
                                PollStep, ReadConf, ReadSessions, Ask, Show
    <2> DEFINE st == poll[p].set
               found == Found(st, poll[p].data)
               graced == st.on /\ st.grace > 0
               row == IF graced THEN FinalizeSessionGrace(rows[poll[p].san], found)
                      ELSE [j \in Keys |-> None]
    <2>4. poll[p].ph = "ready" /\ PollOK(poll[p])
      BY <2>3, Pointwise DEF Answer
    <2>5. /\ poll[p].san \in San /\ st \in Settings /\ st.grace \in 0..Grace /\ st.on \in BOOLEAN
          /\ poll[p].data \in Overviews \cup {NoOverview}
      BY <2>4 DEF PollOK, PollType
    <2>6. alerts' = [alerts EXCEPT ![poll[p].san] = {j \in found : graced => row[j] >= st.grace}]
      BY <2>3 DEF Answer
    <2>7. poll[p].san = s /\ k \in found /\ (graced => row[k] >= st.grace)
      <3> HIDE DEF found, row, graced
      <3> QED BY <2>1, <2>5, <2>6
    <2>8. k \in Keys /\ fine[s][k] \in 0..Grace
      <3>1. k \in Keys
        BY <2>5, <2>7, FoundKeys
      <3> QED BY <3>1, Pointwise
    <2>9. st.grace <= fine[s][k]
      <3>1. CASE graced
        <4> HIDE DEF found
        <4>1. row[k] = IF rows[s][k] = None THEN 0 ELSE rows[s][k]
          BY <2>7, <2>8, <3>1 DEF FinalizeSessionGrace
        <4>2. rows[s][k] \in 0..Grace \cup {None} /\ (rows[s][k] # None => rows[s][k] <= fine[s][k])
          BY <2>8, Pointwise DEF RowsAreCovered
        <4> HIDE DEF row
        <4> QED BY <2>5, <2>7, <2>8, <3>1, <4>1, <4>2
      <3>2. CASE ~graced
        <4>1. st.on
          BY <2>7 DEF Found
        <4> QED BY <2>5, <2>8, <3>2, <4>1
      <3> QED BY <3>1, <3>2
    <2> QED BY <2>4, <2>7, <2>9
  <1>2. IInv /\ [Next]_vars =>
          [\A s \in San : \A k \in alerts'[s] \ alerts[s] :
             \E p \in Poll : poll[p].san = s /\ poll[p].ph = "ready" /\ poll[p].set.grace <= fine[s][k]]_vars
    BY <1>1
  <1> QED
    BY <1>2, InitInv, NextInv, PTL DEF Spec, AlertIsDue
=============================================================================
