---------------------------- MODULE SessionAlerts ----------------------------
(***************************************************************************)
(* Session alerts: the dashboards poll GET /api/alerts for the SAN they    *)
(* show; each poll takes an overview of the SAN from a cache or reads one  *)
(* over SSH, finds the initiators without a session, and raises an alert   *)
(* for those that earlier polls have found lost for the grace period       *)
(* (server/utils/alerts.ts, server/utils/cache.ts, the table               *)
(* alert_session_state).                                                   *)
(*                                                                         *)
(* The cache has one overview, whatever the SAN it was read from. Polls    *)
(* overlap: a poll waits between its steps, and the settings it works with *)
(* are those of its beginning. Time is counted in ticks, and each counter  *)
(* stops at the largest value that matters.                                *)
(***************************************************************************)
EXTENDS Naturals, FiniteSets

CONSTANTS San,       \* the SANs
          Ini,       \* Ini[s]: the initiators of the group configured on s
          Watched,   \* the SANs whose dashboard polls the alerts
          Poll,      \* requests that may be under way at the same time
          Settings,  \* the alert settings an administrator chooses from
          MinActive, \* alerts.session_min_active
          TTL,       \* the life of the cached overview
          Grace,     \* the longest grace period of Settings
          None       \* no row, no overview, no settings

Initiators == UNION {Ini[s] : s \in San}

\* What an alert is about: an initiator, or the group of a SAN.
Keys == Initiators \cup San

ASSUME InventoryAssumption ==
  /\ Ini \in [San -> SUBSET Initiators] /\ Initiators \cap San = {}
  /\ IsFiniteSet(Initiators) /\ None \notin San
ASSUME WatchedAssumption == Watched \subseteq San
ASSUME TimeAssumption == TTL \in Nat /\ Grace \in Nat /\ None \notin Nat
ASSUME SettingsAssumption ==
  Settings \subseteq [on : BOOLEAN, policy : {"strict", "multipath"}, grace : 0..Grace]

VARIABLES
  live,   \* live[s]: the initiators that have a session on s
  sick,   \* the SANs whose commands fail
  set,    \* the settings in the database
  cache,  \* the overview kept under the key `overview', and its time to live
  poll,   \* poll[p]: where request p is, and what it knows
  rows,   \* rows[s][k]: ticks since first_violation_at of key k, or None
  alerts, \* alerts[s]: the session alerts of the last answer about s
  fine    \* fine[s][k]: ticks since an answer about s left k out (history)

vars == <<live, sick, set, cache, poll, rows, alerts, fine>>
outside == <<live, sick, set>>

Overview(s, conf, act) == [san |-> s, conf |-> conf, act |-> act]
Overviews == UNION {[san : {s}, conf : {{}, Ini[s]}, act : SUBSET Ini[s]] : s \in San}
NoOverview == Overview(None, {}, {})
Empty == [data |-> NoOverview, left |-> 0]

\* A request: the SAN it is about, whether its answer will be alerts, the
\* settings it has read for them, and the overview as far as it is read.
Idle == [ph |-> "idle", san |-> None, asks |-> FALSE, set |-> None, data |-> NoOverview]

Init == /\ live = Ini /\ sick = {} /\ set \in Settings
        /\ cache = Empty /\ poll = [p \in Poll |-> Idle]
        /\ rows = [s \in San |-> [k \in Keys |-> None]]
        /\ alerts = [s \in San |-> {}]
        /\ fine = [s \in San |-> [k \in Keys |-> 0]]

-----------------------------------------------------------------------------
(* Outside the server.                                                      *)

\* An initiator loses its sessions on s, or is back.
SessionChanges(s, i) ==
  /\ live' = [live EXCEPT ![s] = IF i \in @ THEN @ \ {i} ELSE @ \cup {i}]
  /\ UNCHANGED <<sick, set, cache, poll, rows, alerts, fine>>

\* The commands on s fail, or work again.
HealthChanges(s) ==
  /\ sick' = IF s \in sick THEN sick \ {s} ELSE sick \cup {s}
  /\ UNCHANGED <<live, set, cache, poll, rows, alerts, fine>>

Older(f) == [k \in Keys |-> IF f[k] \in 0..(Grace - 1) THEN f[k] + 1 ELSE f[k]]

\* Mutant of Aged: the time to live is not looked at.
NeverAged(c) == c

\* An overview past its time to live is not used.
Aged(c) == IF c.left > 1 THEN [c EXCEPT !.left = @ - 1] ELSE Empty

Tick == /\ cache' = Aged(cache)
        /\ rows' = [s \in San |-> Older(rows[s])]
        /\ fine' = [s \in San |-> Older(fine[s])]
        /\ UNCHANGED <<outside, poll, alerts>>

-----------------------------------------------------------------------------
(* The server.                                                              *)

\* The settings are saved and the whole cache is dropped. (Writes of scst.conf
\* and the button of the administration drop it without new settings.)
SaveSettings(new) ==
  /\ set' = new /\ cache' = Empty
  /\ UNCHANGED <<live, sick, poll, rows, alerts, fine>>

\* The server restarts: requests and cache are gone, the rows are not.
Restart == /\ cache' = Empty /\ poll' = [p \in Poll |-> Idle]
           /\ UNCHANGED <<outside, rows, alerts, fine>>

Fresh == cache.left > 0

\* A poll begins: the settings are read, then the overview is taken from the
\* cache, whatever SAN it is of, or its reading starts.
Ask(p, s) ==
  /\ poll[p].ph = "idle" /\ s \in Watched
  /\ poll' = [poll EXCEPT ![p] =
                [ph |-> IF Fresh THEN "ready" ELSE "conf", san |-> s, asks |-> TRUE,
                 set |-> set, data |-> IF Fresh THEN cache.data ELSE NoOverview]]
  /\ UNCHANGED <<outside, cache, rows, alerts, fine>>

\* A page shows the overview of a SAN, through the same cache.
Show(p, s) ==
  /\ poll[p].ph = "idle" /\ ~Fresh
  /\ poll' = [poll EXCEPT ![p] = [Idle EXCEPT !.ph = "conf", !.san = s]]
  /\ UNCHANGED <<outside, cache, rows, alerts, fine>>

\* The configuration is read; `cat ... || true' of a failing SAN reads as empty.
ReadConf(p) ==
  /\ poll[p].ph = "conf"
  /\ LET s == poll[p].san
         conf == IF s \in sick THEN {} ELSE Ini[s]
     IN  poll' = [poll EXCEPT ![p].ph = "sessions", ![p].data = Overview(s, conf, {})]
  /\ UNCHANGED <<outside, cache, rows, alerts, fine>>

\* Mutant of Kept: the time to live is counted twice.
KeptTwice(data) == [data |-> data, left |-> 2 * TTL]

Kept(data) == [data |-> data, left |-> TTL]

\* The sessions are read later; when that fails there are none. The overview is
\* cached, whatever happened since it was asked for.
ReadSessions(p) ==
  /\ poll[p].ph = "sessions"
  /\ LET s == poll[p].san
         act == IF s \in sick \/ poll[p].data.conf = {} THEN {} ELSE live[s]
         data == [poll[p].data EXCEPT !.act = act]
     IN  /\ cache' = Kept(data)
         /\ poll' = [poll EXCEPT ![p] = IF @.asks THEN [@ EXCEPT !.ph = "ready", !.data = data]
                                        ELSE Idle]
  /\ UNCHANGED <<outside, rows, alerts, fine>>

\* A command is rejected. While the configuration is read that ends the reading
\* too; a rejected reading of the hardware ends the poll only, and the overview
\* is read all the same. The answer is an empty list in either case.
Fails(p) ==
  /\ poll[p].ph # "idle" /\ poll[p].san \in sick
  /\ \/ poll[p].ph = "conf" /\ poll' = [poll EXCEPT ![p] = Idle]
     \/ /\ poll[p].asks
        /\ poll' = [poll EXCEPT ![p] = IF @.ph = "ready" THEN Idle
                                       ELSE [@ EXCEPT !.asks = FALSE, !.set = None]]
  /\ alerts' = IF poll[p].asks THEN [alerts EXCEPT ![poll[p].san] = {}] ELSE alerts
  /\ UNCHANGED <<outside, cache, rows, fine>>

\* The keys in violation: under the strict policy every initiator without a
\* session, else the group when too few of its initiators have one.
Found(st, data) ==
  CASE ~st.on -> {}
    [] st.on /\ st.policy = "strict" -> data.conf \ data.act
    [] st.on /\ st.policy = "multipath" ->
         IF data.conf # {} /\ Cardinality(data.conf \cap data.act) < MinActive
         THEN {data.san} ELSE {}

\* Mutant of FinalizeSessionGrace: rows no longer in violation are kept.
FinalizeNothingDropped(row, violated) ==
  [k \in Keys |-> IF k \in violated /\ row[k] = None THEN 0 ELSE row[k]]

\* Mutant of FinalizeSessionGrace: the violation begins anew at each poll.
FinalizeOverwritten(row, violated) == [k \in Keys |-> IF k \in violated THEN 0 ELSE None]

\* Rows no longer in violation are deleted, the new ones begin now.
FinalizeSessionGrace(row, violated) ==
  [k \in Keys |-> IF k \notin violated THEN None
                  ELSE IF row[k] = None THEN 0 ELSE row[k]]

\* detectAlerts(), in one step: nothing in it waits.
Answer(p) ==
  LET s == poll[p].san
      st == poll[p].set
      found == Found(st, poll[p].data)
      graced == st.on /\ st.grace > 0
      row == IF graced THEN FinalizeSessionGrace(rows[s], found) ELSE [k \in Keys |-> None]
  IN  /\ poll[p].ph = "ready"
      /\ poll' = [poll EXCEPT ![p] = Idle]
      /\ rows' = [rows EXCEPT ![s] = row]
      /\ alerts' = [alerts EXCEPT ![s] = {k \in found : graced => row[k] >= st.grace}]
      /\ fine' = [fine EXCEPT ![s] = [k \in Keys |-> IF k \in found /\ graced THEN @[k] ELSE 0]]
      /\ UNCHANGED <<outside, cache>>

PollStep(p) == ReadConf(p) \/ ReadSessions(p) \/ Answer(p)

Next == \/ \E s \in San : HealthChanges(s) \/ \E i \in Ini[s] : SessionChanges(s, i)
        \/ Tick \/ Restart \/ \E new \in Settings : SaveSettings(new)
        \/ \E p \in Poll : PollStep(p) \/ Fails(p) \/ \E s \in San : Ask(p, s) \/ Show(p, s)

Spec == Init /\ [][Next]_vars

\* Time passes. That a poll is answered is not promised: a channel request that the
\* SAN leaves unanswered has no timeout.
Fairness == WF_vars(Tick)

FairSpec == Spec /\ Fairness

-----------------------------------------------------------------------------
(* Properties.                                                              *)

Phases == {"idle", "conf", "sessions", "ready"}

(* The state has its types; the overview lives no longer than its TTL       *)
(* (withCache), rows are about known keys (the table alert_session_state).  *)
TypeOK ==
  /\ live \in [San -> SUBSET Initiators] /\ \A s \in San : live[s] \subseteq Ini[s]
  /\ sick \subseteq San /\ set \in Settings
  /\ cache \in [data : Overviews \cup {NoOverview}, left : 0..TTL]
  /\ poll \in [Poll -> [ph : Phases, san : San \cup {None}, asks : BOOLEAN, set : Settings \cup {None},
                        data : Overviews \cup {NoOverview}]]
  /\ \A p \in Poll : /\ poll[p].ph # "idle" => poll[p].san \in San
                     /\ poll[p].ph = "ready" => poll[p].asks
                     /\ poll[p].asks => poll[p].set \in Settings
  /\ rows \in [San -> [Keys -> 0..Grace \cup {None}]]
  /\ alerts \in [San -> SUBSET Keys]
  /\ fine \in [San -> [Keys -> 0..Grace]]

(* detectAlerts() raises an alert only for what every answer about this SAN *)
(* has reported lost for the whole grace period of the poll: neither polls  *)
(* that overlap, nor readings that fail, nor a restart, nor new settings,   *)
(* nor the overview of another SAN shorten it.                              *)
AlertIsDue ==
  [][\A s \in San : \A k \in alerts'[s] \ alerts[s] :
       \E p \in Poll : poll[p].san = s /\ poll[p].ph = "ready" /\ poll[p].set.grace <= fine[s][k]]_vars

\* Polls about s go on being answered.
Polled(s) == []<><<\E p \in Poll : poll[p].san = s /\ Answer(p)>>_vars

\* No request works, or would work, with the overview of another SAN than s.
OwnOverview(s) == /\ cache.left = 0 \/ cache.data.san = s
                  /\ \A p \in Poll : poll[p].data.san \in {s, None}

(* While the dashboard of a SAN polls, what stays in violation is reported in *)
(* the end, and from then on by every answer of GET /api/alerts; provided    *)
(* nobody looks at another SAN, whose overview would delete the rows of this *)
(* one.                                                                     *)
LostIsReported ==
  \A s \in Watched : \A k \in Ini[s] \cup {s}, st \in Settings :
    /\ Polled(s)
    /\ <>[](/\ set = st /\ k \in Found(st, Overview(s, Ini[s], live[s]))
           /\ s \notin sick /\ OwnOverview(s))
    => <>[](k \in alerts[s])

(* While the dashboard polls, an initiator is reported no more once it stays  *)
(* connected to every SAN that it is configured on, and their commands work: *)
(* neither the cache nor a reading of before hides that it is back, whatever *)
(* is shown, saved and restarted. That it is back on the polled SAN is not   *)
(* enough: the overview of another SAN, under the shared key, raises it.     *)
BackIsCleared ==
  \A s \in Watched : \A i \in Ini[s] :
    /\ Polled(s)
    /\ <>[](\A t \in San : i \in Ini[t] => i \in live[t] /\ t \notin sick)
    => <>[](i \notin alerts[s])
=============================================================================
