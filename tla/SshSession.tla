----------------------------- MODULE SshSession -----------------------------
(***************************************************************************)
(* server/utils/ssh-session-manager.ts: one SSHSessionManager.  It keeps    *)
(* one SSH connection to a SAN node, reconnects with a bounded number of    *)
(* retries, queues commands while there is no connection, and throttles     *)
(* the channels it multiplexes over the connection.                         *)
(*                                                                         *)
(* The program runs on one JavaScript event loop.  A macrotask (a timer, a  *)
(* socket read, an HTTP handler) runs to completion, then the microtasks    *)
(* (the continuations of promises) run in FIFO order before the next        *)
(* macrotask.  `micro' is that FIFO.  One socket read can deliver several   *)
(* ssh2 events before any microtask runs: `reading' says that the last      *)
(* step was such an event.                                                  *)
(***************************************************************************)
EXTENDS Integers, Sequences, FiniteSets

CONSTANTS
  Cmd,          \* callers: each has at most one exec() or uploadFile() under way
  Upload,       \* the callers that use uploadFile(); the others use exec()
  Client,       \* identities of ssh2 Client objects, reused once closed
  NoClient,     \* this.client === null
  MaxChannels,  \* maxChannels (10)
  MaxRetries,   \* maxRetries (10)
  MaxReloads    \* bound: calls of reload(); 0 for a manager of the pool

ASSUME CmdAssumption == IsFiniteSet(Cmd) /\ Upload \subseteq Cmd
ASSUME ClientAssumption == NoClient \notin Client
ASSUME BoundsAssumption ==
  MaxChannels \in Nat \ {0} /\ MaxRetries \in Nat /\ MaxReloads \in Nat

VARIABLES
  status,      \* this.status
  client,      \* this.client
  destroyed,   \* this.destroyed
  retryCount,  \* this.retryCount
  timers,      \* setTimeout(() => this.connect()) calls still to fire
  reloads,     \* reload() calls made so far
  reloading,   \* of these, the ones between destroy() and connect()
  queue,       \* this.queue, as the callers that wait in it
  active,      \* this.activeChannels
  waiters,     \* this.waiters, as the callers whose promise they resolve
  cs,          \* where each caller's command is
  on,          \* the Client a command's channel was opened on
  link,        \* what each ssh2 Client does
  micro,       \* the microtask queue
  reading      \* the last step was an event of a socket read

conn == <<status, client, destroyed, retryCount, timers, reloads, reloading>>
chan == <<queue, active, waiters, cs>>
loop == <<micro, reading>>
vars == <<conn, chan, on, link, loop>>

-----------------------------------------------------------------------------
(* Types.                                                                   *)

Status == {"connecting", "connected", "reconnecting", "error"}

\* idle: no call, or the call has settled; queued: in this.queue; waiting: in
\* this.waiters; woken: its waiter is resolved, the slot not counted yet;
\* granted: the slot is counted, the channel not requested yet; staging: an
\* upload between `await import' and sftp(); opening: channel requested; open:
\* channel open; expired: settled and released, but the stream has not closed;
\* hung: the asynchronous function threw, nothing settles the promise and
\* nothing releases the slot; leaked: settled, the slot never released.
CmdState == {"idle", "queued", "waiting", "woken", "granted", "staging",
             "opening", "open", "expired", "hung", "leaked"}

\* none: not in use; dialing: connect() called; up: 'ready' emitted; hangup and
\* ending: end() called before or after 'ready'; dead: the socket is gone,
\* 'close' not yet delivered.
LinkState == {"none", "dialing", "up", "hangup", "ending", "dead"}

Task == [kind : {"wake", "run", "settled"}, cmd : Cmd]

TypeOK ==
  /\ status \in Status
  /\ client \in Client \cup {NoClient}
  /\ destroyed \in BOOLEAN
  /\ retryCount \in 0..MaxRetries
  /\ timers \in Nat
  /\ reloads \in 0..MaxReloads
  /\ reloading \in 0..reloads
  /\ queue \in Seq(Cmd)
  /\ active \in Int
  /\ waiters \in Seq(Cmd)
  /\ cs \in [Cmd -> CmdState]
  /\ on \in [Cmd -> Client \cup {NoClient}]
  /\ link \in [Client -> LinkState]
  /\ micro \in Seq(Task)
  /\ reading \in BOOLEAN

Wake(c) == [kind |-> "wake", cmd |-> c]
Run(c) == [kind |-> "run", cmd |-> c]
Settled(c) == [kind |-> "settled", cmd |-> c]

-----------------------------------------------------------------------------
(* Helpers.                                                                 *)

\* exec() and uploadFile() refuse at once.
Refusing == destroyed \/ status = "error"

\* exec() runs the command now instead of queueing it.
Usable == status = "connected" /\ client # NoClient

\* this.client is there, and the library holds it in one of the states of S.
ClientIn(S) == client # NoClient /\ link[client] \in S

Elements(s) == {s[i] : i \in 1..Len(s)}

\* A Client object that is not in use and has no channel left.
Free(k) == link[k] = "none" /\ \A c \in Cmd : on[c] # k

\* Macrotasks run only when the microtasks are drained; the events of one
\* socket read may follow each other first.
Macrotask == micro = <<>> /\ reading' = FALSE
SocketEvent == (micro = <<>> \/ reading) /\ reading' = (micro' # <<>>)

\* acquireSlot(), called synchronously by the caller's function.  The promise it
\* returns resumes the caller in a microtask.
AcquireSlot(c, rest) ==
  \/ /\ active < MaxChannels
     /\ active' = active + 1
     /\ cs' = [cs EXCEPT ![c] = "granted"]
     /\ micro' = Append(rest, Run(c))
     /\ UNCHANGED waiters
  \/ /\ active >= MaxChannels
     /\ waiters' = Append(waiters, c)
     /\ cs' = [cs EXCEPT ![c] = "waiting"]
     /\ micro' = rest
     /\ UNCHANGED active

\* Mutant of ReleaseAndSettle: releaseSlot() does not resolve a waiter.
ReleaseNoWake(c, to) ==
  /\ active' = active - 1
  /\ cs' = [cs EXCEPT ![c] = to]
  /\ micro' = Append(micro, Settled(c))
  /\ UNCHANGED <<waiters, queue>>

\* release() and then resolve() or reject(): releaseSlot() resolves the first
\* waiter, whose continuation runs before the one of the settled call.  The
\* command goes to state `to'.
ReleaseAndSettle(c, to) ==
  /\ active' = active - 1
  /\ \/ /\ waiters = <<>>
        /\ cs' = [cs EXCEPT ![c] = to]
        /\ micro' = Append(micro, Settled(c))
        /\ UNCHANGED waiters
     \/ /\ waiters # <<>>
        /\ cs' = [cs EXCEPT ![Head(waiters)] = "woken", ![c] = to]
        /\ micro' = micro \o <<Wake(Head(waiters)), Settled(c)>>
        /\ waiters' = Tail(waiters)
  /\ UNCHANGED queue

\* drainQueue(): every queued call is rejected.
DrainedCs == [c \in Cmd |-> IF c \in Elements(queue) THEN "idle" ELSE cs[c]]
Drained == [i \in 1..Len(queue) |-> Settled(queue[i])]

\* exec(), and uploadFile() for the callers in Upload.
ExecBody(c, rest) ==
  /\ \/ /\ Refusing \/ (~Usable /\ c \in Upload)
        /\ micro' = rest
        /\ UNCHANGED chan
     \/ /\ ~Refusing /\ ~Usable /\ c \notin Upload
        /\ queue' = Append(queue, c)
        /\ cs' = [cs EXCEPT ![c] = "queued"]
        /\ micro' = rest
        /\ UNCHANGED <<active, waiters>>
     \/ /\ ~Refusing /\ Usable
        /\ AcquireSlot(c, rest)
        /\ UNCHANGED queue
  /\ UNCHANGED <<conn, on, link>>

\* Mutant of GiveUp: the queue is not rejected.
GiveUpNoDrain(t, r) ==
  /\ status' = "error"
  /\ retryCount' = r
  /\ timers' = t
  /\ UNCHANGED <<queue, cs, micro>>

\* scheduleReconnect() with no attempt left.
GiveUp(t, r) ==
  /\ status' = "error"
  /\ queue' = <<>>
  /\ cs' = DrainedCs
  /\ micro' = micro \o Drained
  /\ retryCount' = r
  /\ timers' = t

\* scheduleReconnect() with an attempt left: the status stays as it is until
\* the timer fires.
Retry(t, r, s) ==
  /\ status' = s
  /\ retryCount' = r + 1
  /\ timers' = t + 1
  /\ UNCHANGED <<queue, cs, micro>>

\* Mutant of ScheduleReconnect: one attempt too many.
ScheduleReconnectOffByOne(t, r, s) ==
  /\ client' = NoClient
  /\ \/ r > MaxRetries /\ GiveUp(t, r)
     \/ r <= MaxRetries /\ Retry(t, r, s)

\* scheduleReconnect() once `destroyed' is known to be false, t and r being the
\* pending timers and the retryCount it starts from, s the current status.
ScheduleReconnect(t, r, s) ==
  /\ client' = NoClient
  /\ \/ r >= MaxRetries /\ GiveUp(t, r)
     \/ r < MaxRetries /\ Retry(t, r, s)

\* connect() once `destroyed' is known to be false: client.connect() starts the
\* handshake, or throws (an unusable key) and a reconnection is scheduled.
Connect(t, r) ==
  LET s == IF r > 0 THEN "reconnecting" ELSE "connecting" IN
  \/ \E k \in Client :
       /\ Free(k)
       /\ client' = k
       /\ link' = [link EXCEPT ![k] = "dialing"]
       /\ status' = s
       /\ retryCount' = r
       /\ timers' = t
       /\ UNCHANGED <<queue, cs, micro>>
  \/ /\ ScheduleReconnect(t, r, s)
     /\ UNCHANGED link

\* destroy().
DestroyBody ==
  /\ destroyed' = TRUE
  /\ link' = IF client = NoClient THEN link
             ELSE [link EXCEPT ![client] =
                     CASE @ = "dialing" -> "hangup"
                       [] @ = "up" -> "ending"
                       [] OTHER -> @]
  /\ client' = NoClient
  /\ status' = "error"
  /\ queue' = <<>>
  /\ waiters' = <<>>
  /\ cs' = [c \in Cmd |-> IF c \in Elements(waiters) THEN "woken" ELSE DrainedCs[c]]
  /\ micro' = micro \o Drained \o [i \in 1..Len(waiters) |-> Wake(waiters[i])]
  /\ UNCHANGED <<retryCount, timers, active, on>>

-----------------------------------------------------------------------------
(* Macrotasks of the server: calls, timers, removal, reload.                *)

\* A handler or a timer (the keepalive among them) calls exec() or uploadFile().
Call(c) ==
  /\ Macrotask
  /\ cs[c] = "idle"
  /\ ExecBody(c, micro)

\* Mutant of RetryTimer: connect() does not look at `destroyed'.
RetryTimerUnguarded ==
  /\ Macrotask
  /\ timers > 0
  /\ Connect(timers - 1, retryCount)
  /\ UNCHANGED <<destroyed, reloads, reloading, active, waiters, on>>

\* The timer set by scheduleReconnect(): connect().
RetryTimer ==
  /\ Macrotask
  /\ timers > 0
  /\ \/ /\ destroyed
        /\ timers' = timers - 1
        /\ UNCHANGED <<status, client, retryCount, queue, cs, micro, link>>
     \/ /\ ~destroyed
        /\ Connect(timers - 1, retryCount)
  /\ UNCHANGED <<destroyed, reloads, reloading, active, waiters, on>>

\* SSHPool.remove(), destroyAll(), or the shutdown hook.
Destroy ==
  /\ Macrotask
  /\ ~destroyed
  /\ DestroyBody
  /\ UNCHANGED <<reloads, reloading>>

\* reload() up to its first await.
BeginReload ==
  /\ Macrotask
  /\ reloads < MaxReloads
  /\ reloads' = reloads + 1
  /\ reloading' = reloading + 1
  /\ DestroyBody

\* reload() after the configuration is loaded.
FinishReload ==
  /\ Macrotask
  /\ reloading > 0
  /\ reloading' = reloading - 1
  /\ destroyed' = FALSE
  /\ Connect(timers, 0)
  /\ UNCHANGED <<reloads, active, waiters, on>>

\* runExec(): the timeout of an open stream destroys it, releases and rejects.
Expire(c) ==
  /\ Macrotask
  /\ cs[c] = "open" /\ c \notin Upload
  /\ ReleaseAndSettle(c, "expired")
  /\ UNCHANGED <<conn, on, link>>

\* uploadFile() after `await import': statSync() may throw, and so may sftp() on
\* a client that is gone; the call is then rejected with its slot still counted.
Stage(c) ==
  /\ Macrotask
  /\ cs[c] = "staging"
  /\ \/ /\ cs' = [cs EXCEPT ![c] = "leaked"]
        /\ micro' = Append(micro, Settled(c))
        /\ UNCHANGED on
     \/ /\ ClientIn({"dialing", "up"})
        /\ cs' = [cs EXCEPT ![c] = "opening"]
        /\ on' = [on EXCEPT ![c] = client]
        /\ UNCHANGED micro
  /\ UNCHANGED <<conn, queue, active, waiters, link>>

-----------------------------------------------------------------------------
(* Microtasks.                                                              *)

\* acquireSlot() resumes after its waiter was resolved.
WakeTask ==
  LET c == Head(micro).cmd IN
  /\ micro # <<>> /\ Head(micro).kind = "wake"
  /\ cs[c] = "woken"
  /\ active' = active + 1
  /\ cs' = [cs EXCEPT ![c] = "granted"]
  /\ micro' = Append(Tail(micro), Run(c))
  /\ reading' = FALSE
  /\ UNCHANGED <<conn, queue, waiters, on, link>>

\* runExec() resumes with its slot and calls this.client.exec(), which throws
\* when this.client is null or its socket is gone.
RunTask ==
  LET c == Head(micro).cmd IN
  /\ micro # <<>> /\ Head(micro).kind = "run"
  /\ cs[c] = "granted"
  /\ \/ /\ c \in Upload
        /\ cs' = [cs EXCEPT ![c] = "staging"]
        /\ UNCHANGED on
     \/ /\ c \notin Upload
        /\ ~ClientIn({"up"})
        /\ cs' = [cs EXCEPT ![c] = "hung"]
        /\ UNCHANGED on
     \/ /\ c \notin Upload
        /\ ClientIn({"dialing", "up"})
        /\ cs' = [cs EXCEPT ![c] = "opening"]
        /\ on' = [on EXCEPT ![c] = client]
  /\ micro' = Tail(micro)
  /\ reading' = FALSE
  /\ UNCHANGED <<conn, queue, active, waiters, link>>

\* The continuation of a settled call ends, or goes on to another call.
SettledTask ==
  /\ micro # <<>> /\ Head(micro).kind = "settled"
  /\ reading' = FALSE
  /\ \/ /\ micro' = Tail(micro)
        /\ UNCHANGED <<conn, chan, on, link>>
     \/ \E c \in Cmd : cs[c] = "idle" /\ ExecBody(c, Tail(micro))

Microtask == WakeTask \/ RunTask \/ SettledTask

-----------------------------------------------------------------------------
(* Events of the ssh2 library.  'ready' and the end of a socket start a      *)
(* macrotask; the others may share the socket read of the event before.     *)

\* Mutant of Ready: flushQueue() is not called.
ReadyNoFlush(k) ==
  /\ link[k] = "dialing"
  /\ link' = [link EXCEPT ![k] = "up"]
  /\ retryCount' = 0
  /\ status' = "connected"
  /\ Macrotask
  /\ UNCHANGED <<client, destroyed, timers, reloads, reloading, on, chan, micro>>

\* flushQueue() runs this many queued commands at once; the rest wait.
FlushCount ==
  CASE active >= MaxChannels -> 0
    [] active + Len(queue) <= MaxChannels -> Len(queue)
    [] OTHER -> MaxChannels - active

Flushed == SubSeq(queue, 1, FlushCount)
FlushedCs == [c \in Cmd |-> CASE c \in Elements(Flushed) -> "granted"
                              [] c \in Elements(queue) \ Elements(Flushed) -> "waiting"
                              [] OTHER -> cs[c]]

\* flushQueue(): every queued command enters runExec(), in order: it is rejected
\* when this.client is null, takes a free slot, or waits for one.
Flush ==
  /\ queue' = <<>>
  /\ \/ /\ client = NoClient
        /\ cs' = DrainedCs
        /\ micro' = micro \o Drained
        /\ UNCHANGED <<active, waiters>>
     \/ /\ client # NoClient
        /\ active' = active + FlushCount
        /\ waiters' = waiters \o SubSeq(queue, FlushCount + 1, Len(queue))
        /\ cs' = FlushedCs
        /\ micro' = micro \o [i \in 1..FlushCount |-> Run(queue[i])]

\* 'ready': retryCount starts again from 0 and the queue is flushed.
Ready(k) ==
  /\ link[k] \in {"dialing", "hangup"}
  /\ link' = [link EXCEPT ![k] = IF @ = "dialing" THEN "up" ELSE "ending"]
  /\ retryCount' = 0
  /\ status' = "connected"
  /\ Flush
  /\ Macrotask
  /\ UNCHANGED <<client, destroyed, timers, reloads, reloading, on>>

\* Mutant of SocketDown: the 'error' handler schedules a reconnection too.
SocketDownReconnects(k) ==
  /\ link[k] \in {"dialing", "up", "hangup", "ending"}
  /\ link' = [link EXCEPT ![k] = "dead"]
  /\ \/ destroyed /\ UNCHANGED <<conn, queue, cs, micro>>
     \/ ~destroyed /\ ScheduleReconnect(timers, retryCount, status)
                   /\ UNCHANGED <<destroyed, reloads, reloading>>
  /\ Macrotask
  /\ UNCHANGED <<active, waiters, on>>

\* The socket fails or the peer closes it; the 'error' handler only logs.
SocketDown(k) ==
  /\ link[k] \in {"dialing", "up", "hangup", "ending"}
  /\ link' = [link EXCEPT ![k] = "dead"]
  /\ UNCHANGED <<conn, chan, on, micro>>
  /\ Macrotask

\* 'close' of a Client.
ClientClosed(k) ==
  /\ link[k] = "dead"
  /\ link' = [link EXCEPT ![k] = "none"]
  /\ \/ /\ destroyed
        /\ UNCHANGED <<status, client, retryCount, timers, queue, cs, micro>>
     \/ /\ ~destroyed
        /\ ScheduleReconnect(timers, retryCount, status)
  /\ SocketEvent
  /\ UNCHANGED <<destroyed, reloads, reloading, active, waiters, on>>

\* The exec() or sftp() callback without an error.
Opened(c) ==
  /\ cs[c] = "opening"
  /\ on[c] # NoClient /\ link[on[c]] = "up"
  /\ cs' = [cs EXCEPT ![c] = "open"]
  /\ UNCHANGED <<conn, queue, active, waiters, on, link, micro>>
  /\ SocketEvent

\* The exec() or sftp() callback with an error: the node refused the channel, or
\* the connection went down first.
OpenFailed(c) ==
  /\ cs[c] = "opening"
  /\ ReleaseAndSettle(c, "idle")
  /\ on' = [on EXCEPT ![c] = NoClient]
  /\ SocketEvent
  /\ UNCHANGED <<conn, link>>

\* Mutant of Closed: release() does not look at `released'.
ClosedTwice(c) ==
  /\ cs[c] \in {"open", "expired"}
  /\ ReleaseAndSettle(c, "idle")
  /\ on' = [on EXCEPT ![c] = NoClient]
  /\ SocketEvent
  /\ UNCHANGED <<conn, link>>

\* 'close' of a stream, or the callback of fastPut(); when the stream had
\* already expired, release() finds `released' set and nothing is settled.
Closed(c) ==
  /\ \/ /\ cs[c] = "open"
        /\ ReleaseAndSettle(c, "idle")
     \/ /\ cs[c] = "expired"
        /\ cs' = [cs EXCEPT ![c] = "idle"]
        /\ UNCHANGED <<active, waiters, queue, micro>>
  /\ on' = [on EXCEPT ![c] = NoClient]
  /\ SocketEvent
  /\ UNCHANGED <<conn, link>>

\* 'error' of a stream; its 'close' follows.
StreamError(c) ==
  /\ cs[c] = "open" /\ c \notin Upload
  /\ ReleaseAndSettle(c, "expired")
  /\ SocketEvent
  /\ UNCHANGED <<conn, on, link>>

-----------------------------------------------------------------------------
(* The specification.  start() has been called: the first connect().        *)

Init ==
  /\ client \in Client
  /\ link = [k \in Client |-> IF k = client THEN "dialing" ELSE "none"]
  /\ status = "connecting"
  /\ destroyed = FALSE
  /\ retryCount = 0 /\ timers = 0 /\ reloads = 0 /\ reloading = 0
  /\ queue = <<>> /\ active = 0 /\ waiters = <<>>
  /\ cs = [c \in Cmd |-> "idle"]
  /\ on = [c \in Cmd |-> NoClient]
  /\ micro = <<>> /\ reading = FALSE

Next ==
  \/ \E c \in Cmd : \/ Call(c) \/ Expire(c) \/ Stage(c)
                    \/ Opened(c) \/ OpenFailed(c) \/ Closed(c) \/ StreamError(c)
  \/ \E k \in Client : Ready(k) \/ SocketDown(k) \/ ClientClosed(k)
  \/ RetryTimer \/ Destroy \/ BeginReload \/ FinishReload
  \/ Microtask

Spec == Init /\ [][Next]_vars

\* The connection a command's channel was requested on is gone: the library
\* then answers what is pending on it with an error and closes what is open.
Lost(c) == on[c] # NoClient /\ link[on[c]] \in {"dead", "none"}

\* Microtasks run before anything else.  The event loop runs every timer that
\* is due and delivers every socket event, and microtasks only postpone them:
\* strong fairness.  A handshake ends by 'ready' or by readyTimeout, a socket
\* that was ended goes down, an open stream of exec() ends by its 'close' or by
\* the timeout of runExec(), and nothing stays pending on a lost connection.
\* On a live connection nothing obliges the node to answer a channel request,
\* nor fastPut() to end: neither has a timeout.  Nothing obliges a caller to
\* call, a connection to fail, or an administrator to remove the SAN.
Fairness ==
  /\ WF_vars(Microtask)
  /\ SF_vars(RetryTimer) /\ SF_vars(FinishReload)
  /\ \A k \in Client :
       /\ SF_vars(Ready(k) \/ (link[k] # "up" /\ SocketDown(k)))
       /\ SF_vars(ClientClosed(k))
  /\ \A c \in Cmd :
       /\ SF_vars(Lost(c) /\ (OpenFailed(c) \/ Closed(c)))
       /\ SF_vars(Stage(c))
       /\ SF_vars(cs[c] = "open" /\ (Closed(c) \/ Expire(c)) /\ c \notin Upload)

FairSpec == Spec /\ Fairness

-----------------------------------------------------------------------------
(* Properties.                                                              *)

\* The commands that activeChannels counts.
HolderState == {"granted", "staging", "opening", "open", "hung", "leaked"}
Holders == {c \in Cmd : cs[c] \in HolderState}

\* The commands whose waiter is resolved and which do not count themselves yet.
Woken == {c \in Cmd : cs[c] = "woken"}

\* Each slot is released exactly once: activeChannels is the number of commands
\* that took a slot and did not give it back, although a timeout, an 'error' and
\* a 'close' of the same stream each call release().
SlotAccounting == active = Cardinality(Holders)

\* No wakeup is lost: while a command waits for a slot, the slots in use and the
\* ones handed to woken commands are all the slots there are.
NoLostWakeup == waiters # <<>> => active + Cardinality(Woken) >= MaxChannels

\* this.queue and this.waiters hold distinct callers, in the state that says so.
QueueConsistent ==
  /\ \A i \in 1..Len(queue) : cs[queue[i]] = "queued"
  /\ \A i, j \in 1..Len(queue) : queue[i] = queue[j] => i = j

WaitersConsistent ==
  /\ \A i \in 1..Len(waiters) : cs[waiters[i]] = "waiting"
  /\ \A i, j \in 1..Len(waiters) : waiters[i] = waiters[j] => i = j

\* The inductive invariant behind SlotAccounting and NoLostWakeup.
SlotInv ==
  /\ TypeOK
  /\ QueueConsistent
  /\ WaitersConsistent
  /\ SlotAccounting
  /\ NoLostWakeup

\* A Client that was not told to end and whose 'close' was not delivered.
Live == {k \in Client : link[k] \in {"dialing", "up"}}

\* "single persistent TCP SSH connection": no two connections live at a time.
SingleConnection == Cardinality(Live) <= 1

\* Until destroy() or reload(), the connection, its undelivered 'close' and the pending
\* reconnection timers are one chain: a second chain would open a second
\* connection and drop the first one without ending it.
OneReconnectionChain ==
  ~destroyed /\ reloads = 0 =>
    Cardinality({k \in Client : link[k] \in {"dialing", "up", "dead"}}) + timers <= 1

\* A manager removed from the pool keeps and opens no connection, even when a
\* reconnection timer fires after destroy().
DestroyedHasNoConnection == destroyed /\ reloads = 0 => Live = {}

\* A queued command, which has no timeout of its own, is never stranded until
\* reload() has raced with a pending reconnection (see SingleConnection): the
\* manager is neither destroyed nor in error, and a timer, a handshake or a 'close'
\* still to come will flush or reject the queue.
NoStrandedQueue ==
  queue # <<>> /\ reloads = 0 =>
    /\ ~Refusing
    /\ timers > 0 \/ \E k \in Client : link[k] \in {"dialing", "up", "dead"}

\* A command is never in the queue while exec() would run a new one at once: it
\* would be overtaken and wait for the next reconnection.
NoOvertakenQueue == queue # <<>> => ~Usable

\* A queued command leaves the queue: reconnection attempts are bounded, and the
\* last one rejects what is queued.
QueueDrains ==
  \A c \in Cmd : cs[c] = "queued" ~> cs[c] # "queued"

\* A slot that no timeout gives back: its call hangs or leaked it, or it waits,
\* on a connection that is up, for the answer to a channel request or for the
\* end of an upload.
Untimed(c) ==
  \/ cs[c] \in {"hung", "leaked"}
  \/ /\ cs[c] = "opening" \/ (cs[c] = "open" /\ c \in Upload)
     /\ link[on[c]] = "up"

\* A command waits for ever only behind a slot that one command keeps for ever
\* without a timeout; streams of exec(), lost connections and woken callers
\* that take a slot in turn never starve it.
WaiterServed ==
  \A c \in Cmd :
    <>[](cs[c] = "waiting") => \E d \in Cmd : <>[]Untimed(d)

\* "Release any concurrency waiters": a call whose waiter is resolved settles,
\* or has its channel requested.
EveryCallSettles ==
  \A c \in Cmd :
    cs[c] = "woken" ~> cs[c] \in {"idle", "opening", "open", "expired", "leaked"}

=============================================================================
