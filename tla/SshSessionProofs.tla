-------------------------- MODULE SshSessionProofs --------------------------
(***************************************************************************)
(* Proofs about SshSession: types, slots, and the chain of reconnections.   *)
(***************************************************************************)
EXTENDS SshSession, FiniteSetTheorems, TLAPS

(* Types of the helpers. *)

\* The three kinds of continuation put on the microtask queue are tasks.
LEMMA TaskTypes ==
  ASSUME NEW c \in Cmd
  PROVE  Wake(c) \in Task /\ Run(c) \in Task /\ Settled(c) \in Task
BY DEF Wake, Run, Settled, Task

\* drainQueue() sends queued calls back to idle and settles each once.
LEMMA DrainedType ==
  ASSUME TypeOK
  PROVE  DrainedCs \in [Cmd -> CmdState] /\ Drained \in Seq(Task)
<1>1. DrainedCs \in [Cmd -> CmdState]
  BY DEF TypeOK, DrainedCs, CmdState
<1>2. \A i \in 1..Len(queue) : Settled(queue[i]) \in Task
  BY TaskTypes DEF TypeOK
<1>3. Drained \in Seq(Task)
  BY <1>2 DEF Drained, TypeOK
<1>4. QED BY <1>1, <1>3

\* The part of the type invariant that the channel operations touch.
ChanType ==
  /\ queue \in Seq(Cmd) /\ active \in Int /\ waiters \in Seq(Cmd)
  /\ cs \in [Cmd -> CmdState] /\ micro \in Seq(Task)

\* The part of the type invariant that the connection operations touch.
ConnType ==
  /\ status \in Status /\ client \in Client \cup {NoClient}
  /\ retryCount \in 0..MaxRetries /\ timers \in Nat
  /\ queue \in Seq(Cmd) /\ cs \in [Cmd -> CmdState] /\ micro \in Seq(Task)

\* exec() and uploadFile() keep the types, whichever branch they take.
LEMMA ExecType ==
  ASSUME TypeOK, NEW c \in Cmd, NEW rest \in Seq(Task), ExecBody(c, rest)
  PROVE  ChanType'
<1>1. CASE micro' = rest /\ UNCHANGED chan
  BY <1>1 DEF TypeOK, ChanType, chan
<1>2. CASE /\ queue' = Append(queue, c)
           /\ cs' = [cs EXCEPT ![c] = "queued"]
           /\ micro' = rest
           /\ UNCHANGED <<active, waiters>>
  BY <1>2 DEF TypeOK, ChanType, CmdState
<1>3. CASE AcquireSlot(c, rest) /\ UNCHANGED queue
  <2>1. Append(rest, Run(c)) \in Seq(Task)
    BY TaskTypes
  <2>2. Append(waiters, c) \in Seq(Cmd)
    BY DEF TypeOK
  <2>3. /\ [cs EXCEPT ![c] = "granted"] \in [Cmd -> CmdState]
        /\ [cs EXCEPT ![c] = "waiting"] \in [Cmd -> CmdState]
    BY DEF TypeOK, CmdState
  <2>4. cs' \in [Cmd -> CmdState] /\ waiters' \in Seq(Cmd) /\ micro' \in Seq(Task)
    BY <1>3, <2>1, <2>2, <2>3 DEF AcquireSlot, TypeOK
  <2>5. active' \in Int /\ queue' \in Seq(Cmd)
    BY <1>3 DEF AcquireSlot, TypeOK
  <2>6. QED
    BY <2>4, <2>5 DEF ChanType
<1>4. QED BY <1>1, <1>2, <1>3 DEF ExecBody

\* releaseSlot() followed by the settling of the call keeps the types.
LEMMA ReleaseType ==
  ASSUME TypeOK, NEW c \in Cmd, NEW to \in CmdState, ReleaseAndSettle(c, to)
  PROVE  ChanType'
<1>1. CASE waiters = <<>>
  <2>1. Append(micro, Settled(c)) \in Seq(Task)
    BY TaskTypes DEF TypeOK
  <2>2. QED
    BY <1>1, <2>1 DEF ReleaseAndSettle, TypeOK, ChanType
<1>2. CASE waiters # <<>>
  <2>1. Head(waiters) \in Cmd /\ Tail(waiters) \in Seq(Cmd)
    BY <1>2 DEF TypeOK
  <2>2. <<Wake(Head(waiters)), Settled(c)>> \in Seq(Task)
    BY <2>1, TaskTypes
  <2>3. micro \o <<Wake(Head(waiters)), Settled(c)>> \in Seq(Task)
    BY <2>2 DEF TypeOK
  <2>4. [cs EXCEPT ![Head(waiters)] = "woken", ![c] = to] \in [Cmd -> CmdState]
    BY DEF TypeOK, CmdState
  <2>5. cs' \in [Cmd -> CmdState] /\ waiters' \in Seq(Cmd) /\ micro' \in Seq(Task)
    BY <1>2, <2>1, <2>3, <2>4 DEF ReleaseAndSettle
  <2>6. active' \in Int /\ queue' \in Seq(Cmd)
    BY DEF ReleaseAndSettle, TypeOK
  <2>7. QED
    BY <2>5, <2>6 DEF ChanType
<1>3. QED BY <1>1, <1>2

\* scheduleReconnect() never counts more than maxRetries attempts.
LEMMA ReconnectType ==
  ASSUME TypeOK, NEW t \in Nat, NEW r \in 0..MaxRetries, NEW s \in Status,
         ScheduleReconnect(t, r, s)
  PROVE  ConnType'
<1>1. CASE r >= MaxRetries /\ GiveUp(t, r)
  <2>1. micro' \in Seq(Task) /\ cs' \in [Cmd -> CmdState]
    BY <1>1, DrainedType DEF GiveUp, TypeOK
  <2>2. QED
    BY <1>1, <2>1 DEF ScheduleReconnect, GiveUp, ConnType, Status
<1>2. CASE r < MaxRetries /\ Retry(t, r, s)
  BY <1>2, BoundsAssumption DEF ScheduleReconnect, Retry, ConnType, TypeOK
<1>3. QED BY <1>1, <1>2 DEF ScheduleReconnect

\* connect() keeps the types, whether client.connect() throws or not.
LEMMA ConnectType ==
  ASSUME TypeOK, NEW t \in Nat, NEW r \in 0..MaxRetries, Connect(t, r)
  PROVE  ConnType' /\ link' \in [Client -> LinkState]
<1> DEFINE s == IF r > 0 THEN "reconnecting" ELSE "connecting"
<1>0. s \in Status
  BY DEF Status
<1>1. CASE \E k \in Client :
             /\ client' = k
             /\ link' = [link EXCEPT ![k] = "dialing"]
             /\ status' = s
             /\ retryCount' = r
             /\ timers' = t
             /\ UNCHANGED <<queue, cs, micro>>
  BY <1>0, <1>1 DEF ConnType, TypeOK, LinkState
<1>2. CASE ScheduleReconnect(t, r, s) /\ UNCHANGED link
  BY <1>0, <1>2, ReconnectType DEF TypeOK
<1>3. QED BY <1>1, <1>2 DEF Connect

\* destroy() keeps the types while it rejects the queue and wakes the waiters.
LEMMA DestroyType ==
  ASSUME TypeOK, DestroyBody
  PROVE  /\ ConnType' /\ ChanType' /\ destroyed' \in BOOLEAN
         /\ link' \in [Client -> LinkState] /\ on' = on
<1>1. \A i \in 1..Len(waiters) : Wake(waiters[i]) \in Task
  BY TaskTypes DEF TypeOK
<1>2. [i \in 1..Len(waiters) |-> Wake(waiters[i])] \in Seq(Task)
  BY <1>1 DEF TypeOK
<1>3. micro' \in Seq(Task)
  BY <1>2, DrainedType DEF DestroyBody, TypeOK
<1>4. cs' \in [Cmd -> CmdState]
  BY DrainedType DEF DestroyBody, CmdState
<1>5. link' \in [Client -> LinkState]
  BY DEF DestroyBody, TypeOK, LinkState
<1>6. QED
  BY <1>3, <1>4, <1>5 DEF DestroyBody, ConnType, ChanType, TypeOK, Status

-----------------------------------------------------------------------------
(* Type correctness.                                                        *)

\* A manager that was just started is well typed.
LEMMA InitType == Init => TypeOK
<1> SUFFICES ASSUME Init PROVE TypeOK
  OBVIOUS
<1>1. /\ status \in Status /\ client \in Client \cup {NoClient}
      /\ destroyed \in BOOLEAN /\ reading \in BOOLEAN
  BY DEF Init, Status
<1>2. /\ retryCount \in 0..MaxRetries /\ timers \in Nat
      /\ reloads \in 0..MaxReloads /\ reloading \in 0..reloads /\ active \in Int
  BY BoundsAssumption DEF Init
<1>3. queue \in Seq(Cmd) /\ waiters \in Seq(Cmd) /\ micro \in Seq(Task)
  BY DEF Init
<1>4. cs \in [Cmd -> CmdState] /\ on \in [Cmd -> Client \cup {NoClient}]
  BY DEF Init, CmdState
<1>5. link \in [Client -> LinkState]
  BY DEF Init, LinkState
<1>6. QED
  BY <1>1, <1>2, <1>3, <1>4, <1>5 DEF TypeOK

\* The steps taken for a caller: a call, the timeout of a stream, an upload.
LEMMA CallerType ==
  ASSUME TypeOK, NEW c \in Cmd, Call(c) \/ Expire(c) \/ Stage(c)
  PROVE  TypeOK'
<1>1. CASE Call(c)
  <2>1. ChanType'
    BY <1>1, ExecType DEF Call, TypeOK
  <2>2. QED
    BY <1>1, <2>1 DEF Call, ExecBody, Macrotask, TypeOK, ChanType, conn
<1>2. CASE Expire(c)
  <2>1. ChanType'
    BY <1>2, ReleaseType DEF Expire, CmdState
  <2>2. QED
    BY <1>2, <2>1 DEF Expire, Macrotask, TypeOK, ChanType, conn
<1>3. CASE Stage(c)
  <2>1. micro' \in Seq(Task)
    <3>1. micro \in Seq(Task) /\ Append(micro, Settled(c)) \in Seq(Task)
      BY TaskTypes DEF TypeOK
    <3>2. QED BY <1>3, <3>1 DEF Stage
  <2>2. cs' \in [Cmd -> CmdState] /\ on' \in [Cmd -> Client \cup {NoClient}]
    BY <1>3 DEF Stage, ClientIn, TypeOK, CmdState
  <2>3. QED
    BY <1>3, <2>1, <2>2 DEF Stage, Macrotask, TypeOK, conn
<1>4. QED BY <1>1, <1>2, <1>3

\* The callbacks of a channel: opened, refused, closed, failed.
LEMMA ChannelType ==
  ASSUME TypeOK, NEW c \in Cmd,
         Opened(c) \/ OpenFailed(c) \/ Closed(c) \/ StreamError(c)
  PROVE  TypeOK'
<1>1. CASE Opened(c)
  BY <1>1 DEF Opened, SocketEvent, TypeOK, CmdState, conn
<1>2. CASE OpenFailed(c)
  <2>1. ChanType'
    BY <1>2, ReleaseType DEF OpenFailed, CmdState
  <2>2. QED
    BY <1>2, <2>1 DEF OpenFailed, SocketEvent, TypeOK, ChanType, conn
<1>3. CASE Closed(c)
  <2>1. ChanType'
    <3>1. CASE ReleaseAndSettle(c, "idle")
      BY <3>1, ReleaseType DEF CmdState
    <3>2. CASE /\ cs' = [cs EXCEPT ![c] = "idle"]
               /\ UNCHANGED <<active, waiters, queue, micro>>
      BY <3>2 DEF TypeOK, ChanType, CmdState
    <3>3. QED BY <1>3, <3>1, <3>2 DEF Closed
  <2>2. QED
    BY <1>3, <2>1 DEF Closed, SocketEvent, TypeOK, ChanType, conn
<1>4. CASE StreamError(c)
  <2>1. ChanType'
    BY <1>4, ReleaseType DEF StreamError, CmdState
  <2>2. QED
    BY <1>4, <2>1 DEF StreamError, SocketEvent, TypeOK, ChanType, conn
<1>5. QED BY <1>1, <1>2, <1>3, <1>4

\* The end of a socket and the 'close' of its Client.
LEMMA LinkType ==
  ASSUME TypeOK, NEW k \in Client, SocketDown(k) \/ ClientClosed(k)
  PROVE  TypeOK'
<1>1. CASE SocketDown(k)
  BY <1>1 DEF SocketDown, Macrotask, TypeOK, LinkState, conn, chan
<1>2. CASE ClientClosed(k)
  <2>1. ConnType'
    <3>1. CASE UNCHANGED <<status, client, retryCount, timers, queue, cs, micro>>
      BY <3>1 DEF TypeOK, ConnType
    <3>2. CASE ScheduleReconnect(timers, retryCount, status)
      BY <3>2, ReconnectType DEF TypeOK
    <3>3. QED BY <1>2, <3>1, <3>2 DEF ClientClosed
  <2>2. link' \in [Client -> LinkState] /\ reading' \in BOOLEAN
    BY <1>2 DEF ClientClosed, SocketEvent, TypeOK, LinkState
  <2>3. QED
    BY <1>2, <2>1, <2>2 DEF ClientClosed, TypeOK, ConnType
<1>3. QED BY <1>1, <1>2

\* flushQueue() starts at most the commands that are queued.
LEMMA FlushCountType ==
  ASSUME TypeOK
  PROVE  FlushCount \in 0..Len(queue)
BY BoundsAssumption DEF FlushCount, TypeOK

\* flushQueue() moves the queue into the waiters and the microtasks.
LEMMA FlushType ==
  ASSUME TypeOK, Flush
  PROVE  ChanType'
<1>1. CASE client = NoClient
  <2>1. micro \o Drained \in Seq(Task)
    BY DrainedType DEF TypeOK
  <2>2. micro' \in Seq(Task) /\ cs' \in [Cmd -> CmdState]
    BY <1>1, <2>1, DrainedType DEF Flush
  <2>3. queue' \in Seq(Cmd) /\ waiters' \in Seq(Cmd) /\ active' \in Int
    BY <1>1 DEF Flush, TypeOK
  <2>4. QED
    BY <2>2, <2>3 DEF ChanType
<1>2. CASE client # NoClient
  <2>1. FlushCount \in Nat /\ FlushCount <= Len(queue)
    BY FlushCountType DEF TypeOK
  <2>2. SubSeq(queue, FlushCount + 1, Len(queue)) \in Seq(Cmd)
    BY <2>1 DEF TypeOK
  <2>3. [i \in 1..FlushCount |-> Run(queue[i])] \in Seq(Task)
    <3>1. \A i \in 1..FlushCount : Run(queue[i]) \in Task
      BY <2>1, TaskTypes DEF TypeOK
    <3>2. QED BY <2>1, <3>1
  <2>4. FlushedCs \in [Cmd -> CmdState]
    BY DEF FlushedCs, TypeOK, CmdState
  <2>5. waiters' \in Seq(Cmd) /\ micro' \in Seq(Task)
    <3>1. waiters \o SubSeq(queue, FlushCount + 1, Len(queue)) \in Seq(Cmd)
      BY <2>2 DEF TypeOK
    <3>2. micro \o [i \in 1..FlushCount |-> Run(queue[i])] \in Seq(Task)
      BY <2>3 DEF TypeOK
    <3>3. QED BY <1>2, <3>1, <3>2 DEF Flush
  <2>6. queue' \in Seq(Cmd) /\ active' \in Int /\ cs' \in [Cmd -> CmdState]
    BY <1>2, <2>1, <2>4 DEF Flush, TypeOK
  <2>7. QED
    BY <2>5, <2>6 DEF ChanType
<1>3. QED BY <1>1, <1>2

\* 'ready' resets retryCount and flushes the queue.
LEMMA ReadyType ==
  ASSUME TypeOK, NEW k \in Client, Ready(k)
  PROVE  TypeOK'
<1>1. ChanType'
  BY FlushType DEF Ready
<1>2. link' \in [Client -> LinkState]
  BY DEF Ready, TypeOK, LinkState
<1>3. status' \in Status /\ retryCount' \in 0..MaxRetries
  BY BoundsAssumption DEF Ready, Status
<1>4. QED
  BY <1>1, <1>2, <1>3 DEF Ready, Macrotask, TypeOK, ChanType

\* The reconnection timer, destroy() and the two halves of reload().
LEMMA TimerType ==
  ASSUME TypeOK, RetryTimer \/ Destroy \/ BeginReload \/ FinishReload
  PROVE  TypeOK'
<1>1. CASE RetryTimer
  <2>1. ConnType' /\ link' \in [Client -> LinkState]
    <3>1. CASE destroyed
      BY <1>1, <3>1 DEF RetryTimer, TypeOK, ConnType
    <3>2. CASE ~destroyed
      BY <1>1, <3>2, ConnectType DEF RetryTimer, TypeOK
    <3>3. QED BY <3>1, <3>2
  <2>2. QED
    BY <1>1, <2>1 DEF RetryTimer, Macrotask, TypeOK, ConnType
<1>2. CASE Destroy
  BY <1>2, DestroyType DEF Destroy, Macrotask, TypeOK, ConnType, ChanType
<1>3. CASE BeginReload
  <2>1. reloads' \in 0..MaxReloads /\ reloading' \in 0..reloads'
    BY <1>3, BoundsAssumption DEF BeginReload, TypeOK
  <2>2. QED
    BY <1>3, <2>1, DestroyType DEF BeginReload, Macrotask, TypeOK, ConnType, ChanType
<1>4. CASE FinishReload
  <2>1. ConnType' /\ link' \in [Client -> LinkState]
    BY <1>4, ConnectType, BoundsAssumption DEF FinishReload, TypeOK
  <2>2. reloads' = reloads /\ reloading' \in 0..reloads
    BY <1>4, BoundsAssumption DEF FinishReload, TypeOK
  <2>3. QED
    BY <1>4, <2>1, <2>2 DEF FinishReload, Macrotask, TypeOK, ConnType
<1>5. QED BY <1>1, <1>2, <1>3, <1>4

\* Every continuation keeps the types.
LEMMA MicrotaskType ==
  ASSUME TypeOK, Microtask
  PROVE  TypeOK'
<1>1. micro # <<>> => Head(micro).cmd \in Cmd /\ Tail(micro) \in Seq(Task)
  <2>1. micro # <<>> => Head(micro) \in Task /\ Tail(micro) \in Seq(Task)
    BY DEF TypeOK
  <2>2. QED BY <2>1 DEF Task
<1>2. CASE WakeTask
  <2>1. micro' \in Seq(Task)
    BY <1>1, <1>2, TaskTypes DEF WakeTask
  <2>2. cs' \in [Cmd -> CmdState] /\ active' \in Int
    BY <1>1, <1>2 DEF WakeTask, TypeOK, CmdState
  <2>3. QED
    BY <1>2, <2>1, <2>2 DEF WakeTask, TypeOK, conn
<1>3. CASE RunTask
  <2>1. micro' \in Seq(Task)
    BY <1>1, <1>3 DEF RunTask
  <2>2. cs' \in [Cmd -> CmdState] /\ on' \in [Cmd -> Client \cup {NoClient}]
    <3> DEFINE c == Head(micro).cmd
    <3>1. c \in Cmd /\ client \in Client \cup {NoClient}
      BY <1>1, <1>3 DEF RunTask, TypeOK
    <3>2. /\ \E x \in {"staging", "hung", "opening"} : cs' = [cs EXCEPT ![c] = x]
          /\ on' = on \/ on' = [on EXCEPT ![c] = client]
      BY <1>3 DEF RunTask
    <3> HIDE DEF c
    <3>3. QED
      BY <3>1, <3>2 DEF TypeOK, CmdState
  <2>3. UNCHANGED <<conn, queue, active, waiters, link>> /\ reading' = FALSE
    BY <1>3 DEF RunTask
  <2>4. QED
    BY <2>1, <2>2, <2>3 DEF TypeOK, conn
<1>4. CASE SettledTask
  <2>1. ChanType'
    <3>1. CASE micro' = Tail(micro) /\ UNCHANGED chan
      BY <1>1, <1>4, <3>1 DEF SettledTask, TypeOK, ChanType, chan
    <3>2. CASE \E c \in Cmd : cs[c] = "idle" /\ ExecBody(c, Tail(micro))
      BY <1>1, <1>4, <3>2, ExecType DEF SettledTask
    <3>3. QED BY <1>4, <3>1, <3>2 DEF SettledTask
  <2>2. UNCHANGED <<conn, on, link>> /\ reading' = FALSE
    BY <1>4 DEF SettledTask, ExecBody
  <2>3. QED
    BY <2>1, <2>2 DEF TypeOK, ChanType, conn
<1>5. QED BY <1>2, <1>3, <1>4 DEF Microtask

\* Every variable keeps its type, for every number of callers, channels,
\* retries and reloads.
THEOREM TypeCorrect == Spec => []TypeOK
<1>1. ASSUME TypeOK, Next PROVE TypeOK'
  BY <1>1, CallerType, ChannelType, LinkType, ReadyType, TimerType, MicrotaskType
  DEF Next
<1>2. ASSUME TypeOK, UNCHANGED vars PROVE TypeOK'
  BY <1>2 DEF TypeOK, vars, conn, chan, loop
<1>3. QED
  BY <1>1, <1>2, InitType, PTL DEF Spec

-----------------------------------------------------------------------------
(* The accounting of slots.                                                 *)

\* SlotInv without the types: it depends on queue, active, waiters and cs only.
SlotFacts == QueueConsistent /\ WaitersConsistent /\ SlotAccounting /\ NoLostWakeup

\* There are finitely many callers, so finitely many slots in use.
LEMMA Finite ==
  ASSUME TypeOK
  PROVE  /\ IsFiniteSet(Holders) /\ Cardinality(Holders) \in Nat
         /\ IsFiniteSet(Woken) /\ Cardinality(Woken) \in Nat
<1>1. Holders \in SUBSET Cmd /\ Woken \in SUBSET Cmd
  BY DEF Holders, Woken
<1>2. QED
  BY <1>1, CmdAssumption, FS_Subset, FS_CardinalityType

\* A step that leaves the queue, the slots and the waiters alone.
LEMMA ChanUnchanged ==
  ASSUME SlotInv, UNCHANGED chan
  PROVE  SlotFacts'
BY DEF SlotInv, SlotFacts, chan, QueueConsistent, WaitersConsistent,
       SlotAccounting, NoLostWakeup, Holders, Woken

\* A command that moves between two states that both count, or both do not
\* count, and that neither waits nor is queued, disturbs nothing.
LEMMA MoveSlots ==
  ASSUME SlotInv, NEW c \in Cmd, NEW to \in CmdState,
         cs' = [cs EXCEPT ![c] = to], UNCHANGED <<queue, active, waiters>>,
         cs[c] \in HolderState <=> to \in HolderState,
         cs[c] \notin {"queued", "waiting", "woken"}, to # "woken"
  PROVE  SlotFacts'
<1>1. Holders' = Holders
  BY DEF Holders, SlotInv, TypeOK
<1>2. Woken' = Woken
  BY DEF Woken, SlotInv, TypeOK
<1>3. QueueConsistent' /\ WaitersConsistent'
  BY DEF SlotInv, TypeOK, QueueConsistent, WaitersConsistent
<1>4. QED
  BY <1>1, <1>2, <1>3 DEF SlotInv, SlotFacts, SlotAccounting, NoLostWakeup

\* A call takes a free slot, or waits when there is none, or is queued.
LEMMA ExecSlots ==
  ASSUME SlotInv, NEW c \in Cmd, NEW rest, cs[c] = "idle", ExecBody(c, rest)
  PROVE  SlotFacts'
<1> USE DEF SlotInv
<1>1. CASE UNCHANGED chan
  BY <1>1, ChanUnchanged
<1>2. CASE /\ queue' = Append(queue, c)
           /\ cs' = [cs EXCEPT ![c] = "queued"]
           /\ UNCHANGED <<active, waiters>>
  <2>1. Holders' = Holders /\ Woken' = Woken
    BY <1>2 DEF Holders, Woken, HolderState, TypeOK
  <2>2. QueueConsistent' /\ WaitersConsistent'
    BY <1>2 DEF TypeOK, QueueConsistent, WaitersConsistent
  <2>3. QED
    BY <1>2, <2>1, <2>2 DEF SlotFacts, SlotAccounting, NoLostWakeup
<1>3. CASE AcquireSlot(c, rest) /\ UNCHANGED queue
  <2>1. CASE /\ active < MaxChannels
             /\ active' = active + 1
             /\ cs' = [cs EXCEPT ![c] = "granted"]
             /\ UNCHANGED waiters
    <3>1. Holders' = Holders \cup {c} /\ c \notin Holders /\ Woken' = Woken
      BY <1>3, <2>1 DEF Holders, Woken, HolderState, TypeOK
    <3>2. Cardinality(Holders') = Cardinality(Holders) + 1
      BY <3>1, Finite, FS_AddElement
    <3>3. QueueConsistent' /\ WaitersConsistent'
      BY <1>3, <2>1 DEF TypeOK, QueueConsistent, WaitersConsistent
    <3>4. SlotAccounting'
      BY <2>1, <3>2 DEF SlotAccounting
    <3>5. NoLostWakeup'
      BY <2>1, <3>1, Finite, BoundsAssumption DEF NoLostWakeup, TypeOK
    <3>6. QED BY <3>3, <3>4, <3>5 DEF SlotFacts
  <2>2. CASE /\ active >= MaxChannels
             /\ waiters' = Append(waiters, c)
             /\ cs' = [cs EXCEPT ![c] = "waiting"]
             /\ UNCHANGED active
    <3>1. Holders' = Holders /\ Woken' = Woken
      BY <1>3, <2>2 DEF Holders, Woken, HolderState, TypeOK
    <3>2. QueueConsistent' /\ WaitersConsistent'
      BY <1>3, <2>2 DEF TypeOK, QueueConsistent, WaitersConsistent
    <3>3. SlotAccounting' /\ NoLostWakeup'
      BY <2>2, <3>1, Finite, BoundsAssumption DEF SlotAccounting, NoLostWakeup, TypeOK
    <3>4. QED BY <3>2, <3>3 DEF SlotFacts
  <2>3. QED BY <1>3, <2>1, <2>2 DEF AcquireSlot
<1>4. QED BY <1>1, <1>2, <1>3 DEF ExecBody

\* releaseSlot() gives back one slot and hands it to the first waiter.
LEMMA ReleaseSlots ==
  ASSUME SlotInv, NEW c \in Holders, NEW to \in {"idle", "expired"},
         ReleaseAndSettle(c, to)
  PROVE  SlotFacts'
<1> USE DEF SlotInv
<1>0. c \in Cmd /\ cs[c] \in HolderState
  BY DEF Holders
<1>1. CASE waiters = <<>>
  <2>1. cs' = [cs EXCEPT ![c] = to] /\ UNCHANGED <<waiters, queue>>
    BY <1>1 DEF ReleaseAndSettle
  <2>2. Holders' = Holders \ {c} /\ Woken' = Woken
    BY <1>0, <2>1 DEF Holders, Woken, HolderState, TypeOK
  <2>3. Cardinality(Holders') = Cardinality(Holders) - 1
    BY <2>2, Finite, FS_RemoveElement
  <2>4. SlotAccounting'
    BY <2>3 DEF SlotAccounting, ReleaseAndSettle
  <2>5. QueueConsistent' /\ WaitersConsistent'
    BY <1>0, <2>1 DEF TypeOK, QueueConsistent, WaitersConsistent, HolderState
  <2>6. NoLostWakeup'
    BY <1>1, <2>1 DEF NoLostWakeup
  <2>7. QED BY <2>4, <2>5, <2>6 DEF SlotFacts
<1>2. CASE waiters # <<>>
  <2> DEFINE w == Head(waiters)
  <2>1. /\ cs' = [cs EXCEPT ![w] = "woken", ![c] = to]
        /\ waiters' = Tail(waiters) /\ queue' = queue /\ active' = active - 1
    BY <1>2 DEF ReleaseAndSettle
  <2>2. w \in Cmd /\ cs[w] = "waiting" /\ w # c
    BY <1>0, <1>2 DEF TypeOK, WaitersConsistent, HolderState
  <2>3. Holders' = Holders \ {c} /\ Woken' = Woken \cup {w} /\ w \notin Woken
    BY <1>0, <2>1, <2>2 DEF Holders, Woken, HolderState, TypeOK
  <2>4. Cardinality(Holders') = Cardinality(Holders) - 1
    BY <2>3, Finite, FS_RemoveElement
  <2>5. Cardinality(Woken') = Cardinality(Woken) + 1
    BY <2>3, Finite, FS_AddElement
  <2>6. SlotAccounting'
    BY <2>1, <2>4 DEF SlotAccounting
  <2>7. NoLostWakeup'
    BY <1>2, <2>1, <2>5, Finite, BoundsAssumption DEF NoLostWakeup, TypeOK
  <2>8. QueueConsistent'
    BY <1>0, <2>1, <2>2 DEF TypeOK, QueueConsistent, HolderState
  <2>9. WaitersConsistent'
    <3>1. \A i \in 1..Len(Tail(waiters)) :
            Tail(waiters)[i] = waiters[i + 1] /\ i + 1 \in 1..Len(waiters) /\ i + 1 # 1
      BY <1>2 DEF TypeOK
    <3>2. w = waiters[1] /\ 1 \in 1..Len(waiters)
      BY <1>2 DEF TypeOK
    <3>3. \A i \in 1..Len(Tail(waiters)) :
            /\ Tail(waiters)[i] \in Cmd
            /\ Tail(waiters)[i] # w /\ Tail(waiters)[i] # c
            /\ cs[Tail(waiters)[i]] = "waiting"
      BY <1>0, <3>1, <3>2 DEF TypeOK, WaitersConsistent, HolderState
    <3>4. \A i \in 1..Len(Tail(waiters)) : cs'[Tail(waiters)[i]] = "waiting"
      BY <2>1, <3>3 DEF TypeOK
    <3>5. \A i, j \in 1..Len(Tail(waiters)) : Tail(waiters)[i] = Tail(waiters)[j] => i = j
      BY <3>1 DEF WaitersConsistent, TypeOK
    <3>6. QED BY <2>1, <3>4, <3>5 DEF WaitersConsistent
  <2>10. QED BY <2>6, <2>7, <2>8, <2>9 DEF SlotFacts
<1>3. QED BY <1>1, <1>2

\* Rejecting the queue touches queued commands only.
LEMMA DrainFacts ==
  ASSUME SlotInv
  PROVE  \A c \in Cmd : DrainedCs[c] = cs[c] \/ (cs[c] = "queued" /\ DrainedCs[c] = "idle")
BY DEF SlotInv, DrainedCs, Elements, QueueConsistent

\* drainQueue() changes no slot and no waiter.
LEMMA DrainSlots ==
  ASSUME SlotInv, queue' = <<>>, cs' = DrainedCs, UNCHANGED <<active, waiters>>
  PROVE  SlotFacts'
<1> USE DEF SlotInv
<1>1. Holders' = Holders /\ Woken' = Woken
  BY DrainFacts DEF Holders, Woken, HolderState
<1>2. WaitersConsistent'
  BY DrainFacts DEF WaitersConsistent, TypeOK
<1>3. QED
  BY <1>1, <1>2 DEF SlotFacts, QueueConsistent, SlotAccounting, NoLostWakeup

\* scheduleReconnect() changes no slot, though it may drain the queue.
LEMMA ReconnectSlots ==
  ASSUME SlotInv, NEW t, NEW r, NEW s, ScheduleReconnect(t, r, s),
         UNCHANGED <<active, waiters>>
  PROVE  SlotFacts'
<1>1. CASE GiveUp(t, r)
  BY <1>1, DrainSlots DEF GiveUp
<1>2. CASE Retry(t, r, s)
  BY <1>2, ChanUnchanged DEF Retry, chan
<1>3. QED BY <1>1, <1>2 DEF ScheduleReconnect

\* connect() changes no slot, though it may drain the queue.
LEMMA ConnectSlots ==
  ASSUME SlotInv, NEW t, NEW r, Connect(t, r), UNCHANGED <<active, waiters>>
  PROVE  SlotFacts'
<1>1. CASE UNCHANGED <<queue, cs, micro>>
  BY <1>1, ChanUnchanged DEF chan
<1>2. CASE \E s \in Status : ScheduleReconnect(t, r, s)
  BY <1>2, ReconnectSlots
<1>3. QED BY <1>1, <1>2 DEF Connect, Status

\* destroy() resolves every waiter; none of them counts before it resumes.
LEMMA DestroySlots ==
  ASSUME SlotInv, DestroyBody
  PROVE  SlotFacts'
<1> USE DEF SlotInv
<1>1. \A c \in Cmd :
        \/ cs'[c] = cs[c]
        \/ cs[c] = "queued" /\ cs'[c] = "idle"
        \/ cs[c] = "waiting" /\ cs'[c] = "woken"
  BY DrainFacts DEF DestroyBody, Elements, WaitersConsistent
<1>2. Holders' = Holders
  BY <1>1 DEF Holders, HolderState
<1>3. QED
  BY <1>2 DEF DestroyBody, SlotFacts, QueueConsistent, WaitersConsistent,
              SlotAccounting, NoLostWakeup

\* The queue holds distinct callers, so flushing n of them takes n slots.
LEMMA FlushCard ==
  ASSUME SlotInv, NEW n \in 0..Len(queue)
  PROVE  LET F == {queue[i] : i \in 1..n}
         IN  IsFiniteSet(F) /\ Cardinality(F) = n
<1> DEFINE F == {queue[i] : i \in 1..n}
           f == [i \in 1..n |-> queue[i]]
<1>1. n \in Nat /\ n <= Len(queue)
  BY DEF SlotInv, TypeOK
<1>2. f \in [1..n -> F]
  OBVIOUS
<1>3. \A i, j \in 1..n : f[i] = f[j] => i = j
  BY <1>1 DEF SlotInv, TypeOK, QueueConsistent
<1>4. \A t \in F : \E i \in 1..n : f[i] = t
  OBVIOUS
<1>5. f \in Bijection(1..n, F)
  BY <1>2, <1>3, <1>4 DEF Bijection, Injection, Surjection, IsInjective
<1>6. ExistsBijection(1..n, F)
  BY <1>5 DEF ExistsBijection
<1>7. Cardinality(F) = n
  BY <1>1, <1>6, FS_CountingElements
<1>8. IsFiniteSet(F)
  BY <1>1, <1>6, FS_NatBijection
<1>9. QED BY <1>7, <1>8

\* flushQueue() fills the free slots and makes the rest wait.
LEMMA FlushSlots ==
  ASSUME SlotInv, Flush
  PROVE  SlotFacts'
<1> USE DEF SlotInv
<1> DEFINE n == FlushCount
           F == {queue[i] : i \in 1..n}
           rest == SubSeq(queue, n + 1, Len(queue))
<1>1. CASE client = NoClient
  BY <1>1, DrainSlots DEF Flush
<1>2. CASE client # NoClient
  <2>1. n \in 0..Len(queue) /\ Len(queue) \in Nat
    BY FlushCountType DEF TypeOK
  <2>2. Elements(Flushed) = F
    BY <2>1 DEF Elements, Flushed, TypeOK
  <2>3. F \subseteq Cmd /\ F \subseteq Elements(queue) /\ \A c \in F : cs[c] = "queued"
    BY <2>1 DEF QueueConsistent, TypeOK, Elements
  <2>4. \A c \in Cmd :
          \/ c \in F /\ cs'[c] = "granted"
          \/ c \in Elements(queue) \ F /\ cs[c] = "queued" /\ cs'[c] = "waiting"
          \/ c \notin Elements(queue) /\ cs'[c] = cs[c]
    <3>1. \A c \in Elements(queue) : cs[c] = "queued"
      BY DEF Elements, QueueConsistent
    <3>2. F \subseteq Elements(queue)
      BY <2>1 DEF Elements
    <3>3. QED BY <1>2, <2>2, <3>1, <3>2 DEF Flush, FlushedCs
  <2>5. Holders' = Holders \cup F /\ Holders \cap F = {} /\ Woken' = Woken
    <3>1. Holders \cap F = {}
      BY <2>3 DEF Holders, HolderState
    <3>2. \A c \in Cmd : cs'[c] \in HolderState <=> cs[c] \in HolderState \/ c \in F
      BY <2>3, <2>4 DEF HolderState
    <3>3. \A c \in Cmd : cs'[c] = "woken" <=> cs[c] = "woken"
      BY <2>3, <2>4
    <3>4. QED BY <2>3, <3>1, <3>2, <3>3 DEF Holders, Woken
  <2>6. Cardinality(Holders') = Cardinality(Holders) + n
    <3>1. IsFiniteSet(F) /\ Cardinality(F) = n
      BY <2>1, FlushCard
    <3>2. Cardinality(Holders \cap F) = 0
      BY <2>5, FS_EmptySet
    <3>3. Cardinality(Holders \cup F) =
            Cardinality(Holders) + Cardinality(F) - Cardinality(Holders \cap F)
      BY <3>1, Finite, FS_Union
    <3>4. QED BY <2>1, <2>5, <3>1, <3>2, <3>3, Finite
  <2>7. SlotAccounting'
    BY <1>2, <2>6 DEF SlotAccounting, Flush
  <2>8. QueueConsistent'
    BY DEF QueueConsistent, Flush
  <2>9. /\ Len(rest) = Len(queue) - n
        /\ \A i \in 1..Len(rest) : rest[i] = queue[n + i] /\ n + i \in 1..Len(queue)
    BY <2>1 DEF TypeOK
  <2>10. \A i \in 1..Len(rest) : rest[i] \in Elements(queue) \ F /\ rest[i] \in Cmd
    BY <2>1, <2>9 DEF Elements, QueueConsistent, TypeOK
  <2>11. WaitersConsistent'
    <3> DEFINE W == waiters \o rest
    <3>1. waiters' = W
      BY <1>2 DEF Flush
    <3>2. /\ Len(W) = Len(waiters) + Len(rest)
          /\ \A i \in 1..Len(waiters) : W[i] = waiters[i]
          /\ \A i \in 1..Len(W) : i \notin 1..Len(waiters) =>
               W[i] = rest[i - Len(waiters)] /\ i - Len(waiters) \in 1..Len(rest)
      BY <2>1 DEF TypeOK
    <3>3. \A i \in 1..Len(waiters) : waiters[i] \notin Elements(queue) /\ waiters[i] \in Cmd
      BY DEF WaitersConsistent, QueueConsistent, Elements, TypeOK
    <3>4. \A i \in 1..Len(W) : cs'[W[i]] = "waiting"
      <4> SUFFICES ASSUME NEW i \in 1..Len(W) PROVE cs'[W[i]] = "waiting"
        OBVIOUS
      <4>1. CASE i \in 1..Len(waiters)
        <5>1. W[i] = waiters[i]
          BY <3>2, <4>1
        <5>2. cs'[waiters[i]] = cs[waiters[i]]
          BY <2>3, <2>4, <3>3, <4>1
        <5>3. QED BY <4>1, <5>1, <5>2 DEF WaitersConsistent
      <4>2. CASE i \notin 1..Len(waiters)
        <5>1. W[i] \in Elements(queue) \ F /\ W[i] \in Cmd
          BY <2>10, <3>2, <4>2
        <5>2. QED BY <2>4, <5>1
      <4>3. QED BY <4>1, <4>2
    <3>5. \A i, j \in 1..Len(rest) : rest[i] = rest[j] => i = j
      BY <2>1, <2>9 DEF QueueConsistent
    <3>6. \A i, j \in 1..Len(W) : W[i] = W[j] => i = j
      <4> SUFFICES ASSUME NEW i \in 1..Len(W), NEW j \in 1..Len(W), W[i] = W[j]
                   PROVE  i = j
        OBVIOUS
      <4>1. CASE i \in 1..Len(waiters) /\ j \in 1..Len(waiters)
        BY <3>2, <4>1 DEF WaitersConsistent
      <4>2. CASE i \notin 1..Len(waiters) /\ j \notin 1..Len(waiters)
        <5>1. /\ i - Len(waiters) \in 1..Len(rest) /\ j - Len(waiters) \in 1..Len(rest)
              /\ rest[i - Len(waiters)] = rest[j - Len(waiters)]
          BY <3>2, <4>2
        <5>2. i - Len(waiters) = j - Len(waiters)
          BY <3>5, <5>1
        <5>3. i \in Int /\ j \in Int /\ Len(waiters) \in Int
          BY DEF TypeOK
        <5>4. QED BY <5>2, <5>3
      <4>3. CASE i \in 1..Len(waiters) /\ j \notin 1..Len(waiters)
        BY <2>10, <3>2, <3>3, <4>3
      <4>4. CASE i \notin 1..Len(waiters) /\ j \in 1..Len(waiters)
        BY <2>10, <3>2, <3>3, <4>4
      <4>5. QED BY <4>1, <4>2, <4>3, <4>4
    <3>7. QED BY <3>1, <3>4, <3>6 DEF WaitersConsistent
  <2>12. NoLostWakeup'
    <3>1. active' = active + n
      BY <1>2 DEF Flush
    <3>2. CASE waiters # <<>>
      BY <2>1, <2>5, <3>1, <3>2, Finite, BoundsAssumption DEF NoLostWakeup, TypeOK
    <3>3. CASE waiters = <<>> /\ n = Len(queue)
      <4>1. rest = <<>>
        BY <2>1, <3>3 DEF TypeOK
      <4>2. waiters' = <<>>
        BY <1>2, <3>3, <4>1 DEF Flush
      <4>3. QED BY <4>2 DEF NoLostWakeup
    <3>4. CASE n # Len(queue)
      <4>1. active + n >= MaxChannels
        BY <2>1, <3>4, BoundsAssumption DEF FlushCount, TypeOK
      <4>2. QED
        BY <2>1, <2>5, <3>1, <4>1, Finite, BoundsAssumption DEF NoLostWakeup, TypeOK
    <3>5. QED BY <3>2, <3>3, <3>4
  <2>13. QED BY <2>7, <2>8, <2>11, <2>12 DEF SlotFacts
<1>3. QED BY <1>1, <1>2

\* A woken command counts its slot when it resumes, and not before.
LEMMA MicrotaskSlots ==
  ASSUME SlotInv, Microtask
  PROVE  SlotFacts'
<1> USE DEF SlotInv
<1> DEFINE c == Head(micro).cmd
<1>1. micro # <<>> => c \in Cmd
  <2>1. micro # <<>> => Head(micro) \in Task
    BY DEF TypeOK
  <2>2. QED BY <2>1 DEF Task
<1>2. CASE WakeTask
  <2>1. /\ c \in Cmd /\ cs[c] = "woken"
        /\ active' = active + 1
        /\ cs' = [cs EXCEPT ![c] = "granted"]
        /\ UNCHANGED <<queue, waiters>>
    BY <1>1, <1>2 DEF WakeTask
  <2>2. /\ Holders' = Holders \cup {c} /\ c \notin Holders
        /\ Woken' = Woken \ {c} /\ c \in Woken
    BY <2>1 DEF Holders, Woken, HolderState, TypeOK
  <2>3. /\ Cardinality(Holders') = Cardinality(Holders) + 1
        /\ Cardinality(Woken') = Cardinality(Woken) - 1
    BY <2>2, Finite, FS_AddElement, FS_RemoveElement
  <2>4. SlotAccounting'
    BY <2>1, <2>3 DEF SlotAccounting
  <2>5. NoLostWakeup'
    BY <2>1, <2>3, Finite, BoundsAssumption DEF NoLostWakeup, TypeOK
  <2>6. QueueConsistent' /\ WaitersConsistent'
    <3> HIDE DEF c
    <3>1. \A d \in Cmd : cs[d] # "woken" => cs'[d] = cs[d]
      BY <2>1 DEF TypeOK
    <3>2. /\ \A i \in 1..Len(queue) : queue[i] \in Cmd
          /\ \A i \in 1..Len(waiters) : waiters[i] \in Cmd
      BY DEF TypeOK
    <3>3. QED
      BY <2>1, <3>1, <3>2 DEF QueueConsistent, WaitersConsistent
  <2>7. QED BY <2>4, <2>5, <2>6 DEF SlotFacts
<1>3. CASE RunTask
  <2>1. /\ c \in Cmd /\ cs[c] = "granted" /\ UNCHANGED <<queue, active, waiters>>
        /\ \E to \in {"staging", "hung", "opening"} : cs' = [cs EXCEPT ![c] = to]
    BY <1>1, <1>3 DEF RunTask
  <2>2. QED
    BY <2>1, MoveSlots DEF HolderState, CmdState
<1>4. CASE SettledTask
  <2>1. CASE UNCHANGED chan
    BY <2>1, ChanUnchanged
  <2>2. CASE \E d \in Cmd : cs[d] = "idle" /\ ExecBody(d, Tail(micro))
    BY <2>2, ExecSlots
  <2>3. QED BY <1>4, <2>1, <2>2 DEF SettledTask
<1>5. QED BY <1>2, <1>3, <1>4 DEF Microtask

\* A step for one command takes or gives back at most its own slot.
LEMMA CmdSlots ==
  ASSUME SlotInv, NEW c \in Cmd,
         \/ Call(c) \/ Expire(c) \/ Stage(c)
         \/ Opened(c) \/ OpenFailed(c) \/ Closed(c) \/ StreamError(c)
  PROVE  SlotFacts'
<1> USE DEF SlotInv
<1>1. CASE Call(c)
  BY <1>1, ExecSlots DEF Call
<1>2. CASE Expire(c)
  BY <1>2, ReleaseSlots DEF Expire, Holders, HolderState
<1>3. CASE Stage(c)
  <2>1. /\ cs[c] = "staging" /\ UNCHANGED <<queue, active, waiters>>
        /\ \E to \in {"leaked", "opening"} : cs' = [cs EXCEPT ![c] = to]
    BY <1>3 DEF Stage
  <2>2. QED BY <2>1, MoveSlots DEF HolderState, CmdState
<1>4. CASE Opened(c)
  BY <1>4, MoveSlots DEF Opened, HolderState, CmdState
<1>5. CASE OpenFailed(c)
  BY <1>5, ReleaseSlots DEF OpenFailed, Holders, HolderState
<1>6. CASE Closed(c)
  <2>1. CASE cs[c] = "open" /\ ReleaseAndSettle(c, "idle")
    BY <2>1, ReleaseSlots DEF Holders, HolderState
  <2>2. CASE /\ cs[c] = "expired" /\ cs' = [cs EXCEPT ![c] = "idle"]
             /\ UNCHANGED <<active, waiters, queue, micro>>
    BY <2>2, MoveSlots DEF HolderState, CmdState
  <2>3. QED BY <1>6, <2>1, <2>2 DEF Closed
<1>7. CASE StreamError(c)
  BY <1>7, ReleaseSlots DEF StreamError, Holders, HolderState
<1>8. QED BY <1>1, <1>2, <1>3, <1>4, <1>5, <1>6, <1>7

\* The events of the connection take and give back no slot but by a flush.
LEMMA ConnSlots ==
  ASSUME SlotInv,
         \/ \E k \in Client : Ready(k) \/ SocketDown(k) \/ ClientClosed(k)
         \/ RetryTimer \/ Destroy \/ BeginReload \/ FinishReload
  PROVE  SlotFacts'
<1>1. ASSUME NEW k \in Client, Ready(k) PROVE SlotFacts'
  BY <1>1, FlushSlots DEF Ready
<1>2. ASSUME NEW k \in Client, SocketDown(k) PROVE SlotFacts'
  BY <1>2, ChanUnchanged DEF SocketDown
<1>3. ASSUME NEW k \in Client, ClientClosed(k) PROVE SlotFacts'
  <2>1. CASE UNCHANGED <<queue, cs>>
    BY <1>3, <2>1, ChanUnchanged DEF ClientClosed, chan
  <2>2. CASE ScheduleReconnect(timers, retryCount, status)
    BY <1>3, <2>2, ReconnectSlots DEF ClientClosed
  <2>3. QED BY <1>3, <2>1, <2>2 DEF ClientClosed
<1>4. CASE RetryTimer
  <2>1. CASE UNCHANGED <<queue, cs>>
    BY <1>4, <2>1, ChanUnchanged DEF RetryTimer, chan
  <2>2. CASE Connect(timers - 1, retryCount)
    BY <1>4, <2>2, ConnectSlots DEF RetryTimer
  <2>3. QED BY <1>4, <2>1, <2>2 DEF RetryTimer
<1>5. CASE Destroy \/ BeginReload
  BY <1>5, DestroySlots DEF Destroy, BeginReload
<1>6. CASE FinishReload
  BY <1>6, ConnectSlots DEF FinishReload
<1>7. QED BY <1>1, <1>2, <1>3, <1>4, <1>5, <1>6

\* SlotInv is an invariant: it holds at first, and every action keeps it.
THEOREM SlotInvariance == Spec => []SlotInv
<1>1. Init => SlotInv
  <2> SUFFICES ASSUME Init PROVE SlotInv
    OBVIOUS
  <2>1. Holders = {} /\ active = 0
    BY DEF Init, Holders, HolderState
  <2>2. SlotAccounting
    BY <2>1, FS_EmptySet DEF SlotAccounting
  <2>3. QueueConsistent /\ WaitersConsistent /\ NoLostWakeup
    BY DEF Init, QueueConsistent, WaitersConsistent, NoLostWakeup
  <2>4. QED BY <2>2, <2>3, InitType DEF SlotInv
<1>2. ASSUME SlotInv, TypeOK', Next PROVE SlotInv'
  <2>1. SlotFacts'
    BY <1>2, MicrotaskSlots, CmdSlots, ConnSlots DEF Next
  <2>2. QED BY <1>2, <2>1 DEF SlotInv, SlotFacts
<1>3. ASSUME SlotInv, TypeOK', UNCHANGED vars PROVE SlotInv'
  <2>1. SlotFacts'
    BY <1>3, ChanUnchanged DEF vars
  <2>2. QED BY <1>3, <2>1 DEF SlotInv, SlotFacts
<1>4. QED
  BY <1>1, <1>2, <1>3, TypeCorrect, PTL DEF Spec

\* activeChannels counts exactly the commands that took a slot and have not
\* given it back: no end of a channel releases twice.
THEOREM SlotsAccounted == Spec => []SlotAccounting
<1>1. SlotInv => SlotAccounting
  BY DEF SlotInv
<1>2. QED BY <1>1, SlotInvariance, PTL

\* Nobody waits while a slot is free and unassigned.
THEOREM WakeupsKept == Spec => []NoLostWakeup
<1>1. SlotInv => NoLostWakeup
  BY DEF SlotInv
<1>2. QED BY <1>1, SlotInvariance, PTL

\* A command that waits for a slot never waits on nobody: some other command holds
\* a slot, or was handed one by releaseSlot() and is about to resume.  What
\* WaiterServed needs besides is that this command gives the slot back.
THEOREM SomebodyHolds ==
  Spec => [](waiters # <<>> => \E c \in Cmd : cs[c] \in HolderState \cup {"woken"})
<1>1. ASSUME SlotInv, waiters # <<>> PROVE \E c \in Cmd : cs[c] \in HolderState \cup {"woken"}
  <2>1. active + Cardinality(Woken) >= MaxChannels /\ active = Cardinality(Holders)
    BY <1>1 DEF SlotInv, NoLostWakeup, SlotAccounting
  <2>2. ASSUME Holders = {}, Woken = {} PROVE FALSE
    BY <2>1, <2>2, FS_EmptySet, BoundsAssumption
  <2>3. QED BY <2>2 DEF Holders, Woken
<1>2. QED BY <1>1, SlotInvariance, PTL


-----------------------------------------------------------------------------
(* The connection and its one chain of reconnections.                       *)

\* Until destroy() or reload(), what the library has of this manager is
\* this.client, or nothing while a timer is pending; a manager that gave up has
\* neither.
Chained ==
  /\ timers \in {0, 1}
  /\ \A k \in Client : link[k] # "none" => k = client /\ timers = 0 /\ link[k] \in {"dialing", "up", "dead"}
  /\ client # NoClient => link[client] # "none"
  /\ status = "error" => timers = 0 /\ client = NoClient /\ queue = <<>>
  /\ status # "error" => timers = 1 \/ client # NoClient

\* After destroy(), nothing is queued and no connection is kept or opened.
Dismissed == queue = <<>> /\ \A k \in Client : link[k] \notin {"dialing", "up"}

ConnInv == /\ TypeOK
           /\ reloads = 0 => IF destroyed THEN Dismissed ELSE Chained

LEMMA InitConn == Init => ConnInv
<1> SUFFICES ASSUME Init PROVE TypeOK /\ Chained /\ ~destroyed
  BY DEF ConnInv
<1>1. QED
  BY InitType, ClientAssumption DEF Init, Chained

\* scheduleReconnect() sets the one timer, or gives up, where nothing is pending.
LEMMA ReconnectConn ==
  ASSUME TypeOK, NEW r \in 0..MaxRetries, NEW s \in {"connecting", "reconnecting", "connected"},
         ScheduleReconnect(0, r, s), \A k \in Client : link'[k] = "none"
  PROVE  Chained'
BY DEF ScheduleReconnect, GiveUp, Retry, Chained

\* connect() opens the only connection, or schedules its next attempt.
LEMMA ConnectConn ==
  ASSUME TypeOK, NEW r \in 0..MaxRetries, Connect(0, r),
         \A k \in Client : link[k] = "none"
  PROVE  Chained'
<1> DEFINE s == IF r > 0 THEN "reconnecting" ELSE "connecting"
<1>1. ASSUME NEW k \in Client,
             client' = k, link' = [link EXCEPT ![k] = "dialing"], status' = s, timers' = 0
      PROVE  Chained'
  BY <1>1, ClientAssumption DEF Chained, TypeOK
<1>2. CASE ScheduleReconnect(0, r, s) /\ UNCHANGED link
  BY <1>2, ReconnectConn
<1>3. QED BY <1>1, <1>2 DEF Connect

\* exec() and uploadFile() queue nothing in a manager that refuses.
LEMMA ExecConn ==
  ASSUME ConnInv, NEW c \in Cmd, NEW rest, ExecBody(c, rest)
  PROVE  reloads' = 0 => IF destroyed' THEN Dismissed' ELSE Chained'
<1>1. UNCHANGED <<status, client, destroyed, timers, reloads, link>>
  BY DEF ExecBody, conn
<1>2. Refusing => queue' = queue
  BY DEF ExecBody, chan
<1>3. QED BY <1>1, <1>2 DEF ConnInv, Dismissed, Chained, Refusing

\* Every step keeps the chain.
LEMMA StepConn ==
  ASSUME ConnInv, [Next]_vars
  PROVE  reloads' = 0 => IF destroyed' THEN Dismissed' ELSE Chained'
<1> USE DEF ConnInv
<1>1. ASSUME NEW c \in Cmd,
             \/ Expire(c) \/ Stage(c) \/ Opened(c) \/ OpenFailed(c) \/ Closed(c) \/ StreamError(c)
      PROVE  UNCHANGED <<conn, queue, link>>
  BY <1>1 DEF Expire, Stage, Opened, OpenFailed, Closed, StreamError, ReleaseAndSettle
<1>2. UNCHANGED <<conn, queue, link>> => (reloads' = 0 => IF destroyed' THEN Dismissed' ELSE Chained')
  BY DEF conn, Dismissed, Chained
<1>3. ASSUME NEW c \in Cmd, Call(c)
      PROVE  reloads' = 0 => IF destroyed' THEN Dismissed' ELSE Chained'
  BY <1>3, ExecConn DEF Call
<1>4. CASE Microtask
  <2>1. CASE WakeTask \/ RunTask
    BY <1>2, <2>1 DEF WakeTask, RunTask
  <2>2. CASE SettledTask
    <3>1. CASE UNCHANGED <<conn, chan, on, link>>
      BY <1>2, <3>1 DEF chan
    <3>2. CASE \E c \in Cmd : cs[c] = "idle" /\ ExecBody(c, Tail(micro))
      BY <3>2, ExecConn
    <3>3. QED BY <2>2, <3>1, <3>2 DEF SettledTask
  <2>3. QED BY <1>4, <2>1, <2>2 DEF Microtask
<1>5. ASSUME NEW k \in Client, Ready(k)
      PROVE  reloads' = 0 => IF destroyed' THEN Dismissed' ELSE Chained'
  <2>1. /\ link[k] \in {"dialing", "hangup"} /\ status' = "connected" /\ queue' = <<>>
        /\ link' = [link EXCEPT ![k] = IF link[k] = "dialing" THEN "up" ELSE "ending"]
        /\ UNCHANGED <<client, destroyed, timers, reloads>>
    BY <1>5 DEF Ready, Flush
  <2>2. QED BY <2>1, ClientAssumption DEF Dismissed, Chained, TypeOK
<1>6. ASSUME NEW k \in Client, SocketDown(k)
      PROVE  reloads' = 0 => IF destroyed' THEN Dismissed' ELSE Chained'
  BY <1>6, ClientAssumption DEF SocketDown, conn, chan, Dismissed, Chained, TypeOK
<1>7. ASSUME NEW k \in Client, ClientClosed(k)
      PROVE  reloads' = 0 => IF destroyed' THEN Dismissed' ELSE Chained'
  <2>1. /\ link[k] = "dead" /\ link' = [link EXCEPT ![k] = "none"]
        /\ UNCHANGED <<destroyed, reloads>>
    BY <1>7 DEF ClientClosed
  <2>2. CASE destroyed
    BY <1>7, <2>1, <2>2 DEF ClientClosed, Dismissed, TypeOK
  <2>3. CASE ~destroyed /\ reloads = 0
    <3>1. k = client /\ timers = 0 /\ status # "error" /\ client # NoClient
      BY <2>1, <2>3, ClientAssumption DEF Chained
    <3>2. \A j \in Client : link'[j] = "none"
      BY <2>1, <2>3, <3>1 DEF Chained, TypeOK
    <3>3. ScheduleReconnect(0, retryCount, status) /\ retryCount \in 0..MaxRetries
          /\ status \in {"connecting", "reconnecting", "connected"}
      BY <1>7, <2>3, <3>1 DEF ClientClosed, TypeOK, Status
    <3>4. QED BY <2>1, <2>3, <3>2, <3>3, ReconnectConn
  <2>4. QED BY <2>1, <2>2, <2>3
<1>8. CASE RetryTimer
  <2>1. CASE destroyed
    BY <1>8, <2>1 DEF RetryTimer, Dismissed
  <2>2. CASE ~destroyed /\ reloads = 0
    <3>1. timers = 1 /\ \A k \in Client : link[k] = "none"
      BY <1>8, <2>2 DEF RetryTimer, Chained
    <3>2. Connect(0, retryCount) /\ retryCount \in 0..MaxRetries /\ UNCHANGED <<destroyed, reloads>>
      BY <1>8, <2>2, <3>1 DEF RetryTimer, TypeOK
    <3>3. QED BY <2>2, <3>1, <3>2, ConnectConn
  <2>3. QED BY <1>8, <2>1, <2>2 DEF RetryTimer
<1>9. CASE Destroy
  <2>1. reloads = 0 => Chained
    BY <1>9 DEF Destroy
  <2>2. /\ destroyed' /\ queue' = <<>> /\ reloads' = reloads
        /\ link' = IF client = NoClient THEN link
                   ELSE [link EXCEPT ![client] = IF link[client] = "dialing" THEN "hangup"
                                                 ELSE IF link[client] = "up" THEN "ending"
                                                 ELSE link[client]]
    <3>1. destroyed' /\ queue' = <<>> /\ reloads' = reloads
      BY <1>9 DEF Destroy, DestroyBody
    <3>2. QED BY <1>9, <3>1 DEF Destroy, DestroyBody
  <2>3. ASSUME reloads = 0, NEW k \in Client PROVE link'[k] \notin {"dialing", "up"}
    <3>1. link[k] # "none" => k = client
      BY <2>1, <2>3 DEF Chained
    <3>2. CASE k = client
      <4>1. k # NoClient
        BY ClientAssumption
      <4>2. QED BY <2>2, <3>2, <4>1 DEF TypeOK
    <3>3. CASE k # client
      BY <2>2, <3>1, <3>3 DEF TypeOK
    <3>4. QED BY <3>2, <3>3
  <2>4. QED BY <2>2, <2>3 DEF Dismissed
<1>10. CASE BeginReload
  BY <1>10 DEF BeginReload, TypeOK
<1>11. CASE FinishReload
  BY <1>11 DEF FinishReload, TypeOK
<1>12. CASE UNCHANGED vars
  BY <1>2, <1>12 DEF vars, chan
<1>13. QED
  BY <1>1, <1>2, <1>3, <1>4, <1>5, <1>6, <1>7, <1>8, <1>9, <1>10, <1>11, <1>12 DEF Next

\* The connection, its undelivered 'close' and the timers stay one chain.
LEMMA ConnInvariance == Spec => []ConnInv
<1>1. ConnInv /\ [Next]_vars /\ TypeOK' => ConnInv'
  BY StepConn DEF ConnInv
<1>2. QED BY <1>1, InitConn, TypeCorrect, PTL DEF Spec

\* scheduleReconnect() runs once for each loss of the connection: two chains of
\* reconnections never run side by side before a reload.
THEOREM OneChain == Spec => []OneReconnectionChain
<1>1. ASSUME ConnInv PROVE OneReconnectionChain
  <2> DEFINE L == {k \in Client : link[k] \in {"dialing", "up", "dead"}}
  <2>1. SUFFICES ASSUME ~destroyed, reloads = 0 PROVE Cardinality(L) + timers <= 1
    BY DEF OneReconnectionChain
  <2>2. Chained
    BY <1>1, <2>1 DEF ConnInv
  <2>3. CASE L = {}
    BY <2>2, <2>3, FS_EmptySet DEF Chained
  <2>4. CASE L # {}
    <3>1. L = {client} /\ timers = 0
      BY <2>2, <2>4 DEF Chained
    <3>2. QED BY <3>1, FS_Singleton
  <2>5. QED BY <2>3, <2>4
<1>2. QED BY <1>1, ConnInvariance, PTL

\* destroy() ends the connection for good, and the timers it leaves find the
\* manager destroyed.
THEOREM DestroyedStaysClosed == Spec => []DestroyedHasNoConnection
<1>1. ConnInv => DestroyedHasNoConnection
  BY DEF ConnInv, Dismissed, DestroyedHasNoConnection, Live
<1>2. QED BY <1>1, ConnInvariance, PTL

\* Where a command is queued, something still to come flushes or rejects the queue.
THEOREM QueueAttended == Spec => []NoStrandedQueue
<1>1. ASSUME ConnInv PROVE NoStrandedQueue
  <2>1. SUFFICES ASSUME queue # <<>>, reloads = 0
                 PROVE  ~Refusing /\ (timers > 0 \/ \E k \in Client : link[k] \in {"dialing", "up", "dead"})
    BY DEF NoStrandedQueue
  <2>2. ~destroyed /\ Chained
    BY <1>1, <2>1 DEF ConnInv, Dismissed
  <2>3. ~Refusing /\ (timers = 1 \/ client # NoClient)
    BY <2>1, <2>2 DEF Chained, Refusing
  <2>4. client # NoClient => client \in Client /\ link[client] \in {"dialing", "up", "dead"}
    BY <1>1, <2>2 DEF ConnInv, Chained, TypeOK
  <2>5. QED BY <2>3, <2>4
<1>2. QED BY <1>1, ConnInvariance, PTL

\* flushQueue() runs as soon as commands are accepted again, so nothing stays
\* queued while exec() runs new commands, reloads or not.
THEOREM QueueNotOvertaken == Spec => []NoOvertakenQueue
<1>1. Init => NoOvertakenQueue
  BY DEF Init, NoOvertakenQueue
<1>2. ASSUME TypeOK, NoOvertakenQueue, [Next]_vars PROVE NoOvertakenQueue'
  <2>1. ASSUME NEW c \in Cmd, NEW rest, ExecBody(c, rest) PROVE NoOvertakenQueue'
    <3>1. UNCHANGED <<status, client>> /\ (Usable => queue' = queue)
      BY <2>1 DEF ExecBody, conn, chan
    <3>2. QED BY <1>2, <3>1 DEF NoOvertakenQueue, Usable
  <2>2. CASE UNCHANGED <<queue, status, client>>
    BY <1>2, <2>2 DEF NoOvertakenQueue, Usable
  <2>3. CASE queue' = <<>>
    BY <2>3 DEF NoOvertakenQueue
  <2>4. ASSUME NEW t, NEW r, NEW s, ScheduleReconnect(t, r, s) PROVE NoOvertakenQueue'
    BY <2>4 DEF ScheduleReconnect, NoOvertakenQueue, Usable
  <2>5. ASSUME NEW t, NEW r, Connect(t, r) PROVE NoOvertakenQueue'
    <3>1. CASE status' = IF r > 0 THEN "reconnecting" ELSE "connecting"
      BY <3>1 DEF NoOvertakenQueue, Usable
    <3>2. QED BY <2>4, <2>5, <3>1 DEF Connect
  <2>6. ASSUME NEW c \in Cmd,
               \/ Call(c) \/ Expire(c) \/ Stage(c)
               \/ Opened(c) \/ OpenFailed(c) \/ Closed(c) \/ StreamError(c)
        PROVE  NoOvertakenQueue'
    <3>1. CASE Call(c)
      BY <2>1, <3>1 DEF Call
    <3>2. CASE ~Call(c)
      <4>1. UNCHANGED <<queue, status, client>>
        BY <2>6, <3>2 DEF Expire, Stage, Opened, OpenFailed, Closed, StreamError, ReleaseAndSettle, conn
      <4>2. QED BY <2>2, <4>1
    <3>3. QED BY <3>1, <3>2
  <2>7. ASSUME NEW k \in Client, Ready(k) \/ SocketDown(k) \/ ClientClosed(k)
        PROVE  NoOvertakenQueue'
    <3>1. CASE Ready(k)
      BY <2>3, <3>1 DEF Ready, Flush
    <3>2. CASE SocketDown(k)
      BY <2>2, <3>2 DEF SocketDown, conn, chan
    <3>3. CASE ClientClosed(k)
      BY <2>2, <2>4, <3>3 DEF ClientClosed
    <3>4. QED BY <2>7, <3>1, <3>2, <3>3
  <2>8. CASE RetryTimer
    BY <2>2, <2>5, <2>8 DEF RetryTimer
  <2>9. CASE Destroy \/ BeginReload
    BY <2>3, <2>9 DEF Destroy, BeginReload, DestroyBody
  <2>10. CASE FinishReload
    BY <2>5, <2>10 DEF FinishReload
  <2>11. CASE Microtask
    <3>1. CASE WakeTask \/ RunTask
      BY <2>2, <3>1 DEF WakeTask, RunTask, conn
    <3>2. CASE SettledTask
      BY <2>1, <2>2, <3>2 DEF SettledTask, conn, chan
    <3>3. QED BY <2>11, <3>1, <3>2 DEF Microtask
  <2>12. CASE UNCHANGED vars
    BY <2>2, <2>12 DEF vars, conn, chan
  <2>13. QED
    BY <1>2, <2>6, <2>7, <2>8, <2>9, <2>10, <2>11, <2>12 DEF Next
<1>3. QED BY <1>1, <1>2, TypeCorrect, PTL DEF Spec

-----------------------------------------------------------------------------
(* What reload() costs.                                                     *)

\* The Client objects that were not closed yet.
InUse == {k \in Client : link[k] # "none"}

\* Each of them and each pending timer may become a connection; so may each reload()
\* that waits for its configuration.
ChainsCounted ==
  IsFiniteSet(InUse) /\ Cardinality(InUse) + timers + reloading <= 1 + reloads

CountInv == TypeOK /\ ChainsCounted

\* scheduleReconnect() sets one timer at most.
LEMMA ReconnectCount ==
  ASSUME NEW t \in Nat, NEW r, NEW s, ScheduleReconnect(t, r, s)
  PROVE  timers' \in {t, t + 1}
BY DEF ScheduleReconnect, GiveUp, Retry

\* connect() opens one connection, or sets one timer.
LEMMA ConnectCount ==
  ASSUME CountInv, NEW t \in Nat, NEW r, Connect(t, r)
  PROVE  /\ IsFiniteSet(InUse')
         /\ Cardinality(InUse') + timers' <= Cardinality(InUse) + t + 1
<1>1. IsFiniteSet(InUse) /\ Cardinality(InUse) \in Nat
  BY FS_CardinalityType DEF CountInv, ChainsCounted
<1>2. CASE \E k \in Client : Free(k) /\ link' = [link EXCEPT ![k] = "dialing"] /\ timers' = t
  <2>1. PICK k \in Client : Free(k) /\ link' = [link EXCEPT ![k] = "dialing"] /\ timers' = t
    BY <1>2
  <2>2. InUse' = InUse \cup {k} /\ k \notin InUse
    BY <2>1 DEF Free, InUse, CountInv, TypeOK
  <2>3. IsFiniteSet(InUse') /\ Cardinality(InUse') = Cardinality(InUse) + 1
    BY <1>1, <2>2, FS_AddElement
  <2>4. QED BY <1>1, <2>1, <2>3
<1>3. CASE UNCHANGED link /\ \E s : ScheduleReconnect(t, r, s)
  <2>1. InUse' = InUse /\ timers' \in {t, t + 1}
    BY <1>3, ReconnectCount DEF InUse
  <2>2. QED BY <1>1, <2>1
<1>4. QED BY <1>2, <1>3 DEF Connect

\* A step that closes no Client, opens none and sets no timer.
LEMMA SameCount ==
  ASSUME CountInv, InUse' = InUse, UNCHANGED <<timers, reloads, reloading>>
  PROVE  ChainsCounted'
BY DEF CountInv, ChainsCounted

\* destroy() ends the connection, which remains in use until its 'close'.
LEMMA DestroyCount ==
  ASSUME TypeOK, DestroyBody
  PROVE  InUse' = InUse /\ timers' = timers
<1>1. CASE client = NoClient
  BY <1>1 DEF DestroyBody, InUse
<1>2. CASE client # NoClient
  <2>1. /\ link' = [link EXCEPT ![client] = IF link[client] = "dialing" THEN "hangup"
                                            ELSE IF link[client] = "up" THEN "ending"
                                            ELSE link[client]]
        /\ timers' = timers
    BY <1>2 DEF DestroyBody
  <2>2. client \in Client /\ link \in [Client -> LinkState]
    BY <1>2 DEF TypeOK
  <2>3. \A k \in Client : link'[k] # "none" <=> link[k] # "none"
    BY <2>1, <2>2
  <2>4. QED BY <2>1, <2>3 DEF InUse
<1>3. QED BY <1>1, <1>2

LEMMA StepCount == CountInv /\ [Next]_vars => ChainsCounted'
<1> SUFFICES ASSUME CountInv, [Next]_vars PROVE ChainsCounted'
  OBVIOUS
<1>0. /\ TypeOK /\ timers \in Nat /\ reloads \in Nat /\ reloading \in Nat
      /\ IsFiniteSet(InUse) /\ Cardinality(InUse) \in Nat
      /\ Cardinality(InUse) + timers + reloading <= 1 + reloads
  BY FS_CardinalityType, BoundsAssumption DEF CountInv, ChainsCounted, TypeOK
<1>1. UNCHANGED <<conn, link>> => ChainsCounted'
  BY SameCount DEF conn, InUse
<1>2. ASSUME NEW c \in Cmd,
             \/ Call(c) \/ Expire(c) \/ Stage(c)
             \/ Opened(c) \/ OpenFailed(c) \/ Closed(c) \/ StreamError(c)
      PROVE  ChainsCounted'
  BY <1>1, <1>2 DEF Call, ExecBody, Expire, Stage, Opened, OpenFailed, Closed, StreamError
<1>3. CASE Microtask
  BY <1>1, <1>3 DEF Microtask, WakeTask, RunTask, SettledTask, ExecBody
<1>4. ASSUME NEW k \in Client, Ready(k) PROVE ChainsCounted'
  <2>1. /\ link[k] # "none" /\ UNCHANGED <<timers, reloads, reloading>>
        /\ link' = [link EXCEPT ![k] = IF link[k] = "dialing" THEN "up" ELSE "ending"]
    BY <1>4 DEF Ready
  <2>2. InUse' = InUse
    BY <1>0, <2>1 DEF InUse, TypeOK
  <2>3. QED BY <2>1, <2>2, SameCount
<1>5. ASSUME NEW k \in Client, SocketDown(k) PROVE ChainsCounted'
  <2>1. link[k] # "none" /\ UNCHANGED conn /\ link' = [link EXCEPT ![k] = "dead"]
    BY <1>5 DEF SocketDown
  <2>2. InUse' = InUse
    BY <1>0, <2>1 DEF InUse, TypeOK
  <2>3. QED BY <2>1, <2>2, SameCount DEF conn
<1>6. ASSUME NEW k \in Client, ClientClosed(k) PROVE ChainsCounted'
  <2>1. /\ link[k] = "dead" /\ link' = [link EXCEPT ![k] = "none"]
        /\ UNCHANGED <<reloads, reloading>>
    BY <1>6 DEF ClientClosed
  <2>2. timers' \in {timers, timers + 1}
    BY <1>0, <1>6, ReconnectCount DEF ClientClosed
  <2>3. InUse' = InUse \ {k} /\ k \in InUse
    BY <1>0, <2>1 DEF InUse, TypeOK
  <2>4. IsFiniteSet(InUse') /\ Cardinality(InUse') = Cardinality(InUse) - 1
    BY <1>0, <2>3, FS_RemoveElement
  <2>5. QED BY <1>0, <2>1, <2>2, <2>4 DEF ChainsCounted
<1>7. CASE RetryTimer
  <2>1. timers > 0 /\ UNCHANGED <<reloads, reloading>>
    BY <1>7 DEF RetryTimer
  <2>2. CASE timers' = timers - 1 /\ UNCHANGED link
    BY <1>0, <2>1, <2>2 DEF ChainsCounted, InUse
  <2>3. CASE Connect(timers - 1, retryCount)
    <3>1. timers - 1 \in Nat
      BY <1>0, <2>1
    <3>2. /\ IsFiniteSet(InUse')
          /\ Cardinality(InUse') + timers' <= Cardinality(InUse) + (timers - 1) + 1
      BY <2>3, <3>1, ConnectCount
    <3>3. Cardinality(InUse') \in Nat /\ timers' \in Nat
      BY <2>3, <3>1, <3>2, FS_CardinalityType, ReconnectCount DEF Connect
    <3>4. QED BY <1>0, <2>1, <3>2, <3>3 DEF ChainsCounted
  <2>4. QED BY <1>7, <2>2, <2>3 DEF RetryTimer
<1>8. CASE Destroy
  BY <1>0, <1>8, DestroyCount, SameCount DEF Destroy
<1>9. CASE BeginReload
  <2>1. /\ reloads' = reloads + 1 /\ reloading' = reloading + 1
        /\ InUse' = InUse /\ timers' = timers
    BY <1>0, <1>9, DestroyCount DEF BeginReload
  <2>2. QED BY <1>0, <2>1 DEF ChainsCounted
<1>10. CASE FinishReload
  <2>1. reloading > 0 /\ reloading' = reloading - 1 /\ reloads' = reloads /\ Connect(timers, 0)
    BY <1>10 DEF FinishReload
  <2>2. /\ IsFiniteSet(InUse')
        /\ Cardinality(InUse') + timers' <= Cardinality(InUse) + timers + 1
    BY <1>0, <2>1, ConnectCount
  <2>3. Cardinality(InUse') \in Nat /\ timers' \in Nat
    BY <1>0, <2>1, <2>2, FS_CardinalityType, ReconnectCount DEF Connect
  <2>4. QED BY <1>0, <2>1, <2>2, <2>3 DEF ChainsCounted
<1>11. CASE UNCHANGED vars
  BY <1>1, <1>11 DEF vars
<1>12. QED
  BY <1>2, <1>3, <1>4, <1>5, <1>6, <1>7, <1>8, <1>9, <1>10, <1>11 DEF Next

\* Each reload() that races with a reconnection adds one connection at most to the
\* "single persistent TCP SSH connection": whatever fails and in whatever order the
\* timers and the 'close' events come, n reloads leave at most 1 + n connections.
THEOREM ConnectionsBounded == Spec => [](Cardinality(Live) <= 1 + reloads)
<1>1. Init => CountInv
  <2> SUFFICES ASSUME Init PROVE ChainsCounted
    BY InitType DEF CountInv
  <2>1. InUse = {client}
    BY DEF Init, InUse
  <2>2. IsFiniteSet(InUse) /\ Cardinality(InUse) = 1
    BY <2>1, FS_Singleton
  <2>3. timers = 0 /\ reloading = 0 /\ reloads = 0
    BY DEF Init
  <2>4. QED BY <2>2, <2>3 DEF ChainsCounted
<1>2. CountInv /\ [Next]_vars /\ TypeOK' => CountInv'
  BY StepCount DEF CountInv
<1>3. ASSUME CountInv PROVE Cardinality(Live) <= 1 + reloads
  <2>1. Live \in SUBSET InUse
    BY DEF Live, InUse
  <2>2. IsFiniteSet(InUse) /\ Cardinality(InUse) \in Nat /\ IsFiniteSet(Live)
        /\ Cardinality(Live) \in Nat /\ Cardinality(Live) <= Cardinality(InUse)
    BY <1>3, <2>1, FS_Subset, FS_CardinalityType DEF CountInv, ChainsCounted
  <2>3. QED BY <1>3, <2>2, BoundsAssumption DEF CountInv, ChainsCounted, TypeOK
<1>4. QED BY <1>1, <1>2, <1>3, TypeCorrect, PTL DEF Spec

\* "single persistent TCP SSH connection" holds until the first reload(): what the
\* pool, the retries, destroy() and the failures of the socket do never opens a
\* second connection.
THEOREM OneConnectionUntilReload == Spec => [](reloads = 0 => SingleConnection)
<1>1. Cardinality(Live) <= 1 + reloads => (reloads = 0 => SingleConnection)
  BY DEF SingleConnection
<1>2. QED BY <1>1, ConnectionsBounded, PTL
=============================================================================
