-------------------------- MODULE WsTerminalProofs --------------------------
(***************************************************************************)
(* Proofs about WsTerminal, for every number of keystrokes and whichever of *)
(* them start with a brace: the input of a shell is in order and complete,  *)
(* and a shell ends with its socket unless it opened after it.              *)
(***************************************************************************)
EXTENDS WsTerminal, SequenceTheorems, TLAPS

-----------------------------------------------------------------------------
(* The inductive invariant.                                                 *)

\* What the handlers have been given, taken or dropped.
Delivered == 1..typed \ KeysOn(wire)

\* The messages of the client come in the order they were sent.
WireInOrder ==
  \A i \in DOMAIN wire : IsKey(wire[i]) =>
    /\ wire[i].key <= typed
    /\ \A d \in Delivered : d < wire[i].key
    /\ \A j \in 1..(i - 1) : IsKey(wire[j]) => wire[j].key < wire[i].key

\* When D was delivered and B of it came before the shell was asked for, s holds
\* keystrokes of D \ B in the order they were typed, and skips none but those with
\* a brace.
Ordered(s, D, B) ==
  \A i \in DOMAIN s : /\ s[i] \in D \ B
                      /\ \A j \in 1..(i - 1) : s[j] < s[i]
                      /\ 1..s[i] \subseteq Brace \cup B \cup ToSet(s)

\* s holds all of D \ B but those with a brace.
UpToDate(s, D, B) == D \subseteq Brace \cup B \cup ToSet(s)

\* Messages may still be delivered.
Listening == sock = "open" \/ wire # <<>>

\* The shell was asked for, and openAndAttach() has not got it.
Asked == shell \in {"opening", "refused"}

\* The maps peerPending and peerShells follow the socket and the shell.
Stages ==
  /\ sock = "closed" => wire = <<>>
  /\ open = "authenticating" => pend = "none" /\ shell = "none"
  /\ pend = "wait" => shell = "none"
  /\ pend = "init" => att \/ Asked \/ shell = "none"
  /\ att => shell \in {"open", "closed"}
  /\ Asked \/ shell = "none" => got = <<>>
  /\ Asked => open = "done"
  /\ Listening /\ Asked => pend = "init"
  /\ Listening /\ shell = "open" => att
  /\ shell = "open" /\ ~late => att
  /\ late => sock = "closed"
  /\ sock = "closed" /\ att => late

InputInv ==
  /\ before \subseteq Delivered
  /\ Ordered(got, Delivered, before)
  /\ Asked => Ordered(buf, Delivered, before)
  /\ Listening /\ Asked => UpToDate(buf, Delivered, before)
  /\ Listening /\ shell = "open" => UpToDate(got, Delivered, before)

IInv == TypeOK /\ WireInOrder /\ Stages /\ InputInv

-----------------------------------------------------------------------------
(* Sequences of keystrokes.                                                 *)

\* More was delivered, and none of it reached s.
LEMMA OrderedKept ==
  ASSUME NEW s \in Seq(Key), NEW D, NEW B, NEW E, D \subseteq E, Ordered(s, D, B)
  PROVE  Ordered(s, E, B)
  BY DEF Ordered

\* Append and the set of the elements of a sequence.
LEMMA AppendKeys ==
  ASSUME NEW s \in Seq(Key), NEW k \in Key
  PROVE  /\ Append(s, k) \in Seq(Key)
         /\ DOMAIN Append(s, k) = 1..(Len(s) + 1)
         /\ Append(s, k)[Len(s) + 1] = k
         /\ \A i \in DOMAIN s : i \in 1..Len(s) /\ Append(s, k)[i] = s[i]
         /\ ToSet(Append(s, k)) = ToSet(s) \cup {k}
  <1> DEFINE t == Append(s, k)
  <1>1. /\ t \in Seq(Key) /\ Len(t) = Len(s) + 1 /\ t[Len(s) + 1] = k
        /\ \A i \in 1..Len(s) : t[i] = s[i]
    OBVIOUS
  <1>2. DOMAIN t = 1..(Len(s) + 1) /\ DOMAIN s = 1..Len(s) /\ Len(s) \in Nat
    BY <1>1, LenProperties
  <1> HIDE DEF t
  <1>3. ToSet(t) = ToSet(s) \cup {k}
    BY <1>1, <1>2 DEF ToSet
  <1> QED BY <1>1, <1>2, <1>3 DEF t

\* The next keystroke is added to a sequence that is up to date.
LEMMA OrderedGrows ==
  ASSUME NEW s \in Seq(Key), NEW D \in SUBSET Key, NEW B \in SUBSET D, NEW k \in Key,
         Ordered(s, D, B), UpToDate(s, D, B),
         1..(k - 1) \subseteq D, \A d \in D : d < k
  PROVE  /\ Ordered(Append(s, k), D \cup {k}, B)
         /\ UpToDate(Append(s, k), D \cup {k}, B)
  <1> DEFINE t == Append(s, k)
  <1>1. /\ DOMAIN t = 1..(Len(s) + 1) /\ t[Len(s) + 1] = k
        /\ \A i \in 1..Len(s) : t[i] = s[i]
        /\ ToSet(t) = ToSet(s) \cup {k} /\ DOMAIN s = 1..Len(s) /\ Len(s) \in Nat
    BY AppendKeys, LenProperties
  <1> HIDE DEF t
  <1>2. k \notin B /\ k \in Int
    BY KeysAssumption DEF Key
  <1>3. UpToDate(t, D \cup {k}, B)
    BY <1>1 DEF UpToDate
  <1>4. ASSUME NEW i \in 1..Len(s)
        PROVE  /\ t[i] \in (D \cup {k}) \ B
               /\ \A j \in 1..(i - 1) : t[j] < t[i]
               /\ 1..t[i] \subseteq Brace \cup B \cup ToSet(t)
    BY <1>1, <1>2, <1>4 DEF Ordered
  <1>5. \A j \in 1..Len(s) : t[j] < k
    BY <1>1 DEF Ordered
  <1>6. 1..k \subseteq Brace \cup B \cup ToSet(t)
    <2>1. 1..k = 1..(k - 1) \cup {k}
      BY <1>2, KeysAssumption DEF Key
    <2> QED BY <1>1, <2>1 DEF UpToDate
  <1>7. Ordered(t, D \cup {k}, B)
    <2> SUFFICES ASSUME NEW i \in 1..(Len(s) + 1)
                 PROVE  /\ t[i] \in (D \cup {k}) \ B
                        /\ \A j \in 1..(i - 1) : t[j] < t[i]
                        /\ 1..t[i] \subseteq Brace \cup B \cup ToSet(t)
      BY <1>1 DEF Ordered
    <2>1. CASE i \in 1..Len(s)
      BY <2>1, <1>4
    <2>2. CASE i = Len(s) + 1
      <3>1. t[i] = k /\ \A j \in 1..(i - 1) : j \in 1..Len(s)
        BY <1>1, <2>2
      <3> QED BY <1>2, <1>5, <1>6, <3>1
    <2> QED BY <1>1, <2>1, <2>2
  <1> QED BY <1>3, <1>7 DEF t

-----------------------------------------------------------------------------
(* The messages on their way.                                               *)

\* What the client sends is a keystroke or a control message.
LEMMA KeyOfMessage ==
  ASSUME NEW m \in Message
  PROVE  IsKey(m) => m.key \in Key
  BY DEF Message, IsKey

\* The keystroke typed next is on its way, and nothing more is delivered.
LEMMA Typed ==
  ASSUME TypeOK, WireInOrder, ClientTypes
  PROVE  WireInOrder' /\ wire' \in Seq(Message) /\ typed' \in Key /\ Delivered' = Delivered
  <1> DEFINE m == [key |-> typed + 1]
  <1>1. typed \in Nat /\ MaxKeys \in Nat /\ typed < MaxKeys /\ wire \in Seq(Message)
    BY KeysAssumption DEF TypeOK, ClientTypes
  <1>2. m \in Message /\ IsKey(m) /\ m.key = typed + 1 /\ typed' = typed + 1 /\ typed + 1 \in Key
    BY <1>1 DEF Message, Key, IsKey, ClientTypes
  <1>3. /\ wire' \in Seq(Message)
        /\ DOMAIN wire' = 1..(Len(wire) + 1) /\ DOMAIN wire = 1..Len(wire)
        /\ wire'[Len(wire) + 1] = m /\ Len(wire) \in Nat
        /\ \A i \in 1..Len(wire) : wire'[i] = wire[i]
    BY <1>1, <1>2, LenProperties DEF ClientTypes
  <1> HIDE DEF m
  <1>4. KeysOn(wire') = KeysOn(wire) \cup {typed + 1}
    BY <1>2, <1>3 DEF KeysOn
  <1>5. Delivered' = Delivered
    BY <1>1, <1>2, <1>4 DEF Delivered
  <1>6. WireInOrder'
    <2> SUFFICES ASSUME NEW i \in 1..(Len(wire) + 1), IsKey(wire'[i])
                 PROVE  /\ wire'[i].key <= typed'
                        /\ \A d \in Delivered : d < wire'[i].key
                        /\ \A j \in 1..(i - 1) : IsKey(wire'[j]) => wire'[j].key < wire'[i].key
      BY <1>3, <1>5 DEF WireInOrder
    <2>1. \A j \in 1..Len(wire) : IsKey(wire[j]) => wire[j].key \in Key /\ wire[j].key <= typed
      BY <1>1, <1>3, KeyOfMessage, ElementOfSeq DEF WireInOrder
    <2>2. CASE i \in 1..Len(wire)
      <3>1. \A j \in 1..(i - 1) : wire'[j] = wire[j]
        BY <1>3, <2>2
      <3>2. wire'[i] = wire[i] /\ i \in DOMAIN wire
        BY <1>3, <2>2
      <3> QED BY <1>1, <1>2, <2>1, <2>2, <3>1, <3>2 DEF WireInOrder, Key
    <2>3. CASE i = Len(wire) + 1
      <3>1. wire'[i].key = typed + 1
        BY <1>2, <1>3, <2>3
      <3>2. \A d \in Delivered : d < typed + 1
        BY <1>1 DEF Delivered
      <3>3. \A j \in 1..(i - 1) : wire'[j] = wire[j] /\ j \in 1..Len(wire)
        BY <1>3, <2>3
      <3> QED BY <1>1, <1>2, <2>1, <3>1, <3>2, <3>3 DEF Key
    <2> QED BY <1>3, <2>2, <2>3
  <1> QED BY <1>2, <1>3, <1>5, <1>6

\* A resize is on its way.
LEMMA Resized ==
  ASSUME TypeOK, WireInOrder, ClientResizes
  PROVE  WireInOrder' /\ wire' \in Seq(Message) /\ Delivered' = Delivered
  <1> DEFINE m == [control |-> "resize"]
  <1>1. m \in Message /\ ~IsKey(m) /\ wire \in Seq(Message) /\ typed' = typed
    BY DEF Message, IsKey, TypeOK, ClientResizes
  <1>2. /\ wire' \in Seq(Message)
        /\ DOMAIN wire' = 1..(Len(wire) + 1) /\ DOMAIN wire = 1..Len(wire)
        /\ wire'[Len(wire) + 1] = m /\ Len(wire) \in Nat
        /\ \A i \in 1..Len(wire) : wire'[i] = wire[i]
    BY <1>1, LenProperties DEF ClientResizes
  <1> HIDE DEF m
  <1>3. KeysOn(wire') = KeysOn(wire)
    BY <1>1, <1>2 DEF KeysOn
  <1>4. Delivered' = Delivered
    BY <1>1, <1>3 DEF Delivered
  <1>5. WireInOrder'
    <2> SUFFICES ASSUME NEW i \in 1..(Len(wire) + 1), IsKey(wire'[i])
                 PROVE  /\ wire'[i].key <= typed
                        /\ \A d \in Delivered : d < wire'[i].key
                        /\ \A j \in 1..(i - 1) : IsKey(wire'[j]) => wire'[j].key < wire'[i].key
      BY <1>1, <1>2, <1>4 DEF WireInOrder
    <2>1. i \in 1..Len(wire)
      BY <1>1, <1>2
    <2>2. \A j \in 1..i : wire'[j] = wire[j]
      BY <1>2, <2>1
    <2> QED BY <1>2, <2>1, <2>2 DEF WireInOrder
  <1> QED BY <1>2, <1>4, <1>5

\* The first message is delivered: a keystroke is the one that follows all that
\* was delivered before it.
LEMMA Received ==
  ASSUME TypeOK, WireInOrder, wire # <<>>, wire' = Tail(wire), typed' = typed
  PROVE  /\ WireInOrder' /\ wire' \in Seq(Message) /\ Head(wire) \in Message
         /\ KeysOn(wire') = KeysOn(Tail(wire))
         /\ Delivered' = IF IsKey(Head(wire)) THEN Delivered \cup {Head(wire).key} ELSE Delivered
         /\ IsKey(Head(wire)) => /\ Head(wire).key \in Key
                                 /\ \A d \in Delivered : d < Head(wire).key
                                 /\ 1..(Head(wire).key - 1) \subseteq Delivered
  <1> DEFINE m == Head(wire)
  <1>1. wire \in Seq(Message) /\ typed \in Nat /\ typed <= MaxKeys /\ MaxKeys \in Nat
    BY KeysAssumption DEF TypeOK
  <1>2. /\ m \in Message /\ wire' \in Seq(Message) /\ m = wire[1]
        /\ Len(wire) \in Nat \ {0} /\ DOMAIN wire = 1..Len(wire)
        /\ DOMAIN wire' = 1..(Len(wire) - 1)
        /\ \A i \in 1..(Len(wire) - 1) : wire'[i] = wire[i + 1]
    <2>1. /\ m \in Message /\ wire' \in Seq(Message) /\ Len(wire') = Len(wire) - 1
          /\ \A i \in 1..Len(wire') : wire'[i] = wire[i + 1]
      BY <1>1, HeadTailProperties
    <2>2. Len(wire) \in Nat \ {0} /\ DOMAIN wire = 1..Len(wire) /\ DOMAIN wire' = 1..Len(wire')
      BY <1>1, <2>1, EmptySeq, LenProperties
    <2>3. m = wire[1]
      BY <1>1
    <2> QED BY <2>1, <2>2, <2>3
  <1> HIDE DEF m
  <1>3. KeysOn(wire) = IF IsKey(m) THEN {m.key} \cup KeysOn(wire') ELSE KeysOn(wire')
    <2>1. \A i \in DOMAIN wire : i = 1 \/ (i - 1 \in DOMAIN wire' /\ wire'[i - 1] = wire[i])
      BY <1>2
    <2>2. \A i \in DOMAIN wire' : i + 1 \in DOMAIN wire /\ wire[i + 1] = wire'[i]
      BY <1>2
    <2>3. KeysOn(wire') \subseteq KeysOn(wire)
      BY <2>2 DEF KeysOn
    <2>4. KeysOn(wire) \subseteq KeysOn(wire') \cup {m.key}
      BY <1>2, <2>1 DEF KeysOn
    <2>5. ~IsKey(m) => KeysOn(wire) \subseteq KeysOn(wire')
      <3> SUFFICES ASSUME ~IsKey(m), NEW i \in DOMAIN wire, IsKey(wire[i])
                   PROVE  wire[i].key \in KeysOn(wire')
        BY DEF KeysOn
      <3>1. i # 1
        BY <1>2
      <3> QED BY <2>1, <3>1 DEF KeysOn
    <2>6. IsKey(m) => m.key \in KeysOn(wire)
      BY <1>2 DEF KeysOn
    <2> QED BY <2>3, <2>4, <2>5, <2>6
  <1>4. \A i \in DOMAIN wire : IsKey(wire[i]) => wire[i].key \in Key
    BY <1>1, <1>2, KeyOfMessage, ElementOfSeq
  <1>5. \A k \in KeysOn(wire') : k \in Key /\ (IsKey(m) => m.key < k)
    <2> SUFFICES ASSUME NEW i \in DOMAIN wire', IsKey(wire'[i])
                 PROVE  wire'[i].key \in Key /\ (IsKey(m) => m.key < wire'[i].key)
      BY DEF KeysOn
    <2>1. i + 1 \in DOMAIN wire /\ wire[i + 1] = wire'[i] /\ 1 \in 1..(i + 1 - 1)
      BY <1>2
    <2> QED BY <1>2, <1>4, <2>1 DEF WireInOrder
  <1>6. IsKey(m) => /\ m.key \in Key /\ m.key <= typed
                    /\ \A d \in Delivered : d < m.key
    BY <1>2, <1>4 DEF WireInOrder
  <1>7. Delivered' = IF IsKey(m) THEN Delivered \cup {m.key} ELSE Delivered
    <2>1. CASE ~IsKey(m)
      BY <1>3, <2>1 DEF Delivered
    <2>2. CASE IsKey(m)
      <3>1. m.key \notin KeysOn(wire') /\ m.key \in 1..typed
        BY <1>1, <1>5, <1>6, <2>2 DEF Key
      <3> QED BY <1>3, <2>2, <3>1 DEF Delivered
    <2> QED BY <2>1, <2>2
  <1>8. IsKey(m) => 1..(m.key - 1) \subseteq Delivered
    <2> SUFFICES ASSUME IsKey(m), NEW d \in 1..(m.key - 1)
                 PROVE  d \in Delivered
      OBVIOUS
    <2>1. m.key \in Int /\ d \in 1..typed /\ d < m.key
      BY <1>1, <1>6 DEF Key
    <2>2. \A k \in KeysOn(wire) : m.key <= k
      BY <1>3, <1>5, <1>6, <2>1 DEF Key
    <2> QED BY <2>1, <2>2 DEF Delivered
  <1>9. WireInOrder'
    <2> SUFFICES ASSUME NEW i \in DOMAIN wire', IsKey(wire'[i])
                 PROVE  /\ wire'[i].key <= typed
                        /\ \A d \in Delivered' : d < wire'[i].key
                        /\ \A j \in 1..(i - 1) : IsKey(wire'[j]) => wire'[j].key < wire'[i].key
      BY DEF WireInOrder
    <2>1. i + 1 \in DOMAIN wire /\ wire[i + 1] = wire'[i]
      BY <1>2
    <2>2. /\ wire'[i].key <= typed
          /\ \A d \in Delivered : d < wire'[i].key
          /\ \A j \in 1..((i + 1) - 1) : IsKey(wire[j]) => wire[j].key < wire'[i].key
      BY <2>1 DEF WireInOrder
    <2>3. IsKey(m) => m.key < wire'[i].key
      BY <1>5 DEF KeysOn
    <2>4. \A j \in 1..(i - 1) : wire'[j] = wire[j + 1] /\ j + 1 \in 1..((i + 1) - 1)
      BY <1>2
    <2> QED BY <1>7, <2>2, <2>3, <2>4
  <1> QED BY <1>2, <1>6, <1>7, <1>8, <1>9 DEF m

\* What was on its way is lost with the socket.
LEMMA Lost ==
  ASSUME TypeOK, wire' = <<>>, typed' = typed
  PROVE  WireInOrder' /\ wire' \in Seq(Message) /\ Delivered \subseteq Delivered'
  <1>1. KeysOn(wire') = {}
    BY DEF KeysOn
  <1>2. WireInOrder'
    BY DEF WireInOrder
  <1> QED BY <1>1, <1>2 DEF Delivered

-----------------------------------------------------------------------------
(* The steps.                                                               *)

LEMMA InitInv == Init => IInv
  <1> SUFFICES ASSUME Init PROVE IInv
    OBVIOUS
  <1>1. wire = <<[control |-> "init"]>> /\ [control |-> "init"] \in Message /\ ~IsKey([control |-> "init"])
    BY DEF Init, Message, IsKey
  <1>2. wire \in Seq(Message) /\ DOMAIN wire = {1} /\ ~IsKey(wire[1])
    BY <1>1
  <1>3. TypeOK
    <2>1. typed \in 0..MaxKeys /\ before \subseteq Key
      BY KeysAssumption DEF Init
    <2>2. buf \in Seq(Key) /\ got \in Seq(Key)
      BY EmptySeq DEF Init
    <2> QED BY <1>2, <2>1, <2>2 DEF Init, TypeOK
  <1>4. WireInOrder
    BY <1>2 DEF WireInOrder
  <1>5. Stages
    BY DEF Init, Stages, Listening, Asked
  <1>6. InputInv
    BY DEF Init, InputInv, Ordered, Asked, Listening
  <1> QED BY <1>3, <1>4, <1>5, <1>6 DEF IInv

\* Types of what a step of the session manager or of a handler keeps or sets.
LEMMA TypeStep == ASSUME IInv, [Next]_vars PROVE TypeOK'
  <1> USE DEF IInv
  <1>1. CASE ClientTypes
    <2>1. wire' \in Seq(Message) /\ typed' \in Key
      BY <1>1, Typed
    <2> QED BY <1>1, <2>1, KeysAssumption DEF ClientTypes, TypeOK, Key
  <1>2. CASE ClientResizes
    BY <1>2, Resized DEF ClientResizes, TypeOK
  <1>3. CASE Deliver
    <2> DEFINE m == Head(wire)
    <2>1. /\ wire' \in Seq(Message) /\ m \in Message /\ (IsKey(m) => m.key \in Key)
          /\ UNCHANGED <<sock, open, typed, up, late>>
          /\ FirstMessage(m) \/ Buffered(m) \/ Forwarded(m)
      <3>1. wire # <<>> /\ wire' = Tail(wire) /\ typed' = typed
        BY <1>3 DEF Deliver
      <3> QED BY <1>3, <3>1, Received DEF Deliver
    <2>2. before' \subseteq Key
      <3>1. 1..typed \subseteq Key
        BY KeysAssumption DEF TypeOK, Key
      <3> QED BY <2>1, <3>1 DEF FirstMessage, Buffered, Forwarded, TypeOK
    <2>3. buf' \in Seq(Key)
      <3>1. CASE FirstMessage(m)
        BY <3>1 DEF FirstMessage
      <3>2. CASE Buffered(m)
        <4>1. ~StartsWithBrace(m) => m.key \in Key
          BY <2>1 DEF StartsWithBrace
        <4> QED BY <3>2, <4>1, AppendKeys DEF Buffered, TypeOK
      <3>3. CASE Forwarded(m)
        BY <3>3 DEF Forwarded, TypeOK
      <3> QED BY <2>1, <3>1, <3>2, <3>3
    <2>4. got' \in Seq(Key)
      <3>1. IsKey(m) => Append(got, m.key) \in Seq(Key)
        BY <2>1, AppendKeys DEF TypeOK
      <3> QED BY <2>1, <3>1 DEF FirstMessage, Buffered, Forwarded, TypeOK
    <2>5. pend' \in {"none", "wait", "init"} /\ att' = att
          /\ shell' \in {"none", "opening", "refused", "open", "ending", "closed"}
      BY <2>1 DEF FirstMessage, Buffered, Forwarded, TypeOK
    <2> HIDE DEF m
    <2> QED BY <2>1, <2>2, <2>3, <2>4, <2>5 DEF TypeOK
  <1>4. CASE PeerClosed \/ PeerError
    <2>1. wire' = <<>> /\ sock' \in {"open", "closing", "closed"} /\ <<>> \in Seq(Message)
      BY <1>4, EmptySeq DEF PeerClosed, PeerError
    <2>2. UNCHANGED <<open, typed, buf, got, up, late, before>>
      BY <1>4 DEF PeerClosed, PeerError
    <2>3. pend' = "none" /\ att' = FALSE /\ (shell' = "ending" \/ shell' = shell)
      BY <1>4 DEF PeerClosed, PeerError, Forget
    <2> QED BY <2>1, <2>2, <2>3 DEF TypeOK
  <1>5. CASE Opened \/ ShellFailed \/ ShellClosed \/ ManagerChanges \/ UNCHANGED vars
    <2>1. UNCHANGED <<typed, wire, buf, att, got, late, before>>
      BY <1>5 DEF Opened, ShellFailed, ShellClosed, ManagerChanges, vars
    <2>2. sock' \in {"open", "closing", "closed"} /\ open' \in {"authenticating", "done"}
      BY <1>5 DEF Opened, ShellFailed, ShellClosed, ManagerChanges, PeerClose, vars, TypeOK
    <2>3. pend' \in {"none", "wait", "init"} /\ up' \in BOOLEAN
          /\ shell' \in {"none", "opening", "refused", "open", "ending", "closed"}
      BY <1>5 DEF Opened, ShellFailed, ShellClosed, ManagerChanges, vars, TypeOK
    <2> QED BY <2>1, <2>2, <2>3 DEF TypeOK
  <1>6. CASE ShellOpened
    <2>1. got \o buf \in Seq(Key)
      BY ConcatProperties DEF TypeOK
    <2> QED BY <1>6, <2>1 DEF ShellOpened, TypeOK
  <1> QED BY <1>1, <1>2, <1>3, <1>4, <1>5, <1>6 DEF Next

\* Whether messages may still be delivered, and what the order of the steps is.
LEMMA StagesStep == ASSUME IInv, [Next]_vars PROVE Stages'
  <1> USE DEF IInv
  <1>1. CASE ClientTypes \/ ClientResizes
    BY <1>1 DEF ClientTypes, ClientResizes, Stages, Listening, Asked
  <1>2. CASE Deliver
    <2> DEFINE m == Head(wire)
    <2>1. /\ UNCHANGED <<sock, open, late>> /\ wire # <<>> /\ sock # "closed" /\ Listening
          /\ FirstMessage(m) \/ Buffered(m) \/ Forwarded(m)
      BY <1>2 DEF Deliver, Listening
    <2> HIDE DEF m
    <2>2. CASE FirstMessage(m)
      BY <2>1, <2>2 DEF FirstMessage, Stages, Listening, Asked, TypeOK
    <2>3. CASE Buffered(m)
      BY <2>1, <2>3 DEF Buffered, Stages, Listening, Asked
    <2>4. CASE Forwarded(m)
      BY <2>1, <2>4 DEF Forwarded, Stages, Listening, Asked
    <2> QED BY <2>1, <2>2, <2>3, <2>4
  <1>3. CASE PeerClosed \/ PeerError
    BY <1>3 DEF PeerClosed, PeerError, Forget, Stages, Listening, Asked, TypeOK
  <1>4. CASE Opened
    BY <1>4 DEF Opened, PeerClose, Stages, Listening, Asked, TypeOK
  <1>5. CASE ShellOpened
    BY <1>5 DEF ShellOpened, Stages, Listening, Asked, TypeOK
  <1>6. CASE ShellFailed
    BY <1>6 DEF ShellFailed, PeerClose, Stages, Listening, Asked, TypeOK
  <1>7. CASE ShellClosed
    BY <1>7 DEF ShellClosed, PeerClose, Stages, Listening, Asked, TypeOK
  <1>8. CASE ManagerChanges \/ UNCHANGED vars
    BY <1>8 DEF ManagerChanges, vars, Stages, Listening, Asked
  <1> QED BY <1>1, <1>2, <1>3, <1>4, <1>5, <1>6, <1>7, <1>8 DEF Next

\* The input of the shell stays in order, and complete while messages come.
LEMMA InputStep == ASSUME IInv, [Next]_vars PROVE InputInv' /\ WireInOrder'
  <1> USE DEF IInv
  <1> Delivered \subseteq Key
    BY KeysAssumption DEF TypeOK, Delivered, Key
  <1>1. CASE ClientTypes \/ ClientResizes
    <2>1. WireInOrder' /\ Delivered' = Delivered
      BY <1>1, Typed, Resized
    <2>2. UNCHANGED <<shell, got, buf, before>> /\ Listening
      BY <1>1 DEF ClientTypes, ClientResizes, Listening
    <2> QED BY <2>1, <2>2 DEF InputInv, Asked
  <1>2. CASE Deliver
    <2> DEFINE m == Head(wire)
    <2>1. /\ UNCHANGED <<sock, open, typed, late>> /\ wire # <<>> /\ wire' = Tail(wire) /\ Listening
          /\ FirstMessage(m) \/ Buffered(m) \/ Forwarded(m)
      BY <1>2 DEF Deliver, Listening
    <2>2. /\ WireInOrder' /\ m \in Message /\ KeysOn(wire') = KeysOn(Tail(wire))
          /\ Delivered' = IF IsKey(m) THEN Delivered \cup {m.key} ELSE Delivered
          /\ IsKey(m) => /\ m.key \in Key
                         /\ \A d \in Delivered : d < m.key
                         /\ 1..(m.key - 1) \subseteq Delivered
      BY <2>1, Received
    <2>3. CASE FirstMessage(m)
      <3>1. before' = Delivered'
        BY <2>1, <2>2, <2>3 DEF FirstMessage, Delivered
      <3>2. shell' \in {"opening", "refused"} /\ buf' = <<>> /\ got' = <<>>
        BY <2>3 DEF FirstMessage, Stages
      <3> QED BY <2>2, <3>1, <3>2 DEF InputInv, Ordered, UpToDate, Asked
    <2> HIDE DEF m
    <2>4. CASE Buffered(m)
      <3>1. UNCHANGED <<shell, got, before>>
        BY <2>4 DEF Buffered
      <3>2. shell # "open"
        BY <2>1, <2>4 DEF Buffered, Stages
      <3>3. Ordered(got, Delivered', before)
        BY <2>2, OrderedKept DEF InputInv, TypeOK
      <3>4. ASSUME Asked
            PROVE  Ordered(buf', Delivered', before) /\ UpToDate(buf', Delivered', before)
        <4>1. Ordered(buf, Delivered, before) /\ UpToDate(buf, Delivered, before) /\ buf \in Seq(Key)
          BY <2>1, <3>4 DEF InputInv, TypeOK
        <4>2. CASE ~StartsWithBrace(m)
          <5>1. IsKey(m) /\ buf' = Append(buf, m.key)
            BY <2>4, <4>2 DEF Buffered, StartsWithBrace
          <5> QED BY <2>2, <4>1, <5>1, OrderedGrows DEF InputInv
        <4>3. CASE StartsWithBrace(m)
          <5>1. buf' = buf /\ (IsKey(m) => m.key \in Brace)
            BY <2>4, <4>3 DEF Buffered, StartsWithBrace
          <5>2. Ordered(buf, Delivered', before)
            BY <2>2, <4>1, OrderedKept
          <5> QED BY <2>2, <4>1, <5>1, <5>2 DEF UpToDate
        <4> QED BY <4>2, <4>3
      <3>5. before \subseteq Delivered'
        BY <2>2 DEF InputInv
      <3> QED BY <2>2, <3>1, <3>2, <3>3, <3>4, <3>5 DEF InputInv, Asked
    <2>5. CASE Forwarded(m)
      <3>1. UNCHANGED <<buf, shell, att, before>> /\ before \subseteq Delivered'
        BY <2>2, <2>5 DEF Forwarded, InputInv
      <3>2. ~Asked
        BY <2>1, <2>5 DEF Forwarded, Stages, Asked
      <3>3. CASE shell = "open" /\ IsKey(m)
        <4>1. got' = Append(got, m.key)
          BY <2>1, <2>5, <3>3 DEF Forwarded, Stages
        <4>2. Ordered(got', Delivered', before) /\ UpToDate(got', Delivered', before)
          BY <2>1, <2>2, <3>3, <4>1, OrderedGrows DEF InputInv, TypeOK
        <4> QED BY <2>2, <3>1, <3>2, <4>2 DEF InputInv, Asked
      <3>4. CASE ~(shell = "open" /\ IsKey(m))
        <4>1. got' = got
          BY <2>5, <3>4 DEF Forwarded
        <4>2. Ordered(got, Delivered', before)
          BY <2>2, OrderedKept DEF InputInv, TypeOK
        <4>3. shell = "open" => UpToDate(got, Delivered', before)
          BY <2>1, <2>2, <3>4 DEF InputInv
        <4> QED BY <2>2, <3>1, <3>2, <4>1, <4>2, <4>3 DEF InputInv, Asked
      <3> QED BY <3>3, <3>4
    <2> QED BY <2>1, <2>3, <2>4, <2>5
  <1>3. CASE PeerClosed \/ PeerError
    <2>1. UNCHANGED <<typed, buf, got, before>> /\ wire' = <<>> /\ sock' # "open"
      BY <1>3 DEF PeerClosed, PeerError
    <2>2. WireInOrder' /\ Delivered \subseteq Delivered'
      BY <2>1, Lost
    <2>3. ~Listening' /\ (Asked' => Asked)
      BY <1>3, <2>1 DEF PeerClosed, PeerError, Forget, Listening, Asked
    <2>4. Ordered(got, Delivered', before) /\ (Asked => Ordered(buf, Delivered', before))
      BY <2>2, OrderedKept DEF InputInv, TypeOK
    <2> QED BY <2>1, <2>2, <2>3, <2>4 DEF InputInv
  <1>4. CASE Opened \/ ShellFailed \/ ShellClosed \/ ManagerChanges \/ UNCHANGED vars
    <2>1. UNCHANGED <<typed, wire, buf, got, before>>
      BY <1>4 DEF Opened, ShellFailed, ShellClosed, ManagerChanges, vars
    <2>2. (Listening' => Listening) /\ (Asked' => Asked) /\ (shell' = "open" => shell = "open")
      BY <1>4 DEF Opened, ShellFailed, ShellClosed, ManagerChanges, PeerClose, vars, Listening, Asked
    <2>3. Delivered' = Delivered /\ WireInOrder'
      BY <2>1 DEF Delivered, WireInOrder
    <2> QED BY <2>1, <2>2, <2>3 DEF InputInv
  <1>5. CASE ShellOpened
    <2>1. UNCHANGED <<sock, typed, wire, buf, before>> /\ shell = "opening" /\ shell' = "open"
      BY <1>5 DEF ShellOpened
    <2>2. Delivered' = Delivered /\ WireInOrder' /\ Listening' = Listening
      BY <2>1 DEF Delivered, WireInOrder, Listening
    <2>3. got' = buf
      <3>1. got = <<>> /\ buf \in Seq(Key)
        BY <2>1 DEF Stages, Asked, TypeOK
      <3> QED BY <1>5, <3>1, ConcatEmptySeq DEF ShellOpened
    <2> QED BY <2>1, <2>2, <2>3 DEF InputInv, Asked
  <1> QED BY <1>1, <1>2, <1>3, <1>4, <1>5 DEF Next

LEMMA NextInv == IInv /\ [Next]_vars => IInv'
  BY TypeStep, StagesStep, InputStep DEF IInv

-----------------------------------------------------------------------------
(* The theorems.                                                            *)

\* The maps peerPending and peerShells, the messages and the input keep their types.
THEOREM TypeCorrect == Spec => []TypeOK
  <1>1. IInv => TypeOK
    BY DEF IInv
  <1> QED BY InitInv, NextInv, <1>1, PTL DEF Spec

\* What is typed from the opening of the shell on reaches it in order, and only a
\* text that starts with a brace may be missing, whatever waited in the buffer.
THEOREM InputIsInOrder == Spec => []InputInOrder
  <1>1. ASSUME IInv PROVE InputInOrder
    <2>1. got \in Seq(Key) /\ Ordered(got, Delivered, before)
      BY <1>1 DEF IInv, TypeOK, InputInv
    <2>2. ASSUME got # <<>> PROVE Last(got) = got[Len(got)] /\ Len(got) \in DOMAIN got
      BY <2>1, <2>2, EmptySeq, LenProperties DEF Last
    <2> QED BY <2>1, <2>2 DEF InputInOrder, Ordered
  <1> QED BY <1>1, InitInv, NextInv, PTL DEF Spec

\* The handlers `close' and `error' end the shell of the socket, unless it opened
\* when the socket had closed.
THEOREM ShellEndsWithSocket == Spec => []ShellFollowsSocket
  <1>1. IInv => ShellFollowsSocket
    BY DEF IInv, Stages, ShellFollowsSocket
  <1> QED BY <1>1, InitInv, NextInv, PTL DEF Spec

\* What was kept for the shell is at the end of what the shell got.
Replayed == \E s \in Seq(Key) : got = s \o buf

\* A peer that sent its first message has a shell that was asked for, or one that
\* got what was kept, or a socket that closes.
Attended == pend = "init" => Asked \/ sock # "open" \/ (att /\ Replayed)

\* What is typed while the shell is being opened is never forgotten on an open socket:
\* openAndAttach() still waits for the answer, or it has written the buffer to the shell.
\* This is the safety half of BufferedReachesShell; whether the node answers is its own.
THEOREM KeptInputAttended == Spec => []Attended
  <1>1. Init => Attended
    BY DEF Init, Attended
  <1>2. IInv /\ Attended /\ [Next]_vars => Attended'
    <2> SUFFICES ASSUME IInv, Attended, [Next]_vars, pend' = "init", sock' = "open", ~Asked'
                 PROVE  att' /\ Replayed'
      BY DEF Attended
    <2>1. CASE UNCHANGED <<pend, sock, shell, att, got, buf>>
      BY <2>1 DEF Attended, Asked, Replayed
    <2>2. CASE Deliver
      <3>1. CASE FirstMessage(Head(wire))
        BY <3>1 DEF FirstMessage, Asked
      <3>2. CASE Buffered(Head(wire))
        BY <2>2, <3>2 DEF Deliver, Buffered, Attended, Asked
      <3>3. CASE Forwarded(Head(wire))
        BY <3>3 DEF Forwarded
      <3> QED BY <2>2, <3>1, <3>2, <3>3 DEF Deliver
    <2>3. CASE ShellOpened
      BY <2>3 DEF ShellOpened, Replayed, IInv, TypeOK
    <2>4. CASE ShellFailed \/ ShellClosed
      BY <2>4 DEF ShellFailed, ShellClosed, PeerClose
    <2>5. CASE PeerClosed \/ PeerError
      BY <2>5 DEF PeerClosed, PeerError
    <2>6. CASE Opened
      <3>1. pend' = pend
        BY <2>6 DEF Opened
      <3>2. sock = "open" /\ UNCHANGED <<shell, att, got, buf>>
        BY <2>6 DEF Opened, PeerClose, IInv, TypeOK
      <3> QED BY <3>1, <3>2 DEF Attended, Asked, Replayed
    <2>7. CASE ClientTypes \/ ClientResizes \/ ManagerChanges \/ UNCHANGED vars
      BY <2>1, <2>7 DEF ClientTypes, ClientResizes, ManagerChanges, vars, Asked
    <2> QED BY <2>2, <2>3, <2>4, <2>5, <2>6, <2>7 DEF Next
  <1>3. Spec => []IInv
    BY InitInv, NextInv, PTL DEF Spec
  <1> QED BY <1>1, <1>2, <1>3, PTL DEF Spec
=============================================================================
