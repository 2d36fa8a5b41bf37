----------------------------- MODULE WsTerminal -----------------------------
(***************************************************************************)
(* server/routes/ws/terminal.ts: the bridge between one web socket and one  *)
(* interactive shell of a SAN node, with openShell() of its session         *)
(* manager.  Peers share nothing but the manager, so one peer is enough.    *)
(*                                                                         *)
(* The handlers `open' and `openAndAttach' suspend: `open' while the user   *)
(* is authenticated, openAndAttach() while the channel opens.  Messages are *)
(* delivered all the same, each to a handler that does not suspend.         *)
(***************************************************************************)
EXTENDS Integers, Sequences, SequencesExt

CONSTANTS
  MaxKeys,   \* bound: keystrokes the user types
  Brace      \* those among them whose text starts with `{'

ASSUME KeysAssumption == MaxKeys \in Nat /\ Brace \subseteq 1..MaxKeys

VARIABLES
  sock,    \* the web socket; closing: peer.close() was called here
  open,    \* the handler `open': before or after its await
  typed,   \* keystrokes the user typed so far
  wire,    \* messages of the client still to be delivered
  pend,    \* peerPending: none, waiting for init, or shell being opened
  buf,     \* pending.queue
  shell,   \* the SSH channel; refused: openShell() rejects, its caller has not resumed
  att,     \* peerShells has the shell
  got,     \* the keystrokes the shell received
  up,      \* the session manager is connected
  before,  \* keystrokes delivered when the shell was asked for (history)
  late     \* the shell opened after the socket had closed (history)

vars == <<sock, open, typed, wire, pend, buf, shell, att, got, up, late, before>>

Key == 1..MaxKeys
Message == [control : {"init", "resize"}] \cup [key : Key]

IsKey(m) == "key" \in DOMAIN m

\* The keystrokes among the messages of w.
KeysOn(w) == {w[i].key : i \in {j \in DOMAIN w : IsKey(w[j])}}

\* raw.startsWith('{'): what the handler tells control messages by.
StartsWithBrace(m) == ~IsKey(m) \/ m.key \in Brace

-----------------------------------------------------------------------------
(* The client (TerminalPane.vue): init as soon as the socket is open, then   *)
(* what the user types, and a resize whenever the window changes; one resize *)
(* at most is on its way, which bounds the queue.                           *)

ClientTypes ==
  /\ sock = "open" /\ typed < MaxKeys
  /\ typed' = typed + 1
  /\ wire' = Append(wire, [key |-> typed + 1])
  /\ UNCHANGED <<sock, open, pend, buf, shell, att, got, up, late, before>>

ClientResizes ==
  /\ sock = "open"
  /\ \A i \in 1..Len(wire) : IsKey(wire[i])
  /\ wire' = Append(wire, [control |-> "resize"])
  /\ UNCHANGED <<sock, open, typed, pend, buf, shell, att, got, up, late, before>>

-----------------------------------------------------------------------------
(* The handlers.                                                            *)

\* peer.close(): nothing happens to a socket that is closed.
PeerClose == sock' = IF sock = "open" THEN "closing" ELSE sock

\* The end of `open': the user or the ticket is refused, or the manager is not
\* ready, or the peer waits for its init message, even one that closed already.
Opened ==
  /\ open = "authenticating"
  /\ open' = "done"
  /\ \/ PeerClose /\ UNCHANGED pend
     \/ up /\ pend' = "wait" /\ UNCHANGED sock
  /\ UNCHANGED <<typed, wire, buf, shell, att, got, up, late, before>>

\* Phase 1 of `message': the first message, whatever it is, opens the shell;
\* openShell() rejects at once when the manager is not connected.
FirstMessage(m) ==
  /\ pend = "wait"
  /\ pend' = "init"
  /\ buf' = <<>>
  /\ shell' = IF up THEN "opening" ELSE "refused"
  /\ before' = 1..typed \ KeysOn(Tail(wire))
  /\ UNCHANGED <<att, got>>

\* Mutant of Buffered: control messages are kept as if they had been typed.
BufferedControl(m) ==
  /\ pend = "init" /\ ~att
  /\ buf' = Append(buf, IF IsKey(m) THEN m.key ELSE 0)
  /\ UNCHANGED <<pend, shell, att, got, before>>

\* Phase 2: the shell is being opened; keystrokes are kept for it.
Buffered(m) ==
  /\ pend = "init" /\ ~att
  /\ buf' = IF StartsWithBrace(m) THEN buf ELSE Append(buf, m.key)
  /\ UNCHANGED <<pend, shell, att, got, before>>

\* Phase 3: the shell is ready, or nobody waits for a message.
Forwarded(m) ==
  /\ pend = "none" \/ (pend = "init" /\ att)
  /\ pend' = "none"
  /\ got' = IF att /\ shell = "open" /\ IsKey(m) THEN Append(got, m.key) ELSE got
  /\ UNCHANGED <<buf, shell, att, before>>

Deliver ==
  /\ sock # "closed" /\ wire # <<>>
  /\ wire' = Tail(wire)
  /\ LET m == Head(wire) IN FirstMessage(m) \/ Buffered(m) \/ Forwarded(m)
  /\ UNCHANGED <<sock, open, typed, up, late>>

\* Mutant of ShellOpened: the input kept for the shell is not written to it.
ShellOpenedNoReplay ==
  /\ shell = "opening"
  /\ shell' = "open" /\ att' = TRUE
  /\ late' = (sock = "closed")
  /\ UNCHANGED <<sock, open, typed, wire, pend, buf, got, up, before>>

\* openAndAttach() goes on with the shell: it is remembered, and what was typed
\* meanwhile is written to it, whatever became of the socket.
ShellOpened ==
  /\ shell = "opening"
  /\ shell' = "open" /\ att' = TRUE
  /\ got' = got \o buf
  /\ late' = (sock = "closed")
  /\ UNCHANGED <<sock, open, typed, wire, pend, buf, up, before>>

\* openShell() rejected: there was no connection, or the node refused the channel.
ShellFailed ==
  /\ shell = "refused" \/ shell = "opening"
  /\ shell' = "none"
  /\ PeerClose
  /\ UNCHANGED <<open, typed, wire, pend, buf, att, got, up, late, before>>

\* 'close' or 'error' of the shell: it exited, was ended here, or the
\* connection was lost.
ShellClosed ==
  /\ shell \in {"open", "ending"}
  /\ shell' = "closed"
  /\ PeerClose
  /\ UNCHANGED <<open, typed, wire, pend, buf, att, got, up, late, before>>

\* Mutant of Forget: the shell goes on.
ForgetNotEnded ==
  /\ att' = FALSE /\ pend' = "none"
  /\ UNCHANGED shell

\* What the handlers `close' and `error' do: the attached shell is ended, and
\* the peer is forgotten.  A shell that is being opened is not touched.
Forget ==
  /\ shell' = IF att /\ shell = "open" THEN "ending" ELSE shell
  /\ att' = FALSE /\ pend' = "none"

\* The socket has closed: by the client, by the network, or as asked here.
PeerClosed ==
  /\ sock # "closed"
  /\ sock' = "closed"
  /\ wire' = <<>>
  /\ Forget
  /\ UNCHANGED <<open, typed, buf, got, up, late, before>>

\* The socket reports an error: it delivers nothing more, and `close' follows.
PeerError ==
  /\ sock = "open"
  /\ sock' = "closing"
  /\ wire' = <<>>
  /\ Forget
  /\ UNCHANGED <<open, typed, buf, got, up, late, before>>

\* The manager gets a connection or loses it: a channel request that was pending
\* on it fails, and shells close by ShellClosed.
ManagerChanges ==
  /\ up' = ~up
  /\ shell' = IF up /\ shell = "opening" THEN "refused" ELSE shell
  /\ UNCHANGED <<sock, open, typed, wire, pend, buf, att, got, late, before>>

Init ==
  /\ sock = "open" /\ open = "authenticating"
  /\ typed = 0 /\ wire = <<[control |-> "init"]>>
  /\ pend = "none" /\ buf = <<>>
  /\ shell = "none" /\ att = FALSE /\ got = <<>>
  /\ up \in BOOLEAN
  /\ late = FALSE /\ before = {}

Next ==
  \/ ClientTypes \/ ClientResizes
  \/ Opened \/ Deliver \/ ShellOpened \/ ShellFailed \/ ShellClosed
  \/ PeerClosed \/ PeerError \/ ManagerChanges

Spec == Init /\ [][Next]_vars

\* `open' ends, messages are delivered, a rejection reaches openAndAttach(), and
\* a close handshake ends.  Nothing obliges the node to answer a channel request:
\* neither openShell() nor its caller has a timeout.
Fairness ==
  /\ WF_vars(Opened) /\ WF_vars(Deliver)
  /\ WF_vars(shell = "refused" /\ ShellFailed)
  /\ WF_vars(shell = "ending" /\ ShellClosed)
  /\ WF_vars(sock = "closing" /\ PeerClosed)

FairSpec == Spec /\ Fairness

-----------------------------------------------------------------------------
(* Properties.                                                              *)

TypeOK ==
  /\ sock \in {"open", "closing", "closed"}
  /\ open \in {"authenticating", "done"}
  /\ typed \in 0..MaxKeys /\ before \subseteq Key
  /\ wire \in Seq(Message)
  /\ pend \in {"none", "wait", "init"}
  /\ buf \in Seq(Key) /\ got \in Seq(Key)
  /\ shell \in {"none", "opening", "refused", "open", "ending", "closed"}
  /\ att \in BOOLEAN /\ up \in BOOLEAN /\ late \in BOOLEAN

\* "subsequent: raw text keystrokes forwarded to shell": what is typed once the
\* shell is being opened reaches it in the order it was typed, although some of
\* it waits in the buffer and some does not.  Only a text that starts with a brace
\* may be missing: it is taken for a control message while the shell opens.
InputInOrder ==
  /\ \A i \in DOMAIN got : got[i] \notin before /\ \A j \in 1..(i - 1) : got[j] < got[i]
  /\ got # <<>> => 1..Last(got) \subseteq Brace \cup before \cup ToSet(got)

\* A shell survives its socket only when it opened after the socket had closed:
\* the handler `close' ends the ones it knows of.
ShellFollowsSocket == shell = "open" /\ sock = "closed" => late

\* What the user typed is kept in the buffer and has not reached the shell, on a
\* socket that is open.
KeptWaiting ==
  pend = "init" /\ buf # <<>> /\ sock = "open" /\ ~(att /\ IsSuffix(buf, got))

\* A peer is left waiting with its input in the buffer only by a node that never
\* answers the channel request, on a connection that is never lost: an answer, a
\* refusal and a lost connection each write the buffer or close the socket.
BufferedReachesShell == <>[]KeptWaiting => <>[](shell = "opening")

=============================================================================
