---------------------------- MODULE ClusterNodes ----------------------------
(***************************************************************************)
(* The nodes of an ESOS cluster as the storage operations of the WebUI see *)
(* them: one MD array of the same name on every node (local storage kept   *)
(* symmetric by the operator, never shared), what is built on it, the      *)
(* connection of the session pool to each node and its read-only flag.     *)
(*                                                                         *)
(* A storage request goes through every node over SSH, one command after   *)
(* the other. Nothing locks the cluster: other requests, connection losses *)
(* and changes of the flag happen between any two of its steps.            *)
(*                                                                         *)
(* The kernel and the tools of a node (mdadm, LVM, mkfs) are not in the    *)
(* repository: Allowed and the effects of a command state how the code     *)
(* relies on them.                                                         *)
(***************************************************************************)
EXTENDS Naturals, FiniteSets

CONSTANTS Nodes,      \* the enabled members of the cluster
          Req,        \* the storage requests in flight, of any administrator
          Ops,        \* the operations the administrators ask for
          Sections,   \* the parts of an inventory that may be missing
          NoNode,     \* no node
          MaxEvents   \* connections lost outside commands, read-only flags set,
                      \* parts of an inventory lost and dialogs opened again,
                      \* in all

MdOps == {"create", "stop", "stop_here", "assemble", "zero", "zero_here"}
LvmOps == {"pvcreate", "vgcreate", "lvcreate", "lvremove", "vgremove", "pvremove"}

ASSUME NodesAssumption == IsFiniteSet(Nodes) /\ Nodes # {} /\ NoNode \notin Nodes
ASSUME OpsAssumption == Ops \subseteq MdOps \cup LvmOps \cup {"mkfs"}
ASSUME SectionsAssumption == Sections \subseteq {"users", "pvs", "vgs", "lvs"}
ASSUME BoundAssumption == MaxEvents \in Nat

VARIABLES
  arr,     \* arr[n]: the array of node n, "active", "stopped" or "absent"
  use,     \* use[n]: what it holds, "none", "pv", "vg", "lv" or "fs" (mounted)
  up,      \* the nodes whose session is connected
  ro,      \* the nodes flagged read-only
  silent,  \* silent[n]: the parts missing from an inventory of node n
  events,  \* the events counted against MaxEvents so far
  req      \* req[r]: the state of request r

nodeVars == <<arr, use, up, ro, silent>>
vars == <<arr, use, up, ro, silent, events, req>>

(***************************************************************************)
(* A request. view is what its plan says of each node, scope the nodes it  *)
(* runs on, todo those it has not finished with, cur the node it has just  *)
(* looked at again before its command. The others are history: touched,    *)
(* where its command took effect; unread, where nobody read the exit       *)
(* status; moved, the nodes others have changed since it last looked;      *)
(* blind, what was missing from each node's inventory when it looked.      *)
(***************************************************************************)
Idle == [ph |-> "idle", op |-> "none", prim |-> NoNode, mode |-> "none",
         view |-> [n \in Nodes |-> "none"], scope |-> {}, todo |-> {},
         cur |-> NoNode, touched |-> {}, unread |-> {}, moved |-> {},
         blind |-> [n \in Nodes |-> {}], ans |-> "none"]

Init == /\ arr \in [Nodes -> {"active", "stopped", "absent"}]
        /\ use \in [Nodes -> {"none", "pv", "vg", "lv", "fs"}]
        /\ \A n \in Nodes : use[n] # "none" => arr[n] = "active"
        /\ up = Nodes /\ ro = {} /\ silent = [n \in Nodes |-> {}] /\ events = 0
        /\ req = [r \in Req |-> Idle]

(* The session of a node is lost, and made again by the session manager. *)
Drop(n) == /\ n \in up /\ events < MaxEvents
           /\ up' = up \ {n} /\ events' = events + 1
           /\ UNCHANGED <<arr, use, ro, silent, req>>

Reconnect(n) == /\ n \notin up
                /\ up' = up \cup {n}
                /\ UNCHANGED <<arr, use, ro, silent, events, req>>

(* An administrator flags a node read-only, or clears the flag. *)
SetReadOnly(n) == /\ n \notin ro /\ events < MaxEvents
                  /\ ro' = ro \cup {n} /\ events' = events + 1
                  /\ UNCHANGED <<arr, use, up, silent, req>>

SetWritable(n) == /\ n \in ro
                  /\ ro' = ro \ {n}
                  /\ UNCHANGED <<arr, use, up, silent, events, req>>

(***************************************************************************)
(* An inventory fails open. A tool that fails prints nothing (its errors   *)
(* are discarded), or its output is cut with the connection, which counts  *)
(* as exit 0: the parser finds no rows, and nobody tells that from a node  *)
(* that has none. "pvs", "vgs" and "lvs" are the three listings of the LVM *)
(* overview, "users" what the RAID one has of the use of an array: the     *)
(* listing of the block devices, or the names of the physical volumes.     *)
(***************************************************************************)
Silence(n) == /\ events < MaxEvents
              /\ \E s \in Sections \ silent[n] :
                   silent' = [silent EXCEPT ![n] = @ \cup {s}]
              /\ events' = events + 1
              /\ UNCHANGED <<arr, use, up, ro, req>>

Speak(n) == /\ silent[n] # {}
            /\ silent' = [silent EXCEPT ![n] = {}]
            /\ UNCHANGED <<arr, use, up, ro, events, req>>

(* The use of the array of node n in the RAID overview.                     *)
UsedBy(n) == IF "users" \in silent[n] THEN "none" ELSE use[n]

(* What the tools of node n do: an array with a mounted file system or an   *)
(* active logical volume on it is busy, so is a member of an active array.  *)
Allowed(op, n) ==
  CASE op \in {"stop", "stop_here"} -> arr[n] = "active" /\ use[n] \notin {"lv", "fs"}
    [] op = "create" -> arr[n] = "absent"
    [] op \in {"assemble", "zero", "zero_here"} -> arr[n] = "stopped"
    [] op = "pvcreate" -> arr[n] = "active" /\ use[n] \in {"none", "pv"}
    [] op \in {"vgcreate", "pvremove"} -> arr[n] = "active" /\ use[n] = "pv"
    [] op = "lvcreate" -> arr[n] = "active" /\ use[n] = "vg"
    [] op = "lvremove" -> arr[n] = "active" /\ use[n] = "lv"
    [] op = "vgremove" -> arr[n] = "active" /\ use[n] \in {"vg", "lv"}
    [] op = "mkfs" -> arr[n] = "active" /\ use[n] \in {"none", "pv", "vg"}

(* What the array is, and holds, once the command has taken effect. *)
ArrAfter(op, a) == CASE op \in {"stop", "stop_here"} -> "stopped"
                     [] op \in {"create", "assemble"} -> "active"
                     [] op \in {"zero", "zero_here"} -> "absent"
                     [] OTHER -> a

UseAfter(op, u) == CASE op \in {"create", "zero", "zero_here", "pvremove"} -> "none"
                     [] op \in {"pvcreate", "vgremove"} -> "pv"
                     [] op \in {"vgcreate", "lvremove"} -> "vg"
                     [] op = "lvcreate" -> "lv"
                     [] op = "mkfs" -> "fs"
                     [] OTHER -> u

(* r as it is once its command on node n has ended with the given report:   *)
(* "done", "unread" (success assumed) or "failed". stopsAtFailure: a        *)
(* failure leaves the other nodes alone.                                    *)
Reported(r, n, took, report, stopsAtFailure) ==
  LET q == req[r]
      rest == IF report = "failed" /\ stopsAtFailure THEN {} ELSE q.todo \ {n}
      ans == IF report = "failed" THEN "failed" ELSE q.ans
  IN  [q EXCEPT !.todo = rest, !.cur = NoNode,
                !.touched = IF took THEN @ \cup {n} ELSE @,
                !.unread = IF report = "unread" THEN @ \cup {n} ELSE @,
                !.ans = IF rest = {} /\ ans = "none" THEN "ok" ELSE ans,
                !.ph = IF rest = {} THEN "end" ELSE "run",
                !.view = IF rest = {} THEN Idle.view ELSE @,
                !.blind = IF rest = {} THEN Idle.blind ELSE @]

(* The command of r on node n ends: took says whether it took effect.       *)
Command(r, n, took, report, stopsAtFailure) ==
  /\ took => Allowed(req[r].op, n)
  /\ arr' = [arr EXCEPT ![n] = IF took THEN ArrAfter(req[r].op, @) ELSE @]
  /\ use' = [use EXCEPT ![n] = IF took THEN UseAfter(req[r].op, @) ELSE @]
  /\ req' = [q \in Req |->
               IF q = r THEN Reported(r, n, took, report, stopsAtFailure)
               ELSE IF took /\ req[q].ph \in {"run", "end"}
                    THEN [req[q] EXCEPT !.moved = @ \cup {n}]
               ELSE req[q]]
  /\ UNCHANGED <<ro, silent, events>>

(* The plan of a request appears in its dialog. *)
Show(r, op, prim, mode, view, S) ==
  /\ req[r].ph = "idle"
  /\ req' = [req EXCEPT ![r] = [@ EXCEPT !.ph = "shown", !.op = op, !.prim = prim,
                                         !.mode = mode, !.view = view, !.scope = S]]
  /\ UNCHANGED <<nodeVars, events>>

(* The server has accepted the confirmation and starts on the nodes of S.   *)
Start(r, S) ==
  /\ req' = [req EXCEPT ![r] = [@ EXCEPT !.ph = "run", !.todo = S, !.mode = "none",
                                         !.blind = silent]]
  /\ UNCHANGED <<nodeVars, events>>

(* The server looks at node n again, just before its command. *)
Look(r, n) ==
  /\ req' = [req EXCEPT ![r] = [req[r] EXCEPT !.cur = n, !.moved = req[r].moved \ {n},
                                              !.blind[n] = silent[n]]]
  /\ UNCHANGED <<nodeVars, events>>

(* The server refuses the confirmation, or the plan made again. *)
Refused(r) ==
  /\ req' = [req EXCEPT ![r] = [@ EXCEPT !.ph = "end", !.ans = "refused",
                                         !.mode = "none", !.view = Idle.view]]
  /\ UNCHANGED <<nodeVars, events>>

(* The dialog is closed, before the confirmation or after the answer. *)
Again(r) ==
  /\ req[r].ph \in {"shown", "end"} /\ events < MaxEvents
  /\ events' = events + 1
  /\ req' = [req EXCEPT ![r] = Idle]
  /\ UNCHANGED nodeVars
=============================================================================
