------------------------------ MODULE ClusterMd ------------------------------
(***************************************************************************)
(* The MD RAID operations on a cluster: creation; stop, assemble and the   *)
(* clean-up of the metadata (zero-superblock; the wipe of signatures is the *)
(* same with another command), with their degraded modes for a cluster in  *)
(* which only some nodes can take part; and the two operations an           *)
(* administrator may run on the current node alone.                        *)
(***************************************************************************)
EXTENDS ClusterNodes

(* What the inventory says of the array on a node; metadata without a      *)
(* configuration counts as stopped, no signal at all as missing.           *)
\* Mutant: a node without the array keeps the raw state.
NodeStateRaw(n) == IF n \notin up THEN "unreachable" ELSE arr[n]

NodeState(n) == IF n \notin up THEN "unreachable"
                ELSE IF arr[n] = "absent" THEN "missing" ELSE arr[n]

States == [n \in Nodes |-> NodeState(n)]

(* The nodes whose array the inventory shows in use, by a mount, by LVM or  *)
(* by SCST: a stop would take a device from under its user.                 *)
\* Mutant: arrays in use do not block a stop.
NothingBlocked == {}

Blocked == {n \in Nodes : NodeState(n) = "active" /\ UsedBy(n) # "none"}

In(view, s) == {n \in Nodes : view[n] = s}

(***************************************************************************)
(* The modes offered for a stop: all nodes when all are active, else the   *)
(* active ones; "inconsistent" in addition when several are active and a   *)
(* peer without the array makes the cluster asymmetric. An active array in *)
(* use anywhere, or no active array at all, refuses the operation.         *)
(***************************************************************************)
\* Mutant: no degraded mode for a stop.
StopModesAllOrNone ==
  IF In(States, "active") = Nodes /\ Blocked = {} THEN {"stop_all_active"} ELSE {}

StopModes ==
  LET active == In(States, "active") IN
  IF active = {} \/ Blocked # {} THEN {}
  ELSE IF active = Nodes THEN {"stop_all_active"}
  ELSE {"stop_active_only"} \cup
       IF Cardinality(active) >= 2 THEN {"stop_inconsistent_active"} ELSE {}

(* The modes offered for an assembly. *)
AssembleModes ==
  LET stopped == In(States, "stopped")
      active == In(States, "active")
      missing == In(States, "missing")
  IN  IF stopped = {} THEN {}
      ELSE (IF stopped = Nodes THEN {"assemble_stopped_nodes"} ELSE {})
           \cup (IF active # {} \/ missing # {} THEN {"assemble_missing_only"}
                 ELSE {"assemble_missing_only", "assemble_stopped_nodes"})

(* How each node takes part in a clean-up asked from prim: the members to  *)
(* clean on a peer are mapped from the inventory of the primary node.      *)
Participation(prim) ==
  [n \in Nodes |->
     IF n \notin up THEN "skip"
     ELSE IF prim \notin up THEN "skip"
     ELSE CASE arr[n] = "active" -> "blocked"
            [] arr[n] = "stopped" -> "execute"
            [] arr[n] = "absent" -> "skip"]

(* A clean-up is symmetric when every node takes part; its confirmation    *)
(* phrase says which of the two it is.                                     *)
CleanupModes(prim) ==
  LET execs == In(Participation(prim), "execute")
  IN  IF execs = {} THEN {}
      ELSE IF execs = Nodes THEN {"symmetric"} ELSE {"cleanup_mapped_only"}

(* An array is created on all nodes, connected and writable, none of which *)
(* has one of that name or its members taken, or not at all.               *)
CreateModes == IF up = Nodes /\ ro = {} /\ In(States, "missing") = Nodes
               THEN {"cluster"} ELSE {}

MdModes(op, prim) == CASE op = "create" -> CreateModes
                       [] op = "stop" -> StopModes
                       [] op = "assemble" -> AssembleModes
                       [] op = "zero" -> CleanupModes(prim)
                       [] op \in {"stop_here", "zero_here"} -> {"current_node_only"}

(* What the plan, and its token, say of the nodes. *)
MdView(op, prim) == CASE op \in {"stop", "assemble"} -> States
                      [] op = "zero" -> Participation(prim)
                      [] OTHER -> Idle.view

(* The nodes the plan executes on. *)
MdScope(op, prim, view) == CASE op = "stop" -> In(view, "active")
                             [] op = "assemble" -> In(view, "stopped")
                             [] op = "zero" -> In(view, "execute")
                             [] op = "create" -> Nodes
                             [] OTHER -> {prim}

(* The dialog asks for the plan of an operation in one of its modes; the     *)
(* server makes none for a read-only primary node.                          *)
MdShow(r) ==
  \E op \in Ops \cap MdOps, prim \in Nodes :
    /\ op \in {"stop", "assemble", "zero"} => prim \notin ro
    /\ \E mode \in MdModes(op, prim) :
         Show(r, op, prim, mode, MdView(op, prim), MdScope(op, prim, MdView(op, prim)))

(* The token of the shown plan against the plan made again: same mode, and *)
(* the same state of every node. A symmetric clean-up may come without it; *)
(* a creation has none, its view says nothing of the nodes.                *)
\* Mutant: the token of the plan is not compared.
TokenIgnored(r, mode) == TRUE

TokenMatches(r, mode) ==
  LET q == req[r] IN
  \/ q.op \in {"stop_here", "zero_here"}
  \/ q.mode = mode /\ q.view = MdView(q.op, q.prim)
  \/ q.op = "zero" /\ mode = "symmetric"

(* The phrase typed for the shown plan against the one of the plan made     *)
(* again: a function of the operation and of the mode.                      *)
PhraseMatches(r, mode) == req[r].mode = mode

(* The administrator confirms. The dialog may ask for another mode than the *)
(* one of the plan it shows (it does not clear the plan when the mode is    *)
(* switched); a clean-up takes the mode the server finds. The read-only flag *)
(* of the primary node is looked at, not the ones of its peers.             *)
Accepts(r, mode) == /\ req[r].prim \notin ro
                    /\ mode \in MdModes(req[r].op, req[r].prim)
                    /\ TokenMatches(r, mode)
                    /\ PhraseMatches(r, mode)

MdConfirm(r) ==
  /\ req[r].ph = "shown" /\ req[r].op \in MdOps
  /\ \E mode \in MdModes(req[r].op, req[r].prim) :
       /\ Accepts(r, mode)
       /\ Start(r, MdScope(req[r].op, req[r].prim, MdView(req[r].op, req[r].prim)))

MdRefuse(r) ==
  /\ req[r].ph = "shown" /\ req[r].op \in MdOps
  /\ \E mode \in MdModes(req[r].op, req[r].prim) \cup {req[r].mode} : ~Accepts(r, mode)
  /\ Refused(r)

(* The primary node goes first. *)
NextMd(r, n) == /\ req[r].ph = "run" /\ req[r].op \in MdOps
                /\ n \in req[r].todo
                /\ req[r].prim \in req[r].todo => n = req[r].prim

Cleans(r) == req[r].op \in {"zero", "zero_here"}

Rechecks(r) == Cleans(r) \/ req[r].op = "create"

(* A clean-up and a creation collect the node's inventory again before the  *)
(* command, and validate the members (and the name) against it.            *)
MdRecheck(r, n) ==
  /\ NextMd(r, n) /\ Rechecks(r) /\ req[r].cur = NoNode
  /\ IF n \in up /\ arr[n] = (IF Cleans(r) THEN "stopped" ELSE "absent")
     THEN Look(r, n)
     ELSE Command(r, n, FALSE, "failed", TRUE) /\ UNCHANGED up

MdReady(r, n) == NextMd(r, n) /\ (Rechecks(r) => req[r].cur = n)

(* The command ends well and its exit status is read. *)
MdDone(r, n) == /\ MdReady(r, n) /\ n \in up
                /\ Command(r, n, TRUE, "done", TRUE)
                /\ UNCHANGED up

(* The node is not connected, or the tool refuses: the operation stops at   *)
(* this node and leaves the others as they are.                             *)
\* Mutant: EXIT_CODE is not looked at.
MdFailsUnseen(r, n) == /\ MdReady(r, n)
                       /\ Command(r, n, FALSE, "done", TRUE)
                       /\ UNCHANGED up

MdFails(r, n) == /\ MdReady(r, n)
                 /\ Command(r, n, FALSE, "failed", TRUE)
                 /\ UNCHANGED up

(* No answer within the timeout: a failure, whatever the node has done.     *)
MdTimesOut(r, n) == /\ MdReady(r, n) /\ n \in up
                    /\ \E took \in BOOLEAN : Command(r, n, took, "failed", TRUE)
                    /\ UNCHANGED up

(* The connection is lost before the exit status: the output without its    *)
(* EXIT_CODE line passes for a success, except for a clean-up, which counts *)
(* a missing marker as a failure.                                           *)
MdCut(r, n) == /\ MdReady(r, n) /\ n \in up
               /\ \E took \in BOOLEAN :
                    Command(r, n, took, IF Cleans(r) THEN "failed" ELSE "unread", TRUE)
               /\ up' = up \ {n}

MdStep(r) == \/ MdShow(r) \/ MdConfirm(r) \/ MdRefuse(r)
             \/ \E n \in Nodes : \/ MdRecheck(r, n) \/ MdDone(r, n) \/ MdFails(r, n)
                                 \/ MdTimesOut(r, n) \/ MdCut(r, n)
=============================================================================
