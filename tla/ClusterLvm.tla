----------------------------- MODULE ClusterLvm -----------------------------
(***************************************************************************)
(* The LVM operations and the creation of a file system on a cluster. They *)
(* have no degraded mode: an LVM operation wants every node connected,     *)
(* writable and in the state the operation starts from, checks that again  *)
(* when the confirmation arrives, and then goes on past a node that fails. *)
(* A file system is checked on the primary node, and then on each node     *)
(* before its commands.                                                    *)
(***************************************************************************)
EXTENDS ClusterNodes

(* What the LVM overview of node n lists: the array as a physical volume    *)
(* (with the group it belongs to), that group, its logical volume.          *)
PvListed(n) == use[n] \in {"pv", "vg", "lv"} /\ "pvs" \notin silent[n]
VgListed(n) == use[n] \in {"vg", "lv"} /\ "vgs" \notin silent[n]
LvListed(n) == use[n] = "lv" /\ "lvs" \notin silent[n]

(* A node's own preflight. A volume group is removed when no volume of it is *)
(* listed; pvcreate does not look at a mounted file system; a signature that *)
(* mkfs finds may be wiped with the administrator's consent.                 *)
NodeReady(op, n) ==
  /\ n \in up /\ arr[n] = "active"
  /\ CASE op = "pvcreate" -> ~PvListed(n) /\ UsedBy(n) \in {"none", "fs"}
       [] op \in {"vgcreate", "pvremove"} -> PvListed(n) /\ use[n] = "pv"
       [] op \in {"lvcreate", "vgremove"} -> VgListed(n) /\ ~LvListed(n)
       [] op = "lvremove" -> LvListed(n)
       [] op = "mkfs" -> UsedBy(n) = "none"

(* The plan of an LVM operation is executable on every node or not at all,  *)
(* whichever of them is the primary one.                                    *)
LvmPlanOk(op) == ro = {} /\ \A n \in Nodes : NodeReady(op, n)

LvmShow(r) ==
  \E op \in Ops \cap LvmOps :
    /\ LvmPlanOk(op)
    /\ Show(r, op, NoNode, "cluster", Idle.view, Nodes)

(* The plan is made again, the phrase is the one of the operation, and the *)
(* read-only flags are read once more before the first node.               *)
LvmConfirm(r) == /\ req[r].ph = "shown" /\ req[r].op \in LvmOps
                 /\ LvmPlanOk(req[r].op)
                 /\ Start(r, Nodes)

LvmRefuse(r) == /\ req[r].ph = "shown" /\ req[r].op \in LvmOps
                /\ ~LvmPlanOk(req[r].op)
                /\ Refused(r)

NextLvm(r, n) == req[r].ph = "run" /\ req[r].op \in LvmOps /\ n \in req[r].todo

LvmDone(r, n) == /\ NextLvm(r, n) /\ n \in up
                 /\ Command(r, n, TRUE, "done", FALSE)
                 /\ UNCHANGED up

(* A node that is not connected is recorded as failed, the next one has its *)
(* turn. The status of a tool that refuses is read for lvcreate only.       *)
LvmFails(r, n) ==
  /\ NextLvm(r, n)
  /\ Command(r, n, FALSE,
             IF n \notin up \/ req[r].op = "lvcreate" THEN "failed" ELSE "unread", FALSE)
  /\ UNCHANGED up

LvmTimesOut(r, n) == /\ NextLvm(r, n) /\ n \in up
                     /\ \E took \in BOOLEAN : Command(r, n, took, "failed", FALSE)
                     /\ UNCHANGED up

(* The connection is lost during the command, which then passes for a      *)
(* success; lvcreate activates the volume and lists the volumes of the     *)
(* node before it says so.                                                 *)
LvmCut(r, n) ==
  /\ NextLvm(r, n) /\ n \in up
  /\ \E took \in BOOLEAN, report \in {"failed", "unread"} :
       /\ report = IF req[r].op = "lvcreate" THEN report ELSE "unread"
       /\ req[r].op = "lvcreate" /\ report = "unread" => (took \/ use[n] = "lv")
       /\ Command(r, n, took, report, FALSE)
  /\ up' = up \ {n}

(* The creation of a file system: preflight of the primary node, which must *)
(* be writable.                                                             *)
FsPlanOk(prim) == prim \notin ro /\ NodeReady("mkfs", prim)

FsShow(r) ==
  \E op \in Ops \cap {"mkfs"}, prim \in Nodes :
    /\ FsPlanOk(prim)
    /\ Show(r, op, prim, "cluster", Idle.view, Nodes)

FsConfirm(r) == /\ req[r].ph = "shown" /\ req[r].op = "mkfs"
                /\ FsPlanOk(req[r].prim) /\ ro = {}
                /\ Start(r, Nodes)

FsRefuse(r) == /\ req[r].ph = "shown" /\ req[r].op = "mkfs"
               /\ ~(FsPlanOk(req[r].prim) /\ ro = {})
               /\ Refused(r)

NextFs(r, n) == req[r].ph = "run" /\ req[r].op = "mkfs" /\ n \in req[r].todo

(* The node's own preflight, just before its commands. *)
FsRecheck(r, n) ==
  /\ NextFs(r, n) /\ req[r].cur = NoNode
  /\ IF NodeReady("mkfs", n)
     THEN Look(r, n)
     ELSE Command(r, n, FALSE, "failed", FALSE) /\ UNCHANGED up

FsReady(r, n) == NextFs(r, n) /\ req[r].cur = n

FsDone(r, n) == /\ FsReady(r, n) /\ n \in up
                /\ Command(r, n, TRUE, "done", FALSE)
                /\ UNCHANGED up

(* One of the commands fails or times out: mkfs itself, before anything is *)
(* done, or the fstab entry or the mount after it.                         *)
FsFails(r, n) == /\ FsReady(r, n)
                 /\ \E took \in BOOLEAN : /\ took => n \in up
                                          /\ Command(r, n, took, "failed", FALSE)
                 /\ UNCHANGED up

(* The connection is lost: the command under way passes for a success, the  *)
(* ones after it fail unless the session is back in time.                   *)
FsCut(r, n) == /\ FsReady(r, n) /\ n \in up
               /\ \E took \in BOOLEAN, report \in {"failed", "unread"} :
                    Command(r, n, took, report, FALSE)
               /\ up' = up \ {n}

LvmStep(r) == \/ LvmShow(r) \/ LvmConfirm(r) \/ LvmRefuse(r)
              \/ FsShow(r) \/ FsConfirm(r) \/ FsRefuse(r)
              \/ \E n \in Nodes : \/ LvmDone(r, n) \/ LvmFails(r, n)
                                  \/ LvmTimesOut(r, n) \/ LvmCut(r, n)
                                  \/ FsRecheck(r, n) \/ FsDone(r, n)
                                  \/ FsFails(r, n) \/ FsCut(r, n)
=============================================================================
