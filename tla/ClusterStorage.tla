--------------------------- MODULE ClusterStorage ---------------------------
(***************************************************************************)
(* The storage of a cluster under all its requests: the MD operations, the *)
(* LVM operations and the creation of file systems run concurrently, with  *)
(* no lock between them, while connections are lost and flags change.      *)
(***************************************************************************)
EXTENDS ClusterMd, ClusterLvm

Next == \/ \E r \in Req : MdStep(r) \/ LvmStep(r) \/ Again(r)
        \/ \E n \in Nodes : Drop(n) \/ Reconnect(n) \/ SetReadOnly(n) \/ SetWritable(n)
                              \/ Silence(n) \/ Speak(n)

Spec == Init /\ [][Next]_vars

Modes == {"none", "stop_all_active", "stop_active_only", "stop_inconsistent_active",
          "assemble_stopped_nodes", "assemble_missing_only", "symmetric",
          "cleanup_mapped_only", "current_node_only", "cluster"}

ViewStates == {"none", "active", "stopped", "missing", "unreachable",
               "execute", "skip", "blocked"}

Requests == [ph : {"idle", "shown", "run", "end"}, op : Ops \cup {"none"},
             prim : Nodes \cup {NoNode}, mode : Modes, view : [Nodes -> ViewStates],
             scope : SUBSET Nodes, todo : SUBSET Nodes, cur : Nodes \cup {NoNode},
             touched : SUBSET Nodes, unread : SUBSET Nodes, moved : SUBSET Nodes,
             blind : [Nodes -> SUBSET Sections],
             ans : {"none", "ok", "failed", "refused"}]

(* The state has its types: array states and uses of raid-types.ts, one     *)
(* record per request.                                                      *)
TypeOK == /\ arr \in [Nodes -> {"active", "stopped", "absent"}]
          /\ use \in [Nodes -> {"none", "pv", "vg", "lv", "fs"}]
          /\ up \subseteq Nodes /\ ro \subseteq Nodes
          /\ silent \in [Nodes -> SUBSET Sections]
          /\ events \in 0..MaxEvents
          /\ req \in [Req -> Requests]

(***************************************************************************)
(* Safety.                                                                 *)
(***************************************************************************)
(* A success answered by executeClusterMdNodes, executeClusterLvmPlan or    *)
(* executeClusterFsCreate holds on every node of the confirmed plan, unless *)
(* the exit status was not read there or another request has changed the    *)
(* node in the meantime.                                                    *)
Holds(op, n) == arr[n] = ArrAfter(op, arr[n]) /\ use[n] = UseAfter(op, use[n])

ReplyIsHonest ==
  \A r \in Req : req[r].ph = "end" /\ req[r].ans = "ok" =>
    \A n \in req[r].scope \ (req[r].unread \cup req[r].moved) : Holds(req[r].op, n)

(* The command of request r takes node n's array, or its volume, from a user; *)
(* and the part of the inventory that would have told.                        *)
Loses(r, n) ==
  /\ n \in req'[r].touched \ req[r].touched
  /\ use[n] # "none" /\ (req[r].op = "vgremove" => use[n] = "lv")
  /\ req[r].op \in {"stop", "vgremove", "mkfs"}

Telling(op) == IF op = "vgremove" THEN "lvs" ELSE "users"

(* An array in use is never stopped on a cluster, a volume group with a      *)
(* volume never removed and nothing overwritten by mkfs, but in two cases:   *)
(* somebody else has changed the node since the request's last look at it,   *)
(* or that look missed the one part of the inventory that tells: the volumes *)
(* for vgremove, the users of the array for the others.                      *)
KnownUseSurvives ==
  [][\A r \in Req, n \in Nodes : Loses(r, n) =>
       \/ n \in req[r].moved
       \/ Telling(req[r].op) \in req[r].blind[n]]_vars

(* An operation asked from node n would reach all arrays in state s. *)
Offers(op, n, s) == /\ MdModes(op, n) # {}
                    /\ MdScope(op, n, MdView(op, n)) = In(States, s)

(* Whatever an interrupted stop, assembly or clean-up has left, the dialogs  *)
(* offer a way on from every writable node once all are connected: arrays     *)
(* that are active and shown unused can all be stopped, those stopped all be *)
(* assembled, or be cleaned.                                                 *)
Recoverable ==
  up = Nodes => \A n \in Nodes \ ro :
    /\ In(States, "active") # {} /\ Blocked = {} => Offers("stop", n, "active")
    /\ In(States, "stopped") # {} => Offers("assemble", n, "stopped") /\ Offers("zero", n, "stopped")

(***************************************************************************)
(* Every request keeps the promise of ConfirmedChange.                     *)
(***************************************************************************)
Phase(p) == CASE p = "idle" -> "idle" [] p = "shown" -> "shown"
              [] p = "run" -> "open" [] p = "end" -> "closed"

CC == INSTANCE ConfirmedChange WITH
        phase <- [r \in Req |-> Phase(req[r].ph)],
        scope <- [r \in Req |-> req[r].scope],
        touched <- [r \in Req |-> req[r].touched],
        unread <- [r \in Req |-> req[r].unread],
        answer <- [r \in Req |-> IF req[r].ph = "end" THEN req[r].ans ELSE "none"]

(* A change reaches only the nodes its confirmed plan showed, though the plan *)
(* is made again between the confirmation and the first command, and a        *)
(* success covers all of them.                                                *)
ImplementsConfirmedChange == CC!Spec
=============================================================================
