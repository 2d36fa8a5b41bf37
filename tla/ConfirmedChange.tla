-------------------------- MODULE ConfirmedChange --------------------------
(***************************************************************************)
(* What the WebUI promises for a change of a cluster's storage, whatever   *)
(* the operation: the administrator is shown the nodes the change would    *)
(* run on, types the confirmation, and from then on the change reaches no  *)
(* node that was not shown; a refused request reaches none; and success is *)
(* announced only when the change took effect on every node shown, but for *)
(* the nodes whose exit status nobody read.                                *)
(*                                                                         *)
(* ClusterStorage implements this specification.                           *)
(***************************************************************************)
CONSTANTS Nodes,    \* the nodes of the cluster
          Req       \* the requests of its administrators

VARIABLES phase,    \* phase[r]: "idle", "shown", "open" or "closed"
          scope,    \* scope[r]: the nodes shown for confirmation
          touched,  \* touched[r]: the nodes on which the change took effect
          unread,   \* unread[r]: the nodes whose exit status was not read
          answer    \* answer[r]: "none", "ok", "failed" or "refused"

vars == <<phase, scope, touched, unread, answer>>

Init == /\ phase = [r \in Req |-> "idle"]
        /\ scope = [r \in Req |-> {}]
        /\ touched = [r \in Req |-> {}]
        /\ unread = [r \in Req |-> {}]
        /\ answer = [r \in Req |-> "none"]

(* The plan of the change is shown, with the nodes it would run on. *)
Show(r) == /\ phase[r] = "idle"
           /\ \E S \in (SUBSET Nodes) \ {{}} : scope' = [scope EXCEPT ![r] = S]
           /\ phase' = [phase EXCEPT ![r] = "shown"]
           /\ UNCHANGED <<touched, unread, answer>>

(* The confirmation is accepted. *)
Confirm(r) == /\ phase[r] = "shown"
              /\ phase' = [phase EXCEPT ![r] = "open"]
              /\ UNCHANGED <<scope, touched, unread, answer>>

(* The confirmation is refused, nothing has happened. *)
Refuse(r) == /\ phase[r] = "shown"
             /\ phase' = [phase EXCEPT ![r] = "closed"]
             /\ answer' = [answer EXCEPT ![r] = "refused"]
             /\ UNCHANGED <<scope, touched, unread>>

(* The command of one node has ended: it took effect or not (T), its status *)
(* was read or not (U), and the answer may follow from it.                  *)
Work(r) ==
  /\ phase[r] = "open"
  /\ \E n \in scope[r] : \E T, U \in {{}, {n}} :
       /\ touched' = [touched EXCEPT ![r] = @ \cup T]
       /\ unread' = [unread EXCEPT ![r] = @ \cup U]
  /\ \/ UNCHANGED <<phase, answer>>
     \/ /\ phase' = [phase EXCEPT ![r] = "closed"]
        /\ \/ answer' = [answer EXCEPT ![r] = "failed"]
           \/ /\ scope[r] \subseteq touched'[r] \cup unread'[r]
              /\ answer' = [answer EXCEPT ![r] = "ok"]
  /\ UNCHANGED scope

(* The dialog is closed, the slot serves another request. *)
Again(r) == /\ phase[r] \in {"shown", "closed"}
            /\ phase' = [phase EXCEPT ![r] = "idle"]
            /\ scope' = [scope EXCEPT ![r] = {}]
            /\ touched' = [touched EXCEPT ![r] = {}]
            /\ unread' = [unread EXCEPT ![r] = {}]
            /\ answer' = [answer EXCEPT ![r] = "none"]

Next == \E r \in Req : Show(r) \/ Confirm(r) \/ Refuse(r) \/ Work(r) \/ Again(r)

Spec == Init /\ [][Next]_vars
=============================================================================
