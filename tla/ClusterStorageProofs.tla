------------------------ MODULE ClusterStorageProofs ------------------------
(***************************************************************************)
(* What ClusterStorage promises for any cluster and any number of requests.*)
(*                                                                         *)
(* A command changes the request that gave it, and marks the node as moved *)
(* for all the others; so each part of the invariant is about one request: *)
(* what was shown (Planned), how far it has gone (Covered), what its        *)
(* finished nodes hold (Honest) and what the nodes before it still hold     *)
(* (Cautious), each but where others have been.                            *)
(***************************************************************************)
EXTENDS ClusterStorage, FiniteSetTheorems, TLAPS

\* What a plan shows is what it would run on, and it is never empty.
PlanScope(q) == IF q.op \in MdOps THEN MdScope(q.op, q.prim, q.view) ELSE Nodes

Fresh(q) ==
  /\ q.todo = {} /\ q.touched = {} /\ q.unread = {} /\ q.moved = {}
  /\ q.cur = NoNode /\ q.ans = "none"

Planned(q) ==
  /\ q.ph \in {"idle", "shown"} => Fresh(q)
  /\ q.ph # "idle" => q.scope # {} /\ q.op \in Ops
  /\ q.ph \in {"shown", "run"} /\ q.op \in MdOps => q.prim \in Nodes
  /\ q.ph = "shown" => q.scope = PlanScope(q)
  /\ q.ph = "shown" /\ q.op = "zero" /\ q.mode = "symmetric" => q.scope = Nodes

\* A node of the scope is waiting, or its command took effect, or its status was
\* not read, as long as nothing has failed.
Covered(q) ==
  /\ q.ph = "run" => /\ q.todo # {} /\ q.todo \subseteq q.scope
                     /\ q.ans \in {"none", "failed"}
                     /\ q.ans = "none" => q.scope \subseteq q.todo \cup q.touched \cup q.unread
  /\ q.ph = "end" => /\ q.todo = {} /\ q.ans \in {"ok", "failed", "refused"}
                     /\ q.ans = "ok" => q.scope \subseteq q.touched \cup q.unread

\* The nodes a request is done with hold what its command leaves.
Honest(q) ==
  q.ph \in {"run", "end"} /\ q.ans \in {"none", "ok"} =>
    \A n \in q.scope \ (q.todo \cup q.unread \cup q.moved) : Holds(q.op, n)

\* The nodes it has still to change hold what it saw, if the inventory told.
Harmless(q, n) == \/ use[n] = IF q.op = "vgremove" THEN "vg" ELSE "none"
                  \/ Telling(q.op) \in q.blind[n]

Cautious(q) ==
  q.ph = "run" =>
    /\ q.op \in {"stop", "vgremove"} => \A n \in q.todo \ q.moved : Harmless(q, n)
    /\ q.op = "mkfs" => \A n \in {q.cur} \ q.moved : n # NoNode => Harmless(q, n)

ReqInv(q) == Planned(q) /\ Covered(q) /\ Honest(q) /\ Cautious(q)

IInv == TypeOK /\ \A r \in Req : ReqInv(req[r])

-----------------------------------------------------------------------------
(* The tools of a node.                                                     *)
\* A command that has taken effect holds, and would change nothing again.
LEMMA EffectHolds ==
  ASSUME NEW op, NEW a, NEW u
  PROVE  /\ ArrAfter(op, ArrAfter(op, a)) = ArrAfter(op, a)
         /\ UseAfter(op, UseAfter(op, u)) = UseAfter(op, u)
  BY DEF ArrAfter, UseAfter

\* What a command leaves is a state of an array, and a use.
LEMMA EffectTyped ==
  ASSUME NEW op, NEW a \in {"active", "stopped", "absent"},
         NEW u \in {"none", "pv", "vg", "lv", "fs"}
  PROVE  /\ ArrAfter(op, a) \in {"active", "stopped", "absent"}
         /\ UseAfter(op, u) \in {"none", "pv", "vg", "lv", "fs"}
  BY DEF ArrAfter, UseAfter

\* Plans say of a node one of the things that the dialogs know.
LEMMA IdleTyped == /\ Idle \in Requests /\ Idle.view \in [Nodes -> ViewStates]
                   /\ Idle.blind \in [Nodes -> SUBSET Sections]
  BY DEF Idle, Requests, ViewStates, Modes

\* The request whose command has ended is a request.
LEMMA ReportedTyped ==
  ASSUME NEW r \in Req, req[r] \in Requests, NEW n \in Nodes, NEW took \in BOOLEAN,
         NEW report \in {"done", "unread", "failed"}, NEW b \in BOOLEAN
  PROVE  Reported(r, n, took, report, b) \in Requests
<1> DEFINE rest == IF report = "failed" /\ b THEN {} ELSE req[r].todo \ {n}
           ans == IF report = "failed" THEN "failed" ELSE req[r].ans
           T == IF took THEN req[r].touched \cup {n} ELSE req[r].touched
           U == IF report = "unread" THEN req[r].unread \cup {n} ELSE req[r].unread
           A == IF rest = {} /\ ans = "none" THEN "ok" ELSE ans
           P == IF rest = {} THEN "end" ELSE "run"
           V == IF rest = {} THEN Idle.view ELSE req[r].view
           B == IF rest = {} THEN Idle.blind ELSE req[r].blind
<1>1. /\ rest \in SUBSET Nodes /\ T \in SUBSET Nodes /\ U \in SUBSET Nodes
      /\ A \in {"none", "ok", "failed", "refused"} /\ P \in {"idle", "shown", "run", "end"}
      /\ V \in [Nodes -> ViewStates] /\ B \in [Nodes -> SUBSET Sections]
  BY IdleTyped DEF Requests
<1>2. Reported(r, n, took, report, b) =
        [req[r] EXCEPT !.todo = rest, !.cur = NoNode, !.touched = T, !.unread = U,
                       !.ans = A, !.ph = P, !.view = V, !.blind = B]
  BY DEF Reported
<1> HIDE DEF rest, ans, T, U, A, P, V, B
<1>3. [req[r] EXCEPT !.todo = rest, !.cur = NoNode, !.touched = T, !.unread = U,
                     !.ans = A, !.ph = P, !.view = V, !.blind = B] \in Requests
  BY <1>1 DEF Requests
<1> QED
  BY <1>2, <1>3

\* What the step does to the request of somebody else.
LEMMA OthersMove ==
  ASSUME TypeOK, NEW r \in Req, NEW n \in Nodes, NEW took, NEW report, NEW b,
         Command(r, n, took, report, b), NEW q \in Req, q # r
  PROVE  /\ req'[q] \in Requests
         /\ req'[q].ph = req[q].ph /\ req'[q].op = req[q].op /\ req'[q].prim = req[q].prim
         /\ req'[q].mode = req[q].mode /\ req'[q].view = req[q].view
         /\ req'[q].scope = req[q].scope /\ req'[q].todo = req[q].todo
         /\ req'[q].cur = req[q].cur /\ req'[q].touched = req[q].touched
         /\ req'[q].unread = req[q].unread /\ req'[q].ans = req[q].ans
         /\ req'[q].blind = req[q].blind
         /\ req'[q].moved = IF took /\ req[q].ph \in {"run", "end"}
                           THEN req[q].moved \cup {n} ELSE req[q].moved
<1>1. req[q] \in Requests
  BY DEF TypeOK
<1>2. req'[q] = IF took /\ req[q].ph \in {"run", "end"}
                THEN [req[q] EXCEPT !.moved = @ \cup {n}] ELSE req[q]
  BY DEF Command
<1>3. CASE took /\ req[q].ph \in {"run", "end"}
  <2>1. req'[q] = [req[q] EXCEPT !.moved = @ \cup {n}]
    BY <1>2, <1>3
  <2> QED
    BY <1>1, <1>3, <2>1 DEF Requests
<1>4. CASE ~(took /\ req[q].ph \in {"run", "end"})
  BY <1>1, <1>2, <1>4
<1> QED
  BY <1>3, <1>4

\* A command changes the node it runs on, and nothing else.
LEMMA OneNode ==
  ASSUME TypeOK, NEW r \in Req, NEW n \in Nodes, NEW took \in BOOLEAN, NEW report, NEW b,
         Command(r, n, took, report, b)
  PROVE  /\ \A m \in Nodes : m # n \/ ~took => arr'[m] = arr[m] /\ use'[m] = use[m]
         /\ took => /\ arr'[n] = ArrAfter(req[r].op, arr[n])
                    /\ use'[n] = UseAfter(req[r].op, use[n])
                    /\ Allowed(req[r].op, n)
         /\ arr' \in [Nodes -> {"active", "stopped", "absent"}]
         /\ use' \in [Nodes -> {"none", "pv", "vg", "lv", "fs"}]
<1> DEFINE a == IF took THEN ArrAfter(req[r].op, arr[n]) ELSE arr[n]
           u == IF took THEN UseAfter(req[r].op, use[n]) ELSE use[n]
<1>1. arr' = [arr EXCEPT ![n] = a] /\ use' = [use EXCEPT ![n] = u]
  BY DEF Command
<1>2. /\ arr \in [Nodes -> {"active", "stopped", "absent"}]
      /\ use \in [Nodes -> {"none", "pv", "vg", "lv", "fs"}]
  BY DEF TypeOK
<1>3. a \in {"active", "stopped", "absent"} /\ u \in {"none", "pv", "vg", "lv", "fs"}
  BY <1>2, EffectTyped
<1>4. ~took => a = arr[n] /\ u = use[n]
  OBVIOUS
<1>5. took => /\ a = ArrAfter(req[r].op, arr[n]) /\ u = UseAfter(req[r].op, use[n])
              /\ Allowed(req[r].op, n)
  BY DEF Command
<1> HIDE DEF a, u
<1> QED
  BY <1>1, <1>2, <1>3, <1>4, <1>5

\* The requests of the others keep their invariant: the node is marked as moved.
LEMMA OthersKept ==
  ASSUME IInv, NEW r \in Req, NEW n \in Nodes, NEW took \in BOOLEAN, NEW report, NEW b,
         Command(r, n, took, report, b), NEW q \in Req, q # r
  PROVE  ReqInv(req[q])'
<1>1. TypeOK /\ ReqInv(req[q])
  BY DEF IInv
<1>2. PICK x : x = req'[q]
  OBVIOUS
<1>3. /\ x.ph = req[q].ph /\ x.op = req[q].op /\ x.prim = req[q].prim
      /\ x.mode = req[q].mode /\ x.view = req[q].view
      /\ x.scope = req[q].scope /\ x.todo = req[q].todo
      /\ x.cur = req[q].cur /\ x.touched = req[q].touched
      /\ x.unread = req[q].unread /\ x.ans = req[q].ans /\ x.blind = req[q].blind
      /\ x.moved = IF took /\ req[q].ph \in {"run", "end"}
                    THEN req[q].moved \cup {n} ELSE req[q].moved
  BY <1>1, <1>2, OthersMove
<1>4. /\ \A m \in Nodes : m # n \/ ~took => arr'[m] = arr[m] /\ use'[m] = use[m]
  BY <1>1, OneNode
<1>5. req[q] \in Requests
  BY <1>1 DEF TypeOK
<1>6. Planned(req[q])'
  BY <1>1, <1>2, <1>3 DEF ReqInv, Planned, Fresh, PlanScope, MdScope, In
<1>7. Covered(req[q])'
  BY <1>1, <1>2, <1>3 DEF ReqInv, Covered
<1>8. Honest(req[q])'
  <2> SUFFICES ASSUME x.ph \in {"run", "end"}, x.ans \in {"none", "ok"},
                      NEW m \in x.scope \ (x.todo \cup x.unread \cup x.moved)
               PROVE  Holds(x.op, m)'
    BY <1>2 DEF Honest
  <2>1. m \in Nodes /\ (m # n \/ ~took)
    BY <1>3, <1>5 DEF Requests
  <2>2. Holds(req[q].op, m)
    BY <1>1, <1>3 DEF ReqInv, Honest
  <2> QED
    BY <1>3, <1>4, <2>1, <2>2 DEF Holds
<1>9. Cautious(req[q])'
  <2>1. ASSUME x.ph = "run", NEW m \in (x.todo \cup {x.cur}) \ x.moved, m # NoNode
        PROVE  m \in Nodes /\ use'[m] = use[m] /\ m \notin req[q].moved
    BY <1>3, <1>4, <1>5, <2>1 DEF Requests
  <2>2. ASSUME NEW m, use'[m] = use[m], Harmless(req[q], m)
        PROVE  Harmless(x, m)'
    BY <1>3, <2>2 DEF Harmless
  <2>3. x.ph = "run" /\ x.op \in {"stop", "vgremove"} =>
          \A m \in x.todo \ x.moved : Harmless(x, m)'
    BY <1>1, <1>3, <1>5, <2>1, <2>2, NodesAssumption DEF ReqInv, Cautious, Requests
  <2>4. x.ph = "run" /\ x.op = "mkfs" =>
          \A m \in {x.cur} \ x.moved : m # NoNode => Harmless(x, m)'
    BY <1>1, <1>3, <2>1, <2>2 DEF ReqInv, Cautious
  <2> QED
    BY <1>2, <2>3, <2>4 DEF Cautious, Harmless
<1> QED
  BY <1>6, <1>7, <1>8, <1>9 DEF ReqInv

\* So does the request whose command has ended: a node it reports as done holds
\* what the command leaves.
LEMMA OwnKept ==
  ASSUME IInv, NEW r \in Req, NEW n \in req[r].todo, req[r].ph = "run",
         NEW took \in BOOLEAN, NEW report \in {"done", "unread", "failed"}, NEW b \in BOOLEAN,
         report = "done" => took, Command(r, n, took, report, b)
  PROVE  ReqInv(req[r])' /\ req'[r] \in Requests
<1>1. TypeOK /\ ReqInv(req[r]) /\ req[r] \in Requests /\ n \in Nodes
  BY DEF IInv, TypeOK, Requests
<1>2. PICK x : x = req'[r]
  OBVIOUS
<1>3. x = Reported(r, n, took, report, b)
  BY <1>2 DEF Command
<1>4. x \in Requests
  BY <1>1, <1>3, ReportedTyped
<1>5. PICK rest : rest = IF report = "failed" /\ b THEN {} ELSE req[r].todo \ {n}
  OBVIOUS
<1>6. /\ x.op = req[r].op /\ x.prim = req[r].prim /\ x.mode = req[r].mode
      /\ x.scope = req[r].scope /\ x.moved = req[r].moved
      /\ x.todo = rest /\ x.cur = NoNode
      /\ x.touched = IF took THEN req[r].touched \cup {n} ELSE req[r].touched
      /\ x.unread = IF report = "unread" THEN req[r].unread \cup {n} ELSE req[r].unread
      /\ x.ph = IF rest = {} THEN "end" ELSE "run"
      /\ x.ph = "run" => x.blind = req[r].blind
      /\ x.ans = IF rest = {} /\ (report # "failed" /\ req[r].ans = "none") THEN "ok"
                 ELSE IF report = "failed" THEN "failed" ELSE req[r].ans
  <2>1. req[r] = [ph |-> req[r].ph, op |-> req[r].op, prim |-> req[r].prim,
                  mode |-> req[r].mode, view |-> req[r].view, scope |-> req[r].scope,
                  todo |-> req[r].todo, cur |-> req[r].cur, touched |-> req[r].touched,
                  unread |-> req[r].unread, moved |-> req[r].moved,
                  blind |-> req[r].blind, ans |-> req[r].ans]
    BY <1>1 DEF Requests
  <2> QED
    BY <1>3, <1>5, <2>1 DEF Reported
<1>7. Planned(req[r])'
  BY <1>1, <1>2, <1>6 DEF ReqInv, Planned
<1>8. /\ req[r].ans \in {"none", "failed"} /\ req[r].todo \subseteq req[r].scope
      /\ req[r].ans = "none" => req[r].scope \subseteq req[r].todo \cup req[r].touched \cup req[r].unread
  BY <1>1 DEF ReqInv, Covered
<1>9. Covered(req[r])'
  <2>1. x.ph = "run" => /\ x.todo # {} /\ x.todo \subseteq x.scope /\ x.ans \in {"none", "failed"}
    BY <1>5, <1>6, <1>8
  <2>2. report # "failed" /\ req[r].ans = "none" =>
          x.scope \subseteq rest \cup x.touched \cup x.unread
    BY <1>5, <1>6, <1>8
  <2>3. x.ans \in {"none", "ok"} => report # "failed" /\ req[r].ans = "none"
    BY <1>6, <1>8
  <2>4. x.ph = "end" => x.todo = {} /\ x.ans \in {"ok", "failed", "refused"} /\ rest = {}
    BY <1>6, <1>8
  <2> QED
    BY <1>2, <1>6, <2>1, <2>2, <2>3, <2>4 DEF Covered
<1>10. Honest(req[r])'
  <2> SUFFICES ASSUME x.ans \in {"none", "ok"},
                      NEW m \in x.scope \ (x.todo \cup x.unread \cup x.moved)
               PROVE  Holds(x.op, m)'
    BY <1>2 DEF Honest
  <2>1. report # "failed" /\ req[r].ans = "none" /\ m \in Nodes
    BY <1>1, <1>6, <1>8 DEF Requests
  <2>2. CASE m = n
    <3>1. took
      BY <1>6, <2>1, <2>2
    <3>2. arr'[n] = ArrAfter(req[r].op, arr[n]) /\ use'[n] = UseAfter(req[r].op, use[n])
      BY <1>1, <3>1, OneNode
    <3> QED
      BY <1>6, <2>2, <3>2, EffectHolds DEF Holds
  <2>3. CASE m # n
    <3>1. m \in req[r].scope \ (req[r].todo \cup req[r].unread \cup req[r].moved)
      BY <1>5, <1>6, <2>1, <2>3
    <3>2. Holds(req[r].op, m)
      BY <1>1, <2>1, <3>1 DEF ReqInv, Honest
    <3>3. arr'[m] = arr[m] /\ use'[m] = use[m]
      BY <1>1, <2>1, <2>3, OneNode
    <3> QED
      BY <1>6, <3>2, <3>3 DEF Holds
  <2> QED
    BY <2>2, <2>3
<1>11. Cautious(req[r])'
  <2>1. ASSUME NEW m \in x.todo \ x.moved
        PROVE  use'[m] = use[m] /\ m \in req[r].todo \ req[r].moved
    <3>1. m # n /\ m \in Nodes /\ m \in req[r].todo \ req[r].moved
      BY <1>1, <1>5, <1>6 DEF Requests
    <3> QED
      BY <1>1, <3>1, OneNode
  <2>2. ASSUME x.ph = "run", x.op \in {"stop", "vgremove"}, NEW m \in x.todo \ x.moved
        PROVE  Harmless(x, m)'
    <3>1. Harmless(req[r], m)
      BY <1>1, <1>6, <2>1, <2>2 DEF ReqInv, Cautious
    <3> QED
      BY <1>6, <2>1, <2>2, <3>1 DEF Harmless
  <2> QED
    BY <1>2, <1>6, <2>2, NodesAssumption DEF Cautious, Harmless
<1> QED
  BY <1>2, <1>4, <1>7, <1>9, <1>10, <1>11 DEF ReqInv

\* Every command keeps the invariant, whatever becomes of the connection.
LEMMA CommandKeeps ==
  ASSUME IInv, NEW r \in Req, NEW n \in req[r].todo, req[r].ph = "run",
         NEW took \in BOOLEAN, NEW report \in {"done", "unread", "failed"}, NEW b \in BOOLEAN,
         report = "done" => took, Command(r, n, took, report, b), up' \subseteq Nodes
  PROVE  IInv'
<1>1. TypeOK /\ n \in Nodes
  BY DEF IInv, TypeOK, Requests
<1>2. ASSUME NEW q \in Req
      PROVE  ReqInv(req[q])' /\ req'[q] \in Requests
  <2>1. CASE q = r
    BY <2>1, OwnKept
  <2>2. CASE q # r
    BY <1>1, <2>2, OthersKept, OthersMove
  <2> QED
    BY <2>1, <2>2
<1>3. req' \in [Req -> Requests]
  <2>1. req' = [q \in Req |-> req'[q]]
    BY DEF Command
  <2> QED
    BY <1>2, <2>1
<1>4. /\ arr' \in [Nodes -> {"active", "stopped", "absent"}]
      /\ use' \in [Nodes -> {"none", "pv", "vg", "lv", "fs"}]
  BY <1>1, OneNode
<1>5. ro' = ro /\ silent' = silent /\ events' = events
  BY DEF Command
<1>6. TypeOK'
  BY <1>1, <1>3, <1>4, <1>5 DEF TypeOK
<1> QED
  BY <1>2, <1>6 DEF IInv

-----------------------------------------------------------------------------
(* The steps that leave the nodes alone.                                    *)
\* The fields of a request that has been changed in one place or more.
LEMMA RequestFields ==
  ASSUME NEW q \in Requests
  PROVE  q = [ph |-> q.ph, op |-> q.op, prim |-> q.prim, mode |-> q.mode, view |-> q.view,
              scope |-> q.scope, todo |-> q.todo, cur |-> q.cur, touched |-> q.touched,
              unread |-> q.unread, moved |-> q.moved, blind |-> q.blind, ans |-> q.ans]
  BY DEF Requests

\* A step that changes one request keeps the invariant if this request does.
LEMMA OneRequest ==
  ASSUME IInv, NEW r \in Req, NEW x \in Requests, req' = [req EXCEPT ![r] = x],
         ReqInv(x), UNCHANGED nodeVars, events' \in 0..MaxEvents
  PROVE  IInv'
<1>1. TypeOK'
  BY DEF IInv, TypeOK, nodeVars
<1>2. arr' = arr /\ use' = use
  BY DEF nodeVars
<1>3. ASSUME NEW q \in Req
      PROVE  ReqInv(req[q])'
  <2>1. req'[q] = IF q = r THEN x ELSE req[q]
    BY DEF IInv, TypeOK
  <2>2. PICK y : y = req'[q]
    OBVIOUS
  <2>3. ReqInv(y)
    BY <2>1, <2>2 DEF IInv
  <2> QED
    BY <1>2, <2>2, <2>3 DEF ReqInv, Planned, Fresh, PlanScope, MdScope, In, Covered,
                           Honest, Holds, Cautious, Harmless
<1> QED
  BY <1>1, <1>3 DEF IInv

\* Flags, connections and what an inventory lacks are in no part of the invariant.
LEMMA NodesKept ==
  ASSUME IInv, UNCHANGED <<arr, use, req>>, up' \subseteq Nodes, ro' \subseteq Nodes,
         silent' \in [Nodes -> SUBSET Sections], events' \in 0..MaxEvents
  PROVE  IInv'
<1>1. TypeOK'
  BY DEF IInv, TypeOK
<1>2. ASSUME NEW q \in Req
      PROVE  ReqInv(req[q])'
  BY DEF IInv, ReqInv, Planned, Fresh, PlanScope, MdScope, In, Covered, Honest, Holds,
     Cautious, Harmless
<1> QED
  BY <1>1, <1>2 DEF IInv

\* A dialog shows a plan that runs somewhere, and on what it says.
LEMMA ShowKeeps ==
  ASSUME IInv, NEW r \in Req, NEW op \in Ops, NEW prim \in Nodes \cup {NoNode}, NEW mode \in Modes,
         op \in MdOps => prim \in Nodes, NEW view \in [Nodes -> ViewStates], NEW S \in SUBSET Nodes,
         S # {}, S = IF op \in MdOps THEN MdScope(op, prim, view) ELSE Nodes,
         op = "zero" /\ mode = "symmetric" => S = Nodes,
         Show(r, op, prim, mode, view, S)
  PROVE  IInv'
<1>1. req[r] \in Requests /\ req[r].ph = "idle" /\ Fresh(req[r])
  BY DEF Show, IInv, TypeOK, ReqInv, Planned
<1>2. PICK x : x = [req[r] EXCEPT !.ph = "shown", !.op = op, !.prim = prim,
                                  !.mode = mode, !.view = view, !.scope = S]
  OBVIOUS
<1>3. x \in Requests
  BY <1>1, <1>2 DEF Requests
<1>4. /\ x.ph = "shown" /\ x.op = op /\ x.prim = prim /\ x.mode = mode
      /\ x.view = view /\ x.scope = S /\ x.todo = req[r].todo /\ x.cur = req[r].cur
      /\ x.touched = req[r].touched /\ x.unread = req[r].unread
      /\ x.moved = req[r].moved /\ x.ans = req[r].ans
  <2>1. req[r] = [ph |-> req[r].ph, op |-> req[r].op, prim |-> req[r].prim,
                  mode |-> req[r].mode, view |-> req[r].view, scope |-> req[r].scope,
                  todo |-> req[r].todo, cur |-> req[r].cur, touched |-> req[r].touched,
                  unread |-> req[r].unread, moved |-> req[r].moved,
                  blind |-> req[r].blind, ans |-> req[r].ans]
    BY <1>1, RequestFields
  <2> QED
    BY <1>2, <2>1
<1>5. Planned(x)
  BY <1>1, <1>4 DEF Planned, Fresh, PlanScope
<1>6. Covered(x) /\ Honest(x) /\ Cautious(x)
  BY <1>4 DEF Covered, Honest, Cautious
<1>7. /\ req' = [req EXCEPT ![r] = x] /\ UNCHANGED nodeVars /\ events' \in 0..MaxEvents
  BY <1>2 DEF Show, IInv, TypeOK
<1> QED
  BY <1>3, <1>5, <1>6, <1>7, OneRequest DEF ReqInv

\* A confirmed request starts on the nodes that were shown, and sees them fit.
LEMMA StartKeeps ==
  ASSUME IInv, NEW r \in Req, req[r].ph = "shown", Start(r, req[r].scope),
         req[r].op = "stop" =>
           \A n \in req[r].scope : use[n] = "none" \/ "users" \in silent[n],
         req[r].op = "vgremove" =>
           \A n \in req[r].scope : use[n] = "vg" \/ "lvs" \in silent[n]
  PROVE  IInv'
<1>1. req[r] \in Requests /\ Planned(req[r]) /\ Fresh(req[r])
  BY DEF IInv, TypeOK, ReqInv, Planned
<1>2. PICK x : x = [req[r] EXCEPT !.ph = "run", !.todo = req[r].scope, !.mode = "none",
                                  !.blind = silent]
  OBVIOUS
<1>3. x \in Requests
  BY <1>1, <1>2 DEF IInv, TypeOK, Requests, Modes
<1>4. /\ x.ph = "run" /\ x.op = req[r].op /\ x.prim = req[r].prim
      /\ x.scope = req[r].scope /\ x.todo = req[r].scope /\ x.cur = req[r].cur
      /\ x.ans = req[r].ans /\ x.blind = silent
  <2>1. req[r] = [ph |-> req[r].ph, op |-> req[r].op, prim |-> req[r].prim,
                  mode |-> req[r].mode, view |-> req[r].view, scope |-> req[r].scope,
                  todo |-> req[r].todo, cur |-> req[r].cur, touched |-> req[r].touched,
                  unread |-> req[r].unread, moved |-> req[r].moved,
                  blind |-> req[r].blind, ans |-> req[r].ans]
    BY <1>1, RequestFields
  <2> QED
    BY <1>2, <2>1
<1>5. Planned(x)
  BY <1>1, <1>4 DEF Planned
<1>6. Covered(x) /\ Honest(x) /\ Cautious(x)
  BY <1>1, <1>4 DEF Planned, Fresh, Covered, Honest, Cautious, Harmless, Telling
<1>7. /\ req' = [req EXCEPT ![r] = x] /\ UNCHANGED nodeVars /\ events' \in 0..MaxEvents
  BY <1>2 DEF Start, IInv, TypeOK
<1> QED
  BY <1>3, <1>5, <1>6, <1>7, OneRequest DEF ReqInv

\* A refused request has reached nothing.
LEMMA RefusedKeeps ==
  ASSUME IInv, NEW r \in Req, req[r].ph = "shown", Refused(r)
  PROVE  IInv'
<1>1. req[r] \in Requests /\ Planned(req[r]) /\ Fresh(req[r])
  BY DEF IInv, TypeOK, ReqInv, Planned
<1>2. PICK x : x = [req[r] EXCEPT !.ph = "end", !.ans = "refused", !.mode = "none",
                                  !.view = Idle.view]
  OBVIOUS
<1>3. x \in Requests
  BY <1>1, <1>2, IdleTyped DEF Requests, Modes
<1>4. /\ x.ph = "end" /\ x.op = req[r].op /\ x.scope = req[r].scope
      /\ x.todo = req[r].todo /\ x.ans = "refused"
  <2>1. req[r] = [ph |-> req[r].ph, op |-> req[r].op, prim |-> req[r].prim,
                  mode |-> req[r].mode, view |-> req[r].view, scope |-> req[r].scope,
                  todo |-> req[r].todo, cur |-> req[r].cur, touched |-> req[r].touched,
                  unread |-> req[r].unread, moved |-> req[r].moved,
                  blind |-> req[r].blind, ans |-> req[r].ans]
    BY <1>1, RequestFields
  <2> QED
    BY <1>2, <2>1
<1>5. ReqInv(x)
  BY <1>1, <1>4 DEF ReqInv, Planned, Fresh, Covered, Honest, Cautious
<1>6. /\ req' = [req EXCEPT ![r] = x] /\ UNCHANGED nodeVars /\ events' \in 0..MaxEvents
  BY <1>2 DEF Refused, IInv, TypeOK
<1> QED
  BY <1>3, <1>5, <1>6, OneRequest

\* A dialog that is closed forgets its request.
LEMMA AgainKeeps ==
  ASSUME IInv, NEW r \in Req, Again(r)
  PROVE  IInv'
<1>1. ReqInv(Idle)
  BY DEF Idle, ReqInv, Planned, Fresh, Covered, Honest, Cautious
<1>2. /\ req' = [req EXCEPT ![r] = Idle] /\ UNCHANGED nodeVars /\ events' \in 0..MaxEvents
  BY BoundAssumption DEF Again, IInv, TypeOK
<1> QED
  BY <1>1, <1>2, IdleTyped, OneRequest

\* A look at a node before its command makes its history start again there.
LEMMA LookKeeps ==
  ASSUME IInv, NEW r \in Req, NEW n \in req[r].todo, req[r].ph = "run",
         req[r].op \in {"create", "zero", "zero_here", "mkfs"},
         req[r].op = "mkfs" => use[n] = "none" \/ "users" \in silent[n],
         Look(r, n)
  PROVE  IInv'
<1>1. req[r] \in Requests /\ ReqInv(req[r]) /\ n \in Nodes
  BY DEF IInv, TypeOK, Requests
<1>2. PICK x : x = [req[r] EXCEPT !.cur = n, !.moved = req[r].moved \ {n},
                                  !.blind[n] = silent[n]]
  OBVIOUS
<1>3. x \in Requests
  BY <1>1, <1>2 DEF IInv, TypeOK, Requests
<1>4. /\ x.ph = "run" /\ x.op = req[r].op /\ x.prim = req[r].prim
      /\ x.scope = req[r].scope /\ x.todo = req[r].todo /\ x.cur = n
      /\ x.touched = req[r].touched /\ x.unread = req[r].unread
      /\ x.moved = req[r].moved \ {n} /\ x.ans = req[r].ans
      /\ x.blind[n] = silent[n]
  <2>1. req[r] = [ph |-> req[r].ph, op |-> req[r].op, prim |-> req[r].prim,
                  mode |-> req[r].mode, view |-> req[r].view, scope |-> req[r].scope,
                  todo |-> req[r].todo, cur |-> req[r].cur, touched |-> req[r].touched,
                  unread |-> req[r].unread, moved |-> req[r].moved,
                  blind |-> req[r].blind, ans |-> req[r].ans]
    BY <1>1, RequestFields
  <2>2. [req[r].blind EXCEPT ![n] = silent[n]][n] = silent[n]
    BY <1>1 DEF Requests
  <2> QED
    BY <1>2, <2>1, <2>2
<1>5. Planned(x) /\ Covered(x)
  BY <1>1, <1>4 DEF ReqInv, Planned, Covered
<1>6. Honest(x)
  BY <1>1, <1>4 DEF ReqInv, Honest
<1>7. Cautious(x)
  BY <1>4 DEF Cautious, Harmless, Telling
<1>8. req' = [req EXCEPT ![r] = x] /\ UNCHANGED nodeVars /\ events' \in 0..MaxEvents
  BY <1>2 DEF Look, IInv, TypeOK
<1> QED
  BY <1>3, <1>5, <1>6, <1>7, <1>8, OneRequest DEF ReqInv

-----------------------------------------------------------------------------
(* The handlers of the requests.                                            *)
\* What a dialog is offered: modes, views and never an empty scope.
LEMMA MdPlan ==
  ASSUME TypeOK, NEW op \in MdOps, NEW prim \in Nodes
  PROVE  /\ MdModes(op, prim) \subseteq Modes
         /\ MdView(op, prim) \in [Nodes -> ViewStates]
         /\ MdScope(op, prim, MdView(op, prim)) \in SUBSET Nodes
         /\ MdModes(op, prim) # {} => MdScope(op, prim, MdView(op, prim)) # {}
<1>1. CASE op = "stop"
  <2>1. States \in [Nodes -> ViewStates]
    BY DEF States, NodeState, ViewStates, TypeOK
  <2> QED
    BY <1>1, <2>1 DEF MdModes, MdView, MdScope, StopModes, Modes, In
<1>2. CASE op = "assemble"
  <2>1. States \in [Nodes -> ViewStates]
    BY DEF States, NodeState, ViewStates, TypeOK
  <2> QED
    BY <1>2, <2>1 DEF MdModes, MdView, MdScope, AssembleModes, Modes, In
<1>3. CASE op = "zero"
  <2>1. Participation(prim) \in [Nodes -> ViewStates]
    BY DEF Participation, ViewStates, TypeOK
  <2> QED
    BY <1>3, <2>1 DEF MdModes, MdView, MdScope, CleanupModes, Modes, In
<1>4. CASE op \in {"stop_here", "zero_here"}
  BY <1>4, IdleTyped DEF MdModes, MdView, MdScope, Modes
<1>5. CASE op = "create"
  BY <1>5, IdleTyped, NodesAssumption DEF MdModes, MdView, MdScope, CreateModes, Modes
<1> QED
  BY <1>1, <1>2, <1>3, <1>4, <1>5 DEF MdOps

LEMMA MdShowKeeps ==
  ASSUME IInv, NEW r \in Req, MdShow(r)
  PROVE  IInv'
<1>1. PICK op \in Ops \cap MdOps, prim \in Nodes :
        \E mode \in MdModes(op, prim) :
          Show(r, op, prim, mode, MdView(op, prim), MdScope(op, prim, MdView(op, prim)))
  BY DEF MdShow
<1>2. PICK mode \in MdModes(op, prim) :
        Show(r, op, prim, mode, MdView(op, prim), MdScope(op, prim, MdView(op, prim)))
  BY <1>1
<1>3. PICK view, S : view = MdView(op, prim) /\ S = MdScope(op, prim, view)
  OBVIOUS
<1>4. TypeOK
  BY DEF IInv
<1>5. mode \in Modes /\ view \in [Nodes -> ViewStates] /\ S \in SUBSET Nodes /\ S # {}
  BY <1>2, <1>3, <1>4, MdPlan
<1>6. op = "zero" /\ mode = "symmetric" => S = Nodes
  BY <1>2, <1>3 DEF MdModes, MdView, MdScope, CleanupModes
<1>7. Show(r, op, prim, mode, view, S)
  BY <1>2, <1>3
<1> QED
  BY <1>1, <1>3, <1>5, <1>6, <1>7, ShowKeeps

\* The plan made again when the confirmation arrives runs on the nodes shown.
LEMMA SameScope ==
  ASSUME IInv, NEW r \in Req, req[r].ph = "shown", req[r].op \in MdOps,
         NEW mode \in MdModes(req[r].op, req[r].prim), Accepts(r, mode)
  PROVE  MdScope(req[r].op, req[r].prim, MdView(req[r].op, req[r].prim)) = req[r].scope
<1>1. Planned(req[r])
  BY DEF IInv, ReqInv
<1>2. /\ req[r].scope = MdScope(req[r].op, req[r].prim, req[r].view)
      /\ req[r].op = "zero" /\ req[r].mode = "symmetric" => req[r].scope = Nodes
  BY <1>1 DEF Planned, PlanScope
<1>3. CASE req[r].op \in {"stop_here", "zero_here"}
  BY <1>2, <1>3 DEF MdScope
<1>4. CASE req[r].view = MdView(req[r].op, req[r].prim)
  BY <1>2, <1>4
<1>5. CASE req[r].op = "zero" /\ mode = "symmetric"
  <2>1. In(Participation(req[r].prim), "execute") = Nodes
    BY <1>5 DEF MdModes, CleanupModes
  <2> QED
    BY <1>2, <1>5, <2>1 DEF Accepts, PhraseMatches, MdScope, MdView
<1> QED
  BY <1>3, <1>4, <1>5 DEF Accepts, TokenMatches

LEMMA MdConfirmKeeps ==
  ASSUME IInv, NEW r \in Req, MdConfirm(r)
  PROVE  IInv'
<1>1. PICK mode \in MdModes(req[r].op, req[r].prim) :
        /\ Accepts(r, mode)
        /\ Start(r, MdScope(req[r].op, req[r].prim, MdView(req[r].op, req[r].prim)))
  BY DEF MdConfirm
<1>2. req[r].ph = "shown" /\ req[r].op \in MdOps
  BY DEF MdConfirm
<1>3. MdScope(req[r].op, req[r].prim, MdView(req[r].op, req[r].prim)) = req[r].scope
  BY <1>1, <1>2, SameScope
<1>4. req[r].op = "stop" =>
        \A n \in req[r].scope : use[n] = "none" \/ "users" \in silent[n]
  <2> SUFFICES ASSUME req[r].op = "stop", NEW n \in req[r].scope
               PROVE  use[n] = "none" \/ "users" \in silent[n]
    OBVIOUS
  <2>1. Blocked = {}
    BY <1>1 DEF MdModes, StopModes
  <2>2. n \in In(States, "active")
    BY <1>3 DEF MdScope, MdView
  <2> QED
    BY <2>1, <2>2 DEF Blocked, UsedBy, In, States
<1>5. req[r].op # "vgremove"
  BY <1>2 DEF MdOps
<1> QED
  BY <1>1, <1>2, <1>3, <1>4, <1>5, StartKeeps

LEMMA LvmFsKeeps ==
  ASSUME IInv, NEW r \in Req,
         LvmShow(r) \/ LvmConfirm(r) \/ LvmRefuse(r) \/ FsShow(r) \/ FsConfirm(r) \/ FsRefuse(r)
  PROVE  IInv'
<1>1. ASSUME NEW op \in Ops \cap (LvmOps \cup {"mkfs"}), NEW prim \in Nodes \cup {NoNode},
             Show(r, op, prim, "cluster", Idle.view, Nodes)
      PROVE  IInv'
  <2>1. op \notin MdOps
    BY DEF MdOps, LvmOps
  <2>2. "cluster" \in Modes /\ Nodes # {}
    BY NodesAssumption DEF Modes
  <2>3. op # "zero"
    BY <2>1 DEF MdOps
  <2> QED
    BY <1>1, <2>1, <2>2, <2>3, IdleTyped, ShowKeeps
<1>2. ASSUME req[r].ph = "shown", req[r].op \in LvmOps \cup {"mkfs"}, Start(r, Nodes),
             req[r].op \in LvmOps => LvmPlanOk(req[r].op)
      PROVE  IInv'
  <2>1. req[r].op \notin MdOps /\ req[r].op # "stop"
    BY <1>2 DEF MdOps, LvmOps
  <2>2. req[r].scope = Nodes
    BY <1>2, <2>1 DEF IInv, ReqInv, Planned, PlanScope
  <2>3. req[r].op = "vgremove" => \A n \in Nodes : use[n] = "vg" \/ "lvs" \in silent[n]
    BY <1>2 DEF LvmOps, LvmPlanOk, NodeReady, VgListed, LvListed
  <2> QED
    BY <1>2, <2>1, <2>2, <2>3, StartKeeps
<1>3. ASSUME req[r].ph = "shown", Refused(r)
      PROVE  IInv'
  BY <1>3, RefusedKeeps
<1>4. CASE LvmShow(r)
  BY <1>1, <1>4 DEF LvmShow
<1>5. CASE LvmConfirm(r)
  BY <1>2, <1>5 DEF LvmConfirm
<1>6. CASE LvmRefuse(r)
  BY <1>3, <1>6 DEF LvmRefuse
<1>7. CASE FsShow(r)
  BY <1>1, <1>7 DEF FsShow
<1>8. CASE FsConfirm(r)
  BY <1>2, <1>8 DEF FsConfirm, LvmOps
<1>9. CASE FsRefuse(r)
  BY <1>3, <1>9 DEF FsRefuse
<1> QED
  BY <1>4, <1>5, <1>6, <1>7, <1>8, <1>9

LEMMA MdCommandKeeps ==
  ASSUME IInv, NEW r \in Req, NEW n \in Nodes,
         \/ MdRecheck(r, n) \/ MdDone(r, n) \/ MdFails(r, n) \/ MdTimesOut(r, n) \/ MdCut(r, n)
  PROVE  IInv'
<1>1. NextMd(r, n)
  BY DEF MdRecheck, MdDone, MdFails, MdTimesOut, MdCut, MdReady
<1>2. n \in req[r].todo /\ req[r].ph = "run" /\ up \subseteq Nodes
  BY <1>1 DEF NextMd, IInv, TypeOK
<1>3. CASE MdRecheck(r, n) /\ Look(r, n)
  BY <1>2, <1>3, LookKeeps DEF MdRecheck, Rechecks, Cleans
<1>4. CASE MdRecheck(r, n) /\ ~Look(r, n)
  <2>1. Command(r, n, FALSE, "failed", TRUE) /\ up' = up
    BY <1>4 DEF MdRecheck
  <2> QED
    BY <1>2, <2>1, CommandKeeps
<1>5. CASE MdDone(r, n)
  <2>1. Command(r, n, TRUE, "done", TRUE) /\ up' = up
    BY <1>5 DEF MdDone
  <2> QED
    BY <1>2, <2>1, CommandKeeps
<1>6. CASE MdFails(r, n)
  <2>1. Command(r, n, FALSE, "failed", TRUE) /\ up' = up
    BY <1>6 DEF MdFails
  <2> QED
    BY <1>2, <2>1, CommandKeeps
<1>7. CASE MdTimesOut(r, n)
  <2>1. PICK took \in BOOLEAN : Command(r, n, took, "failed", TRUE)
    BY <1>7 DEF MdTimesOut
  <2>2. up' = up
    BY <1>7 DEF MdTimesOut
  <2> QED
    BY <1>2, <2>1, <2>2, CommandKeeps
<1>8. CASE MdCut(r, n)
  <2>1. PICK took \in BOOLEAN :
          Command(r, n, took, IF Cleans(r) THEN "failed" ELSE "unread", TRUE)
    BY <1>8 DEF MdCut
  <2>2. PICK report \in {"failed", "unread"} : Command(r, n, took, report, TRUE)
    BY <2>1
  <2>3. up' \subseteq Nodes
    BY <1>2, <1>8 DEF MdCut
  <2> QED
    BY <1>2, <2>2, <2>3, CommandKeeps
<1> QED
  BY <1>3, <1>4, <1>5, <1>6, <1>7, <1>8

LEMMA LvmCommandKeeps ==
  ASSUME IInv, NEW r \in Req, NEW n \in Nodes,
         LvmDone(r, n) \/ LvmFails(r, n) \/ LvmTimesOut(r, n) \/ LvmCut(r, n)
  PROVE  IInv'
<1>1. NextLvm(r, n)
  BY DEF LvmDone, LvmFails, LvmTimesOut, LvmCut
<1>2. n \in req[r].todo /\ req[r].ph = "run" /\ up \subseteq Nodes
  BY <1>1 DEF NextLvm, IInv, TypeOK
<1>3. CASE LvmDone(r, n)
  <2>1. Command(r, n, TRUE, "done", FALSE) /\ up' = up
    BY <1>3 DEF LvmDone
  <2> QED
    BY <1>2, <2>1, CommandKeeps
<1>4. CASE LvmFails(r, n)
  <2>1. PICK report \in {"failed", "unread"} : Command(r, n, FALSE, report, FALSE)
    BY <1>4 DEF LvmFails
  <2>2. up' = up
    BY <1>4 DEF LvmFails
  <2> QED
    BY <1>2, <2>1, <2>2, CommandKeeps
<1>5. CASE LvmTimesOut(r, n)
  <2>1. PICK took \in BOOLEAN : Command(r, n, took, "failed", FALSE)
    BY <1>5 DEF LvmTimesOut
  <2>2. up' = up
    BY <1>5 DEF LvmTimesOut
  <2> QED
    BY <1>2, <2>1, <2>2, CommandKeeps
<1>6. CASE LvmCut(r, n)
  <2>1. PICK took \in BOOLEAN, report \in {"failed", "unread"} :
          Command(r, n, took, report, FALSE)
    BY <1>6 DEF LvmCut
  <2>2. up' \subseteq Nodes
    BY <1>2, <1>6 DEF LvmCut
  <2> QED
    BY <1>2, <2>1, <2>2, CommandKeeps
<1> QED
  BY <1>3, <1>4, <1>5, <1>6

LEMMA FsCommandKeeps ==
  ASSUME IInv, NEW r \in Req, NEW n \in Nodes,
         FsRecheck(r, n) \/ FsDone(r, n) \/ FsFails(r, n) \/ FsCut(r, n)
  PROVE  IInv'
<1>1. NextFs(r, n)
  BY DEF FsRecheck, FsDone, FsFails, FsCut, FsReady
<1>2. n \in req[r].todo /\ req[r].ph = "run" /\ up \subseteq Nodes
  BY <1>1 DEF NextFs, IInv, TypeOK
<1>3. CASE FsRecheck(r, n) /\ NodeReady("mkfs", n)
  <2>1. Look(r, n) /\ req[r].op = "mkfs" /\ (use[n] = "none" \/ "users" \in silent[n])
    BY <1>1, <1>3 DEF FsRecheck, NodeReady, UsedBy, NextFs
  <2> QED
    BY <1>2, <2>1, LookKeeps
<1>4. CASE FsRecheck(r, n) /\ ~NodeReady("mkfs", n)
  <2>1. Command(r, n, FALSE, "failed", FALSE) /\ up' = up
    BY <1>4 DEF FsRecheck
  <2> QED
    BY <1>2, <2>1, CommandKeeps
<1>5. CASE FsDone(r, n)
  <2>1. Command(r, n, TRUE, "done", FALSE) /\ up' = up
    BY <1>5 DEF FsDone
  <2> QED
    BY <1>2, <2>1, CommandKeeps
<1>6. CASE FsFails(r, n)
  <2>1. PICK took \in BOOLEAN : Command(r, n, took, "failed", FALSE)
    BY <1>6 DEF FsFails
  <2>2. up' = up
    BY <1>6 DEF FsFails
  <2> QED
    BY <1>2, <2>1, <2>2, CommandKeeps
<1>7. CASE FsCut(r, n)
  <2>1. PICK took \in BOOLEAN, report \in {"failed", "unread"} :
          Command(r, n, took, report, FALSE)
    BY <1>7 DEF FsCut
  <2>2. up' \subseteq Nodes
    BY <1>2, <1>7 DEF FsCut
  <2> QED
    BY <1>2, <2>1, <2>2, CommandKeeps
<1> QED
  BY <1>3, <1>4, <1>5, <1>6, <1>7

\* The clusters and the requests the specification can reach satisfy the invariant.
LEMMA InitInv == Init => IInv
<1> SUFFICES ASSUME Init
             PROVE  IInv
  OBVIOUS
<1>1. TypeOK
  BY IdleTyped, BoundAssumption DEF Init, TypeOK
<1>2. ReqInv(Idle)
  BY DEF Idle, ReqInv, Planned, Fresh, Covered, Honest, Cautious
<1>3. ASSUME NEW r \in Req
      PROVE  req[r] = Idle
  BY DEF Init
<1> QED
  BY <1>1, <1>2, <1>3 DEF IInv

LEMMA NextInv == IInv /\ [Next]_vars => IInv'
<1> SUFFICES ASSUME IInv, [Next]_vars
             PROVE  IInv'
  OBVIOUS
<1>1. TypeOK
  BY DEF IInv
<1>2. CASE UNCHANGED vars
  BY <1>1, <1>2, NodesKept DEF vars, TypeOK
<1>3. CASE \E r \in Req : MdStep(r)
  <2>1. PICK r \in Req : MdStep(r)
    BY <1>3
  <2>2. CASE MdRefuse(r)
    BY <2>2, RefusedKeeps DEF MdRefuse
  <2> QED
    BY <2>1, <2>2, MdShowKeeps, MdConfirmKeeps, MdCommandKeeps DEF MdStep
<1>4. CASE \E r \in Req : LvmStep(r)
  BY <1>4, LvmFsKeeps, LvmCommandKeeps, FsCommandKeeps DEF LvmStep
<1>5. CASE \E r \in Req : Again(r)
  BY <1>5, AgainKeeps
<1>6. CASE \E n \in Nodes : Drop(n) \/ Reconnect(n) \/ SetReadOnly(n) \/ SetWritable(n)
                            \/ Silence(n) \/ Speak(n)
  <2>1. /\ UNCHANGED <<arr, use, req>> /\ up' \subseteq Nodes /\ ro' \subseteq Nodes
        /\ silent' \in [Nodes -> SUBSET Sections]
    BY <1>1, <1>6
       DEF Drop, Reconnect, SetReadOnly, SetWritable, Silence, Speak, TypeOK
  <2>2. events' \in 0..MaxEvents
    BY <1>1, <1>6, BoundAssumption
       DEF Drop, Reconnect, SetReadOnly, SetWritable, Silence, Speak, TypeOK
  <2> QED
    BY <2>1, <2>2, NodesKept
<1> QED
  BY <1>2, <1>3, <1>4, <1>5, <1>6 DEF Next

LEMMA Invariance == Spec => []IInv
  BY InitInv, NextInv, PTL DEF Spec

-----------------------------------------------------------------------------
(* The theorems.                                                            *)
\* The state has its types, for any cluster and any number of requests.
THEOREM TypeCorrect == Spec => []TypeOK
<1>1. IInv => TypeOK
  BY DEF IInv
<1> QED
  BY <1>1, Invariance, PTL

\* A success that executeClusterMdNodes, executeClusterLvmPlan or
\* executeClusterFsCreate answers holds on every node of the plan, unless the
\* exit status was not read there or another request has been there since.
THEOREM HonestReplies == Spec => []ReplyIsHonest
<1>1. IInv => ReplyIsHonest
  BY DEF IInv, ReqInv, Covered, Honest, ReplyIsHonest
<1> QED
  BY <1>1, Invariance, PTL

-----------------------------------------------------------------------------
(* The kinds of steps, for what is said about pairs of states.              *)
Opens(r) == \E op \in Ops, prim \in Nodes \cup {NoNode}, mode \in Modes, view \in [Nodes -> ViewStates] :
              \E S \in (SUBSET Nodes) \ {{}} : Show(r, op, prim, mode, view, S)

Works(r, n) ==
  /\ n \in req[r].todo /\ req[r].ph = "run"
  /\ \E took, b \in BOOLEAN, report \in {"done", "unread", "failed"} :
       /\ report = "done" => took
       /\ took /\ req[r].op = "mkfs" => req[r].cur = n
       /\ Command(r, n, took, report, b)

Kind(r) == \/ Opens(r) \/ Again(r)
           \/ req[r].ph = "shown" /\ (Refused(r) \/ \E S \in SUBSET Nodes : Start(r, S))
           \/ \E n \in Nodes : (req[r].ph = "run" /\ Look(r, n)) \/ Works(r, n)

\* The handlers of a plan and of its confirmation.
LEMMA PlanKinds ==
  ASSUME IInv, NEW r \in Req,
         \/ MdShow(r) \/ MdConfirm(r) \/ MdRefuse(r) \/ Again(r)
         \/ LvmShow(r) \/ LvmConfirm(r) \/ LvmRefuse(r) \/ FsShow(r) \/ FsConfirm(r) \/ FsRefuse(r)
  PROVE  Kind(r)
<1>1. ASSUME MdShow(r)
      PROVE  Opens(r)
  <2>1. PICK op \in Ops \cap MdOps, prim \in Nodes :
          \E mode \in MdModes(op, prim) :
            Show(r, op, prim, mode, MdView(op, prim), MdScope(op, prim, MdView(op, prim)))
    BY <1>1 DEF MdShow
  <2>2. PICK mode \in MdModes(op, prim) :
          Show(r, op, prim, mode, MdView(op, prim), MdScope(op, prim, MdView(op, prim)))
    BY <2>1
  <2>3. PICK view, S : view = MdView(op, prim) /\ S = MdScope(op, prim, view)
    OBVIOUS
  <2>4. mode \in Modes /\ view \in [Nodes -> ViewStates] /\ S \in (SUBSET Nodes) \ {{}}
    BY <2>2, <2>3, MdPlan DEF IInv
  <2>5. Show(r, op, prim, mode, view, S)
    BY <2>2, <2>3
  <2> QED
    BY <2>1, <2>4, <2>5 DEF Opens
<1>2. ASSUME LvmShow(r) \/ FsShow(r)
      PROVE  Opens(r)
  <2>1. PICK op \in Ops, prim \in Nodes \cup {NoNode} :
          Show(r, op, prim, "cluster", Idle.view, Nodes)
    BY <1>2 DEF LvmShow, FsShow
  <2>2. "cluster" \in Modes /\ Nodes \in (SUBSET Nodes) \ {{}}
    BY NodesAssumption DEF Modes
  <2> QED
    BY <2>1, <2>2, IdleTyped DEF Opens
<1>3. ASSUME MdConfirm(r)
      PROVE  req[r].ph = "shown" /\ \E S \in SUBSET Nodes : Start(r, S)
  <2>1. req[r].ph = "shown" /\ req[r].op \in MdOps
        /\ \E mode \in MdModes(req[r].op, req[r].prim) :
             Start(r, MdScope(req[r].op, req[r].prim, MdView(req[r].op, req[r].prim)))
    BY <1>3 DEF MdConfirm
  <2>2. PICK S : S = MdScope(req[r].op, req[r].prim, MdView(req[r].op, req[r].prim))
    OBVIOUS
  <2>3. Start(r, S)
    BY <2>1, <2>2
  <2>4. req[r].prim \in Nodes
    BY <2>1 DEF IInv, ReqInv, Planned
  <2> QED
    BY <2>1, <2>2, <2>3, <2>4, MdPlan DEF IInv
<1>4. ASSUME LvmConfirm(r) \/ FsConfirm(r)
      PROVE  req[r].ph = "shown" /\ Start(r, Nodes)
  BY <1>4 DEF LvmConfirm, FsConfirm
<1>5. ASSUME MdRefuse(r) \/ LvmRefuse(r) \/ FsRefuse(r)
      PROVE  req[r].ph = "shown" /\ Refused(r)
  BY <1>5 DEF MdRefuse, LvmRefuse, FsRefuse
<1> QED
  BY <1>1, <1>2, <1>3, <1>4, <1>5 DEF Kind

\* The handlers of a command.
LEMMA WorkKinds ==
  ASSUME NEW r \in Req, NEW n \in Nodes,
         \/ MdRecheck(r, n) \/ MdDone(r, n) \/ MdFails(r, n) \/ MdTimesOut(r, n) \/ MdCut(r, n)
         \/ LvmDone(r, n) \/ LvmFails(r, n) \/ LvmTimesOut(r, n) \/ LvmCut(r, n)
         \/ FsRecheck(r, n) \/ FsDone(r, n) \/ FsFails(r, n) \/ FsCut(r, n)
  PROVE  Kind(r)
<1>1. CASE NextMd(r, n)
  <2>1. n \in req[r].todo /\ req[r].ph = "run" /\ req[r].op # "mkfs"
        /\ req[r].op \notin LvmOps
    BY <1>1 DEF NextMd, MdOps, LvmOps
  <2>2. \/ Look(r, n)
        \/ \E took, b \in BOOLEAN, report \in {"done", "unread", "failed"} :
             (report = "done" => took) /\ Command(r, n, took, report, b)
    BY <2>1 DEF MdRecheck, MdDone, MdFails, MdTimesOut, MdCut, LvmDone, LvmFails, LvmTimesOut,
                LvmCut, NextLvm, FsRecheck, FsDone, FsFails, FsCut, FsReady, NextFs
  <2> QED
    BY <2>1, <2>2 DEF Kind, Works
<1>2. CASE NextLvm(r, n)
  <2>1. n \in req[r].todo /\ req[r].ph = "run" /\ req[r].op # "mkfs"
        /\ req[r].op \notin MdOps
    BY <1>2 DEF NextLvm, MdOps, LvmOps
  <2>2. \E took, b \in BOOLEAN, report \in {"done", "unread", "failed"} :
          (report = "done" => took) /\ Command(r, n, took, report, b)
    BY <2>1 DEF MdRecheck, MdDone, MdFails, MdTimesOut, MdCut, MdReady, NextMd, LvmDone,
                LvmFails, LvmTimesOut, LvmCut, FsRecheck, FsDone, FsFails, FsCut, FsReady, NextFs
  <2> QED
    BY <2>1, <2>2 DEF Kind, Works
<1>3. CASE NextFs(r, n)
  <2>1. n \in req[r].todo /\ req[r].ph = "run" /\ req[r].op \notin MdOps \cup LvmOps
    BY <1>3 DEF NextFs, MdOps, LvmOps
  <2>2. FsRecheck(r, n) \/ FsDone(r, n) \/ FsFails(r, n) \/ FsCut(r, n)
    BY <2>1 DEF MdRecheck, MdDone, MdFails, MdTimesOut, MdCut, MdReady, NextMd, LvmDone,
                LvmFails, LvmTimesOut, LvmCut, NextLvm
  <2>3. CASE FsRecheck(r, n)
    BY <2>1, <2>3 DEF FsRecheck, Kind, Works
  <2>4. CASE FsDone(r, n) \/ FsFails(r, n) \/ FsCut(r, n)
    <3>1. req[r].cur = n
      BY <2>4 DEF FsDone, FsFails, FsCut, FsReady
    <3>2. \E took, b \in BOOLEAN, report \in {"done", "unread", "failed"} :
            (report = "done" => took) /\ Command(r, n, took, report, b)
      BY <2>4 DEF FsDone, FsFails, FsCut
    <3> QED
      BY <2>1, <3>1, <3>2 DEF Kind, Works
  <2> QED
    BY <2>2, <2>3, <2>4
<1> QED
  BY <1>1, <1>2, <1>3 DEF MdRecheck, MdDone, MdFails, MdTimesOut, MdCut, MdReady, LvmDone,
        LvmFails, LvmTimesOut, LvmCut, FsRecheck, FsDone, FsFails, FsCut, FsReady

\* Every step that changes a request is of one of the kinds.
LEMMA Kinds ==
  ASSUME IInv, [Next]_vars
  PROVE  UNCHANGED req \/ \E r \in Req : Kind(r)
<1>1. CASE UNCHANGED vars
  BY <1>1 DEF vars
<1>2. CASE \E r \in Req : MdStep(r) \/ LvmStep(r) \/ Again(r)
  BY <1>2, PlanKinds, WorkKinds DEF MdStep, LvmStep
<1>3. CASE \E n \in Nodes : Drop(n) \/ Reconnect(n) \/ SetReadOnly(n) \/ SetWritable(n)
                            \/ Silence(n) \/ Speak(n)
  BY <1>3 DEF Drop, Reconnect, SetReadOnly, SetWritable, Silence, Speak
<1> QED
  BY <1>1, <1>2, <1>3 DEF Next

\* What a kind of step leaves of the request it is about.
LEMMA KindFields ==
  ASSUME TypeOK, NEW r \in Req, NEW q, q = req[r]
  PROVE  /\ \A op, prim, mode, view, S : Show(r, op, prim, mode, view, S) =>
              /\ req'[r].ph = "shown" /\ req'[r].scope = S
              /\ req'[r].touched = q.touched /\ req'[r].unread = q.unread
         /\ \A S : Start(r, S) =>
              /\ req'[r].ph = "run" /\ req'[r].scope = q.scope
              /\ req'[r].touched = q.touched /\ req'[r].unread = q.unread
         /\ Refused(r) =>
              /\ req'[r].ph = "end" /\ req'[r].scope = q.scope /\ req'[r].ans = "refused"
              /\ req'[r].touched = q.touched /\ req'[r].unread = q.unread
         /\ \A n : Look(r, n) =>
              /\ req'[r].ph = q.ph /\ req'[r].scope = q.scope /\ req'[r].ans = q.ans
              /\ req'[r].touched = q.touched /\ req'[r].unread = q.unread
         /\ Again(r) => req'[r] = Idle
<1>1. q = [ph |-> q.ph, op |-> q.op, prim |-> q.prim, mode |-> q.mode, view |-> q.view,
           scope |-> q.scope, todo |-> q.todo, cur |-> q.cur, touched |-> q.touched,
           unread |-> q.unread, moved |-> q.moved, blind |-> q.blind, ans |-> q.ans]
  BY RequestFields DEF TypeOK
<1>2. req = [p \in Req |-> req[p]]
  BY DEF TypeOK
<1>3. ASSUME NEW op, NEW prim, NEW mode, NEW view, NEW S, Show(r, op, prim, mode, view, S)
      PROVE  /\ req'[r].ph = "shown" /\ req'[r].scope = S
             /\ req'[r].touched = q.touched /\ req'[r].unread = q.unread
  <2>1. req'[r] = [q EXCEPT !.ph = "shown", !.op = op, !.prim = prim, !.mode = mode,
                            !.view = view, !.scope = S]
    BY <1>2, <1>3 DEF Show
  <2> QED
    BY <1>1, <2>1
<1>4. ASSUME NEW S, Start(r, S)
      PROVE  /\ req'[r].ph = "run" /\ req'[r].scope = q.scope
             /\ req'[r].touched = q.touched /\ req'[r].unread = q.unread
  <2>1. req'[r] = [q EXCEPT !.ph = "run", !.todo = S, !.mode = "none", !.blind = silent]
    BY <1>2, <1>4 DEF Start
  <2> QED
    BY <1>1, <2>1
<1>5. ASSUME Refused(r)
      PROVE  /\ req'[r].ph = "end" /\ req'[r].scope = q.scope /\ req'[r].ans = "refused"
             /\ req'[r].touched = q.touched /\ req'[r].unread = q.unread
  <2>1. req'[r] = [q EXCEPT !.ph = "end", !.ans = "refused", !.mode = "none",
                            !.view = Idle.view]
    BY <1>2, <1>5 DEF Refused
  <2> QED
    BY <1>1, <2>1
<1>6. ASSUME NEW n, Look(r, n)
      PROVE  /\ req'[r].ph = q.ph /\ req'[r].scope = q.scope /\ req'[r].ans = q.ans
             /\ req'[r].touched = q.touched /\ req'[r].unread = q.unread
  <2>1. req'[r] = [q EXCEPT !.cur = n, !.moved = q.moved \ {n}, !.blind[n] = silent[n]]
    BY <1>2, <1>6 DEF Look
  <2> QED
    BY <1>1, <2>1
<1>7. Again(r) => req'[r] = Idle
  BY <1>2 DEF Again
<1> QED
  BY <1>3, <1>4, <1>5, <1>6, <1>7

\* And of the requests of the others.
LEMMA KindOthers ==
  ASSUME TypeOK, NEW r \in Req, NEW q \in Req, q # r, Kind(r)
  PROVE  /\ req'[q].ph = req[q].ph /\ req'[q].scope = req[q].scope
         /\ req'[q].touched = req[q].touched /\ req'[q].unread = req[q].unread
         /\ req'[q].ans = req[q].ans
<1>1. req = [p \in Req |-> req[p]]
  BY DEF TypeOK
<1>2. ASSUME NEW n \in Nodes, Works(r, n)
      PROVE  /\ req'[q].ph = req[q].ph /\ req'[q].scope = req[q].scope
             /\ req'[q].touched = req[q].touched /\ req'[q].unread = req[q].unread
             /\ req'[q].ans = req[q].ans
  <2>1. PICK took, b \in BOOLEAN, report \in {"done", "unread", "failed"} :
          Command(r, n, took, report, b)
    BY <1>2 DEF Works
  <2> QED
    BY <2>1, OthersMove
<1>3. CASE ~\E n \in Nodes : Works(r, n)
  <2>1. \E x : req' = [req EXCEPT ![r] = x]
    BY <1>3 DEF Kind, Opens, Show, Again, Refused, Start, Look
  <2> QED
    BY <1>1, <2>1
<1> QED
  BY <1>2, <1>3

\* What the command of a request leaves of it.
LEMMA WorkFields ==
  ASSUME IInv, NEW r \in Req, NEW n \in Nodes, Works(r, n)
  PROVE  \E T, U \in {{}, {n}} :
           /\ req'[r].touched = req[r].touched \cup T
           /\ req'[r].unread = req[r].unread \cup U
           /\ req'[r].scope = req[r].scope /\ n \in req[r].scope
           /\ \/ req'[r].ph = "run"
              \/ req'[r].ph = "end" /\ req'[r].ans = "failed"
              \/ /\ req'[r].ph = "end" /\ req'[r].ans = "ok"
                 /\ req'[r].scope \subseteq req'[r].touched \cup req'[r].unread
           /\ T = {n} => /\ Allowed(req[r].op, n)
                         /\ req[r].op = "mkfs" => req[r].cur = n
<1>1. PICK took \in BOOLEAN, b \in BOOLEAN, report \in {"done", "unread", "failed"} :
        /\ report = "done" => took
        /\ took /\ req[r].op = "mkfs" => req[r].cur = n
        /\ Command(r, n, took, report, b)
  BY DEF Works
<1>2. n \in req[r].todo /\ req[r].ph = "run"
  BY DEF Works
<1>3. ReqInv(req[r]) /\ TypeOK /\ req[r] \in Requests
  BY DEF IInv, TypeOK
<1>4. Covered(req[r])'
  BY <1>1, <1>2, OwnKept DEF ReqInv
<1>5. PICK x : x = req'[r]
  OBVIOUS
<1>6. x = Reported(r, n, took, report, b)
  BY <1>1, <1>5 DEF Command
<1>7. /\ x.touched = IF took THEN req[r].touched \cup {n} ELSE req[r].touched
      /\ x.unread = IF report = "unread" THEN req[r].unread \cup {n} ELSE req[r].unread
      /\ x.scope = req[r].scope
      /\ x.ph \in {"run", "end"}
      /\ x.ans = "refused" => req[r].ans = "refused"
  <2>1. req[r] = [ph |-> req[r].ph, op |-> req[r].op, prim |-> req[r].prim,
                  mode |-> req[r].mode, view |-> req[r].view, scope |-> req[r].scope,
                  todo |-> req[r].todo, cur |-> req[r].cur, touched |-> req[r].touched,
                  unread |-> req[r].unread, moved |-> req[r].moved,
                  blind |-> req[r].blind, ans |-> req[r].ans]
    BY <1>3, RequestFields
  <2> QED
    BY <1>6, <2>1 DEF Reported
<1>8. n \in req[r].scope /\ req[r].ans # "refused"
  BY <1>2, <1>3 DEF ReqInv, Covered
<1>9. \/ x.ph = "run"
      \/ x.ph = "end" /\ x.ans = "failed"
      \/ x.ph = "end" /\ x.ans = "ok" /\ x.scope \subseteq x.touched \cup x.unread
  BY <1>4, <1>5, <1>7, <1>8 DEF Covered
<1>10. PICK T \in {{}, {n}}, U \in {{}, {n}} :
         /\ T = IF took THEN {n} ELSE {}
         /\ U = IF report = "unread" THEN {n} ELSE {}
  BY Zenon
<1>11. x.touched = req[r].touched \cup T /\ x.unread = req[r].unread \cup U
  BY <1>7, <1>10
<1>12. T = {n} => Allowed(req[r].op, n) /\ (req[r].op = "mkfs" => req[r].cur = n)
  BY <1>1, <1>10 DEF Command
<1> QED
  BY <1>5, <1>7, <1>8, <1>9, <1>11, <1>12

\* An array in use is never stopped, a volume group with a volume never removed
\* and nothing overwritten by mkfs, but on a node that somebody else has changed
\* since the last look of the request, or whose inventory then missed the one part
\* that tells (the volumes for vgremove, the users of the array for the others):
\* a failing tool and a cut connection read as a node that has none.
THEOREM UseSurvives == Spec => KnownUseSurvives
<1>1. ASSUME IInv, [Next]_vars, NEW r \in Req, NEW n \in Nodes, Loses(r, n)
      PROVE  n \in req[r].moved \/ Telling(req[r].op) \in req[r].blind[n]
  <2>1. PICK s \in Req : Kind(s)
    BY <1>1, Kinds DEF Loses
  <2>2. TypeOK /\ Cautious(req[r])
    BY <1>1 DEF IInv, ReqInv
  <2>3. s = r
    BY <1>1, <2>1, <2>2, KindOthers DEF Loses
  <2>4. PICK m \in Nodes : Works(r, m)
    <3>1. Idle.touched = {}
      BY DEF Idle
    <3> QED
      BY <1>1, <2>1, <2>2, <2>3, <3>1, KindFields DEF Kind, Opens, Loses
  <2>5. PICK T \in {{}, {m}} :
          /\ req'[r].touched = req[r].touched \cup T
          /\ T = {m} => /\ Allowed(req[r].op, m)
                        /\ req[r].op = "mkfs" => req[r].cur = m
    BY <1>1, <2>4, WorkFields
  <2>6. m = n /\ T = {m}
    BY <1>1, <2>5 DEF Loses
  <2>7. /\ n \in req[r].todo /\ req[r].ph = "run"
        /\ req[r].op = "mkfs" => req[r].cur = n
        /\ n # NoNode
    BY <2>4, <2>5, <2>6, NodesAssumption DEF Works
  <2>8. /\ use[n] # "none" /\ (req[r].op = "vgremove" => use[n] = "lv")
        /\ req[r].op \in {"stop", "vgremove", "mkfs"}
    BY <1>1 DEF Loses
  <2>9. CASE req[r].op = "mkfs"
    <3>1. n \in {req[r].cur} \ req[r].moved => Harmless(req[r], n)
      BY <2>2, <2>7, <2>9 DEF Cautious
    <3> QED
      BY <2>7, <2>8, <2>9, <3>1 DEF Harmless
  <2>10. CASE req[r].op \in {"stop", "vgremove"}
    <3>1. n \in req[r].todo \ req[r].moved => Harmless(req[r], n)
      BY <2>2, <2>7, <2>10 DEF Cautious
    <3> QED
      BY <2>7, <2>8, <2>10, <3>1 DEF Harmless
  <2> QED
    BY <2>8, <2>9, <2>10
<1>2. IInv /\ [Next]_vars =>
        [\A r \in Req, n \in Nodes : Loses(r, n) =>
           \/ n \in req[r].moved
           \/ Telling(req[r].op) \in req[r].blind[n]]_vars
  BY <1>1
<1> QED
  BY <1>2, Invariance, PTL DEF Spec, KnownUseSurvives

\* Whatever an interrupted stop, assembly or clean-up has left, the assessments of
\* raid-cluster-md-node-state.ts offer a mode that reaches every node left behind.
THEOREM WayOn == Spec => []Recoverable
<1>1. ASSUME TypeOK, up = Nodes, NEW n \in Nodes,
             In(States, "active") # {}, Blocked = {}
      PROVE  Offers("stop", n, "active")
  BY <1>1 DEF Offers, MdModes, StopModes, MdScope, MdView
<1>2. ASSUME TypeOK, up = Nodes, NEW n \in Nodes, In(States, "stopped") # {}
      PROVE  Offers("assemble", n, "stopped")
  BY <1>2 DEF Offers, MdModes, AssembleModes, MdScope, MdView
<1>3. ASSUME TypeOK, up = Nodes, NEW n \in Nodes, In(States, "stopped") # {}
      PROVE  Offers("zero", n, "stopped")
  <2>1. In(Participation(n), "execute") = In(States, "stopped")
    <3>1. ASSUME NEW m \in Nodes
          PROVE  Participation(n)[m] = "execute" <=> States[m] = "stopped"
      BY <1>3 DEF Participation, States, NodeState, TypeOK
    <3> QED
      BY <3>1 DEF In
  <2> QED
    BY <1>3, <2>1 DEF Offers, MdModes, CleanupModes, MdScope, MdView
<1>4. TypeOK => Recoverable
  BY <1>1, <1>2, <1>3 DEF Recoverable
<1> QED
  BY <1>4, TypeCorrect, PTL

-----------------------------------------------------------------------------
(* The refinement.                                                          *)
\* The state of ConfirmedChange, as the state of the requests.
absPhase == [r \in Req |-> Phase(req[r].ph)]
absScope == [r \in Req |-> req[r].scope]
absTouched == [r \in Req |-> req[r].touched]
absUnread == [r \in Req |-> req[r].unread]
absAnswer == [r \in Req |-> IF req[r].ph = "end" THEN req[r].ans ELSE "none"]

\* A step about one request changes the abstract state of this request only.
LEMMA Mapped ==
  ASSUME NEW r \in Req, NEW ph, NEW S, NEW T, NEW U, NEW a,
         /\ ph = Phase(req'[r].ph) /\ S = req'[r].scope /\ T = req'[r].touched
         /\ U = req'[r].unread /\ a = IF req'[r].ph = "end" THEN req'[r].ans ELSE "none",
         \A q \in Req : q # r =>
           /\ req'[q].ph = req[q].ph /\ req'[q].scope = req[q].scope
           /\ req'[q].touched = req[q].touched /\ req'[q].unread = req[q].unread
           /\ req'[q].ans = req[q].ans
  PROVE  /\ absPhase' = [absPhase EXCEPT ![r] = ph]
         /\ absScope' = [absScope EXCEPT ![r] = S]
         /\ absTouched' = [absTouched EXCEPT ![r] = T]
         /\ absUnread' = [absUnread EXCEPT ![r] = U]
         /\ absAnswer' = [absAnswer EXCEPT ![r] = a]
  BY DEF absPhase, absScope, absTouched, absUnread, absAnswer

LEMMA InitMaps == Init => CC!Init
<1> SUFFICES ASSUME Init
             PROVE  CC!Init
  OBVIOUS
<1>1. ASSUME NEW r \in Req
      PROVE  /\ Phase(req[r].ph) = "idle" /\ req[r].scope = {} /\ req[r].touched = {}
             /\ req[r].unread = {} /\ req[r].ph # "end"
  BY DEF Init, Idle, Phase
<1> QED
  BY <1>1 DEF CC!Init

LEMMA StepMaps == IInv /\ [Next]_vars => [CC!Next]_CC!vars
<1> SUFFICES ASSUME IInv, [Next]_vars
             PROVE  [CC!Next]_CC!vars
  OBVIOUS
<1>1. CASE UNCHANGED req
  BY <1>1 DEF CC!vars
<1>2. CASE \E r \in Req : Kind(r)
  <2>1. PICK r \in Req : Kind(r)
    BY <1>2
  <2>2. TypeOK /\ Planned(req[r]) /\ Covered(req[r])
    BY DEF IInv, ReqInv
  <2>3. PICK ph, S, T, U, a :
          /\ ph = Phase(req'[r].ph) /\ S = req'[r].scope /\ T = req'[r].touched
          /\ U = req'[r].unread /\ a = IF req'[r].ph = "end" THEN req'[r].ans ELSE "none"
    OBVIOUS
  <2>4. /\ absPhase' = [absPhase EXCEPT ![r] = ph]
        /\ absScope' = [absScope EXCEPT ![r] = S]
        /\ absTouched' = [absTouched EXCEPT ![r] = T]
        /\ absUnread' = [absUnread EXCEPT ![r] = U]
        /\ absAnswer' = [absAnswer EXCEPT ![r] = a]
    BY <2>1, <2>2, <2>3, KindOthers, Mapped
  <2>5. /\ absPhase = [absPhase EXCEPT ![r] = Phase(req[r].ph)]
        /\ absScope = [absScope EXCEPT ![r] = req[r].scope]
        /\ absTouched = [absTouched EXCEPT ![r] = req[r].touched]
        /\ absUnread = [absUnread EXCEPT ![r] = req[r].unread]
        /\ absAnswer = [absAnswer EXCEPT ![r] = IF req[r].ph = "end" THEN req[r].ans ELSE "none"]
    BY DEF absPhase, absScope, absTouched, absUnread, absAnswer
  <2>6. /\ absPhase[r] = Phase(req[r].ph) /\ absScope[r] = req[r].scope
        /\ absTouched[r] = req[r].touched /\ absUnread[r] = req[r].unread
    BY DEF absPhase, absScope, absTouched, absUnread
  <2>7. CASE Opens(r)
    <3>1. /\ req[r].ph = "idle" /\ req'[r].ph = "shown"
          /\ S \in (SUBSET Nodes) \ {{}} /\ T = req[r].touched /\ U = req[r].unread
      <4>1. PICK op, prim, mode, view, Z :
              Z \in (SUBSET Nodes) \ {{}} /\ Show(r, op, prim, mode, view, Z)
        BY <2>7 DEF Opens
      <4>2. req[r].ph = "idle"
        BY <4>1 DEF Show
      <4>3. /\ req'[r].ph = "shown" /\ req'[r].scope = Z
            /\ req'[r].touched = req[r].touched /\ req'[r].unread = req[r].unread
        BY <2>2, <4>1, KindFields
      <4> QED
        BY <2>3, <4>1, <4>2, <4>3
    <3>2. ph = "shown" /\ a = "none" /\ absPhase[r] = "idle"
      BY <2>3, <2>6, <3>1 DEF Phase
    <3>3. UNCHANGED <<absTouched, absUnread, absAnswer>>
      BY <2>4, <2>5, <3>1, <3>2
    <3>4. CC!Show(r)
      BY <2>4, <3>1, <3>2, <3>3
         DEF CC!Show, absPhase, absScope, absTouched, absUnread, absAnswer
    <3> QED
      BY <3>4 DEF CC!Next
  <2>8. CASE req[r].ph = "shown" /\ \E Z \in SUBSET Nodes : Start(r, Z)
    <3>1. /\ req'[r].ph = "run" /\ S = req[r].scope
          /\ T = req[r].touched /\ U = req[r].unread
      BY <2>2, <2>3, <2>8, KindFields
    <3>2. ph = "open" /\ a = "none" /\ absPhase[r] = "shown"
      BY <2>3, <2>6, <2>8, <3>1 DEF Phase
    <3>3. UNCHANGED <<absScope, absTouched, absUnread, absAnswer>>
      BY <2>4, <2>5, <2>8, <3>1, <3>2
    <3>4. CC!Confirm(r)
      BY <2>4, <3>2, <3>3 DEF CC!Confirm, absPhase, absScope, absTouched, absUnread, absAnswer
    <3> QED
      BY <3>4 DEF CC!Next
  <2>9. CASE req[r].ph = "shown" /\ Refused(r)
    <3>1. /\ req'[r].ph = "end" /\ S = req[r].scope /\ req'[r].ans = "refused"
          /\ T = req[r].touched /\ U = req[r].unread
      BY <2>2, <2>3, <2>9, KindFields
    <3>2. ph = "closed" /\ a = "refused" /\ absPhase[r] = "shown"
      BY <2>3, <2>6, <2>9, <3>1 DEF Phase
    <3>3. UNCHANGED <<absScope, absTouched, absUnread>>
      BY <2>4, <2>5, <3>1
    <3>4. CC!Refuse(r)
      BY <2>4, <3>2, <3>3 DEF CC!Refuse, absPhase, absScope, absTouched, absUnread, absAnswer
    <3> QED
      BY <3>4 DEF CC!Next
  <2>10. CASE Again(r)
    <3>1. req'[r] = Idle /\ req[r].ph \in {"shown", "end"}
      BY <2>2, <2>10, KindFields DEF Again
    <3>2. /\ ph = "idle" /\ S = {} /\ T = {} /\ U = {} /\ a = "none"
          /\ absPhase[r] \in {"shown", "closed"}
      BY <2>3, <2>6, <3>1 DEF Idle, Phase
    <3>3. CC!Again(r)
      BY <2>4, <3>2 DEF CC!Again, absPhase, absScope, absTouched, absUnread, absAnswer
    <3> QED
      BY <3>3 DEF CC!Next
  <2>11. CASE req[r].ph = "run" /\ \E n \in Nodes : Look(r, n)
    <3>1. /\ req'[r].ph = "run" /\ S = req[r].scope
          /\ T = req[r].touched /\ U = req[r].unread
      BY <2>2, <2>3, <2>11, KindFields
    <3>2. ph = Phase(req[r].ph) /\ a = "none"
      BY <2>3, <2>11, <3>1
    <3>3. UNCHANGED <<absPhase, absScope, absTouched, absUnread, absAnswer>>
      BY <2>4, <2>5, <2>11, <3>1, <3>2
    <3> QED
      BY <3>3 DEF CC!vars, absPhase, absScope, absTouched, absUnread, absAnswer
  <2>12. CASE \E n \in Nodes : Works(r, n)
    <3>1. PICK n \in Nodes : Works(r, n)
      BY <2>12
    <3>2. PICK T1 \in {{}, {n}}, U1 \in {{}, {n}} :
            /\ T = req[r].touched \cup T1 /\ U = req[r].unread \cup U1
            /\ S = req[r].scope /\ n \in req[r].scope
            /\ \/ req'[r].ph = "run"
               \/ req'[r].ph = "end" /\ req'[r].ans = "failed"
               \/ /\ req'[r].ph = "end" /\ req'[r].ans = "ok"
                  /\ S \subseteq T \cup U
      BY <2>3, <3>1, WorkFields
    <3>3. req[r].ph = "run" /\ absPhase[r] = "open"
      BY <2>6, <3>1 DEF Works, Phase
    <3>4. UNCHANGED absScope
      BY <2>4, <2>5, <3>2
    <3>5. absTouched' = [absTouched EXCEPT ![r] = @ \cup T1]
          /\ absUnread' = [absUnread EXCEPT ![r] = @ \cup U1]
      BY <2>4, <2>6, <3>2
    <3>6. \/ UNCHANGED <<absPhase, absAnswer>>
          \/ /\ absPhase' = [absPhase EXCEPT ![r] = "closed"]
             /\ \/ absAnswer' = [absAnswer EXCEPT ![r] = "failed"]
                \/ /\ absScope[r] \subseteq absTouched'[r] \cup absUnread'[r]
                   /\ absAnswer' = [absAnswer EXCEPT ![r] = "ok"]
      <4>1. CASE req'[r].ph = "run"
        <5>1. ph = Phase(req[r].ph) /\ a = "none"
          BY <2>3, <3>3, <4>1
        <5> QED
          BY <2>4, <2>5, <3>3, <5>1
      <4>2. CASE req'[r].ph = "end"
        <5>1. ph = "closed" /\ a = req'[r].ans
          BY <2>3, <4>2 DEF Phase
        <5>2. absTouched'[r] = T /\ absUnread'[r] = U
          BY <2>3 DEF absTouched, absUnread
        <5> QED
          BY <2>4, <2>6, <3>2, <4>2, <5>1, <5>2
      <4> QED
        BY <3>2, <4>1, <4>2
    <3>7. n \in absScope[r]
      BY <2>6, <3>2
    <3>8. CC!Work(r)
      <4>1. \E m \in absScope[r] : \E T2, U2 \in {{}, {m}} :
              /\ absTouched' = [absTouched EXCEPT ![r] = @ \cup T2]
              /\ absUnread' = [absUnread EXCEPT ![r] = @ \cup U2]
        BY <3>2, <3>5, <3>7
      <4> QED
        BY <3>3, <3>4, <3>6, <4>1, Zenon
           DEF CC!Work, absPhase, absScope, absTouched, absUnread, absAnswer
    <3> QED
      BY <3>8 DEF CC!Next
  <2> QED
    BY <2>1, <2>7, <2>8, <2>9, <2>10, <2>11, <2>12 DEF Kind
<1> QED
  BY <1>1, <1>2, Kinds

\* Whatever the operation and the cluster, a request keeps to ConfirmedChange: it
\* reaches only the nodes that its confirmed plan has shown, and a success covers
\* all of them.
THEOREM Refinement == Spec => ImplementsConfirmedChange
  BY InitMaps, StepMaps, Invariance, PTL DEF Spec, ImplementsConfirmedChange, CC!Spec
=============================================================================
