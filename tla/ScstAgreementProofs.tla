------------------------ MODULE ScstAgreementProofs ------------------------
(***************************************************************************)
(* Proofs that the nodes of a cluster agree after requests that succeed,    *)
(* for any nodes, names, paths and faults. Two requests that are seen by    *)
(* the nodes in different orders commute; so does any number of requests    *)
(* none of which removes what another adds.                                *)
(***************************************************************************)
EXTENDS ScstConfigProofs

-----------------------------------------------------------------------------
(* What a mutator that has a cluster route adds to the lists of a           *)
(* configuration, and what it removes from them.                            *)

AddsGroups(o) == IF o.kind = "createGroup" THEN {<<o.t, o.g>>} ELSE {}
DelsGroups(o) == IF o.kind = "deleteGroup" THEN {<<o.t, o.g>>} ELSE {}

AddsInis(o) == IF o.kind = "addInitiator" THEN {<<o.t, o.g, o.i>>} ELSE {}
DelsInis(o) ==
  {i \in Tgt \X Grp \X Ini :
     \/ o.kind = "deleteGroup" /\ i[1] = o.t /\ i[2] = o.g
     \/ o.kind = "removeInitiator" /\ i = <<o.t, o.g, o.i>>}

AddsLuns(o) == IF o.kind = "addLun" THEN {<<o.t, o.g, o.l, o.d>>} ELSE {}
DelsLuns(o) ==
  {l \in Tgt \X Grp \X LunId \X Dev :
     /\ o.kind \in {"deleteGroup", "removeLun"} /\ l[1] = o.t /\ l[2] = o.g
     /\ o.kind = "removeLun" => l[3] = o.l}

AddsDevs(o) == IF o.kind = "createDevice" THEN {<<o.h, o.d, o.f>>} ELSE {}
AddsAlua(o) == IF o.kind = "alua" THEN {o.a} ELSE {}

\* The configuration c after o.
Changed(o, c) ==
  [tgts |-> c.tgts, off |-> c.off,
   grps |-> (c.grps \cup AddsGroups(o)) \ DelsGroups(o),
   inis |-> (c.inis \cup AddsInis(o)) \ DelsInis(o),
   luns |-> (c.luns \cup AddsLuns(o)) \ DelsLuns(o),
   devs |-> c.devs \cup AddsDevs(o),
   alua |-> c.alua \cup AddsAlua(o)]

\* What a mutator with a cluster route writes is determined by what it read.
LEMMA Effect ==
  ASSUME NEW o \in Operation, o.kind \in ClusterKind, NEW c \in Config, NEW x \in Results(o, c)
  PROVE  x = Changed(o, c)
  <1>1. /\ c = [tgts |-> c.tgts, off |-> c.off, grps |-> c.grps, inis |-> c.inis,
                luns |-> c.luns, devs |-> c.devs, alua |-> c.alua]
        /\ c.grps \subseteq Tgt \X Grp /\ c.inis \subseteq Tgt \X Grp \X Ini
        /\ c.luns \subseteq Tgt \X Grp \X LunId \X Dev
    BY ConfigFields
  <1>2. CASE o.kind = "createGroup"
    <2>1. x = [c EXCEPT !.grps = c.grps \cup {<<o.t, o.g>>}]
      BY <1>2 DEF Results, CreateGroup
    <2>2. /\ AddsGroups(o) = {<<o.t, o.g>>} /\ DelsGroups(o) = {} /\ AddsInis(o) = {}
          /\ DelsInis(o) = {} /\ AddsLuns(o) = {} /\ DelsLuns(o) = {}
          /\ AddsDevs(o) = {} /\ AddsAlua(o) = {}
      BY <1>2 DEF AddsGroups, DelsGroups, AddsInis, DelsInis, AddsLuns, DelsLuns,
                  AddsDevs, AddsAlua
    <2> QED BY <1>1, <2>1, <2>2 DEF Changed
  <1>3. CASE o.kind = "deleteGroup"
    <2>1. x = [c EXCEPT !.grps = c.grps \ {<<o.t, o.g>>}, !.inis = c.inis \ InGroup(o, c.inis),
                        !.luns = c.luns \ InGroup(o, c.luns)]
      BY <1>3 DEF Results, DeleteGroup
    <2>2. /\ AddsGroups(o) = {} /\ DelsGroups(o) = {<<o.t, o.g>>} /\ AddsInis(o) = {}
          /\ AddsLuns(o) = {} /\ AddsDevs(o) = {} /\ AddsAlua(o) = {}
      BY <1>3 DEF AddsGroups, DelsGroups, AddsInis, AddsLuns, AddsDevs, AddsAlua
    <2>3. c.inis \ InGroup(o, c.inis) = c.inis \ DelsInis(o)
      BY <1>1, <1>3 DEF InGroup, DelsInis
    <2>4. c.luns \ InGroup(o, c.luns) = c.luns \ DelsLuns(o)
      BY <1>1, <1>3 DEF InGroup, DelsLuns
    <2> QED BY <1>1, <2>1, <2>2, <2>3, <2>4 DEF Changed
  <1>4. CASE o.kind = "addInitiator"
    <2>1. x = [c EXCEPT !.inis = c.inis \cup {<<o.t, o.g, o.i>>}]
      BY <1>4 DEF Results, AddInitiator
    <2>2. /\ AddsGroups(o) = {} /\ DelsGroups(o) = {} /\ AddsInis(o) = {<<o.t, o.g, o.i>>}
          /\ DelsInis(o) = {} /\ AddsLuns(o) = {} /\ DelsLuns(o) = {}
          /\ AddsDevs(o) = {} /\ AddsAlua(o) = {}
      BY <1>4 DEF AddsGroups, DelsGroups, AddsInis, DelsInis, AddsLuns, DelsLuns,
                  AddsDevs, AddsAlua
    <2> QED BY <1>1, <2>1, <2>2 DEF Changed
  <1>5. CASE o.kind = "removeInitiator"
    <2>1. x = [c EXCEPT !.inis = c.inis \ {<<o.t, o.g, o.i>>}]
      BY <1>5 DEF Results, RemoveInitiator
    <2>2. /\ AddsGroups(o) = {} /\ DelsGroups(o) = {} /\ AddsInis(o) = {}
          /\ AddsLuns(o) = {} /\ DelsLuns(o) = {} /\ AddsDevs(o) = {} /\ AddsAlua(o) = {}
      BY <1>5 DEF AddsGroups, DelsGroups, AddsInis, AddsLuns, DelsLuns, AddsDevs, AddsAlua
    <2>3. c.inis \ {<<o.t, o.g, o.i>>} = c.inis \ DelsInis(o)
      BY <1>1, <1>5 DEF DelsInis
    <2> QED BY <1>1, <2>1, <2>2, <2>3 DEF Changed
  <1>6. CASE o.kind = "addLun"
    <2>1. x = [c EXCEPT !.luns = c.luns \cup {<<o.t, o.g, o.l, o.d>>}]
      BY <1>6 DEF Results, AddLun
    <2>2. /\ AddsGroups(o) = {} /\ DelsGroups(o) = {} /\ AddsInis(o) = {} /\ DelsInis(o) = {}
          /\ AddsLuns(o) = {<<o.t, o.g, o.l, o.d>>} /\ DelsLuns(o) = {}
          /\ AddsDevs(o) = {} /\ AddsAlua(o) = {}
      BY <1>6 DEF AddsGroups, DelsGroups, AddsInis, DelsInis, AddsLuns, DelsLuns,
                  AddsDevs, AddsAlua
    <2> QED BY <1>1, <2>1, <2>2 DEF Changed
  <1>7. CASE o.kind = "removeLun"
    <2> DEFINE L == {l \in c.luns : ~(l[1] = o.t /\ l[2] = o.g /\ l[3] = o.l)}
    <2>1. x = [c EXCEPT !.luns = L]
      BY <1>7 DEF Results, RemoveLun
    <2>2. /\ AddsGroups(o) = {} /\ DelsGroups(o) = {} /\ AddsInis(o) = {} /\ DelsInis(o) = {}
          /\ AddsLuns(o) = {} /\ AddsDevs(o) = {} /\ AddsAlua(o) = {}
      BY <1>7 DEF AddsGroups, DelsGroups, AddsInis, DelsInis, AddsLuns, AddsDevs, AddsAlua
    <2>3. L = c.luns \ DelsLuns(o)
      BY <1>1, <1>7 DEF DelsLuns
    <2> QED BY <1>1, <2>1, <2>2, <2>3 DEF Changed
  <1>8. CASE o.kind = "createDevice"
    <2>1. x = [c EXCEPT !.devs = c.devs \cup {<<o.h, o.d, o.f>>}]
      BY <1>8 DEF Results, CreateDevice
    <2>2. /\ AddsGroups(o) = {} /\ DelsGroups(o) = {} /\ AddsInis(o) = {} /\ DelsInis(o) = {}
          /\ AddsLuns(o) = {} /\ DelsLuns(o) = {} /\ AddsDevs(o) = {<<o.h, o.d, o.f>>}
          /\ AddsAlua(o) = {}
      BY <1>8 DEF AddsGroups, DelsGroups, AddsInis, DelsInis, AddsLuns, DelsLuns,
                  AddsDevs, AddsAlua
    <2> QED BY <1>1, <2>1, <2>2 DEF Changed
  <1>9. CASE o.kind = "alua"
    <2>1. x = [c EXCEPT !.alua = c.alua \cup {o.a}]
      BY <1>9 DEF Results, UpsertDeviceGroup
    <2>2. /\ AddsGroups(o) = {} /\ DelsGroups(o) = {} /\ AddsInis(o) = {} /\ DelsInis(o) = {}
          /\ AddsLuns(o) = {} /\ DelsLuns(o) = {} /\ AddsDevs(o) = {} /\ AddsAlua(o) = {o.a}
      BY <1>9 DEF AddsGroups, DelsGroups, AddsInis, DelsInis, AddsLuns, DelsLuns,
                  AddsDevs, AddsAlua
    <2> QED BY <1>1, <2>1, <2>2 DEF Changed
  <1> QED BY <1>2, <1>3, <1>4, <1>5, <1>6, <1>7, <1>8, <1>9 DEF ClusterKind

\* When a succeeds before and after b, and b before a, then b does not remove what a adds.
LEMMA NoClash ==
  ASSUME NEW a \in Operation, NEW b \in Operation,
         a.kind \in ClusterKind, b.kind \in ClusterKind, NEW c \in Config,
         Results(a, c) # {}, NEW u \in Results(b, c), Results(a, u) # {}
  PROVE  /\ AddsGroups(a) \cap DelsGroups(b) = {}
         /\ AddsInis(a) \cap DelsInis(b) = {}
         /\ AddsLuns(a) \cap DelsLuns(b) = {}
  <1>1. u.grps = (c.grps \cup AddsGroups(b)) \ DelsGroups(b)
    BY Effect DEF Changed
  <1>2. AddsGroups(a) \cap DelsGroups(b) = {}
    <2> SUFFICES ASSUME a.kind = "createGroup", b.kind = "deleteGroup",
                        <<a.t, a.g>> = <<b.t, b.g>>
                 PROVE  FALSE
      BY DEF AddsGroups, DelsGroups
    <2>1. <<a.t, a.g>> \notin c.grps
      BY DEF Results, CreateGroup
    <2>2. <<b.t, b.g>> \in c.grps
      BY DEF Results, DeleteGroup
    <2> QED BY <2>1, <2>2
  <1>3. AddsInis(a) \cap DelsInis(b) = {}
    <2> DEFINE e == <<a.t, a.g, a.i>>
    <2> SUFFICES ASSUME a.kind = "addInitiator", e \in DelsInis(b) PROVE FALSE
      BY DEF AddsInis
    <2>1. /\ <<a.t, a.g>> \in u.grps
          /\ \A i \in c.inis : i[1] = a.t => i[3] # a.i
      BY DEF Results, AddInitiator
    <2>2. CASE b.kind = "deleteGroup"
      <3>1. <<a.t, a.g>> = <<b.t, b.g>>
        BY <2>2 DEF DelsInis
      <3> QED BY <1>1, <2>1, <2>2, <3>1 DEF DelsGroups
    <2>3. CASE b.kind = "removeInitiator"
      <3>1. e = <<b.t, b.g, b.i>>
        BY <2>3 DEF DelsInis
      <3>2. <<b.t, b.g, b.i>> \in c.inis
        BY <2>3 DEF Results, RemoveInitiator
      <3>3. e[1] = a.t /\ e[3] = a.i
        OBVIOUS
      <3> QED BY <2>1, <3>1, <3>2, <3>3
    <2> QED BY <2>2, <2>3 DEF DelsInis
  <1>4. AddsLuns(a) \cap DelsLuns(b) = {}
    <2> DEFINE e == <<a.t, a.g, a.l, a.d>>
    <2> SUFFICES ASSUME a.kind = "addLun", e \in DelsLuns(b) PROVE FALSE
      BY DEF AddsLuns
    <2>1. /\ <<a.t, a.g>> \in u.grps
          /\ \A l \in c.luns : l[1] = a.t => l[3] # a.l /\ l[4] # a.d
      BY DEF Results, AddLun
    <2>2. /\ b.kind \in {"deleteGroup", "removeLun"} /\ a.t = b.t /\ a.g = b.g
          /\ b.kind = "removeLun" => a.l = b.l
      BY DEF DelsLuns
    <2>3. CASE b.kind = "deleteGroup"
      BY <1>1, <2>1, <2>2, <2>3 DEF DelsGroups
    <2>4. CASE b.kind = "removeLun"
      <3>1. \E l \in c.luns : l[1] = b.t /\ l[2] = b.g /\ l[3] = b.l
        BY <2>4 DEF Results, RemoveLun
      <3> QED BY <2>1, <2>2, <2>4, <3>1
    <2> QED BY <2>2, <2>3, <2>4
  <1> QED BY <1>2, <1>3, <1>4

\* Mutators that succeed in both orders commute.
LEMMA Commute ==
  ASSUME NEW a \in Operation, NEW b \in Operation,
         a.kind \in ClusterKind, b.kind \in ClusterKind,
         NEW c \in Config, WellFormed(c),
         NEW x \in Results(a, c), NEW y \in Results(b, x),
         NEW u \in Results(b, c), NEW v \in Results(a, u)
  PROVE  y = v
  <1>1. x \in Config /\ u \in Config
    BY ResultsOK
  <1>2. y = Changed(b, Changed(a, c)) /\ v = Changed(a, Changed(b, c))
    BY <1>1, Effect
  <1>3. /\ AddsGroups(a) \cap DelsGroups(b) = {} /\ AddsGroups(b) \cap DelsGroups(a) = {}
        /\ AddsInis(a) \cap DelsInis(b) = {} /\ AddsInis(b) \cap DelsInis(a) = {}
        /\ AddsLuns(a) \cap DelsLuns(b) = {} /\ AddsLuns(b) \cap DelsLuns(a) = {}
    BY NoClash
  <1>4. \A S, A, B, D, E : A \cap E = {} /\ B \cap D = {}
          => (((S \cup A) \ D) \cup B) \ E = (((S \cup B) \ E) \cup A) \ D
    OBVIOUS
  <1>5. \A S, A, B : (S \cup A) \cup B = (S \cup B) \cup A
    OBVIOUS
  <1> QED BY <1>2, <1>3, <1>4, <1>5 DEF Changed

-----------------------------------------------------------------------------
(* Where the requests are.                                                  *)

\* Several nodes are addressed through the cluster routes only.
Routed(r) == phase[r] # "idle" /\ Len(path[r]) > 1 => op[r].kind \in ClusterKind

\* The nodes whose file was replaced are behind the place of the request.
Behind(r) ==
  /\ phase[r] \in {"plan", "planned"} => wrote[r] = {}
  /\ \A i \in 1..Len(path[r]) :
       path[r][i] \in wrote[r] =>
         phase[r] = "done" \/ i < at[r] \/ (i = at[r] /\ phase[r] = "reload")

AInv == IInv /\ \A r \in Req : Routed(r) /\ Behind(r)

\* A step of r that replaces the file of its node by what r was to write.
Replaces(r) ==
  /\ phase[r] = "write"
  /\ file' = [file EXCEPT ![Here(r)] = Content(r)]
  /\ wrote' = [wrote EXCEPT ![r] = wrote[r] \cup {Here(r)}]
  /\ missed' = missed /\ op' = op /\ path' = path
  /\ phase'[r] # "idle"

\* A step that leaves the files alone.
Quiet ==
  /\ file' = file /\ wrote' = wrote /\ missed' = missed
  /\ \A q \in Req : phase[q] # "idle" => op'[q] = op[q] /\ path'[q] = path[q]

\* What the step of a request may do to the others, and to itself.
Moves(r) ==
  /\ \A q \in Req \ {r} : /\ phase'[q] = phase[q] /\ op'[q] = op[q] /\ path'[q] = path[q]
                          /\ at'[q] = at[q]
  /\ phase[r] # "done"
  /\ phase'[r] # "idle"
  /\ stale \subseteq stale'
  /\ \/ Replaces(r)
     \/ Quiet
     \/ /\ \E q \in Req : missed'[q] # {}
        /\ \A q \in Req : missed[q] \subseteq missed'[q]
        /\ wrote' = wrote /\ op' = op /\ path' = path

LEMMA BeginMoves ==
  ASSUME IInv, NEW r \in Req, Begin(r)
  PROVE  Moves(r) /\ phase[r] = "idle" /\ phase'[r] \in {"read", "plan"} /\ Quiet
         /\ at'[r] = 1 /\ Routed(r)'
  <1>1. TypeOK /\ phase[r] = "idle"
    BY DEF IInv, Begin
  <1>2. PICK o \in Op, p \in Path :
          /\ Len(p) > 1 => o.kind \in ClusterKind
          /\ op' = [op EXCEPT ![r] = o]
          /\ path' = [path EXCEPT ![r] = p]
          /\ phase' = [phase EXCEPT ![r] = IF o.kind = "alua" THEN "plan" ELSE "read"]
    BY DEF Begin
  <1>3. /\ DOMAIN op = Req /\ DOMAIN path = Req /\ DOMAIN phase = Req /\ DOMAIN at = Req
    BY <1>1 DEF TypeOK
  <1>4. at' = [at EXCEPT ![r] = 1] /\ file' = file /\ wrote' = wrote /\ missed' = missed
        /\ stale' = stale
    BY DEF Begin
  <1>5. op'[r] = o /\ path'[r] = p /\ phase'[r] \in {"read", "plan"} /\ at'[r] = 1
    BY <1>2, <1>3, <1>4
  <1>6. \A q \in Req \ {r} : /\ phase'[q] = phase[q] /\ op'[q] = op[q] /\ path'[q] = path[q]
                             /\ at'[q] = at[q]
    BY <1>2, <1>3, <1>4
  <1>7. Quiet
    BY <1>1, <1>4, <1>6 DEF Quiet
  <1>8. Routed(r)'
    BY <1>2, <1>5 DEF Routed
  <1> QED BY <1>1, <1>4, <1>5, <1>6, <1>7, <1>8 DEF Moves

\* The steps of a request that began.
LEMMA StepMoves ==
  ASSUME IInv, NEW r \in Req,
         Skip(r) \/ Read(r) \/ PlanNode(r) \/ Execute(r) \/ Write(r) \/ Reload(r)
  PROVE  /\ Moves(r) /\ phase[r] # "idle" /\ op' = op /\ path' = path
         /\ phase[r] = "planned" => phase'[r] \in {"write", "done"}
         /\ phase'[r] = "planned" => phase[r] = "plan"
         /\ phase'[r] = "plan" => phase[r] = "plan"
         /\ \/ at'[r] = at[r] /\ (phase'[r] = "reload" => phase[r] = "write")
            \/ at'[r] = at[r] + 1 /\ phase'[r] # "reload"
            \/ phase'[r] = "done"
  <1>1. TypeOK /\ Started(r) /\ phase \in [Req -> Phase]
    BY DEF IInv, RInv, TypeOK
  <1>2. phase[r] \notin {"idle", "done"}
    BY DEF Skip, Read, PlanNode, Execute, Write, Reload
  <1>3. ASSUME NEW d, NEW f \in BOOLEAN, Advance(r, d, f)
        PROVE  /\ \A q \in Req \ {r} : /\ phase'[q] = phase[q] /\ op'[q] = op[q]
                                       /\ path'[q] = path[q] /\ at'[q] = at[q]
               /\ phase'[r] \in {"read", "write", "done"} /\ op' = op /\ path' = path
               /\ at'[r] = at[r] + 1 \/ phase'[r] = "done"
    BY <1>1, <1>2, <1>3, AdvanceSteps
  <1>4. CASE Skip(r)
    <2>1. Quiet
      BY <1>3, <1>4 DEF Skip, NodeFailed, Quiet
    <2> QED BY <1>2, <1>3, <1>4, <2>1 DEF Skip, NodeFailed, Moves
  <1>5. CASE Read(r)
    <2>1. file' = file /\ wrote' = wrote /\ missed' = missed /\ stale \subseteq stale'
          /\ phase[r] = "read"
      BY <1>5 DEF Read
    <2>2. CASE /\ phase' = [phase EXCEPT ![r] = "write"]
               /\ UNCHANGED <<at, ran, reply, op, path, plan>>
      <3>1. phase'[r] = "write" /\ \A q \in Req \ {r} : phase'[q] = phase[q]
        BY <1>1, <2>2
      <3> QED BY <1>2, <2>1, <2>2, <3>1 DEF Moves, Quiet
    <2>3. CASE NodeFailed(r)
      BY <1>2, <1>3, <2>1, <2>3 DEF NodeFailed, Moves, Quiet
    <2> QED BY <1>5, <2>2, <2>3 DEF Read
  <1>6. CASE PlanNode(r)
    <2>1. file' = file /\ wrote' = wrote /\ missed' = missed /\ stale \subseteq stale'
          /\ op' = op /\ path' = path /\ at' = at /\ phase[r] = "plan"
      BY <1>6 DEF PlanNode
    <2>2. \E p \in {"plan", "planned", "done"} : phase' = [phase EXCEPT ![r] = p]
      BY <1>6 DEF PlanNode
    <2>3. phase'[r] \in {"plan", "planned", "done"} /\ \A q \in Req \ {r} : phase'[q] = phase[q]
      BY <1>1, <2>2
    <2> QED BY <1>2, <2>1, <2>3 DEF Moves, Quiet
  <1>7. CASE Execute(r)
    <2>1. file' = file /\ wrote' = wrote /\ missed' = missed /\ stale' = stale
          /\ op' = op /\ path' = path /\ at' = at /\ phase[r] = "planned"
      BY <1>7 DEF Execute
    <2>2. \E p \in {"write", "done"} : phase' = [phase EXCEPT ![r] = p]
      BY <1>7 DEF Execute
    <2>3. phase'[r] \in {"write", "done"} /\ \A q \in Req \ {r} : phase'[q] = phase[q]
      BY <1>1, <2>2
    <2> QED BY <1>2, <2>1, <2>3 DEF Moves, Quiet
  <1>8. CASE Write(r)
    <2>1. phase[r] = "write"
      BY <1>8 DEF Write
    <2>2. /\ \A q \in Req \ {r} : /\ phase'[q] = phase[q] /\ op'[q] = op[q]
                                  /\ path'[q] = path[q] /\ at'[q] = at[q]
          /\ phase'[r] \in {"reload", "read", "write", "done"} /\ op' = op /\ path' = path
          /\ \/ at'[r] = at[r] /\ phase'[r] = "reload"
             \/ at'[r] = at[r] + 1 /\ phase'[r] # "reload"
             \/ phase'[r] = "done"
      <3>1. CASE phase' = [phase EXCEPT ![r] = "reload"] /\ UNCHANGED <<op, path, at>>
        BY <1>1, <3>1
      <3>2. CASE NodeFailed(r)
        BY <1>3, <3>2 DEF NodeFailed
      <3> QED BY <1>8, <3>1, <3>2 DEF Write
    <2>3. stale \subseteq stale'
      BY <1>8 DEF Write, WriteWhole, WritePart, Replace
    <2>4. \/ /\ file' = [file EXCEPT ![Here(r)] = Content(r)]
             /\ wrote' = [wrote EXCEPT ![r] = wrote[r] \cup {Here(r)}] /\ missed' = missed
          \/ missed' = [missed EXCEPT ![r] = missed[r] \cup {Here(r)}] /\ wrote' = wrote
          \/ file' = file /\ wrote' = wrote /\ missed' = missed
      BY <1>8 DEF Write, WriteWhole, WritePart, Replace
    <2>5. \/ Replaces(r) \/ Quiet
          \/ /\ \E q \in Req : missed'[q] # {}
             /\ \A q \in Req : missed[q] \subseteq missed'[q]
             /\ wrote' = wrote
      <3>1. missed \in [Req -> SUBSET Node]
        BY <1>1 DEF TypeOK
      <3> QED BY <2>1, <2>2, <2>4, <3>1 DEF Replaces, Quiet
    <2> QED BY <1>2, <2>1, <2>2, <2>3, <2>5 DEF Moves
  <1>9. CASE Reload(r)
    <2>1. \E d, f : f \in BOOLEAN /\ Advance(r, d, f)
      BY <1>9 DEF Reload, NodeFailed, NodeDone
    <2>2. file' = file /\ wrote' = wrote /\ missed' = missed /\ stale' = stale
      BY <1>9 DEF Reload
    <2> QED BY <1>2, <1>3, <1>9, <2>1, <2>2 DEF Moves, Quiet, Reload
  <1> QED BY <1>4, <1>5, <1>6, <1>7, <1>8, <1>9

\* A request that takes no step stays where it is.
LEMMA PlaceStays ==
  ASSUME NEW q \in Req, Routed(q), Behind(q), phase'[q] = phase[q], op'[q] = op[q],
         path'[q] = path[q], at'[q] = at[q], wrote'[q] = wrote[q]
  PROVE  Routed(q)' /\ Behind(q)'
  BY DEF Routed, Behind

LEMMA OthersWrote ==
  ASSUME IInv, NEW r \in Req, Moves(r), NEW q \in Req \ {r}
  PROVE  wrote'[q] = wrote[q]
  BY DEF IInv, TypeOK, Moves, Replaces, Quiet

LEMMA PlacesKept == AInv /\ [Next]_vars => AInv'
  <1> SUFFICES ASSUME AInv, [Next]_vars PROVE AInv'
    OBVIOUS
  <1>1. IInv /\ IInv'
    BY NextOK DEF AInv
  <1>2. ASSUME NEW r \in Req, Moves(r), Routed(r)', Behind(r)' PROVE AInv'
    <2>1. ASSUME NEW q \in Req \ {r} PROVE Routed(q)' /\ Behind(q)'
      BY <1>1, <1>2, PlaceStays, OthersWrote DEF AInv, Moves
    <2> QED BY <1>1, <1>2, <2>1 DEF AInv
  <1>3. ASSUME NEW r \in Req, Begin(r) PROVE AInv'
    <2>1. Moves(r) /\ phase[r] = "idle" /\ Quiet /\ Routed(r)'
      BY <1>1, <1>3, BeginMoves
    <2>2. wrote'[r] = {}
      BY <1>1, <2>1 DEF IInv, RInv, Fresh, Quiet
    <2> QED BY <1>2, <2>1, <2>2 DEF Behind
  <1>4. ASSUME NEW r \in Req,
               Skip(r) \/ Read(r) \/ PlanNode(r) \/ Execute(r) \/ Write(r) \/ Reload(r)
        PROVE  AInv'
    <2>1. /\ Moves(r) /\ phase[r] # "idle" /\ op' = op /\ path' = path
          /\ phase[r] = "planned" => phase'[r] \in {"write", "done"}
          /\ phase'[r] = "planned" => phase[r] = "plan"
          /\ phase'[r] = "plan" => phase[r] = "plan"
          /\ \/ at'[r] = at[r] /\ (phase'[r] = "reload" => phase[r] = "write")
             \/ at'[r] = at[r] + 1 /\ phase'[r] # "reload"
             \/ phase'[r] = "done"
      BY <1>1, <1>4, StepMoves
    <2>2. Routed(r) /\ Behind(r) /\ TypeOK /\ Started(r)
      BY DEF AInv, IInv, RInv
    <2>3. /\ at[r] \in 1..Len(path[r]) /\ Len(path[r]) \in Nat
          /\ \A i, j \in 1..Len(path[r]) : path[r][i] = path[r][j] => i = j
      BY <2>1, <2>2, Place
    <2>4. Routed(r)'
      BY <2>1, <2>2 DEF Routed
    <2>5. \/ wrote'[r] = wrote[r]
          \/ phase[r] = "write" /\ wrote'[r] = wrote[r] \cup {Here(r)}
      BY <2>1, <2>2 DEF Moves, Replaces, Quiet, TypeOK
    <2>6. phase[r] = "write" /\ phase'[r] # "done"
          => phase'[r] = "reload" \/ at'[r] = at[r] + 1
      <3> SUFFICES ASSUME phase[r] = "write", phase'[r] # "done"
                   PROVE  phase'[r] = "reload" \/ at'[r] = at[r] + 1
        OBVIOUS
      <3>1. CASE phase' = [phase EXCEPT ![r] = "reload"]
        BY <2>2, <3>1 DEF TypeOK
      <3>2. CASE NodeFailed(r)
        BY <2>1, <2>2, <3>2, AdvanceSteps DEF NodeFailed
      <3>3. CASE Skip(r)
        BY <3>2, <3>3 DEF Skip
      <3>4. CASE Write(r)
        BY <3>1, <3>2, <3>4 DEF Write
      <3> QED BY <1>4, <3>3, <3>4 DEF Read, PlanNode, Execute, Reload
    <2>7. Behind(r)'
      <3>1. phase'[r] \in {"plan", "planned"} => wrote'[r] = {}
        BY <2>1, <2>2, <2>5 DEF Behind
      <3>2. ASSUME NEW i \in 1..Len(path[r]), path[r][i] \in wrote'[r], phase'[r] # "done"
            PROVE  i < at'[r] \/ (i = at'[r] /\ phase'[r] = "reload")
        <4>1. CASE path[r][i] \in wrote[r]
          <5>1. i < at[r] \/ (i = at[r] /\ phase[r] = "reload")
            BY <2>1, <2>2, <4>1 DEF Behind, Moves
          <5>2. phase[r] = "reload" => phase'[r] = "done" \/ at'[r] = at[r] + 1
            BY <1>4, <2>2, AdvanceSteps, <2>1
               DEF Skip, Read, PlanNode, Execute, Write, Reload, NodeFailed, NodeDone
          <5> QED BY <2>1, <2>3, <3>2, <5>1, <5>2
        <4>2. CASE path[r][i] \notin wrote[r]
          <5>1. phase[r] = "write" /\ i = at[r]
            BY <2>3, <2>5, <3>2, <4>2 DEF Here
          <5> QED BY <2>1, <2>3, <2>6, <3>2, <5>1
        <4> QED BY <4>1, <4>2
      <3> QED BY <2>1, <3>1, <3>2 DEF Behind
    <2> QED BY <1>2, <2>1, <2>4, <2>7
  <1>5. CASE UNCHANGED vars
    <2>1. ASSUME NEW q \in Req PROVE Routed(q)' /\ Behind(q)'
      BY <1>5, PlaceStays DEF AInv, vars
    <2> QED BY <1>1, <2>1 DEF AInv
  <1> QED BY <1>3, <1>4, <1>5 DEF Next

LEMMA InitPlaces == Init => AInv
  <1> SUFFICES ASSUME Init PROVE AInv
    OBVIOUS
  <1>1. ASSUME NEW r \in Req PROVE Routed(r) /\ Behind(r)
    BY DEF Init, Routed, Behind
  <1> QED BY InitOK, <1>1 DEF AInv

-----------------------------------------------------------------------------
(* Two requests.                                                            *)

\* No file was replaced behind the back of a reader, no write was missed, and every
\* request so far addresses all the nodes.
Clean ==
  /\ stale = {}
  /\ \A r \in Req : missed[r] = {} /\ (phase[r] # "idle" => Nodes(r) = Node)

\* What a step does to the files when things are clean after it.
LEMMA CleanStep ==
  ASSUME AInv, [Next]_vars, Clean'
  PROVE  /\ Clean
         /\ \A q \in Req : phase[q] # "idle" => phase'[q] # "idle" /\ op'[q] = op[q]
         /\ Quiet \/ \E r \in Req : Replaces(r)
  <1>1. IInv /\ TypeOK
    BY DEF AInv, IInv
  <1>2. CASE UNCHANGED vars
    <2>1. \A q \in Req : Nodes(q)' = Nodes(q)
      BY <1>2 DEF Nodes, vars
    <2> QED BY <1>2, <2>1 DEF Clean, Quiet, vars
  <1>3. CASE \E r \in Req : Moves(r)
    <2>1. PICK r \in Req : Moves(r)
      BY <1>3
    <2>2. \A q \in Req : missed[q] \subseteq missed'[q]
      BY <2>1 DEF Moves, Replaces, Quiet
    <2>3. Quiet \/ Replaces(r)
      BY <2>1 DEF Moves, Clean
    <2>4. ASSUME NEW q \in Req, phase[q] # "idle"
          PROVE  phase'[q] # "idle" /\ op'[q] = op[q] /\ path'[q] = path[q]
      BY <2>1, <2>3, <2>4 DEF Moves, Replaces, Quiet
    <2>5. ASSUME NEW q \in Req PROVE missed[q] = {} /\ (phase[q] # "idle" => Nodes(q) = Node)
      BY <2>2, <2>4 DEF Clean, Nodes
    <2>6. stale = {}
      BY <2>1 DEF Moves, Clean
    <2> QED BY <2>3, <2>4, <2>5, <2>6 DEF Clean
  <1> QED BY <1>1, <1>2, <1>3, BeginMoves, StepMoves DEF Next

\* What is written then is the result of the mutator on the file that is replaced,
\* and the node is written for the first time.
LEMMA CleanWrite ==
  ASSUME AInv, NEW r \in Req, Replaces(r), stale = {}
  PROVE  /\ phase[r] # "idle" /\ Here(r) \in Node \ wrote[r]
         /\ file'[Here(r)] \in Results(op[r], file[Here(r)])
         /\ \A n \in Node \ {Here(r)} : file'[n] = file[n]
         /\ wrote'[r] = wrote[r] \cup {Here(r)}
         /\ \A q \in Req \ {r} : wrote'[q] = wrote[q]
         /\ op' = op
  <1>1. /\ TypeOK /\ Started(r) /\ Planned(r) /\ Pending(r) /\ Behind(r)
        /\ phase[r] = "write"
    BY DEF AInv, IInv, RInv, Replaces
  <1>2. at[r] \in 1..Len(path[r]) /\ Len(path[r]) \in Nat /\ Here(r) \in Node
        /\ Here(r) \in Nodes(r)
    BY <1>1, Place
  <1>3. Here(r) \notin wrote[r]
    BY <1>1, <1>2 DEF Behind, Here
  <1>4. Content(r) \in Results(op[r], file[Here(r)])
    <2>1. CASE op[r].kind # "alua"
      BY <1>1, <2>1 DEF Content, Pending
    <2>2. CASE op[r].kind = "alua"
      <3>1. path[r][at[r]] \in DOMAIN plan[r] /\ at[r] >= at[r]
        BY <1>1, <1>2, <2>2 DEF Planned, Here
      <3>2. plan[r][path[r][at[r]]] \in Results(op[r], file[path[r][at[r]]])
        BY <1>1, <1>2, <3>1 DEF Pending
      <3> QED BY <2>2, <3>2 DEF Content, Here
    <2> QED BY <2>1, <2>2
  <1>5. /\ file'[Here(r)] = Content(r) /\ \A n \in Node \ {Here(r)} : file'[n] = file[n]
        /\ wrote'[r] = wrote[r] \cup {Here(r)} /\ \A q \in Req \ {r} : wrote'[q] = wrote[q]
        /\ op' = op
    BY <1>1, <1>2 DEF Replaces, TypeOK
  <1> QED BY <1>1, <1>2, <1>3, <1>4, <1>5

\* Only a and b began.
Only(a, b) == \A s \in Req : phase[s] # "idle" => s \in {a, b}

\* c is what o and then p make of the configuration every node starts with.
InTurn(o, p, c) == \E x \in Results(o, InitConfig) : c \in Results(p, x)

\* What the file of node n has been through.
History(a, b, n) ==
  /\ n \notin wrote[a] \cup wrote[b] => file[n] = InitConfig
  /\ n \in wrote[a] /\ (a = b \/ n \notin wrote[b]) => file[n] \in Results(op[a], InitConfig)
  /\ n \in wrote[b] /\ n \notin wrote[a] => file[n] \in Results(op[b], InitConfig)
  /\ a # b /\ n \in wrote[a] \cap wrote[b] =>
       InTurn(op[a], op[b], file[n]) \/ InTurn(op[b], op[a], file[n])

PairInv ==
  AInv /\ \A a, b \in Req : Clean /\ Only(a, b) => \A n \in Node : History(a, b, n)

LEMMA HistoryKept ==
  ASSUME AInv, Clean, NEW a \in Req, NEW b \in Req, NEW n \in Node, History(a, b, n),
         Replaces(a)
  PROVE  History(a, b, n)' /\ History(b, a, n)'
  <1>1. /\ Here(a) \in Node \ wrote[a]
        /\ file'[Here(a)] \in Results(op[a], file[Here(a)])
        /\ \A m \in Node \ {Here(a)} : file'[m] = file[m]
        /\ wrote'[a] = wrote[a] \cup {Here(a)}
        /\ \A q \in Req \ {a} : wrote'[q] = wrote[q]
        /\ op' = op
    BY CleanWrite DEF Clean
  <1>2. CASE n # Here(a)
    BY <1>1, <1>2 DEF History
  <1>3. CASE n = Here(a) /\ (a = b \/ n \notin wrote[b])
    <2>1. file'[n] \in Results(op[a], InitConfig)
      BY <1>1, <1>3 DEF History
    <2> QED BY <1>1, <1>3, <2>1 DEF History
  <1>4. CASE n = Here(a) /\ a # b /\ n \in wrote[b]
    <2>1. InTurn(op[b], op[a], file'[n])
      BY <1>1, <1>4 DEF History, InTurn
    <2> QED BY <1>1, <1>4, <2>1 DEF History
  <1> QED BY <1>2, <1>3, <1>4

LEMMA PairKept == PairInv /\ [Next]_vars => PairInv'
  <1> SUFFICES ASSUME PairInv, [Next]_vars, NEW a \in Req, NEW b \in Req, Clean', Only(a, b)',
                      NEW n \in Node
               PROVE  History(a, b, n)'
    BY PlacesKept DEF PairInv
  <1>1. AInv
    BY DEF PairInv
  <1>2. /\ Clean
        /\ \A q \in Req : phase[q] # "idle" => phase'[q] # "idle" /\ op'[q] = op[q]
        /\ Quiet \/ \E r \in Req : Replaces(r)
    BY <1>1, CleanStep
  <1>3. Only(a, b) /\ Only(b, a)
    BY <1>2 DEF Only
  <1>4. History(a, b, n) /\ History(b, a, n)
    BY <1>2, <1>3 DEF PairInv
  <1>5. CASE Quiet
    <2>1. \A q \in Req : phase[q] = "idle" => wrote[q] = {}
      BY <1>1 DEF AInv, IInv, RInv, Fresh
    <2>2. \A q \in Req : n \in wrote[q] => op'[q] = op[q]
      BY <1>2, <2>1
    <2> QED BY <1>4, <1>5, <2>2 DEF Quiet, History
  <1>6. CASE \E r \in Req : Replaces(r)
    <2>1. PICK r \in Req : Replaces(r)
      BY <1>6
    <2>2. r \in {a, b}
      BY <1>3, <2>1 DEF Only, Replaces
    <2> QED BY <1>1, <1>2, <1>4, <2>1, <2>2, HistoryKept
  <1> QED BY <1>2, <1>5, <1>6

LEMMA Pairs == Spec => []PairInv
  <1>1. Init => PairInv
    BY InitPlaces DEF Init, PairInv, History
  <1> QED BY <1>1, PairKept, PTL DEF Spec

\* A request that succeeded without a missed write has written every node; when
\* there are several, its mutator is one with a cluster route.
LEMMA Succeeded ==
  ASSUME AInv, NEW r \in Req, phase[r] # "idle",
         reply[r] = "ok", Nodes(r) = Node, missed[r] = {}
  PROVE  /\ wrote[r] = Node /\ op[r] \in Operation
         /\ \A m, n \in Node : m # n => op[r].kind \in ClusterKind
  <1>1. TypeOK /\ Started(r) /\ Counted(r) /\ Routed(r)
    BY DEF AInv, IInv, RInv
  <1>2. wrote[r] = Node /\ op[r] \in Operation
    BY <1>1, OpAssumption DEF Counted, Started
  <1>3. ASSUME NEW m \in Node, NEW n \in Node, m # n PROVE op[r].kind \in ClusterKind
    <2>1. PICK i \in 1..Len(path[r]), j \in 1..Len(path[r]) : path[r][i] = m /\ path[r][j] = n
      BY DEF Nodes
    <2>2. i # j /\ Len(path[r]) \in Nat
      BY <1>1, <1>3, <2>1, Place
    <2> QED BY <1>1, <2>1, <2>2 DEF Routed
  <1> QED BY <1>2, <1>3

\* What two mutators with a cluster route make of the first configuration does not
\* depend on the node, nor on the order.
LEMMA SameInTurn ==
  ASSUME NEW a \in Operation, NEW b \in Operation,
         a.kind \in ClusterKind, b.kind \in ClusterKind, NEW c, NEW d,
         InTurn(a, b, c) \/ InTurn(b, a, c), InTurn(a, b, d) \/ InTurn(b, a, d)
  PROVE  c = d
  <1>1. ASSUME NEW o \in Operation, NEW p \in Operation, o.kind \in ClusterKind,
               p.kind \in ClusterKind, NEW e, NEW f, InTurn(o, p, e), InTurn(o, p, f)
        PROVE  e = f
    <2>1. PICK x \in Results(o, InitConfig), y \in Results(o, InitConfig) :
            e \in Results(p, x) /\ f \in Results(p, y)
      BY <1>1 DEF InTurn
    <2>2. x \in Config /\ x = y
      BY <1>1, ConfigAssumption, InitAssumption, ResultsOK, Effect
    <2> QED BY <1>1, <2>1, <2>2, Effect
  <1>2. ASSUME NEW o \in Operation, NEW p \in Operation, o.kind \in ClusterKind,
               p.kind \in ClusterKind, NEW e, NEW f, InTurn(o, p, e), InTurn(p, o, f)
        PROVE  e = f
    <2>1. PICK x \in Results(o, InitConfig), u \in Results(p, InitConfig) :
            e \in Results(p, x) /\ f \in Results(o, u)
      BY <1>2 DEF InTurn
    <2> QED BY <1>2, <2>1, ConfigAssumption, InitAssumption, Commute
  <1> QED BY <1>1, <1>2

\* Two requests to the whole cluster, of any kind and with any interleaving of
\* their reads and writes on its nodes, leave every node with the same scst.conf
\* when both succeed and none replaced what the other had read.
THEOREM SuccessesAgree == Spec => []ClusterAgreement
  <1>1. PairInv => ClusterAgreement
    <2> SUFFICES ASSUME PairInv, AllSucceeded, AtMostTwo, NEW m \in Node, NEW n \in Node, m # n
                 PROVE  file[m] = file[n]
      BY DEF ClusterAgreement, NodesAgree
    <2>1. PICK a \in Req, b \in Req : Only(a, b)
      BY DEF AtMostTwo, Only
    <2>2. AInv
      BY DEF PairInv
    <2>3. \A r \in Req : phase[r] = "idle" => wrote[r] = {} /\ missed[r] = {}
      BY <2>2 DEF AInv, IInv, RInv, Fresh
    <2>4. Clean
      BY <2>3 DEF AllSucceeded, Clean
    <2>5. History(a, b, m) /\ History(a, b, n)
      BY <2>1, <2>4 DEF PairInv
    <2>6. ASSUME NEW r \in Req, wrote[r] # {}
          PROVE  wrote[r] = Node /\ op[r] \in Operation /\ op[r].kind \in ClusterKind
      BY <2>2, <2>3, <2>6, Succeeded DEF AllSucceeded
    <2>7. ASSUME NEW o \in Operation, o.kind \in ClusterKind,
                 NEW c \in Results(o, InitConfig), NEW d \in Results(o, InitConfig)
          PROVE  c = d
      BY <2>7, ConfigAssumption, Effect
    <2>8. CASE wrote[a] = {} /\ wrote[b] = {}
      BY <2>5, <2>8 DEF History
    <2>9. CASE wrote[a] # {} /\ (a = b \/ wrote[b] = {})
      BY <2>5, <2>6, <2>7, <2>9 DEF History
    <2>10. CASE wrote[a] = {} /\ wrote[b] # {}
      BY <2>5, <2>6, <2>7, <2>10 DEF History
    <2>11. CASE wrote[a] # {} /\ wrote[b] # {} /\ a # b
      BY <2>5, <2>6, <2>11, SameInTurn DEF History
    <2> QED BY <2>8, <2>9, <2>10, <2>11
  <1> QED BY Pairs, <1>1, PTL

-----------------------------------------------------------------------------
(* Any number of requests.                                                  *)

Lists == {"grps", "inis", "luns", "devs", "alua"}

Adds(o) == [grps |-> AddsGroups(o), inis |-> AddsInis(o), luns |-> AddsLuns(o),
            devs |-> AddsDevs(o), alua |-> AddsAlua(o)]

Dels(o) == [grps |-> DelsGroups(o), inis |-> DelsInis(o), luns |-> DelsLuns(o),
            devs |-> {}, alua |-> {}]

\* No request removes from a list what another one adds to it.
Apart ==
  \A q, r \in Req : phase[q] # "idle" /\ phase[r] # "idle" =>
    \A f \in Lists : Adds(op[q])[f] \cap Dels(op[r])[f] = {}

Writers(n) == {r \in Req : n \in wrote[r]}

\* The file of node n is the first one, with what the requests that wrote it added,
\* without what they removed.
Summed(n) ==
  /\ file[n].tgts = InitConfig.tgts /\ file[n].off = InitConfig.off
  /\ \A f \in Lists :
       file[n][f] = (InitConfig[f] \cup UNION {Adds(op[r])[f] : r \in Writers(n)})
                      \ UNION {Dels(op[r])[f] : r \in Writers(n)}

Cluster == \E m, n \in Node : m # n

ApartInv == AInv /\ (Clean /\ Apart /\ Cluster => \A n \in Node : Summed(n))

\* What a mutator does to each list.
LEMMA ChangedLists ==
  ASSUME NEW o, NEW c
  PROVE  /\ Changed(o, c).tgts = c.tgts /\ Changed(o, c).off = c.off
         /\ \A f \in Lists : Changed(o, c)[f] = (c[f] \cup Adds(o)[f]) \ Dels(o)[f]
  <1>1. /\ Changed(o, c)["grps"] = (c["grps"] \cup Adds(o)["grps"]) \ Dels(o)["grps"]
        /\ Changed(o, c)["inis"] = (c["inis"] \cup Adds(o)["inis"]) \ Dels(o)["inis"]
        /\ Changed(o, c)["luns"] = (c["luns"] \cup Adds(o)["luns"]) \ Dels(o)["luns"]
    BY DEF Changed, Adds, Dels
  <1>2. /\ Changed(o, c)["devs"] = (c["devs"] \cup Adds(o)["devs"]) \ Dels(o)["devs"]
        /\ Changed(o, c)["alua"] = (c["alua"] \cup Adds(o)["alua"]) \ Dels(o)["alua"]
    BY DEF Changed, Adds, Dels
  <1>3. Changed(o, c).tgts = c.tgts /\ Changed(o, c).off = c.off
    BY DEF Changed
  <1> QED BY <1>1, <1>2, <1>3 DEF Lists

\* Where there are several nodes, a request to all of them has a cluster route.
LEMMA ClusterOnly ==
  ASSUME AInv, Clean, Cluster, NEW r \in Req, phase[r] # "idle"
  PROVE  op[r] \in Operation /\ op[r].kind \in ClusterKind
  <1>1. TypeOK /\ Started(r) /\ Routed(r) /\ Nodes(r) = Node
    BY DEF AInv, IInv, RInv, Clean
  <1>2. PICK i \in 1..Len(path[r]), j \in 1..Len(path[r]) : path[r][i] # path[r][j]
    BY <1>1 DEF Nodes, Cluster
  <1>3. i # j /\ Len(path[r]) \in Nat
    BY <1>1, <1>2, Place
  <1> QED BY <1>1, <1>2, <1>3, OpAssumption DEF Routed, Started

\* A write adds to the sum what its request adds, and takes away what it removes.
LEMMA SummedWritten ==
  ASSUME AInv, Clean, Apart, Cluster, NEW r \in Req, Replaces(r),
         NEW n \in Node, Summed(n)
  PROVE  Summed(n)'
  <1>1. /\ phase[r] # "idle" /\ Here(r) \in Node \ wrote[r]
        /\ file'[Here(r)] \in Results(op[r], file[Here(r)])
        /\ \A m \in Node \ {Here(r)} : file'[m] = file[m]
        /\ wrote'[r] = wrote[r] \cup {Here(r)}
        /\ \A q \in Req \ {r} : wrote'[q] = wrote[q]
        /\ op' = op
    BY CleanWrite DEF Clean
  <1>2. CASE n # Here(r)
    <2>1. Writers(n)' = Writers(n) /\ file'[n] = file[n]
      BY <1>1, <1>2 DEF Writers
    <2> QED BY <1>1, <2>1 DEF Summed
  <1>3. CASE n = Here(r)
    <2>1. Writers(n)' = Writers(n) \cup {r}
      BY <1>1, <1>3 DEF Writers
    <2>2. file'[n] = Changed(op[r], file[n])
      BY <1>1, <1>3, ClusterOnly, Effect DEF AInv, IInv, TypeOK
    <2>3. file'[n].tgts = InitConfig.tgts /\ file'[n].off = InitConfig.off
      BY <2>2, ChangedLists DEF Summed
    <2>4. ASSUME NEW f \in Lists
          PROVE  file'[n][f] = (InitConfig[f] \cup UNION {Adds(op[q])[f] : q \in Writers(n)'})
                                 \ UNION {Dels(op[q])[f] : q \in Writers(n)'}
      <3> DEFINE A == UNION {Adds(op[q])[f] : q \in Writers(n)}
                 D == UNION {Dels(op[q])[f] : q \in Writers(n)}
      <3>1. file[n][f] = (InitConfig[f] \cup A) \ D
        BY DEF Summed
      <3>2. file'[n][f] = (file[n][f] \cup Adds(op[r])[f]) \ Dels(op[r])[f]
        BY <2>2, ChangedLists
      <3>3. \A q \in Writers(n) : q \in Req /\ phase[q] # "idle"
        BY DEF Writers, AInv, IInv, RInv, Fresh
      <3>4. \A q \in Writers(n) : Adds(op[r])[f] \cap Dels(op[q])[f] = {}
        BY <1>1, <3>3 DEF Apart
      <3>5. Adds(op[r])[f] \cap D = {}
        BY <3>4
      <3>6. /\ UNION {Adds(op[q])[f] : q \in Writers(n)'} = A \cup Adds(op[r])[f]
            /\ UNION {Dels(op[q])[f] : q \in Writers(n)'} = D \cup Dels(op[r])[f]
        BY <2>1
      <3> HIDE DEF A, D
      <3> QED BY <3>1, <3>2, <3>5, <3>6
    <2> QED BY <1>1, <2>3, <2>4 DEF Summed
  <1> QED BY <1>2, <1>3

LEMMA ApartKept == ApartInv /\ [Next]_vars => ApartInv'
  <1> SUFFICES ASSUME ApartInv, [Next]_vars, Clean', Apart', Cluster', NEW n \in Node
               PROVE  Summed(n)'
    BY PlacesKept DEF ApartInv
  <1>1. AInv /\ Cluster
    BY DEF ApartInv, Cluster
  <1>2. /\ Clean
        /\ \A q \in Req : phase[q] # "idle" => phase'[q] # "idle" /\ op'[q] = op[q]
        /\ Quiet \/ \E r \in Req : Replaces(r)
    BY <1>1, CleanStep
  <1>3. Apart
    BY <1>2 DEF Apart
  <1>4. Summed(n)
    BY <1>1, <1>2, <1>3 DEF ApartInv
  <1>5. CASE Quiet
    <2>1. file' = file /\ Writers(n)' = Writers(n)
      BY <1>5 DEF Quiet, Writers
    <2>2. \A q \in Writers(n) : op'[q] = op[q]
      BY <1>1, <1>2 DEF Writers, AInv, IInv, RInv, Fresh
    <2>3. ASSUME NEW f \in Lists
          PROVE  /\ {Adds(op'[q])[f] : q \in Writers(n)} = {Adds(op[q])[f] : q \in Writers(n)}
                 /\ {Dels(op'[q])[f] : q \in Writers(n)} = {Dels(op[q])[f] : q \in Writers(n)}
      BY <2>2
    <2> QED BY <1>4, <2>1, <2>3 DEF Summed
  <1>6. CASE \E r \in Req : Replaces(r)
    BY <1>1, <1>2, <1>3, <1>4, <1>6, SummedWritten
  <1> QED BY <1>2, <1>5, <1>6

\* Any number of requests to the whole cluster, with any interleaving of their reads
\* and writes on its nodes, leave every node with the same scst.conf when all succeed,
\* none replaced what another had read, and none removes what another adds: what
\* breaks the agreement of three requests that overlap is the group that one deletes
\* and another creates.
THEOREM ApartAgree == Spec => [](AllSucceeded /\ Apart => NodesAgree)
  <1>1. Init => ApartInv
    <2> SUFFICES ASSUME Init, NEW n \in Node PROVE Summed(n)
      BY InitPlaces DEF ApartInv
    <2>1. file[n] = InitConfig /\ Writers(n) = {}
      BY DEF Init, Writers
    <2>2. ASSUME NEW f \in Lists
          PROVE  InitConfig[f] = (InitConfig[f] \cup UNION {Adds(op[r])[f] : r \in {}})
                                   \ UNION {Dels(op[r])[f] : r \in {}}
      OBVIOUS
    <2> QED BY <2>1, <2>2 DEF Summed
  <1>2. ApartInv => (AllSucceeded /\ Apart => NodesAgree)
    <2> SUFFICES ASSUME ApartInv, AllSucceeded, Apart, NEW m \in Node, NEW n \in Node, m # n
                 PROVE  file[m] = file[n]
      BY DEF NodesAgree
    <2>1. AInv
      BY DEF ApartInv
    <2>2. \A r \in Req : phase[r] = "idle" => wrote[r] = {} /\ missed[r] = {}
      BY <2>1 DEF AInv, IInv, RInv, Fresh
    <2>3. Clean /\ Cluster
      BY <2>2 DEF AllSucceeded, Clean, Cluster
    <2>4. Summed(m) /\ Summed(n)
      BY <2>3 DEF ApartInv
    <2>5. \A r \in Req : wrote[r] \in {{}, Node}
      BY <2>1, <2>2, Succeeded DEF AllSucceeded
    <2>6. Writers(m) = Writers(n)
      BY <2>5 DEF Writers
    <2>7. \A f \in Lists : file[m][f] = file[n][f]
      BY <2>4, <2>6 DEF Summed
    <2>8. file[m].tgts = file[n].tgts /\ file[m].off = file[n].off
      BY <2>4 DEF Summed
    <2>9. file[m] \in Config /\ file[n] \in Config
      BY <2>1 DEF AInv, IInv, TypeOK
    <2> QED BY <2>7, <2>8, <2>9 DEF Config, Lists
  <1> QED BY <1>1, <1>2, ApartKept, PTL DEF Spec

-----------------------------------------------------------------------------
(* Devices in use.                                                          *)

\* "Refuse if device is referenced by any LUN" fails in no other way than this, however
\* many requests there are and whatever fails: the request that deletes a device that a
\* LUN of the file refers to was overtaken by another one between its read and its
\* write, or its reading was cut short.
THEOREM InUseKept ==
  Spec => [][\A r \in Req :
               op[r].kind = "deleteDevice" /\ wrote'[r] # wrote[r]
               /\ <<r, Here(r)>> \notin stale =>
                 \A l \in file[Here(r)].luns : l[4] # op[r].d]_vars
  <1> DEFINE Kept == \A r \in Req :
                       op[r].kind = "deleteDevice" /\ wrote'[r] # wrote[r]
                       /\ <<r, Here(r)>> \notin stale =>
                         \A l \in file[Here(r)].luns : l[4] # op[r].d
  <1>1. IInv /\ [Next]_vars => [Kept]_vars
    <2> SUFFICES ASSUME IInv, Next, NEW r \in Req, op[r].kind = "deleteDevice",
                        wrote'[r] # wrote[r], <<r, Here(r)>> \notin stale
                 PROVE  \A l \in file[Here(r)].luns : l[4] # op[r].d
      BY DEF vars
    <2>1. PICK q \in Req : Moves(q)
      BY BeginMoves, StepMoves DEF Next
    <2>2. q = r
      BY <2>1, OthersWrote
    <2>3. phase[r] = "write"
      BY <2>1, <2>2 DEF Moves, Replaces, Quiet
    <2>4. Content(r) \in DeleteDevice(op[r], file[Here(r)])
      BY <2>3, ContentIs DEF Results
    <2> QED BY <2>4 DEF DeleteDevice
  <1> HIDE DEF Kept
  <1>2. Spec => [][Kept]_vars
    BY <1>1, Invariant, PTL DEF Spec
  <1> QED BY <1>2 DEF Kept
=============================================================================
