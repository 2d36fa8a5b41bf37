----------------------------- MODULE ScstConfig -----------------------------
(***************************************************************************)
(* server/utils/scst-config-writer.ts, scst-cluster-mutation.ts and the     *)
(* ALUA plan: the requests that change /etc/scst.conf on the SAN nodes.     *)
(*                                                                         *)
(* Every mutator reads the whole file over SSH, checks the change against   *)
(* what it read, writes the whole file back and reloads SCST.  Nothing      *)
(* holds a lock between the read and the write, so requests interleave at   *)
(* every await; a cluster request runs the mutator on one node after the    *)
(* other and rolls nothing back.                                            *)
(***************************************************************************)
EXTENDS Integers, Sequences, FiniteSets

CONSTANTS
  Node,         \* the SAN nodes
  Tgt, Grp, Ini, LunId,         \* names of targets, groups, initiators, LUN ids
  Handler, Dev, Backing, Dg,    \* of handlers, devices, their files, ALUA groups
  Req,          \* the HTTP requests
  Op,           \* the mutations they may ask for
  Path,         \* the sequences of nodes a request may address
  Left,         \* Left[x]: what may be left of the name x when the text ends in it
  NoFile,       \* the backing file of a device whose line `filename' is missing
  InitConfig,   \* the configuration every node starts with
  Fault,        \* what may go wrong, see FaultKind
  MaxInFlight,  \* bound: requests handled at the same time
  MaxTorn       \* bound: nodes whose configuration was written or read in part

\* down: a node of the cluster is not connected; readonly: it is marked so;
\* unread: `cat ... || true' fails and prints nothing; refused: a command is
\* rejected before it runs; lost: a command runs and its answer is lost; cut: the
\* connection closes before the command runs, or while it prints, and its exit code
\* reads 0; full: the disk of the node is full; noreload: scstadmin fails.
FaultKind == {"down", "readonly", "unread", "refused", "lost", "cut", "full", "noreload"}

Config == [tgts : SUBSET Tgt,  off : SUBSET Tgt,
           grps : SUBSET (Tgt \X Grp),
           inis : SUBSET (Tgt \X Grp \X Ini),
           luns : SUBSET (Tgt \X Grp \X LunId \X Dev),
           devs : SUBSET (Handler \X Dev \X Backing),
           alua : SUBSET Dg]

Operation ==
       [kind : {"createTarget", "deleteTarget"}, t : Tgt]
  \cup [kind : {"setEnabled"}, t : Tgt, on : BOOLEAN]
  \cup [kind : {"createGroup"}, t : Tgt, g : Grp]
  \cup [kind : {"deleteGroup"}, t : Tgt, g : Grp, force : BOOLEAN]
  \cup [kind : {"addInitiator", "removeInitiator"}, t : Tgt, g : Grp, i : Ini]
  \cup [kind : {"addLun"}, t : Tgt, g : Grp, l : LunId, d : Dev]
  \cup [kind : {"removeLun"}, t : Tgt, g : Grp, l : LunId]
  \cup [kind : {"createDevice"}, h : Handler, d : Dev, f : Backing]
  \cup [kind : {"deleteDevice"}, d : Dev]
  \cup [kind : {"alua"}, a : Dg, replace : BOOLEAN]

ASSUME ConfigAssumption == InitConfig \in Config /\ NoFile \in Backing
ASSUME LeftAssumption ==
  \A S \in {Tgt, Grp, Ini, Dev, Backing, Dg} : \A x \in S : Left[x] \subseteq S
ASSUME OpAssumption == Op \subseteq Operation
ASSUME FaultAssumption == Fault \subseteq FaultKind
ASSUME PathAssumption ==
  /\ Path \subseteq Seq(Node) \ {<<>>}
  /\ \A p \in Path : \A i, j \in DOMAIN p : p[i] = p[j] => i = j
ASSUME BoundAssumption == MaxInFlight \in Nat \ {0} /\ MaxTorn \in Nat

VARIABLES
  file,    \* /etc/scst.conf of each node, parsed
  live,    \* the configuration SCST runs on each node
  phase,   \* where each request is
  op,      \* what it does
  path,    \* the nodes it runs on, in order
  at,      \* its position in path
  new,     \* the configuration it is about to write
  plan,    \* the configurations of its ALUA plan, for the nodes read so far
  wrote,   \* the nodes whose file it replaced (history)
  missed,  \* those where its write was missed, or cut short (history)
  stale,   \* requests and nodes whose file is no longer the one read (history)
  torn,    \* nodes of which part of a text was once written, or used as the file (history)
  ran,     \* the nodes with participation 'execute'
  reply    \* what the client was told

vars == <<file, live, phase, op, path, at, new, plan, wrote, missed, stale, torn, ran, reply>>

-----------------------------------------------------------------------------
(* Configurations.  Devices are triples of handler, name and backing file;   *)
(* LUNs are of target, group, id and device.                                *)

Empty == [tgts |-> {}, off |-> {}, grps |-> {}, inis |-> {}, luns |-> {},
          devs |-> {}, alua |-> {}]

Mappable == {"vdisk_blockio", "vdisk_fileio"}

\* createTarget(), deleteTarget() and setTargetEnabled().
CreateTarget(o, c) ==
  {x \in {[c EXCEPT !.tgts = @ \cup {o.t}]} : o.t \notin c.tgts}

DeleteTarget(o, c) ==
  {x \in {[c EXCEPT !.tgts = @ \ {o.t},
                    !.off = @ \ {o.t},
                    !.grps = {g \in @ : g[1] # o.t},
                    !.inis = {i \in @ : i[1] # o.t},
                    !.luns = {l \in @ : l[1] # o.t}]} : o.t \in c.tgts}

SetEnabled(o, c) ==
  {x \in {[c EXCEPT !.off = IF o.on THEN @ \ {o.t} ELSE @ \cup {o.t}]} : o.t \in c.tgts}

\* createGroup() and deleteGroup(); what is in the group needs `force'.
CreateGroup(o, c) ==
  {x \in {[c EXCEPT !.grps = @ \cup {<<o.t, o.g>>}]} :
     o.t \in c.tgts /\ <<o.t, o.g>> \notin c.grps}

InGroup(o, S) == {s \in S : s[1] = o.t /\ s[2] = o.g}

DeleteGroup(o, c) ==
  {x \in {[c EXCEPT !.grps = @ \ {<<o.t, o.g>>},
                    !.inis = @ \ InGroup(o, @),
                    !.luns = @ \ InGroup(o, @)]} :
     /\ <<o.t, o.g>> \in c.grps
     /\ o.force \/ (InGroup(o, c.inis) = {} /\ InGroup(o, c.luns) = {})}

\* addInitiator() and removeInitiator(): an initiator is in one group of a target.
AddInitiator(o, c) ==
  {x \in {[c EXCEPT !.inis = @ \cup {<<o.t, o.g, o.i>>}]} :
     /\ <<o.t, o.g>> \in c.grps
     /\ \A i \in c.inis : i[1] = o.t => i[3] # o.i}

RemoveInitiator(o, c) ==
  {x \in {[c EXCEPT !.inis = @ \ {<<o.t, o.g, o.i>>}]} : <<o.t, o.g, o.i>> \in c.inis}

\* addLunToGroup() with validateMapLun(): the id and the device are new on the
\* target, and the device belongs to a handler that may be mapped.
AddLun(o, c) ==
  {x \in {[c EXCEPT !.luns = @ \cup {<<o.t, o.g, o.l, o.d>>}]} :
     /\ <<o.t, o.g>> \in c.grps
     /\ \E v \in c.devs : v[2] = o.d /\ v[1] \in Mappable
     /\ \A l \in c.luns : l[1] = o.t => l[3] # o.l /\ l[4] # o.d}

RemoveLun(o, c) ==
  {x \in {[c EXCEPT !.luns = {l \in @ : ~(l[1] = o.t /\ l[2] = o.g /\ l[3] = o.l)}]} :
     \E l \in c.luns : l[1] = o.t /\ l[2] = o.g /\ l[3] = o.l}

\* createDevice(): the name and the backing file are new for the handler.
CreateDevice(o, c) ==
  {x \in {[c EXCEPT !.devs = @ \cup {<<o.h, o.d, o.f>>}]} :
     \A v \in c.devs : v[1] = o.h => v[2] # o.d /\ v[3] # o.f}

\* Mutant of DeleteDevice: the LUNs are not looked at.
DeleteDeviceUnchecked(o, c) ==
  {[c EXCEPT !.devs = @ \ {v}] : v \in {w \in c.devs : w[2] = o.d}}

\* deleteDevice() removes the first device of that name, of whichever handler,
\* unless a LUN refers to the name.
DeleteDevice(o, c) ==
  {[c EXCEPT !.devs = @ \ {v}] :
     v \in {w \in c.devs : w[2] = o.d /\ \A l \in c.luns : l[4] # o.d}}

\* The ALUA plan of a node: the preflight wants devices and targets, and a new
\* device group unless the old one is to be replaced.
UpsertDeviceGroup(o, c) ==
  {x \in {[c EXCEPT !.alua = @ \cup {o.a}]} :
     c.devs # {} /\ c.tgts # {} /\ (o.a \notin c.alua \/ o.replace)}

\* The configurations that the mutator of o may write when it reads c; none when
\* it refuses.
Results(o, c) ==
  CASE o.kind = "createTarget" -> CreateTarget(o, c)
    [] o.kind = "deleteTarget" -> DeleteTarget(o, c)
    [] o.kind = "setEnabled" -> SetEnabled(o, c)
    [] o.kind = "createGroup" -> CreateGroup(o, c)
    [] o.kind = "deleteGroup" -> DeleteGroup(o, c)
    [] o.kind = "addInitiator" -> AddInitiator(o, c)
    [] o.kind = "removeInitiator" -> RemoveInitiator(o, c)
    [] o.kind = "addLun" -> AddLun(o, c)
    [] o.kind = "removeLun" -> RemoveLun(o, c)
    [] o.kind = "createDevice" -> CreateDevice(o, c)
    [] o.kind = "deleteDevice" -> DeleteDevice(o, c)
    [] o.kind = "alua" -> UpsertDeviceGroup(o, c)

\* The mutators that have a cluster route.
ClusterKind == {"createGroup", "deleteGroup", "addInitiator", "removeInitiator",
                "addLun", "removeLun", "createDevice", "alua"}

\* What the mutators promise each other: names and ids are not shared, and a LUN
\* refers to a device.
WellFormed(c) ==
  /\ c.off \subseteq c.tgts
  /\ \A g \in c.grps : g[1] \in c.tgts
  /\ \A i \in c.inis : <<i[1], i[2]>> \in c.grps
  /\ \A i, j \in c.inis : i[1] = j[1] /\ i[3] = j[3] => i = j
  /\ \A l \in c.luns : <<l[1], l[2]>> \in c.grps
  /\ \A l \in c.luns : \E v \in c.devs : v[2] = l[4]
  /\ \A l, m \in c.luns : l[1] = m[1] /\ (l[3] = m[3] \/ l[4] = m[4]) => l = m
  /\ \A v, w \in c.devs : v[1] = w[1] /\ (v[2] = w[2] \/ v[3] = w[3]) => v = w

ASSUME InitAssumption == WellFormed(InitConfig)

-----------------------------------------------------------------------------
(* A text that ends too early. serializeScstConfig() writes the devices of   *)
(* each handler, then each target with its groups, then the ALUA groups; the *)
(* order among handlers, targets, groups and lines is left open. The parser  *)
(* wants no closing brace, drops a line without its last word, and takes     *)
(* what is left of a word for the word.                                      *)

\* Some lines of S, the last of which may be cut short: cut[s] is what may be
\* read of line s.
Begun(S, cut) == UNION {{D \cup {w} : D \in SUBSET (S \ {s}), w \in cut[s]} : s \in S}

\* The text ends in the devices of handler h; those of H are read.
InHandler(c, H, h) ==
  LET of(hs) == {v \in c.devs : v[1] \in hs}
      cut == [v \in c.devs |-> {<<h, d, NoFile>> : d \in Left[v[2]]}
                               \cup {<<h, v[2], f>> : f \in Left[v[3]]}]
  IN  {[Empty EXCEPT !.devs = of(H) \cup x] : x \in Begun(of({h}), cut)}

\* The devices, the targets of T, the flag of target t and its groups G are read.
UpTo(c, T, t, G) ==
  LET read(S) == {s \in S : s[1] \in T \/ (s[1] = t /\ s[2] \in G)}
  IN  [c EXCEPT !.tgts = T \cup {t}, !.off = @ \cap (T \cup {t}), !.alua = {},
                !.grps = read(@), !.inis = read(@), !.luns = read(@)]

\* The text ends in target t, before its groups.
InTarget(c, T, t) ==
  {UpTo(c, T, t, {})} \cup
  {[UpTo(c, T, t, {}) EXCEPT !.tgts = T \cup {n}, !.off = @ \cap T] : n \in Left[t]}

\* The text ends in group g: in its name, its initiators or its LUNs.
InGroupOf(c, T, t, G, g) ==
  LET b == UpTo(c, T, t, G)
      o == [t |-> t, g |-> g]
      inis == InGroup(o, c.inis)
      luns == InGroup(o, c.luns)
  IN  {[b EXCEPT !.grps = @ \cup {<<t, n>>}] : n \in Left[g]}
      \cup {[b EXCEPT !.grps = @ \cup {<<t, g>>}, !.inis = @ \cup x] :
              x \in Begun(inis, [i \in inis |-> {<<t, g, n>> : n \in Left[i[3]]}])}
      \cup {[b EXCEPT !.grps = @ \cup {<<t, g>>}, !.inis = @ \cup inis, !.luns = @ \cup x] :
              x \in Begun(luns, [l \in luns |-> {<<t, g, l[3], n>> : n \in Left[l[4]]}])}

\* The text ends in the groups of target t.
InGroups(c, T, t) ==
  LET grps == {g \in Grp : <<t, g>> \in c.grps}
  IN  UNION {UNION {InGroupOf(c, T, t, G, g) : G \in SUBSET (grps \ {g})} : g \in grps}

\* The text ends in the ALUA groups, or before them.
InAlua(c) ==
  {[c EXCEPT !.alua = x] : x \in {{}} \cup Begun(c.alua, [a \in c.alua |-> Left[a]])}

\* What the parser reads of a text of c that ends too early.
Truncated(c) ==
  LET inHandlers ==
        UNION {UNION {InHandler(c, H, h) : H \in SUBSET (Handler \ {h})} : h \in Handler}
      inTargets ==
        UNION {UNION {InTarget(c, T, t) \cup InGroups(c, T, t) : T \in SUBSET (c.tgts \ {t})} : t \in c.tgts}
  IN  {Empty, [Empty EXCEPT !.devs = c.devs]} \cup inHandlers \cup inTargets \cup InAlua(c)

-----------------------------------------------------------------------------
(* Requests.                                                                *)

Phase == {"idle", "read", "plan", "planned", "write", "reload", "done"}
NoOp == [kind |-> "none"]
NoPlan == [n \in {} |-> Empty]

InFlight == {r \in Req : phase[r] \notin {"idle", "planned", "done"}}
Here(r) == path[r][at[r]]
Nodes(r) == {path[r][i] : i \in 1..Len(path[r])}

\* Mutant of Outcome: errors are forgotten once a node has executed.
OutcomeAnyNode(r, done) ==
  IF done # {} THEN "ok" ELSE "rejected"

\* runOnClusterNodes() and assertScstClusterSuccess(): success, 409 or 422; for
\* one node, success or an error.
Outcome(r, done) ==
  IF done = Nodes(r) THEN "ok" ELSE IF done # {} THEN "partial" ELSE "rejected"

\* Mutant of Advance: the loop runs one node too far.
AdvancePastEnd(r, done, failed) ==
  /\ ran' = [ran EXCEPT ![r] = done]
  /\ at' = [at EXCEPT ![r] = @ + 1]
  /\ phase' = [phase EXCEPT ![r] = IF at[r] > Len(path[r]) THEN "done" ELSE "read"]
  /\ UNCHANGED <<op, path, plan, reply>>

\* The loop goes on to the next node, or the request is answered.  An ALUA plan
\* stops at the first node that fails.
Advance(r, done, failed) ==
  LET stop == at[r] = Len(path[r]) \/ (failed /\ op[r].kind = "alua") IN
  /\ ran' = [ran EXCEPT ![r] = done]
  /\ \/ /\ ~stop
        /\ at' = [at EXCEPT ![r] = @ + 1]
        /\ phase' = [phase EXCEPT ![r] = IF op[r].kind = "alua" THEN "write" ELSE "read"]
        /\ UNCHANGED reply
     \/ /\ stop
        /\ phase' = [phase EXCEPT ![r] = "done"]
        /\ reply' = [reply EXCEPT ![r] = Outcome(r, done)]
        /\ UNCHANGED at
  /\ UNCHANGED <<op, path, plan>>

NodeFailed(r) == Advance(r, ran[r], TRUE)
NodeDone(r) == Advance(r, ran[r] \cup {Here(r)}, FALSE)

\* A route is called: of one node, or of the cluster.
Begin(r) ==
  /\ phase[r] = "idle"
  /\ Cardinality(InFlight) < MaxInFlight
  /\ \E o \in Op, p \in Path :
       /\ Len(p) > 1 => o.kind \in ClusterKind
       /\ o.kind = "alua" => Len(p) = 2
       /\ op' = [op EXCEPT ![r] = o]
       /\ path' = [path EXCEPT ![r] = p]
       /\ phase' = [phase EXCEPT ![r] = IF o.kind = "alua" THEN "plan" ELSE "read"]
  /\ at' = [at EXCEPT ![r] = 1]
  /\ UNCHANGED <<file, live, new, plan, wrote, missed, stale, torn, ran, reply>>

\* The loop passes over a node that is read-only or not connected.
Skip(r) ==
  /\ Len(path[r]) > 1
  /\ \/ phase[r] = "read" /\ {"down", "readonly"} \cap Fault # {}
     \/ phase[r] = "write" /\ op[r].kind = "alua" /\ "down" \in Fault
  /\ NodeFailed(r)
  /\ UNCHANGED <<file, live, new, wrote, missed, stale, torn>>

\* Mutant of Contents: the mutator reads what SCST runs.
ContentsLive(n) == {live[n]}

\* readScstConfig() returns the file.
Contents(n) == {file[n]}

\* A text of c is cut short: something is left, but not all.
CutShort(c) == IF Cardinality(torn) < MaxTorn THEN Truncated(c) \ {c, Empty} ELSE {}

\* A `cat' that fails, and a connection that closes first, read as an empty file;
\* one that closes while `cat' prints, as the beginning of the file.
Seen(n) == Contents(n) \cup {c \in {Empty} : {"unread", "cut"} \cap Fault # {}}
                       \cup {c \in CutShort(file[n]) : "cut" \in Fault}

\* What r has seen of node n is not the file: the read failed.
Misread(r, n, c) == {<<r, n>> : x \in {c} \ Contents(n)}

\* c is read or written where `whole' should be: part of it, all or nothing.
Tears(n, c, whole) == torn' = torn \cup {n : x \in {c} \ {whole, Empty}}

\* The file is read and the change is checked against it, or the mutator throws.
Read(r) ==
  /\ phase[r] = "read"
  /\ \/ \E c \in Seen(Here(r)) :
          \/ \E x \in Results(op[r], c) :
               /\ new' = [new EXCEPT ![r] = x]
               /\ phase' = [phase EXCEPT ![r] = "write"]
               /\ stale' = stale \cup Misread(r, Here(r), c)
               /\ Tears(Here(r), c, file[Here(r)])
               /\ UNCHANGED <<at, ran, reply, op, path, plan>>
          \/ Results(op[r], c) = {} /\ NodeFailed(r) /\ UNCHANGED <<new, stale, torn>>
     \/ {"refused", "lost"} \cap Fault # {} /\ NodeFailed(r) /\ UNCHANGED <<new, stale, torn>>
  /\ UNCHANGED <<file, live, wrote, missed>>

\* The ALUA wizard reads the file of both nodes, in any order, for its plan, and
\* refuses to plan when the change is refused on one of them.
PlanNode(r) ==
  /\ phase[r] = "plan"
  /\ \E n \in Nodes(r) \ DOMAIN plan[r] : \E c \in Seen(n) :
       \/ \E x \in Results(op[r], c) :
            /\ plan' = [plan EXCEPT ![r] =
                          [m \in DOMAIN plan[r] \cup {n} |-> IF m = n THEN x ELSE plan[r][m]]]
            /\ phase' = [phase EXCEPT ![r] =
                           IF Nodes(r) = DOMAIN plan'[r] THEN "planned" ELSE "plan"]
            /\ stale' = stale \cup Misread(r, n, c)
            /\ Tears(n, c, file[n])
            /\ UNCHANGED reply
       \/ /\ Results(op[r], c) = {}
          /\ phase' = [phase EXCEPT ![r] = "done"]
          /\ reply' = [reply EXCEPT ![r] = "rejected"]
          /\ UNCHANGED <<plan, stale, torn>>
  /\ UNCHANGED <<file, live, op, path, at, new, wrote, missed, ran>>

\* The plan token is used: the files of the plan are written as they are, unless
\* a node became read-only.
Execute(r) ==
  /\ phase[r] = "planned"
  /\ Cardinality(InFlight) < MaxInFlight
  /\ \/ phase' = [phase EXCEPT ![r] = "write"] /\ UNCHANGED reply
     \/ /\ "readonly" \in Fault
        /\ phase' = [phase EXCEPT ![r] = "done"]
        /\ reply' = [reply EXCEPT ![r] = "rejected"]
  /\ UNCHANGED <<file, live, op, path, at, new, plan, wrote, missed, stale, torn, ran>>

\* What is written: the result of the mutator, or the plan's file.
Content(r) == IF op[r].kind = "alua" THEN plan[r][Here(r)] ELSE new[r]

\* The other requests that have read the file of node n and will replace it.
Readers(r, n) == {q \in Req \ {r} : \/ phase[q] = "write" /\ op[q].kind # "alua" /\ Here(q) = n
                                    \/ n \in DOMAIN plan[q]}

\* r replaces the file of its node by c.
Replace(r, c) ==
  /\ file' = [file EXCEPT ![Here(r)] = c]
  /\ stale' = stale \cup (Readers(r, Here(r)) \X {Here(r)})

\* The text of r is moved over the file of its node, whole.
WriteWhole(r) ==
  /\ Replace(r, Content(r))
  /\ wrote' = [wrote EXCEPT ![r] = @ \cup {Here(r)}]
  /\ UNCHANGED <<missed, torn>>

\* The disk is full: what `base64 -d' could write, nothing or the beginning of the
\* text, is moved over the file all the same, for the script has no `set -e'.
WritePart(r) ==
  /\ "full" \in Fault
  /\ \E c \in {Empty} \cup CutShort(Content(r)) :
       Replace(r, c) /\ Tears(Here(r), c, Content(r))
  /\ missed' = [missed EXCEPT ![r] = @ \cup {Here(r)}]
  /\ UNCHANGED wrote

\* The script runs, and ends with 0 whatever it could write; or it does not run;
\* the answer is lost, or a connection that closed first reads as 0.
Write(r) ==
  /\ phase[r] = "write"
  /\ \/ /\ \/ WriteWhole(r) \/ WritePart(r)
           \/ /\ "cut" \in Fault
              /\ missed' = [missed EXCEPT ![r] = @ \cup {Here(r)}]
              /\ UNCHANGED <<file, stale, wrote, torn>>
        /\ phase' = [phase EXCEPT ![r] = "reload"]
        /\ UNCHANGED <<op, path, at, plan, ran, reply>>
     \/ /\ \/ "lost" \in Fault /\ (WriteWhole(r) \/ WritePart(r))
           \/ "refused" \in Fault /\ UNCHANGED <<file, stale, wrote, missed, torn>>
        /\ NodeFailed(r)
  /\ UNCHANGED <<live, new>>

\* SCST is told to load the file.  `|| true' hides a failure of scstadmin; the
\* mutator throws only when the command itself is rejected.
Reload(r) ==
  LET loaded == live' = [live EXCEPT ![Here(r)] = file[Here(r)]] IN
  /\ phase[r] = "reload"
  /\ \/ loaded /\ NodeDone(r)
     \/ {"noreload", "cut"} \cap Fault # {} /\ UNCHANGED live /\ NodeDone(r)
     \/ "lost" \in Fault /\ loaded /\ NodeFailed(r)
     \/ "refused" \in Fault /\ UNCHANGED live /\ NodeFailed(r)
  /\ UNCHANGED <<file, new, wrote, missed, stale, torn>>

Init ==
  /\ file = [n \in Node |-> InitConfig]
  /\ live = file
  /\ phase = [r \in Req |-> "idle"]
  /\ op = [r \in Req |-> NoOp]
  /\ path = [r \in Req |-> <<>>]
  /\ at = [r \in Req |-> 0]
  /\ new = [r \in Req |-> Empty]
  /\ plan = [r \in Req |-> NoPlan]
  /\ wrote = [r \in Req |-> {}]
  /\ missed = [r \in Req |-> {}]
  /\ stale = {} /\ torn = {}
  /\ ran = [r \in Req |-> {}]
  /\ reply = [r \in Req |-> "none"]

Next ==
  \E r \in Req : \/ Begin(r) \/ Skip(r) \/ Read(r) \/ PlanNode(r) \/ Execute(r)
                 \/ Write(r) \/ Reload(r)

Spec == Init /\ [][Next]_vars

-----------------------------------------------------------------------------
(* Properties.                                                              *)

TypeOK ==
  /\ file \in [Node -> Config] /\ live \in [Node -> Config]
  /\ phase \in [Req -> Phase]
  /\ op \in [Req -> Op \cup {NoOp}]
  /\ path \in [Req -> Path \cup {<<>>}]
  /\ at \in [Req -> Nat]
  /\ \A r \in Req : at[r] <= Len(path[r]) /\ (phase[r] # "idle" => at[r] > 0)
  /\ new \in [Req -> Config]
  /\ DOMAIN plan = Req /\ \A r \in Req : plan[r] \in [DOMAIN plan[r] -> Config]
  /\ wrote \in [Req -> SUBSET Node] /\ missed \in [Req -> SUBSET Node] /\ ran \in [Req -> SUBSET Node]
  /\ \A r \in Req : DOMAIN plan[r] \cup wrote[r] \cup missed[r] \cup ran[r] \subseteq Nodes(r)
  /\ stale \subseteq Req \X Node /\ torn \subseteq Node
  /\ reply \in [Req -> {"none", "ok", "partial", "rejected"}]

\* No interleaving of requests, no failure between their steps, no stale plan and no
\* read that fails leaves a node with a file, or an SCST, that breaks those promises,
\* unless a text was once cut short there: by a full disk, whose script moves what
\* there is, or by a connection that closed while `cat' was printing.
ConfigIntegrity == \A n \in Node \ torn : WellFormed(file[n]) /\ WellFormed(live[n])

\* A client that is told `success' finds the change on every node it addressed,
\* one that is told 409 on some, and a file of a node that reported a failure
\* may have changed; but exec() resolves with code 0 when the connection closes
\* first, and the script ends with 0 when the disk is full: a write missed or cut
\* short that way counts as done.
ReplyIsHonest ==
  \A r \in Req : /\ reply[r] = "ok" => wrote[r] \cup missed[r] = Nodes(r)
                 /\ reply[r] = "partial" => wrote[r] \cup missed[r] # {}

\* A mutation is atomic unless another request replaced the file between its read
\* and its write, or its read failed: what is written is the result of the mutator
\* on the file as it is at that moment. Only a full disk leaves less than that:
\* nothing, or the beginning of that result, and the write counts as missed.
AtomicMutation ==
  [][\A n \in Node : file'[n] # file[n] =>
       \E r \in Req :
         /\ phase[r] = "write" /\ Here(r) = n
         /\ \/ <<r, n>> \in stale
            \/ \E x \in Results(op[r], file[n]) :
                 \/ file'[n] = x
                 \/ "full" \in Fault /\ file'[n] \in Truncated(x) /\ n \in missed'[r]]_vars

\* Every request so far was a cluster request and has succeeded, none replaced what
\* another had read, and no write was missed.
AllSucceeded ==
  /\ stale = {}
  /\ \A r \in Req : \/ phase[r] = "idle"
                    \/ reply[r] = "ok" /\ Nodes(r) = Node /\ missed[r] = {}

NodesAgree == \A m, n \in Node : file[m] = file[n]

AtMostTwo == \E q, r \in Req : \A s \in Req : phase[s] # "idle" => s \in {q, r}

\* Two cluster requests that succeed leave the nodes of the cluster in agreement,
\* in whichever order each node saw them: where both orders succeed, the mutators
\* commute. (Three that overlap do not: a group that is deleted and created again
\* keeps, on one node only, a LUN that is added meanwhile.)
ClusterAgreement == AllSucceeded /\ AtMostTwo => NodesAgree

\* "Refuse if device is referenced by any LUN": no request removes a device that
\* a LUN of the file refers to.
DeviceInUseKept ==
  [][\A r \in Req :
       op[r].kind = "deleteDevice" /\ wrote'[r] # wrote[r] =>
         \A l \in file[Here(r)].luns : l[4] # op[r].d]_vars
=============================================================================
