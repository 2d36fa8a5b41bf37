-------------------------- MODULE ScstConfigProofs --------------------------
(***************************************************************************)
(* Proofs about ScstConfig, for any nodes, names, requests, paths, faults   *)
(* and bounds.  The first part shows that every mutator keeps a             *)
(* configuration typed and well formed, and that what is left of a text cut *)
(* short is typed; the second carries this through the steps of the requests.*)
(***************************************************************************)
EXTENDS ScstConfig, TLAPS

USE ConfigAssumption, OpAssumption, FaultAssumption, BoundAssumption

-----------------------------------------------------------------------------
(* The mutators.                                                            *)

LEMMA CreateTargetOK ==
  ASSUME NEW o \in Operation, o.kind = "createTarget",
         NEW c \in Config, NEW x \in CreateTarget(o, c)
  PROVE  x \in Config /\ (WellFormed(c) => WellFormed(x))
  <1>1. o.t \in Tgt
    BY DEF Operation
  <1>2. x = [c EXCEPT !.tgts = c.tgts \cup {o.t}]
    BY DEF CreateTarget
  <1>3. /\ x \in Config
        /\ x.tgts = c.tgts \cup {o.t} /\ x.off = c.off /\ x.grps = c.grps
        /\ x.inis = c.inis /\ x.luns = c.luns /\ x.devs = c.devs
    BY <1>1, <1>2 DEF Config
  <1> QED BY <1>3 DEF WellFormed

LEMMA DeleteTargetOK ==
  ASSUME NEW o \in Operation, o.kind = "deleteTarget",
         NEW c \in Config, NEW x \in DeleteTarget(o, c)
  PROVE  x \in Config /\ (WellFormed(c) => WellFormed(x))
  <1> DEFINE G == {g \in c.grps : g[1] # o.t}
             I == {i \in c.inis : i[1] # o.t}
             L == {l \in c.luns : l[1] # o.t}
  <1>1. G \subseteq c.grps /\ I \subseteq c.inis /\ L \subseteq c.luns
    OBVIOUS
  <1>2. x = [c EXCEPT !.tgts = c.tgts \ {o.t}, !.off = c.off \ {o.t},
                      !.grps = G, !.inis = I, !.luns = L]
    BY DEF DeleteTarget
  <1>3. /\ x \in Config
        /\ x.tgts = c.tgts \ {o.t} /\ x.off = c.off \ {o.t} /\ x.grps = G
        /\ x.inis = I /\ x.luns = L /\ x.devs = c.devs
    <2> HIDE DEF G, I, L
    <2> QED BY <1>1, <1>2 DEF Config
  <1>4. /\ \A g \in G : g \in c.grps /\ g[1] # o.t
        /\ \A i \in I : i \in c.inis /\ i[1] # o.t
        /\ \A l \in L : l \in c.luns /\ l[1] # o.t
        /\ \A a, b : <<a, b>> \in c.grps /\ a # o.t => <<a, b>> \in G
    OBVIOUS
  <1> HIDE DEF G, I, L
  <1> QED BY <1>3, <1>4 DEF WellFormed


LEMMA SetEnabledOK ==
  ASSUME NEW o \in Operation, o.kind = "setEnabled",
         NEW c \in Config, NEW x \in SetEnabled(o, c)
  PROVE  x \in Config /\ (WellFormed(c) => WellFormed(x))
  <1> DEFINE F == IF o.on THEN c.off \ {o.t} ELSE c.off \cup {o.t}
  <1>1. o.t \in Tgt /\ o.t \in c.tgts
    BY DEF Operation, SetEnabled
  <1>2. x = [c EXCEPT !.off = F]
    BY DEF SetEnabled
  <1>3. F \subseteq c.off \cup {o.t}
    OBVIOUS
  <1> HIDE DEF F
  <1>4. /\ x \in Config
        /\ x.tgts = c.tgts /\ x.off = F /\ x.grps = c.grps
        /\ x.inis = c.inis /\ x.luns = c.luns /\ x.devs = c.devs
    BY <1>1, <1>2, <1>3 DEF Config
  <1> QED BY <1>1, <1>3, <1>4 DEF WellFormed

LEMMA CreateGroupOK ==
  ASSUME NEW o \in Operation, o.kind = "createGroup",
         NEW c \in Config, NEW x \in CreateGroup(o, c)
  PROVE  x \in Config /\ (WellFormed(c) => WellFormed(x))
  <1>1. o.t \in Tgt /\ o.g \in Grp /\ o.t \in c.tgts
    BY DEF Operation, CreateGroup
  <1>2. x = [c EXCEPT !.grps = c.grps \cup {<<o.t, o.g>>}]
    BY DEF CreateGroup
  <1>3. /\ x \in Config
        /\ x.tgts = c.tgts /\ x.off = c.off /\ x.grps = c.grps \cup {<<o.t, o.g>>}
        /\ x.inis = c.inis /\ x.luns = c.luns /\ x.devs = c.devs
    BY <1>1, <1>2 DEF Config
  <1> QED BY <1>1, <1>3 DEF WellFormed

LEMMA DeleteGroupOK ==
  ASSUME NEW o \in Operation, o.kind = "deleteGroup",
         NEW c \in Config, NEW x \in DeleteGroup(o, c)
  PROVE  x \in Config /\ (WellFormed(c) => WellFormed(x))
  <1> DEFINE I == c.inis \ InGroup(o, c.inis)
             L == c.luns \ InGroup(o, c.luns)
  <1>1. x = [c EXCEPT !.grps = c.grps \ {<<o.t, o.g>>}, !.inis = I, !.luns = L]
    BY DEF DeleteGroup
  <1>2. /\ \A i \in I : i \in c.inis /\ <<i[1], i[2]>> # <<o.t, o.g>>
        /\ \A l \in L : l \in c.luns /\ <<l[1], l[2]>> # <<o.t, o.g>>
    BY DEF InGroup
  <1> HIDE DEF I, L
  <1>3. /\ x \in Config
        /\ x.tgts = c.tgts /\ x.off = c.off /\ x.grps = c.grps \ {<<o.t, o.g>>}
        /\ x.inis = I /\ x.luns = L /\ x.devs = c.devs
    BY <1>1, <1>2 DEF Config
  <1> QED BY <1>2, <1>3 DEF WellFormed

LEMMA AddInitiatorOK ==
  ASSUME NEW o \in Operation, o.kind = "addInitiator",
         NEW c \in Config, NEW x \in AddInitiator(o, c)
  PROVE  x \in Config /\ (WellFormed(c) => WellFormed(x))
  <1> DEFINE n == <<o.t, o.g, o.i>>
  <1>1. /\ o.t \in Tgt /\ o.g \in Grp /\ o.i \in Ini
        /\ <<o.t, o.g>> \in c.grps
        /\ \A i \in c.inis : i[1] = o.t => i[3] # o.i
    BY DEF Operation, AddInitiator
  <1>2. x = [c EXCEPT !.inis = c.inis \cup {n}]
    BY DEF AddInitiator
  <1>3. n \in Tgt \X Grp \X Ini /\ n[1] = o.t /\ n[2] = o.g /\ n[3] = o.i
    BY <1>1
  <1> HIDE DEF n
  <1>4. /\ x \in Config
        /\ x.tgts = c.tgts /\ x.off = c.off /\ x.grps = c.grps
        /\ x.inis = c.inis \cup {n} /\ x.luns = c.luns /\ x.devs = c.devs
    BY <1>2, <1>3 DEF Config
  <1>5. WellFormed(c) => \A i, j \in x.inis : i[1] = j[1] /\ i[3] = j[3] => i = j
    BY <1>1, <1>3, <1>4 DEF WellFormed
  <1> QED BY <1>1, <1>3, <1>4, <1>5 DEF WellFormed

LEMMA RemoveInitiatorOK ==
  ASSUME NEW o \in Operation, o.kind = "removeInitiator",
         NEW c \in Config, NEW x \in RemoveInitiator(o, c)
  PROVE  x \in Config /\ (WellFormed(c) => WellFormed(x))
  <1> DEFINE I == c.inis \ {<<o.t, o.g, o.i>>}
  <1>1. x = [c EXCEPT !.inis = I] /\ I \subseteq c.inis
    BY DEF RemoveInitiator
  <1> HIDE DEF I
  <1>2. /\ x \in Config
        /\ x.tgts = c.tgts /\ x.off = c.off /\ x.grps = c.grps
        /\ x.inis = I /\ x.luns = c.luns /\ x.devs = c.devs
    BY <1>1 DEF Config
  <1> QED BY <1>1, <1>2 DEF WellFormed

LEMMA AddLunOK ==
  ASSUME NEW o \in Operation, o.kind = "addLun",
         NEW c \in Config, NEW x \in AddLun(o, c)
  PROVE  x \in Config /\ (WellFormed(c) => WellFormed(x))
  <1> DEFINE n == <<o.t, o.g, o.l, o.d>>
  <1>1. /\ o.t \in Tgt /\ o.g \in Grp /\ o.l \in LunId /\ o.d \in Dev
        /\ <<o.t, o.g>> \in c.grps
        /\ \E v \in c.devs : v[2] = o.d
        /\ \A l \in c.luns : l[1] = o.t => l[3] # o.l /\ l[4] # o.d
    BY DEF Operation, AddLun
  <1>2. x = [c EXCEPT !.luns = c.luns \cup {n}]
    BY DEF AddLun
  <1>3. /\ n \in Tgt \X Grp \X LunId \X Dev
        /\ n[1] = o.t /\ n[2] = o.g /\ n[3] = o.l /\ n[4] = o.d
    BY <1>1
  <1> HIDE DEF n
  <1>4. /\ x \in Config
        /\ x.tgts = c.tgts /\ x.off = c.off /\ x.grps = c.grps
        /\ x.inis = c.inis /\ x.luns = c.luns \cup {n} /\ x.devs = c.devs
    BY <1>2, <1>3 DEF Config
  <1>5. WellFormed(c) =>
          \A l, m \in x.luns : l[1] = m[1] /\ (l[3] = m[3] \/ l[4] = m[4]) => l = m
    BY <1>1, <1>3, <1>4 DEF WellFormed
  <1>6. WellFormed(c) => /\ \A l \in x.luns : <<l[1], l[2]>> \in x.grps
                         /\ \A l \in x.luns : \E v \in x.devs : v[2] = l[4]
    BY <1>1, <1>3, <1>4 DEF WellFormed
  <1> QED BY <1>4, <1>5, <1>6 DEF WellFormed

LEMMA RemoveLunOK ==
  ASSUME NEW o \in Operation, o.kind = "removeLun",
         NEW c \in Config, NEW x \in RemoveLun(o, c)
  PROVE  x \in Config /\ (WellFormed(c) => WellFormed(x))
  <1> DEFINE L == {l \in c.luns : ~(l[1] = o.t /\ l[2] = o.g /\ l[3] = o.l)}
  <1>1. x = [c EXCEPT !.luns = L] /\ L \subseteq c.luns
    BY DEF RemoveLun
  <1> HIDE DEF L
  <1>2. /\ x \in Config
        /\ x.tgts = c.tgts /\ x.off = c.off /\ x.grps = c.grps
        /\ x.inis = c.inis /\ x.luns = L /\ x.devs = c.devs
    BY <1>1 DEF Config
  <1> QED BY <1>1, <1>2 DEF WellFormed

LEMMA CreateDeviceOK ==
  ASSUME NEW o \in Operation, o.kind = "createDevice",
         NEW c \in Config, NEW x \in CreateDevice(o, c)
  PROVE  x \in Config /\ (WellFormed(c) => WellFormed(x))
  <1> DEFINE n == <<o.h, o.d, o.f>>
  <1>1. /\ o.h \in Handler /\ o.d \in Dev /\ o.f \in Backing
        /\ \A v \in c.devs : v[1] = o.h => v[2] # o.d /\ v[3] # o.f
    BY DEF Operation, CreateDevice
  <1>2. x = [c EXCEPT !.devs = c.devs \cup {n}]
    BY DEF CreateDevice
  <1>3. n \in Handler \X Dev \X Backing /\ n[1] = o.h /\ n[2] = o.d /\ n[3] = o.f
    BY <1>1
  <1> HIDE DEF n
  <1>4. /\ x \in Config
        /\ x.tgts = c.tgts /\ x.off = c.off /\ x.grps = c.grps
        /\ x.inis = c.inis /\ x.luns = c.luns /\ x.devs = c.devs \cup {n}
    BY <1>2, <1>3 DEF Config
  <1>5. WellFormed(c) =>
          \A v, w \in x.devs : v[1] = w[1] /\ (v[2] = w[2] \/ v[3] = w[3]) => v = w
    BY <1>1, <1>3, <1>4 DEF WellFormed
  <1>6. WellFormed(c) => \A l \in x.luns : \E v \in x.devs : v[2] = l[4]
    BY <1>4 DEF WellFormed
  <1> QED BY <1>4, <1>5, <1>6 DEF WellFormed

\* Another device of the same name may stay; no LUN refers to the one removed.
LEMMA DeleteDeviceOK ==
  ASSUME NEW o \in Operation, o.kind = "deleteDevice",
         NEW c \in Config, NEW x \in DeleteDevice(o, c)
  PROVE  x \in Config /\ (WellFormed(c) => WellFormed(x))
  <1>1. PICK v \in c.devs : /\ v[2] = o.d /\ \A l \in c.luns : l[4] # o.d
                            /\ x = [c EXCEPT !.devs = c.devs \ {v}]
    BY DEF DeleteDevice
  <1>2. /\ x \in Config
        /\ x.tgts = c.tgts /\ x.off = c.off /\ x.grps = c.grps
        /\ x.inis = c.inis /\ x.luns = c.luns /\ x.devs = c.devs \ {v}
    BY <1>1 DEF Config
  <1>3. WellFormed(c) => \A l \in x.luns : \E w \in x.devs : w[2] = l[4]
    <2> SUFFICES ASSUME WellFormed(c), NEW l \in c.luns
                 PROVE  \E w \in c.devs \ {v} : w[2] = l[4]
      BY <1>2
    <2>1. PICK w \in c.devs : w[2] = l[4]
      BY DEF WellFormed
    <2>2. w # v
      BY <1>1, <2>1
    <2> QED BY <2>1, <2>2
  <1> QED BY <1>2, <1>3 DEF WellFormed

LEMMA UpsertDeviceGroupOK ==
  ASSUME NEW o \in Operation, o.kind = "alua",
         NEW c \in Config, NEW x \in UpsertDeviceGroup(o, c)
  PROVE  x \in Config /\ (WellFormed(c) => WellFormed(x))
  <1>1. o.a \in Dg /\ x = [c EXCEPT !.alua = c.alua \cup {o.a}]
    BY DEF Operation, UpsertDeviceGroup
  <1>2. /\ x \in Config
        /\ x.tgts = c.tgts /\ x.off = c.off /\ x.grps = c.grps
        /\ x.inis = c.inis /\ x.luns = c.luns /\ x.devs = c.devs
    BY <1>1 DEF Config
  <1> QED BY <1>2 DEF WellFormed

\* Every mutator keeps a configuration typed and its promises.
LEMMA ResultsOK ==
  ASSUME NEW o \in Operation, NEW c \in Config, NEW x \in Results(o, c)
  PROVE  x \in Config /\ (WellFormed(c) => WellFormed(x))
  <1>1. o.kind \in {"createTarget", "deleteTarget", "setEnabled", "createGroup",
                    "deleteGroup", "addInitiator", "removeInitiator", "addLun",
                    "removeLun", "createDevice", "deleteDevice", "alua"}
    BY DEF Operation
  <1>2. CASE o.kind = "createTarget"
    BY <1>2, CreateTargetOK DEF Results
  <1>3. CASE o.kind = "deleteTarget"
    BY <1>3, DeleteTargetOK DEF Results
  <1>4. CASE o.kind = "setEnabled"
    BY <1>4, SetEnabledOK DEF Results
  <1>5. CASE o.kind = "createGroup"
    BY <1>5, CreateGroupOK DEF Results
  <1>6. CASE o.kind = "deleteGroup"
    BY <1>6, DeleteGroupOK DEF Results
  <1>7. CASE o.kind = "addInitiator"
    BY <1>7, AddInitiatorOK DEF Results
  <1>8. CASE o.kind = "removeInitiator"
    BY <1>8, RemoveInitiatorOK DEF Results
  <1>9. CASE o.kind = "addLun"
    BY <1>9, AddLunOK DEF Results
  <1>10. CASE o.kind = "removeLun"
    BY <1>10, RemoveLunOK DEF Results
  <1>11. CASE o.kind = "createDevice"
    BY <1>11, CreateDeviceOK DEF Results
  <1>12. CASE o.kind = "deleteDevice"
    BY <1>12, DeleteDeviceOK DEF Results
  <1>13. CASE o.kind = "alua"
    BY <1>13, UpsertDeviceGroupOK DEF Results
  <1> QED BY <1>1, <1>2, <1>3, <1>4, <1>5, <1>6, <1>7, <1>8, <1>9, <1>10, <1>11,
             <1>12, <1>13

\* A file that could not be read, or that a full disk emptied, breaks no promise.
LEMMA EmptyOK == Empty \in Config /\ WellFormed(Empty)
  <1>1. Empty \in Config
    BY DEF Empty, Config
  <1> QED BY <1>1 DEF Empty, WellFormed

-----------------------------------------------------------------------------
(* What is read of a text that ends too early is a configuration.           *)

\* A configuration is the record of its lists.
LEMMA ConfigFields ==
  ASSUME NEW c \in Config
  PROVE  /\ c = [tgts |-> c.tgts, off |-> c.off, grps |-> c.grps, inis |-> c.inis,
                 luns |-> c.luns, devs |-> c.devs, alua |-> c.alua]
         /\ c.tgts \subseteq Tgt /\ c.off \subseteq Tgt
         /\ c.grps \subseteq Tgt \X Grp /\ c.inis \subseteq Tgt \X Grp \X Ini
         /\ c.luns \subseteq Tgt \X Grp \X LunId \X Dev
         /\ c.devs \subseteq Handler \X Dev \X Backing /\ c.alua \subseteq Dg
  BY DEF Config

LEMMA FieldsConfig ==
  ASSUME NEW a \in SUBSET Tgt, NEW b \in SUBSET Tgt, NEW p \in SUBSET (Tgt \X Grp),
         NEW i \in SUBSET (Tgt \X Grp \X Ini), NEW l \in SUBSET (Tgt \X Grp \X LunId \X Dev),
         NEW v \in SUBSET (Handler \X Dev \X Backing), NEW g \in SUBSET Dg
  PROVE  [tgts |-> a, off |-> b, grps |-> p, inis |-> i, luns |-> l, devs |-> v, alua |-> g]
           \in Config
  BY DEF Config

LEMMA BegunIn ==
  ASSUME NEW U, NEW S \in SUBSET U, NEW cut, \A s \in S : cut[s] \subseteq U,
         NEW x \in Begun(S, cut)
  PROVE  x \subseteq U
  BY DEF Begun

\* What is left of a name is a name.
LEMMA LeftIn ==
  /\ \A x \in Tgt : Left[x] \subseteq Tgt
  /\ \A x \in Grp : Left[x] \subseteq Grp
  /\ \A x \in Ini : Left[x] \subseteq Ini
  /\ \A x \in Dev : Left[x] \subseteq Dev
  /\ \A x \in Backing : Left[x] \subseteq Backing
  /\ \A x \in Dg : Left[x] \subseteq Dg
  BY LeftAssumption

LEMMA InHandlerOK ==
  ASSUME NEW c \in Config, NEW H, NEW h \in Handler, NEW x \in InHandler(c, H, h)
  PROVE  x \in Config
  <1> DEFINE D == Handler \X Dev \X Backing
             V == {v \in c.devs : v[1] \in H}
             W == {v \in c.devs : v[1] \in {h}}
             cut == [v \in c.devs |-> {<<h, d, NoFile>> : d \in Left[v[2]]}
                                      \cup {<<h, v[2], f>> : f \in Left[v[3]]}]
  <1>1. PICK y \in Begun(W, cut) : x = [Empty EXCEPT !.devs = V \cup y]
    BY DEF InHandler
  <1>2. c.devs \subseteq D /\ V \subseteq D
    BY DEF Config
  <1>3. ASSUME NEW v \in W PROVE cut[v] \subseteq D
    <2>1. v \in c.devs /\ v[2] \in Dev /\ v[3] \in Backing
      BY <1>2
    <2>2. Left[v[2]] \subseteq Dev /\ Left[v[3]] \subseteq Backing
      BY <2>1, LeftIn
    <2> QED BY <2>1, <2>2, ConfigAssumption
  <1>4. W \in SUBSET D
    BY <1>2
  <1> HIDE DEF cut, V, W, D
  <1>5. y \subseteq D
    BY <1>1, <1>3, <1>4, BegunIn
  <1>6. V \cup y \subseteq D
    BY <1>2, <1>5
  <1> QED BY <1>1, <1>6 DEF Config, Empty, D

LEMMA UpToOK ==
  ASSUME NEW c \in Config, NEW T \in SUBSET Tgt, NEW t \in Tgt, NEW G
  PROVE  /\ UpTo(c, T, t, G) \in Config
         /\ UpTo(c, T, t, G).tgts = T \cup {t}
  <1> DEFINE read(S) == {s \in S : s[1] \in T \/ (s[1] = t /\ s[2] \in G)}
             K == T \cup {t}
             F == c.off \cap K
             P == read(c.grps)
             I == read(c.inis)
             L == read(c.luns)
  <1>1. UpTo(c, T, t, G) =
          [c EXCEPT !.tgts = K, !.off = F, !.alua = {}, !.grps = P, !.inis = I, !.luns = L]
    BY DEF UpTo
  <1>2. K \subseteq Tgt /\ F \subseteq c.off /\ P \subseteq c.grps
        /\ I \subseteq c.inis /\ L \subseteq c.luns
    OBVIOUS
  <1> HIDE DEF F, P, I, L, K
  <1>3. UpTo(c, T, t, G) = [tgts |-> K, off |-> F, grps |-> P, inis |-> I, luns |-> L,
                            devs |-> c.devs, alua |-> {}]
    <2>1. c = [tgts |-> c.tgts, off |-> c.off, grps |-> c.grps, inis |-> c.inis,
               luns |-> c.luns, devs |-> c.devs, alua |-> c.alua]
      BY ConfigFields
    <2> QED BY <1>1, <2>1
  <1>4. UpTo(c, T, t, G) \in Config
    <2>1. /\ K \in SUBSET Tgt /\ F \in SUBSET Tgt /\ P \in SUBSET (Tgt \X Grp)
          /\ I \in SUBSET (Tgt \X Grp \X Ini) /\ L \in SUBSET (Tgt \X Grp \X LunId \X Dev)
          /\ c.devs \in SUBSET (Handler \X Dev \X Backing) /\ {} \in SUBSET Dg
      BY <1>2, ConfigFields
    <2> QED BY <1>3, <2>1, FieldsConfig
  <1> QED BY <1>3, <1>4 DEF K

LEMMA InTargetOK ==
  ASSUME NEW c \in Config, NEW T \in SUBSET Tgt, NEW t \in Tgt, NEW x \in InTarget(c, T, t)
  PROVE  x \in Config
  <1> DEFINE b == UpTo(c, T, t, {})
  <1>1. b \in Config
    BY UpToOK
  <1>2. CASE x = b
    BY <1>1, <1>2
  <1>3. ASSUME NEW n \in Left[t], x = [b EXCEPT !.tgts = T \cup {n}, !.off = b.off \cap T]
        PROVE  x \in Config
    <2> DEFINE K == T \cup {n}
               F == b.off \cap T
    <2>1. K \subseteq Tgt /\ F \subseteq Tgt
      BY LeftIn
    <2>2. x = [b EXCEPT !.tgts = K, !.off = F]
      BY <1>3
    <2> HIDE DEF K, F, b
    <2>3. x = [tgts |-> K, off |-> F, grps |-> b.grps, inis |-> b.inis, luns |-> b.luns,
               devs |-> b.devs, alua |-> b.alua]
      <3>1. b = [tgts |-> b.tgts, off |-> b.off, grps |-> b.grps, inis |-> b.inis,
                 luns |-> b.luns, devs |-> b.devs, alua |-> b.alua]
        BY <1>1, ConfigFields
      <3> QED BY <2>2, <3>1
    <2> QED BY <1>1, <2>1, <2>3, ConfigFields, FieldsConfig
  <1>4. x = b \/ \E n \in Left[t] : x = [b EXCEPT !.tgts = T \cup {n}, !.off = b.off \cap T]
    BY Zenon DEF InTarget
  <1> HIDE DEF b
  <1> QED BY <1>2, <1>3, <1>4

LEMMA InGroupOfOK ==
  ASSUME NEW c \in Config, NEW T \in SUBSET Tgt, NEW t \in Tgt, NEW G, NEW g \in Grp,
         NEW x \in InGroupOf(c, T, t, G, g)
  PROVE  x \in Config
  <1> DEFINE b == UpTo(c, T, t, G)
             o == [t |-> t, g |-> g]
             I == InGroup(o, c.inis)
             L == InGroup(o, c.luns)
             cutI == [i \in I |-> {<<t, g, n>> : n \in Left[i[3]]}]
             cutL == [l \in L |-> {<<t, g, l[3], n>> : n \in Left[l[4]]}]
  <1>1. b \in Config
    BY UpToOK
  <1>2. I \in SUBSET (Tgt \X Grp \X Ini) /\ L \in SUBSET (Tgt \X Grp \X LunId \X Dev)
    BY DEF InGroup, Config
  <1>3. ASSUME NEW i \in I PROVE cutI[i] \subseteq Tgt \X Grp \X Ini
    <2>1. Left[i[3]] \subseteq Ini
      BY <1>2, LeftIn
    <2> QED BY <2>1
  <1>4. ASSUME NEW l \in L PROVE cutL[l] \subseteq Tgt \X Grp \X LunId \X Dev
    <2>1. Left[l[4]] \subseteq Dev /\ l[3] \in LunId
      BY <1>2, LeftIn
    <2> QED BY <2>1
  <1>5. \/ \E n \in Left[g] : x = [b EXCEPT !.grps = @ \cup {<<t, n>>}]
        \/ \E y \in Begun(I, cutI) : x = [b EXCEPT !.grps = @ \cup {<<t, g>>}, !.inis = @ \cup y]
        \/ \E y \in Begun(L, cutL) : x = [b EXCEPT !.grps = @ \cup {<<t, g>>},
                                                  !.inis = @ \cup I, !.luns = @ \cup y]
    BY Zenon DEF InGroupOf
  <1>6. /\ b = [tgts |-> b.tgts, off |-> b.off, grps |-> b.grps, inis |-> b.inis,
                luns |-> b.luns, devs |-> b.devs, alua |-> b.alua]
        /\ b.tgts \subseteq Tgt /\ b.off \subseteq Tgt
        /\ b.grps \subseteq Tgt \X Grp /\ b.inis \subseteq Tgt \X Grp \X Ini
        /\ b.luns \subseteq Tgt \X Grp \X LunId \X Dev
        /\ b.devs \subseteq Handler \X Dev \X Backing /\ b.alua \subseteq Dg
    BY <1>1, ConfigFields
  <1> HIDE DEF b
  <1>7. ASSUME NEW p \in SUBSET (Tgt \X Grp), NEW i \in SUBSET (Tgt \X Grp \X Ini),
               NEW l \in SUBSET (Tgt \X Grp \X LunId \X Dev),
               x = [tgts |-> b.tgts, off |-> b.off, grps |-> p, inis |-> i, luns |-> l,
                    devs |-> b.devs, alua |-> b.alua]
        PROVE  x \in Config
    BY <1>6, <1>7, FieldsConfig
  <1>8. {<<t, g>>} \cup {<<t, n>> : n \in Left[g]} \subseteq Tgt \X Grp
    <2>1. Left[g] \subseteq Grp
      BY LeftIn
    <2> QED BY <2>1
  <1> HIDE DEF I, L, cutI, cutL
  <1>9. ASSUME NEW y \in Begun(I, cutI) PROVE y \subseteq Tgt \X Grp \X Ini
    <2> DEFINE U == Tgt \X Grp \X Ini
    <2>1. I \in SUBSET U /\ \A i \in I : cutI[i] \subseteq U
      BY <1>2, <1>3
    <2> HIDE DEF U
    <2>2. y \subseteq U
      BY <1>9, <2>1, BegunIn
    <2> QED BY <2>2 DEF U
  <1>10. ASSUME NEW y \in Begun(L, cutL) PROVE y \subseteq Tgt \X Grp \X LunId \X Dev
    <2> DEFINE U == Tgt \X Grp \X LunId \X Dev
    <2>1. L \in SUBSET U /\ \A l \in L : cutL[l] \subseteq U
      BY <1>2, <1>4
    <2> HIDE DEF U
    <2>2. y \subseteq U
      BY <1>10, <2>1, BegunIn
    <2> QED BY <2>2 DEF U
  <1>11. ASSUME NEW n \in Left[g], x = [b EXCEPT !.grps = @ \cup {<<t, n>>}]
         PROVE  x \in Config
    <2>1. b.grps \cup {<<t, n>>} \in SUBSET (Tgt \X Grp)
      BY <1>6, <1>8
    <2>2. x = [tgts |-> b.tgts, off |-> b.off, grps |-> b.grps \cup {<<t, n>>}, inis |-> b.inis,
               luns |-> b.luns, devs |-> b.devs, alua |-> b.alua]
      BY <1>6, <1>11
    <2> QED BY <1>6, <1>7, <2>1, <2>2
  <1>12. ASSUME NEW y \in Begun(I, cutI),
                x = [b EXCEPT !.grps = @ \cup {<<t, g>>}, !.inis = @ \cup y]
         PROVE  x \in Config
    <2>1. b.grps \cup {<<t, g>>} \in SUBSET (Tgt \X Grp)
          /\ b.inis \cup y \in SUBSET (Tgt \X Grp \X Ini)
      BY <1>6, <1>8, <1>9
    <2>2. x = [tgts |-> b.tgts, off |-> b.off, grps |-> b.grps \cup {<<t, g>>},
               inis |-> b.inis \cup y, luns |-> b.luns, devs |-> b.devs, alua |-> b.alua]
      BY <1>6, <1>12
    <2> QED BY <1>6, <1>7, <2>1, <2>2
  <1>13. ASSUME NEW y \in Begun(L, cutL),
                x = [b EXCEPT !.grps = @ \cup {<<t, g>>}, !.inis = @ \cup I, !.luns = @ \cup y]
         PROVE  x \in Config
    <2>1. /\ b.grps \cup {<<t, g>>} \in SUBSET (Tgt \X Grp)
          /\ b.inis \cup I \in SUBSET (Tgt \X Grp \X Ini)
          /\ b.luns \cup y \in SUBSET (Tgt \X Grp \X LunId \X Dev)
      BY <1>2, <1>6, <1>8, <1>10
    <2>2. x = [tgts |-> b.tgts, off |-> b.off, grps |-> b.grps \cup {<<t, g>>},
               inis |-> b.inis \cup I, luns |-> b.luns \cup y, devs |-> b.devs, alua |-> b.alua]
      BY <1>6, <1>13
    <2> QED BY <1>6, <1>7, <2>1, <2>2
  <1> HIDE DEF o
  <1> QED BY <1>5, <1>11, <1>12, <1>13

LEMMA TruncatedOK ==
  ASSUME NEW c \in Config
  PROVE  Truncated(c) \subseteq Config /\ Empty \in Truncated(c)
  <1>1. Empty \in Config /\ [Empty EXCEPT !.devs = c.devs] \in Config
    BY DEF Config, Empty
  <1>2. ASSUME NEW x \in InAlua(c) PROVE x \in Config
    <2>1. PICK y \in {{}} \cup Begun(c.alua, [a \in c.alua |-> Left[a]]) :
            x = [c EXCEPT !.alua = y]
      BY DEF InAlua
    <2>2. c.alua \in SUBSET Dg /\ \A a \in c.alua : [b \in c.alua |-> Left[b]][a] \subseteq Dg
      BY LeftIn DEF Config
    <2>3. y \subseteq Dg
      BY <2>1, <2>2, BegunIn
    <2> QED BY <2>1, <2>3 DEF Config
  <1>3. c.tgts \subseteq Tgt
    BY DEF Config
  <1>4. ASSUME NEW t \in c.tgts, NEW T \in SUBSET (c.tgts \ {t}), NEW x \in InGroups(c, T, t)
        PROVE  x \in Config
    <2> DEFINE grps == {g \in Grp : <<t, g>> \in c.grps}
    <2>1. PICK g \in grps : x \in UNION {InGroupOf(c, T, t, G, g) : G \in SUBSET (grps \ {g})}
      BY DEF InGroups
    <2>2. PICK G \in SUBSET (grps \ {g}) : x \in InGroupOf(c, T, t, G, g)
      BY <2>1
    <2>3. t \in Tgt /\ T \in SUBSET Tgt /\ g \in Grp
      BY <1>3
    <2> QED BY <2>2, <2>3, InGroupOfOK
  <1>5. ASSUME NEW t \in c.tgts, NEW T \in SUBSET (c.tgts \ {t})
        PROVE  InTarget(c, T, t) \subseteq Config
    <2>1. t \in Tgt /\ T \in SUBSET Tgt
      BY <1>3
    <2> QED BY <2>1, InTargetOK
  <1>6. ASSUME NEW h \in Handler, NEW H PROVE InHandler(c, H, h) \subseteq Config
    BY InHandlerOK
  <1> DEFINE A == UNION {UNION {InHandler(c, H, h) : H \in SUBSET (Handler \ {h})} : h \in Handler}
             B == UNION {UNION {InTarget(c, T, t) \cup InGroups(c, T, t) :
                                  T \in SUBSET (c.tgts \ {t})} : t \in c.tgts}
  <1>7. A \subseteq Config
    BY <1>6
  <1>8. B \subseteq Config
    BY <1>4, <1>5
  <1>9. Truncated(c) = {Empty, [Empty EXCEPT !.devs = c.devs]} \cup InAlua(c) \cup A \cup B
    BY DEF Truncated
  <1> HIDE DEF A, B
  <1> QED BY <1>1, <1>2, <1>7, <1>8, <1>9

-----------------------------------------------------------------------------
(* The steps of a request.                                                  *)

\* A request that began has an operation and a path.
Started(r) == phase[r] # "idle" => op[r] \in Op /\ path[r] \in Path

\* One that did not has left no trace.
Fresh(r) ==
  phase[r] = "idle" => plan[r] = NoPlan /\ wrote[r] = {} /\ missed[r] = {} /\ ran[r] = {}

\* Only a change of the ALUA state is planned, and its plan covers every node of
\* the path before any is written.
Planned(r) ==
  /\ op[r].kind # "alua" => DOMAIN plan[r] = {}
  /\ phase[r] = "read" => op[r].kind # "alua"
  /\ phase[r] \in {"plan", "planned"} => op[r].kind = "alua"
  /\ \/ phase[r] = "planned"
     \/ phase[r] \in {"write", "reload"} /\ op[r].kind = "alua"
     => DOMAIN plan[r] = Nodes(r)

\* What it will write was checked, unless part of a text was read.
Checked(r) ==
  /\ phase[r] = "write" /\ op[r].kind # "alua" /\ Here(r) \notin torn => WellFormed(new[r])
  /\ \A n \in DOMAIN plan[r] \ torn : WellFormed(plan[r][n])

\* A node has executed only after its file was written or the write was missed,
\* and the answer says no more than that.
Counted(r) ==
  /\ ran[r] \subseteq wrote[r] \cup missed[r]
  /\ phase[r] = "reload" => Here(r) \in wrote[r] \cup missed[r]
  /\ phase[r] # "done" => reply[r] = "none"
  /\ reply[r] = "ok" => wrote[r] \cup missed[r] = Nodes(r)
  /\ reply[r] = "partial" => wrote[r] \cup missed[r] # {}

\* What it will write is a result of its mutator on the file that is there, unless
\* that file was replaced since, or misread.
Pending(r) ==
  /\ phase[r] = "write" /\ op[r].kind # "alua" =>
       <<r, Here(r)>> \in stale \/ new[r] \in Results(op[r], file[Here(r)])
  /\ \A i \in 1..Len(path[r]) :
       /\ path[r][i] \in DOMAIN plan[r]
       /\ \/ phase[r] \in {"plan", "planned"}
          \/ phase[r] = "write" /\ i >= at[r]
          \/ phase[r] = "reload" /\ i > at[r]
       => <<r, path[r][i]>> \in stale \/ plan[r][path[r][i]] \in Results(op[r], file[path[r][i]])

RInv(r) == Started(r) /\ Fresh(r) /\ Planned(r) /\ Checked(r) /\ Counted(r) /\ Pending(r)

IInv == TypeOK /\ ConfigIntegrity /\ \A r \in Req : RInv(r)

\* A request that began stands at a node of its path.
LEMMA Place ==
  ASSUME TypeOK, NEW r \in Req, Started(r), phase[r] # "idle"
  PROVE  /\ path[r] \in Seq(Node) /\ Len(path[r]) \in Nat
         /\ at[r] \in 1..Len(path[r])
         /\ Here(r) \in Nodes(r) /\ Nodes(r) \subseteq Node
         /\ \A i, j \in 1..Len(path[r]) : path[r][i] = path[r][j] => i = j
  <1>1. path[r] \in Seq(Node) /\ at[r] \in Nat /\ at[r] <= Len(path[r]) /\ at[r] > 0
    BY PathAssumption DEF TypeOK, Started
  <1>2. Len(path[r]) \in Nat /\ DOMAIN path[r] = 1..Len(path[r])
    BY <1>1
  <1>3. at[r] \in 1..Len(path[r])
    BY <1>1, <1>2
  <1>4. Here(r) \in Nodes(r) /\ Nodes(r) \subseteq Node
    BY <1>1, <1>2, <1>3 DEF Here, Nodes
  <1>5. \A i, j \in 1..Len(path[r]) : path[r][i] = path[r][j] => i = j
    BY <1>2, PathAssumption DEF Started
  <1> QED BY <1>1, <1>2, <1>3, <1>4, <1>5

\* The loop leaves the other requests alone, stays on the path and answers when
\* it stops.
LEMMA AdvanceSteps ==
  ASSUME TypeOK, NEW r \in Req, Started(r), phase[r] # "idle",
         NEW done, NEW failed \in BOOLEAN, Advance(r, done, failed)
  PROVE  /\ op' = op /\ path' = path /\ plan' = plan /\ ran' = [ran EXCEPT ![r] = done]
         /\ phase' \in [Req -> Phase] /\ at' \in [Req -> Nat]
         /\ reply' \in [Req -> {"none", "ok", "partial", "rejected"}]
         /\ \A q \in Req \ {r} : phase'[q] = phase[q] /\ at'[q] = at[q] /\ reply'[q] = reply[q]
         /\ at'[r] \in 1..Len(path[r])
         /\ \/ /\ phase'[r] = IF op[r].kind = "alua" THEN "write" ELSE "read"
               /\ at'[r] = at[r] + 1 /\ reply'[r] = reply[r]
               /\ op[r].kind = "alua" => ~failed
            \/ /\ phase'[r] = "done" /\ at'[r] = at[r] /\ reply'[r] = Outcome(r, done)
  <1> DEFINE go == IF op[r].kind = "alua" THEN "write" ELSE "read"
  <1>1. at[r] \in 1..Len(path[r]) /\ Len(path[r]) \in Nat
    BY Place
  <1>2. go \in Phase /\ "done" \in Phase
    BY DEF Phase
  <1>3. Outcome(r, done) \in {"none", "ok", "partial", "rejected"}
    BY DEF Outcome
  <1>4. op' = op /\ path' = path /\ plan' = plan /\ ran' = [ran EXCEPT ![r] = done]
    BY DEF Advance
  <1>5. phase \in [Req -> Phase] /\ at \in [Req -> Nat]
        /\ reply \in [Req -> {"none", "ok", "partial", "rejected"}]
    BY DEF TypeOK
  <1>6. \/ /\ at[r] # Len(path[r]) /\ (op[r].kind = "alua" => ~failed)
           /\ at' = [at EXCEPT ![r] = at[r] + 1] /\ phase' = [phase EXCEPT ![r] = go]
           /\ reply' = reply
        \/ /\ phase' = [phase EXCEPT ![r] = "done"] /\ at' = at
           /\ reply' = [reply EXCEPT ![r] = Outcome(r, done)]
    BY DEF Advance
  <1> HIDE DEF go
  <1>7. phase' \in [Req -> Phase] /\ at' \in [Req -> Nat]
        /\ reply' \in [Req -> {"none", "ok", "partial", "rejected"}]
    BY <1>1, <1>2, <1>3, <1>5, <1>6
  <1>8. \A q \in Req \ {r} : phase'[q] = phase[q] /\ at'[q] = at[q] /\ reply'[q] = reply[q]
    BY <1>5, <1>6
  <1>9. \/ /\ phase'[r] = go /\ at'[r] = at[r] + 1 /\ reply'[r] = reply[r]
           /\ op[r].kind = "alua" => ~failed
           /\ at[r] # Len(path[r])
        \/ /\ phase'[r] = "done" /\ at'[r] = at[r] /\ reply'[r] = Outcome(r, done)
    BY <1>5, <1>6
  <1>10. at'[r] \in 1..Len(path[r])
    BY <1>1, <1>9
  <1> USE DEF go
  <1> QED BY <1>4, <1>7, <1>8, <1>9, <1>10

LEMMA InitOK == Init => IInv
  <1> SUFFICES ASSUME Init PROVE IInv
    OBVIOUS
  <1>1. NoPlan \in [DOMAIN NoPlan -> Config] /\ DOMAIN NoPlan = {}
    BY DEF NoPlan
  <1>2. TypeOK
    <2>1. plan = [r \in Req |-> NoPlan]
      BY DEF Init
    <2>2. DOMAIN plan = Req /\ \A r \in Req : plan[r] \in [DOMAIN plan[r] -> Config]
      BY <2>1, <1>1
    <2>3. path = [r \in Req |-> <<>>] /\ at = [r \in Req |-> 0] /\ phase = [r \in Req |-> "idle"]
      BY DEF Init
    <2>4. \A r \in Req : at[r] <= Len(path[r]) /\ (phase[r] # "idle" => at[r] > 0)
      BY <2>3
    <2>5. \A r \in Req : DOMAIN plan[r] \cup wrote[r] \cup missed[r] \cup ran[r] \subseteq Nodes(r)
      BY <2>1, <1>1 DEF Init
    <2> QED BY <2>2, <2>3, <2>4, <2>5, EmptyOK DEF Init, TypeOK, Phase
  <1>3. ConfigIntegrity
    BY InitAssumption DEF Init, ConfigIntegrity
  <1>4. ASSUME NEW r \in Req PROVE RInv(r)
    <2>1. /\ phase[r] = "idle" /\ plan[r] = NoPlan /\ wrote[r] = {} /\ missed[r] = {}
          /\ ran[r] = {} /\ reply[r] = "none" /\ new[r] = Empty
      BY DEF Init
    <2> QED BY <2>1, <1>1, EmptyOK DEF RInv, Started, Fresh, Planned, Checked, Counted, Pending
  <1> QED BY <1>2, <1>3, <1>4 DEF IInv

\* A request that takes no step keeps its invariant, whatever is written meanwhile:
\* when a file it has read is replaced, that is on record.
LEMMA Others ==
  ASSUME TypeOK, NEW q \in Req, RInv(q),
         phase'[q] = phase[q], op'[q] = op[q], path'[q] = path[q], at'[q] = at[q],
         new'[q] = new[q], plan'[q] = plan[q], wrote'[q] = wrote[q],
         missed'[q] = missed[q], ran'[q] = ran[q], reply'[q] = reply[q],
         stale \subseteq stale', torn \subseteq torn',
         \A n \in Node : \/ file'[n] = file[n] \/ <<q, n>> \in stale'
                         \/ /\ n \notin DOMAIN plan[q]
                            /\ ~(phase[q] = "write" /\ op[q].kind # "alua" /\ Here(q) = n)
  PROVE  RInv(q)'
  <1>1. Here(q)' = Here(q) /\ Nodes(q)' = Nodes(q)
    BY DEF Here, Nodes
  <1>2. Started(q)' /\ Fresh(q)' /\ Planned(q)' /\ Checked(q)' /\ Counted(q)'
    BY <1>1 DEF RInv, Started, Fresh, Planned, Checked, Counted
  <1>3. CASE phase[q] = "idle"
    <2>1. DOMAIN plan[q] = {}
      BY <1>3 DEF RInv, Fresh, NoPlan
    <2> QED BY <1>2, <1>3, <2>1 DEF RInv, Pending
  <1>4. CASE phase[q] # "idle"
    <2>1. Here(q) \in Node /\ Nodes(q) \subseteq Node
      BY <1>4, Place DEF RInv
    <2>2. \A i \in 1..Len(path[q]) : path[q][i] \in Node
      BY <2>1 DEF Nodes
    <2>3. phase[q] = "write" /\ op[q].kind # "alua" =>
            <<q, Here(q)>> \in stale' \/ new[q] \in Results(op[q], file'[Here(q)])
      BY <2>1 DEF RInv, Pending
    <2>4. \A i \in 1..Len(path[q]) :
            /\ path[q][i] \in DOMAIN plan[q]
            /\ \/ phase[q] \in {"plan", "planned"}
               \/ phase[q] = "write" /\ i >= at[q]
               \/ phase[q] = "reload" /\ i > at[q]
            => \/ <<q, path[q][i]>> \in stale'
               \/ plan[q][path[q][i]] \in Results(op[q], file'[path[q][i]])
      BY <2>2 DEF RInv, Pending
    <2>5. Pending(q)'
      BY <1>1, <2>3, <2>4 DEF Pending
    <2> QED BY <1>2, <2>5 DEF RInv
  <1> QED BY <1>3, <1>4

LEMMA BeginOK ==
  ASSUME IInv, NEW r \in Req, Begin(r)
  PROVE  IInv'
  <1>1. PICK o \in Op, p \in Path :
          /\ op' = [op EXCEPT ![r] = o] /\ path' = [path EXCEPT ![r] = p]
          /\ phase' = [phase EXCEPT ![r] = IF o.kind = "alua" THEN "plan" ELSE "read"]
    BY DEF Begin
  <1>2. /\ phase[r] = "idle" /\ at' = [at EXCEPT ![r] = 1]
        /\ UNCHANGED <<file, live, new, plan, wrote, missed, stale, torn, ran, reply>>
    BY DEF Begin
  <1>3. TypeOK /\ RInv(r)
    BY DEF IInv
  <1>4. plan[r] = NoPlan /\ DOMAIN plan[r] = {} /\ wrote[r] = {} /\ missed[r] = {} /\ ran[r] = {}
    BY <1>2, <1>3 DEF RInv, Fresh, NoPlan
  <1>5. p \in Seq(Node) /\ Len(p) \in Nat /\ Len(p) >= 1
    BY PathAssumption
  <1>6. /\ op'[r] = o /\ path'[r] = p /\ at'[r] = 1
        /\ phase'[r] = IF o.kind = "alua" THEN "plan" ELSE "read"
        /\ \A q \in Req \ {r} : /\ op'[q] = op[q] /\ path'[q] = path[q]
                                /\ at'[q] = at[q] /\ phase'[q] = phase[q]
    BY <1>1, <1>2, <1>3 DEF TypeOK
  <1>7. TypeOK'
    <2>1. phase' \in [Req -> Phase] /\ op' \in [Req -> Op \cup {NoOp}]
      BY <1>1, <1>3 DEF TypeOK, Phase
    <2>2. path' \in [Req -> Path \cup {<<>>}] /\ at' \in [Req -> Nat]
      BY <1>1, <1>2, <1>3 DEF TypeOK
    <2>3. ASSUME NEW q \in Req
          PROVE  at'[q] <= Len(path'[q]) /\ (phase'[q] # "idle" => at'[q] > 0)
      <3>1. CASE q = r
        BY <1>5, <1>6, <3>1
      <3>2. CASE q # r
        BY <1>3, <1>6, <3>2 DEF TypeOK
      <3> QED BY <3>1, <3>2
    <2>4. ASSUME NEW q \in Req
          PROVE  DOMAIN plan[q] \cup wrote[q] \cup missed[q] \cup ran[q] \subseteq Nodes(q)'
      <3>1. CASE q = r
        BY <1>4, <3>1
      <3>2. CASE q # r
        <4>1. Nodes(q)' = Nodes(q)
          BY <1>6, <3>2 DEF Nodes
        <4> QED BY <1>3, <4>1 DEF TypeOK
      <3> QED BY <3>1, <3>2
    <2> QED BY <1>2, <1>3, <2>1, <2>2, <2>3, <2>4 DEF TypeOK
  <1>8. ConfigIntegrity'
    BY <1>2 DEF IInv, ConfigIntegrity
  <1>9. RInv(r)'
    <2>1. Started(r)' /\ Fresh(r)' /\ Planned(r)' /\ Pending(r)'
      BY <1>2, <1>4, <1>6 DEF Started, Fresh, Planned, Pending
    <2>2. Checked(r)'
      BY <1>2, <1>4, <1>6 DEF Checked
    <2>3. Counted(r)'
      BY <1>2, <1>3, <1>4, <1>6 DEF RInv, Counted
    <2> QED BY <2>1, <2>2, <2>3 DEF RInv
  <1>10. ASSUME NEW q \in Req \ {r} PROVE RInv(q)'
    BY <1>2, <1>3, <1>6, Others DEF IInv
  <1> QED BY <1>7, <1>8, <1>9, <1>10 DEF IInv

\* What the loop leaves of the other requests.
LEMMA AdvanceLeaves ==
  ASSUME TypeOK, NEW r \in Req, Started(r), phase[r] # "idle",
         NEW done, NEW failed \in BOOLEAN, Advance(r, done, failed),
         NEW q \in Req \ {r}
  PROVE  /\ op' = op /\ path' = path /\ plan' = plan /\ ran'[q] = ran[q]
         /\ phase'[q] = phase[q] /\ at'[q] = at[q] /\ reply'[q] = reply[q]
  <1>1. /\ op' = op /\ path' = path /\ plan' = plan /\ ran' = [ran EXCEPT ![r] = done]
        /\ phase'[q] = phase[q] /\ at'[q] = at[q] /\ reply'[q] = reply[q]
    BY AdvanceSteps
  <1> QED BY <1>1 DEF TypeOK

\* Types are kept by a step that ends in the loop.
LEMMA AdvanceTypes ==
  ASSUME TypeOK, NEW r \in Req, Started(r), phase[r] # "idle",
         NEW done \in SUBSET Nodes(r), NEW failed \in BOOLEAN, Advance(r, done, failed),
         file' \in [Node -> Config], live' \in [Node -> Config], new' \in [Req -> Config],
         wrote' \in [Req -> SUBSET Node], missed' \in [Req -> SUBSET Node],
         \A q \in Req : wrote'[q] \cup missed'[q] \subseteq Nodes(q),
         stale' \subseteq Req \X Node, torn' \subseteq Node
  PROVE  TypeOK'
  <1>1. /\ op' = op /\ path' = path /\ plan' = plan /\ ran' = [ran EXCEPT ![r] = done]
        /\ phase' \in [Req -> Phase] /\ at' \in [Req -> Nat]
        /\ reply' \in [Req -> {"none", "ok", "partial", "rejected"}]
        /\ \A q \in Req \ {r} : phase'[q] = phase[q] /\ at'[q] = at[q]
        /\ at'[r] \in 1..Len(path[r])
    BY AdvanceSteps
  <1>2. Nodes(r) \subseteq Node
    BY Place
  <1>3. ran' \in [Req -> SUBSET Node]
    BY <1>1, <1>2 DEF TypeOK
  <1>4. ASSUME NEW q \in Req
        PROVE  at'[q] <= Len(path'[q]) /\ (phase'[q] # "idle" => at'[q] > 0)
    <2>1. CASE q = r
      <3>1. Len(path[r]) \in Nat
        BY Place
      <3> QED BY <1>1, <2>1, <3>1
    <2>2. CASE q # r
      BY <1>1, <2>2 DEF TypeOK
    <2> QED BY <2>1, <2>2
  <1>5. ASSUME NEW q \in Req
        PROVE  DOMAIN plan'[q] \cup wrote'[q] \cup missed'[q] \cup ran'[q] \subseteq Nodes(q)'
    <2>1. Nodes(q)' = Nodes(q)
      BY <1>1 DEF Nodes
    <2>2. ran'[q] \subseteq Nodes(q)
      BY <1>1 DEF TypeOK
    <2> QED BY <1>1, <2>1, <2>2 DEF TypeOK
  <1>6. DOMAIN plan' = Req /\ \A q \in Req : plan'[q] \in [DOMAIN plan'[q] -> Config]
    BY <1>1 DEF TypeOK
  <1>7. op' \in [Req -> Op \cup {NoOp}] /\ path' \in [Req -> Path \cup {<<>>}]
    BY <1>1 DEF TypeOK
  <1> QED BY <1>1, <1>3, <1>4, <1>5, <1>6, <1>7 DEF TypeOK

\* So is the invariant of the request.
LEMMA AdvanceKeeps ==
  ASSUME TypeOK, NEW r \in Req, RInv(r), phase[r] \in {"read", "write", "reload"},
         NEW done \in SUBSET Nodes(r), NEW failed \in BOOLEAN, Advance(r, done, failed),
         new'[r] = new[r], stale \subseteq stale', torn \subseteq torn',
         wrote[r] \cup missed[r] \subseteq wrote'[r] \cup missed'[r],
         done \subseteq wrote'[r] \cup missed'[r],
         wrote'[r] \cup missed'[r] \subseteq Nodes(r),
         op[r].kind = "alua" /\ ~failed => phase[r] = "reload" /\ file' = file
  PROVE  RInv(r)'
  <1>1. Started(r) /\ Planned(r) /\ Checked(r) /\ Counted(r) /\ Pending(r) /\ phase[r] # "idle"
    BY DEF RInv
  <1>2. /\ op' = op /\ path' = path /\ plan' = plan /\ ran'[r] = done
        /\ at'[r] \in 1..Len(path[r])
        /\ \/ /\ phase'[r] = IF op[r].kind = "alua" THEN "write" ELSE "read"
              /\ at'[r] = at[r] + 1 /\ reply'[r] = reply[r]
              /\ op[r].kind = "alua" => ~failed
           \/ /\ phase'[r] = "done" /\ at'[r] = at[r] /\ reply'[r] = Outcome(r, done)
    BY <1>1, AdvanceSteps DEF TypeOK
  <1>3. at[r] \in 1..Len(path[r]) /\ Len(path[r]) \in Nat /\ Nodes(r)' = Nodes(r)
    BY <1>1, <1>2, Place DEF Nodes
  <1>4. Started(r)' /\ Fresh(r)' /\ Checked(r)'
    BY <1>1, <1>2 DEF Started, Fresh, Checked
  <1>5. Planned(r)'
    BY <1>1, <1>2, <1>3 DEF Planned
  <1>6. Counted(r)'
    <2>1. ran'[r] \subseteq wrote'[r] \cup missed'[r]
      BY <1>2
    <2>2. reply[r] = "none"
      BY <1>1 DEF Counted
    <2>3. reply'[r] = "ok" => done = Nodes(r)
      BY <1>2, <2>2 DEF Outcome
    <2>4. reply'[r] = "partial" => done # {}
      BY <1>2, <2>2 DEF Outcome
    <2>5. phase'[r] # "done" => reply'[r] = "none"
      BY <1>2, <2>2
    <2> QED BY <1>2, <1>3, <2>1, <2>3, <2>4, <2>5 DEF Counted
  <1>7. Pending(r)'
    <2>1. CASE phase'[r] = "write"
      <3>1. op[r].kind = "alua" /\ phase[r] = "reload" /\ file' = file /\ at'[r] = at[r] + 1
        BY <1>2, <2>1
      <3>2. \A i \in 1..Len(path[r]) : i >= at'[r] => i > at[r]
        BY <1>3, <3>1
      <3> QED BY <1>1, <1>2, <2>1, <3>1, <3>2 DEF Pending
    <2>2. CASE phase'[r] # "write"
      BY <1>2, <2>2 DEF Pending
    <2> QED BY <2>1, <2>2
  <1> QED BY <1>4, <1>5, <1>6, <1>7 DEF RInv

\* What a failed read shows is on record.
LEMMA SeenOK ==
  ASSUME IInv, NEW n \in Node, NEW c \in Seen(n), Tears(n, c, file[n])
  PROVE  /\ c \in Config /\ torn \subseteq torn' /\ torn' \subseteq Node
         /\ n \notin torn' => WellFormed(c)
  <1>1. file[n] \in Config /\ torn \subseteq Node /\ (n \notin torn => WellFormed(file[n]))
    BY DEF IInv, TypeOK, ConfigIntegrity
  <1>2. c \in {file[n], Empty} \cup Truncated(file[n])
    BY DEF Seen, Contents, CutShort
  <1>3. c \in Config
    BY <1>1, <1>2, EmptyOK, TruncatedOK
  <1>4. torn' = torn \cup {n : x \in {c} \ {file[n], Empty}}
    BY DEF Tears
  <1>5. n \notin torn' => n \notin torn /\ c \in {file[n], Empty}
    BY <1>4
  <1> QED BY <1>1, <1>3, <1>4, <1>5, EmptyOK

LEMMA MisreadIs ==
  ASSUME NEW r, NEW n, NEW c, c # file[n]
  PROVE  <<r, n>> \in Misread(r, n, c)
  BY DEF Misread, Contents

LEMMA MisreadOf ==
  ASSUME NEW r \in Req, NEW n \in Node, NEW c
  PROVE  Misread(r, n, c) \subseteq Req \X Node
  BY DEF Misread

\* A request that gives up on a node keeps the invariant.
LEMMA GiveUpOK ==
  ASSUME IInv, NEW r \in Req, phase[r] \in {"read", "write", "reload"}, NodeFailed(r),
         UNCHANGED <<file, new, wrote, missed, stale, torn>>, ConfigIntegrity',
         live' \in [Node -> Config]
  PROVE  IInv'
  <1>1. Advance(r, ran[r], TRUE)
    BY DEF NodeFailed
  <1>2. TypeOK /\ RInv(r) /\ Started(r) /\ Counted(r)
    BY DEF IInv, RInv
  <1>3. ran[r] \in SUBSET Nodes(r)
    BY <1>2 DEF TypeOK
  <1>4. TypeOK'
    BY <1>1, <1>2, <1>3, AdvanceTypes DEF TypeOK
  <1>5. RInv(r)'
    BY <1>1, <1>2, <1>3, AdvanceKeeps DEF TypeOK, Counted
  <1>6. ASSUME NEW q \in Req \ {r} PROVE RInv(q)'
    <2>1. /\ op' = op /\ path' = path /\ plan' = plan /\ ran'[q] = ran[q]
          /\ phase'[q] = phase[q] /\ at'[q] = at[q] /\ reply'[q] = reply[q]
      BY <1>1, <1>2, AdvanceLeaves
    <2> QED BY <2>1, Others DEF IInv
  <1> QED BY <1>4, <1>5, <1>6 DEF IInv

LEMMA SkipOK ==
  ASSUME IInv, NEW r \in Req, Skip(r)
  PROVE  IInv'
  <1>1. /\ phase[r] \in {"read", "write"} /\ NodeFailed(r)
        /\ UNCHANGED <<file, live, new, wrote, missed, stale, torn>>
    BY DEF Skip
  <1>2. ConfigIntegrity' /\ live' \in [Node -> Config]
    BY <1>1 DEF IInv, TypeOK, ConfigIntegrity
  <1> QED BY <1>1, <1>2, GiveUpOK

LEMMA ReadOK ==
  ASSUME IInv, NEW r \in Req, Read(r)
  PROVE  IInv'
  <1>1. phase[r] = "read" /\ UNCHANGED <<file, live, wrote, missed>>
    BY DEF Read
  <1>2. TypeOK /\ RInv(r) /\ Started(r) /\ Planned(r)
    BY DEF IInv, RInv
  <1>3. live' \in [Node -> Config]
    BY <1>1, <1>2 DEF TypeOK
  <1>4. CASE NodeFailed(r) /\ UNCHANGED <<new, stale, torn>>
    <2>1. ConfigIntegrity'
      BY <1>1, <1>4 DEF IInv, ConfigIntegrity
    <2> QED BY <1>1, <1>3, <1>4, <2>1, GiveUpOK
  <1>5. ASSUME NEW c \in Seen(Here(r)), NEW x \in Results(op[r], c),
               new' = [new EXCEPT ![r] = x],
               phase' = [phase EXCEPT ![r] = "write"],
               stale' = stale \cup Misread(r, Here(r), c),
               Tears(Here(r), c, file[Here(r)]),
               UNCHANGED <<at, ran, reply, op, path, plan>>
        PROVE  IInv'
    <2>1. Here(r) \in Nodes(r) /\ Nodes(r) \subseteq Node
      BY <1>1, <1>2, Place
    <2>2. op[r] \in Operation /\ op[r].kind # "alua"
      BY <1>1, <1>2 DEF Started, Planned
    <2>3. /\ x \in Config /\ torn \subseteq torn' /\ torn' \subseteq Node
          /\ Here(r) \notin torn' => WellFormed(x)
      BY <1>5, <2>1, <2>2, SeenOK, ResultsOK
    <2>9. ConfigIntegrity'
      BY <1>1, <2>3 DEF IInv, ConfigIntegrity
    <2>4. stale' \subseteq Req \X Node /\ stale \subseteq stale'
      BY <1>2, <1>5, <2>1, MisreadOf DEF TypeOK
    <2>5. /\ new'[r] = x /\ phase'[r] = "write"
          /\ \A q \in Req \ {r} : new'[q] = new[q] /\ phase'[q] = phase[q]
      BY <1>2, <1>5 DEF TypeOK
    <2>6. TypeOK'
      <3>1. new' \in [Req -> Config] /\ phase' \in [Req -> Phase]
        BY <1>2, <1>5, <2>3 DEF TypeOK, Phase
      <3>2. \A q \in Req : at[q] <= Len(path[q]) /\ (phase'[q] # "idle" => at[q] > 0)
        BY <1>1, <1>2, <2>5 DEF TypeOK
      <3>3. \A q \in Req : Nodes(q)' = Nodes(q)
        BY <1>5 DEF Nodes
      <3> QED BY <1>1, <1>2, <1>5, <2>3, <2>4, <3>1, <3>2, <3>3 DEF TypeOK
    <2>7. RInv(r)'
      <3>1. Here(r)' = Here(r) /\ Nodes(r)' = Nodes(r)
        BY <1>5 DEF Here, Nodes
      <3>2. Started(r)' /\ Fresh(r)' /\ Planned(r)'
        BY <1>1, <1>2, <1>5, <2>2, <2>5 DEF Started, Fresh, Planned
      <3>3. Checked(r)' /\ Counted(r)'
        <4>1. DOMAIN plan[r] = {}
          BY <1>2, <2>2 DEF Planned
        <4> QED BY <1>1, <1>2, <1>5, <2>3, <2>5, <3>1, <4>1 DEF RInv, Checked, Counted
      <3>4. Pending(r)'
        <4>1. <<r, Here(r)>> \in stale' \/ new'[r] \in Results(op[r], file[Here(r)])
          BY <1>5, <2>5, MisreadIs
        <4>2. DOMAIN plan[r] = {}
          BY <1>2, <2>2 DEF Planned
        <4> QED BY <1>1, <1>5, <2>5, <3>1, <4>1, <4>2 DEF Pending
      <3> QED BY <3>2, <3>3, <3>4 DEF RInv
    <2>8. ASSUME NEW q \in Req \ {r} PROVE RInv(q)'
      BY <1>1, <1>5, <2>3, <2>4, <2>5, Others DEF IInv
    <2> QED BY <2>6, <2>7, <2>8, <2>9 DEF IInv
  <1> QED BY <1>4, <1>5 DEF Read

LEMMA PlanNodeOK ==
  ASSUME IInv, NEW r \in Req, PlanNode(r)
  PROVE  IInv'
  <1>1. /\ phase[r] = "plan"
        /\ UNCHANGED <<file, live, op, path, at, new, wrote, missed, ran>>
    BY DEF PlanNode
  <1>2. TypeOK /\ RInv(r) /\ Started(r) /\ Planned(r) /\ Checked(r) /\ Counted(r) /\ Pending(r)
    BY DEF IInv, RInv
  <1>3. torn \subseteq torn' => ConfigIntegrity'
    BY <1>1 DEF IInv, ConfigIntegrity
  <1>4. at[r] \in 1..Len(path[r]) /\ Len(path[r]) \in Nat /\ Nodes(r) \subseteq Node
    BY <1>1, <1>2, Place
  <1>5. \A q \in Req : Here(q)' = Here(q) /\ Nodes(q)' = Nodes(q)
    BY <1>1 DEF Here, Nodes
  <1>6. CASE /\ phase' = [phase EXCEPT ![r] = "done"]
             /\ reply' = [reply EXCEPT ![r] = "rejected"]
             /\ UNCHANGED <<plan, stale, torn>>
    <2>1. /\ phase'[r] = "done" /\ reply'[r] = "rejected"
          /\ \A q \in Req \ {r} : phase'[q] = phase[q] /\ reply'[q] = reply[q]
      BY <1>2, <1>6 DEF TypeOK
    <2>2. TypeOK'
      <3>1. phase' \in [Req -> Phase] /\ reply' \in [Req -> {"none", "ok", "partial", "rejected"}]
        BY <1>2, <1>6 DEF TypeOK, Phase
      <3>2. \A q \in Req : at[q] <= Len(path[q]) /\ (phase'[q] # "idle" => at[q] > 0)
        BY <1>1, <1>2, <2>1 DEF TypeOK
      <3> QED BY <1>1, <1>2, <1>5, <1>6, <3>1, <3>2 DEF TypeOK
    <2>3. RInv(r)'
      <3>1. Started(r)' /\ Fresh(r)' /\ Planned(r)' /\ Pending(r)'
        BY <1>1, <1>2, <1>6, <2>1 DEF Started, Fresh, Planned, Pending
      <3>2. Checked(r)' /\ Counted(r)'
        BY <1>1, <1>2, <1>6, <2>1 DEF Checked, Counted
      <3> QED BY <3>1, <3>2 DEF RInv
    <2>4. ASSUME NEW q \in Req \ {r} PROVE RInv(q)'
      BY <1>1, <1>2, <1>6, <2>1, Others DEF IInv
    <2> QED BY <1>3, <1>6, <2>2, <2>3, <2>4 DEF IInv
  <1>7. ASSUME NEW n \in Nodes(r) \ DOMAIN plan[r], NEW c \in Seen(n), NEW x \in Results(op[r], c),
               plan' = [plan EXCEPT ![r] =
                          [m \in DOMAIN plan[r] \cup {n} |-> IF m = n THEN x ELSE plan[r][m]]],
               phase' = [phase EXCEPT ![r] =
                           IF Nodes(r) = DOMAIN plan'[r] THEN "planned" ELSE "plan"],
               stale' = stale \cup Misread(r, n, c), Tears(n, c, file[n]),
               reply' = reply
        PROVE  IInv'
    <2> DEFINE P == [m \in DOMAIN plan[r] \cup {n} |-> IF m = n THEN x ELSE plan[r][m]]
    <2>1. op[r] \in Operation /\ op[r].kind = "alua"
      BY <1>1, <1>2 DEF Started, Planned
    <2>2. /\ x \in Config /\ n \in Node /\ torn \subseteq torn' /\ torn' \subseteq Node
          /\ n \notin torn' => WellFormed(x)
      BY <1>4, <1>7, <2>1, SeenOK, ResultsOK
    <2>3. stale' \subseteq Req \X Node /\ stale \subseteq stale'
      BY <1>2, <1>7, <2>2, MisreadOf DEF TypeOK
    <2>4. /\ DOMAIN P = DOMAIN plan[r] \cup {n} /\ P[n] = x
          /\ \A m \in DOMAIN plan[r] : P[m] = plan[r][m]
      BY <1>7
    <2>5. plan' = [plan EXCEPT ![r] = P]
      BY <1>7
    <2> HIDE DEF P
    <2>6. DOMAIN plan = Req
      BY <1>2 DEF TypeOK
    <2>7. DOMAIN plan' = Req /\ plan'[r] = P /\ \A q \in Req \ {r} : plan'[q] = plan[q]
      BY <2>5, <2>6
    <2>8. /\ phase'[r] = IF Nodes(r) = DOMAIN P THEN "planned" ELSE "plan"
          /\ \A q \in Req \ {r} : phase'[q] = phase[q]
      BY <1>2, <1>7, <2>7 DEF TypeOK
    <2>9. TypeOK'
      <3>1. phase' \in [Req -> Phase]
        BY <1>2, <1>7 DEF TypeOK, Phase
      <3>2. \A q \in Req : at[q] <= Len(path[q]) /\ (phase'[q] # "idle" => at[q] > 0)
        BY <1>1, <1>2, <2>8 DEF TypeOK
      <3>3. P \in [DOMAIN P -> Config]
        <4>1. \A m \in DOMAIN P : P[m] \in Config
          BY <1>2, <2>2, <2>4 DEF TypeOK
        <4>2. P = [m \in DOMAIN P |-> P[m]]
          BY DEF P
        <4> QED BY <4>1, <4>2
      <3>4. \A q \in Req : plan'[q] \in [DOMAIN plan'[q] -> Config]
        BY <1>2, <2>7, <3>3 DEF TypeOK
      <3>5. \A q \in Req : DOMAIN plan'[q] \cup wrote[q] \cup missed[q] \cup ran[q] \subseteq Nodes(q)
        BY <1>2, <2>4, <2>7 DEF TypeOK
      <3> QED BY <1>1, <1>2, <1>5, <1>7, <2>2, <2>3, <2>7, <3>1, <3>2, <3>4, <3>5 DEF TypeOK
    <2>10. RInv(r)'
      <3>1. Started(r)' /\ Fresh(r)'
        BY <1>1, <1>2, <2>8 DEF Started, Fresh
      <3>2. Planned(r)'
        BY <1>1, <1>5, <2>1, <2>7, <2>8 DEF Planned
      <3>3. Checked(r)'
        BY <1>1, <1>2, <2>1, <2>2, <2>4, <2>7 DEF Checked
      <3>4. Counted(r)'
        BY <1>1, <1>2, <1>5, <1>7, <2>8 DEF Counted
      <3>5. Pending(r)'
        <4>1. <<r, n>> \in stale' \/ x \in Results(op[r], file[n])
          BY <1>7, MisreadIs
        <4>2. ASSUME NEW i \in 1..Len(path[r]), path[r][i] \in DOMAIN P
              PROVE  \/ <<r, path[r][i]>> \in stale'
                     \/ P[path[r][i]] \in Results(op[r], file[path[r][i]])
          <5>1. CASE path[r][i] = n
            BY <2>4, <4>1, <5>1
          <5>2. CASE path[r][i] # n
            <6>1. path[r][i] \in DOMAIN plan[r] /\ P[path[r][i]] = plan[r][path[r][i]]
              BY <2>4, <4>2, <5>2
            <6> QED BY <1>1, <1>2, <2>3, <6>1 DEF Pending
          <5> QED BY <5>1, <5>2
        <4> QED BY <1>1, <1>5, <2>7, <2>8, <4>2 DEF Pending
      <3> QED BY <3>1, <3>2, <3>3, <3>4, <3>5 DEF RInv
    <2>11. ASSUME NEW q \in Req \ {r} PROVE RInv(q)'
      BY <1>1, <1>2, <1>7, <2>2, <2>3, <2>7, <2>8, Others DEF IInv
    <2> QED BY <1>3, <2>2, <2>9, <2>10, <2>11 DEF IInv
  <1> QED BY <1>6, <1>7 DEF PlanNode

LEMMA ExecuteOK ==
  ASSUME IInv, NEW r \in Req, Execute(r)
  PROVE  IInv'
  <1>1. /\ phase[r] = "planned"
        /\ UNCHANGED <<file, live, op, path, at, new, plan, wrote, missed, stale, torn, ran>>
        /\ \/ phase' = [phase EXCEPT ![r] = "write"] /\ reply' = reply
           \/ /\ phase' = [phase EXCEPT ![r] = "done"]
              /\ reply' = [reply EXCEPT ![r] = "rejected"]
    BY DEF Execute
  <1>2. TypeOK /\ RInv(r) /\ Started(r) /\ Planned(r) /\ Checked(r) /\ Counted(r) /\ Pending(r)
    BY DEF IInv, RInv
  <1>3. ConfigIntegrity'
    BY <1>1 DEF IInv, ConfigIntegrity
  <1>4. \A q \in Req : Here(q)' = Here(q) /\ Nodes(q)' = Nodes(q)
    BY <1>1 DEF Here, Nodes
  <1>5. /\ \/ phase'[r] = "write" /\ reply'[r] = reply[r]
           \/ phase'[r] = "done" /\ reply'[r] = "rejected"
        /\ \A q \in Req \ {r} : phase'[q] = phase[q] /\ reply'[q] = reply[q]
    BY <1>1, <1>2 DEF TypeOK
  <1>6. TypeOK'
    <2>1. phase' \in [Req -> Phase] /\ reply' \in [Req -> {"none", "ok", "partial", "rejected"}]
      BY <1>1, <1>2 DEF TypeOK, Phase
    <2>2. \A q \in Req : at[q] <= Len(path[q]) /\ (phase'[q] # "idle" => at[q] > 0)
      BY <1>1, <1>2, <1>5 DEF TypeOK
    <2> QED BY <1>1, <1>2, <1>4, <2>1, <2>2 DEF TypeOK
  <1>7. RInv(r)'
    <2>1. Started(r)' /\ Fresh(r)' /\ Planned(r)'
      BY <1>1, <1>2, <1>4, <1>5 DEF Started, Fresh, Planned
    <2>2. op[r].kind = "alua"
      BY <1>1, <1>2 DEF Planned
    <2>3. Checked(r)' /\ Counted(r)'
      BY <1>1, <1>2, <1>4, <1>5, <2>2 DEF Checked, Counted
    <2>4. Pending(r)'
      BY <1>1, <1>2, <1>5, <2>2 DEF Pending
    <2> QED BY <2>1, <2>3, <2>4 DEF RInv
  <1>8. ASSUME NEW q \in Req \ {r} PROVE RInv(q)'
    BY <1>1, <1>2, <1>5, Others DEF IInv
  <1> QED BY <1>3, <1>6, <1>7, <1>8 DEF IInv

\* What a write does to the files: typed, well formed where no text was cut short, and
\* on record for those who have read the file it replaces.
FileWritten(r) ==
  /\ file' \in [Node -> Config]
  /\ torn \subseteq torn' /\ torn' \subseteq Node
  /\ \A n \in Node \ torn' : WellFormed(file'[n])
  /\ \A n \in Node \ {Here(r)} : file'[n] = file[n]
  /\ stale \subseteq stale' /\ stale' \subseteq Req \X Node
  /\ \A q \in Req \ {r}, n \in Node :
       \/ file'[n] = file[n] \/ <<q, n>> \in stale'
       \/ /\ n \notin DOMAIN plan[q]
          /\ ~(phase[q] = "write" /\ op[q].kind # "alua" /\ Here(q) = n)

LEMMA ContentOK ==
  ASSUME IInv, NEW r \in Req, phase[r] = "write"
  PROVE  Content(r) \in Config /\ (Here(r) \notin torn => WellFormed(Content(r)))
  <1>1. TypeOK /\ RInv(r) /\ Started(r) /\ Planned(r) /\ Checked(r)
    BY DEF IInv, RInv
  <1>2. Here(r) \in Nodes(r)
    BY <1>1, Place
  <1>3. CASE op[r].kind = "alua"
    BY <1>1, <1>2, <1>3 DEF Content, Planned, Checked, TypeOK
  <1>4. CASE op[r].kind # "alua"
    BY <1>1, <1>4 DEF Content, Checked, TypeOK
  <1> QED BY <1>3, <1>4

LEMMA ReplaceOK ==
  ASSUME IInv, NEW r \in Req, phase[r] = "write",
         NEW c \in Config, Replace(r, c), torn \subseteq torn', torn' \subseteq Node,
         Here(r) \notin torn' => WellFormed(c)
  PROVE  FileWritten(r)
  <1>1. TypeOK /\ RInv(r) /\ Started(r)
    BY DEF IInv, RInv
  <1>2. Here(r) \in Node
    BY <1>1, Place
  <1>3. /\ file' = [file EXCEPT ![Here(r)] = c]
        /\ stale' = stale \cup (Readers(r, Here(r)) \X {Here(r)})
    BY DEF Replace
  <1>4. file' \in [Node -> Config] /\ file'[Here(r)] = c
        /\ \A n \in Node \ {Here(r)} : file'[n] = file[n]
    BY <1>1, <1>2, <1>3 DEF TypeOK
  <1>5. \A n \in Node \ torn' : WellFormed(file'[n])
    BY <1>4 DEF IInv, ConfigIntegrity
  <1>6. Readers(r, Here(r)) \subseteq Req
    BY DEF Readers
  <1>7. stale \subseteq stale' /\ stale' \subseteq Req \X Node
    BY <1>1, <1>2, <1>3, <1>6 DEF TypeOK
  <1>8. ASSUME NEW q \in Req \ {r}, NEW n \in Node
        PROVE  \/ file'[n] = file[n] \/ <<q, n>> \in stale'
               \/ /\ n \notin DOMAIN plan[q]
                  /\ ~(phase[q] = "write" /\ op[q].kind # "alua" /\ Here(q) = n)
    <2>1. CASE n # Here(r)
      BY <1>4, <2>1
    <2>2. CASE n = Here(r) /\ q \in Readers(r, n)
      BY <1>3, <2>2
    <2>3. CASE n = Here(r) /\ q \notin Readers(r, n)
      BY <2>3 DEF Readers
    <2> QED BY <2>1, <2>2, <2>3
  <1> QED BY <1>4, <1>5, <1>7, <1>8 DEF FileWritten

LEMMA NotReplacedOK ==
  ASSUME IInv, NEW r \in Req, UNCHANGED <<file, stale, torn>>
  PROVE  FileWritten(r)
  BY DEF IInv, TypeOK, ConfigIntegrity, FileWritten

\* The script has run, or is believed to have.
LEMMA WrittenOK ==
  ASSUME IInv, NEW r \in Req, phase[r] = "write", FileWritten(r),
         phase' = [phase EXCEPT ![r] = "reload"],
         \/ wrote' = [wrote EXCEPT ![r] = wrote[r] \cup {Here(r)}] /\ missed' = missed
         \/ missed' = [missed EXCEPT ![r] = missed[r] \cup {Here(r)}] /\ wrote' = wrote,
         UNCHANGED <<op, path, at, plan, ran, reply, live, new>>
  PROVE  IInv'
  <1>1. TypeOK /\ RInv(r) /\ Started(r) /\ Planned(r) /\ Checked(r) /\ Counted(r) /\ Pending(r)
    BY DEF IInv, RInv
  <1>2. /\ at[r] \in 1..Len(path[r]) /\ Len(path[r]) \in Nat
        /\ Here(r) \in Nodes(r) /\ Nodes(r) \subseteq Node
        /\ \A i, j \in 1..Len(path[r]) : path[r][i] = path[r][j] => i = j
    BY <1>1, Place
  <1>3. \A q \in Req : Here(q)' = Here(q) /\ Nodes(q)' = Nodes(q)
    BY DEF Here, Nodes
  <1>4. /\ phase'[r] = "reload"
        /\ wrote'[r] \cup missed'[r] = wrote[r] \cup missed[r] \cup {Here(r)}
        /\ \A q \in Req \ {r} : /\ phase'[q] = phase[q] /\ wrote'[q] = wrote[q]
                                /\ missed'[q] = missed[q]
    BY <1>1 DEF TypeOK
  <1>5. TypeOK'
    <2>1. phase' \in [Req -> Phase]
      BY <1>1 DEF TypeOK, Phase
    <2>2. wrote' \in [Req -> SUBSET Node] /\ missed' \in [Req -> SUBSET Node]
      <3>1. /\ wrote \in [Req -> SUBSET Node] /\ missed \in [Req -> SUBSET Node]
            /\ wrote[r] \cup {Here(r)} \in SUBSET Node
            /\ missed[r] \cup {Here(r)} \in SUBSET Node
        BY <1>1, <1>2 DEF TypeOK
      <3> QED BY <3>1
    <2>3. \A q \in Req : at[q] <= Len(path[q]) /\ (phase'[q] # "idle" => at[q] > 0)
      BY <1>1, <1>4 DEF TypeOK
    <2>4. ASSUME NEW q \in Req
          PROVE  DOMAIN plan[q] \cup wrote'[q] \cup missed'[q] \cup ran[q] \subseteq Nodes(q)
      <3>1. DOMAIN plan[q] \cup wrote[q] \cup missed[q] \cup ran[q] \subseteq Nodes(q)
        BY <1>1 DEF TypeOK
      <3> QED BY <1>2, <1>4, <3>1
    <2> QED BY <1>1, <1>3, <2>1, <2>2, <2>3, <2>4 DEF TypeOK, FileWritten
  <1>6. ConfigIntegrity'
    BY DEF IInv, ConfigIntegrity, FileWritten
  <1>7. RInv(r)'
    <2>1. Started(r)' /\ Fresh(r)' /\ Planned(r)' /\ Checked(r)'
      <3>1. torn \subseteq torn' /\ phase[r] = "write"
        BY DEF FileWritten
      <3> QED BY <1>1, <1>3, <1>4, <3>1 DEF Started, Fresh, Planned, Checked
    <2>2. Counted(r)'
      <3>1. reply[r] = "none"
        BY <1>1 DEF Counted
      <3> QED BY <1>1, <1>3, <1>4, <3>1 DEF Counted
    <2>3. ASSUME NEW i \in 1..Len(path[r]), i > at[r], path[r][i] \in DOMAIN plan[r]
          PROVE  \/ <<r, path[r][i]>> \in stale'
                 \/ plan[r][path[r][i]] \in Results(op[r], file'[path[r][i]])
      <3>1. path[r][i] \in Node /\ path[r][i] # Here(r)
        BY <1>2, <2>3 DEF Here, Nodes
      <3>2. file'[path[r][i]] = file[path[r][i]] /\ stale \subseteq stale' /\ i >= at[r]
        BY <1>2, <2>3, <3>1 DEF FileWritten
      <3> QED BY <1>1, <2>3, <3>2 DEF Pending
    <2>4. Pending(r)'
      BY <1>4, <2>3 DEF Pending
    <2> QED BY <2>1, <2>2, <2>4 DEF RInv
  <1>8. ASSUME NEW q \in Req \ {r} PROVE RInv(q)'
    BY <1>1, <1>4, Others DEF IInv, FileWritten
  <1> QED BY <1>5, <1>6, <1>7, <1>8 DEF IInv

\* The command was rejected, before or after the script ran.
LEMMA WriteRejectedOK ==
  ASSUME IInv, NEW r \in Req, phase[r] = "write", FileWritten(r), NodeFailed(r),
         \/ wrote' = [wrote EXCEPT ![r] = wrote[r] \cup {Here(r)}] /\ missed' = missed
         \/ missed' = [missed EXCEPT ![r] = missed[r] \cup {Here(r)}] /\ wrote' = wrote
         \/ wrote' = wrote /\ missed' = missed,
         UNCHANGED <<live, new>>
  PROVE  IInv'
  <1>1. TypeOK /\ RInv(r) /\ Started(r) /\ Counted(r)
    BY DEF IInv, RInv
  <1>2. Here(r) \in Nodes(r) /\ Nodes(r) \subseteq Node
    BY <1>1, Place
  <1>3. Advance(r, ran[r], TRUE) /\ ran[r] \in SUBSET Nodes(r)
    BY <1>1 DEF NodeFailed, TypeOK
  <1>4. /\ wrote[r] \cup missed[r] \subseteq wrote'[r] \cup missed'[r]
        /\ wrote'[r] \cup missed'[r] \subseteq wrote[r] \cup missed[r] \cup {Here(r)}
        /\ \A q \in Req \ {r} : wrote'[q] = wrote[q] /\ missed'[q] = missed[q]
        /\ wrote' \in [Req -> SUBSET Node] /\ missed' \in [Req -> SUBSET Node]
    <2>1. /\ wrote \in [Req -> SUBSET Node] /\ wrote[r] \cup {Here(r)} \in SUBSET Node
          /\ missed \in [Req -> SUBSET Node] /\ missed[r] \cup {Here(r)} \in SUBSET Node
      BY <1>1, <1>2 DEF TypeOK
    <2> QED BY <2>1
  <1>5. \A q \in Req : wrote'[q] \cup missed'[q] \subseteq Nodes(q)
    BY <1>1, <1>2, <1>4 DEF TypeOK
  <1>6. TypeOK'
    <2>1. live' \in [Node -> Config] /\ new' \in [Req -> Config]
      BY <1>1 DEF TypeOK
    <2> QED BY <1>1, <1>3, <1>4, <1>5, <2>1, AdvanceTypes DEF FileWritten
  <1>7. ConfigIntegrity'
    BY DEF IInv, ConfigIntegrity, FileWritten
  <1>8. RInv(r)'
    <2>1. ran[r] \subseteq wrote'[r] \cup missed'[r]
      BY <1>1, <1>4 DEF Counted
    <2> QED BY <1>1, <1>3, <1>4, <1>5, <2>1, AdvanceKeeps DEF FileWritten
  <1>9. ASSUME NEW q \in Req \ {r} PROVE RInv(q)'
    <2>1. /\ op' = op /\ path' = path /\ plan' = plan /\ ran'[q] = ran[q]
          /\ phase'[q] = phase[q] /\ at'[q] = at[q] /\ reply'[q] = reply[q]
      BY <1>1, <1>3, AdvanceLeaves
    <2> QED BY <1>1, <1>4, <2>1, Others DEF IInv, FileWritten
  <1> QED BY <1>6, <1>7, <1>8, <1>9 DEF IInv

LEMMA WholeOK ==
  ASSUME IInv, NEW r \in Req, phase[r] = "write", WriteWhole(r)
  PROVE  /\ FileWritten(r) /\ missed' = missed
         /\ wrote' = [wrote EXCEPT ![r] = wrote[r] \cup {Here(r)}]
  <1>1. Replace(r, Content(r)) /\ torn' = torn /\ torn \subseteq Node
    BY DEF WriteWhole, IInv, TypeOK
  <1>2. Content(r) \in Config /\ (Here(r) \notin torn => WellFormed(Content(r)))
    BY ContentOK
  <1>3. FileWritten(r)
    BY <1>1, <1>2, ReplaceOK
  <1> QED BY <1>3 DEF WriteWhole

LEMMA PartOK ==
  ASSUME IInv, NEW r \in Req, phase[r] = "write", WritePart(r)
  PROVE  /\ FileWritten(r) /\ wrote' = wrote
         /\ missed' = [missed EXCEPT ![r] = missed[r] \cup {Here(r)}]
  <1>1. PICK c \in {Empty} \cup CutShort(Content(r)) :
          Replace(r, c) /\ Tears(Here(r), c, Content(r))
    BY DEF WritePart
  <1>2. Content(r) \in Config
    BY ContentOK
  <1>3. c \in Config /\ (c # Content(r) \/ c = Empty)
    BY <1>1, <1>2, EmptyOK, TruncatedOK DEF CutShort
  <1>4. torn \subseteq Node /\ Here(r) \in Node
    BY Place DEF IInv, TypeOK, RInv
  <1>5. torn' = torn \cup {Here(r) : x \in {c} \ {Content(r), Empty}}
    BY <1>1 DEF Tears
  <1>6. Here(r) \notin torn' => c = Empty
    BY <1>3, <1>5
  <1>7. torn \subseteq torn' /\ torn' \subseteq Node
    BY <1>4, <1>5
  <1>8. FileWritten(r)
    BY <1>1, <1>3, <1>6, <1>7, EmptyOK, ReplaceOK
  <1> QED BY <1>8 DEF WritePart

LEMMA WriteOK ==
  ASSUME IInv, NEW r \in Req, Write(r)
  PROVE  IInv'
  <1>1. phase[r] = "write" /\ UNCHANGED <<live, new>>
    BY DEF Write
  <1>2. CASE /\ \/ WriteWhole(r) \/ WritePart(r)
                \/ /\ missed' = [missed EXCEPT ![r] = missed[r] \cup {Here(r)}]
                   /\ UNCHANGED <<file, stale, wrote, torn>>
             /\ phase' = [phase EXCEPT ![r] = "reload"]
             /\ UNCHANGED <<op, path, at, plan, ran, reply>>
    BY <1>1, <1>2, WholeOK, PartOK, NotReplacedOK, WrittenOK
  <1>3. CASE /\ \/ WriteWhole(r) \/ WritePart(r)
                \/ UNCHANGED <<file, stale, wrote, missed, torn>>
             /\ NodeFailed(r)
    BY <1>1, <1>3, WholeOK, PartOK, NotReplacedOK, WriteRejectedOK
  <1> QED BY <1>2, <1>3 DEF Write

LEMMA ReloadOK ==
  ASSUME IInv, NEW r \in Req, Reload(r)
  PROVE  IInv'
  <1>1. phase[r] = "reload" /\ UNCHANGED <<file, new, wrote, missed, stale, torn>>
    BY DEF Reload
  <1>2. TypeOK /\ RInv(r) /\ Started(r) /\ Counted(r)
    BY DEF IInv, RInv
  <1>3. Here(r) \in Nodes(r) /\ Nodes(r) \subseteq Node
    BY <1>1, <1>2, Place
  <1>4. live' = [live EXCEPT ![Here(r)] = file[Here(r)]] \/ live' = live
    BY DEF Reload
  <1>5. live' \in [Node -> Config] /\ ConfigIntegrity'
    BY <1>1, <1>2, <1>3, <1>4 DEF IInv, TypeOK, ConfigIntegrity
  <1>6. CASE NodeFailed(r)
    BY <1>1, <1>5, <1>6, GiveUpOK
  <1>7. CASE NodeDone(r)
    <2> DEFINE done == ran[r] \cup {Here(r)}
    <2>1. Advance(r, done, FALSE)
      BY <1>7 DEF NodeDone
    <2>2. done \in SUBSET Nodes(r) /\ done \subseteq wrote[r] \cup missed[r]
      BY <1>1, <1>2, <1>3 DEF TypeOK, Counted
    <2>3. /\ wrote[r] \cup missed[r] \subseteq Nodes(r)
          /\ \A q \in Req : wrote[q] \cup missed[q] \subseteq Nodes(q)
          /\ file \in [Node -> Config] /\ new \in [Req -> Config] /\ stale \subseteq Req \X Node
          /\ wrote \in [Req -> SUBSET Node] /\ missed \in [Req -> SUBSET Node]
          /\ torn \subseteq Node
      BY <1>2 DEF TypeOK
    <2> HIDE DEF done
    <2>4. TypeOK'
      BY <1>1, <1>2, <1>5, <2>1, <2>2, <2>3, AdvanceTypes
    <2>5. RInv(r)'
      BY <1>1, <1>2, <2>1, <2>2, <2>3, AdvanceKeeps
    <2>6. ASSUME NEW q \in Req \ {r} PROVE RInv(q)'
      <3>1. /\ op' = op /\ path' = path /\ plan' = plan /\ ran'[q] = ran[q]
            /\ phase'[q] = phase[q] /\ at'[q] = at[q] /\ reply'[q] = reply[q]
        BY <1>1, <1>2, <2>1, AdvanceLeaves
      <3> QED BY <1>1, <3>1, Others DEF IInv
    <2> QED BY <1>5, <2>4, <2>5, <2>6 DEF IInv
  <1> QED BY <1>6, <1>7 DEF Reload

LEMMA StutterOK == IInv /\ UNCHANGED vars => IInv'
  <1> SUFFICES ASSUME IInv, UNCHANGED vars PROVE IInv'
    OBVIOUS
  <1>1. ASSUME NEW q \in Req PROVE RInv(q)'
    BY Others DEF IInv, vars
  <1>2. TypeOK'
    <2>1. \A q \in Req : Nodes(q)' = Nodes(q)
      BY DEF Nodes, vars
    <2> QED BY <2>1 DEF IInv, TypeOK, vars
  <1>3. ConfigIntegrity'
    BY DEF IInv, ConfigIntegrity, vars
  <1> QED BY <1>1, <1>2, <1>3 DEF IInv

LEMMA NextOK == IInv /\ [Next]_vars => IInv'
  <1> SUFFICES ASSUME IInv, [Next]_vars PROVE IInv'
    OBVIOUS
  <1>1. ASSUME NEW r \in Req, Begin(r) PROVE IInv'
    BY <1>1, BeginOK
  <1>2. ASSUME NEW r \in Req, Skip(r) PROVE IInv'
    BY <1>2, SkipOK
  <1>3. ASSUME NEW r \in Req, Read(r) PROVE IInv'
    BY <1>3, ReadOK
  <1>4. ASSUME NEW r \in Req, PlanNode(r) PROVE IInv'
    BY <1>4, PlanNodeOK
  <1>5. ASSUME NEW r \in Req, Execute(r) PROVE IInv'
    BY <1>5, ExecuteOK
  <1>6. ASSUME NEW r \in Req, Write(r) PROVE IInv'
    BY <1>6, WriteOK
  <1>7. ASSUME NEW r \in Req, Reload(r) PROVE IInv'
    BY <1>7, ReloadOK
  <1>8. CASE UNCHANGED vars
    BY <1>8, StutterOK
  <1> QED BY <1>1, <1>2, <1>3, <1>4, <1>5, <1>6, <1>7, <1>8 DEF Next

LEMMA Invariant == Spec => []IInv
  BY InitOK, NextOK, PTL DEF Spec

-----------------------------------------------------------------------------
(* The theorems.                                                            *)

\* The state of the files, of the requests and of their answers keeps its type, and
\* a request acts on the nodes of its path only.
THEOREM TypeCorrect == Spec => []TypeOK
  <1>1. IInv => TypeOK
    BY DEF IInv
  <1> QED BY Invariant, <1>1, PTL

\* However many requests interleave at the awaits of the mutators, whatever read
\* or write fails, no scst.conf and no running SCST breaks the promises of the
\* mutators on a node where no text was ever cut short: a file that is emptied, a
\* reading that fails, a plan that is out of date break none.
THEOREM IntegrityKept == Spec => []ConfigIntegrity
  <1>1. IInv => ConfigIntegrity
    BY DEF IInv
  <1> QED BY Invariant, <1>1, PTL

\* runOnClusterNodes() answers success only when every node was written, or the
\* write was missed behind an exit code 0, and 409 only when one was.
THEOREM RepliesHonest == Spec => []ReplyIsHonest
  <1>1. IInv => ReplyIsHonest
    BY DEF IInv, RInv, Counted, ReplyIsHonest
  <1> QED BY Invariant, <1>1, PTL

\* What the request that is to write node n writes is a result of its mutator on the
\* file that is there, unless that file was replaced since, or misread.
LEMMA ContentIs ==
  ASSUME IInv, NEW r \in Req, phase[r] = "write", <<r, Here(r)>> \notin stale
  PROVE  Content(r) \in Results(op[r], file[Here(r)])
  <1>1. TypeOK /\ RInv(r) /\ Started(r) /\ Planned(r) /\ Pending(r)
    BY DEF IInv, RInv
  <1>2. CASE op[r].kind # "alua"
    BY <1>1, <1>2 DEF Content, Pending
  <1>3. CASE op[r].kind = "alua"
    <2>1. at[r] \in 1..Len(path[r]) /\ Here(r) \in DOMAIN plan[r] /\ at[r] >= at[r]
      BY <1>1, <1>3, Place DEF Planned
    <2>2. plan[r][Here(r)] \in Results(op[r], file[Here(r)])
      BY <1>1, <2>1 DEF Pending, Here
    <2> QED BY <1>3, <2>2 DEF Content
  <1> QED BY <1>2, <1>3

\* A file is replaced by the result of a mutator on what it holds, or by the beginning
\* of that result when the disk is full, unless another request came between the read
\* and the write, or the read failed.
THEOREM MutationsAtomic == Spec => AtomicMutation
  <1> DEFINE Cause(n, r) ==
        /\ phase[r] = "write" /\ Here(r) = n
        /\ \/ <<r, n>> \in stale
           \/ \E x \in Results(op[r], file[n]) :
                \/ file'[n] = x
                \/ "full" \in Fault /\ file'[n] \in Truncated(x) /\ n \in missed'[r]
  <1>1. ASSUME IInv, NEW n \in Node, file'[n] # file[n], NEW r \in Req, Write(r)
        PROVE  Cause(n, r)
    <2>1. TypeOK /\ RInv(r) /\ phase[r] = "write"
      BY <1>1 DEF IInv, Write
    <2>2. Here(r) \in Node /\ Content(r) \in Config
      BY <1>1, <2>1, ContentOK, Place DEF RInv
    <2>3. WriteWhole(r) \/ WritePart(r)
      BY <1>1 DEF Write
    <2>4. n = Here(r) /\ (<<r, n>> \in stale \/ Content(r) \in Results(op[r], file[n]))
      <3>1. \E c : Replace(r, c)
        BY <2>3 DEF WriteWhole, WritePart
      <3>2. n = Here(r)
        BY <1>1, <2>1, <3>1 DEF Replace, TypeOK
      <3> QED BY <1>1, <2>1, <3>2, ContentIs
    <2>5. CASE WriteWhole(r)
      <3>1. file'[n] = Content(r)
        BY <2>1, <2>2, <2>4, <2>5 DEF WriteWhole, Replace, TypeOK
      <3> QED BY <2>1, <2>4, <3>1
    <2>6. CASE WritePart(r)
      <3>1. PICK c \in {Empty} \cup CutShort(Content(r)) : Replace(r, c)
        BY <2>6 DEF WritePart
      <3>2. c \in Truncated(Content(r))
        BY <2>2, <3>1, TruncatedOK DEF CutShort
      <3>3. file'[n] = c
        BY <2>1, <2>2, <2>4, <3>1 DEF Replace, TypeOK
      <3>4. n \in missed'[r] /\ "full" \in Fault
        BY <2>1, <2>4, <2>6 DEF WritePart, TypeOK
      <3> QED BY <2>1, <2>4, <3>2, <3>3, <3>4
    <2> QED BY <2>3, <2>5, <2>6
  <1>2. ASSUME NEW r \in Req, Begin(r) \/ Skip(r) \/ Read(r) \/ PlanNode(r) \/ Execute(r) \/ Reload(r)
        PROVE  file' = file
    BY <1>2 DEF Begin, Skip, Read, PlanNode, Execute, Reload
  <1>3. IInv /\ [Next]_vars =>
          [\A n \in Node : file'[n] # file[n] => \E r \in Req : Cause(n, r)]_vars
    <2> SUFFICES ASSUME IInv, Next, NEW n \in Node, file'[n] # file[n]
                 PROVE  \E r \in Req : Cause(n, r)
      OBVIOUS
    <2> HIDE DEF Cause
    <2> QED BY <1>1, <1>2 DEF Next
  <1>4. Spec => [][\A n \in Node : file'[n] # file[n] => \E r \in Req : Cause(n, r)]_vars
    BY Invariant, <1>3, PTL DEF Spec
  <1> QED BY <1>4 DEF AtomicMutation
=============================================================================
