---------------------------- MODULE MCScstConfig ----------------------------
(* Instances of ScstConfig for TLC.                                         *)
EXTENDS ScstConfig, TLC

CONSTANTS n1, n2

Names == {"t1", "t2"}
GroupNames == {"g1", "g2"}
Initiators == {"i1"}
Handlers == {"vdisk_blockio", "nullio"}
Devices == {"d", "d2"}
Files == {"/dev/a", "/dev/b", ""}
AluaGroups == {"dg"}

\* One name is the beginning of another: what is left of "d2" is another device.
LeftOf == [x \in Names \cup GroupNames \cup Initiators \cup Devices \cup Files \cup AluaGroups |->
             IF x = "d2" THEN {"d", "d2"} ELSE {x}]

\* One target with a group, a group to move to, one device that is mapped and
\* one that is not.
OneTarget ==
  [tgts |-> {"t1"}, off |-> {}, grps |-> {<<"t1", "g1">>, <<"t1", "g2">>},
   inis |-> {<<"t1", "g1", "i1">>}, luns |-> {<<"t1", "g1", 0, "d">>},
   devs |-> {<<"vdisk_blockio", "d", "/dev/a">>, <<"vdisk_blockio", "d2", "/dev/b">>},
   alua |-> {}]

\* The mutations whose checks depend on each other.
Mutations ==
  {[kind |-> "deleteDevice", d |-> "d2"],
   [kind |-> "addLun", t |-> "t1", g |-> "g2", l |-> 1, d |-> "d2"],
   [kind |-> "removeLun", t |-> "t1", g |-> "g1", l |-> 0],
   [kind |-> "addInitiator", t |-> "t1", g |-> "g2", i |-> "i1"],
   [kind |-> "removeInitiator", t |-> "t1", g |-> "g1", i |-> "i1"],
   [kind |-> "deleteGroup", t |-> "t1", g |-> "g2", force |-> TRUE],
   [kind |-> "createDevice", h |-> "nullio", d |-> "d2", f |-> "/dev/b"]}

\* The others.
Everything == Mutations \cup
  {[kind |-> "createTarget", t |-> "t2"],
   [kind |-> "deleteTarget", t |-> "t1"],
   [kind |-> "setEnabled", t |-> "t1", on |-> FALSE],
   [kind |-> "createGroup", t |-> "t2", g |-> "g1"],
   [kind |-> "alua", a |-> "dg", replace |-> FALSE]}

LunIds == {0, 1}
OneNode == {<<n1>>}
NodeOrCluster == {<<n1>>, <<n1, n2>>}
RequestSymmetry == Permutations(Req)

-----------------------------------------------------------------------------
(* What TLC tells states apart by. Of two states with the same view each step *)
(* of one is a step of the other, with the same view again, and the properties *)
(* agree: `new' is read only in phase "write", `live' is copied from `file' or *)
(* left and only asked whether it is well formed, writes and missed writes are *)
(* only asked for together or, by AllSucceeded, whether there is a missed one, *)
(* and an answered request is never looked at again but for its honesty. The *)
(* one exception is TypeOK, which looks at all of `live' and `new': it is proved. *)

\* AllSucceeded is false, and remains so.
Spoiled ==
  \/ stale # {}
  \/ \E r \in Req : \/ missed[r] # {}
                    \/ phase[r] = "done" /\ ~(reply[r] = "ok" /\ Nodes(r) = Node)

Honest(r) ==
  /\ reply[r] = "ok" => wrote[r] \cup missed[r] = Nodes(r)
  /\ reply[r] = "partial" => wrote[r] \cup missed[r] # {}

Answered(r) == <<Honest(r), DOMAIN plan[r]>>

UnderWay(r) ==
  <<op[r], path[r], at[r], IF phase[r] = "write" THEN new[r] ELSE Empty, plan[r],
    wrote[r] \cup missed[r], ran[r], {n \in Node : <<r, n>> \in stale}>>

View ==
  <<file, [n \in Node |-> WellFormed(live[n])], torn, Spoiled, phase,
    [r \in Req |-> IF phase[r] = "done" THEN Answered(r) ELSE UnderWay(r)]>>
=============================================================================
