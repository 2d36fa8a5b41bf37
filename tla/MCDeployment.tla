------------------------------ MODULE MCDeployment ------------------------------
(***************************************************************************)
(* Instances of Deployment for TLC.                                         *)
(***************************************************************************)
EXTENDS Deployment, TLC

CONSTANT MaxBoth   \* requests in progress once there is a job

Busy == {c \in Client : req[c] # Idle}

\* Requests race with each other over all files and rows; with a job they race
\* over the file of its binary, while no other was registered, and no longer once
\* a crash has cut a run short.
Bounded ==
  DOMAIN job # {} =>
    /\ Cardinality(Busy) <= MaxBoth
    /\ lost # {} => Busy = {}
    /\ Cardinality(born) = 1
    /\ \A f \in File : Exists(f) => \E b \in DOMAIN catalog : catalog[b].file = f

Symmetric ==
  Permutations(File) \cup Permutations(Content) \cup Permutations(Binary)
    \cup Permutations(San) \cup Permutations(Job) \cup Permutations(Run)
    \cup Permutations(Client)
==============================================================================
