----------------------------- MODULE DeploymentProofs -----------------------------
(***************************************************************************)
(* What Deployment promises for any files, binaries, SANs, jobs, runs and   *)
(* requests.                                                                *)
(*                                                                         *)
(* The status of a job is written by runs that may overlap, so it is judged *)
(* by what each run remembers of its targets: a run that saw a target       *)
(* succeed is right for ever (Follows), and a first run knows all targets   *)
(* of its job (FirstWhole).                                                 *)
(***************************************************************************)
EXTENDS Deployment, TLAPS

Active == {"connect", "send", "verify", "apply"}

\* The status of a target that is at this point of runTarget().
StatusAt(at) ==
  IF at = "apply" THEN "applying"
  ELSE IF at \in {"success", "failed"} THEN at
  ELSE "uploading"

\* A run knows the status of the targets it drives and of those it completed.
Follows ==
  \A r \in DOMAIN run : \A s \in DOMAIN run[r].work :
    run[r].work[s].at # "failed" =>
      job[run[r].job].target[s].status = StatusAt(run[r].work[s].at)

\* One that no other run joined knows its failures too.
FailuresSeen ==
  \A r \in DOMAIN run : run[r].job \notin joined =>
    \A s \in DOMAIN run[r].work :
      run[r].work[s].at = "failed" => job[run[r].job].target[s].status = "failed"

FirstWhole ==
  \A r \in DOMAIN run :
    ~run[r].again => DOMAIN run[r].work = DOMAIN job[run[r].job].target

Alone == \A q, r \in DOMAIN run : run[q].job = run[r].job /\ run[q].job \notin joined => q = r

Single ==
  \A q, r \in DOMAIN run : \A s \in San :
    run[q].job = run[r].job /\ Drives(q, s) /\ Drives(r, s) => q = r

\* A target that no run drives has ended, unless the server crashed on it.
Ended ==
  \A j \in DOMAIN job \ lost : \A s \in DOMAIN job[j].target :
    \/ job[j].target[s].status \in {"success", "failed"}
    \/ \E r \in DOMAIN run : run[r].job = j /\ Drives(r, s)

RunInv == JobsTyped /\ Follows /\ FailuresSeen /\ FirstWhole /\ Alone /\ Single /\ Ended

JobInv == RunInv /\ SuccessIsTrue /\ StatusSumsUp

-----------------------------------------------------------------------------
\* The properties of the runs are parts of the invariant.
LEMMA RunParts ==
  ASSUME RunInv
  PROVE  OneRunnerPerTarget /\ StatusFollowsRun
<1>1. OneRunnerPerTarget
  BY DEF RunInv, Single, OneRunnerPerTarget, RunsOf
<1>2. ASSUME NEW j \in DOMAIN job \ lost, NEW s \in DOMAIN job[j].target
      PROVE  LET drivers == {r \in RunsOf(j) : Drives(r, s)} IN
             IF drivers = {} THEN job[j].target[s].status \in {"success", "failed"}
             ELSE \A r \in drivers :
                    job[j].target[s].status =
                      IF run[r].work[s].at = "apply" THEN "applying" ELSE "uploading"
  <2>1. CASE \A r \in RunsOf(j) : ~Drives(r, s)
    BY <2>1 DEF RunInv, Ended, RunsOf
  <2>2. ASSUME NEW r \in RunsOf(j), Drives(r, s)
        PROVE  job[j].target[s].status =
                 IF run[r].work[s].at = "apply" THEN "applying" ELSE "uploading"
    BY <2>2 DEF RunInv, Follows, StatusAt, RunsOf, Drives, Working
  <2> QED  BY <2>1, <2>2
<1> QED  BY <1>1, <1>2 DEF StatusFollowsRun

-----------------------------------------------------------------------------
(* One target moves on. *)

LEMMA MovesKeepsRuns ==
  ASSUME RunInv,
         NEW r \in Run, NEW s, NEW w \in Work,
         Working(r, s, Active),
         Moves(r, s, w, StatusAt(w.at))
  PROVE  RunInv'
<1> DEFINE j == run[r].job
           t == [status |-> StatusAt(w.at),
                 got |-> IF StatusAt(w.at) = "success" THEN w.got ELSE None]
<1>1. /\ r \in DOMAIN run /\ j \in DOMAIN job /\ s \in DOMAIN run[r].work
      /\ s \in DOMAIN job[j].target /\ s \in San /\ Drives(r, s)
  BY DEF RunInv, JobsTyped, Working, Drives, Active
<1>2. /\ DOMAIN run' = DOMAIN run /\ lost' = lost /\ joined' = joined
      /\ \A q \in DOMAIN run : q # r => run'[q] = run[q]
      /\ run'[r].job = j /\ run'[r].again = run[r].again
      /\ DOMAIN run'[r].work = DOMAIN run[r].work
      /\ run'[r].work[s] = w
      /\ \A x \in DOMAIN run[r].work : x # s => run'[r].work[x] = run[r].work[x]
  BY <1>1, Zenon DEF Moves, Put
<1>3. /\ DOMAIN job' = DOMAIN job
      /\ \A i \in DOMAIN job : i # j => job'[i] = job[i]
      /\ job'[j].bin = job[j].bin /\ job'[j].status = job[j].status
      /\ DOMAIN job'[j].target = DOMAIN job[j].target
      /\ job'[j].target[s] = t
      /\ \A x \in DOMAIN job[j].target : x # s => job'[j].target[x] = job[j].target[x]
  BY <1>1 DEF Moves, Put
<1>4. t \in Target /\ t.status = StatusAt(w.at)
  BY DEF Work, Target, StatusAt
<1>5. \A q \in DOMAIN run : \A x \in DOMAIN run[q].work :
        (q # r \/ x # s) => run'[q].work[x] = run[q].work[x]
  BY <1>2
<1>6. \A q \in DOMAIN run :
        run'[q].job = run[q].job /\ run'[q].again = run[q].again
          /\ DOMAIN run'[q].work = DOMAIN run[q].work
  BY <1>2
<1>7. \A i \in DOMAIN job : \A x \in DOMAIN job[i].target :
        (i # j \/ x # s) => job'[i].target[x] = job[i].target[x]
  BY <1>3
<1>8. \A i \in DOMAIN job :
        job'[i].bin = job[i].bin /\ job'[i].status = job[i].status
          /\ DOMAIN job'[i].target = DOMAIN job[i].target
  BY <1>3
<1>9. \A q \in Run, x \in San :
        /\ Drives(q, x)' => Drives(q, x)
        /\ (q # r \/ x # s) /\ Drives(q, x) => Drives(q, x)'
  BY <1>1, <1>2, <1>5, <1>6 DEF Drives, Working
\* Only r drives s, and s had not succeeded.
<1>10. ASSUME NEW q \in DOMAIN run, q # r, run[q].job = j, s \in DOMAIN run[q].work
       PROVE  run[q].work[s].at = "failed" /\ j \in joined
  <2>1. ~Drives(q, s)
    BY <1>1, <1>10 DEF RunInv, Single, JobsTyped
  <2>2. run[q].work[s].at \in {"success", "failed"}
    BY <1>10, <2>1 DEF RunInv, JobsTyped, Work, Drives, Working
  <2>3. job[j].target[s].status \in {"uploading", "applying"}
    BY <1>1 DEF RunInv, Follows, StatusAt, Drives, Working
  <2>4. run[q].work[s].at # "success"
    BY <1>10, <2>3 DEF RunInv, Follows, StatusAt
  <2>5. j \in joined
    BY <1>1, <1>10 DEF RunInv, Alone
  <2> QED  BY <2>2, <2>4, <2>5
<1> HIDE DEF j, t
<1>11. JobsTyped'
  <2>1. \A i \in DOMAIN job : \A x \in DOMAIN job[i].target : job'[i].target[x] \in Target
    BY <1>3, <1>4, <1>7 DEF RunInv, JobsTyped
  <2>2. \A q \in DOMAIN run : \A x \in DOMAIN run[q].work : run'[q].work[x] \in Work
    BY <1>2, <1>5 DEF RunInv, JobsTyped
  <2> QED  BY <1>2, <1>3, <1>6, <1>8, <2>1, <2>2 DEF RunInv, JobsTyped
<1>12. Follows'
  <2> SUFFICES ASSUME NEW q \in DOMAIN run, NEW x \in DOMAIN run[q].work,
                      run'[q].work[x].at # "failed"
               PROVE  job'[run[q].job].target[x].status = StatusAt(run'[q].work[x].at)
    BY <1>2, <1>6 DEF Follows, StatusAt
  <2>1. CASE q = r /\ x = s
    BY <2>1, <1>2, <1>3, <1>4 DEF j
  <2>2. CASE (q # r \/ x # s) /\ (run[q].job # j \/ x # s)
    <3>1. run[q].job \in DOMAIN job /\ x \in DOMAIN job[run[q].job].target
      BY DEF RunInv, JobsTyped
    <3> QED  BY <2>2, <3>1, <1>5, <1>7 DEF RunInv, Follows
  <2>3. CASE q # r /\ x = s /\ run[q].job = j
    BY <2>3, <1>5, <1>10
  <2> QED  BY <2>1, <2>2, <2>3 DEF j
<1>13. FailuresSeen'
  <2> SUFFICES ASSUME NEW q \in DOMAIN run, NEW x \in DOMAIN run[q].work,
                      run[q].job \notin joined, run'[q].work[x].at = "failed"
               PROVE  job'[run[q].job].target[x].status = "failed"
    BY <1>2, <1>6 DEF FailuresSeen
  <2>1. CASE q = r /\ x = s
    BY <2>1, <1>2, <1>3, <1>4 DEF j, StatusAt
  <2>2. CASE (q # r \/ x # s) /\ (run[q].job # j \/ x # s)
    <3>1. run[q].job \in DOMAIN job /\ x \in DOMAIN job[run[q].job].target
      BY DEF RunInv, JobsTyped
    <3> QED  BY <2>2, <3>1, <1>5, <1>7 DEF RunInv, FailuresSeen
  <2>3. CASE q # r /\ x = s /\ run[q].job = j
    BY <2>3, <1>10
  <2> QED  BY <2>1, <2>2, <2>3 DEF j
<1>14. FirstWhole'
  BY <1>2, <1>6, <1>8 DEF RunInv, JobsTyped, FirstWhole
<1>15. Alone'
  BY <1>2, <1>6 DEF RunInv, Alone
<1>16. Single'
  BY <1>2, <1>6, <1>9 DEF RunInv, JobsTyped, Single
<1>17. Ended'
  <2> SUFFICES ASSUME NEW i \in DOMAIN job \ lost, NEW x \in DOMAIN job[i].target
               PROVE  \/ job'[i].target[x].status \in {"success", "failed"}
                      \/ \E q \in DOMAIN run : run[q].job = i /\ Drives(q, x)'
    BY <1>2, <1>3, <1>6, <1>8 DEF Ended
  <2>1. CASE i = j /\ x = s
    <3>1. CASE w.at \in Active
      BY <3>1, <2>1, <1>1, <1>2 DEF j, Drives, Working, Active
    <3>2. CASE w.at \notin Active
      BY <3>2, <2>1, <1>3, <1>4 DEF Work, Active, StatusAt
    <3> QED  BY <3>1, <3>2
  <2>2. CASE i # j \/ x # s
    <3>1. job'[i].target[x] = job[i].target[x]
      BY <2>2, <1>7
    <3>2. \A q \in DOMAIN run : run[q].job = i /\ Drives(q, x) => Drives(q, x)'
      BY <2>2, <1>1, <1>9 DEF j, RunInv, JobsTyped
    <3> QED  BY <3>1, <3>2 DEF RunInv, Ended
  <2> QED  BY <2>1, <2>2
<1> QED
  BY <1>11, <1>12, <1>13, <1>14, <1>15, <1>16, <1>17 DEF RunInv

-----------------------------------------------------------------------------
(* The statuses of jobs at rest. *)

LEMMA VerdictsKept ==
  ASSUME SuccessIsTrue, StatusSumsUp,
         \A i \in DOMAIN job' :
           \/ RunsOf(i)' # {} \/ i \in lost'
           \/ /\ i \in DOMAIN job /\ i \notin lost /\ RunsOf(i) = {}
              /\ job'[i].status = job[i].status /\ job'[i].target = job[i].target
              /\ i \notin joined' => i \notin joined
  PROVE  SuccessIsTrue' /\ StatusSumsUp'
<1>1. SuccessIsTrue'
  BY DEF SuccessIsTrue, Quiet, Statuses
<1>2. StatusSumsUp'
  <2> SUFFICES ASSUME NEW i \in DOMAIN job', i \notin joined', Quiet(i)'
               PROVE  job'[i].status = Verdict("success" \in Statuses(i), "failed" \in Statuses(i))'
    BY DEF StatusSumsUp
  <2>1. /\ i \in DOMAIN job \ joined /\ Quiet(i)
        /\ job'[i].status = job[i].status /\ job'[i].target = job[i].target
    BY DEF Quiet
  <2>2. job[i].status = Verdict("success" \in Statuses(i), "failed" \in Statuses(i))
    BY <2>1 DEF StatusSumsUp
  <2> QED  BY <2>1, <2>2 DEF Statuses, Verdict
<1> QED  BY <1>1, <1>2

LEMMA MovesKeepsVerdicts ==
  ASSUME JobInv,
         NEW r \in Run, NEW s, NEW w \in Work,
         Working(r, s, Active),
         Moves(r, s, w, StatusAt(w.at))
  PROVE  SuccessIsTrue' /\ StatusSumsUp'
<1>1. r \in DOMAIN run /\ run[r].job \in DOMAIN job
  BY DEF JobInv, RunInv, JobsTyped, Working
<1>2. /\ DOMAIN run' = DOMAIN run /\ DOMAIN job' = DOMAIN job
      /\ lost' = lost /\ joined' = joined
      /\ \A i \in DOMAIN job : i # run[r].job => job'[i] = job[i]
  BY <1>1, Zenon DEF Moves, Put
<1>3. \A q \in DOMAIN run : run'[q].job = run[q].job
  BY <1>1 DEF Moves, Put
<1>4. \A i : RunsOf(i)' = RunsOf(i)
  BY <1>2, <1>3 DEF RunsOf
<1>5. RunsOf(run[r].job) # {}
  BY <1>1 DEF RunsOf
<1> QED
  <2>1. \A i \in DOMAIN job' :
           \/ RunsOf(i)' # {} \/ i \in lost'
           \/ /\ i \in DOMAIN job /\ i \notin lost /\ RunsOf(i) = {}
              /\ job'[i].status = job[i].status /\ job'[i].target = job[i].target
              /\ i \notin joined' => i \notin joined
    BY <1>2, <1>4, <1>5
  <2> QED  BY <2>1, VerdictsKept DEF JobInv

-----------------------------------------------------------------------------
(* A run ends. *)

LEMMA FinishKeepsJobs ==
  ASSUME JobInv, NEW r \in Run, NEW j, j = run[r].job, Finish(r)
  PROVE  JobInv'
<1>1. /\ r \in DOMAIN run /\ j \in DOMAIN job
      /\ \A s \in DOMAIN run[r].work : run[r].work[s].at \in {"success", "failed"}
  BY DEF JobInv, RunInv, JobsTyped, Finish
<1>2. /\ DOMAIN run' = DOMAIN run \ {r} /\ lost' = lost /\ joined' = joined
      /\ \A q \in DOMAIN run' : run'[q] = run[q]
  BY DEF Finish
<1>3. /\ DOMAIN job' = DOMAIN job
      /\ \A i \in DOMAIN job : i # j => job'[i] = job[i]
      /\ job'[j].status = Outcome(r)
      /\ \A i \in DOMAIN job : job'[i].bin = job[i].bin /\ job'[i].target = job[i].target
  BY <1>1 DEF Finish, Put
<1>4. Outcome(r) \in JobStatus
  BY DEF Outcome, Verdict, JobStatus
<1>5. \A s : ~Drives(r, s)
  BY <1>1 DEF Drives, Working
<1>6. \A q \in DOMAIN run', s \in San : Drives(q, s)' <=> Drives(q, s)
  BY <1>2 DEF Drives, Working
<1>7. JobsTyped'
  BY <1>2, <1>3, <1>4 DEF JobInv, RunInv, JobsTyped
<1>8. Follows' /\ FailuresSeen' /\ FirstWhole' /\ Alone'
  BY <1>2, <1>3 DEF JobInv, RunInv, JobsTyped, Follows, FailuresSeen, FirstWhole, Alone, StatusAt
<1>9. Single'
  BY <1>2, <1>6 DEF JobInv, RunInv, Single
<1>10. Ended'
  <2> SUFFICES ASSUME NEW i \in DOMAIN job \ lost, NEW s \in DOMAIN job[i].target,
                      job[i].target[s].status \notin {"success", "failed"}
               PROVE  \E q \in DOMAIN run' : run'[q].job = i /\ Drives(q, s)'
    BY <1>2, <1>3 DEF Ended
  <2>1. PICK q \in DOMAIN run : run[q].job = i /\ Drives(q, s)
    BY DEF JobInv, RunInv, Ended
  <2>2. q # r /\ s \in San
    BY <2>1, <1>5 DEF JobInv, RunInv, JobsTyped
  <2> QED  BY <2>1, <2>2, <1>2, <1>6
<1>11. \A i \in DOMAIN job : RunsOf(i)' = RunsOf(i) \ {r}
  BY <1>2 DEF RunsOf
<1>12. ASSUME RunsOf(j)' = {}, j \notin lost
       PROVE  /\ Outcome(r) = "success" => Statuses(j) = {"success"}
              /\ j \notin joined =>
                   Outcome(r) = Verdict("success" \in Statuses(j), "failed" \in Statuses(j))
  <2>1. \A s \in DOMAIN job[j].target : job[j].target[s].status \in {"success", "failed"}
    BY <1>1, <1>5, <1>11, <1>12 DEF JobInv, RunInv, Ended, RunsOf
  <2>2. Statuses(j) \subseteq {"success", "failed"} /\ Statuses(j) # {}
    <3>1. Statuses(j) \subseteq {"success", "failed"}
      BY <2>1 DEF Statuses
    <3>2. DOMAIN job[j].target \subseteq San /\ DOMAIN job[j].target # {}
      BY <1>1 DEF JobInv, RunInv, JobsTyped
    <3>3. PICK s : s \in DOMAIN job[j].target
      BY <3>2
    <3>4. job[j].target[s].status \in Statuses(j)
      BY <3>3 DEF Statuses
    <3> QED  BY <3>1, <3>4
  <2>3. \A s \in DOMAIN run[r].work :
          s \in DOMAIN job[j].target
            /\ (run[r].work[s].at = "success" => job[j].target[s].status = "success")
    BY <1>1 DEF JobInv, RunInv, JobsTyped, Follows, StatusAt
  <2>4. CASE run[r].again
    <3>1. Outcome(r) = Verdict("success" \in Statuses(j), "failed" \in Statuses(j))
      BY <2>3, <2>4 DEF Outcome, Verdict, Statuses
    <3> QED  BY <3>1, <2>2 DEF Verdict
  <2>5. CASE ~run[r].again
    <3>1. DOMAIN run[r].work = DOMAIN job[j].target
      BY <1>1, <2>5 DEF JobInv, RunInv, FirstWhole
    <3>2. Outcome(r) = "success" => \A s \in DOMAIN run[r].work : run[r].work[s].at # "failed"
      BY <2>5 DEF Outcome, Verdict
    <3>3. Outcome(r) = "success" => Statuses(j) = {"success"}
      BY <3>1, <3>2, <2>2, <2>3, <1>1 DEF Statuses
    <3>4. j \notin joined => \A s \in DOMAIN run[r].work :
            run[r].work[s].at = job[j].target[s].status
      BY <1>1, <2>3 DEF JobInv, RunInv, FailuresSeen
    <3>5. j \notin joined =>
            Outcome(r) = Verdict("success" \in Statuses(j), "failed" \in Statuses(j))
      <4>1. Outcome(r) = Verdict(\E s \in DOMAIN run[r].work : run[r].work[s].at = "success",
                                 \E s \in DOMAIN run[r].work : run[r].work[s].at = "failed")
        BY <2>5 DEF Outcome
      <4>2. ASSUME j \notin joined, NEW x
            PROVE  (\E s \in DOMAIN run[r].work : run[r].work[s].at = x) <=> x \in Statuses(j)
        BY <3>1, <3>4, <4>2 DEF Statuses
      <4> QED  BY <4>1, <4>2 DEF Verdict
    <3> QED  BY <3>3, <3>5
  <2> QED  BY <2>4, <2>5 DEF JobInv, RunInv, JobsTyped
<1>13. SuccessIsTrue'
  <2> SUFFICES ASSUME NEW i \in DOMAIN job, Quiet(i)', job'[i].status = "success"
               PROVE  Statuses(i)' = {"success"}
    BY <1>3 DEF SuccessIsTrue
  <2>1. Statuses(i)' = Statuses(i)
    BY <1>3 DEF Statuses
  <2>2. CASE i = j
    BY <2>1, <2>2, <1>2, <1>3, <1>12 DEF Quiet
  <2>3. CASE i # j
    <3>1. Quiet(i) /\ job[i].status = "success"
      BY <2>3, <1>2, <1>3, <1>11 DEF Quiet, RunsOf
    <3> QED  BY <3>1, <2>1 DEF JobInv, SuccessIsTrue
  <2> QED  BY <2>2, <2>3
<1>14. StatusSumsUp'
  <2> SUFFICES ASSUME NEW i \in DOMAIN job \ joined, Quiet(i)'
               PROVE  job'[i].status = Verdict("success" \in Statuses(i), "failed" \in Statuses(i))'
    BY <1>2, <1>3 DEF StatusSumsUp
  <2>1. Statuses(i)' = Statuses(i)
    BY <1>3 DEF Statuses
  <2>2. job'[i].status = Verdict("success" \in Statuses(i), "failed" \in Statuses(i))
    <3>1. CASE i = j
      BY <3>1, <1>2, <1>3, <1>12 DEF Quiet
    <3>2. CASE i # j
      <4>1. Quiet(i) /\ job'[i].status = job[i].status
        BY <3>2, <1>2, <1>3, <1>11 DEF Quiet, RunsOf
      <4> QED  BY <4>1 DEF JobInv, StatusSumsUp
    <3> QED  BY <3>1, <3>2
  <2> QED  BY <2>1, <2>2 DEF Verdict
<1> QED
  BY <1>7, <1>8, <1>9, <1>10, <1>13, <1>14 DEF JobInv, RunInv

-----------------------------------------------------------------------------
(* A run starts. *)

\* What NewJob and Retry have in common: r takes the targets S of j, which no
\* run drives; those of them in refused fail at once.
Opens(r, j, bin, S, refused, again) ==
  /\ r \in Run /\ r \notin DOMAIN run
  /\ S \subseteq San /\ refused \subseteq S /\ again \in BOOLEAN
  /\ Started(r, j, S, refused, again)
  /\ lost' = lost
  /\ DOMAIN job' = DOMAIN job \cup {j} /\ j \in Job
  /\ \A i \in DOMAIN job : i # j => job'[i] = job[i]
  /\ job'[j].bin \in Binary /\ job'[j].status = "running"
  /\ DOMAIN job'[j].target \subseteq San /\ DOMAIN job'[j].target # {} /\ S \subseteq DOMAIN job'[j].target
  /\ \A s \in S :
       /\ job'[j].target[s] \in Target
       /\ job'[j].target[s].status = IF s \in refused THEN "failed" ELSE "uploading"
       /\ job'[j].target[s].got = None
  /\ job'[j].bin = IF j \in DOMAIN job THEN job[j].bin ELSE bin
  /\ \A s \in DOMAIN job'[j].target \ S :
       /\ j \in DOMAIN job /\ s \in DOMAIN job[j].target
       /\ job'[j].target[s] = job[j].target[s]
  /\ j \in DOMAIN job =>
       /\ DOMAIN job'[j].target = DOMAIN job[j].target
       /\ \A s \in S : job[j].target[s].status = "failed"
  /\ again \/ S = DOMAIN job'[j].target
  /\ joined \subseteq joined' /\ joined' \subseteq joined \cup {j}
  /\ RunsOf(j) # {} => j \in joined'

LEMMA OpensKeepsJobs ==
  ASSUME JobInv, NEW r, NEW j, NEW bin, NEW S, NEW refused, NEW again,
         Opens(r, j, bin, S, refused, again)
  PROVE  JobInv'
<1>1. /\ DOMAIN run' = DOMAIN run \cup {r} /\ r \notin DOMAIN run
      /\ \A q \in DOMAIN run : run'[q] = run[q]
      /\ run'[r].job = j /\ run'[r].again = again
      /\ DOMAIN run'[r].work = S
      /\ \A s \in S : run'[r].work[s].at = IF s \in refused THEN "failed" ELSE "connect"
      /\ \A s \in S : run'[r].work[s] \in Work
  <2>1. /\ DOMAIN run' = DOMAIN run \cup {r} /\ r \notin DOMAIN run
        /\ \A q \in DOMAIN run : run'[q] = run[q]
    BY DEF Opens, Started, Put
  <2>2. run'[r] = [job |-> j, again |-> again,
          work |-> [s \in S |-> [at |-> IF s \in refused THEN "failed" ELSE "connect",
                                 got |-> None]]]
    BY Zenon DEF Opens, Started, Put
  <2> QED  BY <2>1, <2>2 DEF Work
<1>2. DOMAIN job \subseteq DOMAIN job' /\ j \in DOMAIN job' /\ lost' = lost
  BY DEF Opens
<1>3. \A q \in DOMAIN run : run[q].job \in DOMAIN job
  BY DEF JobInv, RunInv, JobsTyped
<1>4. \A q \in DOMAIN run, s \in San : Drives(q, s)' <=> Drives(q, s)
  BY <1>1 DEF Drives, Working
<1>5. \A s \in San : Drives(r, s)' <=> s \in S \ refused
  BY <1>1 DEF Drives, Working
\* The targets that r takes had failed.
<1>6. \A q \in DOMAIN run : \A s \in S :
        run[q].job = j /\ s \in DOMAIN run[q].work => run[q].work[s].at = "failed"
  <2> SUFFICES ASSUME NEW q \in DOMAIN run, NEW s \in S,
                      run[q].job = j, s \in DOMAIN run[q].work
               PROVE  run[q].work[s].at = "failed"
    OBVIOUS
  <2>1. job[j].target[s].status = "failed"
    BY <1>3 DEF Opens
  <2>2. run[q].work[s] \in Work
    BY DEF JobInv, RunInv, JobsTyped
  <2> QED  BY <2>1, <2>2 DEF JobInv, RunInv, Follows, StatusAt, Work
<1>7. \A i \in DOMAIN job : \A s \in DOMAIN job[i].target :
        i # j \/ s \notin S => job'[i].target[s] = job[i].target[s]
  BY DEF Opens
<1>8. \A i \in DOMAIN job : DOMAIN job'[i].target = DOMAIN job[i].target
  BY DEF Opens
<1>9. JobsTyped'
  <2>1. \A s \in DOMAIN job'[j].target : job'[j].target[s] \in Target
    <3> TAKE s \in DOMAIN job'[j].target
    <3>1. CASE s \in S
      BY <3>1 DEF Opens, Target
    <3>2. CASE s \notin S
      BY <3>2 DEF Opens, JobInv, RunInv, JobsTyped
    <3> QED  BY <3>1, <3>2
  <2>2. \A s \in DOMAIN run'[r].work : run'[r].work[s] \in Work
    BY <1>1
  <2>3. \A i \in DOMAIN job' :
          /\ job'[i].bin \in Binary /\ job'[i].status \in JobStatus
          /\ DOMAIN job'[i].target \subseteq San /\ DOMAIN job'[i].target # {}
          /\ \A s \in DOMAIN job'[i].target : job'[i].target[s] \in Target
    BY <2>1 DEF Opens, JobStatus, JobInv, RunInv, JobsTyped
  <2>4. \A q \in DOMAIN run' :
          /\ run'[q].job \in DOMAIN job' /\ run'[q].again \in BOOLEAN
          /\ DOMAIN run'[q].work \subseteq DOMAIN job'[run'[q].job].target
          /\ \A s \in DOMAIN run'[q].work : run'[q].work[s] \in Work
    <3> TAKE q \in DOMAIN run'
    <3>1. CASE q = r
      BY <3>1, <2>2, <1>1, <1>2 DEF Opens
    <3>2. CASE q \in DOMAIN run
      BY <3>2, <1>1, <1>2, <1>8 DEF JobInv, RunInv, JobsTyped
    <3> QED  BY <3>1, <3>2, <1>1
  <2>5. DOMAIN job' \subseteq Job /\ DOMAIN run' \subseteq Run
        /\ lost' \subseteq DOMAIN job' /\ joined' \subseteq DOMAIN job'
    BY <1>1, <1>2 DEF Opens, JobInv, RunInv, JobsTyped
  <2> QED  BY <2>3, <2>4, <2>5 DEF JobsTyped
<1>10. Follows'
  <2> SUFFICES ASSUME NEW q \in DOMAIN run', NEW s \in DOMAIN run'[q].work,
                      run'[q].work[s].at # "failed"
               PROVE  job'[run'[q].job].target[s].status = StatusAt(run'[q].work[s].at)
    BY DEF Follows, StatusAt
  <2>1. CASE q = r
    BY <2>1, <1>1 DEF Opens, StatusAt
  <2>2. CASE q \in DOMAIN run
    <3>1. run'[q] = run[q] /\ s \in DOMAIN job[run[q].job].target
      BY <2>2, <1>1 DEF JobInv, RunInv, JobsTyped
    <3>2. run[q].job # j \/ s \notin S
      BY <2>2, <3>1, <1>6
    <3> QED  BY <2>2, <3>1, <3>2, <1>3, <1>7 DEF JobInv, RunInv, Follows
  <2> QED  BY <2>1, <2>2, <1>1
<1>11. FailuresSeen'
  <2> SUFFICES ASSUME NEW q \in DOMAIN run', run'[q].job \notin joined',
                      NEW s \in DOMAIN run'[q].work, run'[q].work[s].at = "failed"
               PROVE  job'[run'[q].job].target[s].status = "failed"
    BY DEF FailuresSeen
  <2>1. CASE q = r
    BY <2>1, <1>1 DEF Opens
  <2>2. CASE q \in DOMAIN run
    <3>1. run'[q] = run[q] /\ s \in DOMAIN job[run[q].job].target
      BY <2>2, <1>1 DEF JobInv, RunInv, JobsTyped
    <3>2. run[q].job # j /\ run[q].job \notin joined
      BY <2>2, <3>1 DEF Opens, RunsOf
    <3> QED  BY <2>2, <3>1, <3>2, <1>3, <1>7 DEF JobInv, RunInv, FailuresSeen
  <2> QED  BY <2>1, <2>2, <1>1
<1>12. FirstWhole'
  <2>1. ~again => S = DOMAIN job'[j].target
    BY DEF Opens
  <2> QED  BY <2>1, <1>1, <1>3, <1>8 DEF JobInv, RunInv, FirstWhole
<1>13. Alone'
  <2>1. \A q \in DOMAIN run : run[q].job = j => j \in joined'
    BY DEF Opens, RunsOf
  <2>2. joined \subseteq joined'
    BY DEF Opens
  <2> QED  BY <2>1, <2>2, <1>1 DEF JobInv, RunInv, Alone
<1>14. Single'
  <2>1. \A q \in DOMAIN run : \A s \in S : run[q].job = j => ~Drives(q, s)
    BY <1>6 DEF Drives, Working
  <2>2. S \subseteq San
    BY DEF Opens
  <2> QED  BY <2>1, <2>2, <1>1, <1>4, <1>5 DEF JobInv, RunInv, Single
<1>15. Ended'
  <2> SUFFICES ASSUME NEW i \in DOMAIN job' \ lost, NEW s \in DOMAIN job'[i].target,
                      job'[i].target[s].status \notin {"success", "failed"}
               PROVE  \E q \in DOMAIN run' : run'[q].job = i /\ Drives(q, s)'
    BY <1>2 DEF Ended
  <2>1. CASE i = j /\ s \in S
    BY <2>1, <1>1, <1>5 DEF Opens
  <2>2. CASE i # j \/ s \notin S
    <3>1. /\ i \in DOMAIN job \ lost /\ s \in DOMAIN job[i].target
          /\ job'[i].target[s] = job[i].target[s]
      BY <2>2 DEF Opens
    <3>2. PICK q \in DOMAIN run : run[q].job = i /\ Drives(q, s)
      BY <3>1 DEF JobInv, RunInv, Ended
    <3> QED  BY <3>1, <3>2, <1>1, <1>4 DEF JobInv, RunInv, JobsTyped
  <2> QED  BY <2>1, <2>2
<1>16. SuccessIsTrue' /\ StatusSumsUp'
  <2>1. RunsOf(j)' # {}
    BY <1>1 DEF RunsOf
  <2>2. \A i \in DOMAIN job' :
           \/ RunsOf(i)' # {} \/ i \in lost'
           \/ /\ i \in DOMAIN job /\ i \notin lost /\ RunsOf(i) = {}
              /\ job'[i].status = job[i].status /\ job'[i].target = job[i].target
              /\ i \notin joined' => i \notin joined
    <3> TAKE i \in DOMAIN job'
    <3>1. RunsOf(i) \subseteq RunsOf(i)'
      BY <1>1 DEF RunsOf
    <3> QED  BY <2>1, <3>1, <1>2 DEF Opens
  <2> QED  BY <2>2, VerdictsKept DEF JobInv
<1> QED
  BY <1>9, <1>10, <1>11, <1>12, <1>13, <1>14, <1>15, <1>16 DEF JobInv, RunInv

LEMMA NewJobOpens ==
  ASSUME JobInv, NEW r \in Run, NEW b \in Binary, NEW S \in SUBSET San, S # {},
         NEW refused \in SUBSET S, NewJob(r, b, S, refused)
  PROVE  \E j : Opens(r, j, b, S, refused, FALSE)
<1>1. PICK j \in Job \ DOMAIN job :
        /\ r \notin DOMAIN run
        /\ job' = Put(job, j, [bin |-> b, status |-> "running",
                               target |-> Taken(S, refused)])
        /\ Started(r, j, S, refused, FALSE)
        /\ UNCHANGED <<lost, joined>>
  BY DEF NewJob
<1>2. /\ DOMAIN job' = DOMAIN job \cup {j}
      /\ \A i \in DOMAIN job : job'[i] = job[i]
      /\ job'[j].bin = b /\ job'[j].status = "running"
      /\ job'[j].target = Taken(S, refused)
  BY <1>1 DEF Put
<1>3. /\ DOMAIN Taken(S, refused) = S
      /\ \A s \in S :
           /\ Taken(S, refused)[s] \in Target
           /\ Taken(S, refused)[s].got = None
           /\ Taken(S, refused)[s].status = IF s \in refused THEN "failed" ELSE "uploading"
  BY DEF Taken, Target
<1>4. RunsOf(j) = {}
  BY <1>1 DEF JobInv, RunInv, JobsTyped, RunsOf
<1>5. Opens(r, j, b, S, refused, FALSE)
  BY <1>1, <1>2, <1>3, <1>4 DEF Opens
<1> QED  BY <1>5

LEMMA RetryOpens ==
  ASSUME JobInv, NEW r \in Run, NEW j \in DOMAIN job, Retry(r, j)
  PROVE  \E refused : Opens(r, j, job[j].bin, Failed(j), refused, TRUE)
<1>1. PICK refused \in SUBSET Failed(j) :
        /\ job' = Put(job, j, [bin |-> job[j].bin, status |-> "running",
                               target |-> [s \in DOMAIN job[j].target |->
                                 IF s \in Failed(j) THEN Taken(Failed(j), refused)[s]
                                 ELSE job[j].target[s]]])
        /\ Started(r, j, Failed(j), refused, TRUE)
  BY DEF Retry
<1>2. /\ DOMAIN job' = DOMAIN job
      /\ \A i \in DOMAIN job : i # j => job'[i] = job[i]
      /\ job'[j].bin = job[j].bin /\ job'[j].status = "running"
      /\ DOMAIN job'[j].target = DOMAIN job[j].target
      /\ \A s \in DOMAIN job[j].target : job'[j].target[s] =
           IF s \in Failed(j) THEN Taken(Failed(j), refused)[s] ELSE job[j].target[s]
  BY <1>1 DEF Put
<1>3. \A s \in Failed(j) :
        /\ Taken(Failed(j), refused)[s] \in Target
        /\ Taken(Failed(j), refused)[s].got = None
        /\ Taken(Failed(j), refused)[s].status = IF s \in refused THEN "failed" ELSE "uploading"
  BY DEF Taken, Target
<1>4. /\ Failed(j) \subseteq DOMAIN job[j].target
      /\ \A s \in Failed(j) : job[j].target[s].status = "failed"
  BY DEF Failed
<1>5. /\ r \notin DOMAIN run /\ lost' = lost
      /\ joined' = IF RunsOf(j) = {} THEN joined ELSE joined \cup {j}
  BY DEF Retry
<1>6. /\ job[j].bin \in Binary /\ DOMAIN job[j].target \subseteq San /\ DOMAIN job[j].target # {} /\ j \in Job
  BY DEF JobInv, RunInv, JobsTyped
<1>7. Opens(r, j, job[j].bin, Failed(j), refused, TRUE)
  BY <1>1, <1>2, <1>3, <1>4, <1>5, <1>6 DEF Opens
<1> QED  BY <1>7

LEMMA CrashKeepsJobs ==
  ASSUME JobInv, Crash
  PROVE  JobInv'
<1>1. /\ DOMAIN run' = {} /\ job' = job /\ joined' = joined
      /\ lost' = lost \cup {run[r].job : r \in DOMAIN run}
  BY DEF Crash, Nothing
<1>2. \A i \in DOMAIN job : i \notin lost' => i \notin lost /\ RunsOf(i) = {}
  BY <1>1 DEF RunsOf
<1>3. JobsTyped'
  BY <1>1 DEF JobInv, RunInv, JobsTyped
<1>4. Follows' /\ FailuresSeen' /\ FirstWhole' /\ Alone' /\ Single'
  BY <1>1 DEF Follows, FailuresSeen, FirstWhole, Alone, Single
<1>5. Ended'
  BY <1>1, <1>2 DEF JobInv, RunInv, Ended, RunsOf
<1>6. SuccessIsTrue' /\ StatusSumsUp'
  BY <1>1, <1>2, VerdictsKept DEF JobInv
<1> QED  BY <1>3, <1>4, <1>5, <1>6 DEF JobInv, RunInv

-----------------------------------------------------------------------------
(* What the nodes receive. *)

\* A run that verified a checksum knows what it installs.
Verified ==
  \A r \in DOMAIN run : \A s \in DOMAIN run[r].work :
    run[r].work[s].at \in {"apply", "success"} =>
      run[r].work[s].got \in {ShaOf(r), None}

GotInv == InstalledIsRegistered /\ Verified

\* The rows that jobs use stay, with their checksum.
RowsKept ==
  \A b \in DOMAIN catalog :
    InUse(b) => b \in DOMAIN catalog' /\ catalog'[b].sha = catalog[b].sha

LEMMA GotWithRows ==
  ASSUME JobInv, GotInv, RowsKept, job' = job, run' = run
  PROVE  GotInv'
<1>1. \A j \in DOMAIN job : HasRow(job[j].bin)' /\ catalog'[job[j].bin].sha = catalog[job[j].bin].sha
  BY DEF GotInv, InstalledIsRegistered, HasRow, RowsKept, InUse
<1>2. \A r \in DOMAIN run : run[r].job \in DOMAIN job
  BY DEF JobInv, RunInv, JobsTyped
<1>3. InstalledIsRegistered'
  BY <1>1 DEF GotInv, InstalledIsRegistered
<1>4. Verified'
  BY <1>1, <1>2 DEF GotInv, Verified, ShaOf
<1> QED  BY <1>3, <1>4 DEF GotInv

LEMMA GotWithMoves ==
  ASSUME JobInv, GotInv, NEW r \in Run, NEW s, NEW w \in Work,
         Working(r, s, Active), Moves(r, s, w, StatusAt(w.at)),
         w.at \in {"apply", "success"} => w.got \in {ShaOf(r), None}
  PROVE  GotInv'
<1>1. r \in DOMAIN run /\ run[r].job \in DOMAIN job /\ s \in DOMAIN run[r].work
      /\ s \in DOMAIN job[run[r].job].target
  BY DEF JobInv, RunInv, JobsTyped, Working
<1>2. /\ DOMAIN run' = DOMAIN run /\ catalog' = catalog
      /\ \A q \in DOMAIN run : run'[q].job = run[q].job /\ DOMAIN run'[q].work = DOMAIN run[q].work
      /\ run'[r].work[s] = w
      /\ \A q \in DOMAIN run : \A x \in DOMAIN run[q].work :
           q # r \/ x # s => run'[q].work[x] = run[q].work[x]
  BY <1>1 DEF Moves, Put, files
<1>3. /\ DOMAIN job' = DOMAIN job
      /\ \A i \in DOMAIN job :
           job'[i].bin = job[i].bin /\ DOMAIN job'[i].target = DOMAIN job[i].target
      /\ job'[run[r].job].target[s].got = IF StatusAt(w.at) = "success" THEN w.got ELSE None
      /\ \A i \in DOMAIN job : \A x \in DOMAIN job[i].target :
           i # run[r].job \/ x # s => job'[i].target[x] = job[i].target[x]
  BY <1>1 DEF Moves, Put
<1>4. StatusAt(w.at) = "success" => w.got \in {ShaOf(r), None}
  BY DEF StatusAt
<1>5. InstalledIsRegistered'
  BY <1>1, <1>2, <1>3, <1>4 DEF GotInv, InstalledIsRegistered, HasRow, ShaOf
<1>6. \A q \in DOMAIN run : ShaOf(q)' = ShaOf(q)
  BY <1>2, <1>3 DEF ShaOf, JobInv, RunInv, JobsTyped
<1>7. Verified'
  BY <1>1, <1>2, <1>6 DEF GotInv, Verified
<1> QED  BY <1>5, <1>7 DEF GotInv

LEMMA GotWithOpens ==
  ASSUME JobInv, GotInv,
         NEW r, NEW j, NEW bin \in DOMAIN catalog, NEW S, NEW refused, NEW again,
         Opens(r, j, bin, S, refused, again), catalog' = catalog
  PROVE  GotInv'
<1>1. /\ DOMAIN run' = DOMAIN run \cup {r} /\ r \notin DOMAIN run
      /\ \A q \in DOMAIN run : run'[q] = run[q]
  BY DEF Opens, Started, Put
<1>2. \A s \in DOMAIN run'[r].work : run'[r].work[s].at \notin {"apply", "success"}
  <2>1. run'[r].work = [s \in S |-> [at |-> IF s \in refused THEN "failed" ELSE "connect",
                                    got |-> None]]
    BY Zenon DEF Opens, Started, Put
  <2> QED  BY <2>1
<1>3. \A i \in DOMAIN job : i \in DOMAIN job' /\ job'[i].bin = job[i].bin
  BY DEF Opens
<1>4. InstalledIsRegistered'
  BY DEF Opens, GotInv, InstalledIsRegistered, HasRow
<1>5. \A q \in DOMAIN run : ShaOf(q)' = ShaOf(q)
  BY <1>1, <1>3 DEF ShaOf, JobInv, RunInv, JobsTyped
<1>6. Verified'
  BY <1>1, <1>2, <1>5 DEF GotInv, Verified
<1> QED  BY <1>4, <1>6 DEF GotInv

LEMMA GotWithFinish ==
  ASSUME JobInv, GotInv, NEW r \in Run, Finish(r)
  PROVE  GotInv'
<1>1. /\ DOMAIN job' = DOMAIN job /\ catalog' = catalog
      /\ \A i \in DOMAIN job : job'[i].bin = job[i].bin /\ job'[i].target = job[i].target
      /\ DOMAIN run' \subseteq DOMAIN run
      /\ \A q \in DOMAIN run' : run'[q] = run[q]
  BY DEF Finish, Put, files, JobInv, RunInv, JobsTyped
<1>2. InstalledIsRegistered'
  BY <1>1 DEF GotInv, InstalledIsRegistered, HasRow
<1>3. \A q \in DOMAIN run' : ShaOf(q)' = ShaOf(q)
  BY <1>1 DEF ShaOf, JobInv, RunInv, JobsTyped
<1>4. Verified'
  BY <1>1, <1>3 DEF GotInv, Verified
<1> QED  BY <1>2, <1>4 DEF GotInv

LEMMA GotWithCrash ==
  ASSUME GotInv, Crash
  PROVE  GotInv'
BY DEF GotInv, Crash, Nothing, InstalledIsRegistered, HasRow, Verified

-----------------------------------------------------------------------------
(* The steps of runTarget(), and the steps that leave the jobs alone. *)

LEMMA MoveKeepsAll ==
  ASSUME JobInv, GotInv, NEW r \in Run, NEW s, NEW w \in Work,
         Working(r, s, Active), Moves(r, s, w, StatusAt(w.at)),
         w.at \in {"apply", "success"} => w.got \in {ShaOf(r), None}
  PROVE  JobInv' /\ GotInv'
BY MovesKeepsRuns, MovesKeepsVerdicts, GotWithMoves DEF JobInv

LEMMA AdvanceKeepsAll ==
  ASSUME JobInv, GotInv, FilesTyped, NEW r \in Run, NEW s \in San, Advance(r, s)
  PROVE  JobInv' /\ GotInv'
<1> DEFINE Step(w) ==
      /\ Working(r, s, Active) /\ Moves(r, s, w, StatusAt(w.at))
      /\ w.at \in {"apply", "success"} => w.got \in {ShaOf(r), None}
<1>1. ASSUME NEW at, Working(r, s, at)
      PROVE  /\ r \in DOMAIN run /\ s \in DOMAIN run[r].work
             /\ run[r].job \in DOMAIN job /\ HasRow(job[run[r].job].bin)
             /\ run[r].work[s] \in Work
  BY <1>1 DEF Working, JobInv, RunInv, JobsTyped, GotInv, InstalledIsRegistered
<1>2. CASE TargetFails(r, s)
  <2>1. [at |-> "failed", got |-> None] \in Work
    BY DEF Work
  <2>2. Step([at |-> "failed", got |-> None])
    BY <1>2 DEF TargetFails, Active, StatusAt
  <2> QED  BY <2>1, <2>2, MoveKeepsAll
<1>3. CASE Locate(r, s)
  <2>1. [at |-> "send", got |-> None] \in Work
    BY DEF Work
  <2>2. Step([at |-> "send", got |-> None])
    BY <1>3 DEF Locate, Working, Active, StatusAt
  <2> QED  BY <2>1, <2>2, MoveKeepsAll
<1>4. CASE Send(r, s)
  <2>1. PICK x \in {disk[FileOf(r)], Damaged} :
          Moves(r, s, [at |-> "verify", got |-> x], "uploading")
    BY <1>4 DEF Send
  <2>2. Working(r, s, {"send"}) /\ Exists(FileOf(r))
    BY <1>4 DEF Send
  <2>3. FileOf(r) \in File
    BY <1>1, <2>2 DEF FilesTyped, FileOf, HasRow, Row
  <2>4. x \in Content \cup {Damaged, None}
    BY <2>3 DEF FilesTyped
  <2>5. [at |-> "verify", got |-> x] \in Work
    BY <2>4 DEF Work
  <2>6. Step([at |-> "verify", got |-> x])
    BY <2>1, <2>2 DEF Working, Active, StatusAt
  <2> QED  BY <2>5, <2>6, MoveKeepsAll
<1>5. CASE Verify(r, s)
  <2>1. PICK known \in {run[r].work[s].got, None} :
          /\ known \in {ShaOf(r), None}
          /\ Moves(r, s, [at |-> "apply", got |-> known], "applying")
    BY <1>5 DEF Verify
  <2>2. Working(r, s, {"verify"})
    BY <1>5 DEF Verify
  <2>3. [at |-> "apply", got |-> known] \in Work
    BY <1>1, <2>2 DEF Work
  <2>4. Step([at |-> "apply", got |-> known])
    BY <2>1, <2>2 DEF Working, Active, StatusAt
  <2> QED  BY <2>3, <2>4, MoveKeepsAll
<1>6. CASE Install(r, s)
  <2>1. Working(r, s, {"apply"})
    BY <1>6 DEF Install
  <2>2. [at |-> "success", got |-> run[r].work[s].got] \in Work
    BY <1>1, <2>1 DEF Work
  <2>3. run[r].work[s].got \in {ShaOf(r), None}
    BY <1>1, <2>1 DEF Working, GotInv, Verified
  <2>4. Step([at |-> "success", got |-> run[r].work[s].got])
    BY <1>6, <2>1, <2>3 DEF Install, Working, Active, StatusAt
  <2> QED  BY <2>2, <2>4, MoveKeepsAll
<1> QED  BY <1>2, <1>3, <1>4, <1>5, <1>6 DEF Advance

LEMMA QuietStepsKeepJobs ==
  ASSUME JobInv, jobState' = jobState
  PROVE  JobInv'
<1>1. job' = job /\ run' = run /\ lost' = lost /\ joined' = joined
  BY DEF jobState
<1>2. RunInv'
  BY <1>1 DEF JobInv, RunInv, JobsTyped, Follows, FailuresSeen, FirstWhole, Alone, Single,
              Ended, Drives, Working
<1>3. SuccessIsTrue' /\ StatusSumsUp'
  BY <1>1 DEF JobInv, SuccessIsTrue, StatusSumsUp, Quiet, Statuses, RunsOf
<1> QED  BY <1>2, <1>3 DEF JobInv

-----------------------------------------------------------------------------
(* The files.  A file without a row is one that an upload in progress will  *)
(* register or remove, or one that is allowed to stay.                      *)

Tends(c, f) ==
  /\ req[c].op = "upload" /\ req[c].at \in {"hash", "insert", "unlink"} /\ req[c].file = f
  /\ req[c].at = "insert" => req[c].sha = disk[f]

NoStray ==
  \A f \in File :
    Exists(f) /\ disk[f] \notin exempt => Registered(disk[f]) \/ \E c \in Client : Tends(c, f)

FilesInv == FilesTyped /\ NoStray

\* What a request remembers has the type of its step.
LEMMA Fields ==
  ASSUME FilesTyped, NEW c \in Client
  PROVE  /\ req[c].op # "idle" => req[c].file \in File
         /\ req[c].op \in {"list", "deploy", "file", "full"} => req[c].bin \in Binary
         /\ req[c].op \in {"list", "deploy"} /\ req[c].at # "recheck" =>
              req[c].old \in {"available", "missing"}
         /\ req[c].op \in {"upload", "register"} /\ req[c].at \in {"write", "insert"} =>
              req[c].sha \in Content
BY DEF FilesTyped, RequestType, Idle

LEMMA WaitTyped ==
  ASSUME FilesTyped, NEW c \in Client, NEW x \in RequestType, Wait(c, x)
  PROVE  /\ req' \in [Client -> RequestType] /\ req'[c] = x
         /\ \A d \in Client : d # c => req'[d] = req[d]
BY DEF FilesTyped, Wait

LEMMA DoneTyped ==
  ASSUME FilesTyped, NEW c \in Client, Done(c)
  PROVE  /\ req' \in [Client -> RequestType] /\ req'[c] = Idle /\ ~\E f \in File : Tends(c, f)'
         /\ \A d \in Client : d # c => req'[d] = req[d]
<1>1. Idle \in RequestType
  BY DEF RequestType
<1> QED  BY <1>1 DEF FilesTyped, Done, Tends, Idle

\* A request c that takes a step keeps NoStray if it does so file by file.
LEMMA NoStrayKept ==
  ASSUME NoStray, NEW c \in Client,
         \A d \in Client : d # c => req'[d] = req[d],
         \A f \in File : Exists(f)' /\ disk'[f] \notin exempt' =>
           \/ Tends(c, f)'
           \/ Registered(disk[f])'
           \/ /\ disk'[f] = disk[f] /\ disk[f] \notin exempt
              /\ ~Registered(disk[f]) /\ ~Tends(c, f)
  PROVE  NoStray'
<1> SUFFICES ASSUME NEW f \in File, Exists(f)', disk'[f] \notin exempt',
                    ~Registered(disk[f])', ~Tends(c, f)'
             PROVE  \E d \in Client : Tends(d, f)'
  BY DEF NoStray
<1>1. /\ disk'[f] = disk[f] /\ disk[f] \notin exempt
      /\ ~Registered(disk[f]) /\ ~Tends(c, f)
  OBVIOUS
<1>2. PICK d \in Client : Tends(d, f)
  BY <1>1 DEF NoStray, Exists
<1>3. Tends(d, f)'
  BY <1>1, <1>2 DEF Tends
<1> QED  BY <1>3

LEMMA CataloguedFollows ==
  ASSUME FilesInv
  PROVE  EveryFileCatalogued
<1>1. \A f \in File, c \in Client : Tends(c, f) =>
        req[c] # Idle /\ req[c].op = "upload" /\ req[c].file = f
  BY DEF Tends, Idle
<1> QED  BY <1>1 DEF EveryFileCatalogued, FilesInv, NoStray

\* A step that leaves files, rows and exemptions alone.
LEMMA WaitKeepsFiles ==
  ASSUME FilesInv, NEW c \in Client, NEW x \in RequestType, Wait(c, x),
         files' = files,
         \A f \in File : Tends(c, f) => x.op = "upload" /\ x.file = f
           /\ (x.at \in {"hash", "unlink"} \/ (x.at = "insert" /\ x.sha = disk[f]))
  PROVE  FilesInv'
<1>1. /\ req' \in [Client -> RequestType] /\ req'[c] = x
      /\ \A d \in Client : d # c => req'[d] = req[d]
  BY WaitTyped DEF FilesInv
<1>2. disk' = disk /\ catalog' = catalog /\ born' = born /\ exempt' = exempt
  BY DEF files
<1>3. FilesTyped'
  BY <1>1, <1>2 DEF FilesInv, FilesTyped
<1>4. \A f \in File : Tends(c, f) => Tends(c, f)'
  BY <1>1, <1>2 DEF Tends
<1>5. \A x1 : Registered(x1)' <=> Registered(x1)
  BY <1>2 DEF Registered
<1>6. NoStray'
  BY <1>1, <1>2, <1>4, <1>5, NoStrayKept DEF FilesInv
<1> QED  BY <1>3, <1>6 DEF FilesInv

\* The rows keep their checksums; their status may change.
SameRows ==
  /\ DOMAIN catalog' = DOMAIN catalog
  /\ \A b \in DOMAIN catalog : catalog'[b] \in Row /\ catalog'[b].sha = catalog[b].sha

LEMMA UpdateKeepsRows ==
  ASSUME FilesTyped, NEW b, NEW status \in {"available", "missing"}, UpdateStatus(b, status)
  PROVE  SameRows
<1>1. CASE HasRow(b)
  <2>1. /\ DOMAIN catalog' = DOMAIN catalog
        /\ catalog'[b] = [file |-> catalog[b].file, sha |-> catalog[b].sha, status |-> status]
        /\ \A i \in DOMAIN catalog : i # b => catalog'[i] = catalog[i]
    BY <1>1 DEF UpdateStatus, Put, HasRow
  <2>2. catalog[b] \in Row
    BY <1>1 DEF HasRow, FilesTyped
  <2> QED  BY <2>1, <2>2 DEF SameRows, Row, FilesTyped
<1>2. CASE ~HasRow(b)
  BY <1>2 DEF UpdateStatus, SameRows, FilesTyped
<1> QED  BY <1>1, <1>2

\* A step of a request that has no file of its own.
LEMMA PlainStep ==
  ASSUME FilesInv, NEW c \in Client,
         req' \in [Client -> RequestType],
         \A d \in Client : d # c => req'[d] = req[d],
         req[c].op # "upload",
         disk' = disk, born' = born, exempt' = exempt, SameRows
  PROVE  FilesInv' /\ RowsKept
<1>1. FilesTyped'
  BY DEF FilesInv, FilesTyped, SameRows
<1>2. \A x : Registered(x) => \E b \in DOMAIN catalog' : catalog'[b].sha = x
  BY DEF Registered, SameRows
<1>3. \A f \in File : ~Tends(c, f)
  BY DEF Tends
<1>4. \A f \in File : Exists(f)' /\ disk'[f] \notin exempt' =>
        \/ Tends(c, f)'
        \/ Registered(disk[f])'
        \/ /\ disk'[f] = disk[f] /\ disk[f] \notin exempt
           /\ ~Registered(disk[f]) /\ ~Tends(c, f)
  BY <1>2, <1>3 DEF Registered
<1>5. NoStray'
  BY <1>4, NoStrayKept DEF FilesInv
<1>6. RowsKept
  BY DEF RowsKept, SameRows
<1> QED  BY <1>1, <1>5, <1>6 DEF FilesInv

LEMMA PlainWait ==
  ASSUME FilesInv, NEW c \in Client, NEW x \in RequestType, Wait(c, x),
         req[c].op # "upload",
         disk' = disk, born' = born, exempt' = exempt, SameRows
  PROVE  FilesInv' /\ RowsKept
BY WaitTyped, PlainStep DEF FilesInv

LEMMA PlainDone ==
  ASSUME FilesInv, NEW c \in Client, Done(c),
         req[c].op # "upload",
         disk' = disk, born' = born, exempt' = exempt, SameRows
  PROVE  FilesInv' /\ RowsKept
BY DoneTyped, PlainStep DEF FilesInv

LEMMA UnchangedRows ==
  ASSUME FilesTyped, catalog' = catalog
  PROVE  SameRows /\ RowsKept
BY DEF FilesTyped, SameRows, RowsKept

LEMMA AskingKeepsFiles ==
  ASSUME FilesInv, NEW c \in Client,
         Examine(c) \/ Stat(c) \/ Upload(c) \/ Register(c) \/ DeleteFile(c)
  PROVE  FilesInv' /\ RowsKept
<1>1. \A b \in DOMAIN catalog : b \in Binary /\ catalog[b] \in Row
  BY DEF FilesInv, FilesTyped
<1>2. req[c].op # "upload"
  BY DEF Examine, Stat, Upload, Register, DeleteFile, At, Idle
<1>3. disk' = disk /\ born' = born /\ exempt' = exempt /\ catalog' = catalog
  BY DEF Examine, Stat, Upload, Register, DeleteFile, files
<1>4. SameRows
  BY <1>3, UnchangedRows DEF FilesInv
<1>5. CASE Examine(c)
  <2>1. PICK b \in DOMAIN catalog, op \in {"list", "deploy"} :
          Wait(c, [op |-> op, at |-> "stat", bin |-> b,
                   file |-> catalog[b].file, old |-> catalog[b].status])
    BY <1>5 DEF Examine
  <2>2. [op |-> op, at |-> "stat", bin |-> b,
         file |-> catalog[b].file, old |-> catalog[b].status] \in RequestType
    BY <1>1 DEF RequestType, Row
  <2> QED  BY <2>1, <2>2, <1>2, <1>3, <1>4, PlainWait
<1>6. CASE Stat(c)
  <2> DEFINE x == [op |-> req[c].op, at |-> IF Exists(req[c].file) THEN "seen" ELSE "gone",
                   bin |-> req[c].bin, file |-> req[c].file, old |-> req[c].old]
  <2>1. Wait(c, x)
    BY <1>6 DEF Stat
  <2>2. /\ req[c].op \in {"list", "deploy"} /\ req[c].bin \in Binary
        /\ req[c].file \in File /\ req[c].old \in {"available", "missing"}
    BY <1>6, Fields DEF Stat, At, FilesInv
  <2>3. x \in RequestType
    BY <2>2 DEF RequestType
  <2> HIDE DEF x
  <2> QED  BY <2>1, <2>3, <1>2, <1>3, <1>4, PlainWait
<1>7. CASE Upload(c)
  <2>1. PICK f \in File, s \in Content :
          Wait(c, [op |-> "upload", at |-> "write", file |-> f, sha |-> s])
    BY <1>7 DEF Upload
  <2>2. [op |-> "upload", at |-> "write", file |-> f, sha |-> s] \in RequestType
    BY DEF RequestType
  <2> QED  BY <2>1, <2>2, <1>2, <1>3, <1>4, PlainWait
<1>8. CASE Register(c)
  <2>1. PICK f \in File, twice \in BOOLEAN :
          Wait(c, [op |-> "register", at |-> "hash", file |-> f, twice |-> twice])
    BY <1>8 DEF Register
  <2>2. [op |-> "register", at |-> "hash", file |-> f, twice |-> twice] \in RequestType
    BY DEF RequestType
  <2> QED  BY <2>1, <2>2, <1>2, <1>3, <1>4, PlainWait
<1>9. CASE DeleteFile(c)
  <2>1. PICK b \in DOMAIN catalog, op \in {"file", "full"} :
          Wait(c, [op |-> op, at |-> "remove", bin |-> b, file |-> catalog[b].file])
    BY <1>9 DEF DeleteFile
  <2>2. [op |-> op, at |-> "remove", bin |-> b, file |-> catalog[b].file] \in RequestType
    BY <1>1 DEF RequestType, Row
  <2> QED  BY <2>1, <2>2, <1>2, <1>3, <1>4, PlainWait
<1> QED  BY <1>5, <1>6, <1>7, <1>8, <1>9

LEMMA LookedKeepsFiles ==
  ASSUME FilesInv, NEW c \in Client, Present(c) \/ Absent(c)
  PROVE  FilesInv' /\ RowsKept
<1>1. req[c].op \in {"list", "deploy"} /\ req[c].bin \in Binary /\ req[c].file \in File
  BY Fields DEF Present, Absent, At, FilesInv
<1>2. disk' = disk /\ born' = born /\ exempt' = exempt
  BY DEF Present, Absent
<1>3. \/ catalog' = catalog
      \/ \E status \in {"available", "missing"} : UpdateStatus(req[c].bin, status)
  BY DEF Present, Absent
<1>4. SameRows
  BY <1>3, UpdateKeepsRows, UnchangedRows DEF FilesInv
<1>5. CASE Done(c)
  BY <1>1, <1>2, <1>4, <1>5, PlainDone
<1>6. CASE Wait(c, [op |-> "deploy", at |-> "recheck", bin |-> req[c].bin, file |-> req[c].file])
  <2>1. [op |-> "deploy", at |-> "recheck", bin |-> req[c].bin, file |-> req[c].file] \in RequestType
    BY <1>1 DEF RequestType
  <2> QED  BY <2>1, <1>1, <1>2, <1>4, <1>6, PlainWait
<1> QED  BY <1>5, <1>6 DEF Present, Absent

LEMMA DeleteRowKeeps ==
  ASSUME FilesInv, NEW b, DeleteRow(b), ~InUse(b),
         disk' = disk, born' = born, req' \in [Client -> RequestType],
         \A c \in Client, f \in File : Tends(c, f) => Tends(c, f)'
  PROVE  FilesInv' /\ RowsKept
<1>1. /\ DOMAIN catalog' = DOMAIN catalog \ {b}
      /\ \A i \in DOMAIN catalog' : catalog'[i] = catalog[i]
      /\ exempt' = exempt \cup ({catalog[i].sha : i \in DOMAIN catalog \cap {b}}
                                  \cap {disk[f] : f \in File})
  BY DEF DeleteRow
<1>2. \A i \in DOMAIN catalog : catalog[i].sha \in Content
  BY DEF FilesInv, FilesTyped, Row
<1>3. FilesTyped'
  BY <1>1, <1>2 DEF FilesInv, FilesTyped
<1>4. NoStray'
  <2> SUFFICES ASSUME NEW f \in File, Exists(f)', disk'[f] \notin exempt'
               PROVE  Registered(disk[f])' \/ \E c \in Client : Tends(c, f)'
    BY DEF NoStray
  <2>1. disk'[f] = disk[f] /\ Exists(f) /\ disk[f] \notin exempt
    BY <1>1 DEF Exists
  <2>2. CASE Registered(disk[f])
    <3>1. PICK i \in DOMAIN catalog : catalog[i].sha = disk[f]
      BY <2>2 DEF Registered
    <3>2. i # b
      BY <3>1, <2>1, <1>1
    <3> QED  BY <3>1, <3>2, <2>1, <1>1 DEF Registered
  <2>3. CASE \E c \in Client : Tends(c, f)
    BY <2>3
  <2> QED  BY <2>1, <2>2, <2>3 DEF FilesInv, NoStray
<1>5. RowsKept
  BY <1>1 DEF RowsKept
<1> QED  BY <1>3, <1>4, <1>5 DEF FilesInv

LEMMA DeletingKeepsFiles ==
  ASSUME FilesInv
  PROVE  /\ \A b \in Binary : DeleteEntry(b) => FilesInv' /\ RowsKept
         /\ \A c \in Client : FileRemoved(c) => FilesInv' /\ RowsKept
<1>1. ASSUME NEW b \in Binary, DeleteEntry(b)
      PROVE  FilesInv' /\ RowsKept
  <2>1. req' \in [Client -> RequestType] /\ disk' = disk /\ born' = born /\ req' = req
        /\ DeleteRow(b) /\ ~InUse(b)
    BY <1>1 DEF DeleteEntry, FilesInv, FilesTyped
  <2>2. \A c \in Client, f \in File : Tends(c, f) => Tends(c, f)'
    BY <2>1 DEF Tends
  <2> QED  BY <2>1, <2>2, DeleteRowKeeps
<1>2. ASSUME NEW c \in Client, FileRemoved(c)
      PROVE  FilesInv' /\ RowsKept
  <2>1. req[c].op \in {"file", "full"} /\ Done(c) /\ disk' = disk /\ born' = born
    BY <1>2 DEF FileRemoved, At
  <2>2. CASE DeleteRow(req[c].bin) /\ ~InUse(req[c].bin)
    <3>1. /\ req' \in [Client -> RequestType]
          /\ \A d \in Client : d # c => req'[d] = req[d]
      BY <2>1, DoneTyped DEF FilesInv
    <3>2. \A d \in Client, f \in File : Tends(d, f) => Tends(d, f)'
      BY <2>1, <3>1 DEF Tends
    <3> QED  BY <2>1, <2>2, <3>1, <3>2, DeleteRowKeeps
  <2>3. CASE exempt' = exempt /\ (catalog' = catalog \/ UpdateStatus(req[c].bin, "missing"))
    <3>1. SameRows
      BY <2>3, UpdateKeepsRows, UnchangedRows DEF FilesInv
    <3> QED  BY <2>1, <2>3, <3>1, PlainDone
  <2> QED  BY <1>2, <2>2, <2>3 DEF FileRemoved
<1> QED  BY <1>1, <1>2

\* An upload writes its file: from here on it tends it.
LEMMA WriteKeepsFiles ==
  ASSUME FilesInv, NEW c \in Client, WriteFile(c)
  PROVE  FilesInv' /\ RowsKept
<1>1. /\ req[c].op = "upload" /\ req[c].at = "write"
      /\ req[c].file \in File /\ req[c].sha \in Content
  BY Fields DEF WriteFile, At, FilesInv
<1>2. catalog' = catalog /\ born' = born /\ exempt' = exempt /\ RowsKept
  BY UnchangedRows DEF WriteFile, FilesInv
<1>3. \A f \in File : ~Tends(c, f)
  BY <1>1 DEF Tends
<1>4. CASE disk' = [disk EXCEPT ![req[c].file] = req[c].sha]
           /\ Wait(c, [op |-> "upload", at |-> "hash", file |-> req[c].file, twice |-> FALSE])
  <2>1. [op |-> "upload", at |-> "hash", file |-> req[c].file, twice |-> FALSE] \in RequestType
    BY <1>1 DEF RequestType
  <2>2. /\ req' \in [Client -> RequestType]
        /\ req'[c] = [op |-> "upload", at |-> "hash", file |-> req[c].file, twice |-> FALSE]
        /\ \A d \in Client : d # c => req'[d] = req[d]
    BY <1>4, <2>1, WaitTyped DEF FilesInv
  <2>3. FilesTyped'
    BY <1>1, <1>2, <1>4, <2>2 DEF FilesInv, FilesTyped
  <2>4. Tends(c, req[c].file)'
    BY <2>2 DEF Tends
  <2>5. \A f \in File : f # req[c].file => disk'[f] = disk[f]
    BY <1>4 DEF FilesInv, FilesTyped
  <2>6. \A x : Registered(x)' <=> Registered(x)
    BY <1>2 DEF Registered
  <2>7. NoStray'
    <3>1. \A f \in File : Exists(f)' /\ disk'[f] \notin exempt' =>
            \/ Tends(c, f)'
            \/ Registered(disk[f])'
            \/ /\ disk'[f] = disk[f] /\ disk[f] \notin exempt
               /\ ~Registered(disk[f]) /\ ~Tends(c, f)
      <4> TAKE f \in File
      <4>1. CASE f = req[c].file
        BY <4>1, <2>2 DEF Tends
      <4>2. CASE f # req[c].file
        BY <4>2, <2>5, <1>2, <1>3 DEF Registered
      <4> QED  BY <4>1, <4>2
    <3> QED  BY <3>1, <2>2, NoStrayKept DEF FilesInv
  <2> QED  BY <1>2, <2>3, <2>7 DEF FilesInv
<1>5. CASE Done(c) /\ disk' = disk
  <2>1. /\ req' \in [Client -> RequestType]
        /\ \A d \in Client : d # c => req'[d] = req[d]
    BY <1>5, DoneTyped DEF FilesInv
  <2>2. FilesTyped'
    BY <1>2, <1>5, <2>1 DEF FilesInv, FilesTyped
  <2>3. NoStray'
    <3>1. \A f \in File : Exists(f)' /\ disk'[f] \notin exempt' =>
            \/ Tends(c, f)'
            \/ Registered(disk[f])'
            \/ /\ disk'[f] = disk[f] /\ disk[f] \notin exempt
               /\ ~Registered(disk[f]) /\ ~Tends(c, f)
      BY <1>2, <1>3, <1>5 DEF Registered
    <3> QED  BY <3>1, <2>1, NoStrayKept DEF FilesInv
  <2> QED  BY <1>2, <2>2, <2>3 DEF FilesInv
<1> QED  BY <1>4, <1>5 DEF WriteFile

\* registerFileAtPath() refuses: the file of an upload is tended until it is gone.
LEMMA RefuseKeepsFiles ==
  ASSUME FilesInv, NEW c \in Client, Refuse(c), files' = files,
         req[c].op \in {"upload", "register"}
  PROVE  FilesInv' /\ RowsKept
<1>1. req[c].file \in File
  BY Fields DEF FilesInv
<1>2. disk' = disk /\ catalog' = catalog /\ born' = born /\ exempt' = exempt
  BY DEF files
<1>3. SameRows /\ RowsKept
  BY <1>2, UnchangedRows DEF FilesInv
<1>4. CASE req[c].op = "register"
  BY <1>2, <1>3, <1>4, PlainDone DEF Refuse
<1>5. CASE req[c].op = "upload"
  <2>1. [op |-> "upload", at |-> "unlink", file |-> req[c].file] \in RequestType
    BY <1>1 DEF RequestType
  <2>2. Wait(c, [op |-> "upload", at |-> "unlink", file |-> req[c].file])
    BY <1>5 DEF Refuse
  <2>3. \A f \in File : Tends(c, f) => req[c].file = f
    BY DEF Tends
  <2> QED  BY <2>1, <2>2, <2>3, <1>3, WaitKeepsFiles
<1> QED  BY <1>4, <1>5

LEMMA HashKeepsFiles ==
  ASSUME FilesInv, NEW c \in Client, HashFile(c)
  PROVE  FilesInv' /\ RowsKept
<1>1. req[c].op \in {"upload", "register"} /\ req[c].at = "hash" /\ req[c].file \in File
  BY Fields DEF HashFile, At, FilesInv
<1>2. files' = files
  BY DEF HashFile
<1>3. CASE Refuse(c)
  BY <1>1, <1>2, <1>3, RefuseKeepsFiles
<1>4. CASE /\ disk[req[c].file] # None
           /\ Wait(c, [op |-> req[c].op, at |-> "insert", file |-> req[c].file,
                       sha |-> disk[req[c].file]])
  <2>1. disk[req[c].file] \in Content
    BY <1>1, <1>4 DEF FilesInv, FilesTyped
  <2>2. [op |-> req[c].op, at |-> "insert", file |-> req[c].file,
         sha |-> disk[req[c].file]] \in RequestType
    BY <1>1, <2>1 DEF RequestType
  <2>3. \A f \in File : Tends(c, f) => req[c].op = "upload" /\ req[c].file = f
    BY DEF Tends
  <2>4. RowsKept
    BY <1>2, UnchangedRows DEF files, FilesInv
  <2> QED  BY <1>2, <1>4, <2>2, <2>3, <2>4, WaitKeepsFiles
<1> QED  BY <1>3, <1>4 DEF HashFile

LEMMA InsertKeepsFiles ==
  ASSUME FilesInv, NEW c \in Client, InsertRow(c)
  PROVE  FilesInv' /\ RowsKept
<1>1. /\ req[c].op \in {"upload", "register"} /\ req[c].at = "insert"
      /\ req[c].file \in File /\ req[c].sha \in Content
  BY Fields DEF InsertRow, At, FilesInv
<1>2. disk' = disk /\ exempt' = exempt
  BY DEF InsertRow
<1>3. CASE Refuse(c) /\ UNCHANGED <<catalog, born>>
  BY <1>1, <1>2, <1>3, RefuseKeepsFiles DEF files
<1>4. ASSUME NEW b \in Binary \ born,
             born' = born \cup {b}, Done(c),
             catalog' = Put(catalog, b, [file |-> req[c].file, sha |-> req[c].sha,
                                         status |-> "available"])
      PROVE  FilesInv' /\ RowsKept
  <2>1. b \notin DOMAIN catalog
    BY <1>4 DEF FilesInv, FilesTyped
  <2>2. /\ DOMAIN catalog' = DOMAIN catalog \cup {b}
        /\ \A i \in DOMAIN catalog : catalog'[i] = catalog[i]
        /\ catalog'[b] = [file |-> req[c].file, sha |-> req[c].sha, status |-> "available"]
    BY <1>4, <2>1 DEF Put
  <2>3. /\ req' \in [Client -> RequestType]
        /\ \A d \in Client : d # c => req'[d] = req[d]
    BY <1>4, DoneTyped DEF FilesInv
  <2>4. catalog'[b] \in Row /\ catalog'[b].sha = req[c].sha
    BY <2>2, <1>1 DEF Row
  <2>5. FilesTyped'
    BY <1>2, <1>4, <2>2, <2>3, <2>4 DEF FilesInv, FilesTyped
  <2>6. \A f \in File : Registered(disk[f]) \/ Tends(c, f) => Registered(disk[f])'
    BY <1>1, <1>2, <2>2, <2>4 DEF Registered, Tends
  <2>7. \A f \in File : Exists(f)' /\ disk'[f] \notin exempt' =>
          \/ Tends(c, f)'
          \/ Registered(disk[f])'
          \/ /\ disk'[f] = disk[f] /\ disk[f] \notin exempt
             /\ ~Registered(disk[f]) /\ ~Tends(c, f)
    BY <1>2, <2>6
  <2>8. NoStray'
    BY <2>3, <2>7, NoStrayKept DEF FilesInv
  <2>9. RowsKept
    BY <2>2 DEF RowsKept
  <2> QED  BY <2>5, <2>8, <2>9 DEF FilesInv
<1> QED  BY <1>3, <1>4 DEF InsertRow

LEMMA RemovingKeepsFiles ==
  ASSUME FilesInv, NEW c \in Client, RemoveUpload(c) \/ RemoveFile(c)
  PROVE  FilesInv' /\ RowsKept
<1>1. req[c].file \in File /\ req[c].at \in {"unlink", "remove"}
  BY Fields DEF RemoveUpload, RemoveFile, At, FilesInv
<1>2. catalog' = catalog /\ born' = born /\ RowsKept
  BY UnchangedRows DEF RemoveUpload, RemoveFile, FilesInv
<1>3. /\ req' \in [Client -> RequestType]
      /\ \A d \in Client : d # c => req'[d] = req[d]
  <2>1. CASE RemoveUpload(c)
    BY <2>1, DoneTyped DEF RemoveUpload, FilesInv
  <2>2. CASE RemoveFile(c)
    <3>1. [op |-> req[c].op, at |-> "update", bin |-> req[c].bin, file |-> req[c].file]
            \in RequestType
      BY <2>2, <1>1, Fields DEF RemoveFile, At, FilesInv, RequestType
    <3> QED  BY <2>2, <3>1, WaitTyped DEF RemoveFile, FilesInv
  <2> QED  BY <2>1, <2>2
\* The file is gone, or is allowed to stay, or was not the request's.
<1>4. /\ disk' \in [File -> Content \cup {None}]
      /\ \A f \in File : disk'[f] = None \/ disk'[f] = disk[f]
      /\ exempt \subseteq exempt' /\ exempt' \subseteq Content
      /\ \A f \in File : Tends(c, f) => disk'[f] = None \/ disk'[f] \in exempt'
  <2>1. CASE RemoveUpload(c)
    <3>1. \A f \in File : Tends(c, f) => f = req[c].file
      BY DEF Tends
    <3>2. CASE disk' = [disk EXCEPT ![req[c].file] = None] /\ exempt' = exempt
      BY <1>1, <3>1, <3>2 DEF FilesInv, FilesTyped
    <3>3. CASE disk' = disk /\ exempt' = exempt \cup ({disk[req[c].file]} \ {None})
      BY <1>1, <3>1, <3>3 DEF FilesInv, FilesTyped
    <3> QED  BY <2>1, <3>2, <3>3 DEF RemoveUpload
  <2>2. CASE RemoveFile(c)
    <3>1. \A f \in File : ~Tends(c, f)
      BY <2>2 DEF RemoveFile, At, Tends
    <3> QED  BY <2>2, <1>1, <3>1 DEF RemoveFile, FilesInv, FilesTyped
  <2> QED  BY <2>1, <2>2
<1>5. FilesTyped'
  BY <1>2, <1>3, <1>4 DEF FilesInv, FilesTyped
<1>6. \A f \in File : Exists(f)' /\ disk'[f] \notin exempt' =>
        \/ Tends(c, f)'
        \/ Registered(disk[f])'
        \/ /\ disk'[f] = disk[f] /\ disk[f] \notin exempt
           /\ ~Registered(disk[f]) /\ ~Tends(c, f)
  BY <1>2, <1>4 DEF Exists, Registered
<1>7. NoStray'
  BY <1>3, <1>6, NoStrayKept DEF FilesInv
<1> QED  BY <1>2, <1>5, <1>7 DEF FilesInv

LEMMA CrashKeepsFiles ==
  ASSUME FilesInv, Crash
  PROVE  FilesInv' /\ RowsKept
<1>1. /\ disk' = disk /\ catalog' = catalog /\ born' = born /\ RowsKept
      /\ req' = [c \in Client |-> Idle]
      /\ exempt' = exempt \cup
           ({disk[req[c].file] : c \in {d \in Client : req[d].op = "upload"}} \ {None})
  BY UnchangedRows DEF Crash, FilesInv
<1>2. \A c \in Client : req[c].op = "upload" =>
        disk[req[c].file] \in Content \cup {None}
  BY Fields DEF FilesInv, FilesTyped
<1>3. exempt' \subseteq Content
  BY <1>1, <1>2 DEF FilesInv, FilesTyped
<1>4. Idle \in RequestType
  BY DEF RequestType
<1>5. FilesTyped'
  BY <1>1, <1>3, <1>4 DEF FilesInv, FilesTyped
<1>6. NoStray'
  BY <1>1 DEF FilesInv, NoStray, Exists, Registered, Tends
<1> QED  BY <1>1, <1>5, <1>6 DEF FilesInv

LEMMA StillFiles ==
  ASSUME FilesInv, files' = files, req' = req
  PROVE  FilesInv'
BY DEF files, FilesInv, FilesTyped, NoStray, Exists, Registered, Tends

-----------------------------------------------------------------------------
(* The invariant of the component.                                          *)

DeployInv == FilesInv /\ JobInv /\ GotInv

LEMMA DeployInit == Init => DeployInv
<1> SUFFICES ASSUME Init
             PROVE  DeployInv
  OBVIOUS
<1>1. /\ DOMAIN catalog = {} /\ DOMAIN job = {} /\ DOMAIN run = {}
      /\ born = {} /\ lost = {} /\ joined = {}
      /\ disk \in [File -> Content \cup {None}]
      /\ exempt = {disk[f] : f \in File} \ {None}
  BY DEF Init, Nothing
<1>2. req \in [Client -> RequestType]
  BY DEF Init, RequestType
<1>3. FilesInv
  BY <1>1, <1>2 DEF FilesInv, FilesTyped, NoStray, Exists
<1>4. JobInv
  BY <1>1 DEF JobInv, RunInv, JobsTyped, Follows, FailuresSeen, FirstWhole, Alone, Single,
              Ended, SuccessIsTrue, StatusSumsUp
<1>5. GotInv
  BY <1>1 DEF GotInv, InstalledIsRegistered, Verified
<1> QED  BY <1>3, <1>4, <1>5 DEF DeployInv

\* A request that leaves the jobs alone.
LEMMA CatalogueStep ==
  ASSUME DeployInv, FilesInv', RowsKept, jobState' = jobState
  PROVE  DeployInv'
BY QuietStepsKeepJobs, GotWithRows DEF DeployInv, jobState

LEMMA RequestKeeps ==
  ASSUME DeployInv, NEW c \in Client, Request(c), ~SanJob(c)
  PROVE  DeployInv'
<1>1. jobState' = jobState
  BY DEF Request, Examine, Stat, Present, Absent, Upload, WriteFile, Register, HashFile,
         InsertRow, RemoveUpload, DeleteFile, RemoveFile, FileRemoved, jobState
<1>2. FilesInv' /\ RowsKept
  BY AskingKeepsFiles, LookedKeepsFiles, WriteKeepsFiles, HashKeepsFiles, InsertKeepsFiles,
     RemovingKeepsFiles, DeletingKeepsFiles
     DEF Request, DeployInv
<1> QED  BY <1>1, <1>2, CatalogueStep

LEMMA SanJobKeeps ==
  ASSUME DeployInv, NEW c \in Client, SanJob(c)
  PROVE  DeployInv'
<1>1. /\ req[c].op = "deploy" /\ Done(c)
      /\ disk' = disk /\ born' = born /\ exempt' = exempt
  BY DEF SanJob, At
<1>2. CASE jobState' = jobState /\ (catalog' = catalog \/ UpdateStatus(req[c].bin, "missing"))
  <2>1. SameRows
    BY <1>2, UpdateKeepsRows, UnchangedRows DEF DeployInv, FilesInv
  <2>2. FilesInv' /\ RowsKept
    BY <1>1, <2>1, PlainDone DEF DeployInv
  <2> QED  BY <1>2, <2>2, CatalogueStep
<1>3. ASSUME catalog' = catalog, HasRow(req[c].bin),
             NEW r \in Run, NEW s \in San, NEW refused \in SUBSET {s},
             NewJob(r, req[c].bin, {s}, refused)
      PROVE  DeployInv'
  <2>1. SameRows
    BY <1>3, UnchangedRows DEF DeployInv, FilesInv
  <2>2. FilesInv'
    BY <1>1, <2>1, PlainDone DEF DeployInv
  <2>3. req[c].bin \in Binary /\ req[c].bin \in DOMAIN catalog
    BY <1>3 DEF HasRow, DeployInv, FilesInv, FilesTyped
  <2>4. PICK j : Opens(r, j, req[c].bin, {s}, refused, FALSE)
    BY <1>3, <2>3, NewJobOpens DEF DeployInv
  <2>5. JobInv'
    BY <2>4, OpensKeepsJobs DEF DeployInv
  <2>6. GotInv'
    BY <1>3, <2>3, <2>4, GotWithOpens DEF DeployInv
  <2> QED  BY <2>2, <2>5, <2>6 DEF DeployInv
<1> QED  BY <1>2, <1>3 DEF SanJob, jobState

LEMMA OpeningKeeps ==
  ASSUME DeployInv, NEW r \in Run
  PROVE  /\ CreateJob(r) => DeployInv'
         /\ \A j \in DOMAIN job : Retry(r, j) => DeployInv'
<1>1. ASSUME CreateJob(r)
      PROVE  DeployInv'
  <2>1. PICK b \in DOMAIN catalog, S \in (SUBSET San) \ {{}} : NewJob(r, b, S, {})
    BY <1>1 DEF CreateJob
  <2>2. b \in Binary
    BY DEF DeployInv, FilesInv, FilesTyped
  <2>3. S \in SUBSET San /\ S # {} /\ {} \in SUBSET S
    OBVIOUS
  <2>4. PICK j : Opens(r, j, b, S, {}, FALSE)
    BY <2>1, <2>2, <2>3, NewJobOpens DEF DeployInv
  <2>5. FilesInv' /\ catalog' = catalog
    BY <1>1, StillFiles DEF CreateJob, files, DeployInv
  <2>6. JobInv'
    BY <2>4, OpensKeepsJobs DEF DeployInv
  <2>7. GotInv'
    BY <2>4, <2>5, GotWithOpens DEF DeployInv
  <2> QED  BY <2>5, <2>6, <2>7 DEF DeployInv
<1>2. ASSUME NEW j \in DOMAIN job, Retry(r, j)
      PROVE  DeployInv'
  <2>1. PICK refused : Opens(r, j, job[j].bin, Failed(j), refused, TRUE)
    BY <1>2, RetryOpens DEF DeployInv
  <2>2. FilesInv' /\ catalog' = catalog
    BY <1>2, StillFiles DEF Retry, files, DeployInv
  <2>3. job[j].bin \in DOMAIN catalog
    BY DEF DeployInv, GotInv, InstalledIsRegistered, HasRow
  <2>4. JobInv'
    BY <2>1, OpensKeepsJobs DEF DeployInv
  <2>5. GotInv'
    BY <2>1, <2>2, <2>3, GotWithOpens DEF DeployInv
  <2> QED  BY <2>2, <2>4, <2>5 DEF DeployInv
<1> QED  BY <1>1, <1>2

LEMMA DeployNext == DeployInv /\ [Next]_vars => DeployInv'
<1> SUFFICES ASSUME DeployInv, [Next]_vars
             PROVE  DeployInv'
  OBVIOUS
<1>1. ASSUME NEW c \in Client, Request(c)
      PROVE  DeployInv'
  BY <1>1, RequestKeeps, SanJobKeeps
<1>2. ASSUME NEW b \in Binary, DeleteEntry(b)
      PROVE  DeployInv'
  <2>1. FilesInv' /\ RowsKept
    BY <1>2, DeletingKeepsFiles DEF DeployInv
  <2> QED  BY <1>2, <2>1, CatalogueStep DEF DeleteEntry
<1>3. ASSUME NEW r \in Run, CreateJob(r)
      PROVE  DeployInv'
  BY <1>3, OpeningKeeps
<1>4. ASSUME NEW r \in Run, NEW j \in DOMAIN job, Retry(r, j)
      PROVE  DeployInv'
  BY <1>4, OpeningKeeps
<1>5. ASSUME NEW r \in Run, Finish(r)
      PROVE  DeployInv'
  <2>1. FilesInv'
    BY <1>5, StillFiles DEF Finish, DeployInv
  <2> QED  BY <1>5, <2>1, FinishKeepsJobs, GotWithFinish DEF DeployInv
<1>6. ASSUME NEW r \in Run, NEW s \in San, Advance(r, s)
      PROVE  DeployInv'
  <2>1. files' = files /\ req' = req
    BY <1>6 DEF Advance, TargetFails, Locate, Send, Verify, Install, Moves
  <2>2. FilesInv'
    BY <2>1, StillFiles DEF DeployInv
  <2> QED  BY <1>6, <2>2, AdvanceKeepsAll DEF DeployInv, FilesInv
<1>7. CASE Crash
  BY <1>7, CrashKeepsFiles, CrashKeepsJobs, GotWithCrash DEF DeployInv
<1>8. CASE UNCHANGED vars
  <2>1. files' = files /\ req' = req /\ jobState' = jobState
    BY <1>8 DEF vars, files, jobState
  <2>2. RowsKept
    BY <2>1, UnchangedRows DEF files, DeployInv, FilesInv
  <2> QED  BY <2>1, <2>2, StillFiles, CatalogueStep DEF DeployInv
<1> QED  BY <1>1, <1>2, <1>3, <1>4, <1>5, <1>6, <1>7, <1>8 DEF Next

\* What runs, stored statuses, rows and files say of each other holds in every
\* state that the handlers and the runner (deployment-job-runner.ts) reach.
THEOREM DeploymentInvariance == Spec => []DeployInv
BY DeployInit, DeployNext, PTL DEF Spec

\* The types hold: a run never refers to a job or a target that is not there.
THEOREM DeploymentTyped == Spec => []TypeOK
<1>1. DeployInv => TypeOK
  BY DEF DeployInv, FilesInv, JobInv, RunInv, TypeOK
<1> QED  BY <1>1, DeploymentInvariance, PTL

\* Two runs never transfer to the same SAN for one job (deployment-job-runner.ts:160-172).
THEOREM RunsAreExclusive == Spec => []OneRunnerPerTarget
<1>1. DeployInv => OneRunnerPerTarget
  BY RunParts DEF DeployInv, JobInv
<1> QED  BY <1>1, DeploymentInvariance, PTL

\* The status shown for a target is that of the run at work on it, and a target that
\* no run works on has ended, unless a crash cut it (deployment-job-runner.ts:75-126).
THEOREM StatusesAreTrue == Spec => []StatusFollowsRun
<1>1. DeployInv => StatusFollowsRun
  BY RunParts DEF DeployInv, JobInv
<1> QED  BY <1>1, DeploymentInvariance, PTL

\* What a node reported to have is what the catalogue registers
\* (deployment-job-runner.ts:100-104).
THEOREM InstalledFilesAreRegistered == Spec => []InstalledIsRegistered
<1>1. DeployInv => InstalledIsRegistered
  BY DEF DeployInv, GotInv
<1> QED  BY <1>1, DeploymentInvariance, PTL

\* A job at rest is shown as a success only if all its targets succeeded
\* (deployment-job-runner.ts:141-149, 174-183).
THEOREM SuccessfulJobsSucceeded == Spec => []SuccessIsTrue
<1>1. DeployInv => SuccessIsTrue
  BY DEF DeployInv, JobInv
<1> QED  BY <1>1, DeploymentInvariance, PTL

\* The status of a job whose runs did not overlap sums up its targets.
THEOREM JobStatusSumsUp == Spec => []StatusSumsUp
<1>1. DeployInv => StatusSumsUp
  BY DEF DeployInv, JobInv
<1> QED  BY <1>1, DeploymentInvariance, PTL

\* No upload leaves a file that the catalogue does not know
\* (deployment-binaries-service.ts:183-186).
THEOREM UploadsLeaveNoStray == Spec => []EveryFileCatalogued
<1>1. DeployInv => EveryFileCatalogued
  BY CataloguedFollows DEF DeployInv
<1> QED  BY <1>1, DeploymentInvariance, PTL

\* A target that a crash caught stays as it was shown: only its own run, or a retry
\* that finds it failed, changes a target (deployment-job-runner.ts:139-149, 166-167).
THEOREM CutTargets == Spec => CutTargetsStay
<1> DEFINE Stays == \A j \in lost : \A s \in DOMAIN job[j].target :
                      /\ job[j].target[s].status \in {"uploading", "applying"}
                      /\ ~\E r \in RunsOf(j) : Drives(r, s)
                      => job'[j].target[s] = job[j].target[s]
<1>1. ASSUME DeployInv, [Next]_vars
      PROVE  Stays
  <2> SUFFICES ASSUME NEW j \in lost, NEW s \in DOMAIN job[j].target,
                      job[j].target[s].status \in {"uploading", "applying"},
                      ~\E r \in RunsOf(j) : Drives(r, s)
               PROVE  job'[j].target[s] = job[j].target[s]
    OBVIOUS
  <2>1. j \in DOMAIN job /\ DOMAIN job \subseteq Job
    BY <1>1 DEF DeployInv, JobInv, RunInv, JobsTyped
  <2>2. ASSUME NEW r \in Run, NEW t \in San, Advance(r, t)
        PROVE  job'[j].target[s] = job[j].target[s]
    <3>1. Drives(r, t) /\ r \in DOMAIN run
          /\ \E w, status : Moves(r, t, w, status)
      BY <2>2 DEF Advance, TargetFails, Locate, Send, Verify, Install, Drives, Working
    <3>2. run[r].job # j \/ t # s
      BY <3>1 DEF RunsOf
    <3> QED
      BY <2>1, <3>1, <3>2 DEF Moves, Put
  <2>3. ASSUME NEW r \in Run, NEW i \in DOMAIN job, Retry(r, i)
        PROVE  job'[j].target[s] = job[j].target[s]
    BY <2>1, <2>3 DEF Retry, Put, Failed
  <2>4. ASSUME NEW r, NEW b, NEW S, NEW refused, NewJob(r, b, S, refused)
        PROVE  job'[j].target[s] = job[j].target[s]
    BY <2>1, <2>4 DEF NewJob, Put
  <2>5. ASSUME NEW r \in Run, Finish(r)
        PROVE  job'[j].target[s] = job[j].target[s]
    BY <2>1, <2>5 DEF Finish, Put
  <2>6. CASE job' = job
    BY <2>6
  <2>7. ASSUME NEW c \in Client, SanJob(c)
        PROVE  job'[j].target[s] = job[j].target[s]
    BY <2>4, <2>6, <2>7 DEF SanJob, jobState
  <2>8. ASSUME NEW c \in Client, Request(c), ~SanJob(c)
        PROVE  job' = job
    BY <2>8 DEF Request, Examine, Stat, Present, Absent, Upload, WriteFile, Register,
                HashFile, InsertRow, RemoveUpload, DeleteFile, RemoveFile, FileRemoved, jobState
  <2>9. (\E b \in Binary : DeleteEntry(b)) \/ Crash \/ UNCHANGED vars => job' = job
    BY DEF DeleteEntry, jobState, Crash, vars
  <2>10. ASSUME NEW r \in Run, CreateJob(r)
         PROVE  job'[j].target[s] = job[j].target[s]
    BY <2>4, <2>10 DEF CreateJob
  <2> QED
    BY <1>1, <2>2, <2>3, <2>5, <2>6, <2>7, <2>8, <2>9, <2>10 DEF Next
<1>2. DeployInv /\ [Next]_vars => [Stays]_vars
  BY <1>1
<1> QED
  BY <1>2, DeploymentInvariance, PTL DEF Spec, CutTargetsStay

=============================================================================
