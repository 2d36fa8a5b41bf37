------------------------------- MODULE Deployment -------------------------------
(***************************************************************************)
(* The catalogue of binaries and their deployment on the SANs               *)
(* (server/utils/deployment-*.ts, server/db/repositories/                   *)
(* deployment.repository.ts and their routes).                              *)
(*                                                                         *)
(* A binary is a file of the container and a row of the catalogue; requests *)
(* change the two in separate steps.  A job has one target per SAN; a run   *)
(* (the first one, or a retry) drives all the targets it took at once and   *)
(* writes the status of the job when the last one has ended.  Rows are in   *)
(* SQLite and survive a crash; requests and runs are promises and do not.   *)
(***************************************************************************)
EXTENDS FiniteSets, Naturals

CONSTANTS
  File,       \* names of files in binariesDir
  Content,    \* what a file holds, which its SHA-256 tells apart
  Damaged,    \* what a node holds after a transfer that went wrong
  Binary,     \* identifiers of rows of the catalogue
  San, Job,
  Run,        \* runs that can be in progress at once
  Client,     \* requests that can be in progress at once
  None

ASSUME NoneAssumption == None \notin Content \cup {Damaged} /\ Damaged \notin Content

VARIABLES
  disk,       \* the content of each file of the container
  catalog,    \* deployment_binaries, a function of the identifiers that have a row
  born,       \* identifiers given out
  job,        \* deployment_jobs with their targets
  run,        \* executions in progress
  req,        \* requests in progress
  lost,       \* jobs that had a run when the server crashed
  joined,     \* jobs retried while another of their runs was in progress
  exempt      \* contents whose file may be without a row

vars == <<disk, catalog, born, job, run, req, lost, joined, exempt>>
files == <<disk, catalog, born, exempt>>

Row == [file : File, sha : Content, status : {"available", "missing"}]

\* got, which the program does not store, is what the node received if its
\* sha256sum answered and the installation succeeded.
Target == [status : {"uploading", "applying", "success", "failed"},
           got : Content \cup {Damaged, None}]

JobStatus == {"running", "partial", "success", "failed"}

\* Where a run is with one of its targets.
Work == [at : {"connect", "send", "verify", "apply", "success", "failed"},
         got : Content \cup {Damaged, None}]

Idle == [op |-> "idle"]

RequestType ==
  {Idle}
    \cup [op : {"list", "deploy"}, at : {"stat", "seen", "gone"}, bin : Binary,
          file : File, old : {"available", "missing"}]
    \cup [op : {"deploy"}, at : {"recheck"}, bin : Binary, file : File]
    \cup [op : {"upload"}, at : {"write"}, file : File, sha : Content]
    \cup [op : {"upload", "register"}, at : {"hash"}, file : File, twice : BOOLEAN]
    \cup [op : {"upload", "register"}, at : {"insert"}, file : File, sha : Content]
    \cup [op : {"upload"}, at : {"unlink"}, file : File]
    \cup [op : {"file", "full"}, at : {"remove", "update"}, bin : Binary, file : File]

Nothing == [i \in {} |-> None]

\* A function with the value v at k.
Put(f, k, v) == [i \in DOMAIN f \cup {k} |-> IF i = k THEN v ELSE f[i]]

Exists(f) == disk[f] # None
HasRow(b) == b \in DOMAIN catalog
Registered(x) == \E b \in DOMAIN catalog : catalog[b].sha = x

\* The foreign key deployment_jobs.binary_id (foreign_keys = ON).
InUse(b) == \E j \in DOMAIN job : job[j].bin = b

RunsOf(j) == {r \in DOMAIN run : run[r].job = j}

At(c, op, at) == req[c].op \in op /\ req[c].at = at
Wait(c, r) == req' = [req EXCEPT ![c] = r]
Done(c) == req' = [req EXCEPT ![c] = Idle]

Init ==
  /\ disk \in [File -> Content \cup {None}]
  /\ catalog = Nothing /\ born = {} /\ job = Nothing /\ run = Nothing
  /\ req = [c \in Client |-> Idle]
  /\ lost = {} /\ joined = {}
  /\ exempt = {disk[f] : f \in File} \ {None}

(***************************************************************************)
(* The catalogue.  Between two steps of a request the files and the rows    *)
(* may change under it.                                                     *)
(***************************************************************************)
jobState == <<job, run, lost, joined>>

UpdateStatus(b, status) ==
  catalog' = IF HasRow(b)
             THEN Put(catalog, b, [file |-> catalog[b].file, sha |-> catalog[b].sha,
                                   status |-> status])
             ELSE catalog

\* Files that still hold the binary are left without a row.
DeleteRow(b) ==
  /\ catalog' = [i \in DOMAIN catalog \ {b} |-> catalog[i]]
  /\ exempt' = exempt \cup ({catalog[i].sha : i \in DOMAIN catalog \cap {b}}
                              \cap {disk[f] : f \in File})

\* listCatalogEnriched() and assertBinaryDeployable() read the row, look for
\* its file, then correct the status.
Examine(c) ==
  /\ req[c] = Idle
  /\ \E b \in DOMAIN catalog, op \in {"list", "deploy"} :
       Wait(c, [op |-> op, at |-> "stat", bin |-> b,
                file |-> catalog[b].file, old |-> catalog[b].status])
  /\ UNCHANGED <<files, jobState>>

Stat(c) ==
  /\ At(c, {"list", "deploy"}, "stat")
  /\ Wait(c, [op |-> req[c].op, at |-> IF Exists(req[c].file) THEN "seen" ELSE "gone",
              bin |-> req[c].bin, file |-> req[c].file, old |-> req[c].old])
  /\ UNCHANGED <<files, jobState>>

Present(c) ==
  /\ At(c, {"list", "deploy"}, "seen")
  /\ IF req[c].old = "missing" THEN UpdateStatus(req[c].bin, "available")
     ELSE UNCHANGED catalog
  /\ IF req[c].op = "list" THEN Done(c)
     ELSE Wait(c, [op |-> "deploy", at |-> "recheck",
                   bin |-> req[c].bin, file |-> req[c].file])
  /\ UNCHANGED <<disk, born, exempt, jobState>>

Absent(c) ==
  /\ At(c, {"list", "deploy"}, "gone")
  /\ IF req[c].old = "available" THEN UpdateStatus(req[c].bin, "missing")
     ELSE UNCHANGED catalog
  /\ Done(c)
  /\ UNCHANGED <<disk, born, exempt, jobState>>

\* uploadBinaryToContainer(): nothing reserves the name that was found free.
Upload(c) ==
  /\ req[c] = Idle
  /\ \E f \in File, x \in Content :
       /\ ~Exists(f)
       /\ Wait(c, [op |-> "upload", at |-> "write", file |-> f, sha |-> x])
  /\ UNCHANGED <<files, jobState>>

\* writeBinaryFileAtomic(): rename() replaces a file of that name.
WriteFile(c) ==
  /\ At(c, {"upload"}, "write")
  /\ \/ /\ disk' = [disk EXCEPT ![req[c].file] = req[c].sha]
        /\ Wait(c, [op |-> "upload", at |-> "hash", file |-> req[c].file, twice |-> FALSE])
     \/ Done(c) /\ UNCHANGED disk
  /\ UNCHANGED <<catalog, born, exempt, jobState>>

Register(c) ==
  /\ req[c] = Idle
  /\ \E f \in File, twice \in BOOLEAN :
       /\ Exists(f)
       /\ Wait(c, [op |-> "register", at |-> "hash", file |-> f, twice |-> twice])
  /\ UNCHANGED <<files, jobState>>

\* Mutant: registerFileAtPath() outside the try block of the upload.
RefuseKeepsFile(c) == Done(c)

\* registerFileAtPath() throws: an upload removes its file again.
Refuse(c) ==
  IF req[c].op = "register" THEN Done(c)
  ELSE Wait(c, [op |-> "upload", at |-> "unlink", file |-> req[c].file])

HashFile(c) ==
  /\ At(c, {"upload", "register"}, "hash")
  /\ LET x == disk[req[c].file] IN
     \/ /\ x # None
        /\ Registered(x) => req[c].twice
        /\ Wait(c, [op |-> req[c].op, at |-> "insert", file |-> req[c].file, sha |-> x])
     \/ Refuse(c)
  /\ UNCHANGED <<files, jobState>>

\* sha256 is UNIQUE; the statement may fail for other reasons.
InsertRow(c) ==
  /\ At(c, {"upload", "register"}, "insert")
  /\ \/ Refuse(c) /\ UNCHANGED <<catalog, born>>
     \/ /\ ~Registered(req[c].sha)
        /\ \E b \in Binary \ born :
             /\ born' = born \cup {b}
             /\ catalog' = Put(catalog, b, [file |-> req[c].file, sha |-> req[c].sha,
                                             status |-> "available"])
        /\ Done(c)
  /\ UNCHANGED <<disk, exempt, jobState>>

\* unlink(absolutePath).catch(() => {})
RemoveUpload(c) ==
  /\ At(c, {"upload"}, "unlink")
  /\ LET f == req[c].file IN
     \/ disk' = [disk EXCEPT ![f] = None] /\ UNCHANGED exempt
     \/ exempt' = exempt \cup ({disk[f]} \ {None}) /\ UNCHANGED disk
  /\ Done(c)
  /\ UNCHANGED <<catalog, born, jobState>>

DeleteEntry(b) ==
  /\ HasRow(b) /\ ~InUse(b)
  /\ DeleteRow(b)
  /\ UNCHANGED <<disk, born, req, jobState>>

\* deletePhysicalFile() and deleteCatalogAndFile().
DeleteFile(c) ==
  /\ req[c] = Idle
  /\ \E b \in DOMAIN catalog, op \in {"file", "full"} :
       Wait(c, [op |-> op, at |-> "remove", bin |-> b, file |-> catalog[b].file])
  /\ UNCHANGED <<files, jobState>>

RemoveFile(c) ==
  /\ At(c, {"file", "full"}, "remove")
  /\ \/ disk' = [disk EXCEPT ![req[c].file] = None]
     \/ UNCHANGED disk
  /\ Wait(c, [op |-> req[c].op, at |-> "update", bin |-> req[c].bin, file |-> req[c].file])
  /\ UNCHANGED <<catalog, born, exempt, jobState>>

\* The row of a binary that a job uses cannot be deleted; its file is gone by now.
FileRemoved(c) ==
  /\ At(c, {"file", "full"}, "update")
  /\ LET b == req[c].bin IN
     IF req[c].op = "file" THEN UpdateStatus(b, "missing") /\ UNCHANGED exempt
     ELSE IF InUse(b) THEN UNCHANGED <<catalog, exempt>>
     ELSE DeleteRow(b)
  /\ Done(c)
  /\ UNCHANGED <<disk, born, jobState>>

(***************************************************************************)
(* Jobs.  A run starts in the step that creates or retries the job: nothing *)
(* is awaited before each of its targets is `uploading'.  A SAN may have    *)
(* become read-only meanwhile: `refused' are the targets that fail at once. *)
(***************************************************************************)
\* Mutant: runTarget() does not write `uploading'.
TakenPending(S, refused) ==
  [s \in S |-> [status |-> IF s \in refused THEN "failed" ELSE "pending",
                got |-> None]]

\* Mutant: assertSanWritable() outside the try block of runTarget().
TakenUnwritable(S, refused) == [s \in S |-> [status |-> "uploading", got |-> None]]

Taken(S, refused) ==
  [s \in S |-> [status |-> IF s \in refused THEN "failed" ELSE "uploading",
                got |-> None]]

Started(r, j, S, refused, again) ==
  run' = Put(run, r, [job |-> j, again |-> again,
    work |-> [s \in S |-> [at |-> IF s \in refused THEN "failed" ELSE "connect",
                           got |-> None]]])

NewJob(r, b, S, refused) ==
  \E j \in Job \ DOMAIN job :
    /\ r \notin DOMAIN run
    /\ job' = Put(job, j, [bin |-> b, status |-> "running",
                            target |-> Taken(S, refused)])
    /\ Started(r, j, S, refused, FALSE)
    /\ UNCHANGED <<lost, joined>>

\* POST /deployment/jobs: the file is not looked for.
CreateJob(r) ==
  /\ \E b \in DOMAIN catalog, S \in (SUBSET San) \ {{}} : NewJob(r, b, S, {})
  /\ UNCHANGED <<files, req>>

\* createSanBinaryDeployment(), after assertBinaryDeployable().
SanJob(c) ==
  /\ At(c, {"deploy"}, "recheck")
  /\ IF ~Exists(req[c].file)
     THEN UpdateStatus(req[c].bin, "missing") /\ UNCHANGED jobState
     ELSE /\ UNCHANGED catalog
          /\ IF HasRow(req[c].bin)
             THEN \E r \in Run, s \in San : \E refused \in SUBSET {s} :
                    NewJob(r, req[c].bin, {s}, refused)
             ELSE UNCHANGED jobState
  /\ Done(c)
  /\ UNCHANGED <<disk, born, exempt>>

\* Mutant: the targets that have not succeeded are retried.
FailedOrRunning(j) ==
  {s \in DOMAIN job[j].target : job[j].target[s].status # "success"}

Failed(j) == {s \in DOMAIN job[j].target : job[j].target[s].status = "failed"}

\* retryFailedTargets(): all the failed targets of the job, whichever SAN it was
\* asked for; only that one is known to be writable.
Retry(r, j) ==
  LET S == Failed(j) IN
  /\ r \notin DOMAIN run /\ S # {}
  /\ \E refused \in SUBSET S :
       /\ job' = Put(job, j, [bin |-> job[j].bin, status |-> "running",
                               target |-> [s \in DOMAIN job[j].target |->
                                 IF s \in S THEN Taken(S, refused)[s]
                                 ELSE job[j].target[s]]])
       /\ Started(r, j, S, refused, TRUE)
  /\ joined' = IF RunsOf(j) = {} THEN joined ELSE joined \cup {j}
  /\ UNCHANGED <<files, req, lost>>

\* runTarget(): the next step of one target, and the status it writes.
Moves(r, s, w, status) ==
  LET j == run[r].job IN
  /\ run' = Put(run, r, [job |-> j, again |-> run[r].again,
                         work |-> Put(run[r].work, s, w)])
  /\ job' = Put(job, j, [bin |-> job[j].bin, status |-> job[j].status,
                         target |-> Put(job[j].target, s,
                           [status |-> status,
                            got |-> IF status = "success" THEN w.got ELSE None])])
  /\ UNCHANGED <<files, req, lost, joined>>

Working(r, s, at) ==
  /\ r \in DOMAIN run /\ s \in DOMAIN run[r].work
  /\ run[r].work[s].at \in at

TargetFails(r, s) ==
  /\ Working(r, s, {"connect", "send", "verify", "apply"})
  /\ Moves(r, s, [at |-> "failed", got |-> None], "failed")

FileOf(r) == catalog[job[run[r].job].bin].file
ShaOf(r) == catalog[job[run[r].job].bin].sha

\* The manager is connected and resolveBinaryLocalPath() finds the file.
Locate(r, s) ==
  /\ Working(r, s, {"connect"})
  /\ Exists(FileOf(r))
  /\ Moves(r, s, [at |-> "send", got |-> None], "uploading")

\* transferLocalFileViaSsh() reads the file as it is by then.
Send(r, s) ==
  /\ Working(r, s, {"send"})
  /\ Exists(FileOf(r))
  /\ \E x \in {disk[FileOf(r)], Damaged} :
       Moves(r, s, [at |-> "verify", got |-> x], "uploading")

\* Mutant: the checksum of the node is not compared.
VerifyUncompared(r, s) ==
  /\ Working(r, s, {"verify"})
  /\ Moves(r, s, [at |-> "apply", got |-> run[r].work[s].got], "applying")

\* A sha256sum that prints nothing passes the check.
Verify(r, s) ==
  /\ Working(r, s, {"verify"})
  /\ \E known \in {run[r].work[s].got, None} :
       /\ known \in {ShaOf(r), None}
       /\ Moves(r, s, [at |-> "apply", got |-> known], "applying")

Install(r, s) ==
  /\ Working(r, s, {"apply"})
  /\ Moves(r, s, [at |-> "success", got |-> run[r].work[s].got], "success")

\* The status that the results of the first run give to the job.
Verdict(ok, failed) ==
  IF ~failed THEN "success" ELSE IF ~ok THEN "failed" ELSE "partial"

\* Mutant: a retry sums up what it did itself.
OutcomeOwnResults(r) ==
  LET w == run[r].work
      Ended(at) == \E s \in DOMAIN w : w[s].at = at
  IN Verdict(Ended("success"), Ended("failed"))

\* Mutant: a job is a failure when one of its targets failed.
OutcomeNoPartial(r) ==
  IF \E s \in DOMAIN run[r].work : run[r].work[s].at = "failed"
  THEN "failed" ELSE "success"

\* A retry reads the targets again; it says `failed' only if all it did failed.
Outcome(r) ==
  LET w == run[r].work
      t == job[run[r].job].target
      Ended(at) == \E s \in DOMAIN w : w[s].at = at
      Reads(status) == \E s \in DOMAIN t : t[s].status = status
  IN IF run[r].again THEN Verdict(Reads("success") \/ Ended("success"), Reads("failed"))
     ELSE Verdict(Ended("success"), Ended("failed"))

Finish(r) ==
  /\ r \in DOMAIN run
  /\ \A s \in DOMAIN run[r].work : run[r].work[s].at \in {"success", "failed"}
  /\ job' = Put(job, run[r].job, [bin |-> job[run[r].job].bin, status |-> Outcome(r),
                                   target |-> job[run[r].job].target])
  /\ run' = [q \in DOMAIN run \ {r} |-> run[q]]
  /\ UNCHANGED <<files, req, lost, joined>>

\* What is in memory goes; nothing resumes or closes the jobs at the next start.
Crash ==
  /\ run' = Nothing
  /\ req' = [c \in Client |-> Idle]
  /\ lost' = lost \cup {run[r].job : r \in DOMAIN run}
  /\ exempt' = exempt \cup
       ({disk[req[c].file] : c \in {d \in Client : req[d].op = "upload"}} \ {None})
  /\ UNCHANGED <<disk, catalog, born, job, joined>>

Request(c) ==
  \/ Examine(c) \/ Stat(c) \/ Present(c) \/ Absent(c)
  \/ Upload(c) \/ WriteFile(c) \/ Register(c) \/ HashFile(c) \/ InsertRow(c) \/ RemoveUpload(c)
  \/ DeleteFile(c) \/ RemoveFile(c) \/ FileRemoved(c)
  \/ SanJob(c)

Advance(r, s) ==
  TargetFails(r, s) \/ Locate(r, s) \/ Send(r, s) \/ Verify(r, s) \/ Install(r, s)

Next ==
  \/ \E c \in Client : Request(c)
  \/ \E b \in Binary : DeleteEntry(b)
  \/ \E r \in Run : CreateJob(r) \/ Finish(r)
  \/ \E r \in Run, j \in DOMAIN job : Retry(r, j)
  \/ \E r \in Run, s \in San : Advance(r, s)
  \/ Crash

Spec == Init /\ [][Next]_vars

-----------------------------------------------------------------------------
FilesTyped ==
  /\ disk \in [File -> Content \cup {None}]
  /\ born \subseteq Binary /\ DOMAIN catalog \subseteq born
  /\ \A b \in DOMAIN catalog : catalog[b] \in Row
  /\ req \in [Client -> RequestType]
  /\ exempt \subseteq Content

JobsTyped ==
  /\ DOMAIN job \subseteq Job
  /\ \A j \in DOMAIN job :
       /\ job[j].bin \in Binary /\ job[j].status \in JobStatus
       /\ DOMAIN job[j].target \subseteq San /\ DOMAIN job[j].target # {}
       /\ \A s \in DOMAIN job[j].target : job[j].target[s] \in Target
  /\ DOMAIN run \subseteq Run
  /\ \A r \in DOMAIN run :
       /\ run[r].job \in DOMAIN job /\ run[r].again \in BOOLEAN
       /\ DOMAIN run[r].work \subseteq DOMAIN job[run[r].job].target
       /\ \A s \in DOMAIN run[r].work : run[r].work[s] \in Work
  /\ lost \subseteq DOMAIN job /\ joined \subseteq DOMAIN job

TypeOK == FilesTyped /\ JobsTyped

Drives(r, s) == Working(r, s, {"connect", "send", "verify", "apply"})

\* One run works on a target: a retry takes failed targets only, and a run that
\* still waits for its other targets has left those alone (deployment-job-runner.ts:160-172).
OneRunnerPerTarget ==
  \A j \in DOMAIN job : \A q, r \in RunsOf(j), s \in San :
    Drives(q, s) /\ Drives(r, s) => q = r

\* The status shown for a target is that of the run that drives it, and a target
\* no run drives has ended (deployment-job-runner.ts:75-126); only a crash breaks this.
StatusFollowsRun ==
  \A j \in DOMAIN job \ lost : \A s \in DOMAIN job[j].target :
    LET drivers == {r \in RunsOf(j) : Drives(r, s)} IN
    IF drivers = {} THEN job[j].target[s].status \in {"success", "failed"}
    ELSE \A r \in drivers :
           job[j].target[s].status =
             IF run[r].work[s].at = "apply" THEN "applying" ELSE "uploading"

\* A target that a crash caught in a transfer keeps the state it was shown in,
\* however the rest of its job is retried: it is not among the failed targets that
\* a retry takes, and no run comes back to it (deployment-job-runner.ts:139-149, 166-167).
CutTargetsStay ==
  [][\A j \in lost : \A s \in DOMAIN job[j].target :
       /\ job[j].target[s].status \in {"uploading", "applying"}
       /\ ~\E r \in RunsOf(j) : Drives(r, s)
       => job'[j].target[s] = job[j].target[s]]_vars

\* What a node got is what the catalogue registers for the job, whatever happened
\* to the file between registration, check and transfer, if sha256sum answered
\* (deployment-job-runner.ts:100-104); and the row is still there.
InstalledIsRegistered ==
  \A j \in DOMAIN job :
    /\ HasRow(job[j].bin)
    /\ \A s \in DOMAIN job[j].target :
         LET t == job[j].target[s] IN
         t.got \in {catalog[job[j].bin].sha, None}

Quiet(j) == RunsOf(j) = {} /\ j \notin lost
Statuses(j) == {job[j].target[s].status : s \in DOMAIN job[j].target}

\* A job at rest that is shown as a success has no target that failed, even if
\* it was retried while its first run went on (deployment-job-runner.ts:141-149, 174-183).
SuccessIsTrue ==
  \A j \in DOMAIN job :
    Quiet(j) /\ job[j].status = "success" => Statuses(j) = {"success"}

\* The status of a job at rest sums up its targets, if no two of its runs
\* overlapped: a first run that ends last ignores what a retry mended.
StatusSumsUp ==
  \A j \in DOMAIN job \ joined :
    Quiet(j) => job[j].status = Verdict("success" \in Statuses(j), "failed" \in Statuses(j))

\* The file of an upload that was not recorded is removed again, whichever of
\* its steps failed and whatever else was uploaded meanwhile (deployment-binaries-service.ts:183-186).
EveryFileCatalogued ==
  \A f \in File :
    Exists(f) /\ disk[f] \notin exempt
      /\ (\A c \in Client : req[c] # Idle => req[c].op # "upload" \/ req[c].file # f)
      => Registered(disk[f])
==============================================================================
