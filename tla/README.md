# A specification of ESOS WebUI

ESOS WebUI is a Nuxt/Nitro server that administers ESOS SAN nodes over SSH. This
directory holds TLA+ modules for the parts of its server where order, failure and
sharing matter, TLC configurations that check them on small instances, and proofs
that TLAPS checks. Paths below are relative to the repository.

## How the program runs

The server is one Node process: code between two `await`s (or callbacks) runs
without interruption, and everything else interleaves. So an *action* of a module
is what happens between two suspensions of a handler. The nodes are reached by SSH
commands, which may be refused, may lose their answer, and may fail half-way. State
lives in four places: memory of the process, an SQLite database (synchronous
calls), the local disk, and the files and kernel state of the nodes.

## Inventory

| Component | State it keeps | Operations | What is hard | What makes it correct | Module |
|---|---|---|---|---|---|
| SSH session manager `server/utils/ssh-session-manager.ts` | connection, status, retry count, command queue, channel counter and waiters | connect, retry, exec, uploadFile, destroy, reload | timers and events outlive what they were set for; slots are handed over in microtasks | one connection; slots released once; no command waits for ever | `SshSession` |
| SCST configuration `scst-config-writer.ts`, `scst-cluster-mutation.ts`, `alua-*.ts` | `/etc/scst.conf` of each node, what SCST runs, ALUA plans | 11 mutators, 7 cluster variants, plan and execution of ALUA | read, check and write with no lock; node after node without rollback; failures in a script | well-formed files; honest replies; nodes that agree | `ScstConfig` |
| Cluster MD, LVM and file systems `raid-cluster-md-*.ts`, `lvm-cluster-*.ts`, `fs-cluster-*.ts` | plan tokens; arrays, volumes and file systems of the nodes | plan, confirm, execute on each node | the nodes change between plan, validation and command; partial failure; lost exit codes | what is executed is what was confirmed; nothing in use is destroyed; a way on after a failure | `ClusterNodes`, `ClusterMd`, `ClusterLvm`, `ClusterStorage`, `ConfirmedChange` |
| Users and sessions `user.repository.ts`, `session-auth.ts`, `ldap-provision.ts` | users, session versions | edit, delete, log in, provision, reset, revoke | guards checked before an `await` | an active administrator always remains; what was revoked stays so | `UserAccounts` |
| Binary catalogue and deployment `deployment-*.ts` | catalogue rows, files, jobs and targets | upload, register, delete, job, retry | races on files and on job status; crash in a job | what is installed is what was registered | `Deployment` |
| Alerts `alerts.ts`, `alert-session-state.repository.ts`, `cache.ts` | rows of the grace period, the cached overview | poll, save settings | overlapping polls, a shared cache, failed readings, restarts | a loss is reported after its grace period and not before | `SessionAlerts` |
| Web terminal `routes/ws/terminal.ts` | shell and pending input of each web socket | open, message, close, error | a socket that closes while its shell opens | input in order, no orphan shell | `WsTerminal` |
| SSH pool and routing `ssh-pool.ts`, `ssh-runtime.ts` | managers by SAN | getOrCreate, remove, SAN edited or deleted | a manager removed while requests use it | one manager per active SAN | none, see below |
| Collector `plugins/collector.ts` | timer, last snapshots, samples | collect, reload, purge | overlapping collections and reloads | one timer | none |
| Readers, providers, upgrades, user interface | little or none | | | | none |

Components call each other as follows: a route authenticates (users), picks a SAN
(routing), and calls a component that runs commands through a session manager of the
pool. Mutations invalidate caches that overview routes and alerts read. Deployment uses
`uploadFile()` of the manager; the terminal uses `openShell()`. What a caller may see of a
command (refused, ended, ended with its answer lost, ended with exit code 0 because the
connection closed) is derived in `SshSession` and `Fault`s, `MdCut`, `LvmCut` and the like
use it in the modules of the callers.

PROJECT.json lists the hazards of each component at the line where they bite, with the
properties that cover them.

## Runs

| Run | Module | Result | Distinct states | What it shows |
|---|---|---|---|---|
| `ssh_pool` | `SshSession` | pass | 1 181 314 | slots are counted and handed on once; one connection or one pending reconnection; no queued command is stranded or overtaken; a destroyed manager stays without connection |
| `ssh_live` | `SshSession` | pass | 1 713 | queued commands leave the queue; waiting ones are served unless one command keeps its slot for ever, which only calls without a timeout can |
| `ssh_reload_single` | `SshSession` | violation | | `reload()` during a pending reconnection leaves two connections |
| `ssh_waiters` | `SshSession` | violation | | a waiter woken after the connection went away never settles |
| `scst` | `ScstConfig` | pass | 1 729 066 | under interleaving and all faults at once: files stay well formed where no text was cut short, replies are honest, a mutation is atomic unless its read was overtaken or failed or the disk is full, nodes agree after two requests that succeed |
| `scst_in_use` | `ScstConfig` | violation | | a device that a LUN uses is deleted by a concurrent request |
| `cluster_storage` | `ClusterStorage` | pass | 2 419 214 | honest replies, a way on after any partial failure, what is in use is lost only to a race or to an inventory that did not tell, and every operation implements `ConfirmedChange` |
| `users` | `UserAccounts` | pass | 2 485 577 | concurrent administration leaves an active administrator; a session refused once is never accepted again; after a reset no earlier session is accepted |
| `users_last_admin` | `UserAccounts` | violation | | provisioning demotes or deactivates the last administrator |
| `deploy` | `Deployment` | pass | 776 343 | one run per target, statuses that follow the runs, a node that gets the registered binary or fails, no success with a failed target, no file left by a refused upload, what a crash leaves |
| `alerts` | `SessionAlerts` | pass | 684 032 | no alert before its grace period; a loss is reported in the end; what is back on every SAN is cleared |
| `ws_terminal` | `WsTerminal` | pass | 3 281 | input reaches the shell in order, and in the end unless the node never answers; a shell ends with its socket unless it opened after it |

The violations are disagreements between the code and its own comments or messages;
PROJECT.json quotes each of them. The runs check safety under `Spec`, where the system may
stop, but for `ssh_live`, `ssh_waiters`, `alerts` and `ws_terminal`, which check liveness
under `FairSpec`. Deadlock is not checked where a state without successors is an end: all
requests answered, or the bounds used up.

## The modules

### SshSession: one SSH session manager

`status`, `client`, `destroyed`, `retryCount`, `queue`, `active` and `waiters` are the
fields of the class. `timers` counts calls of `setTimeout(connect)` that will fire;
`cs` says where each caller's command is; `on` the ssh2 `Client` of its channel;
`link` what each `Client` does. `micro` is the microtask queue of the event loop:
`releaseSlot()` resolves a promise, and the waiter counts itself only when its
continuation runs, so other code of the same macrotask may get in between; `reading`
allows several events of one socket read before the microtasks run.

Actions correspond to entry points: `Call` (exec and uploadFile), `Ready`, `SocketDown`
and `ClientClosed` (events of the connection), `Opened`, `OpenFailed`, `Closed`,
`StreamError`, `Expire` and `Stage` (a channel), `RetryTimer`, `Destroy`, `BeginReload`,
`FinishReload`, and `Microtask`.

Bounds: four callers, two channels, two retries (10 and 10 in the
code) and one reload. Four callers fill both channels and leave waiters that queue behind
woken ones; two retries reach the last attempt after a failed one. `Client` objects are
reused once closed: three are enough for a reload to overlap old ones with a new one.
Callers are symmetric where no liveness is checked. `ssh_live` has two callers, one
channel and no reload, since a liveness check cannot use symmetry.

Fairness (`FairSpec`): microtasks run first, so weakly fair; the rest is strongly fair,
since microtasks only postpone it: the reconnection timer; a handshake, which ends by
`readyTimeout`; the 'close' of a connection; an open stream of `runExec()`, which ends by its
own timeout; and whatever is pending on a connection that is gone (`Lost`), since the
library answers it with an error. No fairness is assumed of the answer to a channel
request on a live connection, for `runExec()` sets its timer only in the callback
(`ssh-session-manager.ts:295`), nor of an upload, for `uploadFile()` has no timeout: either
may hold its slot for ever. `WaiterServed` therefore says who is to blame: a command waits
for ever only if one and the same call is `Untimed` for ever. Nothing is assumed of
callers, of the network or of the administrator.

### ScstConfig: changes of scst.conf

`file` and `live` are the file of each node and what SCST runs. A request goes through
`Begin`, then for each node of its path `Read`, `Write`, `Reload` (each one SSH command),
or `Skip`; an ALUA request reads both nodes (`PlanNode`), waits for its token to be
used (`Execute`) and writes what was planned. `Results(op, c)` holds the mutators: the
configurations that may be written for the mutation `op` of `c`, none when it refuses.
`wrote`, `missed` and `stale` are histories: the files really replaced, the writes that
were missed and counted as done, and the files replaced since a request read them.
`Fault` chooses what may go wrong in a run; `FaultKind` lists the choices.

The script that writes the file has no `set -e` (`remote-file-writer.ts:30`). On a full disk
`base64 -d` leaves nothing or the beginning of the text, and `mv` puts it over scst.conf
(`WritePart`). `Truncated(c)` are the configurations that the parser may find in the
beginning of the text of `c`, in the order of the serializer: handlers with their devices,
targets with their groups, device groups; the last name may be cut into another one
(`Left`). A `cat` whose connection closes while it prints reads as such a beginning too.
`torn` has the nodes where either has happened.

Bounds: two nodes, two requests at a time, two devices, one target with two groups (a
second target may be created): enough for every check of a mutator to succeed and to
fail because of another request, on one node or on both in either order. `scst` has all
faults at once, but texts are cut short (other than to nothing) on one node only
(`MaxTorn`); the theorems have no such bound. The run identifies states by a `VIEW`, whose
comment in `MCScstConfig` says why the properties cannot tell them apart.

### ClusterNodes, ClusterMd, ClusterLvm, ClusterStorage, ConfirmedChange: storage of a cluster

`ClusterNodes` has what the operations share: of each node the MD array (`arr`), what is
built on it (`use`), whether its session is connected (`up`) and flagged read-only (`ro`);
of each request where it is, what its plan showed and which nodes it has still to do. The
tools of a node (`mdadm`, LVM, `mkfs`) are not in the repository: `Allowed`, `ArrAfter` and
`UseAfter` state how the code relies on them. `Command` ends a command of one node:
whether it took effect and what was reported of it are separate, because an answer may be
lost and an exit status not be read. `ClusterMd` has the operations on arrays: the modes
that a plan offers by the states of the nodes (`StopModes`, `AssembleModes`,
`CleanupModes`), the plan token against the plan made again (`TokenMatches`), the phrase, and
the commands, where a clean-up and a creation look at the node again before (`MdRecheck`).
A creation (`CreateModes`) is offered only when all nodes are connected, writable and free of
the array; it has no plan token, and the phrase to type is made of the name of the array.
`ClusterLvm` has the six LVM operations, which check all nodes when confirmed and none
afterwards, and the creation of a file system, which checks each node just before
(`FsRecheck`). `ClusterStorage` composes them: all requests act on the same nodes.

Inventories fail open. The three listings of the LVM overview are `... 2>/dev/null || echo
"{}"` (`lvm-overview.service.ts:22`), the parser finds no rows in what it cannot read
(`parsers/lvm-json.parser.ts:8`), the RAID overview does the same with `lsblk` and `pvs`
(`raid-overview.service.ts:36`), and a connection cut while one of them prints reads as exit
code 0. `silent[n]` has the parts that an inventory of node `n` lacks, which `Silence` and
`Speak` change at any time; `PvListed`, `VgListed`, `LvListed` and `UsedBy` are what the
preflights see. `blind` is the history of what a request did not see when it looked last.
`KnownUseSurvives` names, for each command that destroys, the one part that would have
told: no other gap in an inventory is dangerous. The states of the arrays themselves are
taken as read: `mdadm` refuses to create, assemble or erase members that are busy.

`ConfirmedChange` is the abstract specification: a change is shown with its nodes,
confirmed or refused, reaches no node that was not shown, and success is announced only
when it took effect on all of them, but for nodes whose exit status nobody read.
`ClusterStorage` implements it by the mapping `CC`; the run checks it and
`ClusterStorageProofs` proves it. `ReplyIsHonest` says what a success means later, with
`moved` (the nodes others have changed since) as the only excuse.

Bounds: two nodes, two requests over all the operations, one event (a
connection lost outside a command, a flag, a part missing from the inventories of one node,
a dialog opened again), from every combination
of initial states of the nodes: enough for a request to change a node between the plan,
the validation and the command of another, for every degraded mode of a cluster with
one node apart, and for an inventory that does not tell. The parts that may be missing in
the run are those that hide a user (`Sections`: the users of the arrays, the listing of the
volumes); the theorems allow the listings of physical volumes and groups too.

### UserAccounts: accounts and sessions

`users` is the table (a row's role, state, session version, source and identity), `used`
the identifiers that had a row, `cookie` the token of each browser, and `req` what the
handler of a browser's request remembers while it waits. The database answers
synchronously, so a handler is cut into actions only where it waits for something else:
`AdminRequest` (authenticated, waiting for its body) is followed by `Patch`, `Provision`,
or by `CreateChecked` and `ResetChecked`, which wait for a password hash and end by
`Created` and `Reset`; `ChangeChecked` and `Changed` are the change of one's own password;
`LoginRead` and `FederatedLogin` end by `LoggedInNow`. `Delete` waits for nothing.
`Refused` is every end without effect. An OIDC login resolves its account like the two
that are modelled; its attempts table is not modelled. A viewer is an operator, since no
decision made here tells them apart. A batch of provisioning is one request per row: rows
are handled without interruption, so a batch is a sequence of such requests.

Bounds: two accounts, two names, one identity, two browsers and two session versions:
enough for two administrators to act on each other with requests accepted before either
took effect, and for an account to be deactivated and activated again under a session.

### Deployment: the catalogue of binaries and its deployment

`disk` holds the files of the container and `catalog` the rows that describe them; `born`
are the identifiers given out. `req` is what a request of the catalogue remembers between
two of its awaits: `Examine`, `Stat`, `Present`/`Absent` for a listing or the check before a
deployment; `Upload`, `WriteFile`, `HashFile`, `InsertRow`, `RemoveUpload` for an upload
(`Register` joins at `HashFile`); `DeleteFile`, `RemoveFile`, `FileRemoved` for a deletion.
`job` has the status of each job and target as they are stored; `run` the executions in
memory. `CreateJob`, `SanJob` and `Retry` start one; `Locate`, `Send`, `Verify`, `Install` and
`TargetFails` move one target of it, and `Finish` writes the status of the job. `Crash`
loses `run` and `req` and nothing else. `lost`, `joined` and `exempt` are histories: they
say which jobs were running at a crash or had two runs at once, and which contents may be
on disk without a row (a row deleted without its file, a crash, a file of the image). A
target's `got` is a history too.

Bounds: two files, contents and rows, two requests that race; one job with two targets and
two runs, so that a retry overlaps the first run or another retry. Once there is a job, one
request at a time runs beside it, no second binary is registered and, after a crash, jobs
and requests no longer race (`Bounded`). The rest of the races between requests is explored
without a job; what the bounds cut off is covered by the theorems of `DeploymentProofs`.

### SessionAlerts: alerts on lost sessions

`live` and `sick` are the SANs: who has a session, whose commands fail. A request (`poll`)
reads the settings, takes the overview from the cache or reads it in two commands
(`ReadConf`, `ReadSessions`), caches it and answers (`Answer`, which is `detectAlerts()`
with the rows of the grace period in `rows`). `Show` is a page that fills the same cache,
`Fails` a rejected command, `Restart` a restart of the server. The cache has one entry for
all SANs, as in `scst-config-reader.ts:28`. Time is counted in ticks; `fine` is the history
of what the answers said.

Bounds: two SANs with the same initiator, two requests at a time, alerts polled for the
first SAN and pages shown of both, a strict policy with a grace
period of one tick and a group policy without one, a cache that lives one tick: enough for
overviews to expire, to be read across a change and to be those of the other SAN, on which
the initiator has its sessions or not. `BackIsCleared` asks that it is back on both: with
a session on the polled SAN only, the overview of the other one raises the alert again.
Fairness: time passes, and nothing else, for a poll may hang on a channel request that is
never answered. That polls go on being answered is a premise of the two liveness properties
(`Polled`), not an assumption.

### WsTerminal: one web terminal

`sock` is the web socket, `open` the handler that authenticates the user, `pend`, `buf`
and `att` the maps `peerPending` (with its queue) and `peerShells`, `shell` the channel.
`wire` holds the messages of the client that were not delivered. `Opened`, `Deliver`,
`PeerClosed` and `PeerError` are the four handlers; `ShellOpened`, `ShellFailed` and
`ShellClosed` the outcomes of `openAndAttach()`. `before` is a history: the keystrokes
that were delivered by the time the shell was asked for. Peers share nothing but the
session manager, so one is modelled. A `Brace` keystroke is a text that starts with `{`.

Bounds: four keystrokes, so that some come before, during and after the opening of the
shell. Fairness: `open` ends (its calls are local), messages are delivered, a request
whose connection is lost fails, a shell that was ended closes, a closing handshake ends.
Neither `openShell()` (`ssh-session-manager.ts:329`) nor its caller has a timeout, so no
answer to a channel request is assumed: `BufferedReachesShell` says that kept input waits
for ever only on a request that stays without an answer for ever.

## Proofs

The theorems hold for every value of the constants that satisfies the assumptions at
the head of each module. They are about `Spec`, so fairness plays no part. In each module
the properties follow from one inductive invariant, which is needed because none
of them is inductive alone.

`SshSessionProofs`. `SlotInvariance` is the conjunction of the type invariant, of what
`queue` and `waiters` mean, and of `SlotAccounting` and `NoLostWakeup`: releasing a slot
moves the head of `waiters` to the state `woken`, and that the counts agree needs the head
to be a waiting caller, occurring once. There is one lemma per operator the actions share
(`ExecSlots`, `ReleaseSlots`, `DrainSlots`, ...) and one step per action; one lemma on
moving a caller between sets (`MoveSlots`) handles the cardinalities. The second part is
about the connection: until a reload, at most one of a live `Client`, a pending timer and a
`Client` about to close is there to go on (`Chained`), and none after `destroy()`
(`Dismissed`). From these follow `OneChain`, `DestroyedStaysClosed` and `QueueAttended`;
`QueueNotOvertaken` holds across reloads. `SomebodyHolds` is what makes waiting for a slot
sensible: a waiter always waits for some command that holds one or is about to. The third
part counts what may become a connection across reloads (`ChainsCounted`): the `Client`
objects not yet closed, the pending timers and the reloads that wait for their
configuration are at most one more than the calls of `reload()`. `ConnectionsBounded` follows, and `OneConnectionUntilReload`: what the run
`ssh_reload_single` refutes holds without `reload()`.

`ScstConfigProofs`. The first part shows that every mutator maps a well-formed
configuration to well-formed ones (one lemma each, together `ResultsOK`). The second says
of each request that what it is about to write was checked (`Checked`), that a plan
covers its path before any node is written (`Planned`), that a node has executed only
after its write, done or missed (`Counted`), and that what it will write is a result of
its mutator on the file that is there, or the request is on record as stale
(`Pending`). A write marks all others who have read the file; `Others` carries their
invariant over any step. What is read or written is well formed where no text was cut short
(`Node \ torn`), which is all that `IntegrityKept` claims; `MutationsAtomic` has the full disk
as the one way to leave less than a result of the mutator: a beginning of it, on record as
missed. `TypeCorrect`, `IntegrityKept`, `RepliesHonest` and
`MutationsAtomic` follow, for any number of nodes and requests in flight.

`ScstAgreementProofs`. What a mutator with a cluster route does is to add to the lists of the
configuration and to remove from them (`Effect`). If two of them succeed in both orders,
neither removes what the other adds (`NoClash`), so they commute (`Commute`). A request
addresses all nodes once (`Routed`) and has written those behind it at most (`Behind`). As long
as every write succeeds on a file that nobody has replaced since (`Clean`), each node has the
result of the one request that wrote it, or of both in one of the two orders (`History`);
`SuccessesAgree` follows for any number of nodes. It is about two requests, because three
do not always agree (see below). `ApartAgree` is about any number of requests, overlapping as
they may: they agree when none removes from a list what another adds to it (`Apart`), for
then the file of a node is the first one with all that its writers added and without what
they removed (`Summed`), in whatever order they came. `InUseKept` is the complement of the
run `scst_in_use`: whatever interleaves and fails, a device in use is deleted only by a
request that was overtaken or misread the file, so the run shows the only way. No theorem
limits how many requests are under way.

`ClusterStorageProofs`. A command changes the request that gave it and marks its node as
moved for the others, so each part of the invariant is about one request: what was shown
(`Planned`), how far it has gone (`Covered`), what its finished nodes hold (`Honest`), what
those before it still hold unless its inventory could not tell (`Cautious`, `Harmless`).
`TypeCorrect`, `HonestReplies` and `UseSurvives`
follow; `WayOn` is about the plans alone. `Refinement` maps initial states to initial
states and every step to a step of `ConfirmedChange` or a stutter, with one lemma
(`MdConfirmKeeps`, `SameScope`) behind it: a token that matches means that the plan made
again has the scope that was shown.

`UserAccountsProofs`. What a token may still know of its account is `Stamped`: its version
is at most the account's, and if it equals it no password was reset since; a token in a
login under way must satisfy it too. The rows change in three ways only (`InsertRow`,
`UpdateRow`, `RemoveRow`), each shown to be a `Progress`: identifiers are not reused and
versions do not decrease. `FreshKept` carries every token over a step; `OtherAdmin` is the
count behind the guard of the last administrator. `TypeCorrect`, `ResetEndsSessions`,
`AdministratorKept` and `RevocationLasts` follow, and `AdministratorRemains`: what the run
`users_last_admin` refutes holds as long as nobody is provisioned. The assumptions are that the identifiers
are finitely many (the count needs it) and that `None` is none of them.

`DeploymentProofs`. `DeployInv` has three parts. `JobInv` relates the runs to what is
stored: a run knows the status of the targets it drives and of those it completed
(`Follows`), of those that failed too unless another run joined it (`FailuresSeen`); a first
run has all the targets of its job (`FirstWhole`); a target nobody drives has ended
(`Ended`). That is why the last run to end can judge the job although it looked at its own
results only: a first run that saw no failure has seen all targets succeed, and a success
is never undone. Both ways to start a run, `NewJob` and `Retry`, are shown to be an `Opens`;
all steps of `runTarget()` are one `Moves`, treated once. `GotInv` says that a verified
checksum is that of the row, which stays as long as the job refers to it (`RowsKept`).
`FilesInv` says that a file without a row is tended by an upload (`Tends`): it will hash,
register or remove it. `NoStrayKept` reduces it to the request that takes the step. The
assumption is that `None` and `Damaged` are no contents. All properties of the run
`deploy` follow, `CutTargetsStay` among them.

`SessionAlertsProofs`. `RowsAreCovered` relates each row of the grace period to the history
of the answers: a row is never older than the last answer that left its key out. With the
types it gives `AlertsAreDue`, whatever overview the cache hands out.

`WsTerminalProofs`. The keystrokes are in three places, `got`, `buf` and `wire`, in this
order: what was delivered is in order (`Delivered`), so is what is on the wire
(`WireInOrder`), everything in the buffer is later than what the shell got and earlier than
what is on the wire (`Ordered`), and nothing is missing but braces and what came before the
opening (`UpToDate`). `Stages` says which states of socket, maps and shell go together.
`InputIsInOrder` and `ShellEndsWithSocket` follow, for any number of keystrokes, and
`KeptInputAttended`: on an open socket what was kept has reached the shell, or the shell was
asked for and will take it.

Only model-checked: all liveness (`QueueDrains`, `WaiterServed`, `LostIsReported`,
`BackIsCleared`, `BufferedReachesShell`, and the refutation of `EveryCallSettles`), which
the prover cannot treat. The safety part of three of them is proved: a queued command has a
connection or a timer to wait for (`QueueAttended`), a waiting one a holder of a slot
(`SomebodyHolds`), kept input a shell (`KeptInputAttended`). Every invariant and every safety
property of the passing runs is a theorem.

## What the models show of the code

Beside the four violations, this is what the code does where a reader may expect
otherwise. The properties are stated so that they hold with it.

- SSH: a channel request that the node never answers, and an upload that stalls, hold their
  slot for ever, for `runExec()` sets its timer in the callback only and `uploadFile()` has
  none; with all slots held that way, every later command waits. `acquireSlot()` takes any
  free slot, and a woken waiter counts itself only later.
  When two channels end in one socket read, the continuation of the first call can start
  another command, and `maxChannels` is exceeded by one. A connection that closes before
  the exit code arrives gives exit code 0.
- scst.conf: the script that writes the file has no `set -e`, so a full disk moves an empty
  file over it, or the beginning of the new one, which passes even `[ -s ]`: LUNs and
  device groups may then be missing, and a name cut in two may refer to another device.
  `server/utils/remote-file-writer.ts:15` says that the size is validated. A `cat` that fails reads as an empty file, and the next write keeps only the change.
  Three overlapping cluster requests may leave the nodes with different files although all
  of them succeed: a group is deleted and created again while a LUN is added to it, and
  only one node sees the LUN come last.
- Cluster MD: `stop_inconsistent_active` and the other degraded operations run on read-only
  peers; only the flag of the primary node is looked at
  (`server/utils/raid-cluster-storage-preflight.ts:108`, against `cluster-readonly.ts:15`). A clean-up
  that skips nodes answers `ok: false` with status 200 though nothing failed.
- The creation of an array counts as done when the connection is lost before its exit
  status: only an `EXIT_CODE` other than 0 is a failure
  (`server/utils/raid-md-actions.ts:31`), and no line at all is none.
- File systems: a scanner that fails is replaced by an empty reading
  (`server/utils/fs-scanner-runner.ts:18`), and the preflights do not look at the `partial`
  flag of the overview. When both readings of the SCST devices fail, the deletion of a
  virtual disk that SCST uses passes the check of `server/utils/fs-preflight.ts:270`.
- Cluster storage: an inventory that lacks a listing reads as a node without it. A volume
  group whose volumes are in use is then removed by `vgremove -y -f`
  (`server/utils/lvm-validation.ts:136`, `server/utils/lvm-actions.ts:62`), and an array is stopped or
  formatted whose user the RAID overview did not see, as far as the tools themselves let it.
- Cluster LVM: exit codes other than that of `lvcreate` are ignored, so a tool that refuses
  counts as done.
- Alerts: the overview is cached under one key for all SANs
  (`server/utils/scst-config-reader.ts:28`), so the alerts of one SAN may be computed from
  the overview of another: what is lost there is announced here, again and again, and the
  rows of the grace period of this one are deleted; the hardware reader
  names its keys by SAN. A failed reading of the sessions reads as no sessions, an
  unreadable scst.conf as no initiators. What was fetched before an invalidation is stored
  after it.
- Users: the change of one's own password keeps every session of the account, although
  `server/middleware/auth.ts:16` names it among the reasons for which sessions are revoked.
- Deployment: after a crash, targets stay `uploading` for ever and a retry of the others
  turns the job into a success. A first run that ends after a retry writes `partial` or
  `failed` from its own results, although the retry has mended the target. An empty answer
  of `sha256sum` passes for a good checksum. Two uploads of one name overwrite each other,
  although `server/utils/deployment-binaries-storage.ts:174` says `no overwrite`.
- Web terminal: a message that arrives while the user is authenticated is dropped, `init`
  included, and the next keystroke then opens the shell at the default size. A shell that
  opens after its socket has closed is attached to nobody and is not ended. A shell request
  that is never answered keeps the terminal waiting without a word.

Some hazards that PROJECT.json lists have no property, because the code does what a
property would forbid and no document forbids it, or because the properties had to
exempt it: the virtual disks behind a failed scanner, the messages dropped while a user is
authenticated, the shell that outlives its socket, the exit statuses nobody reads, the
sessions kept by a change of password, the upload that overwrites another, the checksum
that could not be read. They are all described above.

## Not modelled

- The SSH pool: `create()` and `remove()` are single steps of the event loop, so that there
  is nothing to interleave. A SAN that is created or activated again gets its manager when
  it is first asked for; `ssh-pool.ts:8` says one per active SAN.
- Adding members to arrays and preparing partitions on a cluster: one node after the other
  like the creation of an array, with other commands. The mapping of the disks of one node
  to those of another, on which these and the creation rest, is a comparison of data.
  Virtual disks and their binding to SCST repeat the loop of the creation of a file system
  around the mutators of `ScstConfig`.
- Configuration files of a node: their atomic write is the action `Write` of `ScstConfig`; the
  script that synchronises them runs on the node.
- Collector: a timer and independent insertions. `reloadCollector()` awaits between
  `clearInterval` and `setInterval`, but what it awaits is synchronous.
- Cluster membership, upgrades, hardware RAID, the performance agent, providers (LDAP, OIDC,
  SMTP): each call is a sequence of commands or requests to outside tools with no state of
  its own between two calls. `remove-node.post.ts` uses the cluster it read before its SSH
  commands, which only matters when two administrators reorganise the same cluster.
- Parsers of command output and of scst.conf: pure functions. The serializer loses what the
  parser does not keep (comments, top-level scalars, unknown blocks), so a file written by
  hand is reduced by the first write; `ScstConfig` starts from a file the WebUI wrote.
- The user interface, which keeps no shared state: what it sends is an arbitrary request to
  the modules of the server. The wording of messages, and the sizes and values of metrics.
