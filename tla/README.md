# wdp: models, checks and proofs

This directory is a verification development for `wdp`, a Go deployment tool:
a control host reads an inventory and a chart or playbook, and converges many
hosts over SSH, over agents that it pushes to them, or by handing each host a
compiled plan that a resident agent runs on its own. The TLA+ modules model the
parts of the program in which concurrency, failure, order and precedence matter;
TLC checks them on small instances and TLAPS proves the most important facts for
all instances. `PROJECT.json` maps every definition to the lines it models and
lists the runs, the theorems, the hazards, and the disagreements between code
and documentation that the runs show.

All paths below are relative to the repository, `src/internal/...`.

## 1. Inventory

### The parts of the system

| Component | Packages | State it keeps | Operations | Hard behaviour | What makes it correct | Modules |
|---|---|---|---|---|---|---|
| Connection manager | `conn/manager.go` | table host -> connection, `closed`, handshake semaphore | `Get`, `CloseAll` | many goroutines dial one host; `CloseAll` during a dial; cancellation while waiting for a token | no connection and no token lost, one connection per host, `Get` returns | `ConnManager` |
| Autonomous runs | `agent/apply.go`, `server.go`, `clean.go`; poller in `cli/applyauto.go` | `planManager` (runs, idempotency keys, current), `planActive`, run directories | submit, status, cancel, idle watchdog, restart; `pollSubmissions` | racing submissions, failing writes, death of the process, cancel against verdict | one convergence at a time, honest and final verdicts, every run ends | `AgentRun`, `RunLease` |
| Journal and resume | `agent/journal.go`, `executor/planrun.go`, `plan/compile.go` (numbering) | `journal.ndjson`, `plan.id`, skip set | append, replay, resume | crash between a change, its line and its handler; torn line; same number twice | a run reported done applied everything; finished tasks are not repeated | `ResumeRun` |
| Batch cutting | `executor/strategy.go`, `hosts.go` | none | `splitBatches`, `chunkHosts`, `parseBatchSize` | rounding, empty and oversized batches | batches partition the hosts, sizes as documented | `Batches` |
| Play execution | `executor/*.go` | `hostRun`, `playState`, `deadHosts`, markers | hooks, batches, fan-out, handlers, gate, rollback, marker | a host lost half way; cancel between any two steps; handlers of a failing batch | guarded rollout, lost hosts stay out, handlers neither lost nor gratuitous, batches atomic | `PlayExec` |
| Task logic | `executor/task.go`, `exec.go`, `expand.go`, `tags.go` | registered variables, `block_failed`, notifications of a host | `when`, `loop`, `until`/`retries`, `block`/`rescue`/`always`, chart tasks | results leaking between attempts, failures lost on the way up, a chart inside itself | every failure known, `always` attempted, handlers hear, the task ends | `TaskLogic` |
| Modules and rollback | `module/`, `executor/strategy.go` | remote files, accounts, units, packages; snapshots, rollback journal | probe, snapshot, change, replay, cleanup; check mode | any remote command fails or its answer is lost; several tasks on one path; delegation | check mode foretells the run, idempotence, success means the target, what is undone is as before | `Rollback`, `Plans`, `FileTasks`, `AccountTasks`, `ServiceTasks`, `ArchiveTasks`, `Converge` |
| Push channel | `conn/push`, with `conn/agentc`, `conn/sshc` | connection, agent processes, files on the target, generation of the certificates | upload, start, probe, call, heal, rotate, shut down | port taken, half-started agent, lost answers, rotation between two calls, death of either end | nothing is left behind without a cause, nothing is done twice or under an old chain, idle agents leave | `PushAgent` |
| Session certificates | `pushcerts`, `ca` | CA and leaf on disk, lock file | load, rebuild, issue | several processes rebuild at once and die on the way | all use one CA and a leaf of it; everybody ends | `SessionCA` |
| Release store | `release`, `cli/release.go` | record files per chart | save, list, load, delete | deployments and deletions at once, crash before the write | a record stays until a command names it | `ReleaseStore` |
| Inventory | `inventory` | groups, hosts, variables, caches; changed by `add_host`, `group_by` | merge, build, select, relays | precedence, membership through children, stale caches | nearest definition wins, selection is current | `Inventory`, `InventoryRun` |
| Charts | `chart` | values, sub charts, phases, markers (v1, v2) | merge, scope, digest, redact, reversibility | precedence, secrets, entries that refer to each other | marker, drift and warnings tell the truth | `ChartValues` |
| Plans and the command line | `plan`, `cli/run.go`, `plan.go`, `apply.go`, `applyauto.go`, `drift` | plan file, shards, markers of the hosts | `run`, `plan`, `apply`, `drift`, confirmation | the plan is run from what it holds, later, elsewhere, after chart and inventory changed | a plan means the run, shards cover it, uninstall uses what was deployed | `PlanFile`, `ChartLife` |
| Playbooks | `playbook` | none | decode YAML | - | - | not modelled |
| Agent operations and endpoints | `agentops`, `agentbin`, rest of `agent` | resident agents | install, renew, status, retire, exec, files, logs | one step of several fails | - | not modelled |
| Rendering, reports | `render`, `fmtutil`, `report` | output buffers | format | - | - | not modelled |
| Configuration, helpers | `config`, `sshcfg`, `knownhosts`, `shellquote`, `selfexec`, `selfrun`, `local`, `dumphttp`, `fake`, `model` | known_hosts ledger | parse, quote, run a local script | - | - | not modelled |

### How they interact

A command of the control host loads inventory and chart and either calls
`Executor.Run` itself (the direct way) or compiles a plan, submits each shard to
an agent and polls it (the autonomous way); the agent's goroutine then calls
`Executor.RunPlan`, which rebuilds the plays from the shard and calls the same
play execution. The executor asks the connection manager for a connection in
every worker goroutine; such a connection may be an SSH session, a resident
agent or a pushed one. A task is taken apart on each host (conditions, loops,
blocks, charts) until modules are called, which use the connection and register
rollback actions with the executor; results go to a reporter, which on an agent
is the journal. The executor's goroutine and its workers meet at each fan-out's
wait; the agent's handlers, its convergence goroutine and its watchdog share
`planManager`, each run's mutex, `planActive` and the run directory; control
host and agent share nothing but requests and answers; the wdp processes of a
control host share the directories of the session CA and of the records.

```
 ChartLife: run / plan / apply / drift on a chart and its markers
     |            |
 PlanFile   cli/applyauto --(submit, status, cancel)--> AgentRun --RunPlan--> ResumeRun
 ChartValues      |                                     AgentRun ==> RunLease (refinement)
 Inventory        v
            Executor.Run = PlayExec --cuts with--> Batches
                 |  each task on each host = TaskLogic --calls--> Converge (one module, one host)
                 |  workers --Get--> ConnManager --dials--> PushAgent --material--> SessionCA
                 |  modules --register--> Rollback <--replay-- rollbackBatch
            ReleaseStore: the record of the deployment
```

The arrows are interactions of the program. In the models each part is checked
against an environment that does whatever the neighbour could do: outcomes of
tasks are open in `PlayExec`, outcomes of module calls are open in `TaskLogic`,
outcomes of remote commands are open in `Converge` and `PushAgent`. The parts
that exchange data rather than outcomes are composed: `ChartLife` uses
`PlanFile`, which uses `Inventory` and `ChartValues`; `InventoryRun` uses
`Inventory`; `PlayExec` uses `Batches`; `Converge` uses the module families.

## 2. Modules

A constant that needs an assumption has it in a named `ASSUME`; there is one
action per handler, critical section or step; the properties are at the end of a
module. The `MC...` modules give constants their values. Definitions whose
comment says "Mutant of X" are faulty variants of `X`: each property has one,
with which it fails.

**ConnManager** (`conn/manager.go`). `table`, `closed` and `sem` are the fields
of `Manager`; `pc`, `host`, `mine`, `got` are the locals of the goroutines in
`Get`. The two critical sections (`Lookup`, `Publish`) and `CloseAll` are one
action each because they hold the mutex; dialling (`Connect`), waiting for a
token (`Acquire`, `GiveUp`) and closing one's own connection (`Discard`,
`ConnectFails`) are steps of their own, between which everything else may
happen. `Cancel` cancels the caller's context. A connection object is `down`,
`dialling` or `open`; objects are reused once down.

**AgentRun** (`agent/apply.go`, `server.go`, `clean.go`, `cli/applyauto.go`).
A submit handler is `Submit`, `Register` (the whole of
`planManager.register`, under its mutex), then the writes `MakeDir`,
`CheckResume`, `WritePlanId`, `WriteState`, then `Arm` and `Spawn`, each of
which may fail and answer with an error when `Faults`; `Reply` ends it. The goroutine is
`OpenJournal`, `Execute` (RunPlan, one step here), `Judge`, `FinishInMemory`,
`FinishOnDisk`, and the two deferred calls `DropCancel` and `DropActive`, in the
order in which Go runs them. `Poll` is one round of `pollSubmissions` for one
run, `Status` the answer it gets (memory, or the state file for an unknown
run), `CancelRun` the cancel handler. `Elapse` and `WatchIdle` are the idle
timeout, `Die` and `Restart` the process. `register` reads
`current.state` without that run's own mutex while `finish` writes it; the only
outcomes of this race are that the read sees the old or the new value, which
are the two orders the model has anyway.

**RunLease** is the abstract specification: runs begin one at a time and once,
"done" is only said of a run that was executed without failure, and only the
end of the process forgets. `AgentRun` implements it, with the ghost `converged`
as `finished`.

**ResumeRun** (`plan/compile.go`, `executor/planrun.go`, `agent/journal.go`,
`agent/apply.go`). `Counter` is the counter of `Compile` for a host, play after
play, `Number` what it gives to an item; `PlanIdx` the number
`RunPlan` uses for it, that of the *last* host of the play in the shard.
`Execute` is one module call, `WriteLine` the synced line after it (in fan-out
order for `run_once`), `NextItem` and `NextPlay` the executor's loop, `Crash` a
death of the process at any point, possibly in the middle of a line. `journal`
is the set of lines that parse; `torn` says that the file ends half way through
a line, which swallows the next. `committed` and `applied` are ghosts.

**Batches** (`executor/strategy.go`, `hosts.go`, `play.go`). Pure operators:
`ParseBatchSize`, `SplitBatches` (serial), `ChunkHosts` (strategies),
`MainBatches`. `AsAsked` compares them with sizes stated independently, as the
documentation puts them.

**PlayExec** (`executor/executor.go`, `play.go`, `batch.go`, `hosts.go`,
`handlers.go`, `strategy.go`, `marker.go`). Uses `Batches`. `step` is the place
of the executor's goroutine; `fan` and `out` are the workers of the current
fan-out and what they deliver. A task ends `ok`, `changed`, `failed`, `dirty`
(failed after it changed something) or `unreachable`; which is open, and so
are the outcomes of gates, replays and marker writes. `journal` counts the
registered changes of a host. `plays` is the chart of the behaviour and never
changes.

**TaskLogic** (`executor/task.go`, `exec.go`, `expand.go`, `tags.go`). One task
on one host. The Go functions recurse, so the variable `stack` holds their
frames: the task, where in it (`start`, an item, an attempt and its judgement,
`block`, `rescue`, `always`, the tasks of a chart, `end`), the result so far
and the variables to restore. In a list of tasks a frame knows its position in
the list as written; `Ahead` is what of it is still to come and selected by the
tags. A step is one decision of the code: `Skip`, `Refused`, `Begin`, `NoCall`,
`Prepare` (loop item), `Attempt` (one module call, ending in any way),
`TimedOut`, `Judge` (`changed_when`, `failed_when`, `register`), `Enter` (child),
`PartEnds`, `ItemEnds`, `Return`. `vars` has `block_failed` and the registered
names of the current scope, `notified` the handlers; `log` is the history that
the properties read. `Tasks` is every task there is, at any depth; a `name` stands
for the place of a task in the playbook, so that a place holds one task and no
list has it twice (`PlaceAssumption`). A chart may refer to itself.

**Rollback** (`module/*.go`, `executor/strategy.go`). A host's file system is a
function from the paths that exist to nodes (file, link, directory); `RmRf`,
`Put`, `MakeDirs`, `Copy` are the shell commands as GNU tools execute them,
including `cp -a` into an existing directory. A task probes (`Probe`),
registers (`Register`, which may fail without being noticed, as `Snapshot`
does) and changes (`Change`). `BatchFails`, `Replay` and `Cleanup` are
`rollbackBatch` and `cleanupSnapshots`.

**Plans, FileTasks, AccountTasks, ServiceTasks, ArchiveTasks, Converge**
(`module/*.go`, `executor/exec.go`). What one call of a module does is a *plan*:
the remote commands it will send after its probes, whether it reports a change
if they all work, and whether it succeeds then. `Plans` has the plans, hosts and
command effects; the four families have one operator per module (`copy`,
`template`, `get_url`, `fetch`, `lineinfile`, `file`; `user`, `group`;
`service`, `systemd_unit`, `package`; `unarchive`, `artifact`, `command`/`shell`,
`script`, the modules of a chart), its counterpart in check mode, and what the
documentation says the target of the task is. `Converge` executes plans: `CheckRun`,
`StartRun`, `Command`, `CommandFails`, `CutShort`, `Finish`, again and again on the
host that the last call left. A call is cut short when its connection breaks, or when
the context of its task expires or is cancelled (`executor/exec.go:42`), with the
command done or not, its answer lost. The deferred removal of temporary files runs
under the same connection and context, and fails with them (`Abandoned`). A path may be
a link: `stat`, `rm`, a backup and a rename are about the link, checksums, `chmod` and
`chown` about what it leads to (`Followed`).

**PushAgent** (`conn/push`, `conn/agentc`, `agent/clean.go`). `c` is the `Conn`
with the place of the control host in it; all its operations hold `Conn.mu`, so
there is one place. `procs` and `files` are the agents and the directories of
the target, by the random suffix of the bootstrap. Bootstrap is `Connect`,
`Unprepared`, `UploadBinary`, `UploadCerts`, then `StartAgent`, `HealthCheck`,
`Undo`, `KillOld` for each port, `Cleanup`; an operation is `Call` with
`CallAgent` or `CallOverSSH`, preceded by `Rotate` and followed by the bootstrap
of a heal; `Close`, `Shutdown`, `Fallback`, `LastKill`, `LastCleanup` are
`Close`. `IdleExit`, `Leave`, `Crash` are the agent's own; `NewMaterial` is the
rotation of `pushcerts`. A remote command may fail or lose its answer
(`lapses` counts these).

**SessionCA** (`pushcerts/pushcerts.go`, `ca`). `LoadOrCreate` with a step per
file: `Load`, `Lock`, `SeeStale`, `Steal`, `Recheck`, `Wipe`, `InitCert`,
`InitKey`, `Unlock`, `EnsureLeaf`, `WriteLeaf`, `WriteLeafKey`, `ReadCA`,
`ReadCert`, `ReadKey`; `GiveUp` is the deadline, `Die` a crash, `Expire` the day
that goes by. A key is a number, a certificate the number of its key, that of a
leaf also the number of its CA's.

**ReleaseStore** (`release/release.go`, `cli/release.go`). `Stamp` takes the
time, `Create` opens the file exclusively with a counter on collision, `Write`
fills it; `Find` resolves the arguments of `release del` against one of the
`Listings` (newest first, records of the same time in any order), `Delete` removes
one record; `Quits` is an error or a death at any point.

**Inventory, InventoryRun** (`inventory`). Pure operators for merging files,
building hosts and groups, variables by distance, patterns, limits and chains of
relays. Variables are merged in two ways, as in the code: `MergeVars` goes into maps
(inventory files over each other, `group_vars` and `host_vars` over what the inventory
says beside them), `Over` takes them whole (entries of a host, groups over groups, the
host over its groups). `InventoryRun` applies `add_host` and `group_by` to the built inventory.

**ChartValues** (`chart`). Pure operators: merge with nulls, scopes of sub
charts, overrides, redaction and digest, markers, phases and entries,
irreversible tasks, collisions.

**PlanFile** (`plan`, `executor/planrun.go`, `batch.go`, `cli/run.go`, `plan.go`,
`applyauto.go`, `drift`). `LoadRun` and the trace of a direct run; `Compile`,
`GroupByRoot`, `FilterGroups`, `Shard`, `SupplyPayloads` and the trace of `RunPlan`;
`RunDrift`. A trace is the sequence of plays with who runs which tasks with
which variables.

**ChartLife** composes them: a chart is deployed directly or by a plan, edited,
deployed again, and uninstalled, while the inventory changes. `marker` is what
lies on the hosts; `used` and `made` are histories: the values that were used
for each host, and what the run would have been that the plan was compiled for.
`MCControl` extends `SessionCA` and `ReleaseStore`, whose properties it checks under
the names the theorems have, and puts them side by side with instances of
`InventoryRun`, `Batches` and `ChartLife` as *scenes*: a behaviour plays one of them.

## 3. Runs

| Run | Instance | Checks |
|---|---|---|
| `ConnManager_get` | 3 goroutines, 1 host, 3 connection objects, 2 tokens | `NothingIsLost`, `HandedOutRight`, `GetReturns` |
| `AgentRun_faults` | 2 control hosts, 3 kinds of submissions over 2 run_ids and 2 plans, failing writes, 1 death | `OneConvergence`, `PlanHasOneRun`, `SuccessIsReal`, refinement of `RunLease` |
| `AgentRun_oneplan` | 1 plan with and without resume, 2 control hosts, with and without watchdog, 1 death | `SaysTheTruth`, `WatchdogSparesRun`, `RunsEnd` |
| `PlayExec_charts` | 3 charts over 2 or 3 hosts | `RolloutKept`, `HandlersMatch`, `UndoneOrKept`, `MarkerMeansDone`, `RunEnds` |
| `Rollback_batch` | 324 pairs and 125 triples of tasks, 2 hosts | `BatchUndone` |
| `ResumeRun_resume` | a host's own shard and a relay's, 2 crashes, 1 failure, torn lines | `DoneMeansApplied`, `NoRedo` |
| `Converge_modules` | every module with its parameters in combination on the targets it meets, 3 calls, any command failing, any call cut short by a lost connection or an expired or cancelled task | `CheckPredicts`, `Idempotent`, `SuccessReachesTarget`, `NoDebris` |
| `TaskLogic_hosts` | 16 trees of tasks, with and without tag selection, every call ending in any way | `AlwaysAttempted`, `FailuresKnown`, `HandlersHear`, `TaskEnds` |
| `PushAgent_life` | 2 operations, 2 bootstraps, 2 ports, 2 generations, 2 lapses, 1 crash of an agent, death of the control host | `NothingStrays`, `OnceUnderItsChain`, `AgentsLeave` |
| `Control_shared` | five scenes: the CA with 3 processes and 1 death; records with 2 processes and 7 commands; two changes of inventories with 3 groups in every acyclic arrangement; batches of up to 9 hosts; a chart with nested sub charts in 2 versions, 2 inventories, 2 hosts | `SameChain`, `LoadersEnd`; `RecordsAgree`; `NearestWins`, `SelectionIsCurrent`; `BatchesAsAsked`; `UninstallMatches`, `DriftIsTrue`, `UserIsTold`, `PlanMeansRun`, `ShardsCover` |
| `ResumeRun_late` | a relay's shard in which a host joins in the second play | violates `DoneMeansApplied`: section 6 |
| `Control_hooks` | the chart with its hooks spelt `pre_deploy`, `post_deploy` | violates `PlanMeansRun`: section 6 |

What the less obvious properties say:

- `NothingIsLost` (ConnManager) joins three facts: an object that is dialling or
  open is in the table or in the hands of exactly one goroutine still inside
  `Get`; nothing is published after `CloseAll`; and tokens are counted against
  goroutines, so that an early return without its deferred release is seen.
- `OneConvergence` (AgentRun) joins the handlers between `register` and `go`
  and the goroutines: nobody prepares a run while another is prepared or
  converges. `SuccessIsReal` relates what a poller on another machine believes
  to what a goroutine did, over restarts. `SaysTheTruth`: "running" has a worker,
  and a restart changes no answer of the status endpoint once the goroutine is
  past its writes. `RunsEnd`: a run ends by a verdict or with its process, and a
  poller of a resident agent that does not die hears it.
- `RolloutKept` (PlayExec): under a strategy a host gets a main task only if all
  hosts of earlier batches went through tasks, handlers and gate, and a host that
  failed gets nothing more. `HandlersMatch` and `UndoneOrKept` have both
  directions each.
- `BatchUndone` (Rollback): paths that are the business of one task are as they
  were; new files are gone however many tasks wrote them; snapshots are removed.
- `DoneMeansApplied` and `NoRedo` (ResumeRun) are the two directions of resume,
  over all attempts.
- `CheckPredicts` (Converge): what a module announces with `--check` is what the
  run right after it reports, when nothing breaks. `Foreseeable` names what check mode
  does not look at, all of it in section 6: what the address of an artifact has, the
  owner of `lineinfile`, what a whole archive holds, an unterminated quote in the
  arguments of a script, and a link to nowhere whose mode is asked for.
- `Idempotent`: after a success, whatever failed or was cut short before, the same
  declarative task sends nothing. Where a mode or an owner is asked for through a link
  the code sets it again on every run (section 6); there it says that nothing else is
  sent. A mode of 0777, which is a link's own, is not in the instance.
- `SuccessReachesTarget` compares the host with what the documentation of the module
  says, over calls that failed or were cut short at any command: the content, mode and
  owner of what a path leads to (an owner may be the link's), the mode 0644 of a unit
  file, what systemd has loaded. Only the last is left out, and only after a
  `daemon-reload` was lost with the unit file in place (section 6).
- `NoDebris`: a call removes its temporary files whichever command failed; only one that
  was cut short leaves any, and no later call adds to them.
- `NearestWins` also says that a map is taken as a whole from the nearest definition, but
  for a file and the entry beside it, which are merged.
- `AlwaysAttempted`, `FailuresKnown` (TaskLogic) read the history of the whole
  tree: a failure ends in the verdict unless an `ignore_errors` or a rescue that
  went well is around it. `HandlersHear` has both directions.
- `NothingStrays` (PushAgent) counts: every agent that is neither in use nor
  leaving, and every directory that is left, costs a remote command that went
  wrong or a crash. `OnceUnderItsChain`: what was asked for once is done at most
  once, by an agent whose certificates are not older than those at the moment
  of asking. `AgentsLeave` includes the death of the control host at any point.
- `SameChain` (SessionCA): processes that raced to build the CA end with one CA
  and a leaf that it issued. `LoadersEnd` (`LoadEnds` in the scene of the CA)
  includes a dead holder of the lock.
- `RecordsAgree` (ReleaseStore): a saved record is there until a command that
  names it takes it away; a single argument takes at most one record; a
  successful `del` left nothing of what it named.
- `PlanMeansRun` compares the trace of the plan, at any later moment, with that
  of the run it was compiled instead of, histories and not code being compared.
  `ShardsCover`: the shards of the agents, under any limit, cover exactly the
  hosts. `UninstallMatches`, `DriftIsTrue` relate a command to the run that wrote
  the marker, two edits ago. `UserIsTold` compares the confirmation with what the
  tasks do.

### Bounds, and why they are enough

Three goroutines are needed for a token to be contended while two others race
to publish. The safety properties of this module are proved for all numbers of
hosts, goroutines and tokens, so the run only has to carry liveness.
Two control hosts, two run_ids and two plans make every branch of `register`
reachable against a handler or goroutine of another run; `MaxDeaths = 1` gives a
life before and one after. Safety of `AgentRun` is proved for all values too.
The scene of the batches has every size expression that changes a branch, with up
to 9 hosts, so that defaults below and above four hosts, uneven last batches and
sizes larger than the play occur. The charts of `PlayExec` are the shortest in
which each of gate, hooks, handlers, `run_once`, `ignore_errors`, serial batches,
a second play, and rollback with a batch before it occur; three hosts give a
canary, a second batch of two, and one host that fails while the other does
not. The menu of `Rollback` has every branch of the modules' probes (create,
overwrite, attributes only, nothing, conflict) on files, links and directories;
two hosts with delegation give entries that live on another host than they
were made for. Two crashes allow a resumed run to be resumed again, the first
case in which a line lost or wrongly written by a *resumed* run can matter.
Three calls of a module are one that is cut, one that repairs and one that finds
nothing. Their paths are missing, a file, a directory, or a link to equal content, to
other content, to a directory and to nowhere; archives and unit files, which go through
the same upload, are there without links, unit files with the right mode and another.
systemd has loaded the unit file it finds before the first call, or the content differs
from what is asked for. The trees of `TaskLogic` have every construct inside every other that
treats its result differently, two levels deep; their safety is proved for all
trees, so that this run has to carry `TaskEnds` and the mutants. In `PushAgent` two lapses are a
failure and the failure of its repair; safety of operations is proved without
bounds. Three processes on the CA are a builder, one that takes over from a dead
builder, and one that reads between; the chain is proved for any number. Three
groups are the shortest ladder with a middle. The chart of the fleet scene has a
sub chart of a sub chart, entries, hooks of the phase and of another one, a
required and a sensitive value, a key the inventory may override, and files that
a plan carries, leaves out or is too small for.

### Fairness

`ConnManager`: a goroutine past its lookup is scheduled and its handshake ends
(dial timeouts), hence weak fairness of these steps; Go serves waiters of a
channel in order, so one that waits for a token that is freed again and again
gets it, hence strong fairness of `Acquire`. Nobody has to call `Get`,
`CloseAll` or cancel. `AgentRun`: handlers and goroutines run, a poller polls
on, and a dead agent is restarted by its supervisor; submitting, cancelling,
idling and dying are never forced. `PlayExec`: the executor and its workers
run, because modules have timeouts. `TaskLogic`: the goroutine of the host runs;
module calls have timeouts and `until` has its retries. `PushAgent`: the control
host goes on while it lives and closes at last (`CloseAll` is deferred), the
watchdog of an agent ticks, and its cleanup ends. `SessionCA`: each living
process is scheduled; that it gives up waiting for the lock is *not* assumed, so
`LoadersEnd` rests on the stale lock being taken away. No fairness is assumed in
`Rollback`, `ResumeRun`, `Converge`, `ReleaseStore`, `InventoryRun` and
`ChartLife`, which state safety only.

`ResumeRun`, `Converge`, `TaskLogic`, `PushAgent` and `Control_*` disable the
deadlock check: their behaviours really stop when everything has been done that
the bounds allow. `AgentRun` and `ConnManager` cannot deadlock (the runs check
it), and the terminal states of `PlayExec` and `Rollback` have an explicit
stuttering step.

## 4. Proofs

Eight modules hold proofs, which TLAPS checks from the modules as they are
model-checked:

| Module | Theorems (beside type correctness) | States what these runs check |
|---|---|---|
| `ConnManager_proofs` | `NothingLost`, `HandedOutConnections`, `TableIsStable` | `ConnManager_get` |
| `AgentRun_proofs` | `LeaseIsExclusive`, `PlanIsIdempotent`, `SuccessIsTrue`, `VerdictsAreFinal`, `AgentImplementsLease`, `AgentTellsTheTruth`, `WatchdogIsSafe` | both runs of `AgentRun` |
| `Control_proofs` | `OneChain`, `RecordsAreKept` | `Control_shared` |
| `PushAgent_proofs` | `CarriedOutOnce`, `NothingIsLeft` | `PushAgent_life` |
| `Batches_proofs` | `BatchesAreAsAsked` | `Control_shared` |
| `PlayExec_proofs` | `RolloutIsKept`, `HandlersDoMatch`, `BatchUndoneOrKept`, `MarkerIsTrue` | `PlayExec_charts` |
| `TaskLogic_proofs` | `FramesLinked`, `FailureScoped`, `AlwaysRuns`, `FailuresReach`, `HandlersHeard` | `TaskLogic_hosts` |
| `ResumeRun_proofs` | `NothingIsRedone`, `DoneIsApplied`, `OwnPlanIsSafe` | `ResumeRun_resume` |

They assume only the named assumptions of the modules and what a theorem itself
states, and cite the library's theorems about finite sets, sequences and
well-founded orders. Each inductive invariant was an invariant of a run of TLC
before it was proved.

**ConnManager**, for any sets of hosts, goroutines and objects and any number of
tokens (0 for no limit): `TypeCorrect`, `NothingLost`, `HandedOutConnections`,
`TableIsStable`. None of the properties is inductive. The invariant adds: who is
where holds what (`HoldsInv`: a dialled object exactly between `NewConnection`
and the end of `Get`), a dialled object is nobody else's and not in the table
(`PrivateInv`), an object in the table is open (`LinkInv`), an object in use is
that of the table until `CloseAll` (`HandedInv`), and hence shared (`SharedInv`,
needed because after `CloseAll` the table no longer says so). `TokenInv` says
that `sem` is the number of goroutines between `Acquire` and their release; its
three lemmas are about the cardinality of that set when one goroutine enters,
leaves or moves within it.

**AgentRun**, for any runs, plans, control hosts, submissions, with or without
failing writes and any number of deaths: `TypeCorrect`, `LeaseIsExclusive`,
`PlanIsIdempotent`, `SuccessIsTrue`, `VerdictsAreFinal`, and
`AgentImplementsLease`, the refinement. `OneConvergence` rests on `Lease`: a
running run is the current one, and whoever prepares or carries a run works on
a running one; `register` refuses while the current run is running. That a
handler's run is still running when it spawns the goroutine needs
`OnePreparer`. `SuccessIsReal` rests on `DoneIsReal`: "done" in memory, on
disk, on its way to either, or in a poller's hands is only ever that of a run
in `converged`; it is needed in all four places because a restart moves the
verdict from memory to disk.

Two theorems have a hypothesis about the instance. `AgentTellsTheTruth` takes
`Faults = FALSE` (no write of a run directory fails) and `OnePlanPerRun` (a run_id
stands for one plan: `autonomousRunID` derives it from the plan). Without the
first it is false: see `LeaseIsLive` in section 6. `TruthInv` adds what the
directory says at every place of handler and goroutine: it names a plan before
a state is written, and a goroutine past the verdict has written it.
`WatchdogIsSafe` takes `OneRun`, all submissions asking for one run_id. With two
it is false as well: `planActive` is one flag for all runs, and the deferred
`Store(false)` of one (`agent/apply.go:246`) can follow the `Store(true)` of the
next. The run `AgentRun_oneplan` is an instance of both hypotheses.

**SessionCA**, for any number of processes that may die and a CA that may expire:
`OneChain`. `SameChain` only speaks of the calm (nobody died, nothing expired),
and so does the invariant: as long as it is calm, who is between lock and unlock
holds the lock (`LockInv`: the stale lock is only taken from the dead); the pair
on disk is written by who found it missing, in the order certificate, key
(`PairInv`); and what anybody has read or issued came from the pair that is
there (`ChainInv`), which therefore is never wiped once it is whole. The first
part is what makes `DoneMeanwhile` meaningful: its mutant without the second look
breaks `PairInv`.

**ReleaseStore**, for any processes, jobs, charts and records: `RecordsAreKept`
(`RecordsAgree`). The three parts lean on one invariant, `RecordInv`. For what was
saved: `KeptInv`, a file that was created is there, with its content once it is saved,
or the history says who took it; the step that needs it is `Delete`, and there
`AskedInv` says that whatever is still to be deleted was asked for, and confirmed where
it must be. For the arguments: `CountInv`, what a command has removed and what it is
still to remove are together no more than its arguments; removing moves one from the
second to the first, and `Find` begins with at most one per argument. For a successful
`del`: `GoneInv`, what was there before and is named is gone or still to be deleted,
which at the end is nothing; it needs `StoredInv` and `StampInv`, that nobody writes a
record with the name of a stored one, because those are older than the clock. What
`Find` finds is a lemma of its own, `TargetsAre`: `InOrderIs` computes which elements
a selection of positions lists, with the induction of **Batches**, and `RecordOfIs` what
an argument stands for. The assumption is `RecordAssumption`: an argument that is an id
is a prefix of no other id (an id ends with the nanoseconds, of as many digits every
time), and the stored records are of the past and did not collide.

**PushAgent**, for any numbers of calls, bootstraps, ports, generations, lapses
and crashes: `CarriedOutOnce`. The two conjuncts need different invariants.
`OnceInv`: a call is carried out only at the place where it was just asked for,
and healing goes back to the bootstrap and not to that place. `ChainInv`: process
numbers are not given twice, the agent in use and the one that is probed have the
generation that the connection believes of them, and where an operation is sent
that is the generation it was asked under. Most steps change neither, which the lemma
`TargetKept` says once; there is one lemma for each of the others.

`NothingIsLeft` is a count. What runs for
nobody is `Strays`, and `Cardinality(Strays) <= lapses` alone is not inductive:
an agent in use can be forgotten by its pid file (`Nameless`: an answer that
was lost made a second one start in its directory) or is about to be (`Exposed`:
a leaving agent of the same directory will take the files with it), and is then
missed by `killAgent`. So the invariant counts `Strays`, `Nameless` and `Exposed`
together against the lapses: the step that makes a stray of a nameless agent pays
with what it was counted for. In the same way `KeyInv` counts `Orphans`,
directories with files and no process that will clean them, against lapses and
crashes. The directory of the connection may be one more, but not where it is about to
be left for a new one; `Sound` says that the agent in use will clean its directory or
that this is accounted for, and needs the order of the generations, because a
dead agent with older certificates is replaced before it is used or closed
away. `PcInv` and `NameInv` are the supports: where the connection has no agent,
numbers and pid files belong to one process.

**Batches**, for every sequence of hosts, strategy, size and list of sizes:
`BatchesAreAsAsked` (the batches joined are the hosts in their order, none is
empty, each has the size asked for). The loop of `splitBatches` is a recursive
function; that it exists and what it returns is proved with `Induction`,
`BoundedInduction` and `RecursiveFunction`, which state induction over a *set*
of numbers, and so without an operator as a parameter, from the
well-foundedness of the naturals. `Reach` is the argument: positions that advance
by at least one arrive at the end, and not before.

**PlayExec**, for every list of plays, any hosts, strategies, limits of workers
and outcomes of tasks, gates and replays. None of the four properties is inductive.
`FanInv`: workers are about only while the executor waits for them, and only on
hosts alive. `PlayInv`: the batches not begun are the last ones of those that
`MainBatches` cut (`Laid`, which is where `BatchesAreAsAsked` is used: a host is in one
batch), and the hosts at hand are those of the batch or of the play (`Placed`). `FailInv`,
`PassInv`, `LostInv`: where a failed play may be, who went through, who is lost; from
these follow `RolloutKept`, `UndoneOrKept` and `MarkerMeansDone`. `HandlerInv`
follows a change from the task to its handler: it is in `notified` while tasks run
(`Informed`), seen by the handlers already run (`Answered`), and nothing is left outside a
batch (`Settled`); backwards, who is notified has changed or is spoken for by a
`run_once` task (`Asked`).

**ResumeRun**, for any plans, numbers of crashes and failures, with or without torn
lines. `RunInv`: results at hand are those of the item under way. `KeptInv`: what has
a whole line is counted by `CompletedIdx`, and a resumed run skips it or is past it;
this gives `NothingIsRedone`. `EffectInv`: what the journal counts or a run skips is in
effect, because the number of a line leads back to the item it was written for; and
as long as nothing failed every item passed is in effect; this gives
`DoneIsApplied`. The hypotheses are what the code needs:
`KeysApart`, that a number stands for one item of a host, is what
`plan/compile.go:109` demands and the run `ResumeRun_late` violates;
`OnceAlone`, that a play with a `run_once` task has one host, because the task of a host
that dropped out is repeated on another, and a torn line of the host it ran on leaves
the lines of its copies; `NoUndo`, no `auto_rollback`, because what is undone keeps its
lines (section 6). For the shard of a host without a relay, `OwnPlanIsSafe` needs none
of the first two: `CounterIs` computes the numbers of `Compile`, `NumbersApart`
shows that no two items share one where every play ends with the same host. The
shard `own` of `ResumeRun_resume` is of that kind; its `relay` has two hosts and meets
the hypotheses of `DoneIsApplied`.

**TaskLogic**, for any tasks inside each other, any charts (also one that refers to
itself), any selection by tags and any depth. The properties speak of the history of
a task that is over, so the invariants say which frame on the stack still answers for
what the history has. The lemmas first sort the steps: in each of them the innermost
frame changes (`Turn`), a task begins in it (`Deepens`), it ends inside another
(`Pops`), or the run ends (`Closes`). `FramesLinked`: each frame is of a task in
the list its outer frame goes through, and at the position it is at; the history
only has places that this chain of frames leads to.
- `AlwaysRuns` (`AlwaysAttempted`) and `FailureScoped` are about one block. `AlwaysInv`: a
  block that was entered has attempted its `always` or is underway before it.
  `FailureScoped` says whose failure `block_failed` tells: that of a block around the
  place where it is read. `Holder` looks for this block on the stack also for the
  variables that a chart has put aside, which come back when the chart ends.
- `FailuresReach` (`FailuresKnown`): a failure in the history is excused (by an
  `ignore_errors`, or by a rescue that went well) or carried: the result of a
  frame on the stack has it, or its block remembers it (`FailInv`; `LostInv` is
  the same for a host that was lost, which nothing excuses).
- `HandlersHeard` (`HandlersHear`) compares `notified` with what the parts of each
  task changed, in both directions, so a frame must have added up exactly what its
  part of the history says: `SumsInv`, with `Raised`, `Caused` and `Counted` for the
  attempts of an item, the items and the tasks of a list. For this a task that begins
  must have no history yet. `HistoryInv` gives that: each path in the history through
  a frame went to a part of it that is over or to a task its list has come to
  (`Visited`), and those ahead are `Unbegun`; it is where one name per place is
  needed, because with the same task twice in a list the history of the first would be
  counted for the second. `Finished`: a task that ended is on the stack no more.
  `HeardInv` and `OwedInv` then settle whom a task notifies when it ends, and that
  nothing is added to its history later.

What stays with TLC, and why:

- liveness (`GetReturns`, `RunsEnd`, `RunEnds`, `TaskEnds`, `AgentsLeave`,
  `LoadersEnd`), which is out of the prover's reach;
- the modules with `RECURSIVE` operators, for which the prover has no arithmetic
  backend: `Inventory`, `InventoryRun`, `ChartValues`, `PlanFile`, `ChartLife`;
- `Rollback`, whose `BatchUndone` is a fact about its menu and not about every
  menu: a task that removes a directory, one that writes inside it and one that
  removes it again leave a snapshot inside the one before (section 6);
- `Converge`, whose interest lies in the menus of tasks and targets: a proof would
  go through them one by one, as TLC does.

Neither proved nor run: `run_once` tasks among several hosts of a resumed run, for
which `NoRedo` does not hold.

## 5. Abstractions

- `AgentRun` takes RunPlan as one step that succeeds or fails; `ResumeRun` is its
  inside, with one process life after the other and one plan per run directory
  (the control host derives the run_id from the plan_id). They are checked
  separately.
- The contents of plans, payloads and files are members of small sets; a template
  is what it yields; conditions (`when`, `until`, `changed_when`, `failed_when`)
  are open or fixed to one outcome or an error.
- `PlayExec`: the outcome of a gate per host is open, retries inside it are not
  modelled; a task's outcome is open, `TaskLogic` is its inside.
- `Rollback`: ownership is left out, mode stands for all attributes; `Converge` has
  mode and owner but no rollback.
- Semaphore `Forks`: how many workers are busy is bounded; which of the waiting
  ones starts next is open.
- A crash of the agent's machine may tear the last journal line only; earlier
  lines were synced.
- `Converge`: systemd, package managers, `usermod` and the shell are modelled by
  what the modules rely on; a command that works has its whole effect, one that
  fails has none. A link leads to one that is none; temporary names of different calls
  do not collide.
- `PushAgent`: a bootstrap has a fresh suffix (random in the code, without
  collisions here); the platform probe and the choice of the binary are one step
  that may fail; uploads are whole or absent. The certificates are a generation.
- `SessionCA`: a lock counts as stale when its holder is dead; the minute of
  modification time is not counted, so a living process that holds the lock
  longer than a minute does not occur (building two keys takes less). One leaf
  stands for server and client; files are renamed into place and never torn. The
  certificate and the key of the CA are read in one step: the code reads them one after
  the other, and a writer in between can only make a pair that does not fit, which is an
  error like the missing key that the model has between two writes; a pair that fits was
  the pair at some moment.
- `ReleaseStore`: names and patterns of records are what they hit, and the clock
  may give the same time twice.
- `Inventory`: names are numbers in the order of the names; ranges, regular
  expressions and `!`, `&` in patterns are segments that name sets of hosts. A key of
  `MapKeys` has a map wherever it is defined, any other key never.
- `ChartValues`, `PlanFile`: values are trees with opaque leaves, digests are the
  values they are taken of; files of a chart have a size, of which plan and
  package have a maximum.

## 6. Disagreements between code and documentation

Shown by runs (see "findings" for the lines):

1. `ResumeRun_late`: `RunPlan` numbers all hosts of a play like the last one; a
   resumed run can skip a task that never ran and say "done".
2. `Control_hooks`: the compiler compares the hook of a task as it is written
   (`plan/compile.go:188`), the executor normalises it first. `splitHooks` has no
   default case, so a `pre_deploy` task is neither hook nor main task: it is missing
   from the compiled plan and never runs.

Stated in the modules as definitions that no run checks; TLC finds them violated
when they are added to the named run:

- `LeaseIsLive` under refused or failing submissions (`AgentRun_faults`): an
  error return after `register` (`agent/apply.go:179`) leaves the run "running"
  with nobody at work; all other plans are refused, and cancelling has no effect,
  until the process restarts.
- `PollEnds` (`AgentRun_oneplan`): after a crash the state file says "running" for
  ever and `pollSubmissions` (`cli/applyauto.go:239`) never ends.
- `MarkerAfterSuccess` (`PlayExec` with the chart `InstallAndStart`): a later play
  writes the release marker although an earlier one failed (`executor/play.go:162`).
- `FullyRestored` (`Rollback_batch`): the second overwrite of a file in a batch
  replaces its snapshot, and the middle version is restored
  (`module/rollback.go:36`); restoring a link to a directory copies into that
  directory; a directory deleted and made again is restored into itself; changes
  of two hosts to one path of a delegated host are undone host by host, not in
  reverse order; a change of attributes alone registers nothing.
- `RescueSeesFailure` (`TaskLogic_hosts`): a nested block deletes the
  `block_failed` of the outer one (`executor/expand.go:205`), which
  docs/05:136 promises to rescue tasks.
- `TagsReachInside` (`TaskLogic_hosts`): the tags a block inherits from the block
  around it are lost further in.
- `ExpiredIsRebuilt` (`SessionCA`): a CA that has expired is loaded with an error
  and never rebuilt (`pushcerts/pushcerts.go:130-163`).
- `KeyFits` (`SessionCA`): two processes issue the leaf at the same time
  (`pushcerts/pushcerts.go:208`) and one reads the certificate of the one with the
  key of the other; the same after a crash between the two files.

Met while modelling, and excluded from the passing runs by the instance or by
the wording of a property, for the reader to know.

*Agent.* With two plans, the deferred `planActive.Store(false)` of a finished run
(`agent/apply.go:246`) can follow the `Store(true)` of the next and expose it to
the watchdog; `WatchdogSparesRun` is checked for one plan. Between a positive
`idleExpired` (`agent/server.go:237`) and the end of the shutdown a submission may
still be accepted and is then lost with the process.

*Play execution.* A host that was rolled back with its batch though its own tasks
went well is not dead and takes part in later plays (`executor/hosts.go:44`).
A handler that notifies a handler collected before it is not looked at
(`executor/handlers.go:44`). Markers that cannot be written on some hosts are
only announced when all fail (`executor/marker.go:20`). Tasks undone by a rollback
keep their journal lines, so that a resumed run skips them (the shards of
`ResumeRun_resume` have no rollback); a crash between a change and its handler
loses the handler; a `run_once` task whose host drops out before the crash is
repeated on another one; the first line after a torn one is lost with it, and its
task is repeated (`NoRedo` counts whole lines).

*Task logic.* A change made by a failed attempt of `retries` is not notified when
the last attempt changes nothing; a block ignores its own `register` and `notify`;
failures that were rescued are still counted as failures of the host's statistics.

*Modules.* `user` that names `groups` and moves the primary group to or from one of
them needs a second run (`module/user.go:269` compares with the groups of before); a `daemon-reload` that failed
or was cut short after the unit file was written, or its mode set, is not repeated
(`module/systemdunit.go:198`), because the file is then no change any more;
`unarchive` may create its own `creates:` marker and skip the rest after a cut;
`copy` and `lineinfile` without an owner make a file they write one of the login
user, whoever had it, and `lineinfile` in check mode ignores the owner; a `regexp` of `lineinfile` that
does not match the line it writes adds the line again; `artifact` in check mode
cannot know what an address has that is not in the cache; `script` notices an
unterminated quote after the upload (`module/script.go:58`), when check mode has already
said "changed" (`module/script.go:42`).

*Temporary files.* What a module removes with a deferred command stays on the host when
the task times out or the run is cancelled, although the connection is alive, because the
command runs under the same context (`executor/exec.go:42`, `module/script.go:50`,
`module/unarchive.go:157`, where a comment accepts it). The same goes for an unfinished
upload over SSH (`conn/sshc/transfer.go:119`); an agent removes its own.

*Links.* The checksum of a path follows a link (`module/fileops.go:31`), its mode and
owner are read from the link itself (`module/fileops.go:185`, `module/file.go:313`) and
set on what it leads to. So `copy`, `template` and `get_url` onto a link to the right
content, and `file` on a link, `state: link` included, report a change on every run if
they ask for a mode or an owner that is not the link's; and a mode of 0777 asked for
through a link is never set. `file` with a mode on a link to nowhere fails ("path does
not exist") where check mode foresees none of it. Where the content differs, `copy`,
`template`, `get_url` and `lineinfile` replace the link by a file; `lineinfile` then
gives it the link's mode, 0777, though its documentation says that existing files keep
theirs (`module/lineinfile.go:40`), and a backup of a link is a link.

*Push channel and certificates.* A heal leaves the old binary and keys behind when
the old agent is dead (`conn/push/heal.go:43`; they count as a lapse or a crash in
`NothingStrays`); a dropped SSH session is not redialled when there is no agent;
`killAgent` with a cancelled context kills nothing; `cert_rotate_min` (docs/02:38,
docs/04:247) announces a new trust chain per period, while a valid CA of the
directory is reused.

*Records.* A record whose name collided holds the id without the suffix
(`release/release.go:59`, `69`), so that `del` and `show` address the other file; a
crash before the content leaves an empty record that no command lists.

*Inventory.* Groups are visited in the order of their names, `all` among them,
where a comment says first (`inventory/build.go:30`); docs/03:35 says that the
variables of a host in several groups are merged deep: they are between inventory files
and with `group_vars` and `host_vars` (`inventory/inventory.go:132`), but the entries of a
host in several files (`inventory/inventory.go:102`) or groups (`inventory/build.go:199`),
and its groups over each other (`inventory/vars.go:20`), are merged shallow; `group_names` of a host added at run time lacks
the ancestors, and `group_by` does not change it; `SelectPlays` drops the errors
of patterns and of the limit (`inventory/select.go:89`, `108`).

*Charts, plans, commands.* The marker stores the values of the chart without what
`inventory_override` puts over them; a direct uninstall applies the present
override, a plan the marker's value (`executor/batch.go:75`). A phase that writes a
marker and takes its values from markers writes one arbitrary host's values to
all (`cli/run.go:316`). `plan/compile.go:224` puts `inventory_override` into
the values from which sub charts take their scope, a direct run does not, as
docs/08:65 says. `byIdx` keeps the last shard of a play where the
comment says the first (`executor/planrun.go:134`). docs/08:324 says that the plan
snapshot is redacted; `plan/compile.go:103` stores the values as they are.
`plan.Load` turns integers beyond 2^53 into their neighbours (`plan/plan.go:265`).
`drift.ValuesDiff` compares interface values with `!=`, which panics on lists
(`drift/drift.go:170`). Reversibility ignores the handlers of a sub chart's other
phases that a run may notify. `wdp plan` of a phase whose values come from the
chart does not refuse zero hosts, `wdp run` does (`cli/run.go:269`). `play_hosts`
in a shard are the hosts of the shard. An upgrade that changes `sensitive_values`
makes every host `DRIFTED`.

## 7. Plan and what is not modelled

Done: every module of section 2 with its runs, and the proofs of section 4.

Worth doing next: the journal cursor of the status endpoint within `AgentRun`
(`agent/apply.go:355`), hook batches in the rollback of `PlayExec`, and
`DoneIsApplied` for `run_once` tasks among several hosts that never drop out.

Not modelled, and why:

- **Playbooks** (`playbook`): decoding of YAML into plays and tasks; no state and
  no decision but syntax errors.
- **Agent operations and endpoints** (`agentops`, `agentbin`, exec, file and log
  endpoints): install, renewal and retirement are fixed sequences of remote
  commands on one host, each of which ends the command when it fails; the
  endpoints hold no state between requests.
- **Rendering and formatting** (`render`, `fmtutil`, `report`): the template engine
  and output, no state of their own.
- **Configuration and helpers**: parsing, quoting, test doubles, data types.
- Within the modelled components: the parsing of host lines and ranges, packing,
  linting and documentation of charts, the encoding of a plan file, the fields of
  certificates and the `ca` commands, TLS and SSH themselves, `wait_for`, `setup`,
  `set_fact`, `debug` and `stat`, which change nothing of a host.
