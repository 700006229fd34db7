------------------------------ MODULE AgentRun ------------------------------
(***************************************************************************)
(* Autonomous runs on one agent (src/internal/agent/apply.go, server.go,   *)
(* clean.go) and the control hosts that submit them and poll               *)
(* (src/internal/cli/applyauto.go).                                        *)
(*                                                                         *)
(* A submit handler registers the run, persists it step by step and spawns *)
(* the goroutine that converges; the goroutine publishes the verdict in    *)
(* memory, then on disk, then drops its cancel function and the planActive *)
(* flag.  Status and cancel requests, the idle watchdog, other submissions *)
(* and the death of the process fall between any two of these steps.  What *)
(* the plan itself does is module ResumeRun; here RunPlan is one step.     *)
(***************************************************************************)
EXTENDS Naturals, FiniteSets

CONSTANTS Runs,          \* run_id values
          Plans,         \* plan_id values
          Clients,       \* control hosts, each with one request in flight
          None,
          Submissions,   \* the [run, plan, resume] triples clients may send
          Faults,        \* TRUE: a write of a submit handler may fail
          Watchdogs,     \* {"off"}: no idle timeout; {"ticking"}: with one; or both
          MaxDeaths      \* bound on ends of the process

ASSUME AgentAssumption ==
  /\ None \notin Runs \cup Plans
  /\ Submissions \subseteq [run : Runs, plan : Plans, resume : BOOLEAN]
  /\ Faults \in BOOLEAN
  /\ MaxDeaths \in Nat

ASSUME WatchdogAssumption == Watchdogs \subseteq {"off", "ticking"} /\ Watchdogs # {}

VARIABLES up, deaths,            \* the process lives; how often it ended
          plan, state, cancel,   \* planRun of each run_id (plan None: unknown)
          byPlan, current,       \* planManager
          active,                \* Server.planActive
          task,                  \* where the goroutine of each run is
          pc, want,              \* where each submit handler is, its request
          idle,                  \* lastActive is older than the idle timeout
          watchdog,              \* watchIdle
          diskState, diskPlan,   \* run directory: state, plan.id
          poll,                  \* what pollSubmissions thinks of each run
          converged              \* ghost: runs executed without failure

process == <<up, deaths>>
table == <<plan, byPlan, current>>
handler == <<pc, want>>
disk == <<diskState, diskPlan>>
client == <<poll, converged>>
vars == <<process, table, state, cancel, active, task, handler, idle, watchdog,
          disk, client>>

Terminal == {"done", "failed", "cancelled"}

(* The steps a handler takes after it created the run, up to its spawn.    *)
Persisting == {"makedir", "check", "planid", "state", "arm", "spawn"}

(* The steps of a goroutine that still converges hosts.                    *)
Converging == {"open", "exec"}

(* RunPlan returned; ctx.Err() has not been asked yet.                     *)
Judging == {"judgeOk", "judgeFailed"}

RunStates == {"none", "running"} \cup Terminal

TaskSteps == Converging \cup Judging \cup Terminal
               \cup {"none", "toDisk", "dropCancel", "dropActive"}

HandlerSteps == {"idle", "register", "reply"} \cup Persisting

DiskStates == {"", "running"} \cup Terminal

Running(r) == state[r] = "running"

(* Mutant of Known: a run_id that ended may be used again.                 *)
KnownWhileRunning(r) == plan[r] # None /\ Running(r)

Known(r) == plan[r] # None

Inflight == \E c \in Clients : pc[c] # "idle"

TypeOK ==
  /\ up \in BOOLEAN /\ active \in BOOLEAN /\ idle \in BOOLEAN
  /\ deaths \in 0..MaxDeaths
  /\ plan \in [Runs -> Plans \cup {None}]
  /\ state \in [Runs -> RunStates]
  /\ cancel \in [Runs -> {"nil", "armed", "called"}]
  /\ byPlan \in [Plans -> Runs \cup {None}]
  /\ current \in Runs \cup {None}
  /\ task \in [Runs -> TaskSteps]
  /\ pc \in [Clients -> HandlerSteps]
  /\ want \in [Clients -> Submissions \cup {None}]
  /\ watchdog \in {"off", "ticking", "shutdown"}
  /\ diskState \in [Runs -> DiskStates]
  /\ diskPlan \in [Runs -> Plans \cup {None}]
  /\ poll \in [Runs -> {"none", "pending", "ok", "bad"}]
  /\ converged \subseteq Runs

Init ==
  /\ up = TRUE
  /\ deaths = 0
  /\ plan = [r \in Runs |-> None]
  /\ state = [r \in Runs |-> "none"]
  /\ cancel = [r \in Runs |-> "nil"]
  /\ byPlan = [p \in Plans |-> None]
  /\ current = None
  /\ active = FALSE
  /\ task = [r \in Runs |-> "none"]
  /\ pc = [c \in Clients |-> "idle"]
  /\ want = [c \in Clients |-> None]
  /\ idle = FALSE
  /\ watchdog \in Watchdogs
  /\ diskState = [r \in Runs |-> ""]
  /\ diskPlan = [r \in Runs |-> None]
  /\ poll = [r \in Runs |-> "none"]
  /\ converged = {}

-----------------------------------------------------------------------------
(* The submit handler.                                                     *)

Goto(c, step) == pc' = [pc EXCEPT ![c] = step] /\ UNCHANGED <<want, idle>>

(* The handler answers and trackActivity counts it out.                    *)
Answer(c) ==
  /\ pc' = [pc EXCEPT ![c] = "idle"]
  /\ want' = [want EXCEPT ![c] = None]
  /\ idle' = FALSE

(* A request arrives (trackActivity) and passes the checks that touch no   *)
(* state: run_id form, content hash, no self-update.                       *)
Submit(c, s) ==
  /\ up
  /\ pc[c] = "idle"
  /\ pc' = [pc EXCEPT ![c] = "register"]
  /\ want' = [want EXCEPT ![c] = s]
  /\ idle' = FALSE
  /\ UNCHANGED <<process, table, state, cancel, active, task, watchdog, disk, client>>

(* Mutants of register's two guards: no lease; no look at byPlan.          *)
NoLease == FALSE
AnyRunId(s) == FALSE

(* planManager.register, under its mutex.  current.state is read without   *)
(* run.mu: the racing finish is seen or not, which are the two orders of   *)
(* FinishInMemory and this step.                                           *)
LeaseHeld == \E r \in Runs : r = current /\ Running(r)

OtherRun(s) == byPlan[s.plan] \notin {None, s.run}

Create(s) ==
  /\ plan' = [plan EXCEPT ![s.run] = s.plan]
  /\ state' = [state EXCEPT ![s.run] = "running"]
  /\ cancel' = [cancel EXCEPT ![s.run] = "nil"]
  /\ byPlan' = [byPlan EXCEPT ![s.plan] = s.run]
  /\ current' = s.run

Register(c) ==
  /\ pc[c] = "register"
  /\ LET s == want[c] IN
     \/ /\ OtherRun(s) \/ plan[s.run] = s.plan     \* idempotent resubmission
        /\ Goto(c, "reply")
        /\ UNCHANGED <<table, state, cancel>>
     \/ /\ ~OtherRun(s)
        /\ Known(s.run)
        /\ plan[s.run] # s.plan                     \* run_id of another plan
        /\ Answer(c)
        /\ UNCHANGED <<table, state, cancel>>
     \/ /\ ~OtherRun(s)
        /\ ~Known(s.run)
        /\ LeaseHeld
        /\ Answer(c)
        /\ UNCHANGED <<table, state, cancel>>
     \/ /\ ~OtherRun(s)
        /\ ~Known(s.run)
        /\ ~LeaseHeld
        /\ Create(s)
        /\ Goto(c, "makedir")
  /\ UNCHANGED <<process, active, task, watchdog, disk, client>>

(* Everything up to the spawn may fail: the handler then answers with an   *)
(* error and nothing undoes the registration.                              *)
WriteFails(c) == Faults /\ Answer(c)

(* MkdirAll and plan.json.                                                 *)
MakeDir(c) ==
  /\ pc[c] = "makedir"
  /\ Goto(c, "check") \/ WriteFails(c)
  /\ UNCHANGED <<process, table, state, cancel, active, task, watchdog, disk, client>>

(* With resume: the run directory must hold no plan or this one.           *)
CheckResume(c) ==
  /\ pc[c] = "check"
  /\ LET s == want[c]
         other == s.resume /\ diskPlan[s.run] \notin {None, s.plan}
     IN \/ ~other /\ Goto(c, "planid")
        \/ other /\ Answer(c)
        \/ s.resume /\ WriteFails(c)
  /\ UNCHANGED <<process, table, state, cancel, active, task, watchdog, disk, client>>

WritePlanId(c) ==
  /\ pc[c] = "planid"
  /\ \/ /\ diskPlan' = [diskPlan EXCEPT ![want[c].run] = want[c].plan]
        /\ Goto(c, "state")
     \/ /\ WriteFails(c)
        /\ UNCHANGED diskPlan
  /\ UNCHANGED <<process, table, state, cancel, active, task, watchdog,
                 diskState, client>>

WriteState(c) ==
  /\ pc[c] = "state"
  /\ \/ /\ diskState' = [diskState EXCEPT ![want[c].run] = "running"]
        /\ Goto(c, "arm")
     \/ /\ WriteFails(c)
        /\ UNCHANGED diskState
  /\ UNCHANGED <<process, table, state, cancel, active, task, watchdog,
                 diskPlan, client>>

(* run.cancel = cancel, under run.mu.                                      *)
Arm(c) ==
  /\ pc[c] = "arm"
  /\ cancel' = [cancel EXCEPT ![want[c].run] = "armed"]
  /\ Goto(c, "spawn")
  /\ UNCHANGED <<process, table, state, active, task, watchdog, disk, client>>

(* planActive.Store(true); go runPlanAsync.                                *)
Spawn(c) ==
  /\ pc[c] = "spawn"
  /\ active' = TRUE
  /\ task' = [task EXCEPT ![want[c].run] = "open"]
  /\ Goto(c, "reply")
  /\ UNCHANGED <<process, table, state, cancel, watchdog, disk, client>>

(* The accepted response; the control host starts (or goes on) polling     *)
(* the run_id it derived itself, not the one in the response.              *)
Reply(c) ==
  /\ pc[c] = "reply"
  /\ poll' = [poll EXCEPT ![want[c].run] = "pending"]
  /\ Answer(c)
  /\ UNCHANGED <<process, table, state, cancel, active, task, watchdog, disk,
                 converged>>

Handle(c) == \/ Register(c) \/ MakeDir(c) \/ CheckResume(c) \/ WritePlanId(c)
             \/ WriteState(c) \/ Arm(c) \/ Spawn(c) \/ Reply(c)

-----------------------------------------------------------------------------
(* runPlanAsync.                                                           *)

Move(r, step) == task' = [task EXCEPT ![r] = step]

OpenJournal(r) ==
  /\ task[r] = "open"
  /\ Move(r, "exec") \/ (Faults /\ Move(r, "failed"))
  /\ UNCHANGED <<process, table, state, cancel, active, handler, idle, watchdog,
                 disk, client>>

(* RunPlan returns; a run that was not cancelled may do so either way, a   *)
(* cancelled one too (the executor may be past its last check).            *)
Execute(r) ==
  /\ task[r] = "exec"
  /\ \/ Move(r, "judgeOk") /\ converged' = converged \cup {r}
     \/ Move(r, "judgeFailed") /\ UNCHANGED converged
  /\ UNCHANGED <<process, table, state, cancel, active, handler, idle, watchdog,
                 disk, poll>>

(* Mutant of Verdict: failures are not looked at.                          *)
VerdictBlind(r) == IF cancel[r] = "called" THEN "cancelled" ELSE "done"

(* ctx.Err() is asked before the result of the plan is.                    *)
Verdict(r) ==
  IF cancel[r] = "called" THEN "cancelled"
  ELSE IF task[r] = "judgeFailed" THEN "failed" ELSE "done"

Judge(r) ==
  /\ task[r] \in Judging
  /\ Move(r, Verdict(r))
  /\ UNCHANGED <<process, table, state, cancel, active, handler, idle, watchdog,
                 disk, client>>

(* Mutant of Published: a cancelled run is left to the cancel handler.     *)
PublishedUnlessCancelled(r) ==
  IF Running(r) /\ task[r] # "cancelled" THEN task[r] ELSE state[r]

(* Only a running run takes the verdict.                                   *)
Published(r) == IF Running(r) THEN task[r] ELSE state[r]

(* planRun.finish, first half: the verdict in memory, under run.mu.        *)
FinishInMemory(r) ==
  /\ task[r] \in Terminal
  /\ state' = [state EXCEPT ![r] = Published(r)]
  /\ Move(r, "toDisk")
  /\ UNCHANGED <<process, table, cancel, active, handler, idle, watchdog, disk,
                 client>>

(* Mutant of FinishOnDisk: only a success reaches the run directory.       *)
FinishOnDiskIfDone(r) ==
  /\ task[r] = "toDisk"
  /\ diskState' = [diskState EXCEPT ![r] = IF state[r] = "done" THEN state[r] ELSE @]
  /\ Move(r, "dropCancel")
  /\ UNCHANGED <<process, table, state, cancel, active, handler, idle, watchdog,
                 diskPlan, client>>

(* finish, second half; its error is dropped.                              *)
FinishOnDisk(r) ==
  /\ task[r] = "toDisk"
  /\ \/ diskState' = [diskState EXCEPT ![r] = state[r]]
     \/ Faults /\ UNCHANGED diskState
  /\ Move(r, "dropCancel")
  /\ UNCHANGED <<process, table, state, cancel, active, handler, idle, watchdog,
                 diskPlan, client>>

(* The deferred functions, last registered first.                          *)
DropCancel(r) ==
  /\ task[r] = "dropCancel"
  /\ cancel' = [cancel EXCEPT ![r] = "nil"]
  /\ Move(r, "dropActive")
  /\ UNCHANGED <<process, table, state, active, handler, idle, watchdog, disk,
                 client>>

DropActive(r) ==
  /\ task[r] = "dropActive"
  /\ active' = FALSE
  /\ Move(r, "none")
  /\ UNCHANGED <<process, table, state, cancel, handler, idle, watchdog, disk,
                 client>>

Goroutine(r) == \/ OpenJournal(r) \/ Execute(r) \/ Judge(r) \/ FinishInMemory(r)
                \/ FinishOnDisk(r) \/ DropCancel(r) \/ DropActive(r)

-----------------------------------------------------------------------------
(* Status, cancel, the watchdog and the process.                           *)

(* handlePlanStatus: memory when the run is known, else what is on disk.   *)
Status(r) == IF Known(r) THEN state[r] ELSE diskState[r]

(* One round of pollSubmissions that ends it: an error (agent down,        *)
(* unknown run) and "running" are retried.                                 *)
Poll(r) ==
  /\ up
  /\ poll[r] = "pending"
  /\ Status(r) \in Terminal
  /\ poll' = [poll EXCEPT ![r] = IF Status(r) = "done" THEN "ok" ELSE "bad"]
  /\ idle' = FALSE
  /\ UNCHANGED <<process, table, state, cancel, active, task, handler, watchdog,
                 disk, converged>>

CancelRun(r) ==
  /\ up
  /\ Running(r)
  /\ cancel[r] # "nil"
  /\ cancel' = [cancel EXCEPT ![r] = "called"]
  /\ idle' = FALSE
  /\ UNCHANGED <<process, table, state, active, task, handler, watchdog, disk,
                 client>>

(* The idle period passes with no authenticated request.                   *)
Elapse ==
  /\ up /\ watchdog # "off" /\ ~idle
  /\ idle' = TRUE
  /\ UNCHANGED <<process, table, state, cancel, active, task, handler, watchdog,
                 disk, client>>

(* Mutant of IdleExpired: a convergence does not count as activity.        *)
NoRequest == ~Inflight /\ idle

(* It reads lastActive last, so a request that slips in between two of the *)
(* loads is noticed: the three are one step.                               *)
IdleExpired == ~Inflight /\ ~active /\ idle

(* A tick of watchIdle that enters initiateShutdown.                       *)
WatchIdle ==
  /\ up
  /\ watchdog = "ticking"
  /\ IdleExpired
  /\ watchdog' = "shutdown"
  /\ UNCHANGED <<process, table, state, cancel, active, task, handler, idle, disk,
                 client>>

(* newPlanManager and a Server with no request served yet.                 *)
FreshProcess ==
  /\ plan' = [r \in Runs |-> None]
  /\ state' = [r \in Runs |-> "none"]
  /\ cancel' = [r \in Runs |-> "nil"]
  /\ byPlan' = [p \in Plans |-> None]
  /\ current' = None
  /\ active' = FALSE
  /\ task' = [r \in Runs |-> "none"]
  /\ pc' = [c \in Clients |-> "idle"]
  /\ want' = [c \in Clients |-> None]
  /\ idle' = FALSE
  /\ watchdog' = IF watchdog = "off" THEN "off" ELSE "ticking"

(* The process ends: the watchdog's shutdown, or a crash at any point.     *)
(* Clients see a broken connection, the run directory stays.               *)
Die ==
  /\ up
  /\ watchdog = "shutdown" \/ deaths < MaxDeaths
  /\ up' = FALSE
  /\ deaths' = IF deaths < MaxDeaths THEN deaths + 1 ELSE deaths
  /\ FreshProcess
  /\ UNCHANGED <<disk, client>>

Restart ==
  /\ ~up
  /\ up' = TRUE
  /\ UNCHANGED <<deaths, table, state, cancel, active, task, handler, idle,
                 watchdog, disk, client>>

Next ==
  \/ \E c \in Clients : Handle(c) \/ \E s \in Submissions : Submit(c, s)
  \/ \E r \in Runs : Goroutine(r) \/ Poll(r) \/ CancelRun(r)
  \/ Elapse \/ WatchIdle \/ Die \/ Restart

Spec == Init /\ [][Next]_vars

(* Handlers and goroutines are scheduled, control hosts keep polling and a *)
(* dead agent is restarted; nobody has to submit, cancel, idle or die.     *)
FairSpec ==
  /\ Spec
  /\ \A c \in Clients : WF_vars(Handle(c))
  /\ \A r \in Runs : WF_vars(Goroutine(r)) /\ WF_vars(Poll(r))
  /\ WF_vars(Restart)

-----------------------------------------------------------------------------
(* Who writes the run directory and the hosts of run r: its handler up to  *)
(* the spawn, then its goroutine until the verdict is published.           *)
Preparing(c, r) == pc[c] \in Persisting /\ want[c].run = r

Carrying(r) == task[r] \in Converging \cup Judging \cup Terminal

(* "journal is the lease": two submissions, of one plan or of two, of one  *)
(* run_id or of two, never prepare or converge at the same time.           *)
OneConvergence ==
  /\ \A r, s \in Runs : Carrying(r) /\ Carrying(s) => r = s
  /\ \A c, d \in Clients : \A r, s \in Runs :
       Preparing(c, r) /\ Preparing(d, s) => c = d
  /\ \A c \in Clients : \A r, s \in Runs : ~(Preparing(c, r) /\ Carrying(s))

(* The lease is not orphaned: while a run is "running" somebody is at work *)
(* on it, so the refusal "another run is still executing" is the truth.    *)
LeaseIsLive ==
  \A r \in Runs : Running(r) => Carrying(r) \/ \E c \in Clients : Preparing(c, r)

(* The idempotency keys agree: a plan converges under one run_id only, the *)
(* one byPlan names.                                                       *)
PlanHasOneRun ==
  \A r \in Runs : Known(r) => byPlan[plan[r]] = r

(* When nobody works on a known run, the run directory tells the same      *)
(* story as the memory: a restart changes no answer of GET /plan/status.   *)
DiskAgrees ==
  \A r \in Runs :
     Known(r) /\ task[r] \in {"none", "dropCancel", "dropActive"} /\ ~Running(r)
     => diskState[r] = state[r] /\ diskPlan[r] = plan[r]

(* What the agent says of a run is true: "running" has a worker, and an end *)
(* is on the disk as in memory.                                            *)
SaysTheTruth == LeaseIsLive /\ DiskAgrees

(* A control host that exits with success saw a plan that was executed     *)
(* without failure, restarts and resubmissions notwithstanding.            *)
SuccessIsReal == \A r \in Runs : poll[r] = "ok" => r \in converged

(* A verdict is final as long as the process lives: a late cancel or a     *)
(* resubmission does not reopen or relabel a finished run.                 *)
VerdictIsFinal ==
  [][\A r \in Runs : state[r] \in Terminal /\ up' => state'[r] = state[r]]_vars

(* Seen from outside, the registry hands out one lease at a time: module   *)
(* RunLease, with what RunPlan achieved as the ghost.                      *)
Registry == INSTANCE RunLease WITH finished <- converged

(* All of register, runPlanAsync, finish and cancel together keep to that: *)
(* every step is a step of RunLease or none.                               *)
ImplementsLease == Registry!Spec

(* The watchdog does not end a process whose agent is converging a plan    *)
(* ("running 期间不得自杀").                                                *)
WatchdogSparesRun ==
  [][watchdog' # watchdog /\ up' => \A r \in Runs : task[r] \notin Converging]_vars

(* An accepted run ends, by a verdict or with its process.                 *)
RunEnds == \A r \in Runs : Running(r) ~> ~Running(r)

(* The control host that polls an accepted run learns its end              *)
(* ("轮询全部提交直到终态").                                                *)
PollEnds == \A r \in Runs : poll[r] = "pending" ~> poll[r] # "pending"

(* The same of a resident agent whose process does not die: whatever is    *)
(* cancelled, resubmitted or refused, every poller gets its answer.        *)
PollEndsIfAlive ==
  \A r \in Runs : poll[r] = "pending" ~> \/ poll[r] # "pending"
                                          \/ deaths > 0 \/ watchdog # "off"

(* A run ends on the agent, and the control hosts that wait for it hear it. *)
RunsEnd == RunEnds /\ PollEndsIfAlive
=============================================================================
