--------------------------- MODULE AgentRun_proofs ---------------------------
(***************************************************************************)
(* Safety of AgentRun for any run_ids, plans, control hosts, submissions   *)
(* and failures: the lease is exclusive, a plan has one run, a verdict is  *)
(* final and a reported success is a real one.                             *)
(***************************************************************************)
EXTENDS AgentRun, TLAPS

(* A handler past its entry checks works for a run and a plan.             *)
Requests ==
  \A c \in Clients : pc[c] # "idle" => want[c] \in Submissions

(* Why the lease is exclusive: whoever prepares or carries a run keeps it  *)
(* "running", only the current run is, and a run is created once.          *)
RunningIsCurrent == \A r \in Runs : Running(r) => current = r

KnownHasState == \A r \in Runs : Known(r) <=> state[r] # "none"

UnknownHasNoTask == \A r \in Runs : ~Known(r) => task[r] = "none"

CarriedIsRunning == \A r \in Runs : Carrying(r) => Running(r)

PreparedIsRunning ==
  \A c \in Clients : \A r \in Runs : Preparing(c, r) => Running(r) /\ task[r] = "none"

OnePreparer ==
  \A c, d \in Clients : \A r \in Runs : Preparing(c, r) /\ Preparing(d, r) => c = d

Lease == /\ RunningIsCurrent /\ KnownHasState /\ UnknownHasNoTask
         /\ CarriedIsRunning /\ PreparedIsRunning /\ OnePreparer

(* Every place a "done" can be read from goes back to an execution.        *)
DoneIsReal ==
  /\ \A r \in Runs : task[r] \in {"judgeOk", "done"} => r \in converged
  /\ \A r \in Runs : state[r] = "done" => r \in converged
  /\ \A r \in Runs : diskState[r] = "done" => r \in converged
  /\ SuccessIsReal

IInv == TypeOK /\ Requests /\ Lease /\ PlanHasOneRun /\ DoneIsReal

HandlerTypes ==
  /\ pc \in [Clients -> HandlerSteps]
  /\ want \in [Clients -> Submissions \cup {None}]
  /\ idle \in BOOLEAN

(* A handler goes on or answers: its own variables keep their types. *)
LEMMA HandlerMoves ==
  ASSUME NEW c \in Clients, NEW s \in HandlerSteps, HandlerTypes, Goto(c, s) \/ Answer(c)
  PROVE  HandlerTypes'
<1> USE DEF HandlerTypes, HandlerSteps, Persisting
<1>1. CASE Goto(c, s)
  BY <1>1 DEF Goto
<1>2. CASE Answer(c)
  BY <1>2 DEF Answer
<1> QED
  BY <1>1, <1>2

(* Types are kept by every step. *)
LEMMA NextTypes == IInv /\ [Next]_vars => TypeOK'
<1> SUFFICES ASSUME IInv, [Next]_vars PROVE TypeOK'
  OBVIOUS
<1>a. /\ TypeOK
  BY DEF IInv, Lease, TypeOK
<1>b. \A c \in Clients : pc[c] # "idle" => want[c].run \in Runs /\ want[c].plan \in Plans
  BY AgentAssumption DEF IInv, Requests
<1>c. HandlerTypes
  BY <1>a DEF TypeOK, HandlerTypes
<1>d. {"register", "reply", "makedir", "check", "planid", "state", "arm", "spawn"} \subseteq HandlerSteps
  BY DEF HandlerSteps, Persisting
<1> USE DEF process, table, handler, disk, client
<1>2. ASSUME NEW c \in Clients, Register(c) PROVE TypeOK'
  <2>1. /\ UNCHANGED <<process, active, task, watchdog, disk, client>>
        /\ \/ UNCHANGED <<table, state, cancel>>
           \/ Create(want[c])
        /\ \/ Goto(c, "reply") \/ Answer(c)
           \/ Goto(c, "makedir")
    BY ONLY <1>2 DEF Register
  <2>2. HandlerTypes'
    BY <2>1, <1>c, <1>d, HandlerMoves
  <2>3. want[c].run \in Runs /\ want[c].plan \in Plans
    BY <1>2, <1>b DEF Register
  <2>4. /\ plan' \in [Runs -> Plans \cup {None}]
        /\ byPlan' \in [Plans -> Runs \cup {None}]
        /\ current' \in Runs \cup {None}
    BY <2>1, <2>3, <1>a DEF Create, TypeOK
  <2>5. state' \in [Runs -> RunStates] /\ cancel' \in [Runs -> {"nil", "armed", "called"}]
    BY <2>1, <2>3, <1>a DEF Create, TypeOK, RunStates
  <2> QED
    BY <1>a, <2>1, <2>2, <2>4, <2>5 DEF TypeOK, HandlerTypes
<1>3. ASSUME NEW c \in Clients, MakeDir(c) PROVE TypeOK'
  <2>1. HandlerTypes'
    BY <1>3, <1>c, <1>d, HandlerMoves DEF MakeDir, WriteFails
  <2> QED
    BY <2>1, <1>3, <1>a DEF MakeDir, TypeOK, HandlerTypes
<1>4. ASSUME NEW c \in Clients, CheckResume(c) PROVE TypeOK'
  <2>1. Goto(c, "planid") \/ Answer(c)
    BY <1>4 DEF CheckResume, WriteFails
  <2>2. HandlerTypes'
    BY <2>1, <1>c, <1>d, HandlerMoves
  <2> QED
    BY <2>2, <1>4, <1>a DEF CheckResume, TypeOK, HandlerTypes
<1>5. ASSUME NEW c \in Clients, WritePlanId(c) PROVE TypeOK'
  <2>1. Goto(c, "state") \/ Answer(c)
    BY <1>5 DEF WritePlanId, WriteFails
  <2>2. HandlerTypes'
    BY <2>1, <1>c, <1>d, HandlerMoves
  <2>3. diskPlan' \in [Runs -> Plans \cup {None}]
    BY <1>5, <1>a, <1>b DEF WritePlanId, TypeOK
  <2> QED
    BY <2>2, <2>3, <1>5, <1>a DEF WritePlanId, TypeOK, HandlerTypes
<1>6. ASSUME NEW c \in Clients, WriteState(c) PROVE TypeOK'
  <2>1. Goto(c, "arm") \/ Answer(c)
    BY <1>6 DEF WriteState, WriteFails
  <2>2. HandlerTypes'
    BY <2>1, <1>c, <1>d, HandlerMoves
  <2>3. diskState' \in [Runs -> DiskStates]
    BY <1>6, <1>a, <1>b DEF WriteState, TypeOK, DiskStates
  <2> QED
    BY <2>2, <2>3, <1>6, <1>a DEF WriteState, TypeOK, HandlerTypes
<1>7. ASSUME NEW c \in Clients, Arm(c) PROVE TypeOK'
  <2>1. HandlerTypes'
    BY <1>7, <1>c, <1>d, HandlerMoves DEF Arm
  <2>2. cancel' \in [Runs -> {"nil", "armed", "called"}]
    BY <1>7, <1>a, <1>b DEF Arm, TypeOK
  <2> QED
    BY <2>1, <2>2, <1>7, <1>a DEF Arm, TypeOK, HandlerTypes
<1>8. ASSUME NEW c \in Clients, Spawn(c) PROVE TypeOK'
  <2>1. HandlerTypes'
    BY <1>8, <1>c, <1>d, HandlerMoves DEF Spawn
  <2>2. task' \in [Runs -> TaskSteps] /\ active' \in BOOLEAN
    BY <1>8, <1>a, <1>b DEF Spawn, TypeOK, TaskSteps, Converging
  <2> QED
    BY <2>1, <2>2, <1>8, <1>a DEF Spawn, TypeOK, HandlerTypes
<1>9. ASSUME NEW c \in Clients, Reply(c) PROVE TypeOK'
  <2>1. HandlerTypes'
    BY <1>9, <1>c, <1>d, HandlerMoves DEF Reply
  <2>2. poll' \in [Runs -> {"none", "pending", "ok", "bad"}]
    BY <1>9, <1>a, <1>b DEF Reply, TypeOK
  <2> QED
    BY <2>1, <2>2, <1>9, <1>a DEF Reply, TypeOK, HandlerTypes
<1> USE DEF TypeOK, RunStates, TaskSteps, HandlerSteps, DiskStates, Converging, Judging, Terminal, Persisting
<1>1. ASSUME NEW c \in Clients, NEW s \in Submissions, Submit(c, s) PROVE TypeOK'
  BY <1>1, <1>a DEF Submit
<1>10. ASSUME NEW r \in Runs, OpenJournal(r) PROVE TypeOK'
  BY <1>10, <1>a DEF OpenJournal, Move
<1>11. ASSUME NEW r \in Runs, Execute(r) PROVE TypeOK'
  BY <1>11, <1>a DEF Execute, Move, Judging
<1>12. ASSUME NEW r \in Runs, Judge(r) PROVE TypeOK'
  BY <1>12, <1>a DEF Judge, Move, Verdict, Judging
<1>13. ASSUME NEW r \in Runs, FinishInMemory(r) PROVE TypeOK'
  BY <1>13, <1>a DEF FinishInMemory, Published, Running, Move
<1>14. ASSUME NEW r \in Runs, FinishOnDisk(r) PROVE TypeOK'
  <2>1. UnknownHasNoTask /\ KnownHasState
    BY DEF IInv, Lease
  <2>2. state[r] # "none"
    BY <2>1, <1>14 DEF FinishOnDisk, UnknownHasNoTask, KnownHasState
  <2>3. state[r] \in DiskStates
    BY <2>2, <1>a
  <2> QED
    BY <2>3, <1>14, <1>a DEF FinishOnDisk, Move
<1>15. ASSUME NEW r \in Runs, DropCancel(r) PROVE TypeOK'
  BY <1>15, <1>a DEF DropCancel, Move
<1>16. ASSUME NEW r \in Runs, DropActive(r) PROVE TypeOK'
  BY <1>16, <1>a DEF DropActive, Move
<1>17. ASSUME NEW r \in Runs, Poll(r) PROVE TypeOK'
  BY <1>17, <1>a DEF Poll, Status, Known
<1>18. ASSUME NEW r \in Runs, CancelRun(r) PROVE TypeOK'
  BY <1>18, <1>a DEF CancelRun
<1>19. CASE Elapse
  BY <1>19, <1>a DEF Elapse
<1>20. CASE WatchIdle
  BY <1>20, <1>a DEF WatchIdle
<1>21. CASE Die
  <2>1. plan' \in [Runs -> Plans \cup {None}] /\ state' \in [Runs -> RunStates]
    BY <1>21, <1>a, AgentAssumption DEF Die, FreshProcess
  <2>2. cancel' \in [Runs -> {"nil", "armed", "called"}] /\ task' \in [Runs -> TaskSteps]
    BY <1>21, <1>a, AgentAssumption DEF Die, FreshProcess
  <2>3. byPlan' \in [Plans -> Runs \cup {None}] /\ current' \in Runs \cup {None}
    BY <1>21, <1>a, AgentAssumption DEF Die, FreshProcess
  <2>4. pc' \in [Clients -> HandlerSteps] /\ want' \in [Clients -> Submissions \cup {None}]
    BY <1>21, <1>a, AgentAssumption DEF Die, FreshProcess
  <2>5. up' \in BOOLEAN /\ active' \in BOOLEAN /\ idle' \in BOOLEAN /\ watchdog' \in {"off", "ticking", "shutdown"}
    BY <1>21, <1>a, AgentAssumption DEF Die, FreshProcess
  <2>6. MaxDeaths \in Nat /\ deaths \in 0..MaxDeaths
        /\ deaths' = IF deaths < MaxDeaths THEN deaths + 1 ELSE deaths
    BY <1>21, <1>a, AgentAssumption DEF Die
  <2>7. deaths' \in 0..MaxDeaths
    BY ONLY <2>6
  <2>8. UNCHANGED <<disk, client>>
    BY <1>21 DEF Die
  <2> QED
    BY <1>a, <2>1, <2>2, <2>3, <2>4, <2>5, <2>7, <2>8
<1>22. CASE Restart
  BY <1>22, <1>a DEF Restart
<1>23. CASE UNCHANGED vars
  BY <1>23, <1>a DEF vars
<1> QED
  BY <1>1, <1>2, <1>3, <1>4, <1>5, <1>6, <1>7, <1>8, <1>9, <1>10, <1>11, <1>12, <1>13, <1>14, <1>15, <1>16, <1>17, <1>18, <1>19, <1>20, <1>21, <1>22, <1>23 DEF Next, Handle, Goroutine

(* A request keeps the run and the plan it came with. *)
LEMMA NextRequests == IInv /\ [Next]_vars => Requests'
<1> SUFFICES ASSUME IInv, [Next]_vars PROVE Requests'
  OBVIOUS
<1>a. /\ Requests
      /\ pc \in [Clients -> HandlerSteps]
      /\ want \in [Clients -> Submissions \cup {None}]
  BY DEF IInv, Lease, TypeOK
<1> USE DEF process, table, handler, disk, client, Requests
<1>1. ASSUME NEW c \in Clients, NEW s \in Submissions, Submit(c, s) PROVE Requests'
  BY <1>1, <1>a DEF Submit
<1>2. ASSUME NEW c \in Clients, Register(c) PROVE Requests'
  BY <1>2, <1>a, AgentAssumption DEF Register, Goto, Answer, Create, OtherRun, LeaseHeld, Known, Running
<1>3. ASSUME NEW c \in Clients, MakeDir(c) PROVE Requests'
  BY <1>3, <1>a DEF MakeDir, Goto, Answer, WriteFails
<1>4. ASSUME NEW c \in Clients, CheckResume(c) PROVE Requests'
  BY <1>4, <1>a DEF CheckResume, Goto, Answer, WriteFails
<1>5. ASSUME NEW c \in Clients, WritePlanId(c) PROVE Requests'
  BY <1>5, <1>a DEF WritePlanId, Goto, Answer, WriteFails
<1>6. ASSUME NEW c \in Clients, WriteState(c) PROVE Requests'
  BY <1>6, <1>a DEF WriteState, Goto, Answer, WriteFails
<1>7. ASSUME NEW c \in Clients, Arm(c) PROVE Requests'
  BY <1>7, <1>a DEF Arm, Goto
<1>8. ASSUME NEW c \in Clients, Spawn(c) PROVE Requests'
  BY <1>8, <1>a DEF Spawn, Goto
<1>9. ASSUME NEW c \in Clients, Reply(c) PROVE Requests'
  BY <1>9, <1>a DEF Reply, Answer
<1>10. ASSUME NEW r \in Runs, OpenJournal(r) PROVE Requests'
  BY <1>10, <1>a DEF OpenJournal, Move
<1>11. ASSUME NEW r \in Runs, Execute(r) PROVE Requests'
  BY <1>11, <1>a DEF Execute, Move, Judging
<1>12. ASSUME NEW r \in Runs, Judge(r) PROVE Requests'
  BY <1>12, <1>a DEF Judge, Move, Verdict, Judging
<1>13. ASSUME NEW r \in Runs, FinishInMemory(r) PROVE Requests'
  BY <1>13, <1>a DEF FinishInMemory, Published, Running, Move
<1>14. ASSUME NEW r \in Runs, FinishOnDisk(r) PROVE Requests'
  BY <1>14, <1>a DEF FinishOnDisk, Move
<1>15. ASSUME NEW r \in Runs, DropCancel(r) PROVE Requests'
  BY <1>15, <1>a DEF DropCancel, Move
<1>16. ASSUME NEW r \in Runs, DropActive(r) PROVE Requests'
  BY <1>16, <1>a DEF DropActive, Move
<1>17. ASSUME NEW r \in Runs, Poll(r) PROVE Requests'
  BY <1>17, <1>a DEF Poll, Status, Known
<1>18. ASSUME NEW r \in Runs, CancelRun(r) PROVE Requests'
  BY <1>18, <1>a DEF CancelRun
<1>19. CASE Elapse
  BY <1>19, <1>a DEF Elapse
<1>20. CASE WatchIdle
  BY <1>20, <1>a DEF WatchIdle
<1>21. CASE Die
  BY <1>21, <1>a DEF Die, FreshProcess
<1>22. CASE Restart
  BY <1>22, <1>a DEF Restart
<1>23. CASE UNCHANGED vars
  BY <1>23, <1>a DEF vars
<1> QED
  BY <1>1, <1>2, <1>3, <1>4, <1>5, <1>6, <1>7, <1>8, <1>9, <1>10, <1>11, <1>12, <1>13, <1>14, <1>15, <1>16, <1>17, <1>18, <1>19, <1>20, <1>21, <1>22, <1>23 DEF Next, Handle, Goroutine

(* Only the current run is running. *)
LEMMA NextRunning == IInv /\ [Next]_vars => RunningIsCurrent'
<1> SUFFICES ASSUME IInv, [Next]_vars PROVE RunningIsCurrent'
  OBVIOUS
<1>a. /\ RunningIsCurrent
      /\ state \in [Runs -> RunStates]
      /\ task \in [Runs -> TaskSteps]
  BY DEF IInv, Lease, TypeOK
<1>b. \A c \in Clients : pc[c] # "idle" => want[c].run \in Runs /\ want[c].plan \in Plans
  BY AgentAssumption DEF IInv, Requests
<1> USE DEF process, table, handler, disk, client, RunningIsCurrent, Running, Known, Terminal
<1>1. ASSUME NEW c \in Clients, NEW s \in Submissions, Submit(c, s) PROVE RunningIsCurrent'
  BY <1>1, <1>a, <1>b DEF Submit
<1>2. ASSUME NEW c \in Clients, Register(c) PROVE RunningIsCurrent'
  BY <1>2, <1>a, <1>b, AgentAssumption DEF Register, Goto, Answer, Create, OtherRun, LeaseHeld, Known, Running
<1>3. ASSUME NEW c \in Clients, MakeDir(c) PROVE RunningIsCurrent'
  BY <1>3, <1>a, <1>b DEF MakeDir, Goto, Answer, WriteFails
<1>4. ASSUME NEW c \in Clients, CheckResume(c) PROVE RunningIsCurrent'
  BY <1>4, <1>a, <1>b DEF CheckResume, Goto, Answer, WriteFails
<1>5. ASSUME NEW c \in Clients, WritePlanId(c) PROVE RunningIsCurrent'
  BY <1>5, <1>a, <1>b DEF WritePlanId, Goto, Answer, WriteFails
<1>6. ASSUME NEW c \in Clients, WriteState(c) PROVE RunningIsCurrent'
  BY <1>6, <1>a, <1>b DEF WriteState, Goto, Answer, WriteFails
<1>7. ASSUME NEW c \in Clients, Arm(c) PROVE RunningIsCurrent'
  BY <1>7, <1>a, <1>b DEF Arm, Goto
<1>8. ASSUME NEW c \in Clients, Spawn(c) PROVE RunningIsCurrent'
  BY <1>8, <1>a, <1>b DEF Spawn, Goto
<1>9. ASSUME NEW c \in Clients, Reply(c) PROVE RunningIsCurrent'
  BY <1>9, <1>a, <1>b DEF Reply, Answer
<1>10. ASSUME NEW r \in Runs, OpenJournal(r) PROVE RunningIsCurrent'
  BY <1>10, <1>a, <1>b DEF OpenJournal, Move
<1>11. ASSUME NEW r \in Runs, Execute(r) PROVE RunningIsCurrent'
  BY <1>11, <1>a, <1>b DEF Execute, Move, Judging
<1>12. ASSUME NEW r \in Runs, Judge(r) PROVE RunningIsCurrent'
  BY <1>12, <1>a, <1>b DEF Judge, Move, Verdict, Judging
<1>13. ASSUME NEW r \in Runs, FinishInMemory(r) PROVE RunningIsCurrent'
  BY <1>13, <1>a, <1>b DEF FinishInMemory, Published, Running, Move
<1>14. ASSUME NEW r \in Runs, FinishOnDisk(r) PROVE RunningIsCurrent'
  BY <1>14, <1>a, <1>b DEF FinishOnDisk, Move
<1>15. ASSUME NEW r \in Runs, DropCancel(r) PROVE RunningIsCurrent'
  BY <1>15, <1>a, <1>b DEF DropCancel, Move
<1>16. ASSUME NEW r \in Runs, DropActive(r) PROVE RunningIsCurrent'
  BY <1>16, <1>a, <1>b DEF DropActive, Move
<1>17. ASSUME NEW r \in Runs, Poll(r) PROVE RunningIsCurrent'
  BY <1>17, <1>a, <1>b DEF Poll, Status, Known
<1>18. ASSUME NEW r \in Runs, CancelRun(r) PROVE RunningIsCurrent'
  BY <1>18, <1>a, <1>b DEF CancelRun
<1>19. CASE Elapse
  BY <1>19, <1>a, <1>b DEF Elapse
<1>20. CASE WatchIdle
  BY <1>20, <1>a, <1>b DEF WatchIdle
<1>21. CASE Die
  BY <1>21, <1>a, <1>b DEF Die, FreshProcess
<1>22. CASE Restart
  BY <1>22, <1>a, <1>b DEF Restart
<1>23. CASE UNCHANGED vars
  BY <1>23, <1>a, <1>b DEF vars
<1> QED
  BY <1>1, <1>2, <1>3, <1>4, <1>5, <1>6, <1>7, <1>8, <1>9, <1>10, <1>11, <1>12, <1>13, <1>14, <1>15, <1>16, <1>17, <1>18, <1>19, <1>20, <1>21, <1>22, <1>23 DEF Next, Handle, Goroutine

(* A run has a state from its creation on. *)
LEMMA NextKnown == IInv /\ [Next]_vars => KnownHasState'
<1> SUFFICES ASSUME IInv, [Next]_vars PROVE KnownHasState'
  OBVIOUS
<1>a. /\ KnownHasState
      /\ state \in [Runs -> RunStates]
      /\ plan \in [Runs -> Plans \cup {None}]
  BY DEF IInv, Lease, TypeOK
<1>b. \A c \in Clients : pc[c] # "idle" => want[c].run \in Runs /\ want[c].plan \in Plans
  BY AgentAssumption DEF IInv, Requests
<1> USE DEF process, table, handler, disk, client, KnownHasState, Known, Terminal
<1>1. ASSUME NEW c \in Clients, NEW s \in Submissions, Submit(c, s) PROVE KnownHasState'
  BY <1>1, <1>a, <1>b DEF Submit
<1>2. ASSUME NEW c \in Clients, Register(c) PROVE KnownHasState'
  BY <1>2, <1>a, <1>b, AgentAssumption DEF Register, Goto, Answer, Create, OtherRun, LeaseHeld, Known, Running
<1>3. ASSUME NEW c \in Clients, MakeDir(c) PROVE KnownHasState'
  BY <1>3, <1>a, <1>b DEF MakeDir, Goto, Answer, WriteFails
<1>4. ASSUME NEW c \in Clients, CheckResume(c) PROVE KnownHasState'
  BY <1>4, <1>a, <1>b DEF CheckResume, Goto, Answer, WriteFails
<1>5. ASSUME NEW c \in Clients, WritePlanId(c) PROVE KnownHasState'
  BY <1>5, <1>a, <1>b DEF WritePlanId, Goto, Answer, WriteFails
<1>6. ASSUME NEW c \in Clients, WriteState(c) PROVE KnownHasState'
  BY <1>6, <1>a, <1>b DEF WriteState, Goto, Answer, WriteFails
<1>7. ASSUME NEW c \in Clients, Arm(c) PROVE KnownHasState'
  BY <1>7, <1>a, <1>b DEF Arm, Goto
<1>8. ASSUME NEW c \in Clients, Spawn(c) PROVE KnownHasState'
  BY <1>8, <1>a, <1>b DEF Spawn, Goto
<1>9. ASSUME NEW c \in Clients, Reply(c) PROVE KnownHasState'
  BY <1>9, <1>a, <1>b DEF Reply, Answer
<1>10. ASSUME NEW r \in Runs, OpenJournal(r) PROVE KnownHasState'
  BY <1>10, <1>a, <1>b DEF OpenJournal, Move
<1>11. ASSUME NEW r \in Runs, Execute(r) PROVE KnownHasState'
  BY <1>11, <1>a, <1>b DEF Execute, Move, Judging
<1>12. ASSUME NEW r \in Runs, Judge(r) PROVE KnownHasState'
  BY <1>12, <1>a, <1>b DEF Judge, Move, Verdict, Judging
<1>13. ASSUME NEW r \in Runs, FinishInMemory(r) PROVE KnownHasState'
  BY <1>13, <1>a, <1>b DEF FinishInMemory, Published, Running, Move
<1>14. ASSUME NEW r \in Runs, FinishOnDisk(r) PROVE KnownHasState'
  BY <1>14, <1>a, <1>b DEF FinishOnDisk, Move
<1>15. ASSUME NEW r \in Runs, DropCancel(r) PROVE KnownHasState'
  BY <1>15, <1>a, <1>b DEF DropCancel, Move
<1>16. ASSUME NEW r \in Runs, DropActive(r) PROVE KnownHasState'
  BY <1>16, <1>a, <1>b DEF DropActive, Move
<1>17. ASSUME NEW r \in Runs, Poll(r) PROVE KnownHasState'
  BY <1>17, <1>a, <1>b DEF Poll, Status, Known
<1>18. ASSUME NEW r \in Runs, CancelRun(r) PROVE KnownHasState'
  BY <1>18, <1>a, <1>b DEF CancelRun
<1>19. CASE Elapse
  BY <1>19, <1>a, <1>b DEF Elapse
<1>20. CASE WatchIdle
  BY <1>20, <1>a, <1>b DEF WatchIdle
<1>21. CASE Die
  BY <1>21, <1>a, <1>b DEF Die, FreshProcess
<1>22. CASE Restart
  BY <1>22, <1>a, <1>b DEF Restart
<1>23. CASE UNCHANGED vars
  BY <1>23, <1>a, <1>b DEF vars
<1> QED
  BY <1>1, <1>2, <1>3, <1>4, <1>5, <1>6, <1>7, <1>8, <1>9, <1>10, <1>11, <1>12, <1>13, <1>14, <1>15, <1>16, <1>17, <1>18, <1>19, <1>20, <1>21, <1>22, <1>23 DEF Next, Handle, Goroutine

(* A run has a goroutine after its creation only. *)
LEMMA NextTask == IInv /\ [Next]_vars => UnknownHasNoTask'
<1> SUFFICES ASSUME IInv, [Next]_vars PROVE UnknownHasNoTask'
  OBVIOUS
<1>a. /\ UnknownHasNoTask
      /\ KnownHasState
      /\ PreparedIsRunning
      /\ task \in [Runs -> TaskSteps]
      /\ plan \in [Runs -> Plans \cup {None}]
  BY DEF IInv, Lease, TypeOK
<1>b. \A c \in Clients : pc[c] # "idle" => want[c].run \in Runs /\ want[c].plan \in Plans
  BY AgentAssumption DEF IInv, Requests
<1> USE DEF process, table, handler, disk, client, UnknownHasNoTask, KnownHasState, PreparedIsRunning, Running, Known, Preparing, Persisting, Terminal
<1>1. ASSUME NEW c \in Clients, NEW s \in Submissions, Submit(c, s) PROVE UnknownHasNoTask'
  BY <1>1, <1>a, <1>b DEF Submit
<1>2. ASSUME NEW c \in Clients, Register(c) PROVE UnknownHasNoTask'
  BY <1>2, <1>a, <1>b, AgentAssumption DEF Register, Goto, Answer, Create, OtherRun, LeaseHeld, Known, Running
<1>3. ASSUME NEW c \in Clients, MakeDir(c) PROVE UnknownHasNoTask'
  BY <1>3, <1>a, <1>b DEF MakeDir, Goto, Answer, WriteFails
<1>4. ASSUME NEW c \in Clients, CheckResume(c) PROVE UnknownHasNoTask'
  BY <1>4, <1>a, <1>b DEF CheckResume, Goto, Answer, WriteFails
<1>5. ASSUME NEW c \in Clients, WritePlanId(c) PROVE UnknownHasNoTask'
  BY <1>5, <1>a, <1>b DEF WritePlanId, Goto, Answer, WriteFails
<1>6. ASSUME NEW c \in Clients, WriteState(c) PROVE UnknownHasNoTask'
  BY <1>6, <1>a, <1>b DEF WriteState, Goto, Answer, WriteFails
<1>7. ASSUME NEW c \in Clients, Arm(c) PROVE UnknownHasNoTask'
  BY <1>7, <1>a, <1>b DEF Arm, Goto
<1>8. ASSUME NEW c \in Clients, Spawn(c) PROVE UnknownHasNoTask'
  BY <1>8, <1>a, <1>b DEF Spawn, Goto
<1>9. ASSUME NEW c \in Clients, Reply(c) PROVE UnknownHasNoTask'
  BY <1>9, <1>a, <1>b DEF Reply, Answer
<1>10. ASSUME NEW r \in Runs, OpenJournal(r) PROVE UnknownHasNoTask'
  BY <1>10, <1>a, <1>b DEF OpenJournal, Move
<1>11. ASSUME NEW r \in Runs, Execute(r) PROVE UnknownHasNoTask'
  BY <1>11, <1>a, <1>b DEF Execute, Move, Judging
<1>12. ASSUME NEW r \in Runs, Judge(r) PROVE UnknownHasNoTask'
  BY <1>12, <1>a, <1>b DEF Judge, Move, Verdict, Judging
<1>13. ASSUME NEW r \in Runs, FinishInMemory(r) PROVE UnknownHasNoTask'
  BY <1>13, <1>a, <1>b DEF FinishInMemory, Published, Running, Move
<1>14. ASSUME NEW r \in Runs, FinishOnDisk(r) PROVE UnknownHasNoTask'
  BY <1>14, <1>a, <1>b DEF FinishOnDisk, Move
<1>15. ASSUME NEW r \in Runs, DropCancel(r) PROVE UnknownHasNoTask'
  BY <1>15, <1>a, <1>b DEF DropCancel, Move
<1>16. ASSUME NEW r \in Runs, DropActive(r) PROVE UnknownHasNoTask'
  BY <1>16, <1>a, <1>b DEF DropActive, Move
<1>17. ASSUME NEW r \in Runs, Poll(r) PROVE UnknownHasNoTask'
  BY <1>17, <1>a, <1>b DEF Poll, Status, Known
<1>18. ASSUME NEW r \in Runs, CancelRun(r) PROVE UnknownHasNoTask'
  BY <1>18, <1>a, <1>b DEF CancelRun
<1>19. CASE Elapse
  BY <1>19, <1>a, <1>b DEF Elapse
<1>20. CASE WatchIdle
  BY <1>20, <1>a, <1>b DEF WatchIdle
<1>21. CASE Die
  BY <1>21, <1>a, <1>b DEF Die, FreshProcess
<1>22. CASE Restart
  BY <1>22, <1>a, <1>b DEF Restart
<1>23. CASE UNCHANGED vars
  BY <1>23, <1>a, <1>b DEF vars
<1> QED
  BY <1>1, <1>2, <1>3, <1>4, <1>5, <1>6, <1>7, <1>8, <1>9, <1>10, <1>11, <1>12, <1>13, <1>14, <1>15, <1>16, <1>17, <1>18, <1>19, <1>20, <1>21, <1>22, <1>23 DEF Next, Handle, Goroutine

(* A goroutine gives the lease up with its verdict. *)
LEMMA NextCarried == IInv /\ [Next]_vars => CarriedIsRunning'
<1> SUFFICES ASSUME IInv, [Next]_vars PROVE CarriedIsRunning'
  OBVIOUS
<1>a. /\ CarriedIsRunning
      /\ PreparedIsRunning
      /\ UnknownHasNoTask
      /\ task \in [Runs -> TaskSteps]
      /\ state \in [Runs -> RunStates]
  BY DEF IInv, Lease, TypeOK
<1>b. \A c \in Clients : pc[c] # "idle" => want[c].run \in Runs /\ want[c].plan \in Plans
  BY AgentAssumption DEF IInv, Requests
<1> USE DEF process, table, handler, disk, client, CarriedIsRunning, PreparedIsRunning, UnknownHasNoTask, Running, Known, Preparing, Persisting, Carrying, Converging, Judging, Terminal
<1>1. ASSUME NEW c \in Clients, NEW s \in Submissions, Submit(c, s) PROVE CarriedIsRunning'
  BY <1>1, <1>a, <1>b DEF Submit
<1>2. ASSUME NEW c \in Clients, Register(c) PROVE CarriedIsRunning'
  BY <1>2, <1>a, <1>b, AgentAssumption DEF Register, Goto, Answer, Create, OtherRun, LeaseHeld, Known, Running
<1>3. ASSUME NEW c \in Clients, MakeDir(c) PROVE CarriedIsRunning'
  BY <1>3, <1>a, <1>b DEF MakeDir, Goto, Answer, WriteFails
<1>4. ASSUME NEW c \in Clients, CheckResume(c) PROVE CarriedIsRunning'
  BY <1>4, <1>a, <1>b DEF CheckResume, Goto, Answer, WriteFails
<1>5. ASSUME NEW c \in Clients, WritePlanId(c) PROVE CarriedIsRunning'
  BY <1>5, <1>a, <1>b DEF WritePlanId, Goto, Answer, WriteFails
<1>6. ASSUME NEW c \in Clients, WriteState(c) PROVE CarriedIsRunning'
  BY <1>6, <1>a, <1>b DEF WriteState, Goto, Answer, WriteFails
<1>7. ASSUME NEW c \in Clients, Arm(c) PROVE CarriedIsRunning'
  BY <1>7, <1>a, <1>b DEF Arm, Goto
<1>8. ASSUME NEW c \in Clients, Spawn(c) PROVE CarriedIsRunning'
  BY <1>8, <1>a, <1>b DEF Spawn, Goto
<1>9. ASSUME NEW c \in Clients, Reply(c) PROVE CarriedIsRunning'
  BY <1>9, <1>a, <1>b DEF Reply, Answer
<1>10. ASSUME NEW r \in Runs, OpenJournal(r) PROVE CarriedIsRunning'
  BY <1>10, <1>a, <1>b DEF OpenJournal, Move
<1>11. ASSUME NEW r \in Runs, Execute(r) PROVE CarriedIsRunning'
  BY <1>11, <1>a, <1>b DEF Execute, Move, Judging
<1>12. ASSUME NEW r \in Runs, Judge(r) PROVE CarriedIsRunning'
  BY <1>12, <1>a, <1>b DEF Judge, Move, Verdict, Judging
<1>13. ASSUME NEW r \in Runs, FinishInMemory(r) PROVE CarriedIsRunning'
  BY <1>13, <1>a, <1>b DEF FinishInMemory, Published, Running, Move
<1>14. ASSUME NEW r \in Runs, FinishOnDisk(r) PROVE CarriedIsRunning'
  BY <1>14, <1>a, <1>b DEF FinishOnDisk, Move
<1>15. ASSUME NEW r \in Runs, DropCancel(r) PROVE CarriedIsRunning'
  BY <1>15, <1>a, <1>b DEF DropCancel, Move
<1>16. ASSUME NEW r \in Runs, DropActive(r) PROVE CarriedIsRunning'
  BY <1>16, <1>a, <1>b DEF DropActive, Move
<1>17. ASSUME NEW r \in Runs, Poll(r) PROVE CarriedIsRunning'
  BY <1>17, <1>a, <1>b DEF Poll, Status, Known
<1>18. ASSUME NEW r \in Runs, CancelRun(r) PROVE CarriedIsRunning'
  BY <1>18, <1>a, <1>b DEF CancelRun
<1>19. CASE Elapse
  BY <1>19, <1>a, <1>b DEF Elapse
<1>20. CASE WatchIdle
  BY <1>20, <1>a, <1>b DEF WatchIdle
<1>21. CASE Die
  BY <1>21, <1>a, <1>b DEF Die, FreshProcess
<1>22. CASE Restart
  BY <1>22, <1>a, <1>b DEF Restart
<1>23. CASE UNCHANGED vars
  BY <1>23, <1>a, <1>b DEF vars
<1> QED
  BY <1>1, <1>2, <1>3, <1>4, <1>5, <1>6, <1>7, <1>8, <1>9, <1>10, <1>11, <1>12, <1>13, <1>14, <1>15, <1>16, <1>17, <1>18, <1>19, <1>20, <1>21, <1>22, <1>23 DEF Next, Handle, Goroutine

(* A handler holds the lease until it spawns. *)
LEMMA NextPrepared == IInv /\ [Next]_vars => PreparedIsRunning'
<1> SUFFICES ASSUME IInv, [Next]_vars PROVE PreparedIsRunning'
  OBVIOUS
<1>a. /\ PreparedIsRunning
      /\ OnePreparer
      /\ UnknownHasNoTask
      /\ pc \in [Clients -> HandlerSteps]
      /\ want \in [Clients -> Submissions \cup {None}]
      /\ task \in [Runs -> TaskSteps]
      /\ state \in [Runs -> RunStates]
  BY DEF IInv, Lease, TypeOK
<1>b. \A c \in Clients : pc[c] # "idle" => want[c].run \in Runs /\ want[c].plan \in Plans
  BY AgentAssumption DEF IInv, Requests
<1> USE DEF process, table, handler, disk, client, PreparedIsRunning, OnePreparer, UnknownHasNoTask, Running, Known, Preparing, Persisting, Terminal
<1>1. ASSUME NEW c \in Clients, NEW s \in Submissions, Submit(c, s) PROVE PreparedIsRunning'
  BY <1>1, <1>a, <1>b DEF Submit
<1>2. ASSUME NEW c \in Clients, Register(c) PROVE PreparedIsRunning'
  BY <1>2, <1>a, <1>b, AgentAssumption DEF Register, Goto, Answer, Create, OtherRun, LeaseHeld, Known, Running
<1>3. ASSUME NEW c \in Clients, MakeDir(c) PROVE PreparedIsRunning'
  BY <1>3, <1>a, <1>b DEF MakeDir, Goto, Answer, WriteFails
<1>4. ASSUME NEW c \in Clients, CheckResume(c) PROVE PreparedIsRunning'
  BY <1>4, <1>a, <1>b DEF CheckResume, Goto, Answer, WriteFails
<1>5. ASSUME NEW c \in Clients, WritePlanId(c) PROVE PreparedIsRunning'
  BY <1>5, <1>a, <1>b DEF WritePlanId, Goto, Answer, WriteFails
<1>6. ASSUME NEW c \in Clients, WriteState(c) PROVE PreparedIsRunning'
  BY <1>6, <1>a, <1>b DEF WriteState, Goto, Answer, WriteFails
<1>7. ASSUME NEW c \in Clients, Arm(c) PROVE PreparedIsRunning'
  BY <1>7, <1>a, <1>b DEF Arm, Goto
<1>8. ASSUME NEW c \in Clients, Spawn(c) PROVE PreparedIsRunning'
  BY <1>8, <1>a, <1>b DEF Spawn, Goto
<1>9. ASSUME NEW c \in Clients, Reply(c) PROVE PreparedIsRunning'
  BY <1>9, <1>a, <1>b DEF Reply, Answer
<1>10. ASSUME NEW r \in Runs, OpenJournal(r) PROVE PreparedIsRunning'
  BY <1>10, <1>a, <1>b DEF OpenJournal, Move
<1>11. ASSUME NEW r \in Runs, Execute(r) PROVE PreparedIsRunning'
  BY <1>11, <1>a, <1>b DEF Execute, Move, Judging
<1>12. ASSUME NEW r \in Runs, Judge(r) PROVE PreparedIsRunning'
  BY <1>12, <1>a, <1>b DEF Judge, Move, Verdict, Judging
<1>13. ASSUME NEW r \in Runs, FinishInMemory(r) PROVE PreparedIsRunning'
  BY <1>13, <1>a, <1>b DEF FinishInMemory, Published, Running, Move
<1>14. ASSUME NEW r \in Runs, FinishOnDisk(r) PROVE PreparedIsRunning'
  BY <1>14, <1>a, <1>b DEF FinishOnDisk, Move
<1>15. ASSUME NEW r \in Runs, DropCancel(r) PROVE PreparedIsRunning'
  BY <1>15, <1>a, <1>b DEF DropCancel, Move
<1>16. ASSUME NEW r \in Runs, DropActive(r) PROVE PreparedIsRunning'
  BY <1>16, <1>a, <1>b DEF DropActive, Move
<1>17. ASSUME NEW r \in Runs, Poll(r) PROVE PreparedIsRunning'
  BY <1>17, <1>a, <1>b DEF Poll, Status, Known
<1>18. ASSUME NEW r \in Runs, CancelRun(r) PROVE PreparedIsRunning'
  BY <1>18, <1>a, <1>b DEF CancelRun
<1>19. CASE Elapse
  BY <1>19, <1>a, <1>b DEF Elapse
<1>20. CASE WatchIdle
  BY <1>20, <1>a, <1>b DEF WatchIdle
<1>21. CASE Die
  BY <1>21, <1>a, <1>b DEF Die, FreshProcess
<1>22. CASE Restart
  BY <1>22, <1>a, <1>b DEF Restart
<1>23. CASE UNCHANGED vars
  BY <1>23, <1>a, <1>b DEF vars
<1> QED
  BY <1>1, <1>2, <1>3, <1>4, <1>5, <1>6, <1>7, <1>8, <1>9, <1>10, <1>11, <1>12, <1>13, <1>14, <1>15, <1>16, <1>17, <1>18, <1>19, <1>20, <1>21, <1>22, <1>23 DEF Next, Handle, Goroutine

(* A run is created by one handler. *)
LEMMA NextPreparer == IInv /\ [Next]_vars => OnePreparer'
<1> SUFFICES ASSUME IInv, [Next]_vars PROVE OnePreparer'
  OBVIOUS
<1>a. /\ OnePreparer
      /\ PreparedIsRunning
      /\ KnownHasState
      /\ pc \in [Clients -> HandlerSteps]
      /\ want \in [Clients -> Submissions \cup {None}]
  BY DEF IInv, Lease, TypeOK
<1>b. \A c \in Clients : pc[c] # "idle" => want[c].run \in Runs /\ want[c].plan \in Plans
  BY AgentAssumption DEF IInv, Requests
<1> USE DEF process, table, handler, disk, client, OnePreparer, PreparedIsRunning, KnownHasState, Known, Running, Preparing, Persisting
<1>1. ASSUME NEW c \in Clients, NEW s \in Submissions, Submit(c, s) PROVE OnePreparer'
  BY <1>1, <1>a, <1>b DEF Submit
<1>2. ASSUME NEW c \in Clients, Register(c) PROVE OnePreparer'
  BY <1>2, <1>a, <1>b, AgentAssumption DEF Register, Goto, Answer, Create, OtherRun, LeaseHeld, Known, Running
<1>3. ASSUME NEW c \in Clients, MakeDir(c) PROVE OnePreparer'
  BY <1>3, <1>a, <1>b DEF MakeDir, Goto, Answer, WriteFails
<1>4. ASSUME NEW c \in Clients, CheckResume(c) PROVE OnePreparer'
  BY <1>4, <1>a, <1>b DEF CheckResume, Goto, Answer, WriteFails
<1>5. ASSUME NEW c \in Clients, WritePlanId(c) PROVE OnePreparer'
  BY <1>5, <1>a, <1>b DEF WritePlanId, Goto, Answer, WriteFails
<1>6. ASSUME NEW c \in Clients, WriteState(c) PROVE OnePreparer'
  BY <1>6, <1>a, <1>b DEF WriteState, Goto, Answer, WriteFails
<1>7. ASSUME NEW c \in Clients, Arm(c) PROVE OnePreparer'
  BY <1>7, <1>a, <1>b DEF Arm, Goto
<1>8. ASSUME NEW c \in Clients, Spawn(c) PROVE OnePreparer'
  BY <1>8, <1>a, <1>b DEF Spawn, Goto
<1>9. ASSUME NEW c \in Clients, Reply(c) PROVE OnePreparer'
  BY <1>9, <1>a, <1>b DEF Reply, Answer
<1>10. ASSUME NEW r \in Runs, OpenJournal(r) PROVE OnePreparer'
  BY <1>10, <1>a, <1>b DEF OpenJournal, Move
<1>11. ASSUME NEW r \in Runs, Execute(r) PROVE OnePreparer'
  BY <1>11, <1>a, <1>b DEF Execute, Move, Judging
<1>12. ASSUME NEW r \in Runs, Judge(r) PROVE OnePreparer'
  BY <1>12, <1>a, <1>b DEF Judge, Move, Verdict, Judging
<1>13. ASSUME NEW r \in Runs, FinishInMemory(r) PROVE OnePreparer'
  BY <1>13, <1>a, <1>b DEF FinishInMemory, Published, Running, Move
<1>14. ASSUME NEW r \in Runs, FinishOnDisk(r) PROVE OnePreparer'
  BY <1>14, <1>a, <1>b DEF FinishOnDisk, Move
<1>15. ASSUME NEW r \in Runs, DropCancel(r) PROVE OnePreparer'
  BY <1>15, <1>a, <1>b DEF DropCancel, Move
<1>16. ASSUME NEW r \in Runs, DropActive(r) PROVE OnePreparer'
  BY <1>16, <1>a, <1>b DEF DropActive, Move
<1>17. ASSUME NEW r \in Runs, Poll(r) PROVE OnePreparer'
  BY <1>17, <1>a, <1>b DEF Poll, Status, Known
<1>18. ASSUME NEW r \in Runs, CancelRun(r) PROVE OnePreparer'
  BY <1>18, <1>a, <1>b DEF CancelRun
<1>19. CASE Elapse
  BY <1>19, <1>a, <1>b DEF Elapse
<1>20. CASE WatchIdle
  BY <1>20, <1>a, <1>b DEF WatchIdle
<1>21. CASE Die
  BY <1>21, <1>a, <1>b DEF Die, FreshProcess
<1>22. CASE Restart
  BY <1>22, <1>a, <1>b DEF Restart
<1>23. CASE UNCHANGED vars
  BY <1>23, <1>a, <1>b DEF vars
<1> QED
  BY <1>1, <1>2, <1>3, <1>4, <1>5, <1>6, <1>7, <1>8, <1>9, <1>10, <1>11, <1>12, <1>13, <1>14, <1>15, <1>16, <1>17, <1>18, <1>19, <1>20, <1>21, <1>22, <1>23 DEF Next, Handle, Goroutine

(* byPlan names the only run of a plan. *)
LEMMA NextPlan == IInv /\ [Next]_vars => PlanHasOneRun'
<1> SUFFICES ASSUME IInv, [Next]_vars PROVE PlanHasOneRun'
  OBVIOUS
<1>a. /\ PlanHasOneRun
      /\ plan \in [Runs -> Plans \cup {None}]
      /\ byPlan \in [Plans -> Runs \cup {None}]
  BY DEF IInv, Lease, TypeOK
<1>b. \A c \in Clients : pc[c] # "idle" => want[c].run \in Runs /\ want[c].plan \in Plans
  BY AgentAssumption DEF IInv, Requests
<1> USE DEF process, table, handler, disk, client, PlanHasOneRun, Known
<1>1. ASSUME NEW c \in Clients, NEW s \in Submissions, Submit(c, s) PROVE PlanHasOneRun'
  BY <1>1, <1>a, <1>b DEF Submit
<1>2. ASSUME NEW c \in Clients, Register(c) PROVE PlanHasOneRun'
  BY <1>2, <1>a, <1>b, AgentAssumption DEF Register, Goto, Answer, Create, OtherRun, LeaseHeld, Known, Running
<1>3. ASSUME NEW c \in Clients, MakeDir(c) PROVE PlanHasOneRun'
  BY <1>3, <1>a, <1>b DEF MakeDir, Goto, Answer, WriteFails
<1>4. ASSUME NEW c \in Clients, CheckResume(c) PROVE PlanHasOneRun'
  BY <1>4, <1>a, <1>b DEF CheckResume, Goto, Answer, WriteFails
<1>5. ASSUME NEW c \in Clients, WritePlanId(c) PROVE PlanHasOneRun'
  BY <1>5, <1>a, <1>b DEF WritePlanId, Goto, Answer, WriteFails
<1>6. ASSUME NEW c \in Clients, WriteState(c) PROVE PlanHasOneRun'
  BY <1>6, <1>a, <1>b DEF WriteState, Goto, Answer, WriteFails
<1>7. ASSUME NEW c \in Clients, Arm(c) PROVE PlanHasOneRun'
  BY <1>7, <1>a, <1>b DEF Arm, Goto
<1>8. ASSUME NEW c \in Clients, Spawn(c) PROVE PlanHasOneRun'
  BY <1>8, <1>a, <1>b DEF Spawn, Goto
<1>9. ASSUME NEW c \in Clients, Reply(c) PROVE PlanHasOneRun'
  BY <1>9, <1>a, <1>b DEF Reply, Answer
<1>10. ASSUME NEW r \in Runs, OpenJournal(r) PROVE PlanHasOneRun'
  BY <1>10, <1>a, <1>b DEF OpenJournal, Move
<1>11. ASSUME NEW r \in Runs, Execute(r) PROVE PlanHasOneRun'
  BY <1>11, <1>a, <1>b DEF Execute, Move, Judging
<1>12. ASSUME NEW r \in Runs, Judge(r) PROVE PlanHasOneRun'
  BY <1>12, <1>a, <1>b DEF Judge, Move, Verdict, Judging
<1>13. ASSUME NEW r \in Runs, FinishInMemory(r) PROVE PlanHasOneRun'
  BY <1>13, <1>a, <1>b DEF FinishInMemory, Published, Running, Move
<1>14. ASSUME NEW r \in Runs, FinishOnDisk(r) PROVE PlanHasOneRun'
  BY <1>14, <1>a, <1>b DEF FinishOnDisk, Move
<1>15. ASSUME NEW r \in Runs, DropCancel(r) PROVE PlanHasOneRun'
  BY <1>15, <1>a, <1>b DEF DropCancel, Move
<1>16. ASSUME NEW r \in Runs, DropActive(r) PROVE PlanHasOneRun'
  BY <1>16, <1>a, <1>b DEF DropActive, Move
<1>17. ASSUME NEW r \in Runs, Poll(r) PROVE PlanHasOneRun'
  BY <1>17, <1>a, <1>b DEF Poll, Status, Known
<1>18. ASSUME NEW r \in Runs, CancelRun(r) PROVE PlanHasOneRun'
  BY <1>18, <1>a, <1>b DEF CancelRun
<1>19. CASE Elapse
  BY <1>19, <1>a, <1>b DEF Elapse
<1>20. CASE WatchIdle
  BY <1>20, <1>a, <1>b DEF WatchIdle
<1>21. CASE Die
  BY <1>21, <1>a, <1>b DEF Die, FreshProcess
<1>22. CASE Restart
  BY <1>22, <1>a, <1>b DEF Restart
<1>23. CASE UNCHANGED vars
  BY <1>23, <1>a, <1>b DEF vars
<1> QED
  BY <1>1, <1>2, <1>3, <1>4, <1>5, <1>6, <1>7, <1>8, <1>9, <1>10, <1>11, <1>12, <1>13, <1>14, <1>15, <1>16, <1>17, <1>18, <1>19, <1>20, <1>21, <1>22, <1>23 DEF Next, Handle, Goroutine

(* No step invents a success. *)
LEMMA NextDone == IInv /\ [Next]_vars => DoneIsReal'
<1> SUFFICES ASSUME IInv, [Next]_vars PROVE DoneIsReal'
  OBVIOUS
<1>a. /\ DoneIsReal
      /\ task \in [Runs -> TaskSteps]
      /\ state \in [Runs -> RunStates]
      /\ diskState \in [Runs -> DiskStates]
      /\ poll \in [Runs -> {"none", "pending", "ok", "bad"}]
      /\ converged \subseteq Runs
  BY DEF IInv, Lease, TypeOK
<1>b. \A c \in Clients : pc[c] # "idle" => want[c].run \in Runs /\ want[c].plan \in Plans
  BY AgentAssumption DEF IInv, Requests
<1> USE DEF process, table, handler, disk, client, DoneIsReal, SuccessIsReal, Terminal
<1>1. ASSUME NEW c \in Clients, NEW s \in Submissions, Submit(c, s) PROVE DoneIsReal'
  BY <1>1, <1>a, <1>b DEF Submit
<1>2. ASSUME NEW c \in Clients, Register(c) PROVE DoneIsReal'
  BY <1>2, <1>a, <1>b, AgentAssumption DEF Register, Goto, Answer, Create, OtherRun, LeaseHeld, Known, Running
<1>3. ASSUME NEW c \in Clients, MakeDir(c) PROVE DoneIsReal'
  BY <1>3, <1>a, <1>b DEF MakeDir, Goto, Answer, WriteFails
<1>4. ASSUME NEW c \in Clients, CheckResume(c) PROVE DoneIsReal'
  BY <1>4, <1>a, <1>b DEF CheckResume, Goto, Answer, WriteFails
<1>5. ASSUME NEW c \in Clients, WritePlanId(c) PROVE DoneIsReal'
  BY <1>5, <1>a, <1>b DEF WritePlanId, Goto, Answer, WriteFails
<1>6. ASSUME NEW c \in Clients, WriteState(c) PROVE DoneIsReal'
  BY <1>6, <1>a, <1>b DEF WriteState, Goto, Answer, WriteFails
<1>7. ASSUME NEW c \in Clients, Arm(c) PROVE DoneIsReal'
  BY <1>7, <1>a, <1>b DEF Arm, Goto
<1>8. ASSUME NEW c \in Clients, Spawn(c) PROVE DoneIsReal'
  BY <1>8, <1>a, <1>b DEF Spawn, Goto
<1>9. ASSUME NEW c \in Clients, Reply(c) PROVE DoneIsReal'
  BY <1>9, <1>a, <1>b DEF Reply, Answer
<1>10. ASSUME NEW r \in Runs, OpenJournal(r) PROVE DoneIsReal'
  BY <1>10, <1>a, <1>b DEF OpenJournal, Move
<1>11. ASSUME NEW r \in Runs, Execute(r) PROVE DoneIsReal'
  BY <1>11, <1>a, <1>b DEF Execute, Move, Judging
<1>12. ASSUME NEW r \in Runs, Judge(r) PROVE DoneIsReal'
  BY <1>12, <1>a, <1>b DEF Judge, Move, Verdict, Judging
<1>13. ASSUME NEW r \in Runs, FinishInMemory(r) PROVE DoneIsReal'
  BY <1>13, <1>a, <1>b DEF FinishInMemory, Published, Running, Move
<1>14. ASSUME NEW r \in Runs, FinishOnDisk(r) PROVE DoneIsReal'
  BY <1>14, <1>a, <1>b DEF FinishOnDisk, Move
<1>15. ASSUME NEW r \in Runs, DropCancel(r) PROVE DoneIsReal'
  BY <1>15, <1>a, <1>b DEF DropCancel, Move
<1>16. ASSUME NEW r \in Runs, DropActive(r) PROVE DoneIsReal'
  BY <1>16, <1>a, <1>b DEF DropActive, Move
<1>17. ASSUME NEW r \in Runs, Poll(r) PROVE DoneIsReal'
  BY <1>17, <1>a, <1>b DEF Poll, Status, Known
<1>18. ASSUME NEW r \in Runs, CancelRun(r) PROVE DoneIsReal'
  BY <1>18, <1>a, <1>b DEF CancelRun
<1>19. CASE Elapse
  BY <1>19, <1>a, <1>b DEF Elapse
<1>20. CASE WatchIdle
  BY <1>20, <1>a, <1>b DEF WatchIdle
<1>21. CASE Die
  BY <1>21, <1>a, <1>b DEF Die, FreshProcess
<1>22. CASE Restart
  BY <1>22, <1>a, <1>b DEF Restart
<1>23. CASE UNCHANGED vars
  BY <1>23, <1>a, <1>b DEF vars
<1> QED
  BY <1>1, <1>2, <1>3, <1>4, <1>5, <1>6, <1>7, <1>8, <1>9, <1>10, <1>11, <1>12, <1>13, <1>14, <1>15, <1>16, <1>17, <1>18, <1>19, <1>20, <1>21, <1>22, <1>23 DEF Next, Handle, Goroutine

(* The initial state satisfies the invariant. *)
LEMMA InitIInv == Init => IInv
<1> SUFFICES ASSUME Init PROVE IInv
  OBVIOUS
<1> USE AgentAssumption DEF Init, Converging, Judging, Terminal, Persisting
<1>1. TypeOK
  <2> USE DEF RunStates, TaskSteps, HandlerSteps, DiskStates
  <2>1. state \in [Runs -> RunStates] /\ cancel \in [Runs -> {"nil", "armed", "called"}]
    OBVIOUS
  <2>2. task \in [Runs -> TaskSteps] /\ pc \in [Clients -> HandlerSteps]
    OBVIOUS
  <2>3. want \in [Clients -> Submissions \cup {None}] /\ byPlan \in [Plans -> Runs \cup {None}]
    OBVIOUS
  <2>4. diskState \in [Runs -> DiskStates] /\ diskPlan \in [Runs -> Plans \cup {None}]
    OBVIOUS
  <2>5. poll \in [Runs -> {"none", "pending", "ok", "bad"}] /\ plan \in [Runs -> Plans \cup {None}]
    OBVIOUS
  <2>6. up \in BOOLEAN /\ active \in BOOLEAN /\ idle \in BOOLEAN
    OBVIOUS
  <2>7. MaxDeaths \in Nat /\ deaths = 0
    OBVIOUS
  <2>8. deaths \in 0..MaxDeaths
    BY ONLY <2>7
  <2>9. current \in Runs \cup {None} /\ watchdog \in {"off", "ticking", "shutdown"} /\ converged \subseteq Runs
    BY WatchdogAssumption
  <2> QED
    BY <2>1, <2>2, <2>3, <2>4, <2>5, <2>6, <2>8, <2>9 DEF TypeOK
<1>2. Requests
  BY DEF Requests
<1>3. Lease
  BY DEF Lease, RunningIsCurrent, KnownHasState, UnknownHasNoTask, CarriedIsRunning, PreparedIsRunning, OnePreparer, Running, Known, Carrying, Preparing
<1>4. PlanHasOneRun /\ DoneIsReal
  BY DEF PlanHasOneRun, DoneIsReal, SuccessIsReal, Known
<1> QED
  BY <1>1, <1>2, <1>3, <1>4 DEF IInv

(* Every step of the agent and its control hosts keeps the invariant. *)
THEOREM SpecIInv == Spec => []IInv
<1>1. IInv /\ [Next]_vars => IInv'
  BY NextTypes, NextRequests, NextRunning, NextKnown, NextTask, NextCarried,
     NextPrepared, NextPreparer, NextPlan, NextDone DEF IInv, Lease
<1> QED
  BY InitIInv, <1>1, PTL DEF Spec

(* Every variable keeps to its type. *)
THEOREM TypeCorrect == Spec => []TypeOK
<1>1. IInv => TypeOK
  BY DEF IInv
<1> QED
  BY SpecIInv, <1>1, PTL

(* planManager.register and the handler's spawn make the lease exclusive:  *)
(* however submissions interleave and fail, at most one handler or         *)
(* goroutine works on the agent's run directories and hosts.               *)
THEOREM LeaseIsExclusive == Spec => []OneConvergence
<1>1. IInv => OneConvergence
  BY DEF IInv, Lease, OneConvergence, RunningIsCurrent, KnownHasState, UnknownHasNoTask, CarriedIsRunning, PreparedIsRunning, OnePreparer, Carrying, Converging, Judging, Terminal
<1> QED
  BY SpecIInv, <1>1, PTL

(* A plan resubmitted under another run_id never gets a second run. *)
THEOREM PlanIsIdempotent == Spec => []PlanHasOneRun
<1>1. IInv => PlanHasOneRun
  BY DEF IInv
<1> QED
  BY SpecIInv, <1>1, PTL

(* pollSubmissions reports success only for a plan that was executed       *)
(* without failure, whatever writes fail and whenever the process ends.    *)
THEOREM SuccessIsTrue == Spec => []SuccessIsReal
<1>1. IInv => SuccessIsReal
  BY DEF IInv, DoneIsReal
<1> QED
  BY SpecIInv, <1>1, PTL

(* No step of a living process changes a verdict. *)
THEOREM VerdictsAreFinal == Spec => VerdictIsFinal
<1>1. IInv /\ [Next]_vars => (\A r \in Runs : state[r] \in Terminal /\ up' => state'[r] = state[r])
  <2> SUFFICES ASSUME IInv, [Next]_vars, NEW q \in Runs, state[q] \in Terminal, up'
               PROVE state'[q] = state[q]
    OBVIOUS
  <2> USE AgentAssumption DEF IInv, TypeOK, Requests, Lease, KnownHasState, Known, Running, Terminal
  <2>1. ASSUME NEW c \in Clients, Handle(c) PROVE state'[q] = state[q]
    <3>1. CASE Register(c)
      <4>1. UNCHANGED state \/ (~Known(want[c].run) /\ Create(want[c]))
        BY ONLY <3>1 DEF Register
      <4>2. plan[q] # None
        BY DEF Known, KnownHasState
      <4> QED
        BY <4>1, <4>2 DEF Create
    <3>2. CASE ~Register(c)
      BY <2>1, <3>2 DEF Handle, process, table, handler, disk, client, MakeDir, CheckResume, WritePlanId, WriteState, Arm, Spawn, Reply
    <3> QED
      BY <3>1, <3>2
  <2>2. ASSUME NEW r \in Runs, Goroutine(r) \/ Poll(r) \/ CancelRun(r)
        PROVE state'[q] = state[q]
    BY <2>2 DEF process, table, handler, disk, client, Move, Goroutine, OpenJournal, Execute, Judge, FinishInMemory, Published, FinishOnDisk, DropCancel, DropActive, Poll, CancelRun
  <2>3. ASSUME \/ \E c \in Clients : \E s \in Submissions : Submit(c, s)
               \/ Elapse \/ WatchIdle \/ Restart
        PROVE state'[q] = state[q]
    BY <2>3 DEF Submit, Elapse, WatchIdle, Restart, process, table, handler, disk, client
  <2>4. CASE Die
    BY <2>4 DEF Die, FreshProcess
  <2>5. CASE UNCHANGED vars
    BY <2>5 DEF vars, process, table, handler, disk, client
  <2> QED
    BY <2>1, <2>2, <2>3, <2>4, <2>5 DEF Next
<1> QED
  BY SpecIInv, <1>1, PTL DEF Spec, VerdictIsFinal
(* The agent implements the abstract lease: a step of register, of the     *)
(* goroutine or the end of the process is the one step of RunLease it      *)
(* stands for, and every other step is invisible.                          *)
THEOREM AgentImplementsLease == Spec => ImplementsLease
<1>1. Init => Registry!Init
  BY DEF Init, Registry!Init
<1>2. IInv /\ [Next]_vars => [Registry!Next]_(Registry!vars)
  <2> SUFFICES ASSUME IInv, [Next]_vars PROVE [Registry!Next]_(Registry!vars)
    OBVIOUS
  <2>a. /\ state \in [Runs -> RunStates] /\ task \in [Runs -> TaskSteps]
        /\ converged \subseteq Runs
        /\ RunningIsCurrent /\ KnownHasState /\ CarriedIsRunning /\ DoneIsReal
    BY DEF IInv, Lease, TypeOK
  <2>b. \A c \in Clients : pc[c] # "idle" => want[c].run \in Runs
    BY AgentAssumption DEF IInv, Requests
  <2> USE DEF process, table, handler, disk, client, Registry!vars
  <2>1. ASSUME NEW c \in Clients, Register(c)
        PROVE Registry!Next \/ UNCHANGED Registry!vars
    <3>1. CASE UNCHANGED state
      BY <2>1, <3>1 DEF Register
    <3>2. CASE ~UNCHANGED state
      <4> DEFINE r == want[c].run
      <4>1. r \in Runs /\ ~Known(r) /\ ~LeaseHeld /\ UNCHANGED converged
            /\ state' = [state EXCEPT ![r] = "running"]
        BY <2>1, <3>2, <2>b DEF Register, Create
      <4>2. state[r] = "none" /\ \A s \in Runs : state[s] # "running"
        BY <4>1, <2>a DEF KnownHasState, LeaseHeld, RunningIsCurrent, Running
      <4>3. Registry!Begin(r)
        BY <4>1, <4>2 DEF Registry!Begin
      <4> QED
        BY <4>1, <4>3 DEF Registry!Next
    <3> QED
      BY <3>1, <3>2
  <2>2. ASSUME NEW r \in Runs, Execute(r)
        PROVE Registry!Next \/ UNCHANGED Registry!vars
    <3>1. state[r] = "running" /\ UNCHANGED state
      BY <2>2, <2>a DEF Execute, CarriedIsRunning, Carrying, Converging, Running
    <3>2. UNCHANGED converged \/ converged' = converged \cup {r}
      BY <2>2 DEF Execute
    <3> QED
      BY <3>1, <3>2 DEF Registry!Next, Registry!Achieve
  <2>3. ASSUME NEW r \in Runs, FinishInMemory(r)
        PROVE Registry!Next \/ UNCHANGED Registry!vars
    <3>1. task[r] \in Registry!Ends /\ UNCHANGED converged
          /\ state' = [state EXCEPT ![r] = Published(r)]
      BY <2>3 DEF FinishInMemory, Published, Running, Terminal, Registry!Ends
    <3>2. state[r] = "running" /\ (task[r] = "done" => r \in converged)
      BY <2>3, <2>a DEF FinishInMemory, CarriedIsRunning, Carrying, Running, DoneIsReal
    <3>3. Registry!End(r, task[r])
      BY <3>1, <3>2 DEF Registry!End, Published, Running
    <3> QED
      BY <3>1, <3>3 DEF Registry!Next
  <2>4. CASE Die
    BY <2>4 DEF Die, FreshProcess, Registry!Next, Registry!Forget
  <2>5. ASSUME NEW c \in Clients,
               \/ MakeDir(c) \/ CheckResume(c) \/ WritePlanId(c) \/ WriteState(c)
               \/ Arm(c) \/ Spawn(c) \/ Reply(c)
               \/ \E s \in Submissions : Submit(c, s)
        PROVE UNCHANGED Registry!vars
    BY <2>5 DEF MakeDir, CheckResume, WritePlanId, WriteState, Arm, Spawn, Reply, Submit
  <2>6. ASSUME NEW r \in Runs,
               \/ OpenJournal(r) \/ Judge(r) \/ FinishOnDisk(r) \/ DropCancel(r)
               \/ DropActive(r) \/ Poll(r) \/ CancelRun(r)
        PROVE UNCHANGED Registry!vars
    BY <2>6 DEF OpenJournal, Judge, FinishOnDisk, DropCancel, DropActive, Poll, CancelRun
  <2>7. CASE Elapse \/ WatchIdle \/ Restart \/ UNCHANGED vars
    BY <2>7 DEF Elapse, WatchIdle, Restart, vars
  <2> QED
    BY <2>1, <2>2, <2>3, <2>4, <2>5, <2>6, <2>7 DEF Next, Handle, Goroutine
<1> QED
  BY <1>1, <1>2, SpecIInv, PTL DEF Spec, ImplementsLease, Registry!Spec

-----------------------------------------------------------------------------
(* What the agent says of a run: true where no write of the run directory  *)
(* fails and a run_id stands for one plan, as autonomousRunID derives it   *)
(* (cli/applyauto.go); the runs of AgentRun_oneplan are of that kind.      *)
OnePlanPerRun == \A s, u \in Submissions : s.run = u.run => s.plan = u.plan

(* Whatever is known of a run, in memory or on disk, goes back to a        *)
(* submission; the directory names a plan before the handler writes the    *)
(* state, and a goroutine past the verdict has written it.                 *)
TruthInv ==
  /\ \A r \in Runs : \A p \in {plan[r], diskPlan[r]} :
       p # None => \E s \in Submissions : s.run = r /\ s.plan = p
  /\ \A c \in Clients : pc[c] \in {"state", "arm", "spawn"} => diskPlan[want[c].run] # None
  /\ \A r \in Runs : task[r] # "none" \/ (Known(r) /\ ~Running(r)) => diskPlan[r] # None
  /\ \A r \in Runs : Known(r) /\ task[r] \in {"none", "dropCancel", "dropActive"} /\ ~Running(r) => diskState[r] = state[r]
  /\ LeaseIsLive

LEMMA NextTruth == ASSUME IInv, TruthInv, [Next]_vars, Faults = FALSE, OnePlanPerRun PROVE TruthInv'
<1>a. /\ plan \in [Runs -> Plans \cup {None}] /\ diskPlan \in [Runs -> Plans \cup {None}] /\ pc \in [Clients -> HandlerSteps]
      /\ task \in [Runs -> TaskSteps] /\ state \in [Runs -> RunStates] /\ diskState \in [Runs -> DiskStates]
      /\ want \in [Clients -> Submissions \cup {None}]
  BY DEF IInv, TypeOK
<1>b. \A c \in Clients : pc[c] # "idle" => want[c] \in Submissions /\ want[c].run \in Runs /\ want[c].plan \in Plans
  BY AgentAssumption DEF IInv, Requests
<1>c. /\ CarriedIsRunning /\ PreparedIsRunning /\ UnknownHasNoTask /\ KnownHasState /\ OnePreparer
  BY DEF IInv, Lease
<1> USE DEF process, table, handler, disk, client, Known, Running
<1>1. ASSUME NEW c \in Clients, NEW s \in Submissions, Submit(c, s) PROVE TruthInv'
  BY <1>1, <1>a, <1>b DEF Submit, TruthInv, LeaseIsLive, Preparing, Persisting, Carrying
<1>2. ASSUME NEW c \in Clients, Register(c) PROVE TruthInv'
  BY <1>2, <1>a, <1>b, <1>c, AgentAssumption
     DEF Register, Goto, Answer, Create, OtherRun, LeaseHeld, TruthInv, LeaseIsLive, Preparing, Persisting, Carrying, UnknownHasNoTask,
         CarriedIsRunning, Converging, Judging, Terminal, KnownHasState
<1>3. ASSUME NEW c \in Clients, MakeDir(c) PROVE TruthInv'
  BY <1>3, <1>a, <1>b DEF MakeDir, Goto, WriteFails, TruthInv, LeaseIsLive, Preparing, Persisting, Carrying
<1>4. ASSUME NEW c \in Clients, CheckResume(c) PROVE TruthInv'
  BY <1>4, <1>a, <1>b DEF CheckResume, Goto, WriteFails, TruthInv, LeaseIsLive, Preparing, Persisting, Carrying, OnePlanPerRun
<1>5. ASSUME NEW c \in Clients, WritePlanId(c) PROVE TruthInv'
  BY <1>5, <1>a, <1>b, AgentAssumption DEF WritePlanId, Goto, WriteFails, TruthInv, LeaseIsLive, Preparing, Persisting, Carrying
<1>6. ASSUME NEW c \in Clients, WriteState(c) PROVE TruthInv'
  BY <1>6, <1>a, <1>b, <1>c DEF WriteState, Goto, WriteFails, TruthInv, LeaseIsLive, Preparing, Persisting, Carrying, PreparedIsRunning
<1>7. ASSUME NEW c \in Clients, Arm(c) PROVE TruthInv'
  BY <1>7, <1>a, <1>b DEF Arm, Goto, TruthInv, LeaseIsLive, Preparing, Persisting, Carrying
<1>8. ASSUME NEW c \in Clients, Spawn(c) PROVE TruthInv'
  BY <1>8, <1>a, <1>b, <1>c DEF Spawn, Goto, TruthInv, LeaseIsLive, Preparing, Persisting, Carrying, Converging
<1>9. ASSUME NEW c \in Clients, Reply(c) PROVE TruthInv'
  BY <1>9, <1>a, <1>b DEF Reply, Answer, TruthInv, LeaseIsLive, Preparing, Persisting, Carrying
<1>10. ASSUME NEW r \in Runs, OpenJournal(r) \/ Execute(r) \/ Judge(r) PROVE TruthInv'
  BY <1>10, <1>a DEF OpenJournal, Execute, Judge, Verdict, Move, TruthInv, LeaseIsLive, Preparing, Carrying, Converging, Judging, Terminal
<1>13. ASSUME NEW r \in Runs, FinishInMemory(r) PROVE TruthInv'
  BY <1>13, <1>a, <1>c DEF FinishInMemory, Published, Move, TruthInv, LeaseIsLive, Preparing, Carrying, Converging, Judging, Terminal
<1>14. ASSUME NEW r \in Runs, FinishOnDisk(r) PROVE TruthInv'
  BY <1>14, <1>a DEF FinishOnDisk, Move, TruthInv, LeaseIsLive, Preparing, Carrying, Converging, Judging, Terminal
<1>15. ASSUME NEW r \in Runs, DropCancel(r) \/ DropActive(r) PROVE TruthInv'
  BY <1>15, <1>a DEF DropCancel, DropActive, Move, TruthInv, LeaseIsLive, Preparing, Carrying, Converging, Judging, Terminal
<1>17. ASSUME NEW r \in Runs, Poll(r) \/ CancelRun(r) PROVE TruthInv'
  BY <1>17 DEF Poll, CancelRun, TruthInv, LeaseIsLive, Preparing, Carrying
<1>19. CASE Elapse \/ WatchIdle \/ Restart \/ UNCHANGED vars
  BY <1>19 DEF Elapse, WatchIdle, Restart, vars, TruthInv, LeaseIsLive, Preparing, Carrying
<1>21. CASE Die
  BY <1>21, <1>a DEF Die, FreshProcess, TruthInv, LeaseIsLive
<1> QED
  BY <1>1, <1>2, <1>3, <1>4, <1>5, <1>6, <1>7, <1>8, <1>9, <1>10, <1>13, <1>14, <1>15, <1>17, <1>19, <1>21 DEF Next, Handle, Goroutine

(* GET /plan/status and the refusal of register are true: a run said to be *)
(* running has a handler or a goroutine at work on it, and the verdict of  *)
(* one that ended is on disk as in memory, so that a restart changes no    *)
(* answer (agent/apply.go: register, finish, handlePlanStatus).            *)
THEOREM AgentTellsTheTruth == Faults = FALSE /\ OnePlanPerRun => (Spec => []SaysTheTruth)
<1> SUFFICES ASSUME Faults = FALSE, OnePlanPerRun PROVE Spec => []SaysTheTruth
  OBVIOUS
<1>1. Init => TruthInv
  <2> SUFFICES ASSUME Init PROVE TruthInv
    OBVIOUS
  <2>1. \A r \in Runs : plan[r] = None /\ diskPlan[r] = None /\ task[r] = "none" /\ state[r] = "none"
    BY DEF Init
  <2>2. \A c \in Clients : pc[c] = "idle"
    BY DEF Init
  <2> QED
    BY <2>1, <2>2 DEF TruthInv, LeaseIsLive, Known, Running
<1>2. IInv /\ TruthInv /\ [Next]_vars => TruthInv'
  BY NextTruth
<1>3. IInv /\ TruthInv => SaysTheTruth
  <2> SUFFICES ASSUME IInv, TruthInv, NEW r \in Runs, Known(r), task[r] \in {"none", "dropCancel", "dropActive"}, ~Running(r)
               PROVE  diskState[r] = state[r] /\ diskPlan[r] = plan[r]
    BY DEF SaysTheTruth, DiskAgrees, TruthInv
  <2>1. diskPlan[r] # None /\ plan[r] # None /\ diskState[r] = state[r]
    BY DEF TruthInv, Known
  <2> QED
    BY <2>1 DEF TruthInv, OnePlanPerRun
<1> QED
  BY <1>1, <1>2, <1>3, SpecIInv, PTL DEF Spec

(* With one run_id there is no second run whose planActive the end of the  *)
(* first could clear, the ordering that runPlanAsync leaves open.          *)
OneRun == \A s, u \in Submissions : s.run = u.run

ActiveInv == \A r \in Runs : task[r] # "none" => active = TRUE /\ \E s \in Submissions : s.run = r

(* watchIdle does not end an agent that converges its plan, however writes *)
(* fail, cancels and requests fall and processes end (agent/server.go:     *)
(* idleExpired).                                                           *)
THEOREM WatchdogIsSafe == OneRun => (Spec => WatchdogSparesRun)
<1> SUFFICES ASSUME OneRun PROVE Spec => WatchdogSparesRun
  OBVIOUS
<1>1. Init => ActiveInv
  BY DEF Init, ActiveInv
<1>2. IInv /\ ActiveInv /\ [Next]_vars => ActiveInv'
  <2> SUFFICES ASSUME IInv, ActiveInv, [Next]_vars PROVE ActiveInv'
    OBVIOUS
  <2>a. task \in [Runs -> TaskSteps] /\ \A c \in Clients : pc[c] # "idle" => want[c] \in Submissions /\ want[c].run \in Runs
    BY AgentAssumption DEF IInv, TypeOK, Requests
  <2> USE DEF process, table, handler, disk, client, Move
  <2>1. ASSUME NEW c \in Clients, Spawn(c) PROVE ActiveInv'
    <3>1. want[c] \in Submissions /\ active' = TRUE /\ task' = [task EXCEPT ![want[c].run] = "open"]
      BY <2>1, <2>a DEF Spawn
    <3>2. ASSUME NEW r \in Runs, task'[r] # "none" PROVE \E s \in Submissions : s.run = r
      BY <2>a, <3>1, <3>2 DEF ActiveInv
    <3> QED
      BY <3>1, <3>2 DEF ActiveInv
  <2>2. ASSUME NEW r \in Runs, DropActive(r) PROVE ActiveInv'
    <3>1. \A q \in Runs : task[q] # "none" => q = r
      BY <2>2 DEF DropActive, ActiveInv, OneRun
    <3> QED
      BY <2>2, <2>a, <3>1 DEF DropActive, ActiveInv
  <2>3. ASSUME NEW r \in Runs, OpenJournal(r) \/ Execute(r) \/ Judge(r) \/ FinishInMemory(r) \/ FinishOnDisk(r) \/ DropCancel(r)
        PROVE  ActiveInv'
    <3>1. task[r] # "none" /\ active' = active /\ \A q \in Runs : q # r => task'[q] = task[q]
      BY <2>3, <2>a DEF OpenJournal, Execute, Judge, FinishInMemory, FinishOnDisk, DropCancel, Judging, Terminal
    <3> QED
      BY <3>1 DEF ActiveInv
  <2>4. CASE Die
    BY <2>4 DEF Die, FreshProcess, ActiveInv
  <2>5. ASSUME NEW c \in Clients, Handle(c), ~Spawn(c) PROVE UNCHANGED <<task, active>>
    BY <2>5 DEF Handle, Register, MakeDir, CheckResume, WritePlanId, WriteState, Arm, Reply
  <2>6. ASSUME \/ \E c \in Clients : \E s \in Submissions : Submit(c, s)
               \/ \E r \in Runs : Poll(r) \/ CancelRun(r)
               \/ Elapse \/ WatchIdle \/ Restart \/ UNCHANGED vars
        PROVE  UNCHANGED <<task, active>>
    BY <2>6 DEF Submit, Poll, CancelRun, Elapse, WatchIdle, Restart, vars
  <2>7. UNCHANGED <<task, active>> => ActiveInv'
    BY DEF ActiveInv
  <2> QED
    BY <2>1, <2>2, <2>3, <2>4, <2>5, <2>6, <2>7 DEF Next, Goroutine
<1>3. ActiveInv /\ [Next]_vars => (watchdog' # watchdog /\ up' => \A r \in Runs : task[r] \notin Converging)
  <2> SUFFICES ASSUME ActiveInv, [Next]_vars, watchdog' # watchdog, up', NEW r \in Runs PROVE task[r] \notin Converging
    OBVIOUS
  <2>1. WatchIdle
    BY DEF Next, Handle, Goroutine, Submit, Register, MakeDir, CheckResume, WritePlanId, WriteState, Arm, Spawn, Reply, OpenJournal,
       Execute, Judge, FinishInMemory, FinishOnDisk, DropCancel, DropActive, Poll, CancelRun, Elapse, Die, Restart, vars
  <2>2. active # TRUE
    BY <2>1, Zenon DEF WatchIdle, IdleExpired
  <2> QED
    BY <2>2 DEF ActiveInv, Converging
<1> QED
  BY <1>1, <1>2, <1>3, SpecIInv, PTL DEF Spec, WatchdogSparesRun
=============================================================================
