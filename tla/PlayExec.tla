------------------------------ MODULE PlayExec ------------------------------
(***************************************************************************)
(* Executor.Run (src/internal/executor): the plays of a run one after the  *)
(* other; in a play the pre hooks on all hosts, the main tasks batch by    *)
(* batch, the post hooks; in a batch the tasks one after the other, each   *)
(* fanned out to the hosts still alive by at most Forks goroutines, then   *)
(* the notified handlers; after a batch, under a strategy, the health gate *)
(* and the rollback.  The executor goroutine waits for a fan-out to end,   *)
(* so its own steps alternate with those of the workers; the run may be    *)
(* cancelled between any two of them.                                      *)
(*                                                                         *)
(* A play is a record                                                      *)
(*   hosts: sequence; pre, main, post: sequences of tasks;                 *)
(*   handlers: sequence of handler names;                                  *)
(*   strategy, batch, serial: as in module Batches;                        *)
(*   gate, rollback: BOOLEAN                                               *)
(* and a task a record [notify: set of handlers, ignore, once: BOOLEAN].   *)
(***************************************************************************)
EXTENDS Batches

CONSTANTS Hosts, Forks,
          HandlerNames, \* what handlers are called and tasks notify
          Charts        \* the sequences of plays the program may be given

TaskRecords == [notify : SUBSET HandlerNames, ignore : BOOLEAN, once : BOOLEAN]

PlayRecords ==
  [hosts : Seq(Hosts), pre : Seq(TaskRecords), main : Seq(TaskRecords), post : Seq(TaskRecords),
   handlers : Seq(HandlerNames), strategy : {"none", "linear", "rolling", "canary"},
   batch : SizeExprs, serial : Seq(SizeExprs), gate : BOOLEAN, rollback : BOOLEAN]

(* A play selects each host of the inventory once.                         *)
ASSUME PlayAssumption ==
  /\ Forks \in Nat \ {0}
  /\ \A c \in Charts : c \in Seq(PlayRecords) /\ \A i \in DOMAIN c : IsInjective(c[i].hosts)

VARIABLES plays,        \* the plays of this run
          k,            \* index of the current play
          section,      \* which task list of it: pre, main, post
          step,         \* where the executor goroutine is
          hosts,        \* hosts selected for the play
          batches,      \* batches of the main list not started yet
          batch,        \* hosts of the current batch
          alive,        \* hostRun.alive of the batch
          t,            \* index of the current task or handler
          fan, out,     \* worker of each host; result it delivered
          notified,     \* hostRun.notified
          batchFailed, failed, anyFail,
          dead,         \* Executor.deadHosts
          journal,      \* registered changes of each host in effect
          marker,       \* hosts with a release marker
          cancelled,    \* ctx.Err() # nil
          passed,       \* ghost: hosts of main batches that went through
          stuck,        \* ghost: hosts of this play whose rollback failed
          stale,        \* ghost: changes a notified handler has not seen
          bad           \* ghost: hosts that failed or were unreachable

control == <<plays, k, section, step, hosts, batches, batch, t>>
verdict == <<batchFailed, failed, anyFail>>
ghosts == <<passed, stuck, stale, bad>>
vars == <<control, alive, fan, out, notified, verdict, dead, journal, marker,
          cancelled, ghosts>>

play == plays[k]

Tasks == CASE section = "pre" -> play.pre
           [] section = "main" -> play.main
           [] section = "post" -> play.post

(* What a worker can report.  "dirty" is a failure after a change that was *)
(* registered for rollback (a loop, a block, a chart reference).           *)
Outcomes == {"ok", "changed", "failed", "dirty", "unreachable"}

Idle == [h \in Hosts |-> "none"]

ControlOK ==
  /\ plays \in Charts
  /\ k \in 1 .. Len(plays) + 1
  /\ section \in {"pre", "main", "post"}
  /\ step \in {"select", "batch", "task", "fanTask", "handler", "fanHandler",
               "judge", "gate", "fanGate", "rollback", "finish", "end"}
  /\ t \in Nat \ {0}

FlagsOK ==
  /\ batchFailed \in BOOLEAN /\ failed \in BOOLEAN /\ anyFail \in BOOLEAN
  /\ cancelled \in BOOLEAN

BatchesOK ==
  /\ hosts \in Seq(Hosts) /\ batch \in Seq(Hosts) /\ batches \in Seq(Seq(Hosts))
  /\ alive \subseteq ToSet(batch)

WorkersOK ==
  /\ fan \in [Hosts -> {"none", "todo", "busy", "done"}]
  /\ out \in [Hosts -> Outcomes \cup {"none"}]
  /\ journal \in [Hosts -> Nat]

NoticesOK ==
  /\ notified \in [Hosts -> SUBSET HandlerNames]
  /\ stale \in [Hosts -> SUBSET HandlerNames]

HostSetsOK ==
  /\ dead \subseteq Hosts /\ marker \subseteq Hosts
  /\ passed \subseteq Hosts /\ bad \subseteq Hosts
  /\ stuck \subseteq Hosts

TypeOK == ControlOK /\ FlagsOK /\ BatchesOK /\ WorkersOK /\ NoticesOK /\ HostSetsOK

Init ==
  /\ plays \in Charts
  /\ k = 1 /\ section = "pre" /\ step = "select"
  /\ hosts = <<>> /\ batches = <<>> /\ batch = <<>> /\ t = 1
  /\ alive = {}
  /\ fan = Idle /\ out = Idle
  /\ notified = [h \in Hosts |-> {}]
  /\ batchFailed = FALSE /\ failed = FALSE /\ anyFail = FALSE
  /\ dead = {} /\ marker = {}
  /\ journal = [h \in Hosts |-> 0]
  /\ cancelled = FALSE
  /\ passed = {} /\ stuck = {} /\ bad = {}
  /\ stale = [h \in Hosts |-> {}]

-----------------------------------------------------------------------------
PlayBatches(s) == MainBatches(s, play.strategy, play.batch, play.serial)

(* prepareBatchRuns: fresh hostRuns; the journal is carried over.          *)
StartBatch(s) ==
  /\ batch' = s
  /\ alive' = ToSet(s)
  /\ notified' = [h \in Hosts |-> {}]
  /\ batchFailed' = FALSE
  /\ t' = 1
  /\ step' = "task"

(* filterDead: those of s, in their order, that are not in gone.           *)
FilterDead(s, gone) ==
  LET keep[i \in 0 .. Len(s)] ==
        IF i = 0 THEN <<>>
        ELSE IF s[i] \in gone THEN keep[i - 1] ELSE Append(keep[i - 1], s[i])
  IN keep[Len(s)]

(* Executor.Run and the head of runPlay: selectHosts drops dead hosts.     *)
SelectHosts ==
  /\ step = "select"
  /\ \/ /\ k > Len(plays)
        /\ step' = "end"
        /\ UNCHANGED <<k, section, hosts, batches, batch, t, alive, notified,
                       verdict, journal, passed, stale, stuck>>
     \/ /\ k <= Len(plays)
        /\ cancelled
        /\ step' = "end"
        /\ anyFail' = TRUE
        /\ UNCHANGED <<k, section, hosts, batches, batch, t, alive, notified,
                       batchFailed, failed, journal, passed, stale, stuck>>
     \/ /\ k <= Len(plays)
        /\ ~cancelled
        /\ hosts' = FilterDead(play.hosts, dead)
        /\ batches' = PlayBatches(hosts')
        /\ failed' = FALSE
        /\ journal' = [h \in Hosts |-> 0]
        /\ passed' = {}
        /\ stale' = [h \in Hosts |-> {}]
        /\ stuck' = {}
        /\ IF play.pre # <<>>
           THEN section' = "pre" /\ StartBatch(hosts')
           ELSE /\ section' = "main" /\ step' = "batch"
                /\ UNCHANGED <<batch, alive, notified, batchFailed, t>>
        /\ UNCHANGED <<k, anyFail>>
  /\ UNCHANGED <<plays, fan, out, dead, marker, cancelled, bad>>

(* The loop over the batches; after the last one the post hooks, if        *)
(* nothing failed.                                                         *)
NextBatch ==
  /\ step = "batch"
  /\ \/ /\ batches # <<>>
        /\ ~cancelled
        /\ batches' = Tail(batches)
        /\ StartBatch(Head(batches))
        /\ UNCHANGED <<section, failed>>
     \/ /\ batches # <<>>
        /\ cancelled
        /\ failed' = TRUE
        /\ step' = "finish"
        /\ UNCHANGED <<section, batches, batch, alive, notified, batchFailed, t>>
     \/ /\ batches = <<>>
        /\ ~failed /\ play.post # <<>>
        /\ section' = "post"
        /\ StartBatch(hosts)
        /\ UNCHANGED <<batches, failed>>
     \/ /\ batches = <<>>
        /\ failed \/ play.post = <<>>
        /\ step' = "finish"
        /\ UNCHANGED <<section, batches, batch, alive, notified, batchFailed, t, failed>>
  /\ UNCHANGED <<plays, k, hosts, fan, out, anyFail, dead, journal, marker, cancelled, ghosts>>

(* The goroutines a fan-out starts: all live targets, or the first one.    *)
FanOut(targets, next) ==
  /\ fan' = [h \in Hosts |-> IF h \in targets THEN "todo" ELSE "none"]
  /\ step' = next

FirstAlive == {batch[i] : i \in {j \in DOMAIN batch :
                 batch[j] \in alive /\ \A l \in 1 .. j - 1 : batch[l] \notin alive}}

(* runBatchTasks: cancelled, the next task, or on to the handlers.         *)
NextTask ==
  /\ step = "task"
  /\ \/ /\ t <= Len(Tasks) /\ cancelled
        /\ batchFailed' = TRUE
        /\ step' = "judge"
        /\ UNCHANGED <<t, fan>>
     \/ /\ t <= Len(Tasks) /\ ~cancelled
        /\ FanOut(IF Tasks[t].once THEN FirstAlive ELSE alive, "fanTask")
        /\ UNCHANGED <<t, batchFailed>>
     \/ /\ t > Len(Tasks)
        /\ t' = 1
        /\ step' = "handler"
        /\ UNCHANGED <<fan, batchFailed>>
  /\ UNCHANGED <<plays, k, section, hosts, batches, batch, alive, out, notified, failed,
                 anyFail, dead, journal, marker, cancelled, ghosts>>

(* A worker takes a slot of the semaphore and runs the task on its host.   *)
Start(h) ==
  /\ fan[h] = "todo"
  /\ Cardinality({g \in Hosts : fan[g] = "busy"}) < Forks
  /\ fan' = [fan EXCEPT ![h] = "busy"]
  /\ UNCHANGED <<control, alive, out, notified, verdict, dead, journal, marker,
                 cancelled, ghosts>>

Notifies(r) == IF step = "fanTask" /\ r = "changed" THEN Tasks[t].notify ELSE {}

(* The task ends on a host: its change is registered, its handlers are     *)
(* notified, the result is handed over.  A handler's own notify comes      *)
(* after collectNotified and is not looked at any more.                    *)
Done(h) ==
  /\ fan[h] = "busy"
  /\ \E r \in IF step = "fanGate" THEN {"ok", "failed", "unreachable"} ELSE Outcomes :
       /\ out' = [out EXCEPT ![h] = r]
       /\ journal' = [journal EXCEPT ![h] = IF r \in {"changed", "dirty"} THEN @ + 1 ELSE @]
       /\ notified' = [notified EXCEPT ![h] = @ \cup Notifies(r)]
       /\ stale' = [stale EXCEPT ![h] =
            IF step = "fanHandler" THEN @ \ {play.handlers[t]} ELSE @ \cup Notifies(r)]
  /\ fan' = [fan EXCEPT ![h] = "done"]
  /\ UNCHANGED <<control, alive, verdict, dead, marker, cancelled, passed, stuck, bad>>

FanEnds == \A h \in Hosts : fan[h] \in {"none", "done"}

(* recordResult, markDead: hosts whose result takes them out of the run.   *)
Lost(ignore) ==
  {h \in Hosts : out[h] = "unreachable" \/ (out[h] \in {"failed", "dirty"} /\ ~ignore)}

(* Mutant of DropHosts: a lost host stays in its batch.                    *)
DropFromRunOnly(lost) ==
  /\ UNCHANGED alive
  /\ dead' = dead \cup lost
  /\ bad' = bad \cup lost
  /\ fan' = Idle
  /\ out' = Idle

DropHosts(lost) ==
  /\ alive' = alive \ lost
  /\ dead' = dead \cup lost
  /\ bad' = bad \cup lost
  /\ fan' = Idle
  /\ out' = Idle

(* The results of a task; run_once copies its result to the others.        *)
CollectTask ==
  /\ step = "fanTask"
  /\ FanEnds
  /\ LET ran  == {h \in Hosts : fan[h] = "done"}
         lost == IF Tasks[t].once /\ Lost(Tasks[t].ignore) # {}
                 THEN alive ELSE Lost(Tasks[t].ignore)
     IN /\ DropHosts(lost)
        /\ batchFailed' = (batchFailed \/ lost # {})
        /\ notified' = IF Tasks[t].once /\ \E h \in ran : out[h] = "changed"
                       THEN [h \in Hosts |-> IF h \in alive THEN notified[h] \cup Tasks[t].notify
                                             ELSE notified[h]]
                       ELSE notified
  /\ t' = t + 1
  /\ step' = IF alive' = {} THEN "judge" ELSE "task"
  /\ UNCHANGED <<plays, k, section, hosts, batches, batch, failed, anyFail, journal, marker,
                 cancelled, passed, stuck, stale>>

(* Mutants of Notified: every handler everywhere; handlers only at the end *)
(* of the play.                                                            *)
NotifiedOrNot(handler) == alive
NotifiedAtLast(handler) ==
  {h \in alive : batches = <<>> /\ handler \in notified[h]}

(* collectNotified.                                                        *)
Notified(handler) == {h \in alive : handler \in notified[h]}

(* flushHandlers: each handler on the live hosts that notified it.         *)
NextHandler ==
  /\ step = "handler"
  /\ IF t <= Len(play.handlers)
     THEN FanOut(Notified(play.handlers[t]), "fanHandler")
     ELSE step' = "judge" /\ UNCHANGED fan
  /\ UNCHANGED <<plays, k, section, hosts, batches, batch, t, alive, out, notified, verdict,
                 dead, journal, marker, cancelled, ghosts>>

CollectHandler ==
  /\ step = "fanHandler"
  /\ FanEnds
  /\ DropHosts(Lost(FALSE))
  /\ batchFailed' = (batchFailed \/ Lost(FALSE) # {})
  /\ t' = t + 1
  /\ step' = "handler"
  /\ UNCHANGED <<plays, k, section, hosts, batches, batch, notified, failed, anyFail, journal,
                 marker, cancelled, passed, stuck, stale>>

-----------------------------------------------------------------------------
(* After a batch.                                                          *)
Strategic == play.strategy # "none"

(* Mutant of Abort: no break out of the loop.                              *)
AbortGoesOn == failed' = TRUE /\ step' = "batch"

(* A failed batch or gate under a strategy ends the batches.               *)
Abort ==
  /\ failed' = TRUE
  /\ step' = IF play.rollback THEN "rollback" ELSE "finish"

Judge ==
  /\ step = "judge"
  /\ \/ /\ section = "pre" /\ ~batchFailed
        /\ section' = "main" /\ step' = "batch"
        /\ UNCHANGED <<failed, passed>>
     \/ /\ section \in {"pre", "post"} /\ batchFailed
        /\ failed' = TRUE /\ step' = "finish"
        /\ UNCHANGED <<section, passed>>
     \/ /\ section = "post" /\ ~batchFailed
        /\ step' = "finish"
        /\ UNCHANGED <<section, failed, passed>>
     \/ /\ section = "main" /\ ~Strategic         \* serial: go on whatever happened
        /\ failed' = (failed \/ batchFailed)
        /\ passed' = IF batchFailed THEN passed ELSE passed \cup ToSet(batch)
        /\ step' = "batch"
        /\ UNCHANGED section
     \/ /\ section = "main" /\ Strategic /\ batchFailed
        /\ Abort
        /\ UNCHANGED <<section, passed>>
     \/ /\ section = "main" /\ Strategic /\ ~batchFailed
        /\ IF play.gate THEN step' = "gate" /\ UNCHANGED passed
                        ELSE step' = "batch" /\ passed' = passed \cup ToSet(batch)
        /\ UNCHANGED <<section, failed>>
  /\ UNCHANGED <<plays, k, hosts, batches, batch, t, alive, fan, out, notified, batchFailed,
                 anyFail, dead, journal, marker, cancelled, stuck, stale, bad>>

Gate ==
  /\ step = "gate"
  /\ FanOut(alive, "fanGate")
  /\ UNCHANGED <<plays, k, section, hosts, batches, batch, t, alive, out, notified, verdict,
                 dead, journal, marker, cancelled, ghosts>>

CollectGate ==
  /\ step = "fanGate"
  /\ FanEnds
  /\ DropHosts(Lost(FALSE))
  /\ \/ /\ Lost(FALSE) # {} \/ alive = {}
        /\ Abort
        /\ UNCHANGED passed
     \/ /\ Lost(FALSE) = {} /\ alive # {}
        /\ step' = "batch"
        /\ passed' = passed \cup ToSet(batch)
        /\ UNCHANGED failed
  /\ UNCHANGED <<plays, k, section, hosts, batches, batch, t, notified, batchFailed, anyFail,
                 journal, marker, cancelled, stuck, stale>>

(* Mutants of ToUndo: hosts still alive; every host of the play.           *)
ToUndoAlive == alive
ToUndoPlay == ToSet(hosts)

(* The hosts rollbackBatch goes through: all of the batch, dead ones too.  *)
ToUndo == ToSet(batch)

(* rollbackBatch, on a context of its own; what it replays on one host is  *)
(* module Rollback.                                                        *)
RollbackBatch ==
  /\ step = "rollback"
  /\ \E broken \in SUBSET {h \in ToUndo : journal[h] > 0} :
       /\ journal' = [h \in Hosts |-> IF h \in ToUndo \ broken THEN 0 ELSE journal[h]]
       /\ stuck' = broken
  /\ step' = "finish"
  /\ UNCHANGED <<plays, k, section, hosts, batches, batch, t, alive, fan, out, notified, verdict,
                 dead, marker, cancelled, passed, stale, bad>>

(* Mutant of Marked: hosts that did not fail themselves.                   *)
MarkedIfAlive == ToSet(hosts) \ dead

(* The hosts finishPlay marks as released, in a deploy phase.              *)
Marked == IF failed THEN {} ELSE ToSet(hosts)

(* Mutant of FinishPlay: the play is run again.                            *)
FinishAndRepeat ==
  /\ step = "finish"
  /\ anyFail' = (anyFail \/ failed)
  /\ step' = "select"
  /\ UNCHANGED <<plays, k, section, hosts, batches, batch, t, alive, fan, out, notified,
                 batchFailed, failed, dead, journal, marker, cancelled, ghosts>>

(* finishPlay writes the markers (best effort), Run goes to the next play. *)
FinishPlay ==
  /\ step = "finish"
  /\ \E unwritten \in SUBSET Marked :
       marker' = marker \cup (Marked \ unwritten)
  /\ anyFail' = (anyFail \/ failed)
  /\ k' = k + 1
  /\ step' = "select"
  /\ UNCHANGED <<plays, section, hosts, batches, batch, t, alive, fan, out, notified,
                 batchFailed, failed, dead, journal, cancelled, ghosts>>

Cancel ==
  /\ ~cancelled
  /\ step # "end"
  /\ cancelled' = TRUE
  /\ UNCHANGED <<control, alive, fan, out, notified, verdict, dead, journal, marker, ghosts>>

Executor == \/ SelectHosts \/ NextBatch \/ NextTask \/ CollectTask \/ NextHandler
            \/ CollectHandler \/ Judge \/ Gate \/ CollectGate \/ RollbackBatch
            \/ FinishPlay

Ended == step = "end" /\ UNCHANGED vars

Next == \/ Executor
        \/ \E h \in Hosts : Start(h) \/ Done(h)
        \/ Cancel
        \/ Ended

Spec == Init /\ [][Next]_vars

(* The executor and its workers run; modules return (they have timeouts).  *)
FairSpec ==
  /\ Spec
  /\ WF_vars(Executor)
  /\ \A h \in Hosts : WF_vars(Start(h)) /\ WF_vars(Done(h))

-----------------------------------------------------------------------------
RunsMain(h) == fan[h] = "busy" /\ step = "fanTask" /\ section = "main"

(* Under a strategy no host gets a main task before every host ahead of    *)
(* its batch went through tasks, handlers and gate; with a canary that     *)
(* holds for the first host whatever the batch size ("金丝雀").             *)
GuardedRollout ==
  \A h \in Hosts : RunsMain(h) /\ Strategic =>
    \A i \in DOMAIN hosts :
      \/ hosts[i] \in passed
      \/ hosts[i] = h
      \/ \E j \in 1 .. i : hosts[j] = h
      \/ hosts[i] \in ToSet(batch) /\ ~(play.strategy = "canary" /\ i = 1)

(* A host that failed or became unreachable gets nothing more in this run: *)
(* not a task, not a handler, not a gate, in this play or a later one.     *)
LostStayOut == \A h \in bad : fan[h] = "none"

(* A rollout goes from batch to batch, and only with hosts that are well.  *)
RolloutKept == GuardedRollout /\ LostStayOut

(* A handler runs where a change asked for it and only there ("h2 未变更则  *)
(* 不在 h2 重启服务"); a run_once task asks on behalf of the whole batch, and *)
(* handlers of one name run one after the other.                           *)
HandlerNeeded ==
  \A h \in Hosts : step = "fanHandler" /\ fan[h] = "busy" =>
    \/ play.handlers[t] \in stale[h]
    \/ \E i \in DOMAIN Tasks : Tasks[i].once /\ play.handlers[t] \in Tasks[i].notify
    \/ \E j \in 1 .. t - 1 : play.handlers[j] = play.handlers[t]

(* A batch counts as gone through only when every handler of the play that *)
(* its changes notified has run since, on every host still in the run; and *)
(* so do the post hooks of a play that ends well.                          *)
HandlersSawChanges ==
  step \notin {"select", "end"} /\ (section = "main" \/ (step = "finish" /\ ~failed)) =>
    \A h \in passed \ bad : stale[h] \cap ToSet(play.handlers) = {}

(* Handlers run where they were asked for, and everywhere they were.       *)
HandlersMatch == HandlerNeeded /\ HandlersSawChanges

(* With auto_rollback a batch is all or nothing: when the play ends after  *)
(* a batch of main tasks, a host of that batch which failed, was cancelled *)
(* or missed the gate has no change left, pre hook included; a host whose  *)
(* rollback failed is reported and excepted.                               *)
MainBatchRan == batches # PlayBatches(hosts)
BatchAtomic ==
  step = "finish" /\ section = "main" /\ Strategic /\ play.rollback /\ MainBatchRan =>
    \A h \in ToSet(batch) : h \notin passed \cup stuck => journal[h] = 0

(* ... and the rollback of a batch leaves the hosts of the batches that    *)
(* went through as they are: a host has all changes of its batch or none.  *)
UndoneOrKept ==
  [][/\ BatchAtomic'
     /\ step = "rollback" => \A h \in passed : journal'[h] = journal[h]]_vars

(* A marker is written in a play only when every host of that play went    *)
(* through all of it, post hooks included.                                 *)
MarkerMeansDone ==
  [][\A h \in marker' : h \in marker \/ (ToSet(hosts) \subseteq passed \ bad)]_vars

(* No marker is written in a run in which a play has failed ("部署成功后写   *)
(* release marker").                                                       *)
MarkerAfterSuccess == [][marker' # marker => ~anyFail]_vars

(* The run ends, whatever fails and whenever it is cancelled.              *)
RunEnds == <>(step = "end")
=============================================================================
