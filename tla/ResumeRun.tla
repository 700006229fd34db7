----------------------------- MODULE ResumeRun -----------------------------
(***************************************************************************)
(* One autonomous run on one agent across the deaths of its process: the   *)
(* numbering of a compiled plan (src/internal/plan/compile.go), the plays  *)
(* RunPlan rebuilds from the shard (src/internal/executor/planrun.go), the *)
(* progress journal with one synced line per result                        *)
(* (src/internal/agent/journal.go) and the set of finished tasks a resumed *)
(* submission skips (src/internal/agent/apply.go).                         *)
(*                                                                         *)
(* Plans is a function from plan_id to the plays of the shard; a play is   *)
(* [hosts: sequence, tasks: sequence of [notify: set, once: BOOLEAN],      *)
(*  handlers: sequence of names, rollback: BOOLEAN].                       *)
(* The items of a play are its tasks, then its handlers.                   *)
(***************************************************************************)
EXTENDS Integers, Sequences, FiniteSets, SequencesExt

CONSTANTS Plans, None,
          MaxCrashes,      \* bound on deaths of the process
          MaxFailures,     \* bound on failed module calls
          TornWrites       \* TRUE: a journal line may be cut short

PlanIds == DOMAIN Plans

Hosts == UNION {UNION {ToSet(Plans[p][j].hosts) : j \in DOMAIN Plans[p]} : p \in PlanIds}

ASSUME ResumeAssumption ==
  /\ None \notin PlanIds
  /\ MaxCrashes \in Nat /\ MaxFailures \in Nat
  /\ TornWrites \in BOOLEAN

(* A shard lists plays, a play its hosts, tasks and handlers; no shard is  *)
(* empty, as it is made of the entries of a play on a host.                *)
IsList(s) == Len(s) \in Nat /\ DOMAIN s = 1 .. Len(s)

ASSUME PlansAssumption ==
  \A p \in PlanIds :
    /\ IsList(Plans[p]) /\ Len(Plans[p]) > 0
    /\ \A j \in DOMAIN Plans[p] :
         /\ IsList(Plans[p][j].hosts) /\ Len(Plans[p][j].hosts) > 0
         /\ IsList(Plans[p][j].tasks) /\ IsList(Plans[p][j].handlers)

VARIABLES state,        \* of the process: idle, running, done, failed
          plan,         \* plan_id of the run
          resumed,      \* the submission asked for resume
          skip,         \* Options.SkipDone: <<host, idx>> pairs
          k, t,         \* current play and item
          alive,        \* hosts of the play still in it
          dead,         \* Executor.deadHosts
          out,          \* result of the item on each host, "" before
          notified,     \* hostRun.notified
          anyFail,
          journal,      \* journal.ndjson: the set of lines that parse
          torn,         \* the file ends in the middle of a line
          planId,       \* the file plan.id
          crashes, failures,
          applied,      \* ghost: <<plan, host, play, item>> in effect there
          committed     \* ghost: items with a whole ok or changed line

run == <<state, plan, resumed, skip>>
cursor == <<k, t, alive, dead, notified, anyFail>>
file == <<journal, torn, planId>>
bounds == <<crashes, failures>>
ghosts == <<applied, committed>>
vars == <<run, cursor, out, file, bounds, ghosts>>

-----------------------------------------------------------------------------
(* Compile counts the items of a host over all its plays, from 1 (0 is     *)
(* reserved); RunPlan takes the items of a play, with their numbers, from  *)
(* the last HostPlan of that play in the shard.                            *)
Items(play) == Len(play.tasks) + Len(play.handlers)

Counter(p, h) ==
  LET next[j \in 0 .. Len(Plans[p])] ==
        IF j = 0 THEN 1
        ELSE next[j - 1] + IF h \in ToSet(Plans[p][j].hosts) THEN Items(Plans[p][j]) ELSE 0
  IN next

Number(p, h, j, i) == Counter(p, h)[j - 1] + i - 1

PlanIdx(p, j, i) == Number(p, Last(Plans[p][j].hosts), j, i)

-----------------------------------------------------------------------------
play == Plans[plan][k]

InTasks == t <= Len(play.tasks)
Handler == play.handlers[t - Len(play.tasks)]
Once == InTasks /\ play.tasks[t].once

(* The live hosts of the current item, and the one a run_once task runs on.*)
Targets == {h \in alive : InTasks \/ Handler \in notified[h]}

FirstAlive == {play.hosts[i] : i \in {j \in DOMAIN play.hosts :
                 play.hosts[j] \in alive /\ \A l \in 1 .. j - 1 : play.hosts[l] \notin alive}}

Runners == IF Once THEN FirstAlive ELSE Targets

Nothing == [h \in Hosts |-> ""]

Results == {"ok", "changed", "failed", "skipped"}

TypeOK ==
  /\ state \in {"idle", "running", "done", "failed"}
  /\ plan \in PlanIds \cup {None} /\ planId \in PlanIds \cup {None}
  /\ resumed \in BOOLEAN /\ anyFail \in BOOLEAN /\ torn \in BOOLEAN
  /\ skip \subseteq Hosts \X (Nat \ {0})
  /\ k \in Nat /\ t \in Nat
  /\ alive \subseteq Hosts /\ dead \subseteq Hosts
  /\ out \in [Hosts -> Results \cup {"", "written"}]
  /\ journal \subseteq Hosts \X (Nat \ {0}) \X Results
  /\ crashes \in 0 .. MaxCrashes /\ failures \in 0 .. MaxFailures

Init ==
  /\ state = "idle" /\ plan = None /\ resumed = FALSE /\ skip = {}
  /\ k = 1 /\ t = 1 /\ alive = {} /\ dead = {} /\ anyFail = FALSE
  /\ out = Nothing
  /\ notified = [h \in Hosts |-> {}]
  /\ journal = {} /\ torn = FALSE /\ planId = None
  /\ crashes = 0 /\ failures = 0
  /\ applied = {} /\ committed = {}

-----------------------------------------------------------------------------
(* Mutants of Completed: every line counts; a change does not.             *)
CompletedOrFailed == {<<line[1], line[2]>> : line \in journal}
CompletedUnchanged == {<<line[1], line[2]>> : line \in {l \in journal : l[3] = "ok"}}

(* CompletedIdx.                                                           *)
Completed == {<<line[1], line[2]>> : line \in {l \in journal : l[3] \in {"ok", "changed"}}}

(* handlePlanSubmit in a process that does not know the run (one that does *)
(* answers with it, module AgentRun).  The control host derives the run_id *)
(* from the plan_id (autonomousRunID), so plan.id is absent or the same; a *)
(* fresh start writes it and leaves the journal.                           *)
Submit(p, resume) ==
  /\ state = "idle"
  /\ planId \in {None, p}
  /\ state' = "running"
  /\ plan' = p /\ planId' = p
  /\ resumed' = resume
  /\ skip' = IF resume /\ planId = p THEN Completed ELSE {}
  /\ k' = 1 /\ t' = 1 /\ anyFail' = FALSE
  /\ alive' = ToSet(Plans[p][1].hosts)
  /\ dead' = {}
  /\ notified' = [h \in Hosts |-> {}]
  /\ UNCHANGED <<out, journal, torn, bounds, ghosts>>

InPlay == state = "running" /\ k <= Len(Plans[plan])

Working == InPlay /\ t <= Items(play)

Skips(h) == <<h, PlanIdx(plan, k, t)>> \in skip

(* The hosts a result of h counts for: the copies of a run_once result.    *)
For(h) == IF Once THEN Targets ELSE {h}

Told(r) == IF InTasks /\ r = "changed" THEN play.tasks[t].notify ELSE {}

(* Whether a module reports ok or changed matters where it notifies.       *)
Possible(h, r) ==
  /\ (r = "skipped") = Skips(h)
  /\ r = "failed" => failures < MaxFailures
  /\ r = "ok" => Told("changed") # {}

(* runTaskOnHost: the item is skipped as finished, or its module is called.*)
Execute(h) ==
  /\ Working
  /\ h \in Runners /\ out[h] = ""
  /\ \E r \in Results :
       /\ Possible(h, r)
       /\ failures' = IF r = "failed" THEN failures + 1 ELSE failures
       /\ out' = [g \in Hosts |-> IF g \in For(h) THEN r ELSE out[g]]
       /\ notified' = [g \in Hosts |-> IF g \in For(h) THEN notified[g] \cup Told(r) ELSE notified[g]]
       /\ applied' = IF r \in {"ok", "changed"}
                     THEN applied \cup {<<plan, g, k, t>> : g \in For(h)} ELSE applied
  /\ UNCHANGED <<run, k, t, alive, dead, anyFail, file, crashes, committed>>

FanOutOver == \A h \in Runners : out[h] # ""

(* The copies of a run_once result follow it in the order of the play.     *)
InTurn(h) ==
  Once => \E i \in DOMAIN play.hosts :
            play.hosts[i] = h /\ \A j \in 1 .. i - 1 : out[play.hosts[j]] \notin Results

(* HostResult after the fan-out: one journal line, synced; a line that     *)
(* follows a torn one is lost with it.  A failure takes the host out.      *)
WriteLine(h) ==
  /\ Working /\ FanOutOver
  /\ out[h] \in Results /\ InTurn(h)
  /\ IF torn
     THEN journal' = journal /\ torn' = FALSE
     ELSE /\ journal' = journal \cup {<<h, PlanIdx(plan, k, t), out[h]>>}
          /\ UNCHANGED torn
  /\ committed' = IF out[h] \in {"ok", "changed"} /\ ~torn
                  THEN committed \cup {<<plan, h, k, t>>} ELSE committed
  /\ out' = [out EXCEPT ![h] = "written"]
  /\ alive' = IF out[h] = "failed" THEN alive \ {h} ELSE alive
  /\ dead' = IF out[h] = "failed" THEN dead \cup {h} ELSE dead
  /\ anyFail' = (anyFail \/ out[h] = "failed")
  /\ UNCHANGED <<run, k, t, notified, planId, bounds, applied>>

NextItem ==
  /\ Working /\ FanOutOver
  /\ \A h \in Hosts : out[h] \in {"", "written"}
  /\ t' = t + 1
  /\ out' = Nothing
  /\ UNCHANGED <<run, k, alive, dead, notified, anyFail, file, bounds, ghosts>>

(* The play is over; under auto_rollback a failed one is undone, while the *)
(* journal keeps its lines.  The next play runs whatever happened.         *)
PlayFailed == ToSet(play.hosts) \cap dead # {}

NextPlay ==
  /\ InPlay /\ t > Items(play)
  /\ applied' = IF play.rollback /\ PlayFailed
                THEN {a \in applied : ~(a[1] = plan /\ a[2] \in ToSet(play.hosts) /\ a[3] = k)}
                ELSE applied
  /\ k' = k + 1
  /\ t' = 1
  /\ alive' = IF k = Len(Plans[plan]) THEN {} ELSE ToSet(Plans[plan][k + 1].hosts) \ dead
  /\ notified' = [h \in Hosts |-> {}]
  /\ UNCHANGED <<run, dead, anyFail, out, file, bounds, committed>>

Finish ==
  /\ state = "running" /\ ~InPlay
  /\ state' = IF anyFail THEN "failed" ELSE "done"
  /\ UNCHANGED <<plan, resumed, skip, cursor, out, file, bounds, ghosts>>

(* The process ends, perhaps in the middle of a journal line, and a new    *)
(* one knows only the run directory.                                       *)
Crash ==
  /\ state # "idle"
  /\ crashes < MaxCrashes
  /\ crashes' = crashes + 1
  /\ state' = "idle" /\ plan' = None /\ resumed' = FALSE /\ skip' = {}
  /\ k' = 1 /\ t' = 1 /\ alive' = {} /\ dead' = {} /\ anyFail' = FALSE
  /\ notified' = [h \in Hosts |-> {}]
  /\ out' = Nothing
  /\ \/ UNCHANGED torn
     \/ TornWrites /\ Working /\ FanOutOver /\ torn' = TRUE
  /\ UNCHANGED <<journal, planId, failures, ghosts>>

Next ==
  \/ \E p \in PlanIds, resume \in BOOLEAN : Submit(p, resume)
  \/ \E h \in Hosts : Execute(h) \/ WriteLine(h)
  \/ NextItem \/ NextPlay \/ Finish \/ Crash

Spec == Init /\ [][Next]_vars

-----------------------------------------------------------------------------
(* A run reported done has every task of its plan in effect on every host  *)
(* of the task's play, over all the attempts it took.                      *)
DoneMeansApplied ==
  state = "done" => \A j \in DOMAIN Plans[plan] : \A h \in ToSet(Plans[plan][j].hosts) :
    \A i \in DOMAIN Plans[plan][j].tasks : <<plan, h, j, i>> \in applied

(* A resumed run does not repeat a finished item ("已 ok/changed 的任务不重    *)
(* 做"), nor a run_once task some host of the batch has finished.           *)
Finished(h) == \E g \in (IF Once THEN ToSet(play.hosts) ELSE {h}) :
                 <<plan, g, k, t>> \in committed
NoRedo ==
  [][\A h \in Hosts : resumed /\ Working /\ h \in Runners /\ out[h] = "" /\ out'[h] \in Results
       => out'[h] = "skipped" \/ ~Finished(h)]_vars
=============================================================================
