------------------------------ MODULE TaskLogic ------------------------------
(***************************************************************************)
(* One task on one host: runTaskOnHost (src/internal/executor/task.go) with*)
(* when, loop, until, retries, changed_when, failed_when, register and     *)
(* notify, and the tasks that contain tasks: block/rescue/always and the   *)
(* reference of a chart (expand.go), filtered by tags (tags.go).  The Go   *)
(* calls recurse; here their frames are the variable stack.  A module call *)
(* ends in every way it can.  log is a history of what was run.  The name  *)
(* of a task stands for its place in the playbook.                         *)
(***************************************************************************)
EXTENDS Naturals, Sequences, FiniteSets, SequencesExt

CONSTANTS Tasks,          \* every task there is, in whatever other
          Trees,          \* the tasks to run
          Charts,         \* a function from the names of charts to their tasks
          MaxChartDepth,  \* of chart references
          Selections      \* [tags, skip]: the values of --tags and --skip-tags

VARIABLES opts,           \* the selection of this run
          stack,          \* the frames of the tasks begun, the innermost last
          vars,           \* [block_failed, regs] of the current scope
          notified,       \* handlers
          log             \* what was entered, run and left

state == <<opts, stack, vars, notified, log>>

None == "none"

Kinds == {"module", "block", "chart"}
Judgements == {None, "yes", "no", "error"}

(* What a task can hold.                                                   *)
TaskAssumption ==
  \A t \in Tasks :
    /\ t.kind \in Kinds
    /\ {t.looped, t.until, t.delay, t.ignore} \subseteq BOOLEAN
    /\ t.items \in Nat /\ t.retries \in Nat
    /\ {t.block, t.rescue, t.always} \subseteq Seq(Tasks)
    /\ {t.changed_when, t.failed_when} \subseteq Judgements

(* A place holds one task, and is in one place of the tasks around it.     *)
PlaceAssumption ==
  /\ \A t, u \in Tasks : t.name = u.name => t = u
  /\ \A t \in Tasks : IsInjective(t.block) /\ IsInjective(t.rescue) /\ IsInjective(t.always)
  /\ \A c \in DOMAIN Charts : IsInjective(Charts[c])

(* The fields of a task with other tasks are blocks; a chart is a list.    *)
TreeAssumption ==
  /\ Trees \subseteq Tasks
  /\ \A c \in DOMAIN Charts : Charts[c] \in Seq(Tasks)
  /\ MaxChartDepth \in Nat

ASSUME TaskLogicAssumption == TaskAssumption /\ PlaceAssumption /\ TreeAssumption

(* A task result.                                                          *)
Res(changed, failed, lost) == [changed |-> changed, failed |-> failed, skipped |-> FALSE, lost |-> lost]
Ok == Res(FALSE, FALSE, FALSE)
Failed == Res(FALSE, TRUE, FALSE)
Lost == Res(FALSE, FALSE, TRUE)
Skipped == [Ok EXCEPT !.skipped = TRUE]
Clean(r) == ~r.failed /\ ~r.lost

Fresh == [block_failed |-> FALSE, regs |-> <<>>]

-----------------------------------------------------------------------------
(* tags.go.  A block is in when it, what it inherits or one of its         *)
(* descendants is asked for, unless it is to be skipped.                   *)
Below(t) == ToSet(t.block) \cup ToSet(t.rescue) \cup ToSet(t.always)

SelectedBy(o, t, inherited) ==
  LET selected[x \in Tasks, above \in SUBSET UNION {u.tags : u \in Tasks}] ==
        LET own == above \cup x.tags
        IN /\ o.skip \cap own = {}
           /\ \/ o.tags = {} \/ o.tags \cap own # {}
              \/ \E child \in Below(x) : selected[child, own]
  IN selected[t, inherited]

BlockSelected(t, inherited) == SelectedBy(opts, t, inherited)

TaskSelected(t) ==
  IF t.kind = "block" THEN BlockSelected(t, {})
  ELSE IF opts.tags # {} THEN opts.tags \cap t.tags # {} ELSE opts.skip \cap t.tags = {}

(* The tasks a frame goes through, and those of them that it has not come  *)
(* to and that are selected: runSeq passes the block's own tags on.        *)
Children(f) == IF f.part = "chart" THEN Charts[f.task.ref] ELSE f.task[f.part]

Selected(f, t) == IF f.part = "chart" THEN TaskSelected(t) ELSE BlockSelected(t, f.task.tags)

Ahead(f) == {i \in DOMAIN Children(f) : i > f.pos /\ Selected(f, Children(f)[i])}

Sequences == {"block", "rescue", "always", "chart"}

-----------------------------------------------------------------------------
(* A frame: where the task is, its result so far, the item and the         *)
(* attempts it has left, whether its block failed, and the variables a     *)
(* chart replaces.                                                         *)
Frame(t) == [task |-> t, part |-> "start", pos |-> 0, item |-> 1, left |-> 0,
             res |-> Ok, failed |-> FALSE, saved |-> Fresh]

Top == Last(stack)
Go(f) == [stack EXCEPT ![Len(stack)] = f]
Ends(r) == [Top EXCEPT !.part = "end", !.res = r]
Path == [i \in DOMAIN stack |->
           [name |-> stack[i].task.name, part |-> stack[i].part, item |-> stack[i].item]]
Noted(what, r) == Append(log, [what |-> what, path |-> Path, res |-> r])

Depth == Cardinality({i \in DOMAIN stack : stack[i].part = "chart"})
Items(t) == IF t.looped THEN t.items ELSE 1

Registered(t, v, r) ==
  IF t.register = None THEN v
  ELSE [v EXCEPT !.regs = [x \in DOMAIN v.regs \cup {t.register} |-> IF x = t.register THEN r ELSE v.regs[x]]]

(* Mutant of Notify: a failed task notifies too.                           *)
NotifyAnyway(t, r) == IF r.changed THEN notified \cup t.notify ELSE notified

Notify(t, r) == IF r.changed /\ ~r.failed THEN notified \cup t.notify ELSE notified

Init ==
  /\ opts \in Selections
  /\ \E t \in Trees : TaskSelected(t) /\ stack = <<Frame(t)>>
  /\ vars = Fresh
  /\ notified = {}
  /\ log = <<>>

(* when, and what else is rendered before anything runs; the skip set of a *)
(* resumed run behaves as a condition that does not hold.  A variable that *)
(* is not there is an error.                                               *)
Holds(t) == t.when = "yes" \/ (t.when = "block_failed" /\ vars.block_failed)
Unrendered(t) == t.when = "error" \/ (t.when = "block_failed" /\ ~vars.block_failed)

Skip ==
  /\ stack # <<>> /\ Top.part = "start" /\ Top.task.when = "no"
  /\ stack' = Go(Ends(Skipped))
  /\ vars' = Registered(Top.task, vars, Skipped)
  /\ UNCHANGED <<notified, log, opts>>

Unexpandable(t) == t.kind = "chart" /\ (Depth >= MaxChartDepth \/ t.ref \notin DOMAIN Charts)

Refused ==
  /\ stack # <<>> /\ Top.part = "start"
  /\ Unrendered(Top.task) \/ (Holds(Top.task) /\ Unexpandable(Top.task))
  /\ stack' = Go(Ends(Failed))
  /\ UNCHANGED <<vars, notified, log, opts>>

(* A chart has variables of its own, again for every item.                 *)
Begin ==
  /\ stack # <<>> /\ Top.part = "start" /\ Holds(Top.task) /\ ~Unexpandable(Top.task)
  /\ LET t == Top.task IN
     CASE t.kind = "block" -> stack' = Go([Top EXCEPT !.part = "block"]) /\ vars' = vars
       [] t.kind = "chart" -> stack' = Go([Top EXCEPT !.part = "chart", !.saved = vars]) /\ vars' = Fresh
       [] t.kind = "module" ->
            stack' = Go([Top EXCEPT !.part = IF Items(t) = 0 THEN "judge" ELSE "item"]) /\ vars' = vars
  /\ log' = Noted("enter", Ok)
  /\ UNCHANGED <<notified, opts>>

-----------------------------------------------------------------------------
(* execModule for one item.                                                *)
Attempts(t) == IF t.until /\ t.retries = 0 THEN 3 ELSE t.retries + 1

(* aggregateLoopResults: what follows an unreachable item is not looked at.*)
Aggregate(sum, r) ==
  IF sum.lost THEN sum
  ELSE [sum EXCEPT !.changed = @ \/ (r.changed /\ ~r.lost), !.failed = @ \/ (r.failed /\ ~r.lost), !.lost = r.lost]

EndItem(r) ==
  LET t == Top.task
      sum == IF t.looped THEN Aggregate(Top.res, r) ELSE r
      more == Top.item < Items(t)
  IN /\ stack' = Go([Top EXCEPT
           !.res = sum, !.item = @ + 1, !.left = 0,
           !.part = IF more THEN "item" ELSE IF t.looped /\ sum.lost THEN "end" ELSE "judge"])
     /\ log' = Noted("item", r)
     /\ UNCHANGED <<vars, notified, opts>>

(* No connection, or arguments that cannot be rendered or are not valid.   *)
NoCall ==
  /\ stack # <<>> /\ Top.part = "item"
  /\ \E r \in {Lost, Failed} : EndItem(r)

Prepare ==
  /\ stack # <<>> /\ Top.part = "item"
  /\ stack' = Go([Top EXCEPT !.part = "attempt", !.left = Attempts(Top.task)])
  /\ UNCHANGED <<vars, notified, log, opts>>

Outcomes == [changed : BOOLEAN, failed : BOOLEAN, skipped : {FALSE}, lost : {FALSE}]

(* Mutant of NextAttempt: the item begins anew.                            *)
NextAttemptAnew(f) == [f EXCEPT !.part = "item"]

NextAttempt(f) == [f EXCEPT !.left = @ - 1]

(* retryUntil and retryOnFailure: the condition is met, is not, or cannot  *)
(* be rendered; the last attempt counts.                                   *)
Attempt ==
  /\ stack # <<>> /\ Top.part = "attempt"
  /\ \E r \in Outcomes, met \in IF Top.task.until THEN {"yes", "no", "error"} ELSE {"yes"} :
       LET again == Top.left > 1 /\ IF Top.task.until THEN met = "no" ELSE r.failed
       IN IF again THEN stack' = Go(NextAttempt(Top)) /\ UNCHANGED <<vars, notified, log, opts>>
          ELSE EndItem(IF met = "yes" THEN r ELSE [r EXCEPT !.failed = TRUE])

(* The timeout of the task ends the delay before the next attempt.  Without*)
(* until the result of the attempt before stays.                           *)
TimedOut ==
  /\ stack # <<>> /\ Top.part = "attempt" /\ Top.left < Attempts(Top.task)
  /\ IF Top.task.until THEN EndItem(Lost)
     ELSE Top.task.delay /\ \E changed \in BOOLEAN : EndItem(Res(changed, TRUE, TRUE))

(* changed_when and failed_when, register, notify.                         *)
Judged(cond, was) == IF cond = None THEN was ELSE cond = "yes"

Judge ==
  /\ stack # <<>> /\ Top.part = "judge"
  /\ LET t == Top.task
         r == [Top.res EXCEPT !.changed = Judged(t.changed_when, @), !.failed = Judged(t.failed_when, @)]
     IN IF "error" \in {t.changed_when, t.failed_when}
        THEN stack' = Go(Ends([Top.res EXCEPT !.failed = TRUE])) /\ UNCHANGED <<vars, notified>>
        ELSE /\ stack' = Go(Ends(r))
             /\ vars' = Registered(t, vars, r)
             /\ notified' = Notify(t, r)
  /\ UNCHANGED <<opts, log>>

-----------------------------------------------------------------------------
(* block, rescue, always and the items of a chart.                         *)
Enter ==
  /\ stack # <<>> /\ Top.part \in Sequences
  /\ \E i \in Ahead(Top) :
       /\ \A j \in Ahead(Top) : i <= j
       /\ stack' = Append(Go([Top EXCEPT !.pos = i]), Frame(Children(Top)[i]))
  /\ UNCHANGED <<vars, notified, log, opts>>

To(f, part) == [f EXCEPT !.part = part, !.pos = 0]

(* After the last task of a part; a chart that has items left begins anew. *)
PartEnds ==
  /\ stack # <<>> /\ Top.part \in Sequences \ {"chart"} /\ Ahead(Top) = {}
  /\ stack' = Go(To(Top, IF Top.part = "always" THEN "end" ELSE "always"))
  /\ vars' = IF Top.part = "rescue" THEN [vars EXCEPT !.block_failed = FALSE] ELSE vars
  /\ UNCHANGED <<notified, log, opts>>

ItemEnds ==
  /\ stack # <<>> /\ Top.part = "chart" /\ (Ahead(Top) = {} \/ Items(Top.task) = 0)
  /\ IF Top.item < Items(Top.task)
     THEN /\ stack' = Go([Top EXCEPT !.item = @ + 1, !.pos = 0])
          /\ vars' = Fresh
          /\ UNCHANGED notified
     ELSE /\ stack' = Go(Ends(Top.res))
          /\ vars' = Registered(Top.task, Top.saved, Top.res)
          /\ notified' = Notify(Top.task, Top.res)
  /\ UNCHANGED <<opts, log>>

(* Mutant of AfterLost: no clean up on a host that cannot be reached.      *)
AfterLostNothing(part) == "end"

AfterLost(part) == IF part \in {"block", "rescue"} THEN "always" ELSE "end"

(* Mutant of AfterFailure: a failing always is swallowed.                  *)
AfterFailureQuiet(f) ==
  CASE f.part = "block" /\ f.task.rescue # <<>> -> To([f EXCEPT !.failed = TRUE], "rescue")
    [] f.part = "always" -> To(f, "end")
    [] OTHER -> To([f EXCEPT !.failed = TRUE, !.res.failed = TRUE], "always")

(* A failed task ends its part.  While the host is unreachable a failing   *)
(* always adds nothing.                                                    *)
AfterFailure(f) ==
  CASE f.part = "block" /\ f.task.rescue # <<>> -> To([f EXCEPT !.failed = TRUE], "rescue")
    [] f.part = "always" -> To([f EXCEPT !.res.failed = @ \/ ~f.res.lost], "end")
    [] OTHER -> To([f EXCEPT !.failed = TRUE, !.res.failed = TRUE], "always")

(* What a frame does with the result of its task t.                        *)
Told(f, t, r) ==
  LET g == [f EXCEPT !.res.changed = @ \/ r.changed]
  IN IF r.lost /\ f.part = "chart" THEN To([f EXCEPT !.res.lost = TRUE], "end")
     ELSE IF r.lost THEN To([g EXCEPT !.res.lost = TRUE], AfterLost(f.part))
     ELSE IF ~r.failed \/ t.ignore THEN g
     ELSE IF f.part = "chart" THEN [g EXCEPT !.res.failed = TRUE, !.pos = Len(Children(f))]
     ELSE AfterFailure(g)

(* Mutant of Scope: the deferred deletion is forgotten.                    *)
ScopeKept(f) == vars

(* The deferred deletion of block_failed.                                  *)
Scope(f) == IF f.task.kind = "block" THEN [vars EXCEPT !.block_failed = FALSE] ELSE vars

Return ==
  /\ stack # <<>> /\ Top.part = "end"
  /\ log' = Noted("leave", Top.res)
  /\ IF Len(stack) = 1 THEN stack' = <<>> /\ vars' = Scope(Top)
     ELSE LET parent == stack[Len(stack) - 1]
              told == Told(parent, Top.task, Top.res)
              scope == Scope(Top)
          IN /\ stack' = Append(SubSeq(stack, 1, Len(stack) - 2), told)
             /\ vars' = CASE parent.part = "chart" /\ told.part = "end" -> parent.saved
                          [] parent.part = "block" /\ told.failed -> [scope EXCEPT !.block_failed = TRUE]
                          [] OTHER -> scope
  /\ UNCHANGED <<opts, notified>>

Next ==
  \/ Skip \/ Refused \/ Begin \/ NoCall \/ Prepare \/ Attempt \/ TimedOut \/ Judge
  \/ Enter \/ PartEnds \/ ItemEnds \/ Return

Spec == Init /\ [][Next]_state /\ WF_state(Next)

-----------------------------------------------------------------------------
Named(name) == CHOOSE t \in Tasks : t.name = name
Of(e) == Named(Last(e.path).name)

Done == stack = <<>>

Events(what) == {log[i] : i \in {j \in DOMAIN log : log[j].what = what}}

(* The event is of a task begun under p (a path, its last part aside).     *)
Under(e, p) ==
  /\ Len(e.path) > Len(p) /\ Front(p) = SubSeq(e.path, 1, Len(p) - 1)
  /\ e.path[Len(p)].name = Last(p).name

(* always of a block that began is attempted whatever happened in it: a    *)
(* failure, a failing rescue, a host that was lost, a chart around it.     *)
AlwaysAttempted ==
  Done =>
    \A e \in Events("enter") :
      /\ Of(e).kind = "block"
      /\ \E child \in ToSet(Of(e).always) : BlockSelected(child, Of(e).tags)
      => \E l \in Events("leave") : Under(l, e.path) /\ l.path[Len(e.path)].part = "always"

(* A failing task is made good by an ignore_errors of a task around it or  *)
(* by a rescue that went well.                                             *)
Recovered(e) ==
  \E i \in 1 .. Len(e.path) :
    \/ i > 1 /\ Named(e.path[i].name).ignore
    \/ /\ i < Len(e.path) /\ e.path[i].part = "block" /\ Named(e.path[i].name).rescue # <<>>
       /\ \A l \in Events("leave") :
            Under(l, SubSeq(e.path, 1, i)) /\ Len(l.path) = i + 1 /\ l.path[i].part = "rescue"
              => Clean(l.res) \/ Of(l).ignore
    \/ Named(e.path[i].name).failed_when = "no"

(* No failure and no lost host disappears on the way to the verdict.       *)
NoFailureSwallowed ==
  Done /\ Clean(Last(log).res) =>
    \A e \in Events("item") \cup Events("leave") :
      ~e.res.lost /\ (e.res.failed => Recovered(e))

(* block_failed is seen only below a block that failed, in the variables   *)
(* of which it was set.                                                    *)
FailureInScope ==
  vars.block_failed =>
    \E i \in DOMAIN stack :
      /\ stack[i].task.kind = "block" /\ stack[i].failed
      /\ \A j \in i .. Len(stack) : stack[j].part # "chart"

(* A failure is known where it matters: in the verdict of every task around *)
(* it, and in the variable that the tasks of its block see.                *)
FailuresKnown == NoFailureSwallowed /\ FailureInScope

(* A handler is notified exactly when the calls of a task that did not     *)
(* fail changed something, or changed_when says so: in loops, blocks and   *)
(* charts, whichever attempts went before.                                 *)
Changes(l) ==
  LET t == Of(l)
      calls == {e.res.changed : e \in {x \in Events("item") : Front(x.path) = Front(l.path) /\ Of(x) = t}}
      inner == {e.res.changed : e \in {x \in Events("leave") : Under(x, l.path)}}
  IN IF t.kind = "module" /\ t.changed_when # None THEN t.changed_when = "yes" ELSE TRUE \in calls \cup inner

HandlersHear ==
  Done =>
    LET ended == {l \in Events("leave") : Of(l).kind # "block" /\ ~l.res.skipped}
        heard == {l \in ended : Clean(l.res) /\ Changes(l)}
    IN /\ UNION {Of(l).notify : l \in heard} \subseteq notified
       /\ notified \subseteq UNION {Of(l).notify : l \in {x \in ended : ~x.res.failed /\ Changes(x)}}

(* Whatever fails, is lost, loops or refers to itself, the task ends.      *)
TaskEnds == <>Done

(* What the documentation says of rescue: its tasks see block_failed.      *)
RescueSeesFailure ==
  \A i \in DOMAIN stack :
    /\ stack[i].part = "rescue" /\ i < Len(stack) /\ Top.part = "start"
    /\ \A j \in i .. Len(stack) : stack[j].part # "chart"
    => vars.block_failed

(* A task of a block is run when it or a block around it has a tag that is *)
(* asked for.                                                              *)
TagsReachInside ==
  Done /\ opts.tags # {} =>
    \A e \in Events("leave") :
      /\ Of(e).kind = "block" /\ Clean(e.res) /\ Last(e.path).part = "end"
      /\ \E i \in DOMAIN e.path : Named(e.path[i].name).tags \cap opts.tags # {}
      => \A t \in ToSet(Of(e).block) :
           \E l \in Events("leave") : Under(l, e.path) /\ Len(l.path) = Len(e.path) + 1 /\ Of(l) = t
=============================================================================
