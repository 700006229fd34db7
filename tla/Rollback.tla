------------------------------ MODULE Rollback ------------------------------
(***************************************************************************)
(* What auto_rollback registers and replays in one batch: the file modules *)
(* (src/internal/module: copy, template, lineinfile, file) probe the path, *)
(* register a RollbackAction, then change the path; rollbackBatch          *)
(* (src/internal/executor/strategy.go) replays the entries of each host    *)
(* backwards.  A host's file system is a function from the paths that      *)
(* exist to nodes; the snapshot area of the play is the subtree under      *)
(* Shadow, one per target host whatever host a change is made for          *)
(* (delegate_to).  cp -a, mkdir -p and rm -rf are modelled by what the GNU *)
(* tools do, cp into an existing directory included.                       *)
(*                                                                         *)
(* A task is a record [kind, who, to, path, data, mode]: the hosts it runs *)
(* for (when:), the host it is delegated to (None: itself).                *)
(***************************************************************************)
EXTENDS Naturals, Sequences, FiniteSets, SequencesExt

CONSTANTS Batch,       \* the hosts of the batch, a sequence
          None,
          Before,      \* file system of every host before the batch
          Programs,    \* the task lists to try
          Faults       \* TRUE: snapshots, changes and replays may fail

Hosts == ToSet(Batch)

ASSUME RollbackAssumption ==
  /\ None \notin Hosts
  /\ Faults \in BOOLEAN
  /\ \A p \in Programs : \A i \in DOMAIN p : p[i].who \subseteq Hosts

VARIABLES prog,        \* the task list of this behaviour
          t,           \* index of the current task, same on every host
          step,        \* where each host is in the task
          need,        \* what the probe of the task concluded
          dropped,     \* hosts a task failed on
          fs,          \* file system of each host
          journal,     \* hostRun.journal
          undo,        \* entries rollbackBatch has still to replay
          phase,       \* running, replay, done
          spoilt       \* ghost: a snapshot, a change or a replay failed

vars == <<prog, t, step, need, dropped, fs, journal, undo, phase, spoilt>>

Shadow == <<"shadow">>

File(data, mode) == [type |-> "file", data |-> data, mode |-> mode]
Link(to) == [type |-> "link", data |-> to, mode |-> "777"]
Directory == [type |-> "directory", data |-> <<>>, mode |-> "755"]

Type(f, p) == IF p \in DOMAIN f THEN f[p].type ELSE "missing"

Comparable(p, q) == IsPrefix(p, q) \/ IsPrefix(q, p)

-----------------------------------------------------------------------------
(* The shell commands.                                                     *)
RmRf(f, p) == Restrict(f, {q \in DOMAIN f : ~IsPrefix(p, q)})

Put(f, p, node) == [q \in DOMAIN f \cup {p} |-> IF q = p THEN node ELSE f[q]]

MakeDirs(f, p) ==
  LET above == {SubSeq(p, 1, i) : i \in 1 .. Len(p)}
  IN [q \in DOMAIN f \cup above |-> IF q \in DOMAIN f THEN f[q] ELSE Directory]

Parents(f, p) == IF Len(p) = 1 THEN f ELSE MakeDirs(f, Front(p))

Resolve(f, p) == IF Type(f, p) = "link" THEN f[p].data ELSE p

(* cp -a src dst: into dst when that is a directory or a link to one.      *)
Landing(f, src, dst) ==
  IF Type(f, Resolve(f, dst)) = "directory" THEN Append(Resolve(f, dst), Last(src)) ELSE dst

CanCopy(f, src, dst) ==
  LET there == Type(f, Landing(f, src, dst))
  IN /\ src \in DOMAIN f
     /\ there # "missing" => (there = "directory") = (f[src].type = "directory")

Copy(f, src, dst) ==
  LET at == Landing(f, src, dst)
      From(q) == src \o SubSeq(q, Len(at) + 1, Len(q))
      new == {at \o SubSeq(q, Len(src) + 1, Len(q)) : q \in {r \in DOMAIN f : IsPrefix(src, r)}}
  IN [q \in DOMAIN f \cup new |-> IF q \in new THEN f[From(q)] ELSE f[q]]

-----------------------------------------------------------------------------
(* The modules: what a task finds at its path and what it then does.       *)
Needs(f, task) ==
  LET found == Type(f, task.path) IN
  CASE found = "missing" -> IF task.kind = "absent" THEN "nothing" ELSE "create"
    [] found # "missing" /\ task.kind = "absent" -> "overwrite"
    [] found = "file" /\ task.kind = "put" ->
         IF f[task.path].data = task.data THEN "attributes" ELSE "overwrite"
    [] found = "directory" /\ task.kind = "directory" -> "attributes"
    [] found = "link" /\ task.kind = "link" ->
         IF f[task.path].data = task.data THEN "nothing" ELSE "overwrite"
    [] OTHER -> "conflict"

(* chmod, rm -rf, upload, mkdir -p, ln -sfn.                               *)
Effect(f, task, n) ==
  CASE n = "attributes" -> [f EXCEPT ![task.path].mode = task.mode]
    [] n # "attributes" /\ task.kind = "absent" -> RmRf(f, task.path)
    [] n # "attributes" /\ task.kind = "put" ->
         Put(Parents(f, task.path), task.path, File(task.data, task.mode))
    [] n # "attributes" /\ task.kind = "directory" -> MakeDirs(f, task.path)
    [] n # "attributes" /\ task.kind = "link" -> Put(f, task.path, Link(task.data))

Task == prog[t]
Target(h) == IF Task.to = None THEN h ELSE Task.to
Does(h) == h \in Task.who \ dropped
Gone(h) == need[h] = "attributes" /\ Type(fs[Target(h)], Task.path) = "missing"

(* Mutant of Entry: the delegation is lost.                                *)
EntryAtHome(h, kind) == [kind |-> kind, path |-> Task.path, on |-> h]

(* A journalEntry: the action and the host it was done on.                 *)
Entry(h, kind) == [kind |-> kind, path |-> Task.path, on |-> Target(h)]

(* Paths of every length the tree may hold are sequences of names.         *)
TypeOK ==
  /\ prog \in Programs
  /\ t \in 1 .. Len(prog) + 1
  /\ step \in [Hosts -> {"todo", "register", "change", "done"}]
  /\ need \in [Hosts -> {"nothing", "create", "overwrite", "attributes", "conflict"}]
  /\ dropped \subseteq Hosts
  /\ \A h \in Hosts : \A p \in DOMAIN fs[h] :
       fs[h][p].type \in {"file", "link", "directory"}
  /\ \A h \in Hosts : \A i \in DOMAIN journal[h] :
       journal[h][i].kind \in {"restore", "remove"} /\ journal[h][i].on \in Hosts
  /\ phase \in {"running", "replay", "done"}
  /\ spoilt \in BOOLEAN

Init ==
  /\ prog \in Programs
  /\ t = 1
  /\ step = [h \in Hosts |-> "todo"]
  /\ need = [h \in Hosts |-> "nothing"]
  /\ dropped = {}
  /\ fs = [h \in Hosts |-> Before]
  /\ journal = [h \in Hosts |-> <<>>]
  /\ undo = <<>>
  /\ phase = "running"
  /\ spoilt = FALSE

Goes(h, s) == step' = [step EXCEPT ![h] = s]

(* probePath, remoteChecksum, remoteMode.                                  *)
Probe(h) ==
  /\ phase = "running" /\ t <= Len(prog) /\ Does(h)
  /\ step[h] = "todo"
  /\ need' = [need EXCEPT ![h] = Needs(fs[Target(h)], Task)]
  /\ Goes(h, "register")
  /\ UNCHANGED <<prog, t, dropped, fs, journal, undo, phase, spoilt>>

(* RecordRemove, or Snapshot, whose failure is not reported; a change of   *)
(* attributes alone is not registered.                                     *)
Register(h) ==
  /\ step[h] = "register"
  /\ LET x == Target(h)
         shadow == Shadow \o Task.path
         made == Parents(fs[x], shadow)
         Records(kind) == journal' = [journal EXCEPT ![h] = Append(@, Entry(h, kind))]
     IN \/ /\ need[h] = "create"
           /\ Records("remove")
           /\ UNCHANGED <<fs, spoilt>>
        \/ /\ need[h] = "overwrite"
           /\ CanCopy(made, Task.path, shadow)
           /\ fs' = [fs EXCEPT ![x] = Copy(made, Task.path, shadow)]
           /\ Records("restore")
           /\ UNCHANGED spoilt
        \/ /\ need[h] = "overwrite"
           /\ Faults \/ ~CanCopy(made, Task.path, shadow)
           /\ fs' = [fs EXCEPT ![x] = made]
           /\ spoilt' = TRUE
           /\ UNCHANGED journal
        \/ /\ need[h] \notin {"create", "overwrite"}
           /\ UNCHANGED <<fs, journal, spoilt>>
  /\ Goes(h, "change")
  /\ UNCHANGED <<prog, t, need, dropped, undo, phase>>

(* The change itself; a type conflict or a failed command fails the task   *)
(* and the host takes no further part.                                     *)
Change(h) ==
  /\ step[h] = "change"
  /\ Goes(h, "done")
  /\ \/ /\ need[h] = "nothing"
        /\ UNCHANGED <<fs, dropped>>
     \/ /\ need[h] \notin {"nothing", "conflict"}
        /\ ~Gone(h)
        /\ fs' = [fs EXCEPT ![Target(h)] = Effect(@, Task, need[h])]
        /\ UNCHANGED dropped
     \/ /\ need[h] = "conflict" \/ Gone(h) \/ Faults
        /\ dropped' = dropped \cup {h}
        /\ UNCHANGED fs
  /\ UNCHANGED <<prog, t, need, journal, undo, phase, spoilt>>

TaskEnds == \A h \in Hosts : t <= Len(prog) /\ Does(h) => step[h] = "done"

NextTask ==
  /\ phase = "running" /\ t <= Len(prog) /\ TaskEnds
  /\ t' = t + 1
  /\ step' = [h \in Hosts |-> "todo"]
  /\ UNCHANGED <<prog, need, dropped, fs, journal, undo, phase, spoilt>>

(* Mutant of UndoList: oldest change first.                                *)
UndoForwards == FlattenSeq([i \in DOMAIN Batch |-> journal[Batch[i]]])

(* The hosts in the order of the batch, each journal backwards.            *)
UndoList == FlattenSeq([i \in DOMAIN Batch |-> Reverse(journal[Batch[i]])])

(* The batch failed, by a task, a cancel or the gate: rollbackBatch begins.*)
BatchFails ==
  /\ phase = "running"
  /\ TaskEnds
  /\ undo' = UndoList
  /\ phase' = "replay"
  /\ UNCHANGED <<prog, t, step, need, dropped, fs, journal, spoilt>>

(* One entry; an entry that fails does not stop the ones before it.        *)
Replay ==
  /\ phase = "replay" /\ undo # <<>>
  /\ LET e == Head(undo)
         shadow == Shadow \o e.path
         made == Parents(fs[e.on], e.path)
     IN \/ /\ e.kind = "remove"
           /\ fs' = [fs EXCEPT ![e.on] = RmRf(@, e.path)]
           /\ UNCHANGED spoilt
        \/ /\ e.kind = "restore" /\ CanCopy(made, shadow, e.path)
           /\ fs' = [fs EXCEPT ![e.on] = Copy(made, shadow, e.path)]
           /\ UNCHANGED spoilt
        \/ /\ Faults \/ (e.kind = "restore" /\ ~CanCopy(made, shadow, e.path))
           /\ spoilt' = TRUE
           /\ UNCHANGED fs
  /\ undo' = Tail(undo)
  /\ UNCHANGED <<prog, t, step, need, dropped, journal, phase>>

(* Mutant of Cleanup: the snapshots of delegated tasks are forgotten.      *)
CleanupAtHome ==
  /\ phase = "replay" /\ undo = <<>>
  /\ phase' = "done"
  /\ fs' = [x \in Hosts |-> IF journal[x] # <<>> THEN RmRf(fs[x], Shadow) ELSE fs[x]]
  /\ UNCHANGED <<prog, t, step, need, dropped, journal, undo, spoilt>>

(* finishPlay: the snapshots are removed where something was registered.   *)
Cleanup ==
  /\ phase = "replay" /\ undo = <<>>
  /\ phase' = "done"
  /\ fs' = [x \in Hosts |->
              IF \E h \in Hosts : \E i \in DOMAIN journal[h] : journal[h][i].on = x
              THEN RmRf(fs[x], Shadow) ELSE fs[x]]
  /\ UNCHANGED <<prog, t, step, need, dropped, journal, undo, spoilt>>

Ended == phase = "done" /\ UNCHANGED vars

Next == \/ \E h \in Hosts : Probe(h) \/ Register(h) \/ Change(h)
        \/ NextTask \/ BatchFails \/ Replay \/ Cleanup \/ Ended

Spec == Init /\ [][Next]_vars

-----------------------------------------------------------------------------
RolledBack == phase = "done" /\ ~spoilt

(* Tasks run for h on x, as <<host, index>> pairs.                         *)
On(x) == {hi \in Hosts \X DOMAIN prog :
            /\ hi[1] \in prog[hi[2]].who
            /\ (IF prog[hi[2]].to = None THEN hi[1] ELSE prog[hi[2]].to) = x}

Alone(x, hi) ==
  \A gj \in On(x) \ {hi} : ~Comparable(prog[gj[2]].path, prog[hi[2]].path)

(* A task that changes more than attributes of what was there before.      *)
Registers(hi) == Needs(Before, prog[hi[2]]) # "attributes"

Same(x, p) == IF p \in DOMAIN Before THEN p \in DOMAIN fs[x] /\ fs[x][p] = Before[p]
                                     ELSE Type(fs[x], p) \in {"missing", "directory"}

(* Where each path is the business of one task only, a failed batch leaves *)
(* every file and link as it was, whatever was run, delegated or failed    *)
(* half way; directories made on the way may stay.                         *)
Restored ==
  RolledBack => \A x \in Hosts : \A p \in DOMAIN fs[x] \cup DOMAIN Before :
    (\A hi \in On(x) : Comparable(prog[hi[2]].path, p) => Alone(x, hi) /\ Registers(hi))
    => Same(x, p)

(* A file that was not there before the batch is not there after it,       *)
(* however many tasks wrote it ("新建文件删除").                             *)
CreatedGone ==
  RolledBack => \A x \in Hosts : \A p \in DOMAIN fs[x] \ DOMAIN Before :
    Type(fs[x], p) = "directory"

(* Snapshots do not outlive the play where anything was registered.        *)
NoResidue ==
  phase = "done" /\ ~spoilt => \A x \in Hosts : Shadow \notin DOMAIN fs[x]

(* What a failed batch leaves where no task undoes the work of another: the *)
(* files as they were, no new ones, no snapshots.                          *)
BatchUndone == Restored /\ CreatedGone /\ NoResidue

(* The whole promise: the batch's file changes are undone ("覆盖前快照恢复；  *)
(* 新建文件删除", "修改/删除/属性变更快照恢复").                               *)
FullyRestored ==
  RolledBack => \A x \in Hosts : \A p \in DOMAIN fs[x] \cup DOMAIN Before : Same(x, p)
=============================================================================
