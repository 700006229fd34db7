------------------------------ MODULE Converge ------------------------------
(***************************************************************************)
(* One task is run on one host again and again, with and without check     *)
(* mode: execModule (src/internal/executor/exec.go) calls the module, the  *)
(* module probes the host (RunContext.exec) and sends its commands one by  *)
(* one.  A command may fail, or the call be cut short with the command     *)
(* done or not: the connection breaks, the time of the task is over, the   *)
(* run is cancelled.  Temporary files are removed by the deferred commands *)
(* of the module and by the transfer code, under the context of the task:  *)
(* not when the call is cut short.  The next call begins with what the     *)
(* last one left, and with temporary names of its own.                     *)
(***************************************************************************)
EXTENDS AccountTasks, ServiceTasks, ArchiveTasks

CONSTANTS Cases,      \* pairs <<task, host>> to begin with
          MaxRuns     \* bound on the calls without check mode

VARIABLES task, host,
          phase,      \* idle, running
          call,       \* what is still to be done of the call
          promise,    \* [said, host]: what check mode announced, and for what
          last,       \* result of the last call
          runs,
          breaks      \* what cutting calls short has done: cut, no reload

vars == <<task, host, phase, call, promise, last, runs, breaks>>

Run(t, h) ==
  CASE t.module \in FileTaskModules -> RunFileTask(t, h)
    [] t.module \in AccountModules -> RunAccountTask(t, h)
    [] t.module \in ServiceModules -> RunServiceTask(t, h)
    [] t.module = "package" -> Package(t, h)
    [] t.module \in ArchiveModules -> RunArchiveTask(t, h)

Check(t, h) ==
  CASE t.module \in FileTaskModules -> CheckFileTask(t, h)
    [] t.module \in AccountModules -> CheckAccountTask(t, h)
    [] t.module \in ServiceModules -> CheckServiceTask(t, h)
    [] t.module = "package" -> CheckPackage(t, h)
    [] t.module \in ArchiveModules -> CheckArchiveTask(t, h)

Apply(h, c) ==
  CASE task.module \in FileTaskModules -> FetchApply(h, c)
    [] task.module \in AccountModules -> AccountApply(h, c)
    [] task.module \in ServiceModules -> SystemctlApply(h, c)
    [] task.module = "package" -> PackageApply(h, c)
    [] task.module \in ArchiveModules -> ArchiveApply(h, c)

Works(h, c) ==
  CASE task.module \in FileTaskModules -> FileWorks(h, c)
    [] task.module \in AccountModules -> AccountWorks(h, c)
    [] task.module \in ServiceModules -> SystemctlWorks(h, c)
    [] task.module = "package" -> PackageWorks(h, c)
    [] task.module \in ArchiveModules -> c.op = "cache" \/ FileWorks(h, c)

(* Mutant of Swept: the upload is cleaned up, the copy is forgotten.       *)
SweptUploadOnly(h) == [h EXCEPT !.tmp = @ \ {"upload"}]

(* The deferred rm of the copy and the removal of an unfinished upload.    *)
Swept(h) == [h EXCEPT !.tmp = @ \ {"upload", "copy"}]

(* Nothing is removed from the host by the control side any more; an agent *)
(* still removes its unfinished upload, and fetch its file over here.      *)
Abandoned(h) ==
  LET left(gone) == [h EXCEPT !.tmp = IF @ \subseteq gone THEN {} ELSE {"left"}]
  IN IF task.module = "fetch" THEN {Swept(h)} ELSE {left({}), left({"upload"})}

Init ==
  /\ \E c \in Cases : task = c[1] /\ host = c[2]
  /\ phase = "idle"
  /\ call = Refuse
  /\ promise = [said |-> None, host |-> host]
  /\ last = None
  /\ runs = 0
  /\ breaks = {}

(* A run with --check.                                                     *)
CheckRun ==
  /\ phase = "idle" /\ (last # None \/ promise.said = None)
  /\ promise' = [said |-> Check(task, host), host |-> host]
  /\ last' = None
  /\ UNCHANGED <<task, host, phase, call, runs, breaks>>

StartRun ==
  /\ phase = "idle" /\ runs < MaxRuns
  /\ call' = Run(task, host)
  /\ phase' = "running"
  /\ runs' = runs + 1
  /\ promise' = IF last = None THEN promise ELSE [promise EXCEPT !.said = None]
  /\ last' = None
  /\ UNCHANGED <<task, host, breaks>>

Rest == [call EXCEPT !.cmds = Tail(@)]
Breaks(h, rest) == IF LosesReload(task, h, rest) THEN {"no reload"} ELSE {}
Ends(result) == last' = result /\ phase' = "idle" /\ call' = Refuse

Command ==
  /\ phase = "running" /\ call.cmds # <<>>
  /\ Works(host, Head(call.cmds))
  /\ host' = Apply(host, Head(call.cmds))
  /\ call' = Rest
  /\ UNCHANGED <<task, phase, promise, last, runs, breaks>>

(* A command exits with an error, by itself or because it cannot work.     *)
CommandFails ==
  /\ phase = "running" /\ call.cmds # <<>>
  /\ host' = Swept(host)
  /\ breaks' = breaks \cup Breaks(host, call.cmds)
  /\ Ends("broken")
  /\ UNCHANGED <<task, promise, runs>>

Result == IF ~call.ok THEN "fails" ELSE IF call.changed THEN "changed" ELSE "same"

(* The connection breaks, or the context of the task expires or is         *)
(* cancelled, at a command that was done or was not, its answer lost; or   *)
(* after the last one, before the files are removed, which the result does *)
(* not show.                                                               *)
CutShort ==
  /\ phase = "running"
  /\ \/ /\ call.cmds # <<>> /\ Works(host, Head(call.cmds))
        /\ host' \in Abandoned(Apply(host, Head(call.cmds)))
        /\ breaks' = breaks \cup {"cut"} \cup Breaks(host', Rest.cmds)
        /\ Ends("broken")
     \/ /\ call.cmds # <<>>
        /\ host' \in Abandoned(host)
        /\ breaks' = breaks \cup {"cut"} \cup Breaks(host, call.cmds)
        /\ Ends("broken")
     \/ /\ call.cmds = <<>> /\ "copy" \in host.tmp
        /\ host' \in Abandoned(host)
        /\ breaks' = breaks \cup {"cut"}
        /\ Ends(Result)
  /\ UNCHANGED <<task, promise, runs>>

Finish ==
  /\ phase = "running" /\ call.cmds = <<>>
  /\ host' = Swept(host)
  /\ Ends(Result)
  /\ UNCHANGED <<task, promise, runs, breaks>>

Next == CheckRun \/ StartRun \/ Command \/ CommandFails \/ CutShort \/ Finish

Spec == Init /\ [][Next]_vars

-----------------------------------------------------------------------------
(* What check mode does not look at: what the address of an artifact has,  *)
(* the owner of lineinfile's file, an archive that is extracted whole, the *)
(* quotes in the arguments of a script, and a link that leads nowhere when *)
(* its mode is asked for.                                                  *)
Foreseeable(t, h) ==
  /\ t.module = "artifact" => CacheGood(t, h)
  /\ t.module = "lineinfile" => t.owner = None
  /\ t.module = "script" => t.quoted \/ ~t.readable
  /\ t.module = "file" => FileRefused(t, Node(t, h)) \/ t.state = "absent"
                            \/ ~NoModeThere(t, FoldLeft(FileApply, h, StateCommands(t, Node(t, h))))
  /\ t.module = "unarchive" => t.members # <<>> \/ Guarded(t, h) \/ Run(t, h).ok

(* What a module announces with --check is what the run after it reports   *)
(* when nothing breaks, refusals, attributes, enablement, one of many      *)
(* packages or members included.                                           *)
CheckPredicts ==
  /\ promise.said \notin {None, "skips"}
  /\ last \notin {None, "broken"}
  /\ Foreseeable(task, promise.host)
  => promise.said = last

(* A task that states what shall be, not what shall be done.               *)
Declarative ==
  /\ task.module \in ServiceModules => task.state \notin {"restarted", "reloaded"}
  /\ task.module = "file" => task.state # "touch"
  /\ task.module = "unarchive" => task.creates # None \/ task.members # <<>>
  /\ task.module = "shell" => task.creates # None \/ task.removes # None
  /\ task.module \notin {"script", "chart module"}
  /\ task.module = "lineinfile" /\ task.state = "present" /\ task.regexp # {} => task.line \in task.regexp

(* After a call that succeeded, whatever calls were cut short before it,   *)
(* the same task finds nothing more to do: no handler is notified twice.   *)
(* Only through a link are a mode and an owner set again and again, and    *)
(* nothing else (fileops.go:31-34, 161-185: the checksum follows a link,   *)
(* `stat` does not).                                                       *)
Idempotent ==
  phase = "idle" /\ last \in {"changed", "same"} /\ Declarative =>
    LET again == Run(task, host)
    IN IF task.module \in FileTaskModules /\ ThroughLink(task, host)
       THEN again.ok /\ \A i \in DOMAIN again.cmds : again.cmds[i].op \in {"chmod", "chown"}
       ELSE again = Sends(<<>>)

Target(t, h) ==
  CASE t.module \in FileTaskModules -> FileTarget(t, h)
    [] t.module \in AccountModules -> AccountTarget(t, h)
    [] t.module \in ServiceModules -> ServiceTarget(t, h, "no reload" \notin breaks)
    [] t.module = "package" -> PackageTarget(t, h)
    [] t.module \in ArchiveModules -> ArchiveTarget(t, h)

(* Success means that the host is as the task asks, also when earlier      *)
(* calls of the task failed or were cut short at any command.  A           *)
(* daemon-reload that is lost between the unit file and systemd            *)
(* (systemdunit.go:198) is not made up for, and only that is left out.     *)
SuccessReachesTarget ==
  phase = "idle" /\ last \in {"changed", "same"} => Target(task, host)

(* A call removes its temporary files, whichever command failed.  Only one *)
(* that was cut short leaves some behind (unarchive.go:157-159), fetch not *)
(* even then, and the calls after it leave none of their own.              *)
NoDebris ==
  phase = "idle" =>
    host.tmp \subseteq IF "cut" \in breaks /\ task.module # "fetch" THEN {"left"} ELSE {}
=============================================================================
