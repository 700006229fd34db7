---------------------------- MODULE ServiceTasks ----------------------------
(***************************************************************************)
(* The modules service, systemd_unit and package.  A host of services has  *)
(* one unit: its file (h.files), what systemd has loaded of it (loaded),   *)
(* what the process was started from (runs; Empty: it does not run) and    *)
(* whether it starts at boot (enabled).  A host of packages maps names to  *)
(* "absent", "old" and "newest", and has a package manager or none.        *)
(***************************************************************************)
EXTENDS FileTasks

Broken == Text(<<"broken">>, FALSE)

Active(h) == h.runs # Empty

(* The verb for a state: reload of a service that does not run is a start. *)
StateVerb(task, h) ==
  CASE task.state = "started" /\ ~Active(h) -> <<"start">>
    [] task.state = "stopped" /\ Active(h) -> <<"stop">>
    [] task.state = "restarted" -> <<"restart">>
    [] task.state = "reloaded" -> IF Active(h) THEN <<"reload">> ELSE <<"start">>
    [] OTHER -> <<>>

BootVerb(task, h) ==
  CASE task.enabled = "yes" /\ ~h.enabled -> <<"enable">>
    [] task.enabled = "no" /\ h.enabled -> <<"disable">>
    [] OTHER -> <<>>

Systemctl(verb) == Do(verb, "unit", "")
Verbs(task, h) == StateVerb(task, h) \o BootVerb(task, h)
ServiceCommands(task, h) == [i \in DOMAIN Verbs(task, h) |-> Systemctl(Verbs(task, h)[i])]

Service(task, h) == Sends(ServiceCommands(task, h))
CheckService(task, h) == Foresees(Verbs(task, h) # <<>>)

(* systemd_unit: the file by putFile with mode 0644, daemon-reload after a *)
(* change of its text or its mode, then state and enablement as above.     *)
(* The text is Empty for state management alone.                           *)
UnitTask(task) == [module |-> "copy", path |-> "unit", text |-> task.text,
                   mode |-> "0644", owner |-> None, become |-> TRUE, backup |-> FALSE]

UnitFile(task, h) == IF task.text = Empty THEN Sends(<<>>) ELSE PutFile(UnitTask(task), task.text, h)

SystemdUnit(task, h) ==
  LET file == UnitFile(task, h)
  IN IF ~file.ok \/ ~h.systemd THEN Refuse
     ELSE Sends(file.cmds \o Maybe(file.changed /\ task.reload, <<Systemctl("daemon-reload")>>)
                  \o ServiceCommands(task, h))

(* estimateUnitState.                                                      *)
StateWould(task, h) ==
  \/ task.state = "started" /\ ~Active(h)
  \/ task.state = "stopped" /\ Active(h)
  \/ task.state \in {"restarted", "reloaded"}
BootWould(task, h) == task.enabled # None /\ (task.enabled = "yes") # h.enabled

CheckSystemdUnit(task, h) ==
  LET file == IF task.text = Empty THEN "same" ELSE CheckPutFile(UnitTask(task), task.text, h)
  IN IF file = "fails" \/ ~h.systemd THEN "fails"
     ELSE Foresees(file = "changed" \/ StateWould(task, h) \/ BootWould(task, h))

(* systemctl of the host: a unit systemd has not loaded is read from its   *)
(* file when it is needed, a loaded one stays as it was until a            *)
(* daemon-reload.                                                          *)
Known(h) == IF h.loaded = Empty THEN h.files["unit"].text ELSE h.loaded

SystemctlApply(h, c) ==
  CASE c.op \in {"start", "restart"} -> [h EXCEPT !.runs = Known(h), !.loaded = Known(h)]
    [] c.op = "stop" -> [h EXCEPT !.runs = Empty]
    [] c.op = "enable" -> [h EXCEPT !.enabled = TRUE]
    [] c.op = "disable" -> [h EXCEPT !.enabled = FALSE]
    [] c.op = "daemon-reload" -> [h EXCEPT !.loaded = IF @ = Empty THEN @ ELSE h.files["unit"].text]
    [] OTHER -> FileApply(h, c)

SystemctlWorks(h, c) ==
  CASE c.op \in {"start", "restart"} -> h.systemd /\ Known(h) \notin {Empty, Broken}
    [] c.op = "reload" -> Active(h)
    [] c.op = "enable" -> h.files["unit"].kind = "file"
    [] OTHER -> FileWorks(h, c)

ServiceModules == {"service", "systemd_unit"}

RunServiceTask(task, h) == IF task.module = "service" THEN Service(task, h) ELSE SystemdUnit(task, h)
CheckServiceTask(task, h) ==
  IF task.module = "service" THEN CheckService(task, h) ELSE CheckSystemdUnit(task, h)

ServiceReached(task, h) ==
  /\ task.state \in {"started", "restarted", "reloaded"} => Active(h)
  /\ task.state = "restarted" => h.runs = Known(h)
  /\ task.state = "stopped" => ~Active(h)
  /\ task.enabled # None => h.enabled = (task.enabled = "yes")

UnitInPlace(task, h) == h.files["unit"].text = task.text /\ h.files["unit"].mode = "0644"

(* A call that ends here, with rest still to be sent, has put the file in  *)
(* place and not reloaded: the file is no change to the calls after it,    *)
(* and none of them reloads.                                               *)
LosesReload(task, h, rest) ==
  /\ task.module = "systemd_unit" /\ task.text # Empty /\ UnitInPlace(task, h)
  /\ \E i \in DOMAIN rest : rest[i].op = "daemon-reload"

UnitReached(task, h, reloads) ==
  task.text # Empty => /\ UnitInPlace(task, h)
                       /\ reloads /\ task.reload =>
                            /\ h.loaded \in {Empty, task.text}
                            /\ task.state = "restarted" => h.runs = task.text

ServiceTarget(task, h, reloads) ==
  ServiceReached(task, h) /\ (task.module = "systemd_unit" => UnitReached(task, h, reloads))

-----------------------------------------------------------------------------
(* package, one name after another; the probe of a name is not disturbed   *)
(* by the operations on the ones before it.                                *)
Operation(state, version) ==
  CASE state = "absent" /\ version # "absent" -> "remove"
    [] state # "absent" /\ version = "absent" -> "install"
    [] state = "latest" /\ version = "old" -> "upgrade"
    [] OTHER -> None

(* Mutant of PackageOps: the loop ends at the first name in order.         *)
PackageOpsUntilDone(task, h) ==
  LET op(name) == Operation(task.state, h.packages[name])
      todo == {i \in DOMAIN task.names : \A j \in 1 .. i : op(task.names[j]) # None}
  IN [i \in todo |-> Do(op(task.names[i]), task.names[i], "")]

PackageOps(task, h) ==
  LET op(name) == Operation(task.state, h.packages[name])
      names == SelectSeq(task.names, LAMBDA name : op(name) # None)
  IN [i \in DOMAIN names |-> Do(op(names[i]), names[i], "")]

Package(task, h) ==
  IF task.names = <<>> \/ h.manager = None THEN Refuse ELSE Sends(PackageOps(task, h))

CheckPackage(task, h) ==
  IF task.names = <<>> \/ h.manager = None THEN "fails"
  ELSE Foresees(\E i \in DOMAIN task.names : Operation(task.state, h.packages[task.names[i]]) # None)

PackageApply(h, c) ==
  [h EXCEPT !.packages[c.path] = IF c.op = "remove" THEN "absent" ELSE "newest"]

(* A package manager does not find every name.                             *)
PackageWorks(h, c) == c.op = "remove" \/ c.path \in h.known

PackageTarget(task, h) ==
  \A i \in DOMAIN task.names : Operation(task.state, h.packages[task.names[i]]) = None
=============================================================================
