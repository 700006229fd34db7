---------------------------- MODULE AccountTasks ----------------------------
(***************************************************************************)
(* The modules user and group.  A host has the account the task names      *)
(* (h.user), the group it names (h.group) and the names of the groups that *)
(* exist (h.groups).  A parameter that is not given is None, the groups    *)
(* of a task without groups: are NoGroups.                                 *)
(***************************************************************************)
EXTENDS Plans

NoGroups == {None}

NoUser == [exists |-> FALSE, uid |-> 0, primary |-> "", supp |-> {}, shell |-> "", home |-> ""]
User(uid, primary, supp, shell, home) ==
  [exists |-> TRUE, uid |-> uid, primary |-> primary, supp |-> supp, shell |-> shell, home |-> home]

HasGroups(task) == task.groups # NoGroups

(* groups: [] without append is refused.                                   *)
UserRefused(task) == task.groups = {} /\ ~task.append

(* id -nG.                                                                 *)
AllGroups(user) == user.supp \cup {user.primary}

(* The whole set the account shall have: its own and the named ones, or    *)
(* the named ones and the primary group.                                   *)
WantedGroups(task, user) ==
  IF task.append THEN AllGroups(user) \cup task.groups
  ELSE task.groups \cup {IF task.group = None THEN user.primary ELSE task.group}

(* userDrift: only what the task names is compared.                        *)
UserDrift(task, user) ==
  {f \in {"uid"} : task.uid \notin {0, user.uid}}
    \cup {f \in {"group"} : task.group \notin {None, user.primary}}
    \cup {f \in {"groups"} : HasGroups(task) /\ AllGroups(user) # WantedGroups(task, user)}
    \cup {f \in {"shell"} : task.shell \notin {None, user.shell}}
    \cup {f \in {"home"} : task.home \notin {None, user.home}}

Account(op, task, fields) == [op |-> op, task |-> task, fields |-> fields]

(* userAbsent, userCreate, userModify: whatever would change needs become. *)
UserChange(task, h) ==
  IF task.state = "absent" THEN Maybe(h.user.exists, <<Account("userdel", task, {})>>)
  ELSE IF ~h.user.exists THEN <<Account("useradd", task, {})>>
  ELSE Maybe(UserDrift(task, h.user) # {}, <<Account("usermod", task, UserDrift(task, h.user))>>)

UserModule(task, h) ==
  IF UserRefused(task) \/ (UserChange(task, h) # <<>> /\ ~task.become) THEN Refuse
  ELSE Sends(UserChange(task, h))

CheckUser(task, h) ==
  LET would == \/ task.state = "absent" /\ h.user.exists
               \/ task.state = "present" /\ (~h.user.exists \/ UserDrift(task, h.user) # {})
  IN IF UserRefused(task) \/ (would /\ ~task.become) THEN "fails" ELSE Foresees(would)

-----------------------------------------------------------------------------
(* group.                                                                  *)
NoGroup == [exists |-> FALSE, gid |-> 0]

GidDrift(task, h) == task.gid \notin {0, h.group.gid}

GroupChange(task, h) ==
  IF task.state = "absent" THEN Maybe(h.group.exists, <<Account("groupdel", task, {})>>)
  ELSE IF ~h.group.exists THEN <<Account("groupadd", task, {})>>
  ELSE Maybe(GidDrift(task, h), <<Account("groupmod", task, {})>>)

GroupModule(task, h) ==
  IF GroupChange(task, h) # <<>> /\ ~task.become THEN Refuse ELSE Sends(GroupChange(task, h))

CheckGroup(task, h) ==
  LET would == \/ task.state = "absent" /\ h.group.exists
               \/ task.state = "present" /\ (~h.group.exists \/ GidDrift(task, h))
  IN IF would /\ ~task.become THEN "fails" ELSE Foresees(would)

-----------------------------------------------------------------------------
(* useradd, usermod, groupadd, ... of the host.  A user added without -g   *)
(* gets a group of his own; usermod -g does not keep the old primary group.*)
Or(value, default) == IF value = None THEN default ELSE value

Added(task) ==
  User(IF task.uid = 0 THEN 1000 ELSE task.uid, Or(task.group, "own"),
       IF HasGroups(task) THEN task.groups ELSE {}, Or(task.shell, "sh"), Or(task.home, "/home"))

Modified(c, user) ==
  [user EXCEPT
     !.uid = IF "uid" \in c.fields THEN c.task.uid ELSE @,
     !.primary = IF "group" \in c.fields THEN c.task.group ELSE @,
     !.supp = IF "groups" \in c.fields
              THEN IF c.task.append THEN @ \cup c.task.groups ELSE c.task.groups ELSE @,
     !.shell = IF "shell" \in c.fields THEN c.task.shell ELSE @,
     !.home = IF "home" \in c.fields THEN c.task.home ELSE @]

AccountApply(h, c) ==
  CASE c.op = "userdel" -> [h EXCEPT !.user = NoUser]
    [] c.op = "useradd" -> [h EXCEPT !.user = Added(c.task)]
    [] c.op = "usermod" -> [h EXCEPT !.user = Modified(c, @)]
    [] c.op = "groupdel" -> [h EXCEPT !.group = NoGroup]
    [] c.op = "groupadd" -> [h EXCEPT !.group = [exists |-> TRUE, gid |-> IF c.task.gid = 0 THEN 500 ELSE c.task.gid]]
    [] c.op = "groupmod" -> [h EXCEPT !.group.gid = c.task.gid]

NamesGroups(c) == (IF c.task.group = None THEN {} ELSE {c.task.group})
                    \cup (IF HasGroups(c.task) THEN c.task.groups ELSE {})

AccountWorks(h, c) == c.op \in {"useradd", "usermod"} => NamesGroups(c) \subseteq h.groups

-----------------------------------------------------------------------------
AccountModules == {"user", "group"}

RunAccountTask(task, h) == IF task.module = "user" THEN UserModule(task, h) ELSE GroupModule(task, h)
CheckAccountTask(task, h) == IF task.module = "user" THEN CheckUser(task, h) ELSE CheckGroup(task, h)

UserTarget(task, user) ==
  IF task.state = "absent" THEN ~user.exists
  ELSE /\ user.exists
       /\ task.uid \in {0, user.uid} /\ task.group \in {None, user.primary}
       /\ task.shell \in {None, user.shell} /\ task.home \in {None, user.home}
       /\ HasGroups(task) => /\ task.groups \subseteq AllGroups(user)
                             /\ task.append \/ AllGroups(user) \subseteq task.groups \cup {user.primary}

AccountTarget(task, h) ==
  IF task.module = "user" THEN UserTarget(task, h.user)
  ELSE IF task.state = "absent" THEN ~h.group.exists
  ELSE h.group.exists /\ task.gid \in {0, h.group.gid}
=============================================================================
