----------------------------- MODULE FileTasks -----------------------------
(***************************************************************************)
(* The modules copy, template, get_url, lineinfile, file and fetch: the    *)
(* probes they make and the commands they then send (Run), and what they   *)
(* announce in check mode (Check).  Check and Run of one module are        *)
(* branches of one Go function that decide again what is missing: they are *)
(* modelled apart.  A checksum is the text it stands for; a regular        *)
(* expression is the set of lines it matches.                              *)
(***************************************************************************)
EXTENDS Plans

Node(task, h) == h.files[task.path]
Seen(task, h) == Followed(h, task.path)

(* owner/group need become.                                                *)
MayOwn(task) == task.owner # None => task.become

(* remoteOwnerGroup and remoteMode look at a link itself, where it leads   *)
(* somewhere.                                                              *)
OwnerDrift(task, h) ==
  task.owner # None /\ (Seen(task, h).kind = "missing" \/ Node(task, h).owner # task.owner)
ModeDrift(task, h) ==
  task.mode # None /\ Seen(task, h).kind # "missing" /\ Node(task, h).mode # task.mode

(* chmodIfDiffers, then chownPath.                                         *)
FixAttributes(task, h) ==
  Maybe(ModeDrift(task, h), <<Do("chmod", task.path, task.mode)>>)
    \o Maybe(OwnerDrift(task, h), <<Do("chown", task.path, task.owner)>>)

Mode(task) == IF task.mode = None THEN "0644" ELSE task.mode

(* putFile: nothing but attributes when the checksums agree, otherwise a   *)
(* backup, the upload and the owner.  A directory at the path fails.  The  *)
(* upload replaces a link by the file.                                     *)
PutFile(task, text, h) ==
  LET seen == Seen(task, h)
      same == seen.kind = "file" /\ seen.text = text
  IN IF ~MayOwn(task) \/ seen.kind = "directory" THEN Refuse
     ELSE IF same THEN Sends(FixAttributes(task, h))
     ELSE Sends(Maybe(task.backup /\ seen.kind = "file", <<Do("backup", task.path, "")>>)
                  \o Upload(task.path, text, Mode(task))
                  \o Maybe(task.owner # None, <<Do("chown", task.path, task.owner)>>))

(* Mutant of CheckPutFile: the owner is not looked at in check mode.       *)
CheckPutFileNoOwner(task, text, h) ==
  LET seen == Seen(task, h) IN
  IF ~MayOwn(task) \/ seen.kind = "directory" THEN "fails"
  ELSE Foresees(seen.kind = "missing" \/ seen.text # text \/ ModeDrift(task, h))

CheckPutFile(task, text, h) ==
  LET seen == Seen(task, h) IN
  IF ~MayOwn(task) \/ seen.kind = "directory" THEN "fails"
  ELSE Foresees(\/ seen.kind = "missing" \/ seen.text # text
                \/ ModeDrift(task, h) \/ OwnerDrift(task, h))

-----------------------------------------------------------------------------
(* copy and template: the text is the file's, the literal or the rendered  *)
(* one; a source that cannot be read or rendered has none.                 *)
Copy(task, h) == IF task.text = Unreadable THEN Refuse ELSE PutFile(task, task.text, h)
CheckCopy(task, h) == IF task.text = Unreadable THEN "fails" ELSE CheckPutFile(task, task.text, h)

(* get_url: with a checksum the file already has, nothing is downloaded;   *)
(* what is downloaded must have it.  What the server has is task.text,     *)
(* Unreadable when it does not answer.                                     *)
UpToDate(task, h) == task.sum # Empty /\ Seen(task, h).kind = "file" /\ Seen(task, h).text = task.sum
Fetched(task) == task.text # Unreadable /\ task.sum \in {Empty, task.text}

SkipDownload(task, h) ==
  IF MayOwn(task) THEN Sends(FixAttributes(task, h)) ELSE Refuse

GetUrl(task, h) ==
  IF UpToDate(task, h) THEN SkipDownload(task, h)
  ELSE IF Fetched(task) THEN PutFile(task, task.text, h) ELSE Refuse

CheckGetUrl(task, h) ==
  IF UpToDate(task, h)
  THEN IF MayOwn(task) THEN Foresees(OwnerDrift(task, h) \/ ModeDrift(task, h))
       ELSE "fails"
  ELSE IF Fetched(task) THEN CheckPutFile(task, task.text, h) ELSE "fails"

-----------------------------------------------------------------------------
(* lineinfile.  strings.Split and Join: an empty last line without newline *)
(* is the newline of the line before it.                                   *)
Joined(lines, eol) ==
  IF lines = <<>> THEN Empty
  ELSE IF eol \/ Last(lines) # "" THEN Text(lines, eol)
  ELSE Text(Front(lines), Len(lines) > 1)

Matching(lines, set) == {i \in DOMAIN lines : lines[i] \in set}

(* The last line insertafter matches, or the end of the file.              *)
InsertPos(task, lines) ==
  LET at == Matching(lines, task.after)
  IN IF at = {} THEN Len(lines) ELSE CHOOSE i \in at : \A j \in at : j <= i

Removed(task, text) ==
  LET gone == IF task.regexp = {} THEN {task.line} ELSE task.regexp
  IN Joined(SelectSeq(text.lines, LAMBDA l : l \notin gone), text.eol)

(* lineTransform: the first match is replaced, a line that is there (no    *)
(* regexp) stays, otherwise the line is inserted, with a final newline.    *)
LineTransform(task, text) ==
  LET lines == text.lines
      hits == Matching(lines, task.regexp)
  IN IF task.state = "absent" THEN Removed(task, text)
     ELSE IF hits # {}
     THEN Joined([lines EXCEPT ![CHOOSE i \in hits : \A j \in hits : i <= j] = task.line], text.eol)
     ELSE IF task.regexp = {} /\ task.line \in ToSet(lines) THEN text
     ELSE Joined(InsertAt(lines, InsertPos(task, lines) + 1, task.line), TRUE)

LineRefused(task, seen) ==
  \/ ~MayOwn(task)
  \/ seen.kind = "directory"
  \/ seen.kind = "missing" /\ task.state = "present" /\ ~task.create
NoLineToRemove(task, seen) == seen.kind = "missing" /\ task.state = "absent"

(* The mode `stat` gives for an existing file is kept; the upload makes it *)
(* the login user's, which the probe after it sees.                        *)
LineInFile(task, h) ==
  LET seen == Seen(task, h)
      new == LineTransform(task, seen.text)
      changed == seen.kind = "missing" \/ new # seen.text
      mode == IF seen.kind = "missing" THEN Mode(task) ELSE Node(task, h).mode
      owner == IF changed THEN Login ELSE Node(task, h).owner
  IN IF LineRefused(task, seen) THEN Refuse
     ELSE IF NoLineToRemove(task, seen) THEN Sends(<<>>)
     ELSE Sends(Maybe(changed /\ task.backup /\ seen.kind = "file", <<Do("backup", task.path, "")>>)
                  \o Maybe(changed, Upload(task.path, new, mode))
                  \o Maybe(task.owner \notin {None, owner}, <<Do("chown", task.path, task.owner)>>))

(* In check mode the owner is not looked at.                               *)
CheckLineInFile(task, h) ==
  LET seen == Seen(task, h)
  IN IF LineRefused(task, seen) THEN "fails"
     ELSE IF NoLineToRemove(task, seen) THEN "same"
     ELSE Foresees(seen.kind = "missing" \/ LineTransform(task, seen.text) # seen.text)

-----------------------------------------------------------------------------
(* file.                                                                   *)
TypeConflict(task, node) ==
  /\ node.kind # "missing" /\ node.kind # task.state
  /\ task.state \in {"file", "directory", "link"}

FileRefused(task, node) ==
  \/ ~MayOwn(task)
  \/ TypeConflict(task, node)
  \/ task.state = "file" /\ node.kind = "missing"

(* convergeFileState.                                                      *)
StateCommands(task, node) ==
  CASE task.state = "directory" /\ node.kind = "missing" -> <<Do("mkdir", task.path, "")>>
    [] task.state = "touch" -> <<Do("touch", task.path, "")>>
    [] task.state = "link" /\ node.to # task.src -> <<Do("ln", task.path, task.src)>>
    [] OTHER -> <<>>

(* Mutant of FileModule: the attributes are compared before the state is   *)
(* converged.                                                              *)
FileModuleProbedBefore(task, h) ==
  LET node == Node(task, h) IN
  IF FileRefused(task, node) THEN Refuse
  ELSE IF task.state = "absent" THEN Sends(Maybe(node.kind # "missing", <<Do("rm", task.path, "")>>))
  ELSE Sends(StateCommands(task, node) \o Maybe(node.kind # "missing", FixAttributes(task, h)))

(* The mode cannot be set through a link that leads nowhere.               *)
NoModeThere(task, after) == task.mode # None /\ Dangling(after, task.path)

FileModule(task, h) ==
  LET node == Node(task, h)
      cmds == StateCommands(task, node)
      after == FoldLeft(FileApply, h, cmds)
  IN IF FileRefused(task, node) THEN Refuse
     ELSE IF task.state = "absent" THEN Sends(Maybe(node.kind # "missing", <<Do("rm", task.path, "")>>))
     ELSE IF NoModeThere(task, after) THEN Call(FALSE, FALSE, cmds)
     ELSE Sends(cmds \o Maybe(Node(task, after).kind # "missing", FixAttributes(task, after)))

(* In check mode the attributes of what is still missing are not compared, *)
(* but an owner that cannot be read counts as a change.                    *)
CheckFileModule(task, h) ==
  LET node == Node(task, h) IN
  IF FileRefused(task, node) THEN "fails"
  ELSE IF task.state = "absent" THEN Foresees(node.kind # "missing")
  ELSE Foresees(\/ StateCommands(task, node) # <<>>
                \/ node.kind # "missing" /\ (ModeDrift(task, h) \/ OwnerDrift(task, h)))

-----------------------------------------------------------------------------
(* fetch writes on the control side: h.local is the file there.  It is     *)
(* downloaded into a temporary file and renamed.                           *)
Fetch(task, h) ==
  IF Seen(task, h).kind # "file" THEN Refuse
  ELSE Sends(Maybe(h.local # Seen(task, h).text,
                   <<Do("download", task.path, ""), Cmd("keep", task.path, Seen(task, h).text, "")>>))

CheckFetch(task, h) ==
  IF Seen(task, h).kind # "file" THEN "fails" ELSE Foresees(h.local # Seen(task, h).text)

FetchApply(h, c) ==
  CASE c.op = "download" -> [h EXCEPT !.tmp = @ \cup {"upload"}]
    [] c.op = "keep" -> [h EXCEPT !.tmp = @ \ {"upload"}, !.local = c.text]
    [] OTHER -> FileApply(h, c)

-----------------------------------------------------------------------------
FileTaskModules == {"copy", "get_url", "lineinfile", "file", "fetch"}

RunFileTask(task, h) ==
  CASE task.module = "copy" -> Copy(task, h)
    [] task.module = "get_url" -> GetUrl(task, h)
    [] task.module = "lineinfile" -> LineInFile(task, h)
    [] task.module = "file" -> FileModule(task, h)
    [] task.module = "fetch" -> Fetch(task, h)

CheckFileTask(task, h) ==
  CASE task.module = "copy" -> CheckCopy(task, h)
    [] task.module = "get_url" -> CheckGetUrl(task, h)
    [] task.module = "lineinfile" -> CheckLineInFile(task, h)
    [] task.module = "file" -> CheckFileModule(task, h)
    [] task.module = "fetch" -> CheckFetch(task, h)

(* What the task asks for, as its documentation says it, without a look at *)
(* how it is reached: the content and the mode of what the path leads to.  *)
(* An owner may be that of the link, where the path is one.                *)
AttributesAsAsked(task, h) ==
  /\ task.mode \in {None, Seen(task, h).mode}
  /\ task.owner \in {None, Seen(task, h).owner, Node(task, h).owner}

FileTarget(task, h) ==
  LET node == Node(task, h)
      seen == Seen(task, h) IN
  CASE task.module = "copy" -> seen.kind = "file" /\ seen.text = task.text /\ AttributesAsAsked(task, h)
    [] task.module = "get_url" -> /\ seen.kind = "file" /\ AttributesAsAsked(task, h)
                                  /\ seen.text = IF task.sum = Empty THEN task.text ELSE task.sum
    [] task.module = "lineinfile" -> IF task.state = "present"
         THEN task.line \in ToSet(seen.text.lines) /\ task.owner \in {None, seen.owner, node.owner}
         ELSE ToSet(seen.text.lines) \cap (IF task.regexp = {} THEN {task.line} ELSE task.regexp) = {}
    [] task.module = "file" -> CASE task.state = "absent" -> node.kind = "missing"
         [] task.state = "link" -> node.kind = "link" /\ node.to = task.src /\ AttributesAsAsked(task, h)
         [] task.state \in {"file", "directory"} -> node.kind = task.state /\ AttributesAsAsked(task, h)
         [] OTHER -> node.kind # "missing" => AttributesAsAsked(task, h)
    [] task.module = "fetch" -> h.local = seen.text

(* A mode or an owner asked for through a link, where every run compares   *)
(* the link and sets its target.                                           *)
ThroughLink(task, h) ==
  task.module # "fetch" /\ Node(task, h).kind = "link" /\ (task.mode # None \/ task.owner # None)
=============================================================================
