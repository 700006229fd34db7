---------------------------- MODULE ArchiveTasks ----------------------------
(***************************************************************************)
(* The modules unarchive and artifact, which distribute an archive of the  *)
(* control side or members of it, and shell/command, script and the script *)
(* modules of a chart, which run code.  An archive is a sequence of        *)
(* entries [name, text, mode]; names are sequences of path elements.  The  *)
(* target directory is the path "dest", its entries are paths of their own *)
(* (the last element of the name).                                         *)
(***************************************************************************)
EXTENDS FileTasks

Entry(name, text) == [name |-> name, text |-> text, mode |-> "0755"]

(* matchArchiveMemberName: the whole name or its end after a slash.        *)
Hits(entry, member) == IsSuffix(member, entry.name)

(* selectArchiveMembers: every member takes the first entry it hits and no *)
(* entry satisfies two members.                                            *)
Selected(archive, members) ==
  LET Take(got, e) ==
        LET free == {i \in DOMAIN members : i \notin got.matched /\ Hits(e, members[i])}
        IN IF free = {} THEN got
           ELSE [matched |-> got.matched \cup {CHOOSE i \in free : \A j \in free : i <= j},
                 out |-> Append(got.out, e)]
  IN FoldLeft(Take, [matched |-> {}, out |-> <<>>], archive).out

AllFound(archive, members) == Len(Selected(archive, members)) = Len(members)

(* One member is put as a file below dest.                                 *)
Base(entry) == Last(entry.name)
MemberTask(task, e) ==
  [module |-> "copy", path |-> Base(e), mode |-> IF task.mode = None THEN e.mode ELSE task.mode,
   owner |-> None, become |-> FALSE, backup |-> FALSE]
PutMember(task, e, h) == PutFile(MemberTask(task, e), e.text, h)

(* distributeMembers and runMembers: the directory, then every member; one *)
(* that cannot be put ends the call.                                       *)
Members(task, archive, h) ==
  LET sel == Selected(archive, task.members)
      put == SelectSeq(sel, LAMBDA e : PutMember(task, e, h).ok)
      good == {i \in DOMAIN sel : \A j \in 1 .. i : PutMember(task, sel[j], h).ok}
      files == FlattenSeq([i \in good |-> PutMember(task, sel[i], h).cmds])
  IN IF ~AllFound(archive, task.members) \/ h.files["dest"].kind \notin {"missing", "directory"}
     THEN Refuse
     ELSE Call(Len(put) = Len(sel), files # <<>>,
               Maybe(h.files["dest"].kind = "missing", <<Do("mkdir", "dest", "")>>) \o files)

CheckMembers(task, archive, h) ==
  LET sel == Selected(archive, task.members)
      say == {CheckPutFile(MemberTask(task, sel[i]), sel[i].text, h) : i \in DOMAIN sel}
  IN IF ~AllFound(archive, task.members) \/ h.files["dest"].kind \notin {"missing", "directory"}
        \/ "fails" \in say
     THEN "fails" ELSE Foresees("changed" \in say)

-----------------------------------------------------------------------------
(* unarchive.  creates names a path of h.files; members need an archive of *)
(* the control side; a whole extraction is foreseen without a look.        *)
Guarded(task, h) == task.creates # None /\ h.files[task.creates].kind # "missing"

(* The archive, by way of a temporary copy unless it is on the host.       *)
Source(task) == Maybe(task.remote = "no", <<Do("write", "arc", ""), Do("store", "arc", "")>>)

Extraction(task) ==
  [i \in DOMAIN task.archive |-> Cmd("extract", Base(task.archive[i]), task.archive[i].text, "0755")]

(* The agent extracts by itself; over SSH unzip must be there.             *)
CanExtract(task, h) == h.native \/ task.kind # "zip" \/ h.unzip

Unarchive(task, h) ==
  IF task.kind = None THEN Refuse
  ELSE IF Guarded(task, h) THEN Sends(<<>>)
  ELSE IF task.members # <<>>
  THEN IF task.remote # "no" THEN Refuse ELSE Members(task, task.archive, h)
  ELSE IF task.remote = "missing" \/ h.files["dest"].kind \notin {"missing", "directory"} THEN Refuse
  ELSE IF ~CanExtract(task, h) THEN Call(FALSE, FALSE, Source(task))
  ELSE Sends(Source(task) \o <<Do("mkdir", "dest", "")>> \o Extraction(task))

CheckUnarchive(task, h) ==
  IF task.kind = None THEN "fails"
  ELSE IF Guarded(task, h) THEN "same"
  ELSE IF task.members = <<>> THEN "changed"
  ELSE IF task.remote # "no" THEN "fails" ELSE CheckMembers(task, task.archive, h)

(* artifact.  h.cache is the archive in the cache of the control side,     *)
(* NoArchive when there is none; task.sum the archive it must be (NoArchive*)
(* for any), task.url what the address has (NoArchive: no address).        *)
NoArchive == <<>>
CacheGood(task, h) == h.cache # NoArchive /\ task.sum \in {NoArchive, h.cache}
CacheStuck(task, h) == h.cache # NoArchive /\ ~CacheGood(task, h) /\ task.url = NoArchive
CanDownload(task) == task.url # NoArchive /\ task.sum \in {NoArchive, task.url}

Distribute(task, archive, h) ==
  IF task.members # <<>> THEN Members(task, archive, h)
  ELSE PutFile([MemberTask(task, archive[1]) EXCEPT !.path = "whole"], archive[1].text, h)

CheckDistribute(task, archive, h) ==
  IF task.members # <<>> THEN CheckMembers(task, archive, h)
  ELSE CheckPutFile([MemberTask(task, archive[1]) EXCEPT !.path = "whole"], archive[1].text, h)

Artifact(task, h) ==
  IF CacheGood(task, h) THEN Distribute(task, h.cache, h)
  ELSE IF CacheStuck(task, h) \/ ~CanDownload(task) THEN Refuse
  ELSE LET call == Distribute(task, task.url, h)
       IN [call EXCEPT !.cmds = <<[op |-> "cache", archive |-> task.url]>> \o @]

(* On a miss check mode announces a change without a look at the host or   *)
(* the address.                                                            *)
CheckArtifact(task, h) ==
  IF CacheGood(task, h) THEN CheckDistribute(task, h.cache, h)
  ELSE IF CacheStuck(task, h) THEN "fails" ELSE "changed"

-----------------------------------------------------------------------------
(* shell and command: guarded by a path that must not, or must, exist.     *)
Skips(task, h) ==
  \/ task.creates # None /\ h.files[task.creates].kind # "missing"
  \/ task.removes # None /\ h.files[task.removes].kind = "missing"

Shell(task, h) == IF Skips(task, h) THEN Sends(<<>>) ELSE Sends(<<Do("run", task.effect, "")>>)
CheckShell(task, h) == Foresees(~Skips(task, h))

(* script: uploaded under a temporary name, run, removed in any case.  An  *)
(* unterminated quote in its arguments is noticed after the upload.        *)
Uploaded == <<Do("write", "arc", ""), Do("store", "arc", "")>>
RunUploaded(task) == Append(Uploaded, Do("run", task.effect, ""))
Script(task, h) ==
  IF ~task.readable THEN Refuse
  ELSE IF task.quoted THEN Sends(RunUploaded(task)) ELSE Call(FALSE, FALSE, Uploaded)
CheckScript(task, h) == IF task.readable THEN "changed" ELSE "fails"

(* A script module of the chart may say that it failed or changed nothing; *)
(* in check mode it runs only when the chart says it can (checks), and     *)
(* then says what it would do.                                             *)
ChartModule(task, h) ==
  IF ~task.readable THEN Refuse
  ELSE Call(task.says # "fails", task.says = "changed", RunUploaded(task))
CheckChartModule(task, h) ==
  IF ~task.readable THEN "fails" ELSE IF task.checks THEN task.says ELSE "skips"

-----------------------------------------------------------------------------
ArchiveModules == {"unarchive", "artifact", "shell", "script", "chart module"}

RunArchiveTask(task, h) ==
  CASE task.module = "unarchive" -> Unarchive(task, h)
    [] task.module = "artifact" -> Artifact(task, h)
    [] task.module = "shell" -> Shell(task, h)
    [] task.module = "script" -> Script(task, h)
    [] task.module = "chart module" -> ChartModule(task, h)

CheckArchiveTask(task, h) ==
  CASE task.module = "unarchive" -> CheckUnarchive(task, h)
    [] task.module = "artifact" -> CheckArtifact(task, h)
    [] task.module = "shell" -> CheckShell(task, h)
    [] task.module = "script" -> CheckScript(task, h)
    [] task.module = "chart module" -> CheckChartModule(task, h)

(* "store" ends an upload under a temporary name of its own; "run" is a    *)
(* program that makes or removes one path; "cache" is written on the       *)
(* control side.                                                           *)
ArchiveApply(h, c) ==
  CASE c.op = "store" -> [h EXCEPT !.tmp = (@ \ {"upload"}) \cup {"copy"}]
    [] c.op = "extract" -> [h EXCEPT !.files[c.path] = File(c.text, c.arg, Login)]
    [] c.op = "run" /\ c.path # None ->
         [h EXCEPT !.files[c.path] = IF @.kind = "missing" THEN File(Empty, "0644", Login) ELSE Missing]
    [] c.op = "cache" -> [h EXCEPT !.cache = c.archive]
    [] OTHER -> FileApply(h, c)

EntriesInPlace(sel, h) ==
  \A i \in DOMAIN sel : h.files[Base(sel[i])].kind = "file" /\ h.files[Base(sel[i])].text = sel[i].text

ArchiveTarget(task, h) ==
  CASE task.module = "unarchive" -> EntriesInPlace(
         IF task.members = <<>> THEN task.archive ELSE Selected(task.archive, task.members), h)
    [] task.module = "artifact" ->
         /\ task.sum \in {NoArchive, h.cache}
         /\ IF task.members = <<>> THEN h.files["whole"].text = h.cache[1].text
            ELSE EntriesInPlace(Selected(h.cache, task.members), h)
    [] task.module = "shell" -> task.creates # None => h.files[task.creates].kind # "missing"
    [] OTHER -> TRUE
=============================================================================
