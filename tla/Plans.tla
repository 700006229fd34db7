------------------------------- MODULE Plans -------------------------------
(***************************************************************************)
(* What one call of a module does to its host (src/internal/module).  A    *)
(* module probes the host, then sends the commands that are missing; a     *)
(* call is therefore a record [ok, changed, cmds]: the commands it will    *)
(* send, whether it reports a change when all of them work, and whether it *)
(* succeeds then (FALSE: it refuses after what it has sent).  A host is a  *)
(* record with the fields files (a function from paths to nodes) and tmp   *)
(* (the temporary files it holds) and those of the family of modules.      *)
(***************************************************************************)
EXTENDS Naturals, Sequences, FiniteSets, SequencesExt

None == "none"

Call(ok, changed, cmds) == [ok |-> ok, changed |-> changed, cmds |-> cmds]

Refuse == Call(FALSE, FALSE, <<>>)

(* Changed exactly when something is sent, as almost every module reports. *)
Sends(cmds) == Call(TRUE, cmds # <<>>, cmds)

Maybe(cond, cmds) == IF cond THEN cmds ELSE <<>>

(* The answers of check mode.                                              *)
Foresees(would) == IF would THEN "changed" ELSE "same"

-----------------------------------------------------------------------------
(* Nodes of a file system.  A text is its lines and whether a newline ends *)
(* the last one; Unreadable is what a source that cannot be read yields.   *)
Text(lines, eol) == [lines |-> lines, eol |-> eol]
Empty == Text(<<>>, FALSE)
Unreadable == Text(<<"unreadable">>, FALSE)

Missing == [kind |-> "missing", text |-> Empty, mode |-> "", owner |-> "", to |-> ""]
File(text, mode, owner) == [Missing EXCEPT !.kind = "file", !.text = text, !.mode = mode, !.owner = owner]
Directory(mode, owner) == [Missing EXCEPT !.kind = "directory", !.mode = mode, !.owner = owner]
(* A link has the mode 0777 and an owner of its own.                       *)
Link(to, owner) == [Missing EXCEPT !.kind = "link", !.to = to, !.mode = "0777", !.owner = owner]

(* Of a path: `stat`, `readlink`, `test -L`, `cp -a`, `rm` and a rename    *)
(* are about the node itself; `test -e`, `test -f`, a checksum, a download,*)
(* chmod, chown and touch are about what it leads to.                      *)
Dest(h, path) == IF h.files[path].kind = "link" THEN h.files[path].to ELSE path
Followed(h, path) == h.files[Dest(h, path)]
Dangling(h, path) == h.files[path].kind = "link" /\ Followed(h, path).kind = "missing"

(* The user the connection logs in as: an upload is a new file of his.     *)
Login == "login"

(* The shell commands the file modules send, by what they do to the node.  *)
(* A command is a record [op, path, text, arg].                            *)
Cmd(op, path, text, arg) == [op |-> op, path |-> path, text |-> text, arg |-> arg]
Do(op, path, arg) == Cmd(op, path, Empty, arg)

NodeAfter(node, c) ==
  CASE c.op = "rename" -> File(c.text, c.arg, Login)
    [] c.op = "chmod" -> [node EXCEPT !.mode = c.arg]
    [] c.op = "chown" -> [node EXCEPT !.owner = c.arg]
    [] c.op = "rm" -> Missing
    [] c.op = "mkdir" -> IF node.kind = "missing" THEN Directory("0755", Login) ELSE node
    [] c.op = "touch" -> IF node.kind = "missing" THEN File(Empty, "0644", Login) ELSE node
    [] c.op = "ln" -> Link(c.arg, Login)
    [] OTHER -> node

OnNode == {"rename", "rm", "mkdir", "ln"}
Through == {"chmod", "chown", "touch"}

(* "write" fills a temporary file beside the target, "rename" moves it     *)
(* there; "backup" copies the file to dest.bak.<time>.                     *)
FileApply(h, c) ==
  CASE c.op = "write" -> [h EXCEPT !.tmp = @ \cup {"upload"}]
    [] c.op = "backup" -> [h EXCEPT !.bak = h.files[c.path].text]
    [] c.op \in OnNode -> [h EXCEPT !.files[c.path] = NodeAfter(@, c),
                                    !.tmp = IF c.op = "rename" THEN @ \ {"upload"} ELSE @]
    [] c.op \in Through -> [h EXCEPT !.files[Dest(h, c.path)] = NodeAfter(@, c)]
    [] OTHER -> h

FileWorks(h, c) == c.op \in {"chmod", "chown"} => Followed(h, c.path).kind # "missing"

(* Conn.UploadFile: a temporary file beside the target with the mode asked *)
(* for, then a rename; on an error the temporary file is removed.          *)
Upload(path, text, mode) ==
  <<Cmd("write", path, text, mode), Cmd("rename", path, text, mode)>>
=============================================================================
