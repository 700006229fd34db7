----------------------------- MODULE MCConverge -----------------------------
(* Tasks and hosts for Converge: every module with its parameters in       *)
(* combination, on hosts that lack it, have it or have something else.     *)
EXTENDS Converge

Old == Text(<<"a", "x">>, TRUE)
New == Text(<<"a", "b">>, TRUE)
NoEol == Text(<<"a", "x">>, FALSE)

(* The path of the tasks is "p"; it may be a link to "q", or to "t", where  *)
(* nothing is.                                                             *)
FileHost(p, q, local) ==
  [files |-> ("p" :> p) @@ ("q" :> q) @@ ("t" :> Missing), tmp |-> {}, bak |-> Empty, local |-> local]
Nodes == {Missing, File(Old, "0600", "app"), File(New, "0644", "root"), File(NoEol, "0644", "app"),
          Directory("0755", "root"), Link("t", "root")}
FileHosts ==
  {FileHost(node, File(New, "0600", "app"), Empty) : node \in Nodes}
    \cup {FileHost(Link("q", "root"), q, Empty) :
            q \in {File(New, "0600", "app"), File(Old, "0644", "root"), Directory("0755", "root")}}

Attributes == {<<None, None, TRUE>>, <<"0600", None, FALSE>>, <<"0644", "root", TRUE>>, <<None, "app", FALSE>>,
               <<None, "app", TRUE>>}
Asks(rest, as) == [path |-> "p", mode |-> as[1], owner |-> as[2], become |-> as[3]] @@ rest

CopyTasks == {Asks([module |-> "copy", text |-> text, backup |-> backup], as) :
                text \in {New, Unreadable}, backup \in BOOLEAN, as \in {a \in Attributes : a[1] # None}}
GetUrlTasks == {Asks([module |-> "get_url", text |-> text, sum |-> sum, backup |-> FALSE], as) :
                  text \in {New, Old, Unreadable}, sum \in {Empty, New}, as \in {a \in Attributes : a[1] # None}}
LineTasks == {Asks([module |-> "lineinfile", state |-> state, line |-> "b", regexp |-> regexp,
                    after |-> after, create |-> create, backup |-> FALSE], as) :
                state \in {"present", "absent"}, regexp \in {{}, {"b", "x"}}, after \in {{}, {"a"}},
                create \in BOOLEAN, as \in Attributes}
FileTasksMC == {Asks([module |-> "file", state |-> state, src |-> "t"], as) :
                state \in {None, "file", "directory", "touch", "absent"}, as \in Attributes}
LinkTasks == {Asks([module |-> "file", state |-> "link", src |-> src], as) : src \in {"q", "t"}, as \in Attributes}
FetchTasks == {[module |-> "fetch", path |-> "p"]}

FileCases ==
  ((CopyTasks \cup GetUrlTasks \cup LineTasks \cup FileTasksMC \cup LinkTasks) \X FileHosts)
    \cup (FetchTasks \X {[h EXCEPT !.local = local] : h \in FileHosts, local \in {Empty, Old}})

(* Accounts.  A task that names groups and moves the primary group is left *)
(* to the README.                                                          *)
AccountHost(user, group) == [user |-> user, group |-> group, groups |-> {"own", "g", "k"}, tmp |-> {}]
Users == {NoUser, User(7, "g", {}, "sh", "/home"), User(8, "own", {"g", "k"}, "nologin", "/srv")}
UserTasks == {[module |-> "user", state |-> state, uid |-> uid, group |-> gg[1], groups |-> gg[2], append |-> append,
               shell |-> shell, home |-> shell, become |-> become] :
                state \in {"present", "absent"}, uid \in {0, 7},
                gg \in {<<None, NoGroups>>, <<"g", NoGroups>>, <<"no", NoGroups>>, <<None, {}>>, <<None, {"k"}>>,
                        <<None, {"own", "g"}>>, <<"own", {"k"}>>},
                append \in BOOLEAN, shell \in {None, "nologin"}, become \in BOOLEAN}
MovesPrimary(c) == c[1].group # None /\ HasGroups(c[1]) /\ c[2].user.exists /\ c[2].user.primary # c[1].group
GroupTasks == {[module |-> "group", state |-> state, gid |-> gid, become |-> become] :
                 state \in {"present", "absent"}, gid \in {0, 5}, become \in BOOLEAN}

AccountCases ==
  {c \in UserTasks \X {AccountHost(user, NoGroup) : user \in Users} : ~MovesPrimary(c)}
    \cup (GroupTasks \X {AccountHost(NoUser, group) : group \in {NoGroup, [exists |-> TRUE, gid |-> 4], [exists |-> TRUE, gid |-> 5]}})

(* Units and packages.                                                     *)
Unit(text) == IF text = Empty THEN Missing ELSE File(text, "0644", "root")
Strict(h) == [h EXCEPT !.files["unit"].mode = "0600"]
UnitHost(text, loaded, running, enabled, systemd) ==
  [files |-> "unit" :> Unit(text), tmp |-> {}, bak |-> Empty, loaded |-> loaded, runs |-> running,
   enabled |-> enabled, systemd |-> systemd]
UnitHosts == {UnitHost(Empty, Empty, Empty, FALSE, TRUE), UnitHost(Old, Empty, Empty, TRUE, TRUE),
              UnitHost(Old, Old, Old, FALSE, TRUE), UnitHost(New, New, Empty, FALSE, TRUE),
              UnitHost(New, New, Old, TRUE, TRUE), Strict(UnitHost(New, New, New, TRUE, TRUE)),
              Strict(UnitHost(New, Old, Old, TRUE, TRUE))}
States == {None, "started", "stopped", "restarted", "reloaded"}
ServiceTasksMC == {[module |-> "service", state |-> state, enabled |-> enabled] :
                     state \in States, enabled \in {None, "yes", "no"}}
UnitTasks == {[module |-> "systemd_unit", state |-> state, enabled |-> enabled, text |-> text, reload |-> reload] :
                state \in States, enabled \in {None, "yes", "no"}, text \in {Empty, New, Broken}, reload \in BOOLEAN}
PackageHost(a, b, manager) == [packages |-> ("a" :> a) @@ ("b" :> b), manager |-> manager, known |-> {"a"}, tmp |-> {}]
PackageTasks == {[module |-> "package", names |-> names, state |-> state] :
                   names \in {<<"a">>, <<"b", "a">>, <<>>}, state \in {"present", "latest", "absent"}}

ServiceCases ==
  ((ServiceTasksMC \cup UnitTasks) \X UnitHosts)
    \cup (UnitTasks \X {UnitHost(Empty, Empty, Empty, FALSE, FALSE)})
    \cup (PackageTasks \X {PackageHost(a, b, m) : a \in {"absent", "old", "newest"}, b \in {"absent", "old"}, m \in {None, "apt"}})

(* Archives of two entries, the one that creates: names last.              *)
Archive == <<Entry(<<"top", "m">>, Old), Entry(<<"top", "n">>, New)>>
Changed == <<Entry(<<"top", "m">>, New), Entry(<<"top", "n">>, New)>>
ArchiveHost(dest, m, n, cache, native) ==
  [files |-> ("dest" :> dest) @@ ("m" :> m) @@ ("n" :> n) @@ ("whole" :> m), tmp |-> {}, bak |-> Empty,
   cache |-> cache, native |-> native, unzip |-> FALSE]
Dir == Directory("0755", "root")
ArchiveHosts == {ArchiveHost(Missing, Missing, Missing, NoArchive, FALSE),
                 ArchiveHost(Dir, File(Old, "0755", "app"), Missing, Archive, TRUE),
                 ArchiveHost(Dir, File(Old, "0644", "app"), File(New, "0755", "app"), Changed, FALSE),
                 ArchiveHost(Dir, Missing, Dir, Archive, FALSE),
                 ArchiveHost(File(Old, "0644", "app"), Missing, Missing, Archive, FALSE)}
MemberLists == {<<>>, <<<<"n">>>>, <<<<"top", "m">>, <<"n">>>>, <<<<"no">>>>}
UnarchiveTasks == {[module |-> "unarchive", archive |-> Archive, kind |-> kind, creates |-> creates, members |-> members,
                    mode |-> None, remote |-> remote] :
                     kind \in {"targz", "zip", None}, creates \in {None, "n"}, members \in MemberLists,
                     remote \in {"no", "there", "missing"}}
ArtifactTasks == {[module |-> "artifact", url |-> url, sum |-> sum, members |-> members, mode |-> mode] :
                    url \in {NoArchive, Archive, Changed}, sum \in {NoArchive, Archive}, members \in MemberLists,
                    mode \in {None, "0600"}}
CodeTasks == {[module |-> "shell", creates |-> g[1], removes |-> g[2], effect |-> g[3]] :
                g \in {<<"n", None, "n">>, <<None, "n", "n">>, <<None, None, "m">>, <<None, None, None>>}}
              \cup {[module |-> "script", readable |-> r, quoted |-> q, effect |-> None] : r \in BOOLEAN, q \in BOOLEAN}
              \cup {[module |-> "chart module", readable |-> r, checks |-> k, says |-> s, effect |-> None] :
                      r \in BOOLEAN, k \in BOOLEAN, s \in {"changed", "same", "fails"}}

(* creates: over a directory an entry cannot replace is not a marker.      *)
ArchiveCases ==
  {c \in UnarchiveTasks \X ArchiveHosts : c[1].creates = None \/ c[2].files["n"].kind # "directory"}
    \cup ((ArtifactTasks \cup CodeTasks) \X ArchiveHosts)

AllCases == FileCases \cup AccountCases \cup ServiceCases \cup ArchiveCases
=============================================================================
