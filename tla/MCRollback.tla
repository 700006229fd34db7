----------------------------- MODULE MCRollback -----------------------------
(* Bounds for Rollback: two hosts, a tree of a file, a directory with a    *)
(* file in it and a link, task lists of at most three tasks.               *)
EXTENDS Rollback

CONSTANTS h1, h2

BothHosts == <<h1, h2>>
OneHost == <<h1>>

Tree == (<<"f">> :> File(<<"v0">>, "644")) @@ (<<"d">> :> Directory)
          @@ (<<"d", "f">> :> File(<<"v0">>, "600")) @@ (<<"l">> :> Link(<<"f">>))

T(kind, who, to, path, data, mode) ==
  [kind |-> kind, who |-> who, to |-> to, path |-> path, data |-> data, mode |-> mode]

Menu(who, to) ==
  {T("put", who, to, <<"f">>, <<"v1">>, "644"), T("put", who, to, <<"g">>, <<"v1">>, "644"),
   T("put", who, to, <<"d", "g">>, <<"v1">>, "644"), T("put", who, to, <<"f">>, <<"v0">>, "600"),
   T("put", who, to, <<"d">>, <<"v1">>, "644"),
   T("absent", who, to, <<"d", "f">>, <<>>, ""), T("directory", who, to, <<"n", "m">>, <<>>, "755"),
   T("link", who, to, <<"l">>, <<"g">>, ""), T("link", who, to, <<"k">>, <<"f">>, "")}

(* Tasks for both hosts, for one, and for one on the other.                *)
AllMenus == Menu({h1, h2}, None) \cup Menu({h1}, h2)

Pairs == {<<a, b>> : a \in AllMenus, b \in AllMenus}

(* One host whose tasks write new files again and again.                   *)
NewFiles == {T("put", {h1}, None, <<"g">>, <<"v1">>, "644"),
             T("put", {h1}, None, <<"g">>, <<"v2">>, "644"),
             T("absent", {h1}, None, <<"g">>, <<>>, ""),
             T("put", {h1}, None, <<"n", "g">>, <<"v1">>, "644"),
             T("directory", {h1}, None, <<"n">>, <<>>, "755")}
Rewrites == {<<a, b, c>> : a \in NewFiles, b \in NewFiles, c \in NewFiles}

PairsAndRewrites == Pairs \cup Rewrites
=============================================================================
