------------------------------- MODULE MCFleet -----------------------------
(* A chart with a sub chart on two hosts, the second one behind a relay.    *)
EXTENDS PlanFile

CONSTANT HookOf   \* how the chart spells its hooks of the deploy phase

MCHostKeys == {"address", "key", "password"}
MCCarried == {"address", "password"}
MCSecrets == {"password"}

Web == 1
Db == 2
HostA == 5
HostB == 6
Relay == 7

NameOf(n) == [neg |-> FALSE, segs |-> <<[kind |-> "name", name |-> n, names |-> {}]>>]

(* The files of the inventory; later the port of a and the group of b are  *)
(* not what they were.                                                     *)
Group(hosts, vars, children) == [hosts |-> hosts, vars |-> vars, children |-> children]
Conn(x) == [address |-> x, password |-> IF x = "b" THEN "plain" ELSE "env", key |-> "k"]
RawSite(port, webHosts) ==
  (0 :> Group(<<>>, [region |-> Leaf("all")], <<>>))
    @@ (Web :> Group([h \in webHosts |-> <<>>], <<>>, <<Db>>))
    @@ (Db :> Group((HostB :> (Conn("b") @@ [via |-> Relay])), [zone |-> Leaf("z")], <<>>))
    @@ (3 :> Group((HostA :> (Conn("a") @@ [port |-> port])) @@ (Relay :> Conn("r")), <<>>, <<>>))
Files(x) == [group |-> (Db :> [zone |-> Leaf(x)]), host |-> <<>>]
Site(port, webHosts, zone, facts) == [inv |-> Build(RawSite(port, webHosts), Files(zone)).inv, facts |-> facts]

MCFirstSite == Site(Leaf("p1"), {HostA}, "z1", (HostA :> [os |-> Leaf("x")]))
MCLaterSites == {Site(Leaf("p2"), {HostA, HostB}, "z2", <<>>)}

Plain1(name, cap) ==
  [name |-> name, hook |-> [at |-> "", of |-> ""], kind |-> "task", cap |-> cap, ref |-> [name |-> "", versions |-> {}],
   entry |-> "deploy", vars |-> <<>>, block |-> <<>>, rescue |-> <<>>, always |-> <<>>]
HookTask(name, at, of) == [Plain1(name, "none") EXCEPT !.hook = [at |-> at, of |-> of]]
Ref(name, sub, entry) == [Plain1(name, "none") EXCEPT !.kind = "chart", !.ref = [name |-> sub, versions |-> {1}], !.entry = entry]
Block(name, in, rescue) == [Plain1(name, "none") EXCEPT !.kind = "block", !.block = in, !.rescue = rescue]
MCPlay(pattern, vars, tasks, handlers) ==
  [pattern |-> pattern, vars |-> vars, tasks |-> tasks, handlers |-> handlers]

NoSpecs == <<>>
Lib == [name |-> "lib", version |-> 1, values |-> [x |-> Leaf("1")], subs |-> <<>>, required |-> {}, sensitive |-> <<>>,
        override |-> {}, noMarker |-> FALSE, specs |-> NoSpecs, schema |-> {}, files |-> {},
        phases |-> [deploy |-> <<MCPlay(<<>>, <<>>, <<Plain1("lib1", "full")>>, <<Plain1("restart", "none")>>)>>]]
Jdk == [name |-> "jdk", version |-> 1, values |-> [mem |-> Leaf("1g")], subs |-> [lib |-> Lib], required |-> {},
        sensitive |-> <<>>, override |-> {}, noMarker |-> FALSE, specs |-> NoSpecs,
        schema |-> {"mem", "global", "lib"}, files |-> {},
        phases |-> [deploy |-> <<MCPlay(<<>>, <<>>, <<Plain1("unpack", "partial"), Ref("lib", "lib", "deploy")>>, <<>>)>>,
                    tune |-> <<MCPlay(<<>>, <<>>, <<Plain1("sysctl", "none")>>, <<Plain1("reload", "none")>>)>>]]

Shop(version, region, motd) ==
  [name |-> "shop", version |-> version,
   values |-> [port |-> Leaf("80"), region |-> Leaf(region),
               db |-> Tree([user |-> Leaf("u"), pass |-> Leaf("s")]), jdk |-> Tree([mem |-> Leaf("2g")]),
               global |-> Tree([dc |-> Leaf("d")])],
   subs |-> [jdk |-> Jdk], required |-> {<<"db", "user">>}, sensitive |-> <<<<"db", "pass">>>>,
   override |-> {"port"}, noMarker |-> FALSE, schema |-> {},
   specs |-> [update |-> [release |-> TRUE, record |-> FALSE, clears |-> FALSE, from |-> ""]],
   files |-> {[path |-> "motd", size |-> 1, packaged |-> FALSE, content |-> motd],
              [path |-> "packages/jdk", size |-> 1, packaged |-> TRUE, content |-> motd],
              [path |-> "iso", size |-> 9, packaged |-> FALSE, content |-> "iso"]},
   phases |->
     [deploy |-> <<MCPlay(<<NameOf(Web)>>, [user |-> Leaf("root")],
                          <<HookTask("backup", "pre", HookOf), HookTask("drain", "pre", "uninstall"),
                            Block("install", <<Plain1("conf", "full"), Ref("jdk", "jdk", "deploy")>>,
                                  <<Plain1("undo", "readonly")>>),
                            Ref("tune", "jdk", "tune"), HookTask("smoke", "post", HookOf)>>,
                          <<Plain1("restart", "none")>>),
                   MCPlay(<<NameOf(Db)>>, <<>>, <<Plain1("schema", "none")>>, <<>>)>>,
      update |-> <<MCPlay(<<NameOf(HostA), NameOf(HostB)>>, <<>>, <<Plain1("conf", "full")>>, <<>>)>>,
      uninstall |-> <<MCPlay(<<NameOf(HostA), NameOf(HostB)>>, [region |-> Leaf("play")],
                             <<HookTask("drain", "pre", "uninstall"), Plain1("rm", "none")>>, <<>>)>>]]

MCCharts == <<Shop(1, "eu", "m1"), Shop(2, "us", "m2")>>

AsIs == [files |-> <<>>, sets |-> <<>>]
Other == [files |-> <<[db |-> Tree([port |-> Leaf("5432")]), global |-> Null]>>,
          sets |-> <<[path |-> <<"db", "pass">>, value |-> Leaf("t")]>>]
Rotated == [files |-> <<>>, sets |-> <<[path |-> <<"db", "pass">>, value |-> Leaf("t")]>>]
Request(phase, over, limit) == [phase |-> phase, over |-> over, limit |-> limit]
MCRequests == {Request("deploy", AsIs, <<>>), Request("deploy", Other, <<NameOf(HostB)>>),
               Request("update", Rotated, <<>>),
               Request("uninstall", AsIs, <<>>), Request("uninstall", AsIs, <<NameOf(HostB)>>)}
==============================================================================
