------------------------------ MODULE PlanFile ------------------------------
(***************************************************************************)
(* What `wdp run` does with a chart, and the same as a plan: compiled from  *)
(* the chart and the inventory, carried about as a file, cut into the       *)
(* shards of the agents and run from what it holds (src/internal/plan,      *)
(* executor/planrun.go, batch.go, cli/run.go, plan.go, apply.go).           *)
(*                                                                         *)
(* A site is [inv, facts]: the inventory built from its files and the fact  *)
(* cache, a function from some hosts to variable maps.  A request is        *)
(* [phase, over, limit]: over holds the values files and --set pairs.  A    *)
(* trace is the sequence of plays that have hosts: who runs which tasks     *)
(* with which variables.                                                   *)
(***************************************************************************)
EXTENDS Inventory, ChartValues

CONSTANTS Carried,    \* the connection settings a plan holds
          Secrets,    \* those of them held only as a reference to the environment
          MaxFile, MaxTotal

FactsOf(facts, h) == IF h \in DOMAIN facts THEN facts[h] ELSE <<>>
Overriding(ch, vars) == [k \in DOMAIN vars \cap ch.override |-> vars[k]]
Hostvars(inv, facts) == [h \in ToSet(inv.hosts) |-> Over(FactsOf(facts, h), inv.vars[h])]

-----------------------------------------------------------------------------
(* The markers of the hosts asked for: all there, of this version of the    *)
(* format and readable, or the command ends.                               *)
ReadHostMarkers(markers, hosts) ==
  \A h \in hosts : markers[h].found = "marker" /\ markers[h].marker.schema = 2

(* Mutant of ResolveMarkerValues: what a marker lacks comes from the chart. *)
ResolveOrDefault(ch, markers, hosts, over, validate) ==
  IF ReadHostMarkers(markers, hosts)
  THEN [ok |-> TRUE, values |-> [h \in hosts |-> Merge(BuildValues(ch, over).values, markers[h].marker.values)]]
  ELSE Rejected

Resolved(ch, of, validate) ==
  IF \A h \in DOMAIN of : of[h].ok /\ (validate => ValidatePhaseValues(ch, of[h].values))
  THEN [ok |-> TRUE, values |-> [h \in DOMAIN of |-> of[h].values]]
  ELSE Rejected
ResolveMarkerValues(ch, markers, hosts, over, validate) ==
  IF ReadHostMarkers(markers, hosts)
  THEN Resolved(ch, [h \in hosts |-> ApplyOverrides(markers[h].marker.values, over)], validate)
  ELSE Rejected

(* The values of a request.  shown is what may be taken for the values of   *)
(* all hosts: of a phase that reads markers, any host's.                    *)
FromChart(ch, run, built) ==
  IF built.ok /\ (run.spec.release => ValidatePhaseValues(ch, built.values))
  THEN run @@ [shown |-> {built.values}, hostValues |-> <<>>] ELSE Rejected
FromMarkers(run, read) ==
  IF run.hosts # {} /\ read.ok
  THEN run @@ [shown |-> {read.values[h] : h \in run.hosts}, hostValues |-> read.values] ELSE Rejected

ValuesOf(ch, markers, req, run) ==
  IF EffectiveValuesFrom(run.spec) = "chart" THEN FromChart(ch, run, BuildValues(ch, req.over))
  ELSE FromMarkers(run, ResolveMarkerValues(ch, markers, run.hosts, req.over, Destructive(run.spec)))

PlaysFor(site, ch, req, phase) ==
  [ok |-> TRUE, plays |-> phase.plays, spec |-> PhaseSpecFor(ch, req.phase),
   hosts |-> ToSet(SelectPlays(site.inv, {p.pattern : p \in ToSet(phase.plays)}, req.limit))]
LoadValues(site, ch, markers, req) ==
  IF PhasePlays(ch, req.phase).ok
  THEN ValuesOf(ch, markers, req, PlaysFor(site, ch, req, PhasePlays(ch, req.phase))) ELSE Rejected

(* A run needs a host, a plan whose values are those of the chart does not. *)
NeedsHost(run) == IF run.ok /\ run.hosts # {} THEN run ELSE Rejected
LoadRun(site, ch, markers, req) == NeedsHost(LoadValues(site, ch, markers, req))

-----------------------------------------------------------------------------
(* The tasks of a play for a phase: its hooks, the tasks without a hook;    *)
(* the hooks of other phases are left out.                                 *)
Hooked(tasks, at, phase, Name(_)) ==
  SelectSeq(tasks, LAMBDA t : IF at = "" THEN t.hook.at = ""
                              ELSE Name(t.hook) = [at |-> at, of |-> HookNameFor(phase)])

SplitHookTasks(tasks, phase) ==
  [pre |-> Hooked(tasks, "pre", phase, NormalizeHook),
   main |-> Hooked(tasks, "", phase, NormalizeHook),
   post |-> Hooked(tasks, "post", phase, NormalizeHook)]

(* In a plan the names are compared as they are written.                   *)
AsWritten(hook) == hook
SplitHooks(tasks, phase) ==
  [pre |-> Hooked(tasks, "pre", phase, AsWritten),
   main |-> Hooked(tasks, "", phase, AsWritten),
   post |-> Hooked(tasks, "post", phase, AsWritten)]

HostValuesFor(run, h) == IF h \in DOMAIN run.hostValues THEN run.hostValues[h] ELSE run.values

(* The variables a host starts with: facts over play vars over what the     *)
(* chart lets the inventory override over values over the inventory.       *)
PrepareBatchRuns(site, ch, run, play, h) ==
  Over(FactsOf(site.facts, h),
       Over(play.vars, Over(Overriding(ch, site.inv.vars[h]), Over(HostValuesFor(run, h), site.inv.vars[h]))))

InjectBuiltins(site, hosts, h) ==
  [group_names |-> site.inv.groupNames[h], play_hosts |-> hosts, groups |-> site.inv.groupMap,
   hosts |-> site.inv.hostsMeta, hostvars |-> Hostvars(site.inv, site.facts)]

(* A run of the loaded request; run.values is the one of shown it takes.    *)
(* A play whose pattern or limit does not resolve fails without a host.    *)
RunTarget(site, ch, run, req) ==
  LET picked(p) == SelectLimited(site.inv, p.pattern, req.limit)
      PlayOn(p, hosts) == [hosts |-> hosts, tasks |-> SplitHookTasks(p.tasks, req.phase),
                           handlers |-> MergeSubHandlers(ch, p.handlers),
                           vars |-> [h \in hosts |-> PrepareBatchRuns(site, ch, run, p, h)],
                           scope |-> [h \in hosts |-> HostValuesFor(run, h)],
                           builtins |-> [h \in hosts |-> InjectBuiltins(site, hosts, h)]]
      held == SelectSeq([i \in DOMAIN run.plays |-> [play |-> run.plays[i], on |-> picked(run.plays[i])]],
                        LAMBDA x : x.on.ok /\ x.on.hosts # <<>>)
  IN FoldLeft(LAMBDA trace, x : Append(trace, PlayOn(x.play, ToSet(x.on.hosts))), <<>>, held)

(* `wdp drift` of a host that is reached, with the values asked for.        *)
RunDrift(ch, found, over) ==
  Classify(found.found, found.marker, ch.version, ValuesDigestOf(ch, BuildValues(ch, over).values))

-----------------------------------------------------------------------------
(* Compiling.                                                              *)
HostConnOf(conn) == [k \in {x \in DOMAIN conn \cap Carried : x \in Secrets => conn[x] = "env"} |-> conn[k]]

(* Mutant of HostValues: the values of the chart for everybody.            *)
GlobalValues(ch, values, vars, read, h) == Over(Overriding(ch, vars), values)

HostValues(ch, values, vars, read, h) ==
  IF h \in DOMAIN read THEN read[h] ELSE Over(Overriding(ch, vars), values)

CompileVars(site, hostVals, play, h) ==
  Over(FactsOf(site.facts, h), Over(play.vars, Over(hostVals, site.inv.vars[h])))

(* The tasks of a tree have consecutive numbers, a task before its blocks. *)
RECURSIVE CountResolved(_)
CountResolved(tasks) ==
  FoldLeft(LAMBDA n, t : n + 1 + CountResolved(t.block \o t.rescue \o t.always), 0, tasks)
ResolveTasks(tasks, start) ==
  [i \in DOMAIN tasks |-> [idx |-> start + CountResolved(SubSeq(tasks, 1, i - 1)), task |-> tasks[i]]]

(* A file is [path, size, packaged, content]; what is large or packaged     *)
(* stays outside and is known by its digest.                               *)
SnapshotFiles(files) ==
  LET outside == {f \in files : f.size > MaxFile \/ f.packaged}
  IN [ok |-> MapThenSumSet(LAMBDA f : f.size, files \ outside) <= MaxTotal,
      files |-> files \ outside, payloads |-> SetToSeq(outside)]

(* Mutant of RelaysOf: a relay outside --limit is taken for a target.      *)
RelaysOutside(inv, targets) ==
  LET roots == {ViaRoot(inv, h) : h \in {x \in ToSet(inv.hosts) : ViaChain(inv, x) # <<>>}}
  IN [r \in roots \ ToSet(inv.hosts) |-> HostConnOf(inv.conn[r])]

(* The last relays of all hosts of the inventory that have one, unless they *)
(* are hosts of the plan.                                                  *)
RelaysOf(inv, targets) ==
  LET roots == {ViaRoot(inv, h) : h \in {x \in ToSet(inv.hosts) : ViaChain(inv, x) # <<>>}}
  IN [r \in roots \ targets |-> HostConnOf(inv.conn[r])]

Compile(site, ch, run, req) ==
  LET Cut(play) == SplitHooks(play.tasks, req.phase)
      Nodes(play) == CountResolved(Cut(play).pre \o Cut(play).main \o Cut(play).post \o play.handlers)
      shard(i, h, hosts, first) ==
        LET play == run.plays[i]
            cut == Cut(play)
            vars == site.inv.vars[h]
            vals == HostValues(ch, run.values, vars, run.hostValues, h)
        IN [play |-> i, host |-> h, conn |-> HostConnOf(site.inv.conn[h]), via |-> ViaChain(site.inv, h),
            values |-> vals, vars |-> CompileVars(site, vals, play, h),
            builtins |-> InjectBuiltins(site, ToSet(hosts), h),
            pre |-> ResolveTasks(cut.pre, first),
            tasks |-> ResolveTasks(cut.main, first + CountResolved(cut.pre)),
            post |-> ResolveTasks(cut.post, first + CountResolved(cut.pre \o cut.main)),
            handlers |-> ResolveTasks(play.handlers, first + CountResolved(cut.pre \o cut.main \o cut.post))]
      (* next is the number a host has come to.                            *)
      more(so, i) ==
        LET hosts == SelectPlays(site.inv, {run.plays[i].pattern}, req.limit)
        IN [shards |-> FoldLeft(LAMBDA s, h : Append(s, shard(i, h, hosts, so.next[h])), so.shards, hosts),
            next |-> [h \in DOMAIN so.next |-> so.next[h] + IF h \in ToSet(hosts) THEN Nodes(run.plays[i]) ELSE 0]]
      hosts == FoldLeft(more, [shards |-> <<>>, next |-> [h \in ToSet(site.inv.hosts) |-> 1]],
                        [i \in DOMAIN run.plays |-> i]).shards
      snapshot == SnapshotFiles(ch.files)
  IN IF ~snapshot.ok THEN Rejected
     ELSE [ok |-> TRUE, phase |-> req.phase, values |-> run.values, chart |-> ch,
           files |-> snapshot.files, payloads |-> snapshot.payloads, hosts |-> hosts,
           relays |-> RelaysOf(site.inv, {hosts[i].host : i \in DOMAIN hosts})]

-----------------------------------------------------------------------------
(* Applying.                                                               *)
Distinct(s) == FoldLeft(LAMBDA seen, x : IF x \in ToSet(seen) THEN seen ELSE Append(seen, x), <<>>, s)

PlanHosts(p) == Distinct([i \in DOMAIN p.hosts |-> p.hosts[i].host])
HostPlansOf(p, h) == SelectSeq(p.hosts, LAMBDA s : s.host = h)
Shard(p, hosts) == [p EXCEPT !.hosts = SelectSeq(@, LAMBDA s : s.host \in hosts), !.relays = <<>>]

PlanPhaseSpec(p) == PhaseSpecFor(p.chart, p.phase)

(* The files next to the tasks when the plan runs: those it holds, and of   *)
(* the others those that dir has, up to the first that is not the same.    *)
SupplyPayloads(p, dir) ==
  LET same(f) == f \in dir
      absent(f) == \A d \in dir : d.path # f.path
      until == {i \in DOMAIN p.payloads : ~same(p.payloads[i]) /\ ~absent(p.payloads[i])}
      good == {i \in DOMAIN p.payloads : same(p.payloads[i]) /\ \A j \in until : i < j}
  IN p.files \cup {p.payloads[i] : i \in good}

(* The group of a play, a name above those of inventories.                 *)
PlanPlayGroupName(i) == 100 + i
PlanPlayGroups(p) ==
  LET of(i) == SelectSeq(p.hosts, LAMBDA s : s.play = i)
  IN [g \in {PlanPlayGroupName(s.play) : s \in ToSet(p.hosts)} |->
        [hosts |-> Distinct([j \in DOMAIN of(g - 100) |-> of(g - 100)[j].host]), vars |-> <<>>, children |-> <<>>]]

PlanInventory(p) ==
  [FromHosts(PlanHosts(p), [h \in ToSet(PlanHosts(p)) |-> HostPlansOf(p, h)[1].conn])
     EXCEPT !.groups = PlanPlayGroups(p)]

(* The plays again: the tasks of each are those of its last shard.         *)
PlaysOf(p) ==
  LET idxs == Distinct([i \in DOMAIN p.hosts |-> p.hosts[i].play])
      last(i) == p.hosts[Max({j \in DOMAIN p.hosts : p.hosts[j].play = i})]
      bare(s) == [j \in DOMAIN s |-> s[j].task]
  IN [j \in DOMAIN idxs |->
        LET s == last(idxs[j])
        IN [idx |-> idxs[j], tasks |-> bare(s.pre) \o bare(s.tasks) \o bare(s.post), handlers |-> bare(s.handlers)]]

(* The scopes of a shard are looked up by play and host.                   *)
ShardOf(p, i, h) == CHOOSE s \in ToSet(p.hosts) : s.play = i /\ s.host = h

RunPlan(p, limit) ==
  LET inv == PlanInventory(p)
      segment(i) == [kind |-> "name", name |-> PlanPlayGroupName(i), names |-> {}]
      picked(y) == SelectLimited(inv, <<[neg |-> FALSE, segs |-> <<segment(y.idx)>>]>>, limit)
      PlayOn(y, hosts) ==
        [hosts |-> hosts, tasks |-> SplitHookTasks(y.tasks, p.phase),
         handlers |-> MergeSubHandlers(p.chart, y.handlers),
         vars |-> [h \in hosts |-> ShardOf(p, y.idx, h).vars],
         scope |-> [h \in hosts |-> ShardOf(p, y.idx, h).values],
         builtins |-> [h \in hosts |-> [ShardOf(p, y.idx, h).builtins EXCEPT !.play_hosts = hosts]]]
      plays == PlaysOf(p)
      held == SelectSeq([j \in DOMAIN plays |-> [play |-> plays[j], on |-> picked(plays[j])]],
                        LAMBDA x : x.on.ok /\ x.on.hosts # <<>>)
  IN FoldLeft(LAMBDA trace, x : Append(trace, PlayOn(x.play, ToSet(x.on.hosts))), <<>>, held)

-----------------------------------------------------------------------------
(* Submitting: the hosts by the last of their relays, whose agent does it.  *)
GroupByRoot(p) ==
  LET root(h) == LET via == HostPlansOf(p, h)[1].via IN Last(<<h>> \o via)
      roots == {root(h) : h \in ToSet(PlanHosts(p))}
      planned == ToSet(PlanHosts(p))
      conn(r) == IF (r \in planned /\ root(r) = r) \/ r \notin DOMAIN p.relays
                 THEN HostPlansOf(p, r)[1].conn ELSE p.relays[r]
  IN IF \E r \in roots : r \notin planned \cup DOMAIN p.relays THEN Rejected
     ELSE [ok |-> TRUE, groups |-> [r \in roots |->
             [conn |-> conn(r), targets |-> {h \in planned : root(h) = r}]]]

FilterGroups(groups, allowed) ==
  [r \in {x \in DOMAIN groups : groups[x].targets \cap allowed # {}} |->
     [groups[r] EXCEPT !.targets = @ \cap allowed]]
=============================================================================
