------------------------------ MODULE ChartLife ------------------------------
(***************************************************************************)
(* The life of a chart on a fleet: it is run and compiled and applied phase *)
(* by phase, by hosts that fail and hosts whose marker cannot be written,   *)
(* while the inventory and the chart change in between.  The hosts keep the *)
(* release markers, the control side the last plan.                         *)
(***************************************************************************)
EXTENDS PlanFile

CONSTANTS FirstSite, LaterSites,  \* the inventory, and what it may be edited to
          Charts,               \* the sequence of the versions of the chart
          Requests,             \* the phases, values and limits asked for
          Chartless,            \* hosts whose marker an older wdp wrote
          Fleet

VARIABLES site, chart, marker, plan,
          used,   \* history: what the run that wrote the marker of a host used there
          made    \* history: the run the plan was compiled instead of
lifeVars == <<site, chart, marker, plan, used, made>>

NoMarker == [found |-> "missing", marker |-> <<>>]
OldMarker(ch) == [found |-> "marker", marker |-> [MarkerContent(ch, ch.values) EXCEPT !.values = <<>>, !.schema = 1]]
NoPlan == [ok |-> FALSE]

NotUsed == [scope |-> <<>>, values |-> <<>>]
Now == Charts[chart]

Init ==
  /\ site = FirstSite /\ chart = 1 /\ plan = NoPlan /\ made = NoPlan
  /\ marker = [h \in Fleet |-> IF h \in Chartless THEN OldMarker(Charts[1]) ELSE NoMarker]
  /\ used = [h \in Fleet |-> IF h \in Chartless THEN [scope |-> Charts[1].values, values |-> Charts[1].values]
                             ELSE NotUsed]

-----------------------------------------------------------------------------
(* Who takes part in a play: not who failed in an earlier one.  bad is the  *)
(* play and the host that fails in it; bad[1] = 0 says that nobody does.    *)
Taking(trace, i, bad) == trace[i].hosts \ IF bad[1] \in 1 .. i - 1 THEN {bad[2]} ELSE {}

(* finishPlay: the hosts of the plays that did not fail.                    *)
Marked(trace, bad) == UNION {Taking(trace, i, bad) : i \in DOMAIN trace \ {bad[1]}}

(* The hosts whose marker a run writes: a host fails in one of its plays,   *)
(* or the marker of one cannot be reached.                                 *)
Outcomes(trace) ==
  LET all == Marked(trace, <<0, NoHost>>)
  IN {all} \cup {all \ {h} : h \in all}
       \cup UNION {{Marked(trace, <<i, h>>) : h \in trace[i].hosts} : i \in DOMAIN trace}

Finish(ch, spec, trace, values, marked) ==
  LET done == IF ch.noMarker THEN {} ELSE marked
      scope(h) == trace[CHOOSE i \in DOMAIN trace : h \in trace[i].hosts].scope[h]
  IN IF spec.clears
     THEN /\ marker' = [h \in Fleet |-> IF h \in done THEN NoMarker ELSE marker[h]]
          /\ used' = [h \in Fleet |-> IF h \in done THEN NotUsed ELSE used[h]]
     ELSE /\ spec.release
          /\ marker' = [h \in Fleet |-> IF h \in done THEN [found |-> "marker", marker |-> MarkerContent(ch, values)]
                                        ELSE marker[h]]
          /\ used' = [h \in Fleet |-> IF h \in done THEN [scope |-> Without(scope(h), ch.override), values |-> values] ELSE used[h]]

(* A run of a phase that leaves the markers alone changes nothing here, and *)
(* neither does one that is refused or not agreed to.                      *)
Runs(loaded) ==
  {[plays |-> loaded.plays, spec |-> loaded.spec, hosts |-> loaded.hosts, hostValues |-> loaded.hostValues, values |-> v] :
     v \in IF loaded.ok THEN loaded.shown ELSE {}}

RunPhase(req) ==
  /\ \E run \in Runs(LoadRun(site, Now, marker, req)) :
       \E trace \in {RunTarget(site, Now, run, req)} :
         \E marked \in Outcomes(trace) : Finish(Now, run.spec, trace, run.values, marked)
  /\ UNCHANGED <<site, chart, plan, made>>

PlanCompile(req) ==
  /\ \E run \in Runs(LoadValues(site, Now, marker, req)) :
       /\ plan' = Compile(site, Now, run, req)
       /\ plan'.ok
       /\ made' = [read |-> run.hostValues # <<>>, meant |-> RunTarget(site, Now, run, req)]
  /\ UNCHANGED <<site, chart, marker, used>>

(* Applying from this host or through agents: the shards do the same there. *)
Apply ==
  /\ plan.ok
  /\ \E trace \in {RunPlan(plan, <<>>)} :
       \E marked \in Outcomes(trace) : Finish(plan.chart, PlanPhaseSpec(plan), trace, plan.values, marked)
  /\ UNCHANGED <<site, chart, plan, made>>

EditSite == site' \in LaterSites \ {site} /\ UNCHANGED <<chart, marker, plan, used, made>>
Upgrade == chart < Len(Charts) /\ chart' = chart + 1 /\ UNCHANGED <<site, marker, plan, used, made>>

Next == (\E req \in Requests : RunPhase(req) \/ PlanCompile(req)) \/ Apply \/ EditSite \/ Upgrade

Spec == Init /\ [][Next]_lifeVars

-----------------------------------------------------------------------------
(* The values without secrets and without what hosts may override.         *)
Public(ch, values) == Without(StripSensitive(ch, values), ch.override)

(* What an uninstall deletes with is what was deployed: on every host the   *)
(* values are those of the run that wrote its marker, whatever the chart    *)
(* and the inventory say by now (lifecycle.go:18, markervalues.go:26).      *)
UninstallMatches ==
  \A req \in {x \in Requests : x.phase = "uninstall"} :
    \A run \in Runs(LoadRun(site, Now, marker, req)) :
      \A h \in run.hosts : Public(Now, HostValuesFor(run, h)) = Public(Now, used[h].scope)

(* What drift says of a host is so: the values asked for are those the run  *)
(* used that wrote its marker, secrets aside (drift.go:90, marker.go:79).   *)
DriftIsTrue ==
  \A h \in Fleet, over \in {x.over : x \in Requests} :
    LET want == BuildValues(Now, over).values
        says == RunDrift(Now, marker[h], over)
        same == StripSensitive(Now, want) = StripSensitive(Now, used[h].values)
    IN (says = "DRIFTED" => ~same) /\ (says \in {"OK", "OUTDATED"} => same)

(* A plan means the run it was compiled instead of: the same plays on the   *)
(* same hosts with the same hooks, tasks, handlers, variables and built-in  *)
(* variables, and no file but those the chart had then, whatever its        *)
(* directory holds by now.  Left out are the keys an inventory may override where the    *)
(* two differ: in the scope of sub charts, and where markers give the       *)
(* values (compile.go:109, 218, 233, planrun.go:133).                       *)
Agree(ch, a, b) == Without(a, ch.override) = Without(b, ch.override)
MeansRun(p, instead) ==
  LET does == RunPlan(p, <<>>)
      meant == instead.meant
      Same(x, y) == /\ x.hosts = y.hosts /\ x.tasks = y.tasks /\ x.handlers = y.handlers
                    /\ x.builtins = y.builtins
                    /\ \A h \in x.hosts : /\ Agree(p.chart, x.scope[h], y.scope[h])
                                          /\ IF instead.read THEN Agree(p.chart, x.vars[h], y.vars[h])
                                             ELSE x.vars[h] = y.vars[h]
  IN Len(does) = Len(meant) /\ \A i \in DOMAIN meant : Same(does[i], meant[i])
PlanMeansRun ==
  plan.ok => MeansRun(plan, made) /\ SupplyPayloads(plan, Now.files) \subseteq plan.chart.files

(* Submitting loses nobody: every host of a plan is in one group, whose     *)
(* agent is reached as the inventory said, the shards together hold the     *)
(* plan, and a limit leaves exactly the hosts it names (applyauto.go:46).   *)
Covered(p, conn) ==
  LET by == GroupByRoot(p)
      Kept(allowed) == FilterGroups(by.groups, allowed)
  IN /\ by.ok
     /\ \A h \in ToSet(PlanHosts(p)) : Cardinality({r \in DOMAIN by.groups : h \in by.groups[r].targets}) = 1
     /\ \A r \in DOMAIN by.groups : by.groups[r].conn = HostConnOf(conn[r])
     /\ \A s \in ToSet(p.hosts) : \E r \in DOMAIN by.groups : s \in ToSet(Shard(p, by.groups[r].targets).hosts)
     /\ \A allowed \in SUBSET ToSet(PlanHosts(p)) :
          UNION {Kept(allowed)[r].targets : r \in DOMAIN Kept(allowed)} = allowed
ShardsCover == [][plan' # plan => Covered(plan', site'.inv.conn)]_lifeVars

(* What the user is told before a run is so.  The tasks that cannot be      *)
(* undone are all those the run comes to, through blocks, sub charts and    *)
(* their entries (reversibility.go:22, confirm.go:14); of a variable that   *)
(* both a host and the values define, the one that is said to win is what   *)
(* the tasks see, facts and the play's own variables aside (collide.go:10). *)
RECURSIVE Reached(_, _)
Reached(ch, tasks) ==
  LET leaves == Leaves(tasks)
      entered == {t \in leaves : t.kind = "chart" /\ ResolveSub(ch, t.ref).ok}
      Sub(t) == ResolveSub(ch, t.ref).sub
  IN {[chart |-> ch.name, task |-> t.name, cap |-> t.cap] : t \in {x \in leaves : x.kind = "task"}}
       \cup UNION {IF EntryPlay(Sub(t), t.entry).ok THEN Reached(Sub(t), EntryPlay(Sub(t), t.entry).play.tasks) ELSE {}
                     : t \in entered}
AsksAbout(ch, phase) ==
  \A play \in ToSet(PhasePlays(ch, phase).plays) :
    LET cut == SplitHookTasks(play.tasks, phase)
    IN {t \in Reached(ch, cut.pre \o cut.main \o cut.post \o play.handlers) : t.cap = "none"}
         \subseteq Irreversible(ch, phase)
WarnsOf(req) ==
  \A run \in {x \in Runs(LoadRun(site, Now, marker, req)) : x.hostValues = <<>>} :
    \A said \in {ValueCollisions(Now, run.values, [h \in run.hosts |-> site.inv.vars[h]])},
       i \in DOMAIN run.plays, h \in run.hosts :
      LET seen == PrepareBatchRuns(site, Now, run, run.plays[i], h)
          other == DOMAIN run.plays[i].vars \cup DOMAIN FactsOf(site.facts, h)
      IN /\ \A k \in said.shadowed[h] \ other : seen[k] = run.values[k]
         /\ \A k \in said.overridden[h] \ other : seen[k] = site.inv.vars[h][k]
UserIsTold == \A req \in Requests : AsksAbout(Now, req.phase) /\ WarnsOf(req)
=============================================================================
