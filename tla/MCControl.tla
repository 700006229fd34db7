------------------------------ MODULE MCControl ------------------------------
(* What the control side keeps to itself, each part a scene of its own: the  *)
(* session CA and the deployment records that several wdp processes share,  *)
(* the inventory of a run, and the batches of a play.  A behaviour is about *)
(* one of them, the variables of the others stay as they are.               *)
EXTENDS MCFleet, SessionCA, ReleaseStore

CONSTANTS MaxChanges, Sources, Additions, Groupings, MaxHosts,
          FirstSite, LaterSites, Charts, Requests, Chartless, Fleet,
          Scenes   \* the scenes to play

VARIABLES source, inv, joined, updated, changes,
          input,
          site, chart, marker, plan, used, made,
          scene

-----------------------------------------------------------------------------
MCJobs ==
  LET rec(of, time) == [chart |-> of, time |-> time]
      arg(id, hits) == [id |-> id, hits |-> hits]
      shop == {rec("shop", t) : t \in 1 .. MaxTime}
      shopdb == {rec("shopdb", t) : t \in 1 .. MaxTime}
      none == rec("", 0)
      del(bulk, yes, args) == [kind |-> "del", chart |-> "", bulk |-> bulk, yes |-> yes, args |-> args]
      save(of) == [kind |-> "save", chart |-> of, bulk |-> FALSE, yes |-> FALSE, args |-> <<>>]
  IN {save("shop"), save("shopdb"),
      del(FALSE, FALSE, <<arg(rec("shop", 1), {rec("shop", 1)})>>),
      del(FALSE, FALSE, <<arg(none, shop)>>),
      del(FALSE, FALSE, <<arg(none, shop), arg(none, shopdb)>>),
      del(TRUE, TRUE, <<arg(none, shop \cup shopdb)>>),
      del(TRUE, FALSE, <<arg(none, shop)>>)}

MCStored == {[chart |-> "shop", time |-> 1, try |-> 0], [chart |-> "shopdb", time |-> 1, try |-> 0]}

-----------------------------------------------------------------------------
(* Hosts 5 and 6 and the groups 1, 2, 3, one under the other in every way    *)
(* without a cycle; host 7 and group 4 come later.  The variables k, m and  *)
(* o, a map, say where they are defined.                                    *)
Edges == {<<1, 2>>, <<2, 1>>, <<1, 3>>, <<3, 1>>, <<2, 3>>, <<3, 2>>}
Acyclic(e) == ~\E x, y, z \in 1 .. 3 : <<x, y>> \in e /\ (<<y, x>> \in e \/ (<<y, z>> \in e /\ <<z, x>> \in e))
Under(g, e) == SelectSeq(<<1, 2, 3>>, LAMBDA c : <<g, c>> \in e)
RawFiles(e, in, defined, entry) ==
  (0 :> [hosts |-> <<>>, vars |-> [k |-> "all", m |-> "all", o |-> [x |-> "all", y |-> "all"]],
         children |-> <<>>])
    @@ [g \in 1 .. 3 |->
          [hosts |-> [h \in (IF g \in in THEN {5} ELSE {}) |-> IF g = entry THEN [k |-> "entry", o |-> [x |-> "entry"]] ELSE <<>>]
                       @@ [h \in (IF g = 2 THEN {6} ELSE {}) |-> <<>>],
           vars |-> IF g \in defined THEN LET n == <<"one", "two", "three">>[g] IN [k |-> n, o |-> [x |-> n]]
                    ELSE <<>>,
           children |-> Under(g, e)]]
HostFiles == {[group |-> <<>>, host |-> <<>>],
              [group |-> (2 :> [k |-> "2.yaml", o |-> [y |-> "2.yaml"]]),
               host |-> (5 :> [o |-> [y |-> "5.yaml"]]) @@ (6 :> [m |-> "6.yaml"])]}
MCSources ==
  {[raw |-> RawFiles(e, in, defined, entry), files |-> files] :
     e \in {x \in SUBSET Edges : Acyclic(x)}, in \in {{1}, {1, 3}}, defined \in SUBSET (1 .. 3) \ {{}}, files \in HostFiles,
     entry \in {0, 3}}
MCAdditions ==
  {[host |-> 7, conn |-> [address |-> "x"], vars |-> <<>>, groups |-> g] : g \in {<<>>, <<4>>, <<3, 4>>}}
    \cup {[host |-> 5, conn |-> [address |-> "y"], vars |-> [k |-> "task"], groups |-> g] : g \in {<<>>, <<2>>}}
MCGroupings == {[group |-> 4, host |-> 5], [group |-> 1, host |-> 6], [group |-> 4, host |-> 7]}

Inv == INSTANCE InventoryRun

-----------------------------------------------------------------------------
Bat == INSTANCE Batches

Sizes == {[kind |-> "count", n |-> n] : n \in {0, 1, 2, 5}}
           \cup {[kind |-> "percent", n |-> n] : n \in {0, 1, 10, 25, 34, 50, 100, 150}}
           \cup {[kind |-> "other", n |-> 0]}
Serials == {<<>>} \cup {<<a>> : a \in Sizes} \cup {<<a, b>> : a \in Sizes, b \in Sizes}
Inputs ==
  LET hosts == {[i \in 1 .. n |-> i] : n \in 0 .. MaxHosts}
  IN [hosts : hosts, strategy : {"none"}, batch : {[kind |-> "other", n |-> 0]}, serial : Serials]
       \cup [hosts : hosts, strategy : {"linear", "rolling", "canary"}, batch : Sizes, serial : {<<>>}]

-----------------------------------------------------------------------------
Life == INSTANCE ChartLife

-----------------------------------------------------------------------------
invVars == <<source, inv, joined, updated, changes>>
lifeVars == <<site, chart, marker, plan, used, made>>

Init ==
  /\ scene \in Scenes
  /\ IF scene = "ca" THEN CAInit ELSE CAInit /\ ca.crt = 0
  /\ IF scene = "records" THEN RecordInit ELSE RecordInit /\ job = [p \in Recorders |-> CHOOSE j \in Jobs : j.kind = "save"]
  /\ IF scene = "inventory" THEN Inv!Init
     ELSE source = <<>> /\ inv = <<>> /\ joined = {} /\ updated = {} /\ changes = 0
  /\ input \in IF scene = "batches" THEN Inputs ELSE {<<>>}
  /\ IF scene = "fleet" THEN Life!Init
     ELSE site = <<>> /\ chart = 1 /\ marker = <<>> /\ plan = <<>> /\ used = <<>> /\ made = <<>>

Next ==
  \/ scene = "ca" /\ CANext /\ UNCHANGED <<relVars, invVars, input, lifeVars, scene>>
  \/ scene = "records" /\ RecordNext /\ UNCHANGED <<caVars, invVars, input, lifeVars, scene>>
  \/ scene = "inventory" /\ Inv!Next /\ UNCHANGED <<caVars, relVars, input, lifeVars, scene>>
  \/ scene = "fleet" /\ Life!Next /\ UNCHANGED <<caVars, relVars, invVars, input, scene>>

Spec == Init /\ [][Next]_<<caVars, relVars, invVars, input, lifeVars, scene>> /\ (scene = "ca" => CAFair)

LoadersEnd == scene = "ca" => LoadEnds
NearestWins == scene = "inventory" => Inv!NearestWins
SelectionIsCurrent == scene = "inventory" => Inv!SelectionIsCurrent

(* Whatever the strategy and the serial list, a play is cut into the batches *)
(* asked for (strategy.go:16-90, play.go:92-145).                           *)
BatchesAsAsked ==
  scene = "batches" => Bat!AsAsked(input.hosts, input.strategy, input.batch, input.serial)

UninstallMatches == scene = "fleet" => Life!UninstallMatches
DriftIsTrue == scene = "fleet" => Life!DriftIsTrue
UserIsTold == scene = "fleet" => Life!UserIsTold
PlanMeansRun == scene = "fleet" => Life!PlanMeansRun
ShardsCover == [][plan' # plan => Life!Covered(plan', site'.inv.conn)]_lifeVars
=============================================================================
