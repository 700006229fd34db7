--------------------------- MODULE ResumeRun_proofs ---------------------------
(***************************************************************************)
(* What a resumed autonomous run may rely on, for any plans, crashes, torn *)
(* lines and failures: nothing finished is repeated, and a run reported    *)
(* done has applied every task, as long as the numbers of a shard tell its *)
(* items apart ("主机内唯一且稳定", src/internal/plan/compile.go:109).       *)
(***************************************************************************)
EXTENDS ResumeRun, Batches_proofs

(* Where the two promises hold.  A run_once task is the business of one    *)
(* host: among several, a resumed run may choose another one.  What a play *)
(* with auto_rollback undoes keeps its journal lines.                      *)
OnceAlone ==
  \A p \in PlanIds : \A j \in DOMAIN Plans[p] :
    (\E i \in DOMAIN Plans[p][j].tasks : Plans[p][j].tasks[i].once) => Len(Plans[p][j].hosts) = 1

NoUndo == \A p \in PlanIds : \A j \in DOMAIN Plans[p] : ~Plans[p][j].rollback

Item(p, h, j, i) == j \in DOMAIN Plans[p] /\ h \in ToSet(Plans[p][j].hosts) /\ i \in 1 .. Items(Plans[p][j])

KeysApart ==
  \A p \in PlanIds, h \in Hosts, j, l, i, m \in Nat :
    Item(p, h, j, i) /\ Item(p, h, l, m) /\ PlanIdx(p, j, i) = PlanIdx(p, l, m) => j = l /\ i = m

(* The process knows its plan, and the results at hand are those of the    *)
(* item under way.                                                         *)
RunInv ==
  /\ state \in {"idle", "running", "done", "failed"} /\ k \in Nat \ {0} /\ t \in Nat \ {0}
  /\ plan \in PlanIds \cup {None} /\ planId \in PlanIds \cup {None}
  /\ out \in [Hosts -> Results \cup {"", "written"}]
  /\ state # "idle" => plan \in PlanIds /\ planId = plan
  /\ planId = None => journal = {} /\ committed = {}
  /\ \A h \in Hosts : out[h] # "" => Working /\ h \in ToSet(play.hosts)
  /\ InPlay => alive \subseteq ToSet(play.hosts)
  /\ alive \subseteq Hosts

-----------------------------------------------------------------------------
LEMMA Sums == \A a, b \in Nat : a + b \in Nat /\ a <= a + b
OBVIOUS

LEMMA PlayTypes ==
  ASSUME NEW p \in PlanIds, NEW j \in DOMAIN Plans[p]
  PROVE  /\ Len(Plans[p]) \in Nat /\ j \in 1 .. Len(Plans[p])
         /\ Len(Plans[p][j].tasks) \in Nat /\ DOMAIN Plans[p][j].tasks = 1 .. Len(Plans[p][j].tasks)
         /\ Len(Plans[p][j].hosts) \in Nat \ {0} /\ DOMAIN Plans[p][j].hosts = 1 .. Len(Plans[p][j].hosts)
         /\ Items(Plans[p][j]) \in Nat /\ Len(Plans[p][j].tasks) <= Items(Plans[p][j])
         /\ ToSet(Plans[p][j].hosts) \subseteq Hosts /\ ToSet(Plans[p][j].hosts) # {}
<1>1. /\ IsList(Plans[p]) /\ IsList(Plans[p][j].hosts) /\ Len(Plans[p][j].hosts) > 0
      /\ IsList(Plans[p][j].tasks) /\ IsList(Plans[p][j].handlers)
  BY PlansAssumption
<1>2. /\ Len(Plans[p]) \in Nat /\ j \in 1 .. Len(Plans[p])
      /\ Len(Plans[p][j].tasks) \in Nat /\ DOMAIN Plans[p][j].tasks = 1 .. Len(Plans[p][j].tasks)
      /\ Len(Plans[p][j].hosts) \in Nat \ {0} /\ DOMAIN Plans[p][j].hosts = 1 .. Len(Plans[p][j].hosts)
      /\ Len(Plans[p][j].handlers) \in Nat
  BY <1>1 DEF IsList
<1>3. Items(Plans[p][j]) \in Nat /\ Len(Plans[p][j].tasks) <= Items(Plans[p][j])
  BY <1>2, Sums, Zenon DEF Items
<1>4. ToSet(Plans[p][j].hosts) \subseteq Hosts
  BY DEF Hosts
<1>5. Plans[p][j].hosts[1] \in ToSet(Plans[p][j].hosts)
  BY <1>2 DEF ToSet
<1> QED
  BY <1>2, <1>3, <1>4, <1>5

LEMMA Current ==
  ASSUME RunInv, InPlay
  PROVE  /\ plan \in PlanIds /\ k \in DOMAIN Plans[plan] /\ planId = plan /\ play = Plans[plan][k]
         /\ Items(play) \in Nat /\ Len(play.tasks) \in Nat /\ Len(play.tasks) <= Items(play)
         /\ DOMAIN play.tasks = 1 .. Len(play.tasks)
         /\ ToSet(play.hosts) \subseteq Hosts /\ alive \subseteq ToSet(play.hosts)
<1>1. plan \in PlanIds /\ planId = plan /\ k \in Nat \ {0} /\ k <= Len(Plans[plan]) /\ alive \subseteq ToSet(play.hosts)
  BY DEF RunInv, InPlay
<1>2. k \in DOMAIN Plans[plan]
  <2>1. Len(Plans[plan]) \in Nat /\ DOMAIN Plans[plan] = 1 .. Len(Plans[plan])
    BY <1>1, PlansAssumption DEF IsList
  <2> QED
    BY <1>1, <2>1
<1> QED
  BY <1>1, <1>2, PlayTypes DEF play

(* A run_once task has its one runner, and its result no copies.           *)
LEMMA OneRunner ==
  ASSUME RunInv, OnceAlone, Working, Once
  PROVE  \A g, h \in ToSet(play.hosts) : g = h
<1>1. plan \in PlanIds /\ k \in DOMAIN Plans[plan] /\ play = Plans[plan][k] /\ DOMAIN play.tasks = 1 .. Len(play.tasks)
  BY Current DEF Working
<1>2. play.tasks[t].once /\ t \in DOMAIN play.tasks
  <2>1. InTasks /\ play.tasks[t].once
    BY Zenon DEF Once
  <2>2. t \in 1 .. Len(play.tasks)
    <3>1. t \in Nat \ {0} /\ t <= Len(play.tasks) /\ Len(play.tasks) \in Nat
      BY <2>1, Current DEF InTasks, RunInv, Working
    <3> QED
      BY <3>1
  <2> QED
    BY <1>1, <2>1, <2>2, Zenon
<1>3. Len(play.hosts) = 1 /\ DOMAIN play.hosts = 1 .. 1
  BY <1>1, <1>2, PlayTypes DEF OnceAlone
<1> QED
  BY <1>3 DEF ToSet

LEMMA Runs ==
  ASSUME RunInv, OnceAlone, Working, NEW h \in Runners
  PROVE  h \in alive /\ h \in ToSet(play.hosts) /\ For(h) \subseteq {h}
<1>1. h \in alive
  BY DEF Runners, FirstAlive, Targets
<1>2. alive \subseteq ToSet(play.hosts)
  BY Current DEF Working
<1>3. CASE Once
  BY <1>1, <1>2, <1>3, OneRunner DEF For, Targets
<1> QED
  BY <1>1, <1>2, <1>3 DEF For

(* Between two items there is no result at hand.                           *)
LEMMA AtRest ==
  ASSUME out' \in [Hosts -> Results \cup {"", "written"}], \A h \in Hosts : out'[h] = "",
         state' \in {"idle", "running", "done", "failed"}, k' \in Nat \ {0}, t' \in Nat \ {0},
         plan' \in PlanIds \cup {None}, planId' \in PlanIds \cup {None},
         state' # "idle" => plan' \in PlanIds /\ planId' = plan',
         planId' = None => journal' = {} /\ committed' = {},
         InPlay' => alive' \subseteq ToSet(Plans[plan'][k'].hosts), alive' \subseteq Hosts
  PROVE  RunInv'
BY DEF RunInv, play

LEMMA RunInit == Init => RunInv
<1> SUFFICES ASSUME Init PROVE RunInv
  OBVIOUS
<1>1. Nothing \in [Hosts -> Results \cup {"", "written"}] /\ \A h \in Hosts : Nothing[h] = ""
  BY DEF Nothing
<1>2. ~InPlay
  BY DEF Init, InPlay
<1>3. /\ state = "idle" /\ plan = None /\ planId = None /\ k = 1 /\ t = 1 /\ out = Nothing /\ alive = {} /\ journal = {}
      /\ committed = {}
  BY DEF Init
<1>4. k \in Nat \ {0} /\ t \in Nat \ {0}
  BY ONLY <1>3
<1> QED
  BY <1>1, <1>2, <1>3, <1>4 DEF RunInv

LEMMA RunStep == ASSUME RunInv, OnceAlone, [Next]_vars PROVE RunInv'
<1> USE DEF run, cursor, file, bounds, ghosts
<1>n. Nothing \in [Hosts -> Results \cup {"", "written"}] /\ \A h \in Hosts : Nothing[h] = ""
  BY DEF Nothing
<1>1. ASSUME NEW p \in PlanIds, NEW resume \in BOOLEAN, Submit(p, resume) PROVE RunInv'
  <2>1. 1 \in DOMAIN Plans[p]
    <3>1. DOMAIN Plans[p] = 1 .. Len(Plans[p]) /\ Len(Plans[p]) \in Nat /\ Len(Plans[p]) > 0
      BY PlansAssumption DEF IsList
    <3> QED
      BY <3>1
  <2>2. \A h \in Hosts : out[h] = ""
    BY <1>1 DEF Submit, RunInv, Working, InPlay
  <2>3. ToSet(Plans[p][1].hosts) \subseteq Hosts
    BY <2>1, PlayTypes
  <2>4. /\ state = "idle" /\ state' = "running" /\ plan' = p /\ planId' = p /\ k' = 1 /\ t' = 1
        /\ alive' = ToSet(Plans[p][1].hosts) /\ UNCHANGED out
    BY <1>1 DEF Submit
  <2>5. p # None
    BY ResumeAssumption
  <2>6. k' \in Nat \ {0} /\ t' \in Nat \ {0}
    BY <2>4
  <2>7. alive' \subseteq ToSet(Plans[plan'][k'].hosts) /\ alive' \subseteq Hosts
    BY <2>3, <2>4
  <2>8. out' \in [Hosts -> Results \cup {"", "written"}]
    BY <2>4 DEF RunInv
  <2> QED
    BY <2>2, <2>4, <2>5, <2>6, <2>7, <2>8, AtRest
<1>2. ASSUME NEW h \in Hosts, Execute(h) PROVE RunInv'
  <2>1. Working /\ h \in Runners /\ UNCHANGED <<run, k, t, alive, dead, anyFail, file, crashes, committed>>
    BY <1>2 DEF Execute
  <2>2. PICK r \in Results : out' = [g \in Hosts |-> IF g \in For(h) THEN r ELSE out[g]]
    BY <1>2 DEF Execute
  <2>3. h \in ToSet(play.hosts) /\ For(h) \subseteq {h}
    BY <2>1, Runs
  <2>4. Working' /\ play' = play /\ (InPlay' <=> InPlay)
    BY <2>1 DEF Working, InPlay, play
  <2>5. out' \in [Hosts -> Results \cup {"", "written"}]
    BY <2>2 DEF RunInv
  <2>6. \A g \in Hosts : out'[g] # "" => g \in ToSet(play.hosts)
    BY <2>2, <2>3 DEF RunInv
  <2> QED
    BY <2>1, <2>4, <2>5, <2>6 DEF RunInv
<1>3. ASSUME NEW h \in Hosts, WriteLine(h) PROVE RunInv'
  <2>1. Working /\ out[h] \in Results /\ UNCHANGED <<run, k, t, notified, planId, bounds, applied>> /\ alive' \subseteq alive
        /\ out' = [out EXCEPT ![h] = "written"]
    BY <1>3 DEF WriteLine
  <2>2. Working' /\ play' = play /\ (InPlay' <=> InPlay)
    BY <2>1 DEF Working, InPlay, play
  <2>3. planId # None
    BY <2>1, ResumeAssumption DEF RunInv, Working, InPlay
  <2>4. h \in ToSet(play.hosts)
    BY <2>1 DEF RunInv, Results
  <2> QED
    BY <2>1, <2>2, <2>3, <2>4 DEF RunInv
<1>4. CASE NextItem
  <2>1. Working /\ t' = t + 1 /\ out' = Nothing /\ UNCHANGED <<run, k, alive, planId, journal, committed>>
    BY <1>4 DEF NextItem
  <2>2. InPlay' => alive' \subseteq ToSet(Plans[plan'][k'].hosts)
    BY <2>1, Current DEF Working, play
  <2>3. t' \in Nat \ {0}
    <3>1. t \in Nat \ {0} /\ t' = t + 1
      BY <2>1 DEF RunInv
    <3> QED
      BY ONLY <3>1
  <2> QED
    BY <1>n, <2>1, <2>2, <2>3, AtRest DEF RunInv
<1>5. CASE NextPlay
  <2>1. InPlay /\ t > Items(play) /\ k' = k + 1 /\ t' = 1 /\ UNCHANGED <<run, dead, anyFail, out, file, bounds, committed>>
        /\ alive' = IF k = Len(Plans[plan]) THEN {} ELSE ToSet(Plans[plan][k + 1].hosts) \ dead
    BY <1>5 DEF NextPlay
  <2>2. \A h \in Hosts : out[h] = ""
    <3>1. ~(t <= Items(play))
      <4>1. t \in Nat /\ Items(play) \in Nat /\ t > Items(play)
        BY <2>1, Current DEF RunInv
      <4> QED
        BY ONLY <4>1
    <3>2. ~Working
      BY <3>1 DEF Working
    <3> QED
      BY <3>2 DEF RunInv
  <2>3. plan \in PlanIds /\ k \in 1 .. Len(Plans[plan]) /\ Len(Plans[plan]) \in Nat
    BY <2>1, Current, PlayTypes
  <2>4. k # Len(Plans[plan]) => k + 1 \in DOMAIN Plans[plan]
    BY <2>3, PlansAssumption DEF IsList
  <2>5. alive' \subseteq Hosts
    BY <2>1, <2>3, <2>4, PlayTypes
  <2>6. InPlay' => alive' \subseteq ToSet(Plans[plan'][k'].hosts)
    <3>1. plan' = plan
      BY <2>1
    <3>2. k = Len(Plans[plan]) => alive' = {}
      BY <2>1
    <3>3. k # Len(Plans[plan]) => alive' \subseteq ToSet(Plans[plan'][k'].hosts)
      BY <2>1, <3>1
    <3> QED
      BY <3>2, <3>3
  <2>7. k' \in Nat \ {0} /\ t' \in Nat \ {0}
    BY <2>1, <2>3
  <2> QED
    BY <2>1, <2>2, <2>5, <2>6, <2>7, AtRest DEF RunInv
<1>6. CASE Finish
  <2>1. state = "running" /\ ~InPlay /\ UNCHANGED <<plan, resumed, skip, cursor, out, file, bounds, ghosts>>
        /\ state' \in {"done", "failed"}
    BY <1>6 DEF Finish
  <2>2. ~InPlay' /\ \A h \in Hosts : out'[h] = ""
    BY <2>1 DEF InPlay, Working, RunInv
  <2> QED
    BY <2>1, <2>2, AtRest DEF RunInv
<1>7. CASE Crash
  <2>0. k' \in Nat \ {0} /\ t' \in Nat \ {0}
    BY <1>7 DEF Crash
  <2>1. state' = "idle" /\ plan' = None /\ k' = 1 /\ t' = 1 /\ alive' = {} /\ out' = Nothing /\ UNCHANGED <<journal, planId, committed>>
    BY <1>7 DEF Crash
  <2> QED
    BY <1>n, <2>0, <2>1, AtRest DEF RunInv
<1>8. CASE UNCHANGED vars
  <2>1. UNCHANGED <<state, plan, planId, k, t, alive, out, journal, committed>>
    BY <1>8 DEF vars
  <2>2. play' = play /\ (InPlay' <=> InPlay) /\ (Working' <=> Working)
    BY <2>1 DEF play, InPlay, Working
  <2> QED
    BY <2>1, <2>2 DEF RunInv
<1> QED
  BY <1>1, <1>2, <1>3, <1>4, <1>5, <1>6, <1>7, <1>8 DEF Next

-----------------------------------------------------------------------------
(* What is committed has its line, and a resumed run skips it or is past   *)
(* it.                                                                     *)
Past(j, i, h) == j < k \/ (j = k /\ (i < t \/ (i = t /\ out[h] = "written")))
Key(a) == <<a[2], PlanIdx(a[1], a[3], a[4])>>

KeptInv ==
  \A a \in committed :
    /\ a[1] = planId /\ a[2] \in Hosts /\ a[3] \in Nat /\ a[4] \in Nat
    /\ Key(a) \in Completed
    /\ state = "running" /\ resumed => Key(a) \in skip \/ Past(a[3], a[4], a[2])

LEMMA LinesStay == ASSUME journal \subseteq journal' PROVE Completed \subseteq Completed'
BY DEF Completed

LEMMA KeptStep == ASSUME RunInv, OnceAlone, KeptInv, [Next]_vars PROVE KeptInv'
<1> USE DEF run, cursor, file, bounds, ghosts
<1>0. k \in Nat /\ t \in Nat
  BY DEF RunInv
<1>s. ASSUME UNCHANGED <<committed, planId, journal>>,
             state' = "running" /\ resumed' => state = "running" /\ resumed,
             \A a \in committed : Past(a[3], a[4], a[2]) => Past(a[3], a[4], a[2])', skip' = skip
      PROVE  KeptInv'
  BY <1>s DEF KeptInv, Completed, Key
<1>1. ASSUME NEW p \in PlanIds, NEW resume \in BOOLEAN, Submit(p, resume) PROVE KeptInv'
  <2>1. /\ planId \in {None, p} /\ planId' = p /\ resumed' = resume /\ UNCHANGED <<journal, committed>>
        /\ skip' = IF resume /\ planId = p THEN Completed ELSE {}
    BY <1>1 DEF Submit
  <2>2. committed # {} => planId = p
    BY <2>1 DEF RunInv
  <2>3. resumed' /\ planId = p => skip' = Completed
    BY <2>1
  <2> QED
    BY <2>1, <2>2, <2>3 DEF KeptInv, Completed, Key
<1>2. ASSUME NEW h \in Hosts, Execute(h) PROVE KeptInv'
  <2>1. Working /\ h \in Runners /\ out[h] = "" /\ UNCHANGED <<state, resumed, skip, k, t, planId, journal, committed>>
    BY <1>2 DEF Execute
  <2>2. \A g \in Hosts : out[g] # "" => out'[g] = out[g]
    <3>1. PICK r \in Results : out' = [g \in Hosts |-> IF g \in For(h) THEN r ELSE out[g]]
      BY <1>2 DEF Execute
    <3>2. For(h) \subseteq {h}
      BY <2>1, Runs
    <3> QED
      BY <2>1, <3>1, <3>2
  <2>3. \A g \in Hosts : out[g] = "written" => out'[g] = "written"
    BY <2>2
  <2>4. \A a \in committed : Past(a[3], a[4], a[2]) => Past(a[3], a[4], a[2])'
    BY <2>1, <2>3 DEF Past, KeptInv
  <2> QED
    BY <1>s, <2>1, <2>4
<1>3. ASSUME NEW h \in Hosts, WriteLine(h) PROVE KeptInv'
  <2>1. /\ Working /\ out[h] \in Results /\ out' = [out EXCEPT ![h] = "written"]
        /\ UNCHANGED <<run, k, t, planId>> /\ plan = planId
        /\ committed' = IF out[h] \in {"ok", "changed"} /\ ~torn
                        THEN committed \cup {<<plan, h, k, t>>} ELSE committed
        /\ IF torn THEN journal' = journal ELSE journal' = journal \cup {<<h, PlanIdx(plan, k, t), out[h]>>}
    BY <1>3, Current DEF WriteLine, Working
  <2>2. \A a \in committed : Past(a[3], a[4], a[2]) => Past(a[3], a[4], a[2])'
    <3>1. \A g \in Hosts : out[g] = "written" => out'[g] = "written"
      BY <2>1 DEF RunInv
    <3> QED
      BY <2>1, <3>1 DEF Past, KeptInv
  <2>3. Completed \subseteq Completed'
    BY <2>1, LinesStay
  <2>4. \A a \in committed : a[1] = planId' /\ a[2] \in Hosts /\ a[3] \in Nat /\ a[4] \in Nat /\ Key(a) \in Completed'
          /\ (state' = "running" /\ resumed' => Key(a) \in skip' \/ Past(a[3], a[4], a[2])')
    BY <2>1, <2>2, <2>3 DEF KeptInv
  <2>5. ASSUME out[h] \in {"ok", "changed"}, ~torn PROVE <<h, PlanIdx(plan, k, t)>> \in Completed'
    <3>1. <<h, PlanIdx(plan, k, t), out[h]>> \in journal'
      BY <2>1, <2>5
    <3> QED
      BY <2>5, <3>1 DEF Completed
  <2>6. Past(k, t, h)'
    BY <2>1 DEF Past, RunInv
  <2>7. ASSUME NEW a \in committed', a \notin committed
        PROVE  a[1] = planId' /\ a[2] \in Hosts /\ a[3] \in Nat /\ a[4] \in Nat /\ Key(a) \in Completed' /\ Past(a[3], a[4], a[2])'
    <3>1. a = <<plan, h, k, t>> /\ out[h] \in {"ok", "changed"} /\ ~torn
      BY <2>1, <2>7
    <3>2. a[1] = plan /\ a[2] = h /\ a[3] = k /\ a[4] = t
      BY <3>1
    <3>3. Key(a) = <<h, PlanIdx(plan, k, t)>>
      BY <3>2 DEF Key
    <3> QED
      BY <1>0, <2>1, <2>5, <2>6, <3>1, <3>2, <3>3
  <2> QED
    BY <2>4, <2>7 DEF KeptInv, Key
<1>4. CASE NextItem
  <2>1. t' = t + 1 /\ UNCHANGED <<state, resumed, skip, k, planId, journal, committed>>
    BY <1>4 DEF NextItem
  <2>2. ASSUME NEW a \in committed, Past(a[3], a[4], a[2]) PROVE Past(a[3], a[4], a[2])'
    <3>1. a[3] \in Nat /\ a[4] \in Nat
      BY DEF KeptInv
    <3>2. a[3] < k \/ (a[3] = k /\ a[4] < t')
      BY <1>0, <2>1, <2>2, <3>1 DEF Past
    <3> QED
      BY <2>1, <3>2 DEF Past
  <2> QED
    BY <1>s, <2>1, <2>2
<1>5. CASE NextPlay
  <2>1. k' = k + 1 /\ UNCHANGED <<state, resumed, skip, planId, journal, committed>>
    BY <1>5 DEF NextPlay
  <2>2. ASSUME NEW a \in committed, Past(a[3], a[4], a[2]) PROVE Past(a[3], a[4], a[2])'
    <3>1. a[3] \in Nat
      BY DEF KeptInv
    <3>2. a[3] < k'
      BY <1>0, <2>1, <2>2, <3>1 DEF Past
    <3> QED
      BY <3>2 DEF Past
  <2> QED
    BY <1>s, <2>1, <2>2
<1>6. CASE Finish
  BY <1>6 DEF Finish, KeptInv, Completed, Key
<1>7. CASE Crash
  BY <1>7 DEF Crash, KeptInv, Completed, Key
<1>8. CASE UNCHANGED vars
  BY <1>s, <1>8 DEF vars, Past
<1> QED
  BY <1>1, <1>2, <1>3, <1>4, <1>5, <1>6, <1>7, <1>8 DEF Next

(* A resumed submission gives Options.SkipDone the items with a whole ok   *)
(* or changed line (CompletedIdx, apply.go), and runTaskOnHost passes them *)
(* by: no finished item runs again, over any crashes and torn lines.       *)
THEOREM NothingIsRedone == OnceAlone => (Spec => NoRedo)
<1> SUFFICES ASSUME OnceAlone PROVE Spec => NoRedo
  OBVIOUS
<1>1. Init => RunInv /\ KeptInv
  BY RunInit DEF Init, KeptInv
<1>2. RunInv /\ KeptInv /\ [Next]_vars => RunInv' /\ KeptInv'
  BY RunStep, KeptStep
<1>3. ASSUME RunInv, KeptInv, [Next]_vars, NEW h \in Hosts,
             resumed, Working, h \in Runners, out[h] = "", out'[h] \in Results
      PROVE  out'[h] = "skipped" \/ ~Finished(h)
  <2>1. ASSUME NEW g \in Hosts, Execute(g) PROVE out'[h] = "skipped" \/ ~Finished(h)
    <3>1. PICK r \in Results : Possible(g, r) /\ out' = [x \in Hosts |-> IF x \in For(g) THEN r ELSE out[x]]
      BY <2>1 DEF Execute
    <3>2. For(g) \subseteq {g}
      BY <1>3, <2>1, Runs DEF Execute
    <3>3. g = h /\ out'[h] = r
      BY <1>3, <3>1, <3>2 DEF Results
    <3>4. SUFFICES ASSUME Finished(h) PROVE Skips(h)
      BY <3>1, <3>3 DEF Possible
    <3>5. <<plan, h, k, t>> \in committed
      <4>1. h \in ToSet(play.hosts)
        BY <1>3, Runs
      <4> QED
        BY <1>3, <3>4, <4>1, OneRunner DEF Finished
    <3>6. ~Past(k, t, h)
      <4>1. k \in Nat /\ t \in Nat /\ out[h] = ""
        BY <1>3 DEF RunInv
      <4>2. out[h] # "written"
        BY <1>3
      <4>3. \A n \in Nat : ~(n < n)
        OBVIOUS
      <4> QED
        BY <4>1, <4>2, <4>3, Zenon DEF Past
    <3>7. state = "running"
      BY <1>3 DEF Working, InPlay
    <3>8. <<plan, h, k, t>>[1] = plan /\ <<plan, h, k, t>>[2] = h /\ <<plan, h, k, t>>[3] = k /\ <<plan, h, k, t>>[4] = t
      OBVIOUS
    <3>9. Key(<<plan, h, k, t>>) \in skip
      BY <1>3, <3>5, <3>6, <3>7, <3>8 DEF KeptInv
    <3> QED
      BY <3>9 DEF Key, Skips
  <2>2. ASSUME NEW g \in Hosts, WriteLine(g) PROVE FALSE
    BY <1>3, <2>2 DEF WriteLine, Results, RunInv
  <2>3. ASSUME UNCHANGED out PROVE FALSE
    BY <1>3, <2>3 DEF Results
  <2>4. ASSUME out' = Nothing PROVE FALSE
    BY <1>3, <2>4 DEF Results, Nothing
  <2> QED
    BY <1>3, <2>1, <2>2, <2>3, <2>4 DEF Next, Submit, NextItem, NextPlay, Finish, Crash, vars
<1>4. RunInv /\ KeptInv /\ [Next]_vars =>
        [\A h \in Hosts : resumed /\ Working /\ h \in Runners /\ out[h] = "" /\ out'[h] \in Results
           => out'[h] = "skipped" \/ ~Finished(h)]_vars
  BY <1>3
<1> QED
  BY <1>1, <1>2, <1>4, PTL DEF Spec, NoRedo
-----------------------------------------------------------------------------
(* What the journal counts as finished, or a resumed run skips, is in      *)
(* effect: the number of a line leads back to the item it was written for. *)
InEffect(p, h, n) ==
  \E j, i \in Nat : Item(p, h, j, i) /\ n = PlanIdx(p, j, i) /\ <<p, h, j, i>> \in applied

Passed(j, i) == j < k \/ (j = k /\ i < t)

LinesTrue == \A c \in Completed : InEffect(planId, c[1], c[2])

SkipTrue == state = "running" => \A c \in skip : InEffect(plan, c[1], c[2])

ResultsTrue ==
  \A h \in Hosts : out[h] \in {"ok", "changed", "skipped"} \/ (out[h] = "written" /\ ~anyFail)
                     => <<plan, h, k, t>> \in applied

ProgressTrue ==
  state = "running" /\ ~anyFail =>
    /\ dead = {}
    /\ InPlay => alive = ToSet(play.hosts)
    /\ \A j \in DOMAIN Plans[plan] : \A h \in ToSet(Plans[plan][j].hosts) : \A i \in DOMAIN Plans[plan][j].tasks :
         Passed(j, i) => <<plan, h, j, i>> \in applied

EffectInv == LinesTrue /\ SkipTrue /\ ResultsTrue /\ ProgressTrue /\ DoneMeansApplied

LEMMA EffectStays ==
  ASSUME applied \subseteq applied', NEW p, NEW h, NEW n, InEffect(p, h, n)
  PROVE  InEffect(p, h, n)'
BY DEF InEffect, Item

LEMMA LinesKept ==
  ASSUME LinesTrue, applied \subseteq applied', UNCHANGED <<journal, planId>>
  PROVE  LinesTrue'
<1>1. Completed' = Completed
  BY DEF Completed
<1>2. SUFFICES ASSUME NEW c \in Completed PROVE InEffect(planId, c[1], c[2])'
  BY <1>1 DEF LinesTrue
<1>3. \E j, i \in Nat : Item(planId, c[1], j, i) /\ c[2] = PlanIdx(planId, j, i) /\ <<planId, c[1], j, i>> \in applied
  BY DEF LinesTrue, InEffect
<1> QED
  BY <1>3 DEF InEffect

LEMMA SkipKept ==
  ASSUME SkipTrue, applied \subseteq applied', UNCHANGED <<state, plan, skip>>
  PROVE  SkipTrue'
<1>1. SUFFICES ASSUME state = "running", NEW c \in skip PROVE InEffect(plan, c[1], c[2])'
  BY DEF SkipTrue
<1>2. \E j, i \in Nat : Item(plan, c[1], j, i) /\ c[2] = PlanIdx(plan, j, i) /\ <<plan, c[1], j, i>> \in applied
  BY <1>1 DEF SkipTrue, InEffect
<1> QED
  BY <1>2 DEF InEffect

LEMMA AtItem ==
  ASSUME RunInv, Working, NEW h \in ToSet(play.hosts)
  PROVE  Item(plan, h, k, t) /\ k \in Nat /\ t \in Nat /\ h \in Hosts
<1>1. k \in Nat /\ t \in Nat \ {0} /\ t <= Items(play)
  BY DEF RunInv, Working
<1>2. /\ Items(play) \in Nat /\ k \in DOMAIN Plans[plan] /\ play = Plans[plan][k]
      /\ ToSet(play.hosts) \subseteq Hosts
  BY Current DEF Working
<1>3. t \in 1 .. Items(play)
  BY <1>1, <1>2
<1> QED
  BY <1>1, <1>2, <1>3, Zenon DEF Item

LEMMA EffectStep ==
  ASSUME RunInv, OnceAlone, NoUndo, KeysApart, EffectInv, [Next]_vars
  PROVE  EffectInv'
<1> USE DEF run, cursor, file, bounds, ghosts
<1>0. LinesTrue /\ SkipTrue /\ ResultsTrue /\ ProgressTrue /\ DoneMeansApplied
  BY DEF EffectInv
<1>n. \A h \in Hosts : Nothing[h] = ""
  BY DEF Nothing
<1>q. (\A h \in Hosts : out'[h] = "") => ResultsTrue'
  BY DEF ResultsTrue
<1>1. ASSUME NEW p \in PlanIds, NEW resume \in BOOLEAN, Submit(p, resume) PROVE EffectInv'
  <2>1. /\ planId \in {None, p} /\ planId' = p /\ plan' = p /\ state' = "running" /\ k' = 1 /\ t' = 1
        /\ alive' = ToSet(Plans[p][1].hosts) /\ dead' = {} /\ UNCHANGED <<out, journal, applied>>
        /\ state = "idle"
        /\ skip' = IF resume /\ planId = p THEN Completed ELSE {}
    BY <1>1 DEF Submit
  <2>2. Completed' = Completed /\ (Completed # {} => planId = p)
    BY <2>1 DEF Completed, RunInv
  <2>3. \A c \in Completed : InEffect(p, c[1], c[2])'
    <3>1. SUFFICES ASSUME NEW c \in Completed PROVE InEffect(p, c[1], c[2])'
      OBVIOUS
    <3>2. InEffect(p, c[1], c[2])
      BY <1>0, <2>2 DEF LinesTrue
    <3> QED
      BY <2>1, <3>2 DEF InEffect
  <2>4. LinesTrue' /\ SkipTrue'
    BY <2>1, <2>2, <2>3 DEF LinesTrue, SkipTrue
  <2>5. ResultsTrue'
    BY <1>q, <2>1 DEF RunInv, Working, InPlay
  <2>6. ProgressTrue'
    <3>1. \A j \in DOMAIN Plans[p] : \A i \in DOMAIN Plans[p][j].tasks : ~Passed(j, i)'
      <4>1. SUFFICES ASSUME NEW j \in DOMAIN Plans[p], NEW i \in DOMAIN Plans[p][j].tasks PROVE ~(j < 1) /\ ~(i < 1)
        BY <2>1 DEF Passed
      <4>2. j \in 1 .. Len(Plans[p]) /\ i \in 1 .. Len(Plans[p][j].tasks) /\ Len(Plans[p]) \in Nat /\ Len(Plans[p][j].tasks) \in Nat
        BY PlayTypes
      <4> QED
        BY ONLY <4>2
    <3> QED
      BY <2>1, <3>1 DEF ProgressTrue, play
  <2> QED
    BY <2>1, <2>4, <2>5, <2>6 DEF EffectInv, DoneMeansApplied
<1>2. ASSUME NEW h \in Hosts, Execute(h) PROVE EffectInv'
  <2>1. Working /\ h \in Runners /\ out[h] = "" /\ UNCHANGED <<run, k, t, alive, dead, anyFail, file, crashes, committed>>
    BY <1>2 DEF Execute
  <2>2. PICK r \in Results :
          /\ Possible(h, r)
          /\ out' = [g \in Hosts |-> IF g \in For(h) THEN r ELSE out[g]]
          /\ applied' = IF r \in {"ok", "changed"} THEN applied \cup {<<plan, g, k, t>> : g \in For(h)} ELSE applied
    BY <1>2 DEF Execute
  <2>3. applied \subseteq applied'
    BY <2>2
  <2>4. h \in ToSet(play.hosts) /\ For(h) \subseteq {h}
    BY <2>1, Runs
  <2>5. ASSUME r = "skipped" PROVE <<plan, h, k, t>> \in applied
    <3>1. InEffect(plan, h, PlanIdx(plan, k, t))
      <4>1. <<h, PlanIdx(plan, k, t)>> \in skip /\ state = "running"
        BY <2>1, <2>2, <2>5 DEF Possible, Skips, Working, InPlay
      <4>2. \A c \in skip : InEffect(plan, c[1], c[2])
        BY <1>0, <4>1 DEF SkipTrue
      <4>3. <<h, PlanIdx(plan, k, t)>>[1] = h /\ <<h, PlanIdx(plan, k, t)>>[2] = PlanIdx(plan, k, t)
        OBVIOUS
      <4> QED
        BY <4>1, <4>2, <4>3
    <3>2. PICK j, i \in Nat : Item(plan, h, j, i) /\ PlanIdx(plan, k, t) = PlanIdx(plan, j, i) /\ <<plan, h, j, i>> \in applied
      BY <3>1 DEF InEffect
    <3>3. Item(plan, h, k, t) /\ k \in Nat /\ t \in Nat /\ plan \in PlanIds
      BY <2>1, <2>4, AtItem, Current DEF Working
    <3>4. k = j /\ t = i
      BY <3>2, <3>3, Zenon DEF KeysApart
    <3> QED
      BY <3>2, <3>4
  <2>6. ResultsTrue'
    <3>1. SUFFICES ASSUME NEW g \in Hosts, out'[g] \in {"ok", "changed", "skipped"} \/ (out'[g] = "written" /\ ~anyFail)
                   PROVE  <<plan, g, k, t>> \in applied'
      BY <2>1 DEF ResultsTrue
    <3>2. CASE g \in For(h)
      <4>1. g = h /\ out'[g] = r /\ r \in {"ok", "changed", "skipped"}
        BY <2>2, <2>4, <3>1, <3>2 DEF Results
      <4> QED
        BY <2>2, <2>3, <2>5, <3>2, <4>1
    <3>3. CASE g \notin For(h)
      <4>1. out'[g] = out[g]
        BY <2>2, <3>3
      <4> QED
        BY <1>0, <2>3, <3>1, <4>1 DEF ResultsTrue
    <3> QED
      BY <3>2, <3>3
  <2>7. ProgressTrue'
    <3>1. play' = play /\ (InPlay' <=> InPlay)
      BY <2>1 DEF play, InPlay
    <3> QED
      BY <1>0, <2>1, <2>3, <3>1 DEF ProgressTrue, Passed
  <2>8. LinesTrue' /\ SkipTrue'
    BY <1>0, <2>1, <2>3, LinesKept, SkipKept
  <2>9. DoneMeansApplied'
    BY <2>1 DEF DoneMeansApplied, Working, InPlay
  <2> QED
    BY <2>6, <2>7, <2>8, <2>9 DEF EffectInv
<1>3. ASSUME NEW h \in Hosts, WriteLine(h) PROVE EffectInv'
  <2>1. /\ Working /\ out[h] \in Results /\ out' = [out EXCEPT ![h] = "written"]
        /\ UNCHANGED <<run, k, t, planId, applied>> /\ plan = planId
        /\ (IF torn THEN journal' = journal ELSE journal' = journal \cup {<<h, PlanIdx(plan, k, t), out[h]>>})
        /\ alive' = IF out[h] = "failed" THEN alive \ {h} ELSE alive
        /\ dead' = IF out[h] = "failed" THEN dead \cup {h} ELSE dead
        /\ anyFail' = (anyFail \/ out[h] = "failed")
    BY <1>3, Current DEF WriteLine, Working
  <2>2. h \in ToSet(play.hosts)
    BY <2>1 DEF RunInv, Results
  <2>3. LinesTrue'
    <3>1. SUFFICES ASSUME NEW c \in Completed' PROVE InEffect(planId, c[1], c[2])'
      BY DEF LinesTrue
    <3>2. PICK line \in journal' : c = <<line[1], line[2]>> /\ line[3] \in {"ok", "changed"}
      BY DEF Completed
    <3>3. CASE line \in journal
      <4>1. c \in Completed
        BY <3>2, <3>3 DEF Completed
      <4>2. InEffect(planId, c[1], c[2])
        BY <1>0, <4>1 DEF LinesTrue
      <4> QED
        BY <2>1, <4>2 DEF InEffect
    <3>4. CASE line \notin journal
      <4>1. line = <<h, PlanIdx(plan, k, t), out[h]>>
        BY <2>1, <3>4
      <4>2. c[1] = h /\ c[2] = PlanIdx(plan, k, t) /\ out[h] \in {"ok", "changed"}
        BY <3>2, <4>1
      <4>3. <<plan, h, k, t>> \in applied
        BY <1>0, <4>2 DEF ResultsTrue
      <4>4. Item(plan, h, k, t) /\ k \in Nat /\ t \in Nat
        BY <2>1, <2>2, AtItem
      <4> QED
        BY <2>1, <4>2, <4>3, <4>4, Zenon DEF InEffect
    <3> QED
      BY <3>3, <3>4
  <2>4. ResultsTrue'
    <3>1. SUFFICES ASSUME NEW g \in Hosts, out'[g] \in {"ok", "changed", "skipped"} \/ (out'[g] = "written" /\ ~anyFail')
                   PROVE  <<plan, g, k, t>> \in applied
      BY <2>1 DEF ResultsTrue
    <3>2. CASE g = h
      <4>1. out'[h] = "written"
        BY <2>1 DEF RunInv
      <4>2. out[h] \in {"ok", "changed", "skipped"}
        BY <2>1, <3>1, <3>2, <4>1 DEF Results
      <4> QED
        BY <1>0, <3>2, <4>2 DEF ResultsTrue
    <3>3. CASE g # h
      <4>1. out'[g] = out[g]
        BY <2>1, <3>3 DEF RunInv
      <4> QED
        BY <1>0, <2>1, <3>1, <4>1 DEF ResultsTrue
    <3> QED
      BY <3>2, <3>3
  <2>5. ProgressTrue'
    <3>1. play' = play /\ (InPlay' <=> InPlay)
      BY <2>1 DEF play, InPlay
    <3>2. ~anyFail' => ~anyFail /\ out[h] # "failed"
      BY <2>1, Zenon
    <3>3. out[h] # "failed" => alive' = alive /\ dead' = dead
      BY <2>1
    <3>4. SUFFICES ASSUME state = "running", ~anyFail' PROVE ProgressTrue'
      BY <2>1 DEF ProgressTrue
    <3>5. ~anyFail /\ UNCHANGED <<state, plan, k, t, alive, dead, applied>>
      BY <2>1, <3>2, <3>3, <3>4
    <3>6. /\ dead = {} /\ (InPlay => alive = ToSet(play.hosts))
          /\ \A j \in DOMAIN Plans[plan] : \A g \in ToSet(Plans[plan][j].hosts) : \A i \in DOMAIN Plans[plan][j].tasks :
               Passed(j, i) => <<plan, g, j, i>> \in applied
      BY <1>0, <3>4, <3>5 DEF ProgressTrue
    <3> QED
      BY <3>1, <3>5, <3>6 DEF ProgressTrue, Passed
  <2>6. DoneMeansApplied'
    BY <2>1 DEF DoneMeansApplied, Working, InPlay
  <2> QED
    BY <1>0, <2>1, <2>3, <2>4, <2>5, <2>6, SkipKept DEF EffectInv
<1>4. CASE NextItem
  <2>1. /\ Working /\ FanOutOver /\ t' = t + 1 /\ out' = Nothing
        /\ (\A h \in Hosts : out[h] \in {"", "written"})
        /\ UNCHANGED <<run, k, alive, dead, notified, anyFail, file, bounds, ghosts>>
    BY <1>4 DEF NextItem
  <2>2. ProgressTrue'
    <3>1. SUFFICES ASSUME state = "running", ~anyFail PROVE ProgressTrue'
      BY <2>1 DEF ProgressTrue
    <3>2. /\ dead = {} /\ (InPlay => alive = ToSet(play.hosts))
          /\ \A j \in DOMAIN Plans[plan] : \A h \in ToSet(Plans[plan][j].hosts) : \A i \in DOMAIN Plans[plan][j].tasks :
               Passed(j, i) => <<plan, h, j, i>> \in applied
      BY <1>0, <3>1 DEF ProgressTrue
    <3>3. play' = play /\ (InPlay' <=> InPlay) /\ InPlay
      BY <2>1 DEF play, InPlay, Working
    <3>4. play = Plans[plan][k] /\ k \in DOMAIN Plans[plan] /\ plan \in PlanIds
      BY <3>3, Current
    <3>5. ASSUME NEW h \in ToSet(play.hosts), t \in DOMAIN play.tasks PROVE <<plan, h, k, t>> \in applied
      <4>1. h \in Hosts /\ h \in alive
        BY <2>1, <3>2, <3>3, <3>5, AtItem
      <4>2. InTasks
        <5>1. t \in 1 .. Len(play.tasks) /\ Len(play.tasks) \in Nat
          BY <3>3, <3>5, Current
        <5>2. t <= Len(play.tasks)
          BY ONLY <5>1
        <5> QED
          BY <5>2 DEF InTasks
      <4>3. h \in Runners
        <5>1. CASE Once
          <6>1. \A g, f \in ToSet(play.hosts) : g = f
            BY <2>1, <5>1, OneRunner
          <6>2. 1 \in DOMAIN play.hosts
            <7>1. DOMAIN play.hosts = 1 .. Len(play.hosts) /\ Len(play.hosts) \in Nat \ {0}
              BY <3>4, PlayTypes
            <7> QED
              BY ONLY <7>1
          <6>3. play.hosts[1] \in ToSet(play.hosts)
            BY <6>2 DEF ToSet
          <6>4. play.hosts[1] = h
            BY <3>5, <6>1, <6>3
          <6>5. 1 .. (1 - 1) = {}
            OBVIOUS
          <6> QED
            BY <4>1, <5>1, <6>2, <6>4, <6>5 DEF Runners, FirstAlive
        <5>2. CASE ~Once
          BY <4>1, <4>2, <5>2 DEF Runners, Targets
        <5> QED
          BY <5>1, <5>2
      <4>4. out[h] = "written"
        BY <2>1, <4>1, <4>3 DEF FanOutOver
      <4> QED
        BY <1>0, <3>1, <4>1, <4>4 DEF ResultsTrue
    <3>6. ASSUME NEW j \in DOMAIN Plans[plan], NEW i \in DOMAIN Plans[plan][j].tasks, Passed(j, i)'
          PROVE  Passed(j, i) \/ (j = k /\ i = t)
      <4>1. i \in 1 .. Len(Plans[plan][j].tasks) /\ Len(Plans[plan][j].tasks) \in Nat /\ t \in Nat
        BY <3>4, PlayTypes DEF RunInv
      <4>2. i \in Nat
        BY ONLY <4>1
      <4>3. j < k \/ (j = k /\ i < t + 1)
        BY <2>1, <3>6 DEF Passed
      <4>4. i < t + 1 => i < t \/ i = t
        BY ONLY <4>1, <4>2
      <4> QED
        BY <4>3, <4>4 DEF Passed
    <3>7. ASSUME NEW j \in DOMAIN Plans[plan], NEW h \in ToSet(Plans[plan][j].hosts), NEW i \in DOMAIN Plans[plan][j].tasks,
                 Passed(j, i)'
          PROVE  <<plan, h, j, i>> \in applied
      BY <3>2, <3>4, <3>5, <3>6, <3>7
    <3> QED
      BY <2>1, <3>2, <3>3, <3>7 DEF ProgressTrue
  <2>3. DoneMeansApplied'
    BY <2>1 DEF DoneMeansApplied, Working, InPlay
  <2>4. ResultsTrue'
    BY <1>n, <1>q, <2>1
  <2> QED
    BY <1>0, <2>1, <2>2, <2>3, <2>4, LinesKept, SkipKept DEF EffectInv
<1>5. CASE NextPlay
  <2>1. /\ InPlay /\ t > Items(play) /\ k' = k + 1 /\ t' = 1 /\ UNCHANGED <<run, dead, anyFail, out, file, bounds, committed>>
        /\ alive' = IF k = Len(Plans[plan]) THEN {} ELSE ToSet(Plans[plan][k + 1].hosts) \ dead
    BY <1>5 DEF NextPlay
  <2>2. plan \in PlanIds /\ k \in DOMAIN Plans[plan] /\ play = Plans[plan][k]
    BY <2>1, Current
  <2>3. applied' = applied
    <3>1. ~play.rollback
      BY <2>2, Zenon DEF NoUndo
    <3> QED
      BY <1>5, <3>1 DEF NextPlay
  <2>4. \A h \in Hosts : out[h] = ""
    <3>1. t \in Nat /\ Items(play) \in Nat /\ t > Items(play)
      BY <2>1, Current DEF RunInv
    <3>2. ~(t <= Items(play))
      BY ONLY <3>1
    <3> QED
      BY <3>2 DEF RunInv, Working
  <2>5. k \in 1 .. Len(Plans[plan]) /\ Len(Plans[plan]) \in Nat
    BY <2>2, PlayTypes
  <2>6. ASSUME state = "running", ~anyFail, NEW j \in DOMAIN Plans[plan], NEW h \in ToSet(Plans[plan][j].hosts),
               NEW i \in DOMAIN Plans[plan][j].tasks, Passed(j, i)'
        PROVE  <<plan, h, j, i>> \in applied
    <3>1. /\ j \in 1 .. Len(Plans[plan]) /\ i \in 1 .. Len(Plans[plan][j].tasks) /\ Len(Plans[plan][j].tasks) \in Nat
          /\ Len(Plans[plan][j].tasks) <= Items(Plans[plan][j]) /\ Items(Plans[plan][j]) \in Nat /\ t \in Nat
      BY <2>2, PlayTypes DEF RunInv
    <3>2. j < k' \/ (j = k' /\ i < t')
      BY <2>6 DEF Passed
    <3>3. ~(i < t')
      BY <2>1, <3>1
    <3>4. j < k \/ j = k
      BY <2>1, <2>5, <3>1, <3>2, <3>3
    <3>5. ASSUME j = k PROVE i < t
      <4>1. t > Items(Plans[plan][j])
        BY <2>1, <2>2, <3>5
      <4> QED
        BY ONLY <3>1, <4>1
    <3>6. Passed(j, i)
      BY <3>4, <3>5 DEF Passed
    <3> QED
      BY <1>0, <2>6, <3>6 DEF ProgressTrue
  <2>7. ProgressTrue'
    <3>1. SUFFICES ASSUME state = "running", ~anyFail PROVE ProgressTrue'
      BY <2>1 DEF ProgressTrue
    <3>2. dead = {}
      BY <1>0, <3>1 DEF ProgressTrue
    <3>3. InPlay' => k # Len(Plans[plan])
      <4>1. ASSUME k' <= Len(Plans[plan]) PROVE k # Len(Plans[plan])
        BY <2>1, <2>5, <4>1
      <4> QED
        BY <2>1, <4>1 DEF InPlay
    <3>4. InPlay' => alive' = ToSet(play.hosts)'
      BY <2>1, <3>2, <3>3 DEF play
    <3> QED
      BY <2>1, <2>3, <2>6, <3>1, <3>2, <3>4 DEF ProgressTrue
  <2>8. DoneMeansApplied'
    BY <2>1 DEF DoneMeansApplied, InPlay
  <2>9. ResultsTrue'
    BY <1>q, <2>1, <2>4
  <2> QED
    BY <1>0, <2>1, <2>3, <2>7, <2>8, <2>9, LinesKept, SkipKept DEF EffectInv
<1>6. CASE Finish
  <2>1. /\ state = "running" /\ ~InPlay /\ UNCHANGED <<plan, resumed, skip, cursor, out, file, bounds, ghosts>>
        /\ state' = IF anyFail THEN "failed" ELSE "done"
    BY <1>6 DEF Finish
  <2>2. ResultsTrue'
    BY <1>q, <2>1 DEF RunInv, Working
  <2>3. DoneMeansApplied'
    <3>1. SUFFICES ASSUME ~anyFail, NEW j \in DOMAIN Plans[plan], NEW h \in ToSet(Plans[plan][j].hosts),
                          NEW i \in DOMAIN Plans[plan][j].tasks
                   PROVE  <<plan, h, j, i>> \in applied
      BY <2>1 DEF DoneMeansApplied
    <3>2. plan \in PlanIds /\ k \in Nat
      BY <2>1 DEF RunInv
    <3>3. j \in 1 .. Len(Plans[plan]) /\ Len(Plans[plan]) \in Nat
      BY <3>2, PlayTypes
    <3>4. ~(k <= Len(Plans[plan]))
      BY <2>1 DEF InPlay
    <3>5. j < k
      BY ONLY <3>2, <3>3, <3>4
    <3> QED
      BY <1>0, <2>1, <3>1, <3>5 DEF ProgressTrue, Passed
  <2>4. SkipTrue' /\ ProgressTrue'
    BY <2>1 DEF SkipTrue, ProgressTrue
  <2> QED
    BY <1>0, <2>1, <2>2, <2>3, <2>4, LinesKept DEF EffectInv
<1>7. CASE Crash
  <2>1. state' = "idle" /\ out' = Nothing /\ UNCHANGED <<journal, planId, applied>>
    BY <1>7 DEF Crash
  <2>2. SkipTrue' /\ ProgressTrue' /\ DoneMeansApplied'
    BY <2>1 DEF SkipTrue, ProgressTrue, DoneMeansApplied
  <2>3. LinesTrue'
    BY <1>0, <2>1, LinesKept
  <2> QED
    BY <1>n, <1>q, <2>1, <2>2, <2>3 DEF EffectInv
<1>8. CASE UNCHANGED vars
  <2>1. UNCHANGED <<state, plan, skip, k, t, alive, dead, anyFail, out, journal, planId, applied>>
    BY <1>8 DEF vars
  <2>2. play' = play /\ (InPlay' <=> InPlay)
    BY <2>1 DEF play, InPlay
  <2>3. ResultsTrue' /\ ProgressTrue' /\ DoneMeansApplied'
    BY <1>0, <2>1, <2>2 DEF ResultsTrue, ProgressTrue, DoneMeansApplied, Passed
  <2> QED
    BY <1>0, <2>1, <2>3, LinesKept, SkipKept DEF EffectInv
<1> QED
  BY <1>1, <1>2, <1>3, <1>4, <1>5, <1>6, <1>7, <1>8 DEF Next

(* A run that ends as done (Finish: finishRun without a failure) has every *)
(* task of its plan in effect on every host of the task's play, whatever   *)
(* it skipped on the word of the journal (CompletedIdx), where the numbers *)
(* of a shard tell its items apart; the run ResumeRun_late shows a plan    *)
(* whose numbers do not.                                                   *)
THEOREM DoneIsApplied == OnceAlone /\ NoUndo /\ KeysApart => (Spec => []DoneMeansApplied)
<1> SUFFICES ASSUME OnceAlone, NoUndo, KeysApart PROVE Spec => []DoneMeansApplied
  OBVIOUS
<1>1. Init => RunInv /\ EffectInv
  <2>1. ASSUME Init PROVE Completed = {} /\ state = "idle" /\ out = Nothing
    BY <2>1 DEF Init, Completed
  <2>2. \A h \in Hosts : Nothing[h] = ""
    BY DEF Nothing
  <2> QED
    BY <2>1, <2>2, RunInit DEF EffectInv, LinesTrue, SkipTrue, ResultsTrue, ProgressTrue, DoneMeansApplied
<1>2. RunInv /\ EffectInv /\ [Next]_vars => RunInv' /\ EffectInv'
  BY RunStep, EffectStep
<1>3. EffectInv => DoneMeansApplied
  BY DEF EffectInv
<1> QED
  BY <1>1, <1>2, <1>3, PTL DEF Spec
-----------------------------------------------------------------------------
(* The numbers of a host along the plays of a plan: from 1, and as many    *)
(* further as each play has items for it.                                  *)
LEMMA CounterIs ==
  ASSUME NEW p \in PlanIds, NEW h
  PROVE  /\ Counter(p, h) \in [0 .. Len(Plans[p]) -> Nat]
         /\ \A j \in 1 .. Len(Plans[p]) :
              Counter(p, h)[j] = Counter(p, h)[j - 1] + IF h \in ToSet(Plans[p][j].hosts) THEN Items(Plans[p][j]) ELSE 0
<1> DEFINE n == Len(Plans[p])
           step(j) == IF h \in ToSet(Plans[p][j].hosts) THEN Items(Plans[p][j]) ELSE 0
           size == [j \in 1 .. n |-> step(j)]
           g == [j \in Nat |-> [x \in Nat |-> IF j \in 1 .. n THEN x + size[j] ELSE x]]
           next == Counter(p, h)
<1>1. n \in Nat /\ DOMAIN Plans[p] = 1 .. n
  BY PlansAssumption DEF IsList
<1>2. \A j \in 1 .. n : step(j) \in Nat
  BY <1>1, PlayTypes
<1>3. size \in [1 .. n -> Nat]
  <2> HIDE DEF step
  <2> QED
    BY <1>2
<1>4. g \in [Nat -> [Nat -> Nat]]
  <2>1. \A j \in 1 .. n : size[j] \in Nat
    BY <1>3
  <2> HIDE DEF size, n
  <2> QED
    BY <2>1
<1> DEFINE eq(f) == f = [j \in 0 .. n |-> IF j = 0 THEN 1 ELSE f[j - 1] + step(j)]
<1>5. \E f \in [0 .. n -> Nat] : eq(f)
  <2>1. PICK f : Iterates(f, n, Nat, 1, g)
    <3> HIDE DEF g, n
    <3> QED
      BY <1>1, <1>4, RecursiveFunction
  <2>2. f \in [0 .. n -> Nat] /\ f[0] = 1 /\ \A j \in 1 .. n : f[j] = g[j][f[j - 1]]
    <3> HIDE DEF g, n
    <3> QED
      BY <2>1 DEF Iterates
  <2>3. ASSUME NEW j \in 0 .. n, j # 0 PROVE f[j] = f[j - 1] + step(j)
    <3>1. j - 1 \in 0 .. n /\ j \in Nat /\ j \in 1 .. n
      <4> HIDE DEF n
      <4> QED
        BY <1>1, <2>3
    <3>2. f[j - 1] \in Nat
      <4> HIDE DEF n
      <4> QED
        BY <2>2, <3>1
    <3>3. size[j] = step(j)
      <4> HIDE DEF n, step
      <4> QED
        BY <3>1
    <3>4. g[j][f[j - 1]] = f[j - 1] + size[j]
      <4> HIDE DEF n, size
      <4> QED
        BY <3>1, <3>2
    <3> HIDE DEF n, g, step, size
    <3> QED
      BY <2>2, <3>1, <3>3, <3>4
  <2>4. eq(f)
    <3> HIDE DEF n, g, step
    <3> QED
      BY <2>2, <2>3
  <2> HIDE DEF eq, g, step, n
  <2> QED
    BY <2>2, <2>4
<1>6. next = CHOOSE f : eq(f)
  BY DEF Counter
<1>7. eq(next)
  <2> HIDE DEF eq, next
  <2> QED
    BY <1>5, <1>6
<1>8. next[0] = 1 /\ \A j \in 1 .. n : next[j] = next[j - 1] + step(j)
  <2> HIDE DEF step, next, n
  <2> QED
    BY <1>1, <1>7
<1> DEFINE S == {j \in 0 .. n : next[j] \in Nat}
<1>9. 0 .. n \subseteq S
  <2>1. 0 \in S
    <3> HIDE DEF next, n
    <3> QED
      BY <1>1, <1>8
  <2>2. ASSUME NEW j \in 1 .. n, j - 1 \in S PROVE j \in S
    <3>1. next[j] = next[j - 1] + step(j) /\ step(j) \in Nat
      BY <1>2, <1>8
    <3> HIDE DEF next, step, n
    <3> QED
      BY <2>2, <3>1
  <2> HIDE DEF S, n
  <2> QED
    BY <1>1, <2>1, <2>2, BoundedInduction
<1>10. next \in [0 .. n -> Nat]
  <2>1. DOMAIN next = 0 .. n /\ next = [j \in 0 .. n |-> next[j]]
    <3> HIDE DEF next, step, n
    <3> QED
      BY <1>7
  <2> HIDE DEF next, n
  <2> QED
    BY <1>9, <2>1
<1> QED
  BY <1>8, <1>10

(* Where every play of a plan ends with the same host, that host's numbers *)
(* are those of all items, and no two items share one.                     *)
EndTogether ==
  \A p \in PlanIds : \A j, l \in DOMAIN Plans[p] : Last(Plans[p][j].hosts) = Last(Plans[p][l].hosts)

LEMMA NumbersApart == EndTogether => KeysApart
<1> SUFFICES ASSUME EndTogether,
                    NEW p \in PlanIds, NEW h \in Hosts, NEW j \in Nat, NEW l \in Nat, NEW i \in Nat, NEW m \in Nat,
                    Item(p, h, j, i), Item(p, h, l, m), PlanIdx(p, j, i) = PlanIdx(p, l, m)
             PROVE  j = l /\ i = m
  BY DEF KeysApart
<1> DEFINE n == Len(Plans[p])
           last == Last(Plans[p][j].hosts)
           next == Counter(p, last)
           size == [x \in 1 .. n |-> Items(Plans[p][x])]
<1>1. n \in Nat /\ DOMAIN Plans[p] = 1 .. n
  BY PlansAssumption DEF IsList
<1>2. j \in 1 .. n /\ l \in 1 .. n
  BY <1>1 DEF Item
<1>3. \A x \in 1 .. n : size[x] \in Nat /\ size[x] = Items(Plans[p][x])
  BY <1>1, PlayTypes
<1>4. ASSUME NEW x \in 1 .. n PROVE last \in ToSet(Plans[p][x].hosts)
  <2>1. last = Last(Plans[p][x].hosts)
    BY <1>1, <1>2 DEF EndTogether
  <2>2. Len(Plans[p][x].hosts) \in Nat \ {0} /\ DOMAIN Plans[p][x].hosts = 1 .. Len(Plans[p][x].hosts)
    BY <1>1, PlayTypes
  <2>3. Len(Plans[p][x].hosts) \in DOMAIN Plans[p][x].hosts
    BY ONLY <2>2
  <2> QED
    BY <2>1, <2>3 DEF Last, ToSet
<1>5. next \in [0 .. n -> Nat] /\ \A x \in 1 .. n : next[x] = next[x - 1] + size[x]
  <2>1. /\ next \in [0 .. n -> Nat]
        /\ \A x \in 1 .. n : next[x] = next[x - 1] + IF last \in ToSet(Plans[p][x].hosts) THEN Items(Plans[p][x]) ELSE 0
    BY CounterIs
  <2> HIDE DEF next, n, last, size
  <2> QED
    BY <1>3, <1>4, <2>1
<1>6. i \in 1 .. size[j] /\ m \in 1 .. size[l]
  BY <1>2, <1>3 DEF Item
<1>7. next[j - 1] + i - 1 = next[l - 1] + m - 1
  <2>1. Last(Plans[p][l].hosts) = last
    BY <1>1, <1>2 DEF EndTogether
  <2>2. PlanIdx(p, j, i) = next[j - 1] + i - 1
    BY DEF PlanIdx, Number
  <2>3. PlanIdx(p, l, m) = next[l - 1] + m - 1
    BY <2>1 DEF PlanIdx, Number
  <2> QED
    BY <2>2, <2>3
<1>8. ASSUME NEW x \in 1 .. n, NEW y \in 1 .. n, x < y PROVE next[x] <= next[y - 1]
  <2> HIDE DEF n, next, size
  <2> DEFINE S == {z \in 0 .. n : z >= x => next[x] <= next[z]}
  <2>1. 0 \in S
    BY <1>1
  <2>2. ASSUME NEW z \in 1 .. n, z - 1 \in S PROVE z \in S
    <3>1. next[z] = next[z - 1] + size[z] /\ size[z] \in Nat /\ next[z] \in Nat /\ next[z - 1] \in Nat
      BY <1>1, <1>3, <1>5
    <3>2. next[x] \in Nat /\ z \in 0 .. n
      BY <1>1, <1>5
    <3>3. CASE z = x
      BY <3>2, <3>3
    <3>4. CASE z > x
      BY <2>2, <3>1, <3>2, <3>4
    <3> QED
      BY <3>2, <3>3, <3>4
  <2>3. 0 .. n \subseteq S
    <3> HIDE DEF S
    <3> QED
      BY <1>1, <2>1, <2>2, BoundedInduction
  <2>4. y - 1 \in 0 .. n /\ y - 1 >= x
    BY <1>1, <1>8
  <2> QED
    BY <2>3, <2>4
<1>9. /\ next[j - 1] \in Nat /\ next[l - 1] \in Nat /\ next[j] = next[j - 1] + size[j] /\ next[l] = next[l - 1] + size[l]
      /\ size[j] \in Nat /\ size[l] \in Nat
  <2>1. j - 1 \in 0 .. n /\ l - 1 \in 0 .. n
    BY <1>1, <1>2
  <2> HIDE DEF n, next, size
  <2> QED
    BY <1>2, <1>3, <1>5, <2>1
<1>10. ~(j < l)
  <2>1. ASSUME j < l PROVE next[j] <= next[l - 1]
    BY <1>2, <1>8, <2>1
  <2> HIDE DEF n, next, size
  <2> QED
    BY <1>6, <1>7, <1>9, <2>1
<1>11. ~(l < j)
  <2>1. ASSUME l < j PROVE next[l] <= next[j - 1]
    BY <1>2, <1>8, <2>1
  <2> HIDE DEF n, next, size
  <2> QED
    BY <1>6, <1>7, <1>9, <2>1
<1>12. j = l
  BY <1>10, <1>11
<1> HIDE DEF n, next, size
<1> QED
  BY <1>6, <1>7, <1>9, <1>12

(* The ordinary submission: a host that is reached without a relay is a    *)
(* group of its own (groupByRoot, applyauto.go), and every play of its     *)
(* shard has that one host.                                                *)
OwnPlans ==
  \A p \in PlanIds : \E h \in Hosts : \A j \in DOMAIN Plans[p] : Plans[p][j].hosts = <<h>>

(* Then a resumed run repeats nothing it has finished (runTaskOnHost with  *)
(* SkipDone), and a run that ends as done has applied every task, unless a *)
(* play undoes its changes: the numbers of Compile tell the items apart.   *)
THEOREM OwnPlanIsSafe ==
  OwnPlans => /\ Spec => NoRedo
              /\ NoUndo => (Spec => []DoneMeansApplied)
<1> SUFFICES ASSUME OwnPlans PROVE OnceAlone /\ EndTogether
  BY NothingIsRedone, DoneIsApplied, NumbersApart
<1>1. \A h : Len(<<h>>) = 1 /\ Last(<<h>>) = h
  BY DEF Last
<1> QED
  BY <1>1, Zenon DEF OwnPlans, OnceAlone, EndTogether
=============================================================================
