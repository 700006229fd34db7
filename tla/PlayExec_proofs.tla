---------------------------- MODULE PlayExec_proofs ----------------------------
(***************************************************************************)
(* The safety properties of the plays of a run, for every list of plays,    *)
(* every number of hosts and every limit of workers: an inductive          *)
(* invariant, and what follows from it.                                    *)
(***************************************************************************)
EXTENDS PlayExec, Batches_proofs

(* filterDead keeps hosts of the list that are not dead, and lists nobody  *)
(* twice who was not.                                                      *)
Filters(f, s, gone) ==
  f = [i \in 0 .. Len(s) |-> IF i = 0 THEN <<>>
                             ELSE IF s[i] \in gone THEN f[i - 1] ELSE Append(f[i - 1], s[i])]

Kept(w, i, s, gone) ==
  /\ \A x \in ToSet(w) : x \notin gone /\ \E j \in 1 .. i : x = s[j]
  /\ IsInjective(s) => IsInjective(w)

LEMMA AppendToSet ==
  ASSUME NEW X, NEW w \in Seq(X), NEW x \in X
  PROVE  /\ Append(w, x) \in Seq(X)
         /\ \A v : v \in ToSet(Append(w, x)) <=> v \in ToSet(w) \/ v = x
         /\ IsInjective(w) /\ x \notin ToSet(w) => IsInjective(Append(w, x))
<1> DEFINE a == Append(w, x)
<1>1. /\ a \in Seq(X) /\ Len(w) \in Nat /\ Len(a) = Len(w) + 1
      /\ \A i \in 1 .. Len(w) : a[i] = w[i]
      /\ a[Len(w) + 1] = x
  OBVIOUS
<1> HIDE DEF a
<1>2. \A v : v \in ToSet(a) <=> \E l \in 1 .. Len(w) + 1 : v = a[l]
  BY <1>1, MemberOfSeq
<1>3. \A v : v \in ToSet(w) <=> \E l \in 1 .. Len(w) : v = w[l]
  BY MemberOfSeq
<1>4. \A l \in 1 .. Len(w) + 1 : l = Len(w) + 1 \/ l \in 1 .. Len(w)
  BY <1>1
<1>5. ASSUME NEW v PROVE v \in ToSet(a) <=> v \in ToSet(w) \/ v = x
  <2>1. ASSUME v \in ToSet(a) PROVE v \in ToSet(w) \/ v = x
    BY <2>1, <1>1, <1>2, <1>3, <1>4
  <2>2. ASSUME v \in ToSet(w) PROVE v \in ToSet(a)
    <3>1. PICK l \in 1 .. Len(w) : v = w[l]
      BY <2>2, <1>3
    <3>2. l \in 1 .. Len(w) + 1 /\ v = a[l]
      BY <3>1, <1>1
    <3> QED
      BY <3>2, <1>2
  <2>3. x \in ToSet(a)
    <3>1. Len(w) + 1 \in 1 .. Len(w) + 1
      BY <1>1
    <3> QED
      BY <3>1, <1>1, <1>2
  <2> QED
    BY <2>1, <2>2, <2>3
<1>6. ASSUME IsInjective(w), x \notin ToSet(w) PROVE IsInjective(a)
  <2>1. DOMAIN a = 1 .. Len(w) + 1 /\ DOMAIN w = 1 .. Len(w)
    BY <1>1
  <2> SUFFICES ASSUME NEW i \in 1 .. Len(w) + 1, NEW j \in 1 .. Len(w) + 1, a[i] = a[j]
               PROVE  i = j
    BY <2>1 DEF IsInjective
  <2>2. CASE i \in 1 .. Len(w) /\ j \in 1 .. Len(w)
    BY <2>1, <2>2, <1>1, <1>6 DEF IsInjective
  <2>3. CASE i = Len(w) + 1 \/ j = Len(w) + 1
    <3>1. \A l \in 1 .. Len(w) : a[l] # x
      BY <1>1, <1>3, <1>6
    <3> QED
      BY <2>3, <3>1, <1>1, <1>4
  <2> QED
    BY <2>2, <2>3, <1>4
<1> QED
  BY <1>1, <1>5, <1>6 DEF a

LEMMA Filtered ==
  ASSUME NEW X, NEW s \in Seq(X), NEW gone
  PROVE  /\ FilterDead(s, gone) \in Seq(X)
         /\ ToSet(FilterDead(s, gone)) \cap gone = {}
         /\ ToSet(FilterDead(s, gone)) \subseteq ToSet(s)
         /\ IsInjective(s) => IsInjective(FilterDead(s, gone))
<1> DEFINE n == Len(s)
           g == [i \in Nat |-> [w \in Seq(X) |->
                  IF i \notin 1 .. n \/ s[i] \in gone THEN w ELSE Append(w, s[i])]]
<1>0. n \in Nat /\ <<>> \in Seq(X)
  OBVIOUS
<1>1. g \in [Nat -> [Seq(X) -> Seq(X)]]
  <2>1. ASSUME NEW i \in Nat, NEW w \in Seq(X)
        PROVE  (IF i \notin 1 .. n \/ s[i] \in gone THEN w ELSE Append(w, s[i])) \in Seq(X)
    OBVIOUS
  <2> QED
    BY <2>1
<1>2. PICK f : Iterates(f, n, Seq(X), <<>>, g)
  <2> HIDE DEF g, n
  <2> QED
    BY <1>0, <1>1, RecursiveFunction
<1>3. Filters(f, s, gone)
  <2>1. f \in [0 .. n -> Seq(X)] /\ f[0] = <<>>
    BY <1>2 DEF Iterates
  <2>2. ASSUME NEW i \in 0 .. n, i # 0
        PROVE  f[i] = IF s[i] \in gone THEN f[i - 1] ELSE Append(f[i - 1], s[i])
    <3>1. i \in 1 .. n /\ i \in Nat /\ i - 1 \in 0 .. n
      BY <2>2
    <3>2. f[i] = g[i][f[i - 1]]
      BY <1>2, <3>1 DEF Iterates
    <3>3. f[i - 1] \in Seq(X)
      BY <2>1, <3>1
    <3> DEFINE w == f[i - 1]
    <3> HIDE DEF w
    <3>4. g[i][w] = IF i \notin 1 .. n \/ s[i] \in gone THEN w ELSE Append(w, s[i])
      BY <3>1, <3>3 DEF w
    <3> HIDE DEF g, n
    <3> QED
      BY <3>1, <3>2, <3>4 DEF w
  <2> HIDE DEF g
  <2> QED
    BY <2>1, <2>2 DEF Filters
<1>4. PICK h : Filters(h, s, gone) /\ FilterDead(s, gone) = h[n]
  <2>1. FilterDead(s, gone) = (CHOOSE h : Filters(h, s, gone))[n]
    BY DEF FilterDead, Filters
  <2> QED
    BY <1>3, <2>1
<1>5. h[0] = <<>>
  BY <1>0, <1>4 DEF Filters
<1>6. ASSUME NEW i \in 1 .. n
      PROVE  h[i] = IF s[i] \in gone THEN h[i - 1] ELSE Append(h[i - 1], s[i])
  <2>1. i \in 0 .. n /\ i # 0
    OBVIOUS
  <2> QED
    BY <2>1, <1>4 DEF Filters
<1> HIDE DEF g
<1> DEFINE T == {i \in 0 .. n : h[i] \in Seq(X) /\ Kept(h[i], i, s, gone)}
<1>7. 0 \in T
  <2>1. ToSet(<<>>) = {} /\ IsInjective(<<>>)
    BY DEF ToSet, IsInjective
  <2>2. Kept(<<>>, 0, s, gone)
    BY <2>1 DEF Kept
  <2>3. Kept(h[0], 0, s, gone) /\ h[0] \in Seq(X) /\ 0 \in 0 .. n
    BY <2>2, <1>0, <1>5
  <2> QED
    BY <2>3
<1>8. ASSUME NEW i \in 1 .. n, i - 1 \in T PROVE i \in T
  <2>0. i \in 0 .. n /\ s[i] \in X /\ h[i - 1] \in Seq(X)
    BY <1>8
  <2>k. /\ \A x \in ToSet(h[i - 1]) : x \notin gone /\ \E j \in 1 .. i - 1 : x = s[j]
        /\ IsInjective(s) => IsInjective(h[i - 1])
    BY <1>8 DEF Kept
  <2>i. \A j \in 1 .. i - 1 : j \in 1 .. i
    OBVIOUS
  <2>1. CASE s[i] \in gone
    <3>1. h[i] = h[i - 1]
      BY <2>1, <1>6
    <3> QED
      BY <3>1, <2>0, <2>k, <2>i DEF Kept
  <2>2. CASE s[i] \notin gone
    <3>1. h[i] = Append(h[i - 1], s[i])
      BY <2>2, <1>6
    <3>2. /\ h[i] \in Seq(X)
          /\ \A v : v \in ToSet(h[i]) <=> v \in ToSet(h[i - 1]) \/ v = s[i]
          /\ IsInjective(h[i - 1]) /\ s[i] \notin ToSet(h[i - 1]) => IsInjective(h[i])
      BY <3>1, <2>0, AppendToSet
    <3>3. IsInjective(s) => s[i] \notin ToSet(h[i - 1])
      <4>1. \A j \in 1 .. i - 1 : j \in DOMAIN s /\ i \in DOMAIN s /\ j # i
        OBVIOUS
      <4> QED
        BY <4>1, <2>k DEF IsInjective
    <3>4. ASSUME NEW x \in ToSet(h[i]) PROVE x \notin gone /\ \E j \in 1 .. i : x = s[j]
      BY <3>2, <2>k, <2>2, <2>i
    <3>5. IsInjective(s) => IsInjective(h[i])
      BY <3>2, <3>3, <2>k
    <3> QED
      BY <3>2, <3>4, <3>5, <2>0 DEF Kept
  <2> QED
    BY <2>1, <2>2
<1>9. h[n] \in Seq(X) /\ Kept(h[n], n, s, gone)
  <2>1. n \in T
    <3> HIDE DEF T, n
    <3>1. 0 .. n \subseteq T
      BY <1>0, <1>7, <1>8, BoundedInduction
    <3> QED
      BY <1>0, <3>1
  <2> QED
    BY <2>1
<1>10. \A v : v \in ToSet(s) <=> \E l \in 1 .. n : v = s[l]
  BY MemberOfSeq
<1> QED
  BY <1>4, <1>9, <1>10 DEF Kept

-----------------------------------------------------------------------------
(***************************************************************************)
(* The inductive invariant.                                                *)
(***************************************************************************)
Active == step \notin {"select", "end"}
Tasking == step \in {"task", "fanTask"}
Handling == step \in {"handler", "fanHandler"}
Gating == step \in {"gate", "fanGate"}
InBatch == Tasking \/ Handling \/ step = "judge" \/ Gating

(* The batches of the main tasks, how many were begun, and the hosts of    *)
(* the others.                                                             *)
PB == PlayBatches(hosts)
Begun == Len(PB) - Len(batches)
Ahead == UNION {ToSet(batches[q]) : q \in DOMAIN batches}

H == ToSet(play.handlers)
OnceNotifies == UNION {Tasks[i].notify : i \in {j \in DOMAIN Tasks : Tasks[j].once}}

(* Workers are only about when the executor waits for them, and only on    *)
(* hosts of the batch that are alive.                                      *)
FanInv ==
  /\ step \notin {"fanTask", "fanHandler", "fanGate"} => fan = Idle /\ out = Idle
  /\ \A h \in Hosts : fan[h] # "none" => h \in alive
  /\ \A h \in Hosts : out[h] # "none" => fan[h] = "done"
  /\ step = "fanTask" => t \in 1 .. Len(Tasks)
  /\ step = "handler" => t \in 1 .. Len(play.handlers) + 1
  /\ step = "fanHandler" => t \in 1 .. Len(play.handlers)

(* The batches not begun are the last ones of the play.                    *)
Laid ==
  /\ k \in 1 .. Len(plays)
  /\ IsInjective(hosts)
  /\ Len(batches) <= Len(PB)
  /\ \A q \in 1 .. Len(batches) : batches[q] = PB[Begun + q]

(* Where the executor is in the play, and with which hosts.                *)
Placed ==
  /\ section = "pre" => batches = PB /\ batch = hosts /\ (InBatch \/ step = "finish")
  /\ section = "main" /\ (InBatch \/ step = "rollback") => Begun >= 1
  /\ section = "main" /\ Begun >= 1 => batch = PB[Begun]
  /\ section = "post" => batches = <<>> /\ batch = hosts /\ (InBatch \/ step = "finish")
  /\ step = "rollback" => section = "main" /\ Strategic /\ play.rollback
  /\ Gating => section = "main" /\ Strategic /\ ~batchFailed
  /\ step = "batch" => section = "main"

(* When a play has failed.                                                 *)
FailInv ==
  Active =>
    /\ failed => step \in {"finish", "rollback"} \/ (section = "main" /\ ~Strategic)
    /\ section = "pre" /\ step = "finish" => failed
    /\ step = "rollback" => failed

PlayInv == Active => Laid /\ Placed

(* Who went through.                                                       *)
PassInv ==
  Active =>
    /\ passed \subseteq ToSet(hosts)
    /\ section = "pre" => passed = {}
    /\ section = "main" /\ (Strategic \/ ~failed) =>
         \A q \in 1 .. Len(PB) : q < Begun \/ (q = Begun /\ step = "batch") => ToSet(PB[q]) \subseteq passed
    /\ passed \cap Ahead = {}
    /\ section = "main" /\ (InBatch \/ step = "rollback") => passed \cap ToSet(batch) = {}
    /\ section = "post" => ToSet(hosts) \subseteq passed
    /\ step = "finish" /\ ~failed => ToSet(hosts) \subseteq passed \ bad
    /\ BatchAtomic

(* Who is lost.                                                            *)
LostInv ==
  /\ bad = dead
  /\ Active =>
       /\ InBatch => alive \cap bad = {}
       /\ InBatch /\ ~batchFailed => alive = ToSet(batch)
       /\ section = "main" => (Ahead \cup passed) \cap bad = {}

(* A change that no handler has seen is known where handlers are chosen.   *)
Informed ==
  Tasking \/ Handling => \A h \in alive : stale[h] \cap H \subseteq notified[h]

(* The handlers of the batch that are done have seen every change.         *)
Answered ==
  /\ Handling => \A h \in alive : \A j \in 1 .. t - 1 : play.handlers[j] \notin stale[h]
  /\ step = "fanHandler" =>
       /\ \A h \in alive : fan[h] \in {"none", "done"} => play.handlers[t] \notin stale[h]
       /\ \A h \in Hosts : fan[h] # "none" => play.handlers[t] \in notified[h]

(* Outside of a batch being run no change is left that no handler has seen. *)
Settled ==
  /\ (step = "judge" \/ Gating) /\ ~batchFailed => \A h \in alive : stale[h] \cap H = {}
  /\ section = "main" => \A h \in Ahead \cup passed : stale[h] \cap H = {}
  /\ step = "finish" /\ ~failed => \A h \in passed : stale[h] \cap H = {}

(* Who is notified has changed, or a run_once task speaks for it, or the   *)
(* handler has run already.                                                *)
Asked ==
  /\ Tasking => \A h \in Hosts : notified[h] \subseteq stale[h] \cup OnceNotifies
  /\ Handling => \A h \in Hosts : \A x \in notified[h] :
       \/ x \in stale[h] \cup OnceNotifies
       \/ \E j \in 1 .. t - 1 : play.handlers[j] = x
       \/ fan[h] = "done" /\ play.handlers[t] = x

HandlerInv == Active => Informed /\ Answered /\ Settled /\ Asked

IInv == TypeOK /\ FanInv /\ PlayInv /\ FailInv /\ PassInv /\ LostInv /\ HandlerInv

-----------------------------------------------------------------------------
(* What a play, its tasks and its batches are.                             *)
LEMMA PlayTyped ==
  ASSUME TypeOK, k \in 1 .. Len(plays)
  PROVE  /\ play \in PlayRecords /\ IsInjective(play.hosts)
         /\ play.hosts \in Seq(Hosts) /\ play.handlers \in Seq(HandlerNames)
         /\ play.batch \in SizeExprs /\ play.serial \in Seq(SizeExprs)
         /\ Tasks \in Seq(TaskRecords)
<1>1. plays \in Seq(PlayRecords) /\ \A i \in DOMAIN plays : IsInjective(plays[i].hosts)
  BY PlayAssumption DEF TypeOK, ControlOK
<1>2. play \in PlayRecords /\ IsInjective(play.hosts)
  BY <1>1 DEF play
<1>3. /\ play.hosts \in Seq(Hosts) /\ play.handlers \in Seq(HandlerNames)
      /\ play.batch \in SizeExprs /\ play.serial \in Seq(SizeExprs)
      /\ play.pre \in Seq(TaskRecords) /\ play.main \in Seq(TaskRecords) /\ play.post \in Seq(TaskRecords)
  BY <1>2 DEF PlayRecords
<1>4. section = "pre" \/ section = "main" \/ section = "post"
  BY DEF TypeOK, ControlOK
<1>5. Tasks \in Seq(TaskRecords)
  BY <1>3, <1>4 DEF Tasks
<1> QED
  BY <1>2, <1>3, <1>5

LEMMA BatchesTyped ==
  ASSUME TypeOK, k \in 1 .. Len(plays), NEW s \in Seq(Hosts), IsInjective(s)
  PROVE  /\ PlayBatches(s) \in Seq(Seq(Hosts)) /\ Ordered(PlayBatches(s), s)
         /\ CanaryFirst(PlayBatches(s), s, play.strategy)
<1>1. play.batch \in SizeExprs /\ play.serial \in Seq(SizeExprs)
  BY PlayTyped
<1>2. PICK strategy, size, serial, b :
        /\ strategy = play.strategy /\ size = play.batch /\ serial = play.serial
        /\ b = MainBatches(s, strategy, size, serial)
  OBVIOUS
<1>3. size \in SizeExprs /\ serial \in Seq(SizeExprs) /\ b = MainBatches(s, strategy, size, serial)
  BY <1>1, <1>2
<1>4. b \in Seq(Seq(Hosts)) /\ Ordered(b, s) /\ CanaryFirst(b, s, strategy)
  BY <1>3, MainBatchesOrdered
<1> QED
  BY <1>2, <1>4 DEF PlayBatches

LEMMA Stays ==
  ASSUME UNCHANGED <<plays, k>>
  PROVE  /\ play' = play /\ H' = H /\ Strategic' = Strategic
         /\ section' = section => Tasks' = Tasks /\ OnceNotifies' = OnceNotifies
         /\ hosts' = hosts => PB' = PB
         /\ batches' = batches => Ahead' = Ahead
         /\ batches' = batches /\ hosts' = hosts => Begun' = Begun /\ MainBatchRan' = MainBatchRan
<1>1. play' = play
  BY DEF play
<1>2. H' = H /\ Strategic' = Strategic
  BY <1>1 DEF H, Strategic
<1>3. section' = section => Tasks' = Tasks /\ OnceNotifies' = OnceNotifies
  BY <1>1 DEF Tasks, OnceNotifies
<1>4. hosts' = hosts => PB' = PB
  BY <1>1 DEF PB, PlayBatches
<1>5. batches' = batches => Ahead' = Ahead
  BY DEF Ahead
<1>6. batches' = batches /\ hosts' = hosts => Begun' = Begun /\ MainBatchRan' = MainBatchRan
  BY <1>1, <1>4 DEF Begun, MainBatchRan, PB, PlayBatches
<1> QED
  BY <1>1, <1>2, <1>3, <1>4, <1>5, <1>6

(* How the hosts of the play lie over its batches.                         *)
LEMMA Parts ==
  ASSUME TypeOK, PlayInv, Active
  PROVE  /\ PB \in Seq(Seq(Hosts)) /\ Len(PB) \in Nat /\ Len(batches) \in Nat /\ Begun \in Nat
         /\ Begun + Len(batches) = Len(PB)
         /\ \A q \in 1 .. Len(PB) : ToSet(PB[q]) \subseteq ToSet(hosts)
         /\ \A x \in ToSet(hosts) : \E q \in 1 .. Len(PB) : x \in ToSet(PB[q])
         /\ \A p, q \in 1 .. Len(PB) : p # q => ToSet(PB[p]) \cap ToSet(PB[q]) = {}
         /\ \A x : x \in Ahead <=> \E q \in Begun + 1 .. Len(PB) : x \in ToSet(PB[q])
<1>1. /\ k \in 1 .. Len(plays) /\ IsInjective(hosts) /\ hosts \in Seq(Hosts)
      /\ Len(batches) <= Len(PB) /\ batches \in Seq(Seq(Hosts))
      /\ \A q \in 1 .. Len(batches) : batches[q] = PB[Begun + q]
  BY DEF TypeOK, ControlOK, BatchesOK, PlayInv, Laid
<1>2. PB \in Seq(Seq(Hosts)) /\ Ordered(PB, hosts)
  BY <1>1, BatchesTyped DEF PB
<1>3. /\ Len(PB) \in Nat /\ Len(batches) \in Nat /\ Begun \in Nat
      /\ Begun + Len(batches) = Len(PB)
  BY <1>1, <1>2 DEF Begun
<1>4. /\ \A q \in 1 .. Len(PB) : ToSet(PB[q]) \subseteq ToSet(hosts)
      /\ \A i \in 1 .. Len(hosts) : \E q \in 1 .. Len(PB) : hosts[i] \in ToSet(PB[q])
      /\ \A p, q \in 1 .. Len(PB) : \A i, j \in 1 .. Len(hosts) :
           hosts[i] \in ToSet(PB[p]) /\ hosts[j] \in ToSet(PB[q]) /\ p < q => i < j
  BY <1>2 DEF Ordered
<1>5. \A x : x \in ToSet(hosts) <=> \E i \in 1 .. Len(hosts) : x = hosts[i]
  BY <1>1, MemberOfSeq
<1>6. \A x \in ToSet(hosts) : \E q \in 1 .. Len(PB) : x \in ToSet(PB[q])
  BY <1>4, <1>5
<1>7. ASSUME NEW p \in 1 .. Len(PB), NEW q \in 1 .. Len(PB), NEW x \in ToSet(PB[p]), x \in ToSet(PB[q])
      PROVE  p = q
  <2>1. PICK i \in 1 .. Len(hosts) : x = hosts[i]
    BY <1>4, <1>5, <1>7
  <2>2. ~(p < q) /\ ~(q < p)
    BY <1>4, <1>7, <2>1
  <2> QED
    BY <2>2
<1>8. ASSUME NEW x PROVE x \in Ahead <=> \E q \in Begun + 1 .. Len(PB) : x \in ToSet(PB[q])
  <2>1. x \in Ahead <=> \E q \in 1 .. Len(batches) : x \in ToSet(batches[q])
    <3>1. DOMAIN batches = 1 .. Len(batches)
      BY <1>1
    <3>2. Ahead = UNION {ToSet(batches[q]) : q \in 1 .. Len(batches)}
      BY <3>1 DEF Ahead
    <3> QED
      BY <3>2
  <2>2. ASSUME NEW q \in 1 .. Len(batches), x \in ToSet(batches[q])
        PROVE  \E r \in Begun + 1 .. Len(PB) : x \in ToSet(PB[r])
    <3>1. Begun + q \in Begun + 1 .. Len(PB) /\ batches[q] = PB[Begun + q]
      BY <1>1, <1>3
    <3> QED
      BY <2>2, <3>1
  <2>3. ASSUME NEW r \in Begun + 1 .. Len(PB), x \in ToSet(PB[r])
        PROVE  \E q \in 1 .. Len(batches) : x \in ToSet(batches[q])
    <3>1. r - Begun \in 1 .. Len(batches) /\ Begun + (r - Begun) = r
      BY <1>3
    <3>2. batches[r - Begun] = PB[r]
      BY <1>1, <3>1
    <3> QED
      BY <2>3, <3>1, <3>2
  <2> QED
    BY <2>1, <2>2, <2>3
<1> QED
  BY <1>2, <1>3, <1>4, <1>6, <1>7, <1>8

-----------------------------------------------------------------------------
(* The invariant holds at first.                                           *)
LEMMA InitInv == Init => IInv
<1> SUFFICES ASSUME Init PROVE IInv
  OBVIOUS
<1>1. plays \in Seq(PlayRecords)
  BY PlayAssumption DEF Init
<1>2. TypeOK
  <2>1. ControlOK
    BY <1>1 DEF Init, ControlOK
  <2>f. FlagsOK
    BY Zenon DEF Init, FlagsOK
  <2>2. BatchesOK
    BY DEF Init, BatchesOK
  <2>3. WorkersOK
    BY DEF Init, WorkersOK, Idle
  <2>4. NoticesOK
    BY DEF Init, NoticesOK
  <2>5. HostSetsOK
    BY DEF Init, HostSetsOK
  <2> QED
    BY <2>1, <2>f, <2>2, <2>3, <2>4, <2>5 DEF TypeOK
<1>3. FanInv
  BY DEF Init, FanInv, Idle
<1>4. PlayInv /\ FailInv /\ PassInv /\ LostInv /\ HandlerInv
  BY DEF Init, PlayInv, FailInv, PassInv, LostInv, HandlerInv, Active
<1> QED
  BY <1>2, <1>3, <1>4 DEF IInv

-----------------------------------------------------------------------------
(* Types.                                                                  *)
LEMMA OfBatch ==
  ASSUME TypeOK
  PROVE  /\ ToSet(batch) \subseteq Hosts /\ ToSet(hosts) \subseteq Hosts
         /\ alive \subseteq Hosts
<1>1. batch \in Seq(Hosts) /\ hosts \in Seq(Hosts) /\ alive \subseteq ToSet(batch)
  BY DEF TypeOK, BatchesOK
<1> QED
  BY <1>1, MemberOfSeq

LEMMA ControlStep == IInv /\ [Next]_vars => ControlOK'
<1> SUFFICES ASSUME IInv, [Next]_vars PROVE ControlOK'
  OBVIOUS
<1>t. ControlOK /\ PlayInv /\ plays \in Seq(PlayRecords)
  BY PlayAssumption DEF IInv, TypeOK, ControlOK
<1>1. CASE SelectHosts
  <2>1. /\ UNCHANGED <<plays, k, cancelled>>
        /\ section' \in {"pre", "main", section} /\ step' \in {"end", "task", "batch"} /\ t' \in {1, t}
    BY <1>1 DEF SelectHosts, StartBatch
  <2> QED
    BY <2>1, <1>t DEF ControlOK
<1>2. CASE NextBatch
  <2>1. /\ UNCHANGED <<plays, k>>
        /\ section' \in {"post", section} /\ step' \in {"task", "finish"} /\ t' \in {1, t}
    BY <1>2 DEF NextBatch, StartBatch
  <2> QED
    BY <2>1, <1>t DEF ControlOK
<1>3. CASE NextTask
  <2>1. /\ UNCHANGED <<plays, k, section>>
        /\ step' \in {"judge", "fanTask", "handler"} /\ t' \in {1, t}
    BY <1>3 DEF NextTask, FanOut
  <2> QED
    BY <2>1, <1>t DEF ControlOK
<1>4. CASE CollectTask
  BY <1>4, <1>t DEF CollectTask, ControlOK
<1>5. CASE NextHandler
  BY <1>5, <1>t DEF NextHandler, FanOut, ControlOK, verdict
<1>6. CASE CollectHandler
  BY <1>6, <1>t DEF CollectHandler, ControlOK
<1>7. CASE Judge
  BY <1>7, <1>t DEF Judge, Abort, ControlOK
<1>8. CASE Gate
  BY <1>8, <1>t DEF Gate, FanOut, ControlOK, verdict
<1>9. CASE CollectGate
  BY <1>9, <1>t DEF CollectGate, Abort, ControlOK
<1>10. CASE RollbackBatch
  BY <1>10, <1>t DEF RollbackBatch, ControlOK, verdict
<1>11. CASE FinishPlay
  <2>1. k \in 1 .. Len(plays)
    BY <1>11, <1>t DEF FinishPlay, PlayInv, Laid, Active
  <2> QED
    BY <2>1, <1>11, <1>t DEF FinishPlay, ControlOK
<1>12. ASSUME NEW h \in Hosts, Start(h) PROVE ControlOK'
  BY <1>12, <1>t DEF Start, ControlOK, control, verdict
<1>13. ASSUME NEW h \in Hosts, Done(h) PROVE ControlOK'
  BY <1>13, <1>t DEF Done, ControlOK, control, verdict
<1>14. CASE Cancel
  BY <1>14, <1>t DEF Cancel, ControlOK, control, verdict
<1>15. CASE UNCHANGED vars
  BY <1>15, <1>t DEF vars, ControlOK, control, verdict
<1> QED
  BY <1>1, <1>2, <1>3, <1>4, <1>5, <1>6, <1>7, <1>8, <1>9, <1>10, <1>11, <1>12, <1>13, <1>14,
     <1>15 DEF Next, Executor, Ended

LEMMA FlagsStep == IInv /\ [Next]_vars => FlagsOK'
<1> SUFFICES ASSUME IInv, [Next]_vars PROVE FlagsOK'
  OBVIOUS
<1>t. FlagsOK
  BY DEF IInv, TypeOK
<1>1. CASE SelectHosts
  BY <1>1, <1>t, Zenon DEF SelectHosts, StartBatch, FlagsOK, verdict
<1>2. CASE NextBatch
  BY <1>2, <1>t, Zenon DEF NextBatch, StartBatch, FlagsOK, verdict
<1>3. CASE NextTask
  BY <1>3, <1>t, Zenon DEF NextTask, FlagsOK, verdict
<1>4. CASE CollectTask
  BY <1>4, <1>t, Zenon DEF CollectTask, FlagsOK, verdict
<1>5. CASE NextHandler
  BY <1>5, <1>t, Zenon DEF NextHandler, FlagsOK, verdict
<1>6. CASE CollectHandler
  BY <1>6, <1>t, Zenon DEF CollectHandler, FlagsOK, verdict
<1>7. CASE Judge
  BY <1>7, <1>t, Zenon DEF Judge, Abort, FlagsOK, verdict
<1>8. CASE Gate
  BY <1>8, <1>t, Zenon DEF Gate, FlagsOK, verdict
<1>9. CASE CollectGate
  BY <1>9, <1>t, Zenon DEF CollectGate, Abort, FlagsOK, verdict
<1>10. CASE RollbackBatch
  BY <1>10, <1>t, Zenon DEF RollbackBatch, FlagsOK, verdict
<1>11. CASE FinishPlay
  BY <1>11, <1>t, Zenon DEF FinishPlay, FlagsOK, verdict
<1>12. ASSUME NEW h \in Hosts, Start(h) PROVE FlagsOK'
  BY <1>12, <1>t, Zenon DEF Start, FlagsOK, verdict
<1>13. ASSUME NEW h \in Hosts, Done(h) PROVE FlagsOK'
  BY <1>13, <1>t, Zenon DEF Done, FlagsOK, verdict
<1>14. CASE Cancel
  BY <1>14, <1>t, Zenon DEF Cancel, FlagsOK, verdict
<1>15. CASE UNCHANGED vars
  BY <1>15, <1>t, Zenon DEF vars, FlagsOK, verdict
<1> QED
  BY <1>1, <1>2, <1>3, <1>4, <1>5, <1>6, <1>7, <1>8, <1>9, <1>10, <1>11, <1>12, <1>13, <1>14,
     <1>15 DEF Next, Executor, Ended

LEMMA BatchesStep == IInv /\ [Next]_vars => BatchesOK'
<1> SUFFICES ASSUME IInv, [Next]_vars PROVE BatchesOK'
  OBVIOUS
<1>t. TypeOK /\ BatchesOK /\ ControlOK /\ plays \in Seq(PlayRecords)
  BY PlayAssumption DEF IInv, TypeOK, ControlOK
<1>u. UNCHANGED <<hosts, batch, batches>> /\ alive' \subseteq alive => BatchesOK'
  BY <1>t DEF BatchesOK
<1>1. CASE SelectHosts
  <2>1. CASE step' = "end"
    BY <1>u, <2>1, <1>1 DEF SelectHosts, StartBatch
  <2>2. CASE step' # "end"
    <3>1. /\ k \in 1 .. Len(plays) /\ hosts' = FilterDead(play.hosts, dead)
          /\ batches' = PlayBatches(hosts')
      <4>1. k <= Len(plays)
        BY <1>1, <2>2 DEF SelectHosts
      <4> QED
        BY <4>1, <1>1, <1>t, <2>2 DEF SelectHosts, ControlOK
    <3>2. hosts' \in Seq(Hosts) /\ IsInjective(hosts')
      BY <3>1, <1>t, PlayTyped, Filtered
    <3>3. batches' \in Seq(Seq(Hosts))
      BY <3>1, <3>2, <1>t, BatchesTyped
    <3>4. \/ batch' = hosts' /\ alive' = ToSet(hosts')
          \/ UNCHANGED <<batch, alive>>
      BY <1>1, <2>2 DEF SelectHosts, StartBatch
    <3> QED
      BY <3>2, <3>3, <3>4, <1>t DEF BatchesOK
  <2> QED
    BY <2>1, <2>2
<1>2. CASE NextBatch
  <2>1. batches # <<>> => Head(batches) \in Seq(Hosts) /\ Tail(batches) \in Seq(Seq(Hosts))
    BY <1>t, HeadTailProperties DEF BatchesOK
  <2>2. /\ hosts' = hosts
        /\ \/ /\ batches # <<>> /\ batches' = Tail(batches) /\ batch' = Head(batches)
              /\ alive' = ToSet(batch')
           \/ UNCHANGED <<batches, batch, alive>>
           \/ batches' = batches /\ batch' = hosts /\ alive' = ToSet(batch')
    BY <1>2 DEF NextBatch, StartBatch
  <2> QED
    BY <2>1, <2>2, <1>t DEF BatchesOK
<1>3. CASE NextTask
  BY <1>3, <1>u DEF NextTask
<1>4. CASE CollectTask
  <2>1. UNCHANGED <<hosts, batch, batches>> /\ \E lost : alive' = alive \ lost
    BY <1>4 DEF CollectTask, DropHosts
  <2> QED
    BY <2>1, <1>u
<1>5. CASE NextHandler
  BY <1>5, <1>u DEF NextHandler
<1>6. CASE CollectHandler
  <2>1. UNCHANGED <<hosts, batch, batches>> /\ alive' = alive \ Lost(FALSE)
    BY <1>6 DEF CollectHandler, DropHosts
  <2> QED
    BY <2>1, <1>u
<1>7. CASE Judge
  BY <1>7, <1>u DEF Judge
<1>8. CASE Gate
  BY <1>8, <1>u DEF Gate
<1>9. CASE CollectGate
  <2>1. UNCHANGED <<hosts, batch, batches>> /\ alive' = alive \ Lost(FALSE)
    BY <1>9 DEF CollectGate, DropHosts
  <2> QED
    BY <2>1, <1>u
<1>10. CASE RollbackBatch
  BY <1>10, <1>u DEF RollbackBatch
<1>11. CASE FinishPlay
  BY <1>11, <1>u DEF FinishPlay
<1>12. ASSUME NEW h \in Hosts, Start(h) PROVE BatchesOK'
  BY <1>12, <1>u DEF Start, control
<1>13. ASSUME NEW h \in Hosts, Done(h) PROVE BatchesOK'
  BY <1>13, <1>u DEF Done, control
<1>14. CASE Cancel
  BY <1>14, <1>u DEF Cancel, control
<1>15. CASE UNCHANGED vars
  BY <1>15, <1>u DEF vars, control
<1> QED
  BY <1>1, <1>2, <1>3, <1>4, <1>5, <1>6, <1>7, <1>8, <1>9, <1>10, <1>11, <1>12, <1>13, <1>14,
     <1>15 DEF Next, Executor, Ended

LEMMA WorkersStep == IInv /\ [Next]_vars => WorkersOK'
<1> SUFFICES ASSUME IInv, [Next]_vars PROVE WorkersOK'
  OBVIOUS
<1>t. WorkersOK
  BY DEF IInv, TypeOK
<1>i. Idle \in [Hosts -> {"none", "todo", "busy", "done"}] /\ Idle \in [Hosts -> Outcomes \cup {"none"}]
  BY DEF Idle
<1>1. CASE SelectHosts
  <2>1. UNCHANGED <<fan, out>> /\ (journal' = journal \/ journal' = [h \in Hosts |-> 0])
    BY <1>1 DEF SelectHosts
  <2> QED
    BY <2>1, <1>t DEF WorkersOK
<1>2. CASE NextBatch
  BY <1>2, <1>t DEF NextBatch, WorkersOK
<1>3. CASE NextTask
  BY <1>3, <1>t DEF NextTask, FanOut, WorkersOK
<1>4. CASE CollectTask
  <2>1. fan' = Idle /\ out' = Idle /\ journal' = journal
    BY <1>4 DEF CollectTask, DropHosts
  <2> QED
    BY <2>1, <1>t, <1>i DEF WorkersOK
<1>5. CASE NextHandler
  BY <1>5, <1>t DEF NextHandler, FanOut, WorkersOK
<1>6. CASE CollectHandler
  BY <1>6, <1>t, <1>i DEF CollectHandler, DropHosts, WorkersOK
<1>7. CASE Judge
  BY <1>7, <1>t DEF Judge, WorkersOK
<1>8. CASE Gate
  BY <1>8, <1>t DEF Gate, FanOut, WorkersOK
<1>9. CASE CollectGate
  BY <1>9, <1>t, <1>i DEF CollectGate, DropHosts, WorkersOK
<1>10. CASE RollbackBatch
  BY <1>10, <1>t DEF RollbackBatch, WorkersOK
<1>11. CASE FinishPlay
  BY <1>11, <1>t DEF FinishPlay, WorkersOK
<1>12. ASSUME NEW h \in Hosts, Start(h) PROVE WorkersOK'
  BY <1>12, <1>t DEF Start, WorkersOK
<1>13. ASSUME NEW h \in Hosts, Done(h) PROVE WorkersOK'
  <2>1. PICK r \in Outcomes :
          /\ out' = [out EXCEPT ![h] = r]
          /\ journal' = [journal EXCEPT ![h] = IF r \in {"changed", "dirty"} THEN @ + 1 ELSE @]
    BY <1>13 DEF Done, Outcomes
  <2>2. out' \in [Hosts -> Outcomes \cup {"none"}] /\ journal' \in [Hosts -> Nat]
    BY <2>1, <1>t DEF WorkersOK
  <2>3. fan' \in [Hosts -> {"none", "todo", "busy", "done"}]
    BY <1>13, <1>t DEF Done, WorkersOK
  <2> QED
    BY <2>2, <2>3 DEF WorkersOK
<1>14. CASE Cancel
  BY <1>14, <1>t DEF Cancel, WorkersOK
<1>15. CASE UNCHANGED vars
  BY <1>15, <1>t DEF vars, WorkersOK
<1> QED
  BY <1>1, <1>2, <1>3, <1>4, <1>5, <1>6, <1>7, <1>8, <1>9, <1>10, <1>11, <1>12, <1>13, <1>14,
     <1>15 DEF Next, Executor, Ended

(* The handlers a task of the play notifies are names.                     *)
LEMMA TaskTyped ==
  ASSUME IInv, step = "fanTask"
  PROVE  Tasks[t].notify \subseteq HandlerNames
<1>1. TypeOK /\ k \in 1 .. Len(plays) /\ t \in 1 .. Len(Tasks)
  BY DEF IInv, FanInv, PlayInv, Laid, Active
<1>2. Tasks \in Seq(TaskRecords)
  BY <1>1, PlayTyped
<1>3. Tasks[t] \in TaskRecords
  BY <1>1, <1>2
<1> QED
  BY <1>3 DEF TaskRecords

LEMMA NoticesStep == IInv /\ [Next]_vars => NoticesOK'
<1> SUFFICES ASSUME IInv, [Next]_vars PROVE NoticesOK'
  OBVIOUS
<1>t. NoticesOK
  BY DEF IInv, TypeOK
<1>u. /\ notified' = notified \/ notified' = [h \in Hosts |-> {}]
      /\ stale' = stale \/ stale' = [h \in Hosts |-> {}]
      => NoticesOK'
  BY <1>t DEF NoticesOK
<1>1. CASE SelectHosts
  BY <1>1, <1>u DEF SelectHosts, StartBatch
<1>2. CASE NextBatch
  BY <1>2, <1>u DEF NextBatch, StartBatch, ghosts
<1>3. CASE NextTask
  BY <1>3, <1>u DEF NextTask, ghosts
<1>4. CASE CollectTask
  <2>1. step = "fanTask" /\ stale' = stale
    BY <1>4 DEF CollectTask
  <2>2. Tasks[t].notify \subseteq HandlerNames
    BY <2>1, TaskTyped
  <2>3. \/ notified' = notified
        \/ notified' = [h \in Hosts |-> IF h \in alive THEN notified[h] \cup Tasks[t].notify ELSE notified[h]]
    BY <1>4 DEF CollectTask
  <2>4. notified' \in [Hosts -> SUBSET HandlerNames]
    BY <2>2, <2>3, <1>t DEF NoticesOK
  <2> QED
    BY <2>1, <2>4, <1>t DEF NoticesOK
<1>5. CASE NextHandler
  BY <1>5, <1>u DEF NextHandler, ghosts
<1>6. CASE CollectHandler
  BY <1>6, <1>u DEF CollectHandler
<1>7. CASE Judge
  BY <1>7, <1>u DEF Judge
<1>8. CASE Gate
  BY <1>8, <1>u DEF Gate, ghosts
<1>9. CASE CollectGate
  BY <1>9, <1>u DEF CollectGate
<1>10. CASE RollbackBatch
  BY <1>10, <1>u DEF RollbackBatch
<1>11. CASE FinishPlay
  BY <1>11, <1>u DEF FinishPlay, ghosts
<1>12. ASSUME NEW h \in Hosts, Start(h) PROVE NoticesOK'
  BY <1>12, <1>u DEF Start, ghosts
<1>13. ASSUME NEW h \in Hosts, Done(h) PROVE NoticesOK'
  <2>1. PICK r \in Outcomes :
          /\ notified' = [notified EXCEPT ![h] = @ \cup Notifies(r)]
          /\ stale' = [stale EXCEPT ![h] =
               IF step = "fanHandler" THEN @ \ {play.handlers[t]} ELSE @ \cup Notifies(r)]
    BY <1>13 DEF Done, Outcomes
  <2>2. Notifies(r) \subseteq HandlerNames
    BY TaskTyped DEF Notifies
  <2> QED
    BY <2>1, <2>2, <1>t DEF NoticesOK
<1>14. CASE Cancel
  BY <1>14, <1>u DEF Cancel, ghosts
<1>15. CASE UNCHANGED vars
  BY <1>15, <1>u DEF vars, ghosts
<1> QED
  BY <1>1, <1>2, <1>3, <1>4, <1>5, <1>6, <1>7, <1>8, <1>9, <1>10, <1>11, <1>12, <1>13, <1>14,
     <1>15 DEF Next, Executor, Ended

LEMMA HostSetsStep == IInv /\ [Next]_vars => HostSetsOK'
<1> SUFFICES ASSUME IInv, [Next]_vars PROVE HostSetsOK'
  OBVIOUS
<1>t. HostSetsOK
  BY DEF IInv, TypeOK
<1>a. ToSet(batch) \subseteq Hosts /\ ToSet(hosts) \subseteq Hosts /\ alive \subseteq Hosts
  BY OfBatch DEF IInv
<1>l. \A b : Lost(b) \subseteq Hosts
  BY DEF Lost
<1>1. CASE SelectHosts
  BY <1>1, <1>t DEF SelectHosts, HostSetsOK
<1>2. CASE NextBatch
  BY <1>2, <1>t DEF NextBatch, HostSetsOK, ghosts
<1>3. CASE NextTask
  BY <1>3, <1>t DEF NextTask, HostSetsOK, ghosts
<1>4. CASE CollectTask
  <2>1. PICK lost \in SUBSET Hosts : dead' = dead \cup lost /\ bad' = bad \cup lost
    BY <1>a, <1>l, <1>4 DEF CollectTask, DropHosts
  <2>2. UNCHANGED <<marker, passed, stuck>>
    BY <1>4 DEF CollectTask
  <2> QED
    BY <2>1, <2>2, <1>t DEF HostSetsOK
<1>5. CASE NextHandler
  BY <1>5, <1>t DEF NextHandler, HostSetsOK, ghosts
<1>6. CASE CollectHandler
  BY <1>l, <1>6, <1>t DEF CollectHandler, DropHosts, HostSetsOK
<1>7. CASE Judge
  <2>1. UNCHANGED <<dead, marker, bad, stuck>> /\ passed' \subseteq passed \cup ToSet(batch)
    BY <1>7 DEF Judge
  <2> QED
    BY <2>1, <1>a, <1>t DEF HostSetsOK
<1>8. CASE Gate
  BY <1>8, <1>t DEF Gate, HostSetsOK, ghosts
<1>9. CASE CollectGate
  <2>1. /\ dead' = dead \cup Lost(FALSE) /\ bad' = bad \cup Lost(FALSE)
        /\ UNCHANGED <<marker, stuck>> /\ passed' \subseteq passed \cup ToSet(batch)
    BY <1>9 DEF CollectGate, DropHosts
  <2> QED
    BY <2>1, <1>a, <1>l, <1>t DEF HostSetsOK
<1>10. CASE RollbackBatch
  <2>1. UNCHANGED <<dead, marker, bad, passed>> /\ stuck' \subseteq ToSet(batch)
    BY <1>10 DEF RollbackBatch, ToUndo
  <2> QED
    BY <2>1, <1>a, <1>t DEF HostSetsOK
<1>11. CASE FinishPlay
  <2>1. Marked \subseteq Hosts
    BY <1>a DEF Marked
  <2> QED
    BY <2>1, <1>11, <1>t DEF FinishPlay, HostSetsOK, ghosts
<1>12. ASSUME NEW h \in Hosts, Start(h) PROVE HostSetsOK'
  BY <1>12, <1>t DEF Start, HostSetsOK, ghosts
<1>13. ASSUME NEW h \in Hosts, Done(h) PROVE HostSetsOK'
  BY <1>13, <1>t DEF Done, HostSetsOK
<1>14. CASE Cancel
  BY <1>14, <1>t DEF Cancel, HostSetsOK, ghosts
<1>15. CASE UNCHANGED vars
  BY <1>15, <1>t DEF vars, HostSetsOK, ghosts
<1> QED
  BY <1>1, <1>2, <1>3, <1>4, <1>5, <1>6, <1>7, <1>8, <1>9, <1>10, <1>11, <1>12, <1>13, <1>14,
     <1>15 DEF Next, Executor, Ended

LEMMA TypeStep == IInv /\ [Next]_vars => TypeOK'
  BY ControlStep, FlagsStep, BatchesStep, WorkersStep, NoticesStep, HostSetsStep DEF TypeOK

-----------------------------------------------------------------------------
(* Workers.                                                                *)
LEMMA FanStep == IInv /\ [Next]_vars => FanInv'
<1> SUFFICES ASSUME IInv, [Next]_vars PROVE FanInv'
  OBVIOUS
<1>t. TypeOK /\ FanInv /\ PlayInv
  BY DEF IInv
<1>f. /\ fan \in [Hosts -> {"none", "todo", "busy", "done"}]
      /\ out \in [Hosts -> Outcomes \cup {"none"}]
      /\ t \in Nat \ {0}
  BY <1>t DEF TypeOK, WorkersOK, ControlOK
<1>w. Active => Tasks \in Seq(TaskRecords) /\ play.handlers \in Seq(HandlerNames)
  BY <1>t, PlayTyped DEF PlayInv, Laid
<1>i. fan' = Idle /\ out' = Idle /\ step' \notin {"fanTask", "handler", "fanHandler"} => FanInv'
  BY DEF Idle, FanInv
<1>q. step \notin {"fanTask", "fanHandler", "fanGate"} => fan = Idle /\ out = Idle
  BY <1>t DEF FanInv
<1>1. CASE SelectHosts
  <2>1. UNCHANGED <<fan, out>> /\ step = "select" /\ step' \in {"end", "task", "batch"}
    BY <1>1 DEF SelectHosts, StartBatch
  <2> QED
    BY <2>1, <1>i, <1>q
<1>2. CASE NextBatch
  <2>1. UNCHANGED <<fan, out>> /\ step = "batch" /\ step' \in {"task", "finish"}
    BY <1>2 DEF NextBatch, StartBatch
  <2> QED
    BY <2>1, <1>i, <1>q
<1>3. CASE NextTask
  <2>1. /\ step = "task" /\ Active /\ fan = Idle /\ out = Idle
        /\ UNCHANGED <<plays, k, section, out, alive>>
    BY <1>3, <1>q DEF NextTask, Active
  <2>2. Tasks' = Tasks /\ play' = play
    BY <2>1, Stays
  <2>3. CASE step' = "judge"
    BY <2>1, <2>3, <1>3, <1>i DEF NextTask, FanOut
  <2>4. CASE step' = "fanTask"
    <3>1. /\ t <= Len(Tasks) /\ t' = t
          /\ fan' = [h \in Hosts |-> IF h \in (IF Tasks[t].once THEN FirstAlive ELSE alive)
                                     THEN "todo" ELSE "none"]
      BY <1>3, <2>4 DEF NextTask, FanOut
    <3>2. FirstAlive \subseteq alive
      BY DEF FirstAlive
    <3>3. t' \in 1 .. Len(Tasks')
      BY <3>1, <2>1, <2>2, <1>f, <1>w
    <3>4. \A h \in Hosts : fan'[h] # "none" => h \in alive
      BY <3>1, <3>2
    <3> QED
      BY <3>3, <3>4, <2>4, <2>1 DEF FanInv, Idle
  <2>5. CASE step' = "handler"
    <3>1. t' = 1 /\ fan' = fan
      BY <1>3, <2>5 DEF NextTask, FanOut
    <3>2. t' \in 1 .. Len(play.handlers') + 1
      BY <3>1, <2>1, <2>2, <1>w
    <3> QED
      BY <3>1, <3>2, <2>1, <2>2, <2>5 DEF FanInv, Idle
  <2>6. step' \in {"judge", "fanTask", "handler"}
    BY <1>3 DEF NextTask, FanOut
  <2> QED
    BY <2>3, <2>4, <2>5, <2>6
<1>4. CASE CollectTask
  <2>1. fan' = Idle /\ out' = Idle /\ step' \in {"judge", "task"}
    BY <1>4 DEF CollectTask, DropHosts
  <2> QED
    BY <2>1, <1>i
<1>5. CASE NextHandler
  <2>1. /\ step = "handler" /\ Active /\ fan = Idle /\ out = Idle
        /\ UNCHANGED <<plays, k, section, out, alive, t>>
    BY <1>5, <1>q DEF NextHandler, Active
  <2>2. play' = play
    BY <2>1, Stays
  <2>3. CASE t <= Len(play.handlers)
    <3>1. /\ step' = "fanHandler"
          /\ fan' = [h \in Hosts |-> IF h \in Notified(play.handlers[t]) THEN "todo" ELSE "none"]
      BY <2>3, <1>5 DEF NextHandler, FanOut
    <3>2. \A h \in Hosts : fan'[h] # "none" => h \in alive
      BY <3>1 DEF Notified
    <3>3. t' \in 1 .. Len(play.handlers')
      BY <2>1, <2>2, <2>3, <1>f, <1>w
    <3> QED
      BY <3>1, <3>2, <3>3, <2>1, <2>2 DEF FanInv, Idle
  <2>4. CASE ~(t <= Len(play.handlers))
    <3>1. fan' = fan /\ step' = "judge"
      BY <2>4, <1>5 DEF NextHandler
    <3> QED
      BY <3>1, <2>1, <1>i
  <2> QED
    BY <2>3, <2>4
<1>6. CASE CollectHandler
  <2>1. /\ step = "fanHandler" /\ fan' = Idle /\ out' = Idle /\ step' = "handler" /\ t' = t + 1
        /\ UNCHANGED <<plays, k>>
    BY <1>6 DEF CollectHandler, DropHosts
  <2>2. t \in 1 .. Len(play.handlers) /\ play' = play /\ play.handlers \in Seq(HandlerNames)
    BY <2>1, <1>t, <1>w, Stays DEF FanInv, Active
  <2>3. t' \in 1 .. Len(play.handlers') + 1
    BY <2>1, <2>2
  <2> QED
    BY <2>1, <2>3, <2>2 DEF FanInv, Idle
<1>7. CASE Judge
  <2>1. UNCHANGED <<fan, out>> /\ step = "judge" /\ step' \in {"batch", "finish", "rollback", "gate"}
    BY <1>7 DEF Judge, Abort
  <2> QED
    BY <2>1, <1>i, <1>q
<1>8. CASE Gate
  <2>1. /\ step = "gate" /\ step' = "fanGate" /\ UNCHANGED <<out, alive>>
        /\ fan' = [h \in Hosts |-> IF h \in alive THEN "todo" ELSE "none"]
    BY <1>8 DEF Gate, FanOut
  <2>2. out = Idle
    BY <2>1, <1>q
  <2> QED
    BY <2>1, <2>2 DEF FanInv, Idle
<1>9. CASE CollectGate
  <2>1. fan' = Idle /\ out' = Idle /\ step' \in {"batch", "finish", "rollback"}
    BY <1>9 DEF CollectGate, DropHosts, Abort
  <2> QED
    BY <2>1, <1>i
<1>10. CASE RollbackBatch
  <2>1. UNCHANGED <<fan, out>> /\ step = "rollback" /\ step' = "finish"
    BY <1>10 DEF RollbackBatch
  <2> QED
    BY <2>1, <1>i, <1>q
<1>11. CASE FinishPlay
  <2>1. UNCHANGED <<fan, out>> /\ step = "finish" /\ step' = "select"
    BY <1>11 DEF FinishPlay
  <2> QED
    BY <2>1, <1>i, <1>q
<1>s. ASSUME UNCHANGED <<plays, k, section, step, t, alive>>,
             step \in {"fanTask", "fanHandler", "fanGate"},
             \A h \in Hosts : (fan'[h] # "none" => fan[h] # "none") /\ (out'[h] # "none" => fan'[h] = "done")
      PROVE  FanInv'
  <2>1. Tasks' = Tasks /\ play' = play
    BY <1>s, Stays
  <2> QED
    BY <2>1, <1>s, <1>t DEF FanInv
<1>12. ASSUME NEW g \in Hosts, Start(g) PROVE FanInv'
  <2>1. UNCHANGED <<plays, k, section, step, t, alive, out>>
    BY <1>12 DEF Start, control
  <2>2. fan[g] = "todo" /\ fan' = [fan EXCEPT ![g] = "busy"]
    BY <1>12 DEF Start
  <2>3. step \in {"fanTask", "fanHandler", "fanGate"}
    BY <2>2, <1>q DEF Idle
  <2>4. \A h \in Hosts : (fan'[h] # "none" => fan[h] # "none") /\ (out'[h] # "none" => fan'[h] = "done")
    BY <2>1, <2>2, <1>f, <1>t DEF FanInv
  <2> QED
    BY <2>1, <2>3, <2>4, <1>s
<1>13. ASSUME NEW g \in Hosts, Done(g) PROVE FanInv'
  <2>1. UNCHANGED <<plays, k, section, step, t, alive>>
    BY <1>13 DEF Done, control
  <2>2. /\ fan[g] = "busy" /\ fan' = [fan EXCEPT ![g] = "done"]
        /\ \E r : out' = [out EXCEPT ![g] = r]
    BY <1>13 DEF Done
  <2>3. step \in {"fanTask", "fanHandler", "fanGate"}
    BY <2>2, <1>q DEF Idle
  <2>4. \A h \in Hosts : (fan'[h] # "none" => fan[h] # "none") /\ (out'[h] # "none" => fan'[h] = "done")
    BY <2>2, <1>f, <1>t DEF FanInv
  <2> QED
    BY <2>1, <2>3, <2>4, <1>s
<1>u. ASSUME UNCHANGED <<plays, k, section, step, t, alive, fan, out>> PROVE FanInv'
  <2>1. Tasks' = Tasks /\ play' = play
    BY <1>u, Stays
  <2> QED
    BY <2>1, <1>u, <1>t DEF FanInv
<1>14. CASE Cancel
  BY <1>14, <1>u DEF Cancel, control
<1>15. CASE UNCHANGED vars
  BY <1>15, <1>u DEF vars, control
<1> QED
  BY <1>1, <1>2, <1>3, <1>4, <1>5, <1>6, <1>7, <1>8, <1>9, <1>10, <1>11, <1>12, <1>13, <1>14,
     <1>15 DEF Next, Executor, Ended
-----------------------------------------------------------------------------
(* The place in the play.                                                  *)
LEMMA LaidStays ==
  ASSUME IInv, Active, UNCHANGED <<plays, k, hosts, batches>>
  PROVE  Laid'
<1>1. PB' = PB /\ Begun' = Begun
  BY Stays
<1>2. Laid
  BY DEF IInv, PlayInv
<1> QED
  BY <1>1, <1>2 DEF Laid

LEMMA PlayStep == IInv /\ [Next]_vars => PlayInv'
<1> SUFFICES ASSUME IInv, [Next]_vars, Active' PROVE Laid' /\ Placed'
  BY DEF PlayInv
<1>t. TypeOK /\ (Active => Laid /\ Placed)
  BY DEF IInv, PlayInv
<1>p. Active => /\ PB \in Seq(Seq(Hosts)) /\ Len(PB) \in Nat /\ Len(batches) \in Nat
                /\ Begun \in Nat /\ Begun + Len(batches) = Len(PB)
  BY <1>t, Parts DEF IInv
<1>b. batches \in Seq(Seq(Hosts)) /\ hosts \in Seq(Hosts)
  BY <1>t DEF TypeOK, BatchesOK
<1>s. UNCHANGED <<plays, k>> => play' = play /\ Strategic' = Strategic
  BY Stays
<1>g. ASSUME Active, UNCHANGED <<plays, k, hosts, batches, batch>>
      PROVE  PB' = PB /\ Begun' = Begun /\ play' = play /\ Strategic' = Strategic /\ Laid'
  BY <1>g, LaidStays, Stays
<1>1. CASE SelectHosts
  <2>1. step' # "end"
    BY DEF Active
  <2>2. k <= Len(plays) /\ plays \in Seq(PlayRecords) /\ k \in 1 .. Len(plays) + 1
    BY <1>1, <2>1, <1>t, PlayAssumption DEF SelectHosts, TypeOK, ControlOK
  <2>3. /\ k \in 1 .. Len(plays) /\ UNCHANGED <<plays, k>>
        /\ hosts' = FilterDead(play.hosts, dead) /\ batches' = PlayBatches(hosts')
    BY <1>1, <2>1, <2>2 DEF SelectHosts
  <2>4. hosts' \in Seq(Hosts) /\ IsInjective(hosts')
    BY <2>3, <1>t, PlayTyped, Filtered
  <2>5. batches' \in Seq(Seq(Hosts))
    BY <2>3, <2>4, <1>t, BatchesTyped
  <2>6. batches' = PB'
    BY <2>3, <1>s DEF PB, PlayBatches
  <2>7. Len(batches') \in Nat /\ Begun' = 0
    BY <2>5, <2>6 DEF Begun
  <2>8. Laid'
    BY <2>2, <2>3, <2>4, <2>6, <2>7 DEF Laid
  <2>9. \/ section' = "pre" /\ step' = "task" /\ batch' = hosts'
        \/ section' = "main" /\ step' = "batch"
    BY <1>1, <2>1 DEF SelectHosts, StartBatch
  <2>10. Placed'
    BY <2>6, <2>7, <2>9 DEF Placed, InBatch, Tasking, Handling, Gating
  <2> QED
    BY <2>8, <2>10
<1>2. CASE NextBatch
  <2>1. step = "batch" /\ Active /\ section = "main" /\ UNCHANGED <<plays, k, hosts>> /\ Laid /\ Placed
    BY <1>2, <1>t DEF NextBatch, Active, Placed
  <2>2. PB' = PB /\ play' = play
    BY <2>1, Stays
  <2>3. CASE batches # <<>> /\ ~cancelled
    <3>1. batches' = Tail(batches) /\ batch' = Head(batches) /\ section' = section /\ step' = "task"
      BY <2>3, <1>2 DEF NextBatch, StartBatch
    <3>2. /\ Len(batches) >= 1 /\ Len(batches') = Len(batches) - 1 /\ batch' = batches[1]
          /\ \A q \in 1 .. Len(batches) - 1 : batches'[q] = batches[q + 1]
      BY <2>3, <3>1, <1>b, HeadTailProperties
    <3>3. Begun' = Begun + 1
      BY <3>2, <2>1, <2>2, <1>p DEF Begun
    <3>4. batch' = PB[Begun + 1]
      BY <3>2, <2>1, <1>p DEF Laid
    <3>5. ASSUME NEW q \in 1 .. Len(batches) - 1 PROVE batches'[q] = PB[Begun' + q]
      <4>1. q + 1 \in 1 .. Len(batches) /\ batches'[q] = batches[q + 1]
        BY <3>2, <1>p, <2>1
      <4>2. batches[q + 1] = PB[Begun + (q + 1)]
        BY <4>1, <2>1 DEF Laid
      <4>3. Begun + (q + 1) = Begun' + q
        BY <3>3, <1>p, <2>1
      <4> QED
        BY <4>1, <4>2, <4>3
    <3>6. Laid'
      BY <3>2, <3>5, <2>1, <2>2, <1>p DEF Laid
    <3>7. Placed'
      BY <3>1, <3>3, <3>4, <2>1, <2>2, <1>p DEF Placed, InBatch, Tasking, Handling, Gating
    <3> QED
      BY <3>6, <3>7
  <2>4. CASE batches # <<>> /\ cancelled
    <3>1. UNCHANGED <<batches, batch, section>> /\ step' = "finish"
      BY <2>4, <1>2 DEF NextBatch
    <3> QED
      BY <3>1, <2>1, <1>g DEF Placed, InBatch, Tasking, Handling, Gating
  <2>5. CASE batches = <<>> /\ ~failed /\ play.post # <<>>
    <3>1. batches' = batches /\ section' = "post" /\ batch' = hosts /\ step' = "task"
      BY <2>5, <1>2 DEF NextBatch, StartBatch
    <3>2. Laid'
      BY <3>1, <2>1, LaidStays
    <3> QED
      BY <3>1, <3>2, <2>1, <2>5 DEF Placed, InBatch, Tasking, Handling, Gating
  <2>6. CASE batches = <<>> /\ (failed \/ play.post = <<>>)
    <3>1. UNCHANGED <<batches, batch, section>> /\ step' = "finish"
      BY <2>6, <1>2 DEF NextBatch
    <3> QED
      BY <3>1, <2>1, <1>g DEF Placed, InBatch, Tasking, Handling, Gating
  <2> QED
    BY <2>3, <2>4, <2>5, <2>6
<1>r. ASSUME Active, UNCHANGED <<plays, k, hosts, batches, batch, section>>,
             InBatch' => InBatch, InBatch, step' # "batch" \/ section' = "main",
             step' = "rollback" => section = "main" /\ Strategic /\ play.rollback,
             step' = "finish" \/ step' = "rollback" \/ step' = "batch" \/ InBatch',
             Gating' => section = "main" /\ Strategic /\ ~batchFailed'
      PROVE  Laid' /\ Placed'
  BY <1>r, <1>g, <1>t DEF Placed, InBatch, Tasking, Handling, Gating
<1>3. CASE NextTask
  <2>1. /\ step = "task" /\ step' \in {"judge", "fanTask", "handler"}
        /\ UNCHANGED <<plays, k, hosts, batches, batch, section>>
    BY <1>3 DEF NextTask, FanOut
  <2> QED
    BY <2>1, <1>r DEF Active, InBatch, Tasking, Handling, Gating
<1>4. CASE CollectTask
  <2>1. /\ step = "fanTask" /\ step' \in {"judge", "task"}
        /\ UNCHANGED <<plays, k, hosts, batches, batch, section>>
    BY <1>4 DEF CollectTask
  <2> QED
    BY <2>1, <1>r DEF Active, InBatch, Tasking, Handling, Gating
<1>5. CASE NextHandler
  <2>1. /\ step = "handler" /\ step' \in {"judge", "fanHandler"}
        /\ UNCHANGED <<plays, k, hosts, batches, batch, section>>
    BY <1>5 DEF NextHandler, FanOut
  <2> QED
    BY <2>1, <1>r DEF Active, InBatch, Tasking, Handling, Gating
<1>6. CASE CollectHandler
  <2>1. /\ step = "fanHandler" /\ step' = "handler"
        /\ UNCHANGED <<plays, k, hosts, batches, batch, section>>
    BY <1>6 DEF CollectHandler
  <2> QED
    BY <2>1, <1>r DEF Active, InBatch, Tasking, Handling, Gating
<1>7. CASE Judge
  <2>1. /\ step = "judge" /\ Active /\ InBatch /\ ~Gating
        /\ UNCHANGED <<plays, k, hosts, batches, batch, batchFailed>>
    BY <1>7 DEF Judge, Active, InBatch, Gating
  <2>2. CASE section = "pre" /\ ~batchFailed
    <3>1. section' = "main" /\ step' = "batch"
      BY <2>2, <1>7 DEF Judge
    <3>2. batches = PB /\ Begun = 0
      BY <2>1, <2>2, <1>t, <1>p DEF Placed, Begun
    <3> QED
      BY <3>1, <3>2, <2>1, <1>g DEF Placed, InBatch, Tasking, Handling, Gating
  <2>3. CASE ~(section = "pre" /\ ~batchFailed)
    <3>1. /\ section' = section /\ step' \in {"finish", "batch", "rollback", "gate"}
          /\ step' \in {"batch", "rollback", "gate"} => section = "main"
          /\ step' = "rollback" => Strategic /\ play.rollback
          /\ step' = "gate" => Strategic /\ ~batchFailed
      BY <2>3, <1>7 DEF Judge, Abort
    <3> QED
      BY <3>1, <2>1, <1>r DEF InBatch, Tasking, Handling, Gating
  <2> QED
    BY <2>2, <2>3
<1>8. CASE Gate
  <2>1. /\ step = "gate" /\ step' = "fanGate" /\ Active /\ Gating
        /\ UNCHANGED <<plays, k, hosts, batches, batch, section, batchFailed>>
    BY <1>8 DEF Gate, FanOut, verdict, Active, Gating
  <2>2. section = "main" /\ Strategic /\ ~batchFailed
    BY <2>1, <1>t DEF Placed
  <2> QED
    BY <2>1, <2>2, <1>r DEF InBatch, Tasking, Handling, Gating
<1>9. CASE CollectGate
  <2>1. /\ step = "fanGate" /\ step' \in {"batch", "finish", "rollback"} /\ Active /\ Gating
        /\ step' = "rollback" => play.rollback
        /\ UNCHANGED <<plays, k, hosts, batches, batch, section, batchFailed>>
    BY <1>9 DEF CollectGate, Abort, Active, Gating
  <2>2. section = "main" /\ Strategic /\ ~batchFailed
    BY <2>1, <1>t DEF Placed
  <2> QED
    BY <2>1, <2>2, <1>r DEF InBatch, Tasking, Handling, Gating
<1>10. CASE RollbackBatch
  <2>1. /\ step = "rollback" /\ step' = "finish" /\ Active
        /\ UNCHANGED <<plays, k, hosts, batches, batch, section>>
    BY <1>10 DEF RollbackBatch, Active
  <2>2. section = "main"
    BY <2>1, <1>t DEF Placed
  <2> QED
    BY <2>1, <2>2, <1>g, <1>t DEF Placed, InBatch, Tasking, Handling, Gating
<1>11. CASE FinishPlay
  BY <1>11 DEF FinishPlay, Active
<1>u. ASSUME UNCHANGED <<plays, k, hosts, batches, batch, section, step, batchFailed>>
      PROVE  Laid' /\ Placed'
  <2>1. Active /\ Placed
    BY <1>u, <1>t DEF Active
  <2> QED
    BY <2>1, <1>u, <1>g DEF Placed, InBatch, Tasking, Handling, Gating
<1>12. ASSUME NEW g \in Hosts, Start(g) PROVE Laid' /\ Placed'
  BY <1>12, <1>u DEF Start, control, verdict
<1>13. ASSUME NEW g \in Hosts, Done(g) PROVE Laid' /\ Placed'
  BY <1>13, <1>u DEF Done, control, verdict
<1>14. CASE Cancel
  BY <1>14, <1>u DEF Cancel, control, verdict
<1>15. CASE UNCHANGED vars
  BY <1>15, <1>u DEF vars, control, verdict
<1> QED
  BY <1>1, <1>2, <1>3, <1>4, <1>5, <1>6, <1>7, <1>8, <1>9, <1>10, <1>11, <1>12, <1>13, <1>14,
     <1>15 DEF Next, Executor, Ended
-----------------------------------------------------------------------------
(* Failure.                                                                *)
LEMMA FailStep == IInv /\ [Next]_vars => FailInv'
<1> SUFFICES ASSUME IInv, [Next]_vars, Active' PROVE FailInv'
  BY DEF FailInv
<1>t. FailInv /\ (Active => Placed)
  BY DEF IInv, PlayInv
<1>s. UNCHANGED <<plays, k>> => Strategic' = Strategic
  BY Stays
<1>u. ASSUME Active, UNCHANGED <<plays, k, section, failed>>, step' \notin {"finish", "rollback"},
             step \notin {"finish", "rollback"}
      PROVE  FailInv'
  BY <1>u, <1>t, <1>s DEF FailInv
<1>1. CASE SelectHosts
  BY <1>1 DEF SelectHosts, StartBatch, FailInv, Active
<1>2. CASE NextBatch
  <2>1. step = "batch" /\ section = "main" /\ UNCHANGED <<plays, k>> /\ Strategic' = Strategic
        /\ (failed => ~Strategic)
    BY <1>2, <1>t, <1>s DEF NextBatch, Placed, Active, FailInv
  <2> QED
    BY <2>1, <1>2 DEF NextBatch, StartBatch, FailInv
<1>3. CASE NextTask
  BY <1>3, <1>u DEF NextTask, FanOut, Active
<1>4. CASE CollectTask
  BY <1>4, <1>u DEF CollectTask, Active
<1>5. CASE NextHandler
  BY <1>5, <1>u DEF NextHandler, FanOut, Active, verdict
<1>6. CASE CollectHandler
  BY <1>6, <1>u DEF CollectHandler, Active
<1>7. CASE Judge
  <2>1. step = "judge" /\ UNCHANGED <<plays, k>> /\ Strategic' = Strategic
        /\ (failed => section = "main" /\ ~Strategic)
    BY <1>7, <1>t, <1>s DEF Judge, Active, FailInv
  <2> QED
    BY <2>1, <1>7 DEF Judge, Abort, FailInv
<1>8. CASE Gate
  BY <1>8, <1>u DEF Gate, FanOut, Active, verdict
<1>9. CASE CollectGate
  <2>1. step = "fanGate" /\ section = "main" /\ UNCHANGED <<plays, k, section>> /\ ~failed
    BY <1>9, <1>t DEF CollectGate, Placed, Gating, Active, FailInv
  <2> QED
    BY <2>1, <1>9 DEF CollectGate, Abort, FailInv
<1>10. CASE RollbackBatch
  BY <1>10, <1>t DEF RollbackBatch, FailInv, Placed, Active, verdict
<1>11. CASE FinishPlay
  BY <1>11 DEF FinishPlay, Active
<1>v. ASSUME UNCHANGED <<plays, k, section, failed, step>> PROVE FailInv'
  BY <1>v, <1>t, <1>s DEF FailInv, Active
<1>12. ASSUME NEW h \in Hosts, Start(h) PROVE FailInv'
  BY <1>12, <1>v DEF Start, control, verdict
<1>13. ASSUME NEW h \in Hosts, Done(h) PROVE FailInv'
  BY <1>13, <1>v DEF Done, control, verdict
<1>14. CASE Cancel
  BY <1>14, <1>v DEF Cancel, control, verdict
<1>15. CASE UNCHANGED vars
  BY <1>15, <1>v DEF vars, control, verdict
<1> QED
  BY <1>1, <1>2, <1>3, <1>4, <1>5, <1>6, <1>7, <1>8, <1>9, <1>10, <1>11, <1>12, <1>13, <1>14,
     <1>15 DEF Next, Executor, Ended

-----------------------------------------------------------------------------
(* A batch being run is neither among those ahead nor through already.     *)
LEMMA Apart ==
  ASSUME IInv, section = "main", InBatch \/ step = "rollback"
  PROVE  /\ Begun \in 1 .. Len(PB) /\ batch = PB[Begun]
         /\ ToSet(batch) \subseteq ToSet(hosts)
         /\ ToSet(batch) \cap (Ahead \cup passed) = {}
<1>1. TypeOK /\ PlayInv /\ PassInv /\ Active
  BY DEF IInv, InBatch, Tasking, Handling, Gating, Active
<1>2. /\ Begun >= 1 /\ batch = PB[Begun]
      /\ passed \cap ToSet(batch) = {}
  BY <1>1 DEF PlayInv, Placed, PassInv
<1>3. /\ Len(PB) \in Nat /\ Len(batches) \in Nat /\ Begun \in Nat /\ Begun + Len(batches) = Len(PB)
      /\ \A q \in 1 .. Len(PB) : ToSet(PB[q]) \subseteq ToSet(hosts)
      /\ \A p, q \in 1 .. Len(PB) : p # q => ToSet(PB[p]) \cap ToSet(PB[q]) = {}
      /\ \A x : x \in Ahead <=> \E q \in Begun + 1 .. Len(PB) : x \in ToSet(PB[q])
  BY <1>1, Parts
<1>4. Begun \in 1 .. Len(PB)
  BY <1>2, <1>3
<1>5. \A q \in Begun + 1 .. Len(PB) : q \in 1 .. Len(PB) /\ q # Begun
  BY <1>3
<1>6. ToSet(batch) \cap Ahead = {}
  BY <1>2, <1>3, <1>4, <1>5
<1> QED
  BY <1>2, <1>3, <1>4, <1>6

(* When no batch is left and none failed, every host is through.           *)
LEMMA AllThrough ==
  ASSUME IInv, step = "batch", batches = <<>>, ~failed
  PROVE  ToSet(hosts) \subseteq passed
<1>1. TypeOK /\ PlayInv /\ PassInv /\ Active
  BY DEF IInv, Active
<1>2. /\ Len(PB) \in Nat /\ Len(batches) \in Nat /\ Begun \in Nat /\ Begun + Len(batches) = Len(PB)
      /\ \A x \in ToSet(hosts) : \E q \in 1 .. Len(PB) : x \in ToSet(PB[q])
  BY <1>1, Parts
<1>3. Begun = Len(PB) /\ Begun \in Nat
  <2>1. Len(batches) = 0
    BY <1>1
  <2> QED
    BY <2>1, <1>2
<1>4. section = "main"
  BY <1>1 DEF PlayInv, Placed
<1>5. \A q \in 1 .. Len(PB) :
         q < Begun \/ (q = Begun /\ step = "batch") => ToSet(PB[q]) \subseteq passed
  BY <1>1, <1>4 DEF PassInv
<1>6. \A q \in 1 .. Begun : q < Begun \/ q = Begun
  BY <1>3
<1> QED
  BY <1>2, <1>3, <1>5, <1>6

(* Under a strategy the batch just run is through when the next is begun.  *)
LEMMA LastThrough ==
  ASSUME IInv, step = "batch", Strategic, MainBatchRan
  PROVE  ToSet(batch) \subseteq passed
<1>1. TypeOK /\ PlayInv /\ PassInv /\ Active
  BY DEF IInv, Active
<1>2. /\ Len(PB) \in Nat /\ Len(batches) \in Nat /\ Begun \in Nat /\ Begun + Len(batches) = Len(PB)
      /\ PB \in Seq(Seq(Hosts))
  BY <1>1, Parts
<1>3. section = "main" /\ \A q \in 1 .. Len(batches) : batches[q] = PB[Begun + q]
  BY <1>1 DEF PlayInv, Placed, Laid
<1>4. Begun # 0
  <2> SUFFICES ASSUME Begun = 0 PROVE batches = PB
    BY DEF MainBatchRan, PB
  <2>1. Len(batches) = Len(PB) /\ \A q \in 1 .. Len(PB) : batches[q] = PB[q]
    BY <1>2, <1>3
  <2>2. batches \in Seq(Seq(Hosts))
    BY <1>1 DEF TypeOK, BatchesOK
  <2>3. batches = [q \in 1 .. Len(batches) |-> batches[q]] /\ PB = [q \in 1 .. Len(PB) |-> PB[q]]
    BY <2>2, <1>2
  <2> QED
    BY <2>1, <2>3
<1>5. Begun \in 1 .. Len(PB) /\ batch = PB[Begun]
  BY <1>1, <1>2, <1>3, <1>4 DEF PlayInv, Placed
<1> QED
  BY <1>1, <1>3, <1>5 DEF PassInv

(* The next batch is one of those ahead.                                   *)
LEMMA AheadNext ==
  ASSUME TypeOK, batches # <<>>
  PROVE  /\ ToSet(Head(batches)) \subseteq Ahead
         /\ batches' = Tail(batches) => Ahead' \subseteq Ahead
<1>1. /\ Len(batches) \in Nat /\ Len(batches) >= 1 /\ Head(batches) = batches[1]
      /\ Len(Tail(batches)) = Len(batches) - 1
      /\ DOMAIN batches = 1 .. Len(batches) /\ DOMAIN Tail(batches) = 1 .. Len(batches) - 1
      /\ \A q \in 1 .. Len(batches) - 1 : Tail(batches)[q] = batches[q + 1]
  BY HeadTailProperties DEF TypeOK, BatchesOK
<1>2. ToSet(Head(batches)) \subseteq Ahead
  <2>1. 1 \in DOMAIN batches
    BY <1>1
  <2> QED
    BY <1>1, <2>1 DEF Ahead
<1>3. ASSUME batches' = Tail(batches) PROVE Ahead' \subseteq Ahead
  <2>1. Ahead' = UNION {ToSet(batches'[q]) : q \in 1 .. Len(batches) - 1}
    BY <1>1, <1>3 DEF Ahead
  <2>2. \A q \in 1 .. Len(batches) - 1 : q + 1 \in DOMAIN batches /\ batches'[q] = batches[q + 1]
    BY <1>1, <1>3
  <2> QED
    BY <2>1, <2>2 DEF Ahead
<1> QED
  BY <1>2, <1>3
-----------------------------------------------------------------------------
(* Who went through.                                                       *)
LEMMA PassStep == IInv /\ [Next]_vars => PassInv'
<1> SUFFICES ASSUME IInv, [Next]_vars, Active' PROVE PassInv'
  BY DEF PassInv
<1>t. TypeOK /\ PlayInv /\ FailInv /\ PassInv /\ LostInv /\ FanInv
  BY DEF IInv
<1>p. Active => /\ Len(PB) \in Nat /\ Len(batches) \in Nat /\ Begun \in Nat
                /\ Begun + Len(batches) = Len(PB)
                /\ \A q \in 1 .. Len(PB) : ToSet(PB[q]) \subseteq ToSet(hosts)
  BY <1>t, Parts
<1>g. ASSUME UNCHANGED <<plays, k, hosts, batches>>
      PROVE  /\ PB' = PB /\ Begun' = Begun /\ Ahead' = Ahead
             /\ play' = play /\ Strategic' = Strategic /\ MainBatchRan' = MainBatchRan
  BY <1>g, Stays
(* A step within a batch, after which nobody more is through.              *)
<1>r. ASSUME UNCHANGED <<plays, k, section, hosts, batches, batch, failed, passed>>, InBatch, InBatch'
      PROVE  PassInv'
  <2>1. Active /\ step' # "finish" /\ step' # "batch"
    BY <1>r DEF Active, InBatch, Tasking, Handling, Gating
  <2>2. BatchAtomic'
    BY <2>1 DEF BatchAtomic
  <2> QED
    BY <2>1, <2>2, <1>r, <1>g, <1>t DEF PassInv
(* After a batch of main tasks that failed.                                *)
<1>f. ASSUME UNCHANGED <<plays, k, section, hosts, batches, batch, passed>>, section = "main", InBatch,
             failed', Strategic, step' = IF play.rollback THEN "rollback" ELSE "finish"
      PROVE  PassInv'
  <2>1. Active /\ step' # "batch" /\ ~InBatch' /\ passed \cap ToSet(batch) = {}
    BY <1>f, <1>t DEF Active, InBatch, Tasking, Handling, Gating, PassInv
  <2>2. BatchAtomic'
    BY <1>f, <1>g DEF BatchAtomic
  <2> QED
    BY <2>1, <2>2, <1>f, <1>g, <1>t DEF PassInv
(* After a batch of main tasks that went through.                          *)
<1>d. ASSUME UNCHANGED <<plays, k, section, hosts, batches, batch>>, section = "main", InBatch,
             failed' = failed, passed' = passed \cup ToSet(batch), step' = "batch"
      PROVE  PassInv'
  <2>1. Active /\ ~InBatch'
    BY <1>d DEF Active, InBatch, Tasking, Handling, Gating
  <2>2. /\ Begun \in 1 .. Len(PB) /\ batch = PB[Begun] /\ ToSet(batch) \subseteq ToSet(hosts)
        /\ ToSet(batch) \cap (Ahead \cup passed) = {}
    BY <1>d, Apart
  <2>3. BatchAtomic'
    BY <1>d DEF BatchAtomic
  <2> QED
    BY <2>1, <2>2, <2>3, <1>d, <1>g, <1>t DEF PassInv
<1>1. CASE SelectHosts
  <2>1. step' # "end"
    BY DEF Active
  <2>2. k <= Len(plays) /\ plays \in Seq(PlayRecords) /\ k \in 1 .. Len(plays) + 1
    BY <1>1, <2>1, <1>t, PlayAssumption DEF SelectHosts, TypeOK, ControlOK
  <2>3. /\ k \in 1 .. Len(plays) /\ UNCHANGED <<plays, k>>
        /\ hosts' = FilterDead(play.hosts, dead) /\ batches' = PlayBatches(hosts')
        /\ passed' = {} /\ step' \in {"task", "batch"} /\ section' \in {"pre", "main"}
    BY <1>1, <2>1, <2>2 DEF SelectHosts, StartBatch
  <2>4. hosts' \in Seq(Hosts) /\ IsInjective(hosts')
    BY <2>3, <1>t, PlayTyped, Filtered
  <2>5. batches' \in Seq(Seq(Hosts))
    BY <2>3, <2>4, <1>t, BatchesTyped
  <2>6. play' = play
    BY <2>3, Stays
  <2>7. batches' = PB'
    BY <2>3, <2>6 DEF PB, PlayBatches
  <2>8. Len(PB') \in Nat /\ Begun' = 0
    BY <2>5, <2>7 DEF Begun
  <2>9. BatchAtomic'
    BY <2>3 DEF BatchAtomic
  <2>10. section' = "main" => step' = "batch"
    BY <1>1, <2>1 DEF SelectHosts, StartBatch
  <2> QED
    BY <2>3, <2>8, <2>9, <2>10 DEF PassInv, InBatch, Tasking, Handling, Gating
<1>2. CASE NextBatch
  <2>1. step = "batch" /\ Active /\ section = "main" /\ UNCHANGED <<plays, k, hosts, passed, bad, journal, stuck>>
    BY <1>2, <1>t DEF NextBatch, Active, PlayInv, Placed, ghosts
  <2>2. PB' = PB /\ play' = play /\ Strategic' = Strategic
    BY <2>1, Stays
  <2>s. (section = "main" /\ (Strategic \/ ~failed)) =>
           \A q \in 1 .. Len(PB) : q <= Begun => ToSet(PB[q]) \subseteq passed
    BY <2>1, <1>t, <1>p DEF PassInv
  <2>a. ASSUME UNCHANGED <<batches, batch, section>>, step' = "finish" PROVE BatchAtomic'
    <3> SUFFICES ASSUME Strategic, MainBatchRan PROVE \A h \in ToSet(batch) : h \in passed
      BY <2>1, <2>2, <2>a, <1>g DEF BatchAtomic
    <3> QED
      BY <2>1, LastThrough
  <2>3. CASE batches # <<>> /\ ~cancelled
    <3>1. /\ batches' = Tail(batches) /\ batch' = Head(batches) /\ section' = section /\ step' = "task"
          /\ failed' = failed
      BY <2>3, <1>2 DEF NextBatch, StartBatch
    <3>2. Ahead' \subseteq Ahead /\ ToSet(batch') \subseteq Ahead
      BY <2>3, <3>1, <1>t, AheadNext
    <3>3. Begun' = Begun + 1
      <4>1. Len(batches') = Len(batches) - 1
        BY <2>3, <3>1, <1>t, HeadTailProperties DEF TypeOK, BatchesOK
      <4>2. Begun' = Len(PB) - Len(batches') /\ Begun = Len(PB) - Len(batches)
        BY <2>2 DEF Begun
      <4>3. Len(PB) \in Nat /\ Len(batches) \in Nat
        BY <2>1, <1>p
      <4> QED
        BY <4>1, <4>2, <4>3
    <3>4. \A q \in 1 .. Len(PB) : q < Begun' => q <= Begun
      BY <3>3, <1>p, <2>1
    <3>5. BatchAtomic'
      BY <3>1 DEF BatchAtomic
    <3> QED
      BY <3>1, <3>2, <3>4, <3>5, <2>1, <2>2, <2>s, <1>t DEF PassInv
  <2>4. CASE batches # <<>> /\ cancelled
    <3>1. UNCHANGED <<batches, batch, section>> /\ step' = "finish" /\ failed'
      BY <2>4, <1>2 DEF NextBatch
    <3>2. BatchAtomic' /\ ~InBatch'
      BY <3>1, <2>a DEF InBatch, Tasking, Handling, Gating
    <3> QED
      BY <3>1, <3>2, <2>1, <1>g, <1>t DEF PassInv
  <2>5. CASE batches = <<>> /\ ~failed /\ play.post # <<>>
    <3>1. batches' = batches /\ section' = "post" /\ batch' = hosts /\ step' = "task"
      BY <2>5, <1>2 DEF NextBatch, StartBatch
    <3>2. ToSet(hosts) \subseteq passed
      BY <2>1, <2>5, AllThrough
    <3>3. BatchAtomic'
      BY <3>1 DEF BatchAtomic
    <3> QED
      BY <3>1, <3>2, <3>3, <2>1, <1>g, <1>t DEF PassInv
  <2>6. CASE batches = <<>> /\ (failed \/ play.post = <<>>)
    <3>1. UNCHANGED <<batches, batch, section, failed>> /\ step' = "finish"
      BY <2>6, <1>2 DEF NextBatch
    <3>2. BatchAtomic' /\ ~InBatch'
      BY <3>1, <2>a DEF InBatch, Tasking, Handling, Gating
    <3>3. ~failed => ToSet(hosts) \subseteq passed
      BY <2>1, <2>6, AllThrough
    <3>4. passed \cap bad = {}
      BY <2>1, <1>t DEF LostInv
    <3> QED
      BY <3>1, <3>2, <3>3, <3>4, <2>1, <1>g, <1>t DEF PassInv
  <2> QED
    BY <2>3, <2>4, <2>5, <2>6
<1>3. CASE NextTask
  BY <1>3, <1>r DEF NextTask, FanOut, ghosts, InBatch, Tasking, Handling
<1>4. CASE CollectTask
  BY <1>4, <1>r DEF CollectTask, InBatch, Tasking
<1>5. CASE NextHandler
  BY <1>5, <1>r DEF NextHandler, FanOut, verdict, ghosts, InBatch, Handling
<1>6. CASE CollectHandler
  BY <1>6, <1>r DEF CollectHandler, InBatch, Handling
<1>7. CASE Judge
  <2>1. /\ step = "judge" /\ Active /\ InBatch
        /\ UNCHANGED <<plays, k, hosts, batches, batch, batchFailed, bad>>
    BY <1>7 DEF Judge, Active, InBatch
  <2>2. CASE section = "pre" /\ ~batchFailed
    <3>1. section' = "main" /\ step' = "batch" /\ passed' = passed
      BY <2>2, <1>7 DEF Judge
    <3>2. batches = PB /\ Begun = 0 /\ passed = {}
      BY <2>1, <2>2, <1>t, <1>p DEF PlayInv, Placed, Begun, PassInv
    <3>3. BatchAtomic' /\ ~InBatch'
      BY <3>1 DEF BatchAtomic, InBatch, Tasking, Handling, Gating
    <3>4. ~(\E q \in 1 .. Len(PB') : q < Begun' \/ (q = Begun' /\ step' = "batch"))
      BY <3>2, <2>1, <1>g, <1>p
    <3> QED
      BY <3>1, <3>2, <3>3, <3>4, <2>1, <1>g DEF PassInv
  <2>3. CASE section \in {"pre", "post"} /\ batchFailed
    <3>1. section' = section /\ step' = "finish" /\ passed' = passed /\ failed'
      BY <2>3, <1>7 DEF Judge
    <3>2. BatchAtomic'
      BY <3>1, <2>3 DEF BatchAtomic
    <3> QED
      BY <3>1, <3>2, <2>1, <2>3, <1>g, <1>t DEF PassInv
  <2>4. CASE section = "post" /\ ~batchFailed
    <3>1. section' = section /\ step' = "finish" /\ passed' = passed
      BY <2>4, <1>7 DEF Judge
    <3>2. BatchAtomic'
      BY <3>1, <2>4 DEF BatchAtomic
    <3>3. batch = hosts /\ alive = ToSet(batch) /\ alive \cap bad = {}
      BY <2>1, <2>4, <1>t DEF PlayInv, Placed, LostInv
    <3> QED
      BY <3>1, <3>2, <3>3, <2>1, <2>4, <1>g, <1>t DEF PassInv
  <2>5. CASE section = "main" /\ ~Strategic
    <3>1. /\ section' = section /\ step' = "batch" /\ failed' = (failed \/ batchFailed)
          /\ passed' = IF batchFailed THEN passed ELSE passed \cup ToSet(batch)
      BY <2>5, <1>7 DEF Judge
    <3>2. CASE ~batchFailed
      <4>1. failed' <=> failed
        BY <3>1, <3>2
      <4>2. failed' = failed
        BY <3>1, <3>2, <1>t DEF TypeOK, FlagsOK
      <4> QED
        BY <4>2, <3>1, <3>2, <2>1, <2>5, <1>d
    <3>3. CASE batchFailed
      <4>1. failed' /\ passed' = passed /\ ~InBatch'
        BY <3>1, <3>3 DEF InBatch, Tasking, Handling, Gating
      <4>2. BatchAtomic'
        BY <3>1 DEF BatchAtomic
      <4> QED
        BY <4>1, <4>2, <3>1, <2>1, <2>5, <1>g, <1>t DEF PassInv
    <3> QED
      BY <3>2, <3>3
  <2>6. CASE section = "main" /\ Strategic /\ batchFailed
    <3>1. /\ section' = section /\ passed' = passed /\ failed'
          /\ step' = IF play.rollback THEN "rollback" ELSE "finish"
      BY <2>6, <1>7 DEF Judge, Abort
    <3> QED
      BY <3>1, <2>1, <2>6, <1>f
  <2>7. CASE section = "main" /\ Strategic /\ ~batchFailed
    <3>1. /\ section' = section /\ failed' = failed
          /\ \/ step' = "gate" /\ passed' = passed
             \/ step' = "batch" /\ passed' = passed \cup ToSet(batch)
      BY <2>7, <1>7 DEF Judge
    <3>2. step' = "gate" => InBatch'
      BY DEF InBatch, Gating
    <3> QED
      BY <3>1, <3>2, <2>1, <2>7, <1>d, <1>r
  <2> QED
    BY <2>2, <2>3, <2>4, <2>5, <2>6, <2>7, <1>7 DEF Judge
<1>8. CASE Gate
  BY <1>8, <1>r DEF Gate, FanOut, verdict, ghosts, InBatch, Gating
<1>9. CASE CollectGate
  <2>1. /\ step = "fanGate" /\ Active /\ Gating /\ InBatch
        /\ UNCHANGED <<plays, k, section, hosts, batches, batch>>
    BY <1>9 DEF CollectGate, Active, Gating, InBatch
  <2>2. section = "main" /\ Strategic
    BY <2>1, <1>t DEF PlayInv, Placed
  <2>3. \/ failed' /\ passed' = passed /\ step' = IF play.rollback THEN "rollback" ELSE "finish"
        \/ failed' = failed /\ passed' = passed \cup ToSet(batch) /\ step' = "batch"
    BY <1>9 DEF CollectGate, Abort
  <2> QED
    BY <2>1, <2>2, <2>3, <1>f, <1>d
<1>10. CASE RollbackBatch
  <2>1. /\ step = "rollback" /\ step' = "finish" /\ Active /\ failed' = failed
        /\ UNCHANGED <<plays, k, section, hosts, batches, batch, passed>>
        /\ \E broken \in SUBSET ToUndo :
             /\ journal' = [h \in Hosts |-> IF h \in ToUndo \ broken THEN 0 ELSE journal[h]]
             /\ stuck' = broken
    BY <1>10 DEF RollbackBatch, Active, verdict
  <2>2. failed /\ ~InBatch'
    BY <2>1, <1>t DEF FailInv, InBatch, Tasking, Handling, Gating
  <2>3. ToSet(batch) \subseteq Hosts
    BY <1>t, OfBatch
  <2>4. BatchAtomic'
    BY <2>1, <2>3 DEF BatchAtomic, ToUndo
  <2> QED
    BY <2>1, <2>2, <2>4, <1>g, <1>t DEF PassInv
<1>11. CASE FinishPlay
  BY <1>11 DEF FinishPlay, Active
<1>12. ASSUME NEW h \in Hosts, Start(h) PROVE PassInv'
  <2>1. step \in {"fanTask", "fanHandler", "fanGate"}
    BY <1>12, <1>t DEF Start, FanInv, Idle
  <2> QED
    BY <2>1, <1>12, <1>r DEF Start, control, verdict, ghosts, InBatch, Tasking, Handling, Gating
<1>13. ASSUME NEW h \in Hosts, Done(h) PROVE PassInv'
  <2>1. step \in {"fanTask", "fanHandler", "fanGate"}
    BY <1>13, <1>t DEF Done, FanInv, Idle
  <2> QED
    BY <2>1, <1>13, <1>r DEF Done, control, verdict, InBatch, Tasking, Handling, Gating
<1>u. ASSUME UNCHANGED <<plays, k, section, hosts, batches, batch, step, failed, passed, bad, journal, stuck>>
      PROVE  PassInv'
  <2>1. Active /\ (InBatch' <=> InBatch)
    BY <1>u DEF Active, InBatch, Tasking, Handling, Gating
  <2>2. BatchAtomic' <=> BatchAtomic
    BY <1>u, <1>g DEF BatchAtomic
  <2> QED
    BY <2>1, <2>2, <1>u, <1>g, <1>t DEF PassInv
<1>14. CASE Cancel
  BY <1>14, <1>u DEF Cancel, control, verdict, ghosts
<1>15. CASE UNCHANGED vars
  BY <1>15, <1>u DEF vars, control, verdict, ghosts
<1> QED
  BY <1>1, <1>2, <1>3, <1>4, <1>5, <1>6, <1>7, <1>8, <1>9, <1>10, <1>11, <1>12, <1>13, <1>14,
     <1>15 DEF Next, Executor, Ended
-----------------------------------------------------------------------------
(* Who is lost.                                                            *)
LEMMA LostAlive ==
  ASSUME IInv, NEW ignore
  PROVE  Lost(ignore) \subseteq alive
<1>1. \A h \in Hosts : out[h] # "none" => h \in alive
  BY DEF IInv, FanInv
<1> QED
  BY <1>1 DEF Lost

(* Nobody of a play that begins is lost yet, ahead or not.                 *)
LEMMA BegunWell ==
  ASSUME IInv, SelectHosts, step' # "end"
  PROVE  /\ ToSet(hosts') \cap dead = {}
         /\ Ahead' \subseteq ToSet(hosts')
<1>t. TypeOK
  BY DEF IInv
<1>1. k <= Len(plays) /\ plays \in Seq(PlayRecords) /\ k \in 1 .. Len(plays) + 1
  BY <1>t, PlayAssumption DEF SelectHosts, TypeOK, ControlOK
<1>2. /\ k \in 1 .. Len(plays)
      /\ hosts' = FilterDead(play.hosts, dead) /\ batches' = PlayBatches(hosts')
  BY <1>1 DEF SelectHosts
<1>3. hosts' \in Seq(Hosts) /\ IsInjective(hosts') /\ ToSet(hosts') \cap dead = {}
  BY <1>2, <1>t, PlayTyped, Filtered
<1>4. batches' \in Seq(Seq(Hosts)) /\ Ordered(batches', hosts')
  BY <1>2, <1>3, <1>t, BatchesTyped
<1>5. \A q \in 1 .. Len(batches') : ToSet(batches'[q]) \subseteq ToSet(hosts')
  BY <1>4 DEF Ordered
<1>6. DOMAIN batches' = 1 .. Len(batches')
  BY <1>4
<1> QED
  BY <1>3, <1>5, <1>6 DEF Ahead

(* A batch that failed nowhere still has all its hosts.                    *)
LEMMA Whole ==
  ASSUME IInv, InBatch, ~batchFailed
  PROVE  alive = ToSet(batch) /\ alive \cap bad = {}
<1>1. Active /\ LostInv
  BY DEF IInv, Active, InBatch, Tasking, Handling, Gating
<1> QED
  BY <1>1 DEF LostInv

LEMMA LostStep == IInv /\ [Next]_vars => LostInv'
<1> SUFFICES ASSUME IInv, [Next]_vars PROVE LostInv'
  OBVIOUS
<1>t. TypeOK /\ PlayInv /\ FailInv /\ PassInv /\ LostInv /\ FanInv
  BY DEF IInv
<1>e. bad = dead
  BY <1>t DEF LostInv
<1>r. ASSUME Active, UNCHANGED <<batches, batch, alive, bad, dead, passed>>, InBatch' => InBatch,
             section' = "main" => section = "main",
             InBatch' /\ ~batchFailed' => ~batchFailed
      PROVE  LostInv'
  BY <1>r, <1>t DEF LostInv, Ahead
(* The results of a fan-out.                                               *)
<1>c. ASSUME NEW lost \in SUBSET alive, InBatch,
             alive' = alive \ lost, dead' = dead \cup lost, bad' = bad \cup lost,
             UNCHANGED <<batches, batch, section>>,
             InBatch' /\ ~batchFailed' => ~batchFailed /\ lost = {},
             passed' = passed \/ (passed' = passed \cup ToSet(batch) /\ lost = {} /\ ~batchFailed)
      PROVE  LostInv'
  <2>1. Active /\ Ahead' = Ahead
    BY <1>c DEF Active, InBatch, Tasking, Handling, Gating, Ahead
  <2>2. alive \cap bad = {} /\ (~batchFailed => alive = ToSet(batch))
    BY <2>1, <1>c, <1>t DEF LostInv
  <2>3. section = "main" => /\ (Ahead \cup passed) \cap bad = {}
                            /\ ToSet(batch) \cap (Ahead \cup passed) = {}
    BY <2>1, <1>c, <1>t, Apart DEF LostInv
  <2>4. alive \subseteq ToSet(batch)
    BY <1>t DEF TypeOK, BatchesOK
  <2>5. section' = "main" => (Ahead' \cup passed') \cap bad' = {}
    BY <2>1, <2>2, <2>3, <2>4, <1>c
  <2> QED
    BY <2>2, <2>5, <1>c, <1>e DEF LostInv
<1>1. CASE SelectHosts
  <2>1. UNCHANGED <<dead, bad>>
    BY <1>1 DEF SelectHosts
  <2>2. CASE step' = "end"
    BY <2>1, <2>2, <1>e DEF LostInv, Active
  <2>3. CASE step' # "end"
    <3>1. ToSet(hosts') \cap dead = {} /\ Ahead' \subseteq ToSet(hosts')
      BY <1>1, <2>3, BegunWell
    <3>2. /\ passed' = {}
          /\ \/ step' = "task" /\ alive' = ToSet(hosts') /\ batch' = hosts'
             \/ step' = "batch"
      BY <1>1, <2>3 DEF SelectHosts, StartBatch
    <3> QED
      BY <3>1, <3>2, <2>1, <1>e DEF LostInv, InBatch, Tasking, Handling, Gating
  <2> QED
    BY <2>2, <2>3
<1>2. CASE NextBatch
  <2>1. step = "batch" /\ Active /\ section = "main" /\ UNCHANGED <<hosts, passed, bad, dead>>
    BY <1>2, <1>t DEF NextBatch, Active, PlayInv, Placed, ghosts
  <2>2. (Ahead \cup passed) \cap bad = {}
    BY <2>1, <1>t DEF LostInv
  <2>3. CASE batches # <<>> /\ ~cancelled
    <3>1. batches' = Tail(batches) /\ batch' = Head(batches) /\ alive' = ToSet(Head(batches))
      BY <2>3, <1>2 DEF NextBatch, StartBatch
    <3>2. Ahead' \subseteq Ahead /\ ToSet(Head(batches)) \subseteq Ahead
      BY <2>3, <3>1, <1>t, AheadNext
    <3> QED
      BY <3>1, <3>2, <2>1, <2>2, <1>e DEF LostInv
  <2>4. CASE step' = "finish"
    <3>1. batches' = batches /\ ~InBatch'
      BY <2>4, <1>2 DEF NextBatch, StartBatch, InBatch, Tasking, Handling, Gating
    <3> QED
      BY <3>1, <2>1, <2>2, <1>e DEF LostInv, Ahead
  <2>5. CASE batches = <<>> /\ ~failed /\ play.post # <<>>
    <3>1. section' = "post" /\ batch' = hosts /\ alive' = ToSet(hosts)
      BY <2>5, <1>2 DEF NextBatch, StartBatch
    <3>2. ToSet(hosts) \subseteq passed
      BY <2>1, <2>5, AllThrough
    <3> QED
      BY <3>1, <3>2, <2>1, <2>2, <1>e DEF LostInv
  <2> QED
    BY <2>3, <2>4, <2>5, <1>2 DEF NextBatch
<1>3. CASE NextTask
  <2>1. step = "task" /\ UNCHANGED <<batches, batch, alive, bad, dead, passed, section>>
        /\ (~batchFailed' => ~batchFailed)
    BY <1>3 DEF NextTask, FanOut, ghosts
  <2> QED
    BY <2>1, <1>r DEF Active, InBatch, Tasking
<1>4. CASE CollectTask
  <2>1. PICK lost : /\ lost \in {alive, Lost(Tasks[t].ignore)} /\ DropHosts(lost)
                    /\ batchFailed' = (batchFailed \/ lost # {})
    BY <1>4 DEF CollectTask
  <2>2. lost \in SUBSET alive
    BY <2>1, LostAlive
  <2>3. /\ alive' = alive \ lost /\ dead' = dead \cup lost /\ bad' = bad \cup lost
        /\ UNCHANGED <<batches, batch, section, passed>> /\ InBatch
    BY <2>1, <1>4 DEF CollectTask, DropHosts, InBatch, Tasking
  <2> QED
    BY <2>1, <2>2, <2>3, <1>c
<1>5. CASE NextHandler
  <2>1. step = "handler" /\ UNCHANGED <<batches, batch, alive, bad, dead, passed, section, batchFailed>>
    BY <1>5 DEF NextHandler, FanOut, ghosts, verdict
  <2> QED
    BY <2>1, <1>r DEF Active, InBatch, Handling
<1>6. CASE CollectHandler
  <2>1. /\ Lost(FALSE) \in SUBSET alive /\ batchFailed' = (batchFailed \/ Lost(FALSE) # {})
        /\ alive' = alive \ Lost(FALSE) /\ dead' = dead \cup Lost(FALSE) /\ bad' = bad \cup Lost(FALSE)
        /\ UNCHANGED <<batches, batch, section, passed>> /\ InBatch
    BY <1>6, LostAlive DEF CollectHandler, DropHosts, InBatch, Handling
  <2> QED
    BY <2>1, <1>c
<1>7. CASE Judge
  <2>1. /\ step = "judge" /\ Active /\ InBatch
        /\ UNCHANGED <<plays, k, hosts, batches, batch, batchFailed, bad, dead, alive>>
    BY <1>7 DEF Judge, Active, InBatch
  <2>2. CASE passed' = passed /\ (section' = "main" => section = "main")
    BY <2>1, <2>2, <1>r
  <2>3. CASE section = "main" /\ section' = section /\ ~batchFailed /\ passed' = passed \cup ToSet(batch)
    <3>1. {} \in SUBSET alive /\ alive' = alive \ {} /\ dead' = dead \cup {} /\ bad' = bad \cup {}
      BY <2>1
    <3> QED
      BY <3>1, <2>1, <2>3, <1>c
  <2>4. CASE section = "pre" /\ section' = "main" /\ ~batchFailed /\ passed' = passed
    <3>1. step' = "batch"
      BY <2>4, <1>7 DEF Judge
    <3>2. batch = hosts /\ passed = {} /\ alive = ToSet(batch) /\ alive \cap bad = {}
      BY <2>1, <2>4, <1>t, Whole DEF PlayInv, Placed, PassInv
    <3>3. Ahead \subseteq ToSet(hosts)
      <4>1. /\ \A x : x \in Ahead <=> \E q \in Begun + 1 .. Len(PB) : x \in ToSet(PB[q])
            /\ \A q \in 1 .. Len(PB) : ToSet(PB[q]) \subseteq ToSet(hosts)
            /\ Begun \in Nat /\ Len(PB) \in Nat
        BY <2>1, <1>t, Parts
      <4>2. \A q \in Begun + 1 .. Len(PB) : q \in 1 .. Len(PB)
        BY <4>1
      <4> QED
        BY <4>1, <4>2
    <3> QED
      BY <3>1, <3>2, <3>3, <2>1, <2>4, <1>e DEF LostInv, Ahead, InBatch, Tasking, Handling, Gating
  <2> QED
    BY <2>2, <2>3, <2>4, <1>7 DEF Judge, Abort
<1>8. CASE Gate
  <2>1. step = "gate" /\ UNCHANGED <<batches, batch, alive, bad, dead, passed, section, batchFailed>>
    BY <1>8 DEF Gate, FanOut, ghosts, verdict
  <2> QED
    BY <2>1, <1>r DEF Active, InBatch, Gating
<1>9. CASE CollectGate
  <2>1. /\ Lost(FALSE) \in SUBSET alive
        /\ alive' = alive \ Lost(FALSE) /\ dead' = dead \cup Lost(FALSE) /\ bad' = bad \cup Lost(FALSE)
        /\ UNCHANGED <<batches, batch, section, batchFailed>> /\ InBatch /\ Gating /\ Active
        /\ step' \in {"batch", "finish", "rollback"}
    BY <1>9, LostAlive DEF CollectGate, DropHosts, Abort, InBatch, Gating, Active
  <2>2. passed' = passed \/ (passed' = passed \cup ToSet(batch) /\ Lost(FALSE) = {})
    BY <1>9 DEF CollectGate
  <2>3. ~batchFailed /\ ~InBatch'
    BY <2>1, <1>t DEF PlayInv, Placed, InBatch, Tasking, Handling, Gating
  <2> QED
    BY <2>1, <2>2, <2>3, <1>c
<1>10. CASE RollbackBatch
  BY <1>10, <1>r DEF RollbackBatch, verdict, Active, InBatch, Tasking, Handling, Gating
<1>11. CASE FinishPlay
  BY <1>11, <1>e DEF FinishPlay, ghosts, LostInv, Active
<1>u. ASSUME UNCHANGED <<batches, batch, alive, bad, dead, passed, section, step, batchFailed>> PROVE LostInv'
  BY <1>u, <1>t DEF LostInv, Ahead, Active, InBatch, Tasking, Handling, Gating
<1>12. ASSUME NEW h \in Hosts, Start(h) PROVE LostInv'
  BY <1>12, <1>u DEF Start, control, verdict, ghosts
<1>13. ASSUME NEW h \in Hosts, Done(h) PROVE LostInv'
  BY <1>13, <1>u DEF Done, control, verdict
<1>14. CASE Cancel
  BY <1>14, <1>u DEF Cancel, control, verdict, ghosts
<1>15. CASE UNCHANGED vars
  BY <1>15, <1>u DEF vars, control, verdict, ghosts
<1> QED
  BY <1>1, <1>2, <1>3, <1>4, <1>5, <1>6, <1>7, <1>8, <1>9, <1>10, <1>11, <1>12, <1>13, <1>14,
     <1>15 DEF Next, Executor, Ended
-----------------------------------------------------------------------------
(* Notices.                                                                *)

(* What a task that ends on a host does to the notices.                    *)
LEMMA DoneNotices ==
  ASSUME IInv, NEW g \in Hosts, Done(g)
  PROVE  \E new :
           /\ step # "fanTask" => new = {}
           /\ \A h \in Hosts : notified'[h] = IF h = g THEN notified[h] \cup new ELSE notified[h]
           /\ \A h \in Hosts : stale'[h] =
                IF h # g THEN stale[h]
                ELSE IF step = "fanHandler" THEN stale[h] \ {play.handlers[t]} ELSE stale[h] \cup new
<1>1. PICK r : /\ notified' = [notified EXCEPT ![g] = @ \cup Notifies(r)]
               /\ stale' = [stale EXCEPT ![g] =
                    IF step = "fanHandler" THEN @ \ {play.handlers[t]} ELSE @ \cup Notifies(r)]
  BY DEF Done
<1>2. NoticesOK
  BY DEF IInv, TypeOK
<1>3. step # "fanTask" => Notifies(r) = {}
  BY DEF Notifies
<1>4. \A h \in Hosts : notified'[h] = IF h = g THEN notified[h] \cup Notifies(r) ELSE notified[h]
  BY <1>1, <1>2 DEF NoticesOK
<1>5. \A h \in Hosts : stale'[h] =
         IF h # g THEN stale[h]
         ELSE IF step = "fanHandler" THEN stale[h] \ {play.handlers[t]} ELSE stale[h] \cup Notifies(r)
  BY <1>1, <1>2 DEF NoticesOK
<1> QED
  BY <1>3, <1>4, <1>5

(* A worker only runs in a fan-out, on a host that is alive.               *)
LEMMA Working ==
  ASSUME IInv, NEW g \in Hosts, fan[g] \in {"todo", "busy"}
  PROVE  /\ step \in {"fanTask", "fanHandler", "fanGate"} /\ Active /\ InBatch
         /\ g \in alive /\ g \in ToSet(batch)
<1>1. FanInv /\ BatchesOK
  BY DEF IInv, TypeOK
<1>2. step \in {"fanTask", "fanHandler", "fanGate"} /\ g \in alive
  BY <1>1 DEF FanInv, Idle
<1> QED
  BY <1>1, <1>2 DEF BatchesOK, Active, InBatch, Tasking, Handling, Gating

LEMMA AliveHosts == IInv /\ [Next]_vars => alive' \subseteq Hosts
<1> SUFFICES ASSUME IInv, [Next]_vars PROVE alive' \subseteq Hosts
  OBVIOUS
<1>1. batch' \in Seq(Hosts) /\ alive' \subseteq ToSet(batch')
  BY BatchesStep DEF BatchesOK
<1>2. \A b \in Seq(Hosts) : ToSet(b) \subseteq Hosts
  BY MemberOfSeq
<1> QED
  BY <1>1, <1>2

LEMMA InformedStep == IInv /\ [Next]_vars /\ Active' => Informed'
<1> SUFFICES ASSUME IInv, [Next]_vars, Active', Tasking' \/ Handling'
             PROVE  \A h \in alive' : stale'[h] \cap H' \subseteq notified'[h]
  BY DEF Informed
<1>t. TypeOK /\ PlayInv /\ (Active => Informed /\ Settled)
  BY DEF IInv, HandlerInv
<1>a. alive \subseteq Hosts /\ alive' \subseteq Hosts
  BY <1>t, OfBatch, AliveHosts
<1>h. UNCHANGED <<plays, k>> => H' = H
  BY Stays
<1>n. step' \in {"task", "fanTask", "handler", "fanHandler"}
  BY DEF Tasking, Handling
<1>1. CASE SelectHosts
  <2>1. stale' = [h \in Hosts |-> {}]
    BY <1>1, <1>n DEF SelectHosts, StartBatch
  <2> QED
    BY <2>1, <1>a
<1>2. CASE NextBatch
  <2>1. step = "batch" /\ Active /\ section = "main" /\ UNCHANGED <<plays, k, stale>>
    BY <1>2, <1>t DEF NextBatch, Active, PlayInv, Placed, ghosts
  <2>2. \A h \in Ahead \cup passed : stale[h] \cap H = {}
    BY <2>1, <1>t DEF Settled
  <2>3. \/ batches # <<>> /\ alive' = ToSet(Head(batches))
        \/ batches = <<>> /\ ~failed /\ alive' = ToSet(hosts)
    BY <1>2, <1>n DEF NextBatch, StartBatch
  <2>4. alive' \subseteq Ahead \cup passed
    BY <2>1, <2>3, <1>t, AheadNext, AllThrough
  <2> QED
    BY <2>1, <2>2, <2>4, <1>h
<1>r. ASSUME UNCHANGED <<plays, k, stale, notified>>, Tasking \/ Handling, alive' \subseteq alive
      PROVE  \A h \in alive' : stale'[h] \cap H' \subseteq notified'[h]
  <2>1. Active
    BY <1>r DEF Tasking, Handling, Active
  <2> QED
    BY <2>1, <1>r, <1>t, <1>h DEF Informed
<1>3. CASE NextTask
  BY <1>3, <1>r DEF NextTask, ghosts, Tasking
<1>4. CASE CollectTask
  <2>1. /\ step = "fanTask" /\ UNCHANGED <<plays, k, stale>> /\ alive' \subseteq alive
        /\ \A h \in alive : notified[h] \subseteq notified'[h]
    <3>1. step = "fanTask" /\ UNCHANGED <<plays, k, stale>> /\ \E lost : alive' = alive \ lost
      BY <1>4 DEF CollectTask, DropHosts
    <3>2. \/ notified' = notified
          \/ notified' = [h \in Hosts |-> IF h \in alive THEN notified[h] \cup Tasks[t].notify ELSE notified[h]]
      BY <1>4 DEF CollectTask
    <3> QED
      BY <3>1, <3>2, <1>a
  <2> QED
    BY <2>1, <1>h, <1>t DEF Informed, Active, Tasking
<1>5. CASE NextHandler
  BY <1>5, <1>r DEF NextHandler, ghosts, Handling
<1>6. CASE CollectHandler
  <2>1. step = "fanHandler" /\ UNCHANGED <<plays, k, stale, notified>> /\ alive' = alive \ Lost(FALSE)
    BY <1>6 DEF CollectHandler, DropHosts
  <2> QED
    BY <2>1, <1>r DEF Handling
<1>7. CASE Judge
  BY <1>7, <1>n DEF Judge, Abort
<1>8. CASE Gate
  BY <1>8, <1>n DEF Gate, FanOut
<1>9. CASE CollectGate
  BY <1>9, <1>n DEF CollectGate, Abort
<1>10. CASE RollbackBatch
  BY <1>10, <1>n DEF RollbackBatch
<1>11. CASE FinishPlay
  BY <1>11, <1>n DEF FinishPlay
<1>w. UNCHANGED step => Tasking \/ Handling
  BY <1>n DEF Tasking, Handling
<1>12. ASSUME NEW g \in Hosts, Start(g) PROVE \A h \in alive' : stale'[h] \cap H' \subseteq notified'[h]
  BY <1>12, <1>r, <1>w DEF Start, control, ghosts
<1>13. ASSUME NEW g \in Hosts, Done(g) PROVE \A h \in alive' : stale'[h] \cap H' \subseteq notified'[h]
  <2>1. UNCHANGED <<plays, k, alive, step>>
    BY <1>13 DEF Done, control
  <2>2. \A h \in alive : stale[h] \cap H \subseteq notified[h]
    BY <2>1, <1>w, <1>t DEF Informed, Active, Tasking, Handling
  <2>3. PICK new :
           /\ \A h \in Hosts : notified'[h] = IF h = g THEN notified[h] \cup new ELSE notified[h]
           /\ \A h \in Hosts : stale'[h] =
                IF h # g THEN stale[h]
                ELSE IF step = "fanHandler" THEN stale[h] \ {play.handlers[t]} ELSE stale[h] \cup new
    BY <1>13, DoneNotices
  <2>4. \A h \in Hosts : notified[h] \subseteq notified'[h] /\ stale'[h] \subseteq stale[h] \cup notified'[h]
    BY <2>3
  <2> QED
    BY <2>1, <2>2, <2>4, <1>a, <1>h
<1>14. CASE Cancel
  BY <1>14, <1>r, <1>w DEF Cancel, control, ghosts
<1>15. CASE UNCHANGED vars
  BY <1>15, <1>r, <1>w DEF vars, control, ghosts
<1> QED
  BY <1>1, <1>2, <1>3, <1>4, <1>5, <1>6, <1>7, <1>8, <1>9, <1>10, <1>11, <1>12, <1>13, <1>14,
     <1>15 DEF Next, Executor, Ended

LEMMA AnsweredStep == IInv /\ [Next]_vars /\ Active' => Answered'
<1> SUFFICES ASSUME IInv, [Next]_vars, Active', Handling' PROVE Answered'
  BY DEF Answered, Handling
<1>t. TypeOK /\ PlayInv /\ FanInv /\ (Active => Informed /\ Answered)
  BY DEF IInv, HandlerInv
<1>a. alive \subseteq Hosts /\ alive' \subseteq Hosts
  BY <1>t, OfBatch, AliveHosts
<1>h. UNCHANGED <<plays, k>> => play' = play /\ H' = H
  BY Stays
<1>n. step' \in {"handler", "fanHandler"}
  BY DEF Handling
<1>w. Active => play.handlers \in Seq(HandlerNames)
  BY <1>t, PlayTyped DEF PlayInv, Laid
<1>1. CASE SelectHosts
  BY <1>1, <1>n DEF SelectHosts, StartBatch
<1>2. CASE NextBatch
  BY <1>2, <1>n DEF NextBatch, StartBatch
<1>3. CASE NextTask
  <2>1. step' = "handler" /\ t' = 1
    BY <1>3, <1>n DEF NextTask, FanOut
  <2> QED
    BY <2>1 DEF Answered
<1>4. CASE CollectTask
  BY <1>4, <1>n DEF CollectTask
<1>5. CASE NextHandler
  <2>1. /\ step = "handler" /\ step' = "fanHandler" /\ t <= Len(play.handlers)
        /\ UNCHANGED <<plays, k, t, alive, notified, stale>>
        /\ fan' = [h \in Hosts |-> IF h \in Notified(play.handlers[t]) THEN "todo" ELSE "none"]
    BY <1>5, <1>n DEF NextHandler, FanOut, ghosts
  <2>2. play' = play /\ t \in 1 .. Len(play.handlers)
    <3>1. t \in 1 .. Len(play.handlers) + 1 /\ play.handlers \in Seq(HandlerNames) /\ play' = play
      BY <2>1, <1>t, <1>w, <1>h DEF FanInv, Active
    <3> QED
      BY <3>1, <2>1
  <2>3. play.handlers[t] \in H
    BY <2>2, <2>1, <1>w, MemberOfSeq DEF H, Active
  <2>4. /\ \A h \in alive : stale[h] \cap H \subseteq notified[h]
        /\ \A h \in alive : \A j \in 1 .. t - 1 : play.handlers[j] \notin stale[h]
    BY <2>1, <1>t DEF Informed, Answered, Handling, Active
  <2>5. \A h \in alive : fan'[h] \in {"none", "done"} => play.handlers[t] \notin stale[h]
    BY <2>1, <2>3, <2>4, <1>a DEF Notified
  <2>6. \A h \in Hosts : fan'[h] # "none" => play.handlers[t] \in notified[h]
    BY <2>1 DEF Notified
  <2> QED
    BY <2>1, <2>2, <2>4, <2>5, <2>6 DEF Answered
<1>6. CASE CollectHandler
  <2>1. /\ step = "fanHandler" /\ step' = "handler" /\ t' = t + 1
        /\ UNCHANGED <<plays, k, notified, stale>> /\ alive' = alive \ Lost(FALSE) /\ FanEnds
    BY <1>6 DEF CollectHandler, DropHosts
  <2>2. /\ play' = play
        /\ \A h \in alive : \A j \in 1 .. t - 1 : play.handlers[j] \notin stale[h]
        /\ \A h \in alive : play.handlers[t] \notin stale[h]
    BY <2>1, <1>h, <1>a, <1>t DEF Answered, Handling, Active, FanEnds
  <2>3. \A j \in 1 .. t' - 1 : j \in 1 .. t - 1 \/ j = t
    BY <2>1, <1>t DEF TypeOK, ControlOK
  <2> QED
    BY <2>1, <2>2, <2>3 DEF Answered
<1>7. CASE Judge
  BY <1>7, <1>n DEF Judge, Abort
<1>8. CASE Gate
  BY <1>8, <1>n DEF Gate, FanOut
<1>9. CASE CollectGate
  BY <1>9, <1>n DEF CollectGate, Abort
<1>10. CASE RollbackBatch
  BY <1>10, <1>n DEF RollbackBatch
<1>11. CASE FinishPlay
  BY <1>11, <1>n DEF FinishPlay
<1>r. ASSUME UNCHANGED <<plays, k, t, alive, step, notified>>,
             \A h \in alive : stale'[h] \subseteq stale[h],
             \A h \in Hosts : fan'[h] # "none" => fan[h] # "none",
             \A h \in alive : step = "fanHandler" /\ fan'[h] \in {"none", "done"} =>
                                fan[h] \in {"none", "done"} \/ play.handlers[t] \notin stale'[h]
      PROVE  Answered'
  <2>1. Handling /\ play' = play /\ Answered
    BY <1>r, <1>n, <1>h, <1>t DEF Handling, Active
  <2>2. \A h \in alive' : \A j \in 1 .. t' - 1 : play'.handlers[j] \notin stale'[h]
    BY <2>1, <1>r DEF Answered
  <2>3. ASSUME step = "fanHandler", NEW h \in alive, fan'[h] \in {"none", "done"}
        PROVE  play.handlers[t] \notin stale'[h]
    BY <2>1, <2>3, <1>r DEF Answered
  <2>4. ASSUME step = "fanHandler", NEW h \in Hosts, fan'[h] # "none"
        PROVE  play.handlers[t] \in notified'[h]
    BY <2>1, <2>4, <1>r DEF Answered
  <2> QED
    BY <2>1, <2>2, <2>3, <2>4, <1>r DEF Answered
<1>12. ASSUME NEW g \in Hosts, Start(g) PROVE Answered'
  <2>1. UNCHANGED <<plays, k, t, alive, step, notified, stale>> /\ fan[g] = "todo"
        /\ fan' = [fan EXCEPT ![g] = "busy"]
    BY <1>12 DEF Start, control, ghosts
  <2>2. fan \in [Hosts -> {"none", "todo", "busy", "done"}]
    BY <1>t DEF TypeOK, WorkersOK
  <2>3. \A h \in Hosts : fan'[h] = IF h = g THEN "busy" ELSE fan[h]
    BY <2>1, <2>2
  <2> QED
    BY <2>1, <2>3, <1>a, <1>r
<1>13. ASSUME NEW g \in Hosts, Done(g) PROVE Answered'
  <2>1. UNCHANGED <<plays, k, t, alive, step>> /\ fan[g] = "busy" /\ fan' = [fan EXCEPT ![g] = "done"]
    BY <1>13 DEF Done, control
  <2>2. fan \in [Hosts -> {"none", "todo", "busy", "done"}] /\ notified \in [Hosts -> SUBSET HandlerNames]
    BY <1>t DEF TypeOK, WorkersOK, NoticesOK
  <2>3. \A h \in Hosts : fan'[h] = IF h = g THEN "done" ELSE fan[h]
    BY <2>1, <2>2
  <2>4. step = "fanHandler"
    BY <2>1, <1>n, <1>13, Working DEF Done
  <2>5. /\ \A h \in Hosts : notified'[h] = notified[h]
        /\ \A h \in Hosts : stale'[h] = IF h # g THEN stale[h] ELSE stale[h] \ {play.handlers[t]}
    BY <2>4, <1>13, DoneNotices
  <2>6. notified' = notified
    <3>1. notified' \in [Hosts -> SUBSET HandlerNames]
      BY NoticesStep DEF NoticesOK
    <3> QED
      BY <3>1, <2>2, <2>5
  <2> QED
    BY <2>1, <2>3, <2>5, <2>6, <1>a, <1>r
<1>14. CASE Cancel
  BY <1>14, <1>r DEF Cancel, control, ghosts
<1>15. CASE UNCHANGED vars
  BY <1>15, <1>r DEF vars, control, ghosts
<1> QED
  BY <1>1, <1>2, <1>3, <1>4, <1>5, <1>6, <1>7, <1>8, <1>9, <1>10, <1>11, <1>12, <1>13, <1>14,
     <1>15 DEF Next, Executor, Ended
LEMMA SettledStep == IInv /\ [Next]_vars /\ Active' => Settled'
<1> SUFFICES ASSUME IInv, [Next]_vars, Active' PROVE Settled'
  OBVIOUS
<1>t. TypeOK /\ PlayInv /\ FailInv /\ PassInv /\ FanInv /\ (Active => Informed /\ Answered /\ Settled)
  BY DEF IInv, HandlerInv
<1>a. alive \subseteq Hosts /\ alive' \subseteq Hosts
  BY <1>t, OfBatch, AliveHosts
<1>h. UNCHANGED <<plays, k>> => play' = play /\ H' = H
  BY Stays
<1>m. Active /\ section = "main" => \A h \in Ahead \cup passed : stale[h] \cap H = {}
  BY <1>t DEF Settled
(* A step that leaves the play and its notices alone.                      *)
<1>r. ASSUME Active, UNCHANGED <<plays, k, section, batches, passed, stale>>, step' # "finish",
             (step' = "judge" \/ Gating') /\ ~batchFailed' => \A h \in alive' : stale[h] \cap H = {}
      PROVE  Settled'
  BY <1>r, <1>h, <1>m DEF Settled, Ahead
<1>1. CASE SelectHosts
  <2>1. /\ stale' = [h \in Hosts |-> {}] /\ passed' = {} /\ step' \in {"task", "batch"} /\ step' # "end"
    BY <1>1 DEF SelectHosts, StartBatch, Active
  <2>2. Ahead' \subseteq ToSet(hosts')
    BY <1>1, <2>1, BegunWell
  <2>3. hosts' \in Seq(Hosts)
    BY BatchesStep DEF BatchesOK
  <2>4. \A b \in Seq(Hosts) : ToSet(b) \subseteq Hosts
    BY MemberOfSeq
  <2> QED
    BY <2>1, <2>2, <2>3, <2>4 DEF Settled, Gating
<1>2. CASE NextBatch
  <2>1. step = "batch" /\ Active /\ section = "main" /\ UNCHANGED <<plays, k, stale, passed>>
    BY <1>2, <1>t DEF NextBatch, Active, PlayInv, Placed, ghosts
  <2>2. step' \in {"task", "finish"} /\ (batches' = batches \/ (batches # <<>> /\ batches' = Tail(batches)))
    BY <1>2 DEF NextBatch, StartBatch
  <2>3. Ahead' \subseteq Ahead
    BY <2>2, <1>t, AheadNext DEF Ahead
  <2> QED
    BY <2>1, <2>2, <2>3, <1>h, <1>m DEF Settled, Gating
<1>3. CASE NextTask
  <2>1. /\ step = "task" /\ UNCHANGED <<plays, k, section, batches, passed, stale>>
        /\ step' \in {"judge", "fanTask", "handler"} /\ (step' = "judge" => batchFailed')
    BY <1>3 DEF NextTask, FanOut, ghosts
  <2> QED
    BY <2>1, <1>r DEF Active, Gating
<1>4. CASE CollectTask
  <2>1. /\ step = "fanTask" /\ UNCHANGED <<plays, k, section, batches, passed, stale>>
        /\ step' \in {"judge", "task"} /\ (step' = "judge" => alive' = {})
    BY <1>4 DEF CollectTask
  <2> QED
    BY <2>1, <1>r DEF Active, Gating
<1>5. CASE NextHandler
  <2>1. /\ step = "handler" /\ UNCHANGED <<plays, k, section, batches, passed, stale, alive>>
        /\ step' \in {"judge", "fanHandler"} /\ (step' = "judge" => ~(t <= Len(play.handlers)))
    BY <1>5 DEF NextHandler, FanOut, ghosts
  <2>2. ASSUME step' = "judge" PROVE \A h \in alive : stale[h] \cap H = {}
    <3>1. t \in Nat /\ play.handlers \in Seq(HandlerNames)
      BY <2>1, <1>t, PlayTyped DEF TypeOK, ControlOK, PlayInv, Laid, Active
    <3>2. \A x : x \in H <=> \E l \in 1 .. Len(play.handlers) : x = play.handlers[l]
      BY <3>1, MemberOfSeq DEF H
    <3>3. \A l \in 1 .. Len(play.handlers) : l \in 1 .. t - 1
      BY <2>1, <2>2, <3>1
    <3>4. \A h \in alive : \A j \in 1 .. t - 1 : play.handlers[j] \notin stale[h]
      BY <2>1, <1>t DEF Answered, Handling, Active
    <3> QED
      BY <3>2, <3>3, <3>4
  <2> QED
    BY <2>1, <2>2, <1>r DEF Active, Gating
<1>6. CASE CollectHandler
  BY <1>6, <1>r DEF CollectHandler, Active, Gating
<1>7. CASE Judge
  <2>1. /\ step = "judge" /\ Active /\ InBatch
        /\ UNCHANGED <<plays, k, hosts, batches, batch, batchFailed, alive, stale>>
    BY <1>7 DEF Judge, Active, InBatch
  <2>2. ~batchFailed => (\A h \in ToSet(batch) : stale[h] \cap H = {}) /\ alive = ToSet(batch)
    BY <2>1, <1>t, Whole DEF Settled
  <2>3. CASE section = "pre" /\ ~batchFailed
    <3>1. section' = "main" /\ step' = "batch" /\ passed' = passed
      BY <2>3, <1>7 DEF Judge
    <3>2. batch = hosts /\ passed = {}
      BY <2>1, <2>3, <1>t DEF PlayInv, Placed, PassInv
    <3>3. Ahead \subseteq ToSet(hosts)
      <4>1. /\ \A x : x \in Ahead <=> \E q \in Begun + 1 .. Len(PB) : x \in ToSet(PB[q])
            /\ \A q \in 1 .. Len(PB) : ToSet(PB[q]) \subseteq ToSet(hosts)
            /\ Begun \in Nat /\ Len(PB) \in Nat
        BY <2>1, <1>t, Parts
      <4>2. \A q \in Begun + 1 .. Len(PB) : q \in 1 .. Len(PB)
        BY <4>1
      <4> QED
        BY <4>1, <4>2
    <3> QED
      BY <3>1, <3>2, <3>3, <2>1, <2>2, <2>3, <1>h DEF Settled, Ahead, Gating
  <2>4. CASE section \in {"pre", "post"} /\ batchFailed
    <3>1. section' = section /\ section' # "main" /\ step' = "finish" /\ failed'
      BY <2>4, <1>7 DEF Judge
    <3> QED
      BY <3>1 DEF Settled, Gating
  <2>5. CASE section = "post" /\ ~batchFailed
    <3>1. section' = section /\ step' = "finish" /\ passed' = passed
      BY <2>5, <1>7 DEF Judge
    <3>2. batch = hosts /\ passed \subseteq ToSet(hosts)
      BY <2>1, <2>5, <1>t DEF PlayInv, Placed, PassInv
    <3> QED
      BY <3>1, <3>2, <2>1, <2>2, <2>5, <1>h DEF Settled, Gating
  <2>6. CASE section = "main"
    <3>1. /\ section' = section /\ step' \in {"batch", "rollback", "finish", "gate"}
          /\ step' = "finish" => failed'
          /\ step' = "gate" => ~batchFailed
          /\ passed' = passed \/ (~batchFailed /\ passed' = passed \cup ToSet(batch))
      BY <2>6, <1>7 DEF Judge, Abort
    <3> QED
      BY <3>1, <2>1, <2>2, <2>6, <1>h, <1>m DEF Settled, Ahead
  <2> QED
    BY <2>3, <2>4, <2>5, <2>6, <1>7 DEF Judge
<1>8. CASE Gate
  <2>1. /\ step = "gate" /\ step' = "fanGate" /\ Active /\ Gating
        /\ UNCHANGED <<plays, k, section, batches, passed, stale, alive, batchFailed>>
    BY <1>8 DEF Gate, FanOut, ghosts, verdict, Active, Gating
  <2> QED
    BY <2>1, <1>r, <1>t DEF Settled
<1>9. CASE CollectGate
  <2>1. /\ step = "fanGate" /\ step' \in {"batch", "finish", "rollback"} /\ Active /\ Gating /\ InBatch
        /\ UNCHANGED <<plays, k, section, batches, batch, stale, batchFailed>>
        /\ step' = "finish" => failed'
        /\ passed' \subseteq passed \cup ToSet(batch)
    BY <1>9 DEF CollectGate, Abort, Active, Gating, InBatch
  <2>2. section = "main" /\ ~batchFailed
    BY <2>1, <1>t DEF PlayInv, Placed
  <2>3. \A h \in ToSet(batch) : stale[h] \cap H = {}
    BY <2>1, <2>2, <1>t, Whole DEF Settled
  <2> QED
    BY <2>1, <2>2, <2>3, <1>h, <1>m DEF Settled, Ahead, Gating
<1>10. CASE RollbackBatch
  <2>1. /\ step = "rollback" /\ step' = "finish" /\ Active
        /\ UNCHANGED <<plays, k, section, batches, passed, stale, failed>>
    BY <1>10 DEF RollbackBatch, verdict, Active
  <2>2. failed
    BY <2>1, <1>t DEF FailInv
  <2> QED
    BY <2>1, <2>2, <1>h, <1>m DEF Settled, Ahead, Gating
<1>11. CASE FinishPlay
  BY <1>11 DEF FinishPlay, Active
<1>u. ASSUME UNCHANGED <<plays, k, section, batches, passed, stale, step, alive, batchFailed, failed>>
      PROVE  Settled'
  <2>1. Active /\ Settled
    BY <1>u, <1>t DEF Active
  <2> QED
    BY <2>1, <1>u, <1>h DEF Settled, Ahead, Gating
<1>12. ASSUME NEW g \in Hosts, Start(g) PROVE Settled'
  BY <1>12, <1>u DEF Start, control, ghosts, verdict
<1>13. ASSUME NEW g \in Hosts, Done(g) PROVE Settled'
  <2>1. UNCHANGED <<plays, k, section, batches, passed, step, alive, batchFailed, failed>>
    BY <1>13 DEF Done, control, verdict
  <2>2. fan[g] = "busy"
    BY <1>13 DEF Done
  <2>3. step \in {"fanTask", "fanHandler", "fanGate"} /\ Active /\ InBatch /\ g \in ToSet(batch)
    BY <2>2, Working
  <2>4. PICK new :
           /\ step # "fanTask" => new = {}
           /\ \A h \in Hosts : stale'[h] =
                IF h # g THEN stale[h]
                ELSE IF step = "fanHandler" THEN stale[h] \ {play.handlers[t]} ELSE stale[h] \cup new
    BY <1>13, DoneNotices
  <2>5. ASSUME section = "main", NEW h \in Ahead \cup passed PROVE stale'[h] \cap H' = {}
    <3>1. h # g
      BY <2>3, <2>5, Apart
    <3>2. h \in Hosts
      <4>1. ToSet(hosts) \subseteq Hosts /\ passed \subseteq ToSet(hosts)
        BY <1>t, <2>3, OfBatch DEF PassInv
      <4>2. /\ \A x : x \in Ahead <=> \E q \in Begun + 1 .. Len(PB) : x \in ToSet(PB[q])
            /\ \A q \in 1 .. Len(PB) : ToSet(PB[q]) \subseteq ToSet(hosts)
            /\ Begun \in Nat /\ Len(PB) \in Nat
        BY <2>3, <1>t, Parts
      <4>3. \A q \in Begun + 1 .. Len(PB) : q \in 1 .. Len(PB)
        BY <4>2
      <4> QED
        BY <4>1, <4>2, <4>3
    <3> QED
      BY <3>1, <3>2, <2>1, <2>3, <2>4, <2>5, <1>h, <1>m
  <2>6. ASSUME Gating, ~batchFailed, NEW h \in alive PROVE stale'[h] \cap H' = {}
    <3>1. step = "fanGate"
      BY <2>3, <2>6 DEF Gating
    <3>2. stale[h] \cap H = {} /\ h \in Hosts
      BY <2>3, <2>6, <1>t, <1>a DEF Settled
    <3>3. stale'[h] = stale[h]
      BY <3>1, <3>2, <2>4
    <3> QED
      BY <3>2, <3>3, <2>1, <1>h
  <2>7. (Gating' <=> Gating) /\ Ahead' = Ahead
    BY <2>1 DEF Gating, Ahead
  <2> QED
    BY <2>1, <2>3, <2>5, <2>6, <2>7 DEF Settled
<1>14. CASE Cancel
  BY <1>14, <1>u DEF Cancel, control, ghosts, verdict
<1>15. CASE UNCHANGED vars
  BY <1>15, <1>u DEF vars, control, ghosts, verdict
<1> QED
  BY <1>1, <1>2, <1>3, <1>4, <1>5, <1>6, <1>7, <1>8, <1>9, <1>10, <1>11, <1>12, <1>13, <1>14,
     <1>15 DEF Next, Executor, Ended

LEMMA AskedStep == IInv /\ [Next]_vars /\ Active' => Asked'
<1> SUFFICES ASSUME IInv, [Next]_vars, Active', Tasking' \/ Handling' PROVE Asked'
  BY DEF Asked
<1>t. TypeOK /\ PlayInv /\ FanInv /\ (Active => Asked)
  BY DEF IInv, HandlerInv
<1>h. UNCHANGED <<plays, k>> => play' = play /\ H' = H
  BY Stays
<1>o. UNCHANGED <<plays, k, section>> => OnceNotifies' = OnceNotifies
  BY Stays
<1>n. step' \in {"task", "fanTask", "handler", "fanHandler"}
  BY DEF Tasking, Handling
<1>z. notified' = [h \in Hosts |-> {}] => Asked'
  BY DEF Asked
<1>1. CASE SelectHosts
  <2>1. notified' = [h \in Hosts |-> {}]
    BY <1>1, <1>n DEF SelectHosts, StartBatch
  <2> QED
    BY <2>1, <1>z
<1>2. CASE NextBatch
  <2>1. notified' = [h \in Hosts |-> {}]
    BY <1>2, <1>n DEF NextBatch, StartBatch
  <2> QED
    BY <2>1, <1>z
<1>3. CASE NextTask
  <2>1. step = "task" /\ Active /\ Tasking /\ UNCHANGED <<plays, k, section, stale, notified>>
    BY <1>3 DEF NextTask, ghosts, Active, Tasking
  <2>2. \A h \in Hosts : notified'[h] \subseteq stale'[h] \cup OnceNotifies'
    BY <2>1, <1>t, <1>o DEF Asked
  <2> QED
    BY <2>2 DEF Asked
<1>4. CASE CollectTask
  <2>1. step = "fanTask" /\ Active /\ Tasking /\ UNCHANGED <<plays, k, section, stale>>
    BY <1>4 DEF CollectTask, Active, Tasking
  <2>2. \/ notified' = notified
        \/ /\ Tasks[t].once
           /\ notified' = [h \in Hosts |-> IF h \in alive THEN notified[h] \cup Tasks[t].notify ELSE notified[h]]
    BY <1>4 DEF CollectTask
  <2>3. t \in DOMAIN Tasks
    BY <2>1, <1>t, PlayTyped DEF FanInv, PlayInv, Laid
  <2>4. Tasks[t].once => Tasks[t].notify \subseteq OnceNotifies
    BY <2>3 DEF OnceNotifies
  <2>5. \A h \in Hosts : notified[h] \subseteq stale[h] \cup OnceNotifies
    BY <2>1, <1>t DEF Asked
  <2>6. \A h \in Hosts : notified'[h] \subseteq notified[h] \cup OnceNotifies
    BY <2>2, <2>4
  <2>7. \A h \in Hosts : notified'[h] \subseteq stale'[h] \cup OnceNotifies'
    BY <2>1, <2>5, <2>6, <1>o
  <2> QED
    BY <2>7 DEF Asked
(* Steps of the handlers: a handler that is over is among the earlier ones. *)
<1>r. ASSUME UNCHANGED <<plays, k, section, notified>>, Handling, Handling',
             \A h \in Hosts : \A x \in stale[h] :
               x \in stale'[h] \/ (fan'[h] = "done" /\ x = play.handlers[t] /\ t' = t),
             t' = t \/ (t' = t + 1 /\ t \in Nat \ {0}),
             \A h \in Hosts : fan[h] = "done" => t' = t + 1 \/ step = "handler" \/ fan'[h] = "done"
      PROVE  Asked'
  <2>1. Active /\ Asked /\ play' = play /\ OnceNotifies' = OnceNotifies /\ ~Tasking'
    BY <1>r, <1>t, <1>h, <1>o DEF Handling, Tasking, Active
  <2>2. ASSUME NEW h \in Hosts, NEW x \in notified[h]
        PROVE  \/ x \in stale'[h] \cup OnceNotifies
               \/ \E j \in 1 .. t' - 1 : play.handlers[j] = x
               \/ fan'[h] = "done" /\ play.handlers[t'] = x
    <3>1. CASE x \in stale[h] \cup OnceNotifies
      BY <3>1, <1>r
    <3>2. CASE \E j \in 1 .. t - 1 : play.handlers[j] = x
      <4>1. \A j \in 1 .. t - 1 : j \in 1 .. t' - 1
        BY <1>r, <1>t DEF TypeOK, ControlOK
      <4> QED
        BY <3>2, <4>1
    <3>3. CASE fan[h] = "done" /\ play.handlers[t] = x
      <4>1. step # "handler"
        BY <3>3, <1>t DEF FanInv, Idle
      <4>2. CASE t' = t
        <5>1. t' # t + 1
          BY <4>2, <1>t DEF TypeOK, ControlOK
        <5> QED
          BY <5>1, <4>1, <4>2, <3>3, <1>r
      <4>3. CASE t' = t + 1 /\ t \in Nat \ {0}
        <5>1. t \in 1 .. t' - 1
          BY <4>3
        <5> QED
          BY <5>1, <3>3
      <4> QED
        BY <4>2, <4>3, <1>r
    <3>4. \/ x \in stale[h] \cup OnceNotifies
          \/ \E j \in 1 .. t - 1 : play.handlers[j] = x
          \/ fan[h] = "done" /\ play.handlers[t] = x
      BY <2>1, <1>r DEF Asked
    <3> QED
      BY <3>1, <3>2, <3>3, <3>4
  <2> QED
    BY <2>1, <2>2, <1>r DEF Asked
<1>5. CASE NextHandler
  <2>1. /\ step = "handler" /\ step' = "fanHandler" /\ UNCHANGED <<plays, k, section, notified, stale, t>>
    BY <1>5, <1>n DEF NextHandler, FanOut, ghosts
  <2> QED
    BY <2>1, <1>r DEF Handling
<1>6. CASE CollectHandler
  <2>1. /\ step = "fanHandler" /\ step' = "handler" /\ UNCHANGED <<plays, k, section, notified, stale>>
        /\ t' = t + 1
    BY <1>6 DEF CollectHandler
  <2>2. t \in Nat \ {0}
    BY <1>t DEF TypeOK, ControlOK
  <2> QED
    BY <2>1, <2>2, <1>r DEF Handling
<1>7. CASE Judge
  BY <1>7, <1>n DEF Judge, Abort
<1>8. CASE Gate
  BY <1>8, <1>n DEF Gate, FanOut
<1>9. CASE CollectGate
  BY <1>9, <1>n DEF CollectGate, Abort
<1>10. CASE RollbackBatch
  BY <1>10, <1>n DEF RollbackBatch
<1>11. CASE FinishPlay
  BY <1>11, <1>n DEF FinishPlay
<1>u. ASSUME UNCHANGED <<plays, k, section, step, t, notified, stale>>,
             \A h \in Hosts : fan[h] = "done" => fan'[h] = "done"
      PROVE  Asked'
  <2>1. CASE Tasking'
    <3>1. Active /\ Tasking /\ ~Handling'
      BY <2>1, <1>u DEF Active, Tasking, Handling
    <3> QED
      BY <3>1, <1>u, <1>t, <1>o DEF Asked
  <2>2. CASE Handling'
    <3>1. Handling
      BY <2>2, <1>u DEF Handling
    <3> QED
      BY <3>1, <2>2, <1>u, <1>r
  <2> QED
    BY <2>1, <2>2
<1>f. fan \in [Hosts -> {"none", "todo", "busy", "done"}]
  BY <1>t DEF TypeOK, WorkersOK
<1>12. ASSUME NEW g \in Hosts, Start(g) PROVE Asked'
  <2>1. UNCHANGED <<plays, k, section, step, t, notified, stale>>
    BY <1>12 DEF Start, control, ghosts
  <2>2. fan[g] = "todo" /\ fan' = [fan EXCEPT ![g] = "busy"]
    BY <1>12 DEF Start
  <2>3. \A h \in Hosts : fan[h] = "done" => fan'[h] = "done"
    BY <2>2, <1>f
  <2> QED
    BY <2>1, <2>3, <1>u
<1>13. ASSUME NEW g \in Hosts, Done(g) PROVE Asked'
  <2>1. UNCHANGED <<plays, k, section, step, t>> /\ fan[g] = "busy" /\ fan' = [fan EXCEPT ![g] = "done"]
    BY <1>13 DEF Done, control
  <2>2. \A h \in Hosts : fan'[h] = IF h = g THEN "done" ELSE fan[h]
    BY <2>1, <1>f
  <2>3. PICK new :
           /\ step # "fanTask" => new = {}
           /\ \A h \in Hosts : notified'[h] = IF h = g THEN notified[h] \cup new ELSE notified[h]
           /\ \A h \in Hosts : stale'[h] =
                IF h # g THEN stale[h]
                ELSE IF step = "fanHandler" THEN stale[h] \ {play.handlers[t]} ELSE stale[h] \cup new
    BY <1>13, DoneNotices
  <2>4. CASE step = "fanTask"
    <3>1. Active /\ Tasking /\ ~Handling' /\ OnceNotifies' = OnceNotifies
      BY <2>1, <2>4, <1>o DEF Active, Tasking, Handling
    <3>2. \A h \in Hosts : notified[h] \subseteq stale[h] \cup OnceNotifies
      BY <3>1, <1>t DEF Asked
    <3>3. \A h \in Hosts : notified'[h] \subseteq stale'[h] \cup OnceNotifies
      BY <3>2, <2>3, <2>4
    <3> QED
      BY <3>1, <3>3 DEF Asked
  <2>5. CASE step = "fanHandler"
    <3>1. notified' = notified
      <4>1. notified \in [Hosts -> SUBSET HandlerNames] /\ notified' \in [Hosts -> SUBSET HandlerNames]
        BY <1>t, NoticesStep DEF TypeOK, NoticesOK
      <4>2. \A h \in Hosts : notified'[h] = notified[h]
        BY <2>3, <2>5
      <4> QED
        BY <4>1, <4>2
    <3>2. \A h \in Hosts : \A x \in stale[h] :
            x \in stale'[h] \/ (fan'[h] = "done" /\ x = play.handlers[t])
      BY <2>2, <2>3, <2>5
    <3> QED
      BY <3>1, <3>2, <2>1, <2>2, <2>5, <1>r DEF Handling
  <2> QED
    BY <2>1, <2>4, <2>5, <1>n, <1>13, Working DEF Done
<1>14. CASE Cancel
  BY <1>14, <1>u DEF Cancel, control, ghosts
<1>15. CASE UNCHANGED vars
  BY <1>15, <1>u DEF vars, control, ghosts
<1> QED
  BY <1>1, <1>2, <1>3, <1>4, <1>5, <1>6, <1>7, <1>8, <1>9, <1>10, <1>11, <1>12, <1>13, <1>14,
     <1>15 DEF Next, Executor, Ended
-----------------------------------------------------------------------------
(***************************************************************************)
(* What follows for every run.                                             *)
(***************************************************************************)
LEMMA HandlerStep == IInv /\ [Next]_vars => HandlerInv'
  BY InformedStep, AnsweredStep, SettledStep, AskedStep DEF HandlerInv

LEMMA IInvStep == IInv /\ [Next]_vars => IInv'
  BY TypeStep, FanStep, PlayStep, FailStep, PassStep, LostStep, HandlerStep DEF IInv

LEMMA Always == Spec => []IInv
  BY InitInv, IInvStep, PTL DEF Spec

(* The variables of the executor keep their types.                         *)
THEOREM TypeCorrect == Spec => []TypeOK
<1>1. IInv => TypeOK
  BY DEF IInv
<1> QED
  BY <1>1, Always, PTL

LEMMA Guarded == IInv => GuardedRollout
<1> SUFFICES ASSUME IInv, NEW h \in Hosts, RunsMain(h), Strategic, NEW i \in DOMAIN hosts
             PROVE  \/ hosts[i] \in passed
                    \/ hosts[i] = h
                    \/ \E j \in 1 .. i : hosts[j] = h
                    \/ hosts[i] \in ToSet(batch) /\ ~(play.strategy = "canary" /\ i = 1)
  BY DEF GuardedRollout
<1>t. TypeOK /\ PlayInv /\ PassInv /\ section = "main"
  BY DEF IInv, RunsMain
<1>1. Active /\ InBatch /\ h \in ToSet(batch)
  BY Working DEF RunsMain
<1>2. Begun \in 1 .. Len(PB) /\ batch = PB[Begun]
  BY <1>t, <1>1, Apart
<1>3. /\ Len(PB) \in Nat /\ \A x \in ToSet(hosts) : \E q \in 1 .. Len(PB) : x \in ToSet(PB[q])
      /\ \A q \in 1 .. Len(PB) : ToSet(PB[q]) \subseteq ToSet(hosts)
      /\ \A p, q \in 1 .. Len(PB) : p # q => ToSet(PB[p]) \cap ToSet(PB[q]) = {}
  BY <1>t, <1>1, Parts
<1>4. hosts \in Seq(Hosts) /\ IsInjective(hosts) /\ k \in 1 .. Len(plays)
  BY <1>t, <1>1 DEF TypeOK, BatchesOK, PlayInv, Laid
<1>5. Ordered(PB, hosts) /\ CanaryFirst(PB, hosts, play.strategy)
  BY <1>4, <1>t, BatchesTyped DEF PB
<1>6. \A x : x \in ToSet(hosts) <=> \E l \in 1 .. Len(hosts) : x = hosts[l]
  BY <1>4, MemberOfSeq
<1>7. i \in 1 .. Len(hosts) /\ hosts[i] \in ToSet(hosts)
  BY <1>4, <1>6
<1>8. PICK j \in 1 .. Len(hosts) : h = hosts[j]
  BY <1>1, <1>2, <1>3, <1>6
<1>9. PICK q \in 1 .. Len(PB) : hosts[i] \in ToSet(PB[q])
  BY <1>3, <1>7
<1>10. CASE q < Begun
  BY <1>10, <1>9, <1>t, <1>1 DEF PassInv
<1>11. CASE Begun < q
  <2>1. j < i
    BY <1>11, <1>1, <1>2, <1>5, <1>7, <1>8, <1>9 DEF Ordered
  <2> QED
    BY <2>1, <1>7, <1>8
<1>12. CASE q = Begun
  <2>1. CASE ~(play.strategy = "canary" /\ i = 1)
    BY <2>1, <1>2, <1>9, <1>12
  <2>2. CASE play.strategy = "canary" /\ i = 1
    <3>1. CASE Len(hosts) > 1
      <4>1. 1 \in 1 .. Len(PB) /\ \A x : x \in ToSet(PB[1]) <=> x = hosts[1]
        BY <2>2, <3>1, <1>3, <1>5 DEF CanaryFirst
      <4>2. Begun = 1
        BY <4>1, <2>2, <1>2, <1>3, <1>9, <1>12
      <4> QED
        BY <4>1, <4>2, <2>2, <1>1, <1>2
    <3>2. CASE ~(Len(hosts) > 1)
      <4>1. j = i
        BY <3>2, <2>2, <1>4
      <4> QED
        BY <4>1, <1>8
    <3> QED
      BY <3>1, <3>2
  <2> QED
    BY <2>1, <2>2
<1> QED
  BY <1>2, <1>3, <1>10, <1>11, <1>12

(* Under a strategy a host gets its main tasks only when the hosts of the  *)
(* batches before it are through, the canary alone first; and a host that  *)
(* was lost gets nothing more.                                             *)
THEOREM RolloutIsKept == Spec => []RolloutKept
<1>1. ASSUME IInv PROVE LostStayOut
  <2> SUFFICES ASSUME NEW h \in bad, fan[h] # "none" PROVE FALSE
    BY DEF LostStayOut
  <2>1. FanInv /\ LostInv /\ bad \subseteq Hosts /\ TypeOK
    BY <1>1 DEF IInv, TypeOK, HostSetsOK
  <2>2. h \in alive /\ step \in {"fanTask", "fanHandler", "fanGate"}
    BY <2>1 DEF FanInv, Idle
  <2>3. alive \cap bad = {}
    BY <2>1, <2>2 DEF LostInv, Active, InBatch, Tasking, Handling, Gating
  <2> QED
    BY <2>2, <2>3
<1>2. IInv => RolloutKept
  BY <1>1, Guarded DEF RolloutKept
<1> QED
  BY <1>2, Always, PTL

(* A handler runs where a change asked for it, and everywhere it was.      *)
THEOREM HandlersDoMatch == Spec => []HandlersMatch
<1>1. ASSUME IInv PROVE HandlerNeeded
  <2> SUFFICES ASSUME NEW h \in Hosts, step = "fanHandler", fan[h] = "busy"
               PROVE  \/ play.handlers[t] \in stale[h]
                      \/ \E i \in DOMAIN Tasks : Tasks[i].once /\ play.handlers[t] \in Tasks[i].notify
                      \/ \E j \in 1 .. t - 1 : play.handlers[j] = play.handlers[t]
    BY DEF HandlerNeeded
  <2>1. Answered /\ Asked /\ Handling
    BY <1>1 DEF IInv, HandlerInv, Active, Handling
  <2>2. play.handlers[t] \in notified[h]
    BY <2>1 DEF Answered
  <2>3. \/ play.handlers[t] \in stale[h] \cup OnceNotifies
        \/ \E j \in 1 .. t - 1 : play.handlers[j] = play.handlers[t]
    BY <2>1, <2>2 DEF Asked
  <2> QED
    BY <2>3 DEF OnceNotifies
<1>2. ASSUME IInv PROVE HandlersSawChanges
  BY <1>2 DEF IInv, HandlerInv, Settled, HandlersSawChanges, Active, H
<1>3. IInv => HandlersMatch
  BY <1>1, <1>2 DEF HandlersMatch
<1> QED
  BY <1>3, Always, PTL

(* A batch under auto_rollback is undone whole, and the batches before it  *)
(* are kept as they are.                                                   *)
THEOREM BatchUndoneOrKept == Spec => UndoneOrKept
<1>1. ASSUME IInv, IInv', [Next]_vars
      PROVE  [BatchAtomic' /\ (step = "rollback" => \A h \in passed : journal'[h] = journal[h])]_vars
  <2>1. BatchAtomic'
    <3>1. PassInv'
      BY <1>1 DEF IInv
    <3> QED
      BY <3>1 DEF PassInv, BatchAtomic, Active
  <2>2. ASSUME step = "rollback", NEW h \in passed, ~UNCHANGED vars PROVE journal'[h] = journal[h]
    <3>1. section = "main" /\ h \in Hosts /\ FanInv
      BY <1>1, <2>2 DEF IInv, PlayInv, Placed, Active, TypeOK, HostSetsOK
    <3>2. h \notin ToSet(batch)
      BY <1>1, <2>2, <3>1, Apart
    <3>3. \A g \in Hosts : fan[g] = "none"
      BY <2>2, <3>1 DEF FanInv, Idle
    <3>4. RollbackBatch \/ Cancel
      BY <1>1, <2>2, <3>3 DEF Next, Executor, Ended, SelectHosts, NextBatch, NextTask, CollectTask,
         NextHandler, CollectHandler, Judge, Gate, CollectGate, FinishPlay, Start, Done
    <3>5. journal' = journal \/ \E broken : journal' = [g \in Hosts |-> IF g \in ToUndo \ broken THEN 0 ELSE journal[g]]
      BY <3>4 DEF RollbackBatch, Cancel
    <3> QED
      BY <3>1, <3>2, <3>5 DEF ToUndo
  <2> QED
    BY <2>1, <2>2
<1> QED
  BY <1>1, Always, PTL DEF Spec, UndoneOrKept

(* A release marker is written only for a play all of whose hosts went     *)
(* through every part of it.                                               *)
THEOREM MarkerIsTrue == Spec => MarkerMeansDone
<1>1. ASSUME IInv, [Next]_vars
      PROVE  [\A h \in marker' : h \in marker \/ (ToSet(hosts) \subseteq passed \ bad)]_vars
  <2>1. CASE FinishPlay
    <3>1. step = "finish" /\ marker' \subseteq marker \cup Marked
      BY <2>1 DEF FinishPlay
    <3>2. ~failed => ToSet(hosts) \subseteq passed \ bad
      BY <1>1, <3>1 DEF IInv, PassInv, Active
    <3> QED
      BY <3>1, <3>2 DEF Marked
  <2>2. CASE ~FinishPlay
    <3>1. marker' = marker
      BY <1>1, <2>2 DEF Next, Executor, Ended, SelectHosts, NextBatch, NextTask, CollectTask, NextHandler,
         CollectHandler, Judge, Gate, CollectGate, RollbackBatch, Start, Done, Cancel, vars
    <3> QED
      BY <3>1
  <2> QED
    BY <2>1, <2>2
<1> QED
  BY <1>1, Always, PTL DEF Spec, MarkerMeansDone
=============================================================================
