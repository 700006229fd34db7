------------------------------ MODULE Batches ------------------------------
(***************************************************************************)
(* How the executor cuts the hosts of a play into batches                  *)
(* (src/internal/executor/strategy.go, hosts.go, play.go).  A size         *)
(* expression is a record [kind, n]: "count" (n hosts), "percent" (n% of   *)
(* the hosts) or "other" (empty, or no number); serial is a sequence of    *)
(* them.  An empty segment of serial is refused by the playbook parser.    *)
(***************************************************************************)
EXTENDS Integers, Sequences, FiniteSets, SequencesExt

SizeExprs == [kind : {"count", "percent", "other"}, n : Int]

AtMost(a, b) == IF a < b THEN a ELSE b
AtLeast(a, b) == IF a < b THEN b ELSE a

DefaultBatchSize(total) == IF total < 4 THEN total ELSE (total + 3) \div 4

(* Mutant of ParseBatchSize: a percentage is rounded down.                  *)
RoundedDown(e, total) ==
  IF e.kind = "percent" /\ e.n >= 0 THEN AtLeast((total * e.n) \div 100, 1)
  ELSE IF e.kind = "count" /\ e.n >= 1 THEN AtMost(e.n, total)
  ELSE DefaultBatchSize(total)
ParseBatchSize(e, total) ==
  IF e.kind = "percent" /\ e.n >= 0 THEN AtLeast((total * e.n + 99) \div 100, 1)
  ELSE IF e.kind = "count" /\ e.n >= 1 THEN AtMost(e.n, total)
  ELSE DefaultBatchSize(total)

(* The loop of splitBatches over n hosts: batch j ends at Ends(n, sizes)[j];*)
(* the last size is used for all further batches.                          *)
Ends(n, sizes) ==
  LET end[j \in 0 .. n] ==
        IF j = 0 THEN 0 ELSE AtMost(end[j - 1] + sizes[AtMost(j, Len(sizes))], n)
  IN end

Cut(s, sizes) ==
  LET end == Ends(Len(s), sizes)
      count == Cardinality({j \in 0 .. Len(s) - 1 : end[j] < Len(s)})
  IN [j \in 1 .. count |-> SubSeq(s, end[j - 1] + 1, end[j])]

SplitBatches(s, serial) ==
  IF serial = <<>> THEN <<s>>
  ELSE Cut(s, [i \in DOMAIN serial |-> ParseBatchSize(serial[i], Len(s))])

ChunkHosts(s, size) == Cut(s, <<AtLeast(size, 1)>>)

(* runMainBatches: strategy is "none" (serial semantics), "linear",        *)
(* "rolling" or "canary", whose first batch is one host.                   *)
MainBatches(s, strategy, batch, serial) ==
  LET size == ParseBatchSize(batch, Len(s)) IN
  IF strategy = "none" THEN SplitBatches(s, serial)
  ELSE IF strategy = "canary" /\ Len(s) > 1
       THEN <<SubSeq(s, 1, 1)>> \o ChunkHosts(Tail(s), size)
       ELSE ChunkHosts(s, size)

-----------------------------------------------------------------------------
(* What the documentation says of a size: a percentage is rounded up and   *)
(* at least 1, a number at most all hosts, by default a quarter rounded up *)
(* and everybody when there are less than 4.                               *)
Meant(e, total) ==
  CASE e.kind = "percent" /\ e.n >= 0 ->
         CHOOSE s \in 1 .. total * e.n + 1 : 100 * s >= total * e.n
                                         /\ \A r \in 1 .. s - 1 : 100 * r < total * e.n
    [] e.kind = "count" /\ e.n >= 1 -> IF e.n <= total THEN e.n ELSE total
    [] OTHER -> CHOOSE s \in 1 .. total : IF total < 4 THEN s = total
                                          ELSE 4 * s >= total /\ 4 * (s - 1) < total

(* The size asked for batch i; without serial all hosts are one batch.     *)
AskedSize(s, strategy, batch, serial, i) ==
  IF strategy = "none"
  THEN IF serial = <<>> THEN Len(s) ELSE Meant(serial[AtMost(i, Len(serial))], Len(s))
  ELSE IF strategy = "canary" /\ i = 1 /\ Len(s) > 1 THEN 1 ELSE Meant(batch, Len(s))

(* The batches are the hosts in their order, nobody left out and nobody    *)
(* twice; none is empty, so that no batch passes its gate vacuously; and    *)
(* every one has the size asked for, the last one at most that ("最后一个尺寸 *)
(* 对剩余主机重复", "百分比向上取整、min 1").                                *)
AsAsked(s, strategy, batch, serial) ==
  LET batches == MainBatches(s, strategy, batch, serial)
      asked(i) == AskedSize(s, strategy, batch, serial, i)
  IN s # <<>> => /\ FlattenSeq(batches) = s
                 /\ \A i \in DOMAIN batches :
                      /\ Len(batches[i]) \in 1 .. asked(i)
                      /\ i < Len(batches) => Len(batches[i]) = asked(i)
=============================================================================
