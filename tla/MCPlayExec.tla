----------------------------- MODULE MCPlayExec -----------------------------
(* Bounds for PlayExec: small charts over three hosts.                     *)
EXTENDS PlayExec

CONSTANTS h1, h2, h3

Task(ns) == [notify |-> ns, ignore |-> FALSE, once |-> FALSE]
Tolerant(ns) == [notify |-> ns, ignore |-> TRUE, once |-> FALSE]
Once(ns) == [notify |-> ns, ignore |-> FALSE, once |-> TRUE]

Count(n) == [kind |-> "count", n |-> n]

Play(hs, pre, main, post, strategy, size, gate, rollback) ==
  [hosts |-> hs, pre |-> pre, main |-> main, post |-> post, handlers |-> <<"restart">>,
   strategy |-> strategy, batch |-> Count(size), serial |-> <<Count(size)>>,
   gate |-> gate, rollback |-> rollback]

(* What tasks notify; the plays declare one handler of the two.            *)
NotifyNames == {"restart", "undeclared"}

(* A canary rollout with gate and rollback, the batch after it of two.     *)
Canary == <<Play(<<h1, h2, h3>>, <<>>, <<Task({"restart"}), Task({})>>, <<>>,
                 "canary", 2, TRUE, TRUE)>>

(* A pre hook, a rolling update of one host at a time and a post hook,     *)
(* which notify too.                                                       *)
Rolling == <<Play(<<h1, h2>>, <<Task({})>>, <<Task(NotifyNames)>>, <<Task({"restart"})>>,
                  "rolling", 1, FALSE, TRUE)>>

(* Two serial plays; a task that may fail and a run_once task.             *)
Serial == <<Play(<<h1, h2>>, <<>>, <<Once({"restart"}), Tolerant({"restart"})>>, <<>>,
                 "none", 1, FALSE, FALSE),
            Play(<<h1, h2, h3>>, <<>>, <<Task({})>>, <<>>, "none", 3, FALSE, FALSE)>>

(* Install under a strategy, then start.                                   *)
InstallAndStart ==
  <<Play(<<h1, h2>>, <<>>, <<Task({})>>, <<>>, "rolling", 2, FALSE, TRUE),
    Play(<<h1, h2>>, <<>>, <<Task({})>>, <<>>, "none", 2, FALSE, FALSE)>>

SmallCharts == {Canary, Rolling, Serial}
StartAfterInstall == {InstallAndStart}
=============================================================================
