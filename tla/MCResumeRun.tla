---------------------------- MODULE MCResumeRun ----------------------------
(* Bounds for ResumeRun: shards of two plays.                              *)
EXTENDS ResumeRun, TLC

CONSTANTS h1, h2

Task == [notify |-> {}, once |-> FALSE]
Notifying == [notify |-> {"restart"}, once |-> FALSE]
OnceTask == [notify |-> {}, once |-> TRUE]

Play(hs, tasks, handlers, rollback) ==
  [hosts |-> hs, tasks |-> tasks, handlers |-> handlers, rollback |-> rollback]

(* The shard of a host that runs its own plan, and that of a relay whose   *)
(* two hosts take part in both plays.                                      *)
Shards ==
  ("own" :> <<Play(<<h1>>, <<Notifying, Task>>, <<"restart">>, FALSE),
              Play(<<h1>>, <<Task, OnceTask>>, <<>>, FALSE)>>)
  @@ ("relay" :> <<Play(<<h1, h2>>, <<Notifying>>, <<"restart">>, FALSE),
                   Play(<<h1, h2>>, <<Task>>, <<>>, FALSE)>>)

(* A relay's shard in which a host joins in the second play.               *)
LateHost == "p" :> <<Play(<<h1>>, <<Task>>, <<>>, FALSE),
                     Play(<<h1, h2>>, <<Task>>, <<>>, FALSE)>>
=============================================================================
