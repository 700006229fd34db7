----------------------------- MODULE MCTaskLogic -----------------------------
(* Small trees for TaskLogic: loops, until and retries, nested blocks,      *)
(* charts in blocks and blocks in charts, a chart that refers to itself.    *)
EXTENDS TaskLogic, TLC

Task(name) == [name |-> name, kind |-> "module", when |-> "yes", looped |-> FALSE, items |-> 1,
               until |-> FALSE, retries |-> 0, delay |-> FALSE, ignore |-> FALSE, register |-> None,
               notify |-> {}, tags |-> {}, changed_when |-> None, failed_when |-> None,
               block |-> <<>>, rescue |-> <<>>, always |-> <<>>, ref |-> None]

Block(name, block, rescue, always) ==
  [Task(name) EXCEPT !.kind = "block", !.block = block, !.rescue = rescue, !.always = always]
Chart(name, ref) == [Task(name) EXCEPT !.kind = "chart", !.ref = ref]

Notifier(name) == [Task(name) EXCEPT !.notify = {name}]
Loop(name, n) == [Notifier(name) EXCEPT !.looped = TRUE, !.items = n, !.register = name]
Until == [Notifier("until") EXCEPT !.until = TRUE, !.retries = 1, !.register = "until"]
Again == [Notifier("again") EXCEPT !.retries = 2, !.delay = TRUE]
Seeing(name) == [Task(name) EXCEPT !.when = "block_failed"]

MCCharts ==
  ("sub" :> <<Notifier("install"),
               Block("attempt", <<Task("check")>>, <<>>, <<[Task("clean") EXCEPT !.ignore = TRUE]>>)>>)
    @@ ("round" :> <<Notifier("once"), Chart("itself", "round")>>)

MCTrees ==
  {Loop("loop", 2), Loop("empty", 0), Until, Again,
   [Loop("retried", 2) EXCEPT !.retries = 1],
   [Until EXCEPT !.name = "polls", !.looped = TRUE, !.items = 2, !.failed_when = "no"],
   [Again EXCEPT !.changed_when = "yes", !.failed_when = "error", !.name = "misjudged"],
   Block("deploy", <<Block("inner", <<Task("copy")>>, <<Seeing("undo")>>, <<Task("log")>>)>>,
         <<Seeing("back")>>, <<Task("report")>>),
   Block("guarded", <<[Task("probe") EXCEPT !.when = "no"], [Task("broken") EXCEPT !.when = "error"]>>,
         <<Chart("fallback", "sub")>>, <<Task("finally")>>),
   Block("bare", <<[Block("ignored", <<Task("risky")>>, <<>>, <<Seeing("see")>>) EXCEPT !.ignore = TRUE],
                   Notifier("after")>>, <<>>, <<Task("each")>>),
   [Chart("charts", "sub") EXCEPT !.looped = TRUE, !.items = 2, !.notify = {"charts"}, !.register = "charts"],
   Block("outer", <<Task("try")>>, <<Block("restore", <<Task("old")>>, <<>>, <<>>), Seeing("tell")>>, <<>>),
   [Block("grouped", <<Block("nested", <<Task("leaf")>>, <<>>, <<>>)>>, <<>>, <<>>) EXCEPT !.tags = {"web"}],
   Chart("deep", "round"), Chart("nowhere", "missing"),
   [Block("tagged", <<Task("plain")>>, <<[Task("other") EXCEPT !.tags = {"slow"}]>>, <<Task("last")>>)
      EXCEPT !.tags = {"web"}]}

RECURSIVE Inside(_)
Inside(t) == {t} \cup UNION {Inside(child) : child \in ToSet(t.block \o t.rescue \o t.always)}
MCTasks == UNION {Inside(t) : t \in MCTrees \cup UNION {ToSet(MCCharts[c]) : c \in DOMAIN MCCharts}}

MCSelections == {[tags |-> {}, skip |-> {}], [tags |-> {"web"}, skip |-> {"slow"}]}
=============================================================================
