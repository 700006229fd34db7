----------------------------- MODULE ReleaseStore -----------------------------
(***************************************************************************)
(* The deployment records of a control host (src/internal/release): files  *)
(* named after the chart and the time, written by every deployment and     *)
(* removed by `wdp release del' (src/internal/cli/release.go).  Several wdp*)
(* processes work at once; the clock may give two of them the same time,   *)
(* and a process may die between the creation of a file and its content.   *)
(***************************************************************************)
EXTENDS Naturals, Sequences, FiniteSets, SequencesExt

CONSTANTS Recorders,   \* wdp processes
          ChartNames,  \* of the charts
          Jobs,        \* what a process may do
          Stored,      \* names of the records there are at the beginning
          MaxTime      \* bound: of the clock, which begins at 2

VARIABLES clock,
          dir,         \* a function from file names to contents
          job, at,     \* of a process: what it does, and where it is
          name,        \* of a process that saves: its file
          todo,        \* of a process that deletes: records to delete
          removed      \* history: [name, by]

relVars == <<clock, dir, job, at, name, todo, removed>>

(* An id is a chart and a time; the file of a later attempt has a number   *)
(* appended, its content still says the id without.                        *)
NoName == [chart |-> "", time |-> 0, try |-> 0]
Id(n) == [chart |-> n.chart, time |-> n.time]
FileOf(id) == [chart |-> id.chart, time |-> id.time, try |-> 0]
Empty == [chart |-> "", time |-> 0]

(* A job saves a record of a chart or deletes those that args stand for:   *)
(* [id, hits], a text that may be an id, and the ids it is a prefix of or a*)
(* pattern for.  An id is no prefix of another: it ends with the time, in  *)
(* nanoseconds, as many digits every time.  What is stored is older than   *)
(* the clock, and no two of it collided.                                   *)
Ids == [chart : ChartNames \cup {""}, time : Nat]
Names == [chart : ChartNames \cup {""}, time : Nat, try : Nat]
Args == [id : Ids, hits : SUBSET Ids]

RecordAssumption ==
  /\ Jobs \subseteq [kind : {"save", "del"}, chart : ChartNames \cup {""}, bulk : BOOLEAN, yes : BOOLEAN,
                    args : Seq(Args)]
  /\ \A j \in Jobs : \A i \in DOMAIN j.args :
       j.bulk \/ j.args[i].id = Empty \/ j.args[i].hits = {j.args[i].id}
  /\ Stored \subseteq Names /\ IsFiniteSet(Stored)
  /\ \A n \in Stored : n.time < 2 /\ n.try = 0 /\ Id(n) # Empty

ASSUME RecordAssumption

RecordInit ==
  /\ clock = 2
  /\ dir = [n \in Stored |-> Id(n)]
  /\ job \in [Recorders -> Jobs]
  /\ at = [p \in Recorders |-> "begin"]
  /\ name = [p \in Recorders |-> NoName]
  /\ todo = [p \in Recorders |-> <<>>]
  /\ removed = {}

Tick ==
  /\ clock < MaxTime
  /\ clock' = clock + 1
  /\ UNCHANGED <<dir, job, at, name, todo, removed>>

Where(p, kind, place) == job[p].kind = kind /\ at[p] = place
Move(p, place) == at' = [at EXCEPT ![p] = place]

-----------------------------------------------------------------------------
(* Save: the time, a file that was not there before, its content.          *)
Stamp(p) ==
  /\ Where(p, "save", "begin")
  /\ name' = [name EXCEPT ![p] = [chart |-> job[p].chart, time |-> clock, try |-> 0]]
  /\ Move(p, "create")
  /\ UNCHANGED <<clock, dir, job, todo, removed>>

(* Mutant of Taken: opened without O_EXCL.                                 *)
TakenNever(n) == FALSE

Taken(n) == n \in DOMAIN dir

Create(p) ==
  /\ Where(p, "save", "create")
  /\ IF Taken(name[p]) THEN name' = [name EXCEPT ![p].try = @ + 1] /\ UNCHANGED <<dir, at>>
     ELSE /\ dir' = [n \in DOMAIN dir \cup {name[p]} |-> IF n = name[p] THEN Empty ELSE dir[n]]
          /\ Move(p, "write")
          /\ UNCHANGED name
  /\ UNCHANGED <<clock, job, todo, removed>>

(* A write that fails, and a process that dies, leave the file as it is;   *)
(* del may have taken it away in the meantime.                             *)
Write(p) ==
  /\ Where(p, "save", "write")
  /\ \/ /\ Move(p, "saved")
        /\ dir' = IF name[p] \in DOMAIN dir THEN [dir EXCEPT ![name[p]] = Id(name[p])] ELSE dir
     \/ Move(p, "failed") /\ UNCHANGED dir
  /\ UNCHANGED <<clock, job, name, todo, removed>>

-----------------------------------------------------------------------------
(* List: the contents that can be read, the newest first; what has the same*)
(* time comes in any order.                                                *)
Listings ==
  LET files == {n \in DOMAIN dir : dir[n] # Empty}
      sorted == {f \in [1 .. Cardinality(files) -> files] :
                   ToSet(f) = files /\ \A i, j \in DOMAIN f : i < j => f[i].time >= f[j].time}
  IN {[i \in DOMAIN f |-> dir[f[i]]] : f \in sorted}

(* The elements of s at the positions of places, in their order.           *)
InOrder(s, places) ==
  LET kept[i \in 0 .. Len(s)] ==
        IF i = 0 THEN <<>> ELSE IF i \in places THEN Append(kept[i - 1], s[i]) ELSE kept[i - 1]
  IN kept[Len(s)]

(* One argument of `del': an id, or a prefix of one only.                  *)
Hits(recs, arg) == {i \in DOMAIN recs : recs[i] \in arg.hits}

(* Mutant of RecordOf: the first record that matches.                      *)
FirstRecordOf(recs, arg) ==
  LET hits == Hits(recs, arg)
  IN IF arg.id \in ToSet(recs) THEN arg.id
     ELSE IF hits # {} THEN recs[CHOOSE i \in hits : \A j \in hits : i <= j] ELSE Empty

RecordOf(recs, arg) ==
  LET hits == Hits(recs, arg)
  IN IF arg.id \in ToSet(recs) THEN arg.id
     ELSE IF Cardinality(hits) = 1 THEN recs[CHOOSE i \in hits : TRUE] ELSE Empty

(* Mutant of Once: of several arguments only the first counts.             *)
OnceFirst(ids) == {1}

(* Where an id occurs for the first time.                                  *)
Once(ids) == {i \in DOMAIN ids : \A j \in 1 .. i - 1 : ids[j] # ids[i]}

(* resolveRecordIDs: everything or nothing, each record once.              *)
ResolveIDs(recs, args) ==
  LET ids == [i \in DOMAIN args |-> RecordOf(recs, args[i])]
  IN IF Empty \in ToSet(ids) THEN <<>> ELSE InOrder(ids, Once(ids))

(* selectRecordPatterns: whatever one of the patterns matches.             *)
SelectPatterns(recs, args) == InOrder(recs, UNION {Hits(recs, a) : a \in ToSet(args)})

Find(p) ==
  /\ Where(p, "del", "begin")
  /\ \E recs \in Listings :
       LET j == job[p]
           targets == IF j.bulk THEN SelectPatterns(recs, j.args) ELSE ResolveIDs(recs, j.args)
       IN /\ todo' = [todo EXCEPT ![p] = IF j.bulk /\ ~j.yes THEN <<>> ELSE targets]
          /\ Move(p, IF targets = <<>> THEN "failed" ELSE IF j.bulk /\ ~j.yes THEN "shown" ELSE "delete")
  /\ UNCHANGED <<clock, dir, job, name, removed>>

(* Delete: the file of the id in the content; the first one that is not    *)
(* there any more ends the command.                                        *)
Delete(p) ==
  /\ Where(p, "del", "delete")
  /\ IF todo[p] = <<>> THEN Move(p, "deleted") /\ UNCHANGED <<dir, todo, removed>>
     ELSE LET file == FileOf(Head(todo[p]))
          IN IF file \notin DOMAIN dir THEN Move(p, "failed") /\ UNCHANGED <<dir, todo, removed>>
             ELSE /\ dir' = [n \in DOMAIN dir \ {file} |-> dir[n]]
                  /\ removed' = removed \cup {[name |-> file, by |-> p]}
                  /\ todo' = [todo EXCEPT ![p] = Tail(@)]
                  /\ UNCHANGED at
  /\ UNCHANGED <<clock, job, name>>

Quits(p) ==
  /\ at[p] \notin {"saved", "deleted", "failed", "shown"}
  /\ Move(p, "failed")
  /\ UNCHANGED <<clock, dir, job, name, todo, removed>>

RecordNext == Tick \/ \E p \in Recorders : Stamp(p) \/ Create(p) \/ Write(p) \/ Find(p) \/ Delete(p) \/ Quits(p)

RecordSpec == RecordInit /\ [][RecordNext]_relVars

-----------------------------------------------------------------------------
(* A `del' that names the record, or a confirmed one with a pattern for it, *)
(* has taken it away.                                                      *)
TakenAway(n) ==
  \E r \in removed :
    /\ r.name = n
    /\ ~job[r.by].bulk \/ job[r.by].yes
    /\ \E i \in DOMAIN job[r.by].args : Id(n) \in job[r.by].args[i].hits

(* A record that was saved is there, under a name of its own, until that.  *)
RecordsKept ==
  \A p \in Recorders :
    at[p] = "saved" => (name[p] \in DOMAIN dir /\ dir[name[p]] = Id(name[p])) \/ TakenAway(name[p])

RemovedBy(p) == {r \in removed : r.by = p}

(* Without patterns an argument takes at most one record away.             *)
OneEach ==
  \A p \in Recorders :
    job[p].kind = "del" /\ ~job[p].bulk =>
      Cardinality(RemovedBy(p)) <= Len(job[p].args)

(* When `del' reports success, no record that was there before and that an *)
(* argument names is left: no argument is skipped, none resolved in part.  *)
DeletedIsGone ==
  \A p \in Recorders :
    at[p] = "deleted" =>
      \A n \in Stored, i \in DOMAIN job[p].args : Id(n) \in job[p].args[i].hits => n \notin DOMAIN dir

(* The records are what the commands said they would be.                   *)
RecordsAgree == RecordsKept /\ OneEach /\ DeletedIsGone
=============================================================================
