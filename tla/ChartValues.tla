----------------------------- MODULE ChartValues -----------------------------
(***************************************************************************)
(* The values of a chart, its sub charts and lifecycle phases, and the      *)
(* release marker (src/internal/chart).                                     *)
(*                                                                         *)
(* A value is a tree: a leaf (a list is one), an explicit null, or a map of *)
(* keys to values; a path is a sequence of keys.  A chart is a record       *)
(* [name, version, values, subs, required, sensitive, override, noMarker,   *)
(* specs, phases, files]: subs maps names to charts, phases maps the names  *)
(* of the phase files, deploy among them, to sequences of plays, specs      *)
(* holds what chart.yaml declares of phases.  The phase "" of the command   *)
(* line is written deploy.                                                  *)
(***************************************************************************)
EXTENDS Naturals, Sequences, FiniteSets, SequencesExt, FiniteSetsExt, TLC

Null == [kind |-> "null", leaf |-> "", sub |-> <<>>]
Leaf(x) == [kind |-> "leaf", leaf |-> x, sub |-> <<>>]
Tree(m) == [kind |-> "tree", leaf |-> "", sub |-> m]

Redacted == Leaf("<redacted>")
Rejected == [ok |-> FALSE]

Without(m, keys) == [k \in DOMAIN m \ keys |-> m[k]]

-----------------------------------------------------------------------------
(* Maps are merged key by key, anything else is replaced; a null takes the *)
(* key out.                                                                *)
RECURSIVE Merge(_, _)
Merge(base, over) ==
  LET IsTree(m, k) == k \in DOMAIN m /\ m[k].kind = "tree"
      gone == {k \in DOMAIN over : over[k].kind = "null"}
  IN [k \in (DOMAIN base \cup DOMAIN over) \ gone |->
        IF k \notin DOMAIN over THEN base[k]
        ELSE IF IsTree(base, k) /\ IsTree(over, k) THEN Tree(Merge(base[k].sub, over[k].sub))
        ELSE over[k]]

(* What a sub chart sees: its own defaults, the tree of its name in the     *)
(* scope of its parent, and global of both.                                *)
SubTree(m, k) == IF k \in DOMAIN m /\ m[k].kind = "tree" THEN m[k].sub ELSE <<>>
SubScope(sub, parent) ==
  LET own == Merge(sub.values, SubTree(parent, sub.name))
  IN IF "global" \in DOMAIN parent /\ parent["global"].kind = "tree"
     THEN ("global" :> Tree(Merge(SubTree(own, "global"), parent["global"].sub))) @@ own
     ELSE own

(* --set: maps on the way are made, a leaf on the way is an error, and a    *)
(* null takes the key out.                                                 *)
RECURSIVE SetPath(_, _, _)
SetPath(root, path, v) ==
  LET key == Head(path)
      in == SetPath(SubTree(root, key), Tail(path), v)
  IN IF Len(path) = 1
     THEN [ok |-> TRUE, values |-> IF v.kind = "null" THEN Without(root, {key}) ELSE (key :> v) @@ root]
     ELSE IF (key \in DOMAIN root /\ root[key].kind = "leaf") \/ ~in.ok THEN Rejected
     ELSE [ok |-> TRUE, values |-> (key :> Tree(in.values)) @@ root]

(* The values files over the base in their order, then the --set pairs.    *)
ApplyOverrides(base, over) ==
  FoldLeft(LAMBDA r, s : IF r.ok THEN SetPath(r.values, s.path, s.value) ELSE r,
           [ok |-> TRUE, values |-> FoldLeft(Merge, base, over.files)], over.sets)

BuildValues(ch, over) == ApplyOverrides(ch.values, over)

-----------------------------------------------------------------------------
(* What is at a path that is there gets v, or goes when v is null.         *)
RECURSIVE EditPath(_, _, _)
EditPath(m, path, v) ==
  LET key == Head(path) IN
  IF key \notin DOMAIN m THEN m
  ELSE IF Len(path) = 1 THEN IF v.kind = "null" THEN Without(m, {key}) ELSE [m EXCEPT ![key] = v]
  ELSE IF m[key].kind # "tree" THEN m
  ELSE [m EXCEPT ![key] = Tree(EditPath(@.sub, Tail(path), v))]

StripSensitive(ch, values) == FoldLeft(LAMBDA m, p : EditPath(m, p, Null), values, ch.sensitive)
RedactSensitive(ch, values) == FoldLeft(LAMBDA m, p : EditPath(m, p, Redacted), values, ch.sensitive)

(* Mutant of ValuesDigestOf: the secrets are part of it.                   *)
DigestOfAll(ch, values) == values

(* The digest tells values apart as they do themselves.                    *)
ValuesDigestOf(ch, values) == StripSensitive(ch, values)

MarkerContent(ch, values) ==
  [chart |-> ch.name, version |-> ch.version, sha |-> ValuesDigestOf(ch, values),
   values |-> RedactSensitive(ch, values), schema |-> 2]

-----------------------------------------------------------------------------
RECURSIVE PathExists(_, _)
PathExists(m, path) ==
  LET key == Head(path) IN
  /\ key \in DOMAIN m /\ m[key].kind # "null"
  /\ Len(path) > 1 => m[key].kind = "tree" /\ PathExists(m[key].sub, Tail(path))

ValidateRequired(ch, values) == \A p \in ch.required : PathExists(values, p)

(* values.schema.json, as the set of keys it allows; {} is no schema.      *)
ValidateValuesSchema(ch, values) == ch.schema = {} \/ DOMAIN values \subseteq ch.schema

RECURSIVE ValidateSubchartsSchema(_, _)
ValidateSubchartsSchema(ch, values) ==
  \A n \in DOMAIN ch.subs :
    LET scope == SubScope(ch.subs[n], values)
    IN ValidateValuesSchema(ch.subs[n], scope) /\ ValidateSubchartsSchema(ch.subs[n], scope)

ValidatePhaseValues(ch, values) ==
  ValidateRequired(ch, values) /\ ValidateValuesSchema(ch, values) /\ ValidateSubchartsSchema(ch, values)

-----------------------------------------------------------------------------
(* What a phase means: [release, record, clears, from].                    *)
Destructive(spec) == spec.release \/ spec.clears

EffectiveValuesFrom(spec) ==
  IF spec.from # "" THEN spec.from ELSE IF spec.clears THEN "marker" ELSE "chart"

DefaultPhaseSpec(phase) ==
  [release |-> phase = "deploy", record |-> phase \in {"deploy", "uninstall"},
   clears |-> phase = "uninstall", from |-> ""]

MergePhaseSpec(base, declared) ==
  [release |-> base.release \/ declared.release,
   record |-> base.record \/ declared.record \/ declared.release,
   clears |-> base.clears \/ declared.clears,
   from |-> IF declared.from # "" THEN declared.from ELSE base.from]

PhaseSpecFor(ch, phase) ==
  IF phase \in DOMAIN ch.specs THEN MergePhaseSpec(DefaultPhaseSpec(phase), ch.specs[phase])
  ELSE DefaultPhaseSpec(phase)

(* A hook is [at: "" | "pre" | "post", of: phase]; the hooks of deploy are *)
(* also called after install.                                              *)
HookNameFor(phase) == IF phase = "deploy" THEN "install" ELSE phase
NormalizeHook(hook) == IF hook.of = "deploy" THEN [hook EXCEPT !.of = "install"] ELSE hook

PhasePlays(ch, phase) ==
  IF phase \in DOMAIN ch.phases THEN [ok |-> TRUE, plays |-> ch.phases[phase]] ELSE Rejected

NoPlay == [pattern |-> <<>>, vars |-> <<>>, tasks |-> <<>>, handlers |-> <<>>]

EntryPlay(ch, phase) ==
  CASE phase = "deploy" ->
         [ok |-> TRUE, play |-> IF Len(ch.phases["deploy"]) = 1 THEN ch.phases["deploy"][1] ELSE NoPlay]
    [] phase # "deploy" /\ phase \in DOMAIN ch.phases /\ Len(ch.phases[phase]) = 1 ->
         [ok |-> TRUE, play |-> ch.phases[phase][1]]
    [] OTHER -> Rejected

PhaseNames(ch) == DOMAIN ch.phases

-----------------------------------------------------------------------------
(* Sub charts.  A reference is [name, versions], versions the set of those *)
(* that satisfy its constraint.                                            *)
RECURSIVE Below(_)
Below(ch) == UNION {{<<n>> \o path : path \in {<<>>} \cup Below(ch.subs[n])} : n \in DOMAIN ch.subs}

RECURSIVE At(_, _)
At(ch, path) == IF path = <<>> THEN ch ELSE At(ch.subs[Head(path)], Tail(path))

(* A chart of its own comes first; further down the name must be unique.   *)
FindSub(ch, name) ==
  LET found == {p \in Below(ch) : Last(p) = name} IN
  IF name \in DOMAIN ch.subs THEN [ok |-> TRUE, sub |-> ch.subs[name]]
  ELSE IF Cardinality(found) = 1 THEN [ok |-> TRUE, sub |-> At(ch, CHOOSE p \in found : TRUE)]
  ELSE Rejected

ResolveSub(ch, ref) ==
  LET r == FindSub(ch, ref.name)
  IN IF r.ok /\ r.sub.version \in ref.versions THEN r ELSE Rejected

(* The handlers of every phase of every sub chart go into the play; of two *)
(* with one name one is kept.                                              *)
AllPlays(ch) == UNION {ToSet(ch.phases[p]) : p \in PhaseNames(ch)}
MergeSubHandlers(ch, handlers) ==
  LET subs == {At(ch, p) : p \in Below(ch)}
      more == UNION {ToSet(p.handlers) : p \in UNION {AllPlays(s) : s \in subs}}
  IN ToSet(handlers) \cup {h \in more : \A own \in ToSet(handlers) : own.name # h.name}

(* A task is [name, hook, kind: "task" | "chart" | "block", cap, ref,      *)
(* entry, vars, block, rescue, always], cap what its module says of the    *)
(* rollback of what it does.                                               *)
RECURSIVE Leaves(_)
Leaves(tasks) ==
  UNION {IF t.kind = "block" THEN Leaves(t.block \o t.rescue \o t.always) ELSE {t} : t \in ToSet(tasks)}

(* Mutant of EntryKey: a chart entered once is not entered again.          *)
ChartKey(ch, entry) == <<ch.name>>
EntryKey(ch, entry) == <<ch.name, entry>>

(* Analyze: what the user is asked about.  Every task reached, through the *)
(* entries of sub charts the tasks refer to, each entry once; todo holds   *)
(* charts with the plays entered.                                          *)
RECURSIVE Assessed(_, _, _)
Assessed(todo, visited, seen) ==
  IF todo = <<>> THEN seen
  ELSE LET at == Head(todo)
           leaves == Leaves(at.play.tasks \o at.play.handlers)
           bad == {t \in leaves : t.kind = "chart" /\ ~ResolveSub(at.ch, t.ref).ok}
           subs == {[ch |-> ResolveSub(at.ch, t.ref).sub, entry |-> t.entry]
                      : t \in {x \in leaves : x.kind = "chart"} \ bad}
           new == {s \in subs : EntryKey(s.ch, s.entry) \notin visited}
           once == {s \in new : s = CHOOSE x \in new : EntryKey(x.ch, x.entry) = EntryKey(s.ch, s.entry)}
           more == {[ch |-> s.ch, play |-> EntryPlay(s.ch, s.entry).play]
                      : s \in {x \in once : EntryPlay(x.ch, x.entry).ok}}
       IN Assessed(Tail(todo) \o SetToSeq(more), visited \cup {EntryKey(s.ch, s.entry) : s \in once},
                   seen \cup {[chart |-> at.ch.name, task |-> t.name, cap |-> IF t \in bad THEN "none" ELSE t.cap]
                                : t \in {x \in leaves : x.kind = "task"} \cup bad})

Analyze(ch, phase) ==
  LET plays == IF PhasePlays(ch, phase).ok THEN PhasePlays(ch, phase).plays ELSE <<>>
  IN Assessed([i \in DOMAIN plays |-> [ch |-> ch, play |-> plays[i]]], {EntryKey(ch, phase)}, {})

(* Whether the run has to be agreed to.                                    *)
Irreversible(ch, phase) == {t \in Analyze(ch, phase) : t.cap = "none"}

-----------------------------------------------------------------------------
(* Keys of the values that hosts define too: those the values hide, and    *)
(* those that win since the chart lets them.                               *)
ValueCollisions(ch, values, vars) ==
  LET both == [h \in DOMAIN vars |-> DOMAIN values \cap DOMAIN vars[h]]
  IN [shadowed |-> [h \in DOMAIN vars |-> both[h] \ ch.override],
      overridden |-> [h \in DOMAIN vars |-> both[h] \cap ch.override]]

(* What `wdp drift` says of a host; found is its marker, or "unreachable"  *)
(* and "missing" when there is none to read.                               *)
Classify(found, marker, version, sha) ==
  CASE found = "unreachable" -> "UNREACHABLE"
    [] found = "missing" -> "NOT-DEPLOYED"
    [] found = "marker" /\ marker.sha # sha -> "DRIFTED"
    [] found = "marker" /\ marker.sha = sha /\ marker.version # version -> "OUTDATED"
    [] OTHER -> "OK"
=============================================================================
