------------------------------ MODULE Inventory ------------------------------
(***************************************************************************)
(* The host inventory of the control side (src/internal/inventory): the     *)
(* YAML files merged and built into hosts, groups, variables and connection *)
(* settings, the host patterns, the via relays, and what add_host and       *)
(* group_by change while a run is going on.                                 *)
(*                                                                         *)
(* Names are numbers in the order of the names; a group and a host may have *)
(* the same one.  A variable map is a function from the keys it defines.    *)
(* A file is a function from the names of its groups, All among them, to    *)
(* [hosts: host -> variable map, vars: variable map, children: sequence].   *)
(* No group is its own descendant.                                          *)
(***************************************************************************)
EXTENDS Naturals, Sequences, FiniteSets, SequencesExt, FiniteSetsExt, TLC

CONSTANTS All,        \* the name of the group of all hosts
          HostKeys,   \* the keys that are connection settings
          MapKeys,    \* the keys whose values are maps themselves
          NoHost      \* no host, as a relay

Sorted(S) == SetToSortSeq(S, <)

(* maps.Copy: what v defines wins over base.                               *)
Over(v, base) == v @@ base

(* mergeVars: the same, but two maps under one key are merged themselves.  *)
RECURSIVE MergeVars(_, _)
MergeVars(v, base) ==
  [k \in DOMAIN v \cap DOMAIN base \cap MapKeys |-> MergeVars(v[k], base[k])] @@ Over(v, base)

Settings(v) == [k \in DOMAIN v \cap HostKeys |-> v[k]]
Plain(v) == [k \in DOMAIN v \ HostKeys |-> v[k]]

(* Two files, the second one over the first.                               *)
MergeRaw(a, b) ==
  [g \in DOMAIN a \cup DOMAIN b |->
     IF g \notin DOMAIN a THEN b[g]
     ELSE IF g \notin DOMAIN b THEN a[g]
     ELSE [hosts |-> [h \in DOMAIN a[g].hosts \cup DOMAIN b[g].hosts |->
                        IF h \notin DOMAIN a[g].hosts THEN b[g].hosts[h]
                        ELSE IF h \notin DOMAIN b[g].hosts THEN a[g].hosts[h]
                        ELSE Over(b[g].hosts[h], a[g].hosts[h])],
           vars |-> MergeVars(b[g].vars, a[g].vars),
           children |-> a[g].children
                          \o SelectSeq(b[g].children, LAMBDA c : c \notin ToSet(a[g].children))]]

-----------------------------------------------------------------------------
(* The groups a walk down the children meets, each one once, parents first. *)
RECURSIVE Walk(_, _, _)
Walk(groups, stack, seen) ==
  IF stack = <<>> THEN seen
  ELSE LET g == Head(stack) IN
       IF g \in ToSet(seen) \/ g \notin DOMAIN groups THEN Walk(groups, Tail(stack), seen)
       ELSE Walk(groups, groups[g].children \o Tail(stack), Append(seen, g))

ExpandGroup(groups, g) ==
  LET met == Walk(groups, <<g>>, <<>>)
  IN FlattenSeq([i \in DOMAIN met |-> groups[met[i]].hosts])

(* The groups above g in some chain of parents; a group that names itself  *)
(* as a child is not its own parent.                                       *)
Ancestors(groups, g) ==
  LET parents(S) == {p \in DOMAIN groups : \E c \in S : c # p /\ c \in ToSet(groups[p].children)}
      up[n \in Nat] == IF n = 0 THEN parents({g}) ELSE LET nearer == up[n - 1] IN nearer \cup parents(nearer)
  IN up[Cardinality(DOMAIN groups)]

(* Mutant of Chain: the order of the names.                                *)
RECURSIVE Chain(_, _, _)
ByName(groups, left, done) == done \o Sorted(left)

(* The groups of a host, ancestors first, then by name; what is left of a  *)
(* cycle comes last, by name.                                              *)
Chain(groups, left, done) ==
  LET ready == {g \in left : Ancestors(groups, g) \cap left = {}}
  IN IF ready = {} THEN done \o Sorted(left)
     ELSE Chain(groups, left \ {Min(ready)}, Append(done, Min(ready)))

GroupMembership(groups, h) ==
  Chain(groups, {g \in DOMAIN groups : h \in ToSet(ExpandGroup(groups, g))}, <<>>)

(* The variables of the groups of a host over those of all.                *)
GroupVars(groups, allVars, h) ==
  FoldLeft(LAMBDA vars, g : Over(groups[g].vars, vars), allVars, GroupMembership(groups, h))

-----------------------------------------------------------------------------
(* The relays: the variable via of a host names the host it is reached     *)
(* through.                                                                *)
ViaOf(inv, h) ==
  IF h \in ToSet(inv.hosts) /\ "via" \in DOMAIN inv.vars[h] THEN inv.vars[h]["via"] ELSE NoHost

RECURSIVE ViaWalk(_, _, _)
ViaWalk(inv, h, chain) ==
  LET via == ViaOf(inv, Last(<<h>> \o chain)) IN
  IF via = NoHost \/ via \in {h} \cup ToSet(chain) THEN chain
  ELSE ViaWalk(inv, h, Append(chain, via))

ViaChain(inv, h) == ViaWalk(inv, h, <<>>)
ViaRoot(inv, h) == Last(<<h>> \o ViaChain(inv, h))

ValidateVia(inv) ==
  \A h \in ToSet(inv.hosts) : ViaRoot(inv, h) \in ToSet(inv.hosts) /\ ViaOf(inv, ViaRoot(inv, h)) = NoHost

-----------------------------------------------------------------------------
(* The caches behind the built-in variables groups and hosts.              *)
PrecomputeTopology(inv) ==
  [inv EXCEPT !.groupMap = [g \in DOMAIN inv.groups |-> ExpandGroup(inv.groups, g)] @@ (All :> inv.hosts),
              !.hostsMeta = [h \in ToSet(inv.hosts) |-> inv.conn[h]]]

(* One entry for a host out of all its groups; the last name wins.         *)
HostRaw(raw, h) ==
  LET in(k) == {g \in DOMAIN raw : h \in DOMAIN raw[g].hosts /\ k \in DOMAIN raw[g].hosts[h]}
      keys == UNION {DOMAIN raw[g].hosts[h] : g \in {x \in DOMAIN raw : h \in DOMAIN raw[x].hosts}}
  IN [k \in keys |-> raw[Max(in(k))].hosts[h][k]]

Refused == [ok |-> FALSE]

(* build: files is [group, host], what group_vars and host_vars hold.  The *)
(* connection settings are taken before those files are read.              *)
Build(raw, files) ==
  LET AllOf(part) == IF All \in DOMAIN raw THEN raw[All][part] ELSE <<>>
      groups == [g \in DOMAIN raw \ {All} |->
                   [hosts |-> Sorted(DOMAIN raw[g].hosts), vars |-> raw[g].vars, children |-> raw[g].children]]
      hosts == UNION {DOMAIN raw[g].hosts : g \in DOMAIN raw}
      entry == [h \in hosts |-> HostRaw(raw, h)]
      File(of, n) == IF n \in DOMAIN of THEN of[n] ELSE <<>>
      filed == [g \in DOMAIN groups |-> [groups[g] EXCEPT !.vars = MergeVars(File(files.group, g), @)]]
      allVars == MergeVars(File(files.group, All), AllOf("vars"))
      inv == [hosts |-> Sorted(hosts), groups |-> filed,
              conn |-> [h \in hosts |-> Settings(Over(entry[h], GroupVars(groups, AllOf("vars"), h)))],
              vars |-> [h \in hosts |-> Over(MergeVars(File(files.host, h), Plain(entry[h])),
                                             Plain(GroupVars(filed, allVars, h)))],
              groupNames |-> [h \in hosts |-> Sorted(ToSet(GroupMembership(filed, h)))],
              groupMap |-> <<>>, hostsMeta |-> <<>>]
  IN IF \E g \in DOMAIN groups : ~ToSet(groups[g].children) \subseteq DOMAIN groups \/ ~ValidateVia(inv)
     THEN Refused
     ELSE [ok |-> TRUE, inv |-> PrecomputeTopology(inv)]

(* `wdp run --hosts`: no group, every host once, in the order given.       *)
FromHosts(list, conn) ==
  LET hosts == FoldLeft(LAMBDA s, h : IF h \in ToSet(s) THEN s ELSE Append(s, h), <<>>, list)
  IN PrecomputeTopology(
       [hosts |-> hosts, groups |-> <<>>, conn |-> [h \in ToSet(hosts) |-> conn[h]],
        vars |-> [h \in ToSet(hosts) |-> <<>>], groupNames |-> [h \in ToSet(hosts) |-> <<All>>],
        groupMap |-> <<>>, hostsMeta |-> <<>>])

-----------------------------------------------------------------------------
(* Patterns.  A segment is [kind: "all"], [kind: "name", name] or           *)
(* [kind: "glob", names], the names it matches; a token is                  *)
(* [neg: BOOLEAN, segs: sequence of segments joined by :&]; a pattern is a  *)
(* sequence of tokens.                                                     *)
Matched(set) == [ok |-> TRUE, set |-> set]

MatchSegment(inv, seg) ==
  LET hosts == ToSet(inv.hosts)
      members(g) == ToSet(ExpandGroup(inv.groups, g))
  IN CASE seg.kind = "all" -> Matched(hosts)
       [] seg.kind = "glob" ->
            IF seg.names \cap (DOMAIN inv.groups \cup hosts) = {} THEN Refused
            ELSE Matched((seg.names \cap hosts) \cup UNION {members(g) : g \in seg.names \cap DOMAIN inv.groups})
       [] seg.name \in DOMAIN inv.groups -> Matched(members(seg.name))
       [] seg.name \in hosts -> Matched({seg.name})
       [] OTHER -> Refused

TokenHosts(inv, token) ==
  FoldLeft(LAMBDA set, seg : set \cap MatchSegment(inv, seg).set, ToSet(inv.hosts), token.segs)

(* A host is picked that no negated token has and another one has.          *)
Picked(inv, pattern, h) == {t.neg : t \in {x \in ToSet(pattern) : h \in TokenHosts(inv, x)}} = {FALSE}

Select(inv, pattern) ==
  IF \E t \in ToSet(pattern) : \E s \in ToSet(t.segs) : ~MatchSegment(inv, s).ok THEN Refused
  ELSE [ok |-> TRUE, hosts |-> SelectSeq(inv.hosts, LAMBDA h : Picked(inv, pattern, h))]

(* An empty limit is no limit.                                             *)
Among(hosts, allowed) ==
  IF allowed.ok THEN [ok |-> TRUE, hosts |-> SelectSeq(hosts, LAMBDA h : h \in ToSet(allowed.hosts))] ELSE Refused
ApplyLimit(inv, hosts, limit) ==
  IF limit = <<>> THEN [ok |-> TRUE, hosts |-> hosts] ELSE Among(hosts, Select(inv, limit))

Limited(inv, picked, limit) == IF picked.ok THEN ApplyLimit(inv, picked.hosts, limit) ELSE Refused
SelectLimited(inv, pattern, limit) == Limited(inv, Select(inv, pattern), limit)

(* A pattern that does not resolve selects nothing, and so does a limit.   *)
HostsIfOk(picked) == IF picked.ok THEN picked.hosts ELSE <<>>
SelectPlays(inv, patterns, limit) ==
  LET union == UNION {ToSet(HostsIfOk(Select(inv, p))) : p \in patterns}
  IN HostsIfOk(ApplyLimit(inv, SelectSeq(inv.hosts, LAMBDA h : h \in union), limit))

-----------------------------------------------------------------------------
(* What modules do to the inventory of a run.                              *)
AddDynamicGroup(inv, name, members) ==
  LET old == IF name \in DOMAIN inv.groups THEN inv.groups[name]
             ELSE [hosts |-> <<>>, vars |-> <<>>, children |-> <<>>]
      new == SelectSeq(members, LAMBDA m : m \in ToSet(inv.hosts) \ ToSet(old.hosts))
  IN PrecomputeTopology([inv EXCEPT !.groups = (name :> [old EXCEPT !.hosts = @ \o new]) @@ inv.groups])

(* Mutant of AddRuntimeHost: the caches are only rebuilt with a group.     *)
Entered(inv, h, conn, vars) ==
  IF h \in ToSet(inv.hosts)
  THEN [inv EXCEPT !.conn[h] = Over(conn, @), !.vars[h] = Over(vars, @)]
  ELSE [inv EXCEPT !.hosts = Append(@, h), !.conn = (h :> conn) @@ @, !.vars = (h :> vars) @@ @,
                   !.groupNames = (h :> <<>>) @@ @]
Joined(inv, h, groups) ==
  LET names == inv.groupNames[h]
  IN [FoldLeft(LAMBDA i, g : AddDynamicGroup(i, g, <<h>>), inv, groups)
        EXCEPT !.groupNames[h] = names \o SelectSeq(groups, LAMBDA g : g \notin ToSet(names))]
AddRuntimeHostLazily(inv, h, conn, vars, groups) ==
  IF groups = <<>> THEN Entered(inv, h, conn, vars) ELSE Joined(Entered(inv, h, conn, vars), h, groups)

AddRuntimeHost(inv, h, conn, vars, groups) ==
  IF groups = <<>> THEN PrecomputeTopology(Entered(inv, h, conn, vars))
  ELSE Joined(Entered(inv, h, conn, vars), h, groups)
=============================================================================
