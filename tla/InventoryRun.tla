----------------------------- MODULE InventoryRun -----------------------------
(***************************************************************************)
(* The inventory of a run: loaded from its files, then changed by the tasks *)
(* add_host and group_by of one play while the next plays select their      *)
(* hosts from it (src/internal/executor/exec.go:171-185, under invMu, so    *)
(* that one change is one step).                                           *)
(***************************************************************************)
EXTENDS Inventory

CONSTANTS Sources,    \* the files of the inventory: a set of [raw, files]
          Additions,  \* what add_host is asked for: [host, conn, vars, groups]
          Groupings,  \* what group_by is asked for: [group, host]
          MaxChanges

VARIABLES source, inv,
          joined,   \* history: the pairs <<host, group>> added by the tasks
          updated,  \* history: the hosts add_host was called for
          changes
invVars == <<source, inv, joined, updated, changes>>

Init ==
  /\ source \in Sources
  /\ LET built == Build(source.raw, source.files) IN built.ok /\ inv = built.inv
  /\ joined = {} /\ updated = {} /\ changes = 0

AddHost(a) ==
  /\ inv' = AddRuntimeHost(inv, a.host, a.conn, a.vars, a.groups)
  /\ joined' = joined \cup {<<a.host, g>> : g \in ToSet(a.groups)}
  /\ updated' = updated \cup {a.host}

GroupBy(b) ==
  /\ b.host \in ToSet(inv.hosts)
  /\ inv' = AddDynamicGroup(inv, b.group, <<b.host>>)
  /\ joined' = joined \cup {<<b.host, b.group>>}
  /\ UNCHANGED updated

Next ==
  /\ changes < MaxChanges /\ changes' = changes + 1
  /\ UNCHANGED source
  /\ (\E a \in Additions : AddHost(a)) \/ (\E b \in Groupings : GroupBy(b))

-----------------------------------------------------------------------------
(* The groups under a group, itself among them, and who is in one of them.  *)
RECURSIVE Under(_, _)
Under(groups, S) ==
  LET more == S \cup UNION {ToSet(groups[g].children) \cap DOMAIN groups : g \in S}
  IN IF more = S THEN S ELSE Under(groups, more)
Members(groups, g) == UNION {ToSet(groups[c].hosts) : c \in Under(groups, {g})}

(* The variables of a host come from the nearest that defines them: the     *)
(* file of the host, its entry, a group of it below which no other group of *)
(* it defines the variable, and last the group all; a group's file counts   *)
(* before its entry.  A map is taken as a whole, only a file and the entry  *)
(* beside it are merged into one.  The order of the names decides only      *)
(* between groups none of which is below the other (vars.go:11-138,         *)
(* build.go:75-108, inventory.go:131-145).                                  *)
NearestWins ==
  \A h \in ToSet(inv.hosts) \ updated :
    LET raw == source.raw
        files == source.files
        static == [g \in DOMAIN raw \ {All} |->
                     [hosts |-> SetToSeq(DOMAIN raw[g].hosts), children |-> raw[g].children]]
        of(map, n) == IF n \in DOMAIN map THEN map[n] ELSE <<>>
        both(file, entry, k) == k \in MapKeys \cap DOMAIN file \cap DOMAIN entry
        with(file, entry) ==
          [k \in DOMAIN file \cup DOMAIN entry |->
             IF both(file, entry, k) THEN file[k] @@ entry[k] ELSE (file @@ entry)[k]]
        vars == [g \in DOMAIN raw |-> with(of(files.group, g), raw[g].vars)]
        keys == UNION {DOMAIN vars[g] : g \in DOMAIN raw} \ HostKeys
        mine == {g \in DOMAIN static : h \in Members(static, g)}
        defining(k) == {g \in mine : k \in DOMAIN vars[g]}
        nearest(k) == {g \in defining(k) : defining(k) \cap Under(static, {g}) = {g}}
        entries == {raw[g].hosts[h] : g \in {x \in DOMAIN raw : h \in DOMAIN raw[x].hosts}}
    IN \A k \in keys :
         CASE k \in DOMAIN of(files.host, h) ->
                \E e \in entries : /\ k \in UNION {DOMAIN x : x \in entries} => k \in DOMAIN e
                                   /\ inv.vars[h][k] = with(files.host[h], e)[k]
           [] k \notin DOMAIN of(files.host, h) /\ (\E e \in entries : k \in DOMAIN e) ->
                inv.vars[h][k] \in {e[k] : e \in {x \in entries : k \in DOMAIN x}}
           [] OTHER ->
                IF defining(k) # {} THEN inv.vars[h][k] \in {vars[g][k] : g \in nearest(k)}
                ELSE IF All \in DOMAIN vars /\ k \in DOMAIN vars[All] THEN inv.vars[h][k] = vars[All][k]
                ELSE k \notin DOMAIN inv.vars[h]

(* Plays select from the inventory as the tasks before left it: a pattern   *)
(* that names a group, and the built-in variables groups and hosts, give    *)
(* the hosts of the group and of the groups under it, those the tasks added *)
(* among them (topology.go:42-115, select.go:135).                         *)
SelectionIsCurrent ==
  LET Name(g) == <<[neg |-> FALSE, segs |-> <<[kind |-> "name", name |-> g, names |-> {}]>>]>>
  IN /\ \A g \in DOMAIN inv.groups :
          LET now == Members(inv.groups, g) IN
          ToSet(Select(inv, Name(g)).hosts) = now /\ ToSet(inv.groupMap[g]) = now
     /\ inv.groupMap[All] = inv.hosts
     /\ inv.hostsMeta = inv.conn
     /\ \A p \in joined : \A g \in DOMAIN inv.groups :
          p[2] \in Under(inv.groups, {g}) => p[1] \in ToSet(Select(inv, Name(g)).hosts)
=============================================================================
