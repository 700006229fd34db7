------------------------------ MODULE SessionCA ------------------------------
(***************************************************************************)
(* The directory of the session CA (src/internal/pushcerts), shared by the *)
(* wdp processes of one control host: each loads the CA or rebuilds it     *)
(* under a lock file, issues the leaf certificates that are missing and    *)
(* reads what it needs.  Every file is written at once and renamed; between*)
(* two files other processes take their turns, or the process dies.        *)
(* One leaf stands for the two.  A key is a number; the certificate of a   *)
(* key has its number, that of a leaf also the number of the CA's key.     *)
(***************************************************************************)
EXTENDS Naturals, FiniteSets

CONSTANTS Procs,       \* wdp processes
          MaxCrashes   \* bound: processes that die on their way

VARIABLES ca,          \* [crt, key] of the CA
          leaf,        \* [crt, key] of the leaf; crt is <<key, key of the CA>>
          lock,        \* who created the lock file, or Free
          expired,     \* keys of the CAs that have expired
          pc, got,     \* where a process is, and the material it has read
          mine,        \* by process: the last key it made
          keys,        \* keys made so far
          dead         \* processes that died

caVars == <<ca, leaf, lock, expired, pc, got, mine, keys, dead>>

Free == "free"
NoKey == 0
NoCert == <<NoKey, NoKey>>
Nothing == [ca |-> NoKey, crt |-> NoCert, key |-> NoKey]

CAInit ==
  /\ ca \in {[crt |-> NoKey, key |-> NoKey], [crt |-> 1, key |-> 1]}
  /\ leaf = [crt |-> NoCert, key |-> NoKey]
  /\ lock = Free
  /\ expired = {}
  /\ pc = [p \in Procs |-> "load"]
  /\ got = [p \in Procs |-> Nothing]
  /\ mine = [p \in Procs |-> NoKey]
  /\ keys = 1
  /\ dead = {}

(* LoadCAAt: the pair, missing, or something that is looked at by hand. An *)
(* expired certificate is an error like any other.  The two files are read *)
(* in one step: a pair read apart only fits when it was the pair.          *)
Loaded ==
  IF ca.crt = NoKey \/ (ca.crt \notin expired /\ ca.key = NoKey) THEN "missing"
  ELSE IF ca.crt = ca.key /\ ca.crt \notin expired THEN "valid"
  ELSE "unreadable"

Step(p, from) == p \notin dead /\ pc[p] = from
To(p, next) == pc' = [pc EXCEPT ![p] = next]
MakeKey(p) == keys' = keys + 1 /\ mine' = [mine EXCEPT ![p] = keys + 1]

Load(p) ==
  /\ Step(p, "load")
  /\ To(p, CASE Loaded = "valid" -> "leaf" [] Loaded = "missing" -> "lock" [] OTHER -> "error")
  /\ UNCHANGED <<ca, leaf, lock, expired, got, mine, keys, dead>>

-----------------------------------------------------------------------------
(* withCALock: create the file, or wait; the file of a dead process is     *)
(* taken away, which somebody else may do as well.                         *)
Lock(p) ==
  /\ Step(p, "lock") /\ lock = Free
  /\ lock' = p
  /\ To(p, "recheck")
  /\ UNCHANGED <<ca, leaf, expired, got, mine, keys, dead>>

(* Mutant of Stale: a lock is waited for, never taken away.                *)
StaleNever == FALSE

Stale == lock \in dead

SeeStale(p) ==
  /\ Step(p, "lock") /\ Stale
  /\ To(p, "steal")
  /\ UNCHANGED <<ca, leaf, lock, expired, got, mine, keys, dead>>

Steal(p) ==
  /\ Step(p, "steal")
  /\ lock' = Free
  /\ To(p, "lock")
  /\ UNCHANGED <<ca, leaf, expired, got, mine, keys, dead>>

(* 15 seconds have passed: the lock is held by a living process, or by one *)
(* that has not been dead for a minute.                                    *)
GiveUp(p) ==
  /\ Step(p, "lock") /\ lock # Free
  /\ To(p, "error")
  /\ UNCHANGED <<ca, leaf, lock, expired, got, mine, keys, dead>>

(* Mutant of DoneMeanwhile: the lock is enough.                            *)
DoneMeanwhileIgnored == FALSE

DoneMeanwhile == Loaded = "valid"

Recheck(p) ==
  /\ Step(p, "recheck")
  /\ To(p, IF DoneMeanwhile THEN "unlock" ELSE "wipe")
  /\ UNCHANGED <<ca, leaf, lock, expired, got, mine, keys, dead>>

Wipe(p) ==
  /\ Step(p, "wipe")
  /\ ca' = [crt |-> NoKey, key |-> NoKey]
  /\ leaf' = [crt |-> NoCert, key |-> NoKey]
  /\ To(p, "init")
  /\ UNCHANGED <<lock, expired, got, mine, keys, dead>>

(* ca.Init: not over an existing certificate; then the key.                *)
InitCert(p) ==
  /\ Step(p, "init")
  /\ IF ca.crt # NoKey THEN To(p, "fail") /\ UNCHANGED <<ca, mine, keys>>
     ELSE MakeKey(p) /\ ca' = [ca EXCEPT !.crt = keys + 1] /\ To(p, "init key")
  /\ UNCHANGED <<leaf, lock, expired, got, dead>>

InitKey(p) ==
  /\ Step(p, "init key")
  /\ ca' = [ca EXCEPT !.key = mine[p]]
  /\ To(p, "unlock")
  /\ UNCHANGED <<leaf, lock, expired, got, mine, keys, dead>>

(* The lock file is removed by its name, whoever made it.                  *)
Unlock(p) ==
  /\ \/ Step(p, "unlock") /\ To(p, "leaf")
     \/ Step(p, "fail") /\ To(p, "error")
  /\ lock' = Free
  /\ UNCHANGED <<ca, leaf, expired, got, mine, keys, dead>>

-----------------------------------------------------------------------------
(* ensureLeaf, without the lock: a certificate is there, or is issued from *)
(* the CA as it is now.                                                    *)
EnsureLeaf(p) ==
  /\ Step(p, "leaf")
  /\ \/ leaf.crt # NoCert /\ leaf.crt[2] \notin expired /\ To(p, "read ca") /\ UNCHANGED got
     \/ /\ leaf.crt = NoCert \/ leaf.crt[2] \in expired
        /\ IF Loaded = "valid" THEN To(p, "sign") /\ got' = [got EXCEPT ![p].ca = ca.crt]
           ELSE To(p, "error") /\ UNCHANGED got
  /\ UNCHANGED <<ca, leaf, lock, expired, mine, keys, dead>>

(* signAndWrite: the certificate, then its key.                            *)
WriteLeaf(p) ==
  /\ Step(p, "sign")
  /\ MakeKey(p)
  /\ leaf' = [leaf EXCEPT !.crt = <<keys + 1, got[p].ca>>]
  /\ To(p, "leaf key")
  /\ UNCHANGED <<ca, lock, expired, got, dead>>

WriteLeafKey(p) ==
  /\ Step(p, "leaf key")
  /\ leaf' = [leaf EXCEPT !.key = mine[p]]
  /\ To(p, "read ca")
  /\ UNCHANGED <<ca, lock, expired, got, mine, keys, dead>>

Read(p, from, next, value, none, new) ==
  /\ Step(p, from)
  /\ IF value = none THEN To(p, "error") /\ UNCHANGED got
     ELSE To(p, next) /\ got' = [got EXCEPT ![p] = new]
  /\ UNCHANGED <<ca, leaf, lock, expired, mine, keys, dead>>

ReadCA(p) == Read(p, "read ca", "read crt", ca.crt, NoKey, [got[p] EXCEPT !.ca = ca.crt])
ReadCert(p) == Read(p, "read crt", "read key", leaf.crt, NoCert, [got[p] EXCEPT !.crt = leaf.crt])
ReadKey(p) == Read(p, "read key", "done", leaf.key, NoKey, [got[p] EXCEPT !.key = leaf.key])

-----------------------------------------------------------------------------
Ended(p) == p \in dead \/ pc[p] \in {"done", "error"}

Die(p) ==
  /\ ~Ended(p) /\ Cardinality(dead) < MaxCrashes
  /\ dead' = dead \cup {p}
  /\ UNCHANGED <<ca, leaf, lock, expired, pc, got, mine, keys>>

(* A day has passed since the CA was made; nobody is at work.              *)
Expire ==
  /\ ca.crt # NoKey /\ ca.crt \notin expired
  /\ \A p \in Procs : Ended(p) \/ pc[p] = "load"
  /\ expired' = expired \cup {ca.crt}
  /\ UNCHANGED <<ca, leaf, lock, pc, got, mine, keys, dead>>

Go(p) ==
  \/ Load(p) \/ Lock(p) \/ SeeStale(p) \/ Steal(p) \/ Recheck(p) \/ Wipe(p) \/ InitCert(p) \/ InitKey(p)
  \/ Unlock(p) \/ EnsureLeaf(p) \/ WriteLeaf(p) \/ WriteLeafKey(p) \/ ReadCA(p) \/ ReadCert(p) \/ ReadKey(p)

CANext == (\E p \in Procs : Go(p) \/ GiveUp(p) \/ Die(p)) \/ Expire

(* A process that waits for the lock gets it or gives up.                  *)
CAFair == \A p \in Procs : WF_caVars(Go(p))

CASpec == CAInit /\ [][CANext]_caVars

-----------------------------------------------------------------------------
(* As long as no process dies on its way and no day goes by, all of them   *)
(* work with one CA, and with a leaf it has issued: nobody rebuilds it     *)
(* under another.                                                          *)
SameChain ==
  dead = {} /\ expired = {} =>
    \A p, q \in Procs : pc[p] = "done" /\ pc[q] = "done" => got[p].ca = got[q].ca /\ got[p].crt[2] = got[q].ca

(* Every process that does not die comes to an end, even when the holder of*)
(* the lock has died and nobody ever gives up waiting.                     *)
LoadEnds == \A p \in Procs : <>Ended(p)

(* What LoadOrCreate says of itself: a CA that has expired is rebuilt.     *)
ExpiredIsRebuilt ==
  [][\A p \in Procs : Step(p, "load") /\ pc'[p] # "load" /\ ca.crt \in expired => pc'[p] = "lock"]_caVars

(* The material of a process is a certificate and its key.  Two processes  *)
(* that issue the leaf at the same time break it.                          *)
KeyFits == \A p \in Procs : pc[p] = "done" => got[p].crt[1] = got[p].key
=============================================================================
