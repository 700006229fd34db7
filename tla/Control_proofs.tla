---------------------------- MODULE Control_proofs ----------------------------
(***************************************************************************)
(* What several wdp processes on one control host share: that they end up  *)
(* under one CA as long as none dies on its way and no day goes by, and    *)
(* that the deployment records are what the commands said they would be.   *)
(***************************************************************************)
EXTENDS SessionCA, ReleaseStore, Batches_proofs

(***************************************************************************)
(* The session CA.                                                         *)
(***************************************************************************)
Calm == dead = {} /\ expired = {}

Locked == {"recheck", "wipe", "init", "init key", "unlock", "fail"}
Before == {"load", "lock", "steal", "error"} \cup Locked
After == {"leaf", "sign", "leaf key", "read ca", "read crt", "read key", "done"}

Material == [ca : Nat, crt : Nat \X Nat, key : Nat]
TypeInv ==
  /\ ca \in [crt : Nat, key : Nat]
  /\ leaf \in [crt : Nat \X Nat, key : Nat]
  /\ keys \in Nat /\ keys >= 1
  /\ pc \in [Procs -> Before \cup After]
  /\ got \in [Procs -> Material]
  /\ mine \in [Procs -> Nat]

(* Who is between lock and unlock holds the lock: nobody steals it from the *)
(* living.                                                                 *)
LockInv == \A p \in Procs : pc[p] # "steal" /\ (pc[p] \in Locked => lock = p)

(* The pair is written by who found it missing, in this order.             *)
Absent == ca.crt = NoKey /\ ca.key = NoKey
Whole == ca.crt # NoKey /\ ca.key = ca.crt
PairInv ==
  /\ Absent \/ Whole \/ \E p \in Procs : pc[p] = "init key"
  /\ \A p \in Procs :
       /\ pc[p] \in {"wipe", "init"} => Absent
       /\ pc[p] = "init key" => ca.crt # NoKey /\ ca.key = NoKey /\ ca.crt = mine[p]
       /\ pc[p] \in After \cup {"unlock"} => Whole
       /\ pc[p] # "fail"

(* What was issued or read came from the pair that is there.               *)
ChainInv ==
  /\ leaf.crt # NoCert => Whole /\ leaf.crt[2] = ca.crt
  /\ \A p \in Procs :
       /\ pc[p] \in {"sign", "read crt", "read key", "done"} => got[p].ca = ca.crt
       /\ pc[p] \in {"read key", "done"} => got[p].crt[2] = ca.crt

IInv == TypeInv /\ (Calm => LockInv /\ PairInv /\ ChainInv)

-----------------------------------------------------------------------------
LEMMA CaEdit ==
  ASSUME NEW m \in Material, NEW n \in Nat
  PROVE  [m EXCEPT !.ca = n] \in Material /\ [m EXCEPT !.ca = n].ca = n /\ [m EXCEPT !.ca = n].crt = m.crt
BY DEF Material

LEMMA CrtEdit ==
  ASSUME NEW m \in Material, NEW cert \in Nat \X Nat
  PROVE  [m EXCEPT !.crt = cert] \in Material /\ [m EXCEPT !.crt = cert].crt = cert /\ [m EXCEPT !.crt = cert].ca = m.ca
BY DEF Material

LEMMA KeyEdit ==
  ASSUME NEW m \in Material, NEW n \in Nat
  PROVE  [m EXCEPT !.key = n] \in Material /\ [m EXCEPT !.key = n].crt = m.crt /\ [m EXCEPT !.key = n].ca = m.ca
BY DEF Material

LEMMA GotEdit ==
  ASSUME got \in [Procs -> Material], NEW p \in Procs, NEW m \in Material, got' = [got EXCEPT ![p] = m]
  PROVE  got' \in [Procs -> Material] /\ got'[p] = m /\ \A q \in Procs \ {p} : got'[q] = got[q]
OBVIOUS

LEMMA NewKey ==
  ASSUME keys \in Nat, keys >= 1, mine \in [Procs -> Nat], NEW p \in Procs, MakeKey(p)
  PROVE  /\ keys' \in Nat /\ keys' >= 1 /\ keys + 1 \in Nat /\ keys + 1 # 0
         /\ mine' \in [Procs -> Nat] /\ mine'[p] = keys + 1 /\ \A q \in Procs \ {p} : mine'[q] = mine[q]
BY DEF MakeKey

LEMMA InitInv == CAInit => IInv
BY DEF CAInit, IInv, TypeInv, Material, LockInv, PairInv, ChainInv, Before, After, Locked, Absent, Whole, NoKey, NoCert, Nothing

(* What TypeInv says of the parts that a step reads.                        *)
LEMMA Types ==
  ASSUME TypeInv, NEW p \in Procs
  PROVE  /\ got \in [Procs -> Material] /\ got[p] \in Material /\ got[p].ca \in Nat
         /\ ca.crt \in Nat /\ ca.key \in Nat
         /\ leaf.crt \in Nat \X Nat /\ leaf.key \in Nat
         /\ keys \in Nat /\ keys >= 1 /\ mine \in [Procs -> Nat]
BY DEF TypeInv, Material

LEMMA TypeStep == TypeInv /\ [CANext]_caVars => TypeInv'
<1> SUFFICES ASSUME TypeInv, CANext PROVE TypeInv'
  BY DEF TypeInv, caVars
<1> USE DEF Before, After, Locked, Step, To, NoKey, NoCert
<1>1. CASE Expire
  BY <1>1 DEF Expire, TypeInv
<1>2. ASSUME NEW p \in Procs, Go(p) \/ GiveUp(p) \/ Die(p) PROVE TypeInv'
  <2>1. CASE Load(p)
    BY <2>1 DEF Load, Loaded, TypeInv
  <2>2. CASE Lock(p)
    BY <2>2 DEF Lock, TypeInv
  <2>3. CASE SeeStale(p)
    BY <2>3 DEF SeeStale, TypeInv
  <2>4. CASE Steal(p)
    BY <2>4 DEF Steal, TypeInv
  <2>5. CASE Recheck(p)
    BY <2>5 DEF Recheck, TypeInv
  <2>6. CASE Wipe(p)
    BY <2>6 DEF Wipe, TypeInv
  <2>7. CASE InitCert(p)
    <3>1. pc' \in [Procs -> Before \cup After]
      BY <2>7 DEF InitCert, TypeInv
    <3>2. CASE UNCHANGED <<ca, mine, keys>>
      BY <2>7, <3>1, <3>2 DEF InitCert, TypeInv
    <3>3. CASE MakeKey(p) /\ ca' = [ca EXCEPT !.crt = keys + 1]
      <4>1. keys' \in Nat /\ keys' >= 1 /\ mine' \in [Procs -> Nat] /\ keys + 1 \in Nat
        BY <3>3, Types, NewKey
      <4>2. ca' \in [crt : Nat, key : Nat]
        BY <3>3, <4>1 DEF TypeInv
      <4> QED
        BY <2>7, <3>1, <4>1, <4>2 DEF InitCert, TypeInv
    <3> QED
      BY <2>7, <3>2, <3>3 DEF InitCert
  <2>8. CASE InitKey(p)
    BY <2>8 DEF InitKey, TypeInv
  <2>9. CASE Unlock(p)
    BY <2>9 DEF Unlock, TypeInv
  <2>10. CASE EnsureLeaf(p)
    <3>1. pc' \in [Procs -> Before \cup After]
      BY <2>10 DEF EnsureLeaf, TypeInv
    <3>2. CASE UNCHANGED got
      BY <2>10, <3>1, <3>2 DEF EnsureLeaf, TypeInv
    <3>3. CASE got' = [got EXCEPT ![p] = [got[p] EXCEPT !.ca = ca.crt]]
      <4>1. got' \in [Procs -> Material]
        BY <3>3, Types, CaEdit, GotEdit
      <4> QED
        BY <2>10, <3>1, <4>1 DEF EnsureLeaf, TypeInv
    <3> QED
      BY <2>10, <3>2, <3>3 DEF EnsureLeaf
  <2>11. CASE WriteLeaf(p)
    <3>1. keys' \in Nat /\ keys' >= 1 /\ mine' \in [Procs -> Nat] /\ keys + 1 \in Nat
      BY <2>11, Types, NewKey DEF WriteLeaf
    <3>2. leaf' = [leaf EXCEPT !.crt = <<keys + 1, got[p].ca>>]
      BY <2>11 DEF WriteLeaf
    <3>3. <<keys + 1, got[p].ca>> \in Nat \X Nat
      BY <3>1, Types
    <3>4. leaf' \in [crt : Nat \X Nat, key : Nat]
      BY <3>2, <3>3 DEF TypeInv
    <3> QED
      BY <2>11, <3>1, <3>4 DEF WriteLeaf, TypeInv
  <2>12. CASE WriteLeafKey(p)
    BY <2>12 DEF WriteLeafKey, TypeInv
  <2>13. CASE ReadCA(p)
    <3>1. pc' \in [Procs -> Before \cup After]
      BY <2>13 DEF ReadCA, Read, TypeInv
    <3>2. CASE UNCHANGED got
      BY <2>13, <3>1, <3>2 DEF ReadCA, Read, TypeInv
    <3>3. CASE got' = [got EXCEPT ![p] = [got[p] EXCEPT !.ca = ca.crt]]
      <4>1. got' \in [Procs -> Material]
        BY <3>3, Types, CaEdit, GotEdit
      <4> QED
        BY <2>13, <3>1, <4>1 DEF ReadCA, Read, TypeInv
    <3> QED
      BY <2>13, <3>2, <3>3 DEF ReadCA, Read
  <2>14. CASE ReadCert(p)
    <3>1. pc' \in [Procs -> Before \cup After]
      BY <2>14 DEF ReadCert, Read, TypeInv
    <3>2. CASE UNCHANGED got
      BY <2>14, <3>1, <3>2 DEF ReadCert, Read, TypeInv
    <3>3. CASE got' = [got EXCEPT ![p] = [got[p] EXCEPT !.crt = leaf.crt]]
      <4>1. got' \in [Procs -> Material]
        BY <3>3, Types, CrtEdit, GotEdit
      <4> QED
        BY <2>14, <3>1, <4>1 DEF ReadCert, Read, TypeInv
    <3> QED
      BY <2>14, <3>2, <3>3 DEF ReadCert, Read
  <2>15. CASE ReadKey(p)
    <3>1. pc' \in [Procs -> Before \cup After]
      BY <2>15 DEF ReadKey, Read, TypeInv
    <3>2. CASE UNCHANGED got
      BY <2>15, <3>1, <3>2 DEF ReadKey, Read, TypeInv
    <3>3. CASE got' = [got EXCEPT ![p] = [got[p] EXCEPT !.key = leaf.key]]
      <4>1. got' \in [Procs -> Material]
        BY <3>3, Types, KeyEdit, GotEdit
      <4> QED
        BY <2>15, <3>1, <4>1 DEF ReadKey, Read, TypeInv
    <3> QED
      BY <2>15, <3>2, <3>3 DEF ReadKey, Read
  <2>16. CASE GiveUp(p)
    BY <2>16 DEF GiveUp, TypeInv
  <2>17. CASE Die(p)
    BY <2>17 DEF Die, TypeInv
  <2> QED
    BY <1>2, <2>1, <2>2, <2>3, <2>4, <2>5, <2>6, <2>7, <2>8, <2>9, <2>10, <2>11, <2>12, <2>13, <2>14, <2>15, <2>16, <2>17 DEF Go
<1> QED
  BY <1>1, <1>2 DEF CANext

LEMMA CalmStep ==
  ASSUME Free \notin Procs, TypeInv, Calm', CANext, Calm => LockInv /\ PairInv /\ ChainInv
  PROVE  LockInv' /\ PairInv' /\ ChainInv'
<1>1. CASE Expire
  BY <1>1 DEF Expire, Calm, TypeInv
<1>2. ASSUME NEW p \in Procs, Go(p) \/ GiveUp(p) \/ Die(p) PROVE LockInv' /\ PairInv' /\ ChainInv'
  <2> USE DEF LockInv, PairInv, ChainInv, Calm, Before, After, Locked, Absent, Whole, Step, To, NoKey, NoCert
  <2>0. pc \in [Procs -> Before \cup After]
    BY DEF TypeInv
  <2>1. CASE Load(p)
    BY <2>1 DEF Load, Loaded, TypeInv
  <2>2. CASE Lock(p)
    BY <2>2 DEF Lock, TypeInv
  <2>3. CASE SeeStale(p)
    BY <2>3 DEF SeeStale, Stale, TypeInv
  <2>4. CASE Steal(p)
    BY <2>4 DEF Steal, TypeInv
  <2>5. CASE Recheck(p)
    BY <2>5 DEF Recheck, DoneMeanwhile, Loaded, TypeInv
  <2>6. CASE Wipe(p)
    BY <2>6 DEF Wipe, TypeInv
  <2>7. CASE InitCert(p)
    <3>1. Calm /\ Absent /\ lock = p /\ ca.crt = NoKey
      BY <2>7 DEF InitCert
    <3>2. /\ pc' = [pc EXCEPT ![p] = "init key"] /\ MakeKey(p)
          /\ ca' = [ca EXCEPT !.crt = keys + 1]
          /\ UNCHANGED <<leaf, lock, expired, got, dead>>
      BY <2>7, <3>1 DEF InitCert
    <3>3. keys + 1 # NoKey /\ mine'[p] = keys + 1
      BY <3>2, Types, NewKey
    <3>4. ca'.crt = keys + 1 /\ ca'.key = ca.key
      BY <3>2 DEF TypeInv
    <3>5. pc'[p] = "init key" /\ \A q \in Procs \ {p} : pc'[q] = pc[q] /\ pc[q] \notin Locked \cup After
      BY <2>0, <3>1, <3>2
    <3> QED
      BY <3>1, <3>2, <3>3, <3>4, <3>5
  <2>8. CASE InitKey(p)
    BY <2>8 DEF InitKey, TypeInv
  <2>9. CASE Unlock(p)
    <3>1. Calm /\ pc[p] = "unlock" /\ lock = p /\ Whole
      BY <2>9 DEF Unlock
    <3>2. pc' = [pc EXCEPT ![p] = "leaf"] /\ UNCHANGED <<ca, leaf, expired, got, mine, keys, dead>>
      BY <2>9, <3>1 DEF Unlock
    <3>3. pc'[p] = "leaf" /\ \A q \in Procs \ {p} : pc'[q] = pc[q] /\ pc[q] \notin Locked
      BY <2>0, <3>1, <3>2
    <3> QED
      BY <3>1, <3>2, <3>3
  <2>10. CASE EnsureLeaf(p)
    <3>1. Calm /\ pc[p] = "leaf" /\ Whole /\ UNCHANGED <<ca, leaf, lock, expired, mine, keys, dead>>
      BY <2>10 DEF EnsureLeaf
    <3>2. CASE pc' = [pc EXCEPT ![p] = "read ca"] /\ got' = got
      BY <2>0, <3>1, <3>2
    <3>3. CASE pc' = [pc EXCEPT ![p] = "error"] /\ got' = got
      BY <2>0, <3>1, <3>3
    <3>4. CASE pc' = [pc EXCEPT ![p] = "sign"] /\ got' = [got EXCEPT ![p] = [got[p] EXCEPT !.ca = ca.crt]]
      <4>1. got'[p].ca = ca.crt /\ \A q \in Procs \ {p} : got'[q] = got[q]
        <5>0. [got[p] EXCEPT !.ca = ca.crt] \in Material
          BY Types, CaEdit
        <5>1. [got[p] EXCEPT !.ca = ca.crt] \in Material /\ [got[p] EXCEPT !.ca = ca.crt].ca = ca.crt
          BY <5>0, Types DEF Material
        <5>2. got'[p] = [got[p] EXCEPT !.ca = ca.crt] /\ \A q \in Procs \ {p} : got'[q] = got[q]
          BY <3>4, <5>1, Types, GotEdit
        <5> QED
          BY <5>1, <5>2
      <4> QED
        BY <2>0, <3>1, <3>4, <4>1
    <3> QED
      BY <2>10, <3>2, <3>3, <3>4 DEF EnsureLeaf
  <2>11. CASE WriteLeaf(p)
    <3>1. Calm /\ pc[p] = "sign" /\ Whole /\ got[p].ca = ca.crt
      BY <2>11 DEF WriteLeaf
    <3>2. pc' = [pc EXCEPT ![p] = "leaf key"] /\ leaf' = [leaf EXCEPT !.crt = <<keys + 1, got[p].ca>>]
      BY <2>11 DEF WriteLeaf
    <3>3. UNCHANGED <<ca, lock, expired, got, dead>> /\ \A q \in Procs \ {p} : mine'[q] = mine[q]
      BY <2>11, Types, NewKey DEF WriteLeaf
    <3>4. leaf'.crt[2] = ca.crt
      BY <3>1, <3>2 DEF TypeInv
    <3> QED
      BY <2>0, <3>1, <3>2, <3>3, <3>4
  <2>12. CASE WriteLeafKey(p)
    BY <2>12 DEF WriteLeafKey, TypeInv
  <2>13. CASE ReadCA(p)
    <3>1. Calm /\ pc[p] = "read ca" /\ Whole /\ UNCHANGED <<ca, leaf, lock, expired, mine, keys, dead>>
      BY <2>13 DEF ReadCA, Read
    <3>2. CASE pc' = [pc EXCEPT ![p] = "error"] /\ got' = got
      BY <2>0, <3>1, <3>2
    <3>3. CASE pc' = [pc EXCEPT ![p] = "read crt"] /\ got' = [got EXCEPT ![p] = [got[p] EXCEPT !.ca = ca.crt]]
      <4>1. got'[p].ca = ca.crt /\ \A q \in Procs \ {p} : got'[q] = got[q]
        <5>0. [got[p] EXCEPT !.ca = ca.crt] \in Material
          BY Types, CaEdit
        <5>1. [got[p] EXCEPT !.ca = ca.crt] \in Material /\ [got[p] EXCEPT !.ca = ca.crt].ca = ca.crt
          BY <5>0, Types DEF Material
        <5>2. got'[p] = [got[p] EXCEPT !.ca = ca.crt] /\ \A q \in Procs \ {p} : got'[q] = got[q]
          BY <3>3, <5>1, Types, GotEdit
        <5> QED
          BY <5>1, <5>2
      <4> QED
        BY <2>0, <3>1, <3>3, <4>1
    <3> QED
      BY <2>13, <3>2, <3>3 DEF ReadCA, Read
  <2>14. CASE ReadCert(p)
    <3>1. Calm /\ pc[p] = "read crt" /\ Whole /\ UNCHANGED <<ca, leaf, lock, expired, mine, keys, dead>>
      BY <2>14 DEF ReadCert, Read
    <3>2. CASE pc' = [pc EXCEPT ![p] = "error"] /\ got' = got
      BY <2>0, <3>1, <3>2
    <3>3. CASE pc' = [pc EXCEPT ![p] = "read key"] /\ leaf.crt # NoCert /\ got' = [got EXCEPT ![p] = [got[p] EXCEPT !.crt = leaf.crt]]
      <4>1. got'[p].ca = got[p].ca /\ got'[p].crt = leaf.crt /\ \A q \in Procs \ {p} : got'[q] = got[q]
        <5>1. [got[p] EXCEPT !.crt = leaf.crt] \in Material /\ [got[p] EXCEPT !.crt = leaf.crt].crt = leaf.crt /\ [got[p] EXCEPT !.crt = leaf.crt].ca = got[p].ca
          BY Types, CrtEdit
        <5>2. got'[p] = [got[p] EXCEPT !.crt = leaf.crt] /\ \A q \in Procs \ {p} : got'[q] = got[q]
          BY <3>3, <5>1, Types, GotEdit
        <5> QED
          BY <5>1, <5>2
      <4> QED
        BY <2>0, <3>1, <3>3, <4>1
    <3> QED
      BY <2>14, <3>2, <3>3 DEF ReadCert, Read
  <2>15. CASE ReadKey(p)
    <3>1. Calm /\ got[p].ca = ca.crt /\ got[p].crt[2] = ca.crt /\ Whole /\ UNCHANGED <<ca, leaf, lock, expired, mine, keys, dead>>
      BY <2>15 DEF ReadKey, Read
    <3>2. CASE pc' = [pc EXCEPT ![p] = "error"] /\ got' = got
      BY <2>0, <3>1, <3>2
    <3>3. CASE pc' = [pc EXCEPT ![p] = "done"] /\ got' = [got EXCEPT ![p] = [got[p] EXCEPT !.key = leaf.key]]
      <4>1. got'[p].ca = got[p].ca /\ got'[p].crt = got[p].crt /\ \A q \in Procs \ {p} : got'[q] = got[q]
        <5>1. [got[p] EXCEPT !.key = leaf.key] \in Material /\ [got[p] EXCEPT !.key = leaf.key].crt = got[p].crt /\ [got[p] EXCEPT !.key = leaf.key].ca = got[p].ca
          BY Types, KeyEdit
        <5>2. got'[p] = [got[p] EXCEPT !.key = leaf.key] /\ \A q \in Procs \ {p} : got'[q] = got[q]
          BY <3>3, <5>1, Types, GotEdit
        <5> QED
          BY <5>1, <5>2
      <4> QED
        BY <2>0, <3>1, <3>3, <4>1
    <3> QED
      BY <2>15, <3>2, <3>3 DEF ReadKey, Read
  <2>16. CASE GiveUp(p)
    BY <2>16 DEF GiveUp, TypeInv
  <2>17. CASE Die(p)
    BY <2>17 DEF Die, TypeInv
  <2> QED
    BY <1>2, <2>1, <2>2, <2>3, <2>4, <2>5, <2>6, <2>7, <2>8, <2>9, <2>10, <2>11, <2>12, <2>13, <2>14, <2>15, <2>16, <2>17 DEF Go
<1> QED
  BY <1>1, <1>2 DEF CANext

(* Any number of processes that load the session CA or rebuild it under the *)
(* lock (pushcerts.go:130-220) end under one CA and with a leaf that it     *)
(* issued, as long as none dies and no CA expires.  A process is not the    *)
(* value that says nobody has the lock.                                     *)
THEOREM OneChain == ASSUME Free \notin Procs PROVE CASpec => []SameChain
<1>1. IInv /\ [CANext]_caVars => IInv'
  <2> SUFFICES ASSUME IInv, [CANext]_caVars PROVE IInv'
    OBVIOUS
  <2>1. TypeInv'
    BY TypeStep DEF IInv
  <2>2. CASE CANext
    BY <2>1, <2>2, CalmStep DEF IInv
  <2>3. CASE UNCHANGED caVars
    BY <2>1, <2>3 DEF IInv, caVars, Calm, LockInv, PairInv, ChainInv, Absent, Whole
  <2> QED
    BY <2>2, <2>3
<1>2. IInv => SameChain
  BY DEF IInv, SameChain, Calm, ChainInv
<1> QED
  BY InitInv, <1>1, <1>2, PTL DEF CASpec

-----------------------------------------------------------------------------
(***************************************************************************)
(* The deployment records.                                                 *)
(***************************************************************************)
(* InOrder lists the elements at the places it is given, and no others.    *)
Keeps(f, s, places) ==
  f = [i \in 0 .. Len(s) |-> IF i = 0 THEN <<>>
                             ELSE IF i \in places THEN Append(f[i - 1], s[i]) ELSE f[i - 1]]

PickedSoFar(w, i, s, places) ==
  /\ Len(w) <= i
  /\ \A v : v \in ToSet(w) <=> \E j \in 1 .. i : j \in places /\ v = s[j]

(* Appending to a sequence.                                                *)
LEMMA Appended ==
  ASSUME NEW X, NEW w \in Seq(X), NEW x \in X
  PROVE  /\ Append(w, x) \in Seq(X)
         /\ Len(Append(w, x)) = Len(w) + 1
         /\ \A v : v \in ToSet(Append(w, x)) <=> v \in ToSet(w) \/ v = x
<1> DEFINE a == Append(w, x)
<1>1. /\ a \in Seq(X) /\ Len(w) \in Nat /\ Len(a) = Len(w) + 1
      /\ \A i \in 1 .. Len(w) : a[i] = w[i]
      /\ a[Len(w) + 1] = x
  OBVIOUS
<1> HIDE DEF a
<1>2. \A v : v \in ToSet(a) <=> \E l \in 1 .. Len(w) + 1 : v = a[l]
  BY <1>1, MemberOfSeq
<1>3. \A v : v \in ToSet(w) <=> \E l \in 1 .. Len(w) : v = w[l]
  BY MemberOfSeq
<1>4. \A l \in 1 .. Len(w) + 1 : l = Len(w) + 1 \/ l \in 1 .. Len(w)
  BY <1>1
<1>5. ASSUME NEW v, v \in ToSet(a) PROVE v \in ToSet(w) \/ v = x
  BY <1>1, <1>2, <1>3, <1>4, <1>5
<1>6. ASSUME NEW v, v \in ToSet(w) PROVE v \in ToSet(a)
  <2>1. PICK l \in 1 .. Len(w) : v = w[l]
    BY <1>6, <1>3
  <2>2. l \in 1 .. Len(w) + 1 /\ v = a[l]
    BY <2>1, <1>1
  <2> QED
    BY <2>2, <1>2
<1>7. x \in ToSet(a)
  <2>1. Len(w) + 1 \in 1 .. Len(w) + 1
    BY <1>1
  <2> QED
    BY <2>1, <1>1, <1>2
<1> QED
  BY <1>1, <1>5, <1>6, <1>7 DEF a

LEMMA InOrderIs ==
  ASSUME NEW X, NEW s \in Seq(X), NEW places
  PROVE  /\ InOrder(s, places) \in Seq(X)
         /\ Len(InOrder(s, places)) <= Len(s)
         /\ \A v : v \in ToSet(InOrder(s, places)) <=> \E j \in 1 .. Len(s) : j \in places /\ v = s[j]
<1> DEFINE n == Len(s)
           g == [i \in Nat |-> [w \in Seq(X) |->
                  IF i \in 1 .. n /\ i \in places THEN Append(w, s[i]) ELSE w]]
<1>0. n \in Nat /\ <<>> \in Seq(X)
  OBVIOUS
<1>1. g \in [Nat -> [Seq(X) -> Seq(X)]]
  <2>1. ASSUME NEW i \in Nat, NEW w \in Seq(X)
        PROVE  (IF i \in 1 .. n /\ i \in places THEN Append(w, s[i]) ELSE w) \in Seq(X)
    OBVIOUS
  <2> QED
    BY <2>1
<1>2. PICK f : Iterates(f, n, Seq(X), <<>>, g)
  <2> HIDE DEF g, n
  <2> QED
    BY <1>0, <1>1, RecursiveFunction
<1>3. Keeps(f, s, places)
  <2>1. f \in [0 .. n -> Seq(X)] /\ f[0] = <<>>
    BY <1>2 DEF Iterates
  <2>2. ASSUME NEW i \in 0 .. n, i # 0
        PROVE  f[i] = IF i \in places THEN Append(f[i - 1], s[i]) ELSE f[i - 1]
    <3>1. i \in 1 .. n /\ i \in Nat /\ i - 1 \in 0 .. n
      BY <2>2
    <3>2. f[i] = g[i][f[i - 1]]
      BY <1>2, <3>1 DEF Iterates
    <3>3. f[i - 1] \in Seq(X)
      BY <2>1, <3>1
    <3> DEFINE w == f[i - 1]
    <3> HIDE DEF w
    <3>4. g[i][w] = IF i \in 1 .. n /\ i \in places THEN Append(w, s[i]) ELSE w
      BY <3>1, <3>3 DEF w
    <3> HIDE DEF g, n
    <3> QED
      BY <3>1, <3>2, <3>4 DEF w
  <2> HIDE DEF g
  <2> QED
    BY <2>1, <2>2 DEF Keeps
<1>4. PICK h : Keeps(h, s, places) /\ InOrder(s, places) = h[n]
  <2>1. InOrder(s, places) = (CHOOSE h : Keeps(h, s, places))[n]
    BY DEF InOrder, Keeps
  <2> QED
    BY <1>3, <2>1
<1>5. h[0] = <<>>
  BY <1>0, <1>4 DEF Keeps
<1>6. ASSUME NEW i \in 1 .. n
      PROVE  h[i] = IF i \in places THEN Append(h[i - 1], s[i]) ELSE h[i - 1]
  <2>1. i \in 0 .. n /\ i # 0
    OBVIOUS
  <2> QED
    BY <2>1, <1>4 DEF Keeps
<1> HIDE DEF g
<1> DEFINE T == {i \in 0 .. n : h[i] \in Seq(X) /\ PickedSoFar(h[i], i, s, places)}
<1>7. 0 \in T
  <2>1. ToSet(<<>>) = {} /\ Len(<<>>) = 0 /\ 1 .. 0 = {}
    BY DEF ToSet
  <2>2. PickedSoFar(<<>>, 0, s, places)
    BY <2>1 DEF PickedSoFar
  <2>3. PickedSoFar(h[0], 0, s, places) /\ h[0] \in Seq(X) /\ 0 \in 0 .. n
    BY <2>2, <1>0, <1>5
  <2> QED
    BY <2>3
<1>8. ASSUME NEW i \in 1 .. n, i - 1 \in T PROVE i \in T
  <2>0. i \in 0 .. n /\ s[i] \in X /\ h[i - 1] \in Seq(X)
    BY <1>8
  <2>k. /\ Len(h[i - 1]) <= i - 1
        /\ \A v : v \in ToSet(h[i - 1]) <=> \E j \in 1 .. i - 1 : j \in places /\ v = s[j]
    BY <1>8 DEF PickedSoFar
  <2>i. \A j : j \in 1 .. i <=> j \in 1 .. i - 1 \/ j = i
    OBVIOUS
  <2>1. CASE i \notin places
    <3>1. h[i] = h[i - 1]
      BY <2>1, <1>6
    <3>2. Len(h[i]) <= i
      BY <3>1, <2>k, <2>0
    <3> QED
      BY <3>1, <3>2, <2>0, <2>k, <2>i, <2>1 DEF PickedSoFar
  <2>2. CASE i \in places
    <3>1. h[i] = Append(h[i - 1], s[i])
      BY <2>2, <1>6
    <3>2. /\ h[i] \in Seq(X)
          /\ Len(h[i]) = Len(h[i - 1]) + 1
          /\ \A v : v \in ToSet(h[i]) <=> v \in ToSet(h[i - 1]) \/ v = s[i]
      BY <3>1, <2>0, Appended
    <3>3. Len(h[i]) <= i
      BY <3>2, <2>k, <2>0
    <3> QED
      BY <3>2, <3>3, <2>0, <2>k, <2>i, <2>2 DEF PickedSoFar
  <2> QED
    BY <2>1, <2>2
<1>9. h[n] \in Seq(X) /\ PickedSoFar(h[n], n, s, places)
  <2>1. n \in T
    <3> HIDE DEF T, n
    <3>1. 0 .. n \subseteq T
      BY <1>0, <1>7, <1>8, BoundedInduction
    <3> QED
      BY <1>0, <3>1
  <2> QED
    BY <2>1
<1> QED
  BY <1>4, <1>9 DEF PickedSoFar

-----------------------------------------------------------------------------
(* Records: who is where, and what is in the directory.                    *)
Places == {"begin", "create", "write", "saved", "delete", "deleted", "shown", "failed"}

RecordTypes ==
  /\ clock \in Nat /\ clock >= 2
  /\ DOMAIN dir \subseteq Names /\ IsFiniteSet(DOMAIN dir)
  /\ dir \in [DOMAIN dir -> Ids]
  /\ job \in [Recorders -> Jobs]
  /\ at \in [Recorders -> Places]
  /\ name \in [Recorders -> Names]
  /\ todo \in [Recorders -> Seq(Ids)]
  /\ removed \subseteq [name : Names, by : Recorders]

(* A process that saves has a time of the clock.                           *)
StampInv == \A p \in Recorders : at[p] \in {"create", "write", "saved"} => name[p].time >= 2

(* What was stored before is there as it was, or not at all.               *)
StoredInv == \A n \in Stored : n \in DOMAIN dir => dir[n] = Id(n)

(* What is to be deleted was asked for, and confirmed.                     *)
AskedFor(p, id) ==
  /\ ~job[p].bulk \/ job[p].yes
  /\ \E i \in DOMAIN job[p].args : id \in job[p].args[i].hits

AskedInv == \A p \in Recorders : \A id \in ToSet(todo[p]) : AskedFor(p, id)

(* A file that was created is there until somebody takes it away.          *)
TakenIn(n, gone, jobs) ==
  \E r \in gone :
    /\ r.name = n
    /\ ~jobs[r.by].bulk \/ jobs[r.by].yes
    /\ \E i \in DOMAIN jobs[r.by].args : Id(n) \in jobs[r.by].args[i].hits

KeptInv ==
  \A p \in Recorders :
    at[p] \in {"write", "saved"} =>
      \/ name[p] \in DOMAIN dir /\ (at[p] = "saved" => dir[name[p]] = Id(name[p]))
      \/ TakenIn(name[p], removed, job)

(* What an argument has cost so far, and what it still may.                *)
CountInv ==
  \A p \in Recorders :
    /\ IsFiniteSet(RemovedBy(p))
    /\ at[p] = "begin" => RemovedBy(p) = {} /\ todo[p] = <<>>
    /\ job[p].kind = "del" /\ ~job[p].bulk =>
         Cardinality(RemovedBy(p)) + Len(todo[p]) <= Len(job[p].args)

(* What was there before and an argument names is gone or to be deleted.   *)
GoneInv ==
  \A p \in Recorders :
    /\ at[p] = "deleted" => todo[p] = <<>>
    /\ at[p] \in {"delete", "deleted"} =>
         \A n \in Stored, i \in DOMAIN job[p].args :
           Id(n) \in job[p].args[i].hits /\ n \in DOMAIN dir => Id(n) \in ToSet(todo[p])

RecordInv == RecordTypes /\ StampInv /\ StoredInv /\ AskedInv /\ KeptInv /\ CountInv /\ GoneInv

-----------------------------------------------------------------------------
(* What the commands find.                                                 *)
LEMMA ListingIs ==
  ASSUME RecordTypes, NEW recs \in Listings
  PROVE  /\ recs \in Seq(Ids)
         /\ \A v : v \in ToSet(recs) <=> v # Empty /\ \E n \in DOMAIN dir : v = dir[n]
<1> DEFINE files == {n \in DOMAIN dir : dir[n] # Empty}
           c == Cardinality(files)
<1>1. c \in Nat
  <2>1. files \in SUBSET DOMAIN dir
    OBVIOUS
  <2> QED
    BY <2>1, FS_Subset, FS_CardinalityType DEF RecordTypes
<1>2. PICK f \in [1 .. c -> files] : ToSet(f) = files /\ recs = [i \in DOMAIN f |-> dir[f[i]]]
  BY DEF Listings
<1> HIDE DEF c
<1>3. DOMAIN f = 1 .. c /\ \A i \in 1 .. c : f[i] \in files /\ recs[i] = dir[f[i]] /\ dir[f[i]] \in Ids
  BY <1>2 DEF RecordTypes
<1>4. recs \in [1 .. c -> Ids]
  BY <1>2, <1>3
<1>5. recs \in Seq(Ids) /\ Len(recs) = c
  BY <1>1, <1>4
<1>6. \A n : n \in files <=> \E i \in 1 .. c : n = f[i]
  BY <1>2, <1>3 DEF ToSet
<1>7. \A v : v \in ToSet(recs) <=> \E i \in 1 .. c : v = recs[i]
  BY <1>5, MemberOfSeq
<1>8. ASSUME NEW v, v \in ToSet(recs) PROVE v # Empty /\ \E n \in DOMAIN dir : v = dir[n]
  <2>1. PICK i \in 1 .. c : v = dir[f[i]]
    BY <1>3, <1>7, <1>8
  <2> QED
    BY <2>1, <1>3
<1>9. ASSUME NEW v, v # Empty, NEW n \in DOMAIN dir, v = dir[n] PROVE v \in ToSet(recs)
  <2>1. PICK i \in 1 .. c : n = f[i]
    BY <1>6, <1>9
  <2> QED
    BY <2>1, <1>3, <1>7, <1>9
<1> QED
  BY <1>5, <1>8, <1>9

(* An argument stands for a listed record that it asks for, or for none.  *)
LEMMA RecordOfIs ==
  ASSUME NEW recs \in Seq(Ids), Empty \notin ToSet(recs),
         NEW arg \in Args, arg.id = Empty \/ arg.hits = {arg.id},
         NEW r, r = RecordOf(recs, arg)
  PROVE  /\ r \in Ids
         /\ r # Empty => r \in arg.hits /\ \A v \in ToSet(recs) : v \in arg.hits => v = r
<1> DEFINE hits == Hits(recs, arg)
<1>0. Empty \in Ids
  BY DEF Empty, Ids
<1>1. arg.id \in Ids /\ \A v : v \in ToSet(recs) <=> \E l \in 1 .. Len(recs) : v = recs[l]
  BY MemberOfSeq DEF Args
<1>2. CASE arg.id \in ToSet(recs)
  BY <1>1, <1>2 DEF RecordOf
<1>3. CASE arg.id \notin ToSet(recs) /\ Cardinality(hits) # 1
  BY <1>0, <1>3 DEF RecordOf
<1>4. CASE arg.id \notin ToSet(recs) /\ Cardinality(hits) = 1
  <2>1. DOMAIN recs = 1 .. Len(recs) /\ Len(recs) \in Nat
    OBVIOUS
  <2>2. IsFiniteSet(hits)
    <3>1. IsFiniteSet(1 .. Len(recs)) /\ hits \in SUBSET (1 .. Len(recs))
      BY <2>1, FS_Interval DEF Hits
    <3> QED
      BY <3>1, FS_Subset
  <2>3. PICK i : hits = {i}
    BY <1>4, <2>2, FS_Singleton
  <2>4. i \in 1 .. Len(recs) /\ recs[i] \in arg.hits /\ recs[i] \in Ids
    BY <2>1, <2>3 DEF Hits
  <2>5. r = recs[i]
    BY <1>4, <2>3 DEF RecordOf
  <2>6. ASSUME NEW v \in ToSet(recs), v \in arg.hits PROVE v = r
    <3>1. PICK l \in 1 .. Len(recs) : v = recs[l]
      BY <1>1, <2>6
    <3>2. l \in hits
      BY <3>1, <2>1, <2>6 DEF Hits
    <3> QED
      BY <3>1, <3>2, <2>3, <2>5
  <2> QED
    BY <2>4, <2>5, <2>6
<1> QED
  BY <1>2, <1>3, <1>4

(* What the assumption says of a job.                                      *)
LEMMA JobIs ==
  ASSUME NEW j \in Jobs
  PROVE  /\ j.args \in Seq(Args) /\ Len(j.args) \in Nat /\ DOMAIN j.args = 1 .. Len(j.args)
         /\ \A i \in 1 .. Len(j.args) :
              j.args[i] \in Args /\ (~j.bulk => j.args[i].id = Empty \/ j.args[i].hits = {j.args[i].id})
         /\ j.kind \in {"save", "del"} /\ j.chart \in ChartNames \cup {""}
<1>1. j \in [kind : {"save", "del"}, chart : ChartNames \cup {""}, bulk : BOOLEAN, yes : BOOLEAN, args : Seq(Args)]
  BY RecordAssumption DEF RecordAssumption
<1>2. \A i \in DOMAIN j.args : j.bulk \/ j.args[i].id = Empty \/ j.args[i].hits = {j.args[i].id}
  BY RecordAssumption DEF RecordAssumption
<1>3. j.args \in Seq(Args) /\ j.kind \in {"save", "del"} /\ j.chart \in ChartNames \cup {""}
  BY <1>1
<1> DEFINE a == j.args
<1>4. Len(a) \in Nat /\ DOMAIN a = 1 .. Len(a) /\ \A i \in 1 .. Len(a) : a[i] \in Args
  <2>1. a \in Seq(Args)
    BY <1>3
  <2> HIDE DEF a
  <2> QED
    BY <2>1
<1> QED
  BY <1>2, <1>3, <1>4

(* The targets of a command: only what an argument asks for, all of it if  *)
(* anything at all, and without patterns one for an argument.              *)
TargetsOf(recs, j) == IF j.bulk THEN SelectPatterns(recs, j.args) ELSE ResolveIDs(recs, j.args)

LEMMA TargetsAre ==
  ASSUME NEW recs \in Seq(Ids), Empty \notin ToSet(recs), NEW j \in Jobs,
         NEW targets, targets = TargetsOf(recs, j)
  PROVE  /\ targets \in Seq(Ids)
         /\ \A id \in ToSet(targets) : \E i \in DOMAIN j.args : id \in j.args[i].hits
         /\ ~j.bulk => Len(targets) <= Len(j.args)
         /\ targets # <<>> =>
              \A v \in ToSet(recs), i \in DOMAIN j.args : v \in j.args[i].hits => v \in ToSet(targets)
<1> DEFINE n == Len(j.args)
<1>0. /\ j.args \in Seq(Args) /\ n \in Nat /\ DOMAIN j.args = 1 .. n
      /\ \A i \in 1 .. n : j.args[i] \in Args /\ (~j.bulk => j.args[i].id = Empty \/ j.args[i].hits = {j.args[i].id})
  BY JobIs
<1>r. /\ \A v : v \in ToSet(recs) <=> \E l \in 1 .. Len(recs) : v = recs[l]
      /\ \A v : v \in ToSet(j.args) <=> \E l \in 1 .. n : v = j.args[l]
      /\ DOMAIN recs = 1 .. Len(recs)
  BY <1>0, MemberOfSeq
<1>1. CASE j.bulk
  <2> DEFINE places == UNION {Hits(recs, a) : a \in ToSet(j.args)}
  <2>1. targets = InOrder(recs, places)
    BY <1>1 DEF TargetsOf, SelectPatterns
  <2>2. \A l : l \in places <=> l \in 1 .. Len(recs) /\ \E i \in 1 .. n : recs[l] \in j.args[i].hits
    BY <1>r DEF Hits
  <2> HIDE DEF places
  <2>3. /\ targets \in Seq(Ids)
        /\ \A v : v \in ToSet(targets) <=> \E l \in 1 .. Len(recs) : l \in places /\ v = recs[l]
    BY <2>1, InOrderIs
  <2>4. ASSUME NEW id \in ToSet(targets) PROVE \E i \in DOMAIN j.args : id \in j.args[i].hits
    <3>1. PICK l \in 1 .. Len(recs) : l \in places /\ id = recs[l]
      BY <2>3
    <3> QED
      BY <3>1, <2>2, <1>0
  <2>5. ASSUME NEW v \in ToSet(recs), NEW i \in DOMAIN j.args, v \in j.args[i].hits PROVE v \in ToSet(targets)
    <3>1. PICK l \in 1 .. Len(recs) : v = recs[l]
      BY <1>r
    <3>2. l \in places
      BY <3>1, <2>2, <2>5, <1>0
    <3> QED
      BY <3>1, <3>2, <2>3
  <2> QED
    BY <1>1, <2>3, <2>4, <2>5
<1>2. CASE ~j.bulk
  <2> DEFINE ids == [i \in DOMAIN j.args |-> RecordOf(recs, j.args[i])]
  <2>1. \A i \in 1 .. n :
          /\ ids[i] \in Ids
          /\ ids[i] # Empty => ids[i] \in j.args[i].hits /\ \A v \in ToSet(recs) : v \in j.args[i].hits => v = ids[i]
    <3> SUFFICES ASSUME NEW i \in 1 .. n
                 PROVE  /\ ids[i] \in Ids
                        /\ ids[i] # Empty => ids[i] \in j.args[i].hits
                                             /\ \A v \in ToSet(recs) : v \in j.args[i].hits => v = ids[i]
      OBVIOUS
    <3>1. ids[i] = RecordOf(recs, j.args[i])
      BY <1>0
    <3> HIDE DEF ids
    <3> QED
      BY <3>1, <1>0, <1>2, RecordOfIs
  <2>2. ids \in Seq(Ids) /\ Len(ids) = n /\ DOMAIN ids = 1 .. n
    <3>1. DOMAIN ids = 1 .. n /\ ids = [i \in 1 .. n |-> ids[i]]
      BY <1>0
    <3> HIDE DEF ids
    <3>2. ids \in [1 .. n -> Ids]
      BY <3>1, <2>1
    <3> QED
      BY <3>1, <3>2, <1>0
  <2>3. targets = IF Empty \in ToSet(ids) THEN <<>> ELSE InOrder(ids, Once(ids))
    BY <1>2 DEF TargetsOf, ResolveIDs
  <2> HIDE DEF ids
  <2>4. CASE Empty \in ToSet(ids)
    <3>1. targets = <<>> /\ targets \in Seq(Ids) /\ Len(targets) = 0 /\ ToSet(targets) = {}
      BY <2>3, <2>4 DEF ToSet
    <3> QED
      BY <3>1, <1>0
  <2>5. CASE Empty \notin ToSet(ids)
    <3>1. \A v : v \in ToSet(ids) <=> \E l \in 1 .. n : v = ids[l]
      BY <2>2, MemberOfSeq
    <3>2. targets = InOrder(ids, Once(ids))
      BY <2>3, <2>5
    <3>3. /\ targets \in Seq(Ids) /\ Len(targets) <= n
          /\ \A v : v \in ToSet(targets) <=> \E l \in 1 .. n : l \in Once(ids) /\ v = ids[l]
      BY <3>2, <2>2, InOrderIs
    <3>4. \A i \in 1 .. n : ids[i] # Empty
      BY <3>1, <2>5
    <3>5. ASSUME NEW i \in 1 .. n PROVE ids[i] \in ToSet(targets)
      <4> DEFINE same == {l \in 1 .. n : ids[l] = ids[i]}
      <4>1. same \subseteq Nat /\ same # {}
        OBVIOUS
      <4>2. PICK l \in same : \A m \in same : l <= m
        BY <4>1, LeastNumber
      <4>3. l \in Once(ids)
        <5>1. ASSUME NEW m \in 1 .. l - 1 PROVE ids[m] # ids[l]
          <6>1. m \in 1 .. n /\ ~(l <= m)
            BY <4>2, <1>0
          <6> QED
            BY <6>1, <4>2
        <5> QED
          BY <5>1, <4>2, <2>2 DEF Once
      <4> QED
        BY <4>2, <4>3, <3>3
    <3>6. ASSUME NEW id \in ToSet(targets) PROVE \E i \in DOMAIN j.args : id \in j.args[i].hits
      <4>1. PICK l \in 1 .. n : id = ids[l]
        BY <3>3
      <4>2. l \in DOMAIN j.args /\ id \in j.args[l].hits
        BY <4>1, <3>4, <2>1, <1>0
      <4> QED
        BY <4>2
    <3>7. ASSUME NEW v \in ToSet(recs), NEW i \in 1 .. n, v \in j.args[i].hits PROVE v \in ToSet(targets)
      <4>1. v = ids[i]
        BY <3>4, <3>7, <2>1
      <4> QED
        BY <4>1, <3>5
    <3> QED
      BY <3>3, <3>6, <3>7, <1>0
  <2> QED
    BY <2>4, <2>5
<1> QED
  BY <1>1, <1>2

-----------------------------------------------------------------------------
(* The steps.                                                              *)
LEMMA InitRecords == RecordInit => RecordInv
<1> SUFFICES ASSUME RecordInit PROVE RecordInv
  OBVIOUS
<1>1. /\ clock = 2 /\ dir = [n \in Stored |-> Id(n)] /\ job \in [Recorders -> Jobs] /\ removed = {}
      /\ at = [p \in Recorders |-> "begin"] /\ name = [p \in Recorders |-> NoName]
      /\ todo = [p \in Recorders |-> <<>>]
  BY DEF RecordInit
<1>2. Stored \subseteq Names /\ IsFiniteSet(Stored)
  BY RecordAssumption DEF RecordAssumption
<1>3. RecordTypes
  <2>1. \A n \in Names : Id(n) \in Ids
    BY DEF Names, Ids, Id
  <2>2. NoName \in Names
    BY DEF NoName, Names
  <2>3. DOMAIN dir = Stored /\ dir \in [Stored -> Ids]
    BY <1>1, <1>2, <2>1
  <2>4. todo \in [Recorders -> Seq(Ids)]
    BY <1>1
  <2>5. at \in [Recorders -> Places]
    BY <1>1 DEF Places
  <2> QED
    BY <1>1, <1>2, <2>2, <2>3, <2>4, <2>5 DEF RecordTypes
<1>4. \A p \in Recorders : RemovedBy(p) = {}
  BY <1>1 DEF RemovedBy
<1>5. \A p \in Recorders : at[p] = "begin" /\ todo[p] = <<>> /\ Len(todo[p]) = 0 /\ ToSet(todo[p]) = {}
  BY <1>1 DEF ToSet
<1>6. CountInv
  <2> SUFFICES ASSUME NEW p \in Recorders
               PROVE  /\ IsFiniteSet(RemovedBy(p)) /\ RemovedBy(p) = {} /\ todo[p] = <<>>
                      /\ Cardinality(RemovedBy(p)) + Len(todo[p]) <= Len(job[p].args)
    BY DEF CountInv
  <2>1. Len(job[p].args) \in Nat
    BY <1>3, JobIs DEF RecordTypes
  <2>2. IsFiniteSet({}) /\ Cardinality({}) = 0
    BY FS_EmptySet
  <2>3. RemovedBy(p) = {} /\ todo[p] = <<>> /\ Len(todo[p]) = 0
    BY <1>4, <1>5
  <2>4. IsFiniteSet(RemovedBy(p)) /\ Cardinality(RemovedBy(p)) = 0
    BY <2>2, <2>3
  <2> QED
    BY <2>1, <2>3, <2>4
<1>7. StoredInv
  BY <1>1 DEF StoredInv
<1>8. StampInv /\ AskedInv /\ KeptInv /\ GoneInv
  BY <1>5 DEF StampInv, AskedInv, KeptInv, GoneInv
<1> QED
  BY <1>3, <1>6, <1>7, <1>8 DEF RecordInv

(* Process p goes on, and nobody else does.                                *)
LEMMA Moved ==
  ASSUME RecordTypes, NEW p \in Recorders, NEW place \in Places, Move(p, place)
  PROVE  at' \in [Recorders -> Places] /\ at'[p] = place /\ \A q \in Recorders \ {p} : at'[q] = at[q]
BY DEF RecordTypes, Move

(* Steps that leave the directory and what was removed alone: those of the *)
(* clock, and of a process that has nothing to delete and creates nothing. *)
LEMMA QuietStep ==
  ASSUME RecordInv, NEW p \in Recorders, NEW place \in Places, Move(p, place),
         at[p] \notin {"write", "delete"} \/ place = "failed",
         place \notin {"write", "saved", "delete", "begin", "deleted"},
         place = "create" => name'[p].time >= 2,
         name' \in [Recorders -> Names], \A q \in Recorders \ {p} : name'[q] = name[q],
         UNCHANGED <<clock, dir, job, todo, removed>>
  PROVE  RecordInv'
<1>0. RecordTypes
  BY DEF RecordInv
<1>1. at' \in [Recorders -> Places] /\ at'[p] = place /\ \A q \in Recorders \ {p} : at'[q] = at[q]
  BY <1>0, Moved
<1>2. RecordTypes'
  BY <1>0, <1>1 DEF RecordTypes
<1>3. StampInv'
  BY <1>1 DEF RecordInv, StampInv
<1>4. StoredInv' /\ AskedInv'
  BY DEF RecordInv, StoredInv, AskedInv, AskedFor
<1>5. KeptInv'
  BY <1>1 DEF RecordInv, KeptInv
<1>6. CountInv'
  BY <1>1 DEF RecordInv, CountInv, RemovedBy
<1>7. GoneInv'
  BY <1>1 DEF RecordInv, GoneInv
<1> QED
  BY <1>2, <1>3, <1>4, <1>5, <1>6, <1>7 DEF RecordInv

(* The name is as young as the clock, so nothing stored has it.           *)
LEMMA StampStep ==
  ASSUME RecordInv, NEW p \in Recorders, Stamp(p)
  PROVE  RecordInv'
<1>0. RecordTypes
  BY DEF RecordInv
<1> DEFINE n == [chart |-> job[p].chart, time |-> clock, try |-> 0]
<1>1. /\ at[p] = "begin" /\ Move(p, "create") /\ name' = [name EXCEPT ![p] = n]
      /\ UNCHANGED <<clock, dir, job, todo, removed>>
  BY DEF Stamp, Where
<1>2. job[p].chart \in ChartNames \cup {""}
  BY <1>0, JobIs DEF RecordTypes
<1>3. n \in Names /\ n.time >= 2
  BY <1>0, <1>2 DEF Names, RecordTypes
<1> HIDE DEF n
<1>4. name' \in [Recorders -> Names] /\ name'[p] = n /\ \A q \in Recorders \ {p} : name'[q] = name[q]
  BY <1>0, <1>1, <1>3 DEF RecordTypes
<1> QED
  BY <1>1, <1>3, <1>4, QuietStep DEF Places

(* The name of the next attempt.                                          *)
LEMMA NextTry ==
  ASSUME NEW n \in Names, NEW i \in Nat
  PROVE  [n EXCEPT !.try = i] \in Names /\ [n EXCEPT !.try = i].time = n.time
BY DEF Names

(* A name that is taken is tried again with a number; one that is not gets *)
(* an empty file.                                                          *)
LEMMA CreateStep ==
  ASSUME RecordInv, NEW p \in Recorders, Create(p)
  PROVE  RecordInv'
<1>0. RecordTypes /\ at[p] = "create" /\ UNCHANGED <<clock, job, todo, removed>>
  BY DEF RecordInv, Create, Where
<1>t. name[p] \in Names /\ name[p].time >= 2
  BY <1>0 DEF RecordInv, RecordTypes, StampInv
<1>1. CASE Taken(name[p])
  <2>1. name' = [name EXCEPT ![p].try = @ + 1] /\ UNCHANGED <<dir, at>>
    BY <1>1 DEF Create
  <2>i. name[p].try + 1 \in Nat
    <3>1. name[p].try \in Nat
      BY <1>t DEF Names
    <3> QED
      BY <3>1
  <2> DEFINE i == name[p].try + 1
             n == [name[p] EXCEPT !.try = i]
  <2>3. name' = [name EXCEPT ![p] = n]
    BY <2>1
  <2>j. i \in Nat
    BY <2>i
  <2> HIDE DEF i
  <2>2. n \in Names /\ n.time = name[p].time
    BY <1>t, <2>j, NextTry
  <2> HIDE DEF n
  <2>4. name' \in [Recorders -> Names] /\ name'[p] = n /\ \A q \in Recorders \ {p} : name'[q] = name[q]
    BY <1>0, <2>2, <2>3 DEF RecordTypes
  <2>5. Move(p, "create")
    BY <1>0, <2>1 DEF Move, RecordTypes
  <2> QED
    BY <1>0, <1>t, <2>1, <2>2, <2>4, <2>5, QuietStep DEF Places
<1>2. CASE ~Taken(name[p])
  <2> DEFINE new == name[p]
  <2>1. /\ new \notin DOMAIN dir /\ Move(p, "write") /\ name' = name
        /\ dir' = [n \in DOMAIN dir \cup {new} |-> IF n = new THEN Empty ELSE dir[n]]
    BY <1>2 DEF Create, Taken
  <2>2. at' \in [Recorders -> Places] /\ at'[p] = "write" /\ \A q \in Recorders \ {p} : at'[q] = at[q]
    BY <1>0, <2>1, Moved DEF Places
  <2>3. /\ DOMAIN dir' = DOMAIN dir \cup {new} /\ dir'[new] = Empty
        /\ \A n \in DOMAIN dir : n # new /\ dir'[n] = dir[n]
    BY <2>1
  <2>4. RecordTypes'
    <3>1. Empty \in Ids
      BY DEF Empty, Ids
    <3>2. IsFiniteSet(DOMAIN dir')
      BY <1>0, <2>3, FS_AddElement DEF RecordTypes
    <3>3. dir' \in [DOMAIN dir' -> Ids]
      BY <1>0, <2>1, <2>3, <3>1 DEF RecordTypes
    <3> QED
      BY <1>0, <1>t, <2>1, <2>2, <2>3, <3>2, <3>3 DEF RecordTypes
  <2>5. StampInv'
    BY <1>t, <2>1, <2>2 DEF RecordInv, StampInv
  <2>6. \A n \in Stored : n # new
    <3>1. \A n \in Stored : n \in Names /\ n.time < 2
      BY RecordAssumption DEF RecordAssumption
    <3>2. \A n \in Names : n.time \in Nat
      BY DEF Names
    <3> QED
      BY <1>t, <3>1, <3>2
  <2>7. StoredInv'
    BY <2>3, <2>6 DEF RecordInv, StoredInv
  <2>8. AskedInv'
    BY <1>0 DEF RecordInv, AskedInv, AskedFor
  <2>9. KeptInv'
    <3> SUFFICES ASSUME NEW q \in Recorders, at'[q] \in {"write", "saved"}
                 PROVE  \/ name[q] \in DOMAIN dir' /\ (at'[q] = "saved" => dir'[name[q]] = Id(name[q]))
                        \/ TakenIn(name[q], removed, job)
      BY <1>0, <2>1 DEF KeptInv
    <3>1. CASE q = p
      BY <2>2, <2>3, <3>1
    <3>2. CASE q # p
      BY <2>2, <2>3, <3>2 DEF RecordInv, KeptInv
    <3> QED
      BY <3>1, <3>2
  <2>10. CountInv'
    BY <1>0, <2>2 DEF RecordInv, CountInv, RemovedBy
  <2>11. GoneInv'
    BY <1>0, <2>2, <2>3, <2>6 DEF RecordInv, GoneInv
  <2> QED
    BY <2>4, <2>5, <2>7, <2>8, <2>9, <2>10, <2>11 DEF RecordInv
<1> QED
  BY <1>1, <1>2

(* The content is written to the process's own file, if it is still there. *)
LEMMA WriteStep ==
  ASSUME RecordInv, NEW p \in Recorders, Write(p)
  PROVE  RecordInv'
<1>0. RecordTypes /\ at[p] = "write" /\ UNCHANGED <<clock, job, name, todo, removed>>
  BY DEF RecordInv, Write, Where
<1>t. name[p] \in Names /\ name[p].time >= 2
  BY <1>0 DEF RecordInv, RecordTypes, StampInv
<1>1. CASE Move(p, "failed") /\ UNCHANGED dir
  BY <1>0, <1>1, QuietStep DEF Places, RecordTypes
<1>2. CASE /\ Move(p, "saved")
           /\ dir' = IF name[p] \in DOMAIN dir THEN [dir EXCEPT ![name[p]] = Id(name[p])] ELSE dir
  <2> DEFINE new == name[p]
  <2>1. at' \in [Recorders -> Places] /\ at'[p] = "saved" /\ \A q \in Recorders \ {p} : at'[q] = at[q]
    BY <1>0, <1>2, Moved DEF Places
  <2>2. /\ DOMAIN dir' = DOMAIN dir /\ (new \in DOMAIN dir => dir'[new] = Id(new))
        /\ \A n \in DOMAIN dir : n # new => dir'[n] = dir[n]
    BY <1>2
  <2>3. RecordTypes'
    <3>1. Id(new) \in Ids
      BY <1>t DEF Id, Names, Ids
    <3>2. dir' \in [DOMAIN dir -> Ids]
      BY <1>0, <1>2, <3>1 DEF RecordTypes
    <3> QED
      BY <1>0, <2>1, <2>2, <3>2 DEF RecordTypes
  <2>4. StampInv'
    BY <1>0, <1>t, <2>1 DEF RecordInv, StampInv
  <2>5. StoredInv'
    BY <2>2 DEF RecordInv, StoredInv
  <2>6. AskedInv'
    BY <1>0 DEF RecordInv, AskedInv, AskedFor
  <2>7. KeptInv'
    <3> SUFFICES ASSUME NEW q \in Recorders, at'[q] \in {"write", "saved"}
                 PROVE  \/ name[q] \in DOMAIN dir' /\ (at'[q] = "saved" => dir'[name[q]] = Id(name[q]))
                        \/ TakenIn(name[q], removed, job)
      BY <1>0 DEF KeptInv
    <3>1. at[q] \in {"write", "saved"} /\ (q # p => at'[q] = at[q])
      BY <1>0, <2>1
    <3>2. \/ name[q] \in DOMAIN dir /\ (at[q] = "saved" => dir[name[q]] = Id(name[q]))
          \/ TakenIn(name[q], removed, job)
      BY <3>1 DEF RecordInv, KeptInv
    <3>3. CASE name[q] = new
      BY <2>2, <3>2, <3>3
    <3>4. CASE name[q] # new
      BY <2>2, <3>1, <3>2, <3>4
    <3> QED
      BY <3>3, <3>4
  <2>8. CountInv'
    BY <1>0, <2>1 DEF RecordInv, CountInv, RemovedBy
  <2>9. GoneInv'
    BY <1>0, <2>1, <2>2 DEF RecordInv, GoneInv
  <2> QED
    BY <2>3, <2>4, <2>5, <2>6, <2>7, <2>8, <2>9 DEF RecordInv
<1> QED
  BY <1>0, <1>1, <1>2 DEF Write

(* A command that goes on has exactly what it was asked for before it.     *)
LEMMA FindStep ==
  ASSUME RecordInv, NEW p \in Recorders, Find(p)
  PROVE  RecordInv'
<1>0. RecordTypes /\ job[p] \in Jobs /\ at[p] = "begin" /\ job[p].kind = "del" /\ UNCHANGED <<clock, dir, job, name, removed>>
  BY DEF RecordInv, RecordTypes, Find, Where
<1> DEFINE j == job[p]
<1>1. PICK recs \in Listings :
        /\ todo' = [todo EXCEPT ![p] = IF j.bulk /\ ~j.yes THEN <<>> ELSE TargetsOf(recs, j)]
        /\ Move(p, IF TargetsOf(recs, j) = <<>> THEN "failed" ELSE IF j.bulk /\ ~j.yes THEN "shown" ELSE "delete")
  BY DEF Find, TargetsOf
<1> DEFINE targets == TargetsOf(recs, j)
<1>2. /\ recs \in Seq(Ids) /\ Empty \notin ToSet(recs)
      /\ \A v : v \in ToSet(recs) <=> v # Empty /\ \E n \in DOMAIN dir : v = dir[n]
  BY <1>0, ListingIs
<1>3. /\ targets \in Seq(Ids)
      /\ \A id \in ToSet(targets) : \E i \in DOMAIN j.args : id \in j.args[i].hits
      /\ ~j.bulk => Len(targets) <= Len(j.args)
      /\ targets # <<>> =>
           \A v \in ToSet(recs), i \in DOMAIN j.args : v \in j.args[i].hits => v \in ToSet(targets)
  BY <1>0, <1>2, TargetsAre
<1> HIDE DEF targets
<1>4. RemovedBy(p) = {} /\ todo[p] = <<>>
  BY <1>0 DEF RecordInv, CountInv
<1>e. <<>> \in Seq(Ids) /\ ToSet(<<>>) = {} /\ Len(<<>>) = 0
  BY DEF ToSet
<1>5. CASE targets = <<>> \/ (j.bulk /\ ~j.yes)
  <2>1. todo' = [todo EXCEPT ![p] = <<>>]
    BY <1>1, <1>5 DEF targets
  <2>2. todo' = todo
    BY <2>1, <1>0, <1>4 DEF RecordTypes
  <2>3. PICK place \in {"failed", "shown"} : Move(p, place)
    BY <1>1, <1>5 DEF targets
  <2>4. name' \in [Recorders -> Names]
    BY <1>0 DEF RecordTypes
  <2> QED
    BY <1>0, <2>2, <2>3, <2>4, QuietStep DEF Places
<1>6. CASE targets # <<>> /\ ~(j.bulk /\ ~j.yes)
  <2>1. todo' = [todo EXCEPT ![p] = targets] /\ Move(p, "delete")
    BY <1>1, <1>6 DEF targets
  <2>2. at' \in [Recorders -> Places] /\ at'[p] = "delete" /\ \A q \in Recorders \ {p} : at'[q] = at[q]
    BY <1>0, <2>1, Moved DEF Places
  <2>3. todo' \in [Recorders -> Seq(Ids)] /\ todo'[p] = targets /\ \A q \in Recorders \ {p} : todo'[q] = todo[q]
    BY <1>0, <1>3, <2>1 DEF RecordTypes
  <2>4. RecordTypes'
    BY <1>0, <2>2, <2>3 DEF RecordTypes
  <2>5. StampInv' /\ StoredInv'
    BY <1>0, <2>2 DEF RecordInv, StampInv, StoredInv
  <2>6. AskedInv'
    <3> SUFFICES ASSUME NEW q \in Recorders, NEW id \in ToSet(todo'[q]) PROVE AskedFor(q, id)
      BY <1>0 DEF AskedInv, AskedFor
    <3>1. CASE q = p
      BY <1>3, <1>6, <2>3, <3>1 DEF AskedFor
    <3>2. CASE q # p
      BY <2>3, <3>2 DEF RecordInv, AskedInv
    <3> QED
      BY <3>1, <3>2
  <2>7. KeptInv'
    BY <1>0, <2>2 DEF RecordInv, KeptInv
  <2>8. CountInv'
    <3>1. \A q \in Recorders : RemovedBy(q)' = RemovedBy(q)
      BY <1>0 DEF RemovedBy
    <3> SUFFICES ASSUME NEW q \in Recorders
                 PROVE  /\ IsFiniteSet(RemovedBy(q))
                        /\ at'[q] = "begin" => RemovedBy(q) = {} /\ todo'[q] = <<>>
                        /\ job[q].kind = "del" /\ ~job[q].bulk =>
                             Cardinality(RemovedBy(q)) + Len(todo'[q]) <= Len(job[q].args)
      BY <1>0, <3>1 DEF CountInv
    <3>2. CASE q # p
      BY <2>2, <2>3, <3>2 DEF RecordInv, CountInv
    <3>3. CASE q = p
      <4>1. IsFiniteSet({}) /\ Cardinality({}) = 0
        BY FS_EmptySet
      <4>2. IsFiniteSet(RemovedBy(p)) /\ Cardinality(RemovedBy(p)) = 0
        BY <1>4, <4>1
      <4>3. Len(targets) \in Nat
        BY <1>3
      <4> QED
        BY <1>3, <2>2, <2>3, <3>3, <4>2, <4>3
    <3> QED
      BY <3>2, <3>3
  <2>9. GoneInv'
    <3> SUFFICES ASSUME NEW q \in Recorders
                 PROVE  /\ at'[q] = "deleted" => todo'[q] = <<>>
                        /\ at'[q] \in {"delete", "deleted"} =>
                             \A n \in Stored, i \in DOMAIN job[q].args :
                               Id(n) \in job[q].args[i].hits /\ n \in DOMAIN dir => Id(n) \in ToSet(todo'[q])
      BY <1>0 DEF GoneInv
    <3>1. CASE q # p
      BY <2>2, <2>3, <3>1 DEF RecordInv, GoneInv
    <3>2. CASE q = p
      <4>1. ASSUME NEW n \in Stored, NEW i \in DOMAIN j.args, Id(n) \in j.args[i].hits, n \in DOMAIN dir
            PROVE  Id(n) \in ToSet(targets)
        <5>1. dir[n] = Id(n) /\ Id(n) # Empty
          BY <4>1, RecordAssumption DEF RecordInv, StoredInv, RecordAssumption
        <5>2. Id(n) \in ToSet(recs)
          BY <1>2, <4>1, <5>1
        <5> QED
          BY <1>3, <1>6, <4>1, <5>2
      <4> QED
        BY <2>2, <2>3, <3>2, <4>1
    <3> QED
      BY <3>1, <3>2
  <2> QED
    BY <2>4, <2>5, <2>6, <2>7, <2>8, <2>9 DEF RecordInv
<1> QED
  BY <1>5, <1>6

(* Taking the first element of a sequence.                                *)
LEMMA HeadAndTail ==
  ASSUME NEW X, NEW s \in Seq(X), s # <<>>
  PROVE  /\ Head(s) \in X /\ Tail(s) \in Seq(X) /\ Len(s) \in Nat /\ Len(Tail(s)) = Len(s) - 1
         /\ \A v : v \in ToSet(s) <=> v = Head(s) \/ v \in ToSet(Tail(s))
<1>1. /\ Head(s) \in X /\ Tail(s) \in Seq(X) /\ Len(s) \in Nat \ {0} /\ Len(Tail(s)) = Len(s) - 1
      /\ Head(s) = s[1] /\ \A i \in 1 .. Len(s) - 1 : Tail(s)[i] = s[i + 1]
  BY HeadTailProperties, EmptySeq
<1>2. /\ \A v : v \in ToSet(s) <=> \E l \in 1 .. Len(s) : v = s[l]
      /\ \A v : v \in ToSet(Tail(s)) <=> \E l \in 1 .. Len(Tail(s)) : v = Tail(s)[l]
  BY <1>1, MemberOfSeq
<1>3. ASSUME NEW v, v \in ToSet(s), v # Head(s) PROVE v \in ToSet(Tail(s))
  <2>1. PICK l \in 1 .. Len(s) : v = s[l]
    BY <1>2, <1>3
  <2>2. l # 1
    BY <1>1, <1>3, <2>1
  <2>3. l - 1 \in 1 .. Len(Tail(s)) /\ l - 1 \in 1 .. Len(s) - 1 /\ (l - 1) + 1 = l
    BY <1>1, <2>2
  <2>4. Tail(s)[l - 1] = v
    BY <1>1, <2>1, <2>3
  <2> QED
    BY <1>2, <2>3, <2>4
<1>4. ASSUME NEW v, v \in ToSet(Tail(s)) PROVE v \in ToSet(s)
  <2>1. PICK l \in 1 .. Len(Tail(s)) : v = Tail(s)[l]
    BY <1>2, <1>4
  <2>2. l + 1 \in 1 .. Len(s) /\ v = s[l + 1]
    BY <1>1, <2>1
  <2> QED
    BY <1>2, <2>2
<1>5. Head(s) \in ToSet(s)
  <2>1. 1 \in 1 .. Len(s)
    BY <1>1
  <2> QED
    BY <1>1, <1>2, <2>1
<1> QED
  BY <1>1, <1>3, <1>4, <1>5

(* The id of the file that is named after an id.                          *)
LEMMA FileOfId ==
  ASSUME NEW id \in Ids
  PROVE  /\ FileOf(id) \in Names /\ Id(FileOf(id)) = id
         /\ \A n \in Stored : Id(n) = id => n = FileOf(id)
<1>1. FileOf(id) \in Names /\ Id(FileOf(id)) = id
  BY DEF Ids, Names, FileOf, Id
<1>2. ASSUME NEW n \in Stored, Id(n) = id PROVE n = FileOf(id)
  <2>1. n \in Names /\ n.try = 0
    BY RecordAssumption DEF RecordAssumption
  <2> QED
    BY <1>2, <2>1 DEF Names, Ids, FileOf, Id
<1> QED
  BY <1>1, <1>2

(* What is removed is the first of the records to delete, one at a time.   *)
LEMMA DeleteStep ==
  ASSUME RecordInv, NEW p \in Recorders, Delete(p)
  PROVE  RecordInv'
<1>0. RecordTypes /\ at[p] = "delete" /\ UNCHANGED <<clock, job, name>>
  BY DEF RecordInv, Delete, Where
<1>n. name' \in [Recorders -> Names]
  BY <1>0 DEF RecordTypes
<1> DEFINE id == Head(todo[p])
           file == FileOf(id)
<1>1. CASE todo[p] = <<>>
  <2>1. Move(p, "deleted") /\ UNCHANGED <<dir, todo, removed>>
    BY <1>1 DEF Delete
  <2>2. at' \in [Recorders -> Places] /\ at'[p] = "deleted" /\ \A q \in Recorders \ {p} : at'[q] = at[q]
    BY <1>0, <2>1, Moved DEF Places
  <2>3. RecordTypes'
    BY <1>0, <2>1, <2>2 DEF RecordTypes
  <2>4. StampInv' /\ StoredInv' /\ AskedInv'
    BY <1>0, <2>1, <2>2 DEF RecordInv, StampInv, StoredInv, AskedInv, AskedFor
  <2>5. KeptInv'
    BY <1>0, <2>1, <2>2 DEF RecordInv, KeptInv
  <2>6. CountInv'
    BY <1>0, <2>1, <2>2 DEF RecordInv, CountInv, RemovedBy
  <2>7. GoneInv'
    BY <1>0, <1>1, <2>1, <2>2 DEF RecordInv, GoneInv
  <2> QED
    BY <2>3, <2>4, <2>5, <2>6, <2>7 DEF RecordInv
<1>2. CASE todo[p] # <<>> /\ file \notin DOMAIN dir
  <2>1. Move(p, "failed") /\ UNCHANGED <<dir, todo, removed>>
    BY <1>2 DEF Delete
  <2> QED
    BY <1>0, <1>n, <2>1, QuietStep DEF Places
<1>3. CASE todo[p] # <<>> /\ file \in DOMAIN dir
  <2> DEFINE gone == [name |-> file, by |-> p]
             rest == Tail(todo[p])
  <2>1. /\ dir' = [n \in DOMAIN dir \ {file} |-> dir[n]]
        /\ removed' = removed \cup {gone}
        /\ todo' = [todo EXCEPT ![p] = rest]
        /\ at' = at
    BY <1>3 DEF Delete
  <2>2. /\ id \in Ids /\ rest \in Seq(Ids) /\ Len(todo[p]) \in Nat /\ Len(rest) = Len(todo[p]) - 1
        /\ \A v : v \in ToSet(todo[p]) <=> v = id \/ v \in ToSet(rest)
    BY <1>0, <1>3, HeadAndTail DEF RecordTypes
  <2>3. file \in Names /\ Id(file) = id /\ \A n \in Stored : Id(n) = id => n = file
    BY <2>2, FileOfId
  <2> HIDE DEF file, rest, id
  <2>4. /\ DOMAIN dir' = DOMAIN dir \ {file} /\ \A n \in DOMAIN dir : n # file => dir'[n] = dir[n]
    BY <2>1
  <2>5. todo' \in [Recorders -> Seq(Ids)] /\ todo'[p] = rest /\ \A q \in Recorders \ {p} : todo'[q] = todo[q]
    BY <1>0, <2>1, <2>2 DEF RecordTypes
  <2>6. RecordTypes'
    <3>1. IsFiniteSet(DOMAIN dir')
      <4>1. DOMAIN dir' \in SUBSET DOMAIN dir
        BY <2>4
      <4> QED
        BY <1>0, <4>1, FS_Subset DEF RecordTypes
    <3>2. dir' \in [DOMAIN dir' -> Ids] /\ DOMAIN dir' \subseteq Names
      BY <1>0, <2>1, <2>4 DEF RecordTypes
    <3>3. removed' \subseteq [name : Names, by : Recorders]
      BY <1>0, <2>1, <2>3 DEF RecordTypes
    <3> QED
      BY <1>0, <1>n, <2>1, <2>5, <3>1, <3>2, <3>3 DEF RecordTypes
  <2>7. StampInv' /\ StoredInv'
    BY <1>0, <2>1, <2>4 DEF RecordInv, StampInv, StoredInv
  <2>8. AskedFor(p, id)
    BY <2>2 DEF RecordInv, AskedInv
  <2>9. AskedInv'
    <3> SUFFICES ASSUME NEW q \in Recorders, NEW v \in ToSet(todo'[q]) PROVE AskedFor(q, v)
      BY <1>0 DEF AskedInv, AskedFor
    <3>1. v \in ToSet(todo[q])
      BY <2>2, <2>5
    <3> QED
      BY <3>1 DEF RecordInv, AskedInv
  <2>10. KeptInv'
    <3>1. \A n : TakenIn(n, removed, job) => TakenIn(n, removed', job)
      BY <2>1 DEF TakenIn
    <3>2. TakenIn(file, removed', job)
      <4>1. gone \in removed' /\ gone.name = file /\ gone.by = p
        BY <2>1
      <4>2. (~job[p].bulk \/ job[p].yes) /\ \E i \in DOMAIN job[p].args : Id(file) \in job[p].args[i].hits
        BY <2>3, <2>8 DEF AskedFor
      <4> QED
        BY <4>1, <4>2 DEF TakenIn
    <3> SUFFICES ASSUME NEW q \in Recorders, at[q] \in {"write", "saved"}
                 PROVE  \/ name[q] \in DOMAIN dir' /\ (at[q] = "saved" => dir'[name[q]] = Id(name[q]))
                        \/ TakenIn(name[q], removed', job)
      BY <1>0, <2>1 DEF KeptInv
    <3>3. \/ name[q] \in DOMAIN dir /\ (at[q] = "saved" => dir[name[q]] = Id(name[q]))
          \/ TakenIn(name[q], removed, job)
      BY DEF RecordInv, KeptInv
    <3>4. CASE name[q] = file
      BY <3>2, <3>4
    <3>5. CASE name[q] # file
      BY <2>4, <3>1, <3>3, <3>5
    <3> QED
      BY <3>4, <3>5
  <2>11. CountInv'
    <3> SUFFICES ASSUME NEW q \in Recorders
                 PROVE  /\ IsFiniteSet(RemovedBy(q)')
                        /\ at[q] = "begin" => RemovedBy(q)' = {} /\ todo'[q] = <<>>
                        /\ job[q].kind = "del" /\ ~job[q].bulk =>
                             Cardinality(RemovedBy(q)') + Len(todo'[q]) <= Len(job[q].args)
      BY <1>0, <2>1 DEF CountInv, RemovedBy
    <3>1. CASE q # p
      <4>1. RemovedBy(q)' = RemovedBy(q)
        BY <2>1, <3>1 DEF RemovedBy
      <4> QED
        BY <2>5, <3>1, <4>1 DEF RecordInv, CountInv
    <3>2. CASE q = p
      <4>1. RemovedBy(p)' = RemovedBy(p) \cup {gone}
        BY <2>1 DEF RemovedBy
      <4>2. IsFiniteSet(RemovedBy(p))
        BY DEF RecordInv, CountInv
      <4> DEFINE c == Cardinality(RemovedBy(p))
                 d == Cardinality(RemovedBy(p) \cup {gone})
      <4>3. IsFiniteSet(RemovedBy(p) \cup {gone}) /\ c \in Nat /\ (d = c \/ d = c + 1)
        BY <4>2, FS_AddElement, FS_CardinalityType
      <4>4. job[p].kind = "del" /\ ~job[p].bulk => c + Len(todo[p]) <= Len(job[p].args)
        BY DEF RecordInv, CountInv
      <4>5. Len(job[p].args) \in Nat
        BY <1>0, JobIs DEF RecordTypes
      <4> HIDE DEF c, d
      <4>6. job[p].kind = "del" /\ ~job[p].bulk => d + Len(rest) <= Len(job[p].args)
        BY <2>2, <4>3, <4>4, <4>5
      <4> QED
        BY <1>0, <2>5, <3>2, <4>1, <4>3, <4>6 DEF d
    <3> QED
      BY <3>1, <3>2
  <2>12. GoneInv'
    <3> SUFFICES ASSUME NEW q \in Recorders
                 PROVE  /\ at[q] = "deleted" => todo'[q] = <<>>
                        /\ at[q] \in {"delete", "deleted"} =>
                             \A n \in Stored, i \in DOMAIN job[q].args :
                               Id(n) \in job[q].args[i].hits /\ n \in DOMAIN dir' => Id(n) \in ToSet(todo'[q])
      BY <1>0, <2>1 DEF GoneInv
    <3>1. CASE q # p
      BY <2>4, <2>5, <3>1 DEF RecordInv, GoneInv
    <3>2. CASE q = p
      <4>1. ASSUME NEW n \in Stored, NEW i \in DOMAIN job[p].args, Id(n) \in job[p].args[i].hits, n \in DOMAIN dir'
            PROVE  Id(n) \in ToSet(rest)
        <5>1. Id(n) \in ToSet(todo[p]) /\ n # file
          BY <1>0, <2>4, <4>1 DEF RecordInv, GoneInv
        <5> QED
          BY <2>2, <2>3, <5>1
      <4> QED
        BY <1>0, <2>5, <3>2, <4>1
    <3> QED
      BY <3>1, <3>2
  <2> QED
    BY <2>6, <2>7, <2>9, <2>10, <2>11, <2>12 DEF RecordInv
<1> QED
  BY <1>1, <1>2, <1>3

(* A process that ends changes nothing.                                   *)
LEMMA QuitStep ==
  ASSUME RecordInv, NEW p \in Recorders, Quits(p)
  PROVE  RecordInv'
<1>1. Move(p, "failed") /\ UNCHANGED <<clock, dir, job, name, todo, removed>> /\ name \in [Recorders -> Names]
  BY DEF RecordInv, RecordTypes, Quits
<1> QED
  BY <1>1, QuietStep DEF Places

LEMMA TickStep == ASSUME RecordInv, Tick PROVE RecordInv'
<1>1. clock' = clock + 1 /\ UNCHANGED <<dir, job, at, name, todo, removed>>
  BY DEF Tick
<1>2. RecordTypes'
  BY <1>1 DEF RecordInv, RecordTypes
<1> QED
  BY <1>1, <1>2 DEF RecordInv, StampInv, StoredInv, AskedInv, AskedFor, KeptInv, CountInv, RemovedBy, GoneInv

(* Whatever processes save and delete at once, and wherever they end: a    *)
(* record that was saved is there until a command that asks for it takes it*)
(* away (the file is created with O_EXCL, release.go:75), an argument      *)
(* without patterns takes one record at most, and after a successful `del' *)
(* nothing of what it names is left (resolveRecordIDs, cli/release.go).    *)
THEOREM RecordsAreKept == RecordSpec => []RecordsAgree
<1>1. RecordInv /\ [RecordNext]_relVars => RecordInv'
  <2> SUFFICES ASSUME RecordInv, [RecordNext]_relVars PROVE RecordInv'
    OBVIOUS
  <2>1. CASE UNCHANGED relVars
    <3>1. UNCHANGED <<clock, dir, job, at, name, todo, removed>>
      BY <2>1 DEF relVars
    <3>2. RecordTypes' /\ StampInv' /\ StoredInv' /\ AskedInv' /\ KeptInv'
      BY <3>1 DEF RecordInv, RecordTypes, StampInv, StoredInv, AskedInv, AskedFor, KeptInv
    <3>3. CountInv' /\ GoneInv'
      BY <3>1 DEF RecordInv, CountInv, RemovedBy, GoneInv
    <3> QED
      BY <3>2, <3>3 DEF RecordInv
  <2>2. CASE Tick
    BY <2>2, TickStep
  <2>3. ASSUME NEW p \in Recorders, Stamp(p) \/ Create(p) \/ Write(p) \/ Find(p) \/ Delete(p) \/ Quits(p)
        PROVE  RecordInv'
    BY <2>3, StampStep, CreateStep, WriteStep, FindStep, DeleteStep, QuitStep
  <2> QED
    BY <2>1, <2>2, <2>3 DEF RecordNext
<1>2. RecordInv => RecordsAgree
  <2> SUFFICES ASSUME RecordInv PROVE RecordsAgree
    OBVIOUS
  <2>1. RecordsKept
    BY DEF RecordInv, KeptInv, TakenIn, RecordsKept, TakenAway
  <2>2. OneEach
    <3> SUFFICES ASSUME NEW p \in Recorders, job[p].kind = "del", ~job[p].bulk
                 PROVE  Cardinality(RemovedBy(p)) <= Len(job[p].args)
      BY DEF OneEach
    <3>1. /\ Cardinality(RemovedBy(p)) + Len(todo[p]) <= Len(job[p].args)
          /\ IsFiniteSet(RemovedBy(p))
      BY DEF RecordInv, CountInv
    <3>2. Len(todo[p]) \in Nat /\ Len(job[p].args) \in Nat
      <4>1. job[p] \in Jobs /\ todo[p] \in Seq(Ids)
        BY DEF RecordInv, RecordTypes
      <4>2. Len(todo[p]) \in Nat
        BY <4>1
      <4>3. job[p].args \in Seq(Args)
        BY <4>1, JobIs
      <4> QED
        BY <4>2, <4>3
    <3>3. Cardinality(RemovedBy(p)) \in Nat
      BY <3>1, FS_CardinalityType
    <3> QED
      BY <3>1, <3>2, <3>3
  <2>3. DeletedIsGone
    <3>1. ToSet(<<>>) = {}
      BY DEF ToSet
    <3> QED
      BY <3>1 DEF RecordInv, GoneInv, DeletedIsGone
  <2> QED
    BY <2>1, <2>2, <2>3 DEF RecordsAgree
<1> QED
  BY InitRecords, <1>1, <1>2, PTL DEF RecordSpec
=============================================================================
