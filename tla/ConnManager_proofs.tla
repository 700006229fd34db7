-------------------------- MODULE ConnManager_proofs --------------------------
(***************************************************************************)
(* What ConnManager promises, for every number of hosts, goroutines and    *)
(* connection objects.                                                     *)
(***************************************************************************)
EXTENDS ConnManager, FiniteSetTheorems, TLAPS

(* What a goroutine holds fits its place in Get: it owns a connection in   *)
(* exactly the owning steps, and was handed one in "use" or while it       *)
(* discards the loser of a double dial.                                    *)
HoldsInv ==
  \A w \in Workers :
     /\ Owning(w) <=> mine[w] # NoConn
     /\ pc[w] = "use" => got[w] # NoConn
     /\ got[w] # NoConn => pc[w] \in {"use", "discard"}

(* An owned connection is private: no other goroutine owns it, uses it or  *)
(* finds it in the table.                                                  *)
PrivateInv ==
  \A w \in Workers : mine[w] # NoConn =>
     /\ \A v \in Workers : v # w => mine[v] # mine[w]
     /\ \A v \in Workers : got[v] # mine[w]
     /\ \A h \in Hosts : table[h] # mine[w]

(* The state of a connection object follows from who holds it.             *)
LinkInv ==
  /\ \A w \in Workers : pc[w] \in {"connect", "fail"} => link[mine[w]] = "dialling"
  /\ \A w \in Workers : pc[w] \in {"publish", "discard"} => link[mine[w]] = "open"
  /\ \A h \in Hosts : table[h] # NoConn => link[table[h]] = "open"
  /\ \A g, h \in Hosts : table[g] # NoConn /\ g # h => table[g] # table[h]

(* Until CloseAll, what a goroutine was handed is what the table holds.    *)
HandedInv ==
  \A w \in Workers : got[w] # NoConn /\ ~closed => table[host[w]] = got[w]

(* Two goroutines were never handed different connections for one host.    *)
SharedInv ==
  \A w, v \in Workers :
     got[w] # NoConn /\ got[v] # NoConn /\ host[w] = host[v] => got[w] = got[v]

(* A semaphore token is out for every goroutine between its acquire and    *)
(* its deferred release; no token exists without a semaphore.              *)
Holders == {w \in Workers : InToken(w)}

TokenInv ==
  IF MaxConnect = 0 THEN sem = 0
                    ELSE sem = Cardinality(Holders) /\ sem <= MaxConnect

(* The part of the invariant that says who holds which connection ...      *)
LinkIInv == /\ HoldsInv
            /\ PrivateInv
            /\ LinkInv
            /\ HandedInv
            /\ SharedInv
            /\ NoLeak
            /\ ClosedIsEmpty

(* ... and the whole inductive invariant.                                  *)
IInv == TypeOK /\ TokenInv /\ LinkIInv

-----------------------------------------------------------------------------
(* The semaphore: its holders are finitely many goroutines.                *)
LEMMA HoldersFinite == IsFiniteSet(Holders)
BY ConnAssumption, FS_Subset DEF Holders

(* A goroutine that gives its token back lowers the count by one.          *)
LEMMA ReleaseTokens ==
  ASSUME TypeOK, TokenInv, NEW w \in Workers, InToken(w),
         pc' \in [Workers -> Steps], sem' = Release,
         pc'[w] \in {"idle", "use"},
         \A v \in Workers : v # w => pc'[v] = pc[v]
  PROVE  TokenInv' /\ sem' \in Nat
<1>1. CASE MaxConnect = 0
  BY <1>1 DEF TokenInv, Release
<1>2. CASE MaxConnect # 0
  <2>1. Holders' = Holders \ {w} /\ w \in Holders
    BY DEF Holders, InToken
  <2>2. /\ Cardinality(Holders') = Cardinality(Holders) - 1
        /\ Cardinality(Holders) \in Nat /\ Cardinality(Holders') \in Nat
    BY <2>1, HoldersFinite, FS_RemoveElement, FS_CardinalityType
  <2> QED
    BY <1>2, <2>2, ConnAssumption DEF TokenInv, Release, TypeOK
<1> QED BY <1>1, <1>2

(* A goroutine that takes a token raises it, below the limit.              *)
LEMMA AcquireTokens ==
  ASSUME TypeOK, TokenInv, NEW w \in Workers, Acquire(w)
  PROVE  TokenInv' /\ sem' \in Nat
<1>1. CASE MaxConnect = 0
  BY <1>1 DEF TokenInv, Acquire, Room
<1>2. CASE MaxConnect # 0
  <2>1. Holders' = Holders \cup {w} /\ w \notin Holders
    BY DEF Holders, InToken, Acquire, Room, TypeOK
  <2>2. Cardinality(Holders') = Cardinality(Holders) + 1
    BY <2>1, HoldersFinite, FS_AddElement
  <2> QED
    BY <1>2, <2>2, ConnAssumption DEF TokenInv, Acquire, Room, TypeOK
<1> QED BY <1>1, <1>2

(* A step inside the protected region, or outside it, moves no token.      *)
LEMMA KeepTokens ==
  ASSUME TokenInv, UNCHANGED sem,
         \A v \in Workers : InToken(v) <=> InToken(v)'
  PROVE  TokenInv'
<1>1. Holders' = Holders
  BY DEF Holders
<1> QED BY <1>1 DEF TokenInv

(* Every step of Get keeps the types and the count of tokens.              *)
LEMMA NextTokens == TypeOK /\ TokenInv /\ [Next]_vars => TypeOK' /\ TokenInv'
<1> SUFFICES ASSUME TypeOK, TokenInv, [Next]_vars PROVE TypeOK' /\ TokenInv'
  OBVIOUS
<1> USE ConnAssumption
<1>1. ASSUME NEW w \in Workers, Lookup(w) PROVE TypeOK' /\ TokenInv'
  <2>1. TokenInv'
    BY <1>1, KeepTokens DEF Lookup, InToken, TypeOK, Steps
  <2> QED BY <1>1, <2>1 DEF Lookup, TypeOK, Steps
<1>2. ASSUME NEW w \in Workers, Acquire(w) PROVE TypeOK' /\ TokenInv'
  <2>1. TokenInv' /\ sem' \in Nat
    BY <1>2, AcquireTokens
  <2> QED BY <1>2, <2>1 DEF Acquire, Room, TypeOK, Steps
<1>3. ASSUME NEW w \in Workers, GiveUp(w) PROVE TypeOK' /\ TokenInv'
  <2>1. TokenInv'
    BY <1>3, KeepTokens DEF GiveUp, InToken, TypeOK, Steps
  <2> QED BY <1>3, <2>1 DEF GiveUp, TypeOK, Steps
<1>4. ASSUME NEW w \in Workers, NewConnectionFails(w) PROVE TypeOK' /\ TokenInv'
  <2>1. TokenInv' /\ sem' \in Nat
    BY <1>4, ReleaseTokens DEF NewConnectionFails, InToken, TypeOK, Steps
  <2> QED BY <1>4, <2>1 DEF NewConnectionFails, TypeOK, Steps
<1>5. ASSUME NEW w \in Workers, NewConnection(w) PROVE TypeOK' /\ TokenInv'
  <2>1. TokenInv'
    BY <1>5, KeepTokens DEF NewConnection, InToken, TypeOK, Steps
  <2> QED BY <1>5, <2>1 DEF NewConnection, TypeOK, Steps
<1>6. ASSUME NEW w \in Workers, Connect(w) PROVE TypeOK' /\ TokenInv'
  <2>1. TokenInv'
    BY <1>6, KeepTokens DEF Connect, InToken, TypeOK, Steps
  <2> QED BY <1>6, <2>1 DEF Connect, TypeOK, Steps
<1>7. ASSUME NEW w \in Workers, ConnectFails(w) PROVE TypeOK' /\ TokenInv'
  <2>1. TokenInv' /\ sem' \in Nat
    BY <1>7, ReleaseTokens DEF ConnectFails, Close, InToken, TypeOK, Steps
  <2> QED BY <1>7, <2>1 DEF ConnectFails, Close, TypeOK, Steps
<1>8. ASSUME NEW w \in Workers, Publish(w) PROVE TypeOK' /\ TokenInv'
  <2>1. CASE UNCHANGED sem /\ pc' = [pc EXCEPT ![w] = "discard"]
    <3>1. TokenInv'
      BY <1>8, <2>1, KeepTokens DEF Publish, Refused, InToken, TypeOK, Steps
    <3> QED BY <1>8, <2>1, <3>1 DEF Publish, Refused, TypeOK, Steps
  <2>2. CASE sem' = Release /\ pc' = [pc EXCEPT ![w] = "use"]
    <3>1. TokenInv' /\ sem' \in Nat
      BY <1>8, <2>2, ReleaseTokens DEF Publish, Refused, InToken, TypeOK, Steps
    <3> QED BY <1>8, <3>1 DEF Publish, Refused, TypeOK, Steps
  <2> QED BY <1>8, <2>1, <2>2 DEF Publish, Refused
<1>9. ASSUME NEW w \in Workers, Discard(w) PROVE TypeOK' /\ TokenInv'
  <2>1. TokenInv' /\ sem' \in Nat
    BY <1>9, ReleaseTokens DEF Discard, Close, Loser, InToken, TypeOK, Steps
  <2> QED BY <1>9, <2>1 DEF Discard, Close, Loser, TypeOK, Steps
<1>10. ASSUME NEW w \in Workers, Finish(w) PROVE TypeOK' /\ TokenInv'
  <2>1. TokenInv'
    BY <1>10, KeepTokens DEF Finish, InToken, TypeOK, Steps
  <2> QED BY <1>10, <2>1 DEF Finish, TypeOK, Steps
<1>11. CASE CloseAll
  <2>1. TokenInv'
    BY <1>11, KeepTokens DEF CloseAll, InToken
  <2> QED BY <1>11, <2>1 DEF CloseAll, TypeOK, Steps
<1>12. CASE Cancel
  <2>1. TokenInv'
    BY <1>12, KeepTokens DEF Cancel, InToken
  <2> QED BY <1>12, <2>1 DEF Cancel, TypeOK, Steps
<1>13. CASE UNCHANGED vars
  <2>1. TokenInv'
    BY <1>13, KeepTokens DEF vars, InToken
  <2> QED BY <1>13, <2>1 DEF vars, TypeOK, Steps
<1> QED
  BY <1>1, <1>2, <1>3, <1>4, <1>5, <1>6, <1>7, <1>8, <1>9, <1>10, <1>11, <1>12, <1>13 DEF Next, Get

-----------------------------------------------------------------------------
(* Who holds which connection.                                             *)

(* Every step keeps track of who owns, publishes and uses a connection.    *)
LEMMA NextLinks == TypeOK /\ LinkIInv /\ [Next]_vars => LinkIInv'
<1> SUFFICES ASSUME TypeOK, LinkIInv, [Next]_vars PROVE LinkIInv'
  OBVIOUS
<1> USE ConnAssumption DEF LinkIInv, TypeOK, Steps, Owning
<1>1. ASSUME NEW w \in Workers, Lookup(w) PROVE LinkIInv'
  <2>1. HoldsInv'
    BY <1>1 DEF Lookup, HoldsInv
  <2>2. PrivateInv'
    BY <1>1 DEF Lookup, PrivateInv, HoldsInv, LinkInv
  <2>3. LinkInv'
    BY <1>1 DEF Lookup, LinkInv, HoldsInv, PrivateInv
  <2>4. HandedInv' /\ SharedInv'
    BY <1>1 DEF Lookup, HandedInv, SharedInv, HoldsInv
  <2>5. NoLeak'
    BY <1>1 DEF Lookup, NoLeak, HoldsInv, PrivateInv
  <2>6. ClosedIsEmpty'
    BY <1>1 DEF Lookup, ClosedIsEmpty
  <2> QED BY <2>1, <2>2, <2>3, <2>4, <2>5, <2>6
<1>2. ASSUME NEW w \in Workers, Acquire(w) PROVE LinkIInv'
  <2>1. HoldsInv'
    BY <1>2 DEF Acquire, Room, HoldsInv
  <2>2. PrivateInv'
    BY <1>2 DEF Acquire, Room, PrivateInv, HoldsInv, LinkInv
  <2>3. LinkInv'
    BY <1>2 DEF Acquire, Room, LinkInv, HoldsInv, PrivateInv
  <2>4. HandedInv' /\ SharedInv'
    BY <1>2 DEF Acquire, Room, HandedInv, SharedInv, HoldsInv
  <2>5. NoLeak'
    BY <1>2 DEF Acquire, Room, NoLeak, HoldsInv, PrivateInv
  <2>6. ClosedIsEmpty'
    BY <1>2 DEF Acquire, Room, ClosedIsEmpty
  <2> QED BY <2>1, <2>2, <2>3, <2>4, <2>5, <2>6
<1>3. ASSUME NEW w \in Workers, GiveUp(w) PROVE LinkIInv'
  <2>1. HoldsInv'
    BY <1>3 DEF GiveUp, HoldsInv
  <2>2. PrivateInv'
    BY <1>3 DEF GiveUp, PrivateInv, HoldsInv, LinkInv
  <2>3. LinkInv'
    BY <1>3 DEF GiveUp, LinkInv, HoldsInv, PrivateInv
  <2>4. HandedInv' /\ SharedInv'
    BY <1>3 DEF GiveUp, HandedInv, SharedInv, HoldsInv
  <2>5. NoLeak'
    BY <1>3 DEF GiveUp, NoLeak, HoldsInv, PrivateInv
  <2>6. ClosedIsEmpty'
    BY <1>3 DEF GiveUp, ClosedIsEmpty
  <2> QED BY <2>1, <2>2, <2>3, <2>4, <2>5, <2>6
<1>4. ASSUME NEW w \in Workers, NewConnectionFails(w) PROVE LinkIInv'
  <2>1. HoldsInv'
    BY <1>4 DEF NewConnectionFails, HoldsInv
  <2>2. PrivateInv'
    BY <1>4 DEF NewConnectionFails, PrivateInv, HoldsInv, LinkInv
  <2>3. LinkInv'
    BY <1>4 DEF NewConnectionFails, LinkInv, HoldsInv, PrivateInv
  <2>4. HandedInv' /\ SharedInv'
    BY <1>4 DEF NewConnectionFails, HandedInv, SharedInv, HoldsInv
  <2>5. NoLeak'
    BY <1>4 DEF NewConnectionFails, NoLeak, HoldsInv, PrivateInv
  <2>6. ClosedIsEmpty'
    BY <1>4 DEF NewConnectionFails, ClosedIsEmpty
  <2> QED BY <2>1, <2>2, <2>3, <2>4, <2>5, <2>6
<1>5. ASSUME NEW w \in Workers, NewConnection(w) PROVE LinkIInv'
  <2>1. HoldsInv'
    BY <1>5 DEF NewConnection, Free, HoldsInv
  <2>2. PrivateInv'
    BY <1>5 DEF NewConnection, Free, PrivateInv, HoldsInv, LinkInv
  <2>3. LinkInv'
    BY <1>5 DEF NewConnection, Free, LinkInv, HoldsInv, PrivateInv
  <2>4. HandedInv' /\ SharedInv'
    BY <1>5 DEF NewConnection, Free, HandedInv, SharedInv, HoldsInv
  <2>5. NoLeak'
    BY <1>5 DEF NewConnection, Free, NoLeak, HoldsInv, PrivateInv
  <2>6. ClosedIsEmpty'
    BY <1>5 DEF NewConnection, Free, ClosedIsEmpty
  <2> QED BY <2>1, <2>2, <2>3, <2>4, <2>5, <2>6
<1>6. ASSUME NEW w \in Workers, Connect(w) PROVE LinkIInv'
  <2>1. HoldsInv'
    BY <1>6 DEF Connect, HoldsInv
  <2>2. PrivateInv'
    BY <1>6 DEF Connect, PrivateInv, HoldsInv, LinkInv
  <2>3. LinkInv'
    BY <1>6 DEF Connect, LinkInv, HoldsInv, PrivateInv
  <2>4. HandedInv' /\ SharedInv'
    BY <1>6 DEF Connect, HandedInv, SharedInv, HoldsInv
  <2>5. NoLeak'
    BY <1>6 DEF Connect, NoLeak, HoldsInv, PrivateInv
  <2>6. ClosedIsEmpty'
    BY <1>6 DEF Connect, ClosedIsEmpty
  <2> QED BY <2>1, <2>2, <2>3, <2>4, <2>5, <2>6
<1>7. ASSUME NEW w \in Workers, ConnectFails(w) PROVE LinkIInv'
  <2>1. HoldsInv'
    BY <1>7 DEF ConnectFails, Close, HoldsInv
  <2>2. PrivateInv'
    BY <1>7 DEF ConnectFails, Close, PrivateInv, HoldsInv, LinkInv
  <2>3. LinkInv'
    BY <1>7 DEF ConnectFails, Close, LinkInv, HoldsInv, PrivateInv
  <2>4. HandedInv' /\ SharedInv'
    BY <1>7 DEF ConnectFails, Close, HandedInv, SharedInv, HoldsInv
  <2>5. NoLeak'
    BY <1>7 DEF ConnectFails, Close, NoLeak, HoldsInv, PrivateInv
  <2>6. ClosedIsEmpty'
    BY <1>7 DEF ConnectFails, Close, ClosedIsEmpty
  <2> QED BY <2>1, <2>2, <2>3, <2>4, <2>5, <2>6
<1>8. ASSUME NEW w \in Workers, Publish(w) PROVE LinkIInv'
  <2>1. HoldsInv'
    BY <1>8 DEF Publish, Refused, HoldsInv
  <2>2. PrivateInv'
    BY <1>8 DEF Publish, Refused, PrivateInv, HoldsInv, LinkInv
  <2>3. LinkInv'
    BY <1>8 DEF Publish, Refused, LinkInv, HoldsInv, PrivateInv
  <2>4. HandedInv' /\ SharedInv'
    BY <1>8 DEF Publish, Refused, HandedInv, SharedInv, HoldsInv
  <2>5. NoLeak'
    BY <1>8 DEF Publish, Refused, NoLeak, HoldsInv, PrivateInv
  <2>6. ClosedIsEmpty'
    BY <1>8 DEF Publish, Refused, ClosedIsEmpty
  <2> QED BY <2>1, <2>2, <2>3, <2>4, <2>5, <2>6
<1>9. ASSUME NEW w \in Workers, Discard(w) PROVE LinkIInv'
  <2>1. HoldsInv'
    BY <1>9 DEF Discard, Close, Loser, HoldsInv
  <2>2. PrivateInv'
    BY <1>9 DEF Discard, Close, Loser, PrivateInv, HoldsInv, LinkInv
  <2>3. LinkInv'
    BY <1>9 DEF Discard, Close, Loser, LinkInv, HoldsInv, PrivateInv
  <2>4. HandedInv' /\ SharedInv'
    BY <1>9 DEF Discard, Close, Loser, HandedInv, SharedInv, HoldsInv
  <2>5. NoLeak'
    BY <1>9 DEF Discard, Close, Loser, NoLeak, HoldsInv, PrivateInv
  <2>6. ClosedIsEmpty'
    BY <1>9 DEF Discard, Close, Loser, ClosedIsEmpty
  <2> QED BY <2>1, <2>2, <2>3, <2>4, <2>5, <2>6
<1>10. ASSUME NEW w \in Workers, Finish(w) PROVE LinkIInv'
  <2>1. HoldsInv'
    BY <1>10 DEF Finish, HoldsInv
  <2>2. PrivateInv'
    BY <1>10 DEF Finish, PrivateInv, HoldsInv, LinkInv
  <2>3. LinkInv'
    BY <1>10 DEF Finish, LinkInv, HoldsInv, PrivateInv
  <2>4. HandedInv' /\ SharedInv'
    BY <1>10 DEF Finish, HandedInv, SharedInv, HoldsInv
  <2>5. NoLeak'
    BY <1>10 DEF Finish, NoLeak, HoldsInv, PrivateInv
  <2>6. ClosedIsEmpty'
    BY <1>10 DEF Finish, ClosedIsEmpty
  <2> QED BY <2>1, <2>2, <2>3, <2>4, <2>5, <2>6
<1>11. CASE CloseAll
  <2>1. HoldsInv'
    BY <1>11 DEF CloseAll, HoldsInv
  <2>2. PrivateInv'
    BY <1>11 DEF CloseAll, PrivateInv, HoldsInv, LinkInv
  <2>3. LinkInv'
    BY <1>11 DEF CloseAll, LinkInv, HoldsInv, PrivateInv
  <2>4. HandedInv' /\ SharedInv'
    BY <1>11 DEF CloseAll, HandedInv, SharedInv, HoldsInv
  <2>5. NoLeak'
    BY <1>11 DEF CloseAll, NoLeak, HoldsInv, PrivateInv
  <2>6. ClosedIsEmpty'
    <3>1. CASE closed
      BY <1>11, <3>1 DEF CloseAll, ClosedIsEmpty
    <3>2. CASE ~closed
      BY <1>11, <3>2 DEF CloseAll, ClosedIsEmpty
    <3> QED BY <3>1, <3>2
  <2> QED BY <2>1, <2>2, <2>3, <2>4, <2>5, <2>6
<1>12. CASE Cancel
  BY <1>12 DEF Cancel, HoldsInv, PrivateInv, LinkInv, HandedInv, SharedInv,
                NoLeak, ClosedIsEmpty
<1>13. CASE UNCHANGED vars
  BY <1>13 DEF vars, HoldsInv, PrivateInv, LinkInv, HandedInv, SharedInv,
                NoLeak, ClosedIsEmpty
<1> QED
  BY <1>1, <1>2, <1>3, <1>4, <1>5, <1>6, <1>7, <1>8, <1>9, <1>10, <1>11, <1>12, <1>13 DEF Next, Get

-----------------------------------------------------------------------------
(* A new manager satisfies the invariant.                                  *)
LEMMA InitIInv == Init => IInv
<1> SUFFICES ASSUME Init PROVE IInv
  OBVIOUS
<1> USE ConnAssumption DEF Init
<1>1. TypeOK
  BY DEF TypeOK, Steps
<1>2. TokenInv
  <2>1. Holders = {}
    BY DEF Holders, InToken
  <2> QED BY <2>1, FS_EmptySet DEF TokenInv
<1>3. LinkIInv
  BY DEF LinkIInv, HoldsInv, PrivateInv, LinkInv, HandedInv, SharedInv,
         NoLeak, ClosedIsEmpty, Owning
<1> QED BY <1>1, <1>2, <1>3 DEF IInv

(* The invariant is inductive.                                             *)
LEMMA NextIInv == IInv /\ [Next]_vars => IInv'
BY NextTokens, NextLinks DEF IInv

(* It holds of every reachable state of Get, CloseAll and cancellation.    *)
THEOREM SpecIInv == Spec => []IInv
BY InitIInv, NextIInv, PTL DEF Spec

(* Every state of the manager is well typed.                               *)
THEOREM TypeCorrect == Spec => []TypeOK
<1>1. IInv => TypeOK
  BY DEF IInv
<1> QED BY <1>1, SpecIInv, PTL

(* A connection in use is open until CloseAll, and all users of a host     *)
(* share it.                                                               *)
THEOREM HandedOutConnections == Spec => []HandedOutRight
<1>1. IInv => HandedOutAlive
  BY DEF IInv, LinkIInv, TypeOK, HoldsInv, HandedInv, LinkInv, HandedOutAlive
<1>2. IInv => OnePerHost
  BY DEF IInv, LinkIInv, HoldsInv, SharedInv, OnePerHost
<1>3. IInv => HandedOutRight
  BY <1>1, <1>2 DEF HandedOutRight
<1> QED BY <1>3, SpecIInv, PTL

(* No connection and no handshake token is ever lost, whatever the race     *)
(* between dialling goroutines, CloseAll and cancellation.                 *)
THEOREM NothingLost == Spec => []NothingIsLost
<1>1. IInv => NoLeak /\ ClosedIsEmpty
  BY DEF IInv, LinkIInv
<1>2. IInv => ConnectBound
  BY DEF IInv, TokenInv, Holders, ConnectBound
<1>3. IInv => NothingIsLost
  BY <1>1, <1>2 DEF NothingIsLost
<1> QED BY <1>3, SpecIInv, PTL

(* Nothing is published after CloseAll, and an entry of the table is never *)
(* replaced by another connection.                                         *)
THEOREM TableIsStable == Spec => []ClosedIsEmpty /\ NeverReplaced
<1>1. IInv => ClosedIsEmpty
  BY DEF IInv, LinkIInv
<1>2. IInv /\ [Next]_vars
        => [\A h \in Hosts : table[h] # NoConn => table'[h] = table[h] \/ closed']_vars
  BY DEF IInv, TypeOK, Next, Get, vars, Lookup, Acquire, Room, GiveUp, Close, Loser, Refused,
         NewConnectionFails, NewConnection, Connect, ConnectFails, Publish,
         Discard, Finish, CloseAll, Cancel
<1> QED BY <1>1, <1>2, SpecIInv, PTL DEF Spec, NeverReplaced
=============================================================================
