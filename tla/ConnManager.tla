----------------------------- MODULE ConnManager -----------------------------
(***************************************************************************)
(* conn.Manager (src/internal/conn/manager.go): one connection per host,   *)
(* dialled lazily by the goroutines of a run, reused by all of them and    *)
(* closed together at the end.  Get looks the host up under the mutex,     *)
(* dials OUTSIDE it (bounded by a semaphore) and looks again before it     *)
(* publishes, so two goroutines may dial the same host and the loser must  *)
(* close its own connection.  Each critical section of the code is one     *)
(* action; everything between two of them interleaves.                     *)
(*                                                                         *)
(* A connection identity that no goroutine holds and that is not open is   *)
(* free for the next NewConnection: Conns bounds the live ones only.       *)
(***************************************************************************)
EXTENDS Naturals, FiniteSets

CONSTANTS Hosts,       \* inventory host names
          Workers,     \* goroutines that call Get: fan-out workers, rollback
          Conns,       \* identities of connection objects
          NoConn,      \* the nil Conn
          MaxConnect   \* SetConnectConcurrency; 0 = no semaphore

ASSUME ConnAssumption == /\ NoConn \notin Conns
                         /\ MaxConnect \in Nat
                         /\ IsFiniteSet(Workers)

VARIABLES closed,      \* Manager.closed
          table,       \* Manager.conns
          sem,         \* tokens in Manager.connectSem
          link,        \* what became of each connection object
          pc,          \* where each goroutine is in Get
          host,        \* the host each goroutine asked for
          mine,        \* the connection a goroutine dialled in this Get
          got,         \* the connection a goroutine was handed by Get
          cancelled    \* the context of the run is done

vars == <<closed, table, sem, link, pc, host, mine, got, cancelled>>

Steps == {"idle", "limit", "dial", "connect", "fail", "publish", "discard", "use"}

(* A goroutine that owns a semaphore token: it acquired one and its        *)
(* deferred release has not run.                                           *)
InToken(w) == pc[w] \in {"dial", "connect", "fail", "publish", "discard"}

(* Goroutines that own a connection nobody else knows of.                  *)
Owning(w) == pc[w] \in {"connect", "fail", "publish", "discard"}

Free(c) == /\ link[c] = "down"
           /\ \A w \in Workers : mine[w] # c /\ got[w] # c

(* Mutants of Release: an early return releases on top of the defer; the   *)
(* token is never given back.                                              *)
ReleaseTwice == IF MaxConnect = 0 THEN sem ELSE sem - 2
ReleaseNever == sem

(* The deferred receive from the semaphore channel.                        *)
Release == IF MaxConnect = 0 THEN sem ELSE sem - 1

(* Mutant of Room: a channel one too large.                                *)
RoomForOneMore == MaxConnect = 0 \/ sem <= MaxConnect

Room == MaxConnect = 0 \/ sem < MaxConnect

(* Mutant of Close: the error path forgets it.                             *)
CloseForgotten(c) == UNCHANGED link

Close(c) == link' = [link EXCEPT ![c] = "down"]

(* Mutants of Refused: no second look at the table; none at the flag.      *)
RefusedIfClosed(w) == closed
RefusedIfTaken(w) == table[host[w]] # NoConn

(* What a goroutine with a fresh connection finds when it looks again.     *)
Refused(w) == closed \/ table[host[w]] # NoConn

(* Mutant of Loser: conn and cn mixed up.                                  *)
LoserMixedUp(w) == got[w]

(* The connection that the loser of a double dial closes.                  *)
Loser(w) == mine[w]

TypeOK ==
  /\ closed \in BOOLEAN
  /\ table \in [Hosts -> Conns \cup {NoConn}]
  /\ sem \in Nat
  /\ link \in [Conns -> {"down", "dialling", "open"}]
  /\ pc \in [Workers -> Steps]
  /\ host \in [Workers -> Hosts]
  /\ mine \in [Workers -> Conns \cup {NoConn}]
  /\ got \in [Workers -> Conns \cup {NoConn}]
  /\ cancelled \in BOOLEAN

Init ==
  /\ closed = FALSE
  /\ table = [h \in Hosts |-> NoConn]
  /\ sem = 0
  /\ link = [c \in Conns |-> "down"]
  /\ pc = [w \in Workers |-> "idle"]
  /\ host \in [Workers -> Hosts]
  /\ mine = [w \in Workers |-> NoConn]
  /\ got = [w \in Workers |-> NoConn]
  /\ cancelled = FALSE

(* First critical section of Get: the manager is closed, the host has a    *)
(* connection, or the caller goes on to dial one.                          *)
Lookup(w) ==
  /\ pc[w] = "idle"
  /\ \E h \in Hosts :
       /\ host' = [host EXCEPT ![w] = h]
       /\ \/ /\ closed
             /\ UNCHANGED <<pc, got>>
          \/ /\ ~closed
             /\ table[h] # NoConn
             /\ got' = [got EXCEPT ![w] = table[h]]
             /\ pc' = [pc EXCEPT ![w] = "use"]
          \/ /\ ~closed
             /\ table[h] = NoConn
             /\ pc' = [pc EXCEPT ![w] = "limit"]
             /\ UNCHANGED got
  /\ UNCHANGED <<closed, table, sem, link, mine, cancelled>>

(* The select on the semaphore channel: a token if there is room...        *)
Acquire(w) ==
  /\ pc[w] = "limit"
  /\ Room
  /\ sem' = IF MaxConnect = 0 THEN sem ELSE sem + 1
  /\ pc' = [pc EXCEPT ![w] = "dial"]
  /\ UNCHANGED <<closed, table, link, host, mine, got, cancelled>>

(* ... or ctx.Done(); with no semaphore the select is not reached.         *)
GiveUp(w) ==
  /\ pc[w] = "limit"
  /\ MaxConnect # 0
  /\ cancelled
  /\ pc' = [pc EXCEPT ![w] = "idle"]
  /\ UNCHANGED <<closed, table, sem, link, host, mine, got, cancelled>>

(* NewConnection refuses the host's connection type.                       *)
NewConnectionFails(w) ==
  /\ pc[w] = "dial"
  /\ sem' = Release
  /\ pc' = [pc EXCEPT ![w] = "idle"]
  /\ UNCHANGED <<closed, table, link, host, mine, got, cancelled>>

NewConnection(w) ==
  /\ pc[w] = "dial"
  /\ \E c \in Conns :
       /\ Free(c)
       /\ link' = [link EXCEPT ![c] = "dialling"]
       /\ mine' = [mine EXCEPT ![w] = c]
  /\ pc' = [pc EXCEPT ![w] = "connect"]
  /\ UNCHANGED <<closed, table, sem, host, got, cancelled>>

(* The handshake, outside the mutex: it succeeds or errs.                  *)
Connect(w) ==
  /\ pc[w] = "connect"
  /\ \/ /\ link' = [link EXCEPT ![mine[w]] = "open"]
        /\ pc' = [pc EXCEPT ![w] = "publish"]
     \/ /\ UNCHANGED link
        /\ pc' = [pc EXCEPT ![w] = "fail"]
  /\ UNCHANGED <<closed, table, sem, host, mine, got, cancelled>>

(* A failed handshake: Close, then the deferred release and the error.     *)
ConnectFails(w) ==
  /\ pc[w] = "fail"
  /\ Close(mine[w])
  /\ mine' = [mine EXCEPT ![w] = NoConn]
  /\ sem' = Release
  /\ pc' = [pc EXCEPT ![w] = "idle"]
  /\ UNCHANGED <<closed, table, host, got, cancelled>>

(* Second critical section: closed or taken meanwhile makes the caller     *)
(* discard its own connection, otherwise it is published and returned.     *)
Publish(w) ==
  /\ pc[w] = "publish"
  /\ \/ /\ Refused(w)
        /\ got' = [got EXCEPT ![w] = IF closed THEN @ ELSE table[host[w]]]
        /\ pc' = [pc EXCEPT ![w] = "discard"]
        /\ UNCHANGED <<table, mine, sem>>
     \/ /\ ~Refused(w)
        /\ table' = [table EXCEPT ![host[w]] = mine[w]]
        /\ got' = [got EXCEPT ![w] = mine[w]]
        /\ mine' = [mine EXCEPT ![w] = NoConn]
        /\ sem' = Release
        /\ pc' = [pc EXCEPT ![w] = "use"]
  /\ UNCHANGED <<closed, link, host, cancelled>>

(* The loser closes the connection it dialled, outside the mutex, and      *)
(* returns the other one, or the "manager is closed" error.                *)
Discard(w) ==
  /\ pc[w] = "discard"
  /\ Close(Loser(w))
  /\ mine' = [mine EXCEPT ![w] = NoConn]
  /\ sem' = Release
  /\ pc' = [pc EXCEPT ![w] = IF got[w] = NoConn THEN "idle" ELSE "use"]
  /\ UNCHANGED <<closed, table, host, got, cancelled>>

(* The caller is done with the connection (it keeps living in the table).  *)
Finish(w) ==
  /\ pc[w] = "use"
  /\ got' = [got EXCEPT ![w] = NoConn]
  /\ pc' = [pc EXCEPT ![w] = "idle"]
  /\ UNCHANGED <<closed, table, sem, link, host, mine, cancelled>>

CloseAll ==
  /\ \/ /\ closed
        /\ UNCHANGED <<closed, link, table>>
     \/ /\ ~closed
        /\ closed' = TRUE
        /\ link' = [c \in Conns |->
                      IF \E h \in Hosts : table[h] = c THEN "down" ELSE link[c]]
        /\ table' = [h \in Hosts |-> NoConn]
  /\ UNCHANGED <<sem, pc, host, mine, got, cancelled>>

Cancel ==
  /\ ~cancelled
  /\ cancelled' = TRUE
  /\ UNCHANGED <<closed, table, sem, link, pc, host, mine, got>>

Get(w) == \/ Lookup(w) \/ Acquire(w) \/ GiveUp(w)
          \/ NewConnectionFails(w) \/ NewConnection(w)
          \/ Connect(w) \/ ConnectFails(w) \/ Publish(w) \/ Discard(w)

Next == \/ \E w \in Workers : Get(w) \/ Finish(w)
        \/ CloseAll
        \/ Cancel

Spec == Init /\ [][Next]_vars

(* A goroutine past its lookup is scheduled and its handshake ends.  The   *)
(* waiters of a Go channel are served in order, so one that waits for a    *)
(* token infinitely often freed gets it: strong fairness on Acquire only.  *)
FairSpec ==
  /\ Spec
  /\ \A w \in Workers :
       /\ SF_vars(Acquire(w))
       /\ WF_vars(NewConnection(w)) /\ WF_vars(Connect(w))
       /\ WF_vars(ConnectFails(w)) /\ WF_vars(Publish(w)) /\ WF_vars(Discard(w))

-----------------------------------------------------------------------------
(* No connection is lost: one that is dialling or open is in the table,    *)
(* or a goroutine still inside Get owns it and will publish or close it.   *)
NoLeak ==
  \A c \in Conns : link[c] # "down" =>
     \/ \E h \in Hosts : table[h] = c
     \/ \E w \in Workers : Owning(w) /\ mine[w] = c

(* A connection Get handed out is not closed under its user: it stays open *)
(* until CloseAll (the loser of a double dial closes its own, not the      *)
(* winner's, and CloseAll never hands out what it closed).                 *)
HandedOutAlive ==
  \A w \in Workers : pc[w] = "use" => closed \/ link[got[w]] = "open"

(* All users of a host share one connection ("返回同一实例", the claim of   *)
(* TestManagerSameHostDedup), across a double dial and CloseAll.           *)
OnePerHost ==
  \A w, v \in Workers :
     /\ pc[w] = "use" /\ pc[v] = "use"
     /\ host[w] = host[v]
     => got[w] = got[v]

(* What Get hands out is good for as long as it is used: open, and the same *)
(* for all users of a host.                                                *)
HandedOutRight == HandedOutAlive /\ OnePerHost

(* At most MaxConnect handshakes are under way, every early return of Get  *)
(* having given its token back.                                            *)
ConnectBound ==
  MaxConnect # 0 => /\ sem <= MaxConnect
                    /\ sem = Cardinality({w \in Workers : InToken(w)})

(* Once closed, no connection is published: nothing outlives CloseAll      *)
(* except what the dialling goroutines themselves will close.              *)
ClosedIsEmpty == closed => \A h \in Hosts : table[h] = NoConn

(* Get and CloseAll lose neither a connection nor a token between them,    *)
(* whatever returns early.                                                 *)
NothingIsLost == NoLeak /\ ClosedIsEmpty /\ ConnectBound

(* A host's connection is never replaced, only dropped by CloseAll.        *)
NeverReplaced ==
  [][\A h \in Hosts : table[h] # NoConn => table'[h] = table[h] \/ closed']_vars

(* Every Get returns: a goroutine does not wait forever for a token or     *)
(* with a connection it dialled.                                           *)
GetReturns ==
  \A w \in Workers : pc[w] = "limit" ~> pc[w] \in {"idle", "use"}
=============================================================================
