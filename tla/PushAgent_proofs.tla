--------------------------- MODULE PushAgent_proofs ---------------------------
(***************************************************************************)
(* That an operation of a push connection is carried out once at most, and *)
(* by an agent under the chain it was asked under, and that a connection   *)
(* leaves neither agents nor private keys on its target of its own accord: *)
(* every process that nobody uses, and every directory that no process will*)
(* clean, is paid for by a remote command that went wrong or by a crash.   *)
(* For any number of calls, bootstraps, generations, lost answers and      *)
(* crashes.                                                                *)
(***************************************************************************)
EXTENDS PushAgent, FiniteSetTheorems, TLAPS

Files == [bin : BOOLEAN, certs : Nat, pid : Nat]
Agents == [id : Nat \ {None}, suffix : 1 .. MaxBoots, gen : Nat, leaving : BOOLEAN]
Places ==
  {"boot", "binary", "certs", "start", "health", "undo", "kill", "cleanup", "idle", "ssh", "rotate", "op",
   "shutdown", "fallback", "last kill", "last cleanup", "closed", "dead"}
Conns ==
  [pc : Places, mode : {"boot", "migrate"}, agent : Nat, gen : Nat, new : Nat, probe : Nat, suffix : 0 .. MaxBoots,
   started : BOOLEAN, ssh : BOOLEAN, try : Nat, call : 0 .. MaxCalls, asked : Nat, spawned : Nat]

TypeInv ==
  /\ c \in Conns
  /\ store \in Nat
  /\ procs \in SUBSET Agents
  /\ files \in [1 .. MaxBoots -> Files]
  /\ ran \in [1 .. MaxCalls -> Nat]

(* Where an agent is being made, and where a call is under way: a migration *)
(* is part of the call that met the new certificates.                      *)
Making == {"certs", "kill", "start", "undo", "health"}
Migrating == c.mode = "migrate" /\ c.pc \in Making
Pending == c.pc \in {"ssh", "rotate", "op"} \/ Migrating

(* No call is carried out before it is asked for, or twice.                *)
OnceInv ==
  \A n \in 1 .. MaxCalls : ran[n] <= 1 /\ (n > c.call \/ (n = c.call /\ Pending) => ran[n] = 0)

(* Numbers are not given twice, and the agent of the connection and the    *)
(* one that is probed have the chain that the connection believes.         *)
ChainInv ==
  /\ Pending => c.call >= 1
  /\ c.agent # None => c.suffix >= 1
  /\ c.pc \in {"rotate", "op"} \/ Migrating => c.agent # None
  /\ c.pc \in Making => c.suffix >= 1
  /\ c.pc \in Making \ {"certs"} => files[c.suffix].certs \in {0, c.new}
  /\ c.pc = "binary" => c.mode = "boot"
  /\ c.pc = "op" => c.gen = c.asked
  /\ Migrating => c.new = c.asked
  /\ c.agent <= c.spawned
  /\ \A p \in procs :
       /\ p.id <= c.spawned
       /\ p.id = c.agent => p.gen = c.gen
       /\ c.pc = "health" /\ p.id = c.probe => p.gen = c.new

IInv == TypeInv /\ OnceInv /\ ChainInv
-----------------------------------------------------------------------------
LEMMA InitInv == Init => IInv
<1> SUFFICES ASSUME Init PROVE IInv
  OBVIOUS
<1> USE Bounds
<1>1. TypeInv
  BY DEF Init, TypeInv, Files, Agents, Conns, Places, None, NoFiles
<1>2. OnceInv /\ ChainInv
  BY DEF Init, OnceInv, ChainInv, Making, Migrating, Pending, None
<1> QED
  BY <1>1, <1>2 DEF IInv

(* What most steps do to the target: no agent is new, no chain is written.  *)
Kept ==
  /\ procs' \in SUBSET Agents
  /\ files' \in [1 .. MaxBoots -> Files]
  /\ store' \in Nat
  /\ \A p \in procs' : \E q \in procs : p.id = q.id /\ p.gen = q.gen
  /\ \A s \in 1 .. MaxBoots : files'[s].certs \in {0, files[s].certs}

LEMMA BinEdit ==
  ASSUME files \in [1 .. MaxBoots -> Files], NEW s, NEW b \in BOOLEAN, files' = [files EXCEPT ![s].bin = b]
  PROVE  files' \in [1 .. MaxBoots -> Files] /\ \A t \in 1 .. MaxBoots : files'[t].certs = files[t].certs
BY DEF Files

LEMMA PidEdit ==
  ASSUME files \in [1 .. MaxBoots -> Files], NEW s, NEW n \in Nat, files' = [files EXCEPT ![s].pid = n]
  PROVE  files' \in [1 .. MaxBoots -> Files] /\ \A t \in 1 .. MaxBoots : files'[t].certs = files[t].certs
BY DEF Files

LEMMA Leaving ==
  ASSUME NEW p \in Agents, NEW b \in BOOLEAN
  PROVE  /\ [p EXCEPT !.leaving = b] \in Agents /\ p.leaving \in BOOLEAN
         /\ [p EXCEPT !.leaving = b].id = p.id /\ [p EXCEPT !.leaving = b].gen = p.gen
BY DEF Agents

LEMMA TargetKept == ASSUME TypeInv, Next, ~StartAgent, ~UploadCerts PROVE Kept
<1>0. /\ procs \in SUBSET Agents /\ files \in [1 .. MaxBoots -> Files] /\ store \in Nat
      /\ store + 1 \in Nat /\ c.suffix \in 0 .. MaxBoots
  BY DEF TypeInv, Conns
<1> DEFINE SameAgents == UNCHANGED procs \/ procs' \in SUBSET procs
           SameFiles == \/ UNCHANGED files
                        \/ \E s \in Nat, f \in Files : f.certs \in {0, files[s].certs} /\ files' = [files EXCEPT ![s] = f]
<1>a. ASSUME SameAgents PROVE procs' \in SUBSET Agents /\ \A p \in procs' : \E q \in procs : p.id = q.id /\ p.gen = q.gen
  BY <1>0, <1>a
<1>f. ASSUME SameFiles
      PROVE  files' \in [1 .. MaxBoots -> Files] /\ \A s \in 1 .. MaxBoots : files'[s].certs \in {0, files[s].certs}
  BY <1>0, <1>f
<1>n. NoFiles \in Files /\ NoFiles.certs = 0
  BY DEF NoFiles, Files, None
<1> HIDE DEF SameAgents, SameFiles
<1>1. CASE Connect
  BY <1>0, <1>1, <1>a, <1>f DEF Connect, Kept, target, given, SameAgents, SameFiles
<1>2. CASE Unprepared
  BY <1>0, <1>2, <1>a, <1>f DEF Unprepared, Kept, target, given, SameAgents, SameFiles
<1>3. CASE HealthCheck
  BY <1>0, <1>3, <1>a, <1>f DEF HealthCheck, Kept, target, given, SameAgents, SameFiles
<1>4. CASE CallOverSSH
  BY <1>0, <1>4, <1>a, <1>f DEF CallOverSSH, Kept, target, given, SameAgents, SameFiles
<1>5. CASE Rotate
  BY <1>0, <1>5, <1>a, <1>f DEF Rotate, Kept, target, given, SameAgents, SameFiles
<1>6. CASE CallAgent
  BY <1>0, <1>6, <1>a, <1>f DEF CallAgent, Kept, target, given, SameAgents, SameFiles
<1>7. CASE Close
  BY <1>0, <1>7, <1>a, <1>f DEF Close, Kept, target, given, SameAgents, SameFiles
<1>8. CASE Fallback
  BY <1>0, <1>8, <1>a, <1>f DEF Fallback, Kept, target, given, SameAgents, SameFiles
<1>9. CASE Call
  BY <1>0, <1>9, <1>a, <1>f DEF Call, Kept, target, given, SameAgents, SameFiles
<1>10. CASE Die
  BY <1>0, <1>10, <1>a, <1>f DEF Die, Kept, target, given, SameAgents, SameFiles
<1>11. CASE UploadBinary
  <2>1. PICK b \in BOOLEAN : files' = [files EXCEPT ![c.suffix + 1].bin = b]
    BY <1>11 DEF UploadBinary
  <2>2. files' \in [1 .. MaxBoots -> Files] /\ \A t \in 1 .. MaxBoots : files'[t].certs = files[t].certs
    BY <1>0, <2>1, BinEdit
  <2> QED
    BY <1>0, <1>11, <1>a, <2>2 DEF UploadBinary, Kept, given, SameAgents
<1>12. CASE Undo
  <2>1. files' = files \/ files' = [files EXCEPT ![c.suffix].pid = 0]
    BY <1>12 DEF Undo, Kill, None
  <2>2. files' \in [1 .. MaxBoots -> Files] /\ \A t \in 1 .. MaxBoots : files'[t].certs = files[t].certs
    BY <1>0, <2>1, PidEdit
  <2> QED
    BY <1>0, <1>12, <1>a, <2>2 DEF Undo, Kill, Kept, given, SameAgents
<1>13. CASE KillOld
  <2>1. files' = files \/ files' = [files EXCEPT ![c.suffix].pid = 0]
    BY <1>13 DEF KillOld, Kill, None
  <2>2. files' \in [1 .. MaxBoots -> Files] /\ \A t \in 1 .. MaxBoots : files'[t].certs = files[t].certs
    BY <1>0, <2>1, PidEdit
  <2> QED
    BY <1>0, <1>13, <1>a, <2>2 DEF KillOld, Kill, Kept, given, SameAgents
<1>14. CASE Cleanup
  BY <1>0, <1>14, <1>a, <1>f, <1>n DEF Cleanup, Kept, target, given, SameAgents, SameFiles, Remove
<1>15. CASE Shutdown
  <2>1. procs' = procs \/ procs' = {[p EXCEPT !.leaving = @ \/ p.id = c.agent] : p \in procs}
    BY <1>15 DEF Shutdown
  <2>2. procs' \in SUBSET Agents /\ \A p \in procs' : \E q \in procs : p.id = q.id /\ p.gen = q.gen
    <3>1. ASSUME NEW p \in procs' PROVE p \in Agents /\ \E q \in procs : p.id = q.id /\ p.gen = q.gen
      <4>1. CASE p \in procs
        BY <1>0, <4>1
      <4>2. CASE \E q \in procs : p = [q EXCEPT !.leaving = q.leaving \/ q.id = c.agent]
        <5>1. PICK q \in procs : p = [q EXCEPT !.leaving = q.leaving \/ q.id = c.agent]
          BY <4>2
        <5>2. q \in Agents /\ (q.leaving \/ q.id = c.agent) \in BOOLEAN
          BY <1>0
        <5> QED
          BY <5>1, <5>2, Leaving
      <4> QED
        BY <2>1, <3>1, <4>1, <4>2
    <3> QED
      BY <3>1
  <2> QED
    BY <1>0, <1>15, <1>f, <2>2 DEF Shutdown, Kept, given, SameFiles
<1>16. CASE LastKill
  <2>1. files' = files \/ files' = [files EXCEPT ![c.suffix].pid = 0]
    BY <1>16 DEF LastKill, Kill, None
  <2>2. files' \in [1 .. MaxBoots -> Files] /\ \A t \in 1 .. MaxBoots : files'[t].certs = files[t].certs
    BY <1>0, <2>1, PidEdit
  <2> QED
    BY <1>0, <1>16, <1>a, <2>2 DEF LastKill, Kill, Kept, given, SameAgents
<1>17. CASE LastCleanup
  BY <1>0, <1>17, <1>a, <1>f, <1>n DEF LastCleanup, Kept, target, given, SameAgents, SameFiles, Remove
<1>18. CASE IdleExit
  <2>1. PICK p \in procs : procs' = (procs \ {p}) \cup {[p EXCEPT !.leaving = TRUE]}
    BY <1>18 DEF IdleExit
  <2>2. procs' \in SUBSET Agents /\ \A q \in procs' : \E r \in procs : q.id = r.id /\ q.gen = r.gen
    <3>1. ASSUME NEW q \in procs' PROVE q \in Agents /\ \E r \in procs : q.id = r.id /\ q.gen = r.gen
      <4>1. CASE q \in procs
        BY <1>0, <4>1
      <4>2. CASE q = [p EXCEPT !.leaving = TRUE]
        BY <1>0, <4>2, Leaving
      <4> QED
        BY <2>1, <3>1, <4>1, <4>2
    <3> QED
      BY <3>1
  <2> QED
    BY <1>0, <1>18, <1>f, <2>2 DEF IdleExit, Kept, given, SameFiles
<1>19. CASE Leave
  <2>1. PICK p \in procs : procs' = procs \ {p} /\ files' = [files EXCEPT ![p.suffix] = NoFiles]
    BY <1>19 DEF Leave, Cleaned
  <2>2. p.suffix \in Nat
    BY <1>0, Bounds DEF Agents
  <2>3. SameFiles
    BY <1>n, <2>1, <2>2 DEF SameFiles
  <2>4. SameAgents
    BY <2>1 DEF SameAgents
  <2>5. store' = store
    BY <1>19 DEF Leave, given
  <2> QED
    BY <1>0, <1>a, <1>f, <2>3, <2>4, <2>5 DEF Kept
<1>20. CASE Crash
  BY <1>0, <1>20, <1>a, <1>f, <1>n DEF Crash, Kept, target, given, SameAgents, SameFiles
<1>21. CASE NewMaterial
  BY <1>0, <1>21, <1>a, <1>f, <1>n DEF NewMaterial, Kept, target, given, SameAgents, SameFiles
<1> QED
  BY <1>1, <1>2, <1>3, <1>4, <1>5, <1>6, <1>7, <1>8, <1>9, <1>10, <1>11, <1>12, <1>13, <1>14, <1>15, <1>16, <1>17, <1>18, <1>19, <1>20, <1>21 DEF Next, Control

-----------------------------------------------------------------------------
(* Where no agent is being made and no call is under way.                  *)
Resting == {"idle", "cleanup", "closed", "dead", "boot", "shutdown", "fallback", "last kill", "last cleanup"}

LEMMA Rest ==
  ASSUME IInv, Kept, c' \in Conns, c'.pc \in Resting \/ (c'.pc = "binary" /\ c'.mode = "boot"),
         c'.agent \in {None, c.agent}, c'.gen = c.gen, c'.suffix = c.suffix, c'.spawned = c.spawned, c'.call = c.call,
         ran' \in [1 .. MaxCalls -> Nat], \A n \in 1 .. MaxCalls : ran'[n] <= 1 /\ (n > c.call => ran'[n] = 0)
  PROVE  IInv'
<1>1. TypeInv'
  BY DEF IInv, TypeInv, Kept
<1>2. OnceInv'
  BY DEF IInv, OnceInv, Pending, Migrating, Making, Resting
<1>3. \A p \in procs' : p.id # None
  BY DEF Kept, Agents
<1>4. ChainInv'
  <2>1. c'.pc \notin Making \cup {"ssh", "rotate", "op"} /\ ~Pending' /\ ~Migrating'
    BY DEF Making, Pending, Migrating, Resting
  <2>2. c'.agent <= c'.spawned /\ (c'.agent # None => c'.suffix >= 1)
    BY DEF IInv, TypeInv, Conns, ChainInv, None
  <2>3. \A p \in procs' : p.id <= c'.spawned /\ (p.id = c'.agent => p.gen = c'.gen)
    BY <1>3 DEF IInv, ChainInv, Kept
  <2>4. c'.pc = "binary" => c'.mode = "boot"
    BY DEF Resting
  <2> QED
    BY <2>1, <2>2, <2>3, <2>4 DEF ChainInv, Making
<1> QED
  BY <1>1, <1>2, <1>4 DEF IInv

LEMMA Still == ASSUME IInv, Kept, UNCHANGED <<c, ran>> PROVE IInv'
<1>1. TypeInv'
  BY DEF IInv, TypeInv, Kept
<1>2. OnceInv'
  BY DEF IInv, OnceInv, Pending, Migrating, Making
<1>3. c.suffix \in 0 .. MaxBoots
  BY DEF IInv, TypeInv, Conns
<1>4. ChainInv'
  BY <1>3 DEF IInv, ChainInv, Pending, Migrating, Making, Kept
<1> QED
  BY <1>1, <1>2, <1>4 DEF IInv

(* A call that is carried out had not been carried out before.             *)
LEMMA RanOnce ==
  ASSUME TypeInv, OnceInv, ChainInv, UNCHANGED ran \/ (Pending /\ \E end \in {"ok", "lost", "failed"} : Performed(end))
  PROVE  ran' \in [1 .. MaxCalls -> Nat] /\ \A n \in 1 .. MaxCalls : ran'[n] <= 1 /\ (n > c.call => ran'[n] = 0)
<1>1. CASE UNCHANGED ran
  BY <1>1 DEF TypeInv, OnceInv
<1>2. CASE Pending /\ ran' = [ran EXCEPT ![c.call] = @ + 1]
  <2>1. c.call \in 1 .. MaxCalls /\ ran[c.call] = 0
    BY <1>2 DEF TypeInv, Conns, OnceInv, ChainInv
  <2> QED
    BY <1>2, <2>1 DEF TypeInv, OnceInv
<1> QED
  BY <1>1, <1>2 DEF Performed

LEMMA ConnectionRests ==
  ASSUME IInv, Kept,
         \/ Connect \/ Unprepared \/ Cleanup \/ CallOverSSH \/ CallAgent
         \/ Close \/ Shutdown \/ Fallback \/ LastKill \/ LastCleanup \/ Die
  PROVE  IInv'
<1>0. c \in Conns /\ store \in Nat
  BY DEF IInv, TypeInv
<1> DEFINE Rests ==
      /\ c' \in Conns /\ (c'.pc \in Resting \/ (c'.pc = "binary" /\ c'.mode = "boot"))
      /\ c'.agent \in {None, c.agent} /\ c'.gen = c.gen /\ c'.suffix = c.suffix
      /\ c'.spawned = c.spawned /\ c'.call = c.call
<1>q. ASSUME Rests, UNCHANGED ran \/ (Pending /\ \E end \in {"ok", "lost", "failed"} : Performed(end)) PROVE IInv'
  BY <1>q, RanOnce, Rest DEF IInv
<1>1. CASE Connect
  <2>1. Rests
    <3>1. \/ c' = [c EXCEPT !.pc = "idle"]
          \/ c' = [c EXCEPT !.ssh = TRUE, !.mode = "boot", !.new = store, !.pc = "binary"]
      BY <1>1 DEF Connect
    <3>2. CASE c' = [c EXCEPT !.pc = "idle"]
      BY <1>0, <3>2 DEF Conns, Places, Resting, None
    <3>3. CASE c' = [c EXCEPT !.ssh = TRUE, !.mode = "boot", !.new = store, !.pc = "binary"]
      BY <1>0, <3>3 DEF Conns, Places, Resting, None
    <3> QED
      BY <3>1, <3>2, <3>3
  <2>2. UNCHANGED ran
    BY <1>1 DEF Connect, given
  <2> QED
    BY <2>1, <2>2, <1>q
<1>2. CASE Unprepared
  <2>1. Rests
    BY <1>0, <1>2 DEF Unprepared, Conns, Places, Resting, None
  <2>2. UNCHANGED ran
    BY <1>2 DEF Unprepared, given
  <2> QED
    BY <2>1, <2>2, <1>q
<1>3. CASE Cleanup
  <2>1. Rests
    BY <1>0, <1>3 DEF Cleanup, Conns, Places, Resting, None
  <2>2. UNCHANGED ran
    BY <1>3 DEF Cleanup, given
  <2> QED
    BY <2>1, <2>2, <1>q
<1>4. CASE CallOverSSH
  <2>1. Rests
    BY <1>0, <1>4 DEF CallOverSSH, Conns, Places, Resting, None
  <2>2. Pending /\ \E end \in {"ok", "lost", "failed"} : Performed(end)
    BY <1>4 DEF CallOverSSH, At, Pending, Ends
  <2> QED
    BY <2>1, <2>2, <1>q
<1>5. CASE CallAgent
  <2>1. Rests
    <3>1. \/ c' = [c EXCEPT !.pc = "idle"]
          \/ c' = [c EXCEPT !.agent = None, !.started = FALSE, !.pc = "boot"]
      BY <1>5 DEF CallAgent, Healed
    <3>2. CASE c' = [c EXCEPT !.pc = "idle"]
      BY <1>0, <3>2 DEF Conns, Places, Resting, None
    <3>3. CASE c' = [c EXCEPT !.agent = None, !.started = FALSE, !.pc = "boot"]
      BY <1>0, <3>3 DEF Conns, Places, Resting, None
    <3> QED
      BY <3>1, <3>2, <3>3
  <2>2. Pending /\ \E end \in {"ok", "lost", "failed"} : Performed(end)
    BY <1>5 DEF CallAgent, At, Pending, Ends
  <2> QED
    BY <2>1, <2>2, <1>q
<1>6. CASE Close
  <2>1. Rests
    BY <1>0, <1>6 DEF Close, Closed, Conns, Places, Resting, None
  <2>2. UNCHANGED ran
    BY <1>6 DEF Close, given
  <2> QED
    BY <2>1, <2>2, <1>q
<1>7. CASE Shutdown
  <2>1. Rests
    <3>1. \/ c' = [c EXCEPT !.agent = None, !.ssh = FALSE, !.pc = "closed"]
          \/ c' = [c EXCEPT !.pc = "fallback"]
      BY <1>7 DEF Shutdown, Closed
    <3>2. CASE c' = [c EXCEPT !.agent = None, !.ssh = FALSE, !.pc = "closed"]
      BY <1>0, <3>2 DEF Conns, Places, Resting, None
    <3>3. CASE c' = [c EXCEPT !.pc = "fallback"]
      BY <1>0, <3>3 DEF Conns, Places, Resting, None
    <3> QED
      BY <3>1, <3>2, <3>3
  <2>2. UNCHANGED ran
    BY <1>7 DEF Shutdown, given
  <2> QED
    BY <2>1, <2>2, <1>q
<1>8. CASE Fallback
  <2>1. Rests
    <3>1. \/ c' = [c EXCEPT !.agent = None, !.ssh = FALSE, !.pc = "closed"]
          \/ c' = [c EXCEPT !.ssh = TRUE, !.pc = "last kill"]
      BY <1>8 DEF Fallback, Closed
    <3>2. CASE c' = [c EXCEPT !.agent = None, !.ssh = FALSE, !.pc = "closed"]
      BY <1>0, <3>2 DEF Conns, Places, Resting, None
    <3>3. CASE c' = [c EXCEPT !.ssh = TRUE, !.pc = "last kill"]
      BY <1>0, <3>3 DEF Conns, Places, Resting, None
    <3> QED
      BY <3>1, <3>2, <3>3
  <2>2. UNCHANGED ran
    BY <1>8 DEF Fallback, given
  <2> QED
    BY <2>1, <2>2, <1>q
<1>9. CASE LastKill
  <2>1. Rests
    BY <1>0, <1>9 DEF LastKill, Conns, Places, Resting, None
  <2>2. UNCHANGED ran
    BY <1>9 DEF LastKill, given
  <2> QED
    BY <2>1, <2>2, <1>q
<1>10. CASE LastCleanup
  <2>1. Rests
    BY <1>0, <1>10 DEF LastCleanup, Closed, Conns, Places, Resting, None
  <2>2. UNCHANGED ran
    BY <1>10 DEF LastCleanup, given
  <2> QED
    BY <2>1, <2>2, <1>q
<1>11. CASE Die
  <2>1. Rests
    BY <1>0, <1>11 DEF Die, Conns, Places, Resting, None
  <2>2. UNCHANGED ran
    BY <1>11 DEF Die, given
  <2> QED
    BY <2>1, <2>2, <1>q
<1> QED
  BY <1>1, <1>2, <1>3, <1>4, <1>5, <1>6, <1>7, <1>8, <1>9, <1>10, <1>11

(* The next try, of the agent that is being made.                          *)
SameMaking ==
  /\ c'.mode = c.mode /\ c'.agent = c.agent /\ c'.gen = c.gen /\ c'.new = c.new
  /\ c'.suffix = c.suffix /\ c'.call = c.call /\ c'.asked = c.asked /\ c'.spawned = c.spawned

LEMMA Carry ==
  ASSUME IInv, Kept, c' \in Conns, c.pc \in Making \ {"certs"}, c'.pc \in {"start", "kill", "undo"}, SameMaking, UNCHANGED ran
  PROVE  IInv'
<1>1. TypeInv'
  BY DEF IInv, TypeInv, Kept
<1>2. OnceInv'
  BY DEF IInv, OnceInv, Pending, Migrating, Making, SameMaking
<1>3. c.suffix \in 1 .. MaxBoots
  BY DEF IInv, TypeInv, Conns, ChainInv
<1>4. files'[c'.suffix].certs \in {0, c'.new}
  BY <1>3 DEF IInv, ChainInv, Kept, SameMaking
<1>5. \A p \in procs' : p.id <= c'.spawned /\ (p.id = c'.agent => p.gen = c'.gen)
  BY DEF IInv, ChainInv, Kept, SameMaking
<1>6. ChainInv'
  BY <1>4, <1>5 DEF IInv, ChainInv, Pending, Migrating, Making, SameMaking
<1> QED
  BY <1>1, <1>2, <1>6 DEF IInv

LEMMA UploadBinaryStep == ASSUME IInv, Kept, UploadBinary PROVE IInv'
<1>0. c \in Conns /\ c.pc = "binary" /\ c.mode = "boot" /\ UNCHANGED ran
  BY DEF IInv, TypeInv, ChainInv, UploadBinary, At, given
<1>s. c.suffix \in Nat /\ c.suffix + 1 \in 0 .. MaxBoots /\ c.suffix + 1 >= 1
  BY <1>0, Bounds DEF Conns, UploadBinary
<1>1. \/ c' = [c EXCEPT !.suffix = @ + 1, !.pc = "certs"]
      \/ c' = [c EXCEPT !.suffix = @ + 1, !.pc = "cleanup"]
  BY DEF UploadBinary
<1>2. /\ c' \in Conns /\ c'.pc \in {"certs", "cleanup"} /\ c'.mode = "boot"
      /\ c'.agent = c.agent /\ c'.gen = c.gen /\ c'.call = c.call /\ c'.spawned = c.spawned /\ c'.suffix = c.suffix + 1
  <2>1. CASE c' = [c EXCEPT !.suffix = @ + 1, !.pc = "certs"]
    BY <1>0, <1>s, <2>1 DEF Conns, Places
  <2>2. CASE c' = [c EXCEPT !.suffix = @ + 1, !.pc = "cleanup"]
    BY <1>0, <1>s, <2>2 DEF Conns, Places
  <2> QED
    BY <1>1, <2>1, <2>2
<1>3. TypeInv' /\ OnceInv'
  BY <1>0, <1>2 DEF IInv, TypeInv, Kept, OnceInv, Pending, Migrating, Making
<1>4. \A p \in procs' : p.id <= c'.spawned /\ (p.id = c'.agent => p.gen = c'.gen)
  BY <1>2 DEF IInv, ChainInv, Kept
<1>5. ChainInv'
  BY <1>0, <1>s, <1>2, <1>4 DEF IInv, ChainInv, Pending, Migrating, Making
<1> QED
  BY <1>3, <1>5 DEF IInv

LEMMA HealthCheckStep == ASSUME IInv, Kept, HealthCheck PROVE IInv'
<1>0. c \in Conns /\ c.pc = "health" /\ UNCHANGED <<procs, files, ran>>
  BY DEF IInv, TypeInv, HealthCheck, At, target, given
<1> DEFINE New(pc) == [c EXCEPT !.agent = c.probe, !.gen = c.new, !.started = TRUE, !.ssh = FALSE, !.pc = pc]
<1>1. \/ c' = [c EXCEPT !.pc = "undo"]
      \/ Living(c.probe) # {} /\ (IF c.mode = "boot" THEN c' = New("idle") ELSE c' = New("op"))
  BY DEF HealthCheck
<1>2. CASE c' = [c EXCEPT !.pc = "undo"]
  <2>1. c' \in Conns /\ c'.pc = "undo" /\ SameMaking
    BY <1>0, <1>2 DEF Conns, Places, SameMaking
  <2> QED
    BY <1>0, <2>1, Carry DEF Making
<1>3. ASSUME NEW pc \in {"idle", "op"}, c' = New(pc), pc = "op" => Migrating, Living(c.probe) # {} PROVE IInv'
  <2>1. /\ c' \in Conns /\ c'.pc = pc /\ c'.mode = c.mode /\ c'.agent = c.probe /\ c'.gen = c.new /\ c'.asked = c.asked
        /\ c'.call = c.call /\ c'.spawned = c.spawned /\ c'.suffix = c.suffix
    BY <1>0, <1>3 DEF Conns, Places
  <2>2. PICK p \in procs : p.id = c.probe
    BY <1>3 DEF Living
  <2>3. c.probe <= c.spawned /\ c.probe # None
    BY <2>2 DEF IInv, ChainInv, TypeInv, Agents
  <2>4. TypeInv' /\ OnceInv'
    BY <1>0, <1>3, <2>1 DEF IInv, TypeInv, Kept, OnceInv, Pending, Migrating, Making
  <2>5. \A q \in procs' : q.id <= c'.spawned /\ (q.id = c'.agent => q.gen = c'.gen)
    BY <1>0, <2>1 DEF IInv, ChainInv
  <2>6. ChainInv'
    BY <1>0, <1>3, <2>1, <2>3, <2>5 DEF IInv, ChainInv, Pending, Migrating, Making
  <2> QED
    BY <2>4, <2>6 DEF IInv
<1> QED
  BY <1>0, <1>1, <1>2, <1>3 DEF Migrating, Making, Conns

LEMMA CallStep == ASSUME IInv, Kept, Call PROVE IInv'
<1>0. c \in Conns /\ store \in Nat /\ c.pc = "idle" /\ c.call + 1 \in 0 .. MaxCalls /\ UNCHANGED ran
  BY Bounds DEF IInv, TypeInv, Conns, Call, At, given
<1>1. IF c.agent = None THEN c' = [c EXCEPT !.call = @ + 1, !.asked = store, !.pc = "ssh"]
      ELSE c' = [c EXCEPT !.call = @ + 1, !.asked = store, !.pc = "rotate"]
  BY DEF Call
<1>2. /\ c' \in Conns /\ c'.pc = IF c.agent = None THEN "ssh" ELSE "rotate"
      /\ c'.agent = c.agent /\ c'.gen = c.gen /\ c'.call = c.call + 1 /\ c'.spawned = c.spawned /\ c'.suffix = c.suffix
  <2>1. CASE c' = [c EXCEPT !.call = @ + 1, !.asked = store, !.pc = "ssh"] /\ c.agent = None
    BY <1>0, <2>1 DEF Conns, Places
  <2>2. CASE c' = [c EXCEPT !.call = @ + 1, !.asked = store, !.pc = "rotate"] /\ c.agent # None
    BY <1>0, <2>2 DEF Conns, Places
  <2> QED
    BY <1>1, <2>1, <2>2
<1>3. TypeInv' /\ OnceInv'
  BY <1>0, <1>2 DEF IInv, TypeInv, Conns, Kept, OnceInv
<1>4. \A p \in procs' : p.id <= c'.spawned /\ (p.id = c'.agent => p.gen = c'.gen)
  BY <1>2 DEF IInv, ChainInv, Kept
<1>5. ChainInv'
  BY <1>0, <1>2, <1>4 DEF IInv, TypeInv, Conns, ChainInv, Pending, Migrating, Making
<1> QED
  BY <1>3, <1>5 DEF IInv

LEMMA RotateStep == ASSUME IInv, Kept, Rotate PROVE IInv'
<1>0. c \in Conns /\ c.pc = "rotate" /\ UNCHANGED ran /\ c.asked \in Nat /\ c.agent # None /\ c.call >= 1
  BY DEF IInv, TypeInv, Conns, ChainInv, Rotate, At, given, Pending
<1>1. \/ c.gen = c.asked /\ c' = [c EXCEPT !.pc = "op"]
      \/ c' = [c EXCEPT !.ssh = TRUE, !.mode = "migrate", !.new = c.asked, !.pc = "certs"]
      \/ c' = [c EXCEPT !.pc = "idle"]
  BY DEF Rotate, RotateFails
<1>2. CASE c' = [c EXCEPT !.pc = "idle"]
  <2>1. /\ c' \in Conns /\ c'.pc \in Resting /\ c'.agent = c.agent /\ c'.gen = c.gen /\ c'.suffix = c.suffix
        /\ c'.spawned = c.spawned /\ c'.call = c.call
    BY <1>0, <1>2 DEF Conns, Places, Resting
  <2> QED
    BY <1>0, <2>1, RanOnce, Rest DEF IInv
<1>3. ASSUME c' \in Conns, c'.agent = c.agent, c'.gen = c.gen, c'.suffix = c.suffix, c'.spawned = c.spawned, c'.call = c.call,
             \/ c'.pc = "op" /\ c'.gen = c'.asked
             \/ c'.pc = "certs" /\ c'.new = c'.asked
      PROVE  IInv'
  <2>1. TypeInv' /\ OnceInv'
    BY <1>0, <1>3 DEF IInv, TypeInv, Kept, OnceInv, Pending
  <2>2. \A p \in procs' : p.id <= c'.spawned /\ (p.id = c'.agent => p.gen = c'.gen)
    BY <1>3 DEF IInv, ChainInv, Kept
  <2>3. ChainInv'
    BY <1>0, <1>3, <2>2 DEF IInv, ChainInv, Pending, Migrating, Making
  <2> QED
    BY <2>1, <2>3 DEF IInv
<1>4. CASE c.gen = c.asked /\ c' = [c EXCEPT !.pc = "op"]
  <2>1. /\ c' \in Conns /\ c'.agent = c.agent /\ c'.gen = c.gen /\ c'.suffix = c.suffix
        /\ c'.spawned = c.spawned /\ c'.call = c.call /\ c'.pc = "op" /\ c'.asked = c.asked
    BY <1>0, <1>4 DEF Conns, Places
  <2> QED
    BY <1>3, <1>4, <2>1
<1>5. CASE c' = [c EXCEPT !.ssh = TRUE, !.mode = "migrate", !.new = c.asked, !.pc = "certs"]
  <2>1. /\ c' \in Conns /\ c'.agent = c.agent /\ c'.gen = c.gen /\ c'.suffix = c.suffix
        /\ c'.spawned = c.spawned /\ c'.call = c.call /\ c'.pc = "certs" /\ c'.new = c.asked /\ c'.asked = c.asked
    BY <1>0, <1>5 DEF Conns, Places
  <2> QED
    BY <1>3, <2>1
<1> QED
  BY <1>1, <1>2, <1>4, <1>5

(* What NextTry makes of a connection that is making an agent.              *)
LEMMA Tried ==
  ASSUME NEW x \in Conns
  PROVE  /\ NextTry(x) \in Conns
         /\ NextTry(x).pc \in {"start", "kill", "cleanup", "idle"}
         /\ NextTry(x).mode = x.mode /\ NextTry(x).agent = x.agent /\ NextTry(x).gen = x.gen /\ NextTry(x).new = x.new
         /\ NextTry(x).suffix = x.suffix /\ NextTry(x).call = x.call /\ NextTry(x).asked = x.asked
         /\ NextTry(x).spawned = x.spawned
<1>0. x.try + 1 \in Nat
  BY DEF Conns
<1>1. \A n \in Nat : [x EXCEPT !.try = n, !.pc = "start"] \in Conns /\ [x EXCEPT !.try = n, !.pc = "kill"] \in Conns
  BY DEF Conns, Places
<1>2. CASE x.try < Ports /\ x.mode = "boot"
  BY <1>0, <1>1, <1>2 DEF NextTry, Conns
<1>3. CASE x.try < Ports /\ x.mode # "boot"
  BY <1>0, <1>1, <1>3 DEF NextTry, Conns
<1>4. CASE ~(x.try < Ports) /\ x.mode = "boot"
  BY <1>4 DEF NextTry, Conns, Places
<1>5. CASE ~(x.try < Ports) /\ x.mode # "boot"
  BY <1>5 DEF NextTry, Conns, Places
<1> QED
  BY <1>2, <1>3, <1>4, <1>5

LEMMA UndoStep == ASSUME IInv, Kept, Undo \/ KillOld PROVE IInv'
<1>0. c \in Conns /\ c.pc \in {"undo", "kill"} /\ UNCHANGED ran
  BY DEF IInv, TypeInv, Undo, KillOld, At, given
<1>1. CASE KillOld
  <2>1. c' \in Conns /\ c'.pc = "start" /\ SameMaking
    BY <1>0, <1>1 DEF KillOld, Conns, Places, SameMaking
  <2> QED
    BY <1>0, <2>1, Carry DEF Making
<1>2. CASE Undo
  <2>1. c' \in Conns /\ c'.pc \in {"start", "kill", "cleanup", "idle"} /\ SameMaking
    BY <1>0, <1>2, Tried DEF Undo, SameMaking
  <2>2. CASE c'.pc \in {"start", "kill"}
    BY <1>0, <2>1, <2>2, Carry DEF Making
  <2>3. CASE c'.pc \in {"cleanup", "idle"}
    BY <1>0, <2>1, <2>3, RanOnce, Rest DEF IInv, SameMaking, Resting
  <2> QED
    BY <2>1, <2>2, <2>3
<1> QED
  BY <1>1, <1>2

LEMMA UploadCertsStep == ASSUME IInv, UploadCerts PROVE IInv'
<1>0. /\ c \in Conns /\ c.pc = "certs" /\ UNCHANGED <<procs, store, ran>> /\ c.suffix \in 1 .. MaxBoots /\ c.new \in Nat
      /\ files \in [1 .. MaxBoots -> Files]
  BY DEF IInv, TypeInv, Conns, ChainInv, Making, UploadCerts, At, given
<1>1. files' \in [1 .. MaxBoots -> Files]
  <2>1. files' = files \/ files' = [files EXCEPT ![c.suffix] = [files[c.suffix] EXCEPT !.certs = c.new]]
    BY DEF UploadCerts
  <2>2. [files[c.suffix] EXCEPT !.certs = c.new] \in Files
    BY <1>0 DEF Files
  <2> QED
    BY <1>0, <2>1, <2>2
<1>2. ASSUME c' \in Conns, c'.mode = c.mode, c'.agent = c.agent, c'.gen = c.gen, c'.new = c.new, c'.suffix = c.suffix,
             c'.call = c.call, c'.asked = c.asked, c'.spawned = c.spawned,
             c'.pc \in {"start", "kill", "cleanup", "idle"},
             c'.pc \in {"start", "kill"} => files'[c.suffix].certs = c.new
      PROVE  IInv'
  <2>1. TypeInv' /\ OnceInv'
    BY <1>0, <1>1, <1>2 DEF IInv, TypeInv, OnceInv, Pending, Migrating, Making
  <2>2. \A p \in procs' : p.id <= c'.spawned /\ (p.id = c'.agent => p.gen = c'.gen)
    BY <1>0, <1>2 DEF IInv, ChainInv
  <2>3. ChainInv'
    BY <1>0, <1>2, <2>2 DEF IInv, ChainInv, Pending, Migrating, Making
  <2> QED
    BY <2>1, <2>3 DEF IInv
<1>3. \/ /\ files' = [files EXCEPT ![c.suffix].certs = c.new]
         /\ \/ c' = [c EXCEPT !.try = 1, !.pc = "start"]
            \/ c' = [c EXCEPT !.try = 1, !.pc = "kill"]
      \/ c' = [c EXCEPT !.pc = "cleanup"]
      \/ c' = [c EXCEPT !.ssh = FALSE, !.pc = "idle"]
  BY DEF UploadCerts
<1>4. CASE c' = [c EXCEPT !.pc = "cleanup"]
  BY <1>0, <1>2, <1>4 DEF Conns, Places
<1>5. CASE c' = [c EXCEPT !.ssh = FALSE, !.pc = "idle"]
  BY <1>0, <1>2, <1>5 DEF Conns, Places
<1>6. ASSUME files' = [files EXCEPT ![c.suffix].certs = c.new] PROVE files'[c.suffix].certs = c.new
  BY <1>0, <1>6 DEF Files
<1>7. CASE c' = [c EXCEPT !.try = 1, !.pc = "start"] /\ files' = [files EXCEPT ![c.suffix].certs = c.new]
  BY <1>0, <1>2, <1>6, <1>7 DEF Conns, Places
<1>8. CASE c' = [c EXCEPT !.try = 1, !.pc = "kill"] /\ files' = [files EXCEPT ![c.suffix].certs = c.new]
  BY <1>0, <1>2, <1>6, <1>8 DEF Conns, Places
<1> QED
  BY <1>3, <1>4, <1>5, <1>7, <1>8

(* A new process has a number that nobody had, and the chain that lies     *)
(* beside it.                                                              *)
LEMMA StartAgentStep == ASSUME IInv, StartAgent PROVE IInv'
<1>0. /\ c \in Conns /\ c.pc = "start" /\ UNCHANGED <<store, ran>> /\ c.suffix \in 1 .. MaxBoots /\ c.new \in Nat
      /\ files \in [1 .. MaxBoots -> Files] /\ procs \in SUBSET Agents /\ files[c.suffix].certs \in {0, c.new}
      /\ c.spawned \in Nat /\ c.spawned + 1 \in Nat /\ c.spawned + 1 # 0 /\ c.agent <= c.spawned /\ c.agent \in Nat
  BY DEF IInv, TypeInv, Conns, ChainInv, Making, StartAgent, At, given
<1> DEFINE id == c.spawned + 1
           agent == [id |-> id, suffix |-> c.suffix, gen |-> files[c.suffix].certs, leaving |-> FALSE]
<1>1. agent \in Agents /\ agent.id = id /\ agent.gen = files[c.suffix].certs
  BY <1>0 DEF Agents, Files, None
<1>2. files' = files \/ files' = [files EXCEPT ![c.suffix].pid = id]
  BY DEF StartAgent
<1>3. files' \in [1 .. MaxBoots -> Files] /\ \A t \in 1 .. MaxBoots : files'[t].certs = files[t].certs
  BY <1>0, <1>2, PidEdit
<1>4. PICK spawned \in {c.spawned, id} :
        /\ \/ procs' = procs
           \/ procs' = procs \cup {agent} /\ spawned = id /\ files[c.suffix].certs # 0
        /\ LET new == [c EXCEPT !.spawned = spawned, !.probe = id]
           IN \/ c' = [new EXCEPT !.pc = "health"] /\ procs' = procs \cup {agent}
              \/ c' = [new EXCEPT !.pc = "undo"]
              \/ c' = NextTry(new)
  BY DEF StartAgent
<1> HIDE DEF agent
<1> DEFINE new == [c EXCEPT !.spawned = spawned, !.probe = id]
<1>5. /\ new \in Conns /\ new.mode = c.mode /\ new.agent = c.agent /\ new.gen = c.gen /\ new.new = c.new
      /\ new.suffix = c.suffix /\ new.call = c.call /\ new.asked = c.asked /\ new.spawned = spawned /\ new.probe = id
  BY <1>0 DEF Conns
<1> HIDE DEF new
<1>6. ASSUME c' \in Conns, c'.mode = c.mode, c'.agent = c.agent, c'.gen = c.gen, c'.new = c.new, c'.suffix = c.suffix,
             c'.call = c.call, c'.asked = c.asked, c'.spawned = spawned,
             c'.pc \in {"start", "kill", "cleanup", "idle", "undo", "health"},
             c'.pc = "health" => c'.probe = id /\ procs' = procs \cup {agent}
      PROVE  IInv'
  <2>1. TypeInv' /\ OnceInv'
    BY <1>0, <1>1, <1>3, <1>4, <1>6 DEF IInv, TypeInv, OnceInv, Pending, Migrating, Making
  <2>2. \A p \in procs : p.id <= c.spawned /\ p.id \in Nat /\ (p.id = c.agent => p.gen = c.gen)
    BY <1>0 DEF IInv, ChainInv, Agents
  <2>3. \A p \in procs' : p.id <= c'.spawned /\ (p.id = c'.agent => p.gen = c'.gen)
    BY <1>0, <1>1, <1>4, <1>6, <2>2
  <2>4. c'.pc = "health" => \A p \in procs' : p.id = c'.probe => p.gen = c'.new
    BY <1>0, <1>1, <1>4, <1>6, <2>2
  <2>5. c'.agent <= c'.spawned
    BY <1>0, <1>4, <1>6
  <2>6. files'[c'.suffix].certs \in {0, c'.new}
    BY <1>0, <1>3, <1>6
  <2>7. ChainInv'
    BY <1>0, <1>6, <2>3, <2>4, <2>5, <2>6 DEF IInv, ChainInv, Pending, Migrating, Making
  <2> QED
    BY <2>1, <2>7 DEF IInv
<1>7. CASE c' = [new EXCEPT !.pc = "health"] /\ procs' = procs \cup {agent}
  BY <1>5, <1>6, <1>7 DEF Conns, Places
<1>8. CASE c' = [new EXCEPT !.pc = "undo"]
  BY <1>5, <1>6, <1>8 DEF Conns, Places
<1>9. CASE c' = NextTry(new)
  BY <1>5, <1>6, <1>9, Tried
<1> QED
  BY <1>4, <1>7, <1>8, <1>9 DEF new

-----------------------------------------------------------------------------
LEMMA Inductive == IInv /\ [Next]_vars => IInv'
<1> SUFFICES ASSUME IInv, [Next]_vars PROVE IInv'
  OBVIOUS
<1>1. CASE UNCHANGED vars
  BY <1>1 DEF vars, target, given, IInv, TypeInv, OnceInv, ChainInv, Pending, Migrating, Making
<1>2. CASE StartAgent
  BY <1>2, StartAgentStep
<1>3. CASE UploadCerts
  BY <1>3, UploadCertsStep
<1>4. CASE Next /\ ~StartAgent /\ ~UploadCerts
  <2>1. Kept
    BY <1>4, TargetKept DEF IInv
  <2>2. CASE IdleExit \/ Leave \/ Crash \/ NewMaterial
    BY <2>1, <2>2, Still DEF IdleExit, Leave, Crash, NewMaterial, given
  <2> QED
    BY <1>4, <2>1, <2>2, ConnectionRests, UploadBinaryStep, HealthCheckStep, CallStep, RotateStep, UndoStep DEF Next, Control
<1> QED
  BY <1>1, <1>2, <1>3, <1>4

(* Whatever is lost, crashes or is healed after it, an operation of a push  *)
(* connection is carried out at most once, and by an agent with the chain   *)
(* it was asked under or a newer one (push/exec.go:20-31, rotate.go:12-64,  *)
(* heal.go:27-52).                                                          *)
THEOREM CarriedOutOnce == Spec => OnceUnderItsChain
<1>0. Spec => []IInv
  BY InitInv, Inductive, PTL DEF Spec
<1>1. IInv /\ [Next]_vars =>
        [\A n \in DOMAIN ran :
           /\ ran'[n] <= 1
           /\ At("op") /\ ran'[n] # ran[n] => \E p \in Living(c.agent) : p.gen >= c.asked]_vars
  <2> SUFFICES ASSUME IInv, Next, NEW n \in DOMAIN ran
               PROVE  ran'[n] <= 1 /\ (At("op") /\ ran'[n] # ran[n] => \E p \in Living(c.agent) : p.gen >= c.asked)
    OBVIOUS
  <2>1. n \in 1 .. MaxCalls /\ ran'[n] <= 1
    BY Inductive DEF IInv, TypeInv, OnceInv
  <2>2. ASSUME At("op"), ran'[n] # ran[n] PROVE CallAgent /\ Living(c.agent) # {}
    <3>1. CASE CallAgent
      BY <2>2, <3>1 DEF CallAgent, Performed
    <3>2. CASE ~CallAgent
      BY <2>2, <3>2 DEF Next, Control, Connect, Unprepared, UploadBinary, UploadCerts, StartAgent, HealthCheck, Undo, KillOld,
           Cleanup, CallOverSSH, Rotate, Close, Shutdown, Fallback, LastKill, LastCleanup, Call, Die, IdleExit, Leave, Crash,
           NewMaterial, At, given
    <3> QED
      BY <3>1, <3>2
  <2>3. ASSUME At("op"), Living(c.agent) # {} PROVE \E p \in Living(c.agent) : p.gen >= c.asked
    <3>1. PICK p \in procs : p \in Living(c.agent) /\ p.id = c.agent
      BY <2>3 DEF Living
    <3>2. p.gen = c.asked /\ p.gen \in Nat
      BY <2>3, <3>1 DEF IInv, TypeInv, Agents, ChainInv, At
    <3> QED
      BY <3>1, <3>2
  <2> QED
    BY <2>1, <2>2, <2>3
<1> QED
  BY <1>0, <1>1, PTL DEF Spec, OnceUnderItsChain
-----------------------------------------------------------------------------
(* What is left on the target.                                             *)
Counts == lapses \in Nat /\ crashes \in Nat /\ keep \in BOOLEAN

(* Where the connection has no agent, what it still believes of one, and   *)
(* that an agent is only replaced under newer certificates.                *)
PcInv ==
  /\ c.pc \in {"boot", "binary", "cleanup", "ssh"} => c.agent = None
  /\ c.mode = "boot" /\ c.pc \in Making => c.agent = None
  /\ c.pc = "kill" => c.mode = "migrate"
  /\ c.pc \in Making => c.mode \in {"boot", "migrate"}
  /\ c.agent # None => c.started = TRUE
  /\ c.gen <= store /\ c.asked <= store /\ c.new <= store
  /\ c.pc \in {"rotate", "op"} => c.gen <= c.asked
  /\ Migrating => c.gen < c.asked
  /\ c.try >= 1
-----------------------------------------------------------------------------
(* What each step of the control host makes of the connection.             *)
Place == UNCHANGED <<c.suffix, c.spawned, c.probe>>
User == UNCHANGED <<c.agent, c.gen, c.started>>
Work == UNCHANGED <<c.asked, c.new, c.mode>>

LEMMA ConnectMoves ==
  ASSUME IInv, Connect
  PROVE  /\ c.pc = "boot" /\ c'.pc \in {"idle", "binary"} /\ Place /\ User /\ UNCHANGED <<c.asked, c.try, target>>
         /\ c'.pc = "binary" => c'.mode = "boot"
         /\ c'.pc = "idle" => c'.mode = c.mode
         /\ c'.new \in {c.new, store}
<1>0. c \in Conns /\ c.pc = "boot" /\ store \in Nat /\ UNCHANGED target
  BY DEF IInv, TypeInv, Connect, At
<1>1. \/ c' = [c EXCEPT !.pc = "idle"]
      \/ c' = [c EXCEPT !.ssh = TRUE, !.mode = "boot", !.new = store, !.pc = "binary"]
  BY DEF Connect
<1>2. CASE c' = [c EXCEPT !.pc = "idle"]
  BY <1>0, <1>2 DEF Conns, Place, User
<1>3. CASE c' = [c EXCEPT !.ssh = TRUE, !.mode = "boot", !.new = store, !.pc = "binary"]
  BY <1>0, <1>3 DEF Conns, Place, User
<1> QED
  BY <1>1, <1>2, <1>3

LEMMA UnpreparedMoves ==
  ASSUME IInv, Unprepared
  PROVE  c.pc = "binary" /\ c'.pc = "cleanup" /\ Place /\ User /\ Work /\ UNCHANGED <<c.try, target>>
BY DEF IInv, TypeInv, Unprepared, At, Conns, Place, User, Work

LEMMA UploadBinaryMoves ==
  ASSUME IInv, UploadBinary
  PROVE  /\ c.pc = "binary" /\ c'.pc \in {"certs", "cleanup"} /\ User /\ Work
         /\ UNCHANGED <<c.try, c.spawned, c.probe, procs>>
         /\ c.suffix \in 0 .. MaxBoots - 1 /\ c'.suffix = c.suffix + 1
<1>0. c \in Conns /\ c.pc = "binary" /\ UNCHANGED procs /\ c.suffix \in 0 .. MaxBoots - 1
  BY Bounds DEF IInv, TypeInv, Conns, UploadBinary, At
<1>1. \/ c' = [c EXCEPT !.suffix = @ + 1, !.pc = "certs"]
      \/ c' = [c EXCEPT !.suffix = @ + 1, !.pc = "cleanup"]
  BY DEF UploadBinary
<1>2. CASE c' = [c EXCEPT !.suffix = @ + 1, !.pc = "certs"]
  BY <1>0, <1>2 DEF Conns, User, Work
<1>3. CASE c' = [c EXCEPT !.suffix = @ + 1, !.pc = "cleanup"]
  BY <1>0, <1>3 DEF Conns, User, Work
<1> QED
  BY <1>0, <1>1, <1>2, <1>3

LEMMA UploadCertsMoves ==
  ASSUME IInv, UploadCerts
  PROVE  /\ c.pc = "certs" /\ Place /\ User /\ Work /\ UNCHANGED procs
         /\ IF c.mode = "boot" THEN c'.pc \in {"start", "cleanup"} ELSE c'.pc \in {"kill", "idle"}
         /\ c'.pc = "kill" => c'.try = 1
         /\ c'.try \in {1, c.try}
<1>0. c \in Conns /\ c.pc = "certs" /\ UNCHANGED procs
  BY DEF IInv, TypeInv, UploadCerts, At
<1>1. \/ c.mode = "boot" /\ c' = [c EXCEPT !.try = 1, !.pc = "start"]
      \/ c.mode # "boot" /\ c' = [c EXCEPT !.try = 1, !.pc = "kill"]
      \/ c.mode = "boot" /\ c' = [c EXCEPT !.pc = "cleanup"]
      \/ c.mode # "boot" /\ c' = [c EXCEPT !.ssh = FALSE, !.pc = "idle"]
  BY DEF UploadCerts
<1>2. CASE c.mode = "boot" /\ c' = [c EXCEPT !.try = 1, !.pc = "start"]
  BY <1>0, <1>2 DEF Conns, Place, User, Work
<1>3. CASE c.mode # "boot" /\ c' = [c EXCEPT !.try = 1, !.pc = "kill"]
  BY <1>0, <1>3 DEF Conns, Place, User, Work
<1>4. CASE c.mode = "boot" /\ c' = [c EXCEPT !.pc = "cleanup"]
  BY <1>0, <1>4 DEF Conns, Place, User, Work
<1>5. CASE c.mode # "boot" /\ c' = [c EXCEPT !.ssh = FALSE, !.pc = "idle"]
  BY <1>0, <1>5 DEF Conns, Place, User, Work
<1> QED
  BY <1>0, <1>1, <1>2, <1>3, <1>4, <1>5

(* After the last port a bootstrap ends and a migration fails the call.    *)
LEMMA TriedMoves ==
  ASSUME NEW x \in Conns
  PROVE  /\ IF x.mode = "boot" THEN NextTry(x).pc \in {"start", "cleanup"} ELSE NextTry(x).pc \in {"kill", "idle"}
         /\ NextTry(x).pc = "kill" => NextTry(x).try = x.try + 1
         /\ NextTry(x).try \in {x.try, x.try + 1} /\ NextTry(x).probe = x.probe /\ NextTry(x).started = x.started
<1>2. CASE x.try < Ports /\ x.mode = "boot"
  BY <1>2 DEF NextTry, Conns
<1>3. CASE x.try < Ports /\ x.mode # "boot"
  BY <1>3 DEF NextTry, Conns
<1>4. CASE ~(x.try < Ports) /\ x.mode = "boot"
  BY <1>4 DEF NextTry, Conns
<1>5. CASE ~(x.try < Ports) /\ x.mode # "boot"
  BY <1>5 DEF NextTry, Conns
<1> QED
  BY <1>2, <1>3, <1>4, <1>5

LEMMA UndoMoves ==
  ASSUME IInv, PcInv, Undo
  PROVE  /\ c.pc = "undo" /\ Place /\ User /\ Work
         /\ IF c.mode = "boot" THEN c'.pc \in {"start", "cleanup"} ELSE c'.pc \in {"kill", "idle"}
         /\ c'.pc = "kill" => c'.try # 1
         /\ c'.try >= 1
<1>0. c \in Conns /\ c.pc = "undo" /\ c' = NextTry(c) /\ c.try \in Nat /\ c.try >= 1
  BY DEF IInv, PcInv, TypeInv, Undo, At, Conns
<1> QED
  BY <1>0, Tried, TriedMoves DEF Place, User, Work

LEMMA KillOldMoves ==
  ASSUME IInv, KillOld
  PROVE  c.pc = "kill" /\ c'.pc = "start" /\ Place /\ User /\ Work /\ UNCHANGED c.try
BY DEF IInv, TypeInv, KillOld, At, Conns, Place, User, Work

(* The numbers a process gets, and what becomes of it.                     *)
Started(runs) ==
  procs' = IF runs THEN procs \cup {[id |-> c.spawned + 1, suffix |-> c.suffix, gen |-> files[c.suffix].certs,
                                     leaving |-> FALSE]}
           ELSE procs

LEMMA StartAgentMoves ==
  ASSUME IInv, PcInv, StartAgent
  PROVE  /\ c.pc = "start" /\ User /\ Work /\ UNCHANGED c.suffix /\ c'.try >= 1 /\ c'.probe = c.spawned + 1
         /\ \E end \in Ends, runs \in BOOLEAN :
              /\ Count(end) /\ Started(runs)
              /\ runs => files[c.suffix].bin /\ files[c.suffix].certs # 0 /\ end # "failed"
              /\ c'.spawned = IF end = "failed" THEN c.spawned ELSE c.spawned + 1
              /\ files' = IF end = "failed" \/ ~files[c.suffix].bin THEN files
                          ELSE [files EXCEPT ![c.suffix].pid = c.spawned + 1]
              /\ IF runs /\ end = "ok" THEN c'.pc = "health"
                 ELSE IF c.mode = "boot" THEN c'.pc = "undo"
                 ELSE c'.pc \in {"kill", "idle"} /\ (c'.pc = "kill" => c'.try # 1)
<1>0. c \in Conns /\ c.pc = "start" /\ c.try \in Nat /\ c.try >= 1 /\ c.spawned \in Nat /\ c.spawned + 1 \in Nat
  BY DEF IInv, PcInv, TypeInv, StartAgent, At, Conns
<1> DEFINE f == files[c.suffix]
           new(end) == [c EXCEPT !.spawned = IF end = "failed" THEN @ ELSE c.spawned + 1, !.probe = c.spawned + 1]
<1>1. PICK end \in Ends, busy \in BOOLEAN :
        LET runs == end # "failed" /\ f.bin /\ f.certs # 0 /\ ~busy
        IN /\ Count(end) /\ Started(runs)
           /\ files' = IF end = "failed" \/ ~f.bin THEN files ELSE [files EXCEPT ![c.suffix].pid = c.spawned + 1]
           /\ c' = IF runs /\ end = "ok" THEN [new(end) EXCEPT !.pc = "health"]
                   ELSE IF c.mode = "boot" THEN [new(end) EXCEPT !.pc = "undo"]
                   ELSE NextTry(new(end))
  BY DEF StartAgent, Started
<1> DEFINE runs == end # "failed" /\ f.bin /\ f.certs # 0 /\ ~busy
           x == new(end)
<1>2. /\ x \in Conns /\ x.mode = c.mode /\ x.agent = c.agent /\ x.gen = c.gen /\ x.new = c.new /\ x.try = c.try
      /\ x.suffix = c.suffix /\ x.asked = c.asked /\ x.probe = c.spawned + 1 /\ x.started = c.started
      /\ x.spawned = IF end = "failed" THEN c.spawned ELSE c.spawned + 1
  BY <1>0 DEF Conns
<1> HIDE DEF x
<1> DEFINE Ended ==
      /\ User /\ Work /\ UNCHANGED c.suffix /\ c'.try >= 1 /\ c'.probe = c.spawned + 1
      /\ c'.spawned = IF end = "failed" THEN c.spawned ELSE c.spawned + 1
      /\ IF runs /\ end = "ok" THEN c'.pc = "health"
         ELSE IF c.mode = "boot" THEN c'.pc = "undo"
         ELSE c'.pc \in {"kill", "idle"} /\ (c'.pc = "kill" => c'.try # 1)
<1>3. Ended
  <2>1. CASE runs /\ end = "ok"
    <3>1. c' = [x EXCEPT !.pc = "health"]
      BY <1>1, <2>1 DEF x
    <3> HIDE DEF runs
    <3> QED
      BY <1>0, <1>2, <2>1, <3>1 DEF Conns, User, Work
  <2>2. CASE ~(runs /\ end = "ok") /\ c.mode = "boot"
    <3>1. c' = [x EXCEPT !.pc = "undo"]
      BY <1>1, <2>2 DEF x
    <3> HIDE DEF runs
    <3> QED
      BY <1>0, <1>2, <2>2, <3>1 DEF Conns, User, Work
  <2>3. CASE ~(runs /\ end = "ok") /\ c.mode # "boot"
    <3>1. c' = NextTry(x)
      BY <1>1, <2>3 DEF x
    <3> HIDE DEF runs
    <3> QED
      BY <1>0, <1>2, <2>3, <3>1, Tried, TriedMoves DEF User, Work
  <2> QED
    BY <2>1, <2>2, <2>3
<1>4. runs \in BOOLEAN /\ (runs => f.bin /\ f.certs # 0 /\ end # "failed")
  OBVIOUS
<1>5. Count(end) /\ Started(runs)
      /\ files' = IF end = "failed" \/ ~f.bin THEN files ELSE [files EXCEPT ![c.suffix].pid = c.spawned + 1]
  BY <1>1
<1> HIDE DEF runs
<1> QED
  BY <1>0, <1>3, <1>4, <1>5

LEMMA HealthCheckMoves ==
  ASSUME IInv, HealthCheck
  PROVE  /\ c.pc = "health" /\ Place /\ Work /\ UNCHANGED <<c.try, target>>
         /\ \/ c'.pc = "undo" /\ User
            \/ /\ Living(c.probe) # {} /\ c'.agent = c.probe /\ c'.gen = c.new /\ c'.started = TRUE
               /\ c'.pc = IF c.mode = "boot" THEN "idle" ELSE "op"
<1>0. c \in Conns /\ c.pc = "health" /\ UNCHANGED target
  BY DEF IInv, TypeInv, HealthCheck, At
<1> DEFINE New(pc) == [c EXCEPT !.agent = c.probe, !.gen = c.new, !.started = TRUE, !.ssh = FALSE, !.pc = pc]
<1>1. \/ c' = [c EXCEPT !.pc = "undo"]
      \/ Living(c.probe) # {} /\ c.mode = "boot" /\ c' = New("idle")
      \/ Living(c.probe) # {} /\ c.mode # "boot" /\ c' = New("op")
  BY DEF HealthCheck
<1>2. CASE c' = [c EXCEPT !.pc = "undo"]
  BY <1>0, <1>2 DEF Conns, Place, User, Work
<1>3. CASE Living(c.probe) # {} /\ c.mode = "boot" /\ c' = New("idle")
  BY <1>0, <1>3 DEF Conns, Place, Work
<1>4. CASE Living(c.probe) # {} /\ c.mode # "boot" /\ c' = New("op")
  BY <1>0, <1>4 DEF Conns, Place, Work
<1> QED
  BY <1>0, <1>1, <1>2, <1>3, <1>4

LEMMA CleanupMoves ==
  ASSUME IInv, Cleanup
  PROVE  c.pc = "cleanup" /\ c'.pc = "idle" /\ Place /\ User /\ Work /\ UNCHANGED <<c.try, procs>>
BY DEF IInv, TypeInv, Cleanup, At, Conns, Place, User, Work

LEMMA CallMoves ==
  ASSUME IInv, Call
  PROVE  /\ c.pc = "idle" /\ c'.pc = (IF c.agent = None THEN "ssh" ELSE "rotate") /\ Place /\ User
         /\ UNCHANGED <<c.try, c.mode, c.new, target, store>> /\ c'.asked = store
<1>0. c \in Conns /\ c.pc = "idle" /\ UNCHANGED <<target, store>>
  BY DEF IInv, TypeInv, Call, At, given
<1>1. \/ c.agent = None /\ c' = [c EXCEPT !.call = @ + 1, !.asked = store, !.pc = "ssh"]
      \/ c.agent # None /\ c' = [c EXCEPT !.call = @ + 1, !.asked = store, !.pc = "rotate"]
  BY DEF Call
<1>2. CASE c.agent = None /\ c' = [c EXCEPT !.call = @ + 1, !.asked = store, !.pc = "ssh"]
  BY <1>0, <1>2 DEF Conns, Place, User
<1>3. CASE c.agent # None /\ c' = [c EXCEPT !.call = @ + 1, !.asked = store, !.pc = "rotate"]
  BY <1>0, <1>3 DEF Conns, Place, User
<1> QED
  BY <1>1, <1>2, <1>3

LEMMA CallOverSSHMoves ==
  ASSUME IInv, CallOverSSH
  PROVE  c.pc = "ssh" /\ c'.pc = "idle" /\ Place /\ User /\ Work /\ UNCHANGED <<c.try, target>>
BY DEF IInv, TypeInv, CallOverSSH, At, Conns, Place, User, Work

LEMMA RotateMoves ==
  ASSUME IInv, Rotate
  PROVE  /\ c.pc = "rotate" /\ Place /\ User /\ UNCHANGED <<c.try, c.asked, target>>
         /\ \/ c'.pc = "op" /\ Work /\ c.gen = c.asked
            \/ c'.pc = "idle" /\ Work
            \/ c'.pc = "certs" /\ c.gen # c.asked /\ c'.mode = "migrate" /\ c'.new = c.asked
<1>0. c \in Conns /\ c.pc = "rotate" /\ UNCHANGED target
  BY DEF IInv, TypeInv, Rotate, At
<1>1. \/ c.gen = c.asked /\ c' = [c EXCEPT !.pc = "op"]
      \/ c.gen # c.asked /\ c' = [c EXCEPT !.ssh = TRUE, !.mode = "migrate", !.new = c.asked, !.pc = "certs"]
      \/ c' = [c EXCEPT !.pc = "idle"]
  BY DEF Rotate, RotateFails
<1>2. CASE c.gen = c.asked /\ c' = [c EXCEPT !.pc = "op"]
  BY <1>0, <1>2 DEF Conns, Place, User, Work
<1>3. CASE c.gen # c.asked /\ c' = [c EXCEPT !.ssh = TRUE, !.mode = "migrate", !.new = c.asked, !.pc = "certs"]
  BY <1>0, <1>3 DEF Conns, Place, User, Work
<1>4. CASE c' = [c EXCEPT !.pc = "idle"]
  BY <1>0, <1>4 DEF Conns, Place, User, Work
<1> QED
  BY <1>1, <1>2, <1>3, <1>4

LEMMA CallAgentMoves ==
  ASSUME IInv, CallAgent
  PROVE  /\ c.pc = "op" /\ Place /\ Work /\ UNCHANGED <<c.try, c.gen, target>>
         /\ \/ c'.pc = "idle" /\ User
            \/ /\ c'.pc = "boot" /\ c'.agent = None
               /\ Living(c.agent) # {} => lapses' = lapses + 1
<1>0. c \in Conns /\ c.pc = "op" /\ UNCHANGED target
  BY DEF IInv, TypeInv, CallAgent, At
<1>1. \/ c' = [c EXCEPT !.pc = "idle"]
      \/ /\ c' = [c EXCEPT !.agent = None, !.started = FALSE, !.pc = "boot"]
         /\ Living(c.agent) # {} => lapses' = lapses + 1
  BY DEF CallAgent, Healed
<1>2. CASE c' = [c EXCEPT !.pc = "idle"]
  BY <1>0, <1>2 DEF Conns, Place, User, Work
<1>3. CASE /\ c' = [c EXCEPT !.agent = None, !.started = FALSE, !.pc = "boot"]
           /\ Living(c.agent) # {} => lapses' = lapses + 1
  BY <1>0, <1>3 DEF Conns, Place, Work
<1> QED
  BY <1>1, <1>2, <1>3

(* Closing leaves the agent only when it is to be kept.                    *)
LEMMA CloseMoves ==
  ASSUME IInv, PcInv, Close
  PROVE  /\ c.pc = "idle" /\ Place /\ Work /\ UNCHANGED <<c.try, c.gen, target, keep>>
         /\ \/ c'.pc = "shutdown" /\ User
            \/ c'.pc = "closed" /\ c'.agent = None /\ (c.agent = None \/ keep = TRUE)
<1>0. c \in Conns /\ c.pc = "idle" /\ UNCHANGED <<target, keep>>
  BY DEF IInv, TypeInv, Close, At, given
<1>1. \/ c' = [c EXCEPT !.pc = "shutdown"]
      \/ c' = [c EXCEPT !.agent = None, !.ssh = FALSE, !.pc = "closed"] /\ (c.agent = None \/ keep = TRUE)
  BY Zenon DEF Close, Closed, PcInv
<1>2. CASE c' = [c EXCEPT !.pc = "shutdown"]
  BY <1>0, <1>2 DEF Conns, Place, User, Work
<1>3. CASE c' = [c EXCEPT !.agent = None, !.ssh = FALSE, !.pc = "closed"] /\ (c.agent = None \/ keep = TRUE)
  BY <1>0, <1>3 DEF Conns, Place, Work
<1> QED
  BY <1>1, <1>2, <1>3

LEMMA ClosingMoves ==
  ASSUME IInv, Shutdown \/ Fallback \/ LastKill \/ LastCleanup
  PROVE  /\ c.pc \in {"shutdown", "fallback", "last kill", "last cleanup"} /\ Place /\ Work /\ UNCHANGED <<c.try, c.gen>>
         /\ \/ User /\ c'.pc \in {"fallback", "last kill", "last cleanup"}
            \/ c'.agent = None /\ c'.pc = "closed"
<1>0. c \in Conns
  BY DEF IInv, TypeInv
<1>1. /\ c.pc \in {"shutdown", "fallback", "last kill", "last cleanup"}
      /\ \/ c' = [c EXCEPT !.agent = None, !.ssh = FALSE, !.pc = "closed"]
         \/ c' = [c EXCEPT !.pc = "fallback"]
         \/ c' = [c EXCEPT !.ssh = TRUE, !.pc = "last kill"]
         \/ c' = [c EXCEPT !.pc = "last cleanup"]
  BY DEF Shutdown, Fallback, LastKill, LastCleanup, Closed, At
<1>2. CASE c' = [c EXCEPT !.agent = None, !.ssh = FALSE, !.pc = "closed"]
  BY <1>0, <1>1, <1>2 DEF Conns, Place, Work
<1>3. CASE c' = [c EXCEPT !.pc = "fallback"]
  BY <1>0, <1>1, <1>3 DEF Conns, Place, User, Work
<1>4. CASE c' = [c EXCEPT !.ssh = TRUE, !.pc = "last kill"]
  BY <1>0, <1>1, <1>4 DEF Conns, Place, User, Work
<1>5. CASE c' = [c EXCEPT !.pc = "last cleanup"]
  BY <1>0, <1>1, <1>5 DEF Conns, Place, User, Work
<1> QED
  BY <1>1, <1>2, <1>3, <1>4, <1>5

LEMMA DieMoves ==
  ASSUME IInv, Die
  PROVE  c'.pc = "dead" /\ Place /\ User /\ Work /\ UNCHANGED <<c.try, target>>
BY DEF IInv, TypeInv, Die, Conns, Place, User, Work

-----------------------------------------------------------------------------
LEMMA PcStep == ASSUME IInv, IInv', PcInv, [Next]_vars PROVE PcInv'
<1> USE DEF Place, User, Work, None
<1>0. /\ {store, store', c.gen, c.gen', c.asked, c.asked', c.new, c.new', c.try, c.try', c.agent, c.agent'} \subseteq Nat
      /\ c.mode' \in {"boot", "migrate"}
  BY DEF IInv, TypeInv, Conns
<1>s. ASSUME Control \/ Call \/ Die PROVE store' = store
  BY <1>s DEF Control, Connect, Unprepared, UploadBinary, UploadCerts, StartAgent, HealthCheck, Undo, KillOld, Cleanup,
       CallOverSSH, Rotate, CallAgent, Close, Shutdown, Fallback, LastKill, LastCleanup, Call, Die, given
<1>u. ASSUME UNCHANGED c, store' >= store PROVE PcInv'
  BY <1>0, <1>u DEF PcInv, Migrating, Making
<1>1. CASE Connect
  BY <1>0, <1>s, <1>1, ConnectMoves DEF Control, PcInv, Migrating, Making
<1>2. CASE Unprepared
  BY <1>0, <1>s, <1>2, UnpreparedMoves DEF Control, PcInv, Migrating, Making
<1>3. CASE UploadBinary
  BY <1>0, <1>s, <1>3, UploadBinaryMoves DEF Control, PcInv, Migrating, Making, IInv, ChainInv
<1>4. CASE UploadCerts
  BY <1>0, <1>s, <1>4, UploadCertsMoves DEF Control, PcInv, Migrating, Making
<1>5. CASE StartAgent
  BY <1>0, <1>s, <1>5, StartAgentMoves DEF Control, PcInv, Migrating, Making
<1>6. CASE HealthCheck
  <2>1. store' = store /\ c.pc = "health" /\ c'.mode = c.mode /\ c'.new = c.new /\ c'.asked = c.asked /\ c'.try = c.try
    BY <1>s, <1>6, HealthCheckMoves DEF Control
  <2>2. CASE c'.pc = "undo" /\ User
    BY <1>0, <2>1, <2>2 DEF PcInv, Migrating, Making
  <2>3. CASE c'.gen = c.new /\ c'.started = TRUE /\ c'.pc = IF c.mode = "boot" THEN "idle" ELSE "op"
    <3>1. c'.pc = "op" => Migrating /\ c.new = c.asked
      BY <1>0, <2>1, <2>3 DEF PcInv, Migrating, Making, IInv, ChainInv
    <3> QED
      BY <1>0, <2>1, <2>3, <3>1 DEF PcInv, Migrating, Making
  <2> QED
    BY <1>6, <2>2, <2>3, HealthCheckMoves
<1>7. CASE Undo
  BY <1>0, <1>s, <1>7, UndoMoves DEF Control, PcInv, Migrating, Making
<1>8. CASE KillOld
  BY <1>0, <1>s, <1>8, KillOldMoves DEF Control, PcInv, Migrating, Making
<1>9. CASE Cleanup
  BY <1>0, <1>s, <1>9, CleanupMoves DEF Control, PcInv, Migrating, Making
<1>10. CASE Call
  BY <1>0, <1>10, CallMoves DEF PcInv, Migrating, Making
<1>11. CASE CallOverSSH
  BY <1>0, <1>s, <1>11, CallOverSSHMoves DEF Control, PcInv, Migrating, Making
<1>12. CASE Rotate
  BY <1>0, <1>s, <1>12, RotateMoves DEF Control, PcInv, Migrating, Making
<1>13. CASE CallAgent
  BY <1>0, <1>s, <1>13, CallAgentMoves DEF Control, PcInv, Migrating, Making
<1>14. CASE Close
  BY <1>0, <1>s, <1>14, CloseMoves DEF Control, PcInv, Migrating, Making
<1>15. CASE Shutdown \/ Fallback \/ LastKill \/ LastCleanup
  BY <1>0, <1>s, <1>15, ClosingMoves DEF Control, PcInv, Migrating, Making
<1>16. CASE Die
  BY <1>0, <1>s, <1>16, DieMoves DEF Control, PcInv, Migrating, Making
<1>17. CASE IdleExit \/ Leave \/ Crash \/ NewMaterial \/ UNCHANGED vars
  <2>1. UNCHANGED c /\ store' \in {store, store + 1}
    BY <1>17 DEF IdleExit, Leave, Crash, NewMaterial, vars, given
  <2> QED
    BY <1>0, <1>u, <2>1
<1> QED
  BY <1>1, <1>2, <1>3, <1>4, <1>5, <1>6, <1>7, <1>8, <1>9, <1>10, <1>11, <1>12, <1>13, <1>14, <1>15, <1>16, <1>17
     DEF Next, Control

-----------------------------------------------------------------------------
(* Processes have numbers of their own and stay with the directory of      *)
(* their suffix; a pid file names a process beside it or nobody.           *)
Apart(ps) == \A p, q \in ps : p.id = q.id => p = q
NameInv ==
  /\ IsFiniteSet(procs) /\ Apart(procs)
  /\ \A p \in procs :
       /\ p.suffix <= c.suffix
       /\ p.id = c.agent \/ (c.pc = "health" /\ p.id = c.probe) => p.suffix = c.suffix
  /\ \A s \in 1 .. MaxBoots :
       /\ files[s].pid <= c.spawned
       /\ ~files[s].bin => files[s].pid = None
       /\ s > c.suffix => files[s] = NoFiles
       /\ \A p \in procs : p.id = files[s].pid => p.suffix = s
  /\ c.mode = "boot" /\ c.pc = "certs" => files[c.suffix].pid = None

(* What all steps but the start of an agent do: no process is new, and no  *)
(* pid file names another one than before.                                 *)
LessProcs ==
  /\ IsFiniteSet(procs') /\ Apart(procs')
  /\ \A p \in procs' : \E q \in procs : p.id = q.id /\ p.suffix = q.suffix

LessFiles ==
  \A s \in 1 .. MaxBoots :
    /\ files'[s].pid \in {None, files[s].pid}
    /\ ~files'[s].bin => files'[s].pid = None
    /\ s > c'.suffix => files'[s] = NoFiles

LEMMA ProcsGo ==
  ASSUME TypeInv, NameInv, Next, ~StartAgent PROVE LessProcs
<1>0. procs \in SUBSET Agents
  BY DEF TypeInv
<1>1. ASSUME procs' \in SUBSET procs PROVE LessProcs
  BY <1>1, FS_Subset DEF NameInv, LessProcs, Apart
<1>2. CASE IdleExit
  <2>1. PICK p \in procs : procs' = (procs \ {p}) \cup {[p EXCEPT !.leaving = TRUE]}
    BY <1>2 DEF IdleExit
  <2> DEFINE q == [p EXCEPT !.leaving = TRUE]
  <2>2. q.id = p.id /\ q.suffix = p.suffix
    BY <1>0 DEF Agents
  <2> HIDE DEF q
  <2>3. IsFiniteSet(procs')
    <3>1. IsFiniteSet(procs \ {p})
      BY FS_Subset, procs \ {p} \in SUBSET procs DEF NameInv
    <3> QED
      BY <2>1, <3>1, FS_AddElement DEF q
  <2>4. procs' = (procs \ {p}) \cup {q}
    BY <2>1 DEF q
  <2> QED
    BY <2>2, <2>3, <2>4 DEF NameInv, LessProcs, Apart
<1>3. CASE Shutdown /\ procs' = {[p EXCEPT !.leaving = @ \/ p.id = c.agent] : p \in procs}
  <2> DEFINE gone(p) == [p EXCEPT !.leaving = @ \/ p.id = c.agent]
  <2>1. \A p \in procs : gone(p).id = p.id /\ gone(p).suffix = p.suffix
    BY <1>0 DEF Agents
  <2> HIDE DEF gone
  <2>2. procs' = {gone(p) : p \in procs}
    BY <1>3 DEF gone
  <2>3. IsFiniteSet({gone(p) : p \in procs})
    <3>1. [p \in procs |-> gone(p)] \in Surjection(procs, {gone(p) : p \in procs})
      BY DEF Surjection
    <3> QED
      BY <3>1, FS_Surjection DEF NameInv
  <2> QED
    BY <2>1, <2>2, <2>3 DEF NameInv, LessProcs, Apart
<1>4. CASE ~IdleExit /\ ~(Shutdown /\ procs' = {[p EXCEPT !.leaving = @ \/ p.id = c.agent] : p \in procs})
  <2>1. procs' \in SUBSET procs
    BY <1>4 DEF Next, Control, Connect, Unprepared, UploadBinary, UploadCerts, HealthCheck, Undo, KillOld, Cleanup,
         CallOverSSH, Rotate, CallAgent, Close, Shutdown, Fallback, LastKill, LastCleanup, Call, Die, IdleExit, Leave,
         Crash, NewMaterial, target, Kill
  <2> QED
    BY <1>1, <2>1
<1> QED
  BY <1>2, <1>3, <1>4

LEMMA FilesGo ==
  ASSUME IInv, NameInv, PcInv, Next, ~StartAgent PROVE LessFiles
<1>0. /\ files \in [1 .. MaxBoots -> Files] /\ procs \in SUBSET Agents /\ c.suffix \in 0 .. MaxBoots /\ MaxBoots \in Nat
      /\ \A p \in Agents : p.suffix \in 1 .. MaxBoots
  BY Bounds DEF IInv, TypeInv, Conns, Agents
<1> USE DEF LessFiles, None
<1>1. ASSUME UNCHANGED <<files, c.suffix>> PROVE LessFiles
  BY <1>0, <1>1 DEF NameInv
<1>2. ASSUME NEW s \in 1 .. MaxBoots, files' = [files EXCEPT ![s] = NoFiles], c'.suffix = c.suffix PROVE LessFiles
  <2>1. \A r \in 1 .. MaxBoots : files'[r] = files[r] \/ files'[r] = NoFiles
    BY <1>0, <1>2
  <2> QED
    BY <1>2, <2>1 DEF NameInv, NoFiles
<1>3. ASSUME files' = [files EXCEPT ![c.suffix].pid = None], c'.suffix = c.suffix, c.suffix >= 1 PROVE LessFiles
  <2>1. c.suffix \in 1 .. MaxBoots
    BY <1>0, <1>3
  <2>2. files'[c.suffix].pid = None
    BY <1>0, <1>3, <2>1 DEF Files
  <2>3. \A r \in 1 .. MaxBoots : r # c.suffix => files'[r] = files[r]
    BY <1>0, <1>3, <2>1
  <2> QED
    BY <1>0, <1>3, <2>1, <2>2, <2>3 DEF NameInv
<1>4. CASE UploadBinary
  <2>1. c.suffix + 1 \in 1 .. MaxBoots /\ c'.suffix = c.suffix + 1 /\ c.suffix \in Nat
    BY <1>0, <1>4, UploadBinaryMoves
  <2>2. PICK b \in BOOLEAN : files' = [files EXCEPT ![c.suffix + 1].bin = b]
    BY <1>4 DEF UploadBinary
  <2>3. files[c.suffix + 1].pid = None
    BY <2>1 DEF NameInv, NoFiles
  <2>4. files'[c.suffix + 1].pid = None
    BY <1>0, <2>1, <2>2, <2>3 DEF Files
  <2>5. \A r \in 1 .. MaxBoots : r # c.suffix + 1 => files'[r] = files[r]
    BY <1>0, <2>1, <2>2
  <2> QED
    BY <1>0, <2>1, <2>4, <2>5 DEF NameInv
<1>5. CASE UploadCerts
  <2>1. c.suffix \in 1 .. MaxBoots /\ c'.suffix = c.suffix
    BY <1>0, <1>5, UploadCertsMoves DEF IInv, ChainInv, Making, Place
  <2>2. files' = files \/ files' = [files EXCEPT ![c.suffix].certs = c.new]
    BY <1>5 DEF UploadCerts
  <2>3. files'[c.suffix].pid = files[c.suffix].pid /\ files'[c.suffix].bin = files[c.suffix].bin
    BY <1>0, <2>1, <2>2 DEF Files
  <2>4. \A r \in 1 .. MaxBoots : r # c.suffix => files'[r] = files[r]
    BY <1>0, <2>1, <2>2
  <2> QED
    BY <1>0, <2>1, <2>3, <2>4 DEF NameInv
<1>6. CASE Undo
  <2>1. c.suffix >= 1 /\ c'.suffix = c.suffix
    BY <1>6, UndoMoves DEF IInv, ChainInv, Making, Place
  <2>2. files' = files \/ files' = [files EXCEPT ![c.suffix].pid = None]
    BY <1>6 DEF Undo, Kill
  <2> QED
    BY <1>1, <1>3, <2>1, <2>2
<1>7. CASE KillOld
  <2>1. c.suffix >= 1 /\ c'.suffix = c.suffix
    BY <1>7, KillOldMoves DEF IInv, ChainInv, Making, Place
  <2>2. files' = files \/ files' = [files EXCEPT ![c.suffix].pid = None]
    BY <1>7 DEF KillOld, Kill
  <2> QED
    BY <1>1, <1>3, <2>1, <2>2
<1>8. CASE LastKill
  <2>1. c'.suffix = c.suffix
    BY <1>8, ClosingMoves DEF Place
  <2>2. files' = files \/ files' = [files EXCEPT ![c.suffix].pid = None]
    BY <1>8 DEF LastKill, Kill
  <2>3. CASE c.suffix = 0
    BY <1>0, <1>1, <2>1, <2>2, <2>3
  <2> QED
    BY <1>0, <1>1, <1>3, <2>1, <2>2, <2>3
<1>9. CASE Cleanup \/ LastCleanup
  <2>1. c'.suffix = c.suffix
    BY <1>9, CleanupMoves, ClosingMoves DEF Place
  <2>2. files' = files \/ (c.suffix \in 1 .. MaxBoots /\ files' = [files EXCEPT ![c.suffix] = NoFiles])
    BY <1>0, <1>9 DEF Cleanup, LastCleanup, Remove
  <2> QED
    BY <1>1, <1>2, <2>1, <2>2
<1>10. CASE Leave
  <2>1. PICK s \in 1 .. MaxBoots : files' = [files EXCEPT ![s] = NoFiles]
    BY <1>0, <1>10 DEF Leave, Cleaned
  <2> QED
    BY <1>2, <1>10, <2>1 DEF Leave
<1>11. CASE IdleExit \/ Crash \/ NewMaterial
  BY <1>1, <1>11 DEF IdleExit, Crash, NewMaterial, target
<1>12. CASE Connect \/ Unprepared \/ HealthCheck \/ CallOverSSH \/ Rotate \/ CallAgent
  BY <1>1, <1>12, ConnectMoves, UnpreparedMoves, HealthCheckMoves, CallOverSSHMoves, RotateMoves, CallAgentMoves
     DEF target, Place
<1>13. CASE Close \/ Call \/ Die
  BY <1>1, <1>13, CloseMoves, CallMoves, DieMoves DEF target, Place
<1>14. CASE Shutdown \/ Fallback
  <2>1. c'.suffix = c.suffix
    BY <1>14, ClosingMoves DEF Place
  <2> QED
    BY <1>1, <1>14, <2>1 DEF Shutdown, Fallback, target
<1> QED
  BY <1>4, <1>5, <1>6, <1>7, <1>8, <1>9, <1>10, <1>11, <1>12, <1>13, <1>14 DEF Next, Control

LEMMA AgentTypes == \A p \in Agents : p.id \in Nat /\ p.id # None /\ p.suffix \in 1 .. MaxBoots /\ p.suffix \in Nat
BY Bounds DEF Agents

LEMMA FileTypes == files \in [1 .. MaxBoots -> Files] => \A s \in 1 .. MaxBoots : files[s].pid \in Nat
BY DEF Files

LEMMA ConnTypes ==
  ASSUME IInv
  PROVE  /\ c.suffix \in 0 .. MaxBoots /\ c.suffix \in Nat /\ c.spawned \in Nat /\ c.agent \in Nat /\ c.probe \in Nat
         /\ c.agent # c.spawned + 1 /\ c.mode \in {"boot", "migrate"}
         /\ files \in [1 .. MaxBoots -> Files] /\ procs \in SUBSET Agents
<1>1. c \in Conns /\ files \in [1 .. MaxBoots -> Files] /\ procs \in SUBSET Agents /\ c.agent <= c.spawned
  BY DEF IInv, TypeInv, ChainInv
<1>2. c.suffix \in 0 .. MaxBoots /\ c.spawned \in Nat /\ c.agent \in Nat /\ c.probe \in Nat /\ c.mode \in {"boot", "migrate"}
  BY <1>1 DEF Conns
<1> QED
  BY <1>1, <1>2, Bounds

LEMMA NameRest ==
  ASSUME IInv, IInv', NameInv, LessProcs, LessFiles, c'.suffix >= c.suffix, c'.spawned = c.spawned,
         \A p \in procs : p.id = c'.agent \/ (c'.pc = "health" /\ p.id = c'.probe) => p.suffix = c'.suffix,
         c'.mode = "boot" /\ c'.pc = "certs" => files'[c'.suffix].pid = None
  PROVE  NameInv'
<1>0. /\ c.suffix \in Nat /\ c'.suffix \in Nat /\ procs \in SUBSET Agents /\ procs' \in SUBSET Agents /\ c.spawned \in Nat
      /\ \A p \in Agents : p.id \in Nat /\ p.id # None /\ p.suffix \in Nat
      /\ \A s \in 1 .. MaxBoots : files[s].pid \in Nat
  <2>1. c'.suffix \in Nat /\ procs' \in SUBSET Agents
    <3>1. c' \in Conns /\ procs' \in SUBSET Agents
      BY DEF IInv, TypeInv
    <3> QED
      BY <3>1, Bounds DEF Conns
  <2> QED
    BY <2>1, ConnTypes, AgentTypes, FileTypes
<1>1. \A p \in procs' :
        /\ p.suffix <= c'.suffix
        /\ p.id = c'.agent \/ (c'.pc = "health" /\ p.id = c'.probe) => p.suffix = c'.suffix
  BY <1>0 DEF LessProcs, NameInv
<1>2. \A s \in 1 .. MaxBoots :
        /\ files'[s].pid <= c'.spawned
        /\ ~files'[s].bin => files'[s].pid = None
        /\ s > c'.suffix => files'[s] = NoFiles
        /\ \A p \in procs' : p.id = files'[s].pid => p.suffix = s
  BY <1>0 DEF LessProcs, LessFiles, NameInv, None
<1> QED
  BY <1>1, <1>2 DEF NameInv, LessProcs

LEMMA NameStep == ASSUME IInv, IInv', NameInv, PcInv, [Next]_vars PROVE NameInv'
<1> USE DEF Place, User, Work
<1>0. /\ c.suffix \in Nat /\ c.suffix \in 0 .. MaxBoots /\ c.suffix >= c.suffix /\ c.suffix + 1 >= c.suffix
      /\ files \in [1 .. MaxBoots -> Files] /\ c.agent # c.spawned + 1 /\ c.agent \in Nat
      /\ procs \in SUBSET Agents /\ c.spawned \in Nat
      /\ \A p \in Agents : p.id \in Nat /\ p.id # None /\ p.suffix \in 1 .. MaxBoots
  BY ConnTypes, AgentTypes
<1>1. CASE UNCHANGED vars
  BY <1>1 DEF vars, target, given, NameInv, Apart
<1>2. CASE StartAgent
  <2>1. PICK end \in Ends, runs \in BOOLEAN :
          /\ Started(runs) /\ (runs => end # "failed")
          /\ c'.spawned = IF end = "failed" THEN c.spawned ELSE c.spawned + 1
          /\ files' = IF end = "failed" \/ ~files[c.suffix].bin THEN files
                      ELSE [files EXCEPT ![c.suffix].pid = c.spawned + 1]
    BY <1>2, StartAgentMoves
  <2>2. c.suffix \in 1 .. MaxBoots /\ c'.suffix = c.suffix /\ c'.agent = c.agent /\ c'.probe = c.spawned + 1 /\ c'.pc # "certs"
    BY <1>0, <1>2, StartAgentMoves DEF IInv, ChainInv, Making
  <2> DEFINE new == [id |-> c.spawned + 1, suffix |-> c.suffix, gen |-> files[c.suffix].certs, leaving |-> FALSE]
  <2>3. new.id = c.spawned + 1 /\ new.suffix = c.suffix
    OBVIOUS
  <2>4. procs' = procs \/ (procs' = procs \cup {new} /\ c'.spawned = c.spawned + 1)
    BY <2>1 DEF Started
  <2> HIDE DEF new
  <2>5. \A p \in procs : p.id # c.spawned + 1 /\ p.id # None /\ p.id # new.id
    BY <1>0, <2>3 DEF IInv, ChainInv, None
  <2>6. IsFiniteSet(procs') /\ Apart(procs')
    BY <2>4, <2>5, FS_AddElement DEF NameInv, Apart
  <2>7. c.agent \in Nat /\ c.agent # c.spawned + 1
    BY <1>0
  <2>8. \A p \in procs' :
          /\ p.suffix <= c'.suffix
          /\ p.id = c'.agent \/ (c'.pc = "health" /\ p.id = c'.probe) => p.suffix = c'.suffix
    BY <1>0, <2>2, <2>3, <2>4, <2>5, <2>7 DEF NameInv
  <2>9. \A s \in 1 .. MaxBoots :
          /\ files'[s].pid <= c'.spawned
          /\ ~files'[s].bin => files'[s].pid = None
          /\ s > c'.suffix => files'[s] = NoFiles
          /\ \A p \in procs' : p.id = files'[s].pid => p.suffix = s
    <3>0. \A s \in 1 .. MaxBoots : files[s].pid \in Nat /\ files[s].pid <= c.spawned /\ files[s].pid <= c'.spawned
      <4>1. \A s \in 1 .. MaxBoots : files[s].pid \in Nat /\ files[s].pid <= c.spawned
        BY <1>0 DEF Files, NameInv
      <4> QED
        BY <1>0, <2>1, <4>1
    <3>1. CASE files' = files
      BY <2>2, <2>3, <2>4, <3>0, <3>1, <1>0 DEF NameInv
    <3>2. CASE files' = [files EXCEPT ![c.suffix].pid = c.spawned + 1] /\ files[c.suffix].bin /\ c'.spawned = c.spawned + 1
      <4>1. files'[c.suffix].pid = c.spawned + 1 /\ files'[c.suffix].bin = files[c.suffix].bin
        BY <1>0, <2>2, <3>2 DEF Files
      <4>2. \A s \in 1 .. MaxBoots : s # c.suffix => files'[s] = files[s]
        BY <1>0, <2>2, <3>2
      <4> QED
        BY <1>0, <2>2, <2>3, <2>4, <2>5, <3>0, <3>2, <4>1, <4>2 DEF NameInv
    <3> QED
      BY <2>1, <3>1, <3>2
  <2> QED
    BY <2>2, <2>6, <2>8, <2>9 DEF NameInv
<1>3. CASE Next /\ ~StartAgent
  <2>1. LessProcs /\ LessFiles
    BY <1>3, ProcsGo, FilesGo DEF IInv
  <2>q. ASSUME c'.suffix = c.suffix, c'.spawned = c.spawned, c'.agent \in {None, c.agent}, c'.pc # "health",
               c'.mode = "boot" => c'.pc # "certs"
        PROVE  NameInv'
    BY <1>0, <2>1, <2>q, NameRest DEF NameInv
  <2>2. CASE IdleExit \/ Leave \/ Crash \/ NewMaterial
    <3>1. UNCHANGED c
      BY <2>2 DEF IdleExit, Leave, Crash, NewMaterial
    <3>2. c.mode = "boot" /\ c.pc = "certs" => files'[c.suffix].pid = None
      <4>1. c.pc = "certs" => c.suffix \in 1 .. MaxBoots
        BY <1>0 DEF IInv, ChainInv, Making
      <4> QED
        BY <2>1, <4>1 DEF NameInv, LessFiles
    <3> QED
      BY <1>0, <2>1, <3>1, <3>2, NameRest DEF NameInv
  <2>3. CASE UploadBinary
    <3>1. /\ c'.suffix = c.suffix + 1 /\ c'.spawned = c.spawned /\ c'.agent = None /\ c'.pc # "health"
          /\ c'.suffix \in 1 .. MaxBoots
      <4>1. c.agent = None
        BY <2>3, UploadBinaryMoves DEF PcInv
      <4> QED
        BY <1>0, <2>3, <4>1, UploadBinaryMoves, Bounds
    <3>2. files'[c'.suffix].pid = None
      <4>1. files[c'.suffix] = NoFiles
        BY <1>0, <3>1 DEF NameInv
      <4> QED
        BY <2>1, <3>1, <4>1 DEF LessFiles, NoFiles
    <3> QED
      BY <1>0, <2>1, <3>1, <3>2, NameRest
  <2>4. CASE HealthCheck
    <3>1. c.pc = "health" /\ c'.agent \in {c.agent, c.probe} /\ c'.pc \notin {"certs", "health"} /\ Place
      BY <2>4, HealthCheckMoves
    <3> QED
      BY <1>0, <2>1, <3>1, NameRest DEF NameInv
  <2>5. CASE Connect \/ Unprepared \/ Cleanup \/ CallOverSSH \/ CallAgent \/ Die
    BY <2>5, <2>q, ConnectMoves, UnpreparedMoves, CleanupMoves, CallOverSSHMoves, CallAgentMoves, DieMoves
  <2>6. CASE UploadCerts \/ Undo \/ KillOld \/ Rotate
    BY <2>6, <2>q, UploadCertsMoves, UndoMoves, KillOldMoves, RotateMoves
  <2>7. CASE Close \/ Call \/ Shutdown \/ Fallback \/ LastKill \/ LastCleanup
    BY <2>7, <2>q, CloseMoves, CallMoves, ClosingMoves
  <2> QED
    BY <1>3, <2>2, <2>3, <2>4, <2>5, <2>6, <2>7 DEF Next, Control
<1> QED
  BY <1>1, <1>2, <1>3

-----------------------------------------------------------------------------
(* The process that the connection still looks after: the agent in use, or *)
(* the one that is probed.                                                 *)
Ending == {"fallback", "last kill", "last cleanup"}
Mine ==
  IF c.pc \in {"health", "undo"} THEN c.probe
  ELSE IF c.pc \in Ending \cup {"start", "closed", "dead"} \/ (c.pc = "kill" /\ c.try # 1) THEN None
  ELSE c.agent

(* The agents that run and that nobody looks after.                        *)
Strays == {p \in procs : ~p.leaving /\ p.id # Mine}

(* The one that is looked after is not named by the pid file any more, so  *)
(* that killAgent will miss it; and that can still happen, when another    *)
(* process of the same directory leaves and takes the files with it.       *)
Nameless == c.suffix # 0 /\ \E p \in procs : ~p.leaving /\ p.id = Mine /\ p.id # files[c.suffix].pid
Exposed ==
  /\ c.suffix # 0 /\ files[c.suffix].bin
  /\ \E p \in procs : p.leaving /\ p.suffix = c.suffix /\ (c.pc = "start" \/ p.id # files[c.suffix].pid)

One(b) == IF b THEN 1 ELSE 0
Cost == Cardinality(Strays) + One(Nameless) + One(Exposed)

(* What runs for nobody, or soon may, has been paid for by a lapse.        *)
StrayInv ==
  /\ c.pc \notin Ending \cup {"closed", "dead"} => Cost <= lapses
  /\ c.pc \in Ending => Cardinality(Strays) <= lapses
  /\ c.pc = "closed" => Cardinality(Strays) <= lapses + One(keep = TRUE)

LEMMA LapsesGrow ==
  ASSUME Counts, [Next]_vars
  PROVE  Counts' /\ lapses' >= lapses /\ crashes' >= crashes
<1>1. lapses' \in {lapses, lapses + 1} /\ crashes' \in {crashes, crashes + 1} /\ keep' = keep
  BY DEF Next, Control, Connect, Unprepared, UploadBinary, UploadCerts, StartAgent, HealthCheck, Undo, KillOld, Cleanup,
     CallOverSSH, Rotate, CallAgent, Close, Shutdown, Fallback, LastKill, LastCleanup, Call, Die, IdleExit, Leave,
     Crash, NewMaterial, given, Count, vars
<1> QED
  BY <1>1 DEF Counts

LEMMA Sizes ==
  ASSUME NEW A, NEW B, IsFiniteSet(B)
  PROVE  /\ Cardinality(B) \in Nat
         /\ A \subseteq B => Cardinality(A) \in Nat /\ Cardinality(A) <= Cardinality(B)
         /\ \A y : A \subseteq B \cup {y} => Cardinality(A) \in Nat /\ Cardinality(A) <= Cardinality(B) + 1
         /\ \A x \in B : A \subseteq B \ {x} => Cardinality(A) \in Nat /\ Cardinality(A) + 1 <= Cardinality(B)
         /\ \A x \in B : \A y : A \subseteq (B \ {x}) \cup {y} => Cardinality(A) \in Nat /\ Cardinality(A) <= Cardinality(B)
<1>1. ASSUME NEW C, IsFiniteSet(C), A \subseteq C
      PROVE  Cardinality(A) \in Nat /\ Cardinality(C) \in Nat /\ Cardinality(A) <= Cardinality(C)
  BY <1>1, FS_Subset, FS_CardinalityType
<1>2. Cardinality(B) \in Nat
  BY FS_CardinalityType
<1>3. ASSUME NEW C, IsFiniteSet(C), NEW y
      PROVE  IsFiniteSet(C \cup {y}) /\ Cardinality(C \cup {y}) <= Cardinality(C) + 1
  <2>1. /\ IsFiniteSet(C \cup {y})
        /\ Cardinality(C \cup {y}) = Cardinality(C) \/ Cardinality(C \cup {y}) = Cardinality(C) + 1
    BY <1>3, FS_AddElement
  <2>2. Cardinality(C) \in Nat
    BY <1>3, FS_CardinalityType
  <2> QED
    BY <2>1, <2>2
<1>4. ASSUME NEW x \in B PROVE IsFiniteSet(B \ {x}) /\ Cardinality(B \ {x}) + 1 = Cardinality(B)
  <2>1. IsFiniteSet(B \ {x}) /\ Cardinality(B \ {x}) = Cardinality(B) - 1
    BY FS_RemoveElement
  <2> QED
    BY <1>2, <2>1
<1>5. ASSUME NEW y, A \subseteq B \cup {y} PROVE Cardinality(A) \in Nat /\ Cardinality(A) <= Cardinality(B) + 1
  <2>1. IsFiniteSet(B \cup {y}) /\ Cardinality(B \cup {y}) <= Cardinality(B) + 1
    BY <1>3
  <2>2. Cardinality(A) \in Nat /\ Cardinality(B \cup {y}) \in Nat /\ Cardinality(A) <= Cardinality(B \cup {y})
    BY <1>1, <1>5, <2>1
  <2> QED
    BY <1>2, <2>1, <2>2
<1>6. ASSUME NEW x \in B, A \subseteq B \ {x} PROVE Cardinality(A) \in Nat /\ Cardinality(A) + 1 <= Cardinality(B)
  <2>1. Cardinality(A) \in Nat /\ Cardinality(B \ {x}) \in Nat /\ Cardinality(A) <= Cardinality(B \ {x})
    BY <1>1, <1>4, <1>6
  <2> QED
    BY <1>2, <1>4, <2>1
<1>7. ASSUME NEW x \in B, NEW y, A \subseteq (B \ {x}) \cup {y} PROVE Cardinality(A) \in Nat /\ Cardinality(A) <= Cardinality(B)
  <2>1. IsFiniteSet((B \ {x}) \cup {y}) /\ Cardinality((B \ {x}) \cup {y}) <= Cardinality(B \ {x}) + 1
    BY <1>3, <1>4
  <2>2. Cardinality(A) \in Nat /\ Cardinality((B \ {x}) \cup {y}) \in Nat /\ Cardinality(A) <= Cardinality((B \ {x}) \cup {y})
    BY <1>1, <1>7, <2>1
  <2> QED
    BY <1>2, <1>4, <2>1, <2>2
<1> QED
  BY <1>1, <1>2, <1>5, <1>6, <1>7

LEMMA StraysFinite ==
  ASSUME NameInv, NameInv'
  PROVE  IsFiniteSet(Strays) /\ IsFiniteSet(Strays') /\ Cardinality(Strays) \in Nat /\ Cardinality(Strays') \in Nat
<1>1. Strays \in SUBSET procs /\ Strays' \in SUBSET procs'
  BY DEF Strays
<1>2. IsFiniteSet(procs) /\ IsFiniteSet(procs')
  BY DEF NameInv
<1> QED
  BY <1>1, <1>2, FS_Subset, FS_CardinalityType

(* A step that costs nothing, and one that costs the lapse it counts.      *)
LEMMA Free ==
  ASSUME Counts, Counts', NameInv, NameInv', StrayInv, lapses' >= lapses, Strays' \subseteq Strays, Nameless' => Nameless, Exposed' => Exposed,
         c.pc \notin Ending \cup {"closed", "dead"}
  PROVE  StrayInv'
<1>1. Cardinality(Strays') \in Nat /\ Cardinality(Strays) \in Nat /\ Cardinality(Strays') <= Cardinality(Strays)
  BY StraysFinite, Sizes
<1>2. /\ One(Nameless) \in {0, 1} /\ One(Nameless)' \in {0, 1} /\ One(Nameless)' <= One(Nameless)
      /\ One(Exposed) \in {0, 1} /\ One(Exposed)' \in {0, 1} /\ One(Exposed)' <= One(Exposed)
      /\ One(keep = TRUE)' \in {0, 1}
  BY DEF One
<1>3. Cost <= lapses
  BY DEF StrayInv
<1> QED
  BY <1>1, <1>2, <1>3 DEF StrayInv, Cost, Counts

(* Killing by the pid file, where the one that was looked after is given   *)
(* up: after a failed probe, or to make way for a successor.               *)
LEMMA KillStrays ==
  ASSUME IInv, IInv', PcInv, NameInv, NameInv', Counts, Counts', StrayInv, Undo \/ KillOld
  PROVE  StrayInv'
<1>0. /\ c.pc \in {"undo", "kill"} /\ c.suffix \in 1 .. MaxBoots /\ c.suffix # 0 /\ c'.suffix = c.suffix
      /\ files \in [1 .. MaxBoots -> Files] /\ procs \in SUBSET Agents
      /\ c'.pc \in {"start", "cleanup", "kill", "idle"} /\ (c'.pc = "kill" => c'.try # 1) /\ c'.agent = c.agent
      /\ Mine' \in {None, c'.agent} /\ (c'.pc = "start" => Mine' = None)
  <2>1. /\ c.pc \in {"undo", "kill"} /\ c'.suffix = c.suffix /\ c'.agent = c.agent
        /\ c'.pc \in {"start", "cleanup", "kill", "idle"} /\ (c'.pc = "kill" => c'.try # 1)
    BY UndoMoves, KillOldMoves, ConnTypes DEF Place, User
  <2>2. c.suffix \in 1 .. MaxBoots /\ c.suffix # 0
    BY <2>1, ConnTypes DEF IInv, ChainInv, Making
  <2> QED
    BY <2>1, <2>2, ConnTypes DEF Mine, Ending
<1> DEFINE n == files[c.suffix].pid
           Others == {p \in procs : p.id # n}
<1>1. /\ \/ /\ procs' = Others /\ lapses' >= lapses /\ files'[c.suffix].pid = None
            /\ files'[c.suffix].bin = files[c.suffix].bin
         \/ procs' = procs /\ files' = files /\ lapses' = lapses + 1
  <2>1. PICK end \in Ends : Count(end) /\ Kill(end)
    BY DEF Undo, KillOld
  <2>2. lapses' >= lapses
    BY <2>1 DEF Count, Counts
  <2>3. CASE end = "failed"
    BY <2>1, <2>3 DEF Count, Kill
  <2>4. CASE end # "failed"
    BY <1>0, <2>1, <2>2, <2>4 DEF Kill, Files
  <2> QED
    BY <2>3, <2>4
<1>2. \A p \in procs : p.id # None
  BY <1>0, AgentTypes
<1>3. Apart(procs) /\ Cost <= lapses
  BY <1>0 DEF NameInv, StrayInv, Ending
<1>c. /\ Cardinality(Strays) \in Nat /\ Cardinality(Strays') \in Nat /\ {lapses, lapses'} \subseteq Nat
      /\ {One(Nameless), One(Nameless)', One(Exposed), One(Exposed)'} \subseteq {0, 1}
  BY StraysFinite DEF One, Counts
<1>q. ASSUME Cardinality(Strays') + One(Nameless)' + One(Exposed)' <= lapses' PROVE StrayInv'
  BY <1>0, <1>q DEF StrayInv, Cost, Ending
<1>n. Nameless' => \E p \in procs : ~p.leaving /\ p.id = Mine' /\ Mine' # None
  BY <1>0, <1>1, <1>2 DEF Nameless
<1>m. ASSUME NEW p \in procs, p \in Strays', p \notin Strays PROVE ~p.leaving /\ p.id = Mine
  BY <1>m DEF Strays
<1>s. Strays' \subseteq procs
  BY <1>1 DEF Strays
<1>4. CASE procs' = Others /\ lapses' >= lapses /\ files'[c.suffix].pid = None /\ files'[c.suffix].bin = files[c.suffix].bin
  <2>1. Exposed' => Exposed
    BY <1>0, <1>4 DEF Exposed
  <2>2. \A p \in Strays' : p \notin Strays => Nameless
    BY <1>0, <1>4, <1>m DEF Strays, Nameless
  <2>3. CASE ~\E p \in procs' : ~p.leaving /\ p.id = Mine' /\ Mine' # None /\ p.id # Mine
    <3>1. ~Nameless' \/ Nameless
      BY <1>0, <1>2, <1>4, <2>3 DEF Nameless
    <3>2. CASE Strays' \subseteq Strays
      <4>1. Cardinality(Strays') <= Cardinality(Strays)
        BY <3>2, StraysFinite, Sizes
      <4> QED
        BY <1>3, <1>4, <1>c, <1>q, <2>1, <3>1, <4>1 DEF One, Cost
    <3>3. CASE ~(Strays' \subseteq Strays)
      <4>1. PICK p \in Strays' : p \notin Strays
        BY <3>3
      <4>2. p \in procs /\ ~p.leaving /\ p.id = Mine /\ p.id # Mine'
        BY <1>s, <1>m, <4>1 DEF Strays
      <4>3. Strays' \subseteq Strays \cup {p}
        BY <1>s, <1>m, <1>3, <4>2 DEF Apart
      <4>4. Cardinality(Strays') <= Cardinality(Strays) + 1
        BY <4>3, StraysFinite, Sizes
      <4>5. ~Nameless'
        BY <1>0, <1>2, <1>4, <2>3, <4>2 DEF Nameless
      <4> QED
        BY <1>3, <1>4, <1>c, <1>q, <2>1, <2>2, <4>1, <4>4, <4>5 DEF One, Cost
    <3> QED
      BY <3>2, <3>3
  <2>4. CASE \E p \in procs' : ~p.leaving /\ p.id = Mine' /\ Mine' # None /\ p.id # Mine
    <3>1. PICK a \in procs' : ~a.leaving /\ a.id = Mine' /\ Mine' # None /\ a.id # Mine
      BY <2>4
    <3>2. a \in Strays /\ a \notin Strays'
      BY <1>4, <3>1 DEF Strays
    <3>3. CASE Strays' \subseteq Strays
      <4>1. Cardinality(Strays') + 1 <= Cardinality(Strays)
        BY <3>2, <3>3, StraysFinite, Sizes
      <4> QED
        BY <1>3, <1>4, <1>c, <1>q, <2>1, <4>1 DEF One, Cost
    <3>4. CASE ~(Strays' \subseteq Strays)
      <4>1. PICK p \in Strays' : p \notin Strays
        BY <3>4
      <4>2. p \in procs /\ ~p.leaving /\ p.id = Mine
        BY <1>s, <1>m, <4>1
      <4>3. Strays' \subseteq (Strays \ {a}) \cup {p}
        BY <1>s, <1>m, <1>3, <3>2, <4>2 DEF Apart
      <4>4. Cardinality(Strays') <= Cardinality(Strays)
        BY <3>2, <4>3, StraysFinite, Sizes
      <4> QED
        BY <1>3, <1>4, <1>c, <1>q, <2>1, <2>2, <4>1, <4>4 DEF One, Cost
    <3> QED
      BY <3>3, <3>4
  <2> QED
    BY <2>3, <2>4
<1>5. CASE procs' = procs /\ files' = files /\ lapses' = lapses + 1
  <2>1. c'.pc # "start" => (Exposed' => Exposed)
    BY <1>0, <1>5 DEF Exposed
  <2>2. CASE \E p \in procs : ~p.leaving /\ p.id = Mine
    <3>1. PICK p \in procs : ~p.leaving /\ p.id = Mine
      BY <2>2
    <3>2. Strays' \subseteq Strays \cup {p}
      BY <1>s, <1>m, <1>3, <3>1 DEF Apart
    <3>3. CASE p.id = Mine'
      <4>1. Strays' \subseteq Strays
        BY <1>5, <3>1, <3>3 DEF Strays
      <4>2. Cardinality(Strays') <= Cardinality(Strays)
        BY <4>1, StraysFinite, Sizes
      <4>3. Nameless' => Nameless
        BY <1>0, <1>5, <3>1, <3>3 DEF Nameless
      <4>4. Exposed' => Exposed
        BY <1>0, <1>2, <2>1, <3>1, <3>3
      <4> QED
        BY <1>3, <1>5, <1>c, <1>q, <4>2, <4>3, <4>4 DEF One, Cost
    <3>4. CASE p.id # Mine' /\ Nameless'
      <4>1. PICK a \in procs : ~a.leaving /\ a.id = Mine' /\ Mine' # None
        BY <3>4, <1>n
      <4>2. a \in Strays /\ a \notin Strays'
        BY <3>1, <3>4, <4>1 DEF Strays
      <4>3. Cardinality(Strays') <= Cardinality(Strays)
        <5>1. Strays' \subseteq (Strays \ {a}) \cup {p}
          BY <3>2, <4>2
        <5> QED
          BY <4>2, <5>1, StraysFinite, Sizes
      <4>4. Exposed' => Exposed
        BY <1>0, <2>1, <4>1
      <4> QED
        BY <1>3, <1>5, <1>c, <1>q, <4>3, <4>4 DEF One, Cost
    <3>5. CASE p.id # Mine' /\ ~Nameless'
      <4>1. Cardinality(Strays') <= Cardinality(Strays) + 1
        BY <3>2, StraysFinite, Sizes
      <4>2. Nameless \/ (Exposed' => Exposed)
        <5> SUFFICES ASSUME ~Nameless, Exposed' PROVE Exposed
          OBVIOUS
        <5>1. p.id = files[c.suffix].pid
          BY <1>0, <3>1 DEF Nameless
        <5>2. \A q \in procs : q.leaving => q.id # files[c.suffix].pid
          BY <1>3, <3>1, <5>1 DEF Apart
        <5> QED
          BY <1>0, <1>5, <5>2 DEF Exposed
      <4> QED
        BY <1>3, <1>5, <1>c, <1>q, <3>5, <4>1, <4>2 DEF One, Cost
    <3> QED
      BY <3>3, <3>4, <3>5
  <2>3. CASE ~\E p \in procs : ~p.leaving /\ p.id = Mine
    <3>1. Strays' \subseteq Strays
      BY <1>s, <1>m, <2>3
    <3>2. CASE Nameless'
      <4>1. PICK a \in procs : ~a.leaving /\ a.id = Mine' /\ Mine' # None
        BY <3>2, <1>n
      <4>2. a \in Strays /\ a \notin Strays'
        BY <2>3, <4>1 DEF Strays
      <4>3. Cardinality(Strays') + 1 <= Cardinality(Strays)
        BY <3>1, <4>2, StraysFinite, Sizes
      <4> QED
        BY <1>3, <1>5, <1>c, <1>q, <4>3 DEF One, Cost
    <3>3. CASE ~Nameless'
      <4>1. Cardinality(Strays') <= Cardinality(Strays)
        BY <3>1, StraysFinite, Sizes
      <4> QED
        BY <1>3, <1>5, <1>c, <1>q, <3>3, <4>1 DEF One, Cost
    <3> QED
      BY <3>2, <3>3
  <2> QED
    BY <2>2, <2>3
<1> QED
  BY <1>1, <1>4, <1>5

LEMMA StartStrays ==
  ASSUME IInv, IInv', PcInv, NameInv, NameInv', Counts, Counts', StrayInv, StartAgent
  PROVE  StrayInv'
<1>0. /\ c.pc = "start" /\ c.suffix \in 1 .. MaxBoots /\ c.suffix # 0 /\ c'.suffix = c.suffix /\ c'.agent = c.agent
      /\ files \in [1 .. MaxBoots -> Files] /\ procs \in SUBSET Agents /\ c'.probe = c.spawned + 1 /\ Mine = None
      /\ c.agent # c.spawned + 1
  <2>1. c.pc = "start" /\ c'.suffix = c.suffix /\ c'.agent = c.agent /\ c'.probe = c.spawned + 1
    BY StartAgentMoves DEF User
  <2>2. c.suffix \in 1 .. MaxBoots /\ c.suffix # 0
    BY <2>1, ConnTypes DEF IInv, ChainInv, Making
  <2> QED
    BY <2>1, <2>2, ConnTypes DEF Mine, Ending
<1> DEFINE new == [id |-> c.spawned + 1, suffix |-> c.suffix, gen |-> files[c.suffix].certs, leaving |-> FALSE]
<1>1. PICK end \in Ends, runs \in BOOLEAN :
        /\ Count(end)
        /\ procs' = IF runs THEN procs \cup {new} ELSE procs
        /\ runs => files[c.suffix].bin /\ end # "failed"
        /\ files' = IF end = "failed" \/ ~files[c.suffix].bin THEN files
                    ELSE [files EXCEPT ![c.suffix].pid = c.spawned + 1]
        /\ IF runs /\ end = "ok" THEN c'.pc = "health"
           ELSE IF c.mode = "boot" THEN c'.pc = "undo"
           ELSE c'.pc \in {"kill", "idle"} /\ (c'.pc = "kill" => c'.try # 1)
  BY StartAgentMoves DEF Started
<1>2. ~new.leaving /\ new.id = c.spawned + 1
  OBVIOUS
<1> HIDE DEF new
<1>3. \A p \in procs : p.id # None /\ p.id # c.spawned + 1
  BY <1>0, AgentTypes, ConnTypes DEF IInv, ChainInv
<1>4. Strays = {p \in procs : ~p.leaving}
  BY <1>0, <1>3 DEF Strays
<1>5. files'[c.suffix].bin = files[c.suffix].bin
  BY <1>0, <1>1 DEF Files
<1>6. Exposed' => Exposed
  BY <1>0, <1>1, <1>2, <1>5 DEF Exposed
<1>7. lapses' = IF end = "ok" THEN lapses ELSE lapses + 1
  BY <1>1 DEF Count
<1>8. c'.pc \in {"health", "undo", "kill", "idle"}
  BY <1>1
<1>c. /\ Cardinality(Strays) \in Nat /\ Cardinality(Strays') \in Nat /\ {lapses, lapses'} \subseteq Nat
      /\ {One(Nameless), One(Nameless)', One(Exposed), One(Exposed)'} \subseteq {0, 1}
  BY StraysFinite DEF One, Counts
<1>d. Cost <= lapses
  BY <1>0 DEF StrayInv, Ending
<1>q. ASSUME Cardinality(Strays') + One(Nameless)' + One(Exposed)' <= lapses' PROVE StrayInv'
  BY <1>8, <1>q DEF StrayInv, Cost, Ending
<1>9. CASE c'.pc \in {"health", "undo"}
  <2>1. Mine' = c.spawned + 1
    BY <1>0, <1>9 DEF Mine
  <2>2. Strays' \subseteq Strays
    BY <1>1, <1>2, <1>4, <2>1 DEF Strays
  <2>3. ~Nameless'
    <3> SUFFICES ASSUME NEW p \in procs', p.id = Mine' PROVE p.id = files'[c.suffix].pid
      BY <1>0 DEF Nameless
    <3>1. runs
      BY <1>1, <1>3, <2>1
    <3> QED
      BY <1>0, <1>1, <2>1, <3>1 DEF Files
  <2> QED
    BY <1>0, <1>6, <1>7, <2>2, <2>3, Free DEF Ending, Counts
<1>10. CASE c'.pc \in {"kill", "idle"}
  <2>1. Mine' \in {None, c.agent} /\ (c'.pc = "kill" => Mine' = None) /\ ~(runs /\ end = "ok")
    BY <1>0, <1>1, <1>10 DEF Mine, Ending
  <2>2. runs => lapses' = lapses + 1
    BY <1>7, <2>1
  <2>3. Strays' \subseteq Strays \cup {new} /\ (~runs => Strays' \subseteq Strays)
    BY <1>1, <1>4 DEF Strays
  <2>4. lapses' >= lapses
    BY <1>7, <1>c
  <2>5. CASE Nameless'
    <3>1. PICK a \in procs' : ~a.leaving /\ a.id = Mine'
      BY <2>5 DEF Nameless
    <3>2. a.id # None
      BY <1>0, <1>1, <1>2, <1>3, ConnTypes, AgentTypes, <3>1 DEF None
    <3>3. a \in procs
      BY <1>0, <1>1, <1>2, <2>1, <3>1, <3>2
    <3>4. a \in Strays /\ a \notin Strays'
      BY <1>4, <3>1, <3>3 DEF Strays
    <3>5. CASE runs
      <4>1. Strays' \subseteq (Strays \ {a}) \cup {new}
        BY <2>3, <3>4
      <4>2. Cardinality(Strays') <= Cardinality(Strays)
        BY <3>4, <4>1, StraysFinite, Sizes
      <4> QED
        BY <1>6, <1>c, <1>d, <1>q, <2>2, <3>5, <4>2 DEF One, Cost
    <3>6. CASE ~runs
      <4>1. Strays' \subseteq Strays \ {a}
        BY <2>3, <3>4, <3>6
      <4>2. Cardinality(Strays') + 1 <= Cardinality(Strays)
        BY <3>4, <4>1, StraysFinite, Sizes
      <4> QED
        BY <1>6, <1>c, <1>d, <1>q, <2>4, <4>2 DEF One, Cost
    <3> QED
      BY <3>5, <3>6
  <2>6. CASE ~Nameless'
    <3>1. CASE runs
      <4>1. Cardinality(Strays') <= Cardinality(Strays) + 1
        BY <2>3, StraysFinite, Sizes
      <4> QED
        BY <1>6, <1>c, <1>d, <1>q, <2>2, <2>6, <3>1, <4>1 DEF One, Cost
    <3>2. CASE ~runs
      <4>1. Cardinality(Strays') <= Cardinality(Strays)
        BY <2>3, <3>2, StraysFinite, Sizes
      <4> QED
        BY <1>6, <1>c, <1>d, <1>q, <2>4, <2>6, <4>1 DEF One, Cost
    <3> QED
      BY <3>1, <3>2
  <2> QED
    BY <2>5, <2>6
<1> QED
  BY <1>8, <1>9, <1>10

LEMMA LessStrays ==
  ASSUME Counts, Counts', NameInv, NameInv', StrayInv, UNCHANGED <<c, keep>>, lapses' >= lapses,
         Strays' \subseteq Strays, c.pc \in Ending \cup {"closed", "dead"}
  PROVE  StrayInv'
<1>1. Cardinality(Strays') \in Nat /\ Cardinality(Strays) \in Nat /\ Cardinality(Strays') <= Cardinality(Strays)
  BY StraysFinite, Sizes
<1>2. One(keep = TRUE) \in {0, 1} /\ One(keep' = TRUE) = One(keep = TRUE)
  BY DEF One
<1>p. c'.pc = c.pc /\ lapses \in Nat /\ lapses' \in Nat
  BY DEF Counts
<1>3. CASE c.pc \in Ending
  <2>1. Cardinality(Strays') <= lapses'
    BY <1>1, <1>p, <1>3 DEF StrayInv
  <2>2. c'.pc \in Ending /\ c'.pc # "closed"
    BY <1>p, <1>3 DEF Ending
  <2> QED
    BY <2>1, <2>2 DEF StrayInv
<1>4. CASE c.pc = "closed"
  <2>1. Cardinality(Strays') <= lapses' + One(keep' = TRUE)
    BY <1>1, <1>2, <1>p, <1>4 DEF StrayInv
  <2>2. c'.pc = "closed" /\ c'.pc \notin Ending
    BY <1>p, <1>4 DEF Ending
  <2> QED
    BY <2>1, <2>2 DEF StrayInv
<1>5. CASE c.pc = "dead"
  BY <1>p, <1>5 DEF StrayInv, Ending
<1> QED
  BY <1>3, <1>4, <1>5

LEMMA IdleExitStrays ==
  ASSUME IInv, NameInv, NameInv', Counts, Counts', StrayInv, IdleExit
  PROVE  StrayInv'
<1>0. /\ UNCHANGED <<c, files, keep, lapses>> /\ procs \in SUBSET Agents /\ Mine' = Mine
  BY ConnTypes DEF IdleExit, given, Mine
<1>1. PICK p \in procs : ~p.leaving /\ procs' = (procs \ {p}) \cup {[p EXCEPT !.leaving = TRUE]}
  BY DEF IdleExit
<1> DEFINE q == [p EXCEPT !.leaving = TRUE]
<1>2. q.leaving /\ q.id = p.id /\ q.suffix = p.suffix
  BY <1>0 DEF Agents
<1>3. procs' = (procs \ {p}) \cup {q}
  BY <1>1
<1> HIDE DEF q
<1>4. Strays' \subseteq Strays \ {p} /\ Strays' \subseteq Strays
  BY <1>0, <1>2, <1>3 DEF Strays
<1>5. Nameless' => Nameless
  BY <1>0, <1>2, <1>3 DEF Nameless
<1>c. /\ Cardinality(Strays) \in Nat /\ Cardinality(Strays') \in Nat /\ lapses' = lapses /\ lapses \in Nat
      /\ {One(Nameless), One(Nameless)', One(Exposed), One(Exposed)'} \subseteq {0, 1}
  BY <1>0, StraysFinite DEF One, Counts
<1>q. ASSUME c.pc \notin Ending \cup {"closed", "dead"},
             Cardinality(Strays') + One(Nameless)' + One(Exposed)' <= Cardinality(Strays) + One(Nameless) + One(Exposed)
      PROVE  StrayInv'
  <2>1. Cost <= lapses
    BY <1>q DEF StrayInv
  <2>2. c'.pc \notin Ending \cup {"closed", "dead"}
    BY <1>0, <1>q
  <2>3. Cardinality(Strays') + One(Nameless)' + One(Exposed)' <= lapses'
    BY <1>c, <1>q, <2>1 DEF Cost
  <2> QED
    BY <2>2, <2>3 DEF StrayInv, Cost
<1>6. CASE c.pc \in Ending \cup {"closed", "dead"}
  BY <1>0, <1>4, <1>6, LessStrays DEF Counts
<1>7. CASE c.pc \notin Ending \cup {"closed", "dead"} /\ (Exposed' => Exposed)
  BY <1>0, <1>4, <1>5, <1>7, Free DEF Counts
<1>8. CASE c.pc \notin Ending \cup {"closed", "dead"} /\ Exposed' /\ ~Exposed
  <2>1. c.suffix # 0 /\ (c.pc = "start" \/ p.id # files[c.suffix].pid)
    BY <1>0, <1>2, <1>3, <1>8 DEF Exposed
  <2>2. CASE p.id # Mine
    <3>1. p \in Strays
      BY <1>1, <2>2 DEF Strays
    <3>2. Cardinality(Strays') + 1 <= Cardinality(Strays)
      BY <1>4, <3>1, StraysFinite, Sizes
    <3> QED
      BY <1>5, <1>8, <1>c, <1>q, <3>2 DEF One
  <2>3. CASE p.id = Mine
    <3>1. c.pc # "start"
      BY <1>0, <2>3, AgentTypes DEF Mine
    <3>2. Nameless
      BY <1>1, <2>1, <2>3, <3>1 DEF Nameless
    <3>3. ~Nameless'
      BY <1>0, <1>2, <1>3, <2>3 DEF Nameless, NameInv, Apart
    <3>4. Cardinality(Strays') <= Cardinality(Strays)
      BY <1>4, StraysFinite, Sizes
    <3> QED
      BY <1>8, <1>c, <1>q, <3>2, <3>3, <3>4 DEF One
  <2> QED
    BY <2>2, <2>3
<1> QED
  BY <1>6, <1>7, <1>8

(* The one that leaves takes the pid file of its directory with it.        *)
LEMMA LeaveStrays ==
  ASSUME IInv, NameInv, NameInv', Counts, Counts', StrayInv, Leave
  PROVE  StrayInv'
<1>0. /\ UNCHANGED <<c, keep, lapses>> /\ procs \in SUBSET Agents /\ Mine' = Mine /\ c.suffix \in 0 .. MaxBoots
      /\ files \in [1 .. MaxBoots -> Files]
  BY ConnTypes DEF Leave, given, Mine
<1>1. PICK p \in procs : p.leaving /\ procs' = procs \ {p} /\ files' = [files EXCEPT ![p.suffix] = NoFiles]
  BY DEF Leave, Cleaned
<1>2. Strays' \subseteq Strays
  BY <1>0, <1>1 DEF Strays
<1>c. /\ Cardinality(Strays) \in Nat /\ Cardinality(Strays') \in Nat /\ lapses' = lapses /\ lapses \in Nat
      /\ {One(Nameless), One(Nameless)', One(Exposed), One(Exposed)'} \subseteq {0, 1}
  BY <1>0, StraysFinite DEF One, Counts
<1>q. ASSUME c.pc \notin Ending \cup {"closed", "dead"},
             Cardinality(Strays') + One(Nameless)' + One(Exposed)' <= Cardinality(Strays) + One(Nameless) + One(Exposed)
      PROVE  StrayInv'
  <2>1. Cost <= lapses
    BY <1>q DEF StrayInv
  <2>2. c'.pc \notin Ending \cup {"closed", "dead"}
    BY <1>0, <1>q
  <2>3. Cardinality(Strays') + One(Nameless)' + One(Exposed)' <= lapses'
    BY <1>c, <1>q, <2>1 DEF Cost
  <2> QED
    BY <2>2, <2>3 DEF StrayInv, Cost
<1>3. CASE c.pc \in Ending \cup {"closed", "dead"}
  BY <1>0, <1>2, <1>3, LessStrays DEF Counts
<1>4. CASE c.pc \notin Ending \cup {"closed", "dead"} /\ p.suffix # c.suffix
  <2>1. c.suffix # 0 => files'[c.suffix] = files[c.suffix]
    BY <1>0, <1>1, <1>4
  <2>2. (Nameless' => Nameless) /\ (Exposed' => Exposed)
    BY <1>0, <1>1, <2>1 DEF Nameless, Exposed
  <2> QED
    BY <1>0, <1>2, <1>4, <2>2, Free DEF Counts
<1>5. CASE c.pc \notin Ending \cup {"closed", "dead"} /\ p.suffix = c.suffix
  <2>1. c.suffix \in 1 .. MaxBoots
    BY <1>0, <1>5, AgentTypes
  <2>2. files'[c.suffix] = NoFiles /\ ~Exposed'
    <3>1. files'[c.suffix] = NoFiles /\ ~NoFiles.bin
      BY <1>0, <1>1, <1>5, <2>1 DEF NoFiles
    <3> QED
      BY <1>0, <3>1 DEF Exposed
  <2>3. CASE Nameless' => Nameless
    BY <1>0, <1>2, <1>5, <2>2, <2>3, Free DEF Counts
  <2>4. CASE Nameless' /\ ~Nameless
    <3>1. PICK r \in procs : ~r.leaving /\ r.id = files[c.suffix].pid
      BY <1>0, <1>1, <2>4 DEF Nameless
    <3>2. files[c.suffix].bin
      BY <1>0, <2>1, <3>1, AgentTypes DEF NameInv
    <3>3. p.id # r.id
      BY <1>1, <3>1 DEF NameInv, Apart
    <3>4. Exposed
      BY <1>0, <1>1, <1>5, <2>1, <3>1, <3>2, <3>3, ConnTypes DEF Exposed
    <3>5. Cardinality(Strays') <= Cardinality(Strays) /\ Cardinality(Strays) \in Nat /\ Cardinality(Strays') \in Nat
      BY <1>2, StraysFinite, Sizes
    <3> QED
      BY <1>5, <1>c, <1>q, <2>2, <2>4, <3>4, <3>5 DEF One
  <2> QED
    BY <2>3, <2>4
<1> QED
  BY <1>3, <1>4, <1>5

(* Steps that touch neither the processes nor the pid files, and go on     *)
(* looking after the same one.                                             *)
LEMMA SameStrays ==
  ASSUME Counts, Counts', NameInv, NameInv', StrayInv, lapses' >= lapses, UNCHANGED target, c'.suffix = c.suffix, Mine' = Mine,
         c.pc \notin Ending \cup {"closed", "dead"}, c'.pc # "start"
  PROVE  StrayInv'
<1>1. Strays' \subseteq Strays
  BY DEF Strays, target
<1>2. (Nameless' => Nameless) /\ (Exposed' => Exposed)
  BY DEF Nameless, Exposed, target
<1> QED
  BY <1>1, <1>2, Free

(* A transport error gives the agent up, which has cost a lapse or left no *)
(* agent to give up; so does Close, unless the agent is to stay.           *)
LEMMA GivenUp ==
  ASSUME Counts, Counts', NameInv, NameInv', StrayInv, UNCHANGED procs, Mine' = None, Mine = c.agent,
         c.pc \notin Ending \cup {"closed", "dead"}
  PROVE  /\ Cardinality(Strays') \in Nat
         /\ Cardinality(Strays') <= Cardinality(Strays) + 1
         /\ Cardinality(Strays) + One(Nameless) + One(Exposed) <= lapses
         /\ Cardinality(Strays) \in Nat /\ One(Nameless) \in {0, 1} /\ One(Exposed) \in {0, 1}
         /\ Living(c.agent) = {} => Strays' \subseteq Strays
<1>1. Cardinality(Strays) + One(Nameless) + One(Exposed) <= lapses
  BY DEF StrayInv, Cost
<1>2. CASE Living(c.agent) = {}
  <2>1. Strays' \subseteq Strays
    BY <1>2 DEF Strays, Living
  <2>2. Cardinality(Strays') <= Cardinality(Strays)
    BY <2>1, StraysFinite, Sizes
  <2> QED
    BY <1>1, <2>1, <2>2, StraysFinite DEF One
<1>3. CASE Living(c.agent) # {}
  <2>1. PICK a \in Living(c.agent) : TRUE
    BY <1>3
  <2>2. Strays' \subseteq Strays \cup {a}
    BY <2>1 DEF Strays, Living, NameInv, Apart
  <2>3. Cardinality(Strays') <= Cardinality(Strays) + 1
    BY <2>2, StraysFinite, Sizes
  <2> QED
    BY <1>1, <1>3, <2>3, StraysFinite DEF One
<1> QED
  BY <1>2, <1>3

LEMMA CallAgentStrays ==
  ASSUME IInv, PcInv, NameInv, NameInv', Counts, Counts', lapses' >= lapses, StrayInv, CallAgent
  PROVE  StrayInv'
<1>0. /\ c.pc = "op" /\ UNCHANGED target /\ c'.suffix = c.suffix /\ Mine = c.agent
      /\ \/ c'.pc = "idle" /\ c'.agent = c.agent
         \/ c'.pc = "boot" /\ c'.agent = None /\ (Living(c.agent) # {} => lapses' = lapses + 1)
  BY CallAgentMoves DEF Place, User, Mine, Ending
<1>1. CASE c'.pc = "idle" /\ c'.agent = c.agent
  BY <1>0, <1>1, SameStrays DEF Mine, Ending
<1>2. CASE c'.pc = "boot" /\ c'.agent = None /\ (Living(c.agent) # {} => lapses' = lapses + 1)
  <2>1. Mine' = None
    BY <1>2 DEF Mine, Ending
  <2>2. ~Nameless' /\ (Exposed' => Exposed)
    <3>1. \A p \in procs : p.id # None
      BY ConnTypes, AgentTypes
    <3> QED
      BY <1>0, <1>2, <2>1, <3>1 DEF Nameless, Exposed, target
  <2>3. CASE Living(c.agent) = {}
    <3>1. Strays' \subseteq Strays
      BY <1>0, <2>1, <2>3, GivenUp DEF Ending, target
    <3> QED
      BY <1>0, <2>2, <3>1, Free DEF Ending
  <2>4. CASE Living(c.agent) # {}
    <3>1. /\ Cardinality(Strays') \in Nat
          /\ Cardinality(Strays') <= Cardinality(Strays) + 1
          /\ Cardinality(Strays) + One(Nameless) + One(Exposed) <= lapses
          /\ Cardinality(Strays) \in Nat /\ One(Nameless) \in {0, 1} /\ One(Exposed) \in {0, 1}
      BY <1>0, <2>1, GivenUp DEF Ending, target
    <3>2. One(Nameless)' = 0 /\ One(Exposed)' \in {0, 1} /\ One(Exposed)' <= One(Exposed)
      BY <2>2 DEF One
    <3>3. Cardinality(Strays') + One(Nameless)' + One(Exposed)' <= lapses'
      BY <1>2, <2>4, <3>1, <3>2 DEF Counts
    <3> QED
      BY <1>2, <3>3 DEF StrayInv, Cost, Ending
  <2> QED
    BY <2>3, <2>4
<1> QED
  BY <1>0, <1>1, <1>2

LEMMA CloseStrays ==
  ASSUME IInv, PcInv, NameInv, NameInv', Counts, Counts', lapses' >= lapses, StrayInv, Close
  PROVE  StrayInv'
<1>0. /\ c.pc = "idle" /\ UNCHANGED <<target, keep>> /\ c'.suffix = c.suffix /\ Mine = c.agent
      /\ \/ c'.pc = "shutdown" /\ c'.agent = c.agent
         \/ c'.pc = "closed" /\ (c.agent = None \/ keep = TRUE)
  BY CloseMoves DEF Place, User, Mine, Ending
<1>1. CASE c'.pc = "shutdown" /\ c'.agent = c.agent
  BY <1>0, <1>1, SameStrays DEF Mine, Ending
<1>2. CASE c'.pc = "closed" /\ (c.agent = None \/ keep = TRUE)
  <2>1. Mine' = None
    BY <1>2 DEF Mine, Ending
  <2>2. /\ Cardinality(Strays') \in Nat
        /\ Cardinality(Strays') <= Cardinality(Strays) + 1
        /\ Cardinality(Strays) + One(Nameless) + One(Exposed) <= lapses
        /\ Cardinality(Strays) \in Nat /\ One(Nameless) \in {0, 1} /\ One(Exposed) \in {0, 1}
        /\ Living(c.agent) = {} => Strays' \subseteq Strays
    BY <1>0, <2>1, GivenUp DEF Ending, target
  <2>3. Cardinality(Strays') <= lapses' + One(keep' = TRUE)
    <3>1. CASE keep = TRUE
      <4>1. One(keep' = TRUE) = 1
        BY <1>0, <3>1 DEF One
      <4> QED
        BY <2>2, <4>1 DEF Counts
    <3>2. CASE c.agent = None
      <4>1. Living(c.agent) = {}
        BY <3>2, ConnTypes, AgentTypes DEF Living
      <4>2. Cardinality(Strays') <= Cardinality(Strays)
        BY <2>2, <4>1, StraysFinite, Sizes
      <4>3. One(keep' = TRUE) \in {0, 1}
        BY DEF One
      <4> QED
        BY <2>2, <4>2, <4>3 DEF Counts
    <3> QED
      BY <1>2, <3>1, <3>2
  <2> QED
    BY <1>2, <2>3 DEF StrayInv, Ending
<1> QED
  BY <1>0, <1>1, <1>2

LEMMA ShutdownStrays ==
  ASSUME IInv, PcInv, NameInv, NameInv', Counts, Counts', lapses' >= lapses, StrayInv, Shutdown
  PROVE  StrayInv'
<1>0. c.pc = "shutdown" /\ Mine = c.agent /\ procs \in SUBSET Agents
  BY ConnTypes DEF Shutdown, At, Mine, Ending
<1>1. c'.pc \in {"fallback", "closed"} /\ Mine' = None
  <2>1. c'.pc \in {"fallback", "closed"}
    <3>1. c \in Conns /\ (c' = [c EXCEPT !.pc = "fallback"] \/ c' = [c EXCEPT !.agent = None, !.ssh = FALSE, !.pc = "closed"])
      BY DEF Shutdown, Closed, IInv, TypeInv
    <3> QED
      BY <3>1 DEF Conns
  <2> QED
    BY <2>1 DEF Mine, Ending
<1>q. ASSUME Cardinality(Strays') <= lapses' PROVE StrayInv'
  <2>1. One(keep' = TRUE) \in {0, 1}
    BY DEF One
  <2>2. Cardinality(Strays') <= lapses' + One(keep' = TRUE)
    BY <1>q, <2>1, StraysFinite DEF Counts
  <2> QED
    BY <1>1, <1>q, <2>2 DEF StrayInv, Ending
<1>2. Cardinality(Strays) <= lapses
  <2>1. Cardinality(Strays) + One(Nameless) + One(Exposed) <= lapses
    BY <1>0 DEF StrayInv, Cost, Ending
  <2>2. One(Nameless) \in {0, 1} /\ One(Exposed) \in {0, 1} /\ Cardinality(Strays) \in Nat
    BY StraysFinite DEF One
  <2> QED
    BY <2>1, <2>2 DEF Counts
<1>3. CASE Strays' \subseteq Strays
  <2>1. Cardinality(Strays') <= Cardinality(Strays) /\ Cardinality(Strays') \in Nat /\ Cardinality(Strays) \in Nat
    BY <1>3, StraysFinite, Sizes
  <2> QED
    BY <1>2, <1>q, <2>1 DEF Counts
<1>4. CASE procs' = {[p EXCEPT !.leaving = @ \/ p.id = c.agent] : p \in procs}
  <2>1. ASSUME NEW q \in procs', ~q.leaving PROVE q \in procs /\ q.id # c.agent
    <3>1. PICK p \in procs : q = [p EXCEPT !.leaving = p.leaving \/ p.id = c.agent]
      BY <1>4, <2>1
    <3>2. p \in Agents
      BY <1>0
    <3>3. ~(p.leaving \/ p.id = c.agent)
      <4>1. q.leaving = (p.leaving \/ p.id = c.agent)
        BY <3>1, <3>2 DEF Agents
      <4> QED
        BY <2>1, <4>1
    <3>4. p.leaving = FALSE /\ q = [p EXCEPT !.leaving = FALSE]
      <4>1. p.leaving \in BOOLEAN
        BY <3>2 DEF Agents
      <4>2. (p.leaving \/ p.id = c.agent) = FALSE
        BY <3>3
      <4> QED
        BY <3>1, <3>3, <4>1, <4>2
    <3>5. q = p
      BY <3>2, <3>4 DEF Agents
    <3> QED
      BY <3>3, <3>5
  <2>2. Strays' \subseteq Strays
    BY <1>0, <2>1 DEF Strays
  <2> QED
    BY <1>3, <2>2
<1>5. CASE procs' = procs /\ (Living(c.agent) # {} => lapses' = lapses + 1)
  <2>1. /\ Cardinality(Strays') \in Nat /\ Cardinality(Strays) \in Nat
        /\ Cardinality(Strays') <= Cardinality(Strays) + 1
        /\ Living(c.agent) = {} => Strays' \subseteq Strays
    BY <1>0, <1>1, <1>5, GivenUp DEF Ending
  <2> QED
    BY <1>2, <1>3, <1>5, <1>q, <2>1 DEF Counts
<1>6. \/ procs' = procs /\ (Living(c.agent) # {} => lapses' = lapses + 1)
      \/ procs' = {[p EXCEPT !.leaving = @ \/ p.id = c.agent] : p \in procs}
  BY DEF Shutdown
<1> QED
  BY <1>4, <1>5, <1>6

(* From the fallback on only processes go.                                 *)
LEMMA EndingStrays ==
  ASSUME IInv, NameInv, NameInv', Counts, Counts', lapses' >= lapses, StrayInv, Fallback \/ LastKill \/ LastCleanup
  PROVE  StrayInv'
<1>1. c.pc \in Ending /\ c'.pc \in Ending \cup {"closed"} /\ procs' \in SUBSET procs
  <2>1. c.pc \in Ending /\ procs' \in SUBSET procs
    BY DEF Fallback, LastKill, LastCleanup, Kill, target, At, Ending
  <2> QED
    BY <2>1, ClosingMoves DEF Ending
<1>2. Mine = None /\ Mine' = None
  BY <1>1 DEF Mine, Ending
<1>3. Strays' \subseteq Strays
  BY <1>1, <1>2 DEF Strays
<1>4. Cardinality(Strays') <= Cardinality(Strays) /\ Cardinality(Strays') \in Nat /\ Cardinality(Strays) \in Nat
  BY <1>3, StraysFinite, Sizes
<1>5. Cardinality(Strays') <= lapses' /\ One(keep' = TRUE) \in {0, 1}
  BY <1>1, <1>4 DEF StrayInv, Counts, One
<1>6. lapses' \in Nat /\ Cardinality(Strays') <= lapses' + One(keep' = TRUE)
  BY <1>4, <1>5 DEF Counts
<1> QED
  BY <1>1, <1>5, <1>6 DEF StrayInv, Ending

LEMMA StrayStep ==
  ASSUME IInv, IInv', PcInv, NameInv, NameInv', Counts, StrayInv, [Next]_vars
  PROVE  StrayInv'
<1>0. Counts' /\ lapses' >= lapses /\ procs \in SUBSET Agents /\ procs' \in SUBSET Agents
      /\ \A p \in Agents : p.id # None
  BY LapsesGrow, AgentTypes DEF IInv, TypeInv
<1> USE DEF Place, User
<1>1. CASE UNCHANGED vars
  BY <1>1 DEF vars, target, given, StrayInv, Cost, Strays, Nameless, Exposed, Mine
<1>2. CASE Connect \/ Unprepared \/ CallOverSSH \/ Call \/ Rotate
  <2>1. /\ UNCHANGED target /\ c'.suffix = c.suffix /\ c'.agent = c.agent
        /\ c.pc \in {"boot", "binary", "ssh", "idle", "rotate"}
        /\ c'.pc \in {"idle", "binary", "cleanup", "ssh", "rotate", "op", "certs"}
    BY <1>2, ConnectMoves, UnpreparedMoves, CallOverSSHMoves, CallMoves, RotateMoves
  <2>2. Mine' = Mine
    BY <2>1 DEF Mine, Ending
  <2> QED
    BY <1>0, <2>1, <2>2, SameStrays DEF Ending
<1>3. CASE HealthCheck
  <2>1. /\ UNCHANGED target /\ c'.suffix = c.suffix /\ c.pc = "health" /\ c'.probe = c.probe
        /\ c'.pc = "undo" \/ (c'.pc \in {"idle", "op"} /\ c'.agent = c.probe)
    BY <1>3, HealthCheckMoves
  <2>2. Mine' = Mine
    BY <2>1 DEF Mine, Ending
  <2> QED
    BY <1>0, <2>1, <2>2, SameStrays DEF Ending
<1>4. CASE UploadBinary
  <2>1. /\ c.pc = "binary" /\ c'.pc \in {"certs", "cleanup"} /\ c'.agent = None /\ c.agent = None /\ UNCHANGED procs
        /\ c'.suffix = c.suffix + 1
    BY <1>4, UploadBinaryMoves DEF PcInv
  <2>2. Mine = None /\ Mine' = None
    BY <2>1 DEF Mine, Ending
  <2>3. Strays' \subseteq Strays /\ ~Nameless'
    BY <1>0, <2>1, <2>2 DEF Strays, Nameless
  <2>4. ~Exposed'
    BY <1>0, <2>1, ConnTypes, AgentTypes DEF Exposed, NameInv
  <2> QED
    BY <1>0, <2>1, <2>3, <2>4, Free DEF Ending
<1>5. CASE UploadCerts
  <2>1. /\ c.pc = "certs" /\ UNCHANGED procs /\ c'.suffix = c.suffix /\ c'.agent = c.agent
        /\ IF c.mode = "boot" THEN c'.pc \in {"start", "cleanup"} ELSE c'.pc \in {"kill", "idle"}
        /\ c'.pc = "kill" => c'.try = 1
    BY <1>5, UploadCertsMoves
  <2>2. c.suffix \in 1 .. MaxBoots /\ files \in [1 .. MaxBoots -> Files]
    BY <2>1, ConnTypes DEF IInv, ChainInv, Making
  <2>3. files'[c.suffix].pid = files[c.suffix].pid /\ files'[c.suffix].bin = files[c.suffix].bin
    BY <1>5, <2>2 DEF UploadCerts, Files
  <2>4. Mine' = Mine
    BY <2>1 DEF Mine, Ending, PcInv, Making
  <2>5. Strays' \subseteq Strays /\ (Nameless' => Nameless)
    BY <2>1, <2>3, <2>4 DEF Strays, Nameless
  <2>6. Exposed' => Exposed
    BY <1>0, <2>1, <2>3 DEF Exposed, NameInv
  <2> QED
    BY <1>0, <2>1, <2>5, <2>6, Free DEF Ending
<1>6. CASE StartAgent
  BY <1>0, <1>6, StartStrays
<1>7. CASE Undo \/ KillOld
  BY <1>0, <1>7, KillStrays
<1>8. CASE Cleanup
  <2>1. c.pc = "cleanup" /\ c'.pc = "idle" /\ c.agent = None /\ c'.agent = None /\ UNCHANGED procs /\ c'.suffix = c.suffix
    BY <1>8, CleanupMoves DEF PcInv
  <2>2. Mine = None /\ Mine' = None
    BY <2>1 DEF Mine, Ending
  <2>3. Strays' \subseteq Strays /\ ~Nameless'
    BY <1>0, <2>1, <2>2 DEF Strays, Nameless
  <2>4. files' = files \/ (c.suffix # 0 => ~files'[c.suffix].bin)
    BY <1>8, ConnTypes DEF Cleanup, Remove, NoFiles
  <2>5. Exposed' => Exposed
    BY <2>1, <2>4 DEF Exposed
  <2> QED
    BY <1>0, <2>1, <2>3, <2>5, Free DEF Ending
<1>9. CASE CallAgent \/ Close \/ Shutdown
  BY <1>0, <1>9, CallAgentStrays, CloseStrays, ShutdownStrays
<1>10. CASE Fallback \/ LastKill \/ LastCleanup
  BY <1>0, <1>10, EndingStrays
<1>11. CASE Die
  BY <1>11, DieMoves DEF StrayInv, Ending
<1>12. CASE IdleExit \/ Leave
  BY <1>0, <1>12, IdleExitStrays, LeaveStrays
<1>13. CASE Crash \/ NewMaterial
  <2>1. UNCHANGED <<c, files, keep, lapses>> /\ procs' \in SUBSET procs
    BY <1>13 DEF Crash, NewMaterial, target
  <2>2. Mine' = Mine
    BY <2>1 DEF Mine
  <2>3. Strays' \subseteq Strays /\ (Nameless' => Nameless) /\ (Exposed' => Exposed)
    BY <2>1, <2>2 DEF Strays, Nameless, Exposed
  <2> QED
    BY <1>0, <2>1, <2>3, Free, LessStrays
<1> QED
  BY <1>1, <1>2, <1>3, <1>4, <1>5, <1>6, <1>7, <1>8, <1>9, <1>10, <1>11, <1>12, <1>13 DEF Next, Control

-----------------------------------------------------------------------------
(* Directories with files in them and no process that will clean them, and *)
(* what accounts for them.                                                 *)
Orphans == {s \in 1 .. MaxBoots : files[s] # NoFiles /\ \A p \in procs : p.suffix # s}
Paid == lapses + crashes
Old == Orphans \ {c.suffix}

(* The agent of the connection is there and will clean its directory, or   *)
(* that directory is accounted for.                                        *)
Sound == (\E p \in procs : p.id = c.agent) \/ Cardinality(Orphans) <= Paid

(* The directory in use may be one more; not where a new one is about to   *)
(* be chosen or the connection is closed for good.  An agent with the      *)
(* certificates of the moment is sound; one with older ones is replaced    *)
(* before it is used or closed away.                                       *)
KeyInv ==
  /\ Cardinality(Old) <= Paid
  /\ \/ c.pc \in {"boot", "binary", "ssh"}
     \/ c.pc = "idle" /\ c.agent = None
     \/ c.pc = "closed" /\ keep # TRUE
     => Cardinality(Orphans) <= Paid
  /\ c.pc = "idle" /\ c.agent # None => Sound \/ c.gen < store
  /\ c.pc \in {"rotate", "op"} => Sound \/ c.gen < c.asked

LEMMA OrphanSizes ==
  /\ IsFiniteSet(Orphans) /\ IsFiniteSet(Old) /\ Cardinality(Orphans) \in Nat /\ Cardinality(Old) \in Nat
  /\ IsFiniteSet(Orphans') /\ IsFiniteSet(Old') /\ Cardinality(Orphans') \in Nat /\ Cardinality(Old') \in Nat
<1>1. IsFiniteSet(1 .. MaxBoots)
  BY FS_Interval, Bounds
<1>2. \A A \in SUBSET (1 .. MaxBoots) : IsFiniteSet(A) /\ Cardinality(A) \in Nat
  BY <1>1, FS_Subset, FS_CardinalityType
<1> QED
  BY <1>2 DEF Orphans, Old

LEMMA Shrinks ==
  ASSUME NEW A, NEW B, IsFiniteSet(B)
  PROVE  /\ A \subseteq B => Cardinality(A) <= Cardinality(B)
         /\ \A x : A \subseteq B \cup {x} => Cardinality(A) <= Cardinality(B) + 1
BY Sizes

(* Who leaves cleans; who is killed was named by the pid file of the       *)
(* directory in use.  Only a crash orphans a directory other than that.    *)
LEMMA OrphansGo ==
  ASSUME IInv, PcInv, NameInv, Next, ~Crash
  PROVE  \A s \in Orphans' : s # c'.suffix => s \in Orphans
<1>0. /\ files \in [1 .. MaxBoots -> Files] /\ procs \in SUBSET Agents /\ c.suffix \in 0 .. MaxBoots
      /\ \A p \in Agents : p.suffix \in 1 .. MaxBoots
  BY ConnTypes, AgentTypes
<1>q. ASSUME \A s \in 1 .. MaxBoots : s # c'.suffix => files'[s] \in {files[s], NoFiles},
             \A p \in procs : p.suffix # c'.suffix =>
               (\E q \in procs' : q.suffix = p.suffix) \/ files'[p.suffix] = NoFiles
      PROVE  \A s \in Orphans' : s # c'.suffix => s \in Orphans
  BY <1>q DEF Orphans
<1>1. CASE Connect \/ Unprepared \/ HealthCheck \/ CallOverSSH \/ Rotate \/ CallAgent
  BY <1>1, <1>q, ConnectMoves, UnpreparedMoves, HealthCheckMoves, CallOverSSHMoves, RotateMoves, CallAgentMoves
     DEF target
<1>2. CASE Close \/ Call \/ Die \/ Fallback \/ NewMaterial
  <2>1. UNCHANGED target
    BY <1>2 DEF Close, Call, Die, Fallback, NewMaterial
  <2> QED
    BY <2>1, <1>q DEF target
<1>3. CASE UploadBinary
  <2>1. c'.suffix = c.suffix + 1 /\ UNCHANGED procs /\ c.suffix + 1 \in 1 .. MaxBoots
    BY <1>0, <1>3, UploadBinaryMoves, Bounds
  <2>2. \A s \in 1 .. MaxBoots : s # c'.suffix => files'[s] = files[s]
    BY <1>0, <1>3, <2>1 DEF UploadBinary
  <2> QED
    BY <1>q, <2>1, <2>2
<1>4. CASE UploadCerts
  <2>1. c'.suffix = c.suffix /\ UNCHANGED procs
    BY <1>4, UploadCertsMoves DEF Place
  <2>2. \A s \in 1 .. MaxBoots : s # c'.suffix => files'[s] = files[s]
    BY <1>0, <1>4, <2>1 DEF UploadCerts
  <2> QED
    BY <1>q, <2>1, <2>2
<1>5. CASE StartAgent
  <2>1. c'.suffix = c.suffix
    BY <1>5, StartAgentMoves
  <2>2. \A p \in procs : p \in procs'
    BY <1>5 DEF StartAgent
  <2>3. \A s \in 1 .. MaxBoots : s # c'.suffix => files'[s] = files[s]
    BY <1>0, <1>5, <2>1 DEF StartAgent
  <2> QED
    BY <1>q, <2>2, <2>3
<1>6. CASE Undo \/ KillOld \/ LastKill
  <2>1. c'.suffix = c.suffix
    BY <1>6, UndoMoves, KillOldMoves, ClosingMoves DEF Place
  <2>2. PICK end : Kill(end)
    BY <1>6 DEF Undo, KillOld, LastKill
  <2>3. \A s \in 1 .. MaxBoots : s # c'.suffix => files'[s] = files[s]
    BY <1>0, <2>1, <2>2 DEF Kill
  <2>4. \A p \in procs : p.suffix # c.suffix => p \in procs'
    <3> SUFFICES ASSUME NEW p \in procs, p.suffix # c.suffix, p.id = files[c.suffix].pid PROVE p \in procs'
      BY <2>2 DEF Kill
    <3>1. CASE c.suffix \in 1 .. MaxBoots
      BY <3>1 DEF NameInv
    <3>2. CASE c.suffix = 0
      <4>1. p.suffix <= c.suffix /\ p.suffix \in 1 .. MaxBoots
        BY <1>0 DEF NameInv
      <4> QED
        BY <3>2, <4>1
    <3> QED
      BY <1>0, <3>1, <3>2
  <2> QED
    BY <1>q, <2>1, <2>3, <2>4
<1>7. CASE Cleanup \/ LastCleanup
  <2>1. UNCHANGED procs
    BY <1>7 DEF Cleanup, LastCleanup
  <2>2. \A s \in 1 .. MaxBoots : files'[s] \in {files[s], NoFiles}
    BY <1>0, <1>7 DEF Cleanup, LastCleanup, Remove
  <2> QED
    BY <1>q, <2>1, <2>2
<1>8. CASE Shutdown
  <2>1. UNCHANGED files /\ (procs' = procs \/ procs' = {[p EXCEPT !.leaving = @ \/ p.id = c.agent] : p \in procs})
    BY <1>8 DEF Shutdown
  <2>2. \A p \in procs : \E q \in procs' : q.suffix = p.suffix
    <3>1. \A p \in procs : [p EXCEPT !.leaving = @ \/ p.id = c.agent].suffix = p.suffix
      BY <1>0 DEF Agents
    <3> QED
      BY <2>1, <3>1
  <2> QED
    BY <1>q, <2>1, <2>2
<1>9. CASE IdleExit
  <2>1. PICK p \in procs : procs' = (procs \ {p}) \cup {[p EXCEPT !.leaving = TRUE]}
    BY <1>9 DEF IdleExit
  <2>2. [p EXCEPT !.leaving = TRUE].suffix = p.suffix
    BY <1>0 DEF Agents
  <2>3. \A r \in procs : \E q \in procs' : q.suffix = r.suffix
    BY <2>1, <2>2
  <2>4. UNCHANGED files
    BY <1>9 DEF IdleExit
  <2> QED
    BY <1>q, <2>3, <2>4
<1>10. CASE Leave
  <2>1. PICK p \in procs : procs' = procs \ {p} /\ files' = [files EXCEPT ![p.suffix] = NoFiles]
    BY <1>10 DEF Leave, Cleaned
  <2>2. \A s \in 1 .. MaxBoots : files'[s] = IF s = p.suffix THEN NoFiles ELSE files[s]
    BY <1>0, <2>1
  <2>3. \A r \in procs : r \in procs' \/ files'[r.suffix] = NoFiles
    BY <1>0, <2>1, <2>2
  <2> QED
    BY <1>q, <2>2, <2>3
<1> QED
  BY <1>1, <1>2, <1>3, <1>4, <1>5, <1>6, <1>7, <1>8, <1>9, <1>10 DEF Next, Control

LEMMA Accounted ==
  ASSUME IInv, PcInv, NameInv, Counts, KeyInv, Next, ~Crash
  PROVE  /\ Cardinality(Old') <= Paid /\ Paid \in Nat /\ Paid' \in Nat /\ Paid' >= Paid
         /\ c'.suffix \notin Orphans' => Cardinality(Orphans') <= Paid'
         /\ lapses' = lapses + 1 => Cardinality(Orphans') <= Paid'
         /\ UNCHANGED target => Orphans' = Orphans
<1>0. Paid \in Nat /\ Paid' \in Nat /\ Paid' >= Paid /\ (lapses' = lapses + 1 => Paid' >= Paid + 1)
  BY LapsesGrow DEF Counts, Paid
<1>1. Old' \subseteq Orphans
  BY OrphansGo DEF Old
<1>2. Cardinality(Old') <= Paid
  <2>1. CASE c'.suffix = c.suffix
    <3>1. Old' \subseteq Old
      BY <1>1, <2>1 DEF Old
    <3>2. Cardinality(Old') <= Cardinality(Old)
      BY <3>1, OrphanSizes, Shrinks
    <3> QED
      BY <1>0, <3>2, OrphanSizes DEF KeyInv
  <2>2. CASE c'.suffix # c.suffix
    <3>1. UploadBinary
      BY <2>2, ConnectMoves, UnpreparedMoves, UploadCertsMoves, StartAgentMoves, HealthCheckMoves, UndoMoves, KillOldMoves,
         CleanupMoves, CallMoves, CallOverSSHMoves, RotateMoves, CallAgentMoves, CloseMoves, ClosingMoves, DieMoves
         DEF Next, Control, IdleExit, Leave, NewMaterial, Place
    <3>2. c.pc = "binary"
      BY <3>1, UploadBinaryMoves
    <3>3. Cardinality(Old') <= Cardinality(Orphans)
      BY <1>1, OrphanSizes, Shrinks
    <3> QED
      BY <1>0, <3>2, <3>3, OrphanSizes DEF KeyInv
  <2> QED
    BY <2>1, <2>2
<1>3. Orphans' \subseteq Old' \cup {c'.suffix} /\ (c'.suffix \notin Orphans' => Orphans' \subseteq Old')
  BY DEF Old
<1>4. ASSUME c'.suffix \notin Orphans' PROVE Cardinality(Orphans') <= Paid'
  <2>1. Cardinality(Orphans') <= Cardinality(Old')
    BY <1>3, <1>4, OrphanSizes, Shrinks
  <2> QED
    BY <1>0, <1>2, <2>1, OrphanSizes
<1>5. ASSUME lapses' = lapses + 1 PROVE Cardinality(Orphans') <= Paid'
  <2>1. Cardinality(Orphans') <= Cardinality(Old') + 1
    BY <1>3, OrphanSizes, Shrinks
  <2> QED
    BY <1>0, <1>2, <1>5, <2>1, OrphanSizes
<1>6. UNCHANGED target => Orphans' = Orphans
  BY DEF target, Orphans
<1> QED
  BY <1>0, <1>2, <1>4, <1>5, <1>6

LEMMA CrashKeys ==
  ASSUME IInv, NameInv, Counts, KeyInv, Crash
  PROVE  KeyInv'
<1>0. UNCHANGED <<c, files, store, keep, lapses>> /\ crashes' = crashes + 1 /\ procs \in SUBSET Agents
  BY ConnTypes DEF Crash
<1>1. PICK p \in procs : procs' = procs \ {p}
  BY DEF Crash
<1>2. Paid \in Nat /\ Paid' = Paid + 1
  BY <1>0 DEF Counts, Paid
<1>3. Orphans' \subseteq Orphans \cup {p.suffix} /\ Old' \subseteq Old \cup {p.suffix}
  BY <1>0, <1>1 DEF Orphans, Old
<1>4. Cardinality(Orphans') <= Cardinality(Orphans) + 1 /\ Cardinality(Old') <= Cardinality(Old) + 1
  BY <1>3, OrphanSizes, Shrinks
<1>5. Cardinality(Old') <= Paid'
  BY <1>2, <1>4, OrphanSizes DEF KeyInv
<1>6. Cardinality(Orphans) <= Paid => Cardinality(Orphans') <= Paid'
  BY <1>2, <1>4, OrphanSizes
<1>7. Sound => Sound'
  <2>1. CASE p.id = c.agent
    <3>1. p.suffix = c.suffix
      BY <2>1 DEF NameInv
    <3>2. Orphans' \subseteq Old \cup {p.suffix}
      BY <1>3, <3>1 DEF Old
    <3>3. Cardinality(Orphans') <= Cardinality(Old) + 1
      BY <3>2, OrphanSizes, Shrinks
    <3> QED
      BY <1>2, <3>3, OrphanSizes DEF KeyInv, Sound
  <2>2. CASE p.id # c.agent
    BY <1>0, <1>1, <1>6, <2>2 DEF Sound
  <2> QED
    BY <2>1, <2>2
<1> QED
  BY <1>0, <1>5, <1>6, <1>7 DEF KeyInv

LEMMA LeaveKeys ==
  ASSUME IInv, PcInv, NameInv, Counts, KeyInv, Leave
  PROVE  KeyInv'
<1>0. UNCHANGED <<c, store, keep>> /\ procs \in SUBSET Agents /\ Next /\ files \in [1 .. MaxBoots -> Files]
  BY ConnTypes DEF Leave, given, Next
<1>1. PICK p \in procs : procs' = procs \ {p} /\ files' = [files EXCEPT ![p.suffix] = NoFiles]
  BY DEF Leave, Cleaned
<1>2. Orphans' \subseteq Orphans
  <2>1. \A s \in 1 .. MaxBoots : files'[s] = IF s = p.suffix THEN NoFiles ELSE files[s]
    BY <1>0, <1>1
  <2> QED
    BY <1>1, <2>1 DEF Orphans
<1>3. Cardinality(Orphans') <= Cardinality(Orphans)
  BY <1>2, OrphanSizes, Shrinks
<1>4. Paid' >= Paid /\ Paid \in Nat /\ Paid' \in Nat
  BY LapsesGrow, <1>0 DEF Counts, Paid
<1>5. Cardinality(Old') <= Paid'
  <2>1. Cardinality(Old') <= Cardinality(Old)
    BY <1>0, <1>2, OrphanSizes, Shrinks DEF Old
  <2> QED
    BY <1>4, <2>1, OrphanSizes DEF KeyInv
<1>6. Cardinality(Orphans) <= Paid => Cardinality(Orphans') <= Paid'
  BY <1>3, <1>4, OrphanSizes
<1>7. Sound => Sound'
  <2>1. CASE p.id = c.agent
    <3>1. p.suffix = c.suffix
      BY <2>1 DEF NameInv
    <3>2. Orphans' \subseteq Old
      BY <1>2, <3>1 DEF Old, Orphans
    <3>3. Cardinality(Orphans') <= Cardinality(Old)
      BY <3>2, OrphanSizes, Shrinks
    <3> QED
      BY <1>4, <3>3, OrphanSizes DEF KeyInv, Sound
  <2>2. CASE p.id # c.agent
    BY <1>0, <1>1, <1>6, <2>2 DEF Sound
  <2> QED
    BY <2>1, <2>2
<1> QED
  BY <1>0, <1>5, <1>6, <1>7 DEF KeyInv

LEMMA KeyStep ==
  ASSUME IInv, IInv', PcInv, PcInv', NameInv, Counts, KeyInv, [Next]_vars
  PROVE  KeyInv'
<1> USE DEF Place, User, Work
<1>0. /\ {store, store', c.gen, c.gen', c.asked, c.asked'} \subseteq Nat /\ procs \in SUBSET Agents
      /\ \A p \in Agents : p.id # None
  BY AgentTypes DEF IInv, TypeInv, Conns
<1>1. CASE UNCHANGED vars
  BY <1>1 DEF vars, target, given, KeyInv, Sound, Orphans, Old, Paid
<1>2. CASE Crash
  BY <1>2, CrashKeys
<1>3. CASE Leave
  BY <1>3, LeaveKeys
<1>4. CASE Next /\ ~Crash /\ ~Leave
  <2>a. /\ Cardinality(Old') <= Paid' /\ Paid \in Nat /\ Paid' \in Nat /\ Paid' >= Paid
        /\ c'.suffix \notin Orphans' => Cardinality(Orphans') <= Paid'
        /\ lapses' = lapses + 1 => Cardinality(Orphans') <= Paid'
        /\ UNCHANGED target => Orphans' = Orphans
    BY <1>4, Accounted, OrphanSizes
  <2>b. ASSUME UNCHANGED target
        PROVE  /\ Cardinality(Orphans) <= Paid => Cardinality(Orphans') <= Paid'
               /\ Sound /\ c'.agent = c.agent => Sound'
    <3>1. Orphans' = Orphans /\ procs' = procs
      BY <2>a, <2>b DEF target
    <3>2. Cardinality(Orphans) <= Paid => Cardinality(Orphans') <= Paid'
      BY <2>a, <3>1, OrphanSizes
    <3> QED
      BY <3>1, <3>2 DEF Sound
  <2>s. ASSUME ~NewMaterial PROVE store' = store
    BY <1>4, <2>s DEF Next, Control, Connect, Unprepared, UploadBinary, UploadCerts, StartAgent, HealthCheck, Undo, KillOld,
         Cleanup, CallOverSSH, Rotate, CallAgent, Close, Shutdown, Fallback, LastKill, LastCleanup, Call, Die, IdleExit, given
  <2>c. ASSUME c'.pc \notin {"boot", "binary", "ssh", "idle", "closed", "rotate", "op"} PROVE KeyInv'
    BY <2>a, <2>c DEF KeyInv
  <2>i. ASSUME c'.pc = "idle", c'.agent # None, c'.gen < store' PROVE KeyInv'
    BY <2>a, <2>i DEF KeyInv
  <2>o. ASSUME Cardinality(Orphans') <= Paid', c'.pc \in {"boot", "binary", "ssh", "closed"} \/ (c'.pc = "idle" /\ c'.agent = None)
        PROVE  KeyInv'
    BY <2>a, <2>o DEF KeyInv
  <2>1. CASE Connect
    BY <1>0, <2>1, <2>b, <2>o, ConnectMoves DEF KeyInv, PcInv
  <2>2. CASE Unprepared \/ UploadBinary \/ KillOld \/ Die
    BY <2>2, <2>c, UnpreparedMoves, UploadBinaryMoves, KillOldMoves, DieMoves
  <2>3. CASE UploadCerts \/ Undo \/ StartAgent
    <3>1. /\ c.pc \in Making /\ c'.agent = c.agent /\ c'.gen = c.gen /\ c'.asked = c.asked
          /\ c'.pc \in {"start", "cleanup", "kill", "idle", "undo", "health"} /\ (c'.pc = "idle" => c.mode # "boot")
      BY <2>3, UploadCertsMoves, UndoMoves, StartAgentMoves DEF Making
    <3>2. CASE c'.pc # "idle"
      BY <2>c, <3>1, <3>2
    <3>3. CASE c'.pc = "idle"
      <4>1. Migrating
        BY <3>1, <3>3 DEF PcInv, Migrating
      <4>2. c.gen < c.asked /\ c.asked <= store /\ c.agent # None
        BY <4>1 DEF PcInv, IInv, ChainInv
      <4>3. store' = store
        BY <2>3, <2>s DEF UploadCerts, Undo, StartAgent, given
      <4> QED
        BY <1>0, <2>i, <3>1, <3>3, <4>2, <4>3
    <3> QED
      BY <3>2, <3>3
  <2>4. CASE HealthCheck
    <3>1. \/ c'.pc = "undo"
          \/ Living(c.probe) # {} /\ c'.agent = c.probe /\ c'.pc \in {"idle", "op"}
      BY <2>4, HealthCheckMoves
    <3>2. CASE c'.pc = "undo"
      BY <2>c, <3>2
    <3>3. CASE Living(c.probe) # {} /\ c'.agent = c.probe /\ c'.pc \in {"idle", "op"}
      <4>1. Sound' /\ c'.agent # None
        <5>1. procs' = procs
          BY <2>4 DEF HealthCheck, target
        <5> QED
          BY <1>0, <3>3, <5>1 DEF Living, Sound
      <4> QED
        BY <2>a, <3>3, <4>1 DEF KeyInv
    <3> QED
      BY <3>1, <3>2, <3>3
  <2>5. CASE Cleanup
    <3>1. c'.pc = "idle" /\ c'.agent = None /\ c'.suffix = c.suffix
      BY <2>5, CleanupMoves DEF PcInv
    <3>2. lapses' = lapses + 1 \/ c.suffix \notin Orphans'
      BY <2>5, ConnTypes DEF Cleanup, Count, Remove, Orphans
    <3> QED
      BY <2>a, <2>o, <3>1, <3>2
  <2>6. CASE Call
    <3>1. /\ UNCHANGED target /\ c.pc = "idle" /\ c'.pc = (IF c.agent = None THEN "ssh" ELSE "rotate")
          /\ c'.agent = c.agent /\ c'.gen = c.gen /\ c'.asked = store
      BY <2>6, CallMoves
    <3>2. CASE c.agent = None
      BY <2>b, <2>o, <3>1, <3>2 DEF KeyInv
    <3>3. CASE c.agent # None
      BY <2>a, <2>b, <3>1, <3>3 DEF KeyInv
    <3> QED
      BY <3>2, <3>3
  <2>7. CASE CallOverSSH
    <3>1. UNCHANGED target /\ c.pc = "ssh" /\ c'.pc = "idle" /\ c'.agent = None
      BY <2>7, CallOverSSHMoves DEF PcInv
    <3> QED
      BY <2>b, <2>o, <3>1 DEF KeyInv
  <2>8. CASE Rotate
    <3>1. /\ UNCHANGED target /\ c.pc = "rotate" /\ c'.pc \in {"op", "idle", "certs"} /\ c'.agent = c.agent /\ c'.gen = c.gen
          /\ c'.asked = c.asked /\ c.agent # None /\ c.asked <= store
      BY <2>8, RotateMoves DEF IInv, ChainInv, PcInv
    <3>2. CASE c'.pc = "certs"
      BY <2>c, <3>2
    <3>3. CASE c'.pc \in {"op", "idle"}
      <4>1. Sound' \/ c.gen < c.asked
        BY <2>b, <3>1 DEF KeyInv
      <4>2. store' = store
        BY <2>8 DEF Rotate, given
      <4>3. CASE c'.pc = "idle"
        <5>1. Sound' \/ c'.gen < store'
          BY <1>0, <3>1, <4>1, <4>2
        <5> QED
          BY <2>a, <3>1, <4>3, <5>1 DEF KeyInv
      <4>4. CASE c'.pc = "op"
        <5>1. Sound' \/ c'.gen < c'.asked
          BY <3>1, <4>1
        <5> QED
          BY <2>a, <4>4, <5>1 DEF KeyInv
      <4> QED
        BY <3>3, <4>3, <4>4
    <3> QED
      BY <3>1, <3>2, <3>3
  <2>9. CASE CallAgent
    <3>1. /\ c.pc = "op" /\ UNCHANGED <<c.gen, target>> /\ c'.suffix = c.suffix
          /\ \/ c'.pc = "idle" /\ c'.agent = c.agent
             \/ c'.pc = "boot" /\ (Living(c.agent) # {} => lapses' = lapses + 1)
      BY <2>9, CallAgentMoves
    <3>2. Sound /\ c.agent # None
      BY <1>0, <3>1 DEF KeyInv, IInv, ChainInv
    <3>3. CASE c'.pc = "idle" /\ c'.agent = c.agent
      BY <2>a, <2>b, <3>1, <3>2, <3>3 DEF KeyInv
    <3>4. CASE c'.pc = "boot"
      <4>1. CASE \E p \in procs : p.id = c.agent
        <5>1. c'.suffix \notin Orphans'
          BY <3>1, <4>1 DEF Orphans, target, NameInv
        <5> QED
          BY <2>a, <2>o, <3>4, <5>1
      <4>2. CASE Cardinality(Orphans) <= Paid
        BY <2>b, <2>o, <3>1, <3>4, <4>2
      <4> QED
        BY <3>2, <4>1, <4>2 DEF Sound
    <3> QED
      BY <3>1, <3>3, <3>4
  <2>10. CASE Close
    <3>1. UNCHANGED <<target, keep>> /\ c.pc = "idle"
          /\ (c'.pc = "shutdown" \/ (c'.pc = "closed" /\ (c.agent = None \/ keep = TRUE)))
      BY <2>10, CloseMoves
    <3>2. CASE c'.pc = "shutdown"
      BY <2>c, <3>2
    <3>3. CASE c'.pc = "closed" /\ c.agent = None
      BY <2>b, <2>o, <3>1, <3>3 DEF KeyInv
    <3>4. CASE c'.pc = "closed" /\ keep = TRUE
      BY <2>a, <3>1, <3>4 DEF KeyInv
    <3> QED
      BY <3>1, <3>2, <3>3, <3>4
  <2>11. CASE Shutdown \/ Fallback \/ LastKill \/ LastCleanup
    <3>1. c'.suffix = c.suffix /\ c'.pc \in {"fallback", "last kill", "last cleanup", "closed"}
      BY <2>11, ClosingMoves
    <3>2. CASE c'.pc # "closed"
      BY <2>c, <3>1, <3>2
    <3>3. ASSUME c'.pc = "closed" PROVE lapses' = lapses + 1 \/ c.suffix \notin Orphans'
      <4>c. c \in Conns
        BY DEF IInv, TypeInv
      <4>1. CASE Shutdown
        <5>1. /\ Living(c.agent) # {}
              /\ procs' = {[p EXCEPT !.leaving = @ \/ p.id = c.agent] : p \in procs}
          <6>1. PICK end \in IF Living(c.agent) = {} THEN {"failed"} ELSE Ends :
                  /\ procs' = IF end = "failed" THEN procs
                              ELSE {[p EXCEPT !.leaving = @ \/ p.id = c.agent] : p \in procs}
                  /\ c' = IF end = "ok" THEN Closed ELSE [c EXCEPT !.pc = "fallback"]
            BY <4>1 DEF Shutdown
          <6>2. end = "ok"
            BY <3>3, <4>c, <6>1 DEF Conns
          <6> QED
            BY <6>1, <6>2
        <5>2. PICK a \in procs : a.id = c.agent
          BY <5>1 DEF Living
        <5>3. a.suffix = c.suffix
          BY <5>2 DEF NameInv
        <5>4. [a EXCEPT !.leaving = @ \/ a.id = c.agent].suffix = a.suffix
          BY <1>0 DEF Agents
        <5> QED
          BY <5>1, <5>3, <5>4 DEF Orphans
      <4>2. CASE Fallback
        <5>1. PICK end \in Ends : Count(end) /\ c' = IF end = "ok" THEN [c EXCEPT !.ssh = TRUE, !.pc = "last kill"] ELSE Closed
          BY <4>2 DEF Fallback
        <5>2. end # "ok"
          BY <3>3, <4>c, <5>1 DEF Conns
        <5> QED
          BY <5>1, <5>2 DEF Count
      <4>3. CASE LastKill
        BY <3>3, <4>c, <4>3 DEF LastKill, Conns
      <4>4. CASE LastCleanup
        <5>1. PICK end \in Ends : Count(end) /\ Remove(end)
          BY <4>4 DEF LastCleanup
        <5>2. CASE end = "failed"
          BY <5>1, <5>2 DEF Count
        <5>3. CASE c.suffix = 0
          BY Bounds, <5>3 DEF Orphans
        <5>4. CASE end # "failed" /\ c.suffix # 0
          <6>1. c.suffix \in 1 .. MaxBoots /\ files \in [1 .. MaxBoots -> Files]
            <7>1. c.suffix \in 0 .. MaxBoots /\ MaxBoots \in Nat /\ files \in [1 .. MaxBoots -> Files]
              BY Bounds DEF IInv, TypeInv, Conns
            <7> QED
              BY <5>4, <7>1
          <6>2. files'[c.suffix] = NoFiles
            BY <5>1, <5>4, <6>1 DEF Remove
          <6> QED
            BY <6>2 DEF Orphans
        <5> QED
          BY <5>2, <5>3, <5>4
      <4> QED
        BY <2>11, <4>1, <4>2, <4>3, <4>4
    <3> QED
      BY <2>a, <2>o, <3>1, <3>2, <3>3
  <2>12. CASE IdleExit
    <3>1. UNCHANGED <<c, files, store, keep>>
      BY <2>12 DEF IdleExit, given
    <3>2. PICK p \in procs : procs' = (procs \ {p}) \cup {[p EXCEPT !.leaving = TRUE]}
      BY <2>12 DEF IdleExit
    <3>3. [p EXCEPT !.leaving = TRUE].suffix = p.suffix /\ [p EXCEPT !.leaving = TRUE].id = p.id
      BY <1>0 DEF Agents
    <3>4. Orphans' = Orphans
      BY <3>1, <3>2, <3>3 DEF Orphans
    <3>5. Cardinality(Orphans) <= Paid => Cardinality(Orphans') <= Paid'
      BY <2>a, <3>4, OrphanSizes
    <3>6. Sound => Sound'
      BY <3>1, <3>2, <3>3, <3>5 DEF Sound
    <3>7. c'.pc = c.pc /\ c'.agent = c.agent /\ c'.gen = c.gen /\ c'.asked = c.asked /\ store' = store /\ keep' = keep
      BY <3>1
    <3>8. /\ c.pc \in {"boot", "binary", "ssh"} \/ (c.pc = "idle" /\ c.agent = None) \/ (c.pc = "closed" /\ keep # TRUE)
             => Cardinality(Orphans') <= Paid'
          /\ c.pc = "idle" /\ c.agent # None => Sound' \/ c.gen < store
          /\ c.pc \in {"rotate", "op"} => Sound' \/ c.gen < c.asked
      BY <3>5, <3>6 DEF KeyInv
    <3> QED
      BY <2>a, <3>7, <3>8 DEF KeyInv
  <2>13. CASE NewMaterial
    <3>1. UNCHANGED <<c, target, keep>> /\ store' = store + 1
      BY <2>13 DEF NewMaterial
    <3>2. c'.pc = c.pc /\ c'.agent = c.agent /\ c'.gen = c.gen /\ c'.asked = c.asked
      BY <3>1
    <3>3. c.gen < store => c.gen < store'
      BY <1>0, <3>1
    <3>4. (Cardinality(Orphans) <= Paid => Cardinality(Orphans') <= Paid') /\ (Sound => Sound')
      BY <2>b, <3>1, <3>2
    <3>5. /\ c.pc \in {"boot", "binary", "ssh"} \/ (c.pc = "idle" /\ c.agent = None) \/ (c.pc = "closed" /\ keep # TRUE)
             => Cardinality(Orphans') <= Paid'
          /\ c.pc = "idle" /\ c.agent # None => Sound' \/ c.gen < store'
          /\ c.pc \in {"rotate", "op"} => Sound' \/ c.gen < c.asked
      BY <3>3, <3>4 DEF KeyInv
    <3> QED
      BY <2>a, <3>1, <3>2, <3>5 DEF KeyInv
  <2> QED
    BY <1>4, <2>1, <2>2, <2>3, <2>4, <2>5, <2>6, <2>7, <2>8, <2>9, <2>10, <2>11, <2>12, <2>13 DEF Next, Control
<1> QED
  BY <1>1, <1>2, <1>3, <1>4

-----------------------------------------------------------------------------
(* All that the two counts rest on, kept by every step.                    *)
StrongInv == IInv /\ Counts /\ PcInv /\ NameInv /\ StrayInv /\ KeyInv

LEMMA InitStrong == Init => StrongInv
<1> SUFFICES ASSUME Init PROVE StrongInv
  OBVIOUS
<1>1. IInv
  BY InitInv
<1>2. /\ c.pc = "boot" /\ c.mode = "boot" /\ c.agent = None /\ c.gen = 0 /\ c.new = 0 /\ c.suffix = 0 /\ c.asked = 0
      /\ c.spawned = 0 /\ c.try = 1 /\ store = 1 /\ procs = {} /\ lapses = 0 /\ crashes = 0 /\ keep \in BOOLEAN
      /\ files = [s \in 1 .. MaxBoots |-> NoFiles]
  BY DEF Init
<1>3. Counts
  BY <1>2 DEF Counts
<1>4. PcInv
  BY <1>2 DEF PcInv, Making, Migrating
<1>5. IsFiniteSet(procs) /\ Cardinality(procs) = 0
  BY <1>2, FS_EmptySet
<1>6. NameInv
  <2>1. \A s \in 1 .. MaxBoots : files[s] = NoFiles /\ files[s].pid = None /\ files[s].pid <= c.spawned
    BY <1>2 DEF NoFiles, None
  <2>2. Apart(procs) /\ \A p \in procs : FALSE
    BY <1>2 DEF Apart
  <2> QED
    BY <1>2, <1>5, <2>1, <2>2 DEF NameInv
<1>7. Strays = {} /\ ~Nameless /\ ~Exposed
  BY <1>2 DEF Strays, Nameless, Exposed
<1>8. StrayInv
  <2>1. Cost = 0
    BY <1>2, <1>5, <1>7 DEF Cost, One
  <2> QED
    BY <1>2, <2>1 DEF StrayInv, Ending
<1>9. Orphans = {} /\ Old = {}
  BY <1>2 DEF Orphans, Old
<1>10. KeyInv
  <2>1. Cardinality(Orphans) = 0 /\ Cardinality(Old) = 0 /\ Paid = 0
    BY <1>2, <1>5, <1>9 DEF Paid
  <2> QED
    BY <1>2, <2>1 DEF KeyInv
<1> QED
  BY <1>1, <1>3, <1>4, <1>6, <1>8, <1>10 DEF StrongInv

LEMMA StrongInductive == StrongInv /\ [Next]_vars => StrongInv'
<1> SUFFICES ASSUME StrongInv, [Next]_vars PROVE StrongInv'
  OBVIOUS
<1>1. IInv /\ Counts /\ PcInv /\ NameInv /\ StrayInv /\ KeyInv
  BY DEF StrongInv
<1>2. IInv'
  BY <1>1, Inductive
<1>3. Counts'
  BY <1>1, LapsesGrow
<1>4. PcInv'
  BY <1>1, <1>2, PcStep
<1>5. NameInv'
  BY <1>1, <1>2, NameStep
<1>6. StrayInv'
  BY <1>1, <1>2, <1>3, <1>4, <1>5, StrayStep
<1>7. KeyInv'
  BY <1>1, <1>2, <1>4, KeyStep
<1> QED
  BY <1>2, <1>3, <1>4, <1>5, <1>6, <1>7 DEF StrongInv

LEMMA StraysPaid == StrongInv => NoStrayAgent
<1> SUFFICES ASSUME StrongInv, c.pc \in {"idle", "closed"}
             PROVE  Cardinality({p \in procs : ~p.leaving /\ p.id # c.agent})
                      <= lapses + (IF keep /\ c.pc = "closed" THEN 1 ELSE 0)
  BY DEF NoStrayAgent
<1>1. lapses \in Nat /\ keep \in BOOLEAN
  BY DEF StrongInv, Counts
<1>2. IsFiniteSet(Strays) /\ Cardinality(Strays) \in Nat
  <2>1. Strays \subseteq procs /\ IsFiniteSet(procs)
    BY DEF StrongInv, NameInv, Strays
  <2> QED
    BY <2>1, FS_Subset, FS_CardinalityType
<1>3. {p \in procs : ~p.leaving /\ p.id # c.agent} \subseteq Strays
  <2>1. c.pc = "idle" => Mine = c.agent
    BY DEF Mine, Ending
  <2>2. c.pc = "closed" => Mine = None
    BY DEF Mine, Ending
  <2>3. \A p \in procs : p.id # None
    BY AgentTypes DEF StrongInv, IInv, TypeInv
  <2> QED
    BY <2>1, <2>2, <2>3 DEF Strays
<1>4. /\ Cardinality({p \in procs : ~p.leaving /\ p.id # c.agent}) \in Nat
      /\ Cardinality({p \in procs : ~p.leaving /\ p.id # c.agent}) <= Cardinality(Strays)
  BY <1>2, <1>3, Sizes
<1>5. CASE c.pc = "idle"
  <2>1. Cost <= lapses
    BY <1>5 DEF StrongInv, StrayInv, Ending
  <2>2. One(Nameless) \in {0, 1} /\ One(Exposed) \in {0, 1}
    BY DEF One
  <2>3. Cardinality(Strays) <= lapses
    BY <1>1, <1>2, <2>1, <2>2 DEF Cost
  <2> QED
    BY <1>1, <1>2, <1>4, <1>5, <2>3
<1>6. CASE c.pc = "closed"
  <2>1. Cardinality(Strays) <= lapses + One(keep = TRUE)
    BY <1>6 DEF StrongInv, StrayInv
  <2>2. One(keep = TRUE) = IF keep /\ c.pc = "closed" THEN 1 ELSE 0
    BY <1>1, <1>6, Zenon DEF One
  <2> QED
    BY <1>1, <1>2, <1>4, <2>1, <2>2 DEF One
<1> QED
  BY <1>5, <1>6

LEMMA KeysPaid == StrongInv => NoStrayKey
<1> SUFFICES ASSUME StrongInv, At("closed"), ~keep, procs = {}
             PROVE  Cardinality({s \in DOMAIN files : files[s] # NoFiles}) <= lapses + crashes
  BY DEF NoStrayKey
<1>1. c.pc = "closed" /\ keep # TRUE
  BY Zenon DEF At
<1>2. Cardinality(Orphans) <= Paid
  BY <1>1 DEF StrongInv, KeyInv
<1>3. {s \in DOMAIN files : files[s] # NoFiles} = Orphans
  BY DEF StrongInv, IInv, TypeInv, Orphans
<1> QED
  BY <1>2, <1>3 DEF Paid

(* However many calls, certificate rotations, ports, lost or failed remote *)
(* commands and crashes there are: between two calls and once the          *)
(* connection is closed (close.go), every agent that runs unused is paid   *)
(* for by a remote command that went wrong, and every directory that still *)
(* holds a binary or a private key (remote.go: cleanupArtifacts, killAgent)*)
(* by such a command or by a crash; without either, nothing is left.       *)
THEOREM NothingIsLeft == Spec => []NothingStrays
<1>1. StrongInv => NothingStrays
  BY StraysPaid, KeysPaid DEF NothingStrays
<1> QED
  BY <1>1, InitStrong, StrongInductive, PTL DEF Spec
=============================================================================
