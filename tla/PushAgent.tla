------------------------------ MODULE PushAgent ------------------------------
(***************************************************************************)
(* One push connection (src/internal/conn/push): an agent is uploaded,     *)
(* started and probed over SSH, used over HTTPS, restarted when the session*)
(* certificates change, replaced when it cannot be reached, and shut down. *)
(* All of it holds Conn.mu, so the control host takes one step after the   *)
(* other; the processes and files on the target live their own life.       *)
(* A remote command is done or not, and its answer may be lost: a lapse.   *)
(***************************************************************************)
EXTENDS Naturals, FiniteSets

CONSTANTS MaxCalls,      \* bound: operations asked of the connection
          MaxBoots,      \* bound: suffixes, one for each bootstrap
          Ports,         \* tries of startAgent (three in the code)
          MaxGen,        \* bound: generations of the session certificates
          MaxLapses,     \* bound: remote commands that fail or lose their answer
          MaxCrashes     \* bound: agent processes that crash

ASSUME Bounds == /\ {MaxCalls, MaxLapses, MaxCrashes} \subseteq Nat
                 /\ {MaxBoots, Ports, MaxGen} \subseteq Nat \ {0}

VARIABLES c,             \* Conn, and where the control host is in it
          store,         \* the generation of pushcerts.Material
          procs,         \* agent processes: [id, suffix, gen, leaving]
          files,         \* by suffix: [bin, certs, pid]
          keep, idle,    \* keep_agent, and whether agents have an idle timeout
          ran,           \* by call: how often its operation was carried out
          lapses, crashes

target == <<procs, files>>
given == <<keep, idle, store, ran, crashes>>
vars == <<c, target, given, lapses>>

None == 0
NoFiles == [bin |-> FALSE, certs |-> 0, pid |-> None]

Init ==
  /\ c = [pc |-> "boot", mode |-> "boot", agent |-> None, gen |-> 0, new |-> 0, probe |-> None,
          suffix |-> 0, started |-> FALSE, ssh |-> FALSE, try |-> 1, call |-> 0, asked |-> 0, spawned |-> 0]
  /\ store = 1
  /\ procs = {}
  /\ files = [s \in 1 .. MaxBoots |-> NoFiles]
  /\ keep \in BOOLEAN /\ idle \in BOOLEAN
  /\ ran = [n \in 1 .. MaxCalls |-> 0]
  /\ lapses = 0 /\ crashes = 0

At(pc) == c.pc = pc
Living(id) == {p \in procs : p.id = id /\ ~p.leaving}

(* How a remote command ends: done and answered, done, or neither.         *)
Ends == IF lapses < MaxLapses THEN {"ok", "lost", "failed"} ELSE {"ok"}
Count(end) == lapses' = IF end = "ok" THEN lapses ELSE lapses + 1

-----------------------------------------------------------------------------
(* Connect: SSH, then a bootstrap under a new suffix.                      *)
Connect ==
  /\ At("boot")
  /\ \E end \in Ends \ {"lost"} :
       /\ Count(end)
       /\ c' = IF c.started THEN [c EXCEPT !.pc = "idle"]
               ELSE IF c.ssh \/ end = "ok" THEN [c EXCEPT !.ssh = TRUE, !.mode = "boot", !.new = store, !.pc = "binary"]
               ELSE [c EXCEPT !.pc = "idle"]
  /\ UNCHANGED <<target, given>>

(* No binary for the platform, no material or no random suffix: what is    *)
(* cleaned up then is the suffix before.                                   *)
Unprepared == At("binary") /\ c' = [c EXCEPT !.pc = "cleanup"] /\ UNCHANGED <<lapses, target, given>>

UploadBinary ==
  /\ At("binary") /\ c.suffix < MaxBoots
  /\ \E end \in Ends :
       /\ Count(end)
       /\ c' = [c EXCEPT !.suffix = @ + 1, !.pc = IF end = "ok" THEN "certs" ELSE "cleanup"]
       /\ files' = [files EXCEPT ![c.suffix + 1].bin = end # "failed"]
  /\ UNCHANGED <<procs, given>>

(* The three files overwrite those of the generation before.               *)
UploadCerts ==
  /\ At("certs")
  /\ \E end \in Ends :
       /\ Count(end)
       /\ files' = IF end = "failed" THEN files ELSE [files EXCEPT ![c.suffix].certs = c.new]
       /\ c' = CASE end = "ok" -> [c EXCEPT !.try = 1, !.pc = IF c.mode = "boot" THEN "start" ELSE "kill"]
                 [] end # "ok" /\ c.mode = "boot" -> [c EXCEPT !.pc = "cleanup"]
                 [] OTHER -> [c EXCEPT !.ssh = FALSE, !.pc = "idle"]
  /\ UNCHANGED <<procs, given>>

(* The next port; without one a bootstrap falls back to SSH, a migration   *)
(* fails the call.                                                         *)
NextTry(conn) ==
  IF conn.try < Ports THEN [conn EXCEPT !.try = @ + 1, !.pc = IF conn.mode = "boot" THEN "start" ELSE "kill"]
  ELSE IF conn.mode = "boot" THEN [conn EXCEPT !.pc = "cleanup"]
  ELSE [conn EXCEPT !.ssh = FALSE, !.pc = "idle"]

(* The process notes its number and lives, unless its port is taken.       *)
StartAgent ==
  /\ At("start")
  /\ \E end \in Ends, busy \in BOOLEAN :
       LET f == files[c.suffix]
           id == c.spawned + 1
           runs == end # "failed" /\ f.bin /\ f.certs # 0 /\ ~busy
           new == [c EXCEPT !.spawned = IF end = "failed" THEN @ ELSE id, !.probe = id]
       IN /\ Count(end)
          /\ procs' = IF runs THEN procs \cup {[id |-> id, suffix |-> c.suffix, gen |-> f.certs, leaving |-> FALSE]}
                      ELSE procs
          /\ files' = IF end = "failed" \/ ~f.bin THEN files ELSE [files EXCEPT ![c.suffix].pid = id]
          /\ c' = IF runs /\ end = "ok" THEN [new EXCEPT !.pc = "health"]
                  ELSE IF c.mode = "boot" THEN [new EXCEPT !.pc = "undo"]
                  ELSE NextTry(new)
  /\ UNCHANGED given

(* The first answer over HTTPS makes it the agent of the connection; a port*)
(* that SSH reaches the host past may stay closed.                         *)
HealthCheck ==
  /\ At("health")
  /\ \E answered \in BOOLEAN :
       c' = IF answered /\ Living(c.probe) # {}
               THEN [c EXCEPT !.agent = c.probe, !.gen = c.new, !.started = TRUE, !.ssh = FALSE,
                              !.pc = IF c.mode = "boot" THEN "idle" ELSE "op"]
               ELSE [c EXCEPT !.pc = "undo"]
  /\ UNCHANGED <<target, given, lapses>>

(* killAgent: whoever the pid file names.                                  *)
Kill(end) ==
  /\ procs' = IF end = "failed" THEN procs ELSE {p \in procs : p.id # files[c.suffix].pid}
  /\ files' = IF end = "failed" THEN files ELSE [files EXCEPT ![c.suffix].pid = None]

(* Mutant of Undo: an agent that does not answer in time is left alone.    *)
UndoNothing == At("undo") /\ c' = NextTry(c) /\ UNCHANGED <<target, given, lapses>>

Undo ==
  /\ At("undo")
  /\ \E end \in Ends : Count(end) /\ Kill(end)
  /\ c' = NextTry(c)
  /\ UNCHANGED given

KillOld ==
  /\ At("kill")
  /\ \E end \in Ends : Count(end) /\ Kill(end)
  /\ c' = [c EXCEPT !.pc = "start"]
  /\ UNCHANGED given

(* cleanupArtifacts does not kill; SSH stays open for what follows.        *)
Remove(end) ==
  files' = IF end = "failed" \/ c.suffix = 0 THEN files ELSE [files EXCEPT ![c.suffix] = NoFiles]

(* Mutant of Cleanup: plain SSH at once.                                   *)
CleanupNothing == At("cleanup") /\ c' = [c EXCEPT !.pc = "idle"] /\ UNCHANGED <<target, given, lapses>>

Cleanup ==
  /\ At("cleanup")
  /\ \E end \in Ends : Count(end) /\ Remove(end)
  /\ c' = [c EXCEPT !.pc = "idle"]
  /\ UNCHANGED <<procs, given>>

-----------------------------------------------------------------------------
(* One operation: over SSH when there is no agent, otherwise after a look  *)
(* at the generation of the certificates.                                  *)
Call ==
  /\ At("idle") /\ c.call < MaxCalls
  /\ c' = [c EXCEPT !.call = @ + 1, !.asked = store, !.pc = IF c.agent = None THEN "ssh" ELSE "rotate"]
  /\ UNCHANGED <<target, given, lapses>>

Performed(end) == ran' = IF end = "failed" THEN ran ELSE [ran EXCEPT ![c.call] = @ + 1]

CallOverSSH ==
  /\ At("ssh")
  /\ \E end \in IF c.ssh THEN Ends ELSE {"failed"} :
       /\ Performed(end)
       /\ lapses' = IF c.ssh /\ end # "ok" THEN lapses + 1 ELSE lapses
  /\ c' = [c EXCEPT !.pc = "idle"]
  /\ UNCHANGED <<target, keep, idle, store, crashes>>

(* Mutant of RotateFails: the call goes on with the old generation.        *)
RotateFailsSoftly == [c EXCEPT !.pc = "op"]

RotateFails == [c EXCEPT !.pc = "idle"]

Rotate ==
  /\ At("rotate")
  /\ \/ c.gen = c.asked /\ c' = [c EXCEPT !.pc = "op"] /\ UNCHANGED lapses
     \/ /\ c.gen # c.asked
        /\ \E end \in Ends \ {"lost"} :
             /\ Count(end)
             /\ c' = IF end = "ok" THEN [c EXCEPT !.ssh = TRUE, !.mode = "migrate", !.new = c.asked, !.pc = "certs"]
                     ELSE RotateFails
  /\ UNCHANGED <<target, given>>

(* Mutant of Healed: the operation is tried again over the new agent.      *)
HealedAndAgain == [c EXCEPT !.agent = None, !.started = FALSE, !.pc = "boot", !.call = @ - 1]

Healed == [c EXCEPT !.agent = None, !.started = FALSE, !.pc = "boot"]

(* A transport error makes way for a new bootstrap, unless the run is over *)
(* anyway; the operation itself is not repeated.                           *)
CallAgent ==
  /\ At("op")
  /\ \E end \in IF Living(c.agent) = {} THEN {"failed"} ELSE Ends :
       /\ Performed(end)
       /\ lapses' = IF Living(c.agent) # {} /\ end # "ok" THEN lapses + 1 ELSE lapses
       /\ c' \in IF end = "ok" THEN {[c EXCEPT !.pc = "idle"]} ELSE {[c EXCEPT !.pc = "idle"], Healed}
  /\ UNCHANGED <<target, keep, idle, store, crashes>>

-----------------------------------------------------------------------------
Closed == [c EXCEPT !.agent = None, !.ssh = FALSE, !.pc = "closed"]

Close ==
  /\ At("idle")
  /\ c' = IF c.started /\ c.agent # None /\ ~keep THEN [c EXCEPT !.pc = "shutdown"] ELSE Closed
  /\ UNCHANGED <<target, given, lapses>>

Shutdown ==
  /\ At("shutdown")
  /\ \E end \in IF Living(c.agent) = {} THEN {"failed"} ELSE Ends :
       /\ lapses' = IF Living(c.agent) # {} /\ end # "ok" THEN lapses + 1 ELSE lapses
       /\ procs' = IF end = "failed" THEN procs
                   ELSE {[p EXCEPT !.leaving = @ \/ p.id = c.agent] : p \in procs}
       /\ c' = IF end = "ok" THEN Closed ELSE [c EXCEPT !.pc = "fallback"]
  /\ UNCHANGED <<files, given>>

Fallback ==
  /\ At("fallback")
  /\ \E end \in Ends \ {"lost"} :
       /\ Count(end)
       /\ c' = IF end = "ok" THEN [c EXCEPT !.ssh = TRUE, !.pc = "last kill"] ELSE Closed
  /\ UNCHANGED <<target, given>>

LastKill ==
  /\ At("last kill")
  /\ \E end \in Ends : Count(end) /\ Kill(end)
  /\ c' = [c EXCEPT !.pc = "last cleanup"]
  /\ UNCHANGED given

LastCleanup ==
  /\ At("last cleanup")
  /\ \E end \in Ends : Count(end) /\ Remove(end)
  /\ c' = Closed
  /\ UNCHANGED <<procs, given>>

(* The wdp process is killed: Close is never called.                       *)
Die ==
  /\ c.pc \notin {"closed", "dead"}
  /\ c' = [c EXCEPT !.pc = "dead"]
  /\ UNCHANGED <<target, given, lapses>>

-----------------------------------------------------------------------------
(* The agents.  One that is in use or probed is not idle.                  *)
Over == c.pc \in {"closed", "dead"}
InUse(p) == p.id \in {c.agent, c.probe} /\ c.pc \notin {"idle", "closed", "dead"}

(* Mutant of MayIdle: the watchdog only looks while somebody is there.     *)
MayIdleNever(p) == FALSE

MayIdle(p) == idle /\ ~InUse(p)

IdleExit ==
  \E p \in procs :
    /\ ~p.leaving /\ MayIdle(p)
    /\ procs' = (procs \ {p}) \cup {[p EXCEPT !.leaving = TRUE]}
    /\ UNCHANGED <<c, files, given, lapses>>

(* Mutant of Cleaned: the certificates are kept.                           *)
CleanedBinary(s) == [files[s] EXCEPT !.bin = FALSE, !.pid = None]

(* performCleanup: certificates, log and pid, the binary; then it exits.   *)
Cleaned(s) == NoFiles

Leave ==
  \E p \in procs :
    /\ p.leaving
    /\ procs' = procs \ {p}
    /\ files' = [files EXCEPT ![p.suffix] = Cleaned(p.suffix)]
    /\ UNCHANGED <<c, given, lapses>>

Crash ==
  /\ crashes < MaxCrashes
  /\ \E p \in procs : procs' = procs \ {p}
  /\ crashes' = crashes + 1
  /\ UNCHANGED <<c, files, keep, idle, store, ran, lapses>>

(* pushcerts: the next generation is due.                                  *)
NewMaterial ==
  /\ store < MaxGen /\ ~Over
  /\ store' = store + 1
  /\ UNCHANGED <<c, target, keep, idle, ran, crashes, lapses>>

Control ==
  \/ Connect \/ Unprepared \/ UploadBinary \/ UploadCerts \/ StartAgent \/ HealthCheck
  \/ Undo \/ KillOld \/ Cleanup \/ CallOverSSH \/ Rotate \/ CallAgent
  \/ Close \/ Shutdown \/ Fallback \/ LastKill \/ LastCleanup

Next == Control \/ Call \/ Die \/ IdleExit \/ Leave \/ Crash \/ NewMaterial

(* The control host goes on while it lives, Close comes at last (CloseAll),*)
(* the watchdog and the cleanup of a living agent take their turns.        *)
Spec == Init /\ [][Next]_vars /\ WF_vars(Control) /\ WF_vars(IdleExit) /\ WF_vars(Leave)

-----------------------------------------------------------------------------
TypeOK ==
  /\ c.suffix \in 0 .. MaxBoots /\ c.call \in 0 .. MaxCalls /\ c.try \in 1 .. Ports
  /\ store \in 1 .. MaxGen
  /\ \A p \in procs : p.suffix \in 1 .. MaxBoots /\ p.gen \in 1 .. MaxGen
  /\ lapses \in 0 .. MaxLapses /\ crashes \in 0 .. MaxCrashes

(* Between the operations every agent that runs and is not the one in use  *)
(* costs a remote command that went wrong: tries on other ports, certifi-  *)
(* cate rotations and new bootstraps leave none behind by themselves.      *)
NoStrayAgent ==
  c.pc \in {"idle", "closed"} =>
    Cardinality({p \in procs : ~p.leaving /\ p.id # c.agent})
      <= lapses + (IF keep /\ c.pc = "closed" THEN 1 ELSE 0)

(* Without keep_agent: once closed and the agents gone, what still lies    *)
(* on the target, private keys included, is the remains of a crashed agent *)
(* or of a remote command that went wrong.                                 *)
NoStrayKey ==
  At("closed") /\ ~keep /\ procs = {} => Cardinality({s \in DOMAIN files : files[s] # NoFiles}) <= lapses + crashes

(* A run leaves neither agents nor keys of its own accord.                 *)
NothingStrays == NoStrayAgent /\ NoStrayKey

(* An operation is carried out once at most, whatever is healed after it,   *)
(* and never by an agent with a chain older than the one of the moment it   *)
(* was asked for.                                                          *)
OnceUnderItsChain ==
  [][\A n \in DOMAIN ran :
       /\ ran'[n] <= 1
       /\ At("op") /\ ran'[n] # ran[n] => \E p \in Living(c.agent) : p.gen >= c.asked]_vars

(* With an idle timeout no agent outlives the run for ever, even when the  *)
(* control host dies in the middle of a bootstrap, keep_agent or not.      *)
AgentsLeave == (Over /\ idle) ~> (procs = {})

=============================================================================
