----------------------------- MODULE GatewayPid -----------------------------
(***************************************************************************)
(* One gateway per workspace: the pid file, the lock file of a claim, the  *)
(* gateways that start, stop and crash and the commands that look for one  *)
(* (gateway/pid-file.ts, gateway.ts).  Every system call is a step.        *)
(***************************************************************************)
EXTENDS Naturals, FiniteSets

CONSTANTS
  Pids,        \* pids that gateways get
  Lookers,     \* commands that ask findRunningGatewayPid
  MaxStarts,   \* bound: gateway starts
  MaxCrashes   \* bound: crashes

Nothing == "nothing"   \* in a file: no pid yet
NoFile == [by |-> Nothing, text |-> "no file"]
\* by: whose open created the file (a write through a descriptor reaches only
\* the file it created); text: what it says.
FileOf(p, text) == [by |-> p, text |-> text]

ASSUME PidsAssumption == Nothing \notin Pids /\ "no file" \notin Pids
ASSUME BoundsAssumption == MaxStarts \in Nat /\ MaxCrashes \in Nat

VARIABLES
  pidFile, lockFile,
  stage,      \* stage[p]: off, another program, or where a gateway with pid p is
  looker,     \* looker[l]: idle, removing
  starts, crashes,
  overlapped  \* history: two programs were at the files at the same time

counts == <<starts, crashes, overlapped>>
vars == <<pidFile, lockFile, stage, looker, counts>>

Claiming == {"lock", "read lock", "break lock", "relock", "write lock", "read", "remove", "create",
             "write", "unlock", "fail"}
Running == {"running", "releasing"}
Stages == {"off", "other", "exiting"} \cup Claiming \cup Running

IsAlive(x) == x \in Pids /\ stage[x] # "off"

NeverGateway(x) == FALSE  \* mutant: the owner is not looked at
\* isAlive and isExpectedGatewayProcess: any process whose command is gateway.js.
LiveGateway(x) == IsAlive(x) /\ stage[x] # "other"

Init ==
  /\ pidFile = NoFile
  /\ lockFile = NoFile
  /\ stage = [p \in Pids |-> "off"]
  /\ looker = [l \in Lookers |-> "idle"]
  /\ starts = 0
  /\ crashes = 0
  /\ overlapped = FALSE

Goto(p, s) == stage' = [stage EXCEPT ![p] = s]

\* Some program is between two system calls on the files.
AtFiles == (\E p \in Pids : stage[p] \in Claiming) \/ (\E l \in Lookers : looker[l] = "removing")

----------------------------------------------------------------------------
(* claimGatewayPid: the lock.                                              *)

Launch(p) ==
  /\ stage[p] = "off" /\ starts < MaxStarts
  /\ starts' = starts + 1
  /\ overlapped' = (overlapped \/ AtFiles)
  /\ Goto(p, "lock")
  /\ UNCHANGED <<pidFile, lockFile, looker, crashes>>

\* open(lockPath, "wx")
Lock(p) ==
  /\ stage[p] = "lock"
  /\ IF lockFile = NoFile THEN lockFile' = FileOf(p, Nothing) /\ Goto(p, "write lock")
                          ELSE UNCHANGED lockFile /\ Goto(p, "read lock")
  /\ UNCHANGED <<pidFile, looker, counts>>

\* Whose lock is it?  Only a dead process's is broken.
ReadLock(p) ==
  /\ stage[p] = "read lock"
  /\ Goto(p, IF lockFile.text \in Pids /\ ~ IsAlive(lockFile.text) THEN "break lock" ELSE "fail")
  /\ UNCHANGED <<pidFile, lockFile, looker, counts>>

BreakLock(p) ==
  /\ stage[p] = "break lock"
  /\ lockFile' = NoFile
  /\ Goto(p, "relock")
  /\ UNCHANGED <<pidFile, looker, counts>>

Relock(p) ==
  /\ stage[p] = "relock"
  /\ IF lockFile = NoFile THEN lockFile' = FileOf(p, Nothing) /\ Goto(p, "write lock")
                          ELSE UNCHANGED lockFile /\ Goto(p, "fail")
  /\ UNCHANGED <<pidFile, looker, counts>>

WriteLock(p) ==
  /\ stage[p] = "write lock"
  /\ lockFile' = IF lockFile.by = p THEN FileOf(p, p) ELSE lockFile
  /\ Goto(p, "read")
  /\ UNCHANGED <<pidFile, looker, counts>>

----------------------------------------------------------------------------
(* claimGatewayPid: the pid file.                                          *)

ReadPid(p) ==
  /\ stage[p] = "read"
  /\ Goto(p, IF pidFile.text \notin Pids THEN "create"
             ELSE IF LiveGateway(pidFile.text) THEN "fail" ELSE "remove")
  /\ UNCHANGED <<pidFile, lockFile, looker, counts>>

RemovePid(p) ==
  /\ stage[p] = "remove"
  /\ pidFile' = NoFile
  /\ Goto(p, "create")
  /\ UNCHANGED <<lockFile, looker, counts>>

\* mutant: an existing file is overwritten
CreateAnyway(p) ==
  /\ stage[p] = "create"
  /\ pidFile' = FileOf(p, Nothing) /\ Goto(p, "write")
  /\ UNCHANGED <<lockFile, looker, counts>>

\* open(path, "wx")
CreatePid(p) ==
  /\ stage[p] = "create"
  /\ IF pidFile = NoFile THEN pidFile' = FileOf(p, Nothing) /\ Goto(p, "write")
                         ELSE UNCHANGED pidFile /\ Goto(p, "fail")
  /\ UNCHANGED <<lockFile, looker, counts>>

\* mutant: whatever file is at the path is written
WritePath(p) ==
  /\ stage[p] = "write"
  /\ pidFile' = FileOf(pidFile.by, p)
  /\ Goto(p, "unlock")
  /\ UNCHANGED <<lockFile, looker, counts>>

WritePid(p) ==
  /\ stage[p] = "write"
  /\ pidFile' = IF pidFile.by = p THEN FileOf(p, p) ELSE pidFile
  /\ Goto(p, "unlock")
  /\ UNCHANGED <<lockFile, looker, counts>>

\* finally: the lock file goes, whoever made it; a failed claim ends the process.
Unlock(p) ==
  /\ stage[p] \in {"unlock", "fail"}
  /\ lockFile' = NoFile
  /\ Goto(p, IF stage[p] = "fail" THEN "exiting" ELSE "running")
  /\ UNCHANGED <<pidFile, looker, counts>>

----------------------------------------------------------------------------
(* The end of a gateway.                                                   *)

ReleaseUnread(p) ==  \* mutant: the file is not read first
  /\ stage[p] = "running"
  /\ Goto(p, "releasing")
  /\ UNCHANGED <<pidFile, lockFile, looker, counts>>

\* releaseGatewayPid: the file is removed when it names this process.
Release(p) ==
  /\ stage[p] = "running"
  /\ Goto(p, IF pidFile.text = p THEN "releasing" ELSE "exiting")
  /\ UNCHANGED <<pidFile, lockFile, looker, counts>>

RemoveClaim(p) ==
  /\ stage[p] = "releasing"
  /\ pidFile' = NoFile
  /\ Goto(p, "exiting")
  /\ UNCHANGED <<lockFile, looker, counts>>

Exit(p) ==
  /\ stage[p] = "exiting"
  /\ Goto(p, "off")
  /\ UNCHANGED <<pidFile, lockFile, looker, counts>>

Crash(p) ==
  /\ stage[p] \in Claiming \cup Running /\ crashes < MaxCrashes
  /\ crashes' = crashes + 1
  /\ Goto(p, "off")
  /\ UNCHANGED <<pidFile, lockFile, looker, starts, overlapped>>

\* Another program gets the pid, and ends.
Reuse(p) ==
  /\ stage[p] \in {"off", "other"}
  /\ Goto(p, IF stage[p] = "off" THEN "other" ELSE "off")
  /\ UNCHANGED <<pidFile, lockFile, looker, counts>>

----------------------------------------------------------------------------
(* findRunningGatewayPid, in status, restart and update commands.          *)

Look(l) ==
  /\ looker[l] = "idle"
  /\ pidFile.text \in Pids /\ ~ LiveGateway(pidFile.text)
  /\ looker' = [looker EXCEPT ![l] = "removing"]
  /\ overlapped' = (overlapped \/ AtFiles)
  /\ UNCHANGED <<pidFile, lockFile, stage, starts, crashes>>

CleanUp(l) ==
  /\ looker[l] = "removing"
  /\ pidFile' = NoFile
  /\ looker' = [looker EXCEPT ![l] = "idle"]
  /\ UNCHANGED <<lockFile, stage, counts>>

Claim(p) ==
  \/ Lock(p) \/ ReadLock(p) \/ BreakLock(p) \/ Relock(p) \/ WriteLock(p)
  \/ ReadPid(p) \/ RemovePid(p) \/ CreatePid(p) \/ WritePid(p) \/ Unlock(p)

Next ==
  \/ \E p \in Pids : Launch(p) \/ Claim(p) \/ Release(p) \/ RemoveClaim(p) \/ Exit(p)
                     \/ Crash(p) \/ Reuse(p)
  \/ \E l \in Lookers : Look(l) \/ CleanUp(l)

Spec == Init /\ [][Next]_vars

----------------------------------------------------------------------------
(* What the claim promises.                                                *)

\* A file says nothing or names its creator.
TypeOK ==
  /\ pidFile = NoFile \/ \E p \in Pids : pidFile \in {FileOf(p, Nothing), FileOf(p, p)}
  /\ lockFile = NoFile \/ \E p \in Pids : lockFile \in {FileOf(p, Nothing), FileOf(p, p)}
  /\ stage \in [Pids -> Stages]
  /\ looker \in [Lookers -> {"idle", "removing"}]
  /\ starts \in 0..MaxStarts /\ crashes \in 0..MaxCrashes

\* Nothing is stale before the first crash; and a claim that nobody meets at the
\* files is alone with what it finds there.
Undisturbed == crashes = 0 \/ ~ overlapped

\* A gateway that runs is the one the pid file names, until it has released the
\* claim: so one gateway runs at most, and it removes no claim but its own.
\* Overlapping starts that break each other's lock are held apart by the
\* exclusive creation alone, as long as no claim is stale; stale claims are
\* reclaimed rightly, as long as no starts overlap.
RunsClaimed ==
  Undisturbed => \A p \in Pids : stage[p] \in Running => pidFile = FileOf(p, p)

\* The pid file is the claim of a gateway that runs.
Claimed == \E p \in Pids : pidFile.text = p /\ stage[p] \in Running

Reclaims == \E p \in Pids : stage[p] = "remove"
CleansUp == \E l \in Lookers : looker[l] = "removing"

\* Under the same condition neither a start nor a command is about to remove the
\* claim of a gateway that runs (claimGatewayPid, findRunningGatewayPid).
RemovesOnlyStale == Undisturbed /\ (Reclaims \/ CleansUp) => ~ Claimed

\* What claimGatewayPid and findRunningGatewayPid promise of the pid file.
ClaimStands == TypeOK /\ RunsClaimed /\ RemovesOnlyStale

\* gateway/pid-file.ts:75: "Atomically claim the PID path, reclaiming only a
\* confirmed stale owner."  When starts overlap, the file about to be removed may
\* be the claim of a gateway that runs.
ReclaimsOnlyStale == Reclaims => ~ Claimed
=============================================================================
