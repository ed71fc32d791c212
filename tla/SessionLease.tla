---------------------------- MODULE SessionLease ----------------------------
(***************************************************************************)
(* One durable session: its owner record, its transcripts and the          *)
(* processes that open, reset and restore it (sessions/ownership.ts,       *)
(* sessions/open.ts, sessions/transcript-store.ts, sessions/control.ts,    *)
(* sessions/pool.ts).                                                      *)
(*                                                                         *)
(* A transaction under the file lock is one step: its writes are atomic    *)
(* renames and unlinks, every writer of the record takes the lock, and a   *)
(* lock left by a crash is stale (10 s) before a waiter gives up (15 s).   *)
(* A process is its pid; a pid is used again after its process died.       *)
(***************************************************************************)
EXTENDS Naturals, Sequences, FiniteSets

CONSTANTS
  Processes,   \* pids
  Program,     \* Program[p]: gateway, run, tui or command (sessions new, restore)
  Work,        \* what channel messages ask of the gateway's lane: turn, reset, restore
  MaxFiles,    \* bound: transcripts
  MaxTokens,   \* bound: leases handed out
  MaxWork,     \* bound: operations waiting in the gateway's lane
  MaxCrashes   \* bound: crashes

Programs == {"gateway", "run", "tui", "command"}
ASSUME ProgramAssumption == Program \in [Processes -> Programs]
\* A workspace has one gateway (GatewayPid).
ASSUME OneGatewayAssumption ==
  \A p, q \in Processes : Program[p] = "gateway" /\ Program[q] = "gateway" => p = q
ASSUME WorkAssumption == Work \subseteq {"turn", "reset", "restore"}
ASSUME BoundsAssumption ==
  MaxFiles \in Nat /\ MaxTokens \in Nat /\ MaxWork \in Nat /\ MaxCrashes \in Nat

NoRecord == [pid |-> 0, token |-> 0]
Files == 1..MaxFiles

VARIABLES
  \* durable
  record,      \* the owner record: [pid, token], or NoRecord
  files,       \* files[f]: absent, active, archived (its last lifecycle entry)
  lane,        \* the gateway's lane for this session: <<[op, from]>>
  \* each process
  stage,       \* off, idle and the steps of its program
  lease,       \* the token of the lease it holds on to, or 0
  transcript,  \* the transcript its session works on, or 0
  action,      \* what it does to the transcripts: none, reset, restore
  source,      \* the archive it restores, or 0
  previous,    \* command: the active transcript when it sent its request, or 0
  outcome,     \* command: none, waiting, answered, applied, unconfirmed, failed
  archived,    \* command: the archive that the gateway's answer names, or 0
  \* history
  released,    \* released[p]: p has given its lease back
  unleased,    \* a transcript was opened or moved by a program without the lease
  issued, crashes

process == <<stage, lease, transcript, action, source, previous, outcome, archived, released>>
history == <<unleased, crashes>>
vars == <<record, files, lane, process, issued, history>>

Alive(p) == p \in Processes /\ stage[p] # "off"     \* process.kill(pid, 0)
Active == {f \in Files : files[f] = "active"}
Archives == {f \in Files : files[f] = "archived"}
Goto(p, s) == stage' = [stage EXCEPT ![p] = s]
SomeActive == IF Active = {} THEN {0} ELSE Active    \* the newest of them

Init ==
  /\ record = NoRecord
  /\ files \in [Files -> {"absent", "active", "archived"}]
  /\ Cardinality(Active) <= 1
  /\ \A f, g \in Files : f < g /\ files[f] = "absent" => files[g] = "absent"
  /\ lane = <<>>
  /\ stage = [p \in Processes |-> "idle"]
  /\ lease = [p \in Processes |-> 0]
  /\ transcript = [p \in Processes |-> 0]
  /\ action = [p \in Processes |-> "none"]
  /\ source = [p \in Processes |-> 0]
  /\ previous = [p \in Processes |-> 0]
  /\ outcome = [p \in Processes |-> "none"]
  /\ archived = [p \in Processes |-> 0]
  /\ released = [p \in Processes |-> TRUE]
  /\ issued = 0
  /\ unleased = FALSE
  /\ crashes = 0

----------------------------------------------------------------------------
(* The owner record.                                                       *)

Owned == record # NoRecord /\ Alive(record.pid)

AcquireAnyway(p, s) ==  \* mutant: a live owner is not respected
  /\ issued < MaxTokens
  /\ record' = [pid |-> p, token |-> issued + 1]
  /\ lease' = [lease EXCEPT ![p] = issued + 1]
  /\ released' = [released EXCEPT ![p] = FALSE]
  /\ issued' = issued + 1
  /\ Goto(p, s)

\* acquireLease: refused while the recorded process lives.
Acquire(p, s) ==
  /\ issued < MaxTokens
  /\ ~ Owned
  /\ record' = [pid |-> p, token |-> issued + 1]
  /\ lease' = [lease EXCEPT ![p] = issued + 1]
  /\ released' = [released EXCEPT ![p] = FALSE]
  /\ issued' = issued + 1
  /\ Goto(p, s)

\* mutant: the token is not compared
ReleaseAnyToken(p) == record' = NoRecord
\* releaseLease: the record is removed only while it holds this token.
Release(p) == record' = IF record.token = lease[p] THEN NoRecord ELSE record

\* mutant: the record is not read again under the lock
ReclaimUnchecked == record' = NoRecord
\* readSessionOwner: what it read without the lock is checked again with it.
Reclaim == record' = IF Owned THEN record ELSE NoRecord

----------------------------------------------------------------------------
(* Opening and closing a session.                                          *)

Opens(p) == \/ Program[p] = "run"
            \/ Program[p] = "gateway" /\ lane # <<>> /\ Head(lane).op = "turn"

\* openSessionWithRuntimeDeps takes the lease first ...
OpenBegin(p) ==
  /\ stage[p] = "idle" /\ Opens(p)
  /\ Acquire(p, "leased")
  /\ UNCHANGED <<files, lane, transcript, action, source, previous, outcome, archived, history>>

\* The gateway's turn fails while another process owns the session.
OpenRefused(p) ==
  /\ Program[p] = "gateway" /\ stage[p] = "idle" /\ Opens(p) /\ Owned
  /\ lane' = Tail(lane)
  /\ UNCHANGED <<record, files, process, issued, history>>

\* ... then the active transcript, or a new one, is opened.
Load(p) ==
  \E f \in SomeActive :
    IF f # 0
      THEN /\ transcript' = [transcript EXCEPT ![p] = f]
           /\ UNCHANGED files
      ELSE \E g \in Files :
             /\ files[g] = "absent" /\ \A h \in 1..(g - 1) : files[h] # "absent"
             /\ files' = [files EXCEPT ![g] = "active"]
             /\ transcript' = [transcript EXCEPT ![p] = g]

LoadLeased(p) ==
  /\ stage[p] = "leased"
  /\ Load(p)
  /\ Goto(p, "open")
  /\ UNCHANGED <<record, lane, lease, action, source, previous, outcome, archived, released,
                 issued, history>>

\* openSessionRuntime: the terminal looks for the active transcript first ...
LoadUnleased(p) ==
  /\ Program[p] = "tui" /\ stage[p] = "idle" /\ issued < MaxTokens
  /\ Load(p)
  /\ Goto(p, "loaded")
  /\ unleased' = TRUE
  /\ UNCHANGED <<record, lane, lease, action, source, previous, outcome, archived, released,
                 issued, crashes>>

\* ... and takes the lease afterwards, or gives up.
LeaseLoaded(p) ==
  /\ stage[p] = "loaded"
  /\ \/ Acquire(p, "open") /\ UNCHANGED transcript
     \/ /\ Owned /\ Goto(p, "idle")
        /\ transcript' = [transcript EXCEPT ![p] = 0]
        /\ UNCHANGED <<record, lease, released, issued>>
  /\ UNCHANGED <<files, lane, action, source, previous, outcome, archived, history>>

Unqueued(p) == IF Program[p] = "gateway" /\ lane # <<>> THEN Tail(lane) ELSE lane

ShutdownKeeping(p) ==  \* mutant: the session is not forgotten
  /\ stage[p] \in {"leased", "open"}
  /\ Unqueued(p) # lane => Head(lane).op = "turn"
  /\ Release(p)
  /\ released' = [released EXCEPT ![p] = TRUE]
  /\ lane' = Unqueued(p)
  /\ Goto(p, "closing")
  /\ UNCHANGED <<files, lease, transcript, action, source, previous, outcome, archived, issued,
                 history>>

\* A failed open, a session_shutdown event, an aborted turn: the lease goes
\* back, and with disposeSession once more.
Shutdown(p) ==
  /\ stage[p] \in {"leased", "open"}
  /\ Unqueued(p) # lane => Head(lane).op = "turn"
  /\ Release(p)
  /\ released' = [released EXCEPT ![p] = TRUE]
  /\ transcript' = [transcript EXCEPT ![p] = 0]
  /\ lane' = Unqueued(p)
  /\ Goto(p, "closing")
  /\ UNCHANGED <<files, lease, action, source, previous, outcome, archived, issued, history>>

Dispose(p) ==
  /\ stage[p] = "closing"
  /\ Release(p)
  /\ released' = [released EXCEPT ![p] = TRUE]
  /\ lease' = [lease EXCEPT ![p] = 0]
  /\ Goto(p, "idle")
  /\ UNCHANGED <<files, lane, transcript, action, source, previous, outcome, archived, issued,
                 history>>

----------------------------------------------------------------------------
(* Moving transcripts: archiveActiveSession and restoreArchivedSession.    *)

\* restore names an archive first; a reset, or a restore, archives the active
\* transcript; a restore then marks the archive active.
ArchiveActive(p, next) ==
  /\ \E f \in SomeActive :
       /\ files' = IF f = 0 THEN files ELSE [files EXCEPT ![f] = "archived"]
       /\ archived' = [archived EXCEPT ![p] = f]
  /\ IF action[p] = "restore" THEN Archives # {} /\ source' \in {[source EXCEPT ![p] = f] : f \in Archives}
                              ELSE UNCHANGED source
  /\ Goto(p, IF action[p] = "restore" THEN "marking" ELSE next)

MarkActive(p, next) ==
  /\ files' = [files EXCEPT ![source[p]] = "active"]
  /\ archived' = [archived EXCEPT ![p] = source[p]]
  /\ Goto(p, next)

----------------------------------------------------------------------------
(* The gateway's lane.                                                     *)

Ask(op) ==
  /\ op \in Work /\ Len(lane) < MaxWork
  /\ lane' = Append(lane, [op |-> op, from |-> 0])
  /\ UNCHANGED <<record, files, process, issued, history>>

\* A turn ends; its session stays open.
TurnEnds(p) ==
  /\ Program[p] = "gateway" /\ stage[p] = "open" /\ lane # <<>> /\ Head(lane).op = "turn"
  /\ lane' = Tail(lane)
  /\ UNCHANGED <<record, files, process, issued, history>>

\* SessionPool.reset, restore: the session is dropped, its lease given back, ...
DropForChange(p) ==
  /\ Program[p] = "gateway" /\ stage[p] \in {"idle", "open"}
  /\ lane # <<>> /\ Head(lane).op # "turn"
  /\ IF stage[p] = "open" THEN Release(p) ELSE UNCHANGED record
  /\ released' = [released EXCEPT ![p] = TRUE]
  /\ lease' = [lease EXCEPT ![p] = 0]
  /\ transcript' = [transcript EXCEPT ![p] = 0]
  /\ action' = [action EXCEPT ![p] = Head(lane).op]
  /\ Goto(p, "changing")
  /\ unleased' = TRUE
  /\ UNCHANGED <<files, lane, source, previous, outcome, archived, issued, crashes>>

\* ... and only then are the transcripts changed.
GatewayArchives(p) ==
  /\ Program[p] = "gateway" /\ stage[p] = "changing"
  /\ ArchiveActive(p, "changed")
  /\ UNCHANGED <<record, lane, lease, transcript, action, previous, outcome, released, issued,
                 history>>

GatewayMarks(p) ==
  /\ Program[p] = "gateway" /\ stage[p] = "marking"
  /\ MarkActive(p, "changed")
  /\ UNCHANGED <<record, lane, lease, transcript, action, source, previous, outcome, released,
                 issued, history>>

NothingToRestore(p) == action[p] = "restore" /\ stage[p] = "changing" /\ Archives = {}

\* The outcome is published to the command that waits for it.
GatewayAnswers(p) ==
  /\ Program[p] = "gateway" /\ (stage[p] = "changed" \/ NothingToRestore(p))
  /\ LET q == Head(lane).from IN
       IF q \in Processes /\ outcome[q] = "waiting"
         THEN /\ outcome' = [outcome EXCEPT ![q] = IF stage[p] = "changed" THEN "answered" ELSE "failed"]
              /\ archived' = [archived EXCEPT ![q] = archived[p], ![p] = 0]
         ELSE UNCHANGED outcome /\ archived' = [archived EXCEPT ![p] = 0]
  /\ lane' = Tail(lane)
  /\ action' = [action EXCEPT ![p] = "none"]
  /\ source' = [source EXCEPT ![p] = 0]
  /\ Goto(p, "idle")
  /\ UNCHANGED <<record, files, lease, transcript, previous, released, issued, history>>

----------------------------------------------------------------------------
(* sessions new, clear, restore: executeSessionLifecycleAction.            *)

\* What follows from the record; only a gateway can be asked.
Verdict == IF record = NoRecord THEN "unowned"
           ELSE IF ~ Owned THEN "stale"
           ELSE IF Program[record.pid] = "gateway" THEN "gateway-owned" ELSE "owned"

\* readSessionOwner without the lock: no record, a live owner, a dead one.
LookUp(p, op) ==
  /\ Program[p] = "command" /\ stage[p] = "idle" /\ outcome[p] = "none"
  /\ action' = [action EXCEPT ![p] = op]
  /\ Goto(p, Verdict)
  /\ UNCHANGED <<record, files, lane, lease, transcript, source, previous, outcome, archived,
                 released, issued, history>>

RecheckOwner(p) ==
  /\ stage[p] = "stale"
  /\ Reclaim
  /\ Goto(p, IF Owned THEN Verdict ELSE "unowned")
  /\ UNCHANGED <<files, lane, lease, transcript, action, source, previous, outcome, archived,
                 released, issued, history>>

\* A gateway is sent a control, whether it still is the owner or not; any
\* other owner is left alone.
SendControl(p) ==
  /\ stage[p] = "gateway-owned" /\ Len(lane) < MaxWork
  /\ lane' = Append(lane, [op |-> action[p], from |-> p])
  /\ previous' \in {[previous EXCEPT ![p] = f] : f \in SomeActive}
  /\ outcome' = [outcome EXCEPT ![p] = "waiting"]
  /\ Goto(p, "waiting")
  /\ UNCHANGED <<record, files, lease, transcript, action, source, archived, released, issued,
                 history>>

Refused(p) ==
  /\ \/ stage[p] = "owned"
     \/ stage[p] = "unowned" /\ Owned     \* somebody came first
     \/ stage[p] = "changing" /\ Program[p] = "command" /\ Archives = {} /\ action[p] = "restore"
  /\ outcome' = [outcome EXCEPT ![p] = "failed"]
  /\ IF stage[p] = "changing" THEN Release(p) ELSE UNCHANGED record
  /\ released' = [released EXCEPT ![p] = TRUE]
  /\ lease' = [lease EXCEPT ![p] = 0]
  /\ Goto(p, "idle")
  /\ UNCHANGED <<files, lane, transcript, action, source, previous, archived, issued, history>>

\* 30 s go by without an answer.
GiveUp(p) ==
  /\ stage[p] = "waiting" /\ outcome[p] = "waiting"
  /\ outcome' = [outcome EXCEPT ![p] = "unconfirmed"]
  /\ Goto(p, "idle")
  /\ UNCHANGED <<record, files, lane, lease, transcript, action, source, previous, archived,
                 released, issued, history>>

\* verifyLifecycle, on disk.
Verified(p) ==
  IF action[p] = "reset"
    THEN /\ previous[p] # 0 => archived[p] # 0
         /\ archived[p] # 0 => archived[p] \in Archives
         /\ Active = {}
    ELSE archived[p] \in Active

Verify(p) ==
  /\ stage[p] = "waiting" /\ outcome[p] = "answered"
  /\ outcome' = [outcome EXCEPT ![p] = IF Verified(p) THEN "applied" ELSE "unconfirmed"]
  /\ Goto(p, "idle")
  /\ UNCHANGED <<record, files, lane, lease, transcript, action, source, previous, archived,
                 released, issued, history>>

\* Unowned: under a maintenance lease, directly.
Maintain(p) ==
  /\ stage[p] = "unowned"
  /\ Acquire(p, "changing")
  /\ UNCHANGED <<files, lane, transcript, action, source, previous, outcome, archived, history>>

CommandArchives(p) ==
  /\ Program[p] = "command" /\ stage[p] = "changing"
  /\ ArchiveActive(p, "done")
  /\ UNCHANGED <<record, lane, lease, transcript, action, previous, outcome, released, issued,
                 history>>

CommandMarks(p) ==
  /\ Program[p] = "command" /\ stage[p] = "marking"
  /\ MarkActive(p, "done")
  /\ UNCHANGED <<record, lane, lease, transcript, action, source, previous, outcome, released,
                 issued, history>>

Maintained(p) ==
  /\ stage[p] = "done"
  /\ Release(p)
  /\ released' = [released EXCEPT ![p] = TRUE]
  /\ lease' = [lease EXCEPT ![p] = 0]
  /\ outcome' = [outcome EXCEPT ![p] = "applied_direct"]
  /\ Goto(p, "idle")
  /\ UNCHANGED <<files, lane, transcript, action, source, previous, archived, issued, history>>

----------------------------------------------------------------------------
Forget(p) ==
  /\ lease' = [lease EXCEPT ![p] = 0]
  /\ transcript' = [transcript EXCEPT ![p] = 0]
  /\ action' = [action EXCEPT ![p] = "none"]
  /\ source' = [source EXCEPT ![p] = 0]
  /\ previous' = [previous EXCEPT ![p] = 0]
  /\ outcome' = [outcome EXCEPT ![p] = "none"]
  /\ archived' = [archived EXCEPT ![p] = 0]
  /\ released' = [released EXCEPT ![p] = TRUE]

\* The process dies; its record stays.  Its lane is replayed from the log.
Crash(p) ==
  /\ Alive(p) /\ crashes < MaxCrashes
  /\ Forget(p)
  /\ Goto(p, "off")
  /\ crashes' = crashes + 1
  /\ UNCHANGED <<record, files, lane, issued, unleased>>

\* The program is started again and happens to get the same pid.
Restart(p) ==
  /\ stage[p] = "off"
  /\ Goto(p, "idle")
  /\ UNCHANGED <<record, files, lane, lease, transcript, action, source, previous, outcome,
                 archived, released, issued, history>>

Session(p) == OpenBegin(p) \/ OpenRefused(p) \/ LoadLeased(p) \/ LoadUnleased(p) \/ LeaseLoaded(p) 
              \/ Shutdown(p) \/ Dispose(p)
GatewayStep(p) == TurnEnds(p) \/ DropForChange(p) \/ GatewayArchives(p) \/ GatewayMarks(p)
                  \/ GatewayAnswers(p)
Command(p) ==
  \/ \E op \in {"reset", "restore"} : LookUp(p, op)
  \/ RecheckOwner(p) \/ SendControl(p) \/ Refused(p) \/ GiveUp(p) \/ Verify(p)
  \/ Maintain(p) \/ CommandArchives(p) \/ CommandMarks(p) \/ Maintained(p)

Next ==
  \/ \E op \in Work : Ask(op)
  \/ \E p \in Processes : Session(p) \/ GatewayStep(p) \/ Command(p) \/ Crash(p) \/ Restart(p)

Spec == Init /\ [][Next]_vars
----------------------------------------------------------------------------
(* What ownership promises.                                                *)

Stages == {"off", "idle", "leased", "loaded", "open", "closing", "changing", "marking", "changed",
           "done", "unowned", "stale", "gateway-owned", "owned", "waiting"}

TypeOK ==
  /\ record \in [pid : Processes \cup {0}, token : 0..MaxTokens]
  /\ files \in [Files -> {"absent", "active", "archived"}]
  /\ lane \in Seq([op : {"turn", "reset", "restore"}, from : Processes \cup {0}])
  /\ stage \in [Processes -> Stages]
  /\ lease \in [Processes -> 0..MaxTokens]
  /\ transcript \in [Processes -> Files \cup {0}]
  /\ \A p \in Processes : transcript[p] # 0 => stage[p] \in {"loaded", "open"}
  /\ action \in [Processes -> {"none", "reset", "restore"}]
  /\ source \in [Processes -> Files \cup {0}]
  /\ previous \in [Processes -> Files \cup {0}]
  /\ outcome \in [Processes -> {"none", "waiting", "answered", "applied", "applied_direct",
                                "unconfirmed", "failed"}]
  /\ archived \in [Processes -> Files \cup {0}]
  /\ released \in [Processes -> BOOLEAN]
  /\ unleased \in BOOLEAN
  /\ issued \in 0..MaxTokens /\ crashes \in 0..MaxCrashes

Holds(p) == lease[p] # 0 /\ ~ released[p]

\* Whoever holds a lease is the owner on record, under its own token: no second
\* release, no reclaiming of a dead owner's record and no acquisition ever takes
\* the record away from it.  So there is one holder at most (acquireLease,
\* releaseLease, readSessionOwner).
HolderOnRecord ==
  \A p \in Processes : Holds(p) => record.pid = p /\ record.token = lease[p]

\* As long as every program works under the lease, at most one transcript is
\* active, through every opening, reset and restore and through crashes between
\* the two marks of a restore.
SoleActive == ~ unleased => Cardinality(Active) <= 1

\* As long as every program works under the lease, an open session writes to the
\* active transcript: nobody archived it or made another one active meanwhile.
UsedActive ==
  ~ unleased => \A p \in Processes : stage[p] = "open" => files[transcript[p]] = "active"

\* The variables have their types, and under the lease at most one transcript is
\* active and every open session writes to it.
OwnershipHolds == TypeOK /\ SoleActive /\ UsedActive

\* docs/reference/sessions.md:53: "That record acts as a lock: foreground, gateway,
\* and maintenance processes cannot open or change the same transcript
\* concurrently."  A reset or restore in the gateway changes transcripts with the
\* lease given back, and the terminal opens one before it has the lease.
AloneOnTranscript ==
  \A p, q \in Processes :
    p # q /\ stage[p] \in {"changing", "marking", "loaded"}
      => stage[q] \notin {"open", "changing", "marking"}
=============================================================================
