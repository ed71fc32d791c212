------------------------------ MODULE Workers ------------------------------
(***************************************************************************)
(* One coding worker: its record in state/workers.json, the commands that  *)
(* start, amend, cancel, close and follow it, and the detached supervisor  *)
(* process of each turn (workers/lifecycle.ts, workers/store.ts,           *)
(* workers/supervisor.ts, workers/runner.ts).                              *)
(*                                                                         *)
(* A transaction under the file lock is one step; what a program does with *)
(* a record after its transaction is a later one.  SupervisorPids are not used twice.*)
(***************************************************************************)
EXTENDS Naturals, Sequences, FiniteSets

CONSTANTS
  Commands,    \* concurrent command processes
  MaxTurns,    \* bound: turns of the worker
  MaxLaunches, \* bound: supervisors started
  MayCrash,    \* who crashes: command, supervisor
  MaxCrashes   \* bound: crashes

SupervisorPids == 1..MaxLaunches
Actors == Commands \cup SupervisorPids

CommandsAssumption == Commands \cap Nat = {}
CrashAssumption == MayCrash \subseteq {"command", "supervisor"}
BoundsAssumption == MaxTurns \in Nat /\ MaxLaunches \in Nat /\ MaxCrashes \in Nat

Results == {"complete", "blocked", "failed", "cancelled"}   \* of a supervisor
Turn(s, p) == [status |-> s, pid |-> p]                     \* pid 0: none recorded
NoWorker == [status |-> "none", turns |-> <<>>]

VARIABLES
  worker,     \* the record: [status, turns]
  doing,      \* doing[a]: the command of a program; a supervisor's is supervise
  stage,      \* stage[a]: where it is
  seen,       \* seen[a]: the record it last read
  turnOf,     \* turnOf[p]: the turn supervisor p was launched for; turnOf[c]: 0
  child,      \* child[p]: does the backend process of supervisor p run?
  result,     \* result[p]: what its run returned, until that is recorded
  launched,   \* launched[c]: the pid that the command has to record, or 0
  reported,   \* history: turns whose supervisor's result was accepted
  pids, crashes

programs == <<doing, stage, seen, turnOf, child, result, launched>>
vars == <<worker, programs, reported, pids, crashes>>

Init ==
  /\ worker = NoWorker
  /\ doing = [a \in Actors |-> IF a \in SupervisorPids THEN "supervise" ELSE "none"]
  /\ stage = [a \in Actors |-> "off"]
  /\ seen = [a \in Actors |-> NoWorker]
  /\ turnOf = [a \in Actors |-> 0]
  /\ child = [p \in SupervisorPids |-> FALSE]
  /\ result = [p \in SupervisorPids |-> "failed"]
  /\ launched = [a \in Actors |-> 0]
  /\ reported = {}
  /\ pids = 0
  /\ crashes = 0

----------------------------------------------------------------------------
(* Records.                                                                *)

RunningTurns(w) == {i \in 1..Len(w.turns) : w.turns[i].status = "running"}
Last(S) == CHOOSE i \in S : \A j \in S : j <= i
\* The pid that reconcileWorker looks at: the last running turn's, or 0.
WatchedPid(w) ==
  IF w.status = "running" /\ RunningTurns(w) # {} THEN w.turns[Last(RunningTurns(w))].pid ELSE 0
\* The pid that cancel and close terminate: that of the last running turn that has one.
StoppedPid(w) ==
  LET S == {i \in RunningTurns(w) : w.turns[i].pid # 0}
  IN  IF S = {} THEN 0 ELSE w.turns[Last(S)].pid

FinalizeOnlyTurn(w, t, s) == [w EXCEPT !.turns[t].status = s]    \* mutant: keeps the status
FinalizeTurn(w, t, s) == [status |-> s, turns |-> [w.turns EXCEPT ![t].status = s]]
OpenUnlessRunning(w) == w.status \notin {"running", "none"}      \* mutant: not closed
OpenForAmendment(w) == w.status \notin {"running", "cancelled", "closed", "none"}

NeverDead(p) == TRUE                          \* mutant
AliveProcess(p) == stage[p] # "off"           \* kill(pid, 0); a pid in a record was launched

----------------------------------------------------------------------------
(* readWorkerRecord: reading, and reconciling a turn whose supervisor died.*)

After == [start |-> "launch", amend |-> "launch", cancel |-> "stop", close |-> "stop",
          wait |-> "look", supervise |-> "run"]

\* What a supervisor takes from the record never changes; a command keeps it all.
Keep(a, w) == seen' = [seen EXCEPT ![a] = IF a \in SupervisorPids THEN NoWorker ELSE w]

Read(a) ==
  /\ stage[a] = "read"
  /\ IF WatchedPid(worker) = 0 THEN Keep(a, worker) ELSE seen' = [seen EXCEPT ![a] = worker]
  /\ stage' = [stage EXCEPT ![a] = IF WatchedPid(worker) = 0 THEN After[doing[a]] ELSE "check"]
  /\ UNCHANGED <<worker, doing, turnOf, child, result, launched, reported, pids, crashes>>

FindAlive(a) ==
  /\ stage[a] = "check" /\ AliveProcess(WatchedPid(seen[a]))
  /\ Keep(a, seen[a])
  /\ stage' = [stage EXCEPT ![a] = After[doing[a]]]
  /\ UNCHANGED <<worker, doing, turnOf, child, result, launched, reported, pids, crashes>>

LeaveGroup(p) == child' = child                                  \* mutant
\* terminateWorkerProcessGroup: what is left of the group.
Reap(p) == child' = [child EXCEPT ![p] = FALSE]
FindDead(a) ==
  /\ stage[a] = "check" /\ ~AliveProcess(WatchedPid(seen[a]))
  /\ Reap(WatchedPid(seen[a]))
  /\ stage' = [stage EXCEPT ![a] = "fail"]
  /\ UNCHANGED <<worker, doing, seen, turnOf, result, launched, reported, pids, crashes>>

FailTurn(a) ==
  /\ stage[a] = "fail"
  /\ worker' = FinalizeTurn(worker, Last(RunningTurns(seen[a])), "failed")
  /\ Keep(a, worker')
  /\ stage' = [stage EXCEPT ![a] = After[doing[a]]]
  /\ UNCHANGED <<doing, turnOf, child, result, launched, reported, pids, crashes>>

----------------------------------------------------------------------------
(* Commands.  The first transaction of start and amend is their first step;*)
(* the others begin by reading the record.                                 *)

Begin(c, command) ==
  /\ stage[c] = "off"
  /\ doing' = [doing EXCEPT ![c] = command]
  /\ stage' = [stage EXCEPT ![c] = "read"]
  /\ UNCHANGED <<seen, turnOf, child, result, launched, reported, pids, crashes>>

Done(c) ==
  /\ doing' = [doing EXCEPT ![c] = "none"]
  /\ stage' = [stage EXCEPT ![c] = "off"]
  /\ seen' = [seen EXCEPT ![c] = NoWorker]
  /\ launched' = [launched EXCEPT ![c] = 0]

StartWorker(c) ==
  /\ worker = NoWorker
  /\ worker' = [status |-> "running", turns |-> <<Turn("running", 0)>>]
  /\ Begin(c, "start")

AmendWorker(c) ==
  /\ OpenForAmendment(worker) /\ Len(worker.turns) < MaxTurns
  /\ worker' = [status |-> "running", turns |-> Append(worker.turns, Turn("running", 0))]
  /\ Begin(c, "amend")

Ask(c, command) ==
  /\ worker # NoWorker
  /\ Begin(c, command)
  /\ UNCHANGED worker

\* launchLatestTurn: the backend is not available.
Refuse(c) ==
  /\ stage[c] = "launch"
  /\ worker' = FinalizeTurn(worker, Len(seen[c].turns), "failed")
  /\ Done(c)
  /\ UNCHANGED <<turnOf, child, result, reported, pids, crashes>>

Launch(c) ==
  /\ stage[c] = "launch" /\ pids < MaxLaunches
  /\ pids' = pids + 1
  /\ turnOf' = [turnOf EXCEPT ![pids'] = Len(seen[c].turns)]
  /\ launched' = [launched EXCEPT ![c] = pids']
  /\ stage' = [stage EXCEPT ![pids'] = "read", ![c] = "record"]
  /\ UNCHANGED <<worker, doing, seen, child, result, reported, crashes>>

RecordFirst(c) ==    \* mutant: the pid goes to the first turn
  /\ stage[c] = "record"
  /\ worker' = [status |-> "running",
                turns |-> [worker.turns EXCEPT ![1] = Turn("running", launched[c])]]
  /\ Done(c)
  /\ UNCHANGED <<turnOf, child, result, reported, pids, crashes>>

RecordLaunch(c) ==
  /\ stage[c] = "record"
  /\ worker' = [status |-> "running",
                turns |-> [worker.turns EXCEPT ![Len(seen[c].turns)] = Turn("running", launched[c])]]
  /\ Done(c)
  /\ UNCHANGED <<turnOf, child, result, reported, pids, crashes>>

MarkOnly(c) ==    \* mutant: nothing is terminated
  /\ stage[c] = "stop"
  /\ stage' = [stage EXCEPT ![c] = "mark"]
  /\ UNCHANGED <<worker, doing, seen, turnOf, child, result, launched, reported, pids, crashes>>

\* cancelWorker and closeWorker: terminate the group, then mark the record.
Terminate(c) ==
  /\ stage[c] = "stop"
  /\ LET p == StoppedPid(seen[c])
     IN  IF p = 0
         THEN /\ stage' = [stage EXCEPT ![c] = "mark"]
              /\ UNCHANGED child
         ELSE /\ stage' = [stage EXCEPT ![p] = "off", ![c] = "mark"]
              /\ child' = [child EXCEPT ![p] = FALSE]
  /\ UNCHANGED <<worker, doing, seen, turnOf, result, launched, reported, pids, crashes>>

Stopped(w, s) ==
  [status |-> s,
   turns |-> [i \in DOMAIN w.turns |->
     IF w.turns[i].status = "running" THEN Turn("cancelled", w.turns[i].pid) ELSE w.turns[i]]]

Mark(c) ==
  /\ stage[c] = "mark"
  /\ worker' = Stopped(worker, IF doing[c] = "close" THEN "closed" ELSE "cancelled")
  /\ Done(c)
  /\ UNCHANGED <<turnOf, child, result, reported, pids, crashes>>

\* waitForWorker: the worker is not running, or another look.  The other
\* commands that read (list, read, status, tail, a wait that times out) give up
\* after one.
Answer(c) ==
  /\ stage[c] = "look" /\ seen[c].status # "running"
  /\ Done(c)
  /\ UNCHANGED <<worker, turnOf, child, result, reported, pids, crashes>>

LookAgain(c) ==
  /\ stage[c] = "look" /\ seen[c].status = "running"
  /\ stage' = [stage EXCEPT ![c] = "read"]
  /\ UNCHANGED <<worker, doing, seen, turnOf, child, result, launched, reported, pids, crashes>>

CommandCrashes(c) ==
  /\ "command" \in MayCrash /\ stage[c] # "off" /\ crashes < MaxCrashes
  /\ crashes' = crashes + 1
  /\ Done(c)
  /\ UNCHANGED <<worker, turnOf, child, result, reported, pids>>

----------------------------------------------------------------------------
(* The supervisor of a turn.                                               *)

\* runCodexTurn starts the backend in the supervisor's process group.
RunTurn(p) ==
  /\ stage[p] = "run"
  /\ child' = [child EXCEPT ![p] = TRUE]
  /\ stage' = [stage EXCEPT ![p] = "working"]
  /\ UNCHANGED <<worker, doing, seen, turnOf, result, launched, reported, pids, crashes>>

\* The backend closed, by itself or killed by the turn's timeout.
TurnEnds(p, r) ==
  /\ stage[p] = "working"
  /\ child' = [child EXCEPT ![p] = FALSE]
  /\ result' = [result EXCEPT ![p] = r]
  /\ stage' = [stage EXCEPT ![p] = "finalize"]
  /\ UNCHANGED <<worker, doing, seen, turnOf, launched, reported, pids, crashes>>

AcceptsAnyResult(p) == TRUE                    \* mutant: a late result counts
AcceptsResult(p) == worker.turns[turnOf[p]].status = "running"
FinalizeWorkerTurn(p) ==
  /\ stage[p] = "finalize"
  /\ IF AcceptsResult(p)
     THEN /\ worker' = FinalizeTurn(worker, turnOf[p], result[p])
          /\ reported' = reported \cup {turnOf[p]}
     ELSE UNCHANGED <<worker, reported>>
  /\ stage' = [stage EXCEPT ![p] = "exiting"]
  /\ result' = [result EXCEPT ![p] = "failed"]
  /\ UNCHANGED <<doing, seen, turnOf, child, launched, pids, crashes>>

Exit(p) ==
  /\ stage[p] = "exiting"
  /\ stage' = [stage EXCEPT ![p] = "off"]
  /\ UNCHANGED <<worker, doing, seen, turnOf, child, result, launched, reported, pids, crashes>>

\* It dies alone: the rest of its group runs on until it ends or is killed.
SupervisorCrashes(p) ==
  /\ "supervisor" \in MayCrash /\ stage[p] # "off" /\ crashes < MaxCrashes
  /\ crashes' = crashes + 1
  /\ stage' = [stage EXCEPT ![p] = "off"]
  /\ UNCHANGED <<worker, doing, seen, turnOf, child, result, launched, reported, pids>>

OrphanEnds(p) ==
  /\ child[p] /\ stage[p] = "off"
  /\ child' = [child EXCEPT ![p] = FALSE]
  /\ UNCHANGED <<worker, doing, stage, seen, turnOf, result, launched, reported, pids, crashes>>

----------------------------------------------------------------------------
ReadRecord(a) == Read(a) \/ FindAlive(a) \/ FindDead(a) \/ FailTurn(a)
Proceed(c) ==
  Refuse(c) \/ Launch(c) \/ RecordLaunch(c) \/ Terminate(c) \/ Mark(c) \/ Answer(c) \/ LookAgain(c)
Supervise(p) ==
  RunTurn(p) \/ (\E r \in Results : TurnEnds(p, r)) \/ FinalizeWorkerTurn(p) \/ Exit(p)

Next ==
  \/ \E a \in Actors : ReadRecord(a)
  \/ \E c \in Commands :
       \/ StartWorker(c) \/ AmendWorker(c)
       \/ \E command \in {"cancel", "close", "wait"} : Ask(c, command)
       \/ Proceed(c)
       \/ CommandCrashes(c)
  \/ \E p \in SupervisorPids : Supervise(p) \/ SupervisorCrashes(p) \/ OrphanEnds(p)

Spec == Init /\ [][Next]_vars

\* A program that runs goes on; a backend ends, by itself or by its timeout.
Fairness ==
  /\ \A a \in Actors : WF_vars(ReadRecord(a))
  /\ \A c \in Commands : WF_vars(Proceed(c))
  /\ \A p \in SupervisorPids : WF_vars(Supervise(p))
FairSpec == Spec /\ Fairness

----------------------------------------------------------------------------
(* Properties.                                                             *)

Records == [status : Results \cup {"none", "running", "closed"},
            turns : UNION {[1..n -> [status : Results \cup {"running"}, pid : 0..MaxLaunches]] :
                             n \in 0..MaxTurns}]
Stages == {"off", "read", "check", "fail", "launch", "record", "stop", "mark", "look", "run",
           "working", "finalize", "exiting"}

\* Every value has its type, and a pid in the record is of a supervisor that
\* was launched for that turn.
TypeOK ==
  /\ worker.status \in Results \cup {"none", "running", "closed"}
  /\ Len(worker.turns) <= MaxTurns
  /\ \A i \in DOMAIN worker.turns :
       /\ worker.turns[i].status \in Results \cup {"running"}
       /\ worker.turns[i].pid \in 0..pids
       /\ worker.turns[i].pid # 0 => turnOf[worker.turns[i].pid] = i
  /\ stage \in [Actors -> Stages]
  /\ DOMAIN doing = Actors /\ \A a \in Actors : doing[a] \in {"none"} \cup DOMAIN After
  /\ child \in [SupervisorPids -> BOOLEAN] /\ result \in [SupervisorPids -> Results]
  /\ pids \in 0..MaxLaunches /\ crashes \in 0..MaxCrashes

\* The worker is running exactly when a turn of it is, and only the last one
\* can be: what the list of workers shows is what the turns say.
StatusAgrees ==
  /\ worker.status = "running" <=> RunningTurns(worker) # {}
  /\ RunningTurns(worker) \subseteq {Len(worker.turns)}

AtWork(p) == child[p] \/ stage[p] = "working"

\* Once a worker is closed, no process that its record names is at work.
ClosedIsDown ==
  worker.status = "closed" =>
    \A i \in DOMAIN worker.turns : worker.turns[i].pid # 0 => ~AtWork(worker.turns[i].pid)

\* Two turns of one worker never work in its directory at the same time: an
\* amendment is launched only when what the turns before it started is gone.
OneAtWork == Cardinality({p \in SupervisorPids : AtWork(p)}) <= 1

\* Closing is final: neither a late result nor an amendment reopens a worker;
\* at most a cancel marks it once more.
ClosedStays == [][worker.status = "closed" => worker'.status \in {"closed", "cancelled"}]_vars

\* A turn fails as "exited without finalizing" only when its supervisor's result
\* has not been accepted: whoever finds the process dead does not overwrite it.
FailsUnfinalized ==
  [][\A t \in reported :
       worker'.turns[t].status = "failed" => worker.turns[t].status = "failed"]_vars

\* A command died between the transaction that began a turn and the one that
\* records its supervisor: nothing can tell whether that turn still runs.
Unrecorded ==
  /\ \E i \in RunningTurns(worker) : worker.turns[i].pid = 0
  /\ \A c \in Commands : stage[c] \notin {"launch", "record"}

\* A command that waits for the worker is answered: a turn ends, or whoever
\* looks at it finds its supervisor dead (unless the supervisor is unknown).
WaitEnds == \A c \in Commands : doing[c] = "wait" ~> doing[c] = "none" \/ Unrecorded
=============================================================================
