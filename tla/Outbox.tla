------------------------------- MODULE Outbox -------------------------------
(***************************************************************************)
(* The gateway's outbound dispatcher, src/channels/outbox.ts: every        *)
(* channel record that is eligible for delivery is sent through the        *)
(* channel's transport binding, and the outcome is kept as a receipt.      *)
(*                                                                         *)
(* Durable state (the channel logs, the bindings, the receipt file and     *)
(* the cursor file) survives a crash; the dispatcher's promise chains,     *)
(* retry timer, retry loops and live offsets do not.  A message is named   *)
(* by its channel and its position in the channel's log.                   *)
(***************************************************************************)
EXTENDS Naturals, Sequences, FiniteSets

CONSTANTS
  Channels,      \* channel names
  Messages,      \* records [type, sender, tag]: what the dispatcher looks at
  MaxAttempts,   \* retryMaxAttempts
  RunIds,        \* retry loops that may overlap (bound on concurrent runs)
  MaxLog,        \* bound: messages per channel
  MaxRestarts,   \* bound: crashes and shutdowns
  MaxRebinds     \* bound: changes of a channel's binding

ASSUME MaxAttemptsAssumption == MaxAttempts \in Nat \ {0}
ASSUME BoundsAssumption ==
  /\ MaxLog \in Nat
  /\ MaxRestarts \in Nat
  /\ MaxRebinds \in Nat
ASSUME MessagesAssumption == Messages \subseteq [type : STRING, sender : STRING, tag : STRING]
ASSUME RunIdsAssumption == "none" \notin RunIds

VARIABLES
  \* durable: files of the workspace
  log,       \* log[c]: the channel's messages in append order
  binding,   \* binding[c]: the manifest's thread: "none", "chat" or "invalid"
  receipts,  \* receipts[c][i]: the delivery receipt of message i
  saved,     \* the cursor file: one position per channel
  adopted,   \* the cursor file exists
  \* the dispatcher process
  phase,     \* down, draining, drained, running, stopping, stopped
  offset,    \* offset[c]: how far c has been handed to the chains
  target,    \* target[c]: end of the backlog read at start
  chain,     \* chain[c]: queued work, head in progress
  step,      \* step[c]: progress of the head of chain[c]
  tries,     \* tries[c]: the head's attempt number, read before the send
  timer,     \* the retry timer is armed
  running,   \* retry loops in progress
  todo,      \* todo[r]: due messages loop r has still to enqueue
  owed,      \* owed[c]: entries stop() still waits for
  \* environment and history
  sent,      \* sent[c][i]: times the transport accepted the message
  excused,   \* excused[c][i]: acceptances whose receipt was lost
  base,      \* base[c]: end of the history skipped by the first start
  restarts,
  rebinds

durable == <<log, binding, receipts, saved, adopted>>
process == <<phase, offset, target, chain, step, tries, timer, running, todo, owed>>
history == <<sent, excused, base, restarts, rebinds>>
vars == <<durable, process, history>>

Positions == 1..MaxLog
Status == {"none", "skipped", "retrying", "delivered", "failed"}
Receipt == [status : Status, attempts : 0..MaxAttempts, due : BOOLEAN]
NoReceipt == [status |-> "none", attempts |-> 0, due |-> TRUE]
NoRun == "none"
Entry == [idx : Positions, src : {"backlog", "live", "retry"}, run : RunIds \cup {NoRun}]

AnySystemText(m) == m.sender = "system"  \* mutant: message watches too
IsCommandWatchEmission(m) == m.sender = "system" /\ m.tag = "command watch"

ShouldDeliverOutbound(m) ==
  \/ m.type = "text" /\ (m.sender = "agent" \/ IsCommandWatchEmission(m))
  \/ m.type = "image" /\ m.sender = "agent"
  \/ m.type = "status" /\ m.sender = "system" /\ m.tag = "operation status"

Outbound(c, i) == ShouldDeliverOutbound(log[c][i])

\* A receipt that ends the attempts at a message.
NeverConcluded(r) == FALSE  \* mutant: the receipt is not looked at
ConcludedIfDelivered(r) == r.status = "delivered"  \* mutant: "failed" is forgotten
Concluded(r) == r.status \in {"delivered", "failed"}

RetriesLeftOffByOne(n) == n <= MaxAttempts  \* mutant
RetriesLeft(n) == n < MaxAttempts

Up == phase # "down"
Watching == phase \in {"running", "stopping", "stopped"}
SomeRetrying(rs) == \E c \in Channels, i \in Positions : rs[c][i].status = "retrying"

\* The timer is set again exactly when some receipt waits for a retry.
KeepTimer(rs) == timer' = timer  \* mutant: the timer is left as it was
ScheduleNextRetry(rs) == timer' = SomeRetrying(rs)

----------------------------------------------------------------------------
Init ==
  /\ log = [c \in Channels |-> <<>>]
  /\ binding \in [Channels -> {"none", "chat"}]
  /\ receipts = [c \in Channels |-> [i \in Positions |-> NoReceipt]]
  /\ saved = [c \in Channels |-> 0]
  /\ adopted = FALSE
  /\ phase = "down"
  /\ offset = [c \in Channels |-> 0]
  /\ target = [c \in Channels |-> 0]
  /\ chain = [c \in Channels |-> <<>>]
  /\ step = [c \in Channels |-> "idle"]
  /\ tries = [c \in Channels |-> 0]
  /\ timer = FALSE
  /\ running = {}
  /\ todo = [r \in RunIds |-> {}]
  /\ owed = [c \in Channels |-> 0]
  /\ sent = [c \in Channels |-> [i \in Positions |-> 0]]
  /\ excused = [c \in Channels |-> [i \in Positions |-> 0]]
  /\ base = [c \in Channels |-> 0]
  /\ restarts = 0
  /\ rebinds = 0

\* Any process appends to a channel log, at any time.
Publish(c, m) ==
  /\ Len(log[c]) < MaxLog
  /\ log' = [log EXCEPT ![c] = Append(@, m)]
  /\ UNCHANGED <<binding, receipts, saved, adopted, process, history>>

\* The operator binds or unbinds a channel; the thread is not validated.
Rebind(c, b) ==
  /\ rebinds < MaxRebinds
  /\ binding[c] # b
  /\ binding' = [binding EXCEPT ![c] = b]
  /\ rebinds' = rebinds + 1
  /\ UNCHANGED <<log, receipts, saved, adopted, process, sent, excused, base, restarts>>

\* The clock passes a receipt's nextAttemptAt.
Elapse(c, i) ==
  /\ ~ receipts[c][i].due
  /\ receipts' = [receipts EXCEPT ![c][i].due = TRUE]
  /\ UNCHANGED <<log, binding, saved, adopted, process, history>>

----------------------------------------------------------------------------
(* Start: drainBacklog, then start.                                        *)

\* No cursor file: adopt the current ends, deliver nothing of the history.
Bootstrap ==
  /\ phase = "down" /\ ~ adopted
  /\ saved' = [c \in Channels |-> Len(log[c])]
  /\ offset' = saved'
  /\ target' = saved'
  /\ base' = saved'
  /\ adopted' = TRUE
  /\ ScheduleNextRetry(receipts)
  /\ phase' = "drained"
  /\ UNCHANGED <<log, binding, receipts, chain, step, tries, running, todo, owed,
                 sent, excused, restarts, rebinds>>

DrainBegin ==
  /\ phase = "down" /\ adopted
  /\ offset' = saved
  /\ target' = [c \in Channels |-> Len(log[c])]
  /\ phase' = "draining"
  /\ UNCHANGED <<durable, chain, step, tries, timer, running, todo, owed, history>>

NoBacklogQueued ==
  \A c \in Channels : \A k \in DOMAIN chain[c] : chain[c][k].src # "backlog"

Enqueue(c, e) == chain' = [chain EXCEPT ![c] = Append(@, e)]

\* One backlog message at a time, a channel's messages together.
DrainNext(c) ==
  /\ phase = "draining" /\ NoBacklogQueued
  /\ offset[c] < target[c]
  /\ \A d \in Channels \ {c} : offset[d] \in {saved[d], target[d]}
  /\ offset' = [offset EXCEPT ![c] = @ + 1]
  /\ Enqueue(c, [idx |-> offset[c] + 1, src |-> "backlog", run |-> NoRun])
  /\ UNCHANGED <<durable, phase, target, step, tries, timer, running, todo, owed, history>>

DrainEnd ==
  /\ phase = "draining" /\ NoBacklogQueued
  /\ offset = target
  /\ saved' = target
  /\ ScheduleNextRetry(receipts)
  /\ phase' = "drained"
  /\ UNCHANGED <<log, binding, receipts, adopted, offset, target, chain, step, tries,
                 running, todo, owed, history>>

LiveEntriesNewestFirst(from, to) ==  \* mutant: swapped order
  [k \in 1..(to - from) |-> [idx |-> to + 1 - k, src |-> "live", run |-> NoRun]]

LiveEntries(from, to) ==
  [k \in 1..(to - from) |-> [idx |-> from + k, src |-> "live", run |-> NoRun]]

\* watch() scans every channel once before it returns.
Start ==
  /\ phase = "drained"
  /\ chain' = [c \in Channels |-> chain[c] \o LiveEntries(offset[c], Len(log[c]))]
  /\ offset' = [c \in Channels |-> Len(log[c])]
  /\ ScheduleNextRetry(receipts)
  /\ phase' = "running"
  /\ UNCHANGED <<durable, target, step, tries, running, todo, owed, history>>

\* A file event: hand over everything past the live offset.
WatchEvent(c) ==
  /\ phase = "running"
  /\ offset[c] < Len(log[c])
  /\ chain' = [chain EXCEPT ![c] = @ \o LiveEntries(offset[c], Len(log[c]))]
  /\ offset' = [offset EXCEPT ![c] = Len(log[c])]
  /\ UNCHANGED <<durable, phase, target, step, tries, timer, running, todo, owed, history>>

----------------------------------------------------------------------------
(* processMessage on the head of a chain, up to its one await.             *)

Heads(c) == Up /\ chain[c] # <<>> /\ step[c] = "idle"
This(c) == Head(chain[c]).idx
Settled(c) == step' = [step EXCEPT ![c] = "done"]

Ignore(c) ==
  /\ Heads(c) /\ ~ Outbound(c, This(c))
  /\ Settled(c)
  /\ UNCHANGED <<durable, phase, offset, target, chain, tries, timer, running,
                 todo, owed, history>>

\* Unbound: a skipped receipt replaces whatever receipt there was.
Skip(c) ==
  LET i == This(c) IN
  /\ Heads(c) /\ Outbound(c, i) /\ binding[c] = "none"
  /\ receipts' = [receipts EXCEPT ![c][i] = [status |-> "skipped", attempts |-> 0, due |-> TRUE]]
  /\ excused' = IF receipts[c][i].status = "delivered" /\ sent[c][i] > excused[c][i]
                  THEN [excused EXCEPT ![c][i] = @ + 1] ELSE excused
  /\ Settled(c)
  /\ UNCHANGED <<log, binding, saved, adopted, phase, offset, target, chain, tries, timer,
                 running, todo, owed, sent, base, restarts, rebinds>>

AlreadySettled(c) ==
  /\ Heads(c) /\ Outbound(c, This(c)) /\ binding[c] # "none"
  /\ Concluded(receipts[c][This(c)])
  /\ Settled(c)
  /\ UNCHANGED <<durable, phase, offset, target, chain, tries, timer, running,
                 todo, owed, history>>

TooEarly(c) ==
  /\ Heads(c) /\ Outbound(c, This(c)) /\ binding[c] # "none"
  /\ ~ Concluded(receipts[c][This(c)]) /\ ~ receipts[c][This(c)].due
  /\ ScheduleNextRetry(receipts)
  /\ Settled(c)
  /\ UNCHANGED <<durable, phase, offset, target, chain, tries, running, todo, owed, history>>

BeginSend(c) ==
  LET r == receipts[c][This(c)] IN
  /\ Heads(c) /\ Outbound(c, This(c)) /\ binding[c] # "none"
  /\ ~ Concluded(r) /\ r.due
  /\ tries' = [tries EXCEPT ![c] = r.attempts + 1]
  /\ step' = [step EXCEPT ![c] = IF binding[c] = "chat" THEN "sending" ELSE "unsendable"]
  /\ UNCHANGED <<durable, phase, offset, target, chain, timer, running, todo, owed, history>>

\* The transport takes the message (or a first part of it).
Accept(c) ==
  /\ step[c] = "sending"
  /\ sent' = [sent EXCEPT ![c][This(c)] = @ + 1]
  /\ step' = [step EXCEPT ![c] = "accepted"]
  /\ UNCHANGED <<durable, phase, offset, target, chain, tries, timer, running,
                 todo, owed, excused, base, restarts, rebinds>>

\* send() resolves.  An invalid thread resolves too, with nothing sent.
SendResolves(c) ==
  /\ step[c] \in {"accepted", "unsendable"}
  /\ receipts' = [receipts EXCEPT ![c][This(c)] =
                    [status |-> "delivered", attempts |-> tries[c], due |-> TRUE]]
  /\ Settled(c)
  /\ UNCHANGED <<log, binding, saved, adopted, phase, offset, target, chain, tries, timer,
                 running, todo, owed, history>>

\* send() rejects, perhaps after the transport took the message, or no route
\* is registered for the binding.
SendRejects(c) ==
  LET retrying == RetriesLeft(tries[c]) IN
  /\ step[c] \in {"sending", "accepted"}
  /\ receipts' = [receipts EXCEPT ![c][This(c)] =
                    [status |-> IF retrying THEN "retrying" ELSE "failed",
                     attempts |-> tries[c], due |-> ~ retrying]]
  /\ IF retrying THEN ScheduleNextRetry(receipts') ELSE UNCHANGED timer
  /\ excused' = IF step[c] = "accepted" THEN [excused EXCEPT ![c][This(c)] = @ + 1]
                                        ELSE excused
  /\ Settled(c)
  /\ UNCHANGED <<log, binding, saved, adopted, phase, offset, target, chain, tries, running,
                 todo, owed, sent, base, restarts, rebinds>>

\* saveLiveCursorsIfIdle writes only when no chain is left.
AnyMoment == TRUE  \* mutant: the check is dropped
ChainsIdle == \A d \in Channels : chain'[d] = <<>>

\* enqueue's finally: leave the chain; the last live entry saves the cursors.
Finish(c) ==
  LET live == Head(chain[c]).src = "live" IN
  /\ step[c] = "done"
  /\ chain' = [chain EXCEPT ![c] = Tail(@)]
  /\ step' = [step EXCEPT ![c] = "idle"]
  /\ tries' = [tries EXCEPT ![c] = 0]
  /\ owed' = [owed EXCEPT ![c] = IF @ > 0 THEN @ - 1 ELSE 0]
  /\ saved' = IF live /\ Watching /\ ChainsIdle THEN offset ELSE saved
  /\ UNCHANGED <<log, binding, receipts, adopted, phase, offset, target, timer, running, todo, history>>

----------------------------------------------------------------------------
(* The retry timer and the loops it starts; two loops may overlap.         *)

DueMessages ==
  {x \in Channels \X Positions :
     receipts[x[1]][x[2]].status = "retrying" /\ receipts[x[1]][x[2]].due}

RetryFire(r) ==
  /\ Up /\ timer /\ r \notin running
  /\ timer' = FALSE
  /\ running' = running \cup {r}
  /\ todo' = [todo EXCEPT ![r] = DueMessages]
  /\ UNCHANGED <<durable, phase, offset, target, chain, step, tries, owed, history>>

Awaiting(r) == \E c \in Channels : \E k \in DOMAIN chain[c] : chain[c][k].run = r

RetryNext(r, c, i) ==
  /\ r \in running /\ ~ Awaiting(r)
  /\ <<c, i>> \in todo[r]
  /\ todo' = [todo EXCEPT ![r] = @ \ {<<c, i>>}]
  /\ Enqueue(c, [idx |-> i, src |-> "retry", run |-> r])
  /\ UNCHANGED <<durable, phase, offset, target, step, tries, timer, running, owed, history>>

RetryEnd(r) ==
  /\ r \in running /\ ~ Awaiting(r) /\ todo[r] = {}
  /\ running' = running \ {r}
  /\ ScheduleNextRetry(receipts)
  /\ UNCHANGED <<durable, phase, offset, target, chain, step, tries, todo, owed, history>>

----------------------------------------------------------------------------
(* Shutdown and crash.                                                     *)

\* stop(): no more events, no timer; wait for the chains as they are now.
Stop ==
  /\ phase = "running" /\ restarts < MaxRestarts
  /\ timer' = FALSE
  /\ owed' = [c \in Channels |-> Len(chain[c])]
  /\ phase' = "stopping"
  /\ restarts' = restarts + 1
  /\ UNCHANGED <<durable, offset, target, chain, step, tries, running, todo,
                 sent, excused, base, rebinds>>

\* mutant: the cursors the watcher started from are saved, not its own
StopSaveStale ==
  /\ phase = "stopping"
  /\ \A c \in Channels : owed[c] = 0
  /\ saved' = target
  /\ phase' = "stopped"
  /\ UNCHANGED <<log, binding, receipts, adopted, offset, target, chain, step, tries, timer,
                 running, todo, owed, history>>

StopSave ==
  /\ phase = "stopping"
  /\ \A c \in Channels : owed[c] = 0
  /\ saved' = offset
  /\ phase' = "stopped"
  /\ UNCHANGED <<log, binding, receipts, adopted, offset, target, chain, step, tries, timer,
                 running, todo, owed, history>>

\* Everything but the files is gone; an accepted send leaves no receipt.
Vanish ==
  /\ phase' = "down"
  /\ offset' = [c \in Channels |-> 0]
  /\ target' = [c \in Channels |-> 0]
  /\ chain' = [c \in Channels |-> <<>>]
  /\ step' = [c \in Channels |-> "idle"]
  /\ tries' = [c \in Channels |-> 0]
  /\ timer' = FALSE
  /\ running' = {}
  /\ todo' = [r \in RunIds |-> {}]
  /\ owed' = [c \in Channels |-> 0]
  /\ excused' = [c \in Channels |-> [i \in Positions |->
                   IF step[c] = "accepted" /\ i = This(c) THEN excused[c][i] + 1
                                                         ELSE excused[c][i]]]
  /\ UNCHANGED <<durable, sent, base, rebinds>>

Exit == phase = "stopped" /\ Vanish /\ UNCHANGED restarts

Crash ==
  /\ Up /\ restarts < MaxRestarts
  /\ Vanish
  /\ restarts' = restarts + 1

----------------------------------------------------------------------------
ProcessStep(c) ==
  \/ Ignore(c) \/ Skip(c) \/ AlreadySettled(c) \/ TooEarly(c) \/ BeginSend(c)
Environment ==
  \/ \E c \in Channels, m \in Messages : Publish(c, m)
  \/ \E c \in Channels, b \in {"none", "chat", "invalid"} : Rebind(c, b)
Startup == Bootstrap \/ DrainBegin \/ (\E c \in Channels : DrainNext(c)) \/ DrainEnd \/ Start
Dispatch(c) ==
  \/ WatchEvent(c) \/ ProcessStep(c) \/ Accept(c) \/ SendResolves(c) \/ SendRejects(c)
  \/ Finish(c)
Retry(r) ==
  \/ RetryFire(r) \/ RetryEnd(r)
  \/ \E c \in Channels, i \in Positions : RetryNext(r, c, i)
Shutdown == Stop \/ StopSave \/ Exit \/ Crash

Next ==
  \/ Environment
  \/ \E c \in Channels, i \in Positions : Elapse(c, i)
  \/ Startup
  \/ \E c \in Channels : Dispatch(c)
  \/ \E r \in RunIds : Retry(r)
  \/ Shutdown

Spec == Init /\ [][Next]_vars

Fairness ==
  /\ WF_vars(Bootstrap) /\ WF_vars(DrainBegin) /\ WF_vars(DrainEnd) /\ WF_vars(Start)
  /\ WF_vars(StopSave) /\ WF_vars(Exit)
  /\ \A c \in Channels :
       /\ WF_vars(DrainNext(c)) /\ WF_vars(WatchEvent(c)) /\ WF_vars(ProcessStep(c))
       /\ WF_vars(SendResolves(c) \/ SendRejects(c)) /\ WF_vars(Finish(c))
       /\ \A i \in Positions : WF_vars(Elapse(c, i))
  /\ \A r \in RunIds :
       /\ WF_vars(RetryFire(r)) /\ WF_vars(RetryEnd(r))
       /\ WF_vars(\E c \in Channels, i \in Positions : RetryNext(r, c, i))

FairSpec == Spec /\ Fairness

----------------------------------------------------------------------------
(* What the dispatcher promises.                                           *)

FilesOK ==
  /\ log \in [Channels -> Seq(Messages)]
  /\ \A c \in Channels : Len(log[c]) <= MaxLog
  /\ binding \in [Channels -> {"none", "chat", "invalid"}]
  /\ receipts \in [Channels -> [Positions -> Receipt]]
  /\ saved \in [Channels -> 0..MaxLog]
  /\ adopted \in BOOLEAN
QueuesOK ==
  /\ phase \in {"down", "draining", "drained", "running", "stopping", "stopped"}
  /\ offset \in [Channels -> 0..MaxLog]
  /\ target \in [Channels -> 0..MaxLog]
  /\ chain \in [Channels -> Seq(Entry)]
  /\ step \in [Channels -> {"idle", "sending", "accepted", "unsendable", "done"}]
  /\ tries \in [Channels -> 0..MaxAttempts]
  /\ owed \in [Channels -> Nat]
RetriesOK ==
  /\ timer \in BOOLEAN
  /\ running \in SUBSET RunIds
  /\ todo \in [RunIds -> SUBSET (Channels \X Positions)]
HistoryOK ==
  /\ sent \in [Channels -> [Positions -> Nat]]
  /\ excused \in [Channels -> [Positions -> Nat]]
  /\ base \in [Channels -> 0..MaxLog]
  /\ restarts \in 0..MaxRestarts
  /\ rebinds \in 0..MaxRebinds
TypeOK == FilesOK /\ QueuesOK /\ RetriesOK /\ HistoryOK

\* The cursor file never covers an eligible message that has no receipt: a
\* restart, which reads only past the cursors, loses nothing (drainBacklog,
\* saveLiveCursorsIfIdle and stop all save cursors).
CursorCovered ==
  \A c \in Channels : \A i \in (base[c] + 1)..saved[c] :
    Outbound(c, i) => receipts[c][i].status # "none"

InFlight(c) == step[c] \in {"sending", "accepted", "unsendable"}

\* No send is under way for a message whose receipt is already final, although
\* backlog, live events and overlapping retry loops may all queue it
\* (processMessage checks the receipt before the await, per-channel chains
\* keep the check valid).
FinalNeverResent ==
  \A c \in Channels : InFlight(c) => receipts[c][This(c)].status \notin {"delivered", "failed"}

\* The transport has taken a message at most once more than there were
\* acceptances whose receipt was lost: to a crash before the receipt, to a
\* rejected send that had got through, or to a skipped receipt over a delivered
\* one.  Without such a cause delivery is exactly once.
DuplicatesExcused ==
  \A c \in Channels, i \in Positions :
    /\ sent[c][i] <= excused[c][i] + 1
    /\ sent[c][i] = excused[c][i] + 1 =>
         \/ receipts[c][i].status = "delivered"
         \/ step[c] = "accepted" /\ This(c) = i

\* A message is first tried only after every earlier eligible message of its
\* channel has a receipt: only retries reorder a channel.
FirstTriesInOrder ==
  \A c \in Channels : \A j \in 1..Len(log[c]) :
    (receipts[c][j].status # "none" \/ (InFlight(c) /\ This(c) = j)) =>
      \A i \in (base[c] + 1)..(j - 1) :
        Outbound(c, i) => receipts[c][i].status # "none"

\* Every eligible message after the first start ends delivered, failed or
\* skipped, through crashes, shutdowns and failing sends.
Eligible(c, i) == adopted /\ i > base[c] /\ i <= Len(log[c]) /\ Outbound(c, i)
EveryMessageSettles ==
  \A c \in Channels, i \in Positions :
    Eligible(c, i) ~> receipts[c][i].status \in {"delivered", "failed", "skipped"}

Promise == INSTANCE OutboxPromise WITH
  outcome <- [c \in Channels |-> [i \in Positions |-> receipts[c][i].status]],
  acked <- saved
Implements == Promise!Spec
=============================================================================
