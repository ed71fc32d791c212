------------------------------- MODULE MCLive -------------------------------
(***************************************************************************)
(* What becomes of Telegram's updates (TelegramInbound), and what          *)
(* eventually happens: to them, to inbound delivery (DeliveryLoop), to     *)
(* outbound delivery (Outbox) and to the waits of commands for coding      *)
(* workers (Workers), each by itself under the fairness that its module    *)
(* justifies.                                                              *)
(***************************************************************************)
EXTENDS TelegramInbound

CONSTANTS
  a1, a2, c1, c2, u1, r1, Channels, Agents, Members, Messages, MaxHandled, MaxLog, MaxStops,
  OutChannels, OutMessages, MaxAttempts, RunIds, MaxPosts, MaxRelaunches, MaxRebinds, Commands,
  MaxTurns, MaxLaunches, MayCrash, MaxCrashes

VARIABLES
  part,   \* whose behaviour this is
  log, saved, handled, shown, phase, target, given, open, awaits, reply, lane, stage, aborted,
  session, begun, runs, reviews, acks, everHandled, excused, stops, posts, binding, receipts,
  covered, adopted, dispatcher, reached, backlog, chain, sending, tries, timer, retries, todo,
  owed, sent, allowed, base, relaunches, rebinds, worker, doing, working, seen, turnOf, child,
  result, launched, reported, pids, crashes

Delivery == INSTANCE DeliveryLoop WITH offset <- given, restarts <- stops, MaxRestarts <-
  MaxStops
Out == INSTANCE Outbox WITH log <- posts, saved <- covered, phase <- dispatcher, offset <-
  reached, target <- backlog, step <- sending, running <- retries, excused <- allowed, restarts
  <- relaunches, Channels <- OutChannels, Messages <- OutMessages, MaxLog <- MaxPosts,
  MaxRestarts <- MaxRelaunches
Worker == INSTANCE Workers WITH stage <- working

deliveryVars == <<log, saved, handled, shown, phase, target, given, open, awaits, reply, lane,
  stage, aborted, session, begun, runs, reviews, acks, everHandled, excused, stops>>
outboxVars == <<posts, binding, receipts, covered, adopted, dispatcher, reached, backlog, chain,
  sending, tries, timer, retries, todo, owed, sent, allowed, base, relaunches, rebinds>>
workersVars == <<worker, doing, working, seen, turnOf, child, result, launched, reported, pids,
  crashes>>

\* Init and Next, a part at a time: the others keep still.
LiveInit ==
  /\ part \in {"telegram", "delivery", "outbox", "workers"}
  /\ Init
  /\ Delivery!Init
  /\ Out!Init
  /\ Worker!Init
  /\ binding[c1] = "chat" /\ (part # "outbox" => binding[c2] = "chat")

LiveNext ==
  \/ /\ part = "telegram" /\ Next
     /\ UNCHANGED <<part, deliveryVars, outboxVars, workersVars>>
  \/ /\ part = "delivery" /\ Delivery!Next
     /\ UNCHANGED <<part, vars, outboxVars, workersVars>>
  \/ /\ part = "outbox" /\ Out!Next
     /\ UNCHANGED <<part, vars, deliveryVars, workersVars>>
  \/ /\ part = "workers" /\ Worker!Next
     /\ UNCHANGED <<part, vars, deliveryVars, outboxVars>>

everything == <<part, vars, deliveryVars, outboxVars, workersVars>>

LiveSpec == LiveInit /\ [][LiveNext]_everything

\* The fairness that each module states, for the part it is about.
OutboxFairness ==
  /\ WF_outboxVars(part = "outbox" /\ Out!Bootstrap)
  /\ WF_outboxVars(part = "outbox" /\ Out!DrainBegin)
  /\ WF_outboxVars(part = "outbox" /\ Out!DrainEnd)
  /\ WF_outboxVars(part = "outbox" /\ Out!Start)
  /\ WF_outboxVars(part = "outbox" /\ Out!StopSave)
  /\ WF_outboxVars(part = "outbox" /\ Out!Exit)
  /\ \A c \in OutChannels :
       /\ WF_outboxVars(part = "outbox" /\ Out!DrainNext(c))
       /\ WF_outboxVars(part = "outbox" /\ Out!WatchEvent(c))
       /\ WF_outboxVars(part = "outbox" /\ Out!ProcessStep(c))
       /\ WF_outboxVars(part = "outbox" /\ Out!Finish(c))
       /\ WF_outboxVars(part = "outbox" /\ (Out!SendResolves(c) \/ Out!SendRejects(c)))
       /\ \A i \in Out!Positions : WF_outboxVars(part = "outbox" /\ Out!Elapse(c, i))
  /\ \A r \in RunIds :
       /\ WF_outboxVars(part = "outbox" /\ Out!RetryFire(r))
       /\ WF_outboxVars(part = "outbox" /\ Out!RetryEnd(r))
       /\ WF_outboxVars(part = "outbox" /\ \E c \in OutChannels, i \in Out!Positions : Out!RetryNext(r, c, i))

TelegramFairness ==
  /\ WF_vars(part = "telegram" /\ ByItself)
  /\ \A c \in Chats :
       /\ WF_vars(part = "telegram" /\ BurstTimer(c))
       /\ WF_vars(part = "telegram" /\ AlbumTimer(c))
       /\ WF_vars(part = "telegram" /\ FlushChat(c))
  /\ WF_vars(part = "telegram" /\ \E d \in downloads : DownloadEnds(d))

WorkersFairness ==
  /\ \A a \in Worker!Actors : WF_workersVars(part = "workers" /\ Worker!ReadRecord(a))
  /\ \A c \in Commands : WF_workersVars(part = "workers" /\ Worker!Proceed(c))
  /\ \A p \in Worker!SupervisorPids : WF_workersVars(part = "workers" /\ Worker!Supervise(p))

LiveFairness ==
  /\ WF_deliveryVars(part = "delivery" /\ Delivery!Goes)
  /\ OutboxFairness /\ TelegramFairness /\ WorkersFairness

FairLiveSpec == LiveSpec /\ LiveFairness

\* The messages of channels.
Wakes == {[kind |-> "text", to |-> {a1}], [kind |-> "text", to |-> {a1, a2}]}
OneShared == [c \in Channels |-> IF c = c1 THEN {a1, a2} ELSE {a1}]
OneText == {[type |-> "text", sender |-> "agent", tag |-> "none"]}

\* The updates of two chats, in one of which the user may give commands.
From(c, kind) ==
  [chat |-> c, from |-> u1, kind |-> kind, group |-> "none", name |-> "none", args |-> "none"]
Album(g) == [From(c1, "album") EXCEPT !.group = g]
Command(c, name, args) == [From(c, "command") EXCEPT !.name = name, !.args = args]
TwoChats ==
  {From(c1, "text"), Album("g1"), Album("g2"), From(c2, "photo"), From(c2, "other"),
   From(c2, "ignored"), Command(c1, "stop", "none"), Command(c1, "thinking", "nonsense"),
   Command(c2, "stop", "none"), From(c2, "text")}
OnlyFirst == {<<c1, u1>>}

----------------------------------------------------------------------------
\* A message that wakes an agent is handled by it, whatever fails.
EveryWakeHandled == part = "delivery" => Delivery!EveryMessageHandled

\* A message that an outbox may send is delivered, given up or skipped.
EverySendSettles == part = "outbox" => Out!EveryMessageSettles

\* A command that waits for a worker's turn ends.
WaitEnds == part = "workers" => Worker!WaitEnds
=============================================================================
