---------------------------- MODULE DeliveryLoop ----------------------------
(***************************************************************************)
(* Inbound delivery: the gateway follows the channel logs, offers every    *)
(* message to the agents it wakes and runs one turn at a time in each      *)
(* agent's lane of the channel (gateway/channel-delivery-loop.ts,          *)
(* gateway/session-control-runtime.ts, sessions/pool.ts).                  *)
(*                                                                         *)
(* Durable: the logs, the cursor file, the ledger of handled messages and  *)
(* the lane states written for `gateway status`.  A crash loses the        *)
(* dispatches in progress, the lanes and the open sessions.                *)
(***************************************************************************)
EXTENDS Naturals, Sequences, FiniteSets

CONSTANTS
  Channels,     \* channel names
  Agents,       \* configured agents
  Members,      \* Members[c]: the agents that messages in c can wake
  Messages,     \* records [kind, to]; see MessagesAssumption
  MaxHandled,   \* MAX_HANDLED_PER_LANE
  MaxLog,       \* bound: messages per channel
  MaxRestarts   \* bound: crashes and shutdowns

Unknown == "unknown"   \* a control's target that no agent has
Names == Agents \cup {Unknown}
Kinds == {"text", "watch", "stop", "reset", "set"}

\* "to": the members whose policy wakes for a text or watch message; the one
\* target of a control.
ASSUME MessagesAssumption ==
  /\ Messages \subseteq [kind : Kinds, to : SUBSET Names]
  /\ \A m \in Messages :
       IF m.kind \in {"text", "watch"} THEN m.to \subseteq Agents ELSE \E a \in Names : m.to = {a}
ASSUME MembersAssumption == Members \in [Channels -> SUBSET Agents]
ASSUME BoundsAssumption ==
  MaxHandled \in Nat \ {0} /\ MaxLog \in Nat /\ MaxRestarts \in Nat
ASSUME UnknownAssumption == Unknown \notin Agents

VARIABLES
  \* durable
  log,         \* log[c]: the channel's messages
  saved,       \* the cursor file
  handled,     \* handled[a][c]: ledger of handled positions, oldest first
  shown,       \* shown[a][c]: the turn gateway-state.json says is running, or 0
  \* the gateway
  phase,       \* down, draining, drained, serving, stopping, stopped
  target,      \* target[c]: end of the backlog
  offset,      \* offset[c]: how far c has been dispatched
  open,        \* open[c]: dispatches in progress
  awaits,      \* awaits[c][i]: lanes that dispatch i still waits for
  reply,       \* reply[c][i]: outcome status of a control: none, due, sent
  \* the session pool
  lane,        \* lane[a][c]: queued turns and session operations
  stage,       \* stage[a][c]: progress of the lane's head
  aborted,     \* aborted[a][c]: the running turn's controller was aborted
  session,     \* session[a][c]: the lane holds an open session
  \* history
  begun,       \* work whose effects began in this process, not yet recorded
  runs,        \* runs[a][c][i]: times the work of message i took effect
  reviews,     \* reviews[a][c][i]: reply reviews of message i
  acks,        \* acks[c][i]: operation_status records answering control i
  everHandled, \* everHandled[a][c]: positions ever recorded as handled
  excused,     \* excused[a][c][i]: times i was interrupted or forgotten
  restarts

durable == <<log, saved, handled, shown>>
gateway == <<phase, target, offset, open, awaits, reply>>
pool == <<lane, stage, aborted, session>>
history == <<begun, runs, reviews, acks, everHandled, excused, restarts>>
vars == <<durable, gateway, pool, history>>

Positions == 1..MaxLog
Kind(c, i) == log[c][i].kind
To(c, i) == log[c][i].to
IsControl(c, i) == Kind(c, i) \in {"stop", "reset", "set"}
IsHandled(a, c, i) == \E k \in DOMAIN handled[a][c] : handled[a][c][k] = i

Head1(a, c) == Head(lane[a][c])
\* lane.running is set from the start of a turn until its activity has stopped.
Running(a, c) == stage[a][c] \in {"opening", "prompted", "reviewing", "settling"}
Watching == phase \in {"serving", "stopping"}

----------------------------------------------------------------------------
Init ==
  /\ log = [c \in Channels |-> <<>>]
  /\ saved = [c \in Channels |-> 0]
  /\ handled = [a \in Names |-> [c \in Channels |-> <<>>]]
  /\ shown = [a \in Agents |-> [c \in Channels |-> 0]]
  /\ phase = "down"
  /\ target = [c \in Channels |-> 0]
  /\ offset = [c \in Channels |-> 0]
  /\ open = [c \in Channels |-> {}]
  /\ awaits = [c \in Channels |-> [i \in Positions |-> {}]]
  /\ reply = [c \in Channels |-> [i \in Positions |-> "none"]]
  /\ lane = [a \in Agents |-> [c \in Channels |-> <<>>]]
  /\ stage = [a \in Agents |-> [c \in Channels |-> "idle"]]
  /\ aborted = [a \in Agents |-> [c \in Channels |-> FALSE]]
  /\ session = [a \in Agents |-> [c \in Channels |-> FALSE]]
  /\ begun = {}
  /\ runs = [a \in Names |-> [c \in Channels |-> [i \in Positions |-> 0]]]
  /\ reviews = [a \in Agents |-> [c \in Channels |-> [i \in Positions |-> 0]]]
  /\ acks = [c \in Channels |-> [i \in Positions |-> 0]]
  /\ everHandled = [a \in Names |-> [c \in Channels |-> {}]]
  /\ excused = [a \in Names |-> [c \in Channels |-> [i \in Positions |-> 0]]]
  /\ restarts = 0

\* A surface, a CLI command, a watch or an agent appends to a channel.
Publish(c, m) ==
  /\ Len(log[c]) < MaxLog
  /\ m.kind \in {"text", "watch"} => m.to \subseteq Members[c]
  /\ log' = [log EXCEPT ![c] = Append(@, m)]
  /\ UNCHANGED <<saved, handled, shown, gateway, pool, history>>

----------------------------------------------------------------------------
(* dispatchMessage, for all messages handed over at once.                  *)

\* mutant: the ledger is not looked at
AnswersTwice(a, c, i) == a \in To(c, i)
\* What the ledger does not already have as handled by a.
Wants(a, c, i) == a \in To(c, i) /\ ~ IsHandled(a, c, i)

\* A set of positions as a sequence, the oldest first.
Ascending(q) == \A j, k \in DOMAIN q : j < k => q[j] < q[k]
Descending(q) == \A j, k \in DOMAIN q : j < k => q[j] > q[k]
Enumerations(S) ==
  {q \in [1..Cardinality(S) -> S] : \A i \in S : \E k \in DOMAIN q : q[k] = i}
NewestFirst(S) == CHOOSE q \in Enumerations(S) : Descending(q)  \* mutant: swapped order
InOrder(S) == CHOOSE q \in Enumerations(S) : Ascending(q)

\* What of the handed over positions a reacts to, of some kinds.
Wanted(new, a, c, kinds) == {i \in new : Wants(a, c, i) /\ Kind(c, i) \in kinds}

\* The positions up to upTo[c] are dispatched, but not those in skipped.  A
\* control reaches the pool synchronously, a turn only after an await: the
\* controls of a batch enter a lane before its turns.
HandOver(upTo, skipped) ==
  LET new(c) == ((offset[c] + 1)..upTo[c]) \ skipped
  IN
  /\ offset' = upTo
  /\ open' = [c \in Channels |-> open[c] \cup new(c)]
  /\ awaits' = [c \in Channels |-> [i \in Positions |->
       IF i \in new(c) /\ Kind(c, i) # "stop" THEN {a \in Agents : Wants(a, c, i)}
                                              ELSE awaits[c][i]]]
  /\ reply' = [c \in Channels |-> [i \in Positions |->
       IF i \in new(c) /\ IsControl(c, i) /\ \E a \in Names : Wants(a, c, i)
         THEN "due" ELSE reply[c][i]]]
  /\ lane' = [a \in Agents |-> [c \in Channels |->
       lane[a][c] \o InOrder(Wanted(new(c), a, c, {"reset", "set"}))
                  \o InOrder(Wanted(new(c), a, c, {"text", "watch"}))]]
  /\ aborted' = [a \in Agents |-> [c \in Channels |->
       \/ aborted[a][c]
       \/ Running(a, c) /\ \E i \in new(c) : Kind(c, i) = "stop" /\ Wants(a, c, i)]]
  /\ shown' = [a \in Agents |-> [c \in Channels |->   \* a lane that is used is published
       IF \E i \in new(c) : Wants(a, c, i)
         THEN IF Running(a, c) THEN Head1(a, c) ELSE 0
         ELSE shown[a][c]]]

\* The backlog since the saved cursors is read.
DrainBegin ==
  /\ phase = "down"
  /\ offset' = saved
  /\ target' = [c \in Channels |-> Len(log[c])]
  /\ phase' = "draining"
  /\ UNCHANGED <<durable, open, awaits, reply, pool, history>>

NothingOpen == \A c \in Channels : open[c] = {}

\* One backlog message at a time, to its end; watch messages are left out.
DrainNext(c) ==
  LET i == offset[c] + 1 IN
  /\ phase = "draining" /\ NothingOpen
  /\ offset[c] < target[c]
  /\ \A d \in Channels \ {c} : offset[d] \in {saved[d], target[d]}
  /\ HandOver([offset EXCEPT ![c] = i], IF Kind(c, i) = "watch" THEN {i} ELSE {})
  /\ UNCHANGED <<log, saved, handled, phase, target, stage, session, history>>

DrainEnd ==
  /\ phase = "draining" /\ NothingOpen
  /\ offset = target
  /\ saved' = target
  /\ phase' = "drained"
  /\ UNCHANGED <<log, handled, shown, target, offset, open, awaits, reply, pool, history>>

\* watch() scans every channel once before it returns.
Start ==
  /\ phase = "drained"
  /\ HandOver([c \in Channels |-> Len(log[c])], {})
  /\ phase' = "serving"
  /\ UNCHANGED <<log, saved, handled, target, stage, session, history>>

WatchEvent(c) ==
  /\ phase = "serving"
  /\ offset[c] < Len(log[c])
  /\ HandOver([offset EXCEPT ![c] = Len(log[c])], {})
  /\ UNCHANGED <<log, saved, handled, phase, target, stage, session, history>>

----------------------------------------------------------------------------
(* The ledger, and the end of a dispatch.                                  *)

LedgerFullLate(n) == n > MaxHandled + 1  \* mutant: off by one
LedgerFull(n) == n > MaxHandled

\* A position is entered again under a new date.
Without(s, i) ==
  IF \E k \in DOMAIN s : s[k] = i
    THEN LET k == CHOOSE n \in DOMAIN s : s[n] = i
         IN SubSeq(s, 1, k - 1) \o SubSeq(s, k + 1, Len(s))
    ELSE s

\* markHandled: a's ledger for c keeps the latest MaxHandled positions.
MarkHandled(a, c, i) ==
  LET ledger == Append(Without(handled[a][c], i), i)
      full == LedgerFull(Len(ledger))
  IN
  /\ handled' = [handled EXCEPT ![a][c] = IF full THEN Tail(ledger) ELSE ledger]
  /\ everHandled' = [everHandled EXCEPT ![a][c] = @ \cup {i}]
  /\ begun' = begun \ {<<a, c, i>>}
  /\ excused' = IF full THEN [excused EXCEPT ![a][c][Head(ledger)] = @ + 1] ELSE excused

\* mutant: the cursors are saved at the end of every live dispatch
AnyMoment(c, i) == TRUE
\* saveLiveCursorsIfIdle: no other dispatch is in progress.
LastOpen(c, i) == open[c] = {i} /\ \A d \in Channels \ {c} : open[d] = {}

DispatchEnd(c, i) ==
  /\ i \in open[c] /\ awaits[c][i] = {} /\ reply[c][i] = "none"
  /\ open' = [open EXCEPT ![c] = @ \ {i}]
  /\ saved' = IF Watching /\ i > target[c] /\ LastOpen(c, i) THEN offset ELSE saved
  /\ UNCHANGED <<log, handled, shown, phase, target, offset, awaits, reply, pool, history>>

\* A control's outcome is published once its lane has carried it out (at once
\* for a stop, and for a target nobody is) ...
Answer(c, i) ==
  /\ reply[c][i] = "due" /\ awaits[c][i] = {}
  /\ acks' = [acks EXCEPT ![c][i] = @ + 1]
  /\ reply' = [reply EXCEPT ![c][i] = "sent"]
  /\ UNCHANGED <<durable, phase, target, offset, open, awaits, pool, begun, runs, reviews,
                 everHandled, excused, restarts>>

\* mutant: marked handled before the outcome is published
RecordControlEarly(c, i) ==
  LET a == CHOOSE n \in Names : n \in To(c, i) IN
  /\ reply[c][i] = "due" /\ awaits[c][i] = {}
  /\ reply' = [reply EXCEPT ![c][i] = "none"]
  /\ MarkHandled(a, c, i)
  /\ UNCHANGED <<log, saved, shown, phase, target, offset, open, awaits, pool, runs, reviews,
                 acks, restarts>>

\* ... and then the control is marked handled.
RecordControl(c, i) ==
  LET a == CHOOSE n \in Names : n \in To(c, i) IN
  /\ reply[c][i] = "sent"
  /\ reply' = [reply EXCEPT ![c][i] = "none"]
  /\ MarkHandled(a, c, i)
  /\ UNCHANGED <<log, saved, shown, phase, target, offset, open, awaits, pool, runs, reviews,
                 acks, restarts>>

----------------------------------------------------------------------------
(* SessionPool: the head of a lane.                                        *)

HeadKind(a, c) == Kind(c, Head1(a, c))
Step(a, c, s) == stage' = [stage EXCEPT ![a][c] = s]
Took(a, c) ==
  /\ runs' = [runs EXCEPT ![a][c][Head1(a, c)] = @ + 1]
  /\ begun' = begun \cup {<<a, c, Head1(a, c)>>}
LeaveUnnoticed(a, c) ==  \* mutant: the dispatch is not told
  /\ lane' = [lane EXCEPT ![a][c] = Tail(@)]
  /\ UNCHANGED awaits
LeaveFirst(a, c) ==  \* mutant: the first lane to end ends the dispatch
  /\ lane' = [lane EXCEPT ![a][c] = Tail(@)]
  /\ awaits' = [awaits EXCEPT ![c][Head1(a, c)] = {}]
Leave(a, c) ==
  /\ lane' = [lane EXCEPT ![a][c] = Tail(@)]
  /\ awaits' = [awaits EXCEPT ![c][Head1(a, c)] = @ \ {a}]

\* mutant: the controller of the last turn is used again
TurnStartSameController(a, c) ==
  /\ stage[a][c] = "idle" /\ lane[a][c] # <<>> /\ HeadKind(a, c) \in {"text", "watch"}
  /\ shown' = [shown EXCEPT ![a][c] = Head1(a, c)]
  /\ Step(a, c, "opening")
  /\ UNCHANGED <<log, saved, handled, gateway, lane, aborted, session, history>>

\* runTurn: a fresh controller; the lane is shown as running.
TurnStart(a, c) ==
  /\ stage[a][c] = "idle" /\ lane[a][c] # <<>> /\ HeadKind(a, c) \in {"text", "watch"}
  /\ shown' = [shown EXCEPT ![a][c] = Head1(a, c)]
  /\ aborted' = [aborted EXCEPT ![a][c] = FALSE]
  /\ Step(a, c, "opening")
  /\ UNCHANGED <<log, saved, handled, gateway, lane, session, history>>

\* The session is open, the turn context delivered, the model prompted.
Prompt(a, c) ==
  /\ stage[a][c] = "opening" /\ ~ aborted[a][c]
  /\ session' = [session EXCEPT ![a][c] = TRUE]
  /\ Took(a, c)
  /\ Step(a, c, "prompted")
  /\ UNCHANGED <<durable, gateway, lane, aborted, reviews, acks, everHandled, excused, restarts>>

\* The session cannot be opened (another process owns it), or the turn context
\* cannot be built once it is open; an aborted turn drops its session.
OpenFails(a, c) ==
  /\ stage[a][c] = "opening"
  /\ \E s \in BOOLEAN :
       /\ session[a][c] => s
       /\ session' = [session EXCEPT ![a][c] = s /\ ~ aborted[a][c]]
  /\ Step(a, c, "settling")
  /\ UNCHANGED <<durable, gateway, lane, aborted, history>>

\* The model fails, or ends; a human's message left without a visible reply is
\* reviewed.
TurnEnds(a, c) ==
  /\ stage[a][c] = "prompted" /\ ~ aborted[a][c]
  /\ \/ Step(a, c, "settling") /\ UNCHANGED reviews
     \/ /\ HeadKind(a, c) = "text"
        /\ Step(a, c, "reviewing")
        /\ reviews' = [reviews EXCEPT ![a][c][Head1(a, c)] = @ + 1]
  /\ UNCHANGED <<durable, gateway, lane, aborted, session, begun, runs, acks, everHandled,
                 excused, restarts>>

\* The review, and the recovery prompt it may ask for, are over.
ReviewEnds(a, c) ==
  /\ stage[a][c] = "reviewing"
  /\ Step(a, c, "settling")
  /\ UNCHANGED <<durable, gateway, lane, aborted, session, history>>

\* The abort rejects the turn; its session is dropped.
Abort(a, c) ==
  /\ stage[a][c] \in {"opening", "prompted", "reviewing"} /\ aborted[a][c]
  /\ session' = [session EXCEPT ![a][c] = FALSE]
  /\ Step(a, c, "settling")
  /\ UNCHANGED <<durable, gateway, lane, aborted, history>>

\* finally: the activity has stopped, the lane is published as idle ...
Settle(a, c) ==
  /\ stage[a][c] = "settling"
  /\ shown' = [shown EXCEPT ![a][c] = 0]
  /\ Step(a, c, "recording")
  /\ UNCHANGED <<log, saved, handled, gateway, lane, aborted, session, history>>

\* ... and the message is marked handled, whatever the outcome.
RecordTurn(a, c) ==
  /\ stage[a][c] = "recording"
  /\ MarkHandled(a, c, Head1(a, c))
  /\ Leave(a, c)
  /\ Step(a, c, "idle")
  /\ UNCHANGED <<log, saved, shown, phase, target, offset, open, reply, aborted, session, runs,
                 reviews, acks, restarts>>

\* reset and restore drop the session and move transcripts.
ResetSession(a, c) ==
  /\ stage[a][c] = "idle" /\ lane[a][c] # <<>> /\ HeadKind(a, c) = "reset"
  /\ session' = [session EXCEPT ![a][c] = FALSE]
  /\ Took(a, c) /\ Leave(a, c)
  /\ UNCHANGED <<durable, phase, target, offset, open, reply, stage, aborted, reviews, acks,
                 everHandled, excused, restarts>>

\* setThinkingLevel and setSettings open the session, which may fail.
SetSession(a, c) ==
  /\ stage[a][c] = "idle" /\ lane[a][c] # <<>> /\ HeadKind(a, c) = "set"
  /\ \E s \in BOOLEAN : (session[a][c] => s) /\ session' = [session EXCEPT ![a][c] = s]
  /\ Took(a, c) /\ Leave(a, c)
  /\ UNCHANGED <<durable, phase, target, offset, open, reply, stage, aborted, reviews, acks,
                 everHandled, excused, restarts>>

----------------------------------------------------------------------------
(* Shutdown and crash.                                                     *)

\* stop() closes the watcher, waits for the dispatches, disposes the sessions.
Stop ==
  /\ phase = "serving" /\ restarts < MaxRestarts
  /\ phase' = "stopping"
  /\ restarts' = restarts + 1
  /\ UNCHANGED <<durable, target, offset, open, awaits, reply, pool, begun, runs, reviews, acks,
                 everHandled, excused>>

StopSaveStale ==  \* mutant: the cursors the watcher started from are saved
  /\ phase = "stopping" /\ NothingOpen
  /\ session' = [a \in Agents |-> [c \in Channels |-> FALSE]]
  /\ saved' = target
  /\ phase' = "stopped"
  /\ UNCHANGED <<log, handled, shown, target, offset, open, awaits, reply, lane, stage, aborted,
                 history>>

StopSave ==
  /\ phase = "stopping" /\ NothingOpen
  /\ session' = [a \in Agents |-> [c \in Channels |-> FALSE]]
  /\ saved' = offset
  /\ phase' = "stopped"
  /\ UNCHANGED <<log, handled, shown, target, offset, open, awaits, reply, lane, stage, aborted,
                 history>>

Vanish ==
  /\ phase' = "down"
  /\ target' = [c \in Channels |-> 0]
  /\ offset' = [c \in Channels |-> 0]
  /\ open' = [c \in Channels |-> {}]
  /\ awaits' = [c \in Channels |-> [i \in Positions |-> {}]]
  /\ reply' = [c \in Channels |-> [i \in Positions |-> "none"]]
  /\ lane' = [a \in Agents |-> [c \in Channels |-> <<>>]]
  /\ stage' = [a \in Agents |-> [c \in Channels |-> "idle"]]
  /\ aborted' = [a \in Agents |-> [c \in Channels |-> FALSE]]
  /\ session' = [a \in Agents |-> [c \in Channels |-> FALSE]]
  /\ begun' = {}
  /\ excused' = [a \in Names |-> [c \in Channels |-> [i \in Positions |->
                   excused[a][c][i] + (IF <<a, c, i>> \in begun THEN 1 ELSE 0)]]]
  /\ UNCHANGED <<durable, runs, reviews, acks, everHandled>>

Exit == phase = "stopped" /\ Vanish /\ UNCHANGED restarts

Crash ==
  /\ phase # "down" /\ restarts < MaxRestarts
  /\ Vanish
  /\ restarts' = restarts + 1

----------------------------------------------------------------------------
Startup == DrainBegin \/ (\E c \in Channels : DrainNext(c)) \/ DrainEnd \/ Start
Dispatch(c) ==
  \/ WatchEvent(c)
  \/ \E i \in Positions : DispatchEnd(c, i) \/ Answer(c, i) \/ RecordControl(c, i)
Turn(a, c) ==
  \/ TurnStart(a, c) \/ Prompt(a, c) \/ OpenFails(a, c) \/ TurnEnds(a, c) \/ ReviewEnds(a, c)
  \/ Abort(a, c) \/ Settle(a, c) \/ RecordTurn(a, c)
Lane(a, c) == Turn(a, c) \/ ResetSession(a, c) \/ SetSession(a, c)

Next ==
  \/ \E c \in Channels, m \in Messages : Publish(c, m)
  \/ Startup
  \/ \E c \in Channels : Dispatch(c)
  \/ \E a \in Agents, c \in Channels : Lane(a, c)
  \/ Stop \/ StopSave \/ Exit \/ Crash

Spec == Init /\ [][Next]_vars

\* What the gateway does by itself; a model call ends, with an answer or an error.
Goes ==
  \/ Startup \/ StopSave \/ Exit
  \/ \E c \in Channels : WatchEvent(c) \/ Dispatch(c)
  \/ \E a \in Agents, c \in Channels : Lane(a, c)

\* A process that runs goes on with something it can do; nothing else is assumed.
Fairness == WF_vars(Goes)

FairSpec == Spec /\ Fairness

----------------------------------------------------------------------------
(* What inbound delivery promises.                                         *)

TypeOK ==
  /\ log \in [Channels -> Seq(Messages)] /\ \A c \in Channels : Len(log[c]) <= MaxLog
  /\ saved \in [Channels -> 0..MaxLog]
  /\ handled \in [Names -> [Channels -> Seq(Positions)]]
  /\ \A a \in Names, c \in Channels : Len(handled[a][c]) <= MaxHandled
  /\ shown \in [Agents -> [Channels -> 0..MaxLog]]
  /\ phase \in {"down", "draining", "drained", "serving", "stopping", "stopped"}
  /\ target \in [Channels -> 0..MaxLog] /\ offset \in [Channels -> 0..MaxLog]
  /\ open \in [Channels -> SUBSET Positions]
  /\ awaits \in [Channels -> [Positions -> SUBSET Agents]]
  /\ reply \in [Channels -> [Positions -> {"none", "due", "sent"}]]
  /\ lane \in [Agents -> [Channels -> Seq(Positions)]]
  /\ stage \in [Agents -> [Channels ->
       {"idle", "opening", "prompted", "reviewing", "settling", "recording"}]]
  /\ aborted \in [Agents -> [Channels -> BOOLEAN]]
  /\ session \in [Agents -> [Channels -> BOOLEAN]]
  /\ begun \subseteq Names \X Channels \X Positions
  /\ runs \in [Names -> [Channels -> [Positions -> Nat]]]
  /\ reviews \in [Agents -> [Channels -> [Positions -> Nat]]]
  /\ acks \in [Channels -> [Positions -> Nat]]
  /\ everHandled \in [Names -> [Channels -> SUBSET Positions]]
  /\ excused \in [Names -> [Channels -> [Positions -> Nat]]]
  /\ restarts \in 0..MaxRestarts

\* The cursor file never covers a message that some agent it is for has not
\* handled; only watch messages may be passed over (drainBacklog skips them,
\* saveLiveCursorsIfIdle and stop save cursors).
CursorCovered ==
  \A c \in Channels : \A i \in 1..saved[c] :
    Kind(c, i) # "watch" => \A a \in To(c, i) : i \in everHandled[a][c]

\* A turn is prompted and reviewed, and a session operation carried out, once;
\* again only after a crash that came before it was recorded, or after the ledger, which
\* keeps MAX_HANDLED_PER_LANE entries, forgot it.
RerunsExcused ==
  \A a \in Agents, c \in Channels, i \in Positions :
    /\ runs[a][c][i] <= 1 + excused[a][c][i]
    /\ reviews[a][c][i] <= 1 + excused[a][c][i]

\* A lane first prompts a message only when every earlier message it was woken
\* for has been prompted or handled, through backlog, live batches and crashes.
FirstTurnsInOrder ==
  \A a \in Agents, c \in Channels : \A j \in 1..Len(log[c]) :
    Kind(c, j) \in {"text", "watch"} /\ runs[a][c][j] > 0 =>
      \A i \in 1..(j - 1) : Kind(c, i) = "text" /\ a \in To(c, i) =>
        runs[a][c][i] > 0 \/ i \in everHandled[a][c]

\* A stop aborts only a turn whose message came before it: no turn is ever
\* aborted by a stop that was meant for an earlier one.
StopSparesLaterTurns ==
  \A a \in Agents, c \in Channels : Running(a, c) /\ aborted[a][c] =>
    \E i \in (Head1(a, c) + 1)..offset[c] : Kind(c, i) = "stop" /\ a \in To(c, i)

\* A control that the ledger calls handled has had its outcome published: the
\* command that waits for the status is not left to its timeout by a crash.
HandledControlsAnswered ==
  \A c \in Channels : \A i \in 1..Len(log[c]) : \A a \in To(c, i) :
    IsControl(c, i) /\ i \in everHandled[a][c] => acks[c][i] > 0

\* Stops and the other controls settle: with well-typed counters, neither a later turn
\* nor the command that waits for an outcome pays for a crash in between.
ControlsSettle == TypeOK /\ StopSparesLaterTurns /\ HandledControlsAnswered

\* Every message but a watch message is handled by every agent it is for.
EveryMessageHandled ==
  \A c \in Channels, i \in Positions :
    (i <= Len(log[c]) /\ Kind(c, i) # "watch")
      ~> (i <= Len(log[c]) /\ \A a \in To(c, i) : i \in everHandled[a][c])
=============================================================================
