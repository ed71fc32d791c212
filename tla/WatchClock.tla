----------------------------- MODULE WatchClock -----------------------------
(***************************************************************************)
(* The watches of one agent: the clock that finds them due, the runs it    *)
(* starts, and the files that keep the next run times, the runs in         *)
(* progress and the run history (watches/clock.ts, watches/runner.ts,      *)
(* watches/runs.ts, gateway/watch-service.ts).                             *)
(*                                                                         *)
(* A tick computes what is due in one go and then awaits its runs one by   *)
(* one; the interval timer does not wait for it, so ticks overlap.         *)
(***************************************************************************)
EXTENDS Naturals, Sequences, FiniteSets, SequencesExt

CONSTANTS
  Watches,      \* watch ids
  Schedules,    \* triggers: [kind : {"every", "cron"}, n]; cron: the multiples of n
  Policy,       \* Policy[w]: its concurrency policy, forbid or allow
  Emit,         \* Emit[w]: when what its command prints is published
  Outputs,      \* what commands print, by its hash
  Spoken,       \* those with something on stdout
  Ticks,        \* ticks that may have runs at the same time
  MaxHistory,   \* HISTORY_LIMIT
  MaxTime,      \* bound: the clock
  MaxEdits,     \* bound: changes of watches.json
  MaxRestarts   \* bound: crashes and shutdowns

Off == [kind |-> "off", n |-> 0]               \* not in watches.json, or disabled
NoEntry == [key |-> Off, next |-> 0]
Silence == 0                                   \* no output: nothing has run yet
WatchesAssumption == IsFiniteSet(Watches)
SchedulesAssumption == Schedules \subseteq [kind : {"every", "cron"}, n : Nat \ {0}]
PolicyAssumption == Policy \in [Watches -> {"forbid", "allow"}]
EmitPolicies == {"never", "always", "on_output", "on_change", "on_failure"}
EmitAssumption == Emit \in [Watches -> EmitPolicies]
OutputsAssumption == Outputs \subseteq Nat \ {Silence} /\ Spoken \subseteq Outputs
BoundsAssumption ==
  /\ MaxHistory \in Nat \ {0}
  /\ MaxTime \in Nat /\ MaxEdits \in Nat /\ MaxRestarts \in Nat

VARIABLES
  \* durable
  saved,      \* watch-clock.json: saved[w]: [key, next] or NoEntry
  active,     \* active.json: active[w]: the run on record, or 0
  history,    \* runs.jsonl: [watch, status, output], oldest first
  watches,    \* watches.json as last loaded: watches[w]: a schedule or Off
  \* the gateway
  phase,      \* down, up, stopping
  clock,      \* clock[w]: like saved[w]
  pruned,     \* initialStateWasPruned
  ticks,      \* ticks[t]: [due: its watches still to run, run: of the first, or 0]
  \* environment and history
  now, edits, restarts,
  runs,       \* runs started
  fired,      \* fired[w]: its last run due: [occurrence, at, life]
  over,       \* over[w]: its last run due when a tick last saved the clock
  printed,    \* printed[w]: the output of its last successful run
  since,      \* since[w]: records of the agent from that run's on, to MaxHistory + 1
  needless    \* watches that emitted, on change, their last output, still in the history

durable == <<saved, active, history, watches>>
gateway == <<phase, clock, pruned, ticks>>
ghosts == <<runs, fired, over, printed, since, needless>>
vars == <<durable, gateway, now, edits, restarts, ghosts>>

NoRuns == [due |-> <<>>, run |-> 0]

Init ==
  /\ saved = [w \in Watches |-> NoEntry]
  /\ active = [w \in Watches |-> 0]
  /\ history = <<>>
  /\ watches \in [Watches -> Schedules]
  /\ phase = "down"
  /\ clock = [w \in Watches |-> NoEntry]
  /\ pruned = FALSE
  /\ ticks = [t \in Ticks |-> NoRuns]
  /\ now = 0 /\ edits = 0 /\ restarts = 0 /\ runs = 0
  /\ fired = [w \in Watches |-> [occurrence |-> 0, at |-> 0, life |-> 0]]
  /\ over = [w \in Watches |-> 0]
  /\ printed = [w \in Watches |-> Silence]
  /\ since = [w \in Watches |-> 0]
  /\ needless = {}

----------------------------------------------------------------------------
(* The clock.                                                              *)

\* computeNextWatchRunAtMs
NextRun(schedule, time) ==
  IF schedule.kind = "every" THEN time + schedule.n ELSE (time \div schedule.n + 1) * schedule.n

\* ensureState: an entry whose schedule has changed starts afresh.
Ensured(entry, schedule) ==
  CASE schedule = Off -> NoEntry
    [] schedule # Off /\ entry.key = schedule -> entry
    [] schedule # Off /\ entry.key # schedule -> [key |-> schedule, next |-> NextRun(schedule, now)]

\* setWatches and the loading of a saved clock drop watches that are off.
DropOff(entries, file) == [w \in Watches |-> IF file[w] = Off THEN NoEntry ELSE entries[w]]

Start ==
  /\ phase = "down"
  /\ phase' = "up"
  /\ clock' = DropOff(saved, watches)
  /\ pruned' = (clock' # saved)
  /\ UNCHANGED <<durable, ticks, now, edits, restarts, ghosts>>

NextFromDue(entry) == NextRun(entry.key, entry.next)   \* mutant: catches up run by run
NextAfter(entry) == NextRun(entry.key, now)

SetWatches(file) ==
  /\ watches' = file
  /\ clock' = [w \in Watches |-> Ensured(clock[w], file[w])]
  /\ pruned' = FALSE
  /\ saved' = IF pruned \/ clock' # clock THEN clock' ELSE saved

\* A change of watches.json: loaded by the file watcher, or by the next start.
\* A file that does not load leaves the last valid watches in place.
Edit ==
  /\ edits < MaxEdits /\ phase \in {"up", "down"}
  /\ edits' = edits + 1
  /\ \E w \in Watches, s \in Schedules \cup {Off} :
       LET file == [watches EXCEPT ![w] = s]
       IN  IF phase = "up" THEN SetWatches(file)
           ELSE watches' = file /\ UNCHANGED <<saved, clock, pruned>>
  /\ UNCHANGED <<active, history, phase, ticks, now, restarts, ghosts>>

EnsuredClock == [w \in Watches |-> Ensured(clock[w], watches[w])]
Due == {w \in Watches : watches[w] # Off /\ EnsuredClock[w].next <= now}

\* A tick with nothing to run saves at once, if there is a change to save ...
IdleTick ==
  /\ phase = "up" /\ Due = {}
  /\ clock' = EnsuredClock
  /\ pruned' = FALSE
  /\ saved' = IF pruned \/ clock' # clock THEN clock' ELSE saved
  /\ UNCHANGED <<active, history, watches, phase, ticks, now, edits, restarts, ghosts>>

\* ... one with runs advances the clock now and saves it after them.  They go
\* in the order of watches.json, which is any order here.
Tick(t) ==
  /\ phase = "up" /\ Due # {} /\ ticks[t] = NoRuns
  /\ \E order \in SetToSeqs(Due) : ticks' = [ticks EXCEPT ![t].due = order]
  /\ clock' = [w \in Watches |->
       IF w \in Due THEN [EnsuredClock[w] EXCEPT !.next = NextAfter(EnsuredClock[w])]
       ELSE EnsuredClock[w]]
  /\ pruned' = FALSE
  /\ fired' = [w \in Watches |->
       IF w \in Due THEN [occurrence |-> EnsuredClock[w].next, at |-> now, life |-> restarts]
       ELSE fired[w]]
  /\ UNCHANGED <<durable, phase, now, edits, restarts, runs, over, printed, since, needless>>

----------------------------------------------------------------------------
(* runWatchDue: the first due run of a tick.                               *)

Waiting(t) == ticks[t].due # <<>> /\ ticks[t].run = 0
First(t) == Head(ticks[t].due)
NoActive(w) == FALSE                              \* mutant: the record is not looked at
OnRecord(w) == active[w] # 0
Skips(t) == Policy[First(t)] = "forbid" /\ OnRecord(First(t))

RecordAll(w, status, output) ==   \* mutant: no limit
  history' = Append(history, [watch |-> w, status |-> status, output |-> output])
RecordShort(w, status, output) ==   \* mutant: off by one
  LET kept == IF Len(history) < MaxHistory - 1 THEN history ELSE Tail(history)
  IN  history' = Append(kept, [watch |-> w, status |-> status, output |-> output])
\* appendWatchRunRecord keeps the last MaxHistory records of all the agent's watches.
Record(w, status, output) ==
  LET kept == IF Len(history) < MaxHistory THEN history ELSE Tail(history)
  IN  history' = Append(kept, [watch |-> w, status |-> status, output |-> output])

\* History: records since each watch's last success.
Count(w, status) ==
  since' = [v \in Watches |-> IF v = w /\ status = "success" THEN 1
                              ELSE IF since[v] <= MaxHistory THEN since[v] + 1 ELSE since[v]]

\* Without its runs, the tick is over: the clock as it is by now is saved.
SaveBetween(t, due) ==   \* mutant: it saves between its runs, not after the last
  /\ ticks' = [ticks EXCEPT ![t] = [due |-> due, run |-> 0]]
  /\ saved' = IF due = <<>> THEN saved ELSE clock
Proceed(t, due) ==
  /\ ticks' = [ticks EXCEPT ![t] = [due |-> due, run |-> 0]]
  /\ saved' = IF due = <<>> THEN clock ELSE saved

Settle(due) ==
  over' = IF due = <<>> THEN [w \in Watches |-> fired[w].occurrence] ELSE over

Skipped(w) == Record(w, "skipped", Silence)
SkipRun(t) ==
  /\ Waiting(t) /\ Skips(t)
  /\ Skipped(First(t))
  /\ Count(First(t), "skipped")
  /\ Proceed(t, Tail(ticks[t].due)) /\ Settle(Tail(ticks[t].due))
  /\ UNCHANGED <<active, watches, phase, clock, pruned, now, edits, restarts, runs, fired,
                 printed, needless>>

MarkWatchRunActive(w, run) == active' = [active EXCEPT ![w] = run]
StartRun(t) ==
  /\ Waiting(t) /\ ~Skips(t)
  /\ runs' = runs + 1
  /\ MarkWatchRunActive(First(t), runs')
  /\ ticks' = [ticks EXCEPT ![t].run = runs']
  /\ UNCHANGED <<saved, history, watches, phase, clock, pruned, now, edits, restarts, fired,
                 over, printed, since, needless>>

\* latestWatchOutputHash: of the last successful run that the history still has.
LatestOutput(w) ==
  LET S == {i \in DOMAIN history : history[i].watch = w /\ history[i].status = "success"}
  IN  IF S = {} THEN Silence ELSE history[CHOOSE i \in S : \A j \in S : j <= i].output

ClearAfterSuccess(w, run, ok) ==   \* mutant: a failure leaves the run on record
  active' = IF active[w] = run /\ ok THEN [active EXCEPT ![w] = 0] ELSE active
\* clearWatchRunActive, in the finally block.
Clear(w, run, ok) ==
  active' = IF active[w] = run THEN [active EXCEPT ![w] = 0] ELSE active

\* What a command comes to, killed by its timeout or not.
CommandResults == [ok : BOOLEAN, output : Outputs]

\* shouldEmitCommandResult
ShouldEmit(w, command) ==
  \/ Emit[w] = "on_failure" /\ ~command.ok
  \/ /\ command.ok
     /\ \/ Emit[w] = "always"
        \/ Emit[w] = "on_output" /\ command.output \in Spoken
        \/ Emit[w] = "on_change" /\ command.output # LatestOutput(w)

\* runWatchAction: a command is over; what is to be emitted is published, and when
\* that throws the run is a failure.  Only the output of a success is looked at again.
RunWatchAction(w, command, publishes) ==
  LET emits == ShouldEmit(w, command)
      succeeds == command.ok /\ (emits => publishes)
  IN  [status |-> IF succeeds THEN "success" ELSE "failure",
       output |-> IF succeeds THEN command.output ELSE Silence,
       emitted |-> emits /\ publishes]

\* The action is over: its result is recorded, the run cleared.
FinishRun(t, command, publishes) ==
  /\ ticks[t].run # 0
  /\ LET w == First(t)
         result == RunWatchAction(w, command, publishes)
     IN  /\ Record(w, result.status, result.output)
         /\ Count(w, result.status)
         /\ Clear(w, ticks[t].run, result.status = "success")
         /\ needless' = IF /\ Emit[w] = "on_change" /\ result.emitted
                           /\ command.output = printed[w] /\ since[w] <= MaxHistory
                        THEN needless \cup {w} ELSE needless
         /\ printed' = IF result.status = "success" THEN [printed EXCEPT ![w] = command.output]
                       ELSE printed
  /\ Proceed(t, Tail(ticks[t].due)) /\ Settle(Tail(ticks[t].due))
  /\ UNCHANGED <<watches, phase, clock, pruned, now, edits, restarts, runs, fired>>

----------------------------------------------------------------------------
(* Time, shutdown, crash.                                                  *)

Pass ==
  /\ now < MaxTime
  /\ now' = now + 1
  /\ UNCHANGED <<durable, gateway, edits, restarts, ghosts>>

\* shutdown: no more ticks, the clock is saved; runs in progress are not awaited.
Stop ==
  /\ phase = "up" /\ restarts < MaxRestarts
  /\ phase' = "stopping"
  /\ saved' = clock
  /\ UNCHANGED <<active, history, watches, clock, pruned, ticks, now, edits, restarts, ghosts>>

Vanish ==
  /\ phase' = "down"
  /\ clock' = [w \in Watches |-> NoEntry]
  /\ pruned' = FALSE
  /\ ticks' = [t \in Ticks |-> NoRuns]
  /\ restarts' = restarts + 1
  /\ UNCHANGED <<durable, now, edits, ghosts>>

Exit == phase = "stopping" /\ Vanish
Crash == phase = "up" /\ restarts < MaxRestarts /\ Vanish

Next ==
  \/ Start \/ Edit \/ IdleTick \/ Pass \/ Stop \/ Exit \/ Crash
  \/ \E t \in Ticks :
       \/ Tick(t) \/ SkipRun(t) \/ StartRun(t)
       \/ \E command \in CommandResults, publishes \in BOOLEAN : FinishRun(t, command, publishes)

Spec == Init /\ [][Next]_vars

----------------------------------------------------------------------------
(* What watches promise.                                                   *)

Entries == [key : Schedules \cup {Off}, next : Nat]

TypeOK ==
  /\ saved \in [Watches -> Entries] /\ clock \in [Watches -> Entries]
  /\ active \in [Watches -> 0..runs]
  /\ history \in Seq([watch : Watches, status : {"success", "failure", "skipped"},
                      output : Outputs \cup {Silence}])
  /\ Len(history) <= MaxHistory
  /\ watches \in [Watches -> Schedules \cup {Off}]
  /\ phase \in {"down", "up", "stopping"} /\ pruned \in BOOLEAN
  /\ ticks \in [Ticks -> [due : Seq(Watches), run : 0..runs]]
  /\ since \in [Watches -> 0..(MaxHistory + 1)]
  /\ now \in 0..MaxTime /\ edits \in 0..MaxEdits /\ restarts \in 0..MaxRestarts

UnderWay(w) == {t \in Ticks : ticks[t].run # 0 /\ First(t) = w}

\* Two runs of a watch that forbids it are never under way together, however
\* many ticks wait behind slow commands.
ForbidNeverOverlaps ==
  \A w \in Watches : Policy[w] = "forbid" => Cardinality(UnderWay(w)) <= 1

\* A watch never goes back: what falls due is later than what fell due before.
\* Only what no finished tick had saved when the gateway crashed is due again.
FiresAdvance ==
  [][\A w \in Watches : fired'[w] # fired[w] =>
       /\ fired'[w].occurrence > over[w]
       /\ fired'[w].occurrence > fired[w].occurrence \/ fired'[w].life > fired[w].life]_vars

\* Missed runs do not stack up: at any time a gateway finds a watch due once,
\* however often it fell due while the gateway was down or busy.
NotStacked ==
  [][\A w \in Watches : fired'[w] # fired[w] =>
       fired'[w].at > fired[w].at \/ fired'[w].life > fired[w].life]_vars

\* While the gateway stays up, a run is skipped only because another one of the
\* watch is under way.
SkipsExcused ==
  [][\A t \in Ticks : SkipRun(t) => UnderWay(First(t)) # {} \/ restarts > 0]_vars

\* A watch that emits on change does not emit the output it had before, as long
\* as fewer than MaxHistory records, of whichever watch, came in between.
EmitsOnChange == needless = {}

\* watches/runs.ts:203 records of a run "skipped because run ${input.activeRun.runId}
\* is still active".  A run on record when a gateway goes down stays there.
SkipsOnlyActive ==
  [][\A t \in Ticks : SkipRun(t) => UnderWay(First(t)) # {}]_vars
=============================================================================
