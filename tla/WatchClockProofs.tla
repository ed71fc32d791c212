-------------------------- MODULE WatchClockProofs --------------------------
(***************************************************************************)
(* What the watches of an agent promise, for any watches, schedules, ticks *)
(* and restarts: one run at a time where that is asked for, occurrences    *)
(* that only advance, and emissions only of what has changed.              *)
(***************************************************************************)
EXTENDS WatchClock, FiniteSetTheorems, SequenceTheorems, TLAPS

Assumptions ==
  /\ WatchesAssumption /\ SchedulesAssumption /\ PolicyAssumption /\ EmitAssumption
  /\ OutputsAssumption /\ BoundsAssumption

Typed ==
  /\ Assumptions /\ TypeOK
  /\ phase = "stopping" => restarts < MaxRestarts
  /\ runs \in Nat
  /\ fired \in [Watches -> [occurrence : Nat, at : Nat, life : Nat]]
  /\ over \in [Watches -> Nat]
  /\ printed \in [Watches -> Outputs \cup {Silence}]

----------------------------------------------------------------------------
(* Runs.                                                                   *)

\* No two ticks have the same run.
RunsApart ==
  \A t, u \in Ticks : ticks[t].run # 0 /\ ticks[t].run = ticks[u].run => t = u

\* A run is of the first due watch; where runs may not overlap it is the one on record.
RunsOnRecord ==
  \A t \in Ticks : ticks[t].run # 0 =>
    /\ ticks[t].due # <<>>
    /\ Policy[First(t)] = "forbid" => active[First(t)] = ticks[t].run

\* Before the first restart what is on record is under way.
RecordsUnderWay ==
  restarts = 0 => \A w \in Watches : active[w] # 0 =>
    \E t \in Ticks : ticks[t].run = active[w] /\ First(t) = w

RunsInv == RunsApart /\ RunsOnRecord /\ RecordsUnderWay

----------------------------------------------------------------------------
(* Times.                                                                  *)

\* What is past.
FiredBefore ==
  \A w \in Watches :
    /\ fired[w].occurrence <= fired[w].at /\ fired[w].at <= now
    /\ fired[w].life <= restarts /\ over[w] <= now

\* A next run on disk is later than what a finished tick has saved.
SavedAhead == \A w \in Watches : saved[w] # NoEntry => saved[w].next > over[w]

\* One in memory is later than the last one of this life as well, and once a tick has
\* found what is due, than the last one of any life.
ClockAhead ==
  \A w \in Watches : clock[w] # NoEntry =>
    /\ clock[w].next > over[w]
    /\ fired[w].life = restarts \/ (\E t \in Ticks : ticks[t].due # <<>>)
         => clock[w].next > fired[w].at

\* With the gateway down nothing of this life has run.
DownIdle ==
  phase = "down" =>
    /\ \A t \in Ticks : ticks[t] = NoRuns
    /\ \A w \in Watches : fired[w].life < restarts \/ fired[w].at = 0

TimeInv == FiredBefore /\ SavedAhead /\ ClockAhead /\ DownIdle

----------------------------------------------------------------------------
(* Outputs.                                                                *)

\* The last success of a watch, as long as the history has it.
Place(w) == Len(history) + 1 - since[w]
SuccessOf(w, i) == history[i].watch = w /\ history[i].status = "success"
LastKept ==
  \A w \in Watches : printed[w] # Silence /\ since[w] <= MaxHistory =>
    /\ since[w] \in 1..Len(history)
    /\ SuccessOf(w, Place(w)) /\ history[Place(w)].output = printed[w]
    /\ \A j \in 1..Len(history) : SuccessOf(w, j) => j <= Place(w)

EmitInv == LastKept /\ EmitsOnChange

ClockInv == Typed /\ RunsInv /\ TimeInv /\ EmitInv

----------------------------------------------------------------------------
(* The operators.                                                          *)

LEMMA OffIsNone ==
  ASSUME Assumptions
  PROVE  /\ Off \notin Schedules /\ NoEntry \in Entries /\ NoEntry.key = Off
         /\ \A s \in Schedules : s.kind \in {"every", "cron"} /\ s.n \in Nat /\ s.n > 0
<1>1. Schedules \subseteq [kind : {"every", "cron"}, n : Nat \ {0}]
  BY DEF Assumptions, SchedulesAssumption
<1>2. Off \notin Schedules
  BY <1>1 DEF Off
<1> QED BY <1>1, <1>2 DEF NoEntry, Entries

\* A next run is later than the time it is computed from.
LEMMA NextRunLater ==
  ASSUME Assumptions, NEW s \in Schedules, NEW time \in Nat
  PROVE  NextRun(s, time) \in Nat /\ NextRun(s, time) > time
<1> DEFINE n == s.n
<1>1. s.kind \in {"every", "cron"} /\ n \in Nat /\ n > 0
  BY OffIsNone
<1> HIDE DEF n
<1>2. /\ time \div n \in Nat /\ (time \div n + 1) * n \in Nat
      /\ (time \div n + 1) * n > time
  BY <1>1, SMTT(30)
<1>3. time + n \in Nat /\ time + n > time
  BY <1>1
<1> QED BY <1>1, <1>2, <1>3 DEF NextRun, n

LEMMA EnsuredEntry ==
  ASSUME Assumptions, now \in Nat, NEW e \in Entries, NEW s \in Schedules \cup {Off}
  PROVE  /\ Ensured(e, s) \in Entries
         /\ Ensured(e, s) # NoEntry => s # Off /\ (Ensured(e, s) = e \/ Ensured(e, s).next > now)
<1>1. CASE s = Off
  BY <1>1, OffIsNone DEF Ensured
<1>2. CASE s # Off /\ e.key = s
  BY <1>2 DEF Ensured
<1>3. CASE s # Off /\ e.key # s
  <2>1. Ensured(e, s) = [key |-> s, next |-> NextRun(s, now)]
    BY <1>3 DEF Ensured
  <2>2. NextRun(s, now) \in Nat /\ NextRun(s, now) > now
    BY <1>3, NextRunLater
  <2> QED BY <1>3, <2>1, <2>2 DEF Entries
<1> QED BY <1>1, <1>2, <1>3

\* An entry that is due is the one the clock has.
LEMMA DueEntry ==
  ASSUME Typed, NEW w \in Due
  PROVE  /\ clock[w] # NoEntry /\ EnsuredClock[w] = clock[w] /\ clock[w].next <= now
         /\ NextAfter(clock[w]) \in Nat /\ NextAfter(clock[w]) > now
         /\ clock[w].key \in Schedules
<1>1. w \in Watches /\ watches[w] # Off /\ EnsuredClock[w].next <= now
  BY DEF Due
<1>2. /\ Assumptions /\ now \in Nat /\ clock[w] \in Entries
      /\ watches[w] \in Schedules
  BY <1>1 DEF Typed, TypeOK
<1>3. EnsuredClock[w] = Ensured(clock[w], watches[w])
  BY <1>1 DEF EnsuredClock
<1>4. clock[w].key = watches[w]
  <2> SUFFICES ASSUME clock[w].key # watches[w] PROVE FALSE
    OBVIOUS
  <2>1. EnsuredClock[w] = [key |-> watches[w], next |-> NextRun(watches[w], now)]
    BY <1>1, <1>3 DEF Ensured
  <2>2. NextRun(watches[w], now) \in Nat /\ NextRun(watches[w], now) > now
    BY <1>2, NextRunLater
  <2> QED BY <1>1, <1>2, <2>1, <2>2
<1>5. EnsuredClock[w] = clock[w]
  BY <1>1, <1>3, <1>4 DEF Ensured
<1>6. NextAfter(clock[w]) = NextRun(watches[w], now)
  BY <1>4 DEF NextAfter
<1>7. clock[w] # NoEntry
  BY <1>1, <1>2, <1>4, OffIsNone
<1> QED BY <1>1, <1>2, <1>4, <1>5, <1>6, <1>7, NextRunLater

\* The entries a tick or a reload makes sure of.
LEMMA EnsuredClockEntries ==
  ASSUME Typed
  PROVE  /\ EnsuredClock \in [Watches -> Entries]
         /\ \A w \in Watches : EnsuredClock[w] # NoEntry =>
              EnsuredClock[w] = clock[w] \/ EnsuredClock[w].next > now
<1> SUFFICES ASSUME NEW w \in Watches
             PROVE  /\ EnsuredClock[w] \in Entries
                    /\ EnsuredClock[w] # NoEntry =>
                         EnsuredClock[w] = clock[w] \/ EnsuredClock[w].next > now
  BY DEF EnsuredClock
<1>1. Assumptions /\ now \in Nat /\ clock[w] \in Entries /\ watches[w] \in Schedules \cup {Off}
  BY DEF Typed, TypeOK
<1>2. EnsuredClock[w] = Ensured(clock[w], watches[w])
  BY DEF EnsuredClock
<1> QED BY <1>1, <1>2, EnsuredEntry

\* The order of a tick's runs.
LEMMA OrderOfDue ==
  ASSUME Assumptions, NEW order \in SetToSeqs(Due) PROVE order \in Seq(Watches)
<1>1. Due \subseteq Watches /\ IsFiniteSet(Due)
  BY FS_Subset DEF Due, Assumptions, WatchesAssumption
<1>2. Cardinality(Due) \in Nat
  BY <1>1, FS_CardinalityType
<1>3. order \in [1..Cardinality(Due) -> Due]
  BY DEF SetToSeqs
<1> QED BY <1>1, <1>2, <1>3

\* What a record does to the history.
Records == [watch : Watches, status : {"success", "failure", "skipped"},
            output : Outputs \cup {Silence}]
LEMMA RecordKeeps ==
  ASSUME Typed, NEW w \in Watches, NEW status \in {"success", "failure", "skipped"},
         NEW output \in Outputs \cup {Silence}, Record(w, status, output)
  PROVE  /\ history' \in Seq(Records) /\ Len(history') \in 1..MaxHistory
         /\ history'[Len(history')] = [watch |-> w, status |-> status, output |-> output]
         /\ \/ /\ Len(history) < MaxHistory /\ Len(history') = Len(history) + 1
               /\ \A i \in 1..Len(history) : history'[i] = history[i]
            \/ /\ Len(history) = MaxHistory /\ Len(history') = MaxHistory
               /\ \A i \in 1..(MaxHistory - 1) : history'[i] = history[i + 1]
<1> DEFINE r == [watch |-> w, status |-> status, output |-> output]
<1>1. /\ history \in Seq(Records) /\ Len(history) <= MaxHistory /\ r \in Records
      /\ MaxHistory \in Nat /\ MaxHistory > 0 /\ Len(history) \in Nat
  BY DEF Typed, TypeOK, Records, Assumptions, BoundsAssumption
<1>2. CASE Len(history) < MaxHistory
  <2>1. history' = Append(history, r)
    BY <1>2 DEF Record
  <2> HIDE DEF r
  <2> QED BY <1>1, <1>2, <2>1 DEF r
<1>3. CASE ~ (Len(history) < MaxHistory)
  <2>1. Len(history) = MaxHistory /\ history # <<>>
    BY <1>1, <1>3
  <2>2. history' = Append(Tail(history), r)
    BY <1>3 DEF Record
  <2> DEFINE kept == Tail(history)
  <2>3. /\ kept \in Seq(Records) /\ Len(kept) = MaxHistory - 1
        /\ \A i \in 1..(MaxHistory - 1) : kept[i] = history[i + 1]
    BY <1>1, <2>1
  <2> HIDE DEF r, kept
  <2>4. history' = Append(kept, r)
    BY <2>2 DEF kept, r
  <2> QED BY <1>1, <2>1, <2>3, <2>4 DEF r
<1> QED BY <1>2, <1>3

----------------------------------------------------------------------------
(* Types.                                                                  *)

LEMMA InitTyped == ASSUME Assumptions, Init PROVE Typed
<1>1. MaxHistory \in Nat /\ MaxTime \in Nat /\ MaxEdits \in Nat /\ MaxRestarts \in Nat
  BY DEF Assumptions, BoundsAssumption
<1>2. history \in Seq(Records) /\ Len(history) = 0
  BY DEF Init
<1>3. saved \in [Watches -> Entries] /\ clock \in [Watches -> Entries]
  BY OffIsNone DEF Init
<1>4. ticks \in [Ticks -> [due : Seq(Watches), run : 0..runs]]
  BY DEF Init, NoRuns
<1>5. watches \in [Watches -> Schedules \cup {Off}]
  BY DEF Init
<1>6. active \in [Watches -> 0..runs] /\ since \in [Watches -> 0..(MaxHistory + 1)]
  BY <1>1 DEF Init
<1>7. now \in 0..MaxTime /\ edits \in 0..MaxEdits /\ restarts \in 0..MaxRestarts
  BY <1>1 DEF Init
<1>8. Len(history) <= MaxHistory /\ phase \in {"down", "up", "stopping"} /\ pruned \in BOOLEAN
  <2>1. Len(history) <= MaxHistory
    BY <1>1, <1>2
  <2>2. pruned = FALSE /\ phase = "down"
    BY DEF Init
  <2> QED BY <2>1, <2>2
<1>9. TypeOK
  BY <1>2, <1>3, <1>4, <1>5, <1>6, <1>7, <1>8 DEF TypeOK, Records
<1> QED BY <1>9 DEF Typed, Init, Silence

\* What a run leaves of the types.
LEMMA ProceedTyped ==
  ASSUME Typed, NEW t \in Ticks, ticks[t].due # <<>>,
         Proceed(t, Tail(ticks[t].due)), Settle(Tail(ticks[t].due)), runs' = runs
  PROVE  /\ ticks' \in [Ticks -> [due : Seq(Watches), run : 0..runs']]
         /\ saved' \in [Watches -> Entries] /\ over' \in [Watches -> Nat]
         /\ First(t) \in Watches
<1> DEFINE due == Tail(ticks[t].due)
<1>1. ticks[t].due \in Seq(Watches) /\ ticks[t].due # <<>>
  BY DEF Typed, TypeOK
<1>2. due \in Seq(Watches) /\ First(t) \in Watches
  BY <1>1 DEF First
<1> HIDE DEF due
<1>3. Proceed(t, due) /\ Settle(due)
  BY DEF due
<1>4. [due |-> due, run |-> 0] \in [due : Seq(Watches), run : 0..runs']
  BY <1>2 DEF Typed
<1>5. ticks' \in [Ticks -> [due : Seq(Watches), run : 0..runs']]
  BY <1>3, <1>4 DEF Proceed, Typed, TypeOK
<1>6. saved' \in [Watches -> Entries]
  BY <1>3 DEF Proceed, Typed, TypeOK
<1>7. over' \in [Watches -> Nat]
  BY <1>3 DEF Settle, Typed
<1> QED BY <1>2, <1>5, <1>6, <1>7

LEMMA CountTyped ==
  ASSUME Typed, NEW w, NEW status, Count(w, status)
  PROVE  since' \in [Watches -> 0..(MaxHistory + 1)]
BY DEF Typed, TypeOK, Count, Assumptions, BoundsAssumption

LEMMA SetWatchesTyped ==
  ASSUME Typed, NEW file \in [Watches -> Schedules \cup {Off}], SetWatches(file)
  PROVE  /\ clock' \in [Watches -> Entries] /\ saved' \in [Watches -> Entries]
         /\ watches' = file /\ pruned' \in BOOLEAN
         /\ \A w \in Watches : clock'[w] # NoEntry =>
              clock'[w] = clock[w] \/ clock'[w].next > now
<1>1. \A w \in Watches : clock'[w] = Ensured(clock[w], file[w])
  BY DEF SetWatches
<1>2. \A w \in Watches : clock[w] \in Entries /\ file[w] \in Schedules \cup {Off}
  BY DEF Typed, TypeOK
<1>3. \A w \in Watches : clock'[w] \in Entries /\
        (clock'[w] # NoEntry => clock'[w] = clock[w] \/ clock'[w].next > now)
  BY <1>1, <1>2, EnsuredEntry DEF Typed, TypeOK
<1>4. clock' \in [Watches -> Entries]
  BY <1>3 DEF SetWatches
<1> QED BY <1>3, <1>4 DEF SetWatches, Typed, TypeOK

LEMMA TypedStep == ASSUME Typed, RunsOnRecord, [Next]_vars PROVE Typed'
<1> USE DEF durable, gateway, ghosts
<1>. Assumptions'
  BY DEF Typed, Assumptions, WatchesAssumption, SchedulesAssumption, PolicyAssumption,
         EmitAssumption, OutputsAssumption, BoundsAssumption
<1>0. /\ Assumptions /\ TypeOK
      /\ MaxHistory \in Nat /\ MaxTime \in Nat /\ MaxEdits \in Nat /\ MaxRestarts \in Nat
      /\ now \in Nat /\ edits \in Nat /\ restarts \in Nat /\ runs \in Nat
      /\ fired \in [Watches -> [occurrence : Nat, at : Nat, life : Nat]]
      /\ over \in [Watches -> Nat] /\ printed \in [Watches -> Outputs \cup {Silence}]
      /\ phase = "stopping" => restarts < MaxRestarts
  BY DEF Typed, TypeOK, Assumptions, BoundsAssumption
<1>1. CASE UNCHANGED vars
  BY <1>0, <1>1 DEF Typed, TypeOK, vars
<1>2. CASE Start
  <2>1. clock' \in [Watches -> Entries] /\ pruned' \in BOOLEAN
    BY <1>0, <1>2, OffIsNone DEF Start, DropOff, TypeOK
  <2> QED BY <1>0, <1>2, <2>1 DEF Start, Typed, TypeOK
<1>3. CASE Edit
  <2>1. PICK w \in Watches, s \in Schedules \cup {Off} :
          IF phase = "up" THEN SetWatches([watches EXCEPT ![w] = s])
          ELSE watches' = [watches EXCEPT ![w] = s] /\ UNCHANGED <<saved, clock, pruned>>
    BY <1>3 DEF Edit
  <2>2. [watches EXCEPT ![w] = s] \in [Watches -> Schedules \cup {Off}]
    BY <1>0 DEF TypeOK
  <2>3. /\ clock' \in [Watches -> Entries] /\ saved' \in [Watches -> Entries]
        /\ watches' \in [Watches -> Schedules \cup {Off}] /\ pruned' \in BOOLEAN
    BY <1>0, <2>1, <2>2, SetWatchesTyped DEF TypeOK
  <2>4. edits' \in 0..MaxEdits
    BY <1>0, <1>3 DEF Edit
  <2> QED BY <1>0, <1>3, <2>3, <2>4 DEF Edit, Typed, TypeOK
<1>4. CASE IdleTick
  <2>1. clock' \in [Watches -> Entries] /\ saved' \in [Watches -> Entries] /\ pruned' \in BOOLEAN
    BY <1>0, <1>4, EnsuredClockEntries DEF IdleTick, TypeOK
  <2> QED BY <1>0, <1>4, <2>1 DEF IdleTick, Typed, TypeOK
<1>5. CASE Pass
  BY <1>0, <1>5 DEF Pass, Typed, TypeOK
<1>6. CASE Stop
  BY <1>0, <1>6 DEF Stop, Typed, TypeOK
<1>7. CASE Exit \/ Crash
  <2>1. Vanish
    BY <1>7 DEF Exit, Crash
  <2>2. restarts' \in 0..MaxRestarts
    BY <1>0, <1>7 DEF Exit, Crash, Vanish
  <2>3. clock' \in [Watches -> Entries] /\ ticks' \in [Ticks -> [due : Seq(Watches), run : 0..runs]]
    BY <1>0, <2>1, OffIsNone DEF Vanish, NoRuns
  <2> QED BY <1>0, <2>1, <2>2, <2>3 DEF Vanish, Typed, TypeOK
<1>8. ASSUME NEW t \in Ticks, Tick(t) PROVE Typed'
  <2>1. PICK order \in SetToSeqs(Due) : ticks' = [ticks EXCEPT ![t].due = order]
    BY <1>8 DEF Tick
  <2>2. ticks' \in [Ticks -> [due : Seq(Watches), run : 0..runs]]
    BY <1>0, <2>1, OrderOfDue DEF TypeOK
  <2>3. \A w \in Watches : clock'[w] \in Entries
    <3> SUFFICES ASSUME NEW w \in Watches PROVE clock'[w] \in Entries
      OBVIOUS
    <3>1. CASE w \in Due
      <4>1. clock'[w] = [clock[w] EXCEPT !.next = NextAfter(clock[w])]
        BY <1>8, <3>1, DueEntry DEF Tick
      <4>2. clock[w] \in Entries /\ NextAfter(clock[w]) \in Nat
        BY <1>0, <3>1, DueEntry DEF TypeOK
      <4> QED BY <4>1, <4>2 DEF Entries
    <3>2. CASE w \notin Due
      BY <1>8, <3>2, EnsuredClockEntries DEF Tick
    <3> QED BY <3>1, <3>2
  <2>4. clock' \in [Watches -> Entries]
    BY <1>8, <2>3 DEF Tick
  <2>5. fired' \in [Watches -> [occurrence : Nat, at : Nat, life : Nat]]
    BY <1>0, <1>8, EnsuredClockEntries DEF Tick, Entries
  <2> QED BY <1>0, <1>8, <2>2, <2>4, <2>5 DEF Tick, Typed, TypeOK
<1>9. ASSUME NEW t \in Ticks, SkipRun(t) PROVE Typed'
  <2>1. ticks[t].due # <<>> /\ runs' = runs
    BY <1>9 DEF SkipRun, Waiting
  <2>2. /\ ticks' \in [Ticks -> [due : Seq(Watches), run : 0..runs']]
        /\ saved' \in [Watches -> Entries] /\ over' \in [Watches -> Nat] /\ First(t) \in Watches
    BY <1>9, <2>1, ProceedTyped DEF SkipRun
  <2>3. history' \in Seq(Records) /\ Len(history') <= MaxHistory
    <3>1. Record(First(t), "skipped", Silence)
      BY <1>9 DEF SkipRun, Skipped
    <3>2. "skipped" \in {"success", "failure", "skipped"} /\ Silence \in Outputs \cup {Silence}
      OBVIOUS
    <3>3. history' \in Seq(Records) /\ Len(history') \in 1..MaxHistory
      BY <2>2, <3>1, <3>2, RecordKeeps
    <3> QED BY <1>0, <3>3
  <2>4. since' \in [Watches -> 0..(MaxHistory + 1)]
    BY <1>9, CountTyped DEF SkipRun
  <2> QED BY <1>0, <1>9, <2>2, <2>3, <2>4 DEF SkipRun, Typed, TypeOK, Records
<1>10. ASSUME NEW t \in Ticks, StartRun(t) PROVE Typed'
  <2>1. runs' = runs + 1 /\ runs' \in Nat /\ 0..runs \subseteq 0..runs' /\ runs' \in 0..runs'
    BY <1>0, <1>10 DEF StartRun
  <2>2. ticks' \in [Ticks -> [due : Seq(Watches), run : 0..runs']]
    <3>1. ticks \in [Ticks -> [due : Seq(Watches), run : 0..runs']]
      BY <1>0, <2>1 DEF TypeOK
    <3> QED BY <1>10, <2>1, <3>1 DEF StartRun
  <2>3. active' \in [Watches -> 0..runs']
    BY <1>0, <1>10, <2>1 DEF StartRun, MarkWatchRunActive, TypeOK
  <2> QED BY <1>0, <1>10, <2>1, <2>2, <2>3 DEF StartRun, Typed, TypeOK
<1>11. ASSUME NEW t \in Ticks, NEW command \in CommandResults, NEW publishes \in BOOLEAN,
              FinishRun(t, command, publishes)
       PROVE  Typed'
  <2>1. ticks[t].run # 0 /\ ticks[t].due # <<>> /\ runs' = runs
    BY <1>11 DEF FinishRun, RunsOnRecord
  <2>2. /\ ticks' \in [Ticks -> [due : Seq(Watches), run : 0..runs']]
        /\ saved' \in [Watches -> Entries] /\ over' \in [Watches -> Nat] /\ First(t) \in Watches
    BY <1>11, <2>1, ProceedTyped DEF FinishRun
  <2> DEFINE result == RunWatchAction(First(t), command, publishes)
  <2>3. /\ result.status \in {"success", "failure", "skipped"}
        /\ result.output \in Outputs \cup {Silence} /\ command.output \in Outputs
    BY DEF RunWatchAction, CommandResults
  <2>4. /\ Record(First(t), result.status, result.output) /\ Count(First(t), result.status)
        /\ Clear(First(t), ticks[t].run, result.status = "success")
        /\ printed' = IF result.status = "success"
                        THEN [printed EXCEPT ![First(t)] = command.output] ELSE printed
    BY <1>11 DEF FinishRun
  <2> HIDE DEF result
  <2>5. history' \in Seq(Records) /\ Len(history') <= MaxHistory
    <3>1. history' \in Seq(Records) /\ Len(history') \in 1..MaxHistory
      BY <2>2, <2>3, <2>4, RecordKeeps
    <3> QED BY <1>0, <3>1
  <2>6. since' \in [Watches -> 0..(MaxHistory + 1)]
    BY <2>4, CountTyped
  <2>7. active' \in [Watches -> 0..runs]
    <3>1. active' = active \/ active' = [active EXCEPT ![First(t)] = 0]
      BY <2>4 DEF Clear
    <3>2. active \in [Watches -> 0..runs] /\ 0 \in 0..runs
      BY <1>0 DEF TypeOK
    <3> QED BY <3>1, <3>2
  <2>8. printed' \in [Watches -> Outputs \cup {Silence}]
    BY <1>0, <2>3, <2>4
  <2> QED BY <1>0, <1>11, <2>1, <2>2, <2>5, <2>6, <2>7, <2>8 DEF FinishRun, Typed, TypeOK, Records
<1> QED BY <1>1, <1>2, <1>3, <1>4, <1>5, <1>6, <1>7, <1>8, <1>9, <1>10, <1>11 DEF Next

----------------------------------------------------------------------------
(* Runs.                                                                   *)

LEMMA RunsStep == ASSUME Typed, RunsInv, Typed', [Next]_vars PROVE RunsInv'
<1> USE DEF durable, gateway, ghosts
<1>0. /\ ticks \in [Ticks -> [due : Seq(Watches), run : 0..runs]]
      /\ active \in [Watches -> 0..runs] /\ runs \in Nat /\ restarts \in Nat
  BY DEF Typed, TypeOK
<1>1. ASSUME UNCHANGED <<ticks, active, restarts>> PROVE RunsInv'
  BY <1>1 DEF RunsInv, RunsApart, RunsOnRecord, RecordsUnderWay, First
<1>2. CASE Vanish
  <2>1. (\A t \in Ticks : ticks'[t].run = 0) /\ restarts' # 0
    BY <1>0, <1>2 DEF Vanish, NoRuns
  <2> QED BY <2>1 DEF RunsInv, RunsApart, RunsOnRecord, RecordsUnderWay
\* Ticks without a run come and go.
<1>3. ASSUME NEW t \in Ticks, ticks[t].run = 0, ticks'[t].run = 0,
             \A u \in Ticks \ {t} : ticks'[u] = ticks[u], UNCHANGED <<active, restarts>>
      PROVE  RunsInv'
  <2>1. RunsApart'
    BY <1>3 DEF RunsInv, RunsApart
  <2>2. RunsOnRecord'
    BY <1>3 DEF RunsInv, RunsOnRecord, First
  <2>3. RecordsUnderWay'
    BY <1>3 DEF RunsInv, RecordsUnderWay, First
  <2> QED BY <2>1, <2>2, <2>3 DEF RunsInv
<1>4. ASSUME NEW t \in Ticks, Tick(t) PROVE RunsInv'
  <2>1. PICK order \in SetToSeqs(Due) : ticks' = [ticks EXCEPT ![t].due = order]
    BY <1>4 DEF Tick
  <2>2. ticks[t].run = 0 /\ ticks'[t].run = 0 /\ \A u \in Ticks \ {t} : ticks'[u] = ticks[u]
    BY <1>0, <1>4, <2>1 DEF Tick, NoRuns
  <2> QED BY <1>3, <1>4, <2>2 DEF Tick
<1>5. ASSUME NEW t \in Ticks, SkipRun(t) PROVE RunsInv'
  <2>1. ticks[t].run = 0 /\ ticks'[t].run = 0 /\ \A u \in Ticks \ {t} : ticks'[u] = ticks[u]
    BY <1>0, <1>5 DEF SkipRun, Waiting, Proceed
  <2> QED BY <1>3, <1>5, <2>1 DEF SkipRun
<1>6. ASSUME NEW t \in Ticks, StartRun(t) PROVE RunsInv'
  <2> DEFINE w == First(t)
  <2>1. /\ ticks[t].due # <<>> /\ ticks[t].due \in Seq(Watches) /\ ticks[t].run = 0
        /\ Policy[w] = "forbid" => active[w] = 0
    BY <1>0, <1>6 DEF StartRun, Waiting, Skips, OnRecord
  <2>2. w \in Watches
    BY <2>1 DEF First
  <2>3. /\ ticks'[t].run = runs + 1 /\ ticks'[t].due = ticks[t].due
        /\ \A u \in Ticks \ {t} : ticks'[u] = ticks[u]
        /\ active' = [active EXCEPT ![w] = runs + 1] /\ restarts' = restarts
    BY <1>0, <1>6 DEF StartRun, MarkWatchRunActive
  <2>4. \A u \in Ticks : First(u)' = First(u)
    BY <2>3 DEF First
  <2>5. /\ \A u \in Ticks : ticks[u].run \in Nat /\ ticks[u].run <= runs
        /\ active'[w] = runs + 1 /\ \A v \in Watches \ {w} : active'[v] = active[v]
    BY <1>0, <2>2, <2>3
  <2> HIDE DEF w
  <2>6. RunsApart'
    <3> SUFFICES ASSUME NEW u \in Ticks, NEW v \in Ticks, ticks'[u].run # 0,
                        ticks'[u].run = ticks'[v].run, u # v
                 PROVE  FALSE
      BY DEF RunsApart
    <3>1. ticks[u].run # runs + 1 /\ ticks[v].run # runs + 1
      BY <1>0, <2>5
    <3>2. u # t /\ v # t
      BY <2>3, <3>1
    <3> QED BY <2>3, <3>2 DEF RunsInv, RunsApart
  <2>7. RunsOnRecord'
    <3> SUFFICES ASSUME NEW u \in Ticks, ticks'[u].run # 0
                 PROVE  /\ ticks'[u].due # <<>>
                        /\ Policy[First(u)] = "forbid" => active'[First(u)] = ticks'[u].run
      BY <2>4 DEF RunsOnRecord
    <3>1. CASE u = t
      BY <2>1, <2>3, <2>5, <3>1 DEF w
    <3>2. CASE u # t
      <4>1. ticks'[u] = ticks[u] /\ ticks[u].run # 0 /\ ticks[u].due # <<>>
        BY <2>3, <3>2 DEF RunsInv, RunsOnRecord
      <4>2. First(u) \in Watches
        BY <1>0, <4>1 DEF First
      <4>3. Policy[First(u)] = "forbid" => active[First(u)] = ticks[u].run
        BY <4>1 DEF RunsInv, RunsOnRecord
      <4>4. Policy[First(u)] = "forbid" => First(u) # w
        BY <2>1, <4>1, <4>3
      <4> QED BY <2>5, <4>1, <4>2, <4>3, <4>4
    <3> QED BY <3>1, <3>2
  <2>8. RecordsUnderWay'
    <3> SUFFICES ASSUME restarts = 0, NEW v \in Watches, active'[v] # 0
                 PROVE  \E u \in Ticks : ticks'[u].run = active'[v] /\ First(u) = v
      BY <2>3, <2>4 DEF RecordsUnderWay
    <3>1. CASE v = w
      BY <2>3, <2>5, <3>1 DEF w
    <3>2. CASE v # w
      <4>1. active[v] # 0 /\ active'[v] = active[v]
        BY <2>5, <3>2
      <4>2. PICK u \in Ticks : ticks[u].run = active[v] /\ First(u) = v
        BY <4>1 DEF RunsInv, RecordsUnderWay
      <4>3. u # t
        BY <2>1, <4>1, <4>2
      <4> QED BY <2>3, <4>1, <4>2, <4>3
    <3> QED BY <3>1, <3>2
  <2> QED BY <2>6, <2>7, <2>8 DEF RunsInv
<1>7. ASSUME NEW t \in Ticks, NEW command \in CommandResults, NEW publishes \in BOOLEAN,
             FinishRun(t, command, publishes)
      PROVE  RunsInv'
  <2> DEFINE w == First(t)
  <2>1. ticks[t].run # 0 /\ ticks[t].due # <<>> /\ ticks[t].due \in Seq(Watches)
    BY <1>0, <1>7 DEF FinishRun, RunsInv, RunsOnRecord
  <2>2. w \in Watches
    BY <2>1 DEF First
  <2>3. /\ ticks'[t].run = 0 /\ \A u \in Ticks \ {t} : ticks'[u] = ticks[u]
        /\ active' = IF active[w] = ticks[t].run THEN [active EXCEPT ![w] = 0] ELSE active
        /\ restarts' = restarts
    BY <1>0, <1>7 DEF FinishRun, Proceed, Clear
  <2>4. /\ \A u \in Ticks \ {t} : First(u)' = First(u)
        /\ \A v \in Watches : active'[v] = IF v = w /\ active[w] = ticks[t].run THEN 0 ELSE active[v]
    BY <1>0, <2>2, <2>3 DEF First
  <2> HIDE DEF w
  <2>5. RunsApart'
    BY <2>3 DEF RunsInv, RunsApart
  <2>6. RunsOnRecord'
    <3> SUFFICES ASSUME NEW u \in Ticks \ {t}, ticks[u].run # 0
                 PROVE  /\ ticks[u].due # <<>>
                        /\ Policy[First(u)] = "forbid" => active'[First(u)] = ticks[u].run
      BY <2>3, <2>4 DEF RunsOnRecord
    <3>1. ticks[u].due # <<>> /\ (Policy[First(u)] = "forbid" => active[First(u)] = ticks[u].run)
      BY DEF RunsInv, RunsOnRecord
    <3>2. First(u) \in Watches
      BY <1>0, <3>1 DEF First
    <3>3. ticks[u].run # ticks[t].run
      BY <2>1 DEF RunsInv, RunsApart
    <3> QED BY <2>4, <3>1, <3>2, <3>3
  <2>7. RecordsUnderWay'
    <3> SUFFICES ASSUME restarts = 0, NEW v \in Watches, active'[v] # 0
                 PROVE  \E u \in Ticks \ {t} : ticks[u].run = active'[v] /\ First(u) = v
      BY <2>3, <2>4 DEF RecordsUnderWay
    <3>1. active'[v] = active[v] /\ active[v] # 0 /\ ~ (v = w /\ active[w] = ticks[t].run)
      BY <2>4
    <3>2. PICK u \in Ticks : ticks[u].run = active[v] /\ First(u) = v
      BY <3>1 DEF RunsInv, RecordsUnderWay
    <3>3. u # t
      BY <3>1, <3>2 DEF w
    <3> QED BY <3>1, <3>2, <3>3
  <2> QED BY <2>5, <2>6, <2>7 DEF RunsInv
<1>8. (Start \/ Edit \/ IdleTick \/ Pass \/ Stop \/ UNCHANGED vars)
        => UNCHANGED <<ticks, active, restarts>>
  BY DEF Start, Edit, IdleTick, Pass, Stop, vars
<1> QED BY <1>1, <1>2, <1>4, <1>5, <1>6, <1>7, <1>8 DEF Next, Exit, Crash

LEMMA OneUnderWay == ASSUME RunsInv PROVE ForbidNeverOverlaps
<1> SUFFICES ASSUME NEW w \in Watches, Policy[w] = "forbid" PROVE Cardinality(UnderWay(w)) <= 1
  BY DEF ForbidNeverOverlaps
<1>1. \A t, u \in UnderWay(w) : t = u
  BY DEF UnderWay, RunsInv, RunsApart, RunsOnRecord
<1>2. CASE UnderWay(w) = {}
  BY <1>2, FS_EmptySet
<1>3. CASE \E t \in UnderWay(w) : UnderWay(w) = {t}
  <2>1. PICK t : UnderWay(w) = {t}
    BY <1>3
  <2>2. Cardinality({t}) = 1
    BY FS_Singleton
  <2> QED BY <2>1, <2>2
<1> QED BY <1>1, <1>2, <1>3

----------------------------------------------------------------------------
(* Times.                                                                  *)

\* What the clock's entries become, but for those that fall due.
Refreshed(w) == clock'[w] # NoEntry => clock'[w] = clock[w] \/ clock'[w].next > now

Busy == \E t \in Ticks : ticks[t].due # <<>>

LEMMA TimesTyped ==
  ASSUME Typed
  PROVE  /\ now \in Nat /\ restarts \in Nat
         /\ \A w \in Watches :
              /\ fired[w].occurrence \in Nat /\ fired[w].at \in Nat /\ fired[w].life \in Nat
              /\ over[w] \in Nat /\ saved[w].next \in Nat /\ clock[w].next \in Nat
BY SMTT(40) DEF Typed, TypeOK, Entries

\* A step in which nothing falls due.
LEMMA NothingDue ==
  ASSUME Typed, TimeInv, Typed', now <= now', \A w \in Watches : Refreshed(w),
         \A w \in Watches : saved'[w] = saved[w] \/ saved'[w] = clock'[w],
         Busy' => Busy, phase' = "down" => phase = "down" /\ ticks' = ticks,
         UNCHANGED <<fired, over, restarts>>
  PROVE  TimeInv'
<1>0. now' \in Nat /\ \A w \in Watches : clock'[w].next \in Nat
  BY DEF Typed, TypeOK, Entries
<1>1. FiredBefore'
  BY <1>0, TimesTyped DEF TimeInv, FiredBefore
<1>2. ClockAhead'
  <2> SUFFICES ASSUME NEW w \in Watches, clock'[w] # NoEntry
               PROVE  /\ clock'[w].next > over[w]
                      /\ fired[w].life = restarts \/ Busy' => clock'[w].next > fired[w].at
    BY DEF ClockAhead, Busy
  <2>1. CASE clock'[w] = clock[w]
    BY <2>1 DEF TimeInv, ClockAhead, Busy
  <2>2. CASE clock'[w].next > now
    BY <1>0, <2>2, TimesTyped DEF TimeInv, FiredBefore
  <2> QED BY <2>1, <2>2 DEF Refreshed
<1>3. SavedAhead'
  BY <1>2 DEF TimeInv, SavedAhead, ClockAhead
<1>4. DownIdle'
  BY DEF TimeInv, DownIdle
<1> QED BY <1>1, <1>2, <1>3, <1>4 DEF TimeInv

LEMMA StartTimes == ASSUME Typed, TimeInv, Typed', Start PROVE TimeInv'
<1> USE DEF durable, ghosts
<1>1. /\ UNCHANGED <<saved, ticks, now, restarts, fired, over>>
      /\ \A t \in Ticks : ticks[t].due = <<>>
      /\ \A w \in Watches : fired[w].life < restarts \/ fired[w].at = 0
  BY DEF Start, TimeInv, DownIdle, NoRuns
<1>2. FiredBefore' /\ SavedAhead' /\ DownIdle'
  BY <1>1 DEF Start, TimeInv, FiredBefore, SavedAhead, DownIdle
<1>3. ClockAhead'
  <2> SUFFICES ASSUME NEW w \in Watches, clock'[w] # NoEntry
               PROVE  /\ clock'[w].next > over[w]
                      /\ fired[w].life = restarts => clock'[w].next > fired[w].at
    BY <1>1 DEF ClockAhead
  <2>1. clock'[w] = saved[w] /\ saved[w].next > over[w]
    BY DEF Start, DropOff, TimeInv, SavedAhead
  <2> QED BY <1>1, <2>1, TimesTyped
<1> QED BY <1>2, <1>3 DEF TimeInv

LEMMA VanishTimes == ASSUME Typed, TimeInv, Vanish PROVE TimeInv'
<1> USE DEF durable, ghosts
<1>1. /\ UNCHANGED <<saved, now, fired, over>> /\ restarts' = restarts + 1
      /\ \A w \in Watches : clock'[w] = NoEntry
      /\ \A t \in Ticks : ticks'[t] = NoRuns
  BY DEF Vanish
<1>2. FiredBefore' /\ (\A w \in Watches : fired'[w].life < restarts')
  BY <1>1, TimesTyped DEF TimeInv, FiredBefore
<1>3. SavedAhead' /\ ClockAhead'
  BY <1>1 DEF TimeInv, SavedAhead, ClockAhead
<1> QED BY <1>1, <1>2, <1>3 DEF TimeInv, DownIdle

\* What falls due does so once.
LEMMA TickTimes ==
  ASSUME Typed, TimeInv, Typed', NEW t \in Ticks, Tick(t) PROVE TimeInv'
<1> USE DEF durable
<1>1. /\ UNCHANGED <<saved, now, over, restarts>> /\ phase' # "down"
      /\ \A w \in Due : fired'[w] = [occurrence |-> clock[w].next, at |-> now, life |-> restarts]
      /\ \A w \in Watches \ Due : fired'[w] = fired[w]
  BY DueEntry DEF Tick, Due
<1>2. \A w \in Due : /\ clock'[w].next > now /\ clock'[w].next \in Nat
                     /\ clock[w] # NoEntry /\ clock[w].next <= now
  <2> SUFFICES ASSUME NEW w \in Due PROVE clock'[w].next > now /\ clock'[w].next \in Nat
    BY DueEntry
  <2>1. clock'[w] = [clock[w] EXCEPT !.next = NextAfter(clock[w])]
    BY DueEntry DEF Tick, Due
  <2>2. clock[w] \in Entries
    BY DEF Typed, TypeOK, Due
  <2> QED BY <2>1, <2>2, DueEntry DEF Entries
<1>3. \A w \in Watches \ Due : clock'[w] # NoEntry => clock'[w].next > now /\ clock'[w].next \in Nat
  <2> SUFFICES ASSUME NEW w \in Watches \ Due, clock'[w] # NoEntry
               PROVE  clock'[w].next > now /\ clock'[w].next \in Nat
    OBVIOUS
  <2>1. clock'[w] = EnsuredClock[w] /\ EnsuredClock[w] = Ensured(clock[w], watches[w])
    BY DEF Tick, EnsuredClock
  <2>2. watches[w] # Off
    BY <2>1 DEF Ensured
  <2>3. ~ (EnsuredClock[w].next <= now)
    BY <2>2 DEF Due
  <2> QED BY <2>1, <2>3, EnsuredClockEntries, TimesTyped DEF Entries
<1>4. FiredBefore'
  <2> SUFFICES ASSUME NEW w \in Watches
               PROVE  /\ fired'[w].occurrence <= fired'[w].at /\ fired'[w].at <= now
                      /\ fired'[w].life <= restarts /\ over[w] <= now
    BY <1>1 DEF FiredBefore
  <2>1. CASE w \in Due
    <3>. fired'[w] = [occurrence |-> clock[w].next, at |-> now, life |-> restarts]
      BY <1>1, <2>1
    <3>1. /\ fired'[w].occurrence = clock[w].next /\ fired'[w].at = now
          /\ fired'[w].life = restarts
      OBVIOUS
    <3> QED BY <1>2, <2>1, <3>1, TimesTyped DEF TimeInv, FiredBefore
  <2>2. CASE w \notin Due
    BY <1>1, <2>2 DEF TimeInv, FiredBefore
  <2> QED BY <2>1, <2>2
<1>5. ClockAhead'
  <2> SUFFICES ASSUME NEW w \in Watches, clock'[w] # NoEntry
               PROVE  clock'[w].next > over'[w] /\ clock'[w].next > fired'[w].at
    BY DEF ClockAhead
  <2>1. clock'[w].next > now /\ clock'[w].next \in Nat
    BY <1>2, <1>3
  <2>2. over'[w] <= now /\ fired'[w].at <= now /\ fired'[w].at \in Nat /\ over'[w] \in Nat
    BY <1>1, <1>4, TimesTyped DEF FiredBefore, Typed
  <2> QED BY <2>1, <2>2, TimesTyped
<1>6. SavedAhead' /\ DownIdle'
  BY <1>1 DEF TimeInv, SavedAhead, DownIdle
<1> QED BY <1>4, <1>5, <1>6 DEF TimeInv

\* A tick that is over saves the clock.
LEMMA RunOverTimes ==
  ASSUME Typed, TimeInv, Typed', NEW t \in Ticks, ticks[t].due # <<>>,
         Proceed(t, Tail(ticks[t].due)), Settle(Tail(ticks[t].due)),
         UNCHANGED <<phase, clock, now, restarts, fired>>
  PROVE  TimeInv'
<1>1. Busy /\ phase # "down"
  BY DEF Busy, TimeInv, DownIdle, NoRuns
<1>2. CASE Tail(ticks[t].due) # <<>>
  <2>1. saved' = saved /\ over' = over
    BY <1>2 DEF Proceed, Settle
  <2> QED BY <1>1, <2>1, NothingDue, TimesTyped DEF Refreshed
<1>3. CASE Tail(ticks[t].due) = <<>>
  <2>1. saved' = clock /\ \A w \in Watches : over'[w] = fired[w].occurrence
    BY <1>3 DEF Proceed, Settle
  <2>2. \A w \in Watches : clock[w] # NoEntry =>
          clock[w].next > fired[w].at /\ clock[w].next > fired[w].occurrence
    BY <1>1, TimesTyped DEF TimeInv, ClockAhead, FiredBefore, Busy
  <2>3. FiredBefore'
    BY <2>1, TimesTyped DEF TimeInv, FiredBefore
  <2>4. ClockAhead' /\ SavedAhead'
    BY <2>1, <2>2 DEF ClockAhead, SavedAhead
  <2> QED BY <1>1, <2>3, <2>4 DEF TimeInv, DownIdle
<1> QED BY <1>2, <1>3

LEMMA TimeStep ==
  ASSUME Typed, RunsInv, TimeInv, Typed', [Next]_vars PROVE TimeInv'
<1> USE DEF durable, gateway, ghosts
<1>0. now \in Nat
  BY TimesTyped
<1>1. CASE UNCHANGED vars
  BY <1>0, <1>1, NothingDue DEF vars, Refreshed, Busy
<1>2. CASE Edit
  <2>1. PICK w \in Watches, s \in Schedules \cup {Off} :
          IF phase = "up" THEN SetWatches([watches EXCEPT ![w] = s])
          ELSE watches' = [watches EXCEPT ![w] = s] /\ UNCHANGED <<saved, clock, pruned>>
    BY <1>2 DEF Edit
  <2>2. [watches EXCEPT ![w] = s] \in [Watches -> Schedules \cup {Off}]
    BY DEF Typed, TypeOK
  <2>3. \A v \in Watches : Refreshed(v)
    BY <2>1, <2>2, SetWatchesTyped DEF Refreshed
  <2>4. saved' = saved \/ saved' = clock'
    BY <2>1 DEF SetWatches
  <2> QED BY <1>0, <1>2, <2>3, <2>4, NothingDue DEF Edit, Busy
<1>3. CASE IdleTick
  <2>1. \A v \in Watches : Refreshed(v)
    BY <1>3, EnsuredClockEntries DEF IdleTick, Refreshed
  <2>2. saved' = saved \/ saved' = clock'
    BY <1>3 DEF IdleTick
  <2> QED BY <1>0, <1>3, <2>1, <2>2, NothingDue DEF IdleTick, Busy
<1>4. CASE Pass
  BY <1>0, <1>4, NothingDue DEF Pass, Refreshed, Busy
<1>5. CASE Stop
  BY <1>0, <1>5, NothingDue DEF Stop, Refreshed, Busy
<1>6. ASSUME NEW t \in Ticks, StartRun(t) PROVE TimeInv'
  <2>1. \A u \in Ticks : ticks'[u].due = ticks[u].due
    BY <1>6 DEF StartRun, Typed, TypeOK
  <2>2. phase' # "down"
    BY <1>6 DEF StartRun, Waiting, TimeInv, DownIdle, NoRuns
  <2> QED BY <1>0, <1>6, <2>1, <2>2, NothingDue DEF StartRun, Refreshed, Busy
<1>7. ASSUME NEW t \in Ticks, SkipRun(t) PROVE TimeInv'
  BY <1>7, RunOverTimes DEF SkipRun, Waiting
<1>8. ASSUME NEW t \in Ticks, NEW command \in CommandResults, NEW publishes \in BOOLEAN,
             FinishRun(t, command, publishes)
      PROVE  TimeInv'
  <2>1. ticks[t].due # <<>>
    BY <1>8 DEF FinishRun, RunsInv, RunsOnRecord
  <2> QED BY <1>8, <2>1, RunOverTimes DEF FinishRun
<1> QED BY <1>1, <1>2, <1>3, <1>4, <1>5, <1>6, <1>7, <1>8, StartTimes, VanishTimes, TickTimes
      DEF Next, Exit, Crash

\* The three promises about times, step by step.
LEMMA FiresStep ==
  ASSUME Typed, TimeInv, [Next]_vars, NEW w \in Watches, fired'[w] # fired[w]
  PROVE  /\ fired'[w].occurrence > over[w]
         /\ fired'[w].occurrence > fired[w].occurrence \/ fired'[w].life > fired[w].life
         /\ fired'[w].at > fired[w].at \/ fired'[w].life > fired[w].life
<1>1. PICK t \in Ticks : Tick(t)
  BY DEF Next, vars, durable, gateway, ghosts, Start, Edit, IdleTick, Pass, Stop, Exit, Crash,
         Vanish, SkipRun, StartRun, FinishRun
<1>2. w \in Due
  BY <1>1 DEF Tick
<1>3. /\ fired'[w] = [occurrence |-> clock[w].next, at |-> now, life |-> restarts]
      /\ clock[w] # NoEntry /\ clock[w].next <= now
  BY <1>1, <1>2, DueEntry DEF Tick
<1>4. /\ clock[w].next > over[w] /\ fired[w].life <= restarts
      /\ fired[w].life = restarts => clock[w].next > fired[w].at
      /\ fired[w].occurrence <= fired[w].at
  BY <1>3 DEF TimeInv, ClockAhead, FiredBefore
<1> QED BY <1>3, <1>4, TimesTyped

LEMMA SkipsStep ==
  ASSUME Typed, RunsInv, NEW t \in Ticks, SkipRun(t)
  PROVE  UnderWay(First(t)) # {} \/ restarts > 0
<1>1. ticks[t].due \in Seq(Watches) /\ ticks[t].due # <<>> /\ active[First(t)] # 0
  BY DEF SkipRun, Skips, OnRecord, Waiting, Typed, TypeOK
<1>2. First(t) \in Watches
  BY <1>1 DEF First
<1>3. CASE restarts = 0
  BY <1>1, <1>2, <1>3 DEF RunsInv, RecordsUnderWay, UnderWay
<1>4. CASE restarts # 0
  BY <1>4, TimesTyped
<1> QED BY <1>3, <1>4

----------------------------------------------------------------------------
(* Outputs.                                                                *)

\* The output that is compared with is the last one, as long as it is kept.
LEMMA LatestKept ==
  ASSUME Typed, LastKept, NEW w \in Watches, printed[w] # Silence, since[w] <= MaxHistory
  PROVE  LatestOutput(w) = printed[w]
<1> DEFINE S == {i \in DOMAIN history : history[i].watch = w /\ history[i].status = "success"}
           p == Place(w)
<1>1. history \in Seq(Records) /\ Len(history) \in Nat /\ DOMAIN history = 1..Len(history)
  BY DEF Typed, TypeOK, Records
<1>2. /\ since[w] \in 1..Len(history) /\ SuccessOf(w, p) /\ history[p].output = printed[w]
      /\ \A j \in 1..Len(history) : SuccessOf(w, j) => j <= p
  BY DEF LastKept
<1>3. p \in 1..Len(history)
  BY <1>1, <1>2 DEF Place
<1>4. p \in S /\ (\A j \in S : j <= p) /\ S \subseteq Nat
  BY <1>1, <1>2, <1>3 DEF SuccessOf
<1> HIDE DEF S, p
<1>5. \A i \in S : (\A j \in S : j <= i) => i = p
  BY <1>4
<1>6. (CHOOSE i \in S : \A j \in S : j <= i) = p
  BY <1>4, <1>5
<1> QED BY <1>2, <1>4, <1>6 DEF LatestOutput, S

\* A record moves what is kept by one, or past the end.
LEMMA RecordMoves ==
  ASSUME Typed, LastKept, Typed', NEW w \in Watches,
         NEW status \in {"success", "failure", "skipped"}, NEW output \in Outputs \cup {Silence},
         Record(w, status, output), Count(w, status),
         printed' = IF status = "success" THEN [printed EXCEPT ![w] = output] ELSE printed
  PROVE  LastKept'
<1>0. /\ MaxHistory \in Nat /\ MaxHistory > 0 /\ Len(history) \in Nat /\ Len(history) <= MaxHistory
      /\ \A v \in Watches : since[v] \in Nat /\ since'[v] \in Nat
      /\ printed \in [Watches -> Outputs \cup {Silence}]
  <2>1. MaxHistory \in Nat /\ MaxHistory > 0 /\ Len(history) \in Nat /\ Len(history) <= MaxHistory
    BY SMTT(40) DEF Typed, TypeOK, Assumptions, BoundsAssumption
  <2>2. /\ since \in [Watches -> 0..(MaxHistory + 1)] /\ since' \in [Watches -> 0..(MaxHistory + 1)]
        /\ printed \in [Watches -> Outputs \cup {Silence}]
    BY DEF Typed, TypeOK
  <2>3. 0..(MaxHistory + 1) \subseteq Nat
    OBVIOUS
  <2>4. \A v \in Watches : since[v] \in Nat /\ since'[v] \in Nat
    BY <2>2, <2>3
  <2> QED BY <2>1, <2>2, <2>4
<1>1. /\ Len(history') \in 1..MaxHistory
      /\ history'[Len(history')] = [watch |-> w, status |-> status, output |-> output]
      /\ \/ /\ Len(history) < MaxHistory /\ Len(history') = Len(history) + 1
            /\ \A i \in 1..Len(history) : history'[i] = history[i]
         \/ /\ Len(history) = MaxHistory /\ Len(history') = MaxHistory
            /\ \A i \in 1..(MaxHistory - 1) : history'[i] = history[i + 1]
  BY RecordKeeps
<1> SUFFICES ASSUME NEW v \in Watches, printed'[v] # Silence, since'[v] <= MaxHistory
             PROVE  /\ since'[v] \in 1..Len(history')
                    /\ SuccessOf(v, Place(v))' /\ history'[Place(v)'].output = printed'[v]
                    /\ \A j \in 1..Len(history') : SuccessOf(v, j)' => j <= Place(v)'
  BY DEF LastKept
<1>2. CASE v = w /\ status = "success"
  <2>1. since'[v] = 1 /\ printed'[v] = output
    BY <1>0, <1>2 DEF Count
  <2>2. Place(v)' = Len(history')
    BY <1>1, <2>1 DEF Place
  <2> QED BY <1>1, <1>2, <2>1, <2>2 DEF SuccessOf
<1>3. CASE ~ (v = w /\ status = "success")
  <2>1. since'[v] = since[v] + 1 /\ printed'[v] = printed[v]
    BY <1>0, <1>3 DEF Count
  <2>2. /\ since[v] \in 1..Len(history) /\ since[v] < MaxHistory
        /\ SuccessOf(v, Place(v)) /\ history[Place(v)].output = printed[v]
        /\ \A j \in 1..Len(history) : SuccessOf(v, j) => j <= Place(v)
    BY <1>0, <2>1 DEF LastKept
  <2>3. \A j \in 1..Len(history') : SuccessOf(v, j)' => j # Len(history')
    BY <1>1, <1>3 DEF SuccessOf
  <2>4. CASE /\ Len(history) < MaxHistory /\ Len(history') = Len(history) + 1
             /\ \A i \in 1..Len(history) : history'[i] = history[i]
    <3>1. Place(v)' = Place(v) /\ Place(v) \in 1..Len(history) /\ Len(history') \in Nat
      BY SMTT(40), <1>0, <2>1, <2>2, <2>4 DEF Place
    <3>2. SuccessOf(v, Place(v))' /\ history'[Place(v)'].output = printed'[v]
      BY <2>1, <2>2, <2>4, <3>1 DEF SuccessOf
    <3>3. \A j \in 1..Len(history') : SuccessOf(v, j)' => j <= Place(v)'
      <4> SUFFICES ASSUME NEW j \in 1..Len(history'), SuccessOf(v, j)' PROVE j <= Place(v)'
        OBVIOUS
      <4>1. j # Len(history')
        BY <2>3
      <4>2. j \in 1..Len(history)
        BY <1>0, <2>4, <4>1
      <4> QED BY <2>2, <2>4, <3>1, <4>2 DEF SuccessOf
    <3> QED BY <1>0, <2>1, <2>2, <2>4, <3>2, <3>3
  <2>5. CASE /\ Len(history) = MaxHistory /\ Len(history') = MaxHistory
             /\ \A i \in 1..(MaxHistory - 1) : history'[i] = history[i + 1]
    <3>1. /\ Place(v)' = Place(v) - 1 /\ Place(v) \in Nat /\ Place(v)' \in 1..(MaxHistory - 1)
      BY SMTT(40), <1>0, <2>1, <2>2, <2>5 DEF Place
    <3>2. history'[Place(v)'] = history[Place(v)]
      BY SMTT(40), <2>5, <3>1
    <3>3. SuccessOf(v, Place(v))' /\ history'[Place(v)'].output = printed'[v]
      BY <2>1, <2>2, <3>2 DEF SuccessOf
    <3>4. \A j \in 1..Len(history') : SuccessOf(v, j)' => j <= Place(v)'
      <4> SUFFICES ASSUME NEW j \in 1..Len(history'), SuccessOf(v, j)' PROVE j <= Place(v)'
        OBVIOUS
      <4>1. j # Len(history')
        BY <2>3
      <4>2. j \in 1..(MaxHistory - 1) /\ j + 1 \in 1..Len(history)
        BY <1>0, <2>5, <4>1
      <4>3. SuccessOf(v, j + 1)
        BY <2>5, <4>2 DEF SuccessOf
      <4>4. j + 1 <= Place(v)
        BY <2>2, <4>2, <4>3
      <4> QED BY <3>1, <4>2, <4>4
    <3> QED BY <1>0, <2>1, <2>2, <2>5, <3>3, <3>4
  <2> QED BY <1>1, <2>4, <2>5
<1> QED BY <1>2, <1>3

LEMMA EmitStep ==
  ASSUME Typed, RunsInv, EmitInv, Typed', [Next]_vars PROVE EmitInv'
<1> USE DEF durable, gateway, ghosts
<1>1. ASSUME UNCHANGED <<history, since, printed, needless>> PROVE EmitInv'
  BY <1>1 DEF EmitInv, LastKept, EmitsOnChange, SuccessOf, Place
<1>2. ASSUME NEW t \in Ticks, SkipRun(t) PROVE EmitInv'
  <2>1. First(t) \in Watches
    BY <1>2, ProceedTyped DEF SkipRun, Waiting
  <2>2. Record(First(t), "skipped", Silence) /\ Count(First(t), "skipped")
    BY <1>2 DEF SkipRun, Skipped
  <2>3. printed' = printed /\ needless' = needless
    BY <1>2 DEF SkipRun
  <2>4. LastKept'
    BY <2>1, <2>2, <2>3, RecordMoves DEF EmitInv
  <2> QED BY <2>3, <2>4 DEF EmitInv, EmitsOnChange
<1>3. ASSUME NEW t \in Ticks, NEW command \in CommandResults, NEW publishes \in BOOLEAN,
             FinishRun(t, command, publishes)
      PROVE  EmitInv'
  <2> DEFINE w == First(t)
             result == RunWatchAction(w, command, publishes)
  <2>1. ticks[t].due # <<>>
    BY <1>3 DEF FinishRun, RunsInv, RunsOnRecord
  <2>2. w \in Watches
    BY <1>3, <2>1, ProceedTyped DEF FinishRun
  <2>3. /\ result.status \in {"success", "failure", "skipped"}
        /\ result.output \in Outputs \cup {Silence} /\ command.output \in Outputs
        /\ result.status = "success" => result.output = command.output
        /\ Emit[w] = "on_change" /\ result.emitted => command.output # LatestOutput(w)
    BY DEF RunWatchAction, ShouldEmit, CommandResults
  <2>4. /\ Record(w, result.status, result.output) /\ Count(w, result.status)
        /\ printed' = IF result.status = "success" THEN [printed EXCEPT ![w] = command.output]
                      ELSE printed
        /\ needless' = IF /\ Emit[w] = "on_change" /\ result.emitted
                          /\ command.output = printed[w] /\ since[w] <= MaxHistory
                       THEN needless \cup {w} ELSE needless
    BY <1>3 DEF FinishRun
  <2> HIDE DEF w, result
  <2>5. LastKept'
    BY <2>2, <2>3, <2>4, RecordMoves DEF EmitInv
  <2>6. ~ (/\ Emit[w] = "on_change" /\ result.emitted
           /\ command.output = printed[w] /\ since[w] <= MaxHistory)
    <3>1. Silence \notin Outputs
      BY DEF Typed, Assumptions, OutputsAssumption
    <3> QED BY <2>2, <2>3, <3>1, LatestKept DEF EmitInv
  <2> QED BY <2>4, <2>5, <2>6 DEF EmitInv, EmitsOnChange
<1>4. \/ UNCHANGED <<history, since, printed, needless>>
      \/ \E t \in Ticks : SkipRun(t) \/ \E command \in CommandResults, publishes \in BOOLEAN :
           FinishRun(t, command, publishes)
  BY DEF Next, vars, Start, Edit, IdleTick, Pass, Stop, Exit, Crash, Vanish, Tick, StartRun
<1> QED BY <1>1, <1>2, <1>3, <1>4

----------------------------------------------------------------------------
(* The theorems.                                                           *)

LEMMA InitClock == ASSUME Assumptions, Init PROVE ClockInv
<1>1. Typed
  BY InitTyped
<1>2. (\A t \in Ticks : ticks[t] = NoRuns) /\ (\A w \in Watches : printed[w] = Silence)
  BY DEF Init
<1>3. RunsInv
  BY <1>2 DEF Init, RunsInv, RunsApart, RunsOnRecord, RecordsUnderWay, NoRuns
<1>4. TimeInv
  BY <1>2 DEF Init, TimeInv, FiredBefore, SavedAhead, ClockAhead, DownIdle
<1>5. EmitInv
  BY <1>2 DEF Init, EmitInv, LastKept, EmitsOnChange
<1> QED BY <1>1, <1>3, <1>4, <1>5 DEF ClockInv

LEMMA ClockStep == ASSUME ClockInv, [Next]_vars PROVE ClockInv'
<1>1. Typed'
  BY TypedStep DEF ClockInv, RunsInv
<1> QED BY <1>1, RunsStep, TimeStep, EmitStep DEF ClockInv

\* What the files and the ticks of an agent's watches hold agrees at any time: runs in
\* progress with active.json, next runs with what has fallen due, the history with what
\* was printed last.
THEOREM ClockAlways == ASSUME Assumptions PROVE Spec => []ClockInv
<1>1. Init => ClockInv
  BY InitClock
<1>2. ClockInv /\ [Next]_vars => ClockInv'
  BY ClockStep
<1> QED BY <1>1, <1>2, PTL DEF Spec

\* Two runs of a watch that forbids it are never under way together, however many ticks
\* wait behind slow commands (watches/runner.ts).
THEOREM ForbiddenRunsApart == ASSUME Assumptions PROVE Spec => []ForbidNeverOverlaps
<1>1. ClockInv => ForbidNeverOverlaps
  BY OneUnderWay DEF ClockInv
<1> QED BY <1>1, ClockAlways, PTL

\* A watch on change does not emit again the output it emitted last, as long as the
\* history of all the agent's watches still has it (shouldEmitCommandResult).
THEOREM EmitsWhatChanged == ASSUME Assumptions PROVE Spec => []EmitsOnChange
<1>1. ClockInv => EmitsOnChange
  BY DEF ClockInv, EmitInv
<1> QED BY <1>1, ClockAlways, PTL

\* What a finished tick has saved is not due again, and at any time of a life a watch is
\* due once, through restarts, edits and ticks that overlap (watches/clock.ts).
THEOREM FiresInOrder == ASSUME Assumptions PROVE Spec => FiresAdvance /\ NotStacked
<1>1. ClockInv /\ [Next]_vars =>
        [\A w \in Watches : fired'[w] # fired[w] =>
           /\ fired'[w].occurrence > over[w]
           /\ fired'[w].occurrence > fired[w].occurrence \/ fired'[w].life > fired[w].life]_vars
  BY FiresStep DEF ClockInv
<1>2. ClockInv /\ [Next]_vars =>
        [\A w \in Watches : fired'[w] # fired[w] =>
           fired'[w].at > fired[w].at \/ fired'[w].life > fired[w].life]_vars
  BY FiresStep DEF ClockInv
<1> QED BY <1>1, <1>2, ClockAlways, PTL DEF Spec, FiresAdvance, NotStacked

\* A run is skipped because one of its watch is under way, or was when a gateway before
\* this one went down (runs.ts: the record stays).
THEOREM SkippedForCause == ASSUME Assumptions PROVE Spec => SkipsExcused
<1>1. ClockInv /\ [Next]_vars =>
        [\A t \in Ticks : SkipRun(t) => UnderWay(First(t)) # {} \/ restarts > 0]_vars
  BY SkipsStep DEF ClockInv
<1> QED BY <1>1, ClockAlways, PTL DEF Spec, SkipsExcused
=============================================================================
