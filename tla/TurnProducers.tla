---------------------------- MODULE TurnProducers ----------------------------
(***************************************************************************)
(* The commands run before a turn of an agent, and the cache of what they  *)
(* printed (src/src/context/turn/producer.ts, builder.ts 164-262,          *)
(* state.ts), how they are configured (src/src/context/spec.ts) and what   *)
(* shrimpy context producers lists and runs (src/src/context/preview.ts).  *)
(* Turns of several sessions, in several programs, are at it at once: each *)
(* reads the cache when it begins, waits for its slowest command, and then *)
(* adds what it ran to the cache, under a lock.                            *)
(***************************************************************************)
EXTENDS Naturals, Sequences, SequencesExt

CONSTANTS Channels,       \* names of channels
          None,           \* the channel of a session that has none
          Types,          \* what sessions are for: gateway, preview, ...
          TurnConfigs,    \* what someone may write as context.turn
          DefaultCacheMs, \* TURN_PRODUCER_DEFAULTS.cacheMs
          Runners,       \* the programs that have turns, one at a time each
          MaxClock, MaxTurns, MaxTurnEdits

ProducersAssumption ==
    /\ None \notin Channels
    /\ {"gateway", "preview"} \subseteq Types
    /\ TurnConfigs # {} /\ DefaultCacheMs \in Nat

VARIABLES clock,
          settings,   \* context.turn in the configuration file
          producers,  \* what each program loaded of it: <<>>, or <<the commands>>
          cache,      \* what was printed for each key, and when the command ended
          turn,       \* the turns being prepared
          begun, turnEdits

producerVars == <<clock, settings, producers, cache, turn, begun, turnEdits>>

----------------------------------------------------------------------------
\* A command as it is configured: its id, the channels it names and how long its output
\* may be used, each <<>> or <<value>>, and whether its other fields are in order.

ValidateContextTurnProducer(p) == p.fit /\ p.id # "runtime:turn-context"

ValidateContextTurnProducerList(list) ==
    /\ \A k \in DOMAIN list : ValidateContextTurnProducer(list[k])
    /\ IsInjective([k \in DOMAIN list |-> list[k].id])

\* The limits of what else a turn is told are in order, or are not.
ValidateContextTurnConfig(raw) == raw.fit /\ ValidateContextTurnProducerList(raw.producers)

ResolveContextTurnProducer(p) ==
    [id |-> p.id, when |-> p.when,
     cacheMs |-> IF p.cacheMs = <<>> THEN DefaultCacheMs ELSE p.cacheMs[1]]

ResolveContextTurnConfig(raw) ==
    [k \in DOMAIN raw.producers |-> ResolveContextTurnProducer(raw.producers[k])]

ProducerIds == UNION {{c.producers[k].id : k \in DOMAIN c.producers} : c \in TurnConfigs}
SessionTargets == [channel : Channels \cup {None}, type : Types]
Keys == ProducerIds \X (Channels \cup {None}) \X Types

\* mutant: one entry for all sorts of sessions
KeyOfChannel(id, target) == <<id, target.channel, CHOOSE type \in Types : TRUE>>

ContextTurnProducerStateKey(id, target) == <<id, target.channel, target.type>>

\* A command that names channels is not for sessions without one.
ProducerMatchesChannel(p, channel) ==
    p.when # <<>> => channel # None /\ channel \in p.when[1]

\* An entry is what a command printed for a target, empty before the first.  (The
\* target is a history variable: the file has the lines only.)
Nothing == [ran |-> FALSE]
Entry(at, id, target) == [ran |-> TRUE, lastRunAt |-> at, of |-> <<id, target>>]

IsProducerFresh(entry, cacheMs, now) == entry.ran /\ now < entry.lastRunAt + cacheMs

----------------------------------------------------------------------------
Idle == [at |-> "idle"]
Result(status, entry) == [status |-> status, entry |-> entry]

Init ==
    /\ clock = 1
    /\ settings \in TurnConfigs
    /\ producers = [t \in Runners |-> <<>>]
    /\ cache = [k \in Keys |-> Nothing]
    /\ turn = [t \in Runners |-> Idle]
    /\ begun = 0 /\ turnEdits = 0

\* A program starts with the configuration there is, if there is nothing wrong with it.
Load(t) ==
    /\ producers[t] = <<>> /\ ValidateContextTurnConfig(settings)
    /\ producers' = [producers EXCEPT ![t] = <<ResolveContextTurnConfig(settings)>>]
    /\ UNCHANGED <<clock, settings, cache, turn, begun, turnEdits>>

\* What becomes of a command for a turn that begins now: a preview runs none.
Outcome(p, target, preview) ==
    LET entry == cache[ContextTurnProducerStateKey(p.id, target)]
    IN IF ~ProducerMatchesChannel(p, target.channel) \/ preview THEN Result("skipped", Nothing)
       ELSE IF IsProducerFresh(entry, p.cacheMs, clock) THEN Result("cached", entry)
       ELSE Result("running", Nothing)

Preparing(at, target, preview, results) ==
    [at |-> at, target |-> target, began |-> clock, preview |-> preview, results |-> results]

\* A turn of a session, or shrimpy context turn, which previews one.
Begin(t, target, preview) ==
    /\ turn[t].at = "idle" /\ producers[t] # <<>> /\ begun < MaxTurns
    /\ LET list == producers[t][1]
       IN turn' = [turn EXCEPT ![t] = Preparing("waiting", target, preview,
                     [k \in DOMAIN list |-> Outcome(list[k], target, preview)])]
    /\ begun' = begun + 1
    /\ UNCHANGED <<clock, settings, producers, cache, turnEdits>>

\* The sort of session a command is asked about: <<type>>, or <<>> for what it takes for
\* granted.
TypeOr(asked, channel) ==
    IF asked # <<>> THEN asked[1] ELSE IF channel = None THEN "preview" ELSE "gateway"

\* shrimpy context producers list.
CollectContextProducers(list, channel, asked) ==
    LET target == [channel |-> channel, type |-> TypeOr(asked, channel)]
        status(p) ==
            IF ~ProducerMatchesChannel(p, channel) THEN "skipped"
            ELSE IF IsProducerFresh(cache[ContextTurnProducerStateKey(p.id, target)],
                                    p.cacheMs, clock)
            THEN "cached" ELSE "matched"
    IN [k \in DOMAIN list |-> [id |-> list[k].id, status |-> status(list[k])]]

\* shrimpy context producers run: the command of that id is run for the channel it
\* matches, whatever is in the cache, and leaves nothing there.
CmdContextProducersRun(t, id, channel, asked) ==
    /\ turn[t].at = "idle" /\ producers[t] # <<>> /\ begun < MaxTurns
    /\ LET list == producers[t][1]
           found == SelectInSeq(CollectContextProducers(list, channel, <<>>),
                                LAMBDA v : v.id = id)
       IN /\ found # 0 /\ ProducerMatchesChannel(list[found], channel)
          /\ turn' = [turn EXCEPT ![t] =
               Preparing("byhand", [channel |-> channel, type |-> TypeOr(asked, channel)], FALSE,
                 [k \in DOMAIN list |->
                    Result(IF k = found THEN "running" ELSE "skipped", Nothing)])]
    /\ begun' = begun + 1
    /\ UNCHANGED <<clock, settings, producers, cache, turnEdits>>

\* A command ends, or fails, or is ended when its time is up: all of it is remembered,
\* a failure as the one line that tells of it.
RunContextTurnProducer(t, k) ==
    /\ turn[t].at \in {"waiting", "byhand"} /\ turn[t].results[k].status = "running"
    /\ turn' = [turn EXCEPT ![t].results[k] =
                  Result("ran", Entry(clock, producers[t][1][k].id, turn[t].target))]
    /\ UNCHANGED <<clock, settings, producers, cache, begun, turnEdits>>

\* What a turn ran, by the keys it is remembered under.
Remembered(t) ==
    LET ran == {k \in DOMAIN turn[t].results : turn[t].results[k].status = "ran"}
        key(k) == ContextTurnProducerStateKey(producers[t][1][k].id, turn[t].target)
    IN [x \in {key(k) : k \in ran} |-> turn[t].results[CHOOSE k \in ran : key(k) = x].entry]

\* When the last has ended, what this turn ran is written, whatever other turns
\* wrote in the meantime, and the turn has its items.
Remember(t) ==
    /\ turn[t].at = "waiting"
    /\ \A k \in DOMAIN turn[t].results : turn[t].results[k].status # "running"
    /\ cache' = [x \in Keys |->
         IF x \in DOMAIN Remembered(t) THEN Remembered(t)[x] ELSE cache[x]]
    /\ turn' = [turn EXCEPT ![t].at = "given"]
    /\ UNCHANGED <<clock, settings, producers, begun, turnEdits>>

\* The turn is over, or its program ended, maybe before it wrote anything.
Over(t, ends) ==
    /\ turn[t].at # "idle" \/ (ends /\ producers[t] # <<>>)
    /\ turn' = [turn EXCEPT ![t] = Idle]
    /\ producers' = [producers EXCEPT ![t] = IF ends THEN <<>> ELSE @]
    /\ UNCHANGED <<clock, settings, cache, begun, turnEdits>>

Tick ==
    /\ clock < MaxClock
    /\ clock' = clock + 1
    /\ UNCHANGED <<settings, producers, cache, turn, begun, turnEdits>>

\* Someone edits the configuration; programs that run go on with what they loaded.
EditTurnConfig ==
    /\ turnEdits < MaxTurnEdits
    /\ settings' \in TurnConfigs \ {settings}
    /\ turnEdits' = turnEdits + 1
    /\ UNCHANGED <<clock, producers, cache, turn, begun>>

Asked == {<<>>} \cup {<<type>> : type \in Types}

Next ==
    \/ \E t \in Runners : Load(t) \/ Remember(t)
    \/ \E t \in Runners, target \in SessionTargets, preview \in BOOLEAN :
         Begin(t, target, preview)
    \/ \E t \in Runners, id \in ProducerIds, c \in Channels \cup {None}, a \in Asked :
         CmdContextProducersRun(t, id, c, a)
    \/ \E t \in Runners : turn[t].at # "idle" /\
         \E k \in DOMAIN turn[t].results : RunContextTurnProducer(t, k)
    \/ \E t \in Runners, ends \in BOOLEAN : Over(t, ends)
    \/ Tick
    \/ EditTurnConfig

Spec == Init /\ [][Next]_producerVars

----------------------------------------------------------------------------
\* What a turn is given of an earlier run is what a command of the same id printed for a
\* session of the same channel and sort, and it ended less than its time before the
\* turn began, whatever turns were writing the cache meanwhile.
ServedFresh ==
    \A t \in Runners :
        turn[t].at # "idle" => \A k \in DOMAIN turn[t].results :
            turn[t].results[k].status = "cached" =>
                LET entry == turn[t].results[k].entry
                    p == producers[t][1][k]
                IN /\ entry.of = <<p.id, turn[t].target>>
                   /\ entry.lastRunAt <= turn[t].began
                   /\ turn[t].began < entry.lastRunAt + p.cacheMs

\* A preview is given nothing, and no command runs for a session it does not match or
\* when another one was asked for by hand.
PreviewsQuiet ==
    \A t \in Runners :
        turn[t].at # "idle" =>
            LET given == {k \in DOMAIN turn[t].results : turn[t].results[k].status # "skipped"}
            IN /\ \A k \in given :
                    ~turn[t].preview
                    /\ ProducerMatchesChannel(producers[t][1][k], turn[t].target.channel)
               /\ turn[t].at = "byhand" => \A j, k \in given : j = k

\* What is listed for a channel and a sort of session is what a turn of such a session
\* would get if it began now.
ListedServed ==
    \A t \in Runners : producers[t] # <<>> =>
        \A target \in SessionTargets :
            LET listed == CollectContextProducers(producers[t][1], target.channel, <<target.type>>)
            IN \A k \in DOMAIN listed :
                 LET got == Outcome(producers[t][1][k], target, FALSE).status
                 IN /\ (listed[k].status = "cached") <=> (got = "cached")
                    /\ (listed[k].status = "skipped") <=> (got = "skipped")
=============================================================================
