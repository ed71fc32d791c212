----------------------------- MODULE WatchFiles -----------------------------
(***************************************************************************)
(* The files the agents' watches are kept in (src/src/watches/schema.ts,   *)
(* build.ts, load-errors.ts, inspection.ts, gateway/watch-service.ts,      *)
(* commands/watches.ts): what a file may hold, how the gateway loads each   *)
(* agent's when it starts and again when it changes, what it leaves on      *)
(* record of files that do not load, what commands write, and what          *)
(* shrimpy watches lists.  When watches run is WatchClock's; here the clock *)
(* is the set of watches that have a next run.                              *)
(***************************************************************************)
EXTENDS Naturals, Sequences, FiniteSets, SequencesExt

CONSTANTS Owners,    \* the agents, in the order of the configuration
          Written,   \* what someone may write into a file
          Options,   \* what shrimpy watches add may be asked for
          Shells,    \* commands at one time
          MaxWrites, MaxUses, MaxLives

WatchFilesAssumption ==
    /\ IsInjective(Owners)
    /\ MaxWrites \in Nat /\ MaxUses \in Nat /\ MaxLives \in Nat

VARIABLES files,     \* each agent's watches.json
          recorded,  \* the agents in the file of load errors
          kept,      \* the file of the clock: whose next run is known, and its schedule
          serving,   \* the gateway: down, loading or up
          loaded,    \* its lists of watches, one per agent (watchesByAgent)
          errors,    \* agents whose file it could not load or apply
          running,   \* the watches its clock goes through
          due,       \* the clock's own next runs, like kept
          news,      \* of an agent's file: seen, due for a reload, or missed
          shell,     \* commands
          spoiled,   \* whether a list failed to be applied in this life (a history variable)
          writes, uses, lives

fileVars == <<files, recorded, kept, serving, loaded, errors, running, due, news, shell,
              spoiled, writes, uses, lives>>

AllOwners == ToSet(Owners)

----------------------------------------------------------------------------
\* An entry of a file says of each field what matters of it: its id, whether that may be
\* one, whether the watch is on, of the trigger which of cron and everyMs are there and
\* whether they are fit, of the action its kind and whether its strings are whole, what
\* it emits and whether a channel is named for that, whether everything else is in order.
Entry(id, on, cron, every, action, emit) ==
    [id |-> id, named |-> TRUE, on |-> on, cron |-> cron, every |-> every, action |-> action,
     whole |-> TRUE, emit |-> emit, channel |-> FALSE, rest |-> TRUE]

ParseTrigger(entry) ==
    \/ entry.cron \notin {"none", "blank"} /\ entry.every = "none"
    \/ entry.cron = "none" /\ entry.every = "positive"

ParseAction(entry) == entry.action \in {"command", "message"} /\ entry.whole

\* A message is all a message watch emits; a command's output needs a channel.
ParseEmit(entry) ==
    /\ entry.emit \in {"none", "never", "output"}
    /\ entry.action = "message" => entry.emit = "none"
    /\ entry.action = "command" /\ entry.emit = "output" => entry.channel

ParseWatchDefinition(entry) ==
    entry.named /\ entry.rest /\ ParseTrigger(entry) /\ ParseAction(entry) /\ ParseEmit(entry)

ParseWatchDefinitions(list) ==
    /\ \A k \in DOMAIN list : ParseWatchDefinition(list[k])
    /\ IsInjective([k \in DOMAIN list |-> list[k].id])

Absent == [form |-> "absent", list |-> <<>>]
Broken == [form |-> "broken", list |-> <<>>]
Listing(list) == [form |-> "list", list |-> list]

\* A file that is not there holds no watches.
LoadAgentWatchDefinitions(file) ==
    \/ file.form = "absent"
    \/ file.form = "list" /\ ParseWatchDefinitions(file.list)

\* The gateway knows a watch by its agent and its id.
ResolveAgentWatchDefinition(agent, entry) == [agent |-> agent, entry |-> entry]
Name(watch) == <<watch.agent, watch.entry.id>>

FlattenAgentWatches(lists) ==
    FlattenSeq([k \in DOMAIN Owners |->
        [i \in DOMAIN lists[Owners[k]] |->
            ResolveAgentWatchDefinition(Owners[k], lists[Owners[k]][i])]])

----------------------------------------------------------------------------
\* The clock.  A cron expression is taken as it comes by the parser; one that is none
\* is found out when the next run is computed.

WatchScheduleKey(entry) == <<entry.cron, entry.every>>
Computable(entry) == entry.cron # "nonsense"

NamesOn(watches) == {Name(watches[k]) : k \in {j \in DOMAIN watches : watches[j].entry.on}}
PruneState(state, watches) == {s \in state : s.of \in NamesOn(watches)}

\* An entry of another schedule starts afresh.
EnsureState(state, watch) ==
    {s \in state : s.of # Name(watch)}
      \cup {[of |-> Name(watch), key |-> WatchScheduleKey(watch.entry)]}

\* Going through the watches stops at the first whose next run cannot be computed.
Reached(watches) ==
    SelectInSeq(watches, LAMBDA w : w.entry.on /\ ~Computable(w.entry))
Applies(watches) == Reached(watches) = 0
EnsureAll(state, watches) ==
    FoldLeft(LAMBDA s, w : IF w.entry.on THEN EnsureState(s, w) ELSE s, state,
             IF Applies(watches) THEN watches ELSE SubSeq(watches, 1, Reached(watches) - 1))

SetWatches(state, watches) == EnsureAll(PruneState(state, watches), watches)

----------------------------------------------------------------------------
NoShell == [at |-> "none"]

Init ==
    /\ files = [a \in AllOwners |-> Absent]
    /\ recorded = {}
    /\ kept = {}
    /\ serving = "down"
    /\ loaded = [a \in AllOwners |-> <<>>]
    /\ errors = {}
    /\ running = <<>>
    /\ due = {}
    /\ news = [a \in AllOwners |-> "seen"]
    /\ shell = [s \in Shells |-> NoShell]
    /\ spoiled = FALSE
    /\ writes = 0 /\ uses = 0 /\ lives = 0

\* The gateway loads every file, each by itself ...
StartGatewayWatchClock ==
    /\ serving = "down" /\ lives < MaxLives
    /\ LET fit == {a \in AllOwners : LoadAgentWatchDefinitions(files[a])}
           lists == [a \in AllOwners |-> IF a \in fit THEN files[a].list ELSE <<>>]
       IN /\ loaded' = lists
          /\ errors' = AllOwners \ fit
          /\ running' = FlattenAgentWatches(lists)
          /\ due' = PruneState(kept, FlattenAgentWatches(lists))
    /\ recorded' = errors'
    /\ serving' = "loading"
    /\ news' = [a \in AllOwners |-> "seen"]
    /\ spoiled' = FALSE
    /\ lives' = lives + 1
    /\ UNCHANGED <<files, kept, shell, writes, uses>>

\* ... and then looks out for changes, and ticks for the first time.  That tick fails if
\* a next run cannot be computed; nobody awaits it, and the process ends of it.
WatchAgentWatchFiles ==
    /\ serving = "loading"
    /\ due' = EnsureAll(due, running)
    /\ IF Applies(running)
       THEN kept' = due' /\ serving' = "up"
       ELSE kept' = kept /\ serving' = "down"
    /\ UNCHANGED <<files, recorded, loaded, errors, running, news, shell, spoiled, writes, uses,
                   lives>>

\* mutant: an error stays on record when the file is mended
Uncleared(agent) == errors

Cleared(agent) == errors \ {agent}

\* A reload that cannot parse the file leaves all as it was.  One whose watches cannot be
\* applied has taken the list already, has pruned the clock and not replaced its watches.
Reload(agent) ==
    /\ serving = "up" /\ news[agent] = "due"
    /\ news' = [news EXCEPT ![agent] = "seen"]
    /\ IF ~LoadAgentWatchDefinitions(files[agent])
       THEN /\ errors' = errors \cup {agent}
            /\ UNCHANGED <<loaded, running, due, kept, spoiled>>
       ELSE LET lists == [loaded EXCEPT ![agent] = files[agent].list]
                next == FlattenAgentWatches(lists)
            IN /\ loaded' = lists
               /\ due' = SetWatches(due, next)
               /\ IF Applies(next)
                  THEN /\ running' = next
                       /\ errors' = Cleared(agent)
                       /\ kept' = due'
                       /\ UNCHANGED spoiled
                  ELSE /\ errors' = errors \cup {agent}
                       /\ spoiled' = TRUE
                       /\ UNCHANGED <<running, kept>>
    /\ recorded' = errors'
    /\ UNCHANGED <<files, serving, shell, writes, uses, lives>>

\* A tick saves the clock if it changed it, or if a watch was due.
Tick ==
    /\ serving = "up"
    /\ due' = EnsureAll(due, running)
    /\ \/ kept' = due' /\ (due' # due \/ NamesOn(running) # {})
       \/ kept' = kept /\ due' = due
    /\ UNCHANGED <<files, recorded, serving, loaded, errors, running, news, shell, spoiled, writes,
                   uses, lives>>

\* A shutdown saves the clock, a crash does not; what is on record stays.
Stop(saves) ==
    /\ serving = "up"
    /\ serving' = "down"
    /\ kept' = IF saves THEN due ELSE kept
    /\ UNCHANGED <<files, recorded, loaded, errors, running, due, news, shell, spoiled, writes,
                   uses, lives>>

----------------------------------------------------------------------------
\* Whoever changes a file: the gateway notices if it looks out already.
Replace(agent, file) ==
    /\ files' = [files EXCEPT ![agent] = file]
    /\ news' = [news EXCEPT ![agent] = CASE serving = "up" -> "due"
                                         [] serving = "loading" -> "missed"
                                         [] OTHER -> @]

\* The user or an agent writes or deletes it.
Write(agent) ==
    /\ writes < MaxWrites
    /\ writes' = writes + 1
    /\ \E file \in Written \ {files[agent]} : Replace(agent, file)
    /\ UNCHANGED <<recorded, kept, serving, loaded, errors, running, due, shell, spoiled, uses,
                   lives>>

\* What the options of shrimpy watches add make: [cron, every, everyMs, command, message,
\* channel, emit, on, id], with "" for an option that is not given.
BuildTrigger(values) ==
    Cardinality({k \in {"cron", "every", "everyMs"} : values[k] # ""}) = 1
    /\ values.every \in {"", "positive"} /\ values.everyMs \in {"", "positive"}

BuildAction(values) ==
    /\ ~(values.command # "" /\ values.message # "")
    /\ values.command = "" => values.message # "" /\ values.channel # ""

BuildEmit(values) == values.emit \in {"", "never", "output"}

BuildWatchDefinition(values) ==
    [Entry(values.id, values.on,
           IF values.cron = "" THEN "none" ELSE values.cron,
           IF values.cron = "" THEN "positive" ELSE "none",
           IF values.command # "" THEN "command" ELSE "message",
           IF values.emit = "" THEN "none" ELSE values.emit)
       EXCEPT !.channel = values.channel # ""]

Holding(agent, list) == [at |-> "holding", agent |-> agent, list |-> list]

\* A command reads the file, refuses one that does not load, and makes a list that
\* loads of it ...
CmdWatchesAdd(s, agent, values) ==
    /\ shell[s].at = "none" /\ uses < MaxUses
    /\ LoadAgentWatchDefinitions(files[agent])
    /\ \A k \in DOMAIN files[agent].list : files[agent].list[k].id # values.id
    /\ BuildTrigger(values) /\ BuildAction(values) /\ BuildEmit(values)
    /\ LET next == Append(files[agent].list, BuildWatchDefinition(values))
       IN ParseWatchDefinitions(next) /\ shell' = [shell EXCEPT ![s] = Holding(agent, next)]
    /\ uses' = uses + 1
    /\ UNCHANGED <<files, recorded, kept, serving, loaded, errors, running, due, news, spoiled,
                   writes, lives>>

CmdWatchesSetEnabled(s, agent, enabled) ==
    /\ shell[s].at = "none" /\ uses < MaxUses
    /\ LoadAgentWatchDefinitions(files[agent])
    /\ \E k \in DOMAIN files[agent].list :
         shell' = [shell EXCEPT ![s] =
                     Holding(agent, [files[agent].list EXCEPT ![k].on = enabled])]
    /\ uses' = uses + 1
    /\ UNCHANGED <<files, recorded, kept, serving, loaded, errors, running, due, news, spoiled,
                   writes, lives>>

\* ... and then writes the whole list, over whatever is there now.
WriteList(s) ==
    /\ shell[s].at = "holding"
    /\ Replace(shell[s].agent, Listing(shell[s].list))
    /\ shell' = [shell EXCEPT ![s] = NoShell]
    /\ UNCHANGED <<recorded, kept, serving, loaded, errors, running, due, spoiled, writes, uses,
                   lives>>

Next ==
    \/ StartGatewayWatchClock \/ WatchAgentWatchFiles \/ Tick
    \/ \E saves \in BOOLEAN : Stop(saves)
    \/ \E a \in AllOwners : Reload(a) \/ Write(a)
    \/ \E s \in Shells, a \in AllOwners, v \in Options : CmdWatchesAdd(s, a, v)
    \/ \E s \in Shells, a \in AllOwners, e \in BOOLEAN : CmdWatchesSetEnabled(s, a, e)
    \/ \E s \in Shells : WriteList(s)

Spec == Init /\ [][Next]_fileVars

----------------------------------------------------------------------------
\* shrimpy watches list.

LoadWatchInspectionEntries ==
    FlattenAgentWatches([a \in AllOwners |->
        IF LoadAgentWatchDefinitions(files[a]) THEN files[a].list ELSE <<>>])

\* Errors on record, and of files that do not load now.
InspectWatchLoadErrors ==
    recorded \cup {a \in AllOwners : ~LoadAgentWatchDefinitions(files[a])}

\* Where the next run that is shown comes from.
NextRunSource(watch) ==
    CASE \E s \in kept : s.of = Name(watch) -> "clock_state"
      [] (\A s \in kept : s.of # Name(watch)) /\ watch.entry.on /\ Computable(watch.entry) ->
           "computed"
      [] OTHER -> "none"

InspectWatches ==
    {[watch |-> w, next |-> NextRunSource(w)] : w \in ToSet(LoadWatchInspectionEntries)}

----------------------------------------------------------------------------
Of(agent) == SelectSeq(running, LAMBDA w : w.agent = agent)
FileOf(agent) == SelectSeq(LoadWatchInspectionEntries, LAMBDA w : w.agent = agent)
Settled(agent) == serving = "up" /\ news[agent] = "seen"
FitHere(agent) == LoadAgentWatchDefinitions(files[agent]) /\ Applies(FileOf(agent))

\* As long as no list failed to be applied, a gateway that has seen a file runs what is
\* in it if it loads, and has its agent on record if it does not; of a file like that it
\* runs what it last loaded of it, and nothing of another agent's is touched.
ReloadsFaithful ==
    serving = "up" /\ ~spoiled =>
        /\ \A a \in AllOwners : Settled(a) =>
             /\ LoadAgentWatchDefinitions(files[a]) => Of(a) = FileOf(a)
             /\ (a \in recorded) <=> ~LoadAgentWatchDefinitions(files[a])
        /\ running = FlattenAgentWatches(loaded)

\* No watch is gone through whose next run cannot be computed: once the gateway is up,
\* no tick fails, whatever is written to the files.
TicksHold == serving = "up" => Applies(running)

\* What is listed for a settled gateway is what it does: the errors are those of the
\* files, a watch that is on has the next run of the clock, one that is off has none.
ListedTrue ==
    (\A a \in AllOwners : Settled(a)) /\ ~spoiled =>
        /\ InspectWatchLoadErrors = {a \in AllOwners : ~LoadAgentWatchDefinitions(files[a])}
        /\ \A i \in InspectWatches : (i.next = "clock_state") <=> i.watch.entry.on

WatchFilesTrue == ReloadsFaithful /\ TicksHold /\ ListedTrue

\* "other agents continue normally" (docs/reference/runtime.md:47): a file that is as it
\* should be is what runs of its agent, once the gateway has seen it.
AgentsIsolated ==
    \A a \in AllOwners : Settled(a) /\ FitHere(a) => Of(a) = FileOf(a)
=============================================================================
