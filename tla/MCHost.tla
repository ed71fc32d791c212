------------------------------- MODULE MCHost -------------------------------
(***************************************************************************)
(* What keeps the host of the agents in order: one gateway per workspace   *)
(* (GatewayPid), its start, stop and inspector (GatewayLife, WebWatcher),  *)
(* coding workers (Workers), scheduled watches (WatchClock) and the files  *)
(* they are kept in (WatchFiles); and what the inspector lists (WebTree).  *)
(* Each is checked by itself in one run.                                   *)
(***************************************************************************)
EXTENDS GatewayPid

CONSTANTS
  c1, p1, p2, p3, l1, w1, w2, t1, t2, Commands, MaxTurns, MaxLaunches, MayCrash, MaxFailures,
  Watches, Schedules, Policy, Emit, Outputs, Spoken, Ticks, MaxHistory, MaxTime, MaxEdits,
  MaxRestarts, MaxRuns, MaxChildren, Files, Scans, MaxChanges, Universe, Roots, AgentSets,
  ChannelSets, MaxFileChanges, MaxListings, Owners, Written, Options, Shells, MaxWrites,
  MaxUses, MaxLives

VARIABLES
  part,   \* whose behaviour this is
  worker, doing, working, seen, turnOf, child, result, launched, reported, pids, failures,
  saved, active, history, watches, phase, clock, pruned, ticks, now, edits, restarts, runs,
  fired, over, printed, since, needless, gateway, run, inspector, timer, stopping, victim,
  status, kids, parent, heard, abrupt, disk, changes, running, snapshot, scan, pending,
  flushing, told, present, marks, agents, channels, build, listed, unlisted, listingCounts,
  watchFiles, recorded, kept, serving, loaded, errors, scheduled, nextRuns, news, shell,
  spoiled, writes, uses, lives

Worker == INSTANCE Workers WITH stage <- working, crashes <- failures, MaxCrashes <- MaxFailures
Watching == INSTANCE WatchClockProofs
Life == INSTANCE GatewayLife WITH child <- inspector
Web == INSTANCE WebWatcher
Listing == INSTANCE WebTree WITH tree <- listed, failed <- unlisted, counts <- listingCounts,
  MaxChanges <- MaxFileChanges
Defined == INSTANCE WatchFiles WITH files <- watchFiles, running <- scheduled, due <- nextRuns

workersVars == <<worker, doing, working, seen, turnOf, child, result, launched, reported, pids,
  failures>>
watchesVars == <<saved, active, history, watches, phase, clock, pruned, ticks, now, edits,
  restarts, runs, fired, over, printed, since, needless>>
lifeVars == <<gateway, run, inspector, timer, stopping, victim, status, kids, parent, heard,
  abrupt>>
webVars == <<disk, changes, running, snapshot, scan, pending, flushing, told>>
listingVars == <<present, marks, agents, channels, build, listed, unlisted, listingCounts>>
definitionsVars == <<watchFiles, recorded, kept, serving, loaded, errors, scheduled, nextRuns,
  news, shell, spoiled, writes, uses, lives>>

\* Init and Next, a part at a time: the others keep still.
HostInit ==
  /\ part \in {"pid", "workers", "watches", "life", "web", "listing", "definitions"}
  /\ Init
  /\ Worker!Init
  /\ Watching!Init
  /\ Life!Init
  /\ Web!Init
  /\ Listing!Init
  /\ Defined!Init
  /\ watches[w1] # watches[w2]
  /\ part # "watches" => watches[w1].kind = "every"
  /\ part # "web" => disk = [f \in Files |-> 0]
  /\ part # "listing" => agents = <<>> /\ channels = {} /\ \A f \in Universe : marks[f] = <<>>

HostNext ==
  \/ /\ part = "pid" /\ Next
     /\ UNCHANGED <<part, workersVars, watchesVars, lifeVars, webVars, listingVars,
                   definitionsVars>>
  \/ /\ part = "workers" /\ Worker!Next
     /\ UNCHANGED <<part, vars, watchesVars, lifeVars, webVars, listingVars, definitionsVars>>
  \/ /\ part = "watches" /\ Watching!Next
     /\ UNCHANGED <<part, vars, workersVars, lifeVars, webVars, listingVars, definitionsVars>>
  \/ /\ part = "life" /\ Life!Next
     /\ UNCHANGED <<part, vars, workersVars, watchesVars, webVars, listingVars,
                   definitionsVars>>
  \/ /\ part = "web" /\ Web!Next
     /\ UNCHANGED <<part, vars, workersVars, watchesVars, lifeVars, listingVars,
                   definitionsVars>>
  \/ /\ part = "listing" /\ Listing!Next
     /\ UNCHANGED <<part, vars, workersVars, watchesVars, lifeVars, webVars, definitionsVars>>
  \/ /\ part = "definitions" /\ Defined!Next
     /\ UNCHANGED <<part, vars, workersVars, watchesVars, lifeVars, webVars, listingVars>>

everything == <<part, vars, workersVars, watchesVars, lifeVars, webVars, listingVars,
  definitionsVars>>

HostSpec == HostInit /\ [][HostNext]_everything

ASSUME WorkersAssumptions ==
  Worker!CommandsAssumption /\ Worker!CrashAssumption /\ Worker!BoundsAssumption
ASSUME WatchClockAssumptions ==
  /\ Watching!WatchesAssumption /\ Watching!SchedulesAssumption
  /\ Watching!PolicyAssumption /\ Watching!EmitAssumption
  /\ Watching!OutputsAssumption /\ Watching!BoundsAssumption

ASSUME ListingAssumptions == Listing!WebTreeAssumption
ASSUME WatchFilesAssumptions == Defined!WatchFilesAssumption

SomeEmits == [w \in Watches |-> IF w = w1 THEN "on_change" ELSE "on_failure"]

\* Files of every kind and place.
At(root, dir, kind) == [root |-> root, dir |-> dir, kind |-> kind]
AllKinds ==
  {At("workspace", "context", "doc"), At("workspace", "config", "config"),
   At("workspace", "channels", "log"), At("workspace", "runtime", "doc"),
   At("workspace", "media", "binary"), At("agents/shrimpy", "", "watches"),
   At("agents/shrimpy", "context", "secret"), At("agents/shrimpy", "context", "doc"),
   At("agents/shrimpy", "sessions/local", "log"), At("agents/x", "sessions/other", "log"),
   At("agents/x", "", "doc")}
SomeAgents ==
  {{<<"shrimpy", "agents/shrimpy">>}, {<<"shrimpy", "agents/x">>, <<"x", "/elsewhere">>},
   {<<"shrimpy", "agents/shrimpy">>, <<"x", "agents/x">>}}
SomeChannels == {{}, {At("workspace", "channels", "log"), At("workspace", "channels", "log2")}}

EveryOrCron == {[kind |-> "every", n |-> 1], [kind |-> "cron", n |-> 2]}
\* Files of watches: none, one that does not parse, empty, a watch on or off, a cron
\* expression or what looks like one, an id twice, an emission without a channel.
TwoOwners == <<"a", "b">>
Definition(id, on, cron, every, action, emit) ==
  [id |-> id, named |-> TRUE, on |-> on, cron |-> cron, every |-> every, action |-> action,
   whole |-> TRUE, emit |-> emit, channel |-> FALSE, rest |-> TRUE]
Reminder(id, on) == Definition(id, on, "none", "positive", "message", "none")
Check(id, cron, emit) == Definition(id, TRUE, cron, "none", "command", emit)
Holds(list) == [form |-> "list", list |-> list]
SomeWatchFiles ==
  {[form |-> "absent", list |-> <<>>], [form |-> "broken", list |-> <<>>], Holds(<<>>),
   Holds(<<Reminder("w", TRUE)>>), Holds(<<Reminder("w", FALSE), Check("v", "text", "none")>>),
   Holds(<<Check("w", "nonsense", "none")>>), Holds(<<Reminder("w", TRUE), Reminder("w", FALSE)>>),
   Holds(<<Check("w", "text", "output")>>)}
Adding(cron, every, command, message, emit, on) ==
  [id |-> "n", on |-> on, cron |-> cron, every |-> every, everyMs |-> "", command |-> command,
   message |-> message, channel |-> "home", emit |-> emit]
SomeOptions ==
  {Adding("text", "", "", "hi", "", TRUE), Adding("", "positive", "x", "", "output", TRUE),
   Adding("", "positive", "", "hi", "output", TRUE), Adding("nonsense", "", "", "hi", "", FALSE)}

Mixed == [w \in Watches |-> IF w = w1 THEN "forbid" ELSE "allow"]

----------------------------------------------------------------------------
\* A worker's status follows from its turns and from the processes that live,
\* and no two backends of a worker are at work: StatusAgrees, ClosedIsDown and OneAtWork
\* of Workers.
WorkerAgrees ==
  part = "workers" =>
    Worker!TypeOK /\ Worker!StatusAgrees /\ Worker!ClosedIsDown /\ Worker!OneAtWork

\* What is closed stays closed, or is cancelled: ClosedStays of Workers.
ClosedStays == Worker!ClosedStays

\* A watch that forbids it never has two runs at work, and one on change emits
\* when its output changed and not otherwise, as far as the history reaches:
\* ForbidNeverOverlaps and EmitsOnChange of WatchClock.
WatchesBehave ==
  part = "watches" => Watching!TypeOK /\ Watching!ForbidNeverOverlaps /\ Watching!EmitsOnChange

\* What was saved as run is not due again, missed runs do not stack up, and a
\* run is skipped only for one in progress, or one a dead process left on record.
WatchesKeepTime == Watching!FiresAdvance /\ Watching!NotStacked /\ Watching!SkipsExcused

\* A gateway has one living inspector at most, and leaves one behind only when it
\* ends without its shutdown; no change of a workspace file goes unseen by the browsers,
\* whatever scans overlap; and what is listed for a browser is there and answers as
\* listed: the invariants of GatewayLife, WebWatcher and WebTree.
InspectorServes ==
  /\ part = "life" => Life!OneInspector /\ Life!OrphansExcused
  /\ part = "web" => Web!ChangesSeen
  /\ part = "listing" => /\ Listing!LeavesAnswer /\ Listing!PrivateUnread
                         /\ Listing!ListedWhole /\ Listing!HintsTrue

\* What the gateway runs, has on record as not loading and what shrimpy watches lists is
\* what each agent's file holds, once seen, as long as every next run can be computed:
\* ReloadsFaithful, TicksHold and ListedTrue of WatchFiles.
WatchFilesTrue == part = "definitions" => Defined!WatchFilesTrue

\* What the repository says and the code does otherwise: SkipsOnlyActive of WatchClock,
\* AgentsIsolated of WatchFiles.
SkipsOnlyActive == Watching!SkipsOnlyActive
AgentsIsolated == part = "definitions" => Defined!AgentsIsolated
=============================================================================
