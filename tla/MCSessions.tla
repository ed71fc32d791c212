----------------------------- MODULE MCSessions -----------------------------
(***************************************************************************)
(* Who works on a session and what is seen of it: the ownership of         *)
(* transcripts among programs (SessionLease), the prompt a session is      *)
(* opened with (PromptAssembly), the commands that are run before its turns*)
(* (TurnProducers) and the session the terminal shows as open              *)
(* (SessionNavigator), each checked by itself in one run.                  *)
(***************************************************************************)
EXTENDS SessionLease

CONSTANTS
  Ids, Unnameable, Navigable, LocalNames, MaxChanges, MaxSwitches, PromptFiles, Agent, Configs,
  EnvKeys, Looks, Targets, MaxEdits, MaxOpens, Channels, None, Types, TurnConfigs,
  DefaultCacheMs, Runners, MaxClock, MaxTurns, MaxTurnEdits

VARIABLES
  part,   \* whose behaviour this is
  transcripts, revision, tree, current, cache, prepared, switched, switch, opened, said,
  navigatorCounts, disk, look, config, gateway, opening, preview, edits, opens, clock,
  turnConfig, producers, outputs, turn, turnsBegun, turnEdits

Navigator == INSTANCE SessionNavigator WITH target <- current, open <- opened, pending <-
  prepared, counts <- navigatorCounts, Agents <- Navigable, active <- transcripts, result <-
  switched
Prompt == INSTANCE PromptAssembly WITH run <- opening, Files <- PromptFiles
Producing == INSTANCE TurnProducers WITH cache <- outputs, begun <- turnsBegun, settings <-
  turnConfig

navigatorVars == <<transcripts, revision, tree, current, cache, prepared, switched, switch,
  opened, said, navigatorCounts>>
promptVars == <<disk, look, config, gateway, opening, preview, edits, opens>>
producersVars == <<clock, turnConfig, producers, outputs, turn, turnsBegun, turnEdits>>

\* Init and Next, a part at a time: the others keep still.
SessionsInit ==
  /\ part \in {"ownership", "navigator", "prompt", "producers"}
  /\ Init
  /\ Navigator!Init
  /\ Prompt!Init
  /\ Producing!Init
  /\ part # "ownership" => files = [f \in Files |-> "absent"]
  /\ part # "navigator" => transcripts = {Navigator!First}
  /\ part # "producers" => turnConfig = CHOOSE c \in TurnConfigs : TRUE

SessionsNext ==
  \/ /\ part = "ownership" /\ Next
     /\ UNCHANGED <<part, navigatorVars, promptVars, producersVars>>
  \/ /\ part = "navigator" /\ Navigator!Next
     /\ UNCHANGED <<part, vars, promptVars, producersVars>>
  \/ /\ part = "prompt" /\ Prompt!Next
     /\ UNCHANGED <<part, vars, navigatorVars, producersVars>>
  \/ /\ part = "producers" /\ Producing!Next
     /\ UNCHANGED <<part, vars, navigatorVars, promptVars>>

everything == <<part, vars, navigatorVars, promptVars, producersVars>>

SessionsSpec == SessionsInit /\ [][SessionsNext]_everything

ASSUME NavigatorAssumptions == Navigator!NavigatorAssumption
ASSUME PromptAssumptions == Prompt!PromptAssumption
ASSUME ProducersAssumptions == Producing!ProducersAssumption

TwoAgents == <<"a", "b">>

Everybody == <<"gateway", "run", "tui", "command">>
GatewayAndRun == <<"gateway", "run">>

\* Files of an agent "a" and of the workspace, and resources that name them; one
\* configuration that overrides for a channel, one for agents, one that lists nothing,
\* one that is no configuration, one that names a fact nobody knows.
File(root, path, markdown) == [root |-> root, path |-> path, markdown |-> markdown]
SomeFiles ==
  <<File("agent", <<"SOUL.md">>, TRUE), File("agent", <<"context", "memory.md">>, TRUE),
    File("workspace", <<"context", "SYSTEM.md">>, TRUE),
    File("workspace", <<"context", "people", "Ann.md">>, TRUE),
    File("workspace", <<"context", "people", "ann.png">>, FALSE)>>
Resource(root, path, dir) == [root |-> root, path |-> path, dir |-> dir]
Shared == Resource("workspace", <<"context">>, TRUE)
Soul == Resource("agent", <<"SOUL.md">>, FALSE)
Memory == Resource("agent", <<"context">>, TRUE)
People == Resource("workspace", <<"context", "people">>, TRUE)
Facts == {"hostname", "channel", "session_dir", "model_id", "provider", "cwd"}
Plain ==
  [wrong |-> FALSE, sources |-> <<>>, env |-> <<>>,
   defaults |-> [sources |-> <<>>, env |-> <<>>],
   builtin |-> [sources |-> <<Shared, Soul, Memory>>, env |-> {"hostname", "channel", "session_dir"}],
   channels |-> <<>>, agents |-> [x \in {} |-> x], tools |-> {"read"}, noSkills |-> FALSE]
Override(on, sources, env) == [on |-> on, sources |-> sources, env |-> env]
OfAgent(sources, env, overrides) == [sources |-> sources, env |-> env, channels |-> overrides]
SomeConfigs ==
  <<Plain,
    [Plain EXCEPT !.sources = <<<<Soul, Memory, Soul>>>>, !.tools = {"bash"},
       !.channels = <<Override({"home"}, <<<<People, Soul>>>>, <<>>)>>,
       !.agents = [a |-> OfAgent(<<<<Memory>>>>, <<>>,
                           <<Override({"home"}, <<>>, <<{"session_dir", "model_id"}>>)>>),
                   b |-> OfAgent(<<<<Shared>>>>, <<{"cwd"}>>, <<>>)]],
    [Plain EXCEPT !.defaults.sources = <<<<>>>>, !.noSkills = TRUE,
                  !.agents = [b |-> OfAgent(<<<<Shared>>>>, <<>>, <<>>)]],
    [Plain EXCEPT !.wrong = TRUE],
    [Plain EXCEPT !.agents =
       [a |-> OfAgent(<<>>, <<>>, <<Override({"home"}, <<>>, <<{"hostname", "weather"}>>)>>)]]>>

\* Skills of the same name in two directories, shadowed, without their tools, hidden, in a
\* directory no scan enters or whose name is no id.
SomeIds == <<<<"bad">>, <<"packages">>, <<"x">>, <<"y">>>>
Skill(name, tools, hidden) ==
  <<[name |-> name, tools |-> tools, described |-> TRUE, hidden |-> hidden, shaped |-> TRUE]>>
Bare == [p \in {"agent", "workspace"} \X (1..4) |-> <<>>]
SomeLooks ==
  <<{[Bare EXCEPT ![<<"workspace", 3>>] = Skill("x", {}, FALSE),
                  ![<<"workspace", 4>>] = Skill("y", {}, FALSE)]},
    {[Bare EXCEPT ![<<"agent", 3>>] = Skill("x", {"grep"}, FALSE),
                  ![<<"workspace", 3>>] = Skill("x", {}, FALSE),
                  ![<<"workspace", 4>>] = Skill("x", {}, FALSE)],
     [Bare EXCEPT ![<<"agent", 3>>] = Skill("x", {}, FALSE),
                  ![<<"workspace", 3>>] = Skill("x", {}, FALSE),
                  ![<<"agent", 4>>] = Skill("y", {}, TRUE)],
     [Bare EXCEPT ![<<"workspace", 3>>] = Skill("y", {}, FALSE),
                  ![<<"agent", 2>>] = Skill("x", {}, FALSE)],
     [Bare EXCEPT ![<<"agent", 1>>] = Skill("bad", {}, FALSE),
                  ![<<"workspace", 3>>] = Skill("x", {}, FALSE)]}>>
Asking(channel, durable, skill, append) ==
  [channel |-> channel, durable |-> durable, skill |-> skill, append |-> append]
SomeTargets ==
  {Asking(<<"home">>, TRUE, <<>>, FALSE), Asking(<<>>, TRUE, <<>>, FALSE),
   Asking(<<>>, FALSE, <<"y">>, TRUE), Asking(<<>>, TRUE, <<"x">>, FALSE)}

\* A quick command for every session and a slow one for those of channels.
Producer(id, when, lasts) == [id |-> id, when |-> when, cacheMs |-> lasts, fit |-> TRUE]
TurnConfig(list) == [fit |-> TRUE, producers |-> list]
SomeTurnConfigs ==
  {TurnConfig(<<Producer("slow", <<Channels>>, <<>>), Producer("fast", <<>>, <<2>>)>>),
   TurnConfig(<<Producer("fast", <<>>, <<1>>)>>),
   TurnConfig(<<Producer("fast", <<>>, <<>>), Producer("fast", <<>>, <<2>>)>>)}

----------------------------------------------------------------------------
\* The session the terminal shows as current is the one that is open, whatever
\* switches failed, what it tells of a switch is so, and the cursor is on a row:
\* ShownIsOpen, ToldWhatIsOpen and CursorOnRow of SessionNavigator.
SessionShown ==
  [][part = "navigator" =>
       /\ (Navigator!ShownIsOpen /\ Navigator!CursorOnRow)'
       /\ Navigator!ToldWhatIsOpen]_everything

\* A session's prompt is what the configuration, the files and the skills make of it
\* for its agent and channel, and what the commands show that look at prompts, sources
\* and skills is so: PromptFaithful and InspectionTrue of PromptAssembly.
PromptFaithful == part = "prompt" => Prompt!PromptFaithful /\ Prompt!InspectionTrue

\* What a turn is given of an earlier run is fresh and its own, a preview is
\* given nothing, and what is listed is what a turn would get: ServedFresh, PreviewsQuiet
\* and ListedServed of TurnProducers.
ServedFresh == part = "producers" =>
  Producing!ServedFresh /\ Producing!PreviewsQuiet /\ Producing!ListedServed
=============================================================================
