----------------------------- MODULE AgentRoster -----------------------------
(***************************************************************************)
(* Who is an agent, where its files are, which channels it is a member of  *)
(* and which threads are addressed to it: config.json, the agents'         *)
(* directories, channels.json and the surface state are four files that    *)
(* one command edits one after another (agents/operations.ts), while the   *)
(* gateway, another process, seeds and binds channels                      *)
(* (channels/membership.ts). channels.json is read, changed and written    *)
(* without a lock. The gateway knows the agents of its start.              *)
(***************************************************************************)
EXTENDS Naturals, Sequences, FiniteSets, SequencesExt

CONSTANTS
  Agents,          \* ids, the default agent's among them
  Default,         \* DEFAULT_AGENT_ID
  Roots,           \* directories: an agent's id names its default root
  Channels,
  Threads,
  ChannelOf,       \* ChannelOf[t]: the channel of a surface thread
  Dm,              \* Dm[c]: the two agents of a direct message channel, or {}
  SurfaceDefault,  \* SurfaceDefault[c]: default agents of the surface that owns c
  MaxOps,          \* bound: commands
  MaxRestarts      \* bound: starts of the gateway

RosterAssumption ==
  /\ Channels # {} /\ MaxOps \in Nat \ {0}
  /\ Default \in Agents /\ Agents \subseteq Roots /\ "none" \notin Agents
  /\ ChannelOf \in [Threads -> Channels]
  /\ Dm \in [Channels -> SUBSET Agents] /\ SurfaceDefault \in [Channels -> SUBSET Agents]

VARIABLES
  config,     \* agents[] of config.json: id -> root
  files,      \* files[r]: what is in directory r; 0: it does not exist
  channels,   \* channels.json: [agents, manifest] or NoEntry
  threads,    \* addressedAgentId of each thread
  cli,        \* the command: [todo, seen]
  gateway,    \* the gateway's edit of channels.json: [todo, seen]
  known,      \* the agents the gateway resolved at its start
  ops, restarts,
  \* history
  mine,       \* id -> the files the agent was left with
  joined,     \* <<c, a>>: memberships a finished command gave
  left,       \* <<c, a>>: memberships a command took
  excused     \* ids: a command on them was cut short, a lost update or a stale seed named them,
              \* or their directory was another agent's too

rosterVars == <<config, files, channels, threads, cli, gateway, known, ops, restarts,
                mine, joined, left, excused>>

None == "none"
NoEntry == [agents |-> {}, manifest |-> "absent"]
Idle == [todo |-> <<>>, seen |-> <<>>]
Configured == DOMAIN config

----------------------------------------------------------------------------
(* Edits of channels.json.                                                 *)

\* The members a channel gets when it is first looked up.
DefaultMembers(c, agents) ==
  IF Dm[c] # {} THEN IF Dm[c] \subseteq agents THEN Dm[c] ELSE {}
  ELSE IF c = "home" THEN {Default}
  ELSE SurfaceDefault[c]

Derived(c) == IF SurfaceDefault[c] # {} THEN "bound" ELSE "free"
Noted(m, c) == IF m \in {"absent", "none"} THEN Derived(c) ELSE m

Seed(f, c, agents) ==
  IF f[c] = NoEntry
  THEN [f EXCEPT ![c] = [agents |-> DefaultMembers(c, agents), manifest |-> Derived(c)]]
  ELSE [f EXCEPT ![c].manifest = Noted(@, c)]

\* getManifest and setManifest create an entry without members.
GetManifest(f, c) == [f EXCEPT ![c].manifest = Noted(@, c)]
SetOnly(f, c, m) == [f EXCEPT ![c] = [agents |-> {}, manifest |-> m]]   \* mutant: the entry is replaced
SetManifest(f, c, m) == [f EXCEPT ![c].manifest = m]

AddAgent(f, c, a) == [f EXCEPT ![c] = [agents |-> @.agents \union {a}, manifest |-> Noted(@.manifest, c)]]
RemoveAgent(f, c, a) == [f EXCEPT ![c] = [agents |-> @.agents \ {a}, manifest |-> Noted(@.manifest, c)]]
RemoveFromWork(f, a) ==                             \* mutant: direct message channels are passed over
  [c \in Channels |-> [f[c] EXCEPT !.agents = IF Dm[c] = {} THEN @ \ {a} ELSE @]]
RemoveEverywhere(f, a) == [c \in Channels |-> [f[c] EXCEPT !.agents = @ \ {a}]]
Renamed(s, a, b) == IF a \in s THEN (s \ {a}) \union {b} ELSE s
RenameAdds(f, a, b) ==                              \* mutant: the old id is kept
  [c \in Channels |-> [f[c] EXCEPT !.agents = @ \union {x \in {b} : a \in @}]]
RenameEverywhere(f, a, b) == [c \in Channels |-> [f[c] EXCEPT !.agents = Renamed(@, a, b)]]

Edited(s, f, agents) ==
  CASE s.do \in {"seed", "ensure"} -> Seed(f, s.c, agents)
    [] s.do = "manifest" -> GetManifest(f, s.c)
    [] s.do = "bind" -> SetManifest(f, s.c, "bound")
    [] s.do = "unbind" -> SetManifest(f, s.c, "free")
    [] s.do = "join" -> AddAgent(f, s.c, s.a)
    [] s.do = "leave" -> RemoveAgent(f, s.c, s.a)
    [] s.do = "drop" -> RemoveEverywhere(f, s.a)
    [] s.do = "rename" -> RenameEverywhere(f, s.a, s.b)

ChannelSteps == {"seed", "ensure", "manifest", "bind", "unbind", "join", "leave", "drop", "rename"}
AlwaysWrites(s) == s.do \in {"bind", "unbind", "join", "leave"}

\* ensureSurfaceChannelMember: joins unless the seeded channel has the agent.
Rest(s, f, todo) ==
  IF s.do = "ensure" /\ s.a \notin f[s.c].agents
  THEN <<[s EXCEPT !.do = "join"]>> \o Tail(todo) ELSE Tail(todo)

Read(p) ==
  /\ p.todo # <<>> /\ Head(p.todo).do \in ChannelSteps /\ p.seen = <<>>

\* The process p writes what it read, changed; what another process wrote since is lost.
Touched(f, g) ==
  UNION {(f[c].agents \ g[c].agents) \union (g[c].agents \ f[c].agents) : c \in Channels}

Write(p, agents) ==
  LET s == Head(p.todo)
      f == Edited(s, p.seen[1], agents)
      written == IF f = p.seen[1] /\ ~AlwaysWrites(s) THEN channels ELSE f
  IN /\ p.todo # <<>> /\ s.do \in ChannelSteps /\ p.seen # <<>>
     /\ channels' = written
     /\ excused' = excused \union (IF written = channels THEN {} ELSE Touched(p.seen[1], channels))
                           \union ((UNION {written[c].agents \ p.seen[1][c].agents : c \in Channels})
                                   \ Configured)
                           \union {x \in {s.b} : s.do = "rename" /\ s.a \in excused}
     /\ joined' = CASE s.do = "join" -> joined \union {<<s.c, s.a>>}
                    [] s.do = "leave" -> joined \ {<<s.c, s.a>>}
                    [] s.do = "drop" -> {j \in joined : j[2] # s.a}
                    [] s.do = "rename" -> {<<j[1], IF j[2] = s.a THEN s.b ELSE j[2]>> : j \in joined}
                    [] OTHER -> joined
     /\ left' = CASE s.do = "leave" -> left \union {<<s.c, s.a>>}
                  [] s.do = "join" -> left \ {<<s.c, s.a>>}
                  [] s.do = "rename" -> {<<j[1], IF j[2] = s.a THEN s.b ELSE j[2]>> : j \in left}
                  [] OTHER -> left

----------------------------------------------------------------------------
(* The commands.                                                           *)

Step(do) == [do |-> do, c |-> CHOOSE c \in Channels : TRUE, a |-> Default, b |-> Default, r |-> Default]
On(do, c, a) == [Step(do) EXCEPT !.c = c, !.a = a]
Of(do, a, b) == [Step(do) EXCEPT !.a = a, !.b = b]

Run(todo) ==
  /\ cli = Idle /\ ops < MaxOps
  /\ ops' = ops + 1
  /\ cli' = [todo |-> todo, seen |-> <<>>]

\* Nothing keeps two agents from one directory.
Sharing(c) == {a \in DOMAIN c : \E b \in DOMAIN c \ {a} : c[a] = c[b]}

Without(f, a) == [x \in DOMAIN f \ {a} |-> f[x]]
With(f, a, v) == [x \in DOMAIN f \union {a} |-> IF x = a THEN v ELSE f[x]]

CmdAdd(a, r) ==
  /\ a \notin Configured
  /\ Run(<<[Of("scaffold", a, a) EXCEPT !.r = r]>>)
  /\ config' = With(config, a, r)

CmdRemoveAny(a, deleteFiles) ==                       \* mutant: the default agent too
  /\ a \in Configured
  /\ Run(<<Of("drop", a, a), Of("clear", a, a)>>
         \o (IF deleteFiles THEN <<[Step("delete") EXCEPT !.r = config[a]]>> ELSE <<>>))
  /\ config' = Without(config, a)
CmdRemove(a, deleteFiles) ==
  /\ a # Default /\ a \in Configured
  /\ Run(<<Of("drop", a, a), Of("clear", a, a)>>
         \o (IF deleteFiles THEN <<[Step("delete") EXCEPT !.r = config[a]]>> ELSE <<>>))
  /\ config' = Without(config, a)

RootAfter(a, b) == IF config[a] = a THEN b ELSE config[a]
CmdRename(a, b) ==
  /\ a # Default /\ a \in Configured /\ b \notin Configured
  /\ Run(<<[Of("move", a, b) EXCEPT !.r = config[a]], Of("rename", a, b), Of("address", a, b)>>)
  /\ config' = With(Without(config, a), b, RootAfter(a, b))

CmdUpdate(a, r) ==
  /\ a \in Configured
  /\ Run(<<[Of("move", a, a) EXCEPT !.r = config[a]]>>)
  /\ config' = [config EXCEPT ![a] = r]

CmdChannel ==
  /\ \/ \E c \in Channels, do \in {"bind", "unbind"} : Run(<<On("manifest", c, Default), On(do, c, Default)>>)
     \/ \E c \in Channels : Run(<<On("seed", c, Default)>>)
     \/ \E c \in Channels, a \in Configured : Run(<<On("join", c, a)>>)
     \/ \E c \in Channels, a \in Configured :
          ~(c = "home" /\ a = Default) /\ Run(<<On("leave", c, a)>>)
  /\ UNCHANGED config

CmdThread(t) ==
  /\ \/ \E a \in Configured :
          Run(<<On("ensure", ChannelOf[t], a), [On("set", ChannelOf[t], a) EXCEPT !.r = t]>>)
     \/ Run(<<[Step("unset") EXCEPT !.r = t]>>)
  /\ UNCHANGED config

Start ==
  /\ \/ \E a, b \in Agents : CmdRename(a, b)
     \/ \E a \in Agents, r \in Roots : CmdAdd(a, r) \/ CmdUpdate(a, r)
     \/ \E a \in Agents, d \in BOOLEAN : CmdRemove(a, d)
     \/ CmdChannel \/ \E t \in Threads : CmdThread(t)
  /\ excused' = excused \union Sharing(config')
       \union {s.b : s \in {x \in Range(cli'.todo) : x.do = "rename" /\ x.a \in excused}}
  /\ mine' = [a \in DOMAIN config' |-> IF a \in Configured THEN mine[a] ELSE 0]
  /\ UNCHANGED <<files, channels, threads, gateway, known, restarts, joined, left>>

----------------------------------------------------------------------------
(* The steps of a command.                                                 *)

CliRead ==
  /\ Read(cli)
  /\ cli' = [cli EXCEPT !.seen = <<channels>>]
  /\ UNCHANGED <<config, files, channels, threads, gateway, known, ops, restarts, mine, joined,
                 left, excused>>

CliWrite ==
  /\ Write(cli, Configured)
  /\ LET s == Head(cli.todo) IN
       cli' = [todo |-> Rest(s, Edited(s, cli.seen[1], Configured), cli.todo), seen |-> <<>>]
  /\ UNCHANGED <<config, files, threads, gateway, known, ops, restarts, mine>>

Take(do) == cli.todo # <<>> /\ Head(cli.todo).do = do
Took == cli' = [cli EXCEPT !.todo = Tail(@)]

\* Edits of the surface state: only commands write it.
Address(t, s) ==
  CASE s.do = "set" -> IF t = s.r THEN s.a ELSE threads[t]
    [] s.do = "unset" -> IF t = s.r THEN None ELSE threads[t]
    [] s.do = "clear" -> IF threads[t] = s.a THEN None ELSE threads[t]
    [] s.do = "address" -> IF threads[t] = s.a THEN s.b ELSE threads[t]

CliThreads ==
  /\ \E do \in {"set", "unset", "clear", "address"} : Take(do)
  /\ threads' = [t \in Threads |-> Address(t, Head(cli.todo))]
  /\ Took
  /\ UNCHANGED <<config, files, channels, gateway, known, ops, restarts, mine, joined, left, excused>>

\* scaffoldAgentFiles keeps what is there.
CliScaffold ==
  /\ Take("scaffold")
  /\ LET s == Head(cli.todo)
         content == IF files[s.r] = 0 THEN ops ELSE files[s.r]
     IN files' = [files EXCEPT ![s.r] = content] /\ mine' = [mine EXCEPT ![s.a] = content]
  /\ Took
  /\ UNCHANGED <<config, channels, threads, gateway, known, ops, restarts, joined, left, excused>>

CliDelete ==
  /\ Take("delete")
  /\ files' = [files EXCEPT ![Head(cli.todo).r] = 0]
  /\ Took
  /\ UNCHANGED <<config, channels, threads, gateway, known, ops, restarts, mine, joined, left, excused>>

MovesDefault(s) == s.r = s.a /\ s.r # config[s.b] /\ files[s.r] # 0   \* mutant: only a default root
\* moveAgentWorkspaceFiles: a target that exists throws, and the rest of the
\* command is not done; config.json has been written.
Moves(s) == s.r # config[s.b] /\ files[s.r] # 0
CliMove ==
  /\ Take("move")
  /\ LET s == Head(cli.todo) IN
       \/ /\ ~Moves(s)
          /\ Took /\ mine' = [mine EXCEPT ![s.b] = files[config[s.b]]]
          /\ UNCHANGED <<files, excused>>
       \/ /\ Moves(s) /\ files[config[s.b]] = 0
          /\ files' = [files EXCEPT ![config[s.b]] = files[s.r], ![s.r] = 0]
          /\ Took /\ mine' = [mine EXCEPT ![s.b] = files[s.r]]
          /\ UNCHANGED excused
       \/ /\ Moves(s) /\ files[config[s.b]] # 0
          /\ cli' = Idle /\ excused' = excused \union {s.a, s.b}
          /\ UNCHANGED <<files, mine>>
  /\ UNCHANGED <<config, channels, threads, gateway, known, ops, restarts, joined, left>>

CliKilled ==
  /\ cli # Idle
  /\ cli' = Idle
  /\ excused' = excused \union UNION {{s.a, s.b} : s \in Range(cli.todo)}
  /\ UNCHANGED <<config, files, channels, threads, gateway, known, ops, restarts, mine, joined, left>>

----------------------------------------------------------------------------
(* The gateway.                                                            *)

\* An inbound message of a thread binds the channel; the delivery loop then
\* looks up the members.
Inbound(t) ==
  /\ gateway = Idle
  /\ gateway' = [todo |-> <<On("manifest", ChannelOf[t], Default), On("bind", ChannelOf[t], Default),
                            On("seed", ChannelOf[t], Default)>>, seen |-> <<>>]
  /\ UNCHANGED <<config, files, channels, threads, cli, known, ops, restarts, mine, joined, left, excused>>

LookUp(c) ==
  /\ gateway = Idle
  /\ gateway' = [todo |-> <<On("seed", c, Default)>>, seen |-> <<>>]
  /\ UNCHANGED <<config, files, channels, threads, cli, known, ops, restarts, mine, joined, left, excused>>

GatewayRead ==
  /\ Read(gateway)
  /\ gateway' = [gateway EXCEPT !.seen = <<channels>>]
  /\ UNCHANGED <<config, files, channels, threads, cli, known, ops, restarts, mine, joined, left, excused>>

GatewayWrite ==
  /\ Write(gateway, known)
  /\ gateway' = [todo |-> Tail(gateway.todo), seen |-> <<>>]
  /\ UNCHANGED <<config, files, threads, cli, known, ops, restarts, mine>>

GatewayRestart ==
  /\ restarts < MaxRestarts
  /\ restarts' = restarts + 1
  /\ gateway' = Idle /\ known' = Configured
  /\ UNCHANGED <<config, files, channels, threads, cli, ops, mine, joined, left, excused>>

Init ==
  /\ config = [a \in {Default} |-> Default]
  /\ files = [r \in Roots |-> IF r = Default THEN 1 ELSE 0]
  /\ channels = [c \in Channels |-> IF c = "home" THEN [agents |-> {Default}, manifest |-> "none"] ELSE NoEntry]
  /\ threads = [t \in Threads |-> None]
  /\ cli = Idle /\ gateway = Idle /\ known = {Default}
  /\ ops = 1 /\ restarts = 0
  /\ mine = [a \in {Default} |-> 1] /\ joined = {} /\ left = {} /\ excused = {}

Next ==
  \/ Start \/ CliRead \/ CliWrite \/ CliThreads \/ CliScaffold \/ CliDelete \/ CliMove \/ CliKilled
  \/ \E t \in Threads : Inbound(t)
  \/ \E c \in Channels : LookUp(c)
  \/ GatewayRead \/ GatewayWrite \/ GatewayRestart

Spec == Init /\ [][Next]_rosterVars

----------------------------------------------------------------------------
(* Properties.                                                             *)

RosterTypeOK ==
  /\ Default \in Configured /\ Configured \subseteq Agents
  /\ \A a \in Configured : config[a] \in Roots /\ mine[a] \in 0..MaxOps
  /\ files \in [Roots -> 0..MaxOps]
  /\ \A c \in Channels : /\ channels[c].agents \subseteq Agents
                         /\ channels[c].manifest \in {"absent", "none", "free", "bound"}
                         /\ channels[c].manifest = "absent" => channels[c].agents = {}
  /\ threads \in [Threads -> Agents \union {None}]
  /\ known \subseteq Agents /\ excused \subseteq Agents
  /\ joined \subseteq Channels \X Agents /\ left \subseteq Channels \X Agents

\* Between commands every member and every addressed agent is a configured
\* agent: what removal and renaming leave behind comes from a command that was
\* cut short, two processes writing channels.json at once, or a gateway that
\* seeds a channel with agents it read before they were removed.
GhostsExcused ==
  cli = Idle =>
    /\ \A c \in Channels : channels[c].agents \subseteq Configured \union excused
    /\ \A t \in Threads : threads[t] \in Configured \union excused \union {None}

\* A membership a command gave is there until a command takes it, through
\* renames and the gateway's own edits, and the agent a thread is addressed to
\* is a member of the thread's channel, or its messages wake nobody; lost
\* updates and commands cut short excepted.
MembersStay ==
  cli = Idle =>
    /\ \A j \in joined : j[2] \in channels[j[1]].agents \union excused
    /\ \A t \in Threads :
         LET a == threads[t] IN
           a \in Configured \ excused /\ <<ChannelOf[t], a>> \notin left =>
             a \in channels[ChannelOf[t]].agents

\* An agent's directory has the files it was left with, through the renaming,
\* moving and removing of itself and of others; a move that found its target
\* taken, and a directory given to two agents, excepted.
FilesFollow ==
  cli = Idle => \A a \in Configured \ excused : files[config[a]] = mine[a] /\ mine[a] # 0
=============================================================================
