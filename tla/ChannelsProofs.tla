--------------------------- MODULE ChannelsProofs ---------------------------
(***************************************************************************)
(* What is proved of the components about channels, beside the delivery    *)
(* loop: the roster, for any agents, directories, channels, threads and    *)
(* commands. config.json, channels.json, the surface state and the         *)
(* directories agree between commands, whatever the gateway writes         *)
(* meanwhile.                                                              *)
(***************************************************************************)
EXTENDS MCChannels, SequenceTheorems, TLAPS

----------------------------------------------------------------------------
(* The roster.                                                             *)
(*                                                                         *)
(* A command is a plan of steps over four files. The invariant says what   *)
(* of a plan is still to come (Follows, StepSound), so that what is out of *)
(* step between two files is always what the next step is about, and that  *)
(* every edit from an older channels.json leaves a mark on the agents it   *)
(* overwrites.                                                             *)

\* What channels.json can be: an agent is listed only where there is an entry.
RosterFiles ==
  {g \in [Rooms -> [agents : SUBSET Configurable, manifest : {"absent", "none", "free", "bound"}]] :
     \A c \in Rooms : g[c].manifest = "absent" => g[c].agents = {}}

StepNames ==
  Roster!ChannelSteps \union {"set", "unset", "clear", "address", "scaffold", "delete", "move"}
RosterSteps ==
  [do : StepNames, c : Rooms, a : Configurable, b : Configurable, r : Roots \union Threads]

RosterWork == [todo : Seq(RosterSteps), seen : Seq(RosterFiles)]

RosterTyped ==
  /\ Default \in Roster!Configured /\ Roster!Configured \subseteq Configurable
  /\ config \in [Roster!Configured -> Roots] /\ mine \in [Roster!Configured -> 0..MaxOps]
  /\ files \in [Roots -> 0..MaxOps] /\ ops \in 1..MaxOps
  /\ channels \in RosterFiles
  /\ threads \in [Threads -> Configurable \union {"none"}]
  /\ known \subseteq Configurable /\ ghosts \subseteq Configurable
  /\ joined \subseteq Rooms \X Configurable /\ left \subseteq Rooms \X Configurable
  /\ cli \in RosterWork /\ gatewayUp \in RosterWork
  /\ cli.seen # <<>> => cli.todo # <<>> /\ Head(cli.todo).do \in Roster!ChannelSteps

\* What a command still has to do after step s.
Deletes(rest) == rest = <<>> \/ \E r \in Roots : rest = <<[Roster!Step("delete") EXCEPT !.r = r]>>
Sets(c, a, rest) ==
  \/ rest = <<>>
  \/ \E t \in Threads : c = ChannelOf[t] /\ rest = <<[Roster!On("set", c, a) EXCEPT !.r = t]>>
Follows(s, rest) ==
  CASE s.do = "move" ->
         rest = IF s.a = s.b THEN <<>> ELSE <<Roster!Of("rename", s.a, s.b), Roster!Of("address", s.a, s.b)>>
    [] s.do = "rename" -> rest = <<Roster!Of("address", s.a, s.b)>>
    [] s.do = "drop" -> rest # <<>> /\ Head(rest) = Roster!Of("clear", s.a, s.a) /\ Deletes(Tail(rest))
    [] s.do = "clear" -> Deletes(rest)
    [] s.do \in {"ensure", "join"} -> Sets(s.c, s.a, rest)
    [] s.do = "manifest" -> rest \in {<<Roster!On(d, s.c, Default)>> : d \in {"bind", "unbind"}}
    [] OTHER -> rest = <<>>

\* What is so of a pending step while configurations stand still.
StepSound(s) ==
  CASE s.do = "scaffold" -> s.a \in Roster!Configured /\ s.r = config[s.a]
    [] s.do \in {"drop", "clear"} -> s.a \notin Roster!Configured
    [] s.do = "delete" -> s.r \in Roots /\ \A x \in Roster!Configured : config[x] = s.r => x \in ghosts
    [] s.do = "move" ->
         /\ s.b \in Roster!Configured /\ s.r \in Roots
         /\ s.a = s.b \/ s.a \notin Roster!Configured
         /\ files[s.r] # 0 \/ s.b \in ghosts
         /\ \A x \in Roster!Configured : x # s.b /\ config[x] = s.r => x \in ghosts
    [] s.do \in {"rename", "address"} -> s.a \notin Roster!Configured /\ s.b \in Roster!Configured
    [] s.do \in {"join", "leave", "ensure"} -> s.a \in Roster!Configured
    [] s.do = "set" -> s.a \in Roster!Configured /\ s.r \in Threads /\ s.c = ChannelOf[s.r]
    [] OTHER -> TRUE

Step1 == Head(cli.todo)
PlanSound ==
  /\ cli.todo # <<>> => Follows(Step1, Tail(cli.todo))
  /\ \A k \in 1..Len(cli.todo) : StepSound(cli.todo[k])
GatewaySeeds == \A k \in 1..Len(gatewayUp.todo) : gatewayUp.todo[k].do \in {"seed", "manifest", "bind"}

At(dos) == cli.todo # <<>> /\ Step1.do \in dos

MembersKnown ==
  \A c \in Rooms : \A x \in channels[c].agents :
    \/ x \in Roster!Configured \union ghosts
    \/ At({"drop", "move", "rename"}) /\ Step1.a = x
AddressedKnown ==
  \A t \in Threads :
    \/ threads[t] \in Roster!Configured \union ghosts \union {"none"}
    \/ At({"drop", "clear", "move", "rename", "address"}) /\ Step1.a = threads[t]

\* What others wrote since a command read.
SeenKnown ==
  cli.seen # <<>> =>
    \A c \in Rooms :
      /\ channels[c].agents \ cli.seen[1][c].agents \subseteq Roster!Configured \union ghosts
      /\ cli.seen[1][c].agents \ channels[c].agents \subseteq ghosts

Belongs(x, c) == x \in channels[c].agents \union ghosts \/ <<c, x>> \in left
JoinedStay == \A j \in joined : j[2] \in channels[j[1]].agents \union ghosts
AddressedBelong ==
  /\ \A t \in Threads :
       \/ threads[t] = "none" \/ Belongs(threads[t], ChannelOf[t])
       \/ At({"clear", "address"}) /\ Step1.a = threads[t]
  /\ At({"address"}) => \A t \in Threads : threads[t] = Step1.a => Belongs(Step1.b, ChannelOf[t])
  /\ At({"set"}) => Belongs(Step1.a, Step1.c)

SharedExcused == Roster!Sharing(config) \subseteq ghosts
FilesKept ==
  \A x \in Roster!Configured \ ghosts :
    \/ files[config[x]] = mine[x] /\ mine[x] # 0
    \/ At({"scaffold"}) /\ Step1.a = x
    \/ At({"move"}) /\ Step1.b = x

RosterInv ==
  /\ RosterTyped /\ PlanSound /\ GatewaySeeds
  /\ MembersKnown /\ AddressedKnown /\ SeenKnown
  /\ JoinedStay /\ AddressedBelong
  /\ SharedExcused /\ FilesKept

----------------------------------------------------------------------------
(* Edits of channels.json.                                                 *)

\* The agents a step may take from the members of a channel.
Gone(s, c) ==
  CASE s.do = "leave" -> IF c = s.c THEN {s.a} ELSE {}
    [] s.do \in {"drop", "rename"} -> {s.a}
    [] OTHER -> {}

LEMMA RosterStepNames ==
  ASSUME NEW s \in RosterSteps
  PROVE  /\ s.do \in StepNames /\ s.c \in Rooms /\ s.a \in Configurable /\ s.b \in Configurable
         /\ s.r \in Roots \union Threads
BY DEF RosterSteps

LEMMA RosterEntry ==
  ASSUME NEW g \in RosterFiles, NEW c \in Rooms
  PROVE  /\ g[c] \in [agents : SUBSET Configurable, manifest : {"absent", "none", "free", "bound"}]
         /\ g[c].agents \subseteq Configurable
         /\ g[c].manifest \in {"absent", "none", "free", "bound"}
         /\ g[c].manifest = "absent" => g[c].agents = {}
<1>1. g[c] \in [agents : SUBSET Configurable, manifest : {"absent", "none", "free", "bound"}]
  BY DEF RosterFiles
<1>2. g[c].manifest = "absent" => g[c].agents = {}
  BY DEF RosterFiles
<1> QED BY <1>1, <1>2

\* The manifests an entry may have.
Decided == {"none", "free", "bound"}

WithEntry(g, c, members, m) == [g EXCEPT ![c] = [agents |-> members, manifest |-> m]]

\* One entry changes, into one that may stand in the file.
LEMMA EntryPut ==
  ASSUME NEW g \in RosterFiles, NEW c \in Rooms, NEW members \in SUBSET Configurable,
         NEW m \in Decided,
         NEW put, put = WithEntry(g, c, members, m)
  PROVE  put \in RosterFiles /\ put[c].agents = members /\ \A d \in Rooms \ {c} : put[d] = g[d]
<1>1. g \in [Rooms -> [agents : SUBSET Configurable, manifest : {"absent", "none", "free", "bound"}]]
  BY DEF RosterFiles
<1>2. put \in [Rooms -> [agents : SUBSET Configurable, manifest : {"absent", "none", "free", "bound"}]]
  BY <1>1 DEF WithEntry, Decided
<1>3. put[c] = [agents |-> members, manifest |-> m] /\ \A d \in Rooms \ {c} : put[d] = g[d]
  BY <1>1 DEF WithEntry, Decided
<1>4. ASSUME NEW d \in Rooms, put[d].manifest = "absent" PROVE put[d].agents = {}
  BY <1>3, <1>4, RosterEntry DEF Decided
<1> QED BY <1>2, <1>3, <1>4 DEF RosterFiles

LEMMA ManifestPut ==
  ASSUME NEW g \in RosterFiles, NEW c \in Rooms, NEW m \in Decided,
         NEW put, put = Roster!SetManifest(g, c, m)
  PROVE  put \in RosterFiles /\ put[c].agents = g[c].agents /\ \A d \in Rooms \ {c} : put[d] = g[d]
<1>1. g \in [Rooms -> [agents : SUBSET Configurable, manifest : {"absent", "none", "free", "bound"}]]
  BY DEF RosterFiles
<1>2. put \in [Rooms -> [agents : SUBSET Configurable, manifest : {"absent", "none", "free", "bound"}]]
  BY <1>1 DEF Roster!SetManifest, Decided
<1>3. put[c].agents = g[c].agents /\ put[c].manifest = m /\ \A d \in Rooms \ {c} : put[d] = g[d]
  BY <1>1 DEF Roster!SetManifest, Decided
<1>4. ASSUME NEW d \in Rooms, put[d].manifest = "absent" PROVE put[d].agents = {}
  BY <1>3, <1>4, RosterEntry DEF Decided
<1> QED BY <1>2, <1>3, <1>4 DEF RosterFiles

LEMMA Notes ==
  ASSUME NEW c \in Rooms, NEW m \in {"absent", "none", "free", "bound"}
  PROVE  Roster!Noted(m, c) \in {"free", "bound"} /\ Roster!Derived(c) \in {"free", "bound"}
BY DEF Roster!Noted, Roster!Derived

LEMMA Defaults ==
  ASSUME NEW c \in Rooms, NEW agents \in SUBSET Configurable
  PROVE  Roster!DefaultMembers(c, agents) \in SUBSET Configurable
BY RosterAssumptions DEF Roster!RosterAssumption, Roster!DefaultMembers

LEMMA SeedPut ==
  ASSUME NEW g \in RosterFiles, NEW c \in Rooms, NEW agents \in SUBSET Configurable,
         NEW put, put = Roster!Seed(g, c, agents)
  PROVE  put \in RosterFiles /\ g[c].agents \subseteq put[c].agents /\ \A d \in Rooms \ {c} : put[d] = g[d]
<1>1. CASE g[c] = Roster!NoEntry
  <2>1. g[c].agents = {}
    BY <1>1 DEF Roster!NoEntry
  <2>2. PICK members \in SUBSET Configurable : members = Roster!DefaultMembers(c, agents)
    BY Defaults
  <2>3. PICK m \in Decided : m = Roster!Derived(c)
    BY Notes, RosterEntry DEF Decided
  <2>4. put = WithEntry(g, c, members, m)
    BY <1>1, <2>2, <2>3 DEF Roster!Seed, WithEntry
  <2> QED BY <2>1, <2>4, EntryPut
<1>2. CASE g[c] # Roster!NoEntry
  <2>1. PICK m \in Decided : m = Roster!Noted(g[c].manifest, c)
    BY Notes, RosterEntry DEF Decided
  <2>3. put = Roster!SetManifest(g, c, m)
    BY <1>2, <2>1 DEF Roster!Seed, Roster!SetManifest
  <2> QED BY <2>3, ManifestPut
<1> QED BY <1>1, <1>2

\* The steps on one channel take nobody but who leaves.
LEMMA OneEntryEdited ==
  ASSUME NEW s \in RosterSteps, NEW g \in RosterFiles, NEW agents \in SUBSET Configurable,
         s.do \in {"seed", "ensure", "manifest", "bind", "unbind", "join", "leave"}
  PROVE  /\ Roster!Edited(s, g, agents) \in RosterFiles
         /\ \A c \in Rooms : g[c].agents \ Roster!Edited(s, g, agents)[c].agents \subseteq Gone(s, c)
         /\ s.do = "join" => s.a \in Roster!Edited(s, g, agents)[s.c].agents
<1> DEFINE e == Roster!Edited(s, g, agents)
<1>0. s.c \in Rooms /\ s.a \in Configurable
  BY RosterStepNames
<1>1. PICK c \in Rooms : c = s.c
  BY <1>0
<1>2. /\ g[c].agents \in SUBSET Configurable /\ g[c].manifest \in {"absent", "none", "free", "bound"}
      /\ Roster!Noted(g[c].manifest, c) \in Decided
  BY RosterEntry, Notes DEF Decided
<1>3. /\ e \in RosterFiles
      /\ g[c].agents \ e[c].agents \subseteq Gone(s, c)
      /\ \A d \in Rooms \ {c} : e[d] = g[d]
      /\ s.do = "join" => s.a \in e[c].agents
  <2>1. CASE s.do \in {"seed", "ensure"}
    <3>1. e = Roster!Seed(g, c, agents)
      BY <1>1, <2>1 DEF Roster!Edited
    <3> QED BY <3>1, <2>1, SeedPut
  <2>2. CASE s.do = "manifest"
    <3>1. e = Roster!SetManifest(g, c, Roster!Noted(g[c].manifest, c))
      BY <1>1, <2>2 DEF Roster!Edited, Roster!GetManifest, Roster!SetManifest
    <3>2. PICK m \in Decided : m = Roster!Noted(g[c].manifest, c)
      BY <1>2
    <3>3. e = Roster!SetManifest(g, c, m)
      BY <3>1, <3>2
    <3> QED BY <3>3, <2>2, ManifestPut
  <2>3. CASE s.do \in {"bind", "unbind"}
    <3>1. PICK m \in Decided : m = IF s.do = "bind" THEN "bound" ELSE "free"
      BY DEF Decided
    <3>2. e = Roster!SetManifest(g, c, m)
      BY <1>1, <2>3, <3>1 DEF Roster!Edited
    <3> QED BY <3>2, <2>3, ManifestPut
  <2>4. CASE s.do \in {"join", "leave"}
    <3>1. PICK members \in SUBSET Configurable :
            members = IF s.do = "join" THEN g[c].agents \union {s.a} ELSE g[c].agents \ {s.a}
      BY <1>0, <1>2
    <3>2. PICK m \in Decided : m = Roster!Noted(g[c].manifest, c)
      BY <1>2
    <3>3. e = WithEntry(g, c, members, m)
      BY <1>1, <2>4, <3>1, <3>2 DEF Roster!Edited, Roster!AddAgent, Roster!RemoveAgent, WithEntry
    <3>4. e \in RosterFiles /\ e[c].agents = members /\ \A d \in Rooms \ {c} : e[d] = g[d]
      BY <3>3, EntryPut
    <3>5. g[c].agents \ members \subseteq Gone(s, c)
      BY <1>1, <2>4, <3>1 DEF Gone
    <3> QED BY <2>4, <3>1, <3>4, <3>5
  <2> QED BY <2>1, <2>2, <2>3, <2>4
<1> HIDE DEF e
<1>4. \A d \in Rooms : g[d].agents \ e[d].agents \subseteq Gone(s, d)
  BY <1>3
<1> QED BY <1>1, <1>3, <1>4 DEF e

\* Removal and renaming reach every channel.
LEMMA EveryEntryEdited ==
  ASSUME NEW s \in RosterSteps, NEW g \in RosterFiles, NEW agents \in SUBSET Configurable,
         s.do \in {"drop", "rename"}, s.do = "rename" => s.a # s.b
  PROVE  /\ Roster!Edited(s, g, agents) \in RosterFiles
         /\ \A c \in Rooms :
              /\ g[c].agents \ Roster!Edited(s, g, agents)[c].agents \subseteq {s.a}
              /\ s.a \notin Roster!Edited(s, g, agents)[c].agents
              /\ s.do = "rename" /\ s.a \in g[c].agents => s.b \in Roster!Edited(s, g, agents)[c].agents
<1> DEFINE e == Roster!Edited(s, g, agents)
           New(x) == IF s.do = "drop" THEN x \ {s.a} ELSE Roster!Renamed(x, s.a, s.b)
<1>1. e = [c \in Rooms |-> [g[c] EXCEPT !.agents = New(@)]]
  BY DEF Roster!Edited, Roster!RemoveEverywhere, Roster!RenameEverywhere
<1>2. ASSUME NEW c \in Rooms
      PROVE  /\ e[c] = [agents |-> New(g[c].agents), manifest |-> g[c].manifest]
             /\ New(g[c].agents) \in SUBSET Configurable
             /\ g[c].agents = {} => New(g[c].agents) = {}
             /\ g[c].agents \ New(g[c].agents) \subseteq {s.a} /\ s.a \notin New(g[c].agents)
             /\ s.do = "rename" /\ s.a \in g[c].agents => s.b \in New(g[c].agents)
  <2>1. g[c] = [agents |-> g[c].agents, manifest |-> g[c].manifest]
    BY RosterEntry
  <2>2. e[c] = [agents |-> New(g[c].agents), manifest |-> g[c].manifest]
    BY <1>1, <2>1
  <2>3. s.a \in Configurable /\ s.b \in Configurable /\ g[c].agents \subseteq Configurable
    BY RosterStepNames, RosterEntry
  <2> QED BY <2>2, <2>3 DEF Roster!Renamed
<1>3. ASSUME NEW c \in Rooms
      PROVE  /\ e[c] \in [agents : SUBSET Configurable, manifest : {"absent", "none", "free", "bound"}]
             /\ e[c].manifest = "absent" => e[c].agents = {}
  <2>1. g[c].manifest \in {"absent", "none", "free", "bound"} /\ (g[c].manifest = "absent" => g[c].agents = {})
    BY RosterEntry
  <2>2. PICK x \in SUBSET Configurable : x = New(g[c].agents)
    BY <1>2
  <2>3. e[c] = [agents |-> x, manifest |-> g[c].manifest] /\ (g[c].agents = {} => x = {})
    BY <1>2, <2>2
  <2> QED BY <2>1, <2>3
<1>4. \E h : e = [c \in Rooms |-> h[c]]
  <2>1. e = [c \in Rooms |-> e[c]]
    BY <1>1
  <2> QED BY <2>1
<1> HIDE DEF New, e
<1>5. e \in RosterFiles
  <2>1. e \in [Rooms -> [agents : SUBSET Configurable, manifest : {"absent", "none", "free", "bound"}]]
    BY <1>3, <1>4
  <2> QED BY <1>3, <2>1 DEF RosterFiles
<1>6. ASSUME NEW c \in Rooms PROVE e[c].agents = New(g[c].agents)
  <2>1. e[c] = [agents |-> New(g[c].agents), manifest |-> g[c].manifest]
    BY <1>2
  <2> QED BY <2>1
<1> QED BY <1>2, <1>5, <1>6 DEF e

----------------------------------------------------------------------------
(* Writing what was read, changed.                                         *)

LEMMA TouchedIs ==
  ASSUME NEW g, NEW h, NEW c \in Rooms, NEW x
  PROVE  x \in (g[c].agents \ h[c].agents) \union (h[c].agents \ g[c].agents) => x \in Roster!Touched(g, h)
BY DEF Roster!Touched

LEMMA TouchedTyped ==
  ASSUME NEW g \in RosterFiles, NEW h \in RosterFiles
  PROVE  Roster!Touched(g, h) \subseteq Configurable
<1> SUFFICES ASSUME NEW x \in Roster!Touched(g, h) PROVE x \in Configurable
  OBVIOUS
<1>1. PICK c \in Rooms : x \in (g[c].agents \ h[c].agents) \union (h[c].agents \ g[c].agents)
  BY DEF Roster!Touched
<1> QED BY <1>1, RosterEntry

\* Every change to channels.json that is not what the step is for leaves a mark: who
\* is new is a configured agent or excused, and so is who is lost without being taken.
LEMMA Written ==
  ASSUME NEW p \in RosterWork, NEW agents \in SUBSET Configurable, NEW s \in RosterSteps,
         NEW g \in RosterFiles, NEW e \in RosterFiles,
         channels \in RosterFiles, ghosts \subseteq Configurable,
         Roster!Write(p, agents), s = Head(p.todo), g = p.seen[1], e = Roster!Edited(s, g, agents)
  PROVE  /\ ghosts \subseteq ghosts' /\ ghosts' \subseteq Configurable /\ channels' \in RosterFiles
         /\ \A c \in Rooms : \A x \in channels'[c].agents :
              \/ x \in ghosts' \/ x \in Roster!Configured
              \/ x \in channels[c].agents /\ (x \in e[c].agents \/ x \notin g[c].agents)
         /\ \A c \in Rooms : \A x \in channels[c].agents :
              x \in channels'[c].agents \/ x \in ghosts' \/ x \in g[c].agents \ e[c].agents
         /\ channels' = e \/ (channels' = channels /\ e = g /\ ~Roster!AlwaysWrites(s))
         /\ s.do = "rename" /\ s.a \in ghosts => s.b \in ghosts'
<1> DEFINE marks == (UNION {channels'[c].agents \ g[c].agents : c \in Rooms}) \ Roster!Configured
<1>0. channels' = IF e = g /\ ~Roster!AlwaysWrites(s) THEN channels ELSE e
  BY DEF Roster!Write
<1>1. /\ channels' = IF e = g /\ ~Roster!AlwaysWrites(s) THEN channels ELSE e
      /\ ghosts' = ghosts \union (IF channels' = channels THEN {} ELSE Roster!Touched(g, channels))
                          \union marks
                          \union {x \in {s.b} : s.do = "rename" /\ s.a \in ghosts}
  BY DEF Roster!Write
<1>2. ASSUME NEW c \in Rooms, NEW x \in channels'[c].agents, x \notin g[c].agents
      PROVE  x \in marks \/ x \in Roster!Configured
  BY <1>2
<1>3. channels' \in RosterFiles
  BY <1>1
<1>4. marks \subseteq Configurable
  <2> SUFFICES ASSUME NEW x \in marks PROVE x \in Configurable
    OBVIOUS
  <2>1. PICK c \in Rooms : x \in channels'[c].agents
    OBVIOUS
  <2> QED BY <1>3, <2>1, RosterEntry
<1> HIDE DEF marks
<1>5. /\ ghosts \subseteq ghosts' /\ marks \subseteq ghosts'
      /\ channels' # channels => Roster!Touched(g, channels) \subseteq ghosts'
      /\ s.do = "rename" /\ s.a \in ghosts => s.b \in ghosts'
  BY <1>1
<1>6. ghosts' \subseteq Configurable
  BY <1>1, <1>4, TouchedTyped, RosterStepNames
<1>7. channels' = e \/ (channels' = channels /\ e = g /\ ~Roster!AlwaysWrites(s))
  <2>1. CASE e = g /\ ~Roster!AlwaysWrites(s)
    BY <1>0, <2>1
  <2>2. CASE ~(e = g /\ ~Roster!AlwaysWrites(s))
    BY <1>0, <2>2
  <2> QED BY <2>1, <2>2
<1>8. ASSUME NEW c \in Rooms, NEW x \in channels'[c].agents, x \notin ghosts', x \notin Roster!Configured
      PROVE  x \in channels[c].agents /\ (x \in e[c].agents \/ x \notin g[c].agents)
  <2>1. x \in g[c].agents
    BY <1>2, <1>5, <1>8
  <2>2. CASE channels' = channels
    BY <1>7, <1>8, <2>1, <2>2
  <2>3. CASE channels' # channels
    <3>1. x \notin Roster!Touched(g, channels)
      BY <1>5, <1>8, <2>3
    <3> QED BY <1>7, <1>8, <2>1, <2>3, <3>1, TouchedIs
  <2> QED BY <2>2, <2>3
<1>9. ASSUME NEW c \in Rooms, NEW x \in channels[c].agents, x \notin channels'[c].agents, x \notin ghosts'
      PROVE  x \in g[c].agents \ e[c].agents
  <2>1. channels' # channels /\ channels' = e
    BY <1>7, <1>9
  <2>2. x \notin Roster!Touched(g, channels)
    BY <1>5, <1>9, <2>1
  <2> QED BY <1>9, <2>1, <2>2, TouchedIs
<1> QED BY <1>3, <1>5, <1>6, <1>7, <1>8, <1>9

----------------------------------------------------------------------------
(* What a command still has to do.                                         *)

LEMMA OfFields ==
  ASSUME NEW do, do \in StepNames, NEW a \in Configurable, NEW b \in Configurable
  PROVE  /\ Roster!Of(do, a, b) \in RosterSteps
         /\ Roster!Of(do, a, b).do = do /\ Roster!Of(do, a, b).a = a /\ Roster!Of(do, a, b).b = b
<1> DEFINE room == CHOOSE d \in Rooms : TRUE
           x == [do |-> do, c |-> room, a |-> Default, b |-> Default, r |-> Default]
<1>1. room \in Rooms /\ Default \in Configurable /\ Default \in Roots
  BY RosterAssumptions DEF Roster!RosterAssumption
<1>2. PICK y : y = [x EXCEPT !.a = a]
  OBVIOUS
<1>3. Roster!Of(do, a, b) = [y EXCEPT !.b = b]
  BY <1>2 DEF Roster!Of, Roster!Step
<1> HIDE DEF room
<1>4. y = [do |-> do, c |-> room, a |-> a, b |-> Default, r |-> Default]
  BY <1>2
<1>5. [y EXCEPT !.b = b] = [do |-> do, c |-> room, a |-> a, b |-> b, r |-> Default]
  BY <1>4
<1> QED BY <1>1, <1>3, <1>5 DEF RosterSteps

LEMMA OnFields ==
  ASSUME NEW do, do \in StepNames, NEW c \in Rooms, NEW a \in Configurable
  PROVE  /\ Roster!On(do, c, a) \in RosterSteps
         /\ Roster!On(do, c, a).do = do /\ Roster!On(do, c, a).c = c /\ Roster!On(do, c, a).a = a
<1> DEFINE room == CHOOSE d \in Rooms : TRUE
           x == [do |-> do, c |-> room, a |-> Default, b |-> Default, r |-> Default]
<1>1. room \in Rooms /\ Default \in Configurable /\ Default \in Roots
  BY RosterAssumptions DEF Roster!RosterAssumption
<1>2. PICK y : y = [x EXCEPT !.c = c]
  OBVIOUS
<1>3. Roster!On(do, c, a) = [y EXCEPT !.a = a]
  BY <1>2 DEF Roster!On, Roster!Step
<1> HIDE DEF room
<1>4. y = [do |-> do, c |-> c, a |-> Default, b |-> Default, r |-> Default]
  BY <1>2
<1>5. [y EXCEPT !.a = a] = [do |-> do, c |-> c, a |-> a, b |-> Default, r |-> Default]
  BY <1>4
<1> QED BY <1>1, <1>3, <1>5 DEF RosterSteps

LEMMA StepTyped ==
  ASSUME NEW do, do \in StepNames
  PROVE  Roster!Step(do) \in RosterSteps /\ Roster!Step(do).do = do
<1> DEFINE room == CHOOSE d \in Rooms : TRUE
<1>1. room \in Rooms /\ Default \in Configurable /\ Default \in Roots
  BY RosterAssumptions DEF Roster!RosterAssumption
<1>2. Roster!Step(do) = [do |-> do, c |-> room, a |-> Default, b |-> Default, r |-> Default]
  BY DEF Roster!Step
<1> HIDE DEF room
<1> QED BY <1>1, <1>2 DEF RosterSteps

LEMMA WithRoot ==
  ASSUME NEW s \in RosterSteps, NEW r \in Roots \union Threads
  PROVE  /\ [s EXCEPT !.r = r] \in RosterSteps
         /\ [s EXCEPT !.r = r].do = s.do /\ [s EXCEPT !.r = r].a = s.a /\ [s EXCEPT !.r = r].b = s.b
         /\ [s EXCEPT !.r = r].c = s.c /\ [s EXCEPT !.r = r].r = r
<1>1. s = [do |-> s.do, c |-> s.c, a |-> s.a, b |-> s.b, r |-> s.r]
  BY DEF RosterSteps
<1>2. [s EXCEPT !.r = r] = [do |-> s.do, c |-> s.c, a |-> s.a, b |-> s.b, r |-> r]
  BY <1>1
<1> QED BY <1>2 DEF RosterSteps

LEMMA TodoTail ==
  ASSUME NEW q \in Seq(RosterSteps), q # <<>>
  PROVE  /\ Head(q) \in RosterSteps /\ Head(q) = q[1] /\ Tail(q) \in Seq(RosterSteps)
         /\ Len(q) \in Nat \ {0} /\ Len(Tail(q)) = Len(q) - 1
         /\ \A k \in 1..Len(Tail(q)) : Tail(q)[k] = q[k + 1] /\ k + 1 \in 1..Len(q)
OBVIOUS

\* The step behind step s goes on with what s was for.
Behind(s, n) ==
  /\ s.do = "move" => n.do = "rename" /\ n.a = s.a /\ n.b = s.b /\ s.a # s.b
  /\ s.do = "rename" => n.do = "address" /\ n.a = s.a /\ n.b = s.b
  /\ s.do = "drop" => n.do = "clear" /\ n.a = s.a
  /\ s.do = "clear" => n.do = "delete"
  /\ s.do \in {"ensure", "join"} => n.do = "set" /\ n.a = s.a /\ n.c = s.c
  /\ s.do = "manifest" => n.do \in {"bind", "unbind"}
  /\ s.do \in {"move", "rename", "drop", "clear", "ensure", "join", "manifest"}

LEMMA Singleton ==
  ASSUME NEW x PROVE <<x>> # <<>> /\ Head(<<x>>) = x /\ Tail(<<x>>) = <<>> /\ Len(<<x>>) = 1 /\ <<x>>[1] = x
OBVIOUS

LEMMA AllNames ==
  /\ "rename" \in StepNames /\ "address" \in StepNames /\ "clear" \in StepNames /\ "set" \in StepNames
  /\ "delete" \in StepNames /\ "bind" \in StepNames /\ "unbind" \in StepNames /\ "join" \in StepNames
  /\ "leave" \in StepNames /\ "seed" \in StepNames /\ "ensure" \in StepNames /\ "manifest" \in StepNames
  /\ "drop" \in StepNames /\ "scaffold" \in StepNames /\ "move" \in StepNames /\ "unset" \in StepNames
BY DEF StepNames, Roster!ChannelSteps

LEMMA GoesOn ==
  ASSUME NEW s \in RosterSteps, NEW rest \in Seq(RosterSteps), Follows(s, rest), rest # <<>>
  PROVE  Behind(s, Head(rest)) /\ Follows(Head(rest), Tail(rest))
<1>0. /\ s.do \in StepNames /\ s.a \in Configurable /\ s.b \in Configurable /\ s.c \in Rooms
      /\ Default \in Configurable /\ Default \in Roots
  BY RosterStepNames, RosterAssumptions DEF Roster!RosterAssumption
<1>1. CASE s.do = "move"
  <2> DEFINE p == Roster!Of("rename", s.a, s.b)  q == Roster!Of("address", s.a, s.b)
  <2>1. s.a # s.b /\ rest = <<p, q>>
    BY <1>1 DEF Follows
  <2>2. p.do = "rename" /\ p.a = s.a /\ p.b = s.b
    BY <1>0, OfFields, AllNames
  <2> HIDE DEF p
  <2>3. Head(rest) = p /\ Tail(rest) = <<q>>
    BY <2>1
  <2>4. Follows(p, <<q>>)
    BY <2>2 DEF Follows, q
  <2> QED BY <1>1, <2>1, <2>2, <2>3, <2>4 DEF Behind
<1>2. CASE s.do = "rename"
  <2> DEFINE q == Roster!Of("address", s.a, s.b)
  <2>1. rest = <<q>>
    BY <1>2 DEF Follows
  <2>2. q.do = "address" /\ q.a = s.a /\ q.b = s.b
    BY <1>0, OfFields, AllNames
  <2> HIDE DEF q
  <2>3. Head(rest) = q /\ Tail(rest) = <<>>
    BY <2>1
  <2>4. Follows(q, <<>>)
    BY <2>2 DEF Follows
  <2> QED BY <1>2, <2>2, <2>3, <2>4 DEF Behind
<1>3. CASE s.do = "drop"
  <2> DEFINE q == Roster!Of("clear", s.a, s.a)
  <2>1. Head(rest) = q /\ Deletes(Tail(rest))
    BY <1>3 DEF Follows
  <2>2. q.do = "clear" /\ q.a = s.a
    BY <1>0, OfFields, AllNames
  <2> HIDE DEF q
  <2>3. Follows(q, Tail(rest))
    BY <2>1, <2>2 DEF Follows
  <2> QED BY <1>3, <2>1, <2>2, <2>3 DEF Behind
<1>4. CASE s.do = "clear"
  <2>1. PICK r \in Roots : rest = <<[Roster!Step("delete") EXCEPT !.r = r]>>
    BY <1>4 DEF Follows, Deletes
  <2> DEFINE q == [Roster!Step("delete") EXCEPT !.r = r]
  <2>2. q.do = "delete"
    BY <1>0, StepTyped, WithRoot, AllNames
  <2> HIDE DEF q
  <2>3. Head(rest) = q /\ Tail(rest) = <<>>
    BY <2>1 DEF q
  <2>4. Follows(q, <<>>)
    BY <2>2 DEF Follows
  <2> QED BY <1>4, <2>2, <2>3, <2>4 DEF Behind
<1>5. CASE s.do \in {"ensure", "join"}
  <2>1. PICK t \in Threads : rest = <<[Roster!On("set", s.c, s.a) EXCEPT !.r = t]>>
    BY <1>5 DEF Follows, Sets
  <2> DEFINE q == [Roster!On("set", s.c, s.a) EXCEPT !.r = t]
  <2>5. PICK o \in RosterSteps : /\ o = Roster!On("set", s.c, s.a)
                                 /\ o.do = "set" /\ o.a = s.a /\ o.c = s.c
    BY <1>0, OnFields, AllNames
  <2>6. q = [o EXCEPT !.r = t]
    BY <2>5
  <2>2. q.do = "set" /\ q.a = s.a /\ q.c = s.c
    BY <2>5, <2>6, WithRoot
  <2> HIDE DEF q
  <2>3. Head(rest) = q /\ Tail(rest) = <<>>
    BY <2>1 DEF q
  <2>4. Follows(q, <<>>)
    BY <2>2 DEF Follows
  <2> QED BY <1>5, <2>2, <2>3, <2>4 DEF Behind
<1>6. CASE s.do = "manifest"
  <2>1. PICK d \in {"bind", "unbind"} : rest = <<Roster!On(d, s.c, Default)>>
    BY <1>6 DEF Follows
  <2> DEFINE q == Roster!On(d, s.c, Default)
  <2>2. q.do = d
    BY <1>0, OnFields, AllNames
  <2> HIDE DEF q
  <2>3. Head(rest) = q /\ Tail(rest) = <<>>
    BY <2>1 DEF q
  <2>4. Follows(q, <<>>)
    BY <2>2 DEF Follows
  <2> QED BY <1>6, <2>2, <2>3, <2>4 DEF Behind
<1>7. CASE s.do \notin {"move", "rename", "drop", "clear", "ensure", "join", "manifest"}
  BY <1>7 DEF Follows
<1> QED BY <1>1, <1>2, <1>3, <1>4, <1>5, <1>6, <1>7

\* Files are moved first of all.
LEMMA MovesFirst ==
  ASSUME NEW q \in Seq(RosterSteps), q # <<>>, Follows(Head(q), Tail(q))
  PROVE  \A k \in 1..Len(Tail(q)) : Tail(q)[k].do # "move"
<1> DEFINE Whole(w) == w \in Seq(RosterSteps) /\ (w # <<>> => Follows(Head(w), Tail(w)))
<1>1. ASSUME NEW w, Whole(w), w # <<>>
      PROVE  /\ Whole(Tail(w))
             /\ Head(w) \in RosterSteps /\ Head(w) = w[1] /\ Tail(w) \in Seq(RosterSteps)
             /\ Tail(w) # <<>> => Behind(Head(w), Head(Tail(w)))
  <2>1. /\ Head(w) \in RosterSteps /\ Head(w) = w[1] /\ Tail(w) \in Seq(RosterSteps)
        /\ Follows(Head(w), Tail(w))
    BY <1>1, TodoTail
  <2>2. Tail(w) # <<>> => Behind(Head(w), Head(Tail(w))) /\ Follows(Head(Tail(w)), Tail(Tail(w)))
    <3>1. PICK s \in RosterSteps : s = Head(w)
      BY <2>1
    <3>2. PICK rest \in Seq(RosterSteps) : rest = Tail(w)
      BY <2>1
    <3>3. Follows(s, rest)
      BY <2>1, <3>1, <3>2
    <3>4. ASSUME rest # <<>> PROVE Behind(s, Head(rest)) /\ Follows(Head(rest), Tail(rest))
      BY <3>3, <3>4, GoesOn
    <3> QED BY <3>1, <3>2, <3>4
  <2> QED BY <2>1, <2>2
<1>2. PICK u : u = Tail(q)
  OBVIOUS
<1>3. Whole(q) /\ Whole(u)
  BY <1>1, <1>2
<1>4. CASE u = <<>>
  BY <1>2, <1>4
<1>5. CASE u # <<>>
  <2>1. PICK v : v = Tail(u)
    OBVIOUS
  <2>2. Behind(Head(q), Head(u)) /\ Head(u) = u[1] /\ Whole(v) /\ u \in Seq(RosterSteps)
    BY <1>1, <1>2, <1>3, <1>5, <2>1
  <2>3. u[1].do # "move"
    BY <2>2 DEF Behind
  <2>4. ASSUME NEW k \in 1..Len(u), k # 1 PROVE u[k].do # "move"
    <3>1. v # <<>> /\ v \in Seq(RosterSteps)
      BY <1>5, <2>1, <2>2, <2>4
    <3>2. Behind(Head(u), Head(v)) /\ Head(v) = v[1] /\ Whole(Tail(v))
      BY <1>1, <1>3, <1>5, <2>1, <2>2, <3>1
    <3>3. v[1].do # "move"
      BY <3>2 DEF Behind
    <3>4. Tail(v) = <<>>
      <4>1. SUFFICES ASSUME Tail(v) # <<>> PROVE FALSE
        OBVIOUS
      <4>2. Behind(Head(v), Head(Tail(v)))
        BY <1>1, <2>2, <3>1, <4>1
      <4> QED BY <2>2, <3>2, <4>2 DEF Behind
    <3>5. Len(v) = 1
      <4>1. Len(v) \in Nat /\ Len(Tail(v)) = Len(v) - 1
        BY <3>1, TodoTail
      <4>2. Len(Tail(v)) = Len(<<>>) /\ Len(<<>>) = 0
        BY <3>4, EmptySeq
      <4> QED BY <4>1, <4>2
    <3>6. k = 2 /\ u[k] = v[1]
      <4>1. Len(u) = Len(v) + 1 /\ Len(u) \in Nat /\ \A n \in 1..Len(v) : v[n] = u[n + 1]
        BY <1>5, <2>1, <2>2, TodoTail
      <4> QED BY <2>4, <3>5, <4>1
    <3> QED BY <3>3, <3>6
  <2> QED BY <1>2, <2>3, <2>4
<1> QED BY <1>4, <1>5

\* What is so of a step stays so while configurations stand still.
LEMMA SoundKept ==
  ASSUME NEW s, StepSound(s), config' = config, ghosts \subseteq ghosts',
         s.do = "move" => files' = files
  PROVE  StepSound(s)'
<1>1. Roster!Configured' = Roster!Configured
  BY DEF Roster!Configured
<1>2. CASE s.do = "delete"
  BY <1>1, <1>2 DEF StepSound
<1>3. CASE s.do = "move"
  <2>1. files' = files
    BY <1>3
  <2> QED BY <1>1, <1>3, <2>1 DEF StepSound
<1>4. CASE s.do \notin {"delete", "move"}
  BY <1>1, <1>4 DEF StepSound
<1> QED BY <1>2, <1>3, <1>4

\* The tail of a plan is as sound as the plan.
LEMMA Advance ==
  ASSUME cli \in RosterWork, cli.todo # <<>>, PlanSound,
         cli'.todo = Tail(cli.todo), config' = config, ghosts \subseteq ghosts'
  PROVE  PlanSound' /\ (cli'.todo # <<>> => Behind(Step1, Step1'))
<1>1. PICK q \in Seq(RosterSteps) : q = cli.todo
  BY DEF RosterWork
<1>2. PICK u \in Seq(RosterSteps) : u = Tail(q)
  BY <1>1, TodoTail
<1>3. PICK s \in RosterSteps : s = Head(q)
  BY <1>1, TodoTail
<1>4. q # <<>> /\ Follows(s, u) /\ (\A k \in 1..Len(q) : StepSound(q[k])) /\ cli'.todo = u
  BY <1>1, <1>2, <1>3 DEF PlanSound, Step1
<1>5. u # <<>> => Behind(s, Head(u)) /\ Follows(Head(u), Tail(u))
  <2>1. SUFFICES ASSUME u # <<>> PROVE Behind(s, Head(u)) /\ Follows(Head(u), Tail(u))
    OBVIOUS
  <2> QED BY <1>4, <2>1, GoesOn
<1>6. ASSUME NEW k \in 1..Len(u) PROVE StepSound(u[k])'
  <2>1. PICK n : n = u[k]
    OBVIOUS
  <2>2. u[k] = q[k + 1] /\ k + 1 \in 1..Len(q)
    BY <1>2, <1>4, TodoTail
  <2>3. StepSound(n)
    BY <1>4, <2>1, <2>2
  <2>4. n.do # "move"
    BY <1>2, <1>3, <1>4, <2>1, MovesFirst
  <2>5. StepSound(n)'
    BY <2>3, <2>4, SoundKept
  <2> QED BY <2>1, <2>5
<1>7. PlanSound'
  <2>1. (cli.todo # <<>> => Follows(Step1, Tail(cli.todo)))'
    BY <1>4, <1>5 DEF Step1
  <2>2. ASSUME NEW k \in 1..Len(cli'.todo) PROVE StepSound(cli.todo[k])'
    <3>1. PICK n : n = u[k]
      OBVIOUS
    <3>2. StepSound(n)' /\ n = cli'.todo[k]
      BY <1>4, <1>6, <2>2, <3>1
    <3> QED BY <3>2 DEF StepSound
  <2>3. (\A k \in 1..Len(cli.todo) : StepSound(cli.todo[k]))'
    BY <2>2
  <2> QED BY <2>1, <2>3 DEF PlanSound
<1>8. cli'.todo # <<>> => Behind(Step1, Step1')
  BY <1>1, <1>3, <1>4, <1>5 DEF Step1
<1> QED BY <1>7, <1>8

\* A plan that stays is as sound as before.
LEMMA PlanKept ==
  ASSUME PlanSound, cli'.todo = cli.todo, config' = config, ghosts \subseteq ghosts', files' = files
  PROVE  PlanSound'
<1>1. (cli.todo # <<>> => Follows(Step1, Tail(cli.todo)))'
  BY DEF PlanSound, Step1
<1>2. ASSUME NEW k \in 1..Len(cli'.todo) PROVE StepSound(cli.todo[k])'
  <2>1. PICK n : n = cli.todo[k]
    OBVIOUS
  <2>2. StepSound(n)
    BY <1>2, <2>1 DEF PlanSound
  <2>3. StepSound(n)' /\ n = cli'.todo[k]
    BY <2>1, <2>2, SoundKept
  <2> QED BY <2>3 DEF StepSound
<1>3. (\A k \in 1..Len(cli.todo) : StepSound(cli.todo[k]))'
  BY <1>2
<1> QED BY <1>1, <1>3 DEF PlanSound

\* A command that has nothing to do.
LEMMA PlanDone ==
  ASSUME cli'.todo = <<>>
  PROVE  PlanSound' /\ \A dos : ~At(dos)'
BY DEF PlanSound, At

LEMMA HeadSound ==
  ASSUME cli \in RosterWork, cli.todo # <<>>, PlanSound
  PROVE  /\ Step1 \in RosterSteps /\ StepSound(Step1) /\ Follows(Step1, Tail(cli.todo))
         /\ Tail(cli.todo) \in Seq(RosterSteps)
<1>1. PICK q \in Seq(RosterSteps) : q = cli.todo
  BY DEF RosterWork
<1>2. Head(q) \in RosterSteps /\ Head(q) = q[1] /\ Len(q) \in Nat \ {0} /\ Tail(q) \in Seq(RosterSteps)
  BY <1>1, TodoTail
<1>3. 1 \in 1..Len(q)
  BY <1>2
<1>4. StepSound(q[1])
  BY <1>1, <1>3 DEF PlanSound
<1> QED BY <1>1, <1>2, <1>4 DEF PlanSound, Step1

----------------------------------------------------------------------------
(* The steps of commands and gateway.                                      *)

LEMMA NobodysStep == "none" \notin Configurable
BY RosterAssumptions DEF Roster!RosterAssumption

\* A step that only reads or plans leaves all but the processes' work alone.
LEMMA FilesStill ==
  ASSUME RosterInv, UNCHANGED <<config, files, channels, threads, mine, joined, left, ghosts>>,
         cli'.todo = cli.todo
  PROVE  /\ PlanSound' /\ MembersKnown' /\ AddressedKnown' /\ JoinedStay' /\ AddressedBelong'
         /\ SharedExcused' /\ FilesKept'
<1>1. PlanSound'
  BY PlanKept DEF RosterInv
<1>2. Roster!Configured' = Roster!Configured /\ Step1' = Step1
  BY DEF Roster!Configured, Step1
<1>3. \A dos : At(dos)' = At(dos)
  BY <1>2 DEF At
<1>4. MembersKnown'
  BY <1>2, <1>3 DEF RosterInv, MembersKnown
<1>5. AddressedKnown'
  BY <1>2, <1>3 DEF RosterInv, AddressedKnown
<1>6. JoinedStay'
  BY DEF RosterInv, JoinedStay
<1>7. AddressedBelong'
  <2>1. \A x, c : Belongs(x, c)' = Belongs(x, c)
    BY DEF Belongs
  <2>2. ASSUME NEW t \in Threads PROVE Belongs(threads[t], ChannelOf[t])' = Belongs(threads[t], ChannelOf[t])
    BY DEF Belongs
  <2>3. ASSUME NEW t \in Threads PROVE Belongs(Step1.b, ChannelOf[t])' = Belongs(Step1.b, ChannelOf[t])
    BY <1>2 DEF Belongs
  <2>4. Belongs(Step1.a, Step1.c)' = Belongs(Step1.a, Step1.c)
    BY <1>2 DEF Belongs
  <2> QED BY <1>2, <1>3, <2>2, <2>3, <2>4 DEF RosterInv, AddressedBelong
<1>8. SharedExcused'
  BY DEF RosterInv, SharedExcused, Roster!Sharing
<1>9. FilesKept'
  BY <1>2, <1>3 DEF RosterInv, FilesKept
<1> QED BY <1>1, <1>4, <1>5, <1>6, <1>7, <1>8, <1>9

LEMMA WorkParts ==
  ASSUME NEW p \in RosterWork
  PROVE  p.todo \in Seq(RosterSteps) /\ p.seen \in Seq(RosterFiles) /\ p = [todo |-> p.todo, seen |-> p.seen]
BY DEF RosterWork

LEMMA WorkSeen ==
  ASSUME NEW p \in RosterWork, NEW h \in RosterFiles, NEW q, q = [p EXCEPT !.seen = <<h>>]
  PROVE  q \in RosterWork /\ q.todo = p.todo /\ q.seen = <<h>> /\ q.seen[1] = h /\ q.seen # <<>>
<1>1. PICK u \in Seq(RosterFiles) : u = <<h>>
  <2>1. \A S : \A x \in S : <<x>> \in Seq(S)
    OBVIOUS
  <2> QED BY <2>1
<1>2. q = [todo |-> p.todo, seen |-> u]
  BY <1>1, WorkParts
<1>3. q \in RosterWork
  BY <1>2, WorkParts DEF RosterWork
<1> QED BY <1>1, <1>2, <1>3

LEMMA CliReadKeeps ==
  ASSUME RosterInv, Roster!CliRead
  PROVE  RosterInv'
<1>1. /\ cli.todo # <<>> /\ Head(cli.todo).do \in Roster!ChannelSteps
      /\ cli' = [cli EXCEPT !.seen = <<channels>>]
      /\ UNCHANGED <<config, files, channels, threads, gatewayUp, known, ops, gatewayStarts, mine,
                    joined, left, ghosts>>
  BY DEF Roster!CliRead, Roster!Read
<1>2. cli \in RosterWork /\ channels \in RosterFiles
  BY DEF RosterInv, RosterTyped
<1>3. cli'.todo = cli.todo /\ cli'.seen = <<channels>> /\ cli' \in RosterWork
  BY <1>1, <1>2, WorkSeen
<1>4. RosterTyped'
  BY <1>1, <1>3 DEF RosterInv, RosterTyped, Roster!Configured
<1>5. GatewaySeeds'
  BY <1>1 DEF RosterInv, GatewaySeeds
<1>6. SeenKnown'
  <2>1. cli'.seen[1] = channels'
    BY <1>1, <1>3
  <2> QED BY <2>1 DEF SeenKnown
<1> QED BY <1>1, <1>3, <1>4, <1>5, <1>6, FilesStill DEF RosterInv

\* The gateway's plans.
LEMMA GatewayPlans ==
  ASSUME RosterInv, UNCHANGED <<config, files, channels, threads, cli, ops, mine, joined, left, ghosts>>,
         known' \in SUBSET Configurable, gatewayUp' \in RosterWork, GatewaySeeds'
  PROVE  RosterInv'
<1>1. RosterTyped'
  BY DEF RosterInv, RosterTyped, Roster!Configured
<1>2. SeenKnown'
  BY DEF RosterInv, SeenKnown, Roster!Configured
<1> QED BY <1>1, <1>2, FilesStill DEF RosterInv

LEMMA LookUpKeeps ==
  ASSUME RosterInv, NEW c \in Rooms, Roster!LookUp(c)
  PROVE  RosterInv'
<1> DEFINE s == Roster!On("seed", c, Default)
<1>1. Default \in Configurable
  BY RosterAssumptions DEF Roster!RosterAssumption
<1>2. s \in RosterSteps /\ s.do = "seed"
  BY <1>1, OnFields, AllNames
<1>3. gatewayUp' = [todo |-> <<s>>, seen |-> <<>>]
  BY DEF Roster!LookUp
<1> HIDE DEF s
<1>4. gatewayUp' \in RosterWork
  BY <1>2, <1>3 DEF RosterWork
<1>5. GatewaySeeds'
  BY <1>2, <1>3 DEF GatewaySeeds
<1>6. UNCHANGED <<config, files, channels, threads, cli, known, ops, mine, joined, left, ghosts>>
  BY DEF Roster!LookUp
<1>7. known' \in SUBSET Configurable
  BY <1>6 DEF RosterInv, RosterTyped
<1> QED BY <1>4, <1>5, <1>6, <1>7, GatewayPlans

LEMMA InboundKeeps ==
  ASSUME RosterInv, NEW t \in Threads, Roster!Inbound(t)
  PROVE  RosterInv'
<1> DEFINE u == Roster!On("manifest", ChannelOf[t], Default)
           v == Roster!On("bind", ChannelOf[t], Default)
           s == Roster!On("seed", ChannelOf[t], Default)
<1>1. Default \in Configurable /\ ChannelOf[t] \in Rooms
  BY RosterAssumptions DEF Roster!RosterAssumption
<1>2. /\ u \in RosterSteps /\ u.do = "manifest"
      /\ v \in RosterSteps /\ v.do = "bind"
      /\ s \in RosterSteps /\ s.do = "seed"
  BY <1>1, OnFields, AllNames
<1>3. gatewayUp' = [todo |-> <<u, v, s>>, seen |-> <<>>]
  BY DEF Roster!Inbound
<1> HIDE DEF u, v, s
<1>4. gatewayUp' \in RosterWork
  BY <1>2, <1>3 DEF RosterWork
<1>5. GatewaySeeds'
  <2>1. gatewayUp'.todo = <<u, v, s>>
    BY <1>3
  <2>2. \A k \in 1..3 : <<u, v, s>>[k].do \in {"seed", "manifest", "bind"}
    BY <1>2
  <2> QED BY <2>1, <2>2 DEF GatewaySeeds
<1>6. UNCHANGED <<config, files, channels, threads, cli, known, ops, mine, joined, left, ghosts>>
  BY DEF Roster!Inbound
<1>7. known' \in SUBSET Configurable
  BY <1>6 DEF RosterInv, RosterTyped
<1> QED BY <1>4, <1>5, <1>6, <1>7, GatewayPlans

LEMMA GatewayReadKeeps ==
  ASSUME RosterInv, Roster!GatewayRead
  PROVE  RosterInv'
<1>1. /\ gatewayUp' = [gatewayUp EXCEPT !.seen = <<channels>>]
      /\ UNCHANGED <<config, files, channels, threads, cli, known, ops, mine, joined, left, ghosts>>
  BY DEF Roster!GatewayRead
<1>2. gatewayUp \in RosterWork /\ channels \in RosterFiles
  BY DEF RosterInv, RosterTyped
<1>3. gatewayUp' \in RosterWork /\ gatewayUp'.todo = gatewayUp.todo
  BY <1>1, <1>2, WorkSeen
<1>4. GatewaySeeds'
  BY <1>3 DEF RosterInv, GatewaySeeds
<1>5. known' \in SUBSET Configurable
  BY <1>1 DEF RosterInv, RosterTyped
<1> QED BY <1>1, <1>3, <1>4, <1>5, GatewayPlans

LEMMA GatewayRestartKeeps ==
  ASSUME RosterInv, Roster!GatewayRestart
  PROVE  RosterInv'
<1>1. /\ gatewayUp' = [todo |-> <<>>, seen |-> <<>>] /\ known' = Roster!Configured
      /\ UNCHANGED <<config, files, channels, threads, cli, ops, mine, joined, left, ghosts>>
  BY DEF Roster!GatewayRestart, Roster!Idle
<1>2. gatewayUp' \in RosterWork /\ GatewaySeeds'
  BY <1>1 DEF RosterWork, GatewaySeeds
<1>3. known' \in SUBSET Configurable
  BY <1>1 DEF RosterInv, RosterTyped
<1> QED BY <1>1, <1>2, <1>3, GatewayPlans

\* What an edit takes from the members of a channel.
LEMMA EditedTakes ==
  ASSUME NEW s \in RosterSteps, NEW g \in RosterFiles, NEW agents \in SUBSET Configurable,
         s.do \in Roster!ChannelSteps, s.do = "rename" => s.a # s.b,
         NEW e, e = Roster!Edited(s, g, agents)
  PROVE  /\ e \in RosterFiles
         /\ \A c \in Rooms : g[c].agents \ e[c].agents \subseteq Gone(s, c)
         /\ s.do = "join" => s.a \in e[s.c].agents
         /\ s.do \in {"drop", "rename"} => \A c \in Rooms : s.a \notin e[c].agents
         /\ s.do = "rename" => \A c \in Rooms : s.a \in g[c].agents => s.b \in e[c].agents
<1>1. CASE s.do \in {"seed", "ensure", "manifest", "bind", "unbind", "join", "leave"}
  BY <1>1, OneEntryEdited
<1>2. CASE s.do \in {"drop", "rename"}
  <2>1. \A c \in Rooms : Gone(s, c) = {s.a}
    BY <1>2 DEF Gone
  <2> QED BY <1>2, <2>1, EveryEntryEdited
<1> QED BY <1>1, <1>2 DEF Roster!ChannelSteps

\* Reading and writing by one process, in one step.
Effect(s, g, e) ==
  /\ e \in RosterFiles
  /\ \A c \in Rooms : g[c].agents \ e[c].agents \subseteq Gone(s, c)
  /\ s.do = "join" => s.a \in e[s.c].agents
  /\ s.do \in {"drop", "rename"} => \A c \in Rooms : s.a \notin e[c].agents
  /\ s.do = "rename" => \A c \in Rooms : s.a \in g[c].agents => s.b \in e[c].agents
  /\ ghosts \subseteq ghosts' /\ ghosts' \subseteq Configurable /\ channels' \in RosterFiles
  /\ \A c \in Rooms : \A x \in channels'[c].agents :
       \/ x \in ghosts' \/ x \in Roster!Configured
       \/ x \in channels[c].agents /\ (x \in e[c].agents \/ x \notin g[c].agents)
  /\ \A c \in Rooms : \A x \in channels[c].agents :
       x \in channels'[c].agents \/ x \in ghosts' \/ x \in g[c].agents \ e[c].agents
  /\ channels' = e \/ (channels' = channels /\ e = g /\ ~Roster!AlwaysWrites(s))
  /\ s.do = "rename" /\ s.a \in ghosts => s.b \in ghosts'

LEMMA WriteMeans ==
  ASSUME RosterInv, NEW p \in RosterWork, NEW agents \in SUBSET Configurable,
         Roster!Write(p, agents), Head(p.todo).do = "rename" => Head(p.todo).a # Head(p.todo).b
  PROVE  /\ p.todo # <<>> /\ p.seen # <<>> /\ Head(p.todo) \in RosterSteps /\ p.seen[1] \in RosterFiles
         /\ Head(p.todo).do \in Roster!ChannelSteps
         /\ Effect(Head(p.todo), p.seen[1], Roster!Edited(Head(p.todo), p.seen[1], agents))
<1>1. p.todo # <<>> /\ p.seen # <<>> /\ Head(p.todo).do \in Roster!ChannelSteps
  BY DEF Roster!Write
<1>2. PICK s \in RosterSteps : s = Head(p.todo)
  BY <1>1, WorkParts, TodoTail
<1>3. PICK g \in RosterFiles : g = p.seen[1]
  <2>1. \A S : \A q \in Seq(S) : q # <<>> => q[1] \in S
    OBVIOUS
  <2> QED BY <1>1, <2>1, WorkParts
<1>4. PICK e : e = Roster!Edited(s, g, agents)
  OBVIOUS
<1>5. /\ e \in RosterFiles
      /\ \A c \in Rooms : g[c].agents \ e[c].agents \subseteq Gone(s, c)
      /\ s.do = "join" => s.a \in e[s.c].agents
      /\ s.do \in {"drop", "rename"} => \A c \in Rooms : s.a \notin e[c].agents
      /\ s.do = "rename" => \A c \in Rooms : s.a \in g[c].agents => s.b \in e[c].agents
  BY <1>1, <1>2, <1>4, EditedTakes
<1>6. channels \in RosterFiles /\ ghosts \subseteq Configurable
  BY DEF RosterInv, RosterTyped
<1>7. /\ ghosts \subseteq ghosts' /\ ghosts' \subseteq Configurable /\ channels' \in RosterFiles
      /\ \A c \in Rooms : \A x \in channels'[c].agents :
           \/ x \in ghosts' \/ x \in Roster!Configured
           \/ x \in channels[c].agents /\ (x \in e[c].agents \/ x \notin g[c].agents)
      /\ \A c \in Rooms : \A x \in channels[c].agents :
           x \in channels'[c].agents \/ x \in ghosts' \/ x \in g[c].agents \ e[c].agents
      /\ channels' = e \/ (channels' = channels /\ e = g /\ ~Roster!AlwaysWrites(s))
      /\ s.do = "rename" /\ s.a \in ghosts => s.b \in ghosts'
  BY <1>2, <1>3, <1>4, <1>5, <1>6, Written
<1>8. Effect(s, g, e)
  BY <1>5, <1>7 DEF Effect
<1> QED BY <1>1, <1>2, <1>3, <1>4, <1>8

\* A member stays one, or is excused, but for whom the step is to take.
LEMMA EffectKeeps ==
  ASSUME NEW s \in RosterSteps, NEW g, NEW e, Effect(s, g, e), NEW c \in Rooms, NEW x,
         x \in channels[c].agents \union ghosts, x \notin Gone(s, c)
  PROVE  x \in channels'[c].agents \union ghosts'
BY DEF Effect

LEMMA GatewayWriteKeeps ==
  ASSUME RosterInv, Roster!GatewayWrite
  PROVE  RosterInv'
<1>1. /\ Roster!Write(gatewayUp, known)
      /\ gatewayUp' = [todo |-> Tail(gatewayUp.todo), seen |-> <<>>]
      /\ UNCHANGED <<config, files, threads, cli, known, ops, mine>>
  BY DEF Roster!GatewayWrite
<1>2. gatewayUp \in RosterWork /\ known \in SUBSET Configurable /\ cli \in RosterWork
  BY DEF RosterInv, RosterTyped
<1>3. gatewayUp.todo # <<>>
  BY <1>1 DEF Roster!Write
<1>4. PICK q \in Seq(RosterSteps) : q = gatewayUp.todo
  BY <1>2, WorkParts
<1>5. PICK s \in RosterSteps : s = Head(gatewayUp.todo) /\ s.do \in {"seed", "manifest", "bind"}
  <2>1. Head(q) \in RosterSteps /\ Head(q) = q[1] /\ 1 \in 1..Len(q)
    BY <1>3, <1>4, TodoTail
  <2>2. q[1].do \in {"seed", "manifest", "bind"}
    BY <1>4, <2>1 DEF RosterInv, GatewaySeeds
  <2> QED BY <1>4, <2>1, <2>2
<1>6. PICK g, e : Effect(s, g, e)
  <2>1. Head(gatewayUp.todo).do # "rename"
    BY <1>5
  <2> QED BY <1>1, <1>2, <1>5, <2>1, WriteMeans
<1>7. joined' = joined /\ left' = left
  BY <1>1, <1>5 DEF Roster!Write
<1>8. \A c \in Rooms : Gone(s, c) = {}
  BY <1>5 DEF Gone
<1>9. ASSUME NEW c \in Rooms, NEW x, x \in channels[c].agents \union ghosts
      PROVE  x \in channels'[c].agents \union ghosts'
  BY <1>6, <1>8, <1>9, EffectKeeps
<1>10. /\ ghosts \subseteq ghosts' /\ ghosts' \subseteq Configurable /\ channels' \in RosterFiles
       /\ \A c \in Rooms : \A x \in channels'[c].agents :
            x \in ghosts' \/ x \in Roster!Configured \/ x \in channels[c].agents
  BY <1>6 DEF Effect
<1>11. Roster!Configured' = Roster!Configured /\ Step1' = Step1
  BY <1>1 DEF Roster!Configured, Step1
<1>12. \A dos : At(dos)' = At(dos)
  BY <1>1, <1>11 DEF At
<1>13. RosterTyped'
  <2>1. gatewayUp' \in RosterWork
    BY <1>1, <1>3, <1>4, TodoTail, WorkParts DEF RosterWork
  <2> QED BY <1>1, <1>7, <1>10, <2>1 DEF RosterInv, RosterTyped, Roster!Configured
<1>14. PlanSound'
  BY <1>1, <1>10, PlanKept DEF RosterInv
<1>15. GatewaySeeds'
  <2>1. gatewayUp'.todo = Tail(q) /\ \A k \in 1..Len(Tail(q)) : Tail(q)[k] = q[k + 1] /\ k + 1 \in 1..Len(q)
    BY <1>1, <1>3, <1>4, TodoTail
  <2>2. \A k \in 1..Len(q) : q[k].do \in {"seed", "manifest", "bind"}
    BY <1>4 DEF RosterInv, GatewaySeeds
  <2> QED BY <2>1, <2>2 DEF GatewaySeeds
<1>16. MembersKnown'
  BY <1>10, <1>11, <1>12 DEF RosterInv, MembersKnown
<1>17. AddressedKnown'
  BY <1>1, <1>10, <1>11, <1>12 DEF RosterInv, AddressedKnown
<1>18. SeenKnown'
  <2> SUFFICES ASSUME cli'.seen # <<>>, NEW c \in Rooms
               PROVE  /\ channels'[c].agents \ cli'.seen[1][c].agents \subseteq Roster!Configured' \union ghosts'
                      /\ cli'.seen[1][c].agents \ channels'[c].agents \subseteq ghosts'
    BY DEF SeenKnown
  <2>1. /\ channels[c].agents \ cli.seen[1][c].agents \subseteq Roster!Configured \union ghosts
        /\ cli.seen[1][c].agents \ channels[c].agents \subseteq ghosts
    BY <1>1 DEF RosterInv, SeenKnown
  <2>2. \A x \in channels[c].agents : x \in channels'[c].agents \union ghosts'
    BY <1>9
  <2> QED BY <1>1, <1>10, <1>11, <2>1, <2>2
<1>19. JoinedStay'
  <2>1. \A j \in joined : j[1] \in Rooms
    BY DEF RosterInv, RosterTyped
  <2> QED BY <1>7, <1>9, <2>1 DEF RosterInv, JoinedStay
<1>20. AddressedBelong'
  <2>1. ASSUME NEW c \in Rooms, NEW x, Belongs(x, c) PROVE Belongs(x, c)'
    BY <1>7, <1>9, <2>1 DEF Belongs
  <2>2. \A t \in Threads : ChannelOf[t] \in Rooms
    BY RosterAssumptions DEF Roster!RosterAssumption
  <2>3. ASSUME NEW t \in Threads, Belongs(threads[t], ChannelOf[t]) PROVE Belongs(threads[t], ChannelOf[t])'
    <3>1. PICK x : x = threads[t]
      OBVIOUS
    <3>2. Belongs(x, ChannelOf[t])'
      BY <2>1, <2>2, <2>3, <3>1
    <3> QED BY <1>1, <3>1, <3>2 DEF Belongs
  <2>4. ASSUME NEW t \in Threads, Belongs(Step1.b, ChannelOf[t]) PROVE Belongs(Step1.b, ChannelOf[t])'
    <3>1. PICK x : x = Step1.b
      OBVIOUS
    <3>2. Belongs(x, ChannelOf[t])'
      BY <2>1, <2>2, <2>4, <3>1
    <3> QED BY <1>11, <3>1, <3>2 DEF Belongs
  <2>5. ASSUME At({"set"}) PROVE Belongs(Step1.a, Step1.c)'
    <3>1. PICK x, c : x = Step1.a /\ c = Step1.c
      OBVIOUS
    <3>2. c \in Rooms
      BY <1>2, <2>5, <3>1, HeadSound, RosterStepNames DEF At, RosterInv
    <3>3. Belongs(x, c)'
      BY <2>1, <2>5, <3>1, <3>2 DEF RosterInv, AddressedBelong
    <3> QED BY <1>11, <3>1, <3>3 DEF Belongs
  <2> QED BY <1>1, <1>11, <1>12, <2>3, <2>4, <2>5 DEF RosterInv, AddressedBelong
<1>21. SharedExcused'
  BY <1>1, <1>10 DEF RosterInv, SharedExcused, Roster!Sharing
<1>22. FilesKept'
  BY <1>1, <1>10, <1>11, <1>12 DEF RosterInv, FilesKept
<1> QED BY <1>13, <1>14, <1>15, <1>16, <1>17, <1>18, <1>19, <1>20, <1>21, <1>22 DEF RosterInv

LEMMA WriteHistory ==
  ASSUME NEW p, NEW agents, Roster!Write(p, agents), NEW s, s = Head(p.todo)
  PROVE  /\ s.do = "join" => joined' = joined \union {<<s.c, s.a>>} /\ left' = left \ {<<s.c, s.a>>}
         /\ s.do = "leave" => joined' = joined \ {<<s.c, s.a>>} /\ left' = left \union {<<s.c, s.a>>}
         /\ s.do = "drop" => joined' = {j \in joined : j[2] # s.a} /\ left' = left
         /\ s.do = "rename" =>
              /\ joined' = {<<j[1], IF j[2] = s.a THEN s.b ELSE j[2]>> : j \in joined}
              /\ left' = {<<j[1], IF j[2] = s.a THEN s.b ELSE j[2]>> : j \in left}
         /\ s.do \notin {"join", "leave", "drop", "rename"} => joined' = joined /\ left' = left
BY DEF Roster!Write

LEMMA HistoryTyped ==
  ASSUME NEW J \in SUBSET (Rooms \X Configurable), NEW a, NEW b \in Configurable
  PROVE  {<<j[1], IF j[2] = a THEN b ELSE j[2]>> : j \in J} \subseteq Rooms \X Configurable
<1> SUFFICES ASSUME NEW j \in J PROVE <<j[1], IF j[2] = a THEN b ELSE j[2]>> \in Rooms \X Configurable
  OBVIOUS
<1>1. j[1] \in Rooms /\ j[2] \in Configurable
  OBVIOUS
<1> QED BY <1>1

\* What is left of the plan: the rest, behind a joining that looking up showed is needed.
LEMMA RestOfPlan ==
  ASSUME cli \in RosterWork, cli.todo # <<>>, PlanSound, config' = config, ghosts \subseteq ghosts',
         NEW e, cli'.todo = Roster!Rest(Step1, e, cli.todo)
  PROVE  /\ PlanSound' /\ cli'.todo \in Seq(RosterSteps)
         /\ \/ /\ Step1.do = "ensure" /\ Step1.a \notin e[Step1.c].agents
               /\ cli'.todo # <<>> /\ Step1'.do = "join"
            \/ /\ Step1.do = "ensure" => Step1.a \in e[Step1.c].agents
               /\ cli'.todo = Tail(cli.todo)
               /\ cli'.todo # <<>> => Behind(Step1, Step1')
<1>1. PICK s \in RosterSteps : s = Step1 /\ StepSound(s) /\ Follows(s, Tail(cli.todo))
  BY HeadSound
<1>2. PICK u \in Seq(RosterSteps) : u = Tail(cli.todo)
  BY HeadSound
<1>3. CASE s.do = "ensure" /\ s.a \notin e[s.c].agents
  <2> DEFINE n == [s EXCEPT !.do = "join"]
  <2>1. n \in RosterSteps /\ n.do = "join" /\ n.a = s.a /\ n.c = s.c
    <3>1. s = [do |-> s.do, c |-> s.c, a |-> s.a, b |-> s.b, r |-> s.r]
      BY DEF RosterSteps
    <3>2. n = [do |-> "join", c |-> s.c, a |-> s.a, b |-> s.b, r |-> s.r]
      BY <3>1
    <3> QED BY <3>2, RosterStepNames, AllNames DEF RosterSteps
  <2>2. cli'.todo = <<n>> \o u
    BY <1>1, <1>2, <1>3 DEF Roster!Rest
  <2> HIDE DEF n
  <2>3. /\ <<n>> \o u \in Seq(RosterSteps) /\ <<n>> \o u # <<>> /\ Head(<<n>> \o u) = n
        /\ Tail(<<n>> \o u) = u /\ Len(<<n>> \o u) = Len(u) + 1
        /\ (<<n>> \o u)[1] = n /\ \A k \in 1..Len(u) : (<<n>> \o u)[k + 1] = u[k]
    BY <2>1
  <2>4. Follows(n, u)
    BY <1>1, <1>2, <1>3, <2>1 DEF Follows
  <2>5. s.a \in Roster!Configured /\ Roster!Configured' = Roster!Configured
    BY <1>1, <1>3 DEF StepSound, Roster!Configured
  <2>6. StepSound(n)'
    BY <2>1, <2>5 DEF StepSound
  <2>7. ASSUME NEW k \in 1..Len(u) PROVE StepSound(u[k])'
    <3>1. PICK m : m = u[k]
      OBVIOUS
    <3>2. cli.todo \in Seq(RosterSteps) /\ u[k] = cli.todo[k + 1] /\ k + 1 \in 1..Len(cli.todo)
      BY <1>2, WorkParts, TodoTail
    <3>3. StepSound(m)
      BY <3>1, <3>2 DEF PlanSound
    <3>4. m.do # "move"
      <4>1. PICK q \in Seq(RosterSteps) : q = cli.todo
        BY <3>2
      <4> QED BY <1>1, <1>2, <3>1, <4>1, MovesFirst DEF Step1
    <3>5. StepSound(m)'
      BY <3>3, <3>4, SoundKept
    <3> QED BY <3>1, <3>5
  <2>8. ASSUME NEW k \in 1..Len(cli'.todo) PROVE StepSound(cli.todo[k])'
    <3>1. PICK m : m = cli'.todo[k]
      OBVIOUS
    <3>2. StepSound(m)'
      <4>1. CASE k = 1
        BY <2>2, <2>3, <2>6, <3>1, <4>1
      <4>2. CASE k # 1
        <5>1. PICK i \in 1..Len(u) : k = i + 1
          <6>1. Len(u) \in Nat /\ k \in 1..(Len(u) + 1)
            BY <2>2, <2>3
          <6>2. k - 1 \in 1..Len(u) /\ k = (k - 1) + 1
            BY <4>2, <6>1
          <6> QED BY <6>2
        <5>2. m = u[i]
          BY <2>2, <2>3, <3>1, <5>1
        <5>3. StepSound(u[i])'
          BY <2>7
        <5> QED BY <5>2, <5>3
      <4> QED BY <4>1, <4>2
    <3> QED BY <3>1, <3>2 DEF StepSound
  <2>9. PlanSound'
    <3>1. (cli.todo # <<>> => Follows(Step1, Tail(cli.todo)))'
      BY <2>2, <2>3, <2>4 DEF Step1
    <3>2. (\A k \in 1..Len(cli.todo) : StepSound(cli.todo[k]))'
      BY <2>8
    <3> QED BY <3>1, <3>2 DEF PlanSound
  <2>10. Step1' = n
    BY <2>2, <2>3 DEF Step1
  <2> QED BY <1>1, <1>3, <2>1, <2>2, <2>3, <2>9, <2>10
<1>4. CASE ~(s.do = "ensure" /\ s.a \notin e[s.c].agents)
  <2>1. cli'.todo = Tail(cli.todo)
    BY <1>1, <1>4 DEF Roster!Rest
  <2>2. PlanSound' /\ (cli'.todo # <<>> => Behind(Step1, Step1'))
    BY <2>1, Advance
  <2> QED BY <1>1, <1>2, <1>4, <2>1, <2>2
<1> QED BY <1>3, <1>4

LEMMA CliWriteKeeps ==
  ASSUME RosterInv, Roster!CliWrite
  PROVE  RosterInv'
<1>1. /\ Roster!Write(cli, Roster!Configured)
      /\ cli' = [todo |-> Roster!Rest(Step1, Roster!Edited(Step1, cli.seen[1], Roster!Configured), cli.todo),
                 seen |-> <<>>]
      /\ UNCHANGED <<config, files, threads, gatewayUp, known, ops, mine>>
  BY DEF Roster!CliWrite, Step1
<1>2. cli \in RosterWork /\ Roster!Configured \in SUBSET Configurable
  BY DEF RosterInv, RosterTyped
<1>3. cli.todo # <<>> /\ cli.seen # <<>>
  BY <1>1 DEF Roster!Write
<1>4. PICK s \in RosterSteps : s = Step1 /\ StepSound(s) /\ Follows(s, Tail(cli.todo))
  BY <1>2, <1>3, HeadSound DEF RosterInv
<1>5. /\ s.do \in {"drop", "rename"} => s.a \notin Roster!Configured
      /\ s.do = "rename" => s.a # s.b /\ s.b \in Roster!Configured
  BY <1>4 DEF StepSound
<1>6. PICK g, e : /\ g = cli.seen[1] /\ e = Roster!Edited(s, g, Roster!Configured)
                  /\ Effect(s, g, e) /\ s.do \in Roster!ChannelSteps
  <2>1. s = Head(cli.todo)
    BY <1>4 DEF Step1
  <2> QED BY <1>1, <1>2, <1>5, <2>1, WriteMeans
<1>7. /\ s.do = "join" => joined' = joined \union {<<s.c, s.a>>} /\ left' = left \ {<<s.c, s.a>>}
      /\ s.do = "leave" => joined' = joined \ {<<s.c, s.a>>} /\ left' = left \union {<<s.c, s.a>>}
      /\ s.do = "drop" => joined' = {j \in joined : j[2] # s.a} /\ left' = left
      /\ s.do = "rename" =>
           /\ joined' = {<<j[1], IF j[2] = s.a THEN s.b ELSE j[2]>> : j \in joined}
           /\ left' = {<<j[1], IF j[2] = s.a THEN s.b ELSE j[2]>> : j \in left}
      /\ s.do \notin {"join", "leave", "drop", "rename"} => joined' = joined /\ left' = left
  BY <1>1, <1>4, WriteHistory DEF Step1
<1>8. /\ e \in RosterFiles
      /\ s.do = "join" => s.a \in e[s.c].agents
      /\ s.do \in {"drop", "rename"} => \A c \in Rooms : s.a \notin e[c].agents
      /\ s.do = "rename" => \A c \in Rooms : s.a \in g[c].agents => s.b \in e[c].agents
      /\ ghosts \subseteq ghosts' /\ ghosts' \subseteq Configurable /\ channels' \in RosterFiles
      /\ \A c \in Rooms : \A x \in channels'[c].agents :
           \/ x \in ghosts' \/ x \in Roster!Configured
           \/ x \in channels[c].agents /\ (x \in e[c].agents \/ x \notin g[c].agents)
      /\ channels' = e \/ (channels' = channels /\ e = g /\ ~Roster!AlwaysWrites(s))
      /\ s.do = "rename" /\ s.a \in ghosts => s.b \in ghosts'
  BY <1>6 DEF Effect
<1>9. ASSUME NEW c \in Rooms, NEW x, x \in channels[c].agents \union ghosts, x \notin Gone(s, c)
      PROVE  x \in channels'[c].agents \union ghosts'
  BY <1>6, <1>9, EffectKeeps
<1>10. Roster!Configured' = Roster!Configured
  BY <1>1 DEF Roster!Configured
<1>11. \A c \in Rooms : /\ channels[c].agents \ g[c].agents \subseteq Roster!Configured \union ghosts
                        /\ g[c].agents \ channels[c].agents \subseteq ghosts
  BY <1>3, <1>6 DEF RosterInv, SeenKnown
<1>12. /\ PlanSound' /\ cli'.todo \in Seq(RosterSteps)
       /\ \/ /\ s.do = "ensure" /\ s.a \notin e[s.c].agents
             /\ cli'.todo # <<>> /\ Step1'.do = "join"
          \/ /\ s.do = "ensure" => s.a \in e[s.c].agents
             /\ cli'.todo = Tail(cli.todo)
             /\ cli'.todo # <<>> => Behind(s, Step1')
  <2>1. cli'.todo = Roster!Rest(Step1, e, cli.todo)
    BY <1>1, <1>4, <1>6
  <2>2. PlanSound
    BY DEF RosterInv
  <2> QED BY <1>1, <1>2, <1>3, <1>4, <1>8, <2>1, <2>2, RestOfPlan
<1>13. RosterTyped'
  <2>1. cli' \in RosterWork /\ cli'.seen = <<>>
    <3>1. PICK q : cli' = [todo |-> q, seen |-> <<>>]
      BY <1>1
    <3>2. q \in Seq(RosterSteps)
      BY <1>12, <3>1
    <3>3. <<>> \in Seq(RosterFiles)
      OBVIOUS
    <3> QED BY <3>1, <3>2, <3>3 DEF RosterWork
  <2>2. joined \in SUBSET (Rooms \X Configurable) /\ left \in SUBSET (Rooms \X Configurable)
    BY DEF RosterInv, RosterTyped
  <2>3. s.a \in Configurable /\ s.b \in Configurable /\ s.c \in Rooms
    BY RosterStepNames
  <2>4. joined' \subseteq Rooms \X Configurable
    <3>1. CASE s.do = "rename"
      BY <1>7, <2>2, <2>3, <3>1, HistoryTyped
    <3>2. CASE s.do # "rename"
      BY <1>7, <2>2, <2>3, <3>2
    <3> QED BY <3>1, <3>2
  <2>5. left' \subseteq Rooms \X Configurable
    <3>1. CASE s.do = "rename"
      BY <1>7, <2>2, <2>3, <3>1, HistoryTyped
    <3>2. CASE s.do # "rename"
      BY <1>7, <2>2, <2>3, <3>2
    <3> QED BY <3>1, <3>2
  <2> QED BY <1>1, <1>8, <2>1, <2>4, <2>5 DEF RosterInv, RosterTyped, Roster!Configured
<1>14. GatewaySeeds'
  BY <1>1 DEF RosterInv, GatewaySeeds
<1>15. At({"drop", "move", "rename"}) => s.do \in {"drop", "rename"}
  BY <1>3, <1>4, <1>6 DEF At, Roster!ChannelSteps
<1>16. ASSUME NEW c \in Rooms, NEW x \in channels'[c].agents
       PROVE  x \in Roster!Configured \union ghosts'
  <2> SUFFICES ASSUME x \notin ghosts', x \notin Roster!Configured PROVE FALSE
    OBVIOUS
  <2>1. x \in channels[c].agents /\ (x \in e[c].agents \/ x \notin g[c].agents) /\ x \notin ghosts
    BY <1>8
  <2>2. At({"drop", "move", "rename"}) /\ Step1.a = x
    BY <2>1 DEF RosterInv, MembersKnown
  <2>3. s.do \in {"drop", "rename"} /\ x = s.a
    BY <1>4, <1>15, <2>2
  <2>4. x \notin g[c].agents
    BY <1>8, <2>1, <2>3
  <2> QED BY <1>11, <2>1, <2>4
<1>17. MembersKnown'
  BY <1>10, <1>16 DEF MembersKnown
<1>18. AddressedKnown'
  <2> SUFFICES ASSUME NEW t \in Threads, threads[t] \notin Roster!Configured \union ghosts' \union {"none"}
               PROVE  At({"drop", "clear", "move", "rename", "address"})' /\ Step1'.a = threads[t]
    BY <1>1, <1>10 DEF AddressedKnown
  <2>1. At({"drop", "clear", "move", "rename", "address"}) /\ s.a = threads[t]
    BY <1>4, <1>8 DEF RosterInv, AddressedKnown
  <2>2. s.do \in {"drop", "rename"}
    BY <1>4, <1>6, <2>1 DEF At, Roster!ChannelSteps
  <2>3. Tail(cli.todo) # <<>>
    BY <1>4, <2>2 DEF Follows
  <2>4. cli'.todo # <<>> /\ Step1'.do \in {"clear", "address"} /\ Step1'.a = s.a
    BY <1>12, <2>2, <2>3 DEF Behind
  <2> QED BY <2>1, <2>4 DEF At
<1>19. SeenKnown'
  BY <1>1 DEF SeenKnown
<1>20. ASSUME s.do = "rename", NEW c \in Rooms, s.a \in channels[c].agents \union ghosts
       PROVE  s.b \in channels'[c].agents \union ghosts'
  <2>1. CASE s.a \in ghosts
    BY <1>8, <1>20, <2>1
  <2>2. CASE s.a \in channels[c].agents /\ s.a \in g[c].agents
    <3>1. s.b \in e[c].agents /\ s.a \notin e[c].agents
      BY <1>8, <1>20, <2>2
    <3>2. channels' = e
      BY <1>8, <2>2, <3>1
    <3> QED BY <3>1, <3>2
  <2>3. CASE s.a \in channels[c].agents /\ s.a \notin g[c].agents
    <3>1. s.a \in ghosts
      BY <1>5, <1>11, <1>20, <2>3
    <3> QED BY <1>8, <1>20, <3>1
  <2> QED BY <1>20, <2>1, <2>2, <2>3
<1>21. ASSUME s.do = "join" PROVE s.a \in channels'[s.c].agents
  BY <1>8, <1>21 DEF Roster!AlwaysWrites
<1>22. JoinedStay'
  <2> SUFFICES ASSUME NEW j \in joined' PROVE j[2] \in channels'[j[1]].agents \union ghosts'
    BY DEF JoinedStay
  <2>1. \A i \in joined : /\ i[1] \in Rooms /\ i[2] \in Configurable /\ i = <<i[1], i[2]>>
                          /\ i[2] \in channels[i[1]].agents \union ghosts
    BY DEF RosterInv, RosterTyped, JoinedStay
  <2>2. ASSUME j \in joined, j[2] \notin Gone(s, j[1])
        PROVE  j[2] \in channels'[j[1]].agents \union ghosts'
    BY <1>9, <2>1, <2>2
  <2>3. CASE s.do = "join"
    <3>1. j \in joined \/ j = <<s.c, s.a>>
      BY <1>7, <2>3
    <3>2. Gone(s, j[1]) = {}
      BY <2>3 DEF Gone
    <3> QED BY <1>21, <2>2, <2>3, <3>1, <3>2
  <2>4. CASE s.do = "leave"
    <3>1. j \in joined /\ j # <<s.c, s.a>>
      BY <1>7, <2>4
    <3>2. j[2] \notin Gone(s, j[1])
      BY <2>1, <2>4, <3>1 DEF Gone
    <3> QED BY <2>2, <3>1, <3>2
  <2>5. CASE s.do = "drop"
    <3>1. j \in joined /\ j[2] # s.a
      BY <1>7, <2>5
    <3>2. j[2] \notin Gone(s, j[1])
      BY <2>5, <3>1 DEF Gone
    <3> QED BY <2>2, <3>1, <3>2
  <2>6. CASE s.do = "rename"
    <3>1. PICK i \in joined : j = <<i[1], IF i[2] = s.a THEN s.b ELSE i[2]>>
      BY <1>7, <2>6
    <3>2. i[1] \in Rooms /\ i[2] \in channels[i[1]].agents \union ghosts /\ j[1] = i[1]
      BY <2>1, <3>1
    <3>3. CASE i[2] = s.a
      BY <1>20, <2>6, <3>1, <3>2, <3>3
    <3>4. CASE i[2] # s.a
      <4>1. i[2] \notin Gone(s, i[1])
        BY <2>6, <3>4 DEF Gone
      <4>2. i[2] \in channels'[i[1]].agents \union ghosts' /\ j[2] = i[2]
        BY <1>9, <3>1, <3>2, <3>4, <4>1
      <4> QED BY <3>2, <4>2
    <3> QED BY <3>3, <3>4
  <2>7. CASE s.do \notin {"join", "leave", "drop", "rename"}
    <3>1. j \in joined /\ Gone(s, j[1]) = {}
      BY <1>7, <2>7 DEF Gone
    <3> QED BY <2>2, <3>1
  <2> QED BY <2>3, <2>4, <2>5, <2>6, <2>7
<1>23. ASSUME NEW c \in Rooms, NEW x, Belongs(x, c), ~(s.do \in {"drop", "rename"} /\ x = s.a)
       PROVE  Belongs(x, c)'
  <2>1. CASE x \in channels[c].agents \union ghosts /\ x \notin Gone(s, c)
    BY <1>9, <2>1 DEF Belongs
  <2>2. CASE x \in channels[c].agents \union ghosts /\ x \in Gone(s, c)
    <3>1. s.do = "leave" /\ c = s.c /\ x = s.a
      BY <1>23, <2>2 DEF Gone
    <3> QED BY <1>7, <3>1 DEF Belongs
  <2>3. CASE <<c, x>> \in left
    <3>1. CASE s.do = "join"
      <4>1. <<c, x>> \in left' \/ (c = s.c /\ x = s.a)
        BY <1>7, <2>3, <3>1
      <4> QED BY <1>21, <3>1, <4>1 DEF Belongs
    <3>2. CASE s.do = "rename"
      <4>1. <<c, x>> = <<<<c, x>>[1], IF <<c, x>>[2] = s.a THEN s.b ELSE <<c, x>>[2]>>
        BY <1>23, <3>2
      <4>2. <<c, x>> \in left'
        BY <1>7, <2>3, <3>2, <4>1
      <4> QED BY <4>2 DEF Belongs
    <3>3. CASE s.do \notin {"join", "rename"}
      BY <1>7, <2>3, <3>3 DEF Belongs
    <3> QED BY <3>1, <3>2, <3>3
  <2> QED BY <1>23, <2>1, <2>2, <2>3 DEF Belongs
<1>24. ASSUME s.do = "rename", NEW c \in Rooms, Belongs(s.a, c) PROVE Belongs(s.b, c)'
  <2>1. CASE s.a \in channels[c].agents \union ghosts
    BY <1>20, <1>24, <2>1 DEF Belongs
  <2>2. CASE <<c, s.a>> \in left
    <3>1. <<c, s.b>> = <<<<c, s.a>>[1], IF <<c, s.a>>[2] = s.a THEN s.b ELSE <<c, s.a>>[2]>>
      OBVIOUS
    <3>2. <<c, s.b>> \in left'
      BY <1>7, <1>24, <2>2, <3>1
    <3> QED BY <3>2 DEF Belongs
  <2> QED BY <1>24, <2>1, <2>2 DEF Belongs
<1>25. \A t \in Threads : ChannelOf[t] \in Rooms
  BY RosterAssumptions DEF Roster!RosterAssumption
<1>26. ASSUME NEW t \in Threads, threads[t] # "none"
       PROVE  Belongs(threads[t], ChannelOf[t])
  <2>1. ~At({"clear", "address"})
    BY <1>4, <1>6 DEF At, Roster!ChannelSteps
  <2> QED BY <1>26, <2>1 DEF RosterInv, AddressedBelong
<1>27. ASSUME NEW t \in Threads
       PROVE  \/ threads'[t] = "none" \/ Belongs(threads[t], ChannelOf[t])'
              \/ At({"clear", "address"})' /\ Step1'.a = threads'[t]
  <2> SUFFICES ASSUME threads[t] # "none"
               PROVE  \/ Belongs(threads[t], ChannelOf[t])'
                      \/ At({"clear", "address"})' /\ Step1'.a = threads[t]
    BY <1>1
  <2>1. PICK x : x = threads[t] /\ Belongs(x, ChannelOf[t])
    BY <1>26
  <2>2. CASE ~(s.do \in {"drop", "rename"} /\ x = s.a)
    <3>1. Belongs(x, ChannelOf[t])'
      BY <1>23, <1>25, <2>1, <2>2
    <3> QED BY <1>1, <2>1, <3>1 DEF Belongs
  <2>3. CASE s.do \in {"drop", "rename"} /\ x = s.a
    <3>1. Tail(cli.todo) # <<>>
      BY <1>4, <2>3 DEF Follows
    <3>2. cli'.todo # <<>> /\ Step1'.do \in {"clear", "address"} /\ Step1'.a = s.a
      BY <1>12, <2>3, <3>1 DEF Behind
    <3> QED BY <2>1, <2>3, <3>2 DEF At
  <2> QED BY <2>2, <2>3
<1>28. ASSUME At({"address"})', NEW t \in Threads, threads'[t] = Step1'.a
       PROVE  Belongs(Step1.b, ChannelOf[t])'
  <2>1. Behind(s, Step1') /\ Step1'.do = "address"
    BY <1>12, <1>28 DEF At
  <2>2. s.do = "rename" /\ Step1'.a = s.a /\ Step1'.b = s.b
    BY <2>1 DEF Behind
  <2>3. threads[t] = s.a /\ s.a # "none"
    BY <1>1, <1>28, <2>2, RosterStepNames, NobodysStep
  <2>4. Belongs(s.a, ChannelOf[t])
    BY <1>26, <2>3
  <2>5. Belongs(s.b, ChannelOf[t])'
    BY <1>24, <1>25, <2>2, <2>4
  <2> QED BY <2>2, <2>5 DEF Belongs
<1>29. ASSUME At({"set"})' PROVE Belongs(Step1.a, Step1.c)'
  <2>1. Behind(s, Step1') /\ Step1'.do = "set" /\ (s.do = "ensure" => s.a \in e[s.c].agents)
    BY <1>12, <1>29 DEF At
  <2>2. s.do \in {"ensure", "join"} /\ Step1'.a = s.a /\ Step1'.c = s.c
    BY <2>1 DEF Behind
  <2>3. s.c \in Rooms
    BY RosterStepNames
  <2>4. s.a \in channels'[s.c].agents \union ghosts'
    <3>1. CASE s.do = "join"
      BY <1>21, <3>1
    <3>2. CASE s.do = "ensure" /\ channels' = e
      BY <2>1, <3>2
    <3>3. CASE s.do = "ensure" /\ channels' = channels /\ e = g
      BY <1>8, <1>11, <2>1, <2>3, <3>3
    <3> QED BY <1>8, <2>2, <3>1, <3>2, <3>3
  <2> QED BY <2>2, <2>4 DEF Belongs
<1>30. AddressedBelong'
  BY <1>27, <1>28, <1>29 DEF AddressedBelong
<1>31. SharedExcused'
  BY <1>1, <1>8 DEF RosterInv, SharedExcused, Roster!Sharing
<1>32. FilesKept'
  <2>1. ~At({"scaffold"}) /\ ~At({"move"})
    BY <1>4, <1>6 DEF At, Roster!ChannelSteps
  <2> QED BY <1>1, <1>8, <1>10, <2>1 DEF RosterInv, FilesKept
<1> QED BY <1>12, <1>13, <1>14, <1>17, <1>18, <1>19, <1>22, <1>30, <1>31, <1>32 DEF RosterInv

LEMMA EmptySeen == <<>> \in Seq(RosterFiles)
OBVIOUS

LEMMA HeadInTodo ==
  ASSUME cli \in RosterWork, cli.todo # <<>>
  PROVE  Step1 \in RosterSteps /\ Step1 \in Range(cli.todo)
<1>1. PICK q \in Seq(RosterSteps) : q = cli.todo
  BY DEF RosterWork
<1>2. Head(q) \in RosterSteps /\ Head(q) = q[1] /\ Len(q) \in Nat \ {0}
  BY <1>1, TodoTail
<1>3. 1 \in DOMAIN q
  <2>1. DOMAIN q = 1..Len(q)
    OBVIOUS
  <2> QED BY <1>2, <2>1
<1> QED BY <1>1, <1>2, <1>3 DEF Step1, Range

\* A command does its next step.
LEMMA Taken ==
  ASSUME RosterInv, cli.todo # <<>>, Step1.do \notin Roster!ChannelSteps,
         Roster!Took, config' = config, ghosts \subseteq ghosts'
  PROVE  /\ cli' \in RosterWork /\ cli'.todo = Tail(cli.todo) /\ cli'.seen = <<>>
         /\ PlanSound' /\ (cli'.todo # <<>> => Behind(Step1, Step1')) /\ SeenKnown'
<1>1. cli \in RosterWork /\ cli.seen = <<>> /\ PlanSound
  BY DEF RosterInv, RosterTyped, Step1
<1>2. PICK u \in Seq(RosterSteps) : u = Tail(cli.todo)
  BY <1>1, HeadSound
<1>3. cli' = [todo |-> u, seen |-> <<>>]
  <2>1. cli = [todo |-> cli.todo, seen |-> <<>>]
    BY <1>1, WorkParts
  <2>2. cli' = [cli EXCEPT !.todo = u]
    BY <1>2 DEF Roster!Took
  <2> QED BY <2>1, <2>2
<1>4. cli' \in RosterWork /\ cli'.todo = Tail(cli.todo) /\ cli'.seen = <<>>
  BY <1>2, <1>3, EmptySeen DEF RosterWork
<1>5. PlanSound' /\ (cli'.todo # <<>> => Behind(Step1, Step1'))
  BY <1>1, <1>4, Advance
<1> QED BY <1>4, <1>5 DEF SeenKnown

\* Who belonged to a channel belongs to it where only directories or threads change.
LEMMA BelongsStill ==
  ASSUME channels' = channels, left' = left, ghosts \subseteq ghosts', NEW x, NEW c, Belongs(x, c)
  PROVE  x \in channels'[c].agents \union ghosts' \/ <<c, x>> \in left'
BY DEF Belongs

\* A command that is cut short leaves a mark on who its step was about.
LEMMA Abandoned ==
  ASSUME RosterInv, UNCHANGED <<config, files, channels, threads, gatewayUp, known, ops, mine, joined, left>>,
         cli' = Roster!Idle, ghosts \subseteq ghosts', ghosts' \subseteq Configurable,
         cli.todo # <<>> => Step1.a \in ghosts' /\ Step1.b \in ghosts'
  PROVE  RosterInv'
<1>1. cli' \in RosterWork /\ cli'.todo = <<>> /\ cli'.seen = <<>>
  BY EmptySeen DEF Roster!Idle, RosterWork
<1>2. PlanSound' /\ \A dos : ~At(dos)'
  BY <1>1, PlanDone
<1>3. \A dos : At(dos) => Step1.a \in ghosts' /\ Step1.b \in ghosts'
  BY DEF At
<1>4. Roster!Configured' = Roster!Configured
  BY DEF Roster!Configured
<1>5. RosterTyped'
  BY <1>1, <1>4 DEF RosterInv, RosterTyped
<1>6. GatewaySeeds' /\ SeenKnown'
  BY <1>1 DEF RosterInv, GatewaySeeds, SeenKnown
<1>7. MembersKnown'
  BY <1>3, <1>4 DEF RosterInv, MembersKnown
<1>8. AddressedKnown'
  BY <1>3, <1>4 DEF RosterInv, AddressedKnown
<1>9. JoinedStay'
  BY DEF RosterInv, JoinedStay
<1>10. ASSUME NEW t \in Threads, threads[t] # "none" PROVE Belongs(threads[t], ChannelOf[t])'
  <2>1. CASE threads[t] \in ghosts'
    BY <2>1 DEF Belongs
  <2>2. CASE threads[t] \notin ghosts'
    <3>1. Belongs(threads[t], ChannelOf[t])
      BY <1>3, <1>10, <2>2 DEF RosterInv, AddressedBelong
    <3> QED BY <3>1 DEF Belongs
  <2> QED BY <2>1, <2>2
<1>11. AddressedBelong'
  BY <1>2, <1>10 DEF AddressedBelong
<1>12. SharedExcused'
  BY DEF RosterInv, SharedExcused, Roster!Sharing
<1>13. FilesKept'
  BY <1>3, <1>4 DEF RosterInv, FilesKept
<1> QED BY <1>2, <1>5, <1>6, <1>7, <1>8, <1>9, <1>11, <1>12, <1>13 DEF RosterInv

LEMMA CliKilledKeeps ==
  ASSUME RosterInv, Roster!CliKilled
  PROVE  RosterInv'
<1> DEFINE marks == UNION {{x.a, x.b} : x \in Range(cli.todo)}
<1>1. /\ cli' = Roster!Idle /\ ghosts' = ghosts \union marks
      /\ UNCHANGED <<config, files, channels, threads, gatewayUp, known, ops, mine, joined, left>>
  BY DEF Roster!CliKilled, Roster!Range, Range
<1>2. cli \in RosterWork /\ ghosts \subseteq Configurable
  BY DEF RosterInv, RosterTyped
<1>3. marks \subseteq Configurable
  <2>1. cli.todo \in Seq(RosterSteps)
    BY <1>2, WorkParts
  <2>2. \A x \in Range(cli.todo) : x \in RosterSteps
    BY <2>1 DEF Range
  <2>3. \A x \in Range(cli.todo) : x.a \in Configurable /\ x.b \in Configurable
    BY <2>2, RosterStepNames
  <2> QED BY <2>3
<1>4. cli.todo # <<>> => Step1.a \in marks /\ Step1.b \in marks
  BY <1>2, HeadInTodo
<1> HIDE DEF marks
<1> QED BY <1>1, <1>2, <1>3, <1>4, Abandoned

\* A step on directories leaves members and threads alone.
LEMMA DirectoriesKeep ==
  ASSUME RosterInv, cli.todo # <<>>, Roster!Took, Step1.do \in {"scaffold", "delete", "move"},
         UNCHANGED <<config, channels, threads, gatewayUp, known, ops, joined, left, ghosts>>,
         files' \in [Roots -> 0..MaxOps], mine' \in [Roster!Configured -> 0..MaxOps], FilesKept'
  PROVE  RosterInv'
<1>1. Step1.do \notin Roster!ChannelSteps
  BY DEF Roster!ChannelSteps
<1>2. /\ cli' \in RosterWork /\ cli'.todo = Tail(cli.todo) /\ cli'.seen = <<>>
      /\ PlanSound' /\ (cli'.todo # <<>> => Behind(Step1, Step1')) /\ SeenKnown'
  BY <1>1, Taken
<1>3. Follows(Step1, Tail(cli.todo)) /\ StepSound(Step1)
  BY HeadSound DEF RosterInv, RosterTyped
<1>4. Roster!Configured' = Roster!Configured
  BY DEF Roster!Configured
<1>5. RosterTyped'
  BY <1>2, <1>4 DEF RosterInv, RosterTyped
<1>6. GatewaySeeds'
  BY DEF RosterInv, GatewaySeeds
<1>7. ASSUME Step1.do = "move"
      PROVE  Step1.a \in Roster!Configured \/ (At({"rename"})' /\ Step1'.a = Step1.a)
  <2>1. CASE Step1.a = Step1.b
    BY <1>3, <1>7, <2>1 DEF StepSound
  <2>2. CASE Step1.a # Step1.b
    <3>1. PICK p, q : cli'.todo = <<p, q>>
      BY <1>2, <1>3, <1>7, <2>2 DEF Follows
    <3>2. cli'.todo # <<>>
      <4>1. <<p, q>> # <<>>
        OBVIOUS
      <4> QED BY <3>1, <4>1
    <3> QED BY <1>2, <1>7, <3>2 DEF Behind, At
  <2> QED BY <2>1, <2>2
<1>8. \A dos : At(dos) => Step1.do \in dos
  BY DEF At
<1>9. cli'.todo # <<>> => Step1'.do = "rename"
  BY <1>2 DEF Behind
<1>10. MembersKnown'
  <2> SUFFICES ASSUME NEW c \in Rooms, NEW x \in channels[c].agents, x \notin Roster!Configured \union ghosts
               PROVE  At({"drop", "move", "rename"})' /\ Step1'.a = x
    BY <1>4 DEF MembersKnown
  <2>1. Step1.do = "move" /\ Step1.a = x
    BY <1>8 DEF RosterInv, MembersKnown
  <2> QED BY <1>7, <2>1 DEF At
<1>11. AddressedKnown'
  <2> SUFFICES ASSUME NEW t \in Threads, threads[t] \notin Roster!Configured \union ghosts \union {"none"}
               PROVE  At({"drop", "clear", "move", "rename", "address"})' /\ Step1'.a = threads[t]
    BY <1>4 DEF AddressedKnown
  <2>1. Step1.do = "move" /\ Step1.a = threads[t]
    BY <1>8 DEF RosterInv, AddressedKnown
  <2> QED BY <1>7, <2>1 DEF At
<1>12. JoinedStay'
  BY DEF RosterInv, JoinedStay
<1>13. ASSUME NEW t \in Threads, threads[t] # "none" PROVE Belongs(threads[t], ChannelOf[t])'
  <2>1. Belongs(threads[t], ChannelOf[t])
    BY <1>8, <1>13 DEF RosterInv, AddressedBelong
  <2> QED BY <2>1 DEF Belongs
<1>14. AddressedBelong'
  <2>1. ~At({"address"})' /\ ~At({"set"})'
    BY <1>9 DEF At
  <2> QED BY <1>13, <2>1 DEF AddressedBelong
<1>15. SharedExcused'
  BY DEF RosterInv, SharedExcused, Roster!Sharing
<1> QED BY <1>2, <1>5, <1>6, <1>10, <1>11, <1>12, <1>14, <1>15 DEF RosterInv

\* Agents of one directory are excused.
LEMMA OwnRoot ==
  ASSUME RosterInv, NEW x \in Roster!Configured \ ghosts, NEW y \in Roster!Configured, x # y
  PROVE  config[x] # config[y]
BY DEF RosterInv, SharedExcused, Roster!Sharing, Roster!Configured

LEMMA CliScaffoldKeeps ==
  ASSUME RosterInv, Roster!CliScaffold
  PROVE  RosterInv'
<1> DEFINE content == IF files[Step1.r] = 0 THEN ops ELSE files[Step1.r]
<1>1. /\ cli.todo # <<>> /\ Step1.do = "scaffold" /\ Roster!Took
      /\ files' = [files EXCEPT ![Step1.r] = content] /\ mine' = [mine EXCEPT ![Step1.a] = content]
      /\ UNCHANGED <<config, channels, threads, gatewayUp, known, ops, joined, left, ghosts>>
  BY DEF Roster!CliScaffold, Roster!Take, Step1
<1>2. StepSound(Step1)
  BY <1>1, HeadSound DEF RosterInv, RosterTyped
<1>3. Step1.a \in Roster!Configured /\ Step1.r = config[Step1.a]
  BY <1>1, <1>2 DEF StepSound
<1>4. /\ files \in [Roots -> 0..MaxOps] /\ mine \in [Roster!Configured -> 0..MaxOps] /\ ops \in 1..MaxOps
      /\ config \in [Roster!Configured -> Roots]
  BY DEF RosterInv, RosterTyped
<1>5. MaxOps \in Nat \ {0}
  BY RosterAssumptions DEF Roster!RosterAssumption
<1>6. Step1.r \in Roots /\ content \in 0..MaxOps /\ content # 0
  BY <1>3, <1>4, <1>5
<1> HIDE DEF content
<1>7. files' \in [Roots -> 0..MaxOps] /\ mine' \in [Roster!Configured -> 0..MaxOps]
  BY <1>1, <1>4, <1>6
<1>8. ASSUME NEW x \in Roster!Configured \ ghosts PROVE files'[config[x]] = mine'[x] /\ mine'[x] # 0
  <2>1. CASE x = Step1.a
    BY <1>1, <1>3, <1>4, <1>6, <2>1
  <2>2. CASE x # Step1.a
    <3>1. config[x] # Step1.r
      BY <1>3, <2>2, OwnRoot
    <3>2. ~At({"move"}) /\ ~(At({"scaffold"}) /\ Step1.a = x)
      BY <1>1, <2>2 DEF At
    <3>3. files[config[x]] = mine[x] /\ mine[x] # 0
      BY <3>2 DEF RosterInv, FilesKept
    <3>4. files'[config[x]] = files[config[x]] /\ mine'[x] = mine[x]
      BY <1>1, <1>4, <2>2, <3>1
    <3> QED BY <3>3, <3>4
  <2> QED BY <2>1, <2>2
<1>9. FilesKept'
  BY <1>1, <1>8 DEF FilesKept, Roster!Configured
<1> QED BY <1>1, <1>7, <1>9, DirectoriesKeep

LEMMA CliDeleteKeeps ==
  ASSUME RosterInv, Roster!CliDelete
  PROVE  RosterInv'
<1>1. /\ cli.todo # <<>> /\ Step1.do = "delete" /\ Roster!Took
      /\ files' = [files EXCEPT ![Step1.r] = 0]
      /\ UNCHANGED <<config, channels, threads, gatewayUp, known, ops, joined, left, ghosts, mine>>
  BY DEF Roster!CliDelete, Roster!Take, Step1
<1>2. StepSound(Step1)
  BY <1>1, HeadSound DEF RosterInv, RosterTyped
<1>3. Step1.r \in Roots /\ \A x \in Roster!Configured : config[x] = Step1.r => x \in ghosts
  BY <1>1, <1>2 DEF StepSound
<1>4. /\ files \in [Roots -> 0..MaxOps] /\ mine \in [Roster!Configured -> 0..MaxOps]
      /\ config \in [Roster!Configured -> Roots]
  BY DEF RosterInv, RosterTyped
<1>5. 0 \in 0..MaxOps
  BY RosterAssumptions DEF Roster!RosterAssumption
<1>6. files' \in [Roots -> 0..MaxOps] /\ mine' \in [Roster!Configured -> 0..MaxOps]
  BY <1>1, <1>4, <1>5
<1>7. ASSUME NEW x \in Roster!Configured \ ghosts PROVE files'[config[x]] = mine'[x] /\ mine'[x] # 0
  <2>1. config[x] # Step1.r
    BY <1>3
  <2>2. ~At({"move"}) /\ ~At({"scaffold"})
    BY <1>1 DEF At
  <2>3. files[config[x]] = mine[x] /\ mine[x] # 0
    BY <2>2 DEF RosterInv, FilesKept
  <2> QED BY <1>1, <1>4, <2>1, <2>3
<1>8. FilesKept'
  BY <1>1, <1>7 DEF FilesKept, Roster!Configured
<1> QED BY <1>1, <1>6, <1>8, DirectoriesKeep

LEMMA CliMoveKeeps ==
  ASSUME RosterInv, Roster!CliMove
  PROVE  RosterInv'
<1>0. cli \in RosterWork /\ cli.todo # <<>>
  BY DEF RosterInv, RosterTyped, Roster!CliMove, Roster!Take
<1>1. PICK s \in RosterSteps : s = Step1 /\ StepSound(s)
  BY <1>0, HeadSound DEF RosterInv
<1>2. /\ s.do = "move"
      /\ UNCHANGED <<config, channels, threads, gatewayUp, known, ops, joined, left>>
      /\ \/ /\ ~Roster!Moves(s) /\ Roster!Took
            /\ mine' = [mine EXCEPT ![s.b] = files[config[s.b]]] /\ UNCHANGED <<files, ghosts>>
         \/ /\ Roster!Moves(s) /\ Roster!Took
            /\ files' = [files EXCEPT ![config[s.b]] = files[s.r], ![s.r] = 0]
            /\ mine' = [mine EXCEPT ![s.b] = files[s.r]] /\ UNCHANGED ghosts
         \/ /\ cli' = Roster!Idle /\ ghosts' = ghosts \union {s.a, s.b} /\ UNCHANGED <<files, mine>>
  BY <1>1 DEF Roster!CliMove, Roster!Take, Step1
<1>3. /\ s.b \in Roster!Configured /\ s.r \in Roots
      /\ files[s.r] # 0 \/ s.b \in ghosts
      /\ \A x \in Roster!Configured : x # s.b /\ config[x] = s.r => x \in ghosts
  BY <1>1, <1>2 DEF StepSound
<1>4. /\ files \in [Roots -> 0..MaxOps] /\ mine \in [Roster!Configured -> 0..MaxOps]
      /\ config \in [Roster!Configured -> Roots]
  BY DEF RosterInv, RosterTyped
<1>5. PICK m \in Roots : m = config[s.b]
  BY <1>3, <1>4
<1>6. ASSUME NEW x \in Roster!Configured \ ghosts, x # s.b
      PROVE  files[config[x]] = mine[x] /\ mine[x] # 0 /\ config[x] # m /\ config[x] # s.r /\ config[x] \in Roots
  <2>1. ~At({"scaffold"}) /\ ~(At({"move"}) /\ Step1.b = x)
    BY <1>1, <1>2, <1>6 DEF At
  <2>2. files[config[x]] = mine[x] /\ mine[x] # 0
    BY <2>1 DEF RosterInv, FilesKept
  <2>3. config[x] # m
    BY <1>3, <1>5, <1>6, OwnRoot
  <2> QED BY <1>3, <1>4, <1>6, <2>2, <2>3
<1>7. CASE ~Roster!Moves(s) /\ Roster!Took /\ mine' = [mine EXCEPT ![s.b] = files[config[s.b]]]
           /\ UNCHANGED <<files, ghosts>>
  <2>1. mine' \in [Roster!Configured -> 0..MaxOps]
    BY <1>4, <1>5, <1>7
  <2>2. ASSUME NEW x \in Roster!Configured \ ghosts PROVE files'[config[x]] = mine'[x] /\ mine'[x] # 0
    <3>1. CASE x = s.b
      <4>1. files[s.r] # 0
        BY <1>3, <3>1
      <4>2. s.r = m
        BY <1>5, <1>7, <4>1 DEF Roster!Moves
      <4> QED BY <1>4, <1>5, <1>7, <3>1, <4>1, <4>2
    <3>2. CASE x # s.b
      BY <1>4, <1>6, <1>7, <3>2
    <3> QED BY <3>1, <3>2
  <2>3. FilesKept'
    BY <1>2, <1>7, <2>2 DEF FilesKept, Roster!Configured
  <2> QED BY <1>0, <1>1, <1>2, <1>4, <1>7, <2>1, <2>3, DirectoriesKeep
<1>8. CASE Roster!Moves(s) /\ Roster!Took
           /\ files' = [files EXCEPT ![config[s.b]] = files[s.r], ![s.r] = 0]
           /\ mine' = [mine EXCEPT ![s.b] = files[s.r]] /\ UNCHANGED ghosts
  <2>1. s.r # m /\ files[s.r] # 0
    BY <1>5, <1>8 DEF Roster!Moves
  <2>2. PICK f : f = [files EXCEPT ![m] = files[s.r]]
    OBVIOUS
  <2>3. files' = [f EXCEPT ![s.r] = 0]
    BY <1>5, <1>8, <2>2
  <2>4. /\ f \in [Roots -> 0..MaxOps] /\ f[m] = files[s.r]
        /\ \A r \in Roots \ {m} : f[r] = files[r]
    BY <1>3, <1>4, <2>2
  <2>5. 0 \in 0..MaxOps
    BY RosterAssumptions DEF Roster!RosterAssumption
  <2>6. /\ files' \in [Roots -> 0..MaxOps] /\ files'[m] = files[s.r]
        /\ \A r \in Roots \ {m, s.r} : files'[r] = files[r]
    BY <1>3, <2>1, <2>3, <2>4, <2>5
  <2>7. /\ mine' \in [Roster!Configured -> 0..MaxOps] /\ mine'[s.b] = files[s.r]
        /\ \A x \in Roster!Configured \ {s.b} : mine'[x] = mine[x]
    BY <1>3, <1>4, <1>8
  <2>8. ASSUME NEW x \in Roster!Configured \ ghosts PROVE files'[config[x]] = mine'[x] /\ mine'[x] # 0
    <3>1. CASE x = s.b
      BY <1>5, <2>1, <2>6, <2>7, <3>1
    <3>2. CASE x # s.b
      BY <1>6, <2>6, <2>7, <3>2
    <3> QED BY <3>1, <3>2
  <2>9. FilesKept'
    BY <1>2, <1>8, <2>8 DEF FilesKept, Roster!Configured
  <2> QED BY <1>0, <1>1, <1>2, <1>8, <2>6, <2>7, <2>9, DirectoriesKeep
<1>9. CASE cli' = Roster!Idle /\ ghosts' = ghosts \union {s.a, s.b} /\ UNCHANGED <<files, mine>>
  <2>1. s.a \in Configurable /\ s.b \in Configurable /\ ghosts \subseteq Configurable
    BY RosterStepNames DEF RosterInv, RosterTyped
  <2>2. ghosts \subseteq ghosts' /\ ghosts' \subseteq Configurable /\ Step1.a \in ghosts' /\ Step1.b \in ghosts'
    BY <1>1, <1>9, <2>1
  <2> QED BY <1>2, <1>9, <2>2, Abandoned
<1> QED BY <1>2, <1>7, <1>8, <1>9

LEMMA CliThreadsKeeps ==
  ASSUME RosterInv, Roster!CliThreads
  PROVE  RosterInv'
<1>0. cli \in RosterWork /\ cli.todo # <<>>
  BY DEF RosterInv, RosterTyped, Roster!CliThreads, Roster!Take
<1>1. PICK s \in RosterSteps : s = Step1 /\ StepSound(s) /\ Follows(s, Tail(cli.todo))
  BY <1>0, HeadSound DEF RosterInv
<1>2. /\ s.do \in {"set", "unset", "clear", "address"} /\ Roster!Took
      /\ threads' = [t \in Threads |-> Roster!Address(t, s)]
      /\ UNCHANGED <<config, files, channels, gatewayUp, known, ops, mine, joined, left, ghosts>>
  BY <1>1 DEF Roster!CliThreads, Roster!Take, Step1
<1>3. /\ cli' \in RosterWork /\ cli'.todo = Tail(cli.todo) /\ cli'.seen = <<>>
      /\ PlanSound' /\ (cli'.todo # <<>> => Behind(Step1, Step1')) /\ SeenKnown'
  <2>1. Step1.do \notin Roster!ChannelSteps
    BY <1>1, <1>2 DEF Roster!ChannelSteps
  <2> QED BY <1>0, <1>2, <2>1, Taken
<1>4. cli'.todo # <<>> => Step1'.do = "delete"
  BY <1>1, <1>2, <1>3 DEF Behind
<1>5. Roster!Configured' = Roster!Configured
  BY <1>2 DEF Roster!Configured
<1>6. \A dos : At(dos) <=> s.do \in dos
  BY <1>0, <1>1 DEF At
<1>7. /\ threads \in [Threads -> Configurable \union {"none"}] /\ Roster!Configured \subseteq Configurable
      /\ s.a \in Configurable /\ s.b \in Configurable
  BY RosterStepNames DEF RosterInv, RosterTyped
\* What a thread is addressed to: as before, and not to who was removed; to nobody; or to
\* a configured agent that belongs to the channel.
<1>8. ASSUME NEW t \in Threads
      PROVE  \/ threads'[t] = "none"
             \/ threads'[t] = threads[t] /\ (s.do \in {"clear", "address"} => threads[t] # s.a)
             \/ threads'[t] \in Roster!Configured /\ Belongs(threads'[t], ChannelOf[t])
  <2>1. CASE s.do = "set"
    <3>1. s.a \in Roster!Configured /\ s.c = ChannelOf[s.r] /\ Belongs(s.a, s.c)
      BY <1>1, <1>6, <2>1 DEF StepSound, RosterInv, AddressedBelong
    <3>2. threads'[t] = IF t = s.r THEN s.a ELSE threads[t]
      BY <1>2, <2>1 DEF Roster!Address
    <3> QED BY <2>1, <3>1, <3>2
  <2>2. CASE s.do = "unset"
    <3>1. threads'[t] = IF t = s.r THEN "none" ELSE threads[t]
      BY <1>2, <2>2 DEF Roster!Address, Roster!None
    <3> QED BY <2>2, <3>1
  <2>3. CASE s.do = "clear"
    <3>1. threads'[t] = IF threads[t] = s.a THEN "none" ELSE threads[t]
      BY <1>2, <2>3 DEF Roster!Address, Roster!None
    <3> QED BY <2>3, <3>1
  <2>4. CASE s.do = "address"
    <3>1. threads'[t] = IF threads[t] = s.a THEN s.b ELSE threads[t]
      BY <1>2, <2>4 DEF Roster!Address
    <3>2. s.b \in Roster!Configured
      BY <1>1, <2>4 DEF StepSound
    <3>3. threads[t] = s.a => Belongs(s.b, ChannelOf[t])
      BY <1>1, <1>6, <2>4 DEF RosterInv, AddressedBelong
    <3> QED BY <2>4, <3>1, <3>2, <3>3
  <2> QED BY <1>2, <2>1, <2>2, <2>3, <2>4
<1>9. RosterTyped'
  <2>1. threads' \in [Threads -> Configurable \union {"none"}]
    <3>1. \A t \in Threads : threads'[t] \in Configurable \union {"none"}
      BY <1>7, <1>8
    <3> QED BY <1>2, <3>1
  <2> QED BY <1>2, <1>3, <1>5, <2>1 DEF RosterInv, RosterTyped
<1>10. GatewaySeeds'
  BY <1>2 DEF RosterInv, GatewaySeeds
<1>11. MembersKnown'
  <2>1. ~At({"drop", "move", "rename"})
    BY <1>2, <1>6
  <2> QED BY <1>2, <1>5, <2>1 DEF RosterInv, MembersKnown
<1>12. ASSUME NEW t \in Threads PROVE threads'[t] \in Roster!Configured \union ghosts \union {"none"}
  <2> SUFFICES ASSUME threads'[t] = threads[t], s.do \in {"clear", "address"} => threads[t] # s.a
               PROVE  threads[t] \in Roster!Configured \union ghosts \union {"none"}
    BY <1>8
  <2> QED BY <1>1, <1>2, <1>6 DEF RosterInv, AddressedKnown
<1>13. AddressedKnown'
  BY <1>2, <1>5, <1>12 DEF AddressedKnown
<1>14. JoinedStay'
  BY <1>2 DEF RosterInv, JoinedStay
<1>15. ASSUME NEW t \in Threads, threads'[t] # "none"
       PROVE  Belongs(threads[t], ChannelOf[t])'
  <2>1. Belongs(threads'[t], ChannelOf[t])
    <3> SUFFICES ASSUME threads'[t] = threads[t], s.do \in {"clear", "address"} => threads[t] # s.a
                 PROVE  Belongs(threads[t], ChannelOf[t])
      BY <1>8, <1>15
    <3> QED BY <1>1, <1>6, <1>15 DEF RosterInv, AddressedBelong
  <2> QED BY <1>2, <2>1 DEF Belongs
<1>16. AddressedBelong'
  <2>1. ~At({"address"})' /\ ~At({"set"})'
    BY <1>4 DEF At
  <2> QED BY <1>15, <2>1 DEF AddressedBelong
<1>17. SharedExcused'
  BY <1>2 DEF RosterInv, SharedExcused, Roster!Sharing
<1>18. FilesKept'
  <2>1. ~At({"scaffold"}) /\ ~At({"move"})
    BY <1>2, <1>6
  <2> QED BY <1>2, <1>5, <2>1 DEF RosterInv, FilesKept
<1> QED BY <1>3, <1>9, <1>10, <1>11, <1>13, <1>14, <1>16, <1>17, <1>18 DEF RosterInv

----------------------------------------------------------------------------
(* A command starts.                                                       *)

LEMMA OneStep ==
  ASSUME NEW x \in RosterSteps
  PROVE  /\ <<x>> \in Seq(RosterSteps) /\ <<x>> # <<>> /\ Head(<<x>>) = x /\ Tail(<<x>>) = <<>>
         /\ \A k \in 1..Len(<<x>>) : <<x>>[k] = x
OBVIOUS

LEMMA TwoSteps ==
  ASSUME NEW x \in RosterSteps, NEW y \in RosterSteps
  PROVE  /\ <<x, y>> \in Seq(RosterSteps) /\ <<x, y>> # <<>> /\ Head(<<x, y>>) = x /\ Tail(<<x, y>>) = <<y>>
         /\ \A k \in 1..Len(<<x, y>>) : <<x, y>>[k] \in {x, y}
OBVIOUS

LEMMA ThreeSteps ==
  ASSUME NEW x \in RosterSteps, NEW y \in RosterSteps, NEW z \in RosterSteps
  PROVE  /\ <<x, y, z>> \in Seq(RosterSteps) /\ <<x, y, z>> # <<>>
         /\ Head(<<x, y, z>>) = x /\ Tail(<<x, y, z>>) = <<y, z>>
         /\ \A k \in 1..Len(<<x, y, z>>) : <<x, y, z>>[k] \in {x, y, z}
OBVIOUS

LEMMA Appended ==
  ASSUME NEW x \in RosterSteps, NEW y \in RosterSteps, NEW z \in RosterSteps
  PROVE  <<x, y>> \o <<z>> = <<x, y, z>>
<1>1. Len(<<x, y>> \o <<z>>) = 3
  OBVIOUS
<1>2. (<<x, y>> \o <<z>>)[1] = x /\ (<<x, y>> \o <<z>>)[2] = y /\ (<<x, y>> \o <<z>>)[3] = z
  OBVIOUS
<1>3. /\ <<x, y>> \o <<z>> \in Seq(RosterSteps) /\ <<x, y, z>> \in Seq(RosterSteps) /\ Len(<<x, y, z>>) = 3
      /\ <<x, y, z>>[1] = x /\ <<x, y, z>>[2] = y /\ <<x, y, z>>[3] = z
  OBVIOUS
<1>4. \A k \in 1..3 : (<<x, y>> \o <<z>>)[k] = <<x, y, z>>[k]
  <2>1. \A k \in 1..3 : k \in {1, 2, 3}
    OBVIOUS
  <2> QED BY <1>2, <1>3, <2>1
<1> QED BY <1>1, <1>3, <1>4, SeqEqual

LEMMA Rooted ==
  ASSUME NEW o \in RosterSteps, NEW r \in Roots \union Threads
  PROVE  \E s \in RosterSteps : /\ s = [o EXCEPT !.r = r] /\ s.r = r
                                /\ s.do = o.do /\ s.a = o.a /\ s.b = o.b /\ s.c = o.c
<1>1. PICK s : s = [o EXCEPT !.r = r]
  OBVIOUS
<1> QED BY <1>1, WithRoot

LEMMA Marked ==
  ASSUME Roster!Start
  PROVE  /\ ghosts \subseteq ghosts' /\ Roster!Sharing(config') \subseteq ghosts'
         /\ \A x \in Range(cli'.todo) : x.do = "rename" /\ x.a \in ghosts => x.b \in ghosts'
         /\ ghosts' \subseteq ghosts \union Roster!Sharing(config') \union {x.b : x \in Range(cli'.todo)}
         /\ mine' = [x \in DOMAIN config' |-> IF x \in Roster!Configured THEN mine[x] ELSE 0]
         /\ UNCHANGED <<files, channels, threads, gatewayUp, known, gatewayStarts, joined, left>>
<1>1. /\ ghosts' = ghosts \union Roster!Sharing(config')
           \union {s.b : s \in {x \in Range(cli'.todo) : x.do = "rename" /\ x.a \in ghosts}}
      /\ mine' = [x \in DOMAIN config' |-> IF x \in Roster!Configured THEN mine[x] ELSE 0]
      /\ UNCHANGED <<files, channels, threads, gatewayUp, known, gatewayStarts, joined, left>>
  BY DEF Roster!Start, Roster!Range, Range
<1> QED BY <1>1

\* A command with plan p starts, and leaves S configured.
Starts(p, S) ==
  /\ cli = Roster!Idle /\ ops < MaxOps /\ ops' = ops + 1
  /\ p # <<>> /\ cli' = [todo |-> p, seen |-> <<>>]
  /\ Default \in S /\ config' \in [S -> Roots]
  /\ Follows(Head(p), Tail(p))
  /\ \A n \in RosterSteps : (\E k \in 1..Len(p) : p[k] = n) => StepSound(n)'
  /\ Head(p).do \notin {"clear", "address", "set"}
  /\ \A x \in Roster!Configured \ S : Head(p).do \in {"drop", "move"} /\ Head(p).a = x
  /\ \A x \in S :
       \/ x \in Roster!Configured /\ config'[x] = config[x]
       \/ Head(p).do = "scaffold" /\ Head(p).a = x
       \/ Head(p).do = "move" /\ Head(p).b = x

LEMMA Begins ==
  ASSUME RosterInv, Roster!Start, NEW p \in Seq(RosterSteps), NEW S \in SUBSET Configurable, Starts(p, S)
  PROVE  RosterInv'
<1>0. /\ cli = Roster!Idle /\ ops < MaxOps /\ ops' = ops + 1
      /\ p # <<>> /\ cli' = [todo |-> p, seen |-> <<>>]
      /\ Default \in S /\ config' \in [S -> Roots]
      /\ Follows(Head(p), Tail(p))
      /\ \A n \in RosterSteps : (\E k \in 1..Len(p) : p[k] = n) => StepSound(n)'
      /\ Head(p).do \notin {"clear", "address", "set"}
      /\ \A x \in Roster!Configured \ S : Head(p).do \in {"drop", "move"} /\ Head(p).a = x
      /\ \A x \in S :
           \/ x \in Roster!Configured /\ config'[x] = config[x]
           \/ Head(p).do = "scaffold" /\ Head(p).a = x
           \/ Head(p).do = "move" /\ Head(p).b = x
  BY DEF Starts
<1>1. /\ ghosts \subseteq ghosts' /\ Roster!Sharing(config') \subseteq ghosts'
      /\ ghosts' \subseteq ghosts \union Roster!Sharing(config') \union {x.b : x \in Range(p)}
      /\ mine' = [x \in DOMAIN config' |-> IF x \in Roster!Configured THEN mine[x] ELSE 0]
      /\ UNCHANGED <<files, channels, threads, gatewayUp, known, gatewayStarts, joined, left>>
  <2>1. cli'.todo = p
    BY <1>0
  <2> QED BY <1>0, <2>1, Marked
<1>2. DOMAIN config' = S /\ Roster!Configured' = S
  BY <1>0 DEF Roster!Configured
<1>3. cli'.todo = p /\ cli'.seen = <<>> /\ cli' \in RosterWork
  BY <1>0, EmptySeen DEF RosterWork
<1>4. \A dos : ~At(dos)
  BY <1>0 DEF At, Roster!Idle
<1>5. \A dos : Head(p).do \in dos => At(dos)'
  BY <1>0, <1>3 DEF At, Step1
<1>6. Step1' = Head(p)
  BY <1>0, <1>3 DEF Step1
<1>7. ghosts' \subseteq Configurable
  <2>1. \A x \in Range(p) : x.b \in Configurable
    <3>1. \A x \in Range(p) : x \in RosterSteps
      BY DEF Range
    <3> QED BY <3>1, RosterStepNames
  <2>2. Roster!Sharing(config') \subseteq Configurable
    BY <1>2 DEF Roster!Sharing
  <2>3. ghosts \subseteq Configurable
    BY DEF RosterInv, RosterTyped
  <2> QED BY <1>1, <2>1, <2>2, <2>3
<1>8. MaxOps \in Nat \ {0}
  BY RosterAssumptions DEF Roster!RosterAssumption
<1>9. RosterTyped'
  <2>1. mine' \in [S -> 0..MaxOps]
    <3>1. mine \in [Roster!Configured -> 0..MaxOps]
      BY DEF RosterInv, RosterTyped
    <3> QED BY <1>1, <1>2, <1>8, <3>1
  <2>2. ops' \in 1..MaxOps
    <3>1. ops \in 1..MaxOps
      BY DEF RosterInv, RosterTyped
    <3> QED BY <1>0, <1>8, <3>1
  <2> QED BY <1>0, <1>1, <1>2, <1>3, <1>7, <2>1, <2>2 DEF RosterInv, RosterTyped
<1>10. PlanSound'
  <2>1. (cli.todo # <<>> => Follows(Step1, Tail(cli.todo)))'
    BY <1>0, <1>3, <1>6
  <2>2. ASSUME NEW k \in 1..Len(cli'.todo) PROVE StepSound(cli.todo[k])'
    <3>1. PICK n \in RosterSteps : n = p[k]
      BY <1>3, <2>2
    <3>2. StepSound(n)' /\ n = cli'.todo[k]
      BY <1>0, <1>3, <2>2, <3>1
    <3> QED BY <3>2 DEF StepSound
  <2>3. (\A k \in 1..Len(cli.todo) : StepSound(cli.todo[k]))'
    BY <2>2
  <2> QED BY <2>1, <2>3 DEF PlanSound
<1>11. GatewaySeeds'
  BY <1>1 DEF RosterInv, GatewaySeeds
<1>12. MembersKnown'
  <2> SUFFICES ASSUME NEW c \in Rooms, NEW x \in channels[c].agents, x \notin S \union ghosts'
               PROVE  At({"drop", "move", "rename"})' /\ Step1'.a = x
    BY <1>1, <1>2 DEF MembersKnown
  <2>1. x \in Roster!Configured
    BY <1>1, <1>4 DEF RosterInv, MembersKnown
  <2>2. Head(p).do \in {"drop", "move"} /\ Head(p).a = x
    BY <1>0, <2>1
  <2> QED BY <1>5, <1>6, <2>2
<1>13. AddressedKnown'
  <2> SUFFICES ASSUME NEW t \in Threads, threads[t] \notin S \union ghosts' \union {"none"}
               PROVE  At({"drop", "clear", "move", "rename", "address"})' /\ Step1'.a = threads[t]
    BY <1>1, <1>2 DEF AddressedKnown
  <2>1. threads[t] \in Roster!Configured
    BY <1>1, <1>4 DEF RosterInv, AddressedKnown
  <2>2. Head(p).do \in {"drop", "move"} /\ Head(p).a = threads[t]
    BY <1>0, <2>1
  <2> QED BY <1>5, <1>6, <2>2
<1>14. SeenKnown'
  BY <1>3 DEF SeenKnown
<1>15. JoinedStay'
  BY <1>1 DEF RosterInv, JoinedStay
<1>16. ASSUME NEW t \in Threads, threads[t] # "none" PROVE Belongs(threads[t], ChannelOf[t])'
  <2>1. Belongs(threads[t], ChannelOf[t])
    BY <1>4, <1>16 DEF RosterInv, AddressedBelong
  <2> QED BY <1>1, <2>1 DEF Belongs
<1>17. AddressedBelong'
  <2>1. ~At({"address"})' /\ ~At({"set"})'
    BY <1>0, <1>6 DEF At
  <2> QED BY <1>1, <1>16, <2>1 DEF AddressedBelong
<1>18. SharedExcused'
  BY <1>1 DEF SharedExcused, Roster!Sharing
<1>19. FilesKept'
  <2> SUFFICES ASSUME NEW x \in S \ ghosts', x \in Roster!Configured /\ config'[x] = config[x]
               PROVE  files[config'[x]] = mine'[x] /\ mine'[x] # 0
    BY <1>0, <1>1, <1>2, <1>5, <1>6 DEF FilesKept
  <2>1. files[config[x]] = mine[x] /\ mine[x] # 0
    BY <1>1, <1>4 DEF RosterInv, FilesKept
  <2>2. mine'[x] = mine[x]
    BY <1>1, <1>2
  <2> QED BY <2>1, <2>2
<1> QED BY <1>9, <1>10, <1>11, <1>12, <1>13, <1>14, <1>15, <1>17, <1>18, <1>19 DEF RosterInv

\* What a command that starts can rely on.
LEMMA Quiet ==
  ASSUME RosterInv, cli = Roster!Idle
  PROVE  /\ \A x \in Roster!Configured \ ghosts : files[config[x]] # 0
         /\ \A x \in Roster!Configured, y \in Roster!Configured :
              x # y /\ config[x] = config[y] => x \in ghosts
         /\ Roster!Configured \subseteq Configurable /\ Default \in Roster!Configured
         /\ config \in [Roster!Configured -> Roots] /\ Default \in Configurable
<1>1. \A dos : ~At(dos)
  BY DEF At, Roster!Idle
<1>2. \A x \in Roster!Configured \ ghosts : files[config[x]] # 0
  BY <1>1 DEF RosterInv, FilesKept
<1>3. \A x \in Roster!Configured, y \in Roster!Configured : x # y /\ config[x] = config[y] => x \in ghosts
  BY OwnRoot
<1> QED BY <1>2, <1>3 DEF RosterInv, RosterTyped

LEMMA CmdAddKeeps ==
  ASSUME RosterInv, Roster!Start, NEW a \in Configurable, NEW r \in Roots, Roster!CmdAdd(a, r)
  PROVE  RosterInv'
<1>1. PICK o \in RosterSteps : o = Roster!Of("scaffold", a, a) /\ o.do = "scaffold" /\ o.a = a
  BY OfFields, AllNames
<1>2. PICK s \in RosterSteps : s = [o EXCEPT !.r = r] /\ s.do = "scaffold" /\ s.a = a /\ s.r = r
  <2>1. r \in Roots \union Threads
    OBVIOUS
  <2> QED BY <1>1, <2>1, Rooted
<1>3. /\ a \notin Roster!Configured /\ cli = Roster!Idle /\ ops < MaxOps /\ ops' = ops + 1
      /\ cli' = [todo |-> <<s>>, seen |-> <<>>] /\ config' = Roster!With(config, a, r)
  BY <1>1, <1>2 DEF Roster!CmdAdd, Roster!Run
<1>4. PICK S \in SUBSET Configurable : S = Roster!Configured \union {a}
  BY <1>3, Quiet
<1>5. /\ Default \in S /\ config' \in [S -> Roots] /\ config'[a] = r
      /\ \A x \in Roster!Configured : config'[x] = config[x]
  BY <1>3, <1>4, Quiet DEF Roster!With, Roster!Configured
<1>7. /\ <<s>> \in Seq(RosterSteps) /\ <<s>> # <<>> /\ Head(<<s>>) = s /\ Tail(<<s>>) = <<>>
      /\ \A k \in 1..Len(<<s>>) : <<s>>[k] = s
  BY OneStep
<1>8. Follows(s, <<>>)
  BY <1>2 DEF Follows
<1>9. PICK p \in Seq(RosterSteps) : /\ p = <<s>> /\ p # <<>> /\ Head(p) = s /\ Tail(p) = <<>>
                                    /\ \A k \in 1..Len(p) : p[k] = s
  BY <1>7
<1>10. ASSUME NEW n \in RosterSteps, \E k \in 1..Len(p) : p[k] = n PROVE StepSound(n)'
  <2>1. n = s
    BY <1>9, <1>10
  <2>2. n.do = "scaffold" /\ n.a \in S /\ n.r = config'[n.a]
    BY <1>2, <1>4, <1>5, <2>1
  <2>3. Roster!Configured' = S
    BY <1>5 DEF Roster!Configured
  <2> QED BY <2>2, <2>3 DEF StepSound
<1>11. Starts(p, S)
  BY <1>2, <1>3, <1>4, <1>5, <1>8, <1>9, <1>10 DEF Starts
<1> QED BY <1>11, Begins

LEMMA CmdRemoveKeeps ==
  ASSUME RosterInv, Roster!Start, NEW a \in Configurable, NEW d \in BOOLEAN, Roster!CmdRemove(a, d)
  PROVE  RosterInv'
<1>1. PICK s \in RosterSteps : s = Roster!Of("drop", a, a) /\ s.do = "drop" /\ s.a = a
  BY OfFields, AllNames
<1>2. PICK u \in RosterSteps : u = Roster!Of("clear", s.a, s.a) /\ u.do = "clear" /\ u.a = a
  BY <1>1, OfFields, AllNames
<1>3. a \in Roster!Configured /\ cli = Roster!Idle
  BY DEF Roster!CmdRemove, Roster!Run
<1>4. PICK m \in Roots : m = config[a]
  BY <1>3, Quiet
<1>5. PICK w \in RosterSteps : w = [Roster!Step("delete") EXCEPT !.r = m] /\ w.do = "delete" /\ w.r = m
  <2>1. m \in Roots \union Threads /\ Roster!Step("delete") \in RosterSteps /\ Roster!Step("delete").do = "delete"
    BY StepTyped, AllNames
  <2> QED BY <2>1, Rooted
<1>6. PICK p \in Seq(RosterSteps) :
        /\ p = <<s, u>> \o (IF d THEN <<w>> ELSE <<>>)
        /\ p # <<>> /\ Head(p) = s /\ Tail(p) = (IF d THEN <<u, w>> ELSE <<u>>)
        /\ \A k \in 1..Len(p) : p[k] \in {s, u, w}
  <2>1. CASE d
    <3>1. PICK p \in Seq(RosterSteps) : /\ p = <<s, u, w>> /\ p # <<>> /\ Head(p) = s /\ Tail(p) = <<u, w>>
                                        /\ \A k \in 1..Len(p) : p[k] \in {s, u, w}
      BY ThreeSteps
    <3>2. p = <<s, u>> \o <<w>>
      BY <3>1, Appended
    <3> QED BY <2>1, <3>1, <3>2
  <2>2. CASE ~d
    <3>1. PICK p \in Seq(RosterSteps) : /\ p = <<s, u>> /\ p # <<>> /\ Head(p) = s /\ Tail(p) = <<u>>
                                        /\ \A k \in 1..Len(p) : p[k] \in {s, u}
      BY TwoSteps
    <3>2. p = <<s, u>> \o <<>>
      BY <3>1
    <3> QED BY <2>2, <3>1, <3>2
  <2> QED BY <2>1, <2>2
<1>7. /\ a # Default /\ ops < MaxOps /\ ops' = ops + 1
      /\ cli' = [todo |-> p, seen |-> <<>>] /\ config' = Roster!Without(config, a)
  BY <1>1, <1>2, <1>4, <1>5, <1>6 DEF Roster!CmdRemove, Roster!Run
<1>8. PICK S \in SUBSET Configurable : S = Roster!Configured \ {a}
  BY <1>3, Quiet
<1>9. Default \in S /\ config' \in [S -> Roots] /\ \A x \in S : config'[x] = config[x]
  BY <1>3, <1>7, <1>8, Quiet DEF Roster!Without, Roster!Configured
<1>10. ASSUME NEW n \in RosterSteps, \E k \in 1..Len(p) : p[k] = n PROVE StepSound(n)'
  <2>1. n \in {s, u, w} /\ Roster!Configured' = S /\ ghosts \subseteq ghosts'
    BY <1>6, <1>9, <1>10, Marked DEF Roster!Configured
  <2>2. CASE n \in {s, u}
    <3>1. n.do \in {"drop", "clear"} /\ n.a \notin S
      BY <1>1, <1>2, <1>8, <2>2
    <3> QED BY <2>1, <3>1 DEF StepSound
  <2>3. CASE n = w
    <3>1. n.do = "delete" /\ n.r = m
      BY <1>5, <2>3
    <3>2. \A x \in S : config'[x] = m => x \in ghosts
      BY <1>3, <1>4, <1>8, <1>9, Quiet
    <3> QED BY <2>1, <3>1, <3>2 DEF StepSound
  <2> QED BY <2>1, <2>2, <2>3
<1>11. Follows(s, Tail(p))
  <2>1. Tail(p) # <<>> /\ Head(Tail(p)) = u /\ (d => Tail(Tail(p)) = <<w>>) /\ (~d => Tail(Tail(p)) = <<>>)
    <3>1. CASE d
      <4>1. <<u, w>> # <<>> /\ Head(<<u, w>>) = u /\ Tail(<<u, w>>) = <<w>>
        BY TwoSteps
      <4>2. Tail(p) = <<u, w>>
        BY <1>6, <3>1
      <4> QED BY <3>1, <4>1, <4>2
    <3>2. CASE ~d
      BY <1>6, <3>2, OneStep
    <3> QED BY <3>1, <3>2
  <2>2. Deletes(Tail(Tail(p)))
    BY <1>5, <2>1 DEF Deletes
  <2> QED BY <1>1, <1>2, <2>1, <2>2 DEF Follows
<1>12. Starts(p, S)
  BY <1>1, <1>3, <1>6, <1>7, <1>8, <1>9, <1>10, <1>11 DEF Starts
<1> QED BY <1>12, Begins

LEMMA CmdRenameKeeps ==
  ASSUME RosterInv, Roster!Start, NEW a \in Configurable, NEW b \in Configurable, Roster!CmdRename(a, b)
  PROVE  RosterInv'
<1>1. a \in Roster!Configured /\ b \notin Roster!Configured /\ a # b /\ cli = Roster!Idle
  BY DEF Roster!CmdRename, Roster!Run
<1>2. PICK m \in Roots : m = config[a]
  BY <1>1, Quiet
<1>3. PICK s \in RosterSteps : /\ s = [Roster!Of("move", a, b) EXCEPT !.r = m]
                               /\ s.do = "move" /\ s.a = a /\ s.b = b /\ s.r = m
  <2>1. PICK o \in RosterSteps : o = Roster!Of("move", a, b) /\ o.do = "move" /\ o.a = a /\ o.b = b
    BY OfFields, AllNames
  <2>2. m \in Roots \union Threads
    OBVIOUS
  <2> QED BY <2>1, <2>2, Rooted
<1>4. PICK u \in RosterSteps : u = Roster!Of("rename", a, b) /\ u.do = "rename" /\ u.a = a /\ u.b = b
  BY OfFields, AllNames
<1>5. PICK w \in RosterSteps : w = Roster!Of("address", a, b) /\ w.do = "address" /\ w.a = a /\ w.b = b
  BY OfFields, AllNames
<1>6. PICK p \in Seq(RosterSteps) : /\ p = <<s, u, w>> /\ p # <<>> /\ Head(p) = s /\ Tail(p) = <<u, w>>
                                    /\ \A k \in 1..Len(p) : p[k] \in {s, u, w}
  BY ThreeSteps
<1>7. /\ a # Default /\ ops < MaxOps /\ ops' = ops + 1
      /\ cli' = [todo |-> p, seen |-> <<>>]
      /\ config' = Roster!With(Roster!Without(config, a), b, Roster!RootAfter(a, b))
  BY <1>2, <1>3, <1>4, <1>5, <1>6 DEF Roster!CmdRename, Roster!Run
<1>8. PICK S \in SUBSET Configurable : S = (Roster!Configured \ {a}) \union {b}
  BY <1>1, Quiet
<1>9. PICK r \in Roots : r = Roster!RootAfter(a, b)
  <2>1. b \in Roots
    BY RosterAssumptions DEF Roster!RosterAssumption
  <2> QED BY <1>2, <2>1 DEF Roster!RootAfter
<1>10. Default \in S /\ config' \in [S -> Roots] /\ \A x \in S \ {b} : config'[x] = config[x]
  <2>1. PICK f : f = Roster!Without(config, a)
    OBVIOUS
  <2>2. f \in [Roster!Configured \ {a} -> Roots] /\ \A x \in Roster!Configured \ {a} : f[x] = config[x]
    BY <1>1, <2>1, Quiet DEF Roster!Without, Roster!Configured
  <2>3. config' = Roster!With(f, b, r)
    BY <1>7, <1>9, <2>1
  <2>4. config' \in [S -> Roots] /\ \A x \in S \ {b} : config'[x] = config[x]
    BY <1>8, <2>2, <2>3 DEF Roster!With
  <2> QED BY <1>1, <1>7, <1>8, <2>4, Quiet
<1>11. ghosts \subseteq ghosts' /\ (a \in ghosts => b \in ghosts') /\ files' = files
  <2>1. u \in Range(cli'.todo)
    <3>1. DOMAIN <<s, u, w>> = 1..3 /\ <<s, u, w>>[2] = u
      OBVIOUS
    <3>2. cli'.todo = <<s, u, w>>
      BY <1>6, <1>7
    <3> QED BY <3>1, <3>2 DEF Range
  <2> QED BY <1>4, <2>1, Marked
<1>12. ASSUME NEW n \in RosterSteps, \E k \in 1..Len(p) : p[k] = n PROVE StepSound(n)'
  <2>1. n \in {s, u, w} /\ Roster!Configured' = S
    BY <1>6, <1>10, <1>12 DEF Roster!Configured
  <2>2. CASE n \in {u, w}
    <3>1. n.do \in {"rename", "address"} /\ n.a \notin S /\ n.b \in S
      BY <1>1, <1>4, <1>5, <1>8, <2>2
    <3> QED BY <2>1, <3>1 DEF StepSound
  <2>3. CASE n = s
    <3>1. n.do = "move" /\ n.a \notin S /\ n.b \in S /\ n.b = b /\ n.r = m /\ n.r \in Roots
      BY <1>1, <1>3, <1>8, <2>3
    <3>2. files[m] # 0 \/ b \in ghosts'
      BY <1>1, <1>2, <1>11, Quiet
    <3>3. ASSUME NEW x \in S, x # b, config'[x] = m PROVE x \in ghosts'
      BY <1>1, <1>2, <1>8, <1>10, <1>11, <3>3, Quiet
    <3> QED BY <1>11, <2>1, <3>1, <3>2, <3>3 DEF StepSound
  <2> QED BY <2>1, <2>2, <2>3
<1>13. Follows(s, Tail(p))
  BY <1>1, <1>3, <1>4, <1>5, <1>6 DEF Follows
<1>14. Starts(p, S)
  BY <1>1, <1>3, <1>6, <1>7, <1>8, <1>10, <1>12, <1>13 DEF Starts
<1> QED BY <1>14, Begins

LEMMA CmdUpdateKeeps ==
  ASSUME RosterInv, Roster!Start, NEW a \in Configurable, NEW r \in Roots, Roster!CmdUpdate(a, r)
  PROVE  RosterInv'
<1>1. a \in Roster!Configured /\ cli = Roster!Idle
  BY DEF Roster!CmdUpdate, Roster!Run
<1>2. PICK m \in Roots : m = config[a]
  BY <1>1, Quiet
<1>3. PICK s \in RosterSteps : /\ s = [Roster!Of("move", a, a) EXCEPT !.r = m]
                               /\ s.do = "move" /\ s.a = a /\ s.b = a /\ s.r = m
  <2>1. PICK o \in RosterSteps : o = Roster!Of("move", a, a) /\ o.do = "move" /\ o.a = a /\ o.b = a
    BY OfFields, AllNames
  <2>2. m \in Roots \union Threads
    OBVIOUS
  <2> QED BY <2>1, <2>2, Rooted
<1>4. PICK p \in Seq(RosterSteps) : /\ p = <<s>> /\ p # <<>> /\ Head(p) = s /\ Tail(p) = <<>>
                                    /\ \A k \in 1..Len(p) : p[k] = s
  BY OneStep
<1>5. /\ ops < MaxOps /\ ops' = ops + 1 /\ cli' = [todo |-> p, seen |-> <<>>]
      /\ config' = [config EXCEPT ![a] = r]
  BY <1>2, <1>3, <1>4 DEF Roster!CmdUpdate, Roster!Run
<1>6. PICK S \in SUBSET Configurable : S = Roster!Configured
  BY <1>1, Quiet
<1>7. Default \in S /\ config' \in [S -> Roots] /\ \A x \in S \ {a} : config'[x] = config[x]
  BY <1>1, <1>5, <1>6, Quiet
<1>8. ASSUME NEW n \in RosterSteps, \E k \in 1..Len(p) : p[k] = n PROVE StepSound(n)'
  <2>1. n = s /\ Roster!Configured' = S /\ ghosts \subseteq ghosts' /\ files' = files
    BY <1>4, <1>7, <1>8, Marked DEF Roster!Configured
  <2>2. n.do = "move" /\ n.a = n.b /\ n.b \in S /\ n.b = a /\ n.r = m /\ n.r \in Roots
    BY <1>1, <1>3, <1>6, <2>1
  <2>3. files[m] # 0 \/ a \in ghosts'
    BY <1>1, <1>2, <2>1, Quiet
  <2>4. ASSUME NEW x \in S, x # a, config'[x] = m PROVE x \in ghosts'
    BY <1>1, <1>2, <1>6, <1>7, <2>1, <2>4, Quiet
  <2> QED BY <2>1, <2>2, <2>3, <2>4 DEF StepSound
<1>9. Follows(s, <<>>)
  BY <1>3 DEF Follows
<1>10. Starts(p, S)
  BY <1>1, <1>3, <1>4, <1>5, <1>6, <1>7, <1>8, <1>9 DEF Starts
<1> QED BY <1>10, Begins

\* A command that leaves config.json as it is.
LEMMA StartsStill ==
  ASSUME RosterInv, Roster!Start, config' = config, NEW p \in Seq(RosterSteps), Roster!Run(p),
         p # <<>>, Follows(Head(p), Tail(p)), Head(p).do \notin {"clear", "address", "set"},
         \A n \in RosterSteps : (\E k \in 1..Len(p) : p[k] = n) => StepSound(n)
  PROVE  RosterInv'
<1>1. cli = Roster!Idle /\ ops < MaxOps /\ ops' = ops + 1 /\ cli' = [todo |-> p, seen |-> <<>>]
  BY DEF Roster!Run
<1>2. PICK S \in SUBSET Configurable : S = Roster!Configured
  BY <1>1, Quiet
<1>3. Default \in S /\ config' \in [S -> Roots]
  BY <1>1, <1>2, Quiet
<1>4. ASSUME NEW n \in RosterSteps, \E k \in 1..Len(p) : p[k] = n PROVE StepSound(n)'
  <2>1. ghosts \subseteq ghosts' /\ files' = files
    BY Marked
  <2> QED BY <1>4, <2>1, SoundKept
<1>5. Starts(p, S)
  BY <1>1, <1>2, <1>3, <1>4 DEF Starts
<1> QED BY <1>5, Begins

LEMMA CmdChannelKeeps ==
  ASSUME RosterInv, Roster!Start, Roster!CmdChannel
  PROVE  RosterInv'
<1>1. config' = config /\ Default \in Configurable /\ Roster!Configured \subseteq Configurable
  BY RosterAssumptions DEF Roster!RosterAssumption, Roster!CmdChannel, RosterInv, RosterTyped
<1>2. ASSUME NEW c \in Rooms, NEW a \in Configurable, NEW do, do \in {"seed", "join", "leave"},
             do # "seed" => a \in Roster!Configured, Roster!Run(<<Roster!On(do, c, a)>>)
      PROVE  RosterInv'
  <2>1. do \in StepNames
    BY <1>2, AllNames
  <2>2. PICK s \in RosterSteps : s = Roster!On(do, c, a) /\ s.do = do /\ s.a = a
    BY <2>1, OnFields
  <2>3. PICK p \in Seq(RosterSteps) : /\ p = <<s>> /\ p # <<>> /\ Head(p) = s /\ Tail(p) = <<>>
                                      /\ \A k \in 1..Len(p) : p[k] = s
    BY OneStep
  <2>4. StepSound(s)
    BY <1>2, <2>2 DEF StepSound
  <2>5. Follows(s, <<>>)
    BY <1>2, <2>2 DEF Follows, Sets
  <2> QED BY <1>1, <1>2, <2>2, <2>3, <2>4, <2>5, StartsStill
<1>3. ASSUME NEW c \in Rooms, NEW do, do \in {"bind", "unbind"},
             Roster!Run(<<Roster!On("manifest", c, Default), Roster!On(do, c, Default)>>)
      PROVE  RosterInv'
  <2>1. do \in StepNames
    BY <1>3, AllNames
  <2>2. PICK s \in RosterSteps : s = Roster!On("manifest", c, Default) /\ s.do = "manifest" /\ s.c = c
    BY <1>1, OnFields, AllNames
  <2>3. PICK u \in RosterSteps : u = Roster!On(do, s.c, Default) /\ u.do = do
    BY <1>1, <2>1, <2>2, OnFields
  <2>4. PICK p \in Seq(RosterSteps) : /\ p = <<s, u>> /\ p # <<>> /\ Head(p) = s /\ Tail(p) = <<u>>
                                      /\ \A k \in 1..Len(p) : p[k] \in {s, u}
    BY TwoSteps
  <2>5. StepSound(s) /\ StepSound(u)
    BY <1>3, <2>2, <2>3 DEF StepSound
  <2>6. Follows(s, <<u>>)
    BY <1>3, <2>2, <2>3 DEF Follows
  <2>7. Roster!Run(p)
    BY <1>3, <2>2, <2>3, <2>4
  <2> QED BY <1>1, <2>2, <2>4, <2>5, <2>6, <2>7, StartsStill
<1> QED BY <1>1, <1>2, <1>3 DEF Roster!CmdChannel

LEMMA CmdThreadKeeps ==
  ASSUME RosterInv, Roster!Start, NEW t \in Threads, Roster!CmdThread(t)
  PROVE  RosterInv'
<1>1. /\ config' = config /\ Default \in Configurable /\ Roster!Configured \subseteq Configurable
      /\ ChannelOf[t] \in Rooms
  BY RosterAssumptions DEF Roster!RosterAssumption, Roster!CmdThread, RosterInv, RosterTyped
<1>2. ASSUME NEW a \in Roster!Configured,
             Roster!Run(<<Roster!On("ensure", ChannelOf[t], a), [Roster!On("set", ChannelOf[t], a) EXCEPT !.r = t]>>)
      PROVE  RosterInv'
  <2>1. PICK s \in RosterSteps : /\ s = Roster!On("ensure", ChannelOf[t], a)
                                 /\ s.do = "ensure" /\ s.a = a /\ s.c = ChannelOf[t]
    BY <1>1, OnFields, AllNames
  <2>2. PICK o \in RosterSteps : /\ o = Roster!On("set", s.c, s.a)
                                 /\ o.do = "set" /\ o.a = a /\ o.c = ChannelOf[t]
    BY <1>1, <2>1, OnFields, AllNames
  <2>3. PICK u \in RosterSteps : /\ u = [o EXCEPT !.r = t] /\ u.r = t
                                 /\ u.do = "set" /\ u.a = a /\ u.c = ChannelOf[t]
    <3>1. t \in Roots \union Threads
      OBVIOUS
    <3> QED BY <2>2, <3>1, Rooted
  <2>4. PICK p \in Seq(RosterSteps) : /\ p = <<s, u>> /\ p # <<>> /\ Head(p) = s /\ Tail(p) = <<u>>
                                      /\ \A k \in 1..Len(p) : p[k] \in {s, u}
    BY TwoSteps
  <2>5. StepSound(s) /\ StepSound(u)
    BY <2>1, <2>3 DEF StepSound
  <2>6. Sets(s.c, s.a, <<u>>)
    BY <2>1, <2>2, <2>3 DEF Sets
  <2>7. Follows(s, <<u>>)
    BY <2>1, <2>6 DEF Follows
  <2>8. Roster!Run(p)
    BY <1>2, <2>1, <2>2, <2>3, <2>4
  <2> QED BY <1>1, <2>1, <2>4, <2>5, <2>7, <2>8, StartsStill
<1>3. ASSUME Roster!Run(<<[Roster!Step("unset") EXCEPT !.r = t]>>)
      PROVE  RosterInv'
  <2>1. PICK s \in RosterSteps : s = [Roster!Step("unset") EXCEPT !.r = t] /\ s.do = "unset"
    <3>1. t \in Roots \union Threads /\ Roster!Step("unset") \in RosterSteps /\ Roster!Step("unset").do = "unset"
      BY StepTyped, AllNames
    <3> QED BY <3>1, Rooted
  <2>2. PICK p \in Seq(RosterSteps) : /\ p = <<s>> /\ p # <<>> /\ Head(p) = s /\ Tail(p) = <<>>
                                      /\ \A k \in 1..Len(p) : p[k] = s
    BY OneStep
  <2>3. StepSound(s) /\ Follows(s, <<>>)
    BY <2>1 DEF StepSound, Follows
  <2>4. Roster!Run(p)
    BY <1>3, <2>1, <2>2
  <2> QED BY <1>1, <2>1, <2>2, <2>3, <2>4, StartsStill
<1> QED BY <1>2, <1>3 DEF Roster!CmdThread

LEMMA StartKeeps ==
  ASSUME RosterInv, Roster!Start
  PROVE  RosterInv'
<1>1. ASSUME NEW a \in Configurable, NEW b \in Configurable, Roster!CmdRename(a, b) PROVE RosterInv'
  BY <1>1, CmdRenameKeeps
<1>2. ASSUME NEW a \in Configurable, NEW r \in Roots, Roster!CmdAdd(a, r) PROVE RosterInv'
  BY <1>2, CmdAddKeeps
<1>3. ASSUME NEW a \in Configurable, NEW r \in Roots, Roster!CmdUpdate(a, r) PROVE RosterInv'
  BY <1>3, CmdUpdateKeeps
<1>4. ASSUME NEW a \in Configurable, NEW d \in BOOLEAN, Roster!CmdRemove(a, d) PROVE RosterInv'
  BY <1>4, CmdRemoveKeeps
<1>5. ASSUME Roster!CmdChannel PROVE RosterInv'
  BY <1>5, CmdChannelKeeps
<1>6. ASSUME NEW t \in Threads, Roster!CmdThread(t) PROVE RosterInv'
  BY <1>6, CmdThreadKeeps
<1> QED BY <1>1, <1>2, <1>3, <1>4, <1>5, <1>6 DEF Roster!Start

----------------------------------------------------------------------------
(* Every step keeps it.                                                    *)

LEMMA RosterStarts ==
  ASSUME Roster!Init PROVE RosterInv
<1>1. /\ config = [x \in {Default} |-> Default]
      /\ files = [r \in Roots |-> IF r = Default THEN 1 ELSE 0]
      /\ channels = [c \in Rooms |-> IF c = "home" THEN [agents |-> {Default}, manifest |-> "none"]
                                     ELSE [agents |-> {}, manifest |-> "absent"]]
      /\ threads = [t \in Threads |-> "none"]
      /\ cli = [todo |-> <<>>, seen |-> <<>>] /\ gatewayUp = [todo |-> <<>>, seen |-> <<>>]
      /\ known = {Default} /\ ops = 1
      /\ mine = [x \in {Default} |-> 1] /\ joined = {} /\ left = {} /\ ghosts = {}
  BY DEF Roster!Init, Roster!Idle, Roster!NoEntry, Roster!None
<1>2. Default \in Configurable /\ Default \in Roots /\ MaxOps \in Nat \ {0}
  BY RosterAssumptions DEF Roster!RosterAssumption
<1>3. Roster!Configured = {Default}
  BY <1>1 DEF Roster!Configured
<1>4. cli \in RosterWork /\ gatewayUp \in RosterWork /\ cli.todo = <<>> /\ cli.seen = <<>> /\ gatewayUp.todo = <<>>
  BY <1>1, EmptySeen DEF RosterWork
<1>5. channels \in RosterFiles
  <2>1. channels \in [Rooms -> [agents : SUBSET Configurable, manifest : {"absent", "none", "free", "bound"}]]
    BY <1>1, <1>2
  <2>2. \A c \in Rooms : channels[c].manifest = "absent" => channels[c].agents = {}
    BY <1>1
  <2> QED BY <2>1, <2>2 DEF RosterFiles
<1>6. RosterTyped
  BY <1>1, <1>2, <1>3, <1>4, <1>5 DEF RosterTyped
<1>7. \A dos : ~At(dos)
  BY <1>4 DEF At
<1>8. PlanSound /\ GatewaySeeds /\ SeenKnown
  BY <1>4 DEF PlanSound, GatewaySeeds, SeenKnown
<1>9. MembersKnown
  BY <1>1, <1>3 DEF MembersKnown
<1>10. AddressedKnown
  BY <1>1 DEF AddressedKnown
<1>11. JoinedStay
  BY <1>1 DEF JoinedStay
<1>12. AddressedBelong
  BY <1>1, <1>7 DEF AddressedBelong
<1>13. SharedExcused
  BY <1>1 DEF SharedExcused, Roster!Sharing
<1>14. FilesKept
  BY <1>1, <1>2, <1>3 DEF FilesKept
<1> QED BY <1>6, <1>8, <1>9, <1>10, <1>11, <1>12, <1>13, <1>14 DEF RosterInv

LEMMA RosterStep ==
  ASSUME RosterInv, Roster!Next PROVE RosterInv'
<1>1. ASSUME NEW t \in Threads, Roster!Inbound(t) PROVE RosterInv'
  BY <1>1, InboundKeeps
<1>2. ASSUME NEW c \in Rooms, Roster!LookUp(c) PROVE RosterInv'
  BY <1>2, LookUpKeeps
<1> QED BY <1>1, <1>2, StartKeeps, CliReadKeeps, CliWriteKeeps, CliThreadsKeeps, CliScaffoldKeeps, CliDeleteKeeps,
           CliMoveKeeps, CliKilledKeeps, GatewayReadKeeps, GatewayWriteKeeps, GatewayRestartKeeps DEF Roster!Next

LEMMA RosterStutters ==
  ASSUME RosterInv, UNCHANGED rosterVars PROVE RosterInv'
<1>1. /\ UNCHANGED <<config, files, channels, threads, cli, ops, mine, joined, left, ghosts>>
      /\ UNCHANGED <<gatewayUp, known>>
  BY DEF rosterVars
<1>2. known' \in SUBSET Configurable /\ gatewayUp' \in RosterWork /\ GatewaySeeds'
  BY <1>1 DEF RosterInv, RosterTyped, GatewaySeeds
<1> QED BY <1>1, <1>2, GatewayPlans

LEMMA RosterInvIsTrue ==
  ASSUME RosterInv
  PROVE  /\ Roster!RosterTypeOK /\ Roster!GhostsExcused
         /\ Roster!MembersStay /\ Roster!FilesFollow
<1>1. RosterTyped
  BY DEF RosterInv
<1>2. Roster!RosterTypeOK
  <2>1. \A x \in Roster!Configured : config[x] \in Roots /\ mine[x] \in 0..MaxOps
    BY <1>1 DEF RosterTyped
  <2>2. \A c \in Rooms : /\ channels[c].agents \subseteq Configurable
                         /\ channels[c].manifest \in {"absent", "none", "free", "bound"}
                         /\ channels[c].manifest = "absent" => channels[c].agents = {}
    BY <1>1, RosterEntry DEF RosterTyped
  <2> QED BY <1>1, <2>1, <2>2 DEF RosterTyped, Roster!RosterTypeOK, Roster!None
<1>3. cli = Roster!Idle => \A dos : ~At(dos)
  BY DEF At, Roster!Idle
<1>4. Roster!GhostsExcused
  BY <1>3 DEF RosterInv, MembersKnown, AddressedKnown, Roster!GhostsExcused, Roster!None
<1>5. Roster!MembersStay
  <2> SUFFICES ASSUME cli = Roster!Idle
               PROVE  /\ \A j \in joined : j[2] \in channels[j[1]].agents \union ghosts
                      /\ \A t \in Threads :
                           threads[t] \in Roster!Configured \ ghosts /\ <<ChannelOf[t], threads[t]>> \notin left =>
                             threads[t] \in channels[ChannelOf[t]].agents
    BY DEF Roster!MembersStay
  <2>1. \A j \in joined : j[2] \in channels[j[1]].agents \union ghosts
    BY DEF RosterInv, JoinedStay
  <2>2. ASSUME NEW t \in Threads, threads[t] \in Roster!Configured \ ghosts, <<ChannelOf[t], threads[t]>> \notin left
        PROVE  threads[t] \in channels[ChannelOf[t]].agents
    <3>1. threads[t] # "none"
      BY <1>1, <2>2, NobodysStep DEF RosterTyped
    <3> QED BY <1>3, <2>2, <3>1 DEF RosterInv, AddressedBelong, Belongs
  <2> QED BY <2>1, <2>2
<1>6. Roster!FilesFollow
  BY <1>3 DEF RosterInv, FilesKept, Roster!FilesFollow
<1> QED BY <1>2, <1>4, <1>5, <1>6

LEMMA RosterAlways ==
  ChannelsSpec => [](Roster!RosterTypeOK /\ Roster!GhostsExcused /\ Roster!MembersStay /\ Roster!FilesFollow)
<1>1. ChannelsInit => RosterInv
  BY RosterStarts DEF ChannelsInit
<1>2. RosterInv /\ [ChannelsNext]_everything => RosterInv'
  <2> SUFFICES ASSUME RosterInv, [ChannelsNext]_everything PROVE RosterInv'
    OBVIOUS
  <2>1. Roster!Next \/ UNCHANGED rosterVars
    BY DEF ChannelsNext, everything
  <2> QED BY <2>1, RosterStep, RosterStutters
<1> QED BY <1>1, <1>2, RosterInvIsTrue, PTL DEF ChannelsSpec

\* Whatever commands and gateway do to config.json, channels.json, the surface state and the
\* agents' directories (agents/operations.ts, channels/membership.ts), and wherever a command
\* is cut short: between commands members and addressed agents are configured agents, a
\* membership given is there until it is taken, the agent of a thread is a member of its
\* channel, and every agent has the files it was left with, but for the agents that an
\* interrupted command, an overwritten edit, a stale seed or a shared directory names.
THEOREM RosterAlwaysTrue == ChannelsSpec => []RosterTrue
<1>1. Roster!RosterTypeOK /\ Roster!GhostsExcused /\ Roster!MembersStay /\ Roster!FilesFollow => RosterTrue
  BY DEF RosterTrue
<1> QED BY <1>1, RosterAlways, PTL
=============================================================================
