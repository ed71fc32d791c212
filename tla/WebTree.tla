------------------------------- MODULE WebTree -------------------------------
(***************************************************************************)
(* What the web inspector lists and what it lets be read (web/server/      *)
(* tree.ts, nodes.ts, ids.ts, workspace.ts).  A listing is made of         *)
(* sections, each read from directories first and then file by file, while *)
(* files come and go, agents are configured and sessions are archived and  *)
(* restored.  Every leaf has an id, a description of what it stands for    *)
(* that is resolved anew when it is read.                                  *)
(*                                                                         *)
(* A file is where it lies and what its name tells: its root, directory    *)
(* and kind, and for a transcript the namespace.                           *)
(***************************************************************************)
EXTENDS Naturals, Sequences, SequencesExt

CONSTANTS
    Universe,   \* [root, dir, kind]: files there may be
    Roots,      \* roots of agents inside the workspace
    AgentSets,  \* agents a configuration may have: sets of <<id, root>>
    ChannelSets,  \* channels it may have
    MaxChanges, MaxListings  \* bounds

WebTreeAssumption ==
    /\ {MaxChanges, MaxListings} \subseteq Nat
    /\ Universe \subseteq [root : Roots \cup {"workspace"}, dir : STRING, kind : STRING]
    /\ "" \notin Roots
    \* State of the gateway and of its watches, by name (RUNTIME_PATHS).
    /\ \A f \in Universe : f.dir = "runtime" => f.kind \notin {"binary", "secret"}
    \* Agents have names, one root each; channels have logs.
    /\ \A A \in AgentSets : /\ A \subseteq STRING \X STRING
                            /\ \A a, b \in A : a[1] # "" /\ (a[1] = b[1] => a = b)
    /\ \A C \in ChannelSets :
         /\ C \subseteq [root : {"workspace"}, dir : {"channels"}, kind : STRING]
         /\ \A f \in C : f.kind \notin {"binary", "secret"}

VARIABLES
    present,    \* files there are
    marks,      \* lifecycle entries of the transcripts
    agents,     \* <<>>: none configured, or <<a set of them>>
    channels,   \* configured channels
    build,      \* <<>> or <<the listing in progress>>
    tree,       \* <<>> or <<the last listing>>
    failed,     \* <<>> or <<files that went away while it failed>>
    counts

vars == <<present, marks, agents, channels, build, tree, failed, counts>>

IsSession(f) == f.dir \in {"sessions/local", "sessions/other"}

Init == /\ present = Universe
        /\ \E m \in {<<>>, <<"archived">>} :
             marks = [f \in Universe |-> IF IsSession(f) THEN m ELSE <<>>]
        /\ agents \in {<<>>} \cup {<<A>> : A \in AgentSets}
        /\ channels \in ChannelSets
        /\ build = <<>> /\ tree = <<>> /\ failed = <<>>
        /\ counts = [changes |-> 0, listings |-> 0]

(***************************************************************************)
(* Files and agents                                                        *)
(***************************************************************************)

\* Names of secrets, the configuration and the state of surfaces.
Private(f) ==
    \/ f.kind = "secret"
    \/ f.root = "workspace" /\ f.dir \in {"config", "state/telegram"}

Textual(f) == f.kind # "binary"

ClassifyWorkspaceFile(f) == ~Private(f) /\ Textual(f)

\* Agents whose root lies inside the workspace.
ResolveAgents ==
    IF agents = <<>> THEN {<<"shrimpy", "agents/shrimpy">>}
    ELSE {a \in agents[1] : a[2] \in Roots}

(***************************************************************************)
(* Ids, and what reading them answers                                      *)
(***************************************************************************)

Nothing == [root |-> "", dir |-> "", kind |-> ""]
Id(type, agent, file) == [type |-> type, agent |-> agent, file |-> file]

\* mutant: what is readable is not asked when it is read
Anything(f) == TRUE

Readable(f) == ClassifyWorkspaceFile(f)

Found(f) == IF f \in present THEN 200 ELSE 404

\* An agent's file is looked for where the agent has its root now.
ReadAgentFile(agent, f) ==
    LET roots == {a[2] : a \in {b \in ResolveAgents : b[1] = agent}}
    IN IF roots = {} THEN 404 ELSE Found([f EXCEPT !.root = CHOOSE r \in roots : TRUE])

IsAgentScopedPath(f) == f.dir \in {"", "context"}

ReadNode(id) ==
    CASE id.type = "overview" -> 200
      [] id.type = "agent" -> IF \E a \in ResolveAgents : a[1] = id.agent THEN 200 ELSE 404
      [] id.type = "agent-file" ->
           IF ~IsAgentScopedPath(id.file) \/ ~Readable(id.file) THEN 403
           ELSE ReadAgentFile(id.agent, id.file)
      [] id.type = "watch" -> ReadAgentFile(id.agent, id.file)
      [] id.type = "session" ->
           IF id.file.dir # "sessions/local" THEN 400 ELSE ReadAgentFile(id.agent, id.file)
      [] id.type = "channel" -> IF id.file \in channels THEN 200 ELSE Found(id.file)
      [] id.type = "runtime" -> IF id.file.dir # "runtime" THEN 403 ELSE Found(id.file)
      [] id.type = "file" -> IF Readable(id.file) THEN Found(id.file) ELSE 403

(***************************************************************************)
(* The listing                                                             *)
(***************************************************************************)

Sections == {"context", "channels", "agents", "runtime", "workspace"}

At(dir) == {f \in present : f.root = "workspace" /\ f.dir = dir}

\* A leaf needs the time and size of its file ("stat"), is left out without it
\* ("lstat"), or has none.
Leaf(id, look) == [id |-> id, look |-> look, readable |-> TRUE, archived |-> FALSE, marks |-> <<>>]

Leaves(section) ==
    LET Own(a, dirs) == {f \in present : f.root = a[2] /\ f.dir \in dirs}
        AgentLeaves(a) ==
            {Leaf(Id("agent", a[1], Nothing), "none")}
              \cup {Leaf(Id("agent-file", a[1], f), "lstat") : f \in {g \in Own(a, {"context", ""}) :
                      Readable(g) /\ g.kind # "watches"}}
              \cup {Leaf(Id("session", a[1], f), "stat") : f \in {g \in present :
                      g.root = a[2] /\ IsSession(g) /\ g.kind = "log"}}
              \cup {Leaf(Id("watch", a[1], f), "stat") : f \in {g \in Own(a, {""}) : g.kind = "watches"}}
    IN CASE section = "context" ->
              {Leaf(Id("file", "", f), "lstat") : f \in {g \in At("context") : Readable(g)}}
         [] section = "channels" ->
              {Leaf(Id("channel", "", f), IF f \in present THEN "stat" ELSE "none") :
                 f \in channels \cup {g \in At("channels") : g.kind = "log"}}
         [] section = "runtime" -> {Leaf(Id("runtime", "", f), "stat") : f \in At("runtime")}
         [] section = "agents" -> UNION {AgentLeaves(a) : a \in ResolveAgents}
         [] section = "workspace" ->
              {[Leaf(Id("file", "", f), "stat") EXCEPT !.readable = ClassifyWorkspaceFile(f)] :
                 f \in present}

BuildTree ==
    /\ build = <<>> /\ counts.listings < MaxListings
    /\ counts' = [counts EXCEPT !.listings = @ + 1]
    /\ build' = <<[stage |-> [s \in Sections |-> "unread"], leaves |-> [s \in Sections |-> {}],
                   had |-> present, went |-> {}]>>
    /\ UNCHANGED <<present, marks, agents, channels, tree, failed>>

\* The directories of a section are read,
ReadDir(s) ==
    /\ build # <<>> /\ build[1].stage[s] = "unread"
    /\ build' = <<[build[1] EXCEPT !.stage[s] = "read", !.leaves[s] = Leaves(s)]>>
    /\ UNCHANGED <<present, marks, agents, channels, tree, failed, counts>>

\* Any mark of an archive says archived, though the transcript was restored since.
ReadSessionLifecycle(f) == "archived" \in ToSet(marks[f])

Looked(l) ==
    IF l.id.type # "session" THEN l
    ELSE [l EXCEPT !.archived = ReadSessionLifecycle(l.id.file), !.marks = marks[l.id.file]]

\* then its files are looked at.
Stat(s) ==
    /\ build # <<>> /\ build[1].stage[s] = "read"
    /\ LET leaves == build[1].leaves[s]
           gone == {l \in leaves : l.look # "none" /\ l.id.file \notin present}
       IN IF \E l \in gone : l.look = "stat"
            THEN build' = <<>> /\ tree' = <<>> /\ failed' = <<build[1].went>>
            ELSE /\ build' = <<[build[1] EXCEPT !.stage[s] = "done",
                                               !.leaves[s] = {Looked(l) : l \in leaves \ gone}]>>
                 /\ UNCHANGED <<tree, failed>>
    /\ UNCHANGED <<present, marks, agents, channels, counts>>

Answer ==
    /\ build # <<>> /\ \A s \in Sections : build[1].stage[s] = "done"
    /\ tree' = <<[leaves |-> {Leaf(Id("overview", "", Nothing), "none")}
                              \cup UNION {build[1].leaves[s] : s \in Sections},
                  stayed |-> build[1].had \ build[1].went]>>
    /\ build' = <<>> /\ failed' = <<>>
    /\ UNCHANGED <<present, marks, agents, channels, counts>>

(***************************************************************************)
(* Meanwhile                                                               *)
(***************************************************************************)

Change == counts.changes < MaxChanges /\ counts' = [counts EXCEPT !.changes = @ + 1]

Write(f) == /\ Change /\ f \notin present
            /\ present' = present \cup {f}
            /\ UNCHANGED <<marks, agents, channels, build, tree, failed>>

Delete(f) == /\ Change /\ f \in present
             /\ present' = present \ {f}
             /\ build' = IF build = <<>> THEN <<>> ELSE <<[build[1] EXCEPT !.went = @ \cup {f}]>>
             /\ marks' = [marks EXCEPT ![f] = <<>>]
             /\ UNCHANGED <<agents, channels, tree, failed>>

Mark(f, mark) == /\ Change /\ f \in present /\ IsSession(f)
                 /\ marks' = [marks EXCEPT ![f] = Append(@, mark)]
                 /\ UNCHANGED <<present, agents, channels, build, tree, failed>>

Configure(A, C) == /\ Change /\ agents' = <<A>> /\ channels' = C
                   /\ UNCHANGED <<present, marks, build, tree, failed>>

Next ==
    \/ BuildTree \/ Answer
    \/ \E s \in Sections : ReadDir(s) \/ Stat(s)
    \/ \E f \in Universe : Write(f) \/ Delete(f) \/ \E m \in {"active", "archived"} : Mark(f, m)
    \/ \E A \in AgentSets, C \in ChannelSets : Configure(A, C)

Spec == Init /\ [][Next]_vars

(***************************************************************************)
(* Properties                                                              *)
(***************************************************************************)

\* The file, or the agent with this root, is there no more.
GoneSince(id) ==
    \/ id.file # Nothing /\ id.file \notin present
    \/ id.agent # "" /\ \A a \in ResolveAgents :
                        a[1] # id.agent \/ (id.file # Nothing /\ a[2] # id.file.root)

\* What is listed as readable can be read, or the file, its agent or its channel is gone
\* since; what is listed as not readable is refused.  (Transcripts in a namespace the
\* program does not know are listed and refused.)
LeavesAnswer ==
    tree # <<>> =>
      \A l \in tree[1].leaves :
        LET answer == ReadNode(l.id)  f == l.id.file
        IN IF ~l.readable THEN answer = 403
           ELSE \/ answer = 200
                \/ answer = 404 /\ GoneSince(l.id)
                \/ answer = 400 /\ f.dir = "sessions/other"

\* No id of the listing, however agents and their roots change, serves what is
\* listed as not readable.
PrivateUnread ==
    tree # <<>> =>
      \A l \in tree[1].leaves : l.id.file # Nothing /\ ReadNode(l.id) = 200 =>
        ClassifyWorkspaceFile(l.id.file)

\* Every file that stayed while the listing was made is in it, and a listing fails
\* only when one did not.
ListedWhole ==
    /\ tree # <<>> => \A f \in tree[1].stayed :
         \E l \in tree[1].leaves : l.id = Id("file", "", f) /\ l.readable = ClassifyWorkspaceFile(f)
    /\ failed # <<>> => failed[1] # {}

\* A transcript is shown as archived when its last mark says so; and otherwise only
\* when it has been archived and restored.
HintsTrue ==
    tree # <<>> =>
      \A l \in tree[1].leaves :
        IF l.marks # <<>> /\ Last(l.marks) = "archived" THEN l.archived
        ELSE l.archived => l.marks # <<>> /\ "archived" \in ToSet(Front(l.marks))
=============================================================================
