--------------------------- MODULE PromptAssembly ---------------------------
(***************************************************************************)
(* The system prompt of a session (src/src/context/, sessions/bootstrap.ts, *)
(* session-prompt.ts, sessions/open.ts): the sections read from the files   *)
(* the configuration names when a program is bootstrapped, what a channel   *)
(* or an agent adds when a session opens, the skills Pi reads after that,   *)
(* and what shrimpy context shows of it all.  The gateway is bootstrapped   *)
(* once and opens many sessions; every other program is bootstrapped for    *)
(* its one session; files, skills and the configuration are edited at any   *)
(* time between.                                                            *)
(***************************************************************************)
EXTENDS SkillCatalog

CONSTANTS Files,       \* the files below the two roots, [root, path, markdown],
                       \* those of a root in the order of their paths
          Agent,       \* whose session it is
          Configs,     \* what the configuration file may hold
          EnvKeys,     \* the facts of the runtime a configuration may name
          Looks,       \* what the skills roots may hold
          Targets,     \* the sessions asked for
          MaxEdits, MaxOpens

PromptAssumption ==
    /\ \A f \in ToSet(Files) : f.root \in ToSet(Roots) /\ f.path # <<>>
    /\ MaxEdits \in Nat /\ MaxOpens \in Nat

VARIABLES disk,     \* the version of each file, 0 for none or an empty one
          look,     \* what the skills roots hold
          config,   \* what the configuration file holds
          gateway,  \* the bootstrap of the gateway that runs, <<>> for none
          run,      \* the session being opened or shown
          preview,  \* what the last preview showed, if nothing was edited since
          edits, opens

promptVars == <<disk, look, config, gateway, run, preview, edits, opens>>

----------------------------------------------------------------------------
\* A session's sources are resources, [root, path, dir], in the order named.

Absent == 0
KindOrder == <<"identity", "memory", "instruction", "capability", "runtime">>

\* What is in context/ is memory, but for the three files that say who is who.
PromptResourceKind(path) ==
    CASE path \in {<<"context", n>> : n \in {"SYSTEM.md", "USER.md", "WORKSPACE.md"}} ->
           "identity"
      [] path[1] = "context" /\
             path \notin {<<"context", n>> : n \in {"SYSTEM.md", "USER.md", "WORKSPACE.md"}} ->
           "memory"
      [] path[1] # "context" /\ (path[1] = "skills" \/ Last(path) = "SKILL.md") -> "capability"
      [] OTHER -> "identity"

InOrder(found) == SelectSeq([i \in 1..Len(Files) |-> i], LAMBDA i : i \in found)

\* A directory stands for every Markdown file below it.
ExpandDirectoryResource(source) ==
    InOrder({i \in DOMAIN Files : /\ Files[i].root = source.root /\ Files[i].markdown
                                  /\ IsStrictPrefix(source.path, Files[i].path)})

ContextResourcesToPromptRefs(sources) ==
    FlattenSeq([k \in 1..Len(sources) |->
        IF sources[k].dir THEN ExpandDirectoryResource(sources[k])
        ELSE InOrder({i \in DOMAIN Files : /\ Files[i].root = sources[k].root
                                           /\ Files[i].path = sources[k].path})])

Section(from, file, version, kind) ==
    [from |-> from, file |-> file, version |-> version, kind |-> kind]

\* A resource with nothing in it is no section.
AssemblePromptResourceSections(files, from, refs) ==
    LET there == SelectSeq(refs, LAMBDA i : files[i] # Absent)
    IN [k \in 1..Len(there) |->
          Section(from, there[k], files[there[k]], PromptResourceKind(Files[there[k]].path))]

OrderPromptSectionsByKind(sections) ==
    FlattenSeq([k \in 1..Len(KindOrder) |->
        SelectSeq(sections, LAMBDA s : s.kind = KindOrder[k])])

----------------------------------------------------------------------------
\* The configuration: optional values are <<>> or <<value>>; an override of channels
\* says which channels its pattern matches.

Or(value, default) == IF value = <<>> THEN default ELSE value[1]

\* A resource is in the workspace or with the agent, and is a path.
ParseContextResource(source) == source.root \in {"workspace", "agent"} /\ source.path # <<>>

\* Of an override, a default or the configuration itself: [sources, env, ...].
ValidateSourceList(o) ==
    \A list \in ToSet(o.sources) : \A s \in ToSet(list) : ParseContextResource(s)
ValidateEnvKeyList(o) == \A list \in ToSet(o.env) : list \subseteq EnvKeys

ValidateChannelOverrides(channels) ==
    \A o \in ToSet(channels) : ValidateSourceList(o) /\ ValidateEnvKeyList(o)

\* Keys that are not known and values that are no lists are the rest of what is wrong.
ValidateContextConfig(raw) ==
    /\ ~raw.wrong
    /\ ValidateSourceList(raw) /\ ValidateEnvKeyList(raw)
    /\ ValidateSourceList(raw.defaults) /\ ValidateEnvKeyList(raw.defaults)
    /\ ValidateChannelOverrides(raw.channels)
    /\ \A a \in DOMAIN raw.agents :
         /\ ValidateSourceList(raw.agents[a]) /\ ValidateEnvKeyList(raw.agents[a])
         /\ ValidateChannelOverrides(raw.agents[a].channels)

\* Whoever loads a configuration with something wrong in it stops there.
ResolveContextConfig(raw) ==
    [sources |-> Or(raw.sources, Or(raw.defaults.sources, raw.builtin.sources)),
     env |-> Or(raw.env, Or(raw.defaults.env, raw.builtin.env)),
     channels |-> raw.channels, agents |-> raw.agents]

FindChannelOverrides(channels, channel) ==
    SelectSeq(channels, LAMBDA o : channel # <<>> /\ channel[1] \in o.on)

\* The overrides an agent's entry adds after those of the channels.
AgentOverrides(entry, channel) ==
    (IF entry.sources # <<>> \/ entry.env # <<>>
     THEN <<[on |-> {}, sources |-> entry.sources, env |-> entry.env]>> ELSE <<>>)
    \o FindChannelOverrides(entry.channels, channel)

\* mutant: the entries of all agents apply
OverridesOfAll(ctx, agent, channel) ==
    FindChannelOverrides(ctx.channels, channel)
    \o FlattenSeq(SetToSeq({AgentOverrides(ctx.agents[a], channel) : a \in DOMAIN ctx.agents}))

FindContextViewOverrides(ctx, agent, channel) ==
    FindChannelOverrides(ctx.channels, channel)
    \o (IF agent \in DOMAIN ctx.agents THEN AgentOverrides(ctx.agents[agent], channel) ELSE <<>>)

\* The sources the overrides add come one after the other; of their keys for the
\* environment the last list counts.
ContextViewSources(ctx, agent, channel) ==
    LET overrides == FindContextViewOverrides(ctx, agent, channel)
    IN FlattenSeq([k \in 1..Len(overrides) |-> Or(overrides[k].sources, <<>>)])

ResolveContextEnvKeys(ctx, agent, channel) ==
    LET said == SelectSeq(FindContextViewOverrides(ctx, agent, channel), LAMBDA o : o.env # <<>>)
    IN IF said = <<>> THEN ctx.env ELSE Last(said).env[1]

\* The model is not told: a prompt stays when the model changes.  A value that
\* is empty has no row.
RuntimeEnvironment(ctx, agent, target) ==
    {key \in ResolveContextEnvKeys(ctx, agent, target.channel) :
        /\ key \notin {"model_id", "provider"}
        /\ key = "channel" => target.channel # <<>>
        /\ key = "session_dir" => target.durable}

----------------------------------------------------------------------------
\* A bootstrap keeps the configuration, the base sections and the paths of the skills
\* a program starts with.  Its history variable seen is what was there to read.

AssembleBase(ctx, files) ==
    LET read == AssemblePromptResourceSections(files, "base",
                                               ContextResourcesToPromptRefs(ctx.sources))
    IN IF read = <<>> THEN <<Section("fallback", 0, 1, "identity")>>
       ELSE OrderPromptSectionsByKind(read)

BootstrapFails == ~ValidateContextConfig(config) \/ (~config.noSkills /\ ScanFails(look))

CreateBootstrap ==
    LET ctx == ResolveContextConfig(config)
    IN [context |-> ctx, tools |-> config.tools, noSkills |-> config.noSkills,
        paths |-> IF config.noSkills THEN <<>>
                  ELSE ListEffectiveSkillEntryPaths(look, config.tools),
        base |-> AssembleBase(ctx, disk),
        seen |-> [disk |-> disk, look |-> look, config |-> config]]

\* The skill a caller names is read as a section, available or not; one that is not
\* found stops the opening.
AskedSkill(boot, target) ==
    IF target.skill = <<>> \/ boot.noSkills THEN <<>> ELSE GetSkillView(look, target.skill)

AskedMissing(boot, target) ==
    target.skill # <<>> /\ ~boot.noSkills /\ AskedSkill(boot, target) = <<>>

\* A session's prompt is the base of its bootstrap with what is read now.
AssembleSessionPrompt(boot, target, files) ==
    LET rows == RuntimeEnvironment(boot.context, Agent, target)
        env == IF rows = {} THEN <<>> ELSE <<Section("env", 0, 1, "runtime")>>
        asked == [k \in DOMAIN AskedSkill(boot, target) |-> Section("session", 0, 1, "capability")]
        view == AssemblePromptResourceSections(files, "channel",
                    ContextResourcesToPromptRefs(
                        ContextViewSources(boot.context, Agent, target.channel)))
        append == IF target.append THEN <<Section("append", 0, 1, "instruction")>> ELSE <<>>
    IN OrderPromptSectionsByKind(
           boot.base \o env \o <<Section("delivery", 0, 1, "runtime")>>
           \o asked \o view \o append)

\* What Shrimpy hands to the model ends with the skills, if the model can read files,
\* and with the facts of the moment.  A hidden skill is not told of.
BuildContainedSystemPrompt(sections, skills, selectedTools) ==
    LET told == {p \in skills : ~look[p][1].hidden}
    IN [sections |-> sections \o
            (IF "read" \in selectedTools /\ told # {}
             THEN <<Section("skills", 0, 1, "capability")>> ELSE <<>>)
            \o <<Section("facts", 0, 1, "runtime")>>,
        skills |-> IF "read" \in selectedTools THEN told ELSE {}]

\* mutant: as if every tool were active
ContainedForAnyTools(sections, skills, selectedTools) ==
    BuildContainedSystemPrompt(sections, skills, {"read"})

\* The sections shrimpy context --sections shows beside the prompt itself.
PreviewContained(sections, skills, selectedTools) ==
    BuildContainedSystemPrompt(sections, skills, selectedTools)

----------------------------------------------------------------------------
\* shrimpy context sources list: the configured sources and those of the view.

Listing(ctx, channel) ==
    LET all == ctx.sources \o ContextViewSources(ctx, Agent, channel)
    IN [k \in 1..Len(all) |->
          [source |-> all[k],
           from |-> IF k <= Len(ctx.sources) THEN "base" ELSE "channel"]]

\* A source named again is given a number.
DedupeSourceIds(views) ==
    [k \in DOMAIN views |->
        <<views[k].source,
          Cardinality({j \in 1..k : views[j].source = views[k].source})>>]

\* shrimpy context sources run: the first of that id, <<>> for the error ...
FindSource(views, id) ==
    LET k == SelectInSeq(DedupeSourceIds(views), LAMBDA i : i = id)
    IN IF k = 0 THEN <<>> ELSE <<views[k]>>

\* ... and what it adds.
RunContextSource(view, files) ==
    AssemblePromptResourceSections(files, view.from, ContextResourcesToPromptRefs(<<view.source>>))

----------------------------------------------------------------------------
NoRun == [at |-> "none"]

Init ==
    /\ disk = [i \in 1..Len(Files) |-> 1]
    /\ look \in Looks[1]
    /\ config = Configs[1]
    /\ gateway = <<>>
    /\ run = NoRun
    /\ preview = <<>>
    /\ edits = 0
    /\ opens = 0

\* The gateway bootstraps its agents when it starts; stopping forgets them.
StartGateway ==
    /\ gateway = <<>> /\ ~BootstrapFails
    /\ gateway' = <<CreateBootstrap>>
    /\ UNCHANGED <<disk, look, config, run, preview, edits, opens>>

StopGateway ==
    /\ gateway # <<>>
    /\ run.at # "none" => run.by # "gateway"
    /\ gateway' = <<>>
    /\ UNCHANGED <<disk, look, config, run, preview, edits, opens>>

Begun(by, target, boot) ==
    [at |-> "booted", by |-> by, target |-> target, boot |-> boot, skills |-> {}, still |-> TRUE]

\* A lane of the gateway opens its session with the gateway's bootstrap.
OpenInGateway(target) ==
    /\ run.at = "none" /\ gateway # <<>> /\ opens < MaxOpens
    /\ target.channel # <<>> /\ target.skill = <<>> /\ ~target.append
    /\ run' = Begun("gateway", target, gateway[1])
    /\ opens' = opens + 1
    /\ UNCHANGED <<disk, look, config, gateway, preview, edits>>

\* shrimpy run, the terminal and shrimpy context bootstrap themselves.
OpenAlone(by, target) ==
    /\ run.at = "none" /\ opens < MaxOpens
    /\ by = "preview" => ~target.append
    /\ by = "foreground" => target.channel = <<>>
    /\ run' = IF BootstrapFails THEN [at |-> "none"]
              ELSE [Begun(by, target, CreateBootstrap) EXCEPT !.at = "starting"]
    /\ opens' = opens + 1
    /\ UNCHANGED <<disk, look, config, gateway, preview, edits>>

\* The loader of the bootstrap itself reads the skills, for the preview's sections.
LoadBootstrap ==
    /\ run.at = "starting"
    /\ run' = [run EXCEPT !.at = "booted", !.skills = PiLoads(look, run.boot.paths)]
    /\ UNCHANGED <<disk, look, config, gateway, preview, edits, opens>>

\* A preview never has a transcript of its own on disk.
AsOpened(r) == IF r.by = "preview" THEN [r.target EXCEPT !.durable = FALSE] ELSE r.target

Assemble ==
    /\ run.at = "booted"
    /\ run' = IF AskedMissing(run.boot, run.target) THEN NoRun
              ELSE [at |-> "assembled", by |-> run.by, target |-> run.target, boot |-> run.boot,
                    skills |-> run.skills, still |-> run.still,
                    sections |-> AssembleSessionPrompt(run.boot, AsOpened(run), disk),
                    asked |-> AskedSkill(run.boot, run.target),
                    rows |-> RuntimeEnvironment(run.boot.context, Agent, AsOpened(run)),
                    seen |-> disk]
    /\ UNCHANGED <<disk, look, config, gateway, preview, edits, opens>>

\* The session's own loader reads the skills at the paths of the bootstrap.
Opened(at) ==
    [at |-> at, by |-> run.by, target |-> run.target, boot |-> run.boot,
     skills |-> run.skills, still |-> run.still, asked |-> run.asked,
     rows |-> run.rows, seen |-> run.seen,
     prompt |-> BuildContainedSystemPrompt(run.sections,
                    PiLoads(look, run.boot.paths), run.boot.tools)]

OpenSession ==
    /\ run.at = "assembled" /\ run.by # "preview"
    /\ run' = Opened("open")
    /\ UNCHANGED <<disk, look, config, gateway, preview, edits, opens>>

\* For a preview the session is opened in memory, with a model that only keeps what it
\* is sent, and closed again.
InspectSessionContext ==
    /\ run.at = "assembled" /\ run.by = "preview"
    /\ run' = Opened("inspected")
    /\ UNCHANGED <<disk, look, config, gateway, preview, edits, opens>>

\* The preview assembles once more, for the list of sections.
ShowPreview ==
    /\ run.at = "inspected"
    /\ preview' = IF run.still /\ ~AskedMissing(run.boot, run.target)
                  THEN <<[target |-> run.target, rows |-> run.rows, asked |-> run.asked,
                          prompt |-> run.prompt,
                          shown |-> PreviewContained(
                                       AssembleSessionPrompt(run.boot, AsOpened(run), disk),
                                       run.skills, run.boot.tools)]>>
                  ELSE <<>>
    /\ run' = NoRun
    /\ UNCHANGED <<disk, look, config, gateway, edits, opens>>

Close ==
    /\ run.at = "open"
    /\ run' = NoRun
    /\ UNCHANGED <<disk, look, config, gateway, preview, edits, opens>>

\* Someone writes, empties or removes a file, changes a skill or the configuration.
Edited ==
    /\ edits < MaxEdits
    /\ edits' = edits + 1
    /\ preview' = <<>>
    /\ run' = IF run.at = "none" THEN run ELSE [run EXCEPT !.still = FALSE]
    /\ UNCHANGED <<gateway, opens>>

EditFile(i) ==
    /\ Edited
    /\ \E version \in {Absent, 2} \ {disk[i]} : disk' = [disk EXCEPT ![i] = version]
    /\ UNCHANGED <<look, config>>

EditSkills ==
    /\ Edited
    /\ \E k \in 1..Len(Looks) : look' \in Looks[k] \ {look}
    /\ UNCHANGED <<disk, config>>

EditConfig ==
    /\ Edited
    /\ \E c \in ToSet(Configs) \ {config} : config' = c
    /\ UNCHANGED <<disk, look>>

Next ==
    \/ StartGateway \/ StopGateway
    \/ \E t \in Targets : OpenInGateway(t)
    \/ \E by \in {"foreground", "preview"}, t \in Targets : OpenAlone(by, t)
    \/ LoadBootstrap \/ Assemble \/ OpenSession \/ InspectSessionContext
    \/ ShowPreview \/ Close
    \/ \E i \in 1..Len(Files) : EditFile(i)
    \/ EditSkills \/ EditConfig

Spec == Init /\ [][Next]_promptVars

----------------------------------------------------------------------------
\* What an open session may be asked for.

Sections == run.prompt.sections
From(from) == SelectSeq(Sections, LAMBDA s : s.from = from)
Read(sections) == {<<s.file, s.version>> : s \in ToSet(sections)}

\* A file is named by a resource that is its path or a directory above it.
NamesFile(source, i) ==
    /\ source.root = Files[i].root
    /\ \/ ~source.dir /\ source.path = Files[i].path
       \/ source.dir /\ IsStrictPrefix(source.path, Files[i].path) /\ Files[i].markdown

\* What the session's agent and channel are configured to see besides the base.
Concerning(ctx, channel) ==
    LET on(channels) == {o \in ToSet(channels) : channel # <<>> /\ channel[1] \in o.on}
        mine == IF Agent \in DOMAIN ctx.agents THEN {ctx.agents[Agent]} ELSE {}
    IN on(ctx.channels) \cup mine \cup UNION {on(entry.channels) : entry \in mine}

Rank(kind) == CHOOSE k \in 1..Len(KindOrder) : KindOrder[k] = kind

\* A prompt has what the configuration names for its agent and channel, nothing of
\* another's and nothing left out: the base as of the bootstrap, the rest as of the
\* opening; in the order of kinds, so that what changes comes last; the identity is
\* made up only if no base file could be read.
SectionsFaithful ==
    run.at \in {"open", "inspected"} =>
        LET ctx == run.boot.context
            named(sources, files) == {<<i, files[i]>> : i \in {j \in 1..Len(Files) :
                files[j] # Absent /\ \E s \in ToSet(sources) : NamesFile(s, j)}}
            viewed == {o \in Concerning(ctx, run.target.channel) : o.sources # <<>>}
            fixed == SubSeq(Sections, 1, Cardinality({k \in DOMAIN Sections :
                                             Sections[k].from \notin {"skills", "facts"}}))
        IN /\ Read(From("base")) = named(ctx.sources, run.boot.seen.disk)
           /\ (From("fallback") # <<>>) <=> (From("base") = <<>>)
           /\ Read(From("channel")) = UNION {named(o.sources[1], run.seen) : o \in viewed}
           /\ \A j, k \in DOMAIN fixed : j < k => Rank(fixed[j].kind) <= Rank(fixed[k].kind)
           /\ (From("append") # <<>>) <=> run.target.append

\* The model is told of a skill only if it had its tools and was not shadowed when
\* the program was bootstrapped; of every skill like that, if nothing was edited
\* since, that Pi can tell from the others.
SkillsFaithful ==
    run.at \in {"open", "inspected"} =>
        LET seen == run.boot.seen.look
            offered(p) == /\ seen[p] # <<>>
                          /\ seen[p][1].tools \subseteq run.boot.tools
                          /\ p[1] = "workspace" => ~WalkSkillRoots(seen, <<"agent", p[2]>>)
            alike(p, q) == q # p /\ WalkSkillRoots(seen, q) /\ seen[q][1].name = seen[p][1].name
        IN /\ \A p \in run.prompt.skills : offered(p)
           /\ run.still /\ look = seen /\ ~run.boot.noSkills /\ "read" \in run.boot.tools =>
                \A p \in Places :
                    offered(p) /\ WalkSkillRoots(seen, p) /\ seen[p][1].described
                    /\ ~seen[p][1].hidden /\ (\A q \in Places : ~alike(p, q))
                      => p \in run.prompt.skills

\* A prompt is what was configured for it.
PromptFaithful == SectionsFaithful /\ SkillsFaithful

\* What a preview shows is what the session opened next gets, if nothing was edited
\* between (in the gateway: since the gateway started), but for the row of a
\* transcript's directory; and its list of sections is of that prompt.
PreviewTrue ==
    preview # <<>> =>
        /\ preview[1].shown = preview[1].prompt
        /\ (/\ run.at = "open" /\ run.target = preview[1].target
            /\ run.boot.seen = [disk |-> disk, look |-> look, config |-> config]
            /\ run.still) =>
              /\ From("facts") # <<>>
              /\ SelectSeq(Sections, LAMBDA s : s.from # "env")
                   = SelectSeq(preview[1].prompt.sections, LAMBDA s : s.from # "env")
              /\ run.prompt.skills = preview[1].prompt.skills
              /\ run.asked = preview[1].asked
              /\ run.rows \ {"session_dir"} = preview[1].rows

\* The ids of a list of sources tell them apart, and running each gives what the
\* files add to a session that is opened now.  (It and the next say nothing of a
\* session, and are looked at when none is being opened.)
SourcesShown ==
    run.at = "none" /\ ValidateContextConfig(config) => \A target \in Targets :
        LET ctx == ResolveContextConfig(config)
            views == Listing(ctx, target.channel)
            ids == DedupeSourceIds(views)
            outputs == FlattenSeq([k \in DOMAIN ids |->
                           RunContextSource(FindSource(views, ids[k])[1], disk)])
            view == AssemblePromptResourceSections(disk, "channel", ContextResourcesToPromptRefs(
                        ContextViewSources(ctx, Agent, target.channel)))
            base == SelectSeq(AssembleBase(ctx, disk), LAMBDA s : s.from = "base")
        IN /\ IsInjective(ids)
           /\ OrderPromptSectionsByKind(outputs) = OrderPromptSectionsByKind(base \o view)

\* When validation has nothing against the skills, the id, the name shown and
\* /skill:<name> all find the same one.
ValidatedResolves ==
    run.at = "none" /\ ~ScanFails(look) /\ ValidationErrors(look) = {} =>
        \A p \in ToSet(Views(look)) :
            /\ GetSkillView(look, IdOf(p)) = <<p>>
            /\ GetSkillView(look, <<NameShown(look, p)>>) = <<p>>
            /\ <<NameShown(look, p)>> = IdOf(p)
            /\ Expanded(look, Views(look), NameShown(look, p)) = {p}

\* What the commands that look at prompts, sources and skills show is so.
InspectionTrue == PreviewTrue /\ SourcesShown /\ ValidatedResolves
=============================================================================
