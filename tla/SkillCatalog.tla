---------------------------- MODULE SkillCatalog ----------------------------
(***************************************************************************)
(* The skills an agent has (src/src/skills/catalog.ts, validation.ts,      *)
(* shared.ts): which directories of its own skills root and of the         *)
(* workspace's hold a skill, which of two of the same id wins, which Pi     *)
(* loads, which need tools the agent does not have, how a name on a         *)
(* command line finds one, and what validation says of them.  Pure          *)
(* operators over what the roots hold; PromptAssembly is the program that   *)
(* uses them.  Pi's loader is external: it loads what has a description,    *)
(* and the first of those that share a name.                                *)
(***************************************************************************)
EXTENDS Naturals, Sequences, FiniteSets, SequencesExt

CONSTANTS Ids,       \* the directories below a skills root that may hold a
                     \* skill, as sequences of names, in the order of their paths
          Unnameable \* names no id may have (with ":" or "~")

\* The two roots in the order they are scanned.
Roots == <<"agent", "workspace">>
Places == {"agent", "workspace"} \X (1..Len(Ids))

\* A place holds no SKILL.md, <<>>, or one: the name it gives itself, the tools it
\* asks for, whether it has the description Pi requires, whether it is kept from the
\* model, whether what lies beside it has the shape it should.
Skill(name, tools, described, hidden, shaped) ==
    [name |-> name, tools |-> tools, described |-> described, hidden |-> hidden,
     shaped |-> shaped]

IdOf(p) == Ids[p[2]]

\* A scan does not go into hidden directories or modules, nor into two directories
\* of the root that packages were once kept in.
WalkSkillRoots(look, p) ==
    /\ look[p] # <<>>
    /\ \A i \in 1..Len(IdOf(p)) : IdOf(p)[i] \notin {".git", "node_modules"}
    /\ IdOf(p) # <<>> => IdOf(p)[1] \notin {"packages", "custom"}

\* What has no id stops the whole scan, and whoever asked for it.
NormalizeSkillId(id) == id # <<>> /\ ToSet(id) \cap Unnameable = {}

ScanFails(look) ==
    \E p \in Places : WalkSkillRoots(look, p) /\ ~NormalizeSkillId(IdOf(p))

Found(look, root) ==
    SelectSeq([i \in 1..Len(Ids) |-> <<root, i>>], LAMBDA p : WalkSkillRoots(look, p))

Scanned(look) == Found(look, "agent") \o Found(look, "workspace")

\* The agent's own skill wins over the workspace's of the same id.
ScanSkillEntries(look) ==
    SelectSeq(Scanned(look), LAMBDA p :
        p[1] = "workspace" => ~WalkSkillRoots(look, <<"agent", p[2]>>))

ShadowedSkills(look) == ToSet(Scanned(look)) \ ToSet(ScanSkillEntries(look))

\* Of the paths it is given Pi loads those with a description, the first of a name.
PiLoads(look, paths) ==
    LET fit == SelectSeq(paths, LAMBDA p : look[p] # <<>> /\ look[p][1].described)
    IN {fit[i] : i \in {j \in 1..Len(fit) :
                          \A k \in 1..j - 1 : look[fit[k]][1].name # look[fit[j]][1].name}}

\* A skill whose tools the agent lacks, or that Pi did not load, is shown by
\* commands and not offered.
Available(look, active, p) ==
    /\ p \in PiLoads(look, ScanSkillEntries(look))
    /\ look[p][1].tools \subseteq active

\* Views are in the order of their ids.
Views(look) ==
    LET won == ToSet(ScanSkillEntries(look))
    IN FlattenSeq([i \in 1..Len(Ids) |->
         SelectSeq(<<<<"agent", i>>, <<"workspace", i>>>>, LAMBDA p : p \in won)])

ListEffectiveSkillEntryPaths(look, active) ==
    SelectSeq(Views(look), LAMBDA p : Available(look, active, p))

\* The name a view shows: Pi's, or the last part of the id.
NameShown(look, p) ==
    IF p \in PiLoads(look, ScanSkillEntries(look)) THEN look[p][1].name
    ELSE IdOf(p)[Len(IdOf(p))]

\* A skill is asked for by its id, or by a name only one skill has; <<>> is the error.
GetSkillView(look, asked) ==
    LET byId == SelectSeq(Views(look), LAMBDA p : IdOf(p) = asked)
        byName == SelectSeq(Views(look), LAMBDA p : <<NameShown(look, p)>> = asked)
    IN CASE byId # <<>> -> byId
         [] byId = <<>> /\ Len(byName) = 1 -> byName
         [] OTHER -> <<>>

NameMismatch(look, p) ==
    /\ p \in PiLoads(look, ScanSkillEntries(look))
    /\ <<look[p][1].name>> # IdOf(p)

\* The errors of shrimpy skills validate; what is shadowed or lacks tools is a warning.
ValidationErrors(look) ==
    {<<"not-loaded-by-pi", p>> : p \in ToSet(Views(look))
                                        \ PiLoads(look, ScanSkillEntries(look))}
    \cup {<<"name-id-mismatch", p>> : p \in {q \in ToSet(Views(look)) : NameMismatch(look, q)}}
    \cup {<<"invalid-layout", p>> : p \in {q \in ToSet(Views(look)) : ~look[q][1].shaped}}

\* What /skill:<name> expands in a session that was given these paths.
Expanded(look, paths, name) ==
    {p \in PiLoads(look, paths) : look[p][1].name = name}
=============================================================================
