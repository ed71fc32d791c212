------------------------------ MODULE MCUpkeep ------------------------------
(***************************************************************************)
(* What a workspace and its agents keep from turn to turn and from release *)
(* to release, each component checked by itself in one run: the            *)
(* configuration (ConfigFile), the choice of a model (ModelChoice), the    *)
(* context of a turn (TurnContext), compacted transcripts (Compaction),    *)
(* installed skills (SkillPackages), the program itself (UpdateSwap), the  *)
(* index of documents (SearchIndex), what is looked for in transcripts     *)
(* (SessionSearch) and the checkpoints of the workspace (Checkpoints).     *)
(***************************************************************************)
EXTENDS ConfigFile, Sequences, TLC

CONSTANTS
  m3, x1, Models, Provider, MaxCandidates, TurnSessions, Facts, Revisions, MaxEntries, MaxItems,
  MaxSeen, MaxPerTurn, MaxActivity, MaxChanges, MaxResets, Budget, Overhead, Base, Floor,
  MaxPasses, SummarySizes, Jobs, SkillCommands, Copies, MaxVersion, MaxSkillEdits, MaxCrashes,
  MaxCommands, UpdateCommands, Releases, Installed, MaxErrors, MaxApplies, Agents, Documents,
  Paths, Searches, Uses, Shown, MaxClock, MaxWrites, MaxConfigs, MaxSearches, Transcribed,
  Owner, Limit, Window, Searchers, MaxFiles, MaxTime, Listed, Private, Programs, MaxFileEdits,
  MaxRuns, MaxFailures

VARIABLES
  part,   \* whose behaviour this is
  policy, known, login, recorded, opened, fact, ledger, next, life, cursor, seen, turn, told,
  lost, skipped, changes, resets, job, phase, queue, got, pass, prefix, summary, largest,
  outcome, source, copy, records, command, spent, torn, preserved, refused, app, meta,
  updateLock, cmd, errors, crashes, applies, excuse, disk, clock, searchConfig, index, using,
  recent, blurred, indexCounts, transcripts, now, looking, found, tracked, ignore, repo, staged,
  head, run, answered, gitCounts

Choice == INSTANCE ModelChoice
Context == INSTANCE TurnContext WITH Sessions <- TurnSessions
Compacting == INSTANCE Compaction
Skills == INSTANCE SkillPackages WITH Commands <- SkillCommands, MaxEdits <- MaxSkillEdits
Update == INSTANCE UpdateSwap WITH lock <- updateLock, Commands <- UpdateCommands
Index == INSTANCE SearchIndex WITH config <- searchConfig, search <- using, counts <-
  indexCounts, MaxTime <- MaxClock
Find == INSTANCE SessionSearch WITH files <- transcripts, search <- looking, Sessions <-
  Transcribed
Git == INSTANCE Checkpoints WITH files <- tracked, told <- answered, counts <- gitCounts,
  MaxEdits <- MaxFileEdits

modelVars == <<policy, known, login, recorded, opened>>
turnVars == <<fact, ledger, next, life, cursor, seen, turn, told, lost, skipped, changes,
  resets>>
compactionVars == <<job, phase, queue, got, pass, prefix, summary, largest, outcome>>
skillsVars == <<source, copy, records, command, spent, torn, preserved, refused>>
updateVars == <<app, meta, updateLock, cmd, errors, crashes, applies, excuse>>
searchVars == <<disk, clock, searchConfig, index, using, recent, blurred, indexCounts>>
transcriptsVars == <<transcripts, now, looking, found>>
gitVars == <<tracked, ignore, repo, staged, head, run, answered, gitCounts>>

\* Init and Next, a part at a time: the others keep still.
UpkeepInit ==
  /\ part \in {"config", "model", "turn", "compaction", "skills", "update", "search", "transcripts", "git"}
  /\ Init
  /\ Choice!Init
  /\ Context!Init
  /\ Compacting!Init
  /\ Skills!Init
  /\ Update!Init
  /\ Index!Init
  /\ Find!Init
  /\ Git!Init
  /\ part # "model" => policy = <<m3>>
  /\ part # "search" => recent["doc"] = {} /\ searchConfig.roots["doc"] = {"a2"}
  /\ part # "git" => ignore = "ours" /\ repo

UpkeepNext ==
  \/ /\ part = "config" /\ Next
     /\ UNCHANGED <<part, modelVars, turnVars, compactionVars, skillsVars, updateVars,
                   searchVars, transcriptsVars, gitVars>>
  \/ /\ part = "model" /\ Choice!Next
     /\ UNCHANGED <<part, vars, turnVars, compactionVars, skillsVars, updateVars, searchVars,
                   transcriptsVars, gitVars>>
  \/ /\ part = "turn" /\ Context!Next
     /\ UNCHANGED <<part, vars, modelVars, compactionVars, skillsVars, updateVars, searchVars,
                   transcriptsVars, gitVars>>
  \/ /\ part = "compaction" /\ Compacting!Next
     /\ UNCHANGED <<part, vars, modelVars, turnVars, skillsVars, updateVars, searchVars,
                   transcriptsVars, gitVars>>
  \/ /\ part = "skills" /\ Skills!Next
     /\ UNCHANGED <<part, vars, modelVars, turnVars, compactionVars, updateVars, searchVars,
                   transcriptsVars, gitVars>>
  \/ /\ part = "update" /\ Update!Next
     /\ UNCHANGED <<part, vars, modelVars, turnVars, compactionVars, skillsVars, searchVars,
                   transcriptsVars, gitVars>>
  \/ /\ part = "search" /\ Index!Next
     /\ UNCHANGED <<part, vars, modelVars, turnVars, compactionVars, skillsVars, updateVars,
                   transcriptsVars, gitVars>>
  \/ /\ part = "transcripts" /\ Find!Next
     /\ UNCHANGED <<part, vars, modelVars, turnVars, compactionVars, skillsVars, updateVars,
                   searchVars, gitVars>>
  \/ /\ part = "git" /\ Git!Next
     /\ UNCHANGED <<part, vars, modelVars, turnVars, compactionVars, skillsVars, updateVars,
                   searchVars, transcriptsVars>>

everything == <<part, vars, modelVars, turnVars, compactionVars, skillsVars, updateVars,
  searchVars, transcriptsVars, gitVars>>

UpkeepSpec == UpkeepInit /\ [][UpkeepNext]_everything

ASSUME IndexAssumptions ==
  Index!SearchAssumption /\ Find!SessionSearchAssumption /\ Git!CheckpointAssumption

\* Commands on skills are interchangeable, and programs that search.
Symmetry == Permutations(SkillCommands) \union Permutations(Searches)

\* Two documents of six lines.
Heading(n, w) == [level |-> n, word |-> w]
Text(w) == Heading(0, w)
OnePath == <<"doc">>
TwoDocuments ==
  {<<Text("t"), Heading(1, "A"), Heading(3, "B"), Text("u"), Heading(2, "C"), Text("v")>>,
   <<Text(""), Heading(1, "A"), Heading(3, "B"), Text("u"), Heading(1, ""), Text("w")>>}
OneOrBoth == {{"a2"}, {"a1", "workspace"}}
OwnerOf == [s \in Transcribed |-> IF s = x1 THEN "a1" ELSE "a2"]

\* Two models of one provider, one of another.
TwoAndOne == [m \in Models |-> IF m = m3 THEN "q" ELSE "p"]

\* Histories of one block, of blocks that fit and of one that does not.
Block(id, n) == [k \in 1..n |-> {<<id, k>>}]
Histories == {<<>>, <<Block(1, 3)>>, <<Block(1, 2), Block(2, 2), Block(3, 1)>>, <<Block(1, 5), Block(2, 1)>>}
SomeJobs ==
  [blocks : Histories, previous : {0, 4}, system : {1, 4}, cut : {2, 4}, prefix : BOOLEAN]
    \union [blocks : {<<Block(1, 3)>>}, previous : {0}, system : {7}, cut : {1}, prefix : {FALSE}]

----------------------------------------------------------------------------
\* Compaction keeps within its limits and leaves nothing out:
\* RequestsFit and CompactedCoversAll of Compaction.
SummariesFaithful == part = "compaction" => Compacting!RequestsFit /\ Compacting!CompactedCoversAll

\* The ledger is an unbroken run of entries that ends at the latest, and no activity in
\* it is passed over in silence: TurnTypeOK and ActivityAccounted of TurnContext.
ActivityAccounted ==
  part = "turn" => Context!TurnTypeOK /\ Context!ActivityAccounted

\* A transcript is not told twice of the same activity, nor of a fact that
\* still says what it was last told: TellsOnce of TurnContext.
NotToldTwice == [][part = "turn" => Context!TellsOnce]_everything

\* What a user wrote into a skill disappears only by a command told to replace
\* it, or one that looked before it was written, and an update replaces only the
\* release it was planned from: EditSurvives of SkillPackages, CommitsPlanned of UpdateSwap.
ReplacesOnlyPlanned ==
  [][/\ part = "skills" => Skills!EditSurvives
     /\ part = "update" => Update!CommitsPlanned]_everything

\* What the records say of installed skills is so, and an update refuses for a
\* reason; when no command is in the middle of a swap, the app is the release that is on
\* record: RecordsTrue and RefusalsExcused of SkillPackages, RecordedKept and
\* QuietIsRecorded of UpdateSwap.
RecordedKept ==
  /\ part = "skills" => Skills!RecordsTrue /\ Skills!RefusalsExcused
  /\ part = "update" => Update!RecordedKept /\ Update!QuietIsRecorded

\* A search finds what is there while it runs and what belongs to whom it is
\* for, in documents, however many use the index, and in transcripts, though they
\* grow: FoundIsFresh, CurrentIsTrue, SearchesItsOwn and LinesChunked of SearchIndex,
\* NothingMissed and FoundIsShown of SessionSearch.
SearchTrue ==
  /\ part = "search" => /\ Index!FoundIsFresh /\ Index!CurrentIsTrue
                       /\ Index!SearchesItsOwn /\ Index!LinesChunked
  /\ part = "transcripts" => Find!NothingMissed /\ Find!FoundIsShown

\* A checkpoint that answers has saved what it was asked to, and what the
\* whitelist keeps out stays out: AnswersAreSaved and PrivateStaysOut of Checkpoints.
CheckpointsKept ==
  [][part = "git" => Git!PrivateStaysOut /\ Git!AnswersAreSaved]_everything

\* A model policy gives its first usable model, and an edit of it keeps the
\* others in order: OpensFirstUsable and KeepsOthers of ModelChoice.
ModelsChosen == [][part = "model" => Choice!OpensFirstUsable /\ Choice!KeepsOthers]_everything
=============================================================================
