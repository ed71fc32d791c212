---------------------------- MODULE UpkeepProofs ----------------------------
(***************************************************************************)
(* Proofs about what a workspace keeps from turn to turn and from release  *)
(* to release, each component as MCUpkeep instantiates it:                 *)
(*                                                                         *)
(*   - a saved preference stays on disk (ConfigFile: sessions/settings.ts, *)
(*     config/store.ts);                                                   *)
(*   - the app on record is on disk whatever step of an update fails or is *)
(*     its last, and an update replaces only the release it was planned    *)
(*     from (UpdateSwap: update/apply.ts);                                 *)
(*   - the records of installed skills are true, and what a user wrote     *)
(*     into a skill goes only where it is meant to (SkillPackages:         *)
(*     skills/packages/operations.ts);                                     *)
(*   - a checkpoint that answers has saved, and what the whitelist keeps   *)
(*     out stays out (Checkpoints: workspace/checkpoints/git.ts);          *)
(*                                                                         *)
(* for any sessions, commands, releases, skills, files and programs.       *)
(***************************************************************************)
EXTENDS MCUpkeep, TLAPS

----------------------------------------------------------------------------
(* The configuration.  A session writes the whole file it has read.  What  *)
(* keeps this from undoing another session's save is the lock: between the *)
(* read and the write no session changes the file, and what an editor      *)
(* changes meanwhile is last set by an editor or excused.                  *)

Values == [Fields -> Nat]
Preferences == [Compaction -> Nat]
Drafts == [raw : Values, field : Fields, value : Nat]

\* What the file, the sessions and the writers hold.
ConfigTypeOK ==
    /\ file \in Values /\ saved \in Values
    /\ memory \in [Sessions -> {<<>>} \cup {<<m>> : m \in Preferences}]
    /\ writing \in [Writers -> {<<>>} \cup {<<d>> : d \in Drafts}]
    /\ edits \in Nat
    /\ DOMAIN by = Fields

\* A session between its read and its write is open and holds the lock.
WritersLocked == \A s \in Sessions : writing[s] # <<>> => lock = <<s>> /\ memory[s] # <<>>

ByEditor(f) == by[f] # <<>> /\ by[f][1] \in Editors

\* A session's copy is the file but for what editors did.
CopiesCurrent ==
    \A s \in Sessions, f \in Fields \ excused :
        writing[s] # <<>> /\ ~ ByEditor(f) => writing[s][1].raw[f] = file[f]

ConfigInv == ConfigTypeOK /\ WritersLocked /\ CopiesCurrent /\ SavesKept

----------------------------------------------------------------------------
\* A draft, and the settings of an open session, are what their types say.
LEMMA DraftShape ==
    ASSUME ConfigTypeOK, NEW w \in Writers, writing[w] # <<>>
    PROVE  writing[w][1] \in Drafts
BY DEF ConfigTypeOK

LEMMA MemoryShape ==
    ASSUME ConfigTypeOK, NEW s \in Sessions, memory[s] # <<>>
    PROVE  memory[s][1] \in Preferences
BY DEF ConfigTypeOK

\* The fields a session writes beside its own and the compaction settings are
\* those it read.
LEMMA ComposedShape ==
    ASSUME ConfigTypeOK, NEW s \in Sessions, writing[s] # <<>>, memory[s] # <<>>
    PROVE  /\ Returned(s) \in Preferences
           /\ Composed(s) \in Values
           /\ Composed(s)[writing[s][1].field] = writing[s][1].value
           /\ \A f \in Fields \ Compaction :
                f # writing[s][1].field => Composed(s)[f] = writing[s][1].raw[f]
<1> DEFINE d == writing[s][1]
<1>1. d \in Drafts
  BY DraftShape DEF Writers
<1>2. memory[s][1] \in Preferences
  BY MemoryShape
<1>3. d.raw \in Values /\ d.field \in Fields /\ d.value \in Nat
  BY <1>1 DEF Drafts
<1>4. Returned(s) \in Preferences
  BY <1>2, <1>3 DEF Returned, Preferences
<1>5. Compaction \subseteq Fields
  BY DEF Fields
<1>. QED  BY <1>2, <1>3, <1>4, <1>5 DEF Composed, Values, Preferences

\* A read gives the writer the file as it is, and nobody else anything.
LEMMA ReadShape ==
    ASSUME ConfigTypeOK, NEW w \in Writers, NEW f \in Fields, Read(w, f)
    PROVE  /\ writing' \in [Writers -> {<<>>} \cup {<<d>> : d \in Drafts}]
           /\ edits' \in Nat
           /\ writing[w] = <<>> /\ writing'[w] # <<>>
           /\ writing'[w][1].raw = file
           /\ \A v \in Writers \ {w} : writing'[v] = writing[v]
<1> DEFINE d == [raw |-> file, field |-> f, value |-> edits + 1]
<1>1. d \in Drafts
  BY DEF Drafts, ConfigTypeOK
<1>2. writing' = [writing EXCEPT ![w] = <<d>>] /\ edits' = edits + 1 /\ writing[w] = <<>>
  BY DEF Read
<1>. HIDE DEF d
<1>3. writing'[w] = <<d>>
  BY <1>2 DEF ConfigTypeOK
<1>4. d.raw = file
  BY DEF d
<1>. QED  BY <1>1, <1>2, <1>3, <1>4 DEF ConfigTypeOK

\* A write ends the writer's draft and gives its field the draft's value.
LEMMA GivenShape ==
    ASSUME ConfigTypeOK, NEW w \in Writers, writing[w] # <<>>, Given(w)
    PROVE  /\ writing' \in [Writers -> {<<>>} \cup {<<d>> : d \in Drafts}]
           /\ writing'[w] = <<>> /\ \A v \in Writers \ {w} : writing'[v] = writing[v]
           /\ saved' \in Values /\ saved'[writing[w][1].field] = writing[w][1].value
           /\ DOMAIN by' = Fields /\ by'[writing[w][1].field] = <<w>>
           /\ \A f \in Fields : f # writing[w][1].field => saved'[f] = saved[f] /\ by'[f] = by[f]
<1>1. writing[w][1].field \in Fields /\ writing[w][1].value \in Nat
  BY DraftShape DEF Drafts
<1>. QED  BY <1>1 DEF Given, ConfigTypeOK, Values

----------------------------------------------------------------------------
LEMMA ConfigInit == Init => ConfigInv
BY DEF Init, ConfigInv, ConfigTypeOK, WritersLocked, CopiesCurrent, SavesKept, Values, Writers

\* A session writes: nobody else holds the lock, and what it writes beside its own
\* field is on disk already, or excused.
LEMMA StoreStep ==
    ASSUME ConfigInv, NEW s \in Sessions, Store(s)
    PROVE  ConfigInv'
<1> DEFINE d == writing[s][1]
<1>1. /\ ConfigTypeOK /\ WritersLocked /\ CopiesCurrent /\ SavesKept
      /\ writing[s] # <<>> /\ s \in Writers
  BY DEF ConfigInv, Store, Writers
<1>2. lock = <<s>> /\ memory[s] # <<>>
  BY <1>1 DEF WritersLocked
<1>3. /\ Returned(s) \in Preferences /\ Composed(s) \in Values
      /\ Composed(s)[d.field] = d.value
      /\ \A f \in Fields \ Compaction : f # d.field => Composed(s)[f] = d.raw[f]
  BY <1>1, <1>2, ComposedShape
<1>4. /\ writing' \in [Writers -> {<<>>} \cup {<<c>> : c \in Drafts}]
      /\ writing'[s] = <<>> /\ \A v \in Writers \ {s} : writing'[v] = writing[v]
      /\ saved' \in Values /\ saved'[d.field] = d.value
      /\ DOMAIN by' = Fields /\ by'[d.field] = <<s>>
      /\ \A f \in Fields : f # d.field => saved'[f] = saved[f] /\ by'[f] = by[f]
  BY <1>1, GivenShape DEF Store
<1>5. /\ file' = Composed(s) /\ memory' = [memory EXCEPT ![s] = <<Returned(s)>>]
      /\ lock' = <<>> /\ edits' = edits
      /\ excused' = (excused \cup ({f \in Missed(s) : ByEditor(f)}
                       \cup {f \in Compaction : Composed(s)[f] # d.raw[f]})) \ {d.field}
  BY DEF Store, Excuse, ByEditor
<1>6. ConfigTypeOK'
  BY <1>1, <1>3, <1>4, <1>5 DEF ConfigTypeOK
<1>7. \A v \in Sessions : writing'[v] = <<>>
  <2>. SUFFICES ASSUME NEW v \in Sessions, v # s PROVE writing'[v] = <<>>
    BY <1>4
  <2>1. writing'[v] = writing[v]
    BY <1>4 DEF Writers
  <2>. QED  BY <1>1, <1>2, <2>1 DEF WritersLocked
<1>8. SavesKept'
  <2>. SUFFICES ASSUME NEW f \in Fields, f \notin excused' PROVE file'[f] = saved'[f]
    BY DEF SavesKept
  <2>1. CASE f = d.field
    BY <1>3, <1>4, <1>5, <2>1
  <2>2. CASE f # d.field
    <3>1. f \notin excused /\ ~ (f \in Missed(s) /\ ByEditor(f))
      BY <1>5, <2>2
    <3>2. Composed(s)[f] = d.raw[f]
      BY <1>3, <1>5, <2>2
    <3>3. d.raw[f] = file[f]
      <4>1. CASE ByEditor(f)
        BY <3>1, <4>1, <2>2 DEF Missed
      <4>2. CASE ~ ByEditor(f)
        BY <1>1, <3>1, <4>2 DEF CopiesCurrent
      <4>. QED  BY <4>1, <4>2
    <3>. QED  BY <1>1, <1>4, <1>5, <2>2, <3>1, <3>2, <3>3 DEF SavesKept
  <2>. QED  BY <2>1, <2>2
<1>. QED  BY <1>6, <1>7, <1>8 DEF ConfigInv, WritersLocked, CopiesCurrent

\* An editor writes: it becomes the one who set its field, and what it undoes is excused.
LEMMA WriteStep ==
    ASSUME ConfigInv, NEW w \in Editors, Write(w)
    PROVE  ConfigInv'
<1> DEFINE d == writing[w][1]
<1>1. /\ ConfigTypeOK /\ WritersLocked /\ CopiesCurrent /\ SavesKept
      /\ writing[w] # <<>> /\ w \in Writers
  BY DEF ConfigInv, Write, Writers
<1>2. d.raw \in Values /\ d.field \in Fields /\ d.value \in Nat
  BY <1>1, DraftShape DEF Drafts
<1>3. /\ writing' \in [Writers -> {<<>>} \cup {<<c>> : c \in Drafts}]
      /\ writing'[w] = <<>> /\ \A v \in Writers \ {w} : writing'[v] = writing[v]
      /\ saved' \in Values /\ saved'[d.field] = d.value
      /\ DOMAIN by' = Fields /\ by'[d.field] = <<w>>
      /\ \A f \in Fields : f # d.field => saved'[f] = saved[f] /\ by'[f] = by[f]
  BY <1>1, GivenShape DEF Write
<1>4. /\ file' = [d.raw EXCEPT ![d.field] = d.value]
      /\ excused' = (excused \cup Missed(w)) \ {d.field}
      /\ UNCHANGED <<memory, lock, edits>>
  BY DEF Write, Excuse
<1>. HIDE DEF d
<1>5. file' \in Values /\ file'[d.field] = d.value
      /\ \A f \in Fields : f # d.field => file'[f] = d.raw[f]
  BY <1>2, <1>4 DEF Values
<1>6. ConfigTypeOK'
  BY <1>1, <1>3, <1>4, <1>5 DEF ConfigTypeOK
<1>7. \A s \in Sessions : writing'[s] = writing[s]
  BY <1>3, ConfigAssumption DEF Writers
<1>8. \A f \in Fields \ excused' : f # d.field => f \notin excused /\ file'[f] = file[f]
  <2>. SUFFICES ASSUME NEW f \in Fields, f \notin excused', f # d.field
                PROVE  f \notin excused /\ file'[f] = file[f]
    OBVIOUS
  <2>1. f \notin excused /\ f \notin Missed(w)
    BY <1>4
  <2>2. file[f] = d.raw[f]
    BY <2>1 DEF Missed, d
  <2>. QED  BY <2>1, <2>2, <1>5
<1>9. SavesKept'
  BY <1>1, <1>3, <1>5, <1>8 DEF SavesKept
<1>10. CopiesCurrent'
  <2>. SUFFICES ASSUME NEW s \in Sessions, NEW f \in Fields, f \notin excused',
                       writing'[s] # <<>>, ~ ByEditor(f)'
                PROVE  writing'[s][1].raw[f] = file'[f]
    BY DEF CopiesCurrent
  <2>1. f # d.field
    BY <1>3 DEF ByEditor
  <2>2. ~ ByEditor(f) /\ f \notin excused /\ file'[f] = file[f]
    BY <1>3, <1>8, <2>1 DEF ByEditor
  <2>. QED  BY <1>1, <1>7, <2>2 DEF CopiesCurrent
<1>11. WritersLocked'
  BY <1>1, <1>4, <1>7 DEF WritersLocked
<1>. QED  BY <1>6, <1>9, <1>10, <1>11 DEF ConfigInv

\* A session or an editor reads the file; a session takes the lock.
LEMMA ReadStep ==
    ASSUME ConfigInv, NEW w \in Writers, NEW f \in Fields, Read(w, f),
           UNCHANGED <<file, memory, saved, by, excused>>,
           \/ w \in Editors /\ lock' = lock
           \/ w \in Sessions /\ memory[w] # <<>> /\ lock = <<>> /\ lock' = <<w>>
    PROVE  ConfigInv'
<1>1. ConfigTypeOK /\ WritersLocked /\ CopiesCurrent /\ SavesKept
  BY DEF ConfigInv
<1>2. /\ writing' \in [Writers -> {<<>>} \cup {<<d>> : d \in Drafts}]
      /\ edits' \in Nat
      /\ writing'[w] # <<>> /\ writing'[w][1].raw = file
      /\ \A v \in Writers \ {w} : writing'[v] = writing[v]
  BY <1>1, ReadShape
<1>3. ConfigTypeOK'
  BY <1>1, <1>2 DEF ConfigTypeOK
<1>4. SavesKept'
  BY <1>1 DEF SavesKept
<1>5. CopiesCurrent'
  <2>. SUFFICES ASSUME NEW s \in Sessions, NEW g \in Fields, g \notin excused,
                       writing'[s] # <<>>, ~ ByEditor(g)
                PROVE  writing'[s][1].raw[g] = file[g]
    BY DEF CopiesCurrent, ByEditor
  <2>1. CASE s = w
    BY <1>2, <2>1
  <2>2. CASE s # w
    BY <1>1, <1>2, <2>2 DEF CopiesCurrent, Writers
  <2>. QED  BY <2>1, <2>2
<1>6. WritersLocked'
  <2>. SUFFICES ASSUME NEW s \in Sessions, writing'[s] # <<>>
                PROVE  lock' = <<s>> /\ memory[s] # <<>>
    BY DEF WritersLocked
  <2>1. CASE s = w
    BY <2>1, ConfigAssumption
  <2>2. CASE s # w
    <3>1. lock = <<s>> /\ memory[s] # <<>>
      BY <1>1, <1>2, <2>2 DEF WritersLocked, Writers
    <3>. QED  BY <3>1
  <2>. QED  BY <2>1, <2>2
<1>. QED  BY <1>3, <1>4, <1>5, <1>6 DEF ConfigInv

LEMMA ConfigNext == ConfigInv /\ [Next]_vars => ConfigInv'
<1>. SUFFICES ASSUME ConfigInv, [Next]_vars PROVE ConfigInv'
  OBVIOUS
<1>1. ASSUME NEW s \in Sessions, Open(s) PROVE ConfigInv'
  <2>1. Effective(s) \in Preferences
    BY ConfigAssumption DEF ConfigInv, ConfigTypeOK, Effective, Preferences, Values, Fields, Override
  <2>2. memory' = [memory EXCEPT ![s] = <<Effective(s)>>]
    BY <1>1 DEF Open
  <2>3. ConfigTypeOK'
    BY <1>1, <2>1, <2>2 DEF ConfigInv, ConfigTypeOK, Open
  <2>4. \A v \in Sessions : memory[v] # <<>> => memory'[v] = memory[v]
    BY <1>1, <2>2 DEF ConfigInv, ConfigTypeOK, Open
  <2>. QED  BY <1>1, <2>3, <2>4
             DEF ConfigInv, Open, WritersLocked, CopiesCurrent, SavesKept, ByEditor
<1>2. ASSUME NEW s \in Sessions, Close(s) PROVE ConfigInv'
  BY <1>2 DEF ConfigInv, Close, ConfigTypeOK, WritersLocked, CopiesCurrent, SavesKept, ByEditor
<1>3. ASSUME NEW s \in Sessions, NEW f \in Fields, Save(s, f) PROVE ConfigInv'
  BY <1>3, ReadStep DEF Save, Writers
<1>4. ASSUME NEW w \in Editors, NEW f \in Fields, Edit(w, f) PROVE ConfigInv'
  BY <1>4, ReadStep DEF Edit, Writers
<1>5. ASSUME NEW w \in Editors, Leave(w) PROVE ConfigInv'
  <2>1. \A s \in Sessions : writing'[s] = writing[s]
    BY <1>5, ConfigAssumption DEF Leave, ConfigInv, ConfigTypeOK, Writers
  <2>2. ConfigTypeOK'
    BY <1>5 DEF Leave, ConfigInv, ConfigTypeOK
  <2>. QED  BY <1>5, <2>1, <2>2
             DEF ConfigInv, Leave, WritersLocked, CopiesCurrent, SavesKept, ByEditor
<1>6. CASE UNCHANGED vars
  BY <1>6 DEF vars, ConfigInv, ConfigTypeOK, WritersLocked, CopiesCurrent, SavesKept, ByEditor
<1>. QED  BY <1>1, <1>2, <1>3, <1>4, <1>5, <1>6, StoreStep, WriteStep DEF Next

\* What is saved stays on disk, but for what editors without the lock, and
\* sessions that write the compaction settings they have in memory, are known to
\* overwrite (sessions/settings.ts, config/store.ts).
THEOREM SavedStays == Spec => []SavesKept
<1>1. ConfigInv => SavesKept
  BY DEF ConfigInv
<1>. QED  BY <1>1, ConfigInit, ConfigNext, PTL DEF Spec

----------------------------------------------------------------------------
(* The installed app.  While no lock is taken from a command at work, one  *)
(* command swaps at a time; the release on record is where that command's  *)
(* step says it is, or in the hands of one that died.                      *)

UpdateSteps ==
    {"idle", "stage", "lock", "reread", "moveOld", "moveNew", "check", "commit", "removeOld",
     "undoNew", "undoOld", "recheck", "dead"}

Trees == {<<>>} \cup {<<t>> : t \in [commit : Releases \cup {Installed}, whole : BOOLEAN]}

\* A command has the old app from the moment it moves it.
UpdateCommand ==
    {k \in [at : UpdateSteps, read : Releases \cup {Installed},
            target : Releases \cup {Installed}, stage : Trees, backup : Trees, failed : Trees,
            oldMoved : BOOLEAN, newInstalled : BOOLEAN] :
       k.at \in {"moveNew", "check", "commit", "removeOld"} => k.backup # <<>>}

UpdateTyped ==
    /\ app \in Trees /\ meta \in Releases \cup {Installed}
    /\ cmd \in [UpdateCommands -> UpdateCommand]

\* A command between taking the lock and giving it back.
Swapping == UpdateSteps \ {"idle", "stage", "lock", "dead"}

\* While no lock was taken from a command at work, a command that swaps holds it.
SwapsAlone(c) == cmd[c].at \in Swapping => updateLock = <<c>>

\* What a command has planned is another release, and it is still what it was.
StillPlanned(c) ==
    /\ cmd[c].at \notin {"idle", "dead"} => cmd[c].target # cmd[c].read
    /\ cmd[c].at \in {"moveOld", "moveNew", "check", "commit", "undoNew"} => meta = cmd[c].read
    /\ cmd[c].at \in {"lock", "reread", "moveOld", "moveNew"}
         => cmd[c].stage = Update!Tree(cmd[c].target)

\* Where the old app and the release are at each step of a swap.
SwapInStep(c) ==
    /\ cmd[c].at \in {"idle", "stage", "lock", "reread", "moveOld", "recheck"}
         => cmd[c].backup = <<>>
    /\ cmd[c].at = "moveNew" => app = <<>>
    /\ cmd[c].at \in {"check", "commit"}
         => app = Update!Tree(cmd[c].target) /\ cmd[c].newInstalled
    /\ cmd[c].at = "removeOld" => app = Update!Tree(meta)
    /\ cmd[c].at = "undoNew"
         => app = <<>> \/ (app = Update!Tree(cmd[c].target) /\ cmd[c].newInstalled)
    /\ cmd[c].at = "undoOld" => app = <<>>

SwapSound(c) == SwapsAlone(c) /\ StillPlanned(c) /\ SwapInStep(c)

UpdateInv ==
    /\ UpdateTyped
    /\ excuse = {} => \A c \in UpdateCommands : SwapSound(c)
    /\ Update!RecordedKept

LEMMA TreeIsThere ==
    ASSUME NEW r PROVE Update!Tree(r) # <<>>
BY DEF Update!Tree

LEMMA TreeTyped ==
    ASSUME NEW r \in Releases \cup {Installed} PROVE Update!Tree(r) \in Trees
BY DEF Update!Tree, Trees

LEMMA TreesDiffer ==
    ASSUME NEW r, NEW q, r # q PROVE Update!Tree(r) # Update!Tree(q)
BY DEF Update!Tree

LEMMA UpdateStarts ==
    ASSUME Update!Init PROVE UpdateInv
<1>1. UpdateTyped
  BY TreeTyped DEF Update!Init, UpdateTyped, Update!Idle, UpdateCommand, UpdateSteps, Trees
<1>2. \A c \in UpdateCommands : SwapSound(c)
  BY DEF Update!Init, Update!Idle, SwapSound, SwapsAlone, StillPlanned, SwapInStep, Swapping,
    UpdateSteps
<1>3. Update!RecordedKept
  BY DEF Update!Init, Update!RecordedKept
<1> QED
  BY <1>1, <1>2, <1>3 DEF UpdateInv

\* While one command swaps, no other does.
LEMMA OthersWait ==
    ASSUME UpdateInv, excuse = {}, NEW c \in UpdateCommands, cmd[c].at \in Swapping,
           NEW d \in UpdateCommands, d # c
    PROVE  cmd[d].at \notin Swapping
BY DEF UpdateInv, SwapSound, SwapsAlone

\* A command that does not swap claims nothing of the app, the record and the lock.
LEMMA WaitingKeeps ==
    ASSUME NEW d \in UpdateCommands, SwapSound(d), cmd[d].at \in UpdateSteps \ Swapping,
           cmd'[d] = cmd[d]
    PROVE  SwapSound(d)'
BY DEF SwapSound, SwapsAlone, StillPlanned, SwapInStep, Swapping, UpdateSteps

\* A step of a command that swaps: only what it says of itself is to be shown.
LEMMA SwapperSteps ==
    ASSUME UpdateInv, NEW c \in UpdateCommands, NEW new \in UpdateCommand,
           cmd' = [cmd EXCEPT ![c] = new], cmd[c].at \in Swapping,
           app' \in Trees, meta' \in Releases \cup {Installed}, excuse \subseteq excuse',
           excuse' = {} => SwapSound(c)', Update!RecordedKept'
    PROVE  UpdateInv'
<1>1. UpdateTyped'
  BY DEF UpdateInv, UpdateTyped
<1>2. ASSUME excuse' = {}, NEW d \in UpdateCommands PROVE SwapSound(d)'
  <2>1. excuse = {}
    BY <1>2
  <2>2. CASE d = c
    BY <1>2, <2>2
  <2>3. CASE d # c
    <3>1. cmd[d].at \in UpdateSteps \ Swapping
      BY <2>1, <2>3, OthersWait DEF UpdateInv, UpdateTyped, UpdateCommand
    <3>2. cmd'[d] = cmd[d]
      BY <2>3 DEF UpdateInv, UpdateTyped
    <3> QED
      BY <2>1, <3>1, <3>2, WaitingKeeps DEF UpdateInv
  <2> QED
    BY <2>2, <2>3
<1> QED
  BY <1>1, <1>2 DEF UpdateInv

\* A step that leaves the app, the record and the lock alone, and its command
\* without a backup if it had none.
LEMMA OutsideSteps ==
    ASSUME UpdateInv, NEW c \in UpdateCommands, NEW new \in UpdateCommand,
           cmd' = [cmd EXCEPT ![c] = new], UNCHANGED <<app, meta, updateLock>>,
           excuse \subseteq excuse', excuse' = {} => SwapSound(c)',
           excuse' = {} => new.backup = cmd[c].backup
    PROVE  UpdateInv'
<1>1. UpdateTyped'
  BY DEF UpdateInv, UpdateTyped
<1>2. ASSUME excuse' = {}, NEW d \in UpdateCommands PROVE SwapSound(d)'
  <2>1. excuse = {}
    BY <1>2
  <2>2. CASE d = c
    BY <1>2, <2>2
  <2>3. CASE d # c
    <3>1. cmd'[d] = cmd[d]
      BY <2>3 DEF UpdateInv, UpdateTyped
    <3>2. SwapSound(d)
      BY <2>1 DEF UpdateInv
    <3> QED
      BY <3>1, <3>2 DEF SwapSound, SwapsAlone, StillPlanned, SwapInStep
  <2> QED
    BY <2>2, <2>3
<1>3. Update!RecordedKept'
  <2> SUFFICES ASSUME excuse' = {}
               PROVE \E tree \in {app'} \cup {cmd'[d].backup : d \in UpdateCommands} :
                       tree = Update!Tree(meta')
    BY DEF Update!RecordedKept
  <2>1. \A d \in UpdateCommands : cmd'[d].backup = cmd[d].backup
    BY DEF UpdateInv, UpdateTyped
  <2> QED
    BY <2>1 DEF UpdateInv, Update!RecordedKept
<1> QED
  BY <1>1, <1>2, <1>3 DEF UpdateInv

\* Before the lock.
LEMMA PlanKeeps ==
    ASSUME UpdateInv, NEW c \in UpdateCommands, NEW r \in Releases, Update!Plan(c, r)
    PROVE  UpdateInv'
<1> DEFINE new == [Update!Idle EXCEPT !.at = "stage", !.read = meta, !.target = r]
<1>1. new \in UpdateCommand /\ new.backup = <<>> /\ new.at = "stage" /\ new.target # new.read
  BY TreeTyped DEF UpdateInv, UpdateTyped, Update!Plan, Update!MayApply, Update!Idle, UpdateCommand,
    UpdateSteps, Trees
<1>2. cmd' = [cmd EXCEPT ![c] = new] /\ cmd'[c] = new
  BY DEF UpdateInv, UpdateTyped, Update!Plan
<1>3. excuse = {} => cmd[c].backup = <<>>
  BY DEF UpdateInv, SwapSound, SwapInStep, Update!Plan
<1>4. SwapSound(c)'
  BY <1>1, <1>2 DEF SwapSound, SwapsAlone, StillPlanned, SwapInStep, Swapping
<1>5. UNCHANGED <<app, meta, updateLock, excuse>>
  BY DEF Update!Plan
<1> HIDE DEF new
<1> QED
  BY <1>1, <1>2, <1>3, <1>4, <1>5, OutsideSteps

LEMMA StageKeeps ==
    ASSUME UpdateInv, NEW c \in UpdateCommands, Update!Stage(c)
    PROVE  UpdateInv'
<1> DEFINE new == [cmd[c] EXCEPT !.at = "lock", !.stage = Update!Tree(cmd[c].target)]
<1>1. /\ new \in UpdateCommand /\ new.backup = cmd[c].backup /\ new.at = "lock"
      /\ new.target = cmd[c].target /\ new.read = cmd[c].read
      /\ new.stage = Update!Tree(cmd[c].target)
  BY ZenonT(60), TreeTyped DEF UpdateInv, UpdateTyped, UpdateCommand, UpdateSteps
<1>2. cmd' = [cmd EXCEPT ![c] = new] /\ cmd'[c] = new
  BY DEF UpdateInv, UpdateTyped, Update!Stage
<1>3. ASSUME excuse = {} PROVE SwapSound(c)'
  <2>1. SwapSound(c) /\ cmd[c].at = "stage"
    BY <1>3 DEF UpdateInv, Update!Stage
  <2>2. cmd[c].target # cmd[c].read /\ cmd[c].backup = <<>>
    BY <2>1 DEF SwapSound, StillPlanned, SwapInStep
  <2> QED
    BY <1>1, <1>2, <2>2 DEF SwapSound, SwapsAlone, StillPlanned, SwapInStep, Swapping
<1>4. UNCHANGED <<app, meta, updateLock, excuse>>
  BY DEF Update!Stage
<1> HIDE DEF new
<1> QED
  BY <1>1, <1>2, <1>3, <1>4, OutsideSteps

LEMMA GiveUpKeeps ==
    ASSUME UpdateInv, NEW c \in UpdateCommands, Update!GiveUp(c)
    PROVE  UpdateInv'
<1>1. Update!Idle \in UpdateCommand /\ Update!Idle.backup = <<>> /\ Update!Idle.at = "idle"
  BY DEF Update!Idle, UpdateCommand, UpdateSteps, Trees
<1>2. cmd' = [cmd EXCEPT ![c] = Update!Idle] /\ cmd'[c] = Update!Idle
  BY DEF UpdateInv, UpdateTyped, Update!GiveUp
<1>3. excuse = {} => cmd[c].backup = <<>>
  BY DEF UpdateInv, SwapSound, SwapInStep, Update!GiveUp
<1>4. SwapSound(c)'
  BY <1>1, <1>2 DEF SwapSound, SwapsAlone, StillPlanned, SwapInStep, Swapping
<1>5. UNCHANGED <<app, meta, updateLock, excuse>>
  BY DEF Update!GiveUp
<1> QED
  BY <1>1, <1>2, <1>3, <1>4, <1>5, OutsideSteps

LEMMA CrashKeeps ==
    ASSUME UpdateInv, NEW c \in UpdateCommands, Update!Crash(c)
    PROVE  UpdateInv'
<1> DEFINE new == [cmd[c] EXCEPT !.at = "dead"]
<1>1. new \in UpdateCommand /\ new.backup = cmd[c].backup /\ new.at = "dead"
  BY DEF UpdateInv, UpdateTyped, UpdateCommand, UpdateSteps
<1>2. cmd' = [cmd EXCEPT ![c] = new] /\ cmd'[c] = new
  BY DEF UpdateInv, UpdateTyped, Update!Crash, Update!Step
<1>3. SwapSound(c)'
  BY <1>1, <1>2 DEF SwapSound, SwapsAlone, StillPlanned, SwapInStep, Swapping
<1>4. UNCHANGED <<app, meta, updateLock, excuse>>
  BY DEF Update!Crash
<1> HIDE DEF new
<1> QED
  BY <1>1, <1>2, <1>3, <1>4, OutsideSteps

\* The lock: whoever held it swaps no more, or it is excused.
LEMMA LockKeeps ==
    ASSUME UpdateInv, NEW c \in UpdateCommands, Update!Lock(c)
    PROVE  UpdateInv'
<1> DEFINE new == [cmd[c] EXCEPT !.at = "reread"]
<1>1. /\ new \in UpdateCommand /\ new.backup = cmd[c].backup /\ new.at = "reread"
      /\ new.target = cmd[c].target /\ new.read = cmd[c].read /\ new.stage = cmd[c].stage
  BY DEF UpdateInv, UpdateTyped, UpdateCommand, UpdateSteps
<1>2. cmd' = [cmd EXCEPT ![c] = new] /\ cmd'[c] = new
  BY DEF UpdateInv, UpdateTyped, Update!Lock
<1>3. UNCHANGED <<app, meta>> /\ updateLock' = <<c>> /\ excuse \subseteq excuse'
  BY DEF Update!Lock
<1>4. UpdateTyped'
  BY <1>1, <1>2, <1>3 DEF UpdateInv, UpdateTyped
<1>5. ASSUME excuse' = {}, NEW d \in UpdateCommands PROVE SwapSound(d)'
  <2>1. excuse = {} /\ SwapSound(c) /\ SwapSound(d)
    BY <1>3, <1>5 DEF UpdateInv
  <2>2. CASE d = c
    BY ZenonT(60), <1>1, <1>2, <1>3, <2>1, <2>2 DEF Update!Lock, SwapSound, SwapsAlone, StillPlanned,
      SwapInStep, Swapping
  <2>3. CASE d # c
    <3>1. cmd[d].at \notin Swapping
      <4> SUFFICES ASSUME cmd[d].at \in Swapping PROVE FALSE
        OBVIOUS
      <4>1. updateLock = <<d>>
        BY <2>1 DEF SwapSound, SwapsAlone
      <4>2. updateLock # <<>> /\ updateLock[1] = d
        BY <4>1
      <4>3. cmd[d].at = "dead"
        BY <1>5, <4>2 DEF Update!Lock
      <4> QED
        BY <4>3 DEF Swapping
    <3>2. cmd'[d] = cmd[d] /\ cmd[d].at \in UpdateSteps
      BY <1>2, <2>3 DEF UpdateInv, UpdateTyped, UpdateCommand
    <3> QED
      BY <2>1, <3>1, <3>2, WaitingKeeps
  <2> QED
    BY <2>2, <2>3
<1>6. \A d \in UpdateCommands : cmd'[d].backup = cmd[d].backup
  BY <1>1, <1>2 DEF UpdateInv, UpdateTyped
<1>7. Update!RecordedKept'
  <2> SUFFICES ASSUME excuse' = {}
               PROVE \E tree \in {app'} \cup {cmd'[d].backup : d \in UpdateCommands} :
                       tree = Update!Tree(meta')
    BY DEF Update!RecordedKept
  <2> QED
    BY <1>3, <1>6 DEF UpdateInv, Update!RecordedKept
<1> QED
  BY <1>4, <1>5, <1>7 DEF UpdateInv

\* Under the lock.  The record is kept where it was, if neither that app nor that
\* backup is touched.
LEMMA StaysRecorded ==
    ASSUME UpdateInv, NEW c \in UpdateCommands, NEW new \in UpdateCommand,
           cmd' = [cmd EXCEPT ![c] = new], excuse \subseteq excuse', meta' = meta,
           excuse' = {} => app' = app \/ app # Update!Tree(meta) \/ new.backup = app,
           excuse' = {} => \/ new.backup = cmd[c].backup \/ cmd[c].backup = <<>>
                           \/ app' = cmd[c].backup
    PROVE  Update!RecordedKept'
<1> SUFFICES ASSUME excuse' = {}
             PROVE \E tree \in {app'} \cup {cmd'[d].backup : d \in UpdateCommands} :
                     tree = Update!Tree(meta')
  BY DEF Update!RecordedKept
<1>1. excuse = {} /\ Update!Tree(meta) # <<>>
  BY TreeIsThere
<1>2. cmd'[c] = new /\ \A d \in UpdateCommands : d # c => cmd'[d] = cmd[d]
  BY DEF UpdateInv, UpdateTyped
<1>3. PICK tree \in {app} \cup {cmd[d].backup : d \in UpdateCommands} : tree = Update!Tree(meta)
  BY <1>1 DEF UpdateInv, Update!RecordedKept
<1>4. CASE tree = app
  BY <1>1, <1>2, <1>3, <1>4
<1>5. CASE tree = cmd[c].backup
  BY <1>1, <1>2, <1>3, <1>5
<1>6. ASSUME NEW d \in UpdateCommands, d # c, tree = cmd[d].backup
      PROVE  \E kept \in {app'} \cup {cmd'[e].backup : e \in UpdateCommands} :
               kept = Update!Tree(meta')
  BY <1>2, <1>3, <1>6
<1> QED
  BY <1>3, <1>4, <1>5, <1>6

LEMMA RereadKeeps ==
    ASSUME UpdateInv, NEW c \in UpdateCommands, Update!Reread(c)
    PROVE  UpdateInv'
<1>0. cmd[c].at \in Swapping /\ UNCHANGED <<app, meta, excuse>>
  BY DEF Update!Reread, Swapping, UpdateSteps
<1>1. excuse = {} => SwapSound(c) /\ cmd[c].backup = <<>>
  BY DEF UpdateInv, Update!Reread, SwapSound, SwapInStep
<1>t. app' \in Trees /\ meta' \in Releases \cup {Installed} /\ excuse \subseteq excuse'
  BY <1>0 DEF UpdateInv, UpdateTyped
<1>2. CASE Update!Unplanned(c)
  <2>1. Update!Idle \in UpdateCommand /\ Update!Idle.backup = <<>> /\ Update!Idle.at = "idle"
    BY DEF Update!Idle, UpdateCommand, UpdateSteps, Trees
  <2>2. cmd' = [cmd EXCEPT ![c] = Update!Idle] /\ cmd'[c] = Update!Idle
    BY <1>2 DEF UpdateInv, UpdateTyped, Update!Reread
  <2>3. SwapSound(c)'
    BY <2>1, <2>2 DEF SwapSound, SwapsAlone, StillPlanned, SwapInStep, Swapping
  <2>4. Update!RecordedKept'
    BY <1>0, <1>1, <2>1, <2>2, StaysRecorded
  <2> QED
    BY <1>0, <1>t, <2>1, <2>2, <2>3, <2>4, SwapperSteps
<1>3. CASE ~ Update!Unplanned(c)
  <2> DEFINE new == [cmd[c] EXCEPT !.at = "moveOld"]
  <2>1. /\ new \in UpdateCommand /\ new.backup = cmd[c].backup /\ new.at = "moveOld"
        /\ new.target = cmd[c].target /\ new.read = cmd[c].read /\ new.stage = cmd[c].stage
    BY DEF UpdateInv, UpdateTyped, UpdateCommand, UpdateSteps
  <2>2. cmd' = [cmd EXCEPT ![c] = new] /\ cmd'[c] = new /\ UNCHANGED updateLock
    BY <1>3 DEF UpdateInv, UpdateTyped, Update!Reread, Update!Step
  <2>3. meta = cmd[c].read /\ cmd[c].at = "reread"
    BY <1>3 DEF Update!Unplanned, Update!Reread
  <2>4. ASSUME excuse = {} PROVE SwapSound(c)'
    <3>1. /\ updateLock = <<c>> /\ cmd[c].target # cmd[c].read
          /\ cmd[c].stage = Update!Tree(cmd[c].target) /\ cmd[c].backup = <<>>
      BY <1>0, <1>1, <2>3, <2>4 DEF SwapSound, SwapsAlone, StillPlanned, SwapInStep
    <3> QED
      BY <1>0, <2>1, <2>2, <2>3, <3>1 DEF SwapSound, SwapsAlone, StillPlanned, SwapInStep
  <2>5. Update!RecordedKept'
    <3> HIDE DEF new
    <3> QED
      BY <1>0, <1>1, <2>1, <2>2, StaysRecorded
  <2> HIDE DEF new
  <2> QED
    BY <1>0, <1>t, <2>1, <2>2, <2>4, <2>5, SwapperSteps
<1> QED
  BY <1>2, <1>3

LEMMA MoveOldKeeps ==
    ASSUME UpdateInv, NEW c \in UpdateCommands, Update!MoveOld(c)
    PROVE  UpdateInv'
<1>0. /\ cmd[c].at = "moveOld" /\ cmd[c].at \in Swapping /\ UNCHANGED <<meta, updateLock, excuse>>
      /\ app' = <<>> /\ app # <<>>
  BY DEF Update!MoveOld, Swapping, UpdateSteps
<1>t. app' \in Trees /\ meta' \in Releases \cup {Installed} /\ excuse \subseteq excuse'
  BY <1>0 DEF UpdateInv, UpdateTyped, Trees
<1> DEFINE new == [cmd[c] EXCEPT !.at = "moveNew", !.backup = app, !.oldMoved = TRUE]
<1>1. /\ new \in UpdateCommand /\ new.backup = app /\ new.at = "moveNew"
      /\ new.target = cmd[c].target /\ new.read = cmd[c].read /\ new.stage = cmd[c].stage
  BY <1>0 DEF UpdateInv, UpdateTyped, UpdateCommand, UpdateSteps
<1>2. cmd' = [cmd EXCEPT ![c] = new] /\ cmd'[c] = new
  BY DEF UpdateInv, UpdateTyped, Update!MoveOld
<1>3. ASSUME excuse = {}
      PROVE  /\ updateLock = <<c>> /\ cmd[c].target # cmd[c].read /\ meta = cmd[c].read
             /\ cmd[c].stage = Update!Tree(cmd[c].target) /\ cmd[c].backup = <<>>
  <2>1. SwapSound(c)
    BY <1>3 DEF UpdateInv
  <2> QED
    BY <1>0, <2>1 DEF SwapSound, SwapsAlone, StillPlanned, SwapInStep
<1>4. ASSUME excuse = {} PROVE SwapSound(c)'
  <2> HIDE DEF new
  <2> QED
    BY <1>0, <1>1, <1>2, <1>3, <1>4 DEF SwapSound, SwapsAlone, StillPlanned, SwapInStep
<1> HIDE DEF new
<1>5. Update!RecordedKept'
  BY <1>0, <1>1, <1>2, <1>3, StaysRecorded
<1> QED
  BY <1>0, <1>t, <1>1, <1>2, <1>4, <1>5, SwapperSteps

LEMMA MoveNewKeeps ==
    ASSUME UpdateInv, NEW c \in UpdateCommands, Update!MoveNew(c)
    PROVE  UpdateInv'
<1>0. /\ cmd[c].at = "moveNew" /\ cmd[c].at \in Swapping /\ UNCHANGED <<meta, updateLock, excuse>>
      /\ app = <<>> /\ app' = cmd[c].stage
  BY DEF Update!MoveNew, Swapping, UpdateSteps
<1>t. app' \in Trees /\ meta' \in Releases \cup {Installed} /\ excuse \subseteq excuse'
  BY <1>0 DEF UpdateInv, UpdateTyped, UpdateCommand
<1> DEFINE new == [cmd[c] EXCEPT !.at = "check", !.stage = <<>>, !.newInstalled = TRUE]
<1>1. /\ new \in UpdateCommand /\ new.backup = cmd[c].backup /\ new.at = "check"
      /\ new.target = cmd[c].target /\ new.read = cmd[c].read /\ new.newInstalled
  BY ZenonT(60), <1>0 DEF UpdateInv, UpdateTyped, UpdateCommand, UpdateSteps, Trees
<1>2. cmd' = [cmd EXCEPT ![c] = new] /\ cmd'[c] = new
  BY DEF UpdateInv, UpdateTyped, Update!MoveNew
<1>3. ASSUME excuse = {}
      PROVE  /\ updateLock = <<c>> /\ cmd[c].target # cmd[c].read /\ meta = cmd[c].read
             /\ cmd[c].stage = Update!Tree(cmd[c].target)
  <2>1. SwapSound(c)
    BY <1>3 DEF UpdateInv
  <2> QED
    BY <1>0, <2>1 DEF SwapSound, SwapsAlone, StillPlanned
<1>4. ASSUME excuse = {} PROVE SwapSound(c)'
  <2> HIDE DEF new
  <2> QED
    BY <1>0, <1>1, <1>2, <1>3, <1>4 DEF SwapSound, SwapsAlone, StillPlanned, SwapInStep
<1> HIDE DEF new
<1>5. Update!RecordedKept'
  BY <1>0, <1>1, <1>2, TreeIsThere, StaysRecorded
<1> QED
  BY <1>0, <1>t, <1>1, <1>2, <1>4, <1>5, SwapperSteps

LEMMA CheckKeeps ==
    ASSUME UpdateInv, NEW c \in UpdateCommands, Update!Check(c)
    PROVE  UpdateInv'
<1>0. /\ cmd[c].at = "check" /\ cmd[c].at \in Swapping
      /\ UNCHANGED <<app, meta, updateLock, excuse>>
  BY DEF Update!Check, Swapping, UpdateSteps
<1>t. app' \in Trees /\ meta' \in Releases \cup {Installed} /\ excuse \subseteq excuse'
  BY <1>0 DEF UpdateInv, UpdateTyped
<1> DEFINE new == [cmd[c] EXCEPT !.at = "commit"]
<1>1. /\ new \in UpdateCommand /\ new.backup = cmd[c].backup /\ new.at = "commit"
      /\ new.target = cmd[c].target /\ new.read = cmd[c].read
      /\ new.newInstalled = cmd[c].newInstalled
  BY <1>0 DEF UpdateInv, UpdateTyped, UpdateCommand, UpdateSteps
<1>2. cmd' = [cmd EXCEPT ![c] = new] /\ cmd'[c] = new
  BY DEF UpdateInv, UpdateTyped, Update!Check, Update!Step
<1>3. ASSUME excuse = {}
      PROVE  /\ updateLock = <<c>> /\ cmd[c].target # cmd[c].read /\ meta = cmd[c].read
             /\ app = Update!Tree(cmd[c].target) /\ cmd[c].newInstalled
  <2>1. SwapSound(c)
    BY <1>3 DEF UpdateInv
  <2> QED
    BY <1>0, <2>1 DEF SwapSound, SwapsAlone, StillPlanned, SwapInStep
<1>4. ASSUME excuse = {} PROVE SwapSound(c)'
  <2> HIDE DEF new
  <2> QED
    BY <1>0, <1>1, <1>2, <1>3, <1>4 DEF SwapSound, SwapsAlone, StillPlanned, SwapInStep
<1> HIDE DEF new
<1>5. Update!RecordedKept'
  BY <1>0, <1>1, <1>2, StaysRecorded
<1> QED
  BY <1>0, <1>t, <1>1, <1>2, <1>4, <1>5, SwapperSteps

LEMMA CommitKeeps ==
    ASSUME UpdateInv, NEW c \in UpdateCommands, Update!Commit(c)
    PROVE  UpdateInv'
<1>0. /\ cmd[c].at = "commit" /\ cmd[c].at \in Swapping
      /\ UNCHANGED <<app, updateLock, excuse>> /\ meta' = cmd[c].target
  BY DEF Update!Commit, Swapping, UpdateSteps
<1>t. app' \in Trees /\ meta' \in Releases \cup {Installed} /\ excuse \subseteq excuse'
  BY <1>0 DEF UpdateInv, UpdateTyped, UpdateCommand
<1> DEFINE new == [cmd[c] EXCEPT !.at = "removeOld"]
<1>1. /\ new \in UpdateCommand /\ new.at = "removeOld"
      /\ new.target = cmd[c].target /\ new.read = cmd[c].read
  BY <1>0 DEF UpdateInv, UpdateTyped, UpdateCommand, UpdateSteps
<1>2. cmd' = [cmd EXCEPT ![c] = new] /\ cmd'[c] = new
  BY DEF UpdateInv, UpdateTyped, Update!Commit, Update!Step
<1>3. ASSUME excuse = {}
      PROVE  /\ updateLock = <<c>> /\ cmd[c].target # cmd[c].read
             /\ app = Update!Tree(cmd[c].target)
  <2>1. SwapSound(c)
    BY <1>3 DEF UpdateInv
  <2> QED
    BY <1>0, <2>1 DEF SwapSound, SwapsAlone, StillPlanned, SwapInStep
<1>4. ASSUME excuse = {} PROVE SwapSound(c)'
  <2> HIDE DEF new
  <2> QED
    BY <1>0, <1>1, <1>2, <1>3, <1>4 DEF SwapSound, SwapsAlone, StillPlanned, SwapInStep
<1> HIDE DEF new
<1>5. Update!RecordedKept'
  BY <1>0, <1>3 DEF Update!RecordedKept
<1> QED
  BY <1>0, <1>t, <1>1, <1>2, <1>4, <1>5, SwapperSteps

\* The ways out that end the command.
LEMMA EndsKeep ==
    ASSUME UpdateInv, NEW c \in UpdateCommands,
           Update!MoveOldFails(c) \/ Update!RemoveOld(c) \/ Update!Recheck(c)
    PROVE  UpdateInv'
<1>0. /\ cmd[c].at \in {"moveOld", "removeOld", "recheck"} /\ UNCHANGED <<app, meta, excuse>>
      /\ cmd' = [cmd EXCEPT ![c] = Update!Idle]
  BY DEF Update!MoveOldFails, Update!RemoveOld, Update!Recheck
<1>t. /\ app' \in Trees /\ meta' \in Releases \cup {Installed} /\ excuse \subseteq excuse'
      /\ cmd[c].at \in Swapping
  BY <1>0 DEF UpdateInv, UpdateTyped, Swapping, UpdateSteps
<1>1. Update!Idle \in UpdateCommand /\ Update!Idle.backup = <<>> /\ Update!Idle.at = "idle"
  BY DEF Update!Idle, UpdateCommand, UpdateSteps, Trees
<1>2. cmd'[c] = Update!Idle
  BY <1>0 DEF UpdateInv, UpdateTyped
<1>3. SwapSound(c)'
  BY <1>1, <1>2 DEF SwapSound, SwapsAlone, StillPlanned, SwapInStep, Swapping
<1>4. excuse = {} => cmd[c].backup = <<>> \/ app = Update!Tree(meta)
  BY <1>0 DEF UpdateInv, SwapSound, SwapInStep
<1>5. Update!RecordedKept'
  <2>1. CASE excuse = {} /\ app = Update!Tree(meta)
    BY <1>0, <2>1 DEF Update!RecordedKept
  <2>2. CASE excuse = {} => cmd[c].backup = <<>>
    BY <1>0, <1>t, <1>1, <2>2, StaysRecorded
  <2> QED
    BY <1>4, <2>1, <2>2
<1> QED
  BY <1>0, <1>t, <1>1, <1>3, <1>5, SwapperSteps

LEMMA FailsKeeps ==
    ASSUME UpdateInv, NEW c \in UpdateCommands, Update!Fails(c)
    PROVE  UpdateInv'
<1>0. /\ cmd[c].at \in {"moveNew", "check", "commit"} /\ cmd[c].at \in Swapping
      /\ UNCHANGED <<app, meta, updateLock, excuse>>
  BY DEF Update!Fails, Swapping, UpdateSteps
<1>t. app' \in Trees /\ meta' \in Releases \cup {Installed} /\ excuse \subseteq excuse'
  BY <1>0 DEF UpdateInv, UpdateTyped
<1> DEFINE new == [cmd[c] EXCEPT !.at = "undoNew"]
<1>1. /\ new \in UpdateCommand /\ new.backup = cmd[c].backup /\ new.at = "undoNew"
      /\ new.target = cmd[c].target /\ new.read = cmd[c].read
      /\ new.newInstalled = cmd[c].newInstalled
  BY DEF UpdateInv, UpdateTyped, UpdateCommand, UpdateSteps
<1>2. cmd' = [cmd EXCEPT ![c] = new] /\ cmd'[c] = new
  BY DEF UpdateInv, UpdateTyped, Update!Fails, Update!Step
<1>3. ASSUME excuse = {}
      PROVE  /\ updateLock = <<c>> /\ cmd[c].target # cmd[c].read /\ meta = cmd[c].read
             /\ app = <<>> \/ (app = Update!Tree(cmd[c].target) /\ cmd[c].newInstalled)
  <2>1. SwapSound(c)
    BY <1>3 DEF UpdateInv
  <2> QED
    BY <1>0, <2>1 DEF SwapSound, SwapsAlone, StillPlanned, SwapInStep
<1>4. ASSUME excuse = {} PROVE SwapSound(c)'
  <2> HIDE DEF new
  <2> QED
    BY <1>0, <1>1, <1>2, <1>3, <1>4 DEF SwapSound, SwapsAlone, StillPlanned, SwapInStep
<1> HIDE DEF new
<1>5. Update!RecordedKept'
  BY <1>0, <1>1, <1>2, StaysRecorded
<1> QED
  BY <1>0, <1>t, <1>1, <1>2, <1>4, <1>5, SwapperSteps

\* The one way out the excuse is for.
LEMMA RemoveOldFailsKeeps ==
    ASSUME UpdateInv, NEW c \in UpdateCommands, Update!RemoveOldFails(c)
    PROVE  UpdateInv'
<1>1. cmd[c].at = "removeOld" /\ UNCHANGED <<app, meta, updateLock>> /\ excuse' # {}
  BY DEF Update!RemoveOldFails
<1>2. PICK left \in {cmd[c].backup, Update!Torn(cmd[c].backup)} :
        cmd' = [cmd EXCEPT ![c].at = "undoNew", ![c].backup = left]
  BY DEF Update!RemoveOldFails
<1> DEFINE new == [cmd[c] EXCEPT !.at = "undoNew", !.backup = left]
<1>3. cmd[c] \in UpdateCommand /\ cmd[c].backup \in Trees
  BY DEF UpdateInv, UpdateTyped, UpdateCommand
<1>4. CASE left \in Trees
  <2>1. new \in UpdateCommand
    BY <1>3, <1>4 DEF UpdateCommand, UpdateSteps
  <2>2. cmd' = [cmd EXCEPT ![c] = new]
    BY <1>2 DEF UpdateInv, UpdateTyped
  <2>3. UpdateTyped'
    BY <1>1, <2>1, <2>2 DEF UpdateInv, UpdateTyped
  <2> QED
    BY <1>1, <2>3 DEF UpdateInv, Update!RecordedKept
<1>5. left \in Trees
  <2>1. CASE left = cmd[c].backup
    BY <1>3, <2>1
  <2>2. CASE left = Update!Torn(cmd[c].backup)
    <3>1. cmd[c].backup # <<>>
      BY <1>1, <1>3 DEF UpdateCommand
    <3>2. PICK t \in [commit : Releases \cup {Installed}, whole : BOOLEAN] :
            cmd[c].backup = <<t>>
      BY <1>3, <3>1 DEF Trees
    <3>3. left = <<[t EXCEPT !.whole = FALSE]>>
      BY <2>2, <3>2 DEF Update!Torn
    <3> QED
      BY <3>3 DEF Trees
  <2> QED
    BY <2>1, <2>2
<1> QED
  BY <1>4, <1>5

LEMMA UndoNewKeeps ==
    ASSUME UpdateInv, NEW c \in UpdateCommands, Update!UndoNew(c)
    PROVE  UpdateInv'
<1>0. /\ cmd[c].at = "undoNew" /\ cmd[c].at \in Swapping
      /\ UNCHANGED <<meta, updateLock, excuse>>
  BY DEF Update!UndoNew, Swapping, UpdateSteps
<1>3. ASSUME excuse = {}
      PROVE  /\ updateLock = <<c>> /\ cmd[c].target # cmd[c].read /\ meta = cmd[c].read
             /\ app = <<>> \/ (app = Update!Tree(cmd[c].target) /\ cmd[c].newInstalled)
  <2>1. SwapSound(c)
    BY <1>3 DEF UpdateInv
  <2> QED
    BY <1>0, <2>1 DEF SwapSound, SwapsAlone, StillPlanned, SwapInStep
<1>4. ASSUME NEW new \in UpdateCommand, cmd' = [cmd EXCEPT ![c] = new], new.at = "undoOld",
             new.backup = cmd[c].backup, new.target = cmd[c].target, new.read = cmd[c].read,
             app' \in Trees, excuse = {} => app' = <<>>,
             excuse = {} => app' = app \/ app # Update!Tree(meta)
      PROVE  UpdateInv'
  <2>1. cmd'[c] = new
    BY <1>4 DEF UpdateInv, UpdateTyped
  <2>2. ASSUME excuse = {} PROVE SwapSound(c)'
    BY <1>0, <1>3, <1>4, <2>1, <2>2 DEF SwapSound, SwapsAlone, StillPlanned, SwapInStep
  <2>3. Update!RecordedKept'
    BY <1>0, <1>4, StaysRecorded
  <2>4. meta' \in Releases \cup {Installed}
    BY <1>0 DEF UpdateInv, UpdateTyped
  <2> QED
    BY <1>0, <1>4, <2>2, <2>3, <2>4, SwapperSteps
<1>5. CASE cmd[c].newInstalled /\ app # <<>>
  <2> DEFINE new == [cmd[c] EXCEPT !.at = "undoOld", !.failed = app]
  <2>1. /\ new \in UpdateCommand /\ new.at = "undoOld" /\ new.backup = cmd[c].backup
        /\ new.target = cmd[c].target /\ new.read = cmd[c].read
    BY DEF UpdateInv, UpdateTyped, UpdateCommand, UpdateSteps
  <2>2. cmd' = [cmd EXCEPT ![c] = new] /\ app' = <<>>
    BY <1>5 DEF UpdateInv, UpdateTyped, Update!UndoNew
  <2>3. excuse = {} => app # Update!Tree(meta)
    BY <1>3, <1>5, TreesDiffer
  <2> HIDE DEF new
  <2> QED
    BY <1>4, <2>1, <2>2, <2>3 DEF Trees
<1>6. CASE ~ (cmd[c].newInstalled /\ app # <<>>)
  <2> DEFINE new == [cmd[c] EXCEPT !.at = "undoOld"]
  <2>1. /\ new \in UpdateCommand /\ new.at = "undoOld" /\ new.backup = cmd[c].backup
        /\ new.target = cmd[c].target /\ new.read = cmd[c].read
    BY DEF UpdateInv, UpdateTyped, UpdateCommand, UpdateSteps
  <2>2. cmd' = [cmd EXCEPT ![c] = new] /\ app' = app
    BY <1>6 DEF UpdateInv, UpdateTyped, Update!UndoNew, Update!Step
  <2>3. app' \in Trees /\ (excuse = {} => app' = <<>>)
    BY <1>3, <1>6, <2>2, TreeIsThere DEF UpdateInv, UpdateTyped
  <2> HIDE DEF new
  <2> QED
    BY <1>4, <2>1, <2>2, <2>3
<1> QED
  BY <1>5, <1>6

LEMMA UndoOldKeeps ==
    ASSUME UpdateInv, NEW c \in UpdateCommands, Update!UndoOld(c)
    PROVE  UpdateInv'
<1>0. /\ cmd[c].at = "undoOld" /\ cmd[c].at \in Swapping /\ UNCHANGED <<meta, excuse>>
      /\ meta' \in Releases \cup {Installed} /\ excuse \subseteq excuse'
  BY DEF UpdateInv, UpdateTyped, Update!UndoOld, Swapping, UpdateSteps
<1>3. excuse = {} => updateLock = <<c>> /\ cmd[c].target # cmd[c].read /\ app = <<>>
  BY <1>0 DEF UpdateInv, SwapSound, SwapsAlone, StillPlanned, SwapInStep
<1>4. CASE app = <<>>
  <2> DEFINE new == [cmd[c] EXCEPT !.at = "recheck", !.backup = <<>>, !.failed = <<>>]
  <2>1. /\ new \in UpdateCommand /\ new.at = "recheck" /\ new.backup = <<>>
        /\ new.target = cmd[c].target /\ new.read = cmd[c].read
    BY ZenonT(60) DEF UpdateInv, UpdateTyped, UpdateCommand, UpdateSteps, Trees
  <2>2. /\ cmd' = [cmd EXCEPT ![c] = new] /\ cmd'[c] = new /\ UNCHANGED updateLock
        /\ app' = cmd[c].backup
    BY <1>4 DEF UpdateInv, UpdateTyped, Update!UndoOld
  <2>t. app' \in Trees
    BY <2>2 DEF UpdateInv, UpdateTyped, UpdateCommand
  <2> HIDE DEF new
  <2>3. ASSUME excuse = {} PROVE SwapSound(c)'
    BY <1>0, <1>3, <2>1, <2>2, <2>3 DEF SwapSound, SwapsAlone, StillPlanned, SwapInStep
  <2>4. Update!RecordedKept'
    BY <1>0, <1>4, <2>1, <2>2, TreeIsThere, StaysRecorded
  <2> QED
    BY <1>0, <2>1, <2>2, <2>t, <2>3, <2>4, SwapperSteps
<1>5. CASE app # <<>>
  <2> DEFINE new == [cmd[c] EXCEPT !.at = "idle", !.stage = <<>>]
  <2>1. new \in UpdateCommand
    BY ZenonT(60) DEF UpdateInv, UpdateTyped, UpdateCommand, UpdateSteps, Trees
  <2>2. cmd' = [cmd EXCEPT ![c] = new] /\ app' = app /\ app' \in Trees
    BY <1>5 DEF UpdateInv, UpdateTyped, Update!UndoOld
  <2>3. excuse' # {}
    BY <1>0, <1>3, <1>5
  <2> HIDE DEF new
  <2> QED
    BY <1>0, <2>1, <2>2, <2>3, SwapperSteps DEF Update!RecordedKept
<1> QED
  BY <1>4, <1>5

LEMMA UpdateSteady ==
    ASSUME UpdateInv, UNCHANGED updateVars
    PROVE  UpdateInv'
BY DEF UpdateInv, UpdateTyped, SwapSound, SwapsAlone, StillPlanned, SwapInStep,
  Update!RecordedKept, updateVars

LEMMA UpdateKept ==
    ASSUME UpdateInv, Update!Next
    PROVE  UpdateInv'
BY PlanKeeps, StageKeeps, GiveUpKeeps, CrashKeeps, LockKeeps, RereadKeeps, MoveOldKeeps,
  MoveNewKeeps, CheckKeeps, CommitKeeps, EndsKeep, FailsKeeps, RemoveOldFailsKeeps, UndoNewKeeps,
  UndoOldKeeps DEF Update!Next, Update!Working

LEMMA QuietRecorded ==
    ASSUME UpdateInv PROVE Update!QuietIsRecorded
<1> SUFFICES ASSUME excuse = {}, \A c \in UpdateCommands : cmd[c].at \in {"idle", "stage", "lock"}
             PROVE app = Update!Tree(meta)
  BY DEF Update!QuietIsRecorded
<1>1. \A c \in UpdateCommands : cmd[c].backup = <<>>
  BY DEF UpdateInv, SwapSound, SwapInStep
<1> QED
  BY <1>1, TreeIsThere DEF UpdateInv, Update!RecordedKept

LEMMA PlannedCommitted ==
    ASSUME UpdateInv PROVE Update!CommitsPlanned
BY DEF UpdateInv, Update!CommitsPlanned, SwapSound, StillPlanned

----------------------------------------------------------------------------
(* Installed skills.  While one command works on a copy, the copy is where *)
(* the command's step says; a second one, or a crash between the old copy  *)
(* and the new record, tears it from its record.                           *)

SkillContents == [v : Nat, edits : Nat]
SourceContents == [v : Nat \ {0}, edits : {0}]
SkillCopies == {<<>>} \cup {<<x>> : x \in SkillContents}
SkillRecords ==
    {<<>>} \cup {<<r>> : r \in [rev : Nat, base : SourceContents, seen : SkillContents]}

SkillStepsOf == {"prepare", "stage", "drop", "place", "save"}

SkillWork ==
    [op : {"add", "update", "remove", "setup"}, key : Copies, force : BOOLEAN,
     step : SkillStepsOf, rev : Nat, was : SkillRecords, saw : SkillCopies, new : Nat,
     file : [Copies -> SkillRecords]]

\* What a command knows by the step it is at: the version it will put in place, and
\* that it saw no copy, or none a user wrote in.
Prepared(w) ==
    /\ w.op = "update" => w.was # <<>>
    /\ w.step = "prepare" => w.saw = <<>>
    /\ w.step = "stage" => w.op \in {"add", "update"} /\ w.rev # 0
    /\ w.step \in {"drop", "place"} => w.op # "remove" /\ w.new # 0
    /\ w.step = "save" => w.op = "remove" \/ w.new # 0
    /\ w.step \in {"stage", "drop", "place"} =>
         /\ w.op = "setup" \/ (w.op = "add" /\ ~ w.force) => w.saw = <<>>
         /\ w.op = "update" => w.saw = <<>> \/ ~ Skills!Mine(w.saw[1])

SkillsTyped ==
    /\ source \in Nat \ {0}
    /\ copy \in [Copies -> SkillCopies]
    /\ records \in [Copies -> SkillRecords]
    /\ command \in [SkillCommands -> SkillWork \cup {Skills!Idle}]
    /\ \A c \in SkillCommands : command[c] # Skills!Idle => Prepared(command[c])

WorksOn(c, k) == command[c] # Skills!Idle /\ command[c].key = k

\* What RecordsTrue says of one copy.
CopyMatches(k) ==
    /\ records[k] = <<>> => copy[k] = <<>> \/ copy[k][1].v = 0
    /\ records[k] # <<>> => copy[k] # <<>>
    /\ records[k] # <<>> /\ k \notin preserved => copy[k][1].v = records[k][1].base.v

\* How far a command has brought the copy it works on.
CopyInStep(c) ==
    LET w == command[c] k == command[c].key
    IN /\ w.step = "prepare" => w.was = records[k]
       /\ w.step \in {"prepare", "stage", "drop"} => CopyMatches(k)
       /\ w.step = "place" => copy[k] = <<>>
       /\ w.step = "save" /\ w.op = "remove" => copy[k] = <<>>
       /\ w.step = "save" /\ w.op = "setup" /\ w.saw # <<>> => copy[k] # <<>> /\ k \in preserved
       /\ w.step = "save" /\ ~ (w.op = "remove" \/ (w.op = "setup" /\ w.saw # <<>>)) =>
            copy[k] # <<>> /\ copy[k][1].v = w.new

\* One command at a time works on a copy that is not torn, and what it leaves agrees
\* with its record.
KeySound(k) ==
    k \notin torn =>
      /\ \A c, d \in SkillCommands : WorksOn(c, k) /\ WorksOn(d, k) => c = d
      /\ \A c \in SkillCommands : WorksOn(c, k) => CopyInStep(c)
      /\ (\A c \in SkillCommands : ~ WorksOn(c, k)) => CopyMatches(k)

SkillsInv ==
    /\ SkillsTyped
    /\ \A k \in Copies : KeySound(k)
    /\ Skills!RefusalsExcused

LEMMA WorkIsNotIdle ==
    ASSUME NEW w \in SkillWork PROVE w # Skills!Idle
<1>1. w.op # "none"
  BY DEF SkillWork
<1>2. Skills!Idle.op = "none"
  BY DEF Skills!Idle
<1> QED
  BY <1>1, <1>2

LEMMA SkillsStart ==
    ASSUME Skills!Init PROVE SkillsInv
<1>1. SkillsTyped
  BY DEF Skills!Init, SkillsTyped, SkillCopies, SkillRecords
<1>2. \A k \in Copies : KeySound(k)
  BY DEF Skills!Init, KeySound, WorksOn, CopyMatches
<1> QED
  BY <1>1, <1>2 DEF SkillsInv, Skills!Init, Skills!RefusalsExcused

\* A step of a command at work: of other copies than its own nothing changes but what
\* tears them, and of its own it is to be shown that it is in step.
LEMMA WorkerKeepsKeys ==
    ASSUME SkillsInv, NEW c \in SkillCommands, NEW own \in Copies, WorksOn(c, own),
           NEW new \in SkillWork \cup {Skills!Idle}, command' = [command EXCEPT ![c] = new],
           new # Skills!Idle => new.key = own,
           torn \subseteq torn', preserved' \ {own} = preserved \ {own},
           \A k \in Copies \ {own} : copy'[k] = copy[k],
           \A k \in Copies \ torn' : k # own => records'[k] = records[k],
           own \notin torn' /\ new = Skills!Idle => CopyMatches(own)',
           own \notin torn' /\ new # Skills!Idle => CopyInStep(c)'
    PROVE  \A k \in Copies : KeySound(k)'
<1> SUFFICES ASSUME NEW k \in Copies, k \notin torn'
             PROVE /\ \A a, b \in SkillCommands : WorksOn(a, k)' /\ WorksOn(b, k)' => a = b
                   /\ \A a \in SkillCommands : WorksOn(a, k)' => CopyInStep(a)'
                   /\ (\A a \in SkillCommands : ~ WorksOn(a, k)') => CopyMatches(k)'
  BY DEF KeySound
<1>1. /\ \A a, b \in SkillCommands : WorksOn(a, k) /\ WorksOn(b, k) => a = b
      /\ \A a \in SkillCommands : WorksOn(a, k) => CopyInStep(a)
      /\ (\A a \in SkillCommands : ~ WorksOn(a, k)) => CopyMatches(k)
  BY DEF SkillsInv, KeySound
<1>2. command'[c] = new /\ \A a \in SkillCommands : a # c => command'[a] = command[a]
  BY DEF SkillsInv, SkillsTyped
<1>3. \A a \in SkillCommands : WorksOn(a, k)' => WorksOn(a, k)
  BY <1>2 DEF WorksOn
<1>4. \A a \in SkillCommands : a # c /\ WorksOn(a, k) => WorksOn(a, k)'
  BY <1>2 DEF WorksOn
<1>5. CASE k = own
  <2>1. WorksOn(c, k)
    BY <1>5
  <2>2. \A a \in SkillCommands : WorksOn(a, k)' => a = c
    BY <1>1, <1>3, <2>1
  <2>3. WorksOn(c, k)' => new # Skills!Idle
    BY <1>2 DEF WorksOn
  <2>4. new # Skills!Idle => WorksOn(c, k)'
    BY <1>2, <1>5 DEF WorksOn
  <2> QED
    BY <1>5, <2>2, <2>3, <2>4
<1>6. CASE k # own
  <2>1. ~ WorksOn(c, k)
    BY <1>6 DEF WorksOn
  <2>2. copy'[k] = copy[k] /\ records'[k] = records[k] /\ (k \in preserved' <=> k \in preserved)
    BY <1>6
  <2>3. CopyMatches(k) => CopyMatches(k)'
    BY <2>2 DEF CopyMatches
  <2>4. ASSUME NEW a \in SkillCommands, WorksOn(a, k)' PROVE CopyInStep(a)'
    <3>1. a # c /\ command'[a] = command[a] /\ command[a].key = k /\ CopyInStep(a)
      BY <1>1, <1>2, <1>3, <2>1, <2>4 DEF WorksOn
    <3> QED
      BY <2>2, <2>3, <3>1 DEF CopyInStep
  <2> QED
    BY <1>1, <1>3, <1>4, <2>1, <2>3, <2>4
<1> QED
  BY <1>5, <1>6

LEMMA WorkerKnown ==
    ASSUME SkillsInv, NEW c \in SkillCommands, command[c] # Skills!Idle
    PROVE  /\ command[c] \in SkillWork /\ Prepared(command[c])
           /\ command[c].key \in Copies /\ WorksOn(c, command[c].key)
           /\ command[c].key \notin torn => CopyInStep(c)
<1>1. command[c] \in SkillWork /\ Prepared(command[c])
  BY DEF SkillsInv, SkillsTyped
<1>2. command[c].key \in Copies /\ WorksOn(c, command[c].key)
  BY <1>1 DEF SkillWork, WorksOn
<1> QED
  BY <1>1, <1>2 DEF SkillsInv, KeySound

\* What is to be shown of a command's step.
LEMMA WorkerSteps ==
    ASSUME SkillsInv, NEW c \in SkillCommands, NEW own \in Copies, WorksOn(c, own),
           NEW new \in SkillWork \cup {Skills!Idle}, command' = [command EXCEPT ![c] = new],
           new # Skills!Idle => new.key = own /\ Prepared(new),
           source' = source, copy' \in [Copies -> SkillCopies],
           records' \in [Copies -> SkillRecords],
           torn \subseteq torn', preserved' \ {own} = preserved \ {own},
           \A k \in Copies \ {own} : copy'[k] = copy[k],
           \A k \in Copies \ torn' : k # own => records'[k] = records[k],
           own \notin torn' /\ new = Skills!Idle => CopyMatches(own)',
           own \notin torn' /\ new # Skills!Idle => CopyInStep(c)',
           Skills!RefusalsExcused'
    PROVE  SkillsInv'
<1>1. \A k \in Copies : KeySound(k)'
  BY WorkerKeepsKeys
<1>2. ASSUME NEW d \in SkillCommands
      PROVE  /\ command'[d] \in SkillWork \cup {Skills!Idle}
             /\ command'[d] # Skills!Idle => Prepared(command'[d])
  BY DEF SkillsInv, SkillsTyped
<1>3. SkillsTyped'
  <2>1. command' \in [SkillCommands -> SkillWork \cup {Skills!Idle}]
    BY DEF SkillsInv, SkillsTyped
  <2> QED
    BY <1>2, <2>1 DEF SkillsInv, SkillsTyped
<1> QED
  BY <1>1, <1>3 DEF SkillsInv

\* A command that stops at a step where its copy agrees with its record.
LEMMA StopsKeep ==
    ASSUME SkillsInv, NEW c \in SkillCommands, command[c] # Skills!Idle,
           command[c].step \in {"prepare", "stage", "drop"} \/ command[c].key \in torn',
           command' = [command EXCEPT ![c] = Skills!Idle], torn \subseteq torn',
           UNCHANGED <<source, copy, records, preserved>>, Skills!RefusalsExcused'
    PROVE  SkillsInv'
<1> DEFINE own == command[c].key
<1>1. own \in Copies /\ WorksOn(c, own) /\ (own \notin torn => CopyInStep(c))
  BY WorkerKnown
<1>2. own \notin torn' => CopyMatches(own)
  BY <1>1 DEF CopyInStep
<1>3. ASSUME NEW k, k = own, k \notin torn' PROVE CopyMatches(k)'
  BY <1>2, <1>3 DEF CopyMatches
<1>4. copy' \in [Copies -> SkillCopies] /\ records' \in [Copies -> SkillRecords]
  BY DEF SkillsInv, SkillsTyped
<1>5. PICK k \in Copies : k = own
  BY <1>1
<1> HIDE DEF own
<1> QED
  BY <1>1, <1>3, <1>4, <1>5, WorkerSteps

LEMMA StageFailsKeeps ==
    ASSUME SkillsInv, NEW c \in SkillCommands, Skills!StageFails(c)
    PROVE  SkillsInv'
<1>1. command[c] # Skills!Idle /\ command[c].step = "stage"
  BY DEF Skills!StageFails, Skills!At
<1>2. Skills!RefusalsExcused'
  BY DEF Skills!StageFails, SkillsInv, Skills!RefusalsExcused
<1> QED
  BY <1>1, <1>2, StopsKeep DEF Skills!StageFails, Skills!End

LEMMA SkillCrashKeeps ==
    ASSUME SkillsInv, NEW c \in SkillCommands, Skills!Crash(c)
    PROVE  SkillsInv'
<1>1. /\ command[c] # Skills!Idle
      /\ command[c].step \in {"prepare", "stage", "drop"} \/ command[c].key \in torn'
      /\ torn \subseteq torn'
  BY WorkerKnown DEF Skills!Crash, SkillWork, SkillStepsOf
<1>2. Skills!RefusalsExcused'
  BY <1>1 DEF Skills!Crash, SkillsInv, Skills!RefusalsExcused
<1> QED
  BY <1>1, <1>2, StopsKeep DEF Skills!Crash, Skills!End

\* What a command sees of its copy, and goes on to stage another.
LEMMA PreparedKeeps ==
    ASSUME SkillsInv, NEW c \in SkillCommands, Skills!At(c, "prepare"), Skills!Prepared(c),
           command[c].op \in {"add", "update"},
           command[c].op = "add" => copy[command[c].key] = <<>> \/ command[c].force,
           command[c].op = "update" =>
             copy[command[c].key] = <<>> \/ ~ Skills!Mine(copy[command[c].key][1]),
           UNCHANGED <<source, copy, records, torn, preserved>>, Skills!RefusalsExcused'
    PROVE  SkillsInv'
<1>1. /\ command[c] \in SkillWork /\ Prepared(command[c]) /\ command[c] # Skills!Idle
      /\ command[c].key \in Copies /\ WorksOn(c, command[c].key)
      /\ command[c].key \notin torn => CopyInStep(c)
      /\ command[c].step = "prepare"
  BY WorkerKnown DEF Skills!At
<1>2. PICK own \in Copies : own = command[c].key
  BY <1>1
<1> DEFINE new == [command[c] EXCEPT !.step = "stage", !.rev = source, !.saw = copy[own]]
<1>3. source \in Nat \ {0} /\ copy[own] \in SkillCopies
  BY DEF SkillsInv, SkillsTyped
<1>4. new \in SkillWork
  BY <1>1, <1>3 DEF SkillWork, SkillStepsOf
<1>5. /\ new.key = own /\ new.step = "stage" /\ new.op = command[c].op /\ new.rev = source
      /\ new.saw = copy[own] /\ new.force = command[c].force /\ new.was = command[c].was
  BY <1>1, <1>2 DEF SkillWork
<1>6. command' = [command EXCEPT ![c] = new] /\ command'[c] = new
  BY <1>1, <1>2 DEF Skills!Prepared, SkillsInv, SkillsTyped
<1>7. copy' \in [Copies -> SkillCopies] /\ records' \in [Copies -> SkillRecords]
  BY DEF SkillsInv, SkillsTyped
<1> HIDE DEF new
<1>8. Prepared(new)
  BY <1>1, <1>2, <1>3, <1>5 DEF Prepared
<1>9. own \notin torn' => CopyInStep(c)'
  <2> SUFFICES ASSUME own \notin torn' PROVE CopyInStep(c)'
    OBVIOUS
  <2>1. CopyMatches(own)
    BY <1>1, <1>2 DEF CopyInStep
  <2>2. CopyMatches(own)'
    BY <2>1 DEF CopyMatches
  <2> QED
    BY <1>5, <1>6, <2>2 DEF CopyInStep
<1> QED
  BY <1>1, <1>2, <1>4, <1>5, <1>6, <1>7, <1>8, <1>9, WorkIsNotIdle, WorkerSteps

LEMMA LookAddKeeps ==
    ASSUME SkillsInv, NEW c \in SkillCommands, Skills!LookAdd(c)
    PROVE  SkillsInv'
<1>1. Skills!RefusalsExcused'
  BY DEF Skills!LookAdd, SkillsInv, Skills!RefusalsExcused
<1>2. CASE copy[command[c].key] # <<>> /\ ~ command[c].force
  BY <1>1, <1>2, StopsKeep DEF Skills!LookAdd, Skills!At, Skills!End
<1>3. CASE ~ (copy[command[c].key] # <<>> /\ ~ command[c].force)
  BY <1>1, <1>3, PreparedKeeps DEF Skills!LookAdd
<1> QED
  BY <1>2, <1>3

\* An update takes a copy for unmodified that nobody wrote in, and one it takes for
\* modified although nobody did is torn, or setup recorded it.
LEMMA RefusalKnown ==
    ASSUME SkillsInv, NEW c \in SkillCommands, Skills!At(c, "prepare"), command[c].op = "update"
    PROVE  /\ ~ Skills!LocalModified(c) =>
                copy[command[c].key] = <<>> \/ ~ Skills!Mine(copy[command[c].key][1])
           /\ Skills!LocalModified(c) /\ ~ Skills!Mine(Skills!CopyThen(c)) =>
                command[c].key \in torn \cup preserved
<1>1. /\ command[c] \in SkillWork /\ command[c].was # <<>> /\ command[c].step = "prepare"
      /\ command[c].key \in Copies /\ (command[c].key \notin torn => CopyInStep(c))
  BY WorkerKnown DEF Skills!At, Prepared
<1>2. PICK own \in Copies : own = command[c].key
  BY <1>1
<1>3. PICK r \in [rev : Nat, base : SourceContents, seen : SkillContents] : command[c].was = <<r>>
  BY <1>1 DEF SkillWork, SkillRecords
<1>4. /\ command[c].was[1].base = r.base /\ r.base.v \in Nat \ {0} /\ r.base.edits = 0
      /\ r.base \in SkillContents /\ r.base = [v |-> r.base.v, edits |-> 0]
  BY <1>3 DEF SourceContents, SkillContents
<1>5. ~ Skills!Mine(r.base)
  BY <1>4 DEF Skills!Mine
<1>6. copy[own] \in SkillCopies
  BY DEF SkillsInv, SkillsTyped
<1>7. ~ Skills!LocalModified(c) =>
        copy[command[c].key] = <<>> \/ ~ Skills!Mine(copy[command[c].key][1])
  BY <1>4, <1>5 DEF Skills!LocalModified, Skills!CopyThen
<1>8. ASSUME Skills!LocalModified(c), ~ Skills!Mine(Skills!CopyThen(c)),
             own \notin torn, own \notin preserved
      PROVE  FALSE
  <2>1. records[own] = <<r>> /\ CopyMatches(own)
    BY <1>1, <1>2, <1>3, <1>8 DEF CopyInStep
  <2>2. records[own] # <<>> /\ records[own][1].base = r.base
    BY <2>1
  <2>3. copy[own] # <<>> /\ copy[own][1].v = r.base.v
    BY <1>8, <2>1, <2>2 DEF CopyMatches
  <2>4. PICK x \in SkillContents : copy[own] = <<x>>
    BY <1>6, <2>3 DEF SkillCopies
  <2>5. Skills!CopyThen(c) = x
    BY <1>2, <2>4 DEF Skills!CopyThen
  <2>6. x.v = r.base.v /\ x.v \in Nat /\ x.edits \in Nat /\ x = [v |-> x.v, edits |-> x.edits]
    BY <2>3, <2>4 DEF SkillContents
  <2>7. x.edits = 0
    BY <1>8, <2>5, <2>6 DEF Skills!Mine
  <2>8. x = r.base
    BY <1>4, <2>6, <2>7
  <2> QED
    BY <1>4, <1>8, <2>5, <2>8 DEF Skills!LocalModified
<1> QED
  BY <1>2, <1>7, <1>8

LEMMA LookUpdateKeeps ==
    ASSUME SkillsInv, NEW c \in SkillCommands, Skills!LookUpdate(c)
    PROVE  SkillsInv'
<1>0. Skills!At(c, "prepare") /\ command[c].op = "update" /\ UNCHANGED <<torn, preserved>>
  BY DEF Skills!LookUpdate
<1>1. Skills!RefusalsExcused'
  BY <1>0, RefusalKnown DEF Skills!LookUpdate, SkillsInv, Skills!RefusalsExcused
<1>2. CASE ~ (Skills!Available(c) /\ ~ Skills!LocalModified(c))
  <2>1. command' = [command EXCEPT ![c] = Skills!Idle]
    BY <1>2 DEF Skills!LookUpdate, Skills!End
  <2> QED
    BY <1>0, <1>1, <2>1, StopsKeep DEF Skills!LookUpdate, Skills!At
<1>3. CASE Skills!Available(c) /\ ~ Skills!LocalModified(c)
  <2>1. copy[command[c].key] = <<>> \/ ~ Skills!Mine(copy[command[c].key][1])
    BY <1>0, <1>3, RefusalKnown
  <2>2. Skills!Prepared(c) /\ UNCHANGED <<source, copy, records, torn, preserved>>
    BY <1>3 DEF Skills!LookUpdate
  <2> QED
    BY <1>0, <1>1, <2>1, <2>2, PreparedKeeps
<1> QED
  BY <1>2, <1>3

LEMMA LookSetupKeeps ==
    ASSUME SkillsInv, NEW c \in SkillCommands, Skills!LookSetup(c)
    PROVE  SkillsInv'
<1>1. /\ command[c] \in SkillWork /\ Prepared(command[c]) /\ command[c] # Skills!Idle
      /\ command[c].key \in Copies /\ WorksOn(c, command[c].key)
      /\ command[c].key \notin torn => CopyInStep(c)
      /\ command[c].step = "prepare" /\ command[c].op = "setup"
  BY WorkerKnown DEF Skills!LookSetup, Skills!At
<1>2. PICK own \in Copies : own = command[c].key
  BY <1>1
<1>3. /\ source \in Nat \ {0} /\ copy[own] \in SkillCopies /\ records \in [Copies -> SkillRecords]
      /\ UNCHANGED <<source, copy, records, torn, refused>>
      /\ copy' \in [Copies -> SkillCopies] /\ records' \in [Copies -> SkillRecords]
      /\ command \in [SkillCommands -> SkillWork \cup {Skills!Idle}]
  BY DEF SkillsInv, SkillsTyped, Skills!LookSetup
<1>4. own \notin torn => CopyMatches(own)
  BY <1>1, <1>2 DEF CopyInStep
<1>5. CASE copy[own] = <<>>
  <2> DEFINE new == [command[c] EXCEPT !.step = "drop", !.rev = source, !.new = source]
  <2>0. command' = [command EXCEPT ![c] = new] /\ preserved' = preserved
    BY <1>2, <1>3, <1>5 DEF Skills!LookSetup
  <2>1. new \in SkillWork
    BY <1>1, <1>3 DEF SkillWork, SkillStepsOf
  <2>2. /\ new.key = own /\ new.step = "drop" /\ new.op = "setup" /\ new.new = source
        /\ new.saw = command[c].saw
    BY <1>1, <1>2 DEF SkillWork
  <2>3. new.saw = <<>>
    BY <1>1, <2>2 DEF Prepared
  <2>4. command'[c] = new
    BY <1>3, <2>0
  <2> HIDE DEF new
  <2>5. Prepared(new)
    BY <1>3, <2>2, <2>3 DEF Prepared
  <2>6. own \notin torn' => CopyInStep(c)'
    <3>1. CopyMatches(own) => CopyMatches(own)'
      BY <1>3, <2>0 DEF CopyMatches
    <3> QED
      BY <1>3, <1>4, <2>2, <2>4, <3>1 DEF CopyInStep
  <2>7. Skills!RefusalsExcused'
    BY <1>3, <2>0 DEF SkillsInv, Skills!RefusalsExcused
  <2> QED
    BY <1>1, <1>2, <1>3, <2>0, <2>1, <2>2, <2>5, <2>6, <2>7, WorkIsNotIdle, WorkerSteps
<1>6. CASE copy[own] # <<>>
  <2> DEFINE new == [command[c] EXCEPT !.step = "save", !.rev = source, !.new = source,
                       !.saw = copy[own], !.file = records]
  <2>0. command' = [command EXCEPT ![c] = new] /\ preserved' = preserved \cup {own}
    BY <1>2, <1>3, <1>6 DEF Skills!LookSetup
  <2>1. new \in SkillWork
    BY <1>1, <1>3 DEF SkillWork, SkillStepsOf
  <2>2. /\ new.key = own /\ new.step = "save" /\ new.op = "setup" /\ new.new = source
        /\ new.saw = copy[own] /\ new.was = command[c].was
    BY <1>1, <1>2 DEF SkillWork
  <2>3. Prepared(new)
    <3>1. command[c].op # "update" /\ new.op # "update"
      BY <1>1, <2>2
    <3> HIDE DEF new
    <3> QED
      BY <1>3, <2>2 DEF Prepared
  <2>4. command'[c] = new
    BY <1>3, <2>0
  <2> HIDE DEF new
  <2>5. CopyInStep(c)'
    BY <1>3, <1>6, <2>0, <2>2, <2>4 DEF CopyInStep
  <2>6. Skills!RefusalsExcused' /\ preserved' \ {own} = preserved \ {own}
    BY <1>3, <2>0 DEF SkillsInv, Skills!RefusalsExcused
  <2> QED
    BY <1>1, <1>2, <1>3, <2>0, <2>1, <2>2, <2>3, <2>5, <2>6, WorkIsNotIdle, WorkerSteps
<1> QED
  BY <1>5, <1>6

LEMMA SkillStageKeeps ==
    ASSUME SkillsInv, NEW c \in SkillCommands, Skills!Stage(c)
    PROVE  SkillsInv'
<1>1. /\ command[c] \in SkillWork /\ Prepared(command[c]) /\ command[c] # Skills!Idle
      /\ command[c].key \in Copies /\ WorksOn(c, command[c].key)
      /\ command[c].key \notin torn => CopyInStep(c)
      /\ command[c].step = "stage"
  BY WorkerKnown DEF Skills!Stage, Skills!At
<1>2. PICK own \in Copies : own = command[c].key
  BY <1>1
<1>3. /\ UNCHANGED <<source, copy, records, torn, preserved, refused>>
      /\ copy' \in [Copies -> SkillCopies] /\ records' \in [Copies -> SkillRecords]
      /\ command \in [SkillCommands -> SkillWork \cup {Skills!Idle}] /\ source \in Nat \ {0}
  BY DEF SkillsInv, SkillsTyped, Skills!Stage
<1>4. PICK v \in {command[c].rev, source} :
        command' = [command EXCEPT ![c].step = "drop", ![c].new = v]
  BY DEF Skills!Stage
<1> DEFINE new == [command[c] EXCEPT !.step = "drop", !.new = v]
<1>5. command' = [command EXCEPT ![c] = new] /\ command'[c] = new
  BY <1>3, <1>4
<1>6. v \in Nat \ {0}
  BY <1>1, <1>3, <1>4 DEF Prepared, SkillWork
<1>7. /\ new \in SkillWork /\ new.key = own /\ new.step = "drop" /\ new.op = command[c].op
      /\ new.new = v /\ new.saw = command[c].saw /\ new.was = command[c].was
      /\ new.force = command[c].force
  BY <1>1, <1>2, <1>6 DEF SkillWork, SkillStepsOf
<1> HIDE DEF new
<1>8. Prepared(new)
  BY <1>1, <1>6, <1>7 DEF Prepared
<1>9. own \notin torn' => CopyInStep(c)'
  <2>1. own \notin torn => CopyMatches(own)
    BY <1>1, <1>2 DEF CopyInStep
  <2>2. CopyMatches(own) => CopyMatches(own)'
    BY <1>3 DEF CopyMatches
  <2> QED
    BY <1>3, <1>5, <1>7, <2>1, <2>2 DEF CopyInStep
<1>10. Skills!RefusalsExcused'
  BY <1>3 DEF SkillsInv, Skills!RefusalsExcused
<1> QED
  BY <1>1, <1>2, <1>3, <1>5, <1>7, <1>8, <1>9, <1>10, WorkIsNotIdle, WorkerSteps

LEMMA DropKeeps ==
    ASSUME SkillsInv, NEW c \in SkillCommands, Skills!Drop(c)
    PROVE  SkillsInv'
<1>1. /\ command[c] \in SkillWork /\ Prepared(command[c]) /\ command[c] # Skills!Idle
      /\ command[c].key \in Copies /\ WorksOn(c, command[c].key)
      /\ command[c].step = "drop"
  BY WorkerKnown DEF Skills!Drop, Skills!At
<1>2. PICK own \in Copies : own = command[c].key
  BY <1>1
<1>3. /\ UNCHANGED <<source, records, torn, preserved, refused>>
      /\ copy' = [copy EXCEPT ![own] = <<>>] /\ copy \in [Copies -> SkillCopies]
      /\ records' \in [Copies -> SkillRecords]
      /\ command \in [SkillCommands -> SkillWork \cup {Skills!Idle}]
  BY <1>2 DEF SkillsInv, SkillsTyped, Skills!Drop
<1>4. copy' \in [Copies -> SkillCopies]
  BY <1>3 DEF SkillCopies
<1> DEFINE new == [command[c] EXCEPT !.step = "place"]
<1>5. command' = [command EXCEPT ![c] = new] /\ command'[c] = new
  BY <1>3 DEF Skills!Drop, Skills!To
<1>6. /\ new \in SkillWork /\ new.key = own /\ new.step = "place" /\ new.op = command[c].op
      /\ new.new = command[c].new /\ new.saw = command[c].saw /\ new.was = command[c].was
      /\ new.force = command[c].force
  BY <1>1, <1>2 DEF SkillWork, SkillStepsOf
<1> HIDE DEF new
<1>7. Prepared(new)
  BY <1>1, <1>6 DEF Prepared
<1>8. CopyInStep(c)'
  BY <1>3, <1>5, <1>6 DEF CopyInStep
<1>9. Skills!RefusalsExcused'
  BY <1>3 DEF SkillsInv, Skills!RefusalsExcused
<1> QED
  BY <1>1, <1>2, <1>3, <1>4, <1>5, <1>6, <1>7, <1>8, <1>9, WorkIsNotIdle, WorkerSteps

LEMMA RemoveCopyKeeps ==
    ASSUME SkillsInv, NEW c \in SkillCommands, Skills!RemoveCopy(c)
    PROVE  SkillsInv'
<1>1. /\ command[c] \in SkillWork /\ Prepared(command[c]) /\ command[c] # Skills!Idle
      /\ command[c].key \in Copies /\ WorksOn(c, command[c].key)
      /\ command[c].op = "remove"
  BY WorkerKnown DEF Skills!RemoveCopy, Skills!At
<1>2. PICK own \in Copies : own = command[c].key
  BY <1>1
<1>3. /\ UNCHANGED <<source, records, torn, preserved, refused>>
      /\ copy' = [copy EXCEPT ![own] = <<>>] /\ copy \in [Copies -> SkillCopies]
      /\ records \in [Copies -> SkillRecords]
      /\ command \in [SkillCommands -> SkillWork \cup {Skills!Idle}]
  BY <1>2 DEF SkillsInv, SkillsTyped, Skills!RemoveCopy
<1>4. copy' \in [Copies -> SkillCopies]
  BY <1>3 DEF SkillCopies
<1> DEFINE new == [command[c] EXCEPT !.step = "save", !.file = records]
<1>5. command' = [command EXCEPT ![c] = new] /\ command'[c] = new
  BY <1>3 DEF Skills!RemoveCopy
<1>6. /\ new \in SkillWork /\ new.key = own /\ new.step = "save" /\ new.op = "remove"
      /\ new.was = command[c].was
  BY <1>1, <1>2, <1>3 DEF SkillWork, SkillStepsOf
<1> HIDE DEF new
<1>7. Prepared(new)
  BY <1>6 DEF Prepared
<1>8. CopyInStep(c)'
  BY <1>3, <1>5, <1>6 DEF CopyInStep
<1>9. Skills!RefusalsExcused'
  BY <1>3 DEF SkillsInv, Skills!RefusalsExcused
<1> QED
  BY <1>1, <1>2, <1>3, <1>4, <1>5, <1>6, <1>7, <1>8, <1>9, WorkIsNotIdle, WorkerSteps

LEMMA PlaceKeeps ==
    ASSUME SkillsInv, NEW c \in SkillCommands, Skills!Place(c)
    PROVE  SkillsInv'
<1>1. /\ command[c] \in SkillWork /\ Prepared(command[c]) /\ command[c] # Skills!Idle
      /\ command[c].key \in Copies /\ WorksOn(c, command[c].key)
      /\ command[c].key \notin torn => CopyInStep(c)
      /\ command[c].step = "place" /\ command[c].op # "remove" /\ command[c].new # 0
  BY WorkerKnown DEF Skills!Place, Skills!At, Prepared
<1>2. PICK own \in Copies : own = command[c].key
  BY <1>1
<1>3. /\ UNCHANGED <<source, records, torn, preserved, refused>>
      /\ copy \in [Copies -> SkillCopies] /\ records \in [Copies -> SkillRecords]
      /\ command \in [SkillCommands -> SkillWork \cup {Skills!Idle}]
  BY DEF SkillsInv, SkillsTyped, Skills!Place
<1>4. own \notin torn => copy[own] = <<>>
  BY <1>1, <1>2 DEF CopyInStep
<1>5. Skills!RefusalsExcused'
  BY <1>3 DEF SkillsInv, Skills!RefusalsExcused
<1>6. CASE copy[own] # <<>>
  <2>1. /\ command' = [command EXCEPT ![c] = Skills!Idle] /\ UNCHANGED copy
        /\ command[c].key \in torn'
    BY <1>2, <1>3, <1>4, <1>6 DEF Skills!Place, Skills!End
  <2> QED
    BY <1>1, <1>3, <1>5, <2>1, StopsKeep DEF Skills!Place
<1>7. CASE copy[own] = <<>>
  <2> DEFINE new == [command[c] EXCEPT !.step = "save", !.file = records]
             made == Skills!Content(command[c].new, 0)
  <2>1. command' = [command EXCEPT ![c] = new] /\ command'[c] = new
    BY <1>2, <1>3, <1>7 DEF Skills!Place
  <2>2. copy' = [copy EXCEPT ![own] = <<made>>]
    BY <1>2, <1>7 DEF Skills!Place
  <2>3. made \in SkillContents /\ made.v = command[c].new
    BY <1>1 DEF SkillWork, SkillContents, Skills!Content
  <2>4. /\ new \in SkillWork /\ new.key = own /\ new.step = "save" /\ new.op = command[c].op
        /\ new.new = command[c].new /\ new.saw = command[c].saw /\ new.was = command[c].was
        /\ new.force = command[c].force
    BY <1>1, <1>2, <1>3 DEF SkillWork, SkillStepsOf
  <2> HIDE DEF new, made
  <2>5. copy' \in [Copies -> SkillCopies] /\ copy'[own] = <<made>>
    BY <1>3, <2>2, <2>3 DEF SkillCopies
  <2>6. Prepared(new)
    BY <1>1, <2>4 DEF Prepared
  <2>7. CopyInStep(c)'
    <3>1. copy'[own] # <<>> /\ copy'[own][1].v = command[c].new
      BY <2>3, <2>5
    <3>2. ~ (new.op = "setup" /\ new.saw # <<>>) /\ new.op # "remove"
      BY <1>1, <2>4 DEF Prepared
    <3> QED
      BY <2>1, <2>4, <3>1, <3>2 DEF CopyInStep
  <2>8. \A k \in Copies \ {own} : copy'[k] = copy[k]
    BY <1>3, <2>2
  <2>9. source' = source /\ records' \in [Copies -> SkillRecords]
    BY <1>3
  <2> QED
    BY <1>1, <1>2, <1>3, <1>5, <2>1, <2>4, <2>5, <2>6, <2>7, <2>8, <2>9, WorkIsNotIdle,
      WorkerSteps
<1> QED
  BY <1>6, <1>7

\* What a command records is what it has put in place, or what setup found.
LEMMA WrittenTyped ==
    ASSUME SkillsInv, NEW c \in SkillCommands, Skills!At(c, "save")
    PROVE  /\ Skills!Written(c) \in SkillRecords
           /\ command[c].op = "remove" => Skills!Written(c) = <<>>
           /\ command[c].op # "remove" =>
                Skills!Written(c) # <<>> /\ Skills!Written(c)[1].base.v = command[c].new
<1>1. /\ command[c] \in SkillWork /\ Prepared(command[c]) /\ command[c].step = "save"
  BY WorkerKnown DEF Skills!At
<1>2. CASE command[c].op = "remove"
  BY <1>2 DEF Skills!Written, SkillRecords
<1>3. CASE command[c].op # "remove"
  <2> DEFINE made == Skills!Content(command[c].new, 0)
  <2>1. made \in SourceContents /\ made \in SkillContents /\ made.v = command[c].new
    BY <1>1, <1>3 DEF Prepared, SkillWork, SourceContents, SkillContents, Skills!Content
  <2>2. command[c].rev \in Nat
    BY <1>1 DEF SkillWork
  <2>3. CASE command[c].op = "setup" /\ command[c].saw # <<>>
    <3>1. PICK x \in SkillContents : command[c].saw = <<x>>
      BY <1>1, <2>3 DEF SkillWork, SkillCopies
    <3>2. Skills!Written(c) = <<[rev |-> command[c].rev, base |-> made, seen |-> x]>>
      BY <1>3, <2>3, <3>1 DEF Skills!Written, Skills!Record
    <3> HIDE DEF made
    <3> QED
      BY <1>3, <2>1, <2>2, <3>2 DEF SkillRecords
  <2>4. CASE ~ (command[c].op = "setup" /\ command[c].saw # <<>>)
    <3>1. Skills!Written(c) = <<[rev |-> command[c].rev, base |-> made, seen |-> made]>>
      BY <1>3, <2>4 DEF Skills!Written, Skills!Record
    <3> HIDE DEF made
    <3> QED
      BY <1>3, <2>1, <2>2, <3>1 DEF SkillRecords
  <2> QED
    BY <2>3, <2>4
<1> QED
  BY <1>2, <1>3

LEMMA SaveKeeps ==
    ASSUME SkillsInv, NEW c \in SkillCommands, Skills!Save(c)
    PROVE  SkillsInv'
<1>1. /\ command[c] \in SkillWork /\ Prepared(command[c]) /\ command[c] # Skills!Idle
      /\ command[c].key \in Copies /\ WorksOn(c, command[c].key)
      /\ command[c].key \notin torn => CopyInStep(c)
      /\ command[c].step = "save" /\ Skills!At(c, "save")
  BY WorkerKnown DEF Skills!Save, Skills!At
<1>2. PICK own \in Copies : own = command[c].key
  BY <1>1
<1>3. PICK written \in SkillRecords : written = Skills!Written(c)
  BY <1>1, WrittenTyped
<1>4. PICK held \in [Copies -> SkillRecords] : held = command[c].file
  BY <1>1 DEF SkillWork
<1>5. /\ UNCHANGED <<source, copy>> /\ records' = [held EXCEPT ![own] = written]
      /\ torn' = torn \cup {k \in Copies \ {own} : records[k] # held[k]}
      /\ refused' = refused \ {own} /\ command' = [command EXCEPT ![c] = Skills!Idle]
      /\ IF command[c].op = "setup" /\ command[c].saw # <<>>
           THEN preserved' = preserved ELSE preserved' = preserved \ {own}
  BY <1>2, <1>3, <1>4 DEF Skills!Save, Skills!End
<1>6. /\ records' \in [Copies -> SkillRecords] /\ records'[own] = written
      /\ copy' \in [Copies -> SkillCopies]
      /\ \A k \in Copies \ torn' : k # own => records'[k] = records[k]
  BY <1>5 DEF SkillsInv, SkillsTyped
<1>7. ASSUME own \notin torn' PROVE CopyMatches(own)'
  <2>1. CopyInStep(c)
    BY <1>1, <1>2, <1>5, <1>7
  <2>2. CASE command[c].op = "remove"
    <3>1. written = <<>> /\ copy[own] = <<>>
      BY <1>1, <1>2, <1>3, <2>1, <2>2, WrittenTyped DEF CopyInStep
    <3> QED
      BY <1>5, <1>6, <3>1 DEF CopyMatches
  <2>3. CASE command[c].op # "remove"
    <3>1. written # <<>> /\ written[1].base.v = command[c].new
      BY <1>1, <1>3, <2>3, WrittenTyped
    <3>2. CASE command[c].op = "setup" /\ command[c].saw # <<>>
      <4>1. copy[own] # <<>> /\ own \in preserved
        BY <1>1, <1>2, <2>1, <3>2 DEF CopyInStep
      <4> QED
        BY <1>5, <1>6, <3>1, <3>2, <4>1 DEF CopyMatches
    <3>3. CASE ~ (command[c].op = "setup" /\ command[c].saw # <<>>)
      <4>1. copy[own] # <<>> /\ copy[own][1].v = command[c].new
        BY <1>1, <1>2, <2>1, <2>3, <3>3 DEF CopyInStep
      <4> QED
        BY <1>5, <1>6, <3>1, <4>1 DEF CopyMatches
    <3> QED
      BY <3>2, <3>3
  <2> QED
    BY <2>2, <2>3
<1>8. Skills!RefusalsExcused' /\ preserved' \ {own} = preserved \ {own} /\ torn \subseteq torn'
  BY <1>5 DEF SkillsInv, Skills!RefusalsExcused
<1>9. source' = source /\ \A k \in Copies \ {own} : copy'[k] = copy[k]
  BY <1>5
<1> QED
  BY <1>1, <1>2, <1>5, <1>6, <1>7, <1>8, <1>9, WorkerSteps

\* A command begins: a second one at a copy tears it.
LEMMA StartKeeps ==
    ASSUME SkillsInv, NEW c \in SkillCommands, NEW own \in Copies, NEW force \in BOOLEAN,
           NEW op \in {"add", "update", "remove", "setup"},
           op = "update" => records[own] # <<>>, Skills!Start(c, op, own, force),
           UNCHANGED <<source, copy, records, preserved, refused>>
    PROVE  SkillsInv'
<1> DEFINE new == [op |-> op, key |-> own, force |-> force, step |-> "prepare", rev |-> 0,
                   was |-> records[own], saw |-> <<>>, new |-> 0, file |-> records]
<1>1. /\ command' = [command EXCEPT ![c] = new] /\ command[c] = Skills!Idle
      /\ torn' = torn \cup {j \in {own} : Skills!AtWork(j)}
      /\ records \in [Copies -> SkillRecords]
      /\ command \in [SkillCommands -> SkillWork \cup {Skills!Idle}]
  BY DEF Skills!Start, SkillsInv, SkillsTyped
<1>2. new \in SkillWork
  BY <1>1 DEF SkillWork, SkillStepsOf, SkillCopies
<1>3. /\ new.key = own /\ new.step = "prepare" /\ new.was = records[own] /\ new.saw = <<>>
      /\ new.op = op
  OBVIOUS
<1> HIDE DEF new
<1>4. command'[c] = new /\ \A d \in SkillCommands : d # c => command'[d] = command[d]
  BY <1>1
<1>5. Prepared(new)
  BY <1>3 DEF Prepared
<1>6. SkillsTyped'
  <2>1. command' \in [SkillCommands -> SkillWork \cup {Skills!Idle}]
    BY <1>1, <1>2
  <2>2. \A d \in SkillCommands : command'[d] # Skills!Idle => Prepared(command'[d])
    BY <1>4, <1>5 DEF SkillsInv, SkillsTyped
  <2> QED
    BY <2>1, <2>2 DEF SkillsInv, SkillsTyped
<1>7. ASSUME NEW k \in Copies PROVE KeySound(k)'
  <2> SUFFICES ASSUME k \notin torn'
               PROVE /\ \A a, b \in SkillCommands : WorksOn(a, k)' /\ WorksOn(b, k)' => a = b
                     /\ \A a \in SkillCommands : WorksOn(a, k)' => CopyInStep(a)'
                     /\ (\A a \in SkillCommands : ~ WorksOn(a, k)') => CopyMatches(k)'
    BY DEF KeySound
  <2>1. /\ k \notin torn
        /\ \A a, b \in SkillCommands : WorksOn(a, k) /\ WorksOn(b, k) => a = b
        /\ \A a \in SkillCommands : WorksOn(a, k) => CopyInStep(a)
        /\ (\A a \in SkillCommands : ~ WorksOn(a, k)) => CopyMatches(k)
    BY <1>1 DEF SkillsInv, KeySound
  <2>2. CopyMatches(k) => CopyMatches(k)'
    BY DEF CopyMatches
  <2>3. ASSUME NEW a \in SkillCommands, a # c
        PROVE  (WorksOn(a, k)' <=> WorksOn(a, k)) /\ (CopyInStep(a) /\ WorksOn(a, k) => CopyInStep(a)')
    <3>1. command'[a] = command[a]
      BY <1>4, <2>3
    <3>2. WorksOn(a, k)' <=> WorksOn(a, k)
      BY <3>1 DEF WorksOn
    <3>3. CopyInStep(a) /\ WorksOn(a, k) => CopyInStep(a)'
      BY <2>2, <3>1 DEF CopyInStep, WorksOn
    <3> QED
      BY <3>2, <3>3
  <2>4. ~ WorksOn(c, k)
    BY <1>1 DEF WorksOn
  <2>5. CASE k = own
    <3>1. \A a \in SkillCommands : ~ WorksOn(a, k)
      BY <1>1, <2>5 DEF Skills!AtWork, WorksOn
    <3>2. \A a \in SkillCommands : WorksOn(a, k)' => a = c
      BY <2>3, <3>1
    <3>3. CopyInStep(c)' /\ WorksOn(c, k)'
      <4>1. CopyMatches(k)'
        BY <2>1, <2>2, <3>1
      <4>2. new # Skills!Idle
        BY <1>2, WorkIsNotIdle
      <4> QED
        BY <1>3, <1>4, <2>5, <4>1, <4>2 DEF CopyInStep, WorksOn
    <3> QED
      BY <3>2, <3>3
  <2>6. CASE k # own
    <3>1. ~ WorksOn(c, k)'
      BY <1>3, <1>4, <2>6 DEF WorksOn
    <3> QED
      BY <2>1, <2>2, <2>3, <2>4, <3>1
  <2> QED
    BY <2>5, <2>6
<1>8. Skills!RefusalsExcused'
  BY <1>1 DEF SkillsInv, Skills!RefusalsExcused
<1> QED
  BY <1>6, <1>7, <1>8 DEF SkillsInv

LEMMA EditKeeps ==
    ASSUME SkillsInv, NEW own \in Copies, Skills!Edit(own)
    PROVE  SkillsInv'
<1>1. /\ UNCHANGED <<source, records, command, torn, preserved, refused>> /\ copy[own] # <<>>
      /\ copy \in [Copies -> SkillCopies]
  BY DEF Skills!Edit, SkillsInv, SkillsTyped
<1>2. PICK x \in SkillContents : copy[own] = <<x>>
  BY <1>1 DEF SkillCopies
<1>3. copy' = [copy EXCEPT ![own] = <<[x EXCEPT !.edits = @ + 1]>>]
  <2>1. [copy[own] EXCEPT ![1] = [x EXCEPT !.edits = @ + 1]] = <<[x EXCEPT !.edits = @ + 1]>>
    BY <1>2
  <2>2. copy[own][1] = x
    BY <1>2
  <2>3. copy' = [copy EXCEPT ![own] = [copy[own] EXCEPT ![1] = [x EXCEPT !.edits = @ + 1]]]
    BY <2>2 DEF Skills!Edit
  <2> QED
    BY <2>1, <2>3
<1>4. [x EXCEPT !.edits = @ + 1] \in SkillContents /\ [x EXCEPT !.edits = @ + 1].v = x.v
  BY DEF SkillContents
<1>5. copy' \in [Copies -> SkillCopies]
  BY <1>1, <1>3, <1>4 DEF SkillCopies
<1>6. \A k \in Copies : /\ copy'[k] = <<>> <=> copy[k] = <<>>
                        /\ copy[k] # <<>> => copy'[k][1].v = copy[k][1].v
  BY <1>1, <1>2, <1>3, <1>4
<1>7. SkillsTyped'
  BY <1>1, <1>5 DEF SkillsInv, SkillsTyped
<1>8. \A k \in Copies : CopyMatches(k) => CopyMatches(k)'
  BY <1>1, <1>6 DEF CopyMatches
<1>9. ASSUME NEW c \in SkillCommands, command[c] # Skills!Idle, CopyInStep(c)
      PROVE  CopyInStep(c)'
  <2>1. command[c].key \in Copies /\ command' = command
    BY <1>1, <1>9, WorkerKnown
  <2> QED
    BY <1>1, <1>6, <1>8, <1>9, <2>1 DEF CopyInStep
<1>10. \A k \in Copies : KeySound(k)'
  BY <1>1, <1>8, <1>9 DEF SkillsInv, KeySound, WorksOn
<1> QED
  BY <1>1, <1>7, <1>10 DEF SkillsInv, Skills!RefusalsExcused

LEMMA NewKeeps ==
    ASSUME SkillsInv, NEW own \in Copies, Skills!New(own)
    PROVE  SkillsInv'
<1>1. /\ UNCHANGED <<source, records, command, preserved, refused>> /\ copy[own] = <<>>
      /\ copy \in [Copies -> SkillCopies]
      /\ copy' = [copy EXCEPT ![own] = <<Skills!Content(0, 0)>>]
      /\ torn' = torn \cup {j \in {own} : Skills!AtWork(j)}
  BY DEF Skills!New, SkillsInv, SkillsTyped
<1>2. Skills!Content(0, 0) \in SkillContents /\ Skills!Content(0, 0).v = 0
  BY DEF SkillContents, Skills!Content
<1>3. copy' \in [Copies -> SkillCopies] /\ copy'[own] = <<Skills!Content(0, 0)>>
  BY <1>1, <1>2 DEF SkillCopies
<1>4. SkillsTyped'
  BY <1>1, <1>3 DEF SkillsInv, SkillsTyped
<1>5. ASSUME NEW k \in Copies PROVE KeySound(k)'
  <2> SUFFICES ASSUME k \notin torn' PROVE KeySound(k)'
    BY DEF KeySound
  <2>1. k \notin torn /\ KeySound(k)
    BY <1>1 DEF SkillsInv
  <2>2. \A c \in SkillCommands : WorksOn(c, k)' <=> WorksOn(c, k)
    BY <1>1 DEF WorksOn
  <2>3. CASE k = own
    <3>1. \A c \in SkillCommands : ~ WorksOn(c, k)
      BY <1>1, <2>3 DEF Skills!AtWork, WorksOn
    <3>2. CopyMatches(k)
      BY <2>1, <3>1 DEF KeySound
    <3>3. records[k] = <<>>
      BY <1>1, <2>3, <3>2 DEF CopyMatches
    <3>4. copy'[k] # <<>> /\ copy'[k][1].v = 0
      BY <1>2, <1>3, <2>3
    <3>5. CopyMatches(k)'
      BY <1>1, <3>3, <3>4 DEF CopyMatches
    <3> QED
      BY <2>2, <3>1, <3>5 DEF KeySound
  <2>4. CASE k # own
    <3>1. copy'[k] = copy[k]
      BY <1>1, <2>4
    <3>2. CopyMatches(k) => CopyMatches(k)'
      BY <1>1, <3>1 DEF CopyMatches
    <3>3. \A c \in SkillCommands : WorksOn(c, k) /\ CopyInStep(c) => CopyInStep(c)'
      BY <1>1, <3>1, <3>2 DEF CopyInStep, WorksOn
    <3> QED
      BY <2>1, <2>2, <3>2, <3>3 DEF KeySound
  <2> QED
    BY <2>3, <2>4
<1>6. Skills!RefusalsExcused'
  BY <1>1 DEF SkillsInv, Skills!RefusalsExcused
<1> QED
  BY <1>4, <1>5, <1>6 DEF SkillsInv

LEMMA PublishKeeps ==
    ASSUME SkillsInv, Skills!Publish
    PROVE  SkillsInv'
<1>1. /\ UNCHANGED <<copy, records, command, torn, preserved, refused>>
      /\ source \in Nat \ {0} /\ source' = source + 1
  BY DEF Skills!Publish, SkillsInv, SkillsTyped
<1>2. source' \in Nat \ {0}
  BY <1>1
<1>3. SkillsTyped'
  BY <1>1, <1>2 DEF SkillsInv, SkillsTyped
<1> QED
  BY <1>1, <1>3 DEF SkillsInv, KeySound, WorksOn, CopyInStep, CopyMatches, Skills!RefusalsExcused

LEMMA SkillsSteady ==
    ASSUME SkillsInv, UNCHANGED skillsVars
    PROVE  SkillsInv'
BY DEF SkillsInv, SkillsTyped, KeySound, WorksOn, CopyInStep, CopyMatches, Skills!RefusalsExcused,
  skillsVars

LEMMA SkillsKept ==
    ASSUME SkillsInv, Skills!Next
    PROVE  SkillsInv'
<1>1. ASSUME NEW c \in SkillCommands, NEW k \in Copies,
             \/ \E force \in BOOLEAN : Skills!Add(c, k, force)
             \/ Skills!Update(c, k) \/ Skills!Remove(c, k) \/ Skills!Setup(c, k)
      PROVE  SkillsInv'
  BY <1>1, StartKeeps DEF Skills!Add, Skills!Update, Skills!Remove, Skills!Setup
<1> QED
  BY <1>1, PublishKeeps, EditKeeps, NewKeeps, LookAddKeeps, LookUpdateKeeps, LookSetupKeeps,
    SkillStageKeeps, StageFailsKeeps, DropKeeps, PlaceKeeps, RemoveCopyKeeps, SaveKeeps,
    SkillCrashKeeps DEF Skills!Next

LEMMA RecordsKnown ==
    ASSUME SkillsInv PROVE Skills!RecordsTrue
BY DEF SkillsInv, Skills!RecordsTrue, Skills!AtWork, KeySound, WorksOn, CopyMatches

\* What a user wrote goes only by the way out the property names.
LEMMA EditsSurvive ==
    ASSUME SkillsInv, Skills!Next PROVE Skills!EditSurvives
<1> SUFFICES ASSUME NEW k \in Copies, copy[k] # <<>>, Skills!Mine(copy[k][1]), copy'[k] # copy[k]
             PROVE  \/ copy'[k] # <<>> /\ copy'[k][1].edits > copy[k][1].edits
                    \/ \E c \in SkillCommands :
                         /\ command[c] # Skills!Idle /\ command[c].key = k
                         /\ \/ command[c].op = "remove"
                            \/ command[c].op = "add" /\ command[c].force
                            \/ command[c].saw # copy[k]
  BY DEF Skills!EditSurvives
<1>1. copy \in [Copies -> SkillCopies] /\ copy' # copy
  BY DEF SkillsInv, SkillsTyped
<1>2. CASE \E own \in Copies : Skills!Edit(own)
  <2>1. Skills!Edit(k)
    BY <1>1, <1>2 DEF Skills!Edit
  <2>2. PICK x \in SkillContents : copy[k] = <<x>>
    BY <1>1 DEF SkillCopies
  <2>3. copy'[k] = <<[x EXCEPT !.edits = @ + 1]>>
    BY <1>1, <2>1, <2>2 DEF Skills!Edit
  <2>4. x.edits \in Nat /\ [x EXCEPT !.edits = @ + 1].edits = x.edits + 1
    BY DEF SkillContents
  <2>5. copy[k][1] = x
    BY <2>2
  <2>6. copy'[k] # <<>> /\ copy'[k][1] = [x EXCEPT !.edits = @ + 1]
    BY <2>3
  <2> QED
    BY <2>4, <2>5, <2>6
<1>3. CASE \E own \in Copies : Skills!New(own)
  BY <1>1, <1>3 DEF Skills!New
<1>4. ASSUME NEW c \in SkillCommands, Skills!Place(c) PROVE FALSE
  BY <1>1, <1>4 DEF Skills!Place, Skills!End
<1>5. ASSUME NEW c \in SkillCommands, Skills!RemoveCopy(c)
      PROVE  command[c] # Skills!Idle /\ command[c].key = k /\ command[c].op = "remove"
  BY <1>1, <1>5 DEF Skills!RemoveCopy, Skills!At
<1>6. ASSUME NEW c \in SkillCommands, Skills!Drop(c)
      PROVE  /\ command[c] # Skills!Idle /\ command[c].key = k
             /\ \/ command[c].op = "add" /\ command[c].force
                \/ command[c].saw # copy[k]
  <2>1. command[c] # Skills!Idle /\ command[c].key = k /\ command[c].step = "drop"
    BY <1>1, <1>6 DEF Skills!Drop, Skills!At
  <2>2. Prepared(command[c]) /\ command[c] \in SkillWork
    BY <2>1, WorkerKnown
  <2> QED
    BY <2>1, <2>2 DEF Prepared, SkillWork
<1>7. CASE \E c \in SkillCommands : Skills!Place(c) \/ Skills!RemoveCopy(c) \/ Skills!Drop(c)
  BY <1>4, <1>5, <1>6, <1>7
<1>8. ~ Skills!Publish
  BY <1>1 DEF Skills!Publish
<1>9. ASSUME NEW c \in SkillCommands, NEW own \in Copies
      PROVE  ~ ( \/ \E force \in BOOLEAN : Skills!Add(c, own, force)
                 \/ Skills!Update(c, own) \/ Skills!Remove(c, own) \/ Skills!Setup(c, own) )
  BY <1>1 DEF Skills!Add, Skills!Update, Skills!Remove, Skills!Setup
<1>10. ASSUME NEW c \in SkillCommands
       PROVE  ~ ( \/ Skills!LookAdd(c) \/ Skills!LookUpdate(c) \/ Skills!LookSetup(c)
                  \/ Skills!Stage(c) \/ Skills!StageFails(c) \/ Skills!Save(c) \/ Skills!Crash(c) )
  BY <1>1 DEF Skills!LookAdd, Skills!LookUpdate, Skills!LookSetup, Skills!Stage,
    Skills!StageFails, Skills!Save, Skills!Crash
<1> QED
  BY <1>2, <1>3, <1>7, <1>8, <1>9, <1>10 DEF Skills!Next

----------------------------------------------------------------------------
(* Checkpoints of the workspace.  What a program found at its look at      *)
(* .gitignore still holds at its add, or it was meddled with.              *)

GitRuns ==
    [use : {"init", "checkpoint"},
     at : {"init", "whitelist", "check", "status", "add", "staged", "commit"},
     had : [Git!Files -> Nat \cup {{}}], meddled : BOOLEAN]

GitTyped ==
    /\ tracked \in [Git!Files -> Nat] /\ staged \in [Git!Files -> Nat]
    /\ run \in [Programs -> {<<>>} \cup {<<r>> : r \in GitRuns}]
    /\ gitCounts \in [edits : Nat, runs : Nat, failures : Nat]
    /\ \A f \in Git!Files : tracked[f] <= gitCounts.edits + 1

\* A checkpoint past its look at .gitignore has found it, and it is still there unless
\* it was changed meanwhile; past its add, git's index and the files are no older than
\* what it added.
CheckpointSound(r) ==
    /\ r.at \in {"status", "add", "staged", "commit"} /\ ~ r.meddled => ignore = "ours"
    /\ r.at \in {"staged", "commit"} =>
         \A f \in Listed : r.had[f] \in Nat /\ r.had[f] <= staged[f] /\ r.had[f] <= tracked[f]

GitInv ==
    /\ GitTyped
    /\ \A p \in Programs, r \in GitRuns : run[p] = <<r>> => CheckpointSound(r)
    /\ Git!AnswersAreSaved

LEMMA GitStarts ==
    ASSUME Git!Init PROVE GitInv
<1>1. GitTyped
  BY DEF Git!Init, GitTyped
<1>2. \A p \in Programs, r \in GitRuns : run[p] # <<r>>
  BY DEF Git!Init
<1> QED
  BY <1>1, <1>2 DEF GitInv, Git!Init, Git!AnswersAreSaved

\* A program that runs, and where it goes.
LEMMA ProgramKnown ==
    ASSUME GitInv, NEW p \in Programs, run[p] # <<>>
    PROVE  \E r \in GitRuns : run[p] = <<r>> /\ run[p][1] = r /\ CheckpointSound(r)
<1>1. PICK r \in GitRuns : run[p] = <<r>>
  BY DEF GitInv, GitTyped
<1> QED
  BY <1>1 DEF GitInv

LEMMA GoesTo ==
    ASSUME GitInv, NEW p \in Programs, NEW step, NEW r \in GitRuns, run[p] = <<r>>,
           Git!Goes(p, step)
    PROVE  run' = [run EXCEPT ![p] = <<[r EXCEPT !.at = step]>>]
<1>1. [run[p] EXCEPT ![1] = [r EXCEPT !.at = step]] = <<[r EXCEPT !.at = step]>>
  OBVIOUS
<1>2. run[p][1] = r
  OBVIOUS
<1>3. run' = [run EXCEPT ![p] = [run[p] EXCEPT ![1] = [r EXCEPT !.at = step]]]
  BY <1>2 DEF Git!Goes
<1> QED
  BY <1>1, <1>3

\* A step of one program that writes no file and not .gitignore: only what it says
\* of itself is to be shown, and what it answers.
LEMMA ProgramSteps ==
    ASSUME GitInv, NEW p \in Programs, NEW new \in {<<>>} \cup {<<r>> : r \in GitRuns},
           run' = [run EXCEPT ![p] = new], ignore' = ignore \/ ignore' = "ours",
           tracked' = tracked, staged' \in [Git!Files -> Nat],
           gitCounts' \in [edits : Nat, runs : Nat, failures : Nat],
           gitCounts'.edits = gitCounts.edits,
           \A f \in Listed : staged'[f] = staged[f] \/ staged'[f] = tracked[f],
           \A r \in GitRuns : new = <<r>> => CheckpointSound(r)',
           Git!AnswersAreSaved'
    PROVE  GitInv'
<1>1. GitTyped'
  BY DEF GitInv, GitTyped
<1>2. ASSUME NEW q \in Programs, NEW r \in GitRuns, run'[q] = <<r>>
      PROVE  CheckpointSound(r)'
  <2>1. CASE q = p
    BY <1>2, <2>1 DEF GitInv, GitTyped
  <2>2. CASE q # p
    <3>1. run[q] = <<r>> /\ CheckpointSound(r)
      BY <1>2, <2>2 DEF GitInv, GitTyped
    <3>2. \A f \in Listed : tracked[f] \in Nat /\ staged[f] \in Nat /\ staged'[f] \in Nat
      BY DEF GitInv, GitTyped, Git!Files
    <3> QED
      BY <3>1, <3>2 DEF CheckpointSound
  <2> QED
    BY <2>1, <2>2
<1> QED
  BY <1>1, <1>2 DEF GitInv

\* The steps of a program that runs and goes on, or ends without an answer.
LEMMA GoingKeeps ==
    ASSUME GitInv, NEW p \in Programs, NEW r \in GitRuns, run[p] = <<r>>,
           NEW step \in {"whitelist", "check", "status", "add", "commit"}, Git!Goes(p, step),
           UNCHANGED <<tracked, staged, answered, gitCounts>>,
           ignore' = ignore \/ ignore' = "ours",
           step \in {"status", "add", "commit"} => ignore' = ignore,
           step = "status" => ignore = "ours",
           step = "add" => r.at = "status", step = "commit" => r.at = "staged"
    PROVE  GitInv'
<1> DEFINE new == [r EXCEPT !.at = step]
<1>1. run' = [run EXCEPT ![p] = <<new>>]
  BY GoesTo
<1>2. new \in GitRuns /\ new.at = step /\ new.had = r.had /\ new.meddled = r.meddled
  BY DEF GitRuns
<1>3. CheckpointSound(r)
  BY DEF GitInv
<1> HIDE DEF new
<1>4. CheckpointSound(new)'
  BY <1>2, <1>3 DEF CheckpointSound
<1>5. \A q \in GitRuns : <<new>> = <<q>> => CheckpointSound(q)'
  BY <1>4
<1>6. /\ tracked' = tracked /\ staged' \in [Git!Files -> Nat]
      /\ gitCounts' \in [edits : Nat, runs : Nat, failures : Nat]
      /\ gitCounts'.edits = gitCounts.edits /\ \A f \in Listed : staged'[f] = staged[f]
  BY DEF GitInv, GitTyped
<1>7. Git!AnswersAreSaved'
  BY DEF GitInv, Git!AnswersAreSaved
<1> QED
  BY <1>1, <1>2, <1>5, <1>6, <1>7, ProgramSteps

LEMMA EndsAnswer ==
    ASSUME GitInv, NEW p \in Programs, NEW answer, Git!Ends(p, answer),
           UNCHANGED <<tracked, ignore, staged>>,
           gitCounts' \in [edits : Nat, runs : Nat, failures : Nat],
           gitCounts'.edits = gitCounts.edits,
           answer # <<>> /\ ~ answer[1].meddled => answer[1].saved
    PROVE  GitInv'
<1>1. run' = [run EXCEPT ![p] = <<>>] /\ answered' = answer
  BY DEF Git!Ends
<1>2. tracked' = tracked /\ staged' \in [Git!Files -> Nat] /\ \A f \in Listed : staged'[f] = staged[f]
  BY DEF GitInv, GitTyped
<1>3. Git!AnswersAreSaved'
  BY <1>1 DEF Git!AnswersAreSaved
<1>4. \A q \in GitRuns : <<>> # <<q>>
  OBVIOUS
<1> QED
  BY <1>1, <1>2, <1>3, <1>4, ProgramSteps

LEMMA GitStartKeeps ==
    ASSUME GitInv, NEW p \in Programs, NEW use \in {"init", "checkpoint"}, Git!Start(p, use)
    PROVE  GitInv'
<1> DEFINE new == [use |-> use, at |-> IF use = "init" THEN "init" ELSE "check",
                   had |-> [f \in Git!Files |-> {}], meddled |-> FALSE]
<1>1. run' = [run EXCEPT ![p] = <<new>>] /\ answered' = <<>>
  BY DEF Git!Start
<1>2. new \in GitRuns /\ new.at \in {"init", "check"}
  BY DEF GitRuns
<1> HIDE DEF new
<1>3. \A q \in GitRuns : <<new>> = <<q>> => CheckpointSound(q)'
  <2>1. CheckpointSound(new)'
    BY <1>2 DEF CheckpointSound
  <2> QED
    BY <2>1
<1>4. UNCHANGED <<tracked, staged, ignore>> /\ staged' \in [Git!Files -> Nat]
  BY DEF GitInv, GitTyped, Git!Start
<1>6. /\ gitCounts' \in [edits : Nat, runs : Nat, failures : Nat]
      /\ gitCounts'.edits = gitCounts.edits
  <2>1. /\ gitCounts \in [edits : Nat, runs : Nat, failures : Nat]
        /\ gitCounts' = [gitCounts EXCEPT !.runs = @ + 1]
    BY DEF GitInv, GitTyped, Git!Start
  <2> QED
    BY <2>1
<1>5. Git!AnswersAreSaved'
  BY <1>1 DEF Git!AnswersAreSaved
<1> QED
  BY <1>1, <1>2, <1>3, <1>4, <1>5, <1>6, ProgramSteps

LEMMA InitializeKeeps ==
    ASSUME GitInv, NEW p \in Programs, Git!Initialize(p)
    PROVE  GitInv'
<1>1. PICK r \in GitRuns : run[p] = <<r>>
  BY ProgramKnown DEF Git!Initialize, Git!At
<1>2. UNCHANGED <<tracked, ignore, staged, gitCounts>>
  BY DEF Git!Initialize
<1>3. gitCounts' \in [edits : Nat, runs : Nat, failures : Nat]
  BY <1>2 DEF GitInv, GitTyped
<1>4. CASE Git!Ends(p, <<>>)
  BY <1>2, <1>3, <1>4, EndsAnswer
<1>5. CASE Git!Goes(p, "whitelist") /\ UNCHANGED answered
  BY <1>1, <1>2, <1>5, GoingKeeps
<1> QED
  BY <1>4, <1>5 DEF Git!Initialize

LEMMA WriteGitignoreKeeps ==
    ASSUME GitInv, NEW p \in Programs, Git!WriteGitignore(p)
    PROVE  GitInv'
<1>1. PICK r \in GitRuns : run[p] = <<r>>
  BY ProgramKnown DEF Git!WriteGitignore, Git!At
<1> QED
  BY <1>1, GoingKeeps DEF Git!WriteGitignore

LEMMA AssertRepoKeeps ==
    ASSUME GitInv, NEW p \in Programs, Git!AssertCheckpointRepo(p)
    PROVE  GitInv'
<1>1. PICK r \in GitRuns : run[p] = <<r>>
  BY ProgramKnown DEF Git!AssertCheckpointRepo, Git!At
<1>2. UNCHANGED <<tracked, ignore, staged, gitCounts>>
  BY DEF Git!AssertCheckpointRepo
<1>3. gitCounts' \in [edits : Nat, runs : Nat, failures : Nat]
  BY <1>2 DEF GitInv, GitTyped
<1>4. CASE Git!Ends(p, <<>>)
  BY <1>2, <1>3, <1>4, EndsAnswer
<1>5. CASE Git!GitignoreMatches /\ Git!Goes(p, "status") /\ UNCHANGED answered
  BY <1>1, <1>2, <1>5, GoingKeeps DEF Git!GitignoreMatches
<1> QED
  BY <1>4, <1>5 DEF Git!AssertCheckpointRepo

\* When nothing has changed, everything the whitelist lets in is committed.
LEMMA NothingToCommit ==
    ASSUME GitInv, Git!Changed = {}, NEW f \in Listed
    PROVE  head[f] = tracked[f]
BY DEF Git!Changed, Git!Seen, Git!Files

LEMMA StatusKeeps ==
    ASSUME GitInv, NEW p \in Programs, Git!InspectStatus(p) \/ Git!InspectStaged(p)
    PROVE  GitInv'
<1>1. PICK r \in GitRuns : run[p] = <<r>> /\ run[p][1] = r
  BY ProgramKnown DEF Git!InspectStatus, Git!InspectStaged, Git!At
<1>2. UNCHANGED <<tracked, ignore, staged, gitCounts>>
  BY DEF Git!InspectStatus, Git!InspectStaged, Git!Status
<1>3. gitCounts' \in [edits : Nat, runs : Nat, failures : Nat]
  BY <1>2 DEF GitInv, GitTyped
<1>4. CASE Git!Changed = {}
  <2> DEFINE answer == [created |-> FALSE, meddled |-> run[p][1].meddled,
                        saved |-> \A f \in Listed : head[f] = tracked[f]]
  <2>1. Git!Ends(p, <<answer>>)
    BY <1>4 DEF Git!InspectStatus, Git!InspectStaged, Git!Status
  <2>2. answer.saved
    BY <1>4, NothingToCommit
  <2>3. <<answer>>[1].saved
    BY <2>2
  <2> HIDE DEF answer
  <2> QED
    BY <1>2, <1>3, <2>1, <2>3, EndsAnswer
<1>5. CASE Git!Changed # {} /\ Git!InspectStatus(p)
  <2>1. r.at = "status" /\ Git!Goes(p, "add") /\ UNCHANGED answered
    BY <1>1, <1>5 DEF Git!InspectStatus, Git!Status, Git!At
  <2> QED
    BY <1>1, <1>2, <2>1, GoingKeeps
<1>6. CASE Git!Changed # {} /\ Git!InspectStaged(p)
  <2>1. r.at = "staged" /\ Git!Goes(p, "commit") /\ UNCHANGED answered
    BY <1>1, <1>6 DEF Git!InspectStaged, Git!Status, Git!At
  <2> QED
    BY <1>1, <1>2, <2>1, GoingKeeps
<1> QED
  BY <1>4, <1>5, <1>6

LEMMA AddKeeps ==
    ASSUME GitInv, NEW p \in Programs, Git!Add(p)
    PROVE  GitInv'
<1>1. PICK r \in GitRuns : run[p] = <<r>> /\ run[p][1] = r /\ CheckpointSound(r)
  BY ProgramKnown DEF Git!Add, Git!At
<1>2. r.at = "add" /\ UNCHANGED <<tracked, ignore, answered, gitCounts>>
  BY <1>1 DEF Git!Add, Git!At
<1>3. run' = [run EXCEPT ![p] = <<[r EXCEPT !.at = "staged", !.had = tracked]>>]
  <2>1. run' = [run EXCEPT ![p] = [[run[p] EXCEPT ![1] = [r EXCEPT !.at = "staged"]]
                                     EXCEPT ![1] = [[r EXCEPT !.at = "staged"] EXCEPT !.had = tracked]]]
    BY <1>1 DEF Git!Add
  <2>2. [[run[p] EXCEPT ![1] = [r EXCEPT !.at = "staged"]]
           EXCEPT ![1] = [[r EXCEPT !.at = "staged"] EXCEPT !.had = tracked]]
          = <<[r EXCEPT !.at = "staged", !.had = tracked]>>
    BY <1>1
  <2> QED
    BY <2>1, <2>2
<1>4. /\ tracked \in [Git!Files -> Nat] /\ staged \in [Git!Files -> Nat] /\ Listed \subseteq Git!Files
      /\ gitCounts' \in [edits : Nat, runs : Nat, failures : Nat]
      /\ gitCounts'.edits = gitCounts.edits
  BY <1>2 DEF GitInv, GitTyped, Git!Files
<1>5. PICK new \in GitRuns :
        /\ new = [r EXCEPT !.at = "staged", !.had = tracked]
        /\ new.at = "staged" /\ new.had = tracked /\ new.meddled = r.meddled
  <2>1. [r EXCEPT !.at = "staged", !.had = tracked] \in GitRuns
    BY <1>4 DEF GitRuns
  <2> QED
    BY <2>1 DEF GitRuns
<1>6. staged' \in [Git!Files -> Nat] /\ \A f \in Listed : staged'[f] = tracked[f]
  BY <1>4 DEF Git!Add, Git!Seen
<1>7. CheckpointSound(new)'
  <2>1. \A f \in Listed : tracked[f] \in Nat /\ staged'[f] = tracked[f] /\ tracked'[f] = tracked[f]
    BY <1>2, <1>4, <1>6
  <2>2. ~ new.meddled => ignore' = "ours"
    BY <1>1, <1>2, <1>5 DEF CheckpointSound
  <2> QED
    BY <1>5, <2>1, <2>2 DEF CheckpointSound
<1>8. \A q \in GitRuns : <<new>> = <<q>> => CheckpointSound(q)'
  BY <1>7
<1>9. Git!AnswersAreSaved'
  BY <1>2 DEF GitInv, Git!AnswersAreSaved
<1> QED
  BY <1>2, <1>3, <1>4, <1>5, <1>6, <1>8, <1>9, ProgramSteps

LEMMA GitCommitKeeps ==
    ASSUME GitInv, NEW p \in Programs, Git!Commit(p)
    PROVE  GitInv'
<1>1. PICK r \in GitRuns : run[p] = <<r>> /\ run[p][1] = r /\ CheckpointSound(r)
  BY ProgramKnown DEF Git!Commit, Git!At
<1>2. r.at = "commit" /\ UNCHANGED <<tracked, ignore, staged, gitCounts>>
  BY <1>1 DEF Git!Commit, Git!At
<1>3. gitCounts' \in [edits : Nat, runs : Nat, failures : Nat]
  BY <1>2 DEF GitInv, GitTyped
<1> DEFINE answer == [created |-> TRUE, meddled |-> run[p][1].meddled,
                      saved |-> \A f \in Listed : staged[f] >= run[p][1].had[f]]
<1>4. Git!Ends(p, <<answer>>)
  BY DEF Git!Commit
<1>5. \A f \in Listed : staged[f] >= r.had[f]
  BY <1>1, <1>2 DEF CheckpointSound, GitInv, GitTyped, Git!Files
<1>6. answer.saved
  BY <1>1, <1>5
<1>7. <<answer>>[1].saved
  BY <1>6
<1> HIDE DEF answer
<1> QED
  BY <1>2, <1>3, <1>4, <1>7, EndsAnswer

LEMMA GitFailsKeeps ==
    ASSUME GitInv, NEW p \in Programs, Git!Fails(p) \/ Git!CommitRefused(p)
    PROVE  GitInv'
<1>1. Git!Ends(p, <<>>) /\ UNCHANGED <<tracked, ignore, staged>>
  BY DEF Git!Fails, Git!CommitRefused
<1>2. /\ gitCounts' \in [edits : Nat, runs : Nat, failures : Nat]
      /\ gitCounts'.edits = gitCounts.edits
  BY DEF Git!Fails, Git!CommitRefused, GitInv, GitTyped
<1> QED
  BY <1>1, <1>2, EndsAnswer

LEMMA GitEditKeeps ==
    ASSUME GitInv, NEW f \in Git!Files, Git!Edit(f)
    PROVE  GitInv'
<1>1. /\ tracked \in [Git!Files -> Nat] /\ gitCounts \in [edits : Nat, runs : Nat, failures : Nat]
      /\ gitCounts' = [gitCounts EXCEPT !.edits = @ + 1]
      /\ tracked' = [tracked EXCEPT ![f] = gitCounts.edits + 2]
      /\ UNCHANGED <<ignore, staged, head, run, answered>>
      /\ \A g \in Git!Files : tracked[g] <= gitCounts.edits + 1
  BY DEF GitInv, GitTyped, Git!Edit
<1>2. /\ gitCounts' \in [edits : Nat, runs : Nat, failures : Nat]
      /\ gitCounts.edits \in Nat /\ gitCounts'.edits = gitCounts.edits + 1
  BY <1>1
<1>3. tracked' \in [Git!Files -> Nat]
  BY <1>1, <1>2
<1>4. \A g \in Git!Files : tracked[g] <= tracked'[g] /\ tracked'[g] <= gitCounts'.edits + 1
  <2> TAKE g \in Git!Files
  <2>1. CASE g = f
    BY <1>1, <1>2, <2>1
  <2>2. CASE g # f
    BY <1>1, <1>2, <2>2
  <2> QED
    BY <2>1, <2>2
<1>5. GitTyped'
  BY <1>1, <1>2, <1>3, <1>4 DEF GitInv, GitTyped
<1>6. ASSUME NEW p \in Programs, NEW r \in GitRuns, run'[p] = <<r>>
      PROVE  CheckpointSound(r)'
  <2>1. CheckpointSound(r)
    BY <1>1, <1>6 DEF GitInv
  <2>2. \A g \in Listed : tracked[g] \in Nat /\ tracked'[g] \in Nat /\ tracked[g] <= tracked'[g]
    BY <1>1, <1>3, <1>4 DEF Git!Files
  <2> QED
    BY <1>1, <2>1, <2>2 DEF CheckpointSound
<1>7. Git!AnswersAreSaved'
  BY <1>1 DEF GitInv, Git!AnswersAreSaved
<1> QED
  BY <1>5, <1>6, <1>7 DEF GitInv

\* Whoever changes .gitignore while checkpoints are made, it is noted in each.
LEMMA EditIgnoreKeeps ==
    ASSUME GitInv, NEW content, Git!EditIgnore(content)
    PROVE  GitInv'
<1>1. /\ UNCHANGED <<tracked, staged, head, answered>>
      /\ gitCounts' = [gitCounts EXCEPT !.edits = @ + 1]
      /\ gitCounts \in [edits : Nat, runs : Nat, failures : Nat]
      /\ run' = [p \in Programs |-> IF run[p] = <<>> THEN <<>>
                                    ELSE <<[run[p][1] EXCEPT !.meddled = TRUE]>>]
  BY DEF Git!EditIgnore, GitInv, GitTyped
<1>2. ASSUME NEW p \in Programs
      PROVE  \/ run'[p] = <<>>
             \/ \E r, q \in GitRuns : /\ run'[p] = <<q>> /\ run[p] = <<r>> /\ q.meddled
                                      /\ q.at = r.at /\ q.had = r.had
  <2>1. CASE run[p] = <<>>
    BY <1>1, <2>1
  <2>2. CASE run[p] # <<>>
    <3>1. PICK r \in GitRuns : run[p] = <<r>> /\ run[p][1] = r
      BY <2>2, ProgramKnown
    <3> DEFINE q == [r EXCEPT !.meddled = TRUE]
    <3>2. q \in GitRuns /\ q.meddled /\ q.at = r.at /\ q.had = r.had
      BY DEF GitRuns
    <3>3. run'[p] = <<q>>
      BY <1>1, <2>2, <3>1
    <3> HIDE DEF q
    <3> QED
      BY <3>1, <3>2, <3>3
  <2> QED
    BY <2>1, <2>2
<1>3. GitTyped'
  <2>1. gitCounts' \in [edits : Nat, runs : Nat, failures : Nat] /\ gitCounts.edits \in Nat
        /\ gitCounts'.edits = gitCounts.edits + 1
    BY <1>1
  <2>2. run' \in [Programs -> {<<>>} \cup {<<r>> : r \in GitRuns}]
    <3>1. \A p \in Programs : run'[p] \in {<<>>} \cup {<<r>> : r \in GitRuns}
      BY <1>2
    <3> QED
      BY <1>1, <3>1
  <2> QED
    BY <1>1, <2>1, <2>2 DEF GitInv, GitTyped
<1>4. ASSUME NEW p \in Programs, NEW s \in GitRuns, run'[p] = <<s>>
      PROVE  CheckpointSound(s)'
  <2>1. PICK r, q \in GitRuns : /\ run'[p] = <<q>> /\ run[p] = <<r>> /\ q.meddled
                                /\ q.at = r.at /\ q.had = r.had
    BY <1>2, <1>4
  <2>2. s = q /\ CheckpointSound(r)
    BY <1>4, <2>1 DEF GitInv
  <2> QED
    BY <1>1, <2>1, <2>2 DEF CheckpointSound
<1>5. Git!AnswersAreSaved'
  BY <1>1 DEF GitInv, Git!AnswersAreSaved
<1> QED
  BY <1>3, <1>4, <1>5 DEF GitInv

LEMMA GitSteady ==
    ASSUME GitInv, UNCHANGED gitVars
    PROVE  GitInv'
BY DEF GitInv, GitTyped, CheckpointSound, Git!AnswersAreSaved, gitVars

LEMMA GitKept ==
    ASSUME GitInv, Git!Next
    PROVE  GitInv'
BY GitEditKeeps, EditIgnoreKeeps, GitStartKeeps, InitializeKeeps, WriteGitignoreKeeps,
  AssertRepoKeeps, StatusKeeps, AddKeeps, GitCommitKeeps, GitFailsKeeps DEF Git!Next

\* A private file is added only by a checkpoint that has .gitignore changed under it,
\* or because git has it already.
LEMMA PrivateKept ==
    ASSUME GitInv, Listed \cap Private = {}
    PROVE  Git!PrivateStaysOut
<1> SUFFICES ASSUME NEW f \in Private, NEW p \in Programs, Git!Add(p), staged'[f] # staged[f]
             PROVE  run[p][1].meddled \/ staged[f] # 0
  BY DEF Git!PrivateStaysOut
<1>1. PICK r \in GitRuns : run[p] = <<r>> /\ run[p][1] = r /\ CheckpointSound(r)
  BY ProgramKnown DEF Git!Add, Git!At
<1>2. r.at = "add"
  BY <1>1 DEF Git!Add, Git!At
<1>3. Git!Seen(f) /\ f \notin Listed
  BY DEF Git!Add, Git!Files
<1>4. r.meddled \/ ignore = "ours"
  BY <1>1, <1>2 DEF CheckpointSound
<1> QED
  BY <1>1, <1>3, <1>4 DEF Git!Seen

----------------------------------------------------------------------------
(* All of it, under the behaviours of MCUpkeep: one component moves and    *)
(* the others keep still.                                                  *)

UpkeepInv == UpdateInv /\ SkillsInv /\ GitInv

LEMMA UpkeepStarts == UpkeepInit => UpkeepInv
BY UpdateStarts, SkillsStart, GitStarts DEF UpkeepInit, UpkeepInv

LEMMA UpkeepKept == UpkeepInv /\ [UpkeepNext]_everything => UpkeepInv'
<1> SUFFICES ASSUME UpkeepInv, [UpkeepNext]_everything PROVE UpkeepInv'
  OBVIOUS
<1>1. UpdateInv'
  <2>1. Update!Next \/ UNCHANGED updateVars
    BY DEF UpkeepNext, everything
  <2> QED
    BY <2>1, UpdateKept, UpdateSteady DEF UpkeepInv
<1>2. SkillsInv'
  <2>1. Skills!Next \/ UNCHANGED skillsVars
    BY DEF UpkeepNext, everything
  <2> QED
    BY <2>1, SkillsKept, SkillsSteady DEF UpkeepInv
<1>3. GitInv'
  <2>1. Git!Next \/ UNCHANGED gitVars
    BY DEF UpkeepNext, everything
  <2> QED
    BY <2>1, GitKept, GitSteady DEF UpkeepInv
<1> QED
  BY <1>1, <1>2, <1>3 DEF UpkeepInv

\* The records of installed skills and of the installed app are true, whatever
\* commands run, fail and die (update/apply.ts, skills/packages/operations.ts).
THEOREM RecordsStayTrue == UpkeepSpec => []RecordedKept
<1>1. UpkeepInv => RecordedKept
  BY RecordsKnown, QuietRecorded DEF UpkeepInv, RecordedKept, SkillsInv, UpdateInv
<1> QED
  BY <1>1, UpkeepStarts, UpkeepKept, PTL DEF UpkeepSpec

\* What a user wrote into a skill, and a release another command has installed, are
\* never replaced by a command that did not mean it (skills/packages/operations.ts,
\* update/apply.ts).
THEOREM OnlyPlannedReplaced == UpkeepSpec => ReplacesOnlyPlanned
<1>1. UpkeepInv /\ [UpkeepNext]_everything =>
        [ /\ part = "skills" => Skills!EditSurvives
          /\ part = "update" => Update!CommitsPlanned ]_everything
  <2> SUFFICES ASSUME UpkeepInv, UpkeepNext
               PROVE /\ part = "skills" => Skills!EditSurvives
                     /\ part = "update" => Update!CommitsPlanned
    OBVIOUS
  <2>1. part = "skills" => Skills!Next
    BY DEF UpkeepNext
  <2> QED
    BY <2>1, EditsSurvive, PlannedCommitted DEF UpkeepInv
<1> QED
  BY <1>1, UpkeepStarts, UpkeepKept, PTL DEF UpkeepSpec, ReplacesOnlyPlanned

\* A checkpoint that answers has saved what was there when it added files, and no
\* private file is added by one nobody meddled with (workspace/checkpoints/git.ts).
THEOREM CheckpointsAlwaysKept == UpkeepSpec => CheckpointsKept
<1>1. UpkeepInv /\ [UpkeepNext]_everything =>
        [part = "git" => Git!PrivateStaysOut /\ Git!AnswersAreSaved]_everything
  <2>1. Listed \cap Private = {}
    BY IndexAssumptions DEF Git!CheckpointAssumption
  <2> QED
    BY <2>1, PrivateKept DEF UpkeepInv, GitInv
<1> QED
  BY <1>1, UpkeepStarts, UpkeepKept, PTL DEF UpkeepSpec, CheckpointsKept
=============================================================================
