--------------------------- MODULE SkillPackages ---------------------------
(* Installed copies of skill packages: skills/packages/operations.ts, its     *)
(* records in state/skills/packages.json (skills/packages/state.ts), where a  *)
(* package comes from (skills/packages/sources.ts), and their callers, the    *)
(* skills commands and setup.                                                 *)
(*                                                                            *)
(* A copy is a directory under a workspace's or an agent's skills root; a     *)
(* record tells which revision it was made from.  A command awaits the source *)
(* twice, before it looks at the copy and while it stages a new one; the rest *)
(* is system calls, between which another command may run and a crash come.   *)
EXTENDS Naturals

CONSTANTS
  Commands,       \* programs that may be at work
  Copies,         \* install keys: an id for the workspace or for an agent
  MaxVersion, MaxEdits, MaxCrashes, MaxCommands   \* bounds of the exploration

VARIABLES
  source,    \* the version of the package the source holds
  copy,      \* copy[k]: <<>> or the one content of the directory
  records,   \* records[k]: <<>> or the one record of packages.json
  command,   \* command[c]: what c is doing
  spent,     \* how many commands and crashes there have been
  torn,      \* copies a crash or another command put out of step with their record
  preserved, \* copies setup found in place and recorded
  refused    \* copies an update refused as modified although they were not, as recorded

vars == <<source, copy, records, command, spent, torn, preserved, refused>>

\* A content is what a version holds, after so many edits; version 0 is a skill
\* of the user's own.  Equal contents have equal hashes and no others.
Content(v, e) == [v |-> v, edits |-> e]
Mine(content) == content.v = 0 \/ content.edits > 0

\* sourceRevision, sourceHash and installedHash.
Record(rev, base, seen) == [rev |-> rev, base |-> base, seen |-> seen]
Idle == [op |-> "none"]
AtWork(k) == \E c \in Commands : command[c] # Idle /\ command[c].key = k

Start(c, op, k, force) ==
  /\ command[c] = Idle
  /\ spent.commands < MaxCommands
  /\ spent' = [spent EXCEPT !.commands = @ + 1]
  /\ torn' = torn \cup {j \in {k} : AtWork(j)}
  /\ command' = [command EXCEPT ![c] =
       [op |-> op, key |-> k, force |-> force, step |-> "prepare", rev |-> 0,
        was |-> records[k], saw |-> <<>>, new |-> 0, file |-> records]]

To(c, step) == command' = [command EXCEPT ![c].step = step]
End(c) == command' = [command EXCEPT ![c] = Idle]
At(c, step) == command[c] # Idle /\ command[c].step = step

-----------------------------------------------------------------------------
\* What a user, the source and the commands do.

Publish ==
  /\ source < MaxVersion
  /\ source' = source + 1
  /\ UNCHANGED <<copy, records, command, spent, torn, preserved, refused>>

Edit(k) ==
  /\ copy[k] # <<>> /\ copy[k][1].edits < MaxEdits
  /\ copy' = [copy EXCEPT ![k][1].edits = @ + 1]
  /\ UNCHANGED <<source, records, command, spent, torn, preserved, refused>>

\* skills new: an original skill, where there is none.
New(k) ==
  /\ copy[k] = <<>>
  /\ spent.commands < MaxCommands
  /\ spent' = [spent EXCEPT !.commands = @ + 1]
  /\ copy' = [copy EXCEPT ![k] = <<Content(0, 0)>>]
  /\ torn' = torn \cup {j \in {k} : AtWork(j)}
  /\ UNCHANGED <<source, records, command, preserved, refused>>

Add(c, k, force) == Start(c, "add", k, force) /\ UNCHANGED <<source, copy, records, preserved, refused>>

\* The record is read first.
Update(c, k) ==
  /\ records[k] # <<>>
  /\ Start(c, "update", k, TRUE)
  /\ UNCHANGED <<source, copy, records, preserved, refused>>

Remove(c, k) ==
  /\ records[k] # <<>>
  /\ Start(c, "remove", k, TRUE)
  /\ UNCHANGED <<source, copy, records, preserved, refused>>

Setup(c, k) == Start(c, "setup", k, FALSE) /\ UNCHANGED <<source, copy, records, preserved, refused>>

\* What an update compares: a copy that is gone counts as it was recorded.
CopyThen(c) ==
  LET k == command[c].key IN IF copy[k] = <<>> THEN command[c].was[1].seen ELSE copy[k][1]
\* mutant: the recorded hash is compared, not the copy's
ModifiedAsRecorded(c) == command[c].was[1].seen # command[c].was[1].base
\* mutant: the copy is compared with what the source holds now
ModifiedBySource(c) == CopyThen(c) # Content(source, 0)
LocalModified(c) == CopyThen(c) # command[c].was[1].base
Available(c) == command[c].was[1].rev # source

\* The source has answered: its revision, and what the copy is now.
Prepared(c) ==
  command' = [command EXCEPT ![c].step = "stage", ![c].rev = source,
                             ![c].saw = copy[command[c].key]]

LookAdd(c) ==
  /\ At(c, "prepare") /\ command[c].op = "add"
  /\ IF copy[command[c].key] # <<>> /\ ~command[c].force THEN End(c) ELSE Prepared(c)
  /\ UNCHANGED <<source, copy, records, spent, torn, preserved, refused>>

LookUpdate(c) ==
  /\ At(c, "prepare") /\ command[c].op = "update"
  /\ IF Available(c) /\ ~LocalModified(c) THEN Prepared(c) ELSE End(c)
  /\ refused' = IF Available(c) /\ LocalModified(c) /\ ~Mine(CopyThen(c))
                THEN refused \cup {command[c].key} ELSE refused
  /\ UNCHANGED <<source, copy, records, spent, torn, preserved>>

\* Setup copies what is missing and records what it finds in place.
LookSetup(c) ==
  /\ At(c, "prepare") /\ command[c].op = "setup"
  /\ IF copy[command[c].key] = <<>>
     THEN command' = [command EXCEPT ![c].step = "drop", ![c].rev = source, ![c].new = source]
     ELSE command' = [command EXCEPT ![c].step = "save", ![c].rev = source, ![c].new = source,
                                     ![c].saw = copy[command[c].key], ![c].file = records]
  /\ preserved' = IF copy[command[c].key] = <<>> THEN preserved ELSE preserved \cup {command[c].key}
  /\ UNCHANGED <<source, copy, records, spent, torn, refused>>

\* The new copy is staged from the source: a directory may have moved on since
\* its revision was read, a commit has not.
Stage(c) ==
  /\ At(c, "stage")
  /\ \E v \in {command[c].rev, source} :
       command' = [command EXCEPT ![c].step = "drop", ![c].new = v]
  /\ UNCHANGED <<source, copy, records, spent, torn, preserved, refused>>

\* The staged package does not load or has another name: nothing changes.
StageFails(c) ==
  /\ At(c, "stage")
  /\ End(c)
  /\ UNCHANGED <<source, copy, records, spent, torn, preserved, refused>>

Drop(c) ==
  /\ At(c, "drop")
  /\ copy' = [copy EXCEPT ![command[c].key] = <<>>]
  /\ To(c, "place")
  /\ UNCHANGED <<source, records, spent, torn, preserved, refused>>

\* The rename, unless somebody else's copy is there by now.
Place(c) ==
  /\ At(c, "place")
  /\ IF copy[command[c].key] = <<>>
     THEN /\ copy' = [copy EXCEPT ![command[c].key] = <<Content(command[c].new, 0)>>]
          /\ command' = [command EXCEPT ![c].step = "save", ![c].file = records]
     ELSE UNCHANGED copy /\ End(c)
  /\ UNCHANGED <<source, records, spent, torn, preserved, refused>>

RemoveCopy(c) ==
  /\ At(c, "prepare") /\ command[c].op = "remove"
  /\ copy' = [copy EXCEPT ![command[c].key] = <<>>]
  /\ command' = [command EXCEPT ![c].step = "save", ![c].file = records]
  /\ UNCHANGED <<source, records, spent, torn, preserved, refused>>

\* mutant: the revision looked at last time stays on record
WrittenStale(c) ==
  IF command[c].op = "remove" THEN <<>>
  ELSE LET base == IF command[c].op = "update" THEN command[c].was[1].base
                   ELSE Content(command[c].new, 0)
       IN <<Record(command[c].rev, base, IF command[c].saw = <<>> \/ command[c].op # "setup"
                                         THEN Content(command[c].new, 0) ELSE command[c].saw[1])>>
\* The record a command writes.  Setup takes the source's hash, the others the
\* hash of what they put in place.
Written(c) ==
  LET made == Content(command[c].new, 0) IN
  IF command[c].op = "remove" THEN <<>>
  ELSE IF command[c].op = "setup" /\ command[c].saw # <<>>
  THEN <<Record(command[c].rev, made, command[c].saw[1])>>
  ELSE <<Record(command[c].rev, made, made)>>

\* The whole file is written as it was read, with this one change.
Save(c) ==
  /\ At(c, "save")
  /\ records' = [command[c].file EXCEPT ![command[c].key] = Written(c)]
  /\ torn' = torn \cup {k \in Copies \ {command[c].key} : records[k] # command[c].file[k]}
  /\ preserved' = IF command[c].op = "setup" /\ command[c].saw # <<>>
                  THEN preserved ELSE preserved \ {command[c].key}
  /\ refused' = refused \ {command[c].key}
  /\ End(c)
  /\ UNCHANGED <<source, copy, spent>>

\* A crash after the old copy is gone and before the record is written.
Crash(c) ==
  /\ command[c] # Idle
  /\ spent.crashes < MaxCrashes
  /\ spent' = [spent EXCEPT !.crashes = @ + 1]
  /\ torn' = IF command[c].step \in {"place", "save"} THEN torn \cup {command[c].key} ELSE torn
  /\ End(c)
  /\ UNCHANGED <<source, copy, records, preserved, refused>>

Init ==
  /\ source = 1
  /\ copy = [k \in Copies |-> <<>>]
  /\ records = [k \in Copies |-> <<>>]
  /\ command = [c \in Commands |-> Idle]
  /\ spent = [commands |-> 0, crashes |-> 0]
  /\ torn = {} /\ preserved = {} /\ refused = {}

Next ==
  \/ Publish
  \/ \E k \in Copies : Edit(k) \/ New(k)
  \/ \E c \in Commands, k \in Copies :
       \/ \E force \in BOOLEAN : Add(c, k, force)
       \/ Update(c, k) \/ Remove(c, k) \/ Setup(c, k)
  \/ \E c \in Commands :
       \/ LookAdd(c) \/ LookUpdate(c) \/ LookSetup(c)
       \/ Stage(c) \/ StageFails(c) \/ Drop(c) \/ Place(c) \/ RemoveCopy(c) \/ Save(c)
       \/ Crash(c)

Spec == Init /\ [][Next]_vars
-----------------------------------------------------------------------------
\* What a user wrote in a copy disappears only by a command that was told to
\* replace it, or that looked at the copy before it was written: "Updates refuse
\* to overwrite locally modified packages" (docs/reference/skills.md:76), and
\* add refuses without --force.
EditSurvives ==
  \A k \in Copies :
    copy[k] # <<>> /\ Mine(copy[k][1]) /\ copy'[k] # copy[k] =>
      \/ copy'[k] # <<>> /\ copy'[k][1].edits > copy[k][1].edits
      \/ \E c \in Commands :
           /\ command[c] # Idle /\ command[c].key = k
           /\ \/ command[c].op = "remove"
              \/ command[c].op = "add" /\ command[c].force
              \/ command[c].saw # copy[k]

\* Once the commands on a copy have ended, its record tells the version that is
\* there, and a copy without a record is the user's own, unless a crash or a
\* second command came in between (the whole file is rewritten by each).
RecordsTrue ==
  \A k \in Copies \ torn :
    ~AtWork(k) =>
      /\ records[k] = <<>> => copy[k] = <<>> \/ copy[k][1].v = 0
      /\ records[k] # <<>> => copy[k] # <<>>
      /\ records[k] # <<>> /\ k \notin preserved => copy[k][1].v = records[k][1].base.v

\* An update that refuses a copy nobody edited does so because a crash or a
\* second command left it beside its record, or because setup recorded the
\* source's newer revision for the copy it found.
RefusalsExcused == refused \subseteq torn \cup preserved
=============================================================================
