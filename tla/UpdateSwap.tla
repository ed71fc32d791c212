----------------------------- MODULE UpdateSwap -----------------------------
(***************************************************************************)
(* `shrimpy update apply`: replacing the installed app by a tagged release *)
(* (update/apply.ts, commands/update.ts).                                  *)
(*                                                                         *)
(* A command checks that the app's checkout is the recorded commit, builds *)
(* the release in a directory of its own, and under a file lock moves the  *)
(* app aside, moves the release in, checks it, records it and deletes the  *)
(* old app.  An error after the first move undoes the moves.  A command    *)
(* may die between any two steps.  The lock cannot be refreshed while its  *)
(* holder runs synchronously, so after ten seconds, which a check may      *)
(* take, another command considers it abandoned.                           *)
(*                                                                         *)
(* A directory is <<>> when it does not exist, otherwise <<tree>> with the *)
(* tree's commit and whether all its files are there.                      *)
(***************************************************************************)
EXTENDS Naturals

CONSTANTS
    Commands,     \* processes running `shrimpy update apply`
    Releases,     \* commits of the tagged releases
    Installed,    \* the commit installed at first
    MaxErrors,    \* bound on failing file operations and failing checks
    MaxCrashes,   \* bound on deaths of a command
    MaxApplies    \* bound on commands started

VARIABLES
    app,          \* the directory of the installed app
    meta,         \* installedCommit of .shrimpy-install.json
    lock,         \* <<>> or <<c>>: who made the lock directory
    cmd,          \* what each command has done and holds
    errors, crashes, applies,
    excuse        \* what has gone wrong beyond the code's own recovery

vars == <<app, meta, lock, cmd, errors, crashes, applies, excuse>>

Tree(commit) == <<[commit |-> commit, whole |-> TRUE]>>

Torn(tree) == <<[tree[1] EXCEPT !.whole = FALSE]>>

Idle == [at |-> "idle", read |-> Installed, target |-> Installed,
         stage |-> <<>>, backup |-> <<>>, failed |-> <<>>,
         oldMoved |-> FALSE, newInstalled |-> FALSE]

Init == /\ app = Tree(Installed) /\ meta = Installed /\ lock = <<>>
        /\ cmd = [c \in Commands |-> Idle]
        /\ errors = 0 /\ crashes = 0 /\ applies = 0 /\ excuse = {}

(***************************************************************************)
(* Before the lock                                                         *)
(***************************************************************************)

\* The planned commit is the recorded one and the checkout is clean and at
\* that commit; the release must differ.
MayApply(r) == app = Tree(meta) /\ r # meta

Plan(c, r) ==
    /\ cmd[c].at = "idle" /\ applies < MaxApplies /\ MayApply(r)
    /\ cmd' = [cmd EXCEPT ![c] = [Idle EXCEPT !.at = "stage", !.read = meta,
                                              !.target = r]]
    /\ applies' = applies + 1
    /\ UNCHANGED <<app, meta, lock, errors, crashes, excuse>>

Stage(c) ==
    /\ cmd[c].at = "stage"
    /\ cmd' = [cmd EXCEPT ![c].at = "lock", ![c].stage = Tree(cmd[c].target)]
    /\ UNCHANGED <<app, meta, lock, errors, crashes, applies, excuse>>

\* A clone, build or check that fails removes what it staged, as does a
\* lock that is not had within fifteen seconds.
GiveUp(c) ==
    /\ cmd[c].at \in {"stage", "lock"} /\ errors < MaxErrors
    /\ cmd' = [cmd EXCEPT ![c] = Idle]
    /\ errors' = errors + 1
    /\ UNCHANGED <<app, meta, lock, crashes, applies, excuse>>

\* A lock is abandoned when its maker died, or has been in its check (the
\* long step) for more than the ten seconds a lock stays fresh.
Abandoned(c) == cmd[c].at \in {"dead", "check", "recheck"}

Lock(c) ==
    /\ cmd[c].at = "lock"
    /\ lock # <<>> => Abandoned(lock[1])
    /\ excuse' = IF lock # <<>> /\ cmd[lock[1]].at # "dead"
                   THEN excuse \cup {"stale lock"} ELSE excuse
    /\ lock' = <<c>>
    /\ cmd' = [cmd EXCEPT ![c].at = "reread"]
    /\ UNCHANGED <<app, meta, errors, crashes, applies>>

(***************************************************************************)
(* Under the lock                                                          *)
(***************************************************************************)

\* The lock directory is removed whoever made it; the stage is removed.
End == lock' = <<>>

Step(c, to) == cmd' = [cmd EXCEPT ![c].at = to]

\* mutant: the record is not compared with the plan again
Planned(c) == FALSE

Unplanned(c) == meta # cmd[c].read

Reread(c) ==
    /\ cmd[c].at = "reread"
    /\ IF Unplanned(c) THEN End /\ cmd' = [cmd EXCEPT ![c] = Idle]
                       ELSE Step(c, "moveOld") /\ UNCHANGED lock
    /\ UNCHANGED <<app, meta, errors, crashes, applies, excuse>>

\* A rename needs its source and an absent destination, and may fail.
MoveOld(c) ==
    /\ cmd[c].at = "moveOld" /\ app # <<>>
    /\ app' = <<>>
    /\ cmd' = [cmd EXCEPT ![c].at = "moveNew", ![c].backup = app,
                          ![c].oldMoved = TRUE]
    /\ UNCHANGED <<meta, lock, errors, crashes, applies, excuse>>

MoveOldFails(c) ==
    /\ cmd[c].at = "moveOld"
    /\ app # <<>> => errors < MaxErrors
    /\ errors' = IF app # <<>> THEN errors + 1 ELSE errors
    /\ End /\ cmd' = [cmd EXCEPT ![c] = Idle]
    /\ UNCHANGED <<app, meta, crashes, applies, excuse>>

\* mutant: the old app is deleted as soon as the release is in its place
MoveNewOnly(c) ==
    /\ cmd[c].at = "moveNew" /\ app = <<>>
    /\ app' = cmd[c].stage
    /\ cmd' = [cmd EXCEPT ![c].at = "check", ![c].stage = <<>>,
                          ![c].newInstalled = TRUE, ![c].backup = <<>>]
    /\ UNCHANGED <<meta, lock, errors, crashes, applies, excuse>>

\* mutant: nothing notes that the release is in its place
MoveNewUnnoted(c) ==
    /\ cmd[c].at = "moveNew" /\ app = <<>>
    /\ app' = cmd[c].stage
    /\ cmd' = [cmd EXCEPT ![c].at = "check", ![c].stage = <<>>]
    /\ UNCHANGED <<meta, lock, errors, crashes, applies, excuse>>

MoveNew(c) ==
    /\ cmd[c].at = "moveNew" /\ app = <<>>
    /\ app' = cmd[c].stage
    /\ cmd' = [cmd EXCEPT ![c].at = "check", ![c].stage = <<>>,
                          ![c].newInstalled = TRUE]
    /\ UNCHANGED <<meta, lock, errors, crashes, applies, excuse>>

Works == app # <<>> /\ app[1].whole

Check(c) ==
    /\ cmd[c].at = "check" /\ Works
    /\ Step(c, "commit")
    /\ UNCHANGED <<app, meta, lock, errors, crashes, applies, excuse>>

Commit(c) ==
    /\ cmd[c].at = "commit"
    /\ meta' = cmd[c].target
    /\ Step(c, "removeOld")
    /\ UNCHANGED <<app, lock, errors, crashes, applies, excuse>>

RemoveOld(c) ==
    /\ cmd[c].at = "removeOld"
    /\ cmd' = [cmd EXCEPT ![c] = Idle] /\ End
    /\ UNCHANGED <<app, meta, errors, crashes, applies, excuse>>

(***************************************************************************)
(* The catch block                                                         *)
(***************************************************************************)

\* A move, a check or the record's write that fails.
Fails(c) ==
    /\ cmd[c].at \in {"moveNew", "check", "commit"}
    /\ \/ errors < MaxErrors /\ errors' = errors + 1
       \/ /\ cmd[c].at = "moveNew" => app # <<>>
          /\ cmd[c].at = "check" => ~Works
          /\ cmd[c].at # "commit" /\ UNCHANGED errors
    /\ Step(c, "undoNew")
    /\ UNCHANGED <<app, meta, lock, crashes, applies, excuse>>

\* Deleting the old app may fail with some of its files deleted, and takes
\* the same way out although the release is recorded already.
RemoveOldFails(c) ==
    /\ cmd[c].at = "removeOld" /\ errors < MaxErrors /\ errors' = errors + 1
    /\ \E left \in {cmd[c].backup, Torn(cmd[c].backup)} :
           cmd' = [cmd EXCEPT ![c].at = "undoNew", ![c].backup = left]
    /\ excuse' = excuse \cup {"undone after record"}
    /\ UNCHANGED <<app, meta, lock, crashes, applies>>

UndoNew(c) ==
    /\ cmd[c].at = "undoNew"
    /\ IF cmd[c].newInstalled /\ app # <<>>
         THEN /\ app' = <<>>
              /\ cmd' = [cmd EXCEPT ![c].at = "undoOld", ![c].failed = app]
         ELSE Step(c, "undoOld") /\ UNCHANGED app
    /\ UNCHANGED <<meta, lock, errors, crashes, applies, excuse>>

\* When something is in the way the rename's error leaves the catch block.
UndoOld(c) ==
    /\ cmd[c].at = "undoOld"
    /\ IF app = <<>>
         THEN /\ app' = cmd[c].backup
              /\ cmd' = [cmd EXCEPT ![c].at = "recheck", ![c].backup = <<>>,
                                    ![c].failed = <<>>]
              /\ UNCHANGED lock
         ELSE /\ End /\ cmd' = [cmd EXCEPT ![c].at = "idle", ![c].stage = <<>>]
              /\ UNCHANGED app
    /\ UNCHANGED <<meta, errors, crashes, applies, excuse>>

\* The restored app is checked; the command fails either way.
Recheck(c) ==
    /\ cmd[c].at = "recheck"
    /\ End /\ cmd' = [cmd EXCEPT ![c] = Idle]
    /\ UNCHANGED <<app, meta, errors, crashes, applies, excuse>>

\* The command dies; what it moved stays where it is.
Crash(c) ==
    /\ cmd[c].at \notin {"idle", "dead"} /\ crashes < MaxCrashes
    /\ Step(c, "dead") /\ crashes' = crashes + 1
    /\ UNCHANGED <<app, meta, lock, errors, applies, excuse>>

Working(c) ==
    \/ \E r \in Releases : Plan(c, r)
    \/ Stage(c) \/ GiveUp(c) \/ Lock(c) \/ Reread(c)
    \/ MoveOld(c) \/ MoveOldFails(c) \/ MoveNew(c) \/ Check(c) \/ Commit(c)
    \/ RemoveOld(c) \/ Fails(c) \/ RemoveOldFails(c)
    \/ UndoNew(c) \/ UndoOld(c) \/ Recheck(c)

Next == \E c \in Commands : Working(c) \/ Crash(c)

Spec == Init /\ [][Next]_vars

(***************************************************************************)
(* Properties                                                              *)
(***************************************************************************)

\* A whole copy of the recorded release is on disk at every moment, as the
\* app or as a backup, whatever step of a swap fails or is the last of its
\* process; except when deleting the old app failed after the record.
RecordedKept ==
    excuse = {} => \E tree \in {app} \cup {cmd[c].backup : c \in Commands} :
                       tree = Tree(meta)

\* When no command is at work and none died, the app is the recorded
\* release, whole: every error's way out restored it.
QuietIsRecorded ==
    ( /\ excuse = {}
      /\ \A c \in Commands : cmd[c].at \in {"idle", "stage", "lock"} )
    => app = Tree(meta)

\* A command replaces the release it was planned from: never one another
\* command installed in the meantime.
CommitsPlanned ==
    excuse = {} => \A c \in Commands :
        cmd[c].at = "commit" /\ meta' # meta => meta = cmd[c].read

=============================================================================
