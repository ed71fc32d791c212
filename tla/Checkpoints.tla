----------------------------- MODULE Checkpoints -----------------------------
(***************************************************************************)
(* The workspace kept in a git repository of its own: tracking is begun by *)
(* a command, checkpoints are made by a command or by the gateway's timer  *)
(* (workspace/checkpoints/git.ts, scheduler.ts, commands/workspace.ts).    *)
(* Each is a row of git commands; between two of them files change, other  *)
(* checkpoints run and the program may die.                                *)
(*                                                                         *)
(* Git itself is external: a command of it is atomic, and fails when       *)
(* another holds its lock.                                                 *)
(***************************************************************************)
EXTENDS Naturals

CONSTANTS
    Listed,       \* files the whitelist lets in
    Private,    \* files it keeps out
    Programs,   \* commands and ticks of the timer
    MaxEdits, MaxRuns, MaxFailures  \* bounds

CheckpointAssumption ==
    {MaxEdits, MaxRuns, MaxFailures} \subseteq Nat /\ Listed \cap Private = {}

Files == Listed \cup Private

VARIABLES
    files,      \* the content of each file; 0 is none
    ignore,     \* .gitignore: "none", "ours" or "other"
    repo,       \* whether the workspace has a repository of its own
    staged, head,  \* git's index and the last commit, by file
    run,        \* what each program is at; <<>> when it does not run
    told,       \* <<>> or <<what the last checkpoint answered>>
    counts

vars == <<files, ignore, repo, staged, head, run, told, counts>>

Init == /\ files = [f \in Files |-> 1]
        /\ ignore \in {"none", "ours", "other"} /\ repo \in BOOLEAN
        /\ staged = [f \in Files |-> 0] /\ head = staged
        /\ run = [p \in Programs |-> <<>>]
        /\ told = <<>>
        /\ counts = [edits |-> 0, runs |-> 0, failures |-> 0]

(***************************************************************************)
(* The user and the agents                                                 *)
(***************************************************************************)

Edit(f) ==
    /\ counts.edits < MaxEdits
    /\ counts' = [counts EXCEPT !.edits = @ + 1]
    /\ files' = [files EXCEPT ![f] = counts.edits + 2]
    /\ UNCHANGED <<ignore, repo, staged, head, run, told>>

\* While checkpoints are made, the whitelist may be gone.
EditIgnore(content) ==
    /\ counts.edits < MaxEdits /\ content # ignore
    /\ counts' = [counts EXCEPT !.edits = @ + 1]
    /\ ignore' = content
    /\ run' = [p \in Programs |-> IF run[p] = <<>> THEN <<>>
                                  ELSE <<[run[p][1] EXCEPT !.meddled = TRUE]>>]
    /\ UNCHANGED <<files, repo, staged, head, told>>

(***************************************************************************)
(* Git                                                                     *)
(***************************************************************************)

\* mutant: the checkpoint is made whatever .gitignore says
AnyIgnore == TRUE

GitignoreMatches == ignore = "ours"

\* What git looks at: what is not ignored, and what it has tracked before.
Seen(f) == f \in Listed \/ ignore # "ours" \/ staged[f] # 0

Changed == {f \in Files : Seen(f) /\ (files[f] # staged[f] \/ staged[f] # head[f])}

(***************************************************************************)
(* The programs                                                            *)
(***************************************************************************)

Goes(p, step) == run' = [run EXCEPT ![p][1].at = step]

Ends(p, answer) == /\ run' = [run EXCEPT ![p] = <<>>]
                   /\ told' = answer

Start(p, use) ==
    /\ run[p] = <<>> /\ counts.runs < MaxRuns
    /\ counts' = [counts EXCEPT !.runs = @ + 1]
    /\ run' = [run EXCEPT ![p] =
                 <<[use |-> use, at |-> IF use = "init" THEN "init" ELSE "check",
                    had |-> [f \in Files |-> {}], meddled |-> FALSE]>>]
    /\ told' = <<>>
    /\ UNCHANGED <<files, ignore, repo, staged, head>>

At(p, step) == run[p] # <<>> /\ run[p][1].at = step

\* Tracking is refused where a repository or a .gitignore of the user's is.
Initialize(p) ==
    /\ At(p, "init")
    /\ IF ignore = "other" \/ (repo /\ ~GitignoreMatches)
         THEN Ends(p, <<>>) /\ UNCHANGED repo
         ELSE repo' = TRUE /\ Goes(p, "whitelist") /\ UNCHANGED told
    /\ UNCHANGED <<files, ignore, staged, head, counts>>

\* The whitelist is written where no .gitignore is by now.
WriteGitignore(p) ==
    /\ At(p, "whitelist")
    /\ ignore' = IF ignore = "none" THEN "ours" ELSE ignore
    /\ Goes(p, "check")
    /\ UNCHANGED <<files, repo, staged, head, told, counts>>

\* The repository and the whitelist are looked at, then what has changed: the
\* timer does nothing where tracking is off.
AssertCheckpointRepo(p) ==
    /\ At(p, "check")
    /\ IF repo /\ GitignoreMatches THEN Goes(p, "status") /\ UNCHANGED told
       ELSE Ends(p, <<>>)
    /\ UNCHANGED <<files, ignore, repo, staged, head, counts>>

\* Nothing to commit is an answer too.
Status(p, next) ==
    /\ \/ /\ Changed = {}
          /\ Ends(p, <<[created |-> FALSE, meddled |-> run[p][1].meddled,
                        saved |-> \A f \in Listed : head[f] = files[f]]>>)
       \/ /\ Changed # {}
          /\ Goes(p, next)
          /\ UNCHANGED told
    /\ UNCHANGED <<files, ignore, repo, staged, head, counts>>

InspectStatus(p) == At(p, "status") /\ Status(p, "add")

Add(p) ==
    /\ At(p, "add")
    /\ staged' = [f \in Files |-> IF Seen(f) THEN files[f] ELSE staged[f]]
    /\ run' = [run EXCEPT ![p][1].at = "staged", ![p][1].had = files]
    /\ UNCHANGED <<files, ignore, repo, head, told, counts>>

InspectStaged(p) == At(p, "staged") /\ Status(p, "commit")

\* Git commits what is staged, and refuses when nothing is.
Commit(p) ==
    /\ At(p, "commit") /\ staged # head
    /\ head' = staged
    /\ Ends(p, <<[created |-> TRUE, meddled |-> run[p][1].meddled,
                  saved |-> \A f \in Listed : staged[f] >= run[p][1].had[f]]>>)
    /\ UNCHANGED <<files, ignore, repo, staged, counts>>

CommitRefused(p) ==
    /\ At(p, "commit") /\ staged = head
    /\ Ends(p, <<>>)
    /\ UNCHANGED <<files, ignore, repo, staged, head, counts>>

\* A git command fails, or the program dies before the next one.
Fails(p) ==
    /\ run[p] # <<>> /\ counts.failures < MaxFailures
    /\ counts' = [counts EXCEPT !.failures = @ + 1]
    /\ Ends(p, <<>>)
    /\ UNCHANGED <<files, ignore, repo, staged, head>>

Next ==
    \/ \E f \in Files : Edit(f)
    \/ \E c \in {"none", "ours", "other"} : EditIgnore(c)
    \/ \E p \in Programs :
         \/ \E use \in {"init", "checkpoint"} : Start(p, use)
         \/ Initialize(p) \/ WriteGitignore(p) \/ AssertCheckpointRepo(p)
         \/ InspectStatus(p) \/ Add(p) \/ InspectStaged(p) \/ Commit(p) \/ CommitRefused(p)
         \/ Fails(p)

Spec == Init /\ [][Next]_vars

(***************************************************************************)
(* Properties                                                              *)
(***************************************************************************)

\* What the whitelist keeps out is never added, however checkpoints overlap and
\* fail, unless .gitignore was changed while one was being made.
PrivateStaysOut ==
    \A f \in Private, p \in Programs :
      Add(p) /\ staged'[f] # staged[f] => run[p][1].meddled \/ staged[f] # 0

\* A checkpoint that answers has every file the whitelist lets in as it was when
\* files were added, or later, in the last commit; and one that finds nothing to do
\* found everything committed.
AnswersAreSaved == told # <<>> /\ ~told[1].meddled => told[1].saved
=============================================================================
