----------------------------- MODULE WebWatcher -----------------------------
(***************************************************************************)
(* How the web inspector's server learns that workspace files changed      *)
(* (web/server/watcher.ts): notifications of the operating system, and a   *)
(* scan of all directories every five seconds and after every event sent   *)
(* to the browsers.  A scan reads file after file while others change, and *)
(* scans overlap: an older one may end after a newer one.                  *)
(***************************************************************************)
EXTENDS Naturals

CONSTANTS
    Files,       \* workspace files
    Scans,       \* scans that may overlap
    MaxChanges   \* bound on changes of files

VARIABLES
    disk,        \* each file's time and size, as a number; 0: no such file
    changes,
    running,     \* the watcher was started and not stopped
    snapshot,    \* what the last scan to end found; <<>> before the first
    scan,        \* what each scan has read so far: a partial function
    pending,     \* paths to announce
    flushing,    \* the timer that announces them is set
    told         \* what each file was when it was last announced

vars == <<disk, changes, running, snapshot, scan, pending, flushing, told>>

Idle == [reading |-> FALSE, found |-> [f \in {} |-> 0]]

Init == /\ disk \in [Files -> {0, 1}] /\ changes = 1
        /\ running = FALSE /\ snapshot = <<>>
        /\ scan = [s \in Scans |-> Idle]
        /\ pending = {} /\ flushing = FALSE /\ told = disk

\* mutant: a path is not added while the timer runs
QueueFirst(paths) ==
    /\ pending' = IF flushing THEN pending ELSE pending \cup paths
    /\ flushing' = (flushing \/ paths # {})

\* Paths are gathered until the timer, set by the first, fires.
Queue(paths) == /\ pending' = pending \cup paths
                /\ flushing' = (flushing \/ paths # {})

\* A file is written, replaced or removed; the system tells it or not.
Change(f) ==
    /\ changes < MaxChanges
    /\ changes' = changes + 1
    /\ disk' = [disk EXCEPT ![f] = IF @ = 0 THEN changes + 1 ELSE 0]
       \/ disk' = [disk EXCEPT ![f] = changes + 1]
    /\ \/ UNCHANGED <<pending, flushing>>
       \/ running /\ Queue({f})
    /\ UNCHANGED <<running, snapshot, scan, told>>

Begin(s) ==
    /\ ~scan[s].reading
    /\ scan' = [scan EXCEPT ![s].reading = TRUE]

\* Starting scans once before the first interval; stopping lets a scan end
\* unused.
Start(s) == /\ ~running /\ running' = TRUE /\ snapshot = <<>>
            /\ Begin(s)
            /\ UNCHANGED <<disk, changes, snapshot, pending, flushing, told>>

Stop == /\ running /\ snapshot # <<>> /\ running' = FALSE /\ flushing' = FALSE
        /\ UNCHANGED <<disk, changes, snapshot, scan, pending, told>>

Tick(s) == /\ running /\ snapshot # <<>> /\ Begin(s)
           /\ UNCHANGED <<disk, changes, running, snapshot, pending, flushing, told>>

\* Reading is per file, each at its own moment.
Look(s, f) ==
    /\ scan[s].reading /\ f \notin DOMAIN scan[s].found
    /\ scan' = [scan EXCEPT ![s].found =
                  [g \in DOMAIN @ \cup {f} |-> IF g = f THEN disk[f] ELSE @[g]]]
    /\ UNCHANGED <<disk, changes, running, snapshot, pending, flushing, told>>

\* What differs from the last snapshot is announced.  The first has none:
\* the server answers browsers, with the files as they are, from then on.
Finish(s) ==
    /\ scan[s].reading /\ DOMAIN scan[s].found = Files
    /\ scan' = [scan EXCEPT ![s] = Idle]
    /\ IF running
         THEN /\ snapshot' = <<scan[s].found>>
              /\ Queue(IF snapshot = <<>> THEN {}
                       ELSE {f \in Files : snapshot[1][f] # scan[s].found[f]})
              /\ told' = IF snapshot = <<>> THEN disk ELSE told
         ELSE UNCHANGED <<snapshot, pending, flushing, told>>
    /\ UNCHANGED <<disk, changes, running>>

\* Browsers read an announced file again; a scan follows.
Flush(s) ==
    /\ flushing /\ running
    /\ flushing' = FALSE /\ pending' = {}
    /\ told' = [f \in Files |-> IF f \in pending THEN disk[f] ELSE told[f]]
    /\ Begin(s)
    /\ UNCHANGED <<disk, changes, running, snapshot>>

Next == \/ \E f \in Files : Change(f) \/ \E s \in Scans : Look(s, f)
        \/ \E s \in Scans : Start(s) \/ Tick(s) \/ Finish(s) \/ Flush(s)
        \/ Stop

Spec == Init /\ [][Next]_vars

(***************************************************************************)
(* Properties                                                              *)
(***************************************************************************)

\* No change goes unseen: a file of which browsers hold an old version is
\* about to be announced, or differs from the snapshot the next scan is
\* compared with, whatever scans overlap.  (A removal may go unseen: "no
\* such file" has no time to tell one absence from another.)
ChangesSeen ==
    running /\ snapshot # <<>> =>
        \A f \in Files : \/ told[f] = disk[f] \/ disk[f] = 0
                         \/ f \in pending /\ flushing
                         \/ snapshot[1][f] # disk[f]
=============================================================================
