----------------------------- MODULE ConfigFile -----------------------------
(***************************************************************************)
(* config/shrimpy.json and those who rewrite it: open sessions whose       *)
(* preferences the user changes (sessions/settings.ts, under a file lock)  *)
(* and the commands, setup dialogs and the terminal interface, which read  *)
(* the whole file, change a field and write the whole file, without the    *)
(* lock (config/store.ts).                                                 *)
(*                                                                         *)
(* The file is one value per field.  A value is the number of the edit     *)
(* that wrote it; 0 is what the field was at first.  A session keeps the   *)
(* compaction settings in memory as they were resolved when it opened,     *)
(* with the overrides of its own agent, channel or name applied.           *)
(***************************************************************************)
EXTENDS Naturals

CONSTANTS
    Sessions,   \* open sessions whose /settings the user may change
    Scoped,     \* those with a compaction override of their own
    Editors,    \* commands and dialogs that edit the file
    MaxEdits    \* bound on edits

ASSUME ConfigAssumption ==
    /\ Scoped \subseteq Sessions /\ Sessions \cap Editors = {}
    /\ MaxEdits \in Nat

Compaction == {"enabled", "reserve"}

Fields == Compaction \cup {"theme", "policies"}

\* The reserve an override names.
Override == MaxEdits + 1

VARIABLES
    file,       \* the values on disk
    memory,     \* each session's compaction settings; <<>> when not open
    writing,    \* each writer's copy of the file and its change; <<>> if none
    lock,       \* <<>> or <<s>>: the session holding the file's lock
    edits,      \* edits begun
    saved,      \* the last value each field was given on purpose
    by,         \* who gave it
    excused     \* fields overwritten in a way the code does not exclude

vars == <<file, memory, writing, lock, edits, saved, by, excused>>

Writers == Sessions \cup Editors

Init == /\ file = [f \in Fields |-> 0]
        /\ memory = [s \in Sessions |-> <<>>]
        /\ writing = [w \in Writers |-> <<>>]
        /\ lock = <<>> /\ edits = 0
        /\ saved = file /\ by = [f \in Fields |-> <<>>] /\ excused = {}

\* The policy resolved when a session opens.
Effective(s) ==
    [f \in Compaction |-> IF f = "reserve" /\ s \in Scoped
                            THEN Override ELSE file[f]]

Open(s) ==
    /\ memory[s] = <<>>
    /\ memory' = [memory EXCEPT ![s] = <<Effective(s)>>]
    /\ UNCHANGED <<file, writing, lock, edits, saved, by, excused>>

Close(s) ==
    /\ memory[s] # <<>> /\ writing[s] = <<>>
    /\ memory' = [memory EXCEPT ![s] = <<>>]
    /\ UNCHANGED <<file, writing, lock, edits, saved, by, excused>>

\* A writer holds the file as it read it and the field it will change.
Read(w, f) ==
    /\ writing[w] = <<>> /\ edits < MaxEdits
    /\ edits' = edits + 1
    /\ writing' = [writing EXCEPT ![w] =
                     <<[raw |-> file, field |-> f, value |-> edits + 1]>>]

\* mutant: the preference is saved without the lock
SaveUnlocked(s, f) ==
    /\ memory[s] # <<>> /\ f \in {"theme", "enabled"}
    /\ Read(s, f)
    /\ UNCHANGED <<file, memory, lock, saved, by, excused>>

\* The user changes a preference of an open session: the file is read when
\* its lock is had.
Save(s, f) ==
    /\ memory[s] # <<>> /\ lock = <<>> /\ f \in {"theme", "enabled"}
    /\ Read(s, f)
    /\ lock' = <<s>>
    /\ UNCHANGED <<file, memory, saved, by, excused>>

\* Pi is shown the session's own compaction settings and returns them with
\* its change: when that changed one of them, all are written.
Returned(s) == LET w == writing[s][1] IN
            IF w.field \in Compaction
              THEN [memory[s][1] EXCEPT ![w.field] = w.value]
              ELSE memory[s][1]

Composed(s) ==
    LET w == writing[s][1]
    IN [f \in Fields |->
          IF f = w.field THEN w.value
          ELSE IF f \in Compaction /\ Returned(s) # memory[s][1] THEN Returned(s)[f]
          ELSE w.raw[f]]

\* Fields changed on disk since the writer read them.
Missed(w) == {f \in Fields \ {writing[w][1].field} : file[f] # writing[w][1].raw[f]}

Given(w) ==
    LET c == writing[w][1]
    IN /\ saved' = [saved EXCEPT ![c.field] = c.value]
       /\ by' = [by EXCEPT ![c.field] = <<w>>]
       /\ writing' = [writing EXCEPT ![w] = <<>>]

Excuse(w, fs) == excused' = (excused \cup fs) \ {writing[w][1].field}

\* A session writes what it read, with its change; only editors do not wait
\* for the lock, and only compaction settings come from memory.
Store(s) ==
    /\ writing[s] # <<>>
    /\ file' = Composed(s)
    /\ memory' = [memory EXCEPT ![s] = <<Returned(s)>>]
    /\ Given(s)
    /\ Excuse(s, {f \in Missed(s) : by[f] # <<>> /\ by[f][1] \in Editors}
                 \cup {f \in Compaction : Composed(s)[f] # writing[s][1].raw[f]})
    /\ lock' = <<>>
    /\ UNCHANGED edits

Edit(w, f) == Read(w, f) /\ UNCHANGED <<file, memory, lock, saved, by, excused>>

Write(w) ==
    /\ writing[w] # <<>>
    /\ file' = [writing[w][1].raw EXCEPT ![writing[w][1].field] = writing[w][1].value]
    /\ Given(w)
    /\ Excuse(w, Missed(w))
    /\ UNCHANGED <<memory, lock, edits>>

\* The dialog is left, or the edited file is not valid.
Leave(w) ==
    /\ writing[w] # <<>>
    /\ writing' = [writing EXCEPT ![w] = <<>>]
    /\ UNCHANGED <<file, memory, lock, edits, saved, by, excused>>

Next ==
    \/ \E s \in Sessions : Open(s) \/ Close(s) \/ Store(s)
                           \/ \E f \in Fields : Save(s, f)
    \/ \E w \in Editors : Write(w) \/ Leave(w) \/ \E f \in Fields : Edit(w, f)

Spec == Init /\ [][Next]_vars

(***************************************************************************)
(* Properties                                                              *)
(***************************************************************************)

\* A saved value stays on disk until the field is saved again, except when
\* an editor, which takes no lock, wrote or was overwritten in between, or
\* a session wrote the compaction settings it had in memory.
SavesKept == \A f \in Fields \ excused : file[f] = saved[f]

\* What the reference says of compaction overrides, that they are scoped:
\* an override of one session never becomes the workspace's setting.
ScopesKept == file["reserve"] # Override
=============================================================================
