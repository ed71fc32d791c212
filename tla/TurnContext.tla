------------------------------ MODULE TurnContext ------------------------------
(***************************************************************************)
(* What a model turn is told of the world around it, and what each         *)
(* transcript is known to have been told (context/turn/).  One agent runs  *)
(* several sessions at once, in several programs; they share one state     *)
(* file, changed under a lock: the ledger of the agent's activity, and for *)
(* each transcript its place in the ledger and the facts it has seen.      *)
(***************************************************************************)
EXTENDS Naturals, Sequences, FiniteSets, SequencesExt, FiniteSetsExt, Functions

CONSTANTS
  Sessions,
  Facts,          \* items from the watches, workers, sessions, producers, documents
  Revisions,      \* what a fact may say
  MaxEntries,     \* MAX_ACTIVITY_ENTRIES
  MaxItems,       \* MAX_ACTIVITY_ITEMS
  MaxSeen,        \* MAX_SEEN_ITEMS_PER_SESSION
  MaxPerTurn,     \* MAX_ACTIVITY_ENTRIES_PER_TURN
  MaxActivity,    \* bound: entries ever recorded
  MaxChanges,     \* bound: changes of facts
  MaxResets       \* bound: resets and failures of turns

VARIABLES
  fact,           \* [Facts -> Revisions]
  ledger,         \* the activity entries, oldest first
  next,           \* nextActivitySequence
  life,           \* [Sessions -> the transcript a session's address stands for now]
  cursor,         \* [transcripts -> activityCursor]
  seen,           \* [transcripts -> seenItems, oldest first]
  turn,           \* [Sessions -> the turn being made: Idle, or what was selected]
  told,           \* ghost: [transcripts -> what its prompts held: entries, and each fact's last revision]
  lost,           \* ghost: [transcripts -> what was marked for a turn that then failed]
  skipped,        \* ghost: [transcripts -> entries left out as too many at once]
  changes, resets

vars == <<fact, ledger, next, life, cursor, seen, turn, told, lost, skipped, changes, resets>>

\* A transcript: a session and the number of times it was reset.
Transcripts == Sessions \X (0..MaxResets)
At(s) == <<s, life[s]>>

Entry(n) == [id |-> "activity", rev |-> n]
IsEntry(item) == item.id = "activity"
Idle == [phase |-> "idle", items |-> <<>>, base |-> 0, latest |-> 0]

----------------------------------------------------------------------------
(* The ledger.                                                             *)

\* appendAgentActivity: a settled turn records what it did, and the ledger
\* forgets its oldest entries.
Kept(entries) ==
  SubSeq(entries, Len(entries) - Min({Len(entries), MaxEntries}) + 1, Len(entries))
AppendAgentActivity(s, n) ==
  /\ ledger' = Kept(ledger \o [k \in 1..n |-> [seq |-> next + k - 1, by |-> At(s)]])
  /\ next' = next + n

\* A fact says something else: a watch ran, a worker ended, a note changed.
ChangeFact ==
  /\ changes < MaxChanges
  /\ \E f \in Facts, r \in Revisions : r # fact[f] /\ fact' = [fact EXCEPT ![f] = r]
  /\ changes' = changes + 1
  /\ UNCHANGED <<ledger, next, life, cursor, seen, turn, told, lost, skipped, resets>>

----------------------------------------------------------------------------
(* Selecting: buildTurnContext, selectSessionUnseenItems.                  *)

Unseen(t) == SelectSeq(ledger, LAMBDA e : e.seq > cursor[t] /\ e.by # t)
Selected(t) == SubSeq(Unseen(t), Len(Unseen(t)) - Min({Len(Unseen(t)), MaxItems}) + 1, Len(Unseen(t)))
Latest == IF ledger = <<>> THEN 0 ELSE Last(ledger).seq

HasSeen(t, item) == item \in ToSet(seen[t])
FactItems(t) ==
  SelectSeq(SetToSeq({[id |-> f, rev |-> fact[f]] : f \in Facts}), LAMBDA i : ~HasSeen(t, i))

BuildTurnContext(s) ==
  LET t == At(s)
      entries == Selected(t)
  IN /\ turn[s].phase = "idle"
     /\ turn' = [turn EXCEPT ![s] =
          [phase |-> "built",
           items |-> [k \in DOMAIN entries |-> Entry(entries[k].seq)] \o FactItems(t),
           base |-> IF entries = <<>> THEN Latest ELSE entries[1].seq - 1,
           latest |-> Latest]]
     /\ skipped' = [skipped EXCEPT ![t] = @ \union ({e.seq : e \in ToSet(Unseen(t))} \ {e.seq : e \in ToSet(entries)})]
     /\ UNCHANGED <<fact, ledger, next, life, cursor, seen, told, lost, changes, resets>>

----------------------------------------------------------------------------
(* Marking: what fits is rendered and remembered, before the turn runs.    *)

\* mutants: the ledger is taken as read even when not all of it fitted; the
\* place in the ledger is where the entries began
CursorLatest(c, n) == c.latest
CursorBase(c, n) == c.base
\* deliveredActivityCursor: up to the first entry that did not fit.
Cursor(c, n) ==
  LET entries == SelectSeq(c.items, IsEntry)
  IN IF n >= Len(entries) THEN c.latest
     ELSE IF n = 0 THEN c.base ELSE entries[n].rev

\* rememberSessionContextDelivery: what is seen again becomes the youngest, the
\* oldest are forgotten.
Remembered(old, new) ==
  LET ids == {i.id : i \in ToSet(new)}
      all == SelectSeq(old, LAMBDA i : i.id \notin ids) \o new
  IN SubSeq(all, Len(all) - Min({Len(all), MaxSeen}) + 1, Len(all))

\* renderTurnContextResult: the items come in order until one does not fit.
MarkTurnContextDelivered(s, n) ==
  LET t == At(s)
      c == turn[s]
      delivered == SubSeq(c.items, 1, n)
  IN /\ c.phase = "built"
     /\ n \in 0..Len(c.items)
     /\ cursor' = [cursor EXCEPT ![t] = Max({@, Cursor(c, n)})]
     /\ seen' = [seen EXCEPT ![t] = Remembered(@, SelectSeq(delivered, LAMBDA i : ~IsEntry(i)))]
     /\ turn' = [turn EXCEPT ![s] = [Idle EXCEPT !.phase = "marked", !.items = delivered]]
     /\ UNCHANGED <<fact, ledger, next, life, told, lost, skipped, changes, resets>>

----------------------------------------------------------------------------
(* The turn.                                                               *)

Delivered(s) == IF turn[s].phase = "marked" THEN ToSet(turn[s].items) ELSE {}
EntriesOf(items) == {i.rev : i \in {j \in items : IsEntry(j)}}
FactsOf(items) == {i \in items : ~IsEntry(i)}

Tell(old, items) ==
  [entries |-> old.entries \union EntriesOf(items),
   facts |-> {i \in old.facts : ~\E j \in FactsOf(items) : j.id = i.id} \union FactsOf(items)]

\* The prompt is in the transcript, the turn settles and records what it did.
RunSessionTurn(s, n) ==
  /\ turn[s].phase = "marked"
  /\ next + n <= MaxActivity + 1
  /\ told' = [told EXCEPT ![At(s)] = Tell(@, Delivered(s))]
  /\ lost' = [lost EXCEPT ![At(s)] = {i \in @ : ~\E j \in FactsOf(Delivered(s)) : j.id = i.id}]
  /\ turn' = [turn EXCEPT ![s] = Idle]
  /\ AppendAgentActivity(s, n)
  /\ UNCHANGED <<fact, life, cursor, seen, skipped, changes, resets>>

\* The turn dies before its prompt is in the transcript.
TurnFails(s) ==
  /\ turn[s].phase # "idle"
  /\ resets < MaxResets
  /\ lost' = [lost EXCEPT ![At(s)] = @ \union Delivered(s)]
  /\ turn' = [turn EXCEPT ![s] = Idle]
  /\ resets' = resets + 1
  /\ UNCHANGED <<fact, ledger, next, life, cursor, seen, told, skipped, changes>>

\* A new transcript takes the place of the session's.
ResetSession(s) ==
  /\ turn[s].phase = "idle"
  /\ resets < MaxResets
  /\ life' = [life EXCEPT ![s] = @ + 1]
  /\ resets' = resets + 1
  /\ UNCHANGED <<fact, ledger, next, cursor, seen, turn, told, lost, skipped, changes>>

Init ==
  /\ fact = [f \in Facts |-> CHOOSE r \in Revisions : TRUE]
  /\ ledger = <<>>
  /\ next = 1
  /\ life = [s \in Sessions |-> 0]
  /\ cursor = [t \in Transcripts |-> 0]
  /\ seen = [t \in Transcripts |-> <<>>]
  /\ turn = [s \in Sessions |-> Idle]
  /\ told = [t \in Transcripts |-> [entries |-> {}, facts |-> {}]]
  /\ lost = [t \in Transcripts |-> {}]
  /\ skipped = [t \in Transcripts |-> {}]
  /\ changes = 0
  /\ resets = 0

Next ==
  \/ ChangeFact
  \/ \E s \in Sessions :
       \/ BuildTurnContext(s)
       \/ \E n \in 0..(MaxItems + Cardinality(Facts)) : MarkTurnContextDelivered(s, n)
       \/ \E n \in 0..MaxPerTurn : RunSessionTurn(s, n)
       \/ TurnFails(s)
       \/ ResetSession(s)

Spec == Init /\ [][Next]_vars

----------------------------------------------------------------------------
(* Properties.                                                             *)

TurnTypeOK ==
  /\ Len(ledger) <= MaxEntries
  /\ \A k \in DOMAIN ledger : ledger[k].seq = next - 1 - Len(ledger) + k
  /\ \A t \in Transcripts :
       /\ cursor[t] < next
       /\ Len(seen[t]) <= MaxSeen
       /\ \A i, j \in DOMAIN seen[t] : i # j => seen[t][i].id # seen[t][j].id
  /\ \A s \in Sessions : turn[s].phase \in {"idle", "built", "marked"}

\* No activity is passed over in silence: an entry of another session behind a
\* transcript's place in the ledger was in one of its prompts, unless more than
\* MaxItems waited at once or the turn it was marked for failed.
ActivityAccounted ==
  \A t \in Transcripts : \A e \in ToSet(ledger) :
    e.by # t /\ e.seq <= cursor[t] =>
      \/ e.seq \in told[t].entries \union skipped[t] \union EntriesOf(lost[t])
      \/ \E s \in Sessions : At(s) = t /\ turn[s].phase = "marked" /\ Entry(e.seq) \in Delivered(s)

\* A transcript is not told twice of the same activity, nor of a fact that
\* still says what it was last told, unless its list of seen facts is too short.
TellsOnce ==
  \A s \in Sessions :
    turn[s].phase = "built" /\ turn'[s].phase = "marked" =>
      \A i \in Delivered(s)' :
        /\ IsEntry(i) => i.rev \notin told[At(s)].entries
        /\ i \in told[At(s)].facts \ lost[At(s)] => MaxSeen < Cardinality(Facts)
=============================================================================
