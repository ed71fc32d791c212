-------------------------- MODULE SessionNavigator --------------------------
(***************************************************************************)
(* /agents in the terminal interface: the tree of agents and their local   *)
(* sessions (tui/session-selector.ts) as it was when the command was given *)
(* (sessions/inventory.ts), and what is open (tui/session-target.ts), the  *)
(* session the user sees named, which follows the runtime that Pi tears    *)
(* down and has made again at every switch.                                *)
(*                                                                         *)
(* A session is <<agent, name>>; a plan is the configuration it was        *)
(* prepared from.  Pi and its own commands (/resume, /new) are external.   *)
(***************************************************************************)
EXTENDS Integers, Sequences, FiniteSets, SequencesExt

CONSTANTS
    Agents,     \* in the order of the configuration
    LocalNames, \* of local sessions, "main" among them
    MaxChanges, MaxSwitches  \* bounds

NavigatorAssumption ==
    /\ Agents # <<>> /\ Agents \in Seq(ToSet(Agents))
    /\ "main" \in LocalNames /\ IsFiniteSet(LocalNames)
    /\ {MaxChanges, MaxSwitches} \subseteq Nat

Keys == ToSet(Agents) \X LocalNames

VARIABLES
    active,     \* sessions that have an active transcript
    revision,   \* of the configuration
    tree,       \* <<>> or <<the tree on the screen>>
    target,     \* the session shown as current, its plan, and whether Pi names its transcript
    cache,      \* plans by session; 0 if none was prepared
    pending,    \* <<>> or <<the session prepared to be begun>>
    result,     \* of the last switch: <<>>, "switched" or "rolled_back"
    switch,     \* <<>> or <<the switch under way>>
    open,       \* <<>> or <<what the runtime has open: its session, its plan, and
                \* whether it was found among the prepared or listed sessions>>
    said,       \* <<>> or <<what the user was told last>>
    counts

vars == <<active, revision, tree, target, cache, pending, result, switch, open, said, counts>>

controller == <<target, cache, pending, result>>

First == <<Agents[1], "main">>

Runtime(k, plan, listed) == [key |-> k, plan |-> plan, listed |-> listed]

Init == /\ active \in {S \in SUBSET Keys : First \in S}
        /\ revision = 1
        /\ tree = <<>>
        /\ target = [key |-> First, plan |-> 1]
        /\ cache = [k \in Keys |-> IF k = First THEN 1 ELSE 0]
        /\ open = <<Runtime(First, 1, TRUE)>>
        /\ pending = <<>> /\ result = <<>> /\ switch = <<>> /\ said = <<>>
        /\ counts = [changes |-> 0, switches |-> 0]

\* Transcripts are begun and archived by others, and the configuration changes.
Elsewhere ==
    /\ counts.changes < MaxChanges
    /\ counts' = [counts EXCEPT !.changes = @ + 1]
    /\ \/ \E k \in Keys : active' = (active \cup {k}) \ (active \cap {k})
          /\ UNCHANGED revision
       \/ revision' = revision + 1 /\ UNCHANGED active
    /\ said' = <<>>
    /\ UNCHANGED <<tree, controller, switch, open>>

(***************************************************************************)
(* The tree                                                                *)
(***************************************************************************)

Named(t, a, names) == SetToSeq({<<a, n>> : n \in {m \in names : <<a, m>> \in t.sessions}})

SessionsOf(t, a) == Named(t, a, LocalNames)

Matching(t, a) == Named(t, a, LocalNames \cap {t.query})

\* The sessions below an agent: with a query, all of them if the agent is what
\* was looked for; without, all if it is expanded.
Below(t, a) ==
    IF t.query = "" THEN IF a \in t.expanded THEN SessionsOf(t, a) ELSE <<>>
    ELSE IF a = t.query THEN SessionsOf(t, a) ELSE Matching(t, a)

Rows(t) ==
    LET Shown(a) == t.query = "" \/ a = t.query \/ Matching(t, a) # <<>>
        Branch(a) == IF Shown(a) THEN <<<<a>>>> \o Below(t, a) ELSE <<>>
    IN FlattenSeq([i \in 1..Len(Agents) |-> Branch(Agents[i])])

IndexOf(rows, key) == SelectInSeq(rows, LAMBDA r : r = key)

Least(x, y) == IF x <= y THEN x ELSE y

Selected(t) == IF Rows(t) = <<>> THEN <<>> ELSE Rows(t)[t.index]

\* The rows as they are now, with the cursor on the row it was on, if that is
\* still shown.
ApplyFilter(t, key) ==
    LET at == IndexOf(Rows(t), key)
        last == IF Rows(t) = <<>> THEN 1 ELSE Len(Rows(t))
    IN [t EXCEPT !.index = IF at > 0 THEN at ELSE Least(t.index, last)]

SummarizeNavigableSessions(query) ==
    [sessions |-> active, query |-> query, expanded |-> ToSet(Agents), index |-> 1,
     current |-> target.key, revision |-> revision]

OpenNavigator(query) ==
    /\ tree = <<>> /\ switch = <<>> /\ open # <<>>
    /\ LET t == SummarizeNavigableSessions(query)
           at == IndexOf(Rows(t), t.current)
           agent == IndexOf(Rows(t), <<t.current[1]>>)
       IN tree' = <<[t EXCEPT !.index = IF at > 0 THEN at ELSE IF agent > 0 THEN agent ELSE 1]>>
    /\ said' = <<>>
    /\ UNCHANGED <<active, revision, controller, switch, open, counts>>

Shows(t) == /\ tree' = <<t>>
            /\ UNCHANGED <<active, revision, controller, switch, open, said, counts>>

Move(step) ==
    /\ tree # <<>>
    /\ LET t == tree[1]  n == Len(Rows(t))
       IN n > 0 /\ Shows([t EXCEPT !.index = ((@ - 1 + step + n) % n) + 1])

\* From a session to its agent, from an agent to its rows folded away.
MoveLeft ==
    /\ tree # <<>> /\ Selected(tree[1]) # <<>>
    /\ LET t == tree[1]  row == Selected(t)
       IN IF Len(row) = 2 THEN Shows([t EXCEPT !.index = IndexOf(Rows(t), <<row[1]>>)])
          ELSE Shows(IF row[1] \in t.expanded
                       THEN ApplyFilter([t EXCEPT !.expanded = @ \ {row[1]}], row) ELSE t)

MoveRight ==
    /\ tree # <<>> /\ Len(Selected(tree[1])) = 1
    /\ LET t == tree[1]  a == Selected(t)[1]
           first == SelectInSeq(Rows(t), LAMBDA r : Len(r) = 2 /\ r[1] = a)
       IN /\ SessionsOf(t, a) # <<>>
          /\ Shows(IF a \notin t.expanded
                     THEN ApplyFilter([t EXCEPT !.expanded = @ \cup {a}], <<a>>)
                     ELSE [t EXCEPT !.index = IF first > 0 THEN first ELSE @])

\* The query grows and shrinks by characters; it matches an agent, sessions of
\* a name, or nothing.
Filter(query) ==
    /\ tree # <<>> /\ query # tree[1].query
    /\ Shows(ApplyFilter([tree[1] EXCEPT !.query = query], Selected(tree[1])))

Cancel == /\ tree # <<>> /\ tree[1].query = ""
          /\ tree' = <<>>
          /\ UNCHANGED <<active, revision, controller, switch, open, said, counts>>

Toggle ==
    /\ tree # <<>> /\ Len(Selected(tree[1])) = 1
    /\ LET t == tree[1]  a == Selected(t)[1]
       IN /\ SessionsOf(t, a) # <<>>
          /\ Shows(ApplyFilter([t EXCEPT !.expanded = IF a \in @ THEN @ \ {a} ELSE @ \cup {a}],
                               <<a>>))

(***************************************************************************)
(* The switch                                                              *)
(***************************************************************************)

Switch(by, key, chosen) ==
    <<[by |-> by, key |-> key, at |-> "asked", chosen |-> chosen, was |-> target,
      had |-> open[1]]>>

\* A session is chosen, not the one that is open, or an agent that has none.
Choose ==
    /\ tree # <<>> /\ counts.switches < MaxSwitches
    /\ LET t == tree[1]  row == Selected(t)
       IN \/ /\ Len(row) = 2 /\ row # t.current
             /\ switch' = Switch("switch", row, revision)
          \/ /\ Len(row) = 1 /\ SessionsOf(t, row[1]) = <<>>
             /\ switch' = Switch("open", <<row[1], "main">>, revision)
    /\ tree' = <<>>
    /\ counts' = [counts EXCEPT !.switches = @ + 1]
    /\ UNCHANGED <<active, revision, controller, open, said>>

At(step) == switch # <<>> /\ switch[1].at = step

Goes(step) == switch' = [switch EXCEPT ![1].at = step]

Prepare(k) == cache' = [cache EXCEPT ![k] = revision]

\* The session is prepared before Pi is asked; that fails when it cannot be
\* opened as it is configured.
Preflight ==
    /\ At("asked") /\ switch[1].by # "resume"
    /\ \/ /\ Prepare(switch[1].key)
          /\ pending' = IF switch[1].by = "open" THEN <<switch[1].key>> ELSE pending
          /\ Goes("prepared")
          /\ UNCHANGED said
       \/ /\ switch' = <<>>
          /\ said' = <<[kind |-> "cannot_open", key |-> switch[1].key, by |-> switch[1].by]>>
          /\ UNCHANGED <<cache, pending>>
    /\ UNCHANGED <<active, revision, tree, target, result, open, counts>>

\* Pi's own /resume: a transcript of any session, which is prepared if it was
\* not before.
PiResume(k) ==
    /\ tree = <<>> /\ switch = <<>> /\ open # <<>> /\ counts.switches < MaxSwitches
    /\ switch' = Switch("resume", k, revision)
    /\ counts' = [counts EXCEPT !.switches = @ + 1]
    /\ said' = <<>>
    /\ UNCHANGED <<active, revision, tree, controller, open>>

\* Pi is asked to switch.
Asked == At("prepared") \/ (At("asked") /\ switch[1].by = "resume")

\* Pi closes what is open, or lets an extension refuse.
Refused ==
    /\ Asked
    /\ switch' = <<>> /\ pending' = <<>>
    /\ UNCHANGED <<active, revision, tree, target, cache, result, open, said, counts>>

\* What createRuntime opens for a resume: the session that is waiting to be
\* begun, a prepared one, one it prepares, or, when none is listed at that place, the
\* transcript with the plan of the session before.
CreateRuntime ==
    /\ Asked
    /\ LET k == switch[1].key
           listed == cache[k] # 0 \/ k \in active
       IN /\ cache' = [cache EXCEPT ![k] = IF @ = 0 /\ listed THEN revision ELSE @]
          /\ target' = IF listed THEN [key |-> k, plan |-> cache'[k]] ELSE target
          /\ pending' = IF pending = <<k>> THEN <<>> ELSE pending
          /\ switch' = [switch EXCEPT ![1].at = IF listed THEN "opening" ELSE "opening_as_before",
                                      ![1].was = target, ![1].had = open[1]]
    /\ result' = <<>> /\ open' = <<>>
    /\ UNCHANGED <<active, revision, tree, said, counts>>

Crossing == switch[1].was.key # switch[1].key

Opened ==
    /\ At("opening")
    /\ open' = <<Runtime(target.key, target.plan, TRUE)>>
    /\ result' = IF Crossing THEN <<"switched">> ELSE result
    /\ Goes("started")
    /\ UNCHANGED <<active, revision, tree, target, cache, pending, said, counts>>

OpenedAsBefore ==
    /\ At("opening_as_before")
    /\ \/ open' = <<Runtime(switch[1].key, target.plan, FALSE)>> /\ Goes("started")
       \/ Goes("lost") /\ UNCHANGED open
    /\ UNCHANGED <<active, revision, tree, target, cache, pending, result, said, counts>>

\* mutant: the target is not restored when it cannot be opened
ForgetsRestore(t) == target

Restored(t) == t

\* The session cannot be opened: the one before it is again the current one and
\* is opened again, unless it is the same or has no transcript yet.
OpenFails(hadFile) ==
    /\ At("opening")
    /\ target' = Restored(switch[1].was)
    /\ IF Crossing /\ hadFile THEN Goes("rolling_back") ELSE Goes("lost")
    /\ UNCHANGED <<active, revision, tree, cache, pending, result, open, said, counts>>

RollBack ==
    /\ At("rolling_back")
    /\ \/ /\ open' = <<[switch[1].had EXCEPT !.plan = target.plan]>>
          /\ result' = <<"rolled_back">>
          /\ Goes("started")
       \/ Goes("lost") /\ UNCHANGED <<open, result>>
    /\ UNCHANGED <<active, revision, tree, target, cache, pending, said, counts>>

\* The navigator says how the switch went; Pi's own commands do not.
NotifyAfterReplacement ==
    /\ At("started") /\ switch[1].by # "resume"
    /\ said' = <<[kind |-> IF result = <<"rolled_back">> THEN "restored" ELSE "opened",
                  key |-> target.key, by |-> switch[1].by]>>
    /\ result' = <<>>
    /\ switch' = <<>> /\ pending' = <<>>
    /\ UNCHANGED <<active, revision, tree, target, cache, open, counts>>

Resumed ==
    /\ At("started") /\ switch[1].by = "resume"
    /\ switch' = <<>>
    /\ UNCHANGED <<active, revision, tree, controller, open, said, counts>>

\* Nothing could be opened: the interface ends.
Ends ==
    /\ At("lost")
    /\ switch' = <<>> /\ pending' = <<>>
    /\ UNCHANGED <<active, revision, tree, target, cache, result, open, said, counts>>

\* /new and /fork open the current session's plan again.
PiNew ==
    /\ tree = <<>> /\ switch = <<>> /\ open # <<>> /\ counts.switches < MaxSwitches
    /\ active' = active \cup {open[1].key}
    /\ open' = <<[open[1] EXCEPT !.plan = target.plan]>>
    /\ result' = <<>> /\ said' = <<>>
    /\ counts' = [counts EXCEPT !.switches = @ + 1]
    /\ UNCHANGED <<revision, tree, target, cache, pending, switch>>

Next ==
    \/ Elsewhere
    \/ \E q \in {""} \cup ToSet(Agents) : OpenNavigator(q)
    \/ \E q \in {"", "none"} \cup ToSet(Agents) \cup LocalNames : Filter(q)
    \/ \E d \in {-1, 1} : Move(d)
    \/ MoveLeft \/ MoveRight \/ Cancel \/ Toggle \/ Choose
    \/ Preflight \/ Refused \/ CreateRuntime \/ Opened \/ OpenedAsBefore \/ RollBack
    \/ \E b \in BOOLEAN : OpenFails(b)
    \/ NotifyAfterReplacement \/ Resumed \/ Ends \/ PiNew
    \/ \E k \in Keys : PiResume(k)

Spec == Init /\ [][Next]_vars

(***************************************************************************)
(* Properties                                                              *)
(***************************************************************************)

\* While something is open, what is shown as current is what is open, by the plan
\* that was made for it, whatever switches failed before, but for a transcript Pi resumed
\* of a session that has none active; and no session waits to be begun when no
\* switch is under way.
ShownIsOpen ==
    /\ /\ open # <<>> /\ open[1].listed
       /\ switch = <<>> \/ switch[1].at \in {"asked", "prepared", "started"}
       => open[1].key = target.key /\ open[1].plan = target.plan
    /\ switch = <<>> => pending = <<>>

\* What the navigator tells of a switch is so: it says of a session that it was
\* opened when it was chosen and is open, with the configuration of that moment or
\* a later one, and that one was restored when another was chosen.
ToldWhatIsOpen ==
    NotifyAfterReplacement =>
      LET s == switch[1]  told == said'[1]
      IN /\ told.key = open[1].key \/ ~open[1].listed
         /\ told.kind = "opened" => told.key = s.key /\ open[1].plan >= s.chosen
         /\ told.kind = "restored" => told.key = s.was.key /\ told.key # s.key

\* The cursor is on a row whenever there is one; folding, searching and moving
\* never lose it, and a session's row is below its agent's.
CursorOnRow ==
    tree # <<>> /\ Rows(tree[1]) # <<>> =>
      LET rows == Rows(tree[1])
      IN /\ tree[1].index \in 1..Len(rows)
         /\ \A i \in 1..Len(rows) :
              Len(rows[i]) = 2 => \E j \in 1..i - 1 : rows[j] = <<rows[i][1]>>
=============================================================================
