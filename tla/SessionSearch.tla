---------------------------- MODULE SessionSearch ----------------------------
(***************************************************************************)
(* Looking for something in transcripts and reading around what was found  *)
(* (sessions/search.ts), by commands that only read while turns append to  *)
(* the same files and others archive and restore them.                     *)
(*                                                                         *)
(* A transcript is a sequence of entries: of what kind, when written, and  *)
(* whether it holds what is looked for.  An entry whose transcript gives   *)
(* none an id of its own is called by its place among those that the       *)
(* reader counts.  Whether a transcript is archived makes no difference.   *)
(***************************************************************************)
EXTENDS Naturals, Sequences, FiniteSetsExt, SequencesExt

CONSTANTS
    Sessions,       \* durable sessions that have a manifest
    Owner,          \* the agent of a session
    Limit, Window,  \* of a search, of a read
    Searchers,      \* programs that search
    MaxFiles, MaxTime  \* bounds

SessionSearchAssumption ==
    /\ {Limit, Window, MaxFiles, MaxTime} \subseteq Nat /\ Limit > 0

VARIABLES
    files,      \* transcripts, in the order they were begun
    now,
    search,     \* what each program is at; <<>> when it does not run
    found       \* matches that were returned last

vars == <<files, now, search, found>>

\* Messages of users, of assistants, of named tools and of the shell are entries to
\* both readers; a tool's result without a name is one to reading alone.
Searchable == {"message"}
Summarized == {"message", "nameless_result"}

Init == /\ files = <<>> /\ now = 0 /\ found = {}
        /\ search = [p \in Searchers |-> <<>>]

(***************************************************************************)
(* Those who write                                                         *)
(***************************************************************************)

BeginTranscript(s, ids) ==
    /\ Len(files) < MaxFiles
    /\ files' = Append(files, [session |-> s, ids |-> ids, lines |-> <<>>])
    /\ UNCHANGED <<now, search, found>>

AppendEntry(f, kind, hit) ==
    /\ now < MaxTime
    /\ now' = now + 1
    /\ files' = [files EXCEPT ![f].lines =
                   Append(@, [kind |-> kind, at |-> now', hit |-> hit])]
    /\ hit => kind \in Searchable
    /\ UNCHANGED <<search, found>>

(***************************************************************************)
(* What a reader makes of a transcript                                     *)
(***************************************************************************)

\* The entries a reader counts, each with its line, its place and its name.
Counted(f, kinds) ==
    LET lines == files[f].lines
        places == SelectSeq([i \in 1..Len(lines) |-> i], LAMBDA i : lines[i].kind \in kinds)
    IN [k \in 1..Len(places) |->
          [line |-> places[k], index |-> k - 1,
           id |-> IF files[f].ids THEN <<"own", places[k]>> ELSE <<"entry", k - 1>>]]

SearchableEntries(f) == Counted(f, Searchable)

SummarizedEntries(f) == Counted(f, Summarized)

(***************************************************************************)
(* Searching                                                               *)
(***************************************************************************)

ListSessionFileCandidates(who) ==
    {f \in 1..Len(files) : who = "all" \/ Owner[files[f].session] = who}

SearchTranscripts(p, who) ==
    /\ search[p] = <<>>
    /\ search' = [search EXCEPT ![p] =
                    <<[began |-> now, candidates |-> ListSessionFileCandidates(who),
                      left |-> ListSessionFileCandidates(who), matches |-> {}]>>]
    /\ UNCHANGED <<files, now, found>>

\* The matches of a transcript as it is when its end is reached.
Scanned(f) ==
    LET entries == SearchableEntries(f)
    IN {[file |-> f, line |-> entries[k].line, id |-> entries[k].id,
         at |-> files[f].lines[entries[k].line].at] :
          k \in {j \in 1..Len(entries) : files[f].lines[entries[j].line].hit}}

ScanSessionFile(p, f) ==
    /\ search[p] # <<>> /\ f \in search[p][1].left
    /\ search' = [search EXCEPT ![p][1].left = @ \ {f},
                                ![p][1].matches = @ \cup Scanned(f)]
    /\ UNCHANGED <<files, now, found>>

\* mutant: the limit is taken in the order of the transcripts
FirstFiles(matches) ==
    IF Cardinality(matches) <= Limit THEN matches
    ELSE CHOOSE S \in SUBSET matches :
           /\ Cardinality(S) = Limit
           /\ \A m \in S, n \in matches \ S : m.file < n.file \/ (m.file = n.file /\ m.at > n.at)

\* The newest come first.
Returned(matches) ==
    IF Cardinality(matches) <= Limit THEN matches
    ELSE CHOOSE S \in SUBSET matches :
           /\ Cardinality(S) = Limit
           /\ \A m \in S, n \in matches \ S : m.at > n.at

EndSearch(p) ==
    /\ search[p] # <<>> /\ search[p][1].left = {}
    /\ found' = Returned(search[p][1].matches)
    /\ search' = [search EXCEPT ![p] = <<>>]
    /\ UNCHANGED <<files, now>>

(***************************************************************************)
(* Reading around a match                                                  *)
(***************************************************************************)

Higher(x, y) == IF x >= y THEN x ELSE y
Lower(x, y) == IF x <= y THEN x ELSE y

\* The transcript is named by its path; an agent that is given must own it.
ReadSessionAroundEntry(m, who) ==
    LET entries == SummarizedEntries(m.file)
        around == SelectInSeq(entries, LAMBDA e : e.id = m.id)
    IN IF m.file \notin ListSessionFileCandidates(who) THEN [error |-> "unregistered", shown |-> <<>>]
       ELSE IF around = 0 THEN [error |-> "not found", shown |-> <<>>]
       ELSE [error |-> "", shown |-> SubSeq(entries, Higher(1, around - Window),
                                            Lower(Len(entries), around + Window))]

Readers == {"all"} \cup {Owner[s] : s \in Sessions}

Next ==
    \/ \E s \in Sessions, ids \in BOOLEAN : BeginTranscript(s, ids)
    \/ \E f \in 1..Len(files), kind \in Summarized, hit \in BOOLEAN : AppendEntry(f, kind, hit)
    \/ \E p \in Searchers : \/ \E who \in Readers : SearchTranscripts(p, who)
                            \/ \E f \in 1..Len(files) : ScanSessionFile(p, f)
                            \/ EndSearch(p)

Spec == Init /\ [][Next]_vars

(***************************************************************************)
(* Properties                                                              *)
(***************************************************************************)

\* A search returns every entry that was there when it began and holds what is
\* looked for, or as many as the limit allows that are all newer.
NothingMissed ==
    \A p \in Searchers :
      search[p] # <<>> /\ search[p][1].left = {} =>
        LET returned == Returned(search[p][1].matches)
        IN \A f \in search[p][1].candidates :
             \A i \in {j \in 1..Len(files[f].lines) :
                         LET e == files[f].lines[j]
                         IN e.hit /\ e.kind \in Searchable /\ e.at <= search[p][1].began} :
               \/ \E m \in returned : m.file = f /\ m.line = i
               \/ Cardinality(returned) = Limit
                    /\ \A m \in returned : m.at > files[f].lines[i].at

\* Reading around a match shows the entry that was found among its neighbours,
\* however much was appended since; only an entry without an id may be missed, when
\* a tool's result without a name stands before it.
FoundIsShown ==
    \A m \in found, who \in Readers :
      LET r == ReadSessionAroundEntry(m, who)  lines == files[m.file].lines
      IN IF who \notin {"all", Owner[files[m.file].session]} THEN r.error = "unregistered"
         ELSE \/ ~files[m.file].ids /\ \E i \in 1..m.line : lines[i].kind = "nameless_result"
              \/ /\ r.error = "" /\ Len(r.shown) <= 2 * Window + 1
                 /\ \E k \in 1..Len(r.shown) : r.shown[k].line = m.line
                 /\ \A k \in 1..Len(r.shown) - 1 : r.shown[k + 1].index = r.shown[k].index + 1
=============================================================================
