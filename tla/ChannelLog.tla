------------------------------ MODULE ChannelLog ------------------------------
(***************************************************************************)
(* One channel's file (channels/store.ts): programs append lines to it     *)
(* without a lock, the gateway reads it from a saved byte offset, first    *)
(* all at once (drainBacklog), then after every change (watchChannels).    *)
(* A line is three cells, two of text and the newline, so that a write     *)
(* can be seen, or end, half done; offsets count cells.                    *)
(***************************************************************************)
EXTENDS Naturals, Sequences, FiniteSets, SequencesExt, FiniteSetsExt

CONSTANTS
  Writers,        \* programs that append, each one line at a time
  MaxLines,       \* bound: lines begun
  MaxDeaths,      \* bound: writers that die in the middle of a line
  MaxRestarts     \* bound: restarts of the reader

VARIABLES
  file,           \* the file: a sequence of cells
  rest,           \* [Writers -> the cells a writer has still to write]
  begun,          \* lines begun; they are numbered in this order
  deaths,
  changed,        \* a change of the file the watcher has not been told of
  up,             \* the reader runs
  offset,         \* the watcher's offset
  saved,          \* the offset on disk
  read,           \* what the reader has been given since it started
  past,           \* ghost: lines it was given in earlier lives
  halfSeen,       \* ghost: lines that a reading saw half written at its start
  restarts

vars == <<file, rest, begun, deaths, changed, up, offset, saved, read, past, halfSeen, restarts>>

Line(n) == <<[line |-> n, cell |-> 1], [line |-> n, cell |-> 2], [line |-> n, cell |-> 3]>>
IsNewline(x) == x.cell = 3

----------------------------------------------------------------------------
(* Reading.                                                                *)

\* The text between newlines; the last piece may be empty.
Pieces(cells) ==
  FoldLeft(LAMBDA ps, x : IF IsNewline(x) THEN Append(ps, <<>>)
                          ELSE [ps EXCEPT ![Len(ps)] = Append(@, x)],
           << <<>> >>, cells)

\* JSON.parse: a whole line, and nothing but that line, is a message.
Parses(piece) == Len(piece) = 2 /\ piece = SubSeq(Line(piece[1].line), 1, 2)

\* readMessages: blank pieces are consumed; one that does not parse ends the
\* reading, unless it is the first and the reading starts inside the file.
Take(acc, piece, first, last) ==
  LET size == Len(piece) + (IF last THEN 0 ELSE 1) IN
    IF acc.stop THEN acc
    ELSE IF piece = <<>> THEN [acc EXCEPT !.size = @ + size]
    ELSE IF Parses(piece) THEN [acc EXCEPT !.size = @ + size, !.lines = Append(@, piece[1].line)]
    ELSE IF first THEN [acc EXCEPT !.size = @ + size]
    ELSE [acc EXCEPT !.stop = TRUE]

\* mutant: a piece that does not parse is always passed over
ReadOn(requested) ==
  LET pieces == Pieces(SubSeq(file, requested + 1, Len(file)))
      result == FoldLeftDomain(LAMBDA acc, k : Take(acc, pieces[k], TRUE, k = Len(pieces)),
                               [size |-> 0, lines |-> <<>>, stop |-> FALSE], pieces)
  IN [lines |-> result.lines, offset |-> requested + result.size]
ReadFrom(requested) ==
  LET at == IF requested > Len(file) THEN 0 ELSE requested
      pieces == Pieces(SubSeq(file, at + 1, Len(file)))
      result == FoldLeftDomain(LAMBDA acc, k : Take(acc, pieces[k], k = 1 /\ at > 0, k = Len(pieces)),
                               [size |-> 0, lines |-> <<>>, stop |-> FALSE], pieces)
  IN [lines |-> result.lines, offset |-> at + result.size]

----------------------------------------------------------------------------
(* Writing: appendMessage.                                                 *)

Write(w, cells, n) ==
  /\ file' = file \o SubSeq(cells, 1, n)
  /\ rest' = [rest EXCEPT ![w] = SubSeq(cells, n + 1, Len(cells))]
  /\ changed' = TRUE

AppendMessage(w) ==
  /\ rest[w] = <<>>
  /\ begun < MaxLines
  /\ begun' = begun + 1
  /\ \E n \in 1..3 : Write(w, Line(begun + 1), n)
  /\ UNCHANGED <<deaths, up, offset, saved, read, past, halfSeen, restarts>>

WriteOn(w) ==
  /\ rest[w] # <<>>
  /\ Write(w, rest[w], Len(rest[w]))
  /\ UNCHANGED <<begun, deaths, up, offset, saved, read, past, halfSeen, restarts>>

WriterDies(w) ==
  /\ rest[w] # <<>>
  /\ deaths < MaxDeaths
  /\ rest' = [rest EXCEPT ![w] = <<>>]
  /\ deaths' = deaths + 1
  /\ UNCHANGED <<file, begun, changed, up, offset, saved, read, past, halfSeen, restarts>>

----------------------------------------------------------------------------
(* The reader.                                                             *)

\* The line that stands half written where a reading starts.
HalfAt(at) ==
  LET piece == Pieces(SubSeq(file, at + 1, Len(file)))[1]
  IN IF at > 0 /\ piece # <<>> /\ ~Parses(piece) THEN {x.line : x \in ToSet(piece)} ELSE {}

\* mutant: the watcher starts where the backlog started
StartAgain ==
  /\ ~up
  /\ read' = ReadFrom(saved).lines
  /\ offset' = saved
  /\ halfSeen' = halfSeen \union HalfAt(saved)
  /\ up' = TRUE
  /\ changed' = TRUE
  /\ UNCHANGED <<file, rest, begun, deaths, saved, past, restarts>>
\* Start: drainBacklog from the saved offset, which takes the new offset
\* whatever was read.
Start ==
  /\ ~up
  /\ LET r == ReadFrom(saved)
     IN /\ read' = r.lines
        /\ offset' = r.offset
  /\ halfSeen' = halfSeen \union HalfAt(saved)
  /\ up' = TRUE
  /\ changed' = TRUE          \* the watcher's first pass over the directory
  /\ UNCHANGED <<file, rest, begun, deaths, saved, past, restarts>>

\* mutant: the offset always moves
ProcessAlways ==
  /\ up
  /\ changed
  /\ LET r == ReadFrom(offset)
     IN /\ read' = read \o r.lines
        /\ offset' = r.offset
  /\ changed' = FALSE
  /\ UNCHANGED <<file, rest, begun, deaths, up, saved, past, halfSeen, restarts>>
\* processChannel: the offset moves only when messages were read.
ProcessChannel ==
  /\ up
  /\ changed
  /\ LET r == ReadFrom(offset)
     IN /\ read' = read \o r.lines
        /\ offset' = IF r.lines # <<>> THEN r.offset ELSE offset
        /\ halfSeen' = IF r.lines # <<>> THEN halfSeen \union HalfAt(offset) ELSE halfSeen
  /\ changed' = FALSE
  /\ UNCHANGED <<file, rest, begun, deaths, up, saved, past, restarts>>

\* The gateway saves the watcher's offsets.
SaveCursors ==
  /\ up
  /\ saved' = offset
  /\ UNCHANGED <<file, rest, begun, deaths, changed, up, offset, read, past, halfSeen, restarts>>

ReaderStops ==
  /\ up
  /\ restarts < MaxRestarts
  /\ up' = FALSE
  /\ past' = past \union ToSet(read)
  /\ read' = <<>>
  /\ offset' = 0
  /\ restarts' = restarts + 1
  /\ UNCHANGED <<file, rest, begun, deaths, changed, saved, halfSeen>>

Init ==
  /\ file = <<>>
  /\ rest = [w \in Writers |-> <<>>]
  /\ begun = 0
  /\ deaths = 0
  /\ changed = FALSE
  /\ up = FALSE
  /\ offset = 0
  /\ saved = 0
  /\ read = <<>>
  /\ past = {}
  /\ halfSeen = {}
  /\ restarts = 0

Next ==
  \/ \E w \in Writers : AppendMessage(w) \/ WriteOn(w) \/ WriterDies(w)
  \/ Start \/ ProcessChannel \/ SaveCursors \/ ReaderStops

Spec == Init /\ [][Next]_vars

----------------------------------------------------------------------------
(* Properties.                                                             *)

LogTypeOK ==
  /\ \A k \in DOMAIN file : file[k].line \in 1..begun /\ file[k].cell \in 1..3
  /\ \A w \in Writers : Len(rest[w]) \in 0..2
  /\ begun \in 0..MaxLines /\ deaths \in 0..MaxDeaths /\ restarts \in 0..MaxRestarts
  /\ changed \in BOOLEAN /\ up \in BOOLEAN
  /\ offset \in 0..Len(file) /\ saved \in 0..Len(file)
  /\ \A k \in DOMAIN read : read[k] \in 1..begun
  /\ past \subseteq 1..begun /\ halfSeen \subseteq 1..begun

\* The lines of the file that are whole: text and newline, with a newline or
\* the beginning of the file before them; Ends[n] is the cell line n ends with.
StartsAt(n) ==
  {k \in DOMAIN file : k + 2 <= Len(file) /\ SubSeq(file, k, k + 2) = Line(n)
                         /\ (k = 1 \/ IsNewline(file[k - 1]))}
WholeLines == {n \in 1..begun : StartsAt(n) # {}}
EndOf(n) == Max(StartsAt(n)) + 2

\* No line is given twice in one life of the reader, and none in another
\* order than the file's.
ReadInOrder ==
  \A i, j \in DOMAIN read : i < j =>
    /\ read[i] # read[j]
    /\ read[i] \in WholeLines /\ read[j] \in WholeLines => EndOf(read[i]) < EndOf(read[j])

\* A whole line the offset has passed was given to the reader, in this life or
\* an earlier one, unless a reading started where it stood half written.
PassedWasRead ==
  up => \A n \in WholeLines :
          EndOf(n) <= offset => n \in ToSet(read) \union past \union halfSeen

\* When the watcher has been told of every change, a whole line it has not
\* been given stands behind text that is no line: what a writer that died, or
\* has not finished, left there.
TornBefore(n) ==
  \E k \in 1..(EndOf(n) - 3) :
    /\ ~IsNewline(file[k])
    /\ file[k].line \notin WholeLines
UnreadExcused ==
  up /\ ~changed =>
    \A n \in WholeLines : n \in ToSet(read) \union past \union halfSeen \/ TornBefore(n)
=============================================================================
