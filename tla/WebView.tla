------------------------------- MODULE WebView -------------------------------
(***************************************************************************)
(* The web inspector's live view of a log (web/src/App.svelte, lib/api.ts, *)
(* server/read.ts, the handlers of web/server.ts).  A browser asks for the *)
(* selected file, and again, after every announced change, for what        *)
(* follows the part it has: a cursor, with an anchor that tells whether    *)
(* the file before it is still the same.  Answers come in any      *)
(* order, announcements are lost while no connection stands, and the file  *)
(* grows, is cut back or removed between the server's two looks at it.     *)
(*                                                                         *)
(* A file is a sequence of cells: whole lines, and lines written as a head *)
(* and a tail.  How the server notices changes is WebWatcher's.            *)
(***************************************************************************)
EXTENDS Naturals, Sequences, SequencesExt

CONSTANTS
    Files,
    Window,     \* cells that one answer reads at most (4 MiB)
    MaxWrites, MaxSelects, MaxBreaks, MaxAsked  \* bounds

WebViewAssumption == {Window, MaxWrites, MaxSelects, MaxBreaks, MaxAsked} \subseteq Nat

VARIABLES
    files,      \* <<>> or <<cells>>
    pending,    \* changed files that are not announced yet
    connected,  \* the browser's stream of events
    missed,     \* whose announcement was lost since they were last asked for
    timer,      \* the browser's refresh is set
    selected,   \* <<>> or <<file>>
    node,       \* <<>> or what is shown of a file
    failed,     \* an error is shown instead
    asked,      \* requests for a file, in the order they were sent
    counts

server == <<files, pending, connected>>
view == <<selected, node, failed, asked>>
vars == <<files, pending, connected, missed, timer, selected, node, failed, asked, counts>>

Init == /\ files \in [Files -> {<<>>, <<<<[line |-> 0, part |-> "whole"]>>>>}]
        /\ pending = {} /\ connected = FALSE /\ missed = {} /\ timer = FALSE
        /\ selected = <<>> /\ node = <<>> /\ failed = FALSE /\ asked = <<>>
        /\ counts = [writes |-> 0, selects |-> 0, breaks |-> 0]

(***************************************************************************)
(* Files                                                                   *)
(***************************************************************************)

Changed(f, content) ==
    /\ counts.writes < MaxWrites
    /\ counts' = [counts EXCEPT !.writes = @ + 1]
    /\ files' = [files EXCEPT ![f] = content]
    /\ pending' = pending \cup {f}
    /\ UNCHANGED <<connected, missed, timer, view>>

\* A line at once, its head, or the tail that completes it.
AppendCell(f, part) ==
    /\ files[f] # <<>>
    /\ LET c == files[f][1]
       IN /\ part = "tail" => c # <<>> /\ Last(c).part = "head"
          /\ Changed(f, <<Append(c, [line |-> IF part = "tail" THEN Last(c).line
                                              ELSE counts.writes + 1, part |-> part])>>)

CutBack(f) == /\ files[f] # <<>> /\ files[f][1] # <<>>
              /\ Changed(f, <<Front(files[f][1])>>)

RemoveFile(f) == files[f] # <<>> /\ Changed(f, <<>>)
CreateFile(f) == files[f] = <<>> /\ Changed(f, <<<<>>>>)

(***************************************************************************)
(* The server                                                              *)
(***************************************************************************)

Ends(cell) == cell.part # "head"

\* The lines of whole cells: those that can be read, and how many cannot.
Parsed(cells) ==
    LET ends == SelectSeq([i \in 1..Len(cells) |-> i], LAMBDA i : Ends(cells[i]))
        Line(k) == SubSeq(cells, IF k = 1 THEN 1 ELSE ends[k - 1] + 1, ends[k])
        good == SelectSeq([k \in 1..Len(ends) |-> Line(k)],
                          LAMBDA l : l[1].part # "tail" /\ Len(l) = IF l[1].part = "whole" THEN 1 ELSE 2)
    IN [events |-> [k \in 1..Len(good) |-> good[k][1].line], errors |-> Len(ends) - Len(good)]

AnchorAt(cells, cursor) ==
    IF cursor = 0 THEN <<>>
    ELSE IF cursor <= Len(cells) THEN <<cells[cursor]>> ELSE <<[line |-> 0, part |-> "none"]>>

\* mutant: the cursor alone says where to go on
CursorFits(cells, size, request) ==
    request.at # <<>> /\ request.at[1].cursor <= size /\ request.at[1].cursor <= Len(cells)

\* The browser's cursor still stands where it stood.
Continuing(cells, size, request) ==
    /\ request.at # <<>> /\ request.at[1].cursor <= size
    /\ AnchorAt(cells, request.at[1].cursor) = request.at[1].anchor

FirstLine(cells) == SelectInSeq(cells, Ends)
LastLine(cells) == SelectLastInSeq(cells, Ends)

\* From the cursor, or the last part of the file without its first line; the
\* line that is not complete is left for the next time.
ReadJsonl(cells, size, request) ==
    LET continuing == Continuing(cells, size, request)
        start == IF continuing THEN request.at[1].cursor ELSE IF size > Window THEN size - Window ELSE 0
        length == IF size - start < Window THEN size - start ELSE Window
        chunk == SubSeq(cells, start + 1, IF start + length <= Len(cells) THEN start + length ELSE Len(cells))
        skipped == IF continuing \/ start = 0 THEN 0 ELSE FirstLine(chunk)
        inside == ~continuing /\ start > 0 /\ skipped = 0
        cursor == IF inside THEN start + Len(chunk) ELSE start + LastLine(chunk)
        read == IF inside THEN Parsed(<<>>) ELSE Parsed(SubSeq(chunk, skipped + 1, LastLine(chunk)))
    IN [events |-> read.events, errors |-> read.errors, cursor |-> cursor,
        anchor |-> AnchorAt(cells, cursor), total |-> size,
        truncated |-> ~continuing /\ start > 0, replace |-> ~continuing]

NoAnswer == <<>>

\* The file is looked at for its size,
StatNode(i) ==
    /\ asked[i].stage = "sent"
    /\ asked' = [asked EXCEPT ![i].stage = IF files[asked[i].id] = <<>> THEN "answered" ELSE "read",
                              ![i].size = IF files[asked[i].id] = <<>> THEN 0
                                          ELSE Len(files[asked[i].id][1])]
    /\ UNCHANGED <<server, missed, timer, selected, node, failed, counts>>

\* then read.
ReadNode(i) ==
    /\ asked[i].stage = "read"
    /\ LET file == files[asked[i].id]
       IN asked' = [asked EXCEPT ![i].stage = "answered",
                                 ![i].answer = IF file = <<>> THEN NoAnswer
                                               ELSE <<ReadJsonl(file[1], asked[i].size, asked[i])>>]
    /\ UNCHANGED <<server, missed, timer, selected, node, failed, counts>>

\* What has changed is announced to who is connected.
Announce ==
    /\ pending # {} /\ pending' = {}
    /\ IF connected THEN timer' = TRUE /\ UNCHANGED missed
       ELSE missed' = missed \cup pending /\ UNCHANGED timer
    /\ UNCHANGED <<files, connected, view, counts>>

(***************************************************************************)
(* The browser                                                             *)
(***************************************************************************)

\* A new connection is told nothing of what was announced before it.
Connect == /\ ~connected /\ connected' = TRUE
           /\ UNCHANGED <<files, pending, missed, timer, view, counts>>

Break == /\ connected /\ counts.breaks < MaxBreaks
         /\ connected' = FALSE
         /\ counts' = [counts EXCEPT !.breaks = @ + 1]
         /\ UNCHANGED <<files, pending, missed, timer, view>>

\* Only the answer to the latest request counts.
LoadNode(before, id, incremental, shown) ==
    /\ Len(before) < MaxAsked
    /\ asked' = Append([i \in 1..Len(before) |-> [before[i] EXCEPT !.latest = FALSE]],
                  [id |-> id, incremental |-> incremental, latest |-> TRUE, stage |-> "sent",
                   size |-> 0, answer |-> NoAnswer,
                   at |-> IF incremental /\ shown # <<>> /\ shown[1].id = id
                            THEN <<[cursor |-> shown[1].cursor, anchor |-> shown[1].anchor]>> ELSE <<>>])

Select(id) ==
    /\ counts.selects < MaxSelects /\ selected # <<id>>
    /\ counts' = [counts EXCEPT !.selects = @ + 1]
    /\ selected' = <<id>> /\ failed' = FALSE
    /\ LoadNode(asked, id, FALSE, node)
    /\ missed' = missed \ {id}
    /\ UNCHANGED <<server, timer, node>>

\* The selected file is asked for again.
Refresh ==
    /\ timer /\ timer' = FALSE
    /\ missed' = missed \ ToSet(selected)
    /\ IF selected = <<>> THEN UNCHANGED <<failed, asked>>
       ELSE LoadNode(asked, selected[1], TRUE, node) /\ failed' = FALSE
    /\ UNCHANGED <<server, selected, node, counts>>

Current(request) == request.latest

MergeNode(id, answer) ==
    LET kept == node # <<>> /\ node[1].id = id /\ ~answer.replace
    IN [id |-> id, cursor |-> answer.cursor, anchor |-> answer.anchor, total |-> answer.total,
        truncated |-> answer.truncated \/ (kept /\ node[1].truncated),
        events |-> (IF kept THEN node[1].events ELSE <<>>) \o answer.events,
        errors |-> (IF kept THEN node[1].errors ELSE 0) + answer.errors]

\* What the server has more of is asked for at once.
ReceiveNode(i) ==
    /\ asked[i].stage = "answered"
    /\ LET r == asked[i]  rest == RemoveAt(asked, i)
       IN IF ~Current(r) THEN asked' = rest /\ UNCHANGED <<node, failed, missed>>
          ELSE IF r.answer = NoAnswer
            THEN /\ asked' = rest /\ failed' = TRUE
                 /\ node' = IF r.incremental THEN node ELSE <<>>
                 /\ UNCHANGED missed
            ELSE /\ node' = <<MergeNode(r.id, r.answer[1])>>
                 /\ UNCHANGED failed
                 /\ IF r.answer[1].cursor < r.answer[1].total /\ selected = <<r.id>>
                      THEN LoadNode(rest, r.id, TRUE, node') /\ missed' = missed \ {r.id}
                      ELSE asked' = rest /\ UNCHANGED missed
    /\ UNCHANGED <<server, timer, selected, counts>>

Next ==
    \/ \E f \in Files : \/ \E part \in {"whole", "head", "tail"} : AppendCell(f, part)
                        \/ CutBack(f) \/ RemoveFile(f) \/ CreateFile(f)
                        \/ Select(f)
    \/ \E i \in 1..Len(asked) : StatNode(i) \/ ReadNode(i) \/ ReceiveNode(i)
    \/ Announce \/ Connect \/ Break \/ Refresh

Spec == Init /\ [][Next]_vars

(***************************************************************************)
(* Properties                                                              *)
(***************************************************************************)

\* What is shown of a file that goes on from where it was read are its lines up to
\* the cursor, each once and in order, from its first or, when its beginning was left
\* out, from some later line on.  (A reading that began inside a line longer
\* than the window shows the rest of that line as an error.)
ViewFaithful ==
    node # <<>> /\ files[node[1].id] # <<>> /\ AnchorAt(files[node[1].id][1], node[1].cursor) = node[1].anchor =>
      LET shown == node[1]  cells == files[shown.id][1]
          From(i) == Parsed(SubSeq(cells, i, shown.cursor))
          Fits(i) == From(i).events = shown.events /\ From(i).errors = shown.errors
      IN IF shown.truncated THEN \E i \in 1..shown.cursor + 1 : Fits(i) ELSE Fits(1)

\* When nothing is under way and nothing was lost with a connection, the selected
\* file is shown to its last line, or its error.
ViewCatchesUp ==
    pending = {} /\ ~timer /\ asked = <<>> /\ selected # <<>> /\ selected[1] \notin missed =>
      LET file == files[selected[1]]
      IN IF file = <<>> THEN failed
         ELSE /\ ~failed /\ node # <<>> /\ node[1].id = selected[1]
              /\ node[1].cursor = Len(file[1])
              /\ node[1].anchor = AnchorAt(file[1], node[1].cursor)
=============================================================================
