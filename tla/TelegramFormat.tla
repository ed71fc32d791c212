--------------------------- MODULE TelegramFormat ---------------------------
(***************************************************************************)
(* How a text is cut into Telegram messages (telegram/format.ts): rendered *)
(* HTML into chunks that are each well formed, or the plain text at line   *)
(* ends and spaces. A document is a sequence of cells: a tag, or one       *)
(* character; the state machine writes every document of a few cells.      *)
(* The caller then trims the blanks at the ends of each chunk and does not *)
(* send a chunk of blanks only (renderTelegramTextChunks).                 *)
(***************************************************************************)
EXTENDS Integers, Sequences, FiniteSets, SequencesExt, FiniteSetsExt

CONSTANTS
  TagNames,   \* names of the tags rendering produces
  Limit,      \* the chunk limit
  MaxCells    \* bound: cells of a document

VARIABLE doc  \* the rendered text

OpenTag(n) == [open |-> n]
CloseTag(n) == [close |-> n]
IsOpen(cell) == "open" \in DOMAIN cell
IsClose(cell) == "close" \in DOMAIN cell
Char(c) == [char |-> c]
IsChar(cell) == "char" \in DOMAIN cell
Entity == <<Char("&"), Char("e"), Char(";")>>     \* &lt; and the like
Cells == {OpenTag(n) : n \in TagNames} \union {CloseTag(n) : n \in TagNames}
           \union {Char(c) : c \in {"x", " ", "\n", "&", "e", ";"}}

\* Characters of a cell; a tag's own name counts one.
CellSize(cell) == IF IsOpen(cell) THEN 3 ELSE IF IsClose(cell) THEN 4 ELSE 1
Size(cells) == FoldLeft(LAMBDA n, cell : n + CellSize(cell), 0, cells)

\* The tags open at the end of some cells, outermost first.
Depth(cells) ==
  FoldLeft(LAMBDA open, cell : IF IsOpen(cell) THEN Append(open, cell.open)
                               ELSE IF IsClose(cell) THEN Front(open) ELSE open, <<>>, cells)

Init == doc = <<>>

\* buildTelegramHtml: text is escaped and every tag is closed, inside out.
Next ==
  /\ Len(doc) < MaxCells
  /\ \/ \E c \in {"x", " ", "\n"} : doc' = Append(doc, Char(c))
     \/ doc' = doc \o Entity
     \/ \E n \in TagNames : doc' = Append(doc, OpenTag(n))
     \/ Depth(doc) # <<>> /\ doc' = Append(doc, CloseTag(Last(Depth(doc))))

Spec == Init /\ [][Next]_doc

----------------------------------------------------------------------------
(* Splitting HTML.                                                         *)

\* The chunk being filled, whether there is text in it, its open tags; what is full.
States == [current : Seq(Cells), payload : BOOLEAN, open : Seq(TagNames), chunks : Seq(Seq(Cells)),
           failed : BOOLEAN]
Start == [current |-> <<>>, payload |-> FALSE, open |-> <<>>, chunks |-> <<>>, failed |-> FALSE]

OpenPrefix(open) == [k \in DOMAIN open |-> OpenTag(open[k])]
CloseSuffix(open) == Reverse([k \in DOMAIN open |-> CloseTag(open[k])])

Flushed(st) ==
  IF ~st.payload THEN st
  ELSE [st EXCEPT !.chunks = Append(@, st.current \o CloseSuffix(st.open)),
                  !.current = OpenPrefix(st.open), !.payload = FALSE]

AvailableBare(st) == Limit - Size(st.current)     \* mutant: no room for the closing tags
Available(st) == Limit - Size(st.current) - Size(CloseSuffix(st.open))

\* text.lastIndexOf, counted from one; 0 when there is none.
LastIndex(text, c, upto) == Max({0} \union {k \in 1..upto : text[k] = Char(c)})

SplitAnywhere(text, upto) == upto                 \* mutant: through entities
\* Behind a line end, behind a space, else where it must be, but not inside an entity.
SafeSplit(text, upto) ==
  LET line == LastIndex(text, "\n", upto)
      space == LastIndex(text, " ", upto)
      amp == LastIndex(text, "&", upto)
  IN CASE line > 1 -> line
       [] line <= 1 /\ space > 1 -> space
       [] line <= 1 /\ space <= 1 ->
            IF amp = 0 \/ amp < LastIndex(text, ";", upto) \/ amp + 2 <= upto THEN upto ELSE amp - 1

AppendText[st \in States, text \in Seq(Cells)] ==
  LET flushFirst == IF st.payload THEN AppendText[Flushed(st), text] ELSE [st EXCEPT !.failed = TRUE]
      room == Available(st)
      with(cells) == [st EXCEPT !.current = @ \o cells, !.payload = TRUE]
  IN IF text = <<>> \/ st.failed THEN st
     ELSE IF room <= 0 THEN flushFirst
     ELSE IF Len(text) <= room THEN with(text)
     ELSE LET at == SafeSplit(text, room)
          IN IF at <= 0 THEN flushFirst
             ELSE AppendText[Flushed(with(SubSeq(text, 1, at))), SubSeq(text, at + 1, Len(text))]

AppendTag(st, tag) ==
  IF IsClose(tag)
  THEN [st EXCEPT !.current = Append(@, tag), !.open = Front(@)]
  ELSE LET full == Size(st.current) + CellSize(tag) + Size(CloseSuffix(st.open))
                     + CellSize(CloseTag(tag.open)) > Limit
           kept == IF st.payload /\ full THEN Flushed(st) ELSE st
       IN [kept EXCEPT !.current = Append(@, tag), !.open = Append(@, tag.open)]

\* Text runs to the next tag.
TextEnd(cells, from) == Min({k \in from..Len(cells) : ~IsChar(cells[k])} \union {Len(cells) + 1}) - 1

Consume[st \in States, cells \in Seq(Cells), from \in Nat] ==
  IF from > Len(cells) \/ st.failed THEN st
  ELSE IF IsChar(cells[from])
       THEN LET end == TextEnd(cells, from)
            IN Consume[AppendText[st, SubSeq(cells, from, end)], cells, end + 1]
       ELSE Consume[AppendTag(st, cells[from]), cells, from + 1]

\* splitTelegramHtmlChunks: [failed, chunks].
HtmlChunks(html) ==
  IF Size(html) <= Limit
  THEN [failed |-> FALSE, chunks |-> IF html = <<>> THEN <<>> ELSE <<html>>]
  ELSE LET end == Flushed(Consume[Start, html, 1])
       IN [failed |-> end.failed, chunks |-> IF end.chunks = <<>> THEN <<html>> ELSE end.chunks]

----------------------------------------------------------------------------
(* Splitting plain text.                                                   *)

PlainSplit(text) ==
  LET line == LastIndex(text, "\n", Limit)
      space == LastIndex(text, " ", Limit)
  IN IF line > 1 THEN line ELSE IF space > 1 THEN space ELSE Limit

PlainChunks[text \in Seq(Cells)] ==
  IF Len(text) <= Limit THEN IF text = <<>> THEN <<>> ELSE <<text>>
  ELSE LET at == PlainSplit(text)
       IN <<SubSeq(text, 1, at)>> \o PlainChunks[SubSeq(text, at + 1, Len(text))]

----------------------------------------------------------------------------
(* Properties.                                                             *)

\* The characters, each with the tags around it: what a reader of the chat sees.
Reading(cells) ==
  FoldLeftDomain(LAMBDA seen, k : IF IsChar(cells[k])
                                  THEN Append(seen, <<cells[k].char, Depth(SubSeq(cells, 1, k))>>)
                                  ELSE seen, <<>>, cells)

Concat(f(_), pieces) == FoldLeft(LAMBDA all, piece : all \o f(piece), <<>>, pieces)

\* Cutting a rendered text changes nothing of what is read: every character
\* comes once, in order, under the same tags; each chunk is well formed, keeps
\* within the limit and ends outside an entity. A text whose tags alone fill a
\* chunk is refused, and sent plain.
HtmlChunksFaithful ==
  Depth(doc) = <<>> =>
    LET cut == HtmlChunks(doc) IN
      cut.failed \/
        /\ Concat(Reading, cut.chunks) = Reading(doc)
        /\ \A k \in DOMAIN cut.chunks :
             LET chunk == cut.chunks[k] IN
               /\ Size(chunk) <= Limit \/ Reading(doc) = <<>>
               /\ Depth(chunk) = <<>>
               /\ LET read == Reading(chunk) IN read # <<>> => Last(read)[1] \notin {"&", "e"}

\* Plain chunks keep the text and the limit.
PlainChunksFaithful ==
  LET text == SelectSeq(doc, IsChar)
      chunks == PlainChunks[text]
  IN /\ Concat(LAMBDA chunk : chunk, chunks) = text
     /\ \A k \in DOMAIN chunks : Len(chunks[k]) \in 1..Limit
=============================================================================
