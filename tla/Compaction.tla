------------------------------ MODULE Compaction ------------------------------
(***************************************************************************)
(* Summarising the older part of a transcript                              *)
(* (sessions/compaction/runner.ts, extension.ts).  Text that fits one      *)
(* request goes in one; longer text is cut into chunks, each summarised,   *)
(* and the summaries merged, in several passes if they are too long        *)
(* themselves.  A split turn has its prefix summarised beside the history. *)
(*                                                                         *)
(* A text is a sequence of cells, one per token (in some unit); a cell is  *)
(* the set of cells of the transcript it stands for, so a summary of any   *)
(* length stands, cell by cell, for all it was made from.                  *)
(***************************************************************************)
EXTENDS Naturals, Sequences, FiniteSets, SequencesExt, FiniteSetsExt, Functions

CONSTANTS
  Budget,         \* resolveCompactionInputTokenBudget
  Overhead,       \* PROMPT_OVERHEAD_TOKENS: room left for what surrounds a chunk
  Base,           \* the instructions around a text: at most Overhead
  Floor,          \* the least content budget of a chunk
  MaxPasses,      \* MAX_SUMMARY_MERGE_PASSES
  SummarySizes,   \* how long a model's summary may be
  Jobs            \* what is to be summarised: [blocks, previous, system, cut, prefix]

VARIABLES
  job,
  phase,          \* of the history: "idle", "direct", "chunks", "merge", "groups", "done", "failed"
  queue,          \* texts still to be summarised in this pass
  got,            \* summaries of this pass
  pass,
  prefix,         \* of the split turn's prefix: "none", "asked", "done", "failed"
  summary,        \* the cells the history's summary stands for
  largest,        \* ghost: the largest request over chunks, or over several summaries
  outcome         \* "running", "compacted", "cancelled"

vars == <<job, phase, queue, got, pass, prefix, summary, largest, outcome>>

----------------------------------------------------------------------------
(* Cutting text.                                                           *)

\* resolveChunkContentTokenBudget.
Content == Max({Floor, IF Budget > Overhead + job.system THEN Budget - Overhead - job.system ELSE 0})

\* splitOversizedText: a piece ends at a break in its second half, or where it
\* is full; job.cut is how far the breaks of this transcript let a piece go.
Cut == Max({Min({job.cut, Content}), (Content + 1) \div 2})
Pieces(text) ==
  LET n == IF Len(text) <= Content THEN 1 ELSE 1 + (Len(text) - Content + Cut - 1) \div Cut
  IN [k \in 1..n |-> IF k < n THEN SubSeq(text, (k - 1) * Cut + 1, k * Cut)
                     ELSE SubSeq(text, (k - 1) * Cut + 1, Len(text))]

\* mutant: the chunk is closed once it is over the limit
PackLate(acc, piece) ==
  IF Len(acc.parts) > Content
  THEN [chunks |-> Append(acc.chunks, acc.parts), parts |-> piece]
  ELSE [acc EXCEPT !.parts = @ \o piece]
\* chunkTextBlocks: pieces go into a chunk until the next would not fit.
Pack(acc, piece) ==
  IF acc.parts # <<>> /\ Len(acc.parts) + Len(piece) > Content
  THEN [chunks |-> Append(acc.chunks, acc.parts), parts |-> piece]
  ELSE [acc EXCEPT !.parts = @ \o piece]
\* mutant: the last chunk is not flushed
ChunksOpen(blocks) ==
  FoldLeft(Pack, [chunks |-> <<>>, parts |-> <<>>], FlattenSeq([k \in DOMAIN blocks |-> Pieces(blocks[k])])).chunks
Chunks(blocks) ==
  LET packed == FoldLeft(Pack, [chunks |-> <<>>, parts |-> <<>>],
                         FlattenSeq([k \in DOMAIN blocks |-> Pieces(blocks[k])]))
  IN IF packed.parts = <<>> THEN packed.chunks ELSE Append(packed.chunks, packed.parts)

Total(texts) == FoldLeft(LAMBDA n, t : n + Len(t), 0, texts)
Covers(texts) == UNION {UNION ToSet(texts[k]) : k \in DOMAIN texts}
Summary(texts, n) == [k \in 1..n |-> Covers(texts)]

----------------------------------------------------------------------------
(* The history: generateSummaryWithHooks and what it calls.                *)

Running == outcome = "running"
Fits(texts) == Total(texts) + job.previous + job.system + Base <= Budget

Begin ==
  /\ phase = "idle"
  /\ job' \in Jobs
  /\ prefix' = IF job'.prefix THEN "asked" ELSE "none"
  /\ phase' = IF job'.blocks = <<>> /\ job'.prefix THEN "done" ELSE "begun"
  /\ UNCHANGED <<queue, got, pass, summary, largest, outcome>>

\* A conversation that fits one request.
Direct ==
  /\ Running
  /\ phase = "begun"
  /\ Fits(job.blocks)
  /\ summary' = Covers(job.blocks)
  /\ phase' = "done"
  /\ UNCHANGED <<job, queue, got, pass, prefix, largest, outcome>>

\* generateChunkedSummaryWithHooks.
Chunk ==
  /\ Running
  /\ phase = "begun"
  /\ ~Fits(job.blocks)
  /\ LET chunks == Chunks(job.blocks)
     IN /\ queue' = chunks
        /\ got' = IF chunks = <<>> THEN << <<{}>> >> ELSE <<>>
  /\ phase' = "chunks"
  /\ UNCHANGED <<job, pass, prefix, summary, largest, outcome>>

\* One request per chunk, in turn: completeSummaryRequest.
Summarise ==
  /\ Running
  /\ phase \in {"chunks", "groups"}
  /\ queue # <<>>
  /\ \E n \in SummarySizes : got' = Append(got, Summary(<<Head(queue)>>, n))
  /\ largest' = Max({largest, Len(Head(queue)) + job.system + Base})
  /\ queue' = Tail(queue)
  /\ UNCHANGED <<job, phase, pass, prefix, summary, outcome>>

\* mergeChunkSummariesWithHooks.
Merged ==
  /\ Running
  /\ phase \in {"chunks", "groups"}
  /\ queue = <<>>
  /\ Fits(got) \/ Len(got) <= 1
  /\ summary' = Covers(got)
  /\ largest' = IF Len(got) > 1 THEN Max({largest, Total(got) + job.system + Base}) ELSE largest
  /\ phase' = "done"
  /\ queue' = <<>>
  /\ got' = <<>>
  /\ UNCHANGED <<job, pass, prefix, outcome>>

MergeAgain ==
  /\ Running
  /\ phase \in {"chunks", "groups"}
  /\ queue = <<>>
  /\ ~Fits(got)
  /\ Len(got) > 1
  /\ pass < MaxPasses
  /\ queue' = Chunks(got)
  /\ got' = <<>>
  /\ pass' = pass + 1
  /\ phase' = "groups"
  /\ UNCHANGED <<job, prefix, summary, largest, outcome>>

TooLarge ==
  /\ Running
  /\ phase \in {"chunks", "groups"}
  /\ queue = <<>>
  /\ ~Fits(got)
  /\ Len(got) > 1
  /\ pass >= MaxPasses
  /\ phase' = "failed"
  /\ UNCHANGED <<job, queue, got, pass, prefix, summary, largest, outcome>>

\* A request that fails after its retries, or is aborted.
RequestFails ==
  /\ Running
  /\ phase \in {"begun", "chunks", "groups"}
  /\ phase' = "failed"
  /\ UNCHANGED <<job, queue, got, pass, prefix, summary, largest, outcome>>

\* generateTurnPrefixSummaryWithHooks, beside the history.
Prefix ==
  /\ Running
  /\ prefix = "asked"
  /\ prefix' \in {"done", "failed"}
  /\ UNCHANGED <<job, phase, queue, got, pass, summary, largest, outcome>>

\* compactSessionHistory and the hook: both parts, or the compaction is cancelled.
Finish ==
  /\ Running
  /\ \/ /\ phase = "done"
        /\ prefix \in {"none", "done"}
        /\ outcome' = "compacted"
     \/ /\ "failed" \in {phase, prefix}
        /\ outcome' = "cancelled"
  /\ UNCHANGED <<job, phase, queue, got, pass, prefix, summary, largest>>

Init ==
  /\ job = [blocks |-> <<>>, previous |-> 0, system |-> 0, cut |-> 1, prefix |-> FALSE]
  /\ phase = "idle"
  /\ queue = <<>>
  /\ got = <<>>
  /\ pass = 0
  /\ prefix = "none"
  /\ summary = {}
  /\ largest = 0
  /\ outcome = "running"

Next ==
  Begin \/ Direct \/ Chunk \/ Summarise \/ Merged \/ MergeAgain \/ TooLarge
    \/ RequestFails \/ Prefix \/ Finish

Spec == Init /\ [][Next]_vars

----------------------------------------------------------------------------
(* Properties.                                                             *)

\* A compaction that succeeds has summarised everything: every part of the
\* history is in the summary, however often it was cut and merged, and the
\* prefix of a split turn with it.
CompactedCoversAll ==
  outcome = "compacted" => summary = Covers(job.blocks) /\ prefix # "asked"

\* A request over a chunk, or over several summaries, keeps to the model's
\* input budget, unless the system prompt leaves less than the least chunk.
RequestsFit ==
  job.system + Overhead + Floor <= Budget => largest <= Budget
=============================================================================
