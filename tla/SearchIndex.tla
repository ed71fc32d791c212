----------------------------- MODULE SearchIndex -----------------------------
(***************************************************************************)
(* The index of a workspace's documents (workspace/search.ts): one file    *)
(* that every search brings up to date before it looks.  A search lists    *)
(* the documents, looks at each one's times and size, reads those that     *)
(* differ from what the index has and writes the index when anything       *)
(* changed.  Searches are programs of their own: they overlap each other   *)
(* and those who write documents, and nothing locks the index.             *)
(*                                                                         *)
(* A document is a sequence of lines, a line its heading level (0 for      *)
(* text) and its word.  Times are the file system's, whose clock may       *)
(* stand still between two writes.                                         *)
(***************************************************************************)
EXTENDS Naturals, Sequences, FiniteSetsExt, SequencesExt

CONSTANTS
    Agents,
    Documents,  \* contents a document may be given
    Paths,      \* documents in the order of their paths
    Searches,   \* programs that use the index
    Uses,       \* what the index is used for: a search for an agent or "global",
                \* "rebuild", "inspect"
    Shown,      \* where documents are found: sets of agents and "workspace"
    MaxTime, MaxWrites, MaxConfigs, MaxSearches  \* bounds

SearchAssumption ==
    /\ {MaxTime, MaxWrites, MaxConfigs, MaxSearches} \subseteq Nat
    /\ Uses \subseteq Agents \cup {"global", "rebuild", "inspect"}
    /\ Shown \subseteq SUBSET (Agents \cup {"workspace"})

Files == ToSet(Paths)

VARIABLES
    disk,       \* <<>> or <<[doc, meta]>> for each path
    clock,      \* of the file system
    config,     \* the roots each path is under, and whether embeddings are on
    index,      \* the index file: <<>> or <<[model, files]>>
    search,     \* what each program is at; <<>> when it is not running
    recent,     \* what each path was given since the clock last moved
    blurred,    \* paths that had two contents before it moved again
    counts      \* writes, changes of the configuration, searches

vars == <<disk, clock, config, index, search, recent, blurred, counts>>

(***************************************************************************)
(* A document's chunks                                                     *)
(***************************************************************************)

\* The heading that replaces what the trail had at its level and below; levels
\* that were passed over are empty.
Under(trail, line) ==
    [l \in 1..line.level |-> IF l = line.level THEN line.word
                             ELSE IF l <= Len(trail) THEN trail[l] ELSE ""]

Titled(trail) == SelectSeq(trail, LAMBDA w : w # "")

NoChunks == [done |-> <<>>, trail |-> <<>>, start |-> 1, text |-> <<>>]

Flush(c, end) ==
    IF c.text = <<>> /\ Titled(c.trail) = <<>> THEN c.done
    ELSE Append(c.done, [trail |-> Titled(c.trail), from |-> c.start, to |-> end,
                         text |-> IF c.text = <<>> THEN Titled(c.trail) ELSE c.text])

ChunkMarkdownFile(doc) ==
    LET Line(c, i) ==
            IF doc[i].level > 0
              THEN [done |-> Flush(c, i - 1), trail |-> Under(c.trail, doc[i]),
                    start |-> i, text |-> <<>>]
              ELSE [c EXCEPT !.text = IF doc[i].word = "" THEN @ ELSE Append(@, doc[i].word)]
        last == FoldLeft(Line, NoChunks, [i \in 1..Len(doc) |-> i])
        chunks == Flush(last, Len(doc))
    IN IF chunks = <<>> /\ doc # <<>>
         THEN <<[trail |-> <<>>, from |-> 1, to |-> Len(doc), text |-> <<>>]>>
         ELSE chunks

(***************************************************************************)
(* Who may find a document                                                 *)
(***************************************************************************)

Everyone == [scope |-> "workspace", agents |-> {}]
Only(a) == [scope |-> "agents", agents |-> {a}]
Nobody == [scope |-> "agents", agents |-> {}]

AddCorpusPath(visibility, existing) ==
    IF "workspace" \in {visibility.scope, existing.scope} THEN Everyone
    ELSE [scope |-> "agents", agents |-> existing.agents \cup visibility.agents]

Visibility(roots) ==
    MapThenFoldSet(AddCorpusPath, Nobody,
                   LAMBDA r : IF r = "workspace" THEN Everyone ELSE Only(r),
                   LAMBDA S : CHOOSE r \in S : TRUE, roots)

Visible(who, visibility) ==
    who = "global" \/ visibility.scope = "workspace" \/ who \in visibility.agents

(***************************************************************************)
(* Documents and configuration                                             *)
(***************************************************************************)

Init == /\ disk \in [Files -> {<<[doc |-> d, meta |-> [mtime |-> 0, ctime |-> 0, size |-> Len(d)]]>>
                                : d \in Documents} \cup {<<>>}]
        /\ clock = 0
        /\ config \in [roots : [Files -> Shown], embeddings : {FALSE}]
        /\ index = <<>>
        /\ search = [p \in Searches |-> <<>>]
        /\ recent = [f \in Files |-> IF disk[f] = <<>> THEN {} ELSE {disk[f][1].doc}]
        /\ blurred = {}
        /\ counts = [writes |-> 0, configs |-> 0, searches |-> 0]

\* A path's content, now and during the searches that run.
Put(f, file) ==
    /\ counts.writes < MaxWrites
    /\ disk' = [disk EXCEPT ![f] = file]
    /\ search' = [p \in Searches |->
                    IF search[p] = <<>> THEN <<>>
                    ELSE <<[search[p][1] EXCEPT !.had[f] = @ \cup {file}]>>]
    /\ counts' = [counts EXCEPT !.writes = @ + 1]
    /\ UNCHANGED <<clock, config, index>>

\* A document is written; a program that restores one gives it a time of
\* modification of the past, but no time of change but the clock's.
WriteDocument(f, doc, mtime) ==
    LET file == [doc |-> doc, meta |-> [mtime |-> mtime, ctime |-> clock, size |-> Len(doc)]]
    IN /\ Put(f, <<file>>)
       /\ recent' = [recent EXCEPT ![f] = @ \cup {doc}]
       /\ blurred' = IF recent[f] \subseteq {doc} THEN blurred ELSE blurred \cup {f}

RemoveDocument(f) ==
    /\ disk[f] # <<>>
    /\ Put(f, <<>>)
    /\ UNCHANGED <<recent, blurred>>

Tick == /\ clock < MaxTime
        /\ clock' = clock + 1
        /\ recent' = [f \in Files |-> {}]
        /\ UNCHANGED <<disk, config, index, search, blurred, counts>>

\* Agents come, go or are given other directories; embeddings are switched.
Configure(f, roots, embeddings) ==
    /\ counts.configs < MaxConfigs
    /\ config' = [roots |-> [config.roots EXCEPT ![f] = roots], embeddings |-> embeddings]
    /\ counts' = [counts EXCEPT !.configs = @ + 1]
    /\ UNCHANGED <<disk, clock, index, search, recent, blurred>>

(***************************************************************************)
(* A program that uses the index: to search it for someone, to rebuild it  *)
(* or to inspect it                                                        *)
(***************************************************************************)

\* The index, when it was made the way it would be now.
Usable(was, embeddings) ==
    IF was # <<>> /\ was[1].model = embeddings THEN was[1].files ELSE <<>>

CollectCorpusFiles == SelectSeq(Paths, LAMBDA f : disk[f] # <<>> /\ config.roots[f] # {})

CollectCorpusFileMetadata == [i \in 1..Len(CollectCorpusFiles) |->
                                disk[CollectCorpusFiles[i]][1].meta]

\* The index is read, and the documents are listed and looked at; rebuilding
\* removes the index first.
Begin(p, use) ==
    /\ search[p] = <<>> /\ counts.searches < MaxSearches
    /\ index' = IF use = "rebuild" THEN <<>> ELSE index
    /\ search' = [search EXCEPT ![p] =
         <<[use |-> use, config |-> config, was |-> index',
            known |-> Usable(index', config.embeddings),
            list |-> CollectCorpusFiles, metas |-> CollectCorpusFileMetadata,
            files |-> <<>>, changed |-> FALSE, had |-> [f \in Files |-> {disk[f]}]]>>]
    /\ counts' = [counts EXCEPT !.searches = @ + 1]
    /\ UNCHANGED <<disk, clock, config, recent, blurred>>

Stop(p) == search' = [search EXCEPT ![p] = <<>>]

\* mutant: the time of modification and the size are taken to be enough
SameTimeAndSize(previous, meta) ==
    previous.meta.mtime = meta.mtime /\ previous.meta.size = meta.size

SameMeta(previous, meta) == previous.meta = meta

Entry(f, doc, meta, visibility) ==
    [path |-> f, hash |-> doc, meta |-> meta, visibility |-> visibility,
     chunks |-> ChunkMarkdownFile(doc)]

Reuse(previous, visibility) == [previous EXCEPT !.visibility = visibility]

\* The next document is kept as it is indexed, or read: one that has gone by
\* then ends the program with an error.
RefreshFile(p) ==
    /\ search[p] # <<>>
    /\ LET s == search[p][1]
           i == Len(s.files) + 1
           f == s.list[i]
           meta == s.metas[i]
           visibility == Visibility(s.config.roots[f])
           previous == SelectSeq(s.known, LAMBDA e : e.path = f)
           Add(entry, changed) ==
               /\ search' = [search EXCEPT ![p][1].files = Append(@, entry),
                                           ![p][1].changed = @ \/ changed]
               /\ UNCHANGED <<disk, clock, config, index, recent, blurred, counts>>
           kept == /\ s.use # "inspect"
                   /\ previous # <<>> /\ SameMeta(previous[1], meta)
       IN /\ i <= Len(s.list)
          /\ \/ /\ kept
                /\ Add(Reuse(previous[1], visibility), previous[1].visibility # visibility)
             \/ /\ ~kept /\ disk[f] = <<>>
                /\ Stop(p)
                /\ UNCHANGED <<disk, clock, config, index, recent, blurred, counts>>
             \/ /\ ~kept /\ disk[f] # <<>>
                /\ Add(Entry(f, disk[f][1].doc, meta, visibility), TRUE)

Finished(p) == search[p] # <<>> /\ Len(search[p][1].files) = Len(search[p][1].list)

\* Documents that are on record and not there any more.
Removed(s) == {e \in ToSet(s.known) : e.path \notin ToSet(s.list)}

Unchanged(s) == /\ s.was # <<>> /\ s.was[1].model = s.config.embeddings
                /\ ~s.changed /\ Removed(s) = {}

RefreshWorkspaceSearchIndex(p) ==
    /\ Finished(p)
    /\ LET s == search[p][1]
       IN /\ s.use # "inspect"
          /\ index' = IF Unchanged(s) THEN index
                      ELSE <<[model |-> s.config.embeddings, files |-> s.files]>>
    /\ Stop(p)
    /\ UNCHANGED <<disk, clock, config, recent, blurred, counts>>

\* What a search looks through; how matches are ranked and how many are
\* returned is left out.
VisibleFiles(s) ==
    {e \in ToSet(IF Unchanged(s) THEN s.known ELSE s.files) :
        Visible(IF s.use \in Agents THEN s.use ELSE "global", e.visibility)}

\* Every document is read again and compared by its content.
Current(s) ==
    /\ s.was # <<>> /\ s.was[1].model = s.config.embeddings
    /\ Removed(s) = {}
    /\ \A e \in ToSet(s.files) :
         \E k \in ToSet(s.known) : k.path = e.path /\ k.hash = e.hash
                                     /\ k.visibility = e.visibility

InspectWorkspaceSearchIndex(p) ==
    /\ Finished(p) /\ search[p][1].use = "inspect"
    /\ Stop(p)
    /\ UNCHANGED <<disk, clock, config, index, recent, blurred, counts>>

Next ==
    \/ \E f \in Files : \/ \E doc \in Documents, t \in 0..clock : WriteDocument(f, doc, t)
                        \/ RemoveDocument(f)
                        \/ \E r \in Shown, e \in BOOLEAN : Configure(f, r, e)
    \/ Tick
    \/ \E p \in Searches : \/ \E use \in Uses : Begin(p, use)
                           \/ RefreshFile(p)
                           \/ RefreshWorkspaceSearchIndex(p)
                           \/ InspectWorkspaceSearchIndex(p)

Spec == Init /\ [][Next]_vars

(***************************************************************************)
(* Properties                                                              *)
(***************************************************************************)

\* What a program finds in a document is in a content the document had while it
\* ran, however many others brought the index up to date or were stopped meanwhile,
\* unless the document was written twice in no time.
FoundIsFresh ==
    \A p \in Searches :
      Finished(p) =>
        \A e \in VisibleFiles(search[p][1]) :
          \/ \E file \in search[p][1].had[e.path] :
               file # <<>> /\ e.chunks = ChunkMarkdownFile(file[1].doc)
          \/ e.path \in blurred

\* An index that an inspection calls current has a content of every document.
CurrentIsTrue ==
    \A p \in Searches :
      Finished(p) /\ search[p][1].use = "inspect" /\ Current(search[p][1]) =>
        \A f \in ToSet(search[p][1].list) :
          \E e \in ToSet(search[p][1].was[1].files), file \in search[p][1].had[f] :
            e.path = f /\ file # <<>> /\ e.chunks = ChunkMarkdownFile(file[1].doc)

\* A search for an agent covers every document in the directories of the workspace
\* and of that agent, and no document that only others have.
SearchesItsOwn ==
    \A p \in Searches :
      Finished(p) /\ search[p][1].use \in Agents =>
        {e.path : e \in VisibleFiles(search[p][1])} =
          {f \in ToSet(search[p][1].list) :
             {"workspace", search[p][1].use} \cap search[p][1].config.roots[f] # {}}

\* The headings a line is under: of each level, the last one that no heading of
\* a higher level has closed.
HeadingsOf(doc, i) ==
    LET Open(j) == /\ j <= i /\ doc[j].level > 0
                   /\ \A k \in j + 1..i : doc[k].level = 0 \/ doc[k].level > doc[j].level
        open == SelectSeq([j \in 1..Len(doc) |-> j], Open)
    IN Titled([k \in 1..Len(open) |-> doc[open[k]].word])

\* Every line that says something is in exactly one chunk, under its headings.
LinesChunked ==
    index # <<>> =>
      \A e \in ToSet(index[1].files) :
        \A i \in {j \in 1..Len(e.hash) : e.hash[j].word # ""} :
          Cardinality({c \in 1..Len(e.chunks) :
                         /\ i \in e.chunks[c].from..e.chunks[c].to
                         /\ e.chunks[c].trail = HeadingsOf(e.hash, i)}) = 1
=============================================================================
