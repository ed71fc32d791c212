-------------------------- MODULE TelegramInbound --------------------------
(***************************************************************************)
(* The way of a Telegram update into a channel log: the long poll with its *)
(* offset and stall watchdog (telegram/poller.ts), the bridge that handles *)
(* updates one by one, gathers texts into bursts and photos into albums    *)
(* (telegram/bridge.ts, shared/chat-bridge.ts), the remote commands, and   *)
(* the start and the stop of the surface (telegram/surface.ts).            *)
(*                                                                         *)
(* An update is named by its position in the sequence Telegram keeps; one  *)
(* action is the code from an await to the next.                           *)
(***************************************************************************)
EXTENDS Naturals, Sequences, FiniteSets, SequencesExt

CONSTANTS
  Updates,      \* what users may send: [chat, from, kind, group, name, args]
  Chats,        \* chats of the instance
  MayCommand,   \* <<chat, user>>: may run remote commands there
  MaxUpdates,   \* bound: updates
  MaxFailures,  \* bound: polls that fail, or hang, in a row
  MaxRestarts   \* bound: crashes and shutdowns

Kinds == {"text", "album", "photo", "command", "other", "ignored"}

ASSUME UpdatesAssumption == \A u \in Updates : u.chat \in Chats /\ u.kind \in Kinds
ASSUME BoundsAssumption == MaxUpdates \in Nat /\ MaxFailures \in Nat /\ MaxRestarts \in Nat

VARIABLES
  inbox,       \* Telegram's side: the updates in order
  stored,      \* state/telegram/<instance>.json: the first update not handled
  published,   \* the channel logs: [ids, from, chat, what]
  \* the gateway process
  surface,     \* off, up, stopping, flushing
  subscribed,  \* the bridge is among updateHandlers
  running,     \* TelegramPoller.running
  loop,        \* pollLoop: top, waiting, handling, backoff, ended
  offset,      \* TelegramPoller.offset
  failures,    \* polls that failed since one was answered
  batch,       \* answered updates not yet done with
  step,        \* handleUpdate of the first: start, flush, own, fetch, reply, done
  burst,       \* pendingTextBursts: burst[c]: updates
  album,       \* pendingPhotoGroups: album[c]: updates
  fetching,    \* the album whose photos the handler, or the stop, is fetching
  downloads,   \* albums whose photos a timer is fetching
  unflushed,   \* chats flushPending has still to flush
  \* history
  restarts,
  cut,         \* updates that were being handled at a crash
  lost         \* updates held in memory only when the process ended, or never handled

telegram == <<inbox>>
files == <<stored, published>>
poller == <<running, loop, offset, failures, batch>>
pending == <<burst, album, fetching, downloads, unflushed>>
history == <<restarts, cut, lost>>
vars == <<telegram, files, surface, subscribed, poller, step, pending, history>>

Ids == 1..MaxUpdates
None == <<>>

Init ==
  /\ inbox = <<>> /\ stored = 1 /\ published = <<>>
  /\ surface = "off" /\ subscribed = FALSE
  /\ running = FALSE /\ loop = "ended" /\ offset = 1 /\ failures = 0
  /\ batch = <<>> /\ step = "start"
  /\ burst = [c \in Chats |-> None] /\ album = [c \in Chats |-> None]
  /\ fetching = None /\ downloads = {} /\ unflushed = {}
  /\ restarts = 0 /\ cut = {} /\ lost = {}

Update(i) == inbox[i]
Chat(i) == Update(i).chat
Kind(i) == Update(i).kind

\* Neither a timer nor a stop runs between steps that follow each other as
\* microtasks: a flush with nothing to fetch and the update's own handling, and
\* a handler's end and the saving of the offset.
Settled == step \notin {"own", "done"}

UserSends ==
  /\ Len(inbox) < MaxUpdates
  /\ \E u \in Updates : inbox' = Append(inbox, u)
  /\ UNCHANGED <<files, surface, subscribed, poller, step, pending, history>>

----------------------------------------------------------------------------
(* Publishing.                                                             *)

\* A message speaks for whoever sent the first of the updates it is made of.
Message(ids, what) ==
  [ids |-> ids, from |-> Update(Head(ids)).from, chat |-> Chat(Head(ids)), what |-> what]

Text(ids) == IF ids = None THEN <<>> ELSE <<Message(ids, "text")>>

\* publishPhotos: the images that could be saved, or a note that none could.
Photos(ids) == IF ids = None THEN {<<>>}
               ELSE {<<Message(ids, what)>> : what \in {"image", "unsupported"}}

\* executeRemoteCommand: what a permitted command does. An update without a
\* message, or from a chat that is not allowed, is "ignored".
Supported == {"new", "clear", "stop", "thinking", "status", "help"}
CommandResult(u) ==
  IF \/ u.name \notin Supported \/ u.name \in {"status", "help"}
     \/ u.name # "thinking" /\ u.args # "none"
     \/ u.name = "thinking" /\ u.args # "level"
  THEN "reply" ELSE "control"

Denied(u) == u.kind = "command" /\ <<u.chat, u.from>> \notin MayCommand

----------------------------------------------------------------------------
(* The poll loop.                                                          *)

\* start: what a new process does with the stored offset.
Start ==
  /\ surface = "off" /\ loop = "ended"
  /\ restarts <= MaxRestarts
  /\ surface' = "up" /\ subscribed' = TRUE /\ running' = TRUE
  /\ loop' = "top" /\ offset' = stored /\ failures' = 0
  /\ UNCHANGED <<telegram, files, batch, step, pending, history>>

Poll ==
  /\ loop = "top"
  /\ loop' = IF running THEN "waiting" ELSE "ended"
  /\ UNCHANGED <<telegram, files, surface, subscribed, running, offset, failures, batch, step,
                 pending, history>>

Answer ==
  /\ loop = "waiting"
  /\ batch' = [k \in 1..(Len(inbox) + 1 - offset) |-> offset + k - 1]
  /\ loop' = IF batch' = <<>> THEN "top" ELSE "handling"
  /\ failures' = 0
  /\ UNCHANGED <<telegram, files, surface, subscribed, running, offset, step, pending, history>>

\* A recoverable error; the loop sleeps and polls again.
PollFails ==
  /\ loop = "waiting" /\ failures < MaxFailures
  /\ failures' = failures + 1
  /\ loop' = "backoff"
  /\ UNCHANGED <<telegram, files, surface, subscribed, running, offset, batch, step, pending,
                 history>>

BackoffEnds ==
  /\ loop = "backoff"
  /\ loop' = "top"
  /\ UNCHANGED <<telegram, files, surface, subscribed, running, offset, failures, batch, step,
                 pending, history>>

\* Any other error, a reply that is no JSON among them, ends the polling.
PollDies ==
  /\ loop = "waiting"
  /\ running' = FALSE /\ loop' = "ended"
  /\ UNCHANGED <<telegram, files, surface, subscribed, offset, failures, batch, step, pending,
                 history>>

AbortEnds == loop' = "ended"               \* mutant: restartRequested is not looked at
AbortRestarts == loop' = "top"

\* The watchdog: the request hangs, is aborted, and the loop goes round again.
Stall ==
  /\ loop = "waiting" /\ running /\ failures < MaxFailures
  /\ failures' = failures + 1
  /\ AbortRestarts
  /\ UNCHANGED <<telegram, files, surface, subscribed, running, offset, batch, step, pending,
                 history>>
----------------------------------------------------------------------------
(* Handling one update.                                                    *)

Handling(s) == loop = "handling" /\ step = s
This == Head(batch)

\* The burst of a chat goes into the log; the album is taken out of its map,
\* and its photos are fetched before anything else happens to the update.
FlushFirst(c, text, photos) ==
  /\ published' = published \o (IF text THEN Text(burst[c]) ELSE <<>>)
  /\ burst' = IF text THEN [burst EXCEPT ![c] = None] ELSE burst
  /\ LET taken == IF photos THEN album[c] ELSE None IN
       /\ fetching' = taken
       /\ album' = IF photos THEN [album EXCEPT ![c] = None] ELSE album
       /\ step' = IF taken = None THEN "own" ELSE "flush"

OtherGroup(c) == album[c] # None /\ Update(Head(album[c])).group # Update(This).group

Begin ==
  /\ Handling("start") /\ subscribed
  /\ LET u == Update(This) IN
       CASE u.kind = "ignored" -> step' = "done" /\ UNCHANGED <<published, burst, album, fetching>>
         [] Denied(u) -> step' = "reply" /\ UNCHANGED <<published, burst, album, fetching>>
         [] ~Denied(u) /\ u.kind = "text" -> FlushFirst(u.chat, FALSE, TRUE)
         [] ~Denied(u) /\ u.kind = "album" -> FlushFirst(u.chat, TRUE, OtherGroup(u.chat))
         [] ~Denied(u) /\ u.kind \in {"photo", "command", "other"} -> FlushFirst(u.chat, TRUE, TRUE)
  /\ UNCHANGED <<telegram, stored, surface, subscribed, poller, downloads, unflushed, history>>

\* notifyUpdate with no handler left.
Unheard ==
  /\ Handling("start") /\ ~subscribed
  /\ step' = "done"
  /\ lost' = lost \union {This}
  /\ UNCHANGED <<telegram, files, surface, subscribed, poller, pending, restarts, cut>>

Flushed ==
  /\ Handling("flush")
  /\ \E photos \in Photos(fetching) : published' = published \o photos
  /\ fetching' = None /\ step' = "own"
  /\ UNCHANGED <<telegram, stored, surface, subscribed, poller, burst, album, downloads,
                 unflushed, history>>

Replaced(pile) == [pile EXCEPT ![Chat(This)] = <<This>>]    \* mutant: forgets what is pending
\* bufferText and bufferPhotoGroup; their timer starts again with each update.
Buffered(pile) == [pile EXCEPT ![Chat(This)] = Append(@, This)]

Own ==
  /\ Handling("own")
  /\ LET u == Update(This) IN
       \/ /\ u.kind = "text"
          /\ burst' = Buffered(burst) /\ step' = "done" /\ UNCHANGED <<album, published>>
       \/ /\ u.kind = "album"
          /\ album' = Buffered(album) /\ step' = "done" /\ UNCHANGED <<burst, published>>
       \/ /\ u.kind = "photo"
          /\ step' = "fetch" /\ UNCHANGED <<burst, album, published>>
       \/ /\ u.kind = "other"
          /\ published' = Append(published, Message(<<This>>, "unsupported"))
          /\ step' = "done" /\ UNCHANGED <<burst, album>>
       \/ /\ u.kind = "command" /\ CommandResult(u) = "control"
          /\ published' = Append(published, Message(<<This>>, "control"))
          /\ step' = "done" /\ UNCHANGED <<burst, album>>
       \/ /\ u.kind = "command" /\ CommandResult(u) = "reply"
          /\ step' = "reply" /\ UNCHANGED <<burst, album, published>>
  /\ UNCHANGED <<telegram, stored, surface, subscribed, poller, fetching, downloads, unflushed,
                 history>>

Fetched ==
  /\ Handling("fetch")
  /\ \E photos \in Photos(<<This>>) : published' = published \o photos
  /\ step' = "done"
  /\ UNCHANGED <<telegram, stored, surface, subscribed, poller, pending, history>>

\* A reply to the chat; one that fails throws, unless it is a denial, and the
\* error is published.
Replied ==
  /\ Handling("reply")
  /\ \/ published' = published
     \/ /\ ~Denied(Update(This))
        /\ published' = Append(published, Message(<<This>>, "error"))
  /\ step' = "done"
  /\ UNCHANGED <<telegram, stored, surface, subscribed, poller, pending, history>>

SaveBatch(i) == stored' = Last(batch) + 1 /\ offset' = Last(batch) + 1   \* mutant: per batch
SaveNever(i) == stored' = stored /\ offset' = i + 1                      \* mutant: in memory only
SaveOffset(i) == stored' = i + 1 /\ offset' = i + 1

Advance ==
  /\ Handling("done")
  /\ SaveOffset(This)
  /\ batch' = Tail(batch)
  /\ loop' = IF batch' = <<>> THEN "top" ELSE "handling"
  /\ step' = "start"
  /\ UNCHANGED <<telegram, published, surface, subscribed, running, failures, pending, history>>

----------------------------------------------------------------------------
(* The timers of bursts and albums.                                        *)

BurstTimer(c) ==
  /\ Settled /\ burst[c] # None
  /\ published' = published \o Text(burst[c])
  /\ burst' = [burst EXCEPT ![c] = None]
  /\ UNCHANGED <<telegram, stored, surface, subscribed, poller, step, album, fetching, downloads,
                 unflushed, history>>

AlbumTimer(c) ==
  /\ Settled /\ album[c] # None
  /\ downloads' = downloads \union {album[c]}
  /\ album' = [album EXCEPT ![c] = None]
  /\ UNCHANGED <<telegram, files, surface, subscribed, poller, step, burst, fetching, unflushed,
                 history>>

DownloadEnds(d) ==
  /\ Settled /\ d \in downloads
  /\ \E photos \in Photos(d) : published' = published \o photos
  /\ downloads' = downloads \ {d}
  /\ UNCHANGED <<telegram, stored, surface, subscribed, poller, step, burst, album, fetching,
                 unflushed, history>>

----------------------------------------------------------------------------
(* Stopping, and the end of the process.                                   *)

\* stop: the handler is taken away, a poll or a sleep is aborted, and a batch
\* that is being handled is awaited.
Stop ==
  /\ surface = "up" /\ Settled
  /\ surface' = "stopping" /\ subscribed' = FALSE /\ running' = FALSE
  /\ loop' = IF loop \in {"waiting", "backoff"} THEN "ended" ELSE loop
  /\ UNCHANGED <<telegram, files, offset, failures, batch, step, pending, history>>

PendingChats == {c \in Chats : burst[c] # None \/ album[c] # None}

FlushPending ==
  /\ surface = "stopping" /\ loop = "ended"
  /\ surface' = "flushing"
  /\ unflushed' = PendingChats
  /\ UNCHANGED <<telegram, files, subscribed, poller, step, burst, album, fetching, downloads,
                 history>>

FlushChat(c) ==
  /\ surface = "flushing" /\ c \in unflushed /\ fetching = None
  /\ published' = published \o Text(burst[c])
  /\ burst' = [burst EXCEPT ![c] = None]
  /\ fetching' = album[c]
  /\ album' = [album EXCEPT ![c] = None]
  /\ unflushed' = unflushed \ {c}
  /\ UNCHANGED <<telegram, stored, surface, subscribed, poller, step, downloads, history>>

FlushedChat ==
  /\ surface = "flushing" /\ fetching # None
  /\ \E photos \in Photos(fetching) : published' = published \o photos
  /\ fetching' = None
  /\ UNCHANGED <<telegram, stored, surface, subscribed, poller, step, burst, album, downloads,
                 unflushed, history>>

Piled(piles) == UNION {Range(p) : p \in piles}
Buffers == Piled({burst[c] : c \in Chats} \union {album[c] : c \in Chats} \union {fetching})
Downloading == Piled(downloads)

Gone ==
  /\ surface' = "off" /\ subscribed' = FALSE /\ running' = FALSE
  /\ loop' = "ended" /\ batch' = <<>> /\ step' = "start" /\ offset' = stored /\ failures' = 0
  /\ burst' = [c \in Chats |-> None] /\ album' = [c \in Chats |-> None]
  /\ fetching' = None /\ downloads' = {} /\ unflushed' = {}
  /\ restarts' = restarts + 1
  /\ UNCHANGED <<telegram, files>>

\* The gateway waits for stop and then exits; a timer's download is not waited for.
Exit ==
  /\ surface = "flushing" /\ unflushed = {} /\ fetching = None
  /\ Gone
  /\ lost' = lost \union Downloading
  /\ UNCHANGED cut

Crash ==
  /\ surface # "off" /\ restarts < MaxRestarts
  /\ Gone
  /\ lost' = lost \union {i \in Buffers \union Downloading : i < stored}
  /\ cut' = IF batch = <<>> THEN cut ELSE cut \union {This}

Next ==
  \/ UserSends \/ Start \/ Poll \/ Answer \/ PollFails \/ BackoffEnds \/ PollDies \/ Stall
  \/ Begin \/ Unheard \/ Flushed \/ Own \/ Fetched \/ Replied \/ Advance
  \/ \E c \in Chats : BurstTimer(c) \/ AlbumTimer(c) \/ FlushChat(c)
  \/ \E d \in downloads : DownloadEnds(d)
  \/ Stop \/ FlushPending \/ FlushedChat \/ Exit \/ Crash

\* What a process does by itself: promises, timers and the watchdog; a
\* request is answered, fails or is aborted.
ByItself ==
  \/ Poll \/ Answer \/ BackoffEnds \/ Begin \/ Unheard \/ Flushed \/ Own \/ Fetched \/ Replied
  \/ Advance \/ FlushPending \/ FlushedChat

Spec == Init /\ [][Next]_vars
Fairness ==
  /\ WF_vars(ByItself)
  /\ \A c \in Chats : WF_vars(BurstTimer(c)) /\ WF_vars(AlbumTimer(c)) /\ WF_vars(FlushChat(c))
  /\ WF_vars(\E d \in downloads : DownloadEnds(d))
FairSpec == Spec /\ Fairness

----------------------------------------------------------------------------
(* Properties.                                                             *)

TypeOK ==
  /\ inbox \in Seq(Updates) /\ stored \in 1..(MaxUpdates + 1) /\ offset \in 1..(MaxUpdates + 1)
  /\ \A k \in DOMAIN published : published[k].ids \in Seq(Ids) /\ published[k].ids # None
  /\ surface \in {"off", "up", "stopping", "flushing"}
  /\ subscribed \in BOOLEAN /\ running \in BOOLEAN
  /\ loop \in {"top", "waiting", "handling", "backoff", "ended"}
  /\ step \in {"start", "flush", "own", "fetch", "reply", "done"}
  /\ failures \in 0..MaxFailures /\ restarts \in 0..(MaxRestarts + 1)
  /\ batch \in Seq(Ids) /\ (loop = "handling") = (batch # <<>>)
  /\ burst \in [Chats -> Seq(Ids)] /\ album \in [Chats -> Seq(Ids)] /\ fetching \in Seq(Ids)
  /\ downloads \subseteq Seq(Ids) /\ unflushed \subseteq Chats
  /\ cut \subseteq Ids /\ lost \subseteq Ids

Silent(i) ==
  \/ Kind(i) = "ignored"
  \/ Kind(i) = "command" /\ (Denied(Update(i)) \/ CommandResult(Update(i)) = "reply")
Entries(i) == {k \in DOMAIN published : i \in Range(published[k].ids)}

\* Every update below the stored offset has come into the log, was answered in
\* the chat, or waits in a buffer of this process; only an update that the end
\* of a process took from memory, or that a stop left unhandled, is missing.
NothingSkipped ==
  \A i \in 1..(stored - 1) :
    Silent(i) \/ Entries(i) # {} \/ i \in Buffers \/ i \in Downloading \/ i \in lost

\* An update is published once; twice only when a crash cut its handling
\* short, and once more at most with each crash.
RepeatsExcused ==
  \A i \in 1..Len(inbox) :
    Cardinality(Entries(i)) > 1 => i \in cut /\ Cardinality(Entries(i)) <= 1 + restarts

\* The log has the updates of a chat in the order they were sent, through
\* bursts, commands, stops and restarts; only an album whose photos a timer is
\* still fetching is overtaken.
First(i) == CHOOSE k \in Entries(i) : \A l \in Entries(i) : k <= l
InOrder ==
  \A i, j \in 1..Len(inbox) :
    /\ i < j /\ Chat(i) = Chat(j) /\ Kind(i) # "album"
    /\ Entries(i) # {} /\ Entries(j) # {}
    => First(i) <= First(j)

\* What becomes of an update: it is not passed over unseen, published twice
\* without a crash, or published before an older one of its chat.
UpdatesAccounted == TypeOK /\ NothingSkipped /\ RepeatsExcused /\ InOrder

\* Every update sent settles while nothing stops the polling: through failing
\* and hanging polls, bursts that keep growing and albums. A stop, a crash and
\* an error that ends the loop stop it; an aborted request does not.
EveryUpdateSettles ==
  \A i \in Ids :
    (i <= Len(inbox)) ~>
      (\/ i < stored /\ (Silent(i) \/ Entries(i) # {} \/ i \in lost)
       \/ ~running)
=============================================================================
