----------------------------- MODULE MCChannels -----------------------------
(***************************************************************************)
(* The way of messages between people, channels and agents, each component *)
(* checked by itself in one run: the reactions of the gateway's lanes to   *)
(* channel messages (DeliveryLoop), the replies sent to Telegram           *)
(* (TelegramSend, TelegramFormat), the channel file and the form of its    *)
(* messages (ChannelLog, MessageForm), who is a member of a channel        *)
(* (AgentRoster), whom a message wakes (WakePolicy) and what a browser     *)
(* shows of a log (WebView).                                               *)
(***************************************************************************)
EXTENDS DeliveryLoop, TLC

CONSTANTS
  a1, c1, Texts, Pictures, MaxRetries, TagNames, Limit, MaxCells, Writers, MaxLines, MaxDeaths,
  MaxStops, Configurable, Default, Roots, Rooms, Threads, ChannelOf, Dm, SurfaceDefault, MaxOps,
  Me, Others, Places, Patterns, Matches, Values, Files, Window, MaxWrites, MaxSelects,
  MaxBreaks, MaxAsked

VARIABLES
  part,   \* whose behaviour this is
  message, calls, attempt, sending, chat, call, failedHtml, typing, doc, file, unwritten,
  started, deaths, changed, up, watched, cursors, read, past, halfSeen, readerStops, wanted,
  sent, config, files, channels, threads, cli, gatewayUp, known, ops, gatewayStarts, mine,
  joined, left, ghosts, policy, logs, pending, connected, missed, timer, selected, node, failed,
  asked, counts

Send == INSTANCE TelegramSend WITH rest <- calls, Photos <- Pictures
Format == INSTANCE TelegramFormat
Log == INSTANCE ChannelLog WITH offset <- watched, restarts <- readerStops, rest <- unwritten,
  begun <- started, saved <- cursors, MaxRestarts <- MaxStops
Form == INSTANCE MessageForm
Roster == INSTANCE AgentRoster WITH restarts <- gatewayStarts, gateway <- gatewayUp, excused <-
  ghosts, Agents <- Configurable, Channels <- Rooms, MaxRestarts <- MaxStops
Waking == INSTANCE WakePolicy
View == INSTANCE WebView WITH files <- logs

sendVars == <<message, calls, attempt, sending, chat, call, failedHtml, typing>>
formatVars == <<doc>>
logVars == <<file, unwritten, started, deaths, changed, up, watched, cursors, read, past,
  halfSeen, readerStops>>
formVars == <<wanted, sent>>
rosterVars == <<config, files, channels, threads, cli, gatewayUp, known, ops, gatewayStarts,
  mine, joined, left, ghosts>>
policyVars == <<policy>>
viewVars == <<logs, pending, connected, missed, timer, selected, node, failed, asked, counts>>

\* Init and Next, a part at a time: the others keep still.
ChannelsInit ==
  /\ part \in {"delivery", "send", "format", "log", "form", "roster", "policy", "view"}
  /\ Init
  /\ Send!Init
  /\ Format!Init
  /\ Log!Init
  /\ Form!Init
  /\ Roster!Init
  /\ Waking!Init
  /\ View!Init
  /\ part # "view" => \A f \in Files : logs[f] = <<>>

ChannelsNext ==
  \/ /\ part = "delivery" /\ Next
     /\ UNCHANGED <<part, sendVars, formatVars, logVars, formVars, rosterVars, policyVars,
                   viewVars>>
  \/ /\ part = "send" /\ Send!Next
     /\ UNCHANGED <<part, vars, formatVars, logVars, formVars, rosterVars, policyVars,
                   viewVars>>
  \/ /\ part = "format" /\ Format!Next
     /\ UNCHANGED <<part, vars, sendVars, logVars, formVars, rosterVars, policyVars, viewVars>>
  \/ /\ part = "log" /\ Log!Next
     /\ UNCHANGED <<part, vars, sendVars, formatVars, formVars, rosterVars, policyVars,
                   viewVars>>
  \/ /\ part = "form" /\ Form!Next
     /\ UNCHANGED <<part, vars, sendVars, formatVars, logVars, rosterVars, policyVars,
                   viewVars>>
  \/ /\ part = "roster" /\ Roster!Next
     /\ UNCHANGED <<part, vars, sendVars, formatVars, logVars, formVars, policyVars, viewVars>>
  \/ /\ part = "policy" /\ Waking!Next
     /\ UNCHANGED <<part, vars, sendVars, formatVars, logVars, formVars, rosterVars, viewVars>>
  \/ /\ part = "view" /\ View!Next
     /\ UNCHANGED <<part, vars, sendVars, formatVars, logVars, formVars, rosterVars,
                   policyVars>>

everything == <<part, vars, sendVars, formatVars, logVars, formVars, rosterVars, policyVars,
  viewVars>>

ChannelsSpec == ChannelsInit /\ [][ChannelsNext]_everything

ASSUME ViewAssumptions == View!WebViewAssumption
ASSUME RosterAssumptions == Roster!RosterAssumption

\* The files of a browser are interchangeable.
Symmetry == Permutations(Files)

\* Messages and session operations of one lane; its channel wakes every agent.
TextTo(agents) == [kind |-> "text", to |-> agents]
Watch(agents) == [kind |-> "watch", to |-> agents]
Control(kind, a) == [kind |-> kind, to |-> {a}]
SessionOps == {TextTo({a1}), Watch({a1}), Control("stop", a1), Control("reset", a1),
               Control("set", a1), Control("reset", "unknown")}
Everywhere == [c \in Channels |-> Agents]

\* Texts of three units, cut in one way or another, or into nothing.
Ways == {<<<<1, 2, 3>>>>, <<<<1, 2>>, <<3>>>>}
SomeTexts == [html : Ways \union {<<>>}, plain : Ways, formatted : BOOLEAN]
SomePictures == {<<"a">>, <<"a", "b">>}

\* A Telegram chat with a default agent, and a direct message channel.
OneThread == [t \in Threads |-> "tg"]
OneDm == [c \in Rooms |-> IF c = "dm" THEN {"s", "x"} ELSE {}]
TelegramDefault == [c \in Rooms |-> IF c = "tg" THEN {"s"} ELSE {}]

\* One pattern for a channel, one for all; a mode or a filter at a time.
HomeOrAll == [p \in Patterns |-> IF p = "all" THEN Places ELSE {"home"}]
Rule(mode, senders, actors) == [mode |-> mode, senders |-> senders, actorIds |-> actors]
SomeRules ==
  {Rule(m, {}, {}) : m \in {"mentions", "all"}}
    \union {Rule("unset", {s}, {}) : s \in {"human", "agent"}} \union {Rule("unset", {}, {"other"})}

----------------------------------------------------------------------------
\* A delivery that returns left the whole message in the chat, once, and cutting a
\* text into chunks changes nothing of what is read: ReturnedWhole and AcceptedOnce of
\* TelegramSend, HtmlChunksFaithful and PlainChunksFaithful of TelegramFormat.
SentWhole ==
  /\ part = "send" => Send!SendTypeOK /\ Send!ReturnedWhole /\ Send!AcceptedOnce
  /\ part = "format" => Format!HtmlChunksFaithful /\ Format!PlainChunksFaithful

\* The reader of a channel is given every whole line once and in order, but for
\* those behind a torn one, and accepts what is published: ReadInOrder, PassedWasRead
\* and UnreadExcused of ChannelLog, PublishedIsRead of MessageForm.
LinesRead ==
  /\ part = "log" => /\ Log!LogTypeOK /\ Log!ReadInOrder
                    /\ Log!PassedWasRead /\ Log!UnreadExcused
  /\ part = "form" => Form!PublishedIsRead

\* Members and addressed agents are configured agents, members stay, and an agent's
\* directory has the files it was left with: GhostsExcused, MembersStay and
\* FilesFollow of AgentRoster.
RosterTrue ==
  part = "roster" => /\ Roster!RosterTypeOK /\ Roster!GhostsExcused
                     /\ Roster!MembersStay /\ Roster!FilesFollow

\* Agents do not wake one another by chance, and an edit of a policy reaches as
\* far as its pattern: LoopGuarded and EditsLocal of WakePolicy.
WakesGuarded == part = "policy" => Waking!LoopGuarded /\ Waking!EditsLocal

\* What a browser shows of a log are its lines, to the last one when nothing is under
\* way: ViewFaithful and ViewCatchesUp of WebView.
LogShown == part = "view" => View!ViewFaithful /\ View!ViewCatchesUp
=============================================================================
