------------------------------ MODULE MessageForm ------------------------------
(***************************************************************************)
(* What the programs of the system write into a channel and what its       *)
(* readers accept (channels/messages.ts, channels/protocol.ts).  A reader  *)
(* drops a line it does not recognise without a word, so a message that    *)
(* its own validator rejects would be published and never seen.            *)
(*                                                                         *)
(* Of a value only its class is kept: "str" and "empty" are strings, "ref" *)
(* a model reference, "intent" a publication intent, "list" and "nolist"   *)
(* lists with and without members.  A content's data is a function on the  *)
(* fields it has.                                                          *)
(***************************************************************************)
EXTENDS Naturals, Sequences, FiniteSets, Functions

VARIABLES
  wanted,        \* what callers ask to publish: a sequence of one
  sent           \* the messages appended

vars == <<wanted, sent>>

Str == {"str", "empty"}
NullOr == Str \union {"null"}
Bool == {"yes", "no"}

Has(d, f, classes) == f \in DOMAIN d /\ d[f] \in classes
Opt(d, f, classes) == f \in DOMAIN d => d[f] \in classes
HasAll(d, fs, classes) == \A f \in fs : Has(d, f, classes)
OptAll(d, fs, classes) == \A f \in fs : Opt(d, f, classes)

----------------------------------------------------------------------------
(* What a reader accepts: one operator per validator.                      *)

IsText(d) == Has(d, "text", Str) /\ Opt(d, "publication", {"intent"})
IsImage(d) == Has(d, "path", Str) /\ Opt(d, "caption", Str)
IsImageGroup(d) == Has(d, "paths", {"list"}) /\ Opt(d, "caption", Str)
IsUnsupported(d) == Has(d, "mediaKind", Str)

IsReset(d) == Has(d, "targetAgentId", Str) /\ Opt(d, "command", Str)
IsRestore(d) == Has(d, "targetAgentId", Str) /\ OptAll(d, {"archiveName", "command"}, Str)
IsThinking(d) == Has(d, "targetAgentId", Str) /\ Has(d, "level", {"level"}) /\ Opt(d, "command", Str)
IsSettings(d) ==
  /\ Has(d, "targetAgentId", Str)
  /\ Opt(d, "thinking", {"level"})
  /\ OptAll(d, {"modelPolicy", "command"}, Str)
  /\ Opt(d, "model", {"ref"})
  /\ \E f \in {"thinking", "model", "modelPolicy"} : f \in DOMAIN d
  /\ ~({"model", "modelPolicy"} \subseteq DOMAIN d)
IsStop(d) == IsReset(d)

IsAddressing(d) ==
  /\ HasAll(d, {"surface", "threadId"}, Str)
  /\ HasAll(d, {"previousAgentId", "addressedAgentId", "joinedAgentId"}, NullOr)
  /\ Has(d, "source", {"chat", "cli"})
IsOperation(d) ==
  /\ Has(d, "text", Str)
  /\ Has(d, "ok", Bool)
  /\ OptAll(d, {"targetAgentId", "operation", "requestMessageId", "archiveName"}, Str)
  /\ Opt(d, "thinking", {"level"})
  /\ Opt(d, "model", {"ref"})

\* The kinds of message, by type and, for a control or a status, by kind.
Kinds == {"text", "image", "image_group", "unsupported_media", "system", "session_reset", "session_restore",
          "session_thinking_level", "session_settings", "session_stop", "surface_addressing", "operation_status"}

\* The readers of a message: readSessionResetContent and the others.  A reader
\* looks at the type, the kind, and the data.
ReadBy(kind, c) ==
  /\ c.kind = kind
  /\ CASE kind = "text" -> IsText(c.data)
       [] kind = "image" -> IsImage(c.data)
       [] kind = "image_group" -> IsImageGroup(c.data)
       [] kind = "unsupported_media" -> IsUnsupported(c.data)
       [] kind = "system" -> TRUE
       [] kind = "session_reset" -> IsReset(c.data)
       [] kind = "session_restore" -> IsRestore(c.data)
       [] kind = "session_thinking_level" -> IsThinking(c.data)
       [] kind = "session_settings" -> IsSettings(c.data)
       [] kind = "session_stop" -> IsStop(c.data)
       [] kind = "surface_addressing" -> IsAddressing(c.data)
       [] kind = "operation_status" -> IsOperation(c.data)

IsMessageContent(c) == \E kind \in Kinds : ReadBy(kind, c)

IsChannelMessage(m) ==
  /\ HasAll(m.envelope, {"id", "transport", "actorId"}, Str)
  /\ Has(m.envelope, "senderKind", {"human", "agent", "system"})
  /\ Has(m.envelope, "timestamp", {"number"})
  /\ IsMessageContent(m.content)

----------------------------------------------------------------------------
(* What is written: one operator per constructor.                          *)

\* JSON.stringify leaves out a field that is undefined; the constructors leave
\* out some that are empty.
Given(w) == Restrict(w, {f \in DOMAIN w : w[f] # "undefined"})
Drop(w, fields) == Restrict(w, {f \in DOMAIN w : ~(f \in fields /\ w[f] = "empty")})

\* A null stands in for an agent that is not given.
OrNull(w, fields) == [f \in DOMAIN w \union fields |-> IF f \in DOMAIN w THEN w[f] ELSE "null"]

Data(kind, w) ==
  CASE kind \in {"session_reset", "session_restore", "session_thinking_level", "session_stop", "session_settings"}
         -> Drop(w, {"archiveName", "command", "thinking", "modelPolicy"})
    [] kind = "surface_addressing" -> OrNull(w, {"previousAgentId", "addressedAgentId", "joinedAgentId"})
    [] kind = "operation_status"
         -> Drop(w, {"targetAgentId", "operation", "requestMessageId", "archiveName"})
    [] OTHER -> w

\* makeMessage and the inputs of the publishers: who sends decides the sender's
\* kind; an id and a time are made up when not given.
SenderKind(kind) ==
  CASE kind \in {"surface_addressing", "operation_status", "system"} -> {"system"}
    [] kind = "text" -> {"human", "agent"}
    [] kind \in {"image", "image_group", "unsupported_media"} -> {"human"}
    [] OTHER -> {"human", "system"}
Envelope(senderKind) ==
  [id |-> "str", transport |-> "str", actorId |-> "str", senderKind |-> senderKind, timestamp |-> "number"]

Message(kind, w, senderKind) ==
  [envelope |-> Envelope(senderKind), content |-> [kind |-> kind, data |-> Data(kind, Given(w))]]

----------------------------------------------------------------------------
(* Who asks for what.                                                      *)

OptStr == {"str", "undefined"}
Wants(kind) ==
  CASE kind = "text" -> [text : Str, publication : {"intent", "undefined"}]
    [] kind = "image" -> [path : {"str"}, caption : Str \union {"undefined"}]
    [] kind = "image_group" -> [paths : {"list", "nolist"}, caption : Str \union {"undefined"}]
    [] kind = "unsupported_media" -> [mediaKind : {"str"}, caption : OptStr]
    [] kind = "system" -> [text : {"str"}]
    [] kind \in {"session_reset", "session_stop"} -> [targetAgentId : {"str"}, command : Str \union {"undefined"}]
    [] kind = "session_restore" -> [targetAgentId : {"str"}, archiveName : Str \union {"undefined"}, command : OptStr]
    [] kind = "session_thinking_level" -> [targetAgentId : {"str"}, level : {"level"}, command : OptStr]
    [] kind = "session_settings" -> [targetAgentId : {"str"}, thinking : {"level", "undefined"},
          model : {"ref", "undefined"}, modelPolicy : Str \union {"undefined"}, command : {"str"}]
    [] kind = "surface_addressing" -> [surface : {"str"}, threadId : {"str"}, previousAgentId : OptStr,
          addressedAgentId : OptStr, joinedAgentId : OptStr, source : {"chat", "cli"}]
    [] kind = "operation_status" -> [text : {"str"}, ok : Bool, targetAgentId : OptStr,
          archiveName : Str \union {"undefined"}, thinking : {"level", "undefined"}, model : {"ref", "undefined"}]

\* executeSessionSettingsAction refuses a request with both or none; a group
\* without an image cannot be made.
Asks(w, f) == w[f] \notin {"undefined", "empty"}
\* mutant: only a request for nothing is refused
RefusesNone(kind, w) ==
  \/ kind = "session_settings" /\ ~(Asks(w, "thinking") \/ Asks(w, "model") \/ Asks(w, "modelPolicy"))
  \/ kind = "image_group" /\ w.paths = "nolist"
Refuses(kind, w) ==
  \/ kind = "session_settings" /\ ((Asks(w, "model") /\ Asks(w, "modelPolicy"))
                                    \/ ~(Asks(w, "thinking") \/ Asks(w, "model") \/ Asks(w, "modelPolicy")))
  \/ kind = "image_group" /\ w.paths = "nolist"

Init == wanted = <<>> /\ sent = <<>>

Publish ==
  /\ wanted = <<>>
  /\ \E kind \in Kinds : \E w \in Wants(kind), senderKind \in SenderKind(kind) :
       /\ wanted' = <<[kind |-> kind, fields |-> w]>>
       /\ sent' = IF Refuses(kind, w) THEN <<>> ELSE <<Message(kind, w, senderKind)>>

Next == Publish
Spec == Init /\ [][Next]_vars

----------------------------------------------------------------------------
(* Properties.                                                             *)

\* Whatever is published, every reader of the channel accepts it, and the
\* reader of its kind finds in it every field the caller gave.
PublishedIsRead ==
  \A k \in DOMAIN sent :
    LET c == sent[k].content
        asked == wanted[k].fields
        given == {f \in DOMAIN asked : asked[f] \notin {"undefined", "empty"}}
    IN /\ IsChannelMessage(sent[k])
       /\ {kind \in Kinds : ReadBy(kind, c)} = {wanted[k].kind}
       /\ given \subseteq DOMAIN c.data
       /\ \A f \in given : c.data[f] = asked[f]
=============================================================================
