---------------------------- MODULE TelegramSend ----------------------------
(***************************************************************************)
(* One outbound message on its way to a Telegram chat: the calls it is     *)
(* made of (telegram/outbound.ts, the egress of telegram/surface.ts), the  *)
(* retries of one call (telegram/client.ts), the plain text that replaces  *)
(* a formatted text that failed, and the typing signal beside them.        *)
(*                                                                         *)
(* A text is a sequence of units; a chunk is the sequence of units it      *)
(* carries.                                                                *)
(***************************************************************************)
EXTENDS Naturals, Sequences, SequencesExt

CONSTANTS
  Texts,       \* [html, plain, formatted]: the two ways to cut it, and whether it renders
  Photos,      \* sequences of pictures
  MaxRetries   \* policy.sendMaxRetries

VARIABLES
  message,     \* what is being delivered: [kind, valid, text, paths]
  rest,        \* the calls still to make: [piece, html, retries]
  attempt,     \* of the first of them
  sending,     \* idle, posted, asleep, returned, thrown
  chat,        \* what Telegram accepted: [piece, call]
  call,        \* calls made, a retried one once
  failedHtml,  \* history: a formatted call failed
  typing       \* startTelegramTypingActivity: off, on, stopped, refused

sendVars == <<message, rest, attempt, sending, chat, call, failedHtml, typing>>

NoText == [html |-> <<>>, plain |-> <<>>, formatted |-> TRUE]
Nothing == [kind |-> "none", valid |-> TRUE, text |-> NoText, paths |-> <<>>]

Init ==
  /\ message = Nothing /\ rest = <<>> /\ attempt = 0 /\ sending = "idle"
  /\ chat = <<>> /\ call = 1 /\ failedHtml = FALSE /\ typing = "off"

Calls(pieces, html, retries) ==
  [k \in DOMAIN pieces |-> [piece |-> pieces[k], html |-> html, retries |-> retries]]
PlainCalls(text) == Calls(text.plain, FALSE, MaxRetries)

\* renderTelegramTextChunks: formatted chunks, or plain ones when rendering fails.
TextCalls(text) ==
  IF text.formatted THEN Calls(text.html, TRUE, MaxRetries) ELSE PlainCalls(text)

\* A picture is sent once; each is a piece of its own.
PhotoCalls(paths) == Calls([k \in DOMAIN paths |-> <<paths[k]>>], FALSE, 0)

CallsOf(m) ==
  CASE ~m.valid -> <<>>
    [] m.valid /\ m.kind = "text" -> TextCalls(m.text)
    [] m.valid /\ m.kind \in {"image", "image_group"} -> PhotoCalls(m.paths)
    [] m.valid /\ m.kind = "none" -> <<>>

Replies ==
  {Nothing} \union {[Nothing EXCEPT !.kind = "text", !.text = t] : t \in Texts}
  \union {[Nothing EXCEPT !.kind = "text", !.text = t, !.valid = FALSE] : t \in Texts}
  \union {[Nothing EXCEPT !.kind = IF Len(p) = 1 THEN "image" ELSE "image_group", !.paths = p] :
          p \in Photos}

Deliver ==
  /\ sending = "idle"
  /\ \E m \in Replies :
       /\ message' = m
       /\ rest' = CallsOf(m)
       /\ sending' = IF CallsOf(m) = <<>> THEN "returned" ELSE "posted"
  /\ UNCHANGED <<attempt, chat, call, failedHtml, typing>>

----------------------------------------------------------------------------
(* The answers to one call.                                                *)

This == Head(rest)
Accept == chat' = Append(chat, [piece |-> This.piece, call |-> call])

NextCall ==
  /\ rest' = Tail(rest) /\ attempt' = 0 /\ call' = call + 1
  /\ sending' = IF Tail(rest) = <<>> THEN "returned" ELSE "posted"
  /\ UNCHANGED failedHtml

FallBackRest(text) == SubSeq(PlainCalls(text), 2, Len(text.plain))   \* mutant: the failed chunk on
\* A formatted chunk that failed: the whole text again, plain; anything else
\* goes to the caller.
FallBack(text) == PlainCalls(text)

Throw ==
  IF This.html
  THEN /\ rest' = FallBack(message.text) /\ attempt' = 0 /\ call' = call + 1
       /\ failedHtml' = TRUE
       /\ sending' = IF rest' = <<>> THEN "returned" ELSE "posted"
  ELSE /\ sending' = "thrown" /\ rest' = <<>> /\ attempt' = 0
       /\ UNCHANGED <<call, failedHtml>>

Sleep ==
  /\ attempt' = attempt + 1 /\ sending' = "asleep"
  /\ UNCHANGED <<rest, call, failedHtml>>

Accepted ==
  /\ sending = "posted"
  /\ Accept /\ NextCall
  /\ UNCHANGED <<message, typing>>

RetriableWide(error) == error \in {"unreachable", "unanswered"}   \* mutant: isRecoverableError
\* Only a request that cannot have reached Telegram is sent again.
Retriable(error) == error = "unreachable"

\* unreachable: no connection was made; unanswered: the connection broke, the
\* message may have arrived; limited: 429 with a time to wait; refused: any other error.
Fails(error) ==
  /\ sending = "posted"
  /\ IF error = "unanswered" THEN Accept \/ UNCHANGED chat ELSE UNCHANGED chat
  /\ IF attempt < This.retries /\ (Retriable(error) \/ error = "limited")
     THEN Sleep
     ELSE Throw
  /\ UNCHANGED <<message, typing>>

Wake ==
  /\ sending = "asleep"
  /\ sending' = "posted"
  /\ UNCHANGED <<message, rest, attempt, chat, call, failedHtml, typing>>

----------------------------------------------------------------------------
(* Typing.                                                                 *)

StartTyping ==
  /\ typing = "off"
  /\ typing' = "on"
  /\ UNCHANGED <<message, rest, attempt, sending, chat, call, failedHtml>>

\* sendChatAction was answered 401 or 403.
TypingRefused ==
  /\ typing = "on"
  /\ typing' = "refused"
  /\ UNCHANGED <<message, rest, attempt, sending, chat, call, failedHtml>>

StopTyping ==
  /\ typing \in {"on", "refused"}
  /\ typing' = "stopped"
  /\ UNCHANGED <<message, rest, attempt, sending, chat, call, failedHtml>>

Next ==
  \/ Deliver \/ Accepted \/ Wake
  \/ \E error \in {"unreachable", "unanswered", "limited", "refused"} : Fails(error)
  \/ StartTyping \/ TypingRefused \/ StopTyping

Spec == Init /\ [][Next]_sendVars

----------------------------------------------------------------------------
(* Properties.                                                             *)

SendTypeOK ==
  /\ message \in Replies /\ attempt \in 0..MaxRetries /\ call \in Nat \ {0}
  /\ sending \in {"idle", "posted", "asleep", "returned", "thrown"}
  /\ (sending \in {"posted", "asleep"}) = (rest # <<>>)
  /\ \A k \in DOMAIN chat : chat[k].call <= call
  /\ failedHtml \in BOOLEAN /\ typing \in {"off", "on", "stopped", "refused"}

Shown == [k \in DOMAIN chat |-> chat[k].piece]

\* A delivery that returns has left the whole message in the chat, in order
\* and in one way of cutting it, at the end; what may stand before it is the
\* formatted beginning of a text that was then sent plain. This is what the
\* outbox's "delivered" rests on; a binding that names no chat returns too.
ReturnedWhole ==
  sending = "returned" /\ message.valid =>
    \E pieces \in {message.text.plain, message.text.html, [k \in DOMAIN message.paths |-> <<message.paths[k]>>]} :
      /\ pieces = <<>> => message.kind = "none" \/ message.text.html = <<>>
      /\ IsSuffix(pieces, Shown)
      /\ Len(Shown) > Len(pieces) => failedHtml

\* No call is accepted twice, whatever the network did to its answers, and a
\* text is repeated only after a formatted call failed.
AcceptedOnce ==
  /\ \A j, k \in DOMAIN chat : chat[j].call = chat[k].call => j = k
  /\ ~failedHtml => \A j, k \in DOMAIN chat : Shown[j] = Shown[k] => j = k
=============================================================================
