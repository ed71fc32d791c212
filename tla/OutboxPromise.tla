--------------------------- MODULE OutboxPromise ---------------------------
(***************************************************************************)
(* What the outbox promises, without queues, timers or processes: a log of *)
(* messages per channel, an outcome per message and an acknowledged prefix *)
(* per channel that only grows over messages whose outcome is known.       *)
(***************************************************************************)
EXTENDS Naturals, Sequences

CONSTANTS Channels, Messages, MaxLog

VARIABLES log, outcome, acked, adopted, base
pvars == <<log, outcome, acked, adopted, base>>

Outcomes == {"none", "skipped", "retrying", "delivered", "failed"}
ForDelivery(m) ==
  \/ m.sender = "agent" /\ m.type \in {"text", "image"}
  \/ m.sender = "system" /\ <<m.type, m.tag>> \in {<<"text", "command watch">>,
                                                    <<"status", "operation status">>}

Init ==
  /\ log = [c \in Channels |-> <<>>]
  /\ outcome = [c \in Channels |-> [i \in 1..MaxLog |-> "none"]]
  /\ acked = [c \in Channels |-> 0]
  /\ adopted = FALSE
  /\ base = [c \in Channels |-> 0]

Publish(c, m) ==
  /\ log' = [log EXCEPT ![c] = Append(@, m)]
  /\ UNCHANGED <<outcome, acked, adopted, base>>

\* The first acknowledgement adopts the history without delivering it.
Adopt ==
  /\ ~ adopted
  /\ adopted' = TRUE
  /\ acked' = [c \in Channels |-> Len(log[c])]
  /\ base' = acked'
  /\ UNCHANGED <<log, outcome>>

\* One message's outcome becomes known or changes; only "skipped" may replace
\* a final one, and nothing becomes unknown again.
Settle(c, i, o) ==
  /\ i \in 1..Len(log[c]) /\ ForDelivery(log[c][i])
  /\ o \in Outcomes \ {"none"}
  /\ outcome[c][i] \in {"delivered", "failed"} => o = "skipped"
  /\ outcome' = [outcome EXCEPT ![c][i] = o]
  /\ UNCHANGED <<log, acked, adopted, base>>

Known(c, i) == ForDelivery(log[c][i]) => outcome[c][i] # "none"

Acknowledge ==
  /\ adopted
  /\ acked' \in [Channels -> 0..MaxLog]
  /\ \A c \in Channels :
       /\ acked[c] <= acked'[c] /\ acked'[c] <= Len(log[c])
       /\ \A i \in (acked[c] + 1)..acked'[c] : Known(c, i)
  /\ UNCHANGED <<log, outcome, adopted, base>>

Next ==
  \/ \E c \in Channels, m \in Messages : Publish(c, m)
  \/ Adopt
  \/ \E c \in Channels, i \in 1..MaxLog, o \in Outcomes : Settle(c, i, o)
  \/ Acknowledge

Spec == Init /\ [][Next]_pvars
=============================================================================
