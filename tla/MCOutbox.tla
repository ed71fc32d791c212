------------------------------ MODULE MCOutbox ------------------------------
(* Instances of Outbox small enough for TLC. *)
EXTENDS Outbox

AgentText == [type |-> "text", sender |-> "agent", tag |-> "none"]
CommandWatchText == [type |-> "text", sender |-> "system", tag |-> "command watch"]
MessageWatchText == [type |-> "text", sender |-> "system", tag |-> "message watch"]

OneKind == {AgentText}
TwoKinds == {AgentText, MessageWatchText}
ThreeKinds == {AgentText, CommandWatchText, MessageWatchText}
=============================================================================
