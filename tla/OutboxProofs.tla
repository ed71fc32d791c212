---------------------------- MODULE OutboxProofs ----------------------------
(***************************************************************************)
(* Proofs about Outbox for every set of channels and messages and every    *)
(* bound: types, no send for a concluded message, the property the whole   *)
(* design is for, CursorCovered; and upon their invariant IInv, how often  *)
(* the transport may have taken a message, the order of first tries, and   *)
(* that every step of the dispatcher is a step of OutboxPromise or none of *)
(* its business.                                                           *)
(***************************************************************************)
EXTENDS Outbox, TLAPS

(***************************************************************************)
(* The inductive invariant.  CursorCovered alone is not inductive: a save  *)
(* writes the live offsets, so every position below an offset must be      *)
(* known or still queued, and stop() must not return while a position it   *)
(* will save is queued.                                                    *)
(***************************************************************************)
Known(c, i) == Outbound(c, i) => receipts[c][i].status # "none"
Handled(c, i) == i <= base[c] \/ Known(c, i)

\* Position i waits in c's chain as backlog or live work.
Waits(c, i) ==
  \E k \in 1..Len(chain[c]) :
    /\ chain[c][k].idx = i
    /\ chain[c][k].src # "retry"
    /\ k = 1 => step[c] # "done"

ReceiptsInLog ==
  \A c \in Channels, i \in Positions :
    /\ receipts[c][i].status # "none" => i <= Len(log[c])
    /\ receipts[c][i].status \notin {"delivered", "failed"} =>
         receipts[c][i].attempts < MaxAttempts
    /\ ~ receipts[c][i].due => receipts[c][i].status = "retrying"

WorkShape ==
  /\ \A c \in Channels : \A k \in 1..Len(chain[c]) : chain[c][k].idx <= Len(log[c])
  /\ \A r \in RunIds : \A x \in todo[r] : x[2] <= Len(log[x[1]])
  /\ phase = "down" => running = {}

PositionsInLog ==
  \A c \in Channels :
    /\ base[c] <= Len(log[c])
    /\ saved[c] <= Len(log[c])
    /\ offset[c] <= Len(log[c])
    /\ target[c] <= Len(log[c])

HeadInProgress ==
  \A c \in Channels :
    step[c] # "idle" =>
      /\ chain[c] # <<>>
      /\ step[c] = "done" => Known(c, chain[c][1].idx)
      /\ InFlight(c) => tries[c] \in 1..MaxAttempts

SavedHandled == \A c \in Channels : \A i \in 1..saved[c] : Handled(c, i)

OffsetHandled ==
  phase # "down" =>
    \A c \in Channels : \A i \in 1..offset[c] : Handled(c, i) \/ Waits(c, i)

PhaseShape ==
  /\ phase = "down" => \A c \in Channels : chain[c] = <<>>
  /\ phase = "draining" =>
       \A c \in Channels : \A k \in 1..Len(chain[c]) : chain[c][k].src # "live"
  /\ phase = "drained" =>
       \A c \in Channels :
         /\ offset[c] = saved[c]
         /\ \A k \in 1..Len(chain[c]) : chain[c][k].src = "retry"
  /\ phase \in {"stopping", "stopped"} =>
       \A c \in Channels : \A k \in 1..Len(chain[c]) : k > owed[c] => chain[c][k].src = "retry"

IInv ==
  /\ TypeOK
  /\ ReceiptsInLog
  /\ WorkShape
  /\ PositionsInLog
  /\ HeadInProgress
  /\ SavedHandled
  /\ OffsetHandled
  /\ PhaseShape
  /\ FinalNeverResent

LEMMA FirstEntry ==
  ASSUME NEW S, NEW s \in Seq(S), s # <<>>
  PROVE  /\ Len(s) \in Nat \ {0}
         /\ Head(s) = s[1]
         /\ s[1] \in S
  OBVIOUS

LEMMA InitIInv == Init => IInv
<1> SUFFICES ASSUME Init PROVE IInv
  OBVIOUS
<1> USE MaxAttemptsAssumption, BoundsAssumption
<1>1. NoReceipt \in Receipt
  BY DEF NoReceipt, Receipt, Status
<1>2. FilesOK
  <2>1. binding \in [Channels -> {"none", "chat", "invalid"}]
    BY DEF Init
  <2>2. receipts \in [Channels -> [Positions -> Receipt]]
    BY <1>1 DEF Init
  <2>3. log \in [Channels -> Seq(Messages)] /\ \A c \in Channels : Len(log[c]) <= MaxLog
    BY DEF Init
  <2>4. saved \in [Channels -> 0..MaxLog]
    BY DEF Init
  <2> QED
    BY <2>1, <2>2, <2>3, <2>4 DEF Init, FilesOK
<1>3. QueuesOK /\ RetriesOK /\ HistoryOK
  <2>1. chain \in [Channels -> Seq(Entry)]
    BY DEF Init
  <2>2. step \in [Channels -> {"idle", "sending", "accepted", "unsendable", "done"}]
    BY DEF Init
  <2>3. /\ offset \in [Channels -> 0..MaxLog] /\ target \in [Channels -> 0..MaxLog]
        /\ tries \in [Channels -> 0..MaxAttempts] /\ owed \in [Channels -> Nat]
        /\ base \in [Channels -> 0..MaxLog]
    BY DEF Init
  <2>4. /\ sent \in [Channels -> [Positions -> Nat]]
        /\ excused \in [Channels -> [Positions -> Nat]]
    BY DEF Init
  <2>5. todo \in [RunIds -> SUBSET (Channels \X Positions)]
    BY DEF Init
  <2> QED
    <3>1. QueuesOK
      BY <2>1, <2>2, <2>3 DEF Init, QueuesOK
    <3>2. RetriesOK
      BY <2>5 DEF Init, RetriesOK
    <3>3. HistoryOK
      BY <2>3, <2>4 DEF Init, HistoryOK
    <3> QED
      BY <3>1, <3>2, <3>3
<1>4. ReceiptsInLog /\ WorkShape /\ PositionsInLog
  BY DEF Init, ReceiptsInLog, WorkShape, PositionsInLog, NoReceipt
<1>5. HeadInProgress /\ FinalNeverResent
  BY DEF Init, HeadInProgress, FinalNeverResent, InFlight
<1>6. SavedHandled /\ OffsetHandled /\ PhaseShape
  BY DEF Init, SavedHandled, OffsetHandled, PhaseShape
<1> QED
  BY <1>2, <1>3, <1>4, <1>5, <1>6 DEF IInv, TypeOK

\* What an invariant state offers at the leaves.
LEMMA Ranges ==
  ASSUME IInv
  PROVE  /\ \A c \in Channels :
              /\ log[c] \in Seq(Messages) /\ Len(log[c]) \in 0..MaxLog
              /\ chain[c] \in Seq(Entry) /\ Len(chain[c]) \in Nat
              /\ offset[c] \in Nat /\ saved[c] \in Nat /\ target[c] \in Nat /\ base[c] \in Nat
              /\ 1..saved[c] \subseteq 1..Len(log[c])
              /\ 1..offset[c] \subseteq 1..Len(log[c])
              /\ 1..Len(log[c]) \subseteq Positions
         /\ \A c \in Channels : \A k \in 1..Len(chain[c]) :
              chain[c][k] \in Entry /\ chain[c][k].idx \in 1..Len(log[c])
         /\ \A c \in Channels : chain[c] # <<>> =>
              /\ Len(chain[c]) >= 1 /\ Head(chain[c]) = chain[c][1]
              /\ chain[c][1] \in Entry /\ chain[c][1].idx \in 1..Len(log[c])
<1> USE BoundsAssumption
<1>1. \A c \in Channels :
        /\ log[c] \in Seq(Messages) /\ Len(log[c]) \in 0..MaxLog
        /\ chain[c] \in Seq(Entry) /\ Len(chain[c]) \in Nat
        /\ offset[c] \in Nat /\ saved[c] \in Nat /\ target[c] \in Nat /\ base[c] \in Nat
  BY DEF IInv, TypeOK, FilesOK, QueuesOK, HistoryOK
<1>2. \A c \in Channels :
        /\ 1..saved[c] \subseteq 1..Len(log[c])
        /\ 1..offset[c] \subseteq 1..Len(log[c])
        /\ 1..Len(log[c]) \subseteq Positions
  BY <1>1 DEF IInv, PositionsInLog, Positions
<1>3. \A c \in Channels : \A k \in 1..Len(chain[c]) :
        chain[c][k] \in Entry /\ chain[c][k].idx \in 1..Len(log[c])
  <2> SUFFICES ASSUME NEW c \in Channels, NEW k \in 1..Len(chain[c])
               PROVE  chain[c][k] \in Entry /\ chain[c][k].idx \in 1..Len(log[c])
    OBVIOUS
  <2>1. chain[c][k] \in Entry
    BY <1>1
  <2>2. chain[c][k].idx \in Nat /\ chain[c][k].idx >= 1
    BY <2>1 DEF Entry, Positions
  <2> QED
    BY <1>1, <2>1, <2>2 DEF IInv, WorkShape
<1>4. \A c \in Channels : chain[c] # <<>> =>
        Len(chain[c]) >= 1 /\ Head(chain[c]) = chain[c][1]
  BY <1>1, FirstEntry
<1>5. \A c \in Channels : chain[c] # <<>> => 1 \in 1..Len(chain[c])
  BY <1>1, <1>4
<1> QED
  BY <1>1, <1>2, <1>3, <1>4, <1>5

LEMMA PublishStep ==
  ASSUME IInv, NEW c \in Channels, NEW m \in Messages, Publish(c, m)
  PROVE  IInv'
<1> USE DEF process, history
<1>1. /\ log' = [log EXCEPT ![c] = Append(@, m)]
      /\ UNCHANGED <<binding, receipts, saved, adopted, process, history>>
      /\ Len(log[c]) < MaxLog
  BY DEF Publish
<1>2. /\ log' \in [Channels -> Seq(Messages)]
      /\ \A d \in Channels : Len(log[d]) <= Len(log'[d]) /\ Len(log'[d]) <= MaxLog
      /\ \A d \in Channels : \A i \in 1..Len(log[d]) : log'[d][i] = log[d][i]
  BY <1>1, Ranges, BoundsAssumption DEF IInv, TypeOK, FilesOK
<1>3. TypeOK'
  BY <1>1, <1>2 DEF IInv, TypeOK, FilesOK, QueuesOK, RetriesOK, HistoryOK
<1>4. ReceiptsInLog' /\ PositionsInLog'
  BY SMTT(40), <1>1, <1>2, Ranges DEF IInv, ReceiptsInLog, PositionsInLog, Positions
<1>5. WorkShape'
  <2>1. \A r \in RunIds : \A x \in todo[r] :
          x[1] \in Channels /\ x[2] \in Nat
    BY BoundsAssumption DEF IInv, TypeOK, RetriesOK, Positions
  <2> QED
    BY SMTT(40), <1>1, <1>2, <2>1, Ranges DEF IInv, WorkShape
<1>7. \A d \in Channels : \A i \in 1..Len(log[d]) : Known(d, i) => Known(d, i)'
  BY <1>1, <1>2 DEF Known, Outbound
<1>9. HeadInProgress'
  BY <1>1, <1>7, Ranges DEF IInv, HeadInProgress, InFlight
<1>11. \A d \in Channels : \A i \in 1..Len(log[d]) :
         (Handled(d, i) => Handled(d, i)') /\ (Waits(d, i) => Waits(d, i)')
  BY <1>1, <1>7 DEF Handled, Waits
<1>12. SavedHandled' /\ OffsetHandled'
  BY <1>1, <1>11, Ranges DEF IInv, SavedHandled, OffsetHandled
<1>10. PhaseShape' /\ FinalNeverResent'
  BY <1>1 DEF IInv, PhaseShape, FinalNeverResent, InFlight, This
<1> QED
  BY <1>3, <1>4, <1>5, <1>9, <1>10, <1>12 DEF IInv

(***************************************************************************)
(* Three kinds of step share their argument.                               *)
(***************************************************************************)

\* A step that leaves the queues and the outcome of every message alone.
LEMMA QuietStep ==
  ASSUME IInv, TypeOK', WorkShape',
         UNCHANGED <<log, saved, phase, offset, target, chain, step, tries, owed, base>>,
         \A c \in Channels, i \in Positions :
           /\ receipts'[c][i].status = receipts[c][i].status
           /\ receipts'[c][i].attempts = receipts[c][i].attempts
           /\ ~ receipts'[c][i].due => ~ receipts[c][i].due
  PROVE  IInv'
<1>1. \A c \in Channels : \A i \in 1..Len(log[c]) : Known(c, i) => Known(c, i)'
  BY Ranges DEF Known, Outbound
<1>2. ReceiptsInLog' /\ PositionsInLog'
  BY DEF IInv, ReceiptsInLog, PositionsInLog
<1>3. HeadInProgress'
  BY <1>1, Ranges DEF IInv, HeadInProgress, InFlight
<1>4. SavedHandled' /\ OffsetHandled'
  BY SMTT(40), <1>1, Ranges DEF IInv, SavedHandled, OffsetHandled, Handled, Waits
<1>5. PhaseShape'
  BY DEF IInv, PhaseShape
<1>6. FinalNeverResent'
  <2>1. \A c \in Channels : InFlight(c) => chain[c] # <<>> /\ This(c) \in Positions
    BY Ranges DEF IInv, HeadInProgress, InFlight, This
  <2> QED
    BY <2>1 DEF IInv, FinalNeverResent, InFlight, This
<1> QED
  BY <1>2, <1>3, <1>4, <1>5, <1>6 DEF IInv

\* A step of processMessage on the head of one chain.
LEMMA HeadStep ==
  ASSUME IInv, TypeOK', NEW c \in Channels, chain[c] # <<>>, step[c] # "done",
         UNCHANGED <<log, saved, phase, offset, target, chain, owed, base, running, todo>>,
         \A d \in Channels \ {c} :
           step'[d] = step[d] /\ tries'[d] = tries[d] /\ receipts'[d] = receipts[d],
         \A i \in Positions \ {This(c)} : receipts'[c][i] = receipts[c][i],
         receipts'[c][This(c)].status = "none" => receipts[c][This(c)].status = "none",
         receipts'[c][This(c)].status \notin {"delivered", "failed"} =>
           receipts'[c][This(c)].attempts < MaxAttempts,
         ~ receipts'[c][This(c)].due => receipts'[c][This(c)].status = "retrying",
         step'[c] # "idle",
         step'[c] = "done" => Known(c, This(c))',
         InFlight(c)' => /\ tries'[c] \in 1..MaxAttempts
                         /\ receipts'[c][This(c)].status \notin {"delivered", "failed"}
  PROVE  IInv'
<1>1. \A d \in Channels : \A i \in 1..Len(log[d]) : Known(d, i) => Known(d, i)'
  BY Ranges DEF Known, Outbound
<1>2. This(c) = chain[c][1].idx /\ This(c) \in 1..Len(log[c]) /\ This(c)' = This(c)
  BY Ranges DEF This
<1>3. ReceiptsInLog'
  <2> SUFFICES ASSUME NEW d \in Channels, NEW i \in Positions
               PROVE  /\ receipts'[d][i].status # "none" => i <= Len(log[d])
                      /\ receipts'[d][i].status \notin {"delivered", "failed"} =>
                           receipts'[d][i].attempts < MaxAttempts
                      /\ ~ receipts'[d][i].due => receipts'[d][i].status = "retrying"
    BY SMTT(40) DEF ReceiptsInLog
  <2>1. CASE d = c /\ i = This(c)
    BY <2>1, <1>2, Ranges
  <2>2. CASE ~ (d = c /\ i = This(c))
    <3>1. receipts'[d][i] = receipts[d][i]
      BY <2>2
    <3> QED
      BY <3>1 DEF IInv, ReceiptsInLog
  <2> QED
    BY <2>1, <2>2
<1>4. PositionsInLog' /\ WorkShape' /\ PhaseShape'
  BY DEF IInv, PositionsInLog, WorkShape, PhaseShape
<1>5. HeadInProgress'
  <2> SUFFICES ASSUME NEW d \in Channels, step'[d] # "idle"
               PROVE  /\ chain[d] # <<>>
                      /\ step'[d] = "done" => Known(d, chain[d][1].idx)'
                      /\ InFlight(d)' => tries'[d] \in 1..MaxAttempts
    BY DEF HeadInProgress
  <2>1. CASE d = c
    BY <2>1, <1>2 DEF InFlight, Known, Outbound
  <2>2. CASE d # c
    BY <2>2, <1>1, Ranges DEF IInv, HeadInProgress, InFlight
  <2> QED
    BY <2>1, <2>2
<1>6. \A d \in Channels : \A i \in 1..Len(log[d]) :
        /\ Handled(d, i) => Handled(d, i)'
        /\ Waits(d, i) => Handled(d, i)' \/ Waits(d, i)'
  <2> SUFFICES ASSUME NEW d \in Channels, NEW i \in 1..Len(log[d])
               PROVE  /\ Handled(d, i) => Handled(d, i)'
                      /\ Waits(d, i) => Handled(d, i)' \/ Waits(d, i)'
    OBVIOUS
  <2>1. Handled(d, i) => Handled(d, i)'
    BY <1>1 DEF Handled
  <2>2. ASSUME Waits(d, i) PROVE Handled(d, i)' \/ Waits(d, i)'
    <3>1. PICK k \in 1..Len(chain[d]) :
            chain[d][k].idx = i /\ chain[d][k].src # "retry" /\ (k = 1 => step[d] # "done")
      BY <2>2 DEF Waits
    <3>2. CASE d = c /\ k = 1 /\ step'[c] = "done"
      BY <3>1, <3>2, <1>2 DEF Handled, Known, Outbound
    <3>3. CASE ~ (d = c /\ k = 1 /\ step'[c] = "done")
      BY <3>1, <3>3 DEF Waits
    <3> QED
      BY <3>2, <3>3
  <2> QED
    BY <2>1, <2>2
<1>7. SavedHandled' /\ OffsetHandled'
  BY <1>6, Ranges DEF IInv, SavedHandled, OffsetHandled
<1>8. FinalNeverResent'
  BY <1>2 DEF IInv, FinalNeverResent, InFlight, This
<1> QED
  BY <1>3, <1>4, <1>5, <1>7, <1>8 DEF IInv

\* A step that hands positions over to the chains.
LEMMA GrowStep ==
  ASSUME IInv, TypeOK', WorkShape', PositionsInLog', PhaseShape', phase # "down",
         UNCHANGED <<log, receipts, saved, step, tries, base>>,
         \A d \in Channels :
           /\ Len(chain[d]) <= Len(chain'[d])
           /\ \A k \in 1..Len(chain[d]) : chain'[d][k] = chain[d][k]
           /\ \A i \in (offset[d] + 1)..offset'[d] :
                \E k \in (Len(chain[d]) + 1)..Len(chain'[d]) :
                  chain'[d][k].idx = i /\ chain'[d][k].src # "retry"
  PROVE  IInv'
<1>1. \A d \in Channels : \A i : (Known(d, i) => Known(d, i)') /\ (Handled(d, i) => Handled(d, i)')
  BY DEF Known, Outbound, Handled
<1>2. \A d \in Channels : chain'[d] \in Seq(Entry) /\ Len(chain'[d]) \in Nat /\ offset'[d] \in Nat
  BY BoundsAssumption DEF TypeOK, QueuesOK
<1>3. \A d \in Channels : chain[d] # <<>> =>
        chain'[d] # <<>> /\ chain'[d][1] = chain[d][1] /\ This(d)' = This(d)
  BY <1>2, Ranges, FirstEntry DEF This
<1>4. HeadInProgress' /\ FinalNeverResent'
  BY <1>1, <1>3 DEF IInv, HeadInProgress, FinalNeverResent, InFlight
<1>5. \A d \in Channels : \A i : Waits(d, i) => Waits(d, i)'
  BY SMTT(40), <1>2, Ranges DEF Waits
<1>6. ASSUME NEW d \in Channels, NEW i \in (offset[d] + 1)..offset'[d]
      PROVE  Waits(d, i)'
  <2>1. PICK k \in (Len(chain[d]) + 1)..Len(chain'[d]) :
          chain'[d][k].idx = i /\ chain'[d][k].src # "retry"
    BY <1>6
  <2>2. k \in 1..Len(chain'[d])
    BY <1>2, Ranges
  <2>3. k = 1 => step[d] # "done"
    BY Ranges DEF IInv, HeadInProgress
  <2> QED
    BY <2>1, <2>2, <2>3 DEF Waits
<1>7. OffsetHandled'
  <2> SUFFICES ASSUME NEW d \in Channels, NEW i \in 1..offset'[d]
               PROVE  Handled(d, i)' \/ Waits(d, i)'
    BY DEF OffsetHandled
  <2>1. CASE i \in 1..offset[d]
    BY <2>1, <1>1, <1>5 DEF IInv, OffsetHandled
  <2>2. CASE i \in (offset[d] + 1)..offset'[d]
    BY <2>2, <1>6
  <2> QED
    BY <2>1, <2>2, <1>2, Ranges
<1>8. SavedHandled' /\ ReceiptsInLog'
  BY <1>1 DEF IInv, SavedHandled, ReceiptsInLog
<1> QED
  BY <1>4, <1>7, <1>8 DEF IInv

----------------------------------------------------------------------------
(* One lemma per action or family of actions.                              *)

LEMMA RebindStep ==
  ASSUME IInv, NEW c \in Channels, NEW b \in {"none", "chat", "invalid"}, Rebind(c, b)
  PROVE  IInv'
<1>0. /\ binding' \in [Channels -> {"none", "chat", "invalid"}]
      /\ rebinds' \in 0..MaxRebinds
  BY BoundsAssumption DEF IInv, Rebind, TypeOK, FilesOK, HistoryOK
<1>1. TypeOK'
  BY <1>0 DEF IInv, Rebind, process, TypeOK, FilesOK, QueuesOK, RetriesOK, HistoryOK
<1>2. WorkShape'
  BY DEF IInv, Rebind, process, WorkShape
<1> QED
  BY <1>1, <1>2, QuietStep DEF Rebind, process

LEMMA ElapseStep ==
  ASSUME IInv, NEW c \in Channels, NEW i \in Positions, Elapse(c, i)
  PROVE  IInv'
<1> USE DEF process, history
<1>1. /\ receipts' \in [Channels -> [Positions -> Receipt]]
      /\ \A d \in Channels, j \in Positions :
           /\ receipts'[d][j].status = receipts[d][j].status
           /\ receipts'[d][j].attempts = receipts[d][j].attempts
           /\ ~ receipts'[d][j].due => ~ receipts[d][j].due
  <2>1. receipts \in [Channels -> [Positions -> Receipt]]
    BY DEF IInv, TypeOK, FilesOK
  <2>2. receipts[c][i] \in Receipt
    BY <2>1
  <2> DEFINE r == [receipts[c][i] EXCEPT !.due = TRUE]
  <2>3. /\ r \in Receipt /\ r.due
        /\ r.status = receipts[c][i].status /\ r.attempts = receipts[c][i].attempts
    BY <2>2 DEF Receipt
  <2>4. receipts' = [receipts EXCEPT ![c][i] = r]
    BY DEF Elapse
  <2> HIDE DEF r
  <2> QED
    BY <2>1, <2>3, <2>4
<1>2. TypeOK'
  BY <1>1 DEF IInv, Elapse, TypeOK, FilesOK, QueuesOK, RetriesOK, HistoryOK
<1>3. WorkShape'
  BY DEF IInv, Elapse, WorkShape
<1> QED
  BY <1>1, <1>2, <1>3, QuietStep DEF Elapse

LEMMA RetryFireStep ==
  ASSUME IInv, NEW r \in RunIds, RetryFire(r)
  PROVE  IInv'
<1> USE DEF durable, history
<1>1. todo' = [todo EXCEPT ![r] = DueMessages]
  BY DEF RetryFire
<1>2. DueMessages \subseteq Channels \X Positions
  BY DEF DueMessages
<1>3. TypeOK'
  BY <1>1, <1>2 DEF IInv, RetryFire, TypeOK, FilesOK, QueuesOK, RetriesOK, HistoryOK
<1>4. \A x \in DueMessages : x[2] <= Len(log[x[1]])
  BY DEF DueMessages, IInv, ReceiptsInLog
<1>5. WorkShape'
  <2>1. phase' # "down"
    BY DEF RetryFire, Up
  <2>2. \A q \in RunIds : todo'[q] = todo[q] \/ todo'[q] = DueMessages
    BY <1>1 DEF IInv, TypeOK, RetriesOK
  <2> QED
    BY <1>4, <2>1, <2>2 DEF IInv, RetryFire, WorkShape
<1> QED
  BY <1>3, <1>5, QuietStep DEF RetryFire

LEMMA RetryEndStep ==
  ASSUME IInv, NEW r \in RunIds, RetryEnd(r)
  PROVE  IInv'
<1> USE DEF durable, history
<1>1. TypeOK'
  BY DEF IInv, RetryEnd, ScheduleNextRetry, SomeRetrying, TypeOK, FilesOK, QueuesOK,
         RetriesOK, HistoryOK
<1>2. WorkShape'
  BY DEF IInv, RetryEnd, WorkShape
<1> QED
  BY <1>1, <1>2, QuietStep DEF RetryEnd

\* The head's position, and the state functions at it, are in range.
LEMMA HeadRanges ==
  ASSUME IInv, NEW c \in Channels, chain[c] # <<>>
  PROVE  /\ This(c) \in Positions /\ This(c) \in 1..Len(log[c])
         /\ receipts[c][This(c)] \in Receipt
         /\ receipts[c][This(c)].status \notin {"delivered", "failed"} =>
              receipts[c][This(c)].attempts < MaxAttempts
         /\ ~ receipts[c][This(c)].due => receipts[c][This(c)].status = "retrying"
<1>1. This(c) \in Positions /\ This(c) \in 1..Len(log[c])
  BY Ranges DEF This
<1> QED
  BY <1>1 DEF IInv, TypeOK, FilesOK, ReceiptsInLog

LEMMA PutReceipt ==
  ASSUME IInv, NEW c \in Channels, NEW i \in Positions, NEW r \in Receipt,
         receipts' = [receipts EXCEPT ![c][i] = r]
  PROVE  /\ receipts' \in [Channels -> [Positions -> Receipt]]
         /\ receipts'[c][i] = r
         /\ \A d \in Channels \ {c} : receipts'[d] = receipts[d]
         /\ \A j \in Positions \ {i} : receipts'[c][j] = receipts[c][j]
  BY DEF IInv, TypeOK, FilesOK

LEMMA CountOne ==
  ASSUME NEW f \in [Channels -> [Positions -> Nat]], NEW c \in Channels, NEW i \in Positions
  PROVE  [f EXCEPT ![c][i] = @ + 1] \in [Channels -> [Positions -> Nat]]
  OBVIOUS

LEMMA IgnoreStep ==
  ASSUME IInv, NEW c \in Channels, Ignore(c)
  PROVE  IInv'
<1> USE DEF durable, history, Heads, Settled, InFlight
<1>1. TypeOK'
  BY DEF IInv, Ignore, TypeOK, FilesOK, QueuesOK, RetriesOK, HistoryOK
<1>2. Known(c, This(c))'
  BY DEF Ignore, Known, Outbound, This
<1>3. step'[c] = "done"
  BY DEF IInv, Ignore, TypeOK, QueuesOK
<1> QED
  BY <1>1, <1>2, <1>3, HeadRanges, HeadStep DEF Ignore, IInv, TypeOK, QueuesOK, ReceiptsInLog

LEMMA SkipStep ==
  ASSUME IInv, NEW c \in Channels, Skip(c)
  PROVE  IInv'
<1> USE DEF Heads, Settled, InFlight
<1> DEFINE r == [status |-> "skipped", attempts |-> 0, due |-> TRUE]
<1>1. chain[c] # <<>> /\ step[c] = "idle" /\ This(c) \in Positions
  BY HeadRanges DEF Skip
<1>2. r \in Receipt
  BY MaxAttemptsAssumption DEF Receipt, Status
<1>3. receipts' = [receipts EXCEPT ![c][This(c)] = r]
  BY DEF Skip
<1>10. r.status = "skipped" /\ r.attempts = 0 /\ r.due
  OBVIOUS
<1> HIDE DEF r
<1>4. /\ receipts' \in [Channels -> [Positions -> Receipt]]
      /\ receipts'[c][This(c)] = r
      /\ \A d \in Channels \ {c} : receipts'[d] = receipts[d]
      /\ \A j \in Positions \ {This(c)} : receipts'[c][j] = receipts[c][j]
  BY <1>1, <1>2, <1>3, PutReceipt
<1>5. excused' \in [Channels -> [Positions -> Nat]]
  BY <1>1, CountOne DEF Skip, IInv, TypeOK, HistoryOK
<1>6. step' = [step EXCEPT ![c] = "done"] /\ step'[c] = "done"
  BY DEF IInv, Skip, TypeOK, QueuesOK
<1>7. TypeOK'
  <2>1. step' \in [Channels -> {"idle", "sending", "accepted", "unsendable", "done"}]
    BY <1>6 DEF IInv, TypeOK, QueuesOK
  <2>2. UNCHANGED <<log, binding, saved, adopted, phase, offset, target, chain, tries, timer,
                    running, todo, owed, sent, base, restarts, rebinds>>
    BY DEF Skip
  <2> QED
    BY <1>4, <1>5, <2>1, <2>2 DEF IInv, TypeOK, FilesOK, QueuesOK, RetriesOK, HistoryOK
<1>8. This(c)' = This(c)
  BY DEF Skip, This
<1>9. Known(c, This(c))'
  BY <1>4, <1>8, <1>10 DEF Known
<1>11. \A d \in Channels \ {c} : step'[d] = step[d] /\ tries'[d] = tries[d]
  BY <1>6 DEF Skip, IInv, TypeOK, QueuesOK
<1> QED
  BY <1>1, <1>4, <1>6, <1>7, <1>9, <1>10, <1>11, MaxAttemptsAssumption, HeadStep DEF Skip

LEMMA AlreadySettledStep ==
  ASSUME IInv, NEW c \in Channels, AlreadySettled(c)
  PROVE  IInv'
<1> USE DEF durable, history, Heads, Settled, InFlight
<1>1. TypeOK'
  BY DEF IInv, AlreadySettled, TypeOK, FilesOK, QueuesOK, RetriesOK, HistoryOK
<1>2. Known(c, This(c))'
  BY DEF AlreadySettled, Known, Outbound, This, Concluded
<1>3. step'[c] = "done"
  BY DEF IInv, AlreadySettled, TypeOK, QueuesOK
<1> QED
  BY <1>1, <1>2, <1>3, HeadRanges, HeadStep DEF AlreadySettled, IInv, TypeOK, QueuesOK

LEMMA TooEarlyStep ==
  ASSUME IInv, NEW c \in Channels, TooEarly(c)
  PROVE  IInv'
<1> USE DEF durable, history, Heads, Settled, InFlight
<1>1. TypeOK'
  BY DEF IInv, TooEarly, ScheduleNextRetry, SomeRetrying, TypeOK, FilesOK, QueuesOK,
         RetriesOK, HistoryOK
<1>2. receipts[c][This(c)].status # "none"
  BY HeadRanges DEF TooEarly
<1>3. Known(c, This(c))'
  BY <1>2 DEF TooEarly, Known, Outbound, This
<1>4. step'[c] = "done"
  BY DEF IInv, TooEarly, TypeOK, QueuesOK
<1> QED
  BY <1>1, <1>3, <1>4, HeadRanges, HeadStep DEF TooEarly, IInv, TypeOK, QueuesOK

LEMMA BeginSendStep ==
  ASSUME IInv, NEW c \in Channels, BeginSend(c)
  PROVE  IInv'
<1> USE DEF durable, history, Heads, InFlight
<1>1. /\ chain[c] # <<>> /\ step[c] = "idle" /\ This(c) \in Positions
      /\ receipts[c][This(c)].status \notin {"delivered", "failed"}
      /\ receipts[c][This(c)].attempts + 1 \in 1..MaxAttempts
  BY MaxAttemptsAssumption, HeadRanges DEF BeginSend, Concluded, Receipt
<1>2. /\ tries' \in [Channels -> 0..MaxAttempts] /\ tries'[c] \in 1..MaxAttempts
      /\ step' \in [Channels -> {"idle", "sending", "accepted", "unsendable", "done"}]
      /\ step'[c] \in {"sending", "unsendable"}
      /\ \A d \in Channels \ {c} : step'[d] = step[d] /\ tries'[d] = tries[d]
  BY <1>1, MaxAttemptsAssumption DEF BeginSend, IInv, TypeOK, QueuesOK
<1>3. TypeOK'
  BY <1>2 DEF IInv, BeginSend, TypeOK, FilesOK, QueuesOK, RetriesOK, HistoryOK
<1>4. This(c)' = This(c)
  BY DEF BeginSend, This
<1> QED
  BY <1>1, <1>2, <1>3, <1>4, HeadRanges, HeadStep DEF BeginSend

LEMMA AcceptStep ==
  ASSUME IInv, NEW c \in Channels, Accept(c)
  PROVE  IInv'
<1> USE DEF durable, InFlight
<1>1. /\ chain[c] # <<>> /\ step[c] = "sending" /\ This(c) \in Positions
      /\ receipts[c][This(c)].status \notin {"delivered", "failed"}
      /\ tries[c] \in 1..MaxAttempts
  BY HeadRanges DEF Accept, IInv, HeadInProgress, FinalNeverResent
<1>2. sent' \in [Channels -> [Positions -> Nat]]
  BY <1>1, CountOne DEF Accept, IInv, TypeOK, HistoryOK
<1>3. /\ step' \in [Channels -> {"idle", "sending", "accepted", "unsendable", "done"}]
      /\ step'[c] = "accepted"
      /\ \A d \in Channels \ {c} : step'[d] = step[d]
  BY DEF Accept, IInv, TypeOK, QueuesOK
<1>4. TypeOK'
  BY <1>2, <1>3 DEF IInv, Accept, TypeOK, FilesOK, QueuesOK, RetriesOK, HistoryOK
<1>5. This(c)' = This(c)
  BY DEF Accept, This
<1> QED
  BY <1>1, <1>3, <1>4, <1>5, HeadRanges, HeadStep DEF Accept

\* What a resolved or rejected send starts from.
LEMMA SendRanges ==
  ASSUME IInv, NEW c \in Channels, InFlight(c)
  PROVE  /\ chain[c] # <<>> /\ step[c] # "done" /\ step[c] # "idle"
         /\ This(c) \in Positions
         /\ receipts[c][This(c)].status \notin {"delivered", "failed"}
         /\ tries[c] \in 1..MaxAttempts
  BY HeadRanges DEF IInv, HeadInProgress, FinalNeverResent, InFlight

LEMMA SettledStep ==
  ASSUME IInv, NEW c \in Channels, Settled(c)
  PROVE  /\ step' \in [Channels -> {"idle", "sending", "accepted", "unsendable", "done"}]
         /\ step'[c] = "done"
         /\ \A d \in Channels \ {c} : step'[d] = step[d]
  BY DEF IInv, TypeOK, QueuesOK, Settled

LEMMA SendResolvesStep ==
  ASSUME IInv, NEW c \in Channels, SendResolves(c)
  PROVE  IInv'
<1> DEFINE r == [status |-> "delivered", attempts |-> tries[c], due |-> TRUE]
<1>1. /\ chain[c] # <<>> /\ step[c] # "done" /\ This(c) \in Positions
      /\ tries[c] \in 1..MaxAttempts
  BY SendRanges DEF SendResolves, InFlight
<1>2. r \in Receipt
  BY <1>1, MaxAttemptsAssumption DEF Receipt, Status
<1>3. receipts' = [receipts EXCEPT ![c][This(c)] = r]
  BY DEF SendResolves
<1>4. r.status = "delivered" /\ r.due
  OBVIOUS
<1> HIDE DEF r
<1>5. /\ receipts' \in [Channels -> [Positions -> Receipt]]
      /\ receipts'[c][This(c)] = r
      /\ \A d \in Channels \ {c} : receipts'[d] = receipts[d]
      /\ \A j \in Positions \ {This(c)} : receipts'[c][j] = receipts[c][j]
  BY <1>1, <1>2, <1>3, PutReceipt
<1>6. /\ step' \in [Channels -> {"idle", "sending", "accepted", "unsendable", "done"}]
      /\ step'[c] = "done"
      /\ \A d \in Channels \ {c} : step'[d] = step[d]
  BY SettledStep DEF SendResolves
<1>7. TypeOK'
  BY <1>5, <1>6 DEF SendResolves, history, IInv, TypeOK, FilesOK, QueuesOK, RetriesOK, HistoryOK
<1>8. This(c)' = This(c)
  BY DEF SendResolves, This
<1>9. Known(c, This(c))'
  BY <1>4, <1>5, <1>8 DEF Known
<1>10. UNCHANGED <<log, saved, phase, offset, target, chain, tries, owed, base, running, todo>>
  BY DEF SendResolves, history
<1> QED
  BY <1>1, <1>4, <1>5, <1>6, <1>7, <1>9, <1>10, HeadStep DEF InFlight

LEMMA SendRejectsStep ==
  ASSUME IInv, NEW c \in Channels, SendRejects(c)
  PROVE  IInv'
<1> DEFINE again == RetriesLeft(tries[c])
           r == [status |-> IF again THEN "retrying" ELSE "failed",
                 attempts |-> tries[c], due |-> ~ again]
<1>1. /\ chain[c] # <<>> /\ step[c] # "done" /\ This(c) \in Positions
      /\ tries[c] \in 1..MaxAttempts
      /\ receipts[c][This(c)].status \notin {"delivered", "failed"}
  BY SendRanges DEF SendRejects, InFlight
<1>2. again \in BOOLEAN
  BY DEF RetriesLeft
<1>3. r \in Receipt
  BY <1>1, <1>2, MaxAttemptsAssumption DEF Receipt, Status
<1>4. receipts' = [receipts EXCEPT ![c][This(c)] = r]
  BY DEF SendRejects
<1>5. /\ r.status \notin {"delivered", "failed"} => r.attempts < MaxAttempts
      /\ r.status # "none"
      /\ ~ r.due => r.status = "retrying"
  BY DEF RetriesLeft
<1> HIDE DEF r
<1>6. /\ receipts' \in [Channels -> [Positions -> Receipt]]
      /\ receipts'[c][This(c)] = r
      /\ \A d \in Channels \ {c} : receipts'[d] = receipts[d]
      /\ \A j \in Positions \ {This(c)} : receipts'[c][j] = receipts[c][j]
  BY <1>1, <1>3, <1>4, PutReceipt
<1>7. /\ step' \in [Channels -> {"idle", "sending", "accepted", "unsendable", "done"}]
      /\ step'[c] = "done"
      /\ \A d \in Channels \ {c} : step'[d] = step[d]
  BY SettledStep DEF SendRejects
<1>8. excused' \in [Channels -> [Positions -> Nat]]
  BY <1>1, CountOne DEF SendRejects, IInv, TypeOK, HistoryOK
<1>9. timer' \in BOOLEAN
  BY DEF SendRejects, ScheduleNextRetry, SomeRetrying, IInv, TypeOK, RetriesOK
<1>10. UNCHANGED <<log, binding, saved, adopted, phase, offset, target, chain, tries, running,
                   todo, owed, sent, base, restarts, rebinds>>
  BY DEF SendRejects
<1>11. TypeOK'
  BY <1>6, <1>7, <1>8, <1>9, <1>10
     DEF IInv, TypeOK, FilesOK, QueuesOK, RetriesOK, HistoryOK
<1>12. This(c)' = This(c)
  BY <1>10 DEF This
<1>13. Known(c, This(c))'
  BY <1>5, <1>6, <1>12 DEF Known
<1> QED
  BY <1>1, <1>5, <1>6, <1>7, <1>10, <1>11, <1>13, HeadStep DEF InFlight

LEMMA AppendRanges ==
  ASSUME IInv, NEW c \in Channels, NEW e \in Entry, Enqueue(c, e)
  PROVE  /\ chain' \in [Channels -> Seq(Entry)]
         /\ Len(chain'[c]) = Len(chain[c]) + 1
         /\ chain'[c][Len(chain[c]) + 1] = e
         /\ \A k \in 1..Len(chain[c]) : chain'[c][k] = chain[c][k]
         /\ \A d \in Channels \ {c} : chain'[d] = chain[d]
<1>1. chain \in [Channels -> Seq(Entry)] /\ chain[c] \in Seq(Entry)
  BY DEF IInv, TypeOK, QueuesOK
<1>2. chain'[c] = Append(chain[c], e) /\ \A d \in Channels \ {c} : chain'[d] = chain[d]
  BY <1>1 DEF Enqueue
<1>3. chain' \in [Channels -> Seq(Entry)]
  BY <1>1 DEF Enqueue
<1>4. \A k \in 1..Len(chain[c]) : Append(chain[c], e)[k] = chain[c][k]
  BY <1>1
<1>5. Append(chain[c], e)[Len(chain[c]) + 1] = e /\ Len(Append(chain[c], e)) = Len(chain[c]) + 1
  BY <1>1
<1> QED
  BY <1>2, <1>3, <1>4, <1>5

\* The entries of the longer chain are the old ones and the new one.
LEMMA GrownByOne ==
  ASSUME IInv, NEW c \in Channels, Len(chain'[c]) = Len(chain[c]) + 1,
         \A k \in 1..Len(chain[c]) : chain'[c][k] = chain[c][k],
         NEW k \in 1..Len(chain'[c])
  PROVE  \/ k \in 1..Len(chain[c]) /\ chain'[c][k] = chain[c][k]
         \/ k = Len(chain[c]) + 1
  BY Ranges

LEMMA DrainNextStep ==
  ASSUME IInv, NEW c \in Channels, DrainNext(c)
  PROVE  IInv'
<1> USE DEF durable, history
<1> DEFINE e == [idx |-> offset[c] + 1, src |-> "backlog", run |-> NoRun]
<1>1. /\ offset[c] \in Nat /\ target[c] \in Nat /\ offset[c] + 1 <= Len(log[c])
      /\ offset[c] + 1 \in Positions /\ phase = "draining"
  BY BoundsAssumption, Ranges DEF DrainNext, IInv, PositionsInLog, Positions
<1>2. e \in Entry
  BY <1>1 DEF Entry
<1>3. e.idx = offset[c] + 1 /\ e.src = "backlog"
  OBVIOUS
<1>4. Enqueue(c, e)
  BY DEF DrainNext
<1> HIDE DEF e
<1>5. /\ chain' \in [Channels -> Seq(Entry)]
      /\ Len(chain'[c]) = Len(chain[c]) + 1
      /\ chain'[c][Len(chain[c]) + 1] = e
      /\ \A k \in 1..Len(chain[c]) : chain'[c][k] = chain[c][k]
      /\ \A d \in Channels \ {c} : chain'[d] = chain[d]
  BY <1>2, <1>4, AppendRanges
<1>6. /\ offset' \in [Channels -> 0..MaxLog]
      /\ offset'[c] = offset[c] + 1
      /\ \A d \in Channels \ {c} : offset'[d] = offset[d]
  BY <1>1, BoundsAssumption DEF DrainNext, IInv, TypeOK, QueuesOK, Positions
<1>7. UNCHANGED <<durable, phase, target, step, tries, timer, running, todo, owed, history>>
  BY DEF DrainNext
<1>8. TypeOK'
  BY <1>5, <1>6, <1>7 DEF IInv, TypeOK, FilesOK, QueuesOK, RetriesOK, HistoryOK
<1>9. WorkShape' /\ PositionsInLog'
  <2>1. \A d \in Channels : \A k \in 1..Len(chain'[d]) : chain'[d][k].idx <= Len(log[d])
    BY ZenonT(40), <1>1, <1>3, <1>5, GrownByOne, Ranges DEF IInv, WorkShape
  <2> QED
    BY <2>1, <1>1, <1>6, <1>7 DEF IInv, WorkShape, PositionsInLog
<1>10. PhaseShape'
  <2>0. \A d \in Channels : \A k \in 1..Len(chain[d]) : chain[d][k].src # "live"
    BY <1>1 DEF IInv, PhaseShape
  <2>1. \A d \in Channels : \A k \in 1..Len(chain'[d]) : chain'[d][k].src # "live"
    <3> SUFFICES ASSUME NEW d \in Channels, NEW k \in 1..Len(chain'[d])
                 PROVE  chain'[d][k].src # "live"
      OBVIOUS
    <3>1. CASE d = c
      BY <2>0, <1>3, <1>5, <3>1, GrownByOne
    <3>2. CASE d # c
      <4>1. chain'[d] = chain[d]
        BY <1>5, <3>2
      <4> QED
        BY <4>1, <2>0
    <3> QED
      BY <3>1, <3>2
  <2> QED
    BY <1>1, <1>7, <2>1 DEF PhaseShape
<1>11. \A d \in Channels :
        /\ Len(chain[d]) <= Len(chain'[d])
        /\ \A k \in 1..Len(chain[d]) : chain'[d][k] = chain[d][k]
        /\ \A i \in (offset[d] + 1)..offset'[d] :
             \E k \in (Len(chain[d]) + 1)..Len(chain'[d]) :
               chain'[d][k].idx = i /\ chain'[d][k].src # "retry"
  <2> SUFFICES ASSUME NEW d \in Channels
               PROVE  /\ Len(chain[d]) <= Len(chain'[d])
                      /\ \A k \in 1..Len(chain[d]) : chain'[d][k] = chain[d][k]
                      /\ \A i \in (offset[d] + 1)..offset'[d] :
                           \E k \in (Len(chain[d]) + 1)..Len(chain'[d]) :
                             chain'[d][k].idx = i /\ chain'[d][k].src # "retry"
    OBVIOUS
  <2>1. CASE d = c
    <3>1. \A i \in (offset[c] + 1)..offset'[c] : i = e.idx
      BY <1>1, <1>3, <1>6
    <3>2. Len(chain[c]) \in Nat /\ Len(chain[c]) + 1 \in (Len(chain[c]) + 1)..Len(chain'[c])
      BY <1>5, Ranges
    <3> QED
      BY <2>1, <3>1, <3>2, <1>3, <1>5
  <2>2. CASE d # c
    BY <2>2, <1>5, <1>6, Ranges
  <2> QED
    BY <2>1, <2>2
<1> QED
  BY <1>1, <1>7, <1>8, <1>9, <1>10, <1>11, GrowStep

LEMMA RetryNextStep ==
  ASSUME IInv, NEW r \in RunIds, NEW c \in Channels, NEW i \in Positions, RetryNext(r, c, i)
  PROVE  IInv'
<1> USE DEF durable, history
<1> DEFINE e == [idx |-> i, src |-> "retry", run |-> r]
<1>1. i \in Nat /\ i <= Len(log[c])
  BY BoundsAssumption DEF RetryNext, IInv, WorkShape, Positions
<1>2. e \in Entry
  BY DEF Entry
<1>3. e.idx = i /\ e.src = "retry"
  OBVIOUS
<1>4. Enqueue(c, e)
  BY DEF RetryNext
<1> HIDE DEF e
<1>5. /\ chain' \in [Channels -> Seq(Entry)]
      /\ Len(chain'[c]) = Len(chain[c]) + 1
      /\ chain'[c][Len(chain[c]) + 1] = e
      /\ \A k \in 1..Len(chain[c]) : chain'[c][k] = chain[c][k]
      /\ \A d \in Channels \ {c} : chain'[d] = chain[d]
  BY <1>2, <1>4, AppendRanges
<1>6. UNCHANGED <<durable, phase, offset, target, step, tries, timer, running, owed, history>>
  BY DEF RetryNext
<1>7. todo' \in [RunIds -> SUBSET (Channels \X Positions)]
      /\ \A q \in RunIds : todo'[q] \subseteq todo[q]
  BY DEF RetryNext, IInv, TypeOK, RetriesOK
<1>8. TypeOK'
  BY <1>5, <1>6, <1>7 DEF IInv, TypeOK, FilesOK, QueuesOK, RetriesOK, HistoryOK
<1>9. phase # "down"
  BY DEF RetryNext, IInv, WorkShape
<1>10. WorkShape'
  <2>1. \A d \in Channels : \A k \in 1..Len(chain'[d]) : chain'[d][k].idx <= Len(log[d])
    BY <1>1, <1>3, <1>5, GrownByOne, Ranges DEF IInv, WorkShape
  <2> QED
    BY <2>1, <1>6, <1>7 DEF IInv, WorkShape
<1>11. PositionsInLog'
  BY <1>6 DEF IInv, PositionsInLog
<1>12. PhaseShape'
  <2>1. \A d \in Channels : \A k \in 1..Len(chain'[d]) :
          chain'[d][k].src = "retry" \/ (k \in 1..Len(chain[d]) /\ chain'[d][k] = chain[d][k])
    BY <1>3, <1>5, GrownByOne
  <2> QED
    <3>1. phase = "draining" =>
            \A d \in Channels : \A k \in 1..Len(chain'[d]) : chain'[d][k].src # "live"
      BY <2>1 DEF IInv, PhaseShape
    <3>2. phase = "drained" =>
            \A d \in Channels : \A k \in 1..Len(chain'[d]) : chain'[d][k].src = "retry"
      BY <2>1 DEF IInv, PhaseShape
    <3>3. phase \in {"stopping", "stopped"} =>
            \A d \in Channels : \A k \in 1..Len(chain'[d]) :
              k > owed[d] => chain'[d][k].src = "retry"
      BY <2>1 DEF IInv, PhaseShape
    <3>4. phase = "drained" => \A d \in Channels : offset[d] = saved[d]
      BY DEF IInv, PhaseShape
    <3> QED
      BY <1>6, <1>9, <3>1, <3>2, <3>3, <3>4 DEF PhaseShape
<1>13. \A d \in Channels :
        /\ Len(chain[d]) <= Len(chain'[d])
        /\ \A k \in 1..Len(chain[d]) : chain'[d][k] = chain[d][k]
        /\ \A j \in (offset[d] + 1)..offset'[d] :
             \E k \in (Len(chain[d]) + 1)..Len(chain'[d]) :
               chain'[d][k].idx = j /\ chain'[d][k].src # "retry"
  <2>1. \A d \in Channels : Len(chain[d]) <= Len(chain'[d])
    BY <1>5, Ranges
  <2>2. \A d \in Channels : (offset[d] + 1)..offset'[d] = {}
    BY <1>6, Ranges
  <2>3. \A d \in Channels : \A k \in 1..Len(chain[d]) : chain'[d][k] = chain[d][k]
    BY <1>5
  <2> QED
    BY <2>1, <2>2, <2>3
<1> QED
  BY <1>6, <1>8, <1>9, <1>10, <1>11, <1>12, <1>13, GrowStep

LEMMA ConcatRanges ==
  ASSUME NEW S, NEW s \in Seq(S), NEW t \in Seq(S)
  PROVE  /\ s \o t \in Seq(S)
         /\ Len(s \o t) = Len(s) + Len(t)
         /\ \A k \in 1..Len(s) : (s \o t)[k] = s[k]
         /\ \A k \in 1..Len(t) : (s \o t)[Len(s) + k] = t[k]
  OBVIOUS

LEMMA LiveRanges ==
  ASSUME IInv, NEW d \in Channels,
         chain'[d] = chain[d] \o LiveEntries(offset[d], Len(log[d])),
         offset'[d] = Len(log[d])
  PROVE  /\ chain'[d] \in Seq(Entry)
         /\ Len(chain[d]) <= Len(chain'[d])
         /\ \A k \in 1..Len(chain[d]) : chain'[d][k] = chain[d][k]
         /\ \A k \in 1..Len(chain'[d]) : chain'[d][k].idx <= Len(log[d])
         /\ \A i \in (offset[d] + 1)..offset'[d] :
              \E k \in (Len(chain[d]) + 1)..Len(chain'[d]) :
                chain'[d][k].idx = i /\ chain'[d][k].src # "retry"
<1> DEFINE from == offset[d]
           to == Len(log[d])
           new == LiveEntries(from, to)
<1>1. from \in Nat /\ to \in 0..MaxLog /\ from <= to /\ MaxLog \in Nat
  BY Ranges, BoundsAssumption DEF IInv, PositionsInLog
<1> HIDE DEF from, to
<1>2. \A k \in 1..(to - from) : from + k \in Positions
  BY <1>1 DEF Positions
<1>3. to - from \in Nat
  BY <1>1
<1>4. \A k \in 1..(to - from) :
        [idx |-> from + k, src |-> "live", run |-> NoRun] \in Entry
  BY <1>2 DEF Entry
<1>5. /\ new \in Seq(Entry) /\ Len(new) = to - from
      /\ \A k \in 1..(to - from) : new[k].idx = from + k /\ new[k].src = "live"
  BY <1>3, <1>4 DEF LiveEntries
<1> HIDE DEF new
<1>6. chain[d] \in Seq(Entry) /\ Len(chain[d]) \in Nat
  BY Ranges
<1>7. chain'[d] = chain[d] \o new
  BY DEF new, from, to
<1>8. /\ chain'[d] \in Seq(Entry)
      /\ Len(chain'[d]) = Len(chain[d]) + (to - from)
      /\ \A k \in 1..Len(chain[d]) : chain'[d][k] = chain[d][k]
      /\ \A k \in 1..(to - from) : chain'[d][Len(chain[d]) + k] = new[k]
  <2> DEFINE old == chain[d]
             both == old \o new
  <2>3. old \in Seq(Entry) /\ new \in Seq(Entry)
    BY <1>5, <1>6
  <2> HIDE DEF old
  <2>1. /\ both \in Seq(Entry) /\ Len(both) = Len(old) + Len(new)
        /\ \A k \in 1..Len(old) : both[k] = old[k]
        /\ \A k \in 1..Len(new) : both[Len(old) + k] = new[k]
    BY <2>3
  <2> HIDE DEF both
  <2>2. chain'[d] = both
    BY <1>7 DEF both, old
  <2> QED
    BY <1>5, <2>1, <2>2 DEF old
<1>9. \A k \in 1..Len(chain'[d]) : chain'[d][k].idx <= to
  <2> SUFFICES ASSUME NEW k \in 1..Len(chain'[d]) PROVE chain'[d][k].idx <= to
    OBVIOUS
  <2>1. CASE k \in 1..Len(chain[d])
    BY <2>1, <1>8 DEF IInv, WorkShape, to
  <2>2. CASE k \notin 1..Len(chain[d])
    <3>1. k - Len(chain[d]) \in 1..(to - from) /\ k = Len(chain[d]) + (k - Len(chain[d]))
      BY <1>1, <1>6, <1>8, <2>2
    <3>2. chain'[d][k].idx = from + (k - Len(chain[d]))
      BY <3>1, <1>5, <1>8
    <3> QED
      BY <3>1, <3>2, <1>1, <1>6
  <2> QED
    BY <2>1, <2>2
<1>10. ASSUME NEW i \in (from + 1)..to
       PROVE  \E k \in (Len(chain[d]) + 1)..Len(chain'[d]) :
                chain'[d][k].idx = i /\ chain'[d][k].src # "retry"
  <2>1. i - from \in 1..(to - from)
    BY <1>1
  <2>2. /\ chain'[d][Len(chain[d]) + (i - from)] = new[i - from]
        /\ new[i - from].idx = from + (i - from) /\ new[i - from].src = "live"
    BY <2>1, <1>5, <1>8
  <2>3. /\ Len(chain[d]) + (i - from) \in (Len(chain[d]) + 1)..Len(chain'[d])
        /\ from + (i - from) = i
    BY SMTT(40), <2>1, <1>1, <1>6, <1>8
  <2> QED
    BY <2>2, <2>3
<1>11. offset'[d] = to
  BY DEF to
<1> QED
  <2>1. Len(chain[d]) <= Len(chain'[d])
    BY <1>3, <1>6, <1>8
  <2> QED
    BY <2>1, <1>8, <1>9, <1>10, <1>11 DEF from, to

LEMMA StartStep ==
  ASSUME IInv, Start
  PROVE  IInv'
<1> USE DEF durable, history
<1>1. \A d \in Channels :
        /\ chain'[d] = chain[d] \o LiveEntries(offset[d], Len(log[d]))
        /\ offset'[d] = Len(log[d])
  BY DEF Start
<1>2. /\ UNCHANGED <<durable, target, step, tries, running, todo, owed, history>>
      /\ phase = "drained" /\ phase' = "running" /\ timer' \in BOOLEAN
  BY DEF Start, ScheduleNextRetry, SomeRetrying
<1>3. chain' \in [Channels -> Seq(Entry)]
  <2>1. \A d \in Channels : chain[d] \o LiveEntries(offset[d], Len(log[d])) \in Seq(Entry)
    BY <1>1, LiveRanges
  <2> QED
    BY <2>1 DEF Start
<1>4. offset' \in [Channels -> 0..MaxLog]
  BY Ranges DEF Start
<1>5. TypeOK'
  BY <1>2, <1>3, <1>4 DEF IInv, TypeOK, FilesOK, QueuesOK, RetriesOK, HistoryOK
<1>6. WorkShape'
  <2>1. \A d \in Channels : \A k \in 1..Len(chain'[d]) : chain'[d][k].idx <= Len(log[d])
    BY <1>1, LiveRanges
  <2> QED
    BY <2>1, <1>2 DEF IInv, WorkShape
<1>7. PositionsInLog' /\ PhaseShape'
  <2>3. \A d \in Channels : Len(log[d]) \in Nat
    BY Ranges, BoundsAssumption
  <2>4. \A d \in Channels : offset'[d] = Len(log[d])
    BY <1>1
  <2>1. \A d \in Channels : offset'[d] <= Len(log[d])
    BY <2>3, <2>4
  <2>2. PositionsInLog'
    BY <1>2, <2>1 DEF IInv, PositionsInLog
  <2> QED
    BY <1>2, <2>2 DEF PhaseShape
<1>8. \A d \in Channels :
        /\ Len(chain[d]) <= Len(chain'[d])
        /\ \A k \in 1..Len(chain[d]) : chain'[d][k] = chain[d][k]
        /\ \A i \in (offset[d] + 1)..offset'[d] :
             \E k \in (Len(chain[d]) + 1)..Len(chain'[d]) :
               chain'[d][k].idx = i /\ chain'[d][k].src # "retry"
  BY <1>1, LiveRanges
<1> QED
  BY <1>2, <1>5, <1>6, <1>7, <1>8, GrowStep

LEMMA WatchEventStep ==
  ASSUME IInv, NEW c \in Channels, WatchEvent(c)
  PROVE  IInv'
<1> USE DEF durable, history
<1>1. /\ chain'[c] = chain[c] \o LiveEntries(offset[c], Len(log[c]))
      /\ offset'[c] = Len(log[c])
      /\ \A d \in Channels \ {c} : chain'[d] = chain[d] /\ offset'[d] = offset[d]
  BY DEF WatchEvent, IInv, TypeOK, QueuesOK
<1>2. /\ UNCHANGED <<durable, phase, target, step, tries, timer, running, todo, owed, history>>
      /\ phase = "running"
  BY DEF WatchEvent
<1>3. chain' \in [Channels -> Seq(Entry)]
  <2>1. chain[c] \o LiveEntries(offset[c], Len(log[c])) \in Seq(Entry)
    BY <1>1, LiveRanges
  <2> QED
    BY <2>1 DEF WatchEvent, IInv, TypeOK, QueuesOK
<1>4. offset' \in [Channels -> 0..MaxLog]
  BY Ranges DEF WatchEvent, IInv, TypeOK, QueuesOK
<1>5. TypeOK'
  BY <1>2, <1>3, <1>4 DEF IInv, TypeOK, FilesOK, QueuesOK, RetriesOK, HistoryOK
<1>6. WorkShape'
  <2>1. \A d \in Channels : \A k \in 1..Len(chain'[d]) : chain'[d][k].idx <= Len(log[d])
    BY <1>1, LiveRanges DEF IInv, WorkShape
  <2> QED
    BY <2>1, <1>2 DEF IInv, WorkShape
<1>7. PositionsInLog' /\ PhaseShape'
  <2>1. \A d \in Channels : offset'[d] <= Len(log[d])
    BY <1>1, Ranges DEF IInv, PositionsInLog
  <2> QED
    BY <1>2, <2>1 DEF IInv, PositionsInLog, PhaseShape
<1>8. ASSUME NEW d \in Channels
      PROVE  /\ Len(chain[d]) <= Len(chain'[d])
             /\ \A k \in 1..Len(chain[d]) : chain'[d][k] = chain[d][k]
             /\ \A i \in (offset[d] + 1)..offset'[d] :
                  \E k \in (Len(chain[d]) + 1)..Len(chain'[d]) :
                    chain'[d][k].idx = i /\ chain'[d][k].src # "retry"
  <2>1. CASE d = c
    BY <2>1, <1>1, LiveRanges
  <2>2. CASE d # c
    <3>1. (offset[d] + 1)..offset'[d] = {} /\ Len(chain[d]) <= Len(chain'[d])
      BY <2>2, <1>1, Ranges
    <3> QED
      BY <3>1, <2>2, <1>1
  <2> QED
    BY <2>1, <2>2
<1> QED
  BY <1>2, <1>5, <1>6, <1>7, <1>8, GrowStep

LEMMA BootstrapStep ==
  ASSUME IInv, Bootstrap
  PROVE  IInv'
<1>1. /\ \A d \in Channels : /\ saved'[d] = Len(log[d]) /\ offset'[d] = Len(log[d])
                             /\ target'[d] = Len(log[d]) /\ base'[d] = Len(log[d])
      /\ saved' \in [Channels -> 0..MaxLog] /\ offset' \in [Channels -> 0..MaxLog]
      /\ target' \in [Channels -> 0..MaxLog] /\ base' \in [Channels -> 0..MaxLog]
  BY Ranges DEF Bootstrap
<1>2. /\ UNCHANGED <<log, binding, receipts, chain, step, tries, running, todo, owed,
                     sent, excused, restarts, rebinds>>
      /\ phase = "down" /\ phase' = "drained" /\ timer' \in BOOLEAN /\ adopted' = TRUE
  BY DEF Bootstrap, ScheduleNextRetry, SomeRetrying
<1>3. TypeOK'
  BY <1>1, <1>2 DEF IInv, TypeOK, FilesOK, QueuesOK, RetriesOK, HistoryOK
<1>4. \A d \in Channels : Len(log[d]) \in Nat /\ chain[d] = <<>>
  BY <1>2, Ranges, BoundsAssumption DEF IInv, PhaseShape
<1>5. ReceiptsInLog' /\ WorkShape'
  BY <1>2 DEF IInv, ReceiptsInLog, WorkShape
<1>6. PositionsInLog'
  BY <1>1, <1>2, <1>4 DEF PositionsInLog
<1>7. HeadInProgress' /\ FinalNeverResent'
  BY <1>2 DEF IInv, HeadInProgress, FinalNeverResent, InFlight, Known, Outbound, This
<1>10. \A d \in Channels :
         saved'[d] = base'[d] /\ offset'[d] = base'[d] /\ base'[d] \in Nat
  <2>1. saved' = base' /\ offset' = base'
    BY DEF Bootstrap
  <2> QED
    BY <1>1, <1>4, <2>1
<1>8. SavedHandled' /\ OffsetHandled'
  BY <1>10 DEF SavedHandled, OffsetHandled, Handled
<1>9. PhaseShape'
  BY <1>2, <1>4, <1>10 DEF PhaseShape
<1> QED
  BY <1>3, <1>5, <1>6, <1>7, <1>8, <1>9 DEF IInv

LEMMA DrainBeginStep ==
  ASSUME IInv, DrainBegin
  PROVE  IInv'
<1>1. /\ \A d \in Channels : offset'[d] = saved[d] /\ target'[d] = Len(log[d])
      /\ offset' \in [Channels -> 0..MaxLog] /\ target' \in [Channels -> 0..MaxLog]
  BY Ranges DEF DrainBegin, IInv, TypeOK, FilesOK
<1>2. /\ UNCHANGED <<durable, chain, step, tries, timer, running, todo, owed, history>>
      /\ phase = "down" /\ phase' = "draining"
  BY DEF DrainBegin
<1> USE DEF durable, history
<1>3. TypeOK'
  BY <1>1, <1>2 DEF IInv, TypeOK, FilesOK, QueuesOK, RetriesOK, HistoryOK
<1>4. \A d \in Channels : Len(log[d]) \in Nat /\ chain[d] = <<>>
  BY <1>2, Ranges, BoundsAssumption DEF IInv, PhaseShape
<1>5. ReceiptsInLog' /\ WorkShape'
  BY <1>2 DEF IInv, ReceiptsInLog, WorkShape
<1>6. PositionsInLog'
  BY <1>1, <1>2, <1>4 DEF IInv, PositionsInLog
<1>7. HeadInProgress' /\ FinalNeverResent'
  BY <1>2 DEF IInv, HeadInProgress, FinalNeverResent, InFlight, Known, Outbound, This
<1>8. SavedHandled' /\ OffsetHandled'
  BY <1>1, <1>2 DEF IInv, SavedHandled, OffsetHandled, Handled, Known, Outbound
<1>9. PhaseShape'
  BY <1>2, <1>4 DEF PhaseShape
<1> QED
  BY <1>3, <1>5, <1>6, <1>7, <1>8, <1>9 DEF IInv

\* When only retries are queued, every position below an offset is handled.
LEMMA OnlyRetriesLeft ==
  ASSUME IInv, phase # "down",
         \A c \in Channels : \A k \in 1..Len(chain[c]) : chain[c][k].src = "retry"
  PROVE  \A c \in Channels : \A i \in 1..offset[c] : Handled(c, i)
  BY DEF IInv, OffsetHandled, Waits

LEMMA DrainEndStep ==
  ASSUME IInv, DrainEnd
  PROVE  IInv'
<1>1. /\ UNCHANGED <<log, binding, receipts, adopted, offset, target, chain, step, tries,
                     running, todo, owed, history>>
      /\ saved' = offset /\ offset = target /\ phase = "draining" /\ phase' = "drained"
      /\ timer' \in BOOLEAN
  BY DEF DrainEnd, ScheduleNextRetry, SomeRetrying
<1> USE DEF history
<1>2. \A c \in Channels : \A k \in 1..Len(chain[c]) : chain[c][k].src = "retry"
  <2> SUFFICES ASSUME NEW c \in Channels, NEW k \in 1..Len(chain[c])
               PROVE  chain[c][k].src = "retry"
    OBVIOUS
  <2>1. k \in DOMAIN chain[c] /\ chain[c][k].src \in {"backlog", "live", "retry"}
    BY Ranges DEF Entry
  <2>2. chain[c][k].src # "backlog"
    BY <2>1 DEF DrainEnd, NoBacklogQueued
  <2>3. chain[c][k].src # "live"
    BY <1>1 DEF IInv, PhaseShape
  <2> QED
    BY <2>1, <2>2, <2>3
<1>3. \A c \in Channels : \A i \in 1..offset[c] : Handled(c, i)
  BY <1>1, <1>2, OnlyRetriesLeft
<1>4. TypeOK'
  BY <1>1 DEF IInv, TypeOK, FilesOK, QueuesOK, RetriesOK, HistoryOK
<1>5. ReceiptsInLog' /\ WorkShape'
  BY <1>1 DEF IInv, ReceiptsInLog, WorkShape
<1>6. PositionsInLog'
  BY <1>1 DEF IInv, PositionsInLog
<1>7. HeadInProgress' /\ FinalNeverResent'
  BY <1>1 DEF IInv, HeadInProgress, FinalNeverResent, InFlight, Known, Outbound, This
<1>8. SavedHandled' /\ OffsetHandled'
  BY <1>1, <1>3 DEF SavedHandled, OffsetHandled, Handled, Known, Outbound
<1>9. PhaseShape'
  BY <1>1, <1>2 DEF PhaseShape
<1> QED
  BY <1>4, <1>5, <1>6, <1>7, <1>8, <1>9 DEF IInv

LEMMA StopStep ==
  ASSUME IInv, Stop
  PROVE  IInv'
<1> USE DEF durable
<1>1. /\ UNCHANGED <<durable, offset, target, chain, step, tries, running, todo,
                     sent, excused, base, rebinds>>
      /\ phase = "running" /\ phase' = "stopping" /\ timer' = FALSE
      /\ restarts' = restarts + 1 /\ restarts < MaxRestarts
      /\ owed' = [c \in Channels |-> Len(chain[c])]
  BY DEF Stop
<1>2. owed' \in [Channels -> Nat] /\ restarts' \in 0..MaxRestarts
  BY <1>1, Ranges, BoundsAssumption DEF IInv, TypeOK, HistoryOK
<1>3. TypeOK'
  BY <1>1, <1>2 DEF IInv, TypeOK, FilesOK, QueuesOK, RetriesOK, HistoryOK
<1>4. ReceiptsInLog' /\ WorkShape' /\ PositionsInLog'
  BY <1>1 DEF IInv, ReceiptsInLog, WorkShape, PositionsInLog
<1>5. HeadInProgress' /\ FinalNeverResent'
  BY <1>1 DEF IInv, HeadInProgress, FinalNeverResent, InFlight, Known, Outbound, This
<1>6. SavedHandled' /\ OffsetHandled'
  BY <1>1 DEF IInv, SavedHandled, OffsetHandled, Handled, Known, Outbound, Waits
<1>7. PhaseShape'
  BY <1>1, Ranges DEF PhaseShape
<1> QED
  BY <1>3, <1>4, <1>5, <1>6, <1>7 DEF IInv

LEMMA StopSaveStep ==
  ASSUME IInv, StopSave
  PROVE  IInv'
<1> USE DEF history
<1>1. /\ UNCHANGED <<log, binding, receipts, adopted, offset, target, chain, step, tries,
                     timer, running, todo, owed, history>>
      /\ phase = "stopping" /\ phase' = "stopped" /\ saved' = offset
      /\ \A c \in Channels : owed[c] = 0
  BY DEF StopSave
<1>2. \A c \in Channels : \A k \in 1..Len(chain[c]) : chain[c][k].src = "retry"
  BY <1>1, Ranges DEF IInv, PhaseShape
<1>3. \A c \in Channels : \A i \in 1..offset[c] : Handled(c, i)
  BY <1>1, <1>2, OnlyRetriesLeft
<1>4. TypeOK'
  BY <1>1 DEF IInv, TypeOK, FilesOK, QueuesOK, RetriesOK, HistoryOK
<1>5. ReceiptsInLog' /\ WorkShape' /\ PositionsInLog'
  BY <1>1 DEF IInv, ReceiptsInLog, WorkShape, PositionsInLog
<1>6. HeadInProgress' /\ FinalNeverResent'
  BY <1>1 DEF IInv, HeadInProgress, FinalNeverResent, InFlight, Known, Outbound, This
<1>7. SavedHandled' /\ OffsetHandled'
  BY <1>1, <1>3 DEF SavedHandled, OffsetHandled, Handled, Known, Outbound
<1>8. PhaseShape'
  BY <1>1, <1>2 DEF PhaseShape
<1> QED
  BY <1>4, <1>5, <1>6, <1>7, <1>8 DEF IInv

LEMMA VanishStep ==
  ASSUME IInv, Vanish, restarts' \in 0..MaxRestarts
  PROVE  IInv'
<1> USE DEF durable
<1>1. /\ UNCHANGED <<durable, sent, base, rebinds>>
      /\ phase' = "down" /\ timer' = FALSE /\ running' = {}
      /\ \A d \in Channels : /\ offset'[d] = 0 /\ target'[d] = 0 /\ chain'[d] = <<>>
                             /\ step'[d] = "idle"
      /\ \A r \in RunIds : todo'[r] = {}
  BY DEF Vanish
<1>2. /\ offset' \in [Channels -> 0..MaxLog] /\ target' \in [Channels -> 0..MaxLog]
      /\ step' \in [Channels -> {"idle", "sending", "accepted", "unsendable", "done"}]
      /\ tries' \in [Channels -> 0..MaxAttempts] /\ owed' \in [Channels -> Nat]
  BY BoundsAssumption, MaxAttemptsAssumption DEF Vanish
<1>3. chain' \in [Channels -> Seq(Entry)]
  BY DEF Vanish
<1>4. todo' \in [RunIds -> SUBSET (Channels \X Positions)]
  BY DEF Vanish
<1>5. excused' \in [Channels -> [Positions -> Nat]]
  BY DEF Vanish, IInv, TypeOK, HistoryOK
<1>6. TypeOK'
  BY <1>1, <1>2, <1>3, <1>4, <1>5 DEF IInv, TypeOK, FilesOK, QueuesOK, RetriesOK, HistoryOK
<1>7. ReceiptsInLog' /\ WorkShape'
  BY <1>1 DEF IInv, ReceiptsInLog, WorkShape
<1>8. PositionsInLog'
  BY <1>1, Ranges DEF IInv, PositionsInLog
<1>9. HeadInProgress' /\ FinalNeverResent' /\ OffsetHandled' /\ PhaseShape'
  BY <1>1 DEF HeadInProgress, FinalNeverResent, InFlight, OffsetHandled, PhaseShape
<1>10. SavedHandled'
  BY <1>1 DEF IInv, SavedHandled, Handled, Known, Outbound
<1> QED
  BY <1>6, <1>7, <1>8, <1>9, <1>10 DEF IInv

LEMMA TailEntries ==
  ASSUME NEW S, NEW s \in Seq(S), s # <<>>
  PROVE  /\ Tail(s) \in Seq(S)
         /\ Len(Tail(s)) = Len(s) - 1
         /\ \A k \in 1..Len(Tail(s)) : Tail(s)[k] = s[k + 1]
  OBVIOUS

LEMMA FinishStep ==
  ASSUME IInv, NEW c \in Channels, Finish(c)
  PROVE  IInv'
<1>1. step[c] = "done" /\ chain[c] # <<>> /\ chain[c] \in Seq(Entry)
  BY Ranges DEF Finish, IInv, HeadInProgress
<1>2. /\ UNCHANGED <<log, binding, receipts, adopted, phase, offset, target, timer, running,
                     todo, history>>
      /\ chain' = [chain EXCEPT ![c] = Tail(@)]
      /\ step' = [step EXCEPT ![c] = "idle"]
      /\ tries' = [tries EXCEPT ![c] = 0]
      /\ owed' = [owed EXCEPT ![c] = IF @ > 0 THEN @ - 1 ELSE 0]
      /\ saved' = saved \/ (saved' = offset /\ Watching /\ ChainsIdle)
  BY DEF Finish
<1> USE DEF history
<1>3. /\ chain' \in [Channels -> Seq(Entry)]
      /\ Len(chain'[c]) = Len(chain[c]) - 1
      /\ \A k \in 1..Len(chain'[c]) : chain'[c][k] = chain[c][k + 1]
      /\ \A d \in Channels \ {c} : chain'[d] = chain[d]
  <2>1. chain \in [Channels -> Seq(Entry)]
    BY DEF IInv, TypeOK, QueuesOK
  <2>2. /\ Tail(chain[c]) \in Seq(Entry) /\ Len(Tail(chain[c])) = Len(chain[c]) - 1
        /\ \A k \in 1..Len(Tail(chain[c])) : Tail(chain[c])[k] = chain[c][k + 1]
    BY <1>1, TailEntries
  <2>3. chain'[c] = Tail(chain[c]) /\ \A d \in Channels \ {c} : chain'[d] = chain[d]
    BY <1>2, <2>1
  <2>4. chain' \in [Channels -> Seq(Entry)]
    BY <1>2, <2>1, <2>2
  <2> QED
    BY <2>2, <2>3, <2>4
<1>4. /\ step' \in [Channels -> {"idle", "sending", "accepted", "unsendable", "done"}]
      /\ step'[c] = "idle" /\ \A d \in Channels \ {c} : step'[d] = step[d]
      /\ tries' \in [Channels -> 0..MaxAttempts]
      /\ \A d \in Channels \ {c} : tries'[d] = tries[d]
  BY <1>2, MaxAttemptsAssumption DEF IInv, TypeOK, QueuesOK
<1>5. /\ owed' \in [Channels -> Nat]
      /\ owed[c] \in Nat /\ owed'[c] = (IF owed[c] > 0 THEN owed[c] - 1 ELSE 0)
      /\ \A d \in Channels \ {c} : owed'[d] = owed[d]
  BY <1>2 DEF IInv, TypeOK, QueuesOK
<1>6. TypeOK'
  <2>1. saved' \in [Channels -> 0..MaxLog]
    BY <1>2 DEF IInv, TypeOK, FilesOK, QueuesOK
  <2> QED
    BY <1>2, <1>3, <1>4, <1>5, <2>1 DEF IInv, TypeOK, FilesOK, QueuesOK, RetriesOK, HistoryOK
\* Every entry left was an entry before.
<1>7. ASSUME NEW d \in Channels, NEW k \in 1..Len(chain'[d])
      PROVE  \E j \in 1..Len(chain[d]) :
               /\ chain'[d][k] = chain[d][j]
               /\ j = IF d = c THEN k + 1 ELSE k
  <2>1. CASE d = c
    <3>1. k + 1 \in 1..Len(chain[c])
      BY <2>1, <1>3, Ranges
    <3> QED
      BY <2>1, <3>1, <1>3
  <2>2. CASE d # c
    BY <2>2, <1>3
  <2> QED
    BY <2>1, <2>2
<1>8. ReceiptsInLog' /\ WorkShape'
  <2>1. \A d \in Channels : \A k \in 1..Len(chain'[d]) : chain'[d][k].idx <= Len(log[d])
    BY SMTT(40), <1>7 DEF IInv, WorkShape
  <2> QED
    BY <2>1, <1>2 DEF IInv, ReceiptsInLog, WorkShape
<1>9. PositionsInLog'
  BY <1>2 DEF IInv, PositionsInLog
<1>10. HeadInProgress' /\ FinalNeverResent'
  <2>1. ASSUME NEW d \in Channels, d # c
        PROVE  chain'[d] = chain[d] /\ step'[d] = step[d] /\ tries'[d] = tries[d] /\ This(d)' = This(d)
    BY <2>1, <1>3, <1>4 DEF This
  <2> QED
    BY <2>1, <1>2, <1>4 DEF IInv, HeadInProgress, FinalNeverResent, InFlight, Known, Outbound
<1>11. \A d \in Channels : \A i : Handled(d, i)' <=> Handled(d, i)
  BY <1>2 DEF Handled, Known, Outbound
<1>12. ASSUME NEW d \in Channels, NEW i, Waits(d, i)
       PROVE  Waits(d, i)'
  <2>1. PICK k \in 1..Len(chain[d]) :
          chain[d][k].idx = i /\ chain[d][k].src # "retry" /\ (k = 1 => step[d] # "done")
    BY <1>12 DEF Waits
  <2>2. CASE d = c
    <3>1. k # 1
      BY <2>1, <2>2, <1>1
    <3>2. k - 1 \in 1..Len(chain'[c]) /\ (k - 1) + 1 = k
      BY <2>2, <3>1, <1>3, Ranges
    <3>3. chain'[c][k - 1] = chain[c][k]
      BY <3>2, <1>3
    <3> QED
      BY <2>1, <2>2, <3>2, <3>3, <1>4 DEF Waits
  <2>3. CASE d # c
    BY <2>1, <2>3, <1>3, <1>4 DEF Waits
  <2> QED
    BY <2>2, <2>3
<1>13. OffsetHandled'
  BY <1>2, <1>11, <1>12 DEF IInv, OffsetHandled
<1>14. SavedHandled'
  <2>1. CASE saved' = saved
    BY <2>1, <1>11 DEF IInv, SavedHandled
  <2>2. CASE saved' = offset /\ Watching /\ ChainsIdle
    <3>1. \A d \in Channels : \A i : ~ Waits(d, i)'
      BY <2>2 DEF ChainsIdle, Waits
    <3>2. phase' # "down"
      BY <2>2, <1>2 DEF Watching
    <3> QED
      BY <2>2, <3>1, <3>2, <1>2, <1>13 DEF OffsetHandled, SavedHandled
  <2> QED
    BY <2>1, <2>2, <1>2
<1>15. PhaseShape'
  <2>1. phase # "down"
    BY <1>1 DEF IInv, PhaseShape
  <2>2. phase = "draining" =>
          \A d \in Channels : \A k \in 1..Len(chain'[d]) : chain'[d][k].src # "live"
    BY <1>7 DEF IInv, PhaseShape
  <2>3. phase = "drained" =>
          /\ \A d \in Channels : \A k \in 1..Len(chain'[d]) : chain'[d][k].src = "retry"
          /\ \A d \in Channels : offset[d] = saved'[d]
    <3>1. phase = "drained" => saved' = saved
      BY <1>2 DEF Watching
    <3>2. phase = "drained" => \A d \in Channels : offset[d] = saved[d]
      BY DEF IInv, PhaseShape
    <3>3. phase = "drained" =>
            \A d \in Channels : \A k \in 1..Len(chain'[d]) : chain'[d][k].src = "retry"
      BY <1>7 DEF IInv, PhaseShape
    <3> QED
      BY <3>1, <3>2, <3>3
  <2>4. ASSUME phase \in {"stopping", "stopped"}, NEW d \in Channels,
               NEW k \in 1..Len(chain'[d]), k > owed'[d]
        PROVE  chain'[d][k].src = "retry"
    <3>1. PICK j \in 1..Len(chain[d]) :
            chain'[d][k] = chain[d][j] /\ j = IF d = c THEN k + 1 ELSE k
      BY <1>7
    <3>2. j > owed[d]
      BY <2>4, <3>1, <1>5
    <3> QED
      BY <2>4, <3>1, <3>2 DEF IInv, PhaseShape
  <2> QED
    BY <1>2, <2>1, <2>2, <2>3, <2>4 DEF PhaseShape
<1> QED
  BY <1>6, <1>8, <1>9, <1>10, <1>13, <1>14, <1>15 DEF IInv

----------------------------------------------------------------------------
(* The invariant and its consequences.                                     *)

LEMMA StutterStep ==
  ASSUME IInv, UNCHANGED vars
  PROVE  IInv'
<1> USE DEF vars, durable, process, history
<1>1. TypeOK'
  BY DEF IInv, TypeOK, FilesOK, QueuesOK, RetriesOK, HistoryOK
<1>2. WorkShape'
  BY DEF IInv, WorkShape
<1> QED
  BY <1>1, <1>2, QuietStep

LEMMA NextIInv == IInv /\ [Next]_vars => IInv'
<1> SUFFICES ASSUME IInv, [Next]_vars PROVE IInv'
  OBVIOUS
<1>1. CASE Environment
  BY <1>1, PublishStep, RebindStep DEF Environment
<1>2. CASE \E c \in Channels, i \in Positions : Elapse(c, i)
  BY <1>2, ElapseStep
<1>3. CASE Startup
  BY <1>3, BootstrapStep, DrainBeginStep, DrainNextStep, DrainEndStep, StartStep DEF Startup
<1>4. ASSUME NEW c \in Channels, Dispatch(c) PROVE IInv'
  <2>1. CASE ProcessStep(c)
    BY <2>1, IgnoreStep, SkipStep, AlreadySettledStep, TooEarlyStep, BeginSendStep DEF ProcessStep
  <2>2. CASE ~ ProcessStep(c)
    BY <1>4, <2>2, WatchEventStep, AcceptStep, SendResolvesStep, SendRejectsStep, FinishStep
       DEF Dispatch
  <2> QED
    BY <2>1, <2>2
<1>5. ASSUME NEW r \in RunIds, Retry(r) PROVE IInv'
  BY <1>5, RetryFireStep, RetryEndStep, RetryNextStep DEF Retry
<1>6. CASE Shutdown
  <2>1. CASE Stop \/ StopSave
    BY <2>1, StopStep, StopSaveStep
  <2>2. CASE Exit
    BY <2>2, VanishStep DEF Exit, IInv, TypeOK, HistoryOK
  <2>3. CASE Crash
    <3>1. restarts' \in 0..MaxRestarts
      BY <2>3, BoundsAssumption DEF Crash, IInv, TypeOK, HistoryOK
    <3> QED
      BY <2>3, <3>1, VanishStep DEF Crash
  <2> QED
    BY <1>6, <2>1, <2>2, <2>3 DEF Shutdown
<1>7. CASE UNCHANGED vars
  BY <1>7, StutterStep
<1> QED
  BY <1>1, <1>2, <1>3, <1>4, <1>5, <1>6, <1>7 DEF Next

LEMMA SpecIInv == Spec => []IInv
<1>1. Init => IInv
  BY InitIInv
<1>2. IInv /\ [Next]_vars => IInv'
  BY NextIInv
<1> QED
  BY <1>1, <1>2, PTL DEF Spec

\* Every variable of the dispatcher keeps its type, whatever the interleaving
\* of sends, retry loops, restarts and rebindings.
THEOREM TypesHold == Spec => []TypeOK
<1>1. IInv => TypeOK
  BY DEF IInv
<1> QED
  BY <1>1, SpecIInv, PTL

\* processMessage never sends a message whose receipt is already final, for any
\* number of channels, messages and overlapping retry loops.
THEOREM NoResend == Spec => []FinalNeverResent
<1>1. IInv => FinalNeverResent
  BY DEF IInv
<1> QED
  BY <1>1, SpecIInv, PTL

\* The saved cursors never pass an eligible message without a receipt: however
\* saves, crashes and shutdowns fall, a restart replays all that is unfinished.
THEOREM NothingLost == Spec => []CursorCovered
<1>1. IInv => CursorCovered
  <2> SUFFICES ASSUME IInv, NEW c \in Channels, NEW i \in (base[c] + 1)..saved[c],
                      Outbound(c, i)
               PROVE  receipts[c][i].status # "none"
    BY DEF CursorCovered
  <2>1. i \in 1..saved[c] /\ ~ (i <= base[c])
    BY Ranges
  <2> QED
    BY <2>1 DEF IInv, SavedHandled, Handled, Known
<1> QED
  BY <1>1, SpecIInv, PTL

----------------------------------------------------------------------------
(* Sends and receipts: DuplicatesExcused is inductive upon IInv, since a   *)
(* send never begins for a final receipt and a chain's head does not       *)
(* change while it is being sent.                                          *)

SentOnce(c, i) ==
  /\ sent[c][i] <= excused[c][i] + 1
  /\ sent[c][i] = excused[c][i] + 1 =>
       \/ receipts[c][i].status = "delivered"
       \/ step[c] = "accepted" /\ This(c) = i

\* Counters and receipts keep their types.
LEMMA Counts ==
  ASSUME IInv, NEW c \in Channels, NEW i \in Positions
  PROVE  sent[c][i] \in Nat /\ excused[c][i] \in Nat /\ receipts[c][i] \in Receipt
  BY DEF IInv, TypeOK, FilesOK, HistoryOK

\* What is being sent has no final receipt, and was not taken for nothing.
LEMMA NotYetTaken ==
  ASSUME IInv, DuplicatesExcused, NEW c \in Channels, step[c] = "sending"
  PROVE  sent[c][This(c)] <= excused[c][This(c)]
<1>1. This(c) \in Positions /\ receipts[c][This(c)].status # "delivered"
  BY SendRanges DEF InFlight
<1> QED
  BY <1>1, Counts DEF DuplicatesExcused

\* A step that counts nothing, moves no head that is accepted and takes back no
\* delivered receipt.
LEMMA UncountedStep ==
  ASSUME IInv, DuplicatesExcused, UNCHANGED <<sent, excused>>,
         \A c \in Channels, i \in Positions :
           receipts[c][i].status = "delivered" => receipts'[c][i].status = "delivered",
         \A c \in Channels : step[c] = "accepted" =>
           \/ step'[c] = "accepted" /\ This(c)' = This(c)
           \/ receipts'[c][This(c)].status = "delivered"
  PROVE  DuplicatesExcused'
  BY DEF DuplicatesExcused

LEMMA AcceptExcused ==
  ASSUME IInv, DuplicatesExcused, NEW c \in Channels, Accept(c)
  PROVE  DuplicatesExcused'
<1>1. This(c) \in Positions /\ sent[c][This(c)] <= excused[c][This(c)]
  BY SendRanges, NotYetTaken DEF Accept, InFlight
<1>2. /\ UNCHANGED <<excused, receipts, chain>> /\ This(c)' = This(c)
      /\ sent' = [sent EXCEPT ![c][This(c)] = @ + 1] /\ step' = [step EXCEPT ![c] = "accepted"]
  BY DEF Accept, durable, This
<1> SUFFICES ASSUME NEW d \in Channels, NEW i \in Positions PROVE SentOnce(d, i)'
  BY DEF DuplicatesExcused, SentOnce
<1>3. SentOnce(d, i)
  BY DEF DuplicatesExcused, SentOnce
<1>4. CASE d = c /\ i = This(c)
  <2>1. sent'[d][i] = sent[d][i] + 1 /\ step'[d] = "accepted" /\ This(d)' = i
    BY <1>1, <1>2, <1>4 DEF IInv, TypeOK, QueuesOK, HistoryOK
  <2>2. sent[d][i] \in Nat /\ excused[d][i] \in Nat
    BY Counts
  <2> QED
    BY <1>1, <1>2, <1>4, <2>1, <2>2 DEF SentOnce
<1>5. CASE ~ (d = c /\ i = This(c))
  <2>1. sent'[d][i] = sent[d][i]
    BY <1>1, <1>2, <1>5 DEF IInv, TypeOK, HistoryOK
  <2>2. step[d] = "accepted" /\ This(d) = i => step'[d] = "accepted" /\ This(d)' = i
    BY <1>2 DEF IInv, TypeOK, QueuesOK, This
  <2> QED
    BY <1>2, <1>3, <2>1, <2>2 DEF SentOnce
<1> QED
  BY <1>4, <1>5

\* A rejected send that had got through is an excuse; any other one had not.
LEMMA SendRejectsExcused ==
  ASSUME IInv, DuplicatesExcused, NEW c \in Channels, SendRejects(c)
  PROVE  DuplicatesExcused'
<1>1. /\ This(c) \in Positions /\ receipts[c][This(c)].status # "delivered"
      /\ sent[c][This(c)] \in Nat /\ excused[c][This(c)] \in Nat
  BY SendRanges, Counts DEF SendRejects, InFlight
<1>2. /\ UNCHANGED <<sent, chain>> /\ step' = [step EXCEPT ![c] = "done"]
      /\ \A d \in Channels : This(d)' = This(d)
  BY DEF SendRejects, Settled, This
<1>3. /\ \A d \in Channels \ {c} : receipts'[d] = receipts[d]
      /\ \A i \in Positions \ {This(c)} : receipts'[c][i] = receipts[c][i]
  BY <1>1 DEF SendRejects, IInv, TypeOK, FilesOK
<1> SUFFICES ASSUME NEW d \in Channels, NEW i \in Positions PROVE SentOnce(d, i)'
  BY DEF DuplicatesExcused, SentOnce
<1>4. SentOnce(d, i) /\ sent[d][i] \in Nat /\ excused[d][i] \in Nat
  BY Counts DEF DuplicatesExcused, SentOnce
<1>5. CASE d = c /\ i = This(c)
  <2>1. CASE step[c] = "accepted"
    <3>1. excused'[d][i] = excused[d][i] + 1
      BY <1>1, <1>5, <2>1 DEF SendRejects, IInv, TypeOK, HistoryOK
    <3> QED
      BY <1>2, <1>4, <3>1 DEF SentOnce
  <2>2. CASE step[c] = "sending"
    <3>1. sent[d][i] <= excused[d][i] /\ excused' = excused
      BY <1>5, <2>2, NotYetTaken DEF SendRejects
    <3> QED
      BY <1>2, <1>4, <3>1 DEF SentOnce
  <2> QED
    BY <2>1, <2>2 DEF SendRejects
<1>6. CASE ~ (d = c /\ i = This(c))
  <2>1. excused'[d][i] = excused[d][i] /\ receipts'[d][i] = receipts[d][i]
    BY <1>1, <1>3, <1>6 DEF SendRejects, IInv, TypeOK, HistoryOK
  <2>2. step[d] = "accepted" /\ This(d) = i => step'[d] = "accepted" /\ This(d)' = i
    BY <1>2, <1>6 DEF IInv, TypeOK, QueuesOK
  <2> QED
    BY <1>2, <1>4, <2>1, <2>2 DEF SentOnce
<1> QED
  BY <1>5, <1>6

\* A skipped receipt over a delivered one is an excuse.
LEMMA SkipExcused ==
  ASSUME IInv, DuplicatesExcused, NEW c \in Channels, Skip(c)
  PROVE  DuplicatesExcused'
<1>1. This(c) \in Positions /\ step[c] = "idle"
  BY HeadRanges DEF Skip, Heads
<1>2. /\ UNCHANGED <<sent, chain>> /\ step' = [step EXCEPT ![c] = "done"]
      /\ \A d \in Channels : This(d)' = This(d)
  BY DEF Skip, Settled, This
<1> SUFFICES ASSUME NEW d \in Channels, NEW i \in Positions PROVE SentOnce(d, i)'
  BY DEF DuplicatesExcused, SentOnce
<1>3. SentOnce(d, i) /\ sent[d][i] \in Nat /\ excused[d][i] \in Nat
  BY Counts DEF DuplicatesExcused, SentOnce
<1>4. CASE d = c /\ i = This(c)
  <2>1. CASE receipts[c][i].status = "delivered" /\ sent[c][i] > excused[c][i]
    <3>1. excused'[d][i] = excused[d][i] + 1
      BY <1>1, <1>4, <2>1 DEF Skip, IInv, TypeOK, HistoryOK
    <3> QED
      BY <1>2, <1>3, <3>1 DEF SentOnce
  <2>2. CASE ~ (receipts[c][i].status = "delivered" /\ sent[c][i] > excused[c][i])
    <3>1. excused'[d][i] = excused[d][i] /\ sent[d][i] <= excused[d][i]
      BY <1>1, <1>3, <1>4, <2>2 DEF Skip, SentOnce
    <3> QED
      BY <1>2, <1>3, <3>1 DEF SentOnce
  <2> QED
    BY <2>1, <2>2
<1>5. CASE ~ (d = c /\ i = This(c))
  <2>1. excused'[d][i] = excused[d][i] /\ receipts'[d][i] = receipts[d][i]
    BY <1>1, <1>5 DEF Skip, IInv, TypeOK, FilesOK, HistoryOK
  <2>2. step[d] = "accepted" /\ This(d) = i => step'[d] = "accepted" /\ This(d)' = i
    BY <1>1, <1>2 DEF IInv, TypeOK, QueuesOK
  <2> QED
    BY <1>2, <1>3, <2>1, <2>2 DEF SentOnce
<1> QED
  BY <1>4, <1>5

\* So is a crash between an acceptance and its receipt.
LEMMA VanishExcused ==
  ASSUME IInv, DuplicatesExcused, Vanish
  PROVE  DuplicatesExcused'
<1>1. /\ UNCHANGED <<sent, receipts>>
      /\ \A c \in Channels, i \in Positions : excused'[c][i] =
           IF step[c] = "accepted" /\ i = This(c) THEN excused[c][i] + 1 ELSE excused[c][i]
  BY DEF Vanish, durable
<1> SUFFICES ASSUME NEW c \in Channels, NEW i \in Positions PROVE SentOnce(c, i)'
  BY DEF DuplicatesExcused, SentOnce
<1>2. SentOnce(c, i) /\ sent[c][i] \in Nat /\ excused[c][i] \in Nat
  BY Counts DEF DuplicatesExcused, SentOnce
<1> QED
  BY <1>1, <1>2 DEF SentOnce

----------------------------------------------------------------------------
(* What the chains look like after a step that lengthens them.             *)

Tried(c, i) == receipts[c][i].status # "none"
New(c) == (Len(chain[c]) + 1)..Len(chain'[c])

\* Every old entry is in its place, and the new ones are the positions after
\* the offset, one after the other, or a retry of what was tried before.
Lengthened(c) ==
  /\ chain'[c] \in Seq(Entry)
  /\ Len(chain[c]) <= Len(chain'[c])
  /\ \A k \in 1..Len(chain[c]) : chain'[c][k] = chain[c][k]
  /\ \/ \A k \in New(c) : /\ chain'[c][k].src # "retry"
                          /\ chain'[c][k].idx = offset[c] + (k - Len(chain[c]))
     \/ \A k \in New(c) : chain'[c][k].src = "retry" /\ Tried(c, chain'[c][k].idx)

QueuesLengthened ==
  /\ UNCHANGED <<log, receipts, saved, adopted, step, base, sent, excused>>
  /\ phase # "down"
  /\ \A c \in Channels : Lengthened(c)
  /\ \A r \in RunIds : todo'[r] \subseteq todo[r]

RetriesTried ==
  /\ \A r \in RunIds : \A x \in todo[r] : Tried(x[1], x[2])
  /\ \A c \in Channels : \A k \in 1..Len(chain[c]) :
       chain[c][k].src = "retry" => Tried(c, chain[c][k].idx)

LEMMA SameChain ==
  ASSUME IInv, NEW c \in Channels, chain'[c] = chain[c]
  PROVE  Lengthened(c)
<1>1. chain[c] \in Seq(Entry) /\ Len(chain[c]) \in Nat
  BY Ranges
<1>2. New(c) = {}
  BY <1>1 DEF New
<1> QED
  BY <1>1, <1>2 DEF Lengthened

LEMMA LiveLengthens ==
  ASSUME IInv, NEW c \in Channels,
         chain'[c] = chain[c] \o LiveEntries(offset[c], Len(log[c])),
         offset'[c] = Len(log[c])
  PROVE  Lengthened(c)
<1> DEFINE old == chain[c]
           from == offset[c]
           to == Len(log[c])
           new == LiveEntries(from, to)
<1>1. /\ chain'[c] \in Seq(Entry) /\ Len(old) <= Len(chain'[c])
      /\ \A k \in 1..Len(old) : chain'[c][k] = old[k]
  BY LiveRanges
<1>2. from \in Nat /\ to \in Nat /\ from <= to /\ old \in Seq(Entry) /\ Len(old) \in Nat
  BY Ranges, BoundsAssumption DEF IInv, PositionsInLog
<1>3. chain'[c] = old \o new
  OBVIOUS
<1> HIDE DEF from, to, old
<1>4. /\ to - from \in Nat /\ new \in Seq([idx : Nat, src : {"live"}, run : {NoRun}])
      /\ Len(new) = to - from
      /\ \A k \in 1..(to - from) : new[k].idx = from + k /\ new[k].src = "live"
  BY <1>2 DEF LiveEntries
<1> HIDE DEF new
<1>5. ASSUME NEW k \in (Len(old) + 1)..Len(chain'[c])
      PROVE  chain'[c][k].src # "retry" /\ chain'[c][k].idx = from + (k - Len(old))
  <2>1. /\ Len(old \o new) = Len(old) + Len(new)
        /\ \A j \in 1..Len(new) : (old \o new)[Len(old) + j] = new[j]
    BY SMTT(40), <1>2, <1>4
  <2>2. k - Len(old) \in 1..Len(new) /\ k = Len(old) + (k - Len(old))
    BY <1>2, <1>3, <1>4, <2>1
  <2>3. chain'[c][k] = new[k - Len(old)]
    BY <1>3, <2>1, <2>2
  <2> QED
    BY <1>4, <2>2, <2>3
<1> QED
  BY <1>1, <1>5 DEF Lengthened, New, old, from

\* DrainNext and RetryNext append one entry.
LEMMA OneLengthens ==
  ASSUME IInv, NEW c \in Channels, NEW e \in Entry, Enqueue(c, e),
         \/ e.src # "retry" /\ e.idx = offset[c] + 1
         \/ e.src = "retry" /\ Tried(c, e.idx)
  PROVE  \A d \in Channels : Lengthened(d)
<1>1. /\ chain' \in [Channels -> Seq(Entry)]
      /\ Len(chain'[c]) = Len(chain[c]) + 1 /\ chain'[c][Len(chain[c]) + 1] = e
      /\ \A k \in 1..Len(chain[c]) : chain'[c][k] = chain[c][k]
      /\ \A d \in Channels \ {c} : chain'[d] = chain[d]
  BY AppendRanges
<1>2. Len(chain[c]) \in Nat
  BY Ranges
<1>3. \A k \in New(c) : k = Len(chain[c]) + 1 /\ k - Len(chain[c]) = 1
  BY <1>1, <1>2 DEF New
<1>4. Lengthened(c)
  BY SMTT(40), <1>1, <1>2, <1>3 DEF Lengthened
<1> QED
  BY <1>1, <1>4, SameChain

LEMMA DrainNextLengthens ==
  ASSUME IInv, NEW c \in Channels, DrainNext(c)
  PROVE  QueuesLengthened
<1> DEFINE e == [idx |-> offset[c] + 1, src |-> "backlog", run |-> NoRun]
<1>1. offset[c] \in Nat /\ offset[c] + 1 \in Positions
  BY Ranges, BoundsAssumption DEF DrainNext, IInv, PositionsInLog, Positions
<1>2. e \in Entry /\ Enqueue(c, e) /\ e.src # "retry" /\ e.idx = offset[c] + 1
  BY <1>1 DEF Entry, DrainNext
<1> HIDE DEF e
<1>3. \A d \in Channels : Lengthened(d)
  BY <1>2, OneLengthens
<1> QED
  BY <1>3 DEF DrainNext, QueuesLengthened, durable, history

LEMMA RetryNextLengthens ==
  ASSUME IInv, RetriesTried,
         NEW r \in RunIds, NEW c \in Channels, NEW i \in Positions, RetryNext(r, c, i)
  PROVE  QueuesLengthened
<1> DEFINE e == [idx |-> i, src |-> "retry", run |-> r]
<1>1. Tried(c, i)
  BY DEF RetryNext, RetriesTried
<1>2. e \in Entry /\ Enqueue(c, e) /\ e.src = "retry" /\ e.idx = i
  BY DEF Entry, RetryNext
<1> HIDE DEF e
<1>3. \A d \in Channels : Lengthened(d)
  BY <1>1, <1>2, OneLengthens
<1>4. phase # "down"
  BY DEF RetryNext, IInv, WorkShape
<1>5. \A q \in RunIds : todo'[q] \subseteq todo[q]
  BY DEF RetryNext, IInv, TypeOK, RetriesOK
<1> QED
  BY <1>3, <1>4, <1>5 DEF RetryNext, QueuesLengthened, durable, history

LEMMA WatchEventLengthens ==
  ASSUME IInv, NEW c \in Channels, WatchEvent(c)
  PROVE  QueuesLengthened
<1>1. /\ chain'[c] = chain[c] \o LiveEntries(offset[c], Len(log[c]))
      /\ offset'[c] = Len(log[c])
      /\ \A d \in Channels \ {c} : chain'[d] = chain[d]
  BY DEF WatchEvent, IInv, TypeOK, QueuesOK
<1>2. \A d \in Channels : Lengthened(d)
  BY <1>1, LiveLengthens, SameChain
<1> QED
  BY <1>2 DEF WatchEvent, QueuesLengthened, durable, history

LEMMA StartLengthens ==
  ASSUME IInv, Start
  PROVE  QueuesLengthened
<1>1. \A d \in Channels :
        /\ chain'[d] = chain[d] \o LiveEntries(offset[d], Len(log[d]))
        /\ offset'[d] = Len(log[d])
  BY DEF Start
<1>2. \A d \in Channels : Lengthened(d)
  BY <1>1, LiveLengthens
<1> QED
  BY <1>2 DEF Start, QueuesLengthened, durable, history

\* The head of a lengthened chain stays.
LEMMA HeadStays ==
  ASSUME IInv, QueuesLengthened, NEW c \in Channels, chain[c] # <<>>
  PROVE  This(c)' = This(c)
<1>1. /\ chain[c] \in Seq(Entry) /\ Len(chain[c]) \in Nat /\ Len(chain[c]) >= 1
      /\ Head(chain[c]) = chain[c][1]
  BY Ranges
<1>2. chain'[c] \in Seq(Entry) /\ chain'[c] # <<>> /\ chain'[c][1] = chain[c][1]
  BY <1>1 DEF QueuesLengthened, Lengthened
<1> QED
  BY <1>1, <1>2, FirstEntry DEF This

----------------------------------------------------------------------------
(* The order of first tries.  FirstTriesInOrder is not inductive: that the *)
(* head of a chain may be tried rests on the order of the whole chain, and *)
(* on a retry being of something tried before.                             *)

\* Everything before a queued position is handled, or queued before it.
InTurn(c, k) ==
  \A i \in 1..(chain[c][k].idx - 1) : Handled(c, i) \/ \E j \in 1..(k - 1) : chain[c][j].idx = i
QueuesInOrder == \A c \in Channels : \A k \in 1..Len(chain[c]) : InTurn(c, k)

TriedInOrder ==
  \A c \in Channels, j \in Positions : Tried(c, j) => \A i \in 1..(j - 1) : Handled(c, i)

OrderInv == QueuesInOrder /\ RetriesTried /\ TriedInOrder

LEMMA InitOrder == Init => OrderInv
<1> SUFFICES ASSUME Init PROVE OrderInv
  OBVIOUS
<1>1. \A c \in Channels : Len(chain[c]) = 0 /\ \A i \in Positions : ~ Tried(c, i)
  BY DEF Init, NoReceipt, Tried
<1>2. \A r \in RunIds : todo[r] = {}
  BY DEF Init
<1> QED
  BY <1>1, <1>2 DEF OrderInv, QueuesInOrder, RetriesTried, TriedInOrder

\* The first of a chain: all before it are handled.
LEMMA HeadInTurn ==
  ASSUME IInv, QueuesInOrder, NEW c \in Channels, chain[c] # <<>>
  PROVE  \A i \in 1..(This(c) - 1) : Handled(c, i)
<1>1. /\ 1 \in 1..Len(chain[c]) /\ This(c) = chain[c][1].idx
  BY Ranges DEF This
<1>2. InTurn(c, 1)
  BY <1>1 DEF QueuesInOrder
<1> QED
  BY <1>1, <1>2 DEF InTurn

\* A step that leaves the queues, and gives a first receipt to the head of a
\* chain at most.
LEMMA StillOrder ==
  ASSUME IInv, OrderInv, UNCHANGED <<chain, todo, base>>,
         \A c \in Channels : \A i \in 1..Len(log[c]) : log'[c][i] = log[c][i],
         \A c \in Channels, i \in Positions :
           /\ Tried(c, i) => Tried(c, i)'
           /\ Tried(c, i)' => Tried(c, i) \/ (chain[c] # <<>> /\ i = This(c))
  PROVE  OrderInv'
<1>1. \A c \in Channels : \A i \in 1..Len(log[c]) : Handled(c, i) => Handled(c, i)'
  BY SMTT(40), Ranges DEF Handled, Known, Outbound, Tried
<1>2. ASSUME NEW c \in Channels, NEW k \in 1..Len(chain[c]) PROVE InTurn(c, k)'
  <2>1. InTurn(c, k) /\ chain[c][k].idx \in 1..Len(log[c]) /\ Len(log[c]) \in Nat
    BY Ranges, BoundsAssumption DEF OrderInv, QueuesInOrder
  <2> QED
    BY SMTT(40), <1>1, <2>1 DEF InTurn
<1>3. ASSUME NEW c \in Channels, NEW j \in Positions, Tried(c, j)'
      PROVE  \A i \in 1..(j - 1) : Handled(c, i)'
  <2>1. j \in Nat /\ j <= Len(log[c]) /\ Len(log[c]) \in Nat
    BY SMTT(40), <1>3, Ranges, BoundsAssumption DEF Tried, IInv, ReceiptsInLog, Positions, This
  <2>2. \A i \in 1..(j - 1) : Handled(c, i)
    BY <1>3, HeadInTurn DEF OrderInv, TriedInOrder
  <2> QED
    BY <1>1, <2>1, <2>2
<1>4. RetriesTried'
  <2>1. \A r \in RunIds : \A x \in todo[r] : x[1] \in Channels /\ x[2] \in Positions
    BY DEF IInv, TypeOK, RetriesOK
  <2>2. \A c \in Channels : \A k \in 1..Len(chain[c]) : chain[c][k].idx \in Positions
    BY Ranges
  <2> QED
    BY <2>1, <2>2 DEF OrderInv, RetriesTried
<1> QED
  BY <1>2, <1>3, <1>4 DEF OrderInv, QueuesInOrder, TriedInOrder

LEMMA LengthenedOrder ==
  ASSUME IInv, OrderInv, QueuesLengthened
  PROVE  OrderInv'
<1>1. \A c \in Channels : \A i :
        (Handled(c, i)' <=> Handled(c, i)) /\ (Tried(c, i)' <=> Tried(c, i))
  BY DEF QueuesLengthened, Handled, Known, Outbound, Tried
<1>2. ASSUME NEW c \in Channels, NEW k \in 1..Len(chain[c])
      PROVE  /\ InTurn(c, k)'
             /\ chain'[c][k].src = "retry" => Tried(c, chain'[c][k].idx)
  <2>1. \A j \in 1..Len(chain[c]) : chain'[c][j] = chain[c][j]
    BY DEF QueuesLengthened, Lengthened
  <2>2. InTurn(c, k) /\ k \in Nat /\ Len(chain[c]) \in Nat
    BY Ranges DEF OrderInv, QueuesInOrder
  <2> QED
    BY SMTT(40), <1>1, <2>1, <2>2 DEF InTurn, OrderInv, RetriesTried
<1>3. ASSUME NEW c \in Channels, NEW k \in New(c)
      PROVE  /\ InTurn(c, k)'
             /\ chain'[c][k].src = "retry" => Tried(c, chain'[c][k].idx)
  <2>1. /\ Len(chain[c]) \in Nat /\ Len(chain'[c]) \in Nat /\ offset[c] \in Nat
        /\ k \in 1..Len(chain'[c]) /\ k \in Nat
        /\ \A j \in 1..Len(chain[c]) : chain'[c][j] = chain[c][j] /\ j \in 1..(k - 1)
    BY Ranges DEF New, QueuesLengthened, Lengthened
  <2>2. CASE \A j \in New(c) : chain'[c][j].src = "retry" /\ Tried(c, chain'[c][j].idx)
    <3>1. Tried(c, chain'[c][k].idx) /\ chain'[c][k].idx \in Positions
      <4>1. chain'[c][k] \in Entry
        BY <2>1 DEF QueuesLengthened, Lengthened
      <4> QED
        BY <2>2, <4>1 DEF Entry
    <3>2. \A i \in 1..(chain'[c][k].idx - 1) : Handled(c, i)
      BY <3>1 DEF OrderInv, TriedInOrder
    <3> QED
      BY <1>1, <3>1, <3>2 DEF InTurn
  <2>3. CASE \A j \in New(c) : /\ chain'[c][j].src # "retry"
                              /\ chain'[c][j].idx = offset[c] + (j - Len(chain[c]))
    <3> SUFFICES ASSUME NEW i \in 1..(chain'[c][k].idx - 1)
                 PROVE  Handled(c, i) \/ \E j \in 1..(k - 1) : chain'[c][j].idx = i
      BY <1>1, <2>3 DEF InTurn
    <3>1. CASE i \in 1..offset[c]
      <4>1. Handled(c, i) \/ Waits(c, i)
        BY <3>1 DEF IInv, OffsetHandled, QueuesLengthened
      <4> QED
        BY <4>1, <2>1 DEF Waits
    <3>2. CASE i \notin 1..offset[c]
      <4> DEFINE j == Len(chain[c]) + (i - offset[c])
      <4>1. chain'[c][k].idx = offset[c] + (k - Len(chain[c]))
        BY <2>3
      <4>2. j \in New(c) /\ j \in 1..(k - 1) /\ offset[c] + (j - Len(chain[c])) = i
        <5> DEFINE old == Len(chain[c])
                   new == Len(chain'[c])
                   from == offset[c]
        <5>1. old \in Nat /\ new \in Nat /\ from \in Nat /\ k \in Nat /\ k <= new
          BY <2>1
        <5>2. i \in (from + 1)..(from + (k - old) - 1)
          BY <2>1, <3>2, <4>1
        <5> HIDE DEF old, new, from
        <5>3. /\ old + (i - from) \in (old + 1)..new /\ old + (i - from) \in 1..(k - 1)
              /\ from + ((old + (i - from)) - old) = i
          BY <5>1, <5>2
        <5> QED
          BY <5>3 DEF New, old, new, from
      <4>3. chain'[c][j].idx = i
        BY <2>3, <4>2
      <4> QED
        BY <4>2, <4>3
    <3> QED
      BY <3>1, <3>2
  <2> QED
    BY <2>2, <2>3 DEF QueuesLengthened, Lengthened
<1>4. \A c \in Channels : \A k \in 1..Len(chain'[c]) : k \in 1..Len(chain[c]) \/ k \in New(c)
  BY Ranges DEF New, QueuesLengthened, Lengthened
<1>5. QueuesInOrder' /\ RetriesTried'
  <2>1. \A r \in RunIds : \A x \in todo'[r] : x[1] \in Channels /\ Tried(x[1], x[2])
    BY DEF QueuesLengthened, OrderInv, RetriesTried, IInv, TypeOK, RetriesOK
  <2> QED
    BY <1>1, <1>2, <1>3, <1>4, <2>1 DEF QueuesInOrder, RetriesTried
<1>6. TriedInOrder'
  BY <1>1 DEF OrderInv, TriedInOrder
<1> QED
  BY <1>5, <1>6 DEF OrderInv

\* What leaves a chain is handled.
LEMMA FinishOrder ==
  ASSUME IInv, OrderInv, NEW c \in Channels, Finish(c)
  PROVE  OrderInv'
<1>1. /\ UNCHANGED <<log, receipts, todo, base>>
      /\ chain[c] # <<>> /\ Known(c, chain[c][1].idx)
      /\ \A d \in Channels \ {c} : chain'[d] = chain[d]
  BY DEF Finish, history, IInv, HeadInProgress, TypeOK, QueuesOK
<1>2. /\ Len(chain[c]) \in Nat /\ Len(chain'[c]) = Len(chain[c]) - 1
      /\ \A k \in 1..Len(chain'[c]) : chain'[c][k] = chain[c][k + 1]
  <2>1. chain'[c] = Tail(chain[c]) /\ chain[c] \in Seq(Entry)
    BY DEF Finish, IInv, TypeOK, QueuesOK
  <2> QED
    BY <1>1, <2>1, TailEntries
<1>3. \A d \in Channels : \A i :
        (Handled(d, i)' <=> Handled(d, i)) /\ (Tried(d, i)' <=> Tried(d, i))
  BY <1>1 DEF Handled, Known, Outbound, Tried
<1>4. ASSUME NEW k \in 1..Len(chain'[c])
      PROVE  /\ InTurn(c, k)'
             /\ chain'[c][k].src = "retry" => Tried(c, chain'[c][k].idx)
  <2>1. k + 1 \in 1..Len(chain[c]) /\ k \in Nat /\ chain'[c][k] = chain[c][k + 1]
    BY <1>2
  <2>2. InTurn(c, k + 1)
    BY <2>1 DEF OrderInv, QueuesInOrder
  <2> SUFFICES ASSUME NEW i \in 1..(chain[c][k + 1].idx - 1)
               PROVE  Handled(c, i) \/ \E j \in 1..(k - 1) : chain'[c][j].idx = i
    BY <1>3, <2>1 DEF InTurn, OrderInv, RetriesTried
  <2>3. CASE Handled(c, i)
    BY <2>3
  <2>4. ASSUME NEW j \in 1..k, chain[c][j].idx = i
        PROVE  Handled(c, i) \/ \E l \in 1..(k - 1) : chain'[c][l].idx = i
    <3>1. CASE j = 1
      BY <1>1, <2>4, <3>1 DEF Handled
    <3>2. CASE j # 1
      <4>1. j - 1 \in 1..(k - 1) /\ j - 1 \in 1..Len(chain'[c]) /\ (j - 1) + 1 = j
        BY <1>2, <2>1, <3>2
      <4> QED
        BY <1>2, <2>4, <4>1
    <3> QED
      BY <3>1, <3>2
  <2> QED
    BY <2>1, <2>2, <2>3, <2>4 DEF InTurn
<1>5. ASSUME NEW d \in Channels \ {c}, NEW k \in 1..Len(chain'[d])
      PROVE  /\ InTurn(d, k)'
             /\ chain'[d][k].src = "retry" => Tried(d, chain'[d][k].idx)
  BY <1>1, <1>3 DEF OrderInv, QueuesInOrder, InTurn, RetriesTried
<1>6. QueuesInOrder' /\ RetriesTried'
  <2>1. \A r \in RunIds : \A x \in todo[r] : x[1] \in Channels
    BY DEF IInv, TypeOK, RetriesOK
  <2> QED
    BY <1>1, <1>3, <1>4, <1>5, <2>1 DEF QueuesInOrder, RetriesTried, OrderInv
<1>7. TriedInOrder'
  BY <1>3 DEF OrderInv, TriedInOrder
<1> QED
  BY <1>6, <1>7 DEF OrderInv

----------------------------------------------------------------------------
(* The steps that write a receipt, and those that write none.              *)

Outcome == {"skipped", "retrying", "delivered", "failed"}

LEMMA ReceiptWritten ==
  ASSUME IInv, NEW c \in Channels, Skip(c) \/ SendResolves(c) \/ SendRejects(c)
  PROVE  /\ UNCHANGED <<log, saved, adopted, chain, todo, base>>
         /\ chain[c] # <<>> /\ This(c) \in Positions
         /\ \A d \in Channels \ {c} : receipts'[d] = receipts[d]
         /\ \A i \in Positions \ {This(c)} : receipts'[c][i] = receipts[c][i]
         /\ receipts'[c][This(c)].status \in Outcome
         /\ receipts[c][This(c)].status \in {"delivered", "failed"} =>
              receipts'[c][This(c)].status = "skipped"
<1>1. receipts \in [Channels -> [Positions -> Receipt]]
  BY DEF IInv, TypeOK, FilesOK
<1>2. CASE Skip(c)
  <2>1. chain[c] # <<>> /\ This(c) \in Positions
    BY <1>2, HeadRanges DEF Skip, Heads
  <2> QED
    BY <1>1, <1>2, <2>1 DEF Skip, Outcome
<1>3. CASE SendResolves(c) \/ SendRejects(c)
  <2>1. /\ chain[c] # <<>> /\ This(c) \in Positions
        /\ receipts[c][This(c)].status \notin {"delivered", "failed"}
    BY <1>3, SendRanges DEF SendResolves, SendRejects, InFlight
  <2>2. CASE SendResolves(c)
    BY <1>1, <2>1, <2>2 DEF SendResolves, history, Outcome
  <2>3. CASE SendRejects(c)
    BY <1>1, <2>1, <2>3 DEF SendRejects, Outcome
  <2> QED
    BY <1>3, <2>2, <2>3
<1> QED
  BY <1>2, <1>3

\* Nothing of the queues or the receipts changes.
Idle == UNCHANGED <<log, receipts, chain, todo, base>>

LEMMA IdleOrder ==
  ASSUME IInv, OrderInv, Idle
  PROVE  OrderInv'
  BY StillOrder DEF Idle, Tried

LEMMA PublishOrder ==
  ASSUME IInv, OrderInv, NEW c \in Channels, NEW m \in Messages, Publish(c, m)
  PROVE  OrderInv'
<1>1. \A d \in Channels : \A i \in 1..Len(log[d]) : log'[d][i] = log[d][i]
  BY Ranges DEF Publish, IInv, TypeOK, FilesOK
<1> QED
  BY <1>1, StillOrder DEF Publish, process, history, Tried

LEMMA ElapseStatus ==
  ASSUME IInv, NEW c \in Channels, NEW i \in Positions, Elapse(c, i)
  PROVE  \A d \in Channels, j \in Positions : receipts'[d][j].status = receipts[d][j].status
  BY DEF Elapse, IInv, TypeOK, FilesOK, Receipt

LEMMA ElapseOrder ==
  ASSUME IInv, OrderInv, NEW c \in Channels, NEW i \in Positions, Elapse(c, i)
  PROVE  OrderInv'
  BY ElapseStatus, StillOrder DEF Elapse, process, history, Tried

LEMMA ReceiptOrder ==
  ASSUME IInv, OrderInv, NEW c \in Channels, Skip(c) \/ SendResolves(c) \/ SendRejects(c)
  PROVE  OrderInv'
<1>1. \A d \in Channels, i \in Positions :
        /\ Tried(d, i) => Tried(d, i)'
        /\ Tried(d, i)' => Tried(d, i) \/ (chain[d] # <<>> /\ i = This(d))
  BY ReceiptWritten DEF Tried, Outcome
<1> QED
  BY <1>1, ReceiptWritten, StillOrder

\* The first start covers the history by base; there is no chain yet.
LEMMA BootstrapOrder ==
  ASSUME IInv, OrderInv, Bootstrap
  PROVE  OrderInv'
<1>1. /\ UNCHANGED <<receipts, chain, todo, log>>
      /\ \A c \in Channels : chain[c] = <<>> /\ base'[c] = Len(log[c]) /\ Len(log[c]) \in Nat
  BY Ranges, BoundsAssumption DEF Bootstrap, IInv, PhaseShape
<1>2. QueuesInOrder' /\ RetriesTried'
  BY <1>1 DEF OrderInv, QueuesInOrder, RetriesTried, Tried
<1>3. ASSUME NEW c \in Channels, NEW j \in Positions, Tried(c, j)
      PROVE  \A i \in 1..(j - 1) : Handled(c, i)'
  BY <1>1, <1>3 DEF IInv, ReceiptsInLog, Tried, Handled, Positions
<1> QED
  BY <1>1, <1>2, <1>3 DEF OrderInv, TriedInOrder, Tried

LEMMA RetryFireOrder ==
  ASSUME IInv, OrderInv, NEW r \in RunIds, RetryFire(r)
  PROVE  OrderInv'
<1>1. UNCHANGED <<log, receipts, chain, base>> /\ todo' = [todo EXCEPT ![r] = DueMessages]
  BY DEF RetryFire, durable, history
<1>2. \A c \in Channels : \A i :
        (Handled(c, i)' <=> Handled(c, i)) /\ (Tried(c, i)' <=> Tried(c, i))
  BY <1>1 DEF Handled, Known, Outbound, Tried
<1>3. QueuesInOrder' /\ TriedInOrder'
  BY <1>1, <1>2 DEF OrderInv, QueuesInOrder, InTurn, TriedInOrder
<1>4. ASSUME NEW q \in RunIds, NEW x \in todo'[q] PROVE Tried(x[1], x[2])
  <2>1. x \in todo[q] \/ x \in DueMessages
    BY <1>1, <1>4 DEF IInv, TypeOK, RetriesOK
  <2> QED
    BY <2>1 DEF OrderInv, RetriesTried, DueMessages, Tried
<1> QED
  BY <1>1, <1>3, <1>4 DEF OrderInv, RetriesTried, Tried

LEMMA VanishOrder ==
  ASSUME IInv, OrderInv, Vanish
  PROVE  OrderInv'
<1>1. /\ UNCHANGED <<log, receipts, base>>
      /\ \A c \in Channels : Len(chain'[c]) = 0
      /\ \A r \in RunIds : todo'[r] = {}
  BY DEF Vanish, durable
<1>2. TriedInOrder'
  BY <1>1 DEF OrderInv, TriedInOrder, Tried, Handled, Known, Outbound
<1> QED
  BY <1>1, <1>2 DEF OrderInv, QueuesInOrder, RetriesTried

----------------------------------------------------------------------------
(* The cursors, and what is sent, as the abstract promise needs them.      *)

CursorsGrow ==
  /\ \A c \in Channels : base[c] <= saved[c]
  /\ phase # "down" => adopted /\ \A c \in Channels : saved[c] <= offset[c]
SendsEligible == \A c \in Channels : InFlight(c) => Outbound(c, This(c))
PromiseInv == CursorsGrow /\ SendsEligible

LEMMA InitPromise == Init => PromiseInv
  BY DEF Init, PromiseInv, CursorsGrow, SendsEligible, InFlight

\* A step that leaves cursors and phase, and adds no send.
LEMMA NoSendPromise ==
  ASSUME IInv, PromiseInv, UNCHANGED <<saved, adopted, base, offset, phase>>,
         \A c \in Channels : \A i \in 1..Len(log[c]) : log'[c][i] = log[c][i],
         \A c \in Channels : InFlight(c)' =>
            \/ InFlight(c) /\ This(c)' = This(c)
            \/ Outbound(c, This(c))'
  PROVE  PromiseInv'
<1>1. \A c \in Channels : InFlight(c) => This(c) \in 1..Len(log[c])
  BY Ranges DEF IInv, HeadInProgress, InFlight, This
<1>2. CursorsGrow'
  BY DEF PromiseInv, CursorsGrow
<1>3. SendsEligible'
  BY <1>1 DEF PromiseInv, SendsEligible, Outbound
<1> QED
  BY <1>2, <1>3 DEF PromiseInv

\* A step that sends nothing new and keeps every head that is being sent.
SendsStay ==
  /\ UNCHANGED log
  /\ \A c \in Channels : InFlight(c)' => InFlight(c) /\ This(c)' = This(c)

LEMMA SendsStayEligible ==
  ASSUME PromiseInv, SendsStay
  PROVE  SendsEligible'
  BY DEF PromiseInv, SendsEligible, SendsStay, Outbound

LEMMA LengthenedSendsStay ==
  ASSUME IInv, QueuesLengthened
  PROVE  SendsStay
<1>1. UNCHANGED <<log, step>>
  BY DEF QueuesLengthened
<1>2. \A c \in Channels : InFlight(c) => chain[c] # <<>>
  BY DEF IInv, HeadInProgress, InFlight
<1> QED
  BY <1>1, <1>2, HeadStays DEF SendsStay, InFlight

\* Publications, and what does not touch the queues.
LEMMA QuietPromise ==
  ASSUME IInv, PromiseInv,
         \/ \E c \in Channels, m \in Messages : Publish(c, m)
         \/ UNCHANGED <<log, chain, step>>,
         UNCHANGED <<saved, adopted, base, offset, phase>>
  PROVE  PromiseInv'
<1>1. CASE \E c \in Channels, m \in Messages : Publish(c, m)
  <2>1. /\ UNCHANGED <<chain, step>>
        /\ \A d \in Channels : \A i \in 1..Len(log[d]) : log'[d][i] = log[d][i]
    BY <1>1, Ranges DEF Publish, process, IInv, TypeOK, FilesOK
  <2> QED
    BY <2>1, NoSendPromise DEF InFlight, This
<1>2. CASE UNCHANGED <<log, chain, step>>
  BY <1>2, NoSendPromise DEF InFlight, This
<1> QED
  BY <1>1, <1>2

LEMMA HeadPromise ==
  ASSUME IInv, PromiseInv, NEW c \in Channels,
         ProcessStep(c) \/ Accept(c) \/ SendResolves(c) \/ SendRejects(c)
  PROVE  PromiseInv'
<1>1. /\ UNCHANGED <<log, chain, saved, adopted, base, offset, phase>>
      /\ \A d \in Channels \ {c} : step'[d] = step[d]
      /\ InFlight(c)' => InFlight(c) \/ Outbound(c, This(c))
  BY DEF ProcessStep, Ignore, Skip, AlreadySettled, TooEarly, BeginSend, Accept, SendResolves,
         SendRejects, Settled, durable, history, IInv, TypeOK, QueuesOK, InFlight
<1>2. \A d \in Channels : This(d)' = This(d) /\ (Outbound(d, This(d))' <=> Outbound(d, This(d)))
  BY <1>1 DEF This, Outbound
<1> QED
  BY <1>1, <1>2, NoSendPromise DEF InFlight

LEMMA CursorPromise ==
  ASSUME IInv, PromiseInv, Startup \/ Shutdown \/ \E c \in Channels : WatchEvent(c) \/ Finish(c)
  PROVE  PromiseInv'
<1>1. \A c \in Channels : /\ base[c] \in Nat /\ saved[c] \in Nat /\ offset[c] \in Nat
                         /\ Len(log[c]) \in Nat /\ offset[c] <= Len(log[c])
  BY Ranges, BoundsAssumption DEF IInv, PositionsInLog
<1> USE DEF CursorsGrow, durable, history
<1>2. CASE Bootstrap
  <2>1. CursorsGrow'
    BY <1>1, <1>2 DEF Bootstrap
  <2>2. SendsStay
    BY <1>2 DEF Bootstrap, SendsStay, InFlight, This
  <2> QED
    BY <2>1, <2>2, SendsStayEligible DEF PromiseInv
<1>3. CASE DrainBegin
  <2>1. CursorsGrow'
    BY <1>1, <1>3 DEF DrainBegin, PromiseInv
  <2>2. SendsStay
    BY <1>3 DEF DrainBegin, SendsStay, InFlight, This
  <2> QED
    BY <2>1, <2>2, SendsStayEligible DEF PromiseInv
<1>4. ASSUME NEW c \in Channels, DrainNext(c) PROVE PromiseInv'
  <2>1. CursorsGrow'
    BY SMTT(40), <1>1, <1>4 DEF DrainNext, PromiseInv, IInv, TypeOK, QueuesOK
  <2> QED
    BY <1>4, <2>1, DrainNextLengthens, LengthenedSendsStay, SendsStayEligible DEF PromiseInv
<1>5. CASE DrainEnd
  <2>1. CursorsGrow'
    BY <1>1, <1>5 DEF DrainEnd, PromiseInv
  <2>2. SendsStay
    BY <1>5 DEF DrainEnd, SendsStay, InFlight, This
  <2> QED
    BY <2>1, <2>2, SendsStayEligible DEF PromiseInv
<1>6. CASE Start
  <2>1. CursorsGrow'
    BY SMTT(40), <1>1, <1>6 DEF Start, PromiseInv
  <2> QED
    BY <1>6, <2>1, StartLengthens, LengthenedSendsStay, SendsStayEligible DEF PromiseInv
<1>7. ASSUME NEW c \in Channels, WatchEvent(c) PROVE PromiseInv'
  <2>1. CursorsGrow'
    BY SMTT(40), <1>1, <1>7 DEF WatchEvent, PromiseInv, IInv, TypeOK, QueuesOK
  <2> QED
    BY <1>7, <2>1, WatchEventLengthens, LengthenedSendsStay, SendsStayEligible DEF PromiseInv
<1>8. ASSUME NEW c \in Channels, Finish(c) PROVE PromiseInv'
  <2>1. CursorsGrow'
    BY <1>1, <1>8 DEF Finish, Watching, PromiseInv
  <2>2. SendsStay
    BY <1>8 DEF Finish, SendsStay, InFlight, This, IInv, TypeOK, QueuesOK
  <2> QED
    BY <2>1, <2>2, SendsStayEligible DEF PromiseInv
<1>9. CASE Stop \/ StopSave
  <2>1. CursorsGrow'
    BY <1>1, <1>9 DEF Stop, StopSave, PromiseInv
  <2>2. SendsStay
    BY <1>9 DEF Stop, StopSave, SendsStay, InFlight, This
  <2> QED
    BY <2>1, <2>2, SendsStayEligible DEF PromiseInv
<1>10. CASE Vanish
  <2>1. CursorsGrow'
    BY <1>10 DEF Vanish, PromiseInv
  <2>2. SendsStay
    BY <1>10 DEF Vanish, SendsStay, InFlight
  <2> QED
    BY <2>1, <2>2, SendsStayEligible DEF PromiseInv
<1> QED
  BY <1>2, <1>3, <1>4, <1>5, <1>6, <1>7, <1>8, <1>9, <1>10 DEF Startup, Shutdown, Exit, Crash

----------------------------------------------------------------------------
(* Every step keeps the three invariants.                                  *)

LEMMA NextOrder == IInv /\ OrderInv /\ [Next]_vars => OrderInv'
<1> SUFFICES ASSUME IInv, OrderInv, [Next]_vars PROVE OrderInv'
  OBVIOUS
<1> USE DEF durable, process, history
<1>1. CASE Environment
  <2>1. ASSUME NEW c \in Channels, NEW b \in {"none", "chat", "invalid"}, Rebind(c, b)
        PROVE  OrderInv'
    BY <2>1, IdleOrder DEF Rebind, Idle
  <2> QED
    BY <1>1, <2>1, PublishOrder DEF Environment
<1>2. CASE \E c \in Channels, i \in Positions : Elapse(c, i)
  BY <1>2, ElapseOrder
<1>3. CASE Startup
  <2>1. CASE DrainBegin \/ DrainEnd
    BY <2>1, IdleOrder DEF DrainBegin, DrainEnd, Idle
  <2>2. CASE Bootstrap
    BY <2>2, BootstrapOrder
  <2>3. CASE Start \/ \E c \in Channels : DrainNext(c)
    BY <2>3, StartLengthens, DrainNextLengthens, LengthenedOrder
  <2> QED
    BY <1>3, <2>1, <2>2, <2>3 DEF Startup
<1>4. ASSUME NEW c \in Channels, Dispatch(c) PROVE OrderInv'
  <2>1. CASE Ignore(c) \/ AlreadySettled(c) \/ TooEarly(c) \/ BeginSend(c) \/ Accept(c)
    BY <2>1, IdleOrder DEF Ignore, AlreadySettled, TooEarly, BeginSend, Accept, Idle
  <2>2. CASE Skip(c) \/ SendResolves(c) \/ SendRejects(c)
    BY <2>2, ReceiptOrder
  <2>3. CASE WatchEvent(c)
    BY <2>3, WatchEventLengthens, LengthenedOrder
  <2>4. CASE Finish(c)
    BY <2>4, FinishOrder
  <2> QED
    BY <1>4, <2>1, <2>2, <2>3, <2>4 DEF Dispatch, ProcessStep
<1>5. ASSUME NEW r \in RunIds, Retry(r) PROVE OrderInv'
  <2>1. CASE RetryEnd(r)
    BY <2>1, IdleOrder DEF RetryEnd, Idle
  <2>2. ASSUME NEW c \in Channels, NEW i \in Positions, RetryNext(r, c, i) PROVE OrderInv'
    BY <2>2, RetryNextLengthens, LengthenedOrder DEF OrderInv
  <2> QED
    BY <1>5, <2>1, <2>2, RetryFireOrder DEF Retry
<1>6. CASE Shutdown
  <2>1. CASE Stop \/ StopSave
    BY <2>1, IdleOrder DEF Stop, StopSave, Idle
  <2> QED
    BY <1>6, <2>1, VanishOrder DEF Shutdown, Exit, Crash
<1>7. CASE UNCHANGED vars
  BY <1>7, IdleOrder DEF vars, Idle
<1> QED
  BY <1>1, <1>2, <1>3, <1>4, <1>5, <1>6, <1>7 DEF Next

LEMMA NextPromise == IInv /\ OrderInv /\ PromiseInv /\ [Next]_vars => PromiseInv'
<1> SUFFICES ASSUME IInv, OrderInv, PromiseInv, [Next]_vars PROVE PromiseInv'
  OBVIOUS
<1> USE DEF durable, process, history
<1>1. CASE Environment
  <2>1. ASSUME NEW c \in Channels, NEW b \in {"none", "chat", "invalid"}, Rebind(c, b)
        PROVE  PromiseInv'
    BY <2>1, QuietPromise DEF Rebind
  <2>2. ASSUME NEW c \in Channels, NEW m \in Messages, Publish(c, m) PROVE PromiseInv'
    BY <2>2, QuietPromise DEF Publish
  <2> QED
    BY <1>1, <2>1, <2>2 DEF Environment
<1>2. ASSUME NEW c \in Channels, NEW i \in Positions, Elapse(c, i) PROVE PromiseInv'
  BY <1>2, QuietPromise DEF Elapse
<1>3. ASSUME NEW c \in Channels, Dispatch(c) PROVE PromiseInv'
  BY <1>3, HeadPromise, CursorPromise DEF Dispatch
<1>4. ASSUME NEW r \in RunIds, Retry(r) PROVE PromiseInv'
  <2>1. CASE RetryFire(r) \/ RetryEnd(r)
    BY <2>1, QuietPromise DEF RetryFire, RetryEnd
  <2>2. ASSUME NEW c \in Channels, NEW i \in Positions, RetryNext(r, c, i) PROVE PromiseInv'
    <3>1. SendsStay
      BY <2>2, RetryNextLengthens, LengthenedSendsStay DEF OrderInv
    <3>2. CursorsGrow'
      BY <2>2 DEF RetryNext, PromiseInv, CursorsGrow
    <3> QED
      BY <3>1, <3>2, SendsStayEligible DEF PromiseInv
  <2> QED
    BY <1>4, <2>1, <2>2 DEF Retry
<1>5. CASE UNCHANGED vars
  BY <1>5, QuietPromise DEF vars
<1> QED
  BY <1>1, <1>2, <1>3, <1>4, <1>5, CursorPromise DEF Next

LEMMA NextExcused ==
  IInv /\ RetriesTried /\ DuplicatesExcused /\ [Next]_vars => DuplicatesExcused'
<1> SUFFICES ASSUME IInv, RetriesTried, DuplicatesExcused, [Next]_vars PROVE DuplicatesExcused'
  OBVIOUS
<1> USE DEF durable, process, history
\* A step that leaves sends, receipts and queues as they are.
<1>0. ASSUME UNCHANGED <<sent, excused, chain>>,
             \A c \in Channels : step[c] = "accepted" => step'[c] = "accepted",
             \A c \in Channels, i \in Positions :
               receipts'[c][i].status = receipts[c][i].status
      PROVE  DuplicatesExcused'
  BY <1>0, UncountedStep DEF This
<1>L. ASSUME QueuesLengthened PROVE DuplicatesExcused'
  <2>1. \A c \in Channels : step[c] = "accepted" => step'[c] = "accepted" /\ This(c)' = This(c)
    BY <1>L, HeadStays DEF QueuesLengthened, IInv, HeadInProgress
  <2> QED
    BY <1>L, <2>1, UncountedStep DEF QueuesLengthened
<1>1. CASE Environment
  BY <1>1, <1>0 DEF Environment, Publish, Rebind
<1>2. ASSUME NEW c \in Channels, NEW i \in Positions, Elapse(c, i) PROVE DuplicatesExcused'
  BY <1>2, <1>0, ElapseStatus DEF Elapse
<1>3. CASE Startup
  <2>1. CASE Bootstrap \/ DrainBegin \/ DrainEnd
    BY <2>1, <1>0 DEF Bootstrap, DrainBegin, DrainEnd
  <2> QED
    BY <1>3, <2>1, <1>L, StartLengthens, DrainNextLengthens DEF Startup
<1>4. ASSUME NEW c \in Channels, Dispatch(c) PROVE DuplicatesExcused'
  <2>1. CASE Ignore(c) \/ AlreadySettled(c) \/ TooEarly(c) \/ BeginSend(c)
    <3>1. /\ UNCHANGED <<sent, excused, chain, receipts>>
          /\ \A d \in Channels \ {c} : step'[d] = step[d]
          /\ step[c] = "idle"
      BY <2>1 DEF Ignore, AlreadySettled, TooEarly, BeginSend, Heads, Settled, IInv, TypeOK, QueuesOK
    <3> QED
      BY <3>1, <1>0
  <2>2. CASE SendResolves(c)
    <3>1. /\ UNCHANGED <<sent, excused, chain>>
          /\ \A d \in Channels \ {c} : step'[d] = step[d]
          /\ \A d \in Channels, i \in Positions : receipts[d][i].status = "delivered" =>
               receipts'[d][i].status = "delivered"
          /\ receipts'[c][This(c)].status = "delivered"
      <4>1. This(c) \in Positions /\ receipts \in [Channels -> [Positions -> Receipt]]
        BY <2>2, SendRanges DEF SendResolves, InFlight, IInv, TypeOK, FilesOK
      <4> QED
        BY <2>2, <4>1 DEF SendResolves, Settled, IInv, TypeOK, QueuesOK
    <3> QED
      BY <3>1, UncountedStep DEF This
  <2>3. CASE Finish(c)
    <3>1. /\ UNCHANGED <<sent, excused, receipts>> /\ step[c] = "done"
          /\ \A d \in Channels \ {c} : step'[d] = step[d] /\ This(d)' = This(d)
      BY <2>3 DEF Finish, This, IInv, TypeOK, QueuesOK
    <3> QED
      BY <3>1, UncountedStep
  <2> QED
    BY <1>4, <2>1, <2>2, <2>3, <1>L, WatchEventLengthens, SkipExcused, AcceptExcused,
       SendRejectsExcused DEF Dispatch, ProcessStep
<1>5. ASSUME NEW r \in RunIds, Retry(r) PROVE DuplicatesExcused'
  <2>1. CASE RetryFire(r) \/ RetryEnd(r)
    BY <2>1, <1>0 DEF RetryFire, RetryEnd
  <2> QED
    BY <1>5, <2>1, <1>L, RetryNextLengthens DEF Retry
<1>6. CASE Shutdown
  <2>1. CASE Stop \/ StopSave
    BY <2>1, <1>0 DEF Stop, StopSave
  <2> QED
    BY <1>6, <2>1, VanishExcused DEF Shutdown, Exit, Crash
<1>7. CASE UNCHANGED vars
  BY <1>7, <1>0 DEF vars
<1> QED
  BY <1>1, <1>2, <1>3, <1>4, <1>5, <1>6, <1>7 DEF Next

----------------------------------------------------------------------------
(* The refinement, a step at a time.                                       *)

LEMMA InitRefines == Init => Promise!Init
  BY DEF Init, NoReceipt, Positions, Promise!Init

\* The two modules agree on what is for delivery.
LEMMA SameEligibility ==
  ASSUME NEW m PROVE ShouldDeliverOutbound(m) <=> Promise!ForDelivery(m)
  BY DEF ShouldDeliverOutbound, IsCommandWatchEmission, Promise!ForDelivery

LEMMA ReceiptSettles ==
  ASSUME IInv, PromiseInv, NEW c \in Channels, Skip(c) \/ SendResolves(c) \/ SendRejects(c)
  PROVE  Promise!Settle(c, This(c), receipts'[c][This(c)].status)
<1>1. /\ UNCHANGED <<log, saved, adopted, base>>
      /\ This(c) \in Positions /\ This(c) \in 1..Len(log[c])
      /\ \A d \in Channels \ {c} : receipts'[d] = receipts[d]
      /\ \A i \in Positions \ {This(c)} : receipts'[c][i] = receipts[c][i]
      /\ receipts'[c][This(c)].status \in Outcome
      /\ receipts[c][This(c)].status \in {"delivered", "failed"} =>
           receipts'[c][This(c)].status = "skipped"
  BY ReceiptWritten, Ranges DEF This
<1>2. Promise!ForDelivery(log[c][This(c)])
  <2>1. Outbound(c, This(c))
    BY DEF Skip, SendResolves, SendRejects, PromiseInv, SendsEligible, InFlight
  <2> QED
    BY <2>1, SameEligibility DEF Outbound
<1>3. [d \in Channels |-> [i \in Positions |-> receipts'[d][i].status]]
        = [[d \in Channels |-> [i \in Positions |-> receipts[d][i].status]]
             EXCEPT ![c][This(c)] = receipts'[c][This(c)].status]
  BY ZenonT(60), <1>1
<1> QED
  BY <1>1, <1>2, <1>3 DEF Promise!Settle, Promise!Outcomes, Outcome

\* What the abstract module sees does not change.
Unseen ==
  /\ UNCHANGED <<log, saved, adopted, base>>
  /\ \A c \in Channels, i \in Positions : receipts'[c][i].status = receipts[c][i].status

LEMMA UnseenStutters ==
  ASSUME Unseen
  PROVE  UNCHANGED Promise!pvars
<1>1. [c \in Channels |-> [i \in Positions |-> receipts'[c][i].status]]
        = [c \in Channels |-> [i \in Positions |-> receipts[c][i].status]]
  BY DEF Unseen
<1> QED
  BY <1>1 DEF Unseen, Promise!pvars

LEMMA BootstrapAdopts ==
  ASSUME Bootstrap
  PROVE  Promise!Adopt
  BY DEF Bootstrap, Promise!Adopt

\* The cursors move over what is handled only.
LEMMA CursorsAcknowledge ==
  ASSUME IInv, IInv', PromiseInv, phase # "down", saved' \in {offset, saved},
         UNCHANGED <<log, receipts, adopted, base>>
  PROVE  [Promise!Next]_(Promise!pvars)
<1>1. CASE saved' = saved
  BY <1>1, UnseenStutters DEF Unseen
<1>2. CASE saved' = offset
  <2>1. /\ adopted /\ saved' \in [Channels -> 0..MaxLog]
        /\ \A c \in Channels : saved[c] <= saved'[c] /\ saved'[c] <= Len(log[c])
    BY <1>2 DEF IInv, TypeOK, QueuesOK, PositionsInLog, PromiseInv, CursorsGrow
  <2>2. ASSUME NEW c \in Channels, NEW i \in (saved[c] + 1)..saved'[c]
        PROVE  /\ i \in Positions /\ ~ i <= base[c]
               /\ Known(c, i)
    <3>1. /\ saved[c] \in Nat /\ saved'[c] \in 0..MaxLog /\ base[c] \in Nat
          /\ base[c] <= saved[c] /\ MaxLog \in Nat
      BY <1>2, Ranges, BoundsAssumption DEF IInv, TypeOK, FilesOK, QueuesOK, HistoryOK,
         PromiseInv, CursorsGrow
    <3>2. i \in Positions /\ i \in 1..saved'[c] /\ ~ i <= base[c]
      BY <3>1 DEF Positions
    <3>3. Handled(c, i)'
      BY <3>2 DEF IInv, SavedHandled
    <3> QED
      BY <3>2, <3>3 DEF Handled, Known, Outbound
  <2>3. \A c \in Channels : \A i \in (saved[c] + 1)..saved'[c] :
          Promise!ForDelivery(log[c][i]) =>
            [d \in Channels |-> [j \in Positions |-> receipts[d][j].status]][c][i] # "none"
    BY <2>2, SameEligibility DEF Known, Outbound
  <2>4. [c \in Channels |-> [i \in Positions |-> receipts'[c][i].status]]
          = [c \in Channels |-> [i \in Positions |-> receipts[c][i].status]]
    OBVIOUS
  <2> QED
    BY <2>1, <2>3, <2>4 DEF Promise!Next, Promise!Acknowledge, Promise!Known
<1> QED
  BY <1>1, <1>2

LEMMA NextRefines ==
  IInv /\ IInv' /\ PromiseInv /\ [Next]_vars => [Promise!Next]_(Promise!pvars)
<1> SUFFICES ASSUME IInv, IInv', PromiseInv, [Next]_vars
             PROVE  [Promise!Next]_(Promise!pvars)
  OBVIOUS
<1> USE DEF durable, process, history
<1>0. ASSUME UNCHANGED <<log, receipts, saved, adopted, base>>
      PROVE  [Promise!Next]_(Promise!pvars)
  BY <1>0, UnseenStutters DEF Unseen
<1>1. CASE Environment
  <2>1. ASSUME NEW c \in Channels, NEW m \in Messages, Publish(c, m)
        PROVE  Promise!Publish(c, m)
    BY <2>1 DEF Publish, Promise!Publish
  <2>2. ASSUME NEW c \in Channels, NEW b \in {"none", "chat", "invalid"}, Rebind(c, b)
        PROVE  [Promise!Next]_(Promise!pvars)
    BY <2>2, <1>0 DEF Rebind
  <2> QED
    BY <1>1, <2>1, <2>2 DEF Environment, Promise!Next
<1>2. ASSUME NEW c \in Channels, NEW i \in Positions, Elapse(c, i)
      PROVE  [Promise!Next]_(Promise!pvars)
  BY <1>2, ElapseStatus, UnseenStutters DEF Elapse, Unseen
<1>3. CASE Startup
  <2>1. CASE Bootstrap
    BY <2>1, BootstrapAdopts DEF Promise!Next
  <2>2. CASE DrainEnd
    BY <2>2, CursorsAcknowledge DEF DrainEnd
  <2> QED
    BY <1>3, <1>0, <2>1, <2>2 DEF Startup, DrainBegin, DrainNext, Start
<1>4. ASSUME NEW c \in Channels, Dispatch(c) PROVE [Promise!Next]_(Promise!pvars)
  <2>1. CASE Skip(c) \/ SendResolves(c) \/ SendRejects(c)
    <3>1. Promise!Settle(c, This(c), receipts'[c][This(c)].status)
      BY <2>1, ReceiptSettles
    <3>2. This(c) \in 1..MaxLog /\ receipts'[c][This(c)].status \in Promise!Outcomes
      BY <2>1, ReceiptWritten DEF Positions, Outcome, Promise!Outcomes
    <3>3. \E i \in 1..MaxLog, o \in Promise!Outcomes : Promise!Settle(c, i, o)
      BY <3>1, <3>2, Zenon DEF Promise!Settle
    <3> QED
      BY <3>3 DEF Promise!Next
  <2>2. CASE Finish(c)
    <3>1. chain[c] # <<>> /\ phase # "down"
      BY <2>2, FirstEntry DEF Finish, IInv, HeadInProgress, PhaseShape
    <3> QED
      BY <2>2, <3>1, CursorsAcknowledge DEF Finish
  <2> QED
    BY <1>4, <1>0, <2>1, <2>2 DEF Dispatch, ProcessStep, WatchEvent, Ignore, AlreadySettled,
       TooEarly, BeginSend, Accept
<1>5. ASSUME NEW r \in RunIds, Retry(r) PROVE [Promise!Next]_(Promise!pvars)
  BY <1>5, <1>0 DEF Retry, RetryFire, RetryEnd, RetryNext
<1>6. CASE Shutdown
  <2>1. CASE StopSave
    BY <2>1, CursorsAcknowledge DEF StopSave
  <2> QED
    BY <1>6, <1>0, <2>1 DEF Shutdown, Stop, Exit, Crash, Vanish
<1>7. CASE UNCHANGED vars
  BY <1>7, <1>0 DEF vars
<1> QED
  BY <1>1, <1>2, <1>3, <1>4, <1>5, <1>6, <1>7 DEF Next

----------------------------------------------------------------------------
(* The theorems.                                                           *)

LEMMA InitExcused == Init => DuplicatesExcused
  BY DEF Init, DuplicatesExcused

LEMMA SpecOrder == Spec => []OrderInv
<1>1. Init => OrderInv
  BY InitOrder
<1>2. IInv /\ OrderInv /\ [Next]_vars => OrderInv'
  BY NextOrder
<1> QED
  BY <1>1, <1>2, SpecIInv, PTL DEF Spec

LEMMA SpecPromise == Spec => []PromiseInv
<1>1. Init => PromiseInv
  BY InitPromise
<1>2. IInv /\ OrderInv /\ PromiseInv /\ [Next]_vars => PromiseInv'
  BY NextPromise
<1> QED
  BY <1>1, <1>2, SpecIInv, SpecOrder, PTL DEF Spec

\* The transport takes a message at most once more than there are acceptances
\* whose receipt was lost (processMessage in outbox.ts writes the receipt after
\* the send, so only a crash, a rejected send or an unbinding can excuse more).
THEOREM SentOnceUnlessExcused == Spec => []DuplicatesExcused
<1>1. Init => DuplicatesExcused
  BY InitExcused
<1>2. OrderInv => RetriesTried
  BY DEF OrderInv
<1>3. IInv /\ RetriesTried /\ DuplicatesExcused /\ [Next]_vars => DuplicatesExcused'
  BY NextExcused
<1> QED
  BY <1>1, <1>2, <1>3, SpecIInv, SpecOrder, PTL DEF Spec

\* No message is tried before every earlier eligible message of its channel has
\* a receipt: backlog, live events and retries share one chain per channel
\* (enqueue in outbox.ts), and only a retry is queued out of turn.
THEOREM TriedInTurn == Spec => []FirstTriesInOrder
<1>1. IInv /\ OrderInv => FirstTriesInOrder
  <2> SUFFICES ASSUME IInv, OrderInv, NEW c \in Channels, NEW j \in 1..Len(log[c]),
                      receipts[c][j].status # "none" \/ (InFlight(c) /\ This(c) = j),
                      NEW i \in (base[c] + 1)..(j - 1), Outbound(c, i)
               PROVE  receipts[c][i].status # "none"
    BY DEF FirstTriesInOrder
  <2>1. /\ j \in Positions /\ i \in 1..(j - 1) /\ ~ i <= base[c]
    BY Ranges, BoundsAssumption DEF Positions
  <2>2. CASE receipts[c][j].status # "none"
    BY <2>1, <2>2 DEF OrderInv, TriedInOrder, Tried, Handled, Known
  <2>3. CASE InFlight(c) /\ This(c) = j
    <3>1. \A k \in 1..(This(c) - 1) : Handled(c, k)
      BY <2>3, HeadInTurn DEF OrderInv, IInv, HeadInProgress, InFlight
    <3> QED
      BY <2>1, <2>3, <3>1 DEF Handled, Known
  <2> QED
    BY <2>2, <2>3
<1> QED
  BY <1>1, SpecIInv, SpecOrder, PTL

\* The dispatcher of outbox.ts implements the abstract promise of OutboxPromise:
\* with the receipts as outcomes and the cursor file as acknowledgement, every
\* step is one of its steps or leaves what it sees unchanged.
THEOREM KeepsPromise == Spec => Implements
<1>1. Init => Promise!Init
  BY InitRefines
<1>2. IInv /\ IInv' /\ PromiseInv /\ [Next]_vars => [Promise!Next]_(Promise!pvars)
  BY NextRefines
<1> QED
  BY <1>1, <1>2, SpecIInv, SpecPromise, PTL DEF Spec, Implements, Promise!Spec
=============================================================================
