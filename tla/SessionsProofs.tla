-------------------------- MODULE SessionsProofs --------------------------
(***************************************************************************)
(* Theorems about what MCSessions runs: a lease is exclusive and guards    *)
(* the transcripts, for any number of processes, crashes and leases; what  *)
(* a turn is served is fresh; what the terminal shows as open is open.     *)
(***************************************************************************)
EXTENDS MCSessions, SequencesExt, FiniteSetTheorems, TLAPS

\* What the owner record and the leases look like.
LeaseTypes ==
  /\ record \in [pid : Processes \cup {0}, token : Nat]
  /\ stage \in [Processes -> Stages]
  /\ lease \in [Processes -> Nat]
  /\ released \in [Processes -> BOOLEAN]
  /\ issued \in Nat

\* A lease is nobody's twice, not even after it was given back: a second release
\* finds the token of another holder.
TokensApart ==
  /\ \A p \in Processes : lease[p] <= issued
  /\ \A p, q \in Processes : lease[p] = lease[q] /\ lease[p] # 0 => p = q

\* A process that died holds nothing.
HoldersAlive == \A p \in Processes : Holds(p) => stage[p] # "off"

IInv == LeaseTypes /\ TokensApart /\ HoldersAlive /\ HolderOnRecord

\* The variables the invariant is about.
owning == <<record, stage, lease, released, issued>>

LEMMA StutterOwning == ASSUME IInv, UNCHANGED owning PROVE IInv'
BY DEF IInv, owning, LeaseTypes, TokensApart, HoldersAlive, HolderOnRecord, Holds

\* A step of p that leaves the record and the leases alone.
LEMMA OnlyMoves ==
  ASSUME IInv, NEW p \in Processes, NEW s \in Stages \ {"off"}, Goto(p, s),
         UNCHANGED <<record, lease, released, issued>>
  PROVE  IInv'
BY DEF IInv, LeaseTypes, TokensApart, HoldersAlive, HolderOnRecord, Holds, Goto

\* A holder keeps everybody else from acquiring.
LEMMA HolderOwns ==
  ASSUME IInv, NEW p \in Processes, Holds(p) PROVE Owned
BY DEF IInv, LeaseTypes, HoldersAlive, HolderOnRecord, Holds, Owned, Alive, NoRecord

LEMMA AcquireIInv ==
  ASSUME IInv, NEW p \in Processes, NEW s \in Stages \ {"off"}, Acquire(p, s) PROVE IInv'
<1>1. \A q \in Processes : ~ Holds(q)
  BY HolderOwns DEF Acquire
<1>2. LeaseTypes'
  BY DEF IInv, LeaseTypes, Acquire, Goto
<1>3. TokensApart'
  BY DEF IInv, LeaseTypes, TokensApart, Acquire
<1>4. \A q \in Processes : Holds(q)' => q = p
  BY <1>1 DEF IInv, LeaseTypes, Holds, Acquire
<1>5. HoldersAlive'
  BY <1>4 DEF IInv, LeaseTypes, HoldersAlive, Acquire, Goto
<1>6. HolderOnRecord'
  BY <1>4 DEF IInv, LeaseTypes, HolderOnRecord, Acquire
<1> QED BY <1>2, <1>3, <1>5, <1>6 DEF IInv

\* p gives its lease back, for the first or the second time.
LEMMA ReleaseIInv ==
  ASSUME IInv, NEW p \in Processes, NEW s \in Stages \ {"off"}, Release(p), Goto(p, s),
         released' = [released EXCEPT ![p] = TRUE],
         lease' = lease \/ lease' = [lease EXCEPT ![p] = 0], UNCHANGED issued
  PROVE  IInv'
<1>1. LeaseTypes'
  BY DEF IInv, LeaseTypes, Release, Goto, NoRecord
<1>2. TokensApart'
  BY DEF IInv, LeaseTypes, TokensApart
<1>3. \A q \in Processes : Holds(q)' => q # p /\ Holds(q) /\ lease'[q] = lease[q]
  BY DEF IInv, LeaseTypes, Holds
<1>4. HoldersAlive'
  BY <1>3 DEF IInv, LeaseTypes, HoldersAlive, Goto
<1>5. ASSUME NEW q \in Processes, Holds(q)' PROVE record' = record
  BY <1>3, <1>5 DEF IInv, LeaseTypes, TokensApart, HolderOnRecord, Holds, Release
<1>6. HolderOnRecord'
  BY <1>3, <1>5 DEF IInv, HolderOnRecord
<1> QED BY <1>1, <1>2, <1>4, <1>6 DEF IInv

\* The record is left as it is while p stops holding what it held, if anything.
LEMMA LetGoIInv ==
  ASSUME IInv, NEW p \in Processes, NEW s \in Stages, Goto(p, s),
         released' = [released EXCEPT ![p] = TRUE], lease' = [lease EXCEPT ![p] = 0],
         UNCHANGED <<record, issued>>
  PROVE  IInv'
<1>1. LeaseTypes'
  BY DEF IInv, LeaseTypes, Goto
<1>2. TokensApart'
  BY DEF IInv, LeaseTypes, TokensApart
<1>3. \A q \in Processes : Holds(q)' => q # p /\ Holds(q) /\ lease'[q] = lease[q]
  BY DEF IInv, LeaseTypes, Holds
<1>4. HoldersAlive'
  BY <1>3 DEF IInv, LeaseTypes, HoldersAlive, Goto
<1>5. HolderOnRecord'
  BY <1>3 DEF IInv, HolderOnRecord
<1> QED BY <1>1, <1>2, <1>4, <1>5 DEF IInv

LEMMA ReclaimIInv ==
  ASSUME IInv, NEW p \in Processes, NEW s \in Stages \ {"off"}, Reclaim, Goto(p, s),
         UNCHANGED <<lease, released, issued>>
  PROVE  IInv'
<1>1. CASE Owned
  <2>1. UNCHANGED record
    BY <1>1 DEF Reclaim
  <2> QED BY <2>1, OnlyMoves
<1>2. CASE ~ Owned
  <2>1. \A q \in Processes : ~ Holds(q)
    BY <1>2, HolderOwns
  <2>2. \A q \in Processes : ~ Holds(q)'
    BY <2>1 DEF Holds
  <2>3. LeaseTypes'
    BY <1>2 DEF IInv, LeaseTypes, Reclaim, Goto, NoRecord
  <2>4. TokensApart'
    BY DEF IInv, TokensApart
  <2> QED BY <2>2, <2>3, <2>4 DEF IInv, HoldersAlive, HolderOnRecord
<1> QED BY <1>1, <1>2

LEMMA SessionIInv == ASSUME IInv, NEW p \in Processes, Session(p) PROVE IInv'
<1>1. CASE OpenBegin(p)
  <2>1. Acquire(p, "leased")
    BY <1>1 DEF OpenBegin
  <2> QED BY <2>1, AcquireIInv DEF Stages
<1>2. CASE OpenRefused(p)
  BY <1>2, StutterOwning DEF OpenRefused, process, owning
<1>3. CASE LoadLeased(p)
  BY <1>3, OnlyMoves DEF LoadLeased, Stages
<1>4. CASE LoadUnleased(p)
  BY <1>4, OnlyMoves DEF LoadUnleased, Stages
<1>5. CASE LeaseLoaded(p)
  <2>1. CASE Acquire(p, "open")
    BY <2>1, AcquireIInv DEF Stages
  <2>2. CASE Goto(p, "idle") /\ UNCHANGED <<record, lease, released, issued>>
    BY <2>2, OnlyMoves DEF Stages
  <2> QED BY <1>5, <2>1, <2>2 DEF LeaseLoaded
<1>6. CASE Shutdown(p)
  BY <1>6, ReleaseIInv DEF Shutdown, Stages
<1>7. CASE Dispose(p)
  BY <1>7, ReleaseIInv DEF Dispose, Stages
<1> QED BY <1>1, <1>2, <1>3, <1>4, <1>5, <1>6, <1>7 DEF Session

LEMMA GatewayIInv == ASSUME IInv, NEW p \in Processes, GatewayStep(p) PROVE IInv'
<1>1. CASE TurnEnds(p)
  BY <1>1, StutterOwning DEF TurnEnds, process, owning
<1>2. CASE DropForChange(p)
  <2>1. CASE stage[p] = "open"
    BY <1>2, <2>1, ReleaseIInv DEF DropForChange, Stages
  <2>2. CASE stage[p] # "open"
    BY <1>2, <2>2, LetGoIInv DEF DropForChange, Stages
  <2> QED BY <2>1, <2>2
<1>3. CASE GatewayArchives(p)
  <2>1. \E s \in {"marking", "changed"} : Goto(p, s)
    BY <1>3 DEF GatewayArchives, ArchiveActive
  <2> QED BY <1>3, <2>1, OnlyMoves DEF GatewayArchives, Stages
<1>4. CASE GatewayMarks(p)
  BY <1>4, OnlyMoves DEF GatewayMarks, MarkActive, Stages
<1>5. CASE GatewayAnswers(p)
  BY <1>5, OnlyMoves DEF GatewayAnswers, Stages
<1> QED BY <1>1, <1>2, <1>3, <1>4, <1>5 DEF GatewayStep

LEMMA CommandIInv == ASSUME IInv, NEW p \in Processes, Command(p) PROVE IInv'
<1>1. CASE \E op \in {"reset", "restore"} : LookUp(p, op)
  <2>1. Verdict \in Stages \ {"off"}
    BY DEF Verdict, Stages
  <2> QED BY <1>1, <2>1, OnlyMoves DEF LookUp
<1>2. CASE RecheckOwner(p)
  <2>1. Verdict \in Stages \ {"off"}
    BY DEF Verdict, Stages
  <2>2. \E s \in Stages \ {"off"} : Goto(p, s)
    BY <1>2, <2>1 DEF RecheckOwner, Stages
  <2> QED BY <1>2, <2>2, ReclaimIInv DEF RecheckOwner
<1>3. CASE SendControl(p)
  BY <1>3, OnlyMoves DEF SendControl, Stages
<1>4. CASE Refused(p)
  <2>1. CASE stage[p] = "changing"
    BY <1>4, <2>1, ReleaseIInv DEF Refused, Stages
  <2>2. CASE stage[p] # "changing"
    BY <1>4, <2>2, LetGoIInv DEF Refused, Stages
  <2> QED BY <2>1, <2>2
<1>5. CASE GiveUp(p)
  BY <1>5, OnlyMoves DEF GiveUp, Stages
<1>6. CASE Verify(p)
  BY <1>6, OnlyMoves DEF Verify, Stages
<1>7. CASE Maintain(p)
  <2>1. Acquire(p, "changing")
    BY <1>7 DEF Maintain
  <2> QED BY <2>1, AcquireIInv DEF Stages
<1>8. CASE CommandArchives(p)
  <2>1. \E s \in {"marking", "done"} : Goto(p, s)
    BY <1>8 DEF CommandArchives, ArchiveActive
  <2> QED BY <1>8, <2>1, OnlyMoves DEF CommandArchives, Stages
<1>9. CASE CommandMarks(p)
  BY <1>9, OnlyMoves DEF CommandMarks, MarkActive, Stages
<1>10. CASE Maintained(p)
  BY <1>10, ReleaseIInv DEF Maintained, Stages
<1> QED
  BY <1>1, <1>2, <1>3, <1>4, <1>5, <1>6, <1>7, <1>8, <1>9, <1>10 DEF Command

THEOREM NextIInv == IInv /\ [Next]_vars => IInv'
<1> SUFFICES ASSUME IInv, [Next]_vars PROVE IInv'
  OBVIOUS
<1>1. CASE \E op \in Work : Ask(op)
  BY <1>1, StutterOwning DEF Ask, process, owning
<1>2. ASSUME NEW p \in Processes, Session(p) PROVE IInv'
  BY <1>2, SessionIInv
<1>3. ASSUME NEW p \in Processes, GatewayStep(p) PROVE IInv'
  BY <1>3, GatewayIInv
<1>4. ASSUME NEW p \in Processes, Command(p) PROVE IInv'
  BY <1>4, CommandIInv
<1>5. ASSUME NEW p \in Processes, Crash(p) PROVE IInv'
  BY <1>5, LetGoIInv DEF Crash, Forget, Stages
<1>6. ASSUME NEW p \in Processes, Restart(p) PROVE IInv'
  BY <1>6, OnlyMoves DEF Restart, Stages
<1>7. CASE UNCHANGED vars
  BY <1>7, StutterOwning DEF vars, process, owning
<1> QED BY <1>1, <1>2, <1>3, <1>4, <1>5, <1>6, <1>7 DEF Next

THEOREM InitIInv == Init => IInv
BY DEF Init, IInv, LeaseTypes, TokensApart, HoldersAlive, HolderOnRecord, Holds, NoRecord, Stages

(***************************************************************************)
(* Every holder of a lease is the owner on record, under its own token:    *)
(* acquireLease, releaseLease and readSessionOwner exclude one another,    *)
(* however processes open, close, crash and come back under an old pid.    *)
(***************************************************************************)
THEOREM LeaseExclusive == Spec => []HolderOnRecord
<1>1. IInv => HolderOnRecord
  BY DEF IInv
<1> QED BY InitIInv, NextIInv, <1>1, PTL DEF Spec

\* Two processes never hold the session at once.
THEOREM OneHolder ==
  Spec => [](\A p, q \in Processes : Holds(p) /\ Holds(q) => p = q)
<1>1. HolderOnRecord => \A p, q \in Processes : Holds(p) /\ Holds(q) => p = q
  BY DEF HolderOnRecord
<1> QED BY LeaseExclusive, <1>1, PTL

----------------------------------------------------------------------------
(* Type correctness.                                                       *)

Request == [op : {"turn", "reset", "restore"}, from : Processes \cup {0}]
LEMMA LaneTail ==
  ASSUME NEW s \in Seq(Request), s # <<>>
  PROVE  Tail(s) \in Seq(Request) /\ Head(s) \in Request
  OBVIOUS

\* A control names an operation, and the gateway's work is the head of its lane.
WorkNamed ==
  /\ \A p \in Processes : stage[p] \in {"gateway-owned", "stale"} => action[p] # "none"
  /\ \A p \in Processes :
       Program[p] = "gateway" /\ stage[p] \in {"changing", "marking", "changed"} => lane # <<>>
  /\ \A p \in Processes : stage[p] \in {"unowned", "stale"} => Program[p] = "command"

LEMMA InitTypes == Init => TypeOK /\ WorkNamed
<1> SUFFICES ASSUME Init PROVE TypeOK /\ WorkNamed
  OBVIOUS
<1> USE BoundsAssumption
<1>1. <<>> \in Seq(Request) /\ 0 \in 0..MaxTokens /\ 0 \in 0..MaxCrashes
  OBVIOUS
<1>2. TypeOK
  BY <1>1 DEF Init, TypeOK, NoRecord, Stages, Request
<1>3. WorkNamed
  BY DEF Init, WorkNamed
<1> QED BY <1>2, <1>3

LEMMA LoadTypes ==
  ASSUME TypeOK, NEW p \in Processes, Load(p)
  PROVE  /\ files' \in [Files -> {"absent", "active", "archived"}]
         /\ transcript' \in [Processes -> Files \cup {0}]
         /\ \A q \in Processes \ {p} : transcript'[q] = transcript[q]
<1>1. PICK f \in SomeActive :
    IF f # 0
      THEN /\ transcript' = [transcript EXCEPT ![p] = f]
           /\ UNCHANGED files
      ELSE \E g \in Files :
             /\ files' = [files EXCEPT ![g] = "active"]
             /\ transcript' = [transcript EXCEPT ![p] = g]
  BY DEF Load
<1>2. /\ files \in [Files -> {"absent", "active", "archived"}]
      /\ transcript \in [Processes -> Files \cup {0}]
  BY DEF TypeOK
<1>3. f \in Files \cup {0}
  BY DEF SomeActive, Active
<1> QED BY <1>1, <1>2, <1>3

\* What archiving does to the files and to who does it.
LEMMA ArchiveTypes ==
  ASSUME TypeOK, NEW p \in Processes, NEW s \in {"changed", "done"}, ArchiveActive(p, s)
  PROVE  /\ files' \in [Files -> {"absent", "active", "archived"}]
         /\ archived' \in [Processes -> Files \cup {0}]
         /\ source' \in [Processes -> Files \cup {0}]
         /\ \E t \in {"marking", s} : Goto(p, t)
<1>1. PICK f \in SomeActive :
        /\ files' = IF f = 0 THEN files ELSE [files EXCEPT ![f] = "archived"]
        /\ archived' = [archived EXCEPT ![p] = f]
  BY DEF ArchiveActive
<1>2. f \in Files \cup {0}
  BY DEF SomeActive, Active
<1>3. /\ files \in [Files -> {"absent", "active", "archived"}]
      /\ archived \in [Processes -> Files \cup {0}]
      /\ source \in [Processes -> Files \cup {0}]
  BY DEF TypeOK
<1>4. source' \in [Processes -> Files \cup {0}]
  BY <1>3 DEF ArchiveActive, Archives
<1>5. \E t \in {"marking", s} : Goto(p, t)
  BY DEF ArchiveActive
<1> QED BY <1>1, <1>2, <1>3, <1>4, <1>5

\* The stage of p alone changes; what p looked at is closed.
LEMMA StageTypes ==
  ASSUME TypeOK, NEW p \in Processes, NEW s \in Stages, Goto(p, s),
         \A q \in Processes \ {p} : transcript'[q] = transcript[q],
         transcript'[p] # 0 => s \in {"loaded", "open"}
  PROVE  /\ stage' \in [Processes -> Stages]
         /\ stage'[p] = s /\ \A q \in Processes \ {p} : stage'[q] = stage[q]
         /\ \A q \in Processes : transcript'[q] # 0 => stage'[q] \in {"loaded", "open"}
<1>1. stage' = [stage EXCEPT ![p] = s] /\ stage \in [Processes -> Stages]
  BY DEF Goto, TypeOK
<1>2. \A q \in Processes : transcript[q] # 0 => stage[q] \in {"loaded", "open"}
  BY DEF TypeOK
<1> QED BY <1>1, <1>2

LEMMA AcquireTypes ==
  ASSUME TypeOK, NEW p \in Processes, NEW s \in Stages, Acquire(p, s)
  PROVE  /\ record' \in [pid : Processes \cup {0}, token : 0..MaxTokens]
         /\ lease' \in [Processes -> 0..MaxTokens]
         /\ released' \in [Processes -> BOOLEAN]
         /\ issued' \in 0..MaxTokens
         /\ Goto(p, s)
<1>1. /\ issued \in 0..MaxTokens /\ lease \in [Processes -> 0..MaxTokens]
      /\ released \in [Processes -> BOOLEAN]
  BY DEF TypeOK
<1>2. issued + 1 \in 0..MaxTokens
  BY <1>1, BoundsAssumption DEF Acquire
<1> QED BY <1>1, <1>2 DEF Acquire

LEMMA ReleaseTypes ==
  ASSUME TypeOK, NEW p \in Processes, Release(p) \/ Reclaim \/ UNCHANGED record
  PROVE  record' \in [pid : Processes \cup {0}, token : 0..MaxTokens]
BY BoundsAssumption DEF TypeOK, Release, Reclaim, NoRecord

LEMMA LetGoTypes ==
  ASSUME TypeOK, NEW p \in Processes
  PROVE  /\ [lease EXCEPT ![p] = 0] \in [Processes -> 0..MaxTokens]
         /\ [released EXCEPT ![p] = TRUE] \in [Processes -> BOOLEAN]
<1>1. 0 \in 0..MaxTokens
  BY BoundsAssumption
<1> QED BY <1>1 DEF TypeOK

LEMMA SessionTypes ==
  ASSUME TypeOK, WorkNamed, NEW p \in Processes, Session(p) PROVE TypeOK' /\ WorkNamed'
<1> USE DEF process, history
<1>0. lane # <<>> => Tail(lane) \in Seq(Request)
  BY LaneTail DEF TypeOK, Request
<1>1. CASE OpenBegin(p)
  <2>1. Acquire(p, "leased") /\ "leased" \in Stages /\ transcript[p] = 0
    BY <1>1 DEF OpenBegin, TypeOK, Stages
  <2>2. stage'[p] = "leased" /\ \A q \in Processes \ {p} : stage'[q] = stage[q]
    BY <1>1, <2>1, AcquireTypes, StageTypes DEF OpenBegin
  <2> QED BY SMTT(40), <1>1, <2>1, <2>2, AcquireTypes, StageTypes DEF OpenBegin, TypeOK, WorkNamed
<1>2. CASE OpenRefused(p)
  BY <1>0, <1>2, OneGatewayAssumption DEF OpenRefused, Opens, Request, TypeOK, WorkNamed
<1>3. CASE LoadLeased(p) \/ LoadUnleased(p)
  <2>1. PICK s \in {"loaded", "open"} : Goto(p, s)
    BY <1>3 DEF LoadLeased, LoadUnleased
  <2>2. s \in Stages /\ Load(p)
    BY <1>3 DEF LoadLeased, LoadUnleased, Stages
  <2>3. /\ stage' \in [Processes -> Stages]
        /\ stage'[p] = s /\ \A q \in Processes \ {p} : stage'[q] = stage[q]
        /\ \A q \in Processes : transcript'[q] # 0 => stage'[q] \in {"loaded", "open"}
    BY <2>1, <2>2, LoadTypes, StageTypes
  <2>4. /\ UNCHANGED <<record, lane, lease, action, source, previous, outcome, archived,
                       released, issued, crashes>>
        /\ unleased' \in BOOLEAN
    BY <1>3 DEF LoadLeased, LoadUnleased, TypeOK
  <2>5. WorkNamed'
    BY <2>3, <2>4 DEF WorkNamed
  <2> QED BY <2>2, <2>3, <2>4, <2>5, LoadTypes DEF TypeOK
<1>4. CASE LeaseLoaded(p)
  <2>1. "open" \in Stages /\ "idle" \in Stages
    BY DEF Stages
  <2>2. /\ transcript' \in [Processes -> Files \cup {0}]
        /\ \A q \in Processes \ {p} : transcript'[q] = transcript[q]
    BY <1>4 DEF LeaseLoaded, TypeOK
  <2>3. CASE Acquire(p, "open")
    <3>1. /\ stage' \in [Processes -> Stages]
          /\ stage'[p] = "open" /\ \A q \in Processes \ {p} : stage'[q] = stage[q]
          /\ \A q \in Processes : transcript'[q] # 0 => stage'[q] \in {"loaded", "open"}
      BY <2>1, <2>2, <2>3, AcquireTypes, StageTypes
    <3> QED BY ZenonT(40), <1>4, <2>1, <2>2, <2>3, <3>1, AcquireTypes DEF LeaseLoaded, TypeOK, WorkNamed
  <2>4. CASE /\ Goto(p, "idle") /\ transcript' = [transcript EXCEPT ![p] = 0]
             /\ UNCHANGED <<record, lease, released, issued>>
    <3>1. transcript'[p] = 0
      BY <2>4 DEF TypeOK
    <3>2. /\ stage' \in [Processes -> Stages]
          /\ stage'[p] = "idle" /\ \A q \in Processes \ {p} : stage'[q] = stage[q]
          /\ \A q \in Processes : transcript'[q] # 0 => stage'[q] \in {"loaded", "open"}
      BY <2>1, <2>2, <2>4, <3>1, StageTypes
    <3> QED BY ZenonT(40), <1>4, <2>2, <2>4, <3>2 DEF LeaseLoaded, TypeOK, WorkNamed
  <2> QED BY <1>4, <2>3, <2>4 DEF LeaseLoaded
<1>5. CASE Shutdown(p)
  <2>1. /\ transcript' \in [Processes -> Files \cup {0}] /\ transcript'[p] = 0
        /\ \A q \in Processes \ {p} : transcript'[q] = transcript[q]
        /\ released' \in [Processes -> BOOLEAN]
    BY <1>5 DEF Shutdown, TypeOK
  <2>2. /\ stage' \in [Processes -> Stages]
        /\ stage'[p] = "closing" /\ \A q \in Processes \ {p} : stage'[q] = stage[q]
        /\ \A q \in Processes : transcript'[q] # 0 => stage'[q] \in {"loaded", "open"}
    BY <1>5, <2>1, StageTypes DEF Shutdown, Stages
  <2>3. lane' \in Seq(Request)
    BY <1>0, <1>5 DEF Shutdown, Unqueued, TypeOK, Request
  <2>4. WorkNamed'
    BY <1>5, <2>2, OneGatewayAssumption DEF Shutdown, Unqueued, WorkNamed
  <2> QED BY <1>5, <2>1, <2>2, <2>3, <2>4, ReleaseTypes DEF Shutdown, TypeOK, Request
<1>6. CASE Dispose(p)
  <2>1. /\ transcript[p] = 0 /\ released' \in [Processes -> BOOLEAN]
        /\ lease' \in [Processes -> 0..MaxTokens]
    BY <1>6, LetGoTypes DEF Dispose, TypeOK
  <2>2. /\ stage' \in [Processes -> Stages]
        /\ stage'[p] = "idle" /\ \A q \in Processes \ {p} : stage'[q] = stage[q]
        /\ \A q \in Processes : transcript'[q] # 0 => stage'[q] \in {"loaded", "open"}
    BY <1>6, <2>1, StageTypes DEF Dispose, Stages
  <2> QED BY <1>6, <2>1, <2>2, ReleaseTypes DEF Dispose, TypeOK, WorkNamed
<1> QED BY <1>1, <1>2, <1>3, <1>4, <1>5, <1>6 DEF Session

LEMMA GatewayTypes ==
  ASSUME TypeOK, WorkNamed, NEW p \in Processes, GatewayStep(p) PROVE TypeOK' /\ WorkNamed'
<1> USE DEF process, history
<1>0. /\ lane # <<>> => Tail(lane) \in Seq(Request) /\ Head(lane) \in Request
      /\ Program[p] = "gateway"
  BY LaneTail DEF TypeOK, Request, GatewayStep, TurnEnds, DropForChange, GatewayArchives,
     GatewayMarks, GatewayAnswers
<1>1. CASE TurnEnds(p)
  BY SMTT(40), <1>0, <1>1, OneGatewayAssumption DEF TurnEnds, Request, TypeOK, WorkNamed
<1>2. CASE DropForChange(p)
  <2>1. /\ transcript' \in [Processes -> Files \cup {0}] /\ transcript'[p] = 0
        /\ \A q \in Processes \ {p} : transcript'[q] = transcript[q]
        /\ action' \in [Processes -> {"none", "reset", "restore"}]
        /\ \A q \in Processes \ {p} : action'[q] = action[q]
    BY <1>0, <1>2 DEF DropForChange, TypeOK, Request
  <2>2. /\ stage' \in [Processes -> Stages]
        /\ stage'[p] = "changing" /\ \A q \in Processes \ {p} : stage'[q] = stage[q]
        /\ \A q \in Processes : transcript'[q] # 0 => stage'[q] \in {"loaded", "open"}
    BY <1>2, <2>1, StageTypes DEF DropForChange, Stages
  <2>3. WorkNamed'
    BY <1>2, <2>1, <2>2 DEF DropForChange, WorkNamed
  <2> QED BY <1>2, <2>1, <2>2, <2>3, ReleaseTypes, LetGoTypes DEF DropForChange, TypeOK
<1>3. CASE GatewayArchives(p)
  <2>1. PICK s \in {"marking", "changed"} : Goto(p, s)
    BY <1>3, ArchiveTypes DEF GatewayArchives
  <2>2. s \in Stages /\ transcript[p] = 0 /\ lane # <<>>
    BY <1>3 DEF GatewayArchives, TypeOK, Stages, WorkNamed
  <2>3. /\ stage' \in [Processes -> Stages]
        /\ stage'[p] = s /\ \A q \in Processes \ {p} : stage'[q] = stage[q]
        /\ \A q \in Processes : transcript'[q] # 0 => stage'[q] \in {"loaded", "open"}
    BY <1>3, <2>1, <2>2, StageTypes DEF GatewayArchives
  <2> QED BY <1>3, <2>2, <2>3, ArchiveTypes DEF GatewayArchives, TypeOK, WorkNamed
<1>4. CASE GatewayMarks(p)
  <2>1. "changed" \in Stages /\ Goto(p, "changed") /\ transcript[p] = 0 /\ lane # <<>>
    BY <1>4 DEF GatewayMarks, MarkActive, TypeOK, Stages, WorkNamed
  <2>2. /\ stage' \in [Processes -> Stages]
        /\ stage'[p] = "changed" /\ \A q \in Processes \ {p} : stage'[q] = stage[q]
        /\ \A q \in Processes : transcript'[q] # 0 => stage'[q] \in {"loaded", "open"}
    BY <1>4, <2>1, StageTypes DEF GatewayMarks
  <2>3. /\ files' \in [Files -> {"absent", "active", "archived"}]
        /\ archived' \in [Processes -> Files \cup {0}]
    BY <1>4 DEF GatewayMarks, MarkActive, TypeOK
  <2> QED BY <1>4, <2>1, <2>2, <2>3 DEF GatewayMarks, TypeOK, WorkNamed
<1>5. CASE GatewayAnswers(p)
  <2>1. lane # <<>> /\ transcript[p] = 0
    BY <1>0, <1>5 DEF GatewayAnswers, NothingToRestore, WorkNamed, TypeOK
  <2>2. /\ outcome' \in [Processes -> {"none", "waiting", "answered", "applied", "applied_direct",
                                       "unconfirmed", "failed"}]
        /\ archived' \in [Processes -> Files \cup {0}]
    <3>1. /\ outcome \in [Processes -> {"none", "waiting", "answered", "applied",
                                        "applied_direct", "unconfirmed", "failed"}]
          /\ archived \in [Processes -> Files \cup {0}]
      BY DEF TypeOK
    <3>2. CASE Head(lane).from \in Processes /\ outcome[Head(lane).from] = "waiting"
      BY <1>5, <3>1, <3>2 DEF GatewayAnswers
    <3>3. CASE ~ (Head(lane).from \in Processes /\ outcome[Head(lane).from] = "waiting")
      BY <1>5, <3>1, <3>3 DEF GatewayAnswers
    <3> QED BY <3>2, <3>3
  <2>3. /\ action' \in [Processes -> {"none", "reset", "restore"}] /\ lane' \in Seq(Request)
        /\ \A q \in Processes \ {p} : action'[q] = action[q]
        /\ source' \in [Processes -> Files \cup {0}]
    BY <1>0, <1>5, <2>1 DEF GatewayAnswers, TypeOK
  <2>4. /\ stage' \in [Processes -> Stages]
        /\ stage'[p] = "idle" /\ \A q \in Processes \ {p} : stage'[q] = stage[q]
        /\ \A q \in Processes : transcript'[q] # 0 => stage'[q] \in {"loaded", "open"}
    BY <1>5, <2>1, StageTypes DEF GatewayAnswers, Stages
  <2>5. WorkNamed'
    BY <1>0, <1>5, <2>3, <2>4, OneGatewayAssumption DEF GatewayAnswers, WorkNamed
  <2> QED BY <1>5, <2>2, <2>3, <2>4, <2>5 DEF GatewayAnswers, TypeOK, Request
<1> QED BY <1>1, <1>2, <1>3, <1>4, <1>5 DEF GatewayStep

LEMMA CommandTypes ==
  ASSUME TypeOK, WorkNamed, NEW p \in Processes, Command(p) PROVE TypeOK' /\ WorkNamed'
<1> USE DEF process, history
\* p takes no part in the lane, and works on no transcript.
<1>0. ASSUME NEW s \in Stages, Goto(p, s), transcript[p] = 0, UNCHANGED transcript
      PROVE  /\ stage' \in [Processes -> Stages]
             /\ stage'[p] = s /\ \A q \in Processes \ {p} : stage'[q] = stage[q]
             /\ \A q \in Processes : transcript'[q] # 0 => stage'[q] \in {"loaded", "open"}
  BY <1>0, StageTypes
<1>1. ASSUME NEW op \in {"reset", "restore"}, LookUp(p, op) PROVE TypeOK' /\ WorkNamed'
  <2>1. /\ Verdict \in Stages /\ Goto(p, Verdict) /\ transcript[p] = 0
        /\ Program[p] # "gateway"
    BY <1>1 DEF LookUp, Verdict, Stages, TypeOK
  <2>2. /\ action' \in [Processes -> {"none", "reset", "restore"}] /\ action'[p] # "none"
        /\ \A q \in Processes \ {p} : action'[q] = action[q]
    BY <1>1 DEF LookUp, TypeOK
  <2> QED BY <1>0, <1>1, <2>1, <2>2 DEF LookUp, TypeOK, WorkNamed
<1>2. CASE RecheckOwner(p)
  <2>1. PICK s \in {"unowned", "gateway-owned", "owned"} : Goto(p, s)
    BY <1>2 DEF RecheckOwner, Verdict
  <2>2. s \in Stages /\ transcript[p] = 0 /\ action[p] # "none"
    BY <1>2 DEF RecheckOwner, Stages, TypeOK, WorkNamed
  <2> QED BY <1>0, <1>2, <2>1, <2>2, ReleaseTypes DEF RecheckOwner, TypeOK, WorkNamed
<1>3. CASE SendControl(p)
  <2>1. [op |-> action[p], from |-> p] \in Request
    BY <1>3 DEF SendControl, TypeOK, WorkNamed, Request
  <2>2. lane' \in Seq(Request) /\ lane' # <<>>
    BY <1>3, <2>1 DEF SendControl, TypeOK, Request
  <2>3. previous' \in [Processes -> Files \cup {0}]
    BY SMTT(40), <1>3 DEF SendControl, SomeActive, Active, TypeOK
  <2>4. "waiting" \in Stages /\ transcript[p] = 0
    BY <1>3 DEF SendControl, Stages, TypeOK
  <2> QED BY SMTT(40), <1>0, <1>3, <2>2, <2>3, <2>4 DEF SendControl, TypeOK, WorkNamed, Request
<1>4. CASE Refused(p)
  <2>1. "idle" \in Stages /\ transcript[p] = 0
    BY <1>4 DEF Refused, Stages, TypeOK
  <2>2. Release(p) \/ UNCHANGED record
    BY <1>4 DEF Refused
  <2> QED BY ZenonT(60), <1>0, <1>4, <2>1, <2>2, ReleaseTypes, LetGoTypes DEF Refused, TypeOK, WorkNamed
<1>5. CASE GiveUp(p) \/ Verify(p)
  <2>1. "idle" \in Stages /\ transcript[p] = 0 /\ Goto(p, "idle")
    BY <1>5 DEF GiveUp, Verify, Stages, TypeOK
  <2>2. \E o \in {"applied", "unconfirmed"} : outcome' = [outcome EXCEPT ![p] = o]
    BY <1>5 DEF GiveUp, Verify
  <2>3. UNCHANGED <<record, files, lane, lease, transcript, action, source, previous, archived,
                    released, issued, unleased, crashes>>
    BY <1>5 DEF GiveUp, Verify
  <2> QED BY <1>0, <2>1, <2>2, <2>3 DEF TypeOK, WorkNamed
<1>6. CASE Maintain(p)
  <2>1. "changing" \in Stages /\ transcript[p] = 0 /\ Acquire(p, "changing")
    BY <1>6 DEF Maintain, Stages, TypeOK
  <2>2. Program[p] # "gateway"
    BY <1>6 DEF Maintain, WorkNamed
  <2> QED BY SMTT(40), <1>0, <1>6, <2>1, <2>2, AcquireTypes DEF Maintain, TypeOK, WorkNamed
<1>7. CASE CommandArchives(p)
  <2>1. PICK s \in {"marking", "done"} : Goto(p, s)
    BY <1>7, ArchiveTypes DEF CommandArchives
  <2>2. s \in Stages /\ transcript[p] = 0
    BY <1>7 DEF CommandArchives, TypeOK, Stages
  <2> QED BY <1>0, <1>7, <2>1, <2>2, ArchiveTypes DEF CommandArchives, TypeOK, WorkNamed
<1>8. CASE CommandMarks(p)
  <2>1. "done" \in Stages /\ Goto(p, "done") /\ transcript[p] = 0
    BY <1>8 DEF CommandMarks, MarkActive, TypeOK, Stages
  <2>2. /\ files' \in [Files -> {"absent", "active", "archived"}]
        /\ archived' \in [Processes -> Files \cup {0}]
    BY <1>8 DEF CommandMarks, MarkActive, TypeOK
  <2> QED BY <1>0, <1>8, <2>1, <2>2 DEF CommandMarks, TypeOK, WorkNamed
<1>9. CASE Maintained(p)
  <2>1. "idle" \in Stages /\ transcript[p] = 0
    BY <1>9 DEF Maintained, Stages, TypeOK
  <2> QED BY SMTT(40), <1>0, <1>9, <2>1, ReleaseTypes, LetGoTypes DEF Maintained, TypeOK, WorkNamed
<1> QED
  BY <1>1, <1>2, <1>3, <1>4, <1>5, <1>6, <1>7, <1>8, <1>9 DEF Command

LEMMA SpecTypes == Spec => [](TypeOK /\ WorkNamed)
<1>1. TypeOK /\ WorkNamed /\ [Next]_vars => TypeOK' /\ WorkNamed'
  <2> SUFFICES ASSUME TypeOK, WorkNamed, [Next]_vars PROVE TypeOK' /\ WorkNamed'
    OBVIOUS
  <2> USE DEF process, history
  <2>1. ASSUME NEW op \in Work, Ask(op) PROVE TypeOK' /\ WorkNamed'
    <3>1. lane' \in Seq(Request) /\ lane' # <<>>
      BY <2>1, WorkAssumption DEF Ask, TypeOK, Request
    <3> QED BY <2>1, <3>1 DEF Ask, TypeOK, WorkNamed, Request
  <2>2. ASSUME NEW p \in Processes, Crash(p) PROVE TypeOK' /\ WorkNamed'
    <3>1. /\ transcript' \in [Processes -> Files \cup {0}] /\ transcript'[p] = 0
          /\ \A q \in Processes \ {p} : transcript'[q] = transcript[q]
          /\ action' \in [Processes -> {"none", "reset", "restore"}]
          /\ \A q \in Processes \ {p} : action'[q] = action[q]
          /\ source' \in [Processes -> Files \cup {0}]
          /\ previous' \in [Processes -> Files \cup {0}]
          /\ archived' \in [Processes -> Files \cup {0}]
          /\ outcome' \in [Processes -> {"none", "waiting", "answered", "applied",
                                         "applied_direct", "unconfirmed", "failed"}]
      BY <2>2 DEF Crash, Forget, TypeOK
    <3>2. /\ stage' \in [Processes -> Stages]
          /\ stage'[p] = "off" /\ \A q \in Processes \ {p} : stage'[q] = stage[q]
          /\ \A q \in Processes : transcript'[q] # 0 => stage'[q] \in {"loaded", "open"}
      BY <2>2, <3>1, StageTypes DEF Crash, Stages
    <3>3. crashes' \in 0..MaxCrashes
      BY <2>2, BoundsAssumption DEF Crash, TypeOK
    <3>4. WorkNamed'
      BY <2>2, <3>1, <3>2 DEF Crash, WorkNamed
    <3> QED BY <2>2, <3>1, <3>2, <3>3, <3>4, LetGoTypes DEF Crash, Forget, TypeOK
  <2>3. ASSUME NEW p \in Processes, Restart(p) PROVE TypeOK' /\ WorkNamed'
    <3>1. /\ stage' \in [Processes -> Stages]
          /\ stage'[p] = "idle" /\ \A q \in Processes \ {p} : stage'[q] = stage[q]
          /\ \A q \in Processes : transcript'[q] # 0 => stage'[q] \in {"loaded", "open"}
      BY <2>3, StageTypes DEF Restart, Stages, TypeOK
    <3> QED BY <2>3, <3>1 DEF Restart, TypeOK, WorkNamed
  <2>4. CASE UNCHANGED vars
    BY <2>4 DEF vars, TypeOK, WorkNamed
  <2> QED BY <2>1, <2>2, <2>3, <2>4, SessionTypes, GatewayTypes, CommandTypes DEF Next
<1> QED BY InitTypes, <1>1, PTL DEF Spec

----------------------------------------------------------------------------
(* While every program works under the lease.                              *)

\* What a process does under the lease, and what only a command does.
Working == {"leased", "open", "changing", "marking", "done"}
OfCommands == {"changing", "marking", "unowned", "stale"}
\* Whoever works holds the lease; one transcript is active at most, none between
\* the two marks of a restore; an open session writes to the active one.
WorkAlone ==
  /\ \A p \in Processes : stage[p] # "loaded"
  /\ \A p \in Processes : stage[p] \in Working => Holds(p)
  /\ \A p \in Processes : stage[p] \in OfCommands => Program[p] = "command"
  /\ \A f, g \in Active : f = g
  /\ \A p \in Processes : stage[p] = "marking" => Active = {}
  /\ \A p \in Processes : stage[p] = "open" => transcript[p] \in Active
LeasedWork == ~ unleased => WorkAlone

LEMMA InitWork == Init => LeasedWork
<1> SUFFICES ASSUME Init PROVE LeasedWork
  OBVIOUS
<1>1. IsFiniteSet(Active) /\ Cardinality(Active) <= 1
  <2>1. IsFiniteSet(Files)
    BY FS_Interval, BoundsAssumption DEF Files
  <2>2. Active \subseteq Files
    BY DEF Active
  <2> QED BY <2>1, <2>2, FS_Subset DEF Init
<1>2. \A f, g \in Active : f = g
  <2> SUFFICES ASSUME NEW f \in Active, NEW g \in Active, f # g PROVE FALSE
    OBVIOUS
  <2>1. IsFiniteSet({f, g}) /\ Cardinality({f, g}) <= Cardinality(Active)
    BY <1>1, FS_Subset
  <2>2. Cardinality({f, g}) = 2
    <3>1. IsFiniteSet({f}) /\ Cardinality({f}) = 1
      BY FS_Singleton
    <3>2. {f, g} = {f} \cup {g} /\ g \notin {f}
      OBVIOUS
    <3> QED BY <3>1, <3>2, FS_AddElement
  <2>3. Cardinality(Active) \in Nat
    BY <1>1, FS_CardinalityType
  <2> QED BY <1>1, <2>1, <2>2, <2>3
<1> QED BY <1>2 DEF Init, LeasedWork, WorkAlone, Working, OfCommands

\* Only one process works at a time.
LEMMA OneWorks ==
  ASSUME IInv, WorkAlone, NEW p \in Processes, NEW q \in Processes \ {p}, Holds(p)
  PROVE  stage[q] \notin Working
BY DEF IInv, HolderOnRecord, WorkAlone

\* p goes on to something that is no work, or to work with the lease it holds,
\* and the files stay.
LEMMA MoveWork ==
  ASSUME TypeOK, LeasedWork, NEW p \in Processes, NEW s \in Stages, Goto(p, s), UNCHANGED files,
         unleased' = unleased,
         \A q \in Processes \ {p} : /\ Holds(q)' <=> Holds(q)
                                    /\ transcript'[q] = transcript[q],
         s \in Working => Holds(p)' /\ s \notin {"open", "marking"},
         s # "loaded",
         s \in OfCommands => Program[p] = "command"
  PROVE  LeasedWork'
<1>1. /\ stage'[p] = s /\ \A q \in Processes \ {p} : stage'[q] = stage[q]
      /\ Active' = Active
  BY DEF TypeOK, Goto, Active
<1> QED BY <1>1 DEF LeasedWork, WorkAlone, Working

LEMMA SessionWork ==
  ASSUME TypeOK, IInv, LeasedWork, NEW p \in Processes, Session(p) PROVE LeasedWork'
<1> USE DEF process, history, Stages, Working, OfCommands
<1>1. CASE OpenBegin(p)
  <2>1. \A q \in Processes \ {p} : Holds(q)' <=> Holds(q)
    BY <1>1 DEF OpenBegin, Acquire, Holds, TypeOK
  <2>2. Holds(p)'
    BY <1>1 DEF OpenBegin, Acquire, Holds, TypeOK
  <2> QED BY <1>1, <2>1, <2>2, MoveWork DEF OpenBegin, Acquire
<1>2. CASE OpenRefused(p)
  BY <1>2 DEF OpenRefused, LeasedWork, WorkAlone, Active, Holds
<1>3. CASE LoadLeased(p)
  <2> SUFFICES ASSUME ~ unleased PROVE WorkAlone'
    BY <1>3 DEF LoadLeased, LeasedWork
  <2>1. WorkAlone /\ Holds(p)
    BY <1>3 DEF LeasedWork, LoadLeased, WorkAlone
  <2>2. \A q \in Processes \ {p} : stage[q] \notin Working
    BY <2>1, OneWorks
  <2>3. /\ stage'[p] = "open" /\ \A q \in Processes \ {p} : stage'[q] = stage[q]
        /\ \A q \in Processes : Holds(q)' <=> Holds(q)
    BY <1>3 DEF LoadLeased, Goto, TypeOK, Holds
  <2>4. transcript'[p] \in Active' /\ \A f, g \in Active' : f = g
    <3>1. PICK f \in SomeActive :
        IF f # 0
          THEN /\ transcript' = [transcript EXCEPT ![p] = f]
               /\ UNCHANGED files
          ELSE \E g \in Files :
                 /\ files' = [files EXCEPT ![g] = "active"]
                 /\ transcript' = [transcript EXCEPT ![p] = g]
      BY <1>3 DEF LoadLeased, Load
    <3>2. /\ files \in [Files -> {"absent", "active", "archived"}] /\ 0 \notin Files
          /\ transcript \in [Processes -> Files \cup {0}]
      BY DEF TypeOK, Files
    <3>3. CASE f # 0
      BY <2>1, <3>1, <3>2, <3>3 DEF SomeActive, Active, WorkAlone
    <3>4. CASE f = 0
      <4>1. Active = {}
        BY <3>2, <3>4 DEF SomeActive, Active
      <4> QED BY <3>1, <3>2, <3>4, <4>1 DEF Active
    <3> QED BY <3>3, <3>4
  <2> QED BY <2>1, <2>2, <2>3, <2>4 DEF WorkAlone
<1>4. CASE LoadUnleased(p)
  BY <1>4 DEF LoadUnleased, LeasedWork
<1>5. CASE LeaseLoaded(p)
  BY <1>5 DEF LeaseLoaded, LeasedWork, WorkAlone
<1>6. CASE Shutdown(p)
  <2>1. \A q \in Processes \ {p} : /\ Holds(q)' <=> Holds(q)
                                   /\ transcript'[q] = transcript[q]
    BY <1>6 DEF Shutdown, Holds, TypeOK
  <2> QED BY <1>6, <2>1, MoveWork DEF Shutdown
<1>7. CASE Dispose(p)
  <2>1. \A q \in Processes \ {p} : Holds(q)' <=> Holds(q)
    BY <1>7 DEF Dispose, Holds, TypeOK
  <2> QED BY <1>7, <2>1, MoveWork DEF Dispose
<1> QED BY <1>1, <1>2, <1>3, <1>4, <1>5, <1>6, <1>7 DEF Session

\* The gateway changes transcripts without the lease.
LEMMA GatewayWork ==
  ASSUME TypeOK, IInv, LeasedWork, NEW p \in Processes, GatewayStep(p) PROVE LeasedWork'
<1> USE DEF process, history, Stages, Working, OfCommands
<1>1. CASE TurnEnds(p)
  BY <1>1 DEF TurnEnds, LeasedWork, WorkAlone, Active, Holds
<1>2. CASE DropForChange(p)
  BY <1>2 DEF DropForChange, LeasedWork
<1>3. CASE GatewayArchives(p) \/ GatewayMarks(p)
  BY <1>3 DEF GatewayArchives, GatewayMarks, LeasedWork, WorkAlone
<1>4. CASE GatewayAnswers(p)
  <2>1. \A q \in Processes \ {p} : Holds(q)' <=> Holds(q)
    BY <1>4 DEF GatewayAnswers, Holds
  <2> QED BY <1>4, <2>1, MoveWork DEF GatewayAnswers
<1> QED BY <1>1, <1>2, <1>3, <1>4 DEF GatewayStep

LEMMA CommandWork ==
  ASSUME TypeOK, IInv, WorkNamed, LeasedWork, NEW p \in Processes, Command(p) PROVE LeasedWork'
<1> USE DEF process, history, Stages, Working, OfCommands
<1>1. ASSUME NEW op \in {"reset", "restore"}, LookUp(p, op) PROVE LeasedWork'
  <2>1. Program[p] = "command" /\ Verdict \in {"unowned", "stale", "gateway-owned", "owned"}
    BY <1>1 DEF LookUp, Verdict
  <2> QED BY <1>1, <2>1, MoveWork DEF LookUp, Holds
<1>2. CASE RecheckOwner(p)
  <2>1. /\ Program[p] = "command"
        /\ \E s \in {"unowned", "gateway-owned", "owned"} : Goto(p, s)
    BY <1>2 DEF RecheckOwner, Verdict, WorkNamed
  <2> QED BY <1>2, <2>1, MoveWork DEF RecheckOwner, Holds
<1>3. CASE SendControl(p) \/ GiveUp(p) \/ Verify(p)
  <2>1. \E s \in {"waiting", "idle"} : Goto(p, s)
    BY <1>3 DEF SendControl, GiveUp, Verify
  <2>2. UNCHANGED <<files, lease, transcript, released, unleased>>
    BY <1>3 DEF SendControl, GiveUp, Verify
  <2> QED BY <2>1, <2>2, MoveWork DEF Holds
<1>4. CASE Refused(p) \/ Maintained(p)
  <2>1. \A q \in Processes \ {p} : Holds(q)' <=> Holds(q)
    BY <1>4 DEF Refused, Maintained, Holds, TypeOK
  <2>2. Goto(p, "idle") /\ UNCHANGED <<files, transcript, unleased>>
    BY <1>4 DEF Refused, Maintained
  <2> QED BY <2>1, <2>2, MoveWork
<1>5. CASE Maintain(p)
  <2>1. \A q \in Processes \ {p} : Holds(q)' <=> Holds(q)
    BY <1>5 DEF Maintain, Acquire, Holds, TypeOK
  <2>2. Holds(p)' /\ Program[p] = "command"
    BY <1>5 DEF Maintain, Acquire, Holds, TypeOK, WorkNamed
  <2> QED BY <1>5, <2>1, <2>2, MoveWork DEF Maintain, Acquire
<1>6. CASE CommandArchives(p) \/ CommandMarks(p)
  <2> SUFFICES ASSUME ~ unleased PROVE WorkAlone'
    BY <1>6 DEF CommandArchives, CommandMarks, LeasedWork
  <2>1. WorkAlone /\ Holds(p)
    BY <1>6 DEF LeasedWork, CommandArchives, CommandMarks, WorkAlone
  <2>2. \A q \in Processes \ {p} : stage[q] \notin Working
    BY <2>1, OneWorks
  <2>3. /\ files \in [Files -> {"absent", "active", "archived"}] /\ 0 \notin Files
        /\ stage \in [Processes -> Stages]
    BY DEF TypeOK, Files
  <2>4. \A q \in Processes : Holds(q)' <=> Holds(q)
    BY <1>6 DEF CommandArchives, CommandMarks, Holds
  <2>5. CASE CommandArchives(p)
    <3>1. PICK f \in SomeActive :
            files' = IF f = 0 THEN files ELSE [files EXCEPT ![f] = "archived"]
      BY <2>5 DEF CommandArchives, ArchiveActive
    <3>2. Active' = {}
      BY <2>1, <2>3, <3>1 DEF SomeActive, Active, WorkAlone
    <3>3. /\ stage'[p] \in {"marking", "done"} /\ Program[p] = "command"
          /\ \A q \in Processes \ {p} : stage'[q] = stage[q]
      BY <2>3, <2>5 DEF CommandArchives, ArchiveActive, Goto
    <3> QED BY <2>1, <2>2, <2>4, <3>2, <3>3 DEF WorkAlone
  <2>6. CASE CommandMarks(p)
    <3>1. Active = {}
      BY <2>1, <2>6 DEF CommandMarks, WorkAlone
    <3>2. \A f, g \in Active' : f = g
      BY <2>3, <2>6, <3>1 DEF CommandMarks, MarkActive, Active
    <3>3. /\ stage'[p] = "done"
          /\ \A q \in Processes \ {p} : stage'[q] = stage[q]
      BY <2>3, <2>6 DEF CommandMarks, MarkActive, Goto
    <3> QED BY <2>1, <2>2, <2>4, <3>2, <3>3 DEF WorkAlone
  <2> QED BY <1>6, <2>5, <2>6
<1> QED BY <1>1, <1>2, <1>3, <1>4, <1>5, <1>6 DEF Command

LEMMA NextWork == TypeOK /\ WorkNamed /\ IInv /\ LeasedWork /\ [Next]_vars => LeasedWork'
<1> SUFFICES ASSUME TypeOK, WorkNamed, IInv, LeasedWork, [Next]_vars PROVE LeasedWork'
  OBVIOUS
<1> USE DEF process, history
<1>1. ASSUME NEW op \in Work, Ask(op) PROVE LeasedWork'
  BY <1>1 DEF Ask, LeasedWork, WorkAlone, Active, Holds
<1>2. ASSUME NEW p \in Processes, Crash(p) PROVE LeasedWork'
  <2>1. \A q \in Processes \ {p} : (Holds(q)' <=> Holds(q)) /\ transcript'[q] = transcript[q]
    BY <1>2 DEF Crash, Forget, Holds, TypeOK
  <2> QED BY <1>2, <2>1, MoveWork DEF Crash, Stages, Working, OfCommands
<1>3. ASSUME NEW p \in Processes, Restart(p) PROVE LeasedWork'
  BY <1>3, MoveWork DEF Restart, Holds, Stages, Working, OfCommands
<1>4. CASE UNCHANGED vars
  BY <1>4 DEF vars, LeasedWork, WorkAlone, Active, Holds
<1> QED BY <1>1, <1>2, <1>3, <1>4, SessionWork, GatewayWork, CommandWork DEF Next

LEMMA SpecWork == Spec => []LeasedWork
BY InitWork, NextWork, InitIInv, NextIInv, SpecTypes, PTL DEF Spec

\* The variables have their types and, as long as every program works under the
\* lease, at most one transcript is active and an open session writes to it,
\* through crashes, resets and restores: openSessionWithRuntimeDeps and the
\* lifecycle commands take the lease before they touch a transcript.
THEOREM TranscriptsGuarded == Spec => []OwnershipHolds
<1>1. TypeOK /\ LeasedWork => SoleActive
  <2> SUFFICES ASSUME TypeOK, LeasedWork, ~ unleased PROVE Cardinality(Active) <= 1
    BY DEF SoleActive
  <2>1. \A f, g \in Active : f = g
    BY DEF LeasedWork, WorkAlone
  <2>2. CASE Active = {}
    BY <2>2, FS_EmptySet
  <2>3. CASE \E f \in Active : Active = {f}
    BY SMTT(40), <2>3, FS_Singleton
  <2> QED BY <2>1, <2>2, <2>3
<1>2. LeasedWork => UsedActive
  BY DEF LeasedWork, WorkAlone, UsedActive, Active
<1> QED BY <1>1, <1>2, SpecTypes, SpecWork, PTL DEF OwnershipHolds

----------------------------------------------------------------------------
(* Numbers and lists: what Min and FlattenSeq return. *)

\* A set of numbers that is not empty has a least one.
LEMMA LeastNumber ==
  ASSUME NEW T \in SUBSET Nat, T # {}
  PROVE  \E m \in T : \A k \in T : m <= k
<1> DEFINE R == {p \in Nat \X Nat : p[1] < p[2]}
<1>1. IsWellFoundedOn(R, Nat)
  BY NatLessThanWellFounded DEF OpToRel
<1>2. PICK m \in T : \A k \in Nat : <<k, m>> \in R => k \notin T
  BY <1>1, WFMin
<1>3. \A k \in T : <<k, m>> \in R <=> k < m
  OBVIOUS
<1> HIDE DEF R
<1>4. \A k \in T : ~(k < m)
  BY <1>2, <1>3
<1> QED
  BY <1>4

LEMMA MinIsLeast ==
  ASSUME NEW T \in SUBSET Nat, T # {}
  PROVE  Min(T) \in T /\ \A k \in T : Min(T) <= k
BY LeastNumber DEF Min

\* The pieces of a list of lists, one after the other: the recursion of FlattenSeq.
Flattens(f, ss, n) ==
  f = [i \in 1..n |-> IF i = 1 THEN ss[i] ELSE f[i-1] \o ss[i]]

LEMMA FlattensExists ==
  ASSUME NEW ss, NEW n \in Nat PROVE \E f : Flattens(f, ss, n)
<1> DEFINE T == {m \in Nat : ~ \E f : Flattens(f, ss, m)}
<1> SUFFICES ASSUME T # {} PROVE FALSE
  OBVIOUS
<1>1. PICK m \in T : \A k \in T : m <= k
  <2>1. T \in SUBSET Nat
    OBVIOUS
  <2> HIDE DEF T
  <2> QED
    BY <2>1, LeastNumber
<1>2. m # 0
  <2>1. Flattens([i \in 1..0 |-> i], ss, 0)
    BY DEF Flattens
  <2> QED
    BY <2>1
<1>3. PICK g : Flattens(g, ss, m - 1)
  <2>1. m - 1 \in Nat /\ m - 1 \notin T
    BY <1>1, <1>2
  <2> QED
    BY <2>1
<1>4. m \in Nat /\ DOMAIN g = 1..(m-1)
      /\ \A i \in 1..(m-1) : g[i] = IF i = 1 THEN ss[i] ELSE g[i-1] \o ss[i]
  BY <1>1, <1>3 DEF Flattens
<1> DEFINE f == [i \in 1..m |-> IF i = 1 THEN ss[i]
                                ELSE IF i < m THEN g[i] ELSE g[m-1] \o ss[m]]
<1>5. /\ DOMAIN f = 1..m /\ f = [i \in 1..m |-> f[i]]
      /\ \A i \in 1..m : f[i] = IF i = 1 THEN ss[i]
                                ELSE IF i < m THEN g[i] ELSE g[m-1] \o ss[m]
  OBVIOUS
<1> HIDE DEF f, T
<1>6. \A i \in 1..(m-1) : f[i] = g[i]
  <2> SUFFICES ASSUME NEW i \in 1..(m-1) PROVE f[i] = g[i]
    OBVIOUS
  <2>1. i \in 1..m /\ i < m
    BY <1>4
  <2>2. CASE i = 1
    BY <1>4, <1>5, <2>1, <2>2
  <2>3. CASE i # 1
    BY <1>5, <2>1, <2>3
  <2> QED
    BY <2>2, <2>3
<1>7. ASSUME NEW i \in 1..m PROVE f[i] = IF i = 1 THEN ss[i] ELSE f[i-1] \o ss[i]
  <2>1. CASE i = 1
    BY <1>5, <2>1
  <2>2. CASE i # 1 /\ i < m
    <3>1. i \in 1..(m-1) /\ i - 1 \in 1..(m-1)
      BY <1>4, <2>2
    <3>2. f[i] = g[i] /\ f[i-1] = g[i-1]
      BY <1>6, <3>1
    <3> QED
      BY <1>4, <2>2, <3>1, <3>2
  <2>3. CASE i # 1 /\ i = m
    <3>1. m - 1 \in 1..(m-1)
      BY <1>4, <2>3
    <3>2. f[m-1] = g[m-1]
      BY <1>6, <3>1
    <3>3. m \in 1..m /\ m # 1 /\ ~(m < m)
      BY <1>4, <2>3
    <3>4. f[m] = g[m-1] \o ss[m]
      BY <1>5, <3>3
    <3> QED
      BY <2>3, <3>2, <3>4
  <2> QED
    BY <1>4, <2>1, <2>2, <2>3
<1>8. f = [i \in 1..m |-> IF i = 1 THEN ss[i] ELSE f[i-1] \o ss[i]]
  BY <1>5, <1>7
<1>9. Flattens(f, ss, m)
  BY <1>8 DEF Flattens
<1> QED
  BY <1>1, <1>9 DEF T

\* FlattenSeq is the last of those lists.
LEMMA FlattenedLast ==
  ASSUME NEW S, NEW ss \in Seq(S), ss # <<>>
  PROVE  \E f : Flattens(f, ss, Len(ss)) /\ FlattenSeq(ss) = f[Len(ss)]
<1>1. Len(ss) \in Nat /\ Len(ss) # 0
  OBVIOUS
<1> DEFINE f == CHOOSE f : Flattens(f, ss, Len(ss))
<1>2. Flattens(f, ss, Len(ss))
  BY <1>1, FlattensExists
<1>3. f = CHOOSE g : g = [i \in 1..Len(ss) |-> IF i = 1 THEN ss[i] ELSE g[i-1] \o ss[i]]
  BY DEF Flattens
<1>4. FlattenSeq(ss) = f[Len(ss)]
  BY <1>1, <1>3 DEF FlattenSeq
<1> QED
  BY <1>2, <1>4

\* Every piece stands somewhere in the whole, and everything in it is of a piece.
Placed(whole, ss, n) ==
  \A i \in 1..Len(whole) : \E k \in 1..n, before \in Nat :
    /\ i - before \in 1..Len(ss[k])
    /\ \A j \in 1..Len(ss[k]) : before + j \in 1..Len(whole) /\ whole[before + j] = ss[k][j]

LEMMA FlattenPlaced ==
  ASSUME NEW S, NEW ss \in Seq(Seq(S))
  PROVE  FlattenSeq(ss) \in Seq(S) /\ Placed(FlattenSeq(ss), ss, Len(ss))
<1>1. CASE ss = <<>>
  BY <1>1 DEF FlattenSeq, Placed
<1>2. CASE ss # <<>>
  <2> DEFINE n == Len(ss)
  <2>1. PICK f : Flattens(f, ss, n) /\ FlattenSeq(ss) = f[n]
    BY <1>2, FlattenedLast
  <2>2. n \in Nat /\ n # 0 /\ \A k \in 1..n : ss[k] \in Seq(S)
    BY <1>2
  <2>3. \A i \in 1..n : f[i] = IF i = 1 THEN ss[i] ELSE f[i-1] \o ss[i]
    BY <2>1 DEF Flattens
  <2> DEFINE Good(i) == f[i] \in Seq(S) /\ Placed(f[i], ss, i)
             T == {i \in 1..n : ~Good(i)}
  <2> HIDE DEF n
  <2>4. SUFFICES ASSUME T # {} PROVE FALSE
    <3>1. n \in 1..n
      BY <2>2
    <3> QED
      BY <2>1, <3>1 DEF n
  <2>5. PICK m \in T : \A k \in T : m <= k
    <3>1. T \in SUBSET Nat
      BY <2>2
    <3> HIDE DEF T
    <3> QED
      BY <2>4, <3>1, LeastNumber
  <2>6. CASE m = 1
    <3>1. f[1] = ss[1] /\ ss[1] \in Seq(S) /\ m \in 1..n
      BY <2>2, <2>3, <2>5, <2>6
    <3>2. \A i \in 1..Len(f[1]) : 1 \in 1..1 /\ i - 0 \in 1..Len(ss[1])
            /\ \A j \in 1..Len(ss[1]) : 0 + j \in 1..Len(f[1]) /\ f[1][0 + j] = ss[1][j]
      BY <3>1
    <3>3. Placed(f[1], ss, 1)
      BY <3>2 DEF Placed
    <3> QED
      BY <2>5, <2>6, <3>1, <3>3
  <2>7. CASE m # 1
    <3>1. m \in 1..n /\ m - 1 \in 1..n /\ m - 1 \in Nat
      BY <2>2, <2>5, <2>7
    <3>2. f[m-1] \in Seq(S) /\ Placed(f[m-1], ss, m-1)
      BY <2>2, <2>5, <3>1
    <3>3. f[m] = f[m-1] \o ss[m] /\ ss[m] \in Seq(S)
      BY <2>2, <2>3, <2>7, <3>1
    <3> DEFINE a == f[m-1]  b == ss[m]  w == f[m]
    <3>4. a \in Seq(S) /\ b \in Seq(S) /\ w = a \o b
      BY <3>2, <3>3
    <3> HIDE DEF a, b, w
    <3>5. /\ w \in Seq(S) /\ Len(w) = Len(a) + Len(b) /\ Len(a) \in Nat /\ Len(b) \in Nat
          /\ \A j \in 1..Len(a) : w[j] = a[j]
          /\ \A j \in 1..Len(b) : w[Len(a) + j] = b[j]
      BY <3>4
    <3>6. ASSUME NEW i \in 1..Len(w)
          PROVE \E k \in 1..m, before \in Nat :
                  /\ i - before \in 1..Len(ss[k])
                  /\ \A j \in 1..Len(ss[k]) :
                       before + j \in 1..Len(w) /\ w[before + j] = ss[k][j]
      <4>1. CASE i <= Len(a)
        <5>1. i \in 1..Len(a)
          BY <3>5, <4>1
        <5>2. PICK k \in 1..(m-1), before \in Nat :
                /\ i - before \in 1..Len(ss[k])
                /\ \A j \in 1..Len(ss[k]) :
                     before + j \in 1..Len(a) /\ a[before + j] = ss[k][j]
          BY <3>2, <5>1 DEF Placed, a
        <5>3. \A j \in 1..Len(ss[k]) : before + j \in 1..Len(w) /\ w[before + j] = ss[k][j]
          <6> SUFFICES ASSUME NEW j \in 1..Len(ss[k])
                       PROVE before + j \in 1..Len(w) /\ w[before + j] = ss[k][j]
            OBVIOUS
          <6> DEFINE at == before + j
          <6>1. at \in 1..Len(a) /\ a[at] = ss[k][j]
            BY <5>2
          <6> HIDE DEF at
          <6>2. w[at] = a[at]
            BY <3>5, <6>1
          <6>3. at \in 1..Len(w)
            BY <3>5, <6>1
          <6>4. at \in 1..Len(w) /\ w[at] = ss[k][j]
            BY <6>1, <6>2, <6>3
          <6> QED
            BY <6>4 DEF at
        <5>4. k \in 1..m
          BY <3>1, <5>2
        <5> QED
          BY <5>2, <5>3, <5>4
      <4>2. CASE i > Len(a)
        <5>1. m \in 1..m /\ Len(a) \in Nat /\ i - Len(a) \in 1..Len(ss[m])
          BY <3>1, <3>5, <4>2 DEF b
        <5>2. \A j \in 1..Len(ss[m]) :
                Len(a) + j \in 1..Len(w) /\ w[Len(a) + j] = ss[m][j]
          BY SMTT(40), <3>5 DEF b
        <5> QED
          BY <5>1, <5>2
      <4> QED
        BY <3>5, <4>1, <4>2
    <3>7. Placed(w, ss, m)
      BY <3>6 DEF Placed
    <3> QED
      BY <2>5, <3>5, <3>7 DEF w
  <2> QED
    BY <2>6, <2>7
<1> QED
  BY <1>1, <1>2

----------------------------------------------------------------------------
(* The producers of a turn (TurnProducers, as instanced by MCSessions).    *)

Written == [ran : {TRUE}, lastRunAt : Nat, of : Producing!ProducerIds \X Producing!SessionTargets]
Outputs == {Producing!Nothing} \cup Written
Outcomes == [status : {"skipped", "cached", "running", "ran"}, entry : Outputs]

\* The turn of t while it has one: what comes of each command t has loaded.
TurnsOf(t) ==
  [at : {"waiting", "byhand", "given"}, target : Producing!SessionTargets, began : Nat,
   preview : BOOLEAN, results : [DOMAIN producers[t][1] -> Outcomes]]

\* What a program has loaded are commands some configuration names.
LoadedKnown(t) ==
  producers[t] # <<>> =>
    \A k \in DOMAIN producers[t][1] : producers[t][1][k].id \in Producing!ProducerIds

ProducersTyped ==
  /\ clock \in Nat
  /\ turnConfig \in TurnConfigs
  /\ DOMAIN producers = Runners /\ DOMAIN turn = Runners
  /\ outputs \in [Producing!Keys -> Outputs]

\* The key of an entry says whose it is, and nothing was printed in the future.
OutputsKeyed ==
  \A x \in Producing!Keys : outputs[x].ran =>
    /\ outputs[x].of = <<x[1], [channel |-> x[2], type |-> x[3]]>>
    /\ outputs[x].lastRunAt <= clock

\* What a turn of t ran itself is its own, and what it was given was fresh when it began.
OwnOrFresh(t) ==
  turn[t].at # "idle" => \A k \in DOMAIN turn[t].results :
    LET entry == turn[t].results[k].entry
        p == producers[t][1][k]
        given == turn[t].results[k].status
    IN /\ given = "ran" => /\ entry.ran /\ entry.lastRunAt <= clock
                           /\ entry.of = <<p.id, turn[t].target>>
       /\ given = "cached" => /\ entry.of = <<p.id, turn[t].target>>
                              /\ entry.lastRunAt <= turn[t].began
                              /\ turn[t].began < entry.lastRunAt + p.cacheMs

QuietTurn(t) ==
  turn[t].at # "idle" =>
    /\ \A k \in DOMAIN turn[t].results :
         turn[t].results[k].status # "skipped" =>
           /\ ~turn[t].preview
           /\ Producing!ProducerMatchesChannel(producers[t][1][k], turn[t].target.channel)
    /\ turn[t].at = "byhand" =>
         \A j, k \in DOMAIN turn[t].results :
           turn[t].results[j].status # "skipped" /\ turn[t].results[k].status # "skipped" => j = k

TurnSound(t) ==
  /\ LoadedKnown(t)
  /\ turn[t] # Producing!Idle => producers[t] # <<>> /\ turn[t] \in TurnsOf(t)
  /\ OwnOrFresh(t) /\ QuietTurn(t)

ProducersInv == ProducersTyped /\ OutputsKeyed /\ \A t \in Runners : TurnSound(t)

LEMMA WrittenOutput == ASSUME NEW e \in Outputs, e.ran PROVE e \in Written /\ e.lastRunAt \in Nat
<1>1. e # Producing!Nothing
  BY DEF Producing!Nothing
<1>2. e \in Written
  BY <1>1 DEF Outputs
<1> QED
  BY <1>2 DEF Written

LEMMA ProducersStart == Producing!Init => ProducersInv
<1> SUFFICES ASSUME Producing!Init PROVE ProducersInv
  OBVIOUS
<1>1. \A t \in Runners : turn[t] = Producing!Idle /\ turn[t].at = "idle" /\ producers[t] = <<>>
  BY DEF Producing!Init, Producing!Idle
<1>2. ProducersTyped
  BY DEF Producing!Init, ProducersTyped, Outputs, Producing!Nothing
<1>3. OutputsKeyed
  BY DEF Producing!Init, OutputsKeyed, Producing!Nothing
<1>4. \A t \in Runners : TurnSound(t)
  BY <1>1 DEF TurnSound, LoadedKnown, OwnOrFresh, QuietTurn
<1> QED
  BY <1>2, <1>3, <1>4 DEF ProducersInv

\* A turn nobody touches stays sound as time passes.
LEMMA TurnOlder ==
  ASSUME NEW t \in Runners, TurnSound(t), turn'[t] = turn[t], producers'[t] = producers[t],
         clock \in Nat, clock' \in Nat, clock <= clock'
  PROVE  TurnSound(t)'
<1>1. LoadedKnown(t)' /\ (turn[t] # Producing!Idle => producers[t] # <<>> /\ turn[t] \in TurnsOf(t))'
  BY DEF TurnSound, LoadedKnown, TurnsOf
<1>2. QuietTurn(t)'
  BY DEF TurnSound, QuietTurn
<1>3. ASSUME turn[t].at # "idle", NEW k \in DOMAIN turn[t].results
      PROVE  turn[t].results[k].entry \in Outputs
  BY <1>3 DEF TurnSound, TurnsOf, Producing!Idle, Outcomes
<1>4. OwnOrFresh(t)'
  BY <1>3, WrittenOutput DEF TurnSound, OwnOrFresh
<1> QED
  BY <1>1, <1>2, <1>4 DEF TurnSound

\* So does the cache.
LEMMA OutputsOlder ==
  ASSUME ProducersTyped, OutputsKeyed, outputs' = outputs, clock' \in Nat, clock <= clock'
  PROVE  OutputsKeyed'
<1>1. clock \in Nat /\ \A x \in Producing!Keys : outputs[x] \in Outputs
  BY DEF ProducersTyped
<1> QED
  BY <1>1, WrittenOutput DEF OutputsKeyed

\* What changes one turn and not the cache.
LEMMA OneTurn ==
  ASSUME ProducersInv, NEW t \in Runners, DOMAIN turn' = Runners, DOMAIN producers' = Runners,
         \A s \in Runners \ {t} : turn'[s] = turn[s] /\ producers'[s] = producers[s],
         UNCHANGED <<clock, turnConfig, outputs>>, TurnSound(t)'
  PROVE  ProducersInv'
<1>1. ProducersTyped' /\ OutputsKeyed'
  BY OutputsOlder DEF ProducersInv, ProducersTyped
<1>2. \A s \in Runners \ {t} : TurnSound(s)'
  BY TurnOlder DEF ProducersInv, ProducersTyped
<1> QED
  BY <1>1, <1>2 DEF ProducersInv

LEMMA ProducersSteady == ASSUME ProducersInv, UNCHANGED producersVars PROVE ProducersInv'
BY TurnOlder, OutputsOlder DEF ProducersInv, ProducersTyped, producersVars

LEMMA LoadKeeps == ASSUME ProducersInv, NEW t \in Runners, Producing!Load(t) PROVE ProducersInv'
<1> DEFINE list == Producing!ResolveContextTurnConfig(turnConfig)
<1>1. producers'[t] = <<list>> /\ turn' = turn /\ producers[t] = <<>>
  BY DEF ProducersInv, ProducersTyped, Producing!Load
<1>2. turn[t] = Producing!Idle
  BY <1>1 DEF ProducersInv, TurnSound
<1>3. \A k \in DOMAIN list : list[k].id \in Producing!ProducerIds
  BY DEF ProducersInv, ProducersTyped, Producing!ResolveContextTurnConfig,
    Producing!ResolveContextTurnProducer, Producing!ProducerIds
<1>4. TurnSound(t)'
  <2>1. LoadedKnown(t)'
    BY <1>1, <1>3 DEF LoadedKnown
  <2>2. turn'[t].at = "idle"
    BY <1>1, <1>2 DEF Producing!Idle
  <2> QED
    BY <1>1, <1>2, <2>1, <2>2 DEF TurnSound, OwnOrFresh, QuietTurn
<1> QED
  BY <1>4, OneTurn DEF ProducersInv, ProducersTyped, Producing!Load

\* What becomes of a command when a turn begins.
LEMMA OutcomeSound ==
  ASSUME ProducersInv, NEW p, p.id \in Producing!ProducerIds,
         NEW target \in Producing!SessionTargets, NEW dry \in BOOLEAN,
         NEW o, o = Producing!Outcome(p, target, dry)
  PROVE  /\ o \in Outcomes
         /\ o.status # "skipped" =>
              ~dry /\ Producing!ProducerMatchesChannel(p, target.channel)
         /\ o.status # "ran"
         /\ o.status = "cached" => /\ o.entry.of = <<p.id, target>>
                                   /\ o.entry.lastRunAt <= clock
                                   /\ clock < o.entry.lastRunAt + p.cacheMs
<1> DEFINE x == Producing!ContextTurnProducerStateKey(p.id, target)
           entry == outputs[x]
<1>1. x \in Producing!Keys /\ x = <<p.id, target.channel, target.type>>
      /\ target = [channel |-> target.channel, type |-> target.type]
  BY DEF Producing!ContextTurnProducerStateKey, Producing!Keys, Producing!SessionTargets
<1>2. entry \in Outputs
  BY <1>1 DEF ProducersInv, ProducersTyped
<1>3. entry.ran => entry.of = <<p.id, target>> /\ entry.lastRunAt <= clock
  BY <1>1 DEF ProducersInv, OutputsKeyed
<1>4. \/ o = [status |-> "skipped", entry |-> Producing!Nothing]
      \/ /\ o = [status |-> "running", entry |-> Producing!Nothing]
         /\ ~dry /\ Producing!ProducerMatchesChannel(p, target.channel)
      \/ /\ o = [status |-> "cached", entry |-> entry]
         /\ ~dry /\ Producing!ProducerMatchesChannel(p, target.channel)
         /\ entry.ran /\ clock < entry.lastRunAt + p.cacheMs
  BY DEF Producing!Outcome, Producing!Result, Producing!IsProducerFresh
<1> HIDE DEF entry
<1> QED
  BY <1>2, <1>3, <1>4 DEF Outcomes, Outputs

\* A turn t begins, at all its commands or at one by hand.
LEMMA BegunSound ==
  ASSUME ProducersInv, NEW t \in Runners, producers[t] # <<>>, producers' = producers,
         clock' = clock, turnConfig' = turnConfig, outputs' = outputs,
         NEW at \in {"waiting", "byhand"}, NEW target \in Producing!SessionTargets,
         NEW dry \in BOOLEAN, NEW results \in [DOMAIN producers[t][1] -> Outcomes],
         turn' = [turn EXCEPT ![t] = Producing!Preparing(at, target, dry, results)],
         \A k \in DOMAIN producers[t][1] :
           LET o == results[k]  p == producers[t][1][k]
           IN /\ o.status # "skipped" =>
                   ~dry /\ Producing!ProducerMatchesChannel(p, target.channel)
              /\ o.status # "ran"
              /\ o.status = "cached" => /\ o.entry.of = <<p.id, target>>
                                        /\ o.entry.lastRunAt <= clock
                                        /\ clock < o.entry.lastRunAt + p.cacheMs,
         at = "byhand" => \A j, k \in DOMAIN results :
            results[j].status # "skipped" /\ results[k].status # "skipped" => j = k
  PROVE  ProducersInv'
<1>1. turn'[t] = [at |-> at, target |-> target, began |-> clock, preview |-> dry,
                  results |-> results]
  BY DEF ProducersInv, ProducersTyped, Producing!Preparing
<1>2. turn'[t] \in TurnsOf(t)'
  BY <1>1 DEF ProducersInv, ProducersTyped, TurnsOf
<1>3. LoadedKnown(t)'
  BY DEF ProducersInv, TurnSound, LoadedKnown
<1>4. OwnOrFresh(t)'
  BY <1>1 DEF OwnOrFresh
<1>5. QuietTurn(t)'
  BY <1>1 DEF QuietTurn
<1>6. TurnSound(t)'
  BY <1>2, <1>3, <1>4, <1>5 DEF TurnSound
<1> QED
  BY <1>6, OneTurn DEF ProducersInv, ProducersTyped

LEMMA BeginKeeps ==
  ASSUME ProducersInv, NEW t \in Runners, NEW target \in Producing!SessionTargets,
         NEW dry \in BOOLEAN, Producing!Begin(t, target, dry)
  PROVE  ProducersInv'
<1> DEFINE list == producers[t][1]
           results == [k \in DOMAIN list |-> Producing!Outcome(list[k], target, dry)]
<1>1. producers[t] # <<>>
      /\ turn' = [turn EXCEPT ![t] = Producing!Preparing("waiting", target, dry, results)]
  BY DEF Producing!Begin
<1>2. \A k \in DOMAIN list : list[k].id \in Producing!ProducerIds
  BY <1>1 DEF ProducersInv, TurnSound, LoadedKnown
<1>3. ASSUME NEW k \in DOMAIN list
      PROVE  LET o == results[k]  p == list[k]
             IN /\ o \in Outcomes
                /\ o.status # "skipped" =>
                     ~dry /\ Producing!ProducerMatchesChannel(p, target.channel)
                /\ o.status # "ran"
                /\ o.status = "cached" => /\ o.entry.of = <<p.id, target>>
                                          /\ o.entry.lastRunAt <= clock
                                          /\ clock < o.entry.lastRunAt + p.cacheMs
  <2> HIDE DEF list
  <2>1. results[k] = Producing!Outcome(list[k], target, dry)
    OBVIOUS
  <2> HIDE DEF results
  <2> QED
    BY <1>2, <2>1, OutcomeSound
<1>4. results \in [DOMAIN list -> Outcomes]
  BY <1>3
<1> HIDE DEF results
<1> QED
  BY <1>1, <1>3, <1>4, BegunSound DEF Producing!Begin

LEMMA ByHandKeeps ==
  ASSUME ProducersInv, NEW t \in Runners, NEW id, NEW channel \in Channels \cup {None},
         NEW asked \in Producing!Asked, Producing!CmdContextProducersRun(t, id, channel, asked)
  PROVE  ProducersInv'
<1> DEFINE list == producers[t][1]
           target == [channel |-> channel, type |-> Producing!TypeOr(asked, channel)]
           byHand(found) == [k \in DOMAIN list |->
              Producing!Result(IF k = found THEN "running" ELSE "skipped", Producing!Nothing)]
<1>1. PICK found : /\ Producing!ProducerMatchesChannel(list[found], channel)
                   /\ turn' = [turn EXCEPT ![t] =
                                 Producing!Preparing("byhand", target, FALSE, byHand(found))]
  BY DEF Producing!CmdContextProducersRun
<1> DEFINE results == byHand(found)
<1>2. target \in Producing!SessionTargets
  BY ProducersAssumptions DEF Producing!ProducersAssumption, Producing!SessionTargets,
    Producing!TypeOr, Producing!Asked
<1>3. \A k \in DOMAIN list :
        results[k] = [status |-> IF k = found THEN "running" ELSE "skipped",
                      entry |-> Producing!Nothing]
  BY DEF Producing!Result
<1>4. DOMAIN results = DOMAIN list /\ results = [k \in DOMAIN list |-> results[k]]
  OBVIOUS
<1>5. target.channel = channel
  OBVIOUS
<1>6. producers[t] # <<>> /\ UNCHANGED <<clock, turnConfig, producers, outputs>>
  BY DEF Producing!CmdContextProducersRun
<1>7. turn' = [turn EXCEPT ![t] = Producing!Preparing("byhand", target, FALSE, results)]
  BY <1>1
<1> HIDE DEF results, target, byHand
<1>8. ASSUME NEW k \in DOMAIN list
      PROVE  /\ results[k] \in Outcomes
             /\ results[k].status \in {"running", "skipped"}
             /\ results[k].status # "skipped" => k = found
  <2>1. Producing!Nothing \in Outputs
    BY DEF Outputs
  <2>2. CASE k = found
    <3>1. results[k] = [status |-> "running", entry |-> Producing!Nothing]
      BY <1>3, <2>2
    <3> QED
      BY <2>1, <2>2, <3>1 DEF Outcomes
  <2>3. CASE k # found
    <3>1. results[k] = [status |-> "skipped", entry |-> Producing!Nothing]
      BY <1>3, <2>3
    <3> QED
      BY <2>1, <3>1 DEF Outcomes
  <2> QED
    BY <2>2, <2>3
<1>9. results \in [DOMAIN list -> Outcomes]
  BY <1>4, <1>8
<1>10. \A k \in DOMAIN list :
         LET o == results[k]  p == list[k]
         IN /\ o.status # "skipped" =>
                 ~FALSE /\ Producing!ProducerMatchesChannel(p, target.channel)
            /\ o.status # "ran"
            /\ o.status = "cached" => /\ o.entry.of = <<p.id, target>>
                                      /\ o.entry.lastRunAt <= clock
                                      /\ clock < o.entry.lastRunAt + p.cacheMs
  BY <1>1, <1>5, <1>8
<1>11. \A j, k \in DOMAIN results :
         results[j].status # "skipped" /\ results[k].status # "skipped" => j = k
  BY <1>4, <1>8
<1>12. clock' = clock /\ turnConfig' = turnConfig /\ outputs' = outputs /\ producers' = producers
  BY <1>6
<1> HIDE DEF list
<1>13. results \in [DOMAIN producers[t][1] -> Outcomes]
  BY <1>9 DEF list
<1> QED
  BY <1>2, <1>6, <1>7, <1>10, <1>11, <1>12, <1>13, BegunSound DEF list

LEMMA RunKeeps ==
  ASSUME ProducersInv, NEW t \in Runners, turn[t].at # "idle",
         NEW k \in DOMAIN turn[t].results, Producing!RunContextTurnProducer(t, k)
  PROVE  ProducersInv'
<1> DEFINE p == producers[t][1][k]
           entry == Producing!Entry(clock, p.id, turn[t].target)
           o == Producing!Result("ran", entry)
<1>1. producers[t] # <<>> /\ turn[t] \in TurnsOf(t)
  BY DEF ProducersInv, TurnSound, Producing!Idle
<1>2. turn'[t] = [turn[t] EXCEPT !.results = [@ EXCEPT ![k] = o]]
  BY DEF ProducersInv, ProducersTyped, Producing!RunContextTurnProducer
<1>3. entry = [ran |-> TRUE, lastRunAt |-> clock, of |-> <<p.id, turn[t].target>>]
  BY DEF Producing!Entry
<1>4. o = [status |-> "ran", entry |-> entry]
  BY DEF Producing!Result
<1>5. p.id \in Producing!ProducerIds
  BY <1>1 DEF ProducersInv, TurnSound, LoadedKnown, TurnsOf
<1>6. o \in Outcomes
  <2>1. clock \in Nat /\ turn[t].target \in Producing!SessionTargets
    BY <1>1 DEF ProducersInv, ProducersTyped, TurnsOf
  <2>2. entry \in Written
    BY <1>3, <1>5, <2>1 DEF Written
  <2> QED
    BY <1>4, <2>2 DEF Outcomes, Outputs
<1>7. /\ turn'[t].at = turn[t].at /\ turn'[t].target = turn[t].target
      /\ turn'[t].began = turn[t].began /\ turn'[t].preview = turn[t].preview
      /\ turn'[t].results = [turn[t].results EXCEPT ![k] = o]
      /\ turn'[t] \in TurnsOf(t)
  BY <1>1, <1>2, <1>6 DEF TurnsOf
<1> HIDE DEF o, entry
<1>8. DOMAIN turn'[t].results = DOMAIN turn[t].results /\ turn'[t].results[k] = o
      /\ \A j \in DOMAIN turn[t].results : j # k => turn'[t].results[j] = turn[t].results[j]
  BY <1>7
<1>9. producers' = producers /\ clock' = clock /\ turn[t].results[k].status = "running"
      /\ o.status = "ran" /\ o.entry = entry
  BY <1>4 DEF Producing!RunContextTurnProducer
<1>10. LoadedKnown(t)' /\ turn'[t] \in TurnsOf(t)'
  BY <1>7, <1>9 DEF ProducersInv, TurnSound, LoadedKnown, TurnsOf
<1>11. OwnOrFresh(t)'
  <2> SUFFICES ASSUME NEW j \in DOMAIN turn'[t].results
               PROVE LET e == turn'[t].results[j].entry
                         q == producers[t][1][j]
                         given == turn'[t].results[j].status
                     IN /\ given = "ran" => /\ e.ran /\ e.lastRunAt <= clock
                                            /\ e.of = <<q.id, turn[t].target>>
                        /\ given = "cached" => /\ e.of = <<q.id, turn[t].target>>
                                               /\ e.lastRunAt <= turn[t].began
                                               /\ turn[t].began < e.lastRunAt + q.cacheMs
    BY <1>7, <1>9 DEF OwnOrFresh
  <2>1. CASE j = k
    BY <2>1, <1>3, <1>8, <1>9 DEF ProducersInv, ProducersTyped
  <2>2. CASE j # k
    BY <2>2, <1>8 DEF ProducersInv, TurnSound, OwnOrFresh
  <2> QED
    BY <2>1, <2>2
<1>12. QuietTurn(t)'
  <2>1. \A j \in DOMAIN turn'[t].results :
          turn'[t].results[j].status # "skipped" <=> turn[t].results[j].status # "skipped"
    BY <1>8, <1>9
  <2> QED
    BY <2>1, <1>7, <1>8, <1>9 DEF ProducersInv, TurnSound, QuietTurn
<1>13. TurnSound(t)'
  BY <1>1, <1>9, <1>10, <1>11, <1>12 DEF TurnSound
<1> QED
  BY <1>13, OneTurn DEF ProducersInv, ProducersTyped, Producing!RunContextTurnProducer

LEMMA RememberKeeps ==
  ASSUME ProducersInv, NEW t \in Runners, Producing!Remember(t) PROVE ProducersInv'
<1>1. turn[t].at = "waiting" /\ producers' = producers /\ clock' = clock /\ turnConfig' = turnConfig
      /\ turn' = [turn EXCEPT ![t].at = "given"]
  BY DEF Producing!Remember
<1>2. producers[t] # <<>> /\ turn[t] \in TurnsOf(t)
  BY <1>1 DEF ProducersInv, TurnSound, Producing!Idle
<1> DEFINE ran == {k \in DOMAIN turn[t].results : turn[t].results[k].status = "ran"}
           key(k) == Producing!ContextTurnProducerStateKey(producers[t][1][k].id, turn[t].target)
<1>3. ASSUME NEW x \in Producing!Keys, x \in DOMAIN Producing!Remembered(t)
      PROVE  LET e == Producing!Remembered(t)[x]
             IN /\ e \in Outputs /\ e.lastRunAt <= clock
                /\ e.of = <<x[1], [channel |-> x[2], type |-> x[3]]>>
  <2>1. \E k \in ran : key(k) = x
    BY SMTT(40), <1>3 DEF Producing!Remembered
  <2>2. PICK k \in ran : key(k) = x /\ Producing!Remembered(t)[x] = turn[t].results[k].entry
    BY <1>3, <2>1 DEF Producing!Remembered
  <2>3. x = <<producers[t][1][k].id, turn[t].target.channel, turn[t].target.type>>
        /\ turn[t].target = [channel |-> turn[t].target.channel, type |-> turn[t].target.type]
    BY <1>2, <2>2 DEF Producing!ContextTurnProducerStateKey, TurnsOf, Producing!SessionTargets
  <2>4. turn[t].results[k] \in Outcomes /\ turn[t].results[k].status = "ran"
    BY <1>2 DEF TurnsOf
  <2>5. turn[t].results[k].entry.lastRunAt <= clock
        /\ turn[t].results[k].entry.of = <<producers[t][1][k].id, turn[t].target>>
    BY <1>1, <2>4 DEF ProducersInv, TurnSound, OwnOrFresh
  <2> QED
    BY <2>2, <2>3, <2>4, <2>5 DEF Outcomes
<1>4. outputs' = [x \in Producing!Keys |-> IF x \in DOMAIN Producing!Remembered(t)
                                           THEN Producing!Remembered(t)[x] ELSE outputs[x]]
  BY DEF Producing!Remember
<1>5. outputs' \in [Producing!Keys -> Outputs]
  BY <1>3, <1>4 DEF ProducersInv, ProducersTyped
<1>6. OutputsKeyed'
  BY <1>1, <1>3, <1>4 DEF ProducersInv, OutputsKeyed
<1>7. ProducersTyped'
  BY <1>1, <1>5 DEF ProducersInv, ProducersTyped
<1>8. turn'[t] = [turn[t] EXCEPT !.at = "given"] /\ \A s \in Runners \ {t} : turn'[s] = turn[s]
  BY <1>1 DEF ProducersInv, ProducersTyped
<1>9. turn'[t] \in TurnsOf(t) /\ turn'[t].at = "given" /\ turn'[t].target = turn[t].target
      /\ turn'[t].began = turn[t].began /\ turn'[t].preview = turn[t].preview
      /\ turn'[t].results = turn[t].results
  BY <1>2, <1>8 DEF TurnsOf
<1>10. LoadedKnown(t)' /\ turn'[t] \in TurnsOf(t)'
  BY <1>1, <1>9 DEF ProducersInv, TurnSound, LoadedKnown, TurnsOf
<1>11. OwnOrFresh(t)'
  BY <1>1, <1>9 DEF ProducersInv, TurnSound, OwnOrFresh
<1>12. QuietTurn(t)'
  BY <1>1, <1>9 DEF ProducersInv, TurnSound, QuietTurn
<1>13. TurnSound(t)'
  BY <1>1, <1>2, <1>10, <1>11, <1>12 DEF TurnSound
<1>14. \A s \in Runners \ {t} : TurnSound(s)'
  BY <1>1, <1>8, TurnOlder DEF ProducersInv, ProducersTyped
<1> QED
  BY <1>6, <1>7, <1>13, <1>14 DEF ProducersInv

LEMMA OverKeeps ==
  ASSUME ProducersInv, NEW t \in Runners, NEW ends \in BOOLEAN, Producing!Over(t, ends)
  PROVE  ProducersInv'
<1>1. turn'[t] = Producing!Idle /\ turn'[t].at = "idle"
      /\ (producers'[t] = <<>> \/ producers'[t] = producers[t])
  BY DEF ProducersInv, ProducersTyped, Producing!Over, Producing!Idle
<1>2. LoadedKnown(t)'
  BY <1>1 DEF ProducersInv, TurnSound, LoadedKnown
<1>3. TurnSound(t)'
  BY <1>1, <1>2 DEF TurnSound, OwnOrFresh, QuietTurn
<1> QED
  BY <1>3, OneTurn DEF ProducersInv, ProducersTyped, Producing!Over

LEMMA ProducersKept == ASSUME ProducersInv, Producing!Next PROVE ProducersInv'
<1>1. ASSUME Producing!Tick PROVE ProducersInv'
  <2>1. clock' \in Nat /\ clock <= clock' /\ UNCHANGED <<turnConfig, producers, outputs, turn>>
    BY <1>1 DEF Producing!Tick, ProducersInv, ProducersTyped
  <2>2. ProducersTyped' /\ OutputsKeyed'
    BY <2>1, OutputsOlder DEF ProducersInv, ProducersTyped
  <2> QED
    BY <2>1, <2>2, TurnOlder DEF ProducersInv, ProducersTyped
<1>2. ASSUME Producing!EditTurnConfig PROVE ProducersInv'
  <2>1. turnConfig' \in TurnConfigs /\ UNCHANGED <<clock, producers, outputs, turn>>
    BY <1>2 DEF Producing!EditTurnConfig
  <2>2. ProducersTyped' /\ OutputsKeyed'
    BY <2>1, OutputsOlder DEF ProducersInv, ProducersTyped
  <2> QED
    BY <2>1, <2>2, TurnOlder DEF ProducersInv, ProducersTyped
<1> QED
  BY <1>1, <1>2, LoadKeeps, BeginKeeps, ByHandKeeps, RunKeeps, RememberKeeps, OverKeeps
  DEF Producing!Next

\* Listing looks at the cache as a turn that begins does.
LEMMA ListedAsServed == Producing!ListedServed
<1> SUFFICES ASSUME NEW t \in Runners, producers[t] # <<>>, NEW target \in Producing!SessionTargets,
                    NEW k \in DOMAIN Producing!CollectContextProducers(producers[t][1],
                                        target.channel, <<target.type>>)
             PROVE LET listed == Producing!CollectContextProducers(producers[t][1],
                                        target.channel, <<target.type>>)
                       got == Producing!Outcome(producers[t][1][k], target, FALSE).status
                   IN /\ (listed[k].status = "cached") <=> (got = "cached")
                      /\ (listed[k].status = "skipped") <=> (got = "skipped")
  BY DEF Producing!ListedServed
<1>1. target = [channel |-> target.channel, type |-> target.type]
  BY DEF Producing!SessionTargets
<1>2. Producing!TypeOr(<<target.type>>, target.channel) = target.type
  BY DEF Producing!TypeOr
<1> QED
  BY <1>1, <1>2 DEF Producing!CollectContextProducers, Producing!Outcome, Producing!Result

\* However turns of several programs overlap and configurations change, a turn is given
\* only fresh output of its own kind, previews run nothing, and listing tells what a turn
\* would get (context/turn/producer.ts, builder.ts).
THEOREM TurnsServedFresh == SessionsSpec => []ServedFresh
<1>1. SessionsInit => ProducersInv
  BY ProducersStart DEF SessionsInit
<1>2. ProducersInv /\ [SessionsNext]_everything => ProducersInv'
  BY ProducersKept, ProducersSteady DEF SessionsNext, everything
<1>3. ProducersInv => ServedFresh
  <2> SUFFICES ASSUME ProducersInv PROVE Producing!ServedFresh /\ Producing!PreviewsQuiet
    BY ListedAsServed DEF ServedFresh
  <2>1. Producing!ServedFresh
    BY DEF ProducersInv, TurnSound, OwnOrFresh, Producing!ServedFresh
  <2>2. Producing!PreviewsQuiet
    BY DEF ProducersInv, TurnSound, QuietTurn, Producing!PreviewsQuiet
  <2> QED
    BY <2>1, <2>2
<1> QED
  BY <1>1, <1>2, <1>3, PTL DEF SessionsSpec

----------------------------------------------------------------------------
(* The rows of the terminal's tree (SessionNavigator, as instanced by      *)
(* MCSessions).                                                            *)

LEMMA ListOfSet == ASSUME NEW S, IsFiniteSet(S) PROVE SetToSeq(S) \in Seq(S)
<1> DEFINE n == Cardinality(S)
<1>1. n \in Nat /\ ExistsBijection(1..n, S)
  BY FS_CardinalityType
<1>2. \E f \in [1..n -> S] : IsInjective(f)
  BY <1>1 DEF ExistsBijection, Bijection, Injection
<1>3. SetToSeq(S) \in [1..n -> S]
  BY <1>2 DEF SetToSeq
<1> QED
  BY <1>1, <1>3

\* SessionNavigator's own names for the operators of its libraries.
LEMMA SameOperators ==
  /\ \A S : Navigator!ToSet(S) = ToSet(S)
  /\ \A S : Navigator!IsFiniteSet(S) <=> IsFiniteSet(S)
  /\ \A S : Navigator!SetToSeq(S) = SetToSeq(S)
  /\ \A s : Navigator!FlattenSeq(s) = FlattenSeq(s)
  /\ \A T : Navigator!Min(T) = Min(T)
<1>1. \A S : Navigator!ToSet(S) = ToSet(S)
  BY DEF Navigator!ToSet, ToSet
<1>2. \A S : Navigator!IsFiniteSet(S) <=> IsFiniteSet(S)
  BY DEF Navigator!IsFiniteSet, IsFiniteSet
<1>3. \A S : Navigator!SetToSeq(S) = SetToSeq(S)
  BY DEF Navigator!SetToSeq, SetToSeq, Navigator!IsInjective, IsInjective, Navigator!Cardinality, Cardinality
<1>4. \A s : Navigator!FlattenSeq(s) = FlattenSeq(s)
  BY DEF Navigator!FlattenSeq, FlattenSeq
<1>5. \A T : Navigator!Min(T) = Min(T)
  BY DEF Navigator!Min, Min
<1> QED
  BY <1>1, <1>2, <1>3, <1>4, <1>5

TreeAgents == ToSet(Navigable)
TreeRows == {<<a>> : a \in TreeAgents} \cup Navigator!Keys

Queries == {"", "none"} \cup TreeAgents \cup LocalNames

Trees ==
  [sessions : SUBSET Navigator!Keys, query : Queries, expanded : SUBSET TreeAgents,
   index : Nat \ {0}, current : Navigator!Keys, revision : Nat]

\* A session's row is below its agent's.
AgentsAbove(rows) ==
  \A i \in 1..Len(rows) : Len(rows[i]) = 2 => \E j \in 1..i - 1 : rows[j] = <<rows[i][1]>>

CursorIn(t) == Navigator!Rows(t) # <<>> => t.index \in 1..Len(Navigator!Rows(t))

LEMMA NamedRows ==
  ASSUME NEW t \in Trees, NEW a \in TreeAgents, NEW names \in SUBSET LocalNames
  PROVE  Navigator!Named(t, a, names) \in Seq({a} \X names)
<1> DEFINE picked == {n \in names : <<a, n>> \in t.sessions}
           S == {<<a, n>> : n \in picked}
<1>1. IsFiniteSet(LocalNames)
  BY NavigatorAssumptions, SameOperators DEF Navigator!NavigatorAssumption
<1>2. S \in SUBSET ({a} \X names) /\ S \in SUBSET ({a} \X LocalNames)
  <2>1. ASSUME NEW x \in S PROVE x \in {a} \X names
    <3>1. PICK n \in picked : x = <<a, n>>
      OBVIOUS
    <3> QED
      BY <3>1
  <2> HIDE DEF S
  <2> QED
    BY <2>1
<1>3. IsFiniteSet({a} \X LocalNames)
  BY <1>1, FS_Singleton, FS_Product
<1> HIDE DEF S
<1>4. SetToSeq(S) \in Seq(S)
  BY <1>2, <1>3, FS_Subset, ListOfSet
<1>5. SetToSeq(S) \in Seq({a} \X names)
  BY <1>2, <1>4
<1>6. Navigator!Named(t, a, names) = SetToSeq(S)
  BY SameOperators DEF Navigator!Named, S
<1> QED
  BY <1>5, <1>6

\* An agent with what is shown below it.
BranchOf(t, a) ==
  IF t.query = "" \/ a = t.query \/ Navigator!Matching(t, a) # <<>>
  THEN <<<<a>>>> \o Navigator!Below(t, a) ELSE <<>>

LEMMA BranchKnown ==
  ASSUME NEW t \in Trees, NEW a \in TreeAgents
  PROVE  LET p == BranchOf(t, a)
         IN /\ p \in Seq(TreeRows)
            /\ p # <<>> => p[1] = <<a>>
            /\ \A j \in 1..Len(p) : j > 1 => p[j][1] = a
<1>1. Navigator!Below(t, a) \in Seq({a} \X LocalNames)
  <2>1. Navigator!SessionsOf(t, a) \in Seq({a} \X LocalNames)
    BY NamedRows DEF Navigator!SessionsOf
  <2>2. Navigator!Matching(t, a) \in Seq({a} \X (LocalNames \cap {t.query}))
    BY NamedRows DEF Navigator!Matching
  <2>3. Navigator!Matching(t, a) \in Seq({a} \X LocalNames)
    BY <2>2
  <2>4. <<>> \in Seq({a} \X LocalNames)
    OBVIOUS
  <2> QED
    BY <2>1, <2>3, <2>4 DEF Navigator!Below
<1> DEFINE b == Navigator!Below(t, a)
           p == <<<<a>>>> \o b
<1>2. \A x \in {a} \X LocalNames : x \in TreeRows /\ x[1] = a
  BY SameOperators DEF TreeRows, Navigator!Keys, TreeAgents
<1>3. <<a>> \in TreeRows
  BY DEF TreeRows
<1>4. b \in Seq(TreeRows) /\ \A j \in 1..Len(b) : b[j][1] = a
  BY <1>1, <1>2
<1> HIDE DEF b
<1>5. /\ p \in Seq(TreeRows) /\ p[1] = <<a>>
      /\ \A j \in 1..Len(p) : j > 1 => p[j] = b[j - 1] /\ j - 1 \in 1..Len(b)
  BY <1>3, <1>4
<1>6. \A j \in 1..Len(p) : j > 1 => p[j][1] = a
  BY <1>4, <1>5
<1>7. BranchOf(t, a) = p \/ BranchOf(t, a) = <<>>
  BY DEF BranchOf, b
<1> HIDE DEF p
<1>8. CASE BranchOf(t, a) = p
  BY <1>5, <1>6, <1>8
<1>9. CASE BranchOf(t, a) = <<>>
  BY <1>9
<1> QED
  BY <1>7, <1>8, <1>9

LEMMA RowsKnown ==
  ASSUME NEW t \in Trees
  PROVE  Navigator!Rows(t) \in Seq(TreeRows) /\ AgentsAbove(Navigator!Rows(t))
<1> DEFINE agents == Navigable
           ss == [i \in 1..Len(agents) |-> BranchOf(t, agents[i])]
<1>1. Navigator!Rows(t) = FlattenSeq(ss)
  BY SameOperators DEF Navigator!Rows, BranchOf
<1>2. agents \in Seq(TreeAgents)
  BY NavigatorAssumptions, SameOperators DEF Navigator!NavigatorAssumption, TreeAgents
<1>3. \A i \in 1..Len(agents) : agents[i] \in TreeAgents /\ ss[i] = BranchOf(t, agents[i])
  BY <1>2
<1>4. Len(agents) \in Nat /\ DOMAIN ss = 1..Len(agents) /\ ss = [i \in 1..Len(agents) |-> ss[i]]
  BY <1>2
<1> HIDE DEF ss, agents
<1>5. ASSUME NEW i \in 1..Len(agents)
      PROVE  /\ ss[i] \in Seq(TreeRows)
             /\ \A j \in 1..Len(ss[i]) : j > 1 => ss[i][1] = <<ss[i][j][1]>>
             /\ ss[i] # <<>> => Len(ss[i][1]) = 1
  <2> DEFINE a == agents[i]  p == ss[i]
  <2>1. a \in TreeAgents /\ p = BranchOf(t, a)
    BY <1>3
  <2> HIDE DEF a, p
  <2>2. p \in Seq(TreeRows) /\ (p # <<>> => p[1] = <<a>>)
        /\ \A j \in 1..Len(p) : j > 1 => p[j][1] = a
    BY <2>1, BranchKnown
  <2>3. \A j \in 1..Len(p) : p # <<>>
    BY <2>2
  <2>4. /\ p \in Seq(TreeRows)
        /\ \A j \in 1..Len(p) : j > 1 => p[1] = <<p[j][1]>>
        /\ p # <<>> => Len(p[1]) = 1
    BY <2>2, <2>3
  <2> QED
    BY <2>4 DEF p
<1>6. Len(ss) = Len(agents) /\ ss \in Seq(Seq(TreeRows))
  BY <1>4, <1>5
<1> DEFINE rows == Navigator!Rows(t)
<1>7. rows \in Seq(TreeRows) /\ Placed(rows, ss, Len(ss))
  BY <1>1, <1>6, FlattenPlaced
<1> HIDE DEF rows
<1>8. AgentsAbove(rows)
  <2> SUFFICES ASSUME NEW i \in 1..Len(rows), Len(rows[i]) = 2
               PROVE  \E j \in 1..i - 1 : rows[j] = <<rows[i][1]>>
    BY DEF AgentsAbove
  <2>1. PICK k \in 1..Len(ss), before \in Nat :
          /\ i - before \in 1..Len(ss[k])
          /\ \A j \in 1..Len(ss[k]) : before + j \in 1..Len(rows) /\ rows[before + j] = ss[k][j]
    BY <1>7 DEF Placed
  <2> DEFINE p == ss[k]
  <2>2. /\ p \in Seq(TreeRows) /\ (p # <<>> => Len(p[1]) = 1)
        /\ \A j \in 1..Len(p) : j > 1 => p[1] = <<p[j][1]>>
    BY <1>5, <1>6
  <2>3. i \in Nat /\ i - before \in 1..Len(p) /\ Len(p) \in Nat
        /\ \A j \in 1..Len(p) : rows[before + j] = p[j]
    BY <1>7, <2>1, <2>2
  <2> HIDE DEF p
  <2>4. rows[i] = p[i - before] /\ 1 \in 1..Len(p)
    <3>1. before + (i - before) = i
      BY <2>3
    <3> QED
      BY <2>3, <3>1
  <2>5. i - before # 1
    <3>1. p # <<>> /\ Len(p[1]) = 1
      BY <2>2, <2>4
    <3>2. Len(p[i - before]) = 2
      BY <2>4
    <3>3. ASSUME i - before = 1 PROVE FALSE
      <4>1. p[i - before] = p[1]
        BY <3>3
      <4> QED
        BY <3>1, <3>2, <4>1
    <3> QED
      BY <3>3
  <2>6. before + 1 \in 1..(i - 1) /\ rows[before + 1] = p[1]
    BY <2>3, <2>4, <2>5
  <2>7. p[1] = <<rows[i][1]>>
    BY <2>2, <2>3, <2>4, <2>5
  <2> QED
    BY <2>6, <2>7
<1> QED
  BY <1>7, <1>8 DEF rows

\* What the tree was opened with and where its cursor is are no part of what it shows.
LEMMA RowsStay ==
  ASSUME NEW t \in Trees, NEW k \in Nat \ {0}
  PROVE  /\ [t EXCEPT !.index = k] \in Trees
         /\ Navigator!Rows([t EXCEPT !.index = k]) = Navigator!Rows(t)
<1> DEFINE u == [t EXCEPT !.index = k]
<1>1. u \in Trees /\ u.query = t.query /\ u.sessions = t.sessions /\ u.expanded = t.expanded
      /\ u.index = k
  BY DEF Trees
<1> HIDE DEF u
<1>2. \A a, names : Navigator!Named(u, a, names) = Navigator!Named(t, a, names)
  BY <1>1 DEF Navigator!Named
<1>3. \A a : /\ Navigator!SessionsOf(u, a) = Navigator!SessionsOf(t, a)
             /\ Navigator!Matching(u, a) = Navigator!Matching(t, a)
             /\ Navigator!Below(u, a) = Navigator!Below(t, a)
  BY <1>1, <1>2 DEF Navigator!SessionsOf, Navigator!Matching, Navigator!Below
<1>4. Navigator!Rows(u) = Navigator!Rows(t)
  BY <1>1, <1>3 DEF Navigator!Rows
<1> QED
  BY <1>1, <1>4 DEF u

LEMMA IndexFound ==
  ASSUME NEW rows \in Seq(TreeRows), NEW key
  PROVE  /\ Navigator!IndexOf(rows, key) \in 0..Len(rows)
         /\ \A i \in 1..Len(rows) : rows[i] = key => Navigator!IndexOf(rows, key) # 0
<1> DEFINE I == {i \in 1..Len(rows) : rows[i] = key}
<1>1. Navigator!IndexOf(rows, key) = IF I # {} THEN Min(I) ELSE 0
  BY SameOperators DEF Navigator!IndexOf, Navigator!SelectInSeq
<1>2. I \in SUBSET Nat /\ I \in SUBSET (1..Len(rows)) /\ Len(rows) \in Nat
  OBVIOUS
<1>3. \A i \in 1..Len(rows) : rows[i] = key => I # {}
  OBVIOUS
<1> HIDE DEF I
<1>4. I # {} => Min(I) \in 1..Len(rows)
  BY <1>2, MinIsLeast
<1> QED
  BY <1>1, <1>2, <1>3, <1>4

LEMMA CursorPut ==
  ASSUME NEW t \in Trees, NEW k \in Nat \ {0},
         Navigator!Rows(t) # <<>> => k \in 1..Len(Navigator!Rows(t))
  PROVE  LET u == [t EXCEPT !.index = k] IN u \in Trees /\ CursorIn(u)
<1> DEFINE u == [t EXCEPT !.index = k]
<1>1. u \in Trees /\ Navigator!Rows(u) = Navigator!Rows(t) /\ u.index = k
  BY RowsStay DEF Trees
<1> QED
  BY <1>1 DEF CursorIn

LEMMA FilterApplied ==
  ASSUME NEW t \in Trees, NEW key
  PROVE  Navigator!ApplyFilter(t, key) \in Trees /\ CursorIn(Navigator!ApplyFilter(t, key))
<1> DEFINE rows == Navigator!Rows(t)
           at == Navigator!IndexOf(rows, key)
           last == IF rows = <<>> THEN 1 ELSE Len(rows)
           k == IF at > 0 THEN at ELSE Navigator!Least(t.index, last)
<1>1. rows \in Seq(TreeRows)
  BY RowsKnown
<1>2. t.index \in Nat \ {0}
  BY DEF Trees
<1>3. at \in 0..Len(rows)
  BY <1>1, IndexFound
<1>4. Navigator!ApplyFilter(t, key) = [t EXCEPT !.index = k]
  BY DEF Navigator!ApplyFilter
<1> HIDE DEF rows, at
<1>5. k \in Nat \ {0} /\ (rows # <<>> => k \in 1..Len(rows))
  <2>1. Len(rows) \in Nat /\ (rows # <<>> => Len(rows) # 0)
    BY <1>1
  <2>2. CASE at > 0
    BY <1>3, <2>1, <2>2
  <2>3. CASE ~(at > 0)
    BY <1>2, <2>1, <2>3 DEF Navigator!Least
  <2> QED
    BY <2>2, <2>3
<1> HIDE DEF k
<1> QED
  BY <1>4, <1>5, CursorPut DEF rows

\* The row under the cursor.
LEMMA SelectedKnown ==
  ASSUME NEW t \in Trees, CursorIn(t), NEW row, row = Navigator!Selected(t), row # <<>>
  PROVE  /\ row \in TreeRows /\ Navigator!Rows(t) # <<>>
         /\ Len(row) = 2 => row \in Navigator!Keys /\ <<row[1]>> \in TreeRows
         /\ Len(row) = 2 => Navigator!IndexOf(Navigator!Rows(t), <<row[1]>>) # 0
         /\ Len(row) = 1 => row[1] \in TreeAgents /\ <<row[1], "main">> \in Navigator!Keys
<1> DEFINE rows == Navigator!Rows(t)
<1>1. rows \in Seq(TreeRows) /\ AgentsAbove(rows)
  BY RowsKnown
<1>2. rows # <<>> /\ t.index \in 1..Len(rows) /\ row = rows[t.index]
  BY DEF CursorIn, Navigator!Selected
<1> HIDE DEF rows
<1>3. row \in TreeRows
  BY <1>1, <1>2
<1>4. Len(row) = 2 => row \in Navigator!Keys
  BY <1>3 DEF TreeRows
<1>5. Len(row) = 1 => row[1] \in TreeAgents
  BY <1>3 DEF TreeRows, Navigator!Keys
<1>6. "main" \in LocalNames
  BY NavigatorAssumptions DEF Navigator!NavigatorAssumption
<1>7. Len(row) = 2 => \E j \in 1..Len(rows) : rows[j] = <<row[1]>>
  <2> SUFFICES ASSUME Len(row) = 2 PROVE \E j \in 1..Len(rows) : rows[j] = <<row[1]>>
    OBVIOUS
  <2>1. PICK j \in 1..t.index - 1 : rows[j] = <<row[1]>>
    BY <1>1, <1>2 DEF AgentsAbove
  <2>2. j \in 1..Len(rows)
    BY <1>1, <1>2
  <2> QED
    BY <2>1, <2>2
<1>8. Len(row) = 2 => Navigator!IndexOf(rows, <<row[1]>>) # 0 /\ <<row[1]>> \in TreeRows
  BY <1>1, <1>7, IndexFound
<1>9. \A a \in TreeAgents : <<a, "main">> \in Navigator!Keys
  BY <1>6, SameOperators DEF TreeAgents, Navigator!Keys
<1> QED
  BY <1>2, <1>3, <1>4, <1>5, <1>8, <1>9 DEF rows

----------------------------------------------------------------------------
(* The terminal's switches of sessions.                                    *)

Shown == [key : Navigator!Keys, plan : Nat]
Runtimes == [key : Navigator!Keys, plan : Nat, listed : BOOLEAN]
Switches ==
  [by : {"switch", "open", "resume"}, key : Navigator!Keys,
   at : {"asked", "prepared", "opening", "opening_as_before", "rolling_back", "started", "lost"},
   chosen : Nat \ {0}, was : Shown, had : Runtimes]
MayBe(S) == {<<>>} \cup {<<x>> : x \in S}

NavigatorTyped ==
  /\ transcripts \in SUBSET Navigator!Keys /\ revision \in Nat \ {0}
  /\ current \in Shown /\ cache \in [Navigator!Keys -> Nat]
  /\ opened \in MayBe(Runtimes) /\ switch \in MayBe(Switches) /\ tree \in MayBe(Trees)

\* What is known of a switch under way, step by step.
SwitchSound(s) ==
  /\ s.by = "resume" \/ s.at = "asked" => prepared = <<>>
  /\ s.at \in {"asked", "prepared", "started"} => opened # <<>>
  /\ s.at = "asked" => s.chosen <= revision
  /\ s.at = "prepared" => s.by # "resume" /\ s.chosen <= cache[s.key]
  /\ s.at \in {"opening", "opening_as_before", "rolling_back"} =>
       (s.had.listed => s.had.key = s.was.key)
  /\ s.at \in {"opening", "opening_as_before", "rolling_back", "lost"} => opened = <<>>
  /\ s.at = "opening" => switched = <<>> /\ current.key = s.key
  /\ s.at = "opening" /\ s.by # "resume" => s.chosen <= current.plan
  /\ s.at = "opening_as_before" => s.by = "resume"
  /\ s.at = "rolling_back" => current = s.was /\ s.was.key # s.key
  /\ s.at = "started" /\ s.by # "resume" =>
       \/ switched = <<"rolled_back">> /\ current = s.was /\ s.was.key # s.key
       \/ switched # <<"rolled_back">> /\ current.key = s.key /\ s.chosen <= opened[1].plan

\* What the user sees named is what is open.
OpenIsCurrent ==
  /\ opened # <<>> /\ opened[1].listed
  /\ switch = <<>> \/ switch[1].at \in {"asked", "prepared", "started"}
  => opened[1].key = current.key /\ opened[1].plan = current.plan

NavigatorInv ==
  /\ NavigatorTyped
  /\ tree # <<>> => switch = <<>> /\ opened # <<>> /\ CursorIn(tree[1])
  /\ switch = <<>> => prepared = <<>>
  /\ switch # <<>> => SwitchSound(switch[1])
  /\ OpenIsCurrent

LEMMA NavigatorStarts == Navigator!Init => NavigatorInv
<1> SUFFICES ASSUME Navigator!Init PROVE NavigatorInv
  OBVIOUS
<1>1. Navigator!First \in Navigator!Keys
  BY NavigatorAssumptions, SameOperators
  DEF Navigator!NavigatorAssumption, Navigator!First, Navigator!Keys, ToSet
<1>2. opened = <<Navigator!Runtime(Navigator!First, 1, TRUE)>>
      /\ Navigator!Runtime(Navigator!First, 1, TRUE) \in Runtimes
  BY <1>1 DEF Navigator!Init, Navigator!Runtime, Runtimes
<1>3. NavigatorTyped
  <2>1. opened \in MayBe(Runtimes) /\ switch \in MayBe(Switches) /\ tree \in MayBe(Trees)
    BY <1>2 DEF Navigator!Init, MayBe
  <2>2. transcripts \in SUBSET Navigator!Keys /\ revision \in Nat \ {0}
    BY DEF Navigator!Init
  <2>3. current \in Shown
    BY <1>1 DEF Navigator!Init, Shown
  <2>4. cache \in [Navigator!Keys -> Nat]
    BY DEF Navigator!Init
  <2> QED
    BY <2>1, <2>2, <2>3, <2>4 DEF NavigatorTyped
<1>4. OpenIsCurrent
  BY <1>2 DEF Navigator!Init, OpenIsCurrent, Navigator!Runtime
<1> QED
  BY <1>3, <1>4 DEF NavigatorInv, Navigator!Init

LEMMA NavigatorSteady == ASSUME NavigatorInv, UNCHANGED navigatorVars PROVE NavigatorInv'
BY DEF NavigatorInv, NavigatorTyped, OpenIsCurrent, SwitchSound, CursorIn, navigatorVars

\* The tree is on the screen, and only it changes.
LEMMA TreeMoves ==
  ASSUME NavigatorInv, tree # <<>>, NEW t \in Trees, CursorIn(t), tree' = <<t>>,
         UNCHANGED <<transcripts, revision, current, cache, prepared, switched, switch, opened>>
  PROVE  NavigatorInv'
<1>1. NavigatorTyped'
  BY DEF NavigatorInv, NavigatorTyped, MayBe
<1>2. OpenIsCurrent'
  BY DEF NavigatorInv, OpenIsCurrent
<1> QED
  BY <1>1, <1>2 DEF NavigatorInv, CursorIn

LEMMA TreeThere ==
  ASSUME NavigatorInv, tree # <<>>
  PROVE  /\ tree[1] \in Trees /\ CursorIn(tree[1]) /\ tree = <<tree[1]>>
         /\ switch = <<>> /\ opened # <<>> /\ prepared = <<>>
BY DEF NavigatorInv, NavigatorTyped, MayBe

LEMMA OpenNavigatorKeeps ==
  ASSUME NavigatorInv, NEW q \in Queries, Navigator!OpenNavigator(q)
  PROVE  NavigatorInv'
<1> DEFINE t == Navigator!SummarizeNavigableSessions(q)
           rows == Navigator!Rows(t)
           at == Navigator!IndexOf(rows, t.current)
           agent == Navigator!IndexOf(rows, <<t.current[1]>>)
           k == IF at > 0 THEN at ELSE IF agent > 0 THEN agent ELSE 1
           u == [t EXCEPT !.index = k]
<1>1. tree' = <<u>> /\ switch = <<>> /\ opened # <<>>
      /\ UNCHANGED <<transcripts, revision, current, cache, prepared, switched, switch, opened>>
  BY DEF Navigator!OpenNavigator, Navigator!controller
<1>2. t \in Trees
  <2>1. t = [sessions |-> transcripts, query |-> q, expanded |-> TreeAgents, index |-> 1,
             current |-> current.key, revision |-> revision]
    BY SameOperators DEF TreeAgents, Navigator!SummarizeNavigableSessions
  <2>2. transcripts \in SUBSET Navigator!Keys /\ current.key \in Navigator!Keys
        /\ revision \in Nat
    BY DEF NavigatorInv, NavigatorTyped, Shown
  <2> QED
    BY <2>1, <2>2 DEF Trees
<1> HIDE DEF t
<1>3. rows \in Seq(TreeRows)
  BY <1>2, RowsKnown
<1> HIDE DEF rows
<1>4. Len(rows) \in Nat /\ (rows # <<>> => 1 \in 1..Len(rows))
  <2>1. rows # <<>> => Len(rows) > 0
    BY <1>3
  <2>2. Len(rows) \in Nat
    BY <1>3
  <2> QED
    BY <2>1, <2>2
<1>5. at \in 0..Len(rows)
  BY <1>3, IndexFound
<1>6. agent \in 0..Len(rows)
  BY <1>3, IndexFound
<1> HIDE DEF at, agent
<1>7. k \in Nat \ {0} /\ (rows # <<>> => k \in 1..Len(rows))
  BY <1>4, <1>5, <1>6
<1> HIDE DEF k
<1>8. u \in Trees /\ CursorIn(u)
  BY <1>2, <1>7, CursorPut DEF rows
<1> HIDE DEF u
<1>9. NavigatorTyped'
  BY <1>1, <1>8 DEF NavigatorInv, NavigatorTyped, MayBe
<1>10. OpenIsCurrent'
  BY <1>1 DEF NavigatorInv, OpenIsCurrent
<1> QED
  BY <1>1, <1>8, <1>9, <1>10 DEF NavigatorInv, CursorIn

LEMMA FilterKeeps ==
  ASSUME NavigatorInv, NEW q \in Queries, Navigator!Filter(q)
  PROVE  NavigatorInv'
<1> DEFINE t == [tree[1] EXCEPT !.query = q]
           u == Navigator!ApplyFilter(t, Navigator!Selected(tree[1]))
<1>1. tree # <<>> /\ tree' = <<u>>
      /\ UNCHANGED <<transcripts, revision, current, cache, prepared, switched, switch, opened>>
  BY DEF Navigator!Filter, Navigator!Shows, Navigator!controller
<1>2. t \in Trees
  BY <1>1, TreeThere DEF Trees
<1> HIDE DEF t
<1>3. u \in Trees /\ CursorIn(u)
  BY <1>2, FilterApplied
<1> HIDE DEF u
<1> QED
  BY <1>1, <1>3, TreeMoves

LEMMA MoveKeeps ==
  ASSUME NavigatorInv, NEW d \in {-1, 1}, Navigator!Move(d) PROVE NavigatorInv'
<1> DEFINE t == tree[1]  n == Len(Navigator!Rows(t))  k == ((t.index - 1 + d + n) % n) + 1
           u == [t EXCEPT !.index = k]
<1>1. tree # <<>> /\ n > 0 /\ tree' = <<u>>
      /\ UNCHANGED <<transcripts, revision, current, cache, prepared, switched, switch, opened>>
  BY DEF Navigator!Move, Navigator!Shows, Navigator!controller
<1>2. t \in Trees /\ CursorIn(t)
  BY <1>1, TreeThere
<1>3. n \in Nat /\ n > 0 /\ t.index \in Nat
  <2>1. Navigator!Rows(t) \in Seq(TreeRows)
    BY <1>2, RowsKnown
  <2>2. t.index \in Nat
    BY <1>2 DEF Trees
  <2> QED
    BY <1>1, <2>1, <2>2
<1> HIDE DEF t, n
<1>4. \A x \in Int : x % n \in 0..(n - 1)
  BY <1>3
<1>5. k \in 1..n
  <2>1. t.index - 1 + d + n \in Int
    BY <1>3
  <2>2. (t.index - 1 + d + n) % n \in 0..(n - 1)
    BY <1>4, <2>1
  <2> QED
    BY <1>3, <2>2
<1> HIDE DEF k
<1>6. u \in Trees /\ CursorIn(u)
  BY <1>2, <1>3, <1>5, CursorPut DEF n
<1> HIDE DEF u
<1> QED
  BY <1>1, <1>6, TreeMoves

LEMMA MoveLeftKeeps == ASSUME NavigatorInv, Navigator!MoveLeft PROVE NavigatorInv'
<1> DEFINE t == tree[1]  row == Navigator!Selected(t)
           at == Navigator!IndexOf(Navigator!Rows(t), <<row[1]>>)
<1>1. tree # <<>> /\ row # <<>>
      /\ UNCHANGED <<transcripts, revision, current, cache, prepared, switched, switch, opened>>
  BY DEF Navigator!MoveLeft, Navigator!Shows, Navigator!controller
<1>2. t \in Trees /\ CursorIn(t) /\ tree = <<t>>
  BY <1>1, TreeThere
<1>3. Navigator!Rows(t) \in Seq(TreeRows)
  BY <1>2, RowsKnown
<1>4. CASE Len(row) = 2
  <2>1. tree' = <<[t EXCEPT !.index = at]>>
    BY <1>4 DEF Navigator!MoveLeft, Navigator!Shows
  <2> HIDE DEF t
  <2>2. at # 0 /\ at \in 0..Len(Navigator!Rows(t))
    BY <1>1, <1>2, <1>3, <1>4, SelectedKnown, IndexFound
  <2>3. at \in 1..Len(Navigator!Rows(t)) /\ at \in Nat \ {0}
    BY <1>3, <2>2
  <2> HIDE DEF at
  <2>4. [t EXCEPT !.index = at] \in Trees /\ CursorIn([t EXCEPT !.index = at])
    BY <1>2, <2>3, CursorPut
  <2> QED
    BY <1>1, <2>1, <2>4, TreeMoves
<1>5. CASE Len(row) # 2
  <2> DEFINE u == [t EXCEPT !.expanded = @ \ {row[1]}]
  <2>1. tree' = <<Navigator!ApplyFilter(u, row)>> \/ tree' = <<t>>
    BY <1>5 DEF Navigator!MoveLeft, Navigator!Shows
  <2>2. u \in Trees
    BY <1>2 DEF Trees
  <2> HIDE DEF u, t, row
  <2>3. Navigator!ApplyFilter(u, row) \in Trees /\ CursorIn(Navigator!ApplyFilter(u, row))
    BY <2>2, FilterApplied
  <2>4. CASE tree' = <<t>>
    BY <1>1, <1>2, <2>4, TreeMoves
  <2>5. CASE tree' = <<Navigator!ApplyFilter(u, row)>>
    BY <1>1, <2>3, <2>5, TreeMoves
  <2> QED
    BY <2>1, <2>4, <2>5
<1> QED
  BY <1>4, <1>5

LEMMA MoveRightKeeps == ASSUME NavigatorInv, Navigator!MoveRight PROVE NavigatorInv'
<1> DEFINE t == tree[1]  a == Navigator!Selected(t)[1]  rows == Navigator!Rows(t)
           I == {i \in 1..Len(rows) : Len(rows[i]) = 2 /\ rows[i][1] = a}
           first == IF I # {} THEN Min(I) ELSE 0
           u == [t EXCEPT !.expanded = @ \cup {a}]
           k == IF first > 0 THEN first ELSE t.index
<1>1. tree # <<>> /\ Len(Navigator!Selected(t)) = 1
      /\ UNCHANGED <<transcripts, revision, current, cache, prepared, switched, switch, opened>>
  BY DEF Navigator!MoveRight, Navigator!Shows, Navigator!controller
<1>2. t \in Trees /\ CursorIn(t)
  BY <1>1, TreeThere
<1>3. Navigator!Selected(t) # <<>>
  BY <1>1
<1>4. a \in TreeAgents /\ rows # <<>>
  BY <1>1, <1>2, <1>3, SelectedKnown
<1>5. tree' = <<Navigator!ApplyFilter(u, <<a>>)>> \/ tree' = <<[t EXCEPT !.index = k]>>
  BY SameOperators DEF Navigator!MoveRight, Navigator!Shows, Navigator!SelectInSeq
<1>6. u \in Trees
  BY <1>2, <1>4 DEF Trees
<1>7. rows \in Seq(TreeRows) /\ t.index \in 1..Len(rows)
  BY <1>2, <1>4, RowsKnown DEF CursorIn
<1> HIDE DEF u, t, rows
<1>8. I \in SUBSET Nat /\ I \in SUBSET (1..Len(rows)) /\ Len(rows) \in Nat
  BY <1>7
<1> HIDE DEF I
<1>9. I # {} => Min(I) \in 1..Len(rows)
  BY <1>8, MinIsLeast
<1>10. k \in 1..Len(rows) /\ k \in Nat \ {0}
  BY <1>7, <1>8, <1>9
<1> HIDE DEF k
<1>11. [t EXCEPT !.index = k] \in Trees /\ CursorIn([t EXCEPT !.index = k])
  BY <1>2, <1>10, CursorPut DEF rows
<1>12. Navigator!ApplyFilter(u, <<a>>) \in Trees /\ CursorIn(Navigator!ApplyFilter(u, <<a>>))
  BY <1>6, FilterApplied
<1>13. CASE tree' = <<Navigator!ApplyFilter(u, <<a>>)>>
  BY <1>1, <1>12, <1>13, TreeMoves
<1>14. CASE tree' = <<[t EXCEPT !.index = k]>>
  BY <1>1, <1>11, <1>14, TreeMoves
<1> QED
  BY <1>5, <1>13, <1>14

LEMMA ToggleKeeps == ASSUME NavigatorInv, Navigator!Toggle PROVE NavigatorInv'
<1> DEFINE t == tree[1]  a == Navigator!Selected(t)[1]
           u == [t EXCEPT !.expanded = IF a \in @ THEN @ \ {a} ELSE @ \cup {a}]
<1>1. tree # <<>> /\ Len(Navigator!Selected(t)) = 1
      /\ tree' = <<Navigator!ApplyFilter(u, <<a>>)>>
      /\ UNCHANGED <<transcripts, revision, current, cache, prepared, switched, switch, opened>>
  BY DEF Navigator!Toggle, Navigator!Shows, Navigator!controller
<1>2. t \in Trees /\ CursorIn(t)
  BY <1>1, TreeThere
<1>3. Navigator!Selected(t) # <<>>
  BY <1>1
<1>4. a \in TreeAgents
  BY <1>1, <1>2, <1>3, SelectedKnown
<1>5. u \in Trees
  BY <1>2, <1>4 DEF Trees
<1> HIDE DEF u, t
<1>6. Navigator!ApplyFilter(u, <<a>>) \in Trees /\ CursorIn(Navigator!ApplyFilter(u, <<a>>))
  BY <1>5, FilterApplied
<1> QED
  BY <1>1, <1>6, TreeMoves

LEMMA SwitchThere ==
  ASSUME NavigatorInv, switch # <<>>
  PROVE  /\ switch[1] \in Switches /\ switch = <<switch[1]>> /\ tree = <<>>
         /\ SwitchSound(switch[1])
BY DEF NavigatorInv, NavigatorTyped, MayBe

\* Where a switch goes on to.
LEMMA GoesTo ==
  ASSUME NEW s \in Switches, switch = <<s>>,
         NEW step \in {"prepared", "opening", "opening_as_before", "rolling_back", "started", "lost"},
         Navigator!Goes(step)
  PROVE  \E u \in Switches : /\ switch' = <<u>> /\ u.at = step /\ u.by = s.by /\ u.key = s.key
                             /\ u.chosen = s.chosen /\ u.was = s.was /\ u.had = s.had
<1> DEFINE u == [s EXCEPT !.at = step]
<1>1. u \in Switches /\ u.at = step /\ u.by = s.by /\ u.key = s.key
      /\ u.chosen = s.chosen /\ u.was = s.was /\ u.had = s.had
  BY DEF Switches
<1>2. switch' = <<u>>
  BY DEF Navigator!Goes
<1> HIDE DEF u
<1> QED
  BY <1>1, <1>2

LEMMA SwitchGoesOn ==
  ASSUME NavigatorTyped', tree' = <<>>, OpenIsCurrent', NEW u \in Switches, switch' = <<u>>,
         SwitchSound(u)'
  PROVE  NavigatorInv'
BY DEF NavigatorInv

LEMMA SwitchOver ==
  ASSUME NavigatorTyped', tree' = <<>>, OpenIsCurrent', switch' = <<>>, prepared' = <<>>
  PROVE  NavigatorInv'
BY DEF NavigatorInv

LEMMA ElsewhereKeeps == ASSUME NavigatorInv, Navigator!Elsewhere PROVE NavigatorInv'
<1>1. UNCHANGED <<tree, current, cache, prepared, switched, switch, opened>>
  BY DEF Navigator!Elsewhere, Navigator!controller
<1>2. revision \in Nat /\ revision' \in Nat \ {0} /\ revision <= revision'
      /\ transcripts' \in SUBSET Navigator!Keys
  BY DEF NavigatorInv, NavigatorTyped, Navigator!Elsewhere
<1>3. NavigatorTyped'
  BY <1>1, <1>2 DEF NavigatorInv, NavigatorTyped
<1>4. OpenIsCurrent'
  BY <1>1 DEF NavigatorInv, OpenIsCurrent
<1>5. switch # <<>> => SwitchSound(switch[1])'
  <2> SUFFICES ASSUME switch # <<>> PROVE SwitchSound(switch[1])'
    OBVIOUS
  <2> DEFINE s == switch[1]
  <2>1. s.chosen \in Nat /\ SwitchSound(s) /\ switch' = switch
    BY <1>1, SwitchThere DEF Switches
  <2>2. s.at = "asked" => s.chosen <= revision'
    BY <1>2, <2>1 DEF SwitchSound
  <2> QED
    BY <1>1, <2>1, <2>2 DEF SwitchSound
<1> QED
  BY <1>1, <1>3, <1>4, <1>5 DEF NavigatorInv, CursorIn

LEMMA CancelKeeps == ASSUME NavigatorInv, Navigator!Cancel PROVE NavigatorInv'
<1>1. tree' = <<>> /\ switch = <<>> /\ prepared = <<>>
      /\ UNCHANGED <<transcripts, revision, current, cache, prepared, switched, switch, opened>>
  BY TreeThere DEF Navigator!Cancel, Navigator!controller
<1>2. NavigatorTyped'
  BY <1>1 DEF NavigatorInv, NavigatorTyped, MayBe
<1>3. OpenIsCurrent'
  BY <1>1 DEF NavigatorInv, OpenIsCurrent
<1> QED
  BY <1>1, <1>2, <1>3, SwitchOver

\* A switch is asked for while something is open and nothing waits.
LEMMA SwitchAsked ==
  ASSUME NavigatorInv, switch = <<>>, opened # <<>>, tree' = <<>>,
         NEW by \in {"switch", "open", "resume"}, NEW k \in Navigator!Keys,
         switch' = Navigator!Switch(by, k, revision),
         UNCHANGED <<transcripts, revision, current, cache, prepared, switched, opened>>
  PROVE  NavigatorInv'
<1>1. opened[1] \in Runtimes /\ current \in Shown /\ revision \in Nat \ {0} /\ prepared = <<>>
  BY DEF NavigatorInv, NavigatorTyped, MayBe
<1> DEFINE u == [by |-> by, key |-> k, at |-> "asked", chosen |-> revision, was |-> current,
                 had |-> opened[1]]
<1>2. PICK s : s = u /\ switch' = <<s>>
  BY DEF Navigator!Switch
<1>3. s \in Switches
  BY <1>1, <1>2 DEF Switches
<1>4. NavigatorTyped'
  BY <1>2, <1>3 DEF NavigatorInv, NavigatorTyped, MayBe
<1>5. OpenIsCurrent'
  BY <1>2 DEF NavigatorInv, OpenIsCurrent
<1>6. SwitchSound(s)'
  BY <1>1, <1>2 DEF SwitchSound
<1> QED
  BY <1>2, <1>3, <1>4, <1>5, <1>6, SwitchGoesOn

LEMMA ChooseKeeps == ASSUME NavigatorInv, Navigator!Choose PROVE NavigatorInv'
<1> DEFINE t == tree[1]  row == Navigator!Selected(t)
<1>1. tree # <<>> /\ tree' = <<>>
      /\ UNCHANGED <<transcripts, revision, current, cache, prepared, switched, opened>>
  BY DEF Navigator!Choose, Navigator!controller
<1>2. t \in Trees /\ CursorIn(t) /\ switch = <<>> /\ opened # <<>>
  BY <1>1, TreeThere
<1>3. \/ Len(row) = 2 /\ switch' = Navigator!Switch("switch", row, revision)
      \/ Len(row) = 1 /\ switch' = Navigator!Switch("open", <<row[1], "main">>, revision)
  BY DEF Navigator!Choose
<1>4. row # <<>>
  BY <1>3
<1>5. \/ row \in Navigator!Keys /\ switch' = Navigator!Switch("switch", row, revision)
      \/ /\ <<row[1], "main">> \in Navigator!Keys
         /\ switch' = Navigator!Switch("open", <<row[1], "main">>, revision)
  BY <1>2, <1>3, <1>4, SelectedKnown
<1> QED
  BY <1>1, <1>2, <1>5, SwitchAsked

LEMMA PiResumeKeeps ==
  ASSUME NavigatorInv, NEW k \in Navigator!Keys, Navigator!PiResume(k) PROVE NavigatorInv'
BY SwitchAsked DEF Navigator!PiResume, Navigator!controller

LEMMA PreflightKeeps == ASSUME NavigatorInv, Navigator!Preflight PROVE NavigatorInv'
<1>1. switch # <<>> /\ switch[1].at = "asked" /\ switch[1].by # "resume"
      /\ UNCHANGED <<transcripts, revision, tree, current, switched, opened>>
  BY DEF Navigator!Preflight, Navigator!At
<1>2. PICK s \in Switches : s = switch[1] /\ switch = <<s>> /\ tree = <<>> /\ SwitchSound(s)
  BY <1>1, SwitchThere
<1>3. /\ prepared = <<>> /\ opened # <<>> /\ s.chosen <= revision /\ s.key \in Navigator!Keys
      /\ s.at = "asked" /\ s.by # "resume"
  BY <1>1, <1>2 DEF SwitchSound, Switches
<1>4. CASE switch' = <<>> /\ UNCHANGED <<cache, prepared>>
  <2>1. NavigatorTyped'
    BY <1>1, <1>4 DEF NavigatorInv, NavigatorTyped, MayBe
  <2>2. OpenIsCurrent'
    BY <1>1, <1>2, <1>3, <1>4 DEF NavigatorInv, OpenIsCurrent
  <2> QED
    BY <1>1, <1>2, <1>3, <1>4, <2>1, <2>2, SwitchOver
<1>5. CASE Navigator!Goes("prepared") /\ cache' = [cache EXCEPT ![s.key] = revision]
  <2>1. PICK u \in Switches : /\ switch' = <<u>> /\ u.at = "prepared" /\ u.by = s.by
                              /\ u.key = s.key /\ u.chosen = s.chosen
    BY <1>2, <1>5, GoesTo
  <2>2. cache' \in [Navigator!Keys -> Nat] /\ cache'[s.key] = revision
    BY <1>3, <1>5 DEF NavigatorInv, NavigatorTyped
  <2>3. NavigatorTyped'
    BY <1>1, <2>1, <2>2 DEF NavigatorInv, NavigatorTyped, MayBe
  <2>4. OpenIsCurrent'
    BY <1>1, <1>2, <1>3, <2>1 DEF NavigatorInv, OpenIsCurrent
  <2>5. SwitchSound(u)'
    BY <1>1, <1>3, <2>1, <2>2 DEF SwitchSound
  <2> QED
    BY <1>1, <1>2, <2>1, <2>3, <2>4, <2>5, SwitchGoesOn
<1> QED
  BY <1>1, <1>2, <1>4, <1>5 DEF Navigator!Preflight, Navigator!Prepare

LEMMA RefusedKeeps == ASSUME NavigatorInv, Navigator!Refused PROVE NavigatorInv'
<1>1. switch # <<>> /\ switch[1].at \in {"asked", "prepared"} /\ switch' = <<>> /\ prepared' = <<>>
      /\ UNCHANGED <<transcripts, revision, tree, current, cache, opened>>
  BY DEF Navigator!Refused, Navigator!Asked, Navigator!At
<1>2. tree = <<>>
  BY <1>1, SwitchThere
<1>3. NavigatorTyped'
  BY <1>1 DEF NavigatorInv, NavigatorTyped, MayBe
<1>4. OpenIsCurrent'
  BY <1>1 DEF NavigatorInv, OpenIsCurrent
<1> QED
  BY <1>1, <1>2, <1>3, <1>4, SwitchOver

LEMMA CreateRuntimeKeeps == ASSUME NavigatorInv, Navigator!CreateRuntime PROVE NavigatorInv'
<1>1. switch # <<>> /\ (switch[1].at = "prepared" \/ (switch[1].at = "asked" /\ switch[1].by = "resume"))
      /\ UNCHANGED <<transcripts, revision, tree>> /\ switched' = <<>> /\ opened' = <<>>
  BY DEF Navigator!CreateRuntime, Navigator!Asked, Navigator!At
<1>2. PICK s \in Switches : s = switch[1] /\ switch = <<s>> /\ tree = <<>> /\ SwitchSound(s)
  BY <1>1, SwitchThere
<1> DEFINE listed == cache[s.key] # 0 \/ s.key \in transcripts
<1>3. /\ cache' = [cache EXCEPT ![s.key] = IF @ = 0 /\ listed THEN revision ELSE @]
      /\ current' = IF listed THEN [key |-> s.key, plan |-> cache'[s.key]] ELSE current
      /\ prepared' = IF prepared = <<s.key>> THEN <<>> ELSE prepared
      /\ switch' = [switch EXCEPT ![1].at = IF listed THEN "opening" ELSE "opening_as_before",
                                  ![1].was = current, ![1].had = opened[1]]
  BY <1>2 DEF Navigator!CreateRuntime
<1>4. opened # <<>> /\ opened[1] \in Runtimes /\ current \in Shown /\ revision \in Nat \ {0}
      /\ cache \in [Navigator!Keys -> Nat] /\ s.key \in Navigator!Keys /\ s.chosen \in Nat \ {0}
  BY <1>1, <1>2 DEF NavigatorInv, NavigatorTyped, MayBe, SwitchSound, Switches
<1> DEFINE at == IF listed THEN "opening" ELSE "opening_as_before"
<1>5. PICK u \in Switches : /\ switch' = <<u>> /\ u.at = at /\ u.by = s.by /\ u.key = s.key
                            /\ u.chosen = s.chosen /\ u.was = current /\ u.had = opened[1]
  <2> DEFINE u == [s EXCEPT !.at = at, !.was = current, !.had = opened[1]]
  <2>1. at \in {"opening", "opening_as_before"}
    OBVIOUS
  <2>2. switch' = <<u>>
    BY <1>2, <1>3
  <2> HIDE DEF at
  <2>3. u \in Switches /\ u.at = at /\ u.by = s.by /\ u.key = s.key
        /\ u.chosen = s.chosen /\ u.was = current /\ u.had = opened[1]
    BY <1>4, <2>1 DEF Switches
  <2> HIDE DEF u
  <2> QED
    BY <2>2, <2>3 DEF at
<1>6. cache' \in [Navigator!Keys -> Nat]
      /\ (s.at = "prepared" => listed /\ s.chosen <= cache'[s.key])
  <2>1. s.at = "prepared" => s.chosen <= cache[s.key] /\ cache[s.key] # 0
    BY <1>2, <1>4 DEF SwitchSound
  <2> QED
    BY <1>3, <1>4, <2>1
<1>7. current' \in Shown
  BY <1>3, <1>4, <1>6 DEF Shown
<1>8. NavigatorTyped'
  BY <1>1, <1>5, <1>6, <1>7 DEF NavigatorInv, NavigatorTyped, MayBe
<1>9. OpenIsCurrent'
  BY <1>1 DEF OpenIsCurrent
<1>10. opened[1].listed => opened[1].key = current.key
  BY <1>1, <1>2, <1>4 DEF NavigatorInv, OpenIsCurrent
<1>11. s.by = "resume" => prepared' = <<>>
  BY <1>2, <1>3 DEF SwitchSound
<1>12. u.at = "opening" => /\ current'.key = u.key
                           /\ u.by # "resume" => u.chosen <= current'.plan
  <2> SUFFICES ASSUME u.at = "opening"
               PROVE current'.key = u.key /\ (u.by # "resume" => u.chosen <= current'.plan)
    OBVIOUS
  <2>1. listed
    BY <1>5
  <2>2. current' = [key |-> s.key, plan |-> cache'[s.key]]
    BY <1>3, <2>1
  <2>3. s.by # "resume" => s.at = "prepared"
    BY <1>1, <1>2
  <2> HIDE DEF listed, at
  <2> QED
    BY <1>5, <1>6, <2>2, <2>3
<1>13. u.at = "opening_as_before" => u.by = "resume"
  <2>1. s.by # "resume" => s.at = "prepared"
    BY <1>1, <1>2
  <2> QED
    BY <1>5, <1>6, <2>1
<1>14. u.at \in {"opening", "opening_as_before"}
  BY <1>5
<1>15. SwitchSound(u)'
  <2> HIDE DEF at, listed
  <2> QED
    BY <1>1, <1>5, <1>10, <1>11, <1>12, <1>13, <1>14 DEF SwitchSound
<1> QED
  BY <1>1, <1>2, <1>5, <1>8, <1>9, <1>15, SwitchGoesOn

LEMMA OpenedKeeps == ASSUME NavigatorInv, Navigator!Opened PROVE NavigatorInv'
<1>1. switch # <<>> /\ switch[1].at = "opening" /\ Navigator!Goes("started")
      /\ UNCHANGED <<transcripts, revision, tree, current, cache, prepared>>
      /\ opened' = <<Navigator!Runtime(current.key, current.plan, TRUE)>>
      /\ (switched' = switched \/ switched' = <<"switched">>)
  BY DEF Navigator!Opened, Navigator!At
<1>2. PICK s \in Switches : s = switch[1] /\ switch = <<s>> /\ tree = <<>> /\ SwitchSound(s)
  BY <1>1, SwitchThere
<1>3. PICK u \in Switches : /\ switch' = <<u>> /\ u.at = "started" /\ u.by = s.by
                            /\ u.key = s.key /\ u.chosen = s.chosen
  BY <1>1, <1>2, GoesTo
<1>4. current \in Shown
  BY DEF NavigatorInv, NavigatorTyped
<1>5. PICK o \in Runtimes : opened' = <<o>> /\ o.key = current.key /\ o.plan = current.plan
  <2> DEFINE o == [key |-> current.key, plan |-> current.plan, listed |-> TRUE]
  <2>1. o \in Runtimes /\ opened' = <<o>>
    BY <1>1, <1>4 DEF Runtimes, Shown, Navigator!Runtime
  <2> QED
    BY <2>1
<1>6. NavigatorTyped'
  BY <1>1, <1>3, <1>5 DEF NavigatorInv, NavigatorTyped, MayBe
<1>7. opened' # <<>> /\ opened'[1].key = current.key /\ opened'[1].plan = current.plan
      /\ current' = current
  <2>1. current' = current
    BY <1>1
  <2>2. opened' # <<>> /\ opened'[1] = o
    BY <1>5
  <2>3. o.key = current.key /\ o.plan = current.plan
    BY <1>5
  <2> QED
    BY <2>1, <2>2, <2>3
<1>11. OpenIsCurrent'
  BY <1>7 DEF OpenIsCurrent
<1>8. switched = <<>> /\ current.key = s.key /\ (s.by # "resume" => s.chosen <= current.plan)
      /\ (s.by = "resume" => prepared = <<>>)
  BY <1>1, <1>2 DEF SwitchSound
<1>9. switched' # <<"rolled_back">>
  <2>1. <<>> # <<"rolled_back">> /\ <<"switched">> # <<"rolled_back">>
    <3>1. <<"switched">>[1] # <<"rolled_back">>[1] /\ <<>> # <<"rolled_back">>
      OBVIOUS
    <3> QED
      BY <3>1
  <2> QED
    BY <1>1, <1>8, <2>1
<1>10. SwitchSound(u)'
  BY <1>1, <1>3, <1>7, <1>8, <1>9 DEF SwitchSound
<1> QED
  BY <1>1, <1>2, <1>3, <1>6, <1>10, <1>11, SwitchGoesOn

LEMMA OpenedAsBeforeKeeps == ASSUME NavigatorInv, Navigator!OpenedAsBefore PROVE NavigatorInv'
<1>1. switch # <<>> /\ switch[1].at = "opening_as_before"
      /\ UNCHANGED <<transcripts, revision, tree, current, cache, prepared, switched>>
  BY DEF Navigator!OpenedAsBefore, Navigator!At
<1>2. PICK s \in Switches : s = switch[1] /\ switch = <<s>> /\ tree = <<>> /\ SwitchSound(s)
  BY <1>1, SwitchThere
<1>3. s.by = "resume" /\ prepared = <<>> /\ opened = <<>> /\ s.key \in Navigator!Keys
      /\ current \in Shown
  BY <1>1, <1>2 DEF SwitchSound, Switches, NavigatorInv, NavigatorTyped
<1>4. CASE opened' = <<Navigator!Runtime(s.key, current.plan, FALSE)>> /\ Navigator!Goes("started")
  <2>1. PICK u \in Switches : switch' = <<u>> /\ u.at = "started" /\ u.by = s.by
    BY <1>2, <1>4, GoesTo
  <2>2. PICK o \in Runtimes : opened' = <<o>> /\ ~o.listed
    <3> DEFINE o == [key |-> s.key, plan |-> current.plan, listed |-> FALSE]
    <3>1. o \in Runtimes /\ opened' = <<o>> /\ ~o.listed
      BY <1>3, <1>4 DEF Runtimes, Shown, Navigator!Runtime
    <3> QED
      BY <3>1
  <2>3. NavigatorTyped'
    BY <1>1, <2>1, <2>2 DEF NavigatorInv, NavigatorTyped, MayBe
  <2>4. OpenIsCurrent'
    BY <2>2 DEF OpenIsCurrent
  <2>5. SwitchSound(u)'
    BY <1>1, <1>3, <2>1, <2>2 DEF SwitchSound
  <2> QED
    BY <1>1, <1>2, <2>1, <2>3, <2>4, <2>5, SwitchGoesOn
<1>5. CASE Navigator!Goes("lost") /\ UNCHANGED opened
  <2>1. PICK u \in Switches : switch' = <<u>> /\ u.at = "lost" /\ u.by = s.by
    BY <1>2, <1>5, GoesTo
  <2>2. NavigatorTyped'
    BY <1>1, <1>5, <2>1 DEF NavigatorInv, NavigatorTyped, MayBe
  <2>3. OpenIsCurrent'
    BY <1>3, <1>5 DEF OpenIsCurrent
  <2>4. SwitchSound(u)'
    BY <1>1, <1>3, <1>5, <2>1 DEF SwitchSound
  <2> QED
    BY <1>1, <1>2, <2>1, <2>2, <2>3, <2>4, SwitchGoesOn
<1> QED
  BY <1>2, <1>4, <1>5 DEF Navigator!OpenedAsBefore

LEMMA OpenFailsKeeps ==
  ASSUME NavigatorInv, NEW hadFile \in BOOLEAN, Navigator!OpenFails(hadFile)
  PROVE  NavigatorInv'
<1>1. switch # <<>> /\ switch[1].at = "opening" /\ current' = switch[1].was
      /\ UNCHANGED <<transcripts, revision, tree, cache, prepared, switched, opened>>
      /\ \/ Navigator!Goes("rolling_back") /\ switch[1].was.key # switch[1].key
         \/ Navigator!Goes("lost")
  BY DEF Navigator!OpenFails, Navigator!At, Navigator!Restored, Navigator!Crossing
<1>2. PICK s \in Switches : s = switch[1] /\ switch = <<s>> /\ tree = <<>> /\ SwitchSound(s)
  BY <1>1, SwitchThere
<1>3. PICK u \in Switches : /\ switch' = <<u>> /\ u.by = s.by /\ u.key = s.key
                            /\ u.chosen = s.chosen /\ u.was = s.was /\ u.had = s.had
                            /\ \/ u.at = "rolling_back" /\ s.was.key # s.key
                               \/ u.at = "lost"
  <2>1. CASE Navigator!Goes("rolling_back") /\ s.was.key # s.key
    BY <1>2, <2>1, GoesTo
  <2>2. CASE Navigator!Goes("lost")
    BY <1>2, <2>2, GoesTo
  <2> QED
    BY <1>1, <1>2, <2>1, <2>2
<1>4. opened = <<>> /\ (s.had.listed => s.had.key = s.was.key) /\ s.was \in Shown
      /\ (s.by = "resume" => prepared = <<>>)
  BY <1>1, <1>2 DEF SwitchSound, Switches
<1>5. NavigatorTyped'
  BY <1>1, <1>2, <1>3, <1>4 DEF NavigatorInv, NavigatorTyped, MayBe
<1>6. OpenIsCurrent'
  BY <1>1, <1>4 DEF OpenIsCurrent
<1>7. SwitchSound(u)'
  BY <1>1, <1>2, <1>3, <1>4 DEF SwitchSound
<1> QED
  BY <1>1, <1>2, <1>3, <1>5, <1>6, <1>7, SwitchGoesOn

LEMMA RollBackKeeps == ASSUME NavigatorInv, Navigator!RollBack PROVE NavigatorInv'
<1>1. switch # <<>> /\ switch[1].at = "rolling_back"
      /\ UNCHANGED <<transcripts, revision, tree, current, cache, prepared>>
  BY DEF Navigator!RollBack, Navigator!At
<1>2. PICK s \in Switches : s = switch[1] /\ switch = <<s>> /\ tree = <<>> /\ SwitchSound(s)
  BY <1>1, SwitchThere
<1>3. /\ opened = <<>> /\ s.had \in Runtimes /\ (s.had.listed => s.had.key = s.was.key)
      /\ current = s.was /\ s.was.key # s.key /\ (s.by = "resume" => prepared = <<>>)
      /\ current \in Shown
  BY <1>1, <1>2 DEF SwitchSound, Switches
<1>4. CASE /\ opened' = <<[s.had EXCEPT !.plan = current.plan]>>
           /\ switched' = <<"rolled_back">> /\ Navigator!Goes("started")
  <2>1. PICK u \in Switches : /\ switch' = <<u>> /\ u.at = "started" /\ u.by = s.by
                              /\ u.key = s.key /\ u.was = s.was
    BY <1>2, <1>4, GoesTo
  <2>2. PICK o \in Runtimes : /\ opened' = <<o>> /\ o.key = s.had.key /\ o.listed = s.had.listed
                              /\ o.plan = current.plan
    <3> DEFINE o == [s.had EXCEPT !.plan = current.plan]
    <3>1. o \in Runtimes /\ o.key = s.had.key /\ o.listed = s.had.listed /\ o.plan = current.plan
      BY <1>3 DEF Runtimes, Shown
    <3>2. opened' = <<o>>
      BY <1>4
    <3> HIDE DEF o
    <3> QED
      BY <3>1, <3>2
  <2>3. NavigatorTyped'
    BY <1>1, <2>1, <2>2 DEF NavigatorInv, NavigatorTyped, MayBe
  <2>4. OpenIsCurrent'
    BY <1>1, <1>3, <2>2 DEF OpenIsCurrent
  <2>5. SwitchSound(u)'
    BY <1>1, <1>3, <1>4, <2>1, <2>2 DEF SwitchSound
  <2> QED
    BY <1>1, <1>2, <2>1, <2>3, <2>4, <2>5, SwitchGoesOn
<1>5. CASE Navigator!Goes("lost") /\ UNCHANGED <<opened, switched>>
  <2>1. PICK u \in Switches : switch' = <<u>> /\ u.at = "lost" /\ u.by = s.by
    BY <1>2, <1>5, GoesTo
  <2>2. NavigatorTyped'
    BY <1>1, <1>5, <2>1 DEF NavigatorInv, NavigatorTyped, MayBe
  <2>3. OpenIsCurrent'
    BY <1>3, <1>5 DEF OpenIsCurrent
  <2>4. SwitchSound(u)'
    BY <1>1, <1>3, <1>5, <2>1 DEF SwitchSound
  <2> QED
    BY <1>1, <1>2, <2>1, <2>2, <2>3, <2>4, SwitchGoesOn
<1> QED
  BY <1>2, <1>4, <1>5 DEF Navigator!RollBack

\* A switch that is over leaves what is open and what is shown alone.
LEMMA SwitchEnds ==
  ASSUME NavigatorInv, switch # <<>>, switch[1].at \in {"started", "lost"},
         switch' = <<>>, prepared' = <<>>,
         UNCHANGED <<transcripts, revision, tree, current, cache, opened>>
  PROVE  NavigatorInv'
<1>1. tree = <<>> /\ SwitchSound(switch[1])
  BY SwitchThere
<1>2. NavigatorTyped'
  BY DEF NavigatorInv, NavigatorTyped, MayBe
<1>3. OpenIsCurrent'
  <2>1. CASE switch[1].at = "started"
    BY <2>1 DEF NavigatorInv, OpenIsCurrent
  <2>2. CASE switch[1].at = "lost"
    BY <1>1, <2>2 DEF SwitchSound, OpenIsCurrent
  <2> QED
    BY <2>1, <2>2
<1> QED
  BY <1>1, <1>2, <1>3, SwitchOver

LEMMA EndsKeep ==
  ASSUME NavigatorInv,
         Navigator!NotifyAfterReplacement \/ Navigator!Resumed \/ Navigator!Ends
  PROVE  NavigatorInv'
<1>1. CASE Navigator!NotifyAfterReplacement
  BY <1>1, SwitchEnds DEF Navigator!NotifyAfterReplacement, Navigator!At
<1>2. CASE Navigator!Resumed
  <2>1. switch # <<>> /\ switch[1].at = "started" /\ switch[1].by = "resume" /\ switch' = <<>>
        /\ UNCHANGED <<transcripts, revision, tree, current, cache, prepared, opened>>
    BY <1>2 DEF Navigator!Resumed, Navigator!At, Navigator!controller
  <2>2. prepared = <<>>
    BY <2>1, SwitchThere DEF SwitchSound
  <2> QED
    BY <2>1, <2>2, SwitchEnds
<1>3. CASE Navigator!Ends
  BY <1>3, SwitchEnds DEF Navigator!Ends, Navigator!At
<1> QED
  BY <1>1, <1>2, <1>3

LEMMA PiNewKeeps == ASSUME NavigatorInv, Navigator!PiNew PROVE NavigatorInv'
<1>1. tree = <<>> /\ switch = <<>> /\ opened # <<>> /\ prepared = <<>>
      /\ transcripts' = transcripts \cup {opened[1].key}
      /\ opened' = <<[opened[1] EXCEPT !.plan = current.plan]>>
      /\ UNCHANGED <<revision, tree, current, cache, prepared, switch>>
  BY DEF Navigator!PiNew, NavigatorInv
<1>2. PICK o \in Runtimes : opened = <<o>> /\ opened[1] = o
  BY <1>1 DEF NavigatorInv, NavigatorTyped, MayBe
<1>3. current \in Shown /\ o.key \in Navigator!Keys
  BY DEF NavigatorInv, NavigatorTyped, Runtimes
<1> DEFINE n == [o EXCEPT !.plan = current.plan]
<1>4. n \in Runtimes /\ n.key = o.key /\ n.listed = o.listed /\ n.plan = current.plan
  BY <1>3 DEF Runtimes, Shown
<1>5. opened' = <<n>> /\ opened'[1] = n
  BY <1>1, <1>2
<1> HIDE DEF n
<1>6. NavigatorTyped'
  BY <1>1, <1>2, <1>3, <1>4, <1>5 DEF NavigatorInv, NavigatorTyped, MayBe
<1>7. o.listed => o.key = current.key
  BY <1>1, <1>2 DEF NavigatorInv, OpenIsCurrent
<1>8. OpenIsCurrent'
  BY <1>1, <1>4, <1>5, <1>7 DEF OpenIsCurrent
<1> QED
  BY <1>1, <1>6, <1>8, SwitchOver

LEMMA NavigatorKept == ASSUME NavigatorInv, Navigator!Next PROVE NavigatorInv'
<1>1. \A q \in {""} \cup Navigator!ToSet(Navigable) : q \in Queries
  BY SameOperators DEF Queries, TreeAgents
<1>2. \A q \in {"", "none"} \cup Navigator!ToSet(Navigable) \cup LocalNames : q \in Queries
  BY SameOperators DEF Queries, TreeAgents
<1>3. ASSUME \E q \in {""} \cup Navigator!ToSet(Navigable) : Navigator!OpenNavigator(q)
      PROVE  NavigatorInv'
  BY <1>1, <1>3, OpenNavigatorKeeps
<1>4. ASSUME \E q \in {"", "none"} \cup Navigator!ToSet(Navigable) \cup LocalNames :
               Navigator!Filter(q)
      PROVE  NavigatorInv'
  BY <1>2, <1>4, FilterKeeps
<1> QED
  BY <1>3, <1>4, ElsewhereKeeps, MoveKeeps, MoveLeftKeeps, MoveRightKeeps, CancelKeeps,
    ToggleKeeps, ChooseKeeps, PreflightKeeps, RefusedKeeps, CreateRuntimeKeeps, OpenedKeeps,
    OpenedAsBeforeKeeps, RollBackKeeps, OpenFailsKeeps, EndsKeep, PiNewKeeps, PiResumeKeeps
  DEF Navigator!Next

\* What is told of a switch when it is over.
LEMMA ToldTruly == ASSUME NavigatorInv PROVE Navigator!ToldWhatIsOpen
<1> SUFFICES ASSUME Navigator!NotifyAfterReplacement
             PROVE LET s == switch[1]  told == said'[1]
                   IN /\ told.key = opened[1].key \/ ~opened[1].listed
                      /\ told.kind = "opened" => told.key = s.key /\ opened[1].plan >= s.chosen
                      /\ told.kind = "restored" => told.key = s.was.key /\ told.key # s.key
  BY DEF Navigator!ToldWhatIsOpen
<1>1. switch # <<>> /\ switch[1].at = "started" /\ switch[1].by # "resume"
      /\ said' = <<[kind |-> IF switched = <<"rolled_back">> THEN "restored" ELSE "opened",
                    key |-> current.key, by |-> switch[1].by]>>
  BY DEF Navigator!NotifyAfterReplacement, Navigator!At
<1>2. PICK s \in Switches : s = switch[1] /\ SwitchSound(s)
  BY <1>1, SwitchThere
<1>3. /\ opened # <<>>
      /\ \/ switched = <<"rolled_back">> /\ current = s.was /\ s.was.key # s.key
         \/ switched # <<"rolled_back">> /\ current.key = s.key /\ s.chosen <= opened[1].plan
  BY <1>1, <1>2 DEF SwitchSound
<1>4. opened[1] \in Runtimes /\ s.chosen \in Nat
  BY <1>3 DEF NavigatorInv, NavigatorTyped, MayBe, Switches
<1>5. opened[1].listed => opened[1].key = current.key
  BY <1>1, <1>3 DEF NavigatorInv, OpenIsCurrent
<1>6. opened[1].plan \in Nat
  BY <1>4 DEF Runtimes
<1>7. said'[1].key = current.key
      /\ said'[1].kind = IF switched = <<"rolled_back">> THEN "restored" ELSE "opened"
  BY <1>1
<1> QED
  BY <1>2, <1>3, <1>4, <1>5, <1>6, <1>7

\* Whatever switches fail and are undone, what the terminal shows as current is what
\* is open, it tells of a switch what happened, and its cursor is on a row
\* (tui/session-selector.ts, session-target.ts).
THEOREM SwitchesShown == SessionsSpec => SessionShown
<1>1. SessionsInit => NavigatorInv
  BY NavigatorStarts DEF SessionsInit
<1>2. NavigatorInv /\ [SessionsNext]_everything => NavigatorInv'
  BY NavigatorKept, NavigatorSteady DEF SessionsNext, everything
<1>3. NavigatorInv => Navigator!ShownIsOpen /\ Navigator!CursorOnRow
  <2> SUFFICES ASSUME NavigatorInv PROVE Navigator!ShownIsOpen /\ Navigator!CursorOnRow
    OBVIOUS
  <2>1. Navigator!ShownIsOpen
    BY DEF NavigatorInv, OpenIsCurrent, Navigator!ShownIsOpen
  <2>2. Navigator!CursorOnRow
    BY TreeThere, RowsKnown DEF CursorIn, AgentsAbove, Navigator!CursorOnRow
  <2> QED
    BY <2>1, <2>2
<1>4. NavigatorInv /\ NavigatorInv' =>
        (part = "navigator" => /\ (Navigator!ShownIsOpen /\ Navigator!CursorOnRow)'
                               /\ Navigator!ToldWhatIsOpen)
  <2>1. NavigatorInv' => (Navigator!ShownIsOpen /\ Navigator!CursorOnRow)'
    BY <1>3, PTL
  <2> QED
    BY <2>1, ToldTruly
<1>5. NavigatorInv /\ NavigatorInv' /\ [SessionsNext]_everything =>
        [part = "navigator" => /\ (Navigator!ShownIsOpen /\ Navigator!CursorOnRow)'
                               /\ Navigator!ToldWhatIsOpen]_everything
  BY <1>4
<1> QED
  BY <1>1, <1>2, <1>5, PTL DEF SessionsSpec, SessionShown
=============================================================================
