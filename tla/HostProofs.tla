----------------------------- MODULE HostProofs -----------------------------
(***************************************************************************)
(* What is proved of the host. First that a gateway that runs stands in    *)
(* the pid file, and that nobody is about to remove its claim              *)
(* (gateway/pid-file.ts), for any number of starts, crashes, pids and      *)
(* commands that look for the gateway. Then what the proofs about the      *)
(* other components mean for the host: a behaviour of the host is one of   *)
(* each of its components, since a step of one leaves the variables of the *)
(* others alone.                                                           *)
(***************************************************************************)
EXTENDS MCHost, Sequences, TLAPS

----------------------------------------------------------------------------
(* The claim.                                                              *)
(*                                                                         *)
(* The two halves of Undisturbed need one invariant.  Before a crash no    *)
(* claim is stale: the file on disk is that of a gateway that lives, so    *)
(* nobody removes it, and creating it exclusively keeps all others out.    *)
(* When programs never meet at the files, what one of them has read of the *)
(* pid file is still so when it acts on it.  The lock file has no part in  *)
(* either.                                                                 *)

\* A gateway that has created the pid file and not ended.
Owning == {"write", "unlock"} \cup Running

\* Those who own the file are named by it, or are about to write it.
OwnersNamed ==
  \A p \in Pids :
    /\ stage[p] = "write" => pidFile = FileOf(p, Nothing)
    /\ stage[p] \in {"unlock"} \cup Running => pidFile = FileOf(p, p)

\* Who is about to remove a claim has found it stale, and it still is.
RemovedStale ==
  Reclaims \/ CleansUp => \E q \in Pids : pidFile.text = q /\ stage[q] \in {"off", "other"}

\* Before the first crash the file is that of a gateway that lives, and is not
\* about to be removed as stale.
NothingStale ==
  crashes = 0 =>
    /\ pidFile # NoFile => \E p \in Pids : pidFile.by = p /\ stage[p] \in Owning
    /\ ~ Reclaims /\ ~ CleansUp

\* One program at the files at a time, as long as none has met another.
AloneAtFiles ==
  ~ overlapped =>
    /\ \A p, q \in Pids : stage[p] \in Claiming /\ stage[q] \in Claiming => p = q
    /\ \A l, m \in Lookers : looker[l] = "removing" /\ looker[m] = "removing" => l = m
    /\ \A p \in Pids, l \in Lookers : ~ (stage[p] \in Claiming /\ looker[l] = "removing")

PidInv ==
  /\ TypeOK /\ NothingStale /\ AloneAtFiles
  /\ Undisturbed => OwnersNamed /\ RemovedStale

----------------------------------------------------------------------------
LEMMA PidInit == Init => PidInv
<1>. SUFFICES ASSUME Init PROVE PidInv
  OBVIOUS
<1>1. \A p \in Pids : stage[p] = "off"
  BY DEF Init
<1>2. \A l \in Lookers : looker[l] = "idle"
  BY DEF Init
<1>3. TypeOK
  BY BoundsAssumption DEF Init, TypeOK, Stages
<1>4. ~ Reclaims /\ ~ CleansUp
  BY <1>1, <1>2 DEF Reclaims, CleansUp
<1>. QED
  BY <1>1, <1>2, <1>3, <1>4
     DEF Init, PidInv, NothingStale, AloneAtFiles, OwnersNamed, RemovedStale, Claiming, Running

\* What is moved when one gateway goes on: its own stage.
LEMMA GotoShape ==
  ASSUME stage \in [Pids -> Stages], NEW p \in Pids, NEW s \in Stages, Goto(p, s)
  PROVE  /\ stage' \in [Pids -> Stages] /\ stage'[p] = s
         /\ \A q \in Pids \ {p} : stage'[q] = stage[q]
BY DEF Goto

\* A pid file that names somebody was written by its creator.
LEMMA NamesCreator ==
  ASSUME TypeOK, pidFile.text \in Pids
  PROVE  \E o \in Pids : pidFile = FileOf(o, o)
<1>1. pidFile # NoFile
  <2>1. NoFile.text \notin Pids
    BY PidsAssumption DEF NoFile
  <2>. QED  BY <2>1
<1>2. PICK o \in Pids : pidFile \in {FileOf(o, Nothing), FileOf(o, o)}
  BY <1>1 DEF TypeOK
<1>3. pidFile # FileOf(o, Nothing)
  <2>1. FileOf(o, Nothing).text \notin Pids
    BY PidsAssumption DEF FileOf
  <2>. QED  BY <2>1
<1>. QED  BY <1>2, <1>3

\* Which stages are which.
LEMMA StagesApart ==
  /\ Claiming \subseteq Stages /\ Running \subseteq Stages /\ Claiming \cap Running = {}
  /\ Owning \subseteq Claiming \cup Running
  /\ {"off", "other", "exiting"} \cap (Claiming \cup Running) = {}
BY DEF Stages, Claiming, Running, Owning

\* A step of a gateway that leaves the files as they are: in its claim, to no decision about the file.
LEMMA ClaimGoesOn ==
  ASSUME PidInv, NEW p \in Pids, NEW s \in Stages, Goto(p, s),
         UNCHANGED <<pidFile, looker, overlapped>>, TypeOK', UNCHANGED crashes,
         stage[p] \in Claiming \ (Owning \cup {"remove"}),
         s \in (Claiming \cup {"exiting"}) \ (Owning \cup {"remove"})
  PROVE  PidInv'
<1>1. /\ stage'[p] = s /\ \A q \in Pids \ {p} : stage'[q] = stage[q]
      /\ NothingStale /\ AloneAtFiles /\ (Undisturbed => OwnersNamed /\ RemovedStale)
  BY GotoShape DEF PidInv, TypeOK
<1>. USE StagesApart DEF Claiming, Running, Owning
<1>2. NothingStale'
  BY <1>1, PidsAssumption DEF NothingStale, Reclaims, CleansUp
<1>3. AloneAtFiles'
  BY <1>1 DEF AloneAtFiles
<1>4. Undisturbed' => Undisturbed
  BY <1>1 DEF Undisturbed, TypeOK
<1>5. Undisturbed' => OwnersNamed'
  BY <1>1, <1>4 DEF OwnersNamed
<1>6. Undisturbed' => RemovedStale'
  BY <1>1, <1>4 DEF RemovedStale, Reclaims, CleansUp
<1>. QED  BY <1>2, <1>3, <1>5, <1>6 DEF PidInv

\* A step of a gateway that leaves the files as they are: when it owns the file.
LEMMA OwnerGoesOn ==
  ASSUME PidInv, NEW p \in Pids, NEW s \in Stages, Goto(p, s),
         UNCHANGED <<pidFile, looker, overlapped>>, TypeOK', UNCHANGED crashes,
         stage[p] \in {"unlock"} \cup Running, s \in Running
  PROVE  PidInv'
<1>1. /\ stage'[p] = s /\ \A q \in Pids \ {p} : stage'[q] = stage[q]
      /\ NothingStale /\ AloneAtFiles /\ (Undisturbed => OwnersNamed /\ RemovedStale)
  BY GotoShape DEF PidInv, TypeOK
<1>. USE StagesApart DEF Claiming, Running, Owning
<1>2. NothingStale'
  BY <1>1, PidsAssumption DEF NothingStale, Reclaims, CleansUp
<1>3. AloneAtFiles'
  BY ZenonT(40), <1>1 DEF AloneAtFiles
<1>4. Undisturbed' => Undisturbed
  BY <1>1 DEF Undisturbed, TypeOK
<1>5. Undisturbed' => OwnersNamed'
  BY <1>1, <1>4 DEF OwnersNamed
<1>6. Undisturbed' => RemovedStale'
  BY <1>1, <1>4 DEF RemovedStale, Reclaims, CleansUp, OwnersNamed, FileOf
<1>. QED  BY <1>2, <1>3, <1>5, <1>6 DEF PidInv

\* A step of a gateway that leaves the files as they are: that finds a stale claim.
LEMMA FindsStale ==
  ASSUME PidInv, NEW p \in Pids, NEW s \in Stages, Goto(p, s),
         UNCHANGED <<pidFile, looker, overlapped>>, TypeOK', UNCHANGED crashes,
         stage[p] = "read", s = "remove",
         pidFile.text \in Pids, ~ LiveGateway(pidFile.text)
  PROVE  PidInv'
<1>1. /\ stage'[p] = s /\ \A q \in Pids \ {p} : stage'[q] = stage[q]
      /\ NothingStale /\ AloneAtFiles /\ (Undisturbed => OwnersNamed /\ RemovedStale)
  BY GotoShape DEF PidInv, TypeOK
<1>. USE StagesApart DEF Claiming, Running, Owning
<1>a. PICK o \in Pids : pidFile = FileOf(o, o) /\ stage[o] \in {"off", "other"} /\ o # p
  <2>1. PICK o \in Pids : pidFile = FileOf(o, o)
    BY NamesCreator DEF PidInv
  <2>2. pidFile.text = o /\ o \in Pids
    BY <2>1 DEF FileOf
  <2>3. stage[o] \in {"off", "other"}
    BY <2>2 DEF LiveGateway, IsAlive
  <2>. QED  BY <2>1, <2>3
<1>2. NothingStale'
  <2>. SUFFICES ASSUME crashes = 0 PROVE FALSE
    BY DEF NothingStale
  <2>1. pidFile # NoFile
    BY <1>a, PidsAssumption DEF NoFile, FileOf
  <2>2. PICK q \in Pids : pidFile.by = q /\ stage[q] \in Owning
    BY <1>1, <2>1 DEF NothingStale
  <2>. QED  BY <1>a, <2>2 DEF FileOf
<1>3. AloneAtFiles'
  BY ZenonT(40), <1>1 DEF AloneAtFiles
<1>4. Undisturbed' => Undisturbed
  BY <1>1 DEF Undisturbed, TypeOK
<1>5. Undisturbed' => OwnersNamed'
  BY <1>1, <1>4 DEF OwnersNamed
<1>6. Undisturbed' => RemovedStale'
  BY <1>1, <1>a DEF RemovedStale, FileOf
<1>. QED  BY <1>2, <1>3, <1>5, <1>6 DEF PidInv

\* A step of a gateway that leaves the files as they are: outside a claim.
LEMMA OutsideGoesOn ==
  ASSUME PidInv, NEW p \in Pids, NEW s \in Stages, Goto(p, s),
         UNCHANGED <<pidFile, looker, overlapped>>, TypeOK', UNCHANGED crashes,
         stage[p] \in {"off", "other", "exiting"}, s \in {"off", "other"}
  PROVE  PidInv'
<1>1. /\ stage'[p] = s /\ \A q \in Pids \ {p} : stage'[q] = stage[q]
      /\ NothingStale /\ AloneAtFiles /\ (Undisturbed => OwnersNamed /\ RemovedStale)
  BY GotoShape DEF PidInv, TypeOK
<1>. USE StagesApart DEF Claiming, Running, Owning
<1>2. NothingStale'
  BY <1>1, PidsAssumption DEF NothingStale, Reclaims, CleansUp
<1>3. AloneAtFiles'
  BY ZenonT(60), <1>1 DEF AloneAtFiles
<1>4. Undisturbed' => Undisturbed
  BY <1>1 DEF Undisturbed, TypeOK
<1>5. Undisturbed' => OwnersNamed'
  BY <1>1, <1>4 DEF OwnersNamed
<1>6. Undisturbed' => RemovedStale'
  BY <1>1, <1>4 DEF RemovedStale, Reclaims, CleansUp
<1>. QED  BY <1>2, <1>3, <1>5, <1>6 DEF PidInv

\* What PidInv says, for those who use parts of it.
LEMMA PidInvParts ==
  ASSUME PidInv
  PROVE  /\ TypeOK /\ NothingStale /\ AloneAtFiles
         /\ stage \in [Pids -> Stages] /\ looker \in [Lookers -> {"idle", "removing"}]
         /\ crashes \in Nat
         /\ Undisturbed => OwnersNamed /\ RemovedStale
BY BoundsAssumption DEF PidInv, TypeOK

\* A start meets whoever is at the files, or is alone there.
LEMMA LaunchStep == ASSUME PidInv, NEW p \in Pids, Launch(p) PROVE PidInv'
<1>1. TypeOK'
  <2>1. starts' \in 0..MaxStarts
    BY BoundsAssumption DEF Launch, PidInv, TypeOK
  <2>2. stage' \in [Pids -> Stages]
    BY DEF Launch, Goto, PidInv, TypeOK, Stages, Claiming
  <2>. QED  BY <2>1, <2>2 DEF Launch, PidInv, TypeOK
<1>2. /\ stage[p] = "off" /\ stage'[p] = "lock"
      /\ \A q \in Pids \ {p} : stage'[q] = stage[q]
      /\ UNCHANGED <<pidFile, looker, crashes>> /\ overlapped' = (overlapped \/ AtFiles)
  BY DEF Launch, Goto, PidInv, TypeOK
<1>3. NothingStale'
  BY <1>2, PidInvParts DEF NothingStale, Reclaims, CleansUp, Owning, Running
<1>4. AloneAtFiles'
  BY <1>2, PidInvParts DEF AloneAtFiles, AtFiles
<1>5. Undisturbed' => OwnersNamed' /\ Undisturbed
  BY <1>2, PidInvParts DEF Undisturbed, OwnersNamed, Running
<1>6. Undisturbed' => RemovedStale'
  <2>1. CASE Reclaims \/ CleansUp
    BY <1>2, <2>1, PidInvParts
       DEF Undisturbed, NothingStale, Reclaims, CleansUp, AtFiles, Claiming
  <2>2. CASE ~ (Reclaims \/ CleansUp)
    BY <1>2, <2>2 DEF RemovedStale, Reclaims, CleansUp
  <2>. QED  BY <2>1, <2>2
<1>. QED  BY <1>1, <1>3, <1>4, <1>5, <1>6 DEF PidInv

LEMMA CrashStep == ASSUME PidInv, NEW p \in Pids, Crash(p) PROVE PidInv'
<1>1. TypeOK'
  BY BoundsAssumption DEF Crash, Goto, PidInv, TypeOK, Stages
<1>2. /\ stage'[p] = "off" /\ \A q \in Pids \ {p} : stage'[q] = stage[q]
      /\ UNCHANGED <<pidFile, looker, overlapped>> /\ crashes' = crashes + 1
  BY DEF Crash, Goto, PidInv, TypeOK
<1>3. crashes' # 0
  BY <1>2, PidInvParts
<1>4. AloneAtFiles'
  BY <1>2, PidInvParts DEF AloneAtFiles, Claiming
<1>5. Undisturbed' => Undisturbed
  BY <1>2, <1>3 DEF Undisturbed
<1>6. Undisturbed' => OwnersNamed'
  BY <1>2, <1>5, PidInvParts DEF OwnersNamed, Running
<1>7. Undisturbed' => RemovedStale'
  BY <1>2, <1>5, PidInvParts DEF RemovedStale, Reclaims, CleansUp
<1>. QED  BY <1>1, <1>3, <1>4, <1>6, <1>7 DEF PidInv, NothingStale

\* The claim that is removed names nobody who owns the file.
LEMMA RemoveStep == ASSUME PidInv, NEW p \in Pids, RemovePid(p) PROVE PidInv'
<1>1. TypeOK'
  BY DEF RemovePid, Goto, PidInv, TypeOK, Stages, Claiming, counts
<1>2. /\ stage[p] = "remove" /\ stage'[p] = "create"
      /\ \A q \in Pids \ {p} : stage'[q] = stage[q]
      /\ pidFile' = NoFile /\ UNCHANGED <<looker, overlapped, crashes>>
  BY DEF RemovePid, Goto, PidInv, TypeOK, counts
<1>3. crashes # 0
  BY <1>2, PidInvParts DEF NothingStale, Reclaims
<1>4. AloneAtFiles'
  BY ZenonT(40), <1>2, PidInvParts DEF AloneAtFiles, Claiming
<1>. SUFFICES ASSUME Undisturbed' PROVE OwnersNamed' /\ RemovedStale'
  BY <1>1, <1>2, <1>3, <1>4 DEF PidInv, NothingStale
<1>5. ~ overlapped /\ Undisturbed
  BY <1>2, <1>3 DEF Undisturbed
<1>6. PICK o \in Pids : pidFile.text = o /\ stage[o] \in {"off", "other"}
  BY <1>2, <1>5, PidInvParts DEF RemovedStale, Reclaims
<1>7. \A q \in Pids : stage[q] \notin Owning
  <2>. SUFFICES ASSUME NEW q \in Pids, stage[q] \in Owning PROVE FALSE
    OBVIOUS
  <2>1. CASE stage[q] \in {"write", "unlock"}
    BY <1>2, <1>5, <2>1, PidInvParts DEF AloneAtFiles, Claiming
  <2>2. CASE stage[q] \in Running
    BY <1>5, <1>6, <2>2, PidInvParts DEF OwnersNamed, FileOf, Running
  <2>. QED  BY <2>1, <2>2 DEF Owning
<1>8. \A q \in Pids : stage'[q] \notin Owning
  BY <1>2, <1>7 DEF Owning, Running
<1>9. ~ Reclaims' /\ ~ CleansUp'
  BY <1>2, <1>5, PidInvParts DEF Reclaims, CleansUp, AloneAtFiles, Claiming
<1>. QED  BY <1>8, <1>9 DEF OwnersNamed, RemovedStale, Owning

LEMMA CleanUpStep == ASSUME PidInv, NEW l \in Lookers, CleanUp(l) PROVE PidInv'
<1>1. TypeOK'
  BY DEF CleanUp, PidInv, TypeOK, counts
<1>2. /\ looker[l] = "removing" /\ looker'[l] = "idle"
      /\ \A m \in Lookers \ {l} : looker'[m] = looker[m]
      /\ pidFile' = NoFile /\ UNCHANGED <<stage, overlapped, crashes>>
  BY DEF CleanUp, PidInv, TypeOK, counts
<1>3. crashes # 0
  BY <1>2, PidInvParts DEF NothingStale, CleansUp
<1>4. AloneAtFiles'
  BY <1>2, PidInvParts DEF AloneAtFiles
<1>. SUFFICES ASSUME Undisturbed' PROVE OwnersNamed' /\ RemovedStale'
  BY <1>1, <1>2, <1>3, <1>4 DEF PidInv, NothingStale
<1>5. ~ overlapped /\ Undisturbed
  BY <1>2, <1>3 DEF Undisturbed
<1>6. PICK o \in Pids : pidFile.text = o /\ stage[o] \in {"off", "other"}
  BY <1>2, <1>5, PidInvParts DEF RemovedStale, CleansUp
<1>7. \A q \in Pids : stage[q] \notin Owning
  <2>. SUFFICES ASSUME NEW q \in Pids, stage[q] \in Owning PROVE FALSE
    OBVIOUS
  <2>1. CASE stage[q] \in {"write", "unlock"}
    BY <1>2, <1>5, <2>1, PidInvParts DEF AloneAtFiles, Claiming
  <2>2. CASE stage[q] \in Running
    BY <1>5, <1>6, <2>2, PidInvParts DEF OwnersNamed, FileOf, Running
  <2>. QED  BY <2>1, <2>2 DEF Owning
<1>8. ~ Reclaims' /\ ~ CleansUp'
  BY <1>2, <1>5, PidInvParts DEF Reclaims, CleansUp, AloneAtFiles, Claiming
<1>. QED  BY <1>2, <1>7, <1>8 DEF OwnersNamed, RemovedStale, Owning

\* The exclusive creation: nobody owned a file.
LEMMA CreateStep == ASSUME PidInv, NEW p \in Pids, CreatePid(p), pidFile = NoFile PROVE PidInv'
<1>1. /\ stage[p] = "create" /\ stage'[p] = "write"
      /\ \A q \in Pids \ {p} : stage'[q] = stage[q]
      /\ pidFile' = FileOf(p, Nothing) /\ UNCHANGED <<looker, overlapped, crashes>>
  BY DEF CreatePid, Goto, PidInv, TypeOK, counts
<1>2. TypeOK'
  BY DEF CreatePid, Goto, PidInv, TypeOK, Stages, Claiming, counts
<1>3. pidFile'.by = p
  BY <1>1 DEF FileOf
<1>4. NothingStale'
  BY <1>1, <1>3, PidInvParts DEF NothingStale, Reclaims, CleansUp, Owning
<1>5. AloneAtFiles'
  BY ZenonT(40), <1>1, PidInvParts DEF AloneAtFiles, Claiming
<1>. SUFFICES ASSUME Undisturbed' PROVE OwnersNamed' /\ RemovedStale'
  BY <1>2, <1>4, <1>5 DEF PidInv
<1>6. Undisturbed
  BY <1>1 DEF Undisturbed
<1>7. \A q \in Pids : stage[q] \notin Owning
  BY <1>6, PidInvParts, PidsAssumption DEF OwnersNamed, Owning, FileOf, NoFile
<1>8. \A q \in Pids : stage'[q] = "write" => q = p
  BY <1>1, <1>7 DEF Owning
<1>9. \A q \in Pids : stage'[q] \notin {"unlock"} \cup Running
  BY <1>1, <1>7 DEF Owning, Running
<1>10. ~ Reclaims' /\ ~ CleansUp'
  <2>1. ~ Reclaims /\ ~ CleansUp
    <3>1. \A q \in Pids : pidFile.text # q
      BY PidsAssumption DEF NoFile
    <3>. QED  BY <1>6, <3>1, PidInvParts DEF RemovedStale
  <2>. QED  BY <1>1, <2>1 DEF Reclaims, CleansUp
<1>. QED  BY <1>1, <1>8, <1>9, <1>10 DEF OwnersNamed, RemovedStale

\* The pid reaches the file that its gateway created.
LEMMA WriteStep == ASSUME PidInv, NEW p \in Pids, WritePid(p) PROVE PidInv'
<1>1. /\ stage[p] = "write" /\ stage'[p] = "unlock"
      /\ \A q \in Pids \ {p} : stage'[q] = stage[q]
      /\ UNCHANGED <<looker, overlapped, crashes>>
      /\ pidFile' = IF pidFile.by = p THEN FileOf(p, p) ELSE pidFile
  BY DEF WritePid, Goto, PidInv, TypeOK, counts
<1>2. TypeOK'
  BY <1>1 DEF WritePid, Goto, PidInv, TypeOK, Stages, Claiming, counts
<1>3. NothingStale'
  <2>. SUFFICES ASSUME crashes = 0
                PROVE  /\ pidFile' # NoFile => \E q \in Pids : pidFile'.by = q /\ stage'[q] \in Owning
                       /\ ~ Reclaims' /\ ~ CleansUp'
    BY <1>1 DEF NothingStale
  <2>1. ~ Reclaims' /\ ~ CleansUp'
    BY <1>1, PidInvParts DEF NothingStale, Reclaims, CleansUp
  <2>2. pidFile'.by = pidFile.by
    BY <1>1 DEF FileOf
  <2>3. pidFile' # NoFile => pidFile # NoFile
    <3>1. NoFile.by # p
      BY PidsAssumption DEF NoFile
    <3>. QED  BY <1>1, <3>1
  <2>. QED  BY <1>1, <2>1, <2>2, <2>3, PidInvParts DEF NothingStale, Owning
<1>4. AloneAtFiles'
  BY ZenonT(40), <1>1, PidInvParts DEF AloneAtFiles, Claiming
<1>. SUFFICES ASSUME Undisturbed' PROVE OwnersNamed' /\ RemovedStale'
  BY <1>2, <1>3, <1>4 DEF PidInv
<1>5. Undisturbed
  BY <1>1 DEF Undisturbed
<1>6. pidFile = FileOf(p, Nothing) /\ pidFile' = FileOf(p, p)
  BY <1>1, <1>5, PidInvParts DEF OwnersNamed, FileOf
<1>7. \A q \in Pids \ {p} : stage[q] \notin Owning
  BY <1>5, <1>6, PidInvParts DEF OwnersNamed, Owning, FileOf
<1>8. OwnersNamed'
  BY <1>1, <1>6, <1>7 DEF OwnersNamed, Owning, Running
<1>9. ~ Reclaims /\ ~ CleansUp
  BY <1>5, <1>6, PidInvParts, PidsAssumption DEF RemovedStale, FileOf
<1>. QED  BY <1>1, <1>8, <1>9 DEF RemovedStale, Reclaims, CleansUp

\* A gateway removes its own claim.
LEMMA ReleaseStep == ASSUME PidInv, NEW p \in Pids, RemoveClaim(p) PROVE PidInv'
<1>1. /\ stage[p] = "releasing" /\ stage'[p] = "exiting"
      /\ \A q \in Pids \ {p} : stage'[q] = stage[q]
      /\ pidFile' = NoFile /\ UNCHANGED <<looker, overlapped, crashes>>
  BY DEF RemoveClaim, Goto, PidInv, TypeOK, counts
<1>2. TypeOK'
  BY DEF RemoveClaim, Goto, PidInv, TypeOK, Stages, counts
<1>3. NothingStale'
  BY <1>1, PidInvParts DEF NothingStale, Reclaims, CleansUp
<1>4. AloneAtFiles'
  BY ZenonT(60), <1>1, PidInvParts DEF AloneAtFiles, Claiming
<1>. SUFFICES ASSUME Undisturbed' PROVE OwnersNamed' /\ RemovedStale'
  BY <1>2, <1>3, <1>4 DEF PidInv
<1>5. Undisturbed
  BY <1>1 DEF Undisturbed
<1>6. pidFile = FileOf(p, p)
  BY <1>1, <1>5, PidInvParts DEF OwnersNamed, Running
<1>7. \A q \in Pids \ {p} : stage[q] \notin Owning
  BY <1>5, <1>6, PidInvParts DEF OwnersNamed, Owning, FileOf
<1>8. OwnersNamed'
  BY <1>1, <1>7 DEF OwnersNamed, Owning, Running
<1>9. ~ Reclaims /\ ~ CleansUp
  <2>1. pidFile.text = p
    BY <1>6 DEF FileOf
  <2>. QED  BY <1>1, <1>5, <2>1, PidInvParts DEF RemovedStale
<1>. QED  BY <1>1, <1>8, <1>9 DEF RemovedStale, Reclaims, CleansUp

\* A command finds a stale claim.
LEMMA LookStep == ASSUME PidInv, NEW l \in Lookers, Look(l) PROVE PidInv'
<1>1. /\ looker[l] = "idle" /\ looker'[l] = "removing"
      /\ \A m \in Lookers \ {l} : looker'[m] = looker[m]
      /\ UNCHANGED <<pidFile, stage, crashes>> /\ overlapped' = (overlapped \/ AtFiles)
      /\ pidFile.text \in Pids /\ ~ LiveGateway(pidFile.text)
  BY DEF Look, PidInv, TypeOK
<1>2. TypeOK'
  BY DEF Look, PidInv, TypeOK
<1>3. PICK o \in Pids : pidFile = FileOf(o, o) /\ stage[o] \in {"off", "other"}
  <2>1. PICK o \in Pids : pidFile = FileOf(o, o)
    BY <1>1, NamesCreator DEF PidInv
  <2>2. pidFile.text = o
    BY <2>1 DEF FileOf
  <2>. QED  BY <1>1, <2>1, <2>2 DEF LiveGateway, IsAlive
<1>4. crashes # 0
  <2>1. pidFile # NoFile /\ pidFile.by = o
    BY <1>3, PidsAssumption DEF NoFile, FileOf
  <2>. QED  BY <1>3, <2>1, PidInvParts DEF NothingStale, Owning, Running
<1>5. AloneAtFiles'
  BY <1>1, PidInvParts DEF AloneAtFiles, AtFiles
<1>6. Undisturbed' => Undisturbed
  BY <1>1 DEF Undisturbed
<1>7. OwnersNamed => OwnersNamed'
  BY <1>1 DEF OwnersNamed
<1>8. RemovedStale'
  <2>1. pidFile'.text = o /\ stage'[o] \in {"off", "other"}
    BY <1>1, <1>3 DEF FileOf
  <2>. QED  BY <2>1 DEF RemovedStale
<1>. QED  BY <1>1, <1>2, <1>4, <1>5, <1>6, <1>7, <1>8, PidInvParts DEF PidInv, NothingStale

LEMMA PidNext == PidInv /\ [Next]_vars => PidInv'
<1>. SUFFICES ASSUME PidInv, [Next]_vars PROVE PidInv'
  OBVIOUS
<1>. USE StagesApart
<1>1. ASSUME NEW p \in Pids, Lock(p) PROVE PidInv'
  <2>1. TypeOK'
    BY <1>1 DEF Lock, Goto, PidInv, TypeOK, Stages, Claiming, counts
  <2>. QED  BY <1>1, <2>1, ClaimGoesOn DEF Lock, Claiming, Owning, Running, counts
<1>2. ASSUME NEW p \in Pids, ReadLock(p) PROVE PidInv'
  <2>1. TypeOK'
    BY <1>2 DEF ReadLock, Goto, PidInv, TypeOK, Stages, Claiming, counts
  <2>. QED  BY <1>2, <2>1, ClaimGoesOn DEF ReadLock, Claiming, Owning, Running, counts
<1>3. ASSUME NEW p \in Pids, BreakLock(p) PROVE PidInv'
  <2>1. TypeOK'
    BY <1>3 DEF BreakLock, Goto, PidInv, TypeOK, Stages, Claiming, counts
  <2>. QED  BY <1>3, <2>1, ClaimGoesOn DEF BreakLock, Claiming, Owning, Running, counts
<1>4. ASSUME NEW p \in Pids, Relock(p) PROVE PidInv'
  <2>1. TypeOK'
    BY <1>4 DEF Relock, Goto, PidInv, TypeOK, Stages, Claiming, counts
  <2>. QED  BY <1>4, <2>1, ClaimGoesOn DEF Relock, Claiming, Owning, Running, counts
<1>5. ASSUME NEW p \in Pids, WriteLock(p) PROVE PidInv'
  <2>1. TypeOK'
    BY <1>5 DEF WriteLock, Goto, PidInv, TypeOK, Stages, Claiming, counts
  <2>. QED  BY <1>5, <2>1, ClaimGoesOn DEF WriteLock, Claiming, Owning, Running, counts
<1>6. ASSUME NEW p \in Pids, ReadPid(p) PROVE PidInv'
  <2>1. TypeOK'
    BY <1>6 DEF ReadPid, Goto, PidInv, TypeOK, Stages, Claiming, counts
  <2>2. CASE pidFile.text \in Pids /\ ~ LiveGateway(pidFile.text)
    BY <1>6, <2>1, <2>2, FindsStale DEF ReadPid, Claiming, counts
  <2>3. CASE ~ (pidFile.text \in Pids /\ ~ LiveGateway(pidFile.text))
    BY <1>6, <2>1, <2>3, ClaimGoesOn DEF ReadPid, Claiming, Owning, Running, counts
  <2>. QED  BY <2>2, <2>3
<1>7. ASSUME NEW p \in Pids, CreatePid(p) PROVE PidInv'
  <2>1. CASE pidFile = NoFile
    BY <1>7, <2>1, CreateStep
  <2>2. CASE pidFile # NoFile
    <3>1. TypeOK'
      BY <1>7, <2>2 DEF CreatePid, Goto, PidInv, TypeOK, Stages, Claiming, counts
    <3>. QED  BY <1>7, <2>2, <3>1, ClaimGoesOn DEF CreatePid, Claiming, Owning, Running, counts
  <2>. QED  BY <2>1, <2>2
<1>8. ASSUME NEW p \in Pids, Unlock(p) PROVE PidInv'
  <2>1. TypeOK'
    BY <1>8 DEF Unlock, Goto, PidInv, TypeOK, Stages, Claiming, Running, counts
  <2>2. CASE stage[p] = "fail"
    BY <1>8, <2>1, <2>2, ClaimGoesOn DEF Unlock, Claiming, Owning, Running, Stages, counts
  <2>3. CASE stage[p] = "unlock"
    BY <1>8, <2>1, <2>3, OwnerGoesOn DEF Unlock, Running, counts
  <2>. QED  BY <1>8, <2>2, <2>3 DEF Unlock
<1>9. ASSUME NEW p \in Pids, Release(p) PROVE PidInv'
  <2>1. TypeOK'
    BY <1>9 DEF Release, Goto, PidInv, TypeOK, Stages, Running, counts
  <2>2. CASE pidFile.text = p
    BY <1>9, <2>1, <2>2, OwnerGoesOn DEF Release, Running, counts
  <2>3. CASE pidFile.text # p
    <3>1. /\ stage[p] = "running" /\ stage'[p] = "exiting"
          /\ \A q \in Pids \ {p} : stage'[q] = stage[q]
          /\ UNCHANGED <<pidFile, looker, overlapped, crashes>>
      BY <1>9, <2>3 DEF Release, Goto, PidInv, TypeOK, counts
    <3>2. ~ Undisturbed
      BY <2>3, <3>1, PidInvParts DEF OwnersNamed, Running, FileOf
    <3>3. ~ Undisturbed' /\ crashes' # 0
      BY <3>1, <3>2 DEF Undisturbed
    <3>. QED  BY <2>1, <3>1, <3>2, <3>3 DEF PidInv, NothingStale, AloneAtFiles, Undisturbed
  <2>. QED  BY <2>2, <2>3
<1>10. ASSUME NEW p \in Pids, Exit(p) PROVE PidInv'
  <2>1. TypeOK'
    BY <1>10 DEF Exit, Goto, PidInv, TypeOK, Stages, counts
  <2>. QED  BY <1>10, <2>1, OutsideGoesOn DEF Exit, Stages, counts
<1>11. ASSUME NEW p \in Pids, Reuse(p) PROVE PidInv'
  <2>1. TypeOK'
    BY <1>11 DEF Reuse, Goto, PidInv, TypeOK, Stages, counts
  <2>. QED  BY <1>11, <2>1, OutsideGoesOn DEF Reuse, Stages, counts
<1>12. CASE UNCHANGED vars
  BY <1>12
     DEF vars, counts, PidInv, TypeOK, NothingStale, AloneAtFiles, OwnersNamed, RemovedStale,
         Undisturbed, Reclaims, CleansUp
<1>. QED
  BY <1>1, <1>2, <1>3, <1>4, <1>5, <1>6, <1>7, <1>8, <1>9, <1>10, <1>11, <1>12,
     LaunchStep, RemoveStep, WriteStep, ReleaseStep, CrashStep, LookStep, CleanUpStep
     DEF Next, Claim

----------------------------------------------------------------------------
\* A gateway that runs stands in the pid file, and nobody is about to remove its
\* claim, as long as nobody has crashed or no two programs were at the files together
\* (gateway/pid-file.ts, claimGatewayPid and findRunningGatewayPid).
THEOREM ClaimHolds == Spec => []ClaimStands
<1>1. PidInv => ClaimStands
  <2>. SUFFICES ASSUME PidInv PROVE ClaimStands
    OBVIOUS
  <2>1. RunsClaimed
    BY PidInvParts DEF RunsClaimed, OwnersNamed
  <2>2. RemovesOnlyStale
    BY PidInvParts, StagesApart DEF RemovesOnlyStale, RemovedStale, Claimed
  <2>. QED  BY <2>1, <2>2, PidInvParts DEF ClaimStands
<1>. QED  BY <1>1, PidInit, PidNext, PTL DEF Spec

\* Two gateways never run at the same time, under the same condition.
THEOREM OneGatewayRuns ==
  Spec => [](Undisturbed =>
               \A p, q \in Pids : stage[p] \in Running /\ stage[q] \in Running => p = q)
<1> DEFINE One ==
      Undisturbed => \A p, q \in Pids : stage[p] \in Running /\ stage[q] \in Running => p = q
<1>1. ClaimStands => One
  BY DEF ClaimStands, RunsClaimed, FileOf
<1>. QED  BY <1>1, ClaimHolds, PTL

----------------------------------------------------------------------------
(* Watches.                                                                *)

LEMMA WatchingAssumed == Watching!Assumptions
BY WatchClockAssumptions DEF WatchClockAssumptions, Watching!Assumptions

\* The watches of the host behave as WatchClock says.
LEMMA WatchingSpec == HostSpec => Watching!Spec
<1>1. HostInit => Watching!Init
  BY DEF HostInit
<1>2. [HostNext]_everything => [Watching!Next]_Watching!vars
  BY DEF HostNext, everything, watchesVars, Watching!vars, Watching!durable, Watching!gateway,
         Watching!ghosts
<1> QED BY <1>1, <1>2, PTL DEF HostSpec, Watching!Spec

\* A watch that forbids it never has two runs under way, however many ticks wait behind
\* slow commands (watches/runner.ts), and one on change does not emit again what it
\* emitted last, as far as the history reaches (shouldEmitCommandResult).
THEOREM WatchesRunApart == HostSpec => []WatchesBehave
<1>1. Watching!ClockInv /\ Watching!ForbidNeverOverlaps /\ Watching!EmitsOnChange => WatchesBehave
  BY DEF Watching!ClockInv, Watching!Typed, WatchesBehave
<1> QED BY <1>1, Watching!ClockAlways, Watching!ForbiddenRunsApart, Watching!EmitsWhatChanged,
           WatchingAssumed, WatchingSpec, PTL

\* What a finished tick has saved is not due again, missed runs do not stack up
\* (watches/clock.ts), and a run is skipped only for one in progress, or one that a gateway
\* before left on record (watches/runs.ts).
THEOREM WatchesAdvance == HostSpec => WatchesKeepTime
BY Watching!FiresInOrder, Watching!SkippedForCause, WatchingAssumed, WatchingSpec, PTL
   DEF WatchesKeepTime

----------------------------------------------------------------------------
(* The gateway and its inspector.                                          *)

LifeTyped ==
  /\ gateway \in {"off", "starting", "draining", "running", "stopping", "terminating", "exiting"}
  /\ run \in Nat
  /\ inspector \in {0} \cup Life!Children /\ victim \in {0} \cup Life!Children
  /\ timer \in BOOLEAN /\ stopping \in BOOLEAN
  /\ kids \in [Life!Children -> {"unborn", "alive", "dead"}]
  /\ parent \in [Life!Children -> Nat]
  /\ heard \subseteq Life!Children

\* What the manager knows at each stage of the process: it waits for a child only in its
\* shutdown, after which it has none and starts none.
ManagerInv ==
  /\ gateway \in {"terminating", "exiting"} => stopping /\ inspector = 0 /\ ~timer
  /\ gateway \notin {"terminating", "exiting", "off"} => ~stopping
  /\ victim # 0 => gateway = "terminating" /\ kids[victim] # "unborn" /\ parent[victim] = run
  /\ inspector # 0 => gateway # "off" /\ ~timer /\ kids[inspector] # "unborn" /\ parent[inspector] = run
  /\ gateway = "off" => ~timer

\* A child of this process whose end was not told is the one the manager has; so a
\* restart that fires finds all earlier ones dead.
HeardInv ==
  /\ \A k \in heard : kids[k] = "dead"
  /\ gateway # "off" /\ ~stopping =>
       \A k \in Life!Children \ heard : kids[k] # "unborn" /\ parent[k] = run => k = inspector

KidsInv ==
  /\ \A k \in Life!Children : kids[k] # "unborn" => parent[k] <= run
  /\ \A k \in Life!Alive : parent[k] < run => parent[k] \in abrupt
  /\ \A k \in Life!Alive : parent[k] = run =>
       IF gateway = "off" THEN run \in abrupt ELSE k = inspector \/ k = victim
  /\ gateway = "exiting" => \A k \in Life!Alive : parent[k] # run
  /\ \A j, k \in Life!Alive : parent[j] = run /\ parent[k] = run => j = k

LifeInv == LifeTyped /\ ManagerInv /\ HeardInv /\ KidsInv

LEMMA LifeInit == HostInit => LifeInv
<1> SUFFICES ASSUME Life!Init PROVE LifeInv
  BY DEF HostInit
<1> QED
  BY DEF Life!Init, LifeInv, LifeTyped, ManagerInv, HeardInv, KidsInv, Life!Alive

LEMMA LifeStep == LifeInv /\ [Life!Next]_Life!vars => LifeInv'
<1> SUFFICES ASSUME LifeInv, [Life!Next]_Life!vars PROVE LifeInv'
  OBVIOUS
<1>0. Life!Children \subseteq Nat \ {0} /\ Life!Children' = Life!Children
  BY DEF Life!Children
<1> USE <1>0 DEF LifeInv, LifeTyped, ManagerInv, HeardInv, KidsInv, Life!Alive
<1>1. CASE Life!Start
  <2>1. /\ inspector' = 0 /\ timer' = TRUE /\ kids' = kids /\ parent' = parent
        \/ \E k \in Life!Children, state \in {"alive", "dead"} :
             /\ kids[k] = "unborn" /\ inspector' = k /\ timer' = FALSE
             /\ parent' = [parent EXCEPT ![k] = run + 1] /\ kids' = [kids EXCEPT ![k] = state]
    BY <1>1 DEF Life!Start, Life!SpawnChild, Life!Failed, Life!Unborn
  <2>2. /\ gateway = "off" /\ gateway' = "starting" /\ run' = run + 1 /\ stopping' = FALSE /\ victim' = 0
        /\ heard' = heard /\ abrupt' = abrupt
    BY <1>1 DEF Life!Start
  <2>3. CASE inspector' = 0 /\ timer' = TRUE /\ kids' = kids /\ parent' = parent
    <3>1. LifeTyped'
      <4>1. kids' \in [Life!Children -> {"unborn", "alive", "dead"}] /\ parent' \in [Life!Children -> Nat]
        BY <2>3
      <4>2. run' \in Nat /\ heard' \subseteq Life!Children
        BY <2>2
      <4> HIDE DEF LifeInv, ManagerInv, HeardInv, KidsInv
      <4> QED BY <2>2, <2>3, <4>1, <4>2
    <3>4. ManagerInv'
      BY <2>2, <2>3
    <3>2. HeardInv'
      BY <2>2, <2>3
    <3>3. KidsInv'
      BY <2>2, <2>3
    <3> QED BY <3>1, <3>2, <3>3, <3>4
  <2>4. ASSUME NEW k \in Life!Children, NEW state \in {"alive", "dead"},
               kids[k] = "unborn", inspector' = k, timer' = FALSE,
               parent' = [parent EXCEPT ![k] = run + 1], kids' = [kids EXCEPT ![k] = state]
        PROVE  LifeInv'
    <3>1. LifeTyped'
      <4>1. kids' \in [Life!Children -> {"unborn", "alive", "dead"}]
        BY <2>4
      <4>2. parent' \in [Life!Children -> Nat]
        BY <2>4
      <4> QED BY <2>2, <2>4, <4>1, <4>2
    <3>2. ManagerInv'
      BY <2>2, <2>4
    <3>3. HeardInv'
      BY <2>2, <2>4
    <3>4. KidsInv'
      BY <2>2, <2>4
    <3> QED BY <3>1, <3>2, <3>3, <3>4
  <2> QED BY <2>1, <2>3, <2>4
<1>2. CASE Life!Ready
  BY <1>2 DEF Life!Ready
<1>3. CASE Life!Signal
  BY <1>3 DEF Life!Signal
<1>4. CASE Life!Gone
  BY <1>4 DEF Life!Gone
<1>5. CASE Life!StopChild
  BY <1>5 DEF Life!StopChild
<1>6. CASE Life!Terminated
  <2>1. LifeTyped'
    BY <1>6 DEF Life!Terminated
  <2>2. ManagerInv' /\ HeardInv'
    BY <1>6 DEF Life!Terminated
  <2>3. KidsInv'
    BY <1>6 DEF Life!Terminated
  <2> QED BY <2>1, <2>2, <2>3
<1>7. CASE Life!Exit
  BY <1>7 DEF Life!Exit
<1>8. CASE Life!Spawned
  BY <1>8 DEF Life!Spawned
<1>9. CASE Life!Restart
  <2>1. /\ inspector' = 0 /\ timer' = TRUE /\ kids' = kids /\ parent' = parent
        \/ \E k \in Life!Children, state \in {"alive", "dead"} :
             /\ kids[k] = "unborn" /\ inspector' = k /\ timer' = FALSE
             /\ parent' = [parent EXCEPT ![k] = run] /\ kids' = [kids EXCEPT ![k] = state]
    BY <1>9 DEF Life!Restart, Life!SpawnChild, Life!Failed, Life!Unborn
  <2>2. /\ gateway # "off" /\ timer /\ gateway' = gateway /\ run' = run /\ stopping' = stopping
        /\ victim' = victim /\ heard' = heard /\ abrupt' = abrupt
    BY <1>9 DEF Life!Restart
  <2>3. CASE inspector' = 0 /\ timer' = TRUE /\ kids' = kids /\ parent' = parent
    BY <2>2, <2>3
  <2>4. ASSUME NEW k \in Life!Children, NEW state \in {"alive", "dead"},
               kids[k] = "unborn", inspector' = k, timer' = FALSE,
               parent' = [parent EXCEPT ![k] = run], kids' = [kids EXCEPT ![k] = state]
        PROVE  LifeInv'
    <3>1. LifeTyped'
      <4>1. kids' \in [Life!Children -> {"unborn", "alive", "dead"}]
        BY <2>4
      <4>2. parent' \in [Life!Children -> Nat]
        BY <2>4
      <4> QED BY <2>2, <2>4, <4>1, <4>2
    <3>2. ManagerInv'
      BY <2>2, <2>4
    <3>3. HeardInv'
      BY <2>2, <2>4
    <3>4. KidsInv'
      BY <2>2, <2>4
    <3> QED BY <3>1, <3>2, <3>3, <3>4
  <2> QED BY <2>1, <2>3, <2>4
<1>10. ASSUME NEW k \in Life!Children, Life!Ended(k) PROVE LifeInv'
  BY <1>10 DEF Life!Ended, Life!Told, Life!Failed
<1>11. ASSUME NEW k \in Life!Children, Life!Dies(k) PROVE LifeInv'
  BY <1>11 DEF Life!Dies
<1>12. CASE UNCHANGED Life!vars
  BY <1>12 DEF Life!vars
<1> QED BY <1>1, <1>2, <1>3, <1>4, <1>5, <1>6, <1>7, <1>8, <1>9, <1>10, <1>11, <1>12
       DEF Life!Next

LEMMA LifeSpec == HostSpec => Life!Spec
<1>1. HostInit => Life!Init
  BY DEF HostInit
<1>2. [HostNext]_everything => [Life!Next]_Life!vars
  BY DEF HostNext, everything, lifeVars, Life!vars
<1> QED BY <1>1, <1>2, PTL DEF HostSpec, Life!Spec

\* Nobody but the manager starts an inspector, and it starts one when it has none; an
\* inspector that outlives its gateway was left by one that did not shut down.
LEMMA LifeAlways == HostSpec => [](LifeInv /\ Life!OneInspector /\ Life!OrphansExcused)
<1>1. LifeInv => Life!OrphansExcused
  <2> SUFFICES ASSUME LifeInv, NEW k \in Life!Alive
               PROVE  parent[k] \in abrupt \/ (parent[k] = run /\ gateway # "off")
    BY DEF Life!OrphansExcused
  <2>1. parent[k] \in Nat /\ run \in Nat /\ parent[k] <= run
    BY DEF LifeInv, LifeTyped, KidsInv, Life!Alive
  <2>2. CASE parent[k] < run
    BY <2>2 DEF LifeInv, KidsInv
  <2>3. CASE parent[k] = run
    BY <2>3 DEF LifeInv, KidsInv
  <2> QED BY <2>1, <2>2, <2>3
<1>2. LifeInv => Life!OneInspector
  BY DEF LifeInv, KidsInv, Life!OneInspector
<1>3. HostInit => LifeInv
  BY LifeInit
<1> QED BY <1>1, <1>2, <1>3, LifeSpec, LifeStep, PTL DEF HostSpec, Life!Spec

----------------------------------------------------------------------------
(* The scans that learn what browsers have to be told.                     *)

PartialScans == UNION {[G -> Nat] : G \in SUBSET Files}

WebTyped ==
  /\ changes \in Nat /\ disk \in [Files -> Nat] /\ told \in [Files -> Nat]
  /\ snapshot # <<>> => snapshot[1] \in [Files -> Nat]
  /\ running \in BOOLEAN /\ flushing \in BOOLEAN
  /\ scan \in [Scans -> [reading : BOOLEAN, found : PartialScans]]

LEMMA FoundPartial ==
  ASSUME WebTyped, NEW s \in Scans
  PROVE  /\ \E G \in SUBSET Files : scan[s].found \in [G -> Nat]
         /\ \A f \in DOMAIN scan[s].found : scan[s].found[f] \in Nat
<1>1. scan[s] \in [reading : BOOLEAN, found : PartialScans]
  BY DEF WebTyped
<1>2. scan[s].found \in PartialScans
  BY <1>1
<1> QED BY <1>2 DEF PartialScans

\* A version never comes back: what anyone has seen of a file is not newer than the last change.
VersionsInv ==
  /\ \A f \in Files : disk[f] <= changes /\ (snapshot # <<>> => snapshot[1][f] <= changes)
  /\ \A s \in Scans : \A f \in DOMAIN scan[s].found : scan[s].found[f] <= changes

WebInv == WebTyped /\ VersionsInv /\ Web!ChangesSeen

LEMMA WebInit == HostInit => WebInv
<1> SUFFICES ASSUME Web!Init PROVE WebInv
  BY DEF HostInit
<1>1. [f \in {} |-> 0] \in PartialScans /\ DOMAIN [f \in {} |-> 0] = {}
  <2>1. [f \in {} |-> 0] \in [{} -> Nat] /\ {} \in SUBSET Files
    OBVIOUS
  <2> QED BY <2>1 DEF PartialScans
<1>2. changes = 1 /\ disk \in [Files -> {0, 1}] /\ told = disk /\ snapshot = <<>> /\ running = FALSE
      /\ flushing = FALSE
  BY DEF Web!Init
<1>3. scan = [s \in Scans |-> Web!Idle] /\ Web!Idle \in [reading : BOOLEAN, found : PartialScans]
      /\ DOMAIN Web!Idle.found = {}
  BY <1>1 DEF Web!Init, Web!Idle
<1>4. disk \in [Files -> Nat] /\ \A f \in Files : disk[f] <= 1
  BY <1>2
<1> QED BY <1>2, <1>3, <1>4 DEF WebInv, WebTyped, VersionsInv, Web!ChangesSeen

\* The version a file gets is one that no snapshot has, so its change is not seen as none.
LEMMA WebChange == ASSUME WebInv, NEW f \in Files, Web!Change(f) PROVE WebInv'
<1> USE DEF WebInv, WebTyped, VersionsInv
<1>1. /\ changes' = changes + 1 /\ disk' \in [Files -> Nat]
      /\ \A g \in Files : IF g = f THEN disk'[g] \in {0, changes + 1} ELSE disk'[g] = disk[g]
      /\ snapshot' = snapshot /\ scan' = scan /\ told' = told /\ running' = running
  <2>1. CASE disk' = [disk EXCEPT ![f] = IF @ = 0 THEN changes + 1 ELSE 0]
    BY <2>1 DEF Web!Change
  <2>2. CASE disk' = [disk EXCEPT ![f] = changes + 1]
    BY <2>2 DEF Web!Change
  <2> QED BY <2>1, <2>2 DEF Web!Change
<1>2. pending \subseteq pending' /\ flushing' \in BOOLEAN /\ (flushing => flushing')
  <2>1. CASE UNCHANGED <<pending, flushing>>
    BY <2>1
  <2>2. CASE Web!Queue({f})
    BY <2>2 DEF Web!Queue
  <2> QED BY <2>1, <2>2 DEF Web!Change
<1>3. WebTyped'
  BY <1>1, <1>2
<1>4. VersionsInv'
  <2>1. ASSUME NEW s \in Scans, NEW g \in DOMAIN scan[s].found PROVE scan[s].found[g] \in Nat
    BY FoundPartial
  <2>2. ASSUME NEW g \in Files PROVE disk'[g] <= changes'
    <3>1. disk[g] \in Nat /\ disk[g] <= changes /\ changes \in Nat
      OBVIOUS
    <3>2. disk'[g] = disk[g] \/ disk'[g] = 0 \/ disk'[g] = changes + 1
      BY <1>1
    <3> HIDE DEF WebInv, WebTyped, VersionsInv
    <3> QED BY <1>1, <3>1, <3>2
  <2>3. snapshot # <<>> => \A g \in Files : snapshot[1][g] \in Nat /\ snapshot[1][g] <= changes
    OBVIOUS
  <2>4. snapshot' # <<>> => \A g \in Files : snapshot'[1][g] <= changes'
    BY <1>1, <2>3
  <2>5. \A s \in Scans : \A g \in DOMAIN scan'[s].found : scan'[s].found[g] <= changes'
    BY <1>1, <2>1
  <2> QED BY <2>2, <2>4, <2>5
<1>5. Web!ChangesSeen'
  <2> SUFFICES ASSUME running, snapshot # <<>>, NEW g \in Files
               PROVE  \/ told[g] = disk'[g] \/ disk'[g] = 0
                      \/ g \in pending' /\ flushing'
                      \/ snapshot[1][g] # disk'[g]
    BY <1>1 DEF Web!ChangesSeen
  <2>1. CASE g = f
    BY <1>1, <2>1
  <2>2. CASE g # f
    BY <1>1, <1>2, <2>2 DEF Web!ChangesSeen
  <2> QED BY <2>1, <2>2
<1> QED BY <1>3, <1>4, <1>5

LEMMA WebFinish == ASSUME WebInv, NEW s \in Scans, Web!Finish(s) PROVE WebInv'
<1> USE DEF WebInv, WebTyped, VersionsInv
<1> DEFINE found == scan[s].found
<1>1. found \in [Files -> Nat] /\ \A f \in Files : found[f] <= changes
  BY FoundPartial DEF Web!Finish
<1>2. scan' \in [Scans -> [reading : BOOLEAN, found : PartialScans]]
      /\ \A r \in Scans : \A f \in DOMAIN scan'[r].found : scan'[r].found[f] <= changes
  <2>1. [f \in {} |-> 0] \in [{} -> Nat] /\ {} \in SUBSET Files /\ DOMAIN [f \in {} |-> 0] = {}
    OBVIOUS
  <2>2. Web!Idle \in [reading : BOOLEAN, found : PartialScans] /\ DOMAIN Web!Idle.found = {}
    BY <2>1 DEF Web!Idle, PartialScans
  <2>3. scan' = [scan EXCEPT ![s] = Web!Idle]
    BY DEF Web!Finish
  <2>4. \A r \in Scans : scan'[r] = IF r = s THEN Web!Idle ELSE scan[r]
    BY <2>3
  <2> QED BY <2>2, <2>3, <2>4
<1>3. CASE ~running
  BY <1>2, <1>3 DEF Web!Finish, Web!ChangesSeen
<1>4. CASE running /\ snapshot = <<>>
  <2>1. /\ snapshot' = <<found>> /\ disk' = disk /\ changes' = changes /\ told' = disk
        /\ running' = running /\ flushing' \in BOOLEAN
    BY <1>4 DEF Web!Finish, Web!Queue
  <2> QED BY <1>1, <1>2, <2>1 DEF Web!ChangesSeen
<1>5. CASE running /\ snapshot # <<>>
  <2>1. /\ snapshot' = <<found>> /\ disk' = disk /\ changes' = changes /\ told' = told
        /\ pending' = pending \cup {f \in Files : snapshot[1][f] # found[f]}
        /\ flushing => flushing'
        /\ running' = running /\ flushing' \in BOOLEAN
        /\ {f \in Files : snapshot[1][f] # found[f]} # {} => flushing'
    BY <1>5 DEF Web!Finish, Web!Queue
  <2>2. Web!ChangesSeen'
    BY <1>5, <2>1 DEF Web!ChangesSeen
  <2> QED BY <1>1, <1>2, <2>1, <2>2
<1> QED BY <1>3, <1>4, <1>5

LEMMA WebLook == ASSUME WebInv, NEW s \in Scans, NEW f \in Files, Web!Look(s, f) PROVE WebInv'
<1> USE DEF WebInv, WebTyped, VersionsInv
<1> DEFINE old == scan[s].found
           new == [g \in DOMAIN old \cup {f} |-> IF g = f THEN disk[f] ELSE old[g]]
<1>1. scan' = [scan EXCEPT ![s].found = new]
  BY DEF Web!Look
<1>2. new \in PartialScans /\ \A g \in DOMAIN new : new[g] <= changes
  <2>1. PICK G \in SUBSET Files : old \in [G -> Nat]
    BY FoundPartial
  <2>2. new \in [G \cup {f} -> Nat] /\ G \cup {f} \in SUBSET Files
    BY <2>1
  <2>3. \A g \in DOMAIN new : new[g] <= changes
    BY <2>1
  <2> QED BY <2>2, <2>3 DEF PartialScans
<1>3. scan' \in [Scans -> [reading : BOOLEAN, found : PartialScans]]
      /\ \A r \in Scans : scan'[r].found = IF r = s THEN new ELSE scan[r].found
  BY <1>1, <1>2
<1> HIDE DEF new
<1> QED BY <1>2, <1>3 DEF Web!Look, Web!ChangesSeen

LEMMA WebBegin ==
  ASSUME WebTyped, NEW s \in Scans, Web!Begin(s)
  PROVE  /\ scan' \in [Scans -> [reading : BOOLEAN, found : PartialScans]]
         /\ \A r \in Scans : scan'[r].found = scan[r].found
BY DEF Web!Begin, WebTyped

LEMMA WebStep == WebInv /\ [Web!Next]_Web!vars => WebInv'
<1> SUFFICES ASSUME WebInv, [Web!Next]_Web!vars PROVE WebInv'
  OBVIOUS
<1>1. ASSUME NEW s \in Scans, Web!Start(s) PROVE WebInv'
  BY <1>1, WebBegin DEF Web!Start, WebInv, WebTyped, VersionsInv, Web!ChangesSeen
<1>2. ASSUME NEW s \in Scans, Web!Tick(s) PROVE WebInv'
  BY <1>2, WebBegin DEF Web!Tick, WebInv, WebTyped, VersionsInv, Web!ChangesSeen
<1>3. ASSUME NEW s \in Scans, Web!Flush(s) PROVE WebInv'
  BY <1>3, WebBegin DEF Web!Flush, WebInv, WebTyped, VersionsInv, Web!ChangesSeen
<1>4. CASE Web!Stop
  BY <1>4 DEF Web!Stop, WebInv, WebTyped, VersionsInv, Web!ChangesSeen
<1>5. CASE UNCHANGED Web!vars
  BY <1>5 DEF Web!vars, WebInv, WebTyped, VersionsInv, Web!ChangesSeen
<1> QED BY <1>1, <1>2, <1>3, <1>4, <1>5, WebChange, WebFinish, WebLook DEF Web!Next

\* Scans of a directory may overlap and end in any order; still no browser keeps an old
\* version of a file that nothing will tell it of.
LEMMA WebAlways == HostSpec => []WebInv
<1>1. [HostNext]_everything => [Web!Next]_Web!vars
  BY DEF HostNext, everything, webVars, Web!vars
<1> QED BY <1>1, WebInit, WebStep, PTL DEF HostSpec

----------------------------------------------------------------------------
(* What the inspector lists.                                               *)

LeafTypes == {"overview", "agent", "agent-file", "watch", "session", "channel", "runtime", "file"}
ListedFiles == Universe \cup {Listing!Nothing} \cup UNION ChannelSets
SomeMarks == Seq({"active", "archived"})
AgentNames == {"", "shrimpy"} \cup {a[1] : a \in UNION AgentSets}
LeafIds == [type : LeafTypes, agent : AgentNames, file : ListedFiles]
LeafSet == [id : LeafIds, look : {"stat", "lstat", "none"}, readable : BOOLEAN,
            archived : BOOLEAN, marks : SomeMarks]

Builds == [stage : [Listing!Sections -> {"unread", "read", "done"}],
           leaves : [Listing!Sections -> SUBSET LeafSet],
           had : SUBSET Universe, went : SUBSET Universe]

ListingTyped ==
  /\ present \subseteq Universe /\ marks \in [Universe -> SomeMarks]
  /\ agents = <<>> \/ (agents = <<agents[1]>> /\ agents[1] \in AgentSets)
  /\ channels \in ChannelSets
  /\ build # <<>> => build = <<build[1]>> /\ build[1] \in Builds
  /\ listed # <<>> => listed[1].leaves \subseteq LeafSet

\* What a leaf may stand for, whatever there is by now.
SoundAs(type, agent, f, readable) ==
  LET Classified == Listing!ClassifyWorkspaceFile(f)
  IN /\ type # "file" => readable
     /\ type \notin {"overview", "agent", "channel"} => f \in Universe
     /\ type \in {"agent", "agent-file", "watch", "session"} => agent # ""
     /\ type \in {"overview", "agent"} => f = Listing!Nothing
     /\ type \notin {"overview", "agent", "file"} => f # Listing!Nothing /\ Classified
     /\ type = "agent-file" => Listing!IsAgentScopedPath(f)
     /\ type = "session" => Listing!IsSession(f)
     /\ type = "runtime" => f.dir = "runtime"
     /\ type = "file" => readable = Classified
Sound(l) == SoundAs(l.id.type, l.id.agent, l.id.file, l.readable)

HintTrue(l) ==
  IF l.marks # <<>> /\ Listing!Last(l.marks) = "archived" THEN l.archived
  ELSE l.archived => l.marks # <<>> /\ "archived" \in Listing!ToSet(Listing!Front(l.marks))

\* What a section has read was there when the listing began or came since, so what it
\* misses went away meanwhile.
BuildInv ==
  build # <<>> =>
    /\ build[1].had \ build[1].went \subseteq present
    /\ \A s \in Listing!Sections : \A l \in build[1].leaves[s] :
         /\ Sound(l) /\ HintTrue(l)
         /\ build[1].stage[s] = "read" /\ l.look # "none" => l.id.file \in present \cup build[1].went
    /\ build[1].stage["workspace"] # "unread" =>
         \A f \in build[1].had \ build[1].went :
           \E l \in build[1].leaves["workspace"] :
             l.id = Listing!Id("file", "", f) /\ l.readable = Listing!ClassifyWorkspaceFile(f)

ListedInv ==
  /\ listed # <<>> => \A l \in listed[1].leaves : Sound(l)
  /\ Listing!HintsTrue
  /\ Listing!ListedWhole

ListingInv == ListingTyped /\ BuildInv /\ ListedInv

LEMMA UniverseFacts ==
  /\ \A f \in Universe : /\ f \in [root : Roots \cup {"workspace"}, dir : STRING, kind : STRING]
                         /\ f # Listing!Nothing
                         /\ f.dir = "runtime" => f.kind \notin {"binary", "secret"}
  /\ \A C \in ChannelSets : \A f \in C :
       f # Listing!Nothing /\ f.root = "workspace" /\ f.dir = "channels" /\ f.kind \notin {"binary", "secret"}
  /\ \A A \in AgentSets : \A a \in A : a[1] \in AgentNames /\ a[1] # ""
<1>0. Listing!Nothing.root = ""
  BY DEF Listing!Nothing
<1>1. ASSUME NEW f \in Universe
      PROVE  /\ f \in [root : Roots \cup {"workspace"}, dir : STRING, kind : STRING]
             /\ f # Listing!Nothing
             /\ f.dir = "runtime" => f.kind \notin {"binary", "secret"}
  <2>1. /\ f \in [root : Roots \cup {"workspace"}, dir : STRING, kind : STRING] /\ "" \notin Roots
        /\ f.dir = "runtime" => f.kind \notin {"binary", "secret"}
    BY ListingAssumptions DEF ListingAssumptions, Listing!WebTreeAssumption
  <2>2. f.root # ""
    BY <2>1
  <2> QED BY <1>0, <2>1, <2>2
<1>2. ASSUME NEW C \in ChannelSets, NEW f \in C
      PROVE  f # Listing!Nothing /\ f.root = "workspace" /\ f.dir = "channels"
             /\ f.kind \notin {"binary", "secret"}
  <2>1. f \in [root : {"workspace"}, dir : {"channels"}, kind : STRING] /\ f.kind \notin {"binary", "secret"}
    BY ListingAssumptions DEF ListingAssumptions, Listing!WebTreeAssumption
  <2> QED BY <1>0, <2>1
<1>3. ASSUME NEW A \in AgentSets, NEW a \in A PROVE a[1] \in AgentNames /\ a[1] # ""
  <2>1. a[1] # ""
    BY ListingAssumptions DEF ListingAssumptions, Listing!WebTreeAssumption
  <2> QED BY <2>1 DEF AgentNames
<1> QED BY <1>1, <1>2, <1>3

LEMMA AgentsNamed ==
  ASSUME ListingTyped
  PROVE  /\ \A a \in Listing!ResolveAgents : a[1] \in AgentNames /\ a[1] # ""
         /\ \A a, b \in Listing!ResolveAgents : a[1] = b[1] => a = b
<1>1. CASE agents = <<>>
  <2>1. Listing!ResolveAgents = {<<"shrimpy", "agents/shrimpy">>}
    BY <1>1 DEF Listing!ResolveAgents
  <2> QED BY <2>1 DEF AgentNames
<1>2. CASE agents # <<>>
  <2>1. agents[1] \in AgentSets /\ Listing!ResolveAgents \subseteq agents[1]
    BY <1>2 DEF ListingTyped, Listing!ResolveAgents
  <2>2. \A a, b \in agents[1] : a[1] = b[1] => a = b
    BY <2>1, ListingAssumptions DEF ListingAssumptions, Listing!WebTreeAssumption
  <2> QED BY <2>1, <2>2, UniverseFacts
<1> QED BY <1>1, <1>2

\* A leaf as it is first made.
Fresh(l) ==
  /\ l \in LeafSet /\ l.marks = <<>> /\ l.archived = FALSE /\ Sound(l)
  /\ l.look # "none" => l.id.file \in present

LEMMA FreshLeaf ==
  ASSUME NEW type \in LeafTypes, NEW agent \in AgentNames, NEW f \in ListedFiles,
         NEW look \in {"stat", "lstat", "none"}, NEW l, l = Listing!Leaf(Listing!Id(type, agent, f), look),
         SoundAs(type, agent, f, TRUE), look # "none" => f \in present
  PROVE  Fresh(l)
<1>1. /\ l = [id |-> [type |-> type, agent |-> agent, file |-> f], look |-> look, readable |-> TRUE,
             archived |-> FALSE, marks |-> <<>>]
  BY DEF Listing!Leaf, Listing!Id
<1>2. [type |-> type, agent |-> agent, file |-> f] \in LeafIds
  BY DEF LeafIds
<1>3. <<>> \in SomeMarks
  BY DEF SomeMarks
<1>4. l \in LeafSet
  BY <1>1, <1>2, <1>3 DEF LeafSet
<1>5. /\ l.id.type = type /\ l.id.agent = agent /\ l.id.file = f /\ l.readable = TRUE
      /\ l.archived = FALSE /\ l.marks = <<>> /\ l.look = look
  BY <1>1
<1> QED BY <1>4, <1>5 DEF Fresh, Sound

\* What the directories of a section give is there and stands for what may be read, or is
\* marked as what may not.
LEMMA LeavesFresh ==
  ASSUME ListingTyped, NEW s \in Listing!Sections, NEW l \in Listing!Leaves(s)
  PROVE  Fresh(l)
<1> USE DEF LeafTypes
<1>0. present \subseteq ListedFiles /\ present \subseteq Universe /\ channels \subseteq ListedFiles
      /\ Listing!Nothing \in ListedFiles /\ "" \in AgentNames
  BY DEF ListingTyped, ListedFiles, AgentNames
<1>1. CASE s = "context"
  <2>1. PICK f \in present : /\ l = Listing!Leaf(Listing!Id("file", "", f), "lstat")
                             /\ Listing!Readable(f)
    BY <1>1 DEF Listing!Leaves, Listing!At
  <2> QED BY <1>0, <2>1, FreshLeaf DEF SoundAs, Listing!Readable
<1>2. CASE s = "channels"
  <2>1. PICK f \in channels \cup {g \in Listing!At("channels") : g.kind = "log"} :
          l = Listing!Leaf(Listing!Id("channel", "", f), IF f \in present THEN "stat" ELSE "none")
    BY <1>2 DEF Listing!Leaves
  <2>2. f \in ListedFiles /\ f # Listing!Nothing /\ Listing!ClassifyWorkspaceFile(f)
    <3>1. CASE f \in channels
      BY <1>0, <3>1, UniverseFacts
         DEF ListingTyped, Listing!ClassifyWorkspaceFile, Listing!Private, Listing!Textual
    <3>2. CASE f \in Listing!At("channels") /\ f.kind = "log"
      BY <1>0, <3>2, UniverseFacts
         DEF Listing!At, Listing!ClassifyWorkspaceFile, Listing!Private, Listing!Textual
    <3> QED BY <2>1, <3>1, <3>2
  <2> DEFINE look == IF f \in present THEN "stat" ELSE "none"
  <2>3. look \in {"stat", "lstat", "none"} /\ (look # "none" => f \in present)
    OBVIOUS
  <2> HIDE DEF look
  <2>4. l = Listing!Leaf(Listing!Id("channel", "", f), look)
    BY <2>1 DEF look
  <2> QED BY <1>0, <2>2, <2>3, <2>4, FreshLeaf DEF SoundAs
<1>3. CASE s = "runtime"
  <2>1. PICK f \in present : /\ l = Listing!Leaf(Listing!Id("runtime", "", f), "stat")
                             /\ f.root = "workspace" /\ f.dir = "runtime"
    BY <1>3 DEF Listing!Leaves, Listing!At
  <2>2. Listing!ClassifyWorkspaceFile(f) /\ f # Listing!Nothing
    BY <1>0, <2>1, UniverseFacts
       DEF Listing!ClassifyWorkspaceFile, Listing!Private, Listing!Textual
  <2> QED BY <1>0, <2>1, <2>2, FreshLeaf DEF SoundAs
<1>4. CASE s = "workspace"
  <2>1. PICK f \in present :
          l = [Listing!Leaf(Listing!Id("file", "", f), "stat")
                 EXCEPT !.readable = Listing!ClassifyWorkspaceFile(f)]
    BY <1>4 DEF Listing!Leaves
  <2>2. Listing!ClassifyWorkspaceFile(f) \in BOOLEAN
    BY DEF Listing!ClassifyWorkspaceFile, Listing!Private, Listing!Textual
  <2>3. l = [id |-> [type |-> "file", agent |-> "", file |-> f], look |-> "stat",
             readable |-> Listing!ClassifyWorkspaceFile(f), archived |-> FALSE, marks |-> <<>>]
    BY <2>1 DEF Listing!Leaf, Listing!Id
  <2>4. [type |-> "file", agent |-> "", file |-> f] \in LeafIds
    BY <1>0 DEF LeafIds
  <2>8. <<>> \in SomeMarks
    BY DEF SomeMarks
  <2>5. l \in LeafSet
    BY <2>2, <2>3, <2>4, <2>8 DEF LeafSet
  <2>6. SoundAs("file", "", f, Listing!ClassifyWorkspaceFile(f))
    BY <1>0 DEF SoundAs
  <2>7. /\ l.id.type = "file" /\ l.id.agent = "" /\ l.id.file = f /\ l.archived = FALSE
        /\ l.readable = Listing!ClassifyWorkspaceFile(f) /\ l.marks = <<>>
    BY <2>3
  <2> QED BY <2>5, <2>6, <2>7 DEF Fresh, Sound
<1>5. CASE s = "agents"
  <2>1. PICK a \in Listing!ResolveAgents :
          \/ l = Listing!Leaf(Listing!Id("agent", a[1], Listing!Nothing), "none")
          \/ \E f \in present :
               /\ l = Listing!Leaf(Listing!Id("agent-file", a[1], f), "lstat")
               /\ f.root = a[2] /\ f.dir \in {"context", ""} /\ Listing!Readable(f)
          \/ \E f \in present :
               /\ l = Listing!Leaf(Listing!Id("session", a[1], f), "stat")
               /\ f.root = a[2] /\ Listing!IsSession(f) /\ f.kind = "log"
          \/ \E f \in present :
               /\ l = Listing!Leaf(Listing!Id("watch", a[1], f), "stat")
               /\ f.root = a[2] /\ f.dir = "" /\ f.kind = "watches"
    BY <1>5 DEF Listing!Leaves
  <2>2. a[1] \in AgentNames /\ a[1] # ""
    BY AgentsNamed
  <2>3. CASE l = Listing!Leaf(Listing!Id("agent", a[1], Listing!Nothing), "none")
    BY <1>0, <2>2, <2>3, FreshLeaf DEF SoundAs
  <2>4. ASSUME NEW f \in present, l = Listing!Leaf(Listing!Id("agent-file", a[1], f), "lstat"),
               f.dir \in {"context", ""}, Listing!Readable(f)
        PROVE  Fresh(l)
    BY <1>0, <2>2, <2>4, FreshLeaf, UniverseFacts
       DEF SoundAs, Listing!Readable, Listing!IsAgentScopedPath
  <2>5. ASSUME NEW f \in present, l = Listing!Leaf(Listing!Id("session", a[1], f), "stat"),
               Listing!IsSession(f), f.kind = "log"
        PROVE  Fresh(l)
    <3>1. Listing!ClassifyWorkspaceFile(f)
      BY <2>5 DEF Listing!IsSession, Listing!ClassifyWorkspaceFile, Listing!Private, Listing!Textual
    <3> QED BY <1>0, <2>2, <2>5, <3>1, FreshLeaf, UniverseFacts DEF SoundAs
  <2>6. ASSUME NEW f \in present, l = Listing!Leaf(Listing!Id("watch", a[1], f), "stat"),
               f.dir = "", f.kind = "watches"
        PROVE  Fresh(l)
    <3>1. Listing!ClassifyWorkspaceFile(f)
      BY <2>6 DEF Listing!ClassifyWorkspaceFile, Listing!Private, Listing!Textual
    <3> QED BY <1>0, <2>2, <2>6, <3>1, FreshLeaf, UniverseFacts DEF SoundAs
  <2> QED BY <2>1, <2>3, <2>4, <2>5, <2>6
<1> QED BY <1>1, <1>2, <1>3, <1>4, <1>5 DEF Listing!Sections

LEMMA ListingInit == HostInit => ListingInv
<1> SUFFICES ASSUME Listing!Init PROVE ListingInv
  BY DEF HostInit
<1>1. marks \in [Universe -> SomeMarks]
  <2>1. <<>> \in SomeMarks /\ <<"archived">> \in SomeMarks
    BY DEF SomeMarks
  <2> QED BY <2>1 DEF Listing!Init
<1>2. agents = <<>> \/ (agents = <<agents[1]>> /\ agents[1] \in AgentSets)
  BY DEF Listing!Init
<1> QED BY <1>1, <1>2
       DEF Listing!Init, ListingInv, ListingTyped, BuildInv, ListedInv, Listing!HintsTrue, Listing!ListedWhole

\* The last of the marks is one of them, and each of the others is before it.
LEMMA MarkLastOrBefore ==
  ASSUME NEW m \in SomeMarks
  PROVE  /\ m # <<>> => Listing!Last(m) \in Listing!ToSet(m)
         /\ "archived" \in Listing!ToSet(m) =>
              m # <<>> /\ (Listing!Last(m) # "archived" => "archived" \in Listing!ToSet(Listing!Front(m)))
<1> USE DEF Listing!Last, Listing!ToSet, Listing!Front
<1>1. m \in Seq({"active", "archived"}) /\ DOMAIN m = 1..Len(m) /\ Len(m) \in Nat
  BY DEF SomeMarks
<1>2. m # <<>> => Listing!Last(m) \in Listing!ToSet(m)
  BY <1>1
<1>3. ASSUME NEW i \in DOMAIN m, m[i] = "archived"
      PROVE  m # <<>> /\ (Listing!Last(m) # "archived" => "archived" \in Listing!ToSet(Listing!Front(m)))
  <2>1. m # <<>>
    BY <1>1
  <2>2. CASE i = Len(m)
    BY <1>3, <2>1, <2>2
  <2>3. CASE i # Len(m)
    <3>1. i \in 1..(Len(m) - 1) /\ SubSeq(m, 1, Len(m) - 1)[i] = m[i]
          /\ DOMAIN SubSeq(m, 1, Len(m) - 1) = 1..(Len(m) - 1)
      BY <1>1, <2>3
    <3> QED BY <1>3, <2>1, <3>1
  <2> QED BY <2>2, <2>3
<1> QED BY <1>2, <1>3

\* Looking at a file changes nothing but the hint.
LEMMA LookedLeaf ==
  ASSUME ListingTyped, NEW l \in LeafSet, Sound(l), HintTrue(l)
  PROVE  /\ Listing!Looked(l) \in LeafSet /\ Sound(Listing!Looked(l)) /\ HintTrue(Listing!Looked(l))
         /\ Listing!Looked(l).id = l.id /\ Listing!Looked(l).readable = l.readable
<1>1. CASE l.id.type # "session"
  BY <1>1 DEF Listing!Looked
<1>2. CASE l.id.type = "session"
  <2> DEFINE m == marks[l.id.file]
             r == Listing!Looked(l)
             hint == "archived" \in Listing!ToSet(m)
  <2>1. m \in SomeMarks
    BY <1>2 DEF Sound, SoundAs, ListingTyped
  <2>2. r = [l EXCEPT !.archived = hint, !.marks = m]
    BY <1>2 DEF Listing!Looked, Listing!ReadSessionLifecycle
  <2>6. hint \in BOOLEAN
    OBVIOUS
  <2> HIDE DEF m, r, hint
  <2>3. r \in LeafSet /\ r.id = l.id /\ r.readable = l.readable /\ r.marks = m /\ r.archived = hint
    BY <2>1, <2>2, <2>6 DEF LeafSet
  <2>4. Sound(r)
    BY <2>3 DEF Sound
  <2>5. HintTrue(r)
    BY <2>1, <2>3, MarkLastOrBefore DEF HintTrue, hint
  <2> QED BY <2>3, <2>4, <2>5 DEF r
<1> QED BY <1>1, <1>2

LEMMA ReadDirKeeps ==
  ASSUME ListingInv, NEW s \in Listing!Sections, Listing!ReadDir(s)
  PROVE  ListingInv'
<1> DEFINE b == build[1]
           c == [b EXCEPT !.stage[s] = "read", !.leaves[s] = Listing!Leaves(s)]
<1>1. build # <<>> /\ build' = <<c>> /\ present' = present /\ marks' = marks /\ agents' = agents
      /\ channels' = channels /\ listed' = listed /\ unlisted' = unlisted
  BY DEF Listing!ReadDir
<1>2. \A l \in Listing!Leaves(s) : Fresh(l)
  BY LeavesFresh DEF ListingInv
<1>3. Listing!Leaves(s) \in SUBSET LeafSet
  BY <1>2 DEF Fresh
<1>4. b \in Builds
  BY <1>1 DEF ListingInv, ListingTyped
<1>5. /\ c \in Builds
      /\ c.had = b.had /\ c.went = b.went
      /\ c.stage = [b.stage EXCEPT ![s] = "read"]
      /\ c.leaves = [b.leaves EXCEPT ![s] = Listing!Leaves(s)]
  BY <1>3, <1>4 DEF Builds
<1>6. build'[1] = c /\ build' # <<>> /\ Listing!Sections' = Listing!Sections
  BY <1>1 DEF Listing!Sections
<1>7. \A f \in b.had \ b.went : f \in present
  BY <1>1 DEF ListingInv, BuildInv
<1>8. ASSUME s = "workspace", NEW f \in present
      PROVE  \E l \in Listing!Leaves(s) :
               l.id = Listing!Id("file", "", f) /\ l.readable = Listing!ClassifyWorkspaceFile(f)
  <2> DEFINE l == [Listing!Leaf(Listing!Id("file", "", f), "stat")
                     EXCEPT !.readable = Listing!ClassifyWorkspaceFile(f)]
  <2>1. l \in Listing!Leaves(s)
    BY <1>8 DEF Listing!Leaves
  <2>2. l.id = Listing!Id("file", "", f) /\ l.readable = Listing!ClassifyWorkspaceFile(f)
    BY DEF Listing!Leaf
  <2> QED BY <2>1, <2>2
<1> HIDE DEF b, c
<1>9. BuildInv'
  <2>1. c.had \ c.went \subseteq present'
    BY <1>1, <1>5, <1>7
  <2>2. ASSUME NEW r \in Listing!Sections, NEW l \in c.leaves[r]
        PROVE  /\ Sound(l) /\ HintTrue(l)
               /\ c.stage[r] = "read" /\ l.look # "none" => l.id.file \in present \cup c.went
    <3>1. CASE r = s
      BY <1>2, <1>4, <1>5, <3>1 DEF Builds, Fresh, HintTrue
    <3>2. CASE r # s
      BY <1>1, <1>4, <1>5, <3>2 DEF Builds, ListingInv, BuildInv, b
    <3> QED BY <3>1, <3>2
  <2>3. ASSUME c.stage["workspace"] # "unread", NEW f \in c.had \ c.went
        PROVE  \E l \in c.leaves["workspace"] :
                 l.id = Listing!Id("file", "", f) /\ l.readable = Listing!ClassifyWorkspaceFile(f)
    <3>1. CASE s = "workspace"
      <4>1. c.leaves["workspace"] = Listing!Leaves(s)
        BY <1>4, <1>5, <3>1 DEF Builds
      <4>2. f \in present
        BY <1>5, <1>7
      <4> QED BY <1>8, <3>1, <4>1, <4>2
    <3>2. CASE s # "workspace"
      BY <1>1, <1>4, <1>5, <2>3, <3>2 DEF Builds, ListingInv, BuildInv, b, Listing!Sections
    <3> QED BY <3>1, <3>2
  <2> QED BY <1>1, <1>6, <2>1, <2>2, <2>3 DEF BuildInv
<1>10. ListingTyped'
  BY <1>1, <1>5, <1>6 DEF ListingInv, ListingTyped, Builds, Listing!Sections
<1>11. ListedInv'
  BY <1>1 DEF ListingInv, ListedInv, Listing!HintsTrue, Listing!ListedWhole
<1> QED BY <1>9, <1>10, <1>11 DEF ListingInv

LEMMA StatKeeps ==
  ASSUME ListingInv, NEW s \in Listing!Sections, Listing!Stat(s)
  PROVE  ListingInv'
<1> DEFINE b == build[1]
           leaves == b.leaves[s]
           gone == {l \in leaves : l.look # "none" /\ l.id.file \notin present}
           looked == {Listing!Looked(l) : l \in leaves \ gone}
           c == [b EXCEPT !.stage[s] = "done", !.leaves[s] = looked]
<1>1. /\ build # <<>> /\ b.stage[s] = "read" /\ present' = present /\ marks' = marks
      /\ agents' = agents /\ channels' = channels
      /\ IF \E l \in gone : l.look = "stat"
           THEN build' = <<>> /\ listed' = <<>> /\ unlisted' = <<b.went>>
           ELSE build' = <<c>> /\ listed' = listed /\ unlisted' = unlisted
  BY DEF Listing!Stat
<1>2. b \in Builds /\ Listing!Sections' = Listing!Sections
  BY <1>1 DEF ListingInv, ListingTyped, Listing!Sections
<1>3. \A l \in leaves : /\ l \in LeafSet /\ Sound(l) /\ HintTrue(l)
                        /\ l.look # "none" => l.id.file \in present \cup b.went
  BY <1>1, <1>2 DEF ListingInv, BuildInv, Builds
<1>4. CASE \E l \in gone : l.look = "stat"
  <2>1. b.went # {}
    BY <1>3, <1>4
  <2>2. build' = <<>> /\ listed' = <<>> /\ unlisted'[1] = b.went
    BY <1>1, <1>4
  <2> HIDE DEF b
  <2> QED BY <1>1, <2>1, <2>2
         DEF ListingInv, ListingTyped, BuildInv, ListedInv, Listing!HintsTrue, Listing!ListedWhole
<1>5. CASE ~ \E l \in gone : l.look = "stat"
  <2>1. build' = <<c>> /\ listed' = listed /\ unlisted' = unlisted
    BY <1>1, <1>5
  <2>2. \A l \in looked : l \in LeafSet /\ Sound(l) /\ HintTrue(l)
    BY <1>3, LookedLeaf DEF ListingInv
  <2>3. looked \in SUBSET LeafSet
    BY <2>2
  <2> HIDE DEF looked
  <2>4. /\ c \in Builds /\ c.had = b.had /\ c.went = b.went
        /\ c.stage = [b.stage EXCEPT ![s] = "done"]
        /\ c.leaves = [b.leaves EXCEPT ![s] = looked]
    BY <1>2, <2>3 DEF Builds
  <2>5. build'[1] = c /\ build' # <<>>
    BY <2>1
  <2>6. \A f \in b.had \ b.went : f \in present
    BY <1>1 DEF ListingInv, BuildInv
  <2>7. ASSUME s = "workspace", NEW f \in b.had \ b.went
        PROVE  \E l \in looked :
                 l.id = Listing!Id("file", "", f) /\ l.readable = Listing!ClassifyWorkspaceFile(f)
    <3>1. PICK l \in leaves :
            l.id = Listing!Id("file", "", f) /\ l.readable = Listing!ClassifyWorkspaceFile(f)
      BY <1>1, <2>7 DEF ListingInv, BuildInv
    <3>6. Listing!Id("file", "", f).file = f
      BY DEF Listing!Id
    <3>5. f \in present /\ l.id.file = f
      BY <2>6, <3>1, <3>6
    <3>2. l \notin gone
      BY <3>5
    <3>3. Listing!Looked(l) \in looked
      BY <3>2 DEF looked
    <3>4. Listing!Looked(l).id = l.id /\ Listing!Looked(l).readable = l.readable
      BY <1>3, LookedLeaf DEF ListingInv
    <3> QED BY <3>1, <3>3, <3>4
  <2> HIDE DEF b, c, leaves, gone
  <2>8. BuildInv'
    <3>1. c.had \ c.went \subseteq present'
      BY <1>1, <2>4, <2>6
    <3>2. ASSUME NEW r \in Listing!Sections, NEW l \in c.leaves[r]
          PROVE  /\ Sound(l) /\ HintTrue(l)
                 /\ c.stage[r] = "read" /\ l.look # "none" => l.id.file \in present \cup c.went
      <4>1. CASE r = s
        BY <1>2, <2>2, <2>4, <4>1 DEF Builds
      <4>2. CASE r # s
        BY <1>1, <1>2, <2>4, <4>2 DEF Builds, ListingInv, BuildInv, b
      <4> QED BY <4>1, <4>2
    <3>3. ASSUME c.stage["workspace"] # "unread", NEW f \in c.had \ c.went
          PROVE  \E l \in c.leaves["workspace"] :
                   l.id = Listing!Id("file", "", f) /\ l.readable = Listing!ClassifyWorkspaceFile(f)
      <4>1. CASE s = "workspace"
        <5>1. c.leaves["workspace"] = looked
          BY <1>2, <2>4, <4>1 DEF Builds
        <5> QED BY <2>4, <2>7, <4>1, <5>1
      <4>2. CASE s # "workspace"
        BY <1>1, <1>2, <2>4, <3>3, <4>2 DEF Builds, ListingInv, BuildInv, b, Listing!Sections
      <4> QED BY <4>1, <4>2
    <3> QED BY <1>1, <1>2, <2>5, <3>1, <3>2, <3>3 DEF BuildInv
  <2>9. ListingTyped'
    BY <1>1, <1>2, <2>1, <2>4, <2>5 DEF ListingInv, ListingTyped, Builds
  <2>10. ListedInv'
    BY <2>1 DEF ListingInv, ListedInv, Listing!HintsTrue, Listing!ListedWhole
  <2> QED BY <2>8, <2>9, <2>10 DEF ListingInv
<1> QED BY <1>4, <1>5

LEMMA AnswerKeeps == ASSUME ListingInv, Listing!Answer PROVE ListingInv'
<1> DEFINE b == build[1]
           overview == Listing!Leaf(Listing!Id("overview", "", Listing!Nothing), "none")
           all == {overview} \cup UNION {b.leaves[s] : s \in Listing!Sections}
<1>1. /\ build # <<>> /\ b \in Builds /\ \A s \in Listing!Sections : b.stage[s] = "done"
      /\ listed' = <<[leaves |-> all, stayed |-> b.had \ b.went]>>
      /\ build' = <<>> /\ unlisted' = <<>>
      /\ present' = present /\ marks' = marks /\ agents' = agents /\ channels' = channels
  BY DEF Listing!Answer, ListingInv, ListingTyped
<1>2. Fresh(overview)
  <2>1. Listing!Nothing \in ListedFiles /\ "" \in AgentNames /\ "overview" \in LeafTypes
    BY DEF ListedFiles, AgentNames, LeafTypes
  <2>2. SoundAs("overview", "", Listing!Nothing, TRUE)
    BY DEF SoundAs
  <2> QED BY <2>1, <2>2, FreshLeaf
<1>3. \A l \in all : l \in LeafSet /\ Sound(l) /\ HintTrue(l)
  <2>1. overview \in LeafSet /\ Sound(overview) /\ HintTrue(overview)
    BY <1>2 DEF Fresh, HintTrue
  <2> HIDE DEF overview
  <2>2. ASSUME NEW s \in Listing!Sections, NEW l \in b.leaves[s]
        PROVE  l \in LeafSet /\ Sound(l) /\ HintTrue(l)
    <3>1. Sound(l) /\ HintTrue(l)
      BY <1>1 DEF ListingInv, BuildInv
    <3>2. b.leaves \in [Listing!Sections -> SUBSET LeafSet]
      BY <1>1 DEF Builds
    <3> QED BY <3>1, <3>2
  <2> HIDE DEF b
  <2>3. ASSUME NEW l \in all PROVE l = overview \/ \E s \in Listing!Sections : l \in b.leaves[s]
    OBVIOUS
  <2> QED BY <2>1, <2>2, <2>3
<1>4. \A f \in b.had \ b.went :
        \E l \in all : l.id = Listing!Id("file", "", f) /\ l.readable = Listing!ClassifyWorkspaceFile(f)
  <2>1. "workspace" \in Listing!Sections /\ b.stage["workspace"] # "unread"
    BY <1>1 DEF Listing!Sections
  <2>2. b.leaves["workspace"] \subseteq all
    BY <2>1
  <2>3. \A f \in b.had \ b.went :
          \E l \in b.leaves["workspace"] :
            l.id = Listing!Id("file", "", f) /\ l.readable = Listing!ClassifyWorkspaceFile(f)
    BY <1>1, <2>1 DEF ListingInv, BuildInv
  <2> HIDE DEF all, b
  <2> QED BY <2>2, <2>3
<1>5. listed'[1].leaves = all /\ listed'[1].stayed = b.had \ b.went
  BY <1>1
<1> HIDE DEF all, b
<1>6. ListedInv'
  BY <1>1, <1>3, <1>4, <1>5 DEF ListedInv, HintTrue, Listing!HintsTrue, Listing!ListedWhole
<1>7. ListingTyped' /\ BuildInv'
  <2>1. all \subseteq LeafSet
    BY <1>3
  <2> QED BY <1>1, <1>5, <2>1 DEF ListingInv, ListingTyped, BuildInv
<1> QED BY <1>6, <1>7 DEF ListingInv

LEMMA BuildTreeKeeps == ASSUME ListingInv, Listing!BuildTree PROVE ListingInv'
<1> DEFINE c == [stage |-> [s \in Listing!Sections |-> "unread"],
                 leaves |-> [s \in Listing!Sections |-> {}], had |-> present, went |-> {}]
<1>1. /\ build' = <<c>> /\ present' = present /\ marks' = marks /\ agents' = agents
      /\ channels' = channels /\ listed' = listed /\ unlisted' = unlisted
  BY DEF Listing!BuildTree
<1>2. c \in Builds /\ Builds' = Builds /\ Listing!Sections' = Listing!Sections
  BY DEF Builds, Listing!Sections, ListingInv, ListingTyped
<1>3. build'[1] = c /\ c.had = present /\ c.went = {} /\ c.stage["workspace"] = "unread"
      /\ \A s \in Listing!Sections : c.leaves[s] = {}
  BY <1>1 DEF Listing!Sections
<1> HIDE DEF c
<1>4. ListingTyped'
  BY <1>1, <1>2, <1>3 DEF ListingInv, ListingTyped
<1>5. BuildInv'
  BY <1>1, <1>2, <1>3 DEF BuildInv
<1> QED BY <1>1, <1>4, <1>5 DEF ListingInv, ListedInv, Listing!HintsTrue, Listing!ListedWhole

LEMMA DeleteKeeps == ASSUME ListingInv, NEW f \in Universe, Listing!Delete(f) PROVE ListingInv'
<1> DEFINE b == build[1]
           c == [b EXCEPT !.went = @ \cup {f}]
<1>1. /\ present' = present \ {f} /\ marks' = [marks EXCEPT ![f] = <<>>]
      /\ build' = IF build = <<>> THEN <<>> ELSE <<c>>
      /\ agents' = agents /\ channels' = channels /\ listed' = listed /\ unlisted' = unlisted
  BY DEF Listing!Delete
<1>2. marks' \in [Universe -> SomeMarks] /\ present' \subseteq Universe
  <2>1. <<>> \in SomeMarks
    BY DEF SomeMarks
  <2> QED BY <1>1, <2>1 DEF ListingInv, ListingTyped
<1>3. CASE build = <<>>
  BY <1>1, <1>2, <1>3
     DEF ListingInv, ListingTyped, BuildInv, ListedInv, Listing!HintsTrue, Listing!ListedWhole
<1>4. CASE build # <<>>
  <2>1. b \in Builds /\ Builds' = Builds /\ Listing!Sections' = Listing!Sections
    BY <1>4 DEF ListingInv, ListingTyped, Builds, Listing!Sections
  <2>2. c \in Builds /\ c.stage = b.stage /\ c.leaves = b.leaves /\ c.had = b.had
        /\ c.went = b.went \cup {f}
    BY <2>1 DEF Builds
  <2>3. build'[1] = c /\ build' = <<c>>
    BY <1>1, <1>4
  <2> HIDE DEF c
  <2>4. ListingTyped'
    BY <1>1, <1>2, <2>1, <2>2, <2>3 DEF ListingInv, ListingTyped
  <2>5. BuildInv'
    <3>1. c.had \ c.went \subseteq present'
      BY <1>1, <1>4, <2>2 DEF ListingInv, BuildInv
    <3>2. ASSUME NEW r \in Listing!Sections, NEW l \in c.leaves[r]
          PROVE  /\ Sound(l) /\ HintTrue(l)
                 /\ c.stage[r] = "read" /\ l.look # "none" => l.id.file \in present' \cup c.went
      BY <1>1, <1>4, <2>2 DEF ListingInv, BuildInv
    <3>3. ASSUME c.stage["workspace"] # "unread", NEW g \in c.had \ c.went
          PROVE  \E l \in c.leaves["workspace"] :
                   l.id = Listing!Id("file", "", g) /\ l.readable = Listing!ClassifyWorkspaceFile(g)
      BY <1>4, <2>2, <3>3 DEF ListingInv, BuildInv
    <3> QED BY <2>1, <2>3, <3>1, <3>2, <3>3 DEF BuildInv
  <2> QED BY <1>1, <2>4, <2>5
         DEF ListingInv, ListedInv, Listing!HintsTrue, Listing!ListedWhole
<1> QED BY <1>3, <1>4

LEMMA ListingStep == ListingInv /\ [Listing!Next]_Listing!vars => ListingInv'
<1> SUFFICES ASSUME ListingInv, [Listing!Next]_Listing!vars PROVE ListingInv'
  OBVIOUS
<1>0. Builds' = Builds /\ Listing!Sections' = Listing!Sections
  BY DEF Builds, Listing!Sections
<1>1. ASSUME NEW f \in Universe, Listing!Write(f) PROVE ListingInv'
  <2>1. present' = present \cup {f} /\ marks' = marks /\ agents' = agents /\ channels' = channels
        /\ build' = build /\ listed' = listed /\ unlisted' = unlisted
    BY <1>1 DEF Listing!Write
  <2>2. ListingTyped'
    BY <1>0, <2>1 DEF ListingInv, ListingTyped
  <2>3. BuildInv'
    BY <1>0, <2>1 DEF ListingInv, BuildInv
  <2> QED BY <2>1, <2>2, <2>3 DEF ListingInv, ListedInv, Listing!HintsTrue, Listing!ListedWhole
<1>2. ASSUME NEW f \in Universe, NEW mark \in {"active", "archived"}, Listing!Mark(f, mark)
      PROVE  ListingInv'
  <2>1. present' = present /\ marks' = [marks EXCEPT ![f] = Append(@, mark)] /\ agents' = agents
        /\ channels' = channels /\ build' = build /\ listed' = listed /\ unlisted' = unlisted
    BY <1>2 DEF Listing!Mark
  <2>2. Append(marks[f], mark) \in SomeMarks
    BY DEF ListingInv, ListingTyped, SomeMarks
  <2>3. ListingTyped'
    BY <1>0, <2>1, <2>2 DEF ListingInv, ListingTyped
  <2>4. BuildInv'
    BY <1>0, <2>1 DEF ListingInv, BuildInv
  <2> QED BY <2>1, <2>3, <2>4 DEF ListingInv, ListedInv, Listing!HintsTrue, Listing!ListedWhole
<1>3. ASSUME NEW A \in AgentSets, NEW C \in ChannelSets, Listing!Configure(A, C) PROVE ListingInv'
  BY <1>0, <1>3 DEF Listing!Configure, ListingInv, ListingTyped, BuildInv, ListedInv,
                    Listing!HintsTrue, Listing!ListedWhole
<1>4. CASE UNCHANGED Listing!vars
  BY <1>0, <1>4 DEF Listing!vars, ListingInv, ListingTyped, BuildInv, ListedInv,
                    Listing!HintsTrue, Listing!ListedWhole
<1> QED BY <1>1, <1>2, <1>3, <1>4, BuildTreeKeeps, AnswerKeeps, ReadDirKeeps, StatKeeps, DeleteKeeps
       DEF Listing!Next

\* An agent's file is where it was, unless it or the agent with its root went away.
LEMMA AgentFileAnswers ==
  ASSUME ListingTyped, NEW agent \in AgentNames, NEW f \in Universe
  PROVE  \/ Listing!ReadAgentFile(agent, f) = 200
         \/ /\ Listing!ReadAgentFile(agent, f) = 404
            /\ f \notin present \/ \A a \in Listing!ResolveAgents : a[1] # agent \/ a[2] # f.root
<1> DEFINE roots == {a[2] : a \in {b \in Listing!ResolveAgents : b[1] = agent}}
           r == CHOOSE x \in roots : TRUE
<1>1. f \in [root : Roots \cup {"workspace"}, dir : STRING, kind : STRING]
  BY UniverseFacts
<1>2. Listing!ReadAgentFile(agent, f) =
        IF roots = {} THEN 404 ELSE Listing!Found([f EXCEPT !.root = r])
  BY DEF Listing!ReadAgentFile
<1>3. CASE roots = {}
  <2>1. \A a \in Listing!ResolveAgents : a[1] # agent
    BY <1>3
  <2> QED BY <1>2, <1>3, <2>1
<1>4. CASE roots # {}
  <2>1. PICK a \in Listing!ResolveAgents : a[1] = agent /\ r = a[2]
    BY <1>4
  <2> HIDE DEF roots, r
  <2>2. CASE f.root = r
    <3>1. [f EXCEPT !.root = r] = f
      BY <1>1, <2>2
    <3>2. Listing!ReadAgentFile(agent, f) = Listing!Found(f)
      BY <1>2, <1>4, <3>1
    <3> QED BY <1>1, <3>2 DEF Listing!Found
  <2>3. CASE f.root # r
    <3>1. \A b \in Listing!ResolveAgents : b[1] = agent => b = a
      BY <2>1, AgentsNamed
    <3> QED BY <1>1, <1>2, <1>4, <2>1, <2>3, <3>1 DEF Listing!Found
  <2> QED BY <2>2, <2>3
<1> QED BY <1>3, <1>4

LEMMA LeafAnswers ==
  ASSUME ListingTyped, NEW l \in LeafSet, Sound(l)
  PROVE  /\ LET answer == Listing!ReadNode(l.id)
            IN IF ~l.readable THEN answer = 403
               ELSE \/ answer = 200
                    \/ answer = 404 /\ Listing!GoneSince(l.id)
                    \/ answer = 400 /\ l.id.file.dir = "sessions/other"
         /\ l.id.file # Listing!Nothing /\ Listing!ReadNode(l.id) = 200 =>
              Listing!ClassifyWorkspaceFile(l.id.file)
<1> DEFINE answer == Listing!ReadNode(l.id)
           Right == \/ answer = 200
                    \/ answer = 404 /\ Listing!GoneSince(l.id)
                    \/ answer = 400 /\ l.id.file.dir = "sessions/other"
           Classified == Listing!ClassifyWorkspaceFile(l.id.file)
<1>0. l.id.type \in LeafTypes /\ l.readable \in BOOLEAN /\ l.id \in LeafIds
  BY DEF LeafSet, LeafIds
<1>1. CASE l.id.type = "file"
  <2>1. l.id.file # Listing!Nothing /\ l.readable = Classified
    BY <1>1, UniverseFacts DEF Sound, SoundAs
  <2>2. answer = IF Listing!Readable(l.id.file) THEN Listing!Found(l.id.file) ELSE 403
    BY <1>1 DEF Listing!ReadNode
  <2>3. CASE Classified
    <3>1. answer = Listing!Found(l.id.file)
      BY <2>2, <2>3 DEF Listing!Readable
    <3>2. Right
      BY <2>1, <3>1 DEF Listing!Found, Listing!GoneSince
    <3> QED BY <2>1, <2>3, <3>2
  <2>4. CASE ~Classified
    <3>1. answer = 403
      BY <2>2, <2>4 DEF Listing!Readable
    <3> QED BY <2>1, <2>4, <3>1
  <2> QED BY <2>3, <2>4
<1>2. ASSUME l.id.type # "file", Right
      PROVE  /\ IF ~l.readable THEN answer = 403 ELSE Right
             /\ l.id.file # Listing!Nothing /\ answer = 200 => Classified
  <2>1. l.readable = TRUE
    BY <1>0, <1>2 DEF Sound, SoundAs
  <2>2. l.id.file # Listing!Nothing => Classified
    BY <1>2 DEF Sound, SoundAs
  <2> HIDE DEF answer, Right, Classified
  <2> QED BY <1>2, <2>1, <2>2
<1>3. ASSUME answer = Listing!ReadAgentFile(l.id.agent, l.id.file),
             l.id.type \in {"agent-file", "watch", "session"}
      PROVE  Right
  <2>1. l.id.file \in Universe /\ l.id.agent # ""
    BY <1>3 DEF Sound, SoundAs
  <2>2. l.id.file # Listing!Nothing
    BY <2>1, UniverseFacts
  <2>4. ASSUME NEW agent \in AgentNames, NEW f \in Universe, answer = Listing!ReadAgentFile(agent, f)
        PROVE  \/ answer = 200
               \/ /\ answer = 404
                  /\ f \notin present \/ \A a \in Listing!ResolveAgents : a[1] # agent \/ a[2] # f.root
    <3> HIDE DEF answer
    <3> QED BY <2>4, AgentFileAnswers
  <2>5. l.id.agent \in AgentNames
    BY <1>0 DEF LeafIds
  <2>6. PICK agent \in AgentNames, f \in Universe : agent = l.id.agent /\ f = l.id.file
    BY <2>1, <2>5
  <2>7. answer = Listing!ReadAgentFile(agent, f)
    BY <1>3, <2>6
  <2>8. \/ answer = 200
        \/ /\ answer = 404
           /\ f \notin present \/ \A a \in Listing!ResolveAgents : a[1] # agent \/ a[2] # f.root
    BY <2>4, <2>7
  <2> HIDE DEF answer
  <2> QED BY <2>1, <2>2, <2>6, <2>8 DEF Listing!GoneSince
<1>4. CASE l.id.type = "overview"
  <2>1. answer = 200
    BY <1>4 DEF Listing!ReadNode
  <2> QED BY <1>2, <1>4, <2>1
<1>5. CASE l.id.type = "agent"
  <2>1. answer = IF \E a \in Listing!ResolveAgents : a[1] = l.id.agent THEN 200 ELSE 404
    BY <1>5 DEF Listing!ReadNode
  <2>2. l.id.agent # "" /\ l.id.file = Listing!Nothing
    BY <1>5 DEF Sound, SoundAs
  <2>3. Right
    BY <2>1, <2>2 DEF Listing!GoneSince
  <2> QED BY <1>2, <1>5, <2>3
<1>6. CASE l.id.type = "agent-file"
  <2>1. Listing!IsAgentScopedPath(l.id.file) /\ Listing!Readable(l.id.file)
    <3>1. Listing!IsAgentScopedPath(l.id.file) /\ Classified
      BY <1>6 DEF Sound, SoundAs
    <3> QED BY <3>1 DEF Listing!Readable
  <2>2. answer = Listing!ReadAgentFile(l.id.agent, l.id.file)
    BY <1>6, <2>1 DEF Listing!ReadNode
  <2> QED BY <1>2, <1>3, <1>6, <2>2
<1>7. CASE l.id.type = "watch"
  <2>1. answer = Listing!ReadAgentFile(l.id.agent, l.id.file)
    BY <1>7 DEF Listing!ReadNode
  <2> QED BY <1>2, <1>3, <1>7, <2>1
<1>8. CASE l.id.type = "session"
  <2>1. answer = IF l.id.file.dir # "sessions/local" THEN 400
                 ELSE Listing!ReadAgentFile(l.id.agent, l.id.file)
    BY <1>8 DEF Listing!ReadNode
  <2>2. l.id.file.dir \in {"sessions/local", "sessions/other"}
    BY <1>8 DEF Sound, SoundAs, Listing!IsSession
  <2>3. Right
    BY <1>3, <1>8, <2>1, <2>2
  <2> QED BY <1>2, <1>8, <2>3
<1>9. CASE l.id.type \in {"channel", "runtime"}
  <2>1. l.id.file # Listing!Nothing /\ (l.id.type = "runtime" => l.id.file.dir = "runtime")
    BY <1>9 DEF Sound, SoundAs
  <2>2. answer = 200 \/ answer = Listing!Found(l.id.file)
    <3>1. CASE l.id.type = "channel"
      BY <3>1 DEF Listing!ReadNode
    <3>2. CASE l.id.type = "runtime"
      BY <2>1, <3>2 DEF Listing!ReadNode
    <3> QED BY <1>9, <3>1, <3>2
  <2>3. Right
    BY <2>1, <2>2 DEF Listing!Found, Listing!GoneSince
  <2> QED BY <1>2, <1>9, <2>3
<1> QED BY <1>0, <1>1, <1>4, <1>5, <1>6, <1>7, <1>8, <1>9 DEF LeafTypes

LEMMA ListingAlways ==
  HostSpec => []( /\ Listing!LeavesAnswer /\ Listing!PrivateUnread
                  /\ Listing!ListedWhole /\ Listing!HintsTrue )
<1>1. [HostNext]_everything => [Listing!Next]_Listing!vars
  BY DEF HostNext, everything, listingVars, Listing!vars
<1>2. ListingInv => Listing!ListedWhole /\ Listing!HintsTrue
  BY DEF ListingInv, ListedInv
<1>3. ListingInv => Listing!LeavesAnswer /\ Listing!PrivateUnread
  <2> SUFFICES ASSUME ListingInv, listed # <<>>, NEW l \in listed[1].leaves
               PROVE  /\ LET answer == Listing!ReadNode(l.id)
                         IN IF ~l.readable THEN answer = 403
                            ELSE \/ answer = 200
                                 \/ answer = 404 /\ Listing!GoneSince(l.id)
                                 \/ answer = 400 /\ l.id.file.dir = "sessions/other"
                      /\ l.id.file # Listing!Nothing /\ Listing!ReadNode(l.id) = 200 =>
                           Listing!ClassifyWorkspaceFile(l.id.file)
    BY DEF Listing!LeavesAnswer, Listing!PrivateUnread
  <2>1. ListingTyped /\ l \in LeafSet /\ Sound(l)
    BY DEF ListingInv, ListingTyped, ListedInv
  <2> QED BY <2>1, LeafAnswers
<1> QED BY <1>1, <1>2, <1>3, ListingInit, ListingStep, PTL DEF HostSpec

\* A gateway has at most one living inspector and leaves one behind only when it ends
\* without its shutdown (gateway/web-sidecar.ts); whatever scans overlap, no change of a
\* file that is there goes unseen by the browsers (web/server/watcher.ts); what is listed
\* is whole and answers as it is listed, though files and agents come and go meanwhile, and
\* no id of a listing serves what is private (web/server/tree.ts, nodes.ts).
THEOREM InspectorAlwaysServes == HostSpec => []InspectorServes
<1>1. WebInv => Web!ChangesSeen
  BY DEF WebInv
<1>2. /\ Life!OneInspector /\ Life!OrphansExcused /\ Web!ChangesSeen
      /\ Listing!LeavesAnswer /\ Listing!PrivateUnread /\ Listing!ListedWhole /\ Listing!HintsTrue
      => InspectorServes
  BY DEF InspectorServes
<1> QED BY <1>1, <1>2, LifeAlways, WebAlways, ListingAlways, PTL
=============================================================================
