----------------------------- MODULE ModelChoice -----------------------------
(***************************************************************************)
(* Which model a session runs (sessions/models.ts, sessions/open.ts), and  *)
(* the commands that edit the policy it is chosen by (commands/models.ts,  *)
(* config/model-policies.ts).                                              *)
(*                                                                         *)
(* A policy is a sequence of candidates, the first usable one is taken.  A *)
(* model is usable when Pi's registry knows it and its provider has        *)
(* credentials.  A session records the model it runs and, opened again     *)
(* without a request, keeps it while it is usable.  The policy is the one  *)
(* the process loaded: here the file's, in a gateway the one it started    *)
(* with.                                                                   *)
(***************************************************************************)
EXTENDS Naturals, Sequences, SequencesExt

CONSTANTS
    Models,       \* model references
    Provider,     \* the provider of each model
    MaxCandidates \* bound on the length of a policy

VARIABLES
    policy,       \* the default policy in the configuration file
    known,        \* models of the registry
    login,        \* providers with credentials
    recorded,     \* the session's recorded model, <<>> or <<m>>
    opened        \* the model of the last opening, <<>> when it had none

vars == <<policy, known, login, recorded, opened>>

Providers == {Provider[m] : m \in Models}

Init == /\ policy \in {<<m>> : m \in Models}
        /\ known = Models /\ login = Providers
        /\ recorded = <<>> /\ opened = <<>>

(***************************************************************************)
(* Editing a policy                                                        *)
(***************************************************************************)

Candidates == {s \in BoundedSeq(Models, MaxCandidates) : s # <<>>}

\* The later of equal candidates are dropped.
Unique(s) == FoldLeft(LAMBDA kept, m : IF Contains(kept, m) THEN kept ELSE Append(kept, m),
                      <<>>, s)

Excluding(s, m) == SelectSeq(s, LAMBDA x : x # m)

\* The index counts from 0 in the policy without the candidate.
Insert(s, i, m) == InsertAt(s, i + 1, m)

\* An edited policy must keep a candidate.
Put(s) == policy' = s /\ s # <<>> /\ UNCHANGED <<known, login, recorded, opened>>

Set(s) == Put(Unique(s))

Add(m, i) == LET rest == Unique(Excluding(policy, m))
             IN i <= Len(rest) /\ Put(Insert(rest, i, m))

Drop(m) == Contains(policy, m) /\ Put(Excluding(policy, m))

\* mutant: the candidate at the new place makes room by being dropped
MoveOver(m, i) == LET rest == Excluding(policy, m)
                  IN /\ Contains(policy, m) /\ i < Len(rest)
                     /\ Put([rest EXCEPT ![i + 1] = m])

Move(m, i) == LET rest == Excluding(policy, m)
              IN Contains(policy, m) /\ i <= Len(rest) /\ Put(Insert(rest, i, m))

(***************************************************************************)
(* The world around it                                                     *)
(***************************************************************************)

Toggled(S, x) == IF x \in S THEN S \ {x} ELSE S \cup {x}

LogIn(p) == /\ login' = Toggled(login, p)
            /\ UNCHANGED <<policy, known, recorded, opened>>

Forget(m) == /\ known' = Toggled(known, m)
             /\ UNCHANGED <<policy, login, recorded, opened>>

(***************************************************************************)
(* Choosing                                                                *)
(***************************************************************************)

Usable(m) == m \in known /\ Provider[m] \in login

\* mutant: credentials are not asked for
SelectedKnown(p) ==
    FoldLeft(LAMBDA got, m : IF got # <<>> \/ m \notin known THEN got ELSE <<m>>, <<>>, p)
\* Candidates are tried in order; those after the first usable one are not
\* looked at.
Selected(p) ==
    FoldLeft(LAMBDA got, m : IF got # <<>> \/ ~Usable(m) THEN got ELSE <<m>>, <<>>, p)

\* A request names a model, which only has to be known; without one the
\* recorded model is kept while usable, and the policy decides otherwise.
Chosen(request, p) ==
    IF request # <<>> THEN SelectSeq(request, LAMBDA m : m \in known)
    ELSE IF recorded # <<>> /\ Usable(recorded[1]) THEN recorded
    ELSE Selected(p)

\* A session without a model does not open; one that opens records its
\* model.
Open(request) ==
    LET got == Chosen(request, policy)
    IN /\ opened' = got
       /\ recorded' = IF got = <<>> THEN recorded ELSE got
       /\ UNCHANGED <<policy, known, login>>

Next ==
    \/ \E s \in Candidates : Set(s)
    \/ \E m \in Models : \/ Drop(m) \/ Forget(m)
                         \/ \E i \in 0..MaxCandidates : Add(m, i) \/ Move(m, i)
    \/ \E p \in Providers : LogIn(p)
    \/ \E r \in {<<>>} \cup {<<m>> : m \in Models} : Open(r)

Spec == Init /\ [][Next]_vars

(***************************************************************************)
(* Properties                                                              *)
(***************************************************************************)

\* A session opened without a request runs its recorded model if that is
\* usable, otherwise a usable candidate that no usable one precedes, and
\* does not open when there is none.
OpensFirstUsable ==
    Open(<<>>) =>
        IF recorded # <<>> /\ Usable(recorded[1]) THEN opened' = recorded
        ELSE \/ opened' = <<>> /\ \A i \in DOMAIN policy : ~Usable(policy[i])
             \/ \E i \in DOMAIN policy :
                   /\ opened' = <<policy[i]>> /\ Usable(policy[i])
                   /\ \A j \in 1..i - 1 : ~Usable(policy[j])

\* Adding, removing or moving a candidate leaves the order of all others,
\* and no candidate is in a policy twice.
KeepsOthers ==
    \A m \in Models :
        (Drop(m) \/ \E i \in 0..MaxCandidates : Add(m, i) \/ Move(m, i)) =>
            /\ Excluding(policy', m) = Excluding(policy, m)
            /\ IsInjective(policy')
=============================================================================
