------------------------ MODULE TelegramInboundProofs ------------------------
(***************************************************************************)
(* What becomes of the updates of Telegram, for any chats, users, updates  *)
(* and restarts: none is passed over unaccounted, none is published twice  *)
(* but for a crash, and a chat's updates come in order.                    *)
(*                                                                         *)
(* An update is pending while this process may still publish it: it waits  *)
(* in a pile, or its handling is not over.  A step publishes one message   *)
(* at most, of pending updates which are not pending any more; that is all *)
(* the counts and the order need.                                          *)
(***************************************************************************)
EXTENDS TelegramInbound, FiniteSetTheorems, SequenceTheorems, WellFoundedInduction, TLAPS

Messages ==
  [ids : Seq(Ids) \ {<<>>}, from : {u.from : u \in Updates}, chat : {u.chat : u \in Updates},
   what : {"text", "image", "unsupported", "control", "error"}]
Sent == 1..Len(inbox)

\* The handling of i is over.
HandledNow(i) == i < stored \/ (batch # <<>> /\ step = "done" /\ i = stored)

\* What waits in the piles B of texts and A of photos, being fetched (F), or being
\* downloaded (D).
HeldIn(B, A, F, D, i) ==
  \/ \E c \in Chats : i \in Range(B[c]) \/ i \in Range(A[c])
  \/ i \in Range(F)
  \/ \E d \in D : i \in Range(d)
Held(i) == HeldIn(burst, album, fetching, downloads, i)

Pending(i) == Held(i) \/ ~ HandledNow(i)

----------------------------------------------------------------------------
(* What the poller, the handler and the piles are.                         *)

PollerOK ==
  /\ published \in Seq(Messages)
  /\ Len(inbox) <= MaxUpdates /\ stored <= Len(inbox) + 1
  /\ surface # "off" => offset = stored /\ restarts <= MaxRestarts
  /\ \A k \in 1..Len(batch) : batch[k] = stored + k - 1 /\ batch[k] <= Len(inbox)
  /\ batch # <<>> => surface \in {"up", "stopping"}
  /\ batch = <<>> => step = "start"
  /\ surface \in {"off", "flushing"} => loop = "ended"

\* What the handling of an update leaves of its chat's piles.
StepOK ==
  batch # <<>> =>
    /\ step \in {"flush", "own"} => ~ Denied(Update(stored)) /\ Kind(stored) # "ignored"
    /\ step = "fetch" => Kind(stored) = "photo"
    /\ step = "reply" =>
         /\ Kind(stored) = "command"
         /\ Denied(Update(stored)) \/ CommandResult(Update(stored)) = "reply"
    /\ step \in {"flush", "own", "fetch", "reply"} /\ ~ Denied(Update(stored)) /\ Kind(stored) # "text"
         => burst[Chat(stored)] = None
    /\ step \in {"flush", "own"} /\ Kind(stored) = "text" => album[Chat(stored)] = None

IsAlbum(p) == \A i \in Range(p) : i \in Sent /\ Kind(i) = "album"
Apart(p, q) == Range(p) \cap Range(q) = {}

PilesTyped(B, A, F, D) ==
  /\ B \in [Chats -> Seq(Ids)] /\ A \in [Chats -> Seq(Ids)]
  /\ F \in Seq(Ids) /\ D \in SUBSET (Seq(Ids) \ {<<>>})

\* Every pile has updates of its kind, of its chat, and no other pile has them.
PilesSorted(B, A, F, D) ==
  /\ \A c \in Chats : \A i \in Range(B[c]) : i \in Sent /\ Kind(i) = "text" /\ Chat(i) = c
  /\ \A c \in Chats : IsAlbum(A[c]) /\ \A i \in Range(A[c]) : Chat(i) = c
  /\ IsAlbum(F)
  /\ \A d \in D : IsAlbum(d)
  /\ \A c \in Chats : Apart(A[c], F) /\ \A d \in D : Apart(A[c], d)
  /\ \A d \in D : Apart(F, d)
  /\ \A d, e \in D : d # e => Apart(d, e)

\* What waits as text is newer than the photos of its chat.
TextNewer(B, A, F, D) ==
  \A c \in Chats : B[c] # None =>
    /\ A[c] = None
    /\ \A i \in Range(B[c]) :
         /\ \A j \in Range(F) : Chat(j) = c => j < i
         /\ \A d \in D : \A j \in Range(d) : Chat(j) = c => j < i

PilesGood(B, A, F, D) ==
  PilesTyped(B, A, F, D) /\ PilesSorted(B, A, F, D) /\ TextNewer(B, A, F, D)
PilesOK == PilesGood(burst, album, fetching, downloads)

\* When a pile may have something.
PilesTimely ==
  /\ \A i \in Ids : Held(i) => HandledNow(i)
  /\ fetching # None => (batch # <<>> /\ step = "flush") \/ surface = "flushing"
  /\ surface = "flushing" => \A c \in Chats \ unflushed : burst[c] = None /\ album[c] = None
  /\ surface = "off" =>
       /\ \A c \in Chats : burst[c] = None /\ album[c] = None
       /\ fetching = None /\ downloads = {}

----------------------------------------------------------------------------
(* What has been published.                                                *)

Before(i, j) == i < j /\ Chat(i) = Chat(j) /\ Kind(i) # "album"

Counted(i) ==
  /\ Cardinality(Entries(i)) <= 1 + restarts
  /\ Cardinality(Entries(i)) > 1 => i \in cut
  /\ Pending(i) => Cardinality(Entries(i)) <= restarts /\ (Entries(i) # {} => i \in cut)

\* A message that is still to come is not overtaken.
NotOvertaken == \A i, j \in Sent :
  Before(i, j) /\ Pending(i) /\ Entries(j) # {} => Entries(i) # {}

PublishedOK ==
  /\ \A i \in Ids : Entries(i) # {} => i <= stored /\ i \in Sent
  /\ \A i \in Ids : Counted(i)
  /\ NotOvertaken /\ InOrder

Accounted ==
  \A i \in Sent : HandledNow(i) => Silent(i) \/ Entries(i) # {} \/ Held(i) \/ i \in lost

InboundInv ==
  TypeOK /\ PollerOK /\ StepOK /\ PilesOK /\ PilesTimely /\ PublishedOK /\ Accounted

----------------------------------------------------------------------------
(* Sequences.                                                              *)

\* Every set of naturals has a least element.
LEMMA LeastNatural ==
  ASSUME NEW T \in SUBSET Nat, T # {}
  PROVE  \E m \in T : \A n \in T : m <= n
<1> DEFINE R == {ss \in Nat \X Nat : ss[1] < ss[2]}
<1>1. IsWellFoundedOn(R, Nat)
  BY NatLessThanWellFounded DEF OpToRel
<1>2. PICK m \in T : \A n \in T : ~ (<<n, m>> \in R)
  BY <1>1, WFMin
<1>3. ASSUME NEW n \in T PROVE m <= n
  <2>1. m \in Nat /\ n \in Nat /\ <<n, m>> \notin R
    BY <1>2
  <2>2. ~ (n < m)
    BY <2>1
  <2>. QED  BY <2>1, <2>2
<1>. QED  BY <1>2, <1>3

LEMMA RangeOfNone == Range(None) = {} /\ Range(<<>>) = {}
BY DEF Range, None

LEMMA RangeOfSome ==
  ASSUME NEW p \in Seq(Ids), p # <<>>
  PROVE  Range(p) # {} /\ Range(p) \subseteq Ids /\ Head(p) \in Range(p)
BY DEF Range

LEMMA PileRange ==
  ASSUME NEW p \in Seq(Ids)
  PROVE  Range(p) \subseteq Ids /\ (p = None \/ Range(p) # {})
<1>1. Range(p) \subseteq Ids
  BY DEF Range
<1>2. p # <<>> => Range(p) # {}
  BY RangeOfSome
<1>. QED  BY <1>1, <1>2 DEF None

LEMMA RangeOfAppend ==
  ASSUME NEW p \in Seq(Ids), NEW i \in Ids
  PROVE  Append(p, i) \in Seq(Ids) /\ Range(Append(p, i)) = Range(p) \cup {i}
<1>1. Append(p, i) \in Seq(Ids) /\ Len(Append(p, i)) = Len(p) + 1
  OBVIOUS
<1>2. \A k \in 1..Len(p) : Append(p, i)[k] = p[k]
  OBVIOUS
<1>3. Append(p, i)[Len(p) + 1] = i
  OBVIOUS
<1>. QED  BY <1>1, <1>2, <1>3 DEF Range

----------------------------------------------------------------------------
(* One message at most is published in a step.                             *)

\* The step publishes what the updates in R become: one message, or nothing.
Publishes(R) ==
  \/ R = {} /\ published' = published
  \/ /\ published' \in Seq(Messages)
     /\ Len(published') = Len(published) + 1
     /\ \A k \in 1..Len(published) : published'[k] = published[k]
     /\ Range(published'[Len(published) + 1].ids) = R

LEMMA EntriesFinite ==
  ASSUME published \in Seq(Messages), NEW i
  PROVE  /\ Entries(i) \in SUBSET (1..Len(published)) /\ IsFiniteSet(Entries(i))
         /\ Cardinality(Entries(i)) \in Nat /\ (Cardinality(Entries(i)) = 0 <=> Entries(i) = {})
         /\ Entries(i) # {} => First(i) \in Entries(i) /\ \A k \in Entries(i) : First(i) <= k
<1>1. Entries(i) \in SUBSET (1..Len(published))
  BY DEF Entries
<1>2. IsFiniteSet(1..Len(published))
  BY FS_Interval
<1>3. IsFiniteSet(Entries(i))
  BY <1>1, <1>2, FS_Subset
<1>4. ASSUME Entries(i) # {} PROVE First(i) \in Entries(i) /\ \A k \in Entries(i) : First(i) <= k
  <2>1. \E m \in Entries(i) : \A n \in Entries(i) : m <= n
    BY SMTT(40), <1>1, <1>4, LeastNatural
  <2>. QED  BY <2>1 DEF First
<1>. QED  BY <1>1, <1>3, <1>4, FS_CardinalityType, FS_EmptySet

\* The entries of an update after such a step.
LEMMA EntriesGrow ==
  ASSUME published \in Seq(Messages), NEW R, Publishes(R), NEW i
  PROVE  /\ published' \in Seq(Messages)
         /\ i \notin R => Entries(i)' = Entries(i)
         /\ i \in R => /\ Entries(i)' = Entries(i) \cup {Len(published) + 1}
                       /\ Len(published) + 1 \notin Entries(i)
                       /\ Cardinality(Entries(i)') = Cardinality(Entries(i)) + 1
<1>1. CASE R = {} /\ published' = published
  BY <1>1 DEF Entries
<1>2. CASE ~ (R = {} /\ published' = published)
  <2>1. /\ published' \in Seq(Messages)
        /\ Len(published') = Len(published) + 1
        /\ \A k \in 1..Len(published) : published'[k] = published[k]
        /\ Range(published'[Len(published) + 1].ids) = R
    BY <1>2 DEF Publishes
  <2>2. Len(published) \in Nat /\ DOMAIN published = 1..Len(published)
        /\ DOMAIN published' = 1..(Len(published) + 1)
    BY <2>1
  <2>3. i \notin R => Entries(i)' = Entries(i)
    BY <2>1, <2>2 DEF Entries
  <2>4. Len(published) + 1 \notin Entries(i)
    BY <2>2 DEF Entries
  <2>5. i \in R => Entries(i)' = Entries(i) \cup {Len(published) + 1}
    BY <2>1, <2>2 DEF Entries
  <2>6. IsFiniteSet(Entries(i))
    BY EntriesFinite
  <2>. QED  BY <2>1, <2>3, <2>4, <2>5, <2>6, FS_AddElement
<1>. QED  BY <1>1, <1>2

LEMMA FirstGrows ==
  ASSUME published \in Seq(Messages), NEW R, Publishes(R), NEW i
  PROVE  /\ Entries(i) # {} => First(i)' = First(i) /\ First(i) <= Len(published)
         /\ Entries(i) = {} /\ i \in R => First(i)' = Len(published) + 1
<1>1. /\ i \notin R => Entries(i)' = Entries(i)
      /\ i \in R => Entries(i)' = Entries(i) \cup {Len(published) + 1}
  BY EntriesGrow
<1>2. /\ Entries(i) \in SUBSET (1..Len(published)) /\ Len(published) \in Nat
      /\ Entries(i) # {} => First(i) \in Entries(i) /\ \A k \in Entries(i) : First(i) <= k
  BY EntriesFinite
<1>3. ASSUME Entries(i) # {} PROVE First(i)' = First(i) /\ First(i) <= Len(published)
  <2>1. First(i) \in Entries(i)' /\ \A k \in Entries(i)' : First(i) <= k
    BY <1>1, <1>2, <1>3
  <2>2. \A m \in Entries(i)' : (\A k \in Entries(i)' : m <= k) => m = First(i)
    BY <1>1, <1>2, <2>1
  <2>. QED  BY <1>2, <1>3, <2>1, <2>2 DEF First
<1>4. ASSUME Entries(i) = {}, i \in R PROVE First(i)' = Len(published) + 1
  <2>1. Entries(i)' = {Len(published) + 1}
    BY <1>1, <1>4
  <2>. QED  BY <1>2, <2>1 DEF First
<1>. QED  BY <1>3, <1>4

----------------------------------------------------------------------------
(* Counts and order.                                                       *)

LEMMA OrderIs ==
  InOrder <=> \A i, j \in Sent :
    Before(i, j) /\ Entries(i) # {} /\ Entries(j) # {} => First(i) <= First(j)
BY DEF InOrder, Before, Sent

\* A step that publishes pending updates, which are not pending after it, and none of
\* which something of its chat still waits for.
LEMMA PublishStep ==
  ASSUME PublishedOK, published \in Seq(Messages), restarts \in Nat,
         UNCHANGED <<inbox, restarts, cut>>, Sent \subseteq Ids,
         stored \in Nat, stored' \in Nat, stored <= stored',
         NEW R \in SUBSET Ids, Publishes(R),
         \A i \in R : Pending(i) /\ ~ Pending(i)' /\ i \in Sent /\ i <= stored',
         \A i \in Ids : Pending(i)' => Pending(i),
         \A i, j \in Sent : Before(i, j) /\ j \in R => ~ Pending(i)'
  PROVE  PublishedOK'
<1>1. \A i, j : Before(i, j)' <=> Before(i, j)
  BY DEF Before, Chat, Kind, Update
<1>2. Sent' = Sent
  BY DEF Sent
<1>3. \A i \in Ids : Entries(i)' # {} => i <= stored' /\ i \in Sent
  <2>. SUFFICES ASSUME NEW i \in Ids, Entries(i)' # {} PROVE i <= stored' /\ i \in Sent
    OBVIOUS
  <2>1. i \in R \/ Entries(i) # {}
    BY EntriesGrow
  <2>. QED  BY <2>1 DEF PublishedOK, Ids
<1>4. \A i \in Ids : Counted(i)'
  <2>. SUFFICES ASSUME NEW i \in Ids PROVE Counted(i)'
    OBVIOUS
  <2>1. Counted(i) /\ Cardinality(Entries(i)) \in Nat /\ (Cardinality(Entries(i)) = 0 <=> Entries(i) = {})
    BY EntriesFinite DEF PublishedOK
  <2>2. CASE i \in R
    <3>1. Cardinality(Entries(i)') = Cardinality(Entries(i)) + 1
      BY <2>2, EntriesGrow
    <3>2. Cardinality(Entries(i)) <= restarts /\ (Entries(i) # {} => i \in cut)
      BY <2>1, <2>2 DEF Counted
    <3>. QED  BY <2>1, <2>2, <3>1, <3>2 DEF Counted
  <2>3. CASE i \notin R
    <3>1. Entries(i)' = Entries(i)
      BY <2>3, EntriesGrow
    <3>. QED  BY <2>1, <3>1 DEF Counted
  <2>. QED  BY <2>2, <2>3
<1>5. NotOvertaken'
  <2>. SUFFICES ASSUME NEW i \in Sent, NEW j \in Sent, Before(i, j), Pending(i)', Entries(j)' # {}
                PROVE  Entries(i)' # {}
    BY <1>1, <1>2 DEF NotOvertaken
  <2>1. i \in Ids /\ j \in Ids
    OBVIOUS
  <2>2. j \notin R /\ Pending(i)
    BY <2>1
  <2>3. Entries(j) # {}
    BY <2>2, EntriesGrow
  <2>4. Entries(i) # {}
    BY <2>2, <2>3 DEF PublishedOK, NotOvertaken
  <2>. QED  BY <2>4, EntriesGrow
<1>6. InOrder'
  <2>. SUFFICES ASSUME NEW i \in Sent, NEW j \in Sent, Before(i, j), Entries(i)' # {}, Entries(j)' # {}
                PROVE  First(i)' <= First(j)'
    BY <1>1, <1>2 DEF InOrder, Before, Sent
  <2>0. Len(published) \in Nat
    OBVIOUS
  <2>1. CASE Entries(i) # {} /\ Entries(j) # {}
    <3>1. First(i) <= First(j)
      BY <2>1, OrderIs DEF PublishedOK
    <3>. QED  BY <2>1, <3>1, FirstGrows
  <2>2. CASE Entries(i) # {} /\ Entries(j) = {}
    <3>1. j \in R
      BY <2>2, EntriesGrow
    <3>2. First(i)' <= Len(published) /\ First(j)' = Len(published) + 1
      BY <2>2, <3>1, FirstGrows
    <3>3. First(i)' \in Nat
      BY <2>2, FirstGrows, EntriesFinite
    <3>. QED  BY <2>0, <3>2, <3>3
  <2>3. CASE Entries(i) = {}
    <3>1. i \in R
      BY <2>3, EntriesGrow
    <3>2. Entries(j) = {}
      BY <2>3, <3>1 DEF PublishedOK, NotOvertaken
    <3>3. j \in R
      BY <3>2, EntriesGrow
    <3>4. First(i)' = Len(published) + 1 /\ First(j)' = Len(published) + 1
      BY <2>3, <3>1, <3>2, <3>3, FirstGrows
    <3>. QED  BY <2>0, <3>4
  <2>. QED  BY <2>1, <2>2, <2>3
<1>. QED  BY <1>2, <1>3, <1>4, <1>5, <1>6 DEF PublishedOK

----------------------------------------------------------------------------
(* What every step may use.                                                *)

Named(p) == p \in Seq(Ids) /\ \A i \in Range(p) : i \in Sent

LEMMA Basics ==
  ASSUME TypeOK, PollerOK
  PROVE  /\ inbox \in Seq(Updates) /\ Len(inbox) \in Nat /\ Sent \subseteq Ids
         /\ published \in Seq(Messages) /\ restarts \in Nat
         /\ stored \in Nat /\ 1 <= stored /\ stored <= Len(inbox) + 1
         /\ \A i \in Sent : Update(i) \in Updates /\ Chat(i) \in Chats /\ Kind(i) \in Kinds
         /\ batch # <<>> => This = stored /\ stored \in Sent /\ stored \in Ids
<1>1. /\ inbox \in Seq(Updates) /\ Len(inbox) \in Nat /\ Sent \subseteq Ids
      /\ published \in Seq(Messages) /\ restarts \in Nat
      /\ stored \in Nat /\ 1 <= stored /\ stored <= Len(inbox) + 1
  BY BoundsAssumption DEF TypeOK, PollerOK, Sent, Ids
<1>2. ASSUME NEW i \in Sent PROVE Update(i) \in Updates /\ Chat(i) \in Chats /\ Kind(i) \in Kinds
  <2>1. inbox[i] \in Updates
    BY <1>1 DEF Sent
  <2>. QED  BY <2>1, UpdatesAssumption DEF Update, Chat, Kind
<1>3. ASSUME batch # <<>> PROVE This = stored /\ stored \in Sent /\ stored \in Ids
  <2>1. batch \in Seq(Ids)
    BY DEF TypeOK
  <2>2. 1 \in 1..Len(batch) /\ This = batch[1]
    BY <1>3, <2>1 DEF This
  <2>3. batch[1] = stored + 1 - 1 /\ batch[1] <= Len(inbox)
    BY <2>2 DEF PollerOK
  <2>. QED  BY <1>1, <2>2, <2>3 DEF Sent
<1>. QED  BY <1>1, <1>2, <1>3

LEMMA MessageShape ==
  ASSUME TypeOK, PollerOK, NEW p, Named(p), p # None,
         NEW what \in {"text", "image", "unsupported", "control", "error"}
  PROVE  Message(p, what) \in Messages /\ Message(p, what).ids = p
<1>1. Head(p) \in Range(p)
  BY RangeOfSome DEF Named, None
<1>2. Update(Head(p)) \in Updates
  BY <1>1, Basics DEF Named
<1>3. p \in Seq(Ids) \ {<<>>}
  BY DEF Named, None
<1>. QED  BY <1>2, <1>3 DEF Message, Messages, Chat

LEMMA PublishOne ==
  ASSUME TypeOK, PollerOK, NEW p, Named(p), p # None,
         NEW what \in {"text", "image", "unsupported", "control", "error"},
         \/ published' = Append(published, Message(p, what))
         \/ published' = published \o <<Message(p, what)>>
  PROVE  Publishes(Range(p))
<1> DEFINE m == Message(p, what)
<1>1. m \in Messages /\ m.ids = p
  BY MessageShape
<1>2. published \in Seq(Messages)
  BY Basics
<1> HIDE DEF m
<1>3. published \o <<m>> = Append(published, m)
  BY <1>1, <1>2
<1>4. published' = Append(published, m)
  BY <1>3 DEF m
<1>5. /\ published' \in Seq(Messages) /\ Len(published') = Len(published) + 1
      /\ \A k \in 1..Len(published) : published'[k] = published[k]
      /\ published'[Len(published) + 1] = m
  BY <1>1, <1>2, <1>4
<1>. QED  BY <1>1, <1>5 DEF Publishes

LEMMA PublishNone ==
  ASSUME published \in Seq(Messages), published' = published \o <<>> \/ published' = published
  PROVE  Publishes({})
BY DEF Publishes

LEMMA PublishText ==
  ASSUME TypeOK, PollerOK, NEW p, Named(p), published' = published \o Text(p)
  PROVE  Publishes(Range(p))
<1>1. CASE p = None
  <2>1. Text(p) = <<>> /\ Range(p) = {}
    BY <1>1, RangeOfNone DEF Text
  <2>. QED  BY <2>1, Basics, PublishNone
<1>2. CASE p # None
  <2>1. Text(p) = <<Message(p, "text")>>
    BY <1>2 DEF Text
  <2>. QED  BY <1>2, <2>1, PublishOne
<1>. QED  BY <1>1, <1>2

LEMMA PublishPhotos ==
  ASSUME TypeOK, PollerOK, NEW p, Named(p), NEW photos \in Photos(p),
         published' = published \o photos
  PROVE  Publishes(Range(p))
<1>1. CASE p = None
  <2>1. photos = <<>> /\ Range(p) = {}
    BY <1>1, RangeOfNone DEF Photos
  <2>. QED  BY <2>1, Basics, PublishNone
<1>2. CASE p # None
  <2>1. PICK what \in {"image", "unsupported"} : photos = <<Message(p, what)>>
    BY <1>2 DEF Photos
  <2>. QED  BY <1>2, <2>1, PublishOne
<1>. QED  BY <1>1, <1>2

LEMMA NamedOne ==
  ASSUME NEW i \in Ids, i \in Sent
  PROVE  Named(<<i>>) /\ <<i>> # None /\ Range(<<i>>) = {i}
BY DEF Named, None, Range

----------------------------------------------------------------------------
(* What a step does to what has been published, whatever it does otherwise. *)

\* Handled and held are what they were but for what the step says.
LEMMA AccountStep ==
  ASSUME Accounted, published \in Seq(Messages), UNCHANGED inbox,
         NEW R, Publishes(R), lost \subseteq lost',
         \A i \in Sent : HandledNow(i)' =>
            HandledNow(i) \/ Silent(i) \/ i \in R \/ Held(i)' \/ i \in lost',
         \A i \in Sent : Held(i) => Held(i)' \/ i \in R \/ i \in lost' \/ ~ HandledNow(i)'
  PROVE  Accounted'
<1>1. Sent' = Sent
  BY DEF Sent
<1>2. ASSUME NEW i \in Sent, HandledNow(i)'
      PROVE  Silent(i)' \/ Entries(i)' # {} \/ Held(i)' \/ i \in lost'
  <2>1. Silent(i)' <=> Silent(i)
    BY DEF Silent, Kind, Denied, CommandResult, Update
  <2>2. /\ Entries(i) # {} => Entries(i)' # {}
        /\ i \in R => Entries(i)' # {}
    BY EntriesGrow
  <2>3. CASE HandledNow(i)
    <3>1. Silent(i) \/ Entries(i) # {} \/ Held(i) \/ i \in lost
      BY <2>3 DEF Accounted
    <3>. QED  BY <1>2, <2>1, <2>2, <3>1
  <2>4. CASE ~ HandledNow(i)
    BY <1>2, <2>1, <2>2, <2>4
  <2>. QED  BY <2>3, <2>4
<1>. QED  BY <1>1, <1>2 DEF Accounted

\* A step of the piles: the updates in R leave them and are published.
LEMMA PileStep ==
  ASSUME InboundInv, UNCHANGED <<inbox, restarts, cut, lost>>,
         stored' \in Nat, stored <= stored',
         \A i \in Ids : HandledNow(i)' <=> HandledNow(i),
         NEW R, Publishes(R), \A i \in R : Held(i) /\ i \in Sent,
         \A i \in Ids : Held(i)' <=> Held(i) /\ i \notin R,
         \A i, j \in Sent : Before(i, j) /\ j \in R => ~ Held(i)'
  PROVE  PublishedOK' /\ Accounted' /\ \A i \in Ids : Held(i)' => HandledNow(i)'
<1>1. TypeOK /\ PollerOK /\ PilesTimely /\ PublishedOK /\ Accounted
  BY DEF InboundInv
<1>2. Sent \subseteq Ids /\ stored \in Nat /\ published \in Seq(Messages) /\ restarts \in Nat
  BY <1>1, Basics
<1>3. \A i \in Ids : Held(i) => HandledNow(i)
  BY <1>1 DEF PilesTimely
<1>4. \A i \in R : HandledNow(i) /\ i \in Ids
  BY <1>2, <1>3
<1>5. \A i \in R : Pending(i) /\ ~ Pending(i)' /\ i \in Sent /\ i <= stored'
  <2>1. \A i \in R : i <= stored
    BY <1>2, <1>4 DEF HandledNow, Ids
  <2>. QED  BY <1>2, <1>4, <2>1 DEF Pending, Ids
<1>6. \A i \in Ids : Pending(i)' => Pending(i)
  BY DEF Pending
<1>7. ASSUME NEW i \in Sent, NEW j \in Sent, Before(i, j), j \in R PROVE ~ Pending(i)'
  <2>1. i < j /\ i \in Ids /\ j \in Ids
    BY <1>2, <1>7 DEF Before
  <2>2. HandledNow(j)
    BY <1>4, <1>7
  <2>3. HandledNow(i)
    BY <1>2, <2>1, <2>2 DEF HandledNow, Ids
  <2>. QED  BY <1>7, <2>1, <2>3 DEF Pending
<1>8. PublishedOK'
  BY <1>1, <1>2, <1>4, <1>5, <1>6, <1>7, PublishStep
<1>9. Accounted'
  BY <1>1, <1>2, AccountStep
<1>. QED  BY <1>3, <1>8, <1>9

\* A step that leaves what is published, held and handled alone.
LEMMA QuietStep ==
  ASSUME InboundInv, UNCHANGED <<inbox, restarts, cut, lost, published, stored>>,
         \A i \in Ids : HandledNow(i)' <=> HandledNow(i),
         \A i \in Ids : Held(i)' <=> Held(i)
  PROVE  PublishedOK' /\ Accounted' /\ \A i \in Ids : Held(i)' => HandledNow(i)'
<1>1. stored \in Nat /\ published \in Seq(Messages)
  BY Basics DEF InboundInv
<1>2. Publishes({})
  BY <1>1, PublishNone
<1>. QED  BY <1>1, <1>2, PileStep

\* The handling of an update ends; it is published (R), put into a pile (N), or neither.
LEMMA DoneStep ==
  ASSUME InboundInv, UNCHANGED <<inbox, restarts, cut, stored, batch>>, lost \subseteq lost',
         batch # <<>>, step # "done", step' = "done",
         NEW R \in {{}, {stored}}, NEW N \in {{}, {stored}}, Publishes(R), R = {} \/ N = {},
         \A i \in Ids : Held(i)' <=> Held(i) \/ i \in N,
         R # {} => burst[Chat(stored)] = None,
         Silent(stored) \/ R # {} \/ N # {} \/ stored \in lost'
  PROVE  PublishedOK' /\ Accounted' /\ \A i \in Ids : Held(i)' => HandledNow(i)'
<1>1. TypeOK /\ PollerOK /\ PilesTimely /\ PilesOK /\ PublishedOK /\ Accounted
  BY DEF InboundInv
<1>2. /\ Sent \subseteq Ids /\ stored \in Nat /\ published \in Seq(Messages) /\ restarts \in Nat
      /\ stored \in Sent /\ stored \in Ids
  BY <1>1, Basics
<1>3. \A i \in Ids : Held(i) => HandledNow(i)
  BY <1>1 DEF PilesTimely
<1>4. /\ \A i \in Ids : HandledNow(i) <=> i < stored
      /\ \A i \in Ids : HandledNow(i)' <=> i < stored \/ i = stored
  BY DEF HandledNow
<1>5. ~ Held(stored) /\ ~ HandledNow(stored) /\ HandledNow(stored)'
  BY <1>2, <1>3, <1>4
<1>6. \A i \in R : Pending(i) /\ ~ Pending(i)' /\ i \in Sent /\ i <= stored'
  BY <1>2, <1>5 DEF Pending
<1>7. \A i \in Ids : Pending(i)' => Pending(i)
  BY <1>4, <1>5 DEF Pending
<1>8. ASSUME NEW i \in Sent, NEW j \in Sent, Before(i, j), j \in R PROVE ~ Pending(i)'
  <2>1. j = stored /\ R # {} /\ N = {} /\ i < stored /\ Chat(i) = Chat(stored) /\ Kind(i) # "album"
    BY <1>8 DEF Before
  <2>2. HandledNow(i)' /\ i \in Ids
    BY <1>2, <1>4, <2>1
  <2>3. ~ Held(i)
    <3>1. SUFFICES ASSUME Held(i) PROVE FALSE
      OBVIOUS
    <3>2. PICK c \in Chats : i \in Range(burst[c])
      BY <1>1, <2>1, <3>1 DEF Held, HeldIn, PilesOK, PilesGood, PilesSorted, IsAlbum
    <3>3. Chat(i) = c
      BY <1>1, <3>2 DEF PilesOK, PilesGood, PilesSorted
    <3>4. burst[c] = None
      BY <2>1, <3>3
    <3>. QED  BY <3>2, <3>4, RangeOfNone
  <2>. QED  BY <2>1, <2>2, <2>3 DEF Pending
<1>9. PublishedOK'
  BY <1>1, <1>2, <1>6, <1>7, <1>8, PublishStep
<1>10. Accounted'
  <2>1. \A i \in Sent : HandledNow(i)' =>
            HandledNow(i) \/ Silent(i) \/ i \in R \/ Held(i)' \/ i \in lost'
    BY <1>2, <1>4
  <2>2. \A i \in Sent : Held(i) => Held(i)'
    BY <1>2
  <2>. QED  BY <1>1, <1>2, <2>1, <2>2, AccountStep
<1>11. \A i \in Ids : Held(i)' => HandledNow(i)'
  BY <1>3, <1>4, <1>5
<1>. QED  BY <1>9, <1>10, <1>11

\* The end of the process: what it held is gone, and what it was handling is cut.
LEMMA RestartStep ==
  ASSUME InboundInv, UNCHANGED <<inbox, published, stored>>, restarts' = restarts + 1,
         cut \subseteq cut', batch # <<>> => stored \in cut',
         \A i \in Ids : HandledNow(i)' <=> i < stored,
         \A i \in Ids : ~ Held(i)',
         lost \subseteq lost', \A i \in Sent : Held(i) /\ i < stored => i \in lost'
  PROVE  PublishedOK' /\ Accounted' /\ \A i \in Ids : Held(i)' => HandledNow(i)'
<1>1. TypeOK /\ PollerOK /\ PublishedOK /\ Accounted
  BY DEF InboundInv
<1>2. /\ Sent \subseteq Ids /\ stored \in Nat /\ published \in Seq(Messages) /\ restarts \in Nat
      /\ batch # <<>> => stored \in Sent
  BY <1>1, Basics
<1>3. /\ \A i, j : Before(i, j)' <=> Before(i, j)
      /\ \A i : Entries(i)' = Entries(i)
      /\ \A i : First(i)' = First(i)
      /\ Sent' = Sent /\ Ids \subseteq Nat
  BY DEF Before, Chat, Kind, Update, Entries, First, Sent, Ids
<1>4. \A i \in Ids : Pending(i)' <=> ~ (i < stored)
  BY DEF Pending
<1>5. \A i \in Ids : Entries(i) # {} => i <= stored /\ i \in Sent
  BY <1>1 DEF PublishedOK
<1>6. ASSUME NEW i \in Ids PROVE Counted(i)'
  <2>1. Counted(i) /\ Cardinality(Entries(i)) \in Nat /\ (Cardinality(Entries(i)) = 0 <=> Entries(i) = {})
    BY <1>1, <1>2, EntriesFinite DEF PublishedOK
  <2>2. CASE i < stored \/ Entries(i) = {}
    BY <1>2, <1>3, <1>4, <2>1, <2>2 DEF Counted
  <2>3. CASE ~ (i < stored) /\ Entries(i) # {}
    <3>1. i = stored
      BY <1>2, <1>3, <1>5, <2>3
    <3>2. i \in cut'
      <4>1. CASE batch # <<>>
        BY <3>1, <4>1
      <4>2. CASE batch = <<>>
        <5>1. Pending(i)
          BY <1>2, <3>1, <4>2 DEF Pending, HandledNow
        <5>. QED  BY <2>1, <2>3, <5>1 DEF Counted
      <4>. QED  BY <4>1, <4>2
    <3>3. Cardinality(Entries(i)) <= 1 + restarts
      BY <2>1 DEF Counted
    <3>. QED  BY <1>2, <1>3, <2>1, <3>2, <3>3 DEF Counted
  <2>. QED  BY <2>2, <2>3
<1>7. NotOvertaken'
  <2>. SUFFICES ASSUME NEW i \in Sent, NEW j \in Sent, Before(i, j), Pending(i)', Entries(j) # {}
                PROVE  FALSE
    BY <1>3 DEF NotOvertaken
  <2>1. ~ (i < stored) /\ j <= stored /\ i < j /\ i \in Nat /\ j \in Nat
    BY <1>2, <1>3, <1>4, <1>5 DEF Before
  <2>. QED  BY <1>2, <2>1
<1>8. InOrder'
  <2>1. InOrder
    BY <1>1 DEF PublishedOK
  <2>. QED  BY <1>3, <2>1 DEF InOrder, Chat, Kind, Update
<1>9. PublishedOK'
  BY <1>3, <1>5, <1>6, <1>7, <1>8 DEF PublishedOK
<1>10. Accounted'
  <2>1. Publishes({})
    BY <1>2, PublishNone
  <2>2. \A i \in Sent : HandledNow(i)' => HandledNow(i)
    BY <1>2 DEF HandledNow
  <2>3. \A i \in Sent : Held(i) => i \in lost' \/ ~ HandledNow(i)'
    BY <1>2
  <2>. QED  BY <1>1, <1>2, <2>1, <2>2, <2>3, AccountStep
<1>. QED  BY <1>9, <1>10

\* A user sends: nothing is known of the new update yet.
LEMMA SendStep ==
  ASSUME InboundInv, UserSends
  PROVE  InboundInv'
<1>1. TypeOK /\ PollerOK /\ StepOK /\ PilesOK /\ PilesTimely /\ PublishedOK /\ Accounted
  BY DEF InboundInv
<1>2. /\ inbox \in Seq(Updates) /\ Len(inbox) \in Nat /\ Sent \subseteq Ids /\ stored \in Nat
      /\ stored <= Len(inbox) + 1 /\ published \in Seq(Messages)
      /\ batch # <<>> => This = stored /\ stored \in Sent
  BY <1>1, Basics
<1>3. PICK u \in Updates : inbox' = Append(inbox, u)
  BY DEF UserSends
<1>4. /\ UNCHANGED <<stored, published, surface, subscribed, running, loop, offset, failures, batch,
                     step, burst, album, fetching, downloads, unflushed, restarts, cut, lost>>
      /\ Len(inbox) < MaxUpdates
  BY DEF UserSends, files, poller, pending, history
<1>5. /\ inbox' \in Seq(Updates) /\ Len(inbox') = Len(inbox) + 1 /\ Len(inbox') <= MaxUpdates
      /\ \A i \in Sent : inbox'[i] = inbox[i]
  BY <1>2, <1>3, <1>4, BoundsAssumption DEF Sent
<1>6. /\ Sent' = Sent \cup {Len(inbox) + 1} /\ Sent \subseteq Sent'
      /\ \A i \in Sent : i < Len(inbox) + 1
  BY <1>2, <1>5 DEF Sent
<1>7. \A i \in Sent : Update(i)' = Update(i) /\ Chat(i)' = Chat(i) /\ Kind(i)' = Kind(i)
  BY <1>5 DEF Update, Chat, Kind
<1>8. /\ \A i : Entries(i)' = Entries(i)
      /\ \A i : First(i)' = First(i)
      /\ \A i : Held(i)' = Held(i)
      /\ \A i : HandledNow(i)' = HandledNow(i)
      /\ \A i : Pending(i)' = Pending(i)
  BY <1>4 DEF Entries, First, Held, HeldIn, HandledNow, Pending
<1>9. TypeOK'
  BY <1>1, <1>4, <1>5 DEF TypeOK
<1>10. PollerOK'
  <2>1. \A k \in 1..Len(batch) : batch[k] = stored + k - 1 /\ batch[k] <= Len(inbox) + 1
    <3>1. \A k \in 1..Len(batch) : batch[k] \in Nat
      <4>1. batch \in Seq(Ids) /\ Ids \subseteq Nat
        BY <1>1 DEF TypeOK, Ids
      <4>2. ASSUME NEW k \in 1..Len(batch) PROVE batch[k] \in Nat
        <5>1. batch[k] \in Ids
          BY <4>1
        <5>. QED  BY <4>1, <5>1
      <4>. QED  BY <4>2
    <3>. QED  BY <1>1, <1>2, <3>1 DEF PollerOK
  <2>2. \A i : Update(i).from \in {v.from : v \in Updates} => TRUE
    OBVIOUS
  <2>. QED  BY <1>1, <1>2, <1>4, <1>5, <2>1 DEF PollerOK, Messages
<1>11. StepOK'
  <2>1. CASE batch = <<>>
    BY <1>4, <2>1 DEF StepOK
  <2>2. CASE batch # <<>>
    <3>1. stored \in Sent
      BY <1>2, <2>2
    <3>2. Update(stored)' = Update(stored) /\ Chat(stored)' = Chat(stored) /\ Kind(stored)' = Kind(stored)
      BY <1>4, <1>7, <3>1 DEF Update, Chat, Kind
    <3>3. (Denied(Update(stored)))' = Denied(Update(stored))
      BY <3>2 DEF Denied
    <3>4. (CommandResult(Update(stored)))' = CommandResult(Update(stored))
      BY <3>2 DEF CommandResult
    <3>. QED  BY <1>1, <1>4, <3>2, <3>3, <3>4 DEF StepOK
  <2>. QED  BY <2>1, <2>2
<1>12. PilesOK'
  <2>1. PilesTyped(burst, album, fetching, downloads) /\ PilesSorted(burst, album, fetching, downloads)
        /\ TextNewer(burst, album, fetching, downloads)
    BY <1>1 DEF PilesOK, PilesGood
  <2>2. (PilesTyped(burst, album, fetching, downloads))'
    BY <1>4, <2>1 DEF PilesTyped
  <2>3. /\ \A c \in Chats : \A i \in Range(burst[c]) : i \in Sent /\ Kind(i) = "text" /\ Chat(i) = c
        /\ \A c \in Chats : \A i \in Range(album[c]) : i \in Sent /\ Kind(i) = "album" /\ Chat(i) = c
        /\ \A i \in Range(fetching) : i \in Sent /\ Kind(i) = "album"
        /\ \A d \in downloads : \A i \in Range(d) : i \in Sent /\ Kind(i) = "album"
    BY <2>1 DEF PilesSorted, IsAlbum
  <2>4. (PilesSorted(burst, album, fetching, downloads))'
    BY <1>4, <1>6, <1>7, <2>1, <2>3 DEF PilesSorted, IsAlbum, Apart
  <2>5. (TextNewer(burst, album, fetching, downloads))'
    BY <1>4, <1>7, <2>1, <2>3 DEF TextNewer
  <2>. QED  BY <2>2, <2>4, <2>5 DEF PilesOK, PilesGood
<1>13. PilesTimely'
  BY <1>1, <1>4, <1>8 DEF PilesTimely
<1>14. \A i \in Ids : Entries(i) # {} => i <= stored /\ i \in Sent
  BY <1>1 DEF PublishedOK
<1>15. ASSUME NEW i \in Sent', NEW j \in Sent', Before(i, j)', Entries(j) # {}
       PROVE  i \in Sent /\ j \in Sent /\ Before(i, j)
  <2>0. Sent' \subseteq Ids
    BY <1>2, <1>5, BoundsAssumption DEF Sent, Ids
  <2>1. j \in Sent
    BY <1>14, <1>15, <2>0
  <2>2. i < j
    BY <1>15 DEF Before
  <2>3. i \in Sent
    BY <1>2, <1>6, <1>15, <2>1, <2>2 DEF Sent
  <2>. QED  BY <1>7, <1>15, <2>1, <2>3 DEF Before
<1>16. PublishedOK'
  <2>1. NotOvertaken'
    <3>. SUFFICES ASSUME NEW i \in Sent', NEW j \in Sent', Before(i, j)', Pending(i)', Entries(j)' # {}
                  PROVE  Entries(i)' # {}
      BY DEF NotOvertaken
    <3>. QED  BY <1>1, <1>8, <1>15 DEF PublishedOK, NotOvertaken
  <2>2. InOrder'
    <3>. SUFFICES ASSUME NEW i \in Sent', NEW j \in Sent', Before(i, j)', Entries(i)' # {}, Entries(j)' # {}
                  PROVE  First(i)' <= First(j)'
      BY DEF InOrder, Before, Sent
    <3>. QED  BY <1>1, <1>8, <1>15, OrderIs DEF PublishedOK
  <2>3. \A i \in Ids : Counted(i)'
    BY <1>1, <1>4, <1>8 DEF PublishedOK, Counted
  <2>. QED  BY <1>4, <1>6, <1>8, <1>14, <2>1, <2>2, <2>3 DEF PublishedOK
<1>17. Accounted'
  <2>. SUFFICES ASSUME NEW i \in Sent', HandledNow(i)'
                PROVE  Silent(i)' \/ Entries(i)' # {} \/ Held(i)' \/ (i \in lost)'
    BY DEF Accounted
  <2>1. i \in Sent
    <3>1. HandledNow(i)
      BY <1>8
    <3>2. i <= Len(inbox)
      BY <1>2, <1>6, <3>1 DEF HandledNow, Sent
    <3>. QED  BY <1>2, <1>6, <3>2
  <2>2. Silent(i) => Silent(i)'
    BY <1>7, <2>1 DEF Silent, Denied, CommandResult
  <2>. QED  BY <1>1, <1>4, <1>8, <2>1, <2>2 DEF Accounted
<1>. QED  BY <1>9, <1>10, <1>11, <1>12, <1>13, <1>16, <1>17 DEF InboundInv

----------------------------------------------------------------------------
(* What is done with piles: a pile goes, changes its place, or gets an update. *)

LEMMA PilesCarry ==
  ASSUME inbox' = inbox, PilesGood(burst', album', fetching', downloads')
  PROVE  PilesOK'
BY DEF PilesOK, PilesGood, PilesTyped, PilesSorted, TextNewer, IsAlbum, Apart, Sent, Kind, Chat, Update

\* The texts of a chat are the oldest of it that wait.
LEMMA BurstGoes ==
  ASSUME NEW B, NEW A, NEW F, NEW D, PilesGood(B, A, F, D), NEW c \in Chats
  PROVE  LET B1 == [B EXCEPT ![c] = None] IN
         /\ PilesGood(B1, A, F, D) /\ B1[c] = None
         /\ Named(B[c]) /\ \A i \in Range(B[c]) : HeldIn(B, A, F, D, i)
         /\ \A i : HeldIn(B1, A, F, D, i) <=> HeldIn(B, A, F, D, i) /\ i \notin Range(B[c])
         /\ \A i, j \in Sent : Before(i, j) /\ j \in Range(B[c]) => ~ HeldIn(B1, A, F, D, i)
<1> DEFINE B1 == [B EXCEPT ![c] = None]
<1>1. PilesTyped(B, A, F, D) /\ PilesSorted(B, A, F, D) /\ TextNewer(B, A, F, D)
  BY DEF PilesGood
<1>2. /\ B \in [Chats -> Seq(Ids)] /\ B1 \in [Chats -> Seq(Ids)] /\ B1[c] = None
      /\ \A b \in Chats : b # c => B1[b] = B[b]
  BY <1>1 DEF PilesTyped, None
<1>3. /\ \A b \in Chats : \A i \in Range(B[b]) : i \in Sent /\ Kind(i) = "text" /\ Chat(i) = b
      /\ \A b \in Chats : \A i \in Range(A[b]) : Kind(i) = "album"
      /\ \A i \in Range(F) : Kind(i) = "album"
      /\ \A d \in D : \A i \in Range(d) : Kind(i) = "album"
  BY <1>1 DEF PilesSorted, IsAlbum
<1> HIDE DEF B1
<1>4. \A b \in Chats : \A i \in Range(B1[b]) : i \in Range(B[b]) /\ b # c
  BY <1>2, RangeOfNone
<1>5. PilesGood(B1, A, F, D)
  <2>1. PilesTyped(B1, A, F, D)
    BY <1>1, <1>2 DEF PilesTyped
  <2>2. PilesSorted(B1, A, F, D)
    BY <1>1, <1>4 DEF PilesSorted
  <2>3. TextNewer(B1, A, F, D)
    BY <1>1, <1>2 DEF TextNewer
  <2>. QED  BY <2>1, <2>2, <2>3 DEF PilesGood
<1>6. Named(B[c]) /\ \A i \in Range(B[c]) : HeldIn(B, A, F, D, i)
  BY <1>2, <1>3 DEF Named, HeldIn
<1>7. ASSUME NEW i
      PROVE  HeldIn(B1, A, F, D, i) <=> HeldIn(B, A, F, D, i) /\ i \notin Range(B[c])
  <2>1. i \in Range(B[c]) => ~ HeldIn(B1, A, F, D, i)
    <3>. SUFFICES ASSUME i \in Range(B[c]) PROVE ~ HeldIn(B1, A, F, D, i)
      OBVIOUS
    <3>1. Kind(i) = "text" /\ Chat(i) = c
      BY <1>3
    <3>2. \A b \in Chats : i \notin Range(B1[b])
      BY <1>3, <1>4, <3>1
    <3>. QED  BY <1>3, <3>1, <3>2 DEF HeldIn
  <2>2. HeldIn(B1, A, F, D, i) => HeldIn(B, A, F, D, i)
    BY <1>4 DEF HeldIn
  <2>3. HeldIn(B, A, F, D, i) /\ i \notin Range(B[c]) => HeldIn(B1, A, F, D, i)
    BY <1>2 DEF HeldIn
  <2>. QED  BY <2>1, <2>2, <2>3
<1>8. ASSUME NEW i \in Sent, NEW j \in Sent, Before(i, j), j \in Range(B[c])
      PROVE  ~ HeldIn(B1, A, F, D, i)
  <2>1. Chat(i) = c /\ Kind(i) # "album"
    BY <1>3, <1>8 DEF Before
  <2>2. \A b \in Chats : i \notin Range(B1[b])
    BY <1>3, <1>4, <2>1
  <2>. QED  BY <1>3, <2>1, <2>2 DEF HeldIn
<1>. QED  BY <1>2, <1>5, <1>6, <1>7, <1>8 DEF B1

\* The album being fetched is published; what waits of its chat is newer.
LEMMA FetchingGoes ==
  ASSUME NEW B, NEW A, NEW F, NEW D, PilesGood(B, A, F, D)
  PROVE  /\ PilesGood(B, A, None, D)
         /\ Named(F) /\ \A i \in Range(F) : HeldIn(B, A, F, D, i)
         /\ \A i : HeldIn(B, A, None, D, i) <=> HeldIn(B, A, F, D, i) /\ i \notin Range(F)
         /\ \A i, j \in Sent : Before(i, j) /\ j \in Range(F) => ~ HeldIn(B, A, None, D, i)
<1>1. PilesTyped(B, A, F, D) /\ PilesSorted(B, A, F, D) /\ TextNewer(B, A, F, D)
  BY DEF PilesGood
<1>2. Range(None) = {}
  BY RangeOfNone
<1>3. PilesGood(B, A, None, D)
  <2>1. PilesTyped(B, A, None, D)
    BY <1>1 DEF PilesTyped, None
  <2>2. PilesSorted(B, A, None, D)
    BY <1>1, <1>2 DEF PilesSorted, IsAlbum, Apart
  <2>3. TextNewer(B, A, None, D)
    BY <1>1, <1>2 DEF TextNewer
  <2>. QED  BY <2>1, <2>2, <2>3 DEF PilesGood
<1>4. Named(F) /\ \A i \in Range(F) : HeldIn(B, A, F, D, i)
  BY <1>1 DEF PilesTyped, PilesSorted, IsAlbum, Named, HeldIn
<1>5. ASSUME NEW i \in Range(F) PROVE ~ HeldIn(B, A, None, D, i)
  <2>1. Kind(i) = "album"
    BY <1>1 DEF PilesSorted, IsAlbum
  <2>2. \A c \in Chats : i \notin Range(B[c]) /\ i \notin Range(A[c])
    BY <1>1, <2>1 DEF PilesSorted, Apart
  <2>3. \A d \in D : i \notin Range(d)
    BY <1>1 DEF PilesSorted, Apart
  <2>. QED  BY <1>2, <2>2, <2>3 DEF HeldIn
<1>6. \A i : HeldIn(B, A, None, D, i) <=> HeldIn(B, A, F, D, i) /\ i \notin Range(F)
  BY <1>2, <1>5 DEF HeldIn
<1>7. ASSUME NEW i \in Sent, NEW j \in Sent, Before(i, j), j \in Range(F)
      PROVE  ~ HeldIn(B, A, None, D, i)
  <2>1. \A c \in Chats : i \notin Range(A[c])
    BY <1>1, <1>7 DEF PilesSorted, IsAlbum, Before
  <2>2. \A d \in D : i \notin Range(d)
    BY <1>1, <1>7 DEF PilesSorted, IsAlbum, Before
  <2>3. ASSUME NEW c \in Chats, i \in Range(B[c]) PROVE FALSE
    <3>1. B[c] # None /\ Chat(i) = c
      BY <1>1, <2>3, RangeOfNone DEF PilesSorted
    <3>2. j < i /\ i < j
      BY <1>1, <1>7, <2>3, <3>1 DEF TextNewer, Before
    <3>3. i \in Nat /\ j \in Nat
      BY DEF Sent
    <3>. QED  BY <3>2, <3>3
  <2>. QED  BY <1>2, <2>1, <2>2, <2>3 DEF HeldIn
<1>. QED  BY <1>3, <1>4, <1>6, <1>7

LEMMA DownloadGoes ==
  ASSUME NEW B, NEW A, NEW F, NEW D, PilesGood(B, A, F, D), NEW d \in D
  PROVE  /\ PilesGood(B, A, F, D \ {d})
         /\ Named(d) /\ \A i \in Range(d) : HeldIn(B, A, F, D, i)
         /\ \A i : HeldIn(B, A, F, D \ {d}, i) <=> HeldIn(B, A, F, D, i) /\ i \notin Range(d)
         /\ \A i, j \in Sent : Before(i, j) /\ j \in Range(d) => ~ HeldIn(B, A, F, D \ {d}, i)
<1>1. PilesTyped(B, A, F, D) /\ PilesSorted(B, A, F, D) /\ TextNewer(B, A, F, D)
  BY DEF PilesGood
<1>2. PilesGood(B, A, F, D \ {d})
  <2>1. PilesTyped(B, A, F, D \ {d})
    BY <1>1 DEF PilesTyped
  <2>2. PilesSorted(B, A, F, D \ {d})
    BY <1>1 DEF PilesSorted
  <2>3. TextNewer(B, A, F, D \ {d})
    BY <1>1 DEF TextNewer
  <2>. QED  BY <2>1, <2>2, <2>3 DEF PilesGood
<1>3. Named(d) /\ \A i \in Range(d) : HeldIn(B, A, F, D, i)
  BY <1>1 DEF PilesTyped, PilesSorted, IsAlbum, Named, HeldIn
<1>4. ASSUME NEW i \in Range(d) PROVE ~ HeldIn(B, A, F, D \ {d}, i)
  <2>1. Kind(i) = "album"
    BY <1>1 DEF PilesSorted, IsAlbum
  <2>2. \A c \in Chats : i \notin Range(B[c]) /\ i \notin Range(A[c])
    BY <1>1, <2>1 DEF PilesSorted, Apart
  <2>3. i \notin Range(F) /\ \A e \in D \ {d} : i \notin Range(e)
    BY <1>1 DEF PilesSorted, Apart
  <2>. QED  BY <2>2, <2>3 DEF HeldIn
<1>5. \A i : HeldIn(B, A, F, D \ {d}, i) <=> HeldIn(B, A, F, D, i) /\ i \notin Range(d)
  BY <1>4 DEF HeldIn
<1>6. ASSUME NEW i \in Sent, NEW j \in Sent, Before(i, j), j \in Range(d)
      PROVE  ~ HeldIn(B, A, F, D \ {d}, i)
  <2>1. \A c \in Chats : i \notin Range(A[c])
    BY <1>1, <1>6 DEF PilesSorted, IsAlbum, Before
  <2>2. i \notin Range(F) /\ \A e \in D : i \notin Range(e)
    BY <1>1, <1>6 DEF PilesSorted, IsAlbum, Before
  <2>3. ASSUME NEW c \in Chats, i \in Range(B[c]) PROVE FALSE
    <3>1. B[c] # None /\ Chat(i) = c
      BY <1>1, <2>3, RangeOfNone DEF PilesSorted
    <3>2. j < i /\ i < j
      BY <1>1, <1>6, <2>3, <3>1 DEF TextNewer, Before
    <3>3. i \in Nat /\ j \in Nat
      BY DEF Sent
    <3>. QED  BY <3>2, <3>3
  <2>. QED  BY <2>1, <2>2, <2>3 DEF HeldIn
<1>. QED  BY <1>2, <1>3, <1>5, <1>6

\* An album leaves its map to be fetched, or to be downloaded.
LEMMA AlbumTaken ==
  ASSUME NEW B, NEW A, NEW D, PilesGood(B, A, None, D), NEW c \in Chats
  PROVE  LET A1 == [A EXCEPT ![c] = None] IN
         /\ PilesGood(B, A1, A[c], D) /\ A1[c] = None
         /\ \A i : HeldIn(B, A1, A[c], D, i) <=> HeldIn(B, A, None, D, i)
<1> DEFINE A1 == [A EXCEPT ![c] = None]
<1>1. PilesTyped(B, A, None, D) /\ PilesSorted(B, A, None, D) /\ TextNewer(B, A, None, D)
  BY DEF PilesGood
<1>2. /\ A \in [Chats -> Seq(Ids)] /\ A1 \in [Chats -> Seq(Ids)] /\ A1[c] = None
      /\ \A b \in Chats : b # c => A1[b] = A[b]
  BY <1>1 DEF PilesTyped, None
<1> HIDE DEF A1
<1>3. Range(None) = {} /\ Range(A1[c]) = {}
  BY <1>2, RangeOfNone
<1>4. /\ \A b \in Chats : IsAlbum(A[b]) /\ \A i \in Range(A[b]) : Chat(i) = b
      /\ \A b \in Chats : \A d \in D : Apart(A[b], d)
  BY <1>1 DEF PilesSorted
<1>5. \A b \in Chats : IsAlbum(A1[b]) /\ \A i \in Range(A1[b]) : i \in Range(A[b]) /\ b # c
  BY <1>2, <1>3, <1>4 DEF IsAlbum
<1>6. PilesTyped(B, A1, A[c], D)
  BY <1>1, <1>2 DEF PilesTyped
<1>7. PilesSorted(B, A1, A[c], D)
  <2>1. \A b \in Chats : Apart(A1[b], A[c]) /\ \A d \in D : Apart(A1[b], d)
    <3>. SUFFICES ASSUME NEW b \in Chats PROVE Apart(A1[b], A[c]) /\ \A d \in D : Apart(A1[b], d)
      OBVIOUS
    <3>1. Apart(A1[b], A[c])
      BY <1>4, <1>5 DEF Apart
    <3>2. \A d \in D : Apart(A1[b], d)
      BY <1>4, <1>5 DEF Apart
    <3>. QED  BY <3>1, <3>2
  <2>2. \A b \in Chats : \A i \in Range(A1[b]) : Chat(i) = b
    BY <1>4, <1>5
  <2>. QED  BY <1>1, <1>4, <1>5, <2>1, <2>2 DEF PilesSorted
<1>8. TextNewer(B, A1, A[c], D)
  <2>. SUFFICES ASSUME NEW b \in Chats, B[b] # None
                PROVE  /\ A1[b] = None
                       /\ \A i \in Range(B[b]) :
                            /\ \A j \in Range(A[c]) : Chat(j) = b => j < i
                            /\ \A d \in D : \A j \in Range(d) : Chat(j) = b => j < i
    BY DEF TextNewer
  <2>1. A[b] = None /\ \A i \in Range(B[b]) : \A d \in D : \A j \in Range(d) : Chat(j) = b => j < i
    BY <1>1 DEF TextNewer
  <2>2. \A j \in Range(A[c]) : Chat(j) # b
    BY <1>3, <1>4, <2>1
  <2>. QED  BY <1>2, <2>1, <2>2
<1>9. \A i : HeldIn(B, A1, A[c], D, i) <=> HeldIn(B, A, None, D, i)
  <2>1. ASSUME NEW i, HeldIn(B, A1, A[c], D, i) PROVE HeldIn(B, A, None, D, i)
    BY <1>5, <2>1 DEF HeldIn
  <2>2. ASSUME NEW i, HeldIn(B, A, None, D, i) PROVE HeldIn(B, A1, A[c], D, i)
    BY <1>2, <1>3, <2>2 DEF HeldIn
  <2>. QED  BY <2>1, <2>2
<1>. QED  BY <1>2, <1>6, <1>7, <1>8, <1>9 DEF A1, PilesGood

LEMMA AlbumDownloaded ==
  ASSUME NEW B, NEW A, NEW F, NEW D, PilesGood(B, A, F, D), NEW c \in Chats, A[c] # None
  PROVE  LET A1 == [A EXCEPT ![c] = None] IN
         /\ PilesGood(B, A1, F, D \cup {A[c]})
         /\ \A i : HeldIn(B, A1, F, D \cup {A[c]}, i) <=> HeldIn(B, A, F, D, i)
<1> DEFINE A1 == [A EXCEPT ![c] = None]
           D1 == D \cup {A[c]}
<1>1. PilesTyped(B, A, F, D) /\ PilesSorted(B, A, F, D) /\ TextNewer(B, A, F, D)
  BY DEF PilesGood
<1>2. /\ A \in [Chats -> Seq(Ids)] /\ A1 \in [Chats -> Seq(Ids)] /\ A1[c] = None
      /\ \A b \in Chats : b # c => A1[b] = A[b]
  BY <1>1 DEF PilesTyped, None
<1> HIDE DEF A1
<1>3. Range(A1[c]) = {}
  BY <1>2, RangeOfNone
<1>4. /\ \A b \in Chats : IsAlbum(A[b]) /\ \A i \in Range(A[b]) : Chat(i) = b
      /\ \A b \in Chats : Apart(A[b], F) /\ \A d \in D : Apart(A[b], d)
  BY <1>1 DEF PilesSorted
<1>5. \A b \in Chats : IsAlbum(A1[b]) /\ \A i \in Range(A1[b]) : i \in Range(A[b]) /\ b # c
  BY <1>2, <1>3, <1>4 DEF IsAlbum
<1>6. PilesTyped(B, A1, F, D1)
  BY <1>1, <1>2 DEF PilesTyped, None
<1>7. PilesSorted(B, A1, F, D1)
  <2>1. ASSUME NEW b \in Chats PROVE Apart(A1[b], F) /\ \A d \in D1 : Apart(A1[b], d)
    <3>1. Apart(A1[b], A[c]) /\ Apart(A1[b], F)
      BY <1>4, <1>5 DEF Apart
    <3>2. \A d \in D : Apart(A1[b], d)
      BY <1>4, <1>5 DEF Apart
    <3>. QED  BY <3>1, <3>2
  <2>2. \A b \in Chats : \A i \in Range(A1[b]) : Chat(i) = b
    BY <1>4, <1>5
  <2>3. \A d \in D1 : IsAlbum(d) /\ Apart(F, d)
    BY <1>1, <1>4 DEF PilesSorted, Apart
  <2>4. \A d, e \in D1 : d # e => Apart(d, e)
    BY <1>1, <1>4 DEF PilesSorted, Apart
  <2>. QED  BY <1>1, <1>5, <2>1, <2>2, <2>3, <2>4 DEF PilesSorted
<1>8. TextNewer(B, A1, F, D1)
  <2>. SUFFICES ASSUME NEW b \in Chats, B[b] # None
                PROVE  /\ A1[b] = None
                       /\ \A i \in Range(B[b]) :
                            /\ \A j \in Range(F) : Chat(j) = b => j < i
                            /\ \A d \in D1 : \A j \in Range(d) : Chat(j) = b => j < i
    BY DEF TextNewer
  <2>1. /\ A[b] = None
        /\ \A i \in Range(B[b]) : /\ \A j \in Range(F) : Chat(j) = b => j < i
                                  /\ \A d \in D : \A j \in Range(d) : Chat(j) = b => j < i
    BY <1>1 DEF TextNewer
  <2>2. \A j \in Range(A[c]) : Chat(j) # b
    BY <1>4, <2>1
  <2>. QED  BY <1>2, <2>1, <2>2
<1>9. \A i : HeldIn(B, A1, F, D1, i) <=> HeldIn(B, A, F, D, i)
  <2>1. ASSUME NEW i, HeldIn(B, A1, F, D1, i) PROVE HeldIn(B, A, F, D, i)
    BY <1>5, <2>1 DEF HeldIn
  <2>2. ASSUME NEW i, HeldIn(B, A, F, D, i) PROVE HeldIn(B, A1, F, D1, i)
    BY <1>2, <2>2 DEF HeldIn
  <2>. QED  BY <2>1, <2>2
<1>. QED  BY <1>6, <1>7, <1>8, <1>9 DEF A1, D1, PilesGood

\* The update that is handled joins the pile of its chat; all that waits is older.
LEMMA TextBuffered ==
  ASSUME NEW B, NEW A, NEW F, NEW D, PilesGood(B, A, F, D), NEW x \in Ids, x \in Sent,
         Kind(x) = "text", Chat(x) \in Chats, A[Chat(x)] = None, Sent \subseteq Ids,
         \A i \in Ids : HeldIn(B, A, F, D, i) => i < x
  PROVE  LET B1 == [B EXCEPT ![Chat(x)] = Append(@, x)] IN
         /\ PilesGood(B1, A, F, D)
         /\ \A i : HeldIn(B1, A, F, D, i) <=> HeldIn(B, A, F, D, i) \/ i = x
<1> DEFINE c == Chat(x)
           B1 == [B EXCEPT ![c] = Append(@, x)]
<1>1. PilesTyped(B, A, F, D) /\ PilesSorted(B, A, F, D) /\ TextNewer(B, A, F, D)
  BY DEF PilesGood
<1>2. B \in [Chats -> Seq(Ids)] /\ B[c] \in Seq(Ids)
  BY <1>1 DEF PilesTyped
<1>3. Append(B[c], x) \in Seq(Ids) /\ Range(Append(B[c], x)) = Range(B[c]) \cup {x}
  BY <1>2, RangeOfAppend
<1>4. /\ B1 \in [Chats -> Seq(Ids)] /\ Range(B1[c]) = Range(B[c]) \cup {x}
      /\ \A b \in Chats : b # c => B1[b] = B[b]
  BY <1>2, <1>3
<1>5. /\ \A b \in Chats : \A i \in Range(B[b]) : i \in Sent /\ Kind(i) = "text" /\ Chat(i) = b
      /\ \A i \in Range(F) : i \in Sent
      /\ \A d \in D : \A i \in Range(d) : i \in Sent
  BY <1>1 DEF PilesSorted, IsAlbum
<1> HIDE DEF B1
<1>6. PilesTyped(B1, A, F, D)
  BY <1>1, <1>4 DEF PilesTyped
<1>7. PilesSorted(B1, A, F, D)
  <2>1. \A b \in Chats : \A i \in Range(B1[b]) : i \in Sent /\ Kind(i) = "text" /\ Chat(i) = b
    BY <1>4, <1>5
  <2>. QED  BY <1>1, <2>1 DEF PilesSorted
<1>8. TextNewer(B1, A, F, D)
  <2>. SUFFICES ASSUME NEW b \in Chats, B1[b] # None
                PROVE  /\ A[b] = None
                       /\ \A i \in Range(B1[b]) :
                            /\ \A j \in Range(F) : Chat(j) = b => j < i
                            /\ \A d \in D : \A j \in Range(d) : Chat(j) = b => j < i
    BY DEF TextNewer
  <2>1. CASE b # c
    BY <1>1, <1>4, <2>1 DEF TextNewer
  <2>2. CASE b = c
    <3>1. /\ \A j \in Range(F) : j < x
          /\ \A d \in D : \A j \in Range(d) : j < x
      BY <1>5 DEF HeldIn
    <3>2. ASSUME NEW i \in Range(B[c])
          PROVE  /\ \A j \in Range(F) : Chat(j) = b => j < i
                 /\ \A d \in D : \A j \in Range(d) : Chat(j) = b => j < i
      <4>1. B[c] # None
        BY RangeOfNone
      <4>. QED  BY <1>1, <2>2, <4>1 DEF TextNewer
    <3>. QED  BY <1>4, <2>2, <3>1, <3>2
  <2>. QED  BY <2>1, <2>2
<1>9. \A i : HeldIn(B1, A, F, D, i) <=> HeldIn(B, A, F, D, i) \/ i = x
  <2>1. \A i : (\E b \in Chats : i \in Range(B1[b])) <=> (\E b \in Chats : i \in Range(B[b])) \/ i = x
    BY <1>4
  <2>. QED  BY <2>1 DEF HeldIn
<1>. QED  BY <1>6, <1>7, <1>8, <1>9 DEF B1, PilesGood

LEMMA AlbumBuffered ==
  ASSUME NEW B, NEW A, NEW F, NEW D, PilesGood(B, A, F, D), NEW x \in Ids, x \in Sent,
         Kind(x) = "album", Chat(x) \in Chats, B[Chat(x)] = None, Sent \subseteq Ids,
         \A i \in Ids : HeldIn(B, A, F, D, i) => i < x
  PROVE  LET A1 == [A EXCEPT ![Chat(x)] = Append(@, x)] IN
         /\ PilesGood(B, A1, F, D)
         /\ \A i : HeldIn(B, A1, F, D, i) <=> HeldIn(B, A, F, D, i) \/ i = x
<1> DEFINE c == Chat(x)
           A1 == [A EXCEPT ![c] = Append(@, x)]
<1>1. PilesTyped(B, A, F, D) /\ PilesSorted(B, A, F, D) /\ TextNewer(B, A, F, D)
  BY DEF PilesGood
<1>2. A \in [Chats -> Seq(Ids)] /\ A[c] \in Seq(Ids)
  BY <1>1 DEF PilesTyped
<1>3. Append(A[c], x) \in Seq(Ids) /\ Range(Append(A[c], x)) = Range(A[c]) \cup {x}
  BY <1>2, RangeOfAppend
<1>4. /\ A1 \in [Chats -> Seq(Ids)] /\ Range(A1[c]) = Range(A[c]) \cup {x}
      /\ \A b \in Chats : b # c => A1[b] = A[b]
  BY <1>2, <1>3
<1>5. /\ \A b \in Chats : \A i \in Range(A[b]) : i \in Sent /\ Kind(i) = "album" /\ Chat(i) = b
      /\ \A i \in Range(F) : i \in Sent
      /\ \A d \in D : \A i \in Range(d) : i \in Sent
  BY <1>1 DEF PilesSorted, IsAlbum
<1> HIDE DEF A1
<1>6. PilesTyped(B, A1, F, D)
  BY <1>1, <1>4 DEF PilesTyped
<1>7. ~ HeldIn(B, A, F, D, x)
  <2>1. x \in Nat
    BY DEF Sent
  <2>2. ~ (x < x)
    BY <2>1
  <2>. QED  BY <2>2
<1>8. PilesSorted(B, A1, F, D)
  <2>1. \A b \in Chats : IsAlbum(A1[b]) /\ \A i \in Range(A1[b]) : Chat(i) = b
    BY <1>4, <1>5 DEF IsAlbum
  <2>2. x \notin Range(F) /\ \A d \in D : x \notin Range(d)
    BY <1>7 DEF HeldIn
  <2>3. ASSUME NEW b \in Chats PROVE Apart(A1[b], F) /\ \A d \in D : Apart(A1[b], d)
    <3>1. Apart(A[b], F) /\ \A d \in D : Apart(A[b], d)
      BY <1>1 DEF PilesSorted
    <3>2. Range(A1[b]) \subseteq Range(A[b]) \cup {x}
      BY <1>4
    <3>. QED  BY <2>2, <3>1, <3>2 DEF Apart
  <2>. QED  BY <1>1, <2>1, <2>3 DEF PilesSorted
<1>9. TextNewer(B, A1, F, D)
  BY <1>1, <1>4 DEF TextNewer
<1>10. \A i : HeldIn(B, A1, F, D, i) <=> HeldIn(B, A, F, D, i) \/ i = x
  <2>1. \A i : (\E b \in Chats : i \in Range(A1[b])) <=> (\E b \in Chats : i \in Range(A[b])) \/ i = x
    BY <1>4
  <2>. QED  BY <2>1 DEF HeldIn
<1>. QED  BY <1>6, <1>8, <1>9, <1>10 DEF A1, PilesGood

LEMMA NoPiles ==
  ASSUME NEW B, NEW A, B = [c \in Chats |-> None], A = [c \in Chats |-> None]
  PROVE  PilesGood(B, A, None, {}) /\ \A i : ~ HeldIn(B, A, None, {}, i)
<1>1. /\ \A c \in Chats : B[c] = None /\ A[c] = None /\ Range(B[c]) = {} /\ Range(A[c]) = {}
      /\ Range(None) = {} /\ None \in Seq(Ids)
  BY RangeOfNone DEF None
<1>2. PilesTyped(B, A, None, {})
  BY <1>1 DEF PilesTyped
<1>3. PilesSorted(B, A, None, {}) /\ TextNewer(B, A, None, {})
  BY <1>1 DEF PilesSorted, IsAlbum, Apart, TextNewer
<1>. QED  BY <1>1, <1>2, <1>3 DEF PilesGood, HeldIn

----------------------------------------------------------------------------
(* The actions.                                                            *)

LEMMA Parts ==
  ASSUME InboundInv
  PROVE  /\ TypeOK /\ PollerOK /\ StepOK /\ PilesOK /\ PilesTimely /\ PublishedOK /\ Accounted
         /\ PilesGood(burst, album, fetching, downloads)
BY DEF InboundInv, PilesOK

\* The poller, and the surface around it, while the batch stays.
Polling ==
  \/ Start \/ Poll \/ PollFails \/ BackoffEnds \/ PollDies \/ Stall \/ Stop \/ FlushPending

LEMMA PollingTypes ==
  ASSUME TypeOK, PollerOK, Polling
  PROVE  TypeOK' /\ PollerOK'
<1>1. BoundsAssumption
  BY BoundsAssumption
<1>2. CASE Start
  BY <1>1, <1>2 DEF Start, TypeOK, PollerOK, telegram, files, pending, history
<1>3. CASE Poll
  BY <1>3 DEF Poll, TypeOK, PollerOK, telegram, files, pending, history
<1>4. CASE PollFails
  BY <1>1, <1>4 DEF PollFails, TypeOK, PollerOK, telegram, files, pending, history
<1>5. CASE BackoffEnds
  BY <1>5 DEF BackoffEnds, TypeOK, PollerOK, telegram, files, pending, history
<1>6. CASE PollDies
  BY <1>6 DEF PollDies, TypeOK, PollerOK, telegram, files, pending, history
<1>7. CASE Stall
  BY <1>1, <1>7 DEF Stall, AbortRestarts, TypeOK, PollerOK, telegram, files, pending, history
<1>8. CASE Stop
  BY <1>8 DEF Stop, TypeOK, PollerOK, telegram, files, pending, history
<1>9. CASE FlushPending
  BY <1>9 DEF FlushPending, PendingChats, TypeOK, PollerOK, telegram, files, poller, history
<1>. QED  BY <1>2, <1>3, <1>4, <1>5, <1>6, <1>7, <1>8, <1>9 DEF Polling

LEMMA PollingStep ==
  ASSUME InboundInv, Polling
  PROVE  InboundInv'
<1>1. /\ TypeOK /\ PollerOK /\ StepOK /\ PilesOK /\ PilesTimely
      /\ PilesGood(burst, album, fetching, downloads)
  BY Parts
<1>2. UNCHANGED <<inbox, stored, published, batch, step, burst, album, fetching, downloads,
                  restarts, cut, lost>>
  BY DEF Polling, Start, Poll, PollFails, BackoffEnds, PollDies, Stall, Stop, FlushPending,
         telegram, files, poller, pending, history
<1>3. TypeOK' /\ PollerOK'
  BY <1>1, PollingTypes
<1>4. StepOK'
  BY <1>1, <1>2 DEF StepOK, Denied, CommandResult, Update, Kind, Chat
<1>5. PilesOK'
  BY <1>1, <1>2, PilesCarry
<1>6. PublishedOK' /\ Accounted' /\ \A i \in Ids : Held(i)' => HandledNow(i)'
  <2>1. \A i \in Ids : (HandledNow(i)' <=> HandledNow(i)) /\ (Held(i)' <=> Held(i))
    BY <1>2 DEF HandledNow, Held, HeldIn
  <2>. QED  BY <1>2, <2>1, QuietStep
<1>7. PilesTimely'
  <2>1. fetching' # None => (batch' # <<>> /\ step' = "flush") \/ surface' = "flushing"
    <3>1. CASE surface' # "flushing" => surface # "flushing"
      BY <1>1, <1>2, <3>1 DEF PilesTimely
    <3>2. CASE surface' # "flushing" /\ surface = "flushing"
      BY <3>2 DEF Polling, Start, Poll, PollFails, BackoffEnds, PollDies, Stall, Stop, FlushPending
    <3>. QED  BY <3>1, <3>2
  <2>2. surface' = "flushing" => \A c \in Chats \ unflushed' : burst'[c] = None /\ album'[c] = None
    <3>1. CASE surface = "flushing" /\ unflushed' = unflushed
      BY <1>1, <1>2, <3>1 DEF PilesTimely
    <3>2. CASE FlushPending
      BY <1>2, <3>2 DEF FlushPending, PendingChats
    <3>3. CASE ~ FlushPending /\ ~ (surface = "flushing" /\ unflushed' = unflushed)
      BY <3>3 DEF Polling, Start, Poll, PollFails, BackoffEnds, PollDies, Stall, Stop, pending
    <3>. QED  BY <3>1, <3>2, <3>3
  <2>3. surface' = "off" => surface = "off"
    BY DEF Polling, Start, Poll, PollFails, BackoffEnds, PollDies, Stall, Stop, FlushPending
  <2>. QED  BY <1>1, <1>2, <1>6, <2>1, <2>2, <2>3 DEF PilesTimely
<1>. QED  BY <1>3, <1>4, <1>5, <1>6, <1>7 DEF InboundInv

LEMMA AnswerStep ==
  ASSUME InboundInv, Answer
  PROVE  InboundInv'
<1>1. /\ TypeOK /\ PollerOK /\ StepOK /\ PilesOK /\ PilesTimely
      /\ PilesGood(burst, album, fetching, downloads)
  BY Parts
<1>2. /\ inbox \in Seq(Updates) /\ Len(inbox) \in Nat /\ Sent \subseteq Ids
      /\ stored \in Nat /\ 1 <= stored /\ stored <= Len(inbox) + 1
  BY <1>1, Basics
<1>3. /\ UNCHANGED <<inbox, stored, published, surface, subscribed, running, offset, step, burst, album,
                     fetching, downloads, unflushed, restarts, cut, lost>>
      /\ batch' = [k \in 1..(Len(inbox) + 1 - offset) |-> offset + k - 1]
      /\ loop' = IF batch' = <<>> THEN "top" ELSE "handling"
      /\ failures' = 0 /\ loop = "waiting"
  BY DEF Answer, telegram, files, pending, history
<1>4. /\ batch = <<>> /\ step = "start" /\ surface \in {"up", "stopping"} /\ offset = stored
  BY <1>1, <1>3 DEF TypeOK, PollerOK
<1>5. /\ batch' \in Seq(Ids)
      /\ \A k \in 1..Len(batch') : batch'[k] = stored + k - 1 /\ batch'[k] <= Len(inbox)
  <2> DEFINE n == Len(inbox) + 1 - stored
  <2>1. n \in Nat /\ batch' = [k \in 1..n |-> stored + k - 1]
    BY <1>2, <1>3, <1>4
  <2>2. \A k \in 1..n : stored + k - 1 \in 1..Len(inbox)
    BY <1>2
  <2>3. \A k \in 1..n : stored + k - 1 \in Ids
    BY <1>2, <2>2 DEF Sent
  <2> HIDE DEF n
  <2>4. batch' \in Seq(Ids) /\ Len(batch') = n
    BY <2>1, <2>3
  <2>. QED  BY <2>1, <2>2, <2>4
<1>6. TypeOK'
  BY SMTT(40), <1>1, <1>3, <1>5, BoundsAssumption DEF TypeOK
<1>7. PollerOK'
  BY <1>1, <1>3, <1>4, <1>5 DEF PollerOK
<1>8. StepOK'
  BY <1>3, <1>4 DEF StepOK
<1>9. PilesOK'
  BY <1>1, <1>3, PilesCarry
<1>10. PublishedOK' /\ Accounted' /\ \A i \in Ids : Held(i)' => HandledNow(i)'
  <2>1. \A i \in Ids : (HandledNow(i)' <=> HandledNow(i)) /\ (Held(i)' <=> Held(i))
    BY <1>3, <1>4 DEF HandledNow, Held, HeldIn
  <2>. QED  BY <1>3, <2>1, QuietStep
<1>11. PilesTimely'
  BY <1>1, <1>3, <1>4, <1>10 DEF PilesTimely
<1>. QED  BY <1>6, <1>7, <1>8, <1>9, <1>10, <1>11 DEF InboundInv

Steps == {"start", "flush", "own", "fetch", "reply", "done"}

\* Steps that leave the poller alone.
LEMMA TypesStill ==
  ASSUME TypeOK, PollerOK,
         UNCHANGED <<inbox, stored, surface, subscribed, running, loop, offset, failures, batch,
                     restarts, cut>>,
         batch # <<>> \/ step' = step, step' \in Steps,
         PilesTyped(burst', album', fetching', downloads'), unflushed' \subseteq Chats,
         published' \in Seq(Messages), lost' \subseteq Ids
  PROVE  TypeOK' /\ PollerOK'
<1>1. \A k \in DOMAIN published' : published'[k] \in Messages
  OBVIOUS
<1>2. \A k \in DOMAIN published' : published'[k].ids \in Seq(Ids) /\ published'[k].ids # None
  BY <1>1 DEF Messages, None
<1>3. downloads' \subseteq Seq(Ids)
  BY DEF PilesTyped
<1>4. TypeOK'
  BY <1>2, <1>3 DEF TypeOK, PilesTyped, Steps
<1>5. PollerOK'
  BY DEF PollerOK, Messages
<1>. QED  BY <1>4, <1>5

LEMMA Handled ==
  ASSUME TypeOK, PollerOK, PilesTimely, NEW s, Handling(s)
  PROVE  /\ batch # <<>> /\ step = s /\ This = stored /\ stored \in Sent /\ stored \in Ids
         /\ surface \in {"up", "stopping"} /\ (s # "flush" => fetching = None)
         /\ Update(This) = Update(stored) /\ Update(This).kind = Kind(stored)
         /\ Update(This).chat = Chat(stored) /\ Chat(stored) \in Chats /\ Kind(stored) \in Kinds
<1>1. batch # <<>> /\ step = s
  BY DEF Handling, TypeOK
<1>2. This = stored /\ stored \in Sent /\ stored \in Ids
  BY <1>1, Basics
<1>3. surface \in {"up", "stopping"}
  BY <1>1 DEF PollerOK
<1>4. Chat(stored) \in Chats /\ Kind(stored) \in Kinds
  BY <1>2, Basics
<1>. QED  BY <1>1, <1>2, <1>3, <1>4 DEF PilesTimely, Chat, Kind

\* What handling leaves true of the piles' times.
LEMMA TimelyHandling ==
  ASSUME UNCHANGED <<batch, surface>>, batch # <<>>, surface \in {"up", "stopping"},
         fetching' # None => step' = "flush", \A i \in Ids : Held(i)' => HandledNow(i)'
  PROVE  PilesTimely'
BY DEF PilesTimely

\* The burst of a chat is published, its album is taken out to be fetched, or both.
LEMMA FlushFirstPiles ==
  ASSUME InboundInv, fetching = None, NEW c \in Chats, NEW text \in BOOLEAN, NEW photos \in BOOLEAN,
         FlushFirst(c, text, photos), UNCHANGED <<inbox, downloads>>
  PROVE  /\ PilesGood(burst', album', fetching', downloads')
         /\ step' \in {"own", "flush"} /\ (fetching' # None => step' = "flush")
         /\ (text => burst'[c] = None) /\ (photos => album'[c] = None)
         /\ \E R : /\ Publishes(R) /\ \A i \in R : Held(i) /\ i \in Sent
                   /\ \A i : Held(i)' <=> Held(i) /\ i \notin R
                   /\ \A i, j \in Sent : Before(i, j) /\ j \in R => ~ Held(i)'
<1>1. TypeOK /\ PollerOK /\ PilesGood(burst, album, fetching, downloads)
  BY Parts
<1> DEFINE B1 == IF text THEN [burst EXCEPT ![c] = None] ELSE burst
           R == IF text THEN Range(burst[c]) ELSE {}
           H(i) == HeldIn(B1, album, None, downloads, i)
<1>2. /\ PilesGood(B1, album, None, downloads) /\ (text => B1[c] = None)
      /\ Publishes(R) /\ (\A i \in R : Held(i) /\ i \in Sent)
      /\ (\A i : H(i) <=> Held(i) /\ i \notin R)
      /\ (\A i, j \in Sent : Before(i, j) /\ j \in R => ~ H(i))
  <2>1. CASE text
    <3>1. /\ PilesGood(B1, album, None, downloads) /\ B1[c] = None
          /\ Named(burst[c]) /\ \A i \in Range(burst[c]) : HeldIn(burst, album, None, downloads, i)
          /\ \A i : HeldIn(B1, album, None, downloads, i)
                      <=> HeldIn(burst, album, None, downloads, i) /\ i \notin Range(burst[c])
          /\ \A i, j \in Sent : Before(i, j) /\ j \in Range(burst[c])
                      => ~ HeldIn(B1, album, None, downloads, i)
      BY <1>1, <2>1, BurstGoes
    <3>2. published' = published \o Text(burst[c])
      BY <2>1 DEF FlushFirst
    <3>3. Publishes(R)
      BY <1>1, <2>1, <3>1, <3>2, PublishText
    <3>. QED  BY <2>1, <3>1, <3>3 DEF Held, Named
  <2>2. CASE ~ text
    <3>1. published' = published \o <<>>
      BY <2>2 DEF FlushFirst
    <3>2. Publishes(R)
      BY <1>1, <2>2, <3>1, Basics, PublishNone
    <3>. QED  BY <1>1, <2>2, <3>2 DEF Held
  <2>. QED  BY <2>1, <2>2
<1>3. burst' = B1
  BY DEF FlushFirst
<1> HIDE DEF B1, R
<1>4. /\ PilesGood(B1, album', fetching', downloads) /\ (photos => album'[c] = None)
      /\ \A i : HeldIn(B1, album', fetching', downloads, i) <=> H(i)
  <2>1. CASE photos
    <3>1. album' = [album EXCEPT ![c] = None] /\ fetching' = album[c]
      BY <2>1 DEF FlushFirst
    <3>. QED  BY <1>2, <2>1, <3>1, AlbumTaken
  <2>2. CASE ~ photos
    <3>1. album' = album /\ fetching' = None
      BY <2>2 DEF FlushFirst
    <3>. QED  BY <1>2, <2>2, <3>1
  <2>. QED  BY <2>1, <2>2
<1>5. \A i : Held(i)' <=> H(i)
  BY <1>3, <1>4 DEF Held
<1>6. step' \in {"own", "flush"} /\ (fetching' # None => step' = "flush")
  BY DEF FlushFirst
<1>7. \E S : /\ Publishes(S) /\ \A i \in S : Held(i) /\ i \in Sent
             /\ \A i : Held(i)' <=> Held(i) /\ i \notin S
             /\ \A i, j \in Sent : Before(i, j) /\ j \in S => ~ Held(i)'
  BY <1>2, <1>5
<1>. QED  BY <1>2, <1>3, <1>4, <1>6, <1>7

LEMMA BeginStep ==
  ASSUME InboundInv, Begin
  PROVE  InboundInv'
<1>1. /\ TypeOK /\ PollerOK /\ StepOK /\ PilesOK /\ PilesTimely
      /\ PilesGood(burst, album, fetching, downloads)
  BY Parts
<1>2. Handling("start")
  BY DEF Begin
<1>3. /\ batch # <<>> /\ step = "start" /\ This = stored /\ stored \in Sent /\ stored \in Ids
      /\ surface \in {"up", "stopping"} /\ fetching = None
      /\ Update(This) = Update(stored) /\ Update(This).kind = Kind(stored)
      /\ Update(This).chat = Chat(stored) /\ Chat(stored) \in Chats /\ Kind(stored) \in Kinds
  BY <1>1, <1>2, Handled
<1>4. /\ UNCHANGED <<inbox, stored, surface, subscribed, running, loop, offset, failures, batch,
                     restarts, cut>>
      /\ UNCHANGED <<downloads, unflushed, lost>>
  BY DEF Begin, telegram, poller, history
<1>5. published \in Seq(Messages) /\ lost \subseteq Ids /\ unflushed \subseteq Chats
  BY <1>1, Basics DEF TypeOK
<1> DEFINE c == Chat(stored)
           k == Kind(stored)
           Same == UNCHANGED <<published, burst, album, fetching>>
<1>6. \/ k = "ignored" /\ step' = "done" /\ Same
      \/ k # "ignored" /\ Denied(Update(stored)) /\ step' = "reply" /\ Same
      \/ ~ Denied(Update(stored)) /\ k = "text" /\ FlushFirst(c, FALSE, TRUE)
      \/ ~ Denied(Update(stored)) /\ k = "album" /\ FlushFirst(c, TRUE, OtherGroup(c))
      \/ ~ Denied(Update(stored)) /\ k \in {"photo", "command", "other"} /\ FlushFirst(c, TRUE, TRUE)
  BY <1>3 DEF Begin, Kinds, Denied
<1>7. CASE (k = "ignored" \/ Denied(Update(stored))) /\ Same /\ step' \in {"done", "reply"}
           /\ (step' = "done" <=> k = "ignored")
  <2>1. PilesOK' /\ PilesTyped(burst', album', fetching', downloads')
    BY <1>1, <1>4, <1>7, PilesCarry DEF PilesGood
  <2>2. TypeOK' /\ PollerOK'
    BY <1>1, <1>3, <1>4, <1>5, <1>7, <2>1, TypesStill DEF Steps
  <2>3. StepOK'
    <3>1. step' = "reply" => k = "command" /\ Denied(Update(stored))
      BY <1>7 DEF Denied, Kind
    <3>2. /\ Update(stored)' = Update(stored) /\ Kind(stored)' = Kind(stored)
          /\ (Denied(Update(stored)))' = Denied(Update(stored))
      BY <1>4 DEF Update, Kind, Denied
    <3>. QED  BY <1>7, <3>1, <3>2 DEF StepOK
  <2>4. \A i \in Ids : Held(i)' <=> Held(i)
    BY <1>4, <1>7 DEF Held, HeldIn
  <2>5. PublishedOK' /\ Accounted' /\ \A i \in Ids : Held(i)' => HandledNow(i)'
    <3>1. CASE k = "ignored"
      <4>1. Silent(stored) /\ Publishes({})
        BY <1>5, <1>7, <3>1, PublishNone DEF Silent
      <4>. QED  BY <1>3, <1>4, <1>7, <2>4, <3>1, <4>1, DoneStep
    <3>2. CASE k # "ignored"
      <4>1. \A i \in Ids : HandledNow(i)' <=> HandledNow(i)
        BY <1>3, <1>4, <1>7, <3>2 DEF HandledNow
      <4>. QED  BY <1>4, <1>7, <2>4, <4>1, QuietStep
    <3>. QED  BY <3>1, <3>2
  <2>6. PilesTimely'
    BY <1>3, <1>4, <1>7, <2>5, TimelyHandling
  <2>. QED  BY <2>1, <2>2, <2>3, <2>5, <2>6 DEF InboundInv
<1>8. ASSUME NEW text \in BOOLEAN, NEW photos \in BOOLEAN, FlushFirst(c, text, photos),
             ~ Denied(Update(stored)), k # "ignored", k # "text" => text, k = "text" => photos
      PROVE  InboundInv'
  <2>1. /\ PilesGood(burst', album', fetching', downloads')
        /\ step' \in {"own", "flush"} /\ (fetching' # None => step' = "flush")
        /\ (text => burst'[c] = None) /\ (photos => album'[c] = None)
        /\ \E R : /\ Publishes(R) /\ \A i \in R : Held(i) /\ i \in Sent
                  /\ \A i : Held(i)' <=> Held(i) /\ i \notin R
                  /\ \A i, j \in Sent : Before(i, j) /\ j \in R => ~ Held(i)'
    BY <1>3, <1>4, <1>8, FlushFirstPiles
  <2>2. PICK R : /\ Publishes(R) /\ \A i \in R : Held(i) /\ i \in Sent
                 /\ \A i : Held(i)' <=> Held(i) /\ i \notin R
                 /\ \A i, j \in Sent : Before(i, j) /\ j \in R => ~ Held(i)'
    BY <2>1
  <2>3. PilesOK' /\ PilesTyped(burst', album', fetching', downloads')
    BY <1>4, <2>1, PilesCarry DEF PilesGood
  <2>4. published' \in Seq(Messages)
    BY <1>5, <2>2, EntriesGrow
  <2>5. TypeOK' /\ PollerOK'
    BY <1>1, <1>3, <1>4, <1>5, <2>1, <2>3, <2>4, TypesStill DEF Steps
  <2>6. StepOK'
    <3>1. /\ Update(stored)' = Update(stored) /\ Kind(stored)' = Kind(stored) /\ Chat(stored)' = c
          /\ (Denied(Update(stored)))' = Denied(Update(stored)) /\ stored' = stored
      BY <1>4 DEF Update, Kind, Chat, Denied
    <3>. QED  BY <1>8, <2>1, <3>1 DEF StepOK
  <2>7. \A i \in Ids : HandledNow(i)' <=> HandledNow(i)
    BY <1>3, <1>4, <2>1 DEF HandledNow
  <2>8. PublishedOK' /\ Accounted' /\ \A i \in Ids : Held(i)' => HandledNow(i)'
    <3>1. stored \in Nat
      BY <1>1, Basics
    <3>. QED  BY <1>4, <2>2, <2>7, <3>1, PileStep
  <2>9. PilesTimely'
    BY <1>3, <1>4, <2>1, <2>8, TimelyHandling
  <2>. QED  BY <2>3, <2>5, <2>6, <2>8, <2>9 DEF InboundInv
<1>9. OtherGroup(c) \in BOOLEAN
  BY DEF OtherGroup
<1>10. CASE k = "ignored" /\ step' = "done" /\ Same
  BY <1>7, <1>10
<1>11. CASE k # "ignored" /\ Denied(Update(stored)) /\ step' = "reply" /\ Same
  BY <1>7, <1>11
<1>12. CASE ~ Denied(Update(stored)) /\ k = "text" /\ FlushFirst(c, FALSE, TRUE)
  BY <1>8, <1>12
<1>13. CASE ~ Denied(Update(stored)) /\ k = "album" /\ FlushFirst(c, TRUE, OtherGroup(c))
  BY <1>8, <1>9, <1>13
<1>14. CASE ~ Denied(Update(stored)) /\ k \in {"photo", "command", "other"} /\ FlushFirst(c, TRUE, TRUE)
  BY <1>8, <1>14
<1>. QED  BY <1>6, <1>10, <1>11, <1>12, <1>13, <1>14

\* What a step of the handler has to show for the rest to stay true.
LEMMA HandlingKept ==
  ASSUME InboundInv, batch # <<>>,
         UNCHANGED <<inbox, stored, surface, subscribed, running, loop, offset, failures, batch,
                     restarts, cut, unflushed>>,
         step' \in Steps, fetching' # None => step' = "flush", StepOK',
         PilesGood(burst', album', fetching', downloads'),
         published' \in Seq(Messages), lost' \subseteq Ids,
         PublishedOK' /\ Accounted' /\ \A i \in Ids : Held(i)' => HandledNow(i)'
  PROVE  InboundInv'
<1>1. TypeOK /\ PollerOK /\ unflushed \subseteq Chats /\ surface \in {"up", "stopping"}
  BY Parts DEF TypeOK, PollerOK
<1>2. PilesOK' /\ PilesTyped(burst', album', fetching', downloads')
  BY PilesCarry DEF PilesGood
<1>3. TypeOK' /\ PollerOK'
  BY <1>1, <1>2, TypesStill
<1>4. PilesTimely'
  BY <1>1, TimelyHandling
<1>. QED  BY <1>2, <1>3, <1>4 DEF InboundInv

LEMMA HandlingEnds ==
  ASSUME InboundInv, batch # <<>>, step # "done", step' = "done", fetching' = None,
         UNCHANGED <<inbox, stored, surface, subscribed, running, loop, offset, failures, batch,
                     restarts, cut, unflushed>>,
         lost \subseteq lost', lost' \subseteq Ids,
         NEW R \in {{}, {stored}}, NEW N \in {{}, {stored}}, Publishes(R), R = {} \/ N = {},
         PilesGood(burst', album', fetching', downloads'),
         \A i \in Ids : Held(i)' <=> Held(i) \/ i \in N,
         R # {} => burst[Chat(stored)] = None,
         Silent(stored) \/ R # {} \/ N # {} \/ stored \in lost'
  PROVE  InboundInv'
<1>1. published' \in Seq(Messages)
  BY Parts, Basics, EntriesGrow
<1>2. PublishedOK' /\ Accounted' /\ \A i \in Ids : Held(i)' => HandledNow(i)'
  BY DoneStep
<1>3. StepOK' /\ step' \in Steps
  BY DEF StepOK, Steps
<1>. QED  BY <1>1, <1>2, <1>3, HandlingKept

LEMMA UnheardStep ==
  ASSUME InboundInv, Unheard
  PROVE  InboundInv'
<1>1. /\ TypeOK /\ PollerOK /\ PilesTimely /\ PilesGood(burst, album, fetching, downloads)
  BY Parts
<1>2. Handling("start")
  BY DEF Unheard
<1>3. batch # <<>> /\ step = "start" /\ This = stored /\ stored \in Ids /\ fetching = None
  BY <1>1, <1>2, Handled
<1>4. /\ UNCHANGED <<inbox, stored, published, surface, subscribed, running, loop, offset, failures,
                     batch, burst, album, fetching, downloads, unflushed, restarts, cut>>
      /\ step' = "done" /\ lost' = lost \cup {stored}
  BY <1>3 DEF Unheard, telegram, files, poller, pending
<1>5. lost' \subseteq Ids /\ lost \subseteq lost' /\ stored \in lost'
  BY <1>1, <1>3, <1>4 DEF TypeOK
<1>6. Publishes({})
  BY <1>1, <1>4, Basics, PublishNone
<1>7. \A i \in Ids : Held(i)' <=> Held(i) \/ i \in {}
  BY <1>4 DEF Held, HeldIn
<1>8. PilesGood(burst', album', fetching', downloads')
  BY <1>1, <1>4
<1>. QED  BY <1>3, <1>4, <1>5, <1>6, <1>7, <1>8, HandlingEnds

LEMMA FlushedStep ==
  ASSUME InboundInv, Flushed
  PROVE  InboundInv'
<1>1. /\ TypeOK /\ PollerOK /\ StepOK /\ PilesTimely /\ PilesGood(burst, album, fetching, downloads)
  BY Parts
<1>2. Handling("flush")
  BY DEF Flushed
<1>3. batch # <<>> /\ step = "flush" /\ stored \in Ids
  BY <1>1, <1>2, Handled
<1>4. /\ UNCHANGED <<inbox, stored, surface, subscribed, running, loop, offset, failures,
                     batch, burst, album, downloads, unflushed, restarts, cut, lost>>
      /\ step' = "own" /\ fetching' = None
  BY DEF Flushed, telegram, poller, history
<1>5. /\ PilesGood(burst, album, None, downloads)
      /\ Named(fetching) /\ \A i \in Range(fetching) : Held(i)
      /\ \A i : HeldIn(burst, album, None, downloads, i) <=> Held(i) /\ i \notin Range(fetching)
      /\ \A i, j \in Sent : Before(i, j) /\ j \in Range(fetching)
            => ~ HeldIn(burst, album, None, downloads, i)
  BY <1>1, FetchingGoes DEF Held
<1>6. Publishes(Range(fetching))
  BY <1>1, <1>5, PublishPhotos DEF Flushed
<1>7. \A i : Held(i)' <=> HeldIn(burst, album, None, downloads, i)
  BY <1>4 DEF Held
<1>8. \A i \in Ids : HandledNow(i)' <=> HandledNow(i)
  BY <1>3, <1>4 DEF HandledNow
<1>9. PublishedOK' /\ Accounted' /\ \A i \in Ids : Held(i)' => HandledNow(i)'
  <2>1. stored \in Nat
    BY <1>1, Basics
  <2>2. \A i \in Range(fetching) : Held(i) /\ i \in Sent
    BY <1>5 DEF Named
  <2>. QED  BY <1>4, <1>5, <1>6, <1>7, <1>8, <2>1, <2>2, PileStep
<1>10. StepOK'
  <2>1. /\ Update(stored)' = Update(stored) /\ Kind(stored)' = Kind(stored) /\ Chat(stored)' = Chat(stored)
        /\ (Denied(Update(stored)))' = Denied(Update(stored)) /\ stored' = stored
    BY <1>4 DEF Update, Kind, Chat, Denied
  <2>. QED  BY <1>1, <1>3, <1>4, <2>1 DEF StepOK
<1>11. published' \in Seq(Messages) /\ lost' \subseteq Ids /\ step' \in Steps
  BY <1>1, <1>4, <1>6, Basics, EntriesGrow DEF TypeOK, Steps
<1>. QED  BY <1>3, <1>4, <1>5, <1>9, <1>10, <1>11, HandlingKept

LEMMA FetchedStep ==
  ASSUME InboundInv, Fetched
  PROVE  InboundInv'
<1>1. /\ TypeOK /\ PollerOK /\ StepOK /\ PilesTimely /\ PilesGood(burst, album, fetching, downloads)
  BY Parts
<1>2. Handling("fetch")
  BY DEF Fetched
<1>3. /\ batch # <<>> /\ step = "fetch" /\ This = stored /\ stored \in Ids /\ stored \in Sent
      /\ fetching = None
  BY <1>1, <1>2, Handled
<1>4. /\ UNCHANGED <<inbox, stored, surface, subscribed, running, loop, offset, failures,
                     batch, burst, album, fetching, downloads, unflushed, restarts, cut, lost>>
      /\ step' = "done"
  BY DEF Fetched, telegram, poller, pending, history
<1>5. Publishes({stored})
  BY <1>1, <1>3, NamedOne, PublishPhotos DEF Fetched
<1>6. burst[Chat(stored)] = None
  BY <1>1, <1>3 DEF StepOK, Denied, Kind
<1>7. \A i \in Ids : Held(i)' <=> Held(i) \/ i \in {}
  BY <1>4 DEF Held, HeldIn
<1>8. PilesGood(burst', album', fetching', downloads') /\ lost' \subseteq Ids /\ lost \subseteq lost'
  BY <1>1, <1>4 DEF TypeOK
<1>. QED  BY <1>3, <1>4, <1>5, <1>6, <1>7, <1>8, HandlingEnds

LEMMA RepliedStep ==
  ASSUME InboundInv, Replied
  PROVE  InboundInv'
<1>1. /\ TypeOK /\ PollerOK /\ StepOK /\ PilesTimely /\ PilesGood(burst, album, fetching, downloads)
  BY Parts
<1>2. Handling("reply")
  BY DEF Replied
<1>3. /\ batch # <<>> /\ step = "reply" /\ This = stored /\ stored \in Ids /\ stored \in Sent
      /\ fetching = None
  BY <1>1, <1>2, Handled
<1>4. /\ UNCHANGED <<inbox, stored, surface, subscribed, running, loop, offset, failures,
                     batch, burst, album, fetching, downloads, unflushed, restarts, cut, lost>>
      /\ step' = "done"
  BY DEF Replied, telegram, poller, pending, history
<1>5. /\ Kind(stored) = "command"
      /\ Denied(Update(stored)) \/ CommandResult(Update(stored)) = "reply"
  BY <1>1, <1>3 DEF StepOK
<1>6. Silent(stored)
  BY <1>5 DEF Silent
<1>7. \A i \in Ids : Held(i)' <=> Held(i) \/ i \in {}
  BY <1>4 DEF Held, HeldIn
<1>8. PilesGood(burst', album', fetching', downloads') /\ lost' \subseteq Ids /\ lost \subseteq lost'
  BY <1>1, <1>4 DEF TypeOK
<1>9. CASE published' = published
  <2>1. Publishes({})
    BY <1>1, <1>9, Basics, PublishNone
  <2>. QED  BY <1>3, <1>4, <1>6, <1>7, <1>8, <2>1, HandlingEnds
<1>10. CASE ~ Denied(Update(stored)) /\ published' = Append(published, Message(<<stored>>, "error"))
  <2>1. Publishes({stored})
    BY <1>1, <1>3, <1>10, NamedOne, PublishOne
  <2>2. burst[Chat(stored)] = None
    BY <1>1, <1>3, <1>5, <1>10 DEF StepOK
  <2>. QED  BY <1>3, <1>4, <1>6, <1>7, <1>8, <2>1, <2>2, HandlingEnds
<1>. QED  BY <1>3, <1>9, <1>10 DEF Replied

LEMMA OwnStep ==
  ASSUME InboundInv, Own
  PROVE  InboundInv'
<1>1. /\ TypeOK /\ PollerOK /\ StepOK /\ PilesTimely /\ PilesGood(burst, album, fetching, downloads)
  BY Parts
<1>2. Handling("own")
  BY DEF Own
<1>3. /\ batch # <<>> /\ step = "own" /\ This = stored /\ stored \in Ids /\ stored \in Sent
      /\ fetching = None /\ Update(This) = Update(stored) /\ Update(stored).kind = Kind(stored)
      /\ Chat(stored) \in Chats
  BY <1>1, <1>2, Handled
<1>4. /\ UNCHANGED <<inbox, stored, surface, subscribed, running, loop, offset, failures,
                     batch, fetching, downloads, unflushed, restarts, cut, lost>>
      /\ fetching' = None
  BY <1>3 DEF Own, telegram, poller, history
<1>5. /\ lost' \subseteq Ids /\ lost \subseteq lost' /\ published \in Seq(Messages) /\ Sent \subseteq Ids
  BY <1>1, <1>4, Basics DEF TypeOK
<1>6. /\ ~ Denied(Update(stored))
      /\ Kind(stored) # "text" => burst[Chat(stored)] = None
      /\ Kind(stored) = "text" => album[Chat(stored)] = None
  BY <1>1, <1>3 DEF StepOK
<1>7. \A i \in Ids : HeldIn(burst, album, fetching, downloads, i) => i < stored
  BY <1>1, <1>3 DEF PilesTimely, Held, HandledNow
<1>8. ASSUME UNCHANGED <<burst, album>>
      PROVE  /\ PilesGood(burst', album', fetching', downloads')
             /\ \A i \in Ids : Held(i)' <=> Held(i)
  BY <1>1, <1>4, <1>8 DEF Held, HeldIn
<1>9. ASSUME UNCHANGED published PROVE Publishes({}) /\ published' \in Seq(Messages)
  BY <1>5, <1>9, PublishNone
<1>10. CASE Kind(stored) = "text" /\ burst' = Buffered(burst) /\ step' = "done"
            /\ UNCHANGED <<album, published>>
  <2> DEFINE new == [burst EXCEPT ![Chat(stored)] = Append(@, stored)]
  <2>1. burst' = new
    BY <1>3, <1>10 DEF Buffered
  <2>2. /\ PilesGood(new, album, fetching, downloads)
        /\ \A i : HeldIn(new, album, fetching, downloads, i)
                    <=> HeldIn(burst, album, fetching, downloads, i) \/ i = stored
    BY <1>1, <1>3, <1>5, <1>6, <1>7, <1>10, TextBuffered
  <2> HIDE DEF new
  <2>3. \A i \in Ids : Held(i)' <=> Held(i) \/ i \in {stored}
    BY <1>4, <1>10, <2>1, <2>2 DEF Held
  <2>4. PilesGood(burst', album', fetching', downloads')
    BY <1>4, <1>10, <2>1, <2>2
  <2>. QED  BY <1>3, <1>4, <1>5, <1>9, <1>10, <2>3, <2>4, HandlingEnds
<1>11. CASE Kind(stored) = "album" /\ album' = Buffered(album) /\ step' = "done"
            /\ UNCHANGED <<burst, published>>
  <2> DEFINE new == [album EXCEPT ![Chat(stored)] = Append(@, stored)]
  <2>1. album' = new
    BY <1>3, <1>11 DEF Buffered
  <2>2. /\ PilesGood(burst, new, fetching, downloads)
        /\ \A i : HeldIn(burst, new, fetching, downloads, i)
                    <=> HeldIn(burst, album, fetching, downloads, i) \/ i = stored
    BY <1>1, <1>3, <1>5, <1>6, <1>7, <1>11, AlbumBuffered
  <2> HIDE DEF new
  <2>3. \A i \in Ids : Held(i)' <=> Held(i) \/ i \in {stored}
    BY <1>4, <1>11, <2>1, <2>2 DEF Held
  <2>4. PilesGood(burst', album', fetching', downloads')
    BY <1>4, <1>11, <2>1, <2>2
  <2>. QED  BY <1>3, <1>4, <1>5, <1>9, <1>11, <2>3, <2>4, HandlingEnds
<1>12. CASE /\ \/ Kind(stored) = "photo" /\ step' = "fetch"
               \/ /\ Kind(stored) = "command" /\ CommandResult(Update(stored)) = "reply"
                  /\ step' = "reply"
            /\ UNCHANGED <<burst, album, published>>
  <2>1. \A i \in Ids : HandledNow(i)' <=> HandledNow(i)
    BY <1>3, <1>4, <1>12 DEF HandledNow
  <2>2. PublishedOK' /\ Accounted' /\ \A i \in Ids : Held(i)' => HandledNow(i)'
    BY <1>4, <1>8, <1>12, <2>1, QuietStep
  <2>3. StepOK'
    <3>1. /\ Update(stored)' = Update(stored) /\ Kind(stored)' = Kind(stored) /\ Chat(stored)' = Chat(stored)
          /\ (Denied(Update(stored)))' = Denied(Update(stored)) /\ stored' = stored
          /\ (CommandResult(Update(stored)))' = CommandResult(Update(stored))
      BY <1>4 DEF Update, Kind, Chat, Denied, CommandResult
    <3>. QED  BY <1>6, <1>12, <3>1 DEF StepOK
  <2>4. step' \in Steps
    BY <1>12 DEF Steps
  <2>. QED  BY <1>3, <1>4, <1>5, <1>8, <1>9, <1>12, <2>2, <2>3, <2>4, HandlingKept
<1>13. ASSUME NEW what \in {"unsupported", "control"}, Kind(stored) # "text", step' = "done",
              published' = Append(published, Message(<<stored>>, what)), UNCHANGED <<burst, album>>
       PROVE  InboundInv'
  <2>1. Publishes({stored})
    BY <1>1, <1>3, <1>13, NamedOne, PublishOne
  <2>2. \A i \in Ids : Held(i)' <=> Held(i) \/ i \in {}
    BY <1>8, <1>13
  <2>. QED  BY <1>3, <1>4, <1>5, <1>6, <1>8, <1>13, <2>1, <2>2, HandlingEnds
<1>. QED  BY <1>3, <1>10, <1>11, <1>12, <1>13 DEF Own

LEMMA AdvanceStep ==
  ASSUME InboundInv, Advance
  PROVE  InboundInv'
<1>1. /\ TypeOK /\ PollerOK /\ PilesTimely /\ PilesGood(burst, album, fetching, downloads)
  BY Parts
<1>2. Handling("done")
  BY DEF Advance
<1>3. /\ batch # <<>> /\ step = "done" /\ This = stored /\ stored \in Ids
      /\ surface \in {"up", "stopping"} /\ fetching = None
  BY <1>1, <1>2, Handled
<1>4. /\ UNCHANGED <<inbox, published, surface, subscribed, running, failures, burst, album, fetching,
                     downloads, unflushed, restarts, cut, lost>>
      /\ stored' = stored + 1 /\ offset' = stored + 1 /\ batch' = Tail(batch) /\ step' = "start"
      /\ loop' = IF batch' = <<>> THEN "top" ELSE "handling"
  BY <1>3 DEF Advance, SaveOffset, telegram, pending, history
<1>5. stored \in Nat /\ stored <= Len(inbox) /\ published \in Seq(Messages) /\ Len(inbox) \in Nat
  BY <1>1, <1>3, Basics DEF Sent
<1>6. /\ batch' \in Seq(Ids) /\ Len(batch') = Len(batch) - 1
      /\ \A k \in 1..Len(batch') : k + 1 \in 1..Len(batch) /\ batch'[k] = batch[k + 1]
  <2>1. batch \in Seq(Ids)
    BY <1>1 DEF TypeOK
  <2>. QED  BY <1>3, <1>4, <2>1
<1>7. \A k \in 1..Len(batch') : batch'[k] = stored' + k - 1 /\ batch'[k] <= Len(inbox)
  <2>. SUFFICES ASSUME NEW k \in 1..Len(batch')
                PROVE  batch'[k] = stored' + k - 1 /\ batch'[k] <= Len(inbox)
    OBVIOUS
  <2>1. batch[k + 1] = stored + (k + 1) - 1 /\ batch[k + 1] <= Len(inbox)
    BY <1>1, <1>6 DEF PollerOK
  <2>. QED  BY <1>4, <1>5, <1>6, <2>1
<1>8. stored' \in 1..(MaxUpdates + 1)
  BY <1>3, <1>4, BoundsAssumption DEF Ids
<1>9. TypeOK'
  BY <1>1, <1>4, <1>6, <1>8 DEF TypeOK
<1>10. PollerOK'
  BY <1>1, <1>3, <1>4, <1>5, <1>7 DEF PollerOK, Messages
<1>11. StepOK'
  BY <1>4 DEF StepOK
<1>12. PilesOK'
  BY <1>1, <1>4, PilesCarry
<1>13. PublishedOK' /\ Accounted' /\ \A i \in Ids : Held(i)' => HandledNow(i)'
  <2>1. \A i \in Ids : HandledNow(i)' <=> HandledNow(i)
    BY <1>3, <1>4, <1>5 DEF HandledNow, Ids
  <2>2. \A i \in Ids : Held(i)' <=> Held(i) /\ i \notin {}
    BY <1>4 DEF Held, HeldIn
  <2>3. Publishes({})
    BY <1>4, <1>5, PublishNone
  <2>. QED  BY <1>4, <1>5, <2>1, <2>2, <2>3, PileStep
<1>14. PilesTimely'
  BY <1>1, <1>3, <1>4, <1>13 DEF PilesTimely
<1>. QED  BY <1>9, <1>10, <1>11, <1>12, <1>13, <1>14 DEF InboundInv

\* The timers and the stop work on the piles alone.
LEMMA PilesMoved ==
  ASSUME InboundInv, surface # "off",
         UNCHANGED <<inbox, stored, surface, subscribed, running, loop, offset, failures, batch,
                     step, restarts, cut, lost>>,
         NEW R, Publishes(R), \A i \in R : Held(i) /\ i \in Sent,
         \A i \in Ids : Held(i)' <=> Held(i) /\ i \notin R,
         \A i, j \in Sent : Before(i, j) /\ j \in R => ~ Held(i)',
         PilesGood(burst', album', fetching', downloads'),
         \A c \in Chats : (burst[c] = None => burst'[c] = None) /\ (album[c] = None => album'[c] = None),
         fetching' = None \/ fetching' = fetching \/ surface = "flushing",
         \A c \in unflushed : c \in unflushed' \/ (burst'[c] = None /\ album'[c] = None),
         unflushed' \subseteq Chats
  PROVE  InboundInv'
<1>1. TypeOK /\ PollerOK /\ StepOK /\ PilesTimely
  BY Parts
<1>2. /\ published' \in Seq(Messages) /\ stored \in Nat /\ lost' \subseteq Ids
      /\ batch # <<>> => stored \in Sent
  BY <1>1, Basics, EntriesGrow DEF TypeOK
<1>3. PilesOK' /\ PilesTyped(burst', album', fetching', downloads')
  BY PilesCarry DEF PilesGood
<1>4. TypeOK' /\ PollerOK'
  <2>1. step' \in Steps
    BY <1>1 DEF TypeOK, Steps
  <2>. QED  BY <1>1, <1>2, <1>3, <2>1, TypesStill
<1>5. StepOK'
  <2>1. CASE batch = <<>>
    BY <2>1 DEF StepOK
  <2>2. CASE batch # <<>>
    <3>1. /\ Update(stored)' = Update(stored) /\ Kind(stored)' = Kind(stored) /\ Chat(stored)' = Chat(stored)
          /\ (Denied(Update(stored)))' = Denied(Update(stored)) /\ stored' = stored
          /\ (CommandResult(Update(stored)))' = CommandResult(Update(stored))
      BY DEF Update, Kind, Chat, Denied, CommandResult
    <3>2. Chat(stored) \in Chats
      BY <1>1, <1>2, <2>2, Basics
    <3>. QED  BY <1>1, <2>2, <3>1, <3>2 DEF StepOK
  <2>. QED  BY <2>1, <2>2
<1>6. \A i \in Ids : HandledNow(i)' <=> HandledNow(i)
  BY DEF HandledNow
<1>7. PublishedOK' /\ Accounted' /\ \A i \in Ids : Held(i)' => HandledNow(i)'
  BY <1>2, <1>6, PileStep
<1>8. PilesTimely'
  BY <1>1, <1>7 DEF PilesTimely
<1>. QED  BY <1>3, <1>4, <1>5, <1>7, <1>8 DEF InboundInv

LEMMA BurstTimerStep ==
  ASSUME InboundInv, NEW c \in Chats, BurstTimer(c)
  PROVE  InboundInv'
<1>1. /\ TypeOK /\ PollerOK /\ PilesTimely /\ PilesGood(burst, album, fetching, downloads)
      /\ unflushed \subseteq Chats
  BY Parts DEF TypeOK
<1>2. /\ UNCHANGED <<inbox, stored, surface, subscribed, running, loop, offset, failures, batch, step,
                     album, fetching, downloads, unflushed, restarts, cut, lost>>
      /\ burst[c] # None /\ published' = published \o Text(burst[c])
  BY DEF BurstTimer, telegram, poller, history
<1> DEFINE B1 == [burst EXCEPT ![c] = None]
<1>3. burst' = B1
  BY DEF BurstTimer
<1>4. /\ PilesGood(B1, album, fetching, downloads) /\ B1[c] = None
      /\ Named(burst[c]) /\ \A i \in Range(burst[c]) : HeldIn(burst, album, fetching, downloads, i)
      /\ \A i : HeldIn(B1, album, fetching, downloads, i)
                  <=> HeldIn(burst, album, fetching, downloads, i) /\ i \notin Range(burst[c])
      /\ \A i, j \in Sent : Before(i, j) /\ j \in Range(burst[c])
                  => ~ HeldIn(B1, album, fetching, downloads, i)
  BY <1>1, BurstGoes
<1>5. \A b \in Chats : burst[b] = None => B1[b] = None
  <2>1. burst \in [Chats -> Seq(Ids)]
    BY <1>1 DEF TypeOK
  <2>. QED  BY <2>1
<1> HIDE DEF B1
<1>6. Publishes(Range(burst[c]))
  BY <1>1, <1>2, <1>4, PublishText
<1>7. \A i : Held(i)' <=> HeldIn(B1, album, fetching, downloads, i)
  BY <1>2, <1>3 DEF Held
<1>8. surface # "off"
  BY <1>1, <1>2 DEF PilesTimely
<1>9. PilesGood(burst', album', fetching', downloads')
  BY <1>2, <1>3, <1>4
<1>10. \A i \in Range(burst[c]) : Held(i) /\ i \in Sent
  BY <1>4 DEF Held, Named
<1>11. \A i \in Ids : Held(i)' <=> Held(i) /\ i \notin Range(burst[c])
  BY <1>4, <1>7 DEF Held
<1>. QED  BY <1>1, <1>2, <1>3, <1>4, <1>5, <1>6, <1>7, <1>8, <1>9, <1>10, <1>11, PilesMoved

LEMMA AlbumTimerStep ==
  ASSUME InboundInv, NEW c \in Chats, AlbumTimer(c)
  PROVE  InboundInv'
<1>1. /\ TypeOK /\ PollerOK /\ PilesTimely /\ PilesGood(burst, album, fetching, downloads)
      /\ unflushed \subseteq Chats
  BY Parts DEF TypeOK
<1>2. /\ UNCHANGED <<inbox, stored, published, surface, subscribed, running, loop, offset, failures,
                     batch, step, burst, fetching, unflushed, restarts, cut, lost>>
      /\ album[c] # None /\ downloads' = downloads \cup {album[c]}
  BY DEF AlbumTimer, telegram, files, poller, history
<1> DEFINE A1 == [album EXCEPT ![c] = None]
<1>3. album' = A1
  BY DEF AlbumTimer
<1>4. /\ PilesGood(burst, A1, fetching, downloads \cup {album[c]})
      /\ \A i : HeldIn(burst, A1, fetching, downloads \cup {album[c]}, i)
                  <=> HeldIn(burst, album, fetching, downloads, i)
  BY <1>1, <1>2, AlbumDownloaded
<1>5. \A b \in Chats : album[b] = None => A1[b] = None
  <2>1. album \in [Chats -> Seq(Ids)]
    BY <1>1 DEF TypeOK
  <2>. QED  BY <2>1
<1> HIDE DEF A1
<1>6. Publishes({})
  BY <1>1, <1>2, Basics, PublishNone
<1>7. \A i \in Ids : Held(i)' <=> Held(i) /\ i \notin {}
  BY <1>2, <1>3, <1>4 DEF Held
<1>8. surface # "off"
  BY <1>1, <1>2 DEF PilesTimely
<1>9. PilesGood(burst', album', fetching', downloads')
  BY <1>2, <1>3, <1>4
<1>. QED  BY <1>1, <1>2, <1>3, <1>5, <1>6, <1>7, <1>8, <1>9, PilesMoved

LEMMA DownloadStep ==
  ASSUME InboundInv, NEW d \in downloads, DownloadEnds(d)
  PROVE  InboundInv'
<1>1. /\ TypeOK /\ PollerOK /\ PilesTimely /\ PilesGood(burst, album, fetching, downloads)
      /\ unflushed \subseteq Chats
  BY Parts DEF TypeOK
<1>2. /\ UNCHANGED <<inbox, stored, surface, subscribed, running, loop, offset, failures, batch, step,
                     burst, album, fetching, unflushed, restarts, cut, lost>>
      /\ downloads' = downloads \ {d}
  BY DEF DownloadEnds, telegram, poller, history
<1>3. /\ PilesGood(burst, album, fetching, downloads')
      /\ Named(d) /\ \A i \in Range(d) : Held(i)
      /\ \A i : HeldIn(burst, album, fetching, downloads', i) <=> Held(i) /\ i \notin Range(d)
      /\ \A i, j \in Sent : Before(i, j) /\ j \in Range(d)
            => ~ HeldIn(burst, album, fetching, downloads', i)
  BY <1>1, <1>2, DownloadGoes DEF Held
<1>4. Publishes(Range(d))
  BY <1>1, <1>3, PublishPhotos DEF DownloadEnds
<1>5. \A i : Held(i)' <=> HeldIn(burst, album, fetching, downloads', i)
  BY <1>2 DEF Held
<1>6. surface # "off"
  BY <1>1 DEF PilesTimely
<1>7. PilesGood(burst', album', fetching', downloads')
  BY <1>2, <1>3
<1>8. \A i \in Range(d) : Held(i) /\ i \in Sent
  BY <1>3 DEF Named
<1>. QED  BY <1>1, <1>2, <1>3, <1>4, <1>5, <1>6, <1>7, <1>8, PilesMoved

LEMMA FlushedChatStep ==
  ASSUME InboundInv, FlushedChat
  PROVE  InboundInv'
<1>1. /\ TypeOK /\ PollerOK /\ PilesTimely /\ PilesGood(burst, album, fetching, downloads)
      /\ unflushed \subseteq Chats
  BY Parts DEF TypeOK
<1>2. /\ UNCHANGED <<inbox, stored, surface, subscribed, running, loop, offset, failures, batch, step,
                     burst, album, downloads, unflushed, restarts, cut, lost>>
      /\ fetching' = None /\ surface = "flushing"
  BY DEF FlushedChat, telegram, poller, history
<1>3. /\ PilesGood(burst, album, None, downloads)
      /\ Named(fetching) /\ \A i \in Range(fetching) : Held(i)
      /\ \A i : HeldIn(burst, album, None, downloads, i) <=> Held(i) /\ i \notin Range(fetching)
      /\ \A i, j \in Sent : Before(i, j) /\ j \in Range(fetching)
            => ~ HeldIn(burst, album, None, downloads, i)
  BY <1>1, FetchingGoes DEF Held
<1>4. Publishes(Range(fetching))
  BY <1>1, <1>3, PublishPhotos DEF FlushedChat
<1>5. \A i : Held(i)' <=> HeldIn(burst, album, None, downloads, i)
  BY <1>2 DEF Held
<1>6. PilesGood(burst', album', fetching', downloads')
  BY <1>2, <1>3
<1>7. \A i \in Range(fetching) : Held(i) /\ i \in Sent
  BY <1>3 DEF Named
<1>. QED  BY <1>1, <1>2, <1>3, <1>4, <1>5, <1>6, <1>7, PilesMoved

LEMMA FlushChatStep ==
  ASSUME InboundInv, NEW c \in Chats, FlushChat(c)
  PROVE  InboundInv'
<1>1. /\ TypeOK /\ PollerOK /\ PilesTimely /\ PilesGood(burst, album, fetching, downloads)
      /\ unflushed \subseteq Chats /\ burst \in [Chats -> Seq(Ids)] /\ album \in [Chats -> Seq(Ids)]
  BY Parts DEF TypeOK
<1>2. /\ UNCHANGED <<inbox, stored, surface, subscribed, running, loop, offset, failures, batch, step,
                     downloads, restarts, cut, lost>>
      /\ surface = "flushing" /\ fetching = None /\ fetching' = album[c]
      /\ published' = published \o Text(burst[c]) /\ unflushed' = unflushed \ {c}
  BY DEF FlushChat, telegram, poller, history
<1> DEFINE B1 == [burst EXCEPT ![c] = None]
           A1 == [album EXCEPT ![c] = None]
<1>3. burst' = B1 /\ album' = A1
  BY DEF FlushChat
<1>4. /\ PilesGood(B1, album, None, downloads) /\ B1[c] = None
      /\ Named(burst[c]) /\ \A i \in Range(burst[c]) : HeldIn(burst, album, None, downloads, i)
      /\ \A i : HeldIn(B1, album, None, downloads, i)
                  <=> HeldIn(burst, album, None, downloads, i) /\ i \notin Range(burst[c])
      /\ \A i, j \in Sent : Before(i, j) /\ j \in Range(burst[c])
                  => ~ HeldIn(B1, album, None, downloads, i)
  BY <1>1, <1>2, BurstGoes
<1>5. /\ \A b \in Chats : (burst[b] = None => B1[b] = None) /\ (album[b] = None => A1[b] = None)
      /\ B1[c] = None /\ A1[c] = None
  BY <1>1
<1> HIDE DEF B1
<1>6. /\ PilesGood(B1, A1, album[c], downloads) /\ A1[c] = None
      /\ \A i : HeldIn(B1, A1, album[c], downloads, i) <=> HeldIn(B1, album, None, downloads, i)
  BY <1>4, AlbumTaken
<1> HIDE DEF A1
<1>7. Publishes(Range(burst[c]))
  BY <1>1, <1>2, <1>4, PublishText
<1>8. \A i : Held(i)' <=> HeldIn(B1, album, None, downloads, i)
  BY <1>2, <1>3, <1>6 DEF Held
<1>9. PilesGood(burst', album', fetching', downloads')
  BY <1>2, <1>3, <1>6
<1>10. \A i \in Range(burst[c]) : Held(i) /\ i \in Sent
  BY <1>2, <1>4 DEF Held, Named
<1>11. \A i \in Ids : Held(i)' <=> Held(i) /\ i \notin Range(burst[c])
  BY <1>2, <1>4, <1>8 DEF Held
<1>12. \A b \in unflushed : b \in unflushed' \/ (burst'[b] = None /\ album'[b] = None)
  BY <1>2, <1>3, <1>5
<1>13. \A b \in Chats : (burst[b] = None => burst'[b] = None) /\ (album[b] = None => album'[b] = None)
  BY <1>3, <1>5
<1>14. unflushed' \subseteq Chats
  BY <1>1, <1>2
<1>15. \A i, j \in Sent : Before(i, j) /\ j \in Range(burst[c]) => ~ Held(i)'
  BY <1>4, <1>8
<1>. QED  BY <1>2, <1>7, <1>9, <1>10, <1>11, <1>12, <1>13, <1>14, <1>15, PilesMoved

LEMMA HeldIs == \A i : Held(i) <=> i \in Buffers \cup Downloading
<1>1. \A i : i \in Downloading <=> \E d \in downloads : i \in Range(d)
  BY DEF Downloading, Piled
<1>2. \A i : i \in Buffers <=> (\E c \in Chats : i \in Range(burst[c]) \/ i \in Range(album[c]))
                               \/ i \in Range(fetching)
  BY DEF Buffers, Piled
<1>. QED  BY <1>1, <1>2 DEF Held, HeldIn

\* The process is gone: only the files and the updates at Telegram are left.
LEMMA GoneStep ==
  ASSUME InboundInv, Gone, surface # "off", cut \subseteq cut', cut' \subseteq Ids,
         batch # <<>> => stored \in cut', lost \subseteq lost', lost' \subseteq Ids,
         \A i \in Sent : Held(i) /\ i < stored => i \in lost'
  PROVE  InboundInv'
<1>1. TypeOK /\ PollerOK
  BY Parts
<1>2. /\ UNCHANGED <<inbox, stored, published>> /\ restarts' = restarts + 1
      /\ surface' = "off" /\ subscribed' = FALSE /\ running' = FALSE /\ loop' = "ended"
      /\ batch' = <<>> /\ step' = "start" /\ offset' = stored /\ failures' = 0
      /\ fetching' = None /\ downloads' = {} /\ unflushed' = {}
      /\ burst' = [c \in Chats |-> None] /\ album' = [c \in Chats |-> None]
  BY DEF Gone, telegram, files
<1>3. PilesGood(burst', album', fetching', downloads') /\ \A i : ~ Held(i)'
  BY <1>2, NoPiles DEF Held
<1>4. PilesOK' /\ PilesTyped(burst', album', fetching', downloads')
  BY <1>2, <1>3, PilesCarry DEF PilesGood
<1>5. TypeOK'
  <2>1. failures' \in 0..MaxFailures /\ restarts' \in 0..(MaxRestarts + 1)
    BY <1>1, <1>2, BoundsAssumption DEF TypeOK, PollerOK
  <2>2. batch' \in Seq(Ids) /\ (loop' = "handling") = (batch' # <<>>)
    BY <1>2
  <2>3. downloads' \subseteq Seq(Ids) /\ unflushed' \subseteq Chats
    BY <1>2
  <2>. QED  BY <1>1, <1>2, <1>4, <2>1, <2>2, <2>3 DEF TypeOK, PilesTyped
<1>6. PollerOK' /\ StepOK'
  BY <1>1, <1>2 DEF PollerOK, StepOK, Messages
<1>7. PilesTimely'
  BY <1>2, <1>3 DEF PilesTimely
<1>8. \A i \in Ids : HandledNow(i)' <=> i < stored
  BY <1>2 DEF HandledNow
<1>9. PublishedOK' /\ Accounted'
  BY <1>2, <1>3, <1>8, RestartStep
<1>. QED  BY <1>4, <1>5, <1>6, <1>7, <1>9 DEF InboundInv

LEMMA EndStep ==
  ASSUME InboundInv, Exit \/ Crash
  PROVE  InboundInv'
<1>1. TypeOK /\ PollerOK /\ PilesTimely /\ PilesGood(burst, album, fetching, downloads)
  BY Parts
<1>2. Downloading \subseteq Ids /\ cut \subseteq Ids /\ lost \subseteq Ids /\ Sent \subseteq Ids
  <2>1. \A d \in downloads : Range(d) \subseteq Ids
    BY <1>1, PileRange DEF TypeOK
  <2>. QED  BY <1>1, <2>1, Basics DEF Downloading, Piled, TypeOK
<1>3. Buffers \subseteq Ids
  <2>1. \A c \in Chats : Range(burst[c]) \subseteq Ids /\ Range(album[c]) \subseteq Ids
    BY <1>1, PileRange DEF TypeOK
  <2>2. Range(fetching) \subseteq Ids
    BY <1>1, PileRange DEF TypeOK
  <2>. QED  BY <2>1, <2>2 DEF Buffers, Piled
<1>4. CASE Exit
  <2>1. /\ Gone /\ surface = "flushing" /\ unflushed = {} /\ fetching = None
        /\ lost' = lost \cup Downloading /\ cut' = cut
    BY <1>4 DEF Exit
  <2>2. batch = <<>>
    BY <1>1, <2>1 DEF PollerOK
  <2>3. \A i : Held(i) => i \in Downloading
    <3>1. \A c \in Chats : burst[c] = None /\ album[c] = None
      BY <1>1, <2>1 DEF PilesTimely
    <3>. QED  BY <2>1, <3>1, RangeOfNone DEF Held, HeldIn, Downloading, Piled
  <2>. QED  BY <1>2, <2>1, <2>2, <2>3, GoneStep
<1>5. CASE Crash
  <2>1. /\ Gone /\ surface # "off"
        /\ lost' = lost \cup {i \in Buffers \cup Downloading : i < stored}
        /\ cut' = IF batch = <<>> THEN cut ELSE cut \cup {This}
    BY <1>5 DEF Crash
  <2>2. batch # <<>> => This = stored /\ stored \in Ids
    BY <1>1, Basics
  <2>3. \A i \in Sent : Held(i) /\ i < stored => i \in lost'
    BY <2>1, HeldIs
  <2>4. cut \subseteq cut' /\ cut' \subseteq Ids /\ (batch # <<>> => stored \in cut')
    BY <1>2, <2>1, <2>2
  <2>5. lost \subseteq lost' /\ lost' \subseteq Ids
    BY <1>2, <1>3, <2>1
  <2>. QED  BY <2>1, <2>3, <2>4, <2>5, GoneStep
<1>. QED  BY <1>4, <1>5

LEMMA InboundInit == Init => InboundInv
<1>. SUFFICES ASSUME Init PROVE InboundInv
  OBVIOUS
<1>1. /\ inbox = <<>> /\ stored = 1 /\ published = <<>> /\ surface = "off" /\ subscribed = FALSE
      /\ running = FALSE /\ loop = "ended" /\ offset = 1 /\ failures = 0 /\ batch = <<>>
      /\ step = "start" /\ fetching = None /\ downloads = {} /\ unflushed = {}
      /\ restarts = 0 /\ cut = {} /\ lost = {}
      /\ burst = [c \in Chats |-> None] /\ album = [c \in Chats |-> None]
  BY DEF Init
<1>2. PilesGood(burst, album, fetching, downloads) /\ \A i : ~ Held(i)
  BY <1>1, NoPiles DEF Held
<1>3. TypeOK
  <2>1. batch \in Seq(Ids) /\ (loop = "handling") = (batch # <<>>) /\ inbox \in Seq(Updates)
    BY <1>1
  <2>2. /\ stored \in 1..(MaxUpdates + 1) /\ offset \in 1..(MaxUpdates + 1)
        /\ failures \in 0..MaxFailures /\ restarts \in 0..(MaxRestarts + 1)
    BY <1>1, BoundsAssumption
  <2>3. \A k \in DOMAIN published : published[k].ids \in Seq(Ids) /\ published[k].ids # None
    BY <1>1
  <2>4. /\ burst \in [Chats -> Seq(Ids)] /\ album \in [Chats -> Seq(Ids)] /\ fetching \in Seq(Ids)
        /\ downloads \subseteq Seq(Ids)
    BY <1>2 DEF PilesGood, PilesTyped
  <2>. QED  BY <1>1, <2>1, <2>2, <2>3, <2>4 DEF TypeOK
<1>4. PollerOK /\ StepOK
  BY <1>1, BoundsAssumption DEF PollerOK, StepOK
<1>5. PilesTimely /\ PilesOK
  BY <1>1, <1>2 DEF PilesTimely, PilesOK
<1>6. Sent = {} /\ \A i : Entries(i) = {}
  BY <1>1 DEF Sent, Entries
<1>7. PublishedOK
  <2>1. \A i \in Ids : Counted(i)
    BY <1>1, <1>6, FS_EmptySet DEF Counted
  <2>2. NotOvertaken /\ InOrder
    BY <1>1, <1>6 DEF NotOvertaken, InOrder
  <2>. QED  BY <1>6, <2>1, <2>2 DEF PublishedOK
<1>8. Accounted
  BY <1>6 DEF Accounted
<1>. QED  BY <1>3, <1>4, <1>5, <1>7, <1>8 DEF InboundInv

LEMMA Stuttering ==
  ASSUME InboundInv, UNCHANGED vars
  PROVE  InboundInv'
<1>1. UNCHANGED <<inbox, stored, published, surface, subscribed, running, loop, offset, failures, batch,
                  step, burst, album, fetching, downloads, unflushed, restarts, cut, lost>>
  BY DEF vars, telegram, files, poller, pending, history
<1>2. TypeOK' /\ PollerOK' /\ StepOK'
  BY SMTT(40), <1>1, Parts DEF TypeOK, PollerOK, Messages, StepOK, Denied, CommandResult, Update, Kind, Chat
<1>3. PilesOK'
  BY <1>1, Parts, PilesCarry
<1>4. \A i \in Ids : (HandledNow(i)' <=> HandledNow(i)) /\ (Held(i)' <=> Held(i))
  BY <1>1 DEF HandledNow, Held, HeldIn
<1>5. PublishedOK' /\ Accounted' /\ \A i \in Ids : Held(i)' => HandledNow(i)'
  BY <1>1, <1>4, QuietStep
<1>6. PilesTimely'
  BY <1>1, <1>5, Parts DEF PilesTimely
<1>. QED  BY <1>2, <1>3, <1>5, <1>6 DEF InboundInv

LEMMA InboundNext == InboundInv /\ [Next]_vars => InboundInv'
<1>. SUFFICES ASSUME InboundInv, [Next]_vars PROVE InboundInv'
  OBVIOUS
<1>1. CASE UserSends
  BY <1>1, SendStep
<1>2. CASE Polling
  BY <1>2, PollingStep
<1>3. CASE Answer
  BY <1>3, AnswerStep
<1>4. CASE Begin
  BY <1>4, BeginStep
<1>5. CASE Unheard
  BY <1>5, UnheardStep
<1>6. CASE Flushed
  BY <1>6, FlushedStep
<1>7. CASE Own
  BY <1>7, OwnStep
<1>8. CASE Fetched
  BY <1>8, FetchedStep
<1>9. CASE Replied
  BY <1>9, RepliedStep
<1>10. CASE Advance
  BY <1>10, AdvanceStep
<1>11. ASSUME NEW c \in Chats, BurstTimer(c) \/ AlbumTimer(c) \/ FlushChat(c) PROVE InboundInv'
  BY <1>11, BurstTimerStep, AlbumTimerStep, FlushChatStep
<1>12. ASSUME NEW d \in downloads, DownloadEnds(d) PROVE InboundInv'
  BY <1>12, DownloadStep
<1>13. CASE FlushedChat
  BY <1>13, FlushedChatStep
<1>14. CASE Exit \/ Crash
  BY <1>14, EndStep
<1>15. CASE UNCHANGED vars
  BY <1>15, Stuttering
<1>. QED  BY <1>1, <1>2, <1>3, <1>4, <1>5, <1>6, <1>7, <1>8, <1>9, <1>10, <1>11, <1>12, <1>13, <1>14,
             <1>15 DEF Next, Polling

LEMMA InboundAlways == Spec => []InboundInv
BY InboundInit, InboundNext, PTL DEF Spec

----------------------------------------------------------------------------
(* What the log of a chat shows of its updates.                            *)

LEMMA InboundAccounts == InboundInv => UpdatesAccounted
<1>. SUFFICES ASSUME InboundInv PROVE UpdatesAccounted
  OBVIOUS
<1>1. TypeOK /\ PollerOK /\ PublishedOK /\ Accounted
  BY Parts
<1>2. Sent \subseteq Ids /\ stored \in Nat /\ stored <= Len(inbox) + 1 /\ Len(inbox) \in Nat
  BY <1>1, Basics
<1>3. NothingSkipped
  <2>. SUFFICES ASSUME NEW i \in 1..(stored - 1)
                PROVE  Silent(i) \/ Entries(i) # {} \/ i \in Buffers \/ i \in Downloading \/ i \in lost
    BY DEF NothingSkipped
  <2>1. i \in Sent /\ HandledNow(i)
    BY <1>2 DEF Sent, HandledNow
  <2>2. Silent(i) \/ Entries(i) # {} \/ Held(i) \/ i \in lost
    BY <1>1, <2>1 DEF Accounted
  <2>. QED  BY <2>2, HeldIs
<1>4. RepeatsExcused
  <2>. SUFFICES ASSUME NEW i \in Sent, Cardinality(Entries(i)) > 1
                PROVE  i \in cut /\ Cardinality(Entries(i)) <= 1 + restarts
    BY DEF RepeatsExcused, Sent
  <2>. QED  BY <1>1, <1>2 DEF PublishedOK, Counted
<1>5. InOrder
  BY <1>1 DEF PublishedOK
<1>. QED  BY <1>1, <1>3, <1>4, <1>5 DEF UpdatesAccounted

\* telegram/poller.ts and telegram/bridge.ts: of the updates Telegram has handed out, each one
\* below the stored offset is in the log, was answered, waits in this process, or was lost with
\* a process; one is published again only after a crash that cut its handling short; and a
\* chat's updates come in the order they were sent, albums that a timer fetches excepted.
THEOREM EveryUpdateAccounted == Spec => []UpdatesAccounted
BY InboundAlways, InboundAccounts, PTL
=============================================================================
