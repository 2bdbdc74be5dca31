--------------------------- MODULE DetectionsProofs ---------------------------
(***************************************************************************)
(* The life of detections (runtime.py, process), for every set of events,  *)
(* cameras, frames, zones and reports and for every bound: what was lost   *)
(* with its camera stays lost, a detection that ended is revived by newer  *)
(* evidence alone, a PTZ report reaches every cached detection, and only a *)
(* replay brings an older location.                                        *)
(*                                                                         *)
(* The inductive invariant adds three things to what the runs check.  A    *)
(* replay writes into the store what the cache holds, so that the cache    *)
(* must hold nothing of an event that was lost (LostIsUncached), and no    *)
(* event twice (CacheTyped: the second envelope would undo the first).     *)
(* And whether a message may bring an older location depends on stamps     *)
(* that a replay has raised: where no frame is refused for a turn, they    *)
(* are never behind the frame of the location (LocationsInOrder).          *)
(***************************************************************************)
EXTENDS Detections, WellFoundedInduction, TLAPS

-----------------------------------------------------------------------------
(***************************************************************************)
(* The cache.  Left is a recursive function: that it satisfies its         *)
(* equation, and what it holds, goes by the least position that does not.  *)
(***************************************************************************)

\* A nonempty set of natural numbers has a least element.
LEMMA LeastElement ==
    ASSUME NEW S \in SUBSET Nat, S # {}
    PROVE  \E d \in S : \A e \in S : d <= e
<1>1. PICK d \in S : \A e \in S : ~ (<<e, d>> \in OpToRel(<, Nat))
  BY NatLessThanWellFounded, WFMin, Zenon
<1>2. \A e \in S : ~ (e < d)
  BY <1>1 DEF OpToRel
<1>3. QED
  BY <1>2, SMT

\* f is what is left of the first n envelopes of a cache s.
IsLeft(f, s, S, n) ==
    f = [i \in 0 .. n |->
            IF i = 0 THEN << >>
            ELSE IF s[i].event \in S THEN Append(f[i - 1], s[i]) ELSE f[i - 1]]

\* Every prefix of a cache leaves something.
LEMMA LeftExists ==
    ASSUME NEW s \in Seq(Envelope), NEW S, NEW n \in 0 .. Len(s)
    PROVE  \E f : IsLeft(f, s, S, n)
<1> DEFINE Bad == {k \in 0 .. Len(s) : ~ \E f : IsLeft(f, s, S, k)}
<1>1. SUFFICES ASSUME Bad # {} PROVE FALSE
  OBVIOUS
<1>2. Bad \in SUBSET Nat
  OBVIOUS
<1>3. PICK k \in Bad : \A j \in Bad : k <= j
  <2> HIDE DEF Bad
  <2> QED
    BY <1>1, <1>2, LeastElement
<1>4. k \in 0 .. Len(s) /\ ~ \E f : IsLeft(f, s, S, k)
  BY <1>3
<1>5. k # 0
  <2>1. IsLeft([i \in 0 .. 0 |-> << >>], s, S, 0)
    BY DEF IsLeft
  <2> QED
    BY <2>1, <1>4
<1>6. k - 1 \in 0 .. Len(s) /\ k - 1 \notin Bad
  BY <1>3, <1>4, <1>5
<1>7. PICK g : IsLeft(g, s, S, k - 1)
  BY <1>6
<1> DEFINE last == IF s[k].event \in S THEN Append(g[k - 1], s[k]) ELSE g[k - 1]
           f == [i \in 0 .. k |-> IF i = k THEN last ELSE g[i]]
<1>8. \A i \in 0 .. k :
          f[i] = IF i = 0 THEN << >>
                 ELSE IF s[i].event \in S THEN Append(f[i - 1], s[i]) ELSE f[i - 1]
  <2> TAKE i \in 0 .. k
  <2>1. CASE i = k
    BY <2>1, <1>4, <1>5
  <2>2. CASE i # k
    <3>1. /\ i \in 0 .. k - 1 /\ f[i] = g[i]
          /\ i # 0 => i - 1 \in 0 .. k - 1 /\ f[i - 1] = g[i - 1]
      BY <2>2, <1>4
    <3>2. g[i] = IF i = 0 THEN << >>
                 ELSE IF s[i].event \in S THEN Append(g[i - 1], s[i]) ELSE g[i - 1]
      BY <3>1, <1>7 DEF IsLeft
    <3> HIDE DEF f
    <3> QED
      BY <3>1, <3>2
  <2> QED
    BY <2>1, <2>2
<1>9. IsLeft(f, s, S, k)
  <2>1. f = [i \in 0 .. k |-> f[i]]
    OBVIOUS
  <2> HIDE DEF f
  <2> QED
    BY <2>1, <1>8 DEF IsLeft
<1> QED
  BY <1>4, <1>9

LEMMA LeftEquation ==
    ASSUME NEW s \in Seq(Envelope), NEW S, NEW i \in 0 .. Len(s)
    PROVE  Left(s, S)[i] = IF i = 0 THEN << >>
                           ELSE IF s[i].event \in S THEN Append(Left(s, S)[i - 1], s[i])
                           ELSE Left(s, S)[i - 1]
<1>1. \E f : IsLeft(f, s, S, Len(s))
  <2>1. Len(s) \in 0 .. Len(s)
    OBVIOUS
  <2> QED
    BY <2>1, LeftExists
<1>2. Left(s, S) = CHOOSE f : IsLeft(f, s, S, Len(s))
  BY DEF Left, IsLeft
<1>3. IsLeft(Left(s, S), s, S, Len(s))
  BY <1>1, <1>2
<1> QED
  BY <1>3 DEF IsLeft
\* A cache that keeps some events holds envelopes of the old one, in whose
\* order no event is repeated.
OnceEach(s) == \A i, j \in DOMAIN s : s[i].event = s[j].event => i = j

HeldOf(t, s, S, n) ==
    /\ t \in Seq(Envelope) /\ Len(t) <= n
    /\ \A i \in DOMAIN t : t[i].event \in S /\ \E j \in 1 .. n : t[i] = s[j]

LEMMA LeftHolds ==
    ASSUME NEW s \in Seq(Envelope), OnceEach(s), NEW S, NEW n \in 0 .. Len(s)
    PROVE  HeldOf(Left(s, S)[n], s, S, n) /\ OnceEach(Left(s, S)[n])
<1> DEFINE Good(k) == HeldOf(Left(s, S)[k], s, S, k) /\ OnceEach(Left(s, S)[k])
           Bad == {k \in 0 .. Len(s) : ~ Good(k)}
<1>1. SUFFICES ASSUME Bad # {} PROVE FALSE
  OBVIOUS
<1>2. Bad \in SUBSET Nat
  OBVIOUS
<1>3. PICK k \in Bad : \A j \in Bad : k <= j
  <2> HIDE DEF Bad
  <2> QED
    BY <1>1, <1>2, LeastElement
<1>4. k \in 0 .. Len(s) /\ ~ Good(k)
  BY <1>3
<1>5. k # 0
  <2>1. Left(s, S)[0] = << >>
    BY LeftEquation, <1>4
  <2>2. Good(0)
    BY <2>1 DEF HeldOf, OnceEach
  <2> QED
    BY <2>2, <1>4
<1>6. k - 1 \in 0 .. Len(s) /\ Good(k - 1)
  BY <1>3, <1>4, <1>5
<1> DEFINE t == Left(s, S)[k - 1]
           u == Left(s, S)[k]
<1>7. u = IF s[k].event \in S THEN Append(t, s[k]) ELSE t
  BY LeftEquation, <1>4, <1>5
<1>8. HeldOf(t, s, S, k - 1) /\ OnceEach(t)
  BY <1>6
<1>9. k \in 1 .. Len(s) /\ s[k] \in Envelope
  BY <1>4, <1>5
<1> HIDE DEF t, u
<1>10. HeldOf(u, s, S, k)
  BY <1>7, <1>8, <1>9 DEF HeldOf
<1>11. OnceEach(u)
  <2>1. CASE s[k].event \in S
    <3>1. u = Append(t, s[k]) /\ t \in Seq(Envelope)
      BY <2>1, <1>7, <1>8 DEF HeldOf
    <3>2. \A i \in DOMAIN t : t[i].event # s[k].event
      BY <1>8, <1>9 DEF HeldOf, OnceEach
    <3> QED
      BY <3>1, <3>2, <1>8 DEF OnceEach
  <2>2. CASE s[k].event \notin S
    BY <2>2, <1>7, <1>8
  <2> QED
    BY <2>1, <2>2
<1> QED
  BY <1>4, <1>10, <1>11 DEF t, u

LEMMA KeepingHolds ==
    ASSUME NEW s \in Seq(Envelope), OnceEach(s), NEW S
    PROVE  /\ HeldOf(Keeping(s, S), s, S, Len(s))
           /\ OnceEach(Keeping(s, S))
<1>1. Len(s) \in 0 .. Len(s)
  OBVIOUS
<1> QED
  BY <1>1, LeftHolds DEF Keeping

-----------------------------------------------------------------------------
(***************************************************************************)
(* Observations and records.                                               *)
(***************************************************************************)

Dimension == {"location", "lifecycle", "image"}

History == [Frame -> Profile \cup {"moving", NotReported}]

\* Stamps are natural numbers in the order of the frames.
LEMMA Sequences ==
    /\ \A n \in Nat : Sequence(n) \in Nat
    /\ \A m, n \in Nat : m <= n => Sequence(m) <= Sequence(n)
BY BoundAssumption DEF Sequence

\* The report in force at a frame is one that was made.
LEMMA ContextIsReported ==
    ASSUME NEW h \in History, NEW n \in Frame
    PROVE  ContextAt(h, n) \in Profile \cup {"moving", NotReported}
<1> DEFINE known == {f \in 1 .. n : h[f] # NotReported}
<1>1. CASE known = {}
  BY <1>1 DEF ContextAt
<1>2. CASE known # {}
  <2> DEFINE back == {n - f : f \in known}
  <2>1. back \in SUBSET Nat /\ back # {}
    BY <1>2 DEF Frame
  <2>2. PICK d \in back : \A b \in back : d <= b
    BY <2>1, LeastElement
  <2>3. \E f \in known : \A g \in known : g <= f
    BY <2>2 DEF Frame
  <2>4. (CHOOSE f \in known : \A g \in known : g <= f) \in known
    BY <2>3
  <2>5. known \subseteq Frame
    BY BoundAssumption DEF Frame
  <2> QED
    BY <1>2, <2>4, <2>5 DEF ContextAt, History
<1> QED
  BY <1>1, <1>2

LEMMA LocationIsTyped ==
    ASSUME NEW m \in Envelope, NEW h \in History
    PROVE  Location(m, h) \in [frame : Frame, method : {"zone", "profile", "camera", "unknown"},
                               area : Zone \cup Profile \cup {NoZone}]
<1>1. m \in EnvelopeType
  BY EnvelopeAssumption
<1>2. ContextAt(h, m.frame) \in Profile \cup {"moving", NotReported}
  BY <1>1, ContextIsReported DEF EnvelopeType
<1> QED
  BY <1>1, <1>2 DEF Location, Method, EnvelopeType

LEMMA ObservationIsRecord ==
    ASSUME NEW m \in Envelope, NEW h \in History
    PROVE  Observation(m, h) \in RecordType
<1>1. m \in EnvelopeType
  BY EnvelopeAssumption
<1>2. m.frame \in Nat /\ m.end \in Nat
  BY <1>1, BoundAssumption DEF EnvelopeType, Frame
<1>3. Sequence(m.frame) \in Nat /\ Sequence(m.end) \in Nat
  BY <1>2, Sequences
<1>4. Image(m) \in ImageType
  BY <1>1 DEF Image, ImageType, EnvelopeType
<1>5. (IF m.end = 0 THEN Active ELSE Ended(m.end)) \in [status : {"active", "ended"}, at : 0 .. MaxInstant]
  BY <1>1, BoundAssumption DEF Active, Ended, EnvelopeType
<1> QED
  BY <1>2, <1>3, <1>4, <1>5, LocationIsTyped DEF Observation, RecordType

\* A merge takes the newer dimensions, whose stamps may only grow.
LEMMA MergeWhole ==
    ASSUME NEW r \in RecordType, NEW o \in RecordType
    PROVE  /\ Merge(r, o) \in RecordType
           /\ \A d \in {"location", "lifecycle"} :
                 \/ /\ Merge(r, o).claim[d] = r.claim[d]
                    /\ \/ Merge(r, o).stamp[d] = r.stamp[d]
                       \/ Merge(r, o).stamp[d] = o.stamp[d] /\ o.stamp[d] > r.stamp[d]
                    /\ o.stamp[d] > r.stamp[d] => o.claim[d] = r.claim[d]
                 \/ /\ Merge(r, o).claim[d] = o.claim[d]
                    /\ Merge(r, o).stamp[d] = o.stamp[d] /\ o.stamp[d] > r.stamp[d]
BY DEF Merge, Newer, NewerOn, RecordType

LEMMA MergeLocation ==
    ASSUME NEW r \in RecordType,
           NEW l \in [frame : Frame, method : {"zone", "profile", "camera", "unknown"},
                      area : Zone \cup Profile \cup {NoZone}],
           NEW n \in Nat
    PROVE  LET q == Merge(r, [claim |-> [location |-> l], stamp |-> [location |-> n]])
           IN  /\ q \in RecordType
               /\ q.claim.lifecycle = r.claim.lifecycle
               /\ n > r.stamp.location => q.claim.location = l
               /\ \/ q.stamp.location = r.stamp.location
                  \/ q.stamp.location = n /\ n > r.stamp.location
BY DEF Merge, Newer, NewerOn, RecordType

LEMMA EndedRecord ==
    ASSUME NEW r \in RecordType \cup {Missing}
    PROVE  /\ EndObservation(r) \in RecordType \cup {Missing}
           /\ ~ IsActive(EndObservation(r))
           /\ r # Missing => /\ EndObservation(r).claim.location = r.claim.location
                             /\ EndObservation(r).stamp.location = r.stamp.location
BY BoundAssumption DEF EndObservation, IsActive, Ended, Merge, Newer, NewerOn, RecordType

\* The stamp of a location is not before its frame.
StampedInOrder(r) == Sequence(r.claim.location.frame) <= r.stamp.location

\* What an admitted message makes of a record.
LEMMA UpsertedRecord ==
    ASSUME NEW r \in RecordType \cup {Missing}, NEW m \in Envelope, NEW h \in History,
           NEW q, q = Upsert(r, Observation(m, h))
    PROVE  /\ q \in RecordType
           /\ r # Missing /\ ~ IsActive(r) /\ IsActive(q) => Sequence(m.frame) > r.stamp.lifecycle
           /\ r # Missing /\ StampedInOrder(r)
                => q.claim.location.frame >= r.claim.location.frame
           /\ r = Missing \/ StampedInOrder(r)
                => StampedInOrder(q) /\ Sequence(m.frame) <= q.stamp.location
<1> DEFINE o == Observation(m, h)
<1>1. o \in RecordType
  BY ObservationIsRecord
<1>2. /\ o.stamp.location = Sequence(m.frame) /\ o.claim.location.frame = m.frame
      /\ o.claim.lifecycle = (IF m.end = 0 THEN Active ELSE Ended(m.end))
      /\ m.end = 0 => o.stamp.lifecycle = Sequence(m.frame)
  BY DEF Observation, Location
<1>3. m.frame \in Nat
  BY EnvelopeAssumption, BoundAssumption DEF EnvelopeType, Frame
<1>4. CASE r = Missing
  <2>1. q = o
    BY <1>4 DEF Upsert
  <2>2. Sequence(m.frame) \in Nat
    BY <1>3, Sequences
  <2> HIDE DEF o
  <2> QED
    BY <1>1, <1>2, <1>4, <2>1, <2>2 DEF StampedInOrder
<1>5. CASE r # Missing
  <2>1. q = Merge(r, o) /\ r \in RecordType
    BY <1>5 DEF Upsert
  <2> HIDE DEF o
  <2>2. q \in RecordType
    BY <1>1, <2>1, MergeWhole
  <2>3. \/ /\ q.claim.location = r.claim.location
           /\ \/ q.stamp.location = r.stamp.location
              \/ q.stamp.location = o.stamp.location /\ o.stamp.location > r.stamp.location
           /\ o.stamp.location > r.stamp.location => o.claim.location = r.claim.location
        \/ /\ q.claim.location = o.claim.location
           /\ q.stamp.location = o.stamp.location /\ o.stamp.location > r.stamp.location
    BY <1>1, <2>1, MergeWhole
  <2>4. \/ q.claim.lifecycle = r.claim.lifecycle
        \/ q.claim.lifecycle = o.claim.lifecycle /\ o.stamp.lifecycle > r.stamp.lifecycle
    BY <1>1, <2>1, MergeWhole
  <2>5. ~ IsActive(r) /\ IsActive(q) => Sequence(m.frame) > r.stamp.lifecycle
    BY <1>2, <1>5, <2>4 DEF IsActive, Ended
  <2>6. /\ r.stamp.location \in Nat /\ o.stamp.location \in Nat
        /\ r.claim.location.frame \in Nat /\ q.claim.location.frame \in Nat
    BY <1>1, <2>1, <2>2, BoundAssumption DEF RecordType, Frame
  <2>7. StampedInOrder(r) => q.claim.location.frame >= r.claim.location.frame
    BY <1>2, <1>3, <2>3, <2>6, Sequences DEF StampedInOrder
  <2>8. StampedInOrder(r) => StampedInOrder(q) /\ Sequence(m.frame) <= q.stamp.location
    BY <1>2, <1>3, <2>3, <2>6, Sequences DEF StampedInOrder
  <2> QED
    BY <1>5, <2>2, <2>5, <2>7, <2>8
<1> QED
  BY <1>4, <1>5

\* What a message, admitted or not, makes of a record.
LEMMA ReceivedRecord ==
    ASSUME NEW r \in RecordType \cup {Missing}, NEW m \in Envelope, NEW h \in History,
           NEW q, q = Received(m, r, h)
    PROVE  /\ q \in RecordType \cup {Missing}
           /\ r # Missing /\ ~ IsActive(r) /\ IsActive(q) => Sequence(m.frame) > r.stamp.lifecycle
           /\ r # Missing /\ q # Missing /\ StampedInOrder(r)
                => q.claim.location.frame >= r.claim.location.frame
           /\ q # Missing /\ (r = Missing \/ StampedInOrder(r))
                => StampedInOrder(q) /\ (Admitted(m, h) => Sequence(m.frame) <= q.stamp.location)
<1>1. CASE Admitted(m, h)
  <2>1. q = Upsert(r, Observation(m, h))
    BY <1>1 DEF Received
  <2> QED
    BY <2>1, UpsertedRecord
<1>2. CASE ~ Admitted(m, h)
  <2>1. q = EndObservation(r)
    BY <1>2 DEF Received
  <2>2. r = Missing => q = Missing
    BY <2>1 DEF EndObservation, IsActive
  <2>3. r # Missing => r.claim.location.frame \in Nat
    BY BoundAssumption DEF RecordType, Frame
  <2> QED
    BY <1>2, <2>1, <2>2, <2>3, EndedRecord DEF StampedInOrder
<1> QED
  BY <1>1, <1>2

\* What a replay makes of a record.
LEMMA ReplayedRecord ==
    ASSUME NEW r \in RecordType \cup {Missing}, NEW m \in Envelope, NEW h \in History,
           NEW q, q = Replayed(m, r, h)
    PROVE  /\ q \in RecordType \cup {Missing}
           /\ m.valid /\ IsActive(q) => q.claim.location = Location(m, h)
           /\ r # Missing /\ ~ IsActive(r) => ~ IsActive(q)
           /\ r # Missing => q.stamp.location >= r.stamp.location
           /\ /\ r # Missing => /\ StampedInOrder(r)
                                /\ m.valid /\ Admitted(m, h) => Sequence(m.frame) <= r.stamp.location
              /\ q # Missing
              => /\ StampedInOrder(q)
                 /\ m.valid /\ Admitted(m, h) => Sequence(m.frame) <= q.stamp.location
<1>1. m.frame \in Nat /\ Sequence(m.frame) \in Nat
  BY EnvelopeAssumption, BoundAssumption, Sequences DEF EnvelopeType, Frame
<1>2. r # Missing => r.stamp.location \in Nat
  BY DEF RecordType
<1>3. CASE ~ m.valid
  BY <1>2, <1>3 DEF Replayed
<1>4. CASE m.valid /\ ~ Admitted(m, h)
  <2>1. q = EndObservation(r)
    BY <1>4 DEF Replayed
  <2>2. r = Missing => q = Missing
    BY <2>1 DEF EndObservation, IsActive
  <2> QED
    BY <1>2, <1>4, <2>1, <2>2, EndedRecord DEF StampedInOrder
<1>5. CASE m.valid /\ Admitted(m, h) /\ r = Missing
  <2>1. q = Observation(m, h)
    BY <1>5 DEF Replayed
  <2> QED
    BY <1>1, <1>5, <2>1, ObservationIsRecord DEF Observation, Location, StampedInOrder
<1>6. CASE m.valid /\ Admitted(m, h) /\ r # Missing
  <2> DEFINE n == r.stamp.location + 1
  <2>1. q = Merge(r, [claim |-> [location |-> Location(m, h)], stamp |-> [location |-> n]])
    BY <1>6 DEF Replayed
  <2>2. r \in RecordType /\ n \in Nat /\ n > r.stamp.location
    BY <1>6 DEF RecordType
  <2>3. /\ q \in RecordType
        /\ q.claim.lifecycle = r.claim.lifecycle
        /\ q.claim.location = Location(m, h)
        /\ q.stamp.location \in {r.stamp.location, n}
    BY <2>1, <2>2, LocationIsTyped, MergeLocation
  <2>4. q.claim.location.frame = m.frame
    BY <2>3 DEF Location
  <2> QED
    BY <1>1, <1>2, <1>6, <2>2, <2>3, <2>4 DEF StampedInOrder, IsActive
<1> QED
  BY <1>3, <1>4, <1>5, <1>6

-----------------------------------------------------------------------------
(***************************************************************************)
(* The inductive invariant.                                                *)
(***************************************************************************)

Face == [name : Identity, frame : Frame]

\* The part of the type that the other conjuncts need.
StoreTyped ==
    /\ event \in [Event -> RecordType \cup {Missing}]
    /\ face \in [Event -> Face \cup {Missing}]
    /\ revisions \in [Event -> 0 .. MaxRevision]
    /\ context \in [Turning -> History]
    /\ forgotten \subseteq Event

\* The cache keeps to its limit and holds one envelope per event.
CacheTyped ==
    /\ envelopes \in Seq(Envelope)
    /\ Len(envelopes) <= MaxEnvelopes
    /\ OnceEach(envelopes)

\* What was lost with its camera is not in the cache either.
LostIsUncached == \A i \in DOMAIN envelopes : envelopes[i].event \notin forgotten

\* At a camera whose frames are never refused for a turn, no location is
\* stamped before its own frame, nor before the one its replay would give it.
LocationsInOrder ==
    \A e \in Event :
        (CameraOf[e] \notin Strict \cap Turning /\ event[e] # Missing) =>
            /\ StampedInOrder(event[e])
            /\ \A i \in DOMAIN envelopes :
                  (/\ envelopes[i].event = e /\ envelopes[i].valid
                   /\ Admitted(envelopes[i], HistoryOf(context, e)))
                  => Sequence(envelopes[i].frame) <= event[e].stamp.location

IInv ==
    /\ StoreTyped
    /\ CacheTyped
    /\ LostIsUncached
    /\ RecoveryNeedsNewEvidence
    /\ EveryDetectionIsNumbered
    /\ LocationsInOrder

-----------------------------------------------------------------------------
(***************************************************************************)
(* What the actions share.                                                 *)
(***************************************************************************)

LEMMA HistoryIsTyped ==
    ASSUME NEW c \in [Turning -> History], NEW e \in Event
    PROVE  HistoryOf(c, e) \in History
BY DEF HistoryOf, History

\* Whether a frame is admitted depends on the PTZ history only at a camera
\* that is strict and turns.
LEMMA AdmissionIsFixed ==
    ASSUME NEW c, NEW d, NEW m \in Envelope, CameraOf[m.event] \notin Strict \cap Turning
    PROVE  Admitted(m, HistoryOf(c, m.event)) <=> Admitted(m, HistoryOf(d, m.event))
BY DEF Admitted, HistoryOf

\* A new arrival takes the place of the envelope of its event.
LEMMA Remembered ==
    ASSUME CacheTyped, NEW m \in Envelope, Remember(m)
    PROVE  /\ CacheTyped'
           /\ envelopes' # << >> /\ envelopes'[Len(envelopes')] = m
           /\ \A i \in DOMAIN envelopes' :
                 \/ envelopes'[i] = m
                 \/ /\ envelopes'[i].event # m.event
                    /\ \E j \in DOMAIN envelopes : envelopes'[i] = envelopes[j]
<1> DEFINE kept == Keeping(envelopes, Event \ {m.event})
           longer == Append(kept, m)
<1>1. HeldOf(kept, envelopes, Event \ {m.event}, Len(envelopes)) /\ OnceEach(kept)
  BY KeepingHolds DEF CacheTyped
<1> HIDE DEF kept
<1>2. /\ longer \in Seq(Envelope) /\ Len(longer) <= MaxEnvelopes + 1
      /\ longer[Len(longer)] = m /\ Len(longer) >= 1
      /\ \A i \in DOMAIN longer : \/ i = Len(kept) + 1 /\ longer[i] = m
                                  \/ i \in DOMAIN kept /\ longer[i] = kept[i]
  BY <1>1, BoundAssumption DEF HeldOf, CacheTyped
<1>3. \A i \in DOMAIN kept : /\ kept[i].event # m.event
                             /\ \E j \in DOMAIN envelopes : kept[i] = envelopes[j]
  BY <1>1 DEF HeldOf, CacheTyped
<1>4. \A i \in DOMAIN longer :
          \/ longer[i] = m
          \/ /\ longer[i].event # m.event
             /\ \E j \in DOMAIN envelopes : longer[i] = envelopes[j]
  BY <1>2, <1>3
<1>5. OnceEach(longer)
  BY <1>1, <1>2, <1>3 DEF OnceEach
<1>6. envelopes' = IF Len(longer) > MaxEnvelopes THEN Tail(longer) ELSE longer
  BY DEF Remember, kept
<1> HIDE DEF longer
<1>7. CASE Len(longer) <= MaxEnvelopes
  BY <1>2, <1>4, <1>5, <1>6, <1>7, BoundAssumption DEF CacheTyped
<1>8. CASE Len(longer) > MaxEnvelopes
  <2>1. /\ envelopes' = Tail(longer) /\ Len(envelopes') = Len(longer) - 1
        /\ envelopes' \in Seq(Envelope) /\ Len(envelopes') >= 1
        /\ \A i \in DOMAIN envelopes' : i + 1 \in DOMAIN longer /\ envelopes'[i] = longer[i + 1]
    BY <1>2, <1>6, <1>8, BoundAssumption
  <2>2. OnceEach(envelopes')
    BY <1>5, <2>1 DEF OnceEach
  <2> QED
    BY <1>2, <1>4, <2>1, <2>2, BoundAssumption DEF CacheTyped
<1> QED
  BY <1>2, <1>7, <1>8, BoundAssumption DEF CacheTyped

\* Publishing numbers what changed and is held.
LEMMA Published ==
    ASSUME StoreTyped, EveryDetectionIsNumbered, Publish(Changed)
    PROVE  /\ revisions' \in [Event -> 0 .. MaxRevision]
           /\ EveryDetectionIsNumbered'
<1>1. revisions' = [e \in Event |->
          IF Changed # {} /\ ~ Held(e)' THEN 0
          ELSE IF e \in Changed THEN revisions[e] + 1 ELSE revisions[e]]
  BY DEF Publish, Number
<1>2. \A e \in Changed : e \in Event /\ revisions[e] < MaxRevision
  BY DEF Publish, Changed
<1>3. revisions' \in [Event -> 0 .. MaxRevision]
  BY <1>1, <1>2, BoundAssumption DEF StoreTyped
<1>4. ASSUME NEW e \in Event, Held(e)'
      PROVE  revisions'[e] > 0
  <2>1. CASE e \in Changed
    BY <1>1, <1>4, <2>1 DEF StoreTyped
  <2>2. CASE e \notin Changed
    <3>1. event'[e] = event[e] /\ face'[e] = face[e]
      BY <2>2 DEF Changed
    <3>2. Held(e)
      BY <1>4, <3>1 DEF Held
    <3> QED
      BY <1>1, <1>4, <2>2, <3>2 DEF EveryDetectionIsNumbered
  <2> QED
    BY <2>1, <2>2
<1> QED
  BY <1>3, <1>4 DEF EveryDetectionIsNumbered

-----------------------------------------------------------------------------
(***************************************************************************)
(* Every action keeps the invariant.                                       *)
(***************************************************************************)

LEMMA InitIInv == Init => IInv
<1> SUFFICES ASSUME Init PROVE IInv
  OBVIOUS
<1>1. StoreTyped
  BY BoundAssumption DEF Init, StoreTyped, History
<1>2. CacheTyped
  BY BoundAssumption DEF Init, CacheTyped, OnceEach
<1>3. LostIsUncached /\ RecoveryNeedsNewEvidence /\ EveryDetectionIsNumbered
  BY DEF Init, LostIsUncached, RecoveryNeedsNewEvidence, EveryDetectionIsNumbered, Held
<1>4. LocationsInOrder
  BY DEF Init, LocationsInOrder
<1> QED
  BY <1>1, <1>2, <1>3, <1>4 DEF IInv

LEMMA EventMessageKeepsIInv ==
    ASSUME IInv, NEW m \in Envelope, EventMessage(m)
    PROVE  IInv'
<1> DEFINE h == HistoryOf(context, m.event)
           q == Received(m, event[m.event], h)
<1>1. m.event \in Event
  BY EnvelopeAssumption DEF EnvelopeType
<1>2. h \in History /\ event[m.event] \in RecordType \cup {Missing}
  BY <1>1, HistoryIsTyped DEF IInv, StoreTyped
<1>3. /\ event' = [event EXCEPT ![m.event] = q]
      /\ face' = face /\ context' = context /\ forgotten' = forgotten \ {m.event}
      /\ Remember(m) /\ Publish(Changed)
  BY DEF EventMessage
<1>4. /\ q \in RecordType \cup {Missing}
      /\ q # Missing /\ (event[m.event] = Missing \/ StampedInOrder(event[m.event]))
           => StampedInOrder(q) /\ (Admitted(m, h) => Sequence(m.frame) <= q.stamp.location)
  BY <1>2, ReceivedRecord
<1>5. /\ CacheTyped'
      /\ \A i \in DOMAIN envelopes' :
            \/ envelopes'[i] = m
            \/ /\ envelopes'[i].event # m.event
               /\ \E j \in DOMAIN envelopes : envelopes'[i] = envelopes[j]
  BY <1>3, Remembered DEF IInv
<1> HIDE DEF q, h
<1>6. revisions' \in [Event -> 0 .. MaxRevision] /\ EveryDetectionIsNumbered'
  BY <1>3, Published DEF IInv
<1>7. StoreTyped'
  BY <1>1, <1>3, <1>4, <1>6 DEF IInv, StoreTyped
<1>8. LostIsUncached'
  BY <1>3, <1>5 DEF IInv, LostIsUncached
<1>9. RecoveryNeedsNewEvidence'
  BY <1>3 DEF IInv, StoreTyped, RecoveryNeedsNewEvidence, Held
<1>10. LocationsInOrder'
  <2> SUFFICES ASSUME NEW e \in Event,
                      CameraOf[e] \notin Strict \cap Turning, event'[e] # Missing
               PROVE  /\ StampedInOrder(event'[e])
                      /\ \A i \in DOMAIN envelopes' :
                            (/\ envelopes'[i].event = e /\ envelopes'[i].valid
                             /\ Admitted(envelopes'[i], HistoryOf(context', e)))
                            => Sequence(envelopes'[i].frame) <= event'[e].stamp.location
    BY DEF LocationsInOrder, StampedInOrder
  <2>1. CASE e = m.event
    <3>1. event'[e] = q
      BY <1>1, <1>3, <2>1 DEF IInv, StoreTyped
    <3>2. StampedInOrder(q) /\ (Admitted(m, h) => Sequence(m.frame) <= q.stamp.location)
      BY <1>4, <2>1, <3>1 DEF IInv, LocationsInOrder
    <3>3. \A i \in DOMAIN envelopes' : envelopes'[i].event = e => envelopes'[i] = m
      BY <1>5, <2>1
    <3> QED
      BY <1>3, <2>1, <3>1, <3>2, <3>3 DEF h
  <2>2. CASE e # m.event
    <3>1. event'[e] = event[e]
      BY <1>3, <2>2 DEF IInv, StoreTyped
    <3>2. \A i \in DOMAIN envelopes' : envelopes'[i].event = e =>
              \E j \in DOMAIN envelopes : envelopes'[i] = envelopes[j]
      BY <1>5, <2>2
    <3> QED
      BY <1>3, <3>1, <3>2 DEF IInv, LocationsInOrder
  <2> QED
    BY <2>1, <2>2
<1> QED
  BY <1>5, <1>6, <1>7, <1>8, <1>9, <1>10 DEF IInv

LEMMA MalformedEventKeepsIInv ==
    ASSUME IInv, NEW m \in Envelope, MalformedEvent(m)
    PROVE  IInv'
<1>1. /\ event' = [e \in Event |-> Missing]
      /\ face' = face /\ context' = context /\ revisions' = revisions
      /\ forgotten' = forgotten \ {m.event} /\ Remember(m)
  BY DEF MalformedEvent
<1>2. /\ CacheTyped'
      /\ \A i \in DOMAIN envelopes' :
            \/ envelopes'[i] = m
            \/ /\ envelopes'[i].event # m.event
               /\ \E j \in DOMAIN envelopes : envelopes'[i] = envelopes[j]
  BY <1>1, Remembered DEF IInv
<1>3. StoreTyped'
  BY <1>1 DEF IInv, StoreTyped
<1>4. LostIsUncached'
  BY <1>1, <1>2 DEF IInv, LostIsUncached
<1>5. RecoveryNeedsNewEvidence'
  BY <1>1 DEF IInv, StoreTyped, RecoveryNeedsNewEvidence, Held
<1>6. EveryDetectionIsNumbered'
  BY <1>1 DEF IInv, EveryDetectionIsNumbered, Held
<1>7. LocationsInOrder'
  BY <1>1 DEF LocationsInOrder
<1> QED
  BY <1>2, <1>3, <1>4, <1>5, <1>6, <1>7 DEF IInv

LEMMA FaceMessageKeepsIInv ==
    ASSUME IInv, NEW e \in Event, NEW name \in Identity, NEW frame \in Frame,
           FaceMessage(e, name, frame)
    PROVE  IInv'
<1>1. /\ event' = event /\ envelopes' = envelopes /\ context' = context
      /\ forgotten' = forgotten \ {e} /\ Publish(Changed)
      /\ face' = [face EXCEPT ![e] =
            IF @ = Missing THEN [name |-> name, frame |-> frame]
            ELSE IF frame > @.frame THEN [name |-> name, frame |-> frame] ELSE @]
  BY DEF FaceMessage
<1>2. revisions' \in [Event -> 0 .. MaxRevision] /\ EveryDetectionIsNumbered'
  BY <1>1, Published DEF IInv
<1>3. StoreTyped'
  BY <1>1, <1>2 DEF IInv, StoreTyped, Face
<1>4. CacheTyped' /\ LostIsUncached'
  BY <1>1 DEF IInv, CacheTyped, LostIsUncached
<1>5. RecoveryNeedsNewEvidence'
  BY <1>1 DEF IInv, StoreTyped, RecoveryNeedsNewEvidence, Held
<1>6. LocationsInOrder'
  BY <1>1 DEF IInv, LocationsInOrder
<1> QED
  BY <1>2, <1>3, <1>4, <1>5, <1>6 DEF IInv

\* A PTZ report replays every cached envelope into the record of its event
\* and touches no other.
LEMMA Replay ==
    ASSUME StoreTyped, CacheTyped,
           NEW camera \in Turning, NEW frame \in Frame, NEW reported \in Profile \cup {"moving"},
           ContextReport(camera, frame, reported)
    PROVE  /\ context' \in [Turning -> History]
           /\ envelopes' = envelopes /\ face' = face /\ forgotten' = forgotten
           /\ Publish(Changed)
           /\ event' \in [Event -> RecordType \cup {Missing}]
           /\ \A e \in Event :
                 \/ event'[e] = event[e] /\ \A i \in DOMAIN envelopes : envelopes[i].event # e
                 \/ \E i \in DOMAIN envelopes :
                       /\ envelopes[i].event = e
                       /\ \A j \in DOMAIN envelopes : envelopes[j].event = e => j = i
                       /\ event'[e] = Replayed(envelopes[i], event[e], HistoryOf(context', e))
<1> DEFINE cached(e) == \E i \in DOMAIN envelopes : envelopes[i].event = e
           of(e) == CHOOSE i \in DOMAIN envelopes : envelopes[i].event = e
<1>1. /\ context' = [context EXCEPT ![camera][frame] = reported]
      /\ envelopes' = envelopes /\ face' = face /\ forgotten' = forgotten
      /\ event' = [e \in Event |->
            IF cached(e) THEN Replayed(envelopes[of(e)], event[e], HistoryOf(context', e))
            ELSE event[e]]
      /\ Publish(Changed)
  BY DEF ContextReport
<1>2. context' \in [Turning -> History]
  BY <1>1 DEF StoreTyped, History
<1>3. \A e \in Event :
          \/ event'[e] = event[e] /\ ~ cached(e)
          \/ \E i \in DOMAIN envelopes :
                /\ envelopes[i].event = e
                /\ \A j \in DOMAIN envelopes : envelopes[j].event = e => j = i
                /\ event'[e] = Replayed(envelopes[i], event[e], HistoryOf(context', e))
  <2> TAKE e \in Event
  <2>1. CASE ~ cached(e)
    BY <1>1, <2>1
  <2>2. CASE cached(e)
    <3>1. of(e) \in DOMAIN envelopes /\ envelopes[of(e)].event = e
      BY <2>2
    <3>2. event'[e] = Replayed(envelopes[of(e)], event[e], HistoryOf(context', e))
      BY <1>1, <2>2
    <3> HIDE DEF of
    <3> QED
      BY <3>1, <3>2 DEF CacheTyped, OnceEach
  <2> QED
    BY <2>1, <2>2
<1>4. \A e \in Event : event'[e] \in RecordType \cup {Missing}
  <2> TAKE e \in Event
  <2>1. CASE event'[e] = event[e]
    BY <2>1 DEF StoreTyped
  <2>2. CASE event'[e] # event[e]
    <3>1. PICK i \in DOMAIN envelopes :
              event'[e] = Replayed(envelopes[i], event[e], HistoryOf(context', e))
      BY <1>3, <2>2
    <3>2. HistoryOf(context', e) \in History
      BY <1>2, HistoryIsTyped
    <3>3. envelopes[i] \in Envelope /\ event[e] \in RecordType \cup {Missing}
      BY DEF StoreTyped, CacheTyped
    <3> QED
      BY <3>1, <3>2, <3>3, ReplayedRecord
  <2> QED
    BY <2>1, <2>2
<1>5. event' \in [Event -> RecordType \cup {Missing}]
  BY <1>1, <1>4
<1> QED
  BY <1>1, <1>2, <1>3, <1>5

LEMMA ContextReportKeepsIInv ==
    ASSUME IInv, NEW camera \in Turning, NEW frame \in Frame,
           NEW reported \in Profile \cup {"moving"}, ContextReport(camera, frame, reported)
    PROVE  IInv'
<1>1. /\ context' \in [Turning -> History]
      /\ envelopes' = envelopes /\ face' = face /\ forgotten' = forgotten
      /\ Publish(Changed)
      /\ event' \in [Event -> RecordType \cup {Missing}]
  BY Replay DEF IInv
<1>2. \A e \in Event :
          \/ event'[e] = event[e] /\ \A i \in DOMAIN envelopes : envelopes[i].event # e
          \/ \E i \in DOMAIN envelopes :
                /\ envelopes[i].event = e
                /\ \A j \in DOMAIN envelopes : envelopes[j].event = e => j = i
                /\ event'[e] = Replayed(envelopes[i], event[e], HistoryOf(context', e))
  BY Replay DEF IInv
<1>3. revisions' \in [Event -> 0 .. MaxRevision] /\ EveryDetectionIsNumbered'
  BY <1>1, Published DEF IInv
<1>4. StoreTyped'
  BY <1>1, <1>3 DEF IInv, StoreTyped
<1>5. CacheTyped' /\ LostIsUncached'
  BY <1>1 DEF IInv, CacheTyped, LostIsUncached
<1>6. RecoveryNeedsNewEvidence'
  <2>1. \A e \in forgotten : event'[e] = event[e]
    BY <1>2 DEF IInv, StoreTyped, LostIsUncached
  <2> QED
    BY <1>1, <2>1 DEF IInv, RecoveryNeedsNewEvidence, Held
<1>7. LocationsInOrder'
  <2> SUFFICES ASSUME NEW e \in Event,
                      CameraOf[e] \notin Strict \cap Turning, event'[e] # Missing
               PROVE  /\ StampedInOrder(event'[e])
                      /\ \A i \in DOMAIN envelopes :
                            (/\ envelopes[i].event = e /\ envelopes[i].valid
                             /\ Admitted(envelopes[i], HistoryOf(context', e)))
                            => Sequence(envelopes[i].frame) <= event'[e].stamp.location
    BY <1>1 DEF LocationsInOrder, StampedInOrder
  <2>1. CASE event'[e] = event[e] /\ \A i \in DOMAIN envelopes : envelopes[i].event # e
    BY <2>1 DEF IInv, LocationsInOrder
  <2>2. CASE ~ (event'[e] = event[e] /\ \A i \in DOMAIN envelopes : envelopes[i].event # e)
    <3>1. PICK i \in DOMAIN envelopes :
              /\ envelopes[i].event = e
              /\ \A j \in DOMAIN envelopes : envelopes[j].event = e => j = i
              /\ event'[e] = Replayed(envelopes[i], event[e], HistoryOf(context', e))
      BY <1>2, <2>2
    <3> DEFINE m == envelopes[i]
               h == HistoryOf(context', e)
    <3>2. m \in Envelope /\ m.event = e
      BY <3>1 DEF IInv, CacheTyped
    <3>3. Admitted(m, h) <=> Admitted(m, HistoryOf(context, e))
      BY <3>2, AdmissionIsFixed
    <3>4. event[e] # Missing =>
              /\ StampedInOrder(event[e])
              /\ m.valid /\ Admitted(m, h) => Sequence(m.frame) <= event[e].stamp.location
      BY <3>1, <3>3 DEF IInv, LocationsInOrder
    <3>5. h \in History /\ event[e] \in RecordType \cup {Missing}
      BY <1>1, HistoryIsTyped DEF IInv, StoreTyped
    <3>6. event'[e] = Replayed(m, event[e], h)
      BY <3>1
    <3> HIDE DEF m, h
    <3>7. /\ StampedInOrder(event'[e])
          /\ m.valid /\ Admitted(m, h) => Sequence(m.frame) <= event'[e].stamp.location
      BY <3>2, <3>4, <3>5, <3>6, ReplayedRecord
    <3> QED
      BY <3>1, <3>7 DEF m, h
  <2> QED
    BY <2>1, <2>2
<1> QED
  BY <1>3, <1>4, <1>5, <1>6, <1>7 DEF IInv

LEMMA HealthReportKeepsIInv ==
    ASSUME IInv, NEW h \in HealthEntity, NEW state \in {"up", "down"}, HealthReport(h, state)
    PROVE  IInv'
<1>1. /\ context' = context /\ revisions' = revisions
      /\ CameraUp(h[1]) \/ CameraDown(h[1])
  BY DEF HealthReport
<1>2. CASE CameraUp(h[1])
  BY <1>1, <1>2 DEF CameraUp, IInv, StoreTyped, CacheTyped, LostIsUncached,
     RecoveryNeedsNewEvidence, EveryDetectionIsNumbered, Held, LocationsInOrder
<1>3. CASE CameraDown(h[1])
  <2> DEFINE seen == Seen(h[1])
  <2>1. /\ event' = [e \in Event |-> IF e \in seen THEN Missing ELSE event[e]]
        /\ face' = [e \in Event |-> IF e \in seen THEN Missing ELSE face[e]]
        /\ forgotten' = forgotten \cup seen
        /\ envelopes' = Keeping(envelopes, Event \ seen)
        /\ seen \subseteq Event
    BY <1>3 DEF CameraDown, Seen
  <2>2. HeldOf(envelopes', envelopes, Event \ seen, Len(envelopes)) /\ OnceEach(envelopes')
    BY <2>1, KeepingHolds DEF IInv, CacheTyped
  <2> HIDE DEF seen
  <2>3. \A i \in DOMAIN envelopes' : /\ envelopes'[i].event \notin seen
                                     /\ \E j \in DOMAIN envelopes : envelopes'[i] = envelopes[j]
    BY <2>2 DEF HeldOf, IInv, CacheTyped
  <2>4. StoreTyped'
    BY <1>1, <2>1 DEF IInv, StoreTyped
  <2>5. CacheTyped'
    BY <2>2, BoundAssumption DEF HeldOf, IInv, CacheTyped
  <2>6. LostIsUncached'
    BY <2>1, <2>3 DEF IInv, LostIsUncached
  <2>7. RecoveryNeedsNewEvidence'
    BY <2>1 DEF IInv, StoreTyped, RecoveryNeedsNewEvidence, Held
  <2>8. EveryDetectionIsNumbered'
    BY <1>1, <2>1 DEF IInv, EveryDetectionIsNumbered, Held
  <2>9. LocationsInOrder'
    BY <1>1, <2>1, <2>3 DEF IInv, LocationsInOrder
  <2> QED
    BY <2>4, <2>5, <2>6, <2>7, <2>8, <2>9 DEF IInv
<1> QED
  BY <1>1, <1>2, <1>3

LEMMA RestartKeepsIInv == IInv /\ Restart => IInv'
<1> SUFFICES ASSUME IInv, Restart PROVE IInv'
  OBVIOUS
<1>1. /\ context' = context /\ envelopes' = << >> /\ forgotten' = forgotten
      /\ event' \in [Event -> RecordType \cup {Missing}]
      /\ face' \in [Event -> Face \cup {Missing}]
      /\ \A e \in Event : /\ event'[e] \in {event[e], Missing}
                          /\ face'[e] \in {face[e], Missing}
      /\ revisions' = [e \in Event |-> IF Held(e)' THEN revisions[e] ELSE 0]
  BY DEF Restart, IInv, StoreTyped
<1>2. \A e \in Event : Held(e)' => Held(e)
  BY <1>1 DEF Held
<1>3. StoreTyped'
  BY <1>1, BoundAssumption DEF IInv, StoreTyped
<1>4. CacheTyped' /\ LostIsUncached'
  BY <1>1, BoundAssumption DEF CacheTyped, OnceEach, LostIsUncached
<1>5. RecoveryNeedsNewEvidence'
  BY <1>1, <1>2 DEF IInv, StoreTyped, RecoveryNeedsNewEvidence
<1>6. EveryDetectionIsNumbered'
  BY <1>1, <1>2 DEF IInv, EveryDetectionIsNumbered
<1>7. LocationsInOrder'
  BY <1>1 DEF IInv, LocationsInOrder, StampedInOrder
<1> QED
  BY <1>3, <1>4, <1>5, <1>6, <1>7 DEF IInv

LEMMA NextIInv == IInv /\ [Next]_vars => IInv'
<1> SUFFICES ASSUME IInv, [Next]_vars PROVE IInv'
  OBVIOUS
<1>1. CASE \E m \in Envelope : EventMessage(m)
  BY <1>1, EventMessageKeepsIInv
<1>2. CASE \E m \in Envelope : MalformedEvent(m)
  BY <1>2, MalformedEventKeepsIInv
<1>3. CASE \E e \in Event, name \in Identity, frame \in Frame : FaceMessage(e, name, frame)
  BY <1>3, FaceMessageKeepsIInv
<1>4. CASE \E camera \in Turning, frame \in Frame, reported \in Profile \cup {"moving"} :
              ContextReport(camera, frame, reported)
  BY <1>4, ContextReportKeepsIInv
<1>5. CASE \E h \in HealthEntity, state \in {"up", "down"} : HealthReport(h, state)
  BY <1>5, HealthReportKeepsIInv
<1>6. CASE Restart
  BY <1>6, RestartKeepsIInv
<1>7. CASE UNCHANGED vars
  BY <1>7 DEF vars, IInv, StoreTyped, CacheTyped, LostIsUncached,
     RecoveryNeedsNewEvidence, EveryDetectionIsNumbered, Held, LocationsInOrder
<1> QED
  BY <1>1, <1>2, <1>3, <1>4, <1>5, <1>6, <1>7 DEF Next

-----------------------------------------------------------------------------
(***************************************************************************)
(* The theorems.                                                           *)
(***************************************************************************)

\* Whatever messages, faces, PTZ reports, health reports and restarts come in
\* whatever order, the store, the envelope cache and the stamps stay together.
THEOREM Invariance == Spec => []IInv
<1> QED
  BY InitIInv, NextIInv, PTL DEF Spec

\* A camera that comes back alone (_apply_camera_availability) brings none of
\* the detections back that went with it: the cache gave up their envelopes, so
\* that no PTZ report can replay them.
THEOREM LostStaysLost == Spec => []RecoveryNeedsNewEvidence
<1>1. IInv => RecoveryNeedsNewEvidence
  BY DEF IInv
<1> QED
  BY <1>1, Invariance, PTL

\* No detection is held without a published number: whatever creates or changes
\* a record publishes it in the same step (runtime.py, process).
THEOREM DetectionsAreNumbered == Spec => []EveryDetectionIsNumbered
<1>1. IInv => EveryDetectionIsNumbered
  BY DEF IInv
<1> QED
  BY <1>1, Invariance, PTL

\* Only a PTZ report changes the history of a camera.
LEMMA ContextChanges ==
    ASSUME [Next]_vars, context' # context
    PROVE  Replays
BY DEF Next, vars, EventMessage, MalformedEvent, FaceMessage, HealthReport, Restart, Replays

\* A PTZ report replays every envelope of the cache
\* (_reprocess_event_envelopes), and what each yields is accepted: no active
\* detection stays at the place an older report gave it.
THEOREM ReplayReachesTheCache == Spec => LateContextReachesCachedEvents
<1> DEFINE Reached(m) ==
        (m.valid /\ IsActive(event'[m.event])) =>
            event'[m.event].claim.location = Location(m, HistoryOf(context', m.event))
<1>1. ASSUME IInv, [Next]_vars, context' # context, NEW k \in DOMAIN envelopes'
      PROVE  Reached(envelopes'[k])
  <2>1. PICK camera \in Turning, frame \in Frame, reported \in Profile \cup {"moving"} :
            ContextReport(camera, frame, reported)
    BY <1>1, ContextChanges DEF Replays
  <2>2. envelopes' = envelopes /\ context' \in [Turning -> History]
    BY <1>1, <2>1, Replay DEF IInv
  <2> DEFINE m == envelopes[k]
             e == m.event
  <2>3. m \in Envelope /\ e \in Event
    BY <1>1, <2>2, EnvelopeAssumption DEF IInv, CacheTyped, EnvelopeType
  <2>4. event'[e] = Replayed(m, event[e], HistoryOf(context', e))
    BY <1>1, <2>1, <2>2, <2>3, Replay DEF IInv
  <2>5. HistoryOf(context', e) \in History /\ event[e] \in RecordType \cup {Missing}
    BY <1>1, <2>2, <2>3, HistoryIsTyped DEF IInv, StoreTyped
  <2>6. m.valid /\ IsActive(event'[e]) => event'[e].claim.location = Location(m, HistoryOf(context', e))
    BY <2>3, <2>4, <2>5, ReplayedRecord
  <2> QED
    BY <2>2, <2>6
<1>2. IInv /\ [Next]_vars =>
        [context' # context =>
          \A i \in DOMAIN envelopes' :
             LET m == envelopes'[i]
             IN  (m.valid /\ IsActive(event'[m.event])) =>
                    event'[m.event].claim.location = Location(m, HistoryOf(context', m.event))]_vars
  BY <1>1
<1> QED
  BY <1>2, Invariance, PTL DEF Spec, LateContextReachesCachedEvents

\* Only a message and a replay write into a record: the rest leaves it alone
\* or drops it.
LEMMA Writers ==
    ASSUME StoreTyped, [Next]_vars, NEW e \in Event, event'[e] \notin {event[e], Missing}
    PROVE  Replays \/ \E m \in Envelope : m.event = e /\ EventMessage(m)
<1>1. CASE \E m \in Envelope : EventMessage(m)
  BY <1>1 DEF EventMessage, StoreTyped
<1>2. CASE \E camera \in Turning, frame \in Frame, reported \in Profile \cup {"moving"} :
              ContextReport(camera, frame, reported)
  BY <1>2 DEF Replays
<1>3. CASE \E m \in Envelope : MalformedEvent(m)
  BY <1>3 DEF MalformedEvent
<1>4. CASE \E d \in Event, name \in Identity, frame \in Frame : FaceMessage(d, name, frame)
  BY <1>4 DEF FaceMessage
<1>5. CASE \E h \in HealthEntity, state \in {"up", "down"} : HealthReport(h, state)
  BY <1>5 DEF HealthReport, CameraUp, CameraDown
<1>6. CASE Restart
  BY <1>6 DEF Restart
<1>7. CASE UNCHANGED vars
  BY <1>7 DEF vars
<1> QED
  BY <1>1, <1>2, <1>3, <1>4, <1>5, <1>6, <1>7 DEF Next

\* What a message about e does to its record.
LEMMA Message ==
    ASSUME IInv, NEW m \in Envelope, NEW e \in Event, m.event = e, EventMessage(m)
    PROVE  /\ envelopes' # << >> /\ envelopes'[Len(envelopes')] = m
           /\ event[e] # Missing /\ ~ IsActive(event[e]) /\ IsActive(event'[e])
                => Sequence(m.frame) > event[e].stamp.lifecycle
           /\ GoesBack(e) => ~ StampedInOrder(event[e])
<1>1. envelopes' # << >> /\ envelopes'[Len(envelopes')] = m
  BY Remembered DEF IInv, EventMessage
<1>2. event'[e] = Received(m, event[e], HistoryOf(context, e))
  BY DEF EventMessage, IInv, StoreTyped
<1>3. HistoryOf(context, e) \in History /\ event[e] \in RecordType \cup {Missing}
  BY HistoryIsTyped DEF IInv, StoreTyped
<1>4. /\ event'[e] \in RecordType \cup {Missing}
      /\ event[e] # Missing /\ ~ IsActive(event[e]) /\ IsActive(event'[e])
           => Sequence(m.frame) > event[e].stamp.lifecycle
      /\ event[e] # Missing /\ event'[e] # Missing /\ StampedInOrder(event[e])
           => event'[e].claim.location.frame >= event[e].claim.location.frame
  BY <1>2, <1>3, ReceivedRecord
<1>5. ~ (event[e] # Missing /\ event'[e] # Missing
           /\ event'[e].claim.location.frame < event[e].claim.location.frame
           /\ event'[e].claim.location.frame >= event[e].claim.location.frame)
  BY <1>3, <1>4, BoundAssumption DEF RecordType, Frame
<1> QED
  BY <1>1, <1>4, <1>5 DEF GoesBack

\* A detection that has ended is active again only through a message of its own
\* whose frame is newer than its end: neither a replay, nor a face, nor a
\* camera revives it.
THEOREM RevivalIsEarned == Spec => RevivalNeedsANewerFrame
<1>1. ASSUME IInv, [Next]_vars, NEW e \in Event,
             event[e] # Missing, ~ IsActive(event[e]), IsActive(event'[e])
      PROVE  /\ envelopes' # << >>
             /\ envelopes'[Len(envelopes')].event = e
             /\ Sequence(envelopes'[Len(envelopes')].frame) > event[e].stamp.lifecycle
  <2>1. event'[e] \notin {event[e], Missing}
    BY <1>1 DEF IsActive
  <2>2. CASE Replays
    <3>1. PICK camera \in Turning, frame \in Frame, reported \in Profile \cup {"moving"} :
              ContextReport(camera, frame, reported)
      BY <2>2 DEF Replays
    <3>2. PICK i \in DOMAIN envelopes :
              event'[e] = Replayed(envelopes[i], event[e], HistoryOf(context', e))
      BY <1>1, <2>1, <3>1, Replay DEF IInv
    <3>3. HistoryOf(context', e) \in History
      BY <1>1, <3>1, Replay, HistoryIsTyped DEF IInv
    <3>4. event[e] \in RecordType \cup {Missing} /\ envelopes[i] \in Envelope
      BY <1>1 DEF IInv, StoreTyped, CacheTyped
    <3> QED
      BY <1>1, <3>2, <3>3, <3>4, ReplayedRecord
  <2>3. CASE \E m \in Envelope : m.event = e /\ EventMessage(m)
    BY <1>1, <2>3, Message
  <2> QED
    BY <1>1, <2>1, <2>2, <2>3, Writers DEF IInv
<1>2. IInv /\ [Next]_vars =>
        [\A e \in Event :
          (event[e] # Missing /\ ~ IsActive(event[e]) /\ IsActive(event'[e])) =>
             /\ envelopes' # << >>
             /\ envelopes'[Len(envelopes')].event = e
             /\ Sequence(envelopes'[Len(envelopes')].frame)
                   > event[e].stamp.lifecycle]_vars
  BY <1>1
<1> QED
  BY <1>2, Invariance, PTL DEF Spec, RevivalNeedsANewerFrame

\* No message puts the location of an older frame over that of a newer one,
\* unless the camera turns, is strict, and a replay has admitted a frame that
\* the stamp of the record does not show.
THEOREM MessagesKeepNewerLocations == Spec => OnlyReplaysGoBack
<1>1. ASSUME IInv, [Next]_vars, NEW e \in Event, GoesBack(e), ~ Replays
      PROVE  CameraOf[e] \in Strict \cap Turning /\ StampedEarly(e)
  <2>1. event[e] # Missing /\ event[e] \in RecordType
    BY <1>1 DEF GoesBack, IInv, StoreTyped
  <2>2. event'[e] \notin {event[e], Missing}
    <3>1. event[e].claim.location.frame \in Nat
      BY <2>1, BoundAssumption DEF RecordType, Frame
    <3>2. event'[e] # Missing
      BY <1>1 DEF GoesBack
    <3>3. event'[e].claim.location.frame < event[e].claim.location.frame
      BY <1>1 DEF GoesBack
    <3> QED
      BY <3>1, <3>2, <3>3
  <2>3. PICK m \in Envelope : m.event = e /\ EventMessage(m)
    BY <1>1, <2>2, Writers DEF IInv
  <2>4. ~ StampedInOrder(event[e])
    BY <1>1, <2>3, Message
  <2>5. StampedEarly(e)
    <3>1. event[e].claim.location.frame \in Nat /\ event[e].stamp.location \in Nat
      BY <2>1, BoundAssumption DEF RecordType, Frame
    <3>2. Sequence(event[e].claim.location.frame) \in Nat
      BY <3>1, Sequences
    <3> QED
      BY <2>4, <3>1, <3>2 DEF StampedInOrder, StampedEarly
  <2> QED
    BY <1>1, <2>1, <2>4, <2>5 DEF IInv, LocationsInOrder
<1>2. IInv /\ [Next]_vars =>
        [\A e \in Event :
          GoesBack(e) => \/ Replays
                         \/ CameraOf[e] \in Strict \cap Turning /\ StampedEarly(e)]_vars
  BY <1>1
<1> QED
  BY <1>2, Invariance, PTL DEF Spec, OnlyReplaysGoBack

-----------------------------------------------------------------------------
(***************************************************************************)
(* The rest of the type: availability, previews and photographs.           *)
(***************************************************************************)

Picture == ImageType \cup {NoImage}

\* g is the photographs after each of the first n detections, old before them.
IsAlbum(g, old, ev, fa, changed, n) ==
    g = [e \in 0 .. n |->
            IF e = 0 THEN old
            ELSE IF e \in changed /\ ev[e] # Missing /\ fa[e] # Missing
                 THEN [g[e - 1] EXCEPT ![fa[e].name] = Photo(@, ev[e].claim.image)]
                 ELSE g[e - 1]]

LEMMA AlbumExists ==
    ASSUME NEW old, NEW ev, NEW fa, NEW changed, NEW n \in Nat
    PROVE  \E g : IsAlbum(g, old, ev, fa, changed, n)
<1> DEFINE Bad == {k \in Nat : ~ \E g : IsAlbum(g, old, ev, fa, changed, k)}
<1>1. SUFFICES ASSUME Bad # {} PROVE FALSE
  OBVIOUS
<1>2. PICK k \in Bad : \A j \in Bad : k <= j
  <2>1. Bad \in SUBSET Nat
    OBVIOUS
  <2> HIDE DEF Bad
  <2> QED
    BY <1>1, <2>1, LeastElement
<1>3. k \in Nat /\ ~ \E g : IsAlbum(g, old, ev, fa, changed, k)
  BY <1>2
<1>4. k # 0
  <2>1. IsAlbum([e \in 0 .. 0 |-> old], old, ev, fa, changed, 0)
    BY DEF IsAlbum
  <2> QED
    BY <1>3, <2>1
<1>5. k - 1 \in Nat /\ k - 1 \notin Bad
  BY <1>2, <1>3, <1>4
<1>6. PICK g : IsAlbum(g, old, ev, fa, changed, k - 1)
  BY <1>5
<1> DEFINE Added(a, e) == IF e \in changed /\ ev[e] # Missing /\ fa[e] # Missing
                          THEN [a EXCEPT ![fa[e].name] = Photo(@, ev[e].claim.image)]
                          ELSE a
           all == [e \in 0 .. k |-> IF e = k THEN Added(g[k - 1], k) ELSE g[e]]
<1>7. \A e \in 0 .. k - 1 : g[e] = IF e = 0 THEN old ELSE Added(g[e - 1], e)
  BY <1>6 DEF IsAlbum
<1>8. \A e \in 0 .. k : all[e] = IF e = k THEN Added(g[k - 1], k) ELSE g[e]
  OBVIOUS
<1>9. all = [e \in 0 .. k |-> all[e]]
  OBVIOUS
<1> HIDE DEF all
<1>10. IsAlbum(all, old, ev, fa, changed, k)
  <2> HIDE DEF Added
  <2>1. \A e \in 0 .. k : all[e] = IF e = 0 THEN old ELSE Added(all[e - 1], e)
    <3> TAKE e \in 0 .. k
    <3>1. e \in 0 .. k - 1 \/ e = k
      BY <1>3
    <3>2. e # 0 => e - 1 \in 0 .. k /\ e - 1 # k
      BY <1>3
    <3> QED
      BY <1>3, <1>4, <1>7, <1>8, <3>1, <3>2
  <2> USE DEF Added
  <2> QED
    BY <1>9, <2>1 DEF IsAlbum
<1> QED
  BY <1>3, <1>10

\* A photograph is replaced by a picture or taken away.
LEMMA PhotoIsPicture ==
    ASSUME NEW old \in Picture, NEW image \in ImageType
    PROVE  Photo(old, image) \in Picture
BY DEF Photo, Picture

LEMMA AlbumIsTyped ==
    ASSUME NEW old \in [Identity -> Picture],
           NEW ev \in [Event -> RecordType \cup {Missing}],
           NEW fa \in [Event -> Face \cup {Missing}],
           NEW changed \in SUBSET Event,
           NEW g, IsAlbum(g, old, ev, fa, changed, MaxEvent)
    PROVE  g[MaxEvent] \in [Identity -> Picture]
<1> DEFINE Bad == {k \in 0 .. MaxEvent : g[k] \notin [Identity -> Picture]}
<1>1. SUFFICES ASSUME Bad # {} PROVE FALSE
  BY BoundAssumption
<1>2. PICK k \in Bad : \A j \in Bad : k <= j
  <2>1. Bad \in SUBSET Nat
    BY BoundAssumption
  <2> HIDE DEF Bad
  <2> QED
    BY <1>1, <2>1, LeastElement
<1>3. k \in 0 .. MaxEvent /\ g[k] \notin [Identity -> Picture]
  BY <1>2
<1>4. k # 0
  BY <1>3 DEF IsAlbum
<1>5. k - 1 \in 0 .. MaxEvent /\ g[k - 1] \in [Identity -> Picture]
  BY <1>2, <1>3, <1>4, BoundAssumption
<1>6. g[k] = IF k \in changed /\ ev[k] # Missing /\ fa[k] # Missing
             THEN [g[k - 1] EXCEPT ![fa[k].name] = Photo(@, ev[k].claim.image)]
             ELSE g[k - 1]
  BY <1>3, <1>4 DEF IsAlbum
<1>7. CASE k \in changed /\ ev[k] # Missing /\ fa[k] # Missing
  <2>1. fa[k].name \in Identity /\ ev[k].claim.image \in ImageType
    BY <1>7 DEF Face, RecordType
  <2>2. Photo(g[k - 1][fa[k].name], ev[k].claim.image) \in Picture
    BY <1>5, <2>1, PhotoIsPicture
  <2> QED
    BY <1>3, <1>5, <1>6, <1>7, <2>2
<1> QED
  BY <1>3, <1>5, <1>6, <1>7

RestTyped ==
    /\ health \in [HealthEntity -> {NotReported, "up", "down"}]
    /\ unavailable \subseteq GuardedCameras
    /\ previews \in [Event -> Picture]
    /\ photos \in [Identity -> Picture]

LEMMA ImagesArePublished ==
    ASSUME StoreTyped', RestTyped, Publish(Changed)
    PROVE  previews' \in [Event -> Picture] /\ photos' \in [Identity -> Picture]
<1>1. previews' = [e \in Event |->
          IF e \in Changed THEN Preview(previews[e], event'[e], face'[e]) ELSE previews[e]]
  BY DEF Publish
<1>2. \A e \in Event : event'[e] \in RecordType \cup {Missing}
  BY DEF StoreTyped
<1>3. ASSUME NEW old \in Picture, NEW r \in RecordType \cup {Missing}, NEW f
      PROVE  Preview(old, r, f) \in Picture
  BY DEF Preview, Picture, RecordType
<1>4. previews' \in [Event -> Picture]
  BY <1>1, <1>2, <1>3 DEF RestTyped
<1> DEFINE g == CHOOSE g : IsAlbum(g, photos, event', face', Changed, MaxEvent)
<1>5. photos' = g[MaxEvent]
  BY DEF Publish, PhotosAfter, IsAlbum
<1>6. IsAlbum(g, photos, event', face', Changed, MaxEvent)
  BY AlbumExists, BoundAssumption
<1>7. Changed \in SUBSET Event
  BY DEF Changed
<1>8. /\ event' \in [Event -> RecordType \cup {Missing}]
      /\ face' \in [Event -> Face \cup {Missing}]
      /\ photos \in [Identity -> Picture]
  BY DEF StoreTyped, RestTyped
<1> HIDE DEF g
<1> QED
  BY <1>4, <1>5, <1>6, <1>7, <1>8, AlbumIsTyped

LEMMA NextRestTyped == IInv' /\ RestTyped /\ [Next]_vars => RestTyped'
<1> SUFFICES ASSUME IInv', RestTyped, [Next]_vars PROVE RestTyped'
  OBVIOUS
<1>1. ASSUME Publish(Changed), UNCHANGED <<health, unavailable>>
      PROVE  RestTyped'
  BY <1>1, ImagesArePublished DEF IInv, RestTyped
<1>2. CASE \E m \in Envelope : EventMessage(m)
  BY <1>1, <1>2 DEF EventMessage
<1>3. CASE \E m \in Envelope : MalformedEvent(m)
  BY <1>3 DEF MalformedEvent, RestTyped, images
<1>4. CASE \E e \in Event, name \in Identity, frame \in Frame : FaceMessage(e, name, frame)
  BY <1>1, <1>4 DEF FaceMessage
<1>5. CASE \E camera \in Turning, frame \in Frame, reported \in Profile \cup {"moving"} :
              ContextReport(camera, frame, reported)
  BY <1>1, <1>5 DEF ContextReport
<1>6. CASE \E h \in HealthEntity, state \in {"up", "down"} : HealthReport(h, state)
  BY <1>6 DEF HealthReport, CameraUp, CameraDown, RestTyped, images, GuardedCameras
<1>7. CASE Restart
  BY <1>7 DEF Restart, RestTyped, images
<1>8. CASE UNCHANGED vars
  BY <1>8 DEF vars, RestTyped
<1> QED
  BY <1>2, <1>3, <1>4, <1>5, <1>6, <1>7, <1>8 DEF Next

\* Type correctness, previews and photographs included.
THEOREM Types == Spec => []TypeOK
<1>1. Init => RestTyped
  BY DEF Init, RestTyped, Picture
<1>2. IInv /\ RestTyped => TypeOK
  BY DEF IInv, RestTyped, TypeOK, StoreTyped, CacheTyped, OnceEach, Face, History, Picture
<1> QED
  BY <1>1, <1>2, NextRestTyped, Invariance, PTL DEF Spec

-----------------------------------------------------------------------------
(***************************************************************************)
(* Previews (runtime.py, _remember_image).                                 *)
(***************************************************************************)

\* The detection is held and has ended.
EndedAlone(e) == Held(e) /\ HasEnded(Status(event[e], face[e]))

\* What publishes takes the previews of what it ended away.
LEMMA PublishedPreviews ==
    ASSUME StoreTyped', RestTyped, PreviewsEndWithTheDetection, Publish(Changed)
    PROVE  PreviewsEndWithTheDetection'
<1>1. previews' = [e \in Event |->
          IF e \in Changed THEN Preview(previews[e], event'[e], face'[e]) ELSE previews[e]]
  BY DEF Publish
<1>2. ASSUME NEW e \in Event, EndedAlone(e)'
      PROVE  previews'[e] = NoImage
  <2>1. CASE e \in Changed
    BY <1>1, <1>2, <2>1 DEF EndedAlone, Preview
  <2>2. CASE e \notin Changed
    <3>1. event'[e] = event[e] /\ face'[e] = face[e]
      BY <2>2 DEF Changed
    <3>2. EndedAlone(e)
      BY <1>2, <3>1 DEF EndedAlone, Held, HasEnded, Status, IsActive
    <3> QED
      BY <1>1, <2>2, <3>2 DEF EndedAlone, PreviewsEndWithTheDetection
  <2> QED
    BY <2>1, <2>2
<1> QED
  BY <1>2 DEF EndedAlone, PreviewsEndWithTheDetection

\* What drops evidence without publishing leaves nothing ended behind that was
\* not ended before.
LEMMA DroppedPreviews ==
    ASSUME PreviewsEndWithTheDetection, UNCHANGED previews,
           \A e \in Event : EndedAlone(e)' => EndedAlone(e)
    PROVE  PreviewsEndWithTheDetection'
BY DEF EndedAlone, PreviewsEndWithTheDetection

\* The preview of a detection ends with it, whatever ended it, and no failure,
\* withdrawal or restart leaves an ended detection with one.
THEOREM PreviewsEnd == Spec => []PreviewsEndWithTheDetection
<1>1. Init => PreviewsEndWithTheDetection
  BY DEF Init, PreviewsEndWithTheDetection, Held
<1>2. ASSUME IInv, IInv', RestTyped, PreviewsEndWithTheDetection, [Next]_vars
      PROVE  PreviewsEndWithTheDetection'
  <2>1. ASSUME Publish(Changed) PROVE PreviewsEndWithTheDetection'
    BY <1>2, <2>1, PublishedPreviews DEF IInv
  <2>2. CASE \E m \in Envelope : EventMessage(m)
    BY <2>1, <2>2 DEF EventMessage
  <2>3. CASE \E m \in Envelope : MalformedEvent(m)
    <3>1. UNCHANGED previews /\ \A e \in Event : event'[e] = Missing /\ face'[e] = face[e]
      BY <2>3 DEF MalformedEvent, images
    <3> QED
      BY <1>2, <3>1, DroppedPreviews DEF EndedAlone, Held, HasEnded, Status
  <2>4. CASE \E e \in Event, name \in Identity, frame \in Frame : FaceMessage(e, name, frame)
    BY <2>1, <2>4 DEF FaceMessage
  <2>5. CASE \E camera \in Turning, frame \in Frame, reported \in Profile \cup {"moving"} :
                ContextReport(camera, frame, reported)
    BY <2>1, <2>5 DEF ContextReport
  <2>6. CASE \E h \in HealthEntity, state \in {"up", "down"} : HealthReport(h, state)
    <3>1. UNCHANGED previews
      BY <2>6 DEF HealthReport, images
    <3>2. \A e \in Event : \/ event'[e] = event[e] /\ face'[e] = face[e]
                           \/ event'[e] = Missing /\ face'[e] = Missing
      BY <2>6 DEF HealthReport, CameraUp, CameraDown
    <3> QED
      BY <1>2, <3>1, <3>2, DroppedPreviews DEF EndedAlone, Held, HasEnded, Status, IsActive
  <2>7. CASE Restart
    <3>1. UNCHANGED previews
      BY <2>7 DEF Restart, images
    <3>2. \A e \in Event : \/ event'[e] = event[e] /\ face'[e] = face[e]
                           \/ event'[e] = Missing /\ face'[e] \in {face[e], Missing}
      BY <2>7 DEF Restart
    <3> QED
      BY <1>2, <3>1, <3>2, DroppedPreviews DEF EndedAlone, Held, HasEnded, Status, IsActive
  <2>8. CASE UNCHANGED vars
    BY <1>2, <2>8 DEF vars, images, PreviewsEndWithTheDetection, Held, HasEnded, Status, IsActive
  <2> QED
    BY <1>2, <2>2, <2>3, <2>4, <2>5, <2>6, <2>7, <2>8 DEF Next
<1>3. Init => RestTyped
  BY DEF Init, RestTyped, Picture
<1> QED
  BY <1>1, <1>2, <1>3, NextRestTyped, Invariance, PTL DEF Spec
=============================================================================
