----------------------------- MODULE SumProofs -----------------------------
(***************************************************************************)
(* Proofs about two components that count.                                 *)
(*                                                                         *)
(* MTRCount: the evidence of a compound adds up to the total of the        *)
(* device, for any zones and areas.                                        *)
(*                                                                         *)
(* SignalBuffers: histories stay series, what they lose is told, and the   *)
(* budget they share is overdrawn by losses only.  What handlers leave of  *)
(* a history is its end (IsRest), or that and one newer sample; so a loss  *)
(* at its end is there as long as the history is, and pays for itself.     *)
(***************************************************************************)
EXTENDS MTRCount, SignalBuffers, Sums

-----------------------------------------------------------------------------
(***************************************************************************)
(* MTRCount: one combination.                                              *)
(***************************************************************************)

\* The sums of the model, which FiniteSetsExt folds.
LEMMA SumOfIsSum ==
    ASSUME NEW s, NEW E, IsFiniteSet(E), NEW f, \A x \in E : f[x] = s[x].value
    PROVE  SumOf(s, E) = Sum(f, E)
<1> DEFINE value == [x \in E |-> s[x].value]
           IsIter(g) == g = [t \in SUBSET E |->
                               IF t = {} THEN 0
                               ELSE LET x == CHOOSE x \in t : TRUE
                                    IN  s[x].value + g[t \ {x}]]
           chosen == CHOOSE g : IsIter(g)
<1>1. SumOf(s, E) = chosen[E]
  BY DEF SumOf, MapThenSumSet, MapThenFoldSet
<1>2. \A t \in SUBSET E : t # {} => value[Some(t)] = s[CHOOSE x \in t : TRUE].value
  BY SomeIsThere DEF Some
<1>3. \A g : IsIter(g) <=> IsSums(g, value, E)
  <2> SUFFICES ASSUME NEW g PROVE IsIter(g) <=> IsSums(g, value, E)
    OBVIOUS
  <2> HIDE DEF value
  <2> QED
    BY <1>2 DEF IsSums, Some
<1>4. \E g : IsSums(g, value, E)
  BY SumsExist
<1>5. IsSums(chosen, value, E)
  <2>1. IsIter(chosen)
    <3>1. \E g : IsIter(g)
      <4> HIDE DEF IsIter
      <4> QED
        BY <1>3, <1>4
    <3> HIDE DEF IsIter
    <3> QED
      BY <3>1
  <2> HIDE DEF IsIter, chosen, value
  <2> QED
    BY <1>3, <2>1
<1>6. \A x \in E : value[x] = f[x]
  OBVIOUS
<1> HIDE DEF chosen, value
<1>7. IsSums(CHOOSE g : IsSums(g, f, E), f, E)
  BY SumsAreSums
<1>8. chosen[E] = (CHOOSE g : IsSums(g, f, E))[E]
  BY <1>5, <1>6, <1>7, SumsAgree
<1> QED
  BY <1>1, <1>8 DEF Sum

\* s is a complete state of the adapter.
Complete(s) == s \in [Entity -> Told]

\* A compound has finitely many zones, areas and buckets.
LEMMA BucketsAreFinite ==
    /\ IsFiniteSet(Zone) /\ IsFiniteSet(Entity) /\ IsFiniteSet(Area) /\ IsFiniteSet(Bucket)
<1>1. IsFiniteSet({Total}) /\ IsFiniteSet({Overlapping, Outside})
  <2>1. {Overlapping, Outside} = {Overlapping} \cup {Outside}
    OBVIOUS
  <2>2. IsFiniteSet({Total}) /\ IsFiniteSet({Overlapping}) /\ IsFiniteSet({Outside})
    BY FS_Singleton, Zenon
  <2>3. IsFiniteSet({Overlapping} \cup {Outside})
    BY <2>2, FS_Union
  <2> QED
    BY <2>1, <2>2, <2>3
<1>2. IsFiniteSet(Zone) /\ IsFiniteSet(Area)
  BY ImageIsFinite, EntityAssumption DEF Area
<1> QED
  BY <1>1, <1>2, FS_Union DEF Entity, Bucket

\* The last report of some entities is one of theirs.
LEMMA LatestIsTold ==
    ASSUME NEW s, Complete(s), NEW E \in SUBSET Entity, E # {}
    PROVE  LatestOf(s, E) \in ReportTime
<1> DEFINE times == {s[e].at : e \in E}
<1>1. times \in SUBSET ReportTime /\ times # {} /\ ReportTime \in SUBSET Nat
  BY BoundAssumption DEF Complete, Told, ReportTime
<1>2. IsFiniteSet(times)
  <2>1. IsFiniteSet(E)
    BY BucketsAreFinite, FS_Subset
  <2> DEFINE at == [e \in E |-> s[e].at]
  <2>2. times = {at[e] : e \in E}
    OBVIOUS
  <2> HIDE DEF times, at
  <2> QED
    BY <2>1, <2>2, ImageIsFinite
<1> HIDE DEF times
<1>3. Max(times) \in times
  BY <1>1, <1>2, MaxIsGreatest
<1> USE DEF times
<1> QED
  BY <1>1, <1>3 DEF LatestOf

\* The sum of what zones tell.
LEMMA SumOfZones ==
    ASSUME NEW s, Complete(s), NEW E \in SUBSET Entity
    PROVE  /\ SumOf(s, E) = Sum([e \in Entity |-> s[e].value], E)
           /\ SumOf(s, E) \in Nat
<1> DEFINE f == [e \in Entity |-> s[e].value]
<1>1. IsFiniteSet(E)
  BY BucketsAreFinite, FS_Subset
<1>2. \A e \in E : f[e] = s[e].value /\ f[e] \in Nat
  BY BoundAssumption DEF Complete, Told, Count
<1> HIDE DEF f
<1>3. SumOf(s, E) = Sum(f, E) /\ Sum(f, E) \in Nat
  BY <1>1, <1>2, SumOfIsSum, SumIsNatural
<1> USE DEF f
<1> QED
  BY <1>3

\* What a combination claims of every bucket.
LEMMA CombinationClaims ==
    ASSUME NEW s, Complete(s)
    PROVE  /\ Combination(s) \in [Bucket -> Claim]
           /\ Overlaps(s) =>
                /\ Combination(s)[Overlapping].value = s[Total].value
                /\ Combination(s)[Outside].value = 0
                /\ \A a \in Area : /\ Combination(s)[a].value = 0
                                   /\ ~ Combination(s)[a].measuredClear
           /\ ~ Overlaps(s) =>
                /\ Combination(s)[Overlapping].value = 0
                /\ Combination(s)[Outside].value = s[Total].value - SumOf(s, Zone)
                /\ \A a \in Area : Combination(s)[a].value = SumOf(s, ZonesOf(a))
<1> DEFINE c == Combination(s)
<1>1. s[Total].value \in Nat /\ Total \in Entity /\ Zone \in SUBSET Entity
  BY BoundAssumption DEF Complete, Told, Count, Entity
<1>2. SumOf(s, Zone) \in Nat
  BY <1>1, SumOfZones
<1>3. \A a \in Area : /\ SumOf(s, ZonesOf(a)) \in Nat
                      /\ LatestOf(s, ZonesOf(a)) \in ReportTime
  <2> SUFFICES ASSUME NEW a \in Area
               PROVE  SumOf(s, ZonesOf(a)) \in Nat /\ LatestOf(s, ZonesOf(a)) \in ReportTime
    OBVIOUS
  <2>1. ZonesOf(a) \in SUBSET Entity /\ ZonesOf(a) # {}
    BY DEF ZonesOf, Area, Entity
  <2> QED
    BY <2>1, SumOfZones, LatestIsTold
<1>4. LatestOf(s, Entity) \in ReportTime
  BY <1>1, LatestIsTold
<1>5. Remainder(s) \in Nat /\ (Overlaps(s) => Remainder(s) = 0)
      /\ (~ Overlaps(s) => Remainder(s) = s[Total].value - SumOf(s, Zone))
  BY <1>1, <1>2 DEF Remainder, Overlaps
<1>6. \A value \in Nat, at \in ReportTime :
          /\ Counted(value, at) \in Claim /\ Counted(value, at).value = value
          /\ Retired(at) \in Claim /\ Retired(at).value = 0 /\ ~ Retired(at).measuredClear
  BY DEF Counted, Retired, Claim
<1>7. /\ c = [b \in Bucket |-> c[b]]
      /\ c[Overlapping] = Counted(IF Overlaps(s) THEN s[Total].value ELSE 0, LatestOf(s, Entity))
      /\ c[Outside] = Counted(Remainder(s), LatestOf(s, Entity))
      /\ \A a \in Area : c[a] = IF Overlaps(s) THEN Retired(LatestOf(s, Entity))
                                ELSE Counted(SumOf(s, ZonesOf(a)), LatestOf(s, ZonesOf(a)))
  BY EntityAssumption DEF Combination, Bucket
<1> HIDE DEF c
<1>8. \A b \in Bucket : c[b] \in Claim
  <2>1. c[Overlapping] \in Claim
    <3> DEFINE value == IF Overlaps(s) THEN s[Total].value ELSE 0
    <3>1. value \in Nat /\ c[Overlapping] = Counted(value, LatestOf(s, Entity))
      BY <1>1, <1>7
    <3> HIDE DEF value
    <3> QED
      BY <3>1, <1>4, <1>6
  <2>2. c[Outside] \in Claim
    <3>1. Remainder(s) \in Nat /\ c[Outside] = Counted(Remainder(s), LatestOf(s, Entity))
      BY <1>5, <1>7
    <3> QED
      BY <3>1, <1>4, <1>6
  <2>3. \A a \in Area : c[a] \in Claim
    BY <1>3, <1>4, <1>6, <1>7
  <2> QED
    BY <2>1, <2>2, <2>3 DEF Bucket
<1>9. c \in [Bucket -> Claim]
  BY <1>7, <1>8
<1>10. Overlaps(s) =>
          /\ c[Overlapping].value = s[Total].value /\ c[Outside].value = 0
          /\ \A a \in Area : c[a].value = 0 /\ ~ c[a].measuredClear
  BY <1>1, <1>4, <1>5, <1>6, <1>7
<1>11. ~ Overlaps(s) =>
          /\ c[Overlapping].value = 0
          /\ c[Outside].value = s[Total].value - SumOf(s, Zone)
          /\ \A a \in Area : c[a].value = SumOf(s, ZonesOf(a))
  <2> SUFFICES ASSUME ~ Overlaps(s)
               PROVE  /\ c[Overlapping].value = 0
                      /\ c[Outside].value = s[Total].value - SumOf(s, Zone)
                      /\ \A a \in Area : c[a].value = SumOf(s, ZonesOf(a))
    OBVIOUS
  <2>1. c[Overlapping].value = 0
    BY <1>4, <1>6, <1>7
  <2>2. c[Outside].value = s[Total].value - SumOf(s, Zone)
    BY <1>4, <1>5, <1>6, <1>7
  <2>3. ASSUME NEW a \in Area PROVE c[a].value = SumOf(s, ZonesOf(a))
    BY <1>3, <1>6, <1>7
  <2> QED
    BY <2>1, <2>2, <2>3
<1> USE DEF c
<1> QED
  BY <1>9, <1>10, <1>11

\* The claims of a combination add up to the total.
LEMMA CombinationAddsUp ==
    ASSUME NEW s, Complete(s), NEW r, \A b \in Bucket : r[b] = Combination(s)[b]
    PROVE  SumOf(r, Bucket) = s[Total].value
<1> DEFINE c == Combination(s)
           h == [b \in Bucket |-> c[b].value]
           f == [e \in Entity |-> s[e].value]
<1>1. /\ \A b \in Bucket : h[b] = r[b].value /\ h[b] \in Nat
      /\ s[Total].value \in Nat /\ Overlapping \in Bucket /\ Outside \in Bucket
      /\ Area \in SUBSET Bucket
  <2>1. \A b \in Bucket : c[b] \in Claim
    BY CombinationClaims
  <2>2. \A b \in Bucket : c[b].value \in Nat
    BY <2>1 DEF Claim
  <2>3. s[Total].value \in Nat
    BY BoundAssumption DEF Complete, Told, Count, Entity
  <2> HIDE DEF c
  <2>4. \A b \in Bucket : h[b] = c[b].value
    OBVIOUS
  <2>5. \A b \in Bucket : r[b] = c[b]
    BY DEF c
  <2> HIDE DEF h
  <2> QED
    BY <2>2, <2>3, <2>4, <2>5 DEF Bucket
<1>2. SumOf(r, Bucket) = Sum(h, Bucket)
  <2> HIDE DEF h
  <2> QED
    BY <1>1, BucketsAreFinite, SumOfIsSum
<1>3. Sum(h, Bucket) = h[Overlapping] + (h[Outside] + Sum(h, Area))
  <2> DEFINE most == Bucket \ {Overlapping}
  <2>1. IsFiniteSet(most) /\ Outside \in most /\ most \ {Outside} = Area
    BY BucketsAreFinite, FS_Subset, EntityAssumption DEF Bucket
  <2>2. \A b \in most : h[b] \in Nat
    BY <1>1
  <2> HIDE DEF h
  <2>3. Sum(h, Bucket) = h[Overlapping] + Sum(h, most)
    BY <1>1, BucketsAreFinite, SumTakesOut
  <2> HIDE DEF most
  <2>4. Sum(h, most) = h[Outside] + Sum(h, Area)
    BY <2>1, <2>2, SumTakesOut
  <2> QED
    BY <2>3, <2>4
<1>4. CASE Overlaps(s)
  <2>1. h[Overlapping] = s[Total].value /\ h[Outside] = 0 /\ \A a \in Area : h[a] = 0
    BY <1>1, <1>4, CombinationClaims
  <2> HIDE DEF h
  <2>2. Sum(h, Area) = 0
    BY <2>1, BucketsAreFinite, SumOfZeros
  <2> QED
    BY <1>1, <1>2, <1>3, <2>1, <2>2
<1>5. CASE ~ Overlaps(s)
  <2>1. /\ h[Overlapping] = 0 /\ h[Outside] = s[Total].value - SumOf(s, Zone)
        /\ \A a \in Area : h[a] = SumOf(s, ZonesOf(a))
    BY <1>1, <1>5, CombinationClaims
  <2> DEFINE part == [z \in Zone |-> AreaOf[z]]
  <2>2. part \in [Zone -> Area] /\ \A a \in Area : PartOf(Zone, part, a) = ZonesOf(a)
    BY DEF Area, ZonesOf, PartOf
  <2>3. \A z \in Zone : f[z] \in Nat
    BY BoundAssumption DEF Complete, Told, Count, Entity
  <2>4. \A E \in SUBSET Entity : SumOf(s, E) = Sum(f, E) /\ SumOf(s, E) \in Nat
    BY SumOfZones
  <2>5. Zone \in SUBSET Entity /\ \A a \in Area : ZonesOf(a) \in SUBSET Entity
    BY DEF Entity, ZonesOf
  <2> HIDE DEF h, f, part
  <2>6. \A a \in Area : h[a] = Sum(f, PartOf(Zone, part, a))
    BY <2>1, <2>2, <2>4, <2>5
  <2>7. Sum(h, Area) = Sum(f, Zone)
    BY <2>2, <2>3, <2>6, BucketsAreFinite, SumOfParts
  <2> QED
    BY <1>1, <1>2, <1>3, <2>1, <2>4, <2>5, <2>7
<1> QED
  BY <1>4, <1>5

-----------------------------------------------------------------------------
(***************************************************************************)
(* MTRCount: the invariant.  Upserted drops a record whose stamp is not    *)
(* newer than the one stored, so a combination is stored as it is only     *)
(* because no stamp is ahead of the adapter, after a restart either        *)
(* (NotAhead), and because buckets come and go together (AllOrNone).       *)
(***************************************************************************)

\* No record is ahead of the adapter.
NotAhead == \A b \in Bucket : records[b] # Absent => records[b].stamp.sequence <= sequence

\* What is stored of a complete compound is its combination.
Follows ==
    IsComplete => \A b \in Bucket :
        records[b] # Absent => records[b].claim = Combination(states)[b]

\* All buckets are stored or none is.
AllOrNone == records = NothingStored \/ IsStored

\* The inductive invariant.
CountInv ==
    /\ MTRTypeOK
    /\ NotAhead
    /\ Follows
    /\ AllOrNone
    /\ OverlapIsNowhereElse
    /\ AvailabilityMatchesEvidence

\* What complete states are.
LEMMA CompleteIsTyped == MTRTypeOK /\ IsComplete => Complete(states)
BY DEF MTRTypeOK, IsComplete, Complete

\* The buckets and entities there are.
LEMMA BucketsOverlap ==
    /\ Overlapping \in Bucket /\ Outside \in Bucket /\ Area \in SUBSET Bucket
    /\ Total \in Entity
BY DEF Bucket, Entity

\* The withdrawal of all evidence.
LEMMA NothingKeepsInv ==
    ASSUME MTRTypeOK', records' = NothingStored, available' = FALSE
    PROVE  CountInv'
<1>1. \A b \in Bucket : records'[b] = Absent
  BY DEF NothingStored
<1>2. ~ IsStored'
  BY <1>1, BucketsOverlap DEF IsStored
<1>3. NotAhead' /\ Follows' /\ AllOrNone' /\ OverlapIsNowhereElse'
  BY <1>1, BucketsOverlap DEF NotAhead, Follows, AllOrNone, OverlapIsNowhereElse, NothingStored
<1>4. AvailabilityMatchesEvidence'
  BY <1>2 DEF AvailabilityMatchesEvidence, NothingStored
<1> QED
  BY <1>3, <1>4 DEF CountInv

\* An adapter starts with nothing.
LEMMA MTRInitIsInv == MTRInit => CountInv
<1> SUFFICES ASSUME MTRInit PROVE CountInv
  OBVIOUS
<1>1. \A b \in Bucket : records[b] = Absent
  BY DEF MTRInit, NothingStored
<1>2. MTRTypeOK
  BY <1>1 DEF MTRInit, MTRTypeOK, NothingStored
<1>3. ~ IsComplete /\ \A e \in Entity : heard[e] = -1
  BY BucketsOverlap DEF MTRInit, IsComplete
<1>4. NotAhead /\ Follows /\ AllOrNone /\ OverlapIsNowhereElse
  BY <1>1, <1>3, BucketsOverlap DEF MTRInit, NotAhead, Follows, AllOrNone, OverlapIsNowhereElse
<1>5. AvailabilityMatchesEvidence
  BY <1>3 DEF MTRInit, AvailabilityMatchesEvidence
<1> QED
  BY <1>2, <1>4, <1>5 DEF CountInv

\* What a report that completes the compound leaves of every bucket.
LEMMA CombinationIsStored ==
    ASSUME MTRTypeOK, NotAhead, NEW s, Complete(s), sequence' = NextSequence(s),
           records' = [b \in Bucket |->
              Upserted(records[b], Combination(s)[b],
                       [sequence |-> sequence', at |-> LatestOf(s, Entity)])]
    PROVE  /\ sequence' \in Nat
           /\ records' \in [Bucket -> Evidence]
           /\ \A b \in Bucket : /\ records'[b].claim = Combination(s)[b]
                                /\ records'[b].stamp.sequence <= sequence'
<1>1. LatestOf(s, Entity) \in ReportTime /\ LatestOf(s, Entity) \in Nat
  BY LatestIsTold, BucketsOverlap, BoundAssumption DEF ReportTime
<1> DEFINE next == sequence + 1
           stamped == Resolution * LatestOf(s, Entity)
<1>2. next \in Nat /\ next > sequence /\ sequence \in Nat
  BY DEF MTRTypeOK
<1>3. stamped \in Nat
  BY <1>1, BoundAssumption
<1>4. sequence' = IF stamped > next THEN stamped ELSE next
  BY DEF NextSequence
<1> HIDE DEF next, stamped
<1>5. sequence' \in Nat /\ sequence' > sequence
  BY <1>2, <1>3, <1>4
<1> DEFINE stamp == [sequence |-> sequence', at |-> LatestOf(s, Entity)]
<1>6. stamp \in [sequence : Nat, at : ReportTime] /\ stamp.sequence = sequence'
  BY <1>1, <1>5
<1>7. ASSUME NEW b \in Bucket
      PROVE  /\ records'[b] \in Evidence
             /\ records'[b].claim = Combination(s)[b]
             /\ records'[b].stamp.sequence <= sequence'
  <2>1. records'[b] = Upserted(records[b], Combination(s)[b], stamp)
    OBVIOUS
  <2>2. Combination(s)[b] \in Claim
    BY CombinationClaims
  <2>3. [claim |-> Combination(s)[b], stamp |-> stamp] \in Evidence
    BY <1>6, <2>2 DEF Evidence
  <2>4. CASE records[b] = Absent
    BY <1>5, <1>6, <2>1, <2>3, <2>4 DEF Upserted
  <2>5. CASE records[b] # Absent
    <3>1. records[b] \in Evidence /\ records[b].stamp.sequence <= sequence
      BY <2>5 DEF MTRTypeOK, NotAhead
    <3>2. records[b].stamp.sequence \in Nat
      BY <3>1 DEF Evidence
    <3> HIDE DEF stamp
    <3>3. IsLater(stamp, records[b].stamp)
      BY <1>2, <1>5, <1>6, <3>1, <3>2 DEF IsLater
    <3> QED
      BY <1>2, <1>5, <1>6, <2>1, <2>3, <2>5, <3>1, <3>2, <3>3 DEF Upserted
  <2> QED
    BY <2>4, <2>5
<1> QED
  BY <1>5, <1>7

\* A report that completes nothing withdraws all; one that completes stores
\* its combination.
LEMMA ReportKeepsInv ==
    ASSUME CountInv, NEW e \in Entity, NEW value \in Count, NEW at \in ReportTime,
           Report(e, value, at)
    PROVE  CountInv'
<1>1. /\ states' = [states EXCEPT ![e] = [value |-> value, at |-> at]]
      /\ heard' = [heard EXCEPT ![e] = at]
  BY DEF Report
<1>2. /\ states' \in [Entity -> Told \cup {Absent}]
      /\ heard' \in [Entity -> ReportTime \cup {-1}]
  BY <1>1 DEF CountInv, MTRTypeOK, Told
<1>3. CASE \E x \in Entity : states'[x] = Absent
  <2>1. available' = FALSE /\ UNCHANGED <<sequence, records>>
    BY <1>3 DEF Report
  <2>2. ~ IsComplete'
    BY <1>3 DEF IsComplete
  <2>3. MTRTypeOK'
    BY <1>2, <2>1 DEF CountInv, MTRTypeOK
  <2>4. NotAhead' /\ Follows' /\ AllOrNone' /\ OverlapIsNowhereElse'
    BY <2>1, <2>2
       DEF CountInv, NotAhead, Follows, AllOrNone, IsStored, OverlapIsNowhereElse, NothingStored
  <2>5. AvailabilityMatchesEvidence'
    BY <2>1, <2>2 DEF CountInv, AvailabilityMatchesEvidence, NothingStored
  <2> QED
    BY <2>3, <2>4, <2>5 DEF CountInv
<1>4. CASE \A x \in Entity : states'[x] # Absent
  <2>1. /\ sequence' = NextSequence(states') /\ available' = TRUE
        /\ records' = [b \in Bucket |->
              Upserted(records[b], Combination(states')[b],
                       [sequence |-> sequence', at |-> LatestOf(states', Entity)])]
    BY <1>4 DEF Report
  <2>2. Complete(states')
    BY <1>2, <1>4 DEF Complete
  <2>3. /\ sequence' \in Nat /\ records' \in [Bucket -> Evidence]
        /\ \A b \in Bucket : /\ records'[b].claim = Combination(states')[b]
                             /\ records'[b].stamp.sequence <= sequence'
    BY <2>1, <2>2, CombinationIsStored DEF CountInv
  <2>4. \A b \in Bucket : records'[b] # Absent
    BY <2>3, AbsentAssumption
  <2>5. MTRTypeOK'
    BY <1>2, <2>1, <2>3 DEF MTRTypeOK
  <2>6. NotAhead' /\ Follows' /\ AllOrNone' /\ IsStored' /\ IsComplete'
    BY <1>4, <2>3, <2>4 DEF NotAhead, Follows, AllOrNone, IsStored, IsComplete
  <2>7. OverlapIsNowhereElse'
    <3>1. CASE Overlaps(states')
      BY <2>2, <2>3, <3>1, CombinationClaims, BucketsOverlap DEF OverlapIsNowhereElse
    <3>2. CASE ~ Overlaps(states')
      <4>1. records'[Overlapping].claim.value = 0
        BY <2>2, <2>3, <3>2, CombinationClaims, BucketsOverlap
      <4> QED
        BY <4>1 DEF OverlapIsNowhereElse
    <3> QED
      BY <3>1, <3>2
  <2>8. AvailabilityMatchesEvidence'
    BY <2>1, <2>4, <2>6 DEF AvailabilityMatchesEvidence
  <2> QED
    BY <2>5, <2>6, <2>7, <2>8 DEF CountInv
<1> QED
  BY <1>3, <1>4

\* restore_revision: the adapter is not behind what is restored.
LEMMA RestartKeepsInv == CountInv /\ MTRRestart => CountInv'
<1> SUFFICES ASSUME CountInv, MTRRestart PROVE CountInv'
  OBVIOUS
<1> DEFINE stored == {x \in Bucket : records[x] # Absent}
           stamps == {0} \cup {records[b].stamp.sequence : b \in stored}
<1>1. /\ states' = [e \in Entity |-> Absent] /\ heard' = [e \in Entity |-> -1]
      /\ sequence' = Max(stamps) /\ UNCHANGED <<records, available>>
  BY DEF MTRRestart, RestoredSequence
<1>2. \A b \in stored : records[b].stamp.sequence \in Nat
  BY DEF CountInv, MTRTypeOK, Evidence
<1>3. IsFiniteSet(stamps)
  <2>1. IsFiniteSet(stored)
    BY BucketsAreFinite, FS_Subset
  <2> DEFINE f == [b \in stored |-> records[b].stamp.sequence]
  <2>2. stamps = {0} \cup {f[b] : b \in stored}
    OBVIOUS
  <2> HIDE DEF stamps, stored, f
  <2>3. IsFiniteSet({f[b] : b \in stored})
    BY <2>1, ImageIsFinite
  <2>4. IsFiniteSet({0})
    BY FS_Singleton, Zenon
  <2> QED
    BY <2>2, <2>3, <2>4, FS_Union
<1>4. stamps \in SUBSET Nat /\ stamps # {}
  BY <1>2
<1>5. \A b \in Bucket : records[b] # Absent => records[b].stamp.sequence \in stamps
  OBVIOUS
<1> HIDE DEF stamps, stored
<1>6. sequence' \in Nat /\ \A x \in stamps : x <= sequence'
  BY <1>1, <1>3, <1>4, MaxIsGreatest
<1>7. MTRTypeOK'
  BY <1>1, <1>6 DEF CountInv, MTRTypeOK
<1>8. NotAhead'
  BY <1>1, <1>5, <1>6 DEF NotAhead
<1>9. ~ IsComplete' /\ \A e \in Entity : heard'[e] = -1
  BY <1>1, BucketsOverlap DEF IsComplete
<1>10. Follows' /\ AllOrNone' /\ OverlapIsNowhereElse'
  BY <1>1, <1>9 DEF CountInv, Follows, AllOrNone, IsStored, NothingStored, OverlapIsNowhereElse
<1>11. AvailabilityMatchesEvidence'
  BY <1>1, <1>9 DEF CountInv, AvailabilityMatchesEvidence, NothingStored
<1> QED
  BY <1>7, <1>8, <1>10, <1>11 DEF CountInv

\* Every step keeps the invariant.
LEMMA MTRNextKeepsInv == CountInv /\ [MTRNext]_mtrVars => CountInv'
<1> SUFFICES ASSUME CountInv, [MTRNext]_mtrVars PROVE CountInv'
  OBVIOUS
<1>1. CASE \E e \in Entity, value \in Count, at \in ReportTime : Report(e, value, at)
  BY <1>1, ReportKeepsInv
<1>2. CASE \E e \in Entity, at \in ReportTime : Invalid(e, at)
  <2>1. MTRTypeOK' /\ records' = NothingStored /\ available' = FALSE
    BY <1>2 DEF Invalid, CountInv, MTRTypeOK, NothingStored
  <2> QED
    BY <2>1, NothingKeepsInv
<1>3. CASE Withdraw
  <2>1. MTRTypeOK' /\ records' = NothingStored /\ available' = FALSE
    BY <1>3 DEF Withdraw, CountInv, MTRTypeOK, NothingStored
  <2> QED
    BY <2>1, NothingKeepsInv
<1>4. CASE MTRRestart
  BY <1>4, RestartKeepsInv
<1>5. CASE UNCHANGED mtrVars
  BY <1>5 DEF mtrVars, CountInv, MTRTypeOK, NotAhead, Follows, IsComplete, AllOrNone, IsStored,
     NothingStored, OverlapIsNowhereElse, AvailabilityMatchesEvidence
<1> QED
  BY <1>1, <1>2, <1>3, <1>4, <1>5 DEF MTRNext

\* The strengthening holds in every reachable state.
THEOREM CountInvariance == MTRSpec => []CountInv
<1> QED
  BY MTRInitIsInv, MTRNextKeepsInv, PTL DEF MTRSpec

\* The variables of the counter have their types.
THEOREM CountTypes == MTRSpec => []MTRTypeOK
<1>1. CountInv => MTRTypeOK
  BY DEF CountInv
<1> QED
  BY <1>1, CountInvariance, PTL

\* For any zones in any areas, reported in any order and restored from any
\* save, the buckets hold each of the targets the device tells once
\* (adapters/mtr.py, parse).
THEOREM CountsAddUp == MTRSpec => []PopulationIsTheTotal
<1>1. CountInv => PopulationIsTheTotal
  <2> SUFFICES ASSUME CountInv, IsComplete, IsStored
               PROVE  states[Total].value = SumOf([b \in Bucket |-> records[b].claim], Bucket)
    BY DEF PopulationIsTheTotal
  <2> DEFINE r == [b \in Bucket |-> records[b].claim]
  <2>1. \A b \in Bucket : r[b] = Combination(states)[b]
    BY DEF CountInv, Follows, IsStored
  <2>2. Complete(states)
    BY CompleteIsTyped DEF CountInv
  <2> HIDE DEF r
  <2>3. SumOf(r, Bucket) = states[Total].value
    BY <2>1, <2>2, CombinationAddsUp
  <2> USE DEF r
  <2> QED
    BY <2>3
<1> QED
  BY <1>1, CountInvariance, PTL

\* While targets are in overlapping zones, no area counts one or passes for
\* measured empty, and none is outside (_zero_zone_buckets).
THEOREM OverlapIsExclusive == MTRSpec => []OverlapIsNowhereElse
<1>1. CountInv => OverlapIsNowhereElse
  BY DEF CountInv
<1> QED
  BY <1>1, CountInvariance, PTL

\* Coverage and evidence of a compound agree, whichever entities are lost and
\* come back (parse, and the failures process handles).
THEOREM CoverageIsWhole == MTRSpec => []AvailabilityMatchesEvidence
<1>1. CountInv => AvailabilityMatchesEvidence
  BY DEF CountInv
<1> QED
  BY <1>1, CountInvariance, PTL

-----------------------------------------------------------------------------
\* The sums of the buffers.
LEMMA SumOverIsSum ==
    ASSUME NEW f
    PROVE  SumOver(f) = Sum(f, Channel)
<1> DEFINE IsIter(g) == g = [t \in SUBSET Channel |->
                               IF t = {} THEN 0
                               ELSE LET x == CHOOSE x \in t : TRUE
                                    IN  f[x] + g[t \ {x}]]
<1>1. SumOver(f) = (CHOOSE g : IsIter(g))[Channel]
  BY DEF SumOver, MapThenSumSet, MapThenFoldSet
<1>2. \A g : IsIter(g) <=> IsSums(g, f, Channel)
  BY DEF IsSums, Some
<1>3. (CHOOSE g : IsIter(g)) = CHOOSE g : IsSums(g, f, Channel)
  <2> HIDE DEF IsIter
  <2> QED
    BY <1>2
<1> QED
  BY <1>1, <1>3 DEF Sum

-----------------------------------------------------------------------------
(***************************************************************************)
(* SignalBuffers: histories and what is left of them.                      *)
(***************************************************************************)

\* u is what is left of s when its oldest samples are gone.
IsRest(u, s) ==
    /\ u \in Seq(Sample) /\ Len(u) <= Len(s)
    /\ \A i \in 1 .. Len(u) : u[i] = s[i + (Len(s) - Len(u))]

\* A history is ordered in time.
Ascends(s) == \A i, j \in DOMAIN s : i < j => s[i].at < s[j].at

\* No two neighbours read the same.
Alternates(s) == \A i \in 2 .. Len(s) : s[i - 1].reading # s[i].reading

\* The last n samples of a history are a rest of it.
LEMMA RestIsRest ==
    ASSUME NEW s \in Seq(Sample), NEW n \in 0 .. Len(s)
    PROVE  /\ Rest(s, n) \in Seq(Sample) /\ Len(Rest(s, n)) = Len(s) - n
           /\ \A i \in 1 .. Len(s) - n : Rest(s, n)[i] = s[i + n]
           /\ IsRest(Rest(s, n), s)
<1>1. /\ Rest(s, n) \in Seq(Sample) /\ Len(Rest(s, n)) = Len(s) - n
      /\ \A i \in 1 .. Len(s) - n : Rest(s, n)[i] = s[i + n]
  BY DEF Rest
<1> QED
  BY <1>1 DEF IsRest

\* A rest of a rest is one, and a history is a rest of itself.
LEMMA RestOfRest ==
    ASSUME NEW s \in Seq(Sample), NEW u, NEW v, IsRest(u, s), IsRest(v, u)
    PROVE  IsRest(v, s)
<1>1. /\ u \in Seq(Sample) /\ v \in Seq(Sample) /\ Len(v) <= Len(u) /\ Len(u) <= Len(s)
      /\ Len(s) \in Nat /\ Len(u) \in Nat /\ Len(v) \in Nat
  BY DEF IsRest
<1>2. \A i \in 1 .. Len(v) : v[i] = s[i + (Len(s) - Len(v))]
  <2> TAKE i \in 1 .. Len(v)
  <2>1. v[i] = u[i + (Len(u) - Len(v))]
    BY DEF IsRest
  <2>2. i + (Len(u) - Len(v)) \in 1 .. Len(u)
    BY <1>1
  <2>3. u[i + (Len(u) - Len(v))] = s[(i + (Len(u) - Len(v))) + (Len(s) - Len(u))]
    BY <2>2 DEF IsRest
  <2>4. (i + (Len(u) - Len(v))) + (Len(s) - Len(u)) = i + (Len(s) - Len(v))
    BY <1>1
  <2> QED
    BY <2>1, <2>3, <2>4
<1> QED
  BY <1>1, <1>2 DEF IsRest

\* A rest is no longer than the history.
LEMMA RestIsShorter ==
    ASSUME NEW s \in Seq(Sample), NEW u, IsRest(u, s)
    PROVE  Len(u) \in Nat /\ Len(s) \in Nat /\ Len(u) <= Len(s)
BY DEF IsRest

\* A history is a rest of itself.
LEMMA RestOfItself == ASSUME NEW s \in Seq(Sample) PROVE IsRest(s, s)
BY DEF IsRest

\* What is left of a series is one, and ends with the same sample.
LEMMA RestKeepsSeries ==
    ASSUME NEW s \in Seq(Sample), NEW u, IsRest(u, s)
    PROVE  /\ Ascends(s) => Ascends(u)
           /\ Alternates(s) => Alternates(u)
           /\ u # << >> => s # << >> /\ u[Len(u)] = s[Len(s)]
<1> DEFINE d == Len(s) - Len(u)
<1>1. u \in Seq(Sample) /\ Len(u) \in Nat /\ Len(s) \in Nat /\ d \in Nat
      /\ DOMAIN u = 1 .. Len(u) /\ DOMAIN s = 1 .. Len(s)
  BY DEF IsRest
<1>2. \A i \in 1 .. Len(u) : u[i] = s[i + d] /\ i + d \in 1 .. Len(s)
  BY <1>1 DEF IsRest
<1>3. Len(s) = Len(u) + d
  BY <1>1
<1> HIDE DEF d
<1>4. Ascends(s) => Ascends(u)
  <2> SUFFICES ASSUME Ascends(s), NEW i \in DOMAIN u, NEW j \in DOMAIN u, i < j
               PROVE  u[i].at < u[j].at
    BY DEF Ascends
  <2>1. i + d < j + d /\ i + d \in DOMAIN s /\ j + d \in DOMAIN s
    BY <1>1, <1>2
  <2>2. s[i + d].at < s[j + d].at
    BY <2>1 DEF Ascends
  <2> QED
    BY <1>1, <1>2, <2>2
<1>5. Alternates(s) => Alternates(u)
  <2> SUFFICES ASSUME Alternates(s), NEW i \in 2 .. Len(u)
               PROVE  u[i - 1].reading # u[i].reading
    BY DEF Alternates
  <2>1. i + d \in 2 .. Len(s) /\ (i + d) - 1 = (i - 1) + d /\ i - 1 \in 1 .. Len(u)
    BY <1>1, <1>3
  <2>2. s[(i + d) - 1].reading # s[i + d].reading
    BY <2>1 DEF Alternates
  <2> QED
    BY <1>1, <1>2, <2>1, <2>2
<1>6. u # << >> => s # << >> /\ u[Len(u)] = s[Len(s)]
  <2> SUFFICES ASSUME u # << >> PROVE s # << >> /\ u[Len(u)] = s[Len(s)]
    OBVIOUS
  <2>1. Len(u) \in 1 .. Len(u)
    BY <1>1
  <2> QED
    BY <1>1, <1>2, <1>3, <2>1
<1> QED
  BY <1>4, <1>5, <1>6

\* Samples are dated by natural numbers.
LEMMA SampleIsDated == ASSUME NEW x \in Sample PROVE x.at \in Nat
<1>1. x.at \in 0 .. MaxNow
  BY DEF Sample, Instant
<1> QED
  BY <1>1, LimitAssumption

\* The positions of a history, and the dates of its samples.
LEMMA SeriesIsDated ==
    ASSUME NEW s \in Seq(Sample)
    PROVE  Len(s) \in Nat /\ DOMAIN s = 1 .. Len(s)
           /\ \A i \in 1 .. Len(s) : s[i] \in Sample /\ s[i].at \in Nat
<1>1. \A i \in 1 .. Len(s) : s[i] \in Sample
  OBVIOUS
<1> QED
  BY <1>1, SampleIsDated

\* InWindow is a recursive function over the positions of a history.
IsKept(g, s, t) ==
    g = [i \in 0 .. Len(s) |->
            IF i = 0 THEN << >>
            ELSE IF s[i].at > t - Window THEN Append(g[i - 1], s[i]) ELSE g[i - 1]]

\* Of a history that ascends, the samples in the window are a rest.
LEMMA KeptExists ==
    ASSUME NEW s \in Seq(Sample), Ascends(s), NEW t \in Int,
           NEW n \in 0 .. Len(s),
           \A i \in 1 .. n : s[i].at <= t - Window,
           \A i \in n + 1 .. Len(s) : s[i].at > t - Window
    PROVE  /\ \E g : IsKept(g, s, t)
           /\ \A g : IsKept(g, s, t) => g[Len(s)] = Rest(s, n)
<1> DEFINE all == [i \in 0 .. Len(s) |-> SubSeq(s, n + 1, i)]
<1>1. Len(s) \in Nat /\ n \in Nat /\ Window \in Nat
  BY LimitAssumption
<1>2. \A i \in 1 .. Len(s) :
         all[i] = IF s[i].at > t - Window THEN Append(all[i - 1], s[i]) ELSE all[i - 1]
  <2> TAKE i \in 1 .. Len(s)
  <2>1. s[i] \in Sample /\ s[i].at \in Int
    BY SeriesIsDated
  <2>2. all[i] = SubSeq(s, n + 1, i) /\ all[i - 1] = SubSeq(s, n + 1, i - 1)
    <3>1. i \in 0 .. Len(s) /\ i - 1 \in 0 .. Len(s)
      BY <1>1
    <3> QED
      BY <3>1
  <2> HIDE DEF all
  <2>3. CASE i <= n
    <3>1. ~ (s[i].at > t - Window)
      BY <1>1, <2>1, <2>3
    <3>2. SubSeq(s, n + 1, i) = << >> /\ SubSeq(s, n + 1, i - 1) = << >>
      BY <1>1, <2>3
    <3> QED
      BY <2>2, <3>1, <3>2
  <2>4. CASE i > n
    <3>1. s[i].at > t - Window
      BY <1>1, <2>1, <2>4
    <3>2. SubSeq(s, n + 1, i) = Append(SubSeq(s, n + 1, i - 1), s[i])
      <4> DEFINE u == SubSeq(s, n + 1, i)
                 v == SubSeq(s, n + 1, i - 1)
      <4>1. /\ u \in Seq(Sample) /\ Len(u) = i - n
            /\ \A j \in 1 .. i - n : u[j] = s[j + n]
        BY <1>1, <2>4
      <4>2. /\ v \in Seq(Sample) /\ Len(v) = (i - n) - 1
            /\ \A j \in 1 .. (i - n) - 1 : v[j] = s[j + n]
        BY <1>1, <2>4
      <4>3. i - n \in Nat /\ (i - n) + n = i
        BY <1>1, <2>4
      <4> HIDE DEF u, v
      <4>4. u = Append(v, s[i])
        BY <2>1, <4>1, <4>2, <4>3
      <4> QED
        BY <4>4 DEF u, v
    <3> QED
      BY <2>2, <3>1, <3>2
  <2> QED
    BY <1>1, <2>3, <2>4
<1>3. all[0] = << >>
  BY <1>1
<1>4. all = [i \in 0 .. Len(s) |-> all[i]]
  OBVIOUS
<1>5. all[Len(s)] = Rest(s, n)
  BY <1>1 DEF Rest
<1> HIDE DEF all
<1>6. IsKept(all, s, t)
  <2>1. \A i \in 0 .. Len(s) : i = 0 \/ i \in 1 .. Len(s)
    BY <1>1
  <2> QED
    BY <1>2, <1>3, <1>4, <2>1 DEF IsKept
<1>7. ASSUME NEW g, IsKept(g, s, t)
      PROVE  g[Len(s)] = all[Len(s)]
  <2> DEFINE Bad == {i \in 0 .. Len(s) : g[i] # all[i]}
  <2>1. SUFFICES ASSUME Bad # {} PROVE FALSE
    BY <1>1
  <2>2. PICK k \in Bad : \A j \in Bad : k <= j
    <3>1. Bad \in SUBSET Nat
      OBVIOUS
    <3> HIDE DEF Bad
    <3> QED
      BY <2>1, <3>1, LeastElement
  <2>3. k \in 0 .. Len(s) /\ g[k] # all[k]
    BY <2>2
  <2>4. k # 0
    BY <1>3, <1>7, <2>3 DEF IsKept
  <2>5. k - 1 \in 0 .. Len(s) /\ g[k - 1] = all[k - 1]
    BY <1>1, <2>2, <2>3, <2>4
  <2>6. k \in 1 .. Len(s)
    BY <1>1, <2>3, <2>4
  <2>7. g[k] = IF s[k].at > t - Window THEN Append(g[k - 1], s[k]) ELSE g[k - 1]
    BY <1>7, <2>3, <2>4 DEF IsKept
  <2> QED
    BY <1>2, <2>3, <2>5, <2>6, <2>7
<1> QED
  BY <1>5, <1>6, <1>7

\* So trimming a history that ascends takes its oldest samples, and only those
\* whose time has come.
LEMMA InWindowIsRest ==
    ASSUME NEW s \in Seq(Sample), Ascends(s), NEW t \in Int
    PROVE  \E n \in 0 .. Len(s) :
              /\ InWindow(s, t) = Rest(s, n)
              /\ \A i \in 1 .. n : s[i].at <= t - Window
              /\ \A i \in n + 1 .. Len(s) : s[i].at > t - Window
<1> DEFINE After == {i \in 0 .. Len(s) : \A j \in i + 1 .. Len(s) : s[j].at > t - Window}
<1>1. Len(s) \in Nat /\ Window \in Nat /\ DOMAIN s = 1 .. Len(s)
      /\ \A i \in 1 .. Len(s) : s[i] \in Sample /\ s[i].at \in Int
  BY LimitAssumption, SeriesIsDated
<1>2. PICK n \in After : \A j \in After : n <= j
  <2>1. After \in SUBSET Nat /\ Len(s) \in After
    BY <1>1
  <2> HIDE DEF After
  <2> QED
    BY <2>1, LeastElement
<1>3. n \in 0 .. Len(s) /\ \A i \in n + 1 .. Len(s) : s[i].at > t - Window
  BY <1>2
<1>4. n # 0 => s[n].at <= t - Window
  <2> SUFFICES ASSUME n # 0, ~ (s[n].at <= t - Window) PROVE FALSE
    OBVIOUS
  <2>1. n \in 1 .. Len(s) /\ s[n].at > t - Window
    BY <1>1, <1>3
  <2>2. n - 1 \in 0 .. Len(s) /\ \A j \in (n - 1) + 1 .. Len(s) : j = n \/ j \in n + 1 .. Len(s)
    BY <1>1, <2>1
  <2>3. n - 1 \in After
    BY <1>3, <2>1, <2>2
  <2>4. n <= n - 1
    <3> HIDE DEF After
    <3> QED
      BY <1>2, <2>3
  <2> QED
    BY <1>1, <1>3, <2>4
<1>5. \A i \in 1 .. n : s[i].at <= t - Window
  <2> TAKE i \in 1 .. n
  <2>1. i = n \/ (i < n /\ i \in DOMAIN s /\ n \in DOMAIN s)
    BY <1>1, <1>3
  <2>2. i < n => s[i].at < s[n].at
    BY <2>1 DEF Ascends
  <2>3. s[i].at \in Int /\ s[n].at \in Int /\ n # 0
    BY <1>1, <1>3
  <2> QED
    BY <1>1, <1>4, <2>1, <2>2, <2>3
<1>6. InWindow(s, t) = Rest(s, n)
  <2>1. InWindow(s, t) = (CHOOSE g : IsKept(g, s, t))[Len(s)]
    BY DEF InWindow, IsKept
  <2>2. (\E g : IsKept(g, s, t)) /\ \A g : IsKept(g, s, t) => g[Len(s)] = Rest(s, n)
    BY <1>3, <1>5, KeptExists
  <2> QED
    BY <2>1, <2>2
<1> QED
  BY <1>3, <1>5, <1>6

-----------------------------------------------------------------------------
(***************************************************************************)
(* Buffers.                                                                *)
(***************************************************************************)

\* Histories, latest samples and the channels known to be truncated.
Buffer == [samples   : [Channel -> Seq(Sample)],
           latest    : [Channel -> Sample \cup {Missing}],
           truncated : SUBSET Channel]

\* A history is a series, and ends with the latest sample; but for a BLE
\* channel whose latest sample was stale when it came.
SaneAt(b, c, t) ==
    LET s    == b.samples[c]
        last == b.latest[c]
    IN  /\ Ascends(s) /\ Alternates(s) /\ Len(s) <= Limit
        /\ s # << >> => /\ last \in Sample
                        /\ \/ s[Len(s)] = last
                           \/ /\ c \in Ble
                              /\ s[Len(s)].at < last.at
                              /\ last.at <= t - Window

\* Every channel is sane at t.
Sane(b, t) == b \in Buffer /\ \A c \in Channel : SaneAt(b, c, t)

\* What is in the window of s at t is in u.
Holds(u, s, t) ==
    \A i \in DOMAIN s : s[i].at > t - Window => \E j \in DOMAIN u : u[j] = s[i]

\* From b to d nothing in the window is lost, or the channel is truncated.
Keeps(b, d, t) ==
    /\ b.truncated \subseteq d.truncated
    /\ \A c \in Channel : c \in d.truncated \/ Holds(d.samples[c], b.samples[c], t)

\* The fields of buffers.
LEMMA BufferFields ==
    ASSUME NEW b \in Buffer
    PROVE  /\ b = [samples |-> b.samples, latest |-> b.latest, truncated |-> b.truncated]
           /\ b.samples \in [Channel -> Seq(Sample)]
           /\ b.latest \in [Channel -> Sample \cup {Missing}]
           /\ b.truncated \in SUBSET Channel
           /\ \A c \in Channel : b.samples[c] \in Seq(Sample)
BY DEF Buffer

\* Without its first n samples a history holds all later ones.
LEMMA RestHolds ==
    ASSUME NEW s \in Seq(Sample), NEW n \in 0 .. Len(s), NEW t \in Int,
           \A i \in 1 .. n : ~ (s[i].at > t - Window)
    PROVE  Holds(Rest(s, n), s, t)
<1> SUFFICES ASSUME NEW i \in DOMAIN s, s[i].at > t - Window
             PROVE  \E j \in DOMAIN Rest(s, n) : Rest(s, n)[j] = s[i]
  BY DEF Holds
<1>1. i \in 1 .. Len(s) /\ ~ (i \in 1 .. n) /\ Len(s) \in Nat /\ n \in Nat
  OBVIOUS
<1>2. i - n \in 1 .. Len(s) - n /\ (i - n) + n = i
  BY <1>1
<1>3. Rest(s, n)[i - n] = s[i] /\ Rest(s, n) \in Seq(Sample) /\ Len(Rest(s, n)) = Len(s) - n
  <2>1. /\ Rest(s, n) \in Seq(Sample) /\ Len(Rest(s, n)) = Len(s) - n
        /\ \A j \in 1 .. Len(s) - n : Rest(s, n)[j] = s[j + n]
    BY RestIsRest
  <2>2. Rest(s, n)[i - n] = s[(i - n) + n]
    BY <1>2, <2>1
  <2> QED
    BY <1>2, <2>1, <2>2
<1>4. i - n \in DOMAIN Rest(s, n)
  BY <1>2, <1>3
<1> QED
  BY <1>3, <1>4

\* Trimming leaves the samples in the window.
LEMMA TrimmedIsRest ==
    ASSUME NEW b \in Buffer, \A c \in Channel : Ascends(b.samples[c]),
           NEW channels \in SUBSET Channel, NEW t \in Int
    PROVE  LET d == Trimmed(b, channels, t)
           IN  /\ d \in Buffer /\ d.latest = b.latest /\ d.truncated = b.truncated
               /\ \A c \in Channel :
                     /\ IsRest(d.samples[c], b.samples[c])
                     /\ Holds(d.samples[c], b.samples[c], t)
               /\ \A c \in channels : \A i \in 1 .. Len(d.samples[c]) :
                     d.samples[c][i].at > t - Window
<1> DEFINE d == Trimmed(b, channels, t)
           left(c) == IF c \in channels THEN InWindow(b.samples[c], t) ELSE b.samples[c]
<1>1. d = [samples   |-> [c \in Channel |-> left(c)],
           latest    |-> b.latest,
           truncated |-> b.truncated]
  <2>1. d = [b EXCEPT !.samples = [c \in Channel |-> left(c)]]
    BY DEF Trimmed
  <2> HIDE DEF d, left
  <2> QED
    BY <2>1, BufferFields
<1>2. ASSUME NEW c \in Channel
      PROVE  /\ IsRest(left(c), b.samples[c])
             /\ Holds(left(c), b.samples[c], t)
             /\ c \in channels => \A i \in 1 .. Len(left(c)) : left(c)[i].at > t - Window
  <2> DEFINE s == b.samples[c]
  <2>1. s \in Seq(Sample) /\ Ascends(s)
    BY BufferFields
  <2>2. CASE c \in channels
    <3> HIDE DEF s
    <3>1. PICK n \in 0 .. Len(s) :
             /\ InWindow(s, t) = Rest(s, n)
             /\ \A i \in 1 .. n : s[i].at <= t - Window
             /\ \A i \in n + 1 .. Len(s) : s[i].at > t - Window
      BY <2>1, InWindowIsRest
    <3>2. left(c) = Rest(s, n)
      BY <2>2, <3>1 DEF s
    <3>3. \A i \in 1 .. n : ~ (s[i].at > t - Window)
      BY <2>1, <3>1, SeriesIsDated, LimitAssumption
    <3>4. IsRest(Rest(s, n), s) /\ Holds(Rest(s, n), s, t)
      BY <2>1, <3>3, RestIsRest, RestHolds
    <3>5. \A i \in 1 .. Len(Rest(s, n)) : Rest(s, n)[i].at > t - Window
      <4> TAKE i \in 1 .. Len(Rest(s, n))
      <4>1. i \in 1 .. Len(s) - n /\ Rest(s, n)[i] = s[i + n]
        BY <2>1, RestIsRest
      <4>2. i + n \in n + 1 .. Len(s)
        BY <2>1, <4>1
      <4> QED
        BY <3>1, <4>1, <4>2
    <3> QED
      BY <3>2, <3>4, <3>5 DEF s
  <2>3. CASE c \notin channels
    <3> HIDE DEF s
    <3>1. IsRest(s, s) /\ Holds(s, s, t)
      BY <2>1, RestOfItself DEF Holds
    <3> QED
      BY <2>3, <3>1 DEF s
  <2> QED
    BY <2>2, <2>3
<1> HIDE DEF left
<1>3. \A c \in Channel : left(c) \in Seq(Sample)
  BY <1>2 DEF IsRest
<1>4. d \in Buffer
  BY <1>1, <1>3, BufferFields DEF Buffer
<1>5. d.latest = b.latest /\ d.truncated = b.truncated
      /\ \A c \in Channel : d.samples[c] = left(c)
  BY <1>1
<1> HIDE DEF d
<1>6. /\ d \in Buffer /\ d.latest = b.latest /\ d.truncated = b.truncated
      /\ \A c \in Channel :
            /\ IsRest(d.samples[c], b.samples[c])
            /\ Holds(d.samples[c], b.samples[c], t)
      /\ \A c \in channels : \A i \in 1 .. Len(d.samples[c]) :
            d.samples[c][i].at > t - Window
  BY <1>2, <1>4, <1>5
<1> QED
  BY <1>6 DEF d

\* Fewer old samples, and a later clock, leave buffers sane.
LEMMA FewerIsSane ==
    ASSUME NEW b, NEW t \in Int, Sane(b, t), NEW d \in Buffer, d.latest = b.latest,
           \A c \in Channel : IsRest(d.samples[c], b.samples[c]),
           NEW later \in Int, t <= later
    PROVE  Sane(d, later)
<1> SUFFICES ASSUME NEW c \in Channel PROVE SaneAt(d, c, later)
  BY DEF Sane
<1> DEFINE s == b.samples[c]
           u == d.samples[c]
           last == b.latest[c]
<1>1. /\ s \in Seq(Sample) /\ IsRest(u, s) /\ u \in Seq(Sample) /\ d.latest[c] = last
      /\ Len(u) \in Nat /\ Len(s) \in Nat /\ Len(u) <= Len(s) /\ Limit \in Nat
      /\ Window \in Nat
  BY BufferFields, LimitAssumption DEF Sane, IsRest
<1>2. /\ Ascends(s) /\ Alternates(s) /\ Len(s) <= Limit
      /\ s # << >> => /\ last \in Sample
                      /\ \/ s[Len(s)] = last
                         \/ c \in Ble /\ s[Len(s)].at < last.at /\ last.at <= t - Window
  BY DEF Sane, SaneAt
<1>3. /\ Ascends(u) /\ Alternates(u)
      /\ u # << >> => s # << >> /\ u[Len(u)] = s[Len(s)]
  <2> HIDE DEF s, u
  <2> QED
    BY <1>1, <1>2, RestKeepsSeries
<1>4. last \in Sample /\ last.at <= t - Window => last.at <= later - Window
  BY <1>1, SampleIsDated
<1>5. Len(u) <= Limit
  BY <1>1, <1>2
<1>6. u # << >> => /\ last \in Sample
                   /\ \/ u[Len(u)] = last
                      \/ c \in Ble /\ u[Len(u)].at < last.at /\ last.at <= later - Window
  <2> HIDE DEF s, u, last
  <2> QED
    BY <1>2, <1>3, <1>4
<1> QED
  BY <1>1, <1>3, <1>5, <1>6 DEF SaneAt

\* A sample that is news after the end of a series extends it.
Extended(u, x) == IF Len(Append(u, x)) > Limit THEN Tail(Append(u, x)) ELSE Append(u, x)

\* A series and a later sample that reads otherwise are a series.
LEMMA AppendIsSeries ==
    ASSUME NEW u \in Seq(Sample), Ascends(u), Alternates(u), NEW x \in Sample,
           u # << >> => u[Len(u)].at < x.at /\ u[Len(u)].reading # x.reading
    PROVE  Ascends(Append(u, x)) /\ Alternates(Append(u, x))
<1> DEFINE v == Append(u, x)
           n == Len(u)
<1>1. /\ n \in Nat /\ DOMAIN u = 1 .. n /\ DOMAIN v = 1 .. n + 1 /\ Len(v) = n + 1
      /\ v[n + 1] = x /\ x.at \in Nat
      /\ \A i \in 1 .. n : v[i] = u[i] /\ u[i].at \in Nat
  BY SeriesIsDated, SampleIsDated
<1>2. n = 0 \/ u # << >>
  BY <1>1
<1> HIDE DEF v
<1>3. \A i \in 1 .. n : u[i].at < x.at
  <2> TAKE i \in 1 .. n
  <2>1. (i = n \/ i < n) /\ i \in DOMAIN u /\ n \in DOMAIN u
    <3>1. i \in Nat /\ n \in Nat /\ 1 <= i /\ i <= n
      BY <1>1
    <3>2. n \in 1 .. n /\ i \in 1 .. n /\ (i = n \/ i < n)
      BY <3>1
    <3>3. DOMAIN u = 1 .. n
      BY <1>1
    <3> HIDE DEF n
    <3> QED
      BY <3>2, <3>3
  <2>2. u[n].at < x.at /\ n \in 1 .. n
    BY <1>1, <1>2, <2>1
  <2>3. i < n => u[i].at < u[n].at
    BY <2>1 DEF Ascends
  <2> QED
    BY <1>1, <2>1, <2>2, <2>3
<1>4. Ascends(v)
  <2> SUFFICES ASSUME NEW i \in 1 .. n + 1, NEW j \in 1 .. n + 1, i < j
               PROVE  v[i].at < v[j].at
    BY <1>1 DEF Ascends
  <2>1. i \in 1 .. n /\ (j = n + 1 \/ j \in 1 .. n)
    BY <1>1
  <2>2. j \in 1 .. n => u[i].at < u[j].at
    BY <1>1, <2>1 DEF Ascends
  <2> HIDE DEF n
  <2> QED
    BY <1>1, <1>3, <2>1, <2>2
<1>5. Alternates(v)
  <2> SUFFICES ASSUME NEW i \in 2 .. n + 1 PROVE v[i - 1].reading # v[i].reading
    BY <1>1 DEF Alternates
  <2>1. i - 1 \in 1 .. n /\ (i = n + 1 \/ i \in 2 .. n)
    BY <1>1
  <2>2. CASE i = n + 1
    <3>1. i - 1 = n /\ u # << >>
      BY <1>1, <1>2, <2>1, <2>2
    <3> QED
      BY <1>1, <2>1, <2>2, <3>1
  <2>3. CASE i \in 2 .. n
    <3>1. u[i - 1].reading # u[i].reading /\ i \in 1 .. n
      BY <1>1, <2>3 DEF Alternates
    <3> QED
      BY <1>1, <2>1, <3>1
  <2> QED
    BY <2>1, <2>2, <2>3
<1> QED
  BY <1>4, <1>5 DEF v

\* Extended keeps the limit, the order and the end; what it drops is the oldest
\* sample of a history at its limit.
LEMMA ExtendedIsSane ==
    ASSUME NEW u \in Seq(Sample), Ascends(u), Alternates(u), Len(u) <= Limit, NEW x \in Sample,
           u # << >> => u[Len(u)].at < x.at /\ u[Len(u)].reading # x.reading,
           NEW t \in Int
    PROVE  LET v == Extended(u, x)
           IN  /\ v \in Seq(Sample) /\ Ascends(v) /\ Alternates(v) /\ Len(v) <= Limit
               /\ v # << >> /\ v[Len(v)] = x /\ Len(v) <= Len(u) + 1
               /\ Len(v) \in DOMAIN v
               /\ ~ (Len(Append(u, x)) > Limit) => Holds(v, u, t)
<1> DEFINE w == Append(u, x)
           v == Extended(u, x)
<1>1. /\ w \in Seq(Sample) /\ Len(w) = Len(u) + 1 /\ w[Len(w)] = x /\ Len(u) \in Nat
      /\ \A i \in 1 .. Len(u) : w[i] = u[i]
      /\ DOMAIN u = 1 .. Len(u) /\ DOMAIN w = 1 .. Len(u) + 1
      /\ Limit \in Nat /\ Limit > 0
  BY LimitAssumption
<1>2. Ascends(w) /\ Alternates(w)
  BY AppendIsSeries
<1>3. CASE Len(w) > Limit
  <2>1. v = Rest(w, 1)
    <3>1. v = Tail(w)
      BY <1>3 DEF Extended
    <3>2. w # << >>
      BY <1>1
    <3> HIDE DEF w, v
    <3>3. Tail(w) = SubSeq(w, 2, Len(w))
      BY <1>1, <3>2
    <3> QED
      BY <3>1, <3>3 DEF Rest
  <2> HIDE DEF w
  <2>2. 1 \in 0 .. Len(w)
    BY <1>1
  <2>3. /\ v \in Seq(Sample) /\ Len(v) = Len(w) - 1 /\ IsRest(v, w)
    BY <1>1, <2>1, <2>2, RestIsRest
  <2> HIDE DEF v
  <2>4. Len(v) = Limit /\ Len(v) \in DOMAIN v /\ v # << >> /\ Len(v) <= Len(u) + 1
    <3>1. Len(v) = Limit /\ Len(v) <= Len(u) + 1
      <4>1. Len(w) = Len(u) + 1 /\ Len(u) \in Nat /\ Limit \in Nat /\ Len(v) = Len(w) - 1
        BY <1>1, <2>3
      <4> QED
        BY <1>3, <4>1
    <3>2. Limit \in 1 .. Limit
      BY <1>1
    <3> QED
      BY <2>3, <3>1, <3>2
  <2>5. Ascends(v) /\ Alternates(v) /\ v[Len(v)] = w[Len(w)]
    BY <1>1, <1>2, <2>3, <2>4, RestKeepsSeries
  <2>6. Len(v) <= Limit
    BY <1>1, <2>4
  <2> QED
    BY <1>1, <1>3, <2>3, <2>4, <2>5, <2>6 DEF v, w
<1>4. CASE ~ (Len(w) > Limit)
  <2>1. v = w
    BY <1>4 DEF Extended
  <2>2. Holds(w, u, t)
    BY <1>1 DEF Holds
  <2>3. Len(w) <= Limit /\ Len(w) \in DOMAIN w /\ w # << >> /\ Len(w) <= Len(u) + 1
    BY <1>1, <1>4
  <2> HIDE DEF w, v
  <2> QED
    BY <1>1, <1>2, <2>1, <2>2, <2>3 DEF v, w
<1> QED
  BY <1>3, <1>4

\* What Appended does to the channel, and to the others.
LEMMA AppendedFields ==
    ASSUME NEW b \in Buffer, NEW c \in Channel, NEW x \in Sample
    PROVE  LET d == Appended(b, c, x)
           IN  /\ d = [samples   |-> [b.samples EXCEPT ![c] = Extended(b.samples[c], x)],
                       latest    |-> b.latest,
                       truncated |-> IF Len(Append(b.samples[c], x)) > Limit
                                     THEN b.truncated \cup {c} ELSE b.truncated]
               /\ d.samples[c] = Extended(b.samples[c], x)
               /\ \A e \in Channel \ {c} : d.samples[e] = b.samples[e]
<1> DEFINE d == Appended(b, c, x)
           h == Extended(b.samples[c], x)
           told == IF Len(Append(b.samples[c], x)) > Limit
                   THEN b.truncated \cup {c} ELSE b.truncated
<1>1. d = [b EXCEPT !.samples[c] = h, !.truncated = told]
  BY BufferFields DEF Appended, Extended
<1> HIDE DEF d, h, told
<1>2. d = [samples |-> [b.samples EXCEPT ![c] = h], latest |-> b.latest, truncated |-> told]
  <2> DEFINE k == [b.samples EXCEPT ![c] = h]
  <2>1. d = [b EXCEPT !.samples = k, !.truncated = told]
    BY <1>1
  <2> HIDE DEF k
  <2>2. b = [samples |-> b.samples, latest |-> b.latest, truncated |-> b.truncated]
    BY BufferFields
  <2>3. d = [samples |-> k, latest |-> b.latest, truncated |-> told]
    BY <2>1, <2>2
  <2> QED
    BY <2>3 DEF k
<1>3. d.samples[c] = h /\ \A e \in Channel \ {c} : d.samples[e] = b.samples[e]
  BY <1>2, BufferFields
<1> QED
  BY <1>2, <1>3 DEF d, h, told

\* The end of a trimmed history is the latest sample, so that what is news
\* after the latest sample is news after the end.
LEMMA NewsExtends ==
    ASSUME NEW b, NEW t \in Int, Sane(b, t), NEW c \in Channel, NEW x \in Sample,
           IsNews(b, c, x),
           NEW u, IsRest(u, b.samples[c]), \A i \in 1 .. Len(u) : u[i].at > t - Window
    PROVE  /\ u \in Seq(Sample) /\ Ascends(u) /\ Alternates(u) /\ Len(u) <= Limit
           /\ u # << >> => /\ u[Len(u)].at < x.at
                           /\ u[Len(u)].reading # x.reading
                           /\ x.at > t - Window
                           /\ u[Len(u)] = b.latest[c]
<1> DEFINE s == b.samples[c]
           last == b.latest[c]
<1>1. /\ s \in Seq(Sample) /\ Ascends(s) /\ Alternates(s) /\ Len(s) <= Limit
      /\ s # << >> => /\ last \in Sample
                      /\ \/ s[Len(s)] = last
                         \/ c \in Ble /\ s[Len(s)].at < last.at /\ last.at <= t - Window
  BY BufferFields DEF Sane, SaneAt
<1>2. last = Missing \/ (x.at > last.at /\ x.reading # last.reading)
  BY DEF IsNews
<1>3. u \in Seq(Sample) /\ Len(u) <= Len(s) /\ Len(u) \in Nat /\ Len(s) \in Nat /\ Limit \in Nat
      /\ Window \in Nat
  BY <1>1, LimitAssumption DEF IsRest
<1> HIDE DEF s, last
<1>4. /\ Ascends(u) /\ Alternates(u)
      /\ u # << >> => s # << >> /\ u[Len(u)] = s[Len(s)]
  BY <1>1, RestKeepsSeries DEF s
<1>5. ASSUME u # << >>
      PROVE  /\ u[Len(u)].at < x.at /\ u[Len(u)].reading # x.reading /\ x.at > t - Window
             /\ u[Len(u)] = last
  <2>1. Len(u) \in 1 .. Len(u)
    BY <1>3, <1>5
  <2>2. u[Len(u)].at > t - Window /\ u[Len(u)] \in Sample
    BY <1>3, <2>1
  <2>3. s # << >> /\ u[Len(u)] = s[Len(s)] /\ last \in Sample
    BY <1>1, <1>4, <1>5
  <2>4. u[Len(u)].at \in Nat /\ last.at \in Nat /\ x.at \in Nat
    BY <2>2, <2>3, SampleIsDated
  <2>5. u[Len(u)] = last
    BY <1>1, <1>3, <2>2, <2>3, <2>4
  <2>6. x.at > last.at /\ x.reading # last.reading
    BY <1>2, <2>3, ChannelAssumption
  <2> QED
    BY <1>3, <2>2, <2>4, <2>5, <2>6
<1>6. Len(u) <= Limit
  BY <1>1, <1>3
<1> QED
  BY <1>3, <1>4, <1>5, <1>6 DEF last

\* Retaining a sample keeps buffers sane and loses nothing in silence; what
\* is news becomes the latest sample, and a fresh one enters the history.
LEMMA RetainedIsSane ==
    ASSUME NEW b, NEW t \in Int, Sane(b, t), NEW c \in Channel, NEW x \in Sample
    PROVE  LET d == Retained(b, c, x, t)
           IN  /\ Sane(d, t) /\ Keeps(b, d, t)
               /\ Len(d.samples[c]) <= Len(b.samples[c]) + 1
               /\ ~ (IsNews(b, c, x) /\ IsFresh(x, t)) =>
                     \A e \in Channel : IsRest(d.samples[e], b.samples[e])
               /\ ~ IsNews(b, c, x) => d = b
               /\ IsNews(b, c, x) => d.latest[c] = x
               /\ IsNews(b, c, x) /\ x.at > t - Window =>
                     \E k \in DOMAIN d.samples[c] : d.samples[c][k] = x
<1> DEFINE d == Retained(b, c, x, t)
           pool == IF c \in Ble THEN Ble ELSE Radar
           kept == [samples   |-> b.samples,
                     latest    |-> [b.latest EXCEPT ![c] = x],
                     truncated |-> b.truncated]
           trimmed == Trimmed(kept, pool, t)
<1>1. b \in Buffer /\ \A e \in Channel : SaneAt(b, e, t) /\ b.samples[e] \in Seq(Sample)
  BY BufferFields DEF Sane
<1>2. kept = [b EXCEPT !.latest[c] = x]
  <2> DEFINE k == [b.latest EXCEPT ![c] = x]
  <2>1. b = [samples |-> b.samples, latest |-> b.latest, truncated |-> b.truncated]
    BY <1>1, BufferFields
  <2>2. [b EXCEPT !.latest[c] = x] = [b EXCEPT !.latest = k]
    OBVIOUS
  <2> HIDE DEF k
  <2>3. [b EXCEPT !.latest = k] =
                [samples |-> b.samples, latest |-> k, truncated |-> b.truncated]
    BY <2>1
  <2> QED
    BY <2>2, <2>3 DEF k
<1>3. d = IF ~ IsNews(b, c, x) THEN b
          ELSE IF IsFresh(x, t) THEN Appended(trimmed, c, x)
          ELSE IF c \in Ble THEN kept ELSE trimmed
  BY <1>2 DEF Retained
<1>4. /\ kept \in Buffer /\ kept.samples = b.samples /\ kept.truncated = b.truncated
      /\ kept.latest[c] = x /\ \A e \in Channel \ {c} : kept.latest[e] = b.latest[e]
  BY <1>1, BufferFields DEF Buffer
<1>5. pool \in SUBSET Channel /\ c \in pool
  BY DEF Channel
<1>6. IsFresh(x, t) <=> x.at > t - Window
  <2>1. x.at \in Nat /\ Window \in Nat
    BY SampleIsDated, LimitAssumption
  <2> QED
    BY <2>1 DEF IsFresh
<1> HIDE DEF d, kept, pool
<1>7. /\ trimmed \in Buffer /\ trimmed.latest = kept.latest /\ trimmed.truncated = b.truncated
      /\ \A e \in Channel :
            /\ IsRest(trimmed.samples[e], b.samples[e])
            /\ Holds(trimmed.samples[e], b.samples[e], t)
      /\ \A i \in 1 .. Len(trimmed.samples[c]) : trimmed.samples[c][i].at > t - Window
  <2>1. \A e \in Channel : Ascends(kept.samples[e])
    BY <1>1, <1>4 DEF SaneAt
  <2> QED
    BY <1>4, <1>5, <2>1, TrimmedIsRest
<1> HIDE DEF trimmed
<1> DEFINE u == trimmed.samples[c]
           Fewer(e) == /\ IsRest(d.samples[e], b.samples[e])
                       /\ Holds(d.samples[e], b.samples[e], t)
\* The other channels.
<1>8. ASSUME NEW e \in Channel \ {c}, Fewer(e), d.latest[e] = b.latest[e]
      PROVE  SaneAt(d, e, t)
  <2> DEFINE s == b.samples[e]
             r == d.samples[e]
  <2>1. s \in Seq(Sample) /\ IsRest(r, s) /\ SaneAt(b, e, t)
    BY <1>1, <1>8
  <2>2. /\ Ascends(r) /\ Alternates(r) /\ Len(r) <= Limit
        /\ r # << >> => s # << >> /\ r[Len(r)] = s[Len(s)]
    <3>1. Ascends(s) /\ Alternates(s) /\ Len(s) <= Limit /\ Limit \in Nat
      BY <2>1, LimitAssumption DEF SaneAt
    <3> HIDE DEF s, r
    <3>2. Len(r) <= Len(s) /\ Len(r) \in Nat /\ Len(s) \in Nat
      BY <2>1 DEF IsRest
    <3> QED
      BY <2>1, <3>1, <3>2, RestKeepsSeries
  <2> QED
    BY <1>8, <2>1, <2>2 DEF SaneAt
<1>9. CASE ~ IsNews(b, c, x)
  <2>1. d = b
    BY <1>3, <1>9
  <2>2. \A e \in Channel : IsRest(b.samples[e], b.samples[e])
    BY <1>1, RestOfItself
  <2>3. Keeps(b, b, t)
    BY DEF Keeps, Holds
  <2>4. Len(b.samples[c]) <= Len(b.samples[c]) + 1
    BY <1>1
  <2> QED
    BY <1>9, <2>1, <2>2, <2>3, <2>4 DEF d
<1>10. CASE IsNews(b, c, x) /\ ~ IsFresh(x, t)
  <2>1. d = IF c \in Ble THEN kept ELSE trimmed
    BY <1>3, <1>10
  <2>2. /\ d \in Buffer /\ d.truncated = b.truncated
        /\ \A e \in Channel : Fewer(e)
        /\ d.latest[c] = x
        /\ \A e \in Channel \ {c} : d.latest[e] = b.latest[e]
    <3>1. \A e \in Channel :
                IsRest(b.samples[e], b.samples[e]) /\ Holds(b.samples[e], b.samples[e], t)
      BY <1>1, RestOfItself DEF Holds
    <3> QED
      BY <1>4, <1>7, <2>1, <3>1
  <2>3. SaneAt(d, c, t)
    <3>1. CASE c \in Ble
      <4> DEFINE s == b.samples[c]
      <4>1. d.samples[c] = s /\ s \in Seq(Sample) /\ SaneAt(b, c, t)
        BY <1>1, <1>4, <2>1, <3>1
      <4>2. s # << >> => s[Len(s)].at < x.at
        <5> SUFFICES ASSUME s # << >> PROVE s[Len(s)].at < x.at
          OBVIOUS
        <5>1. b.latest[c] \in Sample /\ x.at > b.latest[c].at
              /\ (s[Len(s)] = b.latest[c] \/ s[Len(s)].at < b.latest[c].at)
          BY <1>10, <4>1, ChannelAssumption DEF SaneAt, IsNews
        <5>2. Len(s) \in 1 .. Len(s)
          BY <4>1
        <5>3. s[Len(s)] \in Sample
          BY <4>1, <5>2
        <5>4. s[Len(s)].at \in Nat /\ b.latest[c].at \in Nat /\ x.at \in Nat
          BY <5>1, <5>3, SampleIsDated
        <5> HIDE DEF s
        <5> QED
          BY <5>1, <5>4
      <4>3. x.at <= t - Window
        <5>1. x.at \in Nat /\ Window \in Nat
          BY SampleIsDated, LimitAssumption
        <5> QED
          BY <1>6, <1>10, <5>1
      <4> QED
        BY <2>2, <3>1, <4>1, <4>2, <4>3 DEF SaneAt
    <3>2. CASE c \notin Ble
      <4>1. d.samples[c] = u /\ IsRest(u, b.samples[c])
            /\ \A i \in 1 .. Len(u) : u[i].at > t - Window
        BY <1>7, <2>1, <3>2
      <4>2. u = << >>
        <5> HIDE DEF u
        <5> QED
          BY <1>6, <1>10, <4>1, NewsExtends
      <4>3. Ascends(<< >>) /\ Alternates(<< >>) /\ Len(<< >>) <= Limit
        BY LimitAssumption DEF Ascends, Alternates
      <4> QED
        BY <4>1, <4>2, <4>3 DEF SaneAt
    <3> QED
      BY <3>1, <3>2
  <2>4. Sane(d, t)
    BY <1>8, <2>2, <2>3 DEF Sane
  <2>5. Keeps(b, d, t)
    BY <2>2 DEF Keeps
  <2>6. Len(d.samples[c]) <= Len(b.samples[c]) + 1
    <3>1. Len(d.samples[c]) <= Len(b.samples[c]) /\ Len(d.samples[c]) \in Nat
          /\ Len(b.samples[c]) \in Nat
      <4>1. IsRest(d.samples[c], b.samples[c]) /\ b.samples[c] \in Seq(Sample)
        BY <1>1, <2>2
      <4> QED
        BY <4>1, RestIsShorter
    <3> QED
      BY <3>1
  <2> QED
    BY <1>6, <1>10, <2>2, <2>4, <2>5, <2>6 DEF d
<1>11. CASE IsNews(b, c, x) /\ IsFresh(x, t)
  <2>1. d = Appended(trimmed, c, x)
    BY <1>3, <1>11
  <2>2. /\ u \in Seq(Sample) /\ Ascends(u) /\ Alternates(u) /\ Len(u) <= Limit
        /\ u # << >> => u[Len(u)].at < x.at /\ u[Len(u)].reading # x.reading
    <3>1. IsRest(u, b.samples[c]) /\ \A i \in 1 .. Len(u) : u[i].at > t - Window
      BY <1>7
    <3> HIDE DEF u
    <3> QED
      BY <1>11, <3>1, NewsExtends
  <2> DEFINE v == Extended(u, x)
  <2>3. /\ v \in Seq(Sample) /\ Ascends(v) /\ Alternates(v) /\ Len(v) <= Limit
        /\ v # << >> /\ v[Len(v)] = x /\ Len(v) <= Len(u) + 1 /\ Len(v) \in DOMAIN v
        /\ ~ (Len(Append(u, x)) > Limit) => Holds(v, u, t)
    <3> HIDE DEF u
    <3> QED
      BY <2>2, ExtendedIsSane
  <2>4. /\ d = [samples   |-> [trimmed.samples EXCEPT ![c] = v],
                latest    |-> trimmed.latest,
                truncated |-> IF Len(Append(u, x)) > Limit
                              THEN trimmed.truncated \cup {c} ELSE trimmed.truncated]
        /\ d.samples[c] = v
        /\ \A e \in Channel \ {c} : d.samples[e] = trimmed.samples[e]
    BY <1>7, <2>1, AppendedFields
  <2> HIDE DEF v
  <2>5. d \in Buffer /\ d.latest = kept.latest
    BY <1>7, <2>3, <2>4, BufferFields DEF Buffer
  <2>6. /\ b.truncated \subseteq d.truncated
        /\ Len(Append(u, x)) > Limit => c \in d.truncated
    BY <1>7, <2>4
  <2>7. SaneAt(d, c, t)
    BY <1>4, <2>3, <2>4, <2>5 DEF SaneAt
  <2>8. \A e \in Channel \ {c} : Fewer(e) /\ d.latest[e] = b.latest[e]
    BY <1>4, <1>7, <2>4, <2>5
  <2>9. Sane(d, t)
    BY <1>8, <2>5, <2>7, <2>8 DEF Sane
  <2>10. c \in d.truncated \/ Holds(d.samples[c], b.samples[c], t)
    <3>1. Holds(u, b.samples[c], t)
      BY <1>7
    <3> HIDE DEF u
    <3>2. Holds(v, u, t) => Holds(v, b.samples[c], t)
      BY <3>1 DEF Holds
    <3> QED
      BY <2>3, <2>4, <2>6, <3>2
  <2>11. Keeps(b, d, t)
    BY <2>6, <2>8, <2>10 DEF Keeps
  <2>12. Len(d.samples[c]) <= Len(b.samples[c]) + 1
    <3>1. Len(u) <= Len(b.samples[c]) /\ Len(u) \in Nat /\ Len(b.samples[c]) \in Nat
      <4>1. IsRest(u, b.samples[c]) /\ b.samples[c] \in Seq(Sample)
        BY <1>1, <1>7
      <4> HIDE DEF u
      <4> QED
        BY <4>1, RestIsShorter
    <3>2. Len(v) \in Nat
      BY <2>3
    <3> HIDE DEF u
    <3> QED
      BY <2>3, <2>4, <3>1, <3>2
  <2> QED
    BY <1>4, <1>11, <2>3, <2>4, <2>5, <2>9, <2>11, <2>12 DEF d
<1> QED
  BY <1>9, <1>10, <1>11

-----------------------------------------------------------------------------
(***************************************************************************)
(* The budget.                                                             *)
(***************************************************************************)

\* What the histories weigh.
Lengths(h) == [c \in Channel |-> Len(h[c])]

\* The radar channels whose last sample is a loss, and what the others and
\* the samples before it weigh.
LostLast(h) == {c \in Radar : h[c] # << >> /\ h[c][Len(h[c])].reading = Lost}

\* What a history weighs without a loss at its end.
Charge(h) == [c \in Channel |-> Len(h[c]) - (IF c \in LostLast(h) THEN 1 ELSE 0)]

\* OverdraftIsBounded, of histories h.
Bounded(h) == Size(h) <= Budget + Cardinality(LostLast(h))

\* The budget is spent on a sum over the channels.
LEMMA SizeIsSum == ASSUME NEW h PROVE Size(h) = Sum(Lengths(h), Channel)
BY SumOverIsSum DEF Size, Lengths

\* There are finitely many channels.
LEMMA ChannelsAreFinite ==
    IsFiniteSet(Channel) /\ Ble \subseteq Channel /\ Radar \subseteq Channel
BY ChannelAssumption DEF Channel

\* Histories weigh what their samples count.
LEMMA SizeIsNatural ==
    ASSUME NEW h \in [Channel -> Seq(Sample)]
    PROVE  /\ Size(h) \in Nat
           /\ \A c \in Channel : Lengths(h)[c] = Len(h[c]) /\ Lengths(h)[c] \in Nat
<1>1. \A c \in Channel : Lengths(h)[c] = Len(h[c]) /\ Lengths(h)[c] \in Nat
  BY DEF Lengths
<1> QED
  BY <1>1, SizeIsSum, SumIsNatural, ChannelsAreFinite

\* Their weight is that of the charges, and one for each loss at an end.
LEMMA SizeOfCharges ==
    ASSUME NEW h \in [Channel -> Seq(Sample)]
    PROVE  /\ \A c \in Channel : Charge(h)[c] \in Nat
           /\ Sum(Charge(h), Channel) \in Nat /\ Cardinality(LostLast(h)) \in Nat
           /\ Size(h) = Sum(Charge(h), Channel) + Cardinality(LostLast(h))
<1> DEFINE one == [c \in Channel |-> IF c \in LostLast(h) THEN 1 ELSE 0]
<1>1. \A c \in Channel : Charge(h)[c] \in Nat /\ one[c] \in Nat
                         /\ Lengths(h)[c] = Charge(h)[c] + one[c]
  <2> TAKE c \in Channel
  <2>1. h[c] \in Seq(Sample) /\ Len(h[c]) \in Nat
    OBVIOUS
  <2>2. c \in LostLast(h) => Len(h[c]) > 0
    BY <2>1 DEF LostLast
  <2>3. /\ Charge(h)[c] = Len(h[c]) - (IF c \in LostLast(h) THEN 1 ELSE 0)
        /\ one[c] = (IF c \in LostLast(h) THEN 1 ELSE 0)
        /\ Lengths(h)[c] = Len(h[c])
    BY DEF Charge, Lengths
  <2> HIDE DEF one
  <2> QED
    BY <2>1, <2>2, <2>3
<1>2. LostLast(h) \in SUBSET Channel
  BY DEF LostLast, Channel
<1>3. \A c \in Channel : one[c] = IF c \in LostLast(h) THEN 1 ELSE 0
  OBVIOUS
<1> HIDE DEF one
<1>4. Sum(one, Channel) = Cardinality(LostLast(h))
  BY <1>2, <1>3, SumCounts, ChannelsAreFinite
<1>5. Sum(Lengths(h), Channel) = Sum(Charge(h), Channel) + Sum(one, Channel)
  BY <1>1, SumOfTerms, ChannelsAreFinite
<1>6. Sum(Charge(h), Channel) \in Nat /\ Sum(one, Channel) \in Nat
  BY <1>1, SumIsNatural, ChannelsAreFinite
<1> QED
  BY <1>1, <1>4, <1>5, <1>6, SizeIsSum

\* The bound is kept where every channel weighs no more, and where the
\* budget is.
LEMMA LighterIsBounded ==
    ASSUME NEW h \in [Channel -> Seq(Sample)], NEW k \in [Channel -> Seq(Sample)], Bounded(h),
           \A c \in Channel : Charge(k)[c] <= Charge(h)[c]
    PROVE  Bounded(k)
<1>1. Sum(Charge(k), Channel) <= Sum(Charge(h), Channel)
  BY SizeOfCharges, SumIsMonotone, ChannelsAreFinite
<1>2. /\ Sum(Charge(h), Channel) \in Nat /\ Cardinality(LostLast(h)) \in Nat
      /\ Size(h) = Sum(Charge(h), Channel) + Cardinality(LostLast(h))
  BY SizeOfCharges
<1>3. /\ Sum(Charge(k), Channel) \in Nat /\ Cardinality(LostLast(k)) \in Nat
      /\ Size(k) = Sum(Charge(k), Channel) + Cardinality(LostLast(k))
  BY SizeOfCharges
<1> QED
  BY <1>1, <1>2, <1>3, LimitAssumption DEF Bounded

\* Histories that fit the budget are bounded.
LEMMA FittingIsBounded ==
    ASSUME NEW h \in [Channel -> Seq(Sample)], Size(h) <= Budget
    PROVE  Bounded(h)
BY SizeOfCharges, SizeIsNatural, LimitAssumption DEF Bounded

\* A rest weighs no more: it ends with the same sample, or is empty.
LEMMA RestIsLighter ==
    ASSUME NEW h \in [Channel -> Seq(Sample)], NEW k \in [Channel -> Seq(Sample)],
           NEW c \in Channel, IsRest(k[c], h[c])
    PROVE  Charge(k)[c] <= Charge(h)[c]
<1>1. /\ Len(k[c]) \in Nat /\ Len(h[c]) \in Nat /\ Len(k[c]) <= Len(h[c])
      /\ k[c] # << >> => h[c] # << >> /\ k[c][Len(k[c])] = h[c][Len(h[c])]
  <2>1. h[c] \in Seq(Sample)
    OBVIOUS
  <2> QED
    BY <2>1, RestIsShorter, RestKeepsSeries
<1>2. /\ Charge(h)[c] = Len(h[c]) - (IF c \in LostLast(h) THEN 1 ELSE 0)
      /\ Charge(k)[c] = Len(k[c]) - (IF c \in LostLast(k) THEN 1 ELSE 0)
  BY DEF Charge
<1>3. CASE k[c] = << >>
  <2>1. Charge(k)[c] = 0
    BY <1>2, <1>3 DEF LostLast
  <2>2. Charge(h)[c] \in Nat
    BY SizeOfCharges
  <2> QED
    BY <2>1, <2>2
<1>4. CASE k[c] # << >>
  <2>1. c \in LostLast(k) <=> c \in LostLast(h)
    BY <1>1, <1>4 DEF LostLast
  <2> QED
    BY <1>1, <1>2, <2>1
<1> QED
  BY <1>3, <1>4

\* Giving up samples leaves rests that fit the budget, and tells.
LEMMA WithoutFits ==
    ASSUME NEW b \in Buffer, NEW n \in Sacrifices(b), NEW t \in Int
    PROVE  LET d == Without(b, n)
           IN  /\ d \in Buffer /\ d.latest = b.latest
               /\ \A c \in Channel : IsRest(d.samples[c], b.samples[c])
               /\ Keeps(b, d, t)
               /\ Size(d.samples) <= Budget
<1> DEFINE d == Without(b, n)
           left == [c \in Channel |-> Rest(b.samples[c], n[c])]
<1>1. Size(b.samples) \in Nat /\ Excess(b) \in Nat /\ b.samples \in [Channel -> Seq(Sample)]
  BY BufferFields, SizeIsNatural, LimitAssumption DEF Excess
<1>2. /\ n \in [Channel -> 0 .. Excess(b)]
      /\ \A c \in Channel : n[c] <= Len(b.samples[c])
      /\ SumOver(n) = Excess(b)
  BY DEF Sacrifices
<1>3. \A c \in Channel :
            n[c] \in Nat /\ n[c] \in 0 .. Len(b.samples[c]) /\ b.samples[c] \in Seq(Sample)
  BY <1>1, <1>2
<1>4. d = [samples   |-> left,
           latest    |-> b.latest,
           truncated |-> b.truncated \cup {c \in Channel : n[c] > 0}]
  <2> DEFINE told == b.truncated \cup {c \in Channel : n[c] > 0}
  <2>1. d = [b EXCEPT !.samples = left, !.truncated = told]
    BY DEF Without
  <2> HIDE DEF d, left, told
  <2>2. b = [samples |-> b.samples, latest |-> b.latest, truncated |-> b.truncated]
    BY BufferFields
  <2>3. d = [samples |-> left, latest |-> b.latest, truncated |-> told]
    BY <2>1, <2>2
  <2> QED
    BY <2>3 DEF told
<1>5. \A c \in Channel :
         /\ left[c] = Rest(b.samples[c], n[c])
         /\ left[c] \in Seq(Sample) /\ Len(left[c]) = Len(b.samples[c]) - n[c]
         /\ IsRest(left[c], b.samples[c])
  BY <1>3, RestIsRest
<1>6. left = [c \in Channel |-> left[c]]
  OBVIOUS
<1> HIDE DEF d, left
<1>7. left \in [Channel -> Seq(Sample)]
  BY <1>5, <1>6
<1>8. d \in Buffer
  BY <1>4, <1>7, BufferFields DEF Buffer
<1>9. Keeps(b, d, t)
  <2>1. b.truncated \subseteq d.truncated
    BY <1>4
  <2>2. ASSUME NEW c \in Channel, c \notin d.truncated
        PROVE  Holds(left[c], b.samples[c], t)
    <3>1. n[c] = 0
      BY <1>3, <1>4, <2>2
    <3>2. Holds(Rest(b.samples[c], 0), b.samples[c], t)
      BY <1>3, <3>1, RestHolds
    <3> QED
      BY <1>5, <3>1, <3>2
  <2> QED
    BY <1>4, <2>1, <2>2 DEF Keeps
<1>10. Size(left) <= Budget
  <2>1. \A c \in Channel : Lengths(left)[c] \in Nat /\ n[c] \in Nat
                           /\ Lengths(b.samples)[c] = Lengths(left)[c] + n[c]
    <3> TAKE c \in Channel
    <3>1. Len(left[c]) = Len(b.samples[c]) - n[c] /\ Len(b.samples[c]) \in Nat /\ n[c] \in Nat
          /\ Len(left[c]) \in Nat
      BY <1>3, <1>5
    <3> QED
      BY <3>1 DEF Lengths
  <2>2. Sum(Lengths(b.samples), Channel) = Sum(Lengths(left), Channel) + Sum(n, Channel)
    BY <2>1, SumOfTerms, ChannelsAreFinite
  <2>3. Size(b.samples) = Size(left) + Excess(b)
    BY <1>2, <2>2, SizeIsSum, SumOverIsSum
  <2>4. Size(left) \in Nat
    BY <1>7, SizeIsNatural
  <2> QED
    BY <1>1, <2>3, <2>4, LimitAssumption DEF Excess
<1>11. /\ d \in Buffer /\ d.latest = b.latest
       /\ \A c \in Channel : IsRest(d.samples[c], b.samples[c])
       /\ Keeps(b, d, t)
       /\ Size(d.samples) <= Budget
  BY <1>4, <1>5, <1>8, <1>9, <1>10
<1> QED
  BY <1>11 DEF d

-----------------------------------------------------------------------------
(***************************************************************************)
(* Restarts.                                                               *)
(***************************************************************************)

\* Replayed is a recursive function over the positions of a history.
IsReplay(g, c, s, n, t) ==
    g = [i \in 0 .. n |-> IF i = 0 THEN Empty ELSE Retained(g[i - 1], c, s[i], t)]

\* The function is total, and so has values.
LEMMA ReplayExists ==
    ASSUME NEW c, NEW s, NEW n \in Nat, NEW t
    PROVE  \E g : IsReplay(g, c, s, n, t)
<1> DEFINE Bad == {k \in Nat : ~ \E g : IsReplay(g, c, s, k, t)}
<1>1. SUFFICES ASSUME Bad # {} PROVE FALSE
  OBVIOUS
<1>2. PICK k \in Bad : \A j \in Bad : k <= j
  <2>1. Bad \in SUBSET Nat
    OBVIOUS
  <2> HIDE DEF Bad
  <2> QED
    BY <1>1, <2>1, LeastElement
<1>3. k \in Nat /\ ~ \E g : IsReplay(g, c, s, k, t)
  BY <1>2
<1>4. k # 0
  <2>1. IsReplay([i \in 0 .. 0 |-> Empty], c, s, 0, t)
    BY DEF IsReplay
  <2> QED
    BY <1>3, <2>1
<1>5. k - 1 \in Nat /\ k - 1 \notin Bad
  BY <1>2, <1>3, <1>4
<1>6. PICK g : IsReplay(g, c, s, k - 1, t)
  BY <1>5
<1> DEFINE Step(b, i) == Retained(b, c, s[i], t)
           all == [i \in 0 .. k |-> IF i = k THEN Step(g[k - 1], k) ELSE g[i]]
<1>7. \A i \in 0 .. k - 1 : g[i] = IF i = 0 THEN Empty ELSE Step(g[i - 1], i)
  BY <1>6 DEF IsReplay
<1>8. \A i \in 0 .. k : all[i] = IF i = k THEN Step(g[k - 1], k) ELSE g[i]
  OBVIOUS
<1>9. all = [i \in 0 .. k |-> all[i]]
  OBVIOUS
<1> HIDE DEF all
<1>10. IsReplay(all, c, s, k, t)
  <2> HIDE DEF Step
  <2>1. \A i \in 0 .. k : all[i] = IF i = 0 THEN Empty ELSE Step(all[i - 1], i)
    <3> TAKE i \in 0 .. k
    <3>1. i \in 0 .. k - 1 \/ i = k
      BY <1>3
    <3>2. i # 0 => i - 1 \in 0 .. k /\ i - 1 # k
      BY <1>3
    <3> QED
      BY <1>3, <1>4, <1>7, <1>8, <3>1, <3>2
  <2> USE DEF Step
  <2> QED
    BY <1>9, <2>1 DEF IsReplay
<1> QED
  BY <1>3, <1>10

\* Buffers of a process that starts are sane at any time.
LEMMA EmptyIsSane == ASSUME NEW t \in Int PROVE Sane(Empty, t)
<1>1. << >> \in Seq(Sample) /\ Ascends(<< >>) /\ Alternates(<< >>) /\ Len(<< >>) <= Limit
  BY LimitAssumption DEF Ascends, Alternates
<1> QED
  BY <1>1 DEF Sane, SaneAt, Empty, Buffer

\* Every sample of a series that is retained again is news, and the fresh
\* ones are there in the end.
LEMMA ReplayedIsSane ==
    ASSUME NEW c \in Channel, NEW s \in Seq(Sample), Ascends(s), Alternates(s), NEW t \in Int
    PROVE  LET d == Replayed(Empty, c, s, t)
           IN  /\ Sane(d, t) /\ Len(d.samples[c]) <= Len(s)
               /\ c \in d.truncated \/ Holds(d.samples[c], s, t)
               /\ d.latest[c] = IF s = << >> THEN Missing ELSE s[Len(s)]
<1> DEFINE n == Len(s)
           IsIt(g) == IsReplay(g, c, s, n, t)
           g == CHOOSE g : IsIt(g)
           Fine(i) ==
               /\ Sane(g[i], t) /\ Len(g[i].samples[c]) <= i
               /\ c \in g[i].truncated \/
                  \A j \in 1 .. i : s[j].at > t - Window =>
                     \E k \in DOMAIN g[i].samples[c] : g[i].samples[c][k] = s[j]
               /\ g[i].latest[c] = IF i = 0 THEN Missing ELSE s[i]
<1>1. n \in Nat /\ DOMAIN s = 1 .. n /\ \A i \in 1 .. n : s[i] \in Sample /\ s[i].at \in Nat
  BY SeriesIsDated
<1>2. Replayed(Empty, c, s, t) = g[n]
  BY DEF Replayed, IsReplay
<1>3. IsReplay(g, c, s, n, t)
  <2>1. \E h : IsIt(h)
    BY <1>1, ReplayExists
  <2>2. IsIt(g)
    <3> HIDE DEF IsIt
    <3> QED
      BY <2>1
  <2> QED
    BY <2>2
<1> HIDE DEF g
<1>4. g[0] = Empty /\ \A i \in 1 .. n : g[i] = Retained(g[i - 1], c, s[i], t)
  BY <1>1, <1>3 DEF IsReplay
<1>5. Fine(0)
  <2>1. Len(Empty.samples[c]) <= 0 /\ Empty.latest[c] = Missing
    BY DEF Empty
  <2> QED
    BY <1>4, <2>1, EmptyIsSane
<1>6. ASSUME NEW i \in 1 .. n, Fine(i - 1)
      PROVE  Fine(i)
  <2> DEFINE b == g[i - 1]
             d == g[i]
             x == s[i]
  <2>1. x \in Sample /\ x.at \in Nat /\ i \in Nat /\ i - 1 \in Nat /\ d = Retained(b, c, x, t)
    BY <1>1, <1>4
  <2>2. Sane(b, t) /\ Len(b.samples[c]) <= i - 1
        /\ b.latest[c] = IF i - 1 = 0 THEN Missing ELSE s[i - 1]
    BY <1>6
  <2>3. IsNews(b, c, x)
    <3>1. CASE i = 1
      BY <2>1, <2>2, <3>1 DEF IsNews
    <3>2. CASE i # 1
      <4>1. i - 1 \in 1 .. n /\ i \in 2 .. n /\ i - 1 < i /\ i - 1 # 0
        BY <1>1, <3>2
      <4>2. s[i - 1].at < x.at /\ s[i - 1].reading # x.reading /\ s[i - 1].at \in Nat
        BY <1>1, <4>1 DEF Ascends, Alternates
      <4>3. b.latest[c] = s[i - 1]
        BY <2>2, <4>1
      <4> HIDE DEF b, x
      <4> QED
        BY <2>1, <4>2, <4>3 DEF IsNews
    <3> QED
      BY <3>1, <3>2
  <2>4. /\ Sane(d, t) /\ Keeps(b, d, t)
        /\ Len(d.samples[c]) <= Len(b.samples[c]) + 1
        /\ d.latest[c] = x
        /\ x.at > t - Window => \E k \in DOMAIN d.samples[c] : d.samples[c][k] = x
    <3> HIDE DEF b, d, x
    <3>1. LET e == Retained(b, c, x, t)
          IN  /\ Sane(e, t) /\ Keeps(b, e, t)
              /\ Len(e.samples[c]) <= Len(b.samples[c]) + 1
              /\ IsNews(b, c, x) => e.latest[c] = x
              /\ IsNews(b, c, x) /\ x.at > t - Window =>
                    \E k \in DOMAIN e.samples[c] : e.samples[c][k] = x
      BY <2>1, <2>2, RetainedIsSane
    <3> QED
      BY <2>1, <2>3, <3>1
  <2>5. Len(d.samples[c]) <= i
    <3>1. Len(d.samples[c]) \in Nat /\ Len(b.samples[c]) \in Nat
      <4>1. d.samples[c] \in Seq(Sample) /\ b.samples[c] \in Seq(Sample)
        BY <2>2, <2>4, BufferFields DEF Sane
      <4>2. \A u \in Seq(Sample) : Len(u) \in Nat
        OBVIOUS
      <4> HIDE DEF b, d
      <4> QED
        BY <4>1, <4>2
    <3> HIDE DEF b, d
    <3> QED
      BY <2>1, <2>2, <2>4, <3>1
  <2>6. ASSUME c \notin d.truncated, NEW j \in 1 .. i, s[j].at > t - Window
        PROVE  \E k \in DOMAIN d.samples[c] : d.samples[c][k] = s[j]
    <3>1. j = i \/ j \in 1 .. i - 1
      BY <2>1
    <3>2. CASE j = i
      BY <2>4, <2>6, <3>2
    <3>3. CASE j \in 1 .. i - 1
      <4>1. c \notin b.truncated /\ Holds(d.samples[c], b.samples[c], t)
        BY <2>4, <2>6 DEF Keeps
      <4>2. PICK k \in DOMAIN b.samples[c] : b.samples[c][k] = s[j]
        BY <1>6, <2>6, <3>3, <4>1
      <4> QED
        BY <2>6, <4>1, <4>2 DEF Holds
    <3> QED
      BY <3>1, <3>2, <3>3
  <2>7. i # 0
    BY <1>1
  <2> QED
    BY <2>4, <2>5, <2>6, <2>7
<1>7. Fine(n)
  <2> DEFINE Bad == {i \in 0 .. n : ~ Fine(i)}
  <2>1. SUFFICES ASSUME Bad # {} PROVE FALSE
    <3>1. n \in 0 .. n
      BY <1>1
    <3> QED
      BY <2>1, <3>1
  <2>2. PICK k \in Bad : \A j \in Bad : k <= j
    <3>1. Bad \in SUBSET Nat
      OBVIOUS
    <3> HIDE DEF Bad
    <3> QED
      BY <2>1, <3>1, LeastElement
  <2>3. k \in 0 .. n /\ ~ Fine(k)
    BY <2>2
  <2> HIDE DEF Fine
  <2>4. k # 0
    BY <1>5, <2>3
  <2>5. k \in 1 .. n /\ k - 1 \in 0 .. n
    BY <1>1, <2>3, <2>4
  <2>6. Fine(k - 1)
    BY <2>2, <2>5
  <2> QED
    BY <1>6, <2>3, <2>5, <2>6
<1>8. s = << >> <=> n = 0
  BY <1>1
<1> QED
  BY <1>1, <1>2, <1>7, <1>8 DEF Holds

\* So what is saved is restored, as far as it is fresh, and no more.
LEMMA RestoredIsSane ==
    ASSUME NEW b, NEW t \in Int, Sane(b, t), NEW later \in Int, t <= later
    PROVE  LET d == Restored(b, Empty, later)
           IN  /\ Sane(d, later) /\ Keeps(b, d, later)
               /\ \A c \in Channel : Len(d.samples[c]) <= Len(b.samples[c])
<1> DEFINE R(c) == Replayed(Empty, c, b.samples[c], later)
           Last(c) == IF b.latest[c] = Missing THEN R(c).latest[c]
                      ELSE IF R(c).latest[c] = Missing THEN b.latest[c]
                      ELSE IF b.latest[c].at > R(c).latest[c].at
                           THEN b.latest[c] ELSE R(c).latest[c]
           d == Restored(b, Empty, later)
<1>1. b \in Buffer /\ \A c \in Channel : SaneAt(b, c, t) /\ b.samples[c] \in Seq(Sample)
  BY BufferFields DEF Sane
<1>2. d = [samples   |-> [c \in Channel |-> R(c).samples[c]],
           latest    |-> [c \in Channel |-> Last(c)],
           truncated |-> b.truncated \cup {c \in Channel : c \in R(c).truncated}]
  BY DEF Restored
<1>3. \A c \in Channel :
         LET s == b.samples[c] IN
         /\ Sane(R(c), later) /\ Len(R(c).samples[c]) <= Len(s)
         /\ c \in R(c).truncated \/ Holds(R(c).samples[c], s, later)
         /\ R(c).latest[c] = IF s = << >> THEN Missing ELSE s[Len(s)]
  <2> TAKE c \in Channel
  <2>1. b.samples[c] \in Seq(Sample) /\ Ascends(b.samples[c]) /\ Alternates(b.samples[c])
    BY <1>1 DEF SaneAt
  <2> QED
    BY <2>1, ReplayedIsSane
<1> HIDE DEF R, d
<1>4. \A c \in Channel : R(c) \in Buffer /\ R(c).samples[c] \in Seq(Sample)
                         /\ R(c).latest[c] \in Sample \cup {Missing}
                         /\ b.latest[c] \in Sample \cup {Missing}
  BY <1>1, <1>3, BufferFields DEF Sane
<1>5. d \in Buffer
  <2>1. \A c \in Channel : Last(c) \in Sample \cup {Missing}
    BY <1>4
  <2> HIDE DEF Last
  <2> QED
    BY <1>1, <1>2, <1>4, <2>1, BufferFields DEF Buffer
<1>6. Keeps(b, d, later)
  BY <1>2, <1>3 DEF Keeps
<1>7. ASSUME NEW c \in Channel PROVE SaneAt(d, c, later)
  <2> DEFINE s == b.samples[c]
             h == R(c).samples[c]
             last == R(c).latest[c]
             old == b.latest[c]
  <2>1. d.samples[c] = h /\ d.latest[c] = Last(c)
    BY <1>2
  <2>2. /\ s \in Seq(Sample) /\ h \in Seq(Sample) /\ last \in Sample \cup {Missing}
        /\ last = IF s = << >> THEN Missing ELSE s[Len(s)]
        /\ s # << >> => /\ old \in Sample
                        /\ \/ s[Len(s)] = old
                           \/ c \in Ble /\ s[Len(s)].at < old.at /\ old.at <= t - Window
    BY <1>1, <1>3, <1>4 DEF SaneAt
  <2>3. /\ Ascends(h) /\ Alternates(h) /\ Len(h) <= Limit
        /\ h # << >> => /\ last \in Sample
                        /\ \/ h[Len(h)] = last
                           \/ c \in Ble /\ h[Len(h)].at < last.at /\ last.at <= later - Window
    BY <1>3 DEF Sane, SaneAt
  <2>4. ASSUME h # << >>
        PROVE  /\ Last(c) \in Sample
               /\ \/ h[Len(h)] = Last(c)
                  \/ c \in Ble /\ h[Len(h)].at < Last(c).at /\ Last(c).at <= later - Window
    <3>1. s # << >> /\ last = s[Len(s)] /\ old \in Sample /\ old # Missing /\ last # Missing
          /\ last \in Sample
      BY <2>2, <2>3, <2>4, ChannelAssumption
    <3>2. Last(c) = IF old.at > last.at THEN old ELSE last
      BY <3>1
    <3>3. Len(h) \in 1 .. Len(h)
      BY <2>2, <2>4
    <3>4. h[Len(h)] \in Sample
      BY <2>2, <3>3
    <3>5. old.at \in Nat /\ last.at \in Nat /\ h[Len(h)].at \in Nat /\ Window \in Nat
      BY <3>1, <3>4, SampleIsDated, LimitAssumption
    <3> HIDE DEF s, h, last, old, Last
    <3>6. CASE last = old
      BY <2>3, <2>4, <3>1, <3>2, <3>6
    <3>7. CASE c \in Ble /\ last.at < old.at /\ old.at <= t - Window
      <4>1. Last(c) = old /\ old.at <= later - Window
        BY <3>2, <3>5, <3>7
      <4>2. h[Len(h)].at < old.at
        BY <2>3, <2>4, <3>5, <3>7
      <4> QED
        BY <3>1, <3>7, <4>1, <4>2
    <3> QED
      BY <2>2, <3>1, <3>6, <3>7
  <2> HIDE DEF Last, s, h
  <2> QED
    BY <2>1, <2>3, <2>4 DEF SaneAt, h
<1>8. Sane(d, later)
  BY <1>5, <1>7 DEF Sane
<1>9. \A c \in Channel : Len(d.samples[c]) <= Len(b.samples[c])
  BY <1>2, <1>3
<1> QED
  BY <1>6, <1>8, <1>9 DEF d

-----------------------------------------------------------------------------
(***************************************************************************)
(* The invariant and the steps.                                            *)
(***************************************************************************)

\* The inductive invariant: sane buffers that overdraw the budget by no more than
\* the losses at the end of a radar history.
SignalInv ==
    /\ now \in Instant
    /\ Sane(Buffers, now)
    /\ Bounded(samples)

\* Instants are numbers.
LEMMA InstantIsInt == ASSUME NEW t \in Instant PROVE t \in Int /\ t \in Nat
BY LimitAssumption DEF Instant

\* Losses that are told stay so over several operations, and later on.
LEMMA KeepsAgain ==
    ASSUME NEW b, NEW e, NEW d, NEW t, Keeps(b, e, t), Keeps(e, d, t)
    PROVE  Keeps(b, d, t)
<1> SUFFICES ASSUME NEW c \in Channel, c \notin d.truncated
             PROVE  Holds(d.samples[c], b.samples[c], t)
  BY DEF Keeps
<1>1. Holds(e.samples[c], b.samples[c], t) /\ Holds(d.samples[c], e.samples[c], t)
  BY DEF Keeps
<1> QED
  BY <1>1 DEF Holds

\* What was kept at a time is kept later.
LEMMA KeepsLater ==
    ASSUME NEW b \in Buffer, NEW d, NEW t \in Int, NEW later \in Int, t <= later, Keeps(b, d, t)
    PROVE  Keeps(b, d, later)
<1> SUFFICES ASSUME NEW c \in Channel, c \notin d.truncated, NEW i \in DOMAIN b.samples[c],
                    b.samples[c][i].at > later - Window
             PROVE  \E j \in DOMAIN d.samples[c] : d.samples[c][j] = b.samples[c][i]
  BY DEF Keeps, Holds
<1>1. b.samples[c] \in Seq(Sample)
  BY BufferFields
<1>2. b.samples[c][i].at \in Nat /\ Window \in Nat
  BY <1>1, SeriesIsDated, LimitAssumption
<1>3. b.samples[c][i].at > t - Window
  BY <1>2
<1> QED
  BY <1>3 DEF Keeps, Holds

\* A handler that leaves sane buffers, bounded, and tells what it loses.
LEMMA BecomeIsFine ==
    ASSUME NEW d, Become(d), now' \in Instant, Sane(d, now'), Bounded(d.samples),
           Keeps(Buffers, d, now')
    PROVE  SignalInv' /\ Keeps(Buffers, Buffers', now')
<1>1. d = [samples |-> d.samples, latest |-> d.latest, truncated |-> d.truncated]
  BY BufferFields DEF Sane
<1>2. Buffers' = d /\ samples' = d.samples
  BY <1>1 DEF Become, Buffers
<1> QED
  BY <1>2 DEF SignalInv

\* Rests weigh no more.
LEMMA RestsAreBounded ==
    ASSUME NEW b \in Buffer, NEW d \in Buffer, Bounded(b.samples),
           \A c \in Channel : IsRest(d.samples[c], b.samples[c])
    PROVE  Bounded(d.samples)
<1>1. b.samples \in [Channel -> Seq(Sample)] /\ d.samples \in [Channel -> Seq(Sample)]
  BY BufferFields
<1>2. \A c \in Channel : Charge(d.samples)[c] <= Charge(b.samples)[c]
  BY <1>1, RestIsLighter
<1> QED
  BY <1>1, <1>2, LighterIsBounded

\* Enforcing the budget and trimming leave fine buffers fine.
LEMMA FittingIsFine ==
    ASSUME NEW b, NEW t \in Int, Sane(b, t), NEW d \in WithinBudget(b)
    PROVE  Sane(d, t) /\ Bounded(d.samples) /\ Keeps(b, d, t) /\ Size(d.samples) <= Budget
<1>1. PICK n \in Sacrifices(b) : d = Without(b, n)
  BY DEF WithinBudget
<1>2. /\ d \in Buffer /\ d.latest = b.latest
      /\ \A c \in Channel : IsRest(d.samples[c], b.samples[c])
      /\ Keeps(b, d, t) /\ Size(d.samples) <= Budget
  <2>1. b \in Buffer
    BY DEF Sane
  <2> QED
    BY <1>1, <2>1, WithoutFits
<1>3. Sane(d, t)
  BY <1>2, FewerIsSane
<1>4. Bounded(d.samples)
  BY <1>2, BufferFields, FittingIsBounded
<1> QED
  BY <1>2, <1>3, <1>4

\* Trimming all channels leaves fine buffers fine.
LEMMA TrimmedIsFine ==
    ASSUME NEW b, NEW t \in Int, Sane(b, t), NEW channels \in SUBSET Channel
    PROVE  LET d == Trimmed(b, channels, t)
           IN  Sane(d, t) /\ Keeps(b, d, t) /\ (Bounded(b.samples) => Bounded(d.samples))
<1> DEFINE d == Trimmed(b, channels, t)
<1>1. b \in Buffer /\ \A c \in Channel : Ascends(b.samples[c])
  BY DEF Sane, SaneAt
<1>2. /\ d \in Buffer /\ d.latest = b.latest /\ d.truncated = b.truncated
      /\ \A c \in Channel :
            /\ IsRest(d.samples[c], b.samples[c])
            /\ Holds(d.samples[c], b.samples[c], t)
  BY <1>1, TrimmedIsRest
<1> HIDE DEF d
<1>3. Sane(d, t)
  BY <1>2, FewerIsSane
<1>4. Keeps(b, d, t)
  BY <1>2 DEF Keeps
<1>5. Bounded(b.samples) => Bounded(d.samples)
  BY <1>1, <1>2, RestsAreBounded
<1> QED
  BY <1>3, <1>4, <1>5 DEF d

\* Empty buffers are fine.
LEMMA InitIsFine == Init => SignalInv
<1> SUFFICES ASSUME Init PROVE SignalInv
  OBVIOUS
<1>1. now \in Instant /\ 0 \in Int
  BY LimitAssumption DEF Init, Instant
<1>2. Buffers = Empty /\ samples = Empty.samples
  BY DEF Init, Buffers, Empty
<1>3. Sane(Buffers, now)
  BY <1>1, <1>2, EmptyIsSane DEF Init
<1>4. Bounded(samples)
  <2>1. samples \in [Channel -> Seq(Sample)] /\ \A c \in Channel : samples[c] = << >>
    BY DEF Init
  <2>2. \A c \in Channel : Lengths(samples)[c] = 0
    BY <2>1 DEF Lengths
  <2>3. Size(samples) = 0
    BY <2>2, SizeIsSum, SumOfZeros, ChannelsAreFinite
  <2> QED
    BY <2>1, <2>3, FittingIsBounded, LimitAssumption
<1> QED
  BY <1>1, <1>3, <1>4 DEF SignalInv

\* A report, retained and trimmed and made to fit the budget, is fine.
LEMMA ReportIsFine ==
    ASSUME SignalInv, NEW c \in Channel, NEW x \in Sample
    PROVE  LET d == Retained(Buffers, c, x, now)
           IN  /\ Sane(d, now) /\ Keeps(Buffers, d, now)
               /\ ~ (IsNews(Buffers, c, x) /\ IsFresh(x, now)) => Bounded(d.samples)
               /\ ~ IsNews(Buffers, c, x) => d = Buffers
<1> DEFINE d == Retained(Buffers, c, x, now)
<1>1. Sane(Buffers, now) /\ now \in Int /\ Bounded(Buffers.samples)
  BY InstantIsInt DEF SignalInv, Buffers
<1>2. /\ Sane(d, now) /\ Keeps(Buffers, d, now)
      /\ ~ (IsNews(Buffers, c, x) /\ IsFresh(x, now)) =>
            \A e \in Channel : IsRest(d.samples[e], Buffers.samples[e])
      /\ ~ IsNews(Buffers, c, x) => d = Buffers
  BY <1>1, RetainedIsSane
<1> HIDE DEF d
<1>3. Buffers \in Buffer /\ d \in Buffer
  BY <1>1, <1>2 DEF Sane
<1> QED
  BY <1>1, <1>2, <1>3, RestsAreBounded DEF d

\* A loss is a sample of now, and so in the window.
LEMMA LossIsASample == SignalInv => Loss \in Sample /\ IsFresh(Loss, now)
<1> SUFFICES ASSUME SignalInv PROVE Loss \in Sample /\ IsFresh(Loss, now)
  OBVIOUS
<1>1. now \in Instant /\ now \in Nat /\ Window \in Nat /\ Window > 0
  BY InstantIsInt, LimitAssumption DEF SignalInv
<1> QED
  BY <1>1 DEF Loss, Sample, IsFresh

\* Of a lost source every channel that changes gains a sample, and with it
\* the right to one more than the budget.
LEMMA RadarLostIsFine ==
    ASSUME SignalInv, NEW source, RadarLost(source)
    PROVE  SignalInv' /\ Keeps(Buffers, Buffers', now')
<1> DEFINE changed == {c \in Radar : /\ SourceOf[c] = source
                                     /\ latest[c] # Missing
                                     /\ IsNews(Buffers, c, Loss)}
           pool == IF changed = {} THEN Ble ELSE Channel
           trimmed == Trimmed(Buffers, pool, now)
           lost(c) == Appended(trimmed, c, Loss)
           d == [samples   |-> [c \in Channel |->
                     IF c \in changed THEN lost(c).samples[c] ELSE trimmed.samples[c]],
                 latest    |-> [c \in Channel |-> IF c \in changed THEN Loss ELSE latest[c]],
                 truncated |-> truncated \cup {c \in changed : c \in lost(c).truncated}]
<1>1. Become(d) /\ now' = now
  BY DEF RadarLost
<1>2. /\ Sane(Buffers, now) /\ now \in Int /\ now \in Instant /\ Buffers \in Buffer
      /\ Buffers.samples = samples /\ Buffers.latest = latest /\ Buffers.truncated = truncated
      /\ samples \in [Channel -> Seq(Sample)] /\ latest \in [Channel -> Sample \cup {Missing}]
      /\ truncated \in SUBSET Channel
      /\ Bounded(samples) /\ Loss \in Sample /\ Loss.reading = Lost
      /\ \A c \in Channel : SaneAt(Buffers, c, now)
  <2>1. Sane(Buffers, now) /\ now \in Instant /\ Bounded(samples)
    BY DEF SignalInv
  <2>2. Buffers \in Buffer /\ \A c \in Channel : SaneAt(Buffers, c, now)
    BY <2>1 DEF Sane
  <2>3. Buffers.samples = samples /\ Buffers.latest = latest /\ Buffers.truncated = truncated
    BY DEF Buffers
  <2> QED
    BY <2>1, <2>2, <2>3, BufferFields, InstantIsInt, LossIsASample DEF Loss
<1>3. pool \in SUBSET Channel /\ changed \in SUBSET Channel /\ changed \in SUBSET Radar
      /\ (changed # {} => pool = Channel)
  BY DEF Channel
<1>4. \A c \in changed : IsNews(Buffers, c, Loss) /\ latest[c] # Missing
  OBVIOUS
<1> HIDE DEF pool, changed
<1>5. /\ trimmed \in Buffer /\ trimmed.latest = latest /\ trimmed.truncated = truncated
      /\ \A c \in Channel :
            /\ IsRest(trimmed.samples[c], samples[c])
            /\ Holds(trimmed.samples[c], samples[c], now)
      /\ \A c \in changed : \A i \in 1 .. Len(trimmed.samples[c]) :
            trimmed.samples[c][i].at > now - Window
  <2>1. \A c \in Channel : Ascends(Buffers.samples[c])
    BY <1>2 DEF SaneAt
  <2> QED
    BY <1>2, <1>3, <2>1, TrimmedIsRest
<1> HIDE DEF trimmed
<1> DEFINE u(c) == trimmed.samples[c]
           v(c) == Extended(u(c), Loss)
<1>6. ASSUME NEW c \in changed
      PROVE  /\ c \in Channel /\ c \in Radar
             /\ lost(c).samples[c] = v(c)
             /\ v(c) \in Seq(Sample) /\ Ascends(v(c)) /\ Alternates(v(c)) /\ Len(v(c)) <= Limit
             /\ v(c) # << >> /\ v(c)[Len(v(c))] = Loss /\ Len(v(c)) <= Len(u(c)) + 1
             /\ c \in lost(c).truncated \/ Holds(v(c), samples[c], now)
  <2>1. c \in Channel /\ c \in Radar /\ IsNews(Buffers, c, Loss)
    BY <1>3, <1>4
  <2>2. IsRest(u(c), Buffers.samples[c]) /\ \A i \in 1 .. Len(u(c)) : u(c)[i].at > now - Window
    BY <1>2, <1>5, <2>1
  <2>3. /\ lost(c).samples[c] = v(c)
        /\ Len(Append(u(c), Loss)) > Limit => c \in lost(c).truncated
    BY <1>2, <1>5, <2>1, AppendedFields
  <2>4. Holds(u(c), samples[c], now)
    BY <1>5, <2>1
  <2> HIDE DEF u, lost
  <2>5. /\ u(c) \in Seq(Sample) /\ Ascends(u(c)) /\ Alternates(u(c)) /\ Len(u(c)) <= Limit
        /\ u(c) # << >> => /\ u(c)[Len(u(c))].at < Loss.at
                          /\ u(c)[Len(u(c))].reading # Loss.reading
    BY <1>2, <2>1, <2>2, NewsExtends
  <2>6. /\ v(c) \in Seq(Sample) /\ Ascends(v(c)) /\ Alternates(v(c)) /\ Len(v(c)) <= Limit
        /\ v(c) # << >> /\ v(c)[Len(v(c))] = Loss /\ Len(v(c)) <= Len(u(c)) + 1
        /\ ~ (Len(Append(u(c), Loss)) > Limit) => Holds(v(c), u(c), now)
    BY <1>2, <2>5, ExtendedIsSane
  <2> HIDE DEF v
  <2>7. Holds(v(c), u(c), now) => Holds(v(c), samples[c], now)
    BY <2>4 DEF Holds
  <2> QED
    BY <2>1, <2>3, <2>6, <2>7
<1> HIDE DEF v
<1>7. /\ \A c \in Channel : d.samples[c] = IF c \in changed THEN v(c) ELSE u(c)
      /\ \A c \in Channel : d.latest[c] = IF c \in changed THEN Loss ELSE latest[c]
      /\ truncated \subseteq d.truncated
      /\ \A c \in changed : c \in lost(c).truncated => c \in d.truncated
  BY <1>6
<1>8. d \in Buffer
  <2> HIDE DEF lost
  <2>1. \A c \in Channel : u(c) \in Seq(Sample)
    BY <1>5, BufferFields
  <2>2. d.samples \in [Channel -> Seq(Sample)]
    BY <1>6, <2>1
  <2>3. d.latest \in [Channel -> Sample \cup {Missing}]
    BY <1>2
  <2>4. d.truncated \in SUBSET Channel
    BY <1>2, <1>3
  <2> QED
    BY <2>2, <2>3, <2>4 DEF Buffer
<1> HIDE DEF d, u
<1>9. ASSUME NEW c \in Channel
      PROVE  /\ SaneAt(d, c, now)
             /\ c \in d.truncated \/ Holds(d.samples[c], samples[c], now)
             /\ Charge(d.samples)[c] <= Charge(samples)[c]
  <2> DEFINE s == samples[c]
  <2>1. /\ s \in Seq(Sample) /\ SaneAt(Buffers, c, now) /\ Buffers.samples[c] = s
        /\ Buffers.latest[c] = latest[c]
        /\ d.samples \in [Channel -> Seq(Sample)]
        /\ IsRest(u(c), s) /\ Holds(u(c), s, now)
    BY <1>2, <1>5, <1>8, BufferFields DEF u
  <2>2. CASE c \notin changed
    <3>1. d.samples[c] = u(c) /\ d.latest[c] = latest[c]
      BY <1>7, <2>2
    <3>2. Charge(d.samples)[c] <= Charge(samples)[c]
      BY <1>2, <2>1, <3>1, RestIsLighter
    <3>3. SaneAt(d, c, now)
      <4>1. Ascends(s) /\ Alternates(s) /\ Len(s) <= Limit /\ Limit \in Nat
        BY <2>1, LimitAssumption DEF SaneAt
      <4>2. /\ Ascends(u(c)) /\ Alternates(u(c)) /\ Len(u(c)) <= Limit
            /\ u(c) # << >> => s # << >> /\ u(c)[Len(u(c))] = s[Len(s)]
        <5> HIDE DEF s
        <5>1. Len(u(c)) \in Nat /\ Len(s) \in Nat /\ Len(u(c)) <= Len(s)
          BY <2>1, RestIsShorter
        <5> QED
          BY <2>1, <4>1, <5>1, RestKeepsSeries
      <4> QED
        BY <2>1, <3>1, <4>2 DEF SaneAt
    <3> QED
      BY <2>1, <3>1, <3>2, <3>3
  <2>3. CASE c \in changed
    <3>1. /\ d.samples[c] = v(c) /\ d.latest[c] = Loss
          /\ v(c) \in Seq(Sample) /\ Ascends(v(c)) /\ Alternates(v(c)) /\ Len(v(c)) <= Limit
          /\ v(c) # << >> /\ v(c)[Len(v(c))] = Loss /\ Len(v(c)) <= Len(u(c)) + 1
          /\ c \in Radar /\ (c \in d.truncated \/ Holds(v(c), s, now))
      BY <1>6, <1>7, <2>3
    <3>2. SaneAt(d, c, now)
      BY <1>2, <3>1 DEF SaneAt
    <3>3. c \notin LostLast(samples)
      <4> SUFFICES ASSUME s # << >> PROVE s[Len(s)].reading # Lost
        BY DEF LostLast
      <4>1. c \notin Ble
        BY <3>1, ChannelAssumption
      <4>2. s[Len(s)] = latest[c]
        BY <2>1, <4>1 DEF SaneAt
      <4>3. latest[c].reading # Lost
        BY <1>2, <1>4, <2>3 DEF IsNews
      <4> QED
        BY <4>2, <4>3
    <3>4. c \in LostLast(d.samples)
      BY <1>2, <3>1 DEF LostLast
    <3>5. /\ Charge(samples)[c] = Len(s)
          /\ Charge(d.samples)[c] = Len(v(c)) - 1
      BY <2>1, <3>1, <3>3, <3>4 DEF Charge
    <3>6. Len(u(c)) \in Nat /\ Len(s) \in Nat /\ Len(u(c)) <= Len(s) /\ Len(v(c)) \in Nat
      BY <2>1, <3>1, RestIsShorter
    <3> HIDE DEF s
    <3>7. Charge(d.samples)[c] <= Charge(samples)[c]
      BY <3>1, <3>5, <3>6
    <3> QED
      BY <3>1, <3>2, <3>7 DEF s
  <2> QED
    BY <2>2, <2>3
<1>10. Sane(d, now)
  BY <1>8, <1>9 DEF Sane
<1>11. Keeps(Buffers, d, now)
  BY <1>2, <1>7, <1>9 DEF Keeps
<1>12. Bounded(d.samples)
  BY <1>2, <1>8, <1>9, BufferFields, LighterIsBounded
<1> QED
  BY <1>1, <1>2, <1>10, <1>11, <1>12, BecomeIsFine

\* A BLE report.
LEMMA BleReportIsFine ==
    ASSUME SignalInv, NEW c \in Ble, NEW x \in Sample, BleReport(c, x)
    PROVE  SignalInv' /\ Keeps(Buffers, Buffers', now')
<1> DEFINE b == Retained(Buffers, c, x, now)
<1>1. now' = now /\ now \in Instant /\ now \in Int /\ c \in Channel
  BY InstantIsInt DEF SignalInv, BleReport, Channel
<1>2. /\ Sane(b, now) /\ Keeps(Buffers, b, now)
      /\ ~ (IsNews(Buffers, c, x) /\ IsFresh(x, now)) => Bounded(b.samples)
  BY <1>1, ReportIsFine
<1>3. CASE IsNews(Buffers, c, x) /\ IsFresh(x, now)
  <2>1. PICK d \in WithinBudget(b) : Become(d)
    BY <1>3 DEF BleReport
  <2> HIDE DEF b
  <2>2. Sane(d, now) /\ Bounded(d.samples) /\ Keeps(b, d, now)
    BY <1>1, <1>2, FittingIsFine
  <2>3. Keeps(Buffers, d, now)
    BY <1>2, <2>2, KeepsAgain
  <2> QED
    BY <1>1, <2>1, <2>2, <2>3, BecomeIsFine
<1>4. CASE ~ (IsNews(Buffers, c, x) /\ IsFresh(x, now))
  <2>1. Become(b)
    BY <1>4 DEF BleReport
  <2> HIDE DEF b
  <2> QED
    BY <1>1, <1>2, <1>4, <2>1, BecomeIsFine
<1> QED
  BY <1>3, <1>4

\* A radar report.
LEMMA RadarReportIsFine ==
    ASSUME SignalInv, NEW c \in Radar, NEW x \in Sample, RadarReport(c, x)
    PROVE  SignalInv' /\ Keeps(Buffers, Buffers', now')
<1> DEFINE b == Retained(Buffers, c, x, now)
<1>1. now' = now /\ now \in Instant /\ now \in Int /\ c \in Channel
  BY InstantIsInt DEF SignalInv, RadarReport, Channel
<1>2. Sane(b, now) /\ Keeps(Buffers, b, now)
  BY <1>1, ReportIsFine
<1>3. PICK d \in WithinBudget(b) : Become(d)
  BY DEF RadarReport
<1> HIDE DEF b
<1>4. Sane(d, now) /\ Bounded(d.samples) /\ Keeps(b, d, now)
  BY <1>1, <1>2, FittingIsFine
<1>5. Keeps(Buffers, d, now)
  BY <1>2, <1>4, KeepsAgain
<1> QED
  BY <1>1, <1>3, <1>4, <1>5, BecomeIsFine

\* A BLE signal that is lost is forgotten, and truncated: nothing is silent.
LEMMA BleLostIsFine ==
    ASSUME SignalInv, NEW c \in Ble, BleLost(c)
    PROVE  SignalInv' /\ Keeps(Buffers, Buffers', now')
<1> DEFINE b == Retained(Buffers, c, Loss, now)
<1>1. /\ now' = now /\ now \in Instant /\ now \in Int /\ c \in Channel
      /\ Loss \in Sample /\ IsFresh(Loss, now) /\ Ble \in SUBSET Channel
      /\ Bounded(Buffers.samples)
  BY InstantIsInt, LossIsASample DEF SignalInv, BleLost, Channel, Buffers
<1>2. /\ Sane(b, now) /\ Keeps(Buffers, b, now)
      /\ ~ IsNews(Buffers, c, Loss) => b = Buffers
  BY <1>1, ReportIsFine
<1>3. PICK e \in IF IsNews(Buffers, c, Loss) THEN WithinBudget(b) ELSE {b} :
         Become(Trimmed(e, Ble, now))
  BY DEF BleLost
<1> HIDE DEF b
<1>4. Sane(e, now) /\ Bounded(e.samples) /\ Keeps(Buffers, e, now)
  <2>1. CASE IsNews(Buffers, c, Loss)
    <3>1. Sane(e, now) /\ Bounded(e.samples) /\ Keeps(b, e, now)
      BY <1>1, <1>2, <1>3, <2>1, FittingIsFine
    <3> QED
      BY <1>2, <3>1, KeepsAgain
  <2>2. CASE ~ IsNews(Buffers, c, Loss)
    BY <1>1, <1>2, <1>3, <2>2
  <2> QED
    BY <2>1, <2>2
<1> DEFINE d == Trimmed(e, Ble, now)
<1>5. Sane(d, now) /\ Bounded(d.samples) /\ Keeps(e, d, now)
  BY <1>1, <1>4, TrimmedIsFine
<1> HIDE DEF d
<1>6. Keeps(Buffers, d, now)
  BY <1>4, <1>5, KeepsAgain
<1> QED
  BY <1>1, <1>3, <1>5, <1>6, BecomeIsFine DEF d

\* A resolution trims.
LEMMA ResolveIsFine == SignalInv /\ Resolve => SignalInv' /\ Keeps(Buffers, Buffers', now')
<1> SUFFICES ASSUME SignalInv, Resolve PROVE SignalInv' /\ Keeps(Buffers, Buffers', now')
  OBVIOUS
<1> DEFINE d == Trimmed(Buffers, Ble, now)
<1>1. /\ now' = now /\ now \in Instant /\ now \in Int /\ Ble \in SUBSET Channel
      /\ Sane(Buffers, now) /\ Bounded(Buffers.samples) /\ Become(d)
  BY InstantIsInt DEF SignalInv, Resolve, Channel, Buffers
<1>2. Sane(d, now) /\ Bounded(d.samples) /\ Keeps(Buffers, d, now)
  BY <1>1, TrimmedIsFine
<1> HIDE DEF d
<1> QED
  BY <1>1, <1>2, BecomeIsFine

\* A restart restores what the save had, under the limits and the budget.
LEMMA RestartIsFine ==
    ASSUME SignalInv, NEW t \in now .. MaxNow, Restart(t)
    PROVE  SignalInv' /\ Keeps(Buffers, Buffers', now')
<1> DEFINE e == Trimmed(Buffers, Channel, now)
<1>1. /\ now' = t /\ now \in Instant /\ now \in Int /\ t \in Instant /\ t \in Int /\ now <= t
      /\ Sane(Buffers, now) /\ Buffers \in Buffer
  BY InstantIsInt, LimitAssumption DEF SignalInv, Restart, Instant, Sane
<1>2. Sane(e, now) /\ Keeps(Buffers, e, now)
  BY <1>1, TrimmedIsFine
<1>3. PICK saved \in WithinBudget(e) : Become(Restored(saved, Empty, t))
  BY DEF Restart
<1> HIDE DEF e
<1>4. Sane(saved, now) /\ Keeps(e, saved, now) /\ Size(saved.samples) <= Budget
  BY <1>1, <1>2, FittingIsFine
<1>5. Keeps(Buffers, saved, t)
  BY <1>1, <1>2, <1>4, KeepsAgain, KeepsLater
<1> DEFINE d == Restored(saved, Empty, t)
<1>6. /\ Sane(d, t) /\ Keeps(saved, d, t)
      /\ \A c \in Channel : Len(d.samples[c]) <= Len(saved.samples[c])
  BY <1>1, <1>4, RestoredIsSane
<1> HIDE DEF d
<1>7. Keeps(Buffers, d, t)
  BY <1>5, <1>6, KeepsAgain
<1>8. d.samples \in [Channel -> Seq(Sample)] /\ saved.samples \in [Channel -> Seq(Sample)]
  BY <1>4, <1>6, BufferFields DEF Sane
<1>9. \A c \in Channel : /\ Lengths(d.samples)[c] \in Nat /\ Lengths(saved.samples)[c] \in Nat
                         /\ Lengths(d.samples)[c] <= Lengths(saved.samples)[c]
  BY <1>6, <1>8, SizeIsNatural
<1>10. Size(d.samples) <= Size(saved.samples)
  BY <1>9, SumIsMonotone, ChannelsAreFinite, SizeIsSum
<1>11. Size(d.samples) <= Budget
  BY <1>4, <1>8, <1>10, SizeIsNatural, LimitAssumption
<1>12. Bounded(d.samples)
  BY <1>8, <1>11, FittingIsBounded
<1> QED
  BY <1>1, <1>3, <1>6, <1>7, <1>12, BecomeIsFine DEF d

\* A step that leaves all as it is.
LEMMA NothingIsFine ==
    ASSUME SignalInv, UNCHANGED <<samples, latest, truncated>>, now' \in Instant, now <= now'
    PROVE  SignalInv' /\ Keeps(Buffers, Buffers', now')
<1>1. Buffers' = Buffers /\ samples' = samples
  BY DEF Buffers
<1>2. now \in Int /\ now' \in Int /\ Sane(Buffers, now) /\ Buffers \in Buffer
  BY InstantIsInt DEF SignalInv, Sane
<1>3. \A c \in Channel : IsRest(Buffers.samples[c], Buffers.samples[c])
  BY <1>2, BufferFields, RestOfItself
<1>4. Sane(Buffers, now')
  BY <1>2, <1>3, FewerIsSane
<1> QED
  BY <1>1, <1>4 DEF SignalInv, Keeps, Holds

\* What a step keeps, and what it may not lose in silence.
LEMMA StepIsFine == SignalInv /\ [Next]_vars => SignalInv' /\ Keeps(Buffers, Buffers', now')
<1> SUFFICES ASSUME SignalInv, [Next]_vars
             PROVE  SignalInv' /\ Keeps(Buffers, Buffers', now')
  OBVIOUS
<1>1. CASE Tick
  <2>1. now' \in Instant /\ now <= now'
    BY <1>1, LimitAssumption DEF Tick, SignalInv, Instant
  <2> QED
    BY <1>1, <2>1, NothingIsFine DEF Tick
<1>2. ASSUME NEW at \in Instant, NEW reading \in Reading \cup {Lost}, NEW c \in Ble,
             BleReport(c, [at |-> at, reading |-> reading])
      PROVE  SignalInv' /\ Keeps(Buffers, Buffers', now')
  <2>1. [at |-> at, reading |-> reading] \in Sample
    BY DEF Sample
  <2> QED
    BY <1>2, <2>1, BleReportIsFine
<1>3. ASSUME NEW at \in Instant, NEW reading \in Reading \cup {Lost}, NEW c \in Radar,
             RadarReport(c, [at |-> at, reading |-> reading])
      PROVE  SignalInv' /\ Keeps(Buffers, Buffers', now')
  <2>1. [at |-> at, reading |-> reading] \in Sample
    BY DEF Sample
  <2> QED
    BY <1>3, <2>1, RadarReportIsFine
<1>4. ASSUME NEW c \in Radar, RadarLost(SourceOf[c])
      PROVE  SignalInv' /\ Keeps(Buffers, Buffers', now')
  BY <1>4, RadarLostIsFine
<1>5. ASSUME NEW c \in Ble, BleLost(c)
      PROVE  SignalInv' /\ Keeps(Buffers, Buffers', now')
  BY <1>5, BleLostIsFine
<1>6. CASE Resolve
  BY <1>6, ResolveIsFine
<1>7. ASSUME NEW t \in now .. MaxNow, Restart(t)
      PROVE  SignalInv' /\ Keeps(Buffers, Buffers', now')
  BY <1>7, RestartIsFine
<1>8. CASE UNCHANGED vars
  <2>1. now' = now /\ now \in Instant /\ now \in Int
    BY <1>8, InstantIsInt DEF vars, SignalInv
  <2> QED
    BY <1>8, <2>1, NothingIsFine DEF vars
<1> QED
  BY <1>1, <1>2, <1>3, <1>4, <1>5, <1>6, <1>7, <1>8 DEF Next

\* Through any reports, losses, resolutions and restarts histories stay series,
\* within their limits, and the budget is overdrawn by losses only.
THEOREM SignalInvariance == Spec => []SignalInv
<1>1. Init => SignalInv
  BY InitIsFine
<1>2. SignalInv /\ [Next]_vars => SignalInv'
  BY StepIsFine
<1> QED
  BY <1>1, <1>2, PTL DEF Spec

\* The buffers hold what they are for, no history more than its limit.
THEOREM SignalTypes == Spec => []TypeOK
<1>1. SignalInv => TypeOK
  <2> SUFFICES ASSUME SignalInv PROVE TypeOK
    OBVIOUS
  <2>1. Sane(Buffers, now) /\ now \in Instant
    BY DEF SignalInv
  <2>2. Buffers \in Buffer /\ \A c \in Channel : Len(Buffers.samples[c]) <= Limit
    BY <2>1 DEF Sane, SaneAt
  <2> QED
    BY <2>1, <2>2, BufferFields DEF TypeOK, Buffers
<1> QED
  BY <1>1, SignalInvariance, PTL

\* A history is strictly ordered in time, no two neighbours read the same, and it
\* ends no later than the latest sample.
THEOREM SignalsAreSeries == Spec => []HistoriesAreSeries
<1>1. SignalInv => HistoriesAreSeries
  <2> SUFFICES ASSUME SignalInv, NEW c \in Channel
               PROVE  /\ \A i \in 2 .. Len(samples[c]) :
                            /\ samples[c][i - 1].at < samples[c][i].at
                            /\ samples[c][i - 1].reading # samples[c][i].reading
                      /\ samples[c] # << >> =>
                            /\ latest[c] # Missing
                            /\ samples[c][Len(samples[c])].at <= latest[c].at
    BY DEF HistoriesAreSeries
  <2> DEFINE s == samples[c]
             last == latest[c]
  <2>1. Sane(Buffers, now) /\ Buffers.samples = samples /\ Buffers.latest = latest
    BY DEF SignalInv, Buffers
  <2>2. /\ s \in Seq(Sample) /\ Ascends(s) /\ Alternates(s)
        /\ s # << >> => /\ last \in Sample
                        /\ s[Len(s)] = last \/ s[Len(s)].at < last.at
    <3>1. SaneAt(Buffers, c, now) /\ Buffers \in Buffer
      BY <2>1 DEF Sane
    <3> QED
      BY <2>1, <3>1, BufferFields DEF SaneAt
  <2> HIDE DEF s, last
  <2>3. Len(s) \in Nat /\ DOMAIN s = 1 .. Len(s) /\ \A i \in 1 .. Len(s) : s[i] \in Sample
    BY <2>2, SeriesIsDated
  <2>4. ASSUME NEW i \in 2 .. Len(s)
        PROVE  s[i - 1].at < s[i].at /\ s[i - 1].reading # s[i].reading
    <3>1. i - 1 \in 1 .. Len(s) /\ i \in 1 .. Len(s) /\ i - 1 < i
      BY <2>3
    <3> QED
      BY <2>2, <2>3, <3>1 DEF Ascends, Alternates
  <2>5. ASSUME s # << >>
        PROVE  last # Missing /\ s[Len(s)].at <= last.at
    <3>1. Len(s) \in 1 .. Len(s)
      BY <2>2, <2>3, <2>5
    <3>2. s[Len(s)].at \in Nat /\ last.at \in Nat
      BY <2>2, <2>3, <2>5, <3>1, SampleIsDated
    <3> QED
      BY <2>2, <2>5, <3>2, ChannelAssumption
  <2> QED
    BY <2>4, <2>5 DEF s, last
<1> QED
  BY <1>1, SignalInvariance, PTL

\* Sources that are lost again and again do not accumulate beyond the budget: it is
\* overdrawn by no more than the radar channels whose last sample is a loss.
THEOREM OverdraftStaysBounded == Spec => []OverdraftIsBounded
<1>1. SignalInv => OverdraftIsBounded
  BY DEF SignalInv, Bounded, LostLast, OverdraftIsBounded
<1> QED
  BY <1>1, SignalInvariance, PTL

\* No silent loss: a channel that loses a sample within the window, to its limit,
\* to the budget or to a restart, is reported as truncated.
THEOREM SignalLossesAreTold == Spec => LossesAreTold
<1>1. SignalInv /\ [Next]_vars => [\A c \in Channel : Dropped(c) # {} => c \in truncated']_vars
  <2> SUFFICES ASSUME SignalInv, [Next]_vars, NEW c \in Channel, Dropped(c) # {},
                      c \notin truncated'
               PROVE  FALSE
    OBVIOUS
  <2>1. Keeps(Buffers, Buffers', now')
    BY StepIsFine
  <2>2. Holds(Buffers'.samples[c], Buffers.samples[c], now')
    BY <2>1 DEF Keeps, Buffers
  <2>3. Holds(samples'[c], samples[c], now')
    BY <2>2 DEF Buffers
  <2> QED
    BY <2>3 DEF Holds, Dropped
<1> QED
  BY <1>1, SignalInvariance, PTL DEF Spec, LossesAreTold
=============================================================================
