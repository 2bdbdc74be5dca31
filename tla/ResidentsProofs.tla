------------------------- MODULE ResidentsProofs --------------------------
(***************************************************************************)
(* Proofs about Residents, for any home, names, windows and scenes.        *)
(*                                                                         *)
(* A person's place is never newer than what reports it, and a body that   *)
(* is identified beyond doubt stands where it is.  The argument follows a  *)
(* resolution: from the groups of evidence (IsReported), over the          *)
(* candidates and what is remembered of them (Justified), through the loop *)
(* over the groups (Sane), to what is left for the next resolution.  The   *)
(* groups of tracked objects come last: until then a firm body Stands, and *)
(* then it stands or is Followed.                                          *)
(*                                                                         *)
(* The greatest count of the home has room for everybody who is reported.  *)
(* A group loses a person only where a camera shows them: whoever is in a  *)
(* room, and not merely remembered there, is where they are seen best, or  *)
(* is there because the population of that room already had its turn       *)
(* (Settled).  So of every group the loop leaves at least what it counts   *)
(* less those shown in its room (Tells), and the rooms add up (RoomsNeed,  *)
(* AllRoomsNeed) to no more than what is left and the persons              *)
(* (HomeIsRoomy).                                                          *)
(*                                                                         *)
(* A room tells of each counter in it: the groups of the room have it for  *)
(* a source (CountersAreHeld), as they stay there unless they are in doubt *)
(* (FirmTracksStay), so it is among the evidence of the room, and neither  *)
(* grouping nor reconciling that evidence makes less of it (RoomTells).    *)
(***************************************************************************)
EXTENDS Residents, Sums

-----------------------------------------------------------------------------
\* Among what is measured by numbers there is a least.
LEMMA LeastMember ==
    ASSUME NEW S, S # {}, NEW f, \A x \in S : f[x] \in Nat
    PROVE  \E x \in S : \A y \in S : f[x] <= f[y]
<1> DEFINE sizes == {f[x] : x \in S}
<1>1. sizes \in SUBSET Nat /\ sizes # {}
  OBVIOUS
<1>2. PICK d \in sizes : \A e \in sizes : d <= e
  <2> HIDE DEF sizes
  <2> QED
    BY <1>1, LeastElement
<1> QED
  BY <1>2

\* A name has a rank, and a rank one name.
LEMMA RankIsAPlace ==
    ASSUME NEW n \in Name
    PROVE  Rank(n) \in 1 .. Len(Names) /\ Names[Rank(n)] = n
<1> DEFINE I == {i \in 1 .. Len(Names) : Names[i] = n}
<1>1. Len(Names) \in Nat /\ DOMAIN Names = 1 .. Len(Names)
  BY NamesAssumption
<1>2. I # {}
  BY <1>1 DEF Name, Range
<1>3. I \in SUBSET Nat
  BY <1>1
<1>4. PICK i \in I : \A j \in I : i <= j
  <2> HIDE DEF I
  <2> QED
    BY <1>2, <1>3, LeastElement
<1>5. Min(I) \in I
  <2> HIDE DEF I
  <2> QED
    BY <1>4 DEF Min
<1>6. Rank(n) = Min(I)
  <2>1. Rank(n) = IF I # {} THEN Min(I) ELSE 0
    BY DEF Rank, SelectInSeq
  <2> QED
    BY <1>2, <2>1
<1> QED
  BY <1>5, <1>6

\* Names are told apart by their ranks.
LEMMA RanksDiffer ==
    ASSUME NEW m \in Name, NEW n \in Name
    PROVE  /\ Rank(m) \in Nat /\ Rank(n) \in Nat
           /\ Rank(m) = Rank(n) => m = n
BY RankIsAPlace

\* What the observations of a scene are told apart by.
HaveNames(S) ==
    /\ \A o \in S : o.id \in Name
    /\ \A o, p \in S : o.id = p.id => o = p

\* Of observations with names there is a first one.
LEMMA FirstExists ==
    ASSUME NEW S, S # {}, HaveNames(S)
    PROVE  /\ FirstOf(S) \in S
           /\ \A p \in S \ {FirstOf(S)} : NamePrecedes(FirstOf(S).id, p.id)
<1> DEFINE f == [o \in S |-> Rank(o.id)]
<1>1. \A o \in S : f[o] \in Nat
  BY RanksDiffer DEF HaveNames
<1>2. PICK o \in S : \A p \in S : f[o] <= f[p]
  <2> HIDE DEF f
  <2> QED
    BY <1>1, LeastMember
<1>3. \A p \in S \ {o} : NamePrecedes(o.id, p.id)
  <2> TAKE p \in S \ {o}
  <2>1. o.id \in Name /\ p.id \in Name /\ o.id # p.id
    BY DEF HaveNames
  <2>2. Rank(o.id) <= Rank(p.id)
    BY <1>2
  <2> QED
    BY <2>1, <2>2, RanksDiffer DEF NamePrecedes
<1> QED
  BY <1>3 DEF FirstOf

\* Of such observations there is a newest one.
LEMMA NewestExists ==
    ASSUME NEW S, S # {}, HaveNames(S), \A o \in S : AgeOf(o) \in Nat
    PROVE  NewestOf(S) \in S /\ \A p \in S : AgeOf(NewestOf(S)) <= AgeOf(p)
<1> DEFINE f == [o \in S |-> AgeOf(o)]
<1>1. PICK x \in S : \A p \in S : f[x] <= f[p]
  <2>1. \A o \in S : f[o] \in Nat
    OBVIOUS
  <2> HIDE DEF f
  <2> QED
    BY <2>1, LeastMember
<1> DEFINE T == {o \in S : AgeOf(o) = AgeOf(x)}
<1>2. PICK o \in T : \A p \in T \ {o} : NamePrecedes(o.id, p.id)
  <2>1. T # {} /\ HaveNames(T)
    BY DEF HaveNames
  <2> HIDE DEF T
  <2> QED
    BY <2>1, FirstExists
<1>3. \A p \in S \ {o} :
        AgeOf(o) < AgeOf(p) \/ (AgeOf(o) = AgeOf(p) /\ NamePrecedes(o.id, p.id))
  <2> TAKE p \in S \ {o}
  <2>1. AgeOf(o) = AgeOf(x) /\ AgeOf(o) <= AgeOf(p) /\ AgeOf(o) \in Nat /\ AgeOf(p) \in Nat
    BY <1>1, <1>2
  <2>2. AgeOf(o) = AgeOf(p) => NamePrecedes(o.id, p.id)
    BY <1>2, <2>1
  <2> QED
    BY <2>1, <2>2
<1>4. /\ NewestOf(S) \in S
      /\ \A p \in S \ {NewestOf(S)} :
            \/ AgeOf(NewestOf(S)) < AgeOf(p)
            \/ AgeOf(NewestOf(S)) = AgeOf(p) /\ NamePrecedes(NewestOf(S).id, p.id)
  BY <1>2, <1>3 DEF NewestOf
<1> QED
  BY <1>4

-----------------------------------------------------------------------------
\* What a scene is.
IsScene(s) ==
    /\ s \in [active : SUBSET Observation, clears : SUBSET Observation,
              unavailable : SUBSET Name]
    /\ HaveNames(s.active)
    /\ \A o \in s.active : o.family = "wifi" /\ o.loc # Nothing => AtHome(o.loc)

\* The fields of an observation.
LEMMA ObservationFields ==
    ASSUME NEW o \in Observation
    PROVE  /\ o.id \in Name /\ o.source \in Name /\ o.target \in Name \cup {Nothing}
           /\ o.dependency \in Name \cup {Nothing} /\ o.coverage \in Name \cup {Nothing}
           /\ o.kind \in {"person", "unknown", "device"} \cup Animals
           /\ o.idq \in 0 .. High /\ o.loc \in Claim \cup {Nothing}
           /\ o.ap \in Claim \cup {Nothing} /\ o.age \in 0 .. MaxAge
BY DEF Observation

\* The fields of a location.
LEMMA ClaimFields ==
    ASSUME NEW l \in Claim
    PROVE  /\ l = [place |-> l.place, rooms |-> l.rooms, q |-> l.q, by |-> l.by, age |-> l.age]
           /\ l.place \in Area \cup Floor \cup {Home} /\ l.rooms \in SUBSET Area
           /\ l.q \in 0 .. High /\ l.age \in 0 .. MaxAge /\ l.age \in Nat
           /\ l.by \in {"measured", "wifi_connection", "gps_device_home", "wifi_ap_proximity"}
BY WindowsAssumption DEF Claim

\* A scene of the model is one.
LEMMA ScenesAreScenes ==
    ASSUME NEW s \in Scenes
    PROVE  IsScene(s)
BY SceneAssumption, ObservationFields DEF IsScene, HaveNames

\* What is active in a scene are observations.
LEMMA SceneObservations ==
    ASSUME NEW s, IsScene(s), NEW o \in s.active
    PROVE  o \in Observation
BY DEF IsScene

-----------------------------------------------------------------------------
\* A group of evidence, and what it reports of the anonymous bodies of E.
GroupFields(g) ==
    [key |-> g.key, kind |-> g.kind, loc |-> g.loc, min |-> g.min, max |-> g.max,
     sources |-> g.sources, target |-> g.target, coverage |-> g.coverage,
     observer |-> g.observer]

Vouches(E, g, l) ==
    \E o \in Anonymous(E) :
        /\ o.loc # Nothing /\ o.loc.place = l.place /\ o.loc.age = l.age
        /\ g.target # Nothing => o.target # Nothing

IsReported(E, g) ==
    /\ g = GroupFields(g)
    /\ g.loc \in Claim \cup {Nothing} /\ g.sources \in SUBSET Name
    /\ g.key \in {Classes[i] : i \in 1 .. 4} \X Name
    /\ (g.key[1] = "target") = (g.target # Nothing)
    /\ InRoom(g.loc) => Vouches(E, g, g.loc)

\* The groups of a scene report what is seen in it, each under its own key.
LEMMA GroupsAreReported ==
    ASSUME NEW s, IsScene(s)
    PROVE  /\ \A g \in Groups(s.active) : IsReported(s.active, g)
           /\ \A g, h \in Groups(s.active) : g.key = h.key => g = h
<1> DEFINE E == s.active
           of(o) == {p \in Anonymous(E) : KeyOf(p) = KeyOf(o)}
<1>1. ASSUME NEW o \in Anonymous(E)
      PROVE  LET x == NewestOf(of(o))
             IN  /\ x \in Anonymous(E) /\ KeyOf(x) = KeyOf(o)
                 /\ GroupOf(of(o)).key = KeyOf(o)
                 /\ IsReported(E, GroupOf(of(o)))
  <2> DEFINE x == NewestOf(of(o))
             g == GroupOf(of(o))
  <2>1. of(o) # {} /\ of(o) \subseteq Anonymous(E) /\ Anonymous(E) \subseteq E
    BY <1>1 DEF Anonymous
  <2>2. HaveNames(of(o)) /\ \A p \in of(o) : p \in Observation
    BY <2>1, SceneObservations DEF IsScene, HaveNames
  <2>3. \A p \in of(o) : AgeOf(p) \in Nat
    <3> TAKE p \in of(o)
    <3>1. p.age \in 0 .. MaxAge /\ p.loc \in Claim \cup {Nothing}
      BY <2>2, ObservationFields
    <3>2. p.loc # Nothing => p.loc.age \in Nat
      BY <3>1, ClaimFields
    <3> QED
      BY <3>1, <3>2, WindowsAssumption DEF AgeOf
  <2>4. x \in of(o)
    <3> HIDE DEF of
    <3> QED
      BY <2>1, <2>2, <2>3, NewestExists
  <2>5. x \in Anonymous(E) /\ KeyOf(x) = KeyOf(o) /\ x \in Observation
    BY <2>1, <2>2, <2>4
  <2>6. /\ g = GroupFields(g)
        /\ g.key = KeyOf(x) /\ g.loc = x.loc /\ g.target = x.target
        /\ g.sources = {p.source : p \in of(o)}
    <3> HIDE DEF of
    <3> QED
      BY DEF GroupOf, GroupFields
  <2>7. g.sources \in SUBSET Name
    <3>1. \A p \in of(o) : p.source \in Name
      BY <2>2, ObservationFields
    <3> HIDE DEF of, g
    <3> QED
      BY <2>6, <3>1
  <2>8. /\ g.key \in {Classes[i] : i \in 1 .. 4} \X Name
        /\ (g.key[1] = "target") = (g.target # Nothing)
    <3>1. x.target \in Name \cup {Nothing} /\ x.dependency \in Name \cup {Nothing}
          /\ x.id \in Name
      BY <2>5, ObservationFields
    <3>2. Classes[2] = "dependency" /\ Classes[3] = "observation" /\ Classes[4] = "target"
      BY DEF Classes
    <3> HIDE DEF x, g
    <3> QED
      BY <2>6, <3>1, <3>2 DEF KeyOf
  <2>9. g.loc \in Claim \cup {Nothing}
    BY <2>5, <2>6, ObservationFields
  <2>10. InRoom(g.loc) => Vouches(E, g, g.loc)
    <3> HIDE DEF x, g
    <3> QED
      BY <2>5, <2>6 DEF Vouches, InRoom
  <2>11. IsReported(E, g)
    <3> HIDE DEF g
    <3> QED
      BY <2>6, <2>7, <2>8, <2>9, <2>10 DEF IsReported
  <2> QED
    BY <2>5, <2>6, <2>11
<1>2. \A g \in Groups(E) : \E o \in Anonymous(E) : g = GroupOf(of(o))
  BY DEF Groups
<1>3. \A g \in Groups(E) : IsReported(E, g)
  <2> HIDE DEF of
  <2> QED
    BY <1>1, <1>2
<1>4. ASSUME NEW g \in Groups(E), NEW h \in Groups(E), g.key = h.key
      PROVE  g = h
  <2>1. PICK o \in Anonymous(E) : g = GroupOf(of(o)) /\ g.key = KeyOf(o)
    BY <1>1, <1>2
  <2>2. PICK p \in Anonymous(E) : h = GroupOf(of(p)) /\ h.key = KeyOf(p)
    BY <1>1, <1>2
  <2>3. of(o) = of(p)
    BY <1>4, <2>1, <2>2
  <2> QED
    BY <2>1, <2>2, <2>3
<1> QED
  BY <1>3, <1>4

-----------------------------------------------------------------------------
\* A class of keys has its place in the order.
LEMMA ClassIsAPlace ==
    ASSUME NEW k, k[1] \in {Classes[i] : i \in 1 .. 4}
    PROVE  ClassOf(k) \in 1 .. 4 /\ Classes[ClassOf(k)] = k[1]
<1> DEFINE I == {i \in 1 .. Len(Classes) : Classes[i] = k[1]}
<1>1. Len(Classes) = 4
  BY DEF Classes
<1>2. I # {} /\ I \in SUBSET Nat
  BY <1>1
<1>3. PICK i \in I : \A j \in I : i <= j
  <2> HIDE DEF I
  <2> QED
    BY <1>2, LeastElement
<1>4. Min(I) \in I
  <2> HIDE DEF I
  <2> QED
    BY <1>3 DEF Min
<1>5. ClassOf(k) = Min(I)
  <2>1. ClassOf(k) = IF I # {} THEN Min(I) ELSE 0
    BY DEF ClassOf, SelectInSeq
  <2> QED
    BY <1>2, <2>1
<1> QED
  BY <1>1, <1>4, <1>5

Key == {Classes[i] : i \in 1 .. 4} \X Name

\* Keys are told apart by their class and the rank of their name.
LEMMA KeysDiffer ==
    ASSUME NEW k \in Key, NEW l \in Key
    PROVE  /\ ClassOf(k) \in Nat /\ ClassOf(l) \in Nat
           /\ Rank(k[2]) \in Nat /\ Rank(l[2]) \in Nat
           /\ ClassOf(k) = ClassOf(l) /\ Rank(k[2]) = Rank(l[2]) => k = l
<1>1. k[1] \in {Classes[i] : i \in 1 .. 4} /\ k[2] \in Name /\ k = <<k[1], k[2]>>
  BY DEF Key
<1>2. l[1] \in {Classes[i] : i \in 1 .. 4} /\ l[2] \in Name /\ l = <<l[1], l[2]>>
  BY DEF Key
<1>3. ClassOf(k) = ClassOf(l) => k[1] = l[1]
  BY <1>1, <1>2, ClassIsAPlace
<1>4. Rank(k[2]) = Rank(l[2]) => k[2] = l[2]
  BY <1>1, <1>2, RanksDiffer
<1>5. ClassOf(k) \in Nat /\ ClassOf(l) \in Nat
  BY <1>1, <1>2, ClassIsAPlace
<1>6. Rank(k[2]) \in Nat /\ Rank(l[2]) \in Nat
  BY <1>1, <1>2, RanksDiffer
<1> QED
  BY <1>1, <1>2, <1>3, <1>4, <1>5, <1>6

\* Groups are told apart by their keys.
HaveKeys(G) ==
    /\ \A g \in G : g.key \in Key
    /\ \A g, h \in G : g.key = h.key => g = h

\* Of groups with keys there is a first one.
LEMMA FirstKeyExists ==
    ASSUME NEW G, G # {}, HaveKeys(G)
    PROVE  \E g \in G : \A h \in G \ {g} : KeyPrecedes(g.key, h.key)
<1> DEFINE f == [g \in G |-> ClassOf(g.key)]
<1>1. PICK x \in G : \A h \in G : f[x] <= f[h]
  <2>1. \A g \in G : f[g] \in Nat
    BY KeysDiffer DEF HaveKeys
  <2> HIDE DEF f
  <2> QED
    BY <2>1, LeastMember
<1> DEFINE T == {g \in G : ClassOf(g.key) = ClassOf(x.key)}
           r == [g \in T |-> Rank(g.key[2])]
<1>2. PICK g \in T : \A h \in T : r[g] <= r[h]
  <2>1. \A g \in T : r[g] \in Nat
    BY KeysDiffer DEF HaveKeys
  <2>2. T # {}
    OBVIOUS
  <2> HIDE DEF r, T
  <2> QED
    BY <2>1, <2>2, LeastMember
<1>3. ASSUME NEW h \in G \ {g} PROVE KeyPrecedes(g.key, h.key)
  <2>1. g \in G /\ g.key \in Key /\ h.key \in Key /\ g.key # h.key
    BY <1>2, <1>3 DEF HaveKeys
  <2>2. ClassOf(g.key) = ClassOf(x.key) /\ ClassOf(x.key) <= ClassOf(h.key)
    BY <1>1, <1>2, <1>3
  <2>3. CASE ClassOf(g.key) = ClassOf(h.key)
    <3>1. h \in T
      BY <2>2, <2>3, <1>3
    <3>2. Rank(g.key[2]) <= Rank(h.key[2])
      BY <1>2, <3>1
    <3>3. Rank(g.key[2]) < Rank(h.key[2])
      BY <2>1, <2>3, <3>2, KeysDiffer
    <3> QED
      BY <2>3, <3>3 DEF KeyPrecedes, NamePrecedes
  <2>4. CASE ClassOf(g.key) # ClassOf(h.key)
    BY <2>1, <2>2, <2>4, KeysDiffer DEF KeyPrecedes
  <2> QED
    BY <2>3, <2>4
<1> QED
  BY <1>2, <1>3

\* Of such groups there is a newest one.
LEMMA NewestGroupExists ==
    ASSUME NEW G, G # {}, HaveKeys(G), \A g \in G : g.loc \in Claim /\ g.loc # Nothing
    PROVE  NewestGroup(G) \in G
<1> DEFINE f == [g \in G |-> g.loc.age]
<1>1. PICK x \in G : \A h \in G : f[x] <= f[h]
  <2>1. \A g \in G : f[g] \in Nat
    BY ClaimFields
  <2> HIDE DEF f
  <2> QED
    BY <2>1, LeastMember
<1> DEFINE T == {g \in G : g.loc.age = x.loc.age}
<1>2. PICK g \in T : \A h \in T \ {g} : KeyPrecedes(g.key, h.key)
  <2>1. T # {} /\ HaveKeys(T)
    BY DEF HaveKeys
  <2> HIDE DEF T
  <2> QED
    BY <2>1, FirstKeyExists
<1>3. \A h \in G \ {g} :
        Fresher(g.loc, h.loc) \/ (~Fresher(h.loc, g.loc) /\ KeyPrecedes(g.key, h.key))
  <2> TAKE h \in G \ {g}
  <2>1. g \in G /\ g.loc.age = x.loc.age /\ x.loc.age <= h.loc.age
    BY <1>1, <1>2
  <2>2. g.loc # Nothing /\ h.loc # Nothing /\ g.loc.age \in Nat /\ h.loc.age \in Nat
    BY <2>1, ClaimFields
  <2>3. g.loc.age = h.loc.age => KeyPrecedes(g.key, h.key)
    BY <1>2, <2>1
  <2> QED
    BY <2>1, <2>2, <2>3 DEF Fresher
<1> QED
  BY <1>2, <1>3 DEF NewestGroup

-----------------------------------------------------------------------------
\* The fields of a group that others replace.
LEMMA WithSources ==
    ASSUME NEW E, NEW g, IsReported(E, g), NEW S \in SUBSET Name
    PROVE  IsReported(E, [g EXCEPT !.sources = @ \cup S])
<1> DEFINE h == [g EXCEPT !.sources = @ \cup S]
<1>1. h = [key |-> g.key, kind |-> g.kind, loc |-> g.loc, min |-> g.min, max |-> g.max,
           sources |-> g.sources \cup S, target |-> g.target, coverage |-> g.coverage,
           observer |-> g.observer]
  BY DEF IsReported, GroupFields
<1> HIDE DEF h
<1>2. h = GroupFields(h) /\ h.key = g.key /\ h.loc = g.loc /\ h.target = g.target
      /\ h.sources = g.sources \cup S
  BY <1>1 DEF GroupFields
<1>3. IsReported(E, h)
  BY <1>2 DEF IsReported, Vouches
<1> QED
  BY <1>3 DEF h

\* The population of a room is reported: its location is that of a counter.
LEMMA RoomPopulationIsReported ==
    ASSUME NEW s, IsScene(s), NEW a \in Area
    PROVE  \A g \in RoomPopulation(Groups(s.active), a) : IsReported(s.active, g)
<1> DEFINE E == s.active
           G == Groups(E)
           specific == Tracks(OfRoom(G, a))
           aggregates == OfRoom(G, a) \ specific
           residue == Residue(specific, aggregates)
           sources == UNION {g.sources : g \in aggregates}
           newest == NewestGroup(aggregates)
           kind == IF \E g \in aggregates : g.kind = "person" THEN "person" ELSE "unknown"
           population == [newest EXCEPT
                !.key = <<"area-population", a>>, !.kind = kind,
                !.min = residue.min, !.max = residue.max, !.sources = sources,
                !.observer = Nothing]
<1>1. /\ \A g \in G : IsReported(E, g)
      /\ HaveKeys(G)
  BY GroupsAreReported DEF HaveKeys, IsReported, Key
<1>2. specific \subseteq G /\ aggregates \subseteq G
  BY DEF Tracks, OfRoom
<1>3. \A g \in aggregates : g.target = Nothing /\ InRoom(g.loc)
  BY DEF Tracks, OfRoom
<1>4. sources \in SUBSET Name
  BY <1>1, <1>2 DEF IsReported
<1>5. ASSUME aggregates # {} PROVE IsReported(E, population)
  <2>1. newest \in aggregates
    <3>1. HaveKeys(aggregates)
      BY <1>1, <1>2 DEF HaveKeys
    <3>2. \A g \in aggregates : g.loc \in Claim /\ g.loc # Nothing
      BY <1>1, <1>2, <1>3 DEF IsReported, InRoom
    <3> HIDE DEF aggregates
    <3> QED
      BY <1>5, <3>1, <3>2, NewestGroupExists
  <2> HIDE DEF aggregates, newest, residue, sources, kind
  <2>2. newest = GroupFields(newest) /\ IsReported(E, newest) /\ newest.target = Nothing
    BY <1>1, <1>2, <1>3, <2>1 DEF IsReported
  <2>3. population = [newest EXCEPT !.key = <<"area-population", a>>, !.kind = kind,
                        !.min = residue.min, !.max = residue.max, !.sources = sources,
                        !.observer = Nothing]
    OBVIOUS
  <2> HIDE DEF population
  <2>4. /\ population = GroupFields(population)
        /\ population.key = <<"area-population", a>> /\ population.loc = newest.loc
        /\ population.target = newest.target /\ population.sources = sources
    BY <2>2, <2>3 DEF GroupFields
  <2>5. population.key \in {Classes[i] : i \in 1 .. 4} \X Name /\ population.key[1] # "target"
    <3>1. a \in Name
      BY NamesAssumption DEF Name
    <3>2. Classes[1] = "area-population" /\ "area-population" # "target"
      BY DEF Classes
    <3> QED
      BY <2>4, <3>1, <3>2
  <2> QED
    BY <1>4, <2>2, <2>4, <2>5 DEF IsReported, Vouches
<1>6. RoomPopulation(G, a) =
        IF aggregates = {} THEN specific
        ELSE IF residue.max = 0 THEN {[g EXCEPT !.sources = @ \cup sources] : g \in specific}
        ELSE specific \cup {population}
  BY DEF RoomPopulation
<1>7. \A g \in specific : IsReported(E, [g EXCEPT !.sources = @ \cup sources])
  <2> HIDE DEF specific, sources
  <2> QED
    BY <1>1, <1>2, <1>4, WithSources
<1> HIDE DEF specific, aggregates, residue, sources, population
<1> QED
  BY <1>1, <1>2, <1>5, <1>6, <1>7

\* So are the groups of all rooms, reconciled.
LEMMA ReconciledIsReported ==
    ASSUME NEW s, IsScene(s)
    PROVE  \A g \in Reconciled(Groups(s.active)) : IsReported(s.active, g)
BY GroupsAreReported, RoomPopulationIsReported DEF Reconciled

\* A group that is moved to the floor is in no room any more.
LEMMA GuardedIsReported ==
    ASSUME NEW E, NEW G, \A g \in G : IsReported(E, g)
    PROVE  \A g \in Guarded(G) : IsReported(E, g)
<1>1. ASSUME NEW g \in G, InRoom(g.loc)
      PROVE  IsReported(E, [g EXCEPT !.loc = [@ EXCEPT !.place = FloorOf[g.loc.place], !.q = 0,
                !.rooms = {g.loc.place} \cup {p.place : p \in Conflicting(g)}]])
  <2> DEFINE rooms == {g.loc.place} \cup {p.place : p \in Conflicting(g)}
             l == [g.loc EXCEPT !.place = FloorOf[g.loc.place], !.q = 0, !.rooms = rooms]
             h == [g EXCEPT !.loc = l]
  <2>1. g = GroupFields(g) /\ g.loc \in Claim /\ g.loc.place \in Area
    BY <1>1 DEF IsReported, InRoom
  <2>2. rooms \in SUBSET Area
    BY <2>1 DEF Conflicting, NextTo, InRoom
  <2> HIDE DEF rooms
  <2>3. l = [g.loc EXCEPT !.place = FloorOf[g.loc.place], !.q = 0, !.rooms = rooms]
    OBVIOUS
  <2>4. FloorOf[g.loc.place] \in Floor /\ FloorOf[g.loc.place] \notin Area
    BY <2>1, PlaceAssumption
  <2> HIDE DEF l
  <2>5. l \in Claim /\ ~InRoom(l)
    <3> DEFINE k == g.loc
    <3>1. /\ k = [place |-> k.place, rooms |-> k.rooms, q |-> k.q, by |-> k.by, age |-> k.age]
          /\ k.age \in 0 .. MaxAge
          /\ k.by \in {"measured", "wifi_connection", "gps_device_home", "wifi_ap_proximity"}
      BY <2>1, ClaimFields
    <3>2. l = [place |-> FloorOf[k.place], rooms |-> rooms, q |-> 0, by |-> k.by, age |-> k.age]
      <4> HIDE DEF k
      <4>1. l = [k EXCEPT !.place = FloorOf[k.place], !.q = 0, !.rooms = rooms]
        BY <2>3 DEF k
      <4> QED
        BY <3>1, <4>1
    <3> QED
      BY <2>2, <2>4, <3>1, <3>2 DEF Claim, InRoom, High
  <2>6. h = [key |-> g.key, kind |-> g.kind, loc |-> l, min |-> g.min, max |-> g.max,
             sources |-> g.sources, target |-> g.target, coverage |-> g.coverage,
             observer |-> g.observer]
    BY <2>1 DEF GroupFields
  <2> HIDE DEF h
  <2>7. h = GroupFields(h) /\ h.key = g.key /\ h.loc = l /\ h.target = g.target
        /\ h.sources = g.sources
    BY <2>6 DEF GroupFields
  <2>8. IsReported(E, h)
    BY <2>5, <2>7 DEF IsReported
  <2> QED
    BY <2>8 DEF h, l, rooms
<1>2. ASSUME NEW h \in Guarded(G)
      PROVE  \E g \in G :
                \/ h = g
                \/ /\ InRoom(g.loc)
                   /\ h = [g EXCEPT !.loc = [@ EXCEPT !.place = FloorOf[g.loc.place], !.q = 0,
                             !.rooms = {g.loc.place} \cup {p.place : p \in Conflicting(g)}]]
  BY <1>2 DEF Guarded
<1> QED
  BY <1>1, <1>2

\* Every group of the loop is reported.
LEMMA GroupsOfAreReported ==
    ASSUME NEW s, IsScene(s)
    PROVE  \A g \in GroupsOf(s) : IsReported(s.active, g)
BY ReconciledIsReported, GuardedIsReported DEF GroupsOf
-----------------------------------------------------------------------------
\* The best of some bodies is one of them.
LEMMA BestIsThere ==
    ASSUME NEW s, IsScene(s), NEW w
    PROVE  \/ BestLoc(Identified(s.active, w)) = Nothing
           \/ \E o \in Identified(s.active, w) :
                 o.loc \in Claim /\ o.loc # Nothing /\ BestLoc(Identified(s.active, w)) = o.loc
<1> DEFINE S == Identified(s.active, w)
           located == {o \in S : o.loc # Nothing}
           better(o, p) == o.loc.q > p.loc.q \/ (o.loc.q = p.loc.q /\ o.loc.age <= p.loc.age)
           best == {o \in located : \A p \in located : better(o, p)}
<1>1. S \subseteq s.active
  BY DEF Identified
<1>2. \A o \in located : /\ o.loc \in Claim
                         /\ o.loc.q \in 0 .. 3 /\ o.loc.age \in Nat
  <2> TAKE o \in located
  <2>1. o.loc \in Claim
    BY <1>1, SceneObservations, ObservationFields
  <2> QED
    BY <2>1, ClaimFields DEF High
<1>3. BestLoc(S) = IF located = {} THEN Nothing ELSE FirstOf(best).loc
  BY DEF BestLoc
<1>4. SUFFICES ASSUME located # {} PROVE FirstOf(best) \in located
  BY <1>2, <1>3
<1> DEFINE doubt == [o \in located |-> 3 - o.loc.q]
<1>5. PICK x \in located : \A o \in located : doubt[x] <= doubt[o]
  <2>1. \A o \in located : doubt[o] \in Nat
    BY <1>2
  <2> HIDE DEF doubt, located
  <2> QED
    BY <1>4, <2>1, LeastMember
<1> DEFINE T == {o \in located : o.loc.q = x.loc.q}
           age == [o \in T |-> o.loc.age]
<1>6. PICK y \in T : \A o \in T : age[y] <= age[o]
  <2>1. \A o \in T : age[o] \in Nat
    BY <1>2
  <2>2. T # {}
    OBVIOUS
  <2> HIDE DEF age, T
  <2> QED
    BY <2>1, <2>2, LeastMember
<1>7. y \in best
  <2> SUFFICES ASSUME NEW p \in located PROVE better(y, p)
    BY <1>6
  <2>1. doubt[x] <= doubt[p] /\ doubt[x] = 3 - x.loc.q /\ doubt[p] = 3 - p.loc.q
    BY <1>5
  <2>2. x.loc.q \in 0 .. 3 /\ p.loc.q \in 0 .. 3 /\ y.loc.q = x.loc.q
    BY <1>2, <1>5, <1>6
  <2>3. y.loc.q >= p.loc.q
    BY <2>1, <2>2
  <2>4. p.loc.q = y.loc.q => y.loc.age <= p.loc.age
    BY <1>6, <2>2
  <2> QED
    BY <2>2, <2>3, <2>4
<1>8. best # {} /\ HaveNames(best) /\ best \subseteq located
  BY <1>1, <1>7 DEF IsScene, HaveNames
<1> HIDE DEF best
<1> QED
  BY <1>8, FirstExists

\* Who is identified best.
LEMMA MaxIsThere ==
    ASSUME NEW N, N \subseteq 0 .. 3, N # {}
    PROVE  Max(N) \in N /\ \A n \in N : n <= Max(N)
<1> DEFINE rest == [n \in N |-> 3 - n]
<1>1. PICK x \in N : \A n \in N : rest[x] <= rest[n]
  <2>1. \A n \in N : rest[n] \in Nat
    OBVIOUS
  <2> HIDE DEF rest
  <2> QED
    BY <2>1, LeastMember
<1>2. \A n \in N : x >= n
  <2> TAKE n \in N
  <2>1. rest[x] <= rest[n] /\ x \in 0 .. 3 /\ n \in 0 .. 3
    BY <1>1
  <2> QED
    BY <2>1
<1>3. Max(N) \in N /\ \A n \in N : Max(N) >= n
  BY <1>2 DEF Max
<1> QED
  BY <1>3

-----------------------------------------------------------------------------
\* What keeps the clock of a place, and who stands beyond doubt.
Earned(s, w, l) ==
    \/ l = Nothing \/ AtHome(l)
    \/ \E o \in s.active : /\ o.kind # "device" /\ o.loc # Nothing
                            /\ o.loc.place = l.place /\ o.loc.age = l.age
    \/ /\ known[w] # Nothing /\ known[w].loc # Nothing /\ l.age < Lifetime
       /\ known[w].loc.place = l.place /\ known[w].loc.age = l.age

Best(s, w) == BestLoc(Identified(s.active, w))

Firm(s, w) ==
    /\ InRoom(Best(s, w)) /\ \E o \in Identified(s.active, w) : o.idq = High
    /\ \/ known[w] = Nothing \/ known[w].loc = Nothing
       \/ known[w].loc.age >= Best(s, w).age

Stands(s, w, c) ==
    /\ SameArea(c.loc, Best(s, w)) /\ c.status # "continued"
    /\ c.direct /\ c.idq = High /\ c.ids \cap c.locs # {}

Followed(s, c) ==
    \E o \in Anonymous(s.active) : o.target # Nothing /\ SameArea(o.loc, c.loc)

\* What holds of a person from the first group to the last, those of tracked
\* objects, whose keys are of class "target".
Justified(s, w, c, class) ==
    /\ c \in Found /\ c # Nothing
    /\ Earned(s, w, c.loc)
    /\ Firm(s, w) => Stands(s, w, c) \/ (class = "target" /\ Followed(s, c))

Remembers == known \in [Person -> Hypotheses \cup {Nothing}]

\* The fields of a person found.
FoundRecord(c) ==
    [loc |-> c.loc, idq |-> c.idq, direct |-> c.direct, device |-> c.device,
     status |-> c.status, radios |-> c.radios, last |-> c.last, cleared |-> c.cleared,
     ids |-> c.ids, locs |-> c.locs]

\* A person found is made of them.
LEMMA FoundEquals == ASSUME NEW c \in Found PROVE c = FoundRecord(c)
BY DEF Found, FoundRecord

\* They have these types.
LEMMA FoundFields ==
    ASSUME NEW c \in Found
    PROVE  /\ c.loc \in Claim \cup {Nothing} /\ c.idq \in 0 .. High
           /\ c.direct \in BOOLEAN /\ c.device \in BOOLEAN /\ c.status \in Status
           /\ c.radios \in SUBSET Claim /\ c.last \in Claim \cup {Nothing}
           /\ c.cleared \in SUBSET Name /\ c.ids \in SUBSET Name /\ c.locs \in SUBSET Name
BY DEF Found

\* The fields of what is remembered of a person.
LEMMA HypothesisFields ==
    ASSUME NEW c \in Hypotheses
    PROVE  /\ c.loc \in Claim \cup {Nothing} /\ c.status \in Status
           /\ c.last \in Claim \cup {Nothing}
           /\ c.cleared \in SUBSET Name /\ c.locs \in SUBSET Name
BY DEF Hypotheses

\* Devices report locations.
LEMMA RadiosPlace ==
    ASSUME NEW s, IsScene(s), NEW w
    PROVE  RadioLocs(s.active, w) \in SUBSET Claim
<1>1. \A o \in Radios(s.active, w) : o.loc \in Claim \cup {Nothing}
  BY SceneObservations, ObservationFields DEF Radios
<1> QED
  BY <1>1 DEF RadioLocs

\* A body is where it is seen.
LEMMA BodiesAreFound ==
    ASSUME NEW s, IsScene(s), NEW w, Identified(s.active, w) # {}
    PROVE  LET c == FromBody(s.active, w)
           IN  /\ c \in Found /\ Earned(s, w, c.loc) /\ c.loc = Best(s, w)
               /\ c.status = "resolved" /\ c.direct
               /\ InRoom(Best(s, w)) => c.ids \cap c.locs # {} /\ ~c.device
               /\ (\E o \in Identified(s.active, w) : o.idq = High) => c.idq = High
<1> DEFINE E == s.active
           S == Identified(E, w)
           l == BestLoc(S)
           idq == Max({o.idq : o \in S})
           device == Radios(E, w) # {} /\ ~InRoom(l)
           radios == RadioLocs(E, w)
           ids == {o.source : o \in S}
           locs == {o.source : o \in {o \in S : l # Nothing /\ o.loc = l}}
                     \cup {o.source : o \in {o \in Radios(E, w) : Agrees(o, l, idq)}}
           c == FromBody(E, w)
<1>1. /\ S \subseteq E /\ \A o \in S : o \in Observation /\ o.kind = "person"
      /\ Radios(E, w) \subseteq E /\ \A o \in Radios(E, w) : o \in Observation
  BY SceneObservations DEF Identified, Radios
<1>2. l = Nothing \/ \E o \in S : o.loc \in Claim /\ o.loc # Nothing /\ l = o.loc
  BY BestIsThere
<1>3. idq \in 0 .. High /\ ((\E o \in S : o.idq = High) => idq = High)
  <2> DEFINE N == {o.idq : o \in S}
  <2>1. N \subseteq 0 .. 3 /\ N # {}
    BY <1>1, ObservationFields DEF High
  <2>2. Max(N) \in N /\ \A n \in N : n <= Max(N)
    <3> HIDE DEF N
    <3> QED
      BY <2>1, MaxIsThere
  <2>3. Max(N) \in 0 .. 3
    BY <2>1, <2>2
  <2>4. (\E o \in S : o.idq = 3) => 3 <= Max(N)
    BY <2>2
  <2> HIDE DEF N
  <2>5. Max(N) = idq
    BY DEF N
  <2> HIDE DEF idq
  <2> QED
    BY <2>3, <2>4, <2>5 DEF High
<1>4. radios \in SUBSET Claim
  BY RadiosPlace
<1>5. ids \in SUBSET Name /\ locs \in SUBSET Name
  BY <1>1, ObservationFields
<1>6. l # Nothing => ids \cap locs # {}
  BY <1>2
<1>7. Earned(s, w, l)
  BY <1>1, <1>2 DEF Earned
<1>8. c = [loc |-> l, idq |-> idq, direct |-> TRUE, device |-> device, status |-> "resolved",
           radios |-> radios, last |-> Nothing, cleared |-> {}, ids |-> ids, locs |-> locs]
  BY DEF FromBody
<1>9. device \in BOOLEAN /\ (InRoom(l) => ~device /\ l # Nothing)
  BY DEF InRoom
<1>10. l = Best(s, w)
  BY DEF Best
<1> HIDE DEF l, idq, device, radios, ids, locs, c
<1>11. c \in Found
  BY <1>2, <1>3, <1>4, <1>5, <1>8, <1>9 DEF Found, Status
<1> QED
  BY <1>3, <1>6, <1>7, <1>8, <1>9, <1>10, <1>11 DEF c

\* A device places its owner at home.
LEMMA RadiosAreFound ==
    ASSUME NEW s, IsScene(s), NEW w, Radios(s.active, w) # {}
    PROVE  FromRadio(s.active, w) \in Found /\ AtHome(FromRadio(s.active, w).loc)
<1> DEFINE E == s.active
           S == Radios(E, w)
           o == FirstOf(S)
           age == AgeOf(o)
           l == [place |-> Home, rooms |-> {}, q |-> Low, by |-> "measured", age |-> age]
           radios == RadioLocs(E, w)
           c == FromRadio(E, w)
<1>1. o \in S
  <2>1. HaveNames(S)
    BY DEF Radios, IsScene, HaveNames
  <2> HIDE DEF S
  <2> QED
    BY <2>1, FirstExists DEF S
<1>2. o \in Observation
  BY <1>1, SceneObservations DEF Radios
<1> HIDE DEF o
<1>3. age \in 0 .. MaxAge
  BY <1>2, ObservationFields, ClaimFields DEF AgeOf
<1>4. o.source \in Name
  BY <1>2, ObservationFields
<1>5. radios \in SUBSET Claim
  BY RadiosPlace
<1> HIDE DEF age
<1>6. l \in Claim /\ AtHome(l)
  <2>1. l \in Claim
    BY <1>3 DEF Claim, Low, High
  <2>2. l # Nothing
    BY <2>1, NothingAssumption
  <2> QED
    BY <2>1, <2>2 DEF AtHome
<1>7. c = [loc |-> l, idq |-> Medium, direct |-> FALSE, device |-> TRUE,
           status |-> "home_from_device", radios |-> radios, last |-> Nothing, cleared |-> {},
           ids |-> {o.source}, locs |-> {o.source}]
  BY DEF FromRadio, o, age
<1> HIDE DEF l, radios, c
<1>8. c \in Found /\ c.loc = l
  BY <1>4, <1>5, <1>6, <1>7 DEF Found, Status, Medium, High
<1> QED
  BY <1>6, <1>8 DEF c

\* A phone does so too.
LEMMA WeakAreFound ==
    ASSUME NEW s, IsScene(s), NEW w, Weak(s.active, w) # {}
    PROVE  FromWeak(s.active, w) \in Found /\ AtHome(FromWeak(s.active, w).loc)
<1> DEFINE E == s.active
           S == Weak(E, w)
           o == FirstOf(S)
           c == FromWeak(E, w)
<1>1. o \in S
  <2>1. HaveNames(S)
    BY DEF Weak, IsScene, HaveNames
  <2> HIDE DEF S
  <2> QED
    BY <2>1, FirstExists DEF S
<1>2. o \in Observation /\ o \in E /\ o.loc # Nothing /\ AtHome(o.loc)
  BY <1>1, SceneObservations DEF Weak, IsScene
<1>3. c = [loc |-> o.loc, idq |-> Medium, direct |-> FALSE, device |-> FALSE,
           status |-> "possible", radios |-> {}, last |-> Nothing, cleared |-> {},
           ids |-> {o.source}, locs |-> {o.source}]
  BY DEF FromWeak
<1> HIDE DEF o, c
<1>4. o.source \in Name /\ o.loc \in Claim
  BY <1>2, ObservationFields
<1>5. c \in Found /\ c.loc = o.loc
  BY <1>3, <1>4 DEF Found, Status, Medium, High
<1> QED
  BY <1>2, <1>5 DEF c

\* Only bodies are identified beyond doubt.
LEMMA FirmIsIdentified ==
    ASSUME NEW s, NEW w, Firm(s, w)
    PROVE  Identified(s.active, w) # {}
BY DEF Firm

\* Whom the evidence identifies is justified, and a firm body is where it is seen best.
LEMMA CandidatesAreJustified ==
    ASSUME NEW s, IsScene(s), NEW w
    PROVE  \/ Candidate(s.active, w) = Nothing /\ Identified(s.active, w) = {}
           \/ /\ Justified(s, w, Candidate(s.active, w), "early")
              /\ Firm(s, w) => Candidate(s.active, w).loc = Best(s, w)
                               /\ ~Candidate(s.active, w).device
<1> DEFINE c == Candidate(s.active, w)
<1>1. CASE Identified(s.active, w) # {}
  <2>1. c = FromBody(s.active, w)
    BY <1>1 DEF Candidate
  <2> HIDE DEF c
  <2>2. /\ c \in Found /\ Earned(s, w, c.loc) /\ c.loc = Best(s, w)
        /\ c.status = "resolved" /\ c.direct
        /\ InRoom(Best(s, w)) => c.ids \cap c.locs # {} /\ ~c.device
        /\ (\E o \in Identified(s.active, w) : o.idq = High) => c.idq = High
    BY <1>1, <2>1, BodiesAreFound
  <2>3. c # Nothing
    BY <2>2, NothingAssumption
  <2>4. Firm(s, w) => Stands(s, w, c)
    BY <2>2 DEF Firm, Stands, SameArea
  <2>5. Justified(s, w, c, "early")
    BY <2>2, <2>3, <2>4 DEF Justified
  <2> QED
    BY <2>2, <2>5 DEF Firm, c
<1>2. CASE Identified(s.active, w) = {} /\ Radios(s.active, w) # {}
  <2>1. c = FromRadio(s.active, w)
    BY <1>2 DEF Candidate
  <2>2. c \in Found /\ AtHome(c.loc) /\ c # Nothing
    BY <1>2, <2>1, RadiosAreFound, NothingAssumption
  <2> HIDE DEF c
  <2>3. Justified(s, w, c, "early")
    BY <1>2, <2>2, FirmIsIdentified DEF Justified, Earned
  <2> QED
    BY <1>2, <2>3, FirmIsIdentified DEF c
<1>3. CASE Identified(s.active, w) = {} /\ Radios(s.active, w) = {} /\ Weak(s.active, w) # {}
  <2>1. c = FromWeak(s.active, w)
    BY <1>3 DEF Candidate
  <2>2. c \in Found /\ AtHome(c.loc) /\ c # Nothing
    BY <1>3, <2>1, WeakAreFound, NothingAssumption
  <2> HIDE DEF c
  <2>3. Justified(s, w, c, "early")
    BY <1>3, <2>2, FirmIsIdentified DEF Justified, Earned
  <2> QED
    BY <1>3, <2>3, FirmIsIdentified DEF c
<1>4. CASE Identified(s.active, w) = {} /\ Radios(s.active, w) = {} /\ Weak(s.active, w) = {}
  BY <1>4 DEF Candidate
<1> QED
  BY <1>1, <1>2, <1>3, <1>4

-----------------------------------------------------------------------------
\* What is remembered lends a place for its lifetime, and none to a body that
\* stands where nothing newer is remembered.
LEMMA MemoryIsJustified ==
    ASSUME NEW s, IsScene(s), Remembers, NEW w \in Person
    PROVE  LET c == Candidate(s.active, w)
           IN  \/ WithMemory(s, w, c) = Nothing /\ Identified(s.active, w) = {}
               \/ Justified(s, w, WithMemory(s, w, c), "early")
<1> DEFINE c == Candidate(s.active, w)
           p == known[w]
           d == StillCleared(p, c)
           clears == ClearedSupport(s, w, p)
<1>1. SUFFICES ASSUME c # Nothing, p # Nothing
               PROVE  Justified(s, w, Remembering(s, w, p, c), "early")
  BY CandidatesAreJustified DEF WithMemory
<1>2. /\ Justified(s, w, c, "early")
      /\ Firm(s, w) => c.loc = Best(s, w) /\ ~c.device
  BY <1>1, CandidatesAreJustified
<1>3. p \in Hypotheses
  BY <1>1 DEF Remembers
<1> HIDE DEF c, p
<1>4. /\ d \in Found /\ d.loc = c.loc /\ d.device = c.device /\ d.direct = c.direct
      /\ d.idq = c.idq /\ d.ids = c.ids /\ d.locs = c.locs
      /\ d.status = c.status \/ d.status = "location_cleared"
  <2>1. c \in Found
    BY <1>2 DEF Justified
  <2>2. CASE AtHome(c.loc) /\ p.last # Nothing /\ p.last.age < Lifetime
    <3>1. d = [c EXCEPT !.last = p.last, !.cleared = @ \cup p.cleared,
                        !.status = "location_cleared"]
      BY <2>2 DEF StillCleared
    <3> HIDE DEF d
    <3>2. d = [loc |-> c.loc, idq |-> c.idq, direct |-> c.direct, device |-> c.device,
               status |-> "location_cleared", radios |-> c.radios, last |-> p.last,
               cleared |-> c.cleared \cup p.cleared, ids |-> c.ids, locs |-> c.locs]
      <4>1. c = FoundRecord(c)
        BY <2>1, FoundEquals
      <4> QED
        BY <3>1, <4>1 DEF FoundRecord
    <3> QED
      BY <1>3, <2>1, <3>2, FoundFields, HypothesisFields DEF Found, Status
  <2>3. CASE ~ (AtHome(c.loc) /\ p.last # Nothing /\ p.last.age < Lifetime)
    BY <2>1, <2>3 DEF StillCleared
  <2> QED
    BY <2>2, <2>3
<1>5. clears \in SUBSET Name
  <2>1. \A o \in s.clears : o.source \in Name
    BY ObservationFields DEF IsScene
  <2> QED
    BY <2>1 DEF ClearedSupport
<1> HIDE DEF d, clears
<1>6. d # Nothing
  BY <1>4, NothingAssumption
<1>7. Justified(s, w, d, "early")
  BY <1>2, <1>4, <1>6 DEF Justified, Stands
<1>8. ASSUME AtHome(d.loc), p.loc # Nothing
      PROVE  Justified(s, w, [d EXCEPT !.status = "location_cleared", !.last = p.loc,
                                  !.cleared = @ \cup clears], "early")
  <2> DEFINE e == [d EXCEPT !.status = "location_cleared", !.last = p.loc,
                            !.cleared = @ \cup clears]
  <2>1. e = [d EXCEPT !.status = "location_cleared", !.last = p.loc,
                      !.cleared = @ \cup clears]
    OBVIOUS
  <2> HIDE DEF e
  <2>2. e = [loc |-> d.loc, idq |-> d.idq, direct |-> d.direct, device |-> d.device,
             status |-> "location_cleared", radios |-> d.radios, last |-> p.loc,
             cleared |-> d.cleared \cup clears, ids |-> d.ids, locs |-> d.locs]
    <3>1. d = FoundRecord(d)
      BY <1>4, FoundEquals
    <3> QED
      BY <2>1, <3>1 DEF FoundRecord
  <2>3. e \in Found
    BY <1>3, <1>4, <1>5, <2>2, FoundFields, HypothesisFields DEF Found, Status
  <2>4. e # Nothing
    BY <2>3, NothingAssumption
  <2>5. Justified(s, w, e, "early")
    BY <1>7, <2>2, <2>3, <2>4 DEF Justified, Stands
  <2> QED
    BY <2>5 DEF e
<1>9. ASSUME p.loc # Nothing, ~ (p.loc.age >= Lifetime), d.loc # Nothing,
             Outweighs(s, w, p, d),
             p.loc.age < d.loc.age \/ (AtHome(d.loc) /\ InRoom(p.loc))
      PROVE  Justified(s, w, Continued(p, d), "early")
  <2> DEFINE e == Continued(p, d)
  <2>1. e = [d EXCEPT !.loc = p.loc, !.locs = p.locs, !.status = "continued", !.device = FALSE]
    BY DEF Continued
  <2> HIDE DEF e
  <2>2. e = [loc |-> p.loc, idq |-> d.idq, direct |-> d.direct, device |-> FALSE,
             status |-> "continued", radios |-> d.radios, last |-> d.last,
             cleared |-> d.cleared, ids |-> d.ids, locs |-> p.locs]
    <3>1. d = FoundRecord(d)
      BY <1>4, FoundEquals
    <3> QED
      BY <2>1, <3>1 DEF FoundRecord
  <2>3. e \in Found
    BY <1>3, <1>4, <2>2, FoundFields, HypothesisFields DEF Found, Status
  <2>4. e # Nothing
    BY <2>3, NothingAssumption
  <2>5. p.loc \in Claim /\ p.loc.age \in Nat
    BY <1>3, <1>9, HypothesisFields, ClaimFields
  <2>6. Earned(s, w, e.loc)
    <3>1. p.loc.age < Lifetime
      BY <1>9, <2>5, WindowsAssumption
    <3> QED
      BY <1>1, <1>9, <2>2, <3>1 DEF Earned, p
  <2>7. ~ Firm(s, w)
    <3> SUFFICES ASSUME Firm(s, w) PROVE FALSE
      OBVIOUS
    <3>1. d.loc = Best(s, w) /\ InRoom(d.loc)
      BY <1>2, <1>4 DEF Firm
    <3>2. p.loc.age >= d.loc.age
      BY <1>1, <1>9, <3>1 DEF Firm, p
    <3>3. d.loc \in Claim /\ d.loc.age \in Nat
      BY <1>4, <3>1, FoundFields, ClaimFields DEF InRoom
    <3>4. ~ AtHome(d.loc)
      BY <3>1, PlaceAssumption DEF AtHome, InRoom
    <3> QED
      BY <1>9, <2>5, <3>2, <3>3, <3>4
  <2>8. Justified(s, w, e, "early")
    BY <2>3, <2>4, <2>6, <2>7 DEF Justified
  <2> QED
    BY <2>8 DEF e
<1>10. Remembering(s, w, p, c) =
         IF p.loc = Nothing \/ p.loc.age >= Lifetime THEN d
         ELSE IF clears # {} /\ AtHome(d.loc)
         THEN [d EXCEPT !.status = "location_cleared", !.last = p.loc, !.cleared = @ \cup clears]
         ELSE IF /\ d.loc # Nothing /\ Outweighs(s, w, p, d)
                 /\ \/ p.loc.age < d.loc.age
                    \/ AtHome(d.loc) /\ InRoom(p.loc)
         THEN Continued(p, d)
         ELSE d
  BY DEF Remembering, d, clears
<1> QED
  BY <1>7, <1>8, <1>9, <1>10

-----------------------------------------------------------------------------
\* What a group does to a person.
LEMMA SupportKeepsJustified ==
    ASSUME NEW s, NEW w, NEW c, NEW class, Justified(s, w, c, class), NEW d \in Found,
           d.loc = c.loc \/ (InRoom(c.loc) /\ d.loc # Nothing
                             /\ d.loc.place = c.loc.place /\ d.loc.age = c.loc.age),
           d.direct = c.direct, d.idq = c.idq, d.ids = c.ids, c.locs \subseteq d.locs,
           d.status = c.status \/ d.status # "continued"
    PROVE  Justified(s, w, d, class)
<1>1. d # Nothing
  BY NothingAssumption
<1>2. Earned(s, w, d.loc)
  BY PlaceAssumption DEF Justified, Earned, InRoom, AtHome
<1>3. Stands(s, w, c) => Stands(s, w, d)
  BY DEF Stands, SameArea, InRoom
<1>4. Followed(s, c) => Followed(s, d)
  BY DEF Followed, SameArea, InRoom
<1> QED
  BY <1>1, <1>2, <1>3, <1>4 DEF Justified

\* A person whose device is elsewhere stays where he is.
LEMMA SeparatedIsJustified ==
    ASSUME NEW s, NEW w, NEW c, NEW class, Justified(s, w, c, class)
    PROVE  Justified(s, w, [c EXCEPT !.status = "device_person_separation_possible"], class)
<1> DEFINE d == [c EXCEPT !.status = "device_person_separation_possible"]
<1>1. d = [c EXCEPT !.status = "device_person_separation_possible"]
  OBVIOUS
<1>2. c \in Found
  BY DEF Justified
<1>3. c = FoundRecord(c)
  BY <1>2, FoundEquals
<1> HIDE DEF d
<1>4. d = [loc |-> c.loc, idq |-> c.idq, direct |-> c.direct, device |-> c.device,
           status |-> "device_person_separation_possible", radios |-> c.radios,
           last |-> c.last, cleared |-> c.cleared, ids |-> c.ids, locs |-> c.locs]
  BY <1>1, <1>3 DEF FoundRecord
<1>5. d \in Found
  BY <1>2, <1>4, FoundFields DEF Found, Status
<1>6. Justified(s, w, d, class)
  BY <1>4, <1>5, SupportKeepsJustified
<1> QED
  BY <1>6 DEF d

\* So does a person whom a group supports; only the quality of the place changes.
LEMMA SupportedIsJustified ==
    ASSUME NEW s, IsScene(s), NEW w, NEW c, NEW class, Justified(s, w, c, class),
           NEW g, IsReported(s.active, g), InRoom(c.loc), NEW alone
    PROVE  Justified(s, w, Supported(s, c, w, g, alone), class)
<1> DEFINE path == alone /\ PathSupported(s, c, w, g)
           seen == /\ c.status \in {"resolved", "correlated_movement"}
                   /\ c.loc.q >= Medium /\ g.loc.q >= Medium /\ Gap(g.loc, c.loc) <= Window
           phones == {o \in AccessPoints(s, w) : o.ap # Nothing}
           l == IF path THEN [c.loc EXCEPT !.q = Medium] ELSE c.loc
           locs == c.locs \cup (IF seen \/ path THEN g.sources ELSE {})
                     \cup (IF path THEN {o.source : o \in phones} ELSE {})
           d == Supported(s, c, w, g, alone)
<1>1. d = [c EXCEPT !.loc = l, !.locs = locs]
  BY DEF Supported
<1>2. c \in Found
  BY DEF Justified
<1>3. locs \in SUBSET Name
  <2>1. {o.source : o \in phones} \in SUBSET Name
    BY SceneObservations, ObservationFields DEF AccessPoints
  <2>2. g.sources \in SUBSET Name /\ c.locs \in SUBSET Name
    BY <1>2, FoundFields DEF IsReported
  <2> HIDE DEF phones, seen, path
  <2> QED
    BY <2>1, <2>2
<1>4. l \in Claim /\ l.place = c.loc.place /\ l.age = c.loc.age
  <2> DEFINE k == c.loc
             m == [k EXCEPT !.q = Medium]
  <2>1. k \in Claim
    BY <1>2, FoundFields DEF InRoom
  <2>2. m = [k EXCEPT !.q = Medium]
    OBVIOUS
  <2> HIDE DEF k, m
  <2>3. m \in Claim /\ m.place = k.place /\ m.age = k.age
    BY <2>1, <2>2 DEF Claim, Medium, High
  <2>4. l = m \/ l = k
    BY DEF m, k
  <2> HIDE DEF l
  <2> QED
    BY <2>1, <2>3, <2>4 DEF k
<1>5. c = FoundRecord(c)
  BY <1>2, FoundEquals
<1>6. c.locs \subseteq locs
  OBVIOUS
<1> HIDE DEF d, l, locs
<1>7. d = [loc |-> l, idq |-> c.idq, direct |-> c.direct, device |-> c.device,
           status |-> c.status, radios |-> c.radios,
           last |-> c.last, cleared |-> c.cleared, ids |-> c.ids, locs |-> locs]
  BY <1>1, <1>5 DEF FoundRecord
<1>8. d \in Found
  BY <1>2, <1>3, <1>4, <1>7, FoundFields DEF Found
<1>9. l # Nothing
  BY <1>4, NothingAssumption
<1>10. Justified(s, w, d, class)
  BY <1>4, <1>6, <1>7, <1>8, <1>9, SupportKeepsJustified
<1> QED
  BY <1>10 DEF d

\* Rooms next to each other are two.
LEMMA NextToDiffers ==
    ASSUME NEW l, NEW m, NextTo(l, m)
    PROVE  InRoom(l) /\ InRoom(m) /\ l.place # m.place
<1>1. Cardinality({l.place, m.place}) = 2
  BY PlaceAssumption DEF NextTo
<1>2. l.place = m.place => {l.place, m.place} = {l.place}
  OBVIOUS
<1>3. Cardinality({l.place}) = 1
  BY FS_Singleton
<1> QED
  BY <1>1, <1>2, <1>3 DEF NextTo

\* Who moves goes where a group is reported; a firm body only with a tracked object.
LEMMA MovedIsJustified ==
    ASSUME NEW s, NEW w, NEW c, NEW g, IsReported(s.active, g), InRoom(g.loc),
           Justified(s, w, c, g.key[1]), NEW exact,
           NextTo(c.loc, g.loc) \/ OnFloor(c.loc) \/ c.status = "continued"
    PROVE  Justified(s, w, Moved(c, g, exact), g.key[1])
<1> DEFINE class == g.key[1]
           l == IF exact \/ g.loc.q <= Medium THEN g.loc ELSE [g.loc EXCEPT !.q = Medium]
           status == IF exact THEN "correlated_movement" ELSE "ambiguous_movement"
           d == Moved(c, g, exact)
<1>1. CASE Stays(c, g)
  BY <1>1 DEF Moved
<1>2. CASE ~Stays(c, g)
  <2>1. d = [c EXCEPT !.loc = l, !.last = Nothing, !.cleared = {}, !.locs = g.sources,
                      !.status = status]
    BY <1>2 DEF Moved
  <2>2. c \in Found
    BY DEF Justified
  <2>3. status \in Status /\ status # "continued"
    BY DEF Status
  <2>4. l \in Claim /\ l.place = g.loc.place /\ l.age = g.loc.age /\ l # Nothing
    <3> DEFINE k == g.loc
               m == [k EXCEPT !.q = Medium]
    <3>1. k \in Claim
      BY DEF IsReported, InRoom
    <3>2. m = [k EXCEPT !.q = Medium]
      OBVIOUS
    <3> HIDE DEF k, m
    <3>3. m \in Claim /\ m.place = k.place /\ m.age = k.age
      BY <3>1, <3>2 DEF Claim, Medium, High
    <3>4. l = m \/ l = k
      BY DEF m, k
    <3> HIDE DEF l
    <3> QED
      BY <3>1, <3>3, <3>4, NothingAssumption DEF k
  <2>5. c = FoundRecord(c)
    BY <2>2, FoundEquals
  <2> HIDE DEF d, l, status
  <2>6. d = [loc |-> l, idq |-> c.idq, direct |-> c.direct, device |-> c.device,
             status |-> status, radios |-> c.radios, last |-> Nothing, cleared |-> {},
             ids |-> c.ids, locs |-> g.sources]
    BY <2>1, <2>5 DEF FoundRecord
  <2>7. d \in Found /\ d # Nothing
    <3>1. d \in Found
      BY <2>2, <2>3, <2>4, <2>6, FoundFields DEF Found, IsReported
    <3> QED
      BY <3>1, NothingAssumption
  <2>8. PICK o \in Anonymous(s.active) :
            /\ o.loc # Nothing /\ o.loc.place = g.loc.place /\ o.loc.age = g.loc.age
            /\ g.target # Nothing => o.target # Nothing
    BY DEF IsReported, Vouches
  <2>9. Earned(s, w, d.loc)
    BY <2>4, <2>6, <2>8 DEF Earned, Anonymous
  <2>10. class = "target" => Followed(s, d)
    BY <2>4, <2>6, <2>8 DEF Followed, SameArea, InRoom, IsReported
  <2>11. class # "target" => ~Firm(s, w)
    <3> SUFFICES ASSUME class # "target", Firm(s, w) PROVE FALSE
      OBVIOUS
    <3>0. g.target = Nothing
      BY DEF IsReported
    <3>1. Stands(s, w, c)
      BY DEF Justified
    <3>2. InRoom(c.loc) /\ ~OnFloor(c.loc) /\ c.status # "continued"
      BY <3>1, PlaceAssumption DEF Stands, SameArea, InRoom, OnFloor
    <3>3. c.loc.place # g.loc.place
      BY <3>2, NextToDiffers
    <3> QED
      BY <1>2, <3>0, <3>1, <3>2, <3>3 DEF Stays, Stands
  <2>12. Justified(s, w, d, class)
    BY <2>7, <2>9, <2>10, <2>11 DEF Justified
  <2> QED
    BY <2>12 DEF d
<1> QED
  BY <1>1, <1>2

-----------------------------------------------------------------------------
\* One group after the other.
TallyFields(t) ==
    [people |-> t.people, used |-> t.used, eaten |-> t.eaten, counted |-> t.counted,
     anonymous |-> t.anonymous, n |-> t.n, max |-> t.max, extra |-> t.extra]

AllJustified(s, people, class) ==
    /\ people \in [Person -> Found \cup {Nothing}]
    /\ \A w \in Person :
          \/ people[w] = Nothing /\ Identified(s.active, w) = {}
          \/ Justified(s, w, people[w], class)

Sane(s, t, class) == t = TallyFields(t) /\ AllJustified(s, t.people, class)

\* One person is replaced.
LEMMA OnePersonMoves ==
    ASSUME NEW s, NEW class, NEW people, AllJustified(s, people, class),
           NEW w \in Person, NEW c, Justified(s, w, c, class)
    PROVE  AllJustified(s, [people EXCEPT ![w] = c], class)
BY DEF AllJustified, Justified

\* Separating devices from bodies loses nobody.
LEMMA SeparatedAreJustified ==
    ASSUME NEW s, NEW class, NEW t, AllJustified(s, t.people, class), NEW g
    PROVE  /\ AllJustified(s, Separated(t, g), class)
           /\ \A w \in Present(t) : Separated(t, g)[w] # Nothing
<1> DEFINE apart == {w \in Present(t) : /\ t.people[w].device /\ t.people[w].radios # {}
                                        /\ \A l \in t.people[w].radios : ~SameArea(l, g.loc)}
           all == [w \in Person |-> IF w \in apart
                     THEN [t.people[w] EXCEPT !.status = "device_person_separation_possible"]
                     ELSE t.people[w]]
<1>1. Separated(t, g) = all \/ Separated(t, g) = t.people
  BY DEF Separated
<1>2. apart \subseteq Present(t)
  OBVIOUS
<1>3. ASSUME NEW w \in Person
      PROVE  /\ \/ all[w] = Nothing /\ Identified(s.active, w) = {}
                \/ Justified(s, w, all[w], class)
             /\ w \in Present(t) => all[w] # Nothing
             /\ all[w] \in Found \cup {Nothing}
  <2>1. CASE w \in apart
    <3>1. t.people[w] # Nothing
      BY <1>2, <2>1 DEF Present
    <3>2. Justified(s, w, t.people[w], class)
      BY <3>1 DEF AllJustified
    <3>3. Justified(s, w, [t.people[w] EXCEPT !.status = "device_person_separation_possible"],
               class)
      BY <3>2, SeparatedIsJustified
    <3>4. all[w] = [t.people[w] EXCEPT !.status = "device_person_separation_possible"]
      BY <2>1
    <3> HIDE DEF all
    <3> QED
      BY <3>3, <3>4 DEF Justified
  <2>2. CASE w \notin apart
    <3>1. all[w] = t.people[w]
      BY <2>2
    <3> HIDE DEF all
    <3> QED
      BY <3>1 DEF AllJustified, Present
  <2> QED
    BY <2>1, <2>2
<1>4. AllJustified(s, all, class) /\ \A w \in Present(t) : all[w] # Nothing
  <2>1. all \in [Person -> Found \cup {Nothing}]
    BY <1>3
  <2>2. Present(t) \subseteq Person
    BY DEF Present
  <2> HIDE DEF all
  <2> QED
    BY <1>3, <2>1, <2>2 DEF AllJustified
<1> HIDE DEF all
<1> QED
  BY <1>1, <1>4 DEF Present

\* Groups in the room of somebody known move nobody.
LEMMA InSameRoomIsSane ==
    ASSUME NEW s, IsScene(s), NEW class, NEW t, Sane(s, t, class),
           NEW g, IsReported(s.active, g), NEW n, NEW S \in SUBSET Present(t),
           \A w \in S : SameArea(t.people[w].loc, g.loc)
    PROVE  Sane(s, InSameRoom(s, t, g, n, S), class)
<1> DEFINE enough == n >= Cardinality(S)
           first == FirstPersons(s.active, S, g.max)
           people == [w \in Person |->
                        IF enough /\ w \in S
                        THEN Supported(s, t.people[w], w, g, Cardinality(S) = 1)
                        ELSE t.people[w]]
           exactly == {w \in first : IsExactly(s, people[w], w, g)}
           used == Consume(t, g, first)
           left == Max({0, n - Cardinality(first)})
           max == Max({0, g.max - Cardinality(exactly)})
           u == InSameRoom(s, t, g, n, S)
<1>1. u = [t EXCEPT !.people = people, !.used = used, !.n = left, !.max = max]
  BY DEF InSameRoom
<1>2. ASSUME NEW w \in Person
      PROVE  /\ people[w] \in Found \cup {Nothing}
             /\ \/ people[w] = Nothing /\ Identified(s.active, w) = {}
                \/ Justified(s, w, people[w], class)
  <2>1. CASE enough /\ w \in S
    <3>1. people[w] = Supported(s, t.people[w], w, g, Cardinality(S) = 1)
      BY <2>1
    <3>2. InRoom(t.people[w].loc) /\ t.people[w] # Nothing
      BY <2>1 DEF SameArea, Present
    <3>3. Justified(s, w, t.people[w], class)
      BY <3>2 DEF Sane, AllJustified
    <3> HIDE DEF people
    <3>4. Justified(s, w, people[w], class)
      BY <3>1, <3>2, <3>3, SupportedIsJustified
    <3> QED
      BY <3>4 DEF Justified
  <2>2. CASE ~(enough /\ w \in S)
    <3>1. people[w] = t.people[w]
      BY <2>2
    <3> HIDE DEF people
    <3> QED
      BY <3>1 DEF Sane, AllJustified
  <2> QED
    BY <2>1, <2>2
<1>3. people \in [Person -> Found \cup {Nothing}]
  BY <1>2
<1>4. t = TallyFields(t)
  BY DEF Sane
<1> HIDE DEF people, used, left, max, u
<1>5. u = [people |-> people, used |-> used, eaten |-> t.eaten, counted |-> t.counted,
           anonymous |-> t.anonymous, n |-> left, max |-> max, extra |-> t.extra]
  BY <1>1, <1>4 DEF TallyFields
<1>6. AllJustified(s, people, class)
  BY <1>2, <1>3 DEF AllJustified
<1>7. Sane(s, u, class)
  BY <1>5, <1>6 DEF Sane, TallyFields
<1> QED
  BY <1>7 DEF u

\* A group moves one person.
LEMMA AfterMoveIsSane ==
    ASSUME NEW s, NEW t, NEW g, IsReported(s.active, g), InRoom(g.loc),
           Sane(s, t, g.key[1]), NEW w \in Present(t), NEW n, NEW exact,
           NextTo(t.people[w].loc, g.loc) \/ OnFloor(t.people[w].loc)
             \/ t.people[w].status = "continued"
    PROVE  Sane(s, AfterMove(s, t, g, n, w, exact), g.key[1])
<1> DEFINE class == g.key[1]
           c == Moved(t.people[w], g, exact)
           exactly == exact /\ ~Stays(t.people[w], g) /\ IsExactly(s, c, w, g)
           people == [t.people EXCEPT ![w] = c]
           used == Consume(t, g, {w})
           left == Max({0, n - 1})
           max == IF exactly THEN Max({0, g.max - 1}) ELSE g.max
           u == AfterMove(s, t, g, n, w, exact)
<1>1. u = [t EXCEPT !.people[w] = c, !.used = used, !.n = left, !.max = max]
  BY DEF AfterMove
<1>2. w \in Person /\ t.people[w] # Nothing
  BY DEF Present
<1>3. Justified(s, w, t.people[w], class)
  BY <1>2 DEF Sane, AllJustified
<1>4. Justified(s, w, c, class)
  BY <1>3, MovedIsJustified
<1>5. AllJustified(s, people, class)
  <2> HIDE DEF c
  <2> QED
    BY <1>2, <1>4, OnePersonMoves DEF Sane
<1>6. t = TallyFields(t)
  BY DEF Sane
<1> HIDE DEF c, used, left, max, u
<1>7. u = [people |-> people, used |-> used, eaten |-> t.eaten, counted |-> t.counted,
           anonymous |-> t.anonymous, n |-> left, max |-> max, extra |-> t.extra]
  BY <1>1, <1>6 DEF TallyFields
<1> HIDE DEF people
<1>8. Sane(s, u, class)
  BY <1>5, <1>7 DEF Sane, TallyFields
<1> QED
  BY <1>8 DEF u

\* A set with one element has that to choose.
LEMMA OneIsThere ==
    ASSUME NEW S, Cardinality(S) = 1
    PROVE  (CHOOSE w \in S : TRUE) \in S
<1>1. S # {}
  BY FS_EmptySet
<1> QED
  BY <1>1

\* What is left of a group says nothing about persons.
LEMMA CountLeft ==
    ASSUME NEW s, NEW class, NEW t, Sane(s, t, class), NEW n
    PROVE  Sane(s, [t EXCEPT !.n = n], class)
<1> DEFINE u == [t EXCEPT !.n = n]
<1>1. u = [t EXCEPT !.n = n]
  OBVIOUS
<1>2. t = TallyFields(t)
  BY DEF Sane
<1> HIDE DEF u
<1>3. u = [people |-> t.people, used |-> t.used, eaten |-> t.eaten, counted |-> t.counted,
           anonymous |-> t.anonymous, n |-> n, max |-> t.max, extra |-> t.extra]
  BY <1>1, <1>2 DEF TallyFields
<1>4. Sane(s, u, class)
  BY <1>3 DEF Sane, TallyFields
<1> QED
  BY <1>4 DEF u

\* A trajectory moves one person at most, next door or from the floor.
LEMMA ByTrajectoryIsSane ==
    ASSUME NEW s, NEW t, NEW g, IsReported(s.active, g), Sane(s, t, g.key[1]),
           NEW n, NEW eligible \in SUBSET Present(t)
    PROVE  Sane(s, ByTrajectory(s, t, g, n, eligible), g.key[1])
<1> DEFINE class == g.key[1]
           movers == Movers(t, g, n, eligible)
           w == CHOOSE w \in movers : TRUE
           exact == /\ OnThatFloor(t.people[w], g) /\ g.observer # Nothing
                    /\ g.target # Nothing /\ IsExactly(s, t.people[w], w, g)
           left == Max({0, n - 1})
           u == ByTrajectory(s, t, g, n, eligible)
<1>1. \/ Cardinality(movers) = 1 /\ u = AfterMove(s, t, g, n, w, exact)
      \/ u = [t EXCEPT !.n = 0]
      \/ u = [t EXCEPT !.n = left]
      \/ u = t
  BY DEF ByTrajectory
<1>2. ASSUME Cardinality(movers) = 1
      PROVE  Sane(s, AfterMove(s, t, g, n, w, exact), class)
  <2>1. w \in movers
    <3> HIDE DEF movers
    <3> QED
      BY <1>2, OneIsThere
  <2> HIDE DEF w
  <2>2. w \in Present(t) /\ Reaches(t.people[w], g)
    BY <2>1 DEF Movers
  <2>3. InRoom(g.loc) /\ (NextTo(t.people[w].loc, g.loc) \/ OnFloor(t.people[w].loc))
    BY <2>2 DEF Reaches, OnThatFloor, NextTo
  <2> HIDE DEF exact
  <2> QED
    BY <2>2, <2>3, AfterMoveIsSane
<1>4. Sane(s, [t EXCEPT !.n = 0], class) /\ Sane(s, [t EXCEPT !.n = left], class)
  BY CountLeft
<1> HIDE DEF u, left, w, exact, movers
<1>5. Sane(s, u, class)
  BY <1>1, <1>2, <1>4
<1> QED
  BY <1>5 DEF u

\* A turn of the loop: devices move remembered owners only.
LEMMA MatchedIsSane ==
    ASSUME NEW s, IsScene(s), NEW t, NEW g, IsReported(s.active, g),
           Sane(s, t, g.key[1]), NEW eligible \in SUBSET Present(t), NEW physical
    PROVE  Sane(s, Turn(s, t, g, eligible, physical), g.key[1])
<1> DEFINE class == g.key[1]
           owners == Corroborated(t, g, t.n, eligible, physical)
           owner == CHOOSE w \in owners : TRUE
           apart == [t EXCEPT !.people = Separated(t, g)]
           same == {w \in eligible : SameArea(apart.people[w].loc, g.loc)}
           u == Turn(s, t, g, eligible, physical)
<1>1. \/ owners # {} /\ u = AfterMove(s, t, g, t.n, owner, FALSE)
      \/ u = InSameRoom(s, apart, g, apart.n, same)
      \/ u = ByTrajectory(s, apart, g, apart.n, eligible)
      \/ u = apart
  BY DEF Turn, Matched, Apart, WithoutOwner
<1>2. ASSUME owners # {}
      PROVE  Sane(s, AfterMove(s, t, g, t.n, owner, FALSE), class)
  <2>1. owner \in owners
    BY <1>2
  <2>2. InRoom(g.loc) /\ owner \in eligible /\ t.people[owner].status = "continued"
    <3> HIDE DEF owner
    <3> QED
      BY <2>1 DEF Corroborated
  <2> HIDE DEF owner, owners
  <2>3. owner \in Present(t)
    BY <2>2
  <2> QED
    BY <2>2, <2>3, AfterMoveIsSane
<1>4. /\ Sane(s, apart, class) /\ eligible \in SUBSET Present(apart)
  <2>1. AllJustified(s, Separated(t, g), class)
        /\ \A w \in Present(t) : Separated(t, g)[w] # Nothing
    BY SeparatedAreJustified DEF Sane
  <2>2. t = TallyFields(t)
    BY DEF Sane
  <2> DEFINE people == Separated(t, g)
  <2>3. apart = [t EXCEPT !.people = people]
    OBVIOUS
  <2> HIDE DEF apart, people
  <2>4. apart = [people |-> people, used |-> t.used, eaten |-> t.eaten, counted |-> t.counted,
                 anonymous |-> t.anonymous, n |-> t.n, max |-> t.max, extra |-> t.extra]
    BY <2>2, <2>3 DEF TallyFields
  <2>5. apart = TallyFields(apart) /\ apart.people = people
    BY <2>4 DEF TallyFields
  <2> QED
    BY <2>1, <2>5 DEF Sane, Present, people
<1>5. same \in SUBSET Present(apart) /\ \A w \in same : SameArea(apart.people[w].loc, g.loc)
  <2> HIDE DEF apart
  <2> QED
    BY <1>4
<1> HIDE DEF owners, owner, apart, same, u
<1>6. Sane(s, InSameRoom(s, apart, g, apart.n, same), class)
  BY <1>4, <1>5, InSameRoomIsSane
<1>7. Sane(s, ByTrajectory(s, apart, g, apart.n, eligible), class)
  BY <1>4, ByTrajectoryIsSane
<1>8. Sane(s, u, class)
  BY <1>1, <1>2, <1>4, <1>6, <1>7
<1> QED
  BY <1>8 DEF u

\* An animal that is taken from a group says nothing about persons.
LEMMA OpenedIsSane ==
    ASSUME NEW s, NEW class, NEW t, Sane(s, t, class), NEW g, NEW animals
    PROVE  /\ Sane(s, Opened(t, g, animals), class)
           /\ Opened(t, g, animals).people = t.people
<1> DEFINE eaten == t.eaten \cup {<<src, FirstKey(animals).key>> : src \in g.sources}
           left == g.min - 1
           u == Opened(t, g, animals)
<1>1. \/ u = [t EXCEPT !.n = g.min, !.max = g.max]
      \/ u = [t EXCEPT !.n = left, !.max = g.max, !.eaten = eaten]
  BY DEF Opened
<1>2. t = TallyFields(t)
  BY DEF Sane
<1> HIDE DEF eaten, left, u
<1>3. CASE u = [t EXCEPT !.n = g.min, !.max = g.max]
  <2>1. u = [people |-> t.people, used |-> t.used, eaten |-> t.eaten, counted |-> t.counted,
             anonymous |-> t.anonymous, n |-> g.min, max |-> g.max, extra |-> t.extra]
    BY <1>2, <1>3 DEF TallyFields
  <2>2. Sane(s, u, class) /\ u.people = t.people
    BY <2>1 DEF Sane, TallyFields
  <2> QED
    BY <2>2 DEF u
<1>4. CASE u = [t EXCEPT !.n = left, !.max = g.max, !.eaten = eaten]
  <2>1. u = [people |-> t.people, used |-> t.used, eaten |-> eaten, counted |-> t.counted,
             anonymous |-> t.anonymous, n |-> left, max |-> g.max, extra |-> t.extra]
    BY <1>2, <1>4 DEF TallyFields
  <2>2. Sane(s, u, class) /\ u.people = t.people
    BY <2>1 DEF Sane, TallyFields
  <2> QED
    BY <2>2 DEF u
<1> QED
  BY <1>1, <1>3, <1>4

\* Neither does what is counted in the end.
LEMMA TalliedIsSane ==
    ASSUME NEW s, NEW class, NEW t, Sane(s, t, class), NEW g
    PROVE  Sane(s, Tallied(t, g), class)
<1> DEFINE extra == t.extra + t.max
           counted == t.counted \cup (IF t.n > 0 THEN {[group |-> g, n |-> t.n]} ELSE {})
           anonymous == t.anonymous \cup (IF t.n > 0 \/ t.max > 0 THEN {g.loc} ELSE {})
           u == Tallied(t, g)
<1>1. u = [t EXCEPT !.extra = extra, !.counted = counted, !.anonymous = anonymous]
  BY DEF Tallied
<1>2. t = TallyFields(t)
  BY DEF Sane
<1> HIDE DEF extra, counted, anonymous, u
<1>3. u = [people |-> t.people, used |-> t.used, eaten |-> t.eaten, counted |-> counted,
           anonymous |-> anonymous, n |-> t.n, max |-> t.max, extra |-> extra]
  BY <1>1, <1>2 DEF TallyFields
<1>4. Sane(s, u, class)
  BY <1>3 DEF Sane, TallyFields
<1> QED
  BY <1>4 DEF u

\* The turn of a key.
LEMMA TurnIsSane ==
    ASSUME NEW s, IsScene(s), NEW G, \A g \in G : IsReported(s.active, g), NEW t, NEW k,
           Sane(s, t, k[1])
    PROVE  Sane(s, TurnOf(s, G, t, k), k[1])
<1> DEFINE found == {g \in G : ~IsAnimal(g.kind) /\ g.key = k}
           g == CHOOSE g \in found : TRUE
           o == Opened(t, g, Included(t, g, G))
           eligible == Eligible(s, t, g)
           physical == Physical(G)
           u == TurnOf(s, G, t, k)
<1>1. u = IF found = {} THEN t ELSE Tallied(Turn(s, o, g, eligible, physical), g)
  BY DEF TurnOf
<1>2. CASE found # {}
  <2>1. g \in found
    BY <1>2
  <2>2. g \in G /\ g.key = k
    <3> HIDE DEF g
    <3> QED
      BY <2>1
  <2> HIDE DEF g, found
  <2>3. IsReported(s.active, g) /\ g.key[1] = k[1]
    BY <2>2
  <2>4. Sane(s, o, g.key[1]) /\ o.people = t.people
    <3>1. Sane(s, t, g.key[1])
      BY <2>3
    <3> HIDE DEF o
    <3> QED
      BY <3>1, OpenedIsSane DEF o
  <2>5. eligible \in SUBSET Present(o)
    <3> HIDE DEF o
    <3> QED
      BY <2>4 DEF Eligible, Present
  <2> HIDE DEF o, eligible, physical, u
  <2>6. Sane(s, Turn(s, o, g, eligible, physical), g.key[1])
    BY <2>3, <2>4, <2>5, MatchedIsSane
  <2>7. Sane(s, Tallied(Turn(s, o, g, eligible, physical), g), g.key[1])
    BY <2>6, TalliedIsSane
  <2>8. Sane(s, u, k[1])
    BY <1>1, <1>2, <2>3, <2>7
  <2> QED
    BY <2>8 DEF u
<1>3. CASE found = {}
  BY <1>1, <1>3
<1> QED
  BY <1>2, <1>3

-----------------------------------------------------------------------------
\* The loop.
IsTallies(f, s, G, n) ==
    f = [i \in 0 .. n |-> IF i = 0 THEN Uncounted(s) ELSE TurnOf(s, G, f[i - 1], Keys[i])]

\* The function is total, and so has values.
LEMMA TalliesExist ==
    ASSUME NEW s, NEW G, NEW n \in Nat
    PROVE  \E f : IsTallies(f, s, G, n)
<1> DEFINE Bad == {k \in Nat : ~ \E f : IsTallies(f, s, G, k)}
<1>1. SUFFICES ASSUME Bad # {} PROVE FALSE
  OBVIOUS
<1>2. PICK k \in Bad : \A j \in Bad : k <= j
  <2>1. Bad \in SUBSET Nat
    OBVIOUS
  <2> HIDE DEF Bad
  <2> QED
    BY <1>1, <2>1, LeastElement
<1>3. k \in Nat /\ ~ \E f : IsTallies(f, s, G, k)
  BY <1>2
<1>4. k # 0
  <2>1. IsTallies([i \in 0 .. 0 |-> Uncounted(s)], s, G, 0)
    BY DEF IsTallies
  <2> QED
    BY <1>3, <2>1
<1>5. k - 1 \in Nat /\ k - 1 \notin Bad
  BY <1>2, <1>3, <1>4
<1>6. PICK f : IsTallies(f, s, G, k - 1)
  BY <1>5
<1> DEFINE Step(t, i) == TurnOf(s, G, t, Keys[i])
           all == [i \in 0 .. k |-> IF i = k THEN Step(f[k - 1], k) ELSE f[i]]
<1>7. \A i \in 0 .. k - 1 : f[i] = IF i = 0 THEN Uncounted(s) ELSE Step(f[i - 1], i)
  BY <1>6 DEF IsTallies
<1>8. \A i \in 0 .. k : all[i] = IF i = k THEN Step(f[k - 1], k) ELSE f[i]
  OBVIOUS
<1>9. all = [i \in 0 .. k |-> all[i]]
  OBVIOUS
<1> HIDE DEF all
<1>10. IsTallies(all, s, G, k)
  <2> HIDE DEF Step
  <2>1. \A i \in 0 .. k : all[i] = IF i = 0 THEN Uncounted(s) ELSE Step(all[i - 1], i)
    <3> TAKE i \in 0 .. k
    <3>1. i \in 0 .. k - 1 \/ i = k
      BY <1>3
    <3>2. i # 0 => i - 1 \in 0 .. k /\ i - 1 # k
      BY <1>3
    <3> QED
      BY <1>3, <1>4, <1>7, <1>8, <3>1, <3>2
  <2> USE DEF Step
  <2> QED
    BY <1>9, <2>1 DEF IsTallies
<1> QED
  BY <1>3, <1>10

\* The keys of tracked objects are the last.
LEMMA TargetsAreLast ==
    /\ Len(Keys) = 4 * Len(Names) /\ Len(Names) \in Nat
    /\ \A i \in 1 .. 4 * Len(Names) : (Keys[i][1] = "target") = (i > 3 * Len(Names))
<1> DEFINE n == Len(Names)
           Turns == 1 .. Len(Classes) * Len(Names)
<1>1. n \in Nat /\ Len(Classes) = 4 /\ Len(Classes) * Len(Names) = 4 * n
  BY NamesAssumption DEF Classes
<1>2. Keys = [i \in 1 .. 4 * n |-> <<Classes[1 + ((i - 1) \div n)], Names[1 + ((i - 1) % n)]>>]
  BY <1>1 DEF Keys
<1>3. Len(Keys) = 4 * n
  BY <1>1, <1>2
<1>4. ASSUME NEW i \in 1 .. 4 * n
      PROVE  (Keys[i][1] = "target") = (i > 3 * n)
  <2> DEFINE j == (i - 1) \div n
  <2>1. n \in Nat \ {0} /\ i \in Int
    BY <1>1
  <2>2. j \in 0 .. 3 /\ ((j = 3) = (i > 3 * n))
    BY <2>1
  <2>3. Keys[i][1] = Classes[1 + j]
    BY <1>2
  <2> HIDE DEF j
  <2>4. (Classes[1 + j] = "target") = (j = 3)
    <3>1. j = 0 \/ j = 1 \/ j = 2 \/ j = 3
      BY <2>2
    <3> QED
      BY <3>1 DEF Classes
  <2> QED
    BY <2>2, <2>3, <2>4
<1> QED
  BY <1>1, <1>3, <1>4

\* The loop starts with what is known and remembered.
LEMMA UncountedIsSane ==
    ASSUME NEW s, IsScene(s), Remembers
    PROVE  Sane(s, Uncounted(s), "early")
<1> DEFINE people == KnownPeople(s)
           u == Uncounted(s)
<1>1. ASSUME NEW w \in Person
      PROVE  /\ people[w] \in Found \cup {Nothing}
             /\ \/ people[w] = Nothing /\ Identified(s.active, w) = {}
                \/ Justified(s, w, people[w], "early")
  <2>1. people[w] = WithMemory(s, w, Candidate(s.active, w))
    BY DEF KnownPeople
  <2> HIDE DEF people
  <2>2. \/ people[w] = Nothing /\ Identified(s.active, w) = {}
        \/ Justified(s, w, people[w], "early")
    BY <2>1, MemoryIsJustified
  <2> QED
    BY <2>2 DEF Justified
<1>2. people = [w \in Person |-> people[w]]
  BY DEF KnownPeople
<1>3. u = [people |-> people, used |-> {}, eaten |-> {}, counted |-> {}, anonymous |-> {},
           n |-> 0, max |-> 0, extra |-> 0]
  BY DEF Uncounted
<1> HIDE DEF people, u
<1>4. people \in [Person -> Found \cup {Nothing}]
  BY <1>1, <1>2
<1>5. AllJustified(s, people, "early")
  BY <1>1, <1>4 DEF AllJustified
<1>6. Sane(s, u, "early")
  BY <1>3, <1>5 DEF Sane, TallyFields
<1> QED
  BY <1>6 DEF u

\* The class matters only when it becomes that of tracked objects.
LEMMA SaneLater ==
    ASSUME NEW s, NEW t, NEW b, NEW c, Sane(s, t, b), b = "target" => c = "target"
    PROVE  Sane(s, t, c)
BY DEF Sane, AllJustified, Justified

\* The loop ends with persons whose places are justified, by the least exception.
LEMMA TallyIsSane ==
    ASSUME NEW s, IsScene(s), Remembers, NEW G, \A g \in G : IsReported(s.active, g)
    PROVE  AllJustified(s, Tally(s, G).people, "target")
<1> DEFINE n == Len(Keys)
           IsIt(h) == IsTallies(h, s, G, n)
           f == CHOOSE h : IsIt(h)
           Class(i) == IF i > 3 * Len(Names) THEN "target" ELSE "early"
           Right(i) == Sane(s, f[i], Class(i))
<1>1. n = 4 * Len(Names) /\ Len(Names) \in Nat /\ n \in Nat
  BY TargetsAreLast
<1>2. Tally(s, G) = f[n]
  BY DEF Tally, IsTallies
<1>3. IsTallies(f, s, G, n)
  <2>1. \E h : IsIt(h)
    BY <1>1, TalliesExist
  <2>2. IsIt(f)
    <3> HIDE DEF IsIt
    <3> QED
      BY <2>1
  <2> QED
    BY <2>2
<1> HIDE DEF f
<1>4. f[0] = Uncounted(s) /\ \A i \in 1 .. n : f[i] = TurnOf(s, G, f[i - 1], Keys[i])
  BY <1>1, <1>3 DEF IsTallies
<1>5. Right(0)
  <2>1. Sane(s, f[0], "early")
    BY <1>4, UncountedIsSane
  <2>2. Class(0) = "early"
    BY <1>1
  <2> HIDE DEF Class
  <2> QED
    BY <2>1, <2>2
<1>6. ASSUME NEW i \in 1 .. n, Right(i - 1)
      PROVE  Right(i)
  <2>1. Class(i - 1) = "target" => Keys[i][1] = "target"
    BY <1>1, TargetsAreLast
  <2>2. Keys[i][1] = "target" => Class(i) = "target"
    BY <1>1, TargetsAreLast
  <2>3. f[i] = TurnOf(s, G, f[i - 1], Keys[i])
    BY <1>4
  <2> HIDE DEF Class
  <2>4. Sane(s, f[i - 1], Keys[i][1])
    BY <1>6, <2>1, SaneLater
  <2>5. Sane(s, f[i], Keys[i][1])
    BY <2>3, <2>4, TurnIsSane
  <2> QED
    BY <2>2, <2>5, SaneLater
<1>7. \A i \in 0 .. n : Right(i)
  <2> DEFINE Wrong == {i \in 0 .. n : ~ Right(i)}
  <2>1. SUFFICES ASSUME Wrong # {} PROVE FALSE
    OBVIOUS
  <2>2. PICK i \in Wrong : \A j \in Wrong : i <= j
    <3>1. Wrong \in SUBSET Nat
      OBVIOUS
    <3> HIDE DEF Wrong
    <3> QED
      BY <2>1, <3>1, LeastElement
  <2>3. i \in 0 .. n /\ ~ Right(i)
    BY <2>2
  <2>4. i \in 1 .. n
    <3> HIDE DEF Right
    <3> QED
      BY <1>5, <2>3
  <2>5. i - 1 \in 0 .. n /\ i - 1 \notin Wrong
    <3> HIDE DEF Right
    <3> QED
      BY <1>1, <2>2, <2>4
  <2>6. Right(i - 1)
    BY <2>5
  <2> HIDE DEF Right
  <2> QED
    BY <1>6, <2>3, <2>4, <2>6
<1>8. Sane(s, f[n], "target")
  <2>1. Right(n)
    <3> HIDE DEF Right
    <3> QED
      BY <1>1, <1>7
  <2> HIDE DEF Class
  <2> QED
    BY <2>1, SaneLater
<1> QED
  BY <1>2, <1>8 DEF Sane

-----------------------------------------------------------------------------
\* Where an access point places somebody.
EarnedOrNear(s, w, l) == Earned(s, w, l) \/ \E o \in AccessPoints(s, w) : o.ap = l

\* An access point places only who is in no room, and no firm body.
LEMMA NearAccessPointIsJustified ==
    ASSUME NEW s, IsScene(s), NEW w, NEW c, Justified(s, w, c, "target")
    PROVE  /\ NearAccessPoint(s, c, w) \in Found
           /\ EarnedOrNear(s, w, NearAccessPoint(s, c, w).loc)
           /\ Firm(s, w) => NearAccessPoint(s, c, w) = c
<1> DEFINE phones == {o \in AccessPoints(s, w) : o.ap # Nothing}
           areas == {o.ap.place : o \in phones}
           newest == CHOOSE o \in phones : \A p \in phones : o.ap.age <= p.ap.age
           d == [c EXCEPT !.loc = newest.ap, !.locs = {newest.source}, !.status = "possible"]
<1>1. \/ NearAccessPoint(s, c, w) = c
      \/ /\ ~InRoom(c.loc) /\ Cardinality(areas) = 1
         /\ NearAccessPoint(s, c, w) = d
  BY DEF NearAccessPoint
<1>2. c \in Found /\ EarnedOrNear(s, w, c.loc)
  BY DEF Justified, EarnedOrNear
<1>3. CASE ~InRoom(c.loc) /\ Cardinality(areas) = 1
  <2>1. phones # {}
    <3>1. phones = {} => areas = {}
      OBVIOUS
    <3> HIDE DEF areas, phones
    <3> QED
      BY <1>3, <3>1, FS_EmptySet
  <2>2. \A o \in phones : /\ o \in Observation /\ o.ap \in Claim /\ o.ap.age \in Nat
                          /\ o.source \in Name
    <3> TAKE o \in phones
    <3>1. o \in Observation /\ o.ap # Nothing
      BY SceneObservations DEF AccessPoints
    <3>2. o.ap \in Claim /\ o.source \in Name
      BY <3>1, ObservationFields
    <3> QED
      BY <3>1, <3>2, ClaimFields
  <2> DEFINE age == [o \in phones |-> o.ap.age]
  <2>3. \E o \in phones : \A p \in phones : age[o] <= age[p]
    <3>1. \A o \in phones : age[o] \in Nat
      BY <2>2
    <3> HIDE DEF age, phones
    <3> QED
      BY <2>1, <3>1, LeastMember
  <2>4. \E o \in phones : \A p \in phones : o.ap.age <= p.ap.age
    BY <2>3
  <2>5. newest \in phones
    <3> HIDE DEF phones
    <3> QED
      BY <2>4
  <2>6. newest \in AccessPoints(s, w) /\ newest.ap \in Claim /\ newest.source \in Name
    <3> HIDE DEF newest
    <3> QED
      BY <2>2, <2>5
  <2>7. d = [c EXCEPT !.loc = newest.ap, !.locs = {newest.source}, !.status = "possible"]
    OBVIOUS
  <2>8. c = FoundRecord(c)
    BY <1>2, FoundEquals
  <2> HIDE DEF newest, d
  <2>9. d = [loc |-> newest.ap, idq |-> c.idq, direct |-> c.direct, device |-> c.device,
             status |-> "possible", radios |-> c.radios, last |-> c.last,
             cleared |-> c.cleared, ids |-> c.ids, locs |-> {newest.source}]
    BY <2>7, <2>8 DEF FoundRecord
  <2>10. d \in Found
    BY <1>2, <2>6, <2>9, FoundFields DEF Found, Status
  <2>11. EarnedOrNear(s, w, d.loc)
    BY <2>6, <2>9 DEF EarnedOrNear
  <2>12. ~ Firm(s, w)
    BY <1>3 DEF Justified, Stands, Followed, SameArea
  <2> QED
    BY <1>1, <1>2, <2>10, <2>11, <2>12
<1>4. CASE ~ (~InRoom(c.loc) /\ Cardinality(areas) = 1)
  <2> HIDE DEF areas, d
  <2>1. NearAccessPoint(s, c, w) = c
    BY <1>1, <1>4
  <2> QED
    BY <1>2, <2>1
<1> QED
  BY <1>3, <1>4

-----------------------------------------------------------------------------
\* What a resolution leaves of a person for the next one.
LEMMA ResolvedIsJustified ==
    ASSUME NEW s, IsScene(s), Remembers, NEW w \in Person
    PROVE  LET p == Hypothesis(Placed(s, Tally(s, GroupsOf(s)))[w])
           IN  \/ p = Nothing /\ Identified(s.active, w) = {}
               \/ /\ p \in Hypotheses
                  /\ EarnedOrNear(s, w, p.loc)
                  /\ Firm(s, w) => SameArea(p.loc, Best(s, w)) \/ Followed(s, p)
<1> DEFINE t == Tally(s, GroupsOf(s))
           b == t.people[w]
           c == Placed(s, t)[w]
           p == Hypothesis(c)
<1>1. AllJustified(s, t.people, "target")
  BY GroupsOfAreReported, TallyIsSane
<1>2. c = IF b = Nothing THEN Nothing ELSE NearAccessPoint(s, b, w)
  BY DEF Placed
<1>3. \/ b = Nothing /\ Identified(s.active, w) = {}
      \/ Justified(s, w, b, "target")
  BY <1>1 DEF AllJustified
<1> HIDE DEF t, b, c
<1>4. b = Nothing => p = Nothing
  BY <1>2 DEF Hypothesis
<1>5. ASSUME Justified(s, w, b, "target")
      PROVE  /\ p \in Hypotheses
             /\ EarnedOrNear(s, w, p.loc)
             /\ Firm(s, w) => SameArea(p.loc, Best(s, w)) \/ Followed(s, p)
  <2>1. c = NearAccessPoint(s, b, w)
    BY <1>2, <1>5 DEF Justified
  <2>2. /\ c \in Found /\ EarnedOrNear(s, w, c.loc)
        /\ Firm(s, w) => c = b
    BY <1>5, <2>1, NearAccessPointIsJustified
  <2>3. p = [loc |-> c.loc, status |-> c.status, last |-> c.last, cleared |-> c.cleared,
             locs |-> c.locs]
    BY <2>2, NothingAssumption DEF Hypothesis
  <2> HIDE DEF p
  <2>4. p \in Hypotheses /\ p.loc = c.loc
    BY <2>2, <2>3, FoundFields DEF Hypotheses
  <2>5. Firm(s, w) => SameArea(p.loc, Best(s, w)) \/ Followed(s, p)
    BY <1>5, <2>2, <2>4 DEF Justified, Stands, Followed
  <2> QED
    BY <2>2, <2>4, <2>5
<1> HIDE DEF p
<1>6. \/ p = Nothing /\ Identified(s.active, w) = {}
      \/ /\ p \in Hypotheses
         /\ EarnedOrNear(s, w, p.loc)
         /\ Firm(s, w) => SameArea(p.loc, Best(s, w)) \/ Followed(s, p)
  BY <1>3, <1>4, <1>5
<1> QED
  BY <1>6 DEF p, c, t

\* What a resolution leaves is remembered.
LEMMA ResolveKeeps ==
    ASSUME Remembers, NEW s \in Scenes, Resolve(s)
    PROVE  /\ IsScene(s) /\ scene' = s
           /\ known' = [w \in Person |-> Hypothesis(Placed(s, Tally(s, GroupsOf(s)))[w])]
           /\ known' \in [Person -> Hypotheses \cup {Nothing}]
<1>1. /\ scene' = s
      /\ known' = [w \in Person |-> Hypothesis(Placed(s, Tally(s, GroupsOf(s)))[w])]
  BY DEF Resolve, FromGroups, Resolved, Correlated, Snapshot
<1>2. IsScene(s)
  BY ScenesAreScenes
<1>3. \A w \in Person :
        Hypothesis(Placed(s, Tally(s, GroupsOf(s)))[w]) \in Hypotheses \cup {Nothing}
  BY <1>2, ResolvedIsJustified
<1> QED
  BY <1>1, <1>2, <1>3

\* A location that ages is one.
LEMMA OlderIsAClaim ==
    ASSUME NEW l \in Claim \cup {Nothing}, NEW d \in 0 .. 1
    PROVE  Older(l, d) \in Claim \cup {Nothing}
<1>1. CASE l = Nothing
  BY <1>1 DEF Older
<1>2. CASE l # Nothing
  <2> DEFINE age == Min({MaxAge, l.age + d})
             m == Older(l, d)
  <2>1. m = [l EXCEPT !.age = age]
    BY <1>2 DEF Older
  <2>2. l = [place |-> l.place, rooms |-> l.rooms, q |-> l.q, by |-> l.by, age |-> l.age]
        /\ l.age \in 0 .. MaxAge
    BY <1>2, ClaimFields
  <2>3. age \in 0 .. MaxAge
    <3> DEFINE a == l.age + d
               T == {MaxAge, a}
    <3>1. a \in Nat /\ MaxAge \in Nat
      BY <2>2, WindowsAssumption
    <3> HIDE DEF a
    <3>2. \E x \in T : \A y \in T : x <= y
      BY <3>1
    <3>3. Min(T) \in T /\ \A y \in T : Min(T) <= y
      <4> HIDE DEF T
      <4> QED
        BY <3>2 DEF Min
    <3>4. Min(T) \in Nat /\ Min(T) <= MaxAge
      BY <3>1, <3>3
    <3>5. Min(T) = age
      BY DEF a
    <3> HIDE DEF T, age
    <3> QED
      BY <3>1, <3>4, <3>5
  <2> HIDE DEF age, m
  <2>4. m = [place |-> l.place, rooms |-> l.rooms, q |-> l.q, by |-> l.by, age |-> age]
    BY <2>1, <2>2
  <2>5. m \in Claim
    BY <1>2, <2>3, <2>4, ClaimFields DEF Claim
  <2> QED
    BY <2>5 DEF m
<1> QED
  BY <1>1, <1>2

\* Time keeps what is remembered.
LEMMA PassKeeps ==
    ASSUME Remembers, NEW d \in 0 .. 1, Pass(d)
    PROVE  Remembers' /\ scene' = Nothing
<1> DEFINE older(w) == [known[w] EXCEPT !.loc = Older(@, d), !.last = Older(@, d)]
<1>1. known' = [w \in Person |-> IF known[w] = Nothing THEN Nothing ELSE older(w)]
  BY DEF Pass
<1>2. ASSUME NEW w \in Person, known[w] # Nothing
      PROVE  older(w) \in Hypotheses
  <2> DEFINE p == known[w]
             loc == Older(p.loc, d)
             last == Older(p.last, d)
             q == older(w)
  <2>1. p \in Hypotheses
    BY <1>2 DEF Remembers
  <2>2. q = [p EXCEPT !.loc = loc, !.last = last]
    OBVIOUS
  <2>3. loc \in Claim \cup {Nothing} /\ last \in Claim \cup {Nothing}
    <3> HIDE DEF p
    <3> QED
      BY <2>1, HypothesisFields, OlderIsAClaim
  <2> HIDE DEF p, loc, last, q
  <2>4. p = [loc |-> p.loc, status |-> p.status, last |-> p.last, cleared |-> p.cleared,
             locs |-> p.locs]
    BY <2>1 DEF Hypotheses
  <2>5. q = [loc |-> loc, status |-> p.status, last |-> last, cleared |-> p.cleared,
             locs |-> p.locs]
    BY <2>2, <2>4
  <2>6. q \in Hypotheses
    BY <2>1, <2>3, <2>5, HypothesisFields DEF Hypotheses
  <2> QED
    BY <2>6 DEF q, p
<1> HIDE DEF older
<1>3. known' \in [Person -> Hypotheses \cup {Nothing}]
  BY <1>1, <1>2
<1> QED
  BY <1>3 DEF Remembers, Pass

\* What is remembered of a person is a hypothesis, at any time.
THEOREM MemoryIsTyped == Spec => []Remembers
<1>1. Init => Remembers
  BY DEF Init, Remembers
<1>2. Remembers /\ [Next]_vars => Remembers'
  <2> SUFFICES ASSUME Remembers, [Next]_vars PROVE Remembers'
    OBVIOUS
  <2>1. CASE \E s \in Scenes : Resolve(s)
    BY <2>1, ResolveKeeps DEF Remembers
  <2>2. CASE \E d \in 0 .. 1 : Pass(d)
    BY <2>2, PassKeeps
  <2>3. CASE UNCHANGED vars
    BY <2>3 DEF vars, Remembers
  <2> QED
    BY <2>1, <2>2, <2>3 DEF Next
<1> QED
  BY <1>1, <1>2, PTL DEF Spec

\* A person's place is never newer than what reports it.
THEOREM PlacesAreEarned == Spec => PlacesKeepTheirClock
<1>1. Remembers /\ [Next]_vars =>
      [scene' # Nothing =>
         \A w \in {w \in Person : known'[w] # Nothing} :
            LET l == known'[w].loc
                E == scene'.active
            IN  \/ l = Nothing \/ AtHome(l)
                \/ \E o \in E : /\ o.kind # "device" /\ o.loc # Nothing
                                 /\ o.loc.place = l.place /\ o.loc.age = l.age
                \/ \E o \in AccessPoints(scene', w) : o.ap = l
                \/ /\ known[w] # Nothing /\ known[w].loc # Nothing /\ l.age < Lifetime
                   /\ known[w].loc.place = l.place /\ known[w].loc.age = l.age]_vars
  <2> SUFFICES ASSUME Remembers, Next, scene' # Nothing, NEW w \in Person, known'[w] # Nothing
               PROVE  EarnedOrNear(scene', w, known'[w].loc)
    BY DEF vars, EarnedOrNear, Earned
  <2>1. PICK s \in Scenes : Resolve(s)
    BY PassKeeps DEF Next
  <2>2. /\ IsScene(s) /\ scene' = s
        /\ known' = [v \in Person |-> Hypothesis(Placed(s, Tally(s, GroupsOf(s)))[v])]
    BY <2>1, ResolveKeeps
  <2>3. EarnedOrNear(s, w, known'[w].loc)
    BY <2>2, ResolvedIsJustified
  <2> QED
    BY <2>2, <2>3
<1> QED
  BY <1>1, MemoryIsTyped, PTL DEF Spec, PlacesKeepTheirClock

\* Who is identified beyond doubt in a room, with nothing newer remembered, is
\* there, or went with somebody a camera follows elsewhere.
THEOREM NobodyMovesABody == Spec => IdentifiedBodiesStand
<1> DEFINE Bodies(w) == Identified(scene'.active, w)
           best(w) == BestLoc(Bodies(w))
           place(w) == known'[w].loc
           Stood(w) ==
             (/\ InRoom(best(w)) /\ \E o \in Bodies(w) : o.idq = High
              /\ \/ known[w] = Nothing \/ known[w].loc = Nothing
                 \/ known[w].loc.age >= best(w).age)
             => \/ SameArea(place(w), best(w))
                \/ \E o \in Anonymous(scene'.active) :
                       o.target # Nothing /\ SameArea(o.loc, place(w))
           Stand == scene' # Nothing => \A w \in SeenPersons(scene'.active) : Stood(w)
<1>1. Remembers /\ [Next]_vars => [Stand]_vars
  <2> SUFFICES ASSUME Remembers, Next, scene' # Nothing, NEW w \in SeenPersons(scene'.active)
               PROVE  Stood(w)
    BY DEF vars
  <2>1. PICK s \in Scenes : Resolve(s)
    BY PassKeeps DEF Next
  <2>2. /\ IsScene(s) /\ scene' = s
        /\ known' = [v \in Person |-> Hypothesis(Placed(s, Tally(s, GroupsOf(s)))[v])]
    BY <2>1, ResolveKeeps
  <2>3. w \in Person /\ Identified(s.active, w) # {}
    BY <2>2 DEF SeenPersons, RoomsOf
  <2>4. Firm(s, w) => SameArea(known'[w].loc, Best(s, w)) \/ Followed(s, known'[w])
    BY <2>2, <2>3, ResolvedIsJustified
  <2> QED
    BY <2>2, <2>4 DEF Firm, Followed, Best
<1>2. Spec => [][Stand]_vars
  BY <1>1, MemoryIsTyped, PTL DEF Spec
<1> QED
  BY <1>2 DEF IdentifiedBodiesStand

-----------------------------------------------------------------------------
\* There are finitely many names and rooms.
LEMMA NamesAreFinite == IsFiniteSet(Name) /\ IsFiniteSet(Area)
<1> DEFINE S == 1 .. Len(Names)
<1>1. Len(Names) \in Nat /\ Name = {Names[i] : i \in S}
  BY NamesAssumption DEF Name, Range
<1>2. IsFiniteSet(S)
  BY <1>1, FS_Interval
<1>3. IsFiniteSet({Names[i] : i \in S})
  <2> HIDE DEF S
  <2> QED
    BY <1>2, ImageIsFinite
<1>4. Area \in SUBSET Name
  BY NamesAssumption DEF Name
<1> QED
  BY <1>1, <1>3, <1>4, FS_Subset

\* A scene has finitely many observations, and groups.
LEMMA ScenesAreFinite ==
    ASSUME NEW s, IsScene(s)
    PROVE  IsFiniteSet(s.active) /\ IsFiniteSet(Anonymous(s.active)) /\ IsFiniteSet(Groups(s.active))
<1> DEFINE E == s.active
           id == [o \in E |-> o.id]
           group == [o \in Anonymous(E) |-> GroupOf({p \in Anonymous(E) : KeyOf(p) = KeyOf(o)})]
<1>1. id \in Injection(E, Name)
  BY SceneObservations, ObservationFields DEF IsScene, HaveNames, Injection, IsInjective
<1>2. IsFiniteSet(E)
  <2> HIDE DEF id, E
  <2> QED
    BY <1>1, NamesAreFinite, FS_Injection
<1>3. Anonymous(E) \in SUBSET E
  BY DEF Anonymous
<1>4. IsFiniteSet(Anonymous(E))
  BY <1>2, <1>3, FS_Subset
<1>5. Groups(E) = {group[o] : o \in Anonymous(E)}
  BY DEF Groups
<1>6. IsFiniteSet({group[o] : o \in Anonymous(E)})
  <2> HIDE DEF group, E
  <2> QED
    BY <1>4, ImageIsFinite
<1> QED
  BY <1>2, <1>4, <1>5, <1>6

\* A scene whose objects are tracked by cameras, each of its own.
IsOrdinary(s) ==
    /\ IsScene(s) /\ TrackedByCameras(s.active)
    /\ \A o \in s.active : o.min <= o.max
    /\ \A o, p \in s.active : o.family = "visual" /\ p.family = "visual"
                              => o.target = Nothing \/ o.target # p.target \/ o = p

\* What a group of such a scene counts, and that nobody is identified on it.
IsApart(s, g) ==
    g.target # Nothing =>
        /\ g.observer # Nothing
        /\ \A o \in s.active : o.who # Nothing /\ Observer(o) = g.observer => o.target # g.target

\* So counts what a camera or an observer groups.
IsCounted(s, g) ==
    /\ g.min \in Nat /\ g.max \in Nat /\ g.min <= g.max
    /\ g.key[1] # "area-population"
    /\ IsApart(s, g)

\* What one observation counts.
LEMMA IntervalsAreIntervals ==
    ASSUME NEW o \in Observation, o.min <= o.max
    PROVE  Interval(o).min \in Nat /\ Interval(o).max \in Nat /\ Interval(o).min <= Interval(o).max
<1>1. o.min \in Nat /\ o.max \in Nat
  BY DEF Observation
<1> DEFINE T == {o.min, 1}
           m == Min(T)
<1>2. m \in Nat /\ m <= o.min
  <2>1. \E x \in T : \A y \in T : x <= y
    BY <1>1
  <2>2. Min(T) \in T /\ \A y \in T : Min(T) <= y
    <3> HIDE DEF T
    <3> QED
      BY <2>1 DEF Min
  <2> QED
    BY <1>1, <2>2
<1> HIDE DEF m
<1>3. Interval(o) = [min |-> IF o.young /\ o.max > 1 THEN m ELSE o.min, max |-> o.max]
  BY DEF Interval, m
<1> QED
  BY <1>1, <1>2, <1>3

\* The groups of an ordinary scene count so.
LEMMA GroupsAreCounted ==
    ASSUME NEW s, IsOrdinary(s)
    PROVE  \A g \in Groups(s.active) : IsCounted(s, g)
<1> DEFINE E == s.active
           of(o) == {p \in Anonymous(E) : KeyOf(p) = KeyOf(o)}
<1>1. ASSUME NEW o \in Anonymous(E)
      PROVE  IsCounted(s, GroupOf(of(o)))
  <2> DEFINE S == of(o)
             x == NewestOf(S)
             g == GroupOf(S)
             mins == {Interval(p).min : p \in S}
             maxs == {Interval(p).max : p \in S}
  <2>1. S # {} /\ S \in SUBSET Anonymous(E) /\ S \subseteq E
    BY <1>1 DEF Anonymous
  <2>2. HaveNames(S) /\ \A p \in S : p \in Observation /\ p.min <= p.max
    BY <2>1, SceneObservations DEF IsOrdinary, IsScene, HaveNames
  <2>3. \A p \in S : AgeOf(p) \in Nat
    <3> TAKE p \in S
    <3>1. p.age \in 0 .. MaxAge /\ p.loc \in Claim \cup {Nothing}
      BY <2>2, ObservationFields
    <3>2. p.loc # Nothing => p.loc.age \in Nat
      BY <3>1, ClaimFields
    <3> QED
      BY <3>1, <3>2, WindowsAssumption DEF AgeOf
  <2>4. x \in S
    <3> HIDE DEF S
    <3> QED
      BY <2>1, <2>2, <2>3, NewestExists
  <2>5. IsFiniteSet(S)
    <3>1. IsFiniteSet(Anonymous(E))
      BY ScenesAreFinite DEF IsOrdinary
    <3> HIDE DEF S
    <3> QED
      BY <2>1, <3>1, FS_Subset
  <2>6. x \in E /\ x.who = Nothing /\ KeyOf(x) = KeyOf(o)
    BY <2>1, <2>4 DEF Anonymous
  <2> HIDE DEF x
  <2>7. /\ g.key = KeyOf(x) /\ g.target = x.target /\ g.observer = Observer(x)
        /\ g.min = Max(mins) /\ g.max = Max(maxs)
    BY DEF GroupOf, x
  <2>8. /\ mins \in SUBSET Nat /\ maxs \in SUBSET Nat /\ mins # {} /\ maxs # {}
        /\ \A p \in S : Interval(p).min <= Interval(p).max
    BY <2>1, <2>2, IntervalsAreIntervals
  <2>9. IsFiniteSet(mins) /\ IsFiniteSet(maxs)
    <3> DEFINE min == [p \in S |-> Interval(p).min]
               max == [p \in S |-> Interval(p).max]
    <3>1. mins = {min[p] : p \in S} /\ maxs = {max[p] : p \in S}
      OBVIOUS
    <3>2. IsFiniteSet({min[p] : p \in S}) /\ IsFiniteSet({max[p] : p \in S})
      <4> HIDE DEF min, max, S
      <4> QED
        BY <2>5, ImageIsFinite
    <3> QED
      BY <3>1, <3>2
  <2>10. /\ Max(mins) \in mins /\ \A n \in mins : n <= Max(mins)
         /\ Max(maxs) \in maxs /\ \A n \in maxs : n <= Max(maxs)
    <3> HIDE DEF mins, maxs
    <3> QED
      BY <2>8, <2>9, MaxIsGreatest
  <2>11. Max(mins) <= Max(maxs)
    <3>1. PICK p \in S : Max(mins) = Interval(p).min
      BY <2>10
    <3>2. Interval(p).max <= Max(maxs) /\ Interval(p).min <= Interval(p).max
      BY <2>8, <2>10
    <3>3. Interval(p).max \in Nat /\ Interval(p).min \in Nat /\ Max(maxs) \in Nat
      BY <2>2, <2>8, <2>10, IntervalsAreIntervals
    <3> QED
      BY <3>1, <3>2, <3>3
  <2>12. g.min \in Nat /\ g.max \in Nat /\ g.min <= g.max
    <3> HIDE DEF mins, maxs
    <3> QED
      BY <2>7, <2>8, <2>10, <2>11
  <2>13. KeyOf(x)[1] # "area-population"
    BY DEF KeyOf
  <2>14. ASSUME x.target # Nothing
         PROVE  /\ Observer(x) # Nothing
                /\ \A p \in E : p.who # Nothing /\ Observer(p) = Observer(x) => p.target # x.target
    <3>1. x.family = "visual" /\ x.coverage # Nothing
      BY <2>1, <2>4, <2>14 DEF IsOrdinary, TrackedByCameras, x
    <3>2. Observer(x) # Nothing
      BY <3>1 DEF Observer
    <3>3. ASSUME NEW p \in E, p.who # Nothing, Observer(p) = Observer(x) PROVE p.target # x.target
      <4>1. p.family = "visual"
        BY <3>2, <3>3 DEF Observer
      <4>2. p # x
        BY <2>6, <3>3
      <4> QED
        BY <2>6, <2>14, <3>1, <4>1, <4>2 DEF IsOrdinary
    <3> QED
      BY <3>2, <3>3
  <2> HIDE DEF g
  <2> QED
    BY <2>7, <2>12, <2>13, <2>14 DEF IsCounted, IsApart, g
<1>2. \A g \in Groups(E) : \E o \in Anonymous(E) : g = GroupOf(of(o))
  BY DEF Groups
<1> QED
  BY <1>1, <1>2

-----------------------------------------------------------------------------
\* The sums of the resolver, whatever function tells the terms.
LEMMA MaxSumIsSum ==
    ASSUME NEW G, IsFiniteSet(G), NEW f, \A g \in G : f[g] = g.max
    PROVE  MaxSum(G) = Sum(f, G)
<1> DEFINE e == [g \in G |-> g.max]
<1>1. e = [g \in G |-> e[g]] /\ \A g \in G : e[g] = f[g]
  OBVIOUS
<1>2. MaxSum(G) = SumFunction(e)
  BY DEF MaxSum
<1> HIDE DEF e
<1> QED
  BY <1>1, <1>2, SumFunctionIsSum, SumIsLocal

\* The same for what is counted.
LEMMA CountSumIsSum ==
    ASSUME NEW C, IsFiniteSet(C), NEW f, \A c \in C : f[c] = c.n
    PROVE  CountSum(C) = Sum(f, C)
<1> DEFINE e == [c \in C |-> c.n]
<1>1. e = [c \in C |-> e[c]] /\ \A c \in C : e[c] = f[c]
  OBVIOUS
<1>2. CountSum(C) = SumFunction(e)
  BY DEF CountSum
<1> HIDE DEF e
<1> QED
  BY <1>1, <1>2, SumFunctionIsSum, SumIsLocal

\* What the camera that sees most sees of every cluster is no more than all there is.
LEMMA ClustersAreNoMore ==
    ASSUME NEW C, IsFiniteSet(C), \A c \in C : c.n \in Nat
    PROVE  TrackedMinimum(C) \in Nat /\ TrackedMinimum(C) <= CountSum(C)
<1> DEFINE K == {ClusterOf(c.group) : c \in C}
           part == [c \in C |-> ClusterOf(c.group)]
           cluster(k) == {c \in C : ClusterOf(c.group) = k}
           by(k, c) == {d \in cluster(k) : Seer(d.group) = Seer(c.group)}
           seen(k) == {CountSum(by(k, c)) : c \in cluster(k)}
           f == [k \in K |-> Max(seen(k))]
           n == [c \in C |-> c.n]
           h == [k \in K |-> Sum(n, PartOf(C, part, k))]
<1>1. TrackedMinimum(C) = SumFunction(f)
  BY DEF TrackedMinimum
<1>2. SumFunction(f) = Sum(f, K)
  <2>1. f = [k \in K |-> f[k]]
    OBVIOUS
  <2> HIDE DEF f
  <2> QED
    BY <2>1, SumFunctionIsSum
<1>3. part \in [C -> K] /\ IsFiniteSet(K)
  <2>1. K = {part[c] : c \in C}
    OBVIOUS
  <2>2. IsFiniteSet({part[c] : c \in C})
    <3> HIDE DEF part
    <3> QED
      BY ImageIsFinite
  <2> QED
    BY <2>1, <2>2
<1>4. \A c \in C : n[c] = c.n /\ n[c] \in Nat
  OBVIOUS
<1>5. \A k \in K : cluster(k) = PartOf(C, part, k) /\ h[k] = Sum(n, PartOf(C, part, k))
  BY DEF PartOf
<1> HIDE DEF n, h
<1>6. ASSUME NEW k \in K
      PROVE  f[k] \in Nat /\ h[k] \in Nat /\ f[k] <= h[k]
  <2>1. cluster(k) \in SUBSET C /\ cluster(k) # {} /\ IsFiniteSet(cluster(k))
    <3>1. cluster(k) \in SUBSET C /\ cluster(k) # {}
      OBVIOUS
    <3> HIDE DEF cluster
    <3> QED
      BY <3>1, FS_Subset
  <2>2. h[k] = Sum(n, cluster(k))
    BY <1>5
  <2> DEFINE S == cluster(k)
  <2>3. h[k] \in Nat
    <3> HIDE DEF S
    <3>1. \A c \in S : n[c] \in Nat
      BY <1>4, <2>1 DEF S
    <3>2. Sum(n, S) \in Nat
      BY <2>1, <3>1, SumIsNatural DEF S
    <3> QED
      BY <2>2, <3>2 DEF S
  <2>4. ASSUME NEW c \in cluster(k)
        PROVE  CountSum(by(k, c)) \in Nat /\ CountSum(by(k, c)) <= h[k]
    <3> DEFINE D == by(k, c)
    <3>1. D \in SUBSET S
      OBVIOUS
    <3>2. IsFiniteSet(D) /\ \A d \in S : n[d] \in Nat /\ n[d] = d.n
      <4> HIDE DEF D, S
      <4>1. IsFiniteSet(D)
        BY <2>1, <3>1, FS_Subset DEF S
      <4> QED
        BY <1>4, <2>1, <4>1 DEF S
    <3> HIDE DEF D, S
    <3>3. CountSum(D) = Sum(n, D)
      BY <3>1, <3>2, CountSumIsSum
    <3>4. Sum(n, D) \in Nat /\ Sum(n, D) <= Sum(n, S)
      BY <2>1, <3>1, <3>2, SumIsNatural, SumOfSome DEF S
    <3> QED
      BY <2>2, <3>3, <3>4 DEF D, S
  <2>5. IsFiniteSet(seen(k)) /\ seen(k) # {} /\ seen(k) \in SUBSET Nat
    <3> DEFINE each == [c \in cluster(k) |-> CountSum(by(k, c))]
    <3>1. seen(k) = {each[c] : c \in cluster(k)}
      OBVIOUS
    <3>2. IsFiniteSet({each[c] : c \in cluster(k)})
      <4> HIDE DEF each, cluster
      <4> QED
        BY <2>1, ImageIsFinite
    <3>3. seen(k) # {}
      BY <2>1
    <3> QED
      BY <2>4, <3>1, <3>2, <3>3
  <2>6. Max(seen(k)) \in seen(k)
    <3> HIDE DEF seen
    <3> QED
      BY <2>5, MaxIsGreatest
  <2>7. f[k] = Max(seen(k))
    OBVIOUS
  <2> QED
    BY <2>3, <2>4, <2>6, <2>7
<1> HIDE DEF f, K, cluster
<1>7. Sum(f, K) \in Nat /\ Sum(f, K) <= Sum(h, K)
  BY <1>3, <1>6, SumIsNatural, SumIsMonotone
<1>8. Sum(h, K) = Sum(n, C)
  <2> HIDE DEF part
  <2> QED
    BY <1>3, <1>4, <1>5, SumOfParts
<1>9. CountSum(C) = Sum(n, C)
  BY <1>4, CountSumIsSum
<1> QED
  BY <1>1, <1>2, <1>7, <1>8, <1>9

\* So the objects tracked are no more than the greatest number of them.
LEMMA TrackedAreNoMore ==
    ASSUME NEW G, IsFiniteSet(G), \A g \in G : g.min \in Nat /\ g.max \in Nat /\ g.min <= g.max
    PROVE  /\ TrackedMinimum(Whole(G)) \in Nat /\ MaxSum(G) \in Nat
           /\ TrackedMinimum(Whole(G)) <= MaxSum(G)
<1> DEFINE C == Whole(G)
           F == [g \in G |-> [group |-> g, n |-> g.min]]
           n == [c \in C |-> c.n]
           min == [g \in G |-> g.min]
           max == [g \in G |-> g.max]
<1>1. C = {F[g] : g \in G}
  BY DEF Whole
<1>2. \A g, h \in G : F[g] = F[h] => g = h
  OBVIOUS
<1>3. \A g \in G : n[F[g]] = min[g]
  BY <1>1
<1>4. \A c \in C : n[c] = c.n /\ c.n \in Nat
  BY DEF Whole
<1>5. \A g \in G : min[g] \in Nat /\ max[g] \in Nat /\ min[g] <= max[g] /\ max[g] = g.max
  OBVIOUS
<1>6. IsFiniteSet(C)
  <2>1. IsFiniteSet({F[g] : g \in G})
    <3> HIDE DEF F
    <3> QED
      BY ImageIsFinite
  <2> QED
    BY <1>1, <2>1
<1> HIDE DEF C, F, n, min, max
<1>7. Sum(n, C) = Sum(min, G)
  BY <1>1, <1>2, <1>3, <1>5, SumOfImage
<1>8. Sum(min, G) <= Sum(max, G) /\ Sum(max, G) \in Nat
  BY <1>5, SumIsMonotone, SumIsNatural
<1>9. CountSum(C) = Sum(n, C) /\ MaxSum(G) = Sum(max, G)
  BY <1>4, <1>5, <1>6, CountSumIsSum, MaxSumIsSum
<1>10. TrackedMinimum(C) \in Nat /\ TrackedMinimum(C) <= CountSum(C)
  BY <1>4, <1>6, ClustersAreNoMore
<1>11. CountSum(C) \in Nat
  <2>1. Sum(min, G) \in Nat
    BY <1>5, SumIsNatural
  <2> QED
    BY <1>7, <1>9, <2>1
<1> QED
  BY <1>7, <1>8, <1>9, <1>10, <1>11 DEF C

-----------------------------------------------------------------------------
\* Evidence as the resolver counts it, in a scene or in a room.
IsEvidence(E) ==
    /\ IsFiniteSet(E) /\ HaveNames(E)
    /\ \A o \in E : /\ o.min \in Nat /\ o.max \in Nat /\ AgeOf(o) \in Nat
                    /\ o.loc \in Claim \cup {Nothing} /\ o.dependency \in Name \cup {Nothing}

\* Groups that count numbers.
HaveCounts(G) == IsFiniteSet(G) /\ \A g \in G : g.min \in Nat /\ g.max \in Nat

\* The least of some numbers of observations.
LEMMA LeastIsANumber ==
    ASSUME NEW o, o.min \in Nat, o.max \in Nat
    PROVE  Interval(o).min \in Nat /\ Interval(o).min <= o.min /\ Interval(o).max = o.max
<1> DEFINE T == {o.min, 1}
           m == Min(T)
<1>1. m \in Nat /\ m <= o.min
  <2>1. \E x \in T : \A y \in T : x <= y
    OBVIOUS
  <2>2. Min(T) \in T /\ \A y \in T : Min(T) <= y
    <3> HIDE DEF T
    <3> QED
      BY <2>1 DEF Min
  <2> QED
    BY <2>2
<1> HIDE DEF m
<1>2. Interval(o) = [min |-> IF o.young /\ o.max > 1 THEN m ELSE o.min, max |-> o.max]
  BY DEF Interval, m
<1> QED
  BY <1>1, <1>2

\* The greatest of finitely many numbers that a function tells.
LEMMA GreatestOfImage ==
    ASSUME NEW S, IsFiniteSet(S), S # {}, NEW f, \A x \in S : f[x] \in Nat
    PROVE  LET T == {f[x] : x \in S} IN Max(T) \in T /\ Max(T) \in Nat /\ \A x \in S : f[x] <= Max(T)
<1> DEFINE T == {f[x] : x \in S}
<1>1. T \in SUBSET Nat /\ T # {} /\ \A x \in S : f[x] \in T
  OBVIOUS
<1>2. IsFiniteSet(T)
  BY ImageIsFinite
<1> HIDE DEF T
<1>3. Max(T) \in T /\ \A x \in T : x <= Max(T)
  BY <1>1, <1>2, MaxIsGreatest
<1>4. Max(T) \in T /\ Max(T) \in Nat /\ \A x \in S : f[x] <= Max(T)
  BY <1>1, <1>3
<1> QED
  BY <1>4 DEF T

\* Groups of evidence count numbers, each under its own key.
LEMMA EvidenceIsGrouped ==
    ASSUME NEW E, IsEvidence(E)
    PROVE  /\ HaveCounts(Groups(E))
           /\ \A g \in Groups(E) : /\ g = GroupFields(g) /\ g.loc \in Claim \cup {Nothing}
                                   /\ g.target = Nothing => g.key \in Key
           /\ \A g, h \in Groups(E) : g.key = h.key => g = h
<1> DEFINE A == Anonymous(E)
           of(o) == {p \in A : KeyOf(p) = KeyOf(o)}
           group == [o \in A |-> GroupOf(of(o))]
<1>1. A \in SUBSET E /\ IsFiniteSet(A)
  <2>1. A \in SUBSET E
    BY DEF Anonymous
  <2> HIDE DEF A
  <2> QED
    BY <2>1, FS_Subset DEF IsEvidence
<1> HIDE DEF A
<1>2. ASSUME NEW o \in A
      PROVE  LET g == GroupOf(of(o)) IN
             /\ g = GroupFields(g) /\ g.loc \in Claim \cup {Nothing} /\ g.key = KeyOf(o)
             /\ g.target = Nothing => g.key \in Key
             /\ g.min \in Nat /\ g.max \in Nat
  <2> DEFINE S == of(o)
             x == NewestOf(S)
             g == GroupOf(S)
             min == [p \in S |-> Interval(p).min]
             max == [p \in S |-> Interval(p).max]
  <2>1. S # {} /\ S \in SUBSET E /\ S \in SUBSET A
    BY <1>1, <1>2
  <2>2. IsFiniteSet(S)
    <3> HIDE DEF S
    <3> QED
      BY <1>1, <2>1, FS_Subset
  <2>3. x \in S
    <3>1. HaveNames(S) /\ \A p \in S : AgeOf(p) \in Nat
      BY <2>1 DEF IsEvidence, HaveNames
    <3> HIDE DEF S
    <3> QED
      BY <2>1, <3>1, NewestExists
  <2>4. x \in E /\ KeyOf(x) = KeyOf(o)
    BY <2>1, <2>3
  <2>5. \A p \in S : min[p] \in Nat /\ max[p] \in Nat
    BY <2>1, LeastIsANumber DEF IsEvidence
  <2> HIDE DEF S, x, min, max
  <2>6. Max({min[p] : p \in S}) \in Nat /\ Max({max[p] : p \in S}) \in Nat
    BY <2>1, <2>2, <2>5, GreatestOfImage
  <2>7. /\ g = GroupFields(g)
        /\ g.key = KeyOf(x) /\ g.loc = x.loc /\ g.target = x.target
        /\ g.min = Max({min[p] : p \in S}) /\ g.max = Max({max[p] : p \in S})
    BY DEF GroupOf, GroupFields, x, min, max
  <2> HIDE DEF g
  <2>8. g.target = Nothing => g.key \in Key
    <3>1. x.dependency \in Name \cup {Nothing} /\ x.id \in Name
      BY <2>4 DEF IsEvidence, HaveNames
    <3>2. Classes[2] = "dependency" /\ Classes[3] = "observation"
      BY DEF Classes
    <3> QED
      BY <2>7, <3>1, <3>2 DEF KeyOf, Key
  <2>9. g.loc \in Claim \cup {Nothing}
    BY <2>4, <2>7 DEF IsEvidence
  <2> QED
    BY <2>4, <2>6, <2>7, <2>8, <2>9 DEF g, S
<1>3. Groups(E) = {group[o] : o \in A} /\ \A o \in A : group[o] = GroupOf(of(o))
  BY DEF Groups, A
<1>4. IsFiniteSet(Groups(E))
  <2> HIDE DEF group
  <2> QED
    BY <1>1, <1>3, ImageIsFinite
<1>5. ASSUME NEW g \in Groups(E)
      PROVE  \E o \in A : g = GroupOf(of(o)) /\ g.key = KeyOf(o)
  BY <1>2, <1>3
<1>6. ASSUME NEW g \in Groups(E), NEW h \in Groups(E), g.key = h.key
      PROVE  g = h
  <2>1. PICK o \in A : g = GroupOf(of(o)) /\ g.key = KeyOf(o)
    BY <1>5
  <2>2. PICK p \in A : h = GroupOf(of(p)) /\ h.key = KeyOf(p)
    BY <1>5
  <2>3. of(o) = of(p)
    BY <1>6, <2>1, <2>2
  <2> QED
    BY <2>1, <2>2, <2>3
<1>7. ASSUME NEW g \in Groups(E)
      PROVE  /\ g = GroupFields(g) /\ g.loc \in Claim \cup {Nothing}
             /\ g.target = Nothing => g.key \in Key
             /\ g.min \in Nat /\ g.max \in Nat
  <2>1. PICK o \in A : g = GroupOf(of(o))
    BY <1>5
  <2> HIDE DEF of
  <2> QED
    BY <1>2, <2>1
<1> QED
  BY <1>4, <1>6, <1>7 DEF HaveCounts

-----------------------------------------------------------------------------
\* The population of a room, in parts.
Aggregates(G, a) == OfRoom(G, a) \ Tracks(OfRoom(G, a))

\* what the tracked objects of the room leave of its counters,
RestOf(G, a) == Residue(Tracks(OfRoom(G, a)), Aggregates(G, a))

\* whose sources,
SourcesOf(G, a) == UNION {g.sources : g \in Aggregates(G, a)}

\* and kind,
KindOf(G, a) == IF \E g \in Aggregates(G, a) : g.kind = "person" THEN "person" ELSE "unknown"

\* make one group;
PopulationOf(G, a) ==
    [NewestGroup(Aggregates(G, a)) EXCEPT
        !.key = <<"area-population", a>>, !.kind = KindOf(G, a),
        !.min = RestOf(G, a).min, !.max = RestOf(G, a).max,
        !.sources = SourcesOf(G, a), !.observer = Nothing]

\* and a group for which more sources vouch.
Vouching(g, S) == [g EXCEPT !.sources = @ \cup S]

\* There is nothing else in it.
LEMMA RoomPopulationParts ==
    ASSUME NEW G, NEW a
    PROVE  RoomPopulation(G, a) =
             IF Aggregates(G, a) = {} THEN Tracks(OfRoom(G, a))
             ELSE IF RestOf(G, a).max = 0
                  THEN {Vouching(g, SourcesOf(G, a)) : g \in Tracks(OfRoom(G, a))}
                  ELSE Tracks(OfRoom(G, a)) \cup {PopulationOf(G, a)}
BY DEF RoomPopulation, Aggregates, RestOf, SourcesOf, KindOf, PopulationOf, Vouching

\* A group for which more sources vouch is the same group.
LEMMA VouchingFields ==
    ASSUME NEW g, g = GroupFields(g), NEW S
    PROVE  Vouching(g, S) =
             [key |-> g.key, kind |-> g.kind, loc |-> g.loc, min |-> g.min, max |-> g.max,
              sources |-> g.sources \cup S, target |-> g.target, coverage |-> g.coverage,
              observer |-> g.observer]
<1> DEFINE T == g.sources \cup S
           h == Vouching(g, S)
<1>1. h = [g EXCEPT !.sources = T]
  BY DEF Vouching
<1> HIDE DEF T, h
<1>2. h = [key |-> g.key, kind |-> g.kind, loc |-> g.loc, min |-> g.min, max |-> g.max,
           sources |-> T, target |-> g.target, coverage |-> g.coverage, observer |-> g.observer]
  BY <1>1 DEF GroupFields
<1> QED
  BY <1>2 DEF h, T

\* What is left of what the counters of a room count.
LEMMA RestIsCounted ==
    ASSUME NEW G, HaveCounts(G), NEW a, Aggregates(G, a) # {}
    PROVE  /\ RestOf(G, a).min \in Nat /\ RestOf(G, a).max \in Nat
           /\ TrackedMinimum(Whole(Tracks(OfRoom(G, a)))) \in Nat
           /\ \A g \in Aggregates(G, a) :
                 g.max <= RestOf(G, a).max + TrackedMinimum(Whole(Tracks(OfRoom(G, a))))
<1> DEFINE specific == Tracks(OfRoom(G, a))
           aggregates == Aggregates(G, a)
           min == [g \in aggregates |-> g.min]
           max == [g \in aggregates |-> g.max]
           mins == {min[g] : g \in aggregates}
           maxs == {max[g] : g \in aggregates}
           low == TrackedMinimum(Whole(specific))
<1>1. specific \in SUBSET G /\ aggregates \in SUBSET G
  BY DEF Tracks, OfRoom, Aggregates
<1>2. IsFiniteSet(specific) /\ IsFiniteSet(aggregates)
  <2> HIDE DEF specific, aggregates
  <2> QED
    BY <1>1, FS_Subset DEF HaveCounts
<1>3. \A g \in aggregates : min[g] = g.min /\ max[g] = g.max /\ g.min \in Nat /\ g.max \in Nat
  BY <1>1 DEF HaveCounts
<1>4. RestOf(G, a) = [min |-> Max({0, Max(mins) - MaxSum(specific)}),
                      max |-> Max({0, Max(maxs) - low})]
  <2>1. mins = {g.min : g \in aggregates} /\ maxs = {g.max : g \in aggregates}
    OBVIOUS
  <2> HIDE DEF mins, maxs
  <2> QED
    BY <2>1 DEF RestOf, Residue
<1> HIDE DEF min, max
<1>5. Max(mins) \in Nat /\ Max(maxs) \in Nat /\ \A g \in aggregates : g.max <= Max(maxs)
  <2>1. aggregates # {}
    OBVIOUS
  <2> HIDE DEF aggregates
  <2> QED
    BY <1>2, <1>3, <2>1, GreatestOfImage
<1> HIDE DEF mins, maxs
<1>6. MaxSum(specific) \in Nat /\ low \in Nat
  <2> DEFINE f == [g \in specific |-> g.max]
             C == Whole(specific)
             pair == [g \in specific |-> [group |-> g, n |-> g.min]]
  <2>1. \A g \in specific : f[g] = g.max /\ f[g] \in Nat
    BY <1>1 DEF HaveCounts
  <2>2. C = {pair[g] : g \in specific} /\ \A c \in C : c.n \in Nat
    BY <1>1 DEF Whole, HaveCounts
  <2> HIDE DEF f, pair, C, specific
  <2>3. MaxSum(specific) = Sum(f, specific) /\ Sum(f, specific) \in Nat
    BY <1>2, <2>1, MaxSumIsSum, SumIsNatural
  <2>4. IsFiniteSet(C)
    BY <1>2, <2>2, ImageIsFinite
  <2>5. TrackedMinimum(C) \in Nat
    BY <2>2, <2>4, ClustersAreNoMore
  <2> QED
    BY <2>3, <2>5 DEF C
<1> HIDE DEF specific, low
<1> DEFINE x == Max(mins) - MaxSum(specific)
           y == Max(maxs) - low
<1>7. x \in Int /\ y \in Int
  BY <1>5, <1>6
<1>8. RestOf(G, a).min = Max({0, x}) /\ RestOf(G, a).max = Max({0, y})
  BY <1>4
<1> HIDE DEF x
<1>9. RestOf(G, a).min \in Nat
  BY <1>7, <1>8, GreaterOfTwo
<1>10. RestOf(G, a).max = (IF 0 >= y THEN 0 ELSE y)
  <2> HIDE DEF y
  <2> QED
    BY <1>7, <1>8, GreaterOfTwo
<1>11. \A g \in aggregates : g.max <= RestOf(G, a).max + low
  BY <1>3, <1>5, <1>6, <1>10
<1>12. RestOf(G, a).max \in Nat
  BY <1>5, <1>6, <1>10
<1> HIDE DEF aggregates
<1> QED
  BY <1>6, <1>9, <1>11, <1>12 DEF specific, low, aggregates

\* The population of a room is located as its newest counter is.
LEMMA PopulationIsThere ==
    ASSUME NEW E, IsEvidence(E), NEW a \in Area, Aggregates(Groups(E), a) # {}
    PROVE  \E h \in Aggregates(Groups(E), a) :
              PopulationOf(Groups(E), a) =
                [key |-> <<"area-population", a>>, kind |-> KindOf(Groups(E), a), loc |-> h.loc,
                 min |-> RestOf(Groups(E), a).min, max |-> RestOf(Groups(E), a).max,
                 sources |-> SourcesOf(Groups(E), a), target |-> Nothing,
                 coverage |-> h.coverage, observer |-> Nothing]
<1> DEFINE G == Groups(E)
           A == Aggregates(G, a)
           h == NewestGroup(A)
           kind == KindOf(G, a)
           rest == RestOf(G, a)
           sources == SourcesOf(G, a)
           p == PopulationOf(G, a)
<1>1. A \in SUBSET G /\ \A g \in A : g.target = Nothing /\ InRoom(g.loc)
  BY DEF Aggregates, Tracks, OfRoom
<1>2. \A g \in G : /\ g = GroupFields(g) /\ g.loc \in Claim \cup {Nothing}
                   /\ g.target = Nothing => g.key \in Key
  BY EvidenceIsGrouped
<1>3. \A f, g \in G : f.key = g.key => f = g
  BY EvidenceIsGrouped
<1> HIDE DEF G
<1>4. HaveKeys(A) /\ \A g \in A : g.loc \in Claim /\ g.loc # Nothing
  BY <1>1, <1>2, <1>3 DEF HaveKeys, InRoom
<1>5. A # {}
  BY DEF G
<1>6. p = [h EXCEPT !.key = <<"area-population", a>>, !.kind = kind, !.min = rest.min,
                    !.max = rest.max, !.sources = sources, !.observer = Nothing]
  BY DEF PopulationOf
<1> HIDE DEF A, h, kind, rest, sources, p
<1>7. h \in A
  BY <1>4, <1>5, NewestGroupExists DEF h
<1>8. h = GroupFields(h) /\ h.target = Nothing
  BY <1>1, <1>2, <1>7
<1>9. p = [key |-> <<"area-population", a>>, kind |-> kind, loc |-> h.loc, min |-> rest.min,
           max |-> rest.max, sources |-> sources, target |-> Nothing, coverage |-> h.coverage,
           observer |-> Nothing]
  BY <1>6, <1>8 DEF GroupFields
<1> QED
  BY <1>7, <1>9 DEF A, kind, rest, sources, p, G

\* The groups of all rooms count numbers.
LEMMA ReconciledIsCounted ==
    ASSUME NEW E, IsEvidence(E)
    PROVE  HaveCounts(Reconciled(Groups(E)))
<1> DEFINE G == Groups(E)
           outside == G \ UNION {OfRoom(G, a) : a \in Area}
           room == [a \in Area |-> RoomPopulation(G, a)]
           rooms == {room[a] : a \in Area}
<1>1. HaveCounts(G) /\ \A g \in G : g = GroupFields(g)
  BY EvidenceIsGrouped
<1>2. Reconciled(G) = outside \cup UNION rooms
  BY DEF Reconciled
<1>3. outside \in SUBSET G
  OBVIOUS
<1>4. ASSUME NEW a \in Area
      PROVE  HaveCounts(RoomPopulation(G, a))
  <2> DEFINE specific == Tracks(OfRoom(G, a))
             S == SourcesOf(G, a)
             vouch == [g \in specific |-> Vouching(g, S)]
             p == PopulationOf(G, a)
  <2>1. specific \in SUBSET G
    BY DEF Tracks, OfRoom
  <2> HIDE DEF specific, S
  <2>2. IsFiniteSet(specific) /\ \A g \in specific : g.min \in Nat /\ g.max \in Nat
    BY <1>1, <2>1, FS_Subset DEF HaveCounts
  <2>3. HaveCounts({Vouching(g, S) : g \in specific})
    <3>1. {Vouching(g, S) : g \in specific} = {vouch[g] : g \in specific}
          /\ \A g \in specific : vouch[g] = Vouching(g, S)
      OBVIOUS
    <3>2. \A g \in specific : Vouching(g, S).min \in Nat /\ Vouching(g, S).max \in Nat
      <4> TAKE g \in specific
      <4>1. g = GroupFields(g)
        BY <1>1, <2>1
      <4> HIDE DEF G
      <4> QED
        BY <2>2, <4>1, VouchingFields
    <3> HIDE DEF vouch
    <3>3. IsFiniteSet({vouch[g] : g \in specific})
      BY <2>2, ImageIsFinite
    <3> QED
      BY <3>1, <3>2, <3>3 DEF HaveCounts
  <2>4. ASSUME Aggregates(G, a) # {}
        PROVE  p.min \in Nat /\ p.max \in Nat
    <3>1. RestOf(G, a).min \in Nat /\ RestOf(G, a).max \in Nat
      <4> HIDE DEF G
      <4> QED
        BY <1>1, <2>4, RestIsCounted
    <3> QED
      BY <2>4, <3>1, PopulationIsThere
  <2>5. ASSUME Aggregates(G, a) # {}
        PROVE  HaveCounts(specific \cup {p})
    <3> HIDE DEF p
    <3>1. IsFiniteSet(specific \cup {p})
      BY <2>2, FS_AddElement
    <3> QED
      BY <2>2, <2>4, <2>5, <3>1 DEF HaveCounts
  <2> HIDE DEF p, G
  <2>6. HaveCounts(specific)
    BY <2>2 DEF HaveCounts
  <2> QED
    BY <2>3, <2>5, <2>6, RoomPopulationParts DEF specific, S, p
<1>5. IsFiniteSet(UNION rooms)
  <2>1. \A a \in Area : room[a] = RoomPopulation(G, a)
    OBVIOUS
  <2> HIDE DEF room
  <2>2. \A T \in rooms : IsFiniteSet(T)
    BY <1>4, <2>1 DEF HaveCounts
  <2>3. IsFiniteSet(rooms)
    BY NamesAreFinite, ImageIsFinite
  <2> HIDE DEF rooms
  <2> QED
    BY <2>2, <2>3, FS_UNION
<1>6. IsFiniteSet(outside)
  <2> HIDE DEF outside
  <2> QED
    BY <1>1, <1>3, FS_Subset DEF HaveCounts
<1>7. IsFiniteSet(outside \cup UNION rooms)
  <2> HIDE DEF outside, rooms
  <2> QED
    BY <1>5, <1>6, FS_Union
<1>8. \A g \in UNION rooms : \E a \in Area : g \in RoomPopulation(G, a)
  OBVIOUS
<1>9. \A g \in outside \cup UNION rooms : g.min \in Nat /\ g.max \in Nat
  <2> HIDE DEF G, outside, rooms
  <2> QED
    BY <1>1, <1>3, <1>4, <1>8 DEF HaveCounts
<1> QED
  BY <1>2, <1>7, <1>9 DEF HaveCounts

-----------------------------------------------------------------------------
\* The counts of the resolver are numbers.
LEMMA WholeIsCounted ==
    ASSUME NEW G, HaveCounts(G)
    PROVE  IsFiniteSet(Whole(G)) /\ \A c \in Whole(G) : c.n \in Nat /\ c.group \in G
<1> DEFINE pair == [g \in G |-> [group |-> g, n |-> g.min]]
<1>1. Whole(G) = {pair[g] : g \in G}
  BY DEF Whole
<1>2. IsFiniteSet({pair[g] : g \in G})
  <2> HIDE DEF pair
  <2> QED
    BY ImageIsFinite DEF HaveCounts
<1> QED
  BY <1>1, <1>2 DEF HaveCounts

\* What adds up numbers is one.
LEMMA SumFunctionIsNatural ==
    ASSUME NEW S, IsFiniteSet(S), NEW f, f = [x \in S |-> f[x]], \A x \in S : f[x] \in Nat
    PROVE  SumFunction(f) \in Nat
BY SumFunctionIsSum, SumIsNatural

\* Some groups of those are such groups,
LEMMA SomeOfCounted ==
    ASSUME NEW G, HaveCounts(G), NEW H \in SUBSET G
    PROVE  HaveCounts(H)
BY FS_Subset DEF HaveCounts

\* and their greatest counts add up to a number.
LEMMA MaxSumIsNatural ==
    ASSUME NEW G, HaveCounts(G)
    PROVE  MaxSum(G) \in Nat
<1> DEFINE f == [g \in G |-> g.max]
<1>1. \A g \in G : f[g] = g.max /\ f[g] \in Nat
  BY DEF HaveCounts
<1> HIDE DEF f
<1> QED
  BY <1>1, MaxSumIsSum, SumIsNatural DEF HaveCounts

\* So are those of the animals,
LEMMA AnimalsAreCounted ==
    ASSUME NEW G, HaveCounts(G)
    PROVE  /\ AnimalCount(G).min \in Nat
           /\ AnimalCount(G).max = MaxSum(AnimalsOf(G)) /\ AnimalCount(G).max \in Nat
<1> DEFINE seen == TrackedMinimum(Whole(SeenAnimals(G)))
           V == AnimalViews(G)
           f == [v \in V |-> Max({g.min : g \in v})]
<1>1. AnimalCount(G) = [min |-> seen + SumFunction(f), max |-> MaxSum(AnimalsOf(G))]
  BY DEF AnimalCount
<1>2. AnimalsOf(G) \in SUBSET G /\ SeenAnimals(G) \in SUBSET G
  BY DEF AnimalsOf, SeenAnimals
<1>3. seen \in Nat
  BY <1>2, SomeOfCounted, WholeIsCounted, ClustersAreNoMore
<1>4. MaxSum(AnimalsOf(G)) \in Nat
  BY <1>2, SomeOfCounted, MaxSumIsNatural
<1> DEFINE unseen == AnimalsOf(G) \ SeenAnimals(G)
           view == [g \in unseen |->
                      {h \in unseen : \/ g = h
                                      \/ /\ g.coverage # Nothing /\ g.coverage = h.coverage
                                         /\ g.kind = h.kind}]
<1>5. V = {view[g] : g \in unseen}
  BY DEF AnimalViews
<1>6. unseen \in SUBSET G /\ IsFiniteSet(unseen)
  <2>1. unseen \in SUBSET G
    BY <1>2
  <2> HIDE DEF unseen
  <2> QED
    BY <2>1, FS_Subset DEF HaveCounts
<1>7. \A v \in V : v \in SUBSET unseen /\ v # {}
  BY <1>5
<1> HIDE DEF view, unseen
<1>8. IsFiniteSet(V)
  BY <1>5, <1>6, ImageIsFinite
<1>9. ASSUME NEW v \in V PROVE f[v] \in Nat
  <2> DEFINE min == [g \in v |-> g.min]
  <2>1. HaveCounts(v) /\ v # {}
    BY <1>6, <1>7, SomeOfCounted
  <2>2. \A g \in v : min[g] \in Nat
    BY <2>1 DEF HaveCounts
  <2>3. {min[g] : g \in v} = {g.min : g \in v}
    OBVIOUS
  <2>4. f[v] = Max({g.min : g \in v})
    OBVIOUS
  <2> HIDE DEF min, f
  <2>5. Max({min[g] : g \in v}) \in Nat
    BY <2>1, <2>2, GreatestOfImage DEF HaveCounts
  <2> QED
    BY <2>3, <2>4, <2>5
<1>10. SumFunction(f) \in Nat
  <2>1. f = [v \in V |-> f[v]]
    OBVIOUS
  <2> HIDE DEF f, V
  <2> QED
    BY <1>8, <1>9, <2>1, SumFunctionIsNatural
<1> HIDE DEF f, seen
<1> QED
  BY <1>1, <1>3, <1>4, <1>10

\* and of a room,
LEMMA RoomIsCounted ==
    ASSUME NEW E, IsEvidence(E), NEW items, HaveCounts(items)
    PROVE  /\ CountOf(E, items).min \in Nat /\ MaxSum(items) <= CountOf(E, items).max
           /\ \A o \in E : o.family = "counter" => Interval(o).min <= CountOf(E, items).min
<1> DEFINE tracked == {c \in Whole(items) : c.group.target # Nothing}
           people == {c \in tracked : c.group.kind = "person"}
           counters == {o \in E : o.family = "counter"}
           A == {g.min : g \in items}
           B == {Interval(o).min : o \in counters}
           C == {TrackedMinimum(tracked), TrackedMinimum(people) + AnimalCount(items).min}
           min == Max(A \cup B \cup C)
           max == Max({min, MaxSum(items)})
<1>1. CountOf(E, items) = [min |-> min, max |-> max]
  BY DEF CountOf
<1>2. A \in SUBSET Nat /\ IsFiniteSet(A)
  <2> DEFINE f == [g \in items |-> g.min]
  <2>1. A = {f[g] : g \in items} /\ A \in SUBSET Nat
    BY DEF HaveCounts
  <2> HIDE DEF f, A
  <2> QED
    BY <2>1, ImageIsFinite DEF HaveCounts
<1>3. B \in SUBSET Nat /\ IsFiniteSet(B)
  <2> DEFINE f == [o \in counters |-> Interval(o).min]
  <2>1. counters \in SUBSET E
    OBVIOUS
  <2>2. IsFiniteSet(counters)
    <3> HIDE DEF counters
    <3> QED
      BY <2>1, FS_Subset DEF IsEvidence
  <2>3. B = {f[o] : o \in counters} /\ B \in SUBSET Nat
    BY LeastIsANumber DEF IsEvidence
  <2> HIDE DEF f, B, counters
  <2> QED
    BY <2>2, <2>3, ImageIsFinite
<1>4. C \in SUBSET Nat /\ IsFiniteSet(C) /\ C # {}
  <2>1. tracked \in SUBSET Whole(items) /\ people \in SUBSET Whole(items)
    OBVIOUS
  <2>2. \A D \in SUBSET Whole(items) : TrackedMinimum(D) \in Nat
    <3> TAKE D \in SUBSET Whole(items)
    <3>1. IsFiniteSet(D) /\ \A c \in D : c.n \in Nat
      BY WholeIsCounted, FS_Subset
    <3> QED
      BY <3>1, ClustersAreNoMore
  <2> DEFINE m == TrackedMinimum(tracked)
             n == TrackedMinimum(people) + AnimalCount(items).min
  <2>3. m \in Nat /\ n \in Nat
    <3> HIDE DEF tracked, people
    <3> QED
      BY <2>1, <2>2, AnimalsAreCounted
  <2>4. C = {m} \cup {n}
    OBVIOUS
  <2> HIDE DEF m, n
  <2>5. IsFiniteSet({m} \cup {n})
    BY FS_Singleton, FS_Union
  <2> QED
    BY <2>3, <2>4, <2>5
<1> DEFINE D == A \cup B \cup C
<1>5. D \in SUBSET Nat /\ IsFiniteSet(D) /\ D # {}
  <2> HIDE DEF A, B, C
  <2>1. IsFiniteSet(A \cup B)
    BY <1>2, <1>3, FS_Union
  <2>2. IsFiniteSet((A \cup B) \cup C)
    BY <1>4, <2>1, FS_Union
  <2> QED
    BY <1>2, <1>3, <1>4, <2>2
<1>6. Max(D) \in Nat /\ \A n \in D : n <= Max(D)
  <2> HIDE DEF D
  <2> QED
    BY <1>5, MaxIsGreatest
<1>7. MaxSum(items) \in Nat
  BY MaxSumIsNatural
<1>8. min = Max(D)
  OBVIOUS
<1>9. \A o \in E : o.family = "counter" => Interval(o).min \in D
  OBVIOUS
<1> HIDE DEF min, D
<1>10. max >= MaxSum(items)
  BY <1>6, <1>7, <1>8, GreaterOfTwo
<1> HIDE DEF max
<1> QED
  BY <1>1, <1>6, <1>8, <1>9, <1>10

\* and of what the loop counts.
LEMMA LoopIsCounted ==
    ASSUME NEW C, IsFiniteSet(C), \A c \in C : c.n \in Nat /\ c.group.sources \in SUBSET Name
    PROVE  PopulationMinimum(C) \in Nat
<1> DEFINE G == {c.group : c \in C}
           group == [c \in C |-> c.group]
           cluster == [g \in G |-> {c \in C : c.group \in Overlapping(g, G)}]
           clusters == {cluster[g] : g \in G}
           tracked(K) == {c \in K : c.group.target # Nothing}
           all(K) == {c.n : c \in K} \cup SourceCounts(K) \cup {TrackedMinimum(tracked(K))}
           f == [K \in clusters |-> Max(all(K))]
<1>1. PopulationMinimum(C) = SumFunction(f)
  BY DEF PopulationMinimum
<1>2. IsFiniteSet(G)
  <2>1. G = {group[c] : c \in C}
    OBVIOUS
  <2> HIDE DEF group, G
  <2> QED
    BY <2>1, ImageIsFinite
<1>3. IsFiniteSet(clusters) /\ \A K \in clusters : K \in SUBSET C
  <2>1. \A K \in clusters : K \in SUBSET C
    OBVIOUS
  <2> HIDE DEF cluster, G
  <2> QED
    BY <1>2, <2>1, ImageIsFinite
<1>4. \A D \in SUBSET C : IsFiniteSet(D) /\ CountSum(D) \in Nat /\ TrackedMinimum(D) \in Nat
  <2> TAKE D \in SUBSET C
  <2> DEFINE n == [c \in D |-> c.n]
  <2>1. IsFiniteSet(D) /\ \A c \in D : c.n \in Nat /\ n[c] \in Nat /\ n[c] = c.n
    BY FS_Subset
  <2> HIDE DEF n
  <2>2. CountSum(D) \in Nat
    BY <2>1, CountSumIsSum, SumIsNatural
  <2>3. TrackedMinimum(D) \in Nat
    BY <2>1, ClustersAreNoMore
  <2> QED
    BY <2>1, <2>2, <2>3
<1>5. ASSUME NEW K \in clusters
      PROVE  f[K] \in Nat
  <2> DEFINE least == {c.n : c \in K}
             n == [c \in K |-> c.n]
             aggregates == {c \in K : c.group.observer = Nothing}
             sources == UNION {c.group.sources : c \in aggregates}
             each == [x \in sources |-> CountSum({c \in aggregates : x \in c.group.sources})]
             one == {TrackedMinimum(tracked(K))}
  <2>1. K \in SUBSET C
    BY <1>3
  <2>2. least \in SUBSET Nat /\ IsFiniteSet(least)
    <3>1. least = {n[c] : c \in K} /\ least \in SUBSET Nat
      BY <2>1
    <3>2. IsFiniteSet(K)
      BY <1>4, <2>1
    <3> HIDE DEF n, least
    <3>3. IsFiniteSet({n[c] : c \in K})
      BY <3>2, ImageIsFinite
    <3> QED
      BY <3>1, <3>3
  <2>3. IsFiniteSet(sources)
    <3>1. sources \in SUBSET Name
      BY <2>1
    <3> HIDE DEF sources
    <3> QED
      BY <3>1, NamesAreFinite, FS_Subset
  <2>4. SourceCounts(K) = {each[x] : x \in sources}
    BY DEF SourceCounts
  <2>5. \A x \in sources : each[x] \in Nat
    <3> TAKE x \in sources
    <3>1. {c \in aggregates : x \in c.group.sources} \in SUBSET C
      BY <2>1
    <3>2. each[x] = CountSum({c \in aggregates : x \in c.group.sources})
      OBVIOUS
    <3> HIDE DEF each, aggregates
    <3> QED
      BY <1>4, <3>1, <3>2
  <2>6. SourceCounts(K) \in SUBSET Nat /\ IsFiniteSet(SourceCounts(K))
    <3> HIDE DEF each, sources
    <3> QED
      BY <2>3, <2>4, <2>5, ImageIsFinite
  <2>7. one \in SUBSET Nat /\ IsFiniteSet(one) /\ one # {}
    <3>1. tracked(K) \in SUBSET C
      BY <2>1
    <3> QED
      BY <1>4, <3>1, FS_Singleton
  <2>8. IsFiniteSet(all(K)) /\ all(K) \in SUBSET Nat /\ all(K) # {}
    <3>1. all(K) = (least \cup SourceCounts(K)) \cup one
      OBVIOUS
    <3> HIDE DEF all, least, one
    <3>2. IsFiniteSet(least \cup SourceCounts(K))
      BY <2>2, <2>6, FS_Union
    <3>3. IsFiniteSet((least \cup SourceCounts(K)) \cup one)
      BY <2>7, <3>2, FS_Union
    <3> QED
      BY <2>2, <2>6, <2>7, <3>1, <3>3
  <2>9. f[K] = Max(all(K))
    OBVIOUS
  <2> HIDE DEF f, all
  <2> QED
    BY <2>8, <2>9, MaxIsGreatest
<1>6. f = [K \in clusters |-> f[K]]
  OBVIOUS
<1> HIDE DEF f, clusters
<1> QED
  BY <1>1, <1>3, <1>5, <1>6, SumFunctionIsNatural

-----------------------------------------------------------------------------
\* The evidence of a scene is evidence,
LEMMA SceneIsEvidence ==
    ASSUME NEW s, IsScene(s)
    PROVE  IsEvidence(s.active)
<1>1. IsFiniteSet(s.active) /\ HaveNames(s.active)
  BY ScenesAreFinite DEF IsScene
<1>2. ASSUME NEW o \in s.active
      PROVE  /\ o.min \in Nat /\ o.max \in Nat /\ AgeOf(o) \in Nat
             /\ o.loc \in Claim \cup {Nothing} /\ o.dependency \in Name \cup {Nothing}
  <2>1. o \in Observation
    BY SceneObservations
  <2>2. o.min \in Nat /\ o.max \in Nat
    BY <2>1 DEF Observation
  <2>3. o.age \in 0 .. MaxAge /\ o.loc \in Claim \cup {Nothing}
        /\ o.dependency \in Name \cup {Nothing}
    BY <2>1, ObservationFields
  <2>4. o.loc # Nothing => o.loc.age \in Nat
    BY <2>3, ClaimFields
  <2> QED
    BY <2>2, <2>3, <2>4, WindowsAssumption DEF AgeOf
<1> QED
  BY <1>1, <1>2 DEF IsEvidence

\* An identified body that is counted with the others of a room.
LEMMA UnnamedFields ==
    ASSUME NEW o \in Observation
    PROVE  LET u == Unnamed(o) IN
           /\ u.id = o.id /\ u.min = o.min /\ u.max = o.max /\ u.loc = o.loc /\ u.age = o.age
           /\ u.dependency = o.dependency
<1> DEFINE target == IF o.target = Nothing THEN o.who ELSE o.target
           u == Unnamed(o)
<1>1. u = [o EXCEPT !.who = Nothing, !.target = target]
  BY DEF Unnamed
<1>2. o = [id |-> o.id, source |-> o.source, target |-> o.target, dependency |-> o.dependency,
           coverage |-> o.coverage, family |-> o.family, kind |-> o.kind, who |-> o.who,
           idq |-> o.idq, loc |-> o.loc, ap |-> o.ap, fix |-> o.fix, age |-> o.age,
           min |-> o.min, max |-> o.max, young |-> o.young]
  BY DEF Observation
<1> HIDE DEF target, u
<1>3. u = [id |-> o.id, source |-> o.source, target |-> target, dependency |-> o.dependency,
           coverage |-> o.coverage, family |-> o.family, kind |-> o.kind, who |-> Nothing,
           idq |-> o.idq, loc |-> o.loc, ap |-> o.ap, fix |-> o.fix, age |-> o.age,
           min |-> o.min, max |-> o.max, young |-> o.young]
  BY <1>1, <1>2
<1>4. /\ u.id = o.id /\ u.min = o.min /\ u.max = o.max /\ u.loc = o.loc /\ u.age = o.age
      /\ u.dependency = o.dependency
  BY <1>3
<1> QED
  BY <1>4 DEF u

\* and so is that of a room.
LEMMA RoomIsEvidence ==
    ASSUME NEW s, IsScene(s), NEW people, NEW G, NEW a
    PROVE  IsEvidence(RoomEvidence(s, people, G, a))
<1> DEFINE E == s.active
           groups == {g \in Inside(G, a) : g.max > 0}
           sources == UNION {g.sources : g \in groups}
           named == {o \in Inside(DirectBodies(s, people), a) :
                       Observer(o) # Nothing \/ \A g \in groups : IsAnimal(g.kind)}
           unknown == {o \in Inside(E, a) : o.who = Nothing /\ o.source \in sources}
           unnamed == [o \in named |-> Unnamed(o)]
           R == RoomEvidence(s, people, G, a)
<1>1. R = unknown \cup {unnamed[o] : o \in named} /\ \A o \in named : unnamed[o] = Unnamed(o)
  BY DEF RoomEvidence
<1>2. /\ unknown \in SUBSET E /\ \A o \in unknown : o.who = Nothing
      /\ named \in SUBSET E /\ \A o \in named : o.who # Nothing
  BY DEF Inside, DirectBodies
<1>3. IsEvidence(E) /\ \A o \in E : o \in Observation
  BY SceneIsEvidence, SceneObservations
<1> HIDE DEF named, unknown, unnamed, R, E
<1>4. IsFiniteSet(R)
  <2>1. IsFiniteSet(unknown) /\ IsFiniteSet(named)
    BY <1>2, <1>3, FS_Subset DEF IsEvidence
  <2>2. IsFiniteSet({unnamed[o] : o \in named})
    BY <2>1, ImageIsFinite
  <2> QED
    BY <1>1, <2>1, <2>2, FS_Union
<1>5. \A o \in named :
        /\ unnamed[o].id = o.id /\ unnamed[o].min = o.min /\ unnamed[o].max = o.max
        /\ unnamed[o].loc = o.loc /\ unnamed[o].age = o.age
        /\ unnamed[o].dependency = o.dependency
  BY <1>1, <1>2, <1>3, UnnamedFields
<1>6. \A x \in R : \/ x \in unknown
                   \/ \E o \in named : x = unnamed[o]
  BY <1>1
<1>7. \A x, y \in E : x.id = y.id => x = y
  BY <1>3 DEF IsEvidence, HaveNames
<1>8. HaveNames(R)
  <2>1. ASSUME NEW x \in R PROVE x.id \in Name
    BY <1>2, <1>3, <1>5, <1>6 DEF IsEvidence, HaveNames
  <2>2. ASSUME NEW x \in R, NEW y \in R, x.id = y.id PROVE x = y
    <3>1. CASE x \in unknown /\ y \in unknown
      BY <1>2, <1>7, <2>2, <3>1
    <3>2. CASE x \in unknown /\ \E o \in named : y = unnamed[o]
      BY <1>2, <1>5, <1>7, <2>2, <3>2
    <3>3. CASE y \in unknown /\ \E o \in named : x = unnamed[o]
      BY <1>2, <1>5, <1>7, <2>2, <3>3
    <3>4. CASE (\E o \in named : x = unnamed[o]) /\ \E o \in named : y = unnamed[o]
      BY <1>2, <1>5, <1>7, <2>2, <3>4
    <3> QED
      BY <1>6, <3>1, <3>2, <3>3, <3>4
  <2> QED
    BY <2>1, <2>2 DEF HaveNames
<1>9. ASSUME NEW x \in R
      PROVE  /\ x.min \in Nat /\ x.max \in Nat /\ AgeOf(x) \in Nat
             /\ x.loc \in Claim \cup {Nothing} /\ x.dependency \in Name \cup {Nothing}
  <2>1. PICK o \in E : x.min = o.min /\ x.max = o.max /\ x.loc = o.loc /\ x.age = o.age
                       /\ x.dependency = o.dependency
    BY <1>2, <1>5, <1>6
  <2>2. AgeOf(x) = AgeOf(o)
    BY <2>1 DEF AgeOf
  <2> QED
    BY <1>3, <2>1, <2>2 DEF IsEvidence
<1>10. IsEvidence(R)
  BY <1>4, <1>8, <1>9 DEF IsEvidence
<1> QED
  BY <1>10 DEF R

\* Every room that is occupied has a number for its least count.
LEMMA RoomsAreCounted ==
    ASSUME NEW s, IsScene(s), NEW people, NEW G
    PROVE  LET rooms == Occupancies(s, people, G)
           IN  IsFiniteSet(rooms) /\ \A r \in rooms : r.n.min \in Nat
<1> DEFINE R == {a \in Occupied(s, people, G) : Anonymous(RoomEvidence(s, people, G, a)) # {}}
           room == [a \in R |-> [area |-> a, n |-> RoomCount(RoomEvidence(s, people, G, a))]]
           rooms == Occupancies(s, people, G)
<1>1. R \in SUBSET Area
  BY DEF Occupied
<1>2. rooms = {room[a] : a \in R}
  BY DEF Occupancies
<1>3. ASSUME NEW a \in R PROVE room[a].n.min \in Nat
  <2> DEFINE E == RoomEvidence(s, people, G, a)
  <2>1. room[a].n = RoomCount(E)
    OBVIOUS
  <2>2. IsEvidence(E)
    BY RoomIsEvidence
  <2> HIDE DEF E, room
  <2>3. RoomCount(E).min \in Nat
    BY <2>2, ReconciledIsCounted, RoomIsCounted DEF RoomCount
  <2> QED
    BY <2>1, <2>3
<1>4. IsFiniteSet(R)
  <2> HIDE DEF R
  <2> QED
    BY <1>1, NamesAreFinite, FS_Subset
<1> HIDE DEF room, R, rooms
<1>5. IsFiniteSet(rooms) /\ \A r \in rooms : r.n.min \in Nat
  BY <1>2, <1>3, <1>4, ImageIsFinite
<1> QED
  BY <1>5 DEF rooms

\* The greatest count of the home is no less than what it adds up.
LEMMA HomeIsCounted ==
    ASSUME NEW s, IsScene(s), NEW people, NEW G, HaveCounts(G), NEW t, t.extra \in Nat,
           IsFiniteSet(t.counted),
           \A c \in t.counted : c.n \in Nat /\ c.group.sources \in SUBSET Name
    PROVE  LET n == Cardinality({w \in Person : people[w] # Nothing})
           IN  /\ n \in Nat
               /\ HomeCount(t, people, G, Occupancies(s, people, G)).max \in Int
               /\ HomeCount(t, people, G, Occupancies(s, people, G)).max
                    >= n + MaxSum(AnimalsOf(G)) + t.extra
<1> DEFINE rooms == Occupancies(s, people, G)
           n == Cardinality({w \in Person : people[w] # Nothing})
           phones == Cardinality(OnlyPhones(people))
           carried == Cardinality(CarriedOver(people))
           unplaced == Cardinality(Unplaced(people))
           least == PopulationMinimum(t.counted)
           animals == AnimalCount(G)
           strong == n - phones
           other == strong - carried - unplaced
           bodies == other + least
           certain == Max({strong, bodies})
           all == certain + animals.min
           mins == {r.n.min : r \in rooms}
           min == Max(mins \cup {all})
           top == n + animals.max + t.extra
           max == Max({min, top})
<1>1. HomeCount(t, people, G, rooms) = [min |-> min, max |-> max]
  BY DEF HomeCount
<1>2. n \in Nat /\ phones \in Nat /\ carried \in Nat /\ unplaced \in Nat
  <2>1. \A S \in SUBSET Person : Cardinality(S) \in Nat
    BY PersonAssumption, FS_Subset, FS_CardinalityType
  <2>2. /\ {w \in Person : people[w] # Nothing} \in SUBSET Person
        /\ OnlyPhones(people) \in SUBSET Person /\ CarriedOver(people) \in SUBSET Person
        /\ Unplaced(people) \in SUBSET Person
    BY DEF OnlyPhones, CarriedOver, Unplaced
  <2> QED
    BY <2>1, <2>2
<1>3. least \in Nat
  BY LoopIsCounted
<1>4. animals.min \in Nat /\ animals.max \in Nat /\ animals.max = MaxSum(AnimalsOf(G))
  BY AnimalsAreCounted
<1>5. IsFiniteSet(mins) /\ mins \in SUBSET Nat
  <2> DEFINE f == [r \in rooms |-> r.n.min]
  <2>1. IsFiniteSet(rooms) /\ \A r \in rooms : r.n.min \in Nat
    BY RoomsAreCounted
  <2> HIDE DEF rooms
  <2>2. mins = {f[r] : r \in rooms} /\ mins \in SUBSET Nat
    BY <2>1
  <2> HIDE DEF f, mins
  <2> QED
    BY <2>1, <2>2, ImageIsFinite
<1> HIDE DEF n, phones, carried, unplaced, least, animals, mins, rooms
<1>6. strong \in Int /\ bodies \in Int
  BY <1>2, <1>3
<1> HIDE DEF strong, bodies
<1>7. certain \in Int
  BY <1>6, GreaterOfTwo
<1> HIDE DEF certain
<1>8. all \in Int /\ top \in Int
  BY <1>2, <1>4, <1>7
<1> HIDE DEF all
<1>9. min \in Int
  <2> DEFINE T == mins \cup {all}
  <2>1. IsFiniteSet(T)
    BY <1>5, FS_AddElement
  <2>2. T \in SUBSET Int /\ T # {}
    BY <1>5, <1>8
  <2> HIDE DEF T
  <2>3. Max(T) \in Int
    BY <2>1, <2>2, GreatestElement
  <2> QED
    BY <2>3 DEF T
<1>10. max \in Int /\ max >= top
  <2> HIDE DEF min, top
  <2> QED
    BY <1>8, <1>9, GreaterOfTwo
<1> HIDE DEF min, max
<1> QED
  BY <1>1, <1>2, <1>4, <1>10 DEF n, rooms

-----------------------------------------------------------------------------
\* The groups of the loop.
Doubtful(g) ==
    g.target # Nothing /\ ~IsAnimal(g.kind) /\ InRoom(g.loc) /\ Conflicting(g) # {}

\* a place of which only the floor is certain,
OnItsFloor(l, S) == [l EXCEPT !.place = FloorOf[l.place], !.q = 0, !.rooms = {l.place} \cup S]

\* and the group the loop gets instead.
GuardOf(g) ==
    IF Doubtful(g)
    THEN [g EXCEPT !.loc = OnItsFloor(g.loc, {p.place : p \in Conflicting(g)})]
    ELSE g

\* What is told of bodies besides the counters of rooms, and where these
\* count more than that.
Reported(G) == {g \in G : ~IsAnimal(g.kind) /\ (~InRoom(g.loc) \/ g.target # Nothing)}

\* the rooms whose counters count more;
Crowded(G) == {a \in Area : Aggregates(G, a) # {} /\ RestOf(G, a).max # 0}

\* a group as the loop gets it.
Turned(G, g) ==
    GuardOf(IF /\ InRoom(g.loc) /\ Aggregates(G, g.loc.place) # {}
               /\ RestOf(G, g.loc.place).max = 0
            THEN Vouching(g, SourcesOf(G, g.loc.place)) ELSE g)

\* The same bodies, of whom more is known.
SameGroup(x, g) ==
    /\ x.key = g.key /\ x.kind = g.kind /\ x.min = g.min /\ x.max = g.max
    /\ x.target = g.target /\ x.observer = g.observer
    /\ InRoom(x.loc) => InRoom(g.loc)

\* Each group is guarded by itself,
LEMMA GuardedIsGuardOf ==
    ASSUME NEW G
    PROVE  Guarded(G) = {GuardOf(g) : g \in G}
BY DEF Guarded, GuardOf, Doubtful, OnItsFloor

\* and stays the same group;
LEMMA GuardKeeps ==
    ASSUME NEW g, g = GroupFields(g)
    PROVE  SameGroup(GuardOf(g), g)
<1> DEFINE l == OnItsFloor(g.loc, {p.place : p \in Conflicting(g)})
           h == [g EXCEPT !.loc = l]
<1>1. GuardOf(g) = IF Doubtful(g) THEN h ELSE g
  BY DEF GuardOf
<1> HIDE DEF l
<1>2. h = [key |-> g.key, kind |-> g.kind, loc |-> l, min |-> g.min, max |-> g.max,
           sources |-> g.sources, target |-> g.target, coverage |-> g.coverage,
           observer |-> g.observer]
  BY DEF GroupFields
<1> HIDE DEF h
<1>3. SameGroup(h, g) \/ ~Doubtful(g)
  BY <1>2 DEF SameGroup, Doubtful
<1>4. SameGroup(g, g)
  BY DEF SameGroup
<1> QED
  BY <1>1, <1>3, <1>4

\* so does one for which more sources vouch,
LEMMA VouchingKeeps ==
    ASSUME NEW g, g = GroupFields(g), NEW S
    PROVE  SameGroup(Vouching(g, S), g) /\ Vouching(g, S) = GroupFields(Vouching(g, S))
<1> DEFINE h == Vouching(g, S)
<1>1. h = [key |-> g.key, kind |-> g.kind, loc |-> g.loc, min |-> g.min, max |-> g.max,
           sources |-> g.sources \cup S, target |-> g.target, coverage |-> g.coverage,
           observer |-> g.observer]
  BY VouchingFields
<1> HIDE DEF h
<1>2. SameGroup(h, g) /\ h = GroupFields(h)
  BY <1>1 DEF SameGroup, GroupFields
<1> QED
  BY <1>2 DEF h

\* and whichever the loop gets.
LEMMA TurnedIsTheSame ==
    ASSUME NEW G, NEW g, g = GroupFields(g)
    PROVE  SameGroup(Turned(G, g), g)
<1> DEFINE v == Vouching(g, SourcesOf(G, g.loc.place))
<1>1. Turned(G, g) = GuardOf(v) \/ Turned(G, g) = GuardOf(g)
  BY DEF Turned
<1>2. SameGroup(v, g) /\ v = GroupFields(v)
  BY VouchingKeeps
<1> HIDE DEF v
<1>3. SameGroup(GuardOf(v), v) /\ SameGroup(GuardOf(g), g)
  BY <1>2, GuardKeeps
<1> QED
  BY <1>1, <1>2, <1>3 DEF SameGroup

\* A room has the groups that are in it.
LEMMA RoomsAreApart ==
    ASSUME NEW G, NEW g \in G
    PROVE  (\E a \in Area : g \in OfRoom(G, a)) = (~IsAnimal(g.kind) /\ InRoom(g.loc))
BY DEF OfRoom, InRoom

\* There are no others.
LEMMA LoopGroups ==
    ASSUME NEW s, IsScene(s)
    PROVE  LET G == Groups(s.active) IN
           /\ \A x \in GroupsOf(s) :
                 \/ IsAnimal(x.kind)
                 \/ \E g \in Reported(G) : x = Turned(G, g)
                 \/ \E a \in Crowded(G) : x = PopulationOf(G, a)
           /\ \A g \in Reported(G) : Turned(G, g) \in GroupsOf(s)
           /\ \A a \in Crowded(G) : PopulationOf(G, a) \in GroupsOf(s)
           /\ AnimalsOf(G) \in SUBSET GroupsOf(s)
<1> DEFINE G == Groups(s.active)
           outside == G \ UNION {OfRoom(G, a) : a \in Area}
           pop(a) == PopulationOf(G, a)
<1>1. \A g \in G : g = GroupFields(g)
  BY SceneIsEvidence, EvidenceIsGrouped
<1>2. GroupsOf(s) = {GuardOf(g) : g \in outside \cup UNION {RoomPopulation(G, a) : a \in Area}}
  BY GuardedIsGuardOf DEF GroupsOf, Reconciled
<1>3. \A g \in outside : g \in G /\ (IsAnimal(g.kind) \/ ~InRoom(g.loc))
  BY RoomsAreApart
<1>4. \A g \in G : IsAnimal(g.kind) \/ ~InRoom(g.loc) => g \in outside
  <2> HIDE DEF G
  <2> TAKE g \in G
  <2>1. IsAnimal(g.kind) \/ ~InRoom(g.loc) => ~ \E a \in Area : g \in OfRoom(G, a)
    BY RoomsAreApart
  <2> QED
    BY <2>1
<1>5. \A g \in G : ~InRoom(g.loc) => Turned(G, g) = GuardOf(g)
  BY DEF Turned
<1>6. \A a \in Crowded(G) : GuardOf(pop(a)) = pop(a)
  <2> TAKE a \in Crowded(G)
  <2>1. pop(a).target = Nothing
    BY SceneIsEvidence, PopulationIsThere DEF Crowded
  <2> HIDE DEF pop
  <2> QED
    BY <2>1 DEF GuardOf, Doubtful
<1>7. \A a \in Area : \A g \in Tracks(OfRoom(G, a)) :
         /\ g \in G /\ g \in Reported(G) /\ InRoom(g.loc) /\ g.loc.place = a
  BY DEF Tracks, OfRoom, Reported
<1>8. \A g \in Reported(G) : InRoom(g.loc) => g.loc.place \in Area /\ g \in Tracks(OfRoom(G, g.loc.place))
  BY DEF Tracks, OfRoom, Reported, InRoom
<1>9. \A g \in Reported(G) : g \in G
  BY DEF Reported
<1>10. \A g : Turned(G, g) =
         GuardOf(IF /\ InRoom(g.loc) /\ Aggregates(G, g.loc.place) # {}
                    /\ RestOf(G, g.loc.place).max = 0
                 THEN Vouching(g, SourcesOf(G, g.loc.place)) ELSE g)
  BY DEF Turned
<1>11. \A a \in Area : RoomPopulation(G, a) =
             IF Aggregates(G, a) = {} THEN Tracks(OfRoom(G, a))
             ELSE IF RestOf(G, a).max = 0
                  THEN {Vouching(g, SourcesOf(G, a)) : g \in Tracks(OfRoom(G, a))}
                  ELSE Tracks(OfRoom(G, a)) \cup {pop(a)}
  BY RoomPopulationParts
<1>12. \A g \in G : GuardOf(g).kind = g.kind
  BY <1>1, GuardKeeps DEF SameGroup
<1> HIDE DEF G, outside, pop
<1>13. ASSUME NEW x \in GroupsOf(s), ~IsAnimal(x.kind)
       PROVE  \/ \E g \in Reported(G) : x = Turned(G, g)
              \/ \E a \in Crowded(G) : x = pop(a)
  <2>1. PICK y \in outside \cup UNION {RoomPopulation(G, a) : a \in Area} : x = GuardOf(y)
    BY <1>2
  <2>2. CASE y \in outside
    <3>1. y \in Reported(G) /\ ~InRoom(y.loc)
      BY <1>3, <1>12, <1>13, <2>1, <2>2 DEF Reported
    <3> QED
      BY <1>5, <1>9, <2>1, <3>1
  <2>3. CASE y \notin outside
    <3>1. PICK a \in Area : y \in RoomPopulation(G, a)
      BY <2>1, <2>3
    <3>2. CASE y \in Tracks(OfRoom(G, a)) /\ (Aggregates(G, a) = {} \/ RestOf(G, a).max # 0)
      <4>1. x = Turned(G, y)
        BY <1>7, <1>10, <2>1, <3>2
      <4> QED
        BY <1>7, <3>2, <4>1
    <3>3. CASE Aggregates(G, a) # {} /\ RestOf(G, a).max = 0
      <4>1. PICK g \in Tracks(OfRoom(G, a)) : y = Vouching(g, SourcesOf(G, a))
        BY <1>11, <3>1, <3>3
      <4>2. x = Turned(G, g)
        BY <1>7, <1>10, <2>1, <3>3, <4>1
      <4> QED
        BY <1>7, <4>1, <4>2
    <3>4. CASE a \in Crowded(G) /\ y = pop(a)
      BY <1>6, <2>1, <3>4
    <3> QED
      BY <1>11, <3>1, <3>2, <3>3, <3>4 DEF Crowded
  <2> QED
    BY <2>2, <2>3
<1>14. ASSUME NEW g \in Reported(G)
       PROVE  Turned(G, g) \in GroupsOf(s)
  <2>1. CASE ~InRoom(g.loc)
    BY <1>2, <1>4, <1>5, <1>9, <2>1
  <2>2. CASE InRoom(g.loc)
    <3> DEFINE a == g.loc.place
    <3>1. a \in Area /\ g \in Tracks(OfRoom(G, a))
      BY <1>8, <2>2
    <3>2. CASE Aggregates(G, a) # {} /\ RestOf(G, a).max = 0
      <4>1. Vouching(g, SourcesOf(G, a)) \in RoomPopulation(G, a)
        BY <1>11, <3>1, <3>2
      <4>2. Turned(G, g) = GuardOf(Vouching(g, SourcesOf(G, a)))
        BY <1>10, <2>2, <3>2
      <4> QED
        BY <1>2, <3>1, <4>1, <4>2
    <3>3. CASE ~ (Aggregates(G, a) # {} /\ RestOf(G, a).max = 0)
      <4>1. g \in RoomPopulation(G, a)
        BY <1>11, <3>1, <3>3
      <4>2. Turned(G, g) = GuardOf(g)
        BY <1>10, <3>3
      <4> QED
        BY <1>2, <3>1, <4>1, <4>2
    <3> QED
      BY <3>2, <3>3
  <2> QED
    BY <2>1, <2>2
<1>15. ASSUME NEW a \in Crowded(G)
       PROVE  pop(a) \in GroupsOf(s)
  <2>1. a \in Area /\ pop(a) \in RoomPopulation(G, a)
    BY <1>11 DEF Crowded
  <2> QED
    BY <1>2, <1>6, <2>1
<1>16. ASSUME NEW g \in AnimalsOf(G)
       PROVE  g \in GroupsOf(s)
  <2>1. g \in outside /\ GuardOf(g) = g
    BY <1>4 DEF AnimalsOf, GuardOf, Doubtful
  <2> QED
    BY <1>2, <2>1
<1> QED
  BY <1>13, <1>14, <1>15, <1>16 DEF G, pop

\* What the loop is told of a group that is no animal.
IsTold(s, x) ==
    /\ x.key \in Key /\ x.sources \in SUBSET Name
    /\ x.min \in Nat /\ x.max \in Nat
    /\ IsApart(s, x)
    /\ (x.key[1] = "target") = (x.target # Nothing)
    /\ x.key[1] = "area-population" => InRoom(x.loc) /\ x.key = <<"area-population", x.loc.place>>
    /\ InRoom(x.loc) => x.key[1] \in {"area-population", "target"}

\* The groups that have a turn.
LoopGroupsOf(s) == {x \in GroupsOf(s) : ~IsAnimal(x.kind)}

\* Each is as told, under a key of its own.
LEMMA LoopGroupsAreTold ==
    ASSUME NEW s, IsOrdinary(s)
    PROVE  /\ HaveCounts(GroupsOf(s))
           /\ \A x \in LoopGroupsOf(s) : IsTold(s, x)
           /\ \A x, y \in LoopGroupsOf(s) : x.key = y.key => x = y
<1> DEFINE G == Groups(s.active)
           R == Reconciled(G)
           guard == [g \in R |-> GuardOf(g)]
<1>1. IsScene(s) /\ IsEvidence(s.active)
  BY SceneIsEvidence DEF IsOrdinary
<1>2. HaveCounts(R) /\ HaveCounts(G)
  BY <1>1, ReconciledIsCounted, EvidenceIsGrouped
<1>3. \A x \in R \cup GroupsOf(s) : IsReported(s.active, x)
  BY <1>1, ReconciledIsReported, GroupsOfAreReported
<1>4. HaveCounts(GroupsOf(s))
  <2>1. GroupsOf(s) = {guard[g] : g \in R} /\ \A g \in R : guard[g] = GuardOf(g)
    BY GuardedIsGuardOf DEF GroupsOf
  <2> HIDE DEF guard, R
  <2>2. IsFiniteSet(GroupsOf(s))
    BY <1>2, <2>1, ImageIsFinite DEF HaveCounts
  <2>3. ASSUME NEW g \in R PROVE GuardOf(g).min = g.min /\ GuardOf(g).max = g.max
    BY <1>3, GuardKeeps DEF IsReported, SameGroup
  <2> QED
    BY <1>2, <2>1, <2>2, <2>3 DEF HaveCounts
<1>5. \A g \in G : IsCounted(s, g) /\ g = GroupFields(g)
  BY <1>1, GroupsAreCounted, EvidenceIsGrouped
<1>6. \A g, h \in G : g.key = h.key => g = h
  BY <1>1, EvidenceIsGrouped
<1>7. \A x \in LoopGroupsOf(s) :
         \/ \E g \in Reported(G) : x = Turned(G, g)
         \/ \E a \in Crowded(G) : x = PopulationOf(G, a)
  BY <1>1, LoopGroups DEF LoopGroupsOf
<1>8. ASSUME NEW a \in Crowded(G)
      PROVE  LET p == PopulationOf(G, a) IN
             /\ p.key = <<"area-population", a>> /\ p.target = Nothing
             /\ InRoom(p.loc) /\ p.loc.place = a
  <2>1. a \in Area /\ Aggregates(G, a) # {}
    BY DEF Crowded
  <2>2. PICK h \in Aggregates(G, a) :
          PopulationOf(G, a) =
                [key |-> <<"area-population", a>>, kind |-> KindOf(G, a), loc |-> h.loc,
                 min |-> RestOf(G, a).min, max |-> RestOf(G, a).max,
                 sources |-> SourcesOf(G, a), target |-> Nothing,
                 coverage |-> h.coverage, observer |-> Nothing]
    BY <1>1, <2>1, PopulationIsThere
  <2>3. InRoom(h.loc) /\ h.loc.place = a
    BY DEF Aggregates, OfRoom
  <2> QED
    BY <2>2, <2>3
<1>9. \A g \in Reported(G) :
        g \in G /\ SameGroup(Turned(G, g), g) /\ (~InRoom(g.loc) \/ g.target # Nothing)
  BY <1>5, TurnedIsTheSame DEF Reported
<1> HIDE DEF G, R
<1>10. ASSUME NEW x \in LoopGroupsOf(s)
       PROVE  IsTold(s, x)
  <2>1. /\ x.key \in Key /\ x.sources \in SUBSET Name /\ x.min \in Nat /\ x.max \in Nat
        /\ (x.key[1] = "target") = (x.target # Nothing)
    BY <1>3, <1>4 DEF LoopGroupsOf, IsReported, Key, HaveCounts
  <2>2. CASE \E g \in Reported(G) : x = Turned(G, g)
    <3>1. PICK g \in Reported(G) : x = Turned(G, g)
      BY <2>2
    <3>2. SameGroup(x, g) /\ IsCounted(s, g) /\ (~InRoom(g.loc) \/ g.target # Nothing)
      BY <1>5, <1>9, <3>1
    <3>3. IsApart(s, x)
      BY <3>2 DEF SameGroup, IsCounted, IsApart
    <3>4. x.key[1] # "area-population"
      BY <3>2 DEF SameGroup, IsCounted
    <3>5. InRoom(x.loc) => x.target # Nothing
      BY <3>2 DEF SameGroup
    <3> QED
      BY <2>1, <3>3, <3>4, <3>5 DEF IsTold
  <2>3. CASE \E a \in Crowded(G) : x = PopulationOf(G, a)
    <3>1. PICK a \in Crowded(G) : x = PopulationOf(G, a)
      BY <2>3
    <3>2. x.key = <<"area-population", a>> /\ x.target = Nothing /\ InRoom(x.loc) /\ x.loc.place = a
      BY <1>8, <3>1
    <3>3. IsApart(s, x)
      BY <3>2 DEF IsApart
    <3> QED
      BY <2>1, <3>2, <3>3 DEF IsTold
  <2> QED
    BY <1>7, <2>2, <2>3
<1>11. ASSUME NEW x \in LoopGroupsOf(s), NEW y \in LoopGroupsOf(s), x.key = y.key
       PROVE  x = y
  <2>1. \A g \in Reported(G) : Turned(G, g).key = g.key /\ g.key[1] # "area-population"
    BY <1>5, <1>9 DEF SameGroup, IsCounted
  <2>2. \A a \in Crowded(G) : PopulationOf(G, a).key = <<"area-population", a>>
    BY <1>8
  <2>3. CASE (\E g \in Reported(G) : x = Turned(G, g)) /\ \E g \in Reported(G) : y = Turned(G, g)
    BY <1>6, <1>9, <1>11, <2>1, <2>3
  <2>4. CASE (\E a \in Crowded(G) : x = PopulationOf(G, a))
             /\ \E a \in Crowded(G) : y = PopulationOf(G, a)
    BY <1>11, <2>2, <2>4
  <2>5. CASE (\E g \in Reported(G) : x = Turned(G, g))
             /\ \E a \in Crowded(G) : y = PopulationOf(G, a)
    BY <1>11, <2>1, <2>2, <2>5
  <2>6. CASE (\E g \in Reported(G) : y = Turned(G, g))
             /\ \E a \in Crowded(G) : x = PopulationOf(G, a)
    BY <1>11, <2>1, <2>2, <2>6
  <2> QED
    BY <1>7, <2>3, <2>4, <2>5, <2>6
<1> QED
  BY <1>4, <1>10, <1>11

-----------------------------------------------------------------------------
\* A person in a room is there because of a body, the memory, or a group of
\* one of those rooms.
Settled(s, w, c, done) ==
    /\ c.status = "continued" => ~c.device
    /\ InRoom(c.loc) /\ c.status # "continued" =>
          SameArea(c.loc, Best(s, w)) \/ <<"area-population", c.loc.place>> \in done

\* Everybody is.
AllSettled(s, people, done) ==
    \A w \in Person : people[w] # Nothing => Settled(s, w, people[w], done)

\* Whom the evidence identifies, or a device places.
LEMMA CandidatesAreSettled ==
    ASSUME NEW s, IsScene(s), NEW w, Candidate(s.active, w) # Nothing
    PROVE  LET c == Candidate(s.active, w) IN
           /\ c.status # "continued"
           /\ InRoom(c.loc) => SameArea(c.loc, Best(s, w))
<1> DEFINE c == Candidate(s.active, w)
<1>1. CASE Identified(s.active, w) # {}
  <2>1. c = FromBody(s.active, w)
    BY <1>1 DEF Candidate
  <2> HIDE DEF c
  <2>2. c.loc = Best(s, w) /\ c.status = "resolved"
    BY <1>1, <2>1, BodiesAreFound
  <2>3. c.status # "continued" /\ (InRoom(c.loc) => SameArea(c.loc, Best(s, w)))
    BY <2>2 DEF SameArea
  <2> QED
    BY <2>3 DEF c
<1>2. CASE Identified(s.active, w) = {} /\ Radios(s.active, w) # {}
  <2>1. c = FromRadio(s.active, w)
    BY <1>2 DEF Candidate
  <2>2. AtHome(c.loc) /\ c.status = "home_from_device"
    <3>1. AtHome(c.loc)
      BY <1>2, <2>1, RadiosAreFound
    <3>2. c.status = "home_from_device"
      BY <2>1 DEF FromRadio
    <3> QED
      BY <3>1, <3>2
  <2> HIDE DEF c
  <2>3. c.status # "continued" /\ ~InRoom(c.loc)
    BY <2>2, PlaceAssumption DEF AtHome, InRoom
  <2> QED
    BY <2>3 DEF c
<1>3. CASE Identified(s.active, w) = {} /\ Radios(s.active, w) = {}
  <2>1. Weak(s.active, w) # {} /\ c = FromWeak(s.active, w)
    BY <1>3 DEF Candidate
  <2>2. AtHome(c.loc) /\ c.status = "possible"
    <3>1. AtHome(c.loc)
      BY <2>1, WeakAreFound
    <3>2. c.status = "possible"
      BY <2>1 DEF FromWeak
    <3> QED
      BY <3>1, <3>2
  <2> HIDE DEF c
  <2>3. c.status # "continued" /\ ~InRoom(c.loc)
    BY <2>2, PlaceAssumption DEF AtHome, InRoom
  <2> QED
    BY <2>3 DEF c
<1> QED
  BY <1>1, <1>2, <1>3

\* The loop starts with such persons.
LEMMA KnownAreSettled ==
    ASSUME NEW s, IsScene(s), Remembers
    PROVE  AllSettled(s, KnownPeople(s), {})
<1> SUFFICES ASSUME NEW w \in Person, KnownPeople(s)[w] # Nothing
             PROVE  Settled(s, w, KnownPeople(s)[w], {})
  BY DEF AllSettled
<1> DEFINE c == Candidate(s.active, w)
           p == known[w]
           d == StillCleared(p, c)
           clears == ClearedSupport(s, w, p)
           e == WithMemory(s, w, c)
<1>1. KnownPeople(s)[w] = e
  BY DEF KnownPeople
<1>2. c # Nothing
  BY <1>1 DEF WithMemory
<1>3. c.status # "continued" /\ (InRoom(c.loc) => SameArea(c.loc, Best(s, w)))
  BY <1>2, CandidatesAreSettled
<1>4. c \in Found
  BY <1>2, CandidatesAreJustified DEF Justified
<1> DEFINE Sits(x) == /\ x.status # "continued" /\ x.loc = c.loc
                      /\ x = FoundRecord(x)
<1>5. Sits(c)
  BY <1>3, <1>4, FoundEquals
<1>6. e \in {c, d}
      \/ e = [d EXCEPT !.status = "location_cleared", !.last = p.loc, !.cleared = @ \cup clears]
      \/ e = Continued(p, d)
  BY <1>2 DEF WithMemory, Remembering
<1> HIDE DEF c, p, clears, e
<1>7. d = c \/ d = [c EXCEPT !.last = p.last, !.cleared = @ \cup p.cleared,
                             !.status = "location_cleared"]
  BY DEF StillCleared
<1>8. Sits(d)
  <2> DEFINE x == [c EXCEPT !.last = p.last, !.cleared = @ \cup p.cleared,
                            !.status = "location_cleared"]
  <2>1. x = [c EXCEPT !.last = p.last, !.cleared = @ \cup p.cleared,
                      !.status = "location_cleared"]
    OBVIOUS
  <2> HIDE DEF x, d
  <2>2. x = [loc |-> c.loc, idq |-> c.idq, direct |-> c.direct, device |-> c.device,
             status |-> "location_cleared", radios |-> c.radios, last |-> p.last,
             cleared |-> c.cleared \cup p.cleared, ids |-> c.ids, locs |-> c.locs]
    BY <1>5, <2>1 DEF FoundRecord
  <2>3. Sits(x)
    BY <2>2 DEF FoundRecord
  <2> QED
    BY <1>5, <1>7, <2>3 DEF x
<1> HIDE DEF d
<1>9. Sits([d EXCEPT !.status = "location_cleared", !.last = p.loc, !.cleared = @ \cup clears])
  <2> DEFINE x == [d EXCEPT !.status = "location_cleared", !.last = p.loc,
                            !.cleared = @ \cup clears]
  <2>1. x = [d EXCEPT !.status = "location_cleared", !.last = p.loc, !.cleared = @ \cup clears]
    OBVIOUS
  <2> HIDE DEF x
  <2>2. x = [loc |-> d.loc, idq |-> d.idq, direct |-> d.direct, device |-> d.device,
             status |-> "location_cleared", radios |-> d.radios, last |-> p.loc,
             cleared |-> d.cleared \cup clears, ids |-> d.ids, locs |-> d.locs]
    BY <1>8, <2>1 DEF FoundRecord
  <2>3. Sits(x)
    BY <1>8, <2>2 DEF FoundRecord
  <2> QED
    BY <2>3 DEF x
<1>10. Continued(p, d).status = "continued" /\ ~Continued(p, d).device
  <2> DEFINE x == Continued(p, d)
  <2>1. x = [d EXCEPT !.loc = p.loc, !.locs = p.locs, !.status = "continued", !.device = FALSE]
    BY DEF Continued
  <2> HIDE DEF x
  <2>2. x = [loc |-> p.loc, idq |-> d.idq, direct |-> d.direct, device |-> FALSE,
             status |-> "continued", radios |-> d.radios, last |-> d.last,
             cleared |-> d.cleared, ids |-> d.ids, locs |-> p.locs]
    BY <1>8, <2>1 DEF FoundRecord
  <2>3. x.status = "continued" /\ ~x.device
    BY <2>2
  <2> QED
    BY <2>3 DEF x
<1>11. Sits(e) \/ (e.status = "continued" /\ ~e.device)
  <2> HIDE DEF Sits
  <2> QED
    BY <1>5, <1>6, <1>8, <1>9, <1>10
<1>12. Settled(s, w, e, {})
  BY <1>3, <1>11 DEF Settled
<1> QED
  BY <1>1, <1>12

\* A device that is elsewhere moves nobody.
LEMMA SeparatedAreSettled ==
    ASSUME NEW s, NEW class, NEW t, AllJustified(s, t.people, class), NEW g, NEW done,
           AllSettled(s, t.people, done)
    PROVE  AllSettled(s, Separated(t, g), done)
<1> DEFINE apart == {w \in Present(t) : /\ t.people[w].device /\ t.people[w].radios # {}
                                        /\ \A l \in t.people[w].radios : ~SameArea(l, g.loc)}
           other(w) == [t.people[w] EXCEPT !.status = "device_person_separation_possible"]
           all == [w \in Person |-> IF w \in apart THEN other(w) ELSE t.people[w]]
<1>1. Separated(t, g) = all \/ Separated(t, g) = t.people
  BY DEF Separated
<1>2. ASSUME NEW w \in apart
      PROVE  Settled(s, w, other(w), done)
  <2> DEFINE c == t.people[w]
             d == [c EXCEPT !.status = "device_person_separation_possible"]
  <2>1. w \in Person /\ c # Nothing /\ c.device
    BY DEF Present
  <2>2. c \in Found /\ Settled(s, w, c, done)
    BY <2>1 DEF AllJustified, AllSettled
  <2> HIDE DEF c
  <2>3. c = FoundRecord(c)
    BY <2>2, FoundEquals
  <2>4. d = [loc |-> c.loc, idq |-> c.idq, direct |-> c.direct, device |-> c.device,
             status |-> "device_person_separation_possible", radios |-> c.radios,
             last |-> c.last, cleared |-> c.cleared, ids |-> c.ids, locs |-> c.locs]
    BY <2>3 DEF FoundRecord
  <2>5. other(w) = d
    BY DEF c
  <2> HIDE DEF d
  <2>6. Settled(s, w, d, done)
    BY <2>1, <2>2, <2>4 DEF Settled
  <2> QED
    BY <2>5, <2>6
<1>3. AllSettled(s, all, done)
  <2> SUFFICES ASSUME NEW w \in Person, all[w] # Nothing PROVE Settled(s, w, all[w], done)
    BY DEF AllSettled
  <2>1. CASE w \in apart
    <3>1. all[w] = other(w)
      BY <2>1
    <3> HIDE DEF all, other, apart
    <3> QED
      BY <1>2, <2>1, <3>1
  <2>2. CASE w \notin apart
    <3>1. all[w] = t.people[w]
      BY <2>2
    <3> HIDE DEF all
    <3> QED
      BY <3>1 DEF AllSettled
  <2> QED
    BY <2>1, <2>2
<1> HIDE DEF all
<1> QED
  BY <1>1, <1>3

\* Nor does a group that supports where somebody is.
LEMMA SupportedIsSettled ==
    ASSUME NEW s, NEW w, NEW c \in Found, InRoom(c.loc), NEW done, Settled(s, w, c, done),
           NEW g, NEW alone
    PROVE  LET d == Supported(s, c, w, g, alone) IN
           /\ Settled(s, w, d, done)
           /\ d.status = c.status /\ InRoom(d.loc) /\ d.loc.place = c.loc.place
<1> DEFINE path == alone /\ PathSupported(s, c, w, g)
           seen == /\ c.status \in {"resolved", "correlated_movement"}
                   /\ c.loc.q >= Medium /\ g.loc.q >= Medium /\ Gap(g.loc, c.loc) <= Window
           phones == {o \in AccessPoints(s, w) : o.ap # Nothing}
           l == IF path THEN [c.loc EXCEPT !.q = Medium] ELSE c.loc
           locs == c.locs \cup (IF seen \/ path THEN g.sources ELSE {})
                     \cup (IF path THEN {o.source : o \in phones} ELSE {})
           d == Supported(s, c, w, g, alone)
<1>1. d = [c EXCEPT !.loc = l, !.locs = locs]
  BY DEF Supported
<1>2. c = FoundRecord(c)
  BY FoundEquals
<1>3. l \in Claim /\ l.place = c.loc.place
  <2> DEFINE k == c.loc
             m == [k EXCEPT !.q = Medium]
  <2>1. k \in Claim
    BY FoundFields DEF InRoom
  <2>2. m = [k EXCEPT !.q = Medium]
    OBVIOUS
  <2> HIDE DEF k, m
  <2>3. m \in Claim /\ m.place = k.place
    BY <2>1, <2>2 DEF Claim, Medium, High
  <2>4. l = m \/ l = k
    BY DEF m, k
  <2> HIDE DEF l
  <2> QED
    BY <2>1, <2>3, <2>4 DEF k
<1> HIDE DEF d, l, locs
<1>4. d = [loc |-> l, idq |-> c.idq, direct |-> c.direct, device |-> c.device,
           status |-> c.status, radios |-> c.radios,
           last |-> c.last, cleared |-> c.cleared, ids |-> c.ids, locs |-> locs]
  BY <1>1, <1>2 DEF FoundRecord
<1>5. InRoom(l) /\ l.place = c.loc.place
  BY <1>3, NothingAssumption DEF InRoom
<1>6. /\ Settled(s, w, d, done)
      /\ d.status = c.status /\ InRoom(d.loc) /\ d.loc.place = c.loc.place
  BY <1>4, <1>5 DEF Settled, SameArea
<1> QED
  BY <1>6 DEF d

\* Who moves is where a group is.
LEMMA MovedIsSettled ==
    ASSUME NEW s, NEW w, NEW c \in Found, NEW done, Settled(s, w, c, done), NEW g,
           g.loc \in Claim, InRoom(g.loc), <<"area-population", g.loc.place>> \in done
    PROVE  Settled(s, w, Moved(c, g, FALSE), done)
<1> DEFINE l == IF g.loc.q <= Medium THEN g.loc ELSE [g.loc EXCEPT !.q = Medium]
           d == Moved(c, g, FALSE)
<1>1. CASE Stays(c, g)
  BY <1>1 DEF Moved
<1>2. CASE ~Stays(c, g)
  <2>1. d = [c EXCEPT !.loc = l, !.last = Nothing, !.cleared = {}, !.locs = g.sources,
                      !.status = "ambiguous_movement"]
    BY <1>2 DEF Moved
  <2>2. l.place = g.loc.place
    <3> DEFINE k == g.loc
               m == [k EXCEPT !.q = Medium]
    <3>1. k \in Claim
      OBVIOUS
    <3>2. m = [k EXCEPT !.q = Medium]
      OBVIOUS
    <3> HIDE DEF k, m
    <3>3. m.place = k.place
      BY <3>1, <3>2 DEF Claim
    <3>4. l = m \/ l = k
      BY DEF m, k
    <3> HIDE DEF l
    <3> QED
      BY <3>3, <3>4 DEF k
  <2>3. c = FoundRecord(c)
    BY FoundEquals
  <2> HIDE DEF d, l
  <2>4. d = [loc |-> l, idq |-> c.idq, direct |-> c.direct, device |-> c.device,
             status |-> "ambiguous_movement", radios |-> c.radios, last |-> Nothing,
             cleared |-> {}, ids |-> c.ids, locs |-> g.sources]
    BY <2>1, <2>3 DEF FoundRecord
  <2>5. Settled(s, w, d, done)
    BY <2>2, <2>4 DEF Settled
  <2> QED
    BY <2>5 DEF d
<1> QED
  BY <1>1, <1>2

\* What is settled stays so.
LEMMA SettledLater ==
    ASSUME NEW s, NEW people, NEW done, AllSettled(s, people, done), NEW more
    PROVE  AllSettled(s, people, done \cup more)
BY DEF AllSettled, Settled

-----------------------------------------------------------------------------
\* A room for everybody a camera shows: where they are seen best.
IsAt(s, at) ==
    /\ at \in [SeenPersons(s.active) -> Area]
    /\ \A w \in SeenPersons(s.active) : at[w] \in RoomsOf(s.active, w)
    /\ \A w \in Person : InRoom(Best(s, w)) =>
            w \in SeenPersons(s.active) /\ at[w] = Best(s, w).place

\* Whom a camera shows, at that room.
Here(s, at, a) == {w \in SeenPersons(s.active) : at[w] = a}

\* What is left at least of a group.
Least(s, at, x) ==
    IF x.key[1] = "area-population" THEN Max({0, x.max - Cardinality(Here(s, at, x.key[2]))})
    ELSE x.max

\* What a turn for group x makes of tally t.
Spared(s, at, done, x, t, u) ==
    /\ u.n \in Nat /\ u.max \in Nat
    /\ u.extra = t.extra /\ u.counted = t.counted
    /\ x.key \notin done => u.max >= Least(s, at, x)
    /\ AllSettled(s, u.people, done \cup {x.key})

\* There are such rooms.
LEMMA SomeRooms ==
    ASSUME NEW s, IsScene(s)
    PROVE  \E at : IsAt(s, at)
<1> DEFINE E == s.active
           best == [w \in SeenPersons(E) |-> Best(s, w)]
           Of(w) == IF InRoom(Best(s, w)) THEN Best(s, w).place
                    ELSE CHOOSE a : a \in RoomsOf(E, w)
           at == [w \in SeenPersons(E) |-> Of(w)]
<1>1. ASSUME NEW w \in Person, InRoom(Best(s, w))
      PROVE  w \in SeenPersons(E) /\ Best(s, w).place \in RoomsOf(E, w)
  <2>1. PICK o \in Identified(E, w) : Best(s, w) = o.loc
    BY <1>1, BestIsThere DEF Best, InRoom
  <2>2. o.loc.place \in RoomsOf(E, w)
    BY <1>1, <2>1 DEF RoomsOf
  <2> QED
    BY <1>1, <2>1, <2>2 DEF SeenPersons
<1>2. ASSUME NEW w \in SeenPersons(E)
      PROVE  Of(w) \in RoomsOf(E, w) /\ Of(w) \in Area
  <2>1. w \in Person /\ RoomsOf(E, w) # {}
    BY DEF SeenPersons
  <2>2. Of(w) \in RoomsOf(E, w)
    BY <1>1, <2>1
  <2>3. RoomsOf(E, w) \subseteq Area
    BY DEF RoomsOf, InRoom
  <2> HIDE DEF Of
  <2> QED
    BY <2>2, <2>3
<1>3. \A w : InRoom(Best(s, w)) => Of(w) = Best(s, w).place
  OBVIOUS
<1> HIDE DEF Of
<1>4. IsAt(s, at)
  BY <1>1, <1>2, <1>3 DEF IsAt
<1> QED
  BY <1>4

\* A difference that is cut at zero.
LEMMA NotBelowZero ==
    ASSUME NEW x \in Int
    PROVE  Max({0, x}) \in Nat /\ Max({0, x}) >= x /\ (x >= 0 => Max({0, x}) = x)
BY GreaterOfTwo

\* Some persons are finitely many.
LEMMA SomePersons ==
    ASSUME NEW S \in SUBSET Person
    PROVE  IsFiniteSet(S) /\ Cardinality(S) \in Nat
BY PersonAssumption, FS_Subset, FS_CardinalityType

\* It is no more than the group counts.
LEMMA LeastIsLess ==
    ASSUME NEW s, NEW at, NEW x, x.max \in Nat
    PROVE  Least(s, at, x) \in Nat /\ Least(s, at, x) <= x.max
<1> DEFINE here == Here(s, at, x.key[2])
<1>1. Cardinality(here) \in Nat
  <2>1. here \in SUBSET Person
    BY DEF Here, SeenPersons
  <2> HIDE DEF here
  <2> QED
    BY <2>1, SomePersons
<1> HIDE DEF here
<1>2. Max({0, x.max - Cardinality(here)}) \in Nat
      /\ Max({0, x.max - Cardinality(here)}) <= x.max
  BY <1>1, GreaterOfTwo
<1> QED
  BY <1>2 DEF Least, here

\* Persons of the room of a group are taken from its greatest count only where
\* they are seen.
LEMMA ExactlyAreHere ==
    ASSUME NEW s, NEW at, IsAt(s, at), NEW g, IsTold(s, g), NEW done, g.key \notin done,
           NEW w \in Person, NEW c, NEW d, Settled(s, w, c, done), d.status = c.status,
           SameArea(c.loc, g.loc), IsExactly(s, d, w, g)
    PROVE  g.key[1] = "area-population" /\ w \in Here(s, at, g.key[2])
<1>1. InRoom(g.loc) /\ InRoom(c.loc) /\ c.loc.place = g.loc.place
  BY DEF SameArea
<1>2. c.status # "continued"
  BY DEF IsExactly
<1>3. g.target = Nothing
  <2> SUFFICES ASSUME g.target # Nothing PROVE FALSE
    OBVIOUS
  <2>1. g.observer # Nothing
    BY DEF IsTold, IsApart
  <2>2. PICK o \in s.active : o.who = w /\ o.target = g.target /\ Observer(o) = g.observer
    BY <2>1 DEF IsExactly
  <2>3. o.who # Nothing
    BY <2>2, NothingAssumption
  <2> QED
    BY <2>2, <2>3 DEF IsTold, IsApart
<1>4. g.key = <<"area-population", g.loc.place>> /\ g.key[1] = "area-population"
      /\ g.key[2] = g.loc.place
  BY <1>1, <1>3 DEF IsTold
<1>5. SameArea(c.loc, Best(s, w))
  BY <1>1, <1>2, <1>4 DEF Settled
<1>6. w \in SeenPersons(s.active) /\ at[w] = g.loc.place
  BY <1>1, <1>5 DEF IsAt, SameArea
<1> QED
  BY <1>4, <1>6 DEF Here

\* The persons of the room of the group are taken from it;
LEMMA InSameRoomIsSpared ==
    ASSUME NEW s, NEW at, IsAt(s, at), NEW class, NEW t, Sane(s, t, class), t.n \in Nat,
           NEW done, AllSettled(s, t.people, done),
           NEW g, IsTold(s, g), NEW S \in SUBSET Present(t),
           \A w \in S : SameArea(t.people[w].loc, g.loc)
    PROVE  Spared(s, at, done, g, t, InSameRoom(s, t, g, t.n, S))
<1> DEFINE enough == t.n >= Cardinality(S)
           first == FirstPersons(s.active, S, g.max)
           other(w) == Supported(s, t.people[w], w, g, Cardinality(S) = 1)
           people == [w \in Person |-> IF enough /\ w \in S THEN other(w) ELSE t.people[w]]
           exactly == {w \in first : IsExactly(s, people[w], w, g)}
           used == Consume(t, g, first)
           left == Max({0, t.n - Cardinality(first)})
           max == Max({0, g.max - Cardinality(exactly)})
           u == InSameRoom(s, t, g, t.n, S)
<1>1. u = [t EXCEPT !.people = people, !.used = used, !.n = left, !.max = max]
  BY DEF InSameRoom
<1>2. ASSUME NEW w \in S
      PROVE  /\ w \in Person /\ Settled(s, w, t.people[w], done)
             /\ Settled(s, w, other(w), done) /\ other(w).status = t.people[w].status
  <2>1. w \in Person /\ t.people[w] # Nothing /\ InRoom(t.people[w].loc)
    BY DEF Present, SameArea
  <2>2. t.people[w] \in Found /\ Settled(s, w, t.people[w], done)
    BY <2>1 DEF Sane, AllJustified, AllSettled
  <2> QED
    BY <2>1, <2>2, SupportedIsSettled
<1>3. ASSUME NEW w \in Person
      PROVE  /\ people[w] # Nothing => Settled(s, w, people[w], done)
             /\ w \in S => people[w].status = t.people[w].status
  <2>1. CASE enough /\ w \in S
    <3>1. people[w] = other(w)
      BY <2>1
    <3> HIDE DEF people, other
    <3> QED
      BY <1>2, <2>1, <3>1
  <2>2. CASE ~(enough /\ w \in S)
    <3>1. people[w] = t.people[w]
      BY <2>2
    <3> HIDE DEF people
    <3> QED
      BY <3>1 DEF AllSettled
  <2> QED
    BY <2>1, <2>2
<1>4. first \in SUBSET S /\ exactly \in SUBSET first
  BY DEF FirstPersons
<1>5. t = TallyFields(t)
  BY DEF Sane
<1> HIDE DEF people, used, left, max, u, first
<1>6. u = [people |-> people, used |-> used, eaten |-> t.eaten, counted |-> t.counted,
           anonymous |-> t.anonymous, n |-> left, max |-> max, extra |-> t.extra]
  BY <1>1, <1>5 DEF TallyFields
<1>7. AllSettled(s, people, done \cup {g.key})
  BY <1>3, SettledLater DEF AllSettled
<1>8. S \in SUBSET Person
  BY DEF Present
<1>9. Cardinality(first) \in Nat /\ IsFiniteSet(exactly) /\ Cardinality(exactly) \in Nat
  BY <1>4, <1>8, SomePersons
<1>10. g.max \in Nat
  BY DEF IsTold
<1>11. left \in Nat /\ max \in Nat /\ max >= g.max - Cardinality(exactly)
  BY <1>9, <1>10, NotBelowZero DEF left, max
<1>12. ASSUME g.key \notin done
       PROVE  max >= Least(s, at, g)
  <2>1. \A w \in exactly : g.key[1] = "area-population" /\ w \in Here(s, at, g.key[2])
    <3> TAKE w \in exactly
    <3>1. w \in S /\ w \in Person
      BY <1>4, <1>8
    <3>2. IsExactly(s, people[w], w, g)
      OBVIOUS
    <3> QED
      BY <1>2, <1>3, <1>12, <3>1, <3>2, ExactlyAreHere
  <2>2. CASE exactly = {}
    <3>1. max >= g.max
      BY <1>9, <1>10, <1>11, <2>2, FS_EmptySet
    <3> QED
      BY <1>10, <1>11, <3>1, LeastIsLess
  <2>3. CASE exactly # {}
    <3> DEFINE here == Here(s, at, g.key[2])
    <3>1. g.key[1] = "area-population" /\ exactly \in SUBSET here
      BY <2>1, <2>3
    <3>2. here \in SUBSET Person
      BY DEF Here, SeenPersons
    <3>3. Least(s, at, g) = Max({0, g.max - Cardinality(here)})
      BY <3>1 DEF Least
    <3> HIDE DEF here, exactly
    <3>4. Cardinality(here) \in Nat /\ Cardinality(exactly) <= Cardinality(here)
      BY <3>1, <3>2, SomePersons, FS_Subset
    <3>5. Max({0, g.max - Cardinality(here)}) =
            IF 0 >= g.max - Cardinality(here) THEN 0 ELSE g.max - Cardinality(here)
      BY <1>10, <3>4, GreaterOfTwo
    <3> QED
      BY <1>9, <1>10, <1>11, <3>3, <3>4, <3>5
  <2> QED
    BY <2>2, <2>3
<1>13. Spared(s, at, done, g, t, u)
  BY <1>6, <1>7, <1>11, <1>12 DEF Spared
<1> QED
  BY <1>13 DEF u

-----------------------------------------------------------------------------
\* The room of a group has been or is being dealt with.
Ready(g, done) == InRoom(g.loc) => <<"area-population", g.loc.place>> \in done \cup {g.key}

\* A tally whose group is whole.
Opens(t, g) == t.n \in Nat /\ t.max = g.max

\* one who moved there is not,
LEMMA AfterMoveIsSpared ==
    ASSUME NEW s, NEW at, NEW class, NEW t, Sane(s, t, class), t.n \in Nat,
           NEW done, AllSettled(s, t.people, done),
           NEW g, IsTold(s, g), IsReported(s.active, g), InRoom(g.loc), Ready(g, done),
           NEW w \in Present(t)
    PROVE  Spared(s, at, done, g, t, AfterMove(s, t, g, t.n, w, FALSE))
<1> DEFINE c == Moved(t.people[w], g, FALSE)
           people == [t.people EXCEPT ![w] = c]
           used == Consume(t, g, {w})
           left == Max({0, t.n - 1})
           u == AfterMove(s, t, g, t.n, w, FALSE)
<1>1. u = [t EXCEPT !.people[w] = c, !.used = used, !.n = left, !.max = g.max]
  BY DEF AfterMove
<1>2. w \in Person /\ t.people[w] # Nothing
  BY DEF Present
<1>3. t.people[w] \in Found /\ Settled(s, w, t.people[w], done \cup {g.key})
      /\ t.people \in [Person -> Found \cup {Nothing}]
  BY <1>2, SettledLater DEF Sane, AllJustified, AllSettled
<1>4. Settled(s, w, c, done \cup {g.key})
  <2>1. g.loc \in Claim
    BY DEF IsReported, InRoom
  <2> QED
    BY <1>3, <2>1, MovedIsSettled DEF Ready
<1>5. AllSettled(s, people, done \cup {g.key})
  <2> HIDE DEF c
  <2>1. \A v \in Person : people[v] = IF v = w THEN c ELSE t.people[v]
    BY <1>3
  <2> HIDE DEF people
  <2> QED
    BY <1>4, <2>1, SettledLater DEF AllSettled
<1>6. t = TallyFields(t)
  BY DEF Sane
<1>7. left \in Nat /\ g.max \in Nat
  BY NotBelowZero DEF IsTold
<1> HIDE DEF c, used, left, u
<1>8. u = [people |-> people, used |-> used, eaten |-> t.eaten, counted |-> t.counted,
           anonymous |-> t.anonymous, n |-> left, max |-> g.max, extra |-> t.extra]
  BY <1>1, <1>6 DEF TallyFields
<1> HIDE DEF people
<1>9. Spared(s, at, done, g, t, u)
  BY <1>5, <1>7, <1>8, LeastIsLess DEF Spared
<1> QED
  BY <1>9 DEF u

\* nor is anybody when nobody came,
LEMMA NobodyIsSpared ==
    ASSUME NEW s, NEW at, NEW class, NEW t, Sane(s, t, class), NEW g, IsTold(s, g), Opens(t, g),
           NEW done, AllSettled(s, t.people, done), NEW n \in Nat
    PROVE  /\ Spared(s, at, done, g, t, t)
           /\ Spared(s, at, done, g, t, [t EXCEPT !.n = n])
<1> DEFINE u == [t EXCEPT !.n = n]
<1>1. u = [t EXCEPT !.n = n]
  OBVIOUS
<1>2. t = TallyFields(t)
  BY DEF Sane
<1> HIDE DEF u
<1>3. u = [people |-> t.people, used |-> t.used, eaten |-> t.eaten, counted |-> t.counted,
           anonymous |-> t.anonymous, n |-> n, max |-> t.max, extra |-> t.extra]
  BY <1>1, <1>2 DEF TallyFields
<1>4. g.max \in Nat /\ t.max = g.max /\ t.n \in Nat
  BY DEF Opens, IsTold
<1>5. Spared(s, at, done, g, t, u) /\ Spared(s, at, done, g, t, t)
  BY <1>3, <1>4, LeastIsLess, SettledLater DEF Spared
<1> QED
  BY <1>5 DEF u

\* and of those who may have come only one whom a camera shows there.
LEMMA ByTrajectoryIsSpared ==
    ASSUME NEW s, NEW at, NEW class, NEW t, Sane(s, t, class), NEW g, IsTold(s, g), Opens(t, g),
           IsReported(s.active, g), NEW done, AllSettled(s, t.people, done), Ready(g, done),
           NEW eligible \in SUBSET Present(t)
    PROVE  Spared(s, at, done, g, t, ByTrajectory(s, t, g, t.n, eligible))
<1> DEFINE movers == Movers(t, g, t.n, eligible)
           w == CHOOSE w \in movers : TRUE
           exact == /\ OnThatFloor(t.people[w], g) /\ g.observer # Nothing
                    /\ g.target # Nothing /\ IsExactly(s, t.people[w], w, g)
           left == Max({0, t.n - 1})
           u == ByTrajectory(s, t, g, t.n, eligible)
<1>1. \/ Cardinality(movers) = 1 /\ u = AfterMove(s, t, g, t.n, w, exact)
      \/ u = [t EXCEPT !.n = 0]
      \/ u = [t EXCEPT !.n = left]
      \/ u = t
  BY DEF ByTrajectory
<1>2. ASSUME Cardinality(movers) = 1
      PROVE  Spared(s, at, done, g, t, AfterMove(s, t, g, t.n, w, exact))
  <2>1. w \in movers
    <3> HIDE DEF movers
    <3> QED
      BY <1>2, OneIsThere
  <2> HIDE DEF w
  <2>2. w \in Present(t) /\ Reaches(t.people[w], g)
    BY <2>1 DEF Movers
  <2>3. InRoom(g.loc)
    BY <2>2 DEF Reaches, OnThatFloor, NextTo
  <2>4. ~exact
    <3> SUFFICES ASSUME exact PROVE FALSE
      OBVIOUS
    <3>1. PICK o \in s.active : o.who = w /\ o.target = g.target /\ Observer(o) = g.observer
      BY DEF IsExactly
    <3>2. o.who # Nothing
      BY <2>2, <3>1, NothingAssumption DEF Present
    <3> QED
      BY <3>1, <3>2 DEF IsTold, IsApart
  <2>5. exact = FALSE
    BY <2>4
  <2> HIDE DEF exact
  <2> QED
    BY <2>2, <2>3, <2>5, AfterMoveIsSpared DEF Opens
<1>3. left \in Nat
  BY NotBelowZero DEF Opens
<1> HIDE DEF u, left, w, exact, movers
<1>4. /\ Spared(s, at, done, g, t, [t EXCEPT !.n = 0])
      /\ Spared(s, at, done, g, t, [t EXCEPT !.n = left])
      /\ Spared(s, at, done, g, t, t)
  BY <1>3, NobodyIsSpared
<1>5. Spared(s, at, done, g, t, u)
  BY <1>1, <1>2, <1>4
<1> QED
  BY <1>5 DEF u

\* The turn of a group: somebody known who is remembered elsewhere, is there,
\* may have come, or nobody.
LEMMA MatchedIsSpared ==
    ASSUME NEW s, NEW at, IsAt(s, at), NEW t, NEW g, Sane(s, t, g.key[1]), IsTold(s, g),
           Opens(t, g), IsReported(s.active, g), NEW done, AllSettled(s, t.people, done),
           Ready(g, done), NEW eligible \in SUBSET Present(t), NEW physical
    PROVE  Spared(s, at, done, g, t, Turn(s, t, g, eligible, physical))
<1> DEFINE class == g.key[1]
           owners == Corroborated(t, g, t.n, eligible, physical)
           owner == CHOOSE w \in owners : TRUE
           apart == [t EXCEPT !.people = Separated(t, g)]
           same == {w \in eligible : SameArea(apart.people[w].loc, g.loc)}
           u == Turn(s, t, g, eligible, physical)
<1>1. \/ owners # {} /\ u = AfterMove(s, t, g, t.n, owner, FALSE)
      \/ u = InSameRoom(s, apart, g, apart.n, same)
      \/ u = ByTrajectory(s, apart, g, apart.n, eligible)
      \/ u = apart
  BY DEF Turn, Matched, Apart, WithoutOwner
<1>2. ASSUME owners # {}
      PROVE  Spared(s, at, done, g, t, AfterMove(s, t, g, t.n, owner, FALSE))
  <2>1. owner \in owners
    BY <1>2
  <2>2. InRoom(g.loc) /\ owner \in eligible
    <3> HIDE DEF owner
    <3> QED
      BY <2>1 DEF Corroborated
  <2> HIDE DEF owner, owners
  <2>3. owner \in Present(t)
    BY <2>2
  <2> QED
    BY <2>2, <2>3, AfterMoveIsSpared DEF Opens
<1>3. /\ Sane(s, apart, class) /\ eligible \in SUBSET Present(apart)
      /\ AllSettled(s, apart.people, done) /\ Opens(apart, g)
      /\ apart.extra = t.extra /\ apart.counted = t.counted
  <2>1. AllJustified(s, Separated(t, g), class)
        /\ \A w \in Present(t) : Separated(t, g)[w] # Nothing
    BY SeparatedAreJustified DEF Sane
  <2>2. AllSettled(s, Separated(t, g), done)
    BY SeparatedAreSettled DEF Sane
  <2>3. t = TallyFields(t)
    BY DEF Sane
  <2> DEFINE people == Separated(t, g)
  <2>4. apart = [t EXCEPT !.people = people]
    OBVIOUS
  <2> HIDE DEF apart, people
  <2>5. apart = [people |-> people, used |-> t.used, eaten |-> t.eaten, counted |-> t.counted,
                 anonymous |-> t.anonymous, n |-> t.n, max |-> t.max, extra |-> t.extra]
    BY <2>3, <2>4 DEF TallyFields
  <2>6. apart = TallyFields(apart) /\ apart.people = people /\ apart.n = t.n
        /\ apart.max = t.max /\ apart.extra = t.extra /\ apart.counted = t.counted
    BY <2>5 DEF TallyFields
  <2> QED
    BY <2>1, <2>2, <2>6 DEF Sane, Present, people, Opens
<1>4. same \in SUBSET Present(apart) /\ \A w \in same : SameArea(apart.people[w].loc, g.loc)
  <2> HIDE DEF apart
  <2> QED
    BY <1>3
<1> HIDE DEF owners, owner, apart, same, u
<1>5. apart.n \in Nat
  BY <1>3 DEF Opens
<1>6. Spared(s, at, done, g, apart, InSameRoom(s, apart, g, apart.n, same))
  BY <1>3, <1>4, <1>5, InSameRoomIsSpared
<1>7. Spared(s, at, done, g, apart, ByTrajectory(s, apart, g, apart.n, eligible))
  BY <1>3, ByTrajectoryIsSpared
<1>8. Spared(s, at, done, g, apart, apart)
  BY <1>3, <1>5, NobodyIsSpared
<1>9. Spared(s, at, done, g, t, u)
  BY <1>1, <1>2, <1>3, <1>6, <1>7, <1>8 DEF Spared
<1> QED
  BY <1>9 DEF u

-----------------------------------------------------------------------------
\* Every key has its turn, and the rooms have theirs before tracked objects.
LEMMA EveryKeyHasATurn ==
    /\ \A k \in Key : \E j \in 1 .. Len(Keys) : Keys[j] = k
    /\ \A i \in 1 .. Len(Keys) : Keys[i][1] = "target" =>
          \A a \in Area : <<"area-population", a>> \in {Keys[j] : j \in 1 .. i - 1}
<1> DEFINE n == Len(Names)
<1>1. n \in Nat /\ Len(Keys) = 4 * n
  BY TargetsAreLast
<1>2. Keys = [i \in 1 .. 4 * n |-> <<Classes[1 + ((i - 1) \div n)], Names[1 + ((i - 1) % n)]>>]
  BY <1>1 DEF Keys, Classes
<1>3. Name = {Names[m] : m \in 1 .. n}
  BY NamesAssumption DEF Name, Range
<1>4. ASSUME NEW c \in 1 .. 4, NEW m \in 1 .. n
      PROVE  LET j == (c - 1) * n + m IN j \in 1 .. 4 * n /\ Keys[j] = <<Classes[c], Names[m]>>
  <2> DEFINE j == (c - 1) * n + m
  <2>1. n \in Nat \ {0}
    BY <1>1
  <2>2. j = m \/ j = n + m \/ j = 2 * n + m \/ j = 3 * n + m
    <3>1. c = 1 \/ c = 2 \/ c = 3 \/ c = 4
      OBVIOUS
    <3> QED
      BY <2>1, <3>1
  <2>3. j \in 1 .. 4 * n
    <3> HIDE DEF j
    <3> QED
      BY <2>1, <2>2
  <2>4. (j - 1) \div n = c - 1 /\ (j - 1) % n = m - 1
    <3>1. c = 1 \/ c = 2 \/ c = 3 \/ c = 4
      OBVIOUS
    <3> QED
      BY <2>1, <3>1
  <2>5. Keys[j] = <<Classes[1 + ((j - 1) \div n)], Names[1 + ((j - 1) % n)]>>
    BY <1>2, <2>3
  <2> HIDE DEF j
  <2>6. Keys[j] = <<Classes[c], Names[m]>>
    BY <2>4, <2>5
  <2> QED
    BY <2>3, <2>6 DEF j
<1>5. ASSUME NEW k \in Key
      PROVE  \E j \in 1 .. Len(Keys) : Keys[j] = k
  <2>1. PICK c \in 1 .. 4, m \in 1 .. n : k = <<Classes[c], Names[m]>>
    BY <1>3 DEF Key
  <2> QED
    BY <1>1, <1>4, <2>1
<1>6. ASSUME NEW i \in 1 .. Len(Keys), Keys[i][1] = "target", NEW a \in Area
      PROVE  \E j \in 1 .. i - 1 : Keys[j] = <<"area-population", a>>
  <2>1. PICK m \in 1 .. n : a = Names[m]
    BY <1>3, NamesAssumption DEF Name
  <2>2. i > 3 * n /\ i \in Nat
    BY <1>1, <1>6, TargetsAreLast
  <2> DEFINE j == (1 - 1) * n + m
  <2>3. j = m /\ m \in 1 .. i - 1
    BY <1>1, <2>2
  <2>4. Keys[j] = <<Classes[1], Names[m]>>
    BY <1>4
  <2>5. Keys[m] = <<"area-population", a>>
    <3>1. Classes[1] = "area-population"
      BY DEF Classes
    <3> HIDE DEF j
    <3> QED
      BY <2>1, <2>3, <2>4, <3>1
  <2> QED
    BY <2>3, <2>5
<1>7. \A i \in 1 .. Len(Keys) : Keys[i][1] = "target" =>
          \A a \in Area : <<"area-population", a>> \in {Keys[j] : j \in 1 .. i - 1}
  <2> SUFFICES ASSUME NEW i \in 1 .. Len(Keys), Keys[i][1] = "target", NEW a \in Area
               PROVE  <<"area-population", a>> \in {Keys[j] : j \in 1 .. i - 1}
    OBVIOUS
  <2> QED
    BY <1>6
<1> QED
  BY <1>5, <1>7

-----------------------------------------------------------------------------
\* What is left at least of the groups that had their turn.
LeastOf(s, at) == [x \in LoopGroupsOf(s) |-> Least(s, at, x)]

\* The groups whose keys had their turn.
Heard(s, done) == {x \in LoopGroupsOf(s) : x.key \in done}

\* What the loop keeps: everybody is settled, and no group lost more than
\* those a camera shows in its room.
Tells(s, at, t, done) ==
    /\ AllSettled(s, t.people, done)
    /\ t.extra \in Nat /\ t.extra >= Sum(LeastOf(s, at), Heard(s, done))
    /\ IsFiniteSet(t.counted)
    /\ \A c \in t.counted : c.n \in Nat /\ c.group.sources \in SUBSET Name

\* There are finitely many, and each leaves a number.
LEMMA LoopGroupsAreFinite ==
    ASSUME NEW s, IsOrdinary(s), NEW at
    PROVE  /\ IsFiniteSet(LoopGroupsOf(s))
           /\ \A x \in LoopGroupsOf(s) : LeastOf(s, at)[x] \in Nat
<1>1. HaveCounts(GroupsOf(s)) /\ \A x \in LoopGroupsOf(s) : IsTold(s, x)
  BY LoopGroupsAreTold
<1>2. IsFiniteSet(LoopGroupsOf(s))
  BY <1>1, FS_Subset DEF HaveCounts, LoopGroupsOf
<1>3. \A x \in LoopGroupsOf(s) : LeastOf(s, at)[x] \in Nat
  BY <1>1, LeastIsLess DEF LeastOf, IsTold
<1> QED
  BY <1>2, <1>3

\* One group more.
LEMMA OneMoreIsHeard ==
    ASSUME NEW s, IsOrdinary(s), NEW at, NEW done, NEW g \in LoopGroupsOf(s)
    PROVE  /\ Sum(LeastOf(s, at), Heard(s, done)) \in Nat
           /\ g.key \in done => Heard(s, done \cup {g.key}) = Heard(s, done)
           /\ g.key \notin done =>
                Sum(LeastOf(s, at), Heard(s, done \cup {g.key}))
                  = Least(s, at, g) + Sum(LeastOf(s, at), Heard(s, done))
<1> DEFINE f == LeastOf(s, at)
           old == Heard(s, done)
           new == Heard(s, done \cup {g.key})
<1>1. IsFiniteSet(LoopGroupsOf(s)) /\ \A x \in LoopGroupsOf(s) : f[x] \in Nat
  BY LoopGroupsAreFinite
<1>2. f[g] = Least(s, at, g)
  BY DEF LeastOf
<1>3. old \in SUBSET LoopGroupsOf(s) /\ new \in SUBSET LoopGroupsOf(s)
  BY DEF Heard
<1>4. g.key \in done => new = old
  BY DEF Heard
<1>5. g.key \notin done => g \in new /\ old = new \ {g}
  BY LoopGroupsAreTold DEF Heard
<1> HIDE DEF f, old, new
<1>6. IsFiniteSet(old) /\ IsFiniteSet(new)
  BY <1>1, <1>3, FS_Subset
<1>7. Sum(f, old) \in Nat
  BY <1>1, <1>3, <1>6, SumIsNatural
<1>8. g \in new => Sum(f, new) = f[g] + Sum(f, new \ {g})
  BY <1>1, <1>3, <1>6, SumTakesOut
<1>9. g.key \notin done => Sum(f, new) = Least(s, at, g) + Sum(f, old)
  BY <1>2, <1>5, <1>8
<1> QED
  BY <1>4, <1>7, <1>9 DEF f, old, new

\* A turn opens with the whole group, and nothing else changed,
LEMMA OpenedIsOpen ==
    ASSUME NEW s, NEW class, NEW t, Sane(s, t, class), NEW g, g.min \in Nat, NEW animals
    PROVE  LET u == Opened(t, g, animals) IN
           /\ Opens(u, g) /\ u.people = t.people /\ u.extra = t.extra /\ u.counted = t.counted
<1> DEFINE eaten == t.eaten \cup {<<src, FirstKey(animals).key>> : src \in g.sources}
           left == g.min - 1
           u == Opened(t, g, animals)
<1>1. \/ u = [t EXCEPT !.n = g.min, !.max = g.max]
      \/ g.min # 0 /\ u = [t EXCEPT !.n = left, !.max = g.max, !.eaten = eaten]
  BY DEF Opened
<1>2. t = TallyFields(t)
  BY DEF Sane
<1>3. g.min # 0 => left \in Nat
  OBVIOUS
<1> HIDE DEF eaten, left, u
<1>4. CASE u = [t EXCEPT !.n = g.min, !.max = g.max]
  <2>1. u = [people |-> t.people, used |-> t.used, eaten |-> t.eaten, counted |-> t.counted,
             anonymous |-> t.anonymous, n |-> g.min, max |-> g.max, extra |-> t.extra]
    BY <1>2, <1>4 DEF TallyFields
  <2>2. Opens(u, g) /\ u.people = t.people /\ u.extra = t.extra /\ u.counted = t.counted
    BY <2>1 DEF Opens
  <2> QED
    BY <2>2 DEF u
<1>5. CASE g.min # 0 /\ u = [t EXCEPT !.n = left, !.max = g.max, !.eaten = eaten]
  <2>1. u = [people |-> t.people, used |-> t.used, eaten |-> eaten, counted |-> t.counted,
             anonymous |-> t.anonymous, n |-> left, max |-> g.max, extra |-> t.extra]
    BY <1>2, <1>5 DEF TallyFields
  <2>2. Opens(u, g) /\ u.people = t.people /\ u.extra = t.extra /\ u.counted = t.counted
    BY <1>3, <1>5, <2>1 DEF Opens
  <2> QED
    BY <2>2 DEF u
<1> QED
  BY <1>1, <1>4, <1>5

\* and closes with what is left of it.
LEMMA TalliedTells ==
    ASSUME NEW s, IsOrdinary(s), NEW at, NEW done, NEW g \in LoopGroupsOf(s),
           NEW t, Tells(s, at, t, done), NEW o, o.extra = t.extra, o.counted = t.counted,
           NEW class, NEW u, Sane(s, u, class), Spared(s, at, done, g, o, u)
    PROVE  Tells(s, at, Tallied(u, g), done \cup {g.key})
<1> DEFINE extra == u.extra + u.max
           counted == u.counted \cup (IF u.n > 0 THEN {[group |-> g, n |-> u.n]} ELSE {})
           anonymous == u.anonymous \cup (IF u.n > 0 \/ u.max > 0 THEN {g.loc} ELSE {})
           v == Tallied(u, g)
<1>1. v = [u EXCEPT !.extra = extra, !.counted = counted, !.anonymous = anonymous]
  BY DEF Tallied
<1>2. u = TallyFields(u)
  BY DEF Sane
<1>3. extra \in Nat /\ extra = t.extra + u.max /\ u.max \in Nat /\ u.n \in Nat
  BY DEF Spared, Tells
<1>4. IsFiniteSet(counted)
  <2>1. IsFiniteSet(u.counted)
    BY DEF Spared, Tells
  <2>2. IsFiniteSet(IF u.n > 0 THEN {[group |-> g, n |-> u.n]} ELSE {})
    BY FS_EmptySet, FS_Singleton
  <2> QED
    BY <2>1, <2>2, FS_Union
<1>5. \A c \in counted : c.n \in Nat /\ c.group.sources \in SUBSET Name
  <2>1. g.sources \in SUBSET Name
    BY LoopGroupsAreTold DEF IsTold
  <2>2. u.counted = t.counted
    BY DEF Spared
  <2> QED
    BY <1>3, <2>1, <2>2 DEF Tells
<1>6. extra >= Sum(LeastOf(s, at), Heard(s, done \cup {g.key}))
  <2> DEFINE old == Sum(LeastOf(s, at), Heard(s, done))
             new == Sum(LeastOf(s, at), Heard(s, done \cup {g.key}))
  <2>1. old \in Nat /\ (g.key \in done => new = old)
        /\ (g.key \notin done => new = Least(s, at, g) + old)
    BY OneMoreIsHeard
  <2>2. t.extra \in Nat /\ t.extra >= old
    BY DEF Tells
  <2>3. g.key \notin done => u.max >= Least(s, at, g)
    BY DEF Spared
  <2>4. Least(s, at, g) \in Nat
    BY LoopGroupsAreTold, LeastIsLess DEF IsTold
  <2> HIDE DEF old, new, extra
  <2>5. extra >= new
    BY <1>3, <2>1, <2>2, <2>3, <2>4
  <2> QED
    BY <2>5 DEF new
<1> HIDE DEF extra, counted, anonymous, v
<1>7. v = [people |-> u.people, used |-> u.used, eaten |-> u.eaten, counted |-> counted,
           anonymous |-> anonymous, n |-> u.n, max |-> u.max, extra |-> extra]
  BY <1>1, <1>2 DEF TallyFields
<1>8. AllSettled(s, u.people, done \cup {g.key})
  BY DEF Spared
<1>9. Tells(s, at, v, done \cup {g.key})
  BY <1>3, <1>4, <1>5, <1>6, <1>7, <1>8 DEF Tells
<1> QED
  BY <1>9 DEF v

\* A turn keeps the tally.
LEMMA TurnTells ==
    ASSUME NEW s, IsOrdinary(s), NEW at, IsAt(s, at), NEW t, NEW k, Sane(s, t, k[1]),
           NEW done, Tells(s, at, t, done),
           k[1] = "target" => \A a \in Area : <<"area-population", a>> \in done
    PROVE  Tells(s, at, TurnOf(s, GroupsOf(s), t, k), done \cup {k})
<1> DEFINE G == GroupsOf(s)
           found == {g \in G : ~IsAnimal(g.kind) /\ g.key = k}
           g == CHOOSE g \in found : TRUE
           o == Opened(t, g, Included(t, g, G))
           eligible == Eligible(s, t, g)
           physical == Physical(G)
           u == TurnOf(s, G, t, k)
<1>1. u = IF found = {} THEN t ELSE Tallied(Turn(s, o, g, eligible, physical), g)
  BY DEF TurnOf
<1>2. CASE found # {}
  <2>1. g \in found
    BY <1>2
  <2>2. g \in GroupsOf(s) /\ g \in LoopGroupsOf(s) /\ g.key = k
    <3> HIDE DEF g
    <3> QED
      BY <2>1 DEF LoopGroupsOf
  <2> HIDE DEF g, found
  <2>3. IsTold(s, g) /\ IsReported(s.active, g)
    BY <2>2, LoopGroupsAreTold, GroupsOfAreReported DEF IsOrdinary
  <2>4. /\ Opens(o, g) /\ o.people = t.people /\ o.extra = t.extra /\ o.counted = t.counted
        /\ Sane(s, o, g.key[1])
    <3>1. Sane(s, t, g.key[1]) /\ g.min \in Nat
      BY <2>2, <2>3 DEF IsTold
    <3> HIDE DEF o
    <3> QED
      BY <3>1, OpenedIsOpen, OpenedIsSane DEF o
  <2>5. eligible \in SUBSET Present(o)
    <3> HIDE DEF o
    <3> QED
      BY <2>4 DEF Eligible, Present
  <2>6. Ready(g, done)
    <3> SUFFICES ASSUME InRoom(g.loc)
                 PROVE  <<"area-population", g.loc.place>> \in done \cup {g.key}
      BY DEF Ready
    <3>1. g.loc.place \in Area
      BY DEF InRoom
    <3> QED
      BY <2>2, <2>3, <3>1 DEF IsTold
  <2>7. AllSettled(s, o.people, done)
    <3> HIDE DEF o
    <3> QED
      BY <2>4 DEF Tells
  <2> HIDE DEF o, eligible, physical, u
  <2>8. Spared(s, at, done, g, o, Turn(s, o, g, eligible, physical))
    BY <2>3, <2>4, <2>5, <2>6, <2>7, MatchedIsSpared
  <2>9. Sane(s, Turn(s, o, g, eligible, physical), g.key[1])
    BY <2>3, <2>4, <2>5, MatchedIsSane DEF IsOrdinary
  <2>10. Tells(s, at, u, done \cup {g.key})
    BY <1>1, <1>2, <2>2, <2>4, <2>8, <2>9, TalliedTells
  <2> QED
    BY <2>2, <2>10 DEF u
<1>3. CASE found = {}
  <2>1. Heard(s, done \cup {k}) = Heard(s, done)
    BY <1>3 DEF Heard, LoopGroupsOf
  <2>2. Tells(s, at, t, done \cup {k})
    BY <2>1, SettledLater DEF Tells
  <2> HIDE DEF found
  <2> QED
    BY <1>1, <1>3, <2>2
<1> QED
  BY <1>2, <1>3

-----------------------------------------------------------------------------
\* The first i keys of the loop.
Turns(i) == {Keys[j] : j \in 1 .. i}

\* The loop starts with nobody.
LEMMA UncountedTells ==
    ASSUME NEW s, IsOrdinary(s), Remembers, NEW at
    PROVE  Tells(s, at, Uncounted(s), Turns(0))
<1> DEFINE people == KnownPeople(s)
           u == Uncounted(s)
<1>1. u = [people |-> people, used |-> {}, eaten |-> {}, counted |-> {}, anonymous |-> {},
           n |-> 0, max |-> 0, extra |-> 0]
  BY DEF Uncounted
<1>2. AllSettled(s, people, {})
  BY KnownAreSettled DEF IsOrdinary
<1>3. Turns(0) = {} /\ Heard(s, {}) = {}
  BY DEF Turns, Heard
<1>4. Sum(LeastOf(s, at), {}) = 0
  BY FS_EmptySet, SumEquation
<1>5. IsFiniteSet({})
  BY FS_EmptySet
<1> HIDE DEF people, u
<1>6. Tells(s, at, u, Turns(0))
  BY <1>1, <1>2, <1>3, <1>4, <1>5 DEF Tells
<1> QED
  BY <1>6 DEF u

\* The loop ends with a tally of all groups, by the least exception.
LEMMA TallyTells ==
    ASSUME NEW s, IsOrdinary(s), Remembers, NEW at, IsAt(s, at)
    PROVE  Tells(s, at, Tally(s, GroupsOf(s)), Turns(Len(Keys)))
<1> DEFINE G == GroupsOf(s)
           n == Len(Keys)
           IsIt(h) == IsTallies(h, s, G, n)
           f == CHOOSE h : IsIt(h)
           Class(i) == IF i > 3 * Len(Names) THEN "target" ELSE "early"
           Right(i) == Sane(s, f[i], Class(i)) /\ Tells(s, at, f[i], Turns(i))
<1>1. n = 4 * Len(Names) /\ Len(Names) \in Nat /\ n \in Nat
  BY TargetsAreLast
<1>2. Tally(s, G) = f[n]
  BY DEF Tally, IsTallies
<1>3. IsTallies(f, s, G, n)
  <2>1. \E h : IsIt(h)
    BY <1>1, TalliesExist
  <2>2. IsIt(f)
    <3> HIDE DEF IsIt
    <3> QED
      BY <2>1
  <2> QED
    BY <2>2
<1> HIDE DEF f
<1>4. f[0] = Uncounted(s) /\ \A i \in 1 .. n : f[i] = TurnOf(s, G, f[i - 1], Keys[i])
  BY <1>1, <1>3 DEF IsTallies
<1>5. IsScene(s) /\ \A g \in G : IsReported(s.active, g)
  BY GroupsOfAreReported DEF IsOrdinary
<1>6. Right(0)
  <2>1. Sane(s, f[0], "early") /\ Tells(s, at, f[0], Turns(0))
    BY <1>4, <1>5, UncountedIsSane, UncountedTells
  <2>2. Class(0) = "early"
    BY <1>1
  <2> HIDE DEF Class
  <2> QED
    BY <2>1, <2>2
<1>7. ASSUME NEW i \in 1 .. n, Right(i - 1)
      PROVE  Right(i)
  <2>1. Class(i - 1) = "target" => Keys[i][1] = "target"
    BY <1>1, TargetsAreLast
  <2>2. Keys[i][1] = "target" => Class(i) = "target"
    BY <1>1, TargetsAreLast
  <2>3. f[i] = TurnOf(s, G, f[i - 1], Keys[i])
    BY <1>4
  <2>4. Turns(i) = Turns(i - 1) \cup {Keys[i]}
    <3>1. 1 .. i = (1 .. i - 1) \cup {i}
      BY <1>1
    <3> QED
      BY <3>1 DEF Turns
  <2>5. Keys[i][1] = "target" => \A a \in Area : <<"area-population", a>> \in Turns(i - 1)
    BY EveryKeyHasATurn DEF Turns
  <2> HIDE DEF Class
  <2>6. Sane(s, f[i - 1], Keys[i][1]) /\ Tells(s, at, f[i - 1], Turns(i - 1))
    BY <1>7, <2>1, SaneLater
  <2>7. Sane(s, f[i], Keys[i][1])
    BY <1>5, <2>3, <2>6, TurnIsSane
  <2>8. Tells(s, at, f[i], Turns(i - 1) \cup {Keys[i]})
    BY <2>3, <2>5, <2>6, TurnTells
  <2> QED
    BY <2>2, <2>4, <2>7, <2>8, SaneLater
<1>8. \A i \in 0 .. n : Right(i)
  <2> DEFINE Wrong == {i \in 0 .. n : ~ Right(i)}
  <2>1. SUFFICES ASSUME Wrong # {} PROVE FALSE
    OBVIOUS
  <2>2. PICK i \in Wrong : \A j \in Wrong : i <= j
    <3>1. Wrong \in SUBSET Nat
      OBVIOUS
    <3> HIDE DEF Wrong
    <3> QED
      BY <2>1, <3>1, LeastElement
  <2>3. i \in 0 .. n /\ ~ Right(i)
    BY <2>2
  <2>4. i \in 1 .. n
    <3> HIDE DEF Right
    <3> QED
      BY <1>6, <2>3
  <2>5. i - 1 \in 0 .. n /\ i - 1 \notin Wrong
    <3> HIDE DEF Right
    <3> QED
      BY <1>1, <2>2, <2>4
  <2>6. Right(i - 1)
    BY <2>5
  <2> HIDE DEF Right
  <2> QED
    BY <1>7, <2>3, <2>4, <2>6
<1>9. Right(n)
  <2> HIDE DEF Right
  <2> QED
    BY <1>1, <1>8
<1> QED
  BY <1>2, <1>9

\* What the tally leaves of all groups.
LEMMA AllAreHeard ==
    ASSUME NEW s, IsOrdinary(s), Remembers, NEW at, IsAt(s, at)
    PROVE  LET t == Tally(s, GroupsOf(s)) IN
           /\ t.extra \in Nat /\ t.extra >= Sum(LeastOf(s, at), LoopGroupsOf(s))
           /\ IsFiniteSet(t.counted)
           /\ \A c \in t.counted : c.n \in Nat /\ c.group.sources \in SUBSET Name
<1>1. \A x \in LoopGroupsOf(s) : x.key \in Turns(Len(Keys))
  <2> TAKE x \in LoopGroupsOf(s)
  <2>1. x.key \in Key
    BY LoopGroupsAreTold DEF IsTold
  <2> QED
    BY <2>1, EveryKeyHasATurn DEF Turns
<1>2. Heard(s, Turns(Len(Keys))) = LoopGroupsOf(s)
  BY <1>1 DEF Heard
<1> QED
  BY <1>2, TallyTells DEF Tells

-----------------------------------------------------------------------------
\* What the counters of a room leave for those whom no camera shows there.
RestFor(s, at, a) ==
    Max({0, RestOf(Groups(s.active), a).max - Cardinality(Here(s, at, a))})

\* They are finitely many persons.
LEMMA HereIsFinite ==
    ASSUME NEW s, NEW at, NEW a
    PROVE  IsFiniteSet(Here(s, at, a)) /\ Cardinality(Here(s, at, a)) \in Nat
<1>1. Here(s, at, a) \in SUBSET Person
  BY DEF Here, SeenPersons
<1> QED
  BY <1>1, SomePersons

\* What is left of a crowded room.
LEMMA CrowdedRooms ==
    ASSUME NEW s, IsOrdinary(s), NEW at, NEW a \in Crowded(Groups(s.active))
    PROVE  LET p == PopulationOf(Groups(s.active), a) IN
           /\ p \in LoopGroupsOf(s) /\ p.key = <<"area-population", a>>
           /\ Least(s, at, p) = RestFor(s, at, a) /\ RestFor(s, at, a) \in Nat
<1> DEFINE G == Groups(s.active)
           p == PopulationOf(G, a)
<1>1. IsScene(s) /\ IsEvidence(s.active) /\ HaveCounts(G)
  BY SceneIsEvidence, EvidenceIsGrouped DEF IsOrdinary
<1>2. a \in Area /\ Aggregates(G, a) # {}
  BY DEF Crowded
<1>3. PICK h \in Aggregates(G, a) :
        p = [key |-> <<"area-population", a>>, kind |-> KindOf(G, a), loc |-> h.loc,
             min |-> RestOf(G, a).min, max |-> RestOf(G, a).max,
             sources |-> SourcesOf(G, a), target |-> Nothing,
             coverage |-> h.coverage, observer |-> Nothing]
  BY <1>1, <1>2, PopulationIsThere
<1>4. p \in GroupsOf(s)
  BY <1>1, LoopGroups
<1>5. ~IsAnimal(KindOf(G, a))
  BY DEF KindOf, IsAnimal, Animals
<1>6. RestOf(G, a).max \in Nat
  BY <1>1, <1>2, RestIsCounted
<1> HIDE DEF p, G
<1>7. /\ p.key = <<"area-population", a>> /\ p.key[1] = "area-population" /\ p.key[2] = a
      /\ p.max = RestOf(G, a).max /\ p.kind = KindOf(G, a)
  BY <1>3
<1>8. p \in LoopGroupsOf(s)
  BY <1>4, <1>5, <1>7 DEF LoopGroupsOf
<1>9. Least(s, at, p) = RestFor(s, at, a)
  BY <1>7 DEF Least, RestFor, G
<1>10. RestFor(s, at, a) \in Nat
  <2> DEFINE m == RestOf(G, a).max
             k == Cardinality(Here(s, at, a))
  <2>1. m \in Nat /\ k \in Nat
    BY <1>6, HereIsFinite
  <2>2. RestFor(s, at, a) = Max({0, m - k})
    BY DEF RestFor, G
  <2> HIDE DEF m, k
  <2> QED
    BY <2>1, <2>2, NotBelowZero
<1> QED
  BY <1>7, <1>8, <1>9, <1>10 DEF p, G

\* What the loop leaves: all that is reported, and the rest of crowded rooms.
LEMMA LoopLeaves ==
    ASSUME NEW s, IsOrdinary(s), NEW at, NEW rest,
           \A a \in Crowded(Groups(s.active)) : rest[a] = RestFor(s, at, a)
    PROVE  /\ MaxSum(Reported(Groups(s.active))) \in Nat
           /\ Sum(rest, Crowded(Groups(s.active))) \in Nat
           /\ Sum(LeastOf(s, at), LoopGroupsOf(s)) \in Nat
           /\ Sum(LeastOf(s, at), LoopGroupsOf(s))
                >= MaxSum(Reported(Groups(s.active))) + Sum(rest, Crowded(Groups(s.active)))
<1> DEFINE G == Groups(s.active)
           R == Reported(G)
           C == Crowded(G)
           L == LoopGroupsOf(s)
           low == LeastOf(s, at)
           most == [g \in R |-> g.max]
           F == [g \in R |-> Turned(G, g)]
           P == [a \in C |-> PopulationOf(G, a)]
           told == {F[g] : g \in R}
           crowds == {P[a] : a \in C}
<1>1. IsScene(s) /\ IsEvidence(s.active) /\ HaveCounts(G)
  BY SceneIsEvidence, EvidenceIsGrouped DEF IsOrdinary
<1>2. \A g \in G : IsCounted(s, g) /\ g = GroupFields(g)
  BY <1>1, GroupsAreCounted, EvidenceIsGrouped
<1>3. \A g, h \in G : g.key = h.key => g = h
  BY <1>1, EvidenceIsGrouped
<1>4. \A g \in R : g \in G /\ ~IsAnimal(g.kind)
  BY DEF Reported
<1>5. ASSUME NEW g \in R
      PROVE  /\ F[g] \in L /\ F[g].key = g.key /\ g.key[1] # "area-population"
             /\ low[F[g]] = most[g] /\ most[g] \in Nat
  <2> DEFINE x == Turned(G, g)
  <2>1. SameGroup(x, g) /\ x \in GroupsOf(s)
    BY <1>1, <1>2, <1>4, TurnedIsTheSame, LoopGroups
  <2>2. g.max \in Nat /\ g.key[1] # "area-population"
    BY <1>2, <1>4 DEF IsCounted
  <2> HIDE DEF x
  <2>3. x \in L /\ x.key = g.key
    BY <1>4, <2>1 DEF LoopGroupsOf, SameGroup
  <2>4. Least(s, at, x) = g.max
    BY <2>1, <2>2 DEF Least, SameGroup
  <2>5. F[g] = x /\ most[g] = g.max
    BY DEF x
  <2>6. low[x] = Least(s, at, x)
    BY <2>3 DEF LeastOf
  <2> HIDE DEF F, most, low, L
  <2> QED
    BY <2>2, <2>3, <2>4, <2>5, <2>6
<1>6. ASSUME NEW a \in C
      PROVE  /\ P[a] \in L /\ P[a].key = <<"area-population", a>>
             /\ low[P[a]] = rest[a] /\ rest[a] \in Nat
  <2> DEFINE p == PopulationOf(G, a)
  <2>1. /\ p \in L /\ p.key = <<"area-population", a>>
        /\ Least(s, at, p) = rest[a] /\ rest[a] \in Nat
    BY CrowdedRooms
  <2>2. P[a] = p
    OBVIOUS
  <2>3. low[p] = Least(s, at, p)
    BY <2>1 DEF LeastOf
  <2> HIDE DEF p, P, low, L
  <2> QED
    BY <2>1, <2>2, <2>3
<1>7. IsFiniteSet(L) /\ \A x \in L : low[x] \in Nat
  BY LoopGroupsAreFinite
<1>8. IsFiniteSet(R) /\ IsFiniteSet(C)
  <2>1. R \in SUBSET G /\ C \in SUBSET Area
    BY DEF Reported, Crowded
  <2> QED
    BY <1>1, <2>1, NamesAreFinite, FS_Subset DEF HaveCounts
<1>9. MaxSum(R) = Sum(most, R)
  BY <1>8, MaxSumIsSum
<1> HIDE DEF F, P, most, low, L, R, C
<1>10. Sum(low, told) = Sum(most, R)
  <2>1. \A g, h \in R : F[g] = F[h] => g = h
    BY <1>3, <1>4, <1>5
  <2>2. \A g \in R : most[g] \in Nat /\ low[F[g]] = most[g]
    BY <1>5
  <2> QED
    BY <1>8, <2>1, <2>2, SumOfImage
<1>11. Sum(low, crowds) = Sum(rest, C)
  <2>1. \A a, b \in C : P[a] = P[b] => a = b
    BY <1>6
  <2>2. \A a \in C : rest[a] \in Nat /\ low[P[a]] = rest[a]
    BY <1>6
  <2> QED
    BY <1>8, <2>1, <2>2, SumOfImage
<1>12. told \in SUBSET L /\ crowds \in SUBSET L
  BY <1>5, <1>6
<1>13. told \cap crowds = {}
  <2> SUFFICES ASSUME NEW g \in R, NEW a \in C, F[g] = P[a] PROVE FALSE
    OBVIOUS
  <2> QED
    BY <1>5, <1>6
<1> HIDE DEF told, crowds
<1>14. IsFiniteSet(told) /\ IsFiniteSet(crowds)
  BY <1>7, <1>12, FS_Subset
<1>15. Sum(low, told \cup crowds) = Sum(low, told) + Sum(low, crowds)
  BY <1>7, <1>12, <1>13, <1>14, SumOfUnion
<1>16. Sum(low, told \cup crowds) <= Sum(low, L)
  BY <1>7, <1>12, SumOfSome
<1>17. Sum(most, R) \in Nat /\ Sum(rest, C) \in Nat /\ Sum(low, L) \in Nat
  BY <1>5, <1>6, <1>7, <1>8, SumIsNatural
<1> QED
  BY <1>9, <1>10, <1>11, <1>15, <1>16, <1>17 DEF G, R, C, L, low

\* What is reported outside the rooms, and tracked in each.
LEMMA ReportedByRoom ==
    ASSUME NEW G, HaveCounts(G), NEW tracked,
           \A a \in Area : tracked[a] = MaxSum(Tracks(OfRoom(G, a)))
    PROVE  /\ MaxSum(Outside(G)) \in Nat /\ Sum(tracked, Area) \in Nat
           /\ \A a \in Area : tracked[a] \in Nat
           /\ MaxSum(Reported(G)) = MaxSum(Outside(G)) + Sum(tracked, Area)
<1> DEFINE within == {g \in G : ~IsAnimal(g.kind) /\ InRoom(g.loc) /\ g.target # Nothing}
           part == [g \in within |-> g.loc.place]
           most == [g \in G |-> g.max]
<1>1. Reported(G) = Outside(G) \cup within /\ Outside(G) \cap within = {}
  BY DEF Reported, Outside
<1>2. Reported(G) \in SUBSET G /\ Outside(G) \in SUBSET G /\ within \in SUBSET G
  BY DEF Reported, Outside
<1>3. IsFiniteSet(Reported(G)) /\ IsFiniteSet(Outside(G)) /\ IsFiniteSet(within) /\ IsFiniteSet(Area)
  BY <1>2, NamesAreFinite, FS_Subset DEF HaveCounts
<1>4. \A g \in G : most[g] = g.max /\ most[g] \in Nat
  BY DEF HaveCounts
<1>5. part \in [within -> Area]
  BY DEF InRoom
<1>6. \A a \in Area : PartOf(within, part, a) = Tracks(OfRoom(G, a))
  BY DEF PartOf, Tracks, OfRoom
<1> HIDE DEF most, within, part
<1>7. ASSUME NEW H \in SUBSET G
      PROVE  MaxSum(H) = Sum(most, H) /\ Sum(most, H) \in Nat
  <2>1. IsFiniteSet(H)
    BY FS_Subset DEF HaveCounts
  <2>2. \A g \in H : most[g] = g.max /\ most[g] \in Nat
    BY <1>4
  <2> QED
    BY <2>1, <2>2, MaxSumIsSum, SumIsNatural
<1>8. \A a \in Area : tracked[a] = Sum(most, PartOf(within, part, a)) /\ tracked[a] \in Nat
  <2> TAKE a \in Area
  <2>1. Tracks(OfRoom(G, a)) \in SUBSET G
    BY DEF Tracks, OfRoom
  <2> QED
    BY <1>6, <1>7, <2>1
<1>9. Sum(tracked, Area) = Sum(most, within)
  BY <1>2, <1>3, <1>4, <1>5, <1>8, SumOfParts
<1>10. Sum(most, Outside(G) \cup within) = Sum(most, Outside(G)) + Sum(most, within)
  BY <1>1, <1>2, <1>3, <1>4, SumOfUnion
<1> QED
  BY <1>1, <1>2, <1>7, <1>8, <1>9, <1>10

-----------------------------------------------------------------------------
\* What NobodyIsHidden says of a room.
Counted(G, a) == Max({0} \cup {g.max : g \in Counters(OfRoom(G, a))})

\* what its cameras track,
TrackedIn(G, a) == MaxSum(Tracks(OfRoom(G, a)))

\* and how many bodies it takes.
Needed(s, at, a) ==
    Max({Counted(Groups(s.active), a),
         TrackedIn(Groups(s.active), a) + Cardinality(Here(s, at, a))})

\* A room needs what is tracked, the rest of its counters, and its persons.
LEMMA RoomsNeed ==
    ASSUME NEW s, IsOrdinary(s), NEW at, NEW a \in Area, NEW r,
           r = IF a \in Crowded(Groups(s.active)) THEN RestFor(s, at, a) ELSE 0
    PROVE  /\ TrackedIn(Groups(s.active), a) \in Nat /\ r \in Nat /\ Needed(s, at, a) \in Nat
           /\ Needed(s, at, a) <= (TrackedIn(Groups(s.active), a) + r) + Cardinality(Here(s, at, a))
<1> DEFINE G == Groups(s.active)
           A == Aggregates(G, a)
           T == Tracks(OfRoom(G, a))
           rest == RestOf(G, a).max
           tm == TrackedMinimum(Whole(T))
           k == Cardinality(Here(s, at, a))
           tr == TrackedIn(G, a)
           S == {0} \cup {g.max : g \in Counters(OfRoom(G, a))}
           c == Counted(G, a)
<1>1. HaveCounts(G) /\ \A g \in G : g.min <= g.max
  BY SceneIsEvidence, EvidenceIsGrouped, GroupsAreCounted DEF IsOrdinary, IsCounted
<1>2. Counters(OfRoom(G, a)) = A
  BY DEF Counters, Aggregates, Tracks, OfRoom
<1>3. A \in SUBSET G /\ T \in SUBSET G
  BY DEF Aggregates, Tracks, OfRoom
<1>4. k \in Nat
  BY HereIsFinite
<1>5. tm \in Nat /\ tr \in Nat /\ tm <= tr
  <2>1. IsFiniteSet(T) /\ \A g \in T : g.min \in Nat /\ g.max \in Nat /\ g.min <= g.max
    BY <1>1, <1>3, FS_Subset DEF HaveCounts
  <2> HIDE DEF T
  <2>2. tm \in Nat /\ MaxSum(T) \in Nat /\ tm <= MaxSum(T)
    BY <2>1, TrackedAreNoMore
  <2> QED
    BY <2>2 DEF TrackedIn, T
<1>6. c \in Nat /\ (c = 0 \/ \E g \in A : c = g.max)
  <2> DEFINE f == [g \in A |-> g.max]
             I == {f[g] : g \in A}
  <2>1. IsFiniteSet(A) /\ \A g \in A : g.max \in Nat
    BY <1>1, <1>3, FS_Subset DEF HaveCounts
  <2>2. IsFiniteSet(I)
    <3> HIDE DEF f, A
    <3> QED
      BY <2>1, ImageIsFinite
  <2>3. S = {0} \cup I
    BY <1>2
  <2>4. IsFiniteSet(S) /\ S \in SUBSET Nat /\ S # {}
    <3>1. I \in SUBSET Nat
      BY <2>1
    <3> HIDE DEF I, S, A
    <3>2. IsFiniteSet({0}) /\ IsFiniteSet(I)
      BY <2>2, FS_Singleton
    <3>3. IsFiniteSet({0} \cup I)
      BY <3>2, FS_Union
    <3> QED
      BY <2>3, <3>1, <3>3
  <2>5. Max(S) \in S
    <3> HIDE DEF S
    <3> QED
      BY <2>4, MaxIsGreatest
  <2>6. c = Max(S)
    BY DEF Counted
  <2>7. \A x \in S : x = 0 \/ \E g \in A : x = g.max
    BY <1>2
  <2> HIDE DEF S, c, A
  <2> QED
    BY <2>4, <2>5, <2>6, <2>7
<1>7. A # {} => rest \in Nat /\ \A g \in A : g.max <= rest + tm
  BY <1>1, RestIsCounted
<1>8. (a \in Crowded(G)) = (A # {} /\ rest # 0)
  BY DEF Crowded
<1>9. a \in Crowded(G) => r = Max({0, rest - k})
  BY DEF RestFor
<1>10. a \notin Crowded(G) => r = 0
  OBVIOUS
<1>11. Needed(s, at, a) = Max({c, tr + k})
  BY DEF Needed
<1>12. TrackedIn(Groups(s.active), a) = tr /\ Cardinality(Here(s, at, a)) = k
  OBVIOUS
<1>13. \A g \in A : g.max \in Nat
  BY <1>1, <1>3 DEF HaveCounts
<1> HIDE DEF A, T, rest, tm, k, tr, S, c, G
<1>14. Needed(s, at, a) = IF c >= tr + k THEN c ELSE tr + k
  BY <1>4, <1>5, <1>6, <1>11, GreaterOfTwo
<1>15. CASE a \in Crowded(G)
  <2>1. r = IF 0 >= rest - k THEN 0 ELSE rest - k
    BY <1>4, <1>7, <1>8, <1>9, <1>15, GreaterOfTwo
  <2>2. rest \in Nat /\ c <= rest + tm
    BY <1>5, <1>6, <1>7, <1>8, <1>15
  <2> QED
    BY <1>4, <1>5, <1>6, <1>12, <1>14, <2>1, <2>2
<1>16. CASE a \notin Crowded(G)
  <2>1. c <= tm
    <3>1. CASE A = {}
      BY <1>5, <1>6, <3>1
    <3>2. CASE A # {}
      BY <1>5, <1>6, <1>7, <1>8, <1>13, <1>16, <3>2
    <3> QED
      BY <3>1, <3>2
  <2> QED
    BY <1>4, <1>5, <1>6, <1>10, <1>12, <1>14, <1>16, <2>1
<1> QED
  BY <1>15, <1>16

\* All rooms together do.
LEMMA AllRoomsNeed ==
    ASSUME NEW s, IsOrdinary(s), NEW at, IsAt(s, at), NEW needed, NEW tracked, NEW rest,
           \A a \in Area : /\ needed[a] = Needed(s, at, a)
                           /\ tracked[a] = TrackedIn(Groups(s.active), a)
                           /\ rest[a] = IF a \in Crowded(Groups(s.active))
                                        THEN RestFor(s, at, a) ELSE 0
    PROVE  /\ Sum(needed, Area) \in Nat
           /\ Sum(needed, Area) <= (Sum(tracked, Area) + Sum(rest, Crowded(Groups(s.active))))
                                     + Cardinality(SeenPersons(s.active))
<1> DEFINE C == Crowded(Groups(s.active))
           seen == SeenPersons(s.active)
           here == [a \in Area |-> Cardinality(Here(s, at, a))]
           both == [a \in Area |-> tracked[a] + rest[a]]
<1>1. IsFiniteSet(Area) /\ C \in SUBSET Area /\ IsFiniteSet(C) /\ IsFiniteSet(Area \ C)
  <2>1. C \in SUBSET Area
    BY DEF Crowded
  <2> QED
    BY <2>1, NamesAreFinite, FS_Subset
<1>2. IsFiniteSet(seen)
  <2>1. seen \in SUBSET Person
    BY DEF SeenPersons
  <2> QED
    BY <2>1, SomePersons
<1>3. \A a \in Area : here[a] = Cardinality(Here(s, at, a)) /\ here[a] \in Nat
  BY HereIsFinite
<1>4. \A a \in Area : /\ tracked[a] \in Nat /\ rest[a] \in Nat /\ needed[a] \in Nat
                      /\ needed[a] <= (tracked[a] + rest[a]) + here[a]
  BY <1>3, RoomsNeed
<1>5. \A a \in Area : both[a] = tracked[a] + rest[a] /\ both[a] \in Nat
  BY <1>4
<1>6. \A a \in Area : PartOf(seen, at, a) = Here(s, at, a)
  BY DEF PartOf, Here
<1>7. at \in [seen -> Area]
  BY DEF IsAt
<1>8. \A a \in Area \ C : rest[a] = 0
  OBVIOUS
<1> HIDE DEF C, seen, here, both
<1>9. Sum(here, Area) = Cardinality(seen)
  BY <1>1, <1>2, <1>3, <1>6, <1>7, SizesOfParts
<1>10. Sum(both, Area) = Sum(tracked, Area) + Sum(rest, Area)
  BY <1>1, <1>4, <1>5, SumOfTerms
<1>11. Sum(rest, Area) = Sum(rest, C)
  <2>1. Sum(rest, Area \ C) = 0
    BY <1>1, <1>8, SumOfZeros
  <2>2. Sum(rest, C \cup (Area \ C)) = Sum(rest, C) + Sum(rest, Area \ C)
    BY <1>1, <1>4, SumOfUnion
  <2>3. C \cup (Area \ C) = Area
    BY <1>1
  <2>4. Sum(rest, C) \in Nat
    BY <1>1, <1>4, SumIsNatural
  <2> QED
    BY <2>1, <2>2, <2>3, <2>4
<1>12. Sum(needed, Area) <= Sum(both, Area) + Sum(here, Area)
  BY <1>1, <1>3, <1>4, <1>5, SumAtMost
<1>13. Sum(needed, Area) \in Nat
  BY <1>1, <1>4, SumIsNatural
<1> QED
  BY <1>9, <1>10, <1>11, <1>12, <1>13 DEF C, seen

\* The greatest count of the home has room for all.
LEMMA HomeIsRoomy ==
    ASSUME NEW s, IsOrdinary(s), Remembers, NEW at, IsAt(s, at), NEW present \in SUBSET Person,
           \A w \in present : Placed(s, Tally(s, GroupsOf(s)))[w] # Nothing,
           SeenPersons(s.active) \subseteq present
    PROVE  LET t == Tally(s, GroupsOf(s))
               people == Placed(s, t)
               G == Groups(s.active)
           IN  HomeCount(t, people, GroupsOf(s), Occupancies(s, people, GroupsOf(s))).max
                 >= MaxSum(Outside(G)) + MaxSum(AnimalsOf(G))
                      + Cardinality(present \ SeenPersons(s.active))
                      + SumFunction([a \in Area |-> Needed(s, at, a)])
<1> DEFINE t == Tally(s, GroupsOf(s))
           people == Placed(s, t)
           G == Groups(s.active)
           H == GroupsOf(s)
           seen == SeenPersons(s.active)
           all == {w \in Person : people[w] # Nothing}
           total == HomeCount(t, people, H, Occupancies(s, people, H)).max
           needed == [a \in Area |-> Needed(s, at, a)]
           tracked == [a \in Area |-> TrackedIn(G, a)]
           rest == [a \in Area |-> IF a \in Crowded(G) THEN RestFor(s, at, a) ELSE 0]
<1>1. IsScene(s) /\ HaveCounts(G) /\ HaveCounts(H)
  BY SceneIsEvidence, EvidenceIsGrouped, LoopGroupsAreTold DEF IsOrdinary
<1>2. /\ t.extra \in Nat /\ t.extra >= Sum(LeastOf(s, at), LoopGroupsOf(s))
      /\ IsFiniteSet(t.counted)
      /\ \A c \in t.counted : c.n \in Nat /\ c.group.sources \in SUBSET Name
  BY AllAreHeard
<1>3. Cardinality(all) \in Nat /\ total \in Int
      /\ total >= Cardinality(all) + MaxSum(AnimalsOf(H)) + t.extra
  <2> HIDE DEF t, people, H
  <2> QED
    BY <1>1, <1>2, HomeIsCounted
<1>4. MaxSum(AnimalsOf(H)) \in Nat /\ MaxSum(AnimalsOf(G)) \in Nat
      /\ MaxSum(AnimalsOf(G)) <= MaxSum(AnimalsOf(H))
  <2> DEFINE S == AnimalsOf(G)
             T == AnimalsOf(H)
             most == [g \in T |-> g.max]
  <2>1. T \in SUBSET H /\ S \in SUBSET T
    BY <1>1, LoopGroups DEF AnimalsOf
  <2>2. IsFiniteSet(T) /\ IsFiniteSet(S) /\ \A g \in T : g.max \in Nat
    BY <1>1, <2>1, FS_Subset DEF HaveCounts
  <2>3. \A g \in T : most[g] = g.max /\ most[g] \in Nat
    BY <2>2
  <2> HIDE DEF S, T, most
  <2>4. MaxSum(T) = Sum(most, T) /\ MaxSum(S) = Sum(most, S)
    BY <2>1, <2>2, <2>3, MaxSumIsSum
  <2>5. Sum(most, S) <= Sum(most, T)
    BY <2>1, <2>2, <2>3, SumOfSome
  <2>6. Sum(most, S) \in Nat /\ Sum(most, T) \in Nat
    BY <2>1, <2>2, <2>3, SumIsNatural
  <2> QED
    BY <2>4, <2>5, <2>6 DEF S, T
<1>5. Sum(LeastOf(s, at), LoopGroupsOf(s))
        >= MaxSum(Reported(G)) + Sum(rest, Crowded(G))
      /\ MaxSum(Reported(G)) \in Nat /\ Sum(rest, Crowded(G)) \in Nat
      /\ Sum(LeastOf(s, at), LoopGroupsOf(s)) \in Nat
  <2>1. \A a \in Crowded(G) : rest[a] = RestFor(s, at, a)
    BY DEF Crowded
  <2> HIDE DEF rest
  <2> QED
    BY <2>1, LoopLeaves
<1>6. /\ MaxSum(Outside(G)) \in Nat /\ Sum(tracked, Area) \in Nat
      /\ MaxSum(Reported(G)) = MaxSum(Outside(G)) + Sum(tracked, Area)
  <2>1. \A a \in Area : tracked[a] = MaxSum(Tracks(OfRoom(G, a)))
    BY DEF TrackedIn
  <2> HIDE DEF tracked, G
  <2> QED
    BY <1>1, <2>1, ReportedByRoom
<1>7. /\ Sum(needed, Area) \in Nat
      /\ Sum(needed, Area) <= (Sum(tracked, Area) + Sum(rest, Crowded(G))) + Cardinality(seen)
  <2>1. \A a \in Area : /\ needed[a] = Needed(s, at, a) /\ tracked[a] = TrackedIn(G, a)
                        /\ rest[a] = IF a \in Crowded(G) THEN RestFor(s, at, a) ELSE 0
    OBVIOUS
  <2> HIDE DEF needed, tracked, rest
  <2> QED
    BY <2>1, AllRoomsNeed
<1>8. SumFunction(needed) = Sum(needed, Area)
  <2>1. needed = [a \in Area |-> needed[a]]
    OBVIOUS
  <2> HIDE DEF needed
  <2> QED
    BY <2>1, SumFunctionIsSum
<1>9. /\ Cardinality(seen) \in Nat /\ Cardinality(present \ seen) \in Nat
      /\ Cardinality(present \ seen) + Cardinality(seen) <= Cardinality(all)
  <2>1. present \in SUBSET all /\ all \in SUBSET Person /\ seen \in SUBSET present
    OBVIOUS
  <2> HIDE DEF all, seen
  <2>2. /\ IsFiniteSet(present) /\ IsFiniteSet(all) /\ IsFiniteSet(seen)
        /\ IsFiniteSet(present \ seen)
        /\ Cardinality(present) \in Nat /\ Cardinality(seen) \in Nat
        /\ Cardinality(present \ seen) \in Nat /\ Cardinality(all) \in Nat
    <3>1. present \ seen \in SUBSET Person /\ seen \in SUBSET Person
      BY <2>1
    <3> QED
      BY <2>1, <3>1, SomePersons
  <2>3. Cardinality(present) <= Cardinality(all)
    BY <2>1, <2>2, FS_Subset
  <2> DEFINE away == present \ seen
  <2>4. away \cup seen = present /\ away \cap seen = {}
    BY <2>1
  <2>5. IsFiniteSet(away) /\ Cardinality(away) \in Nat
    BY <2>2
  <2> HIDE DEF away
  <2>6. Cardinality(away \cup seen)
          = Cardinality(away) + Cardinality(seen) - Cardinality(away \cap seen)
    BY <2>2, <2>5, FS_Union
  <2>7. Cardinality(away \cap seen) = 0
    BY <2>4, FS_EmptySet
  <2> DEFINE u == Cardinality(away \cup seen)
             v == Cardinality(away \cap seen)
  <2>8. u = Cardinality(present)
    BY <2>4
  <2>9. u = Cardinality(away) + Cardinality(seen) - v /\ v = 0
    BY <2>6, <2>7
  <2> HIDE DEF u, v
  <2>10. Cardinality(present) = Cardinality(away) + Cardinality(seen)
    BY <2>2, <2>5, <2>8, <2>9
  <2> QED
    BY <2>2, <2>3, <2>10 DEF away
<1> HIDE DEF t, people, G, H, seen, all, total, needed, tracked, rest
<1>10. total >= MaxSum(Outside(G)) + MaxSum(AnimalsOf(G))
                  + Cardinality(present \ seen) + SumFunction(needed)
  BY <1>2, <1>3, <1>4, <1>5, <1>6, <1>7, <1>8, <1>9
<1> QED
  BY <1>10 DEF t, people, G, H, seen, total, needed

-----------------------------------------------------------------------------
\* A scene of the model whose objects are tracked by cameras.
LEMMA ScenesAreOrdinary ==
    ASSUME NEW s \in Scenes, TrackedByCameras(s.active)
    PROVE  IsOrdinary(s)
BY SceneAssumption, ScenesAreScenes DEF IsOrdinary

\* A resolution leaves room for everybody reported.
LEMMA ResolveHidesNobody ==
    ASSUME Remembers, NEW s \in Scenes, Resolve(s)
    PROVE  NobodyIsHidden'
<1> DEFINE t == Tally(s, GroupsOf(s))
           people == Placed(s, t)
           G == Groups(s.active)
           seen == SeenPersons(s.active)
           present == {w \in Person : known'[w] # Nothing}
           n == HomeCount(t, people, GroupsOf(s), Occupancies(s, people, GroupsOf(s))).max
           Roomy(at) == n >= MaxSum(Outside(G)) + MaxSum(AnimalsOf(G))
                               + Cardinality(present \ seen)
                               + SumFunction([a \in Area |-> Needed(s, at, a)])
<1>1. /\ scene' = s
      /\ count' = HomeCount(t, people, GroupsOf(s), Occupancies(s, people, GroupsOf(s)))
      /\ known' = [w \in Person |-> Hypothesis(people[w])]
  BY DEF Resolve, FromGroups, Resolved, Correlated, Snapshot
<1>2. IsScene(s)
  BY ScenesAreScenes
<1>3. present \in SUBSET Person /\ \A w \in present : people[w] # Nothing
  BY <1>1 DEF Hypothesis
<1>4. seen \subseteq present
  <2> SUFFICES ASSUME NEW w \in seen PROVE w \in present
    OBVIOUS
  <2>1. w \in Person /\ Identified(s.active, w) # {}
    BY DEF SeenPersons, RoomsOf
  <2>2. Hypothesis(people[w]) \in Hypotheses
    BY <1>2, <2>1, ResolvedIsJustified
  <2>3. known'[w] = Hypothesis(people[w])
    BY <1>1, <2>1
  <2> HIDE DEF people
  <2> QED
    BY <2>1, <2>2, <2>3, NothingAssumption
<1> HIDE DEF t, people, present
<1>5. ASSUME TrackedByCameras(s.active)
      PROVE  \E at \in [seen -> Area] : /\ \A w \in seen : at[w] \in RoomsOf(s.active, w)
                                        /\ Roomy(at)
  <2>1. IsOrdinary(s)
    BY <1>5, ScenesAreOrdinary
  <2>2. PICK at : IsAt(s, at)
    BY <1>2, SomeRooms
  <2>3. Roomy(at)
    BY <1>3, <1>4, <2>1, <2>2, HomeIsRoomy DEF t, people
  <2> HIDE DEF Roomy
  <2> QED
    BY <2>2, <2>3 DEF IsAt
<1>6. count'.max = n
  BY <1>1
<1> QED
  BY <1>1, <1>5, <1>6
     DEF NobodyIsHidden, EverybodyHasRoom, TrackedByCameras, Needed, Counted, TrackedIn, Here,
         present

\* The greatest number of bodies leaves room for everybody reported, whatever
\* the scenes, as long as cameras track what is tracked.
THEOREM NobodyHidden == Spec => []NobodyIsHidden
<1>1. Init => Remembers /\ NobodyIsHidden
  BY DEF Init, Remembers, NobodyIsHidden
<1>2. Remembers /\ NobodyIsHidden /\ [Next]_vars => NobodyIsHidden'
  <2> SUFFICES ASSUME Remembers, NobodyIsHidden, [Next]_vars PROVE NobodyIsHidden'
    OBVIOUS
  <2>1. CASE \E s \in Scenes : Resolve(s)
    BY <2>1, ResolveHidesNobody
  <2>2. CASE \E d \in 0 .. 1 : Pass(d)
    BY <2>2, PassKeeps DEF NobodyIsHidden, EverybodyHasRoom
  <2>3. CASE UNCHANGED vars
    BY <2>3 DEF vars, NobodyIsHidden, EverybodyHasRoom
  <2> QED
    BY <2>1, <2>2, <2>3 DEF Next
<1> QED
  BY <1>1, <1>2, MemoryIsTyped, PTL DEF Spec

-----------------------------------------------------------------------------
\* Evidence whose intervals are not empty.
IsProper(E) == IsEvidence(E) /\ \A o \in E : o.min <= o.max

\* A group that stands for an observation, where a report under the same key
\* is that is no older.
StandsFor(E, g, o) ==
    /\ o.source \in g.sources /\ o.max <= g.max
    /\ \E p \in Anonymous(E) : KeyOf(p) = KeyOf(o) /\ AgeOf(p) <= AgeOf(o) /\ g.loc = p.loc

\* Nothing anonymous is left out of the groups.
LEMMA EachIsGrouped ==
    ASSUME NEW E, IsProper(E)
    PROVE  /\ \A g \in Groups(E) : g.min <= g.max
           /\ \A o \in Anonymous(E) : \E g \in Groups(E) : StandsFor(E, g, o)
<1> DEFINE A == Anonymous(E)
           of(o) == {p \in A : KeyOf(p) = KeyOf(o)}
<1>1. A \in SUBSET E /\ IsFiniteSet(A)
  <2>1. A \in SUBSET E
    BY DEF Anonymous
  <2> HIDE DEF A
  <2> QED
    BY <2>1, FS_Subset DEF IsProper, IsEvidence
<1> HIDE DEF A
<1>2. ASSUME NEW o \in A
      PROVE  LET g == GroupOf(of(o)) IN
             /\ g.min <= g.max
             /\ o.source \in g.sources /\ o.max <= g.max
             /\ \E p \in A : KeyOf(p) = KeyOf(o) /\ AgeOf(p) <= AgeOf(o) /\ g.loc = p.loc
  <2> DEFINE S == of(o)
             x == NewestOf(S)
             g == GroupOf(S)
             min == [p \in S |-> Interval(p).min]
             max == [p \in S |-> Interval(p).max]
  <2>1. o \in S /\ S \in SUBSET E /\ S \in SUBSET A
    BY <1>1, <1>2
  <2>2. IsFiniteSet(S) /\ S # {}
    <3> HIDE DEF S
    <3> QED
      BY <1>1, <2>1, FS_Subset
  <2>3. x \in S /\ AgeOf(x) <= AgeOf(o)
    <3>1. HaveNames(S) /\ \A p \in S : AgeOf(p) \in Nat
      BY <2>1 DEF IsProper, IsEvidence, HaveNames
    <3> HIDE DEF S
    <3> QED
      BY <2>1, <2>2, <3>1, NewestExists
  <2>4. x \in A /\ KeyOf(x) = KeyOf(o)
    BY <2>1, <2>3
  <2>5. \A p \in S : /\ min[p] \in Nat /\ max[p] \in Nat /\ min[p] <= max[p] /\ max[p] = p.max
    <3> TAKE p \in S
    <3>1. p.min \in Nat /\ p.max \in Nat /\ p.min <= p.max
      BY <2>1 DEF IsProper, IsEvidence
    <3>2. Interval(p).min \in Nat /\ Interval(p).min <= p.min /\ Interval(p).max = p.max
      BY <3>1, LeastIsANumber
    <3> QED
      BY <3>1, <3>2
  <2>6. /\ g.sources = {p.source : p \in S} /\ g.loc = x.loc
        /\ g.min = Max({min[p] : p \in S}) /\ g.max = Max({max[p] : p \in S})
    <3> HIDE DEF S
    <3> QED
      BY DEF GroupOf, x, min, max
  <2> HIDE DEF S, x, g, min, max
  <2>7. /\ g.min \in {min[p] : p \in S} /\ g.max \in Nat
        /\ \A p \in S : max[p] <= g.max
    <3>1. (\A p \in S : min[p] \in Nat) /\ \A p \in S : max[p] \in Nat
      BY <2>5
    <3>2. Max({min[p] : p \in S}) \in {min[p] : p \in S}
      BY <2>2, <3>1, GreatestOfImage
    <3>3. LET m == Max({max[p] : p \in S}) IN m \in Nat /\ \A p \in S : max[p] <= m
      BY <2>2, <3>1, GreatestOfImage
    <3> QED
      BY <2>6, <3>2, <3>3
  <2>8. g.min <= g.max
    <3>1. PICK p \in S : g.min = min[p]
      BY <2>7
    <3>2. min[p] <= max[p] /\ max[p] <= g.max /\ min[p] \in Nat /\ max[p] \in Nat
      BY <2>5, <2>7
    <3> QED
      BY <2>7, <3>1, <3>2
  <2>9. o.source \in g.sources /\ o.max <= g.max
    BY <2>1, <2>5, <2>6, <2>7
  <2> QED
    BY <2>3, <2>4, <2>6, <2>8, <2>9 DEF g, S
<1>3. \A g \in Groups(E) : \E o \in A : g = GroupOf(of(o))
  BY DEF Groups, A
<1>4. \A o \in A : GroupOf(of(o)) \in Groups(E)
  BY DEF Groups, A
<1> HIDE DEF of
<1> QED
  BY <1>2, <1>3, <1>4 DEF StandsFor, A

\* One of some counts is no more than their sum.
LEMMA OneIsNoMore ==
    ASSUME NEW G, HaveCounts(G)
    PROVE  /\ \A g \in G : g.max <= MaxSum(G)
           /\ \A H \in SUBSET G : MaxSum(H) \in Nat /\ MaxSum(H) <= MaxSum(G)
<1> DEFINE most == [g \in G |-> g.max]
<1>1. IsFiniteSet(G) /\ \A g \in G : most[g] = g.max /\ most[g] \in Nat
  BY DEF HaveCounts
<1> HIDE DEF most
<1>2. MaxSum(G) = Sum(most, G)
  BY <1>1, MaxSumIsSum
<1>3. ASSUME NEW g \in G PROVE g.max <= MaxSum(G)
  <2>1. Sum(most, G) = most[g] + Sum(most, G \ {g})
    BY <1>1, SumTakesOut
  <2>2. Sum(most, G \ {g}) \in Nat
    <3>1. IsFiniteSet(G \ {g}) /\ \A h \in G \ {g} : most[h] \in Nat
      BY <1>1, FS_Subset
    <3> QED
      BY <3>1, SumIsNatural
  <2> QED
    BY <1>1, <1>2, <2>1, <2>2
<1>4. ASSUME NEW H \in SUBSET G PROVE MaxSum(H) \in Nat /\ MaxSum(H) <= MaxSum(G)
  <2>1. HaveCounts(H)
    BY SomeOfCounted
  <2>2. MaxSum(H) = Sum(most, H)
    BY <1>1, <2>1, MaxSumIsSum DEF HaveCounts
  <2>3. Sum(most, H) <= Sum(most, G)
    BY <1>1, SumOfSome
  <2> QED
    BY <1>2, <2>1, <2>2, <2>3, MaxSumIsNatural
<1> QED
  BY <1>3, <1>4

\* A room has place for each of its groups,
LEMMA RoomHolds ==
    ASSUME NEW E, IsProper(E), NEW a \in Area, NEW g \in OfRoom(Groups(E), a)
    PROVE  g.max <= MaxSum(Reconciled(Groups(E)))
<1> DEFINE G == Groups(E)
           R == Reconciled(G)
           T == Tracks(OfRoom(G, a))
           A == Aggregates(G, a)
           S == SourcesOf(G, a)
           p == PopulationOf(G, a)
           rest == RestOf(G, a).max
           low == TrackedMinimum(Whole(T))
           vouch == [t \in T |-> Vouching(t, S)]
           V == {vouch[t] : t \in T}
<1>1. HaveCounts(R)
  BY ReconciledIsCounted DEF IsProper
<1>2. /\ HaveCounts(G) /\ \A h \in G : h = GroupFields(h) /\ h.min <= h.max
      /\ \A h, k \in G : h.key = k.key => h = k
  BY EvidenceIsGrouped, EachIsGrouped DEF IsProper
<1>3. RoomPopulation(G, a) \in SUBSET R
  BY DEF Reconciled
<1>4. T \in SUBSET G /\ A \in SUBSET G /\ g \in T \cup A /\ T = OfRoom(G, a) \ A
  BY DEF Tracks, OfRoom, Aggregates
<1>5. HaveCounts(T) /\ \A t \in T : t.min <= t.max
  <2> HIDE DEF T, G
  <2> QED
    BY <1>2, <1>4, SomeOfCounted
<1>6. low \in Nat /\ MaxSum(T) \in Nat /\ low <= MaxSum(T)
  <2> HIDE DEF T
  <2> QED
    BY <1>5, TrackedAreNoMore DEF HaveCounts
<1>7. A # {} => rest \in Nat /\ \A h \in A : h.max \in Nat /\ h.max <= rest + low
  <2> HIDE DEF G
  <2> QED
    BY <1>2, <1>4, RestIsCounted DEF HaveCounts
<1>8. /\ A = {} => T \in SUBSET R
      /\ A # {} /\ rest = 0 => V \in SUBSET R
      /\ A # {} /\ rest # 0 => T \cup {p} \in SUBSET R
  <2>1. RoomPopulation(G, a) =
             IF A = {} THEN T ELSE IF rest = 0 THEN {Vouching(t, S) : t \in T} ELSE T \cup {p}
    BY RoomPopulationParts
  <2>2. V = {Vouching(t, S) : t \in T}
    OBVIOUS
  <2> HIDE DEF V, T, A, S, p, rest, R, G
  <2> QED
    BY <1>3, <2>1, <2>2
<1>9. V \in SUBSET R => MaxSum(V) = MaxSum(T)
  <2> DEFINE most == [t \in T |-> t.max]
             more == [v \in V |-> v.max]
  <2>1. \A t \in T : /\ vouch[t].max = t.max /\ vouch[t].key = t.key
                      /\ most[t] = t.max /\ most[t] \in Nat
    <3> TAKE t \in T
    <3>1. t = GroupFields(t) /\ t.max \in Nat
      BY <1>2, <1>4, <1>5 DEF HaveCounts
    <3>2. Vouching(t, S).max = t.max /\ Vouching(t, S).key = t.key
      <4> HIDE DEF S, T
      <4> QED
        BY <3>1, VouchingFields
    <3> QED
      BY <3>1, <3>2
  <2>2. \A t, u \in T : vouch[t] = vouch[u] => t = u
    <3> HIDE DEF vouch, T
    <3> QED
      BY <1>2, <1>4, <2>1
  <2>3. \A t \in T : more[vouch[t]] = most[t]
    BY <2>1
  <2>4. \A v \in V : more[v] = v.max
    OBVIOUS
  <2>5. IsFiniteSet(T)
    BY <1>5 DEF HaveCounts
  <2> HIDE DEF vouch, T, most, more
  <2>6. Sum(more, V) = Sum(most, T) /\ IsFiniteSet(V)
    BY <2>1, <2>2, <2>3, <2>5, SumOfImage, ImageIsFinite
  <2> HIDE DEF V
  <2> QED
    BY <2>1, <2>4, <2>5, <2>6, MaxSumIsSum
<1>10. A # {} /\ rest # 0 => MaxSum(T \cup {p}) = MaxSum(T) + rest
  <2>1. SUFFICES ASSUME A # {}, rest # 0 PROVE MaxSum(T \cup {p}) = MaxSum(T) + rest
    OBVIOUS
  <2> DEFINE most == [t \in T \cup {p} |-> t.max]
  <2>2. p.max = rest /\ p.target = Nothing
    <3> HIDE DEF G
    <3> QED
      BY <2>1, PopulationIsThere DEF IsProper, G
  <2>3. p \notin T
    BY <2>2 DEF Tracks
  <2>4. \A t \in T \cup {p} : most[t] = t.max /\ t.max \in Nat
    <3> HIDE DEF p, rest, T
    <3> QED
      BY <1>5, <1>7, <2>1, <2>2 DEF HaveCounts
  <2> HIDE DEF p, rest, T, most
  <2>5. IsFiniteSet(T) /\ IsFiniteSet({p}) /\ IsFiniteSet(T \cup {p})
    BY <1>5, FS_Singleton, FS_AddElement DEF HaveCounts
  <2>6. Sum(most, T \cup {p}) = most[p] + Sum(most, (T \cup {p}) \ {p})
    BY <2>4, <2>5, SumTakesOut
  <2>7. (T \cup {p}) \ {p} = T
    BY <2>3
  <2>8. MaxSum(T \cup {p}) = Sum(most, T \cup {p}) /\ MaxSum(T) = Sum(most, T)
    BY <2>4, <2>5, MaxSumIsSum
  <2>9. Sum(most, T) \in Nat
    BY <2>4, <2>5, SumIsNatural
  <2>10. most[p] = rest /\ rest \in Nat
    BY <2>2, <2>4
  <2>11. MaxSum(T \cup {p}) = rest + MaxSum(T)
    BY <2>6, <2>7, <2>8, <2>10
  <2> QED
    BY <2>8, <2>9, <2>10, <2>11
<1>11. \A H \in SUBSET R : MaxSum(H) \in Nat /\ MaxSum(H) <= MaxSum(R)
  <2> HIDE DEF R
  <2> QED
    BY <1>1, OneIsNoMore
<1>12. \A t \in T : t.max \in Nat /\ t.max <= MaxSum(T)
  <2> HIDE DEF T
  <2> QED
    BY <1>5, OneIsNoMore DEF HaveCounts
<1>13. MaxSum(R) \in Nat
  BY <1>1, MaxSumIsNatural
<1> HIDE DEF G, R, T, A, S, p, rest, low, vouch, V
<1>14. MaxSum(T) <= MaxSum(R) /\ (A # {} => MaxSum(T) + rest <= MaxSum(R))
  <2>1. CASE A = {}
    BY <1>8, <1>11, <2>1
  <2>2. CASE A # {} /\ rest = 0
    BY <1>6, <1>8, <1>9, <1>11, <2>2
  <2>3. CASE A # {} /\ rest # 0
    BY <1>6, <1>7, <1>8, <1>10, <1>11, <1>13, <2>3
  <2> QED
    BY <2>1, <2>2, <2>3
<1>15. g.max <= MaxSum(R)
  <2>1. CASE g \in T
    BY <1>6, <1>12, <1>13, <1>14, <2>1
  <2>2. CASE g \in A
    BY <1>6, <1>7, <1>13, <1>14, <2>2
  <2> QED
    BY <1>4, <2>1, <2>2
<1> QED
  BY <1>15 DEF R, G

\* and so has the home for what is reported in its rooms.
LEMMA ReportsAreKept ==
    ASSUME NEW E, IsProper(E), NEW g \in Groups(E), InRoom(g.loc)
    PROVE  g.max <= MaxSum(Reconciled(Groups(E)))
<1> DEFINE G == Groups(E)
           R == Reconciled(G)
<1>1. CASE IsAnimal(g.kind)
  <2>1. g \in R
    <3>1. \A a \in Area : g \notin OfRoom(G, a)
      BY <1>1 DEF OfRoom
    <3> QED
      BY <3>1 DEF Reconciled
  <2>2. HaveCounts(R)
    BY ReconciledIsCounted DEF IsProper
  <2> HIDE DEF R
  <2> QED
    BY <2>1, <2>2, OneIsNoMore DEF R
<1>2. CASE ~IsAnimal(g.kind)
  <2>1. g.loc.place \in Area /\ g \in OfRoom(G, g.loc.place)
    BY <1>2 DEF OfRoom, InRoom
  <2> QED
    BY <2>1, RoomHolds
<1> QED
  BY <1>1, <1>2

\* The counts of a room tell of every counter in its evidence.
LEMMA RoomTells ==
    ASSUME NEW E, IsProper(E), \A p \in E : InRoom(p.loc),
           NEW o \in Anonymous(E), o.family = "counter"
    PROVE  RoomCount(E).min >= Interval(o).min /\ RoomCount(E).max >= o.max
<1> DEFINE items == Reconciled(Groups(E))
           n == CountOf(E, items)
<1>1. IsEvidence(E) /\ HaveCounts(items) /\ o \in E
  BY ReconciledIsCounted DEF IsProper, Anonymous
<1>2. MaxSum(items) \in Nat /\ o.min \in Nat /\ o.max \in Nat /\ Interval(o).min \in Nat
  <2>1. o.min \in Nat /\ o.max \in Nat
    BY <1>1 DEF IsEvidence
  <2> HIDE DEF items
  <2> QED
    BY <1>1, <2>1, MaxSumIsNatural, LeastIsANumber
<1>3. n.min \in Nat /\ MaxSum(items) <= n.max /\ Interval(o).min <= n.min
  <2> HIDE DEF items
  <2> QED
    BY <1>1, RoomIsCounted
<1>4. PICK g \in Groups(E) : StandsFor(E, g, o)
  BY EachIsGrouped
<1>5. o.max <= g.max /\ InRoom(g.loc)
  BY <1>4 DEF StandsFor, Anonymous
<1>6. g.max <= MaxSum(items) /\ g.max \in Nat
  BY <1>1, <1>5, ReportsAreKept, EvidenceIsGrouped DEF HaveCounts
<1>7. n.max = Max({n.min, MaxSum(items)})
  BY DEF CountOf
<1>8. n.max \in Nat
  <2> HIDE DEF n, items
  <2> QED
    BY <1>2, <1>3, <1>7, GreaterOfTwo
<1> HIDE DEF n, items
<1>9. n.min >= Interval(o).min /\ n.max >= o.max
  BY <1>2, <1>3, <1>5, <1>6, <1>8
<1> QED
  BY <1>9 DEF n, items, RoomCount

\* What is tracked somewhere is no less than anything there.
LEMMA SomebodyIsTracked ==
    ASSUME NEW T, HaveCounts(T), MaxSum(T) # 0
    PROVE  \E t \in T : t.max > 0
<1> DEFINE most == [t \in T |-> t.max]
<1>1. IsFiniteSet(T) /\ \A t \in T : most[t] = t.max /\ t.max \in Nat
  BY DEF HaveCounts
<1> HIDE DEF most
<1>2. MaxSum(T) = Sum(most, T)
  BY <1>1, MaxSumIsSum
<1>3. (\A t \in T : most[t] = 0) => Sum(most, T) = 0
  BY <1>1, SumOfZeros
<1>4. PICK t \in T : most[t] # 0
  BY <1>2, <1>3
<1> QED
  BY <1>1, <1>4

\* A group in a room which a source vouches for.
Holds(G, a, source) ==
    \E x \in G : InRoom(x.loc) /\ x.loc.place = a /\ x.max > 0 /\ source \in x.sources

\* A tracked object that is not in doubt stays, with those who vouch for it.
LEMMA FirmTracksStay ==
    ASSUME NEW s, IsScene(s), NEW a \in Area, NEW g \in Tracks(OfRoom(Groups(s.active), a)),
           Conflicting(g) = {}, g.max > 0
    PROVE  LET G == Groups(s.active)
               S == SourcesOf(G, a)
           IN  /\ \A source \in g.sources : Holds(GroupsOf(s), a, source)
               /\ Aggregates(G, a) # {} /\ RestOf(G, a).max = 0 =>
                     \A source \in S : Holds(GroupsOf(s), a, source)
<1> DEFINE G == Groups(s.active)
           S == SourcesOf(G, a)
           x == Turned(G, g)
           v == Vouching(g, S)
           vouched == Aggregates(G, a) # {} /\ RestOf(G, a).max = 0
<1>1. /\ g \in G /\ g \in Reported(G) /\ InRoom(g.loc) /\ g.loc.place = a
  BY DEF Tracks, OfRoom, Reported
<1>2. g = GroupFields(g)
  BY <1>1, SceneIsEvidence, EvidenceIsGrouped
<1>3. x \in GroupsOf(s)
  BY <1>1, LoopGroups
<1>4. v.loc = g.loc /\ v.max = g.max /\ v.sources = g.sources \cup S
  <2> HIDE DEF S
  <2> QED
    BY <1>2, VouchingFields
<1>5. Conflicting(v) = {}
  <2> HIDE DEF v
  <2> QED
    BY <1>4 DEF Conflicting
<1>6. x = IF vouched THEN v ELSE g
  <2> HIDE DEF v, G
  <2> QED
    BY <1>1, <1>5 DEF Turned, GuardOf, Doubtful, v, G
<1> HIDE DEF x, v, S, G, vouched
<1>7. /\ \A source \in g.sources : Holds(GroupsOf(s), a, source)
      /\ vouched => \A source \in S : Holds(GroupsOf(s), a, source)
  BY <1>1, <1>3, <1>4, <1>6 DEF Holds
<1> QED
  BY <1>7 DEF vouched, S, G

\* A counter of a scene that no newer report and no doubt takes away.
IsCertain(s, o) ==
    /\ o \in CountersIn(s.active) /\ o.max > 0 /\ ~ReportedElsewhere(s.active, o)
    /\ \A g \in Tracks(OfRoom(Groups(s.active), o.loc.place)) : Conflicting(g) = {}

\* The groups of its room have it for a source.
LEMMA CountersAreHeld ==
    ASSUME NEW s, IsScene(s), IsProper(s.active), NEW o, IsCertain(s, o)
    PROVE  o.loc.place \in Area /\ Holds(GroupsOf(s), o.loc.place, o.source)
<1> DEFINE E == s.active
           G == Groups(E)
           a == o.loc.place
           T == Tracks(OfRoom(G, a))
           A == Aggregates(G, a)
           rest == RestOf(G, a).max
           low == TrackedMinimum(Whole(T))
<1>1. o \in Anonymous(E) /\ InRoom(o.loc) /\ a \in Area /\ o.max > 0 /\ o.max \in Nat
  <2>1. o \in Anonymous(E) /\ InRoom(o.loc) /\ o.max > 0
    BY DEF IsCertain, CountersIn
  <2> QED
    BY <2>1 DEF InRoom, IsProper, IsEvidence, Anonymous
<1>2. PICK g \in G : StandsFor(E, g, o)
  BY <1>1, EachIsGrouped
<1>3. /\ o.source \in g.sources /\ o.max <= g.max
      /\ InRoom(g.loc) /\ g.loc.place = a
  <2>1. PICK p \in Anonymous(E) : KeyOf(p) = KeyOf(o) /\ AgeOf(p) <= AgeOf(o) /\ g.loc = p.loc
    BY <1>2 DEF StandsFor
  <2>2. SameArea(p.loc, o.loc)
    BY <2>1 DEF IsCertain, ReportedElsewhere
  <2> QED
    BY <1>2, <2>1, <2>2 DEF StandsFor, SameArea
<1>4. HaveCounts(G) /\ \A h \in G : h.min <= h.max
  BY EvidenceIsGrouped, EachIsGrouped DEF IsProper
<1>5. g.max > 0 /\ g.max \in Nat
  BY <1>1, <1>3, <1>4 DEF HaveCounts
<1>6. CASE IsAnimal(g.kind)
  <2>1. g \in GroupsOf(s)
    BY <1>2, <1>6, LoopGroups DEF AnimalsOf
  <2> QED
    BY <1>1, <1>3, <1>5, <2>1 DEF Holds
<1>7. CASE ~IsAnimal(g.kind) /\ g.target # Nothing
  <2>1. g \in T
    BY <1>2, <1>3, <1>7 DEF Tracks, OfRoom
  <2>2. Conflicting(g) = {}
    BY <2>1 DEF IsCertain
  <2> QED
    BY <1>1, <1>3, <1>5, <2>1, <2>2, FirmTracksStay
<1>8. CASE ~IsAnimal(g.kind) /\ g.target = Nothing
  <2>1. g \in A
    BY <1>2, <1>3, <1>8 DEF Aggregates, Tracks, OfRoom
  <2>2. o.source \in SourcesOf(G, a)
    BY <1>3, <2>1 DEF SourcesOf
  <2>3. rest \in Nat /\ low \in Nat /\ g.max <= rest + low
    <3> HIDE DEF G
    <3> QED
      BY <1>4, <2>1, RestIsCounted
  <2>4. CASE rest # 0
    <3>1. PopulationOf(G, a) \in GroupsOf(s)
      BY <1>1, <2>1, <2>4, LoopGroups DEF Crowded
    <3>2. PICK h \in A : /\ PopulationOf(G, a).loc = h.loc
                         /\ PopulationOf(G, a).max = rest
                         /\ PopulationOf(G, a).sources = SourcesOf(G, a)
      BY <1>1, <2>1, PopulationIsThere DEF IsProper
    <3>3. InRoom(h.loc) /\ h.loc.place = a
      BY <3>2 DEF Aggregates, OfRoom
    <3> HIDE DEF rest, A, G
    <3>4. rest > 0
      BY <2>3, <2>4
    <3> QED
      BY <1>1, <2>2, <3>1, <3>2, <3>3, <3>4 DEF Holds
  <2>5. CASE rest = 0
    <3>1. HaveCounts(T) /\ \A t \in T : t.min <= t.max
      <4>1. T \in SUBSET G
        BY DEF Tracks, OfRoom
      <4> HIDE DEF T, G
      <4> QED
        BY <1>4, <4>1, SomeOfCounted
    <3>2. MaxSum(T) \in Nat /\ low <= MaxSum(T)
      <4> HIDE DEF T
      <4> QED
        BY <3>1, TrackedAreNoMore DEF HaveCounts
    <3>3. MaxSum(T) # 0
      <4> HIDE DEF T, rest, low, G
      <4> QED
        BY <1>5, <2>3, <2>5, <3>2
    <3>4. PICK t \in T : t.max > 0
      <4> HIDE DEF T
      <4> QED
        BY <3>1, <3>3, SomebodyIsTracked
    <3>5. Conflicting(t) = {}
      BY DEF IsCertain
    <3> QED
      BY <1>1, <2>1, <2>2, <2>5, <3>4, <3>5, FirmTracksStay
  <2> QED
    BY <2>4, <2>5
<1> QED
  BY <1>1, <1>6, <1>7, <1>8

\* The evidence of a room has intervals that are not empty, and is there.
LEMMA RoomIsProper ==
    ASSUME NEW s, IsScene(s), IsProper(s.active), NEW people, NEW G, NEW a
    PROVE  /\ IsProper(RoomEvidence(s, people, G, a))
           /\ \A p \in RoomEvidence(s, people, G, a) : InRoom(p.loc)
<1> DEFINE R == RoomEvidence(s, people, G, a)
<1>1. IsEvidence(R)
  BY RoomIsEvidence
<1>2. ASSUME NEW p \in R
      PROVE  p.min <= p.max /\ InRoom(p.loc)
  <2>1. \/ p \in Inside(s.active, a)
        \/ \E o \in Inside(DirectBodies(s, people), a) : p = Unnamed(o)
    BY <1>2 DEF RoomEvidence
  <2>2. CASE p \in Inside(s.active, a)
    BY <2>2 DEF Inside, IsProper
  <2>3. CASE \E o \in Inside(DirectBodies(s, people), a) : p = Unnamed(o)
    <3>1. PICK o \in s.active : InRoom(o.loc) /\ p = Unnamed(o)
      BY <2>3 DEF Inside, DirectBodies
    <3>2. o \in Observation /\ o.min <= o.max
      BY SceneObservations DEF IsProper
    <3>3. p.min = o.min /\ p.max = o.max /\ p.loc = o.loc
      BY <3>1, <3>2, UnnamedFields
    <3> QED
      BY <3>1, <3>2, <3>3
  <2> QED
    BY <2>1, <2>2, <2>3
<1> QED
  BY <1>1, <1>2 DEF IsProper

\* So the room tells of it, wherever persons are placed.
LEMMA CertainIsTold ==
    ASSUME NEW s, IsScene(s), IsProper(s.active), NEW people, NEW o, IsCertain(s, o)
    PROVE  Told(Occupancies(s, people, GroupsOf(s)), o)
<1> DEFINE G == GroupsOf(s)
           a == o.loc.place
           R == RoomEvidence(s, people, G, a)
           r == [area |-> a, n |-> RoomCount(R)]
<1>1. a \in Area /\ Holds(G, a, o.source)
  BY CountersAreHeld
<1>2. o \in s.active /\ o.kind # "device" /\ o.who = Nothing /\ o.family = "counter" /\ InRoom(o.loc)
  BY DEF IsCertain, CountersIn, Anonymous
<1>3. PICK x \in Inside(G, a) : x.max > 0 /\ o.source \in x.sources
  BY <1>1 DEF Holds, Inside
<1>4. o \in R
  <2> HIDE DEF G
  <2> QED
    BY <1>2, <1>3 DEF RoomEvidence, Inside
<1>5. o \in Anonymous(R)
  BY <1>2, <1>4 DEF Anonymous
<1>6. IsProper(R) /\ \A p \in R : InRoom(p.loc)
  BY RoomIsProper
<1>7. RoomCount(R).min >= Interval(o).min /\ RoomCount(R).max >= o.max
  <2> HIDE DEF R
  <2> QED
    BY <1>2, <1>5, <1>6, RoomTells
<1>8. a \in Occupied(s, people, G)
  BY <1>1, <1>3 DEF Occupied
<1>9. r \in Occupancies(s, people, G)
  BY <1>5, <1>8 DEF Occupancies
<1> QED
  BY <1>7, <1>9 DEF Told

\* Whatever is on in a room, and whoever is placed there, the room tells of
\* every counter, but in doubt or where its producer reports elsewhere.
THEOREM CountersAreTold == Spec => OnlyDoubtHidesACounter
<1> DEFINE Kept ==
             scene' # Nothing =>
             \A o \in CountersIn(scene'.active) :
                \/ Told(occupancy', o)
                \/ ReportedElsewhere(scene'.active, o)
                \/ \E g \in Tracks(OfRoom(Groups(scene'.active), o.loc.place)) : Conflicting(g) # {}
<1>1. [Next]_vars => [Kept]_vars
  <2> SUFFICES ASSUME Next, scene' # Nothing, NEW o \in CountersIn(scene'.active)
               PROVE  \/ Told(occupancy', o)
                      \/ ReportedElsewhere(scene'.active, o)
                      \/ \E g \in Tracks(OfRoom(Groups(scene'.active), o.loc.place)) :
                            Conflicting(g) # {}
    BY DEF vars
  <2>1. PICK s \in Scenes : Resolve(s)
    BY DEF Next, Pass
  <2> DEFINE people == Placed(s, Tally(s, GroupsOf(s)))
  <2>2. scene' = s /\ occupancy' = Occupancies(s, people, GroupsOf(s))
    BY <2>1 DEF Resolve, FromGroups, Resolved, Correlated, Snapshot
  <2>3. IsScene(s) /\ IsProper(s.active)
    BY ScenesAreScenes, SceneIsEvidence, SceneAssumption DEF IsProper
  <2>4. o \in CountersIn(s.active) /\ o.max > 0
    BY <2>2, SceneAssumption DEF CountersIn, Anonymous
  <2>5. IsCertain(s, o) => Told(occupancy', o)
    <3> HIDE DEF people
    <3> QED
      BY <2>2, <2>3, CertainIsTold
  <2> QED
    BY <2>2, <2>4, <2>5 DEF IsCertain
<1>2. Spec => [][Kept]_vars
  BY <1>1, PTL DEF Spec
<1> QED
  BY <1>2 DEF OnlyDoubtHidesACounter
=============================================================================
