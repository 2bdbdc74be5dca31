----------------------------- MODULE Population -----------------------------
(***************************************************************************)
(* How many bodies a set of observations stands for (engine/resolver.py):  *)
(* observations become groups, the counters of a room become one           *)
(* population, and what may overlap is not added up.                       *)
(*                                                                         *)
(* Times are ages, counted from the resolution.  A location is a place (a  *)
(* room, a floor or the home), the rooms it may be in, a quality, the      *)
(* method and an age.                                                      *)
(***************************************************************************)
EXTENDS Integers, SequencesExt

CONSTANTS
    Area,      \* the rooms
    Floor,
    FloorOf,   \* area_floors
    Adjacent,  \* adjacency: a set of sets of two rooms
    Home,      \* the place of a location of level HOME
    Nothing,   \* None
    Names,     \* every name of a room, dependency, observation or target, in order
    Window     \* trajectory_window (20 s)

ASSUME PlaceAssumption ==
    /\ FloorOf \in [Area -> Floor]
    /\ Area \cap Floor = {} /\ Home \notin Area \cup Floor
    /\ Nothing \notin Area \cup Floor \cup {Home}
    /\ \A pair \in Adjacent : pair \subseteq Area /\ Cardinality(pair) = 2
    /\ Window \in Nat

ASSUME NamesAssumption ==
    /\ Names \in Seq(Range(Names))
    /\ Area \subseteq Range(Names) /\ Nothing \notin Range(Names)

\* Qualities by rank.
Low == 1
Medium == 2
High == 3

Animals == {"dog", "cat"}

IsAnimal(kind) == kind \in Animals

Gap(l, m) == IF l.age > m.age THEN l.age - m.age ELSE m.age - l.age

InRoom(l) == l # Nothing /\ l.place \in Area

AtHome(l) == l # Nothing /\ l.place = Home

OnFloor(l) == l # Nothing /\ l.place \in Floor

LevelOf(l) == IF l.place \in Area THEN FloorOf[l.place] ELSE l.place

-----------------------------------------------------------------------------
(***************************************************************************)
(* Where two locations may be one.                                         *)
(***************************************************************************)

\* _same_area
SameArea(l, m) == InRoom(l) /\ InRoom(m) /\ l.place = m.place

\* _adjacent
NextTo(l, m) == InRoom(l) /\ InRoom(m) /\ {l.place, m.place} \in Adjacent

\* _possibly_same_location; nothing but the home itself is level HOME.
PossiblySame(l, m) ==
    /\ l # Nothing /\ m # Nothing /\ l.place # Home /\ m.place # Home
    /\ IF InRoom(l) /\ InRoom(m) THEN l.place = m.place
       ELSE /\ LevelOf(l) = LevelOf(m)
            /\ \/ InRoom(l) /\ (m.rooms = {} \/ l.place \in m.rooms)
               \/ InRoom(m) /\ (l.rooms = {} \/ m.place \in l.rooms)
               \/ /\ ~InRoom(l) /\ ~InRoom(m)
                  /\ l.rooms = {} \/ m.rooms = {} \/ l.rooms \cap m.rooms # {}

\* _possible_trajectory
PossibleTrajectory(l, m) ==
    \/ PossiblySame(l, m)
    \/ /\ NextTo(l, m) /\ LevelOf(l) = LevelOf(m)
       /\ l.q >= Medium /\ m.q >= Medium /\ Gap(l, m) <= Window

-----------------------------------------------------------------------------
(***************************************************************************)
(* Groups of evidence.                                                     *)
(***************************************************************************)

\* _observer: the camera of a visual observation, if it is known.
Observer(o) == IF o.family = "visual" THEN o.coverage ELSE Nothing

KeyOf(o) ==
    IF o.target # Nothing THEN <<"target", o.target>>
    ELSE IF o.dependency # Nothing THEN <<"dependency", o.dependency>>
    ELSE <<"observation", o.id>>

\* _effective_interval: a population that has just grown beyond one may be one.
Interval(o) ==
    [min |-> IF o.young /\ o.max > 1 THEN Min({o.min, 1}) ELSE o.min, max |-> o.max]

\* The order of keys.
Classes == <<"area-population", "dependency", "observation", "target">>

Rank(n) == SelectInSeq(Names, LAMBDA m : m = n)

NamePrecedes(m, n) == Rank(m) < Rank(n)

ClassOf(k) == SelectInSeq(Classes, LAMBDA c : c = k[1])

KeyPrecedes(k, l) ==
    ClassOf(k) < ClassOf(l) \/ (ClassOf(k) = ClassOf(l) /\ NamePrecedes(k[2], l[2]))

\* Every key there may be, in order.
Keys ==
    [i \in 1 .. Len(Classes) * Len(Names) |->
        <<Classes[1 + ((i - 1) \div Len(Names))], Names[1 + ((i - 1) % Len(Names))]>>]

AgeOf(o) == IF o.loc = Nothing THEN o.age ELSE o.loc.age

\* The newest of some observations; the first of them, if there are several.
NewestOf(S) ==
    CHOOSE o \in S : \A p \in S \ {o} :
        AgeOf(o) < AgeOf(p) \/ (AgeOf(o) = AgeOf(p) /\ NamePrecedes(o.id, p.id))

\* _evidence_groups: what is neither a device nor identified.
Anonymous(E) == {o \in E : o.kind # "device" /\ o.who = Nothing}

GroupOf(S) ==
    LET newest == NewestOf(S)
    IN  [key |-> KeyOf(newest), kind |-> newest.kind, loc |-> newest.loc,
         min |-> Max({Interval(o).min : o \in S}), max |-> Max({Interval(o).max : o \in S}),
         sources |-> {o.source : o \in S}, target |-> newest.target,
         coverage |-> newest.coverage, observer |-> Observer(newest)]

Groups(E) ==
    {GroupOf({p \in Anonymous(E) : KeyOf(p) = KeyOf(o)}) : o \in Anonymous(E)}

-----------------------------------------------------------------------------
(***************************************************************************)
(* Tracked objects.  Pairs of a group and a count stand for the count that *)
(* is left of the group.                                                   *)
(***************************************************************************)

Whole(G) == {[group |-> g, n |-> g.min] : g \in G}

CountSum(C) == SumFunction([c \in C |-> c.n])

\* _visual_clusters: the objects of a kind that cameras see in one room.
ClusterOf(g) ==
    IF g.observer # Nothing /\ InRoom(g.loc)
    THEN <<"visual", g.loc.place, g.kind>> ELSE <<"independent", g.key>>

Seer(g) == IF g.observer # Nothing THEN g.observer ELSE g.key

\* Slip: what two cameras see is added up.
TrackedMinimumAdded(C) == CountSum(C)

\* _tracked_minimum: of every cluster, what the camera that sees most sees.
TrackedMinimum(C) ==
    SumFunction([k \in {ClusterOf(c.group) : c \in C} |->
        LET cluster == {c \in C : ClusterOf(c.group) = k}
        IN  Max({CountSum({d \in cluster : Seer(d.group) = Seer(c.group)}) : c \in cluster})])

-----------------------------------------------------------------------------
(***************************************************************************)
(* The population of a room.                                               *)
(***************************************************************************)

OfRoom(G, a) == {g \in G : ~IsAnimal(g.kind) /\ InRoom(g.loc) /\ g.loc.place = a}

Tracks(G) == {g \in G : g.target # Nothing}

MaxSum(G) == SumFunction([g \in G |-> g.max])

Fresher(l, m) == l # Nothing /\ (m = Nothing \/ l.age < m.age)

\* The newest of some groups, the first by key if there are several.
NewestGroup(G) ==
    CHOOSE g \in G : \A h \in G \ {g} :
        Fresher(g.loc, h.loc) \/ (~Fresher(h.loc, g.loc) /\ KeyPrecedes(g.key, h.key))

\* What the counters of a room count besides the objects tracked in it.
Residue(specific, aggregates) ==
    [min |-> Max({0, Max({g.min : g \in aggregates}) - MaxSum(specific)}),
     max |-> Max({0, Max({g.max : g \in aggregates}) - TrackedMinimum(Whole(specific))})]

\* _reconcile_area_populations, one room
RoomPopulation(G, a) ==
    LET specific == Tracks(OfRoom(G, a))
        aggregates == OfRoom(G, a) \ specific
        residue == Residue(specific, aggregates)
        sources == UNION {g.sources : g \in aggregates}
    IN  IF aggregates = {} THEN specific
        ELSE IF residue.max = 0 THEN {[g EXCEPT !.sources = @ \cup sources] : g \in specific}
        ELSE specific \cup
             {[NewestGroup(aggregates) EXCEPT
                 !.key = <<"area-population", a>>,
                 !.kind = IF \E g \in aggregates : g.kind = "person" THEN "person" ELSE "unknown",
                 !.min = residue.min, !.max = residue.max, !.sources = sources,
                 !.observer = Nothing]}

Reconciled(G) ==
    (G \ UNION {OfRoom(G, a) : a \in Area}) \cup UNION {RoomPopulation(G, a) : a \in Area}

-----------------------------------------------------------------------------
(***************************************************************************)
(* Counts over rooms.                                                      *)
(***************************************************************************)

\* Two groups that may count the same bodies.
MayShareBodies(g, h) ==
    /\ PossiblySame(g.loc, h.loc) \/ NextTo(g.loc, h.loc)
    /\ \/ g.target = Nothing /\ h.target = Nothing /\ PossiblySame(g.loc, h.loc)
       \/ Gap(g.loc, h.loc) <= Window
       \/ /\ g.observer # Nothing /\ h.observer # Nothing
          /\ SameArea(g.loc, h.loc) /\ g.kind = h.kind

\* The groups that a chain of such groups links to g.
Overlapping(g, G) ==
    FoldLeft(LAMBDA S, n : S \cup {h \in G : \E x \in S : MayShareBodies(x, h)},
             {g}, [n \in 1 .. Cardinality(G) |-> n])

\* What is counted by one source is counted once.
SourceCounts(C) ==
    LET aggregates == {c \in C : c.group.observer = Nothing}
    IN  {CountSum({c \in aggregates : s \in c.group.sources}) :
            s \in UNION {c.group.sources : c \in aggregates}}

\* _population_minimum
PopulationMinimum(C) ==
    LET G == {c.group : c \in C}
        clusters == {{c \in C : c.group \in Overlapping(g, G)} : g \in G}
    IN  SumFunction([K \in clusters |->
            Max({c.n : c \in K} \cup SourceCounts(K)
                  \cup {TrackedMinimum({c \in K : c.group.target # Nothing})})])

\* _resolve_animals: unseen animals of shared coverage may be the same ones.
AnimalsOf(G) == {g \in G : IsAnimal(g.kind)}

SeenAnimals(G) == {g \in AnimalsOf(G) : g.observer # Nothing}

AnimalViews(G) ==
    LET unseen == AnimalsOf(G) \ SeenAnimals(G)
        alike(g, h) == \/ g = h
                       \/ g.coverage # Nothing /\ g.coverage = h.coverage /\ g.kind = h.kind
    IN  {{h \in unseen : alike(g, h)} : g \in unseen}

AnimalCount(G) ==
    [min |-> TrackedMinimum(Whole(SeenAnimals(G)))
               + SumFunction([V \in AnimalViews(G) |-> Max({g.min : g \in V})]),
     max |-> MaxSum(AnimalsOf(G))]
=============================================================================
