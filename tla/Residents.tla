------------------------------ MODULE Residents ------------------------------
(***************************************************************************)
(* PresenceResolver.resolve (engine/resolver.py) over time: who is at home *)
(* and where, from the evidence of the moment and the snapshot before.     *)
(*                                                                         *)
(* A scene is the evidence of a resolution.  Its instants are ages, so     *)
(* that the same scene may come at any time.  Device associations are off: *)
(* no owner's device has range signals (see Association for the others).   *)
(* Presentation (reasons, candidate areas, provenance) is left out.        *)
(***************************************************************************)
EXTENDS Population

CONSTANTS
    Person,
    Scenes,          \* what a resolution may be told
    DeviceWindow,    \* device_continuity_window (180 s)
    Lifetime,        \* previous_continuity_window (90 s)
    MaxAge           \* bound of the model: older than this is this old

ASSUME WindowsAssumption ==
    /\ DeviceWindow \in Nat /\ Lifetime \in Nat
    /\ MaxAge \in Nat /\ MaxAge >= Lifetime /\ MaxAge > Window

Claim == [place : Area \cup Floor \cup {Home}, rooms : SUBSET Area, q : 0 .. High,
          by : {"measured", "wifi_connection", "gps_device_home", "wifi_ap_proximity"},
          age : 0 .. MaxAge]

Name == Range(Names)

Observation ==
    [id : Name, source : Name, target : Name \cup {Nothing}, dependency : Name \cup {Nothing},
     coverage : Name \cup {Nothing},
     family : {"visual", "counter", "home", "radio", "wifi", "gps"},
     kind : {"person", "unknown", "device"} \cup Animals,
     who : Person \cup {Nothing}, idq : 0 .. High,
     loc : Claim \cup {Nothing}, ap : Claim \cup {Nothing}, fix : 0 .. High,
     age : 0 .. MaxAge, min : Nat, max : Nat, young : BOOLEAN]

\* What is active, what has ended as a measured clear, and the sources that are
\* unavailable.  Intervals are not empty; the runtime makes one observation of
\* every event of a camera, a Wi-Fi tracker says that its owner is at home, or
\* nothing, and a counter names nobody and is active while it counts somebody.
ASSUME SceneAssumption ==
    \A s \in Scenes :
        /\ s \in [active : SUBSET Observation, clears : SUBSET Observation,
                  unavailable : SUBSET Name]
        /\ \A o, p \in s.active : o.id = p.id => o = p
        /\ \A o \in s.active : o.min <= o.max
        /\ \A o, p \in s.active : o.family = "visual" /\ p.family = "visual"
                                   => o.target = Nothing \/ o.target # p.target \/ o = p
        /\ \A o \in s.active : o.family = "wifi" /\ o.loc # Nothing => AtHome(o.loc)
        /\ \A o \in s.active : o.family = "counter" => o.who = Nothing /\ o.max > 0

Status == {"resolved", "home_from_device", "possible", "continued", "location_cleared",
           "device_person_separation_possible", "ambiguous_movement", "correlated_movement"}

\* A person the evidence identifies or the snapshot places, and what is
\* remembered of one.
Found ==
    [loc : Claim \cup {Nothing}, idq : 0 .. High, direct : BOOLEAN, device : BOOLEAN,
     status : Status, radios : SUBSET Claim, last : Claim \cup {Nothing},
     cleared : SUBSET Name, ids : SUBSET Name, locs : SUBSET Name]

Hypotheses ==
    [loc : Claim \cup {Nothing}, status : Status, last : Claim \cup {Nothing},
     cleared : SUBSET Name, locs : SUBSET Name]

ASSUME NothingAssumption ==
    /\ Nothing \notin Claim /\ Nothing \notin Found /\ Nothing \notin Hypotheses
    /\ Nothing \notin Person

ASSUME PersonAssumption == IsFiniteSet(Person)

VARIABLES
    scene,      \* the evidence of the last resolution, or Nothing once time passed
    known,      \* the identified presences of the last snapshot
    places,     \* where the last snapshot places anybody, in rooms
    count,      \* count_minimum, count_maximum
    occupancy   \* area_occupancies

vars == <<scene, known, places, count, occupancy>>

-----------------------------------------------------------------------------
(***************************************************************************)
(* The persons the evidence identifies (_known_people).                    *)
(***************************************************************************)

Identified(E, w) == {o \in E : o.who = w /\ o.kind = "person"}

\* Devices of w that say where they are; weak ones say only that w is home.
Radios(E, w) == {o \in E : o.who = w /\ o.kind = "device" /\ o.family \notin {"wifi", "gps"}}

Weak(E, w) ==
    {o \in E : o.who = w /\ o.family \in {"wifi", "gps"} /\ o.loc # Nothing
               /\ (o.family = "gps" => AtHome(o.loc))}

FirstOf(S) == CHOOSE o \in S : \A p \in S \ {o} : NamePrecedes(o.id, p.id)

\* The best location of the identified bodies: quality first, then age.
BestLoc(S) ==
    LET located == {o \in S : o.loc # Nothing}
        best == {o \in located : \A p \in located :
                    o.loc.q > p.loc.q \/ (o.loc.q = p.loc.q /\ o.loc.age <= p.loc.age)}
    IN  IF located = {} THEN Nothing ELSE FirstOf(best).loc

RadioLocs(E, w) == {o.loc : o \in Radios(E, w)} \ {Nothing}

\* A device that agrees with the identified body supports its place.
Agrees(o, l, idq) ==
    /\ idq = High /\ SameArea(l, o.loc) /\ o.loc.q >= Medium /\ Gap(l, o.loc) <= Window

FromBody(E, w) ==
    LET S == Identified(E, w)
        l == BestLoc(S)
        idq == Max({o.idq : o \in S})
    IN  [loc |-> l, idq |-> idq, direct |-> TRUE,
         device |-> Radios(E, w) # {} /\ ~InRoom(l),
         status |-> "resolved", radios |-> RadioLocs(E, w), last |-> Nothing, cleared |-> {},
         ids |-> {o.source : o \in S},
         locs |-> {o.source : o \in {o \in S : l # Nothing /\ o.loc = l}}
                    \cup {o.source : o \in {o \in Radios(E, w) : Agrees(o, l, idq)}}]

\* _device_home_scope: a device places its owner at home.
FromRadio(E, w) ==
    LET o == FirstOf(Radios(E, w))
    IN  [loc |-> [place |-> Home, rooms |-> {}, q |-> Low, by |-> "measured", age |-> AgeOf(o)],
         idq |-> Medium, direct |-> FALSE, device |-> TRUE, status |-> "home_from_device",
         radios |-> RadioLocs(E, w), last |-> Nothing, cleared |-> {},
         ids |-> {o.source}, locs |-> {o.source}]

FromWeak(E, w) ==
    LET o == FirstOf(Weak(E, w))
    IN  [loc |-> o.loc, idq |-> Medium, direct |-> FALSE, device |-> FALSE,
         status |-> "possible", radios |-> {}, last |-> Nothing, cleared |-> {},
         ids |-> {o.source}, locs |-> {o.source}]

Candidate(E, w) ==
    IF Identified(E, w) # {} THEN FromBody(E, w)
    ELSE IF Radios(E, w) # {} THEN FromRadio(E, w)
    ELSE IF Weak(E, w) # {} THEN FromWeak(E, w)
    ELSE Nothing

-----------------------------------------------------------------------------
(***************************************************************************)
(* What is remembered of them.                                             *)
(***************************************************************************)

Living(o) == o.kind \in {"person", "unknown"}

Lost(s, o) == o.source \in s.unavailable \/ o.coverage \in s.unavailable

\* _cleared_support: the counters that placed w there now count nobody, and
\* nobody else says that w may be there.
ClearedSupport(s, w, prior) ==
    IF \/ ~InRoom(prior.loc)
       \/ \E o \in s.active : /\ Living(o) /\ o.who \in {Nothing, w}
                              /\ SameArea(o.loc, prior.loc) /\ o.max > 0
    THEN {}
    ELSE {o.source : o \in {o \in s.clears : /\ o.source \in prior.locs
                                             /\ SameArea(o.loc, prior.loc)
                                             /\ o.loc.age < prior.loc.age}}

\* Physical evidence that supported the room and still does.
StillSupported(s, w, prior) ==
    /\ prior.status \in {"resolved", "correlated_movement", "continued"} /\ InRoom(prior.loc)
    /\ \E o \in s.active :
          /\ Living(o) /\ o.who \in {Nothing, w} /\ o.source \in prior.locs /\ ~Lost(s, o)
          /\ SameArea(o.loc, prior.loc) /\ o.loc.q >= Medium /\ o.min > 0

\* May the room of the snapshot before stand for the present location?
Outweighs(s, w, prior, c) ==
    \/ c.device
    \/ AtHome(c.loc) /\ c.radios = {} /\ StillSupported(s, w, prior)
    \/ /\ c.loc.by = "wifi_connection" /\ InRoom(prior.loc) /\ prior.loc.q >= Medium
       /\ prior.status # "possible" /\ prior.locs \cap s.unavailable = {}
    \/ InRoom(prior.loc) /\ InRoom(c.loc) /\ prior.loc.q >= c.loc.q

\* Slip: a remembered room is as new as the evidence that keeps it.
ContinuedAnew(prior, c) ==
    [c EXCEPT !.loc = [prior.loc EXCEPT !.age = c.loc.age], !.locs = prior.locs,
              !.status = "continued", !.device = FALSE]

Continued(prior, c) ==
    [c EXCEPT !.loc = prior.loc, !.locs = prior.locs, !.status = "continued", !.device = FALSE]

\* A clear retired the room, and that is remembered as long as the room.
StillCleared(prior, c) ==
    IF AtHome(c.loc) /\ prior.last # Nothing /\ prior.last.age < Lifetime
    THEN [c EXCEPT !.last = prior.last, !.cleared = @ \cup prior.cleared,
                   !.status = "location_cleared"]
    ELSE c

Remembering(s, w, prior, c) ==
    LET d == StillCleared(prior, c)
        clears == ClearedSupport(s, w, prior)
    IN  IF prior.loc = Nothing \/ prior.loc.age >= Lifetime THEN d
        ELSE IF clears # {} /\ AtHome(d.loc)
        THEN [d EXCEPT !.status = "location_cleared", !.last = prior.loc,
                       !.cleared = @ \cup clears]
        ELSE IF /\ d.loc # Nothing /\ Outweighs(s, w, prior, d)
                /\ \/ prior.loc.age < d.loc.age
                   \/ AtHome(d.loc) /\ InRoom(prior.loc)
        THEN Continued(prior, d)
        ELSE d

\* The area of an access point is never remembered.
WithMemory(s, w, c) ==
    IF c = Nothing \/ known[w] = Nothing THEN c
    ELSE IF known[w].loc # Nothing /\ known[w].loc.by = "wifi_ap_proximity" THEN c
    ELSE Remembering(s, w, known[w], c)

KnownPeople(s) == [w \in Person |-> WithMemory(s, w, Candidate(s.active, w))]

-----------------------------------------------------------------------------
(***************************************************************************)
(* Anonymous groups and the persons they may be.  A tally is what the loop *)
(* of resolve over the groups carries along.                               *)
(***************************************************************************)

\* _guard_spatial_inferences: an older, weaker room next to a newer, better
\* one of the snapshot before is only good for the floor.
Conflicting(g) ==
    {p \in places : /\ p.age <= Window /\ LevelOf(g.loc) = LevelOf(p) /\ NextTo(g.loc, p)
                    /\ p.age < g.loc.age /\ g.loc.q < p.q}

Guarded(G) ==
    {IF g.target # Nothing /\ ~IsAnimal(g.kind) /\ InRoom(g.loc) /\ Conflicting(g) # {}
     THEN [g EXCEPT !.loc = [@ EXCEPT !.place = FloorOf[g.loc.place], !.q = 0,
              !.rooms = {g.loc.place} \cup {p.place : p \in Conflicting(g)}]]
     ELSE g : g \in G}

GroupsOf(s) == Guarded(Reconciled(Groups(s.active)))

\* _identity_bucket
Bucket(g) ==
    IF g.observer # Nothing THEN <<"observer", g.observer>>
    ELSE IF g.coverage # Nothing THEN <<"coverage", g.coverage>>
    ELSE <<"sources", g.sources>>

\* _identity_can_cover: once per observer, and no other object of a camera
\* that sees the person.
CanCover(s, w, g, used) ==
    /\ <<w, Bucket(g)>> \notin used
    /\ LET targets == {o.target : o \in {o \in s.active : o.who = w /\ Observer(o) = g.observer}}
       IN  g.observer # Nothing /\ g.target # Nothing
             => targets \subseteq {Nothing} \/ g.target \in targets

Present(t) == {w \in Person : t.people[w] # Nothing}

Eligible(s, t, g) == {w \in Present(t) : CanCover(s, w, g, t.used)}

\* Slip: whoever is found where somebody is counted is the one counted.
IsExactlyAnybody(s, c, w, g) == c.status \notin {"continued", "ambiguous_movement"}

\* _exact_identity_match
IsExactly(s, c, w, g) ==
    /\ c.status \notin {"continued", "ambiguous_movement"}
    /\ \/ g.observer = Nothing
       \/ /\ g.target # Nothing
          /\ \E o \in s.active : o.who = w /\ o.target = g.target /\ Observer(o) = g.observer

\* An animal that a count of somebody unknown may have included.
Included(t, g, G) ==
    IF g.kind # "unknown" \/ g.loc = Nothing THEN {}
    ELSE {a \in G : /\ IsAnimal(a.kind) /\ a.min > 0 /\ PossibleTrajectory(g.loc, a.loc)
                    /\ \A src \in g.sources : <<src, a.key>> \notin t.eaten}

FirstKey(G) == CHOOSE g \in G : \A h \in G \ {g} : KeyPrecedes(g.key, h.key)

\* _device_corroboration_match: a remembered owner whose device went to where
\* somebody is, when nobody is left where the owner was.
Corroborated(t, g, n, eligible, physical) ==
    LET fits(w) == LET c == t.people[w] IN
            /\ c.status = "continued" /\ InRoom(c.loc) /\ c.loc.place \notin physical
            /\ Gap(g.loc, c.loc) <= Window
            /\ \E l \in c.radios : /\ SameArea(l, g.loc) /\ l.q >= Medium
                                   /\ l.age <= c.loc.age /\ Gap(l, g.loc) <= Window
        owners == {w \in eligible : fits(w)}
    IN  IF InRoom(g.loc) /\ n > 0 /\ g.loc.q >= Medium /\ Cardinality(owners) = 1 THEN owners ELSE {}

\* Slip: somebody anonymous moves an identified body.
MovedAlways(c, g, exact) ==
    [c EXCEPT !.loc = IF exact \/ g.loc.q <= Medium THEN g.loc ELSE [g.loc EXCEPT !.q = Medium],
              !.last = Nothing, !.cleared = {}, !.locs = g.sources,
              !.status = IF exact THEN "correlated_movement" ELSE "ambiguous_movement"]

\* _apply_group_location
Stays(c, g) ==
    /\ InRoom(c.loc)
    /\ \/ /\ g.target = Nothing /\ c.direct /\ c.idq = High /\ c.ids \cap c.locs # {}
          /\ InRoom(g.loc) /\ g.loc.place # c.loc.place
       \/ g.loc.age > c.loc.age

Moved(c, g, exact) ==
    IF Stays(c, g) THEN c
    ELSE [c EXCEPT !.loc = IF exact \/ g.loc.q <= Medium THEN g.loc ELSE [g.loc EXCEPT !.q = Medium],
                   !.last = Nothing, !.cleared = {}, !.locs = g.sources,
                   !.status = IF exact THEN "correlated_movement" ELSE "ambiguous_movement"]

\* _movement_match: whom the group may be by a trajectory; exactly, if the
\* person was identified on this very object.
OnThatFloor(c, g) == OnFloor(c.loc) /\ InRoom(g.loc) /\ LevelOf(g.loc) = c.loc.place

Reaches(c, g) ==
    \/ OnThatFloor(c, g) /\ Gap(g.loc, c.loc) <= Window
    \/ /\ NextTo(c.loc, g.loc)
       /\ Gap(g.loc, c.loc) <= (IF c.device THEN DeviceWindow ELSE Window)

Movers(t, g, n, eligible) ==
    IF g.loc = Nothing \/ n = 0 THEN {}
    ELSE {w \in eligible : t.people[w].loc # Nothing /\ Reaches(t.people[w], g)}

OverlapsFloor(t, g, n, eligible) ==
    /\ g.loc # Nothing /\ n > 0
    /\ \E w \in eligible : t.people[w].loc # Nothing /\ OnThatFloor(t.people[w], g)

\* _separate_device_proxy_from_physical_presence
Separated(t, g) ==
    LET apart == {w \in Present(t) : /\ t.people[w].device /\ t.people[w].radios # {}
                                     /\ \A l \in t.people[w].radios : ~SameArea(l, g.loc)}
    IN  IF InRoom(g.loc) /\ Cardinality(apart) = 1
        THEN [w \in Person |-> IF w \in apart
                THEN [t.people[w] EXCEPT !.status = "device_person_separation_possible"]
                ELSE t.people[w]]
        ELSE t.people

-----------------------------------------------------------------------------
(***************************************************************************)
(* One group after the other.                                              *)
(***************************************************************************)

\* The area of an access point, as good as a device's place gets by it.
AccessPoints(s, w) ==
    {o \in s.active : o.who = w /\ o.family = "wifi" /\ o.loc # Nothing}

\* A recent, good fix of the same device outside the home.
FixedElsewhere(s, w, S) ==
    \E o \in s.active : /\ o.family = "gps" /\ o.who = w /\ o.loc = Nothing
                        /\ o.fix >= Medium /\ o.age <= Window
                        /\ \E d \in S : d.target = o.target

\* A body in the remembered room, and the owner's phone at its access point.
PathSupported(s, c, w, g) ==
    LET phones == {o \in AccessPoints(s, w) : o.ap # Nothing}
    IN  /\ c.status = "continued" /\ g.min = 1 /\ g.max = 1 /\ g.observer = Nothing
        /\ c.loc.q >= Medium /\ g.loc.q >= Medium
        /\ c.loc.age <= Window /\ g.loc.age <= c.loc.age
        /\ g.sources \cap s.unavailable = {}
        /\ phones # {}
        /\ \A o \in phones : /\ SameArea(o.ap, c.loc) /\ Gap(o.ap, g.loc) <= Window
                             /\ o.source \notin s.unavailable
        /\ ~FixedElsewhere(s, w, phones)

\* What a group in the room of w does to w, if there are bodies for all there.
Supported(s, c, w, g, alone) ==
    LET seen == /\ c.status \in {"resolved", "correlated_movement"}
                /\ c.loc.q >= Medium /\ g.loc.q >= Medium /\ Gap(g.loc, c.loc) <= Window
        path == alone /\ PathSupported(s, c, w, g)
        phones == {o \in AccessPoints(s, w) : o.ap # Nothing}
    IN  [c EXCEPT !.loc = IF path THEN [@ EXCEPT !.q = Medium] ELSE @,
                  !.locs = @ \cup (IF seen \/ path THEN g.sources ELSE {})
                             \cup (IF path THEN {o.source : o \in phones} ELSE {})]

\* Persons in the order in which they are found: bodies, then radios, then phones.
FoundBefore(E, v, w) ==
    LET steps(x) == <<Identified(E, x), Radios(E, x), Weak(E, x)>>
        step(x) == SelectInSeq(steps(x), LAMBDA S : S # {})
    IN  \/ step(v) < step(w)
        \/ /\ step(v) = step(w)
           /\ NamePrecedes(FirstOf(steps(v)[step(v)]).id, FirstOf(steps(w)[step(w)]).id)

FirstPersons(E, S, n) == {w \in S : Cardinality({v \in S \ {w} : FoundBefore(E, v, w)}) < n}

Consume(t, g, S) == t.used \cup {<<w, Bucket(g)>> : w \in S}

\* The rest of a group after somebody known was found to be in its room.
InSameRoom(s, t, g, n, S) ==
    LET enough == n >= Cardinality(S)
        first == FirstPersons(s.active, S, g.max)
        people == [w \in Person |->
                     IF enough /\ w \in S
                     THEN Supported(s, t.people[w], w, g, Cardinality(S) = 1) ELSE t.people[w]]
        exactly == {w \in first : IsExactly(s, people[w], w, g)}
    IN  [t EXCEPT !.people = people, !.used = Consume(t, g, first),
                  !.n = Max({0, n - Cardinality(first)}),
                  !.max = Max({0, g.max - Cardinality(exactly)})]

\* The rest after the group was, maybe, somebody known who moved.
AfterMove(s, t, g, n, w, exact) ==
    LET c == Moved(t.people[w], g, exact)
        exactly == exact /\ ~Stays(t.people[w], g) /\ IsExactly(s, c, w, g)
    IN  [t EXCEPT !.people[w] = c, !.used = Consume(t, g, {w}), !.n = Max({0, n - 1}),
                  !.max = IF exactly THEN Max({0, g.max - 1}) ELSE g.max]

\* Nobody known is in the room: by a trajectory, it may be one who is.
ByTrajectory(s, t, g, n, eligible) ==
    LET movers == Movers(t, g, n, eligible)
    IN  IF Cardinality(movers) = 1
        THEN LET w == CHOOSE w \in movers : TRUE
             IN  AfterMove(s, t, g, n, w,
                           /\ OnThatFloor(t.people[w], g) /\ g.observer # Nothing
                           /\ g.target # Nothing /\ IsExactly(s, t.people[w], w, g))
        ELSE IF movers # {} \/ OverlapsFloor(t, g, n, eligible) THEN [t EXCEPT !.n = 0]
        ELSE IF /\ OnFloor(g.loc)
                /\ \E w \in Present(t) : PossiblySame(g.loc, t.people[w].loc)
        THEN [t EXCEPT !.n = Max({0, n - 1})]
        ELSE t

\* One turn of the loop: t.n and t.max are what is left of the group, less
\* an animal, then less whom it may be.
Opened(t, g, animals) ==
    IF animals = {} \/ g.min = 0 THEN [t EXCEPT !.n = g.min, !.max = g.max]
    ELSE [t EXCEPT !.n = g.min - 1, !.max = g.max,
                   !.eaten = @ \cup {<<src, FirstKey(animals).key>> : src \in g.sources}]

\* The devices settle nothing: whoever is in the room comes first.
WithoutOwner(s, t, g, eligible, same) ==
    IF same # {} THEN InSameRoom(s, t, g, t.n, same)
    ELSE IF g.max > 0 THEN ByTrajectory(s, t, g, t.n, eligible)
    ELSE t

Apart(s, t, g, eligible) ==
    WithoutOwner(s, t, g, eligible, {w \in eligible : SameArea(t.people[w].loc, g.loc)})

Matched(s, t, g, eligible, owners) ==
    IF owners # {} THEN AfterMove(s, t, g, t.n, CHOOSE w \in owners : TRUE, FALSE)
    ELSE Apart(s, [t EXCEPT !.people = Separated(t, g)], g, eligible)

Turn(s, t, g, eligible, physical) ==
    Matched(s, t, g, eligible, Corroborated(t, g, t.n, eligible, physical))

Tallied(t, g) ==
    [t EXCEPT !.extra = @ + t.max,
              !.counted = @ \cup (IF t.n > 0 THEN {[group |-> g, n |-> t.n]} ELSE {}),
              !.anonymous = @ \cup (IF t.n > 0 \/ t.max > 0 THEN {g.loc} ELSE {})]

Physical(G) == {g.loc.place : g \in {g \in G : ~IsAnimal(g.kind) /\ InRoom(g.loc) /\ g.max > 0}}

\* Nobody is counted yet.
Uncounted(s) ==
    [people |-> KnownPeople(s), used |-> {}, eaten |-> {}, counted |-> {}, anonymous |-> {},
     n |-> 0, max |-> 0, extra |-> 0]

\* The turn of the group with key k, if there is one.
TurnOf(s, G, t, k) ==
    LET found == {g \in G : ~IsAnimal(g.kind) /\ g.key = k}
        g == CHOOSE g \in found : TRUE
    IN  IF found = {} THEN t
        ELSE Tallied(Turn(s, Opened(t, g, Included(t, g, G)), g, Eligible(s, t, g), Physical(G)), g)

\* The loop: identities are spent once per observer, animals once per source.
Tally(s, G) ==
    LET tally[i \in 0 .. Len(Keys)] ==
            IF i = 0 THEN Uncounted(s) ELSE TurnOf(s, G, tally[i - 1], Keys[i])
    IN  tally[Len(Keys)]

\* An access point places only who has no better place.
NearAccessPoint(s, c, w) ==
    LET phones == {o \in AccessPoints(s, w) : o.ap # Nothing}
        areas == {o.ap.place : o \in phones}
        newest == CHOOSE o \in phones : \A p \in phones : o.ap.age <= p.ap.age
    IN  IF /\ ~InRoom(c.loc) /\ (c.device => c.direct)
           /\ c.status \in {"possible", "resolved", "location_cleared"}
           /\ Cardinality(areas) = 1
        THEN [c EXCEPT !.loc = newest.ap, !.locs = {newest.source}, !.status = "possible"]
        ELSE c

Placed(s, t) ==
    [w \in Person |-> IF t.people[w] = Nothing THEN Nothing
                      ELSE NearAccessPoint(s, t.people[w], w)]

-----------------------------------------------------------------------------
(***************************************************************************)
(* The population of every room (_area_occupancies).                       *)
(***************************************************************************)

\* Identified bodies where they are now.
DirectBodies(s, people) ==
    {o \in s.active : /\ o.kind = "person" /\ o.who # Nothing /\ InRoom(o.loc)
                      /\ people[o.who].status # "continued"
                      /\ o.source \in people[o.who].locs /\ SameArea(o.loc, people[o.who].loc)}

Unnamed(o) == [o EXCEPT !.who = Nothing, !.target = IF o.target = Nothing THEN o.who ELSE o.target]

Inside(S, a) == {x \in S : InRoom(x.loc) /\ x.loc.place = a}

\* Slip: the identified bodies of a room stand for those counted there.
RoomEvidenceByName(s, people, G, a) ==
    LET named == Inside(DirectBodies(s, people), a)
        sources == UNION {g.sources : g \in {g \in Inside(G, a) : g.max > 0}}
    IN  IF named # {} THEN {Unnamed(o) : o \in named}
        ELSE {o \in Inside(s.active, a) : o.who = Nothing /\ o.source \in sources}

\* What is known of room a besides who it is.
RoomEvidence(s, people, G, a) ==
    LET groups == {g \in Inside(G, a) : g.max > 0}
        sources == UNION {g.sources : g \in groups}
        named == {o \in Inside(DirectBodies(s, people), a) :
                    Observer(o) # Nothing \/ \A g \in groups : IsAnimal(g.kind)}
    IN  {o \in Inside(s.active, a) : o.who = Nothing /\ o.source \in sources}
          \cup {Unnamed(o) : o \in named}

CountOf(E, items) ==
    LET tracked == {c \in Whole(items) : c.group.target # Nothing}
        people == {c \in tracked : c.group.kind = "person"}
        min == Max({g.min : g \in items} \cup {Interval(o).min : o \in {o \in E : o.family = "counter"}}
                     \cup {TrackedMinimum(tracked), TrackedMinimum(people) + AnimalCount(items).min})
    IN  [min |-> min, max |-> Max({min, MaxSum(items)})]

RoomCount(E) == CountOf(E, Reconciled(Groups(E)))

Occupied(s, people, G) ==
    {a \in Area : \/ \E g \in Inside(G, a) : g.max > 0
                  \/ Inside(DirectBodies(s, people), a) # {}}

Occupancies(s, people, G) ==
    LET rooms == {a \in Occupied(s, people, G) : Anonymous(RoomEvidence(s, people, G, a)) # {}}
    IN  {[area |-> a, n |-> RoomCount(RoomEvidence(s, people, G, a))] : a \in rooms}

-----------------------------------------------------------------------------
(***************************************************************************)
(* The population of the home.                                             *)
(***************************************************************************)

WeakMethods == {"wifi_connection", "wifi_ap_proximity", "gps_device_home"}

\* Owners only a phone places, remembered persons, persons without a place.
OnlyPhones(people) ==
    {w \in Person : people[w] # Nothing /\ people[w].status = "possible"
                    /\ people[w].loc # Nothing /\ people[w].loc.by \in WeakMethods}

CarriedOver(people) == {w \in Person : people[w] # Nothing /\ people[w].status = "continued"}

Unplaced(people) ==
    {w \in Person : /\ people[w] # Nothing /\ people[w].status # "continued" /\ AtHome(people[w].loc)
                    /\ ~ (people[w].status = "possible" /\ people[w].loc.by = "wifi_connection")}

\* Persons who are remembered or unplaced may be among those counted.
HomeCount(t, people, G, rooms) ==
    LET n == Cardinality({w \in Person : people[w] # Nothing})
        strong == n - Cardinality(OnlyPhones(people))
        other == strong - Cardinality(CarriedOver(people)) - Cardinality(Unplaced(people))
        interval(least, animals) ==
            LET min == Max({r.n.min : r \in rooms}
                             \cup {Max({strong, other + least}) + animals.min})
            IN  [min |-> min, max |-> Max({min, n + animals.max + t.extra})]
    IN  interval(PopulationMinimum(t.counted), AnimalCount(G))

-----------------------------------------------------------------------------
(***************************************************************************)
(* The actions.                                                            *)
(***************************************************************************)

Hypothesis(c) ==
    IF c = Nothing THEN Nothing
    ELSE [loc |-> c.loc, status |-> c.status, last |-> c.last, cleared |-> c.cleared,
          locs |-> c.locs]

\* Where anybody is, for the next resolution.
PlacesOf(people, t, G) ==
    LET anonymous == {g.loc : g \in SeenAnimals(G) \cup {NewestGroup(V) : V \in AnimalViews(G)}}
                       \cup t.anonymous
        named == {people[w].loc : w \in {w \in Person : people[w] # Nothing}}
    IN  {[place |-> l.place, q |-> l.q, age |-> l.age] : l \in {l \in anonymous \cup named : InRoom(l)}}

Init ==
    /\ scene = Nothing /\ known = [w \in Person |-> Nothing] /\ places = {}
    /\ count = [min |-> 0, max |-> 0] /\ occupancy = {}

\* The steps of resolve, each with the results of those before it.
Snapshot(t, people, G, rooms) ==
    /\ known' = [w \in Person |-> Hypothesis(people[w])]
    /\ places' = PlacesOf(people, t, G)
    /\ occupancy' = rooms
    /\ count' = HomeCount(t, people, G, rooms)

Correlated(s, t, people, G) == Snapshot(t, people, G, Occupancies(s, people, G))

Resolved(s, t, G) == Correlated(s, t, Placed(s, t), G)

FromGroups(s, G) == Resolved(s, Tally(s, G), G)

Resolve(s) ==
    /\ scene = Nothing
    /\ scene' = s
    /\ FromGroups(s, GroupsOf(s))

Older(l, d) == IF l = Nothing THEN Nothing ELSE [l EXCEPT !.age = Min({MaxAge, @ + d})]

\* Time passes, or none does, until the next resolution, which reads neither
\* the counts nor the rooms of this one.
Pass(d) ==
    /\ scene # Nothing \/ d > 0
    /\ scene' = Nothing /\ count' = [min |-> 0, max |-> 0] /\ occupancy' = {}
    /\ known' = [w \in Person |->
                   IF known[w] = Nothing THEN Nothing
                   ELSE [known[w] EXCEPT !.loc = Older(@, d), !.last = Older(@, d)]]
    /\ places' = {p \in {[q EXCEPT !.age = @ + d] : q \in places} : p.age <= Window}

Next == (\E s \in Scenes : Resolve(s)) \/ (\E d \in 0 .. 1 : Pass(d))

Spec == Init /\ [][Next]_vars

-----------------------------------------------------------------------------
(***************************************************************************)
(* Properties.                                                             *)
(***************************************************************************)

TypeOK ==
    /\ scene \in Scenes \cup {Nothing}
    /\ known \in [Person -> Hypotheses \cup {Nothing}]
    /\ \A p \in places : p.place \in Area /\ p.q \in 0 .. High /\ p.age \in 0 .. MaxAge
    /\ count.min \in Nat /\ count.max \in count.min .. MaxSum(Groups(IF scene = Nothing THEN {} ELSE scene.active)) + Cardinality(Person)
    /\ \A r \in occupancy : r.area \in Area /\ r.n.min \in 0 .. r.n.max

RoomsOf(E, w) == {o.loc.place : o \in {o \in Identified(E, w) : InRoom(o.loc)}}

SeenPersons(E) == {w \in Person : RoomsOf(E, w) # {}}

Counters(G) == {g \in G : g.target = Nothing /\ ~IsAnimal(g.kind)}

Outside(G) == {g \in G : ~IsAnimal(g.kind) /\ ~InRoom(g.loc)}

\* The most bodies of room a, of every kind, that one observer tells apart, with
\* those whom others know to be there.
ToldApart(E, G, a) ==
    LET named == {o \in E : o.kind = "person" /\ o.who # Nothing /\ InRoom(o.loc) /\ o.loc.place = a}
        tracks(k) == {g \in Tracks(OfRoom(G, a)) : g.kind = k}
        objects(c) == {o \in named : Observer(o) = c}
        others(c) == {o.who : o \in named} \ {o.who : o \in objects(c)}
        seen(k, c) == SumFunction([g \in {g \in tracks(k) : g.observer = c} |-> g.min])
        persons(c) == seen("person", c) + Cardinality(objects(c)) + Cardinality(others(c))
    IN  Max({g.min : g \in Counters(OfRoom(G, a))}
              \cup {Max({0} \cup {persons(c) : c \in {g.observer : g \in tracks("person")}
                                                        \cup {Observer(o) : o \in named}})
                      + Max({0} \cup {seen("unknown", g.observer) : g \in tracks("unknown")})})

\* Persons placed where nobody identifies them now: they moved, or were
\* identified on a floor.
PlacedApart(E, people) ==
    {w \in Person : /\ people[w] # Nothing
                    /\ \/ Identified(E, w) # {} \/ people[w].status = "ambiguous_movement"
                    /\ \/ people[w].loc = Nothing \/ people[w].loc.place \notin RoomsOf(E, w)}

\* The least number of bodies adds up what one observer of each room and class
\* tells apart: never what two cameras report of one class, or two counters of it,
\* and nobody who is only remembered or known to be at home, whom a counter may
\* have counted.
NobodyIsCountedTwice ==
    [][scene' # Nothing =>
         LET E == scene'.active
             G == Guarded(Groups(E))
             firm == {w \in Person : known'[w] # Nothing} \ OnlyPhones(known')
         IN  count'.min <= AnimalCount(G).min
               + Max({Cardinality(firm),
                      SumFunction([a \in Area |-> ToldApart(E, G, a)])
                        + SumFunction([g \in Outside(G) |-> g.min])
                        + Cardinality(PlacedApart(E, known'))})]_vars

\* Nobody anonymous is tracked but by cameras that are known.
TrackedByCameras(E) ==
    \A o \in Anonymous(E) : o.target # Nothing => o.family = "visual" /\ o.coverage # Nothing

\* The greatest number of bodies leaves room for everybody reported: for one
\* room of each person that a camera shows, what is tracked in a room and the
\* persons there, or what is counted there if that is more, and all others.
\* Not so with a counter that names a target and is no camera: a person in its
\* room is taken from it and, once more, from what else is counted there.
EverybodyHasRoom ==
    scene # Nothing =>
    LET E == scene.active
        G == Groups(E)
        seen == SeenPersons(E)
        tracked(a) == MaxSum(Tracks(OfRoom(G, a)))
        counted(a) == Max({0} \cup {g.max : g \in Counters(OfRoom(G, a))})
    IN  \E at \in [seen -> Area] :
          /\ \A w \in seen : at[w] \in RoomsOf(E, w)
          /\ count.max >= MaxSum(Outside(G)) + MaxSum(AnimalsOf(G))
                + Cardinality({w \in Person : known[w] # Nothing} \ seen)
                + SumFunction([a \in Area |->
                      Max({counted(a), tracked(a) + Cardinality({w \in seen : at[w] = a})})])

\* But the home has room for all where only cameras track.
NobodyIsHidden ==
    scene # Nothing /\ TrackedByCameras(scene.active) => EverybodyHasRoom

\* A counter that is on is told of in its own room.
Told(rooms, o) ==
    \E r \in rooms : r.area = o.loc.place /\ r.n.min >= Interval(o).min /\ r.n.max >= o.max

\* An entity that is told to report a device counts no bodies.
CountersIn(E) == {o \in Anonymous(E) : o.family = "counter" /\ InRoom(o.loc)}

\* The producer of o reports as recently from another place: the group of both
\* is there.
ReportedElsewhere(E, o) ==
    \E p \in Anonymous(E) :
       KeyOf(p) = KeyOf(o) /\ AgeOf(p) <= AgeOf(o) /\ ~SameArea(p.loc, o.loc)

\* "Keep active physical evidence even when correlation consumes its count":
\* every counter of a room that is on keeps its room among those occupied, if
\* its producer reports nothing newer elsewhere.
RoomsKeepTheirCounts ==
    scene # Nothing =>
    \A o \in CountersIn(scene.active) :
       Told(occupancy, o) \/ ReportedElsewhere(scene.active, o)

\* The same, unless a camera's older, weaker object in that room is moved to
\* the floor, by somebody the snapshot before placed next door.
OnlyDoubtHidesACounter ==
    [][scene' # Nothing =>
         \A o \in CountersIn(scene'.active) :
            \/ Told(occupancy', o)
            \/ ReportedElsewhere(scene'.active, o)
            \/ \E g \in Tracks(OfRoom(Groups(scene'.active), o.loc.place)) : Conflicting(g) # {}]_vars

\* A person's place is never newer than what reports it: evidence of a body
\* there, the person's own access point, or the snapshot before, which lends
\* a place for Lifetime only, however often it is carried over.
PlacesKeepTheirClock ==
    [][scene' # Nothing =>
         \A w \in {w \in Person : known'[w] # Nothing} :
            LET l == known'[w].loc
                E == scene'.active
            IN  \/ l = Nothing \/ AtHome(l)
                \/ \E o \in E : /\ o.kind # "device" /\ o.loc # Nothing
                                 /\ o.loc.place = l.place /\ o.loc.age = l.age
                \/ \E o \in AccessPoints(scene', w) : o.ap = l
                \/ /\ known[w] # Nothing /\ known[w].loc # Nothing /\ l.age < Lifetime
                   /\ known[w].loc.place = l.place /\ known[w].loc.age = l.age]_vars

\* Who is identified beyond doubt in a room, with nothing newer remembered,
\* is there, or went with somebody a camera follows elsewhere: no counter, no
\* device and no memory moves an identified body.
IdentifiedBodiesStand ==
    [][scene' # Nothing =>
         \A w \in SeenPersons(scene'.active) :
            LET S == Identified(scene'.active, w)
                best == BestLoc(S)
                l == known'[w].loc
            IN  (/\ InRoom(best) /\ \E o \in S : o.idq = High
                 /\ \/ known[w] = Nothing \/ known[w].loc = Nothing
                    \/ known[w].loc.age >= best.age)
                => \/ SameArea(l, best)
                   \/ \E o \in Anonymous(scene'.active) : o.target # Nothing /\ SameArea(o.loc, l)]_vars
=============================================================================
