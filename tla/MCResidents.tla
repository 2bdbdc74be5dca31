----------------------------- MODULE MCResidents -----------------------------
(***************************************************************************)
(* Two rooms next to each other on one floor and one on another, two       *)
(* persons, two cameras, counters of rooms and floors, and the devices of  *)
(* one of the persons.  A unit of time is 20 s.                            *)
(***************************************************************************)
EXTENDS Residents

MCArea == {"A", "B", "D"}
MCFloor == {"F1", "F2"}
MCFloorOf == [a \in MCArea |-> IF a = "D" THEN "F2" ELSE "F1"]
MCAdjacent == {{"A", "B"}}
MCPerson == {"P", "Q"}
MCNames ==
    <<"A", "B", "D", "P", "Q", "bP", "cam1", "cam2", "gP", "hP", "hQ", "mA", "mF1", "mtr", "mtr:A",
      "mtr:F1", "phP", "r1", "r2", "r4", "t1", "t2", "t3", "tagP", "wP">>

At(place, q, age) == [place |-> place, rooms |-> {}, q |-> q, by |-> "measured", age |-> age]

Counter(id, place, q, age, n) ==
    [id |-> id, source |-> id, family |-> "counter", kind |-> "unknown", target |-> Nothing,
     dependency |-> Nothing, coverage |-> Nothing, who |-> Nothing, idq |-> 0,
     loc |-> At(place, q, age), ap |-> Nothing, fix |-> 0, age |-> 0, min |-> n, max |-> n,
     young |-> FALSE]

\* A zone of an MTR: one source, one observation for every place.
Zone(id, place, n) ==
    [Counter(id, place, IF place \in MCArea THEN High ELSE Medium, 0, n) EXCEPT
        !.source = "mtr", !.dependency = IF place = "A" THEN "mtr:A" ELSE "mtr:F1"]

\* What a camera sees: t1 and t2 are objects of one, t3 of the other.
Object(id, place, q, age) ==
    [Counter(id, place, q, age, 1) EXCEPT !.family = "visual", !.kind = "person", !.target = id,
        !.coverage = IF id = "t3" THEN "cam2" ELSE "cam1"]

Face(id, w, place, q, age) == [Object(id, place, q, age) EXCEPT !.who = w, !.idq = High]

\* An object of a class that is neither a person nor an animal.
Unknown(o) == [o EXCEPT !.kind = "unknown"]

Dog(id, place) == [Object(id, place, High, 0) EXCEPT !.kind = "dog"]

AtHomeBy(id, w, family, by) ==
    [Counter(id, Home, Low, 0, 1) EXCEPT !.family = family, !.kind = "device", !.who = w,
        !.idq = High, !.target = "phP", !.loc = [@ EXCEPT !.by = by]]

HomePerson(id, w) ==
    [AtHomeBy(id, w, "home", "measured") EXCEPT !.kind = "person", !.idq = Medium, !.target = Nothing]

Wifi(area) ==
    [AtHomeBy("wP", "P", "wifi", "wifi_connection") EXCEPT
        !.ap = [At(area, Low, 0) EXCEPT !.by = "wifi_ap_proximity"]]

Tag(area, q) ==
    [AtHomeBy("bP", "P", "radio", "measured") EXCEPT !.loc = At(area, q, 0), !.target = "tagP"]

Away == [AtHomeBy("gP", "P", "gps", "measured") EXCEPT !.loc = Nothing, !.fix = High]

\* A counter of an entity that is told to name a target.
Tracker(id, place) == [Counter(id, place, High, 0, 1) EXCEPT !.target = id]

\* A counter of an entity that shares its producer with others.
Shared(o) == [o EXCEPT !.dependency = "mtr"]

Clear(id, place) == Counter(id, place, Medium, 0, 0)

Young(o) == [o EXCEPT !.young = TRUE]

Scene(active, clears, unavailable) ==
    [active |-> active, clears |-> clears, unavailable |-> unavailable]

Seeing(active) == Scene(active, {}, {})

MCScenes ==
    {Seeing({}),
     \* Identified bodies, alone and where others are.
     Seeing({Face("t1", "P", "A", High, 0)}),
     Seeing({Face("t1", "P", "A", Medium, 1), Counter("r2", "B", Medium, 0, 1)}),
     Seeing({Face("t1", "P", "A", High, 0), Face("t3", "Q", "A", High, 1), Counter("r1", "A", High, 0, 2)}),
     Seeing({Face("t1", "P", "A", High, 0), Face("t3", "Q", "A", High, 0), Counter("r2", "B", Medium, 0, 1)}),
     Seeing({Face("t1", "P", "B", Medium, 2), Object("t3", "A", High, 0)}),
     Seeing({Face("t1", "P", "F1", Medium, 0), Object("t3", "A", Medium, 0)}),
     Seeing({Face("t1", "P", "A", High, 0), Face("t3", "P", "B", High, 0), HomePerson("hQ", "Q")}),
     \* Anonymous objects of one and of two cameras.
     Seeing({Object("t1", "A", High, 0), Object("t3", "A", High, 0)}),
     Seeing({Object("t1", "B", Medium, 0), Counter("r1", "A", High, 0, 1), HomePerson("hP", "P")}),
     Seeing({Object("t2", "A", Medium, 3), Counter("r1", "A", High, 0, 1)}),
     Seeing({Object("t2", "A", Medium, 2), Dog("t3", "A"), Counter("r1", "A", Medium, 0, 2)}),
     Seeing({Object("t1", "B", High, 1)}),
     Seeing({Object("t1", "A", High, 0), Unknown(Object("t3", "A", High, 0))}),
     Seeing({Face("t1", "P", "A", High, 0), Unknown(Object("t3", "A", High, 0)), Counter("r1", "A", High, 0, 2)}),
     Seeing({Tracker("r4", "A"), Face("t1", "P", "A", High, 0), Young(Counter("r1", "A", High, 0, 3))}),
     \* Counters, of rooms and floors, that are on or have just gone off.
     Seeing({Counter("r1", "A", High, 0, 1), HomePerson("hP", "P"), HomePerson("hQ", "Q")}),
     Seeing({Counter("r2", "B", Medium, 0, 2), Tag("B", Medium)}),
     Seeing({Young(Counter("r4", "F1", Medium, 0, 2)), Counter("r1", "A", Medium, 0, 1)}),
     Seeing({Zone("mA", "A", 1), Zone("mF1", "F1", 1), Counter("r2", "B", Medium, 1, 1)}),
     Seeing({Shared(Counter("r1", "A", High, 0, 1)), Shared(Counter("r2", "B", High, 1, 2))}),
     Seeing({Counter("r4", "F1", Low, 0, 2), Face("t1", "P", "A", High, 0), HomePerson("hQ", "Q")}),
     Scene({HomePerson("hP", "P")}, {Clear("r1", "A")}, {}),
     Scene({HomePerson("hP", "P"), Counter("r2", "D", High, 0, 1)}, {Clear("r1", "A")}, {"t1"}),
     \* Devices of P.
     Seeing({Tag("A", Low)}),
     Seeing({Tag("B", Medium), Counter("r2", "B", High, 0, 1)}),
     Seeing({Wifi("A"), Counter("r1", "A", Medium, 0, 1)}),
     Seeing({Wifi("B")}),
     Seeing({Wifi("D"), Away}),
     Seeing({Wifi("A"), Away, Counter("r1", "A", Medium, 0, 1)}),
     Seeing({Tag("A", Low), Counter("r2", "B", Medium, 0, 1)}),
     Scene({Wifi("A"), Counter("r1", "A", Medium, 0, 1)}, {}, {"r1"})}
=============================================================================
