--------------------------- MODULE MCAssociation ---------------------------
(***************************************************************************)
(* A small instance of Association: a hall the owner leaves, two rooms     *)
(* with a camera each, two visitors.                                       *)
(***************************************************************************)
EXTENDS Association

CONSTANTS Hall, Room, Attic, Nobody, T1, T2

MCArea == {Hall, Room, Attic}
MCTrack == {T1, T2}

\* Nobody and nothing: the owner's device lies in the hall.
Silent == [a \in MCArea |-> [state |-> "silent", age |-> 0]]

Still ==
    [phone |-> Hall, body |-> Nobody, others |-> {}, rivals |-> {}, animals |-> {}, counter |-> Silent,
     position |-> Nobody, frames |-> {}, ended |-> Nobody, claimed |-> FALSE,
     heard |-> {Hall, Room}, near |-> Hall, arriving |-> FALSE, last |-> 0,
     departed |-> Nobody]

Counter(a, state, age) == [Silent EXCEPT ![a] = [state |-> state, age |-> age]]

\* The owner is identified, with the device or without it.
Met == {[Still EXCEPT !.body = [area |-> a, age |-> t]] : a \in {Hall, Room}, t \in 0 .. 1}
         \cup {[Still EXCEPT !.body = [area |-> Hall, age |-> 0], !.phone = Nobody]}

\* Somebody anonymous is where the device is, with radar positions or without.
Beside == {[Still EXCEPT !.counter = Counter(Hall, "held", 0), !.position = p, !.others = o] :
              p \in {Nobody, 0}, o \in {{}, {Hall}}}
            \cup {[Still EXCEPT !.phone = Room, !.near = Room, !.position = 0,
                                !.counter = Counter(Room, "held", 0)]}

View(track, a, age, begun) == [track |-> track, area |-> a, age |-> age, begun |-> begun]

Views == {{}, {View(T1, Room, 0, 0)}, {View(T1, Room, 0, 1)}, {View(T2, Room, 0, 0)},
          {View(T1, Room, 0, 0), View(T2, Room, 0, 0)}, {View(T1, Attic, 0, 1)},
          {View(T1, Room, 1, 1)}}

\* The device left the hall, which was cleared, for a room.
Leaving(p, t, f) ==
    [Still EXCEPT !.phone = p, !.near = Room, !.heard = MCArea, !.arriving = TRUE,
                  !.departed = t, !.frames = f, !.counter = Counter(Hall, "clear", t)]

Left == {Leaving(Room, 0, f) : f \in Views}
          \cup {Leaving(Nobody, 1, {View(T1, Room, 0, 1)})}

\* Somebody else's device is in the room the owner would have gone to.
Rivalled == [Leaving(Room, 0, {View(T1, Room, 0, 0)}) EXCEPT !.rivals = {Room}]

\* The same without a camera: a counter holds in the room.
Arrived == {[Still EXCEPT !.phone = p, !.near = Room, !.arriving = TRUE, !.departed = 0,
                          !.counter = [Counter(Hall, "clear", 0) EXCEPT ![Room] = [state |-> "held", age |-> 0]]] :
               p \in {Hall, Room}}
             \cup {[Still EXCEPT !.phone = Room, !.near = Room, !.departed = 0,
                          !.counter = [Counter(Hall, "clear", 0) EXCEPT ![Room] = [state |-> "held", age |-> 0]]]}

\* Between frames: a counter of the room holds or does not, and the radio of
\* the rooms does not tell them apart.
Gap == [Still EXCEPT !.phone = Nobody, !.near = Nobody, !.heard = MCArea,
                     !.counter = Counter(Room, "held", 0)]

Between ==
    {[Gap EXCEPT !.frames = f, !.ended = e] :
        f \in {{}, {View(T2, Room, 0, 0)}},
        e \in {Nobody, [track |-> T1, age |-> 1]}}
      \cup {[Gap EXCEPT !.frames = {v}, !.claimed = x] :
               v \in {View(T1, Attic, 0, 1), View(T1, Room, 0, 1)}, x \in BOOLEAN}
      \cup {[Gap EXCEPT !.heard = {Room, Hall}, !.counter = Counter(Room, "clear", 0)],
            [Gap EXCEPT !.animals = {Room}], [Gap EXCEPT !.heard = {}],
            [Gap EXCEPT !.body = [area |-> Hall, age |-> 1]]}

MCScenes == {Still} \cup Met \cup Beside \cup Left \cup {Rivalled} \cup Arrived \cup Between
=============================================================================
