--------------------------- MODULE CameraContext ---------------------------
(***************************************************************************)
(* The bounded PTZ history of one camera (temporal.py) and the location it *)
(* lets a tracked frame claim (engine/geometry.py).                        *)
(*                                                                         *)
(* State reports of a camera arrive in any order, late ones included, and  *)
(* a frame is judged by the reports up to its own instant.  The history is *)
(* a list sorted by instant and role without repeated keys: here it is the *)
(* function from those keys to the state reported, the interval that was   *)
(* measured included.                                                      *)
(***************************************************************************)
EXTENDS Integers, Sequences, FiniteSets

CONSTANTS
    Time,          \* the instants of reports and frames
    Profile,       \* the profiles of the camera
    Preset,        \* the presets of the camera
    MovingStates,  \* moving_states: the camera turns
    StableStates,  \* stable_states: the camera stands
    OtherStates,   \* movement states that are neither (unavailable)
    Batches,       \* the lists of measured intervals telemetry reports
    Zone,          \* the zones of the camera
    ZoneArea,      \* zone_to_area, a partial function of Zone
    ProfileArea,   \* profile_to_area, a partial function of Profile
    MaxPoints,     \* max_points_per_camera (512 in the code)
    MaxReports     \* bound of the model on the reports that arrive

NoProfile == "none"
Movement == MovingStates \cup StableStates \cup OtherStates
Interval == [profile : Profile, from : Time, until : Time]

\* The roles in the order in which sorting puts them at one instant.
Rank == [movement |-> 1, physical |-> 2, preset |-> 3, profile |-> 4]
Role == DOMAIN Rank
Key == Time \X Role

Stated(role) ==
    CASE role = "movement" -> Movement
      [] role = "physical" -> Interval
      [] role = "preset"   -> Preset
      [] role = "profile"  -> Profile \cup {NoProfile}

ASSUME ContextAssumption ==
    /\ Time \subseteq Nat
    /\ NoProfile \notin Profile
    /\ MovingStates \cap StableStates = {}
    /\ Batches \subseteq Seq(Interval)
    /\ \A batch \in Batches : \A i \in DOMAIN batch : batch[i].from < batch[i].until
    /\ DOMAIN ZoneArea \subseteq Zone
    /\ DOMAIN ProfileArea \subseteq Profile
    /\ MaxPoints \in Nat \ {0, 1}
    /\ MaxReports \in Nat

VARIABLES
    events,   \* _events: the reports that are kept
    saved,    \* the history of the last save
    arrived,  \* every report since the history began, the last one of each key
    outcome,  \* how the last update ended: "point", "raised" or "none"
    reports   \* how many reports have arrived

vars == <<events, saved, arrived, outcome, reports>>

-----------------------------------------------------------------------------
(***************************************************************************)
(* The sorted history.                                                     *)
(***************************************************************************)

Before(k, l) == k[1] < l[1] \/ (k[1] = l[1] /\ Rank[k[2]] < Rank[l[2]])

\* The n newest keys of a set.
Newest(n, keys) == {k \in keys : Cardinality({l \in keys : Before(k, l)}) < n}

Only(f, keys) == [k \in keys |-> f[k]]

Put(f, key, state) ==
    [k \in DOMAIN f \cup {key} |-> IF k = key THEN state ELSE f[k]]

\* Slip: room is made before the report is put in.
InsertAfterPruning(f, key, state) ==
    Put(IF key \in DOMAIN f THEN f ELSE Only(f, Newest(MaxPoints - 1, DOMAIN f)), key, state)

\* A report replaces the one of its key; then the oldest go.
Insert(f, key, state) ==
    LET g == Put(f, key, state) IN Only(g, Newest(MaxPoints, DOMAIN g))

\* record_interval: an interval that is known already changes nothing.
RecordInterval(f, i) ==
    LET key == <<i.from, "physical">>
    IN  IF key \in DOMAIN f /\ f[key] = i THEN f ELSE Insert(f, key, i)

\* A history and what arrived for it, after every interval of a list, recorded
\* one after the other.
Recorded(h, batch) ==
    LET after[i \in 0 .. Len(batch)] ==
            IF i = 0 THEN h
            ELSE [events  |-> RecordInterval(after[i - 1].events, batch[i]),
                  arrived |-> Put(after[i - 1].arrived, <<batch[i].from, "physical">>, batch[i])]
    IN  after

-----------------------------------------------------------------------------
(***************************************************************************)
(* The context of a frame.                                                 *)
(***************************************************************************)

UpTo(f, t) == {k \in DOMAIN f : k[1] <= t}

Unknown == [profile |-> NoProfile, moving |-> FALSE, valid |-> FALSE, confirmed |-> FALSE]

\* Slip: asking for another profile keeps the confirmation.
AppliedKeepingProfile(point, role, state) ==
    CASE role = "profile"  -> [point EXCEPT !.profile = state]
      [] role = "preset"   -> [point EXCEPT !.confirmed = FALSE]
      [] role = "movement" ->
            [point EXCEPT !.moving = state \in MovingStates,
                          !.valid = state \in MovingStates \cup StableStates,
                          !.confirmed = state \in StableStates /\ point.profile # NoProfile]
      [] role = "physical" -> point

\* What one report makes of the context so far.
Applied(point, role, state) ==
    CASE role = "profile"  -> [point EXCEPT !.profile = state, !.confirmed = FALSE]
      [] role = "preset"   -> [point EXCEPT !.confirmed = FALSE]
      [] role = "movement" ->
            [point EXCEPT !.moving = state \in MovingStates,
                          !.valid = state \in MovingStates \cup StableStates,
                          !.confirmed = state \in StableStates /\ point.profile # NoProfile]
      [] role = "physical" -> point

Latest(keys) == CHOOSE k \in keys : \A l \in keys : ~ Before(k, l)

\* The context after the reports of every set of keys, taken in their order:
\* what the latest one makes of the context after the others.
After(f, eligible) ==
    LET after[keys \in SUBSET eligible] ==
            IF keys = {} THEN Unknown
            ELSE LET last == Latest(keys)
                 IN  Applied(after[keys \ {last}], last[2], f[last])
    IN  after

Logical(f, t) == After(f, UpTo(f, t))[UpTo(f, t)]

\* A request or a turn of the camera after the start of a measured interval.
Turns(f, k) == k[2] = "preset" \/ (k[2] = "movement" /\ f[k] \in MovingStates)

\* The measured intervals that hold at t.
Bracketing(f, t) ==
    {k \in UpTo(f, t) :
        /\ k[2] = "physical"
        /\ t <= f[k].until
        /\ ~ \E l \in UpTo(f, t) : k[1] < l[1] /\ Turns(f, l)}

Known(f, t) == UpTo(f, t) # {}

\* The last context no later than t; the latest measurement goes before it.
At(f, t) ==
    IF Bracketing(f, t) = {} THEN Logical(f, t)
    ELSE [profile |-> f[Latest(Bracketing(f, t))].profile,
          moving |-> FALSE, valid |-> TRUE, confirmed |-> TRUE]

(***************************************************************************)
(* FrigateEventAdapter._location and resolve_camera_location, for a camera *)
(* with context entities and without a fixed area.  A claim is the set of  *)
(* candidate areas and the way they were found.                            *)
(***************************************************************************)
Areas == {ZoneArea[z] : z \in DOMAIN ZoneArea} \cup {ProfileArea[p] : p \in DOMAIN ProfileArea}

Claim(level, areas, method) == [level |-> level, areas |-> areas, method |-> method]

\* Slip: a zone is believed whether or not the camera stands.
LocationZonesFirst(f, zones, t) ==
    LET point  == IF Known(f, t) THEN At(f, t) ELSE Unknown
        mapped == {ZoneArea[z] : z \in zones \cap DOMAIN ZoneArea}
    IN  IF Cardinality(mapped) = 1 THEN Claim("area", mapped, "frigate_current_zone")
        ELSE IF point.moving THEN Claim("floor", Areas, "ptz_transition")
        ELSE IF point.confirmed /\ point.profile \in DOMAIN ProfileArea
        THEN Claim("area", {ProfileArea[point.profile]}, "ptz_profile_fallback")
        ELSE Claim("floor", Areas, "camera_scope_only")

Location(f, zones, t) ==
    LET point  == IF Known(f, t) THEN At(f, t) ELSE Unknown
        mapped == {ZoneArea[z] : z \in zones \cap DOMAIN ZoneArea}
    IN  CASE point.moving -> Claim("floor", Areas, "ptz_transition")
          [] ~ point.moving /\ ~ point.valid -> Claim("floor", Areas, "geometry_unavailable")
          [] ~ point.moving /\ point.valid ->
               CASE Cardinality(mapped) = 1 -> Claim("area", mapped, "frigate_current_zone")
                 [] Cardinality(mapped) > 1 ->
                        Claim("floor", mapped, "frigate_current_zones_ambiguous")
                 [] mapped = {} ->
                        IF point.confirmed /\ point.profile \in DOMAIN ProfileArea
                        THEN Claim("area", {ProfileArea[point.profile]}, "ptz_profile_fallback")
                        ELSE Claim("floor", Areas, "camera_scope_only")

-----------------------------------------------------------------------------
(***************************************************************************)
(* The reports (PTZContextAdapter) and the save and restart of the host.   *)
(***************************************************************************)

Init ==
    /\ events = << >>
    /\ saved = [events |-> << >>, arrived |-> << >>]
    /\ arrived = << >>
    /\ outcome = "none"
    /\ reports = 0

Report == reports < MaxReports /\ reports' = reports + 1

\* update: the report goes in, and its own context comes out.
Update(role, state, t) ==
    /\ Report
    /\ events' = Insert(events, <<t, role>>, state)
    /\ arrived' = Put(arrived, <<t, role>>, state)
    /\ outcome' = IF Known(events', t) THEN "point" ELSE "raised"
    /\ UNCHANGED saved

\* Telemetry: the intervals of the list are recorded one after the other.
Telemetry(batch) ==
    /\ Report
    /\ LET h == Recorded([events |-> events, arrived |-> arrived], batch)[Len(batch)]
       IN  events' = h.events /\ arrived' = h.arrived
    /\ outcome' = "none"
    /\ UNCHANGED saved

Save ==
    /\ saved' = [events |-> events, arrived |-> arrived]
    /\ UNCHANGED <<events, arrived, outcome, reports>>

\* A restart goes back to the last save.
Restart ==
    /\ events' = saved.events
    /\ arrived' = saved.arrived
    /\ outcome' = "none"
    /\ UNCHANGED <<saved, reports>>

Next ==
    \/ \E t \in Time, role \in Role \ {"physical"} :
          \E state \in Stated(role) : Update(role, state, t)
    \/ \E batch \in Batches : Telemetry(batch)
    \/ Save
    \/ Restart

Spec == Init /\ [][Next]_vars

-----------------------------------------------------------------------------
(***************************************************************************)
(* Properties.                                                             *)
(***************************************************************************)

\* The history has the shape of the registry's lists and keeps to its limit.
TypeOK ==
    /\ DOMAIN events \subseteq Key
    /\ Cardinality(DOMAIN events) <= MaxPoints
    /\ \A k \in DOMAIN events : events[k] \in Stated(k[2])
    /\ outcome \in {"none", "point", "raised"}
    /\ reports \in 0 .. MaxReports

\* The order of arrival does not matter: the history is the newest reports of
\* all that ever arrived, late ones, replaced ones and restarts included
\* (temporal.py, _insert and restore).
HistoryIsTheNewest == events = Only(arrived, Newest(MaxPoints, DOMAIN arrived))

\* Whatever order they arrived in, the movement reports up to t end in a stop.
Standing(t) ==
    \E k \in UpTo(events, t) :
        /\ k[2] = "movement" /\ events[k] \in StableStates
        /\ \A l \in UpTo(events, t) : l[2] = "movement" => ~ Before(k, l)

\* A physical arrival is earned: the camera stopped after every request it had
\* got by the time of the frame, or a measurement holds that no request
\* interrupted (temporal.py, at).
ArrivalIsEarned ==
    \A t \in Time :
        (Known(events, t) /\ At(events, t).confirmed) =>
            \/ /\ Standing(t)
               /\ \E k \in UpTo(events, t) :
                     /\ k[2] = "movement"
                     /\ \A l \in UpTo(events, t) :
                           l[2] \in {"preset", "profile"} => Before(l, k)
            \/ \E k \in UpTo(events, t) :
                  /\ k[2] = "physical" /\ t <= events[k].until
                  /\ \A l \in UpTo(events, t) : l[2] = "preset" => l[1] <= k[1]

\* A frame is placed in one area only if the camera stood still then, as far
\* as the reports say or a measurement shows (geometry.py).
AreaNeedsAStandingCamera ==
    \A t \in Time, zones \in SUBSET Zone :
        Location(events, zones, t).level = "area" =>
            \/ Standing(t)
            \/ \E k \in UpTo(events, t) : k[2] = "physical" /\ t <= events[k].until

\* A report says nothing of the frames before it: unless it pushes another
\* one out, it leaves their context alone (temporal.py, update).
LateReportsAreLocal ==
    [][ \A t \in Time :
           (/\ reports' # reports
            /\ DOMAIN events \subseteq DOMAIN events'
            /\ \A k \in DOMAIN events' :
                  (k \notin DOMAIN events \/ events'[k] # events[k]) => t < k[1])
           => At(events', t) = At(events, t) ]_vars

\* What the assertion in temporal.py says of the program: an update returns
\* the context at its own instant.  The code breaks it: a report that is
\* older than a full history is pruned before its context is looked up.
UpdateFindsItsContext == outcome # "raised"
=============================================================================
