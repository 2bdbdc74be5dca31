----------------------------- MODULE Association -----------------------------
(***************************************************************************)
(* DeviceAssociations (association.py) for one device of one owner: the    *)
(* anchor that ties the device to a body, and the link (DeviceHandoff)     *)
(* that follows the owner from there into another room.                    *)
(*                                                                         *)
(* What the evidence says at a resolution is a Scene.  A scene gives ages, *)
(* not instants, so that the same scene may come at any time.  Radio       *)
(* samples are reduced to what comparing their ranges yields.  Another     *)
(* device or owner appears as what it does to this link: it may claim the  *)
(* same visual target.                                                     *)
(***************************************************************************)
EXTENDS Integers, FiniteSets

CONSTANTS
    Area,      \* the rooms
    Track,     \* anonymous visual targets
    Scenes,    \* what a resolution may be told
    Nothing,   \* None
    Lifetime,  \* previous_continuity_window (90 s)
    Window,    \* trajectory_window, the measurement window (20 s)
    MaxClock   \* bound of the model on the clock

Instant == 0 .. MaxClock
Age == 0 .. MaxClock

ASSUME NothingAssumption == Nothing \notin Area \cup Track \cup Instant

\* The runtime uses the defaults, 20 and 90 seconds (runtime.py).
ASSUME WindowAssumption ==
    Lifetime \in Nat /\ Window \in 1 .. Lifetime /\ MaxClock \in Nat

\* One frame of an anonymous target: the newest of an event begun earlier.
Frame == [track : Track, area : Area, age : Age, begun : Age]

SceneType ==
    [phone    : Area \cup {Nothing},      \* the room the receivers report
     body     : [area : Area, age : Age] \cup {Nothing},  \* the owner, identified
     others   : SUBSET Area,              \* rooms of other identified persons
     rivals   : SUBSET Area,              \* rooms of devices of other owners
     animals  : SUBSET Area,
     counter  : [Area -> [state : {"silent", "held", "clear"}, age : Age]],
     position : Age \cup {Nothing},       \* a radar position of the counter's device
     frames   : SUBSET Frame,
     ended    : [track : Track, age : Age] \cup {Nothing},
     claimed  : BOOLEAN,                  \* another owner follows the same target
     heard    : SUBSET Area,              \* receivers with a current range
     near     : Area \cup {Nothing},      \* the one whose range beats all others
     arriving : BOOLEAN,                  \* distances to the new room decrease
     last     : Age,                      \* the newest sample
     departed : Age \cup {Nothing}]       \* the origin's last two increased, beyond
                                          \* the range of the anchor

ASSUME SceneAssumption ==
    /\ Scenes \subseteq SceneType
    /\ \A s \in Scenes :
          /\ s.near = Nothing \/ s.near \in s.heard
          /\ \A f \in s.frames : f.begun >= f.age
          /\ \A f, g \in s.frames : f.track = g.track => f = g

\* How an anchor was earned: by the identified body, by radar positions next
\* to the device, or provisionally by a held counter next to it.
Anchor ==
    [at : Instant, area : Area, by : {"body", "position", "counter"},
     accepted : Instant \cup {Nothing}, acceptedArea : Area \cup {Nothing}]

\* clears: the link rests on a measured clear of its origin.  frameIn is no
\* field of the code: the room of the frame that gave bodyAt.
Link ==
    [anchored : Instant, from : Area, to : Area, observed : Instant, clears : BOOLEAN,
     accepted : Instant \cup {Nothing}, after : Instant \cup {Nothing},
     track : Track \cup {Nothing}, bodyAt : Instant \cup {Nothing},
     frameIn : Area \cup {Nothing}]

ASSUME RecordAssumption ==
    Nothing \notin Anchor \cup Link \cup [area : Area, age : Age]
                    \cup [track : Track, age : Age]

VARIABLES
    clock,
    captureAfter,  \* capture_after: when the state was last restored
    anchor,        \* anchors[key]
    link,          \* handoffs[key]
    hint,          \* the room of room_hints[key]; its clock is left out
    seen,          \* where the last snapshot has the owner's identified body
    carried,       \* the last snapshot places the owner by the link
    evaluated,     \* evaluated_at of the last snapshot
    spent          \* the target of a chain of this anchor that broke (history)

vars == <<clock, captureAfter, anchor, link, hint, seen, carried, evaluated, spent>>

IsVisual(l) == l # Nothing /\ l.track # Nothing

\* What the lifetime of a link counts from.
ClockOf(l) ==
    IF l.bodyAt # Nothing THEN l.bodyAt
    ELSE IF l.accepted # Nothing THEN l.accepted
    ELSE l.anchored

LaterOf(x, y) == IF x > y THEN x ELSE y

Placed == seen # Nothing \/ carried

-----------------------------------------------------------------------------
(***************************************************************************)
(* Reading a scene at the present clock.                                   *)
(***************************************************************************)

At(age) == clock - age

AgesOf(s) ==
    {s.last} \cup {x \in {s.position, s.departed} : x # Nothing}
      \cup (IF s.body = Nothing THEN {} ELSE {s.body.age})
      \cup (IF s.ended = Nothing THEN {} ELSE {s.ended.age})
      \cup {f.begun : f \in s.frames} \cup {s.counter[a].age : a \in Area}

\* Nothing happened before instant 0, and ranges need samples of this process.
Possible(s) ==
    /\ \A x \in AgesOf(s) : x <= clock
    /\ s.heard # {} => captureAfter # clock

Held(s, a) == s.counter[a].state = "held"

ClearedAfter(s, a, t) ==
    s.counter[a].state = "clear" /\ At(s.counter[a].age) > t

\* A departure of which the samples are later than the anchor.
DepartedWithin(s, a, span) ==
    s.departed # Nothing /\ At(s.departed) > a.at /\ s.departed < span

-----------------------------------------------------------------------------
(***************************************************************************)
(* Anchors.                                                                *)
(***************************************************************************)

\* Slip: an anchor does not age.
SurvivesAgeless(s) ==
    /\ s.phone # Nothing \/ anchor.by # "body"
    /\ ~ (s.body # Nothing /\ At(s.body.age) > anchor.at /\ s.body.area # s.phone)
    /\ ~ (anchor.by = "position" /\ anchor.area \in s.others)

Survives(s) ==
    /\ s.phone # Nothing \/ anchor.by # "body"
    /\ clock - (IF IsVisual(link) THEN LaterOf(anchor.at, link.bodyAt) ELSE anchor.at)
          < Lifetime
    /\ ~ (s.body # Nothing /\ At(s.body.age) > anchor.at /\ s.body.area # s.phone)
    /\ ~ (anchor.by = "position" /\ anchor.area \in s.others)

Pruned(s) == IF anchor # Nothing /\ Survives(s) THEN anchor ELSE Nothing

\* The identified body in the room of the device; else, when the owner is
\* placed no better, the radar positions of the one counter that holds there.
\* The snapshot before is taken to know the counters of the scene.
References(s) ==
    IF s.body # Nothing
    THEN {[at |-> At(s.body.age), by |-> "body"] : x \in {s.phone} \cap {s.body.area}}
    ELSE {[at |-> At(s.position), by |-> "position"] :
             x \in IF /\ s.position # Nothing
                      /\ {a \in Area : Held(s, a)} = {s.phone}
                      /\ s.others = {} /\ s.phone \notin s.animals
                      /\ ~Placed /\ hint \in {Nothing, s.phone}
                   THEN {s.phone} ELSE {}}

\* Slip: a restored body is as good as a new one.
NewSinceStartAny(at) == TRUE

NewSinceStart(at) == captureAfter = Nothing \/ at > captureAfter

Earned(a, s) ==
    {r \in References(s) :
        /\ clock - r.at < Window /\ NewSinceStart(r.at)
        /\ a = Nothing \/ (r.at > a.at /\ (r.by = "body" \/ a.by = "position"))
        /\ s.near = s.phone}

\* A held counter next to a device that only radio places there.
Provisional(s) ==
    /\ hint = s.phone /\ ~Placed
    /\ Held(s, s.phone) /\ s.phone \notin s.animals \cup s.others
    /\ s.phone \in s.heard

NewAnchor(s, at, by) ==
    [at |-> at, area |-> s.phone, by |-> by, accepted |-> Nothing, acceptedArea |-> Nothing]

Captured(a, s) ==
    IF s.phone = Nothing THEN a
    ELSE IF Earned(a, s) # {}
    THEN LET r == CHOOSE r \in Earned(a, s) : TRUE IN NewAnchor(s, r.at, r.by)
    ELSE IF a = Nothing /\ Provisional(s) THEN NewAnchor(s, clock, "counter")
    ELSE a

\* room_candidates: radio alone suggests a room, that of the device or the one
\* suggested before.
Suggested(s) ==
    IF s.phone # Nothing /\ s.near \in {s.phone, hint} THEN s.near ELSE Nothing

-----------------------------------------------------------------------------
(***************************************************************************)
(* Links.  Each way to earn one yields at most one.                        *)
(***************************************************************************)

NewLink(a, s, to) ==
    [anchored |-> a.at, from |-> a.area, to |-> to, observed |-> LaterOf(At(s.last), a.at),
     clears |-> a.by # "body",
     accepted |-> IF a.acceptedArea = to THEN a.accepted ELSE Nothing,
     after |-> IF a.acceptedArea # to THEN a.accepted ELSE Nothing,
     track |-> Nothing, bodyAt |-> Nothing, frameIn |-> Nothing]

\* The receiver of the room is heard and no other room is clearly nearer.
Supports(s, to) == to \in s.heard /\ s.near \in {to, Nothing}

Current(a, s) ==
    {f \in s.frames : f.area # a.area /\ f.age < Window /\ f.area \notin s.others}

\* The frames that may be the owner: of the target followed so far, or of a
\* target that began in the room after that one had ended.
Followable(a, s, prior) ==
    IF prior = Nothing THEN Current(a, s)
    ELSE IF \E f \in Current(a, s) : f.track = prior.track
    THEN {f \in Current(a, s) : f.track = prior.track}
    ELSE {f \in Current(a, s) :
             /\ s.ended # Nothing /\ s.ended.track = prior.track
             /\ f.area = prior.to /\ f.begun <= s.ended.age
             /\ At(f.begun) - prior.bodyAt \in 0 .. Lifetime - 1}

\* A gap between frames needs somebody in the room, without a clear between.
Bridged(s, prior, to) ==
    /\ clock - prior.bodyAt < Lifetime
    /\ Held(s, to) /\ to \notin s.animals

\* A measured departure into the view of a camera.
Arrivals(a, s) ==
    {[NewLink(a, s, f.area) EXCEPT
         !.track = f.track, !.bodyAt = At(f.age), !.frameIn = f.area,
         !.accepted = Nothing, !.after = Nothing] :
        f \in {f \in Current(a, s) :
                 /\ Supports(s, f.area) /\ s.arriving /\ f.area \notin s.rivals
                 /\ ClearedAfter(s, a.area, a.at)
                 /\ DepartedWithin(s, a, Lifetime)
                 /\ At(f.begun) >= a.at}}

\* Slip: any frame of the target renews, an older one too.
RenewalsOfAny(a, s, prior) ==
    {[prior EXCEPT !.track = f.track, !.bodyAt = At(f.age), !.frameIn = f.area] :
        f \in {f \in Followable(a, s, prior) :
                 /\ Supports(s, f.area)
                 /\ f.track = prior.track \/ Bridged(s, prior, f.area)}}

\* The link keeps its room, whatever room the frame is taken in.
Renewals(a, s, prior) ==
    {[prior EXCEPT !.track = f.track, !.bodyAt = At(f.age), !.frameIn = f.area] :
        f \in {f \in Followable(a, s, prior) :
                 /\ Supports(s, f.area) /\ At(f.age) >= prior.bodyAt
                 /\ f.track = prior.track \/ Bridged(s, prior, f.area)}}

\* _visual_handoff
VisualLinks(a, s, prior) ==
    LET frames == Followable(a, s, prior)
    IN  IF Cardinality(frames) > 1 THEN {}
        ELSE IF prior = Nothing THEN Arrivals(a, s)
        ELSE IF prior.to \in s.others THEN {}
        ELSE IF frames # {} THEN Renewals(a, s, prior)
        ELSE {l \in {prior} : Bridged(s, prior, prior.to) /\ Supports(s, prior.to)}

\* Somebody anonymous: a counter that holds, a frame.
Bodies(s) ==
    {[area |-> a, at |-> At(s.counter[a].age)] : a \in {a \in Area : Held(s, a)}}
      \cup {[area |-> f.area, at |-> At(f.age)] : f \in s.frames}

Destinations(a, s) ==
    {b.area : b \in {b \in Bodies(s) :
        /\ b.area # a.area /\ clock - b.at < Window
        /\ a.accepted = Nothing \/ b.area = a.acceptedArea \/ b.at > a.accepted}}

\* _correlated_handoff: opposed radio, a clear behind and a body ahead.
Correlated(a, s) ==
    LET reached == {d \in Destinations(a, s) \ s.others :
                       /\ Supports(s, d) /\ s.phone \in {a.area, d}
                       /\ s.arriving \/ (link # Nothing /\ link.to = d /\ link.accepted # Nothing)}
    IN  IF /\ s.phone # Nothing /\ s.body = Nothing
           /\ ClearedAfter(s, a.area, a.at) /\ DepartedWithin(s, a, Window)
           /\ a.accepted = Nothing \/ clock < a.accepted + Lifetime
           /\ Cardinality(reached) = 1
        THEN {IF /\ link # Nothing /\ link.to = d /\ link.accepted # Nothing
                 /\ link.clears /\ ~IsVisual(link)
              THEN link ELSE NewLink(a, s, d) : d \in reached}
        ELSE {}

\* The body was identified: the device left its room, and radio says where to.
Transferred(a, s) ==
    IF /\ s.phone \notin {Nothing, a.area}
       /\ s.body = Nothing \/ s.body.area = s.phone
       /\ DepartedWithin(s, a, Window) /\ s.near = s.phone /\ s.arriving
    THEN {IF link # Nothing /\ link.to = s.phone /\ ~link.clears
          THEN link ELSE NewLink(a, s, s.phone)}
    ELSE {}

\* A completed arrival has a clock of its own and outlives its anchor.
Completed(s) ==
    {l \in {link} :
        /\ l # Nothing /\ ~l.clears /\ l.accepted # Nothing
        /\ clock < l.accepted + Lifetime
        /\ s.phone = l.to /\ s.body = Nothing /\ l.to \in s.heard}

\* Slip: the owner's body is identified and the chain goes on.
FollowedBlindly(a, s) ==
    IF a = Nothing \/ a.by = "body" THEN {}
    ELSE VisualLinks(a, s, IF IsVisual(link) THEN link ELSE Nothing)

\* A body of the owner ends every chain.
Followed(a, s) ==
    IF a = Nothing \/ a.by = "body" \/ s.body # Nothing THEN {}
    ELSE VisualLinks(a, s, IF IsVisual(link) THEN link ELSE Nothing)

\* A chain that breaks takes its anchor with it.
ChainBreaks(a, s) ==
    a # Nothing /\ a.by # "body" /\ IsVisual(link) /\ Followed(a, s) = {}

Confirmed(a, s) ==
    IF Completed(s) # {} THEN Completed(s)
    ELSE IF a = Nothing \/ ChainBreaks(a, s) THEN {}
    ELSE IF Followed(a, s) # {} THEN Followed(a, s)
    ELSE CASE a.by = "body" -> Transferred(a, s)
           [] a.by = "position" -> Correlated(a, s)
           [] a.by = "counter" -> {}

\* Two owners cannot be the same visual target: neither link is kept.
Unshared(links, s) == {l \in links : ~ (s.claimed /\ IsVisual(l))}

\* What the resolver needs to place the owner by the link: no better evidence,
\* clocks in order and somebody in the room.  Beyond that it may still refuse
\* (a source of the link is unavailable, the owner is not at home).
Acceptable(l, s) ==
    /\ l.anchored <= l.observed /\ l.observed <= clock
    /\ l.accepted # Nothing => l.observed <= l.accepted
    /\ clock - ClockOf(l) < Lifetime
    /\ s.body = Nothing
    /\ IF IsVisual(l)
       THEN \/ \E f \in s.frames : /\ f.track = l.track /\ f.area = l.to
                                   /\ At(f.age) = l.bodyAt /\ f.age < Window
            \/ Held(s, l.to)
       ELSE /\ s.phone = l.to \/ (l.clears /\ s.phone = l.from)
            /\ \E b \in Bodies(s) : b.area = l.to /\ (l.after # Nothing => b.at > l.after)

-----------------------------------------------------------------------------
(***************************************************************************)
(* The actions.                                                            *)
(***************************************************************************)

Init ==
    /\ clock = 0 /\ captureAfter = Nothing /\ evaluated = 0
    /\ anchor = Nothing /\ link = Nothing /\ hint = Nothing
    /\ seen = Nothing /\ carried = FALSE /\ spent = Nothing

\* accept: an arrival the resolver places is latched, once; a completed one
\* it no longer places is dropped.
Accept(a, l, supported) ==
    /\ link' = IF l = Nothing THEN Nothing
               ELSE IF supported /\ l.accepted = Nothing THEN [l EXCEPT !.accepted = clock]
               ELSE IF ~supported /\ l.accepted # Nothing THEN Nothing
               ELSE l
    /\ anchor' = IF supported /\ l.accepted = Nothing /\ a # Nothing /\ a.at = l.anchored
                 THEN [a EXCEPT !.accepted = clock, !.acceptedArea = l.to]
                 ELSE a

\* _resolve_snapshot, as far as the association is concerned.
Resolve(s) ==
    /\ Possible(s)
    /\ LET a == Captured(Pruned(s), s)
           links == Unshared(Confirmed(a, s), s)
           l == IF links = {} THEN Nothing ELSE CHOOSE l \in links : TRUE
       IN  \E supported \in BOOLEAN :
              /\ supported => l # Nothing /\ Acceptable(l, s)
              /\ Accept(IF ChainBreaks(a, s) THEN Nothing ELSE a, l, supported)
              /\ carried' = supported
    /\ hint' = Suggested(s)
    /\ seen' = IF s.body = Nothing THEN Nothing ELSE s.body.area
    /\ evaluated' = clock
    /\ spent' = IF anchor = Nothing \/ anchor' = Nothing \/ anchor'.at # anchor.at THEN Nothing
                ELSE IF IsVisual(link) /\ ~IsVisual(link') THEN link.track
                ELSE spent
    /\ UNCHANGED <<clock, captureAfter>>

Tick ==
    /\ clock < MaxClock
    /\ clock' = clock + 1
    /\ UNCHANGED <<captureAfter, anchor, link, hint, seen, carried, evaluated, spent>>

\* restore_state: the evidence comes back, the associations do not.
Restart ==
    /\ captureAfter' = clock /\ evaluated' = clock
    /\ anchor' = Nothing /\ link' = Nothing /\ hint' = Nothing
    /\ seen' = Nothing /\ carried' = FALSE /\ spent' = Nothing
    /\ UNCHANGED clock

\* Slip: only anchors and arrivals wake the runtime.
DeadlinesOfArrivals ==
    {anchor.at + Lifetime : x \in {anchor} \ {Nothing}}
      \cup {l.accepted + Lifetime : l \in {l \in {link} \ {Nothing} : l.accepted # Nothing}}

\* next_expiration; the deadlines of room hints are left out.
Deadlines ==
    {anchor.at + Lifetime : x \in {anchor} \ {Nothing}}
      \cup {l.accepted + Lifetime : l \in {l \in {link} \ {Nothing} : l.accepted # Nothing}}
      \cup UNION {{l.bodyAt + Window, l.bodyAt + Lifetime} : l \in {l \in {link} : IsVisual(l)}}

Next == Tick \/ Restart \/ \E s \in Scenes : Resolve(s)

Spec == Init /\ [][Next]_vars

-----------------------------------------------------------------------------
(***************************************************************************)
(* Properties.                                                             *)
(***************************************************************************)

\* The associations are well formed (association.py, _Anchor, DeviceHandoff).
TypeOK ==
    /\ clock \in Instant /\ evaluated \in Instant
    /\ captureAfter \in Instant \cup {Nothing}
    /\ anchor \in Anchor \cup {Nothing}
    /\ link \in Link \cup {Nothing}
    /\ hint \in Area \cup {Nothing} /\ seen \in Area \cup {Nothing}
    /\ carried \in BOOLEAN /\ spent \in Track \cup {Nothing}

\* Every association dies of age: a visual one a lifetime after its last frame,
\* whatever counters and radio say since; any other a lifetime after its
\* arrival, and the arrival comes within a lifetime of the body
\* (docs/evidence-policy.md, docs/configuration.md; update, _visual_handoff).
LinksEnd ==
    link # Nothing =>
        /\ evaluated - ClockOf(link) < Lifetime
        /\ ~IsVisual(link) /\ link.accepted # Nothing =>
              link.accepted - link.anchored < Lifetime

\* After a restart a device must meet a body anew: no saved body, signal or
\* photograph, however recent, makes an anchor (capture_after).
AnchorsAreNew ==
    captureAfter # Nothing =>
        /\ anchor # Nothing => anchor.at > captureAfter
        /\ link # Nothing => link.anchored > captureAfter

\* An identified body of the owner ends every association that claims another
\* room, follows a visitor or rests on somebody anonymous (update).
BodiesDecide ==
    seen # Nothing /\ link # Nothing =>
        link.to = seen /\ ~link.clears /\ link.accepted = Nothing

\* While its anchor stands, the clock of a chain of frames goes forward only and
\* never over a gap of a lifetime, and an arrival that was latched keeps its
\* deadline (_visual_handoff, accept).  A chain the resolver does not place may
\* see its anchor replaced; the gap then counts from the new anchor.
ClocksAreEarned ==
    [][(/\ link # Nothing /\ link' # Nothing /\ link'.anchored = link.anchored
        /\ anchor' # Nothing /\ anchor'.at = link.anchored) =>
        /\ IsVisual(link) /\ IsVisual(link') =>
              link'.bodyAt - link.bodyAt \in 0 .. Lifetime - 1
        /\ ~IsVisual(link') /\ link.accepted # Nothing /\ link'.to = link.to =>
              link'.accepted = link.accepted]_vars

\* No association outlives its end for want of a wake-up (next_expiration).
EndsAreArmed ==
    link # Nothing =>
        \E d \in Deadlines : evaluated < d /\ d <= ClockOf(link) + Lifetime

\* "A broken body chain must not reattach to a later visitor by recycling the
\* same historical phone departure" (association.py:254).
DeparturesAreSpentOnce == IsVisual(link) => spent \in {Nothing, link.track}

\* The room an association names is the one its last frame was taken in
\* (docs/evidence-policy.md: only the continuous physical destination keeps
\* the point, 90 seconds from the last frame).
FramesAreInTheRoom == IsVisual(link) => link.frameIn = link.to

=============================================================================
