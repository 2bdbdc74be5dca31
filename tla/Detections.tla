----------------------------- MODULE Detections -----------------------------
(***************************************************************************)
(* Camera detections: the part of PresenceRuntime (runtime.py) that turns  *)
(* Frigate events and recognised faces into numbered detections.           *)
(*                                                                         *)
(* A detection is the event record and the face record that share an       *)
(* event id.  Events are gated by the availability of their camera and,    *)
(* at a strict camera, by the zone they are in; the last envelope of every *)
(* event is cached and replayed when the PTZ history of a camera changes.  *)
(*                                                                         *)
(* Left out: coverage and the revision of the snapshot (module Expiry),    *)
(* how a PTZ history yields a context (module CameraContext), the limit of *)
(* the store (module EvidenceStore), the area of a photograph, and the     *)
(* diagnostics of an event, which change with its image.                   *)
(***************************************************************************)
EXTENDS Integers, Sequences, FiniteSets

CONSTANTS
    MaxEvent,      \* the events are 1 .. MaxEvent, in the order of their ids
    Camera,        \* the configured cameras
    CameraOf,      \* CameraOf[e]: the camera that saw event e
    Strict,        \* the cameras whose admission_mode is mapped_current_zone
    Turning,       \* the cameras with context entities (PTZ)
    HealthEntity,  \* availability entities: pairs <<camera, number>>
    Zone,          \* the zones of zone_to_area, one area each
    Profile,       \* the areas of profile_to_area
    Envelope,      \* the event messages Frigate may send
    Identity,      \* the names the recogniser may return
    Missing,       \* no record
    NoImage,       \* no image
    MaxFrame,      \* bound of the model on frame times
    MaxInstant,    \* bound of the model on the times events end
    MaxEnvelopes,  \* max_event_envelopes
    MaxRevision    \* bound of the model on the revision of a detection

Event == 1 .. MaxEvent
Frame == 1 .. MaxFrame
NoZone == "no zone"
NotReported == "not reported"

ASSUME CameraAssumption ==
    /\ CameraOf \in [Event -> Camera]
    /\ Strict \subseteq Camera
    /\ Turning \subseteq Camera
    /\ \A h \in HealthEntity : h[1] \in Camera

ASSUME NameAssumption ==
    /\ NoZone \notin Zone
    /\ {NotReported, "moving"} \cap Profile = {}

ASSUME BoundAssumption ==
    /\ MaxEvent \in Nat /\ MaxFrame \in Nat /\ MaxInstant \in Nat
    /\ MaxEnvelopes \in Nat \ {0}
    /\ MaxRevision \in Nat

VARIABLES
    event,        \* the frigate_event record of every event in the store
    face,         \* the frigate_face record of every event in the store
    health,       \* _states of the camera availability adapters
    unavailable,  \* _unavailable_cameras
    envelopes,    \* _event_envelopes, the least recently used first
    context,      \* the PTZ history: what was reported of a camera, and when
    revisions,    \* _detection_revisions, 0 when there is none
    previews,     \* _latest_images under the keys event:<id>
    photos,       \* _latest_images under the names of identities
    published,    \* the revision last published of every event (history)
    forgotten     \* events lost with their camera, unseen since (history)

store == <<event, face>>
images == <<previews, photos>>
vars == <<event, face, health, unavailable, envelopes, context, revisions,
          previews, photos, published, forgotten>>

-----------------------------------------------------------------------------
(***************************************************************************)
(* Envelopes and the observations the adapters make of them.               *)
(***************************************************************************)

\* end is 0 while the event goes on; snapshot tells whether one is kept.
EnvelopeType ==
    [event : Event, frame : Frame, end : 0 .. MaxInstant,
     zone : Zone \cup {NoZone}, snapshot : BOOLEAN, valid : BOOLEAN]

ASSUME EnvelopeAssumption ==
    /\ Envelope \subseteq EnvelopeType
    /\ \A m \in Envelope : m.end # 0 => m.frame <= m.end

\* _sequence(instant): microseconds leave room for the increments of a replay.
Sequence(frame) == frame * (MaxRevision + 1)

\* TemporalCameraRegistry.at: the last report that is not after the frame.
ContextAt(history, frame) ==
    LET known == {f \in 1 .. frame : history[f] # NotReported}
    IN  IF known = {} THEN NotReported
        ELSE history[CHOOSE f \in known : \A g \in known : g <= f]

\* resolve_camera_location: zones count only while the camera stands still.
Method(camera, zone, reported) ==
    IF camera \in Turning /\ reported \in {NotReported, "moving"} THEN "unknown"
    ELSE IF zone # NoZone THEN "zone"
    ELSE IF camera \in Turning THEN "profile" ELSE "camera"

Location(m, history) ==
    LET reported == ContextAt(history, m.frame)
        method   == Method(CameraOf[m.event], m.zone, reported)
    IN  [frame |-> m.frame, method |-> method,
         area  |-> CASE method = "zone"    -> m.zone
                     [] method = "profile" -> reported
                     [] OTHER              -> NoZone]

Admitted(m, history) ==
    CameraOf[m.event] \in Strict => Location(m, history).method = "zone"

Active == [status |-> "active", at |-> 0]
Ended(at) == [status |-> "ended", at |-> at]

Image(m) ==
    [of |-> m.event, frame |-> m.frame,
     media |-> IF m.end = 0 THEN "temporary"
               ELSE IF m.snapshot THEN "retained" ELSE "unavailable"]

\* The count of an event is stamped and ends with its lifecycle.
Observation(m, history) ==
    [claim |-> [location  |-> Location(m, history),
                lifecycle |-> IF m.end = 0 THEN Active ELSE Ended(m.end),
                image     |-> Image(m)],
     stamp |-> [location  |-> Sequence(m.frame),
                lifecycle |-> Sequence(IF m.end = 0 THEN m.frame ELSE m.end),
                image     |-> Sequence(IF m.end = 0 THEN m.frame ELSE m.end)]]

-----------------------------------------------------------------------------
(***************************************************************************)
(* EvidenceStore.upsert, on the dimensions an observation carries.         *)
(***************************************************************************)

\* Slip: any other stamp counts as newer.
NewerOnAny(d, s, t) == s # t \/ d = "image"

\* Media are stamped with their arrival too: a later one wins at one frame.
NewerOn(d, s, t) == s > t \/ (d = "image" /\ s = t)

Newer(record, o) ==
    {d \in DOMAIN o.stamp : NewerOn(d, o.stamp[d], record.stamp[d])}

Merge(record, o) ==
    LET newer    == Newer(record, o)
        accepted == {d \in newer : o.claim[d] # record.claim[d]}
    IN  IF accepted = {} THEN record
        ELSE [claim |-> [d \in DOMAIN record.claim |->
                            IF d \in accepted THEN o.claim[d] ELSE record.claim[d]],
              stamp |-> [d \in DOMAIN record.stamp |->
                            IF d \in newer THEN o.stamp[d] ELSE record.stamp[d]]]

Upsert(record, o) == IF record = Missing THEN o ELSE Merge(record, o)

IsActive(record) == record # Missing /\ record.claim.lifecycle.status = "active"

\* _end_observation: evidence that leaves the zones of a strict camera ends
\* on arrival (0: no frame), stamped just after what it ends.
EndObservation(record) ==
    IF IsActive(record)
    THEN Merge(record, [claim |-> [lifecycle |-> Ended(0)],
                        stamp |-> [lifecycle |-> record.stamp.lifecycle + 1]])
    ELSE record

Received(m, record, history) ==
    IF Admitted(m, history) THEN Upsert(record, Observation(m, history))
                            ELSE EndObservation(record)

\* Slip: a replay repeats the whole observation under a new stamp.
ReplayedWhole(m, record, history) ==
    IF ~ m.valid THEN record
    ELSE IF ~ Admitted(m, history) THEN EndObservation(record)
    ELSE LET o == Observation(m, history)
         IN  IF record = Missing THEN o
             ELSE Merge(record, [o EXCEPT !.stamp =
                     [d \in DOMAIN o.stamp |-> record.stamp[d] + 1]])

\* Slip: a replayed location keeps the stamp of its frame.
ReplayedUnstamped(m, record, history) ==
    IF ~ m.valid THEN record ELSE Received(m, record, history)

\* A replay revises the location of a stored event and nothing else, but a
\* record that is gone is made anew from the envelope.
Replayed(m, record, history) ==
    IF ~ m.valid THEN record
    ELSE IF ~ Admitted(m, history) THEN EndObservation(record)
    ELSE IF record = Missing THEN Observation(m, history)
    ELSE Merge(record, [claim |-> [location |-> Location(m, history)],
                        stamp |-> [location |-> record.stamp.location + 1]])

-----------------------------------------------------------------------------
(***************************************************************************)
(* From records to numbered detections and their images.                   *)
(***************************************************************************)

Held(e) == event[e] # Missing \/ face[e] # Missing

\* resolve_detection: ended only when every item is, pending without a name
\* or a place.  A face is never ended, so an end is always unidentified.
Status(record, f) ==
    IF f = Missing /\ ~ IsActive(record) THEN "ended_unidentified"
    ELSE IF \/ f = Missing
            \/ record = Missing
            \/ record.claim.location.method = "unknown"
         THEN "pending" ELSE "resolved"

HasEnded(status) == status = "ended_unidentified"

\* _remember_image, for the preview of a detection.
Preview(old, record, f) ==
    IF HasEnded(Status(record, f)) THEN NoImage
    ELSE IF record = Missing THEN old
    ELSE IF record.claim.image.media = "unavailable" THEN old
    ELSE record.claim.image

\* _remember_image, for the photograph of the identity it shows.
Photo(old, image) ==
    IF image.media = "unavailable"
    THEN IF old # NoImage /\ old.of = image.of THEN NoImage ELSE old
    ELSE IF \/ old = NoImage
            \/ /\ image.media # "temporary"
               /\ image.frame > old.frame \/ old.of = image.of
         THEN image ELSE old

\* The photographs after the changed detections, taken in order of their ids.
PhotosAfter(changed) ==
    LET after[e \in 0 .. MaxEvent] ==
            IF e = 0 THEN photos
            ELSE IF e \in changed /\ event'[e] # Missing /\ face'[e] # Missing
                 THEN [after[e - 1] EXCEPT ![face'[e].name] =
                          Photo(@, event'[e].claim.image)]
                 ELSE after[e - 1]
    IN  after[MaxEvent]

\* Every changed detection gets the next revision; the revisions of events
\* that left the store are dropped, but only when some detection changed.
Number(changed) ==
    revisions' = [e \in Event |->
        IF changed # {} /\ ~ Held(e)' THEN 0
        ELSE IF e \in changed THEN revisions[e] + 1 ELSE revisions[e]]

\* The end of PresenceRuntime.process, and the listeners of its result.
Publish(changed) ==
    /\ \A e \in changed : revisions[e] < MaxRevision
    /\ Number(changed)
    /\ published' = [e \in Event |->
          IF e \in changed THEN revisions[e] + 1 ELSE published[e]]
    /\ previews' = [e \in Event |->
          IF e \in changed THEN Preview(previews[e], event'[e], face'[e]) ELSE previews[e]]
    /\ photos' = PhotosAfter(changed)

\* The detections whose evidence an upsert changed.
Changed == {e \in Event : event'[e] # event[e] \/ face'[e] # face[e]}

\* What is left of a cache s, in its order, up to every position of it, when
\* only the envelopes of the events S stay.  (Not SelectSeq, of which the
\* provers know nothing.)
Left(s, S) ==
    LET kept[i \in 0 .. Len(s)] ==
            IF i = 0 THEN << >>
            ELSE IF s[i].event \in S THEN Append(kept[i - 1], s[i]) ELSE kept[i - 1]
    IN  kept

Keeping(s, S) == Left(s, S)[Len(s)]

\* _remember_event_envelope: the newest arrival, whatever its frame.
Remember(m) ==
    LET longer == Append(Keeping(envelopes, Event \ {m.event}), m)
    IN  envelopes' = IF Len(longer) > MaxEnvelopes THEN Tail(longer) ELSE longer

-----------------------------------------------------------------------------
(***************************************************************************)
(* The handlers.                                                           *)
(***************************************************************************)

GuardedCameras == {h[1] : h \in HealthEntity}

\* async_setup seeds every entity before it subscribes to any topic.
Listening == \A h \in HealthEntity : health[h] # NotReported

Init ==
    /\ event = [e \in Event |-> Missing]
    /\ face = [e \in Event |-> Missing]
    /\ health = [h \in HealthEntity |-> NotReported]
    /\ unavailable = GuardedCameras
    /\ envelopes = << >>
    /\ context = [c \in Turning |-> [f \in Frame |-> NotReported]]
    /\ revisions = [e \in Event |-> 0]
    /\ previews = [e \in Event |-> NoImage]
    /\ photos = [n \in Identity |-> NoImage]
    /\ published = [e \in Event |-> 0]
    /\ forgotten = {}

\* The history of the camera that saw the event (none for a fixed camera).
HistoryOf(reports, e) ==
    IF CameraOf[e] \in Turning THEN reports[CameraOf[e]]
                               ELSE [f \in Frame |-> NotReported]

\* The envelopes of an unavailable camera are neither parsed nor cached.
Hears(e) == Listening /\ CameraOf[e] \notin unavailable

EventMessage(m) ==
    /\ m.valid
    /\ Hears(m.event)
    /\ event' = [event EXCEPT ![m.event] = Received(m, @, HistoryOf(context, m.event))]
    /\ UNCHANGED <<face, health, unavailable, context>>
    /\ Remember(m)
    /\ forgotten' = forgotten \ {m.event}
    /\ Publish(Changed)

\* A payload the adapter cannot parse withdraws the evidence of its source.
MalformedEvent(m) ==
    /\ ~ m.valid
    /\ Hears(m.event)
    /\ event' = [e \in Event |-> Missing]
    /\ Remember(m)
    /\ forgotten' = forgotten \ {m.event}
    /\ UNCHANGED <<face, health, unavailable, context, revisions, images, published>>

\* A recognised face; at a strict camera only if its event is in the store.
FaceMessage(e, name, frame) ==
    /\ Hears(e)
    /\ CameraOf[e] \in Strict => event[e] # Missing
    /\ face' = [face EXCEPT ![e] =
          IF @ = Missing THEN [name |-> name, frame |-> frame]
          ELSE IF frame > @.frame THEN [name |-> name, frame |-> frame] ELSE @]
    /\ UNCHANGED <<event, health, unavailable, envelopes, context>>
    /\ forgotten' = forgotten \ {e}
    /\ Publish(Changed)

\* Slip: the change is made but the detections of the replay are forgotten.
ContextReportUnnumbered(camera, frame, reported) ==
    /\ Listening
    /\ context' = [context EXCEPT ![camera][frame] = reported]
    /\ UNCHANGED <<face, health, unavailable, envelopes, forgotten>>
    /\ event' = [e \in Event |->
          IF \E i \in DOMAIN envelopes : envelopes[i].event = e
          THEN LET m == envelopes[CHOOSE i \in DOMAIN envelopes : envelopes[i].event = e]
               IN  Replayed(m, event[e], HistoryOf(context', e))
          ELSE event[e]]
    /\ UNCHANGED <<revisions, images, published>>

\* A PTZ report, however late, replays the cached envelopes of all cameras.
ContextReport(camera, frame, reported) ==
    /\ Listening
    /\ context' = [context EXCEPT ![camera][frame] = reported]
    /\ UNCHANGED <<face, health, unavailable, envelopes, forgotten>>
    /\ event' = [e \in Event |->
          IF \E i \in DOMAIN envelopes : envelopes[i].event = e
          THEN LET m == envelopes[CHOOSE i \in DOMAIN envelopes : envelopes[i].event = e]
               IN  Replayed(m, event[e], HistoryOf(context', e))
          ELSE event[e]]
    /\ Publish(Changed)

Seen(camera) == {e \in Event : CameraOf[e] = camera}

CameraUp(camera) ==
    /\ unavailable' = unavailable \ {camera}
    /\ UNCHANGED <<event, face, envelopes, forgotten>>

\* Slip: the cache survives the outage.
CameraDownKeepingCache(camera) ==
    /\ unavailable' = unavailable \cup {camera}
    /\ event' = [e \in Event |-> IF e \in Seen(camera) THEN Missing ELSE event[e]]
    /\ face' = [e \in Event |-> IF e \in Seen(camera) THEN Missing ELSE face[e]]
    /\ forgotten' = forgotten \cup Seen(camera)
    /\ UNCHANGED envelopes

\* The evidence of the camera and its cached envelopes are withdrawn.
CameraDown(camera) ==
    /\ unavailable' = unavailable \cup {camera}
    /\ event' = [e \in Event |-> IF e \in Seen(camera) THEN Missing ELSE event[e]]
    /\ face' = [e \in Event |-> IF e \in Seen(camera) THEN Missing ELSE face[e]]
    /\ forgotten' = forgotten \cup Seen(camera)
    /\ envelopes' = Keeping(envelopes, Event \ Seen(camera))

\* A camera is available when every one of its entities is known to be up.
HealthReport(h, state) ==
    /\ state # health[h]
    /\ health' = [health EXCEPT ![h] = state]
    /\ IF \A g \in HealthEntity : g[1] = h[1] => health'[g] = "up"
       THEN CameraUp(h[1]) ELSE CameraDown(h[1])
    /\ UNCHANGED <<context, revisions, images, published>>

(***************************************************************************)
(* Shutdown saves, setup restores.  A crash loses what came after the last *)
(* save: it is a behaviour in which that had not yet come.                 *)
(***************************************************************************)
Restart ==
    /\ Listening
    /\ event' = [e \in Event |->
          IF /\ CameraOf[e] \in Strict
             /\ event[e] # Missing
             /\ event[e].claim.location.method # "zone"
          THEN Missing ELSE event[e]]
    /\ face' = [e \in Event |->
          IF CameraOf[e] \in Strict /\ event'[e] = Missing THEN Missing ELSE face[e]]
    /\ health' = [h \in HealthEntity |-> NotReported]
    /\ unavailable' = unavailable \cup GuardedCameras
    /\ envelopes' = << >>
    /\ revisions' = [e \in Event |-> IF Held(e)' THEN revisions[e] ELSE 0]
    /\ UNCHANGED <<context, images, published, forgotten>>

Next ==
    \/ \E m \in Envelope : EventMessage(m) \/ MalformedEvent(m)
    \/ \E e \in Event, name \in Identity, frame \in Frame : FaceMessage(e, name, frame)
    \/ \E camera \in Turning, frame \in Frame, reported \in Profile \cup {"moving"} :
          ContextReport(camera, frame, reported)
    \/ \E h \in HealthEntity, state \in {"up", "down"} : HealthReport(h, state)
    \/ Restart

Spec == Init /\ [][Next]_vars

-----------------------------------------------------------------------------
(***************************************************************************)
(* Properties.                                                             *)
(***************************************************************************)

ImageType == [of : Event, frame : Frame,
              media : {"temporary", "retained", "unavailable"}]

RecordType ==
    [claim : [location  : [frame  : Frame,
                           method : {"zone", "profile", "camera", "unknown"},
                           area   : Zone \cup Profile \cup {NoZone}],
              lifecycle : [status : {"active", "ended"}, at : 0 .. MaxInstant],
              image     : ImageType],
     stamp : [location : Nat, lifecycle : Nat, image : Nat]]

\* The state has the shape of the runtime's caches; the cache of envelopes
\* keeps to its limit and holds one envelope per event.
TypeOK ==
    /\ \A e \in Event : event[e] = Missing \/ event[e] \in RecordType
    /\ \A e \in Event : face[e] = Missing \/ face[e] \in [name : Identity, frame : Frame]
    /\ health \in [HealthEntity -> {NotReported, "up", "down"}]
    /\ unavailable \subseteq GuardedCameras
    /\ Len(envelopes) <= MaxEnvelopes
    /\ \A i, j \in DOMAIN envelopes :
          envelopes[i].event = envelopes[j].event => i = j
    /\ context \in [Turning -> [Frame -> Profile \cup {"moving", NotReported}]]
    /\ revisions \in [Event -> 0 .. MaxRevision]
    /\ \A e \in Event : previews[e] = NoImage \/ previews[e] \in ImageType
    /\ \A n \in Identity : photos[n] = NoImage \/ photos[n] \in ImageType
    /\ forgotten \subseteq Event

\* "Recovery permits only newly received evidence; stale events are not
\* replayed as current" (docs/contract.md): an event that was lost with its
\* camera stays away until a new message about it arrives, whatever PTZ
\* reports, outages and restarts come first.
RecoveryNeedsNewEvidence == \A e \in forgotten : ~ Held(e)

\* Every detection in the store has a revision of its own: whatever path
\* created its evidence (message, replay, restart) also numbered it, so a
\* later change is not announced as its start.
EveryDetectionIsNumbered == \A e \in Event : Held(e) => revisions[e] > 0

\* Once a PTZ report has been handled, the location of every cached event is
\* the one its cached frame has under the present history, or it has ended.
LateContextReachesCachedEvents ==
    [][context' # context =>
          \A i \in DOMAIN envelopes' :
             LET m == envelopes'[i]
             IN  (m.valid /\ IsActive(event'[m.event])) =>
                    event'[m.event].claim.location = Location(m, HistoryOf(context', m.event))]_vars

\* An ended event becomes active again only by a message about a frame later
\* than its end: no replay, duplicate or late message revives it.
RevivalNeedsANewerFrame ==
    [][\A e \in Event :
          (event[e] # Missing /\ ~ IsActive(event[e]) /\ IsActive(event'[e])) =>
             /\ envelopes' # << >>
             /\ envelopes'[Len(envelopes')].event = e
             /\ Sequence(envelopes'[Len(envelopes')].frame)
                   > event[e].stamp.lifecycle]_vars

\* An older location takes the place of a newer one.
GoesBack(e) ==
    /\ event[e] # Missing /\ event'[e] # Missing
    /\ event'[e].claim.location.frame < event[e].claim.location.frame

Replays ==
    \E camera \in Turning, frame \in Frame, reported \in Profile \cup {"moving"} :
        ContextReport(camera, frame, reported)

\* A location that is stamped before its own frame: a replay put it there,
\* behind the stamp of what it replaced.
StampedEarly(e) ==
    event[e].stamp.location < Sequence(event[e].claim.location.frame)

\* Messages that arrive late, twice or after a restart never put an older
\* location over a newer one (tests/test_store.py:107).  A PTZ report may: the
\* cache keeps the envelope that arrived last, whatever its frame, and the
\* replay stamps its location later than the stored one.  So may a message
\* behind such a replay, but only at a strict PTZ camera, where a replay may
\* admit a frame that was refused when it came and is newer than the stamp.
OnlyReplaysGoBack ==
    [][\A e \in Event :
          GoesBack(e) => \/ Replays
                         \/ CameraOf[e] \in Strict \cap Turning /\ StampedEarly(e)]_vars

\* The preview of a detection ends with it, whatever ended it (a message, a
\* zone it left, a replay) and whatever pictures, faces, failures and restarts
\* came between (runtime.py, _remember_image).
PreviewsEndWithTheDetection ==
    \A e \in Event :
        Held(e) /\ HasEnded(Status(event[e], face[e])) => previews[e] = NoImage

\* A preview of an event that goes on never takes the place of a photograph
\* of the same person ("A temporary preview must not replace a previous
\* historical photo", runtime.py).
PreviewsKeepPhotographs ==
    [][\A n \in Identity :
          /\ photos[n] # NoImage
          /\ photos'[n] # NoImage
          /\ photos'[n] # photos[n]
          => photos'[n].media = "retained"]_vars

-----------------------------------------------------------------------------
(***************************************************************************)
(* What documents, comments and tests say and the code does not do.  No    *)
(* run checks these three; README, section 6.                              *)
(***************************************************************************)

\* "Its monotonically increasing revision" (docs/contract.md).
RevisionsIncrease ==
    [][\A e \in Event :
          published'[e] # published[e] =>
             published'[e] > published[e]]_vars

\* "test_older_location_revision_is_rejected" (tests/test_store.py:107), for
\* the messages of a camera whatever was replayed before.
MessagesNeverGoBack == [][\A e \in Event : GoesBack(e) => Replays]_vars

\* "Cuando alguno deja de estar disponible, el motor retira..."
\* (docs/configuration.md): a health report withdraws evidence only if an
\* entity of that camera is down.
OnlyFailuresWithdraw ==
    [][\A e \in Event :
          (health' # health /\ Held(e) /\ ~ Held(e)') =>
             \E h \in HealthEntity : h[1] = CameraOf[e] /\ health'[h] = "down"]_vars
=============================================================================
