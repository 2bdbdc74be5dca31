--------------------------- MODULE MCDetections ---------------------------
(***************************************************************************)
(* Messages of Frigate about an event of a strict PTZ camera and one of a  *)
(* fixed camera that takes any detection, of one person.                   *)
(***************************************************************************)
EXTENDS Detections

Message(e, f, end, zone, kept) ==
    [event |-> e, frame |-> f, end |-> end, zone |-> zone, snapshot |-> kept,
     valid |-> TRUE]

Malformed(e) == [Message(e, 1, 0, NoZone, TRUE) EXCEPT !.valid = FALSE]

MCCameraOf == <<"yard", "hall">>
MCHealthEntity == {<<"yard", 1>>}
MCTwoHealthEntity == {<<"yard", 1>>, <<"yard", 2>>}

\* The first event enters and leaves the zone, and may end in it, with its last
\* frame or before it; the second ends without a snapshot.
MCEnvelope ==
    {Message(1, f, 0, z, TRUE) : f \in Frame, z \in {"porch", NoZone}}
        \cup {Malformed(1)}
        \cup {Message(1, 2, 2, "porch", TRUE), Message(1, 1, 1, "porch", TRUE),
              Message(2, 1, 0, NoZone, TRUE), Message(2, 1, 1, NoZone, FALSE)}

\* What the handlers read.  They write previews, photos and published and never
\* read them, nor do the properties of the run.
Evidence ==
    <<event, face, health, unavailable, envelopes, context, revisions, forgotten>>
=============================================================================
