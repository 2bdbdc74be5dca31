-------------------------- MODULE MCEvidenceStore --------------------------
(***************************************************************************)
(* A small instance of EvidenceStore: a counting source (a camera or a     *)
(* counter) with two records and a device tracker with one.                *)
(***************************************************************************)
EXTENDS EvidenceStore

MCSource == {"camera", "tracker"}
E1 == <<"camera", "e1">>
E2 == <<"camera", "e2">>
T1 == <<"tracker", "t1">>
MCDimension == {"location", "count", "lifecycle"}
MCValue == [location  |-> {"none", "hall", "room"},
            count     |-> {"none", "zero", "one"},
            lifecycle |-> {"active", "ended"}]
MCTime == 1 .. 3
MCSequence == 0 .. 3

Claim(location, count, lifecycle) ==
    [location |-> location, count |-> count, lifecycle |-> lifecycle]

\* An envelope about instant t, all clocks at t, stamps given.
Envelope(k, t, claim, revisions) ==
    [key |-> k, received |-> t, claim |-> claim,
     clock |-> [d \in MCDimension |-> t], revisions |-> revisions]

At(t) == [seq |-> t, at |-> t]

Shared(mask, t) == [d \in mask |-> At(t)]

\* One stamp for all dimensions (entity, MTR and tracked Frigate envelopes).
Tracked(k, t) == {Envelope(k, t, Claim(l, "one", "active"), Shared(MCDimension, t)) :
                     l \in {"hall", "room"}}
Clear(k, t) == {Envelope(k, t, Claim("hall", "zero", "ended"), Shared(MCDimension, t))}

\* The end of a Frigate event: the lifecycle is stamped with the end time.
Finished(k, t) == {Envelope(k, t, Claim("hall", "one", "ended"),
                            [Shared(MCDimension, t) EXCEPT !["lifecycle"] = At(t + 1)]) :
                      x \in IF t < 3 THEN {1} ELSE {}}

\* A replayed location, and an admission that ends (_end_observation).
Replayed(k, t) == {Envelope(k, t, Claim("room", "one", "active"), Shared({"location"}, t))}
Left(k, t) == {Envelope(k, t, Claim("hall", "zero", "ended"),
                        Shared({"count", "lifecycle"}, t))}

\* A tracker claims no count; its location is cleared explicitly.
Device(t) == {Envelope(T1, t, Claim("none", "none", s), Shared({"location", "lifecycle"}, t)) :
                 s \in {"active", "ended"}}

\* Envelopes without stamps.
Bare(k, t) == {Envelope(k, t, Claim(l, "one", "active"), << >>) :
                       l \in {"none", "hall"}}

\* Everything the adapters send about one event; another event and a device
\* compete with it for the room of two.
MCKey == {E1, E2, T1}
MCCounted == {E1, E2}
MCObservations ==
    UNION {Tracked(E1, t) \cup Clear(E1, t) \cup Finished(E1, t) \cup Replayed(E1, t)
             \cup Left(E1, t) \cup Bare(E1, t) : t \in MCTime}
    \cup Device(2) \cup {o \in Tracked(E2, 1) \cup Tracked(E2, 3) : o.claim["location"] = "hall"}
=============================================================================
