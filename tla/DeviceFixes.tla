---------------------------- MODULE DeviceFixes ----------------------------
(***************************************************************************)
(* What one personal device tells by a tracker of Home Assistant, as a     *)
(* Wi-Fi client or as a GPS position: EntityStateAdapter._wifi_tracker and *)
(* _gps_tracker (adapters/entity.py) with the record the store keeps of    *)
(* it, through repeated states, failures, outages, restarts and changes of *)
(* the configuration.                                                      *)
(*                                                                         *)
(* A tracker rewrites its state for many reasons; each time last_updated   *)
(* is new.  A fix is dated by its provider, or by the update that told it  *)
(* first; the adapters therefore ignore what they know already.  A spot is *)
(* an access point, or a position with its accuracy and zone.              *)
(***************************************************************************)
EXTENDS Integers

CONSTANTS
    Spot,      \* access points, or positions
    Nowhere,   \* no access point, or no position
    Binding,   \* what the configuration binds the source to
    NoRecord,  \* the store has no record of the source
    MaxNow     \* bound of the model on the clock

ASSUME SpotAssumption == Nowhere \notin Spot /\ Binding # {}
ASSUME NowAssumption == MaxNow \in Nat \ {0}

\* A GPS source is dated by HA, or by an attribute of its provider.
Adapter == {"wifi", "gps", "gps_provider"}

\* A tracker tells a fix (for Wi-Fi: home), that the device is away, nothing
\* (unknown, unavailable), something the adapter does not support (a label,
\* another type of tracker), something it cannot read, or it is removed.
Failure == {"unknown", "unavailable", "unsupported", "unreadable", "removed"}
Shown == {"fix", "away"} \cup Failure

Instant == 0 .. MaxNow

Tracker == [shows : Shown, spot : Spot \cup {Nowhere}, updated : Instant, measured : Instant]

FixRecord == [binding : Binding,
              status : {"active", "ended", "unknown"},
              spot   : Spot \cup {Nowhere},
              told   : Shown,    \* source_diagnostics of a Wi-Fi record
              stamp  : Instant,  \* its revision: last_updated, or the GPS clock
              since  : Instant]  \* network_attachment_observed_at, or the GPS clock

ASSUME RecordAssumption == NoRecord \notin FixRecord

VARIABLES
    adapter,  \* the type of the source
    now,      \* the clock; at every instant the tracker tells one thing
    tracker,  \* the state Home Assistant has of the tracker
    origin,   \* the original clock of the fix it tells; not in the code
    binding,  \* the configuration of the running entry
    running,  \* the entry is set up
    record,   \* the record of the source in the store, and so the memory
    savedRecord  \* the record as it was last saved

fixVars == <<adapter, now, tracker, origin, binding, running, record, savedRecord>>

-----------------------------------------------------------------------------
(***************************************************************************)
(* The adapters.                                                           *)
(***************************************************************************)

Known(m) == m # NoRecord

\* restore_wifi_observation and restore_gps_observation: what the adapter
\* remembers is the record of the store, if it is of the present binding.
Remembered(r, b) == IF Known(r) /\ r.binding = b THEN r ELSE NoRecord

WifiStatus(s) ==
    CASE s.shows = "fix"  -> "active"
      [] s.shows = "away" -> "ended"
      [] OTHER            -> "unknown"

\* An access point counts while the device is at home.
Attachment(s) == IF s.shows = "fix" THEN s.spot ELSE Nowhere

\* Slip: a roaming client looks like the one known.
WifiRepeatsStatus(m, s) ==
    \/ s.updated <= m.stamp
    \/ m.status = WifiStatus(s) /\ m.told = s.shows

\* A state not newer than the one accepted, or one that says the same.
WifiRepeats(m, s) ==
    \/ s.updated <= m.stamp
    \/ m.status = WifiStatus(s) /\ m.spot = Attachment(s) /\ m.told = s.shows

\* An attachment is dated by the update that told it first.
AttachedSince(m, s) ==
    CASE Attachment(s) = Nowhere -> 0
      [] /\ Attachment(s) # Nowhere
         /\ Known(m) /\ m.spot = Attachment(s) /\ m.status = "active" -> m.since
      [] OTHER -> s.updated

\* _wifi_tracker, and the upsert of all its dimensions under a newer stamp.
WifiHeard(m, s, b) ==
    IF Known(m) /\ WifiRepeats(m, s) THEN m
    ELSE [binding |-> b, status |-> WifiStatus(s), spot |-> Attachment(s),
          told |-> s.shows, stamp |-> s.updated, since |-> AttachedSince(m, s)]

\* The clock of a measurement.
Observed(a, s) == IF a = "gps_provider" THEN s.measured ELSE s.updated

\* An older measurement, or without a provider's clock one of the same spot.
GpsRepeats(a, m, s) ==
    \/ Observed(a, s) <= m.stamp
    \/ a = "gps" /\ s.spot = m.spot

\* _gps_tracker: any failure withdraws the fix and forgets it.
GpsHeard(a, m, s, b) ==
    CASE s.shows # "fix" -> NoRecord
      [] s.shows = "fix" /\ Known(m) /\ GpsRepeats(a, m, s) -> m
      [] OTHER -> [binding |-> b, status |-> "active", spot |-> s.spot, told |-> "fix",
                   stamp |-> Observed(a, s), since |-> Observed(a, s)]

\* process: an adapter that raises loses its record, and so does one whose
\* entity is removed (_async_state_removed, mark_channel_unavailable).
Heard(a, r, s, b) ==
    CASE s.shows \in {"unreadable", "removed"} -> NoRecord
      [] s.shows \notin {"unreadable", "removed"} /\ a = "wifi" -> WifiHeard(Remembered(r, b), s, b)
      [] OTHER -> GpsHeard(a, Remembered(r, b), s, b)

-----------------------------------------------------------------------------
(***************************************************************************)
(* The tracker and the life of the entry.                                  *)
(***************************************************************************)

FixInit ==
    /\ adapter \in Adapter
    /\ now = 0
    /\ tracker = [shows |-> "removed", spot |-> Nowhere, updated |-> 0, measured |-> 0]
    /\ origin = 0
    /\ binding \in Binding
    /\ running = TRUE
    /\ record = NoRecord
    /\ savedRecord = NoRecord

\* _async_state_changed: a state is processed as it is written.
Tell(s) ==
    /\ now < MaxNow
    /\ now' = now + 1
    /\ s.updated = now'
    /\ tracker' = s
    /\ record' = IF running THEN Heard(adapter, record, s, binding) ELSE record
    /\ UNCHANGED <<adapter, binding, running, savedRecord>>

\* A fix is as old as its provider says, or as the update that told it first.
\* A provider may deliver late, and go back.
TellFix(spot, measured) ==
    /\ spot = Nowhere => adapter = "wifi"
    /\ adapter # "gps_provider" => measured = 0
    /\ measured <= now + 1
    /\ Tell([shows |-> "fix", spot |-> spot, updated |-> now + 1, measured |-> measured])
    /\ origin' = CASE adapter = "gps_provider" -> IF measured > origin THEN measured ELSE origin
                   [] adapter # "gps_provider" /\ spot = tracker.spot -> origin
                   [] OTHER -> now + 1

\* A failed GPS tracker comes back where it was; a Wi-Fi client that is not
\* at home, or not known to be, attaches anew.
TellNoFix(shows) ==
    /\ shows \in Shown \ {"fix"}
    /\ shows = "away" => adapter = "wifi"
    /\ Tell([shows |-> shows,
             spot |-> IF adapter = "wifi" /\ shows # "unreadable" THEN Nowhere ELSE tracker.spot,
             updated |-> now + 1, measured |-> 0])
    /\ UNCHANGED origin

\* A state told twice: by a listener and by the seeding of the setup.
Repeat ==
    /\ running
    /\ record' = Heard(adapter, record, tracker, binding)
    /\ UNCHANGED <<adapter, now, tracker, origin, binding, running, savedRecord>>

\* The delayed save.
Save ==
    /\ running
    /\ savedRecord' = record
    /\ UNCHANGED <<adapter, now, tracker, origin, binding, running, record>>

\* async_shutdown saves; a process that dies does not.
Stop(saved) ==
    /\ running
    /\ running' = FALSE
    /\ record' = NoRecord
    /\ savedRecord' = IF saved THEN record ELSE savedRecord
    /\ UNCHANGED <<adapter, now, tracker, origin, binding>>

\* Slip: the saved record is in the store, but the adapter starts anew.
StartForgetful(b) ==
    /\ ~ running
    /\ running' = TRUE
    /\ binding' = b
    /\ record' = Heard(adapter, NoRecord, tracker, b)
    /\ UNCHANGED <<adapter, now, tracker, origin, savedRecord>>

\* async_setup: restore_state, then the present state of the tracker.
Start(b) ==
    /\ ~ running
    /\ running' = TRUE
    /\ binding' = b
    /\ record' = Heard(adapter, Remembered(savedRecord, b), tracker, b)
    /\ UNCHANGED <<adapter, now, tracker, origin, savedRecord>>

FixNext ==
    \/ \E spot \in Spot \cup {Nowhere}, measured \in Instant : TellFix(spot, measured)
    \/ \E shows \in Shown : TellNoFix(shows)
    \/ Repeat
    \/ Save
    \/ \E saved \in BOOLEAN : Stop(saved)
    \/ \E b \in Binding : Start(b)

FixSpec == FixInit /\ [][FixNext]_fixVars

-----------------------------------------------------------------------------
(***************************************************************************)
(* Properties.                                                             *)
(***************************************************************************)

\* The types of the variables; an entry that is down remembers nothing.
FixTypeOK ==
    /\ adapter \in Adapter
    /\ now \in Instant
    /\ tracker \in Tracker
    /\ origin \in Instant
    /\ binding \in Binding
    /\ running \in BOOLEAN
    /\ record \in FixRecord \cup {NoRecord}
    /\ savedRecord \in FixRecord \cup {NoRecord}

\* Ignoring what is known loses nothing (adapters/entity.py:231 and 300):
\* through repeats, crashes and restarts from older saves, the record of a
\* running entry says what the tracker tells now.  Only a provider that goes
\* back in time is not followed.
RecordTellsTheNewest ==
    running =>
      CASE tracker.shows \in {"unreadable", "removed"} -> record = NoRecord
        [] adapter = "wifi" /\ tracker.shows \notin {"unreadable", "removed"} ->
              /\ record # NoRecord
              /\ record.told = tracker.shows
              /\ (record.status = "active") = (tracker.shows = "fix")
              /\ (record.status = "ended") = (tracker.shows = "away")
              /\ record.spot = tracker.spot
        [] adapter # "wifi" /\ tracker.shows \in {"unknown", "unavailable", "unsupported"} ->
              record = NoRecord
        [] adapter # "wifi" /\ tracker.shows = "fix" ->
              /\ record # NoRecord
              /\ \/ record.spot = tracker.spot
                 \/ adapter = "gps_provider" /\ record.stamp >= tracker.measured

\* The record dates the fix that is told later than it is.
DatedLate ==
    /\ record # NoRecord
    /\ tracker.shows = "fix" /\ tracker.spot # Nowhere
    /\ record.spot = tracker.spot
    /\ record.since > origin

\* The runtime, or the save it starts from, has the fix under this binding.
Holds(r) ==
    /\ r # NoRecord
    /\ r.binding = binding'
    /\ r.spot = tracker'.spot

\* Neither repetitions nor new attributes, a reception after a restart or a
\* save that is older renew a fix the runtime has (docs/configuration.md:292
\* and 371): it is dated later than told only if there was no record of it.
\* That is the exception the documents do not make: an outage of the tracker
\* or another binding drops the record, and where no provider dates the fix
\* the same fix is then as new as the last update of the state.
FixesKeepTheirClock ==
    [][ DatedLate' =>
          LET before == IF running THEN record ELSE savedRecord
          IN  /\ adapter # "gps_provider"
              /\ Holds(before) => record'.since <= before.since ]_fixVars
=============================================================================
