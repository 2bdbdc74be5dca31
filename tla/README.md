# Presence Engine in TLA+

A model of `custom_components/presence_engine`, the Home Assistant integration
that merges what cameras, radars, trackers and counters say into one answer to
"who is where". The modules below translate the Python code; TLC checks them on
small instances, and TLAPS proves the properties that matter most for every
value of the constants.

`PROJECT.json` is the index: which module belongs to which component, what
every run checks, which source lines every definition stands for, which slip in
the code every property would catch, and which hazard it is aimed at.

## 1. The system

Everything runs on one asyncio event loop. `ha_runtime.py` takes state changes,
MQTT messages, registry changes and timers, and gives each of them, under one
lock, to `PresenceRuntime` (`runtime.py`). No holder of the lock awaits inside
it, so a handler is atomic; what interleaves is the order of the handlers, the
awaits of setup and shutdown, the clock that runs on, and a process that may
stop between any two steps.

| Component | State | Operations | Correct when |
|---|---|---|---|
| Evidence store, `engine/store.py` | records by key with one claim and one stamp per dimension, a history of updates per record, the global revision | `upsert`, `remove_source`, `remove_where`, `advance_revision`, eviction | only newer evidence overwrites, merging never raises, bounds hold, the worth of a record decides who is evicted |
| Evidence contract, `engine/model.py` | none | validation of an observation | count and lifecycle of a record agree |
| Detections, `runtime.py`, `engine/detection.py`, `adapters/frigate.py` | event and face records, cache of envelopes, detection revisions, pictures, unavailable cameras | `process`, replay after PTZ reports, end of an admission, availability of a camera, export and restore | nothing withdrawn returns without new evidence, every change is numbered and published, no isolated recognition |
| Freshness, `runtime.py`, `ha_runtime.py` | snapshot, freshness signature, one timer, refresh task | `process`, `refresh`, `next_expiration`, `mark_channel_unavailable`, `_reschedule_expiration` | the snapshot is what the evidence says; what expires leaves it |
| Signal histories, `runtime.py`, `radar.py` | samples, latest and truncation flag per channel | retain, trim, budget, loss of a source, save and restore | histories are series, bounded, and no loss is silent |
| PTZ context, `temporal.py`, `engine/geometry.py` | reports of profile, preset, movement and measured intervals per camera | `update`, `record_interval`, `at`, `_insert`, location of a frame | independent of the order of arrival; no area while the camera may be turning |
| Camera availability, `adapters/entity.py` | last state of every availability entity | `parse` | evidence is withdrawn for an outage and only for one |
| MTR counter, `adapters/mtr.py` | last state and time per entity, compound sequence | `parse`, `restore_revision` | every target counted once |
| Entity, Wi-Fi and GPS adapters, `adapters/entity.py` | restored records | `parse` | a fix is not renewed by its repetition |
| Device association, `association.py` | anchors, handoffs, room hints | `update`, `accept`, `next_expiration` | no radio or counter renews the clock of a body, links end, the identified body decides |
| Resolver, `engine/resolver.py` | the snapshot before | `resolve` | nobody is counted twice or hidden, a remembered place ages, the identified body decides |
| Home Assistant runtime, `ha_runtime.py`, `__init__.py` | listeners, MQTT subscriptions, tasks, timer, delayed save | setup, subscription, unload, stop | nothing outlives the entry, no change goes unsaved |
| Discovery, `discovery.py`, `ha_discovery.py` | none; reads the registries | resolve bindings, activate, offer | what the user decided stands, bindings follow the registry |
| Source review, `ha_runtime.py` | what is pending, seen, announced and watched; the notification | refresh, registry events, states of watched entities, save and restore | nothing compatible is withheld, everything is announced once, the notification is true |
| Configuration flow, `config_flow.py` | a draft, the form on display, the channel picked | forms of sources, discovery and review, save, abort | a form decides about what it is about |
| Face catalogue, `face_discovery.py`, `ha_face_catalogue.py` | catalogues | refresh of faces | a late answer changes nothing that is gone |
| Configuration, projections, entities, diagnostics | none | parsing, formatting | - |

How they interact: an envelope goes to every adapter that accepts it; the
adapter returns observations, availability or a PTZ context; `process` upserts
the observations, withdraws the evidence of what became unavailable, replays
cached events when a context changed, numbers the detections that changed, and
resolves a new snapshot if anything did. The Home Assistant layer then
publishes, schedules a save and replaces the timer.

What is hard to test here: the order of messages about one event (updates, ends,
faces and PTZ reports are four streams); evidence that comes late or twice; the
clock that passes a deadline inside a handler; restarts between any two steps,
of state that is saved only in part; an await in the middle of subscribing;
bounds that are reached (store, envelope cache, PTZ history, signal budget);
one body that several sources report under different names; registries that
change between setups, and a user whose decisions must survive that.
`PROJECT.json` lists these hazards at their lines with the properties that watch
them, and says of each that no property watches why.

## 2. The modules

| Module | Models | Abstract specification, proofs |
|---|---|---|
| `EvidenceStore` | `engine/store.py` | implements `ClaimLedger`; `EntryProofs` |
| `Expiry` | freshness, expirations and the timer | `RuntimeProofs` |
| `Lifecycle` | setup, MQTT, saves and shutdown | `EntryProofs` |
| `Detections` | events, faces, cache, availability of cameras, pictures | `DetectionsProofs` |
| `CameraContext` | the PTZ history and the location of a frame | `RuntimeProofs` |
| `SignalBuffers` | BLE and radar histories under one budget | `SumProofs` |
| `MTRCount` | the compound radar counter | `SumProofs` |
| `Association` | a device of an owner, its anchor and the link that follows the owner | `AssociationProofs` |
| `DeviceFixes` | what one Wi-Fi or GPS tracker tells, and the record of it | `EntryProofs` |
| `Population` | operators of the resolver: how many bodies a set of observations stands for | `ResidentsProofs` |
| `Residents` | `resolve` from one snapshot to the next: persons, rooms, counts | `ResidentsProofs` |
| `SourceReview` | discovery, the review of sources, the configuration flow, reloads and restarts | `SourceReviewProofs` |

`Sums` holds the algebra of sums over finite sets on which `SumProofs` and
`ResidentsProofs` rest.

`MC...` modules give the constants their values. A definition whose comment
begins with *Slip* is a plausible mistake in the definition that follows it. No
behaviour uses it: `PROJECT.json` ("mutants") says which property it would
break, and TLC confirms each.

### EvidenceStore

`records`, `history` and `revision` are `_records`, `_history` and
`_global_revision`. `upsert` is three actions, one for each of its ways out:
`Create(o)` (the key is new; evicts if the store is full), `Ignore(o)` (no
dimension is accepted) and `Merge(o)`. `Newer` and `Differing` are the two
conditions of a dimension, stamps are recorded for every newer one
(`MergedStamp`), claims only for accepted ones (`MergedClaim`). `RemoveSource`,
`RemoveWhere` (any predicate) and `AdvanceRevision` are the other operations.
A raised `ValueError` is not a step: `MergeNeverRaises` says that it cannot
happen.

Assumed of the adapters (`ObservationAssumption`): an envelope is `Coherent`,
that is, a source that counts sends count and lifecycle together, the lifecycle
stamp is never the older one, and it is strictly later only for an observation
that is not active. The adapters guarantee it line by line (all but Frigate
share one stamp; an ended Frigate event is stamped with its end). The runtime
sends a partial envelope only for a record it found (`Create`). What identifies
an observation, its time, classification and lifecycle, is never empty
(`DimensionAssumption`; `_dimension_value` makes them of fields the observation
must have).

`ClaimLedger` is what the runtime may rely on: claims change only together with
the revision, one at a time under strictly later stamps, within a capacity.

### Expiry

One observation per source stands for its evidence; `held[s]` is the instant its
lifetime counts from. The handlers are those of `process` (`Observe`, `Repeat`,
`End`, `Withdraw`, `Context` for PTZ reports, `Signal` for radar and device
samples whose candidate snapshot may be thrown away), `MarkUnavailable` and
`Refresh`; each ends with `Reschedule`. The clock may advance by `Latency`
during a handler, and a handler that is ready may run before a timer that is
due, as asyncio does. What the resolver makes of current evidence is reduced to
one view per source: absent, possible (a count not yet stable) or confirmed.

### Lifecycle

`stage` names what the coroutine of the entry awaits: the store, a topic, the
platforms, the cancelled tasks or the last save. Between two awaits a coroutine
runs alone; whatever may run while it waits is an action (`StateChanged`,
`Message`, `Expired`, `Reviewed`, `RefreshFaces`, `FacesAnswer`, `DelayedSave`,
`MqttLoads`, `HaStop`, `Exit`). The state of the engine is a number, the version
of what `export_state` returns. MQTT may load before, during or after setup, or
never; a topic, the store or the platforms may fail.

### Detections

`event[e]` and `face[e]` are the two records that share an event id. Of the
dimensions of a record the model keeps location, lifecycle and image; the count
is stamped and ends with the lifecycle. `EventMessage`, `MalformedEvent`,
`FaceMessage`, `ContextReport` and `HealthReport` are `process` for the five
kinds of envelope; each includes the replay, the numbering and the pictures.
`Restart` is `export_state` and `restore_state` with the seeding that follows:
`Listening` is false until every availability entity has been seeded, which
happens before any topic is subscribed. The time stamp of a frame leaves room
for the increments of replays (`Sequence`), as microseconds do in the code.

### CameraContext

The sorted list `_events` is a function from (instant, role) to the report.
`Update` and `Telemetry` are `update` and `record_interval`, `At` is the query
and `Location` is `resolve_camera_location` for a camera with context entities.
`Save` and `Restart` make a restart go back to an earlier history.

### SignalBuffers

`samples`, `latest` and `truncated` are the three dictionaries of BLE and radar
together. `BleReport`, `RadarReport`, `RadarLost`, `BleLost`, `Resolve` and
`Restart` are the places that touch them, each with the trimming and the budget
that its code path has, and no more. Ties of the budget, which the code breaks
by the order of its dictionaries, are broken in every way.

### MTRCount

One compound source: a total and zones, each told by an entity of its own.
`Report` is `parse` with the upserts that follow, `Invalid` an entity that
becomes unavailable, `Withdraw` a report that raises or an entity that is
removed, `MTRRestart` keeps the records and loses the states of the adapter.

### Association

One device of one owner. `anchor` and `link` are its entries of `anchors` and
`handoffs`; `by` is the kind of the anchor (`body` has no flag in the code,
`position` stands for `measurement_channels`, `counter` for
`requires_visual_arrival`), `clears` is that `origin_clear_source_id` is set.
`Resolve(s)` is `update`, `room_candidates` and `accept` with the resolver
between them, in the order of `_resolve_snapshot`; the steps of `update` are the
operators `Pruned`, `Captured`, `Followed`, `Transferred`, `Correlated`,
`Completed` and `Unshared`.

What the evidence says is a scene `s`: who is identified where, what counters,
cameras and receivers say, each with an age. Ranges are reduced to what the code
asks of them: which receivers are heard, which one beats all others, whether
distances fall or rise. The resolver places the owner by a link only if
`Acceptable`; it may refuse one all the same, because a source of it is
unavailable or the owner is not at home. `spent` and `frameIn` are no state of
the code: the target of a chain of this anchor that broke, and the room of the
last frame.

### DeviceFixes

One source of the type `adapter`. `tracker` is the state Home Assistant has of
its entity, `record` the record of the source in the store: `process` hands it
to the adapter before every state (`Remembered`), so it is the adapter's memory
too. `WifiHeard` and `GpsHeard` are `_wifi_tracker` and `_gps_tracker`, with the
upsert that follows; the stamps of all dimensions are one clock. `TellFix` and
`TellNoFix` write a state and process it, `Repeat` is a state that setup and its
listener both process, `Start` is `restore_state` from the last save with the
state that setup then reads, under any `binding` (owner, access point map,
accuracy bands, provider clock). A tracker's states are processed in the order
in which they are written, as Home Assistant dispatches them; they are missed
while the entry is down. `origin` is not in the code: the instant the fix the
tracker tells was measured, or told first.

### Population and Residents

`Population` has no variables. `Groups` is `_evidence_groups`, `Reconciled` is
`_reconcile_area_populations`, `PopulationMinimum` and `AnimalCount` are the
totals that must not count a body twice. `Residents` is the resolver as a
machine: its state is what one snapshot leaves to the next (`known`, the
identified presences; `places`, where anybody was placed) and what it says now
(`count`, `occupancy`). `Resolve(s)` is the whole of `resolve` for a scene `s`,
in the order of the code:

1. `GroupsOf` (groups, the counters of a room reconciled, then `Guarded` by what
   the snapshot before placed next door);
2. `KnownPeople` (identified bodies, radios, Wi-Fi and GPS, and whoever is only
   remembered: `Remembering`);
3. `Tally`, a fold over the groups that says for each whose body it is
   (`Included`, `Corroborated`, `Movers`, `Separated`, `Consume`, `ByTrajectory`)
   and counts the others;
4. `Placed` (owners near their access point), `Occupancies` and `HomeCount`.

A scene is what is active, what was cleared and which sources are unavailable.
All its instants are ages, so that one scene may come at any time, and `Pass(d)`
makes what is remembered older. Where the code sorts by names, `Names` is the
order. Qualities are ranks. The operators were also compared with the Python
resolver on more than a hundred thousand random resolutions of random scenes,
without a difference in the persons, their places, the counts and the rooms.

### SourceReview

`registry` is the entity registry with what its entries are to discovery (their
`kind`); `config` is the entry's data, `saved` the review in the store. `stage`,
`reload`, `active`, `settings`, `pending`, `seen`, `announced` and `watched` are
the runtime's; `notice` is the notification on display, which outlives a runtime
but no process. `EntityChanged`, `DeviceMoved` and `StateTold` are the three
listeners with the change that calls them: an event nobody listens to only
changes the registry. `Plan`, `Restore` and `Listen` are the parts of a setup
between its awaits, `Unload` is the reload, `Exit` the end of the process.
`draft`, `step`, `picked` and `chosen` are the flow; each form is an action per
way out of it.

A source has one entity. Two families stand for all of them: radars, ready as
soon as their area is configured, and trackers, which wait for metadata of their
state and are only ever offered. `missed`, `unresolved` and `met` are no state
of the code: that the registry changed before a setup was listening, which
entries that setup did not find, and what was offered before, as far as it is
saved.

### Crashes

Saved state is always the state of an earlier moment. A crash therefore is a
restart from a state that was reachable before, and a behaviour with a crash is
one in which what came after the save had not yet come. `Detections`,
`SignalBuffers`, `MTRCount` and `Association` restart from the state they are in;
`CameraContext`, `Lifecycle`, `DeviceFixes` and `SourceReview` keep the saved
state apart, because their properties compare it with the present one.

## 3. The runs

| Run | What it shows | Bounds |
|---|---|---|
| `evidence_store` | no order of full, partial, unstamped, ended and replayed envelopes makes a merge raise or erases what an unstamped envelope does not speak of; the store implements the ledger, which overwrites a claim only by a newer one; eviction takes no record that is worth more than another | one event with three instants and every kind of envelope the adapters send, a second event and a device that compete with it for a store of two, histories of one, three revisions |
| `expiry` | the snapshot is what the evidence said when it was resolved; every refresh settles the snapshot; evidence leaves it under a new revision but at PTZ updates; evidence with an armed timer leaves | three sources (a counter that expires and matures, a GPS tracker that expires and measures, a door), clock to 5, three messages |
| `camera_context` | the history is the newest reports whatever the order of arrival; arrivals are earned; no area while turning | three instants, two profiles, one preset, intervals that start together, a history of three, four reports: a full history is reached and overflows |
| `detections` | what an outage withdrew stays away until new evidence; every detection is numbered; late PTZ reports reach cached events; ended events revive by newer frames only; locations go back in replays only | a strict PTZ camera and a fixed one, one event each, one person, two frames, three revisions per detection: an event that began, ended by a message, by leaving its zone or by a replay, is revived; states that differ in pictures and publications alone count as one (`Evidence`) |
| `signal_buffers` | no sample within its window is lost silently; the budget is overdrawn by lost channels only | a BLE channel and two radar channels of one source, limit 2, budget 3, window 3, clock to 3 |
| `mtr_count` | every target is counted once, through overlaps, failures and restarts | two zones of two areas, counts to 2, two instants |
| `lifecycle` | nothing outlives the entry; changes are scheduled; a loaded MQTT is subscribed; only a failed load saves less | two topics, three versions of the state |
| `association` | links and anchors die of age, by an armed deadline; the clock of a chain of frames goes forward and over no gap of a lifetime; an arrival is latched once; a restart needs a new body; the identified body decides | a hall and two rooms with a camera each, two visitors, lifetime 3 and window 2, clock to 4, 35 scenes |
| `device_fixes` | the record of a running entry says what the tracker tells now, through repeats, failures, crashes and older saves; a fix that is held is never dated anew | two spots, two bindings, four updates of the tracker; every type of tracker is an initial state |
| `residents` | the least count adds up only what one observer of each room and class tells apart; the greatest leaves room for everybody reported where cameras track; a counter that is on keeps its room unless a movement is in doubt or its producer reports from elsewhere; remembered places age; identified bodies are moved only by a body a camera follows | two rooms next to each other and one upstairs, two persons, two cameras, counters of rooms and floors, an MTR, a tag, Wi-Fi and GPS of one owner; 32 scenes in any order, ages to 100 s |
| `source_review` | what the user decided stands; sources follow the registry, by name and, where discovery added them, as long as their entries are ready; nothing compatible is withheld; everything is announced once; the notification is true | a tracker and a radar on one device, a radar without one, two radars that may take each other's names and one of which may be disabled, three initial registries, three events (changes of the registry, edits, ends of the process); four events hold too, in 8 million states |
| `source_review_forgets` | a disagreement of code and documents, section 6 | as above |

Why these bounds are enough: every property above compares at most two records,
two instants or two channels, and the instances have that many and one more
where a bound must be exceeded (a third record, a third radar or BLE sample, a
fourth report). Two frames tell earlier from later; two revisions tell the first
from the next, and a revival is the third change of an event that began active. The scenes of `residents` are the cases of the resolver's own
branches, and one snapshot leaves to the next no more than who was where and
when, so short sequences of scenes show what a long history can. Three events are
enough for each hazard of the review: a decision or a lost state, a change of the
registry, and a restart or reload between or after them. Counters that only grow (`revision`, `messages`, `reports`,
`engine`, revisions of detections) are bounded in the guards by constants named
`Max...`; the real ones are unbounded. Deadlock is not checked where the model
may stop because such a bound is reached and no message is owed.

### Fairness

- `Expiry`: weak fairness of `Tick`, `TimerFires` and `Refresh`. Time passes,
  and an event loop that is not blocked runs due timers and created tasks. No
  message is owed.
- `Lifecycle`: weak fairness of the answer to a subscription, success or error.
  That the store answers, MQTT loads or Home Assistant stops is not assumed.
- All other modules have safety properties only and no fairness.

## 4. What is proved

For every value of the constants that satisfies the named assumptions:

- `EntryProofs`, of `EvidenceStore`: `TypeCorrect`; `Coupling` and
  `MergesAreValid`: in a record of a source that counts, the lifecycle stamp is
  never older than the count stamp, and equal to it while the record is active.
  That is the strengthening that makes "merging never raises" inductive: an
  envelope whose zero count were accepted while its end was not would need a
  count stamp newer than the stored one and a lifecycle stamp that is not.
  `StaysBounded`, `NewestEvidenceStays` and `LedgerImplemented` (every step of
  the store is a step of the ledger or a stutter) follow with the types.
  `OmissionsKeepClaims` needs that the dimensions an unstamped envelope always
  speaks of are never empty; `EvictionIsByWorth` says that a full store gives up
  what is worth least, whatever the observations are worth.
- `RuntimeProofs`, of `Expiry`: the invariant `Inv` adds to the types and to
  `SnapshotIsCoherent`, `UnavailableIsWithdrawn` and `WakeUpArmed` that no
  evidence and no snapshot is later than the clock. `Settling` needs it all: a
  refresh that sees neither a change of the fresh set nor a matured count leaves
  a snapshot that already was right, because unavailable sources, whose
  deadlines it skips, hold nothing. `Revisions`: only a context update takes
  evidence out under an old revision.
- `EntryProofs`, of `Lifecycle`: `IInv` adds that only an entry past its setup
  expects MQTT (`OnlyASetUpEntryExpects`), that a coroutine that subscribes is
  alone (`OneSubscriber`), that a loading runtime has nothing (`LoadingIsEmpty`)
  and that an engine with less than the disk is idle (`EmptyEngineIsIdle`). From
  it follow `WholeSubscriptions`, `NothingOutlives`, `Scheduled` and
  `SavesKeepEvidence`.

- `DetectionsProofs`: every property the run `detections` checks, and
  `PreviewsEndWithTheDetection`, for any events, cameras, frames, zones and
  reports. `IInv` adds to the types what a replay relies on. It writes into the
  store what the cache holds, so the cache holds
  nothing of an event that was lost (`LostIsUncached`) and no event twice
  (`CacheTyped`; a second envelope would undo the first): from that follow
  `LostStaysLost` and `ReplayReachesTheCache`. Whether a message may bring an
  older location depends on the stamps that replays raise: where no frame is
  refused for a turn of the camera, no stamp is behind the frame of its location,
  nor behind what a replay of the cache would write (`LocationsInOrder`). The
  proof found the exception that `MessagesKeepNewerLocations` states, see
  section 6. `Replay` says what a PTZ report makes of every record, `Message`
  what a message does; each action needs no more than these.

- `RuntimeProofs`, of `CameraContext`: every property the run `camera_context`
  checks, and `LateReportsStayLocal`, for any instants, presets, areas and
  intervals and any length of the history. The invariant is the first property
  itself, of the present history and of the saved one: the newest of what was
  kept and a new report are the newest of all that ever arrived
  (`NewestOfNewest`), so pruning at every report is pruning once. What a context
  says follows from the reports it is made of, not from the order they came in:
  a later report keeps a truthful context truthful (`AppliedIsTruthful`), hence
  the smallest set of reports whose context is not does not exist
  (`ContextIsTruthful`). `ArrivalsAreEarned` and `AreasNeedStandingCameras` are
  that fact and the measured intervals.

- `AssociationProofs`: every property the run `association` checks, for any
  rooms, targets, scenes and windows. That a link ends hangs on facts about
  several resolutions, and `IInv` names them: a latched arrival places the owner
  (`LatchIsRemembered`), so no radar position can make a new anchor under it and
  its arrival is not older than the anchor; an arrival not yet latched still has
  the anchor it came from (`UnlatchedIsAnchored`); a chain of frames always has an
  anchor that rests on nobody identified (`VisualIsAnonymous`) and is not older
  than it (`FramesAreOrdered`). `ResolveFacts` reduces a resolution to the anchor
  it is left with (none, one that survived, a fresh one) and the way the link was
  earned (`IsCompleted`, `IsChain`, `IsTransfer`, `IsCorrelation`);
  `ResolveKeepsIInv` is the step. Assumed of the windows is only that the
  measurement window is no longer than the lifetime (`WindowAssumption`).

- `SumProofs`, of `MTRCount`: `CountsAddUp`, with `CountTypes`,
  `OverlapIsExclusive` and `CoverageIsWhole`, for any finite set of zones in any
  areas and any bounds. The store drops a claim whose stamp is not newer, so that
  what is stored is the last combination needs that no stamp is ahead of the
  adapter, after a restart either (`NotAhead`), and that buckets come and go
  together (`AllOrNone`); what it says is then one combination's claims
  (`Follows`). That these add up to the total (`CombinationAddsUp`) is an
  equation of sums over zones, over the zones of each area and over buckets. The
  community modules fold sums in an order `CHOOSE` picks, so the lemmas of `Sums`
  prove what a sum is from the least set that would be an exception (`SumsExist`,
  `SumTakesOut`, `SumOfParts`), without induction. A module of proofs may extend
  several components when these have no name in common: hence `MTRSpec`,
  `EntrySpec`, `FixSpec` and `ExpirySpec`.

- `SumProofs`, of `SignalBuffers`: every property the run `signal_buffers`
  checks, with `SignalTypes` and `SignalsAreSeries`, for any channels, readings,
  window, limits, budget and time. `SignalInv` says of every channel that its
  history ascends, never repeats a reading and ends with the latest sample
  (`Sane`), and of all that they exceed the budget by the losses at their ends
  only (`Bounded`). A handler leaves a history its end (`IsRest`), or that and
  one newer sample (`RetainedIsSane`); so a sample that is a loss stays one at
  the end for as long as the history is not empty, and what it weighs is paid
  for (`RestIsLighter`). The budget compares sums over all channels, of which
  one term changes. A loss is told where it happens (`Keeps`), and what a
  handler of several operations kept or told it keeps or tells in the end
  (`KeepsAgain`). What a restart replays into empty buffers, sample by sample, is
  what was saved (`ReplayedIsSane`), which needs that the saved histories were
  series: a sample that reads as the one before it would be dropped in silence.

- `EntryProofs`, of `DeviceFixes`: `FixTypes`, `NothingIsLost` and
  `HeldFixesAreNotRenewed`, for any spots, bindings and time. The invariant
  `FixInv` is about the past: a record, in the store or saved, is never newer
  than the state of the tracker, and one of the same update says the same
  (`Sound`). So the test for an older update drops no news, however old the save;
  what is left, the test for the same content, keeps clocks. `HeardIsRight` says
  this of one state and one record, and every step applies it.

- `ResidentsProofs`: `MemoryIsTyped`, `PlacesAreEarned`
  (`PlacesKeepTheirClock`), `NobodyMovesABody` (`IdentifiedBodiesStand`),
  `NobodyHidden` (`NobodyIsHidden`) and `CountersAreTold`
  (`OnlyDoubtHidesACounter`), for any home, any names and their order, any
  scenes and any windows. Two of them are action properties of one
  resolution, and the invariant they need is only what a resolution is given: a
  scene of observations, and a snapshot whose persons are hypotheses
  (`Remembers`). The argument follows `Resolve` through its parts. What a group
  of evidence says of a room, its place and its clock, is what one observation
  reports (`IsReported`), still after a room is reconciled and a neighbour is
  guarded. A presence that is known before the groups are counted is
  `Justified`: its clock is that of an observation that tells its place, or it
  is remembered from the snapshot before within its `Lifetime` (`Earned`), and a
  body that is identified beyond doubt stands where it is reported (`Firm`). The
  loop keeps that (`Sane`, of the tally after every group), because the groups
  of tracked objects come last in the order of the code (`Rank` of `ClassOf`):
  until then a firm body stands, and from then on it stands, or is where a
  tracked object is seen (`Followed`). The loop is a recursive function over the
  sorted groups. Its tallies are sane at every turn because there is no least
  turn at which one is not, which takes the well-foundedness of the numbers and
  no induction over data.

  `NobodyHidden` is about sums. A group of evidence counts up to its greatest
  number; the loop takes the persons it can place from it, and what is left of all
  groups, with the persons, is the greatest count of the home. Nobody may be taken
  twice. Two facts carry it. A person in a room, who is not merely remembered
  there, is where a camera shows them best, or came with the population of that
  room, which then had its turn already (`Settled`, an invariant of the loop). So
  a group keeps at least what it counts less those shown in its room (`Least`,
  `Spared`), one lemma for each way a turn can end (`InSameRoomIsSpared`,
  `AfterMoveIsSpared`, `ByTrajectoryIsSpared`, `NobodyIsSpared`), and the tally
  adds these up (`Tells`). The rest is algebra over rooms: what the groups of a
  room must leave is no less than what is tracked there, what its counters add to
  that, and its persons (`RoomsNeed`, `AllRoomsNeed`), and the house adds up its
  rooms, the groups outside them, animals and everybody remembered
  (`HomeIsRoomy`). The proof attempt found the exception that `NobodyIsHidden`
  states (`TrackedByCameras`, section 6); a scene of the run now has it.

  `CountersAreTold` needs no invariant: it is about the evidence of one
  resolution, whoever is placed where. A counter is in a group that is in its
  room and counts no less (`EachIsGrouped`). If that group is reconciled with
  others, either the rest of the counters is a group of the room, or the tracked
  objects that explain it stand for it (`CountersAreHeld`); these stay unless a
  neighbour casts doubt on them (`FirmTracksStay`). So the counter is evidence of
  the room, which is grouped and reconciled anew, and what reconciliation leaves
  is never less than one of its groups (`RoomHolds`: what the counters add is at
  least what they count less what is tracked). Here, too, the proof attempt found
  an exception, `ReportedElsewhere` (section 6), and a scene of the run has it.

  Assumed are that the order of names is a sequence that ranks every area
  (`NamesAssumption`), that there are finitely many persons
  (`PersonAssumption`), that the places differ from each other and from the mark
  for none (`PlaceAssumption`, `NothingAssumption`), that ages are told apart
  for longer than places are remembered (`WindowsAssumption`), and of a scene
  that its observations have different ids and intervals that are not empty
  (`engine/model.py:142`), that one camera makes one observation of an event
  (`runtime.py:1035`), that a Wi-Fi tracker says that somebody is at home or
  says nothing (`adapters/entity.py:303`), and that a counter names nobody and
  is active while it counts somebody (`SceneAssumption`, `adapters/entity.py:422`,
  `adapters/mtr.py:243`).

- `SourceReviewProofs`: every property the run `source_review` checks, for any
  entries, names, devices and initial registries and any number of events. `IInv`
  says what the present owes to a setup that may be long ago: what setup was
  given is the configuration, or a reload is due (`SettingsAreCurrent`); what
  discovery added nobody had decided about (`AddedAreUndecided`); an enabled
  source is named as its entry (`SourcesAreNamed`), which an event that touches no
  configured name cannot change; an added source is for an entry that is ready
  (`AddedAreReady`): it is disabled, removed or loses its area in an event about
  its name or its device, and that has a reload; a tracker without metadata is watched, or its
  name, its entry or the user's word keeps it from being offered
  (`WaitingAreWatched`), so the state that makes it compatible is heard; a
  notification left by the runtime before is about what that one saved
  (`NoticeIsKept`); what was offered is remembered here or in the store
  (`MetAreSeen`). `RefreshFacts` says what one refresh does, `FlowFrame` that no
  form touches the runtime. Assumed are the shape of the constants and that the
  mark for "no value" is no record of a review.

Only model-checked:

- the least count of `Residents` (`NobodyIsCountedTwice`): it compares what
  overlapping groups leave, linked by chains over rooms, with the best single
  observer of every room, which needs the clusters of a fold over the groups;
- the liveness properties `ArmedExpiryLeaves` and `MqttIsSubscribed`: liveness
  under fairness is beyond the prover.

Stated and in no run, though TLC finds them to hold when they are added to the
instances of section 3: the types of the modules; proved as well, `Bounded`,
`CoupledRecords` and `OnlyNewerEvidence` of the store, `WakeUpArmed` and
`UnavailableIsWithdrawn` of `Expiry`, `SubscriptionsAreWhole` of `Lifecycle`,
`LateReportsAreLocal` of `CameraContext`, `PreviewsEndWithTheDetection` of
`Detections`, `OverlapIsNowhereElse` and `AvailabilityMatchesEvidence` of
`MTRCount`, `HistoriesAreSeries` of `SignalBuffers`; not proved,
`PreviewsKeepPhotographs` (`Detections`) and `OldestGoFirst` (`SignalBuffers`).

## 5. Assumptions on what is outside the code

- Home Assistant's `Store` writes a scheduled save at some time, or at its final
  write, or never if the process dies; the last save of a shutdown takes the
  place of a delayed one.
- A cancelled `mqtt.async_subscribe` leaves no subscription behind.
- Tasks created by Home Assistant start eagerly, and a lock without waiters is
  taken without a switch, so that a handler is atomic.
- MQTT is loaded at most once in the life of the process.
- Frigate's event ids are unique, and an update of an event is not later than
  its end.
- An entry of the entity registry that is removed and created again is given its
  old id, and a name is held by one entry at a time.
- One configuration flow is open at a time, and a form is answered from what the
  registries say then.

## 6. Disagreements

One is a run in which TLC finds the violation:

- `source_review_forgets`: after a channel is ignored, or offered again, the list
  of discovery is shown and the flow still holds the channel; the form of an
  automatic source chosen from that list then withdraws the decision
  (`config_flow.py:481`). The ignored channel is offered again, and a restored one
  that is ready is activated with the next setup (`docs/configuration.md:12`).

The next ones are properties that no run repeats and that TLC refutes when they
are added to the instance of the module:

- `ExpiredEvidenceLeaves` (`Expiry`): a handler that ends at or after a deadline
  cancels the timer of that very deadline and `next_expiration` looks at later
  ones only, so the expired evidence stays in the snapshot until something else
  happens (`ha_runtime.py:488`, `docs/architecture.md:60`). `ArmedExpiryLeaves` is
  the part that holds.
- `UpdateFindsItsContext` (`CameraContext`): a report older than a full PTZ
  history is pruned by its own insertion and `assert point is not None` fails
  (`temporal.py:73`).
- `DeparturesAreSpentOnce` (`Association`): a latched link that the resolver no
  longer places (one of its sources became unavailable) is deleted by `accept`,
  the anchor is not; the next visitor who is seen arriving is linked to the owner
  by the same departure (`association.py:534`; the comment at
  `association.py:254` says that it must not be).
- `RoomsKeepTheirCounts` (`Residents`): a counter explained by the objects tracked
  in its room survives only as a source of their groups, and the guard moves such
  a group to the floor when the snapshot before placed anybody better next door;
  no group is left in the room, and a radar that is on has no occupied room
  (`engine/resolver.py:1097`), although "active physical evidence" is kept "even
  when correlation consumes its count" (`engine/resolver.py:475`).
  Another way is left to the property: entities that share a producer
  (`dependency_group`) or a target are one group, which takes the place of its
  newest report (`engine/resolver.py:1038`), so a counter that is on in one room
  is told of in another once the producer reports from there
  (`ReportedElsewhere`). An entity that is told to report a device
  (`target_kind`) counts no bodies. `OnlyDoubtHidesACounter` is the part that
  holds, and is proved.
- `EverybodyHasRoom` (`Residents`): a simple entity may be told to name a target
  (`target_id`, `config_flow.py:355`, `adapters/entity.py:555`). Its group is a body
  of its own in the reconciliation of a room, but it has no camera, so a person
  known in the room is taken from it (`engine/resolver.py:664`) and again from what
  the counters of the room leave: with an identified person, such an entity and a
  radar that sees up to three, the room holds up to three and the home two,
  although correlation preserves the wider interval "rather than inventing or
  hiding a person" (`docs/contract.md:103`). `NobodyIsHidden` is the part that
  holds, and is proved.
- `FramesAreInTheRoom`: a frame of the followed target in another room renews the
  clock of the link and leaves its destination; the owner stays in the old room
  and the target is counted in the new one (`CHANGELOG.md:13`,
  `docs/evidence-policy.md:20`).
- `RevisionsIncrease`: a detection that is lost and seen again starts at
  revision 1 once another detection has pruned its number
  (`docs/contract.md:35`).
- `MessagesNeverGoBack` (`Detections`): the messages of an event, too, may put
  an older location over a newer one. A frame that a strict camera refuses
  because it turned is cached, a later PTZ report admits it, and the replay
  stamps it one after the stored location (`previous.sequence + 1` in
  `_reprocess_event_envelopes`), which may still be before its own frame; a
  delayed message of a frame between the two then is newer by its stamp
  (`tests/test_store.py:107`). TLC needs a third frame and four revisions of
  one event for it, which the run does not have; `OnlyReplaysGoBack` is the
  part that holds, and is proved.
- `OnlyFailuresWithdraw` (with `MCTwoHealthEntity`): the first of two healthy
  entities of a camera to be seeded makes the camera unavailable, and its
  restored evidence is withdrawn (`docs/configuration.md:166`).

Others are stated as the exception of a property that holds, so that the checks
say exactly how far the code goes:

- `OnlyContextsExpireSilently`: a PTZ update takes expired evidence out of the
  snapshot under the old revision (`docs/architecture.md:60`).
- `OnlyReplaysGoBack`: a late envelope the store rejected is cached all the
  same, and the next PTZ report puts its older location over the newer one
  (`tests/test_store.py:107`); at a strict PTZ camera so may a message behind such
  a replay.
- `OverdraftIsBounded`: losing a radar source appends samples without enforcing
  the budget (`runtime.py:683`).
- `ClocksAreEarned`: a chain of frames that the resolver does not place may see
  its anchor replaced by a radar position; a frame of the same target then
  continues the chain over a gap longer than a lifetime from its last frame
  (`docs/evidence-policy.md:22`).
- `FixesKeepTheirClock`: a tracker without a provider's clock that was
  unavailable, also during a restart, or a changed binding, drops the record; the
  same fix then is as new as the last update of the state, although expiry is
  "fixed to the GPS clock, not arrival/restart time" (`docs/contract.md:91`) and
  changed bands do not renew it (`docs/contract.md:98`).
- `OnlyAFailedSetupSavesLess`: a setup that cannot read its store saves the
  empty engine over what was kept (`docs/rollback.md:3`).

- `SourcesFollowTheRegistry` and `NothingIsWithheld`: the registries are listened
  to at the end of a setup, and a change between its plan and that is heard by
  nobody (`ha_runtime.py:164`); a rename then causes no reload
  (`docs/architecture.md:64`). An entry that is absent at a setup and comes back
  under another name than the configured one is not followed either, since the
  configured name is the one compared.
- `NobodyIsCountedTwice` says how far the resolver's populations go, which is not
  as far as `docs/contract.md:103` in these cases: of two tracked dogs, or of two
  persons identified on a floor, one only is taken from a counter of two; a zone
  of an MTR is counted in a room where another radar counts more, and on its floor
  again; an owner who is only remembered is taken for the one body of a counter
  though somebody else identified stands in that room. Objects of different
  classes add up, as they should (`docs/contract.md:105`), though two cameras see
  them in one room.

And these were met while reading and are in the models without a property:

- `Status` (`engine/detection.py:66`): a recognised detection never is published
  as ended, since face records do not end (`docs/architecture.md:72`).
- `Preview` (`runtime.py:1115`): the preview of an event that leaves the store
  without an end is never removed, which `export_state` calls bounded
  (`runtime.py:454`).
- `Turns` (`temporal.py:127`): a Moving report inside a measured interval does
  end it, which the comment above it denies (`temporal.py:123`).
- `Activated`: of two ready radars of one device the first to be activated hides
  the other from review until a restart activates both.
- `DeviceMoved` (`ha_runtime.py:405`): the area that makes a radar ready is only
  reviewed; the radar is activated by the next event of an entity, or the next
  setup.
- `SubmitDiscovery` (`config_flow.py:519`): choosing an automatic source puts it
  into the draft before its form is submitted.
- `Notified`: metadata that is lost while something else refreshes the review
  closes the notification of a candidate, and its return does not open it again.

## 7. Not modelled

- `configuration.py`, `configuration_ui.py`: validation of one document. Of the
  configuration flow the forms of areas, people, cameras and the advanced
  document, and of discovery the rules over names, domains and units that tell
  the families apart: functions of one input, without behaviour over time.
- `ha_face_catalogue.py` and what the face catalogues hold: requests to another
  integration (when they run and are cancelled is in `Lifecycle`).
- `projection.py`, `public_projection.py`, `codec.py`, `diagnostics.py`, the
  entity platforms: formatting of a resolved snapshot.
- Of the resolver: hand-offs of devices, candidates of rooms and radar motion
  (`Residents` has the association off), the reasons and the provenance that a
  hypothesis carries.
- Of the review: sources of several entities, sources that were never bound to an
  entry, areas of Bluetooth devices with a mapped person.
- Of the other modelled files: the payloads of observations, the bodies of a
  detection, radar motion and the choice between several devices of one owner,
  signal channels that a new configuration no longer matches, `active_since` of
  the counter.

## 8. Plan

Done: the store and its ledger, expiry, PTZ context, detections, signal
histories, the counter, the life of the entry, the association of a device, the
fixes of trackers, the resolver without associations, and discovery with its
review, with the proofs above. Next, in this order:

1. Proofs: the populations of `Residents`, with the lemmas about sums of
   `SumProofs`.
2. `Association` for two devices of one owner and two owners, whose claims of
   one target are a flag of the scene now; the deadlines of room candidates.
3. Hand-offs in `Residents`, composed with `Association`.
4. A setup that Home Assistant cancels, as a variant of `Lifecycle`.
