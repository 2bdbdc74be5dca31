---------------------------- MODULE SourceReview ----------------------------
(***************************************************************************)
(* Which sources the engine runs with, and which it offers for review:     *)
(* apply_discovery and review_candidates (discovery.py) over the entity    *)
(* registry, the forms of the configuration flow (config_flow.py) over the *)
(* entry's configuration, and _refresh_source_review (ha_runtime.py) with  *)
(* the registry events that call it, through reloads and restarts.         *)
(*                                                                         *)
(* A source has one entity.  Two families stand for all: radars, which are *)
(* ready once their area is configured, and trackers (Wi-Fi, receiver      *)
(* distances), which need metadata of their state and are never ready.     *)
(***************************************************************************)
EXTENDS Naturals, FiniteSets

CONSTANTS
    Entry,        \* entries of the entity registry, by registry id
    Tracker,      \* those of them that are trackers; the others are radars
    Name,         \* entity ids
    NameOf,       \* NameOf[e]: the names entry e may be given
    KindOf,       \* KindOf[e]: what it may be to discovery
    Device,
    DeviceOf,     \* DeviceOf[e]: its device, or Missing
    Missing,
    InitialRegistries,  \* the registries the entry may be set up with
    MaxEvents     \* bound of the model: changes of the registry, edits of the
                  \* user and ends of the process, together

ASSUME EntryAssumption == IsFiniteSet(Entry) /\ Tracker \subseteq Entry
ASSUME NameAssumption == NameOf \in [Entry -> SUBSET Name]
ASSUME DeviceAssumption == DeviceOf \in [Entry -> Device \cup {Missing}]
Reviews == [seen: SUBSET Entry, announced: SUBSET Entry]

ASSUME MissingAssumption == Missing \notin Device \cup Entry /\ Missing \notin Reviews
ASSUME BoundAssumption == MaxEvents \in Nat

\* What discover_candidate makes of an entry: no candidate (`other', disabled
\* or unknown), no candidate until its state tells its capability (`waiting'),
\* one that misses configuration or one that is ready.  An entry that is
\* `absent' is not in the registry; when it is created, or created again, the
\* registry gives it the name it holds for it.
Kind == {"absent", "other", "waiting", "unready", "ready"}

ASSUME KindAssumption ==
    /\ KindOf \in [Entry -> SUBSET Kind]
    /\ \A e \in Tracker : "ready" \notin KindOf[e]
    /\ \A e \in Entry \ Tracker : "waiting" \notin KindOf[e]

Registered(r) == {e \in Entry : r[e].kind # "absent"}
Entries(e) == [name: NameOf[e], kind: KindOf[e]]
Registries ==
    {r \in [Entry -> [name: Name, kind: Kind]] :
        /\ \A e \in Entry : r[e] \in Entries(e)
        /\ \A e, x \in Registered(r) : e # x => r[e].name # r[x].name}

ASSUME RegistryAssumption == InitialRegistries \subseteq Registries

Sources == [entry: Entry, name: Name, enabled: BOOLEAN, auto: BOOLEAN]
Configurations ==
    [sources: SUBSET Sources, ignored: SUBSET Entry, review: SUBSET Entry,
     notify: BOOLEAN]

VARIABLES
    registry,    \* the entity registry with the states its metadata is from
    config,      \* the entry's configuration
    comparison,  \* the option comparison_mode
    stage,       \* down, loading (awaits the store), subscribing (awaits a
                 \* topic), up
    reload,      \* a reload is scheduled
    missed,      \* the registry changed while a setup was not yet listening
    unresolved,  \* history: the entries of sources that setup did not find
    active,      \* engine.configuration.sources
    settings,    \* _review_settings, with the rest of what setup was given
    pending,     \* pending_discovery
    seen,        \* _review_seen
    announced,   \* _review_announced
    watched,     \* the names _review_state_unsubscribe is for
    notice,      \* devices the notification on display speaks of; 0: none
    saved,       \* seen and announced in the store, or Missing
    met,         \* history: what was offered before, as far as it is saved
    draft,       \* the draft of the flow, or Missing
    step,        \* the form the user sees
    picked,      \* _review_registry_id
    chosen,      \* the source the form is about (_key, _suggested_source)
    events       \* events so far

runtime == <<active, settings, pending, seen, announced, watched, notice>>
flow == <<draft, step, picked, chosen>>
vars == <<registry, config, comparison, stage, reload, missed, unresolved, runtime,
          saved, met, flow, events>>

-----------------------------------------------------------------------------
(***************************************************************************)
(* Discovery: functions of a configuration c and a registry r.             *)
(***************************************************************************)

Candidates(r) == {e \in Registered(r) : r[e].kind \in {"unready", "ready"}}

Bound(sources) == {s.entry : s \in sources}
Names(sources) == {s.name : s \in sources}
EnabledNames(sources) == Names({s \in sources : s.enabled})

\* The devices some source, enabled or not, has an entity of.
Represented(sources, r) ==
    {DeviceOf[e] : e \in {x \in Registered(r) : \/ x \in Bound(sources)
                                                \/ r[x].name \in Names(sources)}}
        \ {Missing}

\* Slip: the configured entity ids are taken as they are.
ResolvedAsNamed(sources, r) == sources

\* resolve_raw_registry_bindings
Resolved(sources, r) ==
    {[s EXCEPT !.name = IF s.entry \in Registered(r) THEN r[s.entry].name ELSE @] :
        s \in sources}

\* apply_discovery: the candidates that become sources of their own accord.
Activated(c, r) ==
    {e \in Candidates(r) \ c.ignored :
        /\ r[e].name \notin Names(c.sources)
        /\ DeviceOf[e] \notin Represented(c.sources, r)
        /\ r[e].kind = "ready"
        /\ e \notin c.review}

\* _candidate_source
Automatic(e, r) ==
    [entry |-> e, name |-> r[e].name, enabled |-> TRUE, auto |-> TRUE]

Planned(c, r) == c.sources \cup {Automatic(e, r) : e \in Activated(c, r)}

\* review_candidates
Offered(sources, r) ==
    {e \in Candidates(r) \ Bound(sources) :
        /\ r[e].name \notin Names(sources)
        /\ DeviceOf[e] \notin Represented(sources, r) \/ e \in Tracker}

-----------------------------------------------------------------------------
(***************************************************************************)
(* _refresh_source_review, over the registry r; old is what was seen and   *)
(* announced before.                                                       *)
(***************************************************************************)

Alerts == settings'.notify /\ ~comparison

\* The notification counts devices; an entry without one stands for itself.
Groups(entries) ==
    Cardinality({IF DeviceOf[e] # Missing THEN DeviceOf[e] ELSE e : e \in entries})

\* Slip: only what is on offer now is remembered.
RememberedNow(old, current, r) == current \cup (settings'.ignored \cap Registered(r))

Remembered(old, current, r) ==
    ((old.seen \cup settings'.ignored) \cap Registered(r)) \cup current

\* Slip: the notification is left alone when nothing announced is left.
NotifiedOnly(old, new, now, before) ==
    IF Alerts /\ now # {} /\ (new # {} \/ now # old) THEN Groups(now)
    ELSE IF ~Alerts THEN 0 ELSE before

\* What the notification says then: new are the newcomers to announce, now
\* what is announced, before what the notification said.
Notified(old, new, now, before) ==
    IF Alerts /\ now # {} /\ (new # {} \/ now # old) THEN Groups(now)
    ELSE IF ~Alerts \/ (old # {} /\ now = {}) THEN 0
    ELSE before

\* Slip: entries that were on offer before are not watched again.
WatchedOnce(current, r) ==
    {r[e].name : e \in {x \in Registered(r) \ (settings'.ignored \cup current \cup seen) :
                          /\ r[x].kind = "waiting"
                          /\ r[x].name \notin EnabledNames(active')}}

\* Trackers whose metadata is not there yet.
Watched(current, r) ==
    {r[e].name : e \in {x \in Registered(r) \ (settings'.ignored \cup current) :
                          /\ r[x].kind = "waiting"
                          /\ r[x].name \notin EnabledNames(active')}}

RefreshReview(old, baseline, r) ==
    LET current == Offered(active', r) \ settings'.ignored
        new == IF baseline THEN {} ELSE current \ old.seen
        now == (old.announced \cap current) \cup (IF Alerts THEN new ELSE {})
    IN  /\ pending' = current
        /\ seen' = Remembered(old, current, r)
        /\ announced' = now
        /\ notice' = Notified(old.announced, new, now, notice)
        /\ watched' = Watched(current, r)
        /\ met' = (met \cap Registered(r)) \cup current

Reviewed == [seen |-> seen, announced |-> announced]

-----------------------------------------------------------------------------
(***************************************************************************)
(* The registries and the runtime that listens to them.                    *)
(***************************************************************************)

Event == events < MaxEvents /\ events' = events + 1

Unheard ==
    /\ missed' = (missed \/ stage \in {"loading", "subscribing"})
    /\ UNCHANGED <<runtime, reload>>

Heard ==
    /\ UNCHANGED <<active, settings, reload, missed>>
    /\ RefreshReview(Reviewed, FALSE, registry')

Reloading ==
    /\ reload' = TRUE
    /\ UNCHANGED <<runtime, met, missed>>

NamesAt(r, e) == IF e \in Registered(r) THEN {r[e].name} ELSE {}

\* Slip: the name the entity had before the change is not compared.
TouchedNow(e) == NamesAt(registry', e) \cap EnabledNames(active) # {}

\* The event is about an entity of an enabled source.
Touched(e) ==
    (NamesAt(registry, e) \cup NamesAt(registry', e)) \cap EnabledNames(active) # {}

\* An entity is created, renamed, enabled, disabled or removed, or its own
\* area is changed: _async_registry_changed.
EntityChanged(e) ==
    /\ Event
    /\ \E entry \in Entries(e) :
        /\ entry # registry[e]
        /\ "absent" \in {entry.kind, registry[e].kind} => entry.name = registry[e].name
        /\ entry.kind # "absent" => entry.name \notin
                {registry[x].name : x \in Registered(registry) \ {e}}
        /\ registry' = [registry EXCEPT ![e] = entry]
        /\ IF stage # "up" THEN Unheard /\ met' = met \cap Registered(registry')
           ELSE IF \/ Touched(e)
                   \/ Activated([settings EXCEPT !.sources = active], registry') # {}
           THEN /\ reload' = TRUE
                /\ met' = met \cap Registered(registry')
                /\ UNCHANGED <<runtime, missed>>
           ELSE Heard
    /\ UNCHANGED <<config, comparison, stage, unresolved, saved, flow>>

\* A device gets or loses its area: _async_device_registry_changed.
DeviceMoved(d) ==
    /\ Event
    /\ \E kind \in {"ready", "unready"} :
        LET moved == {e \in Registered(registry) \ Tracker :
                        DeviceOf[e] = d /\ registry[e].kind # "other"}
        IN  /\ \E e \in moved : registry[e].kind # kind
            /\ registry' = [e \in Entry |-> IF e \in moved
                                THEN [registry[e] EXCEPT !.kind = kind]
                                ELSE registry[e]]
    /\ IF stage # "up" THEN Unheard /\ UNCHANGED met
       ELSE IF \E e \in Registered(registry') :
                    DeviceOf[e] = d /\ registry'[e].name \in EnabledNames(active)
       THEN Reloading
       ELSE Heard
    /\ UNCHANGED <<config, comparison, stage, unresolved, saved, flow>>

\* The state of a tracker comes with its metadata, or goes without it:
\* _async_review_state_changed, if the tracker is watched.
StateTold(e) ==
    /\ Event
    /\ \/ registry[e].kind = "waiting" /\ registry' = [registry EXCEPT ![e].kind = "unready"]
       \/ /\ registry[e].kind = "unready" /\ e \in Tracker
          /\ registry' = [registry EXCEPT ![e].kind = "waiting"]
    /\ IF stage \in {"subscribing", "up"} /\ registry[e].name \in watched
       THEN Heard
       ELSE UNCHANGED <<runtime, reload, missed, met>>
    /\ UNCHANGED <<config, comparison, stage, unresolved, saved, flow>>

\* What is left of a runtime when it is gone.
Gone ==
    /\ stage' = "down" /\ reload' = FALSE /\ missed' = FALSE /\ unresolved' = {}
    /\ active' = {} /\ settings' = config /\ pending' = {}
    /\ seen' = {} /\ announced' = {} /\ watched' = {}

\* async_setup_entry up to the await of the store.
Plan ==
    /\ stage = "down"
    /\ stage' = "loading"
    /\ unresolved' = Bound(config.sources) \ Registered(registry)
    /\ settings' = [config EXCEPT !.sources = Resolved(@, registry)]
    /\ active' = Planned(settings', registry)
    /\ UNCHANGED <<registry, config, comparison, reload, missed, pending, seen, announced,
                   watched, notice, saved, met, flow, events>>

\* The store answers: the review of the last run is restored and refreshed.
Restore ==
    /\ stage = "loading"
    /\ stage' = "subscribing"
    /\ UNCHANGED <<active, settings>>
    /\ IF saved = Missing
       THEN RefreshReview([seen |-> {}, announced |-> {}], TRUE, registry)
       ELSE RefreshReview(saved, FALSE, registry)
    /\ UNCHANGED <<registry, config, comparison, reload, missed, unresolved, saved,
                   flow, events>>

\* The end of async_setup: the listeners of the registries are added.
Listen ==
    /\ stage = "subscribing"
    /\ stage' = "up"
    /\ UNCHANGED <<registry, config, comparison, reload, missed, unresolved, runtime,
                   saved, met, flow, events>>

DelayedSave ==
    /\ stage \in {"subscribing", "up"}
    /\ saved # Reviewed
    /\ saved' = Reviewed
    /\ UNCHANGED <<registry, config, comparison, stage, reload, missed, unresolved,
                   runtime, met, flow, events>>

\* The reload that was scheduled begins: async_shutdown, with its save.
Unload ==
    /\ stage = "up" /\ reload
    /\ Gone
    /\ saved' = Reviewed
    /\ UNCHANGED <<registry, config, comparison, notice, met, flow, events>>

\* No flow is open.
Closed == draft' = Missing /\ step' = "none" /\ picked' = Missing /\ chosen' = Missing

\* The process ends; a stop in order is one after DelayedSave.  Notifications,
\* flows and states are gone.
Exit ==
    /\ Event
    /\ stage # "down"
    /\ Gone
    /\ notice' = 0
    /\ met' = IF saved = Missing THEN {} ELSE met \cap saved.seen
    /\ \E silent \in SUBSET {e \in Tracker \cap Registered(registry) :
                                registry[e].kind = "unready"} :
        registry' = [e \in Entry |-> IF e \in silent
                        THEN [registry[e] EXCEPT !.kind = "waiting"]
                        ELSE registry[e]]
    /\ Closed
    /\ UNCHANGED <<config, comparison, saved>>

-----------------------------------------------------------------------------
(***************************************************************************)
(* The configuration flow.  The framework gives it one form at a time;     *)
(* what a form offers is what the registry says when it is submitted.      *)
(***************************************************************************)

world == <<registry, comparison, stage, missed, unresolved, runtime, saved, met>>

\* async_step_menu
Menu == step' = "menu" /\ picked' = Missing /\ chosen' = Missing

\* async_step_reconfigure
OpenFlow ==
    /\ draft = Missing /\ stage = "up"
    /\ UNCHANGED events
    /\ draft' = [config EXCEPT !.sources = Resolved(@, registry)]
    /\ Menu
    /\ UNCHANGED <<world, config, reload>>

\* A source chosen from the menu is enabled, disabled or excluded
\* (delete_item): async_step_sources with async_step_source_edit.
EditSource(s) ==
    /\ step = "menu" /\ s \in draft.sources
    /\ Event
    /\ draft' = [draft EXCEPT
                    !.sources = (@ \ {s}) \cup {[s EXCEPT !.enabled = ~s.enabled]}]
    /\ Menu
    /\ UNCHANGED <<world, config, reload>>

\* async_step_discovery is shown.
OpenDiscovery ==
    /\ step = "menu"
    /\ UNCHANGED events
    /\ step' = "discovery"
    /\ UNCHANGED <<world, config, reload, draft, picked, chosen>>

\* async_step_discovery is submitted with the switch for alerts and with: back,
\* a source that is active by itself, or a channel to review.
SubmitDiscovery(notify) ==
    /\ step = "discovery"
    /\ IF notify = draft.notify THEN UNCHANGED events ELSE Event
    /\ \/ /\ draft' = [draft EXCEPT !.notify = notify]
          /\ Menu
       \/ \E e \in Activated(draft, registry) :
            LET source == Automatic(e, registry)
            IN  /\ \A s \in draft.sources : s.auto => s.entry # e
                /\ draft' = [draft EXCEPT !.notify = notify, !.sources = @ \cup {source}]
                /\ chosen' = source
                /\ step' = "source"
                /\ UNCHANGED picked
       \/ \E e \in draft.ignored \cup Offered(Planned(draft, registry), registry) :
            /\ draft' = [draft EXCEPT !.notify = notify]
            /\ picked' = e
            /\ step' = "review"
            /\ UNCHANGED chosen
    /\ UNCHANGED <<world, config, reload>>

\* async_step_discovery_review: `later'.
Later ==
    /\ step = "review"
    /\ UNCHANGED events
    /\ Menu
    /\ UNCHANGED <<world, config, reload, draft>>

\* async_step_discovery_review: `ignore' or `restore', whichever is offered.
\* The list follows at once, not the menu.
Decide ==
    /\ step = "review"
    /\ Event
    /\ draft' = [draft EXCEPT
                    !.ignored = IF picked \in @ THEN @ \ {picked} ELSE @ \cup {picked},
                    !.review = @ \cup {picked}]
    /\ step' = "discovery"
    /\ UNCHANGED <<world, config, reload, picked, chosen>>

\* async_step_discovery_review: `add', with candidate_source_draft.
Add ==
    /\ step = "review"
    /\ picked \in Offered(draft.sources, registry) \ draft.ignored
    /\ UNCHANGED events
    /\ chosen' = [entry |-> picked, name |-> registry[picked].name,
                  enabled |-> TRUE, auto |-> FALSE]
    /\ step' = "source"
    /\ UNCHANGED <<world, config, reload, draft, picked>>

\* async_step_source_edit after one of these, in _edit: the form is submitted
\* with `enabled' or not; with `remove' a source that is in the draft is
\* disabled, and one that is not yet is not added.
SubmitSource ==
    /\ step = "source"
    /\ Event
    /\ \E enabled, remove \in BOOLEAN :
        draft' = [draft EXCEPT
            !.sources = IF remove /\ chosen \notin @ THEN @
                        ELSE (@ \ {chosen}) \cup
                                {[chosen EXCEPT !.enabled = enabled /\ ~remove]},
            !.ignored = @ \ {picked},
            !.review = @ \ {picked}]
    /\ Menu
    /\ UNCHANGED <<world, config, reload>>

\* The user closes the dialogue.
Abort ==
    /\ draft # Missing
    /\ Closed
    /\ UNCHANGED <<world, config, reload, events>>

\* async_step_save
Save ==
    /\ step = "menu"
    /\ config' = draft
    /\ reload' = (reload \/ config # draft)
    /\ Closed
    /\ UNCHANGED <<world, events>>

\* The options flow: the option comparison_mode is switched.
SwitchComparison ==
    /\ stage = "up"
    /\ Event
    /\ comparison' = ~comparison
    /\ reload' = TRUE
    /\ UNCHANGED <<registry, config, stage, missed, unresolved, runtime, saved, met, flow>>

-----------------------------------------------------------------------------
Init ==
    /\ registry \in InitialRegistries
    /\ config = [sources |-> {}, ignored |-> {}, review |-> {}, notify |-> TRUE]
    /\ comparison = FALSE
    /\ stage = "down" /\ reload = FALSE /\ missed = FALSE /\ unresolved = {}
    /\ active = {} /\ settings = config
    /\ pending = {} /\ seen = {} /\ announced = {} /\ watched = {} /\ met = {}
    /\ notice = 0 /\ saved = Missing
    /\ draft = Missing /\ step = "none" /\ picked = Missing /\ chosen = Missing
    /\ events = 0

RegistryChanges ==
    \/ \E e \in Entry : EntityChanged(e) \/ StateTold(e)
    \/ \E d \in Device : DeviceMoved(d)

Runtime == Plan \/ Restore \/ Listen \/ DelayedSave \/ Unload \/ Exit

Flow ==
    \/ OpenFlow \/ OpenDiscovery \/ Later \/ Decide \/ Add \/ SubmitSource
    \/ Abort \/ Save \/ SwitchComparison
    \/ \E notify \in BOOLEAN : SubmitDiscovery(notify)
    \/ draft # Missing /\ \E s \in draft.sources : EditSource(s)

Next == RegistryChanges \/ Runtime \/ Flow

Spec == Init /\ [][Next]_vars

-----------------------------------------------------------------------------
(***************************************************************************)
(* Properties.                                                             *)
(***************************************************************************)

Settled == stage = "up" /\ ~reload

\* What the user decided about a channel stands: the engine runs no source of
\* its own accord for an entry that the configuration ignores, keeps for
\* review or already has a source for, disabled ones included, whatever is
\* renamed, removed or made ready, and through every restart.
DecisionsStand ==
    Settled => \A s \in active \ settings.sources :
        s.entry \notin config.ignored \cup config.review \cup Bound(config.sources)

\* The engine listens to the entity its sources are bound to: unless the
\* registry changed before the setup was listening, an enabled source whose
\* entry was registered at the setup has its present name, and one that
\* discovery added is for an entry that is still ready: not gone, disabled or
\* without its area since.
SourcesFollowTheRegistry ==
    Settled /\ ~missed => \A s \in {x \in active : x.enabled} :
        /\ s.entry \in Registered(registry) \ unresolved =>
            s.name = registry[s.entry].name
        /\ s.entry \notin Bound(config.sources) => registry[s.entry].kind = "ready"

\* Nothing compatible is withheld from review: whatever the order in which an
\* entry, its metadata and the setup come, it is offered, unless the registry
\* changed before the setup was listening.
NothingIsWithheld ==
    Settled /\ ~missed =>
        Offered(active, registry) \ settings.ignored \subseteq pending

\* The notification, while it is on display, speaks of what was announced and
\* is still to be reviewed, and of nothing when alerts are off.
NoticeIsTrue ==
    Settled /\ notice # 0 =>
        /\ settings.notify /\ ~comparison
        /\ announced # {} /\ announced \subseteq pending
        /\ notice = Groups(announced)

\* An entry is announced when it is first on offer or not at all: no lost
\* metadata, rename, reload or restart announces it again, but for what a
\* crash lost with an unsaved review.
AnnouncedOnce ==
    [][\A e \in announced' \
            (IF stage = "loading" /\ saved # Missing THEN saved.announced ELSE announced) :
            e \notin met]_vars

\* A submitted source form settles what was decided about the channel it is
\* about and about no other.
OthersKeepTheirDecision ==
    [][step = "source" /\ step' = "menu" =>
        \A e \in Entry \ {chosen.entry} :
            /\ e \in draft.ignored <=> e \in draft'.ignored
            /\ e \in draft.review <=> e \in draft'.review]_vars
=============================================================================
