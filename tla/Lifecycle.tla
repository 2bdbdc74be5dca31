----------------------------- MODULE Lifecycle -----------------------------
(***************************************************************************)
(* HomeAssistantPresenceRuntime (ha_runtime.py) from setup to shutdown, as *)
(* async_setup_entry and async_unload_entry (__init__.py) drive it: what   *)
(* it loads, listens to, subscribes, arms and saves, on one event loop     *)
(* where anything may run while a coroutine awaits.                        *)
(*                                                                         *)
(* What the engine holds is a number, the version of its exported state:   *)
(* a handler that may change it makes a new version.  Zero is the state of *)
(* an engine that never held anything.                                     *)
(***************************************************************************)
EXTENDS Naturals, FiniteSets

CONSTANTS
    Topic,        \* the configured MQTT topics
    MaxVersion    \* bound of the model on the versions of the state

ASSUME TopicAssumption == IsFiniteSet(Topic) /\ Topic # {}
ASSUME VersionAssumption == MaxVersion \in Nat

\* The coroutines of the entry.  A name is what it awaits:
\*   absent     the entry is not set up
\*   loading    async_setup awaits the store
\*   subscribing  async_setup awaits a topic
\*   forwarding   async_setup_entry awaits the platforms
\*   running    nothing: the entry is loaded
\*   cancelling   async_shutdown awaits the tasks it cancelled
\*   saving     async_shutdown awaits the last save
Stage == {"absent", "loading", "subscribing", "forwarding", "running",
          "cancelling", "saving"}

VARIABLES
    stage,
    stopping,    \* _stopping
    listening,   \* the state listener is in _unsubscribers
    expecting,   \* so is the listener of loaded components
    held,        \* the topics whose unsubscribers are there
    taken,       \* the topics of the subscriptions of a running coroutine
    bound,       \* what the MQTT client delivers to this runtime
    subscribed,  \* _mqtt_subscribed
    task,        \* _mqtt_task is running
    fetching,    \* _face_task is running
    armed,       \* an expiration timer is installed
    engine,      \* the version of the engine's state
    due,         \* a delayed save is scheduled
    disk,        \* the version that is saved
    mqtt,        \* the MQTT component is loaded
    refused      \* a subscription failed since MQTT was loaded

control == <<stage, stopping, listening, expecting, task, fetching>>
topics == <<held, taken, bound, subscribed>>
state == <<engine, due, disk>>
world == <<mqtt, refused>>
entryVars == <<control, topics, state, armed, world>>

EntryTypes ==
    /\ stage \in Stage
    /\ {stopping, listening, expecting, subscribed, task, fetching,
        armed, due, mqtt, refused} \subseteq BOOLEAN
    /\ held \subseteq Topic /\ bound \subseteq Topic
    /\ taken \in (SUBSET Topic) \ {Topic}
    /\ engine \in Nat /\ disk \in Nat

-----------------------------------------------------------------------------
(***************************************************************************)
(* Steps several handlers share.                                           *)
(***************************************************************************)

\* Slip: the change is not scheduled for saving.
HandledUnsaved ==
    /\ engine' \in {engine, engine + 1} /\ engine' <= MaxVersion
    /\ armed' \in BOOLEAN
    /\ UNCHANGED <<due, disk>>

\* A handler that ran under the lock: the state may have changed, a save is
\* scheduled and the timer is installed anew if anything can expire.
Handled ==
    /\ engine' \in {engine, engine + 1} /\ engine' <= MaxVersion
    /\ due' = TRUE
    /\ armed' \in BOOLEAN
    /\ UNCHANGED disk

\* The start of _async_subscribe_mqtt; taken from its second topic on.
MaySubscribe == ~subscribed /\ ~stopping

\* What is left of a runtime when it is gone.
Gone ==
    /\ stopping' = FALSE /\ listening' = FALSE /\ expecting' = FALSE
    /\ task' = FALSE /\ fetching' = FALSE /\ armed' = FALSE
    /\ held' = {} /\ taken' = {} /\ bound' = {} /\ subscribed' = FALSE

\* The except clause of _async_subscribe_mqtt.
Released == taken' = {} /\ bound' = bound \ taken

-----------------------------------------------------------------------------
EntryInit ==
    /\ stage = "absent"
    /\ stopping = FALSE /\ listening = FALSE /\ expecting = FALSE
    /\ task = FALSE /\ fetching = FALSE /\ armed = FALSE
    /\ held = {} /\ taken = {} /\ bound = {} /\ subscribed = FALSE
    /\ engine = 0 /\ due = FALSE /\ disk = 0
    /\ mqtt = FALSE /\ refused = FALSE

\* async_setup_entry makes a runtime, which awaits its store.
SetUp ==
    /\ stage = "absent"
    /\ stage' = "loading"
    /\ engine' = 0
    /\ UNCHANGED <<stopping, listening, expecting, task, fetching, topics,
                   due, disk, armed, world>>

\* Slip: MQTT is left to its load event.
LoadedExpecting ==
    /\ stage = "loading"
    /\ engine' \in {disk, disk + 1} /\ engine' <= MaxVersion
    /\ due' = TRUE /\ armed' \in BOOLEAN
    /\ listening' = TRUE
    /\ stage' = "forwarding" /\ expecting' = TRUE
    /\ UNCHANGED <<stopping, task, fetching, topics, disk, world>>

\* Slip: the stored state is not restored.
LoadedAnew ==
    /\ stage = "loading"
    /\ engine' \in {0, 1} /\ engine' <= MaxVersion
    /\ due' = TRUE /\ armed' \in BOOLEAN
    /\ listening' = TRUE
    /\ stage' = "forwarding" /\ expecting' = TRUE
    /\ UNCHANGED <<stopping, task, fetching, topics, disk, world>>

\* The store answers: restore, listen, seed every entity; then the topics, if
\* MQTT is loaded, else their sources are marked unavailable and the rest of
\* async_setup runs without another await.
Loaded ==
    /\ stage = "loading"
    /\ engine' \in {disk, disk + 1} /\ engine' <= MaxVersion
    /\ due' = TRUE /\ armed' \in BOOLEAN
    /\ listening' = TRUE
    /\ \/ /\ mqtt /\ MaySubscribe
          /\ stage' = "subscribing"
          /\ UNCHANGED expecting
       \/ /\ ~(mqtt /\ MaySubscribe)
          /\ stage' = "forwarding"
          /\ expecting' = TRUE
    /\ UNCHANGED <<stopping, task, fetching, topics, disk, world>>

\* The store fails: async_setup_entry shuts the empty runtime down.
LoadFails ==
    /\ stage = "loading"
    /\ stage' = "cancelling"
    /\ stopping' = TRUE
    /\ UNCHANGED <<listening, expecting, task, fetching, topics, state, armed, world>>

\* A topic is subscribed; with the last one the runtime owns them all, and
\* async_setup goes on.
Subscribe(t) ==
    /\ stage = "subscribing" \/ task
    /\ t \in Topic \ taken
    /\ bound' = bound \cup {t}
    /\ IF taken \cup {t} = Topic
       THEN /\ held' = Topic /\ taken' = {} /\ subscribed' = TRUE
            /\ task' = FALSE
            /\ IF stage = "subscribing"
               THEN stage' = "forwarding" /\ expecting' = TRUE /\ armed' \in BOOLEAN
               ELSE UNCHANGED <<stage, expecting, armed>>
       ELSE /\ taken' = taken \cup {t}
            /\ UNCHANGED <<held, subscribed, task, stage, expecting, armed>>
    /\ UNCHANGED <<stopping, listening, fetching, state, world>>

\* A topic is refused: what the coroutine subscribed is released, and setup
\* fails or the task ends with the error.
SubscribeFails ==
    /\ stage = "subscribing" \/ task
    /\ Released
    /\ refused' = TRUE
    /\ IF stage = "subscribing"
       THEN stage' = "cancelling" /\ stopping' = TRUE /\ UNCHANGED task
       ELSE task' = FALSE /\ UNCHANGED <<stage, stopping>>
    /\ UNCHANGED <<listening, expecting, fetching, held, subscribed, state, armed, mqtt>>

\* The platforms are set up, or fail and the entry is shut down.
Forwarded ==
    /\ stage = "forwarding"
    /\ \/ stage' = "running" /\ UNCHANGED stopping
       \/ stage' = "cancelling" /\ stopping' = TRUE
    /\ UNCHANGED <<listening, expecting, task, fetching, topics, state, armed, world>>

\* The MQTT component is loaded, once in the life of Home Assistant; a runtime
\* that expects it starts to subscribe.
MqttLoads ==
    /\ ~mqtt /\ mqtt' = TRUE
    /\ task' = (task \/ (expecting /\ MaySubscribe))
    /\ UNCHANGED <<stage, stopping, listening, expecting, fetching, topics, state,
                   armed, refused>>

\* An entity changes or disappears.
StateChanged ==
    /\ listening
    /\ Handled
    /\ UNCHANGED <<control, topics, world>>

\* A message of a topic is delivered, also one of the first topics while the
\* last is being subscribed.
Message ==
    /\ bound # {}
    /\ Handled
    /\ UNCHANGED <<control, topics, world>>

\* The timer fires: refresh changes what is shown, not what is exported.
Expired ==
    /\ armed
    /\ armed' \in BOOLEAN
    /\ UNCHANGED <<control, topics, state, world>>

\* A registry changes and no reload follows: the review is scheduled for saving.
Reviewed ==
    /\ stage \in {"subscribing", "forwarding", "running"} /\ ~stopping
    /\ engine' \in {engine, engine + 1} /\ engine' <= MaxVersion
    /\ due' = TRUE
    /\ UNCHANGED <<control, topics, disk, armed, world>>

\* A user asks for the face catalogue; requests share one task.
RefreshFaces ==
    /\ stage = "running" /\ ~stopping
    /\ fetching' = TRUE
    /\ UNCHANGED <<stage, stopping, listening, expecting, task, topics, state, armed, world>>

\* The catalogue answers, or fails.
FacesAnswer ==
    /\ fetching /\ fetching' = FALSE
    /\ \/ /\ ~stopping
          /\ engine' \in {engine, engine + 1} /\ engine' <= MaxVersion
          /\ due' = TRUE
       \/ UNCHANGED <<engine, due>>
    /\ UNCHANGED <<stage, stopping, listening, expecting, task, topics, disk, armed, world>>

\* The delayed save runs: it exports the state of that moment.
DelayedSave ==
    /\ due
    /\ disk' = engine /\ due' = FALSE
    /\ UNCHANGED <<control, topics, engine, armed, world>>

\* The entry is unloaded: async_shutdown cancels the face and the MQTT tasks
\* and awaits them.
Unload ==
    /\ stage = "running"
    /\ stage' = "cancelling" /\ stopping' = TRUE
    /\ UNCHANGED <<listening, expecting, task, fetching, topics, state, armed, world>>

\* Slip: the timer is cancelled before the tasks are awaited, and a message
\* arms it again.
CancelledArmed ==
    /\ stage = "cancelling"
    /\ stage' = "saving"
    /\ task' = FALSE /\ fetching' = FALSE
    /\ listening' = FALSE /\ expecting' = FALSE
    /\ held' = {} /\ taken' = {} /\ bound' = bound \ (held \cup taken)
    /\ due' = FALSE
    /\ UNCHANGED <<stopping, subscribed, engine, disk, armed, world>>

\* They have ended, each releasing what it had: the timer is cancelled, every
\* listener and subscription removed, and the state exported to be saved, which
\* takes the place of a delayed save.
Cancelled ==
    /\ stage = "cancelling"
    /\ stage' = "saving"
    /\ task' = FALSE /\ fetching' = FALSE /\ armed' = FALSE
    /\ listening' = FALSE /\ expecting' = FALSE
    /\ held' = {} /\ taken' = {} /\ bound' = bound \ (held \cup taken)
    /\ due' = FALSE
    /\ UNCHANGED <<stopping, subscribed, engine, disk, world>>

\* The last save is written and the runtime is dropped.
Saved ==
    /\ stage = "saving"
    /\ stage' = "absent"
    /\ disk' = engine
    /\ stopping' = FALSE /\ subscribed' = FALSE
    /\ UNCHANGED <<listening, expecting, task, fetching, held, taken, bound,
                   engine, due, armed, world>>

\* Home Assistant begins to stop: optional work ends, evidence is still taken.
HaStop ==
    /\ stage # "absent" /\ ~stopping
    /\ stopping' = TRUE /\ fetching' = FALSE
    /\ UNCHANGED <<stage, listening, expecting, task, topics, state, armed, world>>

\* The process ends, after the final write of a delayed save or without it.
Exit ==
    /\ \/ disk' = engine /\ due /\ stopping
       \/ UNCHANGED disk
    /\ stage' = "absent" /\ Gone
    /\ due' = FALSE /\ engine' = 0
    /\ mqtt' = FALSE /\ refused' = FALSE

EntryNext ==
    \/ SetUp \/ Loaded \/ LoadFails \/ Forwarded
    \/ \E t \in Topic : Subscribe(t)
    \/ SubscribeFails \/ MqttLoads
    \/ StateChanged \/ Message \/ Expired \/ Reviewed
    \/ RefreshFaces \/ FacesAnswer \/ DelayedSave
    \/ Unload \/ Cancelled \/ Saved \/ HaStop \/ Exit

\* The MQTT client answers a subscription, with success or with an error.
\* Nothing else is owed: no message, no event and no end of the process.
Fairness == WF_entryVars(SubscribeFails \/ \E t \in Topic : Subscribe(t))

EntrySpec == EntryInit /\ [][EntryNext]_entryVars /\ Fairness

-----------------------------------------------------------------------------
\* Of an entry that is unloaded, or whose setup failed at any await, nothing is
\* left: no subscription, listener, timer, task or delayed save, already while
\* the last save is written, so that what is saved is the last word and no
\* forgotten callback writes over the state of the next runtime
\* (async_shutdown, called from async_unload_entry and async_setup_entry).
NothingOutlivesTheEntry ==
    stage \in {"absent", "saving"} =>
        /\ bound = {} /\ held = {} /\ taken = {}
        /\ ~listening /\ ~expecting /\ ~task /\ ~fetching
        /\ ~armed /\ ~due

\* The MQTT client delivers exactly what the runtime can unsubscribe, the
\* runtime owns all topics or none, and at most one coroutine subscribes at a
\* time, whenever MQTT is loaded and whatever fails (_async_subscribe_mqtt and
\* _async_component_loaded).
SubscriptionsAreWhole ==
    /\ bound = held \cup taken
    /\ held \in {{}, Topic}
    /\ held = Topic <=> subscribed /\ stage \notin {"absent", "saving"}
    /\ stage = "subscribing" => ~task
    /\ taken # {} => stage \in {"subscribing", "cancelling"} \/ task

\* No change waits for luck: while the entry lives, a state newer than the
\* saved one is scheduled for saving (_async_process, _async_mark_unavailable,
\* _refresh_source_review and _async_refresh_faces).
ChangesAreScheduled ==
    engine > disk /\ stage # "saving" => due

\* However setup and the load event of MQTT interleave, a loaded entry in a
\* loaded MQTT gets its topics, unless one is refused or it stops
\* (async_setup checks for MQTT and then listens, without an await between).
MqttIsSubscribed ==
    (stage = "running" /\ mqtt) ~> (subscribed \/ refused \/ stopping \/ stage # "running")

\* What was saved is not replaced by less, so that a version that is put back
\* finds the evidence that was kept (docs/rollback.md:3-5), with one exception:
\* a setup whose store cannot be read saves the engine that restored nothing.
OnlyAFailedSetupSavesLess ==
    [][disk' < disk => stage = "saving" /\ engine = 0]_entryVars
=============================================================================
