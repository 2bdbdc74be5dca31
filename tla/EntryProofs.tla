---------------------------- MODULE EntryProofs ----------------------------
(***************************************************************************)
(* Proofs about a config entry that Home Assistant runs, and the evidence  *)
(* it holds.                                                               *)
(*                                                                         *)
(* Lifecycle: for any set of topics, and however the coroutines, tasks and *)
(* callbacks of the entry interleave, the MQTT client delivers exactly     *)
(* what the runtime can unsubscribe, nothing outlives the entry, and no    *)
(* change is left without a scheduled save.                                *)
(*                                                                         *)
(* DeviceFixes: a running entry tells what its tracker does, and dates no  *)
(* fix anew.  The argument hangs on the past: a record, in the store or    *)
(* saved, is not newer than the state of the tracker, and one that is of   *)
(* the same update says the same (Sound).  Hence the test for an older     *)
(* update never drops news, and what is left of it, the test for the same  *)
(* content, is what keeps clocks.                                          *)
(*                                                                         *)
(* EvidenceStore: the store merges without raising, stays in bounds, keeps *)
(* what is newer or worth more, and implements ClaimLedger, for every set  *)
(* of keys, dimensions, values and coherent observations.  The argument    *)
(* hangs on the stamps of a record: that of its lifecycle is not older     *)
(* than that of its count (Coupling), so that a merge of both is valid.    *)
(***************************************************************************)
EXTENDS Lifecycle, DeviceFixes, EvidenceStore, FiniteSetTheorems, TLAPS

-----------------------------------------------------------------------------
(***************************************************************************)
(* Lifecycle.                                                              *)
(***************************************************************************)

\* The types of the variables, one by one.
Types ==
    /\ stage \in Stage
    /\ stopping \in BOOLEAN /\ listening \in BOOLEAN /\ expecting \in BOOLEAN
    /\ subscribed \in BOOLEAN /\ task \in BOOLEAN /\ fetching \in BOOLEAN
    /\ armed \in BOOLEAN /\ due \in BOOLEAN /\ mqtt \in BOOLEAN
    /\ refused \in BOOLEAN
    /\ held \subseteq Topic /\ bound \subseteq Topic
    /\ taken \subseteq Topic /\ taken # Topic
    /\ engine \in Nat /\ disk \in Nat

\* Nobody waits for MQTT before setup has looked for it.
OnlyASetUpEntryExpects ==
    expecting \/ task => stage \in {"forwarding", "running", "cancelling"}

\* A coroutine that subscribes is the only one there will ever be: until it
\* has ended the runtime owns no topic.
OneSubscriber ==
    (task \/ stage = "subscribing" \/ taken # {}) => ~subscribed

\* A runtime that awaits its store has nothing yet.
LoadingIsEmpty ==
    /\ stage \in {"absent", "loading"} =>
         /\ ~subscribed /\ bound = {} /\ held = {} /\ taken = {}
         /\ ~listening /\ ~expecting /\ ~task /\ ~fetching /\ ~armed /\ ~due
    /\ stage = "loading" => engine = 0

\* An engine that has less than the disk restored nothing, and nothing that
\* could save it or add to it is there: its setup fails or has yet to load.
EmptyEngineIsIdle ==
    engine < disk =>
        /\ engine = 0
        /\ stage \in {"absent", "loading", "cancelling", "saving"}
        /\ ~listening /\ ~expecting /\ bound = {} /\ ~task /\ ~fetching /\ ~due

IInv ==
    /\ Types
    /\ NothingOutlivesTheEntry
    /\ SubscriptionsAreWhole
    /\ ChangesAreScheduled
    /\ OnlyASetUpEntryExpects
    /\ OneSubscriber
    /\ LoadingIsEmpty
    /\ EmptyEngineIsIdle

-----------------------------------------------------------------------------
LEMMA StepKeepsIInv == IInv /\ [EntryNext]_entryVars => IInv'
<1>. SUFFICES ASSUME IInv, [EntryNext]_entryVars PROVE IInv'
  OBVIOUS
<1>. USE TopicAssumption DEF IInv, Types, NothingOutlivesTheEntry, SubscriptionsAreWhole,
       ChangesAreScheduled, OnlyASetUpEntryExpects, OneSubscriber, LoadingIsEmpty,
       EmptyEngineIsIdle, Stage, control, topics, state, world
<1>1. CASE SetUp
  BY <1>1 DEF SetUp
<1>2. CASE Loaded
  <2>1. Types'
    <3>1. engine' \in Nat
      BY <1>2 DEF Loaded
    <3>. QED
      BY <1>2, <3>1 DEF Loaded, MaySubscribe
  <2>2. NothingOutlivesTheEntry'
    BY <1>2 DEF Loaded, MaySubscribe
  <2>3. SubscriptionsAreWhole'
    BY <1>2 DEF Loaded, MaySubscribe
  <2>4. ChangesAreScheduled'
    BY <1>2 DEF Loaded, MaySubscribe
  <2>5. OnlyASetUpEntryExpects'
    BY <1>2 DEF Loaded, MaySubscribe
  <2>6. OneSubscriber'
    BY <1>2 DEF Loaded, MaySubscribe
  <2>7. LoadingIsEmpty' /\ EmptyEngineIsIdle'
    BY <1>2 DEF Loaded, MaySubscribe
  <2>. QED
    BY <2>1, <2>2, <2>3, <2>4, <2>5, <2>6, <2>7
<1>3. CASE LoadFails
  BY <1>3 DEF LoadFails
<1>4. CASE SubscribeFails
  BY <1>4 DEF SubscribeFails, Released
<1>5. CASE Forwarded
  BY <1>5 DEF Forwarded
<1>6. CASE MqttLoads
  BY <1>6 DEF MqttLoads, MaySubscribe
<1>7. CASE StateChanged
  BY <1>7 DEF StateChanged, Handled
<1>8. CASE Message
  BY <1>8 DEF Message, Handled
<1>9. CASE Expired
  BY <1>9 DEF Expired
<1>10. CASE Reviewed
  BY <1>10 DEF Reviewed
<1>11. CASE RefreshFaces
  BY <1>11 DEF RefreshFaces
<1>12. CASE FacesAnswer
  <2>1. Types'
    <3>1. engine' \in Nat
      BY <1>12 DEF FacesAnswer
    <3>. QED
      BY <1>12, <3>1 DEF FacesAnswer
  <2>2. NothingOutlivesTheEntry'
    BY <1>12 DEF FacesAnswer
  <2>3. SubscriptionsAreWhole'
    BY <1>12 DEF FacesAnswer
  <2>4. ChangesAreScheduled'
    BY <1>12 DEF FacesAnswer
  <2>5. OnlyASetUpEntryExpects'
    BY <1>12 DEF FacesAnswer
  <2>6. OneSubscriber'
    BY <1>12 DEF FacesAnswer
  <2>7. LoadingIsEmpty' /\ EmptyEngineIsIdle'
    BY <1>12 DEF FacesAnswer
  <2>. QED
    BY <2>1, <2>2, <2>3, <2>4, <2>5, <2>6, <2>7
<1>13. CASE DelayedSave
  <2>1. Types'
    BY <1>13 DEF DelayedSave
  <2>2. NothingOutlivesTheEntry'
    BY <1>13 DEF DelayedSave
  <2>3. SubscriptionsAreWhole'
    BY <1>13 DEF DelayedSave
  <2>4. ChangesAreScheduled'
    BY <1>13 DEF DelayedSave
  <2>5. OnlyASetUpEntryExpects'
    BY <1>13 DEF DelayedSave
  <2>6. OneSubscriber'
    BY <1>13 DEF DelayedSave
  <2>7. LoadingIsEmpty' /\ EmptyEngineIsIdle'
    BY <1>13 DEF DelayedSave
  <2>. QED
    BY <2>1, <2>2, <2>3, <2>4, <2>5, <2>6, <2>7
<1>14. CASE Unload
  BY <1>14 DEF Unload
<1>15. CASE Cancelled
  BY <1>15 DEF Cancelled
<1>16. CASE Saved
  <2>1. Types'
    BY <1>16 DEF Saved
  <2>2. NothingOutlivesTheEntry'
    BY <1>16 DEF Saved
  <2>3. SubscriptionsAreWhole'
    BY <1>16 DEF Saved
  <2>4. ChangesAreScheduled'
    BY <1>16 DEF Saved
  <2>5. OnlyASetUpEntryExpects'
    BY <1>16 DEF Saved
  <2>6. OneSubscriber'
    BY <1>16 DEF Saved
  <2>7. LoadingIsEmpty' /\ EmptyEngineIsIdle'
    BY <1>16 DEF Saved
  <2>. QED
    BY <2>1, <2>2, <2>3, <2>4, <2>5, <2>6, <2>7
<1>17. CASE HaStop
  BY <1>17 DEF HaStop
<1>18. CASE Exit
  <2>1. Types'
    BY <1>18 DEF Exit, Gone
  <2>2. NothingOutlivesTheEntry'
    BY <1>18 DEF Exit, Gone
  <2>3. SubscriptionsAreWhole'
    BY <1>18 DEF Exit, Gone
  <2>4. ChangesAreScheduled'
    BY <1>18 DEF Exit, Gone
  <2>5. OnlyASetUpEntryExpects'
    BY <1>18 DEF Exit, Gone
  <2>6. OneSubscriber'
    BY <1>18 DEF Exit, Gone
  <2>7. LoadingIsEmpty' /\ EmptyEngineIsIdle'
    BY <1>18 DEF Exit, Gone
  <2>. QED
    BY <2>1, <2>2, <2>3, <2>4, <2>5, <2>6, <2>7
<1>19. ASSUME NEW t \in Topic, Subscribe(t) PROVE IInv'
  BY <1>19 DEF Subscribe
<1>20. CASE UNCHANGED entryVars
  BY <1>20 DEF entryVars
<1>. QED
  BY <1>1, <1>2, <1>3, <1>4, <1>5, <1>6, <1>7, <1>8, <1>9, <1>10,
     <1>11, <1>12, <1>13, <1>14, <1>15, <1>16, <1>17, <1>18, <1>19, <1>20 DEF EntryNext

LEMMA Initially == EntryInit => IInv
<1>. SUFFICES ASSUME EntryInit PROVE IInv
  OBVIOUS
<1>1. Types
  BY TopicAssumption DEF EntryInit, Types, Stage
<1>2. NothingOutlivesTheEntry /\ SubscriptionsAreWhole /\ OnlyASetUpEntryExpects
  BY TopicAssumption
     DEF EntryInit, NothingOutlivesTheEntry, SubscriptionsAreWhole, OnlyASetUpEntryExpects
<1>3. OneSubscriber /\ LoadingIsEmpty
  BY DEF EntryInit, OneSubscriber, LoadingIsEmpty
<1>4. ChangesAreScheduled /\ EmptyEngineIsIdle
  BY DEF EntryInit, ChangesAreScheduled, EmptyEngineIsIdle
<1>. QED
  BY <1>1, <1>2, <1>3, <1>4 DEF IInv

\* The strengthening holds in every reachable state.
THEOREM Invariance == EntrySpec => []IInv
<1>1. EntryInit => IInv
  BY Initially
<1>2. IInv /\ [EntryNext]_entryVars => IInv'
  BY StepKeepsIInv
<1>. QED
  BY <1>1, <1>2, PTL DEF EntrySpec

\* The runtime's variables have their types.
THEOREM EntryIsTyped == EntrySpec => []EntryTypes
<1>1. IInv => EntryTypes
  <2>. SUFFICES ASSUME Types PROVE EntryTypes
    BY DEF IInv
  <2>1. {stopping, listening, expecting, subscribed, task, fetching,
         armed, due, mqtt, refused} \subseteq BOOLEAN
    BY Zenon DEF Types
  <2>2. taken \in (SUBSET Topic) \ {Topic}
    BY DEF Types
  <2>. QED
    BY <2>1, <2>2 DEF Types, EntryTypes
<1>. QED
  BY Invariance, <1>1, PTL

\* For any topics, the client delivers what the runtime can unsubscribe, and
\* the runtime owns all topics or none (_async_subscribe_mqtt).
THEOREM WholeSubscriptions == EntrySpec => []SubscriptionsAreWhole
<1>1. IInv => SubscriptionsAreWhole
  BY DEF IInv
<1>. QED
  BY Invariance, <1>1, PTL

\* Nothing of an entry outlives it, whichever await its setup or its shutdown
\* was interrupted at (async_shutdown).
THEOREM NothingOutlives == EntrySpec => []NothingOutlivesTheEntry
<1>1. IInv => NothingOutlivesTheEntry
  BY DEF IInv
<1>. QED
  BY Invariance, <1>1, PTL

\* Every change waits for a scheduled save (_async_process).
THEOREM Scheduled == EntrySpec => []ChangesAreScheduled
<1>1. IInv => ChangesAreScheduled
  BY DEF IInv
<1>. QED
  BY Invariance, <1>1, PTL

\* Only the last save of a failed setup replaces a state by less
\* (async_setup_entry, async_shutdown).
THEOREM SavesKeepEvidence == EntrySpec => OnlyAFailedSetupSavesLess
<1>1. IInv /\ [EntryNext]_entryVars => [disk' < disk => stage = "saving" /\ engine = 0]_entryVars
  <2>. SUFFICES ASSUME IInv, EntryNext, disk' < disk
               PROVE  stage = "saving" /\ engine = 0
    OBVIOUS
  <2>1. engine \in Nat /\ disk \in Nat
    BY DEF IInv, Types
  <2>2. disk' = engine
    BY <2>1 DEF EntryNext, SetUp, Loaded, LoadFails, Forwarded, Subscribe,
         SubscribeFails, MqttLoads, StateChanged, Message, Handled, Expired,
         Reviewed, RefreshFaces, FacesAnswer, DelayedSave, Unload, Cancelled,
         Saved, HaStop, Exit, state, world
  <2>3. engine = 0 /\ ~due
    BY <2>2, <2>1 DEF IInv, EmptyEngineIsIdle
  <2>4. Saved
    BY <2>1, <2>2, <2>3 DEF EntryNext, SetUp, Loaded, LoadFails, Forwarded, Subscribe,
         SubscribeFails, MqttLoads, StateChanged, Message, Handled, Expired,
         Reviewed, RefreshFaces, FacesAnswer, DelayedSave, Unload, Cancelled,
         HaStop, Exit, state, world
  <2>. QED
    BY <2>3, <2>4 DEF Saved
<1>. QED
  BY Invariance, <1>1, PTL DEF EntrySpec, OnlyAFailedSetupSavesLess

-----------------------------------------------------------------------------
(***************************************************************************)
(* DeviceFixes.                                                            *)
(***************************************************************************)

\* A record r of an adapter a, when the tracker shows s, whose fixes are
\* dated no later than o by a provider.
Sound(r, a, s, o) ==
    r # NoRecord =>
        /\ r.stamp <= s.updated
        /\ r.spot # Nowhere => r.status = "active"
        /\ (r.status = "active") = (r.told = "fix")
        /\ (r.status = "ended") = (r.told = "away")
        /\ a # "wifi" => r.status = "active"
        /\ a = "gps_provider" => r.since <= o
        /\ (a = "wifi" /\ r.stamp = s.updated) =>
              r.told = s.shows /\ r.spot = Attachment(s)
        /\ (a = "gps" /\ r.stamp = s.updated) => r.spot = s.spot

\* RecordTellsTheNewest, of a record h.
Tells(h, a, s) ==
      CASE s.shows \in {"unreadable", "removed"} -> h = NoRecord
        [] a = "wifi" /\ s.shows \notin {"unreadable", "removed"} ->
              /\ h # NoRecord
              /\ h.told = s.shows
              /\ (h.status = "active") = (s.shows = "fix")
              /\ (h.status = "ended") = (s.shows = "away")
              /\ h.spot = s.spot
        [] a # "wifi" /\ s.shows \in {"unknown", "unavailable", "unsupported"} ->
              h = NoRecord
        [] a # "wifi" /\ s.shows = "fix" ->
              /\ h # NoRecord
              /\ \/ h.spot = s.spot
                 \/ a = "gps_provider" /\ h.stamp >= s.measured

\* A state of the tracker as Home Assistant writes it.
Written(s, a, o) ==
    /\ s \in Tracker
    /\ s.measured <= s.updated
    /\ (a = "wifi" /\ s.shows \notin {"fix", "unreadable"}) => s.spot = Nowhere
    /\ a # "wifi" => s.shows # "away"
    /\ a = "gps_provider" => s.measured <= o

\* The inductive invariant.
FixInv ==
    /\ FixTypeOK
    /\ tracker.updated = now
    /\ origin <= now
    /\ Written(tracker, adapter, origin)
    /\ Sound(record, adapter, tracker, origin)
    /\ Sound(savedRecord, adapter, tracker, origin)
    /\ running => Tells(record, adapter, tracker)
    /\ running => (record # NoRecord => record.binding = binding)
    /\ ~ running => record = NoRecord

USE DEF Adapter, Shown, Failure

-----------------------------------------------------------------------------

\* What processing a state makes of a record: it stays sound and says what the
\* tracker tells; a record that has the fix already keeps its clock.
LEMMA HeardIsRight ==
    ASSUME NEW a \in Adapter, NEW s, NEW o \in Instant, NEW b \in Binding,
           NEW r \in FixRecord \cup {NoRecord},
           Written(s, a, o), Sound(r, a, s, o)
    PROVE  /\ Heard(a, r, s, b) \in FixRecord \cup {NoRecord}
           /\ Sound(Heard(a, r, s, b), a, s, o)
           /\ Tells(Heard(a, r, s, b), a, s)
           /\ Heard(a, r, s, b) # NoRecord => Heard(a, r, s, b).binding = b
           /\ (/\ r # NoRecord /\ r.binding = b /\ s.shows = "fix"
               /\ r.spot = s.spot /\ s.spot # Nowhere /\ a # "gps_provider"
               /\ Heard(a, r, s, b) # NoRecord)
              => Heard(a, r, s, b).since = r.since
  <1> DEFINE m == Remembered(r, b)
             h == Heard(a, r, s, b)
  <1>1. /\ m \in FixRecord \cup {NoRecord}
        /\ Sound(m, a, s, o)
        /\ m # NoRecord => m.binding = b
        /\ (r # NoRecord /\ r.binding = b) => m = r
    BY DEF Remembered, Known, Sound
  <1>2. /\ s \in Tracker /\ s.updated \in Instant /\ s.measured \in Instant
        /\ s.shows \in Shown /\ s.spot \in Spot \cup {Nowhere}
    BY DEF Written, Tracker
  <1>3. CASE s.shows \in {"unreadable", "removed"}
    <2>1. h = NoRecord
      BY <1>3 DEF Heard
    <2> QED
      BY <1>3, <2>1 DEF Sound, Tells
  <1>4. CASE s.shows \notin {"unreadable", "removed"} /\ a = "wifi"
    <2>1. h = WifiHeard(m, s, b)
      BY <1>4 DEF Heard
    <2>2. CASE Known(m) /\ WifiRepeats(m, s)
      <3>1. h = m
        BY <2>1, <2>2 DEF WifiHeard
      <3>2. m # NoRecord /\ m \in FixRecord
        BY <1>1, <2>2 DEF Known
      <3>3. m.told = s.shows /\ m.spot = Attachment(s)
        <4>1. CASE s.updated <= m.stamp
          <5>1. m.stamp = s.updated
            BY <4>1, <3>2, <1>1, <1>2 DEF Sound, FixRecord, Instant
          <5> QED
            BY <5>1, <1>1, <1>4, <3>2 DEF Sound
        <4>2. CASE ~ s.updated <= m.stamp
          BY <4>2, <2>2 DEF WifiRepeats
        <4> QED
          BY <4>1, <4>2
      <3>4. m.spot = s.spot
        BY <3>3, <1>4 DEF Attachment, Written
      <3>5. Tells(h, a, s)
        BY <3>1, <3>2, <3>3, <3>4, <1>1, <1>4 DEF Tells, Sound
      <3> QED
        BY <3>1, <3>2, <3>5, <1>1
    <2>3. CASE ~ (Known(m) /\ WifiRepeats(m, s))
      <3>1. h = [binding |-> b, status |-> WifiStatus(s), spot |-> Attachment(s),
                 told |-> s.shows, stamp |-> s.updated, since |-> AttachedSince(m, s)]
        BY <2>1, <2>3 DEF WifiHeard
      <3>2. AttachedSince(m, s) \in Instant
        <4>1. 0 \in Instant
          BY NowAssumption DEF Instant
        <4>2. Known(m) => m.since \in Instant
          BY <1>1 DEF Known, FixRecord
        <4> QED
          BY <4>1, <4>2, <1>2 DEF AttachedSince
      <3>3. /\ WifiStatus(s) \in {"active", "ended", "unknown"}
            /\ (WifiStatus(s) = "active") = (s.shows = "fix")
            /\ (WifiStatus(s) = "ended") = (s.shows = "away")
        BY DEF WifiStatus
      <3>4. /\ Attachment(s) = s.spot
            /\ Attachment(s) # Nowhere => s.shows = "fix"
        BY <1>4 DEF Attachment, Written
      <3>5. h \in FixRecord
        BY <3>1, <3>2, <3>3, <3>4, <1>2 DEF FixRecord
      <3>6. h # NoRecord
        BY <3>5, RecordAssumption
      <3>7. Sound(h, a, s, o)
        BY <3>1, <3>3, <3>4, <1>2, <1>4 DEF Sound, Instant
      <3>8. Tells(h, a, s)
        BY <3>1, <3>3, <3>4, <3>6, <1>4 DEF Tells
      <3>9. ~ (/\ r # NoRecord /\ r.binding = b /\ s.shows = "fix"
               /\ r.spot = s.spot /\ s.spot # Nowhere)
        <4> SUFFICES ASSUME r # NoRecord, r.binding = b, s.shows = "fix",
                            r.spot = s.spot, s.spot # Nowhere
                     PROVE  FALSE
          OBVIOUS
        <4>1. m = r /\ Known(m)
          BY <1>1 DEF Known
        <4>2. m.status = "active" /\ m.told = "fix"
          BY <4>1, <1>1 DEF Sound
        <4>3. WifiRepeats(m, s)
          BY <4>1, <4>2, <3>4 DEF WifiRepeats, WifiStatus
        <4> QED
          BY <4>1, <4>3, <2>3
      <3> QED
        BY <3>1, <3>5, <3>7, <3>8, <3>9
    <2> QED
      BY <2>2, <2>3
  <1>5. CASE s.shows \notin {"unreadable", "removed"} /\ a # "wifi"
    <2>1. h = GpsHeard(a, m, s, b)
      BY <1>5 DEF Heard
    <2>2. CASE s.shows # "fix"
      <3>1. h = NoRecord
        BY <2>1, <2>2 DEF GpsHeard
      <3>2. s.shows \in {"unknown", "unavailable", "unsupported"}
        BY <2>2, <1>5, <1>2 DEF Written
      <3> QED
        BY <3>1, <3>2, <1>5 DEF Sound, Tells
    <2>3. CASE s.shows = "fix" /\ Known(m) /\ GpsRepeats(a, m, s)
      <3>1. h = m
        BY <2>1, <2>3 DEF GpsHeard
      <3>2. m # NoRecord /\ m \in FixRecord
        BY <1>1, <2>3 DEF Known
      <3>3. m.spot = s.spot \/ (a = "gps_provider" /\ m.stamp >= s.measured)
        <4>1. CASE a = "gps_provider"
          BY <4>1, <2>3, <3>2, <1>2 DEF GpsRepeats, Observed, FixRecord, Instant
        <4>2. CASE a = "gps"
          <5>1. CASE s.updated <= m.stamp
            <6>1. m.stamp = s.updated
              BY <5>1, <3>2, <1>1, <1>2 DEF Sound, FixRecord, Instant
            <6> QED
              BY <6>1, <4>2, <1>1, <3>2 DEF Sound
          <5>2. CASE ~ s.updated <= m.stamp
            BY <5>2, <4>2, <2>3 DEF GpsRepeats, Observed
          <5> QED
            BY <5>1, <5>2
        <4> QED
          BY <4>1, <4>2, <1>5
      <3>4. Tells(h, a, s)
        BY <3>1, <3>2, <3>3, <2>3, <1>5 DEF Tells
      <3> QED
        BY <3>1, <3>2, <3>4, <1>1
    <2>4. CASE s.shows = "fix" /\ ~ (Known(m) /\ GpsRepeats(a, m, s))
      <3>1. h = [binding |-> b, status |-> "active", spot |-> s.spot, told |-> "fix",
                 stamp |-> Observed(a, s), since |-> Observed(a, s)]
        BY <2>1, <2>4 DEF GpsHeard
      <3>2. Observed(a, s) \in Instant /\ (a # "gps_provider" => Observed(a, s) = s.updated)
        BY <1>2 DEF Observed
      <3>3. h \in FixRecord
        BY <3>1, <3>2, <1>2 DEF FixRecord
      <3>4. h # NoRecord
        BY <3>3, RecordAssumption
      <3>5. Observed(a, s) <= s.updated /\ (a = "gps_provider" => Observed(a, s) <= o)
        BY <1>2, <3>2 DEF Observed, Written, Instant
      <3>6. Sound(h, a, s, o)
        BY <3>1, <3>5, <1>5 DEF Sound
      <3>7. Tells(h, a, s)
        BY <3>1, <3>4, <2>4, <1>5 DEF Tells
      <3>8. ~ (/\ r # NoRecord /\ r.binding = b
               /\ r.spot = s.spot /\ a # "gps_provider")
        BY <2>4, <1>1, <1>5 DEF GpsRepeats, Known
      <3> QED
        BY <3>1, <3>3, <3>6, <3>7, <3>8
    <2> QED
      BY <2>2, <2>3, <2>4
  <1> QED
    BY <1>3, <1>4, <1>5

\* Time passes over a sound record: no state is as old as a new one.
LEMMA StaysSound ==
    ASSUME NEW a \in Adapter, NEW s \in Tracker, NEW t \in Tracker,
           NEW o \in Instant, NEW p \in Instant, NEW r \in FixRecord \cup {NoRecord},
           s.updated < t.updated, o <= p, Sound(r, a, s, o)
    PROVE  Sound(r, a, t, p)
  <1>1. s.updated \in Instant /\ t.updated \in Instant
    BY DEF Tracker
  <1>2. r # NoRecord => r.stamp \in Instant /\ r.since \in Instant
    BY DEF FixRecord
  <1>3. r # NoRecord => r.stamp < t.updated /\ (a = "gps_provider" => r.since <= p)
    BY <1>1, <1>2 DEF Sound, Instant
  <1> QED
    BY <1>1, <1>2, <1>3 DEF Sound, Instant

\* The invariant holds before the tracker tells anything.
THEOREM FixInitIsInv == FixInit => FixInv
  <1> SUFFICES ASSUME FixInit PROVE FixInv
    OBVIOUS
  <1>1. 0 \in Instant
    BY NowAssumption DEF Instant
  <1>2. tracker \in Tracker /\ tracker.updated = 0 /\ tracker.measured = 0
        /\ tracker.shows = "removed" /\ tracker.spot = Nowhere
    BY <1>1 DEF FixInit, Tracker
  <1>3. Written(tracker, adapter, origin)
    BY <1>1, <1>2 DEF FixInit, Written, Instant
  <1> QED
    BY <1>1, <1>2, <1>3 DEF FixInit, FixInv, FixTypeOK, Sound, Tells

\* A new state of the tracker, whatever it tells.
LEMMA TellKeepsInv ==
    ASSUME FixInv, NEW s \in Tracker, Tell(s),
           origin' \in Instant, origin <= origin', origin' <= now',
           Written(s, adapter, origin')
    PROVE  FixInv'
  <1>1. /\ tracker' = s /\ s.updated = now + 1 /\ now' = now + 1 /\ now' \in Instant
        /\ adapter' = adapter /\ binding' = binding /\ running' = running /\ savedRecord' = savedRecord
    BY NowAssumption DEF Tell, FixInv, FixTypeOK, Instant
  <1>2. tracker.updated < s.updated
    BY <1>1 DEF FixInv, FixTypeOK, Instant
  <1>3. /\ Sound(record, adapter, s, origin') /\ Sound(savedRecord, adapter, s, origin')
    BY <1>2, StaysSound DEF FixInv, FixTypeOK
  <1>4. CASE running
    <2>1. record' = Heard(adapter, record, s, binding)
      BY <1>4 DEF Tell
    <2>2. /\ record' \in FixRecord \cup {NoRecord}
          /\ Sound(record', adapter, s, origin')
          /\ Tells(record', adapter, s)
          /\ record' # NoRecord => record'.binding = binding
      BY <2>1, <1>3, HeardIsRight DEF FixInv, FixTypeOK
    <2> QED
      BY <1>1, <1>3, <1>4, <2>2 DEF FixInv, FixTypeOK
  <1>5. CASE ~ running
    <2>1. record' = record
      BY <1>5 DEF Tell
    <2> QED
      BY <1>1, <1>3, <1>5, <2>1 DEF FixInv, FixTypeOK
  <1> QED
    BY <1>4, <1>5

\* The states a tracker may tell are written ones.
LEMMA FixIsWritten ==
    ASSUME FixInv, NEW spot \in Spot \cup {Nowhere}, NEW measured \in Instant,
           TellFix(spot, measured)
    PROVE  \E s \in Tracker :
              /\ Tell(s) /\ s.shows = "fix" /\ s.spot = spot /\ s.measured = measured
              /\ origin' \in Instant /\ origin <= origin' /\ origin' <= now'
              /\ Written(s, adapter, origin')
  <1> DEFINE s == [shows |-> "fix", spot |-> spot, updated |-> now + 1, measured |-> measured]
  <1>1. Tell(s) /\ now + 1 \in Instant /\ measured <= now + 1 /\ s \in Tracker
    BY NowAssumption DEF TellFix, Tell, FixInv, FixTypeOK, Instant, Tracker
  <1>2. /\ origin' \in Instant /\ origin <= origin' /\ origin' <= now + 1
        /\ (adapter = "gps_provider" => measured <= origin')
    <2>1. CASE adapter = "gps_provider"
      BY <2>1 DEF TellFix, FixInv, FixTypeOK, Instant
    <2>2. CASE adapter # "gps_provider"
      <3>1. origin <= now
        BY DEF FixInv
      <3> QED
        BY <1>1, <2>2, <3>1 DEF TellFix, FixInv, FixTypeOK, Instant
    <2> QED
      BY <2>1, <2>2
  <1>3. Written(s, adapter, origin') /\ now' = now + 1
    BY <1>1, <1>2 DEF Written, Tell
  <1> QED
    BY <1>1, <1>2, <1>3

\* So are those that tell no fix.
LEMMA NoFixIsWritten ==
    ASSUME FixInv, NEW shows \in Shown, TellNoFix(shows)
    PROVE  \E s \in Tracker :
              /\ Tell(s) /\ s.shows = shows
              /\ Written(s, adapter, origin)
  <1> DEFINE at == IF adapter = "wifi" /\ shows # "unreadable" THEN Nowhere ELSE tracker.spot
             s  == [shows |-> shows, spot |-> at, updated |-> now + 1, measured |-> 0]
  <1>1. Tell(s) /\ now + 1 \in Instant /\ 0 \in Instant /\ 0 <= now + 1
    BY NowAssumption DEF TellNoFix, Tell, FixInv, FixTypeOK, Instant
  <1>2. at \in Spot \cup {Nowhere} /\ s \in Tracker
    BY <1>1 DEF FixInv, FixTypeOK, Tracker
  <1>3. Written(s, adapter, origin)
    BY <1>1, <1>2 DEF Written, TellNoFix, FixInv, FixTypeOK, Instant
  <1> QED
    BY <1>1, <1>2, <1>3

\* Every step keeps the invariant: the tracker's by StaysSound, the entry's by
\* HeardIsRight.
THEOREM FixNextKeepsInv == FixInv /\ [FixNext]_fixVars => FixInv'
  <1> SUFFICES ASSUME FixInv, [FixNext]_fixVars PROVE FixInv'
    OBVIOUS
  <1>1. ASSUME NEW spot \in Spot \cup {Nowhere}, NEW measured \in Instant, TellFix(spot, measured)
        PROVE  FixInv'
    BY <1>1, FixIsWritten, TellKeepsInv
  <1>2. ASSUME NEW shows \in Shown, TellNoFix(shows)
        PROVE  FixInv'
    <2>1. origin' = origin /\ now' = now + 1
      BY <1>2 DEF TellNoFix, Tell
    <2>2. origin' \in Instant /\ origin <= origin' /\ origin' <= now'
      BY <2>1 DEF FixInv, FixTypeOK, Instant
    <2>3. PICK s \in Tracker : Tell(s) /\ Written(s, adapter, origin)
      BY <1>2, NoFixIsWritten
    <2> QED
      BY <2>1, <2>2, <2>3, TellKeepsInv
  <1>3. CASE Repeat
    <2>1. /\ record' \in FixRecord \cup {NoRecord}
          /\ Sound(record', adapter, tracker, origin)
          /\ Tells(record', adapter, tracker)
          /\ record' # NoRecord => record'.binding = binding
      BY <1>3, HeardIsRight DEF Repeat, FixInv, FixTypeOK
    <2> QED
      BY <1>3, <2>1 DEF Repeat, FixInv, FixTypeOK
  <1>4. CASE Save
    BY <1>4 DEF Save, FixInv, FixTypeOK
  <1>5. ASSUME NEW saved \in BOOLEAN, Stop(saved)
        PROVE  FixInv'
    <2>1. Sound(savedRecord', adapter, tracker, origin) /\ savedRecord' \in FixRecord \cup {NoRecord}
      BY <1>5 DEF Stop, FixInv, FixTypeOK
    <2>2. Sound(NoRecord, adapter, tracker, origin)
      BY DEF Sound
    <2> QED
      BY <1>5, <2>1, <2>2 DEF Stop, FixInv, FixTypeOK
  <1>6. ASSUME NEW b \in Binding, Start(b)
        PROVE  FixInv'
    <2>1. /\ Remembered(savedRecord, b) \in FixRecord \cup {NoRecord}
          /\ Sound(Remembered(savedRecord, b), adapter, tracker, origin)
      BY DEF Remembered, Known, Sound, FixInv, FixTypeOK
    <2>2. /\ record' \in FixRecord \cup {NoRecord}
          /\ Sound(record', adapter, tracker, origin)
          /\ Tells(record', adapter, tracker)
          /\ record' # NoRecord => record'.binding = b
      BY <1>6, <2>1, HeardIsRight DEF Start, FixInv, FixTypeOK
    <2> QED
      BY <1>6, <2>2 DEF Start, FixInv, FixTypeOK
  <1>7. CASE UNCHANGED fixVars
    BY <1>7 DEF fixVars, FixInv, FixTypeOK
  <1> QED
    BY <1>1, <1>2, <1>3, <1>4, <1>5, <1>6, <1>7 DEF FixNext

\* The inductive invariant is one of the specification.
LEMMA FixInvariance == FixSpec => []FixInv
  BY FixInitIsInv, FixNextKeepsInv, PTL DEF FixSpec

\* Every variable keeps its type, for any spots, bindings and time.
THEOREM FixTypes == FixSpec => []FixTypeOK
  <1>1. FixInv => FixTypeOK
    BY DEF FixInv
  <1> QED
    BY <1>1, FixInvariance, PTL

\* A running entry says what the tracker tells: ignoring what is known, after
\* whatever failures, crashes and changes of binding, drops no news.
THEOREM NothingIsLost == FixSpec => []RecordTellsTheNewest
  <1>1. FixInv => RecordTellsTheNewest
    BY DEF FixInv, Tells, RecordTellsTheNewest
  <1> QED
    BY <1>1, FixInvariance, PTL

-----------------------------------------------------------------------------

\* A record that starts from r keeps the clock of a fix r has.
LEMMA HeldClocksStay ==
    ASSUME NEW a \in Adapter, NEW s, NEW o \in Instant, NEW b \in Binding,
           NEW r \in FixRecord \cup {NoRecord},
           Written(s, a, o), Sound(r, a, s, o), a # "gps_provider",
           r # NoRecord, r.binding = b, s.shows = "fix", r.spot = s.spot, s.spot # Nowhere,
           Heard(a, r, s, b) # NoRecord
    PROVE  Heard(a, r, s, b).since = r.since
  BY HeardIsRight

\* The adapter of a step, and the record the step starts from.
LEMMA StepKeepsClocks ==
    FixInv /\ FixInv' /\ [FixNext]_fixVars =>
        (DatedLate' =>
            LET before == IF running THEN record ELSE savedRecord
            IN  /\ adapter # "gps_provider"
                /\ Holds(before) => record'.since <= before.since)
  <1> SUFFICES ASSUME FixInv, FixInv', [FixNext]_fixVars, DatedLate'
               PROVE  /\ adapter # "gps_provider"
                      /\ Holds(IF running THEN record ELSE savedRecord) =>
                            record'.since <= (IF running THEN record ELSE savedRecord).since
    OBVIOUS
  <1> DEFINE before == IF running THEN record ELSE savedRecord
  <1>1. adapter' = adapter
    BY DEF FixNext, fixVars, TellFix, TellNoFix, Tell, Repeat, Save, Stop, Start
  <1>2. /\ record' \in FixRecord /\ record'.since \in Instant /\ origin' \in Instant
        /\ record'.since > origin' /\ tracker'.shows = "fix" /\ tracker'.spot # Nowhere
        /\ record'.spot = tracker'.spot
    BY DEF DatedLate, FixInv, FixTypeOK, FixRecord
  <1>3. adapter # "gps_provider"
    <2>1. record' # NoRecord
      BY <1>2, RecordAssumption
    <2>2. adapter = "gps_provider" => record'.since <= origin'
      BY <1>1, <2>1 DEF FixInv, Sound
    <2> QED
      BY <1>2, <2>2 DEF Instant
  <1>4. ASSUME Holds(before) PROVE record'.since <= before.since
    <2>1. /\ before \in FixRecord /\ before.since \in Instant /\ before.binding = binding'
          /\ before # NoRecord /\ before.spot = tracker'.spot
      BY <1>4 DEF Holds, FixInv, FixTypeOK, FixRecord
    <2>2. record' # NoRecord
      BY <1>2, RecordAssumption
    <2>3. ASSUME NEW spot \in Spot \cup {Nowhere}, NEW measured \in Instant,
                 TellFix(spot, measured)
          PROVE  record'.since = before.since
      <3>1. PICK s \in Tracker :
               /\ Tell(s) /\ origin' \in Instant /\ origin <= origin'
               /\ Written(s, adapter, origin')
        BY <2>3, FixIsWritten
      <3>2. /\ tracker' = s /\ binding' = binding /\ running' = running
            /\ s.updated = now + 1
        BY <3>1 DEF Tell
      <3>3. running
        BY <2>2, <3>2 DEF FixInv
      <3>4. record' = Heard(adapter, record, s, binding) /\ before = record
        BY <3>1, <3>3 DEF Tell
      <3>5. tracker.updated < s.updated
        BY <3>2 DEF FixInv, FixTypeOK, Instant
      <3>6. Sound(record, adapter, s, origin')
        BY <3>1, <3>5, StaysSound DEF FixInv, FixTypeOK
      <3> QED
        BY <1>2, <1>3, <2>1, <2>2, <3>1, <3>2, <3>4, <3>6, HeldClocksStay DEF FixInv, FixTypeOK
    <2>4. ASSUME NEW shows \in Shown, TellNoFix(shows)
          PROVE  FALSE
      BY <1>2, <2>4 DEF TellNoFix, Tell
    <2>5. ASSUME Repeat PROVE record'.since = before.since
      <3>1. /\ record' = Heard(adapter, record, tracker, binding) /\ before = record
            /\ tracker' = tracker /\ binding' = binding
        BY <2>5 DEF Repeat
      <3>2. Written(tracker, adapter, origin) /\ Sound(record, adapter, tracker, origin)
            /\ origin \in Instant /\ binding \in Binding
        BY DEF FixInv, FixTypeOK
      <3>3. record # NoRecord /\ record.binding = binding /\ record.spot = tracker.spot
            /\ tracker.shows = "fix" /\ tracker.spot # Nowhere
        BY <1>2, <2>1, <3>1
      <3> QED
        BY <1>3, <2>2, <3>1, <3>2, <3>3, HeldClocksStay DEF FixInv, FixTypeOK
    <2>6. ASSUME Save PROVE record'.since = before.since
      <3>1. running /\ record' = record
        BY <2>6 DEF Save
      <3> QED
        BY <3>1
    <2>7. ASSUME NEW saved \in BOOLEAN, Stop(saved)
          PROVE  FALSE
      BY <2>2, <2>7 DEF Stop
    <2>8. ASSUME NEW b \in Binding, Start(b)
          PROVE  record'.since = before.since
      <3>1. /\ binding' = b /\ tracker' = tracker /\ before = savedRecord
            /\ record' = Heard(adapter, Remembered(savedRecord, b), tracker, b)
        BY <2>8 DEF Start
      <3>2. Remembered(savedRecord, b) = savedRecord
        BY <2>1, <3>1 DEF Remembered, Known
      <3> QED
        BY <1>2, <1>3, <2>1, <2>2, <3>1, <3>2, HeldClocksStay DEF FixInv, FixTypeOK
    <2>9. ASSUME UNCHANGED fixVars PROVE record'.since = before.since
      <3>1. running /\ record' = record
        BY <2>2, <2>9 DEF fixVars, FixInv
      <3> QED
        BY <3>1
    <2>10. record'.since = before.since
      BY <2>3, <2>4, <2>5, <2>6, <2>7, <2>8, <2>9 DEF FixNext
    <2> QED
      BY <2>10, <2>1 DEF Instant
  <1> QED
    BY <1>3, <1>4

\* No step dates a fix anew that the runtime holds, in the store or in the
\* save it starts from; a fix its provider dates is never dated late.
THEOREM HeldFixesAreNotRenewed == FixSpec => FixesKeepTheirClock
  <1>1. FixInv /\ FixInv' /\ [FixNext]_fixVars =>
            [DatedLate' =>
               LET before == IF running THEN record ELSE savedRecord
               IN  /\ adapter # "gps_provider"
                   /\ Holds(before) => record'.since <= before.since]_fixVars
    BY StepKeepsClocks
  <1> QED
    BY <1>1, FixInvariance, PTL DEF FixSpec, FixesKeepTheirClock

-----------------------------------------------------------------------------
(***************************************************************************)
(* EvidenceStore.                                                          *)
(***************************************************************************)

-----------------------------------------------------------------------------
(***************************************************************************)
(* What the helpers return.                                                *)
(***************************************************************************)

\* An observation of the instance has the shape of an observation.
LEMMA ObservationShape ==
    ASSUME NEW o \in Observations
    PROVE  /\ o.key \in Key /\ o.received \in Time
           /\ o.claim \in Claims /\ o.clock \in [Dimension -> Time]
           /\ DOMAIN o.revisions \subseteq Dimension
           /\ \A d \in DOMAIN o.revisions : o.revisions[d] \in Stamp
BY ObservationAssumption DEF ObservationType

\* Every dimension has an effective stamp, explicit or by default.
LEMMA EffectiveShape ==
    ASSUME NEW o \in Observations
    PROVE  EffectiveRevisions(o) \in [Dimension -> Stamp]
BY ObservationShape, ClockAssumption DEF EffectiveRevisions, Stamp

\* An envelope only carries dimensions of the store.
LEMMA UpdatedShape ==
    ASSUME NEW o \in Observations
    PROVE  UpdatedDimensions(o) \subseteq Dimension
BY ObservationShape DEF UpdatedDimensions

\* A claim assembled dimension by dimension from two claims is a claim.
LEMMA MixedClaims ==
    ASSUME NEW f \in Claims, NEW g \in Claims, NEW S
    PROVE  [d \in Dimension |-> IF d \in S THEN f[d] ELSE g[d]] \in Claims
BY DEF Claims

\* The latest of two instants is one of them.
LEMMA LatestShape ==
    ASSUME NEW s \in Time, NEW t \in Time
    PROVE  Latest(s, t) \in Time
BY DEF Latest

\* A new record is a record.
LEMMA CreatedShape ==
    ASSUME NEW o \in Observations
    PROVE  Created(o) \in Record
BY ObservationShape, EffectiveShape DEF Created, Record

\* A merged record is a record.
LEMMA MergedShape ==
    ASSUME TypeOK, NEW o \in Observations, o.key \in DOMAIN records
    PROVE  Merged(o) \in Record
<1> DEFINE r == records[o.key]
<1>1. r \in Record
  BY DEF TypeOK
<1>2. MergedClaim(o) \in Claims
  <2>1. o.claim \in Claims /\ r.claim \in Claims
    BY <1>1, ObservationShape DEF Record
  <2>2. [d \in Dimension |-> IF d \in Accepted(o) THEN o.claim[d] ELSE r.claim[d]] \in Claims
    BY <2>1, MixedClaims
  <2> QED
    BY <2>2 DEF MergedClaim
<1>3. MergedStamp(o) \in [Dimension -> Stamp]
  BY <1>1, EffectiveShape DEF MergedStamp, Record
<1>4. Latest(r.received, o.received) \in Time
  BY <1>1, ObservationShape, LatestShape DEF Record
<1>5. r.revision + 1 \in Nat
  BY <1>1 DEF Record
<1> QED
  BY <1>2, <1>3, <1>4, <1>5 DEF Merged, Record

\* Appending to a bounded log keeps it a non-empty bounded log.
LEMMA RememberShape ==
    ASSUME NEW log \in Seq(Update), NEW update \in Update
    PROVE  /\ Remember(log, update) \in Seq(Update)
           /\ Len(log) <= MaxHistory => Len(Remember(log, update)) \in 1 .. MaxHistory
BY BoundAssumption DEF Remember

\* Adding an entry to a partial map, and removing some.
LEMMA MapShape ==
    ASSUME NEW S, NEW f, f \in [DOMAIN f -> S], NEW k, NEW value \in S, NEW gone
    PROVE  /\ With(f, k, value) \in [DOMAIN f \cup {k} -> S]
           /\ DOMAIN With(f, k, value) = DOMAIN f \cup {k}
           /\ Without(f, gone) \in [DOMAIN f \ gone -> S]
           /\ DOMAIN Without(f, gone) = DOMAIN f \ gone
BY DEF With, Without

-----------------------------------------------------------------------------
(***************************************************************************)
(* The type invariant: the store always is a pair of partial maps over the *)
(* configured keys (engine/store.py, _records and _history).               *)
(***************************************************************************)

LEMMA CreateKeepsType ==
    ASSUME TypeOK, NEW o \in Observations, Create(o)
    PROVE  TypeOK'
<1> DEFINE grown == With(records, o.key, Created(o))
           update == StoreUpdate(revision + 1, 1, Dimension, {})
           log == With(history, o.key, << update >>)
<1>1. o.key \in Key /\ Created(o) \in Record
  BY ObservationShape, CreatedShape
<1>2. grown \in [DOMAIN records \cup {o.key} -> Record]
  BY <1>1, MapShape DEF TypeOK
<1>3. update \in Update
  BY DEF StoreUpdate, Update, TypeOK
<1> HIDE DEF update
<1>4. << update >> \in Seq(Update)
  BY <1>3
<1>5. log \in [DOMAIN records \cup {o.key} -> Seq(Update)]
  BY <1>4 DEF TypeOK, With
<1>6. PICK gone \in Evictions(grown) :
         records' = Without(grown, gone) /\ history' = Without(log, gone)
  BY DEF Create, update
<1>7. records' \in [DOMAIN records' -> Record] /\ DOMAIN records' = (DOMAIN records \cup {o.key}) \ gone
  BY <1>2, <1>6 DEF Without
<1>8. history' \in [DOMAIN records' -> Seq(Update)]
  BY <1>5, <1>6, <1>7 DEF Without
<1>9. revision' \in Nat
  BY DEF Create, TypeOK
<1>10. DOMAIN records' \subseteq Key
  BY <1>1, <1>7 DEF TypeOK
<1> QED
  BY <1>7, <1>8, <1>9, <1>10 DEF TypeOK

LEMMA IgnoreKeepsType ==
    ASSUME TypeOK, NEW o \in Observations, Ignore(o)
    PROVE  TypeOK'
<1> DEFINE k == o.key
           update == StoreUpdate(revision, records[k].revision, {}, Rejected(o))
<1>1. k \in DOMAIN records /\ records[k].revision \in Nat /\ history[k] \in Seq(Update)
  BY DEF Ignore, TypeOK, Record
<1>2. Rejected(o) \in SUBSET Dimension
  BY UpdatedShape DEF Rejected, Differing
<1>3. update \in Update
  BY <1>1, <1>2 DEF StoreUpdate, Update, TypeOK
<1> HIDE DEF update
<1>4. Remember(history[k], update) \in Seq(Update)
  BY <1>1, <1>3, RememberShape
<1>5. history' = [history EXCEPT ![k] = Remember(history[k], update)]
  BY DEF Ignore, update
<1> QED
  BY <1>1, <1>4, <1>5 DEF TypeOK, Ignore

LEMMA MergeKeepsType ==
    ASSUME TypeOK, NEW o \in Observations, Merge(o)
    PROVE  TypeOK'
<1> DEFINE k == o.key
           update == StoreUpdate(revision + 1, records[k].revision + 1, Accepted(o), Rejected(o))
<1>1. k \in DOMAIN records /\ records[k].revision + 1 \in Nat /\ history[k] \in Seq(Update)
  BY DEF Merge, TypeOK, Record
<1>2. Rejected(o) \in SUBSET Dimension /\ Accepted(o) \in SUBSET Dimension
  BY UpdatedShape DEF Rejected, Accepted, Differing
<1>3. update \in Update
  BY <1>1, <1>2 DEF StoreUpdate, Update, TypeOK
<1> HIDE DEF update
<1>4. Remember(history[k], update) \in Seq(Update)
  BY <1>1, <1>3, RememberShape
<1>5. Merged(o) \in Record
  BY <1>1, MergedShape
<1>6. /\ history' = [history EXCEPT ![k] = Remember(history[k], update)]
      /\ records' = [records EXCEPT ![k] = Merged(o)]
      /\ revision' = revision + 1
  BY DEF Merge, update
<1>7. records' \in [DOMAIN records -> Record] /\ history' \in [DOMAIN records -> Seq(Update)]
  BY <1>1, <1>4, <1>5, <1>6 DEF TypeOK
<1>8. revision' \in Nat
  BY <1>6 DEF TypeOK
<1>9. DOMAIN records' = DOMAIN records
  BY <1>7
<1> QED
  BY <1>7, <1>8, <1>9 DEF TypeOK

LEMMA RemoveKeepsType ==
    ASSUME TypeOK, NEW gone, Remove(gone)
    PROVE  TypeOK'
BY DEF Remove, Without, TypeOK

\* Type correctness.
THEOREM TypeCorrect == Spec => []TypeOK
<1>1. Init => TypeOK
  BY DEF Init, TypeOK
<1>2. TypeOK /\ [Next]_vars => TypeOK'
  <2> SUFFICES ASSUME TypeOK, [Next]_vars
               PROVE  TypeOK'
    OBVIOUS
  <2>1. ASSUME NEW o \in Observations, Upsert(o)
        PROVE  TypeOK'
    BY <2>1, CreateKeepsType, IgnoreKeepsType, MergeKeepsType DEF Upsert
  <2>2. ASSUME NEW source \in Source, RemoveSource(source)
        PROVE  TypeOK'
    BY <2>2, RemoveKeepsType DEF RemoveSource
  <2>3. CASE RemoveWhere
    BY <2>3, RemoveKeepsType DEF RemoveWhere
  <2>4. CASE AdvanceRevision
    BY <2>4 DEF AdvanceRevision, TypeOK
  <2>5. CASE UNCHANGED vars
    BY <2>5 DEF vars, TypeOK
  <2> QED
    BY <2>1, <2>2, <2>3, <2>4, <2>5 DEF Next
<1> QED
  BY <1>1, <1>2, PTL DEF Spec

-----------------------------------------------------------------------------
(***************************************************************************)
(* Coupled claims.  The hazard: count and lifecycle are accepted or        *)
(* rejected one by one, and Observation.__post_init__ raises when the      *)
(* merge is active with a zero count.  The argument: in a counting record  *)
(* the lifecycle stamp is never the older one, and equal to the count      *)
(* stamp while the record is active, so a newer active lifecycle always    *)
(* brings its own count along.                                             *)
(***************************************************************************)

\* Stamps are totally ordered.
LEMMA StampOrder ==
    ASSUME NEW s \in Stamp, NEW t \in Stamp, NEW u \in Stamp
    PROVE  /\ s = t \/ Later(s, t) \/ Later(t, s)
           /\ ~ Later(s, s)
           /\ ~ (Later(s, t) /\ Later(t, s))
           /\ Later(s, t) /\ Later(t, u) => Later(s, u)
<1>1. /\ s.seq \in Nat /\ s.at \in Nat /\ t.seq \in Nat /\ t.at \in Nat
      /\ u.seq \in Nat /\ u.at \in Nat
  BY ClockAssumption DEF Stamp
<1>2. s.seq = t.seq /\ s.at = t.at => s = t
  BY DEF Stamp
<1> QED
  BY <1>1, <1>2 DEF Later

\* In the dimensions with a newer stamp the merge holds the new claim,
\* accepted or equal; in the others the stored one.
LEMMA MergedClaimByStamp ==
    ASSUME NEW o \in Observations, o.key \in DOMAIN records, NEW d \in Dimension
    PROVE  MergedClaim(o)[d] = IF d \in Newer(o) THEN o.claim[d]
                                                 ELSE records[o.key].claim[d]
BY DEF MergedClaim, Accepted, Differing, Newer

\* A merge keeps the stamps of a counting record coupled, and never
\* combines an active lifecycle with a zero count.
LEMMA MergeCouples ==
    ASSUME TypeOK, CoupledRecords, NEW o \in Observations,
           o.key \in DOMAIN records, o.key \in Counted
    PROVE  Coupled(MergedStamp(o), MergedClaim(o)) /\ Valid(MergedClaim(o))
<1> DEFINE r == records[o.key]
           e == EffectiveRevisions(o)
           L == "lifecycle"
           C == "count"
<1>1. L \in Dimension /\ C \in Dimension
  BY DimensionAssumption
<1>2. r \in Record /\ Coupled(r.stamp, r.claim) /\ Valid(r.claim)
  BY DEF CoupledRecords, CoupledRecord, TypeOK
<1>3. /\ r.stamp[L] \in Stamp /\ r.stamp[C] \in Stamp
      /\ e[L] \in Stamp /\ e[C] \in Stamp
  BY <1>1, <1>2, EffectiveShape DEF Record
<1>4. /\ MergedClaim(o)[L] = IF L \in Newer(o) THEN o.claim[L] ELSE r.claim[L]
      /\ MergedClaim(o)[C] = IF C \in Newer(o) THEN o.claim[C] ELSE r.claim[C]
  BY <1>1, MergedClaimByStamp
<1>5. /\ MergedStamp(o)[L] = IF L \in Newer(o) THEN e[L] ELSE r.stamp[L]
      /\ MergedStamp(o)[C] = IF C \in Newer(o) THEN e[C] ELSE r.stamp[C]
  BY <1>1 DEF MergedStamp
<1>6. Coherent(o)
  BY ObservationAssumption
<1>7. CASE C \notin UpdatedDimensions(o)
  <2>1. L \notin Newer(o) /\ C \notin Newer(o)
    BY <1>6, <1>7 DEF Coherent, Newer
  <2> QED
    BY <1>2, <1>4, <1>5, <2>1 DEF Coupled, Valid
<1>8. CASE C \in UpdatedDimensions(o)
  <2>1. L \in UpdatedDimensions(o) /\ Coupled(e, o.claim) /\ Valid(o.claim)
    BY <1>6, <1>8 DEF Coherent
  <2>2. /\ L \in Newer(o) <=> Later(e[L], r.stamp[L])
        /\ C \in Newer(o) <=> Later(e[C], r.stamp[C])
    BY <1>8, <2>1 DEF Newer
  <2>3. CASE L \in Newer(o) /\ C \in Newer(o)
    BY <1>4, <1>5, <2>1, <2>3 DEF Coupled, Valid
  <2>4. CASE L \notin Newer(o) /\ C \notin Newer(o)
    BY <1>2, <1>4, <1>5, <2>4 DEF Coupled, Valid
  <2>5. CASE L \in Newer(o) /\ C \notin Newer(o)
    \* The new lifecycle is later than a count that is not: it is not active.
    <3>1. e[L] # e[C]
      BY <1>2, <1>3, <2>1, <2>2, <2>5, StampOrder DEF Coupled, SameOrLater
    <3>2. o.claim[L] # "active"
      BY <2>1, <3>1 DEF Coupled
    <3>3. SameOrLater(e[L], r.stamp[C])
      BY <1>2, <1>3, <2>2, <2>5, StampOrder DEF Coupled, SameOrLater
    <3> QED
      BY <1>4, <1>5, <2>5, <3>2, <3>3 DEF Coupled, Valid
  <2>6. CASE L \notin Newer(o) /\ C \in Newer(o)
    \* The stored lifecycle is later than its count: it is not active.
    <3>1. r.stamp[L] # r.stamp[C]
      BY <1>2, <1>3, <2>1, <2>2, <2>6, StampOrder DEF Coupled, SameOrLater
    <3>2. r.claim[L] # "active"
      BY <1>2, <3>1 DEF Coupled
    <3>3. SameOrLater(r.stamp[L], e[C])
      BY <1>2, <1>3, <2>1, <2>2, <2>6, StampOrder DEF Coupled, SameOrLater
    <3> QED
      BY <1>4, <1>5, <2>6, <3>2, <3>3 DEF Coupled, Valid
  <2> QED
    BY <2>3, <2>4, <2>5, <2>6
<1> QED
  BY <1>7, <1>8

\* The record of a source that does not count never gets a count.
LEMMA MergeUncounted ==
    ASSUME TypeOK, CoupledRecords, NEW o \in Observations,
           o.key \in DOMAIN records, o.key \notin Counted
    PROVE  MergedClaim(o)["count"] = NoClaim
<1>1. "count" \in Dimension /\ Coherent(o)
  BY DimensionAssumption, ObservationAssumption
<1>2. "count" \notin Newer(o)
  BY <1>1 DEF Coherent, Newer
<1> QED
  BY <1>1, <1>2, MergedClaimByStamp DEF CoupledRecords, CoupledRecord

\* A new record is coupled as its envelope is.
LEMMA CreateCouples ==
    ASSUME NEW o \in Observations,
           o.key \in Counted => "count" \in UpdatedDimensions(o)
    PROVE  IF o.key \in Counted
           THEN Coupled(Created(o).stamp, Created(o).claim) /\ Valid(Created(o).claim)
           ELSE Created(o).claim["count"] = NoClaim
<1>1. Coherent(o)
  BY ObservationAssumption
<1> QED
  BY <1>1 DEF Coherent, Created

LEMMA CoupledStep ==
    ASSUME TypeOK, CoupledRecords, [Next]_vars
    PROVE  CoupledRecords'
<1>1. ASSUME NEW o \in Observations, Create(o)
      PROVE  CoupledRecords'
  <2>1. PICK gone : records' = Without(With(records, o.key, Created(o)), gone)
    BY <1>1 DEF Create
  <2>2. \A k \in DOMAIN records' :
           records'[k] = IF k = o.key THEN Created(o) ELSE records[k]
    BY <2>1 DEF With, Without
  <2>3. \A k \in DOMAIN records' : k # o.key => k \in DOMAIN records
    BY <2>1 DEF With, Without
  <2>4. o.key \in Counted => "count" \in UpdatedDimensions(o)
    BY <1>1 DEF Create
  <2> QED
    BY <2>2, <2>3, <2>4, CreateCouples DEF CoupledRecords, CoupledRecord
<1>2. ASSUME NEW o \in Observations, Merge(o)
      PROVE  CoupledRecords'
  <2>1. o.key \in DOMAIN records /\ records' = [records EXCEPT ![o.key] = Merged(o)]
    BY <1>2 DEF Merge
  <2>2. DOMAIN records' = DOMAIN records
    BY <2>1
  <2>3. \A k \in DOMAIN records : k # o.key => records'[k] = records[k]
    BY <2>1
  <2>4. records'[o.key] = Merged(o)
    BY <2>1
  <2>5. Merged(o).claim = MergedClaim(o) /\ Merged(o).stamp = MergedStamp(o)
    BY DEF Merged
  <2>6. CoupledRecord(o.key)'
    BY <2>1, <2>4, <2>5, MergeCouples, MergeUncounted DEF CoupledRecord
  <2>7. ASSUME NEW k \in DOMAIN records', k # o.key
        PROVE  CoupledRecord(k)'
    BY <2>2, <2>3, <2>7 DEF CoupledRecord, CoupledRecords
  <2> QED
    BY <2>6, <2>7 DEF CoupledRecords
<1>3. ASSUME NEW gone, Remove(gone)
      PROVE  CoupledRecords'
  BY <1>3 DEF Remove, Without, CoupledRecords, CoupledRecord
<1>4. ASSUME UNCHANGED records
      PROVE  CoupledRecords'
  BY <1>4 DEF CoupledRecords, CoupledRecord
<1>5. ASSUME NEW o \in Observations, Upsert(o)
      PROVE  CoupledRecords'
  BY <1>1, <1>2, <1>4, <1>5 DEF Upsert, Ignore
<1> QED
  BY <1>3, <1>4, <1>5 DEF Next, RemoveSource, RemoveWhere, AdvanceRevision, vars

\* Coupled stamps are an invariant of the store.
THEOREM Coupling == Spec => []CoupledRecords
<1>1. Init => CoupledRecords
  BY DEF Init, CoupledRecords
<1>2. TypeOK /\ CoupledRecords /\ [Next]_vars => CoupledRecords'
  BY CoupledStep
<1> QED
  BY <1>1, <1>2, TypeCorrect, PTL DEF Spec

(***************************************************************************)
(* Whatever coherent envelope arrives next, merging it does not raise:     *)
(* EvidenceStore.upsert never fails in the middle of a runtime update.     *)
(***************************************************************************)
THEOREM MergesAreValid == Spec => []MergeNeverRaises
<1>1. TypeOK /\ CoupledRecords => MergeNeverRaises
  <2> SUFFICES ASSUME TypeOK, CoupledRecords, NEW o \in Observations,
                      o.key \in DOMAIN records
               PROVE  Valid(MergedClaim(o))
    BY DEF MergeNeverRaises
  <2>1. CASE o.key \in Counted
    BY <2>1, MergeCouples
  <2>2. CASE o.key \notin Counted
    BY <2>2, MergeUncounted, DimensionAssumption DEF Valid
  <2> QED
    BY <2>1, <2>2
<1> QED
  BY <1>1, TypeCorrect, Coupling, PTL

-----------------------------------------------------------------------------
(***************************************************************************)
(* Bounds.  Only Create adds a record, one at a time, and then evicts one  *)
(* when the store was full; histories live and die with their records.     *)
(***************************************************************************)

FinitelyBounded == IsFiniteSet(DOMAIN records) /\ Bounded

LEMMA CreateKeepsBounds ==
    ASSUME TypeOK, FinitelyBounded, NEW o \in Observations, Create(o)
    PROVE  FinitelyBounded'
<1> DEFINE grown == With(records, o.key, Created(o))
           log == With(history, o.key, << StoreUpdate(revision + 1, 1, Dimension, {}) >>)
           D == DOMAIN records
<1>1. o.key \notin D /\ IsFiniteSet(D) /\ Cardinality(D) <= MaxRecords /\ DOMAIN history = D
  BY DEF Create, FinitelyBounded, Bounded
<1>2. DOMAIN grown = D \cup {o.key} /\ DOMAIN log = D \cup {o.key}
  BY <1>1 DEF With
<1>3. IsFiniteSet(D \cup {o.key}) /\ Cardinality(D \cup {o.key}) = Cardinality(D) + 1
  BY <1>1, FS_AddElement
<1>4. PICK gone \in Evictions(grown) :
         records' = Without(grown, gone) /\ history' = Without(log, gone)
  BY DEF Create
<1>5. DOMAIN records' = (D \cup {o.key}) \ gone /\ DOMAIN history' = DOMAIN records'
  BY <1>2, <1>4 DEF Without
<1>6. IsFiniteSet(DOMAIN records') /\ Cardinality(DOMAIN records') <= MaxRecords
  <2>1. CASE Cardinality(D \cup {o.key}) > MaxRecords
    <3>1. PICK k \in D \cup {o.key} : gone = {k}
      BY <1>2, <1>4, <2>1 DEF Evictions, LeastWorth
    <3>2. /\ IsFiniteSet((D \cup {o.key}) \ {k})
          /\ Cardinality((D \cup {o.key}) \ {k}) = Cardinality(D \cup {o.key}) - 1
      BY <1>3, FS_RemoveElement
    <3>3. Cardinality(D) \in Nat
      BY <1>1, FS_CardinalityType
    <3> QED
      BY <1>1, <1>3, <1>5, <3>1, <3>2, <3>3, BoundAssumption
  <2>2. CASE ~ (Cardinality(D \cup {o.key}) > MaxRecords)
    <3>1. gone = {}
      BY <1>2, <1>4, <2>2 DEF Evictions
    <3>2. Cardinality(D \cup {o.key}) \in Nat
      BY <1>3, FS_CardinalityType
    <3> QED
      BY <1>3, <1>5, <2>2, <3>1, <3>2, BoundAssumption
  <2> QED
    BY <2>1, <2>2
<1>7. \A k \in DOMAIN history' : Len(history'[k]) \in 1 .. MaxHistory
  <2> SUFFICES ASSUME NEW k \in DOMAIN history'
               PROVE  Len(history'[k]) \in 1 .. MaxHistory
    OBVIOUS
  <2>1. k \in D \cup {o.key} /\ history'[k] = log[k]
    BY <1>2, <1>4, <1>5 DEF Without
  <2>2. CASE k = o.key
    BY <2>1, <2>2, BoundAssumption DEF With
  <2>3. CASE k # o.key
    <3>1. k \in DOMAIN history /\ log[k] = history[k]
      BY <1>1, <2>1, <2>3 DEF With
    <3> QED
      BY <2>1, <3>1 DEF FinitelyBounded, Bounded
  <2> QED
    BY <2>2, <2>3
<1> QED
  BY <1>5, <1>6, <1>7 DEF FinitelyBounded, Bounded

\* Appending to the history of a stored record stays within its bound.
LEMMA AppendKeepsBounds ==
    ASSUME TypeOK, FinitelyBounded, NEW k \in DOMAIN records, NEW update \in Update,
           DOMAIN records' = DOMAIN records,
           history' = [history EXCEPT ![k] = Remember(history[k], update)]
    PROVE  FinitelyBounded'
<1>1. history[k] \in Seq(Update) /\ Len(history[k]) <= MaxHistory
  BY DEF TypeOK, FinitelyBounded, Bounded
<1>2. Len(Remember(history[k], update)) \in 1 .. MaxHistory
  BY <1>1, RememberShape
<1> QED
  BY <1>2 DEF FinitelyBounded, Bounded

LEMMA BoundsStep ==
    ASSUME TypeOK, FinitelyBounded, [Next]_vars
    PROVE  FinitelyBounded'
<1>1. ASSUME NEW o \in Observations, Ignore(o)
      PROVE  FinitelyBounded'
  <2> DEFINE update == StoreUpdate(revision, records[o.key].revision, {}, Rejected(o))
  <2>1. update \in Update
    BY <1>1, UpdatedShape DEF StoreUpdate, Update, TypeOK, Record, Ignore, Rejected, Differing
  <2> QED
    BY <1>1, <2>1, AppendKeepsBounds DEF Ignore
<1>2. ASSUME NEW o \in Observations, Merge(o)
      PROVE  FinitelyBounded'
  <2> DEFINE update == StoreUpdate(revision + 1, records[o.key].revision + 1,
                                   Accepted(o), Rejected(o))
  <2>1. update \in Update
    BY <1>2, UpdatedShape
       DEF StoreUpdate, Update, TypeOK, Record, Merge, Accepted, Rejected, Differing
  <2>2. o.key \in DOMAIN records /\ DOMAIN records' = DOMAIN records
    BY <1>2 DEF Merge
  <2>3. history' = [history EXCEPT ![o.key] = Remember(history[o.key], update)]
    BY <1>2 DEF Merge
  <2> HIDE DEF update
  <2> QED
    BY <2>1, <2>2, <2>3, AppendKeepsBounds
<1>3. ASSUME NEW gone, Remove(gone)
      PROVE  FinitelyBounded'
  <2>1. DOMAIN records' = DOMAIN records \ gone /\ DOMAIN history' = DOMAIN history \ gone
    BY <1>3 DEF Remove, Without
  <2>2. IsFiniteSet(DOMAIN records') /\ Cardinality(DOMAIN records') <= Cardinality(DOMAIN records)
    BY <2>1, FS_Subset DEF FinitelyBounded
  <2>3. /\ Cardinality(DOMAIN records) \in Nat /\ Cardinality(DOMAIN records') \in Nat
        /\ Cardinality(DOMAIN records) <= MaxRecords
    BY <2>2, FS_CardinalityType DEF FinitelyBounded, Bounded
  <2>4. Cardinality(DOMAIN records') <= MaxRecords
    BY <2>2, <2>3, BoundAssumption
  <2>5. \A k \in DOMAIN history' : history'[k] = history[k]
    BY <1>3 DEF Remove, Without
  <2> QED
    BY <2>1, <2>2, <2>4, <2>5 DEF FinitelyBounded, Bounded
<1>4. ASSUME UNCHANGED <<records, history>>
      PROVE  FinitelyBounded'
  BY <1>4 DEF FinitelyBounded, Bounded
<1> QED
  BY <1>1, <1>2, <1>3, <1>4, CreateKeepsBounds
     DEF Next, Upsert, RemoveSource, RemoveWhere, AdvanceRevision, vars

\* The store and its histories stay within their bounds.
THEOREM StaysBounded == Spec => []Bounded
<1>1. Init => FinitelyBounded
  <2>1. ASSUME Init
        PROVE  DOMAIN records = {} /\ DOMAIN history = {}
    BY <2>1 DEF Init
  <2> QED
    BY <2>1, FS_EmptySet, BoundAssumption DEF FinitelyBounded, Bounded
<1>2. TypeOK /\ FinitelyBounded /\ [Next]_vars => FinitelyBounded'
  BY BoundsStep
<1>3. FinitelyBounded => Bounded
  BY DEF FinitelyBounded
<1> QED
  BY <1>1, <1>2, <1>3, TypeCorrect, PTL DEF Spec

-----------------------------------------------------------------------------
(***************************************************************************)
(* Each claim is a register that only a strictly later stamp overwrites,   *)
(* and the store implements the ledger the runtime publishes from.         *)
(***************************************************************************)

LEMMA NewerStep ==
    ASSUME TypeOK, [Next]_vars,
           NEW k \in DOMAIN records \cap DOMAIN records', NEW d \in Dimension
    PROVE  NewerClaim(k, d)
<1>1. ASSUME records'[k] = records[k]
      PROVE  NewerClaim(k, d)
  BY <1>1 DEF NewerClaim, SameOrLater
<1>2. ASSUME NEW o \in Observations, Create(o)
      PROVE  NewerClaim(k, d)
  <2>1. records'[k] = records[k]
    BY <1>2 DEF Create, With, Without
  <2> QED
    BY <1>1, <2>1
<1>3. ASSUME NEW o \in Observations, Merge(o)
      PROVE  NewerClaim(k, d)
  <2>1. o.key \in DOMAIN records /\ records' = [records EXCEPT ![o.key] = Merged(o)]
    BY <1>3 DEF Merge
  <2>2. CASE k # o.key
    BY <1>1, <2>1, <2>2
  <2>3. CASE k = o.key
    <3>1. /\ records'[k].stamp[d] = MergedStamp(o)[d]
          /\ records'[k].claim[d] = MergedClaim(o)[d]
      BY <2>1, <2>3 DEF Merged
    <3>2. MergedStamp(o)[d] = IF d \in Newer(o) THEN EffectiveRevisions(o)[d]
                                                ELSE records[k].stamp[d]
      BY <2>3 DEF MergedStamp
    <3>3. d \in Newer(o) => Later(EffectiveRevisions(o)[d], records[k].stamp[d])
      BY <2>3 DEF Newer
    <3>4. MergedClaim(o)[d] = IF d \in Newer(o) THEN o.claim[d] ELSE records[k].claim[d]
      BY <2>1, <2>3, MergedClaimByStamp
    <3> QED
      BY <3>1, <3>2, <3>3, <3>4 DEF NewerClaim, SameOrLater
  <2> QED
    BY <2>2, <2>3
<1>4. ASSUME NEW gone, Remove(gone)
      PROVE  NewerClaim(k, d)
  <2>1. records'[k] = records[k]
    BY <1>4 DEF Remove, Without
  <2> QED
    BY <1>1, <2>1
<1>5. ASSUME UNCHANGED records
      PROVE  NewerClaim(k, d)
  BY <1>1, <1>5
<1> QED
  BY <1>2, <1>3, <1>4, <1>5
     DEF Next, Upsert, Ignore, RemoveSource, RemoveWhere, AdvanceRevision, vars

\* No late or duplicated envelope overwrites newer evidence.
THEOREM NewestEvidenceStays == Spec => OnlyNewerEvidence
<1>1. TypeOK /\ [Next]_vars =>
         [\A k \in DOMAIN records \cap DOMAIN records' :
             \A d \in Dimension : NewerClaim(k, d)]_vars
  BY NewerStep
<1> QED
  BY <1>1, TypeCorrect, PTL DEF Spec, OnlyNewerEvidence

\* The dimensions an unstamped envelope carries hold a claim.
LEMMA UnstampedClaims ==
    ASSUME NEW o \in Unstamped, NEW d \in UpdatedDimensions(o)
    PROVE  d \in Dimension /\ o.claim[d] # NoClaim
<1>1. o \in Observations /\ DOMAIN o.revisions = {}
  BY DEF Unstamped
<1>2. d \in Dimension /\ (d \in Identifying \/ o.claim[d] # NoClaim)
  BY <1>1 DEF UpdatedDimensions
<1>3. o.claim[d] \in Value[d]
  BY <1>1, <1>2, ObservationShape DEF Claims
<1> QED
  BY <1>2, <1>3, DimensionAssumption

\* What an envelope without stamps leaves out stays as it was
\* (EvidenceStore._updated_dimensions: a late identity-only envelope cannot
\* clear an earlier location).
THEOREM OmissionsKeepClaims == Spec => UnstampedNeverErases
<1>1. ASSUME NEW o \in Unstamped, Upsert(o),
             NEW k \in DOMAIN records \cap DOMAIN records', NEW d \in Dimension,
             records[k].claim[d] # NoClaim
      PROVE  records'[k].claim[d] # NoClaim
  <2>1. CASE Create(o)
    <3>1. records'[k] = records[k]
      BY <2>1 DEF Create, With, Without
    <3> QED
      BY <1>1, <3>1
  <2>2. CASE Ignore(o)
    BY <1>1, <2>2 DEF Ignore
  <2>3. CASE Merge(o)
    <3>1. o.key \in DOMAIN records /\ records' = [records EXCEPT ![o.key] = Merged(o)]
      BY <2>3 DEF Merge
    <3>2. CASE k # o.key
      BY <1>1, <3>1, <3>2
    <3>3. CASE k = o.key
      <4>1. records'[k].claim[d] = MergedClaim(o)[d]
        BY <3>1, <3>3 DEF Merged
      <4>2. MergedClaim(o)[d] = IF d \in Accepted(o) THEN o.claim[d] ELSE records[k].claim[d]
        BY <3>3 DEF MergedClaim
      <4>3. d \in Accepted(o) => o.claim[d] # NoClaim
        BY UnstampedClaims DEF Accepted, Newer
      <4> QED
        BY <1>1, <4>1, <4>2, <4>3
    <3> QED
      BY <3>2, <3>3
  <2> QED
    BY <1>1, <2>1, <2>2, <2>3 DEF Upsert
<1>2. [Next]_vars =>
        [\A o \in Unstamped : Upsert(o) =>
          \A k \in DOMAIN records \cap DOMAIN records' :
              \A d \in Dimension :
                  records[k].claim[d] # NoClaim => records'[k].claim[d] # NoClaim]_vars
  BY <1>1
<1> QED
  BY <1>2, PTL DEF Spec, UnstampedNeverErases

-----------------------------------------------------------------------------
(***************************************************************************)
(* Eviction (EvidenceStore._evict_if_needed).                              *)
(***************************************************************************)

\* A new record takes the room of one that is worth least of all: nothing
\* that stays, the new record included, is worth less.
THEOREM EvictionIsByWorth == Spec => EvictionSparesWorth
<1>1. ASSUME [Next]_vars, DOMAIN records' \ DOMAIN records # {},
             NEW k \in DOMAIN records \ DOMAIN records', NEW j \in DOMAIN records'
      PROVE  ~ WorthLess(records'[j], records[k])
  <2>1. PICK o \in Observations : Create(o)
    BY <1>1 DEF Next, Upsert, Ignore, Merge, RemoveSource, RemoveWhere, Remove, Without,
                AdvanceRevision, vars
  <2> DEFINE grown == With(records, o.key, Created(o))
  <2>2. PICK gone \in Evictions(grown) : records' = Without(grown, gone)
    BY <2>1 DEF Create
  <2>3. /\ DOMAIN grown = DOMAIN records \cup {o.key} /\ k # o.key
        /\ grown[k] = records[k] /\ k \in DOMAIN grown
    BY <2>1 DEF Create, With
  <2> HIDE DEF grown
  <2>4. k \in gone
    BY <2>2, <2>3 DEF Without
  <2>5. k \in LeastWorth(grown)
    BY <2>4 DEF Evictions
  <2>6. j \in DOMAIN grown /\ records'[j] = grown[j]
    BY <2>2 DEF Without
  <2> QED
    BY <2>3, <2>5, <2>6 DEF LeastWorth
<1>2. [Next]_vars =>
        [DOMAIN records' \ DOMAIN records # {} =>
          \A k \in DOMAIN records \ DOMAIN records' :
              \A j \in DOMAIN records' : ~ WorthLess(records'[j], records[k])]_vars
  BY <1>1
<1> QED
  BY <1>2, PTL DEF Spec, EvictionSparesWorth

-----------------------------------------------------------------------------
(***************************************************************************)
(* Revisions (EvidenceStore.advance_revision and its callers).             *)
(***************************************************************************)

\* A step that leaves the revision alone leaves the records alone.
LEMMA RevisionStep ==
    ASSUME TypeOK, [Next]_vars
    PROVE  UNCHANGED <<records, revision>> \/ revision' = revision + 1
BY DEF Next, Upsert, Create, Ignore, Merge, RemoveSource, RemoveWhere, Remove,
       AdvanceRevision, vars

\* The ledger counts as the store does.
LEMMA SameCardinality == \A S : Ledger!Cardinality(S) = Cardinality(S)
BY Zenon DEF Cardinality, Ledger!Cardinality

\* EvidenceStore refines ClaimLedger: the initial states and every step map.
THEOREM LedgerImplemented == Spec => ImplementsLedger
<1> DEFINE view == [k \in DOMAIN records |->
                       [claim |-> records[k].claim, stamp |-> records[k].stamp]]
<1>1. Init => Ledger!LedgerInit
  BY DEF Init, Ledger!LedgerInit
<1>2. TypeOK /\ TypeOK' /\ Bounded' /\ [Next]_vars => [Ledger!Publish]_<<view, revision>>
  <2> SUFFICES ASSUME TypeOK, Bounded', [Next]_vars
               PROVE  [Ledger!Publish]_<<view, revision>>
    OBVIOUS
  <2>1. CASE UNCHANGED <<records, revision>>
    BY <2>1
  <2>2. CASE revision' = revision + 1
    <3>1. DOMAIN view' = DOMAIN records' /\ DOMAIN view = DOMAIN records
      OBVIOUS
    <3>2. Cardinality(DOMAIN view') <= MaxRecords
      BY <3>1 DEF Bounded
    <3>3. ASSUME NEW k \in DOMAIN view \cap DOMAIN view'
          PROVE  Ledger!Succeeds(view[k], view'[k])
      <4>1. k \in DOMAIN records \cap DOMAIN records'
        BY <3>1, <3>3
      <4>2. \A d \in Dimension : NewerClaim(k, d)
        BY <4>1, NewerStep
      <4>3. /\ view[k].claim = records[k].claim /\ view[k].stamp = records[k].stamp
            /\ view'[k].claim = records'[k].claim /\ view'[k].stamp = records'[k].stamp
        BY <4>1
      <4> HIDE DEF view
      <4> QED
        BY <4>2, <4>3
           DEF NewerClaim, SameOrLater, Later, Ledger!Succeeds, Ledger!LaterStamp
    <3>4. Ledger!Cardinality(DOMAIN view') <= MaxRecords
      BY <3>2, SameCardinality
    <3> QED
      BY <2>2, <3>3, <3>4 DEF Ledger!Publish
  <2>3. UNCHANGED <<records, revision>> \/ revision' = revision + 1
    BY RevisionStep
  <2> HIDE DEF view
  <2> QED
    BY <2>1, <2>2, <2>3
<1> QED
  BY <1>1, <1>2, TypeCorrect, StaysBounded, PTL DEF Spec, ImplementsLedger, Ledger!LedgerSpec
=============================================================================
