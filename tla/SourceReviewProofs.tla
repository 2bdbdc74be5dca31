------------------------- MODULE SourceReviewProofs -------------------------
(***************************************************************************)
(* For any entries, names, devices and registries, and however registry    *)
(* events, forms, reloads and ends of the process interleave, the          *)
(* properties the run source_review checks hold.                           *)
(***************************************************************************)
EXTENDS SourceReview, TLAPS

Stages == {"down", "loading", "subscribing", "up"}

Types ==
    /\ registry \in [Entry -> [name: Name, kind: Kind]]
    /\ config \in Configurations /\ settings \in Configurations
    /\ active \in SUBSET Sources
    /\ stage \in Stages /\ reload \in BOOLEAN /\ missed \in BOOLEAN
    /\ {pending, seen, announced} \subseteq SUBSET Entry
    /\ saved \in Reviews \cup {Missing}

\* A form that is shown is about a draft, and about what it says.
FormsAreFilled ==
    /\ step \in {"none", "menu", "discovery", "review", "source"}
    /\ step # "none" => draft \in Configurations
    /\ step = "review" => picked \in Entry
    /\ step = "source" => chosen \in Sources

TypeCorrect == Types /\ FormsAreFilled

\* Unless a reload is due, what setup was given is what the entry has.
SettingsAreCurrent ==
    stage # "down" /\ ~reload =>
        /\ settings.ignored = config.ignored
        /\ settings.review = config.review
        /\ Bound(settings.sources) = Bound(config.sources)
        /\ unresolved \subseteq Bound(config.sources)

\* What discovery added, nobody had decided about.
AddedAreUndecided ==
    stage # "down" =>
        \A s \in active \ settings.sources :
            s.entry \notin settings.ignored \cup settings.review
                               \cup Bound(settings.sources)

Awake == stage \in {"subscribing", "up"}
Aware == ~reload /\ ~missed

\* An enabled source is named as its entry, or setup did not find the entry.
SourcesAreNamed ==
    stage # "down" /\ Aware =>
        \A s \in active : s.enabled =>
            \/ s.entry \in unresolved
            \/ s.entry \in Registered(registry) /\ s.name = registry[s.entry].name

\* What discovery added is for an entry that has all it needs.
AddedAreReady ==
    stage # "down" /\ Aware =>
        \A s \in active \ settings.sources :
            s.enabled => registry[s.entry].kind = "ready"

\* What is on offer is pending, and what may be told to be, is watched.
WaitingAreWatched ==
    Awake /\ Aware =>
        /\ Offered(active, registry) \ settings.ignored \subseteq pending
        /\ \A e \in Registered(registry) \
                      (settings.ignored \cup pending \cup Bound(active)) :
            registry[e].kind = "waiting" /\ registry[e].name \notin Names(active) =>
                registry[e].name \in watched

\* A notification on display is about what is announced, or was when it was
\* saved.
NoticeIsKept ==
    notice # 0 =>
        /\ Awake => /\ announced # {} /\ announced \subseteq pending
                    /\ notice = Groups(announced)
        /\ ~Awake => /\ saved # Missing /\ saved.announced # {}
                     /\ notice = Groups(saved.announced)
        /\ Awake /\ ~reload => settings.notify /\ ~comparison

\* What was offered before is remembered.
MetAreSeen ==
    /\ Awake => met \subseteq seen
    /\ ~Awake => IF saved = Missing THEN met = {} ELSE met \subseteq saved.seen
    /\ ~Awake => announced = {}

IInv ==
    /\ TypeCorrect
    /\ SettingsAreCurrent
    /\ AddedAreUndecided
    /\ SourcesAreNamed
    /\ AddedAreReady
    /\ WaitingAreWatched
    /\ NoticeIsKept
    /\ MetAreSeen

-----------------------------------------------------------------------------
(***************************************************************************)
(* Discovery.                                                              *)
(***************************************************************************)

\* Resolving the bindings of sources keeps them sources of the same entries.
LEMMA ResolvedKeepsBindings ==
    ASSUME NEW r \in [Entry -> [name: Name, kind: Kind]],
           NEW sources \in SUBSET Sources
    PROVE  /\ Resolved(sources, r) \in SUBSET Sources
           /\ Bound(Resolved(sources, r)) = Bound(sources)
           /\ \A s \in Resolved(sources, r) : s.entry \in Registered(r) =>
                s.name = r[s.entry].name
<1>. DEFINE new(s) == [s EXCEPT !.name = IF s.entry \in Registered(r)
                                          THEN r[s.entry].name ELSE @]
<1>1. \A s \in Sources : /\ new(s) \in Sources /\ new(s).entry = s.entry
                         /\ s.entry \in Registered(r) => new(s).name = r[s.entry].name
  BY DEF Sources, Registered
<1>2. Resolved(sources, r) = {new(s) : s \in sources}
  BY DEF Resolved
<1>. HIDE DEF new
<1>. QED BY <1>1, <1>2 DEF Bound

\* Discovery adds nothing that is ignored, kept for review or bound already.
LEMMA ActivatedAreNew ==
    ASSUME NEW r \in [Entry -> [name: Name, kind: Kind]],
           NEW c \in Configurations,
           \A s \in c.sources : s.entry \in Registered(r) => s.name = r[s.entry].name,
           NEW e \in Activated(c, r)
    PROVE  /\ e \in Registered(r)
           /\ e \notin c.ignored \cup c.review \cup Bound(c.sources)
<1>1. e \in Registered(r) /\ e \notin c.ignored \cup c.review /\ r[e].name \notin Names(c.sources)
  BY DEF Activated, Candidates
<1>2. e \notin Bound(c.sources)
  BY <1>1 DEF Bound, Names
<1>. QED BY <1>1, <1>2

\* The plan of a setup: every source is typed, and one that was added is for
\* an entry of the registry under its name.
LEMMA PlannedSources ==
    ASSUME NEW r \in [Entry -> [name: Name, kind: Kind]],
           NEW c \in Configurations
    PROVE  /\ Planned(c, r) \in SUBSET Sources
           /\ \A s \in Planned(c, r) \ c.sources :
                s.entry \in Activated(c, r) /\ s.name = r[s.entry].name
<1>1. Activated(c, r) \subseteq Entry
  BY DEF Activated, Candidates, Registered
<1>2. \A e \in Entry : /\ Automatic(e, r) \in Sources /\ Automatic(e, r).entry = e
                       /\ Automatic(e, r).name = r[e].name
  BY DEF Automatic, Sources
<1>3. c.sources \in SUBSET Sources
  BY DEF Configurations
<1>4. Planned(c, r) = c.sources \cup {Automatic(e, r) : e \in Activated(c, r)}
  BY DEF Planned
<1>. QED BY <1>1, <1>2, <1>3, <1>4

\* What one refresh of the review does, whatever it starts from.
LEMMA RefreshFacts ==
    ASSUME NEW old, NEW baseline \in BOOLEAN, NEW r,
           RefreshReview(old, baseline, r)
    PROVE  /\ pending' = Offered(active', r) \ settings'.ignored
           /\ seen' = Remembered(old, pending', r)
           /\ watched' = Watched(pending', r)
           /\ met' = (met \cap Registered(r)) \cup pending'
           /\ announced' \subseteq pending'
           /\ \A e \in announced' : e \in old.announced \/ (~baseline /\ e \notin old.seen)
           /\ notice' # 0 =>
                /\ settings'.notify /\ ~comparison
                /\ \/ announced' # {} /\ notice' = Groups(announced')
                   \/ notice' = notice /\ announced' = old.announced
<1>. DEFINE current == Offered(active', r) \ settings'.ignored
            new == IF baseline THEN {} ELSE current \ old.seen
            now == (old.announced \cap current) \cup (IF Alerts THEN new ELSE {})
<1>1. /\ pending' = current /\ seen' = Remembered(old, current, r)
      /\ announced' = now /\ watched' = Watched(current, r)
      /\ notice' = Notified(old.announced, new, now, notice)
      /\ met' = (met \cap Registered(r)) \cup current
  BY DEF RefreshReview
<1>2. announced' \subseteq pending' /\ \A e \in announced' : e \in old.announced \/ (~baseline /\ e \notin old.seen)
  BY <1>1
<1>3. ASSUME notice' # 0
      PROVE  /\ settings'.notify /\ ~comparison
             /\ \/ announced' # {} /\ notice' = Groups(announced')
                \/ notice' = notice /\ announced' = old.announced
  <2>. HIDE DEF current, new, now
  <2>1. CASE Alerts /\ now # {} /\ (new # {} \/ now # old.announced)
    BY <1>1, <2>1 DEF Notified, Alerts
  <2>2. CASE ~(Alerts /\ now # {} /\ (new # {} \/ now # old.announced))
    <3>1. Alerts /\ ~(old.announced # {} /\ now = {}) /\ notice' = notice
      BY <1>1, <1>3, <2>2 DEF Notified
    <3>2. now = old.announced
      BY <3>1, <2>2
    <3>. QED BY <1>1, <3>1, <3>2 DEF Alerts
  <2>. QED BY <2>1, <2>2
<1>. QED BY <1>1, <1>2, <1>3

-----------------------------------------------------------------------------
(***************************************************************************)
(* Types and forms.                                                        *)
(***************************************************************************)

\* What no form and no option changes, and that what is saved has a reload.
LEMMA FlowFrame ==
    ASSUME Flow
    PROVE  /\ UNCHANGED <<registry, stage, missed, unresolved, runtime, saved, met>>
           /\ config' = config \/ (config' = draft /\ step = "menu" /\ reload')
           /\ comparison' = comparison \/ reload'
           /\ reload => reload'
<1>1. CASE OpenFlow BY <1>1 DEF OpenFlow, world, runtime
<1>2. CASE OpenDiscovery BY <1>2 DEF OpenDiscovery, world, runtime
<1>3. CASE Later BY <1>3 DEF Later, world, runtime
<1>4. CASE Decide BY <1>4 DEF Decide, world, runtime
<1>5. CASE Add BY <1>5 DEF Add, world, runtime
<1>6. CASE SubmitSource BY <1>6 DEF SubmitSource, world, runtime
<1>7. CASE Abort BY <1>7 DEF Abort, world, runtime
<1>8. CASE Save BY <1>8 DEF Save, world, runtime
<1>9. CASE SwitchComparison BY <1>9 DEF SwitchComparison, runtime
<1>10. CASE \E notify \in BOOLEAN : SubmitDiscovery(notify)
  <2>1. UNCHANGED <<world, config, reload>>
    BY <1>10 DEF SubmitDiscovery
  <2>2. UNCHANGED comparison
    BY <2>1 DEF world
  <2>. QED BY <2>1, <2>2 DEF world, runtime
<1>11. CASE draft # Missing /\ \E s \in draft.sources : EditSource(s)
  BY <1>11 DEF EditSource, world, runtime
<1>. QED BY <1>1, <1>2, <1>3, <1>4, <1>5, <1>6, <1>7, <1>8, <1>9, <1>10, <1>11 DEF Flow

\* No event of the registries and no step of the runtime but the end of the
\* process touches the flow.
LEMMA RuntimeFrame ==
    ASSUME RegistryChanges \/ Runtime
    PROVE  /\ UNCHANGED <<config, comparison>>
           /\ UNCHANGED flow \/ Closed
<1>1. ASSUME NEW e \in Entry, EntityChanged(e) \/ StateTold(e)
      PROVE  UNCHANGED <<config, comparison, flow>>
  BY <1>1 DEF EntityChanged, StateTold
<1>2. ASSUME NEW d \in Device, DeviceMoved(d)
      PROVE  UNCHANGED <<config, comparison, flow>>
  BY <1>2 DEF DeviceMoved
<1>3. ASSUME Plan \/ Restore \/ Listen \/ DelayedSave \/ Unload
      PROVE  UNCHANGED <<config, comparison, flow>>
  BY <1>3 DEF Plan, Restore, Listen, DelayedSave, Unload
<1>4. CASE Exit
  BY <1>4 DEF Exit
<1>. QED BY <1>1, <1>2, <1>3, <1>4 DEF RegistryChanges, Runtime

\* A refresh keeps what it writes about entries of the registry.
LEMMA RefreshTyped ==
    ASSUME NEW old, NEW baseline \in BOOLEAN, NEW r \in [Entry -> [name: Name, kind: Kind]],
           RefreshReview(old, baseline, r)
    PROVE  {pending', seen', announced'} \subseteq SUBSET Entry
<1>1. Registered(r) \subseteq Entry
  BY DEF Registered
<1>2. pending' \subseteq Entry
  BY <1>1, RefreshFacts DEF Offered, Candidates
<1>3. seen' \subseteq Entry
  BY <1>1, <1>2, RefreshFacts DEF Remembered
<1>. QED BY <1>2, <1>3, RefreshFacts

\* Whatever happens to the registry, an entry keeps to a name and a kind.
LEMMA RegistryTyped ==
    ASSUME Types, Next
    PROVE  registry' \in [Entry -> [name: Name, kind: Kind]]
<1>. USE DEF Types
<1>1. ASSUME NEW e \in Entry, EntityChanged(e)
      PROVE  registry' \in [Entry -> [name: Name, kind: Kind]]
  <2>1. PICK entry \in Entries(e) : registry' = [registry EXCEPT ![e] = entry]
    BY <1>1 DEF EntityChanged
  <2>2. entry \in [name: Name, kind: Kind]
    BY NameAssumption, KindAssumption DEF Entries
  <2>. QED BY <2>1, <2>2
<1>2. ASSUME NEW e \in Entry, StateTold(e)
      PROVE  registry' \in [Entry -> [name: Name, kind: Kind]]
  BY <1>2 DEF StateTold, Kind
<1>3. ASSUME NEW d \in Device, DeviceMoved(d)
      PROVE  registry' \in [Entry -> [name: Name, kind: Kind]]
  <2>1. PICK kind \in {"ready", "unready"}, moved \in SUBSET Entry :
            registry' = [e \in Entry |-> IF e \in moved
                            THEN [registry[e] EXCEPT !.kind = kind] ELSE registry[e]]
    BY <1>3 DEF DeviceMoved, Registered
  <2>. QED BY <2>1 DEF Kind
<1>4. CASE Exit
  <2>1. PICK silent \in SUBSET Entry :
            registry' = [e \in Entry |-> IF e \in silent
                            THEN [registry[e] EXCEPT !.kind = "waiting"] ELSE registry[e]]
    BY <1>4 DEF Exit, Registered
  <2>. QED BY <2>1 DEF Kind
<1>5. CASE Plan \/ Restore \/ Listen \/ DelayedSave \/ Unload
  BY <1>5 DEF Plan, Restore, Listen, DelayedSave, Unload
<1>6. CASE Flow
  BY <1>6, FlowFrame
<1>. QED BY <1>1, <1>2, <1>3, <1>4, <1>5, <1>6 DEF Next, RegistryChanges, Runtime

\* Every form leaves a draft that is a configuration, and a form about an
\* entry or a source is about one.
LEMMA FormsNext ==
    ASSUME TypeCorrect, [Next]_vars
    PROVE  FormsAreFilled'
<1>. USE DEF TypeCorrect
<1>1. ASSUME UNCHANGED flow PROVE FormsAreFilled'
  BY <1>1 DEF FormsAreFilled, flow
<1>2. ASSUME Closed PROVE FormsAreFilled'
  BY <1>2 DEF FormsAreFilled, Closed
<1>3. CASE OpenFlow
  <2>1. Resolved(config.sources, registry) \in SUBSET Sources
    BY ResolvedKeepsBindings DEF Types, Configurations
  <2>2. draft' \in Configurations
    BY <1>3, <2>1 DEF OpenFlow, Types, Configurations
  <2>. QED BY <1>3, <2>2 DEF OpenFlow, Menu, FormsAreFilled
<1>4. ASSUME NEW s \in draft.sources, EditSource(s) PROVE FormsAreFilled'
  <2>1. draft \in Configurations /\ step = "menu"
    BY <1>4 DEF EditSource, FormsAreFilled
  <2>2. [s EXCEPT !.enabled = ~s.enabled] \in Sources
    BY <1>4, <2>1 DEF Configurations, Sources
  <2>3. draft' \in Configurations
    BY <1>4, <2>1, <2>2 DEF EditSource, Configurations
  <2>. QED BY <1>4, <2>3 DEF EditSource, Menu, FormsAreFilled
<1>5. CASE OpenDiscovery
  BY <1>5 DEF OpenDiscovery, FormsAreFilled
<1>6. ASSUME NEW notify \in BOOLEAN, SubmitDiscovery(notify) PROVE FormsAreFilled'
  <2>1. draft \in Configurations /\ step = "discovery"
    BY <1>6 DEF SubmitDiscovery, FormsAreFilled
  <2>2. ASSUME draft' = [draft EXCEPT !.notify = notify], Menu PROVE FormsAreFilled'
    BY <2>1, <2>2 DEF Menu, FormsAreFilled, Configurations
  <2>3. ASSUME NEW e \in Activated(draft, registry),
               draft' = [draft EXCEPT !.notify = notify,
                                      !.sources = @ \cup {Automatic(e, registry)}],
               chosen' = Automatic(e, registry), step' = "source"
        PROVE  FormsAreFilled'
    <3>1. e \in Entry
      BY DEF Activated, Candidates, Registered
    <3>2. Automatic(e, registry) \in Sources
      BY <3>1 DEF Automatic, Sources, Types
    <3>3. draft' \in Configurations
      BY <2>1, <2>3, <3>2 DEF Configurations
    <3>. QED BY <2>3, <3>2, <3>3 DEF FormsAreFilled
  <2>4. ASSUME NEW e \in draft.ignored \cup Offered(Planned(draft, registry), registry),
               draft' = [draft EXCEPT !.notify = notify], picked' = e, step' = "review"
        PROVE  FormsAreFilled'
    <3>1. e \in Entry
      BY <2>1 DEF Offered, Candidates, Registered, Configurations
    <3>2. draft' \in Configurations
      BY <2>1, <2>4 DEF Configurations
    <3>. QED BY <2>4, <3>1, <3>2 DEF FormsAreFilled
  <2>. QED BY <1>6, <2>2, <2>3, <2>4 DEF SubmitDiscovery
<1>7. CASE Later
  BY <1>7 DEF Later, Menu, FormsAreFilled
<1>8. CASE Decide
  <2>1. draft \in Configurations /\ picked \in Entry
    BY <1>8 DEF Decide, FormsAreFilled
  <2>2. draft' \in Configurations
    BY <1>8, <2>1 DEF Decide, Configurations
  <2>. QED BY <1>8, <2>2 DEF Decide, FormsAreFilled
<1>9. CASE Add
  <2>1. picked \in Entry /\ draft \in Configurations
    BY <1>9 DEF Add, FormsAreFilled
  <2>2. chosen' \in Sources
    BY <1>9, <2>1 DEF Add, Sources, Types
  <2>. QED BY <1>9, <2>1, <2>2 DEF Add, FormsAreFilled
<1>10. CASE SubmitSource
  <2>1. draft \in Configurations /\ chosen \in Sources
    BY <1>10 DEF SubmitSource, FormsAreFilled
  <2>2. \A enabled, remove \in BOOLEAN :
            [chosen EXCEPT !.enabled = enabled /\ ~remove] \in Sources
    BY <2>1 DEF Sources
  <2>3. PICK sources \in SUBSET Sources :
            draft' = [draft EXCEPT !.sources = sources, !.ignored = @ \ {picked},
                                   !.review = @ \ {picked}]
    <3>1. PICK enabled, remove \in BOOLEAN : draft' = [draft EXCEPT
            !.sources = IF remove /\ chosen \notin @ THEN @
                        ELSE (@ \ {chosen}) \cup
                                {[chosen EXCEPT !.enabled = enabled /\ ~remove]},
            !.ignored = @ \ {picked},
            !.review = @ \ {picked}]
      BY <1>10 DEF SubmitSource
    <3>. DEFINE source == [chosen EXCEPT !.enabled = enabled /\ ~remove]
                sources == IF remove /\ chosen \notin draft.sources THEN draft.sources
                           ELSE (draft.sources \ {chosen}) \cup {source}
    <3>2. sources \in SUBSET Sources
      <4>1. draft.sources \in SUBSET Sources
        BY <2>1 DEF Configurations
      <4>2. source \in Sources
        BY <2>2
      <4>. HIDE DEF source
      <4>. QED BY <4>1, <4>2
    <3>3. draft' = [draft EXCEPT !.sources = sources, !.ignored = @ \ {picked},
                                 !.review = @ \ {picked}]
      BY <2>1, <3>1 DEF Configurations
    <3>. HIDE DEF sources
    <3>. QED BY <3>2, <3>3
  <2>4. draft' \in Configurations
    BY <2>1, <2>3 DEF Configurations
  <2>. QED BY <1>10, <2>4 DEF SubmitSource, Menu, FormsAreFilled
<1>11. CASE Abort \/ Save
  BY <1>2, <1>11 DEF Abort, Save
<1>12. CASE SwitchComparison
  BY <1>1, <1>12 DEF SwitchComparison
<1>13. CASE RegistryChanges \/ Runtime
  BY <1>1, <1>2, <1>13, RuntimeFrame
<1>14. CASE UNCHANGED vars
  BY <1>1, <1>14 DEF vars
<1>. QED
  BY <1>3, <1>4, <1>5, <1>6, <1>7, <1>8, <1>9, <1>10, <1>11, <1>12, <1>13, <1>14
     DEF Next, Flow

\* The types: what Plan plans, what a refresh writes and what a form saves.
LEMMA TypesNext ==
    ASSUME TypeCorrect, [Next]_vars
    PROVE  Types'
<1>. USE DEF TypeCorrect
<1>1. CASE UNCHANGED vars
  BY <1>1 DEF vars, runtime, Types
<1>2. ASSUME Next PROVE Types'
  <2>1. registry' \in [Entry -> [name: Name, kind: Kind]]
    BY <1>2, RegistryTyped
  <2>2. CASE Flow
    <3>1. config' \in Configurations
      BY <2>2, FlowFrame DEF Types, FormsAreFilled
    <3>2. reload' \in BOOLEAN
      BY <2>2 DEF Flow, OpenFlow, OpenDiscovery, Later, Decide, Add, SubmitSource, Abort,
                  Save, SwitchComparison, SubmitDiscovery, EditSource, Types
    <3>. QED BY <2>2, <3>1, <3>2, FlowFrame DEF Types, runtime
  <2>3. ASSUME Heard PROVE {pending', seen', announced'} \subseteq SUBSET Entry
    BY <2>1, <2>3, RefreshTyped DEF Heard
  <2>4. ASSUME NEW e \in Entry, EntityChanged(e) PROVE Types'
    <3>1. CASE Heard
      BY <2>1, <2>3, <2>4, <3>1 DEF EntityChanged, Heard, Types
    <3>2. CASE UNCHANGED runtime
      <4>1. reload' \in BOOLEAN /\ missed' \in BOOLEAN
        BY <2>4, <3>2 DEF EntityChanged, Heard, Unheard, Types
      <4>. QED BY <2>1, <2>4, <3>2, <4>1 DEF EntityChanged, runtime, Types
    <3>. QED BY <2>4, <3>1, <3>2 DEF EntityChanged, Unheard
  <2>5. ASSUME NEW e \in Entry, StateTold(e) PROVE Types'
    <3>1. CASE Heard
      BY <2>1, <2>3, <2>5, <3>1 DEF StateTold, Heard, Types
    <3>2. CASE UNCHANGED <<runtime, reload, missed>>
      BY <2>1, <2>5, <3>2 DEF StateTold, runtime, Types
    <3>. QED BY <2>5, <3>1, <3>2 DEF StateTold
  <2>6. ASSUME NEW d \in Device, DeviceMoved(d) PROVE Types'
    <3>1. CASE Heard
      BY <2>1, <2>3, <2>6, <3>1 DEF DeviceMoved, Heard, Types
    <3>2. CASE UNCHANGED runtime
      <4>1. reload' \in BOOLEAN /\ missed' \in BOOLEAN
        BY <2>6, <3>2 DEF DeviceMoved, Heard, Unheard, Reloading, Types
      <4>. QED BY <2>1, <2>6, <3>2, <4>1 DEF DeviceMoved, runtime, Types
    <3>. QED BY <2>6, <3>1, <3>2 DEF DeviceMoved, Unheard, Reloading
  <2>7. CASE Plan
    <3>1. settings' \in Configurations
      <4>1. Resolved(config.sources, registry) \in SUBSET Sources
        BY ResolvedKeepsBindings DEF Types, Configurations
      <4>. QED BY <2>7, <4>1 DEF Plan, Types, Configurations
    <3>2. active' \in SUBSET Sources
      BY <2>7, <3>1, PlannedSources DEF Plan, Types
    <3>. QED BY <2>1, <2>7, <3>1, <3>2 DEF Plan, Types, Stages
  <2>8. CASE Restore
    <3>1. {pending', seen', announced'} \subseteq SUBSET Entry
      BY <2>8, RefreshTyped DEF Restore, Types
    <3>. QED BY <2>1, <2>8, <3>1 DEF Restore, Types, Stages
  <2>9. CASE Listen \/ DelayedSave
    <3>1. Reviewed \in Reviews
      BY DEF Reviewed, Reviews, Types
    <3>. QED BY <2>1, <2>9, <3>1 DEF Listen, DelayedSave, runtime, Types, Stages
  <2>10. CASE Unload \/ Exit
    <3>1. Reviewed \in Reviews
      BY DEF Reviewed, Reviews, Types
    <3>2. Gone /\ config' = config /\ saved' \in {saved, Reviewed}
      BY <2>10 DEF Unload, Exit
    <3>3. config' \in Configurations /\ saved' \in Reviews \cup {Missing}
      BY <3>1, <3>2 DEF Types
    <3>. QED BY <2>1, <3>2, <3>3 DEF Gone, Types, Stages
  <2>. QED
    BY <1>2, <2>2, <2>4, <2>5, <2>6, <2>7, <2>8, <2>9, <2>10
       DEF Next, RegistryChanges, Runtime
<1>. QED BY <1>1, <1>2

-----------------------------------------------------------------------------
(***************************************************************************)
(* What setup was given.                                                   *)
(***************************************************************************)

\* An event of the registries leaves the setup and its sources as they are.
LEMMA RegistryFrame ==
    ASSUME RegistryChanges
    PROVE  /\ UNCHANGED <<config, comparison, stage, unresolved, saved, active, settings>>
           /\ reload' = reload \/ reload' = TRUE
           /\ missed' = missed \/ (missed' = (missed \/ stage \in {"loading", "subscribing"}))
           /\ RefreshReview(Reviewed, FALSE, registry') \/ UNCHANGED runtime
<1>1. ASSUME NEW e \in Entry, EntityChanged(e)
      PROVE  /\ UNCHANGED <<config, comparison, stage, unresolved, saved>>
             /\ Heard \/ (UNCHANGED <<runtime, missed>> /\ reload' = TRUE) \/ Unheard
  BY <1>1 DEF EntityChanged
<1>2. ASSUME NEW e \in Entry, StateTold(e)
      PROVE  /\ UNCHANGED <<config, comparison, stage, unresolved, saved>>
             /\ Heard \/ UNCHANGED <<runtime, reload, missed>>
  BY <1>2 DEF StateTold
<1>3. ASSUME NEW d \in Device, DeviceMoved(d)
      PROVE  /\ UNCHANGED <<config, comparison, stage, unresolved, saved>>
             /\ Heard \/ Reloading \/ Unheard
  BY <1>3 DEF DeviceMoved
<1>4. ASSUME Heard \/ Reloading \/ Unheard
                \/ UNCHANGED <<runtime, reload, missed>>
                \/ (UNCHANGED <<runtime, missed>> /\ reload' = TRUE)
      PROVE  /\ UNCHANGED <<active, settings>>
             /\ reload' = reload \/ reload' = TRUE
             /\ missed' = missed \/ (missed' = (missed \/ stage \in {"loading", "subscribing"}))
             /\ RefreshReview(Reviewed, FALSE, registry') \/ UNCHANGED runtime
  BY <1>4 DEF Heard, Reloading, Unheard, runtime
<1>. QED BY <1>1, <1>2, <1>3, <1>4 DEF RegistryChanges

\* The sources a setup resolves are bound as configured.
LEMMA PlanSettings ==
    ASSUME TypeCorrect, Plan
    PROVE  /\ settings' \in Configurations
           /\ settings'.ignored = config.ignored
           /\ settings'.review = config.review
           /\ settings'.sources = Resolved(config.sources, registry)
           /\ Bound(settings'.sources) = Bound(config.sources)
<1>1. config \in Configurations /\ registry \in [Entry -> [name: Name, kind: Kind]]
  BY DEF TypeCorrect, Types
<1>2. /\ Resolved(config.sources, registry) \in SUBSET Sources
      /\ Bound(Resolved(config.sources, registry)) = Bound(config.sources)
  BY <1>1, ResolvedKeepsBindings DEF Configurations
<1>3. settings' = [config EXCEPT !.sources = Resolved(config.sources, registry)]
  BY DEF Plan
<1>. QED BY <1>1, <1>2, <1>3 DEF Configurations

\* Only a setup, and the configuration a form saves, change what setup was
\* given or what it should be given; the latter schedules a reload.
LEMMA SettingsNext ==
    ASSUME IInv, [Next]_vars
    PROVE  SettingsAreCurrent'
<1>. USE DEF IInv, SettingsAreCurrent
<1>1. CASE UNCHANGED vars \/ Listen \/ DelayedSave
  BY <1>1 DEF vars, runtime, Listen, DelayedSave
<1>2. CASE Flow
  BY <1>2, FlowFrame DEF runtime
<1>3. CASE RegistryChanges
  BY <1>3, RegistryFrame
<1>4. CASE Plan
  <2>1. config' = config /\ unresolved' \subseteq Bound(config.sources)
    BY <1>4 DEF Plan
  <2>. QED BY <1>4, <2>1, PlanSettings
<1>5. CASE Restore
  BY <1>5 DEF Restore
<1>6. CASE Unload \/ Exit
  BY <1>6 DEF Unload, Exit, Gone
<1>. QED BY <1>1, <1>2, <1>3, <1>4, <1>5, <1>6 DEF Next, Runtime

\* What a setup adds is undecided, and what it runs with stays until it is gone.
LEMMA AddedNext ==
    ASSUME IInv, [Next]_vars
    PROVE  AddedAreUndecided'
<1>. USE DEF IInv, AddedAreUndecided
<1>1. CASE UNCHANGED vars \/ Listen \/ DelayedSave
  BY <1>1 DEF vars, runtime, Listen, DelayedSave
<1>2. CASE Flow
  BY <1>2, FlowFrame DEF runtime
<1>3. CASE RegistryChanges
  BY <1>3, RegistryFrame
<1>4. CASE Plan
  <2>1. registry \in [Entry -> [name: Name, kind: Kind]] /\ config.sources \in SUBSET Sources
    BY DEF TypeCorrect, Types, Configurations
  <2>2. \A s \in settings'.sources : s.entry \in Registered(registry) =>
            s.name = registry[s.entry].name
    BY <1>4, <2>1, PlanSettings, ResolvedKeepsBindings
  <2>3. \A s \in Planned(settings', registry) \ settings'.sources :
            s.entry \in Activated(settings', registry)
    BY <1>4, <2>1, PlanSettings, PlannedSources
  <2>4. \A e \in Activated(settings', registry) :
            e \notin settings'.ignored \cup settings'.review \cup Bound(settings'.sources)
    BY <1>4, <2>1, <2>2, PlanSettings, ActivatedAreNew
  <2>. QED BY <1>4, <2>3, <2>4 DEF Plan
<1>5. CASE Restore
  BY <1>5 DEF Restore
<1>6. CASE Unload \/ Exit
  BY <1>6 DEF Unload, Exit, Gone
<1>. QED BY <1>1, <1>2, <1>3, <1>4, <1>5, <1>6 DEF Next, Runtime

-----------------------------------------------------------------------------
(***************************************************************************)
(* The registry under the sources.                                         *)
(***************************************************************************)

\* States and areas of devices change kinds only, of entries that stay.
LEMMA KindsOnly ==
    ASSUME Types,
           NEW changed \in SUBSET Registered(registry), NEW kind \in Kind \ {"absent"},
           registry' = [e \in Entry |-> IF e \in changed
                            THEN [registry[e] EXCEPT !.kind = kind] ELSE registry[e]]
    PROVE  /\ Registered(registry') = Registered(registry)
           /\ \A e \in Entry : /\ registry'[e].name = registry[e].name
                               /\ e \notin changed => registry'[e] = registry[e]
                               /\ e \in changed => registry'[e].kind = kind
<1>1. \A e \in Entry : /\ registry'[e].name = registry[e].name
                       /\ e \notin changed => registry'[e] = registry[e]
                       /\ e \in changed => registry'[e].kind = kind
  BY DEF Types
<1>2. \A e \in Entry : registry'[e].kind # "absent" <=> registry[e].kind # "absent"
  BY <1>1 DEF Registered
<1>. QED BY <1>1, <1>2 DEF Registered

\* The state of a tracker moves between waiting and unready.
LEMMA StateKinds ==
    ASSUME Types, NEW e \in Entry, StateTold(e)
    PROVE  /\ Registered(registry') = Registered(registry)
           /\ e \in Registered(registry)
           /\ \A x \in Entry : registry'[x].name = registry[x].name
           /\ \A x \in Entry \ {e} : registry'[x] = registry[x]
           /\ \/ registry[e].kind = "waiting" /\ registry'[e].kind = "unready"
              \/ /\ registry[e].kind = "unready" /\ e \in Tracker
                 /\ registry'[e].kind = "waiting"
<1>1. e \in Registered(registry)
  BY DEF StateTold, Registered
<1>2. PICK kind \in {"waiting", "unready"} :
        /\ registry' = [registry EXCEPT ![e].kind = kind]
        /\ \/ registry[e].kind = "waiting" /\ kind = "unready"
           \/ registry[e].kind = "unready" /\ e \in Tracker /\ kind = "waiting"
  BY DEF StateTold
<1>3. /\ \A x \in Entry : registry'[x].name = registry[x].name
      /\ \A x \in Entry \ {e} : registry'[x] = registry[x]
      /\ registry'[e].kind = kind
  BY <1>2 DEF Types
<1>4. \A x \in Entry : registry'[x].kind # "absent" <=> registry[x].kind # "absent"
  BY <1>2, <1>3
<1>. QED BY <1>1, <1>2, <1>3, <1>4 DEF Registered

\* A device that is moved changes kinds only, of its own entities.
LEMMA MovedKinds ==
    ASSUME Types, NEW d \in Device, DeviceMoved(d)
    PROVE  /\ Registered(registry') = Registered(registry)
           /\ \A x \in Entry : /\ registry'[x].name = registry[x].name
                               /\ DeviceOf[x] # d => registry'[x] = registry[x]
<1>1. PICK kind \in {"ready", "unready"}, moved \in SUBSET Registered(registry) :
        /\ \A x \in moved : DeviceOf[x] = d
        /\ registry' = [e \in Entry |-> IF e \in moved
                           THEN [registry[e] EXCEPT !.kind = kind] ELSE registry[e]]
  BY DEF DeviceMoved
<1>2. kind \in Kind \ {"absent"}
  BY DEF Kind
<1>. QED BY <1>1, <1>2, KindsOnly

\* A change of an entity that no source of the engine listens to leaves every
\* enabled source named as its entry.
LEMMA NamesNext ==
    ASSUME IInv, [Next]_vars
    PROVE  SourcesAreNamed'
<1>. USE DEF IInv, SourcesAreNamed, Aware
<1>1. CASE UNCHANGED vars \/ Listen \/ DelayedSave
  BY <1>1 DEF vars, runtime, Listen, DelayedSave
<1>2. CASE Flow
  BY <1>2, FlowFrame DEF runtime
<1>3. ASSUME NEW e \in Entry, EntityChanged(e) PROVE SourcesAreNamed'
  <2>1. RegistryChanges
    BY <1>3 DEF RegistryChanges
  <2>2. SUFFICES ASSUME stage' # "down", Aware', NEW s \in active, s.enabled,
                        s.entry \notin unresolved
                 PROVE  /\ s.entry \in Registered(registry')
                        /\ s.name = registry'[s.entry].name
    BY <2>1, RegistryFrame DEF SourcesAreNamed
  <2>3. stage = "up" /\ ~Touched(e)
    BY <1>3, <2>2 DEF EntityChanged, Unheard, TypeCorrect, Types, Stages
  <2>4. s.entry \in Registered(registry) /\ s.name = registry[s.entry].name
    BY <2>1, <2>2, RegistryFrame, <2>3
  <2>5. registry[e].name # s.name \/ e # s.entry
    BY <2>2, <2>3, <2>4 DEF Touched, NamesAt, EnabledNames, Names
  <2>6. e # s.entry
    BY <2>4, <2>5
  <2>7. PICK entry \in Entries(e) : registry' = [registry EXCEPT ![e] = entry]
    BY <1>3 DEF EntityChanged
  <2>8. \A x \in Entry \ {e} : registry'[x] = registry[x]
    BY <2>7 DEF TypeCorrect, Types
  <2>. QED BY <2>4, <2>6, <2>8 DEF Registered
<1>4. ASSUME NEW e \in Entry, StateTold(e) PROVE SourcesAreNamed'
  <2>1. RegistryChanges
    BY <1>4 DEF RegistryChanges
  <2>2. /\ Registered(registry') = Registered(registry)
        /\ \A x \in Entry : registry'[x].name = registry[x].name
    BY <1>4, StateKinds DEF TypeCorrect
  <2>. QED BY <2>1, <2>2, RegistryFrame DEF Registered
<1>5. ASSUME NEW d \in Device, DeviceMoved(d) PROVE SourcesAreNamed'
  <2>1. RegistryChanges
    BY <1>5 DEF RegistryChanges
  <2>2. /\ Registered(registry') = Registered(registry)
        /\ \A x \in Entry : registry'[x].name = registry[x].name
    BY <1>5, MovedKinds DEF TypeCorrect
  <2>. QED BY <2>1, <2>2, RegistryFrame DEF Registered
<1>6. CASE Plan
  <2>1. registry \in [Entry -> [name: Name, kind: Kind]] /\ config.sources \in SUBSET Sources
    BY DEF TypeCorrect, Types, Configurations
  <2>2. \A s \in settings'.sources :
            \/ s.entry \in unresolved'
            \/ s.entry \in Registered(registry) /\ s.name = registry[s.entry].name
    <3>1. \A s \in settings'.sources : s.entry \in Bound(config.sources)
      BY <1>6, PlanSettings DEF Bound
    <3>2. \A s \in settings'.sources : s.entry \in Registered(registry) =>
              s.name = registry[s.entry].name
      BY <1>6, <2>1, PlanSettings, ResolvedKeepsBindings
    <3>. QED BY <1>6, <3>1, <3>2 DEF Plan
  <2>3. \A s \in Planned(settings', registry) \ settings'.sources :
            s.entry \in Registered(registry) /\ s.name = registry[s.entry].name
    <3>1. Activated(settings', registry) \subseteq Registered(registry)
      BY DEF Activated, Candidates
    <3>. QED BY <1>6, <2>1, <3>1, PlanSettings, PlannedSources
  <2>. QED BY <1>6, <2>2, <2>3 DEF Plan
<1>7. CASE Restore
  BY <1>7 DEF Restore
<1>8. CASE Unload \/ Exit
  BY <1>8 DEF Unload, Exit, Gone
<1>. QED BY <1>1, <1>2, <1>3, <1>4, <1>5, <1>6, <1>7, <1>8 DEF Next, RegistryChanges, Runtime

\* An added source is for an entry that setup found.
LEMMA AddedAreFound ==
    ASSUME IInv, stage # "down", Aware
    PROVE  \A s \in active \ settings.sources : s.enabled =>
             /\ s.entry \in Registered(registry) /\ s.name = registry[s.entry].name
             /\ registry[s.entry].kind = "ready"
<1>1. \A s \in active \ settings.sources : s.entry \notin unresolved
  BY DEF IInv, SettingsAreCurrent, AddedAreUndecided, Aware
<1>. QED BY <1>1 DEF IInv, SourcesAreNamed, AddedAreReady

\* What makes an entry of an added source less than ready, an event about it or
\* its device, has a reload.
LEMMA ReadyNext ==
    ASSUME IInv, [Next]_vars
    PROVE  AddedAreReady'
<1>. USE DEF AddedAreReady
<1>1. CASE UNCHANGED vars \/ Listen \/ DelayedSave
  BY <1>1 DEF IInv, Aware, vars, runtime, Listen, DelayedSave
<1>2. CASE Flow
  BY <1>2, FlowFrame DEF IInv, Aware, runtime
<1>3. ASSUME NEW e \in Entry, EntityChanged(e) PROVE AddedAreReady'
  <2>1. RegistryChanges
    BY <1>3 DEF RegistryChanges
  <2>2. SUFFICES ASSUME stage' # "down", Aware', NEW s \in active \ settings.sources,
                        s.enabled
                 PROVE  registry'[s.entry].kind = "ready"
    BY <2>1, RegistryFrame
  <2>3. stage = "up" /\ ~Touched(e) /\ Aware
    BY <1>3, <2>1, <2>2, RegistryFrame
       DEF EntityChanged, Unheard, IInv, TypeCorrect, Types, Stages, Aware
  <2>4. /\ s.entry \in Registered(registry) /\ s.name = registry[s.entry].name
        /\ registry[s.entry].kind = "ready"
    BY <2>2, <2>3, AddedAreFound
  <2>5. e # s.entry
    BY <2>2, <2>3, <2>4 DEF Touched, NamesAt, EnabledNames, Names
  <2>6. PICK entry \in Entries(e) : registry' = [registry EXCEPT ![e] = entry]
    BY <1>3 DEF EntityChanged
  <2>. QED BY <2>4, <2>5, <2>6 DEF IInv, TypeCorrect, Types, Registered
<1>4. ASSUME NEW e \in Entry, StateTold(e) PROVE AddedAreReady'
  <2>1. RegistryChanges
    BY <1>4 DEF RegistryChanges
  <2>2. SUFFICES ASSUME stage # "down", Aware, NEW s \in active \ settings.sources,
                        s.enabled
                 PROVE  registry'[s.entry].kind = "ready"
    BY <2>1, RegistryFrame DEF Aware
  <2>3. s.entry \in Entry /\ registry[s.entry].kind = "ready"
    BY <2>2, AddedAreFound DEF Registered
  <2>. QED BY <1>4, <2>3, StateKinds DEF IInv, TypeCorrect
<1>5. ASSUME NEW d \in Device, DeviceMoved(d) PROVE AddedAreReady'
  <2>1. RegistryChanges
    BY <1>5 DEF RegistryChanges
  <2>2. SUFFICES ASSUME stage # "down", Aware, Aware', NEW s \in active \ settings.sources,
                        s.enabled
                 PROVE  registry'[s.entry].kind = "ready"
    BY <2>1, RegistryFrame DEF Aware
  <2>3. /\ s.entry \in Registered(registry) /\ s.name = registry[s.entry].name
        /\ registry[s.entry].kind = "ready"
    BY <2>2, AddedAreFound
  <2>4. /\ Registered(registry') = Registered(registry)
        /\ \A x \in Entry : /\ registry'[x].name = registry[x].name
                            /\ DeviceOf[x] # d => registry'[x] = registry[x]
    BY <1>5, MovedKinds DEF IInv, TypeCorrect
  <2>5. stage = "up" /\ ~Reloading
    BY <1>5, <2>2 DEF DeviceMoved, Unheard, Reloading, Aware, IInv, TypeCorrect, Types, Stages
  <2>6. \A e \in Registered(registry') :
            DeviceOf[e] = d => registry'[e].name \notin EnabledNames(active)
    BY <1>5, <2>5 DEF DeviceMoved
  <2>7. s.entry \in Entry /\ s.name \in EnabledNames(active)
    BY <2>2, <2>3 DEF Registered, EnabledNames, Names
  <2>8. DeviceOf[s.entry] # d
    BY <2>3, <2>4, <2>6, <2>7
  <2>. QED BY <2>3, <2>4, <2>7, <2>8
<1>6. CASE Plan
  <2>1. registry \in [Entry -> [name: Name, kind: Kind]] /\ registry' = registry
    BY <1>6 DEF IInv, TypeCorrect, Types, Plan
  <2>2. \A s \in Planned(settings', registry) \ settings'.sources :
            s.entry \in Activated(settings', registry)
    BY <1>6, <2>1, PlanSettings, PlannedSources DEF IInv
  <2>. QED BY <1>6, <2>1, <2>2 DEF Plan, Activated
<1>7. CASE Restore
  BY <1>7 DEF Restore, IInv, Aware
<1>8. CASE Unload \/ Exit
  BY <1>8 DEF Unload, Exit, Gone
<1>. QED BY <1>1, <1>2, <1>3, <1>4, <1>5, <1>6, <1>7, <1>8 DEF Next, RegistryChanges, Runtime

-----------------------------------------------------------------------------
(***************************************************************************)
(* The review.                                                             *)
(***************************************************************************)

\* A refresh offers what is on offer and watches what may come to be.
LEMMA RefreshWatches ==
    ASSUME NEW old, NEW baseline \in BOOLEAN,
           RefreshReview(old, baseline, registry'), UNCHANGED <<active, settings>>
    PROVE  /\ Offered(active', registry') \ settings'.ignored \subseteq pending'
           /\ \A e \in Registered(registry') \
                         (settings'.ignored \cup pending' \cup Bound(active')) :
                registry'[e].kind = "waiting" /\ registry'[e].name \notin Names(active') =>
                    registry'[e].name \in watched'
<1>1. pending' = Offered(active', registry') \ settings'.ignored
  BY RefreshFacts
<1>2. watched' = Watched(pending', registry')
  BY RefreshFacts
<1>3. EnabledNames(active') \subseteq Names(active')
  BY DEF EnabledNames, Names
<1>. QED BY <1>1, <1>2, <1>3 DEF Watched

\* A tracker whose metadata comes or goes is on offer from then on, or is
\* watched from then on, though nothing is refreshed if it was not watched.
LEMMA UnwatchedState ==
    ASSUME IInv, NEW e \in Entry, StateTold(e), Awake, Aware,
           registry[e].name \notin watched, UNCHANGED runtime
    PROVE  WaitingAreWatched'
<1>1. /\ Registered(registry') = Registered(registry)
      /\ e \in Registered(registry)
      /\ \A x \in Entry : registry'[x].name = registry[x].name
      /\ \A x \in Entry \ {e} : registry'[x] = registry[x]
  BY StateKinds DEF IInv, TypeCorrect
<1>2. /\ Offered(active, registry) \ settings.ignored \subseteq pending
      /\ \A x \in Registered(registry) \ (settings.ignored \cup pending \cup Bound(active)) :
            registry[x].kind = "waiting" /\ registry[x].name \notin Names(active) =>
                registry[x].name \in watched
  BY DEF IInv, WaitingAreWatched
<1>3. Represented(active, registry') = Represented(active, registry)
  <2>1. {x \in Registered(registry') : x \in Bound(active) \/ registry'[x].name \in Names(active)}
          = {x \in Registered(registry) : x \in Bound(active) \/ registry[x].name \in Names(active)}
    BY <1>1 DEF Registered
  <2>. QED BY <2>1 DEF Represented
<1>4. Registered(registry) \subseteq Entry
  BY DEF Registered
<1>5. active' = active /\ settings' = settings /\ pending' = pending /\ watched' = watched
  BY DEF runtime
<1>6. ASSUME NEW x \in Offered(active, registry') \ settings.ignored
      PROVE  x \in pending
  <2>1. /\ x \in Registered(registry) /\ x \in Entry /\ registry'[x].kind \in {"unready", "ready"}
        /\ x \notin Bound(active) /\ registry[x].name \notin Names(active)
        /\ DeviceOf[x] \notin Represented(active, registry) \/ x \in Tracker
    BY <1>1, <1>3, <1>4, <1>6 DEF Offered, Candidates
  <2>2. CASE x = e
    <3>1. registry[e].kind = "waiting"
      BY <2>1, <2>2, StateKinds DEF IInv, TypeCorrect
    <3>. QED BY <1>2, <1>6, <2>1, <2>2, <3>1
  <2>3. CASE x # e
    <3>1. x \in Offered(active, registry)
      BY <1>1, <2>1, <2>3 DEF Offered, Candidates
    <3>. QED BY <1>2, <1>6, <3>1
  <2>. QED BY <2>2, <2>3
<1>7. ASSUME NEW x \in Registered(registry) \ (settings.ignored \cup pending \cup Bound(active)),
             registry'[x].kind = "waiting", registry[x].name \notin Names(active)
      PROVE  registry[x].name \in watched
  <2>1. CASE x = e
    <3>1. registry[e].kind = "unready" /\ e \in Tracker
      BY <1>7, <2>1, StateKinds DEF IInv, TypeCorrect
    <3>2. e \in Offered(active, registry)
      BY <1>1, <1>7, <2>1, <3>1 DEF Offered, Candidates
    <3>. QED BY <1>2, <1>7, <2>1, <3>2
  <2>2. CASE x # e
    BY <1>1, <1>2, <1>4, <1>7, <2>2
  <2>. QED BY <2>1, <2>2
<1>. QED BY <1>1, <1>4, <1>5, <1>6, <1>7 DEF WaitingAreWatched

\* Each listener keeps the review complete, or a reload is due.
LEMMA WaitingNext ==
    ASSUME IInv, [Next]_vars
    PROVE  WaitingAreWatched'
<1>. USE DEF IInv, WaitingAreWatched, Awake, Aware
<1>1. CASE UNCHANGED vars
  BY <1>1 DEF vars, runtime
<1>2. CASE Listen \/ DelayedSave
  BY <1>2 DEF runtime, Listen, DelayedSave
<1>3. CASE Flow
  BY <1>3, FlowFrame DEF runtime
<1>4. ASSUME RefreshReview(Reviewed, FALSE, registry'), UNCHANGED <<active, settings>>
      PROVE  WaitingAreWatched'
  BY <1>4, RefreshWatches
<1>5. ASSUME NEW e \in Entry, EntityChanged(e) PROVE WaitingAreWatched'
  <2>1. SUFFICES ASSUME Awake', Aware' PROVE WaitingAreWatched'
    OBVIOUS
  <2>2. Heard
    BY <1>5, <2>1 DEF EntityChanged, Unheard, Heard, TypeCorrect, Types, Stages
  <2>. QED BY <1>4, <2>2 DEF Heard
<1>6. ASSUME NEW e \in Entry, StateTold(e) PROVE WaitingAreWatched'
  <2>1. SUFFICES ASSUME Awake', Aware' PROVE WaitingAreWatched'
    OBVIOUS
  <2>2. CASE Heard
    BY <1>4, <2>2 DEF Heard
  <2>3. CASE ~Heard
    <3>1. UNCHANGED <<stage, runtime, reload, missed>> /\ ~(Awake /\ registry[e].name \in watched)
      BY <1>6, <2>3 DEF StateTold
    <3>. QED BY <1>6, <2>1, <3>1, UnwatchedState
  <2>. QED BY <2>2, <2>3
<1>7. ASSUME NEW d \in Device, DeviceMoved(d) PROVE WaitingAreWatched'
  <2>1. SUFFICES ASSUME Awake', Aware' PROVE WaitingAreWatched'
    OBVIOUS
  <2>2. Heard
    BY <1>7, <2>1 DEF DeviceMoved, Reloading, Unheard, Heard, TypeCorrect, Types, Stages
  <2>. QED BY <1>4, <2>2 DEF Heard
<1>8. CASE Plan
  BY <1>8 DEF Plan
<1>9. CASE Restore
  <2>1. registry' = registry /\ UNCHANGED <<active, settings>>
    BY <1>9 DEF Restore
  <2>2. CASE saved = Missing
    <3>1. RefreshReview([seen |-> {}, announced |-> {}], TRUE, registry')
      BY <1>9, <2>1, <2>2 DEF Restore
    <3>. QED BY <2>1, <3>1, RefreshWatches
  <2>3. CASE saved # Missing
    <3>1. RefreshReview(saved, FALSE, registry')
      BY <1>9, <2>1, <2>3 DEF Restore
    <3>. QED BY <2>1, <3>1, RefreshWatches
  <2>. QED BY <2>2, <2>3
<1>10. CASE Unload \/ Exit
  BY <1>10 DEF Unload, Exit, Gone
<1>. QED BY <1>1, <1>2, <1>3, <1>5, <1>6, <1>7, <1>8, <1>9, <1>10
         DEF Next, RegistryChanges, Runtime

\* Every step that speaks to the user about the review, or saves it, leaves a
\* notification that is about what is announced.
LEMMA NoticeNext ==
    ASSUME IInv, [Next]_vars
    PROVE  NoticeIsKept'
<1>. USE DEF IInv, NoticeIsKept, Awake
<1>1. CASE UNCHANGED vars
  BY <1>1 DEF vars, runtime
<1>2. CASE Listen
  BY <1>2 DEF runtime, Listen
<1>3. CASE DelayedSave
  BY <1>3 DEF runtime, DelayedSave
<1>4. CASE Flow
  BY <1>4, FlowFrame DEF runtime
<1>5. ASSUME RefreshReview(Reviewed, FALSE, registry'), Awake,
             UNCHANGED <<stage, comparison, settings>>
      PROVE  NoticeIsKept'
  <2>1. Reviewed.announced = announced
    BY DEF Reviewed
  <2>2. /\ announced' \subseteq pending'
        /\ notice' # 0 =>
            /\ settings'.notify /\ ~comparison
            /\ \/ announced' # {} /\ notice' = Groups(announced')
               \/ notice' = notice /\ announced' = announced
    BY <1>5, <2>1, RefreshFacts
  <2>. QED BY <1>5, <2>2
<1>6. ASSUME UNCHANGED <<stage, comparison, saved, runtime>>, reload' = reload \/ reload' = TRUE
      PROVE  NoticeIsKept'
  BY <1>6 DEF runtime
<1>7. CASE RegistryChanges
  <2>1. CASE UNCHANGED runtime
    BY <1>6, <1>7, <2>1, RegistryFrame
  <2>2. CASE ~UNCHANGED runtime
    <3>1. Heard /\ Awake
      <4>1. ASSUME NEW e \in Entry, EntityChanged(e) PROVE Heard /\ Awake
        BY <2>2, <4>1 DEF EntityChanged, Unheard
      <4>2. ASSUME NEW e \in Entry, StateTold(e) PROVE Heard /\ Awake
        BY <2>2, <4>2 DEF StateTold
      <4>3. ASSUME NEW d \in Device, DeviceMoved(d) PROVE Heard /\ Awake
        BY <2>2, <4>3 DEF DeviceMoved, Unheard, Reloading
      <4>. QED BY <1>7, <4>1, <4>2, <4>3 DEF RegistryChanges
    <3>. QED BY <1>5, <1>7, <3>1, RegistryFrame DEF Heard
  <2>. QED BY <2>1, <2>2
<1>8. CASE Plan
  BY <1>8 DEF Plan
<1>9. CASE Restore
  <2>1. comparison' = comparison /\ stage = "loading" /\ stage' = "subscribing"
    BY <1>9 DEF Restore
  <2>2. CASE saved = Missing
    <3>1. RefreshReview([seen |-> {}, announced |-> {}], TRUE, registry)
      BY <1>9, <2>2 DEF Restore
    <3>2. notice = 0
      BY <2>1, <2>2
    <3>3. /\ announced' \subseteq pending'
          /\ notice' # 0 => /\ settings'.notify /\ ~comparison
                            /\ announced' # {} /\ notice' = Groups(announced')
      BY <3>1, <3>2, RefreshFacts
    <3>. QED BY <2>1, <3>3
  <2>3. CASE saved # Missing
    <3>1. RefreshReview(saved, FALSE, registry)
      BY <1>9, <2>3 DEF Restore
    <3>2. /\ announced' \subseteq pending'
          /\ notice' # 0 =>
            /\ settings'.notify /\ ~comparison
            /\ \/ announced' # {} /\ notice' = Groups(announced')
               \/ notice' = notice /\ announced' = saved.announced
      BY <3>1, RefreshFacts
    <3>3. notice # 0 => saved.announced # {} /\ notice = Groups(saved.announced)
      BY <2>1
    <3>. QED BY <2>1, <3>2, <3>3
  <2>. QED BY <2>2, <2>3
<1>10. CASE Unload
  <2>1. Reviewed \in Reviews
    BY DEF Reviewed, Reviews, TypeCorrect, Types
  <2>2. stage' = "down" /\ stage = "up" /\ saved' = Reviewed /\ notice' = notice
    BY <1>10 DEF Unload, Gone
  <2>3. Reviewed.announced = announced
    BY DEF Reviewed
  <2>. QED BY <2>1, <2>2, <2>3, MissingAssumption
<1>11. CASE Exit
  BY <1>11 DEF Exit
<1>. QED BY <1>1, <1>2, <1>3, <1>4, <1>7, <1>8, <1>9, <1>10, <1>11 DEF Next, Runtime

\* What is remembered covers what was offered, whatever the step.
LEMMA MetNext ==
    ASSUME IInv, [Next]_vars
    PROVE  MetAreSeen'
<1>. USE DEF IInv, MetAreSeen, Awake
<1>1. CASE UNCHANGED vars
  BY <1>1 DEF vars, runtime
<1>2. CASE Listen
  BY <1>2 DEF runtime, Listen
<1>3. CASE DelayedSave
  BY <1>3 DEF runtime, DelayedSave
<1>4. CASE Flow
  BY <1>4, FlowFrame DEF runtime
<1>5. ASSUME NEW old, NEW baseline \in BOOLEAN, RefreshReview(old, baseline, registry'),
             met \subseteq old.seen
      PROVE  met' \subseteq seen'
  <2>1. /\ seen' = Remembered(old, pending', registry')
        /\ met' = (met \cap Registered(registry')) \cup pending'
    BY <1>5, RefreshFacts
  <2>. QED BY <1>5, <2>1 DEF Remembered
<1>6. ASSUME UNCHANGED <<stage, saved, runtime>>, met' \subseteq met
      PROVE  MetAreSeen'
  BY <1>6 DEF runtime
<1>7. CASE RegistryChanges
  <2>1. ASSUME Heard, Awake, stage' = stage PROVE MetAreSeen'
    <3>1. Reviewed.seen = seen
      BY DEF Reviewed
    <3>2. RefreshReview(Reviewed, FALSE, registry')
      BY <2>1 DEF Heard
    <3>. QED BY <1>5, <2>1, <3>1, <3>2
  <2>2. ASSUME NEW e \in Entry, EntityChanged(e) PROVE MetAreSeen'
    <3>1. \/ Heard /\ Awake
          \/ UNCHANGED runtime /\ met' \subseteq met
      BY <2>2 DEF EntityChanged, Unheard
    <3>. QED BY <1>6, <1>7, <2>1, <3>1, RegistryFrame
  <2>3. ASSUME NEW e \in Entry, StateTold(e) PROVE MetAreSeen'
    <3>1. \/ Heard /\ Awake
          \/ UNCHANGED runtime /\ met' \subseteq met
      BY <2>3 DEF StateTold
    <3>. QED BY <1>6, <1>7, <2>1, <3>1, RegistryFrame
  <2>4. ASSUME NEW d \in Device, DeviceMoved(d) PROVE MetAreSeen'
    <3>1. \/ Heard /\ Awake
          \/ UNCHANGED runtime /\ met' \subseteq met
      BY <2>4 DEF DeviceMoved, Unheard, Reloading
    <3>. QED BY <1>6, <1>7, <2>1, <3>1, RegistryFrame
  <2>. QED BY <1>7, <2>2, <2>3, <2>4 DEF RegistryChanges
<1>8. CASE Plan
  BY <1>8 DEF Plan
<1>9. CASE Restore
  <2>1. registry' = registry /\ stage = "loading" /\ stage' = "subscribing"
    BY <1>9 DEF Restore
  <2>2. CASE saved = Missing
    <3>1. RefreshReview([seen |-> {}, announced |-> {}], TRUE, registry')
      BY <1>9, <2>1, <2>2 DEF Restore
    <3>2. met \subseteq [seen |-> {}, announced |-> {}].seen
      BY <2>1, <2>2
    <3>. QED BY <1>5, <2>1, <3>1, <3>2
  <2>3. CASE saved # Missing
    <3>1. RefreshReview(saved, FALSE, registry')
      BY <1>9, <2>1, <2>3 DEF Restore
    <3>. QED BY <1>5, <2>1, <2>3, <3>1
  <2>. QED BY <2>2, <2>3
<1>10. CASE Unload
  <2>1. Reviewed \in Reviews
    BY DEF Reviewed, Reviews, TypeCorrect, Types
  <2>2. Reviewed.seen = seen
    BY DEF Reviewed
  <2>. QED BY <1>10, <2>1, <2>2, MissingAssumption DEF Unload, Gone
<1>11. CASE Exit
  BY <1>11 DEF Exit, Gone
<1>. QED BY <1>1, <1>2, <1>3, <1>4, <1>7, <1>8, <1>9, <1>10, <1>11 DEF Next, Runtime

-----------------------------------------------------------------------------
(***************************************************************************)
(* The invariant and what follows from it.                                 *)
(***************************************************************************)

\* An entry that was never set up satisfies the invariant.
LEMMA IInvInit == Init => IInv
<1>. SUFFICES ASSUME Init PROVE IInv
  OBVIOUS
<1>1. registry \in [Entry -> [name: Name, kind: Kind]]
  BY RegistryAssumption DEF Init, Registries
<1>2. config \in Configurations
  BY DEF Init, Configurations
<1>3. TypeCorrect
  BY <1>1, <1>2 DEF Init, TypeCorrect, Types, FormsAreFilled, Stages
<1>. QED
  BY <1>3 DEF Init, IInv, SettingsAreCurrent, AddedAreUndecided, SourcesAreNamed,
              AddedAreReady, WaitingAreWatched, NoticeIsKept, MetAreSeen, Awake

\* Every step keeps the invariant.
LEMMA IInvNext == IInv /\ [Next]_vars => IInv'
<1>. SUFFICES ASSUME IInv, [Next]_vars PROVE IInv'
  OBVIOUS
<1>1. TypeCorrect'
  BY TypesNext, FormsNext DEF IInv, TypeCorrect
<1>. QED
  BY <1>1, SettingsNext, AddedNext, NamesNext, ReadyNext, WaitingNext, NoticeNext, MetNext DEF IInv

\* The review and the runtime it is about, however registry events, forms,
\* reloads and ends of the process follow each other.
THEOREM ReviewInvariant == Spec => []IInv
<1>. QED BY IInvInit, IInvNext, PTL DEF Spec

\* Type correctness: the runtime and the forms hold configurations, sources
\* and entries of the registry.
THEOREM ReviewTypes == Spec => []TypeCorrect
<1>1. IInv => TypeCorrect
  BY DEF IInv
<1>. QED BY <1>1, ReviewInvariant, PTL

\* The engine runs no source of its own accord for an entry the user ignored,
\* keeps for review or has a source for (apply_discovery).
THEOREM UserDecisionsStand == Spec => []DecisionsStand
<1>1. IInv => DecisionsStand
  BY DEF IInv, SettingsAreCurrent, AddedAreUndecided, DecisionsStand, Settled
<1>. QED BY <1>1, ReviewInvariant, PTL

\* The engine listens to the entities its sources are bound to, by the names
\* they have now, and those that discovery added to entries that are ready
\* (resolve_raw_registry_bindings, apply_discovery, _async_registry_changed,
\* _async_device_registry_changed).
THEOREM SourcesFollow == Spec => []SourcesFollowTheRegistry
<1>1. IInv => SourcesFollowTheRegistry
  BY DEF IInv, SettingsAreCurrent, SourcesAreNamed, AddedAreReady, SourcesFollowTheRegistry,
         Settled, Aware, Bound
<1>. QED BY <1>1, ReviewInvariant, PTL

\* What is compatible is offered, in whatever order an entry, its metadata and
\* the setup come (_refresh_source_review, _async_review_state_changed).
THEOREM NothingWithheld == Spec => []NothingIsWithheld
<1>1. IInv => NothingIsWithheld
  BY DEF IInv, WaitingAreWatched, NothingIsWithheld, Settled, Awake, Aware
<1>. QED BY <1>1, ReviewInvariant, PTL

\* A notification on display is about what is announced and still on offer
\* (_refresh_source_review).
THEOREM NoticeTrue == Spec => []NoticeIsTrue
<1>1. IInv => NoticeIsTrue
  BY DEF IInv, NoticeIsKept, NoticeIsTrue, Settled, Awake
<1>. QED BY <1>1, ReviewInvariant, PTL

\* Nothing that was offered before is announced, through reloads and restarts
\* (_review_seen, and its copy in the store).
THEOREM AnnouncedOnceEach == Spec => AnnouncedOnce
<1>. DEFINE Told == IF stage = "loading" /\ saved # Missing THEN saved.announced
                    ELSE announced
<1>1. ASSUME IInv, [Next]_vars, NEW e \in announced' \ Told
      PROVE  e \notin met
  <2>. USE DEF IInv, MetAreSeen, Awake
  <2>1. ASSUME NEW r, RefreshReview(Reviewed, FALSE, r), stage # "down", stage # "loading"
        PROVE  e \notin met
    <3>1. Reviewed.seen = seen /\ Reviewed.announced = announced
      BY DEF Reviewed
    <3>2. e \notin seen
      BY <1>1, <2>1, <3>1, RefreshFacts
    <3>3. met \subseteq seen
      BY <1>1, <2>1 DEF TypeCorrect, Types, Stages
    <3>. QED BY <3>2, <3>3
  <2>2. ASSUME announced' = announced PROVE FALSE
    BY <1>1, <2>2 DEF TypeCorrect, Types, Stages
  <2>3. CASE Restore
    <3>1. stage = "loading"
      BY <2>3 DEF Restore
    <3>2. CASE saved = Missing
      <4>1. RefreshReview([seen |-> {}, announced |-> {}], TRUE, registry)
        BY <2>3, <3>2 DEF Restore
      <4>2. \A x \in announced' : x \in [seen |-> {}, announced |-> {}].announced
        BY <4>1, RefreshFacts
      <4>. QED BY <1>1, <4>2
    <3>3. CASE saved # Missing
      <4>1. RefreshReview(saved, FALSE, registry)
        BY <2>3, <3>3 DEF Restore
      <4>2. e \notin saved.seen
        BY <1>1, <3>1, <3>3, <4>1, RefreshFacts
      <4>. QED BY <1>1, <3>1, <3>3, <4>2
    <3>. QED BY <3>2, <3>3
  <2>4. CASE RegistryChanges
    <3>1. CASE announced' = announced
      BY <2>2, <3>1
    <3>2. CASE announced' # announced
      <4>1. RefreshReview(Reviewed, FALSE, registry')
        BY <2>4, <3>2, RegistryFrame DEF runtime
      <4>2. stage \in {"subscribing", "up"}
        <5>1. ASSUME NEW x \in Entry, EntityChanged(x) PROVE stage = "up"
          BY <3>2, <5>1 DEF EntityChanged, Unheard, runtime
        <5>2. ASSUME NEW x \in Entry, StateTold(x) PROVE stage \in {"subscribing", "up"}
          BY <3>2, <5>2 DEF StateTold, runtime
        <5>3. ASSUME NEW d \in Device, DeviceMoved(d) PROVE stage = "up"
          BY <3>2, <5>3 DEF DeviceMoved, Unheard, runtime
        <5>. QED BY <2>4, <5>1, <5>2, <5>3 DEF RegistryChanges
      <4>. QED BY <2>1, <4>1, <4>2
    <3>. QED BY <3>1, <3>2
  <2>5. CASE Plan \/ Listen \/ DelayedSave
    BY <2>2, <2>5 DEF Plan, Listen, DelayedSave, runtime
  <2>6. CASE Unload \/ Exit
    BY <1>1, <2>6 DEF Unload, Exit, Gone
  <2>7. CASE Flow
    BY <2>2, <2>7, FlowFrame DEF runtime
  <2>8. CASE UNCHANGED vars
    BY <2>2, <2>8 DEF vars, runtime
  <2>. QED BY <1>1, <2>3, <2>4, <2>5, <2>6, <2>7, <2>8 DEF Next, Runtime
<1>2. IInv /\ [Next]_vars => [\A e \in announced' \ Told : e \notin met]_vars
  BY <1>1
<1>. QED BY <1>2, ReviewInvariant, PTL DEF Spec, AnnouncedOnce
=============================================================================
