------------------------------ MODULE Expiry ------------------------------
(***************************************************************************)
(* Time-bounded evidence: PresenceRuntime.process, refresh, next_expiration *)
(* and mark_channel_unavailable, and the single timer that the Home        *)
(* Assistant runtime keeps for them.                                       *)
(*                                                                         *)
(* Every handler runs alone under the runtime's lock and ends by replacing *)
(* the timer.  The clock goes on while a handler runs, and the event loop  *)
(* may run a handler that is ready before a timer that is due.             *)
(*                                                                         *)
(* A source stands for its one observation: held[s] is the instant its     *)
(* lifetime counts from.  What the resolver derives from the current       *)
(* evidence is abstracted to one view per source.                          *)
(***************************************************************************)
EXTENDS Integers, FiniteSets

CONSTANTS
    Source,       \* the sources of the configuration
    Lifetime,     \* Lifetime[s]: expires_after_seconds of the limited sources
    Counting,     \* the sources whose evidence is an unstable count above one
    Measured,     \* the sources that carry the clock of their measurement (GPS)
    Coverage,     \* the sources whose absence degrades the coverage
    Maturity,     \* count_stability_window
    Latency,      \* the clock may advance by so much while a handler runs
    MaxNow,       \* bound of the model on the clock
    MaxMessages   \* bound of the model on the messages that arrive

Nothing == -1
NoTimer == -1
Instant == 0 .. MaxNow

Limited == DOMAIN Lifetime

ASSUME SourceAssumption ==
    /\ Limited \subseteq Source
    /\ Counting \subseteq Source
    /\ Measured \subseteq Source \ Counting
    /\ Coverage \subseteq Source
    /\ Lifetime \in [Limited -> Nat \ {0}]

ASSUME WindowAssumption ==
    /\ Maturity \in Nat \ {0}
    /\ Latency \in Nat
    /\ MaxNow \in Nat
    /\ MaxMessages \in Nat

VARIABLES
    now,          \* the clock
    held,         \* the active evidence of the store
    unavailable,  \* _unavailable_sources
    revision,     \* the revision of the store
    shown,        \* _snapshot: the view of every source
    evaluated,    \* _snapshot.evaluated_at
    signature,    \* _freshness_signature
    timer,        \* _cancel_expiration: when the installed timer is due
    pending,      \* a refresh task waits to run
    messages      \* how many messages have arrived

engine == <<held, unavailable, revision, shown, evaluated, signature>>
expiryVars == <<now, held, unavailable, revision, shown, evaluated, signature,
                timer, pending, messages>>

-----------------------------------------------------------------------------
(***************************************************************************)
(* What evidence is worth at an instant.                                   *)
(***************************************************************************)

\* Slip: evidence is still current at the end of its lifetime.
CurrentInclusive(h, s, t) == h[s] # Nothing /\ (s \in Limited => t <= h[s] + Lifetime[s])

Current(h, s, t) == h[s] # Nothing /\ (s \in Limited => t < h[s] + Lifetime[s])

Fresh(h, t) == {s \in Source : Current(h, s, t)}

\* An unstable count claims one person until it has lasted long enough.
Young(h, s, t) == s \in Counting /\ t < h[s] + Maturity

ViewOf(h, s, t) ==
    IF ~ Current(h, s, t) THEN "absent"
    ELSE IF Young(h, s, t) THEN "possible" ELSE "confirmed"

\* What the resolver makes of the evidence at t.
Resolved(h, t) == [s \in Source |-> ViewOf(h, s, t)]

MaturityDeadlines(h, missing, t) ==
    {h[s] + Maturity : s \in {c \in Counting \ missing : Current(h, c, t)}}

ExpiryDeadlines(h) == {h[s] + Lifetime[s] : s \in {l \in Limited : h[l] # Nothing}}

Upcoming(h, missing, t) ==
    {d \in ExpiryDeadlines(h) \cup MaturityDeadlines(h, missing, t) : d > t}

\* The earliest deadline that is still to come.
NextExpiration(h, missing, t) ==
    LET upcoming == Upcoming(h, missing, t)
    IN  IF upcoming = {} THEN NoTimer
        ELSE CHOOSE d \in upcoming : \A e \in upcoming : d <= e

-----------------------------------------------------------------------------
(***************************************************************************)
(* The parts every handler is made of.                                     *)
(***************************************************************************)

\* The timer is replaced at the end of the handler, by what is then to come.
Reschedule ==
    /\ now' \in {t \in Instant : now <= t /\ t <= now + Latency}
    /\ timer' = NextExpiration(held', unavailable', now')

Resolve ==
    /\ shown' = Resolved(held', now)
    /\ evaluated' = now
    /\ signature' = Fresh(held', now)

Keep == UNCHANGED <<shown, evaluated, signature>>

Arrive == messages < MaxMessages /\ messages' = messages + 1

\* process: the end of every envelope that changed something.
Changed == Resolve /\ Reschedule /\ Arrive /\ UNCHANGED pending

Unchanged == Keep /\ Reschedule /\ Arrive /\ UNCHANGED pending

Steps(b) == IF b THEN 1 ELSE 0

ExpiryInit ==
    /\ now = 0
    /\ held \in [Source -> {Nothing, 0}]   \* as restored
    /\ unavailable = {}
    /\ revision = 0
    /\ shown = Resolved(held, 0)
    /\ evaluated = 0
    /\ signature = Fresh(held, 0)
    /\ timer = NextExpiration(held, unavailable, 0)
    /\ pending = FALSE
    /\ messages = 0

(***************************************************************************)
(* process: one envelope of one source.                                    *)
(***************************************************************************)

\* Slip: new evidence does not resolve the snapshot again.
ObserveSilently(s) ==
    \E clock \in IF s \in Measured THEN 0 .. now ELSE {now} :
        /\ clock > held[s]
        /\ held' = [held EXCEPT ![s] = clock]
        /\ unavailable' = unavailable \ {s}
        /\ revision' = revision + 1 + Steps(s \in unavailable)
        /\ Unchanged

\* A claim that is newer and differs; a measurement may arrive late.
Observe(s) ==
    \E clock \in IF s \in Measured THEN 0 .. now ELSE {now} :
        /\ clock > held[s]
        /\ held' = [held EXCEPT ![s] = clock]
        /\ unavailable' = unavailable \ {s}
        /\ revision' = revision + 1 + Steps(s \in unavailable)
        /\ Changed

\* An envelope that brings nothing the store accepts.
Repeat(s) ==
    /\ held[s] # Nothing
    /\ s \notin unavailable
    /\ UNCHANGED <<held, unavailable, revision>>
    /\ Unchanged

\* The source reports that there is nothing to see: its evidence has ended.
End(s) ==
    /\ s \notin Measured
    /\ held[s] # Nothing
    /\ held' = [held EXCEPT ![s] = Nothing]
    /\ unavailable' = unavailable \ {s}
    /\ revision' = revision + 1 + Steps(s \in unavailable)
    /\ Changed

\* Only a source that covers an area becomes unavailable with its evidence.
Missing(s) == IF s \in Coverage THEN unavailable \cup {s} ELSE unavailable \ {s}

\* The coverage of s was known until now.
Lost(s) == s \in Coverage \ unavailable

\* remove_source_ids, or an adapter that raised: the evidence is withdrawn
\* and a source that covers an area becomes unavailable.
Withdraw(s) ==
    /\ held' = [held EXCEPT ![s] = Nothing]
    /\ unavailable' = Missing(s)
    /\ revision' = revision + Steps(held[s] # Nothing \/ Lost(s))
    /\ IF held[s] # Nothing \/ Lost(s) THEN Changed ELSE Unchanged

\* A PTZ context update: the snapshot is resolved although the store stands.
Context == UNCHANGED <<held, unavailable, revision>> /\ Changed

\* Radar and device samples while an association holds: a candidate is
\* resolved, and adopted with a new revision only if it differs.
Signal ==
    /\ IF Resolved(held, now) # shown
       THEN /\ revision' = revision + 1
            /\ shown' = Resolved(held, now)
            /\ evaluated' = now
       ELSE UNCHANGED <<revision, shown, evaluated>>
    /\ signature' = Fresh(held, now)
    /\ UNCHANGED <<held, unavailable, pending>>
    /\ Reschedule
    /\ Arrive

Process ==
    \/ \E s \in Source : Observe(s) \/ Repeat(s) \/ End(s) \/ Withdraw(s)
    \/ Context
    \/ Signal

(***************************************************************************)
(* mark_channel_unavailable: a state entity was removed.                   *)
(***************************************************************************)
MarkUnavailable(s) ==
    /\ held' = [held EXCEPT ![s] = Nothing]
    /\ unavailable' = Missing(s)
    /\ revision' = revision + Steps(\/ held[s] # Nothing
                                    \/ Lost(s)
                                    \/ Resolved(held', now) # shown)
    /\ Changed

(***************************************************************************)
(* The clock, the timer and the refresh task.                              *)
(***************************************************************************)
SourceExpired == signature # Fresh(held, now)

\* Slip: a count that matures at this very instant is not seen.
CountMaturedBefore ==
    \E d \in MaturityDeadlines(held, unavailable, now) : evaluated < d /\ d < now

CountMatured ==
    \E d \in MaturityDeadlines(held, unavailable, now) : evaluated < d /\ d <= now

RefreshChanges ==
    \/ SourceExpired
    \/ CountMatured /\ Resolved(held, now) # shown

\* Slip: a refresh keeps the revision.
RefreshSilently ==
    /\ pending
    /\ pending' = FALSE
    /\ UNCHANGED <<held, unavailable, messages, revision>>
    /\ IF RefreshChanges THEN Resolve ELSE Keep
    /\ Reschedule

Refresh ==
    /\ pending
    /\ pending' = FALSE
    /\ UNCHANGED <<held, unavailable, messages>>
    /\ IF RefreshChanges
       THEN Resolve /\ revision' = revision + 1
       ELSE Keep /\ UNCHANGED revision
    /\ Reschedule

TimerFires ==
    /\ timer # NoTimer
    /\ now >= timer
    /\ timer' = NoTimer
    /\ pending' = TRUE
    /\ UNCHANGED <<now, engine, messages>>

Tick ==
    /\ now < MaxNow
    /\ now' = now + 1
    /\ UNCHANGED <<engine, timer, pending, messages>>

Message == Process \/ \E s \in Source : MarkUnavailable(s)

ExpiryNext == Message \/ Refresh \/ TimerFires \/ Tick

\* Time passes, the event loop runs due timers and tasks; no message is owed.
Fairness == WF_expiryVars(Tick) /\ WF_expiryVars(TimerFires) /\ WF_expiryVars(Refresh)

ExpirySpec == ExpiryInit /\ [][ExpiryNext]_expiryVars /\ Fairness

-----------------------------------------------------------------------------
(***************************************************************************)
(* Properties.                                                             *)
(***************************************************************************)

ExpiryTypeOK ==
    /\ now \in Instant
    /\ held \in [Source -> Instant \cup {Nothing}]
    /\ unavailable \subseteq Coverage
    /\ revision \in Nat
    /\ shown \in [Source -> {"absent", "possible", "confirmed"}]
    /\ evaluated \in Instant
    /\ signature \subseteq Source
    /\ timer \in Nat \cup {NoTimer}
    /\ pending \in BOOLEAN
    /\ messages \in 0 .. MaxMessages

\* The snapshot is what the evidence held today said when it was evaluated,
\* and the freshness signature is the one of that snapshot, although
\* candidates that are thrown away overwrite it: nothing but the passage of
\* time ever makes the snapshot stale (runtime.py, _resolve_snapshot).
SnapshotIsCoherent ==
    /\ shown = Resolved(held, evaluated)
    /\ signature = Fresh(held, evaluated)

\* A source that is unavailable claims nothing: no sensor that went away keeps
\* somebody present, or keeps a count from maturing (runtime.py, process and
\* mark_channel_unavailable; _count_stability_deadlines relies on it).
UnavailableIsWithdrawn == \A s \in unavailable : held[s] = Nothing

\* No handler leaves without a wake-up for the next deadline: while one is
\* still to come, a refresh waits or a timer is due no later (ha_runtime.py,
\* _reschedule_expiration).
WakeUpArmed ==
    \/ pending
    \/ \A d \in Upcoming(held, unavailable, now) : timer # NoTimer /\ timer <= d

\* A refresh leaves a snapshot that is right at that instant, whichever of
\* its tests it relies on and whatever time has passed (runtime.py, refresh).
RefreshSettles == [][Refresh => shown' = Resolved(held, now)]_expiryVars

\* Evidence the timer is armed for leaves the snapshot once messages stop
\* and no other refresh waits, however long the handlers take (ha_runtime.py, expired).
ArmedExpiryLeaves ==
    \A s \in Limited :
        (/\ messages = MaxMessages
         /\ ~ pending
         /\ timer \in Instant   \* the clock of the model gets there
         /\ held[s] # Nothing
         /\ timer = held[s] + Lifetime[s]) ~> shown[s] = "absent"

\* Evidence leaves the snapshot under a new revision, as architecture.md:60
\* says, whatever took it out, with one exception: a PTZ context update
\* resolves the snapshot although the store stands, and what expired since the
\* last resolution goes under the old revision (runtime.py, process).
OnlyContextsExpireSilently ==
    [][(/\ revision' = revision
        /\ \E s \in Source : shown[s] # "absent" /\ shown'[s] = "absent")
       => Context]_expiryVars

\* What docs/architecture.md promises: when its time is over, evidence leaves
\* the snapshot (unless the source renews it first).  The code breaks it: a
\* handler that ends at or after a deadline cancels the timer of that very
\* deadline, and next_expiration looks at later ones only.
ExpiredEvidenceLeaves ==
    \A s \in Limited :
        (held[s] # Nothing /\ now >= held[s] + Lifetime[s])
            ~> (shown[s] = "absent" \/ Current(held, s, now))
=============================================================================
