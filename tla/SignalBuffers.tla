--------------------------- MODULE SignalBuffers ---------------------------
(***************************************************************************)
(* The bounded signal histories of PresenceRuntime (runtime.py) and        *)
(* RadarHistory (radar.py): per channel the newest samples of a window of  *)
(* time, per channel at most Limit of them, and one budget that the BLE    *)
(* and the radar channels share.  The last sample of a channel is kept     *)
(* apart, however old it is.                                               *)
(*                                                                         *)
(* A sample is reduced to its instant and its reading; the reception is    *)
(* the present.  Bindings (matches) are not modelled: every channel is     *)
(* configured.                                                             *)
(***************************************************************************)
EXTENDS Integers, Sequences, FiniteSets, FiniteSetsExt

CONSTANTS
    Ble,       \* the Bermuda signal sources, one channel each
    Radar,     \* the radar channels
    SourceOf,  \* SourceOf[c]: the source of a radar channel
    Reading,   \* the readings a sensor may send
    Lost,      \* the reading of a channel that is unavailable
    Missing,   \* no sample yet
    Window,    \* history_seconds
    Limit,     \* history_limit
    Budget,    \* _max_signal_samples
    MaxNow     \* bound of the model on the clock

Channel == Ble \cup Radar
Instant == 0 .. MaxNow
Sample == [at : Instant, reading : Reading \cup {Lost}]

ASSUME ChannelAssumption ==
    /\ IsFiniteSet(Channel)
    /\ Ble \cap Radar = {}
    /\ Radar \subseteq DOMAIN SourceOf
    /\ Lost \notin Reading
    /\ Missing \notin Sample

ASSUME LimitAssumption ==
    /\ Window \in Nat \ {0} /\ Limit \in Nat \ {0} /\ Budget \in Nat \ {0}
    /\ MaxNow \in Nat

VARIABLES
    now,       \* the clock
    samples,   \* _signal_samples and RadarHistory.samples
    latest,    \* _signal_latest and RadarHistory.latest
    truncated  \* _signal_truncated and RadarHistory.truncated

vars == <<now, samples, latest, truncated>>

-----------------------------------------------------------------------------
(***************************************************************************)
(* Operators on the three buffers b = [samples, latest, truncated].        *)
(***************************************************************************)

Buffers == [samples |-> samples, latest |-> latest, truncated |-> truncated]

\* _trim_signals and RadarHistory.trim, each for its own channels.
InWindow(history, t) ==
    LET kept[i \in 0 .. Len(history)] ==
            IF i = 0 THEN << >>
            ELSE IF history[i].at > t - Window THEN Append(kept[i - 1], history[i])
            ELSE kept[i - 1]
    IN  kept[Len(history)]

Trimmed(b, channels, t) ==
    [b EXCEPT !.samples = [c \in Channel |->
        IF c \in channels THEN InWindow(@[c], t) ELSE @[c]]]

Appended(b, c, s) ==
    LET longer == Append(b.samples[c], s)
        excess == Len(longer) > Limit
    IN  [b EXCEPT !.samples[c] = IF excess THEN Tail(longer) ELSE longer,
                  !.truncated = IF excess THEN @ \cup {c} ELSE @]

\* A sample is news when it is later than the last one and reads otherwise.
IsNews(b, c, s) ==
    \/ b.latest[c] = Missing
    \/ /\ s.at > b.latest[c].at
       /\ s.reading # b.latest[c].reading

IsFresh(s, t) == t - s.at < Window

\* _retain_signal (before its budget) and RadarHistory.retain: a stale
\* sample is the latest all the same, but enters no history.
Retained(b, c, s, t) ==
    LET heard   == [b EXCEPT !.latest[c] = s]
        trimmed == Trimmed(heard, IF c \in Ble THEN Ble ELSE Radar, t)
    IN  IF ~ IsNews(b, c, s) THEN b
        ELSE IF IsFresh(s, t) THEN Appended(trimmed, c, s)
        ELSE IF c \in Ble THEN heard ELSE trimmed

SumOver(sizes) == MapThenSumSet(LAMBDA c : sizes[c], Channel)

Size(histories) == SumOver([c \in Channel |-> Len(histories[c])])

Excess(b) == IF Size(b.samples) > Budget THEN Size(b.samples) - Budget ELSE 0

\* How many samples every channel gives up: the oldest of all, until the
\* rest fits.  The code breaks ties by the order of its dictionaries.
Sacrifices(b) ==
    {n \in [Channel -> 0 .. Excess(b)] :
        /\ \A c \in Channel : n[c] <= Len(b.samples[c])
        /\ SumOver(n) = Excess(b)
        /\ \A c, d \in Channel :
              (n[c] > 0 /\ n[d] < Len(b.samples[d])) =>
                 b.samples[c][n[c]].at <= b.samples[d][n[d] + 1].at}

Rest(s, n) == SubSeq(s, n + 1, Len(s))

Without(b, n) ==
    [b EXCEPT !.samples = [c \in Channel |-> Rest(@[c], n[c])],
              !.truncated = @ \cup {c \in Channel : n[c] > 0}]

\* _enforce_signal_budget: one shared budget for BLE and radar.
WithinBudget(b) == {Without(b, n) : n \in Sacrifices(b)}

Become(b) ==
    /\ samples' = b.samples
    /\ latest' = b.latest
    /\ truncated' = b.truncated

-----------------------------------------------------------------------------
(***************************************************************************)
(* The handlers.                                                           *)
(***************************************************************************)

Init ==
    /\ now = 0
    /\ samples = [c \in Channel |-> << >>]
    /\ latest = [c \in Channel |-> Missing]
    /\ truncated = {}

Tick ==
    /\ now < MaxNow
    /\ now' = now + 1
    /\ UNCHANGED <<samples, latest, truncated>>

\* The budget is enforced where a sample was appended, and only there.
BleReport(c, s) ==
    /\ s.at <= now
    /\ UNCHANGED now
    /\ LET b == Retained(Buffers, c, s, now)
       IN  IF IsNews(Buffers, c, s) /\ IsFresh(s, now)
           THEN \E fitting \in WithinBudget(b) : Become(fitting)
           ELSE Become(b)

\* Slip: radar has a pool of its own.
RadarReportUnbudgeted(c, s) ==
    /\ s.at <= now
    /\ UNCHANGED now
    /\ Become(Retained(Buffers, c, s, now))

\* process enforces the budget after every radar report.
RadarReport(c, s) ==
    /\ s.at <= now
    /\ UNCHANGED now
    /\ \E fitting \in WithinBudget(Retained(Buffers, c, s, now)) : Become(fitting)

\* mark_channel_unavailable: every channel of the source that has reported
\* reads Lost from now on.  A radar channel is not held to the budget here.
\* Resolving the snapshot then trims the BLE histories.
Loss == [at |-> now, reading |-> Lost]

RadarLost(source) ==
    LET changed == {c \in Radar : /\ SourceOf[c] = source
                                  /\ latest[c] # Missing
                                  /\ IsNews(Buffers, c, Loss)}
        trimmed == Trimmed(Buffers, IF changed = {} THEN Ble ELSE Channel, now)
        lost(c) == Appended(trimmed, c, Loss)
    IN  /\ UNCHANGED now
        /\ Become([samples   |-> [c \in Channel |->
                        IF c \in changed THEN lost(c).samples[c] ELSE trimmed.samples[c]],
                   latest    |-> [c \in Channel |->
                        IF c \in changed THEN Loss ELSE latest[c]],
                   truncated |-> truncated \cup
                        {c \in changed : c \in lost(c).truncated}])

BleLost(c) ==
    /\ latest[c] # Missing
    /\ UNCHANGED now
    /\ LET b == Retained(Buffers, c, Loss, now)
       IN  \E fitting \in IF IsNews(Buffers, c, Loss) THEN WithinBudget(b) ELSE {b} :
              Become(Trimmed(fitting, Ble, now))

\* _resolve_snapshot trims the BLE histories.
Resolve ==
    /\ Become(Trimmed(Buffers, Ble, now))
    /\ UNCHANGED now

Empty == [samples   |-> [c \in Channel |-> << >>],
          latest    |-> [c \in Channel |-> Missing],
          truncated |-> {}]

\* The history of a channel is retained again in the order it was saved.
Replayed(empty, c, history, t) ==
    LET after[i \in 0 .. Len(history)] ==
            IF i = 0 THEN empty ELSE Retained(after[i - 1], c, history[i], t)
    IN  after[Len(history)]

\* One channel after the other.
Restored(saved, empty, t) ==
    LET channel(c) == Replayed(empty, c, saved.samples[c], t)
    IN  [samples   |-> [c \in Channel |-> channel(c).samples[c]],
         latest    |-> [c \in Channel |->
                          LET last == channel(c).latest[c]
                          IN  IF saved.latest[c] = Missing THEN last
                              ELSE IF last = Missing THEN saved.latest[c]
                              ELSE IF saved.latest[c].at > last.at
                                   THEN saved.latest[c] ELSE last],
         truncated |-> saved.truncated \cup {c \in Channel : c \in channel(c).truncated}]

\* Slip: the latest samples are restored before the histories.
RestartLatestFirst(t) ==
    /\ now' = t
    /\ \E saved \in WithinBudget(Trimmed(Buffers, Channel, now)) :
          Become(Restored(saved, [Empty EXCEPT !.latest = saved.latest], t))

\* export_state trims and enforces the budget; restore_state retains the
\* saved samples one by one and then the latest ones, at a later time t.
Restart(t) ==
    /\ now' = t
    /\ \E saved \in WithinBudget(Trimmed(Buffers, Channel, now)) :
          Become(Restored(saved, Empty, t))

Next ==
    \/ Tick
    \/ \E at \in Instant, reading \in Reading \cup {Lost} :
          \/ \E c \in Ble : BleReport(c, [at |-> at, reading |-> reading])
          \/ \E c \in Radar : RadarReport(c, [at |-> at, reading |-> reading])
    \/ \E c \in Radar : RadarLost(SourceOf[c])
    \/ \E c \in Ble : BleLost(c)
    \/ Resolve
    \/ \E t \in now .. MaxNow : Restart(t)

Spec == Init /\ [][Next]_vars

-----------------------------------------------------------------------------
(***************************************************************************)
(* Properties.                                                             *)
(***************************************************************************)

\* Buffers of samples of the past, no history longer than its limit.
TypeOK ==
    /\ now \in Instant
    /\ samples \in [Channel -> Seq(Sample)]
    /\ \A c \in Channel : Len(samples[c]) <= Limit
    /\ latest \in [Channel -> Sample \cup {Missing}]
    /\ truncated \in SUBSET Channel

\* Whatever the order of arrival, losses and restarts, a history is strictly
\* ordered in time, no two neighbours read the same, and none is later than
\* the latest sample: what payloads and associations take as given.
HistoriesAreSeries ==
    \A c \in Channel :
        /\ \A i \in 2 .. Len(samples[c]) :
              /\ samples[c][i - 1].at < samples[c][i].at
              /\ samples[c][i - 1].reading # samples[c][i].reading
        /\ samples[c] # << >> =>
              /\ latest[c] # Missing
              /\ samples[c][Len(samples[c])].at <= latest[c].at

\* "One shared budget for BLE and radar" (runtime.py:683) is kept, but for
\* sources lost since it was last enforced (runtime.py:425): it is overdrawn
\* by no more than the radar channels whose last sample is a loss, so that
\* repeated losses do not accumulate.
OverdraftIsBounded ==
    Size(samples) <= Budget +
        Cardinality({c \in Radar :
            samples[c] # << >> /\ samples[c][Len(samples[c])].reading = Lost})

\* The samples of a history a step dropped although their time had not come.
Dropped(c) ==
    {i \in DOMAIN samples[c] :
        /\ samples[c][i].at > now' - Window
        /\ \A j \in DOMAIN samples'[c] : samples'[c][j] # samples[c][i]}

\* No silent loss: a channel that loses a sample within the window, to its
\* limit, to the budget or to a restart, is reported as truncated.
LossesAreTold ==
    [][\A c \in Channel : Dropped(c) # {} => c \in truncated']_vars

\* The budget takes the oldest samples of all channels: a sample within the
\* window that its own limit did not push out was older than all that stay.
OldestGoFirst ==
    [][\A c \in Channel : \A i \in Dropped(c) :
          Len(samples'[c]) < Limit =>
             \A d \in Channel : \A j \in DOMAIN samples'[d] :
                samples[c][i].at <= samples'[d][j].at]_vars
=============================================================================
