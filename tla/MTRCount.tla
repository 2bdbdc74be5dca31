------------------------------ MODULE MTRCount ------------------------------
(***************************************************************************)
(* The compound radar counter: MTRCountAdapter (adapters/mtr.py), which    *)
(* combines one total and its calibrated zones, each told by an entity of  *)
(* its own, and the evidence PresenceRuntime holds of it.                  *)
(*                                                                         *)
(* An instant is what the code counts in microseconds; Resolution is the   *)
(* number of revisions an instant has room for.  The radar coordinates of  *)
(* the device and active_since are left out, and so is the place a bucket  *)
(* names: the key tells it.                                                *)
(***************************************************************************)
EXTENDS Integers, FiniteSets, FiniteSetsExt

CONSTANTS
    Zone,         \* the zone entities
    Total,        \* the total entity
    AreaOf,       \* zone_areas: the area of a zone, or the floor
    Overlapping,  \* the bucket of the targets in overlapping zones
    Outside,      \* the bucket of the targets in no zone
    Absent,      \* no state yet, or no record
    Resolution,   \* revisions per instant
    MaxCount,     \* bounds of the model on a count,
    MaxAt,        \*   on an instant
    MaxSequence   \*   and on the revisions of the adapter

Entity == Zone \cup {Total}
Area == {AreaOf[z] : z \in Zone}
Bucket == Area \cup {Overlapping, Outside}
ReportTime == 0 .. MaxAt
Count == 0 .. MaxCount

ASSUME EntityAssumption ==
    /\ IsFiniteSet(Zone) /\ Zone # {} /\ Total \notin Zone
    /\ DOMAIN AreaOf = Zone
    /\ Overlapping \notin Area /\ Outside \notin Area /\ Overlapping # Outside

ASSUME BoundAssumption ==
    /\ Resolution \in Nat \ {0} /\ MaxCount \in Nat
    /\ MaxAt \in Nat /\ MaxSequence \in Nat

\* The count, lifecycle and diagnostics a record claims; they share a stamp.
Claim == [value : Nat, at : ReportTime, measuredClear : BOOLEAN]

\* What an entity told, and the evidence of a bucket.
Told == [value : Count, at : ReportTime]
Evidence == [claim : Claim, stamp : [sequence : Nat, at : ReportTime]]

ASSUME AbsentAssumption == Absent \notin Told \cup Evidence

VARIABLES
    states,     \* _states: what each entity told last
    heard,      \* _channel_times: when; -1 before the first report
    sequence,   \* _sequence, the revision of the last combination
    records,    \* the evidence of the source, by bucket
    available   \* the source is not in _unavailable_sources

mtrVars == <<states, heard, sequence, records, available>>

IsComplete == \A e \in Entity : states[e] # Absent
IsStored == \A b \in Bucket : records[b] # Absent
NothingStored == [b \in Bucket |-> Absent]

-----------------------------------------------------------------------------
(***************************************************************************)
(* The combination of complete states s.                                   *)
(***************************************************************************)

SumOf(s, entities) == MapThenSumSet(LAMBDA e : s[e].value, entities)
LatestOf(s, entities) == Max({s[e].at : e \in entities})
ZonesOf(a) == {z \in Zone : AreaOf[z] = a}
Overlaps(s) == SumOf(s, Zone) > s[Total].value

Counted(value, at) == [value |-> value, at |-> at, measuredClear |-> value = 0]

\* A zero that retires a bucket is not the measurement of an empty zone.
Retired(at) == [value |-> 0, at |-> at, measuredClear |-> FALSE]

Remainder(s) == IF Overlaps(s) THEN 0 ELSE s[Total].value - SumOf(s, Zone)

Combination(s) ==
    LET whole == LatestOf(s, Entity)
    IN  [b \in Bucket |->
            CASE b = Overlapping ->
                    Counted(IF Overlaps(s) THEN s[Total].value ELSE 0, whole)
              [] b = Outside -> Counted(Remainder(s), whole)
              [] OTHER -> IF Overlaps(s) THEN Retired(whole)
                          ELSE Counted(SumOf(s, ZonesOf(b)), LatestOf(s, ZonesOf(b)))]

NextSequence(s) ==
    LET next == sequence + 1
        stamped == Resolution * LatestOf(s, Entity)
    IN  IF stamped > next THEN stamped ELSE next

IsLater(r, q) == r.sequence > q.sequence \/ (r.sequence = q.sequence /\ r.at > q.at)

\* EvidenceStore.upsert of one bucket: the dimensions share the stamp, so
\* they are accepted together.
Upserted(held, claim, stamp) ==
    IF held = Absent \/ (IsLater(stamp, held.stamp) /\ claim # held.claim)
    THEN [claim |-> claim, stamp |-> stamp]
    ELSE held

-----------------------------------------------------------------------------
MTRInit ==
    /\ states = [e \in Entity |-> Absent]
    /\ heard = [e \in Entity |-> -1]
    /\ sequence = 0
    /\ records = NothingStored
    /\ available = TRUE

\* An entity tells a count; an older or repeated instant is ignored.
Report(e, value, at) ==
    /\ at > heard[e]
    /\ sequence < MaxSequence
    /\ heard' = [heard EXCEPT ![e] = at]
    /\ states' = [states EXCEPT ![e] = [value |-> value, at |-> at]]
    /\ IF \E x \in Entity : states'[x] = Absent
       THEN /\ available' = FALSE
            /\ UNCHANGED <<sequence, records>>
       ELSE /\ sequence' = NextSequence(states')
            /\ LET stamp == [sequence |-> sequence', at |-> LatestOf(states', Entity)]
                   claims == Combination(states')
               IN  records' = [b \in Bucket |-> Upserted(records[b], claims[b], stamp)]
            /\ available' = TRUE

\* An entity becomes unavailable: the compound is incomplete until it returns.
Invalid(e, at) ==
    /\ at > heard[e]
    /\ heard' = [heard EXCEPT ![e] = at]
    /\ states' = [states EXCEPT ![e] = Absent]
    /\ records' = NothingStored
    /\ available' = FALSE
    /\ UNCHANGED sequence

\* A report that is no count raises in the adapter before anything is noted,
\* or the entity is removed from Home Assistant: the runtime withdraws the
\* source and the adapter keeps the states it had.
Withdraw ==
    /\ records' = NothingStored
    /\ available' = FALSE
    /\ UNCHANGED <<states, heard, sequence>>

\* The adapter resumes its clock after the latest record it finds.
RestoredSequence ==
    Max({0} \cup {records[b].stamp.sequence : b \in {x \in Bucket : records[x] # Absent}})

\* Slip: the clock of the adapter starts anew.
RestartAnew ==
    /\ states' = [e \in Entity |-> Absent]
    /\ heard' = [e \in Entity |-> -1]
    /\ sequence' = 0
    /\ UNCHANGED <<records, available>>

\* Evidence and availability are saved, the adapter's own states are not.
MTRRestart ==
    /\ states' = [e \in Entity |-> Absent]
    /\ heard' = [e \in Entity |-> -1]
    /\ sequence' = RestoredSequence
    /\ UNCHANGED <<records, available>>

MTRNext ==
    \/ \E e \in Entity, value \in Count, at \in ReportTime : Report(e, value, at)
    \/ \E e \in Entity, at \in ReportTime : Invalid(e, at)
    \/ Withdraw
    \/ MTRRestart

MTRSpec == MTRInit /\ [][MTRNext]_mtrVars

-----------------------------------------------------------------------------
\* Types.
MTRTypeOK ==
    /\ states \in [Entity -> Told \cup {Absent}]
    /\ heard \in [Entity -> ReportTime \cup {-1}]
    /\ sequence \in Nat
    /\ available \in BOOLEAN
    /\ records \in [Bucket -> Evidence \cup {Absent}]

\* Once every entity has told its state, the evidence of all buckets together
\* is the total the device tells: a target is counted once, in one bucket,
\* whatever order the reports came in and however often the process restarted
\* in between (parse, restore_revision and the stamps of _observation).
PopulationIsTheTotal ==
    IsComplete /\ IsStored =>
        states[Total].value = SumOf([b \in Bucket |-> records[b].claim], Bucket)

\* Targets in overlapping zones are nowhere else: while any is counted there
\* no area counts one, none is outside, and no area passes for measured empty
\* (_zero_zone_buckets).  It holds of restored evidence too.
OverlapIsNowhereElse ==
    records[Overlapping] # Absent /\ records[Overlapping].claim.value > 0 =>
        /\ records[Outside].claim.value = 0
        /\ \A a \in Area : /\ records[a].claim.value = 0
                           /\ ~records[a].claim.measuredClear

\* Between restarts coverage and evidence agree: a compound with every state
\* is covered exactly when it holds evidence, one that lost a state holds none,
\* and while an entity that has reported since the start is without a state the
\* source is a gap, for what the others tell is no count of the house (parse,
\* and the handling of a failed adapter in process).
AvailabilityMatchesEvidence ==
    /\ IsComplete => (available <=> IsStored)
    /\ (\E b \in Bucket : records[b] = Absent) => records = NothingStored
    /\ (~IsComplete /\ \E e \in Entity : heard[e] # -1) => ~available

=============================================================================
