--------------------------- MODULE EvidenceStore ---------------------------
(***************************************************************************)
(* The bounded, idempotent evidence store of engine/store.py.              *)
(*                                                                         *)
(* A record holds one claim per dimension (location, count, lifecycle...)  *)
(* and every claim carries its own revision stamp.  An upsert accepts the  *)
(* dimensions whose stamp is newer AND whose value differs, applies them   *)
(* together, and advances the global revision once.  Adding a record to a  *)
(* full store evicts the one that is worth least.                          *)
(***************************************************************************)
EXTENDS Integers, Sequences, FiniteSets

CONSTANTS
    Source,        \* source ids
    Key,           \* record keys, pairs <<source id, observation id>>
    Counted,       \* the keys whose source claims a population count
    Dimension,     \* the revision dimensions of the instance
    Value,         \* Value[d]: the claims of dimension d
    NoClaim,       \* the claim None
    Observations,  \* the normalized observations the adapters emit
    Time,          \* the instants stamps and clocks range over
    Sequence,      \* the sequence numbers of revision stamps
    MaxRecords,    \* max_records (2000 in the code)
    MaxHistory,    \* max_history_per_record (16 in the code)
    MaxRevision    \* bound of the model on the global revision

VARIABLES
    records,   \* _records: a function on the live keys
    history,   \* _history: the last StoreUpdates of every live key
    revision   \* _global_revision

vars == <<records, history, revision>>

-----------------------------------------------------------------------------
(***************************************************************************)
(* Stamps and observations.                                                *)
(***************************************************************************)

Stamp == [seq : Sequence, at : Time]

\* RevisionStamp is ordered by sequence, then by observation time.
Later(s, t) == s.seq > t.seq \/ (s.seq = t.seq /\ s.at > t.at)

SameOrLater(s, t) == s = t \/ Later(s, t)

Claims == {f \in [Dimension -> UNION {Value[d] : d \in Dimension}] :
              \A d \in Dimension : f[d] \in Value[d]}

\* A lifecycle claim stands for (status, active_since, ended_at), a count
\* claim for its maximum: "zero" is the claim whose maximum is 0.
ObservationType ==
    [key       : Key,
     received  : Time,
     claim     : Claims,
     clock     : [Dimension -> Time],
     revisions : UNION {[mask -> Stamp] : mask \in SUBSET Dimension}]

\* An observation may not be active and assert that nobody is there.
Valid(claim) ==
    ~ (claim["lifecycle"] = "active" /\ claim["count"] = "zero")

\* An explicit stamp, or sequence 0 at the clock of the claim itself.
EffectiveRevisions(o) ==
    [d \in Dimension |->
        IF d \in DOMAIN o.revisions THEN o.revisions[d]
                                    ELSE [seq |-> 0, at |-> o.clock[d]]]

\* When, what and whether it goes on: every observation claims these three.
Identifying == {"event_time", "classification", "lifecycle"}

\* Slip: an unstamped envelope carries every dimension.
UpdatedDimensionsAll(o) ==
    IF DOMAIN o.revisions # {} THEN DOMAIN o.revisions ELSE Dimension

\* The dimensions an update envelope carries.
UpdatedDimensions(o) ==
    IF DOMAIN o.revisions # {}
    THEN DOMAIN o.revisions
    ELSE {d \in Dimension : d \in Identifying \/ o.claim[d] # NoClaim}

(***************************************************************************)
(* What every adapter guarantees of its envelopes: a source that counts    *)
(* sends count and lifecycle together or sends neither, the lifecycle      *)
(* stamp is never the older one, and it is strictly later only when the    *)
(* observation is not active.  (frigate.py stamps the lifecycle of an      *)
(* ended event with its end time; all others share one stamp.)             *)
(***************************************************************************)
Coupled(stamp, claim) ==
    /\ SameOrLater(stamp["lifecycle"], stamp["count"])
    /\ claim["lifecycle"] = "active" => stamp["lifecycle"] = stamp["count"]

Coherent(o) ==
    /\ Valid(o.claim)
    /\ o.key \notin Counted => /\ "count" \notin UpdatedDimensions(o)
                               /\ o.claim["count"] = NoClaim
    /\ o.key \in Counted =>
          /\ "count" \in UpdatedDimensions(o) <=> "lifecycle" \in UpdatedDimensions(o)
          /\ "count" \in UpdatedDimensions(o) => Coupled(EffectiveRevisions(o), o.claim)

ASSUME KeyAssumption ==
    /\ \A k \in Key : k[1] \in Source
    /\ Counted \subseteq Key

ASSUME DimensionAssumption ==
    /\ {"lifecycle", "count"} \subseteq Dimension
    /\ NoClaim \in Value["count"]
    /\ NoClaim \notin {"zero", "active"}
    /\ \A d \in Identifying \cap Dimension : NoClaim \notin Value[d]

ASSUME ClockAssumption == Time \subseteq Nat /\ Sequence \subseteq Nat /\ 0 \in Sequence

ASSUME BoundAssumption ==
    /\ MaxRecords \in Nat \ {0}
    /\ MaxHistory \in Nat \ {0}
    /\ MaxRevision \in Nat

ASSUME ObservationAssumption ==
    /\ Observations \subseteq ObservationType
    /\ \A o \in Observations : Coherent(o)

-----------------------------------------------------------------------------
(***************************************************************************)
(* Merging one observation into the record of its key.                     *)
(***************************************************************************)

\* Slip: an equal stamp counts as newer.
NewerOrEqual(o) ==
    {d \in UpdatedDimensions(o) :
        SameOrLater(EffectiveRevisions(o)[d], records[o.key].stamp[d])}

Newer(o) ==
    {d \in UpdatedDimensions(o) :
        Later(EffectiveRevisions(o)[d], records[o.key].stamp[d])}

Differing(o) ==
    {d \in UpdatedDimensions(o) : o.claim[d] # records[o.key].claim[d]}

Accepted(o) == Newer(o) \cap Differing(o)

Rejected(o) == Differing(o) \ Newer(o)

\* All accepted dimensions are replaced together.
MergedClaim(o) ==
    [d \in Dimension |-> IF d \in Accepted(o) THEN o.claim[d]
                                              ELSE records[o.key].claim[d]]

\* Slip: only accepted dimensions record their stamp.
MergedStampAccepted(o) ==
    [d \in Dimension |-> IF d \in Accepted(o) THEN EffectiveRevisions(o)[d]
                                              ELSE records[o.key].stamp[d]]

\* A newer stamp is recorded even when its value is the one already held.
MergedStamp(o) ==
    [d \in Dimension |-> IF d \in Newer(o) THEN EffectiveRevisions(o)[d]
                                           ELSE records[o.key].stamp[d]]

Latest(s, t) == IF s > t THEN s ELSE t

Merged(o) ==
    [claim    |-> MergedClaim(o),
     stamp    |-> MergedStamp(o),
     received |-> Latest(records[o.key].received, o.received),
     revision |-> records[o.key].revision + 1]

Created(o) ==
    [claim |-> o.claim, stamp |-> EffectiveRevisions(o),
     received |-> o.received, revision |-> 1]

StoreUpdate(global, recordRevision, changed, rejected) ==
    [global |-> global, revision |-> recordRevision,
     changed |-> changed, rejected |-> rejected]

\* deque(maxlen=MaxHistory).append
Remember(log, update) ==
    LET longer == Append(log, update)
    IN  IF Len(longer) > MaxHistory THEN Tail(longer) ELSE longer

Without(f, gone) == [k \in DOMAIN f \ gone |-> f[k]]

With(f, k, value) == [j \in DOMAIN f \cup {k} |-> IF j = k THEN value ELSE f[j]]

-----------------------------------------------------------------------------
(***************************************************************************)
(* Eviction: ended or unknown records first, then the longest unheard of.  *)
(***************************************************************************)

Active(record) == record.claim["lifecycle"] = "active"

WorthLess(r, s) ==
    \/ ~ Active(r) /\ Active(s)
    \/ (Active(r) <=> Active(s)) /\ r.received < s.received

\* Slip: only the age of the evidence counts.
OldestHeld(held) ==
    {k \in DOMAIN held : \A j \in DOMAIN held : held[k].received <= held[j].received}

\* Ties are broken by insertion order in the code, by any order here.
LeastWorth(held) ==
    {k \in DOMAIN held : \A j \in DOMAIN held : ~ WorthLess(held[j], held[k])}

\* One record is added at a time, so at most one is in excess.
Evictions(held) ==
    IF Cardinality(DOMAIN held) > MaxRecords
    THEN {{k} : k \in LeastWorth(held)}
    ELSE {{}}

-----------------------------------------------------------------------------
(***************************************************************************)
(* The operations.                                                         *)
(***************************************************************************)

Init ==
    /\ records = << >>
    /\ history = << >>
    /\ revision = 0

(***************************************************************************)
(* The runtime sends a partial envelope of a counting source (a replayed   *)
(* location, the end of an admission) only for a record it found stored.   *)
(***************************************************************************)
Create(o) ==
    /\ o.key \notin DOMAIN records
    /\ o.key \in Counted => "count" \in UpdatedDimensions(o)
    /\ revision < MaxRevision
    /\ revision' = revision + 1
    /\ LET held == With(records, o.key, Created(o))
           log  == With(history, o.key,
                        << StoreUpdate(revision + 1, 1, Dimension, {}) >>)
       IN  \E gone \in Evictions(held) :
              /\ records' = Without(held, gone)
              /\ history' = Without(log, gone)

\* No dimension is accepted: not even newer stamps are recorded.
Ignore(o) ==
    /\ o.key \in DOMAIN records
    /\ Accepted(o) = {}
    /\ history' = [history EXCEPT ![o.key] =
                      Remember(@, StoreUpdate(revision, records[o.key].revision,
                                              {}, Rejected(o)))]
    /\ UNCHANGED <<records, revision>>

\* replace() runs Observation.__post_init__: an invalid merge raises and
\* leaves the store as it was, so it is not a step.
Merge(o) ==
    /\ o.key \in DOMAIN records
    /\ Accepted(o) # {}
    /\ Valid(MergedClaim(o))
    /\ revision < MaxRevision
    /\ revision' = revision + 1
    /\ records' = [records EXCEPT ![o.key] = Merged(o)]
    /\ history' = [history EXCEPT ![o.key] =
                      Remember(@, StoreUpdate(revision + 1,
                                              records[o.key].revision + 1,
                                              Accepted(o), Rejected(o)))]

Upsert(o) == Create(o) \/ Ignore(o) \/ Merge(o)

\* Nothing to remove leaves the revision alone.
Remove(gone) ==
    /\ gone # {}
    /\ revision < MaxRevision
    /\ revision' = revision + 1
    /\ records' = Without(records, gone)
    /\ history' = Without(history, gone)

RemoveSource(source) == Remove({k \in DOMAIN records : k[1] = source})

\* remove_where(predicate), for every predicate.
RemoveWhere == \E gone \in SUBSET DOMAIN records : Remove(gone)

AdvanceRevision ==
    /\ revision < MaxRevision
    /\ revision' = revision + 1
    /\ UNCHANGED <<records, history>>

Next ==
    \/ \E o \in Observations : Upsert(o)
    \/ \E source \in Source : RemoveSource(source)
    \/ RemoveWhere
    \/ AdvanceRevision

Spec == Init /\ [][Next]_vars

-----------------------------------------------------------------------------
(***************************************************************************)
(* Properties.                                                             *)
(***************************************************************************)

Record ==
    [claim : Claims, stamp : [Dimension -> Stamp], received : Time,
     revision : Nat]

Update ==
    [global : Nat, revision : Nat,
     changed : SUBSET Dimension, rejected : SUBSET Dimension]

\* The state has the shape of the store: partial maps over the keys.
TypeOK ==
    /\ DOMAIN records \subseteq Key
    /\ records \in [DOMAIN records -> Record]
    /\ history \in [DOMAIN records -> Seq(Update)]
    /\ revision \in Nat

(***************************************************************************)
(* The store never outgrows its bounds, whatever arrives: at most          *)
(* MaxRecords records, each with at most MaxHistory updates, and the       *)
(* history of a removed or evicted record never outlives it.               *)
(***************************************************************************)
Bounded ==
    /\ Cardinality(DOMAIN records) <= MaxRecords
    /\ DOMAIN history = DOMAIN records
    /\ \A k \in DOMAIN history : Len(history[k]) \in 1 .. MaxHistory

(***************************************************************************)
(* Merging never raises: whatever an adapter sends next, applying its      *)
(* accepted dimensions to the stored record cannot combine an active       *)
(* lifecycle with a zero count, although the two dimensions are accepted   *)
(* or rejected independently.  (An exception here is outside the adapter   *)
(* isolation of PresenceRuntime.process.)                                  *)
(***************************************************************************)
MergeNeverRaises ==
    \A o \in Observations :
        o.key \in DOMAIN records => Valid(MergedClaim(o))

\* The inductive form: the two stamps of a counting record move together.
CoupledRecord(k) ==
    IF k \in Counted
    THEN Coupled(records[k].stamp, records[k].claim) /\ Valid(records[k].claim)
    ELSE records[k].claim["count"] = NoClaim

CoupledRecords == \A k \in DOMAIN records : CoupledRecord(k)

(***************************************************************************)
(* While a record lives its stamps never go back, and a claim only changes *)
(* to one with a strictly newer stamp: a late or duplicated envelope never *)
(* overwrites newer evidence in any dimension.                             *)
(***************************************************************************)
NewerClaim(k, d) ==
    /\ SameOrLater(records'[k].stamp[d], records[k].stamp[d])
    /\ records'[k].claim[d] # records[k].claim[d] =>
          Later(records'[k].stamp[d], records[k].stamp[d])

OnlyNewerEvidence ==
    [][\A k \in DOMAIN records \cap DOMAIN records' :
          \A d \in Dimension : NewerClaim(k, d)]_vars

(***************************************************************************)
(* Eviction never takes an active record while one that is not active      *)
(* stays, nor a record heard of later than another of its class.           *)
(***************************************************************************)
EvictionSparesWorth ==
    [][DOMAIN records' \ DOMAIN records # {} =>
          \A k \in DOMAIN records \ DOMAIN records' :
              \A j \in DOMAIN records' : ~ WorthLess(records'[j], records[k])]_vars

\* The convenience envelopes: no explicit stamp.
Unstamped == {o \in Observations : DOMAIN o.revisions = {}}

(***************************************************************************)
(* An envelope without stamps cannot erase a claim it omits.               *)
(***************************************************************************)
UnstampedNeverErases ==
    [][\A o \in Unstamped : Upsert(o) =>
          \A k \in DOMAIN records \cap DOMAIN records' :
              \A d \in Dimension :
                  records[k].claim[d] # NoClaim => records'[k].claim[d] # NoClaim]_vars

(***************************************************************************)
(* The store implements the ledger the runtime publishes from.             *)
(***************************************************************************)
Ledger == INSTANCE ClaimLedger WITH
              Capacity <- MaxRecords, Dims <- Dimension,
              held <- [k \in DOMAIN records |->
                          [claim |-> records[k].claim, stamp |-> records[k].stamp]],
              rev <- revision

ImplementsLedger == Ledger!LedgerSpec
=============================================================================
