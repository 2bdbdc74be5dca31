---------------------------- MODULE ClaimLedger ----------------------------
(***************************************************************************)
(* What EvidenceStore promises the runtime that publishes from it,         *)
(* whatever the adapters send and however the store makes room:            *)
(*                                                                         *)
(*   - what is held only changes together with the revision, so equal      *)
(*     revisions mean equal evidence;                                      *)
(*   - within the life of a record each claim is a register that only a    *)
(*     strictly later stamp overwrites;                                    *)
(*   - never more than Capacity records are held.                          *)
(***************************************************************************)
EXTENDS Integers, FiniteSets

CONSTANTS
    Capacity,   \* the bound on held records
    Dims        \* the dimensions of a record

VARIABLES
    held,   \* the records: held[k].claim[d] and held[k].stamp[d]
    rev     \* the revision consumers compare

LaterStamp(s, t) == s.seq > t.seq \/ (s.seq = t.seq /\ s.at > t.at)

\* Record s may follow record r under the same key.
Succeeds(r, s) ==
    \A d \in Dims :
        /\ s.stamp[d] = r.stamp[d] \/ LaterStamp(s.stamp[d], r.stamp[d])
        /\ s.claim[d] # r.claim[d] => LaterStamp(s.stamp[d], r.stamp[d])

LedgerInit == held = << >> /\ rev = 0

\* Some records appear, some are withdrawn, the others are revised.
Publish ==
    /\ rev' = rev + 1
    /\ Cardinality(DOMAIN held') <= Capacity
    /\ \A k \in DOMAIN held \cap DOMAIN held' : Succeeds(held[k], held'[k])

LedgerSpec == LedgerInit /\ [][Publish]_<<held, rev>>
=============================================================================
