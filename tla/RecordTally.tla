---------------------------- MODULE RecordTally -----------------------------
(***************************************************************************)
(* What the counters promise to the API: a count is the number of records  *)
(* that have been counted, every record is counted at most once, and a     *)
(* record that is removed is no longer counted.                            *)
(***************************************************************************)
EXTENDS Integers, FiniteSets

CONSTANTS
    Query,        \* what can be counted: all records, those of an address, ...
    Kind,         \* what the counters can tell of a record
    QueriesOf     \* the queries a record of a kind belongs to

VARIABLES
    recs,         \* the stored records
    counted,      \* those that have been counted
    count         \* the counters

tallyVars == <<recs, counted, count>>

CountIn(S, q) == Cardinality({r \in S : q \in QueriesOf[r.kind]})

TallyInit == recs = {} /\ counted = {} /\ count = [q \in Query |-> 0]

Store ==
    /\ recs \subseteq recs'
    /\ UNCHANGED <<counted, count>>

Tally ==
    /\ counted \subseteq counted'
    /\ counted' \subseteq recs
    /\ count' = [q \in Query |-> count[q] + CountIn(counted' \ counted, q)]
    /\ UNCHANGED recs

Remove ==
    /\ recs' \subseteq recs
    /\ counted' = counted \cap recs'
    /\ count' = [q \in Query |-> count[q] - CountIn(counted \ recs', q)]

TallyNext == Store \/ Tally \/ Remove

TallySpec == TallyInit /\ [][TallyNext]_tallyVars
=============================================================================
