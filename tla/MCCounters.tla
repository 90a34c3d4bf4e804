----------------------------- MODULE MCCounters -----------------------------
(***************************************************************************)
(* Two kinds of records: sent by an address to itself, and to another one. *)
(***************************************************************************)
EXTENDS Counters

MCQuery == {"all", "alice", "bob"}

MCQueriesOf == [k \in {"self", "transfer"} |->
    IF k = "self" THEN {"all", "alice"} ELSE {"all", "alice", "bob"}]
=============================================================================
