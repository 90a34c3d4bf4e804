------------------------- MODULE MCFetcherBalances --------------------------
(***************************************************************************)
(* A block of three transactions: two that share a balance, of which one   *)
(* also changes one that cannot be read, and one without transfers.        *)
(***************************************************************************)
EXTENDS FetcherBalances

CONSTANTS r1, r2, r3

MCRequest == {r1, r2, r3}
MCTx == {"mint", "swap", "ping"}
MCBalance == {"alice", "bob", "broken"}

MCTouches == [t \in MCTx |->
    CASE t = "mint" -> {"alice"}
      [] t = "swap" -> {"alice", "bob", "broken"}
      [] t = "ping" -> {}]

\* A smaller block, and one that changes nothing.
MCSmall == [t \in {"swap", "ping"} |-> MCTouches[t]]
MCQuiet == [t \in {"ping"} |-> {}]

OneByOne == [touches |-> MCTouches, slots |-> MCRequest, overlap |-> FALSE]
Quiet == [touches |-> MCQuiet, slots |-> {r1, r2}, overlap |-> TRUE]
Overlapping == [touches |-> MCSmall, slots |-> {r1, r2}, overlap |-> TRUE]

MCScenario == {OneByOne, Quiet, Overlapping}
=============================================================================
