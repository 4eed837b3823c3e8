------------------------- MODULE MCReceiptReversal -------------------------
(* A customer's receipt over two products and a department's over two of    *)
(* one; two workers and two return requests.                                *)
EXTENDS ReceiptReversal, TLC

CONSTANTS p1, p2, q1, q2, w1, w2, ra, rb, v1, v2

MCProducts == {p1, p2}
MCReceipts == {ra, rb}
MCWallets == {v1, v2}
MCRequests == {q1, q2}
MCWorkers == {w1, w2}
MCBought == ra :> (p1 :> 1 @@ p2 :> 1) @@ rb :> (p1 :> 2 @@ p2 :> 0)
\* Clients overstate what was bought of p1 on ra, or say it as it is, and understate
\* it on rb; those of the race's run say it as it is.
MCClaims == ra :> (p1 :> {1, 2} @@ p2 :> {1}) @@ rb :> (p1 :> {1} @@ p2 :> {})
MCHonestClaims == [r \in MCReceipts |-> [p \in MCProducts |-> {MCBought[r][p]} \ {0}]]
MCMethod == ra :> "WALLET" @@ rb :> "DEPARTMENT"
MCWalletOf == ra :> v1 @@ rb :> v2
MCLooseProducts == {p2}
MCNewProducts == {p2}
MCOpeningStock == [p \in MCProducts |-> 0]
MCOpeningBalance == [z \in MCWallets |-> 0]
Symmetry == Permutations(MCRequests) \cup Permutations(MCWorkers)
=============================================================================
