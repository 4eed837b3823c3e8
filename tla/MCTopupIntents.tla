--------------------------- MODULE MCTopupIntents ---------------------------
(* TopupIntents on two BAY intents that share a wallet.                     *)
EXTENDS TopupIntents, TLC

CONSTANTS i1, i2, x1, w1, w2

MCIntents == {i1, i2}
MCBay == {i1, i2}
MCWallets == {x1}
MCWorkers == {w1, w2}
MCWalletOf == [i \in MCIntents |-> x1]
MCAmount == (i1 :> 2) @@ (i2 :> 3)
MCOpening == [x \in MCWallets |-> 1]
MCSymmetry == Permutations(MCWorkers)
=============================================================================
