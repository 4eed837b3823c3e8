--------------------------- MODULE MCWalletLedger ---------------------------
(* WalletLedger on two or three wallets, wallet 3 owned by a department.    *)
EXTENDS WalletLedger, TLC

CONSTANTS k1, w1, w2

MCTwoWallets == {1, 2}
MCThreeWallets == {1, 2, 3}
MCNoDepartments == {}
MCDepartments == {3}
MCKeys == {k1}
MCTwoWorkers == {w1, w2}
MCOneAmount == {2}
MCTwoAmounts == {1, 2}
MCOpening == [x \in Wallets |-> 2]
MCEdc == {"edc"}
=============================================================================
