---------------------------- MODULE MCPosQrSale ----------------------------
(* PosQrSale on one sale: sales share no row.                               *)
EXTENDS PosQrSale, TLC

CONSTANTS s1, w1, w2, w3

MCOneSale == {s1}
MCTwoWorkers == {w1, w2}
MCThreeWorkers == {w1, w2, w3}
=============================================================================
