---------------------------- MODULE MCShopStock ----------------------------
(* A product of each costing engine, two tills and two managers who confirm. *)
EXTENDS ShopStock, TLC

CONSTANTS f, g, w1, w2, c1, c2, None

MCProducts == {f, g}
MCFifo == {f}
MCWorkers == {w1, w2}
MCConfirmers == {c1, c2}
MCItemOrder == <<f, g>>
MCOpeningCost == [p \in MCProducts |-> IF p = g THEN 4000 ELSE 0]
Of(kind, p, quantity, cost) ==
  [kind |-> kind, product |-> p, quantity |-> quantity, cost |-> cost]
MCMenu ==
  {Of("receive", f, 2, 10000), Of("adjust", f, 1, 20000),
   Of("sale", f, 1, None), Of("void", f, 1, None),
   Of("receive", g, 2, 10000), Of("receive", g, 1, 5000),
   Of("sale", g, 1, None), Of("void", g, 1, None)}

Symmetry == Permutations(MCWorkers) \cup Permutations(MCConfirmers)
=============================================================================
