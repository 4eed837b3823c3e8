--------------------------- MODULE MCPosCheckout ---------------------------
(* Three sales over three products: sa and sb scan the same products in     *)
(* opposite orders, sa is paid in cash and sent twice, sb and sc are one    *)
(* customer's in two shops of one module, where the daily limit has room    *)
(* for one of them.                                                         *)
EXTENDS PosCheckout, TLC

CONSTANTS sa, sb, sc, p1, p2, p3, v1

MCSales == {sa, sb, sc}
MCProducts == {p1, p2, p3}
MCShops == {"s1", "s2"}
MCWallets == {v1}
MCCart == sa :> <<p2, p3>> @@ sb :> <<p3, p2>> @@ sc :> <<p1>>
MCPayer == sa :> NoWallet @@ sb :> v1 @@ sc :> v1
MCShopOf == sa :> "s1" @@ sb :> "s1" @@ sc :> "s2"
MCModuleOf == [s \in MCShops |-> "store"]
MCHasOptions == {sa}
MCKind == v1 :> "customer"
MCOpeningStock == [x \in MCProducts |-> 1]
MCOpeningBalance == v1 :> 1
MCDailyLimit == v1 :> [m \in {"store"} |-> 2]
MCAttempts == sa :> 2 @@ sb :> 1 @@ sc :> 1
MCOverdraft == v1 :> 1
=============================================================================
