---------------------------- MODULE TopupCredit ----------------------------
(***************************************************************************)
(* What the top-up service promises about money, without requests, locks,  *)
(* gateway or table rows: an intent adds its amount to its wallet at most  *)
(* once and in one step, and one that was closed (cancelled) without being *)
(* credited is never credited afterwards.                                  *)
(***************************************************************************)
EXTENDS Integers

CONSTANTS Intents, Wallets, WalletOf, Amount, Opening

VARIABLES credited, closed, balance

Init ==
  /\ credited = {}
  /\ closed = {}
  /\ balance = Opening

Credit(i) ==
  /\ i \notin credited \cup closed
  /\ credited' = credited \cup {i}
  /\ balance' = [balance EXCEPT ![WalletOf[i]] = @ + Amount[i]]
  /\ UNCHANGED closed

Close(i) ==
  /\ closed' = closed \cup {i}
  /\ UNCHANGED <<credited, balance>>

Next == \E i \in Intents : Credit(i) \/ Close(i)

Spec == Init /\ [][Next]_<<credited, closed, balance>>
=============================================================================
