--------------------------- MODULE AtomicWallets ---------------------------
(***************************************************************************)
(* What the wallet endpoints promise, without requests, locks or rows:     *)
(* money moves in single steps from what the wallets hold, a ticket moves  *)
(* it once, a ticketed debit never takes more than there is, and a         *)
(* transfer takes from one wallet exactly what it gives to another.        *)
(***************************************************************************)
EXTENDS Integers

CONSTANTS Wallets, Tickets, Amounts, Opening, MAX_WALLET_BALANCE

\* Signed amounts: a credit or a debit.
Changes == Amounts \cup {-a : a \in Amounts}

VARIABLES
  funds,  \* what each wallet holds
  uses    \* how often each ticket has moved money

Init ==
  /\ funds = Opening
  /\ uses = [t \in Tickets |-> 0]

Gain(x, amount) == funds' = [funds EXCEPT ![x] = @ + amount]

\* Adjustments by the administration and EDC top-ups carry no ticket.
Adjust(x, amount) == Gain(x, amount) /\ UNCHANGED uses

Redeem(x, amount, t) ==
  /\ amount < 0 => funds[x] + amount >= 0
  /\ Gain(x, amount)
  /\ uses[t] = 0
  /\ uses' = [uses EXCEPT ![t] = 1]

Transfer(x, y, amount) ==
  /\ x # y
  /\ funds[x] >= amount
  /\ funds[y] + amount <= MAX_WALLET_BALANCE
  /\ funds' = [funds EXCEPT ![x] = @ - amount, ![y] = @ + amount]
  /\ UNCHANGED uses

Next ==
  \/ \E x \in Wallets, amount \in Changes : Adjust(x, amount)
  \/ \E x \in Wallets, amount \in Changes, t \in Tickets : Redeem(x, amount, t)
  \/ \E x, y \in Wallets, amount \in Amounts : Transfer(x, y, amount)

Spec == Init /\ [][Next]_<<funds, uses>>
=============================================================================
