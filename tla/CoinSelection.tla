--------------------------- MODULE CoinSelection ---------------------------
(***************************************************************************)
(* How scanblock funds a reply (Handler::CreateTransaction,                *)
(* HandlerScan::CreateTransactionT4).  The process keeps no coins of its   *)
(* own: it asks the node for the unspent outputs of the contract's         *)
(* address, confirmed or not, takes some of them in the order of the       *)
(* answer, and names the outputs in a JSON object keyed by address.        *)
(*                                                                         *)
(* Amounts are in units of 0.00001 BCH.  A set of coins comes with a       *)
(* function that gives each its value.                                     *)
(***************************************************************************)
EXTENDS Integers, FiniteSetsExt

FIXED_FEE == 1          \* what a reply leaves to the miner
SETTLE_RECIEVE == 5     \* what a T4 pays the receiver of the tokens

\* Operators whose name starts with Bad are faulty variants of the definition
\* that follows, kept to see that the properties tell them apart.

Worth(value, coins) == MapThenSumSet(LAMBDA c : value[c], coins)

\* Coins are taken one by one until they exceed what is to be paid; when they
\* never do, all of them are taken, which is enough if they are exactly that.
Taken(coins, value, pay) ==
    {cs \in SUBSET coins :
        /\ \E last \in cs : Worth(value, cs \ {last}) <= pay
        /\ \/ Worth(value, cs) > pay
           \/ Worth(value, cs) = pay /\ cs = coins}

\* The fee the client paid goes back to the issuer and what remains to the
\* contract; one output carries both if they are the same address.
BadPaidWithChange(contract, issuer, fee, change) ==
    [a \in {issuer} \cup (IF change > 0 THEN {contract} ELSE {}) |->
        IF a = contract /\ change > 0 THEN change ELSE fee]
PaidWithChange(contract, issuer, fee, change) ==
    [a \in {issuer} \cup (IF change > 0 THEN {contract} ELSE {}) |->
        (IF a = issuer THEN fee ELSE 0) + (IF a = contract THEN change ELSE 0)]

\* A T4 spends the outputs of the T2 it settles and nothing else.
BadT4Coins(coins, t2) == coins
T4Coins(coins, t2) == {c \in coins : c[1] = t2}

\* The receiver's amount is set after the sender's.
T4Paid(send, recv, currency) ==
    [a \in {send, recv} |->
        IF a = recv THEN SETTLE_RECIEVE ELSE currency - FIXED_FEE - SETTLE_RECIEVE]
=============================================================================
