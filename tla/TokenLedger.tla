---------------------------- MODULE TokenLedger ----------------------------
(***************************************************************************)
(* What the contract side promises its token holders, with no database, no *)
(* chain and no process: an account is a holder's share of an asset of a   *)
(* contract, and it changes in one step per request.                       *)
(***************************************************************************)
EXTENDS Integers

CONSTANTS
    Own,        \* contracts this node runs
    Foreign,    \* addresses that may be contracts of somebody else
    Assets, Holders, Amounts

VARIABLE balance    \* [contract, asset, address] -> amount

Accounts == [contract : Own \cup Foreign, asset : Assets, address : Holders]

Account(c, a, h) == [contract |-> c, asset |-> a, address |-> h]

Init == balance = [k \in Accounts |-> 0]

\* The accounts of K are the only ones that change.
Change(K) ==
    /\ balance' \in [Accounts -> Amounts]
    /\ \A k \in Accounts \ K : balance'[k] = balance[k]

\* The issuer of an asset gets all of it, on an account that held nothing.
Issue(c, a, h) ==
    /\ balance[Account(c, a, h)] = 0
    /\ Change({Account(c, a, h)})

\* A transfer moves an amount the sender holds, all at once.
Transfer(c, a, s, r) ==
    /\ s # r
    /\ \E x \in Amounts :
         /\ 0 < balance[Account(c, a, s)] /\ x <= balance[Account(c, a, s)]
         /\ balance' = [balance EXCEPT ![Account(c, a, s)] = @ - x,
                                       ![Account(c, a, r)] = @ + x]

\* What another node says of its own contract is taken over.
Adopt(c) == Change({k \in Accounts : k.contract = c})

Next ==
    \/ \E c \in Own, a \in Assets :
         \/ \E h \in Holders : Issue(c, a, h)
         \/ \E s, r \in Holders : Transfer(c, a, s, r)
    \/ \E c \in Foreign : Adopt(c)

Spec == Init /\ [][Next]_balance
=============================================================================
