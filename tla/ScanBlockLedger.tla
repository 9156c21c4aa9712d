-------------------------- MODULE ScanBlockLedger --------------------------
(***************************************************************************)
(* As long as the process does not die, ScanBlock implements TokenLedger.  *)
(* An account is what QueryContract reads from wallet_info, counting the   *)
(* rows of the response under way as written: the two rows of a settlement *)
(* are two transactions of the database but one step of the ledger, taken  *)
(* when the response is computed.                                          *)
(***************************************************************************)
EXTENDS ScanBlock

LedgerKeys == [contract : Addresses, asset : Assets, address : Holders]

Books == wallet \o rows
Balance == [k \in LedgerKeys |-> QueryContract(Books, k)]

Ledger == INSTANCE TokenLedger WITH
    Own <- MyAddresses,
    Foreign <- Addresses \ MyAddresses,
    Amounts <- Qty,
    balance <- Balance

\* Every step of scanblock is one issue, one transfer, one adoption or no change
\* of any balance, however the rows, the replies and the flushes interleave with
\* the node.
LedgerSpec == Ledger!Spec

\* What all holders together have of an asset.
Supply(contract, asset) == HeldIn(Books, contract, asset)

OnlyIssued(contract, asset) ==
    \/ \E t \in Txs : /\ Op[t].code = "A1" /\ Op[t].asset = asset
                     /\ answered'[t] = answered[t] + 1
    \/ Supply(contract, asset)' = Supply(contract, asset)

\* What all holders together have of an asset of this node's contracts changes only
\* when a response to an A1 of it begins: settlements neither create nor lose any,
\* and nobody else's T4 touches it.
SupplyOnlyIssued == [][\A c \in MyAddresses, a \in Assets : OnlyIssued(c, a)]_vars
=============================================================================
