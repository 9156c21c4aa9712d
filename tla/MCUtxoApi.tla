----------------------------- MODULE MCUtxoApi -----------------------------
(***************************************************************************)
(* Transactions for model checking UtxoApi: f1 funds both clients, s1 is   *)
(* what ContractOffer builds from an output of iss, s2 what TokenSend and   *)
(* TokenRecieve build from the same output and one of buy.  Both pay the    *)
(* contract con: s1 a C1, whose C2 the contract has not coins enough for,  *)
(* s2 a T2 of tokens that nobody has.                                      *)
(***************************************************************************)
EXTENDS UtxoApi

CONSTANTS con, iss, buy, shc, f1, s1, s2

in(t, n, a) == [tx |-> t, n |-> n, addr |-> a]
out(a, v) == [addr |-> a, value |-> v]

MCVin == [t \in Txs |->
    CASE t = f1 -> <<in(NoTxid, 1, iss)>>
      [] t = s1 -> <<in(f1, 1, iss)>>
      [] t = s2 -> <<in(f1, 1, iss), in(f1, 2, buy)>>]

MCVout == [t \in Txs |->
    CASE t = f1 -> <<out(iss, 3), out(buy, 4), out(iss, 1)>>
      [] t = s1 -> <<out(con, 1), out(iss, 1)>>
      [] t = s2 -> <<out(con, 2), out(iss, 2), out(buy, 2)>>]

MCOp == [t \in Txs |->
    [code |-> CASE t = f1 -> "none" [] t = s1 -> "C1" [] t = s2 -> "T2",
     asset |-> shc, qty1 |-> 1, qty2 |-> 0, fee_address |-> iss]]
MCReplies == [t \in Txs |-> {}]
MCAddresses == {con, iss, buy}
=============================================================================
