---------------------------- MODULE MCScanBlock ----------------------------
(***************************************************************************)
(* Transactions for model checking ScanBlock: two issuances (a1, answered  *)
(* by ra, and b1), transfers of the issued tokens (t2 answered by rt, and  *)
(* u2), a T4 of another node's contract (x4) and a plain payment (p1).     *)
(* The configurations choose which of them exist, what a1 and t2 pay and a *)
(* quantity the table or std::stoi may not take; where a reply is missing  *)
(* from Txs, the contract's coins never fund it.                           *)
(* con is the contract of this node, iss and buy are clients, ext is a     *)
(* contract of another node.                                               *)
(***************************************************************************)
EXTENDS ScanBlockLedger

CONSTANTS
    con, iss, buy, ext, a1, ra, b1, t2, rt, u2, x4, p1, shc,
    Paid,       \* what a1 pays the contract
    Currency,   \* what t2 pays the contract
    Large       \* the quantity b1 issues, and x4 states for its receiver

in(t, n, a) == [tx |-> t, n |-> n, addr |-> a]
out(a, v) == [addr |-> a, value |-> v]
op(code, q1, q2, fee) ==
    [code |-> code, asset |-> shc, qty1 |-> q1, qty2 |-> q2, fee_address |-> fee]

\* Inputs of NoTxid stand for outputs of transactions nobody here looks at.  ra
\* is the A2 that takes the outputs of both a1 and t2.
MCVin == [t \in Txs |->
    CASE t = a1 -> <<in(NoTxid, 1, iss)>>
      [] t = ra -> <<in(a1, 1, con), in(t2, 1, con)>>
      [] t = b1 -> <<in(t2, 2, iss)>>
      [] t = t2 -> <<in(a1, 2, iss), in(NoTxid, 2, buy)>>
      [] t = rt -> <<in(t2, 1, con)>>
      [] t = u2 -> <<in(b1, 2, iss), in(NoTxid, 4, buy)>>
      [] t = x4 -> <<in(NoTxid, 6, ext)>>
      [] t = p1 -> <<in(NoTxid, 7, buy)>>]

MCVout == [t \in Txs |->
    CASE t = a1 -> <<out(con, Paid), out(iss, 9)>>
      [] t = ra -> <<out(con, Paid + Currency - 13), out(iss, 12)>>
      [] t = b1 -> <<out(con, 1), out(iss, 1)>>
      [] t = t2 -> <<out(con, Currency), out(iss, 3), out(buy, 2)>>
      [] t = rt -> <<out(iss, Currency - 6), out(buy, 5)>>
      [] t = u2 -> <<out(con, 2), out(iss, 3), out(buy, 2)>>
      [] t = x4 -> <<out(con, 3), out(buy, 1)>>
      [] t = p1 -> <<out(iss, 1)>>]

MCOp == [t \in Txs |->
    CASE t = a1 -> op("A1", 3, 0, NoAddress)
      [] t = b1 -> op("A1", Large, 0, NoAddress)
      [] t = t2 -> op("T2", 2, 0, iss)
      [] t = u2 -> op("T2", 1, 0, iss)
      [] t = x4 -> op("T4", 1, Large, NoAddress)
      [] t = rt -> op("T4", 0, 0, NoAddress)
      [] t = p1 -> op("none", 0, 0, NoAddress)
      [] OTHER -> op("other", 0, 0, NoAddress)]

MCReplies == [t \in Txs |->
    (CASE t = a1 -> {ra} [] t = t2 -> {rt} [] OTHER -> {}) \cap Txs]

\* The addresses those transactions have, and the wallet's among them.
MCAddresses == UNION {{MCVin[t][i].addr : i \in DOMAIN MCVin[t]} : t \in Txs}
               \cup UNION {{MCVout[t][i].addr : i \in DOMAIN MCVout[t]} : t \in Txs}
MCMyAddresses == {con} \cap MCAddresses
MCBothAddresses == {con, buy}

MCAssets == {shc}
=============================================================================
