---------------------------- MODULE LedgerProofs ----------------------------
(***************************************************************************)
(* What the rows of table wallet amount to, for any number of transactions *)
(* and any interleaving with the node:                                     *)
(*   - as long as the process does not die, ScanBlock implements           *)
(*     TokenLedger, whatever RPC calls fail;                               *)
(*   - then all holders together have more or less only when an A1 is      *)
(*     answered;                                                           *)
(*   - a holding std::stoi does not read stays so for good;                *)
(*   - deaths or not, no more of an asset is held than was issued of it;   *)
(*   - deaths or not, a request with a row in txinfo was answered, and     *)
(*     what it issues is booked;                                           *)
(*   - the money of a settled transfer does not stay with the contract.    *)
(***************************************************************************)
EXTENDS ScanBlockLedger, ScanBlockProofs, CoinSelectionProofs

\* A transfer gives change to one of the addresses it spends from, as TokenSend
\* does.  Without any, ResponseActionT2 finds neither a sender nor a receiver and
\* settles from the empty address to itself.
TransfersGiveChange ==
    \A t \in Txs : Op[t].code = "T2" =>
        \E i \in 1 .. Len(Vout[t]) : Vout[t][i].addr \in InputAddresses(Vin[t])

\* A T4 whose last input is this wallet's is one of this wallet's own settlements,
\* which scanblock does not handle: all its inputs are the contract's
\* (CreateTransactionT4), and where a failed validateaddress hides that, it pays
\* nobody of this wallet.
OwnStatementsAreOurs ==
    \A t \in Txs : Op[t].code = "T4" /\ T4Contract(Vin[t]) \in MyAddresses =>
        IF RpcMayFail THEN \A i \in 1 .. Len(Vout[t]) : Vout[t][i].addr \notin MyAddresses
        ELSE Vin[t][1].addr \in MyAddresses

\* Rows are under way only while a response is.
RowsInv == pc \notin {"reply", "rows"} => rows = << >>

-----------------------------------------------------------------------------
(* The books: the rows written and the rows under way *)

LEMMA BooksType == TypeOK => Books \in Seq(WalletRow)
BY ConcatProperties DEF TypeOK, Books

LEMMA BalanceType ==
    ASSUME NEW w \in Seq(WalletRow), NEW r \in Seq(WalletRow)
    PROVE  [k \in LedgerKeys |-> QueryContract(w \o r, k)] \in [LedgerKeys -> Qty]
<1>1. w \o r \in Seq(AnyRow(Names))
  BY ConcatProperties, WalletRowsAreRows
<1>2. \A k \in LedgerKeys : QueryContract(w \o r, k) \in Qty
  BY <1>1, QueryContractType
<1> QED
  BY <1>2

LEMMA KeyIsAccount == LedgerKeys = Ledger!Accounts
BY AddressAssumption DEF LedgerKeys, Ledger!Accounts

\* Where no rows are under way the books are the table.
LEMMA BooksAreTable == ASSUME wallet \in Seq(WalletRow), rows = << >> PROVE Books = wallet
BY ConcatEmptySeq DEF Books

LEMMA OneMoreRow ==
    ASSUME NEW w \in Seq(WalletRow), NEW x \in WalletRow
    PROVE  w \o <<x>> = Append(w, x)
OBVIOUS

LEMMA TwoMoreRows ==
    ASSUME NEW w \in Seq(WalletRow), NEW x \in WalletRow, NEW y \in WalletRow
    PROVE  w \o <<x, y>> = Append(Append(w, x), y)
OBVIOUS

\* Writing the first row under way moves it within the books.
LEMMA WrittenRowStays ==
    ASSUME NEW w \in Seq(WalletRow), NEW r \in Seq(WalletRow), r # << >>
    PROVE  Append(w, Head(r)) \o Tail(r) = w \o r
<1> DEFINE u == Append(w, Head(r)) \o Tail(r)
           v == w \o r
<1>1. Head(r) = r[1] /\ Head(r) \in WalletRow /\ Tail(r) \in Seq(WalletRow)
      /\ Len(r) \in Nat /\ Len(r) >= 1 /\ Len(Tail(r)) = Len(r) - 1
      /\ \A i \in 1 .. Len(r) - 1 : Tail(r)[i] = r[i + 1]
  OBVIOUS
<1>2. Append(w, Head(r)) \in Seq(WalletRow) /\ Len(Append(w, Head(r))) = Len(w) + 1
      /\ Append(w, Head(r))[Len(w) + 1] = Head(r)
      /\ \A i \in 1 .. Len(w) : Append(w, Head(r))[i] = w[i]
  BY <1>1
<1>3. u \in Seq(WalletRow) /\ v \in Seq(WalletRow)
      /\ Len(u) = Len(w) + Len(r) /\ Len(v) = Len(w) + Len(r)
  BY <1>1, <1>2, ConcatProperties
<1>4. ASSUME NEW i \in 1 .. Len(w) + Len(r) PROVE u[i] = v[i]
  <2>1. CASE i <= Len(w)
    <3>1. i \in 1 .. Len(w)
      BY <2>1
    <3> QED
      BY <1>1, <1>2, <3>1, ConcatProperties
  <2>2. CASE i = Len(w) + 1
    BY <1>1, <1>2, <2>2, ConcatProperties
  <2>3. CASE i > Len(w) + 1
    BY <1>1, <1>2, <2>3, ConcatProperties
  <2> QED
    BY <2>1, <2>2, <2>3
<1> HIDE DEF u, v
<1> QED
  BY <1>3, <1>4, SeqEqual DEF u, v

-----------------------------------------------------------------------------
(* Who is handled, and who is a party *)

LEMMA HandledByOwn ==
    ASSUME NEW t \in Txs, NEW contract \in HandledBy(t), contract # NoAddress
    PROVE  /\ contract \in MyAddresses
           /\ \E i \in 1 .. Len(Vout[t]) : Vout[t][i].addr \in MyAddresses
           /\ ~ RpcMayFail => Vin[t][1].addr \notin MyAddresses
<1> DEFINE mine == {i \in 1 .. Len(Vout[t]) : Vout[t][i].addr \in MyAddresses}
<1>1. HandledBy(t) = IF RpcMayFail THEN {Vout[t][i].addr : i \in mine} \cup {NoAddress}
                     ELSE IF mine = {} \/ Vin[t][1].addr \in MyAddresses THEN {NoAddress}
                     ELSE {Vout[t][First(mine)].addr}
  BY DEF HandledBy
<1>2. mine \in SUBSET Nat
  BY TxTypes
<1>3. \A i \in mine : i \in 1 .. Len(Vout[t]) /\ Vout[t][i].addr \in MyAddresses
  OBVIOUS
<1> HIDE DEF mine
<1>4. mine # {} => First(mine) \in mine
  BY <1>2, FirstInSet
<1>5. PICK i \in mine : contract = Vout[t][i].addr
  BY <1>1, <1>4
<1> QED
  BY <1>1, <1>3, <1>5

LEMMA LastAddressIn ==
    ASSUME NEW vout \in Seq([addr : Addresses, value : Nat]),
           NEW S \in SUBSET (1 .. Len(vout)), S # {}
    PROVE  \E i \in S : LastAddress(vout, S) = vout[i].addr
<1>1. Len(vout) \in Nat
  OBVIOUS
<1>2. Latest(S) \in S
  BY <1>1, LatestInSet
<1>3. LastAddress(vout, S) = vout[Latest(S)].addr
  BY Zenon DEF LastAddress, Latest
<1> QED
  BY <1>2, <1>3

\* The two parties of a transfer that gives change are not the same.
LEMMA PartiesDiffer ==
    ASSUME TransfersGiveChange, NEW t \in Txs, Op[t].code = "T2"
    PROVE  T2Of[t].send # T2Of[t].recv
<1> DEFINE vout == Vout[t]
           own == {i \in 1 .. Len(vout) : vout[i].addr \in InputAddresses(Vin[t])}
           fee == {i \in own : vout[i].addr = Op[t].fee_address}
<1>1. vout \in Seq([addr : Addresses, value : Nat])
  BY TxTypes
<1>2. T2Of[t].send = LastAddress(vout, fee) /\ T2Of[t].recv = LastAddress(vout, own \ fee)
  BY DEF T2Of, T2Roles
<1>3. own # {}
  BY DEF TransfersGiveChange
<1>4. fee \in SUBSET (1 .. Len(vout)) /\ own \ fee \in SUBSET (1 .. Len(vout))
  OBVIOUS
<1>5. /\ \A i \in fee : vout[i].addr = Op[t].fee_address
      /\ \A i \in own \ fee : vout[i].addr # Op[t].fee_address
  OBVIOUS
<1>6. \A i \in 1 .. Len(vout) : vout[i].addr # NoAddress
  <2> TAKE i \in 1 .. Len(vout)
  <2>1. vout[i] \in [addr : Addresses, value : Nat]
    BY <1>1, ElementOfSeq
  <2>2. vout[i].addr \in Addresses
    BY <2>1
  <2> QED
    BY <2>2, AddressAssumption
<1> HIDE DEF vout, own, fee
<1>7. LastAddress(vout, {}) = NoAddress
  BY DEF LastAddress
<1>8. fee # {} => \E i \in fee : LastAddress(vout, fee) = vout[i].addr
  BY <1>1, <1>4, LastAddressIn
<1>9. own \ fee # {} => \E i \in own \ fee : LastAddress(vout, own \ fee) = vout[i].addr
  BY <1>1, <1>4, LastAddressIn
<1>10. CASE fee = {}
  BY <1>2, <1>3, <1>4, <1>6, <1>7, <1>9, <1>10
<1>11. CASE own \ fee = {}
  BY <1>2, <1>3, <1>4, <1>6, <1>7, <1>8, <1>11
<1>12. CASE fee # {} /\ own \ fee # {}
  BY <1>2, <1>5, <1>8, <1>9, <1>12
<1> QED
  BY <1>10, <1>11, <1>12

LEMMA FirstInputType == ASSUME NEW t \in Txs PROVE Vin[t][1].addr \in Addresses
<1>1. 1 \in 1 .. Len(Vin[t])
  BY TxTypes, EmptySeq
<1>2. Vin[t][1] \in [tx : Txs \cup {NoTxid}, n : Nat, addr : Addresses]
  BY TxTypes, <1>1, ElementOfSeq
<1> QED
  BY <1>2

-----------------------------------------------------------------------------
(* The steps of the ledger *)

RowKey(row) == [contract |-> row.contract, asset |-> row.asset, address |-> row.address]

\* An issuance: the row of AssetCreation.
LEMMA IssueStep ==
    ASSUME TypeOK, rows = << >>, wallet' = wallet, NEW t \in Txs,
           NEW contract \in MyAddresses, ResponseActionA1(t, contract)
    PROVE  (\E h \in Holders : Ledger!Issue(contract, Op[t].asset, h)) \/ Balance' = Balance
<1> DEFINE k == [contract |-> contract, asset |-> Op[t].asset, address |-> Vin[t][1].addr]
           row == Row(k, Op[t].qty1, "A2", NoTxid)
<1>1. Vin[t][1].addr \in Addresses
  BY FirstInputType
<1>2. k \in LedgerKeys /\ contract \in Holders
  BY <1>1, TxTypes, AddressAssumption DEF LedgerKeys, Holders
<1>3. row \in WalletRow
  BY <1>1, <1>2, TxTypes, RowType DEF RowTypes, Holders
<1>4. wallet \in Seq(WalletRow) /\ Books = wallet
  BY BooksAreTable DEF TypeOK
<1>5. Books' = Append(wallet, row) \/ Books' = Books
  <2>1. rows' = Stored(row)
    BY DEF ResponseActionA1, Respond
  <2> HIDE DEF row
  <2>2. CASE rows' = <<row>>
    BY <1>3, <1>4, <2>2, OneMoreRow DEF Books
  <2>3. CASE rows' = << >>
    BY <1>4, <2>3, ConcatEmptySeq DEF Books
  <2> QED
    BY <1>3, <2>1, <2>2, <2>3, StoredType
<1> SUFFICES ASSUME Books' = Append(wallet, row)
             PROVE  (\E h \in Holders : Ledger!Issue(contract, Op[t].asset, h)) \/ Balance' = Balance
  BY <1>5 DEF Balance
<1>6. row.contract = contract /\ row.asset = Op[t].asset /\ row.address = Vin[t][1].addr
      /\ row.type = "A2" /\ row.qty = Op[t].qty1
  BY DEF Row
<1>7. wallet \in Seq(AnyRow(Names)) /\ row \in AnyRow(Names)
  BY <1>3, <1>4, WalletRowsAreRows DEF AnyRow, Names, WalletRow
<1> HIDE DEF row
<1>8. \A j \in LedgerKeys \ {k} : Balance'[j] = Balance[j]
  <2> TAKE j \in LedgerKeys \ {k}
  <2>1. j.contract # row.contract \/ j.asset # row.asset \/ j.address # row.address
    BY <1>6 DEF LedgerKeys
  <2>2. QueryContract(Append(wallet, row), j) = QueryContract(wallet, j)
    BY <1>7, <2>1, OtherAccountsKeep
  <2> QED
    BY <1>4, <1>5, <2>2 DEF Balance
<1>9. Balance'[k] = IF BaseRow(wallet, k) = 0 THEN Op[t].qty1 ELSE Balance[k]
  <2>1. k = [contract |-> row.contract, asset |-> row.asset, address |-> row.address]
    BY <1>6
  <2> HIDE DEF k
  <2>2. QueryContract(Append(wallet, row), k)
          = IF BaseRow(wallet, k) = 0 THEN row.qty ELSE QueryContract(wallet, k)
    BY <1>6, <1>7, <2>1, IssueRowCounts
  <2> QED
    BY <1>2, <1>4, <1>5, <1>6, <2>2 DEF Balance
<1>10. CASE BaseRow(wallet, k) = 0
  <2>1. Balance[k] = 0
    <3>1. QueryContract(wallet, k) = QtyAt(wallet, BaseRow(wallet, k))
      BY <1>7, QueryContractIsBase
    <3> QED
      BY <1>2, <1>4, <1>10, <3>1 DEF Balance, QtyAt
  <2>2. Balance' = [Balance EXCEPT ![k] = Op[t].qty1]
    BY <1>8, <1>9, <1>10 DEF Balance
  <2>3. k = Ledger!Account(contract, Op[t].asset, Vin[t][1].addr)
    BY DEF Ledger!Account
  <2>4. Balance \in [LedgerKeys -> Qty] /\ Op[t].qty1 \in Qty
    BY <1>1, TxTypes, BalanceType DEF Balance, Books, TypeOK
  <2>5. Balance' \in [LedgerKeys -> Qty]
    BY <2>2, <2>4
  <2>6. Ledger!Change({k})
    BY <1>8, <2>5, KeyIsAccount DEF Ledger!Change
  <2>7. Ledger!Issue(contract, Op[t].asset, Vin[t][1].addr)
    BY <2>1, <2>3, <2>6 DEF Ledger!Issue
  <2> QED
    BY <1>1, <2>7 DEF Holders
<1>11. CASE BaseRow(wallet, k) # 0
  BY <1>8, <1>9, <1>11 DEF Balance
<1> QED
  BY <1>10, <1>11

\* A query that std::stoi survives answers at most IntMax.
LEMMA ReadsUpToIntMax ==
    ASSUME wallet \in Seq(WalletRow), NEW k, ~ QueryThrows(wallet, k)
    PROVE  QueryContract(wallet, k) \in 0 .. IntMax
<1>1. QueryContract(wallet, k) = QtyAt(wallet, BaseRow(wallet, k))
  BY WalletRowsAreRows, QueryContractIsBase
<1>2. QueryContract(wallet, k) \in Nat
  BY SharesAreQuantities, WidthAssumption DEF Qty
<1>3. ~ (QtyAt(wallet, BaseRow(wallet, k)) > IntMax)
  BY DEF QueryThrows
<1> QED
  BY <1>1, <1>2, <1>3, WidthAssumption

\* The two rows of a settlement move an amount that wraps nowhere, and the table
\* holds them.
LEMMA SettlementRows ==
    ASSUME TransfersGiveChange, TypeOK, NEW t \in Txs, Op[t].code = "T2",
           Settles(t), ~ T2Throws(t)
    PROVE  LET send == T2Key(t, T2Of[t].send)
               recv == T2Key(t, T2Of[t].recv)
               x == Op[t].qty1
           IN  \E s, r \in WalletRow :
                 /\ Settlement(t) = <<s, r>>
                 /\ RowKey(s) = send /\ RowKey(r) = recv /\ s.type = "T4" /\ r.type = "T4"
                 /\ s.qty = QueryContract(wallet, send) - x
                 /\ r.qty = QueryContract(wallet, recv) + x
                 /\ x \in Nat /\ x <= QueryContract(wallet, send)
                 /\ QueryContract(wallet, send) \in Nat \ {0}
                 /\ QueryContract(wallet, recv) \in Nat
                 /\ send # recv
                 /\ Stored(s) = <<s>> /\ Stored(r) = <<r>>
<1> DEFINE send == T2Key(t, T2Of[t].send)
           recv == T2Key(t, T2Of[t].recv)
           x == Op[t].qty1
           sender == Row(send, Sub64(QueryContract(wallet, send), x), "T4", NoTxid)
           receiver == Row(recv, Add64(QueryContract(wallet, recv), x), "T4", NoTxid)
<1>1. T2Of[t].contract \in Holders /\ T2Of[t].send \in Holders /\ T2Of[t].recv \in Holders
      /\ T2Of[t].send # T2Of[t].recv
  BY T2OfType, PartiesDiffer
<1>2. send # recv
  BY <1>1 DEF T2Key
<1>3. x \in Qty /\ wallet \in Seq(WalletRow)
  BY TxTypes DEF TypeOK
<1>4. QueryContract(wallet, send) \in 0 .. IntMax /\ QueryContract(wallet, recv) \in 0 .. IntMax
  BY <1>3, ReadsUpToIntMax DEF T2Throws, Settles
<1>5. QueryContract(wallet, send) > 0 /\ x <= QueryContract(wallet, send)
  BY <1>3, <1>4 DEF Settles, Qty
<1>6. /\ Sub64(QueryContract(wallet, send), x) = QueryContract(wallet, send) - x
      /\ Add64(QueryContract(wallet, recv), x) = QueryContract(wallet, recv) + x
  BY <1>3, <1>4, <1>5, WidthAssumption DEF Qty, Sub64, Add64
<1>7. sender \in WalletRow /\ receiver \in WalletRow
  <2>1. /\ Sub64(QueryContract(wallet, send), x) \in Qty
        /\ Add64(QueryContract(wallet, recv), x) \in Qty
    BY <1>3, SharesAreQuantities, Sub64Type, Add64Type
  <2> QED
    BY <1>1, <2>1, TxTypes, RowType DEF T2Key, RowTypes
<1>8. Settlement(t) = <<sender, receiver>>
  BY DEF Settlement
<1>9. /\ RowKey(sender) = send /\ RowKey(receiver) = recv
      /\ sender.type = "T4" /\ receiver.type = "T4"
      /\ sender.qty = QueryContract(wallet, send) - x
      /\ receiver.qty = QueryContract(wallet, recv) + x
  BY <1>6 DEF Row, RowKey, T2Key
<1>10. x \in Nat /\ QueryContract(wallet, send) \in Nat /\ QueryContract(wallet, recv) \in Nat
  BY <1>3, <1>4, WidthAssumption DEF Qty
<1>11. 2 * sender.qty < TwoTo64 /\ 2 * receiver.qty < TwoTo64
  BY <1>4, <1>5, <1>9, <1>10, WidthAssumption
<1>12. Stored(sender) = <<sender>> /\ Stored(receiver) = <<receiver>>
  BY <1>11 DEF Stored
<1> HIDE DEF sender, receiver, send, recv, x
<1>13. /\ Settlement(t) = <<sender, receiver>>
       /\ QueryContract(wallet, send) \in Nat \ {0}
  BY <1>5, <1>8, <1>10
<1> QED
  BY <1>2, <1>5, <1>7, <1>9, <1>10, <1>12, <1>13 DEF send, recv, x

\* A transfer: the two rows of a settlement.
LEMMA TransferStep ==
    ASSUME TransfersGiveChange, TypeOK, rows = << >>, wallet' = wallet,
           NEW t \in Txs, Op[t].code = "T2", Settles(t), ~ T2Throws(t),
           rows' = Settlement(t)
    PROVE  Ledger!Transfer(T2Of[t].contract, Op[t].asset, T2Of[t].send, T2Of[t].recv)
<1> DEFINE send == T2Key(t, T2Of[t].send)
           recv == T2Key(t, T2Of[t].recv)
           x == Op[t].qty1
<1>1. T2Of[t].contract \in MyAddresses /\ T2Of[t].send \in Holders /\ T2Of[t].recv \in Holders
      /\ T2Of[t].send # T2Of[t].recv
  BY T2OfType, PartiesDiffer DEF Settles
<1>2. send \in LedgerKeys /\ recv \in LedgerKeys /\ send # recv
  BY <1>1, TxTypes, AddressAssumption DEF LedgerKeys, T2Key
<1>3. x \in Qty /\ wallet \in Seq(WalletRow) /\ Books = wallet /\ wallet \in Seq(AnyRow(Names))
  BY TxTypes, BooksAreTable, WalletRowsAreRows DEF TypeOK
<1>4. PICK sender \in WalletRow, receiver \in WalletRow :
        /\ Settlement(t) = <<sender, receiver>>
        /\ RowKey(sender) = send /\ RowKey(receiver) = recv
        /\ sender.type = "T4" /\ receiver.type = "T4"
        /\ sender.qty = QueryContract(wallet, send) - x
        /\ receiver.qty = QueryContract(wallet, recv) + x
        /\ x <= QueryContract(wallet, send) /\ QueryContract(wallet, send) \in Nat \ {0}
  BY SettlementRows
<1>8. Books' = Append(Append(wallet, sender), receiver)
  BY <1>3, <1>4, TwoMoreRows DEF Books
<1>9. /\ sender.contract = send.contract /\ sender.asset = send.asset
      /\ sender.address = send.address
      /\ receiver.contract = recv.contract /\ receiver.asset = recv.asset
      /\ receiver.address = recv.address
      /\ sender.type = "T4" /\ receiver.type = "T4"
      /\ sender.qty = QueryContract(wallet, send) - x
      /\ receiver.qty = QueryContract(wallet, recv) + x
  <2>1. /\ RowKey(sender).contract = sender.contract /\ RowKey(sender).asset = sender.asset
        /\ RowKey(sender).address = sender.address
        /\ RowKey(receiver).contract = receiver.contract
        /\ RowKey(receiver).asset = receiver.asset
        /\ RowKey(receiver).address = receiver.address
    BY DEF RowKey
  <2> HIDE DEF send, recv
  <2> QED
    BY <1>4, <2>1
<1>10. sender \in AnyRow(Names) /\ receiver \in AnyRow(Names)
  BY DEF AnyRow, Names, WalletRow
<1>11. send = [contract |-> sender.contract, asset |-> sender.asset, address |-> sender.address]
       /\ recv = [contract |-> receiver.contract, asset |-> receiver.asset,
                  address |-> receiver.address]
  BY <1>4 DEF RowKey
<1> DEFINE once == Append(wallet, sender)
<1>12. once \in Seq(AnyRow(Names))
  BY <1>3, <1>10
<1>13. \A j \in LedgerKeys : j # send => QueryContract(once, j) = QueryContract(wallet, j)
  <2> SUFFICES ASSUME NEW j \in LedgerKeys, j # send
               PROVE  QueryContract(once, j) = QueryContract(wallet, j)
    OBVIOUS
  <2>1. j.contract # sender.contract \/ j.asset # sender.asset \/ j.address # sender.address
    BY <1>11 DEF LedgerKeys
  <2> QED
    BY <1>3, <1>10, <2>1, OtherAccountsKeep
<1>14. QueryContract(once, send) = sender.qty
  <2> HIDE DEF send
  <2> QED
    BY <1>3, <1>9, <1>10, <1>11, SettlementRowCounts
<1> HIDE DEF once
<1>15. \A j \in LedgerKeys : j # recv =>
         QueryContract(Append(once, receiver), j) = QueryContract(once, j)
  <2> SUFFICES ASSUME NEW j \in LedgerKeys, j # recv
               PROVE  QueryContract(Append(once, receiver), j) = QueryContract(once, j)
    OBVIOUS
  <2>1. j.contract # receiver.contract \/ j.asset # receiver.asset \/ j.address # receiver.address
    BY <1>11 DEF LedgerKeys
  <2> QED
    BY <1>10, <1>12, <2>1, OtherAccountsKeep
<1>16. QueryContract(Append(once, receiver), recv) = receiver.qty
  <2> HIDE DEF recv
  <2> QED
    BY <1>9, <1>10, <1>11, <1>12, SettlementRowCounts
<1>17. \A j \in LedgerKeys : Balance[j] = QueryContract(wallet, j)
  BY <1>3 DEF Balance
<1>18. \A j \in LedgerKeys : Balance'[j] = QueryContract(Append(once, receiver), j)
  BY <1>8 DEF Balance, once
<1> HIDE DEF send, recv
<1>19. Balance' = [Balance EXCEPT ![send] = @ - x, ![recv] = @ + x]
  <2>1. \A j \in LedgerKeys : Balance'[j] = IF j = send THEN Balance[j] - x
                                            ELSE IF j = recv THEN Balance[j] + x ELSE Balance[j]
    BY <1>2, <1>9, <1>13, <1>14, <1>15, <1>16, <1>17, <1>18
  <2>2. Balance = [j \in LedgerKeys |-> Balance[j]] /\ Balance' = [j \in LedgerKeys |-> Balance'[j]]
    BY DEF Balance
  <2> HIDE DEF x
  <2> QED
    BY <1>2, <2>1, <2>2
<1>20. send = Ledger!Account(T2Of[t].contract, Op[t].asset, T2Of[t].send)
       /\ recv = Ledger!Account(T2Of[t].contract, Op[t].asset, T2Of[t].recv)
  BY DEF Ledger!Account, T2Key, send, recv
<1>21. 0 < Balance[send] /\ x <= Balance[send]
  BY <1>2, <1>4, <1>17
<1> QED
  BY <1>1, <1>3, <1>19, <1>20, <1>21 DEF Ledger!Transfer

\* The T4 that scanblock takes over is of somebody else's contract.
LEMMA HandledT4IsForeign ==
    ASSUME OwnStatementsAreOurs, NEW t \in Txs, Op[t].code = "T4",
           NEW contract \in HandledBy(t), contract # NoAddress
    PROVE  T4Contract(Vin[t]) \in Addresses \ MyAddresses
<1>1. T4Contract(Vin[t]) \in Addresses
  <2> DEFINE vin == Vin[t]
  <2>1. vin \in Seq([tx : Txs \cup {NoTxid}, n : Nat, addr : Addresses]) /\ vin # << >>
    BY TxTypes
  <2> HIDE DEF vin
  <2>2. Len(vin) \in 1 .. Len(vin)
    BY <2>1
  <2>3. vin[Len(vin)] \in [tx : Txs \cup {NoTxid}, n : Nat, addr : Addresses]
    BY <2>1, <2>2, ElementOfSeq
  <2>4. vin[Len(vin)].addr \in Addresses
    BY <2>3
  <2> QED
    BY <2>4 DEF T4Contract, vin
<1> QED
  BY <1>1, HandledByOwn DEF OwnStatementsAreOurs

\* Rows of one contract change no account of another.
AtMostOneRow(r, c) == r = << >> \/ \E row \in WalletRow : r = <<row>> /\ row.contract = c

LEMMA ForeignRowsKeep ==
    ASSUME NEW c, NEW k, k.contract # c
    PROVE  \A w, r \in Seq(WalletRow) :
               AtMostOneRow(r, c) => QueryContract(w \o r, k) = QueryContract(w, k)
<1> SUFFICES ASSUME NEW w \in Seq(WalletRow), NEW r \in Seq(WalletRow), AtMostOneRow(r, c)
             PROVE  QueryContract(w \o r, k) = QueryContract(w, k)
  OBVIOUS
<1>1. CASE r = << >>
  BY <1>1, ConcatEmptySeq
<1>2. CASE r # << >>
  <2>1. PICK row \in WalletRow : r = <<row>> /\ row.contract = c
    BY <1>2 DEF AtMostOneRow
  <2>2. w \in Seq(AnyRow(Names)) /\ row \in AnyRow(Names)
    BY WalletRowsAreRows DEF AnyRow, Names, WalletRow
  <2>3. QueryContract(Append(w, row), k) = QueryContract(w, k)
    BY <2>1, <2>2, OtherAccountsKeep
  <2> QED
    BY <2>1, <2>3, OneMoreRow
<1> QED
  BY <1>1, <1>2

LEMMA ForeignStatementKeeps ==
    ASSUME NEW w \in Seq(WalletRow), NEW x \in Seq(WalletRow), NEW y \in Seq(WalletRow),
           NEW c, NEW k, k.contract # c,
           AtMostOneRow(x, c), AtMostOneRow(y, c)
    PROVE  QueryContract(w \o (x \o y), k) = QueryContract(w, k)
<1>0. \A v, r \in Seq(WalletRow) :
         AtMostOneRow(r, c) => QueryContract(v \o r, k) = QueryContract(v, k)
  BY ForeignRowsKeep
<1>1. w \o (x \o y) = (w \o x) \o y
  BY ConcatAssociative
<1>2. PICK u \in Seq(WalletRow) : u = w \o x
  BY ConcatProperties
<1>3. QueryContract(u \o y, k) = QueryContract(u, k)
  BY <1>0
<1>4. QueryContract(w \o x, k) = QueryContract(w, k)
  BY <1>0
<1> QED
  BY <1>1, <1>2, <1>3, <1>4

\* The rows of another contract's T4: at most one for each party.
LEMMA StatementRows ==
    ASSUME NEW t \in Txs, NEW mine \in SUBSET MyAddresses,
           T4Contract(Vin[t]) \in Addresses \ MyAddresses
    PROVE  \E x, y \in Seq(WalletRow) :
             /\ T4Rows(t, mine) = x \o y
             /\ AtMostOneRow(x, T4Contract(Vin[t])) /\ AtMostOneRow(y, T4Contract(Vin[t]))
<1> DEFINE c == T4Contract(Vin[t])
           key(address) == [contract |-> c, asset |-> Op[t].asset, address |-> address]
           taken(address, qty) == IF address \notin mine THEN << >>
                                  ELSE Stored(Row(key(address), qty, "T4", t))
           roles == T4Roles(Vin[t], Vout[t])
           s == taken(roles.send, Op[t].qty1)
           r == taken(roles.recv, Op[t].qty2)
<1>1. ASSUME NEW address, NEW qty \in Qty
      PROVE  /\ taken(address, qty) \in Seq(WalletRow)
             /\ AtMostOneRow(taken(address, qty), c)
  <2>1. CASE address \notin mine
    BY <2>1, EmptySeq DEF AtMostOneRow
  <2>2. CASE address \in mine
    <3> DEFINE row == Row(key(address), qty, "T4", t)
    <3>1. address \in Holders /\ c \in Holders
      BY <2>2, AddressAssumption DEF Holders
    <3>2. row \in WalletRow
      BY <3>1, TxTypes, RowType DEF RowTypes
    <3>3. row.contract = c
      BY DEF Row
    <3>4. taken(address, qty) = Stored(row)
      BY <2>2
    <3> HIDE DEF row, taken
    <3> QED
      BY <3>2, <3>3, <3>4, StoredType DEF AtMostOneRow
  <2> QED
    BY <2>1, <2>2
<1>2. T4Rows(t, mine) = s \o r
  BY DEF T4Rows
<1>3. /\ s \in Seq(WalletRow) /\ AtMostOneRow(s, c)
      /\ r \in Seq(WalletRow) /\ AtMostOneRow(r, c)
  <2> HIDE DEF taken
  <2> QED
    BY <1>1, TxTypes
<1> HIDE DEF s, r, c, taken
<1> QED
  BY <1>2, <1>3 DEF c

\* An adoption: the rows of another contract's T4.
LEMMA AdoptStep ==
    ASSUME TypeOK, rows = << >>, wallet' = wallet, NEW t \in Txs,
           NEW mine \in SUBSET MyAddresses, rows' = T4Rows(t, mine),
           T4Contract(Vin[t]) \in Addresses \ MyAddresses
    PROVE  Ledger!Adopt(T4Contract(Vin[t]))
<1> DEFINE c == T4Contract(Vin[t])
<1>1. PICK w \in Seq(WalletRow) : w = wallet /\ Books = w
  BY BooksAreTable DEF TypeOK
<1>2. PICK x \in Seq(WalletRow), y \in Seq(WalletRow) :
        rows' = x \o y /\ AtMostOneRow(x, c) /\ AtMostOneRow(y, c)
  BY StatementRows
<1> HIDE DEF c
<1>8. x \o y \in Seq(WalletRow)
  BY ConcatProperties
<1>9. Books' = w \o (x \o y) /\ Books = w
  BY <1>1, <1>2 DEF Books
<1>10. ASSUME NEW k \in LedgerKeys, k.contract # c PROVE Balance'[k] = Balance[k]
  <2>1. QueryContract(w \o (x \o y), k) = QueryContract(w, k)
    BY <1>2, <1>10, ForeignStatementKeeps
  <2> QED
    BY <1>9, <2>1 DEF Balance
<1>11. Balance' \in [LedgerKeys -> Qty]
  <2>1. PICK z \in Seq(WalletRow) : z = x \o y
    BY <1>8
  <2>2. [k \in LedgerKeys |-> QueryContract(w \o z, k)] \in [LedgerKeys -> Qty]
    BY BalanceType
  <2>3. Balance' = [k \in LedgerKeys |-> QueryContract(w \o z, k)]
    BY <1>9, <2>1 DEF Balance
  <2> QED
    BY <2>2, <2>3
<1> QED
  BY <1>10, <1>11, KeyIsAccount DEF Ledger!Adopt, Ledger!Change, c

\* What flushing a new transaction does to the ledger.
LEMMA ResponseStep ==
    ASSUME TransfersGiveChange, OwnStatementsAreOurs, TypeOK, rows = << >>,
           wallet' = wallet, NEW t \in Txs, ResponseAction(t)
    PROVE  Ledger!Next \/ Balance' = Balance
<1>1. ASSUME Ignore PROVE Balance' = Balance
  BY <1>1 DEF Ignore, response, Balance, Books
<1>2. PICK contract \in HandledBy(t) :
         \/ Op[t].code = "T2" /\ ResponseActionT2(t)
         \/ Op[t].code = "C1" /\ contract # NoAddress /\ ResponseActionC1(t)
         \/ Op[t].code = "A1" /\ contract # NoAddress /\ ResponseActionA1(t, contract)
         \/ Op[t].code = "T4" /\ contract # NoAddress /\ ResponseActionT4(t)
         \/ Ignore
  BY DEF ResponseAction
<1>3. CASE Op[t].code = "T2" /\ ResponseActionT2(t) /\ ~ Ignore
  <2>1. Settles(t) /\ ~ T2Throws(t) /\ rows' = Settlement(t)
    BY <1>3 DEF ResponseActionT2, Respond
  <2>2. Ledger!Transfer(T2Of[t].contract, Op[t].asset, T2Of[t].send, T2Of[t].recv)
    BY <1>3, <2>1, TransferStep
  <2> QED
    BY <2>1, <2>2, T2OfType, TxTypes DEF Ledger!Next, Settles
<1>4. CASE ResponseActionC1(t)
  BY <1>4 DEF ResponseActionC1, Respond, Balance, Books
<1>5. CASE contract # NoAddress /\ ResponseActionA1(t, contract)
  <2>1. contract \in MyAddresses
    BY <1>5, HandledByOwn
  <2>2. (\E h \in Holders : Ledger!Issue(contract, Op[t].asset, h)) \/ Balance' = Balance
    BY <1>5, <2>1, IssueStep
  <2> QED
    BY <2>1, <2>2, TxTypes DEF Ledger!Next
<1>6. CASE Op[t].code = "T4" /\ contract # NoAddress /\ ResponseActionT4(t) /\ ~ Ignore
  <2>1. T4Contract(Vin[t]) \in Addresses \ MyAddresses
    BY <1>6, HandledT4IsForeign
  <2>2. PICK mine \in SUBSET MyAddresses : rows' = T4Rows(t, mine)
    BY <1>6 DEF ResponseActionT4, Respond
  <2>3. Ledger!Adopt(T4Contract(Vin[t]))
    BY <2>1, <2>2, AdoptStep
  <2> QED
    BY <2>1, <2>3 DEF Ledger!Next
<1> QED
  BY <1>1, <1>2, <1>3, <1>4, <1>5, <1>6

\* Rows that differ in their txid only make the same books.
Named(r, id) == [i \in 1 .. Len(r) |-> [r[i] EXCEPT !.txid = id]]

LEMMA NamedRowsSame ==
    ASSUME NEW w \in Seq(WalletRow), NEW r \in Seq(WalletRow), NEW q \in Seq(WalletRow),
           NEW id, q = Named(r, id)
    PROVE  LET u == w \o q
               v == w \o r
           IN  /\ u \in Seq(WalletRow) /\ v \in Seq(WalletRow) /\ Len(u) = Len(v)
               /\ \A i \in 1 .. Len(v) :
                    /\ u[i].contract = v[i].contract /\ u[i].asset = v[i].asset
                    /\ u[i].address = v[i].address /\ u[i].type = v[i].type
                    /\ u[i].qty = v[i].qty
<1> DEFINE u == w \o q
           v == w \o r
<1>1. Len(r) \in Nat /\ Len(w) \in Nat /\ Len(q) = Len(r)
  BY DEF Named
<1>2. ASSUME NEW i \in 1 .. Len(r)
      PROVE  /\ q[i].contract = r[i].contract /\ q[i].asset = r[i].asset
             /\ q[i].address = r[i].address /\ q[i].type = r[i].type /\ q[i].qty = r[i].qty
  <2>1. r[i] \in WalletRow
    BY ElementOfSeq
  <2>2. q[i] = [r[i] EXCEPT !.txid = id]
    BY DEF Named
  <2> QED
    BY <2>1, <2>2 DEF WalletRow
<1>3. /\ u \in Seq(WalletRow) /\ Len(u) = Len(w) + Len(q)
      /\ v \in Seq(WalletRow) /\ Len(v) = Len(w) + Len(r)
      /\ \A i \in 1 .. Len(w) + Len(r) :
           /\ u[i] = IF i <= Len(w) THEN w[i] ELSE q[i - Len(w)]
           /\ v[i] = IF i <= Len(w) THEN w[i] ELSE r[i - Len(w)]
  <2>1. \A z \in Seq(WalletRow) :
          /\ w \o z \in Seq(WalletRow) /\ Len(w \o z) = Len(w) + Len(z)
          /\ \A i \in 1 .. Len(w) + Len(z) :
               (w \o z)[i] = IF i <= Len(w) THEN w[i] ELSE z[i - Len(w)]
    BY ConcatProperties
  <2> QED
    BY <1>1, <2>1
<1>4. ASSUME NEW i \in 1 .. Len(v)
      PROVE  /\ u[i].contract = v[i].contract /\ u[i].asset = v[i].asset
             /\ u[i].address = v[i].address /\ u[i].type = v[i].type /\ u[i].qty = v[i].qty
  <2>1. CASE i <= Len(w)
    BY <1>3, <2>1
  <2>2. CASE ~ (i <= Len(w))
    <3>1. i - Len(w) \in 1 .. Len(r)
      BY <1>1, <1>3, <2>2
    <3>2. u[i] = q[i - Len(w)] /\ v[i] = r[i - Len(w)]
      BY <1>3, <2>2
    <3> QED
      BY <1>2, <3>1, <3>2
  <2> QED
    BY <2>1, <2>2
<1>5. u \in Seq(WalletRow) /\ v \in Seq(WalletRow) /\ Len(u) = Len(v)
  BY <1>1, <1>3
<1> HIDE DEF u, v
<1> QED
  BY <1>4, <1>5 DEF u, v

LEMMA NamedRowsCount ==
    ASSUME NEW id
    PROVE  \A w, r, q \in Seq(WalletRow) :
               q = Named(r, id) =>
                   \A k : QueryContract(w \o q, k) = QueryContract(w \o r, k)
<1> SUFFICES ASSUME NEW w \in Seq(WalletRow), NEW r \in Seq(WalletRow),
                    NEW q \in Seq(WalletRow), q = Named(r, id), NEW k
             PROVE  QueryContract(w \o q, k) = QueryContract(w \o r, k)
  OBVIOUS
<1> DEFINE u == w \o q
           v == w \o r
<1>1. /\ u \in Seq(WalletRow) /\ v \in Seq(WalletRow) /\ Len(u) = Len(v)
      /\ \A i \in 1 .. Len(v) :
           /\ u[i].contract = v[i].contract /\ u[i].asset = v[i].asset
           /\ u[i].address = v[i].address /\ u[i].type = v[i].type
           /\ u[i].qty = v[i].qty
  BY NamedRowsSame
<1> HIDE DEF u, v
<1>2. u \in Seq(AnyRow(Names)) /\ v \in Seq(AnyRow(Names))
  BY <1>1, WalletRowsAreRows
<1>3. QueryContract(u, k) = QueryContract(v, k)
  BY <1>1, <1>2, TxidsDoNotCount
<1> QED
  BY <1>3 DEF u, v

\* The reply only gives the rows under way their txid.
LEMMA ReplyKeepsBalance ==
    ASSUME TypeInv, Reply
    PROVE  Balance' = Balance
<1>1. PICK id : rows' = Named(rows, id)
  BY DEF Reply, Named
<1>2. TypeInv'
  BY TypeStep DEF Next, Loop
<1>3. PICK w \in Seq(WalletRow), r \in Seq(WalletRow), q \in Seq(WalletRow) :
         w = wallet /\ r = rows /\ q = rows'
  BY <1>2 DEF TypeInv, TypeOK
<1>4. wallet' = wallet
  BY DEF Reply, db
<1>5. \A k : QueryContract(w \o q, k) = QueryContract(w \o r, k)
  BY <1>1, <1>3, NamedRowsCount
<1> QED
  BY <1>3, <1>4, <1>5 DEF Balance, Books

LEMMA InsertRowKeepsBalance ==
    ASSUME TypeInv, InsertRow
    PROVE  Balance' = Balance
<1>1. Books' = Books
  BY WrittenRowStays DEF InsertRow, TypeInv, TypeOK, Books
<1> QED
  BY <1>1 DEF Balance

LEMMA RowsStep ==
    ASSUME TypeInv, RowsInv, [Next]_vars
    PROVE  RowsInv'
<1> USE DEF RowsInv, db, scan, memory, response
<1>1. CASE FlushInsert
  <2>1. ResponseAction(Head(vect_tx_).tx) /\ pc = "flush" /\ rows = << >>
    BY <1>1 DEF FlushInsert
  <2>2. pc' \in {"reply", "rows"} \/ rows' = rows
    BY <2>1 DEF ResponseAction, ResponseActionT2, ResponseActionC1, ResponseActionA1,
                ResponseActionT4, Respond, Ignore
  <2> QED
    BY <2>1, <2>2
<1>2. CASE Reply
  <2>1. rows = << >> => Len(rows) = 0
    OBVIOUS
  <2>2. rows = << >> => rows' = << >>
    BY <1>2, <2>1 DEF Reply
  <2> QED
    BY <1>2, <2>2 DEF Reply
<1>3. CASE InsertRow
  <2>1. rows \in Seq(WalletRow) /\ rows # << >> /\ rows' = Tail(rows)
    BY <1>3 DEF InsertRow, TypeInv, TypeOK
  <2>2. Len(rows) = 1 => rows' = << >>
    BY <2>1
  <2> QED
    BY <1>3, <2>2 DEF InsertRow
<1>4. CASE UNCHANGED vars
  BY <1>4 DEF vars
<1>5. CASE FlushThrows \/ Crash
  BY <1>5 DEF FlushThrows, Crash, Die
<1>6. CASE \/ GetBlockCount \/ GetBlock \/ ReadBlockTx \/ BlocksDone
           \/ GetRawMempool \/ ReadMempoolTx \/ MempoolDone
           \/ FlushUpdate \/ Commit \/ FlushUtxo \/ Start \/ Submit \/ Mine
  BY <1>6 DEF GetBlockCount, GetBlock, ReadBlockTx, BlocksDone, GetRawMempool,
       ReadMempoolTx, MempoolDone, FlushUpdate, Commit, FlushUtxo, Start, Submit, Mine
<1> QED
  BY <1>1, <1>2, <1>3, <1>4, <1>5, <1>6 DEF Next, Loop, Environment

\* Only a response changes the books.
LEMMA StillBooks ==
    ASSUME MaxCrashes = 0, TypeInv, RowsInv, [Next]_vars, ~ FlushInsert
    PROVE  Balance' = Balance
<1> USE DEF db, scan, memory, response
<1>1. CASE Reply
  BY <1>1, ReplyKeepsBalance
<1>2. CASE InsertRow
  BY <1>2, InsertRowKeepsBalance
<1>3. CASE UNCHANGED vars
  BY <1>3 DEF vars, Balance, Books
<1>4. CASE FlushThrows
  <2>1. rows = << >> /\ rows' = << >> /\ wallet' = wallet
    BY <1>4 DEF FlushThrows, Die, RowsInv
  <2> QED
    BY <2>1 DEF Balance, Books
<1>5. ~ Crash
  BY DEF Crash, TypeInv, TypeOK
<1>6. CASE \/ GetBlockCount \/ GetBlock \/ ReadBlockTx \/ BlocksDone
           \/ GetRawMempool \/ ReadMempoolTx \/ MempoolDone
           \/ FlushUpdate \/ Commit \/ FlushUtxo \/ Start \/ Submit \/ Mine
  <2>1. rows' = rows /\ wallet' = wallet
    BY <1>6 DEF GetBlockCount, GetBlock, ReadBlockTx, BlocksDone, GetRawMempool,
       ReadMempoolTx, MempoolDone, FlushUpdate, Commit, FlushUtxo, Start, Submit, Mine
  <2> QED
    BY <2>1 DEF Balance, Books
<1> QED
  BY <1>1, <1>2, <1>3, <1>4, <1>5, <1>6 DEF Next, Loop, Environment

LEMMA LedgerStep ==
    ASSUME MaxCrashes = 0, TransfersGiveChange, OwnStatementsAreOurs,
           TypeInv, RowsInv, [Next]_vars
    PROVE  Ledger!Next \/ Balance' = Balance
<1> USE DEF db, scan, memory, response
<1>1. CASE FlushInsert
  <2>1. /\ pc = "flush" /\ vect_tx_ # << >>
        /\ ResponseAction(Head(vect_tx_).tx) /\ wallet' = wallet
    BY <1>1 DEF FlushInsert
  <2>2. rows = << >>
    BY <2>1 DEF RowsInv
  <2>3. Head(vect_tx_).tx \in Txs
    <3>1. Head(vect_tx_) \in Entry
      BY <2>1 DEF TypeInv, TypeOK
    <3> QED
      BY <3>1 DEF Entry
  <2> QED
    BY <2>1, <2>2, <2>3, ResponseStep DEF TypeInv
<1>2. CASE ~ FlushInsert
  BY <1>2, StillBooks
<1> QED
  BY <1>1, <1>2

LEMMA EmptyBooks == \A k : QueryContract(<< >>, k) = 0
<1> SUFFICES ASSUME NEW k PROVE QueryContract(<< >>, k) = 0
  OBVIOUS
<1>1. << >> \in Seq(AnyRow(Names)) /\ Len(<< >>) = 0
  BY EmptySeq
<1>2. BaseRow(<< >>, k) \in 0 .. 0
  BY <1>1, BaseRowType
<1>3. QueryContract(<< >>, k) = QtyAt(<< >>, BaseRow(<< >>, k))
  BY <1>1, QueryContractIsBase
<1> QED
  BY <1>2, <1>3 DEF QtyAt

LEMMA LedgerInit == Init => Ledger!Init
<1> SUFFICES ASSUME Init PROVE \A k \in LedgerKeys : QueryContract(Books, k) = 0
  BY KeyIsAccount DEF Ledger!Init, Balance
<1>1. Books = << >>
  BY DEF Init, Books
<1> QED
  BY <1>1, EmptyBooks

\* scanblock implements the ledger as long as it does not die, for any number of
\* transactions and whatever RPC calls fail: no step changes a balance but one
\* issue, one transfer of what the sender holds or one adoption of what another
\* contract says (AssetCreation, SettlementToken, ResponseActionT4, FlushToDB).
THEOREM ImplementsLedger ==
    MaxCrashes = 0 /\ TransfersGiveChange /\ OwnStatementsAreOurs =>
        (Spec => LedgerSpec)
<1> SUFFICES ASSUME MaxCrashes = 0, TransfersGiveChange, OwnStatementsAreOurs
             PROVE  Spec => LedgerSpec
  OBVIOUS
<1>1. Init => Ledger!Init /\ TypeInv /\ RowsInv
  BY LedgerInit, TypeInit DEF Init, RowsInv
<1>2. TypeInv /\ RowsInv /\ [Next]_vars => TypeInv' /\ RowsInv' /\ [Ledger!Next]_Balance
  BY TypeStep, RowsStep, LedgerStep
<1> QED
  BY <1>1, <1>2, PTL DEF Spec, LedgerSpec, Ledger!Spec

-----------------------------------------------------------------------------
(* Holdings std::stoi does not read *)

\* A settlement under way has read both accounts it will write, and what it leaves
\* the sender can be read too; other rows of an own contract come alone.
ReadableInv ==
    \A i \in 1 .. Len(rows) :
        /\ rows[i].type \in {"A2", "T4"}
        /\ rows[i].contract \in MyAddresses =>
             /\ rows[i].type = "T4" => ~ QueryThrows(wallet, RowKey(rows[i]))
             /\ i < Len(rows) => rows[i].type = "T4" /\ rows[i].qty <= IntMax

LEMMA SettlementReads ==
    ASSUME TypeOK, wallet' = wallet, NEW t \in Txs, Op[t].code = "T2",
           Settles(t), ~ T2Throws(t), rows' = Settlement(t)
    PROVE  ReadableInv'
<1> DEFINE send == T2Key(t, T2Of[t].send)
           recv == T2Key(t, T2Of[t].recv)
           x == Op[t].qty1
           sender == Row(send, Sub64(QueryContract(wallet, send), x), "T4", NoTxid)
           receiver == Row(recv, Add64(QueryContract(wallet, recv), x), "T4", NoTxid)
<1>1. ~ QueryThrows(wallet, send) /\ ~ QueryThrows(wallet, recv)
  BY DEF T2Throws, Settles
<1>2. QueryContract(wallet, send) \in 0 .. IntMax
  BY <1>1, ReadsUpToIntMax DEF TypeOK
<1>3. Sub64(QueryContract(wallet, send), x) <= IntMax
  <2>1. x \in Nat /\ x <= QueryContract(wallet, send)
    BY TxTypes, WidthAssumption DEF Settles, Qty
  <2> QED
    BY <1>2, <2>1, WidthAssumption DEF Sub64
<1>4. rows' = <<sender, receiver>>
  BY DEF Settlement
<1>5. /\ RowKey(sender) = send /\ sender.type = "T4" /\ sender.qty <= IntMax
      /\ RowKey(receiver) = recv /\ receiver.type = "T4"
  BY <1>3 DEF RowKey, Row, T2Key
<1> HIDE DEF sender, receiver, send, recv
<1>6. Len(rows') = 2 /\ rows'[1] = sender /\ rows'[2] = receiver
  BY <1>4
<1> SUFFICES ASSUME NEW i \in 1 .. Len(rows')
             PROVE  /\ rows'[i].type \in {"A2", "T4"}
                    /\ rows'[i].type = "T4" => ~ QueryThrows(wallet', RowKey(rows'[i]))
                    /\ i < Len(rows') => rows'[i].type = "T4" /\ rows'[i].qty <= IntMax
  BY DEF ReadableInv
<1>7. i = 1 \/ i = 2
  BY <1>6
<1> QED
  BY <1>1, <1>5, <1>6, <1>7

LEMMA AdoptionReads ==
    ASSUME NEW t \in Txs, NEW mine \in SUBSET MyAddresses, rows' = T4Rows(t, mine),
           T4Contract(Vin[t]) \in Addresses \ MyAddresses
    PROVE  ReadableInv'
<1> DEFINE c == T4Contract(Vin[t])
           S == {row \in WalletRow : row.contract = c /\ row.type = "T4"}
           key(address) == [contract |-> c, asset |-> Op[t].asset, address |-> address]
           taken(address, qty) == IF address \notin mine THEN << >>
                                  ELSE Stored(Row(key(address), qty, "T4", t))
           roles == T4Roles(Vin[t], Vout[t])
<1>1. ASSUME NEW address, NEW qty \in Qty
      PROVE  taken(address, qty) \in Seq(S)
  <2>1. CASE address \notin mine
    BY <2>1, EmptySeq
  <2>2. CASE address \in mine
    <3> DEFINE row == Row(key(address), qty, "T4", t)
    <3>1. address \in Holders /\ c \in Holders
      BY <2>2, AddressAssumption DEF Holders
    <3>2. row \in WalletRow
      BY <3>1, TxTypes, RowType DEF RowTypes
    <3>3. row.contract = c /\ row.type = "T4"
      BY DEF Row
    <3>4. taken(address, qty) = Stored(row)
      BY <2>2
    <3>5. row \in S
      BY <3>2, <3>3
    <3>6. Stored(row) = <<row>> \/ Stored(row) = << >>
      BY <3>2, StoredType
    <3> HIDE DEF row, S
    <3>7. <<row>> \in Seq(S) /\ << >> \in Seq(S)
      BY <3>5
    <3> HIDE DEF taken
    <3> QED
      BY <3>4, <3>6, <3>7
  <2> QED
    BY <2>1, <2>2
<1>2. rows' = taken(roles.send, Op[t].qty1) \o taken(roles.recv, Op[t].qty2)
  BY DEF T4Rows
<1>3. taken(roles.send, Op[t].qty1) \in Seq(S) /\ taken(roles.recv, Op[t].qty2) \in Seq(S)
  <2> HIDE DEF taken, S
  <2> QED
    BY <1>1, TxTypes
<1>4. rows' \in Seq(S)
  <2> HIDE DEF taken, S
  <2> QED
    BY <1>2, <1>3, ConcatProperties
<1>5. ASSUME NEW i \in 1 .. Len(rows') PROVE rows'[i] \in S
  <2> HIDE DEF S
  <2> QED
    BY <1>4, ElementOfSeq
<1> QED
  BY <1>5 DEF ReadableInv

LEMMA ReadableStep ==
    ASSUME OwnStatementsAreOurs, TypeInv, RowsInv, ReadableInv, [Next]_vars
    PROVE  ReadableInv'
<1> USE DEF db, scan, memory, response
<1>0. Len(<< >>) = 0
  OBVIOUS
<1>1. CASE FlushInsert
  <2> DEFINE t == Head(vect_tx_).tx
  <2>1. wallet' = wallet /\ ResponseAction(t)
    BY <1>1 DEF FlushInsert
  <2>2. rows = << >>
    BY <1>1 DEF FlushInsert, RowsInv
  <2>3. t \in Txs
    <3>1. Head(vect_tx_) \in Entry
      BY <1>1 DEF FlushInsert, TypeInv, TypeOK
    <3> QED
      BY <3>1 DEF Entry
  <2> HIDE DEF t
  <2>4. rows' = << >> => ReadableInv'
    BY <1>0 DEF ReadableInv
  <2>5. PICK contract \in HandledBy(t) :
           \/ Op[t].code = "T2" /\ ResponseActionT2(t)
           \/ Op[t].code = "C1" /\ contract # NoAddress /\ ResponseActionC1(t)
           \/ Op[t].code = "A1" /\ contract # NoAddress /\ ResponseActionA1(t, contract)
           \/ Op[t].code = "T4" /\ contract # NoAddress /\ ResponseActionT4(t)
           \/ Ignore
    BY <2>1 DEF ResponseAction
  <2>6. CASE Op[t].code = "T2" /\ ResponseActionT2(t) /\ ~ Ignore
    BY <2>1, <2>3, <2>6, SettlementReads DEF ResponseActionT2, Respond, TypeInv
  <2>7. CASE ResponseActionA1(t, contract)
    <3>1. PICK row : rows' = Stored(row) /\ row.type = "A2"
      BY <2>7 DEF ResponseActionA1, Respond, Row
    <3>2. CASE rows' = <<row>>
      <4>1. Len(rows') = 1 /\ rows'[1] = row
        BY <3>2
      <4> QED
        BY <3>1, <4>1 DEF ReadableInv
    <3> QED
      BY <2>4, <3>1, <3>2 DEF Stored
  <2>8. CASE Op[t].code = "T4" /\ contract # NoAddress /\ ResponseActionT4(t) /\ ~ Ignore
    <3>1. T4Contract(Vin[t]) \in Addresses \ MyAddresses
      BY <2>3, <2>8, HandledT4IsForeign
    <3>2. PICK mine \in SUBSET MyAddresses : rows' = T4Rows(t, mine)
      BY <2>8 DEF ResponseActionT4, Respond
    <3> QED
      BY <2>3, <3>1, <3>2, AdoptionReads
  <2>9. CASE ResponseActionC1(t) \/ Ignore
    BY <2>2, <2>4, <2>9 DEF ResponseActionC1, Respond, Ignore
  <2> QED
    BY <2>5, <2>6, <2>7, <2>8, <2>9
<1>2. CASE Reply
  <2>1. PICK id : rows' = Named(rows, id)
    BY <1>2 DEF Reply, Named
  <2>2. wallet' = wallet
    BY <1>2 DEF Reply
  <2>3. Len(rows') = Len(rows)
    BY <2>1 DEF Named, TypeInv, TypeOK
  <2>4. ASSUME NEW i \in 1 .. Len(rows)
        PROVE  /\ rows'[i].type = rows[i].type /\ rows'[i].contract = rows[i].contract
               /\ rows'[i].qty = rows[i].qty /\ RowKey(rows'[i]) = RowKey(rows[i])
    <3>1. rows[i] \in WalletRow
      BY ElementOfSeq DEF TypeInv, TypeOK
    <3>2. rows'[i] = [rows[i] EXCEPT !.txid = id]
      BY <2>1 DEF Named
    <3> QED
      BY <3>1, <3>2 DEF WalletRow, RowKey
  <2> QED
    BY <2>2, <2>3, <2>4 DEF ReadableInv
<1>3. CASE InsertRow
  <2>1. /\ rows \in Seq(WalletRow) /\ rows # << >> /\ rows' = Tail(rows)
        /\ wallet' = Append(wallet, Head(rows)) /\ wallet \in Seq(WalletRow)
    BY <1>3 DEF InsertRow, TypeInv, TypeOK
  <2>2. /\ Len(rows) \in Nat /\ 1 \in 1 .. Len(rows) /\ Head(rows) = rows[1]
        /\ Head(rows) \in WalletRow /\ Len(rows') = Len(rows) - 1
        /\ \A i \in 1 .. Len(rows') : rows'[i] = rows[i + 1] /\ i + 1 \in 1 .. Len(rows)
    BY <2>1
  <2>3. wallet \in Seq(AnyRow(Names)) /\ Head(rows) \in AnyRow(Names)
    BY <2>1, <2>2, WalletRowsAreRows DEF AnyRow, Names, WalletRow
  <2> SUFFICES ASSUME NEW i \in 1 .. Len(rows'), rows'[i].contract \in MyAddresses,
                      rows'[i].type = "T4"
               PROVE  ~ QueryThrows(wallet', RowKey(rows'[i]))
    BY <2>2 DEF ReadableInv
  <2> DEFINE k == RowKey(rows'[i])
  <2>4. ~ QueryThrows(wallet, k) /\ k.contract \in MyAddresses
    BY <2>2 DEF ReadableInv, RowKey
  <2>5. CASE /\ k.contract = Head(rows).contract /\ k.asset = Head(rows).asset
             /\ k.address = Head(rows).address
    <3>1. Head(rows).type = "T4" /\ Head(rows).qty <= IntMax
      <4>1. 1 < Len(rows) /\ rows[1].contract \in MyAddresses
        BY <2>2, <2>4, <2>5
      <4> QED
        BY <2>2, <4>1 DEF ReadableInv
    <3>2. Head(rows).qty \in Nat
      BY <2>2, WidthAssumption DEF WalletRow, Qty
    <3>3. QueryThrows(Append(wallet, Head(rows)), k) <=> Head(rows).qty > IntMax
      <4> HIDE DEF k
      <4> QED
        BY <2>3, <2>5, <3>1, SettlementRowReads
    <3> QED
      BY <2>1, <3>1, <3>2, <3>3, WidthAssumption
  <2>6. CASE ~ (/\ k.contract = Head(rows).contract /\ k.asset = Head(rows).asset
                /\ k.address = Head(rows).address)
    <3>1. QueryThrows(Append(wallet, Head(rows)), k) <=> QueryThrows(wallet, k)
      <4> HIDE DEF k
      <4> QED
        BY <2>3, <2>6, OtherAccountsRead
    <3> QED
      BY <2>1, <2>4, <3>1
  <2> QED
    BY <2>5, <2>6
<1>4. CASE UNCHANGED vars
  BY <1>4 DEF vars, ReadableInv
<1>5. CASE FlushThrows \/ Crash
  BY <1>0, <1>5 DEF FlushThrows, Crash, Die, ReadableInv
<1>6. CASE \/ GetBlockCount \/ GetBlock \/ ReadBlockTx \/ BlocksDone
           \/ GetRawMempool \/ ReadMempoolTx \/ MempoolDone
           \/ FlushUpdate \/ Commit \/ FlushUtxo \/ Start \/ Submit \/ Mine
  <2>1. rows' = rows /\ wallet' = wallet
    BY <1>6 DEF GetBlockCount, GetBlock, ReadBlockTx, BlocksDone, GetRawMempool,
       ReadMempoolTx, MempoolDone, FlushUpdate, Commit, FlushUtxo, Start, Submit, Mine
  <2> QED
    BY <2>1 DEF ReadableInv
<1> QED
  BY <1>1, <1>2, <1>3, <1>4, <1>5, <1>6 DEF Next, Loop, Environment

\* The row that is written next leaves an account that cannot be read unreadable.
LEMMA InsertRowStaysUnread ==
    ASSUME TypeInv, ReadableInv, InsertRow, NEW k, k.contract \in MyAddresses,
           k = [contract |-> k.contract, asset |-> k.asset, address |-> k.address],
           QueryThrows(wallet, k)
    PROVE  QueryThrows(wallet', k)
<1>1. /\ rows \in Seq(WalletRow) /\ rows # << >> /\ wallet \in Seq(WalletRow)
      /\ wallet' = Append(wallet, Head(rows))
  BY DEF InsertRow, TypeInv, TypeOK
<1>2. 1 \in 1 .. Len(rows) /\ Head(rows) = rows[1] /\ Head(rows) \in WalletRow
  BY <1>1
<1>3. wallet \in Seq(AnyRow(Names)) /\ Head(rows) \in AnyRow(Names)
  BY <1>1, <1>2, WalletRowsAreRows DEF AnyRow, Names, WalletRow
<1>4. CASE RowKey(Head(rows)) # k
  <2>1. k.contract # Head(rows).contract \/ k.asset # Head(rows).asset
        \/ k.address # Head(rows).address
    BY <1>4 DEF RowKey
  <2> QED
    BY <1>1, <1>3, <2>1, OtherAccountsRead
<1>5. CASE RowKey(Head(rows)) = k
  <2>1. Head(rows).contract = k.contract
    BY <1>5 DEF RowKey
  <2>2. Head(rows).type \in {"A2", "T4"} /\ Head(rows).type # "T4"
    BY <1>2, <1>5, <2>1 DEF ReadableInv
  <2> QED
    BY <1>1, <1>3, <2>2, IssueRowStaysUnread
<1> QED
  BY <1>4, <1>5

LEMMA StuckStep ==
    ASSUME ~ RpcMayFail, TypeInv, IInv, ReadableInv, [Next]_vars, NEW t \in Txs, Stuck(t)
    PROVE  Stuck(t)'
<1> USE DEF node, db, scan, memory, response
<1> DEFINE k == T2Key(t, T2Of[t].send)
<1>0. /\ Op[t].code = "T2" /\ T2Of[t].contract \in MyAddresses /\ QueryThrows(wallet, k)
      /\ txinfo[t] = NotRecorded /\ vect_insert[t] = NoStatement /\ T2Throws(t)
  BY DEF Stuck, T2Throws
<1>1. SUFFICES /\ QueryThrows(wallet', k)
               /\ txinfo'[t] = NotRecorded /\ vect_insert'[t] = NoStatement
  BY <1>0 DEF Stuck
<1>2. NoInserts[t] = NoStatement
  BY DEF NoInserts
<1>3. CASE FlushUpdate \/ FlushInsert
  <2> DEFINE e == Head(vect_tx_)
  <2>1. wallet' = wallet /\ txinfo' = txinfo
    BY <1>3 DEF FlushUpdate, FlushInsert
  <2>2. vect_tx_ # << >> /\ e = vect_tx_[1] /\ 1 \in 1 .. Len(vect_tx_) /\ vect_tx_ \in Seq(Entry)
    BY <1>3 DEF FlushUpdate, FlushInsert, TypeInv, TypeOK
  <2>3. e.tx # t
    <3> SUFFICES ASSUME e.tx = t PROVE FALSE
      OBVIOUS
    <3>1. CASE FlushInsert
      BY <1>0, <3>1 DEF FlushInsert, ResponseAction, ResponseActionT2
    <3>2. CASE FlushUpdate
      <4>1. e.height # InMempool /\ t \in vect_mempool_tx_
        BY <3>2 DEF FlushUpdate, IsUpdate
      <4>2. PICK i \in 1 .. Len(vect_tx_) : vect_tx_[i] = [tx |-> t, height |-> InMempool]
        BY <1>0, <4>1 DEF IInv, SeenInv, NotRecorded, InMempool, NoStatement
      <4>3. i = 1
        BY <2>2, <4>2 DEF IInv, QueueInv
      <4> QED
        BY <2>2, <4>1, <4>2, <4>3
    <3> QED
      BY <1>3, <3>1, <3>2
  <2>4. vect_insert'[t] = vect_insert[t]
    BY <1>3, <2>3 DEF FlushUpdate, FlushInsert, TypeInv, TypeOK
  <2> QED
    BY <1>0, <2>1, <2>4
<1>4. CASE InsertRow
  <2>1. k.contract \in MyAddresses
        /\ k = [contract |-> k.contract, asset |-> k.asset, address |-> k.address]
    BY <1>0 DEF T2Key
  <2>2. QueryThrows(wallet', k)
    <3> HIDE DEF k
    <3> QED
      BY <1>0, <1>4, <2>1, InsertRowStaysUnread
  <2> QED
    BY <1>0, <1>4, <2>2 DEF InsertRow
<1>5. CASE Commit
  <2>1. txinfo'[t] = Executed(vect_insert[t], txinfo[t]) /\ wallet' = wallet
        /\ vect_insert' = NoInserts
    BY <1>5 DEF Commit
  <2>2. Executed(vect_insert[t], txinfo[t]) = txinfo[t]
    BY <1>0 DEF Executed, NoStatement
  <2> QED
    BY <1>0, <1>2, <2>1, <2>2
<1>6. CASE FlushThrows \/ Crash
  BY <1>0, <1>2, <1>6 DEF FlushThrows, Crash, Die
<1>7. CASE UNCHANGED vars
  BY <1>0, <1>7 DEF vars
<1>8. CASE ReadBlockTx \/ ReadMempoolTx
  BY <1>0, <1>8 DEF ReadBlockTx, ReadMempoolTx, AddTransaction
<1>9. CASE \/ GetBlockCount \/ GetBlock \/ BlocksDone \/ GetRawMempool \/ MempoolDone
           \/ Reply \/ FlushUtxo \/ Start \/ Submit \/ Mine
  <2>1. txinfo' = txinfo /\ vect_insert' = vect_insert /\ wallet' = wallet
    BY <1>9 DEF GetBlockCount, GetBlock, BlocksDone, GetRawMempool, MempoolDone, Reply,
                FlushUtxo, Start, Submit, Mine
  <2> QED
    BY <1>0, <2>1
<1> QED
  BY <1>3, <1>4, <1>5, <1>6, <1>7, <1>8, <1>9 DEF Next, Loop, Environment

\* With every RPC call answered, and however often the process is started again: a
\* transfer whose sender's holdings std::stoi does not read stays unrecorded for
\* good (GetDataAsJson, ResponseActionT2).
THEOREM OverflowStays ==
    ~ RpcMayFail /\ OwnStatementsAreOurs => (Spec => OverflowIsForGood)
<1> SUFFICES ASSUME ~ RpcMayFail, OwnStatementsAreOurs PROVE Spec => OverflowIsForGood
  OBVIOUS
<1> DEFINE Kept == \A t \in Txs : Stuck(t) => Stuck(t)'
<1>1. Init => RowsInv /\ ReadableInv
  <2>1. Init => rows = << >> /\ Len(<< >>) = 0
    BY DEF Init
  <2> QED
    BY <2>1 DEF RowsInv, ReadableInv
<1>2. TypeInv /\ RowsInv /\ ReadableInv /\ [Next]_vars => RowsInv' /\ ReadableInv'
  BY RowsStep, ReadableStep
<1>3. TypeInv /\ IInv /\ ReadableInv /\ [Next]_vars => [Kept]_vars
  BY StuckStep
<1> HIDE DEF Kept
<1>4. Spec => [][Kept]_vars
  BY <1>1, <1>2, <1>3, InvCorrect, PTL DEF Spec
<1> QED
  BY <1>4, PTL DEF OverflowIsForGood, Kept

-----------------------------------------------------------------------------
(* What is held of an asset and what was issued of it *)

Acc(c, a, x) == [contract |-> c, asset |-> a, address |-> x]
Held(w, c, a) == Worth([x \in Holders |-> QueryContract(w, Acc(c, a, x))], Holders)

IssueRows(w, c, a) ==
    {i \in 1 .. Len(w) : w[i].type = "A2" /\ w[i].contract = c /\ w[i].asset = a}
Issued(w, c, a) == Worth([i \in 1 .. Len(w) |-> w[i].qty], IssueRows(w, c, a))

FiniteHolders == IsFiniteSet(Holders)

LEMMA HeldIsWorth ==
    ASSUME FiniteHolders, NEW w, NEW c, NEW a
    PROVE  HeldIn(w, c, a) = Held(w, c, a)
<1> DEFINE f == [x \in Holders |-> QueryContract(w, Acc(c, a, x))]
           Adds(iter) == iter = [s \in SUBSET Holders |->
                                   IF s = {} THEN 0
                                   ELSE QueryContract(w, Acc(c, a, Pick(s)))
                                        + iter[s \ {Pick(s)}]]
           g == CHOOSE iter : Adds(iter)
<1>1. HeldIn(w, c, a) = g[Holders]
  BY DEF HeldIn, MapThenSumSet, MapThenFoldSet, Pick, Acc
<1>2. \A s \in SUBSET Holders : s # {} =>
         f[Pick(s)] = QueryContract(w, Acc(c, a, Pick(s)))
  BY PickIsIn
<1>3. \A iter : Adds(iter) <=> IsSum(iter, f, Holders)
  <2> HIDE DEF f
  <2> QED
    BY <1>2 DEF IsSum
<1>4. \E iter : Adds(iter)
  BY <1>3, SumExists DEF FiniteHolders
<1>5. IsSum(g, f, Holders)
  <2>1. Adds(g)
    <3> HIDE DEF Adds
    <3> QED
      BY <1>4
  <2> QED
    BY <1>3, <2>1
<1>6. PICK h : IsSum(h, f, Holders) /\ Worth(f, Holders) = h[Holders]
  BY WorthIsSum DEF FiniteHolders
<1>7. g[Holders] = h[Holders]
  <2> HIDE DEF g, f
  <2> QED
    BY <1>5, <1>6, SumsAgree DEF FiniteHolders
<1> QED
  BY <1>1, <1>6, <1>7 DEF Held

LEMMA IssueRowsFinite ==
    ASSUME NEW w \in Seq(WalletRow), NEW c, NEW a
    PROVE  IssueRows(w, c, a) \in SUBSET (1 .. Len(w)) /\ IsFiniteSet(IssueRows(w, c, a))
<1>1. IsFiniteSet(1 .. Len(w))
  BY FS_Interval
<1>2. IssueRows(w, c, a) \in SUBSET (1 .. Len(w))
  BY DEF IssueRows
<1> QED
  BY <1>1, <1>2, FS_Subset

LEMMA IssuedIsWorth ==
    ASSUME wallet \in Seq(WalletRow), NEW c, NEW a
    PROVE  IssuedOf(c, a) = Issued(wallet, c, a)
<1> DEFINE R == IssueRows(wallet, c, a)
           f == [i \in 1 .. Len(wallet) |-> wallet[i].qty]
           Adds(iter) == iter = [s \in SUBSET R |->
                                   IF s = {} THEN 0
                                   ELSE wallet[Pick(s)].qty + iter[s \ {Pick(s)}]]
           g == CHOOSE iter : Adds(iter)
<1>0. IsFiniteSet(R) /\ R \in SUBSET (1 .. Len(wallet))
  BY IssueRowsFinite
<1>1. IssuedOf(c, a) = g[R]
  BY DEF IssuedOf, MapThenSumSet, MapThenFoldSet, Pick, IssueRows
<1> HIDE DEF R
<1>2. \A s \in SUBSET R : s # {} => f[Pick(s)] = wallet[Pick(s)].qty
  BY <1>0, PickIsIn
<1>3. \A iter : Adds(iter) <=> IsSum(iter, f, R)
  <2> HIDE DEF f
  <2> QED
    BY <1>2 DEF IsSum
<1>4. \E iter : Adds(iter)
  BY <1>0, <1>3, SumExists
<1>5. IsSum(g, f, R)
  <2>1. Adds(g)
    <3> HIDE DEF Adds
    <3> QED
      BY <1>4
  <2> QED
    BY <1>3, <2>1
<1>6. PICK h : IsSum(h, f, R) /\ Worth(f, R) = h[R]
  BY <1>0, WorthIsSum
<1>7. g[R] = h[R]
  <2> HIDE DEF g, f
  <2> QED
    BY <1>0, <1>5, <1>6, SumsAgree
<1> QED
  BY <1>1, <1>6, <1>7 DEF Issued, R

-----------------------------------------------------------------------------
(* What one more row changes *)

LEMMA RowsIssued ==
    ASSUME NEW w \in Seq(WalletRow), NEW i \in 1 .. Len(w)
    PROVE  w[i].qty \in Nat
<1>1. w[i] \in WalletRow
  BY ElementOfSeq
<1> QED
  BY <1>1, WidthAssumption DEF WalletRow, Qty

LEMMA HeldType ==
    ASSUME FiniteHolders, NEW w \in Seq(WalletRow), NEW c, NEW a
    PROVE  Held(w, c, a) \in Nat
<1> DEFINE f == [x \in Holders |-> QueryContract(w, Acc(c, a, x))]
<1>1. \A x \in Holders : f[x] \in Nat
  BY WalletRowsAreRows, QueryContractType, WidthAssumption DEF Qty
<1> HIDE DEF f
<1>2. Worth(f, Holders) \in Nat
  BY <1>1, WorthIsNat DEF FiniteHolders
<1> QED
  BY <1>2 DEF Held, f

LEMMA IssuedType ==
    ASSUME NEW w \in Seq(WalletRow), NEW c, NEW a
    PROVE  Issued(w, c, a) \in Nat
<1> DEFINE f == [i \in 1 .. Len(w) |-> w[i].qty]
<1>1. \A i \in IssueRows(w, c, a) : f[i] \in Nat
  BY RowsIssued, IssueRowsFinite
<1> HIDE DEF f
<1>2. Worth(f, IssueRows(w, c, a)) \in Nat
  BY <1>1, IssueRowsFinite, WorthIsNat
<1> QED
  BY <1>2 DEF Issued, f

\* A row changes what is held of its own asset, by what it changes its account.
LEMMA RowMovesHeld ==
    ASSUME FiniteHolders, NEW w \in Seq(WalletRow), NEW row \in WalletRow, NEW c, NEW a
    PROVE  Held(Append(w, row), c, a) =
             IF row.contract = c /\ row.asset = a
             THEN Held(w, c, a) - QueryContract(w, Acc(c, a, row.address))
                  + QueryContract(Append(w, row), Acc(c, a, row.address))
             ELSE Held(w, c, a)
<1> DEFINE v == Append(w, row)
           f == [x \in Holders |-> QueryContract(w, Acc(c, a, x))]
           e == [x \in Holders |-> QueryContract(v, Acc(c, a, x))]
<1>1. /\ v \in Seq(WalletRow)
      /\ w \in Seq(AnyRow(Names)) /\ row \in AnyRow(Names)
  <2>1. v \in Seq(WalletRow)
    OBVIOUS
  <2>2. w \in Seq(AnyRow(Names)) /\ row \in AnyRow(Names)
    BY WalletRowsAreRows DEF AnyRow, Names, WalletRow
  <2> QED
    BY <2>1, <2>2
<1>2. Numeric(f, Holders) /\ Numeric(e, Holders)
  <2>1. \A u \in Seq(WalletRow) : \A k : QueryContract(u, k) \in Int
    BY WalletRowsAreRows, QueryContractType, WidthAssumption DEF Qty
  <2> HIDE DEF v
  <2> QED
    BY <1>1, <2>1 DEF Numeric
<1>3. ASSUME NEW x \in Holders, row.contract # c \/ row.asset # a \/ row.address # x
      PROVE  e[x] = f[x]
  <2>1. LET k == Acc(c, a, x)
        IN  k.contract # row.contract \/ k.asset # row.asset \/ k.address # row.address
    BY <1>3 DEF Acc
  <2>2. QueryContract(v, Acc(c, a, x)) = QueryContract(w, Acc(c, a, x))
    BY <1>1, <2>1, OtherAccountsKeep
  <2> QED
    BY <2>2
<1>4. row.address \in Holders
  BY DEF WalletRow
<1>5. e[row.address] = QueryContract(v, Acc(c, a, row.address))
      /\ f[row.address] = QueryContract(w, Acc(c, a, row.address))
  BY <1>4
<1> HIDE DEF e, f
<1>6. CASE ~ (row.contract = c /\ row.asset = a)
  <2>1. Worth(e, Holders) = Worth(f, Holders)
    BY <1>3, <1>6, WorthAgrees DEF FiniteHolders
  <2> QED
    BY <1>6, <2>1 DEF Held, e, f
<1>7. CASE row.contract = c /\ row.asset = a
  <2> DEFINE Rest == Holders \ {row.address}
  <2>1. IsFiniteSet(Rest) /\ Numeric(f, Rest)
    BY <1>2, FS_RemoveElement DEF FiniteHolders, Numeric
  <2>2. Worth(e, Rest) = Worth(f, Rest)
    BY <1>3, <2>1, WorthAgrees
  <2>3. Worth(f, Rest) \in Int
    BY <2>1, WorthType
  <2>4. Worth(f, Holders) = f[row.address] + Worth(f, Rest)
    BY <1>2, <1>4, WorthSplits DEF FiniteHolders
  <2>5. Worth(e, Holders) = e[row.address] + Worth(e, Rest)
    BY <1>2, <1>4, WorthSplits DEF FiniteHolders
  <2>6. f[row.address] \in Int /\ e[row.address] \in Int
    BY <1>2, <1>4 DEF Numeric
  <2>7. Worth(e, Holders) = Worth(f, Holders) - f[row.address] + e[row.address]
    BY <2>2, <2>3, <2>4, <2>5, <2>6
  <2>8. Held(w, c, a) = Worth(f, Holders) /\ Held(v, c, a) = Worth(e, Holders)
    BY DEF Held, e, f
  <2> HIDE DEF v
  <2>9. Held(v, c, a) = Held(w, c, a) - QueryContract(w, Acc(c, a, row.address))
                        + QueryContract(v, Acc(c, a, row.address))
    BY <1>5, <2>7, <2>8
  <2> QED
    BY <1>7, <2>9 DEF v
<1> QED
  BY <1>6, <1>7

\* Only an A2 row changes what was issued, and only of its own asset.
LEMMA RowIssues ==
    ASSUME NEW w \in Seq(WalletRow), NEW row \in WalletRow, NEW c, NEW a
    PROVE  Issued(Append(w, row), c, a) =
             IF row.type = "A2" /\ row.contract = c /\ row.asset = a
             THEN Issued(w, c, a) + row.qty ELSE Issued(w, c, a)
<1> DEFINE v == Append(w, row)
           n == Len(w)
           R == IssueRows(w, c, a)
           f == [i \in 1 .. Len(w) |-> w[i].qty]
           e == [i \in 1 .. Len(v) |-> v[i].qty]
<1>1. /\ v \in Seq(WalletRow) /\ Len(v) = n + 1 /\ n \in Nat /\ v[n + 1] = row
      /\ \A i \in 1 .. n : v[i] = w[i]
  OBVIOUS
<1>2. IsFiniteSet(R) /\ R \in SUBSET (1 .. n)
  BY IssueRowsFinite
<1>3. IssueRows(v, c, a) = IF row.type = "A2" /\ row.contract = c /\ row.asset = a
                           THEN R \cup {n + 1} ELSE R
  BY <1>1 DEF IssueRows
<1>4. \A i \in R : e[i] = f[i]
  BY <1>1, <1>2
<1>5. e[n + 1] = row.qty /\ row.qty \in Nat
  BY <1>1, WidthAssumption DEF WalletRow, Qty
<1>6. \A i \in R \cup {n + 1} : e[i] \in Int
  BY <1>1, <1>2, <1>5, RowsIssued
<1>7. Issued(w, c, a) = Worth(f, R) /\ Issued(v, c, a) = Worth(e, IssueRows(v, c, a))
  BY DEF Issued
<1>8. n + 1 \notin R
  BY <1>1, <1>2
<1>9. Issued(w, c, a) \in Nat
  BY IssuedType
<1> HIDE DEF v, n, R, f, e
<1>10. Worth(e, R) = Worth(f, R)
  BY <1>2, <1>4, WorthAgrees
<1>11. CASE row.type = "A2" /\ row.contract = c /\ row.asset = a
  <2>1. Worth(e, R \cup {n + 1}) = e[n + 1] + Worth(e, R)
    BY <1>2, <1>6, <1>8, WorthAdds DEF Numeric
  <2> QED
    BY <1>3, <1>5, <1>7, <1>9, <1>10, <1>11, <2>1 DEF v
<1>12. CASE ~ (row.type = "A2" /\ row.contract = c /\ row.asset = a)
  BY <1>3, <1>7, <1>10, <1>12 DEF v
<1> QED
  BY <1>11, <1>12

-----------------------------------------------------------------------------
(* No step of the books mints *)

Minted(w) == \E c \in MyAddresses, a \in Assets : Held(w, c, a) > Issued(w, c, a)

\* A row that mints nothing: an issue, a settlement that takes away, or a row of
\* somebody else's contract.
Harmless(w, row) ==
    row.contract \in MyAddresses =>
        \/ row.type = "A2"
        \/ row.type = "T4" /\ row.qty <= QueryContract(w, RowKey(row))

LEMMA HarmlessRow ==
    ASSUME FiniteHolders, NEW w \in Seq(WalletRow), NEW row \in WalletRow,
           Harmless(w, row), ~ Minted(w)
    PROVE  ~ Minted(Append(w, row))
<1> SUFFICES ASSUME NEW c \in MyAddresses, NEW a \in Assets
             PROVE  Held(Append(w, row), c, a) <= Issued(Append(w, row), c, a)
  <2>1. Append(w, row) \in Seq(WalletRow)
    OBVIOUS
  <2>2. \A c \in MyAddresses, a \in Assets :
          Held(Append(w, row), c, a) \in Nat /\ Issued(Append(w, row), c, a) \in Nat
    BY <2>1, HeldType, IssuedType
  <2> QED
    BY <2>2 DEF Minted
<1> DEFINE v == Append(w, row)
           k == Acc(c, a, row.address)
<1>1. v \in Seq(WalletRow)
  OBVIOUS
<1>2. w \in Seq(AnyRow(Names)) /\ row \in AnyRow(Names)
  BY WalletRowsAreRows DEF AnyRow, Names, WalletRow
<1>3. Held(w, c, a) \in Nat /\ Issued(w, c, a) \in Nat /\ Held(w, c, a) <= Issued(w, c, a)
  BY HeldType, IssuedType DEF Minted
<1>4. row.qty \in Nat
  BY WidthAssumption DEF WalletRow, Qty
<1>5. QueryContract(w, k) \in Nat /\ QueryContract(v, k) \in Nat
  <2>1. \A u \in Seq(WalletRow) : QueryContract(u, k) \in Nat
    BY WalletRowsAreRows, QueryContractType, WidthAssumption DEF Qty
  <2> HIDE DEF v, k
  <2> QED
    BY <1>1, <2>1
<1>6. CASE ~ (row.contract = c /\ row.asset = a)
  BY <1>3, <1>6, RowMovesHeld, RowIssues
<1>7. CASE row.contract = c /\ row.asset = a
  <2>1. k = [contract |-> row.contract, asset |-> row.asset, address |-> row.address]
        /\ k = RowKey(row)
    BY <1>7 DEF Acc, RowKey
  <2>2. Held(v, c, a) = Held(w, c, a) - QueryContract(w, k) + QueryContract(v, k)
    BY <1>7, RowMovesHeld
  <2>3. Issued(v, c, a) = IF row.type = "A2" THEN Issued(w, c, a) + row.qty ELSE Issued(w, c, a)
    BY <1>7, RowIssues
  <2>4. row.type = "A2" => QueryContract(v, k) <= QueryContract(w, k) + row.qty
    <3> SUFFICES ASSUME row.type = "A2"
                 PROVE  QueryContract(v, k) <= QueryContract(w, k) + row.qty
      OBVIOUS
    <3> HIDE DEF k
    <3>1. QueryContract(v, k)
            = IF BaseRow(w, k) = 0 THEN row.qty ELSE QueryContract(w, k)
      BY <1>2, <2>1, IssueRowCounts
    <3> HIDE DEF v
    <3> QED
      BY <1>4, <1>5, <3>1
  <2>5. row.type = "T4" => QueryContract(v, k) = row.qty
    <3> HIDE DEF k
    <3> QED
      BY <1>2, <2>1, SettlementRowCounts
  <2>6. row.type = "A2" \/ (row.type = "T4" /\ row.qty <= QueryContract(w, k))
    BY <1>7, <2>1 DEF Harmless
  <2> HIDE DEF v, k
  <2>7. Held(v, c, a) <= Issued(v, c, a)
    BY <1>3, <1>4, <1>5, <2>2, <2>3, <2>4, <2>5, <2>6
  <2> QED
    BY <2>7 DEF v
<1> QED
  BY <1>6, <1>7

\* Two rows that move an amount from one account to another.
LEMMA MovingRows ==
    ASSUME FiniteHolders, NEW w \in Seq(WalletRow), NEW s \in WalletRow, NEW r \in WalletRow,
           s.type = "T4", r.type = "T4", RowKey(s) # RowKey(r),
           s.contract = r.contract, s.asset = r.asset,
           s.qty + r.qty = QueryContract(w, RowKey(s)) + QueryContract(w, RowKey(r)),
           ~ Minted(w)
    PROVE  ~ Minted(Append(Append(w, s), r))
<1> DEFINE u == Append(w, s)
           v == Append(u, r)
<1>1. u \in Seq(WalletRow) /\ v \in Seq(WalletRow)
  OBVIOUS
<1>2. /\ w \in Seq(AnyRow(Names)) /\ u \in Seq(AnyRow(Names))
      /\ s \in AnyRow(Names) /\ r \in AnyRow(Names)
  <2> HIDE DEF u
  <2>1. w \in Seq(AnyRow(Names)) /\ u \in Seq(AnyRow(Names))
    BY <1>1, WalletRowsAreRows
  <2>2. s \in AnyRow(Names) /\ r \in AnyRow(Names)
    BY DEF AnyRow, Names, WalletRow
  <2> QED
    BY <2>1, <2>2
<1>3. s.qty \in Nat /\ r.qty \in Nat
  BY WidthAssumption DEF WalletRow, Qty
<1>4. s.address # r.address
  BY DEF RowKey
<1>5. QueryContract(u, RowKey(s)) = s.qty
  BY <1>2, SettlementRowCounts DEF RowKey
<1>6. QueryContract(v, RowKey(r)) = r.qty
  <2> HIDE DEF u
  <2> QED
    BY <1>2, SettlementRowCounts DEF RowKey
<1>7. QueryContract(u, RowKey(r)) = QueryContract(w, RowKey(r))
  <2>1. RowKey(r).address # s.address
    BY <1>4 DEF RowKey
  <2> QED
    BY <1>2, <2>1, OtherAccountsKeep
<1>8. QueryContract(w, RowKey(s)) \in Nat /\ QueryContract(w, RowKey(r)) \in Nat
  BY <1>2, QueryContractType, WidthAssumption DEF Qty
<1> HIDE DEF u, v
<1>9. ASSUME NEW c \in MyAddresses, NEW a \in Assets
      PROVE  Held(v, c, a) <= Issued(v, c, a)
  <2>1. Held(w, c, a) \in Nat /\ Issued(w, c, a) \in Nat /\ Held(w, c, a) <= Issued(w, c, a)
    BY HeldType, IssuedType DEF Minted
  <2>2. Issued(v, c, a) = Issued(w, c, a)
    <3>1. Issued(u, c, a) = Issued(w, c, a)
      BY RowIssues DEF u
    <3>2. Issued(v, c, a) = Issued(u, c, a)
      BY <1>1, RowIssues DEF v
    <3> QED
      BY <3>1, <3>2
  <2>3. Held(u, c, a) =
             IF s.contract = c /\ s.asset = a
             THEN Held(w, c, a) - QueryContract(w, Acc(c, a, s.address))
                  + QueryContract(u, Acc(c, a, s.address))
             ELSE Held(w, c, a)
    BY RowMovesHeld DEF u
  <2>4. Held(v, c, a) =
             IF r.contract = c /\ r.asset = a
             THEN Held(u, c, a) - QueryContract(u, Acc(c, a, r.address))
                  + QueryContract(v, Acc(c, a, r.address))
             ELSE Held(u, c, a)
    BY <1>1, RowMovesHeld DEF v
  <2>5. CASE s.contract = c /\ s.asset = a
    <3>1. Acc(c, a, s.address) = RowKey(s) /\ Acc(c, a, r.address) = RowKey(r)
      BY <2>5 DEF Acc, RowKey
    <3>2. Held(u, c, a) = Held(w, c, a) - QueryContract(w, RowKey(s)) + s.qty
      BY <1>5, <2>3, <2>5, <3>1
    <3>3. Held(v, c, a) = Held(u, c, a) - QueryContract(w, RowKey(r)) + r.qty
      BY <1>6, <1>7, <2>4, <2>5, <3>1
    <3>4. Held(v, c, a) = Held(w, c, a)
      BY <1>3, <1>8, <2>1, <3>2, <3>3
    <3> QED
      BY <2>1, <2>2, <3>4
  <2>6. CASE ~ (s.contract = c /\ s.asset = a)
    BY <2>1, <2>2, <2>3, <2>4, <2>6
  <2> QED
    BY <2>5, <2>6
<1>10. \A c \in MyAddresses, a \in Assets : Held(v, c, a) \in Nat /\ Issued(v, c, a) \in Nat
  BY <1>1, HeldType, IssuedType
<1> QED
  BY <1>9, <1>10 DEF Minted, u, v

-----------------------------------------------------------------------------
(* The steps of the process *)

\* The first of two rows under way may be the last one that is written.
MintInv ==
    /\ ~ Minted(wallet) /\ ~ Minted(Books)
    /\ Len(rows) \in 0 .. 2
    /\ Len(rows) = 2 => Harmless(wallet, rows[1])

LEMMA IssueMints ==
    ASSUME FiniteHolders, TypeOK, rows = << >>, wallet' = wallet, NEW t \in Txs,
           NEW contract \in MyAddresses, ResponseActionA1(t, contract), MintInv
    PROVE  MintInv'
<1> DEFINE k == [contract |-> contract, asset |-> Op[t].asset, address |-> Vin[t][1].addr]
           row == Row(k, Op[t].qty1, "A2", NoTxid)
<1>1. Vin[t][1].addr \in Addresses
  BY FirstInputType
<1>2. row \in WalletRow /\ row.type = "A2"
  <2>1. contract \in Holders /\ Vin[t][1].addr \in Holders
    BY <1>1, AddressAssumption DEF Holders
  <2>2. row \in WalletRow
    BY <2>1, TxTypes, RowType DEF RowTypes
  <2> QED
    BY <2>2 DEF Row
<1>3. wallet \in Seq(WalletRow) /\ Books = wallet
  BY BooksAreTable DEF TypeOK
<1>4. rows' = Stored(row)
  BY DEF ResponseActionA1, Respond
<1> HIDE DEF row
<1>5. \/ Books' = Append(wallet, row) /\ Len(rows') = 1
      \/ Books' = wallet /\ Len(rows') = 0
  <2>1. CASE rows' = <<row>>
    BY <1>2, <1>3, <2>1, OneMoreRow DEF Books
  <2>2. CASE rows' = << >>
    BY <1>3, <2>2, ConcatEmptySeq DEF Books
  <2> QED
    BY <1>2, <1>4, <2>1, <2>2, StoredType
<1>6. ~ Minted(Append(wallet, row))
  BY <1>2, <1>3, HarmlessRow DEF Harmless, MintInv
<1>7. ~ Minted(wallet')
  BY DEF MintInv
<1>8. ~ Minted(Books')
  BY <1>3, <1>5, <1>6 DEF MintInv
<1>9. Len(rows') \in {0, 1}
  BY <1>5
<1> QED
  BY <1>7, <1>8, <1>9 DEF MintInv

LEMMA SettlementMints ==
    ASSUME FiniteHolders, TransfersGiveChange, TypeOK, rows = << >>,
           wallet' = wallet, NEW t \in Txs, Op[t].code = "T2", Settles(t), ~ T2Throws(t),
           rows' = Settlement(t), MintInv
    PROVE  MintInv'
<1> DEFINE send == T2Key(t, T2Of[t].send)
           recv == T2Key(t, T2Of[t].recv)
           x == Op[t].qty1
<1>1. PICK s \in WalletRow, r \in WalletRow :
        /\ Settlement(t) = <<s, r>>
        /\ RowKey(s) = send /\ RowKey(r) = recv /\ s.type = "T4" /\ r.type = "T4"
        /\ s.qty = QueryContract(wallet, send) - x
        /\ r.qty = QueryContract(wallet, recv) + x
        /\ x \in Nat /\ QueryContract(wallet, send) \in Nat /\ QueryContract(wallet, recv) \in Nat
        /\ send # recv
  BY SettlementRows
<1>2. wallet \in Seq(WalletRow) /\ Books = wallet
  BY BooksAreTable DEF TypeOK
<1>3. s.contract = r.contract /\ s.asset = r.asset
  BY <1>1 DEF RowKey, T2Key
<1> HIDE DEF send, recv, x
<1>4. Books' = Append(Append(wallet, s), r) /\ Len(rows') = 2 /\ rows'[1] = s
  <2>1. PICK w \in Seq(WalletRow) : w = wallet
    BY <1>2
  <2>2. w \o <<s, r>> = Append(Append(w, s), r)
    BY TwoMoreRows
  <2>3. rows' = <<s, r>>
    BY <1>1
  <2>4. Books' = w \o <<s, r>>
    BY <2>1, <2>3 DEF Books
  <2>5. Len(rows') = 2 /\ rows'[1] = s
    BY <2>3
  <2> QED
    BY <2>1, <2>2, <2>4, <2>5
<1>5. s.qty + r.qty = QueryContract(wallet, RowKey(s)) + QueryContract(wallet, RowKey(r))
  BY <1>1
<1>6. ~ Minted(Append(Append(wallet, s), r))
  BY <1>1, <1>2, <1>3, <1>5, MovingRows DEF MintInv
<1>7. Harmless(wallet, s)
  <2>1. s.qty <= QueryContract(wallet, RowKey(s))
    BY <1>1
  <2> QED
    BY <1>1, <2>1 DEF Harmless
<1>8. ~ Minted(wallet')
  BY DEF MintInv
<1> QED
  BY <1>4, <1>6, <1>7, <1>8 DEF MintInv

LEMMA ForeignRowMints ==
    ASSUME FiniteHolders, NEW c, c \notin MyAddresses
    PROVE  \A w, r \in Seq(WalletRow) :
               AtMostOneRow(r, c) /\ ~ Minted(w) => ~ Minted(w \o r) /\ Len(r) <= 1
<1> SUFFICES ASSUME NEW w \in Seq(WalletRow), NEW r \in Seq(WalletRow), AtMostOneRow(r, c),
                    ~ Minted(w)
             PROVE  ~ Minted(w \o r) /\ Len(r) <= 1
  OBVIOUS
<1>1. CASE r = << >>
  BY <1>1, ConcatEmptySeq
<1>2. CASE r # << >>
  <2>1. PICK row \in WalletRow : r = <<row>> /\ row.contract = c
    BY <1>2 DEF AtMostOneRow
  <2>2. ~ Minted(Append(w, row))
    BY <2>1, HarmlessRow DEF Harmless
  <2>3. w \o r = Append(w, row) /\ Len(r) = 1
    BY <2>1, OneMoreRow
  <2> QED
    BY <2>2, <2>3
<1> QED
  BY <1>1, <1>2

LEMMA OneAndOneRow ==
    ASSUME NEW a \in WalletRow, NEW b \in WalletRow
    PROVE  /\ Len(<<a>> \o <<b>>) = 2
           /\ (<<a>> \o <<b>>)[1] = a
OBVIOUS

LEMMA OneRowLeft ==
    ASSUME NEW r \in Seq(WalletRow), Len(r) = 1
    PROVE  Tail(r) = << >>
<1>1. r # << >>
  BY EmptySeq
<1>2. Tail(r) \in Seq(WalletRow) /\ Len(Tail(r)) = Len(r) - 1
  BY <1>1, HeadTailProperties
<1>3. Len(Tail(r)) = 0
  BY <1>2
<1> QED
  BY <1>2, <1>3, EmptySeq

LEMMA ForeignRowFirst ==
    ASSUME NEW c
    PROVE  \A x, y \in Seq(WalletRow) :
               AtMostOneRow(x, c) /\ AtMostOneRow(y, c) =>
                 /\ Len(x \o y) \in 0 .. 2
                 /\ Len(x \o y) = 2 => (x \o y)[1] \in WalletRow /\ (x \o y)[1].contract = c
<1> SUFFICES ASSUME NEW x \in Seq(WalletRow), NEW y \in Seq(WalletRow),
                    AtMostOneRow(x, c), AtMostOneRow(y, c)
             PROVE  /\ Len(x \o y) \in 0 .. 2
                    /\ Len(x \o y) = 2 => (x \o y)[1] \in WalletRow /\ (x \o y)[1].contract = c
  OBVIOUS
<1>1. CASE x = << >>
  <2>1. x \o y = y
    BY <1>1, ConcatEmptySeq
  <2>2. Len(y) \in 0 .. 1
    BY DEF AtMostOneRow
  <2> QED
    BY <2>1, <2>2
<1>2. CASE x # << >>
  <2>1. PICK row \in WalletRow : x = <<row>> /\ row.contract = c
    BY <1>2 DEF AtMostOneRow
  <2>2. CASE y = << >>
    <3>1. x \o y = x
      BY <2>2, ConcatEmptySeq
    <3> QED
      BY <2>1, <3>1
  <2>3. CASE y # << >>
    <3>1. PICK other \in WalletRow : y = <<other>>
      BY <2>3 DEF AtMostOneRow
    <3>2. Len(x \o y) = 2 /\ (x \o y)[1] = row
      BY <2>1, <3>1, OneAndOneRow
    <3> QED
      BY <2>1, <3>2
  <2> QED
    BY <2>2, <2>3
<1> QED
  BY <1>1, <1>2

LEMMA AdoptionMints ==
    ASSUME FiniteHolders, TypeOK, rows = << >>, wallet' = wallet, NEW t \in Txs,
           NEW mine \in SUBSET MyAddresses, rows' = T4Rows(t, mine),
           T4Contract(Vin[t]) \in Addresses \ MyAddresses, MintInv
    PROVE  MintInv'
<1> DEFINE c == T4Contract(Vin[t])
<1>1. PICK x \in Seq(WalletRow), y \in Seq(WalletRow) :
        T4Rows(t, mine) = x \o y /\ AtMostOneRow(x, c) /\ AtMostOneRow(y, c)
  BY StatementRows
<1> HIDE DEF c
<1>2. c \notin MyAddresses
  BY DEF c
<1>3. PICK w \in Seq(WalletRow) : w = wallet /\ Books = w /\ ~ Minted(w)
  BY BooksAreTable DEF TypeOK, MintInv
<1>4. \A u, r \in Seq(WalletRow) :
         AtMostOneRow(r, c) /\ ~ Minted(u) => ~ Minted(u \o r) /\ Len(r) <= 1
  BY <1>2, ForeignRowMints
<1>5. w \o (x \o y) = (w \o x) \o y
  BY ConcatAssociative
<1>6. PICK u \in Seq(WalletRow) : u = w \o x
  BY ConcatProperties
<1>7. ~ Minted(u) /\ ~ Minted(u \o y)
  BY <1>1, <1>3, <1>4, <1>6
<1>8. /\ Len(rows') \in 0 .. 2
      /\ Len(rows') = 2 => rows'[1] \in WalletRow /\ rows'[1].contract = c
  <2> DEFINE z == x \o y
  <2>1. /\ Len(z) \in 0 .. 2
        /\ Len(z) = 2 => z[1] \in WalletRow /\ z[1].contract = c
    BY <1>1, ForeignRowFirst
  <2>2. rows' = z
    BY <1>1
  <2> HIDE DEF z
  <2> QED
    BY <2>1, <2>2
<1>9. ~ Minted(Books')
  BY <1>1, <1>3, <1>5, <1>6, <1>7 DEF Books
<1>10. Len(rows') = 2 => Harmless(wallet, rows'[1])
  BY <1>2, <1>8 DEF Harmless
<1>11. ~ Minted(wallet')
  BY DEF MintInv
<1> QED
  BY <1>8, <1>9, <1>10, <1>11 DEF MintInv

\* The txid of a row does not matter.
LEMMA NamedRowsMint ==
    ASSUME FiniteHolders, NEW id
    PROVE  \A w, r, q \in Seq(WalletRow) :
               q = Named(r, id) => (Minted(w \o q) <=> Minted(w \o r))
<1> SUFFICES ASSUME NEW w \in Seq(WalletRow), NEW r \in Seq(WalletRow),
                    NEW q \in Seq(WalletRow), q = Named(r, id)
             PROVE  Minted(w \o q) <=> Minted(w \o r)
  OBVIOUS
<1> DEFINE u == w \o q
           v == w \o r
<1>1. \A k : QueryContract(u, k) = QueryContract(v, k)
  BY NamedRowsCount
<1>2. /\ u \in Seq(WalletRow) /\ v \in Seq(WalletRow) /\ Len(u) = Len(v)
      /\ \A i \in 1 .. Len(v) :
           /\ u[i].contract = v[i].contract /\ u[i].asset = v[i].asset
           /\ u[i].type = v[i].type /\ u[i].qty = v[i].qty
  BY NamedRowsSame
<1> HIDE DEF u, v
<1>3. ASSUME NEW c, NEW a PROVE Held(u, c, a) = Held(v, c, a)
  BY <1>1 DEF Held
<1>4. ASSUME NEW c, NEW a PROVE Issued(u, c, a) = Issued(v, c, a)
  <2>1. IssueRows(u, c, a) = IssueRows(v, c, a)
    BY <1>2 DEF IssueRows
  <2>2. [i \in 1 .. Len(u) |-> u[i].qty] = [i \in 1 .. Len(v) |-> v[i].qty]
    BY <1>2
  <2> QED
    BY <2>1, <2>2 DEF Issued
<1> QED
  BY <1>3, <1>4 DEF Minted, u, v

LEMMA ReplyMints ==
    ASSUME FiniteHolders, TypeOK, TypeOK', Reply, MintInv
    PROVE  MintInv'
<1> USE DEF db, scan, memory, response
<1>1. PICK id : rows' = Named(rows, id)
  BY DEF Reply, Named
<1>2. wallet' = wallet
  BY DEF Reply
<1>3. PICK w \in Seq(WalletRow), r \in Seq(WalletRow), q \in Seq(WalletRow) :
        w = wallet /\ r = rows /\ q = rows'
  BY DEF TypeOK
<1>4. Minted(w \o q) <=> Minted(w \o r)
  BY <1>1, <1>3, NamedRowsMint
<1>5. ~ Minted(wallet') /\ ~ Minted(Books')
  BY <1>2, <1>3, <1>4 DEF MintInv, Books
<1>6. Len(rows') = Len(rows)
  BY <1>1 DEF Named, TypeOK
<1>7. ASSUME Len(rows) = 2 PROVE Harmless(wallet, rows'[1])
  <2>1. 1 \in 1 .. Len(rows) /\ Harmless(wallet, rows[1])
    BY <1>7 DEF MintInv
  <2>2. rows[1] \in WalletRow /\ rows'[1] = [rows[1] EXCEPT !.txid = id]
    BY <1>1, <2>1, ElementOfSeq DEF TypeOK, Named
  <2>3. /\ rows'[1].type = rows[1].type /\ rows'[1].contract = rows[1].contract
        /\ rows'[1].qty = rows[1].qty /\ RowKey(rows'[1]) = RowKey(rows[1])
    BY <2>2 DEF WalletRow, RowKey
  <2> QED
    BY <2>1, <2>3 DEF Harmless
<1> QED
  BY <1>2, <1>5, <1>6, <1>7 DEF MintInv

LEMMA InsertRowMints ==
    ASSUME FiniteHolders, TypeOK, InsertRow, MintInv
    PROVE  MintInv'
<1>1. PICK w \in Seq(WalletRow), r \in Seq(WalletRow) :
        /\ w = wallet /\ r = rows /\ r # << >>
        /\ rows' = Tail(r) /\ wallet' = Append(w, Head(r))
  BY DEF InsertRow, TypeOK
<1>2. /\ Len(r) \in Nat \ {0} /\ Head(r) = r[1] /\ r[1] \in WalletRow
      /\ Tail(r) \in Seq(WalletRow) /\ Len(Tail(r)) = Len(r) - 1
  BY <1>1
<1>3. Len(r) \in 1 .. 2
  BY <1>1, <1>2 DEF MintInv
<1>4. Append(w, Head(r)) \o Tail(r) = w \o r
  BY <1>1, WrittenRowStays
<1>5. ~ Minted(Books')
  BY <1>1, <1>4 DEF MintInv, Books
<1>6. Len(rows') \in 0 .. 2 /\ Len(rows') # 2
  <2>1. ASSUME NEW n \in 1 .. 2 PROVE n - 1 \in 0 .. 2 /\ n - 1 # 2
    OBVIOUS
  <2>2. Len(Tail(r)) \in 0 .. 2 /\ Len(Tail(r)) # 2
    BY <1>2, <1>3, <2>1
  <2> QED
    BY <1>1, <2>2
<1>7. ~ Minted(wallet')
  <2>1. CASE Len(r) = 2
    <3>1. Harmless(w, r[1]) /\ ~ Minted(w)
      BY <1>1, <2>1 DEF MintInv
    <3>2. ~ Minted(Append(w, r[1]))
      BY <1>2, <3>1, HarmlessRow
    <3> QED
      BY <1>1, <1>2, <3>2
  <2>2. CASE Len(r) = 1
    <3>1. Tail(r) = << >>
      BY <2>2, OneRowLeft
    <3>2. wallet' \in Seq(WalletRow) /\ rows' = << >>
      BY <1>1, <1>2, <3>1
    <3>3. Books' = wallet'
      BY <3>2, ConcatEmptySeq DEF Books
    <3> QED
      BY <1>5, <3>3
  <2> QED
    BY <1>3, <2>1, <2>2
<1> QED
  BY <1>5, <1>6, <1>7 DEF MintInv

\* Where nothing is under way the table is all there is.
LEMMA NothingUnderWay ==
    ASSUME TypeOK', rows' = << >>, wallet' = wallet, MintInv
    PROVE  MintInv'
<1>1. Books' = wallet'
  <2>1. wallet' \in Seq(WalletRow)
    BY DEF TypeOK
  <2> QED
    BY <2>1, ConcatEmptySeq DEF Books
<1>2. Len(rows') = 0
  OBVIOUS
<1>3. ~ Minted(wallet')
  BY DEF MintInv
<1> QED
  BY <1>1, <1>2, <1>3 DEF MintInv

LEMMA ResponseMints ==
    ASSUME FiniteHolders, TransfersGiveChange, OwnStatementsAreOurs,
           TypeOK, TypeOK', rows = << >>, wallet' = wallet,
           NEW t \in Txs, ResponseAction(t), MintInv
    PROVE  MintInv'
<1>1. ASSUME Ignore PROVE MintInv'
  BY <1>1, NothingUnderWay DEF Ignore, response
<1>2. PICK contract \in HandledBy(t) :
         \/ Op[t].code = "T2" /\ ResponseActionT2(t)
         \/ Op[t].code = "C1" /\ contract # NoAddress /\ ResponseActionC1(t)
         \/ Op[t].code = "A1" /\ contract # NoAddress /\ ResponseActionA1(t, contract)
         \/ Op[t].code = "T4" /\ contract # NoAddress /\ ResponseActionT4(t)
         \/ Ignore
  BY DEF ResponseAction
<1>3. CASE Op[t].code = "T2" /\ ResponseActionT2(t) /\ ~ Ignore
  <2>1. Settles(t) /\ ~ T2Throws(t) /\ rows' = Settlement(t)
    BY <1>3 DEF ResponseActionT2, Respond
  <2> QED
    BY <1>3, <2>1, SettlementMints
<1>4. CASE ResponseActionC1(t)
  <2>1. rows' = << >>
    BY <1>4 DEF ResponseActionC1, Respond
  <2> QED
    BY <2>1, NothingUnderWay
<1>5. CASE contract # NoAddress /\ ResponseActionA1(t, contract)
  <2>1. contract \in MyAddresses
    BY <1>5, HandledByOwn
  <2> QED
    BY <1>5, <2>1, IssueMints
<1>6. CASE Op[t].code = "T4" /\ contract # NoAddress /\ ResponseActionT4(t) /\ ~ Ignore
  <2>1. T4Contract(Vin[t]) \in Addresses \ MyAddresses
    BY <1>6, HandledT4IsForeign
  <2>2. PICK mine \in SUBSET MyAddresses : rows' = T4Rows(t, mine)
    BY <1>6 DEF ResponseActionT4, Respond
  <2> QED
    BY <2>1, <2>2, AdoptionMints
<1> QED
  BY <1>1, <1>2, <1>3, <1>4, <1>5, <1>6

LEMMA MintStep ==
    ASSUME FiniteHolders, TransfersGiveChange, OwnStatementsAreOurs,
           TypeInv, TypeInv', RowsInv, MintInv, [Next]_vars
    PROVE  MintInv'
<1> USE DEF db, scan, memory, response
<1>0. TypeOK /\ TypeOK'
  BY DEF TypeInv
<1>1. CASE FlushInsert
  <2>1. /\ pc = "flush" /\ vect_tx_ # << >>
        /\ ResponseAction(Head(vect_tx_).tx) /\ wallet' = wallet
    BY <1>1 DEF FlushInsert
  <2>2. rows = << >>
    BY <2>1 DEF RowsInv
  <2>3. Head(vect_tx_).tx \in Txs
    <3>1. Head(vect_tx_) \in Entry
      BY <2>1 DEF TypeInv, TypeOK
    <3> QED
      BY <3>1 DEF Entry
  <2> QED
    BY <1>0, <2>1, <2>2, <2>3, ResponseMints
<1>2. CASE Reply
  BY <1>0, <1>2, ReplyMints
<1>3. CASE InsertRow
  BY <1>0, <1>3, InsertRowMints
<1>4. CASE UNCHANGED vars
  BY <1>4 DEF vars, MintInv, Books
<1>5. CASE FlushThrows \/ Crash
  <2>1. rows' = << >> /\ wallet' = wallet
    BY <1>5 DEF FlushThrows, Crash, Die
  <2> QED
    BY <1>0, <2>1, NothingUnderWay
<1>6. CASE \/ GetBlockCount \/ GetBlock \/ ReadBlockTx \/ BlocksDone
           \/ GetRawMempool \/ ReadMempoolTx \/ MempoolDone
           \/ FlushUpdate \/ Commit \/ FlushUtxo \/ Start \/ Submit \/ Mine
  <2>1. rows' = rows /\ wallet' = wallet
    BY <1>6 DEF GetBlockCount, GetBlock, ReadBlockTx, BlocksDone, GetRawMempool,
       ReadMempoolTx, MempoolDone, FlushUpdate, Commit, FlushUtxo, Start, Submit, Mine
  <2> QED
    BY <2>1 DEF MintInv, Books
<1> QED
  BY <1>1, <1>2, <1>3, <1>4, <1>5, <1>6 DEF Next, Loop, Environment

LEMMA NothingIsNotMinted == ASSUME FiniteHolders PROVE ~ Minted(<< >>)
<1>1. << >> \in Seq(WalletRow)
  BY EmptySeq
<1>2. ASSUME NEW c, NEW a PROVE Held(<< >>, c, a) = 0
  <2> DEFINE f == [x \in Holders |-> QueryContract(<< >>, Acc(c, a, x))]
  <2>1. \A x \in Holders : f[x] = 0
    BY EmptyBooks
  <2> HIDE DEF f
  <2>2. Worth(f, Holders) = 0
    BY <2>1, WorthOfZeros DEF FiniteHolders
  <2> QED
    BY <2>2 DEF Held, f
<1>3. ASSUME NEW c, NEW a PROVE Issued(<< >>, c, a) \in Nat
  BY <1>1, IssuedType
<1>4. ASSUME NEW c, NEW a PROVE ~ (Held(<< >>, c, a) > Issued(<< >>, c, a))
  <2>1. \A n \in Nat : ~ (0 > n)
    OBVIOUS
  <2> QED
    BY <1>2, <1>3, <2>1
<1> QED
  BY <1>4 DEF Minted

\* Whatever dies or fails: no more of an asset of an own contract is held than was
\* issued of it (AssetCreation, SettlementToken, FlushToDB).
THEOREM NothingMinted ==
    IsFiniteSet(Holders) /\ TransfersGiveChange /\ OwnStatementsAreOurs =>
        (Spec => []NoTokensMinted)
<1> SUFFICES ASSUME FiniteHolders, TransfersGiveChange, OwnStatementsAreOurs
             PROVE  Spec => []NoTokensMinted
  BY DEF FiniteHolders
<1>1. Init => TypeInv /\ RowsInv /\ MintInv
  <2>1. Init => rows = << >> /\ wallet = << >> /\ Books = << >> /\ Len(<< >>) = 0
    BY EmptySeq DEF Init, Books
  <2>2. Init => MintInv
    BY <2>1, NothingIsNotMinted DEF MintInv
  <2> QED
    BY <2>1, <2>2, TypeInit DEF RowsInv
<1>2. TypeInv /\ RowsInv /\ MintInv /\ [Next]_vars => TypeInv' /\ RowsInv' /\ MintInv'
  BY TypeStep, RowsStep, MintStep
<1>3. TypeInv /\ MintInv => NoTokensMinted
  <2> SUFFICES ASSUME TypeInv, MintInv, NEW c \in MyAddresses, NEW a \in Assets
               PROVE  HeldIn(wallet, c, a) <= IssuedOf(c, a)
    BY DEF NoTokensMinted, Contracts
  <2>1. wallet \in Seq(WalletRow) /\ ~ Minted(wallet)
    BY DEF TypeInv, TypeOK, MintInv
  <2>2. Held(wallet, c, a) \in Nat /\ Issued(wallet, c, a) \in Nat
    BY <2>1, HeldType, IssuedType
  <2>3. HeldIn(wallet, c, a) = Held(wallet, c, a) /\ IssuedOf(c, a) = Issued(wallet, c, a)
    BY <2>1, HeldIsWorth, IssuedIsWorth
  <2> QED
    BY <2>1, <2>2, <2>3 DEF Minted
<1> QED
  BY <1>1, <1>2, <1>3, PTL DEF Spec

-----------------------------------------------------------------------------
(* The supply of an asset *)

LedgerSum(b, c, a) == Worth([x \in Holders |-> b[Acc(c, a, x)]], Holders)

LEMMA SupplyIsSum ==
    ASSUME FiniteHolders, NEW w, NEW c \in MyAddresses, NEW a \in Assets
    PROVE  HeldIn(w, c, a) = LedgerSum([k \in LedgerKeys |-> QueryContract(w, k)], c, a)
<1> DEFINE b == [k \in LedgerKeys |-> QueryContract(w, k)]
<1>1. ASSUME NEW x \in Holders PROVE b[Acc(c, a, x)] = QueryContract(w, Acc(c, a, x))
  BY AddressAssumption DEF Acc, LedgerKeys
<1> HIDE DEF b
<1>2. [x \in Holders |-> b[Acc(c, a, x)]] = [x \in Holders |-> QueryContract(w, Acc(c, a, x))]
  BY <1>1
<1>3. HeldIn(w, c, a) = Held(w, c, a)
  BY HeldIsWorth
<1>4. LedgerSum(b, c, a) = Held(w, c, a)
  BY <1>2, Zenon DEF LedgerSum, Held
<1>5. HeldIn(w, c, a) = LedgerSum(b, c, a)
  BY <1>3, <1>4
<1> QED
  BY <1>5, Zenon DEF b

\* Two tables of balances that agree on an asset sum up to the same.
LEMMA SumsOfSame ==
    ASSUME FiniteHolders, NEW b, NEW d, NEW c, NEW a,
           \A x \in Holders : d[Acc(c, a, x)] = b[Acc(c, a, x)]
    PROVE  LedgerSum(d, c, a) = LedgerSum(b, c, a)
<1>1. [x \in Holders |-> d[Acc(c, a, x)]] = [x \in Holders |-> b[Acc(c, a, x)]]
  OBVIOUS
<1> QED
  BY <1>1 DEF LedgerSum

\* The balances b after s gave y of an asset to r.
Moved(b, c, a, s, r, y) == [b EXCEPT ![Acc(c, a, s)] = @ - y, ![Acc(c, a, r)] = @ + y]

\* A transfer takes from one holder what it gives to the other.
LEMMA TransferKeepsSum ==
    ASSUME FiniteHolders, NEW b \in [LedgerKeys -> Nat], NEW c \in MyAddresses, NEW a \in Assets,
           NEW s \in Holders, NEW r \in Holders, s # r, NEW y \in Nat
    PROVE  LedgerSum(Moved(b, c, a, s, r, y), c, a) = LedgerSum(b, c, a)
<1> DEFINE d == Moved(b, c, a, s, r, y)
           f == [x \in Holders |-> b[Acc(c, a, x)]]
           e == [x \in Holders |-> d[Acc(c, a, x)]]
           NoS == Holders \ {s}
           Rest == NoS \ {r}
<1>1. \A x \in Holders : Acc(c, a, x) \in LedgerKeys
  BY AddressAssumption DEF Acc, LedgerKeys
<1>2. \A x, z \in Holders : Acc(c, a, x) = Acc(c, a, z) => x = z
  BY DEF Acc
<1>3. \A x \in Holders : f[x] \in Nat
  BY <1>1
<1>4. e[s] = f[s] - y /\ e[r] = f[r] + y /\ \A x \in Rest : e[x] = f[x]
  BY <1>1, <1>2 DEF Moved
<1>5. Numeric(f, Holders) /\ Numeric(e, Holders)
  <2> HIDE DEF f, e
  <2>1. ASSUME NEW x \in Holders PROVE e[x] \in Int
    <3>1. f[x] \in Nat
      BY <1>3
    <3>2. CASE x = s
      BY <1>4, <3>1, <3>2
    <3>3. CASE x = r
      BY <1>4, <3>1, <3>3
    <3>4. CASE x \in Rest
      BY <1>4, <3>1, <3>4
    <3> QED
      BY <3>2, <3>3, <3>4
  <2>2. \A x \in Holders : f[x] \in Int
    BY <1>3
  <2> QED
    BY <2>1, <2>2 DEF Numeric
<1>6. /\ IsFiniteSet(NoS) /\ IsFiniteSet(Rest) /\ r \in NoS
      /\ Numeric(f, NoS) /\ Numeric(e, NoS) /\ Numeric(f, Rest)
  BY <1>5, FS_RemoveElement DEF FiniteHolders, Numeric
<1> HIDE DEF f, e
<1>7. Worth(f, Holders) = f[s] + Worth(f, NoS) /\ Worth(e, Holders) = e[s] + Worth(e, NoS)
  BY <1>5, WorthSplits DEF FiniteHolders
<1>8. Worth(f, NoS) = f[r] + Worth(f, Rest) /\ Worth(e, NoS) = e[r] + Worth(e, Rest)
  BY <1>6, WorthSplits
<1>9. Worth(e, Rest) = Worth(f, Rest)
  BY <1>4, <1>6, WorthAgrees
<1>10. Worth(f, Rest) \in Int
  BY <1>6, WorthType
<1>11. Worth(e, Holders) = Worth(f, Holders)
  BY <1>3, <1>4, <1>7, <1>8, <1>9, <1>10
<1> QED
  BY <1>11, Zenon DEF LedgerSum, e, f, d

LEMMA SameBalanceSameSupply ==
    ASSUME FiniteHolders, Balance' = Balance, NEW c \in MyAddresses, NEW a \in Assets
    PROVE  Supply(c, a)' = Supply(c, a)
BY SupplyIsSum DEF Supply, Balance

\* What a response does to the supply of an asset.
LEMMA ResponseSupply ==
    ASSUME FiniteHolders, TransfersGiveChange, OwnStatementsAreOurs, TypeOK,
           rows = << >>, wallet' = wallet, NEW t \in Txs, ResponseAction(t),
           NEW c \in MyAddresses, NEW a \in Assets
    PROVE  OnlyIssued(c, a)
<1>1. ASSUME Balance' = Balance PROVE OnlyIssued(c, a)
  BY <1>1, SameBalanceSameSupply DEF OnlyIssued
<1>2. ASSUME \A x \in Holders : Balance'[Acc(c, a, x)] = Balance[Acc(c, a, x)]
      PROVE  OnlyIssued(c, a)
  <2>1. LedgerSum(Balance', c, a) = LedgerSum(Balance, c, a)
    BY <1>2, SumsOfSame
  <2>2. HeldIn(Books', c, a) = HeldIn(Books, c, a)
    BY <2>1, SupplyIsSum DEF Balance
  <2> QED
    BY <2>2 DEF OnlyIssued, Supply
<1>3. PICK contract \in HandledBy(t) :
         \/ Op[t].code = "T2" /\ ResponseActionT2(t)
         \/ Op[t].code = "C1" /\ contract # NoAddress /\ ResponseActionC1(t)
         \/ Op[t].code = "A1" /\ contract # NoAddress /\ ResponseActionA1(t, contract)
         \/ Op[t].code = "T4" /\ contract # NoAddress /\ ResponseActionT4(t)
         \/ Ignore
  BY DEF ResponseAction
<1>4. CASE Ignore
  <2>1. Balance' = Balance
    BY <1>4 DEF Ignore, response, Balance, Books
  <2> QED
    BY <1>1, <2>1
<1>5. CASE ResponseActionC1(t)
  <2>1. Balance' = Balance
    BY <1>5 DEF ResponseActionC1, Respond, Balance, Books
  <2> QED
    BY <1>1, <2>1
<1>6. CASE Op[t].code = "T2" /\ ResponseActionT2(t) /\ ~ Ignore
  <2>1. Settles(t) /\ ~ T2Throws(t) /\ rows' = Settlement(t)
    BY <1>6 DEF ResponseActionT2, Respond
  <2> DEFINE d == T2Of[t].contract
             z == Op[t].asset
             s == T2Of[t].send
             r == T2Of[t].recv
  <2>2. Ledger!Transfer(d, z, s, r)
    BY <1>6, <2>1, TransferStep
  <2>3. d \in MyAddresses /\ z \in Assets /\ s \in Holders /\ r \in Holders
    BY <2>1, T2OfType, TxTypes DEF Settles
  <2>4. PICK y \in Qty : Balance' = [Balance EXCEPT ![Acc(d, z, s)] = @ - y,
                                                    ![Acc(d, z, r)] = @ + y]
    BY <2>2 DEF Ledger!Transfer, Ledger!Account, Acc
  <2>5. s # r
    BY <2>2 DEF Ledger!Transfer
  <2> HIDE DEF d, z, s, r
  <2>6. Balance \in [LedgerKeys -> Nat] /\ y \in Nat
    BY BooksType, WalletRowsAreRows, QueryContractType, WidthAssumption DEF Balance, Qty
  <2>7. CASE c = d /\ a = z
    <3>3. Balance' = Moved(Balance, c, a, s, r, y)
      BY <2>4, <2>7 DEF Moved
    <3>1. LedgerSum(Balance', c, a) = LedgerSum(Balance, c, a)
      BY <2>3, <2>5, <2>6, <3>3, TransferKeepsSum
    <3>2. HeldIn(Books', c, a) = HeldIn(Books, c, a)
      BY <3>1, SupplyIsSum DEF Balance
    <3> QED
      BY <3>2 DEF OnlyIssued, Supply
  <2>8. CASE ~ (c = d /\ a = z)
    <3>1. \A x \in Holders : Acc(c, a, x) \in LedgerKeys
                             /\ Acc(c, a, x) # Acc(d, z, s) /\ Acc(c, a, x) # Acc(d, z, r)
      BY <2>8, AddressAssumption DEF Acc, LedgerKeys
    <3>2. \A x \in Holders : Balance'[Acc(c, a, x)] = Balance[Acc(c, a, x)]
      BY <2>4, <2>6, <3>1
    <3> QED
      BY <1>2, <3>2
  <2> QED
    BY <2>7, <2>8
<1>7. CASE Op[t].code = "A1" /\ contract # NoAddress /\ ResponseActionA1(t, contract)
  <2>1. contract \in MyAddresses /\ Op[t].asset \in Assets
    BY <1>7, HandledByOwn, TxTypes
  <2>2. CASE a = Op[t].asset
    <3>1. answered'[t] = answered[t] + 1
      BY <1>7 DEF ResponseActionA1, Respond, TypeOK
    <3> QED
      BY <1>7, <2>2, <3>1 DEF OnlyIssued
  <2>3. CASE a # Op[t].asset
    <3>1. (\E h \in Holders : Ledger!Issue(contract, Op[t].asset, h)) \/ Balance' = Balance
      BY <1>7, <2>1, IssueStep
    <3>2. CASE \E h \in Holders : Ledger!Issue(contract, Op[t].asset, h)
      <4>1. PICK h \in Holders :
              \A k \in LedgerKeys \ {Acc(contract, Op[t].asset, h)} : Balance'[k] = Balance[k]
        BY <3>2, KeyIsAccount DEF Ledger!Issue, Ledger!Change, Ledger!Account, Acc
      <4>2. \A x \in Holders : Acc(c, a, x) \in LedgerKeys
                               /\ Acc(c, a, x) # Acc(contract, Op[t].asset, h)
        BY <2>3, AddressAssumption DEF Acc, LedgerKeys
      <4>3. \A x \in Holders : Balance'[Acc(c, a, x)] = Balance[Acc(c, a, x)]
        BY <4>1, <4>2
      <4> QED
        BY <1>2, <4>3
    <3> QED
      BY <1>1, <3>1, <3>2
  <2> QED
    BY <2>2, <2>3
<1>8. CASE Op[t].code = "T4" /\ contract # NoAddress /\ ResponseActionT4(t) /\ ~ Ignore
  <2>1. T4Contract(Vin[t]) \in Addresses \ MyAddresses
    BY <1>8, HandledT4IsForeign
  <2>2. PICK mine \in SUBSET MyAddresses : rows' = T4Rows(t, mine)
    BY <1>8 DEF ResponseActionT4, Respond
  <2>3. Ledger!Adopt(T4Contract(Vin[t]))
    BY <2>1, <2>2, AdoptStep
  <2>4. \A x \in Holders : Acc(c, a, x) \in LedgerKeys
                           /\ Acc(c, a, x).contract # T4Contract(Vin[t])
    BY <2>1, AddressAssumption DEF Acc, LedgerKeys
  <2>5. \A x \in Holders : Balance'[Acc(c, a, x)] = Balance[Acc(c, a, x)]
    BY <2>3, <2>4, KeyIsAccount DEF Ledger!Adopt, Ledger!Change
  <2> QED
    BY <1>2, <2>5
<1> QED
  BY <1>3, <1>4, <1>5, <1>6, <1>7, <1>8

LEMMA SupplyStep ==
    ASSUME MaxCrashes = 0, FiniteHolders, TransfersGiveChange, OwnStatementsAreOurs,
           TypeInv, RowsInv, [Next]_vars, NEW c \in MyAddresses, NEW a \in Assets
    PROVE  OnlyIssued(c, a)
<1> USE DEF db, scan, memory, response
<1>1. ASSUME Balance' = Balance PROVE OnlyIssued(c, a)
  BY <1>1, SameBalanceSameSupply DEF OnlyIssued
<1>2. CASE FlushInsert
  <2>1. /\ pc = "flush" /\ vect_tx_ # << >>
        /\ ResponseAction(Head(vect_tx_).tx) /\ wallet' = wallet
    BY <1>2 DEF FlushInsert
  <2>2. rows = << >>
    BY <2>1 DEF RowsInv
  <2>3. Head(vect_tx_).tx \in Txs
    <3>1. Head(vect_tx_) \in Entry
      BY <2>1 DEF TypeInv, TypeOK
    <3> QED
      BY <3>1 DEF Entry
  <2> QED
    BY <2>1, <2>2, <2>3, ResponseSupply DEF TypeInv
<1>3. CASE ~ FlushInsert
  <2>1. Balance' = Balance
    BY <1>3, StillBooks
  <2> QED
    BY <1>1, <2>1
<1> QED
  BY <1>2, <1>3

\* As long as scanblock does not die, what all holders have of an asset changes only
\* where an issue of it is answered: no settlement loses or creates any, whatever RPC
\* calls fail (SettlementToken, AssetCreation).
THEOREM SupplyIsIssued ==
    MaxCrashes = 0 /\ IsFiniteSet(Holders) /\ TransfersGiveChange
    /\ OwnStatementsAreOurs => (Spec => SupplyOnlyIssued)
<1> SUFFICES ASSUME MaxCrashes = 0, FiniteHolders, TransfersGiveChange,
                    OwnStatementsAreOurs
             PROVE  Spec => SupplyOnlyIssued
  BY DEF FiniteHolders
<1>1. Init => TypeInv /\ RowsInv
  BY TypeInit DEF Init, RowsInv
<1>2. TypeInv /\ RowsInv /\ [Next]_vars =>
        TypeInv' /\ RowsInv' /\ [\A c \in MyAddresses, a \in Assets : OnlyIssued(c, a)]_vars
  BY TypeStep, RowsStep, SupplyStep
<1> QED
  BY <1>1, <1>2, PTL DEF Spec, SupplyOnlyIssued

-----------------------------------------------------------------------------
(* What is recorded is booked *)

\* The row of an A1 is among the rows w, if the table can hold it.
BookedIn(t, w) ==
    Op[t].code = "A1" /\ 2 * Op[t].qty1 < TwoTo64 =>
        \E i \in 1 .. Len(w) :
            /\ w[i].type = "A2" /\ w[i].qty = Op[t].qty1
            /\ w[i].contract \in HandledBy(t) /\ w[i].address = Vin[t][1].addr

\* The statement that records a request is collected when its response begins; the
\* rows of the response are written before the statements are executed.
BookedInv ==
    \A t \in Txs : ToAnswer(t) =>
        /\ txinfo[t] # NotRecorded => answered[t] > 0 /\ BookedIn(t, wallet)
        /\ vect_insert[t].op = "INSERT" => answered[t] > 0 /\ BookedIn(t, Books)

LEMMA MoreRowsBook ==
    ASSUME NEW t, NEW w \in Seq(WalletRow), NEW r \in Seq(WalletRow), BookedIn(t, w)
    PROVE  BookedIn(t, w \o r)
<1>1. /\ Len(w \o r) = Len(w) + Len(r) /\ Len(w) \in Nat /\ Len(r) \in Nat
      /\ \A i \in 1 .. Len(w) : (w \o r)[i] = w[i]
  BY ConcatProperties
<1>2. \A i \in 1 .. Len(w) : i \in 1 .. Len(w \o r)
  BY <1>1
<1> QED
  BY <1>1, <1>2 DEF BookedIn

\* Steps that change neither the books nor what is recorded.
LEMMA BookedStays ==
    ASSUME BookedInv, UNCHANGED <<txinfo, wallet, rows, answered>>,
           \A t \in Txs : vect_insert'[t].op = "INSERT" => vect_insert[t].op = "INSERT"
    PROVE  BookedInv'
<1>1. Books' = Books
  BY DEF Books
<1> QED
  BY <1>1 DEF BookedInv, BookedIn, ToAnswer

\* A handled request is answered, and an A1 with the row that books it.
LEMMA ResponseBooks ==
    ASSUME ~ RpcMayFail, TypeOK, rows = << >>, wallet' = wallet, NEW t \in Txs, ToAnswer(t),
           ResponseAction(t)
    PROVE  answered'[t] > 0 /\ BookedIn(t, Books')
<1>1. PICK contract : HandledBy(t) = {contract}
  BY DEF HandledBy
<1>2. contract # NoAddress /\ Op[t].code \in {"C1", "A1"}
  BY <1>1 DEF ToAnswer
<1>3. \/ Op[t].code = "C1" /\ ResponseActionC1(t)
      \/ Op[t].code = "A1" /\ ResponseActionA1(t, contract)
  BY <1>1, <1>2 DEF ResponseAction
<1>4. answered'[t] > 0
  BY <1>3 DEF ResponseActionC1, ResponseActionA1, Respond, TypeOK
<1>5. CASE Op[t].code = "C1"
  BY <1>4, <1>5 DEF BookedIn
<1>6. CASE Op[t].code = "A1" /\ ~ (2 * Op[t].qty1 < TwoTo64)
  BY <1>4, <1>6 DEF BookedIn
<1>7. CASE Op[t].code = "A1" /\ 2 * Op[t].qty1 < TwoTo64
  <2> DEFINE k == [contract |-> contract, asset |-> Op[t].asset, address |-> Vin[t][1].addr]
             x == Row(k, Op[t].qty1, "A2", NoTxid)
  <2>1. rows' = <<x>>
    BY <1>3, <1>7 DEF ResponseActionA1, Respond, Stored, Row
  <2>2. /\ x.type = "A2" /\ x.qty = Op[t].qty1 /\ x.contract = contract
        /\ x.address = Vin[t][1].addr
    BY DEF Row
  <2>3. x \in WalletRow
    <3>1. contract \in Holders /\ Vin[t][1].addr \in Holders
      BY <1>1, <1>2, HandledByOwn, FirstInputType, AddressAssumption DEF Holders
    <3>2. Op[t].asset \in Assets /\ Op[t].qty1 \in Qty /\ "A2" \in RowTypes
      BY TxTypes DEF RowTypes
    <3> QED
      BY <3>1, <3>2, RowType
  <2> HIDE DEF x
  <2>4. Books' = Append(wallet, x) /\ wallet \in Seq(WalletRow)
    BY <2>1, <2>3, OneMoreRow DEF Books, TypeOK
  <2>5. Len(Books') = Len(wallet) + 1 /\ Len(wallet) \in Nat /\ Books'[Len(wallet) + 1] = x
    BY <2>3, <2>4
  <2>6. Len(wallet) + 1 \in 1 .. Len(Books')
    BY <2>5
  <2> QED
    BY <1>1, <1>4, <2>2, <2>5, <2>6 DEF BookedIn
<1> QED
  BY <1>2, <1>5, <1>6, <1>7

LEMMA FlushInsertBooks ==
    ASSUME ~ RpcMayFail, TypeInv, RowsInv, BookedInv, FlushInsert
    PROVE  BookedInv'
<1> DEFINE e == Head(vect_tx_)
           s == [op |-> "INSERT", height |-> e.height]
<1>1. /\ pc = "flush" /\ vect_tx_ # << >> /\ ResponseAction(e.tx)
      /\ UNCHANGED <<txinfo, wallet>>
      /\ vect_insert' = [vect_insert EXCEPT ![e.tx] = s]
  BY DEF FlushInsert, db
<1>2. e.tx \in Txs
  <2>1. e \in Entry
    BY <1>1 DEF TypeInv, TypeOK
  <2> QED
    BY <2>1 DEF Entry
<1>3. rows = << >> /\ wallet \in Seq(WalletRow) /\ Books = wallet
  BY <1>1, BooksAreTable DEF RowsInv, TypeInv, TypeOK
<1>4. rows' \in Seq(WalletRow)
  BY TypeStep DEF TypeInv, TypeOK, Next, Loop
<1> HIDE DEF e, s
<1>5. ASSUME NEW t \in Txs, ToAnswer(t), t # e.tx
      PROVE  answered'[t] = answered[t] /\ vect_insert'[t] = vect_insert[t]
  <2>1. answered' = answered \/ answered' = [answered EXCEPT ![e.tx] = @ + 1]
    BY <1>1 DEF ResponseAction, ResponseActionT2, ResponseActionC1, ResponseActionA1,
                ResponseActionT4, Respond, Ignore
  <2> QED
    BY <1>1, <1>2, <1>5, <2>1 DEF TypeInv, TypeOK
<1>6. ASSUME NEW t \in Txs, ToAnswer(t), t = e.tx
      PROVE  answered'[t] > 0 /\ BookedIn(t, Books')
  BY <1>1, <1>2, <1>3, <1>6, ResponseBooks DEF TypeInv
<1>7. ASSUME NEW t \in Txs, ToAnswer(t)
      PROVE  /\ txinfo'[t] # NotRecorded => answered'[t] > 0 /\ BookedIn(t, wallet')
             /\ vect_insert'[t].op = "INSERT" => answered'[t] > 0 /\ BookedIn(t, Books')
  <2>1. CASE t = e.tx
    BY <1>1, <1>6, <1>7, <2>1 DEF BookedInv
  <2>2. CASE t # e.tx
    <3>1. BookedIn(t, wallet) => BookedIn(t, Books')
      BY <1>1, <1>3, <1>4, MoreRowsBook DEF Books
    <3> QED
      BY <1>1, <1>3, <1>5, <1>7, <2>2, <3>1 DEF BookedInv
  <2> QED
    BY <2>1, <2>2
<1> QED
  BY <1>7 DEF BookedInv, BookedIn, ToAnswer

\* The txid of a row does not matter to what it books.
LEMMA NamedRowsBook ==
    ASSUME NEW id
    PROVE  \A w, r, q \in Seq(WalletRow) :
               q = Named(r, id) => \A t : BookedIn(t, w \o r) => BookedIn(t, w \o q)
<1> SUFFICES ASSUME NEW w \in Seq(WalletRow), NEW r \in Seq(WalletRow),
                    NEW q \in Seq(WalletRow), q = Named(r, id), NEW t
             PROVE  BookedIn(t, w \o r) => BookedIn(t, w \o q)
  OBVIOUS
<1> DEFINE u == w \o q
           v == w \o r
<1>1. /\ u \in Seq(WalletRow) /\ v \in Seq(WalletRow) /\ Len(u) = Len(v)
      /\ \A i \in 1 .. Len(v) :
           /\ u[i].contract = v[i].contract /\ u[i].asset = v[i].asset
           /\ u[i].address = v[i].address /\ u[i].type = v[i].type
           /\ u[i].qty = v[i].qty
  BY NamedRowsSame
<1> HIDE DEF u, v
<1>2. BookedIn(t, v) => BookedIn(t, u)
  BY <1>1 DEF BookedIn
<1> QED
  BY <1>2 DEF u, v

\* The reply is entered in the rows under way, which leaves what they book.
LEMMA ReplyBooks ==
    ASSUME TypeInv, BookedInv, Reply
    PROVE  BookedInv'
<1>1. PICK id : rows' = Named(rows, id)
  BY DEF Reply, Named
<1>2. rows \in Seq(WalletRow) /\ rows' \in Seq(WalletRow) /\ wallet \in Seq(WalletRow)
  BY TypeStep DEF TypeInv, TypeOK, Next, Loop
<1>3. UNCHANGED <<txinfo, wallet, vect_insert, answered>>
  BY DEF Reply, db, memory
<1>4. \A t : BookedIn(t, Books) => BookedIn(t, Books')
  BY <1>1, <1>2, <1>3, NamedRowsBook DEF Books
<1> QED
  BY <1>3, <1>4 DEF BookedInv, BookedIn, ToAnswer

LEMMA InsertRowBooks ==
    ASSUME TypeInv, BookedInv, InsertRow
    PROVE  BookedInv'
<1>1. /\ UNCHANGED <<txinfo, vect_insert, answered>>
      /\ rows # << >> /\ wallet' = Append(wallet, Head(rows)) /\ rows' = Tail(rows)
  BY DEF InsertRow, memory
<1>2. wallet \in Seq(WalletRow) /\ rows \in Seq(WalletRow)
  BY DEF TypeInv, TypeOK
<1>3. Books' = Books
  BY <1>1, <1>2, WrittenRowStays DEF Books
<1>4. ASSUME NEW t, BookedIn(t, wallet) PROVE BookedIn(t, wallet')
  <2>1. Head(rows) \in WalletRow
    BY <1>1, <1>2
  <2>2. wallet' = wallet \o <<Head(rows)>> /\ <<Head(rows)>> \in Seq(WalletRow)
    BY <1>1, <1>2, <2>1, OneMoreRow
  <2> QED
    BY <1>2, <1>4, <2>2, MoreRowsBook
<1> QED
  BY <1>1, <1>3, <1>4 DEF BookedInv, BookedIn, ToAnswer

\* The statements are executed when no row is under way.
LEMMA CommitBooks ==
    ASSUME TypeInv, RowsInv, BookedInv, Commit
    PROVE  BookedInv'
<1>1. /\ UNCHANGED <<wallet, answered>> /\ pc = "flush" /\ vect_insert' = NoInserts
      /\ txinfo' = [t \in Txs |-> Executed(vect_insert[t], txinfo[t])]
  BY DEF Commit
<1>2. Books = wallet
  BY <1>1, BooksAreTable DEF RowsInv, TypeInv, TypeOK
<1>3. ASSUME NEW t \in Txs
      PROVE  /\ vect_insert'[t].op # "INSERT"
             /\ txinfo'[t] # NotRecorded =>
                  txinfo[t] # NotRecorded \/ vect_insert[t].op = "INSERT"
  BY <1>1 DEF NoInserts, NoStatement, Executed
<1> QED
  BY <1>1, <1>2, <1>3 DEF BookedInv, BookedIn, ToAnswer

LEMMA BookedStep ==
    ASSUME ~ RpcMayFail, TypeInv, RowsInv, BookedInv, [Next]_vars
    PROVE  BookedInv'
<1> USE DEF db, scan, memory, response
<1>1. CASE FlushInsert
  BY <1>1, FlushInsertBooks
<1>2. CASE Reply
  BY <1>2, ReplyBooks
<1>3. CASE InsertRow
  BY <1>3, InsertRowBooks
<1>4. CASE Commit
  BY <1>4, CommitBooks
<1>5. CASE FlushThrows \/ Crash
  <2>1. UNCHANGED <<txinfo, wallet, answered>> /\ vect_insert' = NoInserts
    BY <1>5 DEF FlushThrows, Crash, Die
  <2>2. \A t \in Txs : vect_insert'[t].op # "INSERT"
    BY <2>1 DEF NoInserts, NoStatement
  <2> QED
    BY <2>1, <2>2 DEF BookedInv, BookedIn, ToAnswer
<1>6. CASE FlushUpdate
  <2> DEFINE e == Head(vect_tx_)
             s == [op |-> "UPDATE", height |-> e.height]
  <2>1. /\ UNCHANGED <<txinfo, wallet, rows, answered>>
        /\ vect_insert' = [vect_insert EXCEPT ![e.tx] = s]
    BY <1>6 DEF FlushUpdate
  <2>2. s.op = "UPDATE" /\ vect_insert \in [Txs -> Statement]
    BY DEF TypeInv, TypeOK
  <2> HIDE DEF e, s
  <2>3. \A t \in Txs : vect_insert'[t].op = "INSERT" => vect_insert[t].op = "INSERT"
    BY <2>1, <2>2
  <2> QED
    BY <2>1, <2>3, BookedStays
<1>7. CASE \/ GetBlockCount \/ GetBlock \/ ReadBlockTx \/ BlocksDone
           \/ GetRawMempool \/ ReadMempoolTx \/ MempoolDone
           \/ FlushUtxo \/ Start \/ Submit \/ Mine \/ UNCHANGED vars
  <2>1. UNCHANGED <<txinfo, wallet, rows, answered, vect_insert>>
    BY <1>7 DEF GetBlockCount, GetBlock, ReadBlockTx, BlocksDone, GetRawMempool,
       ReadMempoolTx, MempoolDone, AddTransaction, FlushUtxo, Start, Submit, Mine, vars
  <2> QED
    BY <2>1, BookedStays
<1> QED
  BY <1>1, <1>2, <1>3, <1>4, <1>5, <1>6, <1>7 DEF Next, Loop, Environment

LEMMA BookedInit == Init => BookedInv
BY DEF Init, BookedInv, NoInserts, NoStatement

\* With every RPC call answered, however often the process dies and wherever: a
\* request to this node's contract that is recorded was answered, and what an A1
\* issues is booked (FlushToDB, ResponseAction, AssetCreation).
THEOREM RecordedAreBooked == ~ RpcMayFail => (Spec => []RecordedIsBooked)
<1> SUFFICES ASSUME ~ RpcMayFail PROVE Spec => []RecordedIsBooked
  OBVIOUS
<1>1. Init => TypeInv /\ RowsInv /\ BookedInv
  BY TypeInit, BookedInit DEF Init, RowsInv
<1>2. TypeInv /\ RowsInv /\ BookedInv /\ [Next]_vars => TypeInv' /\ RowsInv' /\ BookedInv'
  BY TypeStep, RowsStep, BookedStep
<1>3. BookedInv => RecordedIsBooked
  BY DEF BookedInv, RecordedIsBooked, BookedIn, Booked
<1> QED
  BY <1>1, <1>2, <1>3, PTL DEF Spec

-----------------------------------------------------------------------------
(* The money of a transfer *)

\* What a transfer leaves at the contract's address.
ContractCoins(t) == {o \in Creates(t) : Output(o).addr = T2Of[t].contract}

\* Among the transactions considered is the T4 that settles a transfer which can
\* pay both parties.
TransfersHaveReplies ==
    \A t \in Txs : Payable(t) /\ T2Of[t].contract \in MyAddresses =>
        \E id \in Replies[t] :
            /\ Spends(id) = ContractCoins(t)
            /\ PaysExactly(id, T4Paid(T2Of[t].send, T2Of[t].recv,
                                      T2Currency(Vin[t], Vout[t])))

\* Nobody but scanblock spends from an address of this wallet, and a T4 spends
\* from the transfer it settles.
OnlyRepliesSpend ==
    \A t \in Txs, u \in Txs : \A o \in Spends(u) \cap Creates(t) :
        Output(o).addr \in MyAddresses =>
            \E v \in Txs : /\ u \in Replies[v]
                           /\ Op[v].code \in {"C1", "A1"} \/ (Op[v].code = "T2" /\ v = t)

\* What is read, queued or answered was seen on the node, which forgets nothing.
OnNodeInv ==
    /\ json_pool \cup RangeOf(json_txs) \subseteq OnChain \cup mempool
    /\ \A i \in 1 .. Len(vect_tx_) : vect_tx_[i].tx \in OnChain \cup mempool
    /\ pc = "reply" => answering \in OnChain \cup mempool

\* While a transfer is answered, the rows under way name its contract and parties.
AnsweringInv ==
    /\ pc \notin {"reply", "rows"} => answering = NoTxid
    /\ pc = "rows" /\ answering # NoTxid => Op[answering].code # "T2"
    /\ pc = "reply" /\ Op[answering].code = "T2" =>
         /\ T2Of[answering].contract \in MyAddresses /\ rows # << >>
         /\ rows[1].contract = T2Of[answering].contract
         /\ rows[1].address = T2Of[answering].send
         /\ rows[2].address = T2Of[answering].recv

MayTake(t) ==
    Replies[t] \cup UNION {Replies[v] : v \in {w \in Txs : Op[w].code \in {"C1", "A1"}}}

Taker(t, u) ==
    u \in MayTake(t) /\ \E o \in Spends(u) \cap Creates(t) : Output(o).addr = T2Of[t].contract

LEMMA SettledByTaker ==
    SettledOrRobbed <=>
        \A t \in Txs : Payable(t) /\ answered[t] > 0 /\ answering # t =>
            \E u \in OnChain \cup mempool : Taker(t, u)
BY DEF SettledOrRobbed, Taker, MayTake

LEMMA SpendsSomething == ASSUME NEW t \in Txs PROVE Spends(t) # {}
<1>1. Vin[t] # << >> /\ Vin[t] \in Seq([tx : Txs \cup {NoTxid}, n : Nat, addr : Addresses])
  BY TxTypes
<1>2. 1 \in 1 .. Len(Vin[t])
  BY <1>1
<1> QED
  BY <1>2 DEF Spends

LEMMA SpentOutput ==
    ASSUME NEW u \in Txs, NEW o \in Spends(u), NEW t \in Txs, o[1] = t
    PROVE  t \in Parents(u)
BY DEF Spends, Parents

LEMMA CurrencyType == ASSUME NEW t \in Txs PROVE T2Currency(Vin[t], Vout[t]) \in Nat
<1> DEFINE outs == [addr : Addresses, value : Nat]
<1>1. ASSUME NEW vin, NEW vout \in Seq(outs) PROVE T2Currency(vin, vout) \in Nat
  <2> DEFINE paid == {i \in 1 .. Len(vout) : vout[i].addr \notin InputAddresses(vin)}
  <2>1. Len(vout) \in Nat /\ \A i \in 1 .. Len(vout) : vout[i] \in outs
    <3> HIDE DEF outs
    <3> QED
      BY ElementOfSeq
  <2>2. paid # {} => Latest(paid) \in 1 .. Len(vout)
    BY <2>1, LatestInSet
  <2>3. paid # {} => T2Currency(vin, vout) = vout[Latest(paid)].value
    BY Zenon DEF T2Currency, Latest
  <2>4. paid = {} => T2Currency(vin, vout) = 0
    BY DEF T2Currency
  <2> HIDE DEF paid
  <2> QED
    BY <2>1, <2>2, <2>3, <2>4
<1> QED
  BY <1>1, TxTypes

\* The node takes the T4 of a transfer whose coins nobody has taken yet.
LEMMA T4IsAccepted ==
    ASSUME TypeInv, TransfersHaveReplies, OnlyRepliesSpend, AnsweringInv, OnNodeInv,
           pc = "reply", answering \in Txs, Payable(answering),
           \A u \in OnChain \cup mempool : ~ Taker(answering, u)
    PROVE  \E id \in Replies[answering] : IsReply(id)
<1> DEFINE t == answering
           c == T2Of[t].contract
           paid == T4Paid(T2Of[t].send, T2Of[t].recv, T2Currency(Vin[t], Vout[t]))
<1>1. Op[t].code = "T2"
  BY DEF Payable
<1>2. /\ c \in MyAddresses /\ rows # << >> /\ rows[1].contract = c
      /\ rows[1].address = T2Of[t].send /\ rows[2].address = T2Of[t].recv
  BY <1>1 DEF AnsweringInv
<1>3. PICK id \in Replies[t] : Spends(id) = ContractCoins(t) /\ PaysExactly(id, paid)
  BY <1>2 DEF TransfersHaveReplies
<1>4. id \in Txs
  BY TxTypes
<1>5. OnChain \cup mempool \subseteq Txs
  BY DEF TypeInv, TypeOK, OnChain, RangeOf
<1>6. \A u \in OnChain \cup mempool : Spends(u) \cap ContractCoins(t) = {}
  <2> SUFFICES ASSUME NEW u \in OnChain \cup mempool, NEW o \in Spends(u) \cap ContractCoins(t)
               PROVE  FALSE
    OBVIOUS
  <2>1. u \in Txs /\ o \in Spends(u) \cap Creates(t) /\ Output(o).addr = c
    BY <1>5 DEF ContractCoins
  <2>2. PICK v \in Txs : /\ u \in Replies[v]
                         /\ Op[v].code \in {"C1", "A1"} \/ (Op[v].code = "T2" /\ v = t)
    BY <1>2, <2>1 DEF OnlyRepliesSpend
  <2>3. u \in MayTake(t)
    BY <2>2 DEF MayTake
  <2> QED
    BY <2>1, <2>3 DEF Taker
<1>7. Accepts(id)
  <2>1. id \notin OnChain \cup mempool
    BY <1>3, <1>4, <1>6, SpendsSomething
  <2>2. Parents(id) \subseteq {t}
    <3>1. ASSUME NEW i \in 1 .. Len(Vin[id]) PROVE Vin[id][i].tx = t
      <4>1. <<Vin[id][i].tx, Vin[id][i].n>> \in Creates(t)
        BY <1>3 DEF Spends, ContractCoins
      <4> QED
        BY <4>1 DEF Creates
    <3> QED
      BY <3>1 DEF Parents
  <2>3. t \in OnChain \cup mempool
    BY DEF OnNodeInv
  <2> QED
    BY <1>3, <1>6, <2>1, <2>2, <2>3 DEF Accepts
<1>8. T4Coins(Unspent(c), t) = ContractCoins(t)
  <2>1. T4Coins(Unspent(c), t) \subseteq ContractCoins(t)
    BY DEF T4Coins, Unspent, Outpoints, Creates, ContractCoins
  <2>2. ASSUME NEW o \in ContractCoins(t) PROVE o \in T4Coins(Unspent(c), t)
    <3>1. o[1] = t /\ o \in Outpoints /\ Output(o).addr = c
      BY DEF ContractCoins, Creates, Outpoints
    <3>2. o[1] \in OnChain \cup mempool
      BY <3>1 DEF OnNodeInv
    <3>3. \A u \in OnChain \cup mempool : o \notin Spends(u)
      BY <1>6
    <3> QED
      BY <3>1, <3>2, <3>3 DEF T4Coins, Unspent
  <2> QED
    BY <2>1, <2>2
<1>9. \A a \in DOMAIN paid : a # NoAddress /\ paid[a] > 0
  <2>1. T2Currency(Vin[t], Vout[t]) \in Nat /\ T2Currency(Vin[t], Vout[t]) > 7
    BY CurrencyType DEF Payable, FIXED_FEE, SETTLE_RECIEVE
  <2>2. T2Of[t].send # NoAddress /\ T2Of[t].recv # NoAddress
    BY DEF Payable
  <2>3. DOMAIN paid = {T2Of[t].send, T2Of[t].recv}
    BY DEF T4Paid
  <2>4. \A a \in DOMAIN paid :
           paid[a] = IF a = T2Of[t].recv THEN 5 ELSE T2Currency(Vin[t], Vout[t]) - 1 - 5
    BY <2>3 DEF T4Paid, FIXED_FEE, SETTLE_RECIEVE
  <2> HIDE DEF paid
  <2> QED
    BY <2>1, <2>2, <2>3, <2>4
<1>10. FundsT4(id, c)
  BY <1>2, <1>3, <1>8, <1>9 DEF FundsT4
<1>11. c \in ReplyFrom
  BY <1>2 DEF ReplyFrom
<1> QED
  BY <1>1, <1>7, <1>10, <1>11 DEF IsReply

\* The other coins do not matter, and no rounding either: a T4 is sent.
LEMMA T4IsSent ==
    ASSUME ~ RpcMayFail, TypeInv, TransfersHaveReplies, OnlyRepliesSpend, AnsweringInv,
           OnNodeInv, Reply, answering \in Txs, Payable(answering)
    PROVE  \E u \in (OnChain \cup mempool)' : Taker(answering, u)
<1> DEFINE t == answering
           c == T2Of[t].contract
<1>1. Op[t].code = "T2" /\ pc = "reply"
  BY DEF Payable, Reply
<1>2. ReplyFrom = {c}
  BY <1>1 DEF AnsweringInv, ReplyFrom
<1>3. ~ RoundingDecides
  <2>1. T2Currency(Vin[t], Vout[t]) \in Nat /\ T2Currency(Vin[t], Vout[t]) > 7
    BY CurrencyType DEF Payable, FIXED_FEE, SETTLE_RECIEVE
  <2>2. ~ (T2Currency(Vin[t], Vout[t]) <= 7)
    BY <2>1
  <2> QED
    BY <1>1, <2>2 DEF RoundingDecides, FIXED_FEE, SETTLE_RECIEVE
<1>4. CASE \E u \in OnChain \cup mempool : Taker(t, u)
  <2>1. OnChain \cup mempool \subseteq (OnChain \cup mempool)'
    BY DEF Reply, OnChain, RangeOf
  <2> QED
    BY <1>4, <2>1
<1>5. CASE \A u \in OnChain \cup mempool : ~ Taker(t, u)
  <2>1. \E id \in Replies[t] : IsReply(id)
    BY <1>1, <1>5, T4IsAccepted
  <2>2. PICK id \in Replies[t] : IsReply(id) /\ mempool' = mempool \cup {id}
    BY <1>3, <2>1 DEF Reply
  <2>3. FundsT4(id, c)
    BY <1>1, <1>2, <2>2 DEF IsReply
  <2>4. Spends(id) = T4Coins(Unspent(c), t)
    BY <2>3 DEF FundsT4
  <2>5. PICK o \in Spends(id) : TRUE
    BY TxTypes, SpendsSomething
  <2>6. o \in Outpoints /\ o[1] = t /\ Output(o).addr = c
    BY <2>4, <2>5 DEF T4Coins, Unspent
  <2>7. o \in Creates(t)
    BY <2>6 DEF Outpoints, Creates
  <2>8. Taker(t, id)
    BY <2>5, <2>6, <2>7 DEF Taker, MayTake
  <2> QED
    BY <2>2, <2>8
<1> QED
  BY <1>4, <1>5

\* A block read is one of the chain, and what heads a queue was in it.
LEMMA OnNodeStep ==
    ASSUME TypeInv, TypeInv', IInv, OnNodeInv, [Next]_vars
    PROVE  OnNodeInv'
<1> USE DEF node, db, scan, memory, response
<1> DEFINE N == OnChain \cup mempool
<1>1. N \subseteq N'
  BY NodeForgetsNothing DEF NodeGrows
<1>2. /\ json_txs \in Seq(Txs) /\ Len(json_txs) \in Nat
      /\ vect_tx_ \in Seq(Entry) /\ Len(vect_tx_) \in Nat
  <2>1. json_txs \in Seq(Txs) /\ vect_tx_ \in Seq(Entry)
    BY DEF TypeInv, TypeOK
  <2> QED
    BY <2>1
<1>3. ASSUME UNCHANGED <<json_txs, json_pool, vect_tx_>>,
             pc' = "reply" => pc = "reply" /\ answering' = answering
      PROVE  OnNodeInv'
  BY <1>1, <1>3 DEF OnNodeInv, RangeOf
<1>4. CASE GetBlock
  <2>1. /\ pre_block_height < current_height
        /\ json_txs' = chain[pre_block_height + 1] \/ json_txs' = json_txs
        /\ UNCHANGED <<json_pool, vect_tx_, pc, answering>>
    BY <1>4 DEF GetBlock
  <2>2. pre_block_height + 1 \in 1 .. Len(chain)
    BY <1>4, GetBlockHeight DEF GetBlock
  <2>3. RangeOf(json_txs') \subseteq N
    BY <2>1, <2>2 DEF OnNodeInv, OnChain
  <2> QED
    BY <1>1, <2>1, <2>3 DEF OnNodeInv, RangeOf
<1>5. ASSUME NEW t \in N, NEW height, AddTransaction(t, height)
      PROVE  \A i \in 1 .. Len(vect_tx_') : vect_tx_'[i].tx \in N
  <2>1. CASE ~ HasOpReturn(t)
    BY <1>5, <2>1 DEF AddTransaction, OnNodeInv
  <2>2. CASE HasOpReturn(t)
    <3> DEFINE e == [tx |-> t, height |-> height]
    <3>1. vect_tx_' = Append(vect_tx_, e) /\ e.tx = t
      BY <1>5, <2>2 DEF AddTransaction
    <3> HIDE DEF e
    <3>2. ASSUME NEW i \in 1 .. Len(vect_tx_') PROVE vect_tx_'[i].tx \in N
      <4>1. i = Len(vect_tx_) + 1 => vect_tx_'[i] = e
        BY <1>2, <3>1
      <4>2. i # Len(vect_tx_) + 1 => i \in 1 .. Len(vect_tx_) /\ vect_tx_'[i] = vect_tx_[i]
        BY <1>2, <3>1
      <4> QED
        BY <3>1, <4>1, <4>2 DEF OnNodeInv
    <3> QED
      BY <3>2
  <2> QED
    BY <2>1, <2>2
<1>6. CASE ReadBlockTx
  <2>1. /\ json_txs # << >> /\ json_txs' = Tail(json_txs)
        /\ AddTransaction(Head(json_txs), pre_block_height) \/ vect_tx_' = vect_tx_
        /\ UNCHANGED <<json_pool, pc, answering>>
    BY <1>6 DEF ReadBlockTx
  <2>2. Head(json_txs) \in N
    BY <1>2, <2>1 DEF OnNodeInv, RangeOf
  <2>3. RangeOf(json_txs') \subseteq RangeOf(json_txs)
    <3>1. Len(json_txs') = Len(json_txs) - 1
          /\ \A i \in 1 .. Len(json_txs') :
               json_txs'[i] = json_txs[i + 1] /\ i + 1 \in 1 .. Len(json_txs)
      BY <1>2, <2>1
    <3> QED
      BY <3>1 DEF RangeOf
  <2>4. \A i \in 1 .. Len(vect_tx_') : vect_tx_'[i].tx \in N
    BY <1>5, <2>1, <2>2 DEF OnNodeInv
  <2> QED
    BY <1>1, <2>1, <2>3, <2>4 DEF OnNodeInv
<1>7. CASE GetRawMempool
  <2>1. /\ json_pool' \subseteq json_pool \cup mempool
        /\ UNCHANGED <<json_txs, vect_tx_>> /\ pc' # "reply"
    BY <1>7 DEF GetRawMempool, Unseen
  <2> QED
    BY <1>1, <2>1 DEF OnNodeInv, RangeOf
<1>8. CASE ReadMempoolTx
  <2>1. PICK t \in json_pool : /\ json_pool' = json_pool \ {t}
                               /\ AddTransaction(t, InMempool) \/ vect_tx_' = vect_tx_
    BY <1>8 DEF ReadMempoolTx
  <2>2. UNCHANGED <<json_txs, pc, answering>>
    BY <1>8 DEF ReadMempoolTx
  <2>3. \A i \in 1 .. Len(vect_tx_') : vect_tx_'[i].tx \in N
    BY <1>5, <2>1 DEF OnNodeInv
  <2> QED
    BY <1>1, <2>1, <2>2, <2>3 DEF OnNodeInv, RangeOf
<1>9. CASE FlushUpdate \/ FlushInsert
  <2>1. /\ vect_tx_ # << >> /\ vect_tx_' = Tail(vect_tx_) /\ UNCHANGED <<json_txs, json_pool>>
    BY <1>9 DEF FlushUpdate, FlushInsert
  <2>2. Len(vect_tx_') = Len(vect_tx_) - 1
        /\ \A i \in 1 .. Len(vect_tx_') :
             vect_tx_'[i] = vect_tx_[i + 1] /\ i + 1 \in 1 .. Len(vect_tx_)
    BY <1>2, <2>1
  <2>3. Head(vect_tx_).tx \in N
    BY <1>2, <2>1 DEF OnNodeInv
  <2>4. pc' = "reply" => answering' = Head(vect_tx_).tx
    <3>1. CASE FlushUpdate
      BY <3>1 DEF FlushUpdate
    <3>2. CASE FlushInsert
      BY <3>2 DEF FlushInsert, ResponseAction, ResponseActionC1, ResponseActionA1,
         ResponseActionT2, ResponseActionT4, Respond, Ignore
    <3> QED
      BY <1>9, <3>1, <3>2
  <2> QED
    BY <1>1, <2>1, <2>2, <2>3, <2>4 DEF OnNodeInv, RangeOf
<1>10. CASE FlushThrows \/ Crash
  <2>1. json_txs' = << >> /\ json_pool' = {} /\ vect_tx_' = << >> /\ pc' = "down"
    BY <1>10 DEF FlushThrows, Crash, Die
  <2>2. Len(<< >>) = 0
    OBVIOUS
  <2> QED
    BY <2>1, <2>2 DEF OnNodeInv, RangeOf
<1>11. CASE Reply \/ InsertRow \/ Commit
  BY <1>3, <1>11 DEF Reply, InsertRow, Commit
<1>12. CASE Submit \/ Mine \/ GetBlockCount \/ BlocksDone \/ MempoolDone \/ FlushUtxo
            \/ Start \/ UNCHANGED vars
  BY <1>3, <1>12 DEF Submit, Mine, GetBlockCount, BlocksDone, MempoolDone, FlushUtxo, Start, vars
<1> QED
  BY <1>4, <1>6, <1>7, <1>8, <1>9, <1>10, <1>11, <1>12 DEF Next, Loop, Environment

LEMMA SettlementNames ==
    ASSUME NEW t \in Txs, rows' = Settlement(t)
    PROVE  /\ rows'[1].contract = T2Of[t].contract /\ rows'[1].address = T2Of[t].send
           /\ rows'[2].address = T2Of[t].recv /\ rows' # << >>
BY DEF Settlement, Row, T2Key

LEMMA AnsweringStep ==
    ASSUME TypeInv, AnsweringInv, [Next]_vars
    PROVE  AnsweringInv'
<1> USE DEF node, db, scan, memory, response
<1>1. CASE FlushInsert
  <2> DEFINE t == Head(vect_tx_).tx
  <2>1. pc = "flush" /\ ResponseAction(t) /\ vect_tx_ # << >>
    BY <1>1 DEF FlushInsert
  <2>2. t \in Txs
    <3>1. Head(vect_tx_) \in Entry
      BY <2>1 DEF TypeInv, TypeOK
    <3> QED
      BY <3>1 DEF Entry
  <2> HIDE DEF t
  <2>3. CASE Ignore
    BY <2>1, <2>3 DEF Ignore, AnsweringInv
  <2>4. CASE Op[t].code = "T2" /\ ResponseActionT2(t) /\ ~ Ignore
    <3>1. /\ T2Of[t].contract \in MyAddresses /\ rows' = Settlement(t)
          /\ answering' = t /\ pc' = "reply"
      BY <2>4 DEF ResponseActionT2, Respond, Settles
    <3> QED
      BY <2>2, <3>1, SettlementNames DEF AnsweringInv
  <2>5. CASE Op[t].code # "T2" /\ ~ Ignore
    <3>1. answering' = t /\ pc' \in {"reply", "rows"}
      BY <2>1, <2>5 DEF ResponseAction, ResponseActionC1, ResponseActionA1,
         ResponseActionT4, Respond
    <3> QED
      BY <2>5, <3>1 DEF AnsweringInv
  <2> QED
    BY <2>1, <2>3, <2>4, <2>5 DEF ResponseAction
<1>2. CASE Reply \/ InsertRow
  BY <1>2 DEF Reply, InsertRow, AnsweringInv
<1>3. CASE FlushThrows \/ Crash
  BY <1>3 DEF FlushThrows, Crash, Die, AnsweringInv
<1>4. CASE GetBlockCount \/ GetBlock \/ ReadBlockTx \/ BlocksDone \/ GetRawMempool
           \/ ReadMempoolTx \/ MempoolDone \/ FlushUpdate \/ Commit \/ FlushUtxo
           \/ Submit \/ Mine \/ Start \/ UNCHANGED vars
  <2>1. UNCHANGED <<answering, rows>>
    BY <1>4 DEF GetBlockCount, GetBlock, ReadBlockTx, BlocksDone, GetRawMempool,
       ReadMempoolTx, MempoolDone, FlushUpdate, Commit, FlushUtxo, Submit, Mine, Start, vars
  <2>2. pc' = pc \/ (pc \notin {"reply", "rows"} /\ pc' \notin {"reply", "rows"})
    BY <1>4 DEF GetBlockCount, GetBlock, ReadBlockTx, BlocksDone, GetRawMempool,
       ReadMempoolTx, MempoolDone, FlushUpdate, Commit, FlushUtxo, Submit, Mine, Start, vars
  <2> QED
    BY <2>1, <2>2 DEF AnsweringInv
<1> QED
  BY <1>1, <1>2, <1>3, <1>4 DEF Next, Loop, Environment

\* The money moves when the answer ends; afterwards the node does not forget it.
LEMMA SettledStep ==
    ASSUME ~ RpcMayFail, MaxCrashes = 0, TransfersHaveReplies, OnlyRepliesSpend,
           TypeInv, OnNodeInv, AnsweringInv, SettledOrRobbed, [Next]_vars
    PROVE  SettledOrRobbed'
<1> USE DEF node, db, scan, memory, response
<1> DEFINE N == OnChain \cup mempool
<1> SUFFICES ASSUME NEW t \in Txs, Payable(t), answered'[t] > 0, answering' # t
             PROVE  \E u \in N' : Taker(t, u)
  BY DEF SettledOrRobbed, Taker, MayTake
<1>1. N \subseteq N'
  BY NodeForgetsNothing DEF NodeGrows
<1>2. ASSUME answered[t] > 0, answering # t PROVE \E u \in N' : Taker(t, u)
  BY <1>1, <1>2, SettledByTaker
<1>3. Op[t].code = "T2" /\ t # NoTxid
  BY TxAssumption DEF Payable
<1>4. CASE FlushInsert
  <2>1. pc = "flush" /\ answering = NoTxid
    BY <1>4 DEF FlushInsert, AnsweringInv
  <2>2. answered' = answered \/ (answered' = [answered EXCEPT ![answering'] = @ + 1])
    BY <1>4 DEF FlushInsert, ResponseAction, ResponseActionC1, ResponseActionA1,
       ResponseActionT2, ResponseActionT4, Respond, Ignore
  <2>3. answered'[t] = answered[t]
    BY <2>2 DEF TypeInv, TypeOK
  <2> QED
    BY <1>2, <1>3, <2>1, <2>3
<1>5. CASE Reply
  <2>1. answered' = answered /\ pc = "reply"
    BY <1>5 DEF Reply
  <2>2. CASE answering = t
    BY <1>5, <2>2, T4IsSent
  <2> QED
    BY <1>2, <2>1, <2>2
<1>6. CASE InsertRow
  <2>1. answered' = answered /\ answering # t
    BY <1>3, <1>6 DEF InsertRow, AnsweringInv
  <2> QED
    BY <1>2, <2>1
<1>7. CASE FlushThrows
  <2>1. answered' = answered /\ answering # t
    BY <1>3, <1>7 DEF FlushThrows, AnsweringInv
  <2> QED
    BY <1>2, <2>1
<1>8. CASE Crash
  BY <1>8 DEF Crash, TypeInv, TypeOK
<1>9. CASE GetBlockCount \/ GetBlock \/ ReadBlockTx \/ BlocksDone \/ GetRawMempool
           \/ ReadMempoolTx \/ MempoolDone \/ FlushUpdate \/ Commit \/ FlushUtxo
           \/ Submit \/ Mine \/ Start \/ UNCHANGED vars
  <2>1. UNCHANGED <<answering, answered>>
    BY <1>9 DEF GetBlockCount, GetBlock, ReadBlockTx, BlocksDone, GetRawMempool,
       ReadMempoolTx, MempoolDone, FlushUpdate, Commit, FlushUtxo, Submit, Mine, Start, vars
  <2> QED
    BY <1>2, <2>1
<1> QED
  BY <1>4, <1>5, <1>6, <1>7, <1>8, <1>9 DEF Next, Loop, Environment

\* As long as scanblock does not die and hears every RPC answer: the money that a
\* settled transfer paid the contract is with its parties, through its own T4, or
\* in the reply to another request, and not left behind (CreateTransactionT4,
\* Handler::CreateTransaction).
THEOREM MoneyMoves ==
    MaxCrashes = 0 /\ ~ RpcMayFail /\ TransfersHaveReplies /\ OnlyRepliesSpend =>
        (Spec => []SettledOrRobbed)
<1> SUFFICES ASSUME MaxCrashes = 0, ~ RpcMayFail, TransfersHaveReplies, OnlyRepliesSpend
             PROVE  Spec => []SettledOrRobbed
  OBVIOUS
<1>1. Init => TypeInv /\ IInv /\ OnNodeInv /\ AnsweringInv /\ SettledOrRobbed
  <2>1. Init => OnNodeInv /\ AnsweringInv
    <3>1. Len(<< >>) = 0
      OBVIOUS
    <3> QED
      BY <3>1 DEF Init, OnNodeInv, AnsweringInv, RangeOf
  <2>2. Init => SettledOrRobbed
    BY DEF Init, SettledOrRobbed
  <2> QED
    BY <2>1, <2>2, TypeInit, InitInv
<1>2. TypeInv /\ IInv /\ OnNodeInv /\ AnsweringInv /\ SettledOrRobbed /\ [Next]_vars
      => TypeInv' /\ IInv' /\ OnNodeInv' /\ AnsweringInv' /\ SettledOrRobbed'
  BY TypeStep, StepInv, OnNodeStep, AnsweringStep, SettledStep
<1> QED
  BY <1>1, <1>2, PTL DEF Spec
=============================================================================
