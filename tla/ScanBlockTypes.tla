--------------------------- MODULE ScanBlockTypes ---------------------------
(***************************************************************************)
(* Type correctness of ScanBlock, for every set of transactions, every     *)
(* wallet and every bound.                                                 *)
(***************************************************************************)
EXTENDS ScanBlock, WalletInfoProofs, FiniteSetTheorems, SequenceTheorems

USE DEF NotRecorded, InMempool

-----------------------------------------------------------------------------
(* Types of the operators *)

Names == Txs \cup {NoTxid} \cup Assets \cup Holders

LEMMA WalletRowsAreRows == Seq(WalletRow) \subseteq Seq(AnyRow(Names))
<1>1. WalletRow \subseteq AnyRow(Names)
  BY DEF WalletRow, AnyRow, Names
<1> QED
  BY <1>1

LEMMA SharesAreQuantities ==
    ASSUME wallet \in Seq(WalletRow), NEW k
    PROVE  QueryContract(wallet, k) \in Qty
BY WalletRowsAreRows, QueryContractType

\* The parts of the constant records.
LEMMA TxTypes ==
    ASSUME NEW t \in Txs
    PROVE  /\ Vin[t] \in Seq([tx : Txs \cup {NoTxid}, n : Nat, addr : Addresses])
           /\ Vin[t] # << >>
           /\ Vout[t] \in Seq([addr : Addresses, value : Nat])
           /\ Op[t].asset \in Assets /\ Op[t].qty1 \in Qty /\ Op[t].qty2 \in Qty
           /\ Replies[t] \subseteq Txs
BY TxAssumption

LEMMA LastAddressType ==
    ASSUME NEW vout \in Seq([addr : Addresses, value : Nat]),
           NEW S \in SUBSET (1 .. Len(vout))
    PROVE  LastAddress(vout, S) \in Holders
<1>1. CASE S = {}
  BY <1>1 DEF LastAddress, Holders
<1>2. CASE S # {}
  <2>1. Len(vout) \in Nat
    OBVIOUS
  <2>2. Latest(S) \in 1 .. Len(vout)
    BY <1>2, <2>1, LatestInSet
  <2>3. vout[Latest(S)].addr \in Addresses
    <3>1. vout[Latest(S)] \in [addr : Addresses, value : Nat]
      BY <2>2, ElementOfSeq
    <3> QED
      BY <3>1
  <2>4. LastAddress(vout, S) = vout[Latest(S)].addr
    BY <1>2, Zenon DEF LastAddress, Latest
  <2> QED
    BY <2>3, <2>4 DEF Holders
<1> QED
  BY <1>1, <1>2

LEMMA T2OfType ==
    ASSUME NEW t \in Txs
    PROVE  T2Of[t].contract \in Holders /\ T2Of[t].send \in Holders
           /\ T2Of[t].recv \in Holders
<1> DEFINE vout == Vout[t]
           own == {i \in 1 .. Len(vout) : vout[i].addr \in InputAddresses(Vin[t])}
           fee == {i \in own : vout[i].addr = Op[t].fee_address}
<1>1. vout \in Seq([addr : Addresses, value : Nat])
  BY TxTypes
<1>2. T2Of[t] = [contract |-> LastAddress(vout, (1 .. Len(vout)) \ own),
                 send     |-> LastAddress(vout, fee),
                 recv     |-> LastAddress(vout, own \ fee)]
  BY DEF T2Of, T2Roles
<1>3. /\ own \in SUBSET (1 .. Len(vout)) /\ fee \in SUBSET (1 .. Len(vout))
      /\ (1 .. Len(vout)) \ own \in SUBSET (1 .. Len(vout))
      /\ own \ fee \in SUBSET (1 .. Len(vout))
  OBVIOUS
<1> HIDE DEF vout, own, fee
<1>4. \A S \in SUBSET (1 .. Len(vout)) : LastAddress(vout, S) \in Holders
  BY <1>1, LastAddressType
<1> QED
  BY <1>2, <1>3, <1>4

LEMMA RowType ==
    ASSUME NEW contract \in Holders, NEW asset \in Assets, NEW address \in Holders,
           NEW q \in Qty, NEW ty \in RowTypes, NEW id \in Txs \cup {NoTxid}
    PROVE  Row([contract |-> contract, asset |-> asset, address |-> address], q, ty, id)
             \in WalletRow
BY DEF Row, WalletRow

LEMMA SettlementType ==
    ASSUME wallet \in Seq(WalletRow), NEW t \in Txs
    PROVE  Settlement(t) \in Seq(WalletRow)
<1> DEFINE send == T2Key(t, T2Of[t].send)
           recv == T2Key(t, T2Of[t].recv)
           s == Sub64(QueryContract(wallet, send), Op[t].qty1)
           r == Add64(QueryContract(wallet, recv), Op[t].qty1)
<1>1. s \in Qty /\ r \in Qty
  BY SharesAreQuantities, TxTypes, Sub64Type, Add64Type
<1>2. Row(send, s, "T4", NoTxid) \in WalletRow
  BY <1>1, T2OfType, TxTypes, RowType DEF T2Key, RowTypes
<1>3. Row(recv, r, "T4", NoTxid) \in WalletRow
  BY <1>1, T2OfType, TxTypes, RowType DEF T2Key, RowTypes
<1>4. Settlement(t) = <<Row(send, s, "T4", NoTxid), Row(recv, r, "T4", NoTxid)>>
  BY DEF Settlement
<1> HIDE DEF send, recv, s, r
<1> QED
  BY <1>2, <1>3, <1>4

LEMMA HandledByType ==
    ASSUME NEW t \in Txs
    PROVE  HandledBy(t) \subseteq Holders
<1> DEFINE mine == {i \in 1 .. Len(Vout[t]) : Vout[t][i].addr \in MyAddresses}
<1>1. ASSUME NEW i \in 1 .. Len(Vout[t])
      PROVE  Vout[t][i].addr \in Addresses
  <2>1. Vout[t][i] \in [addr : Addresses, value : Nat]
    BY TxTypes, ElementOfSeq
  <2> QED
    BY <2>1
<1>2. mine # {} => First(mine) \in mine
  <2>1. mine \in SUBSET Nat
    BY TxTypes
  <2> HIDE DEF mine
  <2> QED
    BY <2>1, FirstInSet
<1>3. HandledBy(t) \subseteq {Vout[t][i].addr : i \in mine} \cup {NoAddress}
  <2>1. HandledBy(t) = IF RpcMayFail THEN {Vout[t][i].addr : i \in mine} \cup {NoAddress}
                       ELSE IF mine = {} \/ Vin[t][1].addr \in MyAddresses THEN {NoAddress}
                       ELSE {Vout[t][First(mine)].addr}
    BY DEF HandledBy
  <2> HIDE DEF mine
  <2> QED
    BY <1>2, <2>1
<1> QED
  BY <1>1, <1>3 DEF Holders

\* What the table takes of a row is that row or nothing.
LEMMA StoredType ==
    ASSUME NEW row \in WalletRow
    PROVE  Stored(row) \in Seq(WalletRow) /\ (Stored(row) = <<row>> \/ Stored(row) = << >>)
BY EmptySeq DEF Stored

LEMMA T4RowsType ==
    ASSUME NEW t \in Txs, NEW mine \in SUBSET MyAddresses
    PROVE  T4Rows(t, mine) \in Seq(WalletRow)
<1> DEFINE contract == T4Contract(Vin[t])
           k(address) == [contract |-> contract, asset |-> Op[t].asset, address |-> address]
           taken(address, qty) == IF address \notin mine THEN << >>
                                  ELSE Stored(Row(k(address), qty, "T4", t))
<1>1. contract \in Holders
  <2> DEFINE vin == Vin[t]
  <2>1. vin \in Seq([tx : Txs \cup {NoTxid}, n : Nat, addr : Addresses]) /\ vin # << >>
    BY TxTypes
  <2> HIDE DEF vin
  <2>2. vin[Len(vin)] \in [tx : Txs \cup {NoTxid}, n : Nat, addr : Addresses]
    <3>1. Len(vin) \in 1 .. Len(vin)
      BY <2>1
    <3> QED
      BY <2>1, <3>1, ElementOfSeq
  <2>3. Vin[t][Len(Vin[t])].addr \in Addresses
    BY <2>2 DEF vin
  <2> QED
    BY <2>3 DEF T4Contract, Holders
<1>2. ASSUME NEW address, NEW qty \in Qty
      PROVE  taken(address, qty) \in Seq(WalletRow)
  <2>1. CASE address \notin mine
    BY <2>1
  <2>2. CASE address \in mine
    <3>1. address \in Holders
      BY <2>2, AddressAssumption DEF Holders
    <3>2. Row(k(address), qty, "T4", t) \in WalletRow
      BY <1>1, <3>1, TxTypes, RowType DEF RowTypes
    <3> QED
      BY <2>2, <3>2, StoredType
  <2> QED
    BY <2>1, <2>2
<1> DEFINE roles == T4Roles(Vin[t], Vout[t])
<1>3. T4Rows(t, mine) = taken(roles.send, Op[t].qty1) \o taken(roles.recv, Op[t].qty2)
  BY DEF T4Rows
<1>4. taken(roles.send, Op[t].qty1) \in Seq(WalletRow)
  BY <1>2, TxTypes
<1>5. taken(roles.recv, Op[t].qty2) \in Seq(WalletRow)
  BY <1>2, TxTypes
<1> HIDE DEF taken
<1> QED
  BY <1>3, <1>4, <1>5, ConcatProperties

\* What a step that answers a transaction leaves in the variables of responses.
LEMMA ResponseType ==
    ASSUME TypeOK, NEW t \in Txs, ResponseAction(t)
    PROVE  /\ pc' \in {pc, "reply", "rows"}
           /\ answering' \in Txs \cup {NoTxid}
           /\ rows' \in Seq(WalletRow)
           /\ answered' \in [Txs -> Nat]
           /\ pc' = "reply" /\ pc # "reply" => answering' \in Txs
<1> DEFINE Typed == /\ pc' \in {pc, "reply", "rows"}
                    /\ answering' \in Txs \cup {NoTxid}
                    /\ rows' \in Seq(WalletRow)
                    /\ answered' \in [Txs -> Nat]
                    /\ pc' = "reply" /\ pc # "reply" => answering' \in Txs
<1>1. ASSUME Ignore PROVE Typed
  BY <1>1 DEF Ignore, response, TypeOK
<1>2. ASSUME NEW next \in {"reply", "rows"}, NEW rs \in Seq(WalletRow), Respond(t, next, rs)
      PROVE  Typed
  BY <1>2 DEF Respond, TypeOK
<1>3. wallet \in Seq(WalletRow)
  BY DEF TypeOK
<1> PICK contract \in HandledBy(t) :
           \/ ResponseActionT2(t)
           \/ ResponseActionC1(t)
           \/ ResponseActionA1(t, contract)
           \/ ResponseActionT4(t)
           \/ Ignore
  BY DEF ResponseAction
<1> SUFFICES Typed
  OBVIOUS
<1> HIDE DEF Typed
<1>4. CASE ResponseActionT2(t)
  BY <1>1, <1>2, <1>3, <1>4, SettlementType DEF ResponseActionT2
<1>5. CASE ResponseActionC1(t)
  <2>1. << >> \in Seq(WalletRow)
    BY EmptySeq
  <2> QED
    BY <1>2, <1>5, <2>1 DEF ResponseActionC1
<1>6. CASE ResponseActionA1(t, contract)
  <2> DEFINE k == [contract |-> contract, asset |-> Op[t].asset, address |-> Vin[t][1].addr]
             row == Row(k, Op[t].qty1, "A2", NoTxid)
  <2>1. Vin[t][1].addr \in Holders
    <3>1. 1 \in 1 .. Len(Vin[t])
      BY TxTypes, EmptySeq
    <3>2. Vin[t][1] \in [tx : Txs \cup {NoTxid}, n : Nat, addr : Addresses]
      BY TxTypes, <3>1, ElementOfSeq
    <3> QED
      BY <3>2 DEF Holders
  <2>2. row \in WalletRow
    BY <2>1, HandledByType, TxTypes, RowType DEF RowTypes
  <2>3. Respond(t, "reply", Stored(row))
    BY <1>6 DEF ResponseActionA1
  <2> HIDE DEF row
  <2>4. Stored(row) \in Seq(WalletRow)
    BY <2>2, StoredType
  <2> QED
    BY <1>2, <2>3, <2>4
<1>7. CASE ResponseActionT4(t)
  <2>1. PICK mine \in SUBSET MyAddresses : Ignore \/ Respond(t, "rows", T4Rows(t, mine))
    BY <1>7 DEF ResponseActionT4
  <2>2. T4Rows(t, mine) \in Seq(WalletRow)
    BY T4RowsType
  <2> QED
    BY <1>1, <1>2, <2>1, <2>2
<1> QED
  BY <1>1, <1>4, <1>5, <1>6, <1>7

LEMMA AddTransactionType ==
    ASSUME TypeOK, NEW t \in Txs, NEW height \in {InMempool} \cup 1 .. MaxHeight,
           AddTransaction(t, height)
    PROVE  /\ vect_utxo_' \in Seq(Txs) /\ vect_tx_' \in Seq(Entry)
           /\ vect_mempool_tx_' \subseteq Txs /\ vect_insert' \in [Txs -> Statement]
<1>1. [tx |-> t, height |-> height] \in Entry
  BY DEF Entry
<1>2. Append(vect_tx_, [tx |-> t, height |-> height]) \in Seq(Entry)
  BY <1>1, AppendProperties DEF TypeOK
<1>3. Append(vect_utxo_, t) \in Seq(Txs)
  BY AppendProperties DEF TypeOK
<1> QED
  BY <1>2, <1>3 DEF AddTransaction, TypeOK

-----------------------------------------------------------------------------
(* The type invariant, with the bounds the types of heights rest on *)

TypeInv == TypeOK /\ BoundInv

LEMMA StartHeightType == \A h \in Heights : StartHeight(h) \in Qty
BY BoundAssumption, WidthAssumption DEF Heights, StartHeight, Qty

LEMMA SurvivingCount ==
    ASSUME NEW q \in Seq(Txs), NEW o
    PROVE  Cardinality(Surviving(q, o)) \in Nat
<1>1. Len(q) \in Nat
  OBVIOUS
<1>2. IsFiniteSet(1 .. Len(q))
  BY <1>1, FS_Interval
<1>3. Surviving(q, o) \subseteq 1 .. Len(q)
  BY DEF Surviving
<1> QED
  BY <1>2, <1>3, FS_Subset, FS_CardinalityType

LEMMA TypeInit == Init => TypeInv
<1> SUFFICES ASSUME Init PROVE TypeInv
  OBVIOUS
<1>1. << >> \in Seq(Seq(Txs)) /\ << >> \in Seq(WalletRow) /\ << >> \in Seq(Txs)
      /\ << >> \in Seq(Entry) /\ Len(<< >>) = 0
  BY EmptySeq
<1>2. NoInserts \in [Txs -> Statement]
  BY DEF NoInserts, NoStatement, Statement
<1>3. 0 \in Qty
  BY WidthAssumption DEF Qty
<1>4. TypeOK
  BY <1>1, <1>2, <1>3, BoundAssumption DEF Init, TypeOK, PCs, Heights
<1>5. BoundInv
  BY <1>1 DEF Init, BoundInv
<1> QED
  BY <1>4, <1>5 DEF TypeInv

\* What a death leaves is typed.
LEMMA DieType ==
    ASSUME TypeInv, Die, UNCHANGED <<node, db, answered>>
    PROVE  TypeInv'
<1>1. << >> \in Seq(WalletRow) /\ << >> \in Seq(Txs) /\ << >> \in Seq(Entry)
  BY EmptySeq
<1>2. NoInserts \in [Txs -> Statement]
  BY DEF NoInserts, NoStatement, Statement
<1>3. 0 \in Qty
  BY WidthAssumption DEF Qty
<1>4. Len(chain) \in Nat
  BY DEF TypeInv, TypeOK
<1>5. TypeOK'
  BY <1>1, <1>2, <1>3, BoundAssumption DEF Die, TypeInv, TypeOK, PCs, Heights, node, db
<1>6. BoundInv'
  BY <1>4 DEF Die, BoundInv, node
<1> QED
  BY <1>5, <1>6 DEF TypeInv

\* The next height to fetch is one of the chain.
LEMMA GetBlockHeight ==
    ASSUME TypeInv, GetBlock
    PROVE  /\ pre_block_height + 1 \in 1 .. Len(chain)
           /\ pre_block_height + 1 \in 1 .. current_height
<1>1. pre_block_height \in Nat /\ current_height \in Nat /\ Len(chain) \in Nat
  BY WidthAssumption, BoundAssumption DEF TypeInv, TypeOK, Qty
<1>2. current_height <= Len(chain) /\ pre_block_height < current_height
  BY DEF TypeInv, BoundInv, GetBlock
<1> QED
  BY <1>1, <1>2

LEMMA TypeStep == TypeInv /\ [Next]_vars => TypeInv'
<1> SUFFICES ASSUME TypeInv, [Next]_vars PROVE TypeInv'
  OBVIOUS
<1> USE DEF TypeInv, TypeOK, BoundInv, node, db, scan, memory, response
<1>0. MaxHeight \in Nat /\ MaxHeight < TwoTo64 /\ TwoTo64 \in Nat
      /\ Len(chain) \in 0 .. MaxHeight
  BY BoundAssumption, WidthAssumption
<1>1. CASE GetBlockCount
  BY <1>0, <1>1 DEF GetBlockCount, PCs
<1>2. CASE GetBlock
  <2>1. pre_block_height + 1 \in 1 .. Len(chain) /\ pre_block_height + 1 \in 1 .. current_height
    BY <1>2, GetBlockHeight
  <2>2. chain[pre_block_height + 1] \in Seq(Txs)
    BY <2>1, ElementOfSeq
  <2>3. pre_block_height + 1 \in Qty
    BY <1>0, <2>1 DEF Qty
  <2> QED
    BY <1>2, <2>1, <2>2, <2>3 DEF GetBlock
<1>3. CASE ReadBlockTx
  <2>1. Head(json_txs) \in Txs /\ Tail(json_txs) \in Seq(Txs)
    BY <1>3, HeadTailProperties DEF ReadBlockTx
  <2>2. pre_block_height \in 1 .. MaxHeight
    BY <1>0, <1>3 DEF ReadBlockTx
  <2>3. /\ vect_utxo_' \in Seq(Txs) /\ vect_tx_' \in Seq(Entry)
        /\ vect_mempool_tx_' \subseteq Txs /\ vect_insert' \in [Txs -> Statement]
    BY <1>3, <2>1, <2>2, AddTransactionType DEF ReadBlockTx
  <2> QED
    BY <1>3, <2>1, <2>2, <2>3 DEF ReadBlockTx
<1>4. CASE BlocksDone
  BY <1>0, <1>4 DEF BlocksDone, PCs
<1>5. CASE GetRawMempool
  BY <1>5 DEF GetRawMempool, Unseen, PCs
<1>6. CASE ReadMempoolTx
  <2>1. PICK t \in json_pool : /\ json_pool' = json_pool \ {t}
                               /\ AddTransaction(t, InMempool) \/ UNCHANGED memory
    BY <1>6 DEF ReadMempoolTx
  <2>2. /\ vect_utxo_' \in Seq(Txs) /\ vect_tx_' \in Seq(Entry)
        /\ vect_mempool_tx_' \subseteq Txs /\ vect_insert' \in [Txs -> Statement]
    BY <2>1, AddTransactionType
  <2> QED
    BY <1>6, <2>1, <2>2 DEF ReadMempoolTx
<1>7. CASE MempoolDone
  BY <1>7 DEF MempoolDone, PCs
<1>8. CASE FlushUpdate
  <2>1. Head(vect_tx_) \in Entry /\ Tail(vect_tx_) \in Seq(Entry)
    BY <1>8, HeadTailProperties DEF FlushUpdate
  <2>2. [op |-> "UPDATE", height |-> Head(vect_tx_).height] \in Statement
    BY <2>1 DEF Entry, Statement
  <2> QED
    BY <1>8, <2>1, <2>2 DEF FlushUpdate
<1>9. CASE FlushInsert
  <2>1. Head(vect_tx_) \in Entry /\ Tail(vect_tx_) \in Seq(Entry)
    BY <1>9, HeadTailProperties DEF FlushInsert
  <2>2. [op |-> "INSERT", height |-> Head(vect_tx_).height] \in Statement
    BY <2>1 DEF Entry, Statement
  <2>3. vect_insert' \in [Txs -> Statement]
    BY <1>9, <2>2 DEF FlushInsert
  <2>4. Head(vect_tx_).tx \in Txs /\ ResponseAction(Head(vect_tx_).tx)
    BY <1>9, <2>1 DEF FlushInsert, Entry
  <2>5. /\ pc' \in {"flush", "reply", "rows"}
        /\ answering' \in Txs \cup {NoTxid}
        /\ rows' \in Seq(WalletRow)
        /\ answered' \in [Txs -> Nat]
        /\ pc' = "reply" => answering' \in Txs
    BY <1>9, <2>4, ResponseType DEF FlushInsert
  <2> QED
    BY <1>9, <2>1, <2>3, <2>5 DEF FlushInsert, PCs
<1>10. CASE FlushThrows
  BY <1>10, DieType DEF FlushThrows
<1>11. CASE Reply
  <2>1. PICK id \in Replies[answering] \cup {NoTxid} :
           /\ mempool' = mempool \/ \E u \in Replies[answering] : mempool' = mempool \cup {u}
           /\ rows' = [i \in 1 .. Len(rows) |-> [rows[i] EXCEPT !.txid = id]]
    BY <1>11 DEF Reply
  <2>2. id \in Txs \cup {NoTxid} /\ Replies[answering] \subseteq Txs
    BY <1>11, TxTypes DEF Reply
  <2>3. ASSUME NEW i \in 1 .. Len(rows)
        PROVE  [rows[i] EXCEPT !.txid = id] \in WalletRow
    <3>1. rows[i] \in WalletRow
      BY ElementOfSeq
    <3> QED
      BY <2>2, <3>1 DEF WalletRow
  <2>4. rows' \in Seq(WalletRow)
    BY <2>1, <2>3
  <2>5. mempool' \subseteq Txs
    BY <2>1, <2>2
  <2> QED
    BY <1>11, <2>4, <2>5 DEF Reply, PCs
<1>12. CASE InsertRow
  BY <1>12 DEF InsertRow, PCs
<1>13. CASE Commit
  <2>1. NoInserts \in [Txs -> Statement]
    BY DEF NoInserts, NoStatement, Statement
  <2>2. ASSUME NEW t \in Txs
        PROVE  Executed(vect_insert[t], txinfo[t]) \in Heights
    <3>1. vect_insert[t] \in Statement /\ txinfo[t] \in Heights
      OBVIOUS
    <3> QED
      BY <3>1 DEF Executed, Statement, Heights
  <2>3. txinfo' \in [Txs -> Heights]
    BY <1>13, <2>2 DEF Commit
  <2> QED
    BY <1>13, <2>1, <2>3 DEF Commit, PCs
<1>14. CASE FlushUtxo
  BY <1>14, SurvivingCount DEF FlushUtxo, PCs
<1>15. CASE Start
  <2>1. pre_block_height' \in Qty
    BY <1>15, StartHeightType DEF Start, Heights
  <2>2. vect_mempool_tx_' \subseteq Txs
    BY <1>15 DEF Start, Unconfirmed
  <2> QED
    BY <1>15, <2>1, <2>2 DEF Start, PCs
<1>16. CASE Crash
  BY <1>16, DieType DEF Crash
<1>17. CASE Submit
  BY <1>17 DEF Submit, Requests
<1>18. CASE Mine
  <2>0. PICK n \in 0 .. Cardinality(mempool) : \E b \in [1 .. n -> mempool] :
           chain' = Append(chain, b) /\ mempool' = mempool \ RangeOf(b)
    BY <1>18 DEF Mine
  <2>1. PICK b \in [1 .. n -> mempool] :
           chain' = Append(chain, b) /\ mempool' = mempool \ RangeOf(b)
    BY <2>0
  <2>2. Cardinality(mempool) \in Nat
    BY TxAssumption, FS_Subset, FS_CardinalityType
  <2>3. b \in Seq(Txs)
    <3>1. n \in Nat /\ b \in [1 .. n -> Txs]
      BY <2>1, <2>2
    <3> QED
      BY <3>1, SeqDef
  <2>4. chain' \in Seq(Seq(Txs)) /\ Len(chain') = Len(chain) + 1
    BY <2>1, <2>3, AppendProperties
  <2> QED
    BY <1>0, <1>18, <2>1, <2>4 DEF Mine
<1>19. CASE UNCHANGED vars
  BY <1>19 DEF vars
<1> QED
  BY <1>1, <1>2, <1>3, <1>4, <1>5, <1>6, <1>7, <1>8, <1>9, <1>10, <1>11, <1>12,
     <1>13, <1>14, <1>15, <1>16, <1>17, <1>18, <1>19 DEF Next, Loop, Environment

\* Every variable of the scan keeps its type: for all transactions, and however
\* often RPC calls fail and the process dies.
THEOREM TypeCorrect == Spec => []TypeOK
<1>1. TypeInv => TypeOK
  BY DEF TypeInv
<1> QED
  BY TypeInit, TypeStep, <1>1, PTL DEF Spec
=============================================================================
