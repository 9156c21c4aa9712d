--------------------------- MODULE DatabaseProofs ---------------------------
(***************************************************************************)
(* What the two tables of the scan say of the chain.                       *)
(*                                                                         *)
(* With every RPC call answered, no block that carries an OP_RETURN is     *)
(* missing below the height the scan resumes from, whenever the process    *)
(* dies: RecordedBelowTip, for every set of transactions and every chain.  *)
(* RecordedBelowTip speaks of txinfo alone and is not inductive: a Commit  *)
(* writes heights of several blocks at once, so it must be known that      *)
(* every transaction of every block counted as scanned is on its way.      *)
(*                                                                         *)
(* The table utxo of a scan that is not restarted and hears every RPC      *)
(* answer has one row for each unspent output of the blocks scanned        *)
(* (UtxoExact), for every chain whose blocks list parents first.  Between  *)
(* two flushes the scanned transactions are in three places: in the block  *)
(* being read, in vect_utxo_, or in the table.  The argument is that a     *)
(* transaction moves through them once, in the order of the chain, so that *)
(* a row is deleted after it was inserted.                                 *)
(*                                                                         *)
(* A restart breaks UtxoExact, and how far is bounded: a run of the        *)
(* process reads a block once, so it lists an output once more at most     *)
(* (UtxoListedOncePerRun), whatever fails and whatever the block order.    *)
(***************************************************************************)
EXTENDS ScanBlockProofs

-----------------------------------------------------------------------------
(* Table txinfo *)

\* Where a transaction of block h is, between its block and txinfo.
Known(t, h) ==
    \/ txinfo[t] = h
    \/ vect_insert[t].op # "none" /\ vect_insert[t].height = h
    \/ \E i \in 1 .. Len(vect_tx_) : vect_tx_[i].tx = t /\ vect_tx_[i].height = h
    \/ h = pre_block_height /\ \E i \in 1 .. Len(json_txs) : json_txs[i] = t

\* Nothing of the blocks scanned is lost on the way.
Covered ==
    /\ pre_block_height <= Len(chain)
    /\ \A h \in 1 .. Len(chain) : h <= pre_block_height =>
         \A t \in RangeOf(chain[h]) : HasOpReturn(t) => Known(t, h)

\* A process that was started when txinfo held unconfirmed transactions only reads
\* no block: the height -1 became the largest uint64_t (Start).
Blind ==
    /\ pre_block_height >= MaxHeight /\ json_txs = << >>
    /\ \A t \in Txs : txinfo[t] <= 0 /\ vect_insert[t].height = InMempool
    /\ \A i \in 1 .. Len(vect_tx_) : vect_tx_[i].height = InMempool

\* An UPDATE is collected for a transaction that has a row.
UpdateInv == \A t \in Txs : vect_insert[t].op = "UPDATE" => txinfo[t] = InMempool

RecordedInv ==
    /\ RecordedBelowTip /\ UpdateInv
    /\ pc # "down" => Covered \/ Blind

USE DEF NotRecorded, InMempool

-----------------------------------------------------------------------------
(* Steps that leave the queues, txinfo and the chain as they are *)

LEMMA QuietStep ==
    ASSUME RecordedInv, pc' # "down" => pc # "down",
           UNCHANGED <<chain, txinfo, vect_insert, vect_tx_, pre_block_height, json_txs>>
    PROVE  RecordedInv'
<1>1. Covered => Covered'
  BY DEF Covered, Known, RangeOf
<1>2. Blind => Blind'
  BY DEF Blind
<1>3. RecordedBelowTip' /\ UpdateInv'
  BY DEF RecordedInv, RecordedBelowTip, UpdateInv, RangeOf
<1> QED
  BY <1>1, <1>2, <1>3 DEF RecordedInv

\* A new block is above everything recorded and everything counted as scanned.
LEMMA MineRecords ==
    ASSUME TypeInv, IInv, RecordedInv, Mine
    PROVE  RecordedInv'
<1>1. /\ UNCHANGED <<txinfo, vect_insert, vect_tx_, pre_block_height, json_txs>> /\ pc' = pc
      /\ \E n \in 0 .. Cardinality(mempool) : \E b \in [1 .. n -> mempool] :
            chain' = Append(chain, b)
  BY DEF Mine, db, scan, memory
<1>2. PICK b : chain' = Append(chain, b)
  BY <1>1
<1>3. chain \in Seq(Seq(Txs)) /\ Len(chain) \in Nat /\ txinfo \in [Txs -> Heights]
      /\ pre_block_height \in Nat
  BY WidthAssumption DEF TypeInv, TypeOK, Qty
<1>4. Len(chain') = Len(chain) + 1 /\ \A h \in 1 .. Len(chain) : chain'[h] = chain[h]
  BY <1>2, <1>3
<1>5. \A u \in Txs : txinfo[u] \in Int /\ txinfo[u] <= Len(chain)
  <2> SUFFICES ASSUME NEW u \in Txs PROVE txinfo[u] \in Int /\ txinfo[u] <= Len(chain)
    OBVIOUS
  <2>1. txinfo[u] \in Int
    BY <1>3, BoundAssumption DEF Heights
  <2>2. txinfo[u] > 0 => txinfo[u] <= Len(chain)
    BY <1>3 DEF IInv, HeightInv, MinedAt
  <2> QED
    BY <1>3, <2>1, <2>2
<1>6. RecordedBelowTip'
  <2> SUFFICES ASSUME NEW h \in 1 .. Len(chain'), NEW t \in RangeOf(chain'[h]),
                      HasOpReturn(t), NEW u \in Txs, txinfo[u] >= h
               PROVE  txinfo[t] = h
    BY <1>1 DEF RecordedBelowTip, HasOpReturn, RangeOf
  <2>1. h \in 1 .. Len(chain)
    BY <1>3, <1>4, <1>5
  <2> QED
    BY <1>4, <2>1 DEF RecordedInv, RecordedBelowTip
<1>7. Covered => Covered'
  <2> SUFFICES ASSUME Covered PROVE Covered'
    OBVIOUS
  <2>1. pre_block_height' <= Len(chain')
    BY <1>1, <1>3, <1>4 DEF Covered
  <2>2. ASSUME NEW h \in 1 .. Len(chain'), h <= pre_block_height',
               NEW t \in RangeOf(chain'[h]), HasOpReturn(t)
        PROVE  Known(t, h)'
    <3>1. h \in 1 .. Len(chain)
      BY <1>1, <1>3, <1>4, <2>2 DEF Covered
    <3>2. Known(t, h)
      BY <1>1, <1>4, <2>2, <3>1 DEF Covered
    <3> QED
      BY <1>1, <3>2 DEF Known
  <2> QED
    BY <2>1, <2>2 DEF Covered, HasOpReturn, RangeOf
<1>8. Blind => Blind'
  BY <1>1 DEF Blind
<1>9. UpdateInv'
  BY <1>1 DEF RecordedInv, UpdateInv
<1> QED
  BY <1>1, <1>6, <1>7, <1>8, <1>9 DEF RecordedInv

-----------------------------------------------------------------------------
(* Reading blocks and the mempool *)

\* A process that is blind never gets to a block.
LEMMA BlindReadsNoBlock ==
    ASSUME TypeInv, Blind
    PROVE  ~ GetBlock /\ ~ ReadBlockTx
<1>1. pre_block_height \in Nat /\ current_height \in 0 .. MaxHeight /\ MaxHeight \in Nat
  BY WidthAssumption, BoundAssumption DEF TypeInv, TypeOK, Qty
<1> QED
  BY <1>1 DEF Blind, GetBlock, ReadBlockTx

LEMMA GetBlockRecords ==
    ASSUME TypeInv, RecordedInv, GetBlock, ~ RpcMayFail
    PROVE  RecordedInv'
<1>1. /\ UNCHANGED <<chain, txinfo, vect_insert, vect_tx_, pc>>
      /\ pc # "down" /\ json_txs = << >>
      /\ json_txs' = chain[pre_block_height + 1]
      /\ pre_block_height' = pre_block_height + 1
  BY DEF GetBlock, node, db, memory
<1>2. pre_block_height + 1 \in 1 .. Len(chain)
  BY GetBlockHeight
<1>3. Covered /\ UpdateInv /\ RecordedBelowTip
  BY <1>1, BlindReadsNoBlock DEF RecordedInv
<1>4. pre_block_height \in Nat /\ Len(chain) \in Nat /\ Len(json_txs) = 0
  BY <1>1, WidthAssumption DEF TypeInv, TypeOK, Qty
<1>5. Covered'
  <2>1. pre_block_height' <= Len(chain')
    BY <1>1, <1>2
  <2>2. ASSUME NEW h \in 1 .. Len(chain), h <= pre_block_height + 1,
               NEW t \in RangeOf(chain[h]), HasOpReturn(t)
        PROVE  Known(t, h)'
    <3>1. CASE h <= pre_block_height
      <4>1. Known(t, h)
        BY <1>3, <2>2, <3>1 DEF Covered
      <4> QED
        BY <1>1, <1>4, <4>1 DEF Known
    <3>2. CASE h = pre_block_height + 1
      BY <1>1, <2>2, <3>2 DEF Known, RangeOf
    <3> QED
      BY <1>4, <2>2, <3>1, <3>2
  <2> QED
    BY <1>1, <2>1, <2>2 DEF Covered, HasOpReturn, RangeOf
<1>6. RecordedBelowTip' /\ UpdateInv'
  BY <1>1, <1>3 DEF RecordedBelowTip, UpdateInv, RangeOf
<1> QED
  BY <1>5, <1>6 DEF RecordedInv

\* What is appended to the queue stands beside what was known.
LEMMA AppendedIsKnown ==
    ASSUME vect_tx_ \in Seq(Entry), NEW e, vect_tx_' = Append(vect_tx_, e)
    PROVE  /\ \A i \in 1 .. Len(vect_tx_) : i \in 1 .. Len(vect_tx_') /\ vect_tx_'[i] = vect_tx_[i]
           /\ \A i \in 1 .. Len(vect_tx_') : i \in 1 .. Len(vect_tx_) \/ vect_tx_'[i] = e
           /\ \E i \in 1 .. Len(vect_tx_') : vect_tx_'[i] = e
<1>1. Len(vect_tx_) \in Nat /\ Len(vect_tx_') = Len(vect_tx_) + 1
  OBVIOUS
<1>2. vect_tx_'[Len(vect_tx_) + 1] = e /\ \A i \in 1 .. Len(vect_tx_) : vect_tx_'[i] = vect_tx_[i]
  OBVIOUS
<1> QED
  BY <1>1, <1>2

LEMMA ReadBlockTxRecords ==
    ASSUME TypeInv, RecordedInv, ReadBlockTx, ~ RpcMayFail
    PROVE  RecordedInv'
<1> DEFINE u == Head(json_txs)
           e == [tx |-> u, height |-> pre_block_height]
<1>1. /\ UNCHANGED <<chain, txinfo, vect_insert, pre_block_height, pc>>
      /\ pc # "down" /\ json_txs # << >> /\ json_txs' = Tail(json_txs)
      /\ vect_tx_' = IF HasOpReturn(u) THEN Append(vect_tx_, e) ELSE vect_tx_
  BY DEF ReadBlockTx, AddTransaction, node, db, memory
<1>2. Covered /\ UpdateInv /\ RecordedBelowTip
  BY <1>1, BlindReadsNoBlock DEF RecordedInv
<1>3. e.tx = u /\ e.height = pre_block_height
  OBVIOUS
<1>4. vect_tx_ \in Seq(Entry) /\ json_txs \in Seq(Txs)
  BY DEF TypeInv, TypeOK
<1>5. /\ Len(json_txs) \in Nat /\ u = json_txs[1] /\ Len(json_txs') = Len(json_txs) - 1
      /\ \A i \in 1 .. Len(json_txs') : json_txs'[i] = json_txs[i + 1]
  BY <1>1, <1>4, HeadTailProperties
<1> HIDE DEF u, e
<1>6. ASSUME NEW t, NEW h, HasOpReturn(t), Known(t, h)
      PROVE  Known(t, h)'
  <2>1. CASE txinfo[t] = h \/ (vect_insert[t].op # "none" /\ vect_insert[t].height = h)
    BY <1>1, <2>1 DEF Known
  <2>2. CASE \E i \in 1 .. Len(vect_tx_) : vect_tx_[i].tx = t /\ vect_tx_[i].height = h
    BY <1>1, <1>4, <2>2, AppendedIsKnown DEF Known
  <2>3. CASE h = pre_block_height /\ \E i \in 1 .. Len(json_txs) : json_txs[i] = t
    <3>1. PICK i \in 1 .. Len(json_txs) : json_txs[i] = t
      BY <2>3
    <3>2. CASE i = 1
      <4>1. vect_tx_' = Append(vect_tx_, e) /\ e.tx = t /\ e.height = h
        BY <1>1, <1>3, <1>5, <1>6, <2>3, <3>1, <3>2
      <4> QED
        BY <1>4, <4>1, AppendedIsKnown DEF Known
    <3>3. CASE i # 1
      <4>1. i - 1 \in 1 .. Len(json_txs') /\ json_txs'[i - 1] = t
        BY <1>5, <3>1, <3>3
      <4> QED
        BY <1>1, <2>3, <4>1 DEF Known
    <3> QED
      BY <3>2, <3>3
  <2> QED
    BY <1>6, <2>1, <2>2, <2>3 DEF Known
<1>7. Covered'
  BY <1>1, <1>2, <1>6 DEF Covered, HasOpReturn, RangeOf
<1>8. RecordedBelowTip' /\ UpdateInv'
  BY <1>1, <1>2 DEF RecordedBelowTip, UpdateInv, RangeOf
<1> QED
  BY <1>7, <1>8 DEF RecordedInv

LEMMA ReadMempoolTxRecords ==
    ASSUME TypeInv, RecordedInv, ReadMempoolTx
    PROVE  RecordedInv'
<1>1. /\ UNCHANGED <<chain, txinfo, vect_insert, pre_block_height, json_txs, pc>>
      /\ pc # "down"
      /\ \/ vect_tx_' = vect_tx_
         \/ \E t \in json_pool : vect_tx_' = Append(vect_tx_, [tx |-> t, height |-> InMempool])
  BY DEF ReadMempoolTx, AddTransaction, node, db, memory
<1>2. CASE vect_tx_' = vect_tx_
  BY <1>1, <1>2, QuietStep
<1>3. ASSUME NEW t \in json_pool,
             vect_tx_' = Append(vect_tx_, [tx |-> t, height |-> InMempool])
      PROVE  RecordedInv'
  <2> DEFINE e == [tx |-> t, height |-> InMempool]
  <2>1. e.height = InMempool /\ vect_tx_' = Append(vect_tx_, e) /\ vect_tx_ \in Seq(Entry)
    BY <1>3 DEF TypeInv, TypeOK
  <2> HIDE DEF e
  <2>2. \A u, h : Known(u, h) => Known(u, h)'
    BY <1>1, <2>1, AppendedIsKnown DEF Known
  <2>3. Covered => Covered'
    BY <1>1, <2>2 DEF Covered, HasOpReturn, RangeOf
  <2>4. Blind => Blind'
    BY <1>1, <2>1, AppendedIsKnown DEF Blind
  <2>5. RecordedBelowTip' /\ UpdateInv'
    BY <1>1 DEF RecordedInv, RecordedBelowTip, UpdateInv, RangeOf
  <2> QED
    BY <1>1, <2>3, <2>4, <2>5 DEF RecordedInv
<1> QED
  BY <1>1, <1>2, <1>3

-----------------------------------------------------------------------------
(* FlushToDB *)

\* The head of the queue goes on as a statement, with its height.
LEMMA FlushKnows ==
    ASSUME TypeInv, IInv, vect_tx_ # << >>, vect_tx_' = Tail(vect_tx_),
           NEW op \in {"INSERT", "UPDATE"},
           vect_insert' = [vect_insert EXCEPT ![Head(vect_tx_).tx] =
                             [op |-> op, height |-> Head(vect_tx_).height]],
           UNCHANGED <<chain, txinfo, pre_block_height, json_txs>>,
           Covered \/ Blind
    PROVE  Covered' \/ Blind'
<1> DEFINE e == Head(vect_tx_)
           s == [op |-> op, height |-> e.height]
<1>1. /\ e.tx \in Txs /\ e = vect_tx_[1] /\ vect_insert[e.tx] = NoStatement
      /\ Len(vect_tx_) \in Nat /\ 1 \in 1 .. Len(vect_tx_)
  <2>1. QueueHead(e) /\ Len(vect_tx_) \in Nat
    BY HeadOfQueue
  <2>2. vect_tx_ \in Seq(Entry)
    BY DEF TypeInv, TypeOK
  <2> QED
    BY <2>1, <2>2 DEF QueueHead, Entry
<1>2. /\ Len(vect_tx_') = Len(vect_tx_) - 1
      /\ \A i \in 1 .. Len(vect_tx_') :
           i + 1 \in 1 .. Len(vect_tx_) /\ vect_tx_'[i] = vect_tx_[i + 1]
  BY HeadOfQueue
<1>3. vect_insert \in [Txs -> Statement]
  BY DEF TypeInv, TypeOK
<1>4. s.op # "none" /\ s.height = e.height /\ NoStatement.op = "none"
  BY DEF NoStatement
<1> HIDE DEF e, s
<1>5. vect_insert'[e.tx] = s /\ \A t : t # e.tx => vect_insert'[t] = vect_insert[t]
  BY <1>1, <1>3 DEF e, s
<1>6. ASSUME NEW t, NEW h, Known(t, h) PROVE Known(t, h)'
  <2>1. CASE txinfo[t] = h \/ (h = pre_block_height /\ \E i \in 1 .. Len(json_txs) : json_txs[i] = t)
    BY <2>1 DEF Known
  <2>2. CASE vect_insert[t].op # "none" /\ vect_insert[t].height = h
    BY <1>1, <1>4, <1>5, <2>2 DEF Known
  <2>3. ASSUME NEW i \in 1 .. Len(vect_tx_), vect_tx_[i].tx = t, vect_tx_[i].height = h
        PROVE  Known(t, h)'
    <3>1. CASE i = 1
      BY <1>1, <1>4, <1>5, <2>3, <3>1 DEF Known
    <3>2. CASE i # 1
      <4>1. i - 1 \in 1 .. Len(vect_tx_') /\ vect_tx_'[i - 1] = vect_tx_[i]
        BY <1>1, <1>2, <3>2
      <4> QED
        BY <2>3, <4>1 DEF Known
    <3> QED
      BY <3>1, <3>2
  <2> QED
    BY <1>6, <2>1, <2>2, <2>3 DEF Known
<1>7. Covered => Covered'
  BY <1>6 DEF Covered, HasOpReturn, RangeOf
<1>8. Blind => Blind'
  BY <1>1, <1>2, <1>4, <1>5 DEF Blind
<1> QED
  BY <1>7, <1>8

LEMMA FlushUpdateRecords ==
    ASSUME TypeInv, IInv, RecordedInv, FlushUpdate
    PROVE  RecordedInv'
<1> DEFINE e == Head(vect_tx_)
<1>1. /\ UNCHANGED <<chain, txinfo, pre_block_height, json_txs>>
      /\ pc = "flush" /\ vect_tx_ # << >> /\ vect_tx_' = Tail(vect_tx_)
      /\ e.height # InMempool /\ e.tx \in vect_mempool_tx_
      /\ vect_insert' = [vect_insert EXCEPT ![e.tx] = [op |-> "UPDATE", height |-> e.height]]
  BY DEF FlushUpdate, IsUpdate, node, db, scan
<1>2. Covered' \/ Blind'
  BY <1>1, FlushKnows DEF RecordedInv
<1>3. e.tx \in Txs /\ e = vect_tx_[1] /\ vect_insert[e.tx] = NoStatement /\ 1 \in 1 .. Len(vect_tx_)
  <2>1. QueueHead(e) /\ Len(vect_tx_) \in Nat
    BY <1>1, HeadOfQueue
  <2>2. vect_tx_ \in Seq(Entry)
    BY DEF TypeInv, TypeOK
  <2> QED
    BY <1>1, <2>1, <2>2 DEF QueueHead, Entry
<1> HIDE DEF e
<1>4. txinfo[e.tx] = InMempool
  <2>1. vect_insert[e.tx].op = "none"
    BY <1>3 DEF NoStatement
  <2>2. \A i \in 1 .. Len(vect_tx_) : vect_tx_[i] # [tx |-> e.tx, height |-> InMempool]
    BY <1>1, <1>3 DEF IInv, QueueInv
  <2> QED
    BY <1>1, <2>1, <2>2 DEF IInv, SeenInv
<1>5. UpdateInv'
  <2>1. vect_insert \in [Txs -> Statement]
    BY DEF TypeInv, TypeOK
  <2> QED
    BY <1>1, <1>3, <1>4, <2>1 DEF RecordedInv, UpdateInv
<1>6. RecordedBelowTip'
  BY <1>1 DEF RecordedInv, RecordedBelowTip, RangeOf
<1> QED
  BY <1>2, <1>5, <1>6 DEF RecordedInv

LEMMA FlushInsertRecords ==
    ASSUME TypeInv, IInv, RecordedInv, FlushInsert
    PROVE  RecordedInv'
<1> DEFINE e == Head(vect_tx_)
<1>1. /\ UNCHANGED <<chain, txinfo, pre_block_height, json_txs>>
      /\ pc = "flush" /\ vect_tx_ # << >> /\ vect_tx_' = Tail(vect_tx_)
      /\ vect_insert' = [vect_insert EXCEPT ![e.tx] = [op |-> "INSERT", height |-> e.height]]
  BY DEF FlushInsert, node, db, scan
<1>2. Covered' \/ Blind'
  BY <1>1, FlushKnows DEF RecordedInv
<1> HIDE DEF e
<1>3. UpdateInv'
  <2>1. vect_insert \in [Txs -> Statement]
    BY DEF TypeInv, TypeOK
  <2> QED
    BY <1>1, <2>1 DEF RecordedInv, UpdateInv
<1>4. RecordedBelowTip'
  BY <1>1 DEF RecordedInv, RecordedBelowTip, RangeOf
<1> QED
  BY <1>2, <1>3, <1>4 DEF RecordedInv

\* All of a flush is written together: what was on its way is recorded.
LEMMA CommitRecords ==
    ASSUME TypeInv, IInv, IInv', RecordedInv, Commit
    PROVE  RecordedInv'
<1>1. /\ UNCHANGED <<chain, pre_block_height, json_txs, vect_tx_>>
      /\ pc = "flush" /\ pc' # "down" /\ vect_tx_ = << >> /\ vect_insert' = NoInserts
      /\ \A t \in Txs : txinfo'[t] = Executed(vect_insert[t], txinfo[t])
  BY DEF Commit, node
<1>2. Len(vect_tx_) = 0 /\ json_txs = << >> /\ Len(json_txs) = 0
  BY <1>1 DEF TypeInv, BoundInv
<1>3. /\ txinfo \in [Txs -> Heights] /\ txinfo' \in [Txs -> Heights]
      /\ vect_insert \in [Txs -> Statement] /\ pre_block_height \in Nat
  <2>1. TypeInv'
    BY TypeStep DEF Next, Loop
  <2>2. txinfo' \in [Txs -> Heights]
    BY <2>1 DEF TypeInv, TypeOK
  <2> QED
    BY <2>2, WidthAssumption DEF TypeInv, TypeOK, Qty
<1>4. ASSUME NEW t \in Txs, NEW h \in Nat \ {0}, Known(t, h)
      PROVE  txinfo'[t] = h
  <2>1. /\ vect_insert[t].op = "INSERT" => txinfo[t] = NotRecorded
        /\ vect_insert[t].op = "UPDATE" => txinfo[t] = InMempool
    BY DEF IInv, StatementInv, RecordedInv, UpdateInv
  <2>2. vect_insert[t].op \in {"none", "INSERT", "UPDATE"}
    BY <1>3 DEF Statement
  <2>3. CASE txinfo[t] = h
    BY <1>1, <2>1, <2>2, <2>3 DEF Executed
  <2>4. CASE vect_insert[t].op # "none" /\ vect_insert[t].height = h
    BY <1>1, <2>1, <2>2, <2>4 DEF Executed
  <2> QED
    BY <1>2, <1>4, <2>3, <2>4 DEF Known
<1>5. \A h \in 1 .. Len(chain) : \A t \in RangeOf(chain[h]) : t \in Txs
  BY ElementOfSeq DEF TypeInv, TypeOK, RangeOf
<1>6. CASE Covered
  <2>1. ASSUME NEW h \in 1 .. Len(chain), h <= pre_block_height,
               NEW t \in RangeOf(chain[h]), HasOpReturn(t)
        PROVE  txinfo'[t] = h
    BY <1>4, <1>5, <1>6, <2>1 DEF Covered
  <2>2. Covered'
    BY <1>1, <1>6, <2>1 DEF Covered, Known, HasOpReturn, RangeOf
  <2>3. RecordedBelowTip'
    <3> SUFFICES ASSUME NEW h \in 1 .. Len(chain), NEW t \in RangeOf(chain[h]),
                        HasOpReturn(t), NEW u \in Txs, txinfo'[u] >= h
                 PROVE  txinfo'[t] = h
      BY <1>1 DEF RecordedBelowTip, HasOpReturn, RangeOf
    <3>1. txinfo'[u] \in Int
      BY <1>3, BoundAssumption DEF Heights
    <3>2. txinfo'[u] > 0
      BY <3>1
    <3>3. txinfo'[u] <= pre_block_height
      BY <1>1, <3>2 DEF IInv, HeightInv
    <3> QED
      BY <1>3, <2>1, <3>1, <3>3
  <2> QED
    BY <1>1, <2>2, <2>3 DEF RecordedInv, UpdateInv, NoInserts, NoStatement
<1>7. CASE Blind
  <2>1. \A t \in Txs : txinfo'[t] <= 0
    BY <1>1, <1>7 DEF Blind, Executed
  <2>2. Blind'
    BY <1>1, <1>2, <1>7, <2>1 DEF Blind, NoInserts, NoStatement
  <2>3. RecordedBelowTip'
    <3> SUFFICES ASSUME NEW h \in 1 .. Len(chain), NEW u \in Txs, txinfo'[u] >= h
                 PROVE  FALSE
      BY <1>1 DEF RecordedBelowTip
    <3>1. txinfo'[u] \in Int
      BY <1>3, BoundAssumption DEF Heights
    <3> QED
      BY <2>1, <3>1
  <2> QED
    BY <1>1, <2>2, <2>3 DEF RecordedInv, UpdateInv, NoInserts, NoStatement
<1> QED
  BY <1>1, <1>6, <1>7 DEF RecordedInv

-----------------------------------------------------------------------------
(* Deaths and starts *)

LEMMA DieRecords ==
    ASSUME RecordedInv, Die, UNCHANGED <<node, db, answered>>
    PROVE  RecordedInv'
<1>1. chain' = chain /\ txinfo' = txinfo /\ pc' = "down" /\ vect_insert' = NoInserts
  BY DEF Die, node, db
<1> QED
  BY <1>1 DEF RecordedInv, RecordedBelowTip, UpdateInv, NoInserts, NoStatement, RangeOf

\* The scan resumes from the highest height recorded, and below it everything is:
\* unless only unconfirmed transactions are recorded.
LEMMA StartRecords ==
    ASSUME TypeInv, IInv, RecordedInv, Start
    PROVE  RecordedInv'
<1>1. /\ UNCHANGED <<chain, txinfo, json_txs, vect_tx_, vect_insert>> /\ pc = "down"
  BY DEF Start, node, db
<1>2. PICK h \in {NotRecorded} \cup {txinfo[t] : t \in Txs} :
        (\A t \in Txs : txinfo[t] <= h) /\ pre_block_height' = StartHeight(h)
  BY DEF Start
<1>3. /\ json_txs = << >> /\ vect_tx_ = << >> /\ Len(vect_tx_) = 0 /\ vect_insert = NoInserts
      /\ txinfo \in [Txs -> Heights] /\ Len(chain) \in Nat
  BY <1>1 DEF IInv, BoundInv, PhaseInv, TypeInv, TypeOK
<1>4. RecordedBelowTip' /\ UpdateInv'
  BY <1>1 DEF RecordedInv, RecordedBelowTip, UpdateInv, RangeOf
<1>5. h \in Heights
  BY <1>2, <1>3 DEF Heights
<1>6. CASE h = NotRecorded
  <2>1. pre_block_height' = 0
    BY <1>2, <1>6 DEF StartHeight
  <2>2. Covered'
    BY <1>1, <1>3, <2>1 DEF Covered
  <2> QED
    BY <1>4, <2>2 DEF RecordedInv
<1>7. CASE h = InMempool
  <2>1. pre_block_height' = TwoTo64 - 1
    BY <1>2, <1>7, WidthAssumption DEF StartHeight
  <2>2. pre_block_height' >= MaxHeight
    BY <2>1, BoundAssumption, WidthAssumption
  <2>3. \A t \in Txs : txinfo[t] <= 0
    BY <1>2, <1>3, <1>7, BoundAssumption DEF Heights
  <2>4. \A t \in Txs : vect_insert[t].height = InMempool
    BY <1>3 DEF NoInserts, NoStatement
  <2>5. Blind'
    BY <1>1, <1>3, <2>2, <2>3, <2>4 DEF Blind
  <2> QED
    BY <1>4, <2>5 DEF RecordedInv
<1>8. CASE h \in 1 .. MaxHeight
  <2>1. pre_block_height' = h
    BY <1>2, <1>8, BoundAssumption DEF StartHeight
  <2>2. PICK u \in Txs : txinfo[u] = h
    BY <1>2, <1>8, BoundAssumption
  <2>3. h <= Len(chain)
    BY <1>3, <1>8, <2>2, BoundAssumption DEF IInv, HeightInv, MinedAt
  <2>4. Covered'
    <3>1. ASSUME NEW g \in 1 .. Len(chain), g <= h, NEW t \in RangeOf(chain[g]), HasOpReturn(t)
          PROVE  txinfo[t] = g
      <4>1. txinfo[u] >= g
        BY <2>2, <3>1
      <4> QED
        BY <3>1, <4>1 DEF RecordedInv, RecordedBelowTip
    <3> QED
      BY <1>1, <2>1, <2>3, <3>1 DEF Covered, Known, HasOpReturn, RangeOf
  <2> QED
    BY <1>4, <2>4 DEF RecordedInv
<1> QED
  BY <1>5, <1>6, <1>7, <1>8 DEF Heights

-----------------------------------------------------------------------------
(* The theorem *)

LEMMA InitRecorded == Init => RecordedInv
BY EmptySeq DEF Init, RecordedInv, RecordedBelowTip, UpdateInv, NoInserts, NoStatement

LEMMA StepRecorded ==
    ~ RpcMayFail /\ TypeInv /\ IInv /\ RecordedInv /\ [Next]_vars => RecordedInv'
<1> SUFFICES ASSUME ~ RpcMayFail, TypeInv, IInv, RecordedInv, [Next]_vars
             PROVE  RecordedInv'
  OBVIOUS
<1>1. IInv'
  BY StepInv
<1>2. CASE Mine
  BY <1>2, MineRecords
<1>3. CASE GetBlock
  BY <1>3, GetBlockRecords
<1>4. CASE ReadBlockTx
  BY <1>4, ReadBlockTxRecords
<1>5. CASE ReadMempoolTx
  BY <1>5, ReadMempoolTxRecords
<1>6. CASE FlushUpdate
  BY <1>6, FlushUpdateRecords
<1>7. CASE FlushInsert
  BY <1>7, FlushInsertRecords
<1>8. CASE Commit
  BY <1>1, <1>8, CommitRecords
<1>9. CASE FlushThrows \/ Crash
  BY <1>9, DieRecords DEF FlushThrows, Crash
<1>10. CASE Start
  BY <1>10, StartRecords
<1>11. CASE \/ Submit \/ GetBlockCount \/ BlocksDone \/ GetRawMempool \/ MempoolDone
           \/ Reply \/ InsertRow \/ FlushUtxo \/ UNCHANGED vars
  <2>1. /\ UNCHANGED <<chain, txinfo, vect_insert, vect_tx_, pre_block_height, json_txs>>
        /\ pc' # "down" => pc # "down"
    BY <1>11 DEF Submit, GetBlockCount, BlocksDone, GetRawMempool, MempoolDone, Reply,
       InsertRow, FlushUtxo, vars, node, db, scan, memory
  <2> QED
    BY <2>1, QuietStep
<1> QED
  BY <1>2, <1>3, <1>4, <1>5, <1>6, <1>7, <1>8, <1>9, <1>10, <1>11
     DEF Next, Loop, Environment

\* With every RPC call answered, whatever carries an OP_RETURN in a block not above
\* the highest height in txinfo is recorded with the height of its block, however
\* often the process dies and wherever in its loop.
THEOREM RecordedTip == ~ RpcMayFail => (Spec => []RecordedBelowTip)
<1> SUFFICES ASSUME ~ RpcMayFail PROVE Spec => []RecordedBelowTip
  OBVIOUS
<1>1. Init => RecordedInv
  BY InitRecorded
<1>2. TypeInv /\ IInv /\ RecordedInv /\ [Next]_vars => RecordedInv'
  BY StepRecorded
<1>3. RecordedInv => RecordedBelowTip
  BY DEF RecordedInv
<1> QED
  BY <1>1, <1>2, <1>3, InvCorrect, PTL DEF Spec

-----------------------------------------------------------------------------
(* Table utxo *)

Unread(t) == \E i \in 1 .. Len(json_txs) : json_txs[i] = t
Queued(t) == \E i \in 1 .. Len(vect_utxo_) : vect_utxo_[i] = t
Flushed(t) == t \in ScannedTxs /\ ~ Queued(t) /\ ~ Unread(t)

\* What waits for the table was scanned, and is not read a second time.
QueuedInv == \A t \in Txs : Queued(t) => t \in ScannedTxs /\ ~ Unread(t)

\* The first run of the process starts from nothing, and with no restart it is the
\* only one.
FirstRunInv ==
    /\ pc # "down" => crashes = 0
    /\ pc = "down" => pre_block_height = 0 /\ vect_utxo_ = << >>
    /\ pc = "down" /\ crashes = 0 => \A t \in Txs : txinfo[t] = NotRecorded
    /\ pc = "getblockcount" => vect_utxo_ = << >>
    /\ pre_block_height <= Len(chain)
    /\ QueuedInv

\* What a transaction spends is mined before it.
ChainOrder ==
    \A h \in 1 .. Len(chain) : \A j \in 1 .. Len(chain[h]) : \A t \in Parents(chain[h][j]) :
        \/ \E g \in 1 .. (h - 1) : MinedAt(t, g)
        \/ \E i \in 1 .. (j - 1) : chain[h][i] = t

\* What a transaction spends is read, queued and flushed before it.
ReadOrder ==
    /\ \A t \in Txs : Flushed(t) => \A p \in Parents(t) : Flushed(p)
    /\ \A t \in Txs : Queued(t) => \A p \in Parents(t) : Flushed(p) \/ Queued(p)
    /\ \A j \in 1 .. Len(json_txs) : \A p \in Parents(json_txs[j]) :
         Flushed(p) \/ Queued(p) \/ \E i \in 1 .. (j - 1) : json_txs[i] = p
    /\ \A i, j \in 1 .. Len(vect_utxo_) : vect_utxo_[i] = vect_utxo_[j] => i = j
    /\ \A i, j \in 1 .. Len(vect_utxo_) : vect_utxo_[i] \in Parents(vect_utxo_[j]) => i < j

\* The table has the outputs of the flushed transactions that none of them spends.
TableInv ==
    crashes = 0 =>
        \A o \in Outpoints :
            utxo[o] = IF Flushed(o[1]) /\ ~ \E u \in Txs : Flushed(u) /\ o \in Spends(u)
                      THEN 1 ELSE 0

UtxoInv == FirstRunInv /\ ChainOrder /\ ReadOrder /\ TableInv

-----------------------------------------------------------------------------
(* How transactions move from the chain to the table *)

LEMMA MovesTypes ==
    ASSUME TypeInv
    PROVE  /\ chain \in Seq(Seq(Txs)) /\ Len(chain) \in Nat
           /\ json_txs \in Seq(Txs) /\ Len(json_txs) \in Nat
           /\ vect_utxo_ \in Seq(Txs) /\ Len(vect_utxo_) \in Nat
           /\ pre_block_height \in Nat /\ crashes \in Nat /\ txinfo \in [Txs -> Heights]
BY WidthAssumption DEF TypeInv, TypeOK, Qty

LEMMA FirstRunQueues == FirstRunInv => QueuedInv
BY DEF FirstRunInv

\* Steps that move nothing.
LEMMA NothingMoves ==
    ASSUME UNCHANGED <<chain, pre_block_height, vect_utxo_, json_txs, crashes>>,
           \/ pc # "down" /\ pc' \notin {"down", "getblockcount"}
           \/ pc' = pc /\ txinfo' = txinfo
    PROVE  /\ (FirstRunInv => FirstRunInv') /\ (QueuedInv => QueuedInv')
           /\ \A t \in Txs : (Flushed(t)' <=> Flushed(t)) /\ (Queued(t)' <=> Queued(t))
<1>1. ScannedTxs' = ScannedTxs
  BY DEF ScannedTxs, MinedAt, RangeOf
<1>2. \A t \in Txs : (Flushed(t)' <=> Flushed(t)) /\ (Queued(t)' <=> Queued(t))
                     /\ (Unread(t)' <=> Unread(t))
  BY <1>1 DEF Flushed, Queued, Unread
<1> QED
  BY <1>1, <1>2 DEF FirstRunInv, QueuedInv

LEMMA QuietActions ==
    ASSUME TypeInv,
           \/ GetBlockCount \/ BlocksDone \/ GetRawMempool \/ ReadMempoolTx \/ MempoolDone
           \/ FlushUpdate \/ FlushInsert \/ Reply \/ InsertRow \/ Commit \/ Submit
           \/ UNCHANGED vars
    PROVE  /\ UNCHANGED <<chain, pre_block_height, vect_utxo_, json_txs, crashes, utxo>>
           /\ (FirstRunInv => FirstRunInv') /\ (QueuedInv => QueuedInv')
           /\ \A t \in Txs : (Flushed(t)' <=> Flushed(t)) /\ (Queued(t)' <=> Queued(t))
<1>1. UNCHANGED <<chain, pre_block_height, vect_utxo_, json_txs, crashes, utxo>>
  BY DEF GetBlockCount, BlocksDone, GetRawMempool, ReadMempoolTx, MempoolDone, FlushUpdate,
         FlushInsert, Reply, InsertRow, Commit, Submit, AddTransaction, vars, node, db, scan,
         memory
<1>2. \/ pc # "down" /\ pc' \notin {"down", "getblockcount"}
      \/ pc' = pc /\ txinfo' = txinfo
  <2>1. CASE FlushInsert
    <3>1. pc = "flush" /\ vect_tx_ # << >> /\ ResponseAction(Head(vect_tx_).tx)
      BY <2>1 DEF FlushInsert
    <3>2. Head(vect_tx_) \in Entry
      BY <3>1, HeadTailProperties DEF TypeInv, TypeOK
    <3>3. pc' \in {pc, "reply", "rows"}
      BY <3>1, <3>2, ResponseCounts DEF Entry
    <3> QED
      BY <3>1, <3>3
  <2>2. CASE Commit
    BY <2>2 DEF Commit
  <2> QED
    BY <2>1, <2>2 DEF GetBlockCount, BlocksDone, GetRawMempool, ReadMempoolTx, MempoolDone,
       FlushUpdate, Reply, InsertRow, Submit, vars, node, db
<1> QED
  BY <1>1, <1>2, NothingMoves

LEMMA MineMoves ==
    ASSUME TypeInv, IInv, FirstRunInv, Mine
    PROVE  /\ UNCHANGED <<pre_block_height, vect_utxo_, json_txs, crashes, utxo>>
           /\ FirstRunInv'
           /\ \A t \in Txs : (Flushed(t)' <=> Flushed(t)) /\ (Queued(t)' <=> Queued(t))
<1>1. UNCHANGED <<pre_block_height, vect_utxo_, json_txs, crashes, utxo, txinfo, pc>>
      /\ \E n \in 0 .. Cardinality(mempool) : \E b \in [1 .. n -> mempool] :
            chain' = Append(chain, b)
  BY DEF Mine, db, scan, memory
<1>2. PICK b : chain' = Append(chain, b)
  BY <1>1
<1>3. Len(chain') = Len(chain) + 1 /\ Len(chain) \in Nat /\ pre_block_height \in Nat
      /\ \A h \in 1 .. Len(chain) : chain'[h] = chain[h]
  BY <1>2, MovesTypes
<1>4. \A t : \A h \in 1 .. pre_block_height : MinedAt(t, h)' <=> MinedAt(t, h)
  BY <1>3 DEF FirstRunInv, QueuedInv, MinedAt, RangeOf
<1>5. ScannedTxs' = ScannedTxs
  BY <1>1, <1>4 DEF ScannedTxs
<1>6. \A t \in Txs : (Flushed(t)' <=> Flushed(t)) /\ (Queued(t)' <=> Queued(t))
                     /\ (Unread(t)' <=> Unread(t))
  BY <1>1, <1>5 DEF Flushed, Queued, Unread
<1>7. FirstRunInv'
  BY <1>1, <1>3, <1>5, <1>6 DEF FirstRunInv, QueuedInv
<1> QED
  BY <1>1, <1>6, <1>7

\* The transactions of the block that is fetched are new to the scan.
LEMMA GetBlockMoves ==
    ASSUME TypeInv, IInv, GetBlock
    PROVE  /\ UNCHANGED <<chain, vect_utxo_, crashes, utxo>>
           /\ (FirstRunInv => FirstRunInv') /\ (QueuedInv => QueuedInv')
           /\ \A t \in Txs : (Flushed(t) => Flushed(t)') /\ (Queued(t)' <=> Queued(t))
           /\ ~ RpcMayFail => \A t \in Txs : Flushed(t)' => Flushed(t)
<1>1. /\ UNCHANGED <<chain, vect_utxo_, crashes, utxo, txinfo, pc>> /\ pc = "getblock"
      /\ json_txs = << >> /\ pre_block_height' = pre_block_height + 1
      /\ json_txs' = chain[pre_block_height + 1] \/ (RpcMayFail /\ json_txs' = << >>)
  BY DEF GetBlock, node, db, memory
<1>2. pre_block_height + 1 \in 1 .. Len(chain) /\ pre_block_height \in Nat
      /\ Len(json_txs) = 0
  BY <1>1, GetBlockHeight, MovesTypes
<1>3. \A t \in Txs : ~ Unread(t) /\ (Queued(t)' <=> Queued(t))
  BY <1>1, <1>2 DEF Unread, Queued
<1>4. \A t \in Txs : t \in ScannedTxs => t \in ScannedTxs' /\ ~ Unread(t)'
  <2> SUFFICES ASSUME NEW t \in Txs, t \in ScannedTxs PROVE t \in ScannedTxs' /\ ~ Unread(t)'
    OBVIOUS
  <2>1. PICK h \in 1 .. pre_block_height : MinedAt(t, h)
    BY DEF ScannedTxs
  <2>2. t \in ScannedTxs'
    BY <1>1, <1>2, <2>1, MinedWhenUnchanged DEF ScannedTxs
  <2>3. ASSUME NEW i \in 1 .. Len(json_txs'), json_txs'[i] = t PROVE FALSE
    <3>1. json_txs' = chain[pre_block_height + 1]
      BY <1>1, <2>3
    <3>2. MinedAt(t, pre_block_height + 1)
      BY <1>2, <2>3, <3>1 DEF MinedAt, RangeOf
    <3>3. h = pre_block_height + 1
      BY <2>1, <3>2, MinedOnce DEF IInv
    <3> QED
      BY <1>2, <2>1, <3>3
  <2> QED
    BY <2>2, <2>3 DEF Unread
<1>5. \A t \in Txs : Flushed(t) => Flushed(t)'
  BY <1>3, <1>4 DEF Flushed
<1>6. ASSUME ~ RpcMayFail, NEW t \in Txs, Flushed(t)' PROVE Flushed(t)
  <2>1. PICK h \in 1 .. (pre_block_height + 1) : MinedAt(t, h)
    <3>1. PICK h \in 1 .. pre_block_height' : MinedAt(t, h)'
      BY <1>6 DEF Flushed, ScannedTxs
    <3> QED
      BY <1>1, <3>1 DEF MinedAt, RangeOf
  <2>2. h # pre_block_height + 1
    BY <1>1, <1>6, <2>1 DEF Flushed, Unread, MinedAt, RangeOf
  <2>3. h \in 1 .. pre_block_height
    BY <1>2, <2>1, <2>2
  <2> QED
    BY <1>3, <1>6, <2>1, <2>3 DEF Flushed, ScannedTxs
<1>7. QueuedInv => QueuedInv'
  BY <1>3, <1>4 DEF QueuedInv
<1>8. FirstRunInv => FirstRunInv'
  BY <1>1, <1>2, <1>7 DEF FirstRunInv, QueuedInv
<1> QED
  BY <1>1, <1>3, <1>5, <1>6, <1>7, <1>8

\* What reading one transaction of a block does to the three places.
LEMMA ReadBlockTxMoves ==
    ASSUME TypeInv, IInv, QueuedInv, ReadBlockTx
    PROVE  /\ UNCHANGED <<chain, crashes, utxo, pre_block_height>>
           /\ (FirstRunInv => FirstRunInv') /\ QueuedInv'
           /\ vect_utxo_' = vect_utxo_ \/ vect_utxo_' = Append(vect_utxo_, Head(json_txs))
           /\ Unread(Head(json_txs))
           /\ Len(json_txs) > 0 /\ Head(json_txs) = json_txs[1] /\ Head(json_txs) \in Txs
           /\ Len(json_txs') = Len(json_txs) - 1
           /\ \A i \in 1 .. Len(json_txs') : json_txs'[i] = json_txs[i + 1]
           /\ \A t \in Txs : (Flushed(t) => Flushed(t)') /\ (Queued(t) => Queued(t)')
           /\ \A t \in Txs : Queued(t)' => Queued(t) \/ t = Head(json_txs)
           /\ ~ RpcMayFail => /\ vect_utxo_' = Append(vect_utxo_, Head(json_txs))
                             /\ \A t \in Txs : Flushed(t)' => Flushed(t)
<1> PICK u : u = Head(json_txs)
  OBVIOUS
<1>1. /\ UNCHANGED <<chain, crashes, utxo, txinfo, pc, pre_block_height>> /\ pc = "getblock"
      /\ json_txs # << >> /\ json_txs' = Tail(json_txs)
      /\ vect_utxo_' = Append(vect_utxo_, u) \/ (RpcMayFail /\ vect_utxo_' = vect_utxo_)
  <2>1. pre_block_height # InMempool
    BY DEF ReadBlockTx, TypeInv, BoundInv
  <2> QED
    BY <2>1 DEF ReadBlockTx, AddTransaction, node, db, memory
<1>2. /\ Len(json_txs) \in Nat /\ Len(json_txs) > 0 /\ u = json_txs[1] /\ u \in Txs
      /\ Len(json_txs') = Len(json_txs) - 1
      /\ \A i \in 1 .. Len(json_txs') : json_txs'[i] = json_txs[i + 1]
  BY <1>1, MovesTypes, HeadTailProperties
<1>3. /\ \A t \in Txs : Queued(t) => Queued(t)'
      /\ \A t \in Txs : Queued(t)' => Queued(t) \/ t = u
      /\ vect_utxo_' = Append(vect_utxo_, u) => Queued(u)'
  <2>1. vect_utxo_ \in Seq(Txs) /\ Len(vect_utxo_) \in Nat
    BY MovesTypes
  <2>2. CASE vect_utxo_' = vect_utxo_
    <3>1. vect_utxo_' # Append(vect_utxo_, u)
      BY <2>1, <2>2
    <3> QED
      BY <2>2, <3>1 DEF Queued
  <2>3. CASE vect_utxo_' = Append(vect_utxo_, u)
    <3>1. /\ Len(vect_utxo_') = Len(vect_utxo_) + 1
          /\ \A i \in 1 .. Len(vect_utxo_) : vect_utxo_'[i] = vect_utxo_[i]
          /\ vect_utxo_'[Len(vect_utxo_) + 1] = u
      BY <2>1, <2>3
    <3>2. \A i \in 1 .. Len(vect_utxo_') :
             i \in 1 .. Len(vect_utxo_) \/ i = Len(vect_utxo_) + 1
      BY <2>1, <3>1
    <3>3. \A i \in 1 .. Len(vect_utxo_) : i \in 1 .. Len(vect_utxo_')
      BY <2>1, <3>1
    <3>4. Len(vect_utxo_) + 1 \in 1 .. Len(vect_utxo_')
      BY <2>1, <3>1
    <3> QED
      BY <3>1, <3>2, <3>3, <3>4 DEF Queued
  <2> QED
    BY <1>1, <2>2, <2>3
<1>4. \A t \in Txs : (Unread(t) <=> (t = u \/ Unread(t)')) /\ ~ Unread(u)'
  <2>1. \A t : Unread(t) => t = u \/ Unread(t)'
    <3> SUFFICES ASSUME NEW i \in 1 .. Len(json_txs), i # 1
                 PROVE  i - 1 \in 1 .. Len(json_txs') /\ json_txs'[i - 1] = json_txs[i]
      BY <1>2 DEF Unread
    <3> QED
      BY <1>2
  <2>2. \A t : Unread(t)' => Unread(t)
    <3>1. \A i \in 1 .. Len(json_txs') : i + 1 \in 1 .. Len(json_txs)
      BY <1>2
    <3> QED
      BY <1>2, <3>1 DEF Unread
  <2>3. Unread(u)
    BY <1>2 DEF Unread
  <2>4. ~ Unread(u)'
    <3>1. \A i \in 1 .. Len(json_txs') :
             i + 1 \in 1 .. Len(json_txs) /\ i + 1 # 1 /\ 1 \in 1 .. Len(json_txs)
      BY <1>2
    <3>2. \A i, j \in 1 .. Len(json_txs) : json_txs[i] = json_txs[j] => i = j
      BY DEF IInv, ReadInv
    <3>3. \A i \in 1 .. Len(json_txs') : json_txs'[i] # json_txs[1]
      BY <1>2, <3>1, <3>2
    <3> QED
      BY <1>2, <3>3 DEF Unread
  <2> QED
    BY <2>1, <2>2, <2>3, <2>4
<1>5. ScannedTxs' = ScannedTxs
  BY <1>1 DEF ScannedTxs, MinedAt, RangeOf
<1>6. u \in ScannedTxs
  <2>1. MinedAt(u, pre_block_height)
    BY <1>2 DEF IInv, ReadInv
  <2>2. pre_block_height \in 1 .. pre_block_height
    BY <2>1, MovesTypes DEF MinedAt
  <2> QED
    BY <1>2, <2>1, <2>2 DEF ScannedTxs
<1>7. \A t \in Txs : Flushed(t) => Flushed(t)'
  BY <1>3, <1>4, <1>5 DEF Flushed
<1>8. ASSUME ~ RpcMayFail, NEW t \in Txs, Flushed(t)' PROVE Flushed(t)
  <2>1. Queued(u)'
    BY <1>1, <1>3, <1>8
  <2>2. t # u /\ ~ Queued(t)
    BY <1>3, <1>8, <2>1 DEF Flushed, Queued
  <2>3. ~ Unread(t)
    BY <1>4, <1>8, <2>2 DEF Flushed
  <2> QED
    BY <1>5, <1>8, <2>2, <2>3 DEF Flushed
<1>9. QueuedInv' /\ (FirstRunInv => FirstRunInv')
  <2>1. ASSUME NEW t \in Txs, Queued(t)' PROVE t \in ScannedTxs' /\ ~ Unread(t)'
    <3>1. CASE t = u
      BY <1>4, <1>5, <1>6, <3>1
    <3>2. CASE t # u
      <4>1. Queued(t)
        BY <1>3, <2>1, <3>2
      <4>2. t \in ScannedTxs /\ ~ Unread(t)
        BY <4>1 DEF QueuedInv
      <4> QED
        BY <1>4, <1>5, <4>2
    <3> QED
      BY <3>1, <3>2
  <2>2. QueuedInv'
    BY <2>1 DEF QueuedInv
  <2> QED
    BY <1>1, <2>2 DEF FirstRunInv, QueuedInv
<1> QED
  BY <1>1, <1>2, <1>3, <1>4, <1>7, <1>8, <1>9

LEMMA FlushUtxoMoves ==
    ASSUME TypeInv, IInv, QueuedInv, FlushUtxo
    PROVE  /\ UNCHANGED <<chain, crashes, pre_block_height, json_txs>>
           /\ (FirstRunInv => FirstRunInv') /\ QueuedInv'
           /\ json_txs = << >> /\ vect_utxo_' = << >>
           /\ \A t \in Txs : (Flushed(t)' <=> Flushed(t) \/ Queued(t)) /\ ~ Queued(t)'
<1>1. /\ UNCHANGED <<chain, crashes, pre_block_height, json_txs, txinfo>>
      /\ pc = "utxo" /\ pc' = "getblockcount" /\ vect_utxo_' = << >>
  BY DEF FlushUtxo, node, scan
<1>2. json_txs = << >> /\ Len(json_txs) = 0 /\ Len(vect_utxo_') = 0
  BY <1>1 DEF TypeInv, BoundInv
<1>3. ScannedTxs' = ScannedTxs
  BY <1>1 DEF ScannedTxs, MinedAt, RangeOf
<1>4. \A t \in Txs : ~ Queued(t)' /\ ~ Unread(t) /\ ~ Unread(t)'
  BY <1>1, <1>2 DEF Queued, Unread
<1>5. \A t \in Txs : Flushed(t)' <=> Flushed(t) \/ Queued(t)
  BY <1>3, <1>4 DEF Flushed, QueuedInv
<1>6. QueuedInv' /\ (FirstRunInv => FirstRunInv')
  BY <1>1, <1>4 DEF FirstRunInv, QueuedInv
<1> QED
  BY <1>1, <1>2, <1>4, <1>5, <1>6

LEMMA DieMoves ==
    ASSUME TypeInv, FirstRunInv, Die, UNCHANGED <<node, db>>
    PROVE  /\ FirstRunInv' /\ crashes' # 0 /\ chain' = chain
           /\ json_txs' = << >> /\ vect_utxo_' = << >>
           /\ \A t \in Txs : ~ Flushed(t)' /\ ~ Queued(t)'
<1>1. /\ pc' = "down" /\ vect_utxo_' = << >> /\ pre_block_height' = 0 /\ json_txs' = << >>
      /\ crashes' = crashes + 1 /\ chain' = chain /\ Len(vect_utxo_') = 0
  BY DEF Die, node
<1>2. crashes' # 0
  BY <1>1, MovesTypes
<1>3. \A t \in Txs : ~ Queued(t)' /\ ~ Flushed(t)'
  BY <1>1 DEF Queued, Flushed, ScannedTxs
<1> QED
  BY <1>1, <1>2, <1>3, MovesTypes DEF FirstRunInv, QueuedInv

LEMMA StartMoves ==
    ASSUME MaxCrashes = 0, TypeInv, FirstRunInv, Start
    PROVE  /\ UNCHANGED <<chain, vect_utxo_, json_txs, pre_block_height, crashes, utxo>>
           /\ FirstRunInv'
           /\ \A t \in Txs : (Flushed(t)' <=> Flushed(t)) /\ (Queued(t)' <=> Queued(t))
<1>1. /\ UNCHANGED <<chain, vect_utxo_, json_txs, crashes, utxo, txinfo>>
      /\ pc = "down" /\ pc' = "getblockcount" /\ crashes = 0
  BY MovesTypes DEF Start, node, db
<1>2. pre_block_height' = 0
  <2>1. PICK h \in {NotRecorded} \cup {txinfo[t] : t \in Txs} : pre_block_height' = StartHeight(h)
    BY DEF Start
  <2>2. h = NotRecorded
    BY <1>1 DEF FirstRunInv, QueuedInv
  <2> QED
    BY <2>1, <2>2 DEF StartHeight
<1>3. pre_block_height' = pre_block_height
  BY <1>1, <1>2 DEF FirstRunInv, QueuedInv
<1>4. ScannedTxs' = ScannedTxs
  BY <1>1, <1>3 DEF ScannedTxs, MinedAt, RangeOf
<1>5. \A t \in Txs : (Flushed(t)' <=> Flushed(t)) /\ (Queued(t)' <=> Queued(t))
                     /\ (Unread(t)' <=> Unread(t))
  BY <1>1, <1>4 DEF Flushed, Queued, Unread
<1>6. FirstRunInv'
  BY <1>1, <1>3, <1>4, <1>5 DEF FirstRunInv, QueuedInv
<1> QED
  BY <1>1, <1>3, <1>5, <1>6

LEMMA FirstRunInit == Init => FirstRunInv
<1> SUFFICES ASSUME Init PROVE FirstRunInv
  OBVIOUS
<1>1. Len(<< >>) = 0
  BY EmptySeq
<1>2. \A t \in Txs : ~ Queued(t)
  BY <1>1 DEF Init, Queued
<1> QED
  BY <1>1, <1>2 DEF Init, FirstRunInv, QueuedInv

LEMMA FirstRunStep ==
    ASSUME MaxCrashes = 0, TypeInv, IInv, FirstRunInv, [Next]_vars
    PROVE  FirstRunInv'
<1>1. CASE Crash \/ FlushThrows
  BY <1>1, DieMoves DEF Crash, FlushThrows
<1> QED
  BY <1>1, QuietActions, MineMoves, GetBlockMoves, ReadBlockTxMoves, FirstRunQueues,
     FlushUtxoMoves, StartMoves DEF Next, Loop, Environment

-----------------------------------------------------------------------------
(* The order in which they move *)

LEMMA ParentsAreTxs == \A t : Parents(t) \subseteq Txs
BY DEF Parents

\* A block lists what its transactions spend, if not an earlier block does.
LEMMA MineOrders ==
    ASSUME TopoBlocks, TypeInv, ChainOrder, Mine
    PROVE  ChainOrder'
<1>0. PICK n \in 0 .. Cardinality(mempool) : \E b \in [1 .. n -> mempool] :
         IsBlock(b) /\ chain' = Append(chain, b)
  BY DEF Mine
<1>1. PICK b \in [1 .. n -> mempool] : IsBlock(b) /\ chain' = Append(chain, b)
  BY <1>0
<1>2. n \in Nat
  <2>1. Cardinality(mempool) \in Nat
    BY TxAssumption, FS_Subset, FS_CardinalityType DEF TypeInv, TypeOK
  <2> QED
    BY <2>1
<1>3. Len(b) = n /\ DOMAIN b = 1 .. n
  BY <1>1, <1>2, SeqDef
<1>4. /\ Len(chain) \in Nat /\ Len(chain') = Len(chain) + 1 /\ chain'[Len(chain) + 1] = b
      /\ \A h \in 1 .. Len(chain) : chain'[h] = chain[h]
  BY <1>1, MovesTypes
<1>5. \A t : \A g \in 1 .. Len(chain) : MinedAt(t, g) => MinedAt(t, g)'
  BY <1>4 DEF MinedAt, RangeOf
<1>6. ASSUME NEW h \in 1 .. Len(chain'), NEW j \in 1 .. Len(chain'[h]),
             NEW t \in Parents(chain'[h][j])
      PROVE  \/ \E g \in 1 .. (h - 1) : MinedAt(t, g)'
             \/ \E i \in 1 .. (j - 1) : chain'[h][i] = t
  <2>1. CASE h \in 1 .. Len(chain)
    <3>0. chain'[h] = chain[h] /\ j \in 1 .. Len(chain[h]) /\ t \in Parents(chain[h][j])
      BY <1>4, <1>6, <2>1
    <3>1. \/ \E g \in 1 .. (h - 1) : MinedAt(t, g)
          \/ \E i \in 1 .. (j - 1) : chain[h][i] = t
      BY <2>1, <3>0, Zenon DEF ChainOrder
    <3> QED
      BY <1>4, <1>5, <2>1, <3>0, <3>1 DEF MinedAt
  <2>2. CASE h = Len(chain) + 1
    <3>1. j \in 1 .. n /\ t \in Parents(b[j]) /\ t \in OnChain \cup RangeOf(b)
      BY <1>1, <1>3, <1>4, <1>6, <2>2 DEF IsBlock
    <3>2. CASE t \in OnChain
      BY <1>4, <1>5, <2>2, <3>2 DEF OnChain, MinedAt
    <3>3. CASE t \in RangeOf(b)
      <4>1. PICK i \in 1 .. n : b[i] = t
        BY <1>3, <3>3 DEF RangeOf
      <4>2. i < j
        BY <1>1, <1>3, <3>1, <4>1 DEF IsBlock
      <4>3. i \in 1 .. (j - 1)
        BY <3>1, <4>1, <4>2
      <4> QED
        BY <1>4, <2>2, <4>1, <4>3
    <3> QED
      BY <3>1, <3>2, <3>3
  <2> QED
    BY <1>4, <2>1, <2>2
<1> QED
  BY <1>6 DEF ChainOrder, Parents

LEMMA OrderStays ==
    ASSUME ReadOrder, UNCHANGED <<json_txs, vect_utxo_>>,
           \A t \in Txs : (Flushed(t)' <=> Flushed(t)) /\ (Queued(t)' <=> Queued(t))
    PROVE  ReadOrder'
BY ParentsAreTxs DEF ReadOrder, Parents

\* What the transactions of the next block spend is scanned, or earlier in it.
LEMMA GetBlockOrders ==
    ASSUME ~ RpcMayFail, TypeInv, IInv, FirstRunInv, ChainOrder, ReadOrder, GetBlock
    PROVE  ReadOrder'
<1>1. /\ json_txs = << >> /\ Len(json_txs) = 0 /\ vect_utxo_' = vect_utxo_
      /\ json_txs' = chain[pre_block_height + 1]
  BY DEF GetBlock, memory
<1>2. /\ \A t \in Txs : (Flushed(t)' <=> Flushed(t)) /\ (Queued(t)' <=> Queued(t))
      /\ pre_block_height + 1 \in 1 .. Len(chain) /\ pre_block_height \in Nat
  BY GetBlockMoves, GetBlockHeight, MovesTypes
<1>3. ASSUME NEW j \in 1 .. Len(json_txs'), NEW p \in Parents(json_txs'[j])
      PROVE  Flushed(p) \/ Queued(p) \/ \E i \in 1 .. (j - 1) : json_txs'[i] = p
  <2> PICK h : h = pre_block_height + 1
    OBVIOUS
  <2>0. h \in 1 .. Len(chain) /\ json_txs' = chain[h] /\ h - 1 = pre_block_height
    BY <1>1, <1>2
  <2>1. \/ \E g \in 1 .. (h - 1) : MinedAt(p, g)
        \/ \E i \in 1 .. (j - 1) : json_txs'[i] = p
    BY <1>3, <2>0, Zenon DEF ChainOrder
  <2>2. p \in Txs
    BY <1>3, ParentsAreTxs
  <2>3. ~ Unread(p)
    BY <1>1 DEF Unread
  <2> QED
    BY <2>0, <2>1, <2>2, <2>3 DEF Flushed, ScannedTxs
<1>4. \A j \in 1 .. Len(json_txs') : \A p \in Parents(json_txs'[j]) :
         Flushed(p)' \/ Queued(p)' \/ \E i \in 1 .. (j - 1) : json_txs'[i] = p
  BY <1>2, <1>3, ParentsAreTxs
<1>5. /\ \A t \in Txs : Flushed(t)' => \A p \in Parents(t) : Flushed(p)'
      /\ \A t \in Txs : Queued(t)' => \A p \in Parents(t) : Flushed(p)' \/ Queued(p)'
  BY <1>2, ParentsAreTxs DEF ReadOrder
<1>6. /\ \A i, j \in 1 .. Len(vect_utxo_') : vect_utxo_'[i] = vect_utxo_'[j] => i = j
      /\ \A i, j \in 1 .. Len(vect_utxo_') : vect_utxo_'[i] \in Parents(vect_utxo_'[j]) => i < j
  BY <1>1 DEF ReadOrder
<1> QED
  BY <1>4, <1>5, <1>6 DEF ReadOrder, Parents

\* The transaction read next comes after what it spends.
LEMMA ReadBlockTxOrders ==
    ASSUME ~ RpcMayFail, TypeInv, IInv, FirstRunInv, ReadOrder, ReadBlockTx
    PROVE  ReadOrder'
<1> PICK u : u = Head(json_txs)
  OBVIOUS
<1>1. /\ Len(json_txs) \in Nat /\ Len(json_txs) > 0 /\ u = json_txs[1] /\ u \in Txs
      /\ Len(json_txs') = Len(json_txs) - 1
      /\ \A i \in 1 .. Len(json_txs') : json_txs'[i] = json_txs[i + 1]
      /\ \A t \in Txs : Flushed(t)' <=> Flushed(t)
      /\ \A t \in Txs : Queued(t) => Queued(t)'
      /\ \A t \in Txs : Queued(t)' => Queued(t) \/ t = u
      /\ vect_utxo_' = Append(vect_utxo_, u)
  BY ReadBlockTxMoves, FirstRunQueues, MovesTypes
<1>2. /\ Len(vect_utxo_) \in Nat /\ Len(vect_utxo_') = Len(vect_utxo_) + 1
      /\ \A i \in 1 .. Len(vect_utxo_) : vect_utxo_'[i] = vect_utxo_[i]
      /\ vect_utxo_'[Len(vect_utxo_) + 1] = u
      /\ \A i \in 1 .. Len(vect_utxo_') : i \in 1 .. Len(vect_utxo_) \/ i = Len(vect_utxo_) + 1
  BY <1>1, MovesTypes
<1>3. Queued(u)'
  BY <1>2 DEF Queued
<1>4. Unread(u) /\ ~ Queued(u) /\ ~ Flushed(u)
  <2>1. Unread(u)
    BY <1>1 DEF Unread
  <2> QED
    BY <1>1, <2>1 DEF FirstRunInv, QueuedInv, Flushed
<1>5. \A p \in Parents(u) : Flushed(p) \/ Queued(p)
  <2>1. 1 \in 1 .. Len(json_txs) /\ \A i \in 1 .. (1 - 1) : FALSE
    BY <1>1
  <2> QED
    BY <1>1, <2>1 DEF ReadOrder
<1>6. \A t \in Txs : Flushed(t)' => \A p \in Parents(t) : Flushed(p)'
  BY <1>1, ParentsAreTxs DEF ReadOrder
<1>7. \A t \in Txs : Queued(t)' => \A p \in Parents(t) : Flushed(p)' \/ Queued(p)'
  BY <1>1, <1>5, ParentsAreTxs DEF ReadOrder
<1>8. ASSUME NEW j \in 1 .. Len(json_txs'), NEW p \in Parents(json_txs'[j])
      PROVE  Flushed(p)' \/ Queued(p)' \/ \E i \in 1 .. (j - 1) : json_txs'[i] = p
  <2>1. /\ j + 1 \in 1 .. Len(json_txs) /\ p \in Parents(json_txs[j + 1]) /\ p \in Txs
        /\ (j + 1) - 1 = j
    BY <1>1, <1>8, ParentsAreTxs
  <2>2. Flushed(p) \/ Queued(p) \/ \E i \in 1 .. j : json_txs[i] = p
    BY <2>1 DEF ReadOrder
  <2>3. ASSUME NEW i \in 1 .. j, json_txs[i] = p
        PROVE  Queued(p)' \/ \E k \in 1 .. (j - 1) : json_txs'[k] = p
    <3>1. CASE i = 1
      BY <1>1, <1>3, <2>3, <3>1
    <3>2. CASE i # 1
      <4>1. i - 1 \in 1 .. (j - 1) /\ i - 1 \in 1 .. Len(json_txs') /\ (i - 1) + 1 = i
        BY <1>1, <3>2
      <4> QED
        BY <1>1, <2>3, <4>1
    <3> QED
      BY <3>1, <3>2
  <2> QED
    BY <1>1, <2>1, <2>2, <2>3
<1>9. \A i, j \in 1 .. Len(vect_utxo_') : vect_utxo_'[i] = vect_utxo_'[j] => i = j
  <2>1. \A i \in 1 .. Len(vect_utxo_) : vect_utxo_[i] # u
    BY <1>4 DEF Queued
  <2> QED
    BY <1>2, <2>1 DEF ReadOrder
<1>10. \A i, j \in 1 .. Len(vect_utxo_') : vect_utxo_'[i] \in Parents(vect_utxo_'[j]) => i < j
  <2> SUFFICES ASSUME NEW i \in 1 .. Len(vect_utxo_'), NEW j \in 1 .. Len(vect_utxo_'),
                      vect_utxo_'[i] \in Parents(vect_utxo_'[j])
               PROVE  i < j
    OBVIOUS
  <2>1. CASE i \in 1 .. Len(vect_utxo_) /\ j \in 1 .. Len(vect_utxo_)
    BY <1>2, <2>1 DEF ReadOrder
  <2>2. CASE i \in 1 .. Len(vect_utxo_) /\ j = Len(vect_utxo_) + 1
    BY <1>2, <2>2
  <2>3. CASE i = Len(vect_utxo_) + 1 /\ j = Len(vect_utxo_) + 1
    BY <1>2, <1>4, <1>5, <2>3
  <2>4. CASE i = Len(vect_utxo_) + 1 /\ j \in 1 .. Len(vect_utxo_)
    <3> PICK t : t = vect_utxo_[j]
      OBVIOUS
    <3>1. t \in Txs /\ Queued(t) /\ u \in Parents(t)
      BY <1>2, <2>4, MovesTypes, ElementOfSeq DEF Queued
    <3>2. Flushed(u) \/ Queued(u)
      BY <3>1 DEF ReadOrder
    <3> QED
      BY <1>4, <3>2
  <2> QED
    BY <1>2, <2>1, <2>2, <2>3, <2>4
<1> QED
  BY <1>6, <1>7, <1>8, <1>9, <1>10 DEF ReadOrder, Parents

\* The places are empty: after a flush, or after a death.
LEMMA EmptyOrder ==
    ASSUME json_txs' = << >>, vect_utxo_' = << >>, \A t \in Txs : ~ Queued(t)',
           \A t \in Txs : Flushed(t)' => \A p \in Parents(t) : Flushed(p)'
    PROVE  ReadOrder'
<1>1. Len(json_txs') = 0 /\ Len(vect_utxo_') = 0
  OBVIOUS
<1> QED
  BY <1>1 DEF ReadOrder, Parents

LEMMA FlushUtxoOrders ==
    ASSUME TypeInv, IInv, FirstRunInv, ReadOrder, FlushUtxo
    PROVE  ReadOrder'
<1>1. /\ json_txs' = << >> /\ vect_utxo_' = << >>
      /\ \A t \in Txs : (Flushed(t)' <=> Flushed(t) \/ Queued(t)) /\ ~ Queued(t)'
  BY FlushUtxoMoves, FirstRunQueues
<1>2. \A t \in Txs : Flushed(t)' => \A p \in Parents(t) : Flushed(p)'
  BY <1>1, ParentsAreTxs DEF ReadOrder
<1> QED
  BY <1>1, <1>2, EmptyOrder

LEMMA OrderStep ==
    ASSUME MaxCrashes = 0, ~ RpcMayFail, TopoBlocks,
           TypeInv, IInv, FirstRunInv, ChainOrder, ReadOrder, [Next]_vars
    PROVE  ChainOrder' /\ ReadOrder'
<1>1. ASSUME chain' = chain PROVE ChainOrder'
  <2> DEFINE OrderIn(blocks) ==
        \A h \in 1 .. Len(blocks) : \A k \in 1 .. Len(blocks[h]) :
          \A t \in Parents(blocks[h][k]) :
            \/ \E g \in 1 .. (h - 1) : g \in 1 .. Len(blocks) /\ t \in RangeOf(blocks[g])
            \/ \E i \in 1 .. (k - 1) : blocks[h][i] = t
  <2>1. ChainOrder <=> OrderIn(chain)
    BY Zenon DEF ChainOrder, MinedAt
  <2>2. ChainOrder' <=> OrderIn(chain')
    BY Zenon DEF ChainOrder, MinedAt, Parents, RangeOf
  <2> HIDE DEF OrderIn
  <2> QED
    BY <1>1, <2>1, <2>2
<1>2. CASE \/ GetBlockCount \/ BlocksDone \/ GetRawMempool \/ ReadMempoolTx \/ MempoolDone
           \/ FlushUpdate \/ FlushInsert \/ Reply \/ InsertRow \/ Commit \/ Submit
           \/ UNCHANGED vars
  BY <1>1, <1>2, QuietActions, OrderStays
<1>3. CASE Mine
  BY <1>3, MineOrders, MineMoves, OrderStays
<1>4. CASE GetBlock
  BY <1>1, <1>4, GetBlockMoves, GetBlockOrders
<1>5. CASE ReadBlockTx
  BY <1>1, <1>5, ReadBlockTxMoves, FirstRunQueues, ReadBlockTxOrders
<1>6. CASE FlushUtxo
  BY <1>1, <1>6, FlushUtxoMoves, FirstRunQueues, FlushUtxoOrders
<1>7. CASE Crash \/ FlushThrows
  BY <1>1, <1>7, DieMoves, EmptyOrder DEF Crash, FlushThrows
<1>8. CASE Start
  BY <1>1, <1>8, StartMoves, OrderStays
<1> QED
  BY <1>2, <1>3, <1>4, <1>5, <1>6, <1>7, <1>8 DEF Next, Loop, Environment

-----------------------------------------------------------------------------
(* The table *)

\* An output belongs to one transaction.
LEMMA OutputOfOne ==
    ASSUME NEW o \in Outpoints
    PROVE  /\ o[1] \in Txs
           /\ \A t \in Txs : o \in Creates(t) <=> t = o[1]
           /\ \A u \in Txs : o \in Spends(u) => o[1] \in Parents(u)
<1>1. PICK t \in Txs : o \in Creates(t)
  BY DEF Outpoints
<1>2. PICK n \in 1 .. Len(Vout[t]) : o = <<t, n>>
  BY <1>1 DEF Creates
<1>3. \A v \in Txs : o \in Creates(v) <=> v = t
  BY <1>2 DEF Creates
<1>4. \A u \in Txs : o \in Spends(u) => t \in Parents(u)
  BY <1>2 DEF Spends, Parents
<1> QED
  BY <1>2, <1>3, <1>4

\* A flush neither inserts nor deletes rows of an output whose transaction it
\* does not hold and that nothing it holds spends.
LEMMA NoneSurvive ==
    ASSUME TypeInv, NEW o \in Outpoints, ~ Queued(o[1])
    PROVE  Surviving(vect_utxo_, o) = {} /\ Cardinality(Surviving(vect_utxo_, o)) = 0
<1>1. \A i \in 1 .. Len(vect_utxo_) : vect_utxo_[i] \in Txs /\ vect_utxo_[i] # o[1]
  BY MovesTypes, ElementOfSeq DEF Queued
<1>2. Surviving(vect_utxo_, o) = {}
  BY <1>1, OutputOfOne DEF Surviving
<1> QED
  BY <1>2, FS_EmptySet

LEMMA DeletedIsSpent ==
    ASSUME TypeInv, NEW o
    PROVE  Deleted(vect_utxo_, o) <=> \E u \in Txs : Queued(u) /\ o \in Spends(u)
<1>1. \A i \in 1 .. Len(vect_utxo_) : vect_utxo_[i] \in Txs
  BY MovesTypes, ElementOfSeq
<1> QED
  BY <1>1 DEF Deleted, Queued

LEMMA FlushUtxoTable ==
    ASSUME TypeInv, IInv, FirstRunInv, ReadOrder, TableInv, FlushUtxo
    PROVE  TableInv'
<1>1. /\ crashes' = crashes
      /\ \A t \in Txs : (Flushed(t)' <=> Flushed(t) \/ Queued(t))
  BY FlushUtxoMoves, FirstRunQueues
<1> SUFFICES ASSUME crashes = 0, NEW o \in Outpoints
             PROVE  utxo'[o] = IF Flushed(o[1])' /\ ~ \E u \in Txs : Flushed(u)' /\ o \in Spends(u)
                               THEN 1 ELSE 0
  BY <1>1 DEF TableInv, Outpoints, Creates, Spends
<1>2. /\ utxo'[o] = (IF Deleted(vect_utxo_, o) THEN 0 ELSE utxo[o])
                    + Cardinality(Surviving(vect_utxo_, o))
      /\ utxo[o] \in Nat
  BY DEF FlushUtxo, TypeInv, TypeOK
<1>3. utxo[o] = IF Flushed(o[1]) /\ ~ \E u \in Txs : Flushed(u) /\ o \in Spends(u) THEN 1 ELSE 0
  BY DEF TableInv
<1>4. o[1] \in Txs /\ \A u \in Txs : o \in Spends(u) => o[1] \in Parents(u)
  BY OutputOfOne
<1> PICK t : t = o[1]
  OBVIOUS
<1>5. CASE ~ Queued(t)
  <2>1. Cardinality(Surviving(vect_utxo_, o)) = 0
    BY <1>5, NoneSurvive
  <2>2. utxo'[o] = IF Deleted(vect_utxo_, o) THEN 0 ELSE utxo[o]
    BY <1>2, <2>1
  <2>3. Flushed(t)' <=> Flushed(t)
    BY <1>1, <1>4, <1>5
  <2>4. (\E u \in Txs : Flushed(u)' /\ o \in Spends(u))
          <=> Deleted(vect_utxo_, o) \/ \E u \in Txs : Flushed(u) /\ o \in Spends(u)
    BY <1>1, DeletedIsSpent
  <2> QED
    BY <1>3, <2>2, <2>3, <2>4
<1>6. CASE Queued(t)
  <2>1. ~ Flushed(t) /\ Flushed(t)'
    BY <1>1, <1>4, <1>6 DEF Flushed
  <2>2. utxo[o] = 0
    BY <1>3, <2>1
  <2>3. ~ \E u \in Txs : Flushed(u) /\ o \in Spends(u)
    BY <1>4, <2>1 DEF ReadOrder
  <2>4. PICK i \in 1 .. Len(vect_utxo_) : vect_utxo_[i] = t
    BY <1>6 DEF Queued
  <2>5. \A j \in 1 .. Len(vect_utxo_) : vect_utxo_[j] \in Txs /\ (o \in Creates(vect_utxo_[j]) <=> j = i)
    <3>1. \A j \in 1 .. Len(vect_utxo_) : vect_utxo_[j] \in Txs
      BY MovesTypes, ElementOfSeq
    <3> QED
      BY <2>4, <3>1, OutputOfOne DEF ReadOrder
  <2>6. \A j \in 1 .. Len(vect_utxo_) : o \in Spends(vect_utxo_[j]) => i < j
    BY <1>4, <2>4, <2>5 DEF ReadOrder
  <2>7. CASE Deleted(vect_utxo_, o)
    <3>1. PICK j \in 1 .. Len(vect_utxo_) : o \in Spends(vect_utxo_[j])
      BY <2>7 DEF Deleted
    <3>2. Len(vect_utxo_) \in Nat /\ i < j /\ ~ (j <= i)
      BY <2>6, <3>1, MovesTypes
    <3>3. Surviving(vect_utxo_, o) = {}
      BY <2>5, <3>1, <3>2 DEF Surviving
    <3>4. utxo'[o] = 0
      BY <1>2, <2>7, <3>3, FS_EmptySet
    <3>5. \E u \in Txs : Flushed(u)' /\ o \in Spends(u)
      BY <1>1, <2>7, DeletedIsSpent
    <3> QED
      BY <3>4, <3>5
  <2>8. CASE ~ Deleted(vect_utxo_, o)
    <3>1. Surviving(vect_utxo_, o) = {i}
      BY <2>4, <2>5, <2>8 DEF Surviving, Deleted
    <3>2. Cardinality({i}) = 1
      BY FS_Singleton
    <3>3. utxo'[o] = 1
      BY <1>2, <2>2, <2>8, <3>1, <3>2
    <3>4. ~ \E u \in Txs : Flushed(u)' /\ o \in Spends(u)
      BY <1>1, <2>3, <2>8, DeletedIsSpent
    <3> QED
      BY <2>1, <3>3, <3>4
  <2> QED
    BY <2>7, <2>8
<1> QED
  BY <1>5, <1>6

LEMMA TableStays ==
    ASSUME TableInv, utxo' = utxo, crashes' = crashes,
           \A t \in Txs : Flushed(t)' <=> Flushed(t)
    PROVE  TableInv'
<1> SUFFICES ASSUME crashes = 0, NEW o \in Outpoints
             PROVE  utxo[o] = IF Flushed(o[1])' /\ ~ \E u \in Txs : Flushed(u)' /\ o \in Spends(u)
                              THEN 1 ELSE 0
  BY DEF TableInv, Outpoints, Creates, Spends
<1>1. utxo[o] = IF Flushed(o[1]) /\ ~ \E u \in Txs : Flushed(u) /\ o \in Spends(u) THEN 1 ELSE 0
  BY DEF TableInv
<1> PICK t : t = o[1]
  OBVIOUS
<1>2. t \in Txs
  BY OutputOfOne
<1> QED
  BY <1>1, <1>2

LEMMA UtxoStep ==
    ASSUME MaxCrashes = 0, ~ RpcMayFail, TopoBlocks,
           TypeInv, IInv, UtxoInv, [Next]_vars
    PROVE  UtxoInv'
<1> USE DEF UtxoInv
<1>1. FirstRunInv' /\ ChainOrder' /\ ReadOrder'
  BY FirstRunStep, OrderStep
<1>2. CASE \/ GetBlockCount \/ BlocksDone \/ GetRawMempool \/ ReadMempoolTx \/ MempoolDone
           \/ FlushUpdate \/ FlushInsert \/ Reply \/ InsertRow \/ Commit \/ Submit
           \/ UNCHANGED vars
  BY <1>1, <1>2, QuietActions, TableStays
<1>3. CASE Mine
  BY <1>1, <1>3, MineMoves, TableStays
<1>4. CASE GetBlock
  BY <1>1, <1>4, GetBlockMoves, TableStays
<1>5. CASE ReadBlockTx
  BY <1>1, <1>5, ReadBlockTxMoves, FirstRunQueues, TableStays
<1>6. CASE FlushUtxo
  BY <1>1, <1>6, FlushUtxoTable
<1>7. CASE Crash \/ FlushThrows
  BY <1>1, <1>7, DieMoves DEF Crash, FlushThrows, TableInv
<1>8. CASE Start
  BY <1>1, <1>8, StartMoves, TableStays
<1> QED
  BY <1>2, <1>3, <1>4, <1>5, <1>6, <1>7, <1>8 DEF Next, Loop, Environment

LEMMA UtxoInit == Init => UtxoInv
<1> SUFFICES ASSUME Init PROVE UtxoInv
  OBVIOUS
<1>1. Len(<< >>) = 0
  BY EmptySeq
<1>2. \A t \in Txs : ~ Queued(t) /\ ~ Flushed(t)
  BY <1>1 DEF Init, Queued, Flushed, ScannedTxs
<1>3. FirstRunInv
  BY FirstRunInit
<1>4. ChainOrder /\ ReadOrder
  BY <1>1, <1>2 DEF Init, ChainOrder, ReadOrder
<1>5. TableInv
  <2> SUFFICES ASSUME NEW o \in Outpoints PROVE utxo[o] = 0 /\ ~ Flushed(o[1])
    BY DEF TableInv
  <2> QED
    BY <1>2, OutputOfOne DEF Init
<1> QED
  BY <1>3, <1>4, <1>5 DEF UtxoInv

\* At the head of the loop nothing is on its way.
LEMMA HeadOfLoop ==
    ASSUME TypeInv, FirstRunInv, pc = "getblockcount", NEW t \in Txs
    PROVE  crashes = 0 /\ (Flushed(t) <=> t \in ScannedTxs)
<1>1. json_txs = << >> /\ vect_utxo_ = << >> /\ crashes = 0
  BY DEF TypeInv, BoundInv, FirstRunInv, QueuedInv
<1>2. Len(json_txs) = 0 /\ Len(vect_utxo_) = 0
  BY <1>1
<1> QED
  BY <1>1, <1>2 DEF Flushed, Queued, Unread

\* Without a restart and with every RPC call answered, table utxo holds at the head
\* of the loop one row for each unspent output of the blocks scanned and no other,
\* if blocks list a parent before its child (FlushUtxoToDB).
THEOREM UtxoIsExact ==
    MaxCrashes = 0 /\ ~ RpcMayFail /\ TopoBlocks => (Spec => []UtxoExact)
<1> SUFFICES ASSUME MaxCrashes = 0, ~ RpcMayFail, TopoBlocks PROVE Spec => []UtxoExact
  OBVIOUS
<1>1. Init => UtxoInv
  BY UtxoInit
<1>2. TypeInv /\ IInv /\ UtxoInv /\ [Next]_vars => UtxoInv'
  BY UtxoStep
<1>3. TypeInv /\ UtxoInv => UtxoExact
  <2> SUFFICES ASSUME TypeInv, UtxoInv, pc = "getblockcount", NEW o \in Outpoints
               PROVE  utxo[o] = IF /\ o[1] \in ScannedTxs
                                   /\ ~ \E u \in ScannedTxs : o \in Spends(u)
                                THEN 1 ELSE 0
    BY DEF UtxoExact
  <2>1. crashes = 0
    BY DEF UtxoInv, FirstRunInv
  <2>2. \A t \in Txs : Flushed(t) <=> t \in ScannedTxs
    BY HeadOfLoop DEF UtxoInv
  <2>3. o[1] \in Txs /\ ScannedTxs \subseteq Txs
    BY OutputOfOne DEF ScannedTxs
  <2>4. utxo[o] = IF Flushed(o[1]) /\ ~ \E u \in Txs : Flushed(u) /\ o \in Spends(u)
                  THEN 1 ELSE 0
    BY <2>1 DEF UtxoInv, TableInv
  <2> QED
    BY <2>2, <2>3, <2>4
<1> QED
  BY <1>1, <1>2, <1>3, InvCorrect, PTL DEF Spec

-----------------------------------------------------------------------------
(* The table over several runs *)

\* What a run of the process has flushed, or lost to a failed RPC call, it does not
\* flush again; what it has still to flush it has not listed yet.
ListedInv ==
    /\ QueuedInv
    /\ pc = "down" => vect_utxo_ = << >>
    /\ \A i, j \in 1 .. Len(vect_utxo_) : vect_utxo_[i] = vect_utxo_[j] => i = j
    /\ \A o \in Outpoints :
         /\ utxo[o] <= crashes + 1
         /\ pc = "down" \/ ~ Flushed(o[1]) => utxo[o] <= crashes

\* Steps of a run that leave the queue and the table as they are.
LEMMA ListedStays ==
    ASSUME ListedInv, QueuedInv', UNCHANGED <<vect_utxo_, utxo, crashes>>,
           pc' = "down" => pc = "down",
           pc # "down" => \A t \in Txs : Flushed(t) => Flushed(t)'
    PROVE  ListedInv'
<1>1. ASSUME NEW o \in Outpoints
      PROVE  /\ utxo'[o] <= crashes' + 1
             /\ pc' = "down" \/ ~ Flushed(o[1])' => utxo'[o] <= crashes'
  BY OutputOfOne DEF ListedInv
<1> QED
  BY <1>1 DEF ListedInv, Outpoints, Creates

LEMMA MineLists ==
    ASSUME TypeInv, ListedInv, Mine
    PROVE  ListedInv'
<1>1. UNCHANGED <<pre_block_height, vect_utxo_, json_txs, crashes, utxo, pc>>
      /\ \E n \in 0 .. Cardinality(mempool) : \E b \in [1 .. n -> mempool] :
            chain' = Append(chain, b)
  BY DEF Mine, db, scan, memory
<1>2. PICK b : chain' = Append(chain, b)
  BY <1>1
<1>3. Len(chain') = Len(chain) + 1 /\ Len(chain) \in Nat
      /\ \A h \in 1 .. Len(chain) : chain'[h] = chain[h]
  BY <1>2, MovesTypes
<1>4. \A t, h : MinedAt(t, h) => MinedAt(t, h)'
  BY <1>3 DEF MinedAt, RangeOf
<1>5. \A t \in Txs : t \in ScannedTxs => t \in ScannedTxs'
  BY <1>1, <1>4 DEF ScannedTxs
<1>6. \A t \in Txs : (Queued(t)' <=> Queued(t)) /\ (Unread(t)' <=> Unread(t))
  BY <1>1 DEF Queued, Unread
<1>7. QueuedInv' /\ \A t \in Txs : Flushed(t) => Flushed(t)'
  BY <1>5, <1>6 DEF ListedInv, QueuedInv, Flushed
<1> QED
  BY <1>1, <1>7, ListedStays

LEMMA ReadBlockTxLists ==
    ASSUME TypeInv, IInv, ListedInv, ReadBlockTx
    PROVE  ListedInv'
<1> PICK u : u = Head(json_txs)
  OBVIOUS
<1>1. /\ UNCHANGED <<crashes, utxo>> /\ QueuedInv' /\ u \in Txs /\ Unread(u)
      /\ \A t \in Txs : Flushed(t) => Flushed(t)'
      /\ vect_utxo_' = vect_utxo_ \/ vect_utxo_' = Append(vect_utxo_, u)
  BY ReadBlockTxMoves DEF ListedInv
<1>2. pc # "down" /\ pc' # "down"
  BY DEF ReadBlockTx
<1>3. CASE vect_utxo_' = vect_utxo_
  BY <1>1, <1>2, <1>3, ListedStays
<1>4. CASE vect_utxo_' = Append(vect_utxo_, u)
  <2>1. \A i \in 1 .. Len(vect_utxo_) : vect_utxo_[i] # u
    BY <1>1 DEF ListedInv, QueuedInv, Queued
  <2>2. /\ Len(vect_utxo_) \in Nat /\ Len(vect_utxo_') = Len(vect_utxo_) + 1
        /\ vect_utxo_'[Len(vect_utxo_) + 1] = u
        /\ \A i \in 1 .. Len(vect_utxo_) : vect_utxo_'[i] = vect_utxo_[i]
    BY <1>4, MovesTypes
  <2>3. ASSUME NEW i \in 1 .. Len(vect_utxo_'), NEW j \in 1 .. Len(vect_utxo_'),
               vect_utxo_'[i] = vect_utxo_'[j]
        PROVE  i = j
    <3>1. /\ i \in 1 .. Len(vect_utxo_) \/ i = Len(vect_utxo_) + 1
          /\ j \in 1 .. Len(vect_utxo_) \/ j = Len(vect_utxo_) + 1
      BY <2>2
    <3> QED
      BY <2>1, <2>2, <2>3, <3>1 DEF ListedInv
  <2>4. ASSUME NEW o \in Outpoints
        PROVE  utxo'[o] <= crashes' + 1 /\ (~ Flushed(o[1])' => utxo'[o] <= crashes')
    BY <1>1, OutputOfOne DEF ListedInv
  <2> QED
    BY <1>1, <1>2, <2>3, <2>4 DEF ListedInv, Outpoints, Creates
<1> QED
  BY <1>1, <1>3, <1>4

\* A flush adds one row for an output of a transaction it holds, whatever it deletes.
LEMMA FlushUtxoLists ==
    ASSUME TypeInv, IInv, ListedInv, FlushUtxo
    PROVE  ListedInv'
<1>1. /\ UNCHANGED crashes /\ QueuedInv' /\ vect_utxo_' = << >> /\ Len(vect_utxo_') = 0
      /\ \A t \in Txs : Flushed(t)' <=> Flushed(t) \/ Queued(t)
  BY FlushUtxoMoves DEF ListedInv
<1>2. pc # "down" /\ pc' # "down"
  BY DEF FlushUtxo
<1>3. crashes \in Nat
  BY MovesTypes
<1>4. ASSUME NEW o \in Outpoints
      PROVE  utxo'[o] <= crashes' + 1 /\ (~ Flushed(o[1])' => utxo'[o] <= crashes')
  <2>1. /\ utxo'[o] = (IF Deleted(vect_utxo_, o) THEN 0 ELSE utxo[o])
                      + Cardinality(Surviving(vect_utxo_, o))
        /\ utxo[o] \in Nat /\ utxo[o] <= crashes + 1
        /\ ~ Flushed(o[1]) => utxo[o] <= crashes
    BY DEF FlushUtxo, TypeInv, TypeOK, ListedInv
  <2>2. o[1] \in Txs
    BY OutputOfOne
  <2>3. CASE ~ Queued(o[1])
    <3>1. Cardinality(Surviving(vect_utxo_, o)) = 0
      BY <2>3, NoneSurvive
    <3>2. utxo'[o] <= utxo[o] /\ utxo'[o] \in Nat
      BY <2>1, <3>1
    <3>3. ~ Flushed(o[1])' => ~ Flushed(o[1])
      BY <1>1, <2>2
    <3> QED
      BY <1>1, <1>3, <2>1, <3>2, <3>3
  <2>4. CASE Queued(o[1])
    <3>1. utxo[o] <= crashes /\ Flushed(o[1])'
      BY <1>1, <2>1, <2>2, <2>4 DEF Flushed
    <3>2. PICK i \in 1 .. Len(vect_utxo_) : vect_utxo_[i] = o[1]
      BY <2>4 DEF Queued
    <3>3. Surviving(vect_utxo_, o) \subseteq {i}
      <4> SUFFICES ASSUME NEW j \in 1 .. Len(vect_utxo_), o \in Creates(vect_utxo_[j])
                   PROVE  j = i
        BY DEF Surviving
      <4>1. vect_utxo_[j] \in Txs
        BY MovesTypes, ElementOfSeq
      <4>2. vect_utxo_[j] = o[1]
        BY <4>1, OutputOfOne
      <4> QED
        BY <3>2, <4>2 DEF ListedInv
    <3>4. Cardinality(Surviving(vect_utxo_, o)) \in 0 .. 1
      <4>1. Surviving(vect_utxo_, o) = {} \/ Surviving(vect_utxo_, o) = {i}
        BY <3>3
      <4>2. Surviving(vect_utxo_, o) = {i} => Cardinality(Surviving(vect_utxo_, o)) = 1
        BY FS_Singleton, Zenon
      <4>3. Surviving(vect_utxo_, o) = {} => Cardinality(Surviving(vect_utxo_, o)) = 0
        BY FS_EmptySet, Zenon
      <4> QED
        BY <4>1, <4>2, <4>3
    <3> QED
      BY <1>1, <1>3, <2>1, <3>1, <3>4
  <2> QED
    BY <2>3, <2>4
<1> QED
  BY <1>1, <1>2, <1>4 DEF ListedInv, Outpoints, Creates

\* A death gives the next run a row more.
LEMMA DieLists ==
    ASSUME TypeInv, ListedInv, Die, UNCHANGED <<node, db>>
    PROVE  ListedInv'
<1>1. /\ vect_utxo_' = << >> /\ Len(vect_utxo_') = 0 /\ crashes' = crashes + 1
      /\ utxo' = utxo
  BY DEF Die, db
<1>2. \A t \in Txs : ~ Queued(t)'
  BY <1>1 DEF Queued
<1>3. ASSUME NEW o \in Outpoints PROVE utxo'[o] <= crashes' /\ utxo'[o] <= crashes' + 1
  <2>1. utxo[o] \in Nat /\ utxo[o] <= crashes + 1 /\ crashes \in Nat
    BY DEF TypeInv, TypeOK, ListedInv
  <2> QED
    BY <1>1, <2>1
<1>4. QueuedInv'
  BY <1>2 DEF QueuedInv
<1> QED
  BY <1>1, <1>3, <1>4 DEF ListedInv, Outpoints, Creates

LEMMA StartLists ==
    ASSUME TypeInv, ListedInv, Start
    PROVE  ListedInv'
<1>1. UNCHANGED <<vect_utxo_, utxo, crashes>> /\ pc = "down" /\ pc' = "getblockcount"
  BY DEF Start, node, db
<1>2. vect_utxo_' = << >> /\ Len(vect_utxo_') = 0
  BY <1>1 DEF ListedInv
<1>3. QueuedInv'
  BY <1>2 DEF QueuedInv, Queued
<1> QED
  BY <1>1, <1>3, ListedStays

LEMMA ListedStep ==
    ASSUME TypeInv, IInv, ListedInv, [Next]_vars
    PROVE  ListedInv'
<1>1. CASE \/ GetBlockCount \/ BlocksDone \/ GetRawMempool \/ ReadMempoolTx \/ MempoolDone
           \/ FlushUpdate \/ FlushInsert \/ Reply \/ InsertRow \/ Commit \/ Submit
           \/ UNCHANGED vars
  <2>1. /\ UNCHANGED <<vect_utxo_, utxo, crashes>> /\ QueuedInv'
        /\ \A t \in Txs : Flushed(t) => Flushed(t)'
    BY <1>1, QuietActions DEF ListedInv
  <2>2. pc' = "down" => pc = "down"
    <3>1. CASE FlushInsert
      <4>1. pc = "flush" /\ vect_tx_ # << >> /\ ResponseAction(Head(vect_tx_).tx)
        BY <3>1 DEF FlushInsert
      <4>2. Head(vect_tx_) \in Entry
        BY <4>1, HeadTailProperties DEF TypeInv, TypeOK
      <4>3. pc' \in {pc, "reply", "rows"}
        BY <4>1, <4>2, ResponseCounts DEF Entry
      <4> QED
        BY <4>1, <4>3
    <3> QED
      BY <1>1, <3>1 DEF GetBlockCount, BlocksDone, GetRawMempool, ReadMempoolTx, MempoolDone,
         FlushUpdate, Reply, InsertRow, Commit, Submit, vars
  <2> QED
    BY <2>1, <2>2, ListedStays
<1>2. CASE Mine
  BY <1>2, MineLists
<1>3. CASE GetBlock
  <2>1. /\ UNCHANGED <<vect_utxo_, utxo, crashes>> /\ QueuedInv'
        /\ \A t \in Txs : Flushed(t) => Flushed(t)'
    BY <1>3, GetBlockMoves DEF ListedInv
  <2>2. pc' = pc
    BY <1>3 DEF GetBlock
  <2> QED
    BY <2>1, <2>2, ListedStays
<1>4. CASE ReadBlockTx
  BY <1>4, ReadBlockTxLists
<1>5. CASE FlushUtxo
  BY <1>5, FlushUtxoLists
<1>6. CASE Crash \/ FlushThrows
  BY <1>6, DieLists DEF Crash, FlushThrows
<1>7. CASE Start
  BY <1>7, StartLists
<1> QED
  BY <1>1, <1>2, <1>3, <1>4, <1>5, <1>6, <1>7 DEF Next, Loop, Environment

LEMMA ListedInit == Init => ListedInv
<1> SUFFICES ASSUME Init PROVE ListedInv
  OBVIOUS
<1>1. vect_utxo_ = << >> /\ Len(vect_utxo_) = 0 /\ crashes = 0
  BY EmptySeq DEF Init
<1>2. QueuedInv
  BY <1>1 DEF QueuedInv, Queued
<1>3. \A o \in Outpoints : utxo[o] <= crashes /\ utxo[o] <= crashes + 1
  BY <1>1 DEF Init
<1> QED
  BY <1>1, <1>2, <1>3 DEF ListedInv

\* However often the process dies, whatever RPC calls fail and in whatever order a
\* block lists its transactions, one run of the process lists an output at most once
\* (FlushUtxoToDB).
THEOREM OneListingPerRun == Spec => []UtxoListedOncePerRun
<1>1. Init => ListedInv
  BY ListedInit
<1>2. TypeInv /\ IInv /\ ListedInv /\ [Next]_vars => ListedInv'
  BY ListedStep
<1>3. ListedInv => UtxoListedOncePerRun
  BY DEF ListedInv, UtxoListedOncePerRun
<1> QED
  BY <1>1, <1>2, <1>3, InvCorrect, PTL DEF Spec
=============================================================================
