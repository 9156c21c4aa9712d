-------------------------- MODULE ScanBlockProofs --------------------------
(***************************************************************************)
(* The inductive invariant IInv of ScanBlock and what follows from it, for *)
(* every set of transactions, every wallet and every bound: a request that *)
(* is recorded is never answered again, one run of the process answers a   *)
(* request at most once, and the list of unconfirmed transactions in       *)
(* memory is what txinfo says.                                             *)
(***************************************************************************)
EXTENDS ScanBlockTypes

USE DEF NotRecorded, InMempool

-----------------------------------------------------------------------------
(* Blocks *)

\* A transaction is in one block only.
LEMMA MinedOnce ==
    ASSUME TypeInv, NodeInv, NEW t, NEW g, NEW h, MinedAt(t, g), MinedAt(t, h)
    PROVE  g = h
<1>1. PICK i \in 1 .. Len(chain[g]) : t = chain[g][i]
  BY DEF MinedAt, RangeOf
<1>2. PICK j \in 1 .. Len(chain[h]) : t = chain[h][j]
  BY DEF MinedAt, RangeOf
<1> QED
  BY <1>1, <1>2 DEF MinedAt, NodeInv

LEMMA MinedLeftMempool ==
    ASSUME NodeInv, NEW t, NEW h, MinedAt(t, h)
    PROVE  t \in OnChain /\ t \notin mempool
BY DEF MinedAt, RangeOf, NodeInv, OnChain

LEMMA MinedWhenUnchanged ==
    ASSUME UNCHANGED chain
    PROVE  \A t, h : MinedAt(t, h) => MinedAt(t, h)'
BY DEF MinedAt, RangeOf

\* Sending a transaction and mining a block keep a transaction at one place.
LEMMA NodeAfterSubmit ==
    ASSUME NodeInv, UNCHANGED chain, NEW t, Accepts(t), mempool' = mempool \cup {t}
    PROVE  NodeInv'
<1>1. \A h \in 1 .. Len(chain) : \A i \in 1 .. Len(chain[h]) : chain[h][i] # t
  BY DEF Accepts, OnChain, RangeOf
<1> QED
  BY <1>1 DEF NodeInv

LEMMA NodeAfterMine ==
    ASSUME TypeInv, NodeInv, Mine
    PROVE  NodeInv' /\ \A t, h : MinedAt(t, h) => MinedAt(t, h)'
<1>0. PICK n \in 0 .. Cardinality(mempool) : \E b \in [1 .. n -> mempool] :
         /\ IsBlock(b)
         /\ chain' = Append(chain, b) /\ mempool' = mempool \ RangeOf(b)
  BY DEF Mine
<1>1. PICK b \in [1 .. n -> mempool] :
         /\ IsBlock(b)
         /\ chain' = Append(chain, b) /\ mempool' = mempool \ RangeOf(b)
  BY <1>0
<1>2. mempool \subseteq Txs /\ Cardinality(mempool) \in Nat
  BY TxAssumption, FS_Subset, FS_CardinalityType DEF TypeInv, TypeOK
<1>3. n \in Nat /\ b \in [1 .. n -> Txs]
  BY <1>1, <1>2
<1>4. b \in Seq(Txs) /\ Len(b) = n /\ DOMAIN b = 1 .. n
  BY <1>3, SeqDef
<1>5. chain \in Seq(Seq(Txs)) /\ Len(chain) \in Nat
  BY DEF TypeInv, TypeOK
<1>6. /\ Len(chain') = Len(chain) + 1
      /\ chain'[Len(chain) + 1] = b
      /\ \A h \in 1 .. Len(chain) : chain'[h] = chain[h]
  BY <1>1, <1>4, <1>5, AppendProperties
<1>7. \A i, j \in 1 .. n : b[i] = b[j] => i = j
  BY <1>1, <1>4 DEF IsBlock
<1>8. \A i \in 1 .. n : b[i] \in mempool
  BY <1>1
<1>9. \A h \in 1 .. Len(chain) : \A i \in 1 .. Len(chain[h]) : chain[h][i] \notin mempool
  BY DEF NodeInv
<1>10. \A g, h \in 1 .. Len(chain') :
          \A i \in 1 .. Len(chain'[g]), j \in 1 .. Len(chain'[h]) :
            chain'[g][i] = chain'[h][j] => g = h /\ i = j
  <2> TAKE g, h \in 1 .. Len(chain')
  <2> TAKE i \in 1 .. Len(chain'[g]), j \in 1 .. Len(chain'[h])
  <2>1. CASE g \in 1 .. Len(chain) /\ h \in 1 .. Len(chain)
    <3>1. chain'[g] = chain[g] /\ chain'[h] = chain[h]
      BY <1>6, <2>1
    <3> QED
      BY <2>1, <3>1 DEF NodeInv
  <2>2. CASE g = Len(chain) + 1 /\ h = Len(chain) + 1
    <3>1. chain'[g] = b /\ chain'[h] = b /\ g = h
      BY <1>6, <2>2
    <3> QED
      BY <1>4, <1>7, <3>1
  <2>3. CASE g \in 1 .. Len(chain) /\ h = Len(chain) + 1
    <3>1. chain'[g] = chain[g] /\ chain'[h] = b
      BY <1>6, <2>3
    <3>2. chain'[g][i] \notin mempool
      BY <1>9, <2>3, <3>1
    <3>3. chain'[h][j] \in mempool
      BY <1>4, <1>8, <3>1
    <3> QED
      BY <3>2, <3>3
  <2>4. CASE g = Len(chain) + 1 /\ h \in 1 .. Len(chain)
    <3>1. chain'[h] = chain[h] /\ chain'[g] = b
      BY <1>6, <2>4
    <3>2. chain'[h][j] \notin mempool
      BY <1>9, <2>4, <3>1
    <3>3. chain'[g][i] \in mempool
      BY <1>4, <1>8, <3>1
    <3> QED
      BY <3>2, <3>3
  <2> QED
    BY <1>5, <1>6, <2>1, <2>2, <2>3, <2>4
<1>11. \A h \in 1 .. Len(chain') : \A i \in 1 .. Len(chain'[h]) : chain'[h][i] \notin mempool'
  <2> TAKE h \in 1 .. Len(chain')
  <2> TAKE i \in 1 .. Len(chain'[h])
  <2>1. CASE h \in 1 .. Len(chain)
    BY <1>1, <1>6, <1>9, <2>1
  <2>2. CASE h = Len(chain) + 1
    BY <1>1, <1>4, <1>6, <2>2 DEF RangeOf
  <2> QED
    BY <1>5, <1>6, <2>1, <2>2
<1>12. \A t, h : MinedAt(t, h) => MinedAt(t, h)'
  BY <1>5, <1>6 DEF MinedAt, RangeOf
<1> QED
  BY <1>10, <1>11, <1>12 DEF NodeInv

-----------------------------------------------------------------------------
(* Steps that only move on to another phase *)

LEMMA NodeUnchanged ==
    ASSUME NodeInv, UNCHANGED <<chain, mempool>>
    PROVE  NodeInv'
BY DEF NodeInv

\* The node forgets no transaction.
NodeGrows == OnChain \cup mempool \subseteq (OnChain \cup mempool)'

LEMMA NodeForgetsNothing ==
    ASSUME TypeInv, [Next]_vars
    PROVE  NodeGrows
<1>1. ASSUME chain' = chain, mempool \subseteq mempool'
      PROVE  NodeGrows
  BY <1>1 DEF NodeGrows, OnChain, RangeOf
<1>2. CASE Mine
  <2>0. PICK n \in 0 .. Cardinality(mempool) : \E b \in [1 .. n -> mempool] :
           chain' = Append(chain, b) /\ mempool' = mempool \ RangeOf(b)
    BY <1>2 DEF Mine
  <2>1. PICK b : chain' = Append(chain, b) /\ mempool' = mempool \ RangeOf(b)
    BY <2>0
  <2>2. /\ Len(chain) \in Nat /\ Len(chain') = Len(chain) + 1 /\ chain'[Len(chain) + 1] = b
        /\ \A h \in 1 .. Len(chain) : chain'[h] = chain[h]
    BY <2>1 DEF TypeInv, TypeOK
  <2>3. /\ \A h \in 1 .. Len(chain) : RangeOf(chain'[h]) = RangeOf(chain[h])
        /\ RangeOf(chain'[Len(chain) + 1]) = RangeOf(b)
    BY <2>2 DEF RangeOf
  <2>4. OnChain \subseteq OnChain' /\ RangeOf(b) \subseteq OnChain'
    <3>1. \A h \in 1 .. Len(chain) : h \in 1 .. Len(chain')
      BY <2>2
    <3>2. Len(chain) + 1 \in 1 .. Len(chain')
      BY <2>2
    <3> QED
      BY <2>3, <3>1, <3>2 DEF OnChain
  <2> QED
    BY <2>1, <2>4 DEF NodeGrows
<1>3. CASE Submit
  BY <1>1, <1>3 DEF Submit
<1>4. CASE Reply
  BY <1>1, <1>4 DEF Reply
<1>5. CASE ~ Mine /\ ~ Submit /\ ~ Reply
  <2>1. chain' = chain /\ mempool' = mempool
    BY <1>5 DEF Next, Loop, Environment, GetBlockCount, GetBlock, ReadBlockTx, BlocksDone,
       GetRawMempool, ReadMempoolTx, MempoolDone, FlushUpdate, FlushInsert, FlushThrows,
       InsertRow, Commit, FlushUtxo, Start, Crash, vars, node
  <2> QED
    BY <1>1, <2>1
<1> QED
  BY <1>2, <1>3, <1>4, <1>5

\* The blocks of the chain stay.
ChainGrows == \A t, h : MinedAt(t, h) => MinedAt(t, h)'

LEMMA PhaseStep ==
    ASSUME TypeInv, TypeInv', IInv, NodeInv', ChainGrows,
           UNCHANGED <<txinfo, pre_block_height, json_txs, json_pool, vect_tx_,
                       vect_mempool_tx_, vect_insert, answered, crashes>>,
           (pc # "down" /\ pc' # "down") \/ pc' = pc,
           pc' = "getblock" => pc = "getblock" \/ vect_tx_ = << >>,
           PhaseInv'
    PROVE  IInv'
<1> USE DEF IInv, ChainGrows
<1>1. HeightInv'
  BY DEF HeightInv
<1>2. SeenInv'
  BY DEF SeenInv
<1>3. QueueInv'
  <2>1. Len(vect_tx_) \in Nat
    BY DEF TypeInv, TypeOK
  <2> QED
    BY <2>1 DEF QueueInv
<1>4. ReadInv'
  BY DEF ReadInv
<1>5. StatementInv'
  BY DEF StatementInv
<1>6. AnswerInv'
  BY DEF AnswerInv
<1>7. BoundInv'
  BY DEF TypeInv
<1> QED
  BY <1>1, <1>2, <1>3, <1>4, <1>5, <1>6, <1>7

LEMMA SubmitKeeps ==
    ASSUME TypeInv, TypeInv', IInv, Submit
    PROVE  IInv'
<1>1. PICK t \in Requests : Accepts(t) /\ mempool' = mempool \cup {t}
  BY DEF Submit
<1>2. /\ UNCHANGED <<txinfo, pre_block_height, json_txs, json_pool, vect_tx_,
                     vect_mempool_tx_, vect_insert, answered, crashes>>
      /\ pc' = pc /\ chain' = chain
  BY DEF Submit, db, scan, memory
<1>3. NodeInv' /\ ChainGrows
  BY <1>1, <1>2, NodeAfterSubmit, MinedWhenUnchanged DEF IInv, ChainGrows
<1>4. PhaseInv'
  BY <1>2 DEF IInv, PhaseInv
<1> QED
  BY <1>2, <1>3, <1>4, PhaseStep

LEMMA MineKeeps ==
    ASSUME TypeInv, TypeInv', IInv, Mine
    PROVE  IInv'
<1>1. /\ UNCHANGED <<txinfo, pre_block_height, json_txs, json_pool, vect_tx_,
                     vect_mempool_tx_, vect_insert, answered, crashes>>
      /\ pc' = pc
  BY DEF Mine, db, scan, memory
<1>2. NodeInv' /\ ChainGrows
  BY NodeAfterMine DEF IInv, ChainGrows
<1>3. PhaseInv'
  BY <1>1 DEF IInv, PhaseInv
<1> QED
  BY <1>1, <1>2, <1>3, PhaseStep

LEMMA ReplyKeeps ==
    ASSUME TypeInv, TypeInv', IInv, Reply
    PROVE  IInv'
<1>1. /\ UNCHANGED <<txinfo, pre_block_height, json_txs, json_pool, vect_tx_,
                     vect_mempool_tx_, vect_insert, answered, crashes>>
      /\ pc = "reply" /\ pc' \in {"flush", "rows"} /\ chain' = chain
  BY DEF Reply, db, scan, memory
<1>2. NodeInv'
  <2>1. CASE mempool' = mempool
    BY <1>1, <2>1 DEF IInv, NodeInv
  <2>2. CASE \E id : Accepts(id) /\ mempool' = mempool \cup {id}
    BY <1>1, <2>2, NodeAfterSubmit DEF IInv
  <2> QED
    BY <2>1, <2>2 DEF Reply, IsReply
<1>3. ChainGrows
  BY <1>1, MinedWhenUnchanged DEF ChainGrows
<1>4. PhaseInv'
  BY <1>1 DEF IInv, PhaseInv
<1> QED
  BY <1>1, <1>2, <1>3, <1>4, PhaseStep

\* The steps of the process that change neither the node nor the lists.
LEMMA OtherPhasesKeep ==
    ASSUME TypeInv, TypeInv', IInv,
           \/ GetBlockCount \/ BlocksDone \/ MempoolDone \/ InsertRow \/ FlushUtxo
           \/ UNCHANGED vars
    PROVE  IInv'
<1>1. /\ UNCHANGED <<txinfo, pre_block_height, json_txs, json_pool, vect_tx_,
                     vect_mempool_tx_, vect_insert, answered, crashes>>
      /\ UNCHANGED <<chain, mempool>>
  BY DEF GetBlockCount, BlocksDone, MempoolDone, InsertRow, FlushUtxo, vars, node, db,
         scan, memory
<1>2. NodeInv' /\ ChainGrows
  BY <1>1, MinedWhenUnchanged DEF IInv, NodeInv, ChainGrows
<1>3. /\ (pc # "down" /\ pc' # "down") \/ pc' = pc
      /\ pc' = "getblock" => pc = "getblock" \/ vect_tx_ = << >>
      /\ PhaseInv'
  <2>1. CASE GetBlockCount
    BY <1>1, <2>1 DEF GetBlockCount, IInv, PhaseInv
  <2>2. CASE BlocksDone
    BY <1>1, <2>2 DEF BlocksDone, IInv, PhaseInv
  <2>3. CASE MempoolDone
    BY <1>1, <2>3 DEF MempoolDone, IInv, PhaseInv
  <2>4. CASE InsertRow
    BY <1>1, <2>4 DEF InsertRow, IInv, PhaseInv
  <2>5. CASE FlushUtxo
    BY <1>1, <2>5 DEF FlushUtxo, IInv, PhaseInv
  <2>6. CASE UNCHANGED vars
    BY <1>1, <2>6 DEF vars, IInv, PhaseInv
  <2> QED
    BY <2>1, <2>2, <2>3, <2>4, <2>5, <2>6
<1> QED
  BY <1>1, <1>2, <1>3, PhaseStep

-----------------------------------------------------------------------------
(* Reading blocks and the mempool *)

LEMMA GetBlockKeeps ==
    ASSUME TypeInv, TypeInv', IInv, GetBlock
    PROVE  IInv'
<1>1. /\ UNCHANGED <<txinfo, json_pool, vect_tx_, vect_mempool_tx_, vect_insert,
                     answered, crashes>>
      /\ chain' = chain /\ mempool' = mempool
      /\ pc = "getblock" /\ pc' = "getblock" /\ json_txs = << >>
      /\ pre_block_height' = pre_block_height + 1
      /\ pre_block_height < current_height
      /\ json_txs' = chain[pre_block_height + 1] \/ json_txs' = << >>
  BY DEF GetBlock, node, db, memory
<1>2. /\ pre_block_height \in Nat /\ pre_block_height + 1 \in 1 .. Len(chain)
      /\ txinfo \in [Txs -> Heights] /\ Len(vect_tx_) \in Nat
      /\ vect_tx_ \in Seq(Entry)
  <2>1. pre_block_height \in Nat /\ Len(chain) \in Nat /\ current_height \in Nat
    BY WidthAssumption, BoundAssumption DEF TypeInv, TypeOK, Qty
  <2>2. current_height <= Len(chain)
    BY DEF TypeInv, BoundInv
  <2>3. pre_block_height + 1 \in 1 .. Len(chain)
    BY <1>1, <2>1, <2>2
  <2>4. txinfo \in [Txs -> Heights] /\ vect_tx_ \in Seq(Entry)
    BY DEF TypeInv, TypeOK
  <2> QED
    BY <2>1, <2>3, <2>4
<1>3. ChainGrows
  BY <1>1, MinedWhenUnchanged DEF ChainGrows
<1>4. NodeInv'
  BY <1>1, NodeUnchanged DEF IInv
<1>5. PhaseInv'
  BY <1>1 DEF IInv, PhaseInv
<1>6. HeightInv'
  <2> SUFFICES ASSUME NEW t \in Txs, txinfo[t] > 0
               PROVE  MinedAt(t, txinfo[t])' /\ txinfo[t] <= pre_block_height'
    BY <1>1 DEF HeightInv
  <2>1. MinedAt(t, txinfo[t]) /\ txinfo[t] <= pre_block_height
    BY <1>1 DEF IInv, HeightInv
  <2>2. txinfo[t] \in Int
    BY <1>2, BoundAssumption DEF Heights
  <2> QED
    BY <1>1, <1>2, <1>3, <2>1, <2>2 DEF ChainGrows
<1>7. SeenInv'
  BY <1>1 DEF IInv, SeenInv
<1>8. QueueInv'
  <2>1. ASSUME NEW i \in 1 .. Len(vect_tx_)
        PROVE  vect_tx_[i].height \in Int
    <3>1. vect_tx_[i] \in Entry
      BY <1>2, ElementOfSeq
    <3> QED
      BY <3>1, BoundAssumption DEF Entry
  <2> QED
    BY <1>1, <1>2, <1>3, <2>1 DEF IInv, QueueInv, ChainGrows
<1>9. ReadInv'
  <2>1. \A i, j \in 1 .. Len(json_txs') : json_txs'[i] = json_txs'[j] => i = j
    BY <1>1, <1>2 DEF IInv, NodeInv
  <2>2. \A t \in json_pool' :
          txinfo'[t] = NotRecorded /\ \A j \in 1 .. Len(vect_tx_') : vect_tx_'[j].tx # t
    BY <1>1 DEF IInv, ReadInv
  <2>3. ASSUME NEW i \in 1 .. Len(json_txs')
        PROVE  /\ MinedAt(json_txs[i], pre_block_height)'
               /\ txinfo'[json_txs'[i]] \in {NotRecorded, InMempool}
               /\ \A j \in 1 .. Len(vect_tx_') : vect_tx_'[j].tx # json_txs'[i]
    <3>0. PICK t : t = json_txs'[i]
      OBVIOUS
    <3>1. json_txs' = chain[pre_block_height + 1]
      BY <1>1, <2>3
    <3>2. MinedAt(t, pre_block_height + 1)
      BY <1>2, <3>0, <3>1 DEF MinedAt, RangeOf
    <3>3. t \in Txs
      BY <3>0, ElementOfSeq DEF TypeInv, TypeOK
    <3>4. txinfo[t] \in {NotRecorded, InMempool}
      <4>1. CASE txinfo[t] > 0
        <5>1. MinedAt(t, txinfo[t]) /\ txinfo[t] <= pre_block_height
          BY <1>1, <3>3, <4>1 DEF IInv, HeightInv
        <5>2. txinfo[t] = pre_block_height + 1
          BY <3>2, <5>1, MinedOnce DEF IInv
        <5> QED
          BY <1>2, <5>1, <5>2
      <4>2. CASE ~ (txinfo[t] > 0)
        <5>1. txinfo[t] \in Heights
          BY <1>2, <3>3
        <5> QED
          BY <4>2, <5>1, BoundAssumption DEF Heights
      <4> QED
        BY <4>1, <4>2
    <3>5. ASSUME NEW j \in 1 .. Len(vect_tx_), vect_tx_[j].tx = t
          PROVE  FALSE
      <4>1. MinedAt(t, vect_tx_[j].height) /\ vect_tx_[j].height <= pre_block_height
        BY <1>1, <3>5 DEF IInv, QueueInv
      <4>2. vect_tx_[j].height = pre_block_height + 1
        BY <3>2, <4>1, MinedOnce DEF IInv
      <4> QED
        BY <1>2, <4>1, <4>2
    <3>6. MinedAt(json_txs[i], pre_block_height)'
      BY <1>1, <3>0, <3>2 DEF MinedAt, RangeOf
    <3> QED
      BY <1>1, <3>0, <3>4, <3>5, <3>6
  <2> QED
    BY <2>1, <2>2, <2>3 DEF ReadInv
<1>10. StatementInv'
  BY <1>1, <1>5 DEF IInv, StatementInv, PhaseInv, NoInserts, NoStatement
<1>11. AnswerInv'
  BY <1>1 DEF IInv, AnswerInv
<1> QED
  BY <1>4, <1>5, <1>6, <1>7, <1>8, <1>9, <1>10, <1>11 DEF IInv, TypeInv

LEMMA ReadBlockTxKeeps ==
    ASSUME TypeInv, TypeInv', IInv, ReadBlockTx
    PROVE  IInv'
<1> DEFINE t == Head(json_txs)
           e == [tx |-> t, height |-> pre_block_height]
<1>1. /\ UNCHANGED <<txinfo, pre_block_height, json_pool, vect_mempool_tx_, vect_insert,
                     answered, crashes>>
      /\ chain' = chain /\ mempool' = mempool
      /\ pc = "getblock" /\ pc' = "getblock" /\ json_txs # << >>
      /\ vect_tx_' = Append(vect_tx_, e) \/ vect_tx_' = vect_tx_
      /\ json_txs' = Tail(json_txs)
  <2>1. pre_block_height # InMempool
    BY DEF ReadBlockTx, TypeInv, BoundInv
  <2> QED
    BY <2>1 DEF ReadBlockTx, AddTransaction, node, db, memory
<1>2. /\ json_txs \in Seq(Txs) /\ vect_tx_ \in Seq(Entry) /\ pre_block_height \in 1 .. MaxHeight
      /\ txinfo \in [Txs -> Heights]
  <2>1. /\ json_txs \in Seq(Txs) /\ vect_tx_ \in Seq(Entry) /\ txinfo \in [Txs -> Heights]
        /\ chain \in Seq(Seq(Txs)) /\ Len(chain) <= MaxHeight
        /\ current_height <= Len(chain) /\ current_height \in 0 .. MaxHeight
        /\ pre_block_height \in 1 .. current_height
    BY <1>1 DEF TypeInv, TypeOK, BoundInv
  <2> QED
    BY <2>1, BoundAssumption
<1>3. /\ Len(json_txs) \in Nat /\ Len(json_txs) > 0 /\ t = json_txs[1] /\ t \in Txs
      /\ Len(json_txs') = Len(json_txs) - 1
      /\ \A i \in 1 .. Len(json_txs') : json_txs'[i] = json_txs[i + 1]
  BY <1>1, <1>2, HeadTailProperties
<1>4. e \in Entry /\ e.tx = t /\ e.height = pre_block_height
  BY <1>2, <1>3 DEF Entry
<1>5. /\ Len(vect_tx_) \in Nat
      /\ \/ vect_tx_' = vect_tx_
         \/ /\ Len(vect_tx_') = Len(vect_tx_) + 1
            /\ \A i \in 1 .. Len(vect_tx_) : vect_tx_'[i] = vect_tx_[i]
            /\ vect_tx_'[Len(vect_tx_) + 1] = e
  BY <1>1, <1>2, <1>4, AppendProperties
<1> HIDE DEF t, e
<1>6. /\ MinedAt(t, pre_block_height)
      /\ txinfo[t] \in {NotRecorded, InMempool}
      /\ \A j \in 1 .. Len(vect_tx_) : vect_tx_[j].tx # t
  BY <1>3 DEF IInv, ReadInv
<1>7. vect_insert = NoInserts
  BY <1>1 DEF IInv, PhaseInv
<1>8. txinfo[t] = NotRecorded \/ t \in vect_mempool_tx_
  BY <1>1, <1>3, <1>6, <1>7 DEF IInv, SeenInv, NoInserts, NoStatement
<1>9. ChainGrows
  BY <1>1, MinedWhenUnchanged DEF ChainGrows
<1>10. NodeInv'
  BY <1>1, NodeUnchanged DEF IInv
<1>11. PhaseInv'
  BY <1>1 DEF IInv, PhaseInv
<1>12. HeightInv'
  BY <1>1, <1>9 DEF IInv, HeightInv, ChainGrows
<1>13. SeenInv'
  BY <1>1, <1>5 DEF IInv, SeenInv
<1>14. QueueInv'
  <2>1. \A i, j \in 1 .. Len(vect_tx_') : vect_tx_'[i].tx = vect_tx_'[j].tx => i = j
    <3>1. \A i, j \in 1 .. Len(vect_tx_) : vect_tx_[i].tx = vect_tx_[j].tx => i = j
      BY DEF IInv, QueueInv
    <3>2. CASE vect_tx_' = vect_tx_
      BY <3>1, <3>2
    <3>3. CASE /\ Len(vect_tx_') = Len(vect_tx_) + 1
               /\ \A i \in 1 .. Len(vect_tx_) : vect_tx_'[i] = vect_tx_[i]
               /\ vect_tx_'[Len(vect_tx_) + 1] = e
      <4>1. \A i \in 1 .. Len(vect_tx_') :
               i \in 1 .. Len(vect_tx_) \/ i = Len(vect_tx_) + 1
        BY <1>5, <3>3
      <4>2. \A i \in 1 .. Len(vect_tx_) : vect_tx_'[i].tx = vect_tx_[i].tx /\ vect_tx_[i].tx # t
        BY <1>6, <3>3
      <4>3. vect_tx_'[Len(vect_tx_) + 1].tx = t
        BY <1>4, <3>3
      <4> QED
        BY <3>1, <4>1, <4>2, <4>3
    <3> QED
      BY <1>5, <3>2, <3>3
  <2>2. ASSUME NEW i \in 1 .. Len(vect_tx_'), vect_tx_'[i] = e
        PROVE  /\ vect_insert[e.tx] = NoStatement /\ e.height # InMempool
               /\ MinedAt(vect_tx_[i].tx, vect_tx_[i].height)'
               /\ e.height <= pre_block_height
               /\ txinfo[e.tx] = NotRecorded \/ e.tx \in vect_mempool_tx_
    <3>1. MinedAt(vect_tx_[i].tx, vect_tx_[i].height)'
      BY <1>1, <1>4, <1>6, <2>2 DEF MinedAt, RangeOf
    <3> QED
      BY <1>2, <1>3, <1>4, <1>7, <1>8, <3>1 DEF NoInserts
  <2>3. ASSUME NEW i \in 1 .. Len(vect_tx_), vect_tx_'[i] = vect_tx_[i]
        PROVE  /\ vect_insert[vect_tx_[i].tx] = NoStatement
               /\ vect_tx_[i].height # InMempool
               /\ MinedAt(vect_tx_[i].tx, vect_tx_[i].height)'
               /\ vect_tx_[i].height <= pre_block_height
               /\ txinfo[vect_tx_[i].tx] = NotRecorded \/ vect_tx_[i].tx \in vect_mempool_tx_
    BY <1>1, <1>9 DEF IInv, QueueInv, ChainGrows
  <2>4. \A i \in 1 .. Len(vect_tx_') :
           \/ vect_tx_'[i] = e
           \/ i \in 1 .. Len(vect_tx_) /\ vect_tx_'[i] = vect_tx_[i]
    BY <1>5
  <2> QED
    BY <1>1, <1>4, <2>1, <2>2, <2>3, <2>4 DEF QueueInv
<1>15. ReadInv'
  <2>1. \A i, j \in 1 .. Len(json_txs) : json_txs[i] = json_txs[j] => i = j
    BY DEF IInv, ReadInv
  <2>2. \A i, j \in 1 .. Len(json_txs') : json_txs'[i] = json_txs'[j] => i = j
    BY <1>3, <2>1
  <2>3. ASSUME NEW i \in 1 .. Len(json_txs')
        PROVE  /\ MinedAt(json_txs[i], pre_block_height)'
               /\ txinfo[json_txs'[i]] \in {NotRecorded, InMempool}
               /\ \A j \in 1 .. Len(vect_tx_) : vect_tx_[j].tx # json_txs'[i]
               /\ json_txs'[i] # t
    <3>1. i + 1 \in 1 .. Len(json_txs) /\ json_txs'[i] = json_txs[i + 1] /\ 1 \in 1 .. Len(json_txs)
      BY <1>3
    <3>2. /\ MinedAt(json_txs[i + 1], pre_block_height)
          /\ txinfo[json_txs[i + 1]] \in {NotRecorded, InMempool}
          /\ \A j \in 1 .. Len(vect_tx_) : vect_tx_[j].tx # json_txs[i + 1]
      BY <3>1 DEF IInv, ReadInv
    <3>3. MinedAt(json_txs[i], pre_block_height)'
      BY <1>1, <3>1, <3>2 DEF MinedAt, RangeOf
    <3>4. json_txs'[i] # t
      BY <1>3, <2>1, <3>1
    <3> QED
      BY <3>1, <3>2, <3>3, <3>4
  <2>4. json_pool = {}
    BY <1>1 DEF IInv, PhaseInv
  <2>5. \A j \in 1 .. Len(vect_tx_') :
           \/ vect_tx_'[j] = e
           \/ j \in 1 .. Len(vect_tx_) /\ vect_tx_'[j] = vect_tx_[j]
    BY <1>5
  <2> QED
    BY <1>1, <1>4, <2>2, <2>3, <2>4, <2>5 DEF ReadInv
<1>16. StatementInv'
  BY <1>1, <1>9 DEF IInv, StatementInv, ChainGrows
<1>17. AnswerInv'
  BY <1>1 DEF IInv, AnswerInv
<1> QED
  BY <1>10, <1>11, <1>12, <1>13, <1>14, <1>15, <1>16, <1>17 DEF IInv, TypeInv

LEMMA GetRawMempoolKeeps ==
    ASSUME TypeInv, TypeInv', IInv, GetRawMempool
    PROVE  IInv'
<1>1. /\ UNCHANGED <<txinfo, pre_block_height, json_txs, vect_tx_, vect_mempool_tx_,
                     vect_insert, answered, crashes>>
      /\ chain' = chain /\ mempool' = mempool
      /\ pc = "getrawmempool"
      /\ \/ pc' = "readmempool" /\ json_pool' = mempool \ vect_mempool_tx_
         \/ pc' = "flush" /\ json_pool' = json_pool
  BY DEF GetRawMempool, Unseen, node, db, memory
<1>2. /\ vect_tx_ = << >> /\ vect_insert = NoInserts /\ json_pool = {}
  BY <1>1 DEF IInv, PhaseInv
<1>3. ChainGrows
  BY <1>1, MinedWhenUnchanged DEF ChainGrows
<1>4. NodeInv'
  BY <1>1, NodeUnchanged DEF IInv
<1>5. PhaseInv'
  BY <1>1, <1>2 DEF PhaseInv
<1>6. HeightInv'
  BY <1>1, <1>3 DEF IInv, HeightInv, ChainGrows
<1>7. SeenInv'
  BY <1>1 DEF IInv, SeenInv
<1>8. QueueInv'
  BY <1>1, <1>2 DEF QueueInv
<1>9. ReadInv'
  <2>1. ASSUME NEW t \in mempool, t \notin vect_mempool_tx_
        PROVE  txinfo[t] = NotRecorded
    <3>1. t \in Txs /\ txinfo[t] \in Heights
      BY DEF TypeInv, TypeOK
    <3>2. txinfo[t] # InMempool
      BY <1>1, <1>2, <2>1, <3>1 DEF IInv, SeenInv, NoInserts, NoStatement
    <3>3. ~ (txinfo[t] > 0)
      BY <3>1, MinedLeftMempool DEF IInv, HeightInv
    <3> QED
      BY <3>1, <3>2, <3>3, BoundAssumption DEF Heights
  <2>2. json_txs = << >>
    BY <1>1 DEF TypeInv, BoundInv
  <2> QED
    BY <1>1, <1>2, <2>1, <2>2 DEF ReadInv
<1>10. StatementInv'
  BY <1>1, <1>3 DEF IInv, StatementInv, ChainGrows
<1>11. AnswerInv'
  BY <1>1 DEF IInv, AnswerInv
<1> QED
  BY <1>4, <1>5, <1>6, <1>7, <1>8, <1>9, <1>10, <1>11 DEF IInv, TypeInv

LEMMA ReadMempoolTxKeeps ==
    ASSUME TypeInv, TypeInv', IInv, ReadMempoolTx
    PROVE  IInv'
<1>1. PICK t \in json_pool :
        /\ json_pool' = json_pool \ {t}
        /\ \/ /\ vect_tx_' = Append(vect_tx_, [tx |-> t, height |-> InMempool])
              /\ vect_mempool_tx_' = vect_mempool_tx_ \cup {t}
           \/ UNCHANGED <<vect_tx_, vect_mempool_tx_>>
  BY DEF ReadMempoolTx, AddTransaction, memory
<1>2. /\ UNCHANGED <<txinfo, pre_block_height, json_txs, vect_insert, answered, crashes>>
      /\ chain' = chain /\ mempool' = mempool
      /\ pc = "readmempool" /\ pc' = "readmempool"
  BY DEF ReadMempoolTx, AddTransaction, node, db, memory
<1> DEFINE e == [tx |-> t, height |-> InMempool]
<1>3. t \in Txs /\ vect_tx_ \in Seq(Entry) /\ e \in Entry /\ e.tx = t /\ e.height = InMempool
  BY DEF TypeInv, TypeOK, Entry
<1>4. \/ vect_tx_' = Append(vect_tx_, e) /\ vect_mempool_tx_' = vect_mempool_tx_ \cup {t}
      \/ vect_tx_' = vect_tx_ /\ vect_mempool_tx_' = vect_mempool_tx_
  BY <1>1
<1>5. /\ Len(vect_tx_) \in Nat
      /\ \/ vect_tx_' = vect_tx_ /\ vect_mempool_tx_' = vect_mempool_tx_
         \/ /\ Len(vect_tx_') = Len(vect_tx_) + 1
            /\ \A i \in 1 .. Len(vect_tx_) : vect_tx_'[i] = vect_tx_[i]
            /\ vect_tx_'[Len(vect_tx_) + 1] = e
            /\ vect_mempool_tx_' = vect_mempool_tx_ \cup {t}
  BY <1>3, <1>4, AppendProperties
<1>6. e = [tx |-> t, height |-> InMempool]
  OBVIOUS
<1> HIDE DEF e
<1>7. /\ json_txs = << >> /\ vect_insert = NoInserts
      /\ txinfo[t] = NotRecorded
      /\ \A j \in 1 .. Len(vect_tx_) : vect_tx_[j].tx # t
  BY <1>1, <1>2 DEF IInv, PhaseInv, ReadInv, TypeInv, BoundInv
<1>8. ChainGrows
  BY <1>2, MinedWhenUnchanged DEF ChainGrows
<1>9. NodeInv'
  BY <1>2, NodeUnchanged DEF IInv
<1>10. PhaseInv'
  BY <1>2, <1>7 DEF PhaseInv
<1>11. HeightInv'
  BY <1>2, <1>8 DEF IInv, HeightInv, ChainGrows
<1>12. SeenInv'
  <2>1. \A u \in Txs : txinfo[u] = InMempool => u \in vect_mempool_tx_'
    BY <1>2, <1>5, <1>7 DEF IInv, SeenInv, NoInserts, NoStatement
  <2>2. ASSUME NEW u \in vect_mempool_tx_
        PROVE  \/ txinfo[u] = InMempool
               \/ \E i \in 1 .. Len(vect_tx_') : vect_tx_'[i] = [tx |-> u, height |-> InMempool]
    <3>1. u \in Txs
      BY DEF TypeInv, TypeOK
    <3>2. vect_insert[u].op # "INSERT"
      BY <1>7, <3>1 DEF NoInserts, NoStatement
    <3>3. \/ txinfo[u] = InMempool
          \/ \E i \in 1 .. Len(vect_tx_) : vect_tx_[i] = [tx |-> u, height |-> InMempool]
      BY <3>2 DEF IInv, SeenInv
    <3> QED
      BY <1>5, <3>3
  <2>3. vect_mempool_tx_' # vect_mempool_tx_ =>
          \E i \in 1 .. Len(vect_tx_') : vect_tx_'[i] = [tx |-> t, height |-> InMempool]
    BY <1>5, <1>6
  <2> QED
    BY <1>2, <1>5, <2>1, <2>2, <2>3 DEF SeenInv
<1>13. QueueInv'
  <2>1. \A i, j \in 1 .. Len(vect_tx_') : vect_tx_'[i].tx = vect_tx_'[j].tx => i = j
    BY <1>3, <1>5, <1>7 DEF IInv, QueueInv
  <2>2. ASSUME NEW i \in 1 .. Len(vect_tx_'), vect_tx_'[i] = e, vect_tx_' # vect_tx_
        PROVE  /\ vect_insert[e.tx] = NoStatement /\ e.height = InMempool
               /\ txinfo[e.tx] = NotRecorded
               /\ e.tx \in vect_mempool_tx_'
    <3>1. vect_insert[t] = NoStatement
      BY <1>3, <1>7 DEF NoInserts
    <3>2. vect_mempool_tx_' = vect_mempool_tx_ \cup {t}
      BY <1>5, <2>2
    <3> QED
      BY <1>3, <1>7, <3>1, <3>2
  <2>3. ASSUME NEW i \in 1 .. Len(vect_tx_), vect_tx_'[i] = vect_tx_[i]
        PROVE  /\ vect_insert[vect_tx_[i].tx] = NoStatement
               /\ IF vect_tx_[i].height = InMempool
                  THEN /\ txinfo[vect_tx_[i].tx] = NotRecorded
                       /\ vect_tx_[i].tx \in vect_mempool_tx_
                  ELSE /\ MinedAt(vect_tx_[i].tx, vect_tx_[i].height)'
                       /\ vect_tx_[i].height <= pre_block_height
                       /\ \/ txinfo[vect_tx_[i].tx] = NotRecorded
                          \/ vect_tx_[i].tx \in vect_mempool_tx_
    BY <1>8, <2>3 DEF IInv, QueueInv, ChainGrows
  <2>4. vect_mempool_tx_ \subseteq vect_mempool_tx_'
    BY <1>5
  <2>5. \A i \in 1 .. Len(vect_tx_') :
           \/ vect_tx_'[i] = e /\ vect_tx_' # vect_tx_
           \/ i \in 1 .. Len(vect_tx_) /\ vect_tx_'[i] = vect_tx_[i]
    BY <1>5
  <2>6. ASSUME NEW i \in 1 .. Len(vect_tx_')
        PROVE  /\ vect_insert[vect_tx_'[i].tx] = NoStatement
               /\ IF vect_tx_'[i].height = InMempool
                  THEN /\ txinfo[vect_tx_'[i].tx] = NotRecorded
                       /\ vect_tx_'[i].tx \in vect_mempool_tx_'
                  ELSE /\ MinedAt(vect_tx_[i].tx, vect_tx_[i].height)'
                       /\ vect_tx_'[i].height <= pre_block_height
                       /\ \/ txinfo[vect_tx_'[i].tx] = NotRecorded
                          \/ vect_tx_'[i].tx \in vect_mempool_tx_'
    <3>1. CASE vect_tx_'[i] = e /\ vect_tx_' # vect_tx_
      BY <2>2, <3>1
    <3>2. CASE i \in 1 .. Len(vect_tx_) /\ vect_tx_'[i] = vect_tx_[i]
      BY <2>3, <2>4, <3>2
    <3> QED
      BY <2>5, <3>1, <3>2
  <2> QED
    BY <1>2, <2>1, <2>6 DEF QueueInv
<1>14. ReadInv'
  <2>1. \A u \in json_pool' : txinfo[u] = NotRecorded
                              /\ \A j \in 1 .. Len(vect_tx_) : vect_tx_[j].tx # u
    BY <1>1 DEF IInv, ReadInv
  <2> QED
    BY <1>1, <1>2, <1>3, <1>5, <1>7, <2>1 DEF ReadInv
<1>15. StatementInv'
  <2>1. \A u \in Txs : vect_insert[u].op = "none"
    BY <1>7 DEF NoInserts, NoStatement
  <2> QED
    BY <1>2, <2>1 DEF StatementInv
<1>16. AnswerInv'
  BY <1>2 DEF IInv, AnswerInv
<1> QED
  BY <1>9, <1>10, <1>11, <1>12, <1>13, <1>14, <1>15, <1>16 DEF IInv, TypeInv

-----------------------------------------------------------------------------
(* FlushToDB *)

\* The head of the queue and what is known about it and about the rest.
QueueHead(e) ==
    /\ e \in Entry /\ e = vect_tx_[1] /\ vect_tx_ # << >>
    /\ vect_insert[e.tx] = NoStatement
    /\ e.height = InMempool => txinfo[e.tx] = NotRecorded /\ e.tx \in vect_mempool_tx_
    /\ e.height # InMempool =>
         /\ MinedAt(e.tx, e.height) /\ e.height <= pre_block_height
         /\ txinfo[e.tx] = NotRecorded \/ e.tx \in vect_mempool_tx_

LEMMA HeadOfQueue ==
    ASSUME TypeInv, IInv, vect_tx_ # << >>
    PROVE  /\ QueueHead(Head(vect_tx_))
           /\ Len(vect_tx_) \in Nat /\ Len(Tail(vect_tx_)) = Len(vect_tx_) - 1
           /\ \A i \in 1 .. Len(Tail(vect_tx_)) :
                /\ i + 1 \in 1 .. Len(vect_tx_) /\ Tail(vect_tx_)[i] = vect_tx_[i + 1]
                /\ Tail(vect_tx_)[i].tx # Head(vect_tx_).tx
<1>1. vect_tx_ \in Seq(Entry)
  BY DEF TypeInv, TypeOK
<1>2. /\ Head(vect_tx_) \in Entry /\ Head(vect_tx_) = vect_tx_[1]
      /\ Len(vect_tx_) \in Nat /\ 1 \in 1 .. Len(vect_tx_)
      /\ Len(Tail(vect_tx_)) = Len(vect_tx_) - 1
      /\ \A i \in 1 .. Len(Tail(vect_tx_)) : Tail(vect_tx_)[i] = vect_tx_[i + 1]
  BY <1>1, HeadTailProperties
<1>3. QueueHead(Head(vect_tx_))
  BY <1>2 DEF IInv, QueueInv, QueueHead
<1>4. ASSUME NEW i \in 1 .. Len(Tail(vect_tx_))
      PROVE  /\ i + 1 \in 1 .. Len(vect_tx_) /\ Tail(vect_tx_)[i] = vect_tx_[i + 1]
             /\ Tail(vect_tx_)[i].tx # Head(vect_tx_).tx
  <2>1. i + 1 \in 1 .. Len(vect_tx_) /\ Tail(vect_tx_)[i] = vect_tx_[i + 1] /\ i + 1 # 1
    BY <1>2
  <2> QED
    BY <1>2, <2>1 DEF IInv, QueueInv
<1> QED
  BY <1>2, <1>3, <1>4

\* Taking the head off the queue for a statement s, with what that does to the
\* list of unconfirmed transactions, keeps what is said of the rest.
LEMMA QueueAfterFlush ==
    ASSUME TypeInv, IInv, vect_tx_ # << >>, vect_tx_' = Tail(vect_tx_),
           pc = "flush", pc' \in {"flush", "reply", "rows"},
           NEW s, vect_insert' = [vect_insert EXCEPT ![Head(vect_tx_).tx] = s],
           vect_mempool_tx_' \in {vect_mempool_tx_, vect_mempool_tx_ \ {Head(vect_tx_).tx}},
           UNCHANGED <<chain, txinfo, pre_block_height, json_txs, json_pool>>
    PROVE  QueueInv' /\ ReadInv'
<1> DEFINE e == Head(vect_tx_)
<1>1. /\ Len(vect_tx_) \in Nat /\ Len(vect_tx_') = Len(vect_tx_) - 1
      /\ \A i \in 1 .. Len(vect_tx_') :
           /\ i + 1 \in 1 .. Len(vect_tx_) /\ vect_tx_'[i] = vect_tx_[i + 1]
           /\ vect_tx_'[i].tx # e.tx
  BY HeadOfQueue
<1>2. \A t : t # e.tx => /\ vect_insert'[t] = vect_insert[t]
                        /\ (t \in vect_mempool_tx_ => t \in vect_mempool_tx_')
  <2>1. vect_insert \in [Txs -> Statement]
    BY DEF TypeInv, TypeOK
  <2> QED
    BY <2>1
<1>3. \A i, j \in 1 .. Len(vect_tx_') : vect_tx_'[i].tx = vect_tx_'[j].tx => i = j
  BY <1>1 DEF IInv, QueueInv
<1>4. ASSUME NEW i \in 1 .. Len(vect_tx_')
      PROVE  /\ vect_insert'[vect_tx_'[i].tx] = NoStatement
             /\ IF vect_tx_'[i].height = InMempool
                THEN /\ txinfo[vect_tx_'[i].tx] = NotRecorded
                     /\ vect_tx_'[i].tx \in vect_mempool_tx_'
                ELSE /\ MinedAt(vect_tx_[i].tx, vect_tx_[i].height)'
                     /\ vect_tx_'[i].height <= pre_block_height
                     /\ \/ txinfo[vect_tx_'[i].tx] = NotRecorded
                        \/ vect_tx_'[i].tx \in vect_mempool_tx_'
  <2>1. PICK j \in 1 .. Len(vect_tx_) : vect_tx_'[i] = vect_tx_[j] /\ vect_tx_[j].tx # e.tx
    BY <1>1
  <2>2. /\ vect_insert[vect_tx_[j].tx] = NoStatement
        /\ IF vect_tx_[j].height = InMempool
           THEN /\ txinfo[vect_tx_[j].tx] = NotRecorded
                /\ vect_tx_[j].tx \in vect_mempool_tx_
           ELSE /\ MinedAt(vect_tx_[j].tx, vect_tx_[j].height)
                /\ vect_tx_[j].height <= pre_block_height
                /\ \/ txinfo[vect_tx_[j].tx] = NotRecorded
                   \/ vect_tx_[j].tx \in vect_mempool_tx_
    BY DEF IInv, QueueInv
  <2>3. MinedAt(vect_tx_[j].tx, vect_tx_[j].height) =>
          MinedAt(vect_tx_[i].tx, vect_tx_[i].height)'
    BY <2>1 DEF MinedAt, RangeOf
  <2>4. /\ vect_insert'[vect_tx_[j].tx] = vect_insert[vect_tx_[j].tx]
        /\ vect_tx_[j].tx \in vect_mempool_tx_ => vect_tx_[j].tx \in vect_mempool_tx_'
    BY <1>2, <2>1
  <2> HIDE DEF e
  <2> QED
    BY <2>1, <2>2, <2>3, <2>4
<1>5. QueueInv'
  BY <1>3, <1>4 DEF QueueInv
<1>6. json_txs = << >> /\ json_pool = {}
  BY DEF TypeInv, BoundInv, IInv, PhaseInv
<1> QED
  BY <1>5, <1>6 DEF ReadInv

LEMMA FlushUpdateKeeps ==
    ASSUME TypeInv, TypeInv', IInv, FlushUpdate
    PROVE  IInv'
<1> DEFINE e == Head(vect_tx_)
           s == [op |-> "UPDATE", height |-> e.height]
<1>1. /\ UNCHANGED <<txinfo, pre_block_height, json_txs, json_pool, answered, crashes>>
      /\ chain' = chain /\ mempool' = mempool /\ pc = "flush" /\ pc' = "flush"
      /\ vect_tx_ # << >> /\ vect_tx_' = Tail(vect_tx_)
      /\ e.height # InMempool /\ e.tx \in vect_mempool_tx_
      /\ vect_mempool_tx_' = vect_mempool_tx_ \ {e.tx}
      /\ vect_insert' = [vect_insert EXCEPT ![e.tx] = s]
  BY DEF FlushUpdate, IsUpdate, node, db, scan
<1>2. QueueInv' /\ ReadInv'
  BY <1>1, QueueAfterFlush
<1>3. QueueHead(e)
  BY <1>1, HeadOfQueue
<1>4. /\ Len(vect_tx_) \in Nat /\ Len(vect_tx_') = Len(vect_tx_) - 1
      /\ \A i \in 1 .. Len(vect_tx_') : vect_tx_'[i] = vect_tx_[i + 1]
  BY <1>1, HeadOfQueue
<1>5. vect_insert \in [Txs -> Statement] /\ e.tx \in Txs /\ s.op = "UPDATE" /\ s.height = e.height
  BY <1>3 DEF TypeInv, TypeOK, QueueHead, Entry
<1> HIDE DEF e, s
<1>6. vect_insert'[e.tx] = s /\ \A t \in Txs : t # e.tx => vect_insert'[t] = vect_insert[t]
  BY <1>1, <1>5
<1>7. ChainGrows
  BY <1>1, MinedWhenUnchanged DEF ChainGrows
<1>8. NodeInv'
  BY <1>1, NodeUnchanged DEF IInv
<1>9. PhaseInv'
  BY <1>1 DEF IInv, PhaseInv
<1>10. HeightInv'
  BY <1>1, <1>7 DEF IInv, HeightInv, ChainGrows
<1>11. SeenInv'
  <2>1. ASSUME NEW t \in Txs, txinfo[t] = InMempool
        PROVE  t \in vect_mempool_tx_' \/ vect_insert'[t].op = "UPDATE"
    BY <1>1, <1>5, <1>6, <2>1 DEF IInv, SeenInv
  <2>2. ASSUME NEW t \in vect_mempool_tx_'
        PROVE  \/ txinfo[t] = InMempool
               \/ /\ txinfo[t] = NotRecorded
                  /\ vect_insert'[t] = [op |-> "INSERT", height |-> InMempool]
               \/ \E i \in 1 .. Len(vect_tx_') : vect_tx_'[i] = [tx |-> t, height |-> InMempool]
    <3>1. t \in Txs /\ t \in vect_mempool_tx_ /\ t # e.tx
      BY <1>1 DEF TypeInv, TypeOK
    <3>2. \/ txinfo[t] = InMempool
          \/ /\ txinfo[t] = NotRecorded
             /\ vect_insert[t] = [op |-> "INSERT", height |-> InMempool]
          \/ \E i \in 1 .. Len(vect_tx_) : vect_tx_[i] = [tx |-> t, height |-> InMempool]
      BY <3>1 DEF IInv, SeenInv
    <3>3. ASSUME NEW i \in 1 .. Len(vect_tx_), vect_tx_[i] = [tx |-> t, height |-> InMempool]
          PROVE  i - 1 \in 1 .. Len(vect_tx_') /\ vect_tx_'[i - 1] = vect_tx_[i]
      <4>1. i # 1
        BY <1>3, <3>1, <3>3 DEF QueueHead
      <4> QED
        BY <1>4, <4>1
    <3> QED
      BY <1>6, <3>1, <3>2, <3>3
  <2> QED
    BY <1>1, <2>1, <2>2 DEF SeenInv
<1>12. StatementInv'
  <2> SUFFICES ASSUME NEW t \in Txs
               PROVE  /\ vect_insert'[t].op = "INSERT" /\ vect_insert'[t].height = InMempool =>
                           t \in vect_mempool_tx_'
                      /\ vect_insert'[t].op # "none" /\ vect_insert'[t].height # InMempool =>
                           /\ MinedAt(t, vect_insert[t].height)'
                           /\ vect_insert'[t].height <= pre_block_height
                           /\ t \notin vect_mempool_tx_'
                      /\ vect_insert'[t].op = "UPDATE" => vect_insert'[t].height # InMempool
                      /\ vect_insert'[t].op = "INSERT" => txinfo[t] = NotRecorded
    BY <1>1 DEF StatementInv
  <2>1. CASE t = e.tx
    <3>1. MinedAt(t, vect_insert[t].height)'
      BY <1>1, <1>3, <1>5, <1>6, <2>1 DEF QueueHead, MinedAt, RangeOf
    <3> QED
      BY <1>1, <1>3, <1>5, <1>6, <2>1, <3>1 DEF QueueHead
  <2>2. CASE t # e.tx
    <3>1. MinedAt(t, vect_insert[t].height) => MinedAt(t, vect_insert[t].height)'
      BY <1>1, <1>6, <2>2 DEF MinedAt, RangeOf
    <3> QED
      BY <1>1, <1>6, <2>2, <3>1 DEF IInv, StatementInv
  <2> QED
    BY <2>1, <2>2
<1>13. AnswerInv'
  <2>1. vect_insert[e.tx].op # "INSERT"
    BY <1>3 DEF QueueHead, NoStatement
  <2> QED
    BY <1>1, <1>6, <2>1 DEF IInv, AnswerInv
<1> QED
  BY <1>2, <1>8, <1>9, <1>10, <1>11, <1>12, <1>13 DEF IInv, TypeInv

\* A response counts at most once, for the transaction it answers.
LEMMA ResponseCounts ==
    ASSUME TypeInv, NEW t \in Txs, ResponseAction(t)
    PROVE  /\ pc' \in {pc, "reply", "rows"}
           /\ answered'[t] \in {answered[t], answered[t] + 1}
           /\ \A u \in Txs : u # t => answered'[u] = answered[u]
<1>1. answered \in [Txs -> Nat]
  BY DEF TypeInv, TypeOK
<1>2. pc' \in {pc, "reply", "rows"}
  BY ResponseType DEF TypeInv
<1>3. answered' = answered \/ answered' = [answered EXCEPT ![t] = @ + 1]
  BY DEF ResponseAction, ResponseActionT2, ResponseActionC1, ResponseActionA1,
         ResponseActionT4, Respond, Ignore
<1> QED
  BY <1>1, <1>2, <1>3

\* What FlushInsert inserts is new to txinfo.
LEMMA InsertsNew ==
    ASSUME TypeInv, IInv, FlushInsert
    PROVE  /\ txinfo[Head(vect_tx_).tx] = NotRecorded
           /\ Head(vect_tx_).tx \in Txs
           /\ answered'[Head(vect_tx_).tx] \in
                {answered[Head(vect_tx_).tx], answered[Head(vect_tx_).tx] + 1}
           /\ \A u \in Txs : u # Head(vect_tx_).tx => answered'[u] = answered[u]
<1>1. vect_tx_ # << >> /\ ~ IsUpdate(Head(vect_tx_)) /\ ResponseAction(Head(vect_tx_).tx)
  BY DEF FlushInsert
<1>2. QueueHead(Head(vect_tx_))
  BY <1>1, HeadOfQueue
<1>3. Head(vect_tx_).tx \in Txs
  BY <1>2 DEF QueueHead, Entry
<1>4. txinfo[Head(vect_tx_).tx] = NotRecorded
  BY <1>1, <1>2 DEF QueueHead, IsUpdate
<1> QED
  BY <1>1, <1>3, <1>4, ResponseCounts

LEMMA FlushInsertKeeps ==
    ASSUME TypeInv, TypeInv', IInv, FlushInsert
    PROVE  IInv'
<1> DEFINE e == Head(vect_tx_)
           s == [op |-> "INSERT", height |-> e.height]
<1>1. /\ UNCHANGED <<txinfo, pre_block_height, json_txs, json_pool, vect_mempool_tx_, crashes>>
      /\ chain' = chain /\ mempool' = mempool /\ pc = "flush"
      /\ vect_tx_ # << >> /\ vect_tx_' = Tail(vect_tx_)
      /\ e.height = InMempool \/ e.tx \notin vect_mempool_tx_
      /\ vect_insert' = [vect_insert EXCEPT ![e.tx] = s]
  BY DEF FlushInsert, IsUpdate, node, db, scan
<1>2. /\ txinfo[e.tx] = NotRecorded /\ e.tx \in Txs
      /\ answered'[e.tx] \in {answered[e.tx], answered[e.tx] + 1}
      /\ \A u \in Txs : u # e.tx => answered'[u] = answered[u]
  BY InsertsNew
<1>3. pc' \in {"flush", "reply", "rows"}
  BY <1>1, <1>2, ResponseCounts DEF FlushInsert
<1>4. QueueInv' /\ ReadInv'
  BY <1>1, <1>3, QueueAfterFlush
<1>5. QueueHead(e)
  BY <1>1, HeadOfQueue
<1>6. /\ Len(vect_tx_) \in Nat /\ Len(vect_tx_') = Len(vect_tx_) - 1
      /\ \A i \in 1 .. Len(vect_tx_') : vect_tx_'[i] = vect_tx_[i + 1]
  BY <1>1, HeadOfQueue
<1>7. vect_insert \in [Txs -> Statement] /\ s.op = "INSERT" /\ s.height = e.height
  BY DEF TypeInv, TypeOK
<1>8. e.height = InMempool => s = [op |-> "INSERT", height |-> InMempool]
  OBVIOUS
<1> HIDE DEF e, s
<1>9. vect_insert'[e.tx] = s /\ \A t \in Txs : t # e.tx => vect_insert'[t] = vect_insert[t]
  BY <1>1, <1>2, <1>7
<1>10. ChainGrows
  BY <1>1, MinedWhenUnchanged DEF ChainGrows
<1>11. NodeInv'
  BY <1>1, NodeUnchanged DEF IInv
<1>12. PhaseInv'
  BY <1>1, <1>3 DEF IInv, PhaseInv
<1>13. HeightInv'
  BY <1>1, <1>3, <1>10 DEF IInv, HeightInv, ChainGrows
<1>14. SeenInv'
  <2>1. ASSUME NEW t \in Txs, txinfo[t] = InMempool
        PROVE  t \in vect_mempool_tx_ \/ vect_insert'[t].op = "UPDATE"
    BY <1>1, <1>2, <1>9, <2>1 DEF IInv, SeenInv
  <2>2. ASSUME NEW t \in vect_mempool_tx_
        PROVE  \/ txinfo[t] = InMempool
               \/ /\ txinfo[t] = NotRecorded
                  /\ vect_insert'[t] = [op |-> "INSERT", height |-> InMempool]
               \/ \E i \in 1 .. Len(vect_tx_') : vect_tx_'[i] = [tx |-> t, height |-> InMempool]
    <3>1. t \in Txs
      BY DEF TypeInv, TypeOK
    <3>2. \/ txinfo[t] = InMempool
          \/ /\ txinfo[t] = NotRecorded
             /\ vect_insert[t] = [op |-> "INSERT", height |-> InMempool]
          \/ \E i \in 1 .. Len(vect_tx_) : vect_tx_[i] = [tx |-> t, height |-> InMempool]
      BY DEF IInv, SeenInv
    <3>3. CASE t = e.tx
      BY <1>1, <1>2, <1>8, <1>9, <3>3
    <3>4. CASE t # e.tx
      <4>1. ASSUME NEW i \in 1 .. Len(vect_tx_), vect_tx_[i] = [tx |-> t, height |-> InMempool]
            PROVE  i - 1 \in 1 .. Len(vect_tx_') /\ vect_tx_'[i - 1] = vect_tx_[i]
        <5>1. i # 1
          BY <1>5, <3>4, <4>1 DEF QueueHead
        <5> QED
          BY <1>6, <5>1
      <4> QED
        BY <1>9, <3>1, <3>2, <3>4, <4>1
    <3> QED
      BY <3>3, <3>4
  <2> QED
    BY <1>1, <2>1, <2>2 DEF SeenInv
<1>15. StatementInv'
  <2> SUFFICES ASSUME NEW t \in Txs
               PROVE  /\ vect_insert'[t].op = "INSERT" /\ vect_insert'[t].height = InMempool =>
                           t \in vect_mempool_tx_'
                      /\ vect_insert'[t].op # "none" /\ vect_insert'[t].height # InMempool =>
                           /\ MinedAt(t, vect_insert[t].height)'
                           /\ vect_insert'[t].height <= pre_block_height
                           /\ t \notin vect_mempool_tx_'
                      /\ vect_insert'[t].op = "UPDATE" => vect_insert'[t].height # InMempool
                      /\ vect_insert'[t].op = "INSERT" => txinfo[t] = NotRecorded
    BY <1>1 DEF StatementInv
  <2>1. CASE t = e.tx
    <3>1. e.height # InMempool => MinedAt(t, vect_insert[t].height)'
      BY <1>1, <1>5, <1>7, <1>9, <2>1 DEF QueueHead, MinedAt, RangeOf
    <3> QED
      BY <1>1, <1>2, <1>5, <1>7, <1>9, <2>1, <3>1 DEF QueueHead
  <2>2. CASE t # e.tx
    <3>1. MinedAt(t, vect_insert[t].height) => MinedAt(t, vect_insert[t].height)'
      BY <1>1, <1>9, <2>2 DEF MinedAt, RangeOf
    <3> QED
      BY <1>1, <1>9, <2>2, <3>1 DEF IInv, StatementInv
  <2> QED
    BY <2>1, <2>2
<1>16. AnswerInv'
  <2> SUFFICES ASSUME NEW t \in Txs
               PROVE  \/ answered'[t] <= crashes
                      \/ /\ answered'[t] = crashes + 1 /\ pc' # "down"
                         /\ txinfo[t] # NotRecorded \/ vect_insert'[t].op = "INSERT"
    BY <1>1 DEF AnswerInv
  <2>1. CASE t = e.tx
    <3>1. vect_insert[t].op = "none"
      BY <1>5, <2>1 DEF QueueHead, NoStatement
    <3>2. answered[t] <= crashes
      BY <1>2, <2>1, <3>1 DEF IInv, AnswerInv
    <3>3. answered[t] \in Nat /\ crashes \in Nat
      BY DEF TypeInv, TypeOK
    <3>4. answered'[t] \in {answered[t], answered[t] + 1}
      BY <1>2, <2>1
    <3>5. answered'[t] <= crashes \/ answered'[t] = crashes + 1
      BY <3>2, <3>3, <3>4
    <3> QED
      BY <1>3, <1>7, <1>9, <2>1, <3>5
  <2>2. CASE t # e.tx
    BY <1>2, <1>3, <1>9, <2>2 DEF IInv, AnswerInv
  <2> QED
    BY <2>1, <2>2
<1> QED
  BY <1>4, <1>11, <1>12, <1>13, <1>14, <1>15, <1>16 DEF IInv, TypeInv

LEMMA CommitKeeps ==
    ASSUME TypeInv, TypeInv', IInv, Commit
    PROVE  IInv'
<1>1. /\ UNCHANGED <<pre_block_height, json_txs, json_pool, vect_tx_, vect_mempool_tx_,
                     answered, crashes>>
      /\ chain' = chain /\ mempool' = mempool /\ pc = "flush"
      /\ pc' \in {"getrawmempool", "utxo"} /\ vect_tx_ = << >>
      /\ vect_insert' = NoInserts
  BY DEF Commit, node
<1>2. ASSUME NEW t \in Txs
      PROVE  txinfo'[t] = Executed(vect_insert[t], txinfo[t])
  BY <1>2 DEF Commit
<1>3. /\ json_txs = << >> /\ json_pool = {}
  BY <1>1 DEF TypeInv, BoundInv, IInv, PhaseInv
<1>4. \A t \in Txs : vect_insert'[t].op = "none"
  BY <1>1 DEF NoInserts, NoStatement
<1>5. \A t \in Txs : txinfo[t] \in Heights /\ vect_insert[t] \in Statement
  BY DEF TypeInv, TypeOK
<1>6. ChainGrows
  BY <1>1, MinedWhenUnchanged DEF ChainGrows
<1>7. NodeInv'
  BY <1>1, NodeUnchanged DEF IInv
<1>8. PhaseInv'
  BY <1>1, <1>3 DEF PhaseInv
<1>9. HeightInv'
  <2> SUFFICES ASSUME NEW t \in Txs, txinfo'[t] > 0
               PROVE  MinedAt(t, txinfo[t])' /\ txinfo'[t] <= pre_block_height
    BY <1>1 DEF HeightInv
  <2>1. \/ txinfo'[t] = txinfo[t]
        \/ vect_insert[t].op # "none" /\ txinfo'[t] = vect_insert[t].height
    BY <1>2 DEF Executed
  <2>2. CASE txinfo'[t] = txinfo[t]
    <3>1. MinedAt(t, txinfo[t]) /\ txinfo[t] <= pre_block_height
      BY <1>1, <2>2 DEF IInv, HeightInv
    <3> QED
      BY <1>1, <2>2, <3>1 DEF MinedAt, RangeOf
  <2>3. CASE vect_insert[t].op # "none" /\ txinfo'[t] = vect_insert[t].height
    <3>1. MinedAt(t, vect_insert[t].height) /\ vect_insert[t].height <= pre_block_height
      BY <2>3 DEF IInv, StatementInv
    <3> QED
      BY <1>1, <2>3, <3>1 DEF MinedAt, RangeOf
  <2> QED
    BY <2>1, <2>2, <2>3
<1>10. SeenInv'
  <2>1. ASSUME NEW t \in Txs, txinfo'[t] = InMempool
        PROVE  t \in vect_mempool_tx_
    BY <1>1, <1>2, <1>5, <2>1 DEF Executed, Statement, IInv, SeenInv, StatementInv
  <2>2. ASSUME NEW t \in vect_mempool_tx_
        PROVE  txinfo'[t] = InMempool
    <3>1. t \in Txs
      BY DEF TypeInv, TypeOK
    <3>2. \/ txinfo[t] = InMempool
          \/ /\ txinfo[t] = NotRecorded
             /\ vect_insert[t] = [op |-> "INSERT", height |-> InMempool]
      BY <1>1, <3>1 DEF IInv, SeenInv
    <3>3. vect_insert[t].op # "UPDATE"
      BY <2>2, <3>1 DEF IInv, StatementInv
    <3> QED
      BY <1>2, <3>1, <3>2, <3>3 DEF Executed
  <2> QED
    BY <1>1, <2>1, <2>2 DEF SeenInv
<1>11. QueueInv'
  BY <1>1 DEF QueueInv
<1>12. ReadInv'
  BY <1>1, <1>3 DEF ReadInv
<1>13. StatementInv'
  BY <1>1, <1>4 DEF StatementInv
<1>14. AnswerInv'
  <2> SUFFICES ASSUME NEW t \in Txs, txinfo[t] # NotRecorded \/ vect_insert[t].op = "INSERT"
               PROVE  txinfo'[t] # NotRecorded
    BY <1>1 DEF IInv, AnswerInv
  <2>1. vect_insert[t].height # NotRecorded
    BY <1>5, BoundAssumption DEF Statement
  <2>2. vect_insert[t].op = "INSERT" => txinfo[t] = NotRecorded
    BY DEF IInv, StatementInv
  <2> QED
    BY <1>2, <2>1, <2>2 DEF Executed
<1> QED
  BY <1>7, <1>8, <1>9, <1>10, <1>11, <1>12, <1>13, <1>14 DEF IInv, TypeInv

-----------------------------------------------------------------------------
(* Deaths and starts *)

LEMMA DieKeeps ==
    ASSUME TypeInv, TypeInv', IInv, Die, UNCHANGED <<node, db, answered>>
    PROVE  IInv'
<1>1. /\ pc' = "down" /\ json_txs' = << >> /\ json_pool' = {} /\ vect_tx_' = << >>
      /\ vect_mempool_tx_' = {} /\ vect_insert' = NoInserts /\ crashes' = crashes + 1
      /\ chain' = chain /\ mempool' = mempool /\ txinfo' = txinfo /\ answered' = answered
  BY DEF Die, node, db
<1>2. \A t \in Txs : vect_insert'[t].op = "none"
  BY <1>1 DEF NoInserts, NoStatement
<1>3. ChainGrows
  BY <1>1, MinedWhenUnchanged DEF ChainGrows
<1>4. NodeInv'
  BY <1>1, NodeUnchanged DEF IInv
<1>5. PhaseInv'
  BY <1>1 DEF PhaseInv
<1>6. HeightInv'
  BY <1>1, <1>3 DEF IInv, HeightInv, ChainGrows
<1>7. SeenInv' /\ QueueInv' /\ ReadInv'
  BY <1>1 DEF SeenInv, QueueInv, ReadInv
<1>8. StatementInv'
  BY <1>2 DEF StatementInv
<1>9. AnswerInv'
  <2>1. \A t \in Txs : answered[t] \in Nat /\ crashes \in Nat
    BY DEF TypeInv, TypeOK
  <2> QED
    BY <1>1, <2>1 DEF IInv, AnswerInv
<1> QED
  BY <1>4, <1>5, <1>6, <1>7, <1>8, <1>9 DEF IInv, TypeInv

LEMMA StartKeeps ==
    ASSUME TypeInv, TypeInv', IInv, Start
    PROVE  IInv'
<1>1. /\ UNCHANGED <<txinfo, json_txs, json_pool, vect_tx_, vect_insert, answered, crashes>>
      /\ chain' = chain /\ mempool' = mempool
      /\ pc = "down" /\ pc' = "getblockcount"
      /\ vect_mempool_tx_' = Unconfirmed
  BY DEF Start, node, db
<1>2. PICK h \in Heights : /\ \A t \in Txs : txinfo[t] <= h
                           /\ pre_block_height' = StartHeight(h)
  BY DEF Start, TypeInv, TypeOK, Heights
<1>3. /\ json_txs = << >> /\ json_pool = {} /\ vect_tx_ = << >> /\ vect_insert = NoInserts
  BY <1>1 DEF TypeInv, BoundInv, IInv, PhaseInv
<1>4. \A t \in Txs : vect_insert[t].op = "none"
  BY <1>3 DEF NoInserts, NoStatement
<1>5. ChainGrows
  BY <1>1, MinedWhenUnchanged DEF ChainGrows
<1>6. NodeInv'
  BY <1>1, NodeUnchanged DEF IInv
<1>7. PhaseInv'
  BY <1>1, <1>3 DEF PhaseInv
<1>8. HeightInv'
  <2> SUFFICES ASSUME NEW t \in Txs, txinfo[t] > 0
               PROVE  MinedAt(t, txinfo[t])' /\ txinfo[t] <= pre_block_height'
    BY <1>1 DEF HeightInv
  <2>1. MinedAt(t, txinfo[t]) /\ txinfo[t] \in Heights
    BY DEF IInv, HeightInv, TypeInv, TypeOK
  <2>2. MinedAt(t, txinfo[t])'
    BY <1>1, <2>1 DEF MinedAt, RangeOf
  <2>3. txinfo[t] <= h /\ h > 0
    BY <1>2, <2>1, BoundAssumption DEF Heights
  <2> QED
    BY <1>2, <2>2, <2>3, BoundAssumption DEF StartHeight, Heights
<1>9. SeenInv'
  BY <1>1 DEF SeenInv, Unconfirmed
<1>10. QueueInv' /\ ReadInv'
  BY <1>1, <1>3 DEF QueueInv, ReadInv
<1>11. StatementInv'
  BY <1>1, <1>4 DEF StatementInv
<1>12. AnswerInv'
  BY <1>1 DEF IInv, AnswerInv
<1> QED
  BY <1>6, <1>7, <1>8, <1>9, <1>10, <1>11, <1>12 DEF IInv, TypeInv

-----------------------------------------------------------------------------
(* The theorems *)

LEMMA InitInv == Init => IInv
<1> SUFFICES ASSUME Init PROVE IInv
  OBVIOUS
<1>1. Len(<< >>) = 0
  BY EmptySeq
<1>2. \A t \in Txs : vect_insert[t].op = "none" /\ txinfo[t] = NotRecorded /\ answered[t] = 0
  BY DEF Init, NoInserts, NoStatement
<1> QED
  BY <1>1, <1>2 DEF Init, IInv, BoundInv, NodeInv, PhaseInv, HeightInv, SeenInv, QueueInv,
     ReadInv, StatementInv, AnswerInv

LEMMA StepInv == TypeInv /\ IInv /\ [Next]_vars => IInv'
<1> SUFFICES ASSUME TypeInv, IInv, [Next]_vars PROVE IInv'
  OBVIOUS
<1>1. TypeInv'
  BY TypeStep
<1>2. CASE Submit
  BY <1>1, <1>2, SubmitKeeps
<1>3. CASE Mine
  BY <1>1, <1>3, MineKeeps
<1>4. CASE Reply
  BY <1>1, <1>4, ReplyKeeps
<1>5. CASE \/ GetBlockCount \/ BlocksDone \/ MempoolDone \/ InsertRow \/ FlushUtxo
          \/ UNCHANGED vars
  BY <1>1, <1>5, OtherPhasesKeep
<1>6. CASE GetBlock
  BY <1>1, <1>6, GetBlockKeeps
<1>7. CASE ReadBlockTx
  BY <1>1, <1>7, ReadBlockTxKeeps
<1>8. CASE GetRawMempool
  BY <1>1, <1>8, GetRawMempoolKeeps
<1>9. CASE ReadMempoolTx
  BY <1>1, <1>9, ReadMempoolTxKeeps
<1>10. CASE FlushUpdate
  BY <1>1, <1>10, FlushUpdateKeeps
<1>11. CASE FlushInsert
  BY <1>1, <1>11, FlushInsertKeeps
<1>12. CASE Commit
  BY <1>1, <1>12, CommitKeeps
<1>13. CASE FlushThrows \/ Crash
  BY <1>1, <1>13, DieKeeps DEF FlushThrows, Crash
<1>14. CASE Start
  BY <1>1, <1>14, StartKeeps
<1> QED
  BY <1>2, <1>3, <1>4, <1>5, <1>6, <1>7, <1>8, <1>9, <1>10, <1>11, <1>12, <1>13, <1>14
     DEF Next, Loop, Environment

\* The memory of the process, txinfo and the chain stay tied together as IInv
\* says, whatever fails and whenever the process dies.
THEOREM InvCorrect == Spec => [](TypeInv /\ IInv)
BY TypeInit, TypeStep, InitInv, StepInv, PTL DEF Spec

\* One run of the process begins at most one response to a request.
THEOREM AnsweredOnce == Spec => []AnsweredOncePerRun
<1>1. TypeInv /\ IInv => AnsweredOncePerRun
  <2> SUFFICES ASSUME TypeInv, IInv, NEW t \in Txs PROVE answered[t] <= crashes + 1
    BY DEF AnsweredOncePerRun
  <2>1. answered[t] \in Nat /\ crashes \in Nat
    BY DEF TypeInv, TypeOK
  <2> QED
    BY <2>1 DEF IInv, AnswerInv
<1> QED
  BY <1>1, InvCorrect, PTL

\* At the head of the loop the list of unconfirmed transactions in memory is what
\* txinfo records with height -1.
THEOREM SeenIsTxinfo == Spec => []SeenMirrorsTxinfo
<1>1. TypeInv /\ IInv => SeenMirrorsTxinfo
  <2> SUFFICES ASSUME TypeInv, IInv, pc = "getblockcount", NEW t \in Txs
               PROVE  t \in vect_mempool_tx_ <=> txinfo[t] = InMempool
    BY DEF SeenMirrorsTxinfo
  <2>1. vect_tx_ = << >> /\ vect_insert = NoInserts
    BY DEF IInv, PhaseInv
  <2>2. vect_insert[t].op = "none"
    BY <2>1 DEF NoInserts, NoStatement
  <2> QED
    BY <2>1, <2>2 DEF IInv, SeenInv
<1> QED
  BY <1>1, InvCorrect, PTL

\* A request that has a row in txinfo is never answered again.
THEOREM RecordedIsAnswered == Spec => NeverAnsweredAgain
<1> DEFINE Kept == \A t \in Txs : txinfo[t] # NotRecorded => answered'[t] = answered[t]
<1>1. TypeInv /\ IInv /\ [Next]_vars => [Kept]_vars
  <2> SUFFICES ASSUME TypeInv, IInv, Next PROVE Kept
    OBVIOUS
  <2>1. CASE FlushInsert
    BY <2>1, InsertsNew
  <2>2. CASE ~ FlushInsert
    <3>1. answered' = answered
      BY <2>2 DEF Next, Loop, Environment, GetBlockCount, GetBlock, ReadBlockTx, BlocksDone,
         GetRawMempool, ReadMempoolTx, MempoolDone, FlushUpdate, FlushThrows, Reply, InsertRow,
         Commit, FlushUtxo, Start, Crash, Submit, Mine
    <3> QED
      BY <3>1
  <2> QED
    BY <2>1, <2>2
<1> QED
  BY <1>1, InvCorrect, PTL DEF Spec, NeverAnsweredAgain
=============================================================================
