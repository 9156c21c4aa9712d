----------------------------- MODULE ScanBlock -----------------------------
(***************************************************************************)
(* The scanblock process (scanblock.cpp, parsetx.cpp,                      *)
(* internal/handlerscan.cpp) between a BCH node and the MySQL database.    *)
(*                                                                         *)
(* One endless loop reads the blocks above pre_block_height, flushes what  *)
(* it found, reads the mempool, flushes again, and then writes the outputs *)
(* of the blocks to the utxo table.  Flushing a transaction that carries   *)
(* an OP_RETURN for the first time also answers it: a request to a         *)
(* contract of this node's wallet gets a reply transaction and wallet_info *)
(* rows.  The replies and the wallet_info rows are out at once; the txinfo *)
(* rows of a flush are committed together at its end.                      *)
(*                                                                         *)
(* Variables are in three groups.  The node and the database survive when  *)
(* the process dies, the process's own memory does not.                    *)
(*                                                                         *)
(* Left out: the coinbase transaction of each block (it pays no party),    *)
(* a second OP_RETURN output in one transaction, the rows of txinfo_vin    *)
(* and txinfo_vout (committed with the txinfo row, never read back) and    *)
(* reorganisations of the chain.                                           *)
(***************************************************************************)
EXTENDS WalletInfo, TxRoles, CoinSelection, FiniteSets

CONSTANTS
    Txs,            \* transactions: requests of clients and replies to them
    Vin, Vout, Op,  \* inputs, address outputs and OP_RETURN of each of them
    Replies,        \* the replies the contract side may create for a request
    Addresses,      \* every address of an input or an output
    MyAddresses,    \* those for which the node answers ismine
    Assets,
    NoTxid,         \* the empty string
    RpcMayFail,     \* TRUE: any single RPC call may fail
    TopoBlocks,     \* TRUE: a block lists a parent before its child
    MaxHeight,      \* bound on the length of the chain
    MaxBlock,       \* bound on the transactions of a block
    MaxCrashes      \* bound on the deaths of the process

\* The op codes that ResponseAction tells apart.  "other" is every OP_RETURN it
\* ignores (C2, A2, a foreign protocol), "none" a transaction without OP_RETURN.
OpCodes == {"C1", "A1", "T2", "T4", "other", "none"}

ASSUME TxAssumption ==
    /\ \A t \in Txs :
         /\ Vin[t] \in Seq([tx : Txs \cup {NoTxid}, n : Nat, addr : Addresses])
         /\ Vin[t] # << >>
         /\ Vout[t] \in Seq([addr : Addresses, value : Nat])
         /\ Op[t] \in [code : OpCodes, asset : Assets, qty1 : Qty, qty2 : Qty,
                       fee_address : Addresses \cup {NoAddress}]
         /\ Replies[t] \subseteq Txs
    /\ IsFiniteSet(Txs)
    /\ NoTxid \notin Txs

ASSUME AddressAssumption == MyAddresses \subseteq Addresses /\ NoAddress \notin Addresses

ASSUME BoundAssumption ==
    /\ MaxHeight \in Nat \ {0} /\ MaxHeight < TwoTo64 /\ MaxBlock \in Nat
    /\ MaxCrashes \in Nat
    /\ RpcMayFail \in BOOLEAN /\ TopoBlocks \in BOOLEAN

-----------------------------------------------------------------------------
\* The node.
VARIABLES
    chain,              \* blocks 1 .. height, each a sequence of transactions
    mempool             \* unconfirmed transactions

\* The database.
VARIABLES
    txinfo,             \* height column by txid, or NotRecorded
    wallet,             \* rows of wallet_info, by id
    utxo                \* number of rows of table utxo for each output

\* The process.
VARIABLES
    pc,
    filter_type,        \* ONCHAIN or INMEMPOOL
    pre_block_height,   \* last height scanned, a uint64_t
    current_height,     \* what getblockcount answered
    json_txs,           \* the transactions of the block not yet looked at
    json_pool,          \* the same of the mempool, listed in no order
    vect_tx_,           \* transactions found, waiting for FlushToDB
    vect_mempool_tx_,   \* transactions recorded with height -1
    vect_utxo_,         \* mined transactions waiting for FlushUtxoToDB
    vect_insert,        \* the txinfo statement collected for each txid
    answering,          \* the request being answered, and its wallet_info
    rows                \*   rows that are not written yet

\* Bookkeeping of the specification.
VARIABLES
    answered,           \* how often a response to the transaction began
    crashes

node     == <<chain, mempool>>
db       == <<txinfo, wallet, utxo>>
scan     == <<filter_type, pre_block_height, current_height, json_txs, json_pool>>
memory   == <<vect_tx_, vect_mempool_tx_, vect_utxo_, vect_insert>>
response == <<answering, rows>>
vars     == <<node, db, pc, scan, memory, response, answered, crashes>>

-----------------------------------------------------------------------------
NotRecorded == -2
InMempool   == -1
NoStatement == [op |-> "none", height |-> InMempool]
NoInserts   == [t \in Txs |-> NoStatement]

HasOpReturn(t) == Op[t].code # "none"

RangeOf(s) == {s[i] : i \in 1 .. Len(s)}
OnChain    == UNION {RangeOf(chain[h]) : h \in 1 .. Len(chain)}

\* The outputs a transaction spends and creates; utxo only tracks the outputs
\* of Txs.
Spends(t)  == {<<Vin[t][i].tx, Vin[t][i].n>> : i \in 1 .. Len(Vin[t])}
Creates(t) == {<<t, n>> : n \in 1 .. Len(Vout[t])}
Outpoints  == UNION {Creates(t) : t \in Txs}
Parents(t) == {Vin[t][i].tx : i \in 1 .. Len(Vin[t])} \cap Txs

Init ==
    /\ chain = << >> /\ mempool = {}
    /\ txinfo = [t \in Txs |-> NotRecorded]
    /\ wallet = << >>
    /\ utxo = [o \in Outpoints |-> 0]
    /\ pc = "down"
    /\ filter_type = "ONCHAIN" /\ pre_block_height = 0 /\ current_height = 0
    /\ json_txs = << >> /\ json_pool = {}
    /\ vect_tx_ = << >> /\ vect_mempool_tx_ = {} /\ vect_utxo_ = << >>
    /\ vect_insert = NoInserts
    /\ answering = NoTxid /\ rows = << >>
    /\ answered = [t \in Txs |-> 0]
    /\ crashes = 0

-----------------------------------------------------------------------------
(* The node: clients and the contract side send transactions, miners mine. *)

\* The node takes a transaction whose inputs exist and are not spent.
Accepts(t) ==
    /\ t \notin OnChain \cup mempool
    /\ Parents(t) \subseteq OnChain \cup mempool
    /\ \A u \in OnChain \cup mempool : Spends(t) \cap Spends(u) = {}

Requests == Txs \ UNION {Replies[t] : t \in Txs}

Submit ==
    /\ \E t \in Requests : Accepts(t) /\ mempool' = mempool \cup {t}
    /\ UNCHANGED <<chain, db, pc, scan, memory, response, answered, crashes>>

\* The transactions of a block are those the miner chose, in the order the
\* network's rules give them.
IsBlock(b) ==
    /\ \A j \in DOMAIN b : \A i \in 1 .. j - 1 : b[i] # b[j]
    /\ \A i \in DOMAIN b : Parents(b[i]) \subseteq OnChain \cup RangeOf(b)
    /\ TopoBlocks =>
         \A i, j \in DOMAIN b : b[i] \in Parents(b[j]) => i < j

Mine ==
    /\ Len(chain) < MaxHeight
    /\ \E n \in 0 .. Cardinality(mempool) :
         /\ n <= MaxBlock
         /\ \E b \in [1 .. n -> mempool] :
              /\ IsBlock(b)
              /\ chain' = Append(chain, b)
              /\ mempool' = mempool \ RangeOf(b)
    /\ UNCHANGED <<db, pc, scan, memory, response, answered, crashes>>

-----------------------------------------------------------------------------
(* Start-up and death of the process. *)

\* Operators whose name starts with Bad or Worse are faulty variants of the definition
\* that follows, kept to see that the properties tell them apart.

\* The highest height of txinfo is an int until SetPreBlockHeight takes it as a
\* uint64_t.
BadStartHeight(h) == IF h = NotRecorded THEN 0 ELSE h
StartHeight(h) == IF h = NotRecorded THEN 0 ELSE IF h < 0 THEN TwoTo64 + h ELSE h

BadUnconfirmed == {t \in Txs : txinfo[t] # NotRecorded}
Unconfirmed == {t \in Txs : txinfo[t] = InMempool}

\* ScanBlockChainData before its loop: the highest height of txinfo and the
\* transactions recorded as unconfirmed.
Start ==
    /\ pc = "down" /\ crashes <= MaxCrashes
    /\ \E h \in {NotRecorded} \cup {txinfo[t] : t \in Txs} :
         /\ \A t \in Txs : txinfo[t] <= h
         /\ pre_block_height' = StartHeight(h)
    /\ vect_mempool_tx_' = Unconfirmed
    /\ pc' = "getblockcount"
    /\ filter_type' = "ONCHAIN"
    /\ UNCHANGED <<node, db, current_height, json_txs, json_pool, vect_tx_,
                   vect_utxo_, vect_insert, response, answered, crashes>>

Die ==
    /\ pc' = "down"
    /\ filter_type' = "ONCHAIN" /\ pre_block_height' = 0 /\ current_height' = 0
    /\ json_txs' = << >> /\ json_pool' = {}
    /\ vect_tx_' = << >> /\ vect_mempool_tx_' = {} /\ vect_utxo_' = << >>
    /\ vect_insert' = NoInserts
    /\ answering' = NoTxid /\ rows' = << >>
    /\ crashes' = crashes + 1

\* The process is killed, or an exception nobody catches ends it: a reply that
\* is not JSON, a missing field, an RPC failure while AddTransaction looks up
\* the output an input spends.
Crash ==
    /\ pc # "down" /\ crashes < MaxCrashes
    /\ Die
    /\ UNCHANGED <<node, db, answered>>

-----------------------------------------------------------------------------
(* FilterBlock: reading the chain and the mempool. *)

WorseAddTransaction(t, height) ==
    /\ vect_utxo_' = Append(vect_utxo_, t)
    /\ vect_tx_' = IF HasOpReturn(t)
                   THEN Append(vect_tx_, [tx |-> t, height |-> height])
                   ELSE vect_tx_
    /\ vect_mempool_tx_' = IF HasOpReturn(t) /\ height = InMempool
                           THEN vect_mempool_tx_ \cup {t}
                           ELSE vect_mempool_tx_
    /\ UNCHANGED vect_insert
BadAddTransaction(t, height) ==
    /\ vect_utxo_' = IF height # InMempool THEN Append(vect_utxo_, t) ELSE vect_utxo_
    /\ vect_tx_' = IF HasOpReturn(t)
                   THEN Append(vect_tx_, [tx |-> t, height |-> height])
                   ELSE vect_tx_
    /\ UNCHANGED <<vect_mempool_tx_, vect_insert>>
AddTransaction(t, height) ==
    /\ vect_utxo_' = IF height # InMempool THEN Append(vect_utxo_, t) ELSE vect_utxo_
    /\ vect_tx_' = IF HasOpReturn(t)
                   THEN Append(vect_tx_, [tx |-> t, height |-> height])
                   ELSE vect_tx_
    /\ vect_mempool_tx_' = IF HasOpReturn(t) /\ height = InMempool
                           THEN vect_mempool_tx_ \cup {t}
                           ELSE vect_mempool_tx_
    /\ UNCHANGED vect_insert

\* filterBlockOnChain: getblockcount; a failure leaves nothing to scan.
GetBlockCount ==
    /\ pc = "getblockcount"
    /\ \/ current_height' = Len(chain) /\ pc' = "getblock"
       \/ RpcMayFail /\ pc' = "flush" /\ UNCHANGED current_height
    /\ UNCHANGED <<node, db, filter_type, pre_block_height, json_txs, json_pool,
                   memory, response, answered, crashes>>

\* The height is counted before the block is fetched: when getblockhash or
\* getblock fails, the loop goes on with the next height.
GetBlock ==
    /\ pc = "getblock" /\ json_txs = << >>
    /\ pre_block_height < current_height
    /\ pre_block_height' = pre_block_height + 1
    /\ \/ json_txs' = chain[pre_block_height + 1]
       \/ RpcMayFail /\ UNCHANGED json_txs
    /\ UNCHANGED <<node, db, pc, filter_type, current_height, json_pool, memory,
                   response, answered, crashes>>

\* One transaction of the block: added, or skipped when getrawtransaction or
\* decoderawtransaction fails.
ReadBlockTx ==
    /\ pc = "getblock" /\ json_txs # << >>
    /\ \/ AddTransaction(Head(json_txs), pre_block_height)
       \/ RpcMayFail /\ UNCHANGED memory
    /\ json_txs' = Tail(json_txs)
    /\ UNCHANGED <<node, db, pc, filter_type, pre_block_height, current_height,
                   json_pool, response, answered, crashes>>

BlocksDone ==
    /\ pc = "getblock" /\ json_txs = << >>
    /\ pre_block_height >= current_height
    /\ pc' = "flush"
    /\ current_height' = 0          \* a local variable goes out of scope
    /\ UNCHANGED <<node, db, filter_type, pre_block_height, json_txs, json_pool,
                   memory, response, answered, crashes>>

BadUnseen == mempool
Unseen == mempool \ vect_mempool_tx_

\* filterBlockMempool: the transactions that are not recorded as unconfirmed.
GetRawMempool ==
    /\ pc = "getrawmempool"
    /\ \/ json_pool' = Unseen /\ pc' = "readmempool"
       \/ RpcMayFail /\ pc' = "flush" /\ UNCHANGED json_pool
    /\ UNCHANGED <<node, db, filter_type, pre_block_height, current_height, json_txs,
                   memory, response, answered, crashes>>

ReadMempoolTx ==
    /\ pc = "readmempool"
    /\ \E t \in json_pool :
         /\ json_pool' = json_pool \ {t}
         /\ \/ AddTransaction(t, InMempool)
            \/ RpcMayFail /\ UNCHANGED memory
    /\ UNCHANGED <<node, db, pc, filter_type, pre_block_height, current_height,
                   json_txs, response, answered, crashes>>

MempoolDone ==
    /\ pc = "readmempool" /\ json_pool = {}
    /\ pc' = "flush"
    /\ UNCHANGED <<node, db, scan, memory, response, answered, crashes>>

-----------------------------------------------------------------------------
(* ResponseAction: what a transaction recorded for the first time triggers. *)

\* A response begins: rs are its wallet_info rows, next is where it goes on.
Respond(t, next, rs) ==
    /\ pc' = next /\ answering' = t /\ rows' = rs
    /\ answered' = [answered EXCEPT ![t] = @ + 1]

Ignore == UNCHANGED <<pc, response, answered>>

\* The output address that makes a transaction one to handle: the first one of
\* this wallet, provided that the first input is not of this wallet.  A failed
\* validateaddress counts as "not mine", for the output or for the input.
HandledBy(t) ==
    LET mine == {i \in 1 .. Len(Vout[t]) : Vout[t][i].addr \in MyAddresses}
    IN  IF RpcMayFail THEN {Vout[t][i].addr : i \in mine} \cup {NoAddress}
        ELSE IF mine = {} \/ Vin[t][1].addr \in MyAddresses THEN {NoAddress}
        ELSE {Vout[t][First(mine)].addr}

\* ContractFormat (C1) only sends a C2; AssetCreation (A1) sends an A2 and
\* writes the issuer's row.
ResponseActionC1(t) == Respond(t, "reply", << >>)

ResponseActionA1(t, contract) ==
    LET k == [contract |-> contract, asset |-> Op[t].asset, address |-> Vin[t][1].addr]
    IN  Respond(t, "reply", Stored(Row(k, Op[t].qty1, "A2", NoTxid)))

T2Of == [t \in Txs |-> T2Roles(Vin[t], Vout[t], Op[t].fee_address)]

T2Key(t, address) ==
    [contract |-> T2Of[t].contract, asset |-> Op[t].asset, address |-> address]

\* (Whether the table takes a row is settled where the row is computed; that the
\* rows of a settlement fit follows from what std::stoi could read.)

\* A T2 is settled when the contract is of this wallet and the sender holds
\* what it sends; the reply is a T4 with the holdings of both parties.
BadSettles(t) ==
    /\ T2Of[t].contract \in MyAddresses
    /\ QueryContract(wallet, T2Key(t, T2Of[t].send)) # 0
Settles(t) ==
    /\ T2Of[t].contract \in MyAddresses
    /\ LET share_send == QueryContract(wallet, T2Key(t, T2Of[t].send))
       IN  share_send # 0 /\ share_send >= Op[t].qty1

BadSettlement(t) ==
    LET send == T2Key(t, T2Of[t].send)
        recv == T2Key(t, T2Of[t].recv)
        share_send == QueryContract(wallet, send)
    IN  <<Row(send, Sub64(share_send, Op[t].qty1), "T4", NoTxid),
          Row(recv, Add64(share_send, Op[t].qty1), "T4", NoTxid)>>
Settlement(t) ==
    LET send == T2Key(t, T2Of[t].send)
        recv == T2Key(t, T2Of[t].recv)
        share_send == QueryContract(wallet, send)
        share_recieve == QueryContract(wallet, recv)
    IN  <<Row(send, Sub64(share_send, Op[t].qty1), "T4", NoTxid),
          Row(recv, Add64(share_recieve, Op[t].qty1), "T4", NoTxid)>>

\* A query on the way to the settlement meets a quantity std::stoi rejects.
T2Throws(t) ==
    /\ Op[t].code = "T2" /\ T2Of[t].contract \in MyAddresses
    /\ \/ QueryThrows(wallet, T2Key(t, T2Of[t].send))
       \/ Settles(t) /\ QueryThrows(wallet, T2Key(t, T2Of[t].recv))

\* Where validateaddress fails, the contract is not this wallet's and nothing is
\* queried.
ResponseActionT2(t) ==
    \/ ~ T2Throws(t) /\ Settles(t) /\ Respond(t, "reply", Settlement(t))
    \/ ~ T2Throws(t) /\ ~ Settles(t) /\ Ignore
    \/ RpcMayFail /\ Ignore

\* A T4 of somebody else's contract: the holdings it states for addresses of
\* this wallet are taken over.
T4Rows(t, mine) ==
    LET roles == T4Roles(Vin[t], Vout[t])
        taken(address, qty) ==
            IF address \notin mine THEN << >>
            ELSE Stored(Row([contract |-> T4Contract(Vin[t]), asset |-> Op[t].asset,
                             address |-> address], qty, "T4", t))
    IN  taken(roles.send, Op[t].qty1) \o taken(roles.recv, Op[t].qty2)

ResponseActionT4(t) ==
    \E mine \in IF RpcMayFail THEN SUBSET MyAddresses ELSE {MyAddresses} :
        IF T4Rows(t, mine) = << >> THEN Ignore
        ELSE Respond(t, "rows", T4Rows(t, mine))

ResponseAction(t) ==
    \E contract \in HandledBy(t) :
        \/ Op[t].code = "T2" /\ ResponseActionT2(t)
        \/ Op[t].code = "C1" /\ contract # NoAddress /\ ResponseActionC1(t)
        \/ Op[t].code = "A1" /\ contract # NoAddress /\ ResponseActionA1(t, contract)
        \/ Op[t].code = "T4" /\ contract # NoAddress /\ ResponseActionT4(t)
        \/ Op[t].code = "other" /\ Ignore
        \/ Op[t].code # "T2" /\ contract = NoAddress /\ Ignore

-----------------------------------------------------------------------------
(* FlushToDB *)

\* A mined transaction that is recorded as unconfirmed only gets its height.
BadIsUpdate(e) == e.tx \in vect_mempool_tx_
WorseIsUpdate(e) == e.height # InMempool /\ e.tx \notin vect_mempool_tx_
IsUpdate(e) == e.height # InMempool /\ e.tx \in vect_mempool_tx_

FlushUpdate ==
    /\ pc = "flush" /\ vect_tx_ # << >>
    /\ IsUpdate(Head(vect_tx_))
    /\ vect_insert' = [vect_insert EXCEPT ![Head(vect_tx_).tx] =
                         [op |-> "UPDATE", height |-> Head(vect_tx_).height]]
    /\ vect_mempool_tx_' = vect_mempool_tx_ \ {Head(vect_tx_).tx}
    /\ vect_tx_' = Tail(vect_tx_)
    /\ UNCHANGED <<node, db, pc, scan, vect_utxo_, response, answered, crashes>>

\* Any other one is inserted, and answered on the spot.
BadFlushInsert ==
    /\ pc = "flush" /\ vect_tx_ # << >>
    /\ ~ IsUpdate(Head(vect_tx_))
    /\ txinfo' = [txinfo EXCEPT ![Head(vect_tx_).tx] = Head(vect_tx_).height]
    /\ vect_tx_' = Tail(vect_tx_)
    /\ ResponseAction(Head(vect_tx_).tx)
    /\ UNCHANGED <<node, wallet, utxo, scan, vect_mempool_tx_, vect_utxo_, vect_insert, crashes>>
FlushInsert ==
    /\ pc = "flush" /\ vect_tx_ # << >>
    /\ ~ IsUpdate(Head(vect_tx_))
    /\ vect_insert' = [vect_insert EXCEPT ![Head(vect_tx_).tx] =
                         [op |-> "INSERT", height |-> Head(vect_tx_).height]]
    /\ vect_tx_' = Tail(vect_tx_)
    /\ ResponseAction(Head(vect_tx_).tx)
    /\ UNCHANGED <<node, db, scan, vect_mempool_tx_, vect_utxo_, crashes>>

BadFlushThrows ==
    /\ pc = "flush" /\ vect_tx_ # << >>
    /\ ~ IsUpdate(Head(vect_tx_))
    /\ T2Throws(Head(vect_tx_).tx)
    /\ vect_insert' = [vect_insert EXCEPT ![Head(vect_tx_).tx] =
                         [op |-> "INSERT", height |-> Head(vect_tx_).height]]
    /\ vect_tx_' = Tail(vect_tx_)
    /\ Ignore
    /\ UNCHANGED <<node, db, scan, vect_mempool_tx_, vect_utxo_, crashes>>
FlushThrows ==
    /\ pc = "flush" /\ vect_tx_ # << >>
    /\ ~ IsUpdate(Head(vect_tx_))
    /\ T2Throws(Head(vect_tx_).tx)
    /\ Die
    /\ UNCHANGED <<node, db, answered>>

(* The reply: CreateTransaction for a C2 or an A2, CreateTransactionT4 for  *)
(* a T4.                                                                    *)

Output(o) == Vout[o[1]][o[2]]
Value == [o \in Outpoints |-> Output(o).value]

\* What the node's listunspent answers for an address: the outputs of blocks and
\* of the mempool that neither a block nor the mempool spends.
Unspent(a) ==
    {o \in Outpoints :
        /\ o[1] \in OnChain \cup mempool
        /\ Output(o).addr = a
        /\ \A u \in OnChain \cup mempool : o \notin Spends(u)}

\* The outputs of a transaction, as the JSON object they were built from.
PaysExactly(id, paid) ==
    /\ Len(Vout[id]) = Cardinality(DOMAIN paid)
    /\ {<<Vout[id][i].addr, Vout[id][i].value>> : i \in 1 .. Len(Vout[id])}
        = {<<a, paid[a]>> : a \in DOMAIN paid}

\* What the contract pays the issuer, whatever the issuer paid the contract.
ReplyFee(t) == IF Op[t].code = "C1" THEN 5 ELSE 12

\* The contract's address: of the rows, or for a C1, which has none, the one
\* ResponseAction found.
ReplyFrom ==
    IF rows = << >> THEN HandledBy(answering) \ {NoAddress} ELSE {rows[1].contract}

FundsReply(id, contract) ==
    LET pay == ReplyFee(answering) + FIXED_FEE
    IN  /\ Spends(id) \in Taken(Unspent(contract), Value, pay)
        /\ PaysExactly(id, PaidWithChange(contract, Vin[answering][1].addr,
                                          ReplyFee(answering),
                                          Worth(Value, Spends(id)) - pay))

\* The node refuses an output without an address or without a positive amount,
\* and a transaction without inputs.
FundsT4(id, contract) ==
    LET paid == T4Paid(rows[1].address, rows[2].address,
                       T2Currency(Vin[answering], Vout[answering]))
    IN  /\ Spends(id) = T4Coins(Unspent(contract), answering)
        /\ \A a \in DOMAIN paid : a # NoAddress /\ paid[a] > 0
        /\ PaysExactly(id, paid)

IsReply(id) ==
    /\ \E contract \in ReplyFrom :
          IF Op[answering].code = "T2" THEN FundsT4(id, contract) ELSE FundsReply(id, contract)
    /\ Accepts(id)

\* Where doubles decide: coins of exactly the amount to pay are enough or not, or
\* leave a change too small to be an amount, by how their sum is rounded; and a T4
\* that leaves the sender no more than 0.00001 names an amount with more decimals
\* than the node takes, or not.
RoundingDecides ==
    \E contract \in ReplyFrom :
        IF Op[answering].code = "T2"
        THEN T2Currency(Vin[answering], Vout[answering]) <= FIXED_FEE + SETTLE_RECIEVE + 1
        ELSE \E cs \in SUBSET Unspent(contract) :
                Worth(Value, cs) = ReplyFee(answering) + FIXED_FEE

\* The reply is not sent when the coins do not fund one or the node refuses it,
\* or when a call fails; it may also be sent without scanblock hearing its txid.
\* The result is ignored and the rows are written, with the empty txid.
Reply ==
    /\ pc = "reply"
    /\ \E txid \in Replies[answering] \cup {NoTxid} :
         /\ \/ /\ txid = NoTxid /\ UNCHANGED mempool
               /\ \/ RpcMayFail \/ RoundingDecides
                  \/ \A id \in Replies[answering] : ~ IsReply(id)
            \/ \E id \in Replies[answering] :
                 /\ IsReply(id) /\ mempool' = mempool \cup {id}
                 /\ txid = id \/ (RpcMayFail /\ txid = NoTxid)
         /\ rows' = [i \in 1 .. Len(rows) |-> [rows[i] EXCEPT !.txid = txid]]
    /\ pc' = IF rows = << >> THEN "flush" ELSE "rows"
    /\ answering' = NoTxid
    /\ UNCHANGED <<chain, db, scan, memory, answered, crashes>>

\* Handler::FlushToDB: each row is a statement, and a transaction, of its own.
InsertRow ==
    /\ pc = "rows" /\ rows # << >>
    /\ wallet' = Append(wallet, Head(rows))
    /\ rows' = Tail(rows)
    /\ pc' = IF Len(rows) = 1 THEN "flush" ELSE "rows"
    /\ answering' = NoTxid
    /\ UNCHANGED <<node, txinfo, utxo, scan, memory, answered, crashes>>

\* What one statement makes of the height recorded for a transaction: an INSERT
\* of a txid that has a row fails (error 1062, ignored), an UPDATE of one that
\* has none changes nothing.
BadExecuted(s, height) ==
    IF s.op = "INSERT" /\ height = NotRecorded THEN s.height ELSE height
Executed(s, height) ==
    CASE s.op = "INSERT" /\ height = NotRecorded -> s.height
      [] s.op = "UPDATE" /\ height # NotRecorded -> s.height
      [] OTHER -> height

\* BatchQuerySql: all statements collected, in one transaction.
Commit ==
    /\ pc = "flush" /\ vect_tx_ = << >>
    /\ txinfo' = [t \in Txs |-> Executed(vect_insert[t], txinfo[t])]
    /\ vect_insert' = NoInserts
    /\ pc' = IF filter_type = "ONCHAIN" THEN "getrawmempool" ELSE "utxo"
    /\ filter_type' = IF filter_type = "ONCHAIN" THEN "INMEMPOOL" ELSE "ONCHAIN"
    /\ UNCHANGED <<node, wallet, utxo, pre_block_height, current_height, json_txs,
                   json_pool, vect_tx_, vect_mempool_tx_, vect_utxo_, response,
                   answered, crashes>>

-----------------------------------------------------------------------------
(* FlushUtxoToDB: one batch that, for each mined transaction in the order   *)
(* they were read, deletes the rows of the outputs it spends and inserts    *)
(* one row for each output it creates.                                      *)

\* The inserts of o in the queue q that no later transaction of q deletes.
BadSurviving(q, o) == {i \in 1 .. Len(q) : o \in Creates(q[i])}
Surviving(q, o) ==
    {i \in 1 .. Len(q) : /\ o \in Creates(q[i])
                         /\ \A j \in 1 .. Len(q) : o \in Spends(q[j]) => j <= i}

Deleted(q, o) == \E j \in 1 .. Len(q) : o \in Spends(q[j])

FlushUtxo ==
    /\ pc = "utxo"
    /\ utxo' = [o \in Outpoints |->
                  (IF Deleted(vect_utxo_, o) THEN 0 ELSE utxo[o])
                  + Cardinality(Surviving(vect_utxo_, o))]
    /\ vect_utxo_' = << >>
    /\ pc' = "getblockcount"
    /\ UNCHANGED <<node, txinfo, wallet, scan, vect_tx_, vect_mempool_tx_,
                   vect_insert, response, answered, crashes>>

-----------------------------------------------------------------------------
\* The loop of the process, its deaths and starts, and its environment.
Loop ==
    \/ GetBlockCount \/ GetBlock \/ ReadBlockTx \/ BlocksDone
    \/ GetRawMempool \/ ReadMempoolTx \/ MempoolDone
    \/ FlushUpdate \/ FlushInsert \/ FlushThrows \/ Reply \/ InsertRow \/ Commit
    \/ FlushUtxo

Environment == Submit \/ Mine

Next == Loop \/ Start \/ Crash \/ Environment

Spec == Init /\ [][Next]_vars

\* scanblock is one thread in while(true) with nothing to wait for but RPC
\* answers and sleep(1), so a step it can take is eventually taken; whoever runs
\* it starts it again when it died.  Nothing forces clients or miners to act.
Fairness == WF_vars(Loop) /\ WF_vars(Start)

FairSpec == Spec /\ Fairness

-----------------------------------------------------------------------------
(* Types *)

PCs == {"down", "getblockcount", "getblock", "getrawmempool", "readmempool",
        "flush", "reply", "rows", "utxo"}
Heights == {NotRecorded, InMempool} \cup 1 .. MaxHeight
Holders == Addresses \cup {NoAddress}
WalletRow == [contract : Holders, asset : Assets, address : Holders, qty : Qty,
              type : RowTypes, txid : Txs \cup {NoTxid}]
Entry == [tx : Txs, height : {InMempool} \cup 1 .. MaxHeight]
Statement == [op : {"none", "INSERT", "UPDATE"}, height : {InMempool} \cup 1 .. MaxHeight]

\* Every variable has its type.
TypeOK ==
    /\ chain \in Seq(Seq(Txs)) /\ Len(chain) <= MaxHeight
    /\ mempool \subseteq Txs
    /\ txinfo \in [Txs -> Heights]
    /\ wallet \in Seq(WalletRow)
    /\ utxo \in [Outpoints -> Nat]
    /\ pc \in PCs
    /\ filter_type \in {"ONCHAIN", "INMEMPOOL"}
    /\ pre_block_height \in Qty /\ current_height \in 0 .. MaxHeight
    /\ json_txs \in Seq(Txs) /\ json_pool \subseteq Txs
    /\ vect_tx_ \in Seq(Entry)
    /\ vect_mempool_tx_ \subseteq Txs
    /\ vect_utxo_ \in Seq(Txs)
    /\ vect_insert \in [Txs -> Statement]
    /\ answering \in Txs \cup {NoTxid}
    /\ rows \in Seq(WalletRow)
    /\ answered \in [Txs -> Nat] /\ crashes \in Nat

-----------------------------------------------------------------------------
(* Safety *)

\* At the head of the loop the in-memory list of unconfirmed transactions is
\* exactly what txinfo records with height -1: a stale entry would turn the
\* first sight of a mined transaction into an UPDATE of nothing, a missing one
\* would answer a recorded request again.
SeenMirrorsTxinfo ==
    pc = "getblockcount" =>
        \A t \in Txs : t \in vect_mempool_tx_ <=> txinfo[t] = InMempool

\* Restarts included, and as long as no RPC call fails: whatever carries an
\* OP_RETURN in a block not above the highest height in txinfo is recorded, with
\* the height of its block.  The scan resumes from that height, so a
\* transaction missed below it would be missed for good.
RecordedBelowTip ==
    \A h \in 1 .. Len(chain) : \A t \in RangeOf(chain[h]) :
        (HasOpReturn(t) /\ \E u \in Txs : txinfo[u] >= h) => txinfo[t] = h

\* A request with a row in txinfo is never answered again, by this run of the
\* process or by a later one, mined or not.
NeverAnsweredAgain ==
    [][\A t \in Txs : txinfo[t] # NotRecorded => answered'[t] = answered[t]]_vars

\* One run of the process begins at most one response to a request, so only a
\* death of the process can lead to a second settlement.
AnsweredOncePerRun == \A t \in Txs : answered[t] <= crashes + 1

Contracts == MyAddresses
HeldIn(table, contract, asset) ==
    MapThenSumSet(LAMBDA a : QueryContract(table, [contract |-> contract, asset |-> asset,
                                                   address |-> a]), Holders)
IssuedOf(contract, asset) ==
    MapThenSumSet(LAMBDA i : wallet[i].qty,
                  {i \in 1 .. Len(wallet) : /\ wallet[i].type = "A2"
                                            /\ wallet[i].contract = contract
                                            /\ wallet[i].asset = asset})

\* Settlements create no tokens: what all holders of an asset of this node's
\* contracts hold never exceeds what was issued, also when the process dies
\* between the rows of the two parties and the settlement is repeated.
NoTokensMinted ==
    \A c \in Contracts, a \in Assets : HeldIn(wallet, c, a) <= IssuedOf(c, a)

MinedAt(t, h) == h \in 1 .. Len(chain) /\ t \in RangeOf(chain[h])
ScannedTxs == {t \in Txs : \E h \in 1 .. pre_block_height : MinedAt(t, h)}

\* Without a death and without RPC failures, table utxo holds at the head of the
\* loop exactly one row for each unspent output of the blocks scanned.
UtxoExact ==
    pc = "getblockcount" =>
        \A o \in Outpoints :
            utxo[o] = IF /\ o[1] \in ScannedTxs
                         /\ ~ \E u \in ScannedTxs : o \in Spends(u)
                      THEN 1 ELSE 0

\* The one-row part of it: an output is listed once.
UtxoListedOnce == \A o \in Outpoints : utxo[o] <= 1

\* The unspent part of it: no row for an output a scanned transaction spent.
UtxoRowsUnspent ==
    pc = "getblockcount" =>
        \A u \in ScannedTxs : \A o \in Spends(u) \cap Outpoints : utxo[o] = 0

\* Every row of wallet_info names the transaction it belongs to.
RowsNameTheirTx == \A i \in 1 .. Len(wallet) : wallet[i].txid # NoTxid

\* Without a death and without RPC failures: when the response to a transfer is
\* over and its output could pay both parties, that output is spent, by the T4
\* or by the A2 or C2 that answers another request with it, and not left behind
\* at the contract's address with the parties' money (CreateTransactionT4 asks
\* for all outputs of the contract, CreateTransaction takes any of them).
Payable(t) ==
    /\ Op[t].code = "T2"
    /\ T2Of[t].send # NoAddress /\ T2Of[t].recv # NoAddress
    /\ T2Currency(Vin[t], Vout[t]) > FIXED_FEE + SETTLE_RECIEVE + 1

SettledOrRobbed ==
    \A t \in Txs : Payable(t) /\ answered[t] > 0 /\ answering # t =>
        \E u \in (OnChain \cup mempool)
                  \cap (Replies[t] \cup UNION {Replies[v] : v \in {w \in Txs : Op[w].code \in {"C1", "A1"}}}) :
            \E o \in Spends(u) \cap Creates(t) : Output(o).addr = T2Of[t].contract

\* Requests to a contract of this node, and what the answer to an A1 leaves behind
\* when the table holds its quantity.
ToAnswer(t) == Op[t].code \in {"C1", "A1"} /\ HandledBy(t) # {NoAddress}

Booked(t) ==
    Op[t].code = "A1" /\ 2 * Op[t].qty1 < TwoTo64 =>
        \E i \in 1 .. Len(wallet) :
            /\ wallet[i].type = "A2" /\ wallet[i].qty = Op[t].qty1
            /\ wallet[i].contract \in HandledBy(t) /\ wallet[i].address = Vin[t][1].addr

\* With every RPC call answered, and whenever the process dies: a request to this
\* node's contract that has a row in txinfo, and so is never answered again, was
\* answered, and what an A1 issues is booked unless the table cannot hold it.
RecordedIsBooked ==
    \A t \in Txs : ToAnswer(t) /\ txinfo[t] # NotRecorded => answered[t] > 0 /\ Booked(t)

\* However often the process dies, whatever RPC calls fail and in whatever order a
\* block lists its transactions: a run of the process lists an output once.
UtxoListedOncePerRun == \A o \in Outpoints : utxo[o] <= crashes + 1

\* With every RPC call answered: once the stored holdings of the sender exceed
\* what std::stoi reads, a transfer that was not recorded before stays unrecorded
\* for good, since each attempt to answer it ends the process and no settlement
\* can take the holdings down.  (Holdings of the receiver stop it only as long as
\* the sender holds enough.)
Stuck(t) ==
    /\ Op[t].code = "T2" /\ T2Of[t].contract \in MyAddresses
    /\ QueryThrows(wallet, T2Key(t, T2Of[t].send))
    /\ txinfo[t] = NotRecorded /\ vect_insert[t] = NoStatement

OverflowIsForGood == [][\A t \in Txs : Stuck(t) => Stuck(t)']_vars

-----------------------------------------------------------------------------
(* The inductive invariant behind SeenMirrorsTxinfo, NeverAnsweredAgain and *)
(* AnsweredOncePerRun: what ties the memory of the process to txinfo, and   *)
(* txinfo to the chain.                                                     *)

\* A transaction is at one place of one block, or in the mempool.
NodeInv ==
    /\ \A g, h \in 1 .. Len(chain) :
         \A i \in 1 .. Len(chain[g]), j \in 1 .. Len(chain[h]) :
            chain[g][i] = chain[h][j] => g = h /\ i = j
    /\ \A h \in 1 .. Len(chain) : \A i \in 1 .. Len(chain[h]) : chain[h][i] \notin mempool

\* What the types of the queued heights and of the rows under way rest on.
BoundInv ==
    /\ current_height <= Len(chain)
    /\ json_txs # << >> => pc = "getblock" /\ pre_block_height \in 1 .. current_height
    /\ pc = "reply" => answering \in Txs

\* What is read, queued or about to be written exists only in its phase.
PhaseInv ==
    /\ pc # "readmempool" => json_pool = {}
    /\ pc \notin {"getblock", "readmempool", "flush", "reply", "rows"} => vect_tx_ = << >>
    /\ pc \notin {"flush", "reply", "rows"} => vect_insert = NoInserts
    /\ pc = "down" => vect_mempool_tx_ = {}

\* A height in txinfo is that of the transaction's block, already scanned.
HeightInv ==
    \A t \in Txs : txinfo[t] > 0 =>
        /\ MinedAt(t, txinfo[t])
        /\ pc # "down" => txinfo[t] <= pre_block_height

\* vect_mempool_tx_ is what txinfo has, or will have, with height -1.
SeenInv ==
    /\ \A t \in Txs : (pc # "down" /\ txinfo[t] = InMempool) =>
         t \in vect_mempool_tx_ \/ vect_insert[t].op = "UPDATE"
    /\ \A t \in vect_mempool_tx_ :
         \/ txinfo[t] = InMempool
         \/ txinfo[t] = NotRecorded /\ vect_insert[t] = [op |-> "INSERT", height |-> InMempool]
         \/ \E i \in 1 .. Len(vect_tx_) : vect_tx_[i] = [tx |-> t, height |-> InMempool]

\* A queued transaction is queued once, has no statement yet and is new to
\* txinfo unless it is about to be updated.
QueueInv ==
    /\ \A i, j \in 1 .. Len(vect_tx_) : vect_tx_[i].tx = vect_tx_[j].tx => i = j
    /\ \A i \in 1 .. Len(vect_tx_) :
         /\ vect_insert[vect_tx_[i].tx] = NoStatement
         /\ IF vect_tx_[i].height = InMempool
            THEN /\ txinfo[vect_tx_[i].tx] = NotRecorded
                 /\ vect_tx_[i].tx \in vect_mempool_tx_
                 /\ pc # "getblock"
            ELSE /\ MinedAt(vect_tx_[i].tx, vect_tx_[i].height)
                 /\ vect_tx_[i].height <= pre_block_height
                 /\ \/ txinfo[vect_tx_[i].tx] = NotRecorded
                    \/ vect_tx_[i].tx \in vect_mempool_tx_

\* What is still to be read is not queued and, apart from unconfirmed
\* transactions that were mined since, not recorded.
ReadInv ==
    /\ \A i, j \in 1 .. Len(json_txs) : json_txs[i] = json_txs[j] => i = j
    /\ \A i \in 1 .. Len(json_txs) :
         /\ MinedAt(json_txs[i], pre_block_height)
         /\ txinfo[json_txs[i]] \in {NotRecorded, InMempool}
         /\ \A j \in 1 .. Len(vect_tx_) : vect_tx_[j].tx # json_txs[i]
    /\ \A t \in json_pool :
         /\ txinfo[t] = NotRecorded
         /\ \A j \in 1 .. Len(vect_tx_) : vect_tx_[j].tx # t

\* A statement carries a height that its transaction has.
StatementInv ==
    \A t \in Txs :
        /\ vect_insert[t].op = "INSERT" /\ vect_insert[t].height = InMempool =>
             t \in vect_mempool_tx_
        /\ vect_insert[t].op # "none" /\ vect_insert[t].height # InMempool =>
             /\ MinedAt(t, vect_insert[t].height)
             /\ vect_insert[t].height <= pre_block_height
             /\ t \notin vect_mempool_tx_
        /\ vect_insert[t].op = "UPDATE" => vect_insert[t].height # InMempool
        /\ vect_insert[t].op = "INSERT" => txinfo[t] = NotRecorded

\* A response of this run of the process is recorded, or will be with the flush
\* under way.
AnswerInv ==
    \A t \in Txs :
        \/ answered[t] <= crashes
        \/ /\ answered[t] = crashes + 1 /\ pc # "down"
           /\ txinfo[t] # NotRecorded \/ vect_insert[t].op = "INSERT"

\* The conjunction that every step preserves.
IInv ==
    /\ BoundInv /\ NodeInv /\ PhaseInv /\ HeightInv /\ SeenInv /\ QueueInv /\ ReadInv
    /\ StatementInv /\ AnswerInv

-----------------------------------------------------------------------------
(* Liveness, under FairSpec *)

\* A transaction with an OP_RETURN that is mined is eventually recorded with the
\* height of its block.
MinedIsRecorded ==
    \A t \in {u \in Txs : HasOpReturn(u)}, h \in 1 .. MaxHeight :
        MinedAt(t, h) ~> (txinfo[t] = h)

\* With every RPC call answered, a request that this node's contract has to
\* answer and that is mined is eventually answered, an A1 with the row that
\* books what it issues, whatever came of the reply.
RequestIsAnswered ==
    \A t \in {u \in Txs : ToAnswer(u)} : (t \in OnChain) ~> (answered[t] > 0 /\ Booked(t))
=============================================================================
