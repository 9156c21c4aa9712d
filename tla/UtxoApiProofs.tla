--------------------------- MODULE UtxoApiProofs ---------------------------
(***************************************************************************)
(* What holds between contractd, scanblock and the clients for any set of  *)
(* transactions, clients, amounts and fees: every transaction a client     *)
(* sends is signed by the owners of its coins; and although contractd and  *)
(* scanblock write the table utxo without regard to one another, a coin    *)
(* whose spending was answered with success is not offered again, and no   *)
(* coin that is still there is lost.                                       *)
(***************************************************************************)
EXTENDS UtxoApi, DatabaseProofs

USE DEF NotRecorded, InMempool

SigningInv == OffersInv /\ DraftInv /\ PostedIsSigned

\* The owner of a coin is an address.
LEMMA OwnerIsAddress ==
    ASSUME NEW t \in Txs, NEW i \in Inputs(t)
    PROVE  Vin[t][i].addr # NoAddress
<1>1. Vin[t] \in Seq([tx : Txs \cup {NoTxid}, n : Nat, addr : Addresses])
  BY TxAssumption
<1>2. Vin[t][i] \in [tx : Txs \cup {NoTxid}, n : Nat, addr : Addresses]
  BY <1>1, ElementOfSeq DEF Inputs
<1> QED
  BY <1>2, AddressAssumption

\* An input that spends a coin a client was offered is that client's.
LEMMA OfferedIsOwned ==
    ASSUME OffersInv, NEW c \in Clients, NEW t \in Txs, NEW i \in Inputs(t),
           <<Vin[t][i].tx, Vin[t][i].n>> \in offered[c]
    PROVE  Vin[t][i].addr = c
BY OwnerAssumption DEF OffersInv, Inputs

\* The rows of an address are of its outputs.
LEMMA RowsAreOwn ==
    ASSUME NEW a, NEW row \in RowsOf(a)
    PROVE  row[1] \in Outpoints /\ Output(row[1]).addr = a
<1>1. PICK o \in {p \in Outpoints : Output(p).addr = a} :
         row \in {<<o, k>> : k \in 1 .. utxo[o]}
  BY DEF RowsOf
<1> QED
  BY <1>1

\* Neither GetUtxo nor a newer offer can give a client somebody else's coin.
LEMMA GetUtxoKeeps ==
    ASSUME SigningInv, NEW c \in Clients, NEW amount \in Amounts, GetUtxo(c, amount)
    PROVE  SigningInv'
<1>1. PICK rs \in Offers(c, amount) : offered' = [offered EXCEPT ![c] = {r[1] : r \in rs}]
  BY DEF GetUtxo
<1>2. rs \subseteq RowsOf(c)
  BY <1>1 DEF Offers
<1>3. draft' = draft /\ posted' = posted
  BY DEF GetUtxo
<1>4. OffersInv'
  <2>1. DOMAIN offered' = Clients
    BY <1>1 DEF SigningInv, OffersInv
  <2>2. ASSUME NEW d \in Clients, NEW o \in offered'[d]
        PROVE  o \in Outpoints /\ Output(o).addr = d
    <3>1. CASE d = c
      <4>1. offered'[d] = {r[1] : r \in rs}
        BY <1>1, <3>1 DEF SigningInv, OffersInv
      <4>2. PICK r \in rs : o = r[1]
        BY <2>2, <4>1
      <4> QED
        BY <1>2, <3>1, <4>2, RowsAreOwn
    <3>2. CASE d # c
      BY <1>1, <2>2, <3>2 DEF SigningInv, OffersInv
    <3> QED
      BY <3>1, <3>2
  <2> QED
    BY <2>1, <2>2 DEF OffersInv
<1> QED
  BY <1>3, <1>4 DEF SigningInv, DraftInv, PostedIsSigned, SignedByOwners

\* A one-party transaction is signed at every input by the one who was offered
\* the coins.
LEMMA BuildAndPostKeeps ==
    ASSUME SigningInv, NEW t \in Txs, NEW c \in Clients, BuildAndPost(t, c)
    PROVE  SigningInv'
<1> DEFINE p == [tx |-> t, signer |-> CreateTransaction(Len(Vin[t]), Inputs(t), c)]
<1>1. offered' = offered /\ draft' = draft /\ posted' = posted \cup {p}
  BY DEF BuildAndPost
<1>2. SignedByOwners(p)
  <2>1. SUFFICES ASSUME NEW i \in Inputs(t) PROVE p.signer[i] = Vin[t][i].addr
    BY DEF SignedByOwners
  <2>2. p.signer[i] = c
    BY DEF CreateTransaction, Inputs
  <2>3. <<Vin[t][i].tx, Vin[t][i].n>> \in offered[c]
    BY DEF BuildAndPost, Spends, Inputs
  <2> QED
    BY <2>2, <2>3, OfferedIsOwned DEF SigningInv
<1>3. PostedIsSigned'
  BY <1>1, <1>2 DEF SigningInv, PostedIsSigned, SignedByOwners
<1> QED
  BY <1>1, <1>3 DEF SigningInv, OffersInv, DraftInv

\* A draft is signed at the sender's inputs, and the others are the receiver's.
LEMMA DraftTransferKeeps ==
    ASSUME SigningInv, NEW t \in Txs, NEW c \in Clients, NEW d \in Clients,
           DraftTransfer(t, c, d)
    PROVE  SigningInv'
<1> DEFINE mine == 1 .. Cardinality(offered[c])
           signer == CreateTransaction(Len(Vin[t]), mine, c)
<1>1. /\ offered' = offered /\ posted' = posted
      /\ draft' = [tx |-> t, signer |-> signer, recv |-> d]
  BY DEF DraftTransfer
<1>2. DOMAIN signer = Inputs(t)
  BY DEF CreateTransaction, Inputs
<1>3. ASSUME NEW i \in Inputs(t)
      PROVE  \/ signer[i] = Vin[t][i].addr
             \/ signer[i] = NoAddress /\ Vin[t][i].addr = d
  <2>1. CASE i \in mine
    <3>1. <<Vin[t][i].tx, Vin[t][i].n>> \in offered[c]
      BY <2>1 DEF DraftTransfer, OutpointsOf
    <3>2. signer[i] = c
      BY <1>3, <2>1 DEF CreateTransaction, Inputs
    <3> QED
      BY <1>3, <3>1, <3>2, OfferedIsOwned DEF SigningInv
  <2>2. CASE i \notin mine
    <3>1. <<Vin[t][i].tx, Vin[t][i].n>> \in offered[d]
      BY <1>3, <2>2 DEF DraftTransfer, OutpointsOf
    <3>2. signer[i] = NoAddress
      BY <1>3, <2>2 DEF CreateTransaction, Inputs
    <3> QED
      BY <1>3, <3>1, <3>2, OfferedIsOwned DEF SigningInv
  <2> QED
    BY <2>1, <2>2
<1>4. DraftInv'
  BY <1>1, <1>2, <1>3 DEF DraftInv
<1> QED
  BY <1>1, <1>4 DEF SigningInv, OffersInv, PostedIsSigned, SignedByOwners

\* The receiver completes a draft with the signatures that are missing.
LEMMA TokenRecieveKeeps ==
    ASSUME SigningInv, TokenRecieve
    PROVE  SigningInv'
<1> DEFINE p == [tx |-> draft.tx, signer |-> SignTransaction(draft.signer, draft.recv)]
<1>1. offered' = offered /\ draft' = draft /\ posted' = posted \cup {p}
  BY DEF TokenRecieve
<1>2. draft.tx \in Txs /\ DOMAIN draft.signer = Inputs(draft.tx)
  BY DEF TokenRecieve, SigningInv, DraftInv
<1>3. SignedByOwners(p)
  <2>1. SUFFICES ASSUME NEW i \in Inputs(draft.tx) PROVE p.signer[i] = Vin[draft.tx][i].addr
    BY DEF SignedByOwners
  <2>2. p.signer[i] = IF draft.signer[i] = NoAddress THEN draft.recv ELSE draft.signer[i]
    BY <1>2 DEF SignTransaction
  <2>3. \/ draft.signer[i] = Vin[draft.tx][i].addr
        \/ draft.signer[i] = NoAddress /\ Vin[draft.tx][i].addr = draft.recv
    BY DEF TokenRecieve, SigningInv, DraftInv
  <2>4. Vin[draft.tx][i].addr # NoAddress
    BY <1>2, OwnerIsAddress
  <2> QED
    BY <2>2, <2>3, <2>4
<1>4. PostedIsSigned'
  BY <1>1, <1>3 DEF SigningInv, PostedIsSigned, SignedByOwners
<1> QED
  BY <1>1, <1>4 DEF SigningInv, OffersInv, DraftInv

\* Every other step leaves offers and drafts alone and posts nothing.
LEMMA OthersKeep ==
    ASSUME SigningInv, offered' = offered, draft' = draft, posted' \subseteq posted
    PROVE  SigningInv'
BY DEF SigningInv, OffersInv, DraftInv, PostedIsSigned, SignedByOwners

LEMMA SigningStep == SigningInv /\ [ApiNext]_allVars => SigningInv'
<1> SUFFICES ASSUME SigningInv, [ApiNext]_allVars PROVE SigningInv'
  OBVIOUS
<1>1. CASE Next /\ UNCHANGED api
  BY <1>1, OthersKeep DEF api
<1>2. ASSUME NEW c \in Clients, NEW amount \in Amounts, GetUtxo(c, amount)
      PROVE  SigningInv'
  BY <1>2, GetUtxoKeeps
<1>3. ASSUME NEW t \in Txs, NEW c \in Clients,
             BuildAndPost(t, c) \/ \E d \in Clients : DraftTransfer(t, c, d)
      PROVE  SigningInv'
  BY <1>3, BuildAndPostKeeps, DraftTransferKeeps
<1>4. CASE TokenRecieve
  BY <1>4, TokenRecieveKeeps
<1>5. ASSUME NEW p \in posted, SendTransaction(p)
      PROVE  SigningInv'
  <2>1. offered' = offered /\ draft' = draft /\ posted' \subseteq posted
    BY <1>5 DEF SendTransaction
  <2> QED
    BY <2>1, OthersKeep
<1>6. CASE DeleteUtxo \/ Answer \/ Restart
  BY <1>6, OthersKeep DEF DeleteUtxo, Answer, Restart
<1>7. CASE UNCHANGED allVars
  BY <1>7, OthersKeep DEF allVars, api
<1> QED
  BY <1>1, <1>2, <1>3, <1>4, <1>5, <1>6, <1>7 DEF ApiNext

\* Whatever reaches contractd is signed, input by input, by the owner of the coin
\* (HandlerCli::TokenSend, TokenRecieve, ContractObject::SignTransaction).
THEOREM PostedAlwaysSigned == ApiSpec => []PostedIsSigned
<1>1. ApiInit => SigningInv
  BY DEF ApiInit, SigningInv, OffersInv, DraftInv, PostedIsSigned
<1>2. SigningInv => PostedIsSigned
  BY DEF SigningInv
<1> QED
  BY <1>1, <1>2, SigningStep, PTL DEF ApiSpec

-----------------------------------------------------------------------------
(* Two writers of the table *)

\* The outputs that clients and contractd handle are those scanblock tracks, and a
\* transaction is being sent because the node has it.
ApiTypeInv ==
    /\ draft # NoDraft => Spends(draft.tx) \subseteq Outpoints
    /\ \A p \in posted : p.tx \in Txs /\ Spends(p.tx) \subseteq Outpoints
    /\ sending # Idle =>
         /\ sending = [tx |-> sending.tx, todo |-> sending.todo]
         /\ sending.tx \in Txs /\ sending.tx \in OnChain \cup mempool
         /\ Spends(sending.tx) \subseteq Outpoints
         /\ sending.todo \subseteq Spends(sending.tx)
    /\ spent \subseteq Outpoints

\* Whatever was ever offered comes from a transaction scanblock is done with: no
\* flush to come inserts its rows again.
AllFlushed(coins) == \A o \in coins : Flushed(o[1])

CoinsInv ==
    crashes = 0 =>
        /\ \A o \in Outpoints : utxo[o] > 0 => Flushed(o[1])
        /\ \A c \in Clients : AllFlushed(offered[c])
        /\ draft # NoDraft => AllFlushed(Spends(draft.tx))
        /\ \A p \in posted : AllFlushed(Spends(p.tx))
        /\ sending # Idle => AllFlushed(Spends(sending.tx))
        /\ AllFlushed(spent)

\* The rows deleted so far stay away.
GoneInv ==
    /\ sending # Idle => \A o \in Spends(sending.tx) \ sending.todo : utxo[o] = 0
    /\ SpentNotOffered

\* No row of a coin that is still there is missing.
KeptInv ==
    crashes = 0 =>
        \A o \in Outpoints :
            Flushed(o[1]) /\ (\A u \in OnChain \cup mempool : o \notin Spends(u)) => utxo[o] > 0


\* What the calls and the clients change of scanblock's world: the node may take a
\* transaction, a row may be deleted.
ApiOnly ==
    /\ UNCHANGED <<chain, txinfo, wallet, pc, scan, memory, response, answered, crashes>>
    /\ \/ mempool' = mempool
       \/ \E t \in Txs : Accepts(t) /\ mempool' = mempool \cup {t}
    /\ utxo' = utxo \/ \E o \in sending.todo : utxo' = [utxo EXCEPT ![o] = 0]

LEMMA ApiOnlySteps ==
    ASSUME ApiTypeInv, [ApiNext]_allVars, ~ (Next /\ UNCHANGED api)
    PROVE  ApiOnly
<1>1. CASE UNCHANGED vars
  BY <1>1 DEF ApiOnly, vars, node, db
<1>2. ASSUME NEW p \in posted, SendTransaction(p)
      PROVE  ApiOnly
  BY <1>2 DEF ApiTypeInv, SendTransaction, ApiOnly, db
<1>3. CASE DeleteUtxo
  BY <1>3 DEF DeleteUtxo, ApiOnly, node
<1>4. ASSUME NEW c \in Clients, NEW amount \in Amounts, GetUtxo(c, amount)
      PROVE  UNCHANGED vars
  BY <1>4 DEF GetUtxo
<1>5. ASSUME NEW t \in Txs, NEW c \in Clients,
             BuildAndPost(t, c) \/ \E d \in Clients : DraftTransfer(t, c, d)
      PROVE  UNCHANGED vars
  BY <1>5 DEF BuildAndPost, DraftTransfer
<1>6. CASE TokenRecieve \/ Answer \/ Restart
  BY <1>1, <1>6 DEF TokenRecieve, Answer, Restart
<1>7. CASE UNCHANGED allVars
  BY <1>1, <1>7 DEF allVars
<1> QED
  BY <1>1, <1>2, <1>3, <1>4, <1>5, <1>6, <1>7 DEF ApiNext

LEMMA ApiOnlyKeeps ==
    ASSUME TypeInv, IInv, FirstRunInv, ApiOnly
    PROVE  /\ TypeInv' /\ IInv' /\ FirstRunInv' /\ NodeGrows /\ crashes' = crashes
           /\ \A t \in Txs : Flushed(t)' <=> Flushed(t)
<1>1. UNCHANGED <<chain, txinfo, wallet, pc, filter_type, pre_block_height, current_height,
                  json_txs, json_pool, vect_tx_, vect_mempool_tx_, vect_utxo_, vect_insert,
                  answering, rows, answered, crashes>>
  BY DEF ApiOnly, scan, memory, response
<1>2. TypeOK'
  <2>1. mempool' \subseteq Txs
    BY DEF TypeInv, TypeOK, ApiOnly
  <2>2. utxo' \in [Outpoints -> Nat]
    <3>1. utxo \in [Outpoints -> Nat]
      BY DEF TypeInv, TypeOK
    <3>2. utxo' = utxo \/ \E o : utxo' = [utxo EXCEPT ![o] = 0]
      BY DEF ApiOnly
    <3> QED
      BY <3>1, <3>2
  <2> QED
    BY <1>1, <2>1, <2>2 DEF TypeInv, TypeOK
<1>3. TypeInv'
  BY <1>1, <1>2 DEF TypeInv, BoundInv
<1>4. NodeInv'
  <2>1. CASE mempool' = mempool
    BY <1>1, <2>1, NodeUnchanged DEF IInv
  <2>2. CASE \E t \in Txs : Accepts(t) /\ mempool' = mempool \cup {t}
    BY <1>1, <2>2, NodeAfterSubmit DEF IInv
  <2> QED
    BY <2>1, <2>2 DEF ApiOnly
<1>5. ChainGrows
  BY <1>1, MinedWhenUnchanged DEF ChainGrows
<1>6. PhaseInv'
  BY <1>1 DEF IInv, PhaseInv
<1>7. IInv'
  BY <1>1, <1>3, <1>4, <1>5, <1>6, PhaseStep
<1>8. FirstRunInv' /\ \A t \in Txs : Flushed(t)' <=> Flushed(t)
  BY <1>1, NothingMoves
<1>9. NodeGrows
  BY <1>1 DEF ApiOnly, NodeGrows, OnChain, RangeOf
<1> QED
  BY <1>1, <1>3, <1>7, <1>8, <1>9

\* A flush is the only step of scanblock that writes the table.
LEMMA TableWriters ==
    ASSUME [Next]_vars
    PROVE  FlushUtxo \/ utxo' = utxo
BY DEF Next, Loop, Environment, GetBlockCount, GetBlock, ReadBlockTx, BlocksDone,
   GetRawMempool, ReadMempoolTx, MempoolDone, FlushUpdate, FlushInsert, FlushThrows, Reply,
   InsertRow, Commit, Start, Crash, Submit, Mine, vars, db

\* What scanblock is done with stays done with.
LEMMA FlushedStays ==
    ASSUME MaxCrashes = 0, TypeInv, IInv, FirstRunInv, [Next]_vars, crashes' = 0
    PROVE  crashes = 0 /\ \A t \in Txs : Flushed(t) => Flushed(t)'
<1>1. ~ Crash /\ ~ FlushThrows
  BY MovesTypes DEF Crash, FlushThrows, Die
<1> QED
  BY <1>1, QuietActions, MineMoves, GetBlockMoves, ReadBlockTxMoves, FirstRunQueues,
     FlushUtxoMoves, StartMoves DEF Next, Loop, Environment

LEMMA FlushedOnlyByFlush ==
    ASSUME MaxCrashes = 0, ~ RpcMayFail, TypeInv, IInv, FirstRunInv, [Next]_vars, crashes' = 0
    PROVE  \A t \in Txs : Flushed(t)' => Flushed(t) \/ (FlushUtxo /\ Queued(t))
<1>1. ~ Crash /\ ~ FlushThrows
  BY MovesTypes DEF Crash, FlushThrows, Die
<1> QED
  BY <1>1, QuietActions, MineMoves, GetBlockMoves, ReadBlockTxMoves, FirstRunQueues,
     FlushUtxoMoves, StartMoves DEF Next, Loop, Environment

-----------------------------------------------------------------------------
(* No row comes back *)

\* Scanblock beside an idle contractd.
LEMMA ScanKeepsCoins ==
    ASSUME MaxCrashes = 0, TypeInv, IInv, FirstRunInv, ApiTypeInv, CoinsInv, GoneInv, OffersInv,
           [Next]_vars, UNCHANGED api
    PROVE  ApiTypeInv' /\ CoinsInv' /\ GoneInv'
<1>1. UNCHANGED <<offered, draft, posted, sending, spent>>
  BY DEF api
<1>2. ApiTypeInv'
  <2>1. NodeGrows
    BY NodeForgetsNothing
  <2>2. sending # Idle => sending.tx \in (OnChain \cup mempool)'
    BY <2>1 DEF ApiTypeInv, NodeGrows
  <2> QED
    BY <1>1, <2>2 DEF ApiTypeInv
<1>3. ASSUME NEW o \in Outpoints, FlushUtxo, ~ Queued(o[1])
      PROVE  utxo'[o] \in {0, utxo[o]}
  <2>1. Cardinality(Surviving(vect_utxo_, o)) = 0
    BY <1>3, NoneSurvive
  <2>2. utxo[o] \in Nat
    BY DEF TypeInv, TypeOK
  <2> QED
    BY <1>3, <2>1, <2>2 DEF FlushUtxo
<1>4. CoinsInv'
  <2> SUFFICES ASSUME crashes' = 0
               PROVE  /\ \A o \in Outpoints : utxo'[o] > 0 => Flushed(o[1])'
                      /\ \A c \in Clients : \A o \in offered[c] : Flushed(o[1])'
                      /\ draft # NoDraft => \A o \in Spends(draft.tx) : Flushed(o[1])'
                      /\ \A p \in posted : \A o \in Spends(p.tx) : Flushed(o[1])'
                      /\ sending # Idle => \A o \in Spends(sending.tx) : Flushed(o[1])'
                      /\ \A o \in spent : Flushed(o[1])'
    BY <1>1 DEF CoinsInv, AllFlushed
  <2>1. crashes = 0 /\ \A t \in Txs : Flushed(t) => Flushed(t)'
    BY FlushedStays
  <2>2. ASSUME NEW o \in Outpoints, Flushed(o[1])
        PROVE  Flushed(o[1])'
    <3> PICK t \in Txs : t = o[1]
      BY OutputOfOne
    <3> QED
      BY <2>1, <2>2
  <2>3. ASSUME NEW o \in Outpoints, utxo'[o] > 0
        PROVE  Flushed(o[1])'
    <3> PICK t \in Txs : t = o[1]
      BY OutputOfOne
    <3>1. CASE Queued(t) /\ FlushUtxo
      BY <3>1, FirstRunQueues, FlushUtxoMoves
    <3>2. CASE ~ (Queued(t) /\ FlushUtxo)
      <4>1. utxo[o] > 0
        BY <1>3, <2>3, <3>2, TableWriters
      <4> QED
        BY <2>1, <2>2, <4>1 DEF CoinsInv
    <3> QED
      BY <3>1, <3>2
  <2> QED
    BY <2>1, <2>2, <2>3 DEF CoinsInv, AllFlushed, ApiTypeInv, OffersInv
<1>5. GoneInv'
  <2>1. ASSUME NEW o \in Outpoints, utxo[o] = 0, crashes = 0 => Flushed(o[1])
        PROVE  utxo'[o] = 0
    <3>1. CASE FlushUtxo
      <4>1. crashes = 0
        BY <3>1 DEF FlushUtxo, FirstRunInv
      <4>2. ~ Queued(o[1])
        BY <2>1, <4>1 DEF Flushed
      <4> QED
        BY <1>3, <2>1, <3>1, <4>2
    <3>2. CASE utxo' = utxo
      BY <2>1, <3>2
    <3> QED
      BY <3>1, <3>2, TableWriters
  <2>2. ASSUME sending # Idle, NEW o \in Spends(sending.tx) \ sending.todo
        PROVE  utxo'[o] = 0
    BY <2>1, <2>2 DEF ApiTypeInv, CoinsInv, AllFlushed, GoneInv
  <2>3. ASSUME NEW o \in spent
        PROVE  utxo'[o] = 0
    BY <2>1, <2>3 DEF ApiTypeInv, CoinsInv, AllFlushed, GoneInv, SpentNotOffered
  <2> QED
    BY <1>1, <2>2, <2>3 DEF GoneInv, SpentNotOffered
<1> QED
  BY <1>2, <1>4, <1>5

\* What the calls leave as it is.
LEMMA ApiOnlyFlushed ==
    ASSUME TypeInv, IInv, FirstRunInv, ApiOnly
    PROVE  /\ crashes' = crashes /\ OnChain \cup mempool \subseteq (OnChain \cup mempool)'
           /\ \A o \in Outpoints : Flushed(o[1])' <=> Flushed(o[1])
<1>1. crashes' = crashes /\ NodeGrows /\ \A t \in Txs : Flushed(t)' <=> Flushed(t)
  BY ApiOnlyKeeps
<1>2. ASSUME NEW o \in Outpoints PROVE Flushed(o[1])' <=> Flushed(o[1])
  <2> PICK t \in Txs : t = o[1]
    BY OutputOfOne
  <2> QED
    BY <1>1
<1> QED
  BY <1>1, <1>2 DEF NodeGrows

ApiInv == ApiTypeInv /\ CoinsInv /\ GoneInv

\* A row that is offered is there.
LEMMA GetUtxoCoins ==
    ASSUME TypeInv, IInv, FirstRunInv, ApiInv, OffersInv, ApiOnly,
           NEW c \in Clients, NEW amount \in Amounts, GetUtxo(c, amount)
    PROVE  ApiInv'
<1>1. UNCHANGED <<draft, posted, sending, spent>> /\ utxo' = utxo
  BY DEF GetUtxo, vars, db
<1>2. PICK rs \in Offers(c, amount) : offered' = [offered EXCEPT ![c] = {r[1] : r \in rs}]
  BY DEF GetUtxo
<1>3. ASSUME NEW r \in rs PROVE r[1] \in Outpoints /\ utxo[r[1]] > 0
  <2>1. r \in RowsOf(c)
    BY <1>2 DEF Offers
  <2>2. PICK o \in {p \in Outpoints : Output(p).addr = c} : r \in {<<o, k>> : k \in 1 .. utxo[o]}
    BY <2>1 DEF RowsOf
  <2>3. PICK k \in 1 .. utxo[o] : r = <<o, k>>
    BY <2>2
  <2>4. utxo[o] \in Nat
    BY <2>2 DEF TypeInv, TypeOK
  <2> QED
    BY <2>2, <2>3, <2>4
<1>4. ApiTypeInv'
  BY <1>1, ApiOnlyFlushed DEF ApiInv, ApiTypeInv
<1>5. CoinsInv'
  <2>1. ASSUME crashes = 0, NEW d \in Clients, NEW o \in offered'[d]
        PROVE  o \in Outpoints /\ Flushed(o[1])
    <3>1. CASE d = c
      <4>1. PICK r \in rs : o = r[1]
        BY <1>2, <2>1, <3>1 DEF OffersInv
      <4> QED
        BY <1>3, <2>1, <4>1 DEF ApiInv, CoinsInv
    <3>2. CASE d # c
      <4>1. o \in offered[d]
        BY <1>2, <2>1, <3>2 DEF OffersInv
      <4> QED
        BY <2>1, <4>1 DEF ApiInv, CoinsInv, AllFlushed, OffersInv
    <3> QED
      BY <3>1, <3>2
  <2> QED
    BY <1>1, <2>1, ApiOnlyFlushed DEF ApiInv, CoinsInv, AllFlushed, ApiTypeInv
<1>6. GoneInv'
  BY <1>1 DEF ApiInv, GoneInv, SpentNotOffered
<1> QED
  BY <1>4, <1>5, <1>6 DEF ApiInv

\* A transaction built from offered coins.
LEMMA BuildAndPostCoins ==
    ASSUME TypeInv, IInv, FirstRunInv, ApiInv, OffersInv, ApiOnly,
           NEW t \in Txs, NEW c \in Clients, BuildAndPost(t, c)
    PROVE  ApiInv'
<1> PICK signer : signer = CreateTransaction(Len(Vin[t]), Inputs(t), c)
  OBVIOUS
<1>1. /\ UNCHANGED <<offered, draft, sending, spent>> /\ utxo' = utxo
      /\ posted' = posted \cup {[tx |-> t, signer |-> signer]}
      /\ Spends(t) = offered[c]
  BY DEF BuildAndPost, vars, db
<1>2. Spends(t) \subseteq Outpoints
  BY <1>1 DEF OffersInv
<1>3. \A p \in posted' : p \in posted \/ p.tx = t
  BY <1>1
<1>4. ApiTypeInv'
  BY <1>1, <1>2, <1>3, ApiOnlyFlushed DEF ApiInv, ApiTypeInv
<1>5. CoinsInv'
  <2>1. crashes = 0 => AllFlushed(Spends(t))
    BY <1>1 DEF ApiInv, CoinsInv
  <2> QED
    BY <1>1, <1>2, <1>3, <2>1, ApiOnlyFlushed DEF ApiInv, CoinsInv, AllFlushed, ApiTypeInv, OffersInv
<1>6. GoneInv'
  BY <1>1 DEF ApiInv, GoneInv, SpentNotOffered
<1> QED
  BY <1>4, <1>5, <1>6 DEF ApiInv

LEMMA DraftTransferCoins ==
    ASSUME TypeInv, IInv, FirstRunInv, ApiInv, OffersInv, ApiOnly,
           NEW t \in Txs, NEW c \in Clients, NEW d \in Clients, DraftTransfer(t, c, d)
    PROVE  ApiInv'
<1> PICK mine : mine = 1 .. Cardinality(offered[c])
  OBVIOUS
<1>1. /\ UNCHANGED <<offered, posted, sending, spent>> /\ utxo' = utxo
      /\ draft'.tx = t
      /\ OutpointsOf(t, mine) = offered[c] /\ OutpointsOf(t, Inputs(t) \ mine) = offered[d]
  BY DEF DraftTransfer, vars, db
<1>2. Spends(t) \subseteq offered[c] \cup offered[d]
  BY <1>1 DEF Spends, OutpointsOf, Inputs
<1>3. Spends(t) \subseteq Outpoints
  BY <1>2 DEF OffersInv
<1>4. ApiTypeInv'
  BY <1>1, <1>3, ApiOnlyFlushed DEF ApiInv, ApiTypeInv
<1>5. CoinsInv'
  <2>1. crashes = 0 => AllFlushed(Spends(t))
    BY <1>2 DEF ApiInv, CoinsInv, AllFlushed
  <2> QED
    BY <1>1, <1>3, <2>1, ApiOnlyFlushed DEF ApiInv, CoinsInv, AllFlushed, ApiTypeInv, OffersInv
<1>6. GoneInv'
  BY <1>1 DEF ApiInv, GoneInv, SpentNotOffered
<1> QED
  BY <1>4, <1>5, <1>6 DEF ApiInv

LEMMA TokenRecieveCoins ==
    ASSUME TypeInv, IInv, FirstRunInv, ApiInv, OffersInv, DraftInv, ApiOnly, TokenRecieve
    PROVE  ApiInv'
<1> PICK signer : signer = SignTransaction(draft.signer, draft.recv)
  OBVIOUS
<1>1. /\ UNCHANGED <<offered, draft, sending, spent>> /\ utxo' = utxo
      /\ posted' = posted \cup {[tx |-> draft.tx, signer |-> signer]}
      /\ draft.tx \in Txs /\ draft # NoDraft
  BY DEF TokenRecieve, DraftInv, vars, db
<1>2. \A p \in posted' : p \in posted \/ p.tx = draft.tx
  BY <1>1
<1>3. ApiTypeInv'
  BY <1>1, <1>2, ApiOnlyFlushed DEF ApiInv, ApiTypeInv
<1>4. CoinsInv'
  BY <1>1, <1>2, ApiOnlyFlushed DEF ApiInv, CoinsInv, AllFlushed, ApiTypeInv, OffersInv
<1>5. GoneInv'
  BY <1>1 DEF ApiInv, GoneInv, SpentNotOffered
<1> QED
  BY <1>3, <1>4, <1>5 DEF ApiInv

LEMMA SendTransactionCoins ==
    ASSUME TypeInv, IInv, FirstRunInv, ApiInv, OffersInv, ApiOnly,
           NEW p \in posted, SendTransaction(p)
    PROVE  ApiInv'
<1>1. /\ UNCHANGED <<offered, draft, spent>> /\ utxo' = utxo /\ chain' = chain
      /\ posted' \subseteq posted /\ sending = Idle
      /\ \/ UNCHANGED sending
         \/ /\ sending' = [tx |-> p.tx, todo |-> Spends(p.tx)]
            /\ mempool' = mempool \cup {p.tx}
  BY DEF SendTransaction, db
<1>2. p.tx \in Txs /\ Spends(p.tx) \subseteq Outpoints
  BY DEF ApiInv, ApiTypeInv
<1>3. ApiTypeInv'
  <2>1. /\ draft' # NoDraft => Spends(draft'.tx) \subseteq Outpoints
        /\ \A q \in posted' : q.tx \in Txs /\ Spends(q.tx) \subseteq Outpoints
        /\ spent' \subseteq Outpoints
    BY <1>1 DEF ApiInv, ApiTypeInv
  <2>2. sending' # Idle =>
          /\ sending' = [tx |-> sending'.tx, todo |-> sending'.todo]
          /\ sending'.tx \in Txs /\ sending'.tx \in (OnChain \cup mempool)'
          /\ Spends(sending'.tx) \subseteq Outpoints
          /\ sending'.todo \subseteq Spends(sending'.tx)
    BY <1>1, <1>2
  <2> QED
    BY <2>1, <2>2 DEF ApiTypeInv
<1>4. CoinsInv'
  <2>1. crashes = 0 => AllFlushed(Spends(p.tx))
    BY DEF ApiInv, CoinsInv
  <2>2. sending' # Idle => sending'.tx = p.tx
    BY <1>1
  <2> QED
    BY <1>1, <1>2, <2>1, <2>2, ApiOnlyFlushed DEF ApiInv, CoinsInv, AllFlushed, ApiTypeInv, OffersInv
<1>5. GoneInv'
  <2>1. sending' # Idle => Spends(sending'.tx) \ sending'.todo = {}
    BY <1>1
  <2> QED
    BY <1>1, <2>1 DEF ApiInv, GoneInv, SpentNotOffered
<1> QED
  BY <1>3, <1>4, <1>5 DEF ApiInv

LEMMA DeleteUtxoCoins ==
    ASSUME TypeInv, IInv, FirstRunInv, ApiInv, OffersInv, ApiOnly, DeleteUtxo
    PROVE  ApiInv'
<1>1. PICK o \in sending.todo :
         /\ utxo' = [utxo EXCEPT ![o] = 0]
         /\ sending' = [sending EXCEPT !.todo = @ \ {o}]
  BY DEF DeleteUtxo
<1>2. UNCHANGED <<offered, draft, posted, spent>>
  BY DEF DeleteUtxo
<1>3. /\ sending # Idle /\ sending = [tx |-> sending.tx, todo |-> sending.todo]
      /\ sending.tx \in Txs /\ sending.tx \in OnChain \cup mempool
      /\ Spends(sending.tx) \subseteq Outpoints /\ sending.todo \subseteq Spends(sending.tx)
  <2>1. sending # Idle
    BY <1>1 DEF Idle
  <2> QED
    BY <2>1 DEF ApiInv, ApiTypeInv
<1>4. /\ sending' = [tx |-> sending'.tx, todo |-> sending'.todo]
      /\ sending'.tx = sending.tx /\ sending'.todo = sending.todo \ {o}
  BY <1>1, <1>3
<1>5. o \in Outpoints /\ utxo'[o] = 0 /\ \A q \in Outpoints : q # o => utxo'[q] = utxo[q]
  BY <1>1, <1>3 DEF TypeInv, TypeOK
<1>6. ApiTypeInv'
  BY <1>2, <1>3, <1>4, ApiOnlyFlushed DEF ApiInv, ApiTypeInv
<1>7. CoinsInv'
  BY <1>2, <1>3, <1>4, <1>5, ApiOnlyFlushed DEF ApiInv, CoinsInv, AllFlushed, ApiTypeInv, OffersInv
<1>8. GoneInv'
  <2>1. \A q \in Spends(sending.tx) \ sending.todo : utxo[q] = 0
    BY <1>3 DEF ApiInv, GoneInv
  <2>2. \A q \in Spends(sending'.tx) \ sending'.todo : utxo'[q] = 0
    BY <1>3, <1>4, <1>5, <2>1
  <2>3. \A q \in spent : utxo'[q] = 0
    BY <1>5 DEF ApiInv, ApiTypeInv, GoneInv, SpentNotOffered
  <2> QED
    BY <1>2, <2>2, <2>3 DEF GoneInv, SpentNotOffered
<1> QED
  BY <1>6, <1>7, <1>8 DEF ApiInv

LEMMA AnswerCoins ==
    ASSUME TypeInv, IInv, FirstRunInv, ApiInv, OffersInv, ApiOnly, Answer \/ Restart
    PROVE  ApiInv'
<1>1. /\ UNCHANGED <<offered, draft, posted>> /\ utxo' = utxo
      /\ sending # Idle /\ sending' = Idle
      /\ spent' = spent \/ (sending.todo = {} /\ spent' = spent \cup Spends(sending.tx))
  BY DEF Answer, Restart, vars, db
<1>2. Spends(sending.tx) \subseteq Outpoints
  BY <1>1 DEF ApiInv, ApiTypeInv
<1>3. ApiTypeInv'
  BY <1>1, <1>2 DEF ApiInv, ApiTypeInv
<1>4. CoinsInv'
  BY <1>1, <1>2, ApiOnlyFlushed DEF ApiInv, CoinsInv, AllFlushed, ApiTypeInv, OffersInv
<1>5. GoneInv'
  BY <1>1 DEF ApiInv, GoneInv, SpentNotOffered
<1> QED
  BY <1>3, <1>4, <1>5 DEF ApiInv

LEMMA ApiStep ==
    ASSUME MaxCrashes = 0, TypeInv, IInv, FirstRunInv, ApiInv, SigningInv, [ApiNext]_allVars
    PROVE  TypeInv' /\ IInv' /\ FirstRunInv' /\ ApiInv'
<1>1. OffersInv /\ DraftInv
  BY DEF SigningInv
<1>2. CASE Next /\ UNCHANGED api
  BY <1>1, <1>2, TypeStep, StepInv, FirstRunStep, ScanKeepsCoins DEF ApiInv
<1>3. CASE ~ (Next /\ UNCHANGED api)
  <2>1. ApiOnly
    BY <1>3, ApiOnlySteps DEF ApiInv
  <2>2. TypeInv' /\ IInv' /\ FirstRunInv'
    BY <2>1, ApiOnlyKeeps
  <2>3. ASSUME UNCHANGED allVars PROVE ApiInv'
    <3>1. ApiTypeInv'
      BY <2>1, <2>3, ApiOnlyFlushed DEF ApiInv, ApiTypeInv, allVars, api
    <3>a. UNCHANGED <<offered, draft, posted, sending, spent, utxo>>
      BY <2>3 DEF allVars, api, vars, db
    <3>2. CoinsInv'
      BY <1>1, <2>1, <3>a, ApiOnlyFlushed
         DEF ApiInv, CoinsInv, AllFlushed, ApiTypeInv, OffersInv
    <3>3. GoneInv'
      BY <2>3 DEF ApiInv, GoneInv, SpentNotOffered, allVars, api, vars, db
    <3> QED
      BY <3>1, <3>2, <3>3 DEF ApiInv
  <2>4. ApiInv'
    BY <1>1, <1>3, <2>1, <2>3, GetUtxoCoins, BuildAndPostCoins, DraftTransferCoins,
       TokenRecieveCoins, SendTransactionCoins, DeleteUtxoCoins, AnswerCoins DEF ApiNext
  <2> QED
    BY <2>2, <2>4
<1> QED
  BY <1>2, <1>3

LEMMA ApiInitInv == ApiInit => ApiInv
<1> SUFFICES ASSUME ApiInit PROVE ApiInv
  OBVIOUS
<1>1. \A o \in Outpoints : utxo[o] = 0
  BY DEF ApiInit, Init
<1> QED
  BY <1>1 DEF ApiInit, ApiInv, ApiTypeInv, CoinsInv, AllFlushed, GoneInv, SpentNotOffered

LEMMA SigningInit == ApiInit => SigningInv
BY DEF ApiInit, SigningInv, OffersInv, DraftInv, PostedIsSigned

\* As long as scanblock is not restarted, no row of an output whose spending was
\* answered with success is there again, whatever scanblock flushes later, however
\* many RPC calls fail and in whatever order a block lists its transactions
\* (Handler::SendTransaction, DeleteUtxo and FlushUtxoToDB).
THEOREM SpentStaysSpent == MaxCrashes = 0 => (ApiSpec => []SpentNotOffered)
<1> SUFFICES ASSUME MaxCrashes = 0 PROVE ApiSpec => []SpentNotOffered
  OBVIOUS
<1> DEFINE Inv == TypeInv /\ IInv /\ FirstRunInv /\ ApiInv /\ SigningInv
<1>1. ApiInit => Inv
  BY TypeInit, InitInv, FirstRunInit, ApiInitInv, SigningInit DEF ApiInit
<1>2. Inv /\ [ApiNext]_allVars => Inv'
  BY ApiStep, SigningStep
<1>3. Inv => SpentNotOffered
  BY DEF ApiInv, GoneInv
<1> QED
  BY <1>1, <1>2, <1>3, PTL DEF ApiSpec

-----------------------------------------------------------------------------
(* No coin is lost *)

\* An output nobody spends, before a step that keeps what the node has.
LEMMA UnspentBefore ==
    ASSUME OnChain \cup mempool \subseteq (OnChain \cup mempool)', NEW o,
           \A u \in (OnChain \cup mempool)' : o \notin Spends(u)
    PROVE  \A u \in OnChain \cup mempool : o \notin Spends(u)
OBVIOUS

\* A flush inserts the rows of what it holds and deletes those of spent coins only.
LEMMA FlushUtxoKeepsCoins ==
    ASSUME TypeInv, IInv, FirstRunInv, FlushUtxo, NEW o \in Outpoints,
           \A u \in OnChain \cup mempool : o \notin Spends(u),
           Queued(o[1]) \/ utxo[o] > 0
    PROVE  utxo'[o] > 0
<1>1. \A i \in 1 .. Len(vect_utxo_) : vect_utxo_[i] \in Txs
  BY MovesTypes, ElementOfSeq
<1>2. ~ Deleted(vect_utxo_, o) /\ \A i \in 1 .. Len(vect_utxo_) : o \notin Spends(vect_utxo_[i])
  <2> SUFFICES ASSUME NEW i \in 1 .. Len(vect_utxo_) PROVE vect_utxo_[i] \in OnChain
    BY DEF Deleted
  <2>1. vect_utxo_[i] \in ScannedTxs
    BY <1>1 DEF FirstRunInv, QueuedInv, Queued
  <2> QED
    BY <2>1, MinedLeftMempool DEF ScannedTxs, IInv
<1>3. utxo'[o] = utxo[o] + Cardinality(Surviving(vect_utxo_, o)) /\ utxo[o] \in Nat
  BY <1>2 DEF FlushUtxo, TypeInv, TypeOK
<1>4. Cardinality(Surviving(vect_utxo_, o)) \in Nat
  BY SurvivingCount, MovesTypes
<1>5. CASE Queued(o[1])
  <2>1. PICK i \in 1 .. Len(vect_utxo_) : vect_utxo_[i] = o[1]
    BY <1>5 DEF Queued
  <2>2. i \in Surviving(vect_utxo_, o)
    BY <1>1, <1>2, <2>1, OutputOfOne DEF Surviving
  <2>3. IsFiniteSet(Surviving(vect_utxo_, o))
    <3>1. IsFiniteSet(1 .. Len(vect_utxo_)) /\ Surviving(vect_utxo_, o) \subseteq 1 .. Len(vect_utxo_)
      BY MovesTypes, FS_Interval DEF Surviving
    <3> QED
      BY <3>1, FS_Subset
  <2>4. Cardinality(Surviving(vect_utxo_, o)) # 0
    BY <2>2, <2>3, FS_EmptySet
  <2> QED
    BY <1>3, <1>4, <2>4
<1>6. CASE utxo[o] > 0
  BY <1>3, <1>4, <1>6
<1> QED
  BY <1>5, <1>6

LEMMA ScanLosesNothing ==
    ASSUME MaxCrashes = 0, ~ RpcMayFail, TypeInv, IInv, FirstRunInv, KeptInv, [Next]_vars
    PROVE  KeptInv'
<1> SUFFICES ASSUME crashes' = 0, NEW o \in Outpoints, Flushed(o[1])',
                    \A u \in (OnChain \cup mempool)' : o \notin Spends(u)
             PROVE  utxo'[o] > 0
  BY DEF KeptInv
<1>1. \A u \in OnChain \cup mempool : o \notin Spends(u)
  BY NodeForgetsNothing, UnspentBefore DEF NodeGrows
<1> PICK t \in Txs : t = o[1]
  BY OutputOfOne
<1>2. crashes = 0 /\ (Flushed(t) \/ (FlushUtxo /\ Queued(t)))
  BY FlushedStays, FlushedOnlyByFlush
<1>3. Flushed(t) => utxo[o] > 0
  BY <1>1, <1>2 DEF KeptInv
<1>4. CASE FlushUtxo
  BY <1>1, <1>2, <1>3, <1>4, FlushUtxoKeepsCoins
<1>5. CASE ~ FlushUtxo
  BY <1>2, <1>3, <1>5, TableWriters
<1> QED
  BY <1>4, <1>5

\* contractd deletes rows of coins that a transaction of the node spends.
LEMMA ApiLosesNothing ==
    ASSUME TypeInv, IInv, FirstRunInv, ApiTypeInv, KeptInv, ApiOnly
    PROVE  KeptInv'
<1> SUFFICES ASSUME crashes' = 0, NEW o \in Outpoints, Flushed(o[1])',
                    \A u \in (OnChain \cup mempool)' : o \notin Spends(u)
             PROVE  utxo'[o] > 0
  BY DEF KeptInv
<1>1. \A u \in OnChain \cup mempool : o \notin Spends(u)
  BY ApiOnlyFlushed, UnspentBefore
<1>2. utxo[o] > 0
  BY <1>1, ApiOnlyFlushed DEF KeptInv
<1>3. o \notin sending.todo
  BY <1>1 DEF ApiTypeInv, Idle
<1>4. utxo \in [Outpoints -> Nat]
  BY DEF TypeInv, TypeOK
<1> QED
  BY <1>2, <1>3, <1>4 DEF ApiOnly

\* As long as scanblock is not restarted and hears every RPC answer, no coin is
\* lost: an output of a scanned block that no transaction of the node spends has a
\* row at the head of the loop, in whatever order a block lists its transactions
\* and whatever became of the SendTransactions that named it.
THEOREM NoCoinLost == MaxCrashes = 0 /\ ~ RpcMayFail => (ApiSpec => []CoinsNotLost)
<1> SUFFICES ASSUME MaxCrashes = 0, ~ RpcMayFail PROVE ApiSpec => []CoinsNotLost
  OBVIOUS
<1> DEFINE Inv == TypeInv /\ IInv /\ FirstRunInv /\ ApiInv /\ SigningInv /\ KeptInv
<1>1. ApiInit => Inv
  <2>1. ApiInit => KeptInv
    <3> SUFFICES ASSUME ApiInit, NEW o \in Outpoints PROVE ~ Flushed(o[1])
      BY DEF KeptInv
    <3> QED
      BY DEF ApiInit, Init, Flushed, ScannedTxs
  <2> QED
    BY <2>1, TypeInit, InitInv, FirstRunInit, ApiInitInv, SigningInit DEF ApiInit
<1>2. Inv /\ [ApiNext]_allVars => Inv'
  <2> SUFFICES ASSUME Inv, [ApiNext]_allVars PROVE Inv'
    OBVIOUS
  <2>1. KeptInv'
    BY ApiOnlySteps, ScanLosesNothing, ApiLosesNothing DEF ApiInv
  <2> QED
    BY <2>1, ApiStep, SigningStep
<1>3. Inv => CoinsNotLost
  <2> SUFFICES ASSUME Inv, pc = "getblockcount", NEW t \in ScannedTxs, NEW o \in Creates(t),
                      \A u \in OnChain \cup mempool : o \notin Spends(u)
               PROVE  utxo[o] > 0
    BY DEF CoinsNotLost
  <2>1. t \in Txs /\ o \in Outpoints /\ o[1] = t
    BY OutputOfOne DEF ScannedTxs, Outpoints
  <2>2. crashes = 0 /\ Flushed(t)
    BY <2>1, HeadOfLoop
  <2> QED
    BY <2>1, <2>2 DEF KeptInv
<1> QED
  BY <1>1, <1>2, <1>3, PTL DEF ApiSpec
=============================================================================
