------------------------------ MODULE UtxoApi ------------------------------
(***************************************************************************)
(* contractd beside scanblock, and the clients: the HTTP calls /GetUtxo    *)
(* and /SendTransaction (httpserver.cpp, internal/handler.cpp) and what    *)
(* contractcli makes of their answers (internal/handlercli.cpp).           *)
(* contractd offers clients rows of the table utxo that scanblock fills,   *)
(* broadcasts what they build from them and deletes the rows that were     *)
(* spent, so the table has two writers.                                    *)
(*                                                                         *)
(* contractd is one libevent loop: a request is handled to its end before  *)
(* the next one, but scanblock and the node go on in between.  Clients are *)
(* honest: the list of outputs they name is the list of inputs of the      *)
(* transaction, or is missing, and a draft is completed by the one it is   *)
(* for.  They are not prompt: between the answer to GetUtxo, the draft and *)
(* its completion anything may happen to the coins.                        *)
(*                                                                         *)
(* Answers that report an error and change nothing are left out: an amount *)
(* the rows do not cover, a body that is not JSON.                         *)
(***************************************************************************)
EXTENDS ScanBlock, ContractCli

CONSTANTS
    Clients,        \* each by its address
    Amounts,        \* the amounts clients ask for, or agree on
    Fees            \* the fees they choose

ASSUME ClientAssumption ==
    Clients \subseteq Addresses /\ Amounts \subseteq Nat /\ Fees \subseteq Nat

\* An input carries the address of the output it spends.
ASSUME OwnerAssumption ==
    \A t \in Txs : \A i \in 1 .. Len(Vin[t]) :
        LET o == <<Vin[t][i].tx, Vin[t][i].n>>
        IN  o \in Outpoints => Vin[t][i].addr = Output(o).addr

VARIABLES
    offered,        \* the outputs the last GetUtxo of a client answered
    draft,          \* the last T2 a TokenSend printed, and who is to complete it
    posted,         \* transactions sent to contractd and not handled yet
    sending,        \* the SendTransaction under way, and the rows to delete
    spent           \* outputs named by SendTransactions that answered code 0

api == <<offered, draft, posted, sending, spent>>
allVars == <<vars, api>>

Idle == [tx |-> NoTxid, todo |-> {}]
NoDraft == [tx |-> NoTxid, signer |-> << >>, recv |-> NoAddress]

ApiInit ==
    /\ Init
    /\ offered = [c \in Clients |-> {}]
    /\ draft = NoDraft /\ posted = {}
    /\ sending = Idle
    /\ spent = {}

-----------------------------------------------------------------------------
\* The rows of an address; an output has as many as utxo says.
RowsOf(a) == UNION {{<<o, k>> : k \in 1 .. utxo[o]} :
                        o \in {p \in Outpoints : Output(p).addr = a}}

Total(rs) == MapThenSumSet(LAMBDA r : Output(r[1]).value, rs)

\* Rows are taken, in the order the database gives them, until they cover the
\* amount.
Offers(a, amount) ==
    {rs \in SUBSET RowsOf(a) :
        Total(rs) >= amount /\ \E r \in rs : Total(rs \ {r}) < amount}

GetUtxo(c, amount) ==
    /\ sending = Idle
    /\ \E rs \in Offers(c, amount) : offered' = [offered EXCEPT ![c] = {r[1] : r \in rs}]
    /\ UNCHANGED <<vars, draft, posted, sending, spent>>

-----------------------------------------------------------------------------
(* contractcli: each command is a process of its own. *)

OutpointsOf(t, positions) == {<<Vin[t][i].tx, Vin[t][i].n>> : i \in positions}
Inputs(t) == 1 .. Len(Vin[t])
Funds(coins) == Worth(Value, coins)

\* ContractOffer and AssetDefinition: the client spends the coins it was offered.
BuildAndPost(t, c) ==
    /\ Spends(t) = offered[c] /\ Len(Vin[t]) = Cardinality(offered[c])
    /\ \E contract \in Addresses, contract_fee, miner_fee \in Fees :
          PaysExactly(t, BuildTransaction(contract, c, Funds(offered[c]),
                                          contract_fee, miner_fee))
    /\ posted' = posted \cup {[tx |-> t, signer |-> CreateTransaction(Len(Vin[t]), Inputs(t), c)]}
    /\ UNCHANGED <<vars, offered, draft, sending, spent>>

\* TokenSend: the sender's coins come first, and only they are signed.
DraftTransfer(t, c, d) ==
    LET mine == 1 .. Cardinality(offered[c])
    IN  /\ c # d
        /\ Len(Vin[t]) = Cardinality(offered[c]) + Cardinality(offered[d])
        /\ OutpointsOf(t, mine) = offered[c]
        /\ OutpointsOf(t, Inputs(t) \ mine) = offered[d]
        /\ \E contract \in Addresses, currency \in Amounts, contract_fee, miner_fee \in Fees :
              PaysExactly(t, TokenSend(contract, c, d, Funds(offered[c]), Funds(offered[d]),
                                       currency, contract_fee, miner_fee))
        /\ draft' = [tx |-> t, signer |-> CreateTransaction(Len(Vin[t]), mine, c), recv |-> d]
        /\ UNCHANGED <<vars, offered, posted, sending, spent>>

\* TokenRecieve: the receiver signs what is not signed and sends it.
TokenRecieve ==
    /\ draft # NoDraft
    /\ posted' = posted \cup {[tx |-> draft.tx,
                              signer |-> SignTransaction(draft.signer, draft.recv)]}
    /\ UNCHANGED <<vars, offered, draft, sending, spent>>

-----------------------------------------------------------------------------
\* The node checks each signature against the output that is spent.
SignedByOwners(p) == \A i \in Inputs(p.tx) : p.signer[i] = Vin[p.tx][i].addr

\* Handler::SendTransaction up to the node's answer: an error is reported, and
\* nothing deleted, when the node refuses, its answer is lost or the request
\* names no outputs.
BadSendTransaction(p) ==
    /\ sending = Idle /\ posted' = posted \ {p}
    /\ mempool' = IF Accepts(p.tx) /\ SignedByOwners(p) THEN mempool \cup {p.tx} ELSE mempool
    /\ sending' = [tx |-> p.tx, todo |-> Spends(p.tx)]
    /\ UNCHANGED <<chain, db, pc, scan, memory, response, answered, crashes,
                   offered, draft, spent>>
SendTransaction(p) ==
    /\ sending = Idle /\ posted' = posted \ {p}
    /\ IF Accepts(p.tx) /\ SignedByOwners(p)
       THEN /\ mempool' = mempool \cup {p.tx}
            /\ \/ sending' = [tx |-> p.tx, todo |-> Spends(p.tx)]
               \/ UNCHANGED sending
       ELSE UNCHANGED <<mempool, sending>>
    /\ UNCHANGED <<chain, db, pc, scan, memory, response, answered, crashes,
                   offered, draft, spent>>

\* One delete statement for each output named.
BadDeleteUtxo ==
    /\ \E o \in sending.todo :
         /\ utxo' = [utxo EXCEPT ![o] = 0]
         /\ sending' = [sending EXCEPT !.todo = {}]
    /\ UNCHANGED <<node, txinfo, wallet, pc, scan, memory, response, answered, crashes,
                   offered, draft, posted, spent>>
DeleteUtxo ==
    /\ \E o \in sending.todo :
         /\ utxo' = [utxo EXCEPT ![o] = 0]
         /\ sending' = [sending EXCEPT !.todo = @ \ {o}]
    /\ UNCHANGED <<node, txinfo, wallet, pc, scan, memory, response, answered, crashes,
                   offered, draft, posted, spent>>

Answer ==
    /\ sending # Idle /\ sending.todo = {}
    /\ spent' = spent \cup Spends(sending.tx)
    /\ sending' = Idle
    /\ UNCHANGED <<vars, offered, draft, posted>>

\* contractd is killed and started again; it keeps nothing of its own.
Restart ==
    /\ sending # Idle
    /\ sending' = Idle
    /\ UNCHANGED <<vars, offered, draft, posted, spent>>

ApiNext ==
    \/ Next /\ UNCHANGED api
    \/ \E c \in Clients, amount \in Amounts : GetUtxo(c, amount)
    \/ \E t \in Txs, c \in Clients :
          \/ BuildAndPost(t, c)
          \/ \E d \in Clients : DraftTransfer(t, c, d)
    \/ TokenRecieve
    \/ \E p \in posted : SendTransaction(p)
    \/ DeleteUtxo \/ Answer \/ Restart

ApiSpec == ApiInit /\ [][ApiNext]_allVars

-----------------------------------------------------------------------------
\* Whatever reaches contractd is signed, input by input, by the owner of the
\* coin, however old the draft and whoever signed first: TokenRecieve does not
\* sign over what TokenSend signed, and TokenSend leaves it nothing else to sign.
PostedIsSigned == \A p \in posted : SignedByOwners(p)

\* What PostedIsSigned rests on: a client is offered its own coins, and a draft is
\* signed by their owners but for the coins of the one who is to complete it.
OffersInv ==
    /\ DOMAIN offered = Clients
    /\ \A c \in Clients : \A o \in offered[c] : o \in Outpoints /\ Output(o).addr = c
DraftInv ==
    draft # NoDraft =>
        /\ draft.tx \in Txs /\ DOMAIN draft.signer = Inputs(draft.tx)
        /\ \A i \in Inputs(draft.tx) :
              \/ draft.signer[i] = Vin[draft.tx][i].addr
              \/ draft.signer[i] = NoAddress /\ Vin[draft.tx][i].addr = draft.recv

\* As long as scanblock is not restarted, an output whose spending was answered
\* with success has no row any more, whatever scanblock flushes later, so no
\* GetUtxo offers it again.
SpentNotOffered == \A o \in spent : utxo[o] = 0

\* As long as scanblock is not restarted and hears every RPC answer, no coin is
\* lost: at the head of its loop an output of a scanned block that no transaction
\* of the node spends has a row, whatever became of the SendTransactions that
\* named it.
CoinsNotLost ==
    pc = "getblockcount" =>
        \A t \in ScannedTxs : \A o \in Creates(t) :
            (\A u \in OnChain \cup mempool : o \notin Spends(u)) => utxo[o] > 0
=============================================================================
