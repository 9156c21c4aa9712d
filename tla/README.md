# A TLA+ development of token_contract

token_contract issues and transfers tokens on Bitcoin Cash. A token transaction
carries its operation in an OP_RETURN output; a contract operator runs two
daemons beside a full node and a MySQL database, clients run a command line tool.
This directory holds TLA+ modules of that system, TLC configurations that check
them on small instances and TLAPS proofs of what matters most. File and line
references are to `src/`.

## 1. The system

| Component | Code | State | Operations |
|---|---|---|---|
| **scanblock** | `scanblock.cpp`, `parsetx.cpp`, `internal/handlerscan.cpp` | in memory: height scanned, queues of transactions, list of unconfirmed txids; in MySQL: `txinfo`, `wallet_info`, `utxo` | an endless loop: read blocks, flush, read the mempool, flush, flush `utxo`; answer the requests it meets |
| **contractd** | `contractd.cpp`, `httpserver.cpp`, `internal/handler.cpp` | none of its own; reads and writes the same database | `/GetUtxo`, `/SendTransaction`, `/QueryBalance`, one request at a time |
| **contractcli** | `contractcli.cpp`, `internal/handlercli.cpp`, `contract/contractobject.cpp` | a global URL | build and sign C1, A1, T2; second signature of a T2 |
| **balances** | `internal/handler.cpp` (`QueryBalance`, `FlushToDB`) | `wallet_info`, append only | append a row; derive a balance from the rows |
| **OP_RETURN codec** | `contract/contract.cpp`, `contract_machine/action.cpp` | none | write and read the six payload formats |
| **coin selection** | `internal/handler.cpp` (`CreateTransaction`), `internal/handlerscan.cpp` (`CreateTransactionT4`) | the node's unspent outputs | choose coins, change, sign and send a reply |
| **database access** | `data/db_mysql.cpp` | a connection | autocommitted statement, batch in one transaction, select |
| **contract machine** | `contract_machine/machinestack.cpp`, `contractparse.cpp` | two stacks | parse an input into op codes and data, run the codes; no program calls it |
| **asset payloads** | `contract_machine/assettypes.cpp` | none | write and read the payload of an asset type; only a test case that is commented out calls them |
| `designcontract.cpp`, `txparse.cpp`, `ActionsToBlockChainTxs` | | members | setters, fixed transactions; no program calls them |
| start-up, RPC transport | `init.cpp`, `common/util.cpp` | configuration | options, `CurlPost` |

The protocol: a client sends a **C1** (contract offer) or **A1** (asset definition)
to the contract's address, or two clients sign a **T2** (transfer) that pays it.
scanblock of the contract's operator sees the request in the mempool or in a
block, inserts it into `txinfo` and answers with **C2**, **A2** or **T4**; A2 and
T4 come with rows of `wallet_info`, the book of who holds what. scanblock of any
other node that owns an address of a T4 copies the holdings the T4 states.

Interaction: scanblock and contractd share the database and the node, not
memory. scanblock polls the node by RPC; every RPC call may fail, and what a
failure does differs from call to call (skip a block, skip a transaction, drop an
answer, throw and end the process).

### What is hard, and what is right

* *Restarts.* Replies and `wallet_info` rows are out before the `txinfo` rows of a
  flush are committed, and `utxo` is written after both. scanblock resumes from
  the highest height in `txinfo`. Right: a recorded request is never answered
  again, one run answers it at most once, nothing below the resume height is
  missing, no settlement creates tokens however often it is repeated.
* *Mempool before block.* A transaction is usually seen twice; INSERT or UPDATE is
  decided from a list in memory. Right: that list and `txinfo` agree.
* *Several requests in one flush.* Each settlement must see the rows the previous
  one wrote. Right: the book follows an abstract ledger.
* *Two writers of `utxo`.* Right: the table lists exactly the unspent outputs of
  the blocks scanned; with contractd beside it, no coin is lost and none is offered
  after it was spent with success.
* *Parties guessed from outputs.* A T2 or T4 does not name its parties; they are
  derived from inputs, outputs and the fee address. Right: they are the parties.
* *Coins of requests.* The contract has no coins of its own: a reply is funded from
  what requests paid it, confirmed or not, and takes any of it. Right: a transfer's
  money comes back to its parties, whoever takes it first is known, and a reply
  leaves to the miner what it says.
* *Two signers.* The sender of tokens signs a draft in part, the receiver completes it
  later. Right: whatever is sent is signed by the owners of its coins.
* *Fixed offsets.* The writer appends, the reader cuts. Right: what is read is what
  was written, and a truncated payload is refused.
* *Numbers.* `uint64_t` sums without checks, `std::stoi` on stored quantities, an
  `int` height passed as `uint64_t`.

`PROJECT.json` lists every hazard at its line, with the property that would catch it.

## 2. Modules

| Module | Models | Uses |
|---|---|---|
| `WalletInfo` | rows of `wallet_info`, `QueryBalance`, `QueryContract` | |
| `TxRoles` | the parties of a T2 and a T4, the currency of a T2 | |
| `CoinSelection` | which coins a reply takes and whom it pays | |
| `OpReturn` | writer and reader of the OP_RETURN payloads, op codes as text | |
| `AssetTypes` | writer and reader of the payload of an asset type | `OpReturn` |
| `ContractMachine` | parser, stacks and interpreter of the contract machine | |
| `ContractCli` | what contractcli builds, prints and signs | `TxRoles` |
| `ScanBlock` | the scanblock process, the node and the database | `WalletInfo`, `TxRoles`, `CoinSelection` |
| `TokenLedger` | abstract: holdings of the parties of this operator's contracts | |
| `ScanBlockLedger` | the refinement mapping from `ScanBlock` to `TokenLedger` | `ScanBlock`, `TokenLedger` |
| `UtxoApi` | contractd and clients beside scanblock | `ScanBlock`, `ContractCli` |
| `MCScanBlock`, `MCUtxoApi`, `MCPure` | instances for TLC | |
| `ScanBlockTypes`, `ScanBlockProofs` | theorems: types, responses | `ScanBlock` |
| `DatabaseProofs` | theorems: `txinfo` and `utxo` against the chain, over one run and over many | `ScanBlockProofs` |
| `WalletInfoProofs` | theorems: the queries on `wallet_info` | `WalletInfo` |
| `CoinSelectionProofs` | theorems: sums of coins, funding a reply | `CoinSelection` |
| `LedgerProofs` | theorems: the refinement, sums of holdings, what is recorded and booked, unreadable holdings, the money of a transfer | `ScanBlockLedger`, `ScanBlockProofs`, `CoinSelectionProofs` |
| `UtxoApiProofs` | theorems: signatures, coins offered and lost | `UtxoApi`, `DatabaseProofs` |
| `PureProofs` | theorems: what `pure` checks, for inputs of any size | `MCPure`, `WalletInfoProofs`, `CoinSelectionProofs` |

Definitions named `Bad...` or `Worse...` are faulty variants of the definition
after them (a dropped guard, a missing reset). Nothing uses them; substituting
one must break the property it is paired with.

### ScanBlock

Variables are in three groups: the node (`chain`, `mempool`), the database
(`txinfo`, `wallet`, `utxo`) and the process (the fields of `ParseTx` and
`ParseOpreturnData`, under their own names). A death resets the third group only.
`pc` names the place in the loop:

```
down -Start-> getblockcount -> getblock -> flush -> getrawmempool -> readmempool
      -> flush -> utxo -> getblockcount ...          flush <-> reply -> rows
```

| Action | Code |
|---|---|
| `Start` | `ScanBlockChainData` before its loop (`scanblock.cpp:18`) |
| `GetBlockCount`, `GetBlock`, `ReadBlockTx`, `BlocksDone` | `filterBlockOnChain` |
| `GetRawMempool`, `ReadMempoolTx`, `MempoolDone` | `filterBlockMempool` |
| `AddTransaction` (operator) | `AddTransaction` |
| `FlushUpdate`, `FlushInsert`, `FlushThrows`, `Commit` | `FlushToDB`: one step for each transaction, `BatchQuerySql` at the end |
| `ResponseAction...`, `Settlement` (operators) | `ResponseAction*`, `ContractFormat`, `AssetCreation`, `SettlementToken` |
| `Reply` | `CreateTransaction` / `CreateTransactionT4` up to `sendrawtransaction` |
| `InsertRow` | `Handler::FlushToDB`, one autocommitted row |
| `FlushUtxo` | `FlushUtxoToDB`, one batch |
| `Crash` | a kill, or an exception nobody catches |
| `Submit`, `Mine` | clients, miners |

Each RPC call with which scanblock reads the chain or the mempool is a step of its own, so
the node may change between any two, and with `RpcMayFail` each has a disjunct for its
failure. `Reply` folds `listunspent`, `createrawtransaction`, `signrawtransaction` and
`sendrawtransaction` into one step: nobody but scanblock spends the coins they are about, so
what the node does between them changes nothing but which unconfirmed coins are listed, and
that may change as well before the step. `HandledBy` says whose
`validateaddress` answers count: a failed one reads as "not mine". A reply may be
sent, not sent, or sent without scanblock hearing its txid; the rows are written
in all three cases, as in the code.

Which reply is sent follows from the coins. `Unspent` is what `listunspent` answers
for the contract's address, `Taken` the sets of coins the loop of
`Handler::CreateTransaction` may take from it in whatever order they are listed,
`PaidWithChange` the outputs with the change merged in; `CreateTransactionT4` takes
the outputs of the T2 it settles (`T4Coins`) and splits the currency (`T4Paid`).
`Replies` names for each request the transactions among `Txs` that may be its
reply; `IsReply` accepts one only if its inputs and outputs are exactly those, and
the node takes it. Amounts are integers in units of 0.00001 BCH. The code uses
doubles: where a comparison of two equal amounts decides, or an amount has more
decimals than the node takes, `RoundingDecides` leaves both outcomes open. The
contract's address holds only what transactions of `Txs` pay it.

`Settles`, `Settlement` and `QueryContract` read the same `wallet` rows the steps
before wrote; quantities are integers modulo `TwoTo64`, and one above `IntMax`
makes the query throw (`std::stoi`, `db_mysql.cpp:97`). The column `qty` is a signed `bigint`
(`doc/smart_contract.sql:58`): the INSERT of 2^63 or more fails in MySQL's strict mode, the
default, and `QuerySql` logs it and goes on. `Stored` says which rows the table takes; an A1
or a foreign T4 may state one it does not. The rows of a settlement always fit, which
`LedgerProofs!SettlementRows` proves from what `std::stoi` could read.

### UtxoApi

Adds contractd and the client tool. `GetUtxo` answers rows of an address until they
cover the amount (in whatever order the database returns them), `SendTransaction`
broadcasts, `DeleteUtxo` deletes one row after the other, `Answer` reports code 0.
scanblock and the node may step between any two of these; a second request may
not, contractd being one libevent loop. The node's answer may be lost after the
broadcast, the request may lack its list of outputs, contractd may die (`Restart`).

Each command of contractcli is a process of its own:

| Action | Code |
|---|---|
| `BuildAndPost` | `ContractOffer`, `AssetDefinition`: `BuildTransaction`, signed at every input, posted |
| `DraftTransfer` | `TokenSend`: the sender's coins first, only those signed, printed and not sent |
| `TokenRecieve` | `TokenRecieve`: `SignTransaction` signs what is not signed, posted |

`draft` is the printed transaction on its way from one party to the other. It may be
old: the coins in it may be offered again, spent or gone when it is completed. A
signature is the address whose key made it; the node compares it with the owner of
the coin (`SignedByOwners`). Transactions are members of `Txs`; a command may build
one only if its inputs are the coins offered and its outputs what the command
computes from them.

### OpReturn

A digit of a payload is `<<field, position>>`, so "read as written" says that the
digits read for a field are the digits of that field, all of them, in order. The
digits themselves (byte order, hashing) are not modelled; the prefix is known by the op
code it spells (`CodeSerialize`), and the reader dispatches on what it finds there.

### ContractMachine, AssetTypes

Pure modules. `Parse` is one turn of the loop of `RunContract`, so a parse that does
not end is a behaviour that does not end; `RunMachine` pops the codes. A datum is
known by its size, the only thing the machine looks at. The member `machine_` of
`ContractParse` is never given a value in the code; the model takes it to be a machine with
empty stacks. `AssetTypes` uses the digits of `OpReturn` for the four payload types;
`Serialize` drops the part that depends on the type, as the code does, and `PayloadThrows`
says where `substr` then throws.

## 3. Runs

| Run | Instance | Checks |
|---|---|---|
| `scan_crash` | A1, T2 and its T4, 2 blocks, 2 deaths, every RPC may fail | `TypeOK`, `IInv`, `AnsweredOncePerRun`, `UtxoListedOncePerRun`, `NeverAnsweredAgain` |
| `scan_restart` | A1, a second A1 of a quantity `std::stoi` rejects, two T2, 2 blocks of at most 2 transactions, 1 death | `NoTokensMinted`, `RecordedBelowTip`, `RecordedIsBooked`, `SeenMirrorsTxinfo`, `OverflowIsForGood` |
| `scan_live` | A1 and its A2, T2 and its T4, a plain payment, 2 blocks, fairness | `UtxoExact`, `SettledOrRobbed`, `MinedIsRecorded`, `RequestIsAnswered` |
| `scan_ledger` | A1, T2, a foreign T4 with a quantity the table refuses, 2 blocks | `LedgerSpec` (refinement), `SupplyOnlyIssued` |
| `api_utxo` | a C1 of one client, a T2 of two and what funds them, 3 blocks in any order | `PostedIsSigned`, `SpentNotOffered`, `CoinsNotLost` |
| `pure` | tables of up to 4 rows, transactions of up to 3 outputs, payloads cut at every byte, up to 3 coins, inputs of up to 4 bytes for the machine | `QueryBalanceIsReplay`, `QueryContractIgnoresFreeze`, `T2RolesRight`, `T4RolesRightOrMissing`, `ReadAsWritten`, `NumbersAreWhole`, `ReplyFeeIsFixed`, `ClientPaysMinerFee`, `TransferReachesParties`, `MachineChecksOffers`, `ParseNeverEnds` |

Six runs end in a counterexample; each states what a document, a comment or a test says and
the code does not do:

* `restart_blind`: a restart while `txinfo` holds unconfirmed transactions only
  converts the height -1 to 2^64-1, and no block is scanned ever again.
* `utxo_twice`: scanning resumes from the last block with an OP_RETURN, so the
  outputs of later blocks are inserted a second time.
* `utxo_order`: in a block that lists a child before its parent the delete precedes
  the insert, and the spent output stays.
* `reply_failed`: an A1 that pays the fee of `doc/params/asset_definition.json` (0.00005)
  cannot fund its A2 (0.00012 and the miner's 0.00001): nothing is sent, and the
  `wallet_info` row has an empty txid.
* `fixed_fee`: the fixed exchange fee of a T2 is never written; the reader takes it
  out of the fee address.
* `share_payload`: the part of a payload that depends on its asset type is never written, and
  reading back a share throws. The test case `assettypes` (`test/test_action.cpp:68`), which is
  commented out, expects every field back.

### Bounds, and why they are enough

`MaxHeight` bounds the chain, `MaxBlock` the transactions of a block, `MaxCrashes` the deaths; they
are guards of `Mine` and `Crash`. `MaxBlock` is the number of transactions, and so no bound, in
every run but `scan_restart`: two blocks of two hold all four of its transactions, and both
blocks may be read before one flush. Two blocks give a transaction before and one after the resume height,
and a parent and a child in one block or in two; a death more than one lets a
restarted run die as well. Two transfers are needed for one settlement to depend on
another in the same flush. In `api_utxo` the coins are those of the clients: the C1
pays the contract too little for a C2 and the T2 moves tokens nobody has, so scanblock spends
nothing, and the run affords a third block, so that a spend can be mined after rows were deleted. `TwoTo64` and `IntMax`
are scaled down together; in `scan_ledger`, `scan_restart` and `pure` they are small
enough to be reached. `TwoTo64` is always more than four times `IntMax`, as 2^64 is more than
four times 2^31 - 1 (`WidthAssumption`): the sum of two quantities that can be read does not
wrap and the table holds it. `Large` is the quantity of the second A1 and the second one of the foreign T4: in
`scan_restart` more than `IntMax` (7) and less than half of `TwoTo64` (32), so that it is stored
and cannot be read; in `scan_ledger` half of `TwoTo64` (16), so that it is not stored.

What A1 and T2 pay (`Paid`, `Currency`) decides which reply is funded from what. In
`scan_crash` (5 and 7) the A1 alone cannot fund its reply and the T2 leaves its T4 just
enough; in `scan_live` (5 and 10) the coins of both together fund the A2, which then
takes the T2's output before its T4 does, or after it, or not at all, by the order of
the flush. In the other runs the replies are not funded, and what follows a reply
that was not sent is checked. In `pure`, values of coins lie below, at and above what
a C2 and an A2 need, `Micro` = 3 makes amounts that print exactly and amounts that do
not, and the bytes of the machine are lengths 0 to 3, the op codes 17 and 18 and
nothing else it would treat differently. The client names the type of the asset of a T2 and
the address its fee goes to, so their lengths are constants (`AssetTypeSizes`, `AddressSizes`):
the right ones, a shorter and a longer type, a legacy address. Four rows of a table are an issue, a freeze, a settlement and
one more of any kind.

### What a property assumes

* `RecordedBelowTip` and `MinedIsRecorded` are stated for runs in which RPC calls
  are answered: the code counts a block as scanned before it fetches it
  (`parsetx.cpp:110`) and has no retry. `IInv` and what follows from it hold
  whatever fails.
* `RecordedIsBooked` too: a `validateaddress` that fails has a request recorded and not
  answered (`handler.cpp:63`). It holds whenever scanblock dies, since the rows of a
  response precede its `txinfo` row. It says of an issue that it is booked when the
  quantity is less than 2^63; of a greater one the A2 is sent and the row refused.
* `UtxoExact`, `SpentNotOffered` and `CoinsNotLost` hold until scanblock is
  restarted, which `utxo_twice` shows to be necessary; `UtxoExact` also needs
  blocks that list parents first (`utxo_order`). `UtxoListedOncePerRun` is what restarts
  leave of it: each lists an output once more at most.
* `RequestIsAnswered` and `SettledOrRobbed` likewise need RPC calls that are answered, and
  `SettledOrRobbed` that scanblock does not die during the response. It says no more than
  the code does: the output of a transfer is spent, by its own T4 or by the A2 or C2 of
  another request; with this system the money of two parties may fund somebody
  else's reply.
* `ClientPaysMinerFee` is about coins listed with their true value. `utxo` lists values
  with six decimals; a coin with more is signed over another value than it has, and
  the node refuses the signature.
* `ParseNeverEnds` is what the code does, not what it should: a length of 0 or 1 leaves the
  position where it is, and a greater one throws unless the byte it leads to is in the input
  (`contractparse.cpp:34`). Only the empty input comes to `RunMachine`, which is therefore
  checked on stacks that are pushed directly. `MachineChecksOffers` allows codes beside a C1,
  if they were pushed after it: `RunMachine` looks at the code stack when it has already
  popped them (`machinestack.cpp:32`).
* `LedgerSpec` is stated without deaths: between the two rows of a settlement a
  death leaves the tokens with nobody. `SupplyOnlyIssued` fails there as well; what remains
  true is `NoTokensMinted`. All three speak of transfers that give change to a party, as every T2 of `TokenSend` does
  (`TransfersGiveChange`): one that pays the contract only has neither sender nor
  receiver for `ResponseActionT2`, which then settles from the empty address to itself.
* `OverflowIsForGood` is about the sender's holdings. Those of a receiver stop a transfer
  only as long as the sender holds enough: another transfer may take the sender's
  below the quantity, and then the receiver's are not queried (`parsetx.cpp:640`).
* `CHECK_DEADLOCK FALSE` stands in `scan_restart`, where a quantity that cannot be read
  ends the process at each start and it is not started more than `MaxCrashes` + 1 times, and
  in `pure`, where an input of the largest size is not continued.

### Fairness

`FairSpec` assumes weak fairness of `Loop` and of `Start`. scanblock is one thread in
`while(true)` whose steps wait for nothing but an RPC answer or `sleep(1)`; a step
it can take is taken. `Start` assumes that whoever operates it restarts it. Clients
and miners are under no obligation: both liveness properties start from a
transaction that was mined. They use the same two assumptions; nothing stronger is
needed, because no step of the loop is disabled by what the environment does.

## 4. Proofs

Checked by TLAPS for all transactions, addresses, lengths of chains and blocks, numbers of deaths
and RPC failures, tables of any length and any number of coins, except as a
theorem's hypotheses say. They assume `TxAssumption`, `AddressAssumption`,
`BoundAssumption` (`ScanBlock`) and the assumption on `TwoTo64` and `IntMax`
(`WalletInfo`), those of `UtxoApi` also `OwnerAssumption` (an input carries the address of
the output it spends), which TLC evaluates in the runs.

| Theorem | States | If |
|---|---|---|
| `ScanBlockTypes!TypeCorrect` | `Spec => []TypeOK` | |
| `ScanBlockProofs!InvCorrect` | `Spec => []IInv` | |
| `ScanBlockProofs!AnsweredOnce` | one run of the process answers a request at most once | |
| `ScanBlockProofs!SeenIsTxinfo` | the list of unconfirmed transactions mirrors `txinfo` at the head of the loop | |
| `ScanBlockProofs!RecordedIsAnswered` | a request recorded in `txinfo` is never answered again | |
| `DatabaseProofs!RecordedTip` | `RecordedBelowTip`: nothing below the highest recorded height is missing from `txinfo` | RPC calls are answered |
| `DatabaseProofs!UtxoIsExact` | `UtxoExact`: `utxo` is the unspent outputs of the blocks scanned | no death, RPC calls answered, parents listed first |
| `DatabaseProofs!OneListingPerRun` | `UtxoListedOncePerRun`: each run lists an output once at most | |
| `LedgerProofs!ImplementsLedger` | `Spec => LedgerSpec`, the refinement | no death, hypotheses below |
| `LedgerProofs!SupplyIsIssued` | `SupplyOnlyIssued`, an action property: only a response to an A1 changes what all holders have | no death, hypotheses below |
| `LedgerProofs!NothingMinted` | `NoTokensMinted` | hypotheses below |
| `LedgerProofs!RecordedAreBooked` | `RecordedIsBooked`: what `txinfo` records was answered, and booked if it was an A1 | RPC calls are answered |
| `LedgerProofs!OverflowStays` | `OverflowIsForGood`, an action property | RPC calls are answered, own statements |
| `LedgerProofs!MoneyMoves` | `SettledOrRobbed`: the money of a settled transfer does not stay at the contract's address | no death, RPC calls answered, hypotheses below |
| `UtxoApiProofs!PostedAlwaysSigned` | what is posted to contractd is signed by the owners of its coins | |
| `UtxoApiProofs!SpentStaysSpent` | `SpentNotOffered`: a coin spent with success is not offered again | scanblock does not die |
| `UtxoApiProofs!NoCoinLost` | `CoinsNotLost`: no unspent coin loses its row | scanblock does not die, its RPC calls are answered |
| `WalletInfoProofs!QueryContractIsBase` | frozen quantities cancel in `QueryContract`, wrapping included | |
| `WalletInfoProofs!SettlementRowCounts`, `IssueRowCounts`, `OtherAccountsKeep` | what a row appended does to the balance of its account and to others | |
| `PureProofs!BalanceIsReplay`, `ContractIgnoresFreeze` | the SELECTs of a balance against replaying the table row by row | `QuantitiesFit` |
| `PureProofs!TransferRolesRight` | `T2RolesRight`: the parties of a T2, whatever the order of its outputs | three different addresses |
| `PureProofs!StatementRolesRight` | `T4RolesRightOrMissing`: the parties of a T4 that are found, and when | three different addresses |
| `CoinSelectionProofs!TakenIsEnough`, `ReplyPaysAll` | the coins a reply takes, the outputs it has | |
| `PureProofs!ReplyFee` | `ReplyFeeIsFixed` | amounts are naturals |
| `PureProofs!TransferPaysParties`, `MinerFeePaid` | `TransferReachesParties`, `ClientPaysMinerFee` | the same, three different addresses |
| `PureProofs!ParseIsEndless` | `ParseNeverEnds`: an input with a byte in it never comes to `RunMachine` | bytes are naturals |
| `PureProofs!OffersAreChecked` | `MachineChecksOffers`: a C1 is accepted as the first code pushed and with a hash as the only datum | the same |
| `PureProofs!WrittenIsRead` | `ReadAsWritten`: the six formats, field by field | sizes are naturals |
| `PureProofs!NumbersNeverCut` | `NumbersAreWhole`: no number of a payload cut anywhere is read in part | the same |

### Hypotheses

"No death" and "RPC calls are answered" are `MaxCrashes = 0` and `~ RpcMayFail`; section 3 says
which code makes them necessary, and runs `utxo_twice` and `utxo_order` show two of them
to be. The others:

* `TransfersGiveChange`: section 3, "What a property assumes".
* `OwnStatementsAreOurs`: a T4 whose last input is an address of this wallet has all its
  inputs from this wallet, as `CreateTransactionT4` makes it. `ResponseAction` compares the
  first input, `ResponseActionT4` takes the last for the contract. With RPC calls that may
  fail a `validateaddress` may hide the first; then such a T4 must not pay an address of
  this wallet, which the parties of a transfer are not.
* `TransfersHaveReplies`: `Txs` is large enough to hold the T4 that settles each transfer of
  this operator which can pay both parties. Which transaction that is follows from the
  transfer; a constant cannot be made to contain it otherwise.
* `OnlyRepliesSpend`: what spends a coin of an address of this wallet is a reply to one of the
  requests in `Txs`, and a T4 that spends a transfer's output settles that transfer.
  `CreateTransactionT4` takes its inputs from the T2 (`handlerscan.cpp`); that nobody but
  scanblock spends from the node's wallet is an assumption about the operator.
* `IsFiniteSet(Holders)`, for sums over the holders to exist.

The instances of the runs satisfy all of them.

### Arguments

*Types.* `TypeOK` is not inductive: that `GetBlock` reads a block that exists needs
`current_height <= Len(chain)`, and that the height queued with a transaction is one
of a block needs to know where `json_txs` came from. `BoundInv` adds these, and
`TypeOK /\ BoundInv` is inductive.

*Responses.* That a recorded request is not answered again follows from nothing
local: a response begins where `FlushInsert` takes a queued transaction that is not
an update. `QueueInv` says that what is queued is new to `txinfo` or in
`vect_mempool_tx_`; it needs `ReadInv` for what is about to be queued, `SeenInv` and
`StatementInv` for what the list of unconfirmed transactions and the collected
statements hold, `HeightInv` and `NodeInv` for why a block above `pre_block_height`
holds nothing recorded with a height, `PhaseInv` for when the queues are empty, and
`AnswerInv` to count. `IInv` is their conjunction; the proof has one lemma for each
action that disturbs it, with one step for each conjunct, and one lemma for the
actions that change only phases.

*Recorded.* `RecordedBelowTip` speaks of `txinfo` alone, and a `Commit` writes the heights of several
blocks at once. `Covered` says where a transaction of a block counted as scanned is:
in `txinfo`, in a collected statement, queued, or in the block being read. A process
started on unconfirmed transactions only covers nothing; `Blind` says that it also
records no height (the state `restart_blind` ends in).

*Unspent outputs.* A scanned transaction is in the block being read, in `vect_utxo_` or in
the table, and moves through them once, in the order of the chain. `FirstRunInv` says so,
`ChainOrder` and `ReadOrder` that a parent is ahead of its child, so that a row is inserted
before it is deleted, and `TableInv` what the table then holds. `SpentStaysSpent` and
`NoCoinLost` use the same places: a coin that was offered, drafted, posted or spent is of a
transaction that was flushed (`CoinsInv`), which is flushed once, so that a row contractd
deleted does not come back (`GoneInv`); and a row is missing only where the node has a
transaction that spends it (`KeptInv`).

*Ledger.* The mapping counts the rows under way as written (`Books`), so a settlement of
two rows is one step, taken when it is computed. The balance of each account is
`QueryContract` of the books; the lemmas of `WalletInfoProofs` say what one more row does to
it, and each response is an issue, a transfer, an adoption or a stutter. Writing a row,
sending a reply and all of the node's steps change no balance.

*Supply.* What all holders have together is a sum of balances over `Holders`, and the step
lemmas of the refinement say which balances change: one by what was issued, two of one
contract and asset by the same quantity in opposite directions, or those of a foreign
contract. `SameBalanceSameSupply` covers the other steps.

*Booked.* `BookedInv` follows a request from its response to its row in `txinfo`: a collected
INSERT has its rows in the books, a row of `txinfo` has them in the table. `Commit` moves
from one to the other when no rows are under way (`RowsInv`); a death drops the rows under
way together with the collected statements, so neither is left without the other.

*Listed.* `ListedInv` counts the rows of an output against the number of starts. Within a run
a transaction waits for the table at most once and is then flushed, or was lost to an
RPC failure; until then its outputs have no row of this run. A death resets what
counts as flushed and raises the bound by one.

*Nothing minted.* With deaths a settlement may be cut after its first row. `MintInv` keeps
the sums of holdings below what was issued in `wallet_info` as it is and in the books as
they will be, and says of the first of two rows that it takes tokens away (`Harmless`), so
that a death between them loses tokens and makes none. Two rows of one and the same account
would be another case; `TransfersGiveChange` excludes it.

*The money of a transfer.* A transfer counts as answered when its response begins, and the
property is about it once the response is over. `SettledByTaker` restates it: some
transaction the node has takes a coin of the transfer (`Taker`). Takers never disappear, as the
node forgets nothing, so the whole proof is the step of `Reply`. If nobody has taken a coin
yet, `Unspent` still holds all that the T4 spends; the T4 is not on the node, its only parent is
(`OnNodeInv`), and its amounts are not among those where `RoundingDecides`, because the transfer
is `Payable`. Then `Reply` has no choice but to send it (`T4IsAccepted`). `AnsweringInv` says that the
rows under way name the parties the T4 must pay.

*Parties of a T4.* `T4Roles` is a fold over the outputs whose state depends on all outputs before.
Each address is paid once (`PaidOnceInv`), so there are at most three outputs; the fold is
unrolled (`RolesInOrder`), the output of the contract changes nothing (`ContractSkipped`), and the
two others come in one order or the other.

*Sums.* Sums over sets of coins or holders are folds. Their theory in
`CoinSelectionProofs` avoids induction over data: a claim about all finite subsets has a
smallest counterexample (by cardinality), and removing one element gives a smaller one. From
"a sum exists" and "taking one element away takes its value away" follow the sums of
two and three, monotonicity and what changing some values does.

*Balances.* `ReplayInv` relates the state of a replay to the table: who is known, the rows
the SELECTs would choose. One more row changes at most the latest of its kind.

*Signatures.* `PostedIsSigned` is not inductive: what `TokenRecieve` posts depends on the
draft, and the draft on the offers. `SigningInv` adds `OffersInv` (a client is offered its own
coins only) and `DraftInv` (a draft is signed at every input by its owner, or not signed
and owned by the one who is to complete it). There is one lemma for each action that
changes offers, drafts or what is posted; all others, scanblock's and the node's
among them, leave the three alone.

*Payloads.* A payload is a prefix and its fields one after the other (`FlattenSeq`), and
the readers cut at fixed offsets. `FlattenAt` says where the digits of the n-th sequence lie,
for any sequences; the sums of sizes for each format are a table (`FieldsStart`), and
`FieldsAgree` compares it with the offsets of the readers. `CodecInv` keeps what cutting
preserves: digits, a request, and a bound on what `Serialize` writes. For a payload cut
short, the length check of an op code must be beyond the end of its last number
(`NumbersInside`).

*The machine.* `ParserInv` says where a parse of some bytes stands (`Standing`): at a length of 0
or 1, where it stays, or at a position of at least two for every push, since any other length is
2 or more; and never at the end, since a turn that leads beyond the input throws. `RunMachine`
is a recursive function of the codes left; `Verdicts` is its closed form, and the first code on
which the two differ would make a turn of its loop wrong.

### Only model-checked

`MinedIsRecorded` and `RequestIsAnswered` of `scan_live`: liveness under fairness, which the
prover does not reach. The invariants and action properties of the passing runs are all
proved. The six counterexamples are runs of TLC by their nature. The digits of `CodecInv` are
of two kinds that TLC does not compare, so it was proved without a run of its own; the two
properties that follow from it are checked in `pure`.

## 5. Not modelled, and why

* **Third-party JSON.** `common/json.hpp` is a vendored library. It is two thirds of the
  lines under `src/src`; what the models cover is to be measured against the rest.
* **Start-up and RPC transport** (`init.cpp`, `common/util.cpp`): options, configuration and
  curl. What a failed call does to its caller is in the caller's module.
* **`designcontract.cpp`, `txparse.cpp`, `ActionsToBlockChainTxs`, `SignContract`,
  `VerifySignature`.** No program calls them, and they keep no state to speak of.
* **Database failures.** A statement that fails because the connection is gone is
  logged and ignored by every caller; the models have a database that answers.
* **`txinfo_vin`, `txinfo_vout`** are written with the `txinfo` row and never read.
* **Coinbase transactions** pay no party and are excluded by `GetUtxo`. A **second
  OP_RETURN** of a transaction is left out.
* **Reorganisations and evictions.** The code has no handling for either; the chain of
  the model only grows and the mempool only loses what is mined.
* **Number formats.** Amounts are integers, not `double`; what rounding may decide is left
  open (`RoundingDecides`, `Prints`). The size of a transaction, on which the node's
  minimum fee depends, is left out.
* **Hashes, keys, byte order.** A key is the address it belongs to; the digits of a field
  are known by the field.
* **The fee address** of a T2 is compared by `find` in the code (a substring) and by
  equality in `TxRoles`: addresses have one length.
* **Transfers to oneself** (`TokenSend` with equal addresses) are excluded from `UtxoApi`.

## 6. What is left

1. Two scanblocks: the T4 of one node as the input of the other, in the order its
   mempool lists them; the holdings of the second against those of the first.
2. `UtxoApi` with restarts of scanblock: `UtxoListedOncePerRun` bounds the rows scanblock
   writes again, not which of them contractd had deleted.
3. What of `SettledOrRobbed` and `SpentNotOffered` survives a death of scanblock.
