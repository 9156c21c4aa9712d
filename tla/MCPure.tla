------------------------------- MODULE MCPure -------------------------------
(***************************************************************************)
(* The functions of the other modules that keep no state, over small       *)
(* inputs.  A behaviour grows one input: a wallet_info table row by row, a  *)
(* token transaction output by output, a payload that is then cut short    *)
(* byte by byte, a list of coins a payment is made from, or the stacks of  *)
(* the contract machine.                                                   *)
(***************************************************************************)
EXTENDS WalletInfo, ContractCli, CoinSelection, AssetTypes, ContractMachine

CONSTANTS
    contract, asset, holder, other, MaxRows, MaxQty,    \* the table
    c, s, r, MaxValue,                                  \* the transaction
    AssetTypeSizes, AddressSizes,                       \* the payload
    MaxCoins, CoinValues, CurrencyValues, FeeValues,    \* the payment
    Bytes, MaxInput, MaxPushes                          \* the machine

VARIABLES
    wallet,     \* the table
    replay,     \* for each holder, what replaying it row by row gives
    vout,       \* the outputs of the transaction
    request,    \* the op code and the sizes of the two fields a client chooses
    payload,
    coins,      \* the coins of a payment: their owner, value and listed value
    machine

vars == <<wallet, replay, vout, request, payload, coins, machine>>

Key(a) == [contract |-> contract, asset |-> asset, address |-> a]
Unknown == [known |-> FALSE, held |-> 0, frozen |-> 0]
Idle == [phase |-> "idle", input |-> << >>, position |-> 0, codes |-> << >>, data |-> << >>]
NoRequest == [code |-> "none", asset_type |-> 0, address |-> 0]

Init ==
    /\ wallet = << >> /\ replay = [a \in {holder, other} |-> Unknown]
    /\ vout = << >>
    /\ request = NoRequest /\ payload = << >>
    /\ coins = << >> /\ machine = Idle

-----------------------------------------------------------------------------
\* The meaning of a row: an A2 issues once, a T4 settles and unfreezes, a T2
\* freezes.
Replayed(state, ty, q) ==
    CASE ty = "A2" /\ state.known  -> state
      [] ty = "A2" /\ ~state.known -> [state EXCEPT !.known = TRUE, !.held = q]
      [] ty = "T4" -> [known |-> TRUE, held |-> q, frozen |-> 0]
      [] ty = "T2" -> [state EXCEPT !.frozen = q]

Insert(a, ty, q) ==
    /\ vout = << >> /\ request = NoRequest /\ coins = << >> /\ machine = Idle
    /\ Len(wallet) < MaxRows
    /\ wallet' = Append(wallet, Row(Key(a), q, ty, "txid"))
    /\ replay' = [replay EXCEPT ![a] = Replayed(@, ty, q)]
    /\ UNCHANGED <<vout, request, payload, coins, machine>>

\* QueryBalance, a chain of SELECTs for the last T4, the T2 after it or else the
\* first A2, answers what replaying the table gives.
QueryBalanceIsReplay ==
    \A a \in {holder, other} :
        LET state == replay[a]
            balance == QueryBalance(wallet, Key(a))
        IN  IF state.known
            THEN balance.freeze = state.frozen
                 /\ balance.token = Sub64(state.held, state.frozen)
            ELSE balance = [token |-> 0, freeze |-> 0]

\* What freezing takes from the available tokens QueryContract gives back, even
\* when more is frozen than held and the subtraction wraps.
QueryContractIgnoresFreeze ==
    \A a \in {holder, other} :
        QueryContract(wallet, Key(a)) = IF replay[a].known THEN replay[a].held ELSE 0

-----------------------------------------------------------------------------
\* A T2 of the client (TokenSend) pays the contract c and gives change to both
\* parties s and r; a T4 of SettlementToken pays s and r.  Both are built from a
\* JSON object keyed by address, so the order of their outputs is that of the
\* addresses.
AddOutput(a, v) ==
    /\ wallet = << >> /\ request = NoRequest /\ coins = << >> /\ machine = Idle
    /\ a \notin {vout[i].addr : i \in DOMAIN vout}
    /\ vout' = Append(vout, [addr |-> a, value |-> v])
    /\ UNCHANGED <<wallet, replay, request, payload, coins, machine>>

in(a) == [addr |-> a]
PaidTo(a) == \E i \in DOMAIN vout : vout[i].addr = a
ValueOf(a) == vout[CHOOSE i \in DOMAIN vout : vout[i].addr = a].value

\* Whatever the order of its outputs, a T2 funded by both parties whose payload
\* names the sender's address is read with the right roles; a party without
\* change stays without an address (ResponseActionT2).
T2RolesRight ==
    T2Roles(<<in(s), in(r)>>, vout, s) =
        [contract |-> IF PaidTo(c) THEN c ELSE NoAddress,
         send     |-> IF PaidTo(s) THEN s ELSE NoAddress,
         recv     |-> IF PaidTo(r) THEN r ELSE NoAddress]

\* Of a T4 that pays the sender more than the receiver, as SettlementToken does
\* unless the transfer is funded with dust, the sender is always found and nobody
\* is mistaken for the receiver; but the receiver is only found when the sender's
\* output comes first (ResponseActionT4: pos stays 0).
T4RolesRightOrMissing ==
    PaidTo(s) /\ PaidTo(r) /\ ValueOf(s) > ValueOf(r) =>
        LET roles == T4Roles(<<in(c)>>, vout)
            first == \E i, j \in DOMAIN vout :
                        i < j /\ vout[i].addr = s /\ vout[j].addr = r
        IN  roles.send = s /\ roles.recv = IF first THEN r ELSE NoAddress

-----------------------------------------------------------------------------
\* The sizes of the fields, in bytes.  A client of TokenSend chooses the asset
\* type and the fee address; the programs give all other fields the sizes that
\* action.h names or initialises them with.
Numbers == [
    initialtive_threshold |-> 4, restricted_qty |-> 8, asset_revision |-> 2, qty |-> 8,
    contract_fee_var |-> 4, contract_fee_fixed |-> 4, party1_token_qty |-> 8,
    party2_token_qty |-> 8, exchange_fee_var |-> 4, exchange_fee_fixed |-> 4]
Texts(q) == [
    symbol |-> 4, version |-> 1,
    party1_asset_type |-> q.asset_type, exchange_fee_address |-> q.address,
    contract_name |-> 32, contract_file_hash |-> 32, governing_law |-> 5,
    jurisdiction |-> 5, timestamp |-> 8, contract_expriration |-> 8, url |-> 70,
    contrac_revision |-> 2, issuer_id |-> 16, issuer_type |-> 1,
    contract_operator_id |-> 16, authorization_flag |-> 2, voting_system |-> 1,
    initialtive_threshold_currency |-> 3, asset_type |-> 3, asset_id |-> 32,
    vote_multiplier |-> 1, contract_fee_currency |-> 3, payload |-> 19,
    party1_asset_id |-> 32, offer_valid_until |-> 8, exchange_fee_currency |-> 3]
Sizes(q) == [name \in DOMAIN Numbers \cup DOMAIN Texts(q) |->
                IF name \in DOMAIN Numbers THEN Numbers[name] ELSE Texts(q)[name]]

\* 42 characters are a cash address without its prefix, 34 a legacy address.
Payload == [
    version |-> 1, trading_restricion |-> 3, dividend_type |-> 1, dividend_var |-> 4,
    dividend_fixed |-> 4, disttribution_interval |-> 1, guaranteed |-> 1, ticker |-> 4,
    ISIN |-> 12, description |-> 113, age_restriction |-> 5, venue |-> 32,
    valid_from |-> 8, expiration_timestamp |-> 8]
PayloadTypes == DOMAIN PayloadLayout
Request == [code : Codes \ {"T2"}, asset_type : {3}, address : {42}]
           \cup [code : {"T2"}, asset_type : AssetTypeSizes, address : AddressSizes]

Write ==
    /\ wallet = << >> /\ vout = << >> /\ request = NoRequest /\ coins = << >> /\ machine = Idle
    /\ \E q \in Request : request' = q /\ payload' = FormatOpReturnData(q.code, Sizes(q))
    /\ UNCHANGED <<wallet, replay, vout, coins, machine>>

CutByte ==
    /\ payload # << >>
    /\ payload' = SubSeq(payload, 1, Len(payload) - 2)
    /\ UNCHANGED <<wallet, replay, vout, request, coins, machine>>

WritePayload ==
    /\ wallet = << >> /\ vout = << >> /\ request = NoRequest /\ coins = << >> /\ machine = Idle
    /\ \E ty \in PayloadTypes :
         /\ request' = [NoRequest EXCEPT !.code = ty]
         /\ payload' = Serialize(ty, Payload)
    /\ UNCHANGED <<wallet, replay, vout, coins, machine>>

Whole == request.code \in Codes /\ payload = FormatOpReturnData(request.code, Sizes(request))

\* With a 3-byte asset type and a cash address, what one program writes another
\* reads, field by field, in all six formats; only the fixed exchange fee, which
\* is never written, is not.
ReadAsWritten ==
    Whole /\ request.asset_type = 3 /\ request.address = 42 =>
        /\ ~ Refused(payload) /\ OpCode(payload) = request.code
        /\ LET fields == UnSerializeOperation(payload)
           IN  \A name \in DOMAIN fields \ {"exchange_fee_fixed"} :
                  fields[name] = Digits(name, Sizes(request)[name])

\* A payload that is cut short anywhere is refused before a number is taken from
\* beyond its end.
NumbersAreWhole ==
    request.code \in Codes /\ ~ Refused(payload) =>
        LET fields == UnSerializeOperation(payload)
        IN  \A name \in DOMAIN fields \cap DOMAIN Numbers :
                Len(fields[name]) = 2 * Numbers[name]

\* The fixed exchange fee of a T2 is read back as it was set.
FixedFeeIsRead ==
    Whole /\ request.code = "T2" /\ request.asset_type = 3 /\ request.address = 42 =>
        UnSerializeOperation(payload).exchange_fee_fixed
            = Digits("exchange_fee_fixed", 4)

\* A share's payload (SHC) is read back as it was serialized, each of its fields.
SharePayloadIsRead ==
    request.code = "SHC" /\ payload = Serialize("SHC", Payload) =>
        /\ ~ PayloadThrows("SHC", payload)
        /\ \A name \in ToSet(PayloadHeader \o PayloadLayout.SHC) :
              UnSerializePayload("SHC", payload)[name] = Digits(name, Payload[name])

-----------------------------------------------------------------------------
\* Coins of a client as GetUtxo lists them, the value printed with six decimals,
\* or coins of the contract as the node lists them.
AddCoin(owner, value, listed) ==
    /\ wallet = << >> /\ vout = << >> /\ request = NoRequest /\ machine = Idle
    /\ Len(coins) < MaxCoins
    /\ coins' = Append(coins, [owner |-> owner, value |-> value, listed |-> listed])
    /\ UNCHANGED <<wallet, replay, vout, request, payload, machine>>

CoinsOf(a) == {i \in DOMAIN coins : coins[i].owner = a}
Values == [i \in DOMAIN coins |-> coins[i].value]
Listed == [i \in DOMAIN coins |-> coins[i].listed]

TotalOf(paid) == Worth(paid, DOMAIN paid)

\* Whatever coins CreateTransaction takes, and whether or not issuer and contract
\* are one address, a reply spends all it takes but FIXED_FEE, and what comes
\* back as change is no more than one of the coins: it takes at most one coin too many.
ReplyFeeIsFixed ==
    \A fee \in {5, 12}, issuer \in {c, r} : \A cs \in Taken(CoinsOf(c), Values, fee + FIXED_FEE) :
        LET change == Worth(Values, cs) - fee - FIXED_FEE
        IN  /\ TotalOf(PaidWithChange(c, issuer, fee, change)) = Worth(Values, cs) - FIXED_FEE
            /\ \E coin \in cs : coins[coin].value >= change

\* The two transactions a client may build from the coins of s, or of s and r.
ClientPays(currency, contract_fee, miner_fee) ==
    LET send == Worth(Listed, CoinsOf(s))
        recv == Worth(Listed, CoinsOf(r))
    IN  IF CoinsOf(r) = {} THEN BuildTransaction(c, s, send, contract_fee, miner_fee)
        ELSE TokenSend(c, s, r, send, recv, currency, contract_fee, miner_fee)

\* A client whose transaction the node takes pays the miner the fee it chose, up
\* to half of the last decimal printed for each output: a coin that was listed
\* with another value is signed over the wrong one, and an amount that would be
\* negative is read as 0, and the node refuses both.
ClientPaysMinerFee ==
    coins # << >> /\ CoinsOf(c) = {} /\ Values = Listed =>
        \A currency \in CurrencyValues, contract_fee, miner_fee \in FeeValues :
            LET paid == ClientPays(currency, contract_fee, miner_fee)
                near(a) == {v \in (paid[a] - Micro) .. (paid[a] + Micro) : v > 0 /\ ReadsAs(v, paid[a])}
            IN  \A f \in [DOMAIN paid -> UNION {near(a) : a \in DOMAIN paid}] :
                    (\A a \in DOMAIN paid : f[a] \in near(a)) =>
                    LET fee == Worth(Values, DOMAIN coins) - TotalOf(f)
                    IN  2 * (fee - miner_fee) \in (-Micro * Cardinality(DOMAIN f))
                                                  .. (Micro * Cardinality(DOMAIN f))

Orders(S) == {q \in [1 .. Cardinality(S) -> S] : \A i, j \in DOMAIN q : q[i] = q[j] => i = j}

\* What TokenSend builds, scanblock reads with the right roles and the right
\* currency in whatever order its outputs come, and the T4 gives all of it back to
\* the two parties: over both transactions they lose the miner fee and FIXED_FEE,
\* and the contract keeps nothing, not even the fee the receiver pays it.
TransferReachesParties ==
    CoinsOf(s) # {} /\ CoinsOf(r) # {} /\ CoinsOf(c) = {} =>
        \A currency \in CurrencyValues, contract_fee, miner_fee \in FeeValues :
            LET send == Worth(Values, CoinsOf(s))
                recv == Worth(Values, CoinsOf(r))
                paid == TokenSend(c, s, r, send, recv, currency, contract_fee, miner_fee)
                spent == [i \in DOMAIN coins |-> [addr |-> coins[i].owner]]
            IN  (\A a \in DOMAIN paid : paid[a] > 0) =>
                \A q \in Orders({c, s, r}) :
                    LET t2 == [i \in 1 .. 3 |-> [addr |-> q[i], value |-> paid[q[i]]]]
                        roles == T2Roles(spent, t2, s)
                        t4 == T4Paid(roles.send, roles.recv, T2Currency(spent, t2))
                    IN  /\ roles.contract = c
                        /\ paid[s] + t4[s] = send + currency + contract_fee - miner_fee
                                             - FIXED_FEE - SETTLE_RECIEVE
                        /\ paid[r] + t4[r] = recv - currency - contract_fee + SETTLE_RECIEVE

-----------------------------------------------------------------------------
\* The machine runs on what RunContract parses, or on what a caller pushes.
StartParse ==
    /\ wallet = << >> /\ vout = << >> /\ request = NoRequest /\ coins = << >> /\ machine = Idle
    /\ \E n \in 0 .. MaxInput : \E input \in [1 .. n -> Bytes] : machine' = Parsing(input)
    /\ UNCHANGED <<wallet, replay, vout, request, payload, coins>>

Turn ==
    /\ machine.phase = "parse" /\ Len(machine.codes) + Len(machine.data) < MaxPushes
    /\ machine' = Parse(machine)
    /\ UNCHANGED <<wallet, replay, vout, request, payload, coins>>

Push ==
    /\ wallet = << >> /\ vout = << >> /\ request = NoRequest /\ coins = << >>
    /\ machine.phase = "idle" /\ Len(machine.codes) + Len(machine.data) < MaxPushes
    /\ \/ \E b \in {x \in Bytes : IsOpCode(x)} : machine' = PushCode(machine, b)
       \/ \E n \in {1, CONTRACT_HASH_SIZE} : machine' = PushData(machine, n)
    /\ UNCHANGED <<wallet, replay, vout, request, payload, coins>>

\* Any program without a C1 is accepted.  A C1 is accepted once only, as the first
\* code that was pushed and with a hash as the only datum; what was pushed after it
\* is popped before it and neither checked nor held against it.
MachineChecksOffers ==
    RunMachine(machine.codes, machine.data) = "OK" <=>
        \A i \in DOMAIN machine.codes :
            machine.codes[i] = OfferCode => i = 1 /\ machine.data = <<CONTRACT_HASH_SIZE>>

\* An input with a byte in it never comes to RunMachine.  The parse throws, or it is
\* still going on after a turn for every two bytes, and then stands at a length of 0
\* or 1, which no turn takes it past.
ParseNeverEnds ==
    machine.input # << >> =>
        /\ machine.phase # "run"
        /\ machine.phase = "parse" =>
             /\ machine.position < Len(machine.input)
             /\ 2 * (Len(machine.codes) + Len(machine.data)) >= Len(machine.input) =>
                  machine.input[machine.position + 1] \in {0, 1}

-----------------------------------------------------------------------------
Next ==
    \/ \E a \in {holder, other}, ty \in RowTypes, q \in 0 .. MaxQty : Insert(a, ty, q)
    \/ \E a \in {c, s, r}, v \in 1 .. MaxValue : AddOutput(a, v)
    \/ Write \/ CutByte \/ WritePayload
    \/ \E a \in {s, r, c}, v \in CoinValues, l \in 0 .. Max(CoinValues) + Micro :
          Prints(l, v) /\ AddCoin(a, v, l)
    \/ StartParse \/ Turn \/ Push

Spec == Init /\ [][Next]_vars
=============================================================================
