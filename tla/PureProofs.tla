----------------------------- MODULE PureProofs -----------------------------
(***************************************************************************)
(* What MCPure checks on small inputs, for all: the wallet_info queries on *)
(* tables of any length, the roles of a T2 and a T4 with any values, the   *)
(* parser and the checks of the contract machine on inputs of any length,  *)
(* replies and transfers of any coins, and the payloads of all formats     *)
(* with fields of any size a client may choose, cut anywhere.              *)
(***************************************************************************)
EXTENDS MCPure, WalletInfoProofs, CoinSelectionProofs, SequenceTheorems

-----------------------------------------------------------------------------
(* The queries: a table and its replay *)

TableTexts == {contract, asset, holder, other, "txid"}
Table == Seq(AnyRow(TableTexts))

\* The T2 row newer than the last T4 row, whether or not anything was issued.
LatestFreeze(w, k) ==
    LET T4 == Select(w, k, "T4")
        T2 == {i \in Select(w, k, "T2") : T4 # {} => i > Latest(T4)}
    IN  IF T2 = {} THEN 0 ELSE Latest(T2)

\* The replay of the table, row by row, knows what the queries would find.
Replays(state, w, k) ==
    /\ state.known <=> BaseRow(w, k) # 0
    /\ state.known => state.held = QtyAt(w, BaseRow(w, k))
    /\ state.frozen = QtyAt(w, LatestFreeze(w, k))

ReplayType == [known : BOOLEAN, held : Qty, frozen : Qty]

ReplayInv ==
    /\ wallet \in Table
    /\ replay \in [{holder, other} -> ReplayType]
    /\ \A a \in {holder, other} : Replays(replay[a], wallet, Key(a))

LEMMA HoldingsAreKnown ==
    ASSUME NEW w \in Table, NEW k
    PROVE  BaseRow(w, k) # 0 <=> Select(w, k, "T4") # {} \/ Select(w, k, "A2") # {}
<1> Len(w) \in Nat
  BY DEF Table
<1>1. Select(w, k, "T4") \in SUBSET (1 .. Len(w)) /\ Select(w, k, "A2") \in SUBSET (1 .. Len(w))
  BY RowsSelected DEF Table
<1>2. Select(w, k, "T4") # {} => Latest(Select(w, k, "T4")) \in 1 .. Len(w)
  BY <1>1, LatestInSet
<1>3. Select(w, k, "A2") # {} => First(Select(w, k, "A2")) \in 1 .. Len(w)
  <2>1. Select(w, k, "A2") \in SUBSET Nat
    BY <1>1
  <2> QED
    BY <1>1, <2>1, FirstInSet
<1> QED
  BY <1>2, <1>3 DEF BaseRow

\* A freeze counts once there is something to take it from.
LEMMA FreezeOfKnown ==
    ASSUME NEW w \in Table, NEW k
    PROVE  FreezeRow(w, k) = IF BaseRow(w, k) = 0 THEN 0 ELSE LatestFreeze(w, k)
BY HoldingsAreKnown DEF FreezeRow, LatestFreeze

LEMMA LatestFreezeType ==
    ASSUME NEW w \in Table, NEW k
    PROVE  LatestFreeze(w, k) \in 0 .. Len(w)
<1> Len(w) \in Nat
  BY DEF Table
<1> DEFINE T4 == Select(w, k, "T4")
           T2 == {i \in Select(w, k, "T2") : T4 # {} => i > Latest(T4)}
<1>1. T2 \in SUBSET (1 .. Len(w))
  BY RowsSelected DEF Table
<1>2. T2 # {} => Latest(T2) \in 1 .. Len(w)
  BY <1>1, LatestInSet
<1> QED
  BY <1>2 DEF LatestFreeze

LEMMA LatestIsLast ==
    ASSUME NEW n \in Nat, NEW S \in SUBSET (1 .. n), n \in S
    PROVE  Latest(S) = n
<1>1. Latest(S) \in S /\ n <= Latest(S)
  BY LatestInSet
<1>2. Latest(S) \in 1 .. n
  BY <1>1
<1> QED
  BY <1>1, <1>2

\* One row of the account itself.
LEMMA RowReplayed ==
    ASSUME NEW w \in Table, NEW row \in AnyRow(TableTexts), NEW state \in ReplayType,
           NEW k, k.contract = row.contract, k.asset = row.asset, k.address = row.address,
           Replays(state, w, k)
    PROVE  Replays(Replayed(state, row.type, row.qty), Append(w, row), k)
<1> DEFINE v == Append(w, row)
           n == Len(w)
<1>1. v \in Table /\ Len(v) = n + 1 /\ n \in Nat /\ v[n + 1] = row
      /\ \A i \in 1 .. n : v[i] = w[i]
  BY DEF Table
<1>2. /\ \A ty : Select(w, k, ty) \in SUBSET (1 .. n)
      /\ \A ty : Select(v, k, ty) \in SUBSET (1 .. n + 1)
  BY <1>1, RowsSelected DEF Table
<1>3. \A ty : Select(v, k, ty) = IF ty = row.type THEN Select(w, k, ty) \cup {n + 1}
                                 ELSE Select(w, k, ty)
  BY <1>1 DEF Select
<1>4. \A i \in 0 .. n : QtyAt(v, i) = QtyAt(w, i)
  BY <1>1 DEF QtyAt
<1>5. QtyAt(v, n + 1) = row.qty /\ n + 1 # 0 /\ QtyAt(v, 0) = 0
  BY <1>1 DEF QtyAt
<1>6. BaseRow(w, k) \in 0 .. n /\ LatestFreeze(w, k) \in 0 .. n
  BY BaseRowType, LatestFreezeType DEF Table
<1>7. row.type \in {"A2", "T2", "T4"}
  BY DEF AnyRow, RowTypes
<1> HIDE DEF v, n
<1>8. CASE row.type = "A2"
  <2>1. BaseRow(v, k) = IF BaseRow(w, k) = 0 THEN n + 1 ELSE BaseRow(w, k)
    BY <1>8, IssueBaseRow DEF Table, v, n
  <2>2. LatestFreeze(v, k) = LatestFreeze(w, k)
    BY <1>3, <1>8 DEF LatestFreeze
  <2>3. Replayed(state, "A2", row.qty)
          = IF state.known THEN state ELSE [state EXCEPT !.known = TRUE, !.held = row.qty]
    BY DEF Replayed, ReplayType
  <2>4. Replays(Replayed(state, "A2", row.qty), v, k)
    BY <1>4, <1>5, <1>6, <2>1, <2>2, <2>3 DEF Replays, ReplayType
  <2> QED
    BY <1>8, <2>4 DEF v
<1>9. CASE row.type = "T2"
  <2>1. Select(v, k, "T4") = Select(w, k, "T4") /\ Select(v, k, "A2") = Select(w, k, "A2")
        /\ Select(v, k, "T2") = Select(w, k, "T2") \cup {n + 1}
    BY <1>3, <1>9
  <2>2. BaseRow(v, k) = BaseRow(w, k)
    BY <2>1 DEF BaseRow
  <2>3. LatestFreeze(v, k) = n + 1
    <3> DEFINE T4 == Select(v, k, "T4")
               T2 == {i \in Select(v, k, "T2") : T4 # {} => i > Latest(T4)}
    <3>1. T4 # {} => n + 1 > Latest(T4)
      <4>1. T4 # {} => Latest(T4) \in 1 .. n
        BY <1>1, <1>2, <2>1, LatestInSet
      <4> QED
        BY <1>1, <4>1
    <3>2. n + 1 \in T2 /\ T2 \in SUBSET (1 .. n + 1) /\ n + 1 \in Nat
      BY <1>1, <1>2, <2>1, <3>1
    <3> HIDE DEF T2
    <3>3. Latest(T2) = n + 1
      BY <3>2, LatestIsLast
    <3> QED
      BY <3>2, <3>3 DEF LatestFreeze, T2
  <2>4. Replayed(state, "T2", row.qty) = [state EXCEPT !.frozen = row.qty]
    BY DEF Replayed
  <2>5. Replays(Replayed(state, "T2", row.qty), v, k)
    BY <1>4, <1>5, <1>6, <2>2, <2>3, <2>4 DEF Replays, ReplayType
  <2> QED
    BY <1>9, <2>5 DEF v
<1>10. CASE row.type = "T4"
  <2> DEFINE T4 == Select(v, k, "T4")
             T2 == {i \in Select(v, k, "T2") : T4 # {} => i > Latest(T4)}
  <2>1. n + 1 \in T4 /\ T4 \in SUBSET (1 .. n + 1) /\ n + 1 \in Nat
    BY <1>1, <1>2, <1>3, <1>10
  <2>2. Latest(T4) = n + 1
    <3> HIDE DEF T4
    <3> QED
      BY <2>1, LatestIsLast
  <2>3. BaseRow(v, k) = n + 1
    BY <2>1, <2>2 DEF BaseRow
  <2>4. LatestFreeze(v, k) = 0
    <3>1. \A i \in Select(v, k, "T2") : ~ (i > n + 1)
      <4> TAKE i \in Select(v, k, "T2")
      <4>1. i \in 1 .. n + 1
        BY <1>2
      <4> QED
        BY <1>1, <4>1
    <3>2. T2 = {}
      BY <2>1, <2>2, <3>1
    <3> QED
      BY <3>2 DEF LatestFreeze
  <2>5. Replayed(state, "T4", row.qty) = [known |-> TRUE, held |-> row.qty, frozen |-> 0]
    BY DEF Replayed
  <2>6. Replays(Replayed(state, "T4", row.qty), v, k)
    BY <1>5, <2>3, <2>4, <2>5 DEF Replays
  <2> QED
    BY <1>10, <2>6 DEF v
<1> QED
  BY <1>7, <1>8, <1>9, <1>10

\* A row of another account.
LEMMA OtherRowReplayed ==
    ASSUME NEW w \in Table, NEW row \in AnyRow(TableTexts), NEW state \in ReplayType, NEW k,
           k.contract # row.contract \/ k.asset # row.asset \/ k.address # row.address,
           Replays(state, w, k)
    PROVE  Replays(state, Append(w, row), k)
<1> DEFINE v == Append(w, row)
<1>1. v \in Table /\ Len(v) = Len(w) + 1 /\ Len(w) \in Nat /\ v[Len(v)] = row
      /\ \A i \in 1 .. Len(w) : v[i] = w[i]
  BY DEF Table
<1>2. ASSUME NEW ty PROVE Select(v, k, ty) = Select(w, k, ty)
  <2>1. Len(v) \notin Select(v, k, ty)
    BY <1>1 DEF Select
  <2>2. \A i \in 1 .. Len(v) : i \in Select(v, k, ty) => i \in 1 .. Len(w)
    BY <1>1, <2>1
  <2> QED
    BY <1>1, <2>1, <2>2 DEF Select
<1>3. BaseRow(v, k) = BaseRow(w, k) /\ LatestFreeze(v, k) = LatestFreeze(w, k)
  BY <1>2 DEF BaseRow, LatestFreeze
<1>4. BaseRow(w, k) \in 0 .. Len(w) /\ LatestFreeze(w, k) \in 0 .. Len(w)
  BY BaseRowType, LatestFreezeType DEF Table
<1>5. \A i \in 0 .. Len(w) : QtyAt(v, i) = QtyAt(w, i)
  BY <1>1 DEF QtyAt
<1> QED
  BY <1>3, <1>4, <1>5 DEF Replays

\* The quantities of the rows are uint64_t.
QuantitiesFit == 0 .. MaxQty \subseteq Qty

LEMMA ReplayStep ==
    ASSUME QuantitiesFit, ReplayInv, [Next]_vars
    PROVE  ReplayInv'
<1>1. CASE \E a \in {holder, other}, ty \in RowTypes, q \in 0 .. MaxQty : Insert(a, ty, q)
  <2>1. PICK a \in {holder, other}, ty \in RowTypes, q \in Qty : Insert(a, ty, q)
    BY <1>1 DEF QuantitiesFit
  <2> DEFINE row == Row(Key(a), q, ty, "txid")
  <2>2. /\ row \in AnyRow(TableTexts) /\ row.type = ty /\ row.qty = q
        /\ row.contract = Key(a).contract /\ row.asset = Key(a).asset
        /\ row.address = Key(a).address
    BY <2>1 DEF Row, Key, AnyRow, TableTexts
  <2>3. wallet' = Append(wallet, row)
        /\ replay' = [replay EXCEPT ![a] = Replayed(replay[a], ty, q)]
    BY <2>1 DEF Insert
  <2> HIDE DEF row
  <2>4. PICK w \in Table : w = wallet
    BY DEF ReplayInv
  <2>5. wallet' \in Table
    BY <2>2, <2>3 DEF ReplayInv, Table
  <2>6. \A state \in ReplayType : Replayed(state, ty, q) \in ReplayType
    <3>1. 0 \in Qty
      BY WidthAssumption DEF Qty
    <3> QED
      BY <2>1, <3>1 DEF Replayed, ReplayType, RowTypes
  <2>7. replay' \in [{holder, other} -> ReplayType]
    BY <2>3, <2>6 DEF ReplayInv
  <2>8. ASSUME NEW b \in {holder, other} PROVE Replays(replay'[b], wallet', Key(b))
    <3>1. replay[b] \in ReplayType /\ Replays(replay[b], w, Key(b))
      BY <2>4 DEF ReplayInv
    <3>2. PICK state \in ReplayType : state = replay[b]
      BY <3>1
    <3>3. CASE b = a
      <4>1. Key(b).contract = row.contract /\ Key(b).asset = row.asset
            /\ Key(b).address = row.address
        BY <2>2, <3>3
      <4>2. Replays(Replayed(state, row.type, row.qty), Append(w, row), Key(b))
        BY <2>2, <3>1, <3>2, <4>1, RowReplayed
      <4>3. replay'[b] = Replayed(state, row.type, row.qty)
        BY <2>2, <2>3, <3>2, <3>3 DEF ReplayInv
      <4> QED
        BY <2>3, <2>4, <4>2, <4>3
    <3>4. CASE b # a
      <4>1. Key(b).address # row.address
        BY <2>2, <3>4 DEF Key
      <4>2. Replays(state, Append(w, row), Key(b))
        BY <2>2, <3>1, <3>2, <4>1, OtherRowReplayed
      <4>3. replay'[b] = state
        BY <2>3, <3>2, <3>4 DEF ReplayInv
      <4> QED
        BY <2>3, <2>4, <4>2, <4>3
    <3> QED
      BY <3>3, <3>4
  <2> QED
    BY <2>5, <2>7, <2>8 DEF ReplayInv
<1>2. CASE ~ (\E a \in {holder, other}, ty \in RowTypes, q \in 0 .. MaxQty : Insert(a, ty, q))
  <2>1. wallet' = wallet /\ replay' = replay
    BY <1>2 DEF Next, vars, AddOutput, Write, CutByte, WritePayload, AddCoin, StartParse,
                Turn, Push
  <2> QED
    BY <2>1 DEF ReplayInv
<1> QED
  BY <1>1, <1>2

LEMMA ReplayInit == Init => ReplayInv
<1> SUFFICES ASSUME Init PROVE ReplayInv
  OBVIOUS
<1>1. << >> \in Table /\ Len(<< >>) = 0
  BY EmptySeq DEF Table
<1>2. Unknown \in ReplayType
  BY WidthAssumption DEF Unknown, ReplayType, Qty
<1>3. ASSUME NEW k PROVE Replays(Unknown, << >>, k)
  <2>1. PICK w \in Table : w = << >> /\ Len(w) = 0
    BY <1>1
  <2>2. BaseRow(w, k) \in 0 .. 0
    BY <2>1, BaseRowType DEF Table
  <2>3. LatestFreeze(w, k) \in 0 .. 0
    BY <2>1, LatestFreezeType
  <2>4. Replays(Unknown, w, k)
    BY <2>2, <2>3 DEF Replays, Unknown, QtyAt
  <2> QED
    BY <2>1, <2>4
<1> QED
  BY <1>1, <1>2, <1>3 DEF Init, ReplayInv

\* For a wallet_info table of any length: the chain of SELECTs of QueryBalance
\* answers what replaying the table row by row gives (Handler::QueryBalance).
THEOREM BalanceIsReplay == QuantitiesFit => (Spec => []QueryBalanceIsReplay)
<1> SUFFICES ASSUME QuantitiesFit PROVE Spec => []QueryBalanceIsReplay
  OBVIOUS
<1>1. ReplayInv => QueryBalanceIsReplay
  <2> SUFFICES ASSUME ReplayInv, NEW a \in {holder, other}
               PROVE  LET state == replay[a]
                          balance == QueryBalance(wallet, Key(a))
                      IN  IF state.known
                          THEN balance.freeze = state.frozen
                               /\ balance.token = Sub64(state.held, state.frozen)
                          ELSE balance = [token |-> 0, freeze |-> 0]
    BY DEF QueryBalanceIsReplay
  <2>1. Replays(replay[a], wallet, Key(a)) /\ replay[a] \in ReplayType
    BY DEF ReplayInv
  <2>2. FreezeRow(wallet, Key(a))
          = IF BaseRow(wallet, Key(a)) = 0 THEN 0 ELSE LatestFreeze(wallet, Key(a))
    BY FreezeOfKnown DEF ReplayInv
  <2>3. QtyAt(wallet, 0) = 0 /\ Sub64(0, 0) = 0
    BY DEF QtyAt, Sub64
  <2> QED
    BY <2>1, <2>2, <2>3 DEF Replays, ReplayType, QueryBalance
<1> QED
  BY <1>1, ReplayInit, ReplayStep, PTL DEF Spec

\* For a table of any length: QueryContract answers the replayed holdings, whatever
\* is frozen and even where taking the freeze away wraps (Handler::QueryContract).
THEOREM ContractIgnoresFreeze == QuantitiesFit => (Spec => []QueryContractIgnoresFreeze)
<1> SUFFICES ASSUME QuantitiesFit PROVE Spec => []QueryContractIgnoresFreeze
  OBVIOUS
<1>1. ReplayInv => QueryContractIgnoresFreeze
  <2> SUFFICES ASSUME ReplayInv, NEW a \in {holder, other}
               PROVE  QueryContract(wallet, Key(a))
                        = IF replay[a].known THEN replay[a].held ELSE 0
    BY DEF QueryContractIgnoresFreeze
  <2>1. Replays(replay[a], wallet, Key(a))
    BY DEF ReplayInv
  <2>2. QueryContract(wallet, Key(a)) = QtyAt(wallet, BaseRow(wallet, Key(a)))
    BY QueryContractIsBase DEF ReplayInv, Table
  <2> QED
    BY <2>1, <2>2 DEF Replays, QtyAt
<1> QED
  BY <1>1, ReplayInit, ReplayStep, PTL DEF Spec

-----------------------------------------------------------------------------
(* The roles of a T2 *)

\* An output of the transaction pays the contract or one of the parties.
OutputsInv == vout \in Seq([addr : {c, s, r}, value : Nat])

LEMMA OutputsStep == OutputsInv /\ [Next]_vars => OutputsInv'
<1> SUFFICES ASSUME OutputsInv, [Next]_vars PROVE OutputsInv'
  OBVIOUS
<1>1. CASE \E a \in {c, s, r}, v \in 1 .. MaxValue : AddOutput(a, v)
  <2>1. PICK a \in {c, s, r}, v \in Nat : vout' = Append(vout, [addr |-> a, value |-> v])
    BY <1>1 DEF AddOutput
  <2> QED
    BY <2>1 DEF OutputsInv
<1>2. CASE ~ (\E a \in {c, s, r}, v \in 1 .. MaxValue : AddOutput(a, v))
  <2>1. vout' = vout
    BY <1>2 DEF Next, vars, Insert, Write, CutByte, WritePayload, AddCoin, StartParse,
                Turn, Push
  <2> QED
    BY <2>1 DEF OutputsInv
<1> QED
  BY <1>1, <1>2

LEMMA LastAddressOf ==
    ASSUME NEW outs \in Seq([addr : {c, s, r}, value : Nat]), NEW a
    PROVE  LastAddress(outs, {i \in 1 .. Len(outs) : outs[i].addr = a})
             = IF \E i \in 1 .. Len(outs) : outs[i].addr = a THEN a ELSE NoAddress
<1> DEFINE S == {i \in 1 .. Len(outs) : outs[i].addr = a}
<1>1. Len(outs) \in Nat
  OBVIOUS
<1>2. CASE S = {}
  BY <1>2 DEF LastAddress
<1>3. CASE S # {}
  <2>1. S \in SUBSET (1 .. Len(outs)) /\ \A i \in S : outs[i].addr = a
    OBVIOUS
  <2> HIDE DEF S
  <2>2. Latest(S) \in S
    BY <1>1, <1>3, <2>1, LatestInSet
  <2>3. LastAddress(outs, S) = outs[Latest(S)].addr
    BY <1>3, Zenon DEF LastAddress, Latest
  <2>4. LastAddress(outs, S) = a
    BY <2>1, <2>2, <2>3
  <2> QED
    BY <1>3, <2>4 DEF S
<1> QED
  BY <1>2, <1>3

\* Whatever a T2 pays the contract and the two parties that fund it, and in whatever
\* order: its outputs are read with the right roles (ResponseActionT2).
THEOREM TransferRolesRight ==
    c # s /\ c # r /\ s # r => (Spec => []T2RolesRight)
<1> SUFFICES ASSUME c # s, c # r, s # r PROVE Spec => []T2RolesRight
  OBVIOUS
<1>1. Init => OutputsInv
  BY EmptySeq DEF Init, OutputsInv
<1>2. OutputsInv => T2RolesRight
  <2> SUFFICES ASSUME OutputsInv PROVE T2RolesRight
    OBVIOUS
  <2> DEFINE vin == <<in(s), in(r)>>
             outs == 1 .. Len(vout)
             change == {i \in outs : vout[i].addr \in InputAddresses(vin)}
             fee == {i \in change : vout[i].addr = s}
             To(a) == {i \in outs : vout[i].addr = a}
  <2>1. InputAddresses(vin) = {s, r}
    <3>1. Len(vin) = 2 /\ vin[1].addr = s /\ vin[2].addr = r
      BY DEF in
    <3>2. 1 .. 2 = {1, 2}
      OBVIOUS
    <3> HIDE DEF vin
    <3> QED
      BY <3>1, <3>2 DEF InputAddresses
  <2>2. \A i \in outs : vout[i].addr \in {c, s, r}
    <3> TAKE i \in outs
    <3>1. vout[i] \in [addr : {c, s, r}, value : Nat]
      BY ElementOfSeq DEF OutputsInv
    <3> QED
      BY <3>1
  <2>3. fee = To(s) /\ change \ fee = To(r) /\ outs \ change = To(c)
    BY <2>1, <2>2
  <2>4. T2Roles(vin, vout, s) = [contract |-> LastAddress(vout, outs \ change),
                                 send |-> LastAddress(vout, fee),
                                 recv |-> LastAddress(vout, change \ fee)]
    BY DEF T2Roles
  <2>5. \A a : LastAddress(vout, To(a)) = IF PaidTo(a) THEN a ELSE NoAddress
    <3> TAKE a
    <3>1. DOMAIN vout = outs
      BY DEF OutputsInv
    <3> QED
      BY <3>1, LastAddressOf DEF OutputsInv, PaidTo
  <2> QED
    BY <2>3, <2>4, <2>5 DEF T2RolesRight
<1> QED
  BY <1>1, <1>2, OutputsStep, PTL DEF Spec

-----------------------------------------------------------------------------
(* The roles of a T4 *)

\* Each address is paid once, as its outputs are the fields of a JSON object.
PaidOnceInv ==
    /\ vout \in Seq([addr : {c, s, r}, value : Nat \ {0}])
    /\ \A i, j \in 1 .. Len(vout) : vout[i].addr = vout[j].addr => i = j

LEMMA PaidOnceStep == PaidOnceInv /\ [Next]_vars => PaidOnceInv'
<1> SUFFICES ASSUME PaidOnceInv, [Next]_vars PROVE PaidOnceInv'
  OBVIOUS
<1>0. Len(vout) \in Nat /\ DOMAIN vout = 1 .. Len(vout)
  BY DEF PaidOnceInv
<1>1. CASE \E a \in {c, s, r}, v \in 1 .. MaxValue : AddOutput(a, v)
  <2>1. PICK a \in {c, s, r}, v \in Nat \ {0} :
           /\ vout' = Append(vout, [addr |-> a, value |-> v])
           /\ \A i \in 1 .. Len(vout) : vout[i].addr # a
    <3>1. PICK a \in {c, s, r}, v \in 1 .. MaxValue : AddOutput(a, v)
      BY <1>1
    <3>2. v \in Nat \ {0}
      OBVIOUS
    <3> QED
      BY <1>0, <3>1, <3>2 DEF AddOutput
  <2> DEFINE out == [addr |-> a, value |-> v]
  <2>2. out \in [addr : {c, s, r}, value : Nat \ {0}] /\ out.addr = a
    OBVIOUS
  <2> HIDE DEF out
  <2>3. vout' \in Seq([addr : {c, s, r}, value : Nat \ {0}])
    <3> DEFINE Outs == [addr : {c, s, r}, value : Nat \ {0}]
    <3>1. vout \in Seq(Outs) /\ out \in Outs /\ vout' = Append(vout, out)
      BY <2>1, <2>2 DEF PaidOnceInv, out
    <3> HIDE DEF Outs
    <3>2. vout' \in Seq(Outs)
      BY <3>1
    <3> QED
      BY <3>2 DEF Outs
  <2>4. /\ Len(vout') = Len(vout) + 1 /\ vout'[Len(vout) + 1] = out
        /\ \A i \in 1 .. Len(vout) : vout'[i] = vout[i]
    BY <2>1 DEF PaidOnceInv, out
  <2>5. ASSUME NEW i \in 1 .. Len(vout'), NEW j \in 1 .. Len(vout'),
               vout'[i].addr = vout'[j].addr
        PROVE  i = j
    BY <1>0, <2>1, <2>2, <2>4, <2>5 DEF PaidOnceInv
  <2> QED
    BY <2>3, <2>5 DEF PaidOnceInv
<1>2. CASE ~ (\E a \in {c, s, r}, v \in 1 .. MaxValue : AddOutput(a, v))
  <2>1. vout' = vout
    BY <1>2 DEF Next, vars, Insert, Write, CutByte, WritePayload, AddCoin, StartParse,
                Turn, Push
  <2> QED
    BY <2>1 DEF PaidOnceInv
<1> QED
  BY <1>1, <1>2

NoRoles == [send |-> NoAddress, recv |-> NoAddress, value |-> 0]

\* One turn of the loop over the outputs whose indices are in u, the last one last.
AfterLast(g, outs, k, u) ==
    IF u = {} THEN NoRoles ELSE T4Step(g[u \ {Max(u)}], outs[Max(u)], k)

\* g gives each set of indices the roles after the outputs they stand for, as
\* FoldLeft computes them.
IsLoop(g, outs, k) ==
    g = [u \in SUBSET (DOMAIN outs) |-> AfterLast(g, outs, k, u)]

LEMMA MaxUpTo ==
    ASSUME NEW n \in Nat, NEW u \in SUBSET (1 .. n), u # {}
    PROVE  Max(u) \in u /\ \A i \in u : i <= Max(u)
<1>1. \E m \in u : \A i \in u : m >= i
  <2>1. Latest(u) \in u /\ \A i \in u : i <= Latest(u)
    BY LatestInSet DEF Latest
  <2> QED
    BY <2>1
<1> QED
  BY <1>1 DEF Max

\* The loop has at most three turns.
LEMMA LoopExists ==
    ASSUME NEW outs, NEW k, NEW n \in 0 .. 3, DOMAIN outs = 1 .. n
    PROVE  \E g : IsLoop(g, outs, k)
<1> DEFINE D == SUBSET (1 .. n)
           zero == [u \in D |-> NoRoles]
           one == [u \in D |-> AfterLast(zero, outs, k, u)]
           two == [u \in D |-> AfterLast(one, outs, k, u)]
           three == [u \in D |-> AfterLast(two, outs, k, u)]
<1>1. ASSUME NEW m \in 1 .. 3, NEW u \in D, u \subseteq 1 .. m, u # {}
      PROVE  u \ {Max(u)} \in D /\ u \ {Max(u)} \subseteq 1 .. (m - 1)
  <2>1. u \in SUBSET (1 .. m) /\ m \in Nat
    BY <1>1
  <2>2. Max(u) \in 1 .. m /\ \A i \in u : i <= Max(u)
    BY <1>1, <2>1, MaxUpTo
  <2>3. ASSUME NEW i \in u \ {Max(u)} PROVE i \in 1 .. (m - 1)
    <3>1. i \in 1 .. m /\ i <= Max(u) /\ i # Max(u)
      BY <2>1, <2>2
    <3> QED
      BY <2>2, <3>1
  <2> QED
    BY <2>3
<1>2. ASSUME NEW u \in D, u \subseteq 1 .. 0 PROVE one[u] = zero[u]
  <2>1. u = {}
    BY <1>2
  <2> QED
    BY <2>1 DEF AfterLast
<1>3. ASSUME NEW u \in D, u \subseteq 1 .. 1 PROVE two[u] = one[u]
  <2>1. two[u] = AfterLast(one, outs, k, u) /\ one[u] = AfterLast(zero, outs, k, u)
    OBVIOUS
  <2>2. u # {} => one[u \ {Max(u)}] = zero[u \ {Max(u)}]
    <3> HIDE DEF one, zero
    <3> QED
      BY <1>1, <1>2, <1>3
  <2> HIDE DEF one, two, zero
  <2> QED
    BY <2>1, <2>2 DEF AfterLast
<1>4. ASSUME NEW u \in D, u \subseteq 1 .. 2 PROVE three[u] = two[u]
  <2>1. three[u] = AfterLast(two, outs, k, u) /\ two[u] = AfterLast(one, outs, k, u)
    OBVIOUS
  <2>2. u # {} => two[u \ {Max(u)}] = one[u \ {Max(u)}]
    <3> HIDE DEF one, two, zero
    <3> QED
      BY <1>1, <1>3, <1>4
  <2> HIDE DEF one, two, three
  <2> QED
    BY <2>1, <2>2 DEF AfterLast
<1>5. ASSUME NEW u \in D PROVE three[u] = AfterLast(three, outs, k, u)
  <2>1. three[u] = AfterLast(two, outs, k, u)
    OBVIOUS
  <2>2. u # {} => three[u \ {Max(u)}] = two[u \ {Max(u)}]
    <3>1. u \subseteq 1 .. 3
      OBVIOUS
    <3> HIDE DEF two, three
    <3> QED
      BY <1>1, <1>4, <3>1
  <2> HIDE DEF two, three
  <2> QED
    BY <2>1, <2>2 DEF AfterLast
<1>6. three = [u \in D |-> three[u]]
  OBVIOUS
<1>7. three = [u \in D |-> AfterLast(three, outs, k, u)]
  <2> HIDE DEF three
  <2> QED
    BY <1>5, <1>6
<1> QED
  BY <1>7 DEF IsLoop

\* The outputs are taken in order.
LEMMA RolesInOrder ==
    ASSUME NEW vin, NEW outs, NEW n \in 0 .. 3, DOMAIN outs = 1 .. n
    PROVE  \E h : /\ T4Roles(vin, outs) = h[n] /\ h[0] = NoRoles
                  /\ \A m \in 1 .. n : h[m] = T4Step(h[m - 1], outs[m], T4Contract(vin))
<1> DEFINE k == T4Contract(vin)
           g == CHOOSE iter : IsLoop(iter, outs, k)
           h == [m \in 0 .. n |-> g[1 .. m]]
<1>1. IsLoop(g, outs, k)
  BY LoopExists
<1>2. T4Roles(vin, outs) = g[1 .. n]
  BY DEF T4Roles, FoldLeft, MapThenFoldSet, IsLoop, AfterLast, NoRoles
<1> HIDE DEF g
<1>3. h[0] = NoRoles
  <2>1. h[0] = g[{}]
    OBVIOUS
  <2> HIDE DEF h
  <2> QED
    BY <1>1, <2>1 DEF IsLoop, AfterLast
<1>4. ASSUME NEW m \in 1 .. n PROVE h[m] = T4Step(h[m - 1], outs[m], k)
  <2>1. h[m] = g[1 .. m] /\ h[m - 1] = g[1 .. (m - 1)]
    OBVIOUS
  <2>2. Max(1 .. m) = m
    <3>1. m \in Nat /\ 1 .. m \in SUBSET (1 .. m) /\ m \in 1 .. m
      OBVIOUS
    <3>2. Max(1 .. m) \in 1 .. m /\ m <= Max(1 .. m)
      BY <3>1, MaxUpTo
    <3> QED
      BY <3>2
  <2>3. (1 .. m) \ {m} = 1 .. (m - 1) /\ 1 .. m # {} /\ 1 .. m \in SUBSET (DOMAIN outs)
    <3>1. ASSUME NEW i PROVE i \in (1 .. m) \ {m} <=> i \in 1 .. (m - 1)
      OBVIOUS
    <3>2. m \in 1 .. m /\ 1 .. m \subseteq 1 .. n
      OBVIOUS
    <3> QED
      BY <3>1, <3>2
  <2>4. g[1 .. m] = AfterLast(g, outs, k, 1 .. m)
    BY <1>1, <2>3 DEF IsLoop
  <2> QED
    BY <2>1, <2>2, <2>3, <2>4 DEF AfterLast
<1>5. T4Roles(vin, outs) = h[n]
  BY <1>2
<1> QED
  BY <1>3, <1>4, <1>5

\* What one or two outputs of the parties make of the roles.
LEMMA PartiesRead ==
    ASSUME c # s, c # r, NEW x, NEW y, x.addr = s, y.addr = r,
           x.value \in Nat, y.value \in Nat \ {0}, x.value > y.value
    PROVE  /\ T4Step(T4Step(NoRoles, x, c), y, c) = [send |-> s, recv |-> r, value |-> x.value]
           /\ T4Step(T4Step(NoRoles, y, c), x, c)
                = [send |-> s, recv |-> NoAddress, value |-> x.value]
<1>0. x.value > 0 /\ y.value > 0
  OBVIOUS
<1>1. T4Step(NoRoles, x, c) = [send |-> s, recv |-> NoAddress, value |-> x.value]
  <2>1. T4Step([send |-> NoAddress, recv |-> NoAddress, value |-> 0], x, c)
          = [send |-> s, recv |-> NoAddress, value |-> x.value]
    BY <1>0 DEF T4Step
  <2> QED
    BY <2>1 DEF NoRoles
<1>2. T4Step(NoRoles, y, c) = [send |-> r, recv |-> NoAddress, value |-> y.value]
  <2>1. T4Step([send |-> NoAddress, recv |-> NoAddress, value |-> 0], y, c)
          = [send |-> r, recv |-> NoAddress, value |-> y.value]
    BY <1>0 DEF T4Step
  <2> QED
    BY <2>1 DEF NoRoles
<1>3. T4Step([send |-> s, recv |-> NoAddress, value |-> x.value], y, c)
        = [send |-> s, recv |-> r, value |-> x.value]
  BY DEF T4Step
<1>4. T4Step([send |-> r, recv |-> NoAddress, value |-> y.value], x, c)
        = [send |-> s, recv |-> NoAddress, value |-> x.value]
  BY DEF T4Step
<1> QED
  BY <1>1, <1>2, <1>3, <1>4

LEMMA ContractSkipped == ASSUME NEW roles, NEW z, z.addr = c PROVE T4Step(roles, z, c) = roles
BY DEF T4Step

\* Whatever a T4 pays the two parties, in whatever order and with or without change:
\* its sender is found if he is paid more, and its receiver if the sender's output
\* comes first (ResponseActionT4).
THEOREM StatementRolesRight ==
    c # s /\ c # r /\ s # r => (Spec => []T4RolesRightOrMissing)
<1> SUFFICES ASSUME c # s, c # r, s # r PROVE Spec => []T4RolesRightOrMissing
  OBVIOUS
<1>1. Init => PaidOnceInv
  <2>1. Len(<< >>) = 0
    OBVIOUS
  <2> QED
    BY <2>1, EmptySeq DEF Init, PaidOnceInv
<1>2. PaidOnceInv => T4RolesRightOrMissing
  <2> SUFFICES ASSUME PaidOnceInv, PaidTo(s), PaidTo(r), ValueOf(s) > ValueOf(r)
               PROVE  LET roles == T4Roles(<<in(c)>>, vout)
                          first == \E i, j \in DOMAIN vout :
                                      i < j /\ vout[i].addr = s /\ vout[j].addr = r
                      IN  roles.send = s /\ roles.recv = IF first THEN r ELSE NoAddress
    BY DEF T4RolesRightOrMissing
  <2> DEFINE n == Len(vout)
             vin == <<in(c)>>
             roles == T4Roles(vin, vout)
  <2>1. /\ n \in Nat /\ DOMAIN vout = 1 .. n
        /\ \A i \in 1 .. n : vout[i].addr \in {c, s, r} /\ vout[i].value \in Nat \ {0}
    <3> DEFINE Outs == [addr : {c, s, r}, value : Nat \ {0}]
    <3>1. vout \in Seq(Outs)
      BY DEF PaidOnceInv
    <3>2. \A i \in 1 .. n : vout[i] \in Outs
      <4> HIDE DEF Outs
      <4> QED
        BY <3>1, ElementOfSeq
    <3> QED
      BY <3>1, <3>2
  <2>2. \A i, j \in 1 .. n : vout[i].addr = vout[j].addr => i = j
    BY DEF PaidOnceInv
  <2> HIDE DEF n
  <2>3. n \in 0 .. 3
    <3> SUFFICES ASSUME n > 3 PROVE FALSE
      BY <2>1
    <3>1. 1 \in 1 .. n /\ 2 \in 1 .. n /\ 3 \in 1 .. n /\ 4 \in 1 .. n
      BY <2>1
    <3> QED
      BY <2>1, <2>2, <3>1
  <2>4. PICK i \in 1 .. n : vout[i].addr = s
    BY <2>1 DEF PaidTo
  <2>5. PICK j \in 1 .. n : vout[j].addr = r
    BY <2>1 DEF PaidTo
  <2>6. vout[i].value > vout[j].value
    <3>1. \A l \in 1 .. n : ValueOf(vout[l].addr) = vout[l].value
      BY <2>1, <2>2 DEF ValueOf
    <3> QED
      BY <2>4, <2>5, <3>1
  <2>7. T4Contract(vin) = c
    BY DEF T4Contract, in
  <2> HIDE DEF vin
  <2>8. PICK h : /\ roles = h[n] /\ h[0] = NoRoles
                 /\ \A m \in 1 .. n : h[m] = T4Step(h[m - 1], vout[m], c)
    <3>1. PICK h : /\ T4Roles(vin, vout) = h[n] /\ h[0] = NoRoles
                   /\ \A m \in 1 .. n : h[m] = T4Step(h[m - 1], vout[m], T4Contract(vin))
      <4> HIDE DEF roles
      <4> QED
        BY <2>1, <2>3, RolesInOrder
    <3>2. \A m \in 1 .. n : h[m] = T4Step(h[m - 1], vout[m], c)
      BY <2>7, <3>1
    <3> QED
      BY <3>1, <3>2
  <2>9. \A m \in 1 .. n : m # i /\ m # j => vout[m].addr = c
    BY <2>1, <2>2, <2>4, <2>5
  <2>10. \A m \in 1 .. n : m # i /\ m # j => h[m] = h[m - 1]
    BY <2>8, <2>9, ContractSkipped
  <2> HIDE DEF roles
  <2>11. CASE i < j
    <3>1. h[i - 1] = NoRoles
      <4>1. \A m \in 1 .. n : m < i => h[m] = h[m - 1]
        BY <2>10, <2>11
      <4> QED
        BY <2>3, <2>8, <4>1
    <3>2. h[i] = T4Step(NoRoles, vout[i], c)
      BY <2>8, <3>1
    <3>3. h[j - 1] = h[i]
      <4>1. j = i + 1 \/ (j = i + 2 /\ i + 1 \in 1 .. n /\ i + 1 # i /\ i + 1 # j)
        BY <2>3, <2>11
      <4>2. j = i + 2 => h[i + 1] = h[i]
        <5>1. i + 1 - 1 = i
          OBVIOUS
        <5> QED
          BY <2>10, <4>1, <5>1
      <4>3. j = i + 2 => j - 1 = i + 1
        OBVIOUS
      <4>4. j = i + 1 => j - 1 = i
        OBVIOUS
      <4> QED
        BY <4>1, <4>2, <4>3, <4>4
    <3>4. h[j] = T4Step(T4Step(NoRoles, vout[i], c), vout[j], c)
      BY <2>8, <3>2, <3>3
    <3>5. h[n] = h[j]
      <4>1. n = j \/ (n = j + 1 /\ n # i /\ n # j)
        BY <2>3, <2>11
      <4>2. n = j + 1 => n - 1 = j /\ n \in 1 .. n
        OBVIOUS
      <4> QED
        BY <2>10, <4>1, <4>2
    <3>6. roles = [send |-> s, recv |-> r, value |-> vout[i].value]
      BY <2>1, <2>4, <2>5, <2>6, <2>8, <3>4, <3>5, PartiesRead
    <3> QED
      BY <2>1, <2>4, <2>5, <2>11, <3>6 DEF roles, vin
  <2>12. CASE j < i
    <3>1. h[j - 1] = NoRoles
      <4>1. \A m \in 1 .. n : m < j => h[m] = h[m - 1]
        BY <2>10, <2>12
      <4> QED
        BY <2>3, <2>8, <4>1
    <3>2. h[j] = T4Step(NoRoles, vout[j], c)
      BY <2>8, <3>1
    <3>3. h[i - 1] = h[j]
      <4>1. i = j + 1 \/ (i = j + 2 /\ j + 1 \in 1 .. n /\ j + 1 # i /\ j + 1 # j)
        BY <2>3, <2>12
      <4>2. i = j + 2 => h[j + 1] = h[j]
        <5>1. j + 1 - 1 = j
          OBVIOUS
        <5> QED
          BY <2>10, <4>1, <5>1
      <4>3. i = j + 2 => i - 1 = j + 1
        OBVIOUS
      <4>4. i = j + 1 => i - 1 = j
        OBVIOUS
      <4> QED
        BY <4>1, <4>2, <4>3, <4>4
    <3>4. h[i] = T4Step(T4Step(NoRoles, vout[j], c), vout[i], c)
      BY <2>8, <3>2, <3>3
    <3>5. h[n] = h[i]
      <4>1. n = i \/ (n = i + 1 /\ n # i /\ n # j)
        BY <2>3, <2>12
      <4>2. n = i + 1 => n - 1 = i /\ n \in 1 .. n
        OBVIOUS
      <4> QED
        BY <2>10, <4>1, <4>2
    <3>6. roles = [send |-> s, recv |-> NoAddress, value |-> vout[i].value]
      BY <2>1, <2>4, <2>5, <2>6, <2>8, <3>4, <3>5, PartiesRead
    <3>7. ~ \E l, m \in DOMAIN vout : l < m /\ vout[l].addr = s /\ vout[m].addr = r
      BY <2>1, <2>2, <2>4, <2>5, <2>12
    <3> QED
      BY <3>6, <3>7 DEF roles, vin
  <2>13. i # j
    BY <2>4, <2>5
  <2> QED
    BY <2>11, <2>12, <2>13
<1> QED
  BY <1>1, <1>2, PaidOnceStep, PTL DEF Spec

-----------------------------------------------------------------------------
(* The parser of the contract machine *)

MachineType ==
    [phase : {"idle", "parse", "run", "thrown"}, input : Seq(Nat), position : Nat,
     codes : Seq(Nat), data : Seq(Nat)]

Pushes(m) == Len(m.codes) + Len(m.data)

\* A parse of some bytes stands at one of them: at a length that takes it no further,
\* or with no more behind it than a turn for every two bytes.
Standing(m) ==
    m.phase = "parse" /\ m.input # << >> =>
        /\ m.position < Len(m.input)
        /\ m.input[m.position + 1] \in {0, 1} \/ 2 * Pushes(m) <= m.position

ParserInv ==
    /\ machine \in MachineType
    /\ machine.phase \in {"idle", "run"} => machine.input = << >>
    /\ Standing(machine)

LEMMA PushesType ==
    ASSUME NEW m \in MachineType
    PROVE  /\ Pushes(m) \in Nat /\ m.codes \in Seq(Nat) /\ m.data \in Seq(Nat)
           /\ m.position \in Nat /\ m.input \in Seq(Nat)
<1>1. /\ m.codes \in Seq(Nat) /\ m.data \in Seq(Nat)
      /\ m.position \in Nat /\ m.input \in Seq(Nat)
  BY DEF MachineType
<1>2. PICK k \in Nat, l \in Nat : k = Len(m.codes) /\ l = Len(m.data)
  BY <1>1
<1>3. Pushes(m) = k + l
  BY <1>2 DEF Pushes
<1> QED
  BY <1>1, <1>3

LEMMA DecimalSizeType == \A b : DecimalSize(b) \in {1, 2, 3}
BY DEF DecimalSize

\* A turn comes to an end of the parse only by an exception, and past a length only
\* if it is at least 2 and the next one is still in the input.
LEMMA TurnTaken ==
    ASSUME NEW m \in MachineType, m.phase = "parse", Standing(m)
    PROVE  /\ Parse(m) \in MachineType /\ Parse(m).phase # "idle"
           /\ Parse(m).phase = "run" => Parse(m).input = << >>
           /\ Standing(Parse(m))
<1> DEFINE n == m.input[m.position + 1]
           b == m.input[m.position + n + 1]
<1> m.position \in Nat /\ m.input \in Seq(Nat) /\ m.codes \in Seq(Nat) /\ m.data \in Seq(Nat)
    /\ Len(m.input) \in Nat /\ Len(m.codes) \in Nat /\ Len(m.data) \in Nat
  BY DEF MachineType
<1>1. CASE m.position >= Len(m.input)
  <2>1. m.input = << >>
    BY <1>1 DEF Standing
  <2>2. Parse(m) = [m EXCEPT !.phase = "run"]
    BY <1>1 DEF Parse
  <2> QED
    BY <2>1, <2>2 DEF MachineType, Standing
<1>2. CASE m.position < Len(m.input)
  <2>1. n \in Nat
    BY <1>2, ElementOfSeq
  <2>2. CASE n > 0 /\ m.position + n >= Len(m.input)
    <3>1. Parse(m) = [m EXCEPT !.phase = "thrown"]
      BY <1>2, <2>2 DEF Parse
    <3> QED
      BY <3>1 DEF MachineType, Standing
  <2>3. CASE ~ (n > 0 /\ m.position + n >= Len(m.input)) /\ n = 1
    <3>1. b \in Nat
      <4>1. m.position + 2 \in 1 .. Len(m.input) /\ m.position + n + 1 = m.position + 2
        BY <2>3
      <4>2. m.input[m.position + 2] \in Nat
        BY <4>1, ElementOfSeq
      <4> QED
        BY <4>1, <4>2
    <3>2. \/ Parse(m) = [m EXCEPT !.codes = Append(m.codes, b)]
          \/ Parse(m) = [m EXCEPT !.data = Append(m.data, DecimalSize(b))]
      BY <1>2, <2>3 DEF Parse, PushCode, PushData
    <3>3. Append(m.codes, b) \in Seq(Nat) /\ Append(m.data, DecimalSize(b)) \in Seq(Nat)
      <4>1. PICK digits \in Nat : digits = DecimalSize(b)
        BY DEF DecimalSize
      <4> QED
        BY <3>1, <4>1
    <3>4. /\ Parse(m) \in MachineType /\ Parse(m).phase = "parse"
          /\ Parse(m).position = m.position /\ Parse(m).input = m.input
      BY <3>2, <3>3 DEF MachineType
    <3> QED
      BY <1>2, <2>3, <3>4 DEF Standing
  <2>4. CASE ~ (n > 0 /\ m.position + n >= Len(m.input)) /\ n # 1
    <3> DEFINE size == n * DecimalSize(b)
    <3>1. size \in Nat
      <4>1. DecimalSize(b) = 1 \/ DecimalSize(b) = 2 \/ DecimalSize(b) = 3
        BY DecimalSizeType
      <4> QED
        BY <2>1, <4>1
    <3>2. Parse(m) = [[m EXCEPT !.data = Append(m.data, size)] EXCEPT !.position = m.position + n]
      BY <1>2, <2>4 DEF Parse, PushData
    <3> HIDE DEF size
    <3>3. /\ Append(m.data, size) \in Seq(Nat) /\ m.position + n \in Nat
          /\ Len(Append(m.data, size)) = Len(m.data) + 1
      BY <2>1, <3>1
    <3>4. /\ Parse(m) \in MachineType /\ Parse(m).phase = "parse" /\ Parse(m).input = m.input
          /\ Parse(m).position = m.position + n /\ Pushes(Parse(m)) = Pushes(m) + 1
      <4> HIDE DEF n
      <4>1. /\ Parse(m) \in MachineType /\ Parse(m).phase = "parse" /\ Parse(m).input = m.input
            /\ Parse(m).position = m.position + n
        BY <3>2, <3>3 DEF MachineType
      <4>2. Parse(m).codes = m.codes /\ Parse(m).data = Append(m.data, size)
        BY <3>2 DEF MachineType
      <4>3. PICK k \in Nat, l \in Nat : k = Len(m.codes) /\ l = Len(m.data)
        OBVIOUS
      <4>4. Pushes(Parse(m)) = k + (l + 1) /\ Pushes(m) = k + l
        BY <3>3, <4>2, <4>3 DEF Pushes
      <4> QED
        BY <4>1, <4>4
    <3>5. CASE n = 0
      <4>1. Parse(m).position = m.position /\ m.input[m.position + 1] = 0
        BY <3>4, <3>5
      <4> QED
        BY <1>2, <3>4, <4>1 DEF Standing
    <3>6. CASE n # 0
      <4>1. n >= 2 /\ m.position + n < Len(m.input)
        <5> HIDE DEF n
        <5> QED
          BY <2>1, <2>4, <3>6
      <4>2. Pushes(m) \in Nat /\ 2 * Pushes(m) <= m.position
        <5>1. m.input # << >> /\ m.input[m.position + 1] \notin {0, 1}
          BY <1>2, <2>4, <3>6
        <5>2. 2 * Pushes(m) <= m.position
          BY <5>1 DEF Standing
        <5> QED
          BY <5>2, PushesType
      <4>3. 2 * (Pushes(m) + 1) <= m.position + n
        <5> HIDE DEF n
        <5> QED
          BY <2>1, <4>1, <4>2
      <4> QED
        BY <3>4, <4>1, <4>3 DEF Standing
    <3> QED
      BY <3>5, <3>6
  <2> QED
    BY <2>2, <2>3, <2>4
<1> QED
  BY <1>1, <1>2

LEMMA ParserStep == Bytes \subseteq Nat /\ ParserInv /\ [Next]_vars => ParserInv'
<1> SUFFICES ASSUME Bytes \subseteq Nat, ParserInv, [Next]_vars PROVE ParserInv'
  OBVIOUS
<1>1. CASE StartParse
  <2>1. PICK n \in 0 .. MaxInput : \E input \in [1 .. n -> Bytes] : machine' = Parsing(input)
    BY <1>1 DEF StartParse
  <2>2. PICK input \in [1 .. n -> Bytes] : machine' = Parsing(input)
    BY <2>1
  <2>3. input \in Seq(Nat)
    <3>1. n \in Nat
      OBVIOUS
    <3>2. input \in [1 .. n -> Nat]
      OBVIOUS
    <3> QED
      BY <3>1, <3>2, SeqDef
  <2>4. machine' \in MachineType /\ machine'.phase = "parse"
    <3>1. << >> \in Seq(Nat)
      BY EmptySeq
    <3> QED
      BY <2>2, <2>3, <3>1 DEF Parsing, MachineType
  <2>5. Standing(machine')
    <3>1. machine'.input = input /\ machine'.position = 0 /\ Pushes(machine') = 0
      BY <2>2 DEF Parsing, Pushes
    <3>2. input # << >> => 0 < Len(input)
      BY <2>3
    <3> QED
      BY <3>1, <3>2 DEF Standing
  <2> QED
    BY <2>2, <2>3, <2>4, <2>5 DEF ParserInv
<1>2. CASE Turn
  <2>1. machine.phase = "parse" /\ machine' = Parse(machine)
    BY <1>2 DEF Turn
  <2> QED
    BY <2>1, TurnTaken DEF ParserInv, MachineType
<1>3. CASE Push
  <2>1. machine.phase = "idle" /\ machine \in MachineType
    BY <1>3 DEF Push, ParserInv
  <2>2. CASE \E b \in {x \in Bytes : IsOpCode(x)} : machine' = PushCode(machine, b)
    <3>1. PICK b \in Nat : machine' = [machine EXCEPT !.codes = Append(machine.codes, b)]
      BY <2>2 DEF PushCode
    <3>2. Append(machine.codes, b) \in Seq(Nat)
      BY <2>1 DEF MachineType
    <3> QED
      BY <2>1, <3>1, <3>2 DEF ParserInv, MachineType, Standing
  <2>3. CASE \E n \in {1, CONTRACT_HASH_SIZE} : machine' = PushData(machine, n)
    <3>1. PICK n \in Nat : machine' = [machine EXCEPT !.data = Append(machine.data, n)]
      BY <2>3 DEF PushData, CONTRACT_HASH_SIZE
    <3>2. Append(machine.data, n) \in Seq(Nat)
      BY <2>1 DEF MachineType
    <3> QED
      BY <2>1, <3>1, <3>2 DEF ParserInv, MachineType, Standing
  <2> QED
    BY <1>3, <2>2, <2>3 DEF Push
<1>4. CASE ~ (StartParse \/ Turn \/ Push)
  <2>1. machine' = machine
    BY <1>4 DEF Next, vars, Insert, AddOutput, Write, CutByte, WritePayload, AddCoin
  <2> QED
    BY <2>1 DEF ParserInv, Standing, Pushes
<1> QED
  BY <1>1, <1>2, <1>3, <1>4

LEMMA ParserInit == Init => ParserInv
<1>1. << >> \in Seq(Nat)
  BY EmptySeq
<1> QED
  BY <1>1 DEF Init, Idle, ParserInv, MachineType, Standing

\* On inputs of any length: RunContract throws, or goes on for ever at a length of 0
\* or 1, unless there is nothing to parse.
THEOREM ParseIsEndless == Bytes \subseteq Nat => (Spec => []ParseNeverEnds)
<1> SUFFICES ASSUME Bytes \subseteq Nat PROVE Spec => []ParseNeverEnds
  OBVIOUS
<1>1. Init => ParserInv
  BY ParserInit
<1>2. ParserInv => ParseNeverEnds
  <2> SUFFICES ASSUME ParserInv, machine.input # << >>
               PROVE  /\ machine.phase # "run"
                      /\ machine.phase = "parse" =>
                           /\ machine.position < Len(machine.input)
                           /\ 2 * Pushes(machine) >= Len(machine.input) =>
                                machine.input[machine.position + 1] \in {0, 1}
    BY DEF ParseNeverEnds, Pushes
  <2>1. /\ machine.position \in Nat /\ Len(machine.input) \in Nat
        /\ Pushes(machine) \in Nat
    BY PushesType DEF ParserInv
  <2>2. machine.phase # "run"
    BY DEF ParserInv
  <2>3. ASSUME machine.phase = "parse"
        PROVE  /\ machine.position < Len(machine.input)
               /\ 2 * Pushes(machine) >= Len(machine.input) =>
                    machine.input[machine.position + 1] \in {0, 1}
    <3>1. /\ machine.position < Len(machine.input)
          /\ \/ machine.input[machine.position + 1] \in {0, 1}
             \/ 2 * Pushes(machine) <= machine.position
      BY <2>3 DEF ParserInv, Standing
    <3> QED
      BY <2>1, <3>1
  <2> QED
    BY <2>2, <2>3
<1> QED
  BY <1>1, <1>2, ParserStep, PTL DEF Spec

-----------------------------------------------------------------------------
(* The checks of the contract machine *)

\* The codes up to n are what the machine wants them to be.
Offers(codes, data, n) ==
    \A i \in 1 .. n : codes[i] = OfferCode => i = 1 /\ data = <<CONTRACT_HASH_SIZE>>

\* run pops the codes one by one.
Runs(run, codes, data) ==
    run = [n \in 0 .. Len(codes) |->
              IF n = 0 THEN "OK"
              ELSE IF codes[n] # OfferCode THEN run[n - 1]
              ELSE IF n # 1 \/ Len(data) # 1 THEN "FORMAT_ERROR"
              ELSE IF data[1] # CONTRACT_HASH_SIZE THEN "FORMAT_ERROR"
              ELSE run[n - 1]]

Verdicts(codes, data) ==
    [n \in 0 .. Len(codes) |-> IF Offers(codes, data, n) THEN "OK" ELSE "FORMAT_ERROR"]

LEMMA OneHash ==
    ASSUME NEW data \in Seq(Nat)
    PROVE  data = <<CONTRACT_HASH_SIZE>> <=> Len(data) = 1 /\ data[1] = CONTRACT_HASH_SIZE
OBVIOUS

LEMMA NextVerdict ==
    ASSUME NEW codes \in Seq(Nat), NEW data \in Seq(Nat), NEW n \in 1 .. Len(codes)
    PROVE  Offers(codes, data, n) <=>
             /\ Offers(codes, data, n - 1)
             /\ codes[n] = OfferCode => n = 1 /\ Len(data) = 1 /\ data[1] = CONTRACT_HASH_SIZE
<1>1. n - 1 \in Nat /\ 1 .. n = (1 .. n - 1) \cup {n}
  OBVIOUS
<1> QED
  BY <1>1, OneHash DEF Offers

LEMMA VerdictsRun ==
    ASSUME NEW codes \in Seq(Nat), NEW data \in Seq(Nat)
    PROVE  Runs(Verdicts(codes, data), codes, data)
<1> DEFINE v == Verdicts(codes, data)
           step(n) == IF n = 0 THEN "OK"
                      ELSE IF codes[n] # OfferCode THEN v[n - 1]
                      ELSE IF n # 1 \/ Len(data) # 1 THEN "FORMAT_ERROR"
                      ELSE IF data[1] # CONTRACT_HASH_SIZE THEN "FORMAT_ERROR"
                      ELSE v[n - 1]
<1>1. Len(codes) \in Nat
  OBVIOUS
<1>2. \A n \in 0 .. Len(codes) : v[n] = IF Offers(codes, data, n) THEN "OK" ELSE "FORMAT_ERROR"
  BY DEF Verdicts
<1>3. ASSUME NEW n \in 0 .. Len(codes) PROVE v[n] = step(n)
  <2>1. CASE n = 0
    <3>1. Offers(codes, data, 0)
      BY DEF Offers
    <3> HIDE DEF v
    <3> QED
      BY <1>1, <1>2, <2>1, <3>1
  <2>2. CASE n # 0
    <3>1. n \in 1 .. Len(codes) /\ n - 1 \in 0 .. Len(codes)
      BY <1>1, <2>2
    <3>2. v[n - 1] = IF Offers(codes, data, n - 1) THEN "OK" ELSE "FORMAT_ERROR"
      BY <1>2, <3>1
    <3>3. v[n] = IF Offers(codes, data, n) THEN "OK" ELSE "FORMAT_ERROR"
      BY <1>2
    <3>4. CASE n = 1
      <4>1. Offers(codes, data, n - 1)
        BY <3>4 DEF Offers
      <4> HIDE DEF v
      <4> QED
        BY <2>2, <3>1, <3>2, <3>3, <3>4, <4>1, NextVerdict
    <3> HIDE DEF v
    <3>5. CASE n # 1
      BY <2>2, <3>1, <3>2, <3>3, <3>5, NextVerdict
    <3> QED
      BY <3>4, <3>5
  <2> QED
    BY <2>1, <2>2
<1>4. v = [n \in 0 .. Len(codes) |-> v[n]]
  BY DEF Verdicts
<1> HIDE DEF v
<1>5. v = [n \in 0 .. Len(codes) |-> step(n)]
  <2> HIDE DEF step
  <2> QED
    BY <1>3, <1>4
<1> QED
  BY <1>5 DEF Runs, v

\* There is only one way to run the codes.
LEMMA RunsAgree ==
    ASSUME NEW codes \in Seq(Nat), NEW data, NEW f, NEW g,
           Runs(f, codes, data), Runs(g, codes, data)
    PROVE  f = g
<1> DEFINE C == {n \in 0 .. Len(codes) : f[n] # g[n]}
<1>1. Len(codes) \in Nat
  OBVIOUS
<1>2. C = {}
  <2>1. SUFFICES ASSUME C # {} PROVE FALSE
    OBVIOUS
  <2>2. C \in SUBSET Nat
    BY <1>1
  <2>3. PICK m \in C : \A n \in C : m <= n
    <3> HIDE DEF C
    <3> QED
      BY <2>1, <2>2, FirstInSet
  <2>4. m \in 0 .. Len(codes) /\ f[m] # g[m]
    OBVIOUS
  <2>5. ASSUME NEW h, Runs(h, codes, data)
        PROVE  h[m] = IF m = 0 THEN "OK"
                      ELSE IF codes[m] # OfferCode THEN h[m - 1]
                      ELSE IF m # 1 \/ Len(data) # 1 THEN "FORMAT_ERROR"
                      ELSE IF data[1] # CONTRACT_HASH_SIZE THEN "FORMAT_ERROR"
                      ELSE h[m - 1]
    BY <2>4, <2>5, Zenon DEF Runs
  <2>6. m # 0
    BY <2>4, <2>5
  <2>7. m - 1 \in 0 .. Len(codes) /\ ~ (m <= m - 1)
    BY <1>1, <2>4, <2>6
  <2>8. f[m - 1] = g[m - 1]
    BY <2>3, <2>7
  <2> QED
    BY <2>4, <2>5, <2>6, <2>8
<1>3. f = [n \in 0 .. Len(codes) |-> f[n]] /\ g = [n \in 0 .. Len(codes) |-> g[n]]
  BY DEF Runs
<1> QED
  BY <1>2, <1>3

LEMMA MachineVerdict ==
    ASSUME NEW codes \in Seq(Nat), NEW data \in Seq(Nat)
    PROVE  RunMachine(codes, data) = "OK" <=> Offers(codes, data, Len(codes))
<1> DEFINE run == CHOOSE run : Runs(run, codes, data)
<1>1. RunMachine(codes, data) = run[Len(codes)]
  BY Zenon DEF RunMachine, Runs
<1>2. Runs(run, codes, data)
  BY VerdictsRun
<1>3. run = Verdicts(codes, data)
  <2> HIDE DEF run
  <2> QED
    BY <1>2, VerdictsRun, RunsAgree
<1> HIDE DEF run
<1>4. Len(codes) \in 0 .. Len(codes)
  OBVIOUS
<1> QED
  BY <1>1, <1>3, <1>4 DEF Verdicts

\* Whatever is pushed on the machine: it accepts an offer as the first code only, with
\* a hash as the only datum, and everything that is not an offer (RunMachine).
THEOREM OffersAreChecked == Bytes \subseteq Nat => (Spec => []MachineChecksOffers)
<1> SUFFICES ASSUME Bytes \subseteq Nat PROVE Spec => []MachineChecksOffers
  OBVIOUS
<1>1. Init => ParserInv
  BY ParserInit
<1>2. ParserInv => MachineChecksOffers
  <2> SUFFICES ASSUME ParserInv PROVE MachineChecksOffers
    OBVIOUS
  <2> DEFINE codes == machine.codes
             data == machine.data
  <2>1. codes \in Seq(Nat) /\ data \in Seq(Nat) /\ DOMAIN codes = 1 .. Len(codes)
    BY DEF ParserInv, MachineType
  <2>2. RunMachine(codes, data) = "OK" <=> Offers(codes, data, Len(codes))
    BY <2>1, MachineVerdict
  <2> QED
    BY <2>1, <2>2 DEF Offers, MachineChecksOffers
<1> QED
  BY <1>1, <1>2, ParserStep, PTL DEF Spec

-----------------------------------------------------------------------------
(* What is paid from a list of coins *)

AmountsFit == CoinValues \subseteq Nat /\ CurrencyValues \subseteq Nat /\ FeeValues \subseteq Nat

CoinsInv == coins \in Seq([owner : {c, s, r}, value : Nat, listed : Nat])

LEMMA CoinsInit == Init => CoinsInv
BY EmptySeq DEF Init, CoinsInv

LEMMA CoinsStep == AmountsFit /\ CoinsInv /\ [Next]_vars => CoinsInv'
<1> SUFFICES ASSUME AmountsFit, CoinsInv, [Next]_vars PROVE CoinsInv'
  OBVIOUS
<1> DEFINE Adds == \E a \in {s, r, c}, v \in CoinValues, l \in 0 .. Max(CoinValues) + Micro :
                      Prints(l, v) /\ AddCoin(a, v, l)
<1>1. CASE Adds
  <2>1. PICK a \in {s, r, c}, v \in CoinValues, l \in 0 .. Max(CoinValues) + Micro :
          AddCoin(a, v, l)
    BY <1>1
  <2>2. v \in Nat /\ l \in Nat
    BY DEF AmountsFit
  <2>3. coins' = Append(coins, [owner |-> a, value |-> v, listed |-> l])
    BY <2>1 DEF AddCoin
  <2> QED
    BY <2>2, <2>3 DEF CoinsInv
<1>2. CASE ~ Adds
  <2>1. coins' = coins
    BY <1>2 DEF Next, vars, Insert, AddOutput, Write, CutByte, WritePayload, StartParse,
                Turn, Push
  <2> QED
    BY <2>1 DEF CoinsInv
<1> QED
  BY <1>1, <1>2

LEMMA CoinsAreCoins ==
    ASSUME CoinsInv
    PROVE  /\ DOMAIN coins = 1 .. Len(coins) /\ IsFiniteSet(DOMAIN coins)
           /\ \A i \in DOMAIN coins :
                coins[i].owner \in {c, s, r} /\ coins[i].value \in Nat /\ coins[i].listed \in Nat
           /\ \A i \in DOMAIN coins :
                Values[i] = coins[i].value /\ Listed[i] = coins[i].listed
           /\ \A a : CoinsOf(a) \in SUBSET DOMAIN coins /\ IsFiniteSet(CoinsOf(a))
<1>1. DOMAIN coins = 1 .. Len(coins) /\ Len(coins) \in Nat
  BY DEF CoinsInv
<1>2. IsFiniteSet(DOMAIN coins)
  BY <1>1, FS_Interval
<1>3. ASSUME NEW i \in DOMAIN coins
      PROVE  coins[i].owner \in {c, s, r} /\ coins[i].value \in Nat /\ coins[i].listed \in Nat
  <2>1. coins[i] \in [owner : {c, s, r}, value : Nat, listed : Nat]
    BY <1>1, ElementOfSeq DEF CoinsInv
  <2> QED
    BY <2>1
<1>4. \A a : CoinsOf(a) \in SUBSET DOMAIN coins
  BY DEF CoinsOf
<1>5. \A a : IsFiniteSet(CoinsOf(a))
  BY <1>2, <1>4, FS_Subset
<1> QED
  BY <1>1, <1>2, <1>3, <1>4, <1>5 DEF Values, Listed

\* Of any number of coins, whatever they are worth: a reply spends all it takes but
\* FIXED_FEE, and takes at most one coin too many (Handler::CreateTransaction).
THEOREM ReplyFee == AmountsFit => (Spec => []ReplyFeeIsFixed)
<1> SUFFICES ASSUME AmountsFit PROVE Spec => []ReplyFeeIsFixed
  OBVIOUS
<1>1. CoinsInv => ReplyFeeIsFixed
  <2> SUFFICES ASSUME CoinsInv, NEW fee \in {5, 12}, NEW issuer \in {c, r},
                      NEW cs \in Taken(CoinsOf(c), Values, fee + FIXED_FEE)
               PROVE  LET change == Worth(Values, cs) - fee - FIXED_FEE
                      IN  /\ TotalOf(PaidWithChange(c, issuer, fee, change))
                                = Worth(Values, cs) - FIXED_FEE
                          /\ \E coin \in cs : coins[coin].value >= change
    BY DEF ReplyFeeIsFixed
  <2> DEFINE all == Worth(Values, cs)
             change == all - fee - FIXED_FEE
  <2>1. fee \in Int /\ fee + FIXED_FEE \in Int /\ FIXED_FEE = 1
    BY DEF FIXED_FEE
  <2>2. cs \in SUBSET CoinsOf(c) /\ CoinsOf(c) \in SUBSET DOMAIN coins
        /\ IsFiniteSet(CoinsOf(c)) /\ Numeric(Values, CoinsOf(c))
    BY CoinsAreCoins DEF Taken, Numeric
  <2>3. all \in Int /\ all >= fee + FIXED_FEE
    BY <2>1, <2>2, TakenIsEnough
  <2>4. PICK coin \in cs : Values[coin] >= all - (fee + FIXED_FEE)
    BY <2>1, <2>2, TakenIsEnough
  <2>5. Values[coin] = coins[coin].value /\ coins[coin].value \in Nat
    BY <2>2, CoinsAreCoins
  <2> HIDE DEF all
  <2>6. change \in Nat /\ fee + change = all - FIXED_FEE
    BY <2>1, <2>3
  <2>7. coins[coin].value >= change
    BY <2>1, <2>3, <2>4, <2>5
  <2> HIDE DEF change
  <2>8. TotalOf(PaidWithChange(c, issuer, fee, change)) = fee + change
    BY <2>1, <2>6, ReplyPaysAll DEF TotalOf
  <2>9. TotalOf(PaidWithChange(c, issuer, fee, change)) = all - FIXED_FEE
    BY <2>6, <2>8
  <2> QED
    BY <2>7, <2>9 DEF change, all
<1> QED
  BY <1>1, CoinsInit, CoinsStep, PTL DEF Spec

LEMMA TwoAndThree ==
    ASSUME c # s, c # r, s # r
    PROVE  Cardinality({c, s}) = 2 /\ Cardinality({c, s, r}) = 3
<1>1. IsFiniteSet({c}) /\ Cardinality({c}) = 1
  BY FS_Singleton
<1>2. IsFiniteSet({c} \cup {s}) /\ Cardinality({c} \cup {s}) = 2
  BY <1>1, FS_AddElement
<1>3. Cardinality(({c} \cup {s}) \cup {r}) = 3
  BY <1>2, FS_AddElement
<1>4. {c} \cup {s} = {c, s} /\ ({c} \cup {s}) \cup {r} = {c, s, r}
  OBVIOUS
<1> QED
  BY <1>2, <1>3, <1>4

\* A transaction's outputs in any order: every address has its place.
LEMMA OrderOfThree ==
    ASSUME c # s, c # r, s # r, NEW q \in Orders({c, s, r})
    PROVE  /\ q \in [1 .. 3 -> {c, s, r}]
           /\ \A a \in {c, s, r} : \E i \in 1 .. 3 : q[i] = a
           /\ \A i, j \in 1 .. 3 : q[i] = q[j] => i = j
<1>1. Cardinality({c, s, r}) = 3
  BY TwoAndThree
<1>2. q \in [1 .. 3 -> {c, s, r}] /\ \A i, j \in DOMAIN q : q[i] = q[j] => i = j
  BY <1>1 DEF Orders
<1>3. DOMAIN q = 1 .. 3 /\ 1 .. 3 = {1, 2, 3}
  BY <1>2
<1>4. q[1] # q[2] /\ q[1] # q[3] /\ q[2] # q[3]
  BY <1>2, <1>3
<1>5. \A a \in {c, s, r} : a = q[1] \/ a = q[2] \/ a = q[3]
  <2>1. q[1] \in {c, s, r} /\ q[2] \in {c, s, r} /\ q[3] \in {c, s, r}
    BY <1>2, <1>3
  <2> QED
    BY <1>4, <2>1
<1> QED
  BY <1>2, <1>3, <1>5

\* The transaction TokenSend builds, with its outputs in the order q.
Built(q, paid) == [i \in 1 .. 3 |-> [addr |-> q[i], value |-> paid[q[i]]]]

LEMMA BuiltIsRead ==
    ASSUME c # s, c # r, s # r, NEW q \in Orders({c, s, r}),
           NEW paid, \A a \in {c, s, r} : paid[a] \in Nat,
           NEW vin, InputAddresses(vin) = {s, r}
    PROVE  /\ T2Roles(vin, Built(q, paid), s) = [contract |-> c, send |-> s, recv |-> r]
           /\ T2Currency(vin, Built(q, paid)) = paid[c]
<1> DEFINE t2 == Built(q, paid)
           outs == 1 .. Len(t2)
           change == {i \in outs : t2[i].addr \in InputAddresses(vin)}
           fee == {i \in change : t2[i].addr = s}
           To(a) == {i \in outs : t2[i].addr = a}
<1>1. /\ q \in [1 .. 3 -> {c, s, r}]
      /\ \A a \in {c, s, r} : \E i \in 1 .. 3 : q[i] = a
      /\ \A i, j \in 1 .. 3 : q[i] = q[j] => i = j
  BY OrderOfThree
<1>2. \A i \in 1 .. 3 : t2[i] = [addr |-> q[i], value |-> paid[q[i]]]
  BY DEF Built
<1>3. t2 \in Seq([addr : {c, s, r}, value : Nat]) /\ Len(t2) = 3
  <2>1. t2 \in [1 .. 3 -> [addr : {c, s, r}, value : Nat]]
    BY <1>1 DEF Built
  <2> HIDE DEF t2
  <2>2. t2 \in Seq([addr : {c, s, r}, value : Nat])
    <3> DEFINE Output == [addr : {c, s, r}, value : Nat]
    <3>1. t2 \in [1 .. 3 -> Output]
      BY <2>1
    <3> HIDE DEF Output
    <3>2. \A n \in Nat : \A f \in [1 .. n -> Output] : f \in Seq(Output)
      BY SeqDef
    <3>3. t2 \in Seq(Output)
      BY <3>1, <3>2
    <3> QED
      BY <3>3 DEF Output
  <2>3. DOMAIN t2 = 1 .. 3 /\ DOMAIN t2 = 1 .. Len(t2) /\ Len(t2) \in Nat
    BY <2>1, <2>2, LenProperties
  <2> QED
    BY <2>2, <2>3
<1>4. \A i \in 1 .. 3 : t2[i].addr = q[i] /\ t2[i].value = paid[q[i]]
  BY <1>2
<1> HIDE DEF t2
<1>5. outs = 1 .. 3
  BY <1>3
<1>6. ASSUME NEW a PROVE To(a) = {i \in 1 .. 3 : q[i] = a}
  BY <1>4, <1>5
<1> HIDE DEF outs
<1>7. fee = To(s) /\ change \ fee = To(r) /\ outs \ change = To(c)
  <2>1. \A i \in outs : t2[i].addr \in {c, s, r}
    BY <1>1, <1>4, <1>5
  <2> QED
    BY <2>1
<1>8. ASSUME NEW a \in {c, s, r} PROVE LastAddress(t2, To(a)) = a
  <2>1. \E i \in outs : t2[i].addr = a
    BY <1>1, <1>4, <1>5
  <2> QED
    BY <1>3, <2>1, LastAddressOf DEF outs
<1>9. T2Roles(vin, t2, s) = [contract |-> LastAddress(t2, outs \ change),
                             send |-> LastAddress(t2, fee),
                             recv |-> LastAddress(t2, change \ fee)]
  BY DEF T2Roles, outs
<1>10. T2Currency(vin, t2) = paid[c]
  <2> DEFINE Paid == {i \in outs : t2[i].addr \notin InputAddresses(vin)}
             last == CHOOSE i \in Paid : \A j \in Paid : j <= i
  <2>1. PICK n \in 1 .. 3 : q[n] = c
    BY <1>1
  <2>2. \A i \in 1 .. 3 : q[i] \notin {s, r} <=> i = n
    BY <1>1, <2>1
  <2>3. Paid = {n}
    BY <1>4, <1>5, <2>2
  <2>4. last = n
    <3> HIDE DEF Paid
    <3> QED
      BY <2>1, <2>3
  <2>5. T2Currency(vin, t2) = t2[last].value
    BY <2>3 DEF T2Currency, outs
  <2> QED
    BY <1>4, <2>1, <2>4, <2>5
<1> QED
  BY <1>7, <1>8, <1>9, <1>10 DEF t2

\* Of any number of coins of the two parties, and with any prices: a transfer gives
\* them back all they pay but the fees of two miners (TokenSend, SettlementToken,
\* CreateTransactionT4).
THEOREM TransferPaysParties ==
    AmountsFit /\ c # s /\ c # r /\ s # r => (Spec => []TransferReachesParties)
<1> SUFFICES ASSUME AmountsFit, c # s, c # r, s # r PROVE Spec => []TransferReachesParties
  OBVIOUS
<1>1. CoinsInv => TransferReachesParties
  <2> SUFFICES ASSUME CoinsInv, CoinsOf(s) # {}, CoinsOf(r) # {}, CoinsOf(c) = {},
                      NEW currency \in CurrencyValues, NEW contract_fee \in FeeValues,
                      NEW miner_fee \in FeeValues
               PROVE
            LET send == Worth(Values, CoinsOf(s))
                recv == Worth(Values, CoinsOf(r))
                paid == TokenSend(c, s, r, send, recv, currency, contract_fee, miner_fee)
                spent == [i \in DOMAIN coins |-> [addr |-> coins[i].owner]]
            IN  (\A a \in DOMAIN paid : paid[a] > 0) =>
                \A q \in Orders({c, s, r}) :
                    LET t2 == [i \in 1 .. 3 |-> [addr |-> q[i], value |-> paid[q[i]]]]
                        roles == T2Roles(spent, t2, s)
                        t4 == T4Paid(roles.send, roles.recv, T2Currency(spent, t2))
                    IN  /\ roles.contract = c
                        /\ paid[s] + t4[s] = send + currency + contract_fee - miner_fee
                                             - FIXED_FEE - SETTLE_RECIEVE
                        /\ paid[r] + t4[r] = recv - currency - contract_fee + SETTLE_RECIEVE
    BY DEF TransferReachesParties
  <2> DEFINE send == Worth(Values, CoinsOf(s))
             recv == Worth(Values, CoinsOf(r))
             paid == TokenSend(c, s, r, send, recv, currency, contract_fee, miner_fee)
             spent == [i \in DOMAIN coins |-> [addr |-> coins[i].owner]]
  <2>1. currency \in Nat /\ contract_fee \in Nat /\ miner_fee \in Nat
    BY DEF AmountsFit
  <2>2. send \in Int /\ recv \in Int
    <3>1. \A a : IsFiniteSet(CoinsOf(a)) /\ Numeric(Values, CoinsOf(a))
      BY CoinsAreCoins DEF Numeric
    <3> QED
      BY <3>1, WorthType
  <2>3. InputAddresses(spent) = {s, r}
    <3>1. Len(spent) = Len(coins) /\ DOMAIN coins = 1 .. Len(coins)
      BY CoinsAreCoins DEF CoinsInv
    <3>2. \A i \in 1 .. Len(coins) : spent[i].addr = coins[i].owner
      BY <3>1
    <3>3. InputAddresses(spent) = {coins[i].owner : i \in 1 .. Len(coins)}
      <4> HIDE DEF spent
      <4> QED
        BY <3>1, <3>2 DEF InputAddresses
    <3>4. \A i \in 1 .. Len(coins) : coins[i].owner \in {s, r}
      BY <3>1, CoinsAreCoins DEF CoinsOf
    <3>5. (\E i \in 1 .. Len(coins) : coins[i].owner = s)
          /\ (\E i \in 1 .. Len(coins) : coins[i].owner = r)
      BY <3>1 DEF CoinsOf
    <3> QED
      BY <3>3, <3>4, <3>5
  <2> HIDE DEF send, recv, spent
  <2>4. /\ DOMAIN paid = {c, s, r} /\ paid[c] = currency + contract_fee
        /\ paid[s] = send - miner_fee /\ paid[r] = recv - currency - contract_fee
    BY DEF TokenSend
  <2> HIDE DEF paid
  <2> SUFFICES ASSUME \A a \in DOMAIN paid : paid[a] > 0, NEW q \in Orders({c, s, r})
               PROVE  LET t2 == Built(q, paid)
                          roles == T2Roles(spent, t2, s)
                          t4 == T4Paid(roles.send, roles.recv, T2Currency(spent, t2))
                      IN  /\ roles.contract = c
                          /\ paid[s] + t4[s] = send + currency + contract_fee - miner_fee
                                               - FIXED_FEE - SETTLE_RECIEVE
                          /\ paid[r] + t4[r] = recv - currency - contract_fee + SETTLE_RECIEVE
    BY DEF Built, send, recv, paid, spent
  <2>5. \A a \in {c, s, r} : paid[a] \in Nat
    BY <2>1, <2>2, <2>4
  <2>6. /\ T2Roles(spent, Built(q, paid), s) = [contract |-> c, send |-> s, recv |-> r]
        /\ T2Currency(spent, Built(q, paid)) = currency + contract_fee
    BY <2>3, <2>4, <2>5, BuiltIsRead
  <2>7. PICK total \in Nat : total = currency + contract_fee
    BY <2>1
  <2> DEFINE t4 == T4Paid(s, r, total)
  <2>8. FIXED_FEE \in Int /\ SETTLE_RECIEVE \in Int
    BY DEF FIXED_FEE, SETTLE_RECIEVE
  <2>9. t4[s] = total - FIXED_FEE - SETTLE_RECIEVE /\ t4[r] = SETTLE_RECIEVE
    BY DEF T4Paid
  <2> HIDE DEF t4
  <2>10. /\ paid[s] + t4[s] = send + currency + contract_fee - miner_fee
                             - FIXED_FEE - SETTLE_RECIEVE
        /\ paid[r] + t4[r] = recv - currency - contract_fee + SETTLE_RECIEVE
    BY <2>1, <2>2, <2>4, <2>7, <2>8, <2>9
  <2> QED
    BY <2>6, <2>7, <2>10 DEF t4
<1> QED
  BY <1>1, CoinsInit, CoinsStep, PTL DEF Spec

\* What the node reads of an amount is off by half of the last decimal at most.
LEMMA AmountIsNear ==
    ASSUME NEW amount \in Int, NEW v \in Int, v > 0, ReadsAs(v, amount)
    PROVE  2 * (amount - v) \in (-Micro) .. Micro
<1>1. amount >= 0
  BY DEF ReadsAs
<1>2. 2 * (v - amount) \in (-Micro) .. Micro
  BY <1>1 DEF ReadsAs, Prints
<1>3. Micro \in Int
  BY MicroAssumption
<1> QED
  BY <1>2, <1>3

\* The coins of s and r are all the coins there are.
LEMMA CoinsOfParties ==
    ASSUME CoinsInv, CoinsOf(c) = {}, s # r
    PROVE  /\ Worth(Values, CoinsOf(s)) \in Int /\ Worth(Values, CoinsOf(r)) \in Int
           /\ Worth(Values, DOMAIN coins) = Worth(Values, CoinsOf(s)) + Worth(Values, CoinsOf(r))
<1>1. \A a : IsFiniteSet(CoinsOf(a)) /\ Numeric(Values, CoinsOf(a))
  BY CoinsAreCoins DEF Numeric
<1>2. DOMAIN coins = CoinsOf(s) \cup CoinsOf(r) /\ CoinsOf(s) \cap CoinsOf(r) = {}
  BY CoinsAreCoins DEF CoinsOf
<1>3. Numeric(Values, CoinsOf(s) \cup CoinsOf(r))
  BY <1>1 DEF Numeric
<1>4. Worth(Values, CoinsOf(s) \cup CoinsOf(r)) = Worth(Values, CoinsOf(s)) + Worth(Values, CoinsOf(r))
  BY <1>1, <1>2, <1>3, WorthOfBoth
<1> QED
  BY <1>1, <1>2, <1>4, WorthType

\* Of any number of coins, and with any prices and fees: a client whose transaction
\* the node takes pays the miner fee it chose, up to the decimals that are printed
\* (BuildTransaction, TokenSend, CreateTransaction).
THEOREM MinerFeePaid ==
    AmountsFit /\ c # s /\ c # r /\ s # r => (Spec => []ClientPaysMinerFee)
<1> SUFFICES ASSUME AmountsFit, c # s, c # r, s # r PROVE Spec => []ClientPaysMinerFee
  OBVIOUS
<1>1. CoinsInv => ClientPaysMinerFee
  <2> SUFFICES ASSUME CoinsInv, CoinsOf(c) = {}, Values = Listed,
                      NEW currency \in CurrencyValues, NEW contract_fee \in FeeValues,
                      NEW miner_fee \in FeeValues
               PROVE
            LET paid == ClientPays(currency, contract_fee, miner_fee)
                near(a) == {v \in (paid[a] - Micro) .. (paid[a] + Micro) : v > 0 /\ ReadsAs(v, paid[a])}
            IN  \A f \in [DOMAIN paid -> UNION {near(a) : a \in DOMAIN paid}] :
                    (\A a \in DOMAIN paid : f[a] \in near(a)) =>
                    LET fee == Worth(Values, DOMAIN coins) - TotalOf(f)
                    IN  2 * (fee - miner_fee) \in (-Micro * Cardinality(DOMAIN f))
                                                  .. (Micro * Cardinality(DOMAIN f))
    BY DEF ClientPaysMinerFee
  <2> DEFINE paid == ClientPays(currency, contract_fee, miner_fee)
             near(a) == {v \in (paid[a] - Micro) .. (paid[a] + Micro) : v > 0 /\ ReadsAs(v, paid[a])}
             send == Worth(Values, CoinsOf(s))
             recv == Worth(Values, CoinsOf(r))
             all == Worth(Values, DOMAIN coins)
  <2> SUFFICES ASSUME NEW f \in [DOMAIN paid -> UNION {near(a) : a \in DOMAIN paid}],
                      \A a \in DOMAIN paid : f[a] \in near(a)
               PROVE  2 * ((all - TotalOf(f)) - miner_fee)
                        \in (-Micro * Cardinality(DOMAIN f)) .. (Micro * Cardinality(DOMAIN f))
    OBVIOUS
  <2>1. currency \in Nat /\ contract_fee \in Nat /\ miner_fee \in Nat /\ Micro \in Nat
    BY MicroAssumption DEF AmountsFit
  <2>2. send \in Int /\ recv \in Int /\ all = send + recv
    BY CoinsOfParties
  <2>3. paid = IF CoinsOf(r) = {} THEN BuildTransaction(c, s, send, contract_fee, miner_fee)
               ELSE TokenSend(c, s, r, send, recv, currency, contract_fee, miner_fee)
    BY DEF ClientPays
  <2>4. CoinsOf(r) = {} => recv = 0
    BY WorthOfNothing
  <2>5. \A a \in DOMAIN paid : f[a] \in near(a)
    OBVIOUS
  <2>6. DOMAIN f = DOMAIN paid
    <3> HIDE DEF paid, near
    <3> QED
      OBVIOUS
  <2> HIDE DEF paid, send, recv, all
  <2>7. ASSUME NEW a \in DOMAIN paid, paid[a] \in Int
        PROVE  f[a] \in Int /\ 2 * (paid[a] - f[a]) \in (-Micro) .. Micro
    <3>1. f[a] \in Int /\ f[a] > 0 /\ ReadsAs(f[a], paid[a])
      BY <2>1, <2>5, <2>7
    <3> QED
      BY <2>7, <3>1, AmountIsNear
  <2> HIDE DEF near
  <2>8. CASE CoinsOf(r) = {}
    <3>1. /\ DOMAIN paid = {c, s}
          /\ paid[c] = contract_fee /\ paid[s] = send - contract_fee - miner_fee
      BY <2>3, <2>8 DEF BuildTransaction
    <3>2. 2 * (paid[c] - f[c]) \in (-Micro) .. Micro /\ 2 * (paid[s] - f[s]) \in (-Micro) .. Micro
      BY <2>1, <2>2, <2>7, <3>1
    <3>3. f[c] \in Int /\ f[s] \in Int
      BY <2>1, <2>2, <2>7, <3>1
    <3>4. TotalOf(f) = f[c] + f[s]
      <4>1. Numeric(f, {c, s})
        BY <3>3 DEF Numeric
      <4> QED
        BY <2>6, <3>1, <4>1, WorthOfTwo DEF TotalOf
    <3>5. Cardinality(DOMAIN f) = 2
      BY <2>6, <3>1, TwoAndThree
    <3>6. all - TotalOf(f) - miner_fee = (paid[c] - f[c]) + (paid[s] - f[s])
      BY <2>1, <2>2, <2>4, <2>8, <3>1, <3>3, <3>4
    <3>7. paid[c] - f[c] \in Int /\ paid[s] - f[s] \in Int
      BY <2>1, <2>2, <3>1, <3>3
    <3>8. 2 * (all - TotalOf(f) - miner_fee) \in (-Micro * 2) .. (Micro * 2)
      <4>1. \A x, y \in Int :
              2 * x \in (-Micro) .. Micro /\ 2 * y \in (-Micro) .. Micro =>
                2 * (x + y) \in (-Micro * 2) .. (Micro * 2)
        BY <2>1
      <4> QED
        BY <3>2, <3>6, <3>7, <4>1
    <3> QED
      BY <3>5, <3>8
  <2>9. CASE CoinsOf(r) # {}
    <3>1. /\ DOMAIN paid = {c, s, r}
          /\ paid[c] = currency + contract_fee /\ paid[s] = send - miner_fee
          /\ paid[r] = recv - currency - contract_fee
      BY <2>3, <2>9 DEF TokenSend
    <3>2. /\ 2 * (paid[c] - f[c]) \in (-Micro) .. Micro
          /\ 2 * (paid[s] - f[s]) \in (-Micro) .. Micro
          /\ 2 * (paid[r] - f[r]) \in (-Micro) .. Micro
      BY <2>1, <2>2, <2>7, <3>1
    <3>3. f[c] \in Int /\ f[s] \in Int /\ f[r] \in Int
      BY <2>1, <2>2, <2>7, <3>1
    <3>4. TotalOf(f) = f[c] + f[s] + f[r]
      <4>1. Numeric(f, {c, s, r})
        BY <3>3 DEF Numeric
      <4> QED
        BY <2>6, <3>1, <4>1, WorthOfThree DEF TotalOf
    <3>5. Cardinality(DOMAIN f) = 3
      BY <2>6, <3>1, TwoAndThree
    <3>6. all - TotalOf(f) - miner_fee = (paid[c] - f[c]) + (paid[s] - f[s]) + (paid[r] - f[r])
      BY <2>1, <2>2, <3>1, <3>3, <3>4
    <3>7. paid[c] - f[c] \in Int /\ paid[s] - f[s] \in Int /\ paid[r] - f[r] \in Int
      BY <2>1, <2>2, <3>1, <3>3
    <3>8. 2 * (all - TotalOf(f) - miner_fee) \in (-Micro * 3) .. (Micro * 3)
      <4>1. \A x, y, z \in Int :
              2 * x \in (-Micro) .. Micro /\ 2 * y \in (-Micro) .. Micro /\ 2 * z \in (-Micro) .. Micro =>
                2 * (x + y + z) \in (-Micro * 3) .. (Micro * 3)
        BY <2>1
      <4> QED
        BY <3>2, <3>6, <3>7, <4>1
    <3> QED
      BY <3>5, <3>8
  <2> QED
    BY <2>8, <2>9
<1> QED
  BY <1>1, CoinsInit, CoinsStep, PTL DEF Spec

-----------------------------------------------------------------------------
(* Sequences one after the other, as FlattenSeq makes them of the fields *)

\* A sequence of n elements, whatever they are.
Tuple(f, n) == f = [i \in 1 .. n |-> f[i]] /\ Len(f) = n

LEMMA TupleInSeq ==
    ASSUME NEW n \in Nat, NEW f, Tuple(f, n), NEW S, \A i \in 1 .. n : f[i] \in S
    PROVE  f \in Seq(S)
<1>1. f \in [1 .. n -> S]
  BY DEF Tuple
<1> QED
  BY <1>1, SeqDef

\* t is a, of m elements, and b, of n, one after the other.
Appends(t, a, m, b, n) ==
    /\ Len(t) = m + n
    /\ \A j \in 1 .. m : t[j] = a[j]
    /\ \A j \in 1 .. n : t[m + j] = b[j]

LEMMA Appended ==
    ASSUME NEW S, NEW a \in Seq(S), NEW b \in Seq(S)
    PROVE  a \o b \in Seq(S) /\ Appends(a \o b, a, Len(a), b, Len(b))
<1>1. /\ a \o b \in Seq(S) /\ Len(a \o b) = Len(a) + Len(b)
      /\ \A j \in 1 .. Len(a) + Len(b) :
           (a \o b)[j] = IF j <= Len(a) THEN a[j] ELSE b[j - Len(a)]
  BY ConcatProperties
<1>2. Len(a) \in Nat /\ Len(b) \in Nat
  OBVIOUS
<1>3. ASSUME NEW j \in 1 .. Len(a) PROVE (a \o b)[j] = a[j]
  BY <1>1, <1>2
<1>4. ASSUME NEW j \in 1 .. Len(b) PROVE (a \o b)[Len(a) + j] = b[j]
  <2>1. /\ Len(a) + j \in 1 .. Len(a) + Len(b) /\ ~ (Len(a) + j <= Len(a))
        /\ (Len(a) + j) - Len(a) = j
    BY <1>2
  <2> QED
    BY <1>1, <2>1
<1> QED
  BY <1>1, <1>3, <1>4 DEF Appends

\* h is f and g, one after the other.
Joins(f, m, g, n, h) ==
    /\ Tuple(f, m) /\ Tuple(g, n) /\ Tuple(h, m + n)
    /\ \A i \in 1 .. m : h[i] = f[i]
    /\ \A i \in 1 .. n : h[m + i] = g[i]

LEMMA Joined ==
    ASSUME NEW m \in Nat, NEW n \in Nat, NEW f, NEW g, NEW h, Joins(f, m, g, n, h)
    PROVE  f \o g = h
<1> USE DEF Joins
<1> DEFINE S == {f[i] : i \in 1 .. m} \cup {g[i] : i \in 1 .. n} \cup {h[i] : i \in 1 .. m + n}
<1>1. f \in Seq(S) /\ g \in Seq(S) /\ h \in Seq(S)
  <2>1. /\ \A i \in 1 .. m : f[i] \in S
        /\ \A i \in 1 .. n : g[i] \in S
        /\ \A i \in 1 .. m + n : h[i] \in S
    OBVIOUS
  <2> HIDE DEF S
  <2> QED
    BY <2>1, TupleInSeq
<1>2. Len(f) = m /\ Len(g) = n /\ Len(h) = m + n
  BY DEF Tuple
<1> HIDE DEF S
<1>3. f \o g \in Seq(S) /\ Appends(f \o g, f, m, g, n)
  BY <1>1, <1>2, Appended
<1>4. ASSUME NEW i \in 1 .. m + n PROVE (f \o g)[i] = h[i]
  <2>1. CASE i \in 1 .. m
    BY <1>3, <2>1 DEF Appends
  <2>2. CASE i \notin 1 .. m
    <3>1. i - m \in 1 .. n /\ i = m + (i - m)
      BY <2>2
    <3> QED
      BY <1>3, <3>1 DEF Appends
  <2> QED
    BY <2>1, <2>2
<1>5. Len(f \o g) = m + n
  BY <1>3 DEF Appends
<1> QED
  BY <1>1, <1>2, <1>3, <1>4, <1>5, SeqEqual

\* The recursive function of FlattenSeq, for the first n sequences.
IsFlat(f, seqs, n) ==
    f = [i \in 1 .. n |-> IF i = 1 THEN seqs[i] ELSE f[i - 1] \o seqs[i]]

LEMMA FlatExists ==
    ASSUME NEW seqs, NEW n \in Nat
    PROVE  \E f : IsFlat(f, seqs, n)
<1> DEFINE Missing == {m \in Nat : ~ \E f : IsFlat(f, seqs, m)}
<1> SUFFICES ASSUME Missing # {} PROVE FALSE
  OBVIOUS
<1>1. PICK m \in Missing : \A j \in Missing : m <= j
  <2>1. Missing \in SUBSET Nat
    OBVIOUS
  <2> HIDE DEF Missing
  <2> QED
    BY <2>1, FirstInSet
<1>2. m # 0
  <2>1. IsFlat([i \in 1 .. 0 |-> 0], seqs, 0)
    BY DEF IsFlat
  <2> QED
    BY <1>1, <2>1
<1>3. m - 1 \in Nat /\ m - 1 \notin Missing
  BY <1>1, <1>2
<1>4. PICK f : IsFlat(f, seqs, m - 1)
  BY <1>3
<1> DEFINE g == [i \in 1 .. m |-> IF i = m THEN IF m = 1 THEN seqs[m] ELSE f[m - 1] \o seqs[m]
                                  ELSE f[i]]
<1>5. ASSUME NEW i \in 1 .. m PROVE g[i] = IF i = 1 THEN seqs[i] ELSE g[i - 1] \o seqs[i]
  <2>1. \A j \in 1 .. m - 1 : g[j] = f[j]
    BY <1>1
  <2>2. g[m] = IF m = 1 THEN seqs[m] ELSE f[m - 1] \o seqs[m]
    BY <1>1, <1>2
  <2>3. \A j \in 1 .. m - 1 : f[j] = IF j = 1 THEN seqs[j] ELSE f[j - 1] \o seqs[j]
    BY <1>4 DEF IsFlat
  <2> HIDE DEF g
  <2>4. CASE i = m
    <3>1. i # 1 => m - 1 \in 1 .. m - 1
      BY <1>2, <2>4
    <3> QED
      BY <2>1, <2>2, <2>4, <3>1
  <2>5. CASE i # m
    <3>1. i \in 1 .. m - 1 /\ (i # 1 => i - 1 \in 1 .. m - 1)
      BY <1>1, <2>5
    <3> QED
      BY <2>1, <2>3, <3>1
  <2> QED
    BY <2>4, <2>5
<1>6. g = [i \in 1 .. m |-> g[i]]
  OBVIOUS
<1> HIDE DEF g
<1>7. IsFlat(g, seqs, m)
  BY <1>5, <1>6 DEF IsFlat
<1> QED
  BY <1>1, <1>7

LEMMA FlattenSteps ==
    ASSUME NEW seqs, NEW n \in Nat, n # 0, Len(seqs) = n
    PROVE  \E f : /\ f[1] = seqs[1] /\ f[n] = FlattenSeq(seqs)
                  /\ \A i \in 2 .. n : f[i] = f[i - 1] \o seqs[i]
<1> DEFINE f == CHOOSE f : IsFlat(f, seqs, n)
<1>1. IsFlat(f, seqs, n)
  BY FlatExists
<1>2. FlattenSeq(seqs) = f[n]
  BY DEF FlattenSeq, IsFlat
<1> HIDE DEF f
<1>3. \A i \in 1 .. n : f[i] = IF i = 1 THEN seqs[i] ELSE f[i - 1] \o seqs[i]
  BY <1>1 DEF IsFlat
<1>4. f[1] = seqs[1]
  <2>1. 1 \in 1 .. n
    OBVIOUS
  <2> QED
    BY <1>3, <2>1
<1>5. ASSUME NEW i \in 2 .. n PROVE f[i] = f[i - 1] \o seqs[i]
  <2>1. i \in 1 .. n /\ i # 1
    OBVIOUS
  <2> QED
    BY <1>3, <2>1
<1> QED
  BY <1>2, <1>4, <1>5

\* What one sequence after the other holds.
LEMMA FlattenType ==
    ASSUME NEW seqs, NEW n \in Nat, n # 0, Len(seqs) = n,
           NEW S, \A i \in 1 .. n : seqs[i] \in Seq(S)
    PROVE  FlattenSeq(seqs) \in Seq(S)
<1>1. PICK f : /\ f[1] = seqs[1] /\ f[n] = FlattenSeq(seqs)
               /\ \A i \in 2 .. n : f[i] = f[i - 1] \o seqs[i]
  BY FlattenSteps
<1> DEFINE Wrong == {i \in 1 .. n : f[i] \notin Seq(S)}
<1>2. Wrong = {}
  <2> SUFFICES ASSUME Wrong # {} PROVE FALSE
    OBVIOUS
  <2>1. PICK i \in Wrong : \A j \in Wrong : i <= j
    <3>1. Wrong \in SUBSET Nat
      OBVIOUS
    <3> HIDE DEF Wrong
    <3> QED
      BY <3>1, FirstInSet
  <2>2. i # 1
    BY <1>1
  <2>3. i - 1 \in 1 .. n /\ i - 1 \notin Wrong /\ i \in 2 .. n
    BY <2>1, <2>2
  <2>4. f[i - 1] \in Seq(S) /\ f[i] = f[i - 1] \o seqs[i] /\ seqs[i] \in Seq(S)
    BY <1>1, <2>3
  <2>5. f[i] \in Seq(S)
    BY <2>4, ConcatProperties
  <2> QED
    BY <2>5
<1>3. n \in 1 .. n
  OBVIOUS
<1> QED
  BY <1>1, <1>2, <1>3

\* Where each of n sequences starts, and what a sequence made of them holds.
Starts(off, seqs, n) ==
    off[1] = 0 /\ \A i \in 1 .. n : off[i + 1] = off[i] + Len(seqs[i])
MadeOf(t, seqs, n, off) ==
    /\ Len(t) = off[n + 1]
    /\ \A i \in 1 .. n :
         /\ off[i] \in Nat /\ off[i + 1] <= off[n + 1]
         /\ \A k \in 1 .. Len(seqs[i]) : t[off[i] + k] = seqs[i][k]

LEMMA FlattenAt ==
    ASSUME NEW seqs, NEW n \in Nat, n # 0, Len(seqs) = n,
           NEW S, \A i \in 1 .. n : seqs[i] \in Seq(S),
           NEW off, Starts(off, seqs, n)
    PROVE  MadeOf(FlattenSeq(seqs), seqs, n, off)
<1> USE DEF Starts
<1>1. PICK f : /\ f[1] = seqs[1] /\ f[n] = FlattenSeq(seqs)
               /\ \A i \in 2 .. n : f[i] = f[i - 1] \o seqs[i]
  BY FlattenSteps
<1> DEFINE Right(m) == /\ f[m] \in Seq(S) /\ Len(f[m]) = off[m + 1]
                       /\ \A i \in 1 .. m :
                            /\ off[i] \in Nat /\ off[i + 1] <= off[m + 1]
                            /\ \A k \in 1 .. Len(seqs[i]) : f[m][off[i] + k] = seqs[i][k]
           Wrong == {m \in 1 .. n : ~ Right(m)}
<1>2. Right(1)
  <2>1. f[1] \in Seq(S) /\ Len(f[1]) = off[1 + 1] /\ Len(seqs[1]) \in Nat
    BY <1>1
  <2>2. \A k \in 1 .. Len(seqs[1]) : f[1][0 + k] = seqs[1][k]
    BY <1>1
  <2>3. off[1] \in Nat /\ off[1 + 1] <= off[1 + 1]
    BY <2>1
  <2> QED
    BY <2>1, <2>2, <2>3
<1>3. ASSUME NEW m \in 2 .. n, Right(m - 1) PROVE Right(m)
  <2>1. /\ f[m] = f[m - 1] \o seqs[m] /\ f[m - 1] \in Seq(S) /\ seqs[m] \in Seq(S)
        /\ Len(f[m - 1]) = off[m]
        /\ \A i \in 1 .. m - 1 :
             /\ off[i] \in Nat /\ off[i + 1] <= off[m]
             /\ \A k \in 1 .. Len(seqs[i]) : f[m - 1][off[i] + k] = seqs[i][k]
    <3>1. (m - 1) + 1 = m /\ m \in 1 .. n
      OBVIOUS
    <3>2. Len(f[m - 1]) = off[(m - 1) + 1] /\ f[m - 1] \in Seq(S)
      BY <1>3
    <3>3. \A i \in 1 .. m - 1 :
             /\ off[i] \in Nat /\ off[i + 1] <= off[(m - 1) + 1]
             /\ \A k \in 1 .. Len(seqs[i]) : f[m - 1][off[i] + k] = seqs[i][k]
      BY <1>3
    <3>4. Len(f[m - 1]) = off[m] /\ f[m - 1] \in Seq(S)
      BY <3>1, <3>2
    <3>5. \A i \in 1 .. m - 1 :
             /\ off[i] \in Nat /\ off[i + 1] <= off[m]
             /\ \A k \in 1 .. Len(seqs[i]) : f[m - 1][off[i] + k] = seqs[i][k]
      BY <3>1, <3>3
    <3> QED
      BY <1>1, <3>1, <3>4, <3>5
  <2>2. PICK l \in Nat : l = off[m]
    BY <2>1
  <2>3. PICK w \in Nat : w = Len(seqs[m])
    BY <2>1
  <2>4. PICK a \in Seq(S), b \in Seq(S) : a = f[m - 1] /\ b = seqs[m]
    BY <2>1
  <2>5. f[m] = a \o b /\ Len(a) = l /\ Len(b) = w
    BY <2>1, <2>2, <2>3, <2>4
  <2>6. f[m] \in Seq(S) /\ Appends(f[m], a, l, b, w)
    BY <2>5, Appended
  <2>7. off[m + 1] = l + w
    BY <2>2, <2>3
  <2>8. ASSUME NEW i \in 1 .. m
        PROVE  /\ off[i] \in Nat /\ off[i + 1] <= off[m + 1]
               /\ \A k \in 1 .. Len(seqs[i]) : f[m][off[i] + k] = seqs[i][k]
    <3>1. CASE i = m
      <4>1. \A k \in 1 .. w : f[m][l + k] = b[k]
        BY <2>6 DEF Appends
      <4>2. off[m + 1] <= off[m + 1]
        BY <2>7
      <4> QED
        BY <2>2, <2>3, <2>4, <3>1, <4>1, <4>2
    <3>2. CASE i # m
      <4>1. i \in 1 .. m - 1 /\ i \in 1 .. n
        BY <3>2
      <4>2. PICK o \in Nat : o = off[i]
        BY <2>1, <4>1
      <4>3. PICK z \in Nat : z = Len(seqs[i])
        BY <4>1
      <4>4. off[i + 1] = o + z
        BY <4>1, <4>2, <4>3
      <4>5. o + z <= l
        BY <2>1, <2>2, <4>1, <4>4
      <4>6. \A k \in 1 .. z : a[o + k] = seqs[i][k]
        BY <2>1, <2>4, <4>1, <4>2, <4>3
      <4>7. ASSUME NEW k \in 1 .. z PROVE f[m][o + k] = seqs[i][k]
        <5>1. o + k \in 1 .. l
          BY <4>5
        <5> QED
          BY <2>6, <4>6, <5>1 DEF Appends
      <4>8. off[i + 1] <= off[m + 1]
        BY <2>7, <4>4, <4>5
      <4> QED
        BY <4>2, <4>3, <4>7, <4>8
    <3> QED
      BY <3>1, <3>2
  <2>9. Len(f[m]) = off[m + 1]
    BY <2>6, <2>7 DEF Appends
  <2> QED
    BY <2>6, <2>8, <2>9
<1>4. Wrong = {}
  <2> SUFFICES ASSUME Wrong # {} PROVE FALSE
    OBVIOUS
  <2> HIDE DEF Right
  <2>1. PICK i \in Wrong : \A j \in Wrong : i <= j
    <3>1. Wrong \in SUBSET Nat
      OBVIOUS
    <3> HIDE DEF Wrong
    <3> QED
      BY <3>1, FirstInSet
  <2>2. i # 1
    BY <1>2
  <2>3. i - 1 \in 1 .. n /\ i - 1 \notin Wrong /\ i \in 2 .. n
    BY <2>1, <2>2
  <2> QED
    BY <1>3, <2>3
<1>5. Right(n)
  <2> HIDE DEF Right
  <2> QED
    BY <1>4
<1> QED
  BY <1>1, <1>5 DEF MadeOf

-----------------------------------------------------------------------------
(* Fields one after the other *)

LEMMA DigitsOf ==
    ASSUME NEW n \in Nat, NEW Names, NEW name \in Names
    PROVE  /\ Digits(name, n) \in Seq(Names \X Nat) /\ Len(Digits(name, n)) = 2 * n
           /\ \A k \in 1 .. 2 * n : Digits(name, n)[k] = <<name, k>>
<1>1. 2 * n \in Nat /\ \A k \in 1 .. 2 * n : k \in Nat
  OBVIOUS
<1>2. Digits(name, n) \in [1 .. 2 * n -> Names \X Nat]
  BY <1>1 DEF Digits
<1>3. Digits(name, n) \in Seq(Names \X Nat)
  BY <1>1, <1>2, SeqDef
<1>4. DOMAIN Digits(name, n) = 1 .. 2 * n
  BY DEF Digits
<1>5. Len(Digits(name, n)) = 2 * n
  <2>1. Len(Digits(name, n)) \in Nat /\ DOMAIN Digits(name, n) = 1 .. Len(Digits(name, n))
    BY <1>3, LenProperties
  <2> QED
    BY <1>1, <1>4, <2>1
<1> QED
  BY <1>3, <1>5 DEF Digits

\* Fields that are in Names and have a size.
Sized(fields, n, size, Names) ==
    Tuple(fields, n) /\ \A i \in 1 .. n : fields[i] \in Names /\ size[fields[i]] \in Nat

\* Where they are when they are appended one after the other.
Places(fields, n, size, off) ==
    off[1] = 0 /\ \A i \in 1 .. n : off[i + 1] = off[i] + 2 * size[fields[i]]

\* The digits of each field lie where it is.
Lies(t, fields, n, size, off) ==
    /\ Len(t) = off[n + 1]
    /\ \A i \in 1 .. n :
         /\ off[i] \in Nat /\ off[i] + 2 * size[fields[i]] <= off[n + 1]
         /\ \A k \in 1 .. 2 * size[fields[i]] : t[off[i] + k] = <<fields[i], k>>

LEMMA WrittenType ==
    ASSUME NEW n \in Nat, n # 0, NEW fields, NEW size, NEW Names, Sized(fields, n, size, Names)
    PROVE  Written(fields, size) \in Seq(Names \X Nat)
<1> DEFINE seqs == [i \in 1 .. n |-> Digits(fields[i], size[fields[i]])]
<1>1. Written(fields, size) = FlattenSeq(seqs) /\ Len(seqs) = n
  BY DEF Written, Sized, Tuple
<1>2. \A i \in 1 .. n : seqs[i] \in Seq(Names \X Nat)
  BY DigitsOf DEF Sized
<1> HIDE DEF seqs
<1> QED
  BY <1>1, <1>2, FlattenType

LEMMA WrittenAt ==
    ASSUME NEW n \in Nat, n # 0, NEW fields, NEW size, NEW Names, Sized(fields, n, size, Names),
           NEW off, Places(fields, n, size, off)
    PROVE  Lies(Written(fields, size), fields, n, size, off)
<1> DEFINE seqs == [i \in 1 .. n |-> Digits(fields[i], size[fields[i]])]
<1>1. Written(fields, size) = FlattenSeq(seqs) /\ Len(seqs) = n
  BY DEF Written, Sized, Tuple
<1>2. \A i \in 1 .. n : /\ seqs[i] \in Seq(Names \X Nat) /\ Len(seqs[i]) = 2 * size[fields[i]]
                        /\ \A k \in 1 .. 2 * size[fields[i]] : seqs[i][k] = <<fields[i], k>>
  BY DigitsOf DEF Sized
<1> HIDE DEF seqs
<1>3. Starts(off, seqs, n)
  BY <1>2 DEF Places, Starts
<1>4. MadeOf(FlattenSeq(seqs), seqs, n, off)
  <2> DEFINE S == Names \X Nat
  <2>1. \A i \in 1 .. n : seqs[i] \in Seq(S)
    BY <1>2
  <2> HIDE DEF S
  <2> QED
    BY <1>1, <1>3, <2>1, FlattenAt
<1>5. ASSUME NEW i \in 1 .. n
      PROVE  /\ off[i] \in Nat /\ off[i] + 2 * size[fields[i]] <= off[n + 1]
             /\ \A k \in 1 .. 2 * size[fields[i]] :
                   FlattenSeq(seqs)[off[i] + k] = <<fields[i], k>>
  <2>1. off[i + 1] = off[i] + 2 * size[fields[i]]
    BY DEF Places
  <2> QED
    BY <1>2, <1>4, <2>1 DEF MadeOf
<1> QED
  BY <1>1, <1>4, <1>5 DEF MadeOf, Lies
-----------------------------------------------------------------------------
(* The fields of each format, in order, and where each starts after the prefix *)

FieldsOf == [
    C1 |-> <<"version", "contract_name", "contract_file_hash", "governing_law", "jurisdiction",
             "contract_expriration", "url", "issuer_id", "issuer_type", "authorization_flag",
             "voting_system", "initialtive_threshold", "initialtive_threshold_currency",
             "restricted_qty">>,
    C2 |-> <<"version", "contract_name", "contract_file_hash", "governing_law", "jurisdiction",
             "timestamp", "contract_expriration", "url", "contrac_revision", "issuer_id",
             "issuer_type", "contract_operator_id", "authorization_flag", "voting_system",
             "initialtive_threshold", "initialtive_threshold_currency", "restricted_qty">>,
    A1 |-> <<"version", "asset_type", "asset_id", "authorization_flag", "voting_system",
             "vote_multiplier", "qty", "contract_fee_currency", "contract_fee_var",
             "contract_fee_fixed", "payload">>,
    A2 |-> <<"version", "asset_type", "asset_id", "asset_revision", "timestamp",
             "authorization_flag", "voting_system", "vote_multiplier", "qty",
             "contract_fee_currency", "contract_fee_var", "contract_fee_fixed", "payload">>,
    T2 |-> <<"version", "party1_asset_type", "party1_asset_id", "party1_token_qty",
             "offer_valid_until", "exchange_fee_currency", "exchange_fee_var",
             "exchange_fee_var", "exchange_fee_address">>,
    T4 |-> <<"version", "asset_type", "asset_id", "party1_token_qty", "party2_token_qty",
             "timestamp">>]

StartsOf == [
    C1 |-> <<0, 2, 66, 130, 140, 150, 166, 306, 338, 340, 344, 346, 354, 360, 376>>,
    C2 |-> <<0, 2, 66, 130, 140, 150, 166, 182, 322, 326, 358, 360, 392, 396, 398, 406, 412, 428>>,
    A1 |-> <<0, 2, 8, 72, 76, 78, 80, 96, 102, 110, 118, 156>>,
    A2 |-> <<0, 2, 8, 72, 76, 92, 96, 98, 100, 116, 122, 130, 138, 176>>,
    T2 |-> <<0, 2, 8, 72, 88, 104, 110, 118, 126, 210>>,
    T4 |-> <<0, 2, 8, 72, 88, 104, 120>>]

CountOf == [C1 |-> 14, C2 |-> 17, A1 |-> 11, A2 |-> 13, T2 |-> 9, T4 |-> 6]

\* The sizes both programs use unless a client of TokenSend chooses others.
Usual(q) == q.asset_type = 3 /\ q.address = 42

LEMMA FieldSizes ==
    ASSUME NEW q, Usual(q)
    PROVE  /\ Sizes(q)["symbol"] = 4 /\ Sizes(q)["version"] = 1
           /\ Sizes(q)["contract_name"] = 32 /\ Sizes(q)["contract_file_hash"] = 32
           /\ Sizes(q)["governing_law"] = 5 /\ Sizes(q)["jurisdiction"] = 5
           /\ Sizes(q)["timestamp"] = 8 /\ Sizes(q)["contract_expriration"] = 8
           /\ Sizes(q)["url"] = 70 /\ Sizes(q)["contrac_revision"] = 2
           /\ Sizes(q)["issuer_id"] = 16 /\ Sizes(q)["issuer_type"] = 1
           /\ Sizes(q)["contract_operator_id"] = 16
           /\ Sizes(q)["authorization_flag"] = 2 /\ Sizes(q)["voting_system"] = 1
           /\ Sizes(q)["initialtive_threshold"] = 4
           /\ Sizes(q)["initialtive_threshold_currency"] = 3
           /\ Sizes(q)["restricted_qty"] = 8
           /\ Sizes(q)["asset_type"] = 3 /\ Sizes(q)["asset_id"] = 32
           /\ Sizes(q)["asset_revision"] = 2 /\ Sizes(q)["vote_multiplier"] = 1
           /\ Sizes(q)["qty"] = 8 /\ Sizes(q)["contract_fee_currency"] = 3
           /\ Sizes(q)["contract_fee_var"] = 4 /\ Sizes(q)["contract_fee_fixed"] = 4
           /\ Sizes(q)["payload"] = 19
           /\ Sizes(q)["party1_asset_type"] = 3 /\ Sizes(q)["party1_asset_id"] = 32
           /\ Sizes(q)["party1_token_qty"] = 8 /\ Sizes(q)["party2_token_qty"] = 8
           /\ Sizes(q)["offer_valid_until"] = 8 /\ Sizes(q)["exchange_fee_currency"] = 3
           /\ Sizes(q)["exchange_fee_var"] = 4 /\ Sizes(q)["exchange_fee_address"] = 42
BY DEF Usual, Sizes, Numbers, Texts

LEMMA FieldsStart ==
    ASSUME NEW q, Usual(q)
    PROVE  \A code \in Codes : Places(FieldsOf[code], CountOf[code], Sizes(q), StartsOf[code])
<1>1. Places(FieldsOf.C1, 14, Sizes(q), StartsOf.C1)
  BY FieldSizes DEF Places, FieldsOf, StartsOf
<1>2. Places(FieldsOf.C2, 17, Sizes(q), StartsOf.C2)
  BY FieldSizes DEF Places, FieldsOf, StartsOf
<1>3. Places(FieldsOf.A1, 11, Sizes(q), StartsOf.A1)
  BY FieldSizes DEF Places, FieldsOf, StartsOf
<1>4. Places(FieldsOf.A2, 13, Sizes(q), StartsOf.A2)
  BY FieldSizes DEF Places, FieldsOf, StartsOf
<1>5. Places(FieldsOf.T2, 9, Sizes(q), StartsOf.T2)
  BY FieldSizes DEF Places, FieldsOf, StartsOf
<1>6. Places(FieldsOf.T4, 6, Sizes(q), StartsOf.T4)
  BY FieldSizes DEF Places, FieldsOf, StartsOf
<1> QED
  BY <1>1, <1>2, <1>3, <1>4, <1>5, <1>6 DEF Codes, CountOf

\* The writer's order.  The fields after the version are appended list by list.
Rest(code, n) == [i \in 1 .. n |-> FieldsOf[code][i + 1]]
Continues(g, n, code, m) == Tuple(g, n) /\ \A i \in 1 .. n : g[i] = FieldsOf[code][(m + i) + 1]

LEMMA Continued ==
    ASSUME NEW code, NEW m \in Nat, NEW n \in Nat, NEW g, Continues(g, n, code, m)
    PROVE  \A k \in Nat : k = m + n => Rest(code, m) \o g = Rest(code, k)
<1>1. Tuple(Rest(code, m), m) /\ Tuple(Rest(code, m + n), m + n)
  BY DEF Tuple, Rest
<1>2. \A i \in 1 .. m : Rest(code, m + n)[i] = Rest(code, m)[i]
  BY DEF Rest
<1>3. \A i \in 1 .. n : Rest(code, m + n)[m + i] = g[i]
  BY DEF Rest, Continues
<1>4. Tuple(g, n)
  BY DEF Continues
<1>5. Joins(Rest(code, m), m, g, n, Rest(code, m + n))
  BY <1>1, <1>2, <1>3, <1>4 DEF Joins
<1> QED
  BY <1>5, Joined

LEMMA VersionFirst ==
    ASSUME NEW code \in Codes, NEW n \in Nat, Tuple(FieldsOf[code], n + 1),
           FieldsOf[code][1] = "version"
    PROVE  <<"version">> \o Rest(code, n) = FieldsOf[code]
<1>1. Tuple(<<"version">>, 1) /\ Tuple(Rest(code, n), n)
  BY DEF Tuple, Rest
<1>2. Tuple(FieldsOf[code], 1 + n) /\ \A i \in 1 .. 1 : FieldsOf[code][i] = <<"version">>[i]
  BY DEF Tuple
<1>3. \A i \in 1 .. n : FieldsOf[code][1 + i] = Rest(code, n)[i]
  BY DEF Rest
<1> DEFINE v == <<"version">>
           w == Rest(code, n)
           h == FieldsOf[code]
<1>4. Joins(v, 1, w, n, h)
  BY <1>1, <1>2, <1>3 DEF Joins
<1> HIDE DEF v, w, h
<1>5. v \o w = h
  BY <1>4, Joined
<1> QED
  BY <1>5 DEF v, w, h

LEMMA FieldsWritten ==
    \A code \in Codes : /\ <<"version">> \o Layout[code] = FieldsOf[code]
                        /\ Tuple(FieldsOf[code], CountOf[code])
<1> USE DEF Tuple, Rest, Continues
<1>1. /\ <<"version">> \o Layout["C1"] = FieldsOf["C1"]
      /\ Tuple(FieldsOf["C1"], 14)
  <2> DEFINE names == <<"contract_name", "contract_file_hash">>
             issuer == <<"contract_expriration", "url", "issuer_id", "issuer_type">>
  <2>1. names = Rest("C1", 2)
    BY DEF FieldsOf, Asset
  <2>2. /\ Continues(Terms, 2, "C1", 2)
        /\ Continues(issuer, 4, "C1", 4)
        /\ Continues(Powers, 2, "C1", 8) /\ Continues(Threshold, 3, "C1", 10)
    BY DEF FieldsOf, Terms, Powers, Threshold
  <2>3. Tuple(FieldsOf["C1"], 14) /\ FieldsOf["C1"][1] = "version" /\ "C1" \in Codes
    BY DEF FieldsOf, Codes
  <2>4. Layout["C1"] = (((names \o Terms) \o issuer) \o Powers) \o Threshold
    BY DEF Layout, ContractLayout, Codes
  <2> HIDE DEF names, issuer, Tuple, Rest, Continues
  <2>5. /\ Rest("C1", 2) \o Terms = Rest("C1", 4)
        /\ Rest("C1", 4) \o issuer = Rest("C1", 8)
        /\ Rest("C1", 8) \o Powers = Rest("C1", 10)
        /\ Rest("C1", 10) \o Threshold = Rest("C1", 13)
    <3>1. Rest("C1", 2) \o Terms = Rest("C1", 4)
      BY <2>2, Continued
    <3>2. Rest("C1", 4) \o issuer = Rest("C1", 8)
      BY <2>2, Continued
    <3>3. Rest("C1", 8) \o Powers = Rest("C1", 10)
      BY <2>2, Continued
    <3>4. Rest("C1", 10) \o Threshold = Rest("C1", 13)
      BY <2>2, Continued
    <3> QED
      BY <3>1, <3>2, <3>3, <3>4
  <2>6. <<"version">> \o Rest("C1", 13) = FieldsOf["C1"]
    BY <2>3, VersionFirst
  <2> QED
    BY <2>1, <2>3, <2>4, <2>5, <2>6, Zenon
<1>2. /\ <<"version">> \o Layout["C2"] = FieldsOf["C2"]
      /\ Tuple(FieldsOf["C2"], 17)
  <2> DEFINE names == <<"contract_name", "contract_file_hash">>
             issuer == <<"timestamp", "contract_expriration", "url", "contrac_revision",
                         "issuer_id", "issuer_type", "contract_operator_id">>
  <2>1. names = Rest("C2", 2)
    BY DEF FieldsOf, Asset
  <2>2. /\ Continues(Terms, 2, "C2", 2)
        /\ Continues(issuer, 7, "C2", 4)
        /\ Continues(Powers, 2, "C2", 11) /\ Continues(Threshold, 3, "C2", 13)
    BY DEF FieldsOf, Terms, Powers, Threshold
  <2>3. Tuple(FieldsOf["C2"], 17) /\ FieldsOf["C2"][1] = "version" /\ "C2" \in Codes
    BY DEF FieldsOf, Codes
  <2>4. Layout["C2"] = (((names \o Terms) \o issuer) \o Powers) \o Threshold
    BY DEF Layout, ContractLayout, Codes
  <2> HIDE DEF names, issuer, Tuple, Rest, Continues
  <2>5. /\ Rest("C2", 2) \o Terms = Rest("C2", 4)
        /\ Rest("C2", 4) \o issuer = Rest("C2", 11)
        /\ Rest("C2", 11) \o Powers = Rest("C2", 13)
        /\ Rest("C2", 13) \o Threshold = Rest("C2", 16)
    <3>1. Rest("C2", 2) \o Terms = Rest("C2", 4)
      BY <2>2, Continued
    <3>2. Rest("C2", 4) \o issuer = Rest("C2", 11)
      BY <2>2, Continued
    <3>3. Rest("C2", 11) \o Powers = Rest("C2", 13)
      BY <2>2, Continued
    <3>4. Rest("C2", 13) \o Threshold = Rest("C2", 16)
      BY <2>2, Continued
    <3> QED
      BY <3>1, <3>2, <3>3, <3>4
  <2>6. <<"version">> \o Rest("C2", 16) = FieldsOf["C2"]
    BY <2>3, VersionFirst
  <2> QED
    BY <2>1, <2>3, <2>4, <2>5, <2>6, Zenon
<1>3. /\ <<"version">> \o Layout["A1"] = FieldsOf["A1"]
      /\ Tuple(FieldsOf["A1"], 11)
  <2> DEFINE qty == <<"vote_multiplier", "qty">>
             last == <<"payload">>
  <2>1. Asset = Rest("A1", 2)
    BY DEF FieldsOf, Asset
  <2>2. /\ Continues(Powers, 2, "A1", 2)
        /\ Continues(qty, 2, "A1", 4) /\ Continues(Fees, 3, "A1", 6)
        /\ Continues(last, 1, "A1", 9)
    BY DEF FieldsOf, Asset, Powers, Fees
  <2>3. Tuple(FieldsOf["A1"], 11) /\ FieldsOf["A1"][1] = "version" /\ "A1" \in Codes
    BY DEF FieldsOf, Codes
  <2>4. Layout["A1"] = (((Asset \o Powers) \o qty) \o Fees) \o last
    BY DEF Layout, AssetLayout, Codes
  <2> HIDE DEF qty, last, Tuple, Rest, Continues
  <2>5. /\ Rest("A1", 2) \o Powers = Rest("A1", 4)
        /\ Rest("A1", 4) \o qty = Rest("A1", 6)
        /\ Rest("A1", 6) \o Fees = Rest("A1", 9)
        /\ Rest("A1", 9) \o last = Rest("A1", 10)
    <3>1. Rest("A1", 2) \o Powers = Rest("A1", 4)
      BY <2>2, Continued
    <3>2. Rest("A1", 4) \o qty = Rest("A1", 6)
      BY <2>2, Continued
    <3>3. Rest("A1", 6) \o Fees = Rest("A1", 9)
      BY <2>2, Continued
    <3>4. Rest("A1", 9) \o last = Rest("A1", 10)
      BY <2>2, Continued
    <3> QED
      BY <3>1, <3>2, <3>3, <3>4
  <2>6. <<"version">> \o Rest("A1", 10) = FieldsOf["A1"]
    BY <2>3, VersionFirst
  <2> QED
    BY <2>1, <2>3, <2>4, <2>5, <2>6, Zenon
<1>4. /\ <<"version">> \o Layout["A2"] = FieldsOf["A2"]
      /\ Tuple(FieldsOf["A2"], 13)
  <2> DEFINE revision == <<"asset_revision", "timestamp">>
             qty == <<"vote_multiplier", "qty">>
             last == <<"payload">>
  <2>1. Asset = Rest("A2", 2)
    BY DEF FieldsOf, Asset
  <2>2. /\ Continues(revision, 2, "A2", 2)
        /\ Continues(Powers, 2, "A2", 4) /\ Continues(qty, 2, "A2", 6)
        /\ Continues(Fees, 3, "A2", 8) /\ Continues(last, 1, "A2", 11)
    BY DEF FieldsOf, Asset, Powers, Fees
  <2>3. Tuple(FieldsOf["A2"], 13) /\ FieldsOf["A2"][1] = "version" /\ "A2" \in Codes
    BY DEF FieldsOf, Codes
  <2>4. Layout["A2"] = ((((Asset \o revision) \o Powers) \o qty) \o Fees) \o last
    BY DEF Layout, AssetLayout, Codes
  <2> HIDE DEF revision, qty, last, Tuple, Rest, Continues
  <2>5. /\ Rest("A2", 2) \o revision = Rest("A2", 4)
        /\ Rest("A2", 4) \o Powers = Rest("A2", 6)
        /\ Rest("A2", 6) \o qty = Rest("A2", 8)
        /\ Rest("A2", 8) \o Fees = Rest("A2", 11)
        /\ Rest("A2", 11) \o last = Rest("A2", 12)
    <3>1. Rest("A2", 2) \o revision = Rest("A2", 4)
      BY <2>2, Continued
    <3>2. Rest("A2", 4) \o Powers = Rest("A2", 6)
      BY <2>2, Continued
    <3>3. Rest("A2", 6) \o qty = Rest("A2", 8)
      BY <2>2, Continued
    <3>4. Rest("A2", 8) \o Fees = Rest("A2", 11)
      BY <2>2, Continued
    <3>5. Rest("A2", 11) \o last = Rest("A2", 12)
      BY <2>2, Continued
    <3> QED
      BY <3>1, <3>2, <3>3, <3>4, <3>5
  <2>6. <<"version">> \o Rest("A2", 12) = FieldsOf["A2"]
    BY <2>3, VersionFirst
  <2> QED
    BY <2>1, <2>3, <2>4, <2>5, <2>6, Zenon
<1>5. /\ <<"version">> \o Layout["T2"] = FieldsOf["T2"]
      /\ Tuple(FieldsOf["T2"], 9)
  <2>1. Layout["T2"] = Rest("T2", 8)
    <3>1. Tuple(Layout["T2"], 8)
      <4>1. Layout["T2"] = TransferLayout["T2"]
        BY DEF Layout, Codes
      <4>2. Tuple(TransferLayout["T2"], 8)
        BY DEF TransferLayout
      <4> HIDE DEF Tuple
      <4> QED
        BY <4>1, <4>2
    <3>2. \A i \in 1 .. 8 : Layout["T2"][i] = FieldsOf["T2"][i + 1]
      BY DEF Layout, TransferLayout, Codes, FieldsOf
    <3> QED
      BY <3>1, <3>2
  <2>2. Tuple(FieldsOf["T2"], 9) /\ FieldsOf["T2"][1] = "version" /\ "T2" \in Codes
    BY DEF FieldsOf, Codes
  <2> HIDE DEF Tuple, Rest, Continues
  <2> QED
    BY <2>1, <2>2, VersionFirst
<1>6. /\ <<"version">> \o Layout["T4"] = FieldsOf["T4"]
      /\ Tuple(FieldsOf["T4"], 6)
  <2> DEFINE quantities == <<"party1_token_qty", "party2_token_qty", "timestamp">>
  <2>1. Asset = Rest("T4", 2) /\ Continues(quantities, 3, "T4", 2)
    BY DEF FieldsOf, Asset
  <2>2. Tuple(FieldsOf["T4"], 6) /\ FieldsOf["T4"][1] = "version" /\ "T4" \in Codes
    BY DEF FieldsOf, Codes
  <2>3. Layout["T4"] = Asset \o quantities
    BY DEF Layout, TransferLayout, Codes
  <2> HIDE DEF quantities, Tuple, Rest, Continues
  <2>4. Rest("T4", 2) \o quantities = Rest("T4", 5)
    BY <2>1, Continued
  <2>5. <<"version">> \o Rest("T4", 5) = FieldsOf["T4"]
    BY <2>2, VersionFirst
  <2> QED
    BY <2>1, <2>2, <2>3, <2>4, <2>5, Zenon
<1> HIDE DEF Tuple, Rest, Continues
<1>7. /\ CountOf["C1"] = 14 /\ CountOf["C2"] = 17 /\ CountOf["A1"] = 11
      /\ CountOf["A2"] = 13 /\ CountOf["T2"] = 9 /\ CountOf["T4"] = 6
  BY DEF CountOf
<1> QED
  BY <1>1, <1>2, <1>3, <1>4, <1>5, <1>6, <1>7, Zenon DEF Codes

-----------------------------------------------------------------------------
(* What the readers look for *)

\* Every field the reader cuts out lies where a field of that name was written,
\* all of it; the fixed exchange fee has none.
LEMMA FieldsAgree ==
    ASSUME NEW q, Usual(q), NEW code \in Codes, NEW x \in UnSerialize[code],
           x.name # "exchange_fee_fixed"
    PROVE  \E i \in 1 .. CountOf[code] :
              /\ x.name = FieldsOf[code][i] /\ x.from = 12 + StartsOf[code][i]
              /\ x.digits = 2 * Sizes(q)[FieldsOf[code][i]]
<1> DEFINE Agrees(ty, n, y) ==
        \E i \in 1 .. n : /\ y.name = FieldsOf[ty][i] /\ y.from = 12 + StartsOf[ty][i]
                          /\ y.digits = 2 * Sizes(q)[FieldsOf[ty][i]]
<1>1. \A y \in UnSerialize["C1"] : Agrees("C1", 14, y)
  <2>1. UnSerialize["C1"] = {At("version", 12, 2)} \cup UnSerializeContract["C1"]
    BY DEF UnSerialize, Codes
  <2> QED
    BY <2>1, FieldSizes DEF UnSerializeContract, ContractAt, At, FieldsOf, StartsOf
<1>2. \A y \in UnSerialize["C2"] : Agrees("C2", 17, y)
  <2>1. UnSerialize["C2"] = {At("version", 12, 2)} \cup UnSerializeContract["C2"]
    BY DEF UnSerialize, Codes
  <2> QED
    BY <2>1, FieldSizes DEF UnSerializeContract, ContractAt, At, FieldsOf, StartsOf
<1>3. \A y \in UnSerialize["A1"] : Agrees("A1", 11, y)
  <2>1. UnSerialize["A1"] = {At("version", 12, 2)} \cup UnSerializeAsset["A1"]
    BY DEF UnSerialize, Codes
  <2> QED
    BY <2>1, FieldSizes DEF UnSerializeAsset, AssetAt, At, FieldsOf, StartsOf
<1>4. \A y \in UnSerialize["A2"] : Agrees("A2", 13, y)
  <2>1. UnSerialize["A2"] = {At("version", 12, 2)} \cup UnSerializeAsset["A2"]
    BY DEF UnSerialize, Codes
  <2> QED
    BY <2>1, FieldSizes DEF UnSerializeAsset, AssetAt, At, FieldsOf, StartsOf
<1>5. \A y \in UnSerialize["T2"] : y.name # "exchange_fee_fixed" => Agrees("T2", 9, y)
  <2>1. UnSerialize["T2"] = {At("version", 12, 2)} \cup UnSerializeTransfer["T2"]
    BY DEF UnSerialize, Codes
  <2> QED
    BY <2>1, FieldSizes DEF UnSerializeTransfer, At, FieldsOf, StartsOf
<1>6. \A y \in UnSerialize["T4"] : Agrees("T4", 6, y)
  <2>1. UnSerialize["T4"] = {At("version", 12, 2)} \cup UnSerializeTransfer["T4"]
    BY DEF UnSerialize, Codes
  <2> QED
    BY <2>1, FieldSizes DEF UnSerializeTransfer, AssetAt, At, FieldsOf, StartsOf
<1>7. /\ CountOf["C1"] = 14 /\ CountOf["C2"] = 17 /\ CountOf["A1"] = 11
      /\ CountOf["A2"] = 13 /\ CountOf["T2"] = 9 /\ CountOf["T4"] = 6
  BY DEF CountOf
<1>8. Agrees(code, CountOf[code], x)
  <2> HIDE DEF Agrees
  <2> QED
    BY <1>1, <1>2, <1>3, <1>4, <1>5, <1>6, <1>7, Zenon DEF Codes
<1> QED
  BY <1>8

\* A number lies before the shortest payload that is not refused ends.
LEMMA NumbersInside ==
    ASSUME NEW code \in Codes, NEW x \in UnSerialize[code], x.name \in DOMAIN Numbers
    PROVE  /\ x.from \in Nat /\ x.digits = 2 * Numbers[x.name]
           /\ x.digits \in Nat /\ x.from + x.digits <= MinDigits[code]
<1> DEFINE Inside(ty, y) == /\ y.from \in Nat /\ y.digits = 2 * Numbers[y.name]
                            /\ y.digits \in Nat /\ y.from + y.digits <= MinDigits[ty]
<1>1. \A y \in UnSerialize["C1"] : y.name \in DOMAIN Numbers => Inside("C1", y)
  <2>1. UnSerialize["C1"] = {At("version", 12, 2)} \cup UnSerializeContract["C1"]
    BY DEF UnSerialize, Codes
  <2> QED
    BY <2>1 DEF UnSerializeContract, ContractAt, At, Numbers, MinDigits
<1>2. \A y \in UnSerialize["C2"] : y.name \in DOMAIN Numbers => Inside("C2", y)
  <2>1. UnSerialize["C2"] = {At("version", 12, 2)} \cup UnSerializeContract["C2"]
    BY DEF UnSerialize, Codes
  <2> QED
    BY <2>1 DEF UnSerializeContract, ContractAt, At, Numbers, MinDigits
<1>3. \A y \in UnSerialize["A1"] : y.name \in DOMAIN Numbers => Inside("A1", y)
  <2>1. UnSerialize["A1"] = {At("version", 12, 2)} \cup UnSerializeAsset["A1"]
    BY DEF UnSerialize, Codes
  <2> QED
    BY <2>1 DEF UnSerializeAsset, AssetAt, At, Numbers, MinDigits
<1>4. \A y \in UnSerialize["A2"] : y.name \in DOMAIN Numbers => Inside("A2", y)
  <2>1. UnSerialize["A2"] = {At("version", 12, 2)} \cup UnSerializeAsset["A2"]
    BY DEF UnSerialize, Codes
  <2> QED
    BY <2>1 DEF UnSerializeAsset, AssetAt, At, Numbers, MinDigits
<1>5. \A y \in UnSerialize["T2"] : y.name \in DOMAIN Numbers => Inside("T2", y)
  <2>1. UnSerialize["T2"] = {At("version", 12, 2)} \cup UnSerializeTransfer["T2"]
    BY DEF UnSerialize, Codes
  <2> QED
    BY <2>1 DEF UnSerializeTransfer, At, Numbers, MinDigits
<1>6. \A y \in UnSerialize["T4"] : y.name \in DOMAIN Numbers => Inside("T4", y)
  <2>1. UnSerialize["T4"] = {At("version", 12, 2)} \cup UnSerializeTransfer["T4"]
    BY DEF UnSerialize, Codes
  <2> QED
    BY <2>1 DEF UnSerializeTransfer, AssetAt, At, Numbers, MinDigits
<1>7. Inside(code, x)
  <2> HIDE DEF Inside
  <2> QED
    BY <1>1, <1>2, <1>3, <1>4, <1>5, <1>6, Zenon DEF Codes
<1> QED
  BY <1>7

LEMMA EndsOf ==
    \A code \in Codes : /\ StartsOf[code][CountOf[code] + 1] \in Nat
                        /\ MinDigits[code] <= 12 + StartsOf[code][CountOf[code] + 1]
BY DEF Codes, StartsOf, CountOf, MinDigits

\* An op code is known by its text.
LEMMA CodeTexts ==
    \A a, b \in DOMAIN CodeSerialize : CodeSerialize[a] = CodeSerialize[b] => a = b
BY DEF CodeSerialize

LEMMA CodeIsRead == \A code \in Codes : CodeUnSerialize(CodeSerialize[code]) = code
<1> SUFFICES ASSUME NEW code \in Codes PROVE CodeUnSerialize(CodeSerialize[code]) = code
  OBVIOUS
<1> DEFINE same == {a \in DOMAIN CodeSerialize : CodeSerialize[a] = CodeSerialize[code]}
<1>1. code \in DOMAIN CodeSerialize
  BY DEF Codes, CodeSerialize
<1>2. same = {code}
  BY <1>1, CodeTexts
<1>3. CodeUnSerialize(CodeSerialize[code])
        = IF same = {} THEN "ERROR_CODE" ELSE CHOOSE a \in same : TRUE
  BY DEF CodeUnSerialize
<1> HIDE DEF same
<1> QED
  BY <1>2, <1>3

-----------------------------------------------------------------------------
(* A payload and what is read from it *)

\* What a digit may belong to.
DigitNames == DOMAIN Numbers \cup DOMAIN Texts(NoRequest) \cup DOMAIN Payload
              \cup {CodeSerialize[code] : code \in DOMAIN CodeSerialize}
Digit == DigitNames \X Nat

LEMMA ReadAll ==
    ASSUME NEW p \in Seq(Digit), NEW x, x.from \in Nat, x.digits \in Nat,
           x.from + x.digits <= Len(p)
    PROVE  /\ Read(p, x) \in Seq(Digit) /\ Len(Read(p, x)) = x.digits
           /\ \A k \in 1 .. x.digits : Read(p, x)[k] = p[x.from + k]
<1> DEFINE S == Digit
<1>1. Read(p, x) = SubSeq(p, x.from + 1, x.from + x.digits)
  BY DEF Read
<1>2. PICK m \in Nat, n \in Nat : m = x.from /\ n = x.digits
  OBVIOUS
<1>3. p \in Seq(S) /\ Len(p) \in Nat /\ m + n <= Len(p)
  BY <1>2
<1> HIDE DEF S
<1>4. /\ SubSeq(p, m + 1, m + n) \in Seq(S)
      /\ Len(SubSeq(p, m + 1, m + n)) = n
      /\ \A k \in 1 .. n : SubSeq(p, m + 1, m + n)[k] = p[m + k]
  <2>1. \A k \in (m + 1) .. (m + n) : k \in 1 .. Len(p)
    BY <1>3
  <2> QED
    BY <1>3, <2>1, SubSeqProperties
<1> QED
  BY <1>1, <1>2, <1>4 DEF S

\* The digits of one field, read where they are.
LEMMA ReadField ==
    ASSUME NEW p \in Seq(Digit), NEW x, NEW n \in Nat, NEW name,
           x.from \in Nat, x.digits = 2 * n, x.from + x.digits <= Len(p),
           \A k \in 1 .. 2 * n : p[x.from + k] = <<name, k>>
    PROVE  Read(p, x) = Digits(name, n)
<1>1. x.digits \in Nat
  OBVIOUS
<1>2. /\ Read(p, x) \in Seq(Digit) /\ Len(Read(p, x)) = 2 * n
      /\ \A k \in 1 .. 2 * n : Read(p, x)[k] = <<name, k>>
  BY <1>1, ReadAll
<1>3. Read(p, x) = [k \in 1 .. 2 * n |-> Read(p, x)[k]]
  <2>1. Read(p, x) = [k \in 1 .. Len(Read(p, x)) |-> Read(p, x)[k]]
    BY <1>2
  <2> QED
    BY <1>2, <2>1
<1> QED
  BY <1>2, <1>3 DEF Digits

LEMMA NamesAreSized ==
    ASSUME NEW q, q.asset_type \in Nat, q.address \in Nat
    PROVE  \A name \in DOMAIN Numbers \cup DOMAIN Texts(NoRequest) :
              name \in DigitNames /\ Sizes(q)[name] \in Nat
<1>1. DOMAIN Texts(q) = DOMAIN Texts(NoRequest)
  BY DEF Texts
<1>2. \A name \in DOMAIN Numbers : Numbers[name] \in Nat
  BY DEF Numbers
<1>3. \A name \in DOMAIN Texts(q) : Texts(q)[name] \in Nat
  BY DEF Texts
<1> QED
  BY <1>1, <1>2, <1>3 DEF Sizes, DigitNames

LEMMA FieldsSized ==
    ASSUME NEW q, q.asset_type \in Nat, q.address \in Nat, NEW code \in Codes
    PROVE  /\ CountOf[code] \in Nat /\ CountOf[code] # 0
           /\ Sized(FieldsOf[code], CountOf[code], Sizes(q), DigitNames)
           /\ Sized(<<"symbol">>, 1, Sizes(q), DigitNames)
<1> DEFINE Named == DOMAIN Numbers \cup DOMAIN Texts(NoRequest)
<1>1. CountOf[code] \in Nat /\ CountOf[code] # 0
  BY DEF Codes, CountOf
<1>2. \A i \in 1 .. CountOf[code] : FieldsOf[code][i] \in Named
  <2>1. \A i \in 1 .. 14 : FieldsOf["C1"][i] \in Named
    BY DEF FieldsOf, Numbers, Texts
  <2>2. \A i \in 1 .. 17 : FieldsOf["C2"][i] \in Named
    BY DEF FieldsOf, Numbers, Texts
  <2>3. \A i \in 1 .. 11 : FieldsOf["A1"][i] \in Named
    BY DEF FieldsOf, Numbers, Texts
  <2>4. \A i \in 1 .. 13 : FieldsOf["A2"][i] \in Named
    BY DEF FieldsOf, Numbers, Texts
  <2>5. \A i \in 1 .. 9 : FieldsOf["T2"][i] \in Named
    BY DEF FieldsOf, Numbers, Texts
  <2>6. \A i \in 1 .. 6 : FieldsOf["T4"][i] \in Named
    BY DEF FieldsOf, Numbers, Texts
  <2>7. /\ CountOf["C1"] = 14 /\ CountOf["C2"] = 17 /\ CountOf["A1"] = 11
        /\ CountOf["A2"] = 13 /\ CountOf["T2"] = 9 /\ CountOf["T4"] = 6
    BY DEF CountOf
  <2> HIDE DEF Named
  <2> QED
    BY <2>1, <2>2, <2>3, <2>4, <2>5, <2>6, <2>7, Zenon DEF Codes
<1>3. Tuple(<<"symbol">>, 1) /\ \A i \in 1 .. 1 : <<"symbol">>[i] \in Named
  BY DEF Tuple, Texts
<1> HIDE DEF Named
<1>4. \A name \in Named : name \in DigitNames /\ Sizes(q)[name] \in Nat
  BY NamesAreSized DEF Named
<1>5. Tuple(FieldsOf[code], CountOf[code])
  BY FieldsWritten
<1> QED
  BY <1>1, <1>2, <1>3, <1>4, <1>5 DEF Sized

LEMMA PrefixOf ==
    ASSUME NEW code \in Codes
    PROVE  /\ Prefix(code) \in Seq(Digit) /\ Len(Prefix(code)) = 4
           /\ \A k \in 1 .. 4 : Prefix(code)[k] = <<CodeSerialize[code], k>>
<1>1. CodeSerialize[code] \in DigitNames
  BY DEF DigitNames, Codes, CodeSerialize
<1>2. \A k \in 1 .. 4 : Prefix(code)[k] = <<CodeSerialize[code], k>>
  BY DEF Prefix
<1>3. Tuple(Prefix(code), 4)
  BY DEF Prefix, Tuple
<1>4. \A k \in 1 .. 4 : Prefix(code)[k] \in Digit
  BY <1>1, <1>2 DEF Digit
<1> QED
  BY <1>2, <1>3, <1>4, TupleInSeq DEF Tuple

LEMMA FormatType ==
    ASSUME NEW q, q.asset_type \in Nat, q.address \in Nat, NEW code \in Codes
    PROVE  FormatOpReturnData(code, Sizes(q)) \in Seq(Digit)
<1> DEFINE symbol == Written(<<"symbol">>, Sizes(q))
           prefix == Prefix(code)
           fields == Written(FieldsOf[code], Sizes(q))
<1>1. symbol \in Seq(Digit) /\ fields \in Seq(Digit)
  BY FieldsSized, WrittenType DEF Digit
<1>2. prefix \in Seq(Digit)
  BY PrefixOf
<1>3. FormatOpReturnData(code, Sizes(q)) = (symbol \o prefix) \o fields
  BY FieldsWritten DEF FormatOpReturnData
<1> HIDE DEF symbol, prefix, fields
<1>4. symbol \o prefix \in Seq(Digit)
  BY <1>1, <1>2, ConcatProperties
<1>5. (symbol \o prefix) \o fields \in Seq(Digit)
  BY <1>1, <1>4, ConcatProperties
<1> QED
  BY <1>3, <1>5

\* A whole payload: the symbol, the prefix, the fields.
Formatted(p, code, size) ==
    /\ p \in Seq(Digit) /\ Len(p) = 12 + StartsOf[code][CountOf[code] + 1]
    /\ \A k \in 1 .. 8 : p[k] = <<"symbol", k>>
    /\ \A k \in 1 .. 4 : p[8 + k] = <<CodeSerialize[code], k>>
    /\ \A i \in 1 .. CountOf[code] :
         LET n == 2 * size[FieldsOf[code][i]]
             from == 12 + StartsOf[code][i]
         IN  /\ size[FieldsOf[code][i]] \in Nat /\ from \in Nat
             /\ from + n <= Len(p)
             /\ \A k \in 1 .. n : p[from + k] = <<FieldsOf[code][i], k>>

LEMMA FormatAt ==
    ASSUME NEW q, Usual(q), NEW code \in Codes
    PROVE  Formatted(FormatOpReturnData(code, Sizes(q)), code, Sizes(q))
<1> DEFINE symbol == Written(<<"symbol">>, Sizes(q))
           prefix == Prefix(code)
           fields == Written(FieldsOf[code], Sizes(q))
           p == FormatOpReturnData(code, Sizes(q))
           first == <<0, 8>>
           size(i) == Sizes(q)[FieldsOf[code][i]]
           start(i) == StartsOf[code][i]
           end == StartsOf[code][CountOf[code] + 1]
<1>1. q.asset_type \in Nat /\ q.address \in Nat
  BY DEF Usual
<1>2. symbol \in Seq(Digit) /\ fields \in Seq(Digit)
  BY <1>1, FieldsSized, WrittenType DEF Digit
<1>3. Len(symbol) = 8 /\ \A k \in 1 .. 8 : symbol[k] = <<"symbol", k>>
  <2>1. /\ Len(first) = 2 /\ first[1] = 0 /\ first[2] = 8
        /\ <<"symbol">>[1] = "symbol" /\ Sizes(q)["symbol"] = 4
    BY FieldSizes
  <2> HIDE DEF first
  <2>2. Places(<<"symbol">>, 1, Sizes(q), first)
    BY <2>1 DEF Places
  <2>3. Sized(<<"symbol">>, 1, Sizes(q), DigitNames)
    BY <1>1, FieldsSized
  <2> DEFINE names == <<"symbol">>
  <2>4. Lies(Written(names, Sizes(q)), names, 1, Sizes(q), first)
    <3>1. 1 \in Nat /\ 1 # 0
      OBVIOUS
    <3> QED
      BY <2>2, <2>3, <3>1, WrittenAt, Zenon
  <2>5. 1 \in 1 .. 1 /\ first[1 + 1] = 8 /\ names[1] = "symbol" /\ 2 * Sizes(q)[names[1]] = 8
    BY <2>1
  <2> HIDE DEF names
  <2>6. \A k \in 1 .. 8 : Written(names, Sizes(q))[first[1] + k] = <<"symbol", k>>
    BY <2>4, <2>5 DEF Lies
  <2>7. \A k \in 1 .. 8 : first[1] + k = k
    BY <2>1
  <2>8. Len(Written(names, Sizes(q))) = 8
    BY <2>4, <2>5 DEF Lies
  <2>9. symbol = Written(names, Sizes(q))
    BY DEF names
  <2> HIDE DEF symbol
  <2> QED
    BY <2>6, <2>7, <2>8, <2>9
<1>4. /\ prefix \in Seq(Digit) /\ Len(prefix) = 4
      /\ \A k \in 1 .. 4 : prefix[k] = <<CodeSerialize[code], k>>
  BY PrefixOf
<1>5. /\ Len(fields) = end /\ end \in Nat
      /\ \A i \in 1 .. CountOf[code] :
           /\ size(i) \in Nat /\ start(i) \in Nat /\ start(i) + 2 * size(i) <= end
           /\ \A k \in 1 .. 2 * size(i) : fields[start(i) + k] = <<FieldsOf[code][i], k>>
  <2>1. /\ CountOf[code] \in Nat /\ CountOf[code] # 0
        /\ Sized(FieldsOf[code], CountOf[code], Sizes(q), DigitNames)
    BY <1>1, FieldsSized
  <2>2. Places(FieldsOf[code], CountOf[code], Sizes(q), StartsOf[code])
    BY FieldsStart
  <2>3. Lies(fields, FieldsOf[code], CountOf[code], Sizes(q), StartsOf[code])
    BY <2>1, <2>2, WrittenAt
  <2> HIDE DEF fields
  <2> QED
    BY <2>1, <2>3, EndsOf DEF Sized, Lies
<1>6. p = (symbol \o prefix) \o fields
  BY FieldsWritten DEF FormatOpReturnData
<1> HIDE DEF symbol, prefix, fields, p, size, start, end
<1>7. symbol \o prefix \in Seq(Digit) /\ Appends(symbol \o prefix, symbol, 8, prefix, 4)
  BY <1>2, <1>3, <1>4, Appended
<1>8. p \in Seq(Digit) /\ Appends(p, symbol \o prefix, 12, fields, end) /\ Len(p) = 12 + end
  <2>1. Len(symbol \o prefix) = 12
    BY <1>7 DEF Appends
  <2>2. p \in Seq(Digit) /\ Appends(p, symbol \o prefix, 12, fields, end)
    BY <1>2, <1>5, <1>6, <1>7, <2>1, Appended
  <2> QED
    BY <2>2 DEF Appends
<1>9. ASSUME NEW k \in 1 .. 8 PROVE p[k] = <<"symbol", k>>
  <2>1. k \in 1 .. 12
    OBVIOUS
  <2> QED
    BY <1>3, <1>7, <1>8, <2>1 DEF Appends
<1>10. ASSUME NEW k \in 1 .. 4 PROVE p[8 + k] = <<CodeSerialize[code], k>>
  <2>1. 8 + k \in 1 .. 12
    OBVIOUS
  <2> QED
    BY <1>4, <1>7, <1>8, <2>1 DEF Appends
<1>11. ASSUME NEW i \in 1 .. CountOf[code]
       PROVE  /\ size(i) \in Nat /\ 12 + start(i) \in Nat
              /\ 12 + start(i) + 2 * size(i) <= Len(p)
              /\ \A k \in 1 .. 2 * size(i) : p[12 + start(i) + k] = <<FieldsOf[code][i], k>>
  <2>1. PICK n \in Nat, m \in Nat : n = size(i) /\ m = start(i)
    BY <1>5
  <2>2. m + 2 * n <= end
    BY <1>5, <2>1
  <2>3. ASSUME NEW k \in 1 .. 2 * n PROVE p[12 + m + k] = <<FieldsOf[code][i], k>>
    <3>1. m + k \in 1 .. end /\ 12 + m + k = 12 + (m + k)
      BY <1>5, <2>2
    <3>2. fields[m + k] = <<FieldsOf[code][i], k>>
      BY <1>5, <2>1
    <3> QED
      BY <1>8, <3>1, <3>2 DEF Appends
  <2> QED
    BY <1>5, <1>8, <2>1, <2>2, <2>3
<1> QED
  BY <1>8, <1>9, <1>10, <1>11 DEF p, size, start, end, Formatted

-----------------------------------------------------------------------------
(* A payload that is written and cut *)

\* A client writes fields of some number of bytes.
SizesAreNat == AssetTypeSizes \subseteq Nat /\ AddressSizes \subseteq Nat

\* A payload holds digits, however it was cut.
CodecInv ==
    /\ payload \in Seq(Digit)
    /\ request.code \in Codes => request \in Request

LEMMA RequestSizes ==
    ASSUME SizesAreNat, NEW q \in Request
    PROVE  q.code \in Codes /\ q.asset_type \in Nat /\ q.address \in Nat
<1>1. CASE q \in [code : Codes \ {"T2"}, asset_type : {3}, address : {42}]
  BY <1>1
<1>2. CASE q \in [code : {"T2"}, asset_type : AssetTypeSizes, address : AddressSizes]
  BY <1>2 DEF SizesAreNat, Codes
<1> QED
  BY <1>1, <1>2 DEF Request

LEMMA TypesAreNotCodes == PayloadTypes \cap Codes = {} /\ "none" \notin Codes \cup PayloadTypes
BY DEF PayloadTypes, PayloadLayout, Codes

\* What Serialize writes for every asset type.
LEMMA HeaderWritten == Written(PayloadHeader, Payload) \in Seq(Digit)
<1>1. Sized(PayloadHeader, 2, Payload, DigitNames)
  BY DEF Sized, Tuple, PayloadHeader, Payload, DigitNames
<1>2. 2 \in Nat /\ 2 # 0
  OBVIOUS
<1> QED
  BY <1>1, <1>2, WrittenType, Zenon DEF Digit

LEMMA CodecInit == Init => CodecInv
BY TypesAreNotCodes DEF Init, CodecInv, NoRequest

LEMMA CodecStep ==
    ASSUME SizesAreNat, CodecInv, [Next]_vars
    PROVE  CodecInv'
<1>1. CASE Write
  <2>1. PICK q \in Request : request' = q /\ payload' = FormatOpReturnData(q.code, Sizes(q))
    BY <1>1 DEF Write
  <2>2. q.code \in Codes /\ q.asset_type \in Nat /\ q.address \in Nat
    BY RequestSizes
  <2>3. payload' \in Seq(Digit)
    BY <2>1, <2>2, FormatType
  <2> QED
    BY <2>1, <2>3 DEF CodecInv
<1>2. CASE CutByte
  <2>1. payload \in Seq(Digit) /\ Len(payload) \in Nat
    BY DEF CodecInv
  <2>2. \A i \in 1 .. (Len(payload) - 2) : payload[i] \in Digit
    BY <2>1
  <2>3. payload' = SubSeq(payload, 1, Len(payload) - 2) /\ request' = request
    BY <1>2 DEF CutByte
  <2>4. payload' \in Seq(Digit)
    BY <2>1, <2>2, <2>3, SubSeqProperties
  <2> QED
    BY <2>3, <2>4 DEF CodecInv
<1>3. CASE WritePayload
  <2>1. PICK ty \in PayloadTypes : /\ request' = [NoRequest EXCEPT !.code = ty]
                                   /\ payload' = Serialize(ty, Payload)
    BY <1>3 DEF WritePayload
  <2>2. request'.code = ty
    BY <2>1 DEF NoRequest
  <2>3. payload' = Written(PayloadHeader, Payload)
    BY <2>1 DEF Serialize
  <2>4. payload' \in Seq(Digit)
    BY <2>3, HeaderWritten
  <2> QED
    BY <2>2, <2>4, TypesAreNotCodes DEF CodecInv
<1>4. CASE ~ (Write \/ CutByte \/ WritePayload)
  <2>1. payload' = payload /\ request' = request
    BY <1>4 DEF Next, vars, Insert, AddOutput, AddCoin, StartParse, Turn, Push
  <2> QED
    BY <2>1 DEF CodecInv
<1> QED
  BY <1>1, <1>2, <1>3, <1>4

\* For a field of any size that a client chooses and a payload that is cut anywhere:
\* it is refused before a number is taken from beyond its end
\* (UnSerializeOperation, minLengthFromMsgType).
THEOREM NumbersNeverCut == SizesAreNat => (Spec => []NumbersAreWhole)
<1> SUFFICES ASSUME SizesAreNat PROVE Spec => []NumbersAreWhole
  OBVIOUS
<1>1. CodecInv => NumbersAreWhole
  <2> DEFINE code == OpCode(payload)
             fields == UnSerializeOperation(payload)
  <2> SUFFICES ASSUME CodecInv, ~ Refused(payload),
                      NEW name \in DOMAIN fields \cap DOMAIN Numbers
               PROVE  Len(fields[name]) = 2 * Numbers[name]
    BY DEF NumbersAreWhole
  <2>1. payload \in Seq(Digit) /\ Len(payload) \in Nat
    BY DEF CodecInv
  <2>2. code \in Codes /\ ~ (Len(payload) < MinDigits[code])
    BY DEF Refused
  <2> DEFINE x == CHOOSE y \in UnSerialize[code] : y.name = name
  <2>3. DOMAIN fields = {y.name : y \in UnSerialize[code]} /\ fields[name] = Read(payload, x)
    BY DEF UnSerializeOperation
  <2>4. x \in UnSerialize[code] /\ x.name = name
    BY <2>3
  <2> HIDE DEF x, code, fields
  <2>5. /\ x.from \in Nat /\ x.digits = 2 * Numbers[name]
        /\ x.digits \in Nat /\ x.from + x.digits <= MinDigits[code]
    BY <2>2, <2>4, NumbersInside
  <2>6. MinDigits[code] \in Nat
    BY <2>2 DEF Codes, MinDigits
  <2>7. x.from + x.digits <= Len(payload)
    BY <2>1, <2>2, <2>5, <2>6
  <2>8. Len(Read(payload, x)) = x.digits
    BY <2>1, <2>5, <2>7, ReadAll
  <2> QED
    BY <2>3, <2>5, <2>8
<1> QED
  BY <1>1, CodecInit, CodecStep, PTL DEF Spec

\* In all six formats, and whatever other sizes a client may choose elsewhere: with
\* a 3-byte asset type and a cash address what one program writes another reads,
\* field by field, but for the fixed exchange fee (FormatOpReturnData,
\* UnSerializeOperation).
THEOREM WrittenIsRead == SizesAreNat => (Spec => []ReadAsWritten)
<1> SUFFICES ASSUME SizesAreNat PROVE Spec => []ReadAsWritten
  OBVIOUS
<1>1. CodecInv => ReadAsWritten
  <2> DEFINE fields == UnSerializeOperation(payload)
  <2> SUFFICES ASSUME CodecInv, Whole, request.asset_type = 3, request.address = 42
               PROVE  /\ ~ Refused(payload) /\ OpCode(payload) = request.code
                      /\ \A name \in DOMAIN fields \ {"exchange_fee_fixed"} :
                            fields[name] = Digits(name, Sizes(request)[name])
    BY DEF ReadAsWritten
  <2>1. PICK code \in Codes : code = request.code
    BY DEF Whole
  <2> DEFINE q == request
  <2>2. Usual(q) /\ payload = FormatOpReturnData(code, Sizes(q))
    BY <2>1 DEF Usual, Whole
  <2> HIDE DEF q
  <2>3. PICK end \in Nat : end = StartsOf[code][CountOf[code] + 1] /\ MinDigits[code] <= 12 + end
    BY EndsOf
  <2>4. /\ payload \in Seq(Digit) /\ Len(payload) = 12 + end
        /\ \A k \in 1 .. 8 : payload[k] = <<"symbol", k>>
        /\ \A k \in 1 .. 4 : payload[8 + k] = <<CodeSerialize[code], k>>
        /\ \A i \in 1 .. CountOf[code] :
             LET n == 2 * Sizes(q)[FieldsOf[code][i]]
                 from == 12 + StartsOf[code][i]
             IN  /\ Sizes(q)[FieldsOf[code][i]] \in Nat /\ from \in Nat
                 /\ from + n <= Len(payload)
                 /\ \A k \in 1 .. n : payload[from + k] = <<FieldsOf[code][i], k>>
    <3>1. Formatted(payload, code, Sizes(q))
      BY <2>2, FormatAt
    <3> QED
      BY <2>3, <3>1 DEF Formatted
  <2>5. Read(payload, At("symbol", 0, 8)) = Digits("symbol", 4)
    <3> DEFINE x == At("symbol", 0, 8)
    <3>1. /\ x.from = 0 /\ x.from \in Nat /\ x.digits = 2 * 4
          /\ x.from + x.digits <= Len(payload)
      BY <2>3, <2>4 DEF At
    <3> HIDE DEF x
    <3>2. PICK n \in Nat : n = 4
      OBVIOUS
    <3>3. /\ x.from \in Nat /\ x.digits = 2 * n /\ x.from + x.digits <= Len(payload)
          /\ \A k \in 1 .. 2 * n : payload[x.from + k] = <<"symbol", k>>
      BY <2>4, <3>1, <3>2
    <3>4. Read(payload, x) = Digits("symbol", n)
      BY <2>4, <3>3, ReadField
    <3> QED
      BY <3>2, <3>4 DEF x
  <2>6. OpCode(payload) = code
    <3> DEFINE x == At("prefix", 8, 4)
               digits == Read(payload, x)
    <3>1. /\ x.from = 8 /\ x.from \in Nat /\ x.digits = 4 /\ x.digits \in Nat
          /\ x.from + x.digits <= Len(payload)
      BY <2>3, <2>4 DEF At
    <3>2. OpCode(payload) = IF Len(digits) < 4 THEN "ERROR_CODE" ELSE CodeUnSerialize(digits[1][1])
      BY DEF OpCode
    <3> HIDE DEF x
    <3>3. /\ Len(digits) = 4
          /\ \A k \in 1 .. x.digits : digits[k] = payload[x.from + k]
      BY <2>4, <3>1, ReadAll
    <3> HIDE DEF digits
    <3>4. digits[1] = <<CodeSerialize[code], 1>>
      BY <2>4, <3>1, <3>3
    <3> QED
      BY <3>2, <3>3, <3>4, CodeIsRead
  <2>7. ~ Refused(payload)
    <3>1. MinDigits[code] \in Nat
      BY DEF Codes, MinDigits
    <3>2. Len(payload) = 12 + end
      BY <2>4
    <3>3. ~ (Len(payload) < MinDigits[code])
      BY <2>3, <3>1, <3>2
    <3> QED
      BY <2>5, <2>6, <3>3, Zenon DEF Refused
  <2>8. ASSUME NEW name \in DOMAIN fields, name # "exchange_fee_fixed"
        PROVE  fields[name] = Digits(name, Sizes(q)[name])
    <3> DEFINE x == CHOOSE y \in UnSerialize[code] : y.name = name
    <3>1. DOMAIN fields = {y.name : y \in UnSerialize[code]} /\ fields[name] = Read(payload, x)
      BY <2>6 DEF UnSerializeOperation
    <3>2. x \in UnSerialize[code] /\ x.name = name
      BY <2>8, <3>1
    <3> HIDE DEF x, fields
    <3>3. PICK i \in 1 .. CountOf[code] :
              /\ x.name = FieldsOf[code][i] /\ x.from = 12 + StartsOf[code][i]
              /\ x.digits = 2 * Sizes(q)[FieldsOf[code][i]]
      BY <2>2, <2>8, <3>2, FieldsAgree
    <3>4. PICK n \in Nat : n = Sizes(q)[name]
      BY <2>4, <3>2, <3>3
    <3>5. /\ x.from \in Nat /\ x.digits = 2 * n /\ x.from + x.digits <= Len(payload)
          /\ \A k \in 1 .. 2 * n : payload[x.from + k] = <<name, k>>
      BY <2>4, <3>2, <3>3, <3>4
    <3>6. Read(payload, x) = Digits(name, n)
      BY <2>4, <3>5, ReadField
    <3> QED
      BY <3>1, <3>4, <3>6
  <2> QED
    BY <2>1, <2>6, <2>7, <2>8 DEF q
<1> QED
  BY <1>1, CodecInit, CodecStep, PTL DEF Spec

=============================================================================
