-------------------------- MODULE WalletInfoProofs --------------------------
(***************************************************************************)
(* What the wallet_info queries return, for every table and every width of *)
(* the quantities.                                                         *)
(***************************************************************************)
EXTENDS WalletInfo, WellFoundedInduction, TLAPS

\* Rows that hold names (addresses, assets, transaction ids) of any kind.
AnyRow(Names) ==
    [contract : Names, asset : Names, address : Names, qty : Qty,
     type : RowTypes, txid : Names]

-----------------------------------------------------------------------------
\* The row set a query selects has a first and a last element.
LEMMA FirstInSet ==
    ASSUME NEW S \in SUBSET Nat, S # {}
    PROVE  First(S) \in S /\ \A j \in S : First(S) <= j
<1> DEFINE R == {p \in Nat \X Nat : p[1] < p[2]}
<1>1. IsWellFoundedOn(R, Nat)
  BY NatLessThanWellFounded DEF OpToRel
<1> HIDE DEF R
<1>2. PICK m \in S : \A j \in S : ~ (<<j, m>> \in R)
  BY <1>1, WFMin
<1>3. \A j \in S : m <= j
  <2> TAKE j \in S
  <2>1. j \in Nat /\ m \in Nat /\ <<j, m>> \notin R
    BY <1>2
  <2> QED
    BY <2>1 DEF R
<1> QED
  BY <1>3 DEF First

LEMMA LatestInSet ==
    ASSUME NEW n \in Nat, NEW S \in SUBSET (1 .. n), S # {}
    PROVE  Latest(S) \in S /\ \A j \in S : j <= Latest(S)
<1> DEFINE T == {n - i : i \in S}
<1>1. T \in SUBSET Nat /\ T # {}
  <2>1. \A i \in S : i \in 1 .. n
    OBVIOUS
  <2>2. \A i \in S : n - i \in Nat
    BY <2>1
  <2> QED
    BY <2>2
<1>2. PICK m \in T : \A j \in T : m <= j
  BY <1>1, FirstInSet
<1>3. PICK i \in S : m = n - i
  BY <1>2
<1>4. \A j \in S : j <= i
  <2> TAKE j \in S
  <2>1. m <= n - j
    BY <1>2
  <2> QED
    BY <2>1, <1>3
<1> QED
  BY <1>4 DEF Latest

-----------------------------------------------------------------------------
\* Quantities stay within uint64_t, and subtracting and adding back cancel out.
LEMMA Add64Type == \A a, b \in Qty : Add64(a, b) \in Qty
BY WidthAssumption DEF Add64, Qty

LEMMA Sub64Type == \A a, b \in Qty : Sub64(a, b) \in Qty
BY WidthAssumption DEF Sub64, Qty

LEMMA AddUndoesSub == \A a, b \in Qty : Add64(Sub64(a, b), b) = a
BY WidthAssumption DEF Add64, Sub64, Qty

LEMMA RowsSelected ==
    ASSUME NEW Names, NEW w \in Seq(AnyRow(Names)), NEW k, NEW ty
    PROVE  Select(w, k, ty) \in SUBSET (1 .. Len(w))
BY DEF Select

LEMMA BaseRowType ==
    ASSUME NEW Names, NEW w \in Seq(AnyRow(Names)), NEW k
    PROVE  BaseRow(w, k) \in 0 .. Len(w)
<1> Len(w) \in Nat
  OBVIOUS
<1>1. Select(w, k, "T4") # {} => Latest(Select(w, k, "T4")) \in 1 .. Len(w)
  BY RowsSelected, LatestInSet
<1>2. Select(w, k, "A2") # {} => First(Select(w, k, "A2")) \in 1 .. Len(w)
  <2> SUFFICES ASSUME Select(w, k, "A2") # {}
               PROVE  First(Select(w, k, "A2")) \in 1 .. Len(w)
    OBVIOUS
  <2>1. Select(w, k, "A2") \in SUBSET Nat
    BY RowsSelected
  <2> QED
    BY <2>1, RowsSelected, FirstInSet
<1> QED
  BY <1>1, <1>2 DEF BaseRow

LEMMA FreezeRowType ==
    ASSUME NEW Names, NEW w \in Seq(AnyRow(Names)), NEW k
    PROVE  FreezeRow(w, k) \in 0 .. Len(w)
<1> Len(w) \in Nat
  OBVIOUS
<1> DEFINE T4 == Select(w, k, "T4")
           T2 == {i \in Select(w, k, "T2") : T4 # {} => i > Latest(T4)}
<1>1. T2 \in SUBSET (1 .. Len(w))
  BY RowsSelected
<1>2. T2 # {} => Latest(T2) \in 1 .. Len(w)
  BY <1>1, LatestInSet
<1> QED
  BY <1>2 DEF FreezeRow

LEMMA QtyAtType ==
    ASSUME NEW Names, NEW w \in Seq(AnyRow(Names)), NEW i \in 0 .. Len(w)
    PROVE  QtyAt(w, i) \in Qty
<1>1. CASE i = 0
  BY <1>1, WidthAssumption DEF QtyAt, Qty
<1>2. CASE i # 0
  <2>1. i \in 1 .. Len(w)
    BY <1>2
  <2>2. w[i] \in AnyRow(Names)
    BY <2>1
  <2> QED
    BY <1>2, <2>2 DEF QtyAt, AnyRow
<1> QED
  BY <1>1, <1>2

-----------------------------------------------------------------------------
\* QueryContract, the number every settlement starts from, is the quantity of the
\* last T4 row, else of the first A2 row, else 0: what T2 rows freeze is taken
\* from the available tokens and added again, even when it exceeds them and the
\* difference wraps.
THEOREM QueryContractIsBase ==
    ASSUME NEW Names, NEW w \in Seq(AnyRow(Names)), NEW k
    PROVE  QueryContract(w, k) = QtyAt(w, BaseRow(w, k))
<1>1. QtyAt(w, BaseRow(w, k)) \in Qty
  BY BaseRowType, QtyAtType
<1>2. QtyAt(w, FreezeRow(w, k)) \in Qty
  BY FreezeRowType, QtyAtType
<1> QED
  BY <1>1, <1>2, AddUndoesSub DEF QueryContract, QueryBalance

\* It is a uint64_t.
THEOREM QueryContractType ==
    ASSUME NEW Names, NEW w \in Seq(AnyRow(Names)), NEW k
    PROVE  QueryContract(w, k) \in Qty
BY QueryContractIsBase, BaseRowType, QtyAtType

\* Appending a T4 row sets the holdings of its account to the quantity of the row.
THEOREM SettlementRowCounts ==
    ASSUME NEW Names, NEW w \in Seq(AnyRow(Names)), NEW row \in AnyRow(Names), row.type = "T4"
    PROVE  QueryContract(Append(w, row),
                         [contract |-> row.contract, asset |-> row.asset,
                          address |-> row.address]) = row.qty
<1> DEFINE v == Append(w, row)
           k == [contract |-> row.contract, asset |-> row.asset,
                 address |-> row.address]
           T4 == Select(v, k, "T4")
<1>1. v \in Seq(AnyRow(Names)) /\ Len(v) = Len(w) + 1 /\ Len(w) \in Nat /\ v[Len(v)] = row
  OBVIOUS
<1>2. Len(v) \in T4
  BY <1>1 DEF Select
<1>3. T4 \in SUBSET (1 .. Len(v))
  BY <1>1, RowsSelected
<1>4. Latest(T4) = Len(v)
  <2>1. Len(v) \in Nat /\ T4 # {}
    BY <1>1, <1>2
  <2> HIDE DEF T4
  <2>2. Latest(T4) \in T4 /\ \A j \in T4 : j <= Latest(T4)
    BY <1>3, <2>1, LatestInSet
  <2>3. Latest(T4) \in 1 .. Len(v)
    BY <1>3, <2>2
  <2>4. Len(v) <= Latest(T4)
    BY <1>2, <2>2
  <2> QED
    BY <2>1, <2>3, <2>4
<1>5. BaseRow(v, k) = Len(v)
  BY <1>2, <1>4 DEF BaseRow
<1>6. QueryContract(v, k) = QtyAt(v, Len(v))
  BY <1>1, <1>5, QueryContractIsBase
<1>7. QtyAt(v, Len(v)) = row.qty
  BY <1>1 DEF QtyAt
<1> QED
  BY <1>6, <1>7

\* Appending a row changes the holdings of no other account.
THEOREM OtherAccountsKeep ==
    ASSUME NEW Names, NEW w \in Seq(AnyRow(Names)), NEW row \in AnyRow(Names), NEW k,
           k.contract # row.contract \/ k.asset # row.asset \/ k.address # row.address
    PROVE  QueryContract(Append(w, row), k) = QueryContract(w, k)
<1> DEFINE v == Append(w, row)
<1>1. v \in Seq(AnyRow(Names)) /\ Len(v) = Len(w) + 1 /\ Len(w) \in Nat /\ v[Len(v)] = row
  OBVIOUS
<1>2. \A i \in 1 .. Len(w) : v[i] = w[i]
  OBVIOUS
<1>3. ASSUME NEW ty PROVE Select(v, k, ty) = Select(w, k, ty)
  <2>1. Len(v) \notin Select(v, k, ty)
    BY <1>1 DEF Select
  <2>2. \A i \in 1 .. Len(v) : i \in Select(v, k, ty) => i \in 1 .. Len(w)
    BY <1>1, <2>1
  <2> QED
    BY <1>1, <1>2, <2>1, <2>2 DEF Select
<1>4. BaseRow(v, k) = BaseRow(w, k)
  BY <1>3 DEF BaseRow
<1>5. BaseRow(w, k) \in 0 .. Len(w)
  BY BaseRowType
<1>6. QtyAt(v, BaseRow(w, k)) = QtyAt(w, BaseRow(w, k))
  BY <1>1, <1>2, <1>5 DEF QtyAt
<1> QED
  BY <1>1, <1>4, <1>6, QueryContractIsBase

\* After an A2 row the holdings are read from where they were read before, or from
\* this row when there was nothing to read.
LEMMA IssueBaseRow ==
    ASSUME NEW Names, NEW w \in Seq(AnyRow(Names)), NEW row \in AnyRow(Names), row.type = "A2",
           NEW k, k.contract = row.contract, k.asset = row.asset, k.address = row.address
    PROVE  BaseRow(Append(w, row), k) = IF BaseRow(w, k) = 0 THEN Len(w) + 1 ELSE BaseRow(w, k)
<1> DEFINE v == Append(w, row)
           n == Len(w)
           T4 == Select(w, k, "T4")
           A2 == Select(w, k, "A2")
<1>1. v \in Seq(AnyRow(Names)) /\ Len(v) = n + 1 /\ n \in Nat /\ v[n + 1] = row
      /\ \A i \in 1 .. n : v[i] = w[i]
  OBVIOUS
<1>2. T4 \in SUBSET (1 .. n) /\ A2 \in SUBSET (1 .. n)
  BY RowsSelected
<1>3. Select(v, k, "T4") = T4
  BY <1>1 DEF Select
<1>4. Select(v, k, "A2") = A2 \cup {n + 1}
  BY <1>1 DEF Select
<1>5. BaseRow(w, k) # 0 => BaseRow(v, k) = BaseRow(w, k)
  <2> HIDE DEF v, n, T4, A2
  <2>1. CASE T4 # {}
    BY <1>3, <2>1 DEF BaseRow, T4
  <2>2. CASE T4 = {} /\ A2 # {}
    <3>1. First(A2) \in A2 /\ \A j \in A2 : First(A2) <= j
      BY <1>1, <1>2, <2>2, FirstInSet
    <3>2. First(A2 \cup {n + 1}) \in A2 \cup {n + 1}
          /\ \A j \in A2 \cup {n + 1} : First(A2 \cup {n + 1}) <= j
      <4>1. A2 \cup {n + 1} \in SUBSET Nat /\ A2 \cup {n + 1} # {}
        BY <1>1, <1>2
      <4> QED
        BY <4>1, FirstInSet
    <3>3. First(A2 \cup {n + 1}) = First(A2)
      <4> DEFINE f == First(A2)
                 g == First(A2 \cup {n + 1})
      <4>1. f \in 1 .. n /\ f \in A2 \cup {n + 1}
        BY <1>2, <3>1
      <4> HIDE DEF f, g
      <4>2. g <= f /\ (g \in A2 \/ g = n + 1)
        BY <3>2, <4>1 DEF g
      <4>3. g \in A2
        BY <1>1, <4>1, <4>2
      <4>4. g \in 1 .. n /\ f <= g
        BY <1>2, <3>1, <4>3 DEF f
      <4> QED
        BY <1>1, <4>1, <4>2, <4>4 DEF f, g
    <3> QED
      BY <1>3, <1>4, <2>2, <3>3 DEF BaseRow, T4, A2
  <2> QED
    BY <2>1, <2>2 DEF BaseRow, T4, A2
<1>6. BaseRow(w, k) = 0 => BaseRow(v, k) = n + 1
  <2> SUFFICES ASSUME BaseRow(w, k) = 0 PROVE BaseRow(v, k) = n + 1
    OBVIOUS
  <2> HIDE DEF v, n, T4, A2
  <2>1. T4 = {}
    <3>1. T4 # {} => Latest(T4) \in 1 .. n
      BY <1>1, <1>2, LatestInSet
    <3>2. T4 # {} => BaseRow(w, k) = Latest(T4)
      BY DEF BaseRow, T4
    <3> QED
      BY <1>1, <3>1, <3>2
  <2>2. A2 = {}
    <3>1. A2 # {} => First(A2) \in 1 .. n
      <4>1. A2 \in SUBSET Nat
        BY <1>1, <1>2
      <4> QED
        BY <1>2, <4>1, FirstInSet
    <3>2. A2 # {} => BaseRow(w, k) = First(A2)
      BY <2>1 DEF BaseRow, T4, A2
    <3> QED
      BY <1>1, <3>1, <3>2
  <2>3. First({n + 1}) = n + 1
    <3>1. {n + 1} \in SUBSET Nat /\ {n + 1} # {}
      BY <1>1
    <3> QED
      BY <3>1, FirstInSet
  <2>4. Select(v, k, "A2") = {n + 1}
    BY <1>4, <2>2
  <2> QED
    BY <1>3, <2>1, <2>3, <2>4 DEF BaseRow
<1> QED
  BY <1>5, <1>6

\* Appending an A2 row is an issuance only where nothing was held: an account that
\* has an A2 or a T4 row keeps its holdings.
THEOREM IssueRowCounts ==
    ASSUME NEW Names, NEW w \in Seq(AnyRow(Names)), NEW row \in AnyRow(Names), row.type = "A2",
           NEW k, k = [contract |-> row.contract, asset |-> row.asset, address |-> row.address]
    PROVE  QueryContract(Append(w, row), k)
             = IF BaseRow(w, k) = 0 THEN row.qty ELSE QueryContract(w, k)
<1> DEFINE v == Append(w, row)
           n == Len(w)
<1>1. v \in Seq(AnyRow(Names)) /\ Len(v) = n + 1 /\ n \in Nat /\ v[n + 1] = row
      /\ \A i \in 1 .. n : v[i] = w[i]
  OBVIOUS
<1>2. QueryContract(v, k) = QtyAt(v, BaseRow(v, k)) /\ QueryContract(w, k) = QtyAt(w, BaseRow(w, k))
  BY <1>1, QueryContractIsBase
<1>3. BaseRow(w, k) \in 0 .. n
  BY BaseRowType
<1>4. BaseRow(v, k) = IF BaseRow(w, k) = 0 THEN n + 1 ELSE BaseRow(w, k)
  BY IssueBaseRow
<1> QED
  BY <1>1, <1>2, <1>3, <1>4 DEF QtyAt

\* No query looks at the transaction a row names.
LEMMA TxidsDoNotCount ==
    ASSUME NEW Names, NEW w \in Seq(AnyRow(Names)), NEW v \in Seq(AnyRow(Names)), NEW k,
           Len(v) = Len(w),
           \A i \in 1 .. Len(w) : /\ v[i].contract = w[i].contract /\ v[i].asset = w[i].asset
                                  /\ v[i].address = w[i].address /\ v[i].type = w[i].type
                                  /\ v[i].qty = w[i].qty
    PROVE  QueryContract(v, k) = QueryContract(w, k)
<1>1. \A ty : Select(v, k, ty) = Select(w, k, ty)
  BY DEF Select
<1>2. BaseRow(v, k) = BaseRow(w, k)
  BY <1>1 DEF BaseRow
<1>3. BaseRow(w, k) \in 0 .. Len(w)
  BY BaseRowType
<1>4. QtyAt(v, BaseRow(w, k)) = QtyAt(w, BaseRow(w, k))
  BY <1>3 DEF QtyAt
<1> QED
  BY <1>2, <1>4, QueryContractIsBase

-----------------------------------------------------------------------------
(* What std::stoi reads *)

\* After a T4 row an account can be read just when the quantity of the row can.
LEMMA SettlementRowReads ==
    ASSUME NEW Names, NEW w \in Seq(AnyRow(Names)), NEW row \in AnyRow(Names), row.type = "T4",
           NEW k, k.contract = row.contract, k.asset = row.asset, k.address = row.address
    PROVE  QueryThrows(Append(w, row), k) <=> row.qty > IntMax
<1> DEFINE v == Append(w, row)
           T4 == Select(v, k, "T4")
           T2 == {i \in Select(v, k, "T2") : T4 # {} => i > Latest(T4)}
<1>1. v \in Seq(AnyRow(Names)) /\ Len(v) = Len(w) + 1 /\ Len(w) \in Nat /\ v[Len(v)] = row
  OBVIOUS
<1>2. Len(v) \in T4
  BY <1>1 DEF Select
<1>3. T4 \in SUBSET (1 .. Len(v)) /\ Select(v, k, "T2") \in SUBSET (1 .. Len(v))
  BY <1>1, RowsSelected
<1>4. Latest(T4) = Len(v)
  <2>1. Len(v) \in Nat /\ T4 # {}
    BY <1>1, <1>2
  <2> HIDE DEF T4
  <2>2. Latest(T4) \in T4 /\ \A j \in T4 : j <= Latest(T4)
    BY <1>3, <2>1, LatestInSet
  <2>3. Latest(T4) \in 1 .. Len(v)
    BY <1>3, <2>2
  <2>4. Len(v) <= Latest(T4)
    BY <1>2, <2>2
  <2> QED
    BY <2>1, <2>3, <2>4
<1>5. BaseRow(v, k) = Len(v)
  BY <1>2, <1>4 DEF BaseRow
<1>6. FreezeRow(v, k) = 0
  <2>1. T2 = {}
    <3>1. \A i \in Select(v, k, "T2") : ~ (i > Latest(T4))
      <4> TAKE i \in Select(v, k, "T2")
      <4>1. i \in 1 .. Len(v)
        BY <1>3
      <4> QED
        BY <1>1, <1>4, <4>1
    <3> QED
      BY <1>2, <3>1
  <2> QED
    BY <2>1 DEF FreezeRow
<1>7. QueryThrows(v, k) <=> QtyAt(v, Len(v)) > IntMax \/ QtyAt(v, 0) > IntMax
  BY <1>2, <1>5, <1>6 DEF QueryThrows
<1>8. QtyAt(v, Len(v)) = row.qty /\ QtyAt(v, 0) = 0
  BY <1>1 DEF QtyAt
<1> QED
  BY <1>7, <1>8, WidthAssumption

\* Appending a row makes no other account readable or unreadable.
LEMMA OtherAccountsRead ==
    ASSUME NEW Names, NEW w \in Seq(AnyRow(Names)), NEW row \in AnyRow(Names), NEW k,
           k.contract # row.contract \/ k.asset # row.asset \/ k.address # row.address
    PROVE  QueryThrows(Append(w, row), k) <=> QueryThrows(w, k)
<1> DEFINE v == Append(w, row)
<1>1. v \in Seq(AnyRow(Names)) /\ Len(v) = Len(w) + 1 /\ Len(w) \in Nat /\ v[Len(v)] = row
      /\ \A i \in 1 .. Len(w) : v[i] = w[i]
  OBVIOUS
<1>2. ASSUME NEW ty PROVE Select(v, k, ty) = Select(w, k, ty)
  <2>1. Len(v) \notin Select(v, k, ty)
    BY <1>1 DEF Select
  <2>2. \A i \in 1 .. Len(v) : i \in Select(v, k, ty) => i \in 1 .. Len(w)
    BY <1>1, <2>1
  <2> QED
    BY <1>1, <2>1, <2>2 DEF Select
<1>3. BaseRow(v, k) = BaseRow(w, k) /\ FreezeRow(v, k) = FreezeRow(w, k)
  BY <1>2 DEF BaseRow, FreezeRow
<1>4. \A i \in 0 .. Len(w) : QtyAt(v, i) = QtyAt(w, i)
  BY <1>1 DEF QtyAt
<1>5. /\ BaseRow(w, k) \in 0 .. Len(w) /\ FreezeRow(w, k) \in 0 .. Len(w)
      /\ \A i \in Select(w, k, "A2") : i \in 0 .. Len(w)
  BY BaseRowType, FreezeRowType, RowsSelected
<1> QED
  BY <1>2, <1>3, <1>4, <1>5 DEF QueryThrows

\* An A2 row does not make an account readable again.
LEMMA IssueRowStaysUnread ==
    ASSUME NEW Names, NEW w \in Seq(AnyRow(Names)), NEW row \in AnyRow(Names), row.type = "A2",
           NEW k, QueryThrows(w, k)
    PROVE  QueryThrows(Append(w, row), k)
<1> DEFINE v == Append(w, row)
           n == Len(w)
<1>1. v \in Seq(AnyRow(Names)) /\ Len(v) = n + 1 /\ n \in Nat /\ v[n + 1] = row
      /\ \A i \in 1 .. n : v[i] = w[i]
  OBVIOUS
<1>2. Select(v, k, "T4") = Select(w, k, "T4") /\ Select(v, k, "T2") = Select(w, k, "T2")
      /\ Select(w, k, "A2") \subseteq Select(v, k, "A2")
  BY <1>1 DEF Select
<1>3. \A i \in 0 .. n : QtyAt(v, i) = QtyAt(w, i)
  BY <1>1 DEF QtyAt
<1>4. /\ BaseRow(w, k) \in 0 .. n /\ FreezeRow(w, k) \in 0 .. n
      /\ Select(w, k, "A2") \in SUBSET (1 .. n) /\ Select(w, k, "T4") \in SUBSET (1 .. n)
  BY BaseRowType, FreezeRowType, RowsSelected
<1>5. QtyAt(w, 0) = 0
  BY DEF QtyAt
<1> HIDE DEF v, n
<1>6. CASE Select(w, k, "T4") # {}
  <2>1. BaseRow(v, k) = BaseRow(w, k) /\ FreezeRow(v, k) = FreezeRow(w, k)
    BY <1>2, <1>6 DEF BaseRow, FreezeRow
  <2> QED
    BY <1>2, <1>3, <1>4, <1>6, <2>1 DEF QueryThrows, v
<1>7. CASE Select(w, k, "T4") = {} /\ Select(w, k, "A2") # {}
  <2>1. FreezeRow(v, k) = FreezeRow(w, k)
    BY <1>2, <1>7 DEF FreezeRow
  <2>2. BaseRow(w, k) \in Select(w, k, "A2")
    <3>1. Select(w, k, "A2") \in SUBSET Nat
      BY <1>1, <1>4
    <3> QED
      BY <1>7, <3>1, FirstInSet DEF BaseRow
  <2> QED
    BY <1>2, <1>3, <1>4, <1>7, <2>1, <2>2 DEF QueryThrows, v
<1>8. CASE Select(w, k, "T4") = {} /\ Select(w, k, "A2") = {}
  <2>1. BaseRow(w, k) = 0 /\ FreezeRow(w, k) = 0
    BY <1>8 DEF BaseRow, FreezeRow
  <2> QED
    BY <1>5, <1>8, <2>1, WidthAssumption DEF QueryThrows
<1> QED
  BY <1>6, <1>7, <1>8
=============================================================================
