----------------------------- MODULE WalletInfo -----------------------------
(***************************************************************************)
(* The wallet_info table (doc/smart_contract.sql) and the queries that the *)
(* handlers compute balances with.  The table is the sequence of its rows  *)
(* in id order: rows are only ever appended, a row is never updated and    *)
(* never deleted.                                                          *)
(*                                                                         *)
(* A balance is not stored.  It is read back from the rows of one key      *)
(* (contract, asset_id, address): the last T4 row holds the holdings after *)
(* the last settlement; before any settlement the A2 row holds the issued  *)
(* quantity; a T2 row newer than that would hold a frozen quantity.        *)
(***************************************************************************)
EXTENDS Integers, Sequences

CONSTANTS
    TwoTo64,    \* uint64_t quantities are numbers below TwoTo64
    IntMax      \* largest number std::stoi accepts

\* 4 * (2^31 - 1) < 2^64: the sum of two quantities std::stoi reads is one that a
\* column of the table holds.
ASSUME WidthAssumption == TwoTo64 \in Nat \ {0} /\ IntMax \in Nat /\ 4 * IntMax < TwoTo64

Qty == 0 .. (TwoTo64 - 1)

\* Operators whose name starts with Bad are faulty variants of the definition
\* that follows, kept to see that the properties tell them apart.

\* uint64_t addition and subtraction of two quantities: both wrap.
BadAdd64(a, b) == a + b
Add64(a, b) == IF a + b < TwoTo64 THEN a + b ELSE a + b - TwoTo64
Sub64(a, b) == IF b <= a THEN a - b ELSE a - b + TwoTo64

RowTypes == {"A2", "T2", "T4"}

Row(k, q, ty, id) ==
    [contract |-> k.contract, asset |-> k.asset, address |-> k.address,
     qty |-> q, type |-> ty, txid |-> id]

\* qty is a column of signed 64 bits.  An INSERT of 2^63 or more fails, and the
\* caller does not learn of it: the row is never there.
Stored(row) == IF 2 * row.qty < TwoTo64 THEN <<row>> ELSE << >>

\* SELECT ... WHERE address = .. AND asset_id = .. AND contract = .. AND type = ..
Select(w, k, ty) ==
    {i \in 1 .. Len(w) : /\ w[i].type = ty
                         /\ w[i].contract = k.contract
                         /\ w[i].asset = k.asset
                         /\ w[i].address = k.address}

Latest(S) == CHOOSE i \in S : \A j \in S : j <= i    \* ORDER BY id DESC LIMIT 1
First(S)  == CHOOSE i \in S : \A j \in S : i <= j    \* row 0 of a primary-key scan

-----------------------------------------------------------------------------
\* The row that the holdings of k are read from: the last T4 row, else the first
\* A2 row (the A2 query has no LIMIT and reads all of them); 0 when there is none.
BaseRow(w, k) ==
    LET T4 == Select(w, k, "T4")
        A2 == Select(w, k, "A2")
    IN  IF T4 # {} THEN Latest(T4) ELSE IF A2 # {} THEN First(A2) ELSE 0

\* The last T2 row that counts: newer than the T4 row, or any beside an A2 row.
BadFreezeRow(w, k) ==
    LET T2 == Select(w, k, "T2") IN IF T2 = {} THEN 0 ELSE Latest(T2)
FreezeRow(w, k) ==
    LET T4 == Select(w, k, "T4")
        T2 == {i \in Select(w, k, "T2") : T4 # {} => i > Latest(T4)}
    IN  IF T2 = {} \/ (T4 = {} /\ Select(w, k, "A2") = {}) THEN 0 ELSE Latest(T2)

QtyAt(w, i) == IF i = 0 THEN 0 ELSE w[i].qty

QueryBalance(w, k) ==
    LET frozen == QtyAt(w, FreezeRow(w, k))
    IN  [token |-> Sub64(QtyAt(w, BaseRow(w, k)), frozen), freeze |-> frozen]

QueryContract(w, k) ==
    LET balance == QueryBalance(w, k)
    IN  Add64(balance.token, balance.freeze)

\* GetDataAsJson converts a column of kind INT with std::stoi, which throws for
\* a quantity above INT_MAX; the A2 query converts every row it selects.
QueryThrows(w, k) ==
    \E i \in {BaseRow(w, k), FreezeRow(w, k)} \cup
             (IF Select(w, k, "T4") = {} THEN Select(w, k, "A2") ELSE {}) :
        QtyAt(w, i) > IntMax
=============================================================================
