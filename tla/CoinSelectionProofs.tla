------------------------ MODULE CoinSelectionProofs ------------------------
(***************************************************************************)
(* The sum of a function over a finite set, for every set and function:    *)
(* Worth of CoinSelection and the sums the ledger properties are stated    *)
(* with.  MapThenSumSet adds up in an order it chooses; what is shown here *)
(* is that the order does not matter.                                      *)
(***************************************************************************)
EXTENDS CoinSelection, FiniteSetTheorems, TLAPS

\* The element that is taken first from s.
Pick(s) == CHOOSE x \in s : TRUE

\* g gives each subset of T the sum of f over it, as MapThenSumSet computes it.
IsSum(g, f, T) ==
    g = [s \in SUBSET T |-> IF s = {} THEN 0 ELSE f[Pick(s)] + g[s \ {Pick(s)}]]

Numeric(f, T) == \A x \in T : f[x] \in Int

\* Of any collection of subsets of a finite set one is smallest.
LEMMA SmallestSubset ==
    ASSUME NEW T, IsFiniteSet(T), NEW C \in SUBSET SUBSET T, C # {}
    PROVE  \E m \in C : \A s \in C : s \subseteq m => s = m
<1> DEFINE R == StrictSubsetOrdering(T)
<1>1. IsWellFoundedOn(R, SUBSET T)
  BY FS_StrictSubsetOrderingWellFounded, FS_FiniteSubsetsOfFinite
<1> HIDE DEF R
<1>2. PICK m \in C : \A s \in C : ~ (<<s, m>> \in R)
  BY <1>1, WFMin
<1>3. ASSUME NEW s \in C, s \subseteq m PROVE s = m
  <2>1. <<s, m>> \in (SUBSET T) \X (SUBSET T)
    OBVIOUS
  <2> QED
    BY <1>2, <1>3, <2>1 DEF R, StrictSubsetOrdering
<1> QED
  BY <1>3

LEMMA PickIsIn == \A s : s # {} => Pick(s) \in s
BY DEF Pick

LEMMA SumStep ==
    ASSUME NEW g, NEW f, NEW T, IsSum(g, f, T), NEW s \in SUBSET T
    PROVE  g[s] = IF s = {} THEN 0 ELSE f[Pick(s)] + g[s \ {Pick(s)}]
BY DEF IsSum

\* Sums over two sets agree on what the sets have in common.
LEMMA SumsAgree ==
    ASSUME NEW T, IsFiniteSet(T), NEW U, NEW f, NEW e, NEW g, NEW h,
           IsSum(g, f, T), IsSum(h, e, U),
           NEW s \in SUBSET T, s \subseteq U, \A x \in s : f[x] = e[x]
    PROVE  g[s] = h[s]
<1> DEFINE C == {u \in SUBSET s : g[u] # h[u]}
<1>1. SUFFICES ASSUME C # {} PROVE FALSE
  OBVIOUS
<1>2. C \in SUBSET SUBSET T
  OBVIOUS
<1>3. PICK m \in C : \A u \in C : u \subseteq m => u = m
  <2> HIDE DEF C
  <2> QED
    BY <1>1, <1>2, SmallestSubset
<1>4. m \in SUBSET T /\ m \in SUBSET U /\ m \subseteq s
  OBVIOUS
<1>5. /\ g[m] = IF m = {} THEN 0 ELSE f[Pick(m)] + g[m \ {Pick(m)}]
      /\ h[m] = IF m = {} THEN 0 ELSE e[Pick(m)] + h[m \ {Pick(m)}]
  BY <1>4, SumStep
<1>6. m # {}
  BY <1>3, <1>5
<1>7. Pick(m) \in m
  BY <1>6, PickIsIn
<1>8. g[m \ {Pick(m)}] = h[m \ {Pick(m)}]
  BY <1>3, <1>7
<1> QED
  BY <1>3, <1>4, <1>5, <1>6, <1>7, <1>8

LEMMA SumType ==
    ASSUME NEW T, IsFiniteSet(T), NEW f, Numeric(f, T), NEW g, IsSum(g, f, T),
           NEW s \in SUBSET T
    PROVE  g[s] \in Int
<1> DEFINE C == {u \in SUBSET T : g[u] \notin Int}
<1>1. SUFFICES ASSUME C # {} PROVE FALSE
  OBVIOUS
<1>2. PICK m \in C : \A u \in C : u \subseteq m => u = m
  <2>1. C \in SUBSET SUBSET T
    OBVIOUS
  <2> HIDE DEF C
  <2> QED
    BY <1>1, <2>1, SmallestSubset
<1>3. g[m] = IF m = {} THEN 0 ELSE f[Pick(m)] + g[m \ {Pick(m)}]
  BY SumStep
<1>4. m # {}
  BY <1>2, <1>3
<1>5. Pick(m) \in m
  BY <1>4, PickIsIn
<1>6. g[m \ {Pick(m)}] \in Int /\ f[Pick(m)] \in Int
  BY <1>2, <1>5 DEF Numeric
<1> QED
  BY <1>2, <1>3, <1>4, <1>6

\* There is a sum over every finite set.
LEMMA SumExists ==
    ASSUME NEW T, IsFiniteSet(T), NEW f
    PROVE  \E g : IsSum(g, f, T)
<1> DEFINE C == {u \in SUBSET T : ~ \E g : IsSum(g, f, u)}
<1>1. SUFFICES ASSUME C # {} PROVE FALSE
  OBVIOUS
<1>2. PICK m \in C : \A u \in C : u \subseteq m => u = m
  <2>1. C \in SUBSET SUBSET T
    OBVIOUS
  <2> HIDE DEF C
  <2> QED
    BY <1>1, <2>1, SmallestSubset
<1> DEFINE sumOf(u) == CHOOSE g : IsSum(g, f, u)
           G == [s \in SUBSET m |-> IF s = {} THEN 0
                                    ELSE f[Pick(s)] + sumOf(s \ {Pick(s)})[s \ {Pick(s)}]]
<1>3. ASSUME NEW u \in SUBSET m, u # m PROVE IsSum(sumOf(u), f, u) /\ IsFiniteSet(u)
  <2>1. \E g : IsSum(g, f, u)
    BY <1>2, <1>3
  <2> QED
    BY <2>1, FS_Subset
<1>4. ASSUME NEW u \in SUBSET m, u # m PROVE G[u] = sumOf(u)[u]
  <2> DEFINE v == u \ {Pick(u)}
  <2>1. IsSum(sumOf(u), f, u)
    BY <1>3, <1>4
  <2>2. sumOf(u)[u] = IF u = {} THEN 0 ELSE f[Pick(u)] + sumOf(u)[v]
    <3> HIDE DEF sumOf
    <3> QED
      BY <2>1, SumStep
  <2>3. CASE u = {}
    BY <2>2, <2>3
  <2>4. CASE u # {}
    <3>1. v \in SUBSET u /\ v \in SUBSET m /\ v # m /\ IsFiniteSet(u)
      BY <1>3, <1>4, <2>4, PickIsIn
    <3>2. IsSum(sumOf(v), f, v) /\ IsFiniteSet(v)
      BY <1>3, <3>1
    <3> HIDE DEF sumOf, v
    <3>3. sumOf(v)[v] = sumOf(u)[v]
      BY <2>1, <3>1, <3>2, SumsAgree
    <3> QED
      BY <2>2, <2>4, <3>3 DEF v
  <2> QED
    BY <2>3, <2>4
<1>5. ASSUME NEW s \in SUBSET m
      PROVE  G[s] = IF s = {} THEN 0 ELSE f[Pick(s)] + G[s \ {Pick(s)}]
  <2>1. CASE s = {}
    BY <2>1
  <2>2. CASE s # {}
    <3>1. s \ {Pick(s)} \in SUBSET m /\ s \ {Pick(s)} # m
      BY <2>2, PickIsIn
    <3>2. G[s \ {Pick(s)}] = sumOf(s \ {Pick(s)})[s \ {Pick(s)}]
      BY <1>4, <3>1
    <3> QED
      BY <2>2, <3>2
  <2> QED
    BY <2>1, <2>2
<1>6. IsSum(G, f, m)
  <2>1. G = [s \in SUBSET m |-> G[s]]
    OBVIOUS
  <2> HIDE DEF G
  <2> QED
    BY <1>5, <2>1 DEF IsSum
<1> QED
  BY <1>2, <1>6

LEMMA WorthIsSum ==
    ASSUME NEW T, IsFiniteSet(T), NEW f
    PROVE  \E g : IsSum(g, f, T) /\ Worth(f, T) = g[T]
<1> DEFINE g == CHOOSE iter : IsSum(iter, f, T)
<1>1. IsSum(g, f, T)
  BY SumExists
<1>2. Worth(f, T) = g[T]
  BY DEF Worth, MapThenSumSet, MapThenFoldSet, IsSum, Pick
<1> QED
  BY <1>1, <1>2

-----------------------------------------------------------------------------
(* What a sum is *)

LEMMA WorthType ==
    ASSUME NEW T, IsFiniteSet(T), NEW f, Numeric(f, T)
    PROVE  Worth(f, T) \in Int
<1>1. PICK g : IsSum(g, f, T) /\ Worth(f, T) = g[T]
  BY WorthIsSum
<1> QED
  BY <1>1, SumType

LEMMA WorthOfNothing == ASSUME NEW f PROVE Worth(f, {}) = 0
<1>1. PICK g : IsSum(g, f, {}) /\ Worth(f, {}) = g[{}]
  BY WorthIsSum, FS_EmptySet
<1> QED
  BY <1>1, SumStep

\* Only the values of the elements matter.
LEMMA WorthAgrees ==
    ASSUME NEW T, IsFiniteSet(T), NEW f, NEW e, \A x \in T : f[x] = e[x]
    PROVE  Worth(f, T) = Worth(e, T)
<1>1. PICK g : IsSum(g, f, T) /\ Worth(f, T) = g[T]
  BY WorthIsSum
<1>2. PICK h : IsSum(h, e, T) /\ Worth(e, T) = h[T]
  BY WorthIsSum
<1> QED
  BY <1>1, <1>2, SumsAgree

LEMMA WorthPicked ==
    ASSUME NEW T, IsFiniteSet(T), NEW f, T # {}
    PROVE  Worth(f, T) = f[Pick(T)] + Worth(f, T \ {Pick(T)})
<1> DEFINE U == T \ {Pick(T)}
<1>1. IsFiniteSet(U)
  BY FS_RemoveElement
<1>2. PICK g : IsSum(g, f, T) /\ Worth(f, T) = g[T]
  BY WorthIsSum
<1>3. PICK h : IsSum(h, f, U) /\ Worth(f, U) = h[U]
  BY <1>1, WorthIsSum
<1>4. g[U] = h[U]
  BY <1>2, <1>3, SumsAgree
<1>5. g[T] = f[Pick(T)] + g[U]
  BY <1>2, SumStep
<1> QED
  BY <1>2, <1>3, <1>4, <1>5

\* Any element may be added last.
LEMMA WorthSplits ==
    ASSUME NEW T, IsFiniteSet(T), NEW f, Numeric(f, T), NEW x \in T
    PROVE  Worth(f, T) = f[x] + Worth(f, T \ {x})
<1> DEFINE C == {u \in SUBSET T : \E y \in u : Worth(f, u) # f[y] + Worth(f, u \ {y})}
<1>1. SUFFICES ASSUME C # {} PROVE FALSE
  OBVIOUS
<1>2. PICK m \in C : \A u \in C : u \subseteq m => u = m
  <2>1. C \in SUBSET SUBSET T
    OBVIOUS
  <2> HIDE DEF C
  <2> QED
    BY <1>1, <2>1, SmallestSubset
<1>3. PICK y \in m : Worth(f, m) # f[y] + Worth(f, m \ {y})
  BY <1>2
<1> DEFINE p == Pick(m)
<1>4. p \in m /\ p \in T /\ y \in T /\ m \in SUBSET T
  BY <1>3, PickIsIn
<1> HIDE DEF p
<1>5. IsFiniteSet(m) /\ IsFiniteSet(m \ {p}) /\ IsFiniteSet(m \ {y})
  BY <1>4, FS_Subset, FS_RemoveElement
<1>6. Worth(f, m) = f[p] + Worth(f, m \ {p})
  BY <1>3, <1>5, WorthPicked DEF p
<1>7. p # y
  BY <1>3, <1>6
<1>smaller. ASSUME NEW u \in SUBSET m, u # m, NEW z \in u
            PROVE  Worth(f, u) = f[z] + Worth(f, u \ {z})
  <2>1. u \notin C
    <3> HIDE DEF C
    <3> QED
      BY <1>2, <1>smaller
  <2> QED
    BY <1>4, <2>1
<1> HIDE DEF C
<1>8. Worth(f, m \ {p}) = f[y] + Worth(f, (m \ {p}) \ {y})
  <2>1. m \ {p} \in SUBSET m /\ m \ {p} # m /\ y \in m \ {p}
    BY <1>4, <1>7
  <2> QED
    BY <1>smaller, <2>1
<1>9. Worth(f, m \ {y}) = f[p] + Worth(f, (m \ {y}) \ {p})
  <2>1. m \ {y} \in SUBSET m /\ m \ {y} # m /\ p \in m \ {y}
    BY <1>4, <1>7
  <2> QED
    BY <1>smaller, <2>1
<1>10. (m \ {p}) \ {y} = (m \ {y}) \ {p}
  OBVIOUS
<1>11. f[p] \in Int /\ f[y] \in Int
  BY <1>4 DEF Numeric
<1>12. Worth(f, (m \ {y}) \ {p}) \in Int
  <2>1. IsFiniteSet((m \ {y}) \ {p}) /\ Numeric(f, (m \ {y}) \ {p})
    BY <1>4, <1>5, FS_RemoveElement DEF Numeric
  <2> QED
    BY <2>1, WorthType
<1>13. PICK rest \in Int : rest = Worth(f, (m \ {y}) \ {p})
  BY <1>12
<1>14. Worth(f, m) = f[p] + (f[y] + rest) /\ Worth(f, m \ {y}) = f[p] + rest
  BY <1>6, <1>8, <1>9, <1>10, <1>13
<1> QED
  BY <1>3, <1>11, <1>14

LEMMA WorthAdds ==
    ASSUME NEW T, IsFiniteSet(T), NEW f, NEW x, x \notin T, Numeric(f, T \cup {x})
    PROVE  Worth(f, T \cup {x}) = f[x] + Worth(f, T)
<1>1. IsFiniteSet(T \cup {x}) /\ (T \cup {x}) \ {x} = T
  BY FS_AddElement
<1> QED
  BY <1>1, WorthSplits

LEMMA WorthOfOne == ASSUME NEW x, NEW f, f[x] \in Int PROVE Worth(f, {x}) = f[x]
<1>1. {} \cup {x} = {x} /\ Numeric(f, {} \cup {x})
  BY DEF Numeric
<1>2. Worth(f, {} \cup {x}) = f[x] + Worth(f, {})
  BY <1>1, FS_EmptySet, WorthAdds
<1> QED
  BY <1>1, <1>2, WorthOfNothing

\* A sum stays among numbers that adding does not lead out of.
LEMMA WorthStays ==
    ASSUME NEW T, IsFiniteSet(T), NEW D, 0 \in D, \A x, y \in D : x + y \in D,
           NEW f, \A x \in T : f[x] \in D
    PROVE  Worth(f, T) \in D
<1> DEFINE C == {u \in SUBSET T : Worth(f, u) \notin D}
<1>1. SUFFICES ASSUME C # {} PROVE FALSE
  OBVIOUS
<1>2. PICK m \in C : \A u \in C : u \subseteq m => u = m
  <2>1. C \in SUBSET SUBSET T
    OBVIOUS
  <2> HIDE DEF C
  <2> QED
    BY <1>1, <2>1, SmallestSubset
<1>3. m # {} /\ IsFiniteSet(m)
  <2>1. Worth(f, m) \notin D /\ m \in SUBSET T
    BY <1>2
  <2> HIDE DEF C
  <2>2. Worth(f, {}) = 0
    BY WorthOfNothing
  <2>3. m # {}
    BY <2>1, <2>2
  <2> QED
    BY <2>1, <2>3, FS_Subset
<1>4. Worth(f, m) = f[Pick(m)] + Worth(f, m \ {Pick(m)}) /\ Pick(m) \in m
  BY <1>3, WorthPicked, PickIsIn
<1>5. Worth(f, m \ {Pick(m)}) \in D
  BY <1>2, <1>4
<1> QED
  BY <1>2, <1>4, <1>5

LEMMA WorthIsNat ==
    ASSUME NEW T, IsFiniteSet(T), NEW f, \A x \in T : f[x] \in Nat
    PROVE  Worth(f, T) \in Nat
<1>1. 0 \in Nat /\ \A x, y \in Nat : x + y \in Nat
  OBVIOUS
<1> QED
  BY <1>1, WorthStays

LEMMA WorthOfZeros ==
    ASSUME NEW T, IsFiniteSet(T), NEW f, \A x \in T : f[x] = 0
    PROVE  Worth(f, T) = 0
<1>1. 0 \in {0} /\ \A x, y \in {0} : x + y \in {0}
  OBVIOUS
<1>2. Worth(f, T) \in {0}
  BY <1>1, WorthStays
<1> QED
  BY <1>2

\* The sum over two sets apart.
LEMMA WorthOfBoth ==
    ASSUME NEW T, NEW U, IsFiniteSet(T), IsFiniteSet(U), T \cap U = {},
           NEW f, Numeric(f, T \cup U)
    PROVE  Worth(f, T \cup U) = Worth(f, T) + Worth(f, U)
<1> DEFINE C == {v \in SUBSET U : Worth(f, T \cup v) # Worth(f, T) + Worth(f, v)}
<1>1. SUFFICES ASSUME C # {} PROVE FALSE
  OBVIOUS
<1>2. PICK m \in C : \A v \in C : v \subseteq m => v = m
  <2>1. C \in SUBSET SUBSET U
    OBVIOUS
  <2> HIDE DEF C
  <2> QED
    BY <1>1, <2>1, SmallestSubset
<1>3. m \in SUBSET U /\ Worth(f, T \cup m) # Worth(f, T) + Worth(f, m)
  OBVIOUS
<1>4. ASSUME NEW v \in SUBSET U
      PROVE  /\ IsFiniteSet(v) /\ IsFiniteSet(T \cup v)
             /\ Numeric(f, v) /\ Numeric(f, T \cup v)
             /\ Worth(f, T) \in Int /\ Worth(f, v) \in Int
  <2>1. IsFiniteSet(v) /\ IsFiniteSet(T \cup v)
    BY FS_Subset, FS_Union
  <2>2. Numeric(f, v) /\ Numeric(f, T \cup v) /\ Numeric(f, T)
    BY DEF Numeric
  <2> QED
    BY <2>1, <2>2, WorthType
<1>5. m # {}
  <2>1. Worth(f, {}) = 0 /\ Worth(f, T) \in Int
    BY <1>4, WorthOfNothing
  <2>2. T \cup {} = T
    OBVIOUS
  <2>3. Worth(f, T \cup {}) = Worth(f, T) + Worth(f, {})
    BY <2>1, <2>2
  <2> HIDE DEF C
  <2> QED
    BY <1>3, <2>3
<1>6. PICK x \in m : TRUE
  BY <1>5
<1> DEFINE v == m \ {x}
<1>7. x \in T \cup m /\ x \notin T /\ (T \cup m) \ {x} = T \cup v /\ v \in SUBSET U
  BY <1>3, <1>6
<1>8. Worth(f, T \cup v) = Worth(f, T) + Worth(f, v)
  BY <1>2, <1>6, <1>7
<1> HIDE DEF C
<1>9. Worth(f, m) = f[x] + Worth(f, v)
  BY <1>3, <1>4, <1>6, WorthSplits
<1> HIDE DEF v
<1>10. Worth(f, T \cup m) = f[x] + Worth(f, T \cup v)
  <2> DEFINE u == T \cup m
  <2>1. IsFiniteSet(u) /\ Numeric(f, u) /\ x \in u
    BY <1>3, <1>4, <1>7
  <2>2. u \ {x} = T \cup v
    BY <1>7
  <2> HIDE DEF u
  <2>3. Worth(f, u) = f[x] + Worth(f, T \cup v)
    BY <2>1, <2>2, WorthSplits
  <2> QED
    BY <2>3 DEF u
<1>11. f[x] \in Int /\ Worth(f, T) \in Int /\ Worth(f, v) \in Int
  BY <1>3, <1>4, <1>6, <1>7 DEF Numeric
<1> QED
  BY <1>3, <1>8, <1>9, <1>10, <1>11

LEMMA WorthOfTwo ==
    ASSUME NEW x, NEW y, x # y, NEW f, Numeric(f, {x, y})
    PROVE  Worth(f, {x, y}) = f[x] + f[y]
<1>1. f[x] \in Int /\ f[y] \in Int /\ Numeric(f, {y} \cup {x})
  BY DEF Numeric
<1>2. Worth(f, {y} \cup {x}) = f[x] + Worth(f, {y})
  BY <1>1, FS_Singleton, WorthAdds
<1>3. Worth(f, {y}) = f[y]
  BY <1>1, WorthOfOne
<1>4. {y} \cup {x} = {x, y}
  OBVIOUS
<1> QED
  BY <1>2, <1>3, <1>4

LEMMA WorthOfThree ==
    ASSUME NEW x, NEW y, NEW z, x # y, x # z, y # z, NEW f, Numeric(f, {x, y, z})
    PROVE  Worth(f, {x, y, z}) = f[x] + f[y] + f[z]
<1>1. f[x] \in Int /\ f[y] \in Int /\ f[z] \in Int /\ Numeric(f, {y, z})
      /\ Numeric(f, {y, z} \cup {x})
  BY DEF Numeric
<1>2. IsFiniteSet({y, z})
  <2>1. IsFiniteSet({y} \cup {z})
    BY FS_Singleton, FS_Union
  <2> QED
    BY <2>1
<1>3. Worth(f, {y, z} \cup {x}) = f[x] + Worth(f, {y, z})
  BY <1>1, <1>2, WorthAdds
<1>4. Worth(f, {y, z}) = f[y] + f[z]
  BY <1>1, WorthOfTwo
<1>5. {y, z} \cup {x} = {x, y, z}
  OBVIOUS
<1>6. Worth(f, {x, y, z}) = f[x] + Worth(f, {y, z})
  BY <1>3, <1>5
<1> QED
  BY <1>1, <1>4, <1>6

-----------------------------------------------------------------------------
(* Funding a reply *)

\* Whatever coins CreateTransaction finds and takes: they are enough, and without
\* the last one they would not be more than enough (the loop over the coins).
THEOREM TakenIsEnough ==
    ASSUME NEW coins, IsFiniteSet(coins), NEW value, Numeric(value, coins), NEW pay \in Int,
           NEW cs \in Taken(coins, value, pay)
    PROVE  /\ Worth(value, cs) \in Int /\ Worth(value, cs) >= pay
           /\ \E coin \in cs : value[coin] >= Worth(value, cs) - pay
<1>1. cs \in SUBSET coins /\ IsFiniteSet(cs) /\ Numeric(value, cs)
  BY FS_Subset DEF Taken, Numeric
<1>2. Worth(value, cs) \in Int
  BY <1>1, WorthType
<1>3. Worth(value, cs) >= pay
  BY <1>2 DEF Taken
<1>4. PICK last \in cs : Worth(value, cs \ {last}) <= pay
  BY DEF Taken
<1>5. Worth(value, cs) = value[last] + Worth(value, cs \ {last})
  BY <1>1, WorthSplits
<1>6. value[last] \in Int /\ Worth(value, cs \ {last}) \in Int
  <2>1. IsFiniteSet(cs \ {last}) /\ Numeric(value, cs \ {last})
    BY <1>1, FS_RemoveElement DEF Numeric
  <2> QED
    BY <1>1, <2>1, WorthType DEF Numeric
<1>7. value[last] >= Worth(value, cs) - pay
  BY <1>4, <1>5, <1>6
<1> QED
  BY <1>2, <1>3, <1>7

\* Whether or not the issuer is the contract: the outputs of a reply are worth the
\* fee it sends back and the change (Handler::CreateTransaction).
THEOREM ReplyPaysAll ==
    ASSUME NEW contract, NEW issuer, NEW fee \in Int, NEW change \in Nat
    PROVE  LET paid == PaidWithChange(contract, issuer, fee, change)
           IN  Worth(paid, DOMAIN paid) = fee + change
<1> DEFINE paid == PaidWithChange(contract, issuer, fee, change)
<1>1. DOMAIN paid = {issuer} \cup (IF change > 0 THEN {contract} ELSE {})
  BY DEF PaidWithChange
<1>2. \A a \in DOMAIN paid : paid[a] = (IF a = issuer THEN fee ELSE 0)
                                       + (IF a = contract THEN change ELSE 0)
  BY DEF PaidWithChange
<1> HIDE DEF paid
<1>3. CASE change > 0 /\ contract # issuer
  <2>1. DOMAIN paid = {issuer, contract}
    BY <1>1, <1>3
  <2>2. paid[issuer] = fee + 0 /\ paid[contract] = 0 + change
    BY <1>2, <1>3, <2>1
  <2>3. Numeric(paid, {issuer, contract})
    BY <2>2 DEF Numeric
  <2>4. Worth(paid, {issuer, contract}) = paid[issuer] + paid[contract]
    BY <1>3, <2>3, WorthOfTwo
  <2>5. Worth(paid, DOMAIN paid) = fee + change
    BY <2>1, <2>2, <2>4
  <2> QED
    BY <2>5 DEF paid
<1>4. CASE ~ (change > 0 /\ contract # issuer)
  <2>1. DOMAIN paid = {issuer}
    BY <1>1, <1>4
  <2>2. paid[issuer] = fee + change /\ paid[issuer] \in Int
    BY <1>2, <1>4, <2>1
  <2>3. Worth(paid, {issuer}) = paid[issuer]
    BY <2>2, WorthOfOne
  <2>4. Worth(paid, DOMAIN paid) = fee + change
    BY <2>1, <2>2, <2>3
  <2> QED
    BY <2>4 DEF paid
<1> QED
  BY <1>3, <1>4
=============================================================================
