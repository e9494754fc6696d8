------------------------ MODULE MoneyTheorems ------------------------
(* Facts about Total, for every finite index set: how a total moves when *)
(* one summand does, that first-in-first-out shares fit what they are    *)
(* shares of, and that a sum taken by recursion is a total.  The         *)
(* conservation proofs rest on them.                                     *)
EXTENDS Money, Integers, FiniteSetTheorems, FunctionTheorems, WellFoundedInduction, TLAPS

\* The units of one summand are finite and as many as its value.
LEMMA BlockCount ==
  ASSUME NEW f, NEW x, f[x] \in Nat
  PROVE  /\ IsFiniteSet({x} \X (1..f[x]))
         /\ Cardinality({x} \X (1..f[x])) = f[x]
<1>1. IsFiniteSet({x}) /\ Cardinality({x}) = 1
  BY FS_Singleton
<1>2. IsFiniteSet(1..f[x]) /\ Cardinality(1..f[x]) = f[x]
  <2>1. 1 \in Int /\ f[x] \in Int
    OBVIOUS
  <2>2. IsFiniteSet(1..f[x]) /\ Cardinality(1..f[x]) = IF 1 > f[x] THEN 0 ELSE f[x] - 1 + 1
    BY <2>1, FS_Interval
  <2> QED
    BY <2>2
<1>3. IsFiniteSet({x} \X (1..f[x])) /\ Cardinality({x} \X (1..f[x])) = 1 * f[x]
  BY <1>1, <1>2, FS_Product
<1> QED
  BY <1>3

\* A total over a finite set counts a finite set of units.
LEMMA UnitsFinite ==
  ASSUME NEW S, IsFiniteSet(S), NEW f, \A x \in S : f[x] \in Nat
  PROVE  IsFiniteSet(Units(f, S))
<1> DEFINE blocks == {{x} \X (1..f[x]) : x \in S}
           block == [x \in S |-> {x} \X (1..f[x])]
<1>1. block \in Surjection(S, blocks)
  BY DEF Surjection
<1>2. IsFiniteSet(blocks)
  BY <1>1, FS_Surjection
<1>3. \A T \in blocks : IsFiniteSet(T)
  BY BlockCount
<1>4. IsFiniteSet(UNION blocks)
  BY <1>2, <1>3, FS_UNION
<1> QED
  BY <1>4 DEF Units

THEOREM TotalNat ==
  ASSUME NEW S, IsFiniteSet(S), NEW f, \A x \in S : f[x] \in Nat
  PROVE  Total(f, S) \in Nat
BY UnitsFinite, FS_CardinalityType DEF Total

\* A total depends on the summands alone.
THEOREM TotalSame ==
  ASSUME NEW S, NEW f, NEW g, \A x \in S : f[x] = g[x]
  PROVE  Total(f, S) = Total(g, S)
<1>1. {{x} \X (1..f[x]) : x \in S} = {{x} \X (1..g[x]) : x \in S}
  OBVIOUS
<1> QED
  BY <1>1 DEF Total, Units

\* A total is one summand and the total of the rest.
THEOREM TotalSplit ==
  ASSUME NEW S, IsFiniteSet(S), NEW f, \A x \in S : f[x] \in Nat, NEW y \in S
  PROVE  Total(f, S) = f[y] + Total(f, S \ {y})
<1> DEFINE rest == Units(f, S \ {y})
           own == {y} \X (1..f[y])
<1>1. IsFiniteSet(S \ {y})
  BY FS_RemoveElement
<1>2. IsFiniteSet(rest)
  BY <1>1, UnitsFinite
<1>3. IsFiniteSet(own) /\ Cardinality(own) = f[y]
  BY BlockCount
<1>4. own \cap rest = {}
  BY DEF Units
<1>5. Units(f, S) = own \cup rest
  BY DEF Units
<1>6. Cardinality(own \cup rest) = Cardinality(own) + Cardinality(rest) - Cardinality(own \cap rest)
  BY <1>2, <1>3, FS_Union
<1>7. Cardinality(own \cap rest) = 0
  BY <1>4, FS_EmptySet
<1>8. Cardinality(rest) \in Nat
  BY <1>2, FS_CardinalityType
<1>9. Cardinality(own \cup rest) = f[y] + Cardinality(rest)
  BY <1>3, <1>6, <1>7, <1>8
<1> QED
  BY <1>5, <1>9 DEF Total

\* Changing one summand moves the total by as much.
THEOREM TotalMoves ==
  ASSUME NEW S, IsFiniteSet(S), NEW y \in S,
         NEW f, \A x \in S : f[x] \in Nat,
         NEW g, \A x \in S : g[x] \in Nat,
         \A x \in S \ {y} : f[x] = g[x]
  PROVE  Total(g, S) + f[y] = Total(f, S) + g[y]
<1>1. Total(f, S) = f[y] + Total(f, S \ {y})
  BY TotalSplit
<1>2. Total(g, S) = g[y] + Total(g, S \ {y})
  BY TotalSplit
<1>3. Total(f, S \ {y}) = Total(g, S \ {y})
  BY TotalSame
<1>4. Total(f, S \ {y}) \in Nat
  <2>1. IsFiniteSet(S \ {y})
    BY FS_RemoveElement
  <2> QED
    BY <2>1, TotalNat
<1> QED
  BY <1>1, <1>2, <1>3, <1>4

\* No summand exceeds the total.
THEOREM TotalBounds ==
  ASSUME NEW S, IsFiniteSet(S), NEW f, \A x \in S : f[x] \in Nat, NEW y \in S
  PROVE  f[y] <= Total(f, S)
<1>1. Total(f, S) = f[y] + Total(f, S \ {y})
  BY TotalSplit
<1>2. IsFiniteSet(S \ {y})
  BY FS_RemoveElement
<1>3. Total(f, S \ {y}) \in Nat
  BY <1>2, TotalNat
<1> QED
  BY <1>1, <1>3

\* A total is 0 when every summand is.
THEOREM TotalZero ==
  ASSUME NEW S, NEW f, \A x \in S : f[x] = 0
  PROVE  Total(f, S) = 0
<1>1. Units(f, S) = {}
  BY DEF Units
<1> QED
  BY <1>1, FS_EmptySet DEF Total

\* The share FIFO gives an account is an amount, and no more than it owes.
LEMMA FifoTyped ==
  ASSUME NEW S, IsFiniteSet(S), NEW owed, DOMAIN owed = S, \A i \in S : owed[i] \in Nat,
         NEW n \in Nat, NEW open \in SUBSET S, NEW rank
  PROVE  /\ FifoShares(n, owed, open, rank) \in [S -> Nat]
         /\ \A i \in S : FifoShares(n, owed, open, rank)[i] <= owed[i]
<1> DEFINE older(i) == {j \in open : rank[j] < rank[i]}
           share(i) == IF i \in open THEN Least(owed[i], Excess(n, Total(owed, older(i)))) ELSE 0
<1>1. ASSUME NEW i \in S PROVE share(i) \in Nat /\ share(i) <= owed[i]
  <2>1. IsFiniteSet(older(i))
    BY FS_Subset
  <2>2. Total(owed, older(i)) \in Nat
    BY <2>1, TotalNat
  <2>3. Excess(n, Total(owed, older(i))) \in Nat
    BY <2>2 DEF Excess
  <2> QED
    BY <2>3 DEF Least
<1>2. FifoShares(n, owed, open, rank) = [i \in S |-> share(i)]
  BY DEF FifoShares
<1> QED
  BY <1>1, <1>2

\* A total over part of a set leaves room for each summand outside it.
LEMMA TotalGrows ==
  ASSUME NEW S, IsFiniteSet(S), NEW f, \A x \in S : f[x] \in Nat,
         NEW T \in SUBSET S, NEW y \in S \ T
  PROVE  Total(f, T) \in Nat /\ Total(f, S) \in Nat /\ Total(f, T) + f[y] <= Total(f, S)
<1>1. IsFiniteSet(S \ {y}) /\ IsFiniteSet(T)
  BY FS_RemoveElement, FS_Subset
<1>2. Units(f, T) \subseteq Units(f, S \ {y})
  BY DEF Units
<1>3. IsFiniteSet(Units(f, S \ {y}))
  BY <1>1, UnitsFinite
<1>4. Total(f, T) <= Total(f, S \ {y})
  BY <1>2, <1>3, FS_Subset DEF Total
<1>5. Total(f, S) = f[y] + Total(f, S \ {y})
  BY TotalSplit
<1>6. Total(f, T) \in Nat /\ Total(f, S) \in Nat /\ Total(f, S \ {y}) \in Nat
  BY <1>1, TotalNat
<1> QED
  BY <1>4, <1>5, <1>6

\* An order of the rows gives each a number of its own, the earlier days first.
LEMMA OrderTyped ==
  ASSUME NEW S, IsFiniteSet(S), NEW day, DOMAIN day = S, NEW by \in SortedBy(day)
  PROVE  /\ by \in [S -> Nat]
         /\ \A i, j \in S : by[i] = by[j] => i = j
         /\ \A i, j \in S : day[i] < day[j] => by[i] < by[j]
<1>1. Cardinality(S) \in Nat
  BY FS_CardinalityType
<1>2. 1..Cardinality(S) \subseteq Nat
  BY <1>1
<1>3. /\ by \in [S -> 1..Cardinality(S)]
      /\ \A i, j \in S : by[i] = by[j] => i = j
      /\ \A i, j \in S : day[i] < day[j] => by[i] < by[j]
  BY DEF SortedBy
<1>4. by \in [S -> Nat]
  <2> SUFFICES ASSUME NEW i \in S PROVE by[i] \in Nat
    BY <1>3, Zenon
  <2>1. by[i] \in 1..Cardinality(S)
    BY <1>3, Zenon
  <2> QED
    BY <1>2, <2>1, Zenon
<1> QED
  BY <1>3, <1>4

\* FIFO hands out no more than it has: the units of the shares are placed,
\* account after account, on n places, and no two on the same one.
THEOREM FifoFits ==
  ASSUME NEW S, IsFiniteSet(S), NEW owed, DOMAIN owed = S, \A i \in S : owed[i] \in Nat,
         NEW n \in Nat, NEW open \in SUBSET S,
         NEW rank \in [S -> Nat], \A i, j \in S : rank[i] = rank[j] => i = j
  PROVE  Total(FifoShares(n, owed, open, rank), S) <= n
<1> DEFINE older(i) == {j \in open : rank[j] < rank[i]}
           before(i) == Total(owed, older(i))
           shares == FifoShares(n, owed, open, rank)
           units == Units(shares, S)
           place == [u \in units |-> before(u[1]) + u[2]]
<1>1. ASSUME NEW i \in S PROVE before(i) \in Nat /\ IsFiniteSet(older(i))
  <2>1. IsFiniteSet(older(i))
    BY FS_Subset
  <2> QED
    BY <2>1, TotalNat
<1>2. \A i \in S : shares[i] = IF i \in open THEN Least(owed[i], Excess(n, before(i))) ELSE 0
  BY DEF FifoShares
<1>3. shares \in [S -> Nat]
  BY FifoTyped
<1>4. ASSUME NEW u \in units
      PROVE  /\ u = <<u[1], u[2]>> /\ u[1] \in open /\ u[2] \in Nat
             /\ 1 <= u[2] /\ u[2] <= owed[u[1]] /\ before(u[1]) + u[2] <= n
  <2>1. PICK i \in S : u \in {i} \X (1..shares[i])
    BY DEF Units
  <2>2. shares[i] \in Nat /\ owed[i] \in Nat /\ before(i) \in Nat
    BY <1>1, <1>3
  <2>3. u = <<u[1], u[2]>> /\ u[1] = i /\ u[2] \in 1..shares[i]
    BY <2>1
  <2>4. i \in open
    BY <1>2, <2>2, <2>3
  <2> HIDE DEF before, shares
  <2>5. shares[i] <= owed[i] /\ shares[i] <= Excess(n, before(i))
    BY <1>2, <2>2, <2>4 DEF Least, Excess
  <2> QED
    BY <2>2, <2>3, <2>4, <2>5 DEF Excess
<1>5. ASSUME NEW i \in open, NEW j \in open, rank[i] < rank[j]
      PROVE  before(i) + owed[i] <= before(j)
  <2>1. older(i) \in SUBSET older(j) /\ i \in older(j) \ older(i)
    BY <1>5
  <2> QED
    BY <1>1, <2>1, TotalGrows
<1>6. place \in [units -> 1..n]
  <2> SUFFICES ASSUME NEW u \in units PROVE before(u[1]) + u[2] \in 1..n
    OBVIOUS
  <2> HIDE DEF before, units
  <2>1. before(u[1]) \in Nat
    BY <1>1, <1>4
  <2>2. u[2] \in Nat /\ 1 <= u[2] /\ before(u[1]) + u[2] <= n
    BY <1>4
  <2> QED
    BY <2>1, <2>2
<1>7. ASSUME NEW u \in units, NEW v \in units, place[u] = place[v]
      PROVE  u = v
  <2> HIDE DEF before, units
  <2>1. before(u[1]) + u[2] = before(v[1]) + v[2]
    BY <1>7
  <2>2. before(u[1]) \in Nat /\ before(v[1]) \in Nat /\ owed[u[1]] \in Nat /\ owed[v[1]] \in Nat
    BY <1>1, <1>4
  <2>3. ~(rank[u[1]] < rank[v[1]]) /\ ~(rank[v[1]] < rank[u[1]])
    BY <1>4, <1>5, <2>1, <2>2
  <2>4. u[1] = v[1]
    BY <1>4, <2>3
  <2> QED
    BY <1>4, <2>1, <2>2, <2>4
<1>8. place \in Injection(units, 1..n)
  BY <1>6, <1>7 DEF Injection, IsInjective
<1>9. IsFiniteSet(1..n) /\ Cardinality(1..n) = n
  <2>1. 1 \in Int /\ n \in Int
    OBVIOUS
  <2>2. IsFiniteSet(1..n) /\ Cardinality(1..n) = IF 1 > n THEN 0 ELSE n - 1 + 1
    BY <2>1, FS_Interval
  <2> QED
    BY <2>2
<1>10. Cardinality(units) <= Cardinality(1..n)
  <2> HIDE DEF place, units
  <2> QED
    BY <1>8, <1>9, FS_Injection
<1> QED
  BY <1>9, <1>10 DEF Total

-----------------------------------------------------------------------
\* Among subsets of a finite set there is one that contains no other.
LEMMA LeastSubset ==
  ASSUME NEW S, IsFiniteSet(S), NEW T \in SUBSET SUBSET S, T # {}
  PROVE  \E s \in T : \A t \in T : t \subseteq s => t = s
<1>1. IsWellFoundedOn(StrictSubsetOrdering(S), SUBSET S)
  BY FS_StrictSubsetOrderingWellFounded, FS_FiniteSubsetsOfFinite
<1>2. PICK s \in T : \A t \in T : <<t, s>> \notin StrictSubsetOrdering(S)
  BY <1>1, WFMin
<1>3. \A t \in T : t \subseteq s => t = s
  BY <1>2 DEF StrictSubsetOrdering
<1> QED
  BY <1>3

\* A sum computed one summand after another, in an order nobody states, is the
\* total: the total satisfies the recursion, and a least set on which the sum and
\* the total differ would have a summand to take away.
LEMMA RecursionIsTotal ==
  ASSUME NEW S, IsFiniteSet(S), NEW f, \A x \in S : f[x] \in Nat
  PROVE  LET it[s \in SUBSET S] ==
               IF s = {} THEN 0 ELSE LET y == CHOOSE z \in s : TRUE IN f[y] + it[s \ {y}]
         IN  it[S] = Total(f, S)
<1> DEFINE body(it) == [s \in SUBSET S |->
                          IF s = {} THEN 0 ELSE LET y == CHOOSE z \in s : TRUE IN f[y] + it[s \ {y}]]
           it == CHOOSE g : g = body(g)
           first(s) == CHOOSE z \in s : TRUE
           total == [s \in SUBSET S |-> Total(f, s)]
<1>1. \A s \in SUBSET S : s # {} => first(s) \in s
  <2>1. ASSUME NEW s \in SUBSET S, s # {} PROVE (CHOOSE z \in s : TRUE) \in s
    <3>1. \E z \in s : TRUE
      BY <2>1
    <3> QED
      BY <3>1
  <2> QED
    BY <2>1
<1>2. \A s \in SUBSET S : s # {} => Total(f, s) = f[first(s)] + Total(f, s \ {first(s)})
  <2> SUFFICES ASSUME NEW s \in SUBSET S, s # {}
               PROVE  Total(f, s) = f[first(s)] + Total(f, s \ {first(s)})
    OBVIOUS
  <2>1. IsFiniteSet(s) /\ \A x \in s : f[x] \in Nat
    BY FS_Subset
  <2>2. first(s) \in s
    BY <1>1
  <2> HIDE DEF first
  <2> QED
    BY <2>1, <2>2, TotalSplit
<1>3. Total(f, {}) = 0
  BY TotalZero
<1>4. total = body(total)
  <2>1. ASSUME NEW s \in SUBSET S
        PROVE  Total(f, s) = IF s = {} THEN 0 ELSE f[first(s)] + total[s \ {first(s)}]
    <3>1. s \ {first(s)} \in SUBSET S
      OBVIOUS
    <3> QED
      BY <1>2, <1>3, <3>1
  <2> QED
    BY <2>1
<1>5. it = body(it)
  <2> HIDE DEF body, total
  <2>1. \E g : g = body(g)
    BY <1>4
  <2> QED
    BY <2>1
<1>6. /\ it[{}] = 0
      /\ \A s \in SUBSET S : s # {} => it[s] = f[first(s)] + it[s \ {first(s)}]
  <2> HIDE DEF it
  <2>1. {} \in SUBSET S
    OBVIOUS
  <2>2. it[{}] = 0
    BY <1>5, <2>1
  <2>3. ASSUME NEW s \in SUBSET S, s # {} PROVE it[s] = f[first(s)] + it[s \ {first(s)}]
    BY <1>5, <2>3
  <2> QED
    BY <2>2, <2>3
<1> DEFINE bad == {s \in SUBSET S : it[s] # Total(f, s)}
<1>7. bad = {}
  <2> HIDE DEF it, first
  <2> SUFFICES ASSUME bad # {} PROVE FALSE
    OBVIOUS
  <2>1. bad \in SUBSET SUBSET S
    OBVIOUS
  <2> HIDE DEF bad
  <2>2. PICK s \in bad : \A t \in bad : t \subseteq s => t = s
    BY <2>1, LeastSubset
  <2>3. s \in SUBSET S /\ it[s] # Total(f, s)
    BY <2>2 DEF bad
  <2>4. s # {}
    BY <1>3, <1>6, <2>3
  <2>5. first(s) \in s
    BY <1>1, <2>3, <2>4
  <2>6. s \ {first(s)} \in SUBSET S /\ s \ {first(s)} \notin bad
    BY <2>2, <2>3, <2>5
  <2>7. it[s \ {first(s)}] = Total(f, s \ {first(s)})
    BY <2>6 DEF bad
  <2> QED
    BY <1>2, <1>6, <2>3, <2>4, <2>7
<1>8. it[S] = Total(f, S)
  <2> HIDE DEF it
  <2> QED
    BY <1>7
<1> QED
  BY <1>8

\* Sums of the community modules are totals.
THEOREM SumIsTotal ==
  ASSUME NEW S, IsFiniteSet(S), NEW f, \A x \in S : f[x] \in Nat
  PROVE  FoldFunctionOnSet(+, 0, f, S) = Total(f, S)
BY RecursionIsTotal DEF FoldFunctionOnSet, MapThenFoldSet
=======================================================================
