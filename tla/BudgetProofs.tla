---------------------------- MODULE BudgetProofs ----------------------------
(***************************************************************************)
(* Facts about the budget plan, for every number of branches, every budget *)
(* and every beta.                                                         *)
(***************************************************************************)
EXTENDS EvolutionModes, FiniteSetTheorems, TLAPS

(* The floors of a competition fit the budget: the bonus pool is not       *)
(* negative (createBudgetPlan).                                            *)
LEMMA FloorsFit == PerBranch \in Nat /\ PerBranch * N <= TotalBudget
<1>1. TotalBudget * BetaNum \in Nat /\ BetaDen * N \in Nat \ {0}
  BY ConfigAssumption DEF ConfigAssumption
<1>2. TotalBudget * BetaNum <= TotalBudget * BetaDen
  BY ConfigAssumption DEF ConfigAssumption
<1>3. PerBranch \in Nat /\ PerBranch * (BetaDen * N) <= TotalBudget * BetaNum
  BY <1>1 DEF PerBranch
<1>4. (PerBranch * N) * BetaDen <= TotalBudget * BetaDen
  <2>1. PerBranch * (BetaDen * N) = (PerBranch * N) * BetaDen
    BY <1>3, ConfigAssumption DEF ConfigAssumption
  <2> QED
    BY <2>1, <1>2, <1>3, ConfigAssumption DEF ConfigAssumption
<1>5. ASSUME NEW a \in Nat, NEW c \in Nat, NEW d \in Nat \ {0}, a * d <= c * d
      PROVE a <= c
  BY <1>5
<1> QED
  BY <1>3, <1>4, <1>5, ConfigAssumption DEF ConfigAssumption

(* Without competition every even share is a natural number, and so is     *)
(* what is dealt out beyond the common quotient.                           *)
LEMMA EvenSharesNatural ==
    /\ TotalBudget \div N \in Nat
    /\ TotalBudget % N \in 0..(N - 1)
    /\ TotalBudget = (TotalBudget \div N) * N + (TotalBudget % N)
    /\ \A b \in Branches : EvenShare(b) \in Nat
<1>1. N \in Nat \ {0} /\ TotalBudget \in Nat
  BY ConfigAssumption DEF ConfigAssumption
<1>2. /\ TotalBudget \div N \in Nat
      /\ TotalBudget % N \in 0..(N - 1)
      /\ TotalBudget = (TotalBudget \div N) * N + (TotalBudget % N)
  BY <1>1
<1> QED
  BY <1>1, <1>2 DEF EvenShare, Branches

(* Every floor is a natural number and so is the pool.                     *)
LEMMA PlanType == BaseBudget \in [Branches -> Nat] /\ BonusPool \in Nat
<1>1. BaseBudget \in [Branches -> Nat]
  BY FloorsFit, EvenSharesNatural DEF BaseBudget
<1>2. BonusPool \in Nat
  <2>1. PerBranch * N \in Nat
    BY FloorsFit, ConfigAssumption DEF ConfigAssumption
  <2> QED
    BY <2>1, FloorsFit, ConfigAssumption DEF BonusPool, ConfigAssumption
<1> QED
  BY <1>1, <1>2

(* A grant is positive and never more than the pool.                       *)
LEMMA GrantFits ==
    ASSUME NEW pool \in Nat, pool > 0
    PROVE  GrantSize(pool) \in 1..pool
  BY ConfigAssumption DEF GrantSize, ConfigAssumption

(* There are finitely many branches: N of them.                            *)
LEMMA BranchesFinite == IsFiniteSet(Branches) /\ Cardinality(Branches) = N
  BY FS_Interval, ConfigAssumption DEF Branches, ConfigAssumption

-----------------------------------------------------------------------------
(* Counting credits                                                        *)

(* A credit is a pair of a branch and a number up to its count.            *)
LEMMA CreditsElement ==
    ASSUME NEW f \in [Branches -> Nat], NEW x
    PROVE  x \in Credits(f) <=> \E b \in Branches : \E k \in 1..f[b] : x = <<b, k>>
  BY DEF Credits

(* Counts in Nat stand for finitely many credits.                          *)
LEMMA CreditsFinite ==
    ASSUME NEW f \in [Branches -> Nat]
    PROVE  IsFiniteSet(Credits(f)) /\ Cardinality(Credits(f)) \in Nat
<1> DEFINE Row == [b \in Branches |-> {b} \X (1..f[b])]
           Rows == {{b} \X (1..f[b]) : b \in Branches}
<1>1. Row \in Surjection(Branches, Rows)
  BY DEF Surjection
<1>2. IsFiniteSet(Rows)
  BY <1>1, BranchesFinite, FS_Surjection
<1>3. ASSUME NEW b \in Branches PROVE IsFiniteSet({b} \X (1..f[b]))
  <2>1. IsFiniteSet({b}) /\ IsFiniteSet(1..f[b])
    <3>1. 1 \in Int /\ f[b] \in Int
      OBVIOUS
    <3> QED
      BY <3>1, FS_Singleton, FS_Interval, Zenon
  <2> QED
    BY <2>1, FS_Product
<1>4. IsFiniteSet(UNION Rows)
  <2>1. \A T \in Rows : IsFiniteSet(T)
    BY <1>3
  <2> QED
    BY <1>2, <2>1, FS_UNION
<1> QED
  BY <1>4, FS_CardinalityType DEF Credits

(* No count, no credits.                                                   *)
LEMMA CreditsNone == Cardinality(Credits([b \in Branches |-> 0])) = 0
<1>1. Credits([b \in Branches |-> 0]) = {}
  <2>1. ASSUME NEW x \in Credits([b \in Branches |-> 0]) PROVE FALSE
    BY CreditsElement
  <2> QED
    BY <2>1
<1> QED
  BY <1>1, FS_EmptySet

(* A grant of a to one branch adds a credits (#runWave, bonusGrant).       *)
LEMMA CreditsGranted ==
    ASSUME NEW f \in [Branches -> Nat], NEW w \in Branches, NEW a \in Nat
    PROVE  Cardinality(Credits([f EXCEPT ![w] = @ + a]))
               = Cardinality(Credits(f)) + a
<1> DEFINE g == [f EXCEPT ![w] = @ + a]
           Fresh == {w} \X ((f[w] + 1)..(f[w] + a))
<1>1. g \in [Branches -> Nat]
  OBVIOUS
<1>2. IsFiniteSet(Fresh) /\ Cardinality(Fresh) = a
  <2>1. /\ IsFiniteSet((f[w] + 1)..(f[w] + a))
        /\ Cardinality((f[w] + 1)..(f[w] + a)) = a
    <3>1. f[w] + 1 \in Int /\ f[w] + a \in Int
      OBVIOUS
    <3>2. /\ IsFiniteSet((f[w] + 1)..(f[w] + a))
          /\ Cardinality((f[w] + 1)..(f[w] + a))
               = IF f[w] + 1 > f[w] + a THEN 0 ELSE (f[w] + a) - (f[w] + 1) + 1
      BY <3>1, FS_Interval, Zenon
    <3> QED
      BY <3>2
  <2>2. IsFiniteSet({w}) /\ Cardinality({w}) = 1
    BY FS_Singleton
  <2>3. /\ IsFiniteSet(Fresh)
        /\ Cardinality(Fresh)
             = Cardinality({w}) * Cardinality((f[w] + 1)..(f[w] + a))
    BY <2>1, <2>2, FS_Product, Zenon
  <2> QED
    BY <2>1, <2>2, <2>3
<1>3. Credits(g) = Credits(f) \cup Fresh
  <2>1. ASSUME NEW x \in Credits(g) PROVE x \in Credits(f) \cup Fresh
    <3>0. PICK b \in Branches : \E k \in 1..g[b] : x = <<b, k>>
      BY <1>1, <2>1, CreditsElement
    <3>1. PICK k \in 1..g[b] : x = <<b, k>>
      BY <3>0
    <3>2. CASE b = w
      BY <3>1, <3>2, CreditsElement
    <3>3. CASE b # w
      BY <3>1, <3>3, CreditsElement
    <3> QED
      BY <3>2, <3>3
  <2>2. ASSUME NEW x \in Credits(f) PROVE x \in Credits(g)
    <3>0. PICK b \in Branches : \E k \in 1..f[b] : x = <<b, k>>
      BY <2>2, CreditsElement
    <3>1. PICK k \in 1..f[b] : x = <<b, k>>
      BY <3>0
    <3>2. k \in 1..g[b]
      OBVIOUS
    <3> HIDE DEF g
    <3> QED
      BY <1>1, <3>1, <3>2, CreditsElement
  <2>3. ASSUME NEW x \in Fresh PROVE x \in Credits(g)
    <3>1. PICK k \in (f[w] + 1)..(f[w] + a) : x = <<w, k>>
      BY <2>3
    <3>2. k \in 1..g[w]
      OBVIOUS
    <3> HIDE DEF g
    <3> QED
      BY <1>1, <3>1, <3>2, CreditsElement
  <2> QED
    BY <2>1, <2>2, <2>3
<1>4. Credits(f) \cap Fresh = {}
  <2>1. ASSUME NEW x \in Credits(f), x \in Fresh PROVE FALSE
    BY <2>1, CreditsElement
  <2> QED
    BY <2>1
<1>5. Cardinality(Credits(f) \cup Fresh)
        = Cardinality(Credits(f)) + Cardinality(Fresh) - 0
  <2>1. IsFiniteSet(Credits(f))
    BY CreditsFinite
  <2>2. Cardinality(Credits(f) \cup Fresh)
          = Cardinality(Credits(f)) + Cardinality(Fresh)
              - Cardinality(Credits(f) \cap Fresh)
    BY <1>2, <2>1, FS_Union, Zenon
  <2> QED
    BY <1>4, <2>2, FS_EmptySet
<1>6. Cardinality(Credits(f)) \in Nat
  BY CreditsFinite
<1>7. Cardinality(Credits(g)) = Cardinality(Credits(f)) + a
  <2> HIDE DEF g, Fresh
  <2> QED
    BY <1>2, <1>3, <1>5, <1>6
<1> QED
  BY <1>7

(* Charging one round to each branch of S adds as many credits as S has    *)
(* members (#runWave, budgetConsumed).                                     *)
LEMMA CreditsCharged ==
    ASSUME NEW f \in [Branches -> Nat], NEW S \in SUBSET Branches
    PROVE  Cardinality(Credits([b \in Branches |-> f[b] + IF b \in S THEN 1 ELSE 0]))
               = Cardinality(Credits(f)) + Cardinality(S)
<1> DEFINE g == [b \in Branches |-> f[b] + IF b \in S THEN 1 ELSE 0]
           Fresh == {<<b, f[b] + 1>> : b \in S}
           Next1 == [b \in S |-> <<b, f[b] + 1>>]
<1>1. g \in [Branches -> Nat]
  OBVIOUS
<1>2. IsFiniteSet(S) /\ Cardinality(S) \in Nat
  BY BranchesFinite, FS_Subset, FS_CardinalityType
<1>3. IsFiniteSet(Fresh) /\ Cardinality(Fresh) = Cardinality(S)
  <2>1. Next1 \in Bijection(S, Fresh)
    <3>1. Next1 \in [S -> Fresh]
      OBVIOUS
    <3>2. \A b, c \in S : Next1[b] = Next1[c] => b = c
      OBVIOUS
    <3>3. \A x \in Fresh : \E b \in S : Next1[b] = x
      OBVIOUS
    <3> QED
      BY <3>1, <3>2, <3>3 DEF Bijection, Injection, Surjection, IsInjective
  <2>2. ExistsBijection(S, Fresh)
    BY <2>1 DEF ExistsBijection
  <2> QED
    BY <1>2, <2>2, FS_Bijection
<1>4. Credits(g) = Credits(f) \cup Fresh
  <2>1. ASSUME NEW x \in Credits(g) PROVE x \in Credits(f) \cup Fresh
    <3>0. PICK b \in Branches : \E k \in 1..g[b] : x = <<b, k>>
      BY <1>1, <2>1, CreditsElement
    <3>1. PICK k \in 1..g[b] : x = <<b, k>>
      BY <3>0
    <3>2. CASE k \in 1..f[b]
      BY <3>1, <3>2, CreditsElement
    <3>3. CASE k \notin 1..f[b]
      BY <3>1, <3>3
    <3> QED
      BY <3>2, <3>3
  <2>2. ASSUME NEW x \in Credits(f) PROVE x \in Credits(g)
    <3>0. PICK b \in Branches : \E k \in 1..f[b] : x = <<b, k>>
      BY <2>2, CreditsElement
    <3>1. PICK k \in 1..f[b] : x = <<b, k>>
      BY <3>0
    <3>2. k \in 1..g[b]
      OBVIOUS
    <3> HIDE DEF g
    <3> QED
      BY <1>1, <3>1, <3>2, CreditsElement
  <2>3. ASSUME NEW x \in Fresh PROVE x \in Credits(g)
    <3>1. PICK b \in S : x = <<b, f[b] + 1>>
      BY <2>3
    <3>2. b \in Branches /\ f[b] + 1 \in 1..g[b]
      OBVIOUS
    <3> HIDE DEF g
    <3> QED
      BY <1>1, <3>1, <3>2, CreditsElement
  <2> QED
    BY <2>1, <2>2, <2>3
<1>5. Credits(f) \cap Fresh = {}
  <2>1. ASSUME NEW x \in Credits(f), x \in Fresh PROVE FALSE
    BY <2>1, CreditsElement
  <2> QED
    BY <2>1
<1>6. Cardinality(Credits(f) \cup Fresh)
        = Cardinality(Credits(f)) + Cardinality(Fresh) - 0
  <2>1. IsFiniteSet(Credits(f))
    BY CreditsFinite
  <2>2. Cardinality(Credits(f) \cup Fresh)
          = Cardinality(Credits(f)) + Cardinality(Fresh)
              - Cardinality(Credits(f) \cap Fresh)
    BY <1>3, <2>1, FS_Union, Zenon
  <2> QED
    BY <1>5, <2>2, FS_EmptySet
<1>7. Cardinality(Credits(f)) \in Nat
  BY CreditsFinite
<1>8. Cardinality(Credits(g)) = Cardinality(Credits(f)) + Cardinality(S)
  <2> HIDE DEF g, Fresh
  <2> QED
    BY <1>2, <1>3, <1>4, <1>6, <1>7
<1> QED
  BY <1>8

-----------------------------------------------------------------------------
(* The plan allocates the budget exactly                                   *)

(* The rounds of one block of N belong to that block: division by N finds  *)
(* the block a round was numbered from.                                    *)
LEMMA Quotient ==
    ASSUME NEW q \in Nat, NEW r \in 0..(N - 1)
    PROVE  (q * N + r) \div N = q /\ (q * N + r) % N = r
  BY ConfigAssumption DEF ConfigAssumption

(* Rounds numbered by block and place are ordered by block, then place.    *)
LEMMA QuotientBelow ==
    ASSUME NEW q \in Nat, NEW p \in Nat, NEW r \in 0..(N - 1), NEW s \in 0..(N - 1)
    PROVE  q * N + r < p * N + s <=> q < p \/ (q = p /\ r < s)
<1>0. N \in Nat \ {0}
  BY ConfigAssumption DEF ConfigAssumption
<1>1. CASE q = p
  BY <1>0, <1>1
<1>2. CASE q < p
  <2>1. PICK d \in Nat : p = q + 1 + d
    <3>1. p - q - 1 \in Nat /\ p = q + 1 + (p - q - 1)
      BY <1>2
    <3> QED
      BY <3>1
  <2>2. p * N = q * N + N + d * N /\ d * N \in Nat
    BY <1>0, <2>1
  <2> QED
    BY <1>0, <1>2, <2>2
<1>3. CASE p < q
  <2>1. PICK d \in Nat : q = p + 1 + d
    <3>1. q - p - 1 \in Nat /\ q = p + 1 + (q - p - 1)
      BY <1>3
    <3> QED
      BY <3>1
  <2>2. q * N = p * N + N + d * N /\ d * N \in Nat
    BY <1>0, <2>1
  <2> QED
    BY <1>0, <1>3, <2>2
<1> QED
  BY <1>1, <1>2, <1>3

(* Round x goes to branch (x - 1) % N + 1, as its credit (x - 1) \div N + 1: *)
(* that deals the rounds 1..TotalBudget to exactly the even shares.        *)
LEMMA EvenSharesAddUp ==
    ASSUME NEW f \in [Branches -> Nat], \A b \in Branches : f[b] = EvenShare(b)
    PROVE  Cardinality(Credits(f)) = TotalBudget
<1> DEFINE Branch(x) == ((x - 1) % N) + 1
           Credit(x) == ((x - 1) \div N) + 1
           Deal == [x \in 1..TotalBudget |-> <<Branch(x), Credit(x)>>]
           Q == TotalBudget \div N
           R == TotalBudget % N
<1>0. N \in Nat \ {0} /\ TotalBudget \in Nat
  BY ConfigAssumption DEF ConfigAssumption
<1>1. Q \in Nat /\ R \in 0..(N - 1) /\ TotalBudget = Q * N + R
  BY EvenSharesNatural
<1>2. ASSUME NEW x \in 1..TotalBudget
      PROVE  /\ (x - 1) \div N \in Nat /\ (x - 1) % N \in 0..(N - 1)
             /\ x - 1 = ((x - 1) \div N) * N + ((x - 1) % N)
  BY <1>0
<1> HIDE DEF Q, R
<1>3. ASSUME NEW x \in 1..TotalBudget PROVE Deal[x] \in Credits(f)
  <2> DEFINE q == (x - 1) \div N
             r == (x - 1) % N
  <2>1. q \in Nat /\ r \in 0..(N - 1) /\ q * N + r < Q * N + R
    BY <1>0, <1>1, <1>2
  <2> HIDE DEF q, r
  <2>2. q < Q \/ (q = Q /\ r < R)
    BY <1>1, <2>1, QuotientBelow
  <2>3. r + 1 \in Branches /\ q + 1 \in 1..EvenShare(r + 1)
    BY <1>0, <1>1, <2>1, <2>2 DEF Branches, EvenShare, Q, R
  <2>4. <<r + 1, q + 1>> \in Credits(f)
    BY <2>3, CreditsElement
  <2> QED
    BY <2>4 DEF q, r
<1>4. ASSUME NEW x \in 1..TotalBudget, NEW y \in 1..TotalBudget, Deal[x] = Deal[y]
      PROVE  x = y
  <2>1. (x - 1) % N = (y - 1) % N /\ (x - 1) \div N = (y - 1) \div N
    <3>1. Branch(x) = Branch(y) /\ Credit(x) = Credit(y)
      BY <1>4
    <3> QED
      BY <1>2, <3>1
  <2>2. x - 1 = y - 1
    BY <1>2, <2>1
  <2> QED
    BY <2>2
<1>5. ASSUME NEW e \in Credits(f) PROVE \E x \in 1..TotalBudget : Deal[x] = e
  <2>1. PICK b \in Branches : \E k \in 1..f[b] : e = <<b, k>>
    BY <1>5, CreditsElement
  <2>2. PICK k \in 1..f[b] : e = <<b, k>>
    BY <2>1
  <2> DEFINE q == k - 1
             r == b - 1
  <2>3. q \in Nat /\ r \in 0..(N - 1) /\ k <= EvenShare(b)
    BY <1>0 DEF Branches
  <2>4. q < Q \/ (q = Q /\ r < R)
    BY <1>0, <1>1, <2>3 DEF EvenShare, Branches, Q, R
  <2>5. q * N + r < Q * N + R
    BY <1>1, <2>3, <2>4, QuotientBelow
  <2>6. (q * N + r) \div N = q /\ (q * N + r) % N = r
    BY <2>3, Quotient
  <2> HIDE DEF q, r
  <2>7. q * N + r \in Nat
    BY <1>0, <2>3
  <2> DEFINE z == q * N + r
  <2>8. z \in Nat /\ z + 1 \in 1..TotalBudget
    BY <1>0, <1>1, <2>5, <2>7
  <2>9. z \div N = q /\ z % N = r
    BY <2>6
  <2> HIDE DEF z
  <2>10. Deal[z + 1] = <<r + 1, q + 1>>
    <3>1. (z + 1) - 1 = z
      BY <2>8
    <3> QED
      BY <2>8, <2>9, <3>1
  <2>11. r + 1 = b /\ q + 1 = k
    BY <1>0 DEF q, r, Branches
  <2> QED
    BY <2>2, <2>8, <2>10, <2>11
<1>6. ExistsBijection(1..TotalBudget, Credits(f))
  <2>1. Deal \in [1..TotalBudget -> Credits(f)]
    BY <1>3
  <2>2. /\ \A x, y \in 1..TotalBudget : Deal[x] = Deal[y] => x = y
        /\ \A e \in Credits(f) : \E x \in 1..TotalBudget : Deal[x] = e
    BY <1>4, <1>5
  <2> HIDE DEF Deal
  <2> QED
    BY <2>1, <2>2 DEF ExistsBijection, Bijection, Injection, Surjection, IsInjective
<1>7. IsFiniteSet(1..TotalBudget) /\ Cardinality(1..TotalBudget) = TotalBudget
  BY <1>0, FS_Interval
<1> QED
  BY <1>6, <1>7, FS_Bijection

(* createBudgetPlan gives away every round of the budget and no more, for  *)
(* every mode, branch count, budget and beta: allocations plus pool.       *)
THEOREM PlanExact == Cardinality(Credits(BaseBudget)) + BonusPool = TotalBudget
<1>1. CASE UsesCompetition
  <2>1. Credits(BaseBudget) = Branches \X (1..PerBranch)
    BY <1>1 DEF Credits, BaseBudget
  <2>2. IsFiniteSet(1..PerBranch) /\ Cardinality(1..PerBranch) = PerBranch
    BY FloorsFit, FS_Interval
  <2>3. Cardinality(Branches \X (1..PerBranch)) = N * PerBranch
    <3>1. Cardinality(Branches \X (1..PerBranch))
            = Cardinality(Branches) * Cardinality(1..PerBranch)
      BY <2>2, BranchesFinite, FS_Product, Zenon
    <3> QED
      BY <2>2, <3>1, BranchesFinite
  <2> QED
    BY <1>1, <2>1, <2>3, FloorsFit, ConfigAssumption DEF BonusPool, ConfigAssumption
<1>2. CASE ~UsesCompetition
  <2>1. \A b \in Branches : BaseBudget[b] = EvenShare(b)
    BY <1>2 DEF BaseBudget
  <2>2. Cardinality(Credits(BaseBudget)) = TotalBudget
    BY <2>1, PlanType, EvenSharesAddUp
  <2> QED
    BY <1>2, <2>2, ConfigAssumption DEF BonusPool, ConfigAssumption
<1> QED
  BY <1>1, <1>2

=============================================================================
