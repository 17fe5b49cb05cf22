--------------------------- MODULE BettingProofs ---------------------------
(***************************************************************************)
(* Theorems about Betting, for every set of users, events, options, amounts *)
(* and sessions.  Part 1: facts about sums of points, the types, and the    *)
(* inductive invariant BettingInvariant!IInv with what follows from it.     *)
(* Part 2: requests that do not overlap, whose write set is committed on the *)
(* database it was computed from, so that BettingInvariant!SerialInv is     *)
(* inductive, and the refinement of AtomicBetting.  Part 3: BettingWithdrawal, *)
(* with points that are never negative and a count of what went astray.     *)
(***************************************************************************)
EXTENDS BettingInvariant, BettingRefinement, BettingWithdrawal, FiniteSetTheorems, TLAPS

-----------------------------------------------------------------------------
(* Sums of points, for finite sets and natural amounts *)

(* The image of a finite set under a function is finite. *)
LEMMA ImageFinite ==
    ASSUME NEW S, IsFiniteSet(S), NEW g, g = [x \in S |-> g[x]]
    PROVE  IsFiniteSet({g[x] : x \in S})
<1> DEFINE T == {g[x] : x \in S}
<1>1. g \in Surjection(S, T)
    BY DEF Surjection
<1> QED BY <1>1, FS_Surjection

LEMMA UnitsFinite ==
    ASSUME NEW S, IsFiniteSet(S), NEW f, \A x \in S : f[x] \in Nat
    PROVE  IsFiniteSet(Units(S, f))
<1> DEFINE slice == [x \in S |-> {x} \X (1 .. f[x])]
<1> DEFINE slices == {slice[x] : x \in S}
<1>1. IsFiniteSet(slices)
    <2>1. slice = [x \in S |-> slice[x]]
        OBVIOUS
    <2> HIDE DEF slice
    <2> QED BY <2>1, ImageFinite
<1>2. ASSUME NEW x \in S PROVE IsFiniteSet(slice[x])
    <2>1. IsFiniteSet({x})
        BY FS_Singleton
    <2>2. IsFiniteSet(1 .. f[x])
        <3>1. f[x] \in Int
            OBVIOUS
        <3> QED BY <3>1, FS_Interval
    <2> QED BY <2>1, <2>2, FS_Product
<1>3. \A T \in slices : IsFiniteSet(T)
    BY <1>2
<1>4. IsFiniteSet(UNION slices)
    BY <1>1, <1>3, FS_UNION
<1>5. Units(S, f) = UNION slices
    BY DEF Units
<1> QED BY <1>4, <1>5

(* A sum of natural amounts is a natural number. *)
LEMMA SumIsNat ==
    ASSUME NEW S, IsFiniteSet(S), NEW f, \A x \in S : f[x] \in Nat
    PROVE  SumOf(S, f) \in Nat
BY UnitsFinite, FS_CardinalityType DEF SumOf

(* The sum over a part is at most the sum over the whole. *)
LEMMA SumOfPart ==
    ASSUME NEW S, IsFiniteSet(S), NEW f, \A x \in S : f[x] \in Nat,
           NEW T \in SUBSET S
    PROVE  SumOf(T, f) <= SumOf(S, f)
<1>1. Units(T, f) \subseteq Units(S, f)
    BY DEF Units
<1> QED BY <1>1, UnitsFinite, FS_Subset DEF SumOf

(* One more element adds its amount. *)
LEMMA SumOfAdded ==
    ASSUME NEW S, IsFiniteSet(S), NEW x, x \notin S,
           NEW f, \A y \in S \cup {x} : f[y] \in Nat
    PROVE  SumOf(S \cup {x}, f) = SumOf(S, f) + f[x]
<1> DEFINE old == Units(S, f)
           new == {x} \X (1 .. f[x])
<1>1. Units(S \cup {x}, f) = old \cup new
    BY DEF Units
<1>2. IsFiniteSet(old) /\ Cardinality(old) \in Nat
    BY UnitsFinite, FS_CardinalityType
<1>3. IsFiniteSet(new) /\ Cardinality(new) = f[x]
    <2> DEFINE slice == 1 .. f[x]
    <2>1. f[x] \in Nat
        OBVIOUS
    <2>2. IsFiniteSet({x}) /\ Cardinality({x}) = 1
        BY FS_Singleton
    <2>3. IsFiniteSet(slice) /\ Cardinality(slice) = f[x]
        <3>1. 1 \in Int /\ f[x] \in Int /\ (IF 1 > f[x] THEN 0 ELSE f[x] - 1 + 1) = f[x]
            BY <2>1
        <3> QED BY <3>1, FS_Interval
    <2> HIDE DEF slice
    <2>4. IsFiniteSet({x} \X slice) /\ Cardinality({x} \X slice) = 1 * f[x]
        BY <2>2, <2>3, FS_Product
    <2> QED BY <2>1, <2>4 DEF slice
<1>4. old \cap new = {}
    <2>1. \A a \in old : a[1] \in S
        BY DEF Units
    <2>2. \A a \in new : a[1] = x
        OBVIOUS
    <2> QED BY <2>1, <2>2
<1>5. Cardinality(old \cup new) = Cardinality(old) + Cardinality(new) - Cardinality({})
    BY <1>2, <1>3, <1>4, FS_Union
<1>6. Cardinality({}) = 0
    BY FS_EmptySet
<1>7. SumOf(S, f) = Cardinality(old) /\ SumOf(S \cup {x}, f) = Cardinality(old \cup new)
    BY <1>1 DEF SumOf
<1> HIDE DEF old, new
<1> QED BY <1>2, <1>3, <1>5, <1>6, <1>7

(* A sum does not depend on what the elements are, only on their amounts. *)
LEMMA SumOfRenamed ==
    ASSUME NEW S, IsFiniteSet(S), NEW f, \A x \in S : f[x] \in Nat,
           NEW T, NEW g \in Bijection(S, T),
           NEW h, \A x \in S : h[g[x]] = f[x]
    PROVE  SumOf(T, h) = SumOf(S, f)
<1> DEFINE A == Units(S, f)
           B == Units(T, h)
           rename == [a \in A |-> <<g[a[1]], a[2]>>]
<1>1. /\ \A x \in S : g[x] \in T
      /\ \A x, y \in S : g[x] = g[y] => x = y
      /\ \A t \in T : \E x \in S : g[x] = t
    BY DEF Bijection, Injection, Surjection, IsInjective
<1>2. \A a : a \in A <=> \E x \in S : \E i \in 1 .. f[x] : a = <<x, i>>
    BY DEF Units
<1>3. \A b : b \in B <=> \E t \in T : \E i \in 1 .. h[t] : b = <<t, i>>
    BY DEF Units
<1> HIDE DEF A, B
<1>4. ASSUME NEW x \in S, NEW i \in 1 .. f[x]
      PROVE  /\ <<x, i>> \in A /\ rename[<<x, i>>] = <<g[x], i>>
             /\ <<g[x], i>> \in B
    <2>1. <<x, i>> \in A
        BY <1>2
    <2>2. i \in 1 .. h[g[x]] /\ g[x] \in T
        BY <1>1
    <2> QED BY <1>3, <2>1, <2>2
<1> HIDE DEF rename
<1>5. \A a \in A : rename[a] \in B
    <2> SUFFICES ASSUME NEW a \in A PROVE rename[a] \in B
        OBVIOUS
    <2>1. PICK x \in S : \E i \in 1 .. f[x] : a = <<x, i>>
        BY <1>2
    <2> QED BY <1>4, <2>1
<1>6. \A a, c \in A : rename[a] = rename[c] => a = c
    <2> SUFFICES ASSUME NEW a \in A, NEW c \in A, rename[a] = rename[c] PROVE a = c
        OBVIOUS
    <2>1. PICK x \in S : \E i \in 1 .. f[x] : a = <<x, i>>
        BY <1>2
    <2>2. PICK i \in 1 .. f[x] : a = <<x, i>>
        BY <2>1
    <2>3. PICK y \in S : \E j \in 1 .. f[y] : c = <<y, j>>
        BY <1>2
    <2>4. PICK j \in 1 .. f[y] : c = <<y, j>>
        BY <2>3
    <2>5. <<g[x], i>> = <<g[y], j>>
        BY <1>4, <2>2, <2>4
    <2> QED BY <1>1, <2>2, <2>4, <2>5
<1>7. \A b \in B : \E a \in A : rename[a] = b
    <2> SUFFICES ASSUME NEW b \in B PROVE \E a \in A : rename[a] = b
        OBVIOUS
    <2>1. PICK t \in T : \E i \in 1 .. h[t] : b = <<t, i>>
        BY <1>3
    <2>2. PICK x \in S : g[x] = t
        BY <1>1
    <2> QED BY <1>4, <2>1, <2>2
<1>8. rename \in Bijection(A, B)
    BY <1>5, <1>6, <1>7 DEF Bijection, Injection, Surjection, IsInjective, rename
<1>9. ExistsBijection(A, B)
    BY <1>8 DEF ExistsBijection
<1>10. IsFiniteSet(A)
    BY UnitsFinite DEF A
<1> QED BY <1>9, <1>10, FS_Bijection DEF SumOf, A, B

LEMMA SumOfNone == \A f : SumOf({}, f) = 0
BY FS_EmptySet DEF SumOf, Units

(* The sum looks at the amounts of its elements only. *)
LEMMA SumOfSame ==
    ASSUME NEW S, NEW f, NEW g, \A x \in S : f[x] = g[x]
    PROVE  SumOf(S, f) = SumOf(S, g)
<1>1. Units(S, f) = Units(S, g)
    BY DEF Units
<1> QED BY <1>1 DEF SumOf

LEMMA SumOfOne ==
    ASSUME NEW x, NEW f, f[x] \in Nat
    PROVE  SumOf({x}, f) = f[x]
<1>1. SumOf({} \cup {x}, f) = SumOf({}, f) + f[x]
    <2>1. IsFiniteSet({}) /\ x \notin {} /\ \A y \in {} \cup {x} : f[y] \in Nat
        BY FS_EmptySet
    <2> QED BY <2>1, SumOfAdded, Zenon
<1>2. {} \cup {x} = {x}
    OBVIOUS
<1> QED BY <1>1, <1>2, SumOfNone

LEMMA SumOfDisjoint ==
    ASSUME NEW S, IsFiniteSet(S), NEW T, IsFiniteSet(T), S \cap T = {},
           NEW f, \A x \in S \cup T : f[x] \in Nat
    PROVE  SumOf(S \cup T, f) = SumOf(S, f) + SumOf(T, f)
<1> DEFINE A == Units(S, f)
           B == Units(T, f)
<1>1. Units(S \cup T, f) = A \cup B
    BY DEF Units
<1>2. A \cap B = {}
    <2>1. (\A a \in A : a[1] \in S) /\ (\A a \in B : a[1] \in T)
        BY DEF Units
    <2> QED BY <2>1
<1>3. IsFiniteSet(A) /\ IsFiniteSet(B)
    BY UnitsFinite
<1> HIDE DEF A, B
<1>4. Cardinality(A \cup B) = Cardinality(A) + Cardinality(B)
    <2>1. Cardinality(A \cup B) = Cardinality(A) + Cardinality(B) - Cardinality(A \cap B)
        BY <1>3, FS_Union
    <2>2. Cardinality(A \cap B) = 0
        BY <1>2, FS_EmptySet
    <2>3. Cardinality(A) \in Nat /\ Cardinality(B) \in Nat
        BY <1>3, FS_CardinalityType
    <2> HIDE DEF A, B
    <2> QED BY <2>1, <2>2, <2>3
<1> QED BY <1>1, <1>4 DEF SumOf, A, B

(* Induction over the subsets of a finite set: of the subsets for which a   *)
(* statement fails, one is smallest.                                        *)
LEMMA SmallestSubset ==
    ASSUME NEW S, IsFiniteSet(S), NEW Bad, Bad \subseteq SUBSET S, Bad # {}
    PROVE  \E T \in Bad : IsFiniteSet(T) /\ \A U \in Bad : U \subseteq T => U = T
<1> DEFINE R == StrictSubsetOrdering(S)
           F == FiniteSubsetsOf(S)
<1>1. IsWellFoundedOn(R, F)
    BY FS_StrictSubsetOrderingWellFounded
<1>2. Bad \subseteq F
    BY FS_Subset DEF FiniteSubsetsOf
<1>3. PICK T \in Bad : \A U \in Bad : ~ (<<U, T>> \in R)
    <2> HIDE DEF R, F
    <2> QED BY <1>1, <1>2, WFMin
<1>4. \A U \in Bad : U \subseteq T => U = T
    BY <1>2, <1>3 DEF StrictSubsetOrdering, FiniteSubsetsOf
<1> QED BY <1>2, <1>4 DEF FiniteSubsetsOf

(* Likewise: a statement that holds of no element, and of T and x if it does *)
(* of T, holds of all.                                                      *)
LEMMA EverySubset ==
    ASSUME NEW S, IsFiniteSet(S), NEW Good, {} \in Good,
           \A T \in SUBSET S : \A x \in S \ T : T \in Good => T \cup {x} \in Good
    PROVE  S \in Good
<1> SUFFICES ASSUME S \notin Good PROVE FALSE
    OBVIOUS
<1> DEFINE Bad == {T \in SUBSET S : T \notin Good}
<1>1. PICK T \in Bad : \A U \in Bad : U \subseteq T => U = T
    <2>1. Bad # {} /\ Bad \subseteq SUBSET S
        OBVIOUS
    <2> HIDE DEF Bad
    <2> QED BY <2>1, SmallestSubset
<1>2. PICK x \in T : TRUE
    OBVIOUS
<1>3. T \ {x} \in Good
    BY <1>1, <1>2
<1>4. (T \ {x}) \cup {x} = T
    BY <1>2
<1> QED BY <1>2, <1>3, <1>4

(* Sums of sums. *)
LEMMA SumOfSums ==
    ASSUME NEW S, IsFiniteSet(S), NEW part, NEW f, NEW g,
           \A x \in S : /\ IsFiniteSet(part[x])
                        /\ \A y \in part[x] : g[y] \in Nat
                        /\ f[x] = SumOf(part[x], g),
           \A x, z \in S : x # z => part[x] \cap part[z] = {}
    PROVE  SumOf(S, f) = SumOf(UNION {part[x] : x \in S}, g)
<1> DEFINE Parts(T) == UNION {part[x] : x \in T}
           Good == {T \in SUBSET S : IsFiniteSet(Parts(T)) /\ SumOf(T, f) = SumOf(Parts(T), g)}
<1>1. {} \in Good
    <2>1. Parts({}) = {}
        OBVIOUS
    <2> QED BY <2>1, SumOfNone, FS_EmptySet
<1>2. ASSUME NEW T \in SUBSET S, NEW x \in S \ T, T \in Good
      PROVE  T \cup {x} \in Good
    <2>1. Parts(T \cup {x}) = Parts(T) \cup part[x]
        OBVIOUS
    <2>2. Parts(T) \cap part[x] = {}
        OBVIOUS
    <2>3. IsFiniteSet(Parts(T)) /\ IsFiniteSet(part[x]) /\ IsFiniteSet(T)
        BY <1>2, FS_Subset
    <2>4. \A y \in Parts(T) \cup part[x] : g[y] \in Nat
        OBVIOUS
    <2>5. SumOf(T, f) = SumOf(Parts(T), g)
        BY <1>2
    <2>6. x \notin T /\ \A y \in T \cup {x} : f[y] \in Nat
        BY SumIsNat
    <2> HIDE DEF Parts
    <2>7. SumOf(Parts(T) \cup part[x], g) = SumOf(Parts(T), g) + SumOf(part[x], g)
        BY <2>2, <2>3, <2>4, SumOfDisjoint
    <2>8. SumOf(T \cup {x}, f) = SumOf(T, f) + f[x]
        BY <2>3, <2>6, SumOfAdded
    <2>9. IsFiniteSet(Parts(T) \cup part[x])
        BY <2>3, FS_Union
    <2> QED BY <2>1, <2>5, <2>7, <2>8, <2>9
<1> HIDE DEF Good
<1>3. S \in Good
    BY <1>1, <1>2, EverySubset
<1> QED BY <1>3 DEF Good

(* Sums of amounts that are in a fixed proportion, or less. *)
LEMMA SumOfShares ==
    ASSUME NEW S, IsFiniteSet(S), NEW f, NEW g, NEW k \in Nat, NEW m \in Nat,
           \A x \in S : f[x] \in Nat /\ g[x] \in Nat /\ k * f[x] <= m * g[x]
    PROVE  k * SumOf(S, f) <= m * SumOf(S, g)
<1> DEFINE Good == {T \in SUBSET S : k * SumOf(T, f) <= m * SumOf(T, g)}
<1>1. {} \in Good
    BY SumOfNone
<1>2. ASSUME NEW T \in SUBSET S, NEW x \in S \ T, T \in Good
      PROVE  T \cup {x} \in Good
    <2> DEFINE F == SumOf(T, f)
               G == SumOf(T, g)
    <2>1. IsFiniteSet(T) /\ x \notin T /\ \A y \in T \cup {x} : f[y] \in Nat /\ g[y] \in Nat
        BY FS_Subset
    <2>2. SumOf(T \cup {x}, f) = F + f[x]
        BY <2>1, SumOfAdded
    <2>3. SumOf(T \cup {x}, g) = G + g[x]
        BY <2>1, SumOfAdded
    <2>4. F \in Nat /\ G \in Nat
        BY <2>1, SumIsNat
    <2>5. k * F <= m * G
        BY <1>2
    <2> HIDE DEF F, G
    <2>6. f[x] \in Nat /\ g[x] \in Nat /\ k * f[x] <= m * g[x]
        OBVIOUS
    <2>7. k * (F + f[x]) <= m * (G + g[x])
        <3>1. /\ k * (F + f[x]) = k * F + k * f[x]
              /\ m * (G + g[x]) = m * G + m * g[x]
            BY <2>4, <2>6
        <3>2. k * F \in Int /\ k * f[x] \in Int /\ m * G \in Int /\ m * g[x] \in Int
            BY <2>4, <2>6
        <3> QED BY <2>5, <2>6, <3>1, <3>2
    <2> QED BY <2>2, <2>3, <2>7
<1> HIDE DEF Good
<1>3. S \in Good
    BY <1>1, <1>2, EverySubset
<1> QED BY <1>3 DEF Good

(* The sum of sums of two amounts. *)
LEMMA SumOfBoth ==
    ASSUME NEW S, IsFiniteSet(S), NEW f, NEW g, NEW h,
           \A x \in S : f[x] \in Nat /\ g[x] \in Nat /\ h[x] = f[x] + g[x]
    PROVE  SumOf(S, h) = SumOf(S, f) + SumOf(S, g)
<1> DEFINE Good == {T \in SUBSET S : SumOf(T, h) = SumOf(T, f) + SumOf(T, g)}
<1>1. {} \in Good
    BY SumOfNone
<1>2. ASSUME NEW T \in SUBSET S, NEW x \in S \ T, T \in Good
      PROVE  T \cup {x} \in Good
    <2>1. IsFiniteSet(T) /\ x \notin T /\ \A y \in T \cup {x} : f[y] \in Nat /\ g[y] \in Nat /\ h[y] \in Nat
        BY FS_Subset
    <2>2. SumOf(T \cup {x}, f) = SumOf(T, f) + f[x]
        BY <2>1, SumOfAdded
    <2>3. SumOf(T \cup {x}, g) = SumOf(T, g) + g[x]
        BY <2>1, SumOfAdded
    <2>4. SumOf(T \cup {x}, h) = SumOf(T, h) + h[x]
        BY <2>1, SumOfAdded
    <2>5. SumOf(T, f) \in Nat /\ SumOf(T, g) \in Nat
        BY <2>1, SumIsNat
    <2>6. SumOf(T, h) = SumOf(T, f) + SumOf(T, g) /\ h[x] = f[x] + g[x]
        BY <1>2
    <2> QED BY <2>1, <2>2, <2>3, <2>4, <2>5, <2>6
<1> HIDE DEF Good
<1>3. S \in Good
    BY <1>1, <1>2, EverySubset
<1> QED BY <1>3 DEF Good

(* The sum of ones. *)
LEMMA SumOfOnes ==
    ASSUME NEW S, IsFiniteSet(S), NEW f, \A x \in S : f[x] = 1
    PROVE  SumOf(S, f) = Cardinality(S)
<1> DEFINE g == [x \in S |-> <<x, 1>>]
<1>1. Units(S, f) = {<<x, 1>> : x \in S}
    BY DEF Units
<1>2. g \in Bijection(S, Units(S, f))
    BY <1>1 DEF Bijection, Injection, Surjection, IsInjective
<1>3. ExistsBijection(S, Units(S, f))
    BY <1>2 DEF ExistsBijection
<1> QED BY <1>3, FS_Bijection DEF SumOf

(* The sum of equal amounts. *)
LEMMA SumOfEqual ==
    ASSUME NEW S, IsFiniteSet(S), NEW k \in Nat, NEW f, \A x \in S : f[x] = k
    PROVE  SumOf(S, f) = Cardinality(S) * k
<1> DEFINE one == [x \in S |-> 1]
           F == SumOf(S, f)
           n == SumOf(S, one)
<1>1. \A x \in S : f[x] = k /\ one[x] = 1
    OBVIOUS
<1> HIDE DEF one
<1>2. n = Cardinality(S)
    BY <1>1, SumOfOnes
<1>3. F \in Nat /\ n \in Nat
    BY <1>1, SumIsNat
<1>4. 1 * F <= k * n
    <2>1. \A x \in S : f[x] \in Nat /\ one[x] \in Nat /\ 1 * f[x] <= k * one[x]
        BY <1>1
    <2> QED BY <2>1, SumOfShares
<1>5. k * n <= 1 * F
    <2>1. \A x \in S : f[x] \in Nat /\ one[x] \in Nat /\ k * one[x] <= 1 * f[x]
        BY <1>1
    <2> QED BY <2>1, SumOfShares
<1> HIDE DEF F, n
<1>6. F = n * k
    BY <1>3, <1>4, <1>5
<1> QED BY <1>2, <1>6 DEF F

-----------------------------------------------------------------------------
(* Payouts *)

(* The exact payout: the whole points of a stake's share of the pool. *)
LEMMA ExactPayout ==
    ASSUME NEW amount \in Nat, NEW totalPool \in Nat, NEW winningPool \in Nat,
           winningPool # 0
    PROVE  LET exact == (amount * totalPool) \div winningPool
           IN  /\ exact \in Nat
               /\ winningPool <= totalPool => exact >= amount
               /\ /\ winningPool < totalPool
                  /\ amount > 0
                  /\ (amount * totalPool) % winningPool = 0
                  => exact > amount
<1> DEFINE product == amount * totalPool
           stake == amount * winningPool
           exact == product \div winningPool
<1>1. product \in Nat /\ stake \in Nat
    OBVIOUS
<1>2. /\ winningPool <= totalPool => product >= stake
      /\ winningPool < totalPool /\ amount > 0 => product > stake
    OBVIOUS
<1>3. /\ exact \in Nat
      /\ (exact + 1) * winningPool > product
      /\ product % winningPool = 0 => exact * winningPool = product
    <2> HIDE DEF product
    <2> QED BY <1>1
<1> HIDE DEF product, exact
<1>4. ASSUME winningPool <= totalPool
      PROVE  exact >= amount
    <2>1. (exact + 1) * winningPool > amount * winningPool
        BY <1>1, <1>2, <1>3, <1>4 DEF stake
    <2>2. exact + 1 > amount
        BY <2>1, <1>3
    <2> QED BY <2>2, <1>3
<1>5. ASSUME winningPool < totalPool, amount > 0, product % winningPool = 0
      PROVE  exact > amount
    <2>1. exact * winningPool > amount * winningPool
        BY <1>1, <1>2, <1>3, <1>5 DEF stake
    <2> QED BY <2>1, <1>3
<1> QED BY <1>3, <1>4, <1>5 DEF exact, product

(* A payout is a number of points. *)
LEMMA PayoutIsNat ==
    ASSUME NEW amount \in Nat, NEW totalPool \in Nat, NEW winningPool \in Nat,
           winningPool # 0
    PROVE  CalculatePayout(amount, totalPool, winningPool) \in Nat
<1> DEFINE exact == (amount * totalPool) \div winningPool
           product == amount * totalPool
           args == <<amount, totalPool, winningPool>>
<1>1. exact \in Nat
    BY ExactPayout
<1>2. winningPool < totalPool /\ amount > 0 /\ product % winningPool = 0 => exact > amount
    BY ExactPayout
<1>3. CASE args \notin DOMAIN RatioError
    BY <1>1, <1>3 DEF CalculatePayout
<1>4. CASE args \in DOMAIN RatioError
    <2>1. \/ RatioError[args] = 1
          \/ /\ RatioError[args] = -1
             /\ winningPool < totalPool /\ amount > 0 /\ product % winningPool = 0
        BY <1>4, RatioErrorAssumption
    <2> HIDE DEF exact, product, args
    <2>2. RatioError[args] = -1 => exact > amount
        BY <2>1, <1>2
    <2>3. exact + RatioError[args] \in Nat
        BY <1>1, <2>1, <2>2
    <2> QED BY <1>4, <2>3 DEF CalculatePayout, exact, args
<1> QED BY <1>3, <1>4

(* A payout is at least the stake: the whole pool holds the winning one,    *)
(* and where rounding loses a point the exact payout is above the stake.    *)
LEMMA PayoutCoversStake ==
    ASSUME NEW amount \in Nat, NEW totalPool \in Nat, NEW winningPool \in Nat,
           winningPool # 0, winningPool <= totalPool
    PROVE  CalculatePayout(amount, totalPool, winningPool) >= amount
<1> DEFINE exact == (amount * totalPool) \div winningPool
           product == amount * totalPool
           args == <<amount, totalPool, winningPool>>
<1>1. exact \in Nat /\ exact >= amount
    BY ExactPayout
<1>2. winningPool < totalPool /\ amount > 0 /\ product % winningPool = 0 => exact > amount
    BY ExactPayout
<1>3. CASE args \notin DOMAIN RatioError
    BY <1>1, <1>3 DEF CalculatePayout
<1>4. CASE args \in DOMAIN RatioError
    <2>1. \/ RatioError[args] = 1
          \/ /\ RatioError[args] = -1
             /\ winningPool < totalPool /\ amount > 0 /\ product % winningPool = 0
        BY <1>4, RatioErrorAssumption
    <2> HIDE DEF exact, product, args
    <2>2. RatioError[args] = -1 => exact > amount
        BY <2>1, <1>2
    <2>3. exact + RatioError[args] >= amount
        BY <1>1, <2>1, <2>2
    <2> QED BY <1>4, <2>3 DEF CalculatePayout, exact, args
<1> QED BY <1>3, <1>4

-----------------------------------------------------------------------------
(* The write sets have the type of a write set *)

LEMMA NoWritesOK == WriteSetOK(NoWrites)
BY DEF WriteSetOK, NoWrites, RowsOf, NoRows

LEMMA UsedBetIdsAreBetIds ==
    ASSUME TypeOK
    PROVE  UsedBetIds \subseteq BetIds
BY DEF TypeOK, WriteSetOK, UsedBetIds, Bet

LEMMA FreshBetIdIsNew ==
    ASSUME TypeOK, BetIds # UsedBetIds
    PROVE  FreshBetId \in BetIds /\ FreshBetId \notin UsedBetIds
<1>1. \E id \in BetIds : id \notin UsedBetIds
    BY UsedBetIdsAreBetIds
<1> QED BY <1>1 DEF FreshBetId

LEMMA CreateBetWritesOK ==
    ASSUME TypeOK, NEW id \in BetIds, NEW u \in Users, NEW e \in Events, NEW o \in Options,
           NEW a \in Amounts, points[u] >= a
    PROVE  WriteSetOK(CreateBetWrites(id, u, e, o, a))
<1> DEFINE newPoints == points[u] - a
           w == CreateBetWrites(id, u, e, o, a)
<1>1. a \in Nat /\ -a \in Int /\ newPoints \in Nat
    BY AmountsAssumption DEF TypeOK
<1> HIDE DEF newPoints
<1>2. w = [NoWrites EXCEPT
            !.placed = {[id |-> id, user |-> u, event |-> e, option |-> o,
                         amount |-> a, status |-> "PENDING"]},
            !.points = [x \in {u} |-> newPoints],
            !.ledger = [x \in {u} |-> [bet |-> id, change |-> -a,
                                       reason |-> "BET", after |-> newPoints]],
            !.staked = [x \in {o} |-> a]]
    BY DEF CreateBetWrites, newPoints
<1>3. WriteSetOK(w)
    BY <1>1, <1>2 DEF WriteSetOK, NoWrites, RowsOf, NoRows, Bet, BetStatus,
        PointHistory, PointReason
<1> QED BY <1>3

LEMMA CreditOK ==
    ASSUME TypeOK, NEW B \in SUBSET bets, NEW sum, \A b \in B : sum[b] \in Nat,
           NEW reason \in PointReason
    PROVE  WriteSetOK(Credit(B, sum, reason))
<1> DEFINE owners == {b.user : b \in B}
           bet == [u \in owners |-> CHOOSE b \in B : b.user = u]
           after == [u \in owners |-> points[u] + sum[bet[u]]]
           rows == [u \in owners |-> [bet |-> bet[u].id, change |-> sum[bet[u]],
                                      reason |-> reason, after |-> after[u]]]
<1>1. B \subseteq Bet /\ owners \subseteq Users
    BY DEF TypeOK, Bet
<1>2. \A u \in owners : bet[u] \in B
    OBVIOUS
<1>3. \A u \in owners : bet[u].id \in BetIds /\ sum[bet[u]] \in Nat
    BY <1>1, <1>2 DEF Bet
<1>4. DOMAIN after = owners /\ \A u \in owners : after[u] \in Nat
    BY <1>1, <1>3 DEF TypeOK
<1> HIDE DEF bet, after
<1>5. DOMAIN rows = owners /\ \A u \in owners : rows[u] \in PointHistory
    BY <1>3, <1>4 DEF PointHistory
<1>6. Credit(B, sum, reason) = [NoWrites EXCEPT !.points = after, !.ledger = rows]
    BY DEF Credit, bet, after
<1> HIDE DEF owners, rows
<1> QED BY <1>1, <1>4, <1>5, <1>6 DEF WriteSetOK, NoWrites, RowsOf, NoRows

LEMMA MarkedOK ==
    ASSUME TypeOK, NEW B \in SUBSET bets, NEW new, \A b \in B : new[b] \in BetStatus
    PROVE  RowsOf(Marked(B, new), BetIds, BetStatus)
<1> DEFINE dirty == {b \in B : b.status # new[b]}
<1>1. \A id \in {b.id : b \in dirty} : id \in BetIds
    BY DEF TypeOK, Bet
<1>2. \A id \in {b.id : b \in dirty} : (CHOOSE b \in dirty : b.id = id) \in dirty
    OBVIOUS
<1> QED BY <1>1, <1>2 DEF RowsOf, Marked

LEMMA ProcessRefundOK ==
    ASSUME TypeOK, NEW B \in SUBSET bets
    PROVE  WriteSetOK(ProcessRefund(B))
<1> DEFINE credit == Credit(B, [b \in B |-> b.amount], "REFUND")
           marked == Marked(B, [b \in B |-> "REFUNDED"])
<1>1. WriteSetOK(credit)
    <2>1. \A b \in B : b.amount \in Nat
        BY AmountsAssumption DEF TypeOK, Bet
    <2> QED BY <2>1, CreditOK DEF PointReason
<1>2. RowsOf(marked, BetIds, BetStatus)
    BY MarkedOK DEF BetStatus
<1>3. ProcessRefund(B) = [credit EXCEPT !.betStatus = marked]
    BY DEF ProcessRefund
<1> HIDE DEF credit, marked
<1> QED BY <1>1, <1>2, <1>3 DEF WriteSetOK, NoWrites

LEMMA ProcessPayoutOK ==
    ASSUME TypeOK, NEW B \in SUBSET bets, NEW winners,
           NEW totalPool \in Nat, NEW winningPool \in Nat, winningPool # 0
    PROVE  WriteSetOK(ProcessPayout(B, winners, totalPool, winningPool))
<1> DEFINE hits == {b \in B : b.option \in winners}
           sum == [b \in hits |-> CalculatePayout(b.amount, totalPool, winningPool)]
           outcome == [b \in B |-> IF b \in hits THEN "WIN" ELSE "LOSE"]
           credit == Credit(hits, sum, "WIN")
           marked == Marked(B, outcome)
<1>1. WriteSetOK(credit)
    <2>1. \A b \in hits : b.amount \in Nat
        BY AmountsAssumption DEF TypeOK, Bet
    <2>2. \A b \in hits : sum[b] \in Nat
        BY <2>1, PayoutIsNat
    <2> HIDE DEF sum
    <2> QED BY <2>2, CreditOK DEF PointReason
<1>2. RowsOf(marked, BetIds, BetStatus)
    BY MarkedOK DEF BetStatus
<1>3. ProcessPayout(B, winners, totalPool, winningPool)
        = [credit EXCEPT !.betStatus = marked]
    BY DEF ProcessPayout
<1> HIDE DEF credit, marked
<1> QED BY <1>1, <1>2, <1>3 DEF WriteSetOK, NoWrites

(* The two pools of RunSettle are numbers of points. *)
LEMMA PoolIsNat ==
    ASSUME TypeOK, NEW S \in SUBSET Options
    PROVE  SumOf(S, optionTotal) \in Nat
<1>1. IsFiniteSet(S)
    BY OptionsAssumption, FS_Subset
<1> QED BY <1>1, SumIsNat DEF TypeOK

LEMMA RunSettleOK ==
    ASSUME TypeOK, NEW e \in Events, NEW winners
    PROVE  WriteSetOK(RunSettle(e, winners))
<1> DEFINE totalPool == SumOf(OptionsOf(e), optionTotal)
           winningPool == SumOf(OptionsOf(e) \cap winners, optionTotal)
           paid == IF winningPool = 0
                   THEN ProcessRefund(BetsOn(e))
                   ELSE ProcessPayout(BetsOn(e), winners, totalPool, winningPool)
           dirty == {o \in OptionsOf(e) : winner[o] # Verdict(o, winners)}
           verdicts == [o \in dirty |-> Verdict(o, winners)]
           settled == [x \in {e} |-> [to |-> "SETTLED", from |-> EventStatus]]
<1>1. totalPool \in Nat /\ winningPool \in Nat
    BY PoolIsNat DEF OptionsOf
<1>2. WriteSetOK(paid)
    <2> HIDE DEF totalPool, winningPool
    <2>1. BetsOn(e) \subseteq bets
        BY DEF BetsOn
    <2> QED BY <1>1, <2>1, ProcessRefundOK, ProcessPayoutOK
<1>3. RowsOf(verdicts, Options, IsWinner)
    BY DEF RowsOf, OptionsOf, Verdict, IsWinner
<1>4. RowsOf(settled, Events, StatusUpdate)
    BY DEF RowsOf, StatusUpdate, EventStatus
<1>5. RunSettle(e, winners) = [paid EXCEPT !.winner = verdicts, !.status = settled]
    BY DEF RunSettle
<1> HIDE DEF paid, verdicts, settled
<1> QED BY <1>2, <1>3, <1>4, <1>5 DEF WriteSetOK, NoWrites

LEMMA UpdateEventStatusWritesOK ==
    ASSUME TypeOK, NEW e \in Events, NEW new \in EventStatus
    PROVE  WriteSetOK(UpdateEventStatusWrites(e, new))
<1> DEFINE paid == IF new = "CANCELLED" THEN ProcessRefund(BetsOn(e)) ELSE NoWrites
           updated == [x \in {e} |-> [to |-> new, from |-> EventStatus]]
<1>1. WriteSetOK(paid)
    BY NoWritesOK, ProcessRefundOK DEF BetsOn
<1>2. RowsOf(updated, Events, StatusUpdate)
    BY DEF RowsOf, StatusUpdate
<1>3. UpdateEventStatusWrites(e, new) = [paid EXCEPT !.status = updated]
    BY DEF UpdateEventStatusWrites
<1> HIDE DEF paid, updated
<1> QED BY <1>1, <1>2, <1>3 DEF WriteSetOK, NoWrites

-----------------------------------------------------------------------------
(* Type correctness *)

LEMMA InitType == Init => TypeOK
<1> SUFFICES ASSUME Init PROVE TypeOK
    OBVIOUS
<1>1. \A s \in Sessions : WriteSetOK(txn[s])
    BY NoWritesOK DEF Init
<1>2. ledger \in [Users -> Seq(PointHistory)]
    BY DEF Init
<1> QED BY <1>1, <1>2, AmountsAssumption DEF Init, TypeOK, EventStatus, IsWinner

LEMMA BeginType ==
    ASSUME TypeOK, NEW s \in Sessions, NEW w, WriteSetOK(w), Begin(s, w)
    PROVE  TypeOK'
<1>1. DOMAIN txn' = Sessions /\ \A t \in Sessions : WriteSetOK(txn'[t])
    BY DEF Begin, TypeOK
<1> QED BY <1>1 DEF Begin, dbVars, TypeOK, WriteSetOK

LEMMA ApplyType ==
    ASSUME TypeOK, NEW s \in Sessions, Apply(txn[s]), txn' = [txn EXCEPT ![s] = NoWrites]
    PROVE  TypeOK'
<1> DEFINE w == txn[s]
<1>1. WriteSetOK(w)
    BY DEF TypeOK
<1>2. points' \in [Users -> Nat]
    BY <1>1 DEF Apply, Overwrite, TypeOK, WriteSetOK, RowsOf
<1>3. ledger' \in [Users -> Seq(PointHistory)]
    BY <1>1 DEF Apply, TypeOK, WriteSetOK, RowsOf
<1>4. bets' \subseteq Bet
    <2>1. ASSUME NEW b \in bets PROVE [b EXCEPT !.status = NewBetStatus(b, w)] \in Bet
        <3>1. b \in Bet
            BY DEF TypeOK
        <3>2. NewBetStatus(b, w) \in BetStatus
            BY <1>1, <3>1 DEF NewBetStatus, WriteSetOK, RowsOf, Bet
        <3> QED BY <3>1, <3>2 DEF Bet
    <2> QED BY <1>1, <2>1 DEF Apply, WriteSetOK
<1>5. optionTotal' \in [Options -> Nat] /\ participants' \in [Options -> Nat]
    BY <1>1, AmountsAssumption DEF Apply, TypeOK, WriteSetOK, RowsOf
<1>6. winner' \in [Options -> IsWinner]
    BY <1>1 DEF Apply, Overwrite, TypeOK, WriteSetOK, RowsOf
<1>7. status' \in [Events -> EventStatus]
    BY <1>1 DEF Apply, TypeOK, WriteSetOK, RowsOf, StatusUpdate
<1>8. eligible' \in [Events -> BOOLEAN]
    BY DEF Apply, TypeOK
<1>9. DOMAIN txn' = Sessions /\ \A t \in Sessions : WriteSetOK(txn'[t])
    BY NoWritesOK DEF TypeOK
<1> QED BY <1>2, <1>3, <1>4, <1>5, <1>6, <1>7, <1>8, <1>9 DEF TypeOK, WriteSetOK

LEMMA CommitType ==
    ASSUME TypeOK, NEW s \in Sessions, Commit(s)
    PROVE  TypeOK'
BY ApplyType DEF Commit

LEMMA NextType == TypeOK /\ [Next]_vars => TypeOK'
<1> SUFFICES ASSUME TypeOK, [Next]_vars PROVE TypeOK'
    OBVIOUS
<1>1. ASSUME NEW s \in Sessions, NEW u \in Users, NEW e \in Events, NEW o \in Options,
             NEW a \in Amounts, CreateBet(s, u, e, o, a)
      PROVE  TypeOK'
    BY <1>1, CreateBetWritesOK, FreshBetIdIsNew, BeginType DEF CreateBet
<1>2. ASSUME NEW s \in Sessions, NEW e \in Events, NEW winners, SettleEvent(s, e, winners)
      PROVE  TypeOK'
    BY <1>2, RunSettleOK, BeginType DEF SettleEvent
<1>3. ASSUME NEW s \in Sessions, NEW e \in Events, NEW new \in EventStatus,
             UpdateEventStatus(s, e, new)
      PROVE  TypeOK'
    BY <1>3, UpdateEventStatusWritesOK, BeginType DEF UpdateEventStatus
<1>4. ASSUME NEW s \in Sessions, NEW e \in Events, AutoOpen(s, e) \/ AutoClose(s, e)
      PROVE  TypeOK'
    <2>1. PICK to, from \in EventStatus :
             /\ to \in EventStatus
             /\ Begin(s, [NoWrites EXCEPT
                    !.status = [x \in {e} |-> [to |-> to, from |-> {from}]]])
        BY <1>4 DEF AutoOpen, AutoClose, UpdateEventStatusAuto, EventStatus
    <2>2. WriteSetOK([NoWrites EXCEPT
                    !.status = [x \in {e} |-> [to |-> to, from |-> {from}]]])
        BY <2>1 DEF WriteSetOK, NoWrites, RowsOf, NoRows, StatusUpdate
    <2> QED BY <2>1, <2>2, BeginType
<1>5. ASSUME NEW s \in Sessions, NEW selected \in SUBSET Events,
             ProcessEventSelection(s, selected)
      PROVE  TypeOK'
    <2>1. WriteSetOK([NoWrites EXCEPT !.eligible = selected])
        BY DEF WriteSetOK, NoWrites, RowsOf, NoRows
    <2> QED BY <1>5, <2>1, BeginType DEF ProcessEventSelection
<1>6. ASSUME NEW s \in Sessions, Commit(s)
      PROVE  TypeOK'
    BY <1>6, CommitType
<1>7. ASSUME NEW s \in Sessions, Abort(s)
      PROVE  TypeOK'
    <2>1. DOMAIN txn' = Sessions /\ \A t \in Sessions : WriteSetOK(txn'[t])
        BY <1>7, NoWritesOK DEF Abort, TypeOK
    <2> QED BY <1>7, <2>1 DEF Abort, dbVars, TypeOK, WriteSetOK
<1>8. CASE UNCHANGED vars
    BY <1>8 DEF vars, dbVars, TypeOK, WriteSetOK
<1> QED BY <1>1, <1>2, <1>3, <1>4, <1>5, <1>6, <1>7, <1>8 DEF Next

(* Every column and every write in flight keeps its type: in particular no  *)
(* interleaving of create_bet, settle_event and update_event_status makes   *)
(* users.points negative, although none of them locks the row it read.      *)
THEOREM TypeCorrect == Spec => []TypeOK
<1>1. Init => TypeOK
    BY InitType
<1>2. TypeOK /\ [Next]_vars => TypeOK'
    BY NextType
<1> QED BY <1>1, <1>2, PTL DEF Spec

-----------------------------------------------------------------------------
(* The handlers: what each write set contains *)

LEMMA NoWritesFit ==
    /\ PlacesBet(NoWrites) /\ WritesHistory(NoWrites)
    /\ MarksBets(NoWrites) /\ EndsEvent(NoWrites)
BY DEF NoWrites, NoRows, PlacesBet, WritesHistory, MarksBets, EndsEvent

Fits(w) == PlacesBet(w) /\ WritesHistory(w) /\ MarksBets(w) /\ EndsEvent(w)

LEMMA BeginKeepsIInv ==
    ASSUME IInv, NEW s \in Sessions, NEW w, WriteSetOK(w), Fits(w),
           \A b \in w.placed : b.id \notin UsedBetIds,
           Begin(s, w)
    PROVE  IInv'
<1> USE DEF Begin, dbVars
<1>1. \A t \in Sessions : txn'[t] = IF t = s THEN w ELSE txn[t]
    BY DEF IInv, TypeOK
<1>2. TypeOK'
    BY BeginType DEF IInv
<1>3. UniqueIds'
    <2>1. \A b \in w.placed : \A t \in Sessions : \A c \in txn[t].placed : b.id # c.id
        BY DEF UsedBetIds
    <2>2. \A b \in w.placed : \A c \in bets : b.id # c.id
        BY DEF UsedBetIds
    <2> QED BY <1>1, <2>1, <2>2 DEF IInv, UniqueIds
<1>4. RowsBelongToBets'
    BY DEF IInv, RowsBelongToBets, RowMatches
<1>5. InFlightOK'
    BY <1>1 DEF IInv, InFlightOK, Fits, PlacesBet, WritesHistory, MarksBets, EndsEvent, HasRow,
        RowMatches, OptionsOf
<1>6. OneBetPerUserAndEvent'
    BY DEF IInv, OneBetPerUserAndEvent
<1>7. UnopenedEventsHaveNoBets'
    BY <1>1 DEF IInv, UnopenedEventsHaveNoBets, Fits, PlacesBet, BetsOn
<1>8. SettledEventsAreDecided'
    BY DEF IInv, SettledEventsAreDecided, OptionsOf
<1>9. HistoryExplainsBets'
    BY DEF IInv, HistoryExplainsBets, Rows
<1>10. BalanceIsNewestRow'
    BY DEF IInv, BalanceIsNewestRow
<1> QED BY <1>2, <1>3, <1>4, <1>5, <1>6, <1>7, <1>8, <1>9, <1>10 DEF IInv

LEMMA CreateBetKeepsIInv ==
    ASSUME IInv, NEW s \in Sessions, NEW u \in Users, NEW e \in Events, NEW o \in Options,
           NEW a \in Amounts, CreateBet(s, u, e, o, a)
    PROVE  IInv'
<1> DEFINE id == FreshBetId
           newPoints == points[u] - a
           bet == [id |-> id, user |-> u, event |-> e, option |-> o,
                   amount |-> a, status |-> "PENDING"]
           row == [bet |-> id, change |-> -a, reason |-> "BET", after |-> newPoints]
           w == CreateBetWrites(id, u, e, o, a)
<1>1. TypeOK /\ status[e] = "OPEN" /\ Begin(s, w)
    BY DEF IInv, CreateBet
<1>2. WriteSetOK(w)
    BY <1>1, CreateBetWritesOK, FreshBetIdIsNew DEF CreateBet
<1>3. id \notin UsedBetIds
    BY <1>1, FreshBetIdIsNew DEF CreateBet
<1>4. w = [NoWrites EXCEPT !.placed = {bet}, !.points = [x \in {u} |-> newPoints],
                           !.ledger = [x \in {u} |-> row], !.staked = [x \in {o} |-> a]]
    BY DEF CreateBetWrites
<1> HIDE DEF id, newPoints, w
<1>5. /\ w.placed = {bet} /\ w.points = [x \in {u} |-> newPoints]
      /\ w.ledger = [x \in {u} |-> row] /\ w.staked = [x \in {o} |-> a]
      /\ w.betStatus = NoRows /\ w.status = NoRows /\ w.winner = NoRows
    BY <1>4 DEF NoWrites
<1>6. Fits(w)
    BY <1>1, <1>5 DEF Fits, NoRows, PlacesBet, WritesHistory, MarksBets, EndsEvent, HasRow,
        RowMatches
<1>7. \A b \in w.placed : b.id \notin UsedBetIds
    BY <1>3, <1>5
<1> QED BY <1>1, <1>2, <1>6, <1>7, BeginKeepsIInv

(* The write set w pays sum[b] to the user of each bet b of B. *)
Pays(w, B, sum, reason) ==
    /\ DOMAIN w.points = {b.user : b \in B}
    /\ DOMAIN w.ledger = {b.user : b \in B}
    /\ \A b \in B : /\ w.points[b.user] = w.ledger[b.user].after
                    /\ w.points[b.user] = points[b.user] + sum[b]
                    /\ w.ledger[b.user].bet = b.id
                    /\ w.ledger[b.user].reason = reason
                    /\ w.ledger[b.user].change = sum[b]
    /\ w.placed = {} /\ w.staked = NoRows /\ w.winner = NoRows /\ w.status = NoRows

LEMMA CreditPays ==
    ASSUME IInv, NEW e \in Events, NEW B \in SUBSET BetsOn(e), NEW sum, NEW reason
    PROVE  Pays(Credit(B, sum, reason), B, sum, reason)
<1> DEFINE owners == {b.user : b \in B}
           bet == [u \in owners |-> CHOOSE b \in B : b.user = u]
           after == [u \in owners |-> points[u] + sum[bet[u]]]
           rows == [u \in owners |-> [bet |-> bet[u].id, change |-> sum[bet[u]],
                                      reason |-> reason, after |-> after[u]]]
<1>1. \A b \in B : bet[b.user] = b
    <2>1. \A b, c \in B : b.user = c.user => b = c
        BY DEF IInv, OneBetPerUserAndEvent, BetsOn
    <2> QED BY <2>1
<1>2. Credit(B, sum, reason) = [NoWrites EXCEPT !.points = after, !.ledger = rows]
    BY DEF Credit
<1>3. \A b \in B : /\ rows[b.user].bet = b.id /\ rows[b.user].change = sum[b]
                   /\ rows[b.user].reason = reason /\ rows[b.user].after = after[b.user]
                   /\ after[b.user] = points[b.user] + sum[b]
    BY <1>1
<1>4. DOMAIN after = owners /\ DOMAIN rows = owners
    OBVIOUS
<1> HIDE DEF after, rows
<1> QED BY <1>2, <1>3, <1>4 DEF NoWrites, Pays

(* Marked writes the bets whose status changes, and nothing else. *)
LEMMA MarkedBets ==
    ASSUME IInv, NEW B, B \subseteq bets, NEW new
    PROVE  /\ \A id \in DOMAIN Marked(B, new) : \E b \in B : b.id = id
           /\ \A b \in bets : b.id \in DOMAIN Marked(B, new) =>
                 b \in B /\ Marked(B, new)[b.id] = new[b]
<1> DEFINE dirty == {b \in B : b.status # new[b]}
<1>1. \A b, c \in bets : b.id = c.id => b = c
    BY DEF IInv, UniqueIds
<1>2. DOMAIN Marked(B, new) = {b.id : b \in dirty}
    BY DEF Marked
<1>3. ASSUME NEW b \in bets, b.id \in DOMAIN Marked(B, new)
      PROVE  b \in B /\ Marked(B, new)[b.id] = new[b]
    <2>1. b \in dirty
        BY <1>1, <1>2, <1>3
    <2>2. (CHOOSE c \in dirty : c.id = b.id) = b
        BY <1>1, <2>1
    <2> QED BY <1>2, <1>3, <2>1, <2>2 DEF Marked
<1> QED BY <1>2, <1>3

LEMMA ProcessRefundFits ==
    ASSUME IInv, NEW e \in Events
    PROVE  /\ Fits(ProcessRefund(BetsOn(e)))
           /\ ProcessRefund(BetsOn(e)).placed = {}
           /\ ProcessRefund(BetsOn(e)).status = NoRows
           /\ ProcessRefund(BetsOn(e)).winner = NoRows
<1> DEFINE B == BetsOn(e)
           sum == [b \in B |-> b.amount]
           new == [b \in B |-> "REFUNDED"]
           credit == Credit(B, sum, "REFUND")
           marked == Marked(B, new)
           w == ProcessRefund(B)
<1>1. B \subseteq bets
    BY DEF BetsOn
<1>2. Pays(credit, B, sum, "REFUND")
    BY CreditPays
<1>3. /\ \A id \in DOMAIN marked : \E b \in B : b.id = id
      /\ \A b \in bets : b.id \in DOMAIN marked => b \in B /\ marked[b.id] = "REFUNDED"
    <2>1. \A b \in B : new[b] = "REFUNDED"
        OBVIOUS
    <2> HIDE DEF B, new
    <2>2. \A id \in DOMAIN marked : \E b \in B : b.id = id
        BY <1>1, MarkedBets
    <2>3. \A b \in bets : b.id \in DOMAIN marked => b \in B /\ marked[b.id] = new[b]
        BY <1>1, MarkedBets
    <2> QED BY <2>1, <2>2, <2>3
<1>4. w = [credit EXCEPT !.betStatus = marked]
    BY DEF ProcessRefund
<1>5. DOMAIN credit = DOMAIN NoWrites
    BY DEF Credit, NoWrites
<1>6. \A b \in B : sum[b] = b.amount
    OBVIOUS
<1> HIDE DEF B, sum, credit, marked, w
<1>7. w.betStatus = marked /\ Pays(w, B, sum, "REFUND")
    BY <1>2, <1>4, <1>5 DEF NoWrites, Pays
<1>8. PlacesBet(w) /\ EndsEvent(w)
    BY <1>7 DEF Pays, PlacesBet, EndsEvent, NoRows
<1>9. WritesHistory(w)
    <2>1. ASSUME NEW b \in B
          PROVE  /\ w.points[b.user] = w.ledger[b.user].after
                 /\ w.ledger[b.user].reason # "BET"
                 /\ RowMatches(w.ledger[b.user], b.user, b)
        BY <1>6, <1>7 DEF Pays, RowMatches
    <2> QED BY <1>1, <1>7, <2>1 DEF Pays, WritesHistory
<1>10. MarksBets(w)
    BY <1>1, <1>3, <1>7 DEF Pays, MarksBets, HasRow
<1> QED BY <1>7, <1>8, <1>9, <1>10 DEF Pays, Fits, B, w

LEMMA ProcessPayoutFits ==
    ASSUME IInv, NEW e \in Events, NEW winners,
           NEW totalPool \in Nat, NEW winningPool \in Nat,
           winningPool # 0, winningPool <= totalPool
    PROVE  LET w == ProcessPayout(BetsOn(e), winners, totalPool, winningPool)
           IN  Fits(w) /\ w.placed = {}
<1> DEFINE B == BetsOn(e)
           hits == {b \in B : b.option \in winners}
           sum == [b \in hits |-> CalculatePayout(b.amount, totalPool, winningPool)]
           new == [b \in B |-> IF b \in hits THEN "WIN" ELSE "LOSE"]
           credit == Credit(hits, sum, "WIN")
           marked == Marked(B, new)
           w == ProcessPayout(B, winners, totalPool, winningPool)
<1>1. B \subseteq bets /\ hits \subseteq B
    BY DEF BetsOn
<1>2. Pays(credit, hits, sum, "WIN")
    <2>1. hits \in SUBSET BetsOn(e)
        OBVIOUS
    <2> HIDE DEF hits, sum
    <2> QED BY <2>1, CreditPays
<1>3. /\ \A id \in DOMAIN marked : \E b \in B : b.id = id
      /\ \A b \in bets : b.id \in DOMAIN marked =>
            b \in B /\ marked[b.id] = IF b \in hits THEN "WIN" ELSE "LOSE"
    <2>1. \A b \in B : new[b] = IF b \in hits THEN "WIN" ELSE "LOSE"
        OBVIOUS
    <2> HIDE DEF B, new, hits
    <2>2. \A id \in DOMAIN marked : \E b \in B : b.id = id
        BY <1>1, MarkedBets
    <2>3. \A b \in bets : b.id \in DOMAIN marked => b \in B /\ marked[b.id] = new[b]
        BY <1>1, MarkedBets
    <2> QED BY <2>1, <2>2, <2>3
<1>4. w = [credit EXCEPT !.betStatus = marked]
    BY DEF ProcessPayout
<1>5. DOMAIN credit = DOMAIN NoWrites
    BY DEF Credit, NoWrites
<1>6. \A b \in hits : sum[b] >= b.amount
    <2>1. \A b \in hits : b.amount \in Nat
        BY AmountsAssumption DEF IInv, TypeOK, Bet, BetsOn
    <2> QED BY <2>1, PayoutCoversStake
<1> HIDE DEF B, hits, sum, credit, marked, w
<1>7. w.betStatus = marked /\ Pays(w, hits, sum, "WIN")
    BY <1>2, <1>4, <1>5 DEF NoWrites, Pays
<1>8. PlacesBet(w) /\ EndsEvent(w)
    BY <1>7 DEF Pays, PlacesBet, EndsEvent, NoRows
<1>9. WritesHistory(w)
    <2>1. ASSUME NEW b \in hits
          PROVE  /\ w.points[b.user] = w.ledger[b.user].after
                 /\ w.ledger[b.user].reason # "BET"
                 /\ RowMatches(w.ledger[b.user], b.user, b)
        BY <1>6, <1>7 DEF Pays, RowMatches
    <2> QED BY <1>1, <1>7, <2>1 DEF Pays, WritesHistory
<1>10. MarksBets(w)
    BY <1>1, <1>3, <1>7 DEF Pays, MarksBets, HasRow
<1> QED BY <1>7, <1>8, <1>9, <1>10 DEF Pays, Fits, B, w

LEMMA SettleEventKeepsIInv ==
    ASSUME IInv, NEW s \in Sessions, NEW e \in Events, NEW winners, SettleEvent(s, e, winners)
    PROVE  IInv'
<1> DEFINE totalPool == SumOf(OptionsOf(e), optionTotal)
           winningPool == SumOf(OptionsOf(e) \cap winners, optionTotal)
           paid == IF winningPool = 0
                   THEN ProcessRefund(BetsOn(e))
                   ELSE ProcessPayout(BetsOn(e), winners, totalPool, winningPool)
           dirty == {o \in OptionsOf(e) : winner[o] # Verdict(o, winners)}
           verdicts == [o \in dirty |-> Verdict(o, winners)]
           settled == [x \in {e} |-> [to |-> "SETTLED", from |-> EventStatus]]
           w == RunSettle(e, winners)
<1>1. TypeOK /\ Begin(s, w)
    BY DEF IInv, SettleEvent
<1>2. totalPool \in Nat /\ winningPool \in Nat /\ winningPool <= totalPool
    <2>1. OptionsOf(e) \in SUBSET Options /\ OptionsOf(e) \cap winners \in SUBSET OptionsOf(e)
        BY DEF OptionsOf
    <2>2. IsFiniteSet(OptionsOf(e))
        BY <2>1, OptionsAssumption, FS_Subset
    <2>3. \A o \in OptionsOf(e) : optionTotal[o] \in Nat
        BY <1>1, <2>1 DEF TypeOK
    <2> QED BY <1>1, <2>1, <2>2, <2>3, PoolIsNat, SumOfPart
<1>3. Fits(paid) /\ paid.placed = {}
    <2> HIDE DEF totalPool, winningPool
    <2> QED BY <1>2, ProcessRefundFits, ProcessPayoutFits
<1>4. DOMAIN paid = DOMAIN NoWrites
    BY DEF ProcessRefund, ProcessPayout, Credit, NoWrites
<1>5. w = [paid EXCEPT !.winner = verdicts, !.status = settled]
    BY DEF RunSettle
<1>6. /\ \A o \in DOMAIN verdicts : verdicts[o] # "NULL"
      /\ \A o \in OptionsOf(e) : o \in DOMAIN verdicts \/ winner[o] # "NULL"
    BY DEF Verdict
<1>7. DOMAIN settled = {e} /\ settled[e].to = "SETTLED"
    OBVIOUS
<1>8. WriteSetOK(w)
    BY <1>1, RunSettleOK
<1> HIDE DEF paid, verdicts, settled, w
<1>9. /\ w.placed = {} /\ w.points = paid.points /\ w.ledger = paid.ledger
      /\ w.betStatus = paid.betStatus /\ w.staked = paid.staked
      /\ w.winner = verdicts /\ w.status = settled
    BY <1>3, <1>4, <1>5 DEF NoWrites
<1>10. Fits(w)
    <2>1. PlacesBet(w) /\ WritesHistory(w) /\ MarksBets(w)
        BY <1>3, <1>9 DEF Fits, PlacesBet, WritesHistory, MarksBets, HasRow
    <2>2. EndsEvent(w)
        BY <1>6, <1>7, <1>9 DEF EndsEvent
    <2> QED BY <2>1, <2>2 DEF Fits
<1> QED BY <1>1, <1>8, <1>9, <1>10, BeginKeepsIInv

LEMMA UpdateEventStatusKeepsIInv ==
    ASSUME IInv, NEW s \in Sessions, NEW e \in Events, NEW new \in EventStatus,
           UpdateEventStatus(s, e, new)
    PROVE  IInv'
<1> DEFINE paid == IF new = "CANCELLED" THEN ProcessRefund(BetsOn(e)) ELSE NoWrites
           updated == [x \in {e} |-> [to |-> new, from |-> EventStatus]]
           w == UpdateEventStatusWrites(e, new)
<1>1. TypeOK /\ Begin(s, w) /\ new \in {"OPEN", "CLOSED", "CANCELLED"}
    BY DEF IInv, UpdateEventStatus, AllowedTransition
<1>2. Fits(paid) /\ paid.placed = {} /\ paid.winner = NoRows
    BY NoWritesFit, ProcessRefundFits DEF Fits, NoWrites
<1>3. DOMAIN paid = DOMAIN NoWrites
    BY DEF ProcessRefund, Credit, NoWrites
<1>4. w = [paid EXCEPT !.status = updated]
    BY DEF UpdateEventStatusWrites
<1>5. DOMAIN updated = {e} /\ updated[e].to = new
    OBVIOUS
<1>6. WriteSetOK(w)
    BY <1>1, UpdateEventStatusWritesOK
<1> HIDE DEF paid, updated, w
<1>7. /\ w.placed = {} /\ w.points = paid.points /\ w.ledger = paid.ledger
      /\ w.betStatus = paid.betStatus /\ w.staked = paid.staked
      /\ w.winner = NoRows /\ w.status = updated
    BY <1>2, <1>3, <1>4 DEF NoWrites
<1>8. Fits(w)
    <2>1. PlacesBet(w) /\ WritesHistory(w) /\ MarksBets(w)
        BY <1>2, <1>7 DEF Fits, PlacesBet, WritesHistory, MarksBets, HasRow
    <2>2. EndsEvent(w)
        BY <1>1, <1>5, <1>7 DEF EndsEvent, NoRows
    <2> QED BY <2>1, <2>2 DEF Fits
<1> QED BY <1>1, <1>6, <1>7, <1>8, BeginKeepsIInv

LEMMA AutoKeepsIInv ==
    ASSUME IInv, NEW s \in Sessions, NEW e \in Events, AutoOpen(s, e) \/ AutoClose(s, e)
    PROVE  IInv'
<1>1. PICK to, from \in EventStatus :
         /\ to \in {"OPEN", "CLOSED", "CANCELLED"}
         /\ Begin(s, [NoWrites EXCEPT !.status = [x \in {e} |-> [to |-> to, from |-> {from}]]])
    BY DEF AutoOpen, AutoClose, UpdateEventStatusAuto, EventStatus
<1> DEFINE updated == [x \in {e} |-> [to |-> to, from |-> {from}]]
           w == [NoWrites EXCEPT !.status = updated]
<1>2. WriteSetOK(w)
    BY <1>1 DEF WriteSetOK, NoWrites, RowsOf, NoRows, StatusUpdate
<1>3. Fits(w) /\ w.placed = {}
    <2>1. DOMAIN updated = {e} /\ updated[e].to = to
        OBVIOUS
    <2> HIDE DEF updated
    <2> QED BY <1>1, <2>1 DEF Fits, NoWrites, NoRows, PlacesBet, WritesHistory, MarksBets, EndsEvent
<1> HIDE DEF w
<1> QED BY <1>1, <1>2, <1>3, BeginKeepsIInv DEF w

LEMMA ProcessEventSelectionKeepsIInv ==
    ASSUME IInv, NEW s \in Sessions, NEW selected \in SUBSET Events,
           ProcessEventSelection(s, selected)
    PROVE  IInv'
<1> DEFINE w == [NoWrites EXCEPT !.eligible = selected]
<1>1. Begin(s, w)
    BY DEF ProcessEventSelection
<1>2. WriteSetOK(w)
    BY DEF WriteSetOK, NoWrites, RowsOf, NoRows
<1>3. Fits(w) /\ w.placed = {}
    BY DEF Fits, NoWrites, NoRows, PlacesBet, WritesHistory, MarksBets, EndsEvent
<1> HIDE DEF w
<1> QED BY <1>1, <1>2, <1>3, BeginKeepsIInv

-----------------------------------------------------------------------------
(* Commit *)

(* The row of b after the write set w is applied. *)
Updated(b, w) == [b EXCEPT !.status = NewBetStatus(b, w)]

LEMMA CommitFacts ==
    ASSUME IInv, NEW s \in Sessions, Commit(s)
    PROVE  /\ WriteSetOK(txn[s]) /\ Fits(txn[s]) /\ UniqueBets(txn[s].placed)
           /\ \A t \in Sessions : txn'[t] = IF t = s THEN NoWrites ELSE txn[t]
           /\ bets' = {Updated(b, txn[s]) : b \in bets} \cup txn[s].placed
BY DEF IInv, TypeOK, InFlightOK, Fits, Commit, Apply, Updated

(* A commit changes nothing of a bet but its status. *)
LEMMA UpdatedSame ==
    ASSUME IInv, NEW b \in bets, NEW w
    PROVE  LET c == Updated(b, w)
           IN  /\ c.id = b.id /\ c.user = b.user /\ c.event = b.event
               /\ c.option = b.option /\ c.amount = b.amount
               /\ c.status = NewBetStatus(b, w)
BY DEF IInv, TypeOK, Bet, Updated

LEMMA CommitUniqueIds ==
    ASSUME IInv, NEW s \in Sessions, Commit(s)
    PROVE  UniqueIds'
<1> DEFINE w == txn[s]
<1>1. /\ \A t \in Sessions : txn'[t] = IF t = s THEN NoWrites ELSE txn[t]
      /\ bets' = {Updated(b, w) : b \in bets} \cup w.placed
      /\ \A b, c \in w.placed : b = c
    BY CommitFacts DEF Fits, PlacesBet
<1>2. \A b \in bets : Updated(b, w).id = b.id
    BY UpdatedSame
<1>3. \A b, c \in bets' : b.id = c.id => b = c
    BY <1>1, <1>2 DEF IInv, UniqueIds
<1>4. ASSUME NEW t \in Sessions, NEW b \in txn'[t].placed
      PROVE  /\ \A c \in bets' : b.id # c.id
             /\ \A r \in Sessions : \A c \in txn'[r].placed : b.id = c.id => t = r
    <2>1. t # s /\ b \in txn[t].placed
        BY <1>1, <1>4 DEF NoWrites
    <2>2. \A r \in Sessions : txn'[r].placed \subseteq txn[r].placed
        BY <1>1 DEF NoWrites
    <2> QED BY <1>1, <1>2, <2>1, <2>2 DEF IInv, UniqueIds
<1> QED BY <1>3, <1>4 DEF UniqueIds

LEMMA CommitOneBet ==
    ASSUME IInv, NEW s \in Sessions, Commit(s)
    PROVE  OneBetPerUserAndEvent'
<1> DEFINE w == txn[s]
<1>1. /\ bets' = {Updated(b, w) : b \in bets} \cup w.placed
      /\ \A b, c \in w.placed : b = c
      /\ UniqueBets(w.placed)
    BY CommitFacts DEF Fits, PlacesBet
<1>2. \A b \in bets : Updated(b, w).user = b.user /\ Updated(b, w).event = b.event
    BY UpdatedSame
<1> QED BY <1>1, <1>2 DEF IInv, OneBetPerUserAndEvent, UniqueBets

LEMMA CommitStatus ==
    ASSUME IInv, NEW s \in Sessions, Commit(s), NEW e \in Events
    PROVE  /\ status'[e] = "READY" => status[e] = "READY"
           /\ status'[e] = "SETTLED" => \/ status[e] = "SETTLED"
                                        \/ /\ e \in DOMAIN txn[s].status
                                           /\ txn[s].status[e].to = "SETTLED"
BY CommitFacts DEF IInv, TypeOK, Commit, Apply, Fits, EndsEvent

LEMMA CommitUnopened ==
    ASSUME IInv, NEW s \in Sessions, Commit(s)
    PROVE  UnopenedEventsHaveNoBets'
<1> DEFINE w == txn[s]
<1> SUFFICES ASSUME NEW e \in Events, status'[e] = "READY"
             PROVE  /\ BetsOn(e)' = {}
                    /\ \A t \in Sessions : \A b \in txn'[t].placed : b.event # e
    BY DEF UnopenedEventsHaveNoBets
<1>1. /\ \A t \in Sessions : txn'[t] = IF t = s THEN NoWrites ELSE txn[t]
      /\ bets' = {Updated(b, w) : b \in bets} \cup w.placed
    BY CommitFacts
<1>2. status[e] = "READY"
    BY CommitStatus
<1>3. BetsOn(e) = {} /\ \A t \in Sessions : \A b \in txn[t].placed : b.event # e
    BY <1>2 DEF IInv, UnopenedEventsHaveNoBets
<1>4. \A b \in bets : Updated(b, w).event = b.event
    BY UpdatedSame
<1>5. BetsOn(e)' = {}
    BY <1>1, <1>3, <1>4 DEF BetsOn
<1> QED BY <1>1, <1>3, <1>5 DEF NoWrites

(* A verdict is never taken back. *)
LEMMA CommitWinner ==
    ASSUME IInv, NEW s \in Sessions, Commit(s), NEW o \in Options,
           winner[o] # "NULL" \/ o \in DOMAIN txn[s].winner
    PROVE  winner'[o] # "NULL"
BY CommitFacts DEF IInv, TypeOK, Commit, Apply, Overwrite, Fits, EndsEvent

LEMMA CommitDecided ==
    ASSUME IInv, NEW s \in Sessions, Commit(s)
    PROVE  SettledEventsAreDecided'
<1> SUFFICES ASSUME NEW e \in Events, status'[e] = "SETTLED", NEW o \in OptionsOf(e)
             PROVE  winner'[o] # "NULL"
    BY DEF SettledEventsAreDecided, OptionsOf
<1>1. o \in Options
    BY DEF OptionsOf
<1>2. winner[o] # "NULL" \/ o \in DOMAIN txn[s].winner
    BY CommitStatus, CommitFacts DEF IInv, SettledEventsAreDecided, Fits, EndsEvent
<1> QED BY <1>1, <1>2, CommitWinner

LEMMA CommitLedger ==
    ASSUME IInv, NEW s \in Sessions, Commit(s), NEW u \in Users
    PROVE  /\ ledger[u] \in Seq(PointHistory)
           /\ ledger'[u] = IF u \in DOMAIN txn[s].ledger
                           THEN Append(ledger[u], txn[s].ledger[u]) ELSE ledger[u]
           /\ u \in DOMAIN txn[s].ledger => txn[s].ledger[u] \in PointHistory
BY CommitFacts DEF IInv, TypeOK, Commit, Apply, WriteSetOK, RowsOf

(* The history of a user after the commit: the rows it had, then the row    *)
(* written, if there is one.                                                *)
LEMMA CommitRows ==
    ASSUME IInv, NEW s \in Sessions, Commit(s), NEW u \in Users
    PROVE  /\ \A i \in DOMAIN ledger[u] : i \in DOMAIN ledger'[u] /\ ledger'[u][i] = ledger[u][i]
           /\ \A i \in DOMAIN ledger'[u] :
                 \/ i \in DOMAIN ledger[u]
                 \/ /\ i = Len(ledger[u]) + 1
                    /\ u \in DOMAIN txn[s].ledger
                    /\ ledger'[u][i] = txn[s].ledger[u]
           /\ u \in DOMAIN txn[s].ledger =>
                 /\ Len(ledger[u]) + 1 \in DOMAIN ledger'[u]
                 /\ ledger'[u][Len(ledger[u]) + 1] = txn[s].ledger[u]
<1> DEFINE old == ledger[u]
           new == ledger'[u]
           row == txn[s].ledger[u]
<1>1. old \in Seq(PointHistory)
    BY CommitLedger
<1>2. CASE u \in DOMAIN txn[s].ledger
    <2>1. new = Append(old, row) /\ row \in PointHistory
        BY <1>2, CommitLedger
    <2> HIDE DEF old, new, row
    <2>2. /\ DOMAIN new = 1 .. Len(old) + 1 /\ DOMAIN old = 1 .. Len(old) /\ Len(old) \in Nat
          /\ \A i \in 1 .. Len(old) : new[i] = old[i]
          /\ new[Len(old) + 1] = row
        BY <1>1, <2>1
    <2>3. \A i \in 1 .. Len(old) + 1 : i \in 1 .. Len(old) \/ i = Len(old) + 1
        BY <2>2
    <2> QED BY <1>2, <2>2, <2>3 DEF old, new, row
<1>3. CASE u \notin DOMAIN txn[s].ledger
    BY <1>3, CommitLedger
<1> QED BY <1>2, <1>3

LEMMA CommitBalance ==
    ASSUME IInv, NEW s \in Sessions, Commit(s)
    PROVE  BalanceIsNewestRow'
<1> SUFFICES ASSUME NEW u \in Users
             PROVE  points'[u] = IF ledger'[u] = <<>> THEN InitialPoints
                                 ELSE ledger'[u][Len(ledger'[u])].after
    BY DEF BalanceIsNewestRow
<1> DEFINE w == txn[s]
<1>1. points'[u] = IF u \in DOMAIN w.points THEN w.points[u] ELSE points[u]
    BY DEF IInv, TypeOK, Commit, Apply, Overwrite
<1>2. DOMAIN w.points = DOMAIN w.ledger /\ \A v \in DOMAIN w.ledger : w.points[v] = w.ledger[v].after
    BY CommitFacts DEF Fits, WritesHistory
<1>3. CASE u \in DOMAIN w.ledger
    <2>1. ledger'[u] = Append(ledger[u], w.ledger[u])
        BY <1>3, CommitLedger
    <2>2. ledger'[u] # <<>> /\ ledger'[u][Len(ledger'[u])] = w.ledger[u]
        BY <1>3, <2>1, CommitLedger
    <2> QED BY <1>1, <1>2, <1>3, <2>2
<1>4. CASE u \notin DOMAIN w.ledger
    <2>1. ledger'[u] = ledger[u] /\ points'[u] = points[u]
        BY <1>1, <1>2, <1>4, CommitLedger
    <2> QED BY <2>1 DEF IInv, BalanceIsNewestRow
<1> QED BY <1>3, <1>4

(* A row keeps its bet. *)
LEMMA CommitRowMatches ==
    ASSUME IInv, NEW s \in Sessions, Commit(s), NEW r, NEW u,
           \/ \E b \in bets : RowMatches(r, u, b)
           \/ \E b \in txn[s].placed : RowMatches(r, u, b)
    PROVE  \E b \in bets' : RowMatches(r, u, b)
<1>1. CASE \E b \in bets : RowMatches(r, u, b)
    <2>1. PICK b \in bets : RowMatches(r, u, b)
        BY <1>1
    <2>2. RowMatches(r, u, Updated(b, txn[s]))
        BY <2>1, UpdatedSame DEF RowMatches
    <2> QED BY <2>2, CommitFacts
<1>2. CASE \E b \in txn[s].placed : RowMatches(r, u, b)
    BY <1>2, CommitFacts
<1> QED BY <1>1, <1>2

LEMMA CommitRowsBelong ==
    ASSUME IInv, NEW s \in Sessions, Commit(s)
    PROVE  RowsBelongToBets'
<1> SUFFICES ASSUME NEW u \in Users, NEW i \in DOMAIN ledger'[u]
             PROVE  \E b \in bets' : RowMatches(ledger'[u][i], u, b)
    BY DEF RowsBelongToBets, RowMatches
<1> DEFINE w == txn[s]
<1>1. CASE i \in DOMAIN ledger[u] /\ ledger'[u][i] = ledger[u][i]
    BY <1>1, CommitRowMatches DEF IInv, RowsBelongToBets
<1>2. CASE u \in DOMAIN w.ledger /\ ledger'[u][i] = w.ledger[u]
    <2>1. \/ \E b \in bets : RowMatches(w.ledger[u], u, b)
          \/ \E b \in w.placed : RowMatches(w.ledger[u], u, b)
        BY <1>2, CommitFacts DEF Fits, WritesHistory
    <2> QED BY <1>2, <2>1, CommitRowMatches
<1>3. \/ i \in DOMAIN ledger[u] /\ ledger'[u][i] = ledger[u][i]
      \/ u \in DOMAIN w.ledger /\ ledger'[u][i] = w.ledger[u]
    BY CommitRows
<1> QED BY <1>1, <1>2, <1>3

LEMMA CommitHistory ==
    ASSUME IInv, NEW s \in Sessions, Commit(s)
    PROVE  HistoryExplainsBets'
<1> DEFINE w == txn[s]
           RowsAfter(b, reason) == {i \in DOMAIN ledger'[b.user] :
               ledger'[b.user][i].bet = b.id /\ ledger'[b.user][i].reason = reason}
           Explained(b) ==
               /\ \E i \in RowsAfter(b, "BET") : /\ RowsAfter(b, "BET") = {i}
                                                 /\ ledger'[b.user][i].change = -b.amount
               /\ b.status = "WIN" => RowsAfter(b, "WIN") # {}
               /\ b.status = "REFUNDED" => RowsAfter(b, "REFUND") # {}
<1>1. Fits(w) /\ bets' = {Updated(b, w) : b \in bets} \cup w.placed
    BY CommitFacts
<1>2. ASSUME NEW c \in bets
      PROVE  Explained(Updated(c, w))
    <2> DEFINE b == Updated(c, w)
    <2>1. /\ b.id = c.id /\ b.user = c.user /\ b.amount = c.amount
          /\ b.status = NewBetStatus(c, w) /\ c.user \in Users
        BY UpdatedSame DEF IInv, TypeOK, Bet
    <2> HIDE DEF b
    <2>2. Rows(c, "BET") \subseteq RowsAfter(b, "BET")
        BY <2>1, CommitRows DEF Rows
    <2>3. RowsAfter(b, "BET") \subseteq Rows(c, "BET")
        <3>1. ASSUME NEW i \in RowsAfter(b, "BET"), i \notin DOMAIN ledger[c.user]
              PROVE  FALSE
            <4>1. c.user \in DOMAIN w.ledger /\ w.ledger[c.user].bet = c.id /\ w.ledger[c.user].reason = "BET"
                BY <2>1, <3>1, CommitRows
            <4>2. \E d \in w.placed : d.id = c.id
                BY <1>1, <4>1 DEF Fits, WritesHistory, RowMatches
            <4> QED BY <4>2 DEF IInv, UniqueIds
        <3> QED BY <2>1, <3>1, CommitRows DEF Rows
    <2>4. \E i \in RowsAfter(b, "BET") : /\ RowsAfter(b, "BET") = {i}
                                         /\ ledger'[b.user][i].change = -b.amount
        <3>1. PICK i \in Rows(c, "BET") : Rows(c, "BET") = {i} /\ ledger[c.user][i].change = -c.amount
            BY DEF IInv, HistoryExplainsBets
        <3>2. ledger'[b.user][i] = ledger[c.user][i]
            BY <2>1, CommitRows DEF Rows
        <3> QED BY <2>1, <2>2, <2>3, <3>1, <3>2
    <2>5. b.status = "WIN" => RowsAfter(b, "WIN") # {}
        <3>1. CASE c.id \in DOMAIN w.betStatus
            BY <1>1, <2>1, <3>1, CommitRows DEF Fits, MarksBets, HasRow, NewBetStatus
        <3>2. CASE c.id \notin DOMAIN w.betStatus
            BY <2>1, <3>2, CommitRows DEF NewBetStatus, IInv, HistoryExplainsBets, Rows
        <3> QED BY <3>1, <3>2
    <2>6. b.status = "REFUNDED" => RowsAfter(b, "REFUND") # {}
        <3>1. CASE c.id \in DOMAIN w.betStatus
            BY <1>1, <2>1, <3>1, CommitRows DEF Fits, MarksBets, HasRow, NewBetStatus
        <3>2. CASE c.id \notin DOMAIN w.betStatus
            BY <2>1, <3>2, CommitRows DEF NewBetStatus, IInv, HistoryExplainsBets, Rows
        <3> QED BY <3>1, <3>2
    <2> QED BY <2>4, <2>5, <2>6 DEF b
<1>3. ASSUME NEW b \in w.placed
      PROVE  Explained(b)
    <2> DEFINE n == Len(ledger[b.user]) + 1
    <2>1. b.user \in Users /\ b.status = "PENDING" /\ HasRow(w, b, "BET")
        BY <1>1, CommitFacts DEF Fits, PlacesBet, WriteSetOK, Bet
    <2>2. w.ledger[b.user].change = -b.amount
        <3>1. \E c \in w.placed : RowMatches(w.ledger[b.user], b.user, c)
            BY <1>1, <2>1 DEF Fits, WritesHistory, HasRow
        <3>2. \A c \in w.placed : c = b
            BY <1>1 DEF Fits, PlacesBet
        <3> QED BY <2>1, <3>1, <3>2 DEF RowMatches, HasRow
    <2>3. n \in RowsAfter(b, "BET") /\ ledger'[b.user][n].change = -b.amount
        BY <2>1, <2>2, CommitRows DEF HasRow
    <2>4. \A i \in DOMAIN ledger[b.user] : ledger[b.user][i].bet # b.id
        <3> SUFFICES ASSUME NEW i \in DOMAIN ledger[b.user], ledger[b.user][i].bet = b.id
                     PROVE  FALSE
            OBVIOUS
        <3>1. PICK c \in bets : RowMatches(ledger[b.user][i], b.user, c)
            BY <2>1 DEF IInv, RowsBelongToBets
        <3> QED BY <3>1 DEF RowMatches, IInv, UniqueIds
    <2>5. \A i \in RowsAfter(b, "BET") : i = n
        BY <2>1, <2>4, CommitRows
    <2> QED BY <2>1, <2>3, <2>5
<1> HIDE DEF Explained
<1>4. \A b \in bets' : Explained(b)
    BY <1>1, <1>2, <1>3
<1> QED BY <1>4 DEF Explained, HistoryExplainsBets, Rows

LEMMA CommitInFlight ==
    ASSUME IInv, NEW s \in Sessions, Commit(s)
    PROVE  InFlightOK'
<1> SUFFICES ASSUME NEW t \in Sessions
             PROVE  Fits(txn[t])'
    BY DEF InFlightOK, Fits
<1> DEFINE w == txn[t]
<1>1. CASE t = s
    <2>1. txn'[t] = NoWrites
        BY <1>1, CommitFacts
    <2> QED BY <2>1, NoWritesFit DEF Fits, NoWrites, NoRows, PlacesBet, WritesHistory, MarksBets, EndsEvent
<1>2. CASE t # s
    <2>1. txn'[t] = w /\ bets' = {Updated(b, txn[s]) : b \in bets} \cup txn[s].placed
        BY <1>2, CommitFacts
    <2>2. WriteSetOK(w) /\ Fits(w)
        BY DEF IInv, TypeOK, InFlightOK, Fits
    <2> HIDE DEF w
    <2>3. PlacesBet(txn[t])'
        <3>1. \A b \in w.placed : b.event \in Events
            BY <2>2 DEF WriteSetOK, Bet
        <3> QED BY <2>1, <2>2, <3>1, CommitStatus DEF Fits, PlacesBet, HasRow
    <2>4. WritesHistory(txn[t])'
        <3>1. \A r, u : (\E b \in bets : RowMatches(r, u, b)) => \E b \in bets' : RowMatches(r, u, b)
            BY CommitRowMatches
        <3>2. /\ DOMAIN w.points = DOMAIN w.ledger
              /\ \A u \in DOMAIN w.ledger :
                    /\ w.points[u] = w.ledger[u].after
                    /\ IF w.ledger[u].reason = "BET"
                       THEN \E b \in w.placed : RowMatches(w.ledger[u], u, b)
                       ELSE \E b \in bets' : RowMatches(w.ledger[u], u, b)
            BY <2>2, <3>1 DEF Fits, WritesHistory
        <3> QED BY <2>1, <3>2 DEF WritesHistory
    <2>5. MarksBets(txn[t])'
        <3>1. \A b \in bets : /\ Updated(b, txn[s]).id = b.id /\ Updated(b, txn[s]).user = b.user
                              /\ Updated(b, txn[s]) \in bets'
            BY <2>1, UpdatedSame
        <3>2. \A id \in DOMAIN w.betStatus : \E b \in bets' : b.id = id
            BY <2>2, <3>1 DEF Fits, MarksBets
        <3>3. \A b \in txn[s].placed : b.id \notin DOMAIN w.betStatus
            BY <2>2 DEF Fits, MarksBets, IInv, UniqueIds
        <3>4. \A b \in bets' : b.id \in DOMAIN w.betStatus =>
                  /\ w.betStatus[b.id] = "WIN" => HasRow(w, b, "WIN")
                  /\ w.betStatus[b.id] = "REFUNDED" => HasRow(w, b, "REFUND")
            BY <2>1, <2>2, <3>1, <3>3 DEF Fits, MarksBets, HasRow
        <3> QED BY <2>1, <3>2, <3>4 DEF MarksBets, HasRow
    <2>6. EndsEvent(txn[t])'
        <3>1. \A o \in Options : winner[o] # "NULL" => winner'[o] # "NULL"
            BY CommitWinner
        <3> QED BY <2>1, <2>2, <3>1 DEF Fits, EndsEvent, OptionsOf
    <2> QED BY <2>3, <2>4, <2>5, <2>6 DEF Fits
<1> QED BY <1>1, <1>2

LEMMA CommitKeepsIInv ==
    ASSUME IInv, NEW s \in Sessions, Commit(s)
    PROVE  IInv'
BY CommitType, CommitUniqueIds, CommitRowsBelong, CommitInFlight, CommitOneBet, CommitUnopened,
   CommitDecided, CommitHistory, CommitBalance DEF IInv

-----------------------------------------------------------------------------
(* Abort, and the invariant *)

LEMMA AbortKeepsIInv ==
    ASSUME IInv, NEW s \in Sessions, Abort(s)
    PROVE  IInv'
<1> USE DEF Abort, dbVars
<1>1. \A t \in Sessions : txn'[t] = IF t = s THEN NoWrites ELSE txn[t]
    BY DEF IInv, TypeOK
<1>2. TypeOK'
    BY <1>1, NoWritesOK DEF IInv, TypeOK, WriteSetOK
<1>3. UniqueIds'
    BY <1>1 DEF IInv, UniqueIds, NoWrites
<1>4. RowsBelongToBets'
    BY DEF IInv, RowsBelongToBets, RowMatches
<1>5. InFlightOK'
    BY <1>1, NoWritesFit DEF IInv, InFlightOK, PlacesBet, WritesHistory, MarksBets, EndsEvent, HasRow,
        RowMatches, OptionsOf
<1>6. OneBetPerUserAndEvent'
    BY DEF IInv, OneBetPerUserAndEvent
<1>7. UnopenedEventsHaveNoBets'
    BY <1>1 DEF IInv, UnopenedEventsHaveNoBets, NoWrites, BetsOn
<1>8. SettledEventsAreDecided'
    BY DEF IInv, SettledEventsAreDecided, OptionsOf
<1>9. HistoryExplainsBets'
    BY DEF IInv, HistoryExplainsBets, Rows
<1>10. BalanceIsNewestRow'
    BY DEF IInv, BalanceIsNewestRow
<1> QED BY <1>2, <1>3, <1>4, <1>5, <1>6, <1>7, <1>8, <1>9, <1>10 DEF IInv

LEMMA StutterKeepsIInv ==
    ASSUME IInv, UNCHANGED vars
    PROVE  IInv'
<1> USE DEF vars, dbVars
<1>1. TypeOK'
    BY DEF IInv, TypeOK, WriteSetOK
<1>2. UniqueIds' /\ RowsBelongToBets'
    BY DEF IInv, UniqueIds, RowsBelongToBets, RowMatches
<1>3. InFlightOK'
    BY DEF IInv, InFlightOK, PlacesBet, WritesHistory, MarksBets, EndsEvent, HasRow, RowMatches, OptionsOf
<1>4. OneBetPerUserAndEvent' /\ UnopenedEventsHaveNoBets' /\ SettledEventsAreDecided'
    BY DEF IInv, OneBetPerUserAndEvent, UnopenedEventsHaveNoBets, SettledEventsAreDecided, BetsOn, OptionsOf
<1>5. HistoryExplainsBets' /\ BalanceIsNewestRow'
    BY DEF IInv, HistoryExplainsBets, BalanceIsNewestRow, Rows
<1> QED BY <1>1, <1>2, <1>3, <1>4, <1>5 DEF IInv

LEMMA InitIInv == Init => IInv
<1> SUFFICES ASSUME Init PROVE IInv
    OBVIOUS
<1>1. TypeOK
    BY InitType
<1>2. bets = {} /\ \A s \in Sessions : txn[s] = NoWrites
    BY DEF Init
<1>3. UniqueIds /\ OneBetPerUserAndEvent /\ UnopenedEventsHaveNoBets /\ HistoryExplainsBets
    BY <1>2 DEF UniqueIds, OneBetPerUserAndEvent, UnopenedEventsHaveNoBets, HistoryExplainsBets,
        BetsOn, NoWrites
<1>4. InFlightOK
    BY <1>2, NoWritesFit DEF InFlightOK
<1>5. RowsBelongToBets /\ BalanceIsNewestRow
    BY DEF Init, RowsBelongToBets, BalanceIsNewestRow
<1>6. SettledEventsAreDecided
    BY DEF Init, SettledEventsAreDecided
<1> QED BY <1>1, <1>3, <1>4, <1>5, <1>6 DEF IInv

LEMMA NextIInv == IInv /\ [Next]_vars => IInv'
<1> SUFFICES ASSUME IInv, [Next]_vars PROVE IInv'
    OBVIOUS
<1>1. ASSUME NEW s \in Sessions, NEW u \in Users, NEW e \in Events, NEW o \in Options,
             NEW a \in Amounts, CreateBet(s, u, e, o, a)
      PROVE  IInv'
    BY <1>1, CreateBetKeepsIInv
<1>2. ASSUME NEW s \in Sessions, NEW e \in Events, NEW winners, SettleEvent(s, e, winners)
      PROVE  IInv'
    BY <1>2, SettleEventKeepsIInv
<1>3. ASSUME NEW s \in Sessions, NEW e \in Events, NEW new \in EventStatus,
             UpdateEventStatus(s, e, new)
      PROVE  IInv'
    BY <1>3, UpdateEventStatusKeepsIInv
<1>4. ASSUME NEW s \in Sessions, NEW e \in Events, AutoOpen(s, e) \/ AutoClose(s, e)
      PROVE  IInv'
    BY <1>4, AutoKeepsIInv
<1>5. ASSUME NEW s \in Sessions, NEW selected \in SUBSET Events, ProcessEventSelection(s, selected)
      PROVE  IInv'
    BY <1>5, ProcessEventSelectionKeepsIInv
<1>6. ASSUME NEW s \in Sessions, Commit(s)
      PROVE  IInv'
    BY <1>6, CommitKeepsIInv
<1>7. ASSUME NEW s \in Sessions, Abort(s)
      PROVE  IInv'
    BY <1>7, AbortKeepsIInv
<1>8. CASE UNCHANGED vars
    BY <1>8, StutterKeepsIInv
<1> QED BY <1>1, <1>2, <1>3, <1>4, <1>5, <1>6, <1>7, <1>8 DEF Next

(* IInv is an invariant of Betting. *)
THEOREM Invariance == Spec => []IInv
<1>1. Init => IInv
    BY InitIInv
<1>2. IInv /\ [Next]_vars => IInv'
    BY NextIInv
<1> QED BY <1>1, <1>2, PTL DEF Spec

(* However many requests race, the unique key of bets leaves each user at   *)
(* most one bet on an event (BetServices.create_bet, uq_user_event_bet).    *)
THEOREM OneBet == Spec => []OneBetPerUserAndEvent
<1>1. IInv => OneBetPerUserAndEvent
    BY DEF IInv
<1> QED BY <1>1, Invariance, PTL

(* The scheduler never cancels, without a refund, an event somebody bet on  *)
(* (EventServices.update_event_status_auto).                                *)
THEOREM Unopened == Spec => []UnopenedEventsHaveNoBets
<1>1. IInv => UnopenedEventsHaveNoBets
    BY DEF IInv
<1> QED BY <1>1, Invariance, PTL

(* A settled event shows a verdict on each option (SettlementEngine.run_settle). *)
THEOREM Decided == Spec => []SettledEventsAreDecided
<1>1. IInv => SettledEventsAreDecided
    BY DEF IInv
<1> QED BY <1>1, Invariance, PTL

(* Every bet has its one BET row, every won bet a WIN row and every refunded *)
(* bet a REFUND row, whatever snapshots the settlements read.               *)
THEOREM History == Spec => []HistoryExplainsBets
<1>1. IInv => HistoryExplainsBets
    BY DEF IInv
<1> QED BY <1>1, Invariance, PTL

(* users.points and the newest point_history row agree, although concurrent *)
(* requests may overwrite each other's points.                              *)
THEOREM Balance == Spec => []BalanceIsNewestRow
<1>1. IInv => BalanceIsNewestRow
    BY DEF IInv
<1> QED BY <1>1, Invariance, PTL

(* No WIN row is below its bet's stake, no REFUND row differs from it.      *)
THEOREM Credits == Spec => []CreditsCoverStakes
<1>1. IInv => CreditsCoverStakes
    <2> SUFFICES ASSUME IInv, NEW b \in bets
                 PROVE  /\ \A i \in Rows(b, "WIN") : ledger[b.user][i].change >= b.amount
                        /\ \A i \in Rows(b, "REFUND") : ledger[b.user][i].change = b.amount
        BY DEF CreditsCoverStakes
    <2>1. b.user \in Users
        BY DEF IInv, TypeOK, Bet
    <2>2. \A i \in DOMAIN ledger[b.user] :
              ledger[b.user][i].bet = b.id => RowMatches(ledger[b.user][i], b.user, b)
        BY <2>1 DEF IInv, RowsBelongToBets, UniqueIds, RowMatches
    <2> QED BY <2>2 DEF Rows, RowMatches
<1> QED BY <1>1, Invariance, PTL

-----------------------------------------------------------------------------
(* The statistics columns *)

(* Every step but a commit leaves the bets and the statistics alone. *)
LEMMA OnlyCommitWritesBets ==
    ASSUME [Next]_vars, \A s \in Sessions : ~ Commit(s)
    PROVE  UNCHANGED <<bets, optionTotal, participants>>
BY DEF Next, vars, dbVars, CreateBet, SettleEvent, UpdateEventStatus, AutoOpen, AutoClose,
    UpdateEventStatusAuto, ProcessEventSelection, Begin, Abort

LEMMA CommitTally ==
    ASSUME IInv, Tally, NEW s \in Sessions, Commit(s)
    PROVE  Tally'
<1> DEFINE w == txn[s]
<1>1. /\ WriteSetOK(w) /\ PlacesBet(w)
      /\ bets' = {Updated(b, w) : b \in bets} \cup w.placed
    BY CommitFacts DEF Fits
<1>2. IsFiniteSet(bets')
    <2> DEFINE update == [b \in bets |-> Updated(b, w)]
    <2>1. IsFiniteSet({update[b] : b \in bets})
        <3>1. update = [b \in bets |-> update[b]]
            OBVIOUS
        <3> HIDE DEF update
        <3> QED BY <3>1, ImageFinite DEF Tally
    <2>2. IsFiniteSet(w.placed)
        <3>1. w.placed = {} \/ \E b : w.placed = {b}
            BY <1>1 DEF PlacesBet
        <3> QED BY <3>1, FS_EmptySet, FS_Singleton
    <2>3. bets' = {update[b] : b \in bets} \cup w.placed
        BY <1>1
    <2> HIDE DEF update
    <2> QED BY <2>1, <2>2, <2>3, FS_Union
<1>3. ASSUME NEW o \in Options
      PROVE  /\ optionTotal'[o] = SumOf(BetsOf(o)', [b \in BetsOf(o)' |-> b.amount])
             /\ participants'[o] = Cardinality(BetsOf(o)')
    <2> DEFINE S == BetsOf(o)
               T == {Updated(b, w) : b \in S}
               update == [b \in S |-> Updated(b, w)]
               stake == [b \in S |-> b.amount]
               after == [b \in BetsOf(o)' |-> b.amount]
    <2>1. \A b \in bets : /\ Updated(b, w).option = b.option /\ Updated(b, w).id = b.id
                          /\ Updated(b, w).amount = b.amount
        BY UpdatedSame
    <2>2. BetsOf(o)' = T \cup {b \in w.placed : b.option = o}
        BY <1>1, <2>1 DEF BetsOf
    <2>3. IsFiniteSet(S)
        BY FS_Subset DEF Tally, BetsOf
    <2>4. \A b \in BetsOf(o)' : b.amount \in Nat
        <3>1. bets' \subseteq Bet
            BY CommitKeepsIInv DEF IInv, TypeOK
        <3> QED BY <3>1, AmountsAssumption DEF BetsOf, Bet
    <2>5. update \in Bijection(S, T)
        <3>1. \A b, c \in S : Updated(b, w) = Updated(c, w) => b = c
            BY <2>1 DEF IInv, UniqueIds, BetsOf
        <3> QED BY <3>1 DEF Bijection, Injection, Surjection, IsInjective
    <2>6. /\ SumOf(T, after) = SumOf(S, stake)
          /\ IsFiniteSet(T) /\ Cardinality(T) = Cardinality(S)
        <3>1. \A b \in S : stake[b] \in Nat /\ after[update[b]] = stake[b]
            BY <2>1, <2>2, <2>4 DEF BetsOf
        <3>2. ExistsBijection(S, T)
            BY <2>5 DEF ExistsBijection
        <3> HIDE DEF S, T, update, stake, after
        <3> QED BY <2>3, <2>5, <3>1, <3>2, SumOfRenamed, FS_Bijection
    <2>7. optionTotal[o] = SumOf(S, stake) /\ participants[o] = Cardinality(S)
        BY DEF Tally, OptionStatsTally
    <2>8. CASE \E p \in w.placed : p.option = o
        <3>1. PICK p \in w.placed : p.option = o
            BY <2>8
        <3>2. BetsOf(o)' = T \cup {p}
            BY <1>1, <2>2, <3>1 DEF PlacesBet
        <3>3. p \notin T
            BY <2>1, <3>1 DEF IInv, UniqueIds, BetsOf
        <3>4. o \in DOMAIN w.staked /\ w.staked[o] = p.amount
            BY <1>1, <3>1 DEF PlacesBet
        <3>5. /\ optionTotal'[o] = optionTotal[o] + p.amount
              /\ participants'[o] = participants[o] + 1
            BY <3>4 DEF Commit, Apply
        <3>6. after[p] = p.amount /\ \A b \in T \cup {p} : after[b] \in Nat
            BY <2>4, <3>2
        <3> HIDE DEF S, T, update, stake, after
        <3>7. SumOf(T \cup {p}, after) = SumOf(T, after) + p.amount
            <4>1. IsFiniteSet(T) /\ p \notin T /\ \A b \in T \cup {p} : after[b] \in Nat
                BY <2>6, <3>3, <3>6
            <4>2. SumOf(T \cup {p}, after) = SumOf(T, after) + after[p]
                BY <4>1, SumOfAdded, Zenon
            <4> QED BY <3>6, <4>2
        <3>8. Cardinality(T \cup {p}) = Cardinality(T) + 1
            BY <2>6, <3>3, FS_AddElement
        <3> QED BY <2>6, <2>7, <3>2, <3>5, <3>7, <3>8 DEF after
    <2>9. CASE ~ \E p \in w.placed : p.option = o
        <3>1. BetsOf(o)' = T
            BY <2>2, <2>9
        <3>2. o \notin DOMAIN w.staked
            BY <1>1, <2>9 DEF PlacesBet
        <3>3. optionTotal'[o] = optionTotal[o] /\ participants'[o] = participants[o]
            BY <3>2 DEF Commit, Apply
        <3> HIDE DEF S, T, update, stake, after
        <3> QED BY <2>6, <2>7, <3>1, <3>3 DEF after
    <2> QED BY <2>8, <2>9
<1> QED BY <1>2, <1>3 DEF Tally, OptionStatsTally

LEMMA InitTally == Init => Tally
<1> SUFFICES ASSUME Init PROVE Tally
    OBVIOUS
<1>1. bets = {} /\ \A o \in Options : BetsOf(o) = {}
    BY DEF Init, BetsOf
<1> QED BY <1>1, SumOfNone, FS_EmptySet DEF Init, Tally, OptionStatsTally

(* option_total_amount and participant_count are the sum and the number of  *)
(* the option's committed bets: update_option_stats increments in the       *)
(* database, and in the transaction that inserts the bet.                   *)
THEOREM Statistics == Spec => []OptionStatsTally
<1>1. Init => Tally
    BY InitTally
<1>2. IInv /\ Tally /\ [Next]_vars => Tally'
    <2> SUFFICES ASSUME IInv, Tally, [Next]_vars PROVE Tally'
        OBVIOUS
    <2>1. CASE \E s \in Sessions : Commit(s)
        BY <2>1, CommitTally
    <2>2. CASE \A s \in Sessions : ~ Commit(s)
        <3>1. bets' = bets /\ optionTotal' = optionTotal /\ participants' = participants
            BY <2>2, OnlyCommitWritesBets
        <3>2. \A o \in Options : BetsOf(o)' = BetsOf(o)
            BY <3>1 DEF BetsOf
        <3> QED BY <3>1, <3>2 DEF Tally, OptionStatsTally
    <2> QED BY <2>1, <2>2
<1>3. Tally => OptionStatsTally
    BY DEF Tally
<1> QED BY <1>1, <1>2, <1>3, Invariance, PTL DEF Spec

-----------------------------------------------------------------------------
(* Part 2: requests that do not overlap *)

(* A handler leaves an up-to-date write set, and a write set stays so while *)
(* the database does not change.                                            *)

LEMMA StaysUpToDate ==
    ASSUME NEW w, UpToDate(w), UNCHANGED dbVars
    PROVE  UpToDate(w)'
<1> USE DEF dbVars
<1>1. \A e \in Events : BetsOn(e)' = BetsOn(e)
    BY DEF BetsOn
<1>2. PlacesNow(w) => PlacesNow(w)'
    <2>1. \A id, u, e, o, a : CreateBetWrites(id, u, e, o, a)' = CreateBetWrites(id, u, e, o, a)
        BY DEF CreateBetWrites
    <2> QED BY <1>1, <2>1 DEF PlacesNow
<1>3. \A B, new : Marked(B, new)' = Marked(B, new)
    BY DEF Marked
<1>4. \A B, sum, reason : Credit(B, sum, reason)' = Credit(B, sum, reason)
    BY DEF Credit
<1>5. \A e \in Events : ProcessRefund(BetsOn(e))' = ProcessRefund(BetsOn(e))
    BY <1>1, <1>3, <1>4 DEF ProcessRefund
<1>6. SettlesNow(w) => SettlesNow(w)'
    <2>1. \A e \in Events : \A winners, totalPool, winningPool :
              ProcessPayout(BetsOn(e), winners, totalPool, winningPool)'
                  = ProcessPayout(BetsOn(e), winners, totalPool, winningPool)
        BY <1>1, <1>3, <1>4 DEF ProcessPayout
    <2>2. \A e \in Events : \A winners : RunSettle(e, winners)' = RunSettle(e, winners)
        BY <1>1, <1>5, <2>1 DEF RunSettle
    <2> QED BY <2>2 DEF SettlesNow
<1>7. UpdatesNow(w) => UpdatesNow(w)'
    BY <1>5 DEF UpdatesNow, UpdateEventStatusWrites
<1> QED BY <1>2, <1>6, <1>7 DEF UpToDate, Scheduled

LEMMA HandlersAreUpToDate ==
    ASSUME IInv, [Next]_vars, \A s \in Sessions : ~ Commit(s),
           \A s \in Sessions : UpToDate(txn[s])
    PROVE  UNCHANGED dbVars /\ \A s \in Sessions : UpToDate(txn'[s])
<1> USE DEF dbVars
<1>1. TypeOK
    BY DEF IInv
<1>2. ASSUME NEW s \in Sessions, NEW w, UpToDate(w), Begin(s, w)
      PROVE  UNCHANGED dbVars /\ \A t \in Sessions : UpToDate(txn'[t])
    BY <1>1, <1>2 DEF Begin, TypeOK
<1>3. ASSUME NEW s \in Sessions, NEW u \in Users, NEW e \in Events, NEW o \in Options,
             NEW a \in Amounts, CreateBet(s, u, e, o, a)
      PROVE  \E w : UpToDate(w) /\ Begin(s, w)
    <2>1. FreshBetId \in BetIds /\ FreshBetId \notin UsedBetIds
        BY <1>1, <1>3, FreshBetIdIsNew DEF CreateBet
    <2>2. \A b \in bets : b.id # FreshBetId
        BY <2>1 DEF UsedBetIds
    <2>3. \A b \in BetsOn(e) : b.user # u
        BY <1>3 DEF CreateBet
    <2>4. PlacesNow(CreateBetWrites(FreshBetId, u, e, o, a))
        BY <1>3, <2>1, <2>2, <2>3 DEF CreateBet, PlacesNow
    <2> QED BY <1>3, <2>4 DEF CreateBet, UpToDate
<1>4. ASSUME NEW s \in Sessions, NEW e \in Events, NEW winners \in SUBSET Options,
             SettleEvent(s, e, winners)
      PROVE  \E w : UpToDate(w) /\ Begin(s, w)
    BY <1>4 DEF SettleEvent, SettlesNow, UpToDate
<1>5. ASSUME NEW s \in Sessions, NEW e \in Events, NEW new \in EventStatus,
             UpdateEventStatus(s, e, new)
      PROVE  \E w : UpToDate(w) /\ Begin(s, w)
    BY <1>5 DEF UpdateEventStatus, UpdatesNow, UpToDate
<1>6. ASSUME NEW s \in Sessions, NEW e \in Events, AutoOpen(s, e) \/ AutoClose(s, e)
      PROVE  \E w : UpToDate(w) /\ Begin(s, w)
    <2>1. PICK move \in {<<"READY", "OPEN">>, <<"READY", "CANCELLED">>, <<"OPEN", "CLOSED">>} :
              Begin(s, [NoWrites EXCEPT
                          !.status = [x \in {e} |-> [to |-> move[2], from |-> {move[1]}]]])
        BY <1>6, Zenon DEF AutoOpen, AutoClose, UpdateEventStatusAuto
    <2> QED BY <2>1 DEF UpToDate, Scheduled
<1>7. ASSUME NEW s \in Sessions, NEW selected \in SUBSET Events, ProcessEventSelection(s, selected)
      PROVE  \E w : UpToDate(w) /\ Begin(s, w)
    BY <1>7 DEF ProcessEventSelection, UpToDate, Scheduled
<1>8. ASSUME NEW s \in Sessions, Abort(s)
      PROVE  UNCHANGED dbVars /\ \A t \in Sessions : UpToDate(txn'[t])
    BY <1>1, <1>8 DEF Abort, TypeOK, UpToDate
<1>9. CASE UNCHANGED vars
    BY <1>9 DEF vars
<1> QED BY <1>2, <1>3, <1>4, <1>5, <1>6, <1>7, <1>8, <1>9 DEF Next

-----------------------------------------------------------------------------
(* What the commit of an up-to-date write set does *)

(* The move of an event that has no bets to close, or needs none closed. *)
Moves(w) ==
    /\ w.placed = {} /\ w.points = NoRows /\ w.ledger = NoRows
    /\ w.betStatus = NoRows /\ w.winner = NoRows
    /\ \A e \in DOMAIN w.status : status[e] \in w.status[e].from =>
          \/ status[e] = "READY" /\ w.status[e].to \in {"OPEN", "CANCELLED"}
          \/ status[e] = "OPEN" /\ w.status[e].to = "CLOSED"
    /\ \E e : DOMAIN w.status \subseteq {e}

(* The end of event e: each bet on it gets its outcome, and the users of the *)
(* bets of B are paid.                                                       *)
Ends(w, e, final, B, sum, outcome) ==
    /\ w.placed = {}
    /\ DOMAIN w.status = {e}
    /\ w.status[e] = [to |-> final, from |-> EventStatus]
    /\ DOMAIN w.points = {b.user : b \in B}
    /\ \A b \in B : w.points[b.user] = points[b.user] + sum[b]
    /\ \A b \in bets : NewBetStatus(b, w) = IF b.event = e THEN outcome[b] ELSE b.status

(* A history row in flight continues from the balance of its user. *)
Continues(w) == \A u \in DOMAIN w.ledger : w.ledger[u].after = points[u] + w.ledger[u].change

(* A bet gets the new status, whether it is written or is there already. *)
LEMMA MarkedStatus ==
    ASSUME IInv, NEW B, B \subseteq bets, NEW new, NEW w, w.betStatus = Marked(B, new),
           NEW b \in bets
    PROVE  /\ b \in B => NewBetStatus(b, w) = new[b]
           /\ b \notin B => NewBetStatus(b, w) = b.status
<1> DEFINE dirty == {c \in B : c.status # new[c]}
<1>1. \A c \in bets : b.id = c.id => b = c
    BY DEF IInv, UniqueIds
<1>2. DOMAIN Marked(B, new) = {c.id : c \in dirty}
    BY DEF Marked
<1>3. CASE b.id \in DOMAIN Marked(B, new)
    <2>1. b \in B /\ Marked(B, new)[b.id] = new[b]
        BY <1>3, MarkedBets
    <2> QED BY <1>3, <2>1 DEF NewBetStatus
<1>4. CASE b.id \notin DOMAIN Marked(B, new)
    <2>1. b \notin dirty
        BY <1>2, <1>4
    <2> QED BY <1>4, <2>1 DEF NewBetStatus
<1> QED BY <1>3, <1>4

LEMMA ProcessRefundEnds ==
    ASSUME IInv, NEW e \in Events
    PROVE  LET w == ProcessRefund(BetsOn(e))
               amount == [b \in BetsOn(e) |-> b.amount]
           IN  /\ Pays(w, BetsOn(e), amount, "REFUND")
               /\ DOMAIN w = DOMAIN NoWrites
               /\ \A b \in bets : NewBetStatus(b, w) =
                      IF b.event = e THEN "REFUNDED" ELSE b.status
<1> DEFINE B == BetsOn(e)
           amount == [b \in B |-> b.amount]
           new == [b \in B |-> "REFUNDED"]
           credit == Credit(B, amount, "REFUND")
           w == ProcessRefund(B)
<1>1. B \subseteq bets /\ \A b \in bets : b \in B <=> b.event = e
    BY DEF BetsOn
<1>2. Pays(credit, B, amount, "REFUND")
    BY CreditPays
<1>3. DOMAIN credit = DOMAIN NoWrites
    BY DEF Credit, NoWrites
<1>4. w = [credit EXCEPT !.betStatus = Marked(B, new)]
    BY DEF ProcessRefund
<1>5. \A b \in B : new[b] = "REFUNDED"
    OBVIOUS
<1> HIDE DEF B, amount, credit, new, w
<1>6. /\ w.betStatus = Marked(B, new) /\ DOMAIN w = DOMAIN NoWrites
      /\ Pays(w, B, amount, "REFUND")
    BY <1>2, <1>3, <1>4 DEF NoWrites, Pays
<1>7. \A b \in bets : /\ b \in B => NewBetStatus(b, w) = new[b]
                      /\ b \notin B => NewBetStatus(b, w) = b.status
    BY <1>1, <1>6, MarkedStatus
<1>8. \A b \in bets : NewBetStatus(b, w) = IF b.event = e THEN "REFUNDED" ELSE b.status
    BY <1>1, <1>5, <1>7
<1> QED BY <1>6, <1>8 DEF B, amount, w

(* The bets that run_settle pays, and what it pays them, when there are any. *)
HitsOf(e, winners) == {b \in BetsOn(e) : b.option \in winners}
Shares(B, totalPool, winningPool) ==
    [b \in B |-> CalculatePayout(b.amount, totalPool, winningPool)]

LEMMA ProcessPayoutEnds ==
    ASSUME IInv, NEW e \in Events, NEW winners, NEW totalPool, NEW winningPool
    PROVE  LET w == ProcessPayout(BetsOn(e), winners, totalPool, winningPool)
               hits == HitsOf(e, winners)
           IN  /\ Pays(w, hits, Shares(hits, totalPool, winningPool), "WIN")
               /\ DOMAIN w = DOMAIN NoWrites
               /\ \A b \in bets : NewBetStatus(b, w) =
                      IF b.event # e THEN b.status
                      ELSE IF b.option \in winners THEN "WIN" ELSE "LOSE"
<1> DEFINE B == BetsOn(e)
           hits == HitsOf(e, winners)
           payout == Shares(hits, totalPool, winningPool)
           new == [b \in B |-> IF b \in hits THEN "WIN" ELSE "LOSE"]
           credit == Credit(hits, payout, "WIN")
           w == ProcessPayout(B, winners, totalPool, winningPool)
<1>1. B \subseteq bets /\ \A b \in bets : b \in B <=> b.event = e
    BY DEF BetsOn
<1>2. Pays(credit, hits, payout, "WIN")
    <2>1. hits \in SUBSET BetsOn(e)
        BY DEF HitsOf
    <2> HIDE DEF hits, payout
    <2> QED BY <2>1, CreditPays
<1>3. DOMAIN credit = DOMAIN NoWrites
    BY DEF Credit, NoWrites
<1>4. w = [credit EXCEPT !.betStatus = Marked(B, new)]
    BY DEF ProcessPayout, HitsOf, Shares
<1>5. \A b \in B : new[b] = IF b.option \in winners THEN "WIN" ELSE "LOSE"
    BY DEF HitsOf
<1> HIDE DEF B, hits, payout, credit, new, w
<1>6. /\ w.betStatus = Marked(B, new) /\ DOMAIN w = DOMAIN NoWrites
      /\ Pays(w, hits, payout, "WIN")
    BY <1>2, <1>3, <1>4 DEF NoWrites, Pays
<1>7. \A b \in bets : /\ b \in B => NewBetStatus(b, w) = new[b]
                      /\ b \notin B => NewBetStatus(b, w) = b.status
    BY <1>1, <1>6, MarkedStatus
<1>8. \A b \in bets : NewBetStatus(b, w) =
          IF b.event # e THEN b.status ELSE IF b.option \in winners THEN "WIN" ELSE "LOSE"
    BY <1>1, <1>5, <1>7
<1> QED BY <1>6, <1>8 DEF B, hits, payout, w

-----------------------------------------------------------------------------
(* The pools and the bets they sum up *)

Stake == [b \in bets |-> b.amount]

LEMMA StakeIsPositive ==
    ASSUME IInv, NEW b \in bets
    PROVE  Stake[b] = b.amount /\ b.amount \in Nat /\ b.amount > 0
<1>1. b.amount \in Amounts
    BY DEF IInv, TypeOK, Bet
<1>2. \A a \in Amounts : a \in Nat /\ a > 0
    BY AmountsAssumption
<1> QED BY <1>1, <1>2 DEF Stake

(* A stake is no more than the sum of the stakes. *)
LEMMA StakeIsInPool ==
    ASSUME IInv, NEW B, IsFiniteSet(B), B \subseteq bets
    PROVE  /\ SumOf(B, Stake) \in Nat
           /\ \A b \in B : b.amount <= SumOf(B, Stake)
           /\ SumOf(B, Stake) = 0 <=> B = {}
<1>1. \A b \in B : Stake[b] \in Nat /\ Stake[b] = b.amount /\ b.amount > 0
    BY StakeIsPositive
<1>2. SumOf(B, Stake) \in Nat
    BY <1>1, SumIsNat
<1>3. ASSUME NEW b \in B PROVE b.amount <= SumOf(B, Stake)
    <2>1. SumOf({b}, Stake) <= SumOf(B, Stake)
        BY <1>1, SumOfPart
    <2>2. SumOf({b}, Stake) = Stake[b]
        BY <1>1, SumOfOne
    <2> QED BY <1>1, <2>1, <2>2
<1>4. B = {} => SumOf(B, Stake) = 0
    BY SumOfNone
<1>5. SumOf(B, Stake) = 0 => B = {}
    BY <1>1, <1>2, <1>3
<1> QED BY <1>2, <1>3, <1>4, <1>5

(* The statistics columns that run_settle adds up are the stakes. *)
LEMMA PoolsAreStakes ==
    ASSUME IInv, Tally, OptionsFitEvents, NEW e \in Events, NEW O \in SUBSET OptionsOf(e)
    PROVE  SumOf(O, optionTotal) = SumOf({b \in BetsOn(e) : b.option \in O}, Stake)
<1> DEFINE part == [o \in O |-> BetsOf(o)]
<1>1. O \subseteq Options /\ IsFiniteSet(O)
    BY OptionsAssumption, FS_Subset DEF OptionsOf
<1>2. ASSUME NEW o \in O
      PROVE  /\ IsFiniteSet(part[o])
             /\ \A b \in part[o] : Stake[b] \in Nat
             /\ optionTotal[o] = SumOf(part[o], Stake)
    <2>1. IsFiniteSet(BetsOf(o)) /\ BetsOf(o) \subseteq bets
        BY FS_Subset DEF Tally, BetsOf
    <2>2. \A b \in BetsOf(o) : [c \in BetsOf(o) |-> c.amount][b] = Stake[b] /\ Stake[b] \in Nat
        BY <2>1, StakeIsPositive
    <2>3. SumOf(BetsOf(o), [b \in BetsOf(o) |-> b.amount]) = SumOf(BetsOf(o), Stake)
        BY <2>2, SumOfSame
    <2> QED BY <1>1, <2>1, <2>2, <2>3 DEF Tally, OptionStatsTally
<1>3. \A o, p \in O : o # p => part[o] \cap part[p] = {}
    BY DEF BetsOf
<1>4. UNION {part[o] : o \in O} = {b \in BetsOn(e) : b.option \in O}
    BY DEF OptionsFitEvents, OptionsOf, BetsOf, BetsOn
<1> HIDE DEF part
<1>5. SumOf(O, optionTotal) = SumOf(UNION {part[o] : o \in O}, Stake)
    BY <1>1, <1>2, <1>3, SumOfSums
<1> QED BY <1>4, <1>5

-----------------------------------------------------------------------------
(* The up-to-date write sets *)

(* What run_settle pays a bet, and what becomes of the bet. *)
PayoutsOf(e, winners) ==
    [b \in BetsOn(e) |->
        IF HitsOf(e, winners) = {} THEN b.amount
        ELSE IF b.option \in winners
             THEN CalculatePayout(b.amount, SumOf(BetsOn(e), Stake), SumOf(HitsOf(e, winners), Stake))
             ELSE 0]
OutcomesOf(e, winners) ==
    [b \in BetsOn(e) |-> IF HitsOf(e, winners) = {} THEN "REFUNDED"
                         ELSE IF b.option \in winners THEN "WIN" ELSE "LOSE"]
PaidBets(e, winners) == IF HitsOf(e, winners) = {} THEN BetsOn(e) ELSE HitsOf(e, winners)

LEMMA SettleEnds ==
    ASSUME IInv, Tally, OptionsFitEvents, NEW e \in Events, NEW winners \in SUBSET OptionsOf(e)
    PROVE  LET w == RunSettle(e, winners)
           IN  /\ Ends(w, e, "SETTLED", PaidBets(e, winners), PayoutsOf(e, winners), OutcomesOf(e, winners))
               /\ \A o \in Options : (IF o \in DOMAIN w.winner THEN w.winner[o] ELSE winner[o]) =
                      IF o \in OptionsOf(e) THEN Verdict(o, winners) ELSE winner[o]
<1> DEFINE totalPool == SumOf(OptionsOf(e), optionTotal)
           winningPool == SumOf(OptionsOf(e) \cap winners, optionTotal)
           refund == ProcessRefund(BetsOn(e))
           payout == ProcessPayout(BetsOn(e), winners, totalPool, winningPool)
           paid == IF winningPool = 0 THEN refund ELSE payout
           dirty == {o \in OptionsOf(e) : winner[o] # Verdict(o, winners)}
           verdicts == [o \in dirty |-> Verdict(o, winners)]
           settled == [x \in {e} |-> [to |-> "SETTLED", from |-> EventStatus]]
           hits == HitsOf(e, winners)
           sum == PayoutsOf(e, winners)
           outcome == OutcomesOf(e, winners)
           w == RunSettle(e, winners)
<1>1. /\ totalPool = SumOf(BetsOn(e), Stake)
      /\ winningPool = SumOf(hits, Stake)
    <2>1. {b \in BetsOn(e) : b.option \in OptionsOf(e)} = BetsOn(e)
        BY DEF OptionsFitEvents, OptionsOf, BetsOn, IInv, TypeOK, Bet
    <2>2. OptionsOf(e) \cap winners = winners
        OBVIOUS
    <2> QED BY <2>1, <2>2, PoolsAreStakes DEF HitsOf
<1>2. winningPool = 0 <=> hits = {}
    <2>1. IsFiniteSet(hits) /\ hits \subseteq bets
        BY FS_Subset DEF Tally, HitsOf, BetsOn
    <2> QED BY <1>1, <2>1, StakeIsInPool
<1>3. w = [paid EXCEPT !.winner = verdicts, !.status = settled]
    BY DEF RunSettle
<1>4. settled[e] = [to |-> "SETTLED", from |-> EventStatus] /\ DOMAIN settled = {e}
    OBVIOUS
<1>5. DOMAIN verdicts = dirty /\ \A o \in dirty : verdicts[o] = Verdict(o, winners)
    OBVIOUS
<1>6. hits \subseteq BetsOn(e) /\ BetsOn(e) \subseteq bets /\ \A b \in bets : b \in BetsOn(e) <=> b.event = e
    BY DEF HitsOf, BetsOn
<1>7. ASSUME hits = {}
      PROVE  /\ Pays(paid, BetsOn(e), sum, "REFUND")
             /\ DOMAIN paid = DOMAIN NoWrites
             /\ \A b \in bets : NewBetStatus(b, paid) = IF b.event = e THEN outcome[b] ELSE b.status
    <2>1. paid = refund
        BY <1>2, <1>7
    <2>2. sum = [b \in BetsOn(e) |-> b.amount]
        BY <1>7 DEF PayoutsOf
    <2>3. \A b \in BetsOn(e) : outcome[b] = "REFUNDED"
        BY <1>7 DEF OutcomesOf
    <2> HIDE DEF paid, refund, sum, outcome, hits, totalPool, winningPool
    <2>4. /\ Pays(refund, BetsOn(e), [b \in BetsOn(e) |-> b.amount], "REFUND")
          /\ DOMAIN refund = DOMAIN NoWrites
          /\ \A b \in bets : NewBetStatus(b, refund) = IF b.event = e THEN "REFUNDED" ELSE b.status
        BY ProcessRefundEnds DEF refund
    <2> QED BY <1>6, <2>1, <2>2, <2>3, <2>4
<1>8. ASSUME hits # {}
      PROVE  /\ Pays(paid, hits, sum, "WIN")
             /\ DOMAIN paid = DOMAIN NoWrites
             /\ \A b \in bets : NewBetStatus(b, paid) = IF b.event = e THEN outcome[b] ELSE b.status
    <2> DEFINE shares == Shares(hits, totalPool, winningPool)
    <2>1. paid = payout
        BY <1>2, <1>8
    <2>2. \A b \in hits : sum[b] = shares[b]
        BY <1>1, <1>8 DEF PayoutsOf, HitsOf, Shares
    <2>3. \A b \in BetsOn(e) : outcome[b] = IF b.option \in winners THEN "WIN" ELSE "LOSE"
        BY <1>8 DEF OutcomesOf
    <2>4. /\ Pays(payout, hits, shares, "WIN")
          /\ DOMAIN payout = DOMAIN NoWrites
          /\ \A b \in bets : NewBetStatus(b, payout) =
                IF b.event # e THEN b.status ELSE IF b.option \in winners THEN "WIN" ELSE "LOSE"
        <3> HIDE DEF totalPool, winningPool
        <3> QED BY ProcessPayoutEnds
    <2> HIDE DEF paid, payout, sum, outcome, hits, shares, totalPool, winningPool
    <2> QED BY <1>6, <2>1, <2>2, <2>3, <2>4 DEF Pays
<1> HIDE DEF paid, settled, verdicts, hits, sum, outcome, w, totalPool, winningPool
<1>9. DOMAIN paid = DOMAIN NoWrites
    BY <1>7, <1>8
<1>10. /\ w.placed = paid.placed /\ w.points = paid.points /\ w.betStatus = paid.betStatus
       /\ w.winner = verdicts /\ w.status = settled
    BY <1>3, <1>9 DEF NoWrites
<1>11. \A b \in bets : NewBetStatus(b, w) = NewBetStatus(b, paid)
    BY <1>10 DEF NewBetStatus
<1>12. Ends(w, e, "SETTLED", PaidBets(e, winners), sum, outcome)
    <2>1. CASE hits = {}
        BY <1>4, <1>7, <1>10, <1>11, <2>1 DEF Ends, Pays, PaidBets, hits
    <2>2. CASE hits # {}
        BY <1>4, <1>8, <1>10, <1>11, <2>2 DEF Ends, Pays, PaidBets, hits
    <2> QED BY <2>1, <2>2
<1>13. \A o \in Options : (IF o \in DOMAIN w.winner THEN w.winner[o] ELSE winner[o]) =
           IF o \in OptionsOf(e) THEN Verdict(o, winners) ELSE winner[o]
    BY <1>5, <1>10
<1> QED BY <1>12, <1>13 DEF w, sum, outcome

LEMMA CancelEnds ==
    ASSUME IInv, NEW e \in Events
    PROVE  LET w == UpdateEventStatusWrites(e, "CANCELLED")
           IN  /\ Ends(w, e, "CANCELLED", BetsOn(e), [b \in BetsOn(e) |-> b.amount],
                       [b \in BetsOn(e) |-> "REFUNDED"])
               /\ w.winner = NoRows
<1> DEFINE refund == ProcessRefund(BetsOn(e))
           amount == [b \in BetsOn(e) |-> b.amount]
           outcome == [b \in BetsOn(e) |-> "REFUNDED"]
           updated == [x \in {e} |-> [to |-> "CANCELLED", from |-> EventStatus]]
           w == UpdateEventStatusWrites(e, "CANCELLED")
<1>1. w = [refund EXCEPT !.status = updated]
    BY DEF UpdateEventStatusWrites
<1>2. updated[e] = [to |-> "CANCELLED", from |-> EventStatus] /\ DOMAIN updated = {e}
    OBVIOUS
<1>3. \A b \in bets : b.event = e => outcome[b] = "REFUNDED"
    BY DEF BetsOn
<1> HIDE DEF refund, amount, outcome, updated, w
<1>4. /\ Pays(refund, BetsOn(e), amount, "REFUND")
      /\ DOMAIN refund = DOMAIN NoWrites
      /\ \A b \in bets : NewBetStatus(b, refund) = IF b.event = e THEN "REFUNDED" ELSE b.status
    BY ProcessRefundEnds DEF refund, amount
<1>5. /\ w.placed = refund.placed /\ w.points = refund.points /\ w.betStatus = refund.betStatus
      /\ w.winner = refund.winner /\ w.status = updated
    BY <1>1, <1>4 DEF NoWrites
<1>6. \A b \in bets : NewBetStatus(b, w) = NewBetStatus(b, refund)
    BY <1>5 DEF NewBetStatus
<1>7. Ends(w, e, "CANCELLED", BetsOn(e), amount, outcome) /\ w.winner = NoRows
    BY <1>2, <1>3, <1>4, <1>5, <1>6 DEF Ends, Pays
<1> QED BY <1>7 DEF w, amount, outcome

LEMMA OthersMove ==
    ASSUME IInv, NEW w, w = NoWrites \/ UpdatesNow(w) \/ Scheduled(w)
    PROVE  \/ Moves(w)
           \/ \E e \in Events : /\ status[e] \in {"READY", "OPEN", "CLOSED"}
                                /\ w = UpdateEventStatusWrites(e, "CANCELLED")
<1>1. CASE w = NoWrites
    BY <1>1 DEF NoWrites, NoRows, Moves
<1>2. CASE UpdatesNow(w)
    <2>1. PICK e \in Events, new \in EventStatus :
              new \in AllowedTransition(status[e]) /\ w = UpdateEventStatusWrites(e, new)
        BY <1>2 DEF UpdatesNow
    <2>2. status[e] \in EventStatus
        BY DEF IInv, TypeOK
    <2>3. \/ status[e] = "READY" /\ new = "OPEN"
          \/ status[e] = "OPEN" /\ new = "CLOSED"
          \/ status[e] \in {"READY", "OPEN", "CLOSED"} /\ new = "CANCELLED"
        BY <2>1, <2>2 DEF AllowedTransition, EventStatus
    <2>4. CASE new # "CANCELLED"
        <3> DEFINE updated == [x \in {e} |-> [to |-> new, from |-> EventStatus]]
        <3>1. w = [NoWrites EXCEPT !.status = updated]
            BY <2>1, <2>4 DEF UpdateEventStatusWrites
        <3>2. DOMAIN updated = {e} /\ updated[e].to = new
            OBVIOUS
        <3> HIDE DEF updated
        <3> QED BY <2>3, <2>4, <3>1, <3>2 DEF NoWrites, NoRows, Moves
    <2> QED BY <2>1, <2>3, <2>4
<1>3. CASE Scheduled(w)
    <2>1. CASE \E selected \in SUBSET Events : w = [NoWrites EXCEPT !.eligible = selected]
        BY <2>1 DEF NoWrites, NoRows, Moves
    <2>2. ASSUME NEW e \in Events,
                 NEW move \in {<<"READY", "OPEN">>, <<"READY", "CANCELLED">>, <<"OPEN", "CLOSED">>},
                 w = [NoWrites EXCEPT
                        !.status = [x \in {e} |-> [to |-> move[2], from |-> {move[1]}]]]
          PROVE  Moves(w)
        <3> DEFINE updated == [x \in {e} |-> [to |-> move[2], from |-> {move[1]}]]
        <3>1. DOMAIN updated = {e} /\ updated[e].to = move[2] /\ updated[e].from = {move[1]}
            OBVIOUS
        <3> HIDE DEF updated
        <3>2. w = [NoWrites EXCEPT !.status = updated]
            BY <2>2 DEF updated
        <3> QED BY <3>1, <3>2 DEF NoWrites, NoRows, Moves
    <2> QED BY <1>3, <2>1, <2>2 DEF Scheduled
<1> QED BY <1>1, <1>2, <1>3

LEMMA RowsContinue ==
    ASSUME IInv, NEW w, UpToDate(w)
    PROVE  Continues(w)
<1>1. ASSUME NEW B, NEW sum, NEW reason
      PROVE  /\ Continues(Credit(B, sum, reason))
             /\ DOMAIN Credit(B, sum, reason) = DOMAIN NoWrites
    BY DEF Credit, Continues, NoWrites
<1>2. ASSUME NEW B
      PROVE  Continues(ProcessRefund(B)) /\ DOMAIN ProcessRefund(B) = DOMAIN NoWrites
    BY <1>1 DEF ProcessRefund, Continues, NoWrites
<1>3. ASSUME NEW B, NEW winners, NEW totalPool, NEW winningPool
      PROVE  LET p == ProcessPayout(B, winners, totalPool, winningPool)
             IN  Continues(p) /\ DOMAIN p = DOMAIN NoWrites
    BY <1>1 DEF ProcessPayout, Continues, NoWrites
<1>4. CASE PlacesNow(w)
    <2>1. PICK id \in BetIds, u \in Users, e \in Events, o \in Options, a \in Amounts :
              w = CreateBetWrites(id, u, e, o, a)
        BY <1>4 DEF PlacesNow
    <2>2. points[u] \in Nat /\ a \in Nat
        BY AmountsAssumption DEF IInv, TypeOK
    <2>3. points[u] - a = points[u] + (-a)
        BY <2>2
    <2> DEFINE after == points[u] - a
               row == [bet |-> id, change |-> -a, reason |-> "BET", after |-> after]
    <2>4. w.ledger = [x \in {u} |-> row]
        BY <2>1 DEF CreateBetWrites, NoWrites
    <2>5. row.after = points[u] + row.change
        BY <2>3
    <2> HIDE DEF row
    <2> QED BY <2>4, <2>5 DEF Continues
<1>5. CASE SettlesNow(w)
    BY <1>2, <1>3, <1>5 DEF SettlesNow, RunSettle, Continues, NoWrites
<1>6. CASE UpdatesNow(w)
    BY <1>2, <1>6 DEF UpdatesNow, UpdateEventStatusWrites, Continues, NoWrites, NoRows
<1>7. CASE w = NoWrites \/ Scheduled(w)
    <2>1. w.ledger = NoRows
        <3>1. \A f : [NoWrites EXCEPT !.status = f].ledger = NoRows
            BY DEF NoWrites
        <3>2. \A f : [NoWrites EXCEPT !.eligible = f].ledger = NoRows
            BY DEF NoWrites
        <3>3. NoWrites.ledger = NoRows
            BY DEF NoWrites
        <3>4. ASSUME NEW e \in Events, NEW move,
                     w = [NoWrites EXCEPT
                            !.status = [x \in {e} |-> [to |-> move[2], from |-> {move[1]}]]]
              PROVE  w.ledger = NoRows
            BY <3>1, <3>4
        <3>5. ASSUME NEW selected, w = [NoWrites EXCEPT !.eligible = selected]
              PROVE  w.ledger = NoRows
            BY <3>2, <3>5
        <3> QED BY <1>7, <3>3, <3>4, <3>5 DEF Scheduled
    <2> QED BY <2>1 DEF Continues, NoRows
<1> QED BY <1>4, <1>5, <1>6, <1>7 DEF UpToDate

-----------------------------------------------------------------------------
(* The four things a commit may do *)

PlaceStep ==
    \E b \in Bet :
        /\ status[b.event] = "OPEN" /\ EventOf[b.option] = b.event
        /\ \A c \in BetsOn(b.event) : c.user # b.user
        /\ \A c \in bets : c.id # b.id
        /\ points[b.user] >= b.amount
        /\ b.status = "PENDING"
        /\ bets' = bets \cup {b}
        /\ points' = [points EXCEPT ![b.user] = @ - b.amount]
        /\ UNCHANGED <<status, winner>>

MoveStep ==
    /\ \/ status' = status
       \/ \E e \in Events :
             \/ /\ status[e] = "READY"
                /\ \E to \in {"OPEN", "CANCELLED"} : status' = [status EXCEPT ![e] = to]
             \/ status[e] = "OPEN" /\ status' = [status EXCEPT ![e] = "CLOSED"]
    /\ UNCHANGED <<bets, points, winner>>

EndStep(e, final, B, sum, outcome) ==
    /\ status' = [status EXCEPT ![e] = final]
    /\ bets' = {IF b.event = e THEN [b EXCEPT !.status = outcome[b]] ELSE b : b \in bets}
    /\ \A b \in B : points'[b.user] = points[b.user] + sum[b]
    /\ \A u \in Users : (\A b \in B : b.user # u) => points'[u] = points[u]

CancelStep(e) ==
    /\ status[e] \in {"READY", "OPEN", "CLOSED"}
    /\ EndStep(e, "CANCELLED", BetsOn(e), [b \in BetsOn(e) |-> b.amount],
               [b \in BetsOn(e) |-> "REFUNDED"])
    /\ winner' = winner

SettleStep(e, winners) ==
    /\ status[e] = "CLOSED"
    /\ EndStep(e, "SETTLED", PaidBets(e, winners), PayoutsOf(e, winners), OutcomesOf(e, winners))
    /\ \A o \in Options : winner'[o] = IF o \in OptionsOf(e) THEN Verdict(o, winners) ELSE winner[o]

LEMMA CommitPoints ==
    ASSUME IInv, NEW s \in Sessions, Commit(s)
    PROVE  /\ points' = [u \in Users |-> IF u \in DOMAIN txn[s].points THEN txn[s].points[u] ELSE points[u]]
           /\ winner' = [o \in Options |-> IF o \in DOMAIN txn[s].winner THEN txn[s].winner[o] ELSE winner[o]]
BY DEF IInv, TypeOK, Commit, Apply, Overwrite

LEMMA CommitPlaces ==
    ASSUME IInv, NEW s \in Sessions, Commit(s), PlacesNow(txn[s])
    PROVE  PlaceStep
<1> DEFINE w == txn[s]
<1>1. PICK id \in BetIds, u \in Users, e \in Events, o \in Options, a \in Amounts :
          /\ status[e] = "OPEN" /\ EventOf[o] = e
          /\ \A b \in BetsOn(e) : b.user # u
          /\ \A b \in bets : b.id # id
          /\ points[u] >= a
          /\ w = CreateBetWrites(id, u, e, o, a)
    BY DEF PlacesNow
<1> DEFINE bet == [id |-> id, user |-> u, event |-> e, option |-> o, amount |-> a,
                   status |-> "PENDING"]
<1>2. bet \in Bet
    BY DEF Bet, BetStatus
<1>3. /\ w.placed = {bet} /\ w.points = [x \in {u} |-> points[u] - a]
      /\ w.betStatus = NoRows /\ w.winner = NoRows /\ w.status = NoRows
    BY <1>1 DEF CreateBetWrites, NoWrites
<1>4. \A b \in bets : Updated(b, w) = b
    BY <1>3 DEF IInv, TypeOK, Bet, Updated, NewBetStatus, NoRows
<1>5. bets' = bets \cup {bet}
    BY <1>3, <1>4, CommitFacts
<1>6. points' = [points EXCEPT ![u] = @ - a]
    BY <1>3, CommitPoints DEF IInv, TypeOK
<1>7. winner' = winner /\ status' = status
    BY <1>3, CommitPoints DEF IInv, TypeOK, Commit, Apply, NoRows
<1> QED BY <1>1, <1>2, <1>5, <1>6, <1>7 DEF PlaceStep

LEMMA CommitMoves ==
    ASSUME IInv, NEW s \in Sessions, Commit(s), Moves(txn[s])
    PROVE  MoveStep
<1> DEFINE w == txn[s]
<1>1. \A b \in bets : Updated(b, w) = b
    BY DEF Moves, IInv, TypeOK, Bet, Updated, NewBetStatus, NoRows
<1>2. bets' = bets
    <2>1. bets' = {Updated(b, w) : b \in bets} \cup w.placed /\ w.placed = {}
        BY CommitFacts DEF Moves
    <2> HIDE DEF w
    <2>2. {Updated(b, w) : b \in bets} = bets
        BY <1>1
    <2> QED BY <2>1, <2>2
<1>3. points' = points /\ winner' = winner
    BY CommitPoints DEF IInv, TypeOK, Moves, NoRows
<1>4. /\ status \in [Events -> EventStatus]
      /\ status' = [e \in Events |-> IF e \in DOMAIN w.status /\ status[e] \in w.status[e].from
                                     THEN w.status[e].to ELSE status[e]]
    BY DEF IInv, TypeOK, Commit, Apply
<1>5. CASE \A e \in Events : ~ (e \in DOMAIN w.status /\ status[e] \in w.status[e].from)
    BY <1>2, <1>3, <1>4, <1>5 DEF MoveStep
<1>6. ASSUME NEW e \in Events, e \in DOMAIN w.status, status[e] \in w.status[e].from
      PROVE  MoveStep
    <2>1. status' = [status EXCEPT ![e] = w.status[e].to]
        BY <1>4, <1>6 DEF Moves
    <2> QED BY <1>2, <1>3, <1>6, <2>1 DEF Moves, MoveStep
<1> QED BY <1>5, <1>6

LEMMA CommitEnds ==
    ASSUME IInv, NEW s \in Sessions, Commit(s), NEW e \in Events, NEW final,
           NEW B, B \subseteq bets, NEW sum, NEW outcome, Ends(txn[s], e, final, B, sum, outcome)
    PROVE  EndStep(e, final, B, sum, outcome)
<1> DEFINE w == txn[s]
<1>1. status' = [status EXCEPT ![e] = final]
    <2>1. /\ status \in [Events -> EventStatus]
          /\ status' = [x \in Events |-> IF x \in DOMAIN w.status /\ status[x] \in w.status[x].from
                                         THEN w.status[x].to ELSE status[x]]
        BY DEF IInv, TypeOK, Commit, Apply
    <2>2. DOMAIN w.status = {e} /\ w.status[e].to = final /\ w.status[e].from = EventStatus
        BY DEF Ends
    <2> HIDE DEF w
    <2> QED BY <2>1, <2>2
<1>2. \A b \in bets : Updated(b, w) = IF b.event = e THEN [b EXCEPT !.status = outcome[b]] ELSE b
    <2>1. \A b \in bets : [b EXCEPT !.status = b.status] = b
        BY DEF IInv, TypeOK, Bet
    <2> QED BY <2>1 DEF Ends, Updated
<1>3. bets' = {IF b.event = e THEN [b EXCEPT !.status = outcome[b]] ELSE b : b \in bets}
    <2>1. bets' = {Updated(b, w) : b \in bets} \cup w.placed /\ w.placed = {}
        BY CommitFacts DEF Ends
    <2> HIDE DEF w
    <2>2. {Updated(b, w) : b \in bets}
              = {IF b.event = e THEN [b EXCEPT !.status = outcome[b]] ELSE b : b \in bets}
        BY <1>2
    <2> QED BY <2>1, <2>2
<1>4. \A b \in B : b.user \in Users
    BY DEF IInv, TypeOK, Bet
<1>5. \A b \in B : points'[b.user] = points[b.user] + sum[b]
    BY <1>4, CommitPoints DEF Ends
<1>6. \A u \in Users : (\A b \in B : b.user # u) => points'[u] = points[u]
    BY CommitPoints DEF Ends
<1> QED BY <1>1, <1>3, <1>5, <1>6 DEF EndStep

LEMMA CommitStep ==
    ASSUME SerialInv, NEW s \in Sessions, Commit(s)
    PROVE  \/ PlaceStep
           \/ MoveStep
           \/ \E e \in Events : CancelStep(e)
           \/ \E e \in Events : \E winners \in SUBSET OptionsOf(e) : SettleStep(e, winners)
<1> DEFINE w == txn[s]
<1>1. IInv /\ Tally /\ OptionsFitEvents /\ UpToDate(w)
    BY DEF SerialInv
<1>2. CASE PlacesNow(w)
    BY <1>1, <1>2, CommitPlaces
<1>3. CASE SettlesNow(w)
    <2>1. PICK e \in Events, winners \in SUBSET Options :
              status[e] = "CLOSED" /\ winners \subseteq OptionsOf(e) /\ w = RunSettle(e, winners)
        BY <1>3 DEF SettlesNow
    <2>2. Ends(w, e, "SETTLED", PaidBets(e, winners), PayoutsOf(e, winners), OutcomesOf(e, winners))
        BY <1>1, <2>1, SettleEnds
    <2>3. PaidBets(e, winners) \subseteq bets
        BY DEF PaidBets, HitsOf, BetsOn
    <2>4. EndStep(e, "SETTLED", PaidBets(e, winners), PayoutsOf(e, winners), OutcomesOf(e, winners))
        BY <1>1, <2>2, <2>3, CommitEnds
    <2>5. \A o \in Options : winner'[o] = IF o \in OptionsOf(e) THEN Verdict(o, winners) ELSE winner[o]
        BY <1>1, <2>1, SettleEnds, CommitPoints
    <2> QED BY <2>1, <2>4, <2>5 DEF SettleStep
<1>4. CASE w = NoWrites \/ UpdatesNow(w) \/ Scheduled(w)
    <2>1. CASE Moves(w)
        BY <1>1, <2>1, CommitMoves
    <2>2. ASSUME NEW e \in Events, status[e] \in {"READY", "OPEN", "CLOSED"},
                 w = UpdateEventStatusWrites(e, "CANCELLED")
          PROVE  CancelStep(e)
        <3> DEFINE amount == [b \in BetsOn(e) |-> b.amount]
                   outcome == [b \in BetsOn(e) |-> "REFUNDED"]
        <3>1. Ends(w, e, "CANCELLED", BetsOn(e), amount, outcome) /\ w.winner = NoRows
            BY <1>1, <2>2, CancelEnds
        <3>2. BetsOn(e) \subseteq bets
            BY DEF BetsOn
        <3> HIDE DEF amount, outcome
        <3>3. EndStep(e, "CANCELLED", BetsOn(e), amount, outcome)
            BY <1>1, <3>1, <3>2, CommitEnds
        <3>4. winner' = winner
            BY <1>1, <3>1, CommitPoints DEF IInv, TypeOK, NoRows
        <3> QED BY <2>2, <3>3, <3>4 DEF CancelStep, amount, outcome
    <2> QED BY <1>1, <1>4, <2>1, <2>2, OthersMove
<1> QED BY <1>1, <1>2, <1>3, <1>4 DEF UpToDate

-----------------------------------------------------------------------------
(* Each step keeps the invariants of requests that do not overlap *)

LEMMA CommitChain ==
    ASSUME IInv, LedgerChain, NEW s \in Sessions, UpToDate(txn[s]), Commit(s)
    PROVE  LedgerChain'
<1> DEFINE w == txn[s]
<1>1. Continues(w)
    BY RowsContinue
<1> SUFFICES ASSUME NEW u \in Users, NEW i \in DOMAIN ledger'[u]
             PROVE  ledger'[u][i].after = ledger'[u][i].change
                        + (IF i = 1 THEN InitialPoints ELSE ledger'[u][i - 1].after)
    BY DEF LedgerChain
<1>2. ledger[u] \in Seq(PointHistory)
    BY CommitLedger
<1>3. /\ DOMAIN ledger[u] = 1 .. Len(ledger[u]) /\ Len(ledger[u]) \in Nat
      /\ ledger[u] = <<>> <=> Len(ledger[u]) = 0
    BY <1>2
<1>4. points[u] = IF Len(ledger[u]) = 0 THEN InitialPoints ELSE ledger[u][Len(ledger[u])].after
    BY <1>3 DEF IInv, BalanceIsNewestRow
<1>5. CASE i \in DOMAIN ledger[u]
    <2>1. i = 1 \/ i - 1 \in DOMAIN ledger[u]
        BY <1>3, <1>5
    <2>2. ledger'[u][i] = ledger[u][i] /\ (i # 1 => ledger'[u][i - 1] = ledger[u][i - 1])
        BY <1>5, <2>1, CommitRows
    <2> QED BY <1>5, <2>2 DEF LedgerChain
<1>6. CASE i \notin DOMAIN ledger[u]
    <2>1. i = Len(ledger[u]) + 1 /\ u \in DOMAIN w.ledger /\ ledger'[u][i] = w.ledger[u]
        BY <1>6, CommitRows
    <2>2. w.ledger[u].after = points[u] + w.ledger[u].change
        BY <1>1, <2>1 DEF Continues
    <2>3. w.ledger[u].change \in Int /\ points[u] \in Nat
        BY <2>1, CommitLedger DEF PointHistory, IInv, TypeOK
    <2>4. i # 1 => /\ i - 1 \in DOMAIN ledger[u] /\ i - 1 = Len(ledger[u])
                   /\ ledger'[u][i - 1] = ledger[u][i - 1]
        BY <1>3, <2>1, CommitRows
    <2>5. points[u] = IF i = 1 THEN InitialPoints ELSE ledger'[u][i - 1].after
        BY <1>3, <1>4, <2>1, <2>4
    <2> QED BY <2>1, <2>2, <2>3, <2>5
<1> QED BY <1>5, <1>6

(* The bet b after the end of event e. *)
Ended(b, e, outcome) == IF b.event = e THEN [b EXCEPT !.status = outcome[b]] ELSE b

LEMMA EndBets ==
    ASSUME IInv, NEW e \in Events, NEW final, NEW B, NEW sum, NEW outcome,
           EndStep(e, final, B, sum, outcome)
    PROVE  /\ bets' = {Ended(b, e, outcome) : b \in bets}
           /\ \A b \in bets :
                 LET c == Ended(b, e, outcome)
                 IN  /\ c.event = b.event /\ c.option = b.option /\ c.user = b.user
                     /\ c.id = b.id /\ c.amount = b.amount
                     /\ c.status = IF b.event = e THEN outcome[b] ELSE b.status
           /\ \A x \in Events : status'[x] = IF x = e THEN final ELSE status[x]
BY DEF IInv, TypeOK, Bet, EndStep, Ended

LEMMA CommitFits ==
    ASSUME SerialInv, NEW s \in Sessions, Commit(s)
    PROVE  OptionsFitEvents'
<1>1. IInv /\ OptionsFitEvents
    BY DEF SerialInv
<1>2. ASSUME NEW e \in Events, NEW final, NEW B, NEW sum, NEW outcome,
             EndStep(e, final, B, sum, outcome)
      PROVE  OptionsFitEvents'
    BY <1>1, <1>2, EndBets DEF OptionsFitEvents
<1>3. CASE PlaceStep
    BY <1>1, <1>3 DEF PlaceStep, OptionsFitEvents
<1>4. CASE MoveStep
    BY <1>1, <1>4 DEF MoveStep, OptionsFitEvents
<1> QED BY <1>2, <1>3, <1>4, CommitStep DEF CancelStep, SettleStep

LEMMA OutcomeIsNotPending ==
    ASSUME NEW e, NEW winners, NEW b \in BetsOn(e)
    PROVE  OutcomesOf(e, winners)[b] # "PENDING"
BY DEF OutcomesOf

LEMMA EndKeepsPending ==
    ASSUME IInv, PendingUntilFinal, NEW e \in Events, NEW final \in Final, NEW B, NEW sum, NEW outcome,
           \A b \in BetsOn(e) : outcome[b] # "PENDING",
           EndStep(e, final, B, sum, outcome)
    PROVE  PendingUntilFinal'
<1> SUFFICES ASSUME NEW b \in bets
             PROVE  LET c == Ended(b, e, outcome)
                    IN  c.status = "PENDING" <=> status'[c.event] \notin Final
    BY EndBets DEF PendingUntilFinal
<1>1. b.event \in Events
    BY DEF IInv, TypeOK, Bet
<1>2. b.event = e => b \in BetsOn(e)
    BY DEF BetsOn
<1> QED BY <1>1, <1>2, EndBets DEF PendingUntilFinal

LEMMA CommitPending ==
    ASSUME SerialInv, NEW s \in Sessions, Commit(s)
    PROVE  PendingUntilFinal'
<1>1. IInv /\ PendingUntilFinal
    BY DEF SerialInv
<1>2. CASE PlaceStep
    BY <1>1, <1>2 DEF PlaceStep, PendingUntilFinal, Final
<1>3. CASE MoveStep
    <2>1. CASE status' = status
        BY <1>1, <1>3, <2>1 DEF MoveStep, PendingUntilFinal
    <2>2. ASSUME NEW e \in Events, NEW to, status[e] \in {"READY", "OPEN"},
                 status' = [status EXCEPT ![e] = to],
                 \/ to \notin Final
                 \/ status[e] = "READY"
          PROVE  PendingUntilFinal'
        <3>1. \A b \in bets : b.event \in Events /\ (status[e] = "READY" => b.event # e)
            BY <1>1, <2>2 DEF IInv, TypeOK, Bet, UnopenedEventsHaveNoBets, BetsOn
        <3>2. bets' = bets /\ status \in [Events -> EventStatus]
            BY <1>1, <1>3 DEF MoveStep, IInv, TypeOK
        <3> QED BY <1>1, <2>2, <3>1, <3>2 DEF PendingUntilFinal, Final
    <2>3. \/ status' = status
          \/ \E e \in Events :
                \/ status[e] = "READY" /\ \E to : status' = [status EXCEPT ![e] = to]
                \/ status[e] = "OPEN" /\ status' = [status EXCEPT ![e] = "CLOSED"]
        BY <1>3 DEF MoveStep
    <2> QED BY <2>1, <2>2, <2>3 DEF Final
<1>4. ASSUME NEW e \in Events, CancelStep(e)
      PROVE  PendingUntilFinal'
    <2> DEFINE amount == [b \in BetsOn(e) |-> b.amount]
               outcome == [b \in BetsOn(e) |-> "REFUNDED"]
    <2>1. EndStep(e, "CANCELLED", BetsOn(e), amount, outcome)
        BY <1>4 DEF CancelStep
    <2>2. (\A b \in BetsOn(e) : outcome[b] # "PENDING") /\ "CANCELLED" \in Final
        BY DEF Final
    <2> HIDE DEF amount, outcome
    <2> QED BY <1>1, <2>1, <2>2, EndKeepsPending
<1>5. ASSUME NEW e \in Events, NEW winners \in SUBSET OptionsOf(e), SettleStep(e, winners)
      PROVE  PendingUntilFinal'
    <2>1. EndStep(e, "SETTLED", PaidBets(e, winners), PayoutsOf(e, winners), OutcomesOf(e, winners))
        BY <1>5 DEF SettleStep
    <2>2. "SETTLED" \in Final
        BY DEF Final
    <2> QED BY <1>1, <2>1, <2>2, EndKeepsPending, OutcomeIsNotPending
<1> QED BY <1>2, <1>3, <1>4, <1>5, CommitStep

(* BetsFollowVerdict, of one bet. *)
Follows(b) ==
    /\ status[b.event] = "CANCELLED" => b.status = "REFUNDED"
    /\ status[b.event] = "SETTLED" =>
          LET hits == {c \in BetsOn(b.event) : winner[c.option] = "TRUE"}
          IN  b.status = IF hits = {} THEN "REFUNDED"
                         ELSE IF b \in hits THEN "WIN" ELSE "LOSE"

(* The end of one event leaves the bets on the others as their event says. *)
LEMMA OthersFollow ==
    ASSUME SerialInv, NEW e \in Events, NEW final, NEW B, NEW sum, NEW outcome,
           EndStep(e, final, B, sum, outcome),
           \A o \in Options : o \notin OptionsOf(e) => winner'[o] = winner[o],
           NEW b \in bets, b.event # e
    PROVE  Follows(b)'
<1>1. IInv /\ OptionsFitEvents /\ Follows(b)
    BY DEF SerialInv, BetsFollowVerdict, Follows
<1>2. b.event \in Events
    BY <1>1 DEF IInv, TypeOK, Bet
<1>3. status'[b.event] = status[b.event]
    BY <1>1, <1>2, EndBets
<1>4. BetsOn(b.event)' = BetsOn(b.event)
    <2>1. /\ bets' = {Ended(c, e, outcome) : c \in bets}
          /\ \A c \in bets : Ended(c, e, outcome).event = c.event
        BY <1>1, EndBets
    <2>2. \A c \in bets : c.event # e => Ended(c, e, outcome) = c
        BY DEF Ended
    <2> QED BY <2>1, <2>2 DEF BetsOn
<1>5. \A c \in BetsOn(b.event) : winner'[c.option] = winner[c.option]
    <2>1. \A c \in BetsOn(b.event) : c.option \in Options /\ c.option \notin OptionsOf(e)
        BY <1>1 DEF IInv, TypeOK, Bet, BetsOn, OptionsFitEvents, OptionsOf
    <2> QED BY <2>1
<1>6. {c \in BetsOn(b.event) : winner'[c.option] = "TRUE"}
          = {c \in BetsOn(b.event) : winner[c.option] = "TRUE"}
    BY <1>5
<1> QED BY <1>1, <1>3, <1>4, <1>6 DEF Follows

LEMMA CommitFollows ==
    ASSUME SerialInv, NEW s \in Sessions, Commit(s)
    PROVE  BetsFollowVerdict'
<1>1. /\ IInv /\ OptionsFitEvents
      /\ \A b \in bets : Follows(b)
    BY DEF SerialInv, BetsFollowVerdict, Follows
<1> SUFFICES ASSUME NEW c \in bets' PROVE Follows(c)'
    BY DEF BetsFollowVerdict, Follows
<1>2. CASE PlaceStep
    <2>1. PICK b \in Bet : /\ status[b.event] = "OPEN"
                           /\ bets' = bets \cup {b} /\ UNCHANGED <<status, winner>>
        BY <1>2 DEF PlaceStep
    <2>2. CASE c.event = b.event
        BY <2>1, <2>2 DEF Follows
    <2>3. CASE c.event # b.event
        <3>1. c \in bets /\ BetsOn(c.event)' = BetsOn(c.event)
            BY <2>1, <2>3 DEF BetsOn
        <3> QED BY <1>1, <2>1, <3>1 DEF Follows
    <2> QED BY <2>2, <2>3
<1>3. CASE MoveStep
    <2>1. bets' = bets /\ winner' = winner
        BY <1>3 DEF MoveStep
    <2>2. BetsOn(c.event)' = BetsOn(c.event)
        BY <2>1 DEF BetsOn
    <2>3. c.event \in Events /\ status[c.event] # "READY"
        BY <1>1, <2>1 DEF IInv, TypeOK, Bet, UnopenedEventsHaveNoBets, BetsOn
    <2>4. status'[c.event] \in Final => status'[c.event] = status[c.event]
        BY <1>1, <1>3, <2>3 DEF MoveStep, Final, IInv, TypeOK
    <2> QED BY <1>1, <2>1, <2>2, <2>4 DEF Follows, Final
<1>4. ASSUME NEW e \in Events, CancelStep(e)
      PROVE  Follows(c)'
    <2> DEFINE amount == [b \in BetsOn(e) |-> b.amount]
               outcome == [b \in BetsOn(e) |-> "REFUNDED"]
    <2>1. EndStep(e, "CANCELLED", BetsOn(e), amount, outcome) /\ winner' = winner
        BY <1>4 DEF CancelStep
    <2>2. \A b \in bets : b.event = e => outcome[b] = "REFUNDED"
        BY DEF BetsOn
    <2> HIDE DEF amount, outcome
    <2>3. PICK b \in bets : c = Ended(b, e, outcome)
        BY <1>1, <2>1, EndBets
    <2>4. CASE b.event = e
        <3>1. c.event = e /\ c.status = "REFUNDED" /\ status'[e] = "CANCELLED"
            BY <1>1, <2>1, <2>2, <2>3, <2>4, EndBets
        <3> QED BY <3>1 DEF Follows
    <2>5. CASE b.event # e
        <3>1. Follows(b)'
            BY <2>1, <2>5, OthersFollow
        <3> QED BY <2>3, <2>5, <3>1 DEF Ended
    <2> QED BY <2>4, <2>5
<1>5. ASSUME NEW e \in Events, NEW winners \in SUBSET OptionsOf(e), SettleStep(e, winners)
      PROVE  Follows(c)'
    <2> DEFINE outcome == OutcomesOf(e, winners)
               hits == HitsOf(e, winners)
               hitsAfter == {d \in BetsOn(e)' : winner'[d.option] = "TRUE"}
    <2>1. /\ EndStep(e, "SETTLED", PaidBets(e, winners), PayoutsOf(e, winners), outcome)
          /\ \A o \in Options :
                winner'[o] = IF o \in OptionsOf(e) THEN Verdict(o, winners) ELSE winner[o]
        BY <1>5 DEF SettleStep
    <2>2. \A b \in bets : b.event = e =>
              /\ b \in hits <=> b.option \in winners
              /\ outcome[b] = IF hits = {} THEN "REFUNDED"
                              ELSE IF b \in hits THEN "WIN" ELSE "LOSE"
        BY DEF BetsOn, HitsOf, OutcomesOf
    <2>3. hits \subseteq bets /\ \A b \in hits : b.event = e
        BY DEF HitsOf, BetsOn
    <2> HIDE DEF outcome, hits
    <2>4. /\ bets' = {Ended(b, e, outcome) : b \in bets}
          /\ \A b \in bets : /\ Ended(b, e, outcome).event = b.event
                             /\ Ended(b, e, outcome).option = b.option
                             /\ Ended(b, e, outcome).status = IF b.event = e THEN outcome[b] ELSE b.status
        BY <1>1, <2>1, EndBets
    <2>5. \A b \in bets : b.event = e => (winner'[b.option] = "TRUE" <=> b \in hits)
        <3>1. \A b \in bets : b.event = e => b.option \in Options /\ b.option \in OptionsOf(e)
            BY <1>1 DEF IInv, TypeOK, Bet, OptionsFitEvents, OptionsOf
        <3> QED BY <2>1, <2>2, <3>1 DEF Verdict
    <2>6. \A b \in bets : Ended(b, e, outcome) \in hitsAfter <=> b \in hits
        BY <2>3, <2>4, <2>5 DEF BetsOn
    <2>7. hitsAfter = {} <=> hits = {}
        <3>1. hitsAfter \subseteq bets'
            BY DEF BetsOn
        <3> HIDE DEF hitsAfter
        <3> QED BY <2>3, <2>4, <2>6, <3>1
    <2>8. PICK b \in bets : c = Ended(b, e, outcome)
        BY <2>4
    <2>9. CASE b.event = e
        <3>1. status'[e] = "SETTLED"
            BY <1>1, <2>1, EndBets
        <3>2. c.event = e /\ c.status = IF hitsAfter = {} THEN "REFUNDED"
                                        ELSE IF c \in hitsAfter THEN "WIN" ELSE "LOSE"
            <4> HIDE DEF hitsAfter
            <4> QED BY <2>2, <2>4, <2>6, <2>7, <2>8, <2>9
        <3> QED BY <3>1, <3>2 DEF Follows
    <2>10. CASE b.event # e
        <3>1. Follows(b)'
            BY <2>1, <2>10, OthersFollow
        <3> QED BY <2>8, <2>10, <3>1 DEF Ended
    <2> QED BY <2>9, <2>10
<1> QED BY <1>2, <1>3, <1>4, <1>5, CommitStep

LEMMA InitSerialInv == Init => SerialInv
<1> SUFFICES ASSUME Init PROVE SerialInv
    OBVIOUS
<1>1. IInv
    BY InitIInv
<1>2. Tally
    BY InitTally
<1>3. OptionsFitEvents /\ LedgerChain /\ PendingUntilFinal /\ BetsFollowVerdict
    BY DEF Init, OptionsFitEvents, LedgerChain, PendingUntilFinal, BetsFollowVerdict
<1>4. \A s \in Sessions : UpToDate(txn[s])
    BY DEF Init, UpToDate
<1> QED BY <1>1, <1>2, <1>3, <1>4 DEF SerialInv

LEMMA NextSerialInv == SerialInv /\ Serial /\ [Next]_vars => SerialInv'
<1> SUFFICES ASSUME SerialInv, Serial, [Next]_vars PROVE SerialInv'
    OBVIOUS
<1>1. IInv' /\ IInv
    BY NextIInv DEF SerialInv
<1>2. ASSUME NEW s \in Sessions, Commit(s)
      PROVE  SerialInv'
    <2>1. Tally' /\ OptionsFitEvents' /\ LedgerChain' /\ PendingUntilFinal' /\ BetsFollowVerdict'
        BY <1>2, CommitTally, CommitFits, CommitChain, CommitPending, CommitFollows DEF SerialInv
    <2>2. \A t \in Sessions : txn'[t] = NoWrites
        BY <1>1, <1>2, CommitFacts DEF Serial, InFlight, Commit
    <2>3. \A t \in Sessions : UpToDate(txn[t])'
        BY <2>2 DEF UpToDate
    <2> QED BY <1>1, <2>1, <2>3 DEF SerialInv
<1>3. ASSUME \A s \in Sessions : ~ Commit(s)
      PROVE  SerialInv'
    <2>1. UNCHANGED dbVars /\ \A s \in Sessions : UpToDate(txn'[s])
        BY <1>1, <1>3, HandlersAreUpToDate DEF SerialInv
    <2>2. Tally' /\ OptionsFitEvents'
        BY <2>1 DEF dbVars, SerialInv, Tally, OptionStatsTally, BetsOf, OptionsFitEvents
    <2>3. LedgerChain' /\ PendingUntilFinal' /\ BetsFollowVerdict'
        BY <2>1 DEF dbVars, SerialInv, LedgerChain, PendingUntilFinal, BetsFollowVerdict, BetsOn
    <2>4. ASSUME NEW s \in Sessions
          PROVE  UpToDate(txn[s])'
        <3>1. PICK w : w = txn'[s]
            OBVIOUS
        <3>2. UpToDate(w)'
            BY <2>1, <3>1, StaysUpToDate
        <3>3. PlacesNow(w)' => PlacesNow(txn[s])'
            BY <3>1 DEF PlacesNow
        <3>4. SettlesNow(w)' => SettlesNow(txn[s])'
            BY <3>1 DEF SettlesNow
        <3>5. UpdatesNow(w)' => UpdatesNow(txn[s])'
            BY <3>1 DEF UpdatesNow
        <3>6. Scheduled(w)' => Scheduled(txn[s])'
            BY <3>1 DEF Scheduled
        <3> QED BY <3>1, <3>2, <3>3, <3>4, <3>5, <3>6 DEF UpToDate
    <2> QED BY <1>1, <2>2, <2>3, <2>4 DEF SerialInv
<1> QED BY <1>2, <1>3

(* Requests that do not overlap keep SerialInv. *)
THEOREM SerialInvariance == Spec /\ []Serial => []SerialInv
<1>1. Init => SerialInv
    BY InitSerialInv
<1>2. SerialInv /\ Serial /\ [Next]_vars => SerialInv'
    BY NextSerialInv
<1> QED BY <1>1, <1>2, PTL DEF Spec

(* Without overlaps no update of a balance is lost: each point_history row  *)
(* continues from the one before it (create_bet and the settlement engine   *)
(* write points_after and change_amount of the balance they found).         *)
THEOREM Chain == Spec /\ []Serial => []LedgerChain
<1>1. SerialInv => LedgerChain
    BY DEF SerialInv
<1> QED BY <1>1, SerialInvariance, PTL

(* Without overlaps settling or cancelling an event leaves no bet PENDING,  *)
(* and none comes after it.                                                 *)
THEOREM PendingEnds == Spec /\ []Serial => []PendingUntilFinal
<1>1. SerialInv => PendingUntilFinal
    BY DEF SerialInv
<1> QED BY <1>1, SerialInvariance, PTL

(* Without overlaps every bet ends as the verdict on its option and the     *)
(* status of its event say (SettlementEngine.run_settle).                   *)
THEOREM Verdicts == Spec /\ []Serial => []BetsFollowVerdict
<1>1. SerialInv => BetsFollowVerdict
    BY DEF SerialInv
<1> QED BY <1>1, SerialInvariance, PTL

(* Without overlaps a SETTLED or CANCELLED event stays so: its status is    *)
(* written after a look at it (allowed_map, run_settle's check).            *)
THEOREM FinalStays == Spec /\ []Serial => FinalStatusIsFinal
<1>1. SerialInv /\ [Next]_vars =>
          [\A e \in Events : status[e] \in Final => status'[e] = status[e]]_vars
    <2> SUFFICES ASSUME SerialInv, [Next]_vars, NEW x \in Events, status[x] \in Final
                 PROVE  status'[x] = status[x]
        OBVIOUS
    <2>1. IInv /\ TypeOK
        BY DEF SerialInv, IInv
    <2>2. ASSUME NEW s \in Sessions, Commit(s)
          PROVE  status'[x] = status[x]
        <3>1. CASE PlaceStep
            BY <3>1 DEF PlaceStep
        <3>2. CASE MoveStep
            BY <2>1, <3>2 DEF MoveStep, TypeOK, Final
        <3>3. ASSUME NEW e \in Events, CancelStep(e)
              PROVE  status'[x] = status[x]
            BY <2>1, <3>3 DEF CancelStep, EndStep, TypeOK, Final
        <3>4. ASSUME NEW e \in Events, NEW winners \in SUBSET OptionsOf(e), SettleStep(e, winners)
              PROVE  status'[x] = status[x]
            BY <2>1, <3>4 DEF SettleStep, EndStep, TypeOK, Final
        <3> QED BY <2>2, <3>1, <3>2, <3>3, <3>4, CommitStep
    <2>3. ASSUME \A s \in Sessions : ~ Commit(s)
          PROVE  status'[x] = status[x]
        BY <2>1, <2>3, HandlersAreUpToDate DEF SerialInv, dbVars
    <2> QED BY <2>2, <2>3
<1> QED BY <1>1, SerialInvariance, PTL DEF Spec, FinalStatusIsFinal

-----------------------------------------------------------------------------
(* The refinement *)

LEMMA AtomicSumIsSum == \A S, f : Atomic!SumOf(S, f) = SumOf(S, f)
BY DEF Atomic!SumOf, Atomic!Units, Atomic!Cardinality, SumOf, Units, Cardinality

LEMMA PlainFields ==
    ASSUME NEW b
    PROVE  /\ Plain(b).user = b.user /\ Plain(b).event = b.event /\ Plain(b).option = b.option
           /\ Plain(b).amount = b.amount /\ Plain(b).status = b.status
BY DEF Plain

(* Of the bets on an event, each user's is told apart without its id. *)
LEMMA PlainIsInjective ==
    ASSUME IInv, NEW e \in Events, NEW b \in BetsOn(e), NEW c \in BetsOn(e), b.user = c.user
    PROVE  b = c
BY DEF IInv, OneBetPerUserAndEvent, BetsOn

LEMMA PlainBetsOn ==
    ASSUME NEW e
    PROVE  Atomic!BetsOn(e) = {Plain(b) : b \in BetsOn(e)}
BY PlainFields DEF Atomic!BetsOn, BetsOn, PlainBets

LEMMA PlainStakes ==
    ASSUME IInv, Tally, NEW e \in Events, NEW B \in SUBSET BetsOn(e)
    PROVE  Atomic!Stakes({Plain(b) : b \in B}) = SumOf(B, Stake)
<1> DEFINE P == {Plain(b) : b \in B}
           g == [b \in B |-> Plain(b)]
           amount == [p \in P |-> p.amount]
<1>1. g \in Bijection(B, P)
    <2>1. \A b, c \in B : Plain(b) = Plain(c) => b = c
        BY PlainIsInjective, PlainFields
    <2> QED BY <2>1 DEF Bijection, Injection, Surjection, IsInjective
<1>2. \A b \in B : Stake[b] \in Nat /\ amount[g[b]] = Stake[b]
    BY StakeIsPositive, PlainFields DEF BetsOn
<1>3. IsFiniteSet(B)
    BY FS_Subset DEF Tally, BetsOn
<1>4. Atomic!Stakes(P) = SumOf(P, amount)
    BY AtomicSumIsSum DEF Atomic!Stakes
<1> HIDE DEF P, g, amount
<1>5. SumOf(P, amount) = SumOf(B, Stake)
    BY <1>1, <1>2, <1>3, SumOfRenamed
<1> QED BY <1>4, <1>5 DEF P

(* The share is what the exact division gives. *)
LEMMA ShareIsQuotient ==
    ASSUME NEW a \in Nat, NEW pool \in Nat, NEW won \in Nat, won > 0
    PROVE  Atomic!Share(a, pool, won) = (a * pool) \div won
<1> DEFINE product == a * pool
           q == product \div won
           Fit(p) == p * won <= product /\ product < (p + 1) * won
<1>1. product \in Nat
    OBVIOUS
<1> HIDE DEF product
<1>2. q \in Nat /\ Fit(q)
    BY <1>1
<1>3. q <= q * won
    BY <1>2
<1>4. q \in 0 .. product
    BY <1>1, <1>2, <1>3
<1>5. ASSUME NEW p \in 0 .. product, Fit(p)
      PROVE  p = q
    <2>1. p \in Nat /\ p * won < (q + 1) * won /\ q * won < (p + 1) * won
        BY <1>1, <1>2, <1>5
    <2>2. p < q + 1 /\ q < p + 1
        BY <1>2, <2>1
    <2> QED BY <1>2, <2>1, <2>2
<1> HIDE DEF q
<1>6. (CHOOSE p \in 0 .. product : p * won <= product /\ product < (p + 1) * won) = q
    BY <1>2, <1>4, <1>5
<1> QED BY <1>6 DEF Atomic!Share, product, q

(* The end of an event closes it: p pays and o decides for the bets without *)
(* ids what sum and outcome do for the rows.                                *)
LEMMA EndCloses ==
    ASSUME IInv, TypeOK', NEW e \in Events, NEW final, NEW B \in SUBSET BetsOn(e),
           NEW sum, NEW outcome, EndStep(e, final, B, sum, outcome),
           NEW o, NEW p,
           \A b \in BetsOn(e) : /\ o[Plain(b)] = outcome[b]
                                /\ p[Plain(b)] \in Nat
                                /\ p[Plain(b)] = IF b \in B THEN sum[b] ELSE 0
    PROVE  Atomic!Close(e, final, o, p)
<1> DEFINE on == Atomic!BetsOn(e)
<1>1. on = {Plain(b) : b \in BetsOn(e)}
    BY PlainBetsOn
<1>2. status' = [status EXCEPT ![e] = final]
    BY DEF EndStep
<1>3. PlainBets' = (PlainBets \ on) \cup {[b EXCEPT !.status = o[b]] : b \in on}
    <2>1. PlainBets' = {Plain(c) : c \in bets'}
        BY DEF PlainBets, Plain
    <2>2. bets' = {Ended(b, e, outcome) : b \in bets}
        BY EndBets
    <2>3. \A b \in bets : Plain(Ended(b, e, outcome)) =
              IF b.event = e THEN [Plain(b) EXCEPT !.status = o[Plain(b)]] ELSE Plain(b)
        <3>1. \A b \in bets : b.event = e => o[Plain(b)] = outcome[b]
            BY DEF BetsOn
        <3>2. \A b \in bets : b.event = e =>
                  Plain(Ended(b, e, outcome)) = [Plain(b) EXCEPT !.status = outcome[b]]
            BY EndBets DEF Plain
        <3> QED BY <3>1, <3>2 DEF Ended
    <2>4. \A b \in bets : Plain(b) \in on <=> b.event = e
        BY PlainFields, <1>1 DEF BetsOn
    <2>5. on \subseteq PlainBets
        BY <1>1 DEF PlainBets, BetsOn
    <2> HIDE DEF on
    <2>6. \A x : x \in PlainBets' <=> \E b \in bets : x = Plain(Ended(b, e, outcome))
        BY <2>1, <2>2
    <2>7. \A x : x \in PlainBets <=> \E b \in bets : x = Plain(b)
        BY DEF PlainBets
    <2>8. ASSUME NEW x \in PlainBets'
          PROVE  x \in (PlainBets \ on) \cup {[b EXCEPT !.status = o[b]] : b \in on}
        BY <2>3, <2>4, <2>6, <2>7
    <2>9. ASSUME NEW x \in PlainBets, x \notin on
          PROVE  x \in PlainBets'
        BY <2>3, <2>4, <2>6, <2>7, <2>9
    <2>10. ASSUME NEW y \in on
           PROVE  [y EXCEPT !.status = o[y]] \in PlainBets'
        BY <2>3, <2>4, <2>5, <2>6, <2>7
    <2> QED BY <2>8, <2>9, <2>10
<1>4. ASSUME NEW u \in Users
      PROVE  points'[u] = points[u] + Atomic!SumOf({b \in on : b.user = u}, p)
    <2>1. points[u] \in Nat
        BY DEF IInv, TypeOK
    <2>2. CASE \E b \in BetsOn(e) : b.user = u
        <3>1. PICK b \in BetsOn(e) : b.user = u
            BY <2>2
        <3>2. \A c \in BetsOn(e) : c.user = u => c = b
            BY <3>1, PlainIsInjective
        <3>3. {x \in on : x.user = u} = {Plain(b)}
            BY <1>1, <3>1, <3>2, PlainFields
        <3>4. Atomic!SumOf({x \in on : x.user = u}, p) = p[Plain(b)]
            BY <3>3, AtomicSumIsSum, SumOfOne
        <3>5. CASE b \in B
            <4>1. points'[u] = points[u] + sum[b]
                BY <3>1, <3>5 DEF EndStep
            <4> QED BY <3>4, <3>5, <4>1
        <3>6. CASE b \notin B
            <4>1. \A c \in B : c.user # u
                BY <3>2, <3>6
            <4>2. points'[u] = points[u]
                BY <4>1 DEF EndStep
            <4> QED BY <2>1, <3>4, <3>6, <4>2
        <3> QED BY <3>5, <3>6
    <2>3. CASE \A b \in BetsOn(e) : b.user # u
        <3>1. {x \in on : x.user = u} = {}
            BY <1>1, <2>3, PlainFields
        <3>2. Atomic!SumOf({x \in on : x.user = u}, p) = 0
            BY <3>1, AtomicSumIsSum, SumOfNone
        <3>3. points'[u] = points[u]
            BY <2>3 DEF EndStep
        <3> QED BY <2>1, <3>2, <3>3
    <2> QED BY <2>2, <2>3
<1>5. points' = [u \in Users |-> points[u] + Atomic!SumOf({b \in on : b.user = u}, p)]
    <2>1. points' = [u \in Users |-> points'[u]]
        BY DEF TypeOK
    <2> QED BY <1>4, <2>1
<1> QED BY <1>2, <1>3, <1>5 DEF Atomic!Close

LEMMA PlaceRefines ==
    ASSUME IInv, PlaceStep
    PROVE  Atomic!Next
<1>1. PICK b \in Bet :
          /\ status[b.event] = "OPEN" /\ EventOf[b.option] = b.event
          /\ \A c \in BetsOn(b.event) : c.user # b.user
          /\ points[b.user] >= b.amount
          /\ b.status = "PENDING"
          /\ bets' = bets \cup {b}
          /\ points' = [points EXCEPT ![b.user] = @ - b.amount]
          /\ UNCHANGED status
    BY DEF PlaceStep
<1>2. b.user \in Users /\ b.option \in Options /\ b.amount \in Amounts
    BY DEF Bet
<1>3. ~ \E p \in Atomic!BetsOn(b.event) : p.user = b.user
    BY <1>1, PlainBetsOn, PlainFields
<1>4. PlainBets' = PlainBets \cup {Plain(b)}
    BY <1>1 DEF PlainBets, Plain
<1>5. Plain(b) = [user |-> b.user, event |-> EventOf[b.option], option |-> b.option,
                  amount |-> b.amount, status |-> "PENDING"]
    BY <1>1 DEF Plain
<1>6. b.amount <= points[b.user]
    BY <1>1, <1>2, AmountsAssumption DEF IInv, TypeOK
<1>7. Atomic!PlaceBet(b.user, b.option, b.amount)
    BY <1>1, <1>3, <1>4, <1>5, <1>6 DEF Atomic!PlaceBet
<1> QED BY <1>2, <1>7 DEF Atomic!Next

LEMMA MoveRefines ==
    ASSUME IInv, TypeOK', MoveStep
    PROVE  [Atomic!Next]_Atomic!vars
<1>1. PlainBets' = PlainBets /\ points' = points
    BY DEF MoveStep, PlainBets, Plain
<1>2. CASE status' = status
    BY <1>1, <1>2 DEF Atomic!vars
<1>3. ASSUME NEW e \in Events, status[e] = "READY", status' = [status EXCEPT ![e] = "OPEN"]
      PROVE  Atomic!Advance(e)
    BY <1>1, <1>3 DEF Atomic!Advance
<1>4. ASSUME NEW e \in Events, status[e] = "OPEN", status' = [status EXCEPT ![e] = "CLOSED"]
      PROVE  Atomic!Advance(e)
    BY <1>1, <1>4 DEF Atomic!Advance
<1>5. ASSUME NEW e \in Events, status[e] = "READY", status' = [status EXCEPT ![e] = "CANCELLED"]
      PROVE  Atomic!Cancel(e)
    <2>1. Atomic!BetsOn(e) = {}
        BY <1>5, PlainBetsOn DEF IInv, UnopenedEventsHaveNoBets
    <2>2. points' = [u \in Users |-> points[u] + Atomic!SumOf({}, [b \in {} |-> b.amount])]
        BY <1>1, AtomicSumIsSum, SumOfNone DEF IInv, TypeOK
    <2> QED BY <1>1, <1>5, <2>1, <2>2 DEF Atomic!Cancel, Atomic!Refund, Atomic!Close
<1> QED BY <1>2, <1>3, <1>4, <1>5 DEF MoveStep, Atomic!Next

LEMMA CancelRefines ==
    ASSUME IInv, TypeOK', NEW e \in Events, CancelStep(e)
    PROVE  Atomic!Cancel(e)
<1> DEFINE B == BetsOn(e)
           on == Atomic!BetsOn(e)
           sum == [b \in B |-> b.amount]
           outcome == [b \in B |-> "REFUNDED"]
           o == [b \in on |-> "REFUNDED"]
           p == [b \in on |-> b.amount]
<1>1. EndStep(e, "CANCELLED", B, sum, outcome) /\ B \in SUBSET BetsOn(e)
    BY DEF CancelStep
<1>2. \A b \in BetsOn(e) : /\ o[Plain(b)] = outcome[b]
                           /\ p[Plain(b)] \in Nat
                           /\ p[Plain(b)] = IF b \in B THEN sum[b] ELSE 0
    <2>1. \A b \in BetsOn(e) : Plain(b) \in on /\ Plain(b).amount = b.amount /\ b.amount \in Nat
        BY PlainBetsOn, PlainFields, StakeIsPositive DEF BetsOn
    <2> QED BY <2>1
<1> HIDE DEF B, sum, outcome, o, p
<1>3. Atomic!Close(e, "CANCELLED", o, p)
    BY <1>1, <1>2, EndCloses
<1> QED BY <1>3 DEF CancelStep, Atomic!Cancel, Atomic!Refund, o, p

LEMMA SettleRefines ==
    ASSUME IInv, Tally, TypeOK', NoGain, NEW e \in Events, NEW winners \in SUBSET OptionsOf(e),
           SettleStep(e, winners)
    PROVE  Atomic!Settle(e, winners)
<1> DEFINE B == BetsOn(e)
           H == HitsOf(e, winners)
           paid == PaidBets(e, winners)
           sum == PayoutsOf(e, winners)
           outcome == OutcomesOf(e, winners)
           on == Atomic!BetsOn(e)
           hits == {b \in on : b.option \in winners}
           pool == SumOf(B, Stake)
           won == SumOf(H, Stake)
<1>1. /\ status[e] = "CLOSED" /\ paid \in SUBSET B
      /\ EndStep(e, "SETTLED", paid, sum, outcome)
    BY DEF SettleStep, PaidBets, HitsOf
<1>2. on = {Plain(b) : b \in B} /\ hits = {Plain(b) : b \in H}
    <2>1. on = {Plain(b) : b \in B}
        BY PlainBetsOn
    <2> QED BY <2>1, PlainFields DEF HitsOf
<1>3. \A b \in B : /\ Plain(b) \in on /\ Plain(b).amount = b.amount /\ b.amount \in Nat
                   /\ Plain(b) \in hits <=> b \in H
    BY <1>2, PlainFields, StakeIsPositive DEF BetsOn, HitsOf
<1>4. CASE H = {}
    <2> DEFINE o == [b \in on |-> "REFUNDED"]
               p == [b \in on |-> b.amount]
    <2>1. \A b \in B : sum[b] = b.amount /\ outcome[b] = "REFUNDED" /\ paid = B
        BY <1>4 DEF PayoutsOf, OutcomesOf, PaidBets
    <2>2. \A b \in BetsOn(e) : /\ o[Plain(b)] = outcome[b]
                               /\ p[Plain(b)] \in Nat
                               /\ p[Plain(b)] = IF b \in paid THEN sum[b] ELSE 0
        BY <1>3, <2>1
    <2> HIDE DEF paid, sum, outcome, o, p
    <2>3. Atomic!Close(e, "SETTLED", o, p)
        BY <1>1, <2>2, EndCloses
    <2>4. hits = {}
        BY <1>2, <1>4
    <2> QED BY <1>1, <2>3, <2>4 DEF Atomic!Settle, Atomic!Refund, o, p
<1>5. CASE H # {}
    <2> DEFINE args(b) == <<b.amount, pool, won>>
               short == {b \in hits : args(b) \in DOMAIN RatioError}
               o == [b \in on |-> IF b \in hits THEN "WIN" ELSE "LOSE"]
               share == [b \in hits |-> Atomic!Share(b.amount, Atomic!Stakes(on), Atomic!Stakes(hits))]
               p == [b \in on |-> IF b \notin hits THEN 0
                                  ELSE IF b \in short THEN share[b] - 1 ELSE share[b]]
    <2>1. pool \in Nat /\ won \in Nat /\ won > 0 /\ won <= pool
        <3>1. IsFiniteSet(B) /\ B \subseteq bets /\ H \subseteq B /\ IsFiniteSet(H)
            BY FS_Subset DEF Tally, BetsOn, HitsOf
        <3>2. pool \in Nat /\ won \in Nat /\ won # 0
            BY <1>5, <3>1, StakeIsInPool
        <3>3. \A b \in B : Stake[b] \in Nat
            BY <3>1, StakeIsPositive
        <3>4. won <= pool
            BY <3>1, <3>3, SumOfPart
        <3> QED BY <3>2, <3>4
    <2>2. Atomic!Stakes(on) = pool /\ Atomic!Stakes(hits) = won
        <3>1. H \in SUBSET B /\ B \in SUBSET B
            BY DEF HitsOf
        <3> QED BY <1>2, <3>1, PlainStakes
    <2>3. \A b \in hits : b.amount \in Nat
        BY <1>2, <1>3 DEF HitsOf
    <2> HIDE DEF pool, won
    <2>4. ASSUME NEW b \in hits
          PROVE  /\ share[b] = (b.amount * pool) \div won
                 /\ CalculatePayout(b.amount, pool, won) =
                        IF b \in short THEN share[b] - 1 ELSE share[b]
                 /\ CalculatePayout(b.amount, pool, won) \in Nat
                 /\ CalculatePayout(b.amount, pool, won) >= b.amount
        <3>1. share[b] = (b.amount * pool) \div won
            BY <2>1, <2>2, <2>3, ShareIsQuotient
        <3>2. b \in short <=> args(b) \in DOMAIN RatioError
            OBVIOUS
        <3>3. /\ CalculatePayout(b.amount, pool, won) \in Nat
              /\ CalculatePayout(b.amount, pool, won) >= b.amount
            <4>1. b.amount \in Nat /\ pool \in Nat /\ won \in Nat /\ won # 0 /\ won <= pool
                BY <2>1, <2>3
            <4> HIDE DEF hits
            <4> QED BY <4>1, PayoutIsNat, PayoutCoversStake
        <3>4. share[b] \in Int
            BY <2>1, <2>3, <3>1
        <3> HIDE DEF share, short
        <3>5. CalculatePayout(b.amount, pool, won) = IF b \in short THEN share[b] - 1 ELSE share[b]
            BY <3>1, <3>2, <3>4 DEF CalculatePayout, NoGain
        <3> QED BY <3>1, <3>3, <3>5
    <2>5. /\ paid = H
          /\ \A b \in B : sum[b] = IF b \in H THEN CalculatePayout(b.amount, pool, won) ELSE 0
          /\ \A b \in B : outcome[b] = IF b \in H THEN "WIN" ELSE "LOSE"
        BY <1>5 DEF PaidBets, PayoutsOf, OutcomesOf, HitsOf, pool, won
    <2>6. \A b \in on : /\ o[b] = IF b \in hits THEN "WIN" ELSE "LOSE"
                        /\ p[b] = IF b \notin hits THEN 0
                                  ELSE CalculatePayout(b.amount, pool, won)
        BY <2>4
    <2>7. short \in SUBSET hits /\ \A b \in short : p[b] >= b.amount
        BY <2>4, <2>6
    <2> HIDE DEF paid, sum, outcome, H, hits
    <2>8. \A b \in BetsOn(e) : /\ o[Plain(b)] = outcome[b]
                               /\ p[Plain(b)] \in Nat
                               /\ p[Plain(b)] = IF b \in paid THEN sum[b] ELSE 0
        <3> HIDE DEF o, p, short, share
        <3>1. ASSUME NEW b \in B
              PROVE  /\ o[Plain(b)] = outcome[b]
                     /\ p[Plain(b)] \in Nat
                     /\ p[Plain(b)] = IF b \in paid THEN sum[b] ELSE 0
            <4>1. CASE b \in H
                BY <1>3, <2>4, <2>5, <2>6, <4>1
            <4>2. CASE b \notin H
                BY <1>3, <2>5, <2>6, <4>2
            <4> QED BY <4>1, <4>2
        <3> QED BY <3>1
    <2>9. Atomic!Close(e, "SETTLED", o, p)
        <3> HIDE DEF o, p
        <3> QED BY <1>1, <2>8, EndCloses
    <2>10. hits # {}
        BY <1>2, <1>5
    <2> QED BY <1>1, <2>7, <2>9, <2>10 DEF Atomic!Settle, hits
<1> QED BY <1>4, <1>5

(* Requests that do not overlap do what they would do at one instant:       *)
(* create_bet, the status changes, cancel and run_settle, with their        *)
(* snapshots, statistics and late commits, implement AtomicBetting, where   *)
(* the float ratio never gains a point.                                     *)
THEOREM Refinement == ASSUME NoGain PROVE Spec /\ []Serial => AtomicSpec
<1>1. Init => Atomic!Init
    BY DEF Init, Atomic!Init, PlainBets
<1>2. SerialInv /\ SerialInv' /\ [Next]_vars => [Atomic!Next]_Atomic!vars
    <2> SUFFICES ASSUME SerialInv, SerialInv', [Next]_vars
                 PROVE  [Atomic!Next]_Atomic!vars
        OBVIOUS
    <2>1. IInv /\ Tally /\ TypeOK'
        BY DEF SerialInv, IInv
    <2>2. ASSUME NEW s \in Sessions, Commit(s)
          PROVE  [Atomic!Next]_Atomic!vars
        <3>1. CASE PlaceStep
            BY <2>1, <3>1, PlaceRefines
        <3>2. CASE MoveStep
            BY <2>1, <3>2, MoveRefines
        <3>3. ASSUME NEW e \in Events, CancelStep(e)
              PROVE  Atomic!Next
            BY <2>1, <3>3, CancelRefines DEF Atomic!Next
        <3>4. ASSUME NEW e \in Events, NEW winners \in SUBSET OptionsOf(e), SettleStep(e, winners)
              PROVE  Atomic!Next
            <4>1. winners \in SUBSET Options
                BY DEF OptionsOf
            <4> QED BY <2>1, <3>4, <4>1, SettleRefines DEF Atomic!Next
        <3> QED BY <2>2, <3>1, <3>2, <3>3, <3>4, CommitStep
    <2>3. ASSUME \A s \in Sessions : ~ Commit(s)
          PROVE  [Atomic!Next]_Atomic!vars
        <3>1. UNCHANGED dbVars
            BY <2>1, <2>3, HandlersAreUpToDate DEF SerialInv
        <3> QED BY <3>1 DEF dbVars, Atomic!vars, PlainBets, Plain
    <2> QED BY <2>2, <2>3
<1> QED BY <1>1, <1>2, SerialInvariance, PTL DEF Spec, AtomicSpec, Atomic!Spec

-----------------------------------------------------------------------------
(* Points are conserved *)

(* The points that the end of an event adds to the balances. *)
LEMMA PointsAfterEnd ==
    ASSUME IInv, Tally, TypeOK', IsFiniteSet(Users),
           NEW e \in Events, NEW final, NEW B \in SUBSET BetsOn(e), NEW sum, NEW outcome,
           EndStep(e, final, B, sum, outcome),
           \A b \in B : sum[b] \in Nat
    PROVE  SumOf(Users, points') = SumOf(Users, points) + SumOf(B, sum)
<1> DEFINE part == [u \in Users |-> {b \in B : b.user = u}]
           gain == [u \in Users |-> SumOf(part[u], sum)]
<1>1. IsFiniteSet(B) /\ \A b \in B : b.user \in Users
    BY FS_Subset DEF Tally, BetsOn, IInv, TypeOK, Bet
<1>2. ASSUME NEW u \in Users
      PROVE  points'[u] = points[u] + gain[u] /\ gain[u] \in Nat /\ points[u] \in Nat
    <2>1. points[u] \in Nat
        BY DEF IInv, TypeOK
    <2>2. ASSUME NEW b \in B, b.user = u
          PROVE  points'[u] = points[u] + gain[u] /\ gain[u] \in Nat
        <3>1. part[u] = {b}
            BY <2>2, PlainIsInjective
        <3>2. gain[u] = sum[b]
            BY <3>1, SumOfOne
        <3> QED BY <2>2, <3>2 DEF EndStep
    <2>3. ASSUME \A b \in B : b.user # u
          PROVE  points'[u] = points[u] + gain[u] /\ gain[u] \in Nat
        <3>1. part[u] = {}
            BY <2>3
        <3>2. gain[u] = 0
            BY <3>1, SumOfNone
        <3> QED BY <2>1, <2>3, <3>2 DEF EndStep
    <2> QED BY <2>1, <2>2, <2>3
<1>3. SumOf(Users, points') = SumOf(Users, points) + SumOf(Users, gain)
    <2> HIDE DEF gain
    <2> QED BY <1>2, SumOfBoth
<1>4. SumOf(Users, gain) = SumOf(UNION {part[u] : u \in Users}, sum)
    <2>1. \A u \in Users : /\ IsFiniteSet(part[u])
                           /\ \A b \in part[u] : sum[b] \in Nat
                           /\ gain[u] = SumOf(part[u], sum)
        BY <1>1, FS_Subset
    <2>2. \A u, v \in Users : u # v => part[u] \cap part[v] = {}
        OBVIOUS
    <2> HIDE DEF part, gain
    <2> QED BY <2>1, <2>2, SumOfSums
<1>5. UNION {part[u] : u \in Users} = B
    BY <1>1
<1> QED BY <1>3, <1>4, <1>5

(* The end of an event takes its stakes out of the pending ones. *)
LEMMA PendingAfterEnd ==
    ASSUME IInv, Tally, PendingUntilFinal, NEW e \in Events, status[e] \notin Final,
           NEW final, NEW B, NEW sum, NEW outcome,
           \A b \in BetsOn(e) : outcome[b] # "PENDING",
           EndStep(e, final, B, sum, outcome)
    PROVE  SumOf(Pending, Stake) = SumOf(Pending', Stake') + SumOf(BetsOn(e), Stake)
<1> DEFINE rest == Pending \ BetsOn(e)
<1>1. BetsOn(e) \subseteq Pending /\ Pending \subseteq bets
    BY DEF PendingUntilFinal, Pending, BetsOn
<1>2. IsFiniteSet(rest) /\ IsFiniteSet(BetsOn(e))
    BY <1>1, FS_Subset DEF Tally
<1>3. \A b \in bets : Stake[b] \in Nat
    BY StakeIsPositive
<1>4. Pending' = rest
    <2>1. \A b \in bets : b.event # e => Ended(b, e, outcome) = b
        BY DEF Ended
    <2>2. \A b \in bets : b.event = e => Ended(b, e, outcome).status # "PENDING"
        BY EndBets DEF BetsOn
    <2>3. bets' = {Ended(b, e, outcome) : b \in bets}
        BY EndBets
    <2> QED BY <2>1, <2>2, <2>3 DEF Pending, BetsOn
<1>5. SumOf(Pending', Stake') = SumOf(rest, Stake)
    <2>1. \A b \in rest : Stake'[b] = Stake[b]
        BY <1>4 DEF Pending, Stake
    <2> HIDE DEF rest
    <2> QED BY <1>4, <2>1, SumOfSame
<1>6. rest \cup BetsOn(e) = Pending /\ rest \cap BetsOn(e) = {}
    BY <1>1
<1> HIDE DEF rest
<1>7. SumOf(rest \cup BetsOn(e), Stake) = SumOf(rest, Stake) + SumOf(BetsOn(e), Stake)
    BY <1>1, <1>2, <1>3, <1>6, SumOfDisjoint
<1> QED BY <1>5, <1>6, <1>7

(* It adds its hits to the bets that won. *)
LEMMA HitsAfterEnd ==
    ASSUME IInv, Tally, PendingUntilFinal, NEW e \in Events, status[e] \notin Final,
           NEW final, NEW B, NEW sum, NEW outcome, NEW H,
           H = {b \in BetsOn(e) : outcome[b] = "WIN"},
           EndStep(e, final, B, sum, outcome)
    PROVE  Cardinality(Hits') = Cardinality(Hits) + Cardinality(H)
<1> DEFINE won == {Ended(b, e, outcome) : b \in H}
           g == [b \in H |-> Ended(b, e, outcome)]
<1>1. H \subseteq bets /\ IsFiniteSet(H) /\ IsFiniteSet(Hits) /\ Hits \subseteq bets
    BY FS_Subset DEF Tally, BetsOn, Hits
<1>2. /\ bets' = {Ended(b, e, outcome) : b \in bets}
      /\ \A b \in bets : /\ Ended(b, e, outcome).id = b.id
                         /\ Ended(b, e, outcome).event = b.event
                         /\ Ended(b, e, outcome).status = IF b.event = e THEN outcome[b] ELSE b.status
    BY EndBets
<1>3. \A b \in Hits : b.event # e
    BY DEF Hits, PendingUntilFinal
<1>4. \A b \in bets : b.event # e => Ended(b, e, outcome) = b
    BY DEF Ended
<1>5. Hits' = Hits \cup won
    BY <1>2, <1>3, <1>4 DEF Hits, BetsOn
<1>6. Hits \cap won = {}
    BY <1>1, <1>2, <1>3 DEF BetsOn
<1>7. g \in Bijection(H, won)
    <2>1. \A b, c \in H : Ended(b, e, outcome) = Ended(c, e, outcome) => b = c
        BY <1>1, <1>2 DEF IInv, UniqueIds
    <2> QED BY <2>1 DEF Bijection, Injection, Surjection, IsInjective
<1> HIDE DEF won, g
<1>8. IsFiniteSet(won) /\ Cardinality(won) = Cardinality(H)
    BY <1>1, <1>7, FS_Bijection DEF ExistsBijection
<1>9. Cardinality(Hits \cup won) = Cardinality(Hits) + Cardinality(won) - Cardinality(Hits \cap won)
    BY <1>1, <1>8, FS_Union
<1>10. Cardinality(Hits \cap won) = 0 /\ Cardinality(Hits) \in Nat /\ Cardinality(won) \in Nat
    BY <1>1, <1>6, <1>8, FS_EmptySet, FS_CardinalityType
<1> QED BY <1>5, <1>8, <1>9, <1>10

(* A payout is the stake's share of the pool, rounded down, or a point less *)
(* than a whole share.                                                      *)
LEMMA PayoutIsAlmostShare ==
    ASSUME NoGain, NEW amount \in Nat, NEW totalPool \in Nat, NEW winningPool \in Nat, winningPool # 0
    PROVE  LET payout == CalculatePayout(amount, totalPool, winningPool)
           IN  /\ winningPool * payout <= totalPool * amount
               /\ totalPool * amount <= winningPool * (payout + 1)
<1> DEFINE product == amount * totalPool
           q == product \div winningPool
           args == <<amount, totalPool, winningPool>>
           payout == CalculatePayout(amount, totalPool, winningPool)
<1>1. product \in Nat /\ totalPool * amount = product
    OBVIOUS
<1>2. args \in DOMAIN RatioError => RatioError[args] = -1 /\ product % winningPool = 0
    BY RatioErrorAssumption DEF NoGain
<1>3. payout = IF args \in DOMAIN RatioError THEN q + RatioError[args] ELSE q + 0
    BY DEF CalculatePayout
<1>4. payout \in Nat
    BY PayoutIsNat
<1> HIDE DEF product, payout, args
<1>5. /\ q \in Int /\ winningPool * q <= product /\ product <= winningPool * (q + 1)
      /\ product % winningPool = 0 => winningPool * q = product
    BY <1>1
<1> HIDE DEF q
<1>6. CASE payout = q
    BY <1>1, <1>5, <1>6 DEF payout
<1>7. CASE payout = q - 1 /\ winningPool * q = product
    <2>1. winningPool * (q - 1) <= winningPool * q
        BY <1>5
    <2>2. payout + 1 = q
        BY <1>5, <1>7
    <2> QED BY <1>1, <1>7, <2>1, <2>2 DEF payout
<1>8. payout = q \/ (payout = q - 1 /\ winningPool * q = product)
    BY <1>2, <1>3, <1>5
<1> QED BY <1>6, <1>7, <1>8

(* A settlement pays out what was staked, less at most a point per hit. *)
LEMMA SettlePays ==
    ASSUME IInv, Tally, NoGain, NEW e \in Events, NEW winners
    PROVE  LET S == SumOf(BetsOn(e), Stake)
               T == SumOf(PaidBets(e, winners), PayoutsOf(e, winners))
               H == {b \in BetsOn(e) : OutcomesOf(e, winners)[b] = "WIN"}
           IN  /\ \A b \in PaidBets(e, winners) : PayoutsOf(e, winners)[b] \in Nat
               /\ T \in Nat /\ T <= S /\ S - T <= Cardinality(H)
<1> DEFINE B == BetsOn(e)
           hits == HitsOf(e, winners)
           paid == PaidBets(e, winners)
           sum == PayoutsOf(e, winners)
           S == SumOf(B, Stake)
           T == SumOf(paid, sum)
           H == {b \in B : OutcomesOf(e, winners)[b] = "WIN"}
           won == SumOf(hits, Stake)
<1>1. /\ IsFiniteSet(B) /\ B \subseteq bets
      /\ IsFiniteSet(hits) /\ hits \subseteq B
    BY FS_Subset DEF Tally, BetsOn, HitsOf
<1>2. \A b \in B : Stake[b] \in Nat /\ Stake[b] = b.amount
    BY <1>1, StakeIsPositive
<1>3. S \in Nat /\ won \in Nat /\ (won = 0 <=> hits = {})
    BY <1>1, StakeIsInPool
<1>4. IsFiniteSet(H) /\ Cardinality(H) \in Nat
    BY <1>1, FS_Subset, FS_CardinalityType
<1>5. CASE hits = {}
    <2>1. paid = B /\ \A b \in B : sum[b] = Stake[b]
        BY <1>2, <1>5 DEF PaidBets, PayoutsOf
    <2>2. T = S
        <3> HIDE DEF sum, B, paid
        <3> QED BY <2>1, SumOfSame
    <2> QED BY <1>2, <1>3, <1>4, <2>1, <2>2
<1>6. CASE hits # {}
    <2>1. paid = hits /\ H = hits
        BY <1>6 DEF PaidBets, OutcomesOf, HitsOf
    <2>2. \A b \in hits : sum[b] = CalculatePayout(b.amount, S, won)
        BY <1>6 DEF PayoutsOf, HitsOf
    <2> HIDE DEF B, hits, paid, sum, S, T, H, won
    <2>3. ASSUME NEW b \in hits
          PROVE  /\ sum[b] \in Nat
                 /\ won * sum[b] <= S * Stake[b]
                 /\ S * Stake[b] <= won * (sum[b] + 1)
        <3>1. b.amount \in Nat /\ Stake[b] = b.amount /\ won # 0
            BY <1>1, <1>2, <1>3, <1>6
        <3> QED BY <1>3, <2>2, <3>1, PayoutIsNat, PayoutIsAlmostShare
    <2>4. T \in Nat /\ T = SumOf(hits, sum)
        BY <1>1, <2>1, <2>3, SumIsNat DEF T
    <2>5. won * SumOf(hits, sum) <= S * SumOf(hits, Stake)
        BY <1>1, <1>2, <1>3, <2>3, SumOfShares
    <2> DEFINE ones == [b \in hits |-> 1]
               more == [b \in hits |-> sum[b] + 1]
    <2>6. S * SumOf(hits, Stake) <= won * SumOf(hits, more)
        <3>1. \A b \in hits : more[b] \in Nat /\ more[b] = sum[b] + 1
            BY <2>3
        <3> HIDE DEF more
        <3>2. \A b \in hits : Stake[b] \in Nat /\ more[b] \in Nat /\ S * Stake[b] <= won * more[b]
            BY <1>1, <1>2, <2>3, <3>1
        <3> QED BY <1>1, <1>3, <3>2, SumOfShares
    <2>7. SumOf(hits, more) = SumOf(hits, sum) + Cardinality(hits)
        <3>1. \A b \in hits : /\ sum[b] \in Nat /\ ones[b] \in Nat
                              /\ more[b] = sum[b] + ones[b] /\ ones[b] = 1
            BY <2>3
        <3> HIDE DEF more, ones
        <3>2. SumOf(hits, more) = SumOf(hits, sum) + SumOf(hits, ones)
            BY <1>1, <3>1, SumOfBoth
        <3>3. SumOf(hits, ones) = Cardinality(hits)
            BY <1>1, <3>1, SumOfOnes
        <3> QED BY <3>2, <3>3
    <2>8. won * T <= won * S /\ won * S <= won * (T + Cardinality(H))
        <3>1. SumOf(hits, Stake) = won
            BY DEF won
        <3>2. S * won = won * S
            BY <1>3
        <3> HIDE DEF more, ones
        <3> QED BY <2>1, <2>4, <2>5, <2>6, <2>7, <3>1, <3>2
    <2>9. \A x, y \in Nat : won * x <= won * y => x <= y
        BY <1>3, <1>6
    <2>10. T <= S /\ S <= T + Cardinality(H)
        <3>1. S \in Nat /\ T \in Nat /\ T + Cardinality(H) \in Nat
            BY <1>3, <1>4, <2>4
        <3>2. T <= S
            BY <2>8, <2>9, <3>1, Zenon
        <3>3. S <= T + Cardinality(H)
            BY <2>8, <2>9, <3>1, Zenon
        <3> QED BY <3>2, <3>3
    <2> QED BY <1>3, <1>4, <2>1, <2>3, <2>4, <2>10 DEF paid, sum, S, T, H, B
<1> QED BY <1>5, <1>6

LEMMA EndConserves ==
    ASSUME IInv, IInv', Tally, Tally', PendingUntilFinal, IsFiniteSet(Users),
           NEW e \in Events, status[e] \notin Final,
           NEW final, NEW B \in SUBSET BetsOn(e), NEW sum, NEW outcome,
           EndStep(e, final, B, sum, outcome),
           \A b \in BetsOn(e) : outcome[b] # "PENDING",
           \A b \in B : sum[b] \in Nat,
           NEW H, H = {b \in BetsOn(e) : outcome[b] = "WIN"},
           SumOf(B, sum) <= SumOf(BetsOn(e), Stake),
           SumOf(BetsOn(e), Stake) - SumOf(B, sum) <= Cardinality(H),
           PointsAreConserved
    PROVE  PointsAreConserved'
<1> DEFINE held == SumOf(Users, points)
           heldAfter == SumOf(Users, points')
           P == SumOf(Pending, Stake)
           PAfter == SumOf(Pending', Stake')
           S == SumOf(BetsOn(e), Stake)
           T == SumOf(B, sum)
           h == Cardinality(Hits)
           hAfter == Cardinality(Hits')
           issued == Cardinality(Users) * InitialPoints
<1>1. heldAfter = held + T
    BY PointsAfterEnd DEF IInv
<1>2. P = PAfter + S
    BY PendingAfterEnd
<1>3. hAfter = h + Cardinality(H)
    BY HitsAfterEnd
<1>4. held + P <= issued /\ issued - (held + P) <= h
    <2>1. SumOf(Pending, [b \in Pending |-> b.amount]) = P
        BY SumOfSame DEF Pending, Stake
    <2> QED BY <2>1 DEF PointsAreConserved
<1>5. SumOf(Pending', [b \in Pending' |-> b.amount]) = PAfter
    BY SumOfSame DEF Pending, Stake
<1>6. held \in Nat /\ S \in Nat /\ T \in Nat
    <2>1. \A u \in Users : points[u] \in Nat
        BY DEF IInv, TypeOK
    <2>2. IsFiniteSet(BetsOn(e)) /\ IsFiniteSet(B) /\ \A b \in BetsOn(e) : Stake[b] \in Nat
        BY FS_Subset, StakeIsPositive DEF Tally, BetsOn
    <2> QED BY <2>1, <2>2, SumIsNat
<1>7. PAfter \in Nat
    <2>1. IsFiniteSet(Pending')
        BY FS_Subset DEF Tally, Pending
    <2>2. \A b \in Pending' : Stake'[b] \in Nat
        <3>1. \A b \in bets' : b.amount \in Amounts
            BY DEF IInv, TypeOK, Bet
        <3> QED BY <3>1, AmountsAssumption DEF Pending, Stake
    <2> QED BY <2>1, <2>2, SumIsNat
<1>8. h \in Nat /\ Cardinality(H) \in Nat /\ issued \in Nat
    <2>1. IsFiniteSet(Hits) /\ IsFiniteSet(H)
        BY FS_Subset DEF Tally, Hits, BetsOn
    <2> QED BY <2>1, FS_CardinalityType, AmountsAssumption
<1>9. T <= S /\ S - T <= Cardinality(H)
    OBVIOUS
<1> HIDE DEF held, heldAfter, P, PAfter, S, T, h, hAfter, issued
<1>10. heldAfter + PAfter <= issued /\ issued - (heldAfter + PAfter) <= hAfter
    BY <1>1, <1>2, <1>3, <1>4, <1>6, <1>7, <1>8, <1>9
<1> QED BY <1>5, <1>10 DEF PointsAreConserved, heldAfter, hAfter, issued

(* A new bet takes its stake from the balance, and leaves it pending. *)
LEMMA PlaceConserves ==
    ASSUME IInv, IInv', Tally, IsFiniteSet(Users), PlaceStep, PointsAreConserved
    PROVE  PointsAreConserved'
<1>1. PICK b \in Bet :
          /\ \A c \in bets : c.id # b.id
          /\ points[b.user] >= b.amount
          /\ b.status = "PENDING"
          /\ bets' = bets \cup {b}
          /\ points' = [points EXCEPT ![b.user] = @ - b.amount]
    BY DEF PlaceStep
<1> DEFINE u == b.user
           others == Users \ {u}
           stake == [c \in Pending |-> c.amount]
           stakeAfter == [c \in Pending' |-> c.amount]
<1>2. u \in Users /\ b.amount \in Nat /\ \A v \in Users : points[v] \in Nat /\ points'[v] \in Nat
    BY AmountsAssumption DEF IInv, TypeOK, Bet
<1>3. IsFiniteSet(others) /\ u \notin others /\ others \cup {u} = Users
    BY <1>2, FS_Subset
<1>4. points'[u] = points[u] - b.amount /\ \A v \in others : points'[v] = points[v]
    BY <1>1, <1>2 DEF IInv, TypeOK
<1>5. Hits' = Hits
    BY <1>1 DEF Hits
<1>6. Pending' = Pending \cup {b} /\ b \notin Pending
    BY <1>1 DEF Pending
<1>7. IsFiniteSet(Pending)
    BY FS_Subset DEF Tally, Pending
<1>8. \A c \in Pending : c.amount \in Nat
    BY AmountsAssumption DEF Pending, IInv, TypeOK, Bet
<1>9. /\ \A c \in Pending : stake[c] \in Nat /\ stakeAfter[c] = stake[c]
      /\ \A c \in Pending \cup {b} : stakeAfter[c] \in Nat
      /\ stakeAfter[b] = b.amount
    BY <1>2, <1>6, <1>8
<1> HIDE DEF others, stake, stakeAfter
<1>10. SumOf(Users, points) = SumOf(others, points) + points[u]
    <2>1. SumOf(others \cup {u}, points) = SumOf(others, points) + points[u]
        BY <1>2, <1>3, SumOfAdded
    <2> QED BY <1>3, <2>1
<1>11. SumOf(Users, points') = SumOf(others, points) + points'[u]
    <2>1. SumOf(others \cup {u}, points') = SumOf(others, points') + points'[u]
        BY <1>2, <1>3, SumOfAdded
    <2>2. SumOf(others, points') = SumOf(others, points)
        BY <1>4, SumOfSame
    <2> QED BY <1>3, <2>1, <2>2
<1>12. SumOf(Pending', stakeAfter) = SumOf(Pending, stake) + b.amount
    <2>1. SumOf(Pending \cup {b}, stakeAfter) = SumOf(Pending, stakeAfter) + stakeAfter[b]
        BY <1>6, <1>7, <1>9, SumOfAdded
    <2>2. SumOf(Pending, stakeAfter) = SumOf(Pending, stake)
        BY <1>9, SumOfSame
    <2> QED BY <1>6, <1>9, <2>1, <2>2
<1>13. SumOf(others, points) \in Nat /\ SumOf(Pending, stake) \in Nat
    BY <1>2, <1>3, <1>7, <1>9, SumIsNat
<1>14. SumOf(Users, points') + SumOf(Pending', stakeAfter) = SumOf(Users, points) + SumOf(Pending, stake)
    BY <1>2, <1>4, <1>10, <1>11, <1>12, <1>13
<1> QED BY <1>5, <1>14 DEF PointsAreConserved, stake, stakeAfter

LEMMA CommitConserves ==
    ASSUME NoGain, IsFiniteSet(Users), SerialInv, SerialInv', PointsAreConserved,
           NEW s \in Sessions, Commit(s)
    PROVE  PointsAreConserved'
<1>1. IInv /\ IInv' /\ Tally /\ Tally' /\ PendingUntilFinal
    BY DEF SerialInv
<1>2. CASE PlaceStep
    BY <1>1, <1>2, PlaceConserves
<1>3. CASE MoveStep
    BY <1>3 DEF MoveStep, PointsAreConserved, Pending, Hits
<1>4. ASSUME NEW e \in Events, CancelStep(e)
      PROVE  PointsAreConserved'
    <2> DEFINE B == BetsOn(e)
               sum == [b \in B |-> b.amount]
               outcome == [b \in B |-> "REFUNDED"]
               H == {b \in B : outcome[b] = "WIN"}
    <2>1. status[e] \notin Final /\ EndStep(e, "CANCELLED", B, sum, outcome)
        BY <1>4 DEF CancelStep, Final
    <2>2. \A b \in B : outcome[b] # "PENDING" /\ outcome[b] # "WIN"
        OBVIOUS
    <2>3. \A b \in B : b \in bets /\ sum[b] = Stake[b] /\ sum[b] \in Nat
        BY <1>1, StakeIsPositive DEF BetsOn, Stake
    <2>4. H = {}
        BY <2>2
    <2>5. IsFiniteSet(B)
        BY <1>1, FS_Subset DEF Tally, BetsOn
    <2> HIDE DEF sum, outcome
    <2>6. SumOf(B, sum) = SumOf(B, Stake) /\ SumOf(B, sum) \in Nat
        BY <2>3, <2>5, SumOfSame, SumIsNat
    <2>7. Cardinality(H) = 0
        BY <2>4, FS_EmptySet
    <2>8. SumOf(B, sum) <= SumOf(B, Stake) /\ SumOf(B, Stake) - SumOf(B, sum) <= Cardinality(H)
        BY <2>6, <2>7
    <2> HIDE DEF H
    <2>9. B \in SUBSET BetsOn(e) /\ H = {b \in BetsOn(e) : outcome[b] = "WIN"}
        BY DEF H
    <2> QED BY <1>1, <2>1, <2>2, <2>3, <2>8, <2>9, EndConserves
<1>5. ASSUME NEW e \in Events, NEW winners \in SUBSET OptionsOf(e), SettleStep(e, winners)
      PROVE  PointsAreConserved'
    <2> DEFINE paid == PaidBets(e, winners)
               sum == PayoutsOf(e, winners)
               outcome == OutcomesOf(e, winners)
               H == {b \in BetsOn(e) : outcome[b] = "WIN"}
    <2>1. status[e] \notin Final /\ EndStep(e, "SETTLED", paid, sum, outcome)
        BY <1>5 DEF SettleStep, Final
    <2>2. paid \in SUBSET BetsOn(e)
        BY DEF PaidBets, HitsOf
    <2>3. \A b \in BetsOn(e) : outcome[b] # "PENDING"
        BY OutcomeIsNotPending
    <2>4. /\ \A b \in paid : sum[b] \in Nat
          /\ SumOf(paid, sum) <= SumOf(BetsOn(e), Stake)
          /\ SumOf(BetsOn(e), Stake) - SumOf(paid, sum) <= Cardinality(H)
        BY <1>1, SettlePays
    <2>5. H = {b \in BetsOn(e) : outcome[b] = "WIN"}
        OBVIOUS
    <2> HIDE DEF paid, sum, outcome, H
    <2> QED BY <1>1, <2>1, <2>2, <2>3, <2>4, <2>5, EndConserves
<1> QED BY <1>2, <1>3, <1>4, <1>5, CommitStep

(* Without overlaps, and with pools small enough for a float ratio never to *)
(* exceed the exact one, points are neither created nor destroyed but for   *)
(* the point per hit that rounding a payout down may lose.                  *)
THEOREM Conservation ==
    ASSUME NoGain, IsFiniteSet(Users)
    PROVE  Spec /\ []Serial => []PointsAreConserved
<1>1. Init => PointsAreConserved
    <2> SUFFICES ASSUME Init PROVE PointsAreConserved
        OBVIOUS
    <2>1. SumOf(Users, points) = Cardinality(Users) * InitialPoints
        BY AmountsAssumption, SumOfEqual DEF Init
    <2>2. Pending = {} /\ Hits = {}
        BY DEF Init, Pending, Hits
    <2>3. SumOf(Pending, [b \in Pending |-> b.amount]) = 0 /\ Cardinality(Hits) = 0
        BY <2>2, SumOfNone, FS_EmptySet
    <2>4. Cardinality(Users) * InitialPoints \in Nat
        BY AmountsAssumption, FS_CardinalityType
    <2> QED BY <2>1, <2>3, <2>4 DEF PointsAreConserved
<1>2. SerialInv /\ SerialInv' /\ [Next]_vars /\ PointsAreConserved => PointsAreConserved'
    <2> SUFFICES ASSUME SerialInv, SerialInv', [Next]_vars, PointsAreConserved
                 PROVE  PointsAreConserved'
        OBVIOUS
    <2>1. ASSUME \A s \in Sessions : ~ Commit(s)
          PROVE  PointsAreConserved'
        <3>1. UNCHANGED dbVars
            BY <2>1, HandlersAreUpToDate DEF SerialInv
        <3> QED BY <3>1 DEF dbVars, PointsAreConserved, Pending, Hits
    <2> QED BY <2>1, CommitConserves
<1> QED BY <1>1, <1>2, SerialInvariance, PTL DEF Spec

(* One session at a time, as in a deployment with a single connection, is   *)
(* one way for requests never to overlap.                                   *)
LEMMA OneSession == ASSUME NEW s, Sessions = {s} PROVE []Serial
<1>1. Serial
    BY DEF Serial
<1> QED BY <1>1, PTL

-----------------------------------------------------------------------------
(* Part 3: accounts that are withdrawn *)

(* A request of Betting writes points together with a history row of theirs. *)
Balanced(w) ==
    /\ DOMAIN w.points = DOMAIN w.ledger
    /\ \A u \in DOMAIN w.ledger : w.points[u] = w.ledger[u].after

(* A withdrawal writes nothing but the zero. *)
WritesOK ==
    \A s \in Sessions :
        /\ leaving[s] = {} => Balanced(txn[s])
        /\ leaving[s] # {} => \E u \in Users : leaving[s] = {u} /\ txn[s] \in {NoWrites, Forfeit(u)}

(* What a request read of points that nobody has written since still holds. *)
Unseen ==
    \A s \in Sessions :
        /\ ~Busy(s) => overlooked[s] = {}
        /\ \A u \in Users \ overlooked[s] :
              /\ leaving[s] = {} /\ u \in DOMAIN txn[s].points =>
                    txn[s].points[u] = points[u] + txn[s].ledger[u].change
              /\ leaving[s] = {u} /\ txn[s] = NoWrites => points[u] = 0

WithdrawalInv ==
    /\ WithdrawalTypeOK
    /\ WritesOK
    /\ \A u \in Users : since[u] <= Len(ledger[u])
    /\ NewestRowOrForfeited
    /\ Unseen
    /\ PointsAddUpUnlessOverwritten

(* The history rows of the write set continue from the present points. *)
PointsContinue(w) ==
    Balanced(w) /\ \A u \in DOMAIN w.points : w.points[u] = points[u] + w.ledger[u].change

-----------------------------------------------------------------------------
(* The write sets of the handlers *)

LEMMA NoWritesContinues == PointsContinue(NoWrites)
BY DEF PointsContinue, Balanced, NoWrites, NoRows

LEMMA ForfeitOK ==
    ASSUME NEW u \in Users
    PROVE  WriteSetOK(Forfeit(u)) /\ Forfeit(u).ledger = NoRows /\ Forfeit(u).points = [x \in {u} |-> 0]
BY DEF WriteSetOK, Forfeit, NoWrites, RowsOf, NoRows

LEMMA CreateBetContinues ==
    ASSUME NEW id, NEW u, NEW e, NEW o, NEW a, points[u] \in Nat, a \in Nat
    PROVE  PointsContinue(CreateBetWrites(id, u, e, o, a))
<1> DEFINE newPoints == points[u] - a
           rows == [x \in {u} |-> [bet |-> id, change |-> -a, reason |-> "BET", after |-> newPoints]]
<1>1. /\ CreateBetWrites(id, u, e, o, a).points = [x \in {u} |-> newPoints]
      /\ CreateBetWrites(id, u, e, o, a).ledger = rows
    BY DEF CreateBetWrites, NoWrites
<1> QED BY <1>1 DEF PointsContinue, Balanced

LEMMA CreditContinues ==
    ASSUME NEW B, NEW sum, NEW reason
    PROVE  PointsContinue(Credit(B, sum, reason))
<1> DEFINE owners == {b.user : b \in B}
           bet == [u \in owners |-> CHOOSE b \in B : b.user = u]
           after == [u \in owners |-> points[u] + sum[bet[u]]]
           rows == [u \in owners |-> [bet |-> bet[u].id, change |-> sum[bet[u]],
                                      reason |-> reason, after |-> after[u]]]
<1>1. Credit(B, sum, reason).points = after /\ Credit(B, sum, reason).ledger = rows
    BY DEF Credit, NoWrites
<1>2. DOMAIN after = owners /\ DOMAIN rows = owners
    OBVIOUS
<1>3. \A u \in owners : rows[u].after = after[u] /\ after[u] = points[u] + rows[u].change
    OBVIOUS
<1> HIDE DEF after, rows, owners
<1> QED BY <1>1, <1>2, <1>3 DEF PointsContinue, Balanced

LEMMA RefundContinues == ASSUME NEW B PROVE PointsContinue(ProcessRefund(B))
<1> DEFINE credit == Credit(B, [b \in B |-> b.amount], "REFUND")
<1>1. ProcessRefund(B).points = credit.points /\ ProcessRefund(B).ledger = credit.ledger
    BY DEF ProcessRefund, Credit, NoWrites
<1> QED BY <1>1, CreditContinues DEF PointsContinue, Balanced

LEMMA PayoutContinues ==
    ASSUME NEW B, NEW winners, NEW totalPool, NEW winningPool
    PROVE  PointsContinue(ProcessPayout(B, winners, totalPool, winningPool))
<1> DEFINE w == ProcessPayout(B, winners, totalPool, winningPool)
           hits == {b \in B : b.option \in winners}
           credit == Credit(hits, [b \in hits |-> CalculatePayout(b.amount, totalPool, winningPool)], "WIN")
<1>1. w.points = credit.points /\ w.ledger = credit.ledger
    BY DEF ProcessPayout, Credit, NoWrites
<1> QED BY <1>1, CreditContinues DEF PointsContinue, Balanced

LEMMA SettleContinues == ASSUME NEW e, NEW winners PROVE PointsContinue(RunSettle(e, winners))
<1> DEFINE totalPool == SumOf(OptionsOf(e), optionTotal)
           winningPool == SumOf(OptionsOf(e) \cap winners, optionTotal)
           paid == IF winningPool = 0 THEN ProcessRefund(BetsOn(e))
                   ELSE ProcessPayout(BetsOn(e), winners, totalPool, winningPool)
<1>1. PointsContinue(paid)
    BY RefundContinues, PayoutContinues
<1>2. RunSettle(e, winners).points = paid.points /\ RunSettle(e, winners).ledger = paid.ledger
    BY DEF RunSettle, ProcessRefund, ProcessPayout, Credit, NoWrites
<1> QED BY <1>1, <1>2 DEF PointsContinue, Balanced

LEMMA UpdateContinues == ASSUME NEW e, NEW new PROVE PointsContinue(UpdateEventStatusWrites(e, new))
<1> DEFINE paid == IF new = "CANCELLED" THEN ProcessRefund(BetsOn(e)) ELSE NoWrites
<1>1. PointsContinue(paid)
    BY RefundContinues, NoWritesContinues
<1>2. UpdateEventStatusWrites(e, new).points = paid.points /\ UpdateEventStatusWrites(e, new).ledger = paid.ledger
    BY DEF UpdateEventStatusWrites, ProcessRefund, Credit, NoWrites
<1> QED BY <1>1, <1>2 DEF PointsContinue, Balanced

-----------------------------------------------------------------------------
(* The steps *)

LEMMA BeginFits ==
    ASSUME WithdrawalTypeOK, NEW s \in Sessions, BeginBetting(s)
    PROVE  \E w : WriteSetOK(w) /\ PointsContinue(w) /\ Begin(s, w)
<1> USE DEF WithdrawalTypeOK
<1>1. ASSUME NEW u \in Users, NEW e \in Events, NEW o \in Options, NEW a \in Amounts, CreateBet(s, u, e, o, a)
      PROVE  \E w : WriteSetOK(w) /\ PointsContinue(w) /\ Begin(s, w)
    <2>1. /\ WriteSetOK(CreateBetWrites(FreshBetId, u, e, o, a))
          /\ Begin(s, CreateBetWrites(FreshBetId, u, e, o, a))
        BY <1>1, CreateBetWritesOK, FreshBetIdIsNew DEF CreateBet
    <2>2. points[u] \in Nat /\ a \in Nat
        BY AmountsAssumption DEF TypeOK
    <2> QED BY <2>1, <2>2, CreateBetContinues
<1>2. ASSUME NEW e \in Events, NEW winners, SettleEvent(s, e, winners)
      PROVE  \E w : WriteSetOK(w) /\ PointsContinue(w) /\ Begin(s, w)
    <2>1. WriteSetOK(RunSettle(e, winners)) /\ Begin(s, RunSettle(e, winners))
        BY <1>2, RunSettleOK DEF SettleEvent
    <2> QED BY <2>1, SettleContinues
<1>3. ASSUME NEW e \in Events, NEW new \in EventStatus, UpdateEventStatus(s, e, new)
      PROVE  \E w : WriteSetOK(w) /\ PointsContinue(w) /\ Begin(s, w)
    <2>1. WriteSetOK(UpdateEventStatusWrites(e, new)) /\ Begin(s, UpdateEventStatusWrites(e, new))
        BY <1>3, UpdateEventStatusWritesOK DEF UpdateEventStatus
    <2> QED BY <2>1, UpdateContinues
<1> QED BY <1>1, <1>2, <1>3 DEF BeginBetting

LEMMA OverlookType ==
    ASSUME WithdrawalTypeOK, NEW s \in Sessions, NEW wrote \in SUBSET Users, Overlook(s, wrote)
    PROVE  overlooked' \in [Sessions -> SUBSET Users]
BY DEF WithdrawalTypeOK, Overlook

LEMMA NextWithdrawalType ==
    ASSUME WithdrawalTypeOK, WithdrawalNext
    PROVE  WithdrawalTypeOK'
<1> USE DEF WithdrawalTypeOK, account, history
<1>1. ASSUME NEW s \in Sessions, BeginBetting(s) PROVE WithdrawalTypeOK'
    <2>1. TypeOK'
        BY <1>1, BeginFits, BeginType
    <2> QED BY <1>1, <2>1 DEF BeginBetting
<1>2. ASSUME NEW s \in Sessions, CommitBetting(s) PROVE WithdrawalTypeOK'
    <2>1. TypeOK'
        BY <1>2, CommitType DEF CommitBetting
    <2>2. DOMAIN txn[s].points \subseteq Users
        BY DEF TypeOK, WriteSetOK, RowsOf
    <2>3. overlooked' \in [Sessions -> SUBSET Users]
        BY <1>2, <2>2, OverlookType DEF CommitBetting
    <2> QED BY <1>2, <2>1, <2>2, <2>3 DEF CommitBetting
<1>3. ASSUME NEW s \in Sessions, AbortBetting(s) PROVE WithdrawalTypeOK'
    <2>1. TypeOK'
        BY <1>3, NoWritesOK DEF AbortBetting, Abort, dbVars, TypeOK, WriteSetOK
    <2>2. overlooked' \in [Sessions -> SUBSET Users]
        BY <1>3, OverlookType DEF AbortBetting
    <2> QED BY <1>3, <2>1, <2>2 DEF AbortBetting
<1>4. ASSUME NEW s \in Sessions, NEW u \in Users, Withdraw(s, u) PROVE WithdrawalTypeOK'
    <2>1. PICK w : WriteSetOK(w) /\ Begin(s, w)
        <3>1. PICK w \in {NoWrites, Forfeit(u)} : txn' = [txn EXCEPT ![s] = w]
            BY <1>4 DEF Withdraw
        <3> QED BY <1>4, <3>1, NoWritesOK, ForfeitOK DEF Withdraw, Begin, Busy
    <2>2. TypeOK'
        BY <2>1, BeginType
    <2> QED BY <1>4, <2>2 DEF Withdraw
<1>5. ASSUME NEW s \in Sessions, CommitWithdrawal(s) PROVE WithdrawalTypeOK'
    <2>1. TypeOK'
        BY <1>5, ApplyType DEF CommitWithdrawal
    <2>2. overlooked' \in [Sessions -> SUBSET Users]
        <3>1. DOMAIN txn[s].points \subseteq Users
            BY DEF TypeOK, WriteSetOK, RowsOf
        <3> QED BY <1>5, <3>1, OverlookType DEF CommitWithdrawal
    <2>3. since' \in [Users -> Nat \cup {Active}]
        <3>1. \A u \in Users : Len(ledger[u]) \in Nat
            BY DEF TypeOK
        <3> QED BY <1>5, <3>1 DEF CommitWithdrawal
    <2> QED BY <1>5, <2>1, <2>2, <2>3 DEF CommitWithdrawal
<1>6. ASSUME NEW s \in Sessions, AbortWithdrawal(s) PROVE WithdrawalTypeOK'
    <2>1. TypeOK'
        BY <1>6, NoWritesOK DEF AbortWithdrawal, dbVars, TypeOK, WriteSetOK
    <2>2. overlooked' \in [Sessions -> SUBSET Users]
        BY <1>6, OverlookType DEF AbortWithdrawal
    <2> QED BY <1>6, <2>1, <2>2 DEF AbortWithdrawal
<1> QED BY <1>1, <1>2, <1>3, <1>4, <1>5, <1>6 DEF WithdrawalNext

LEMMA NextWrites ==
    ASSUME WithdrawalTypeOK, WritesOK, WithdrawalNext
    PROVE  WritesOK'
<1> DEFINE OK(t) == /\ leaving[t] = {} => Balanced(txn[t])
                    /\ leaving[t] # {} => \E u \in Users : leaving[t] = {u} /\ txn[t] \in {NoWrites, Forfeit(u)}
<1>0. \A t \in Sessions : UNCHANGED <<txn[t], leaving[t]>> => OK(t)'
    BY DEF WritesOK, Balanced, Forfeit
<1> USE DEF WithdrawalTypeOK, TypeOK, account
<1>1. ASSUME NEW s \in Sessions, BeginBetting(s) PROVE \A t \in Sessions : OK(t)'
    <2>1. PICK w : Balanced(w) /\ txn' = [txn EXCEPT ![s] = w]
        BY <1>1, BeginFits DEF Begin, PointsContinue
    <2>2. OK(s)'
        BY <1>1, <2>1 DEF BeginBetting, Balanced
    <2> QED BY <1>0, <1>1, <2>1, <2>2 DEF BeginBetting
<1>2. ASSUME NEW s \in Sessions, leaving'[s] = {}, txn' = [txn EXCEPT ![s] = NoWrites],
             \A t \in Sessions \ {s} : leaving'[t] = leaving[t]
      PROVE  \A t \in Sessions : OK(t)'
    BY <1>0, <1>2, NoWritesContinues DEF Balanced, PointsContinue
<1>3. ASSUME NEW s \in Sessions, CommitBetting(s) \/ AbortBetting(s) PROVE \A t \in Sessions : OK(t)'
    BY <1>2, <1>3 DEF CommitBetting, AbortBetting, Commit, Abort
<1>4. ASSUME NEW s \in Sessions, NEW u \in Users, Withdraw(s, u) PROVE \A t \in Sessions : OK(t)'
    <2>1. txn'[s] \in {NoWrites, Forfeit(u)} /\ leaving'[s] = {u}
        BY <1>4 DEF Withdraw
    <2>2. OK(s)'
        BY <2>1 DEF Forfeit
    <2> QED BY <1>0, <1>4, <2>2 DEF Withdraw
<1>5. ASSUME NEW s \in Sessions, CommitWithdrawal(s) \/ AbortWithdrawal(s) PROVE \A t \in Sessions : OK(t)'
    BY <1>2, <1>5 DEF CommitWithdrawal, AbortWithdrawal
<1> QED BY <1>1, <1>3, <1>4, <1>5 DEF WithdrawalNext, WritesOK

LEMMA ApplyEffect ==
    ASSUME TypeOK, NEW s \in Sessions, Apply(txn[s]), NEW u \in Users
    PROVE  /\ points'[u] = IF u \in DOMAIN txn[s].points THEN txn[s].points[u] ELSE points[u]
           /\ ledger[u] \in Seq(PointHistory)
           /\ ledger'[u] = IF u \in DOMAIN txn[s].ledger THEN Append(ledger[u], txn[s].ledger[u]) ELSE ledger[u]
           /\ u \in DOMAIN txn[s].ledger => txn[s].ledger[u] \in PointHistory
BY DEF TypeOK, Apply, Overwrite, WriteSetOK, RowsOf

LEMMA NextBalance ==
    ASSUME WithdrawalTypeOK, WritesOK, NewestRowOrForfeited, WithdrawalNext
    PROVE  NewestRowOrForfeited'
<1> USE DEF WithdrawalTypeOK, account
<1>0. UNCHANGED <<points, ledger, since>> => NewestRowOrForfeited'
    BY DEF NewestRowOrForfeited
<1>1. ASSUME NEW s \in Sessions, BeginBetting(s) \/ AbortBetting(s) \/ AbortWithdrawal(s) PROVE NewestRowOrForfeited'
    BY <1>0, <1>1, BeginFits DEF BeginBetting, AbortBetting, AbortWithdrawal, Abort, Begin, dbVars
<1>2. ASSUME NEW s \in Sessions, NEW u \in Users, Withdraw(s, u) PROVE NewestRowOrForfeited'
    BY <1>0, <1>2 DEF Withdraw, dbVars
<1>3. ASSUME NEW s \in Sessions, CommitBetting(s), NEW u \in Users
      PROVE  \/ points'[u] = IF ledger'[u] = <<>> THEN InitialPoints ELSE ledger'[u][Len(ledger'[u])].after
             \/ since'[u] = Len(ledger'[u]) /\ points'[u] = 0
    <2> DEFINE w == txn[s]
    <2>1. Apply(w) /\ Balanced(w) /\ since' = since
        BY <1>3 DEF CommitBetting, Commit, WritesOK
    <2>2. CASE u \in DOMAIN w.ledger
        <3>1. ledger'[u] = Append(ledger[u], w.ledger[u])
            BY <2>1, <2>2, ApplyEffect
        <3>2. ledger[u] \in Seq(PointHistory) /\ w.ledger[u] \in PointHistory
            BY <2>1, <2>2, ApplyEffect
        <3>3. ledger'[u] # <<>> /\ ledger'[u][Len(ledger'[u])] = w.ledger[u]
            <4> HIDE DEF w
            <4> QED BY <3>1, <3>2
        <3> QED BY <2>1, <2>2, <3>3, ApplyEffect DEF Balanced
    <2>3. CASE u \notin DOMAIN w.ledger
        <3>1. ledger'[u] = ledger[u] /\ points'[u] = points[u]
            BY <2>1, <2>3, ApplyEffect DEF Balanced
        <3> QED BY <2>1, <3>1 DEF NewestRowOrForfeited
    <2> QED BY <2>2, <2>3
<1>4. ASSUME NEW s \in Sessions, CommitWithdrawal(s), NEW u \in Users
      PROVE  \/ points'[u] = IF ledger'[u] = <<>> THEN InitialPoints ELSE ledger'[u][Len(ledger'[u])].after
             \/ since'[u] = Len(ledger'[u]) /\ points'[u] = 0
    <2> DEFINE w == txn[s]
    <2>1. PICK v \in Users : leaving[s] = {v} /\ w \in {NoWrites, Forfeit(v)}
        BY <1>4 DEF CommitWithdrawal, WritesOK
    <2>2. /\ w.ledger = NoRows /\ DOMAIN w.points \subseteq {v}
          /\ \A x \in DOMAIN w.points : w.points[x] = 0
        <3>1. NoWrites.ledger = NoRows /\ DOMAIN NoWrites.points = {}
            BY DEF NoWrites, NoRows
        <3>2. CASE w = NoWrites
            BY <3>1, <3>2
        <3>3. CASE w = Forfeit(v)
            <4>1. w.ledger = NoRows /\ w.points = [x \in {v} |-> 0]
                BY <3>3, ForfeitOK
            <4> HIDE DEF w
            <4> QED BY <4>1
        <3> QED BY <2>1, <3>2, <3>3
    <2>3. /\ Apply(w)
          /\ since'[u] = IF u = v THEN Len(ledger[u]) ELSE since[u]
        BY <1>4, <2>1 DEF CommitWithdrawal
    <2>4. ledger'[u] = ledger[u]
        BY <2>2, <2>3, ApplyEffect DEF NoRows
    <2>5. CASE u \in DOMAIN w.points
        BY <2>2, <2>3, <2>4, <2>5, ApplyEffect
    <2>6. CASE u \notin DOMAIN w.points
        <3>1. points'[u] = points[u]
            BY <2>3, <2>6, ApplyEffect
        <3> QED BY <2>3, <2>4, <3>1 DEF NewestRowOrForfeited
    <2> QED BY <2>5, <2>6
<1> QED BY <1>1, <1>2, <1>3, <1>4 DEF WithdrawalNext, NewestRowOrForfeited

-----------------------------------------------------------------------------
(* Points and the sum of the history *)

LEMMA SumsOfHistory ==
    ASSUME NEW L \in Seq(PointHistory), NEW r \in PointHistory, NEW k \in Nat, k <= Len(L)
    PROVE  LET M == Append(L, r) IN
           /\ Given(L, k) \in Nat /\ Taken(L, k) \in Nat
           /\ Given(M, k) = Given(L, k) + (IF r.change > 0 THEN r.change ELSE 0)
           /\ Taken(M, k) = Taken(L, k) + (IF r.change < 0 THEN -r.change ELSE 0)
<1> DEFINE M == Append(L, r)
           n == Len(L) + 1
           up(rows) == {i \in DOMAIN rows : i > k /\ rows[i].change > 0}
           down(rows) == {i \in DOMAIN rows : i > k /\ rows[i].change < 0}
           gain(rows) == [i \in DOMAIN rows |-> rows[i].change]
           loss(rows) == [i \in DOMAIN rows |-> -rows[i].change]
<1>1. /\ Len(L) \in Nat /\ DOMAIN L = 1 .. Len(L)
      /\ DOMAIN M = 1 .. n /\ M[n] = r /\ \A i \in DOMAIN L : M[i] = L[i]
    OBVIOUS
<1>2. r.change \in Int /\ \A i \in DOMAIN L : L[i].change \in Int
    <2>1. \A x \in PointHistory : x.change \in Int
        BY DEF PointHistory
    <2>2. \A i \in DOMAIN L : L[i] \in PointHistory
        OBVIOUS
    <2> QED BY <2>1, <2>2
<1> HIDE DEF M
<1>3. IsFiniteSet(up(L)) /\ IsFiniteSet(down(L))
    <2>1. IsFiniteSet(DOMAIN L)
        BY <1>1, FS_Interval
    <2>2. up(L) \subseteq DOMAIN L /\ down(L) \subseteq DOMAIN L
        OBVIOUS
    <2> QED BY <2>1, <2>2, FS_Subset
<1>4. n \notin up(L) /\ n \notin down(L)
    BY <1>1
<1>5. /\ \A i \in up(L) : gain(L)[i] \in Nat /\ gain(M)[i] = gain(L)[i]
      /\ \A i \in down(L) : loss(L)[i] \in Nat /\ loss(M)[i] = loss(L)[i]
    BY <1>1, <1>2
<1>6. /\ up(M) = IF r.change > 0 THEN up(L) \cup {n} ELSE up(L)
      /\ down(M) = IF r.change < 0 THEN down(L) \cup {n} ELSE down(L)
    BY <1>1
<1>7. gain(M)[n] = r.change /\ loss(M)[n] = -r.change
    BY <1>1
<1>8. Given(L, k) = SumOf(up(L), gain(L)) /\ Given(M, k) = SumOf(up(M), gain(M))
    BY DEF Given
<1>9. Taken(L, k) = SumOf(down(L), loss(L)) /\ Taken(M, k) = SumOf(down(M), loss(M))
    BY DEF Taken
<1> HIDE DEF up, down, gain, loss, n
<1>10. Given(L, k) \in Nat /\ Taken(L, k) \in Nat
    BY <1>3, <1>5, <1>8, <1>9, SumIsNat
<1>11. Given(M, k) = Given(L, k) + (IF r.change > 0 THEN r.change ELSE 0)
    <2> DEFINE S == up(L)
               f == gain(L)
               g == gain(M)
    <2>1. IsFiniteSet(S) /\ n \notin S /\ \A y \in S : f[y] \in Nat /\ g[y] = f[y]
        BY <1>3, <1>4, <1>5
    <2>2. /\ SumOf(up(M), g) = SumOf(IF r.change > 0 THEN S \cup {n} ELSE S, g)
          /\ Given(L, k) = SumOf(S, f) /\ Given(M, k) = SumOf(up(M), g) /\ g[n] = r.change
          /\ SumOf(S, f) \in Nat
        BY <1>6, <1>7, <1>8, <1>10
    <2> HIDE DEF S, f, g
    <2>3. SumOf(S, g) = SumOf(S, f) /\ (g[n] \in Nat => SumOf(S \cup {n}, g) = SumOf(S, f) + g[n])
        <3>1. SumOf(S, g) = SumOf(S, f)
            <4>1. \A y \in S : g[y] = f[y]
                BY <2>1
            <4> QED BY <4>1, SumOfSame
        <3>2. ASSUME g[n] \in Nat PROVE SumOf(S \cup {n}, g) = SumOf(S, g) + g[n]
            <4>1. IsFiniteSet(S) /\ n \notin S /\ \A y \in S \cup {n} : g[y] \in Nat
                BY <2>1, <3>2
            <4> QED BY <4>1, SumOfAdded
        <3> QED BY <3>1, <3>2
    <2> QED BY <1>2, <2>2, <2>3
<1>12. Taken(M, k) = Taken(L, k) + (IF r.change < 0 THEN -r.change ELSE 0)
    <2> DEFINE S == down(L)
               f == loss(L)
               g == loss(M)
    <2>1. IsFiniteSet(S) /\ n \notin S /\ \A y \in S : f[y] \in Nat /\ g[y] = f[y]
        BY <1>3, <1>4, <1>5
    <2>2. /\ SumOf(down(M), g) = SumOf(IF r.change < 0 THEN S \cup {n} ELSE S, g)
          /\ Taken(L, k) = SumOf(S, f) /\ Taken(M, k) = SumOf(down(M), g) /\ g[n] = -r.change
          /\ SumOf(S, f) \in Nat
        BY <1>6, <1>7, <1>9, <1>10
    <2> HIDE DEF S, f, g
    <2>3. SumOf(S, g) = SumOf(S, f) /\ (g[n] \in Nat => SumOf(S \cup {n}, g) = SumOf(S, f) + g[n])
        <3>1. SumOf(S, g) = SumOf(S, f)
            <4>1. \A y \in S : g[y] = f[y]
                BY <2>1
            <4> QED BY <4>1, SumOfSame
        <3>2. ASSUME g[n] \in Nat PROVE SumOf(S \cup {n}, g) = SumOf(S, g) + g[n]
            <4>1. IsFiniteSet(S) /\ n \notin S /\ \A y \in S \cup {n} : g[y] \in Nat
                BY <2>1, <3>2
            <4> QED BY <4>1, SumOfAdded
        <3> QED BY <3>1, <3>2
    <2> QED BY <1>2, <2>2, <2>3
<1> QED BY <1>10, <1>11, <1>12 DEF M

LEMMA GivenIsNat == \A L \in Seq(PointHistory), k \in Nat : Given(L, k) \in Nat
<1> SUFFICES ASSUME NEW L \in Seq(PointHistory), NEW k \in Nat PROVE Given(L, k) \in Nat
    OBVIOUS
<1> DEFINE up == {i \in DOMAIN L : i > k /\ L[i].change > 0}
           gain == [i \in DOMAIN L |-> L[i].change]
<1>1. IsFiniteSet(up)
    <2>1. IsFiniteSet(DOMAIN L)
        BY FS_Interval
    <2>2. up \subseteq DOMAIN L
        OBVIOUS
    <2> QED BY <2>1, <2>2, FS_Subset
<1>2. \A i \in up : gain[i] \in Nat
    <2>1. \A x \in PointHistory : x.change \in Int
        BY DEF PointHistory
    <2>2. \A i \in DOMAIN L : L[i] \in PointHistory
        OBVIOUS
    <2> QED BY <2>1, <2>2
<1> HIDE DEF up, gain
<1>3. SumOf(up, gain) \in Nat
    BY <1>1, <1>2, SumIsNat
<1> QED BY <1>3 DEF Given, up, gain

LEMMA NothingSince ==
    ASSUME NEW L \in Seq(PointHistory)
    PROVE  Given(L, Len(L)) = 0 /\ Taken(L, Len(L)) = 0
<1>1. \A i \in DOMAIN L : ~(i > Len(L))
    OBVIOUS
<1> QED BY <1>1, SumOfNone DEF Given, Taken

(* A write set that continues from the present points keeps the balance. *)
LEMMA RowKeepsSum ==
    ASSUME NEW L \in Seq(PointHistory), NEW r \in PointHistory, NEW k \in Nat, k <= Len(L),
           NEW p \in Nat, NEW start \in Nat, p + Taken(L, k) = start + Given(L, k)
    PROVE  LET M == Append(L, r) IN (p + r.change) + Taken(M, k) = start + Given(M, k)
<1> DEFINE M == Append(L, r)
           t == Taken(L, k)
           g == Given(L, k)
           t2 == Taken(M, k)
           g2 == Given(M, k)
           c == r.change
<1>1. c \in Int
    BY DEF PointHistory
<1>2. /\ g \in Nat /\ t \in Nat
      /\ g2 = g + (IF c > 0 THEN c ELSE 0)
      /\ t2 = t + (IF c < 0 THEN -c ELSE 0)
    BY SumsOfHistory
<1>3. p + t = start + g
    OBVIOUS
<1> HIDE DEF t, g, t2, g2, c
<1>4. (p + c) + t2 = start + g2
    <2>1. CASE c > 0
        BY <1>1, <1>2, <1>3, <2>1
    <2>2. CASE c <= 0
        BY <1>1, <1>2, <1>3, <2>2
    <2> QED BY <1>1, <2>1, <2>2
<1> QED BY <1>4 DEF t2, g2, c

-----------------------------------------------------------------------------
(* What requests have read *)

LEMMA EndKeepsUnseen ==
    ASSUME WithdrawalTypeOK, Unseen, NEW s \in Sessions, NEW wrote, Overlook(s, wrote),
           txn' = [txn EXCEPT ![s] = NoWrites], leaving' = [leaving EXCEPT ![s] = {}],
           \A u \in Users \ wrote : points'[u] = points[u]
    PROVE  Unseen'
<1> SUFFICES ASSUME NEW t \in Sessions
             PROVE  /\ ~Busy(t)' => overlooked'[t] = {}
                    /\ \A u \in Users \ overlooked'[t] :
                          /\ leaving'[t] = {} /\ u \in DOMAIN txn'[t].points =>
                                txn'[t].points[u] = points'[u] + txn'[t].ledger[u].change
                          /\ leaving'[t] = {u} /\ txn'[t] = NoWrites => points'[u] = 0
    BY DEF Unseen, Busy, InFlight
<1>1. DOMAIN NoWrites.points = {}
    BY DEF NoWrites, NoRows
<1>2. overlooked'[t] = IF t = s \/ ~Busy(t) THEN {} ELSE overlooked[t] \cup wrote
    BY DEF Overlook
<1>3. /\ txn'[t] = IF t = s THEN NoWrites ELSE txn[t]
      /\ leaving'[t] = IF t = s THEN {} ELSE leaving[t]
    BY DEF WithdrawalTypeOK, TypeOK
<1>4. CASE t = s \/ ~Busy(t)
    <2>1. txn'[t] = NoWrites /\ leaving'[t] = {}
        BY <1>3, <1>4 DEF Busy, InFlight
    <2> QED BY <1>1, <1>2, <1>4, <2>1
<1>5. CASE t # s /\ Busy(t)
    <2>1. Busy(t)'
        BY <1>3, <1>5 DEF Busy, InFlight
    <2> QED BY <1>2, <1>3, <1>5, <2>1 DEF Unseen
<1> QED BY <1>4, <1>5

LEMMA NextUnseen ==
    ASSUME WithdrawalTypeOK, WritesOK, Unseen, WithdrawalNext
    PROVE  Unseen'
<1> USE DEF account, history
<1>1. ASSUME NEW s \in Sessions, BeginBetting(s) PROVE Unseen'
    <2>1. PICK w : PointsContinue(w) /\ ~InFlight(s) /\ txn' = [txn EXCEPT ![s] = w] /\ UNCHANGED dbVars
        BY <1>1, BeginFits DEF Begin
    <2>2. leaving[s] = {} /\ leaving' = leaving /\ overlooked' = overlooked /\ points' = points
        BY <1>1, <2>1 DEF BeginBetting, dbVars
    <2>3. overlooked[s] = {}
        BY <2>1, <2>2 DEF Unseen, Busy
    <2>4. \A t \in Sessions : txn'[t] = IF t = s THEN w ELSE txn[t]
        BY <2>1 DEF WithdrawalTypeOK, TypeOK
    <2>5. ASSUME NEW t \in Sessions
          PROVE  /\ ~Busy(t)' => overlooked[t] = {}
                 /\ \A u \in Users \ overlooked[t] :
                       /\ leaving[t] = {} /\ u \in DOMAIN txn'[t].points =>
                             txn'[t].points[u] = points[u] + txn'[t].ledger[u].change
                       /\ leaving[t] = {u} /\ txn'[t] = NoWrites => points[u] = 0
        <3>1. CASE t = s
            BY <2>1, <2>2, <2>3, <2>4, <3>1 DEF PointsContinue
        <3>2. CASE t # s
            BY <2>2, <2>4, <3>2 DEF Unseen, Busy, InFlight
        <3> QED BY <3>1, <3>2
    <2> QED BY <2>2, <2>5 DEF Unseen, Busy, InFlight
<1>2. ASSUME NEW s \in Sessions, NEW u \in Users, Withdraw(s, u) PROVE Unseen'
    <2>1. /\ ~Busy(s) /\ leaving' = [leaving EXCEPT ![s] = {u}]
          /\ txn' = [txn EXCEPT ![s] = IF points[u] = 0 THEN NoWrites ELSE Forfeit(u)]
          /\ overlooked' = overlooked /\ points' = points
        BY <1>2 DEF Withdraw, dbVars
    <2>2. Forfeit(u) # NoWrites
        <3>1. NoWrites.points = NoRows /\ Forfeit(u).points = [x \in {u} |-> 0]
            BY ForfeitOK DEF NoWrites
        <3>2. DOMAIN NoRows = {} /\ DOMAIN [x \in {u} |-> 0] = {u}
            BY DEF NoRows
        <3> QED BY <3>1, <3>2
    <2>3. /\ txn'[s] = NoWrites => points[u] = 0
          /\ leaving'[s] = {u} /\ overlooked[s] = {}
        BY <2>1, <2>2 DEF Unseen, WithdrawalTypeOK, TypeOK
    <2>4. \A t \in Sessions \ {s} : txn'[t] = txn[t] /\ leaving'[t] = leaving[t]
        BY <2>1 DEF WithdrawalTypeOK, TypeOK
    <2>5. ASSUME NEW t \in Sessions
          PROVE  /\ ~Busy(t)' => overlooked[t] = {}
                 /\ \A v \in Users \ overlooked[t] :
                       /\ leaving'[t] = {} /\ v \in DOMAIN txn'[t].points =>
                             txn'[t].points[v] = points[v] + txn'[t].ledger[v].change
                       /\ leaving'[t] = {v} /\ txn'[t] = NoWrites => points[v] = 0
        <3>1. CASE t = s
            BY <2>3, <3>1
        <3>2. CASE t # s
            BY <2>4, <3>2 DEF Unseen, Busy, InFlight
        <3> QED BY <3>1, <3>2
    <2> QED BY <2>1, <2>5 DEF Unseen, Busy, InFlight
<1>3. ASSUME NEW s \in Sessions, leaving[s] = {}
      PROVE  [leaving EXCEPT ![s] = {}] = leaving
    BY <1>3 DEF WithdrawalTypeOK
<1>4. ASSUME NEW s \in Sessions, CommitBetting(s) PROVE Unseen'
    <2>1. \A u \in Users \ DOMAIN txn[s].points : points'[u] = points[u]
        BY <1>4, ApplyEffect DEF CommitBetting, Commit, WithdrawalTypeOK
    <2> QED BY <1>3, <1>4, <2>1, EndKeepsUnseen DEF CommitBetting, Commit
<1>5. ASSUME NEW s \in Sessions, AbortBetting(s) PROVE Unseen'
    <2>1. points' = points
        BY <1>5 DEF AbortBetting, Abort, dbVars
    <2> QED BY <1>3, <1>5, <2>1, EndKeepsUnseen DEF AbortBetting, Abort
<1>6. ASSUME NEW s \in Sessions, CommitWithdrawal(s) PROVE Unseen'
    <2>1. \A u \in Users \ DOMAIN txn[s].points : points'[u] = points[u]
        BY <1>6, ApplyEffect DEF CommitWithdrawal, WithdrawalTypeOK
    <2> QED BY <1>6, <2>1, EndKeepsUnseen DEF CommitWithdrawal
<1>7. ASSUME NEW s \in Sessions, AbortWithdrawal(s) PROVE Unseen'
    <2>1. points' = points
        BY <1>7 DEF AbortWithdrawal, dbVars
    <2> QED BY <1>7, <2>1, EndKeepsUnseen DEF AbortWithdrawal
<1> QED BY <1>1, <1>2, <1>4, <1>5, <1>6, <1>7 DEF WithdrawalNext

LEMMA NextSince ==
    ASSUME WithdrawalTypeOK, \A u \in Users : since[u] <= Len(ledger[u]), WithdrawalNext
    PROVE  \A u \in Users : since'[u] <= Len(ledger'[u])
<1> USE DEF WithdrawalTypeOK, account
<1>1. ASSUME NEW L \in Seq(PointHistory), NEW r \in PointHistory
      PROVE  Len(Append(L, r)) = Len(L) + 1
    OBVIOUS
<1>2. ASSUME NEW s \in Sessions, Apply(txn[s]), NEW u \in Users
      PROVE  Len(ledger[u]) \in Nat /\ Len(ledger'[u]) \in Nat /\ Len(ledger[u]) <= Len(ledger'[u])
    <2>1. CASE u \in DOMAIN txn[s].ledger
        <3>1. ledger[u] \in Seq(PointHistory) /\ txn[s].ledger[u] \in PointHistory
              /\ ledger'[u] = Append(ledger[u], txn[s].ledger[u])
            BY <1>2, <2>1, ApplyEffect
        <3>2. Len(ledger'[u]) = Len(ledger[u]) + 1
            BY <1>1, <3>1
        <3> QED BY <3>1, <3>2
    <2>2. CASE u \notin DOMAIN txn[s].ledger
        <3>1. ledger[u] \in Seq(PointHistory) /\ ledger'[u] = ledger[u]
            BY <1>2, <2>2, ApplyEffect
        <3> QED BY <3>1
    <2> QED BY <2>1, <2>2
<1>3. \A u \in Users : since[u] \in Int
    BY DEF Active
<1>4. ASSUME NEW s \in Sessions, CommitBetting(s) PROVE \A u \in Users : since'[u] <= Len(ledger'[u])
    BY <1>2, <1>3, <1>4 DEF CommitBetting, Commit
<1>5. ASSUME NEW s \in Sessions, CommitWithdrawal(s) PROVE \A u \in Users : since'[u] <= Len(ledger'[u])
    BY <1>2, <1>3, <1>5 DEF CommitWithdrawal
<1>6. UNCHANGED <<ledger, since>> => \A u \in Users : since'[u] <= Len(ledger'[u])
    OBVIOUS
<1>7. ASSUME NEW s \in Sessions, BeginBetting(s) PROVE UNCHANGED <<ledger, since>>
    BY <1>7, BeginFits DEF BeginBetting, Begin, dbVars
<1> QED BY <1>4, <1>5, <1>6, <1>7 DEF WithdrawalNext, AbortBetting, Abort, Withdraw, AbortWithdrawal, dbVars

LEMMA NextAddsUp ==
    ASSUME WithdrawalInv, WithdrawalNext
    PROVE  PointsAddUpUnlessOverwritten'
<1> USE DEF WithdrawalInv, WithdrawalTypeOK, account, history
<1>1. UNCHANGED <<points, ledger, since, overwritten>> => PointsAddUpUnlessOverwritten'
    BY DEF PointsAddUpUnlessOverwritten, Withdrawn
<1>2. ASSUME NEW s \in Sessions, BeginBetting(s) \/ AbortBetting(s) \/ AbortWithdrawal(s)
      PROVE  PointsAddUpUnlessOverwritten'
    BY <1>1, <1>2, BeginFits DEF BeginBetting, AbortBetting, AbortWithdrawal, Abort, Begin, dbVars
<1>3. ASSUME NEW s \in Sessions, NEW u \in Users, Withdraw(s, u) PROVE PointsAddUpUnlessOverwritten'
    BY <1>1, <1>3 DEF Withdraw, dbVars
<1> DEFINE from(u) == IF Withdrawn(u) THEN since[u] ELSE 0
           start(u) == IF Withdrawn(u) THEN 0 ELSE InitialPoints
           AddsUp(u) == points[u] + Taken(ledger[u], from(u)) = start(u) + Given(ledger[u], from(u))
<1>4. ASSUME NEW u \in Users
      PROVE  /\ points[u] \in Nat /\ ledger[u] \in Seq(PointHistory)
             /\ from(u) \in Nat /\ from(u) <= Len(ledger[u]) /\ start(u) \in Nat
    BY AmountsAssumption DEF TypeOK, Withdrawn
<1>5. \A L \in Seq(PointHistory), k \in Nat : Given(L, k) \in Nat
    BY GivenIsNat
<1>9. \A u \in Users \ overwritten : AddsUp(u)
    <2> SUFFICES ASSUME NEW u \in Users \ overwritten PROVE AddsUp(u)
        OBVIOUS
    <2>1. IF Withdrawn(u)
          THEN points[u] + Taken(ledger[u], since[u]) = Given(ledger[u], since[u])
          ELSE points[u] + Taken(ledger[u], 0) = InitialPoints + Given(ledger[u], 0)
        BY DEF PointsAddUpUnlessOverwritten
    <2>2. CASE Withdrawn(u)
        <3>1. Given(ledger[u], since[u]) \in Nat
            BY <1>4, <1>5, <2>2
        <3> QED BY <2>1, <2>2, <3>1
    <2>3. CASE ~Withdrawn(u)
        BY <2>1, <2>3
    <2> QED BY <2>2, <2>3
<1>6. ASSUME NEW s \in Sessions, CommitBetting(s), NEW u \in Users \ overwritten'
      PROVE  AddsUp(u)'
    <2> DEFINE w == txn[s]
    <2>1. /\ Apply(w) /\ Balanced(w) /\ since' = since /\ leaving[s] = {}
          /\ u \notin overwritten /\ (u \in DOMAIN w.points => u \notin overlooked[s])
        BY <1>6 DEF CommitBetting, Commit, WritesOK
    <2>2. AddsUp(u)
        <3>1. u \in Users \ overwritten
            BY <2>1
        <3> QED BY <1>9, <3>1
    <2>3. from(u)' = from(u) /\ start(u)' = start(u)
        BY <2>1 DEF Withdrawn
    <2>4. CASE u \in DOMAIN w.points
        <3>1. w.points[u] = points[u] + w.ledger[u].change
            BY <2>1, <2>4 DEF Unseen
        <3>2. points'[u] = w.points[u] /\ ledger'[u] = Append(ledger[u], w.ledger[u])
              /\ w.ledger[u] \in PointHistory
            BY <2>1, <2>4, ApplyEffect DEF Balanced
        <3> HIDE DEF from, start, w
        <3>3. (points[u] + w.ledger[u].change) + Taken(Append(ledger[u], w.ledger[u]), from(u))
                  = start(u) + Given(Append(ledger[u], w.ledger[u]), from(u))
            BY <1>4, <2>2, <3>2, RowKeepsSum
        <3> QED BY <2>3, <3>1, <3>2, <3>3
    <2>5. CASE u \notin DOMAIN w.points
        <3>1. points'[u] = points[u] /\ ledger'[u] = ledger[u]
            BY <2>1, <2>5, ApplyEffect DEF Balanced
        <3> HIDE DEF from, start, w
        <3> QED BY <2>2, <2>3, <3>1
    <2> QED BY <2>4, <2>5
<1>7. ASSUME NEW s \in Sessions, CommitWithdrawal(s), NEW u \in Users \ overwritten'
      PROVE  AddsUp(u)'
    <2> DEFINE w == txn[s]
    <2>1. PICK v \in Users : leaving[s] = {v} /\ w \in {NoWrites, Forfeit(v)}
        BY <1>7 DEF CommitWithdrawal, WritesOK
    <2>2. /\ Apply(w) /\ since'[u] = IF u = v THEN Len(ledger[u]) ELSE since[u]
          /\ u # v => u \notin overwritten
          /\ u = v => u \notin overlooked[s]
        BY <1>7, <2>1 DEF CommitWithdrawal
    <2>3. w.ledger = NoRows /\ (w = Forfeit(v) => w.points = [x \in {v} |-> 0])
          /\ (w = NoWrites => w.points = NoRows)
        <3>1. NoWrites.ledger = NoRows /\ NoWrites.points = NoRows
            BY DEF NoWrites
        <3>2. Forfeit(v).ledger = NoRows /\ Forfeit(v).points = [x \in {v} |-> 0]
            BY ForfeitOK
        <3> HIDE DEF w
        <3> QED BY <2>1, <3>1, <3>2
    <2>4. ledger'[u] = ledger[u]
        BY <2>2, <2>3, ApplyEffect DEF NoRows
    <2>5. CASE u = v
        <3>1. points'[u] = 0
            <4>1. CASE w = Forfeit(v)
                BY <2>2, <2>3, <2>5, <4>1, ApplyEffect
            <4>2. CASE w = NoWrites
                <5>1. points[u] = 0
                    BY <2>1, <2>2, <2>5, <4>2 DEF Unseen
                <5> QED BY <2>2, <2>3, <4>2, <5>1, ApplyEffect DEF NoRows
            <4> QED BY <2>1, <4>1, <4>2
        <3>2. Withdrawn(u)' /\ since'[u] = Len(ledger[u])
            <4>1. Len(ledger[u]) \in Nat
                BY <1>4
            <4> QED BY <2>2, <2>5, <4>1 DEF Withdrawn, Active
        <3>3. Given(ledger[u], Len(ledger[u])) = 0 /\ Taken(ledger[u], Len(ledger[u])) = 0
            BY <1>4, NothingSince
        <3> QED BY <2>4, <3>1, <3>2, <3>3
    <2>6. CASE u # v
        <3>1. AddsUp(u)
            BY <1>9, <2>2, <2>6
        <3>2. points'[u] = points[u]
            <4>1. u \notin DOMAIN w.points
                BY <2>1, <2>3, <2>6 DEF NoRows
            <4> QED BY <2>2, <4>1, ApplyEffect
        <3>3. from(u)' = from(u) /\ start(u)' = start(u)
            BY <2>2, <2>6 DEF Withdrawn
        <3> HIDE DEF from, start, w
        <3> QED BY <2>4, <3>1, <3>2, <3>3
    <2> QED BY <2>5, <2>6
<1>10. WithdrawalTypeOK'
    BY NextWithdrawalType
<1>8. (\A u \in Users \ overwritten' : AddsUp(u)') => PointsAddUpUnlessOverwritten'
    <2> SUFFICES ASSUME \A u \in Users \ overwritten' : AddsUp(u)',
                        NEW u \in Users \ overwritten'
                 PROVE  IF Withdrawn(u)'
                        THEN points'[u] + Taken(ledger'[u], since'[u]) = Given(ledger'[u], since'[u])
                        ELSE points'[u] + Taken(ledger'[u], 0) = InitialPoints + Given(ledger'[u], 0)
        BY DEF PointsAddUpUnlessOverwritten, Withdrawn
    <2>1. AddsUp(u)'
        OBVIOUS
    <2>2. CASE Withdrawn(u)'
        <3>1. since'[u] \in Nat /\ ledger'[u] \in Seq(PointHistory)
            BY <1>10, <2>2 DEF TypeOK, Withdrawn
        <3>2. Given(ledger'[u], since'[u]) \in Nat
            BY <1>5, <3>1
        <3> QED BY <2>1, <2>2, <3>2
    <2>3. CASE ~Withdrawn(u)'
        BY <2>1, <2>3
    <2> QED BY <2>2, <2>3
<1> QED BY <1>2, <1>3, <1>6, <1>7, <1>8 DEF WithdrawalNext

-----------------------------------------------------------------------------
LEMMA InitWithdrawal == WithdrawalInit => WithdrawalInv
<1> SUFFICES ASSUME WithdrawalInit PROVE WithdrawalInv
    OBVIOUS
<1>1. WithdrawalTypeOK
    BY InitType DEF WithdrawalInit, WithdrawalTypeOK
<1>2. WritesOK
    BY NoWritesContinues DEF WithdrawalInit, Init, WritesOK, PointsContinue
<1>3. NewestRowOrForfeited
    BY DEF WithdrawalInit, Init, NewestRowOrForfeited
<1>4. since = [u \in Users |-> -1] /\ ledger = [u \in Users |-> <<>>] /\ overwritten = {}
      /\ txn = [s \in Sessions |-> NoWrites] /\ leaving = [s \in Sessions |-> {}]
      /\ overlooked = [s \in Sessions |-> {}] /\ points = [u \in Users |-> InitialPoints]
    BY DEF WithdrawalInit, Init, Active
<1>5. \A u \in Users : since[u] <= Len(ledger[u])
    BY <1>4
<1>6. Unseen
    <2>1. DOMAIN NoWrites.points = {}
        BY DEF NoWrites, NoRows
    <2> QED BY <1>4, <2>1 DEF Unseen
<1>7. PointsAddUpUnlessOverwritten
    <2>1. <<>> \in Seq(PointHistory) /\ Len(<<>>) = 0
        OBVIOUS
    <2>2. Given(<<>>, 0) = 0 /\ Taken(<<>>, 0) = 0
        BY <2>1, NothingSince
    <2>3. \A u \in Users : ~Withdrawn(u) /\ points[u] = InitialPoints /\ ledger[u] = <<>>
        BY <1>4 DEF Withdrawn, Active
    <2> QED BY <2>2, <2>3, AmountsAssumption DEF PointsAddUpUnlessOverwritten
<1> QED BY <1>1, <1>2, <1>3, <1>5, <1>6, <1>7 DEF WithdrawalInv

LEMMA NextWithdrawal == WithdrawalInv /\ [WithdrawalNext]_allVars => WithdrawalInv'
<1>1. WithdrawalInv /\ WithdrawalNext => WithdrawalInv'
    <2> SUFFICES ASSUME WithdrawalInv, WithdrawalNext PROVE WithdrawalInv'
        OBVIOUS
    <2>1. WithdrawalTypeOK' /\ WritesOK' /\ NewestRowOrForfeited' /\ Unseen'
        BY NextWithdrawalType, NextWrites, NextBalance, NextUnseen DEF WithdrawalInv
    <2>2. \A u \in Users : since'[u] <= Len(ledger'[u])
        BY NextSince DEF WithdrawalInv
    <2>3. PointsAddUpUnlessOverwritten'
        BY NextAddsUp
    <2> QED BY <2>1, <2>2, <2>3 DEF WithdrawalInv
<1>2. WithdrawalInv /\ UNCHANGED allVars => WithdrawalInv'
    <2> SUFFICES ASSUME WithdrawalInv, UNCHANGED allVars PROVE WithdrawalInv'
        OBVIOUS
    <2> USE DEF WithdrawalInv, allVars, account, history
    <2>1. TypeOK'
        BY NextType DEF WithdrawalTypeOK
    <2>2. WithdrawalTypeOK'
        BY <2>1 DEF WithdrawalTypeOK
    <2>3. WritesOK'
        BY DEF WritesOK, Balanced, Forfeit, vars
    <2>4. NewestRowOrForfeited'
        BY DEF NewestRowOrForfeited, vars, dbVars
    <2>5. Unseen' /\ \A u \in Users : since'[u] <= Len(ledger'[u])
        BY DEF Unseen, Busy, InFlight, vars, dbVars
    <2>6. PointsAddUpUnlessOverwritten'
        BY DEF PointsAddUpUnlessOverwritten, Withdrawn, vars, dbVars
    <2> QED BY <2>2, <2>3, <2>4, <2>5, <2>6
<1> QED BY <1>1, <1>2

LEMMA WithdrawalInvariance == WithdrawalSpec => []WithdrawalInv
BY InitWithdrawal, NextWithdrawal, PTL DEF WithdrawalSpec

(* With withdrawals among the requests, points are still never negative: a  *)
(* bet that has read the points which a withdrawal takes writes them back,  *)
(* and never less than zero.                                                *)
THEOREM WithdrawalTypeCorrect == WithdrawalSpec => []WithdrawalTypeOK
<1>1. WithdrawalInv => WithdrawalTypeOK
    BY DEF WithdrawalInv
<1> QED BY <1>1, WithdrawalInvariance, PTL

(* Whatever overlaps, the points are those of the newest history row, or    *)
(* zero because of a withdrawal after that row.                             *)
THEOREM Forfeited == WithdrawalSpec => []NewestRowOrForfeited
<1>1. WithdrawalInv => NewestRowOrForfeited
    BY DEF WithdrawalInv
<1> QED BY <1>1, WithdrawalInvariance, PTL

(* Points appear or vanish only when a request writes, or a withdrawal      *)
(* takes as zero, points that another request has written since it read     *)
(* them: all other points are what the history says was given and taken,    *)
(* from signup on or since the withdrawal.                                  *)
THEOREM Accounted == WithdrawalSpec => []PointsAddUpUnlessOverwritten
<1>1. WithdrawalInv => PointsAddUpUnlessOverwritten
    BY DEF WithdrawalInv
<1> QED BY <1>1, WithdrawalInvariance, PTL

=============================================================================
