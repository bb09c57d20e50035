--------------------------- MODULE AmountsProofs ----------------------------
(***************************************************************************)
(* Facts about Amounts: rounded-down shares, and how a sum changes when    *)
(* one value changes; and the least and the greatest number of a set.      *)
(***************************************************************************)
EXTENDS Amounts, FiniteSetTheorems, WellFoundedInduction, TLAPS

-----------------------------------------------------------------------------
(* Shares *)

\* Integer division is characterised by its two bounds.
LEMMA DivBounds ==
  ASSUME NEW a \in Nat, NEW b \in Nat \ {0}
  PROVE  /\ a \div b \in Nat
         /\ (a \div b) * b <= a
         /\ a < ((a \div b) + 1) * b
  BY SMT

\* The quotient is the largest number whose multiple fits.
LEMMA DivLargest ==
  ASSUME NEW a \in Nat, NEW b \in Nat \ {0}, NEW q \in Int, q * b <= a
  PROVE  q <= a \div b
<1> DEFINE r == a \div b
<1>1. r \in Nat /\ a < (r + 1) * b
  BY DivBounds
<1>2. q * b < (r + 1) * b
  BY <1>1
<1>3. ~(q >= r + 1)
  <2> SUFFICES ASSUME q >= r + 1 PROVE FALSE
    OBVIOUS
  <2>1. q * b >= (r + 1) * b
    BY <1>1, SMT
  <2> QED
    BY <2>1, <1>2, <1>1, SMT
<1> QED
  BY <1>1, <1>3

\* A share is a natural number.
LEMMA ShareType ==
  ASSUME NEW f \in Nat, NEW c \in Nat, NEW g \in Nat \ {0}
  PROVE  Share(f, c, g) \in Nat
<1>1. f * c \in Nat
  BY SMT
<1> QED
  BY <1>1, DivBounds DEF Share

\* The share of the whole is the whole part; the share of nothing is nothing.
LEMMA ShareEnds ==
  ASSUME NEW f \in Nat, NEW g \in Nat \ {0}
  PROVE  Share(f, g, g) = f /\ Share(f, 0, g) = 0
<1>1. (f * g) \div g = f
  <2>1. f * g \in Nat /\ f \in Nat
    BY SMT
  <2>2. f <= (f * g) \div g
    BY <2>1, DivLargest
  <2>3. (f * g) \div g \in Nat /\ ((f * g) \div g) * g <= f * g
    BY <2>1, DivBounds
  <2>4. ~((f * g) \div g >= f + 1)
    <3> DEFINE r == (f * g) \div g
    <3> HIDE DEF r
    <3> SUFFICES ASSUME r \in Nat, r * g <= f * g, r >= f + 1 PROVE FALSE
      BY <2>3 DEF r
    <3>1. r * g >= (f + 1) * g
      BY SMT
    <3> QED
      BY <3>1, SMT
  <2> QED
    BY <2>2, <2>3, <2>4
<1>2. (f * 0) \div g = 0
  BY SMT
<1> QED
  BY <1>1, <1>2 DEF Share

\* A share grows with the numerator, by no more than the numerator does when
\* the part is at most the denominator.
LEMMA ShareGrowth ==
  ASSUME NEW f \in Nat, NEW g \in Nat \ {0}, NEW c \in Nat, NEW d \in Nat, c <= d
  PROVE  /\ Share(f, c, g) <= Share(f, d, g)
         /\ f <= g => Share(f, d, g) - Share(f, c, g) <= d - c
<1> DEFINE p == (f * c) \div g
           q == (f * d) \div g
<1>1. f * c \in Nat /\ f * d \in Nat /\ f * c <= f * d
  BY SMT
<1>2. /\ p \in Nat /\ p * g <= f * c /\ f * c < (p + 1) * g
      /\ q \in Nat /\ q * g <= f * d /\ f * d < (q + 1) * g
  BY <1>1, DivBounds
<1> HIDE DEF p, q
<1>3. p <= q
  <2>1. p * g <= f * d
    BY <1>1, <1>2
  <2> QED
    BY <2>1, <1>1, <1>2, DivLargest DEF q
<1>4. ASSUME f <= g PROVE q - p <= d - c
  <2>1. f * d - f * c = f * (d - c)
    BY SMT
  <2>2. f * (d - c) <= g * (d - c)
    BY <1>4, SMT
  <2>3. q * g - (d - c) * g <= f * c
    BY <2>1, <2>2, <1>1, <1>2, SMT
  <2>4. (q - (d - c)) * g <= f * c
    BY <2>3, <1>2, SMT
  <2>5. q - (d - c) \in Int
    BY <1>2
  <2>6. q - (d - c) <= p
    BY <2>4, <2>5, <1>1, DivLargest DEF p
  <2> QED
    BY <2>6, <1>2
<1> QED
  BY <1>3, <1>4 DEF Share, p, q

\* A share at a rate of at most one is at most the amount.
LEMMA ShareAtMost ==
  ASSUME NEW f \in Nat, NEW c \in Nat, NEW g \in Nat \ {0}, c <= g
  PROVE  Share(f, c, g) <= f
<1>1. Share(f, c, g) <= Share(f, g, g)
  BY ShareGrowth
<1> QED
  BY <1>1, ShareEnds, ShareType

-----------------------------------------------------------------------------
(* Sums *)

\* One column of units.
LEMMA ColumnSize ==
  ASSUME NEW x, NEW n \in Nat
  PROVE  IsFiniteSet({x} \X (1..n)) /\ Cardinality({x} \X (1..n)) = n
<1>1. IsFiniteSet({x}) /\ Cardinality({x}) = 1
  BY FS_Singleton
<1>2. IsFiniteSet(1..n) /\ Cardinality(1..n) = n
  BY FS_Interval
<1>3. /\ IsFiniteSet({x} \X (1..n))
      /\ Cardinality({x} \X (1..n)) = Cardinality({x}) * Cardinality(1..n)
  BY <1>1, <1>2, FS_Product
<1> QED
  BY <1>1, <1>2, <1>3

\* A finite function has finitely many units, so its sum is a natural number.
LEMMA TotalType ==
  ASSUME NEW D, IsFiniteSet(D), NEW f \in [D -> Nat]
  PROVE  IsFiniteSet(Units(f)) /\ Total(f) \in Nat
<1> DEFINE S == {{x} \X (1..f[x]) : x \in D}
           column == [x \in D |-> {x} \X (1..f[x])]
<1>1. column \in Surjection(D, S)
  BY DEF Surjection
<1>2. IsFiniteSet(S)
  BY <1>1, FS_Surjection
<1>3. \A T \in S : IsFiniteSet(T)
  <2>1. \A x \in D : IsFiniteSet({x} \X (1..f[x]))
    BY ColumnSize
  <2> QED
    BY <2>1
<1>4. IsFiniteSet(UNION S)
  BY <1>2, <1>3, FS_UNION
<1>5. Units(f) = UNION S
  BY DEF Units
<1> QED
  BY <1>4, <1>5, FS_CardinalityType DEF Total

\* Changing one value changes the sum by the difference; no value exceeds the
\* sum.
LEMMA TotalUpdate ==
  ASSUME NEW D, IsFiniteSet(D), NEW f \in [D -> Nat], NEW g \in [D -> Nat], NEW d \in D,
         \A x \in D : x # d => g[x] = f[x]
  PROVE  /\ f[d] <= Total(f)
         /\ Total(g) = Total(f) - f[d] + g[d]
<1> DEFINE rest == UNION {{x} \X (1..f[x]) : x \in D \ {d}}
           old == {d} \X (1..f[d])
           new == {d} \X (1..g[d])
<1>1. Units(f) = rest \cup old /\ Units(g) = rest \cup new
  BY DEF Units
<1>2. rest \cap old = {} /\ rest \cap new = {}
  OBVIOUS
<1>3. IsFiniteSet(Units(f)) /\ Total(f) \in Nat
  BY TotalType
<1>4. IsFiniteSet(rest)
  <2>1. rest \in SUBSET Units(f)
    BY <1>1
  <2> QED
    BY <2>1, <1>3, FS_Subset
<1>5. IsFiniteSet(old) /\ Cardinality(old) = f[d] /\ IsFiniteSet(new) /\ Cardinality(new) = g[d]
  BY ColumnSize
<1>6. Cardinality(rest) \in Nat
  BY <1>4, FS_CardinalityType
<1>7. Cardinality(rest \cap old) = 0 /\ Cardinality(rest \cap new) = 0
  BY <1>2, FS_EmptySet
<1>8. Cardinality(rest \cup old) = Cardinality(rest) + f[d]
  <2>1. Cardinality(rest \cup old)
          = Cardinality(rest) + Cardinality(old) - Cardinality(rest \cap old)
    BY <1>4, <1>5, FS_Union
  <2> QED
    BY <2>1, <1>5, <1>6, <1>7
<1>9. Cardinality(rest \cup new) = Cardinality(rest) + g[d]
  <2>1. Cardinality(rest \cup new)
          = Cardinality(rest) + Cardinality(new) - Cardinality(rest \cap new)
    BY <1>4, <1>5, FS_Union
  <2> QED
    BY <2>1, <1>5, <1>6, <1>7
<1>10. Total(f) = Cardinality(rest) + f[d] /\ Total(g) = Cardinality(rest) + g[d]
  BY <1>1, <1>8, <1>9 DEF Total
<1> QED
  BY <1>10, <1>6

\* The sum of a function that is zero everywhere is zero.
LEMMA TotalZero ==
  ASSUME NEW D, NEW f, f = [x \in D |-> 0]
  PROVE  Total(f) = 0
<1>1. Units(f) = {}
  BY DEF Units
<1> QED
  BY <1>1, FS_EmptySet DEF Total

\* The sum over a part of the points is that of the function that is zero elsewhere.
LEMMA TotalPadded ==
  ASSUME NEW D, NEW f \in [D -> Nat], NEW S \in SUBSET D
  PROVE  Total([x \in S |-> f[x]]) = Total([x \in D |-> IF x \in S THEN f[x] ELSE 0])
<1> DEFINE part == [x \in S |-> f[x]]
           all == [x \in D |-> IF x \in S THEN f[x] ELSE 0]
<1>1. ASSUME NEW u PROVE u \in Units(part) <=> u \in Units(all)
  <2>1. u \in Units(part) <=> \E x \in S : u \in {x} \X (1..f[x])
    BY DEF Units
  <2>2. u \in Units(all) <=> \E x \in D : u \in {x} \X (1..all[x])
    BY DEF Units
  <2>3. \A x \in S : x \in D /\ all[x] = f[x]
    OBVIOUS
  <2>4. \A x \in D : x \notin S => {x} \X (1..all[x]) = {}
    OBVIOUS
  <2> HIDE DEF all
  <2>5. QED
    BY <2>1, <2>2, <2>3, <2>4
<1>2. Units(part) = Units(all)
  BY <1>1
<1>3. QED
  BY <1>2 DEF Total

LEMMA TotalOfPart ==
  ASSUME NEW D, IsFiniteSet(D), NEW f \in [D -> Nat], NEW S \in SUBSET D
  PROVE  Total([x \in S |-> f[x]]) \in 0..Total(f)
<1> DEFINE part == [x \in S |-> f[x]]
<1>1. IsFiniteSet(S)
  BY FS_Subset
<1>2. part \in [S -> Nat]
  OBVIOUS
<1>3. IsFiniteSet(Units(f)) /\ Total(f) \in Nat /\ Total(part) \in Nat
  BY <1>1, <1>2, TotalType
<1>4. Units(part) \subseteq Units(f)
  BY DEF Units
<1>5. Total(part) <= Total(f)
  BY <1>3, <1>4, FS_Subset DEF Total
<1>6. QED
  BY <1>3, <1>5

\* One more point adds its value.
LEMMA TotalOfMore ==
  ASSUME NEW D, IsFiniteSet(D), NEW f \in [D -> Nat], NEW S \in SUBSET D, NEW d \in D \ S
  PROVE  Total([x \in S \cup {d} |-> f[x]]) = Total([x \in S |-> f[x]]) + f[d]
<1> DEFINE p == [x \in D |-> IF x \in S THEN f[x] ELSE 0]
           q == [x \in D |-> IF x \in S \cup {d} THEN f[x] ELSE 0]
<1>1. p \in [D -> Nat] /\ q \in [D -> Nat] /\ p[d] = 0 /\ q[d] = f[d]
      /\ \A x \in D : x # d => q[x] = p[x]
  OBVIOUS
<1>2. Total(p) = Total([x \in S |-> f[x]]) /\ Total(q) = Total([x \in S \cup {d} |-> f[x]])
  BY TotalPadded
<1>3. Total(p) \in Nat /\ f[d] \in Nat
  BY <1>1, TotalType
<1> HIDE DEF p, q
<1>4. Total(q) = Total(p) - p[d] + q[d]
  BY <1>1, TotalUpdate
<1>5. QED
  BY <1>1, <1>2, <1>3, <1>4

\* TotalOfMore, with the larger set named.
LEMMA TotalWith ==
  ASSUME NEW D, IsFiniteSet(D), NEW f \in [D -> Nat], NEW S \in SUBSET D, NEW d \in D \ S,
         NEW T, T = S \cup {d}
  PROVE  Total([x \in T |-> f[x]]) = Total([x \in S |-> f[x]]) + f[d]
<1>1. PICK p \in [D -> Nat] : p = [x \in D |-> IF x \in S THEN f[x] ELSE 0]
  OBVIOUS
<1>2. PICK q \in [D -> Nat] : q = [x \in D |-> IF x \in T THEN f[x] ELSE 0]
  OBVIOUS
<1>3. T \in SUBSET D
  OBVIOUS
<1>4. Total([x \in S |-> f[x]]) = Total(p)
  BY <1>1, TotalPadded
<1>5. Total([x \in T |-> f[x]]) = Total(q)
  BY <1>2, <1>3, TotalPadded
<1>6. p[d] = 0 /\ q[d] = f[d] /\ \A x \in D : x # d => q[x] = p[x]
  BY <1>1, <1>2
<1>7. Total(q) = Total(p) - p[d] + q[d] /\ Total(p) \in Nat
  BY <1>6, TotalUpdate, TotalType
<1> QED
  BY <1>4, <1>5, <1>6, <1>7

-----------------------------------------------------------------------------
(* Least and greatest numbers: what stands in for induction. *)

LEMMA LeastOf ==
  ASSUME NEW S \in SUBSET Nat, S # {}
  PROVE  \E n \in S : \A m \in S : n <= m
<1> DEFINE less == {p \in Nat \X Nat : p[1] < p[2]}
<1>1. IsWellFoundedOn(less, Nat)
  BY NatLessThanWellFounded DEF OpToRel
<1>2. \A m, n \in Nat : <<m, n>> \in less <=> m < n
  OBVIOUS
<1> HIDE DEF less
<1>3. PICK n \in S : \A m \in S : ~ (<<m, n>> \in less)
  BY <1>1, WFMin
<1>4. ASSUME NEW m \in S PROVE n <= m
  <2>1. m \in Nat /\ n \in Nat
    OBVIOUS
  <2>2. ~ (<<m, n>> \in less)
    BY <1>3
  <2>3. ~(m < n)
    BY <1>2, <2>1, <2>2
  <2>4. QED
    BY <2>1, <2>3
<1>5. QED
  BY <1>4

LEMMA GreatestOf ==
  ASSUME NEW k \in Nat, NEW S \in SUBSET (1..k), S # {}
  PROVE  \E n \in S : \A m \in S : m <= n
<1> DEFINE above == {k - n : n \in S}
<1>1. above \subseteq Nat /\ above # {}
  <2>1. \A n \in S : n \in 1..k /\ k - n \in Nat
    OBVIOUS
  <2>2. QED
    BY <2>1
<1>2. \A n \in S : k - n \in above /\ n \in 1..k
  OBVIOUS
<1>3. \A a \in above : \E n \in S : a = k - n
  OBVIOUS
<1> HIDE DEF above
<1>4. PICK a \in above : \A b \in above : a <= b
  BY <1>1, LeastOf
<1>5. PICK n \in S : a = k - n
  BY <1>3
<1>6. ASSUME NEW m \in S PROVE m <= n
  <2>1. k - n <= k - m /\ n \in 1..k /\ m \in 1..k
    BY <1>2, <1>4, <1>5
  <2>2. QED
    BY <2>1
<1>7. QED
  BY <1>6

SumAt(D, f, g, h) ==
  /\ IsFiniteSet(D) /\ f \in [D -> Nat] /\ g \in [D -> Nat] /\ h \in [D -> Nat]
  /\ \A x \in D : h[x] = f[x] + g[x]
ZeroOff(D, S, f) == \A x \in D : x \notin S => f[x] = 0

\* The sum of the sums at each point is the sum of the two totals.
LEMMA TotalOfSums ==
  ASSUME NEW D, NEW f, NEW g, NEW h, SumAt(D, f, g, h)
  PROVE  Total(h) = Total(f) + Total(g)
<1> IsFiniteSet(D) /\ f \in [D -> Nat] /\ g \in [D -> Nat] /\ h \in [D -> Nat]
  BY DEF SumAt
<1> DEFINE Adds(S) == Total([x \in S |-> h[x]]) = Total([x \in S |-> f[x]]) + Total([x \in S |-> g[x]])
           bad == {n \in Nat : \E S \in SUBSET D : ~Adds(S) /\ Cardinality(S) = n}
<1>1. Adds({})
  <2>1. PICK none : none = [x \in {} |-> 0]
    OBVIOUS
  <2>2. /\ [x \in {} |-> h[x]] = none /\ [x \in {} |-> f[x]] = none
        /\ [x \in {} |-> g[x]] = none
    BY <2>1
  <2>3. Total(none) = 0
    BY <2>1, TotalZero
  <2> QED
    BY <2>2, <2>3
<1>2. \A S \in SUBSET D : IsFiniteSet(S) /\ Cardinality(S) \in Nat
  BY FS_Subset, FS_CardinalityType
<1>3. CASE bad = {}
  <2>1. Adds(D)
    BY <1>2, <1>3
  <2>2. [x \in D |-> h[x]] = h /\ [x \in D |-> f[x]] = f /\ [x \in D |-> g[x]] = g
    OBVIOUS
  <2> QED
    BY <2>1, <2>2
<1>4. CASE bad # {}
  <2>1. PICK n \in bad : \A m \in bad : n <= m
    <3> HIDE DEF Adds
    <3> QED
      BY <1>4, LeastOf
  <2>2. PICK S \in SUBSET D : ~Adds(S) /\ Cardinality(S) = n
    OBVIOUS
  <2>3. PICK d \in S : TRUE
    BY <1>1, <2>2
  <2>4. PICK R \in SUBSET D : R = S \ {d}
    OBVIOUS
  <2>5. d \in D \ R /\ S = R \cup {d} /\ Cardinality(R) = n - 1
    BY <1>2, <2>2, <2>3, <2>4, FS_RemoveElement
  <2>6. Adds(R)
    <3> HIDE DEF Adds
    <3>1. Cardinality(R) \in Nat /\ n \in Nat
      BY <1>2
    <3>2. Cardinality(R) \notin bad
      BY <2>1, <2>5, <3>1
    <3> QED
      BY <3>1, <3>2
  <2>7. /\ Total([x \in S |-> h[x]]) = Total([x \in R |-> h[x]]) + h[d]
        /\ Total([x \in S |-> f[x]]) = Total([x \in R |-> f[x]]) + f[d]
        /\ Total([x \in S |-> g[x]]) = Total([x \in R |-> g[x]]) + g[d]
    BY <2>5, TotalWith
  <2>8. PICK hr \in Nat, fr \in Nat, gr \in Nat :
          /\ hr = Total([x \in R |-> h[x]]) /\ fr = Total([x \in R |-> f[x]])
          /\ gr = Total([x \in R |-> g[x]])
    <3>1. ASSUME NEW e \in [D -> Nat] PROVE Total([x \in R |-> e[x]]) \in Nat
      <4>1. PICK z \in Nat : z = Total(e)
        BY TotalType
      <4>2. Total([x \in R |-> e[x]]) \in 0..z
        BY <4>1, TotalOfPart
      <4> QED
        BY <4>1, <4>2
    <3> HIDE DEF Adds
    <3> QED
      BY <3>1
  <2>9. hr = fr + gr
    BY <2>6, <2>8
  <2>10. h[d] = f[d] + g[d] /\ f[d] \in Nat /\ g[d] \in Nat
    BY <2>3 DEF SumAt
  <2>11. hr + h[d] = (fr + f[d]) + (gr + g[d])
    BY <2>9, <2>10
  <2> QED
    BY <2>2, <2>7, <2>8, <2>11
<1> QED
  BY <1>3, <1>4

\* The sum over the points where a function is not zero is its total.
LEMMA TotalOfSupport ==
  ASSUME NEW D, NEW f \in [D -> Nat], NEW S \in SUBSET D, ZeroOff(D, S, f)
  PROVE  Total([x \in S |-> f[x]]) = Total(f)
<1>1. [x \in D |-> IF x \in S THEN f[x] ELSE 0] = f
  BY DEF ZeroOff
<1> QED
  BY <1>1, TotalPadded

\* A function that is nowhere greater has no greater total.
LEMMA TotalGrows ==
  ASSUME NEW D, IsFiniteSet(D), NEW f \in [D -> Nat], NEW h \in [D -> Nat],
         \A x \in D : f[x] <= h[x]
  PROVE  Total(f) <= Total(h)
<1>1. \A x \in D : h[x] - f[x] \in Nat /\ h[x] = f[x] + (h[x] - f[x])
  OBVIOUS
<1>2. PICK g \in [D -> Nat] : g = [x \in D |-> h[x] - f[x]]
  BY <1>1
<1>3. SumAt(D, f, g, h)
  BY <1>1, <1>2 DEF SumAt
<1>4. Total(h) = Total(f) + Total(g)
  BY <1>3, TotalOfSums
<1>5. PICK a \in Nat, b \in Nat : a = Total(f) /\ b = Total(g)
  BY TotalType
<1> QED
  BY <1>4, <1>5

\* The total over two parts is that of the one and of the other.
LEMMA TotalOfParts ==
  ASSUME NEW D, IsFiniteSet(D), NEW h \in [D -> Nat], NEW S \in SUBSET D, NEW T \in SUBSET D,
         S \cup T = D, S \cap T = {}
  PROVE  Total(h) = Total([x \in S |-> h[x]]) + Total([x \in T |-> h[x]])
<1>1. PICK f \in [D -> Nat] : f = [x \in D |-> IF x \in S THEN h[x] ELSE 0]
  OBVIOUS
<1>2. PICK g \in [D -> Nat] : g = [x \in D |-> IF x \in T THEN h[x] ELSE 0]
  OBVIOUS
<1>3. SumAt(D, f, g, h)
  <2>1. \A x \in D : h[x] = f[x] + g[x]
    BY <1>1, <1>2
  <2> QED
    BY <2>1 DEF SumAt
<1>4. Total(f) = Total([x \in S |-> h[x]]) /\ Total(g) = Total([x \in T |-> h[x]])
  BY <1>1, <1>2, TotalPadded
<1> QED
  BY <1>3, <1>4, TotalOfSums
=============================================================================
