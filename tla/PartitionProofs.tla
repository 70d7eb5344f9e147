--------------------------- MODULE PartitionProofs ---------------------------
(***************************************************************************)
(* What splitting preserves and changes, on the line and in the plane: a   *)
(* segmentation of any length over any axis with one segment cut in two,   *)
(* and a list of quadrants over any grid with one cut in up to four.       *)
(* First what both pages need besides: a message more or less in a bag,    *)
(* folds over finite sets, sums and means, an element put into a list.     *)
(***************************************************************************)
EXTENDS Segments, Quadrants, Bags, FiniteSetsExt, Functions, FiniteSetTheorems, TLAPS

-----------------------------------------------------------------------------
(* Bags of messages: one message more, one message less.                   *)

LEMMA BagAdd ==
  ASSUME NEW B, IsABag(B), NEW m
  PROVE  /\ IsABag(B (+) SetToBag({m}))
         /\ DOMAIN (B (+) SetToBag({m})) = DOMAIN B \cup {m}
         /\ \A x \in DOMAIN B : x # m => (B (+) SetToBag({m}))[x] = B[x]
         /\ m \notin DOMAIN B => (B (+) SetToBag({m}))[m] = 1
<1> DEFINE C == B (+) SetToBag({m})
<1>1. DOMAIN SetToBag({m}) = {m} /\ SetToBag({m})[m] = 1
  BY DEF SetToBag
<1>2. \A x \in DOMAIN B : B[x] \in Nat /\ B[x] > 0
  BY DEF IsABag
<1>3. C = [x \in DOMAIN B \cup {m} |->
             (IF x \in DOMAIN B THEN B[x] ELSE 0) + (IF x \in {m} THEN SetToBag({m})[x] ELSE 0)]
  BY <1>1 DEF (+)
<1> HIDE DEF C
<1>4. DOMAIN C = DOMAIN B \cup {m}
  BY <1>3
<1>5. \A x \in DOMAIN B : x # m => C[x] = B[x]
  BY <1>2, <1>3
<1>6. m \notin DOMAIN B => C[m] = 1
  BY <1>1, <1>3
<1>7. m \in DOMAIN B => C[m] = B[m] + 1
  BY <1>1, <1>3
<1>8. \A x \in DOMAIN C : C[x] \in {n \in Nat : n > 0}
  BY <1>2, <1>4, <1>5, <1>6, <1>7
<1>9. C = [x \in DOMAIN C |-> C[x]]
  BY <1>3, <1>4
<1>10. IsABag(C)
  BY <1>8, <1>9 DEF IsABag
<1> QED
  BY <1>4, <1>5, <1>6, <1>10 DEF C

LEMMA BagDel ==
  ASSUME NEW B, IsABag(B), NEW m \in DOMAIN B
  PROVE  /\ IsABag(B (-) SetToBag({m}))
         /\ DOMAIN (B (-) SetToBag({m})) \subseteq DOMAIN B
         /\ DOMAIN B \subseteq DOMAIN (B (-) SetToBag({m})) \cup {m}
         /\ \A x \in DOMAIN B : x # m => (B (-) SetToBag({m}))[x] = B[x]
         /\ B[m] = 1 => m \notin DOMAIN (B (-) SetToBag({m}))
<1> DEFINE C == B (-) SetToBag({m})
           D == [x \in DOMAIN B |-> IF x \in {m} THEN B[x] - SetToBag({m})[x] ELSE B[x]]
<1>1. DOMAIN SetToBag({m}) = {m} /\ SetToBag({m})[m] = 1
  BY DEF SetToBag
<1>2. \A x \in DOMAIN B : B[x] \in Nat /\ B[x] > 0
  BY DEF IsABag
<1>3. C = [x \in {d \in DOMAIN D : D[d] > 0} |-> D[x]]
  BY <1>1 DEF (-)
<1>4. DOMAIN D = DOMAIN B /\ D[m] = B[m] - 1
      /\ \A x \in DOMAIN B : x # m => D[x] = B[x]
  BY <1>1
<1> HIDE DEF C, D
<1>5. DOMAIN C = {d \in DOMAIN B : D[d] > 0} /\ \A x \in DOMAIN C : C[x] = D[x]
  BY <1>3, <1>4
<1>6. \A x \in DOMAIN B : x # m => x \in DOMAIN C /\ C[x] = B[x]
  BY <1>2, <1>4, <1>5
<1>7. B[m] = 1 => m \notin DOMAIN C
  BY <1>4, <1>5
<1>8. \A x \in DOMAIN C : C[x] \in {n \in Nat : n > 0}
  <2> SUFFICES ASSUME NEW x \in DOMAIN C PROVE C[x] \in Nat /\ C[x] > 0
    OBVIOUS
  <2>1. D[x] > 0 /\ C[x] = D[x] /\ x \in DOMAIN B
    BY <1>5
  <2>2. D[x] \in Nat
    BY <1>2, <1>4, <2>1
  <2> QED
    BY <2>1, <2>2
<1>9. C = [x \in DOMAIN C |-> C[x]]
  BY <1>3, <1>5
<1>10. IsABag(C)
  BY <1>8, <1>9 DEF IsABag
<1> QED
  BY <1>5, <1>6, <1>7, <1>10 DEF C

-----------------------------------------------------------------------------
(* Folds over finite sets.                                                 *)

\* A set of naturals has a least one: induction over sets, as the provers
\* can use it.
LEMMA LeastNat ==
  ASSUME NEW T, T \subseteq Nat, T # {}
  PROVE  \E n \in T : \A m \in T : n <= m
<1> DEFINE R == OpToRel(<, Nat)
<1>1. R = { ss \in Nat \X Nat : ss[1] < ss[2] }
  BY DEF OpToRel
<1>2. IsWellFoundedOn(R, Nat)
  BY NatLessThanWellFounded
<1> HIDE DEF R
<1>3. PICK x \in T : \A y \in T : ~(<< y, x >> \in R)
  BY <1>2, WFMin
<1>4. \A y \in T : ~(y < x)
  BY <1>1, <1>3
<1> QED
  BY <1>3, <1>4

\* A fold, as the library defines it, takes the element that `pick` chooses
\* and goes on with the others.
Picks(pick, S) == \A s \in SUBSET S : s # {} => pick[s] \in s
FoldBy(F, base, pick, S, h) ==
  h = [s \in SUBSET S |->
         IF s = {} THEN base ELSE F[<< pick[s], h[s \ {pick[s]}] >>]]

LEMMA PickLeavesLess ==
  ASSUME NEW S, IsFiniteSet(S), NEW pick, Picks(pick, S), NEW s \in SUBSET S, s # {}
  PROVE  /\ pick[s] \in S /\ s \ {pick[s]} \in SUBSET S
         /\ Cardinality(s \ {pick[s]}) = Cardinality(s) - 1
         /\ Cardinality(s) \in Nat
<1>1. pick[s] \in s /\ IsFiniteSet(s)
  BY FS_Subset DEF Picks
<1> QED
  BY <1>1, FS_RemoveElement, FS_CardinalityType

\* What a fold computes stays in a set that its step does not leave.
LEMMA FoldByStays ==
  ASSUME NEW S, IsFiniteSet(S), NEW pick, Picks(pick, S),
         NEW V, NEW h, h[{}] \in V,
         \A s \in SUBSET S : s # {} /\ h[s \ {pick[s]}] \in V => h[s] \in V
  PROVE  \A s \in SUBSET S : h[s] \in V
<1> SUFFICES ASSUME NEW s0 \in SUBSET S, h[s0] \notin V PROVE FALSE
  OBVIOUS
<1> DEFINE Out == { s \in SUBSET S : h[s] \notin V }
           T   == { n \in Nat : \E s \in Out : Cardinality(s) = n }
<1>1. \A s \in Out : IsFiniteSet(s) /\ Cardinality(s) \in Nat
  BY FS_Subset, FS_CardinalityType
<1>2. T # {}
  <2>1. s0 \in Out
    OBVIOUS
  <2> QED
    BY <1>1, <2>1
<1>3. PICK n \in T : \A m \in T : n <= m
  <2> HIDE DEF T
  <2>1. T \subseteq Nat
    BY DEF T
  <2> QED
    BY <1>2, <2>1, LeastNat
<1>4. PICK s \in Out : Cardinality(s) = n
  BY <1>3
<1>5. s # {} /\ s \in SUBSET S
  BY <1>4
<1>6. /\ s \ {pick[s]} \in SUBSET S
      /\ Cardinality(s \ {pick[s]}) = n - 1 /\ Cardinality(s) \in Nat
  BY <1>4, <1>5, PickLeavesLess
<1>7. s \ {pick[s]} \in Out
  BY <1>5, <1>6
<1>8. n - 1 \in T
  BY <1>1, <1>6, <1>7
<1> QED
  BY <1>3, <1>8

\* A fold over a finite set is defined.
LEMMA FoldByExists ==
  ASSUME NEW S, IsFiniteSet(S), NEW pick, Picks(pick, S),
         NEW V, NEW base \in V, NEW F \in [S \X V -> V]
  PROVE  \E h \in [SUBSET S -> V] : FoldBy(F, base, pick, S, h)
<1> DEFINE Small(n) == { s \in SUBSET S : Cardinality(s) <= n }
           Good(n)  == \E h \in [SUBSET S -> V] :
                         \A s \in Small(n) :
                           h[s] = IF s = {} THEN base
                                  ELSE F[<< pick[s], h[s \ {pick[s]}] >>]
           T == { n \in Nat : ~Good(n) }
<1>1. \A s \in SUBSET S : IsFiniteSet(s) /\ Cardinality(s) \in Nat
  BY FS_Subset, FS_CardinalityType
<1>2. Good(0)
  <2>1. \A s \in Small(0) : s = {}
    BY <1>1, FS_EmptySet
  <2>2. [s \in SUBSET S |-> base] \in [SUBSET S -> V]
    OBVIOUS
  <2> QED
    BY <2>1, <2>2
<1>3. ASSUME NEW n \in Nat, Good(n)
      PROVE  Good(n + 1)
  <2>1. PICK h \in [SUBSET S -> V] :
          \A s \in Small(n) :
            h[s] = IF s = {} THEN base ELSE F[<< pick[s], h[s \ {pick[s]}] >>]
    BY <1>3
  <2> DEFINE Next1(s) == IF s = {} THEN base ELSE F[<< pick[s], h[s \ {pick[s]}] >>]
             g == [s \in SUBSET S |-> IF Cardinality(s) <= n THEN h[s] ELSE Next1(s)]
  <2>2. ASSUME NEW s \in SUBSET S, s # {}
        PROVE  /\ pick[s] \in S /\ s \ {pick[s]} \in SUBSET S
               /\ Cardinality(s \ {pick[s]}) = Cardinality(s) - 1
    BY <2>2, PickLeavesLess
  <2>3. \A s \in SUBSET S : Next1(s) \in V
    BY <2>2
  <2>4. g \in [SUBSET S -> V]
    BY <2>3
  <2>5. ASSUME NEW s \in Small(n + 1)
        PROVE  g[s] = IF s = {} THEN base ELSE F[<< pick[s], g[s \ {pick[s]}] >>]
    <3>1. CASE s = {}
      <4>1. Cardinality({}) = 0
        BY FS_EmptySet
      <4> QED
        BY <2>1, <3>1, <4>1
    <3>2. CASE s # {}
      <4>1. g[s \ {pick[s]}] = h[s \ {pick[s]}]
        BY <1>1, <2>2, <3>2
      <4>2. g[s] = F[<< pick[s], h[s \ {pick[s]}] >>]
        BY <2>1, <3>2
      <4> QED
        BY <3>2, <4>1, <4>2
    <3> QED
      BY <3>1, <3>2
  <2> QED
    BY <2>4, <2>5
<1>4. Good(Cardinality(S))
  <2> SUFFICES ASSUME ~Good(Cardinality(S)) PROVE FALSE
    OBVIOUS
  <2> HIDE DEF Good
  <2>1. Cardinality(S) \in T /\ T \subseteq Nat
    BY FS_CardinalityType
  <2>2. PICK n \in T : \A m \in T : n <= m
    <3> HIDE DEF T
    <3> QED
      BY <2>1, LeastNat
  <2>3. n # 0
    BY <1>2
  <2>4. n - 1 \in Nat /\ n - 1 \notin T
    BY <2>2, <2>3
  <2>5. Good(n - 1)
    BY <2>4
  <2>6. Good(n - 1 + 1)
    BY <1>3, <2>4, <2>5
  <2> QED
    BY <2>2, <2>6
<1>5. PICK h \in [SUBSET S -> V] :
        \A s \in Small(Cardinality(S)) :
          h[s] = IF s = {} THEN base ELSE F[<< pick[s], h[s \ {pick[s]}] >>]
  BY <1>4
<1>6. \A s \in SUBSET S : s \in Small(Cardinality(S))
  BY FS_Subset
<1>7. FoldBy(F, base, pick, S, h)
  <2> HIDE DEF Small
  <2> QED
    BY <1>5, <1>6 DEF FoldBy
<1> QED
  BY <1>7

\* A set of integers with an upper bound has a greatest one.
LEMMA GreatestInt ==
  ASSUME NEW n \in Int, NEW s, s \subseteq Int, s # {}, \A i \in s : i <= n
  PROVE  Max(s) \in s /\ \A i \in s : i <= Max(s)
<1> DEFINE T == { k \in Nat : n - k \in s }
<1>1. PICK x \in s : TRUE
  OBVIOUS
<1>2. n - x \in T
  <2>1. x \in Int /\ x <= n
    BY <1>1
  <2>2. n - x \in Nat /\ n - (n - x) = x
    BY <2>1
  <2> QED
    BY <1>1, <2>2
<1>3. PICK k \in T : \A m \in T : k <= m
  <2>1. T \subseteq Nat /\ T # {}
    BY <1>2
  <2> HIDE DEF T
  <2> QED
    BY <2>1, LeastNat
<1>4. n - k \in s /\ k \in Nat
  BY <1>3
<1>5. ASSUME NEW i \in s
      PROVE  n - k >= i
  <2>1. i \in Int /\ i <= n
    OBVIOUS
  <2>2. n - i \in Nat /\ n - (n - i) = i
    BY <2>1
  <2>3. n - i \in T
    BY <2>2
  <2>4. k <= n - i
    BY <1>3, <2>3
  <2> QED
    BY <1>4, <2>1, <2>4
<1>6. Max(s) \in s /\ \A i \in s : Max(s) >= i
  <2>1. \E m \in s : \A i \in s : m >= i
    BY <1>4, <1>5
  <2> HIDE DEF T
  <2> QED
    BY <2>1 DEF Max
<1> QED
  BY <1>6

LEMMA LeastInt ==
  ASSUME NEW n \in Int, NEW s, s \subseteq Int, s # {}, \A i \in s : n <= i
  PROVE  Min(s) \in s /\ \A i \in s : Min(s) <= i
<1> DEFINE T == { k \in Nat : n + k \in s }
<1>1. PICK x \in s : TRUE
  OBVIOUS
<1>2. x - n \in T
  <2>1. x \in Int /\ n <= x
    BY <1>1
  <2>2. x - n \in Nat /\ n + (x - n) = x
    BY <2>1
  <2> QED
    BY <1>1, <2>2
<1>3. PICK k \in T : \A m \in T : k <= m
  <2>1. T \subseteq Nat /\ T # {}
    BY <1>2
  <2> HIDE DEF T
  <2> QED
    BY <2>1, LeastNat
<1>4. n + k \in s /\ k \in Nat
  BY <1>3
<1>5. ASSUME NEW i \in s
      PROVE  n + k <= i
  <2>1. i \in Int /\ n <= i
    OBVIOUS
  <2>2. i - n \in Nat /\ n + (i - n) = i
    BY <2>1
  <2>3. i - n \in T
    BY <2>2
  <2>4. k <= i - n
    BY <1>3, <2>3
  <2> QED
    BY <1>4, <2>1, <2>4
<1>6. \E m \in s : \A i \in s : m <= i
  BY <1>4, <1>5
<1> HIDE DEF T
<1> QED
  BY <1>6 DEF Min

\* A fold over a list, as the library defines it, goes on from the last.
LEMMA MaxPicks ==
  ASSUME NEW n \in Nat
  PROVE  Picks([s \in SUBSET (1 .. n) |-> Max(s)], 1 .. n)
<1> SUFFICES ASSUME NEW s \in SUBSET (1 .. n), s # {}
             PROVE  Max(s) \in s
  BY DEF Picks
<1>1. n \in Int /\ s \subseteq Int /\ \A i \in s : i <= n
  OBVIOUS
<1> QED
  BY <1>1, GreatestInt

LEMMA MaxOfTwo ==
  ASSUME NEW a \in Int, NEW b \in Int
  PROVE  Max({a, b}) = IF a <= b THEN b ELSE a
<1>1. Max({a, b}) \in {a, b} /\ Max({a, b}) >= a /\ Max({a, b}) >= b
  <2>1. \E x \in {a, b} : \A y \in {a, b} : x >= y
    OBVIOUS
  <2> QED
    BY <2>1 DEF Max
<1> QED
  BY <1>1

\* Induction along an interval.
LEMMA UpTo ==
  ASSUME NEW n \in Nat, NEW T, 0 \in T,
         \A k \in 0 .. n - 1 : k \in T => k + 1 \in T
  PROVE  \A k \in 0 .. n : k \in T
<1> SUFFICES ASSUME NEW k0 \in 0 .. n, k0 \notin T PROVE FALSE
  OBVIOUS
<1> DEFINE Out == { k \in 0 .. n : k \notin T }
<1>1. Out \subseteq Nat /\ Out # {}
  OBVIOUS
<1>2. PICK k \in Out : \A m \in Out : k <= m
  <2> HIDE DEF Out
  <2> QED
    BY <1>1, LeastNat
<1>3. k \in 0 .. n /\ k \notin T /\ k # 0
  BY <1>2
<1>4. k - 1 \in 0 .. n - 1 /\ k - 1 + 1 = k /\ ~(k <= k - 1)
  BY <1>3
<1>5. k - 1 \notin T
  BY <1>3, <1>4
<1>6. k - 1 \in Out
  BY <1>4, <1>5
<1> QED
  BY <1>2, <1>4, <1>6

\* The last of an interval.
LEMMA MaxUpTo ==
  ASSUME NEW k \in Nat
  PROVE  Max(1 .. k + 1) = k + 1 /\ (1 .. k + 1) \ {Max(1 .. k + 1)} = 1 .. k
<1> DEFINE s == 1 .. k + 1
<1>1. /\ k + 1 \in Int /\ s \subseteq Int /\ s # {} /\ \A i \in s : i <= k + 1
      /\ k + 1 \in s
  OBVIOUS
<1> HIDE DEF s
<1>2. Max(s) \in s /\ \A i \in s : i <= Max(s)
  BY <1>1, GreatestInt
<1>3. Max(s) = k + 1
  <2> DEFINE m == Max(s)
  <2>1. m \in Int /\ m <= k + 1 /\ k + 1 <= m
    BY <1>1, <1>2
  <2> HIDE DEF m
  <2>2. m = k + 1
    BY <2>1
  <2> QED
    BY <2>2 DEF m
<1>4. s \ {k + 1} = 1 .. k
  BY DEF s
<1> QED
  BY <1>3, <1>4 DEF s

\* The element of a set that the library takes next.
AnyOf(s) == CHOOSE x \in s : TRUE

LEMMA AnyOfPicks ==
  ASSUME NEW S, IsFiniteSet(S)
  PROVE  /\ Picks([s \in SUBSET S |-> AnyOf(s)], S)
         /\ \A s \in SUBSET S : s # {} => /\ AnyOf(s) \in s /\ AnyOf(s) \in S
                                          /\ s \ {AnyOf(s)} \in SUBSET S
                                          /\ IsFiniteSet(s)
                                          /\ Cardinality(s \ {AnyOf(s)}) = Cardinality(s) - 1
                                          /\ Cardinality(s) \in Nat
<1>1. \A s \in SUBSET S : s # {} => AnyOf(s) \in s
  BY DEF AnyOf
<1>2. \A s \in SUBSET S : IsFiniteSet(s) /\ Cardinality(s) \in Nat
  BY FS_Subset, FS_CardinalityType
<1>3. \A s \in SUBSET S : s # {} =>
        Cardinality(s \ {AnyOf(s)}) = Cardinality(s) - 1
  BY <1>1, <1>2, FS_RemoveElement
<1> QED
  BY <1>1, <1>2, <1>3 DEF Picks

\* In a finite set that is ordered, ties allowed, some element is best.
LEMMA FiniteBest ==
  ASSUME NEW S, IsFiniteSet(S), S # {}, NEW R,
         \A x, y \in S : << x, y >> \in R \/ << y, x >> \in R,
         \A x, y, z \in S : << x, y >> \in R /\ << y, z >> \in R => << x, z >> \in R
  PROVE  \E m \in S : \A o \in S : << o, m >> \in R
<1> DEFINE Best(U) == \E m \in U : \A o \in U : << o, m >> \in R
           Bad == { U \in SUBSET S : U # {} /\ ~Best(U) }
           T   == { n \in Nat : \E U \in Bad : Cardinality(U) = n }
<1>1. \A U \in SUBSET S : IsFiniteSet(U) /\ Cardinality(U) \in Nat
  BY FS_Subset, FS_CardinalityType
<1> SUFFICES ASSUME ~Best(S) PROVE FALSE
  OBVIOUS
<1>2. T # {} /\ T \subseteq Nat
  BY <1>1
<1>3. PICK n \in T : \A m \in T : n <= m
  <2> HIDE DEF T
  <2> QED
    BY <1>2, LeastNat
<1>4. PICK U \in Bad : Cardinality(U) = n
  BY <1>3
<1> DEFINE x == AnyOf(U)
           W == U \ {x}
<1>5. /\ x \in U /\ W \in SUBSET S /\ Cardinality(W) = n - 1 /\ U \in SUBSET S
      /\ n - 1 \in Nat
  <2>1. U # {} /\ U \in SUBSET S
    OBVIOUS
  <2>2. x \in U /\ Cardinality(W) = n - 1
    BY <1>4, <2>1, AnyOfPicks
  <2>3. W \in SUBSET S
    BY <2>1
  <2> HIDE DEF x, W
  <2>4. Cardinality(W) \in Nat
    BY <1>1, <2>3
  <2> QED
    BY <2>1, <2>2, <2>3, <2>4
<1>6. W \subseteq U /\ \A o \in U : o \in W \/ o = x
  OBVIOUS
<1> HIDE DEF x, W
<1>7. CASE W = {}
  <2>1. \A o \in U : << o, x >> \in R
    BY <1>5, <1>6, <1>7
  <2> QED
    BY <1>5, <2>1
<1>8. CASE W # {}
  <2>1. W \notin Bad
    <3>1. n - 1 \notin T
      <4> HIDE DEF T
      <4> QED
        BY <1>2, <1>3, <1>5
    <3> QED
      BY <1>5, <3>1
  <2>2. PICK m \in W : \A o \in W : << o, m >> \in R
    BY <1>5, <1>8, <2>1
  <2>3. CASE << x, m >> \in R
    <3>1. \A o \in U : << o, m >> \in R
      BY <1>6, <2>2, <2>3
    <3> QED
      BY <1>6, <3>1
  <2>4. CASE << m, x >> \in R
    <3>1. \A o \in U : << o, x >> \in R
      BY <1>5, <1>6, <2>2, <2>4
    <3> QED
      BY <1>5, <3>1
  <2> QED
    BY <1>5, <1>6, <2>3, <2>4
<1> QED
  BY <1>7, <1>8

-----------------------------------------------------------------------------
(* Sums and products over finite sets.                                     *)

\* A sum over a set, term by term as the library takes them.
SumsTo(f, S, g) ==
  g = [s \in SUBSET S |-> IF s = {} THEN 0 ELSE f[AnyOf(s)] + g[s \ {AnyOf(s)}]]

\* Such sums exist, and are numbers.
Numbers(f, S) == IsFiniteSet(S) /\ \A x \in S : f[x] \in Int

LEMMA SumsExist ==
  ASSUME NEW S, NEW f, Numbers(f, S)
  PROVE  \E g \in [SUBSET S -> Int] : SumsTo(f, S, g)
<1> DEFINE F == [p \in S \X Int |-> f[p[1]] + p[2]]
           pick == [s \in SUBSET S |-> AnyOf(s)]
<1>0. IsFiniteSet(S) /\ \A x \in S : f[x] \in Int
  BY DEF Numbers
<1>1. F \in [S \X Int -> Int]
  BY <1>0
<1>2. Picks(pick, S)
  BY <1>0, AnyOfPicks
<1>3. PICK h \in [SUBSET S -> Int] : FoldBy(F, 0, pick, S, h)
  <2>1. 0 \in Int
    OBVIOUS
  <2> HIDE DEF F, pick
  <2> QED
    BY <1>0, <1>1, <1>2, <2>1, FoldByExists, Zenon
<1>4. ASSUME NEW s \in SUBSET S, s # {}
      PROVE  /\ pick[s] = AnyOf(s)
             /\ F[<< AnyOf(s), h[s \ {AnyOf(s)}] >>] = f[AnyOf(s)] + h[s \ {AnyOf(s)}]
  BY <1>0, <1>4, AnyOfPicks
<1> HIDE DEF F, pick
<1>5. SumsTo(f, S, h)
  BY <1>3, <1>4 DEF SumsTo, FoldBy
<1> QED
  BY <1>5

\* What holds of no element of a finite set's subsets without holding of a
\* smaller one holds of none: induction over the subsets.
LEMMA OverSubsets ==
  ASSUME NEW S, IsFiniteSet(S), NEW T,
         \A s \in SUBSET S :
           (\A u \in SUBSET S : Cardinality(u) < Cardinality(s) => u \in T) => s \in T
  PROVE  \A s \in SUBSET S : s \in T
<1> SUFFICES ASSUME NEW s0 \in SUBSET S, s0 \notin T PROVE FALSE
  OBVIOUS
<1> DEFINE Out == { s \in SUBSET S : s \notin T }
           N   == { n \in Nat : \E s \in Out : Cardinality(s) = n }
<1>1. \A s \in SUBSET S : Cardinality(s) \in Nat
  BY FS_Subset, FS_CardinalityType
<1>2. N \subseteq Nat /\ N # {}
  <2>1. s0 \in Out /\ Cardinality(s0) \in Nat
    BY <1>1
  <2> QED
    BY <2>1
<1>3. PICK n \in N : \A m \in N : n <= m
  <2> HIDE DEF N
  <2> QED
    BY <1>2, LeastNat
<1>4. PICK s \in Out : Cardinality(s) = n
  BY <1>3
<1>5. PICK u \in SUBSET S : Cardinality(u) < Cardinality(s) /\ u \notin T
  BY <1>4
<1>6. Cardinality(u) \in N
  BY <1>1, <1>5
<1> QED
  BY <1>1, <1>3, <1>4, <1>5, <1>6

\* What is summed over a set is all that counts.
LEMMA SumsUnique ==
  ASSUME NEW S, IsFiniteSet(S), NEW T, NEW f, NEW h, NEW p, NEW q,
         SumsTo(f, S, p), SumsTo(h, T, q), NEW U, U \subseteq S, U \subseteq T,
         \A x \in U : f[x] = h[x]
  PROVE  p[U] = q[U]
<1> DEFINE Same == { s \in SUBSET U : p[s] = q[s] }
<1>1. IsFiniteSet(U)
  BY FS_Subset
<1>2. ASSUME NEW s \in SUBSET U,
             \A u \in SUBSET U : Cardinality(u) < Cardinality(s) => u \in Same
      PROVE  s \in Same
  <2>1. s \in SUBSET S /\ s \in SUBSET T
    OBVIOUS
  <2>2. CASE s = {}
    BY <2>1, <2>2 DEF SumsTo
  <2>3. CASE s # {}
    <3>1. /\ AnyOf(s) \in U /\ s \ {AnyOf(s)} \in SUBSET U
          /\ Cardinality(s \ {AnyOf(s)}) < Cardinality(s)
      <4>1. /\ AnyOf(s) \in U /\ s \ {AnyOf(s)} \in SUBSET U
            /\ Cardinality(s \ {AnyOf(s)}) = Cardinality(s) - 1
            /\ Cardinality(s) \in Nat
        BY <1>1, <2>3, AnyOfPicks, Zenon
      <4> QED
        BY <4>1
    <3>2. p[s \ {AnyOf(s)}] = q[s \ {AnyOf(s)}]
      BY <1>2, <3>1
    <3>3. p[s] = f[AnyOf(s)] + p[s \ {AnyOf(s)}]
      BY <2>1, <2>3 DEF SumsTo
    <3>4. q[s] = h[AnyOf(s)] + q[s \ {AnyOf(s)}]
      BY <2>1, <2>3 DEF SumsTo
    <3> QED
      BY <3>1, <3>2, <3>3, <3>4
  <2> QED
    BY <2>2, <2>3
<1>3. \A s \in SUBSET U : s \in Same
  <2> HIDE DEF Same
  <2> QED
    BY <1>1, <1>2, OverSubsets
<1> QED
  BY <1>3

\* The order in which elements are taken does not count.
Adds(f, S, g) ==
  \A U, y : U \in SUBSET S /\ y \in S /\ y \notin U => g[U \cup {y}] = g[U] + f[y]

LEMMA SumsAdd ==
  ASSUME NEW S, NEW f, Numbers(f, S),
         NEW g \in [SUBSET S -> Int], SumsTo(f, S, g)
  PROVE  Adds(f, S, g)
<1> DEFINE Good == { s \in SUBSET S : \A x \in S \ s : g[s \cup {x}] = g[s] + f[x] }
<1>0. /\ \A s \in SUBSET S : s # {} => g[s] = f[AnyOf(s)] + g[s \ {AnyOf(s)}]
      /\ IsFiniteSet(S) /\ \A x \in S : f[x] \in Int
  BY DEF SumsTo, Numbers
<1>1. ASSUME NEW s \in SUBSET S,
             \A u \in SUBSET S : Cardinality(u) < Cardinality(s) => u \in Good
      PROVE  s \in Good
  <2> SUFFICES ASSUME NEW x \in S \ s
               PROVE  g[s \cup {x}] = g[s] + f[x]
    OBVIOUS
  <2> DEFINE n == s \cup {x}
             t == AnyOf(n)
  <2>1. n \in SUBSET S /\ n # {} /\ n \ {x} = s
    OBVIOUS
  <2>2. t \in n /\ t \in S /\ g[n] = f[t] + g[n \ {t}]
    <3> HIDE DEF n
    <3>1. AnyOf(n) \in n /\ AnyOf(n) \in S
      BY <1>0, <2>1, AnyOfPicks, Zenon
    <3> QED
      BY <1>0, <2>1, <3>1
  <2>3. CASE t = x
    <3>1. g[n] = f[x] + g[s]
      BY <2>1, <2>2, <2>3
    <3>2. g[s] \in Int /\ f[x] \in Int
      BY <1>0
    <3> HIDE DEF n, t
    <3> QED
      BY <3>1, <3>2 DEF n
  <2>4. CASE t # x
    <3> HIDE DEF t
    <3> DEFINE u == s \ {t}
    <3>1. /\ u \in SUBSET S /\ t \in s /\ t \in S \ u /\ x \in S \ u
          /\ n \ {t} = u \cup {x} /\ u \cup {t} = s
      BY <2>2, <2>4
    <3>2. Cardinality(u) < Cardinality(s)
      <4>1. IsFiniteSet(s) /\ Cardinality(s) \in Nat
        BY <1>0, FS_Subset, FS_CardinalityType
      <4>2. Cardinality(u) = Cardinality(s) - 1
        BY <3>1, <4>1, FS_RemoveElement
      <4> QED
        BY <4>1, <4>2
    <3>3. u \in Good
      BY <1>1, <3>1, <3>2
    <3>4. g[u \cup {x}] = g[u] + f[x] /\ g[u \cup {t}] = g[u] + f[t]
      BY <3>1, <3>3
    <3>5. g[u] \in Int /\ f[x] \in Int /\ f[t] \in Int
      BY <1>0, <3>1
    <3>6. g[n] = f[t] + g[u \cup {x}] /\ g[s] = g[u \cup {t}]
      BY <2>2, <3>1
    <3> HIDE DEF u, n
    <3>7. g[n] = g[s] + f[x]
      BY <3>4, <3>5, <3>6
    <3> QED
      BY <3>7 DEF n
  <2> QED
    BY <2>3, <2>4
<1>2. \A s \in SUBSET S : s \in Good
  <2> HIDE DEF Good
  <2> QED
    BY <1>0, <1>1, OverSubsets
<1>3. ASSUME NEW U, NEW y, U \in SUBSET S /\ y \in S /\ y \notin U
      PROVE  g[U \cup {y}] = g[U] + f[y]
  <2>1. U \in Good
    BY <1>2, <1>3
  <2>2. y \in S \ U
    BY <1>3
  <2> QED
    BY <2>1, <2>2, Zenon
<1> QED
  BY <1>3 DEF Adds

\* The library's sum is one of these.
Sums(f, S, g) ==
  /\ g \in [SUBSET S -> Int]
  /\ SumsTo(f, S, g)
  /\ \A U \in SUBSET S : SumFunctionOnSet(f, U) = g[U]

LEMMA SumIs ==
  ASSUME NEW S, NEW f, Numbers(f, S)
  PROVE  \E g : Sums(f, S, g)
<1>1. PICK g \in [SUBSET S -> Int] : SumsTo(f, S, g)
  BY SumsExist
<1>2. ASSUME NEW U \in SUBSET S
      PROVE  SumFunctionOnSet(f, U) = g[U]
  <2>1. Numbers(f, U) /\ IsFiniteSet(S)
    BY FS_Subset DEF Numbers
  <2> DEFINE Eqn(q) == q = [s \in SUBSET U |->
                              IF s = {} THEN 0 ELSE f[AnyOf(s)] + q[s \ {AnyOf(s)}]]
  <2>2. \E q : Eqn(q)
    <3>1. PICK q \in [SUBSET U -> Int] : SumsTo(f, U, q)
      BY <2>1, SumsExist, Zenon
    <3> QED
      BY <3>1 DEF SumsTo
  <2>3. PICK q : Eqn(q) /\ SumFunctionOnSet(f, U) = q[U]
    BY <2>2, Zenon DEF SumFunctionOnSet, FoldFunctionOnSet, MapThenFoldSet, AnyOf
  <2>4. SumsTo(f, U, q)
    BY <2>3 DEF SumsTo
  <2>5. q[U] = g[U]
    <3>1. U \subseteq U /\ U \subseteq S /\ IsFiniteSet(U) /\ \A x \in U : f[x] = f[x]
      BY <2>1 DEF Numbers
    <3> QED
      BY <1>1, <2>4, <3>1, SumsUnique
  <2> QED
    BY <2>3, <2>5
<1> QED
  BY <1>1, <1>2 DEF Sums

\* Its laws: nothing, one element more, the same elements, two sets.
LEMMA SumEmpty ==
  ASSUME NEW f
  PROVE  SumFunctionOnSet(f, {}) = 0
<1>1. Numbers(f, {})
  BY FS_EmptySet DEF Numbers
<1>2. PICK g : Sums(f, {}, g)
  BY <1>1, SumIs, Zenon
<1> QED
  BY <1>2 DEF SumsTo, Sums

LEMMA SumInt ==
  ASSUME NEW S, NEW f, Numbers(f, S)
  PROVE  SumFunctionOnSet(f, S) \in Int
<1>1. PICK g : Sums(f, S, g)
  BY SumIs, Zenon
<1> QED
  BY <1>1 DEF Sums

LEMMA SumAdd ==
  ASSUME NEW S, NEW f, Numbers(f, S), NEW y, y \notin S, f[y] \in Int
  PROVE  SumFunctionOnSet(f, S \cup {y}) = SumFunctionOnSet(f, S) + f[y]
<1> DEFINE T == S \cup {y}
<1>1. Numbers(f, T)
  BY FS_AddElement DEF Numbers
<1>2. T \in SUBSET T /\ S \in SUBSET T /\ y \in T
  OBVIOUS
<1> HIDE DEF T
<1>3. PICK g : Sums(f, T, g)
  BY <1>1, SumIs, Zenon
<1>4. g \in [SUBSET T -> Int] /\ SumsTo(f, T, g)
  BY <1>3 DEF Sums
<1>5. Adds(f, T, g)
  BY <1>1, <1>4, SumsAdd
<1>6. g[S \cup {y}] = g[S] + f[y]
  BY <1>2, <1>5 DEF Adds
<1> QED
  BY <1>2, <1>3, <1>6 DEF T, Sums

LEMMA SumSame ==
  ASSUME NEW S, NEW f, NEW h, Numbers(f, S), \A x \in S : h[x] = f[x]
  PROVE  SumFunctionOnSet(f, S) = SumFunctionOnSet(h, S)
<1>1. Numbers(h, S) /\ IsFiniteSet(S) /\ S \in SUBSET S
  BY DEF Numbers
<1>2. PICK p : Sums(f, S, p)
  BY <1>1, SumIs, Zenon
<1>3. PICK q : Sums(h, S, q)
  BY <1>1, SumIs, Zenon
<1>4. SumsTo(f, S, p) /\ SumsTo(h, S, q) /\ S \subseteq S /\ \A x \in S : f[x] = h[x]
  BY <1>2, <1>3 DEF Sums
<1>5. p[S] = q[S]
  BY <1>1, <1>4, SumsUnique
<1> QED
  BY <1>1, <1>2, <1>3, <1>5 DEF Sums

LEMMA SumUnion ==
  ASSUME NEW S, NEW T, S \cap T = {}, NEW f, Numbers(f, S), Numbers(f, T)
  PROVE  SumFunctionOnSet(f, S \cup T) = SumFunctionOnSet(f, S) + SumFunctionOnSet(f, T)
<1> DEFINE Good == { U \in SUBSET T :
                       SumFunctionOnSet(f, S \cup U)
                         = SumFunctionOnSet(f, S) + SumFunctionOnSet(f, U) }
<1>0. /\ IsFiniteSet(S) /\ IsFiniteSet(T) /\ SumFunctionOnSet(f, S) \in Int
      /\ \A x \in S : f[x] \in Int
      /\ \A x \in T : f[x] \in Int
  BY SumInt DEF Numbers
<1>1. ASSUME NEW U \in SUBSET T,
             \A W \in SUBSET T : Cardinality(W) < Cardinality(U) => W \in Good
      PROVE  U \in Good
  <2>1. CASE U = {}
    <3>1. SumFunctionOnSet(f, U) = 0 /\ S \cup U = S
      BY <2>1, SumEmpty
    <3>2. SumFunctionOnSet(f, S \cup U) = SumFunctionOnSet(f, S)
      BY <3>1, Zenon
    <3> QED
      BY <1>0, <3>1, <3>2
  <2>2. CASE U # {}
    <3>1. PICK y \in U : TRUE
      BY <2>2
    <3> DEFINE W == U \ {y}
    <3>2. /\ W \in SUBSET T /\ y \notin W /\ y \notin S \cup W
          /\ U = W \cup {y} /\ S \cup U = (S \cup W) \cup {y}
      OBVIOUS
    <3>3. Cardinality(W) < Cardinality(U)
      <4>1. IsFiniteSet(U) /\ Cardinality(U) \in Nat
        BY <1>0, FS_Subset, FS_CardinalityType
      <4>2. Cardinality(W) = Cardinality(U) - 1
        BY <4>1, FS_RemoveElement
      <4> QED
        BY <4>1, <4>2
    <3>4. f[y] \in Int /\ Numbers(f, W) /\ Numbers(f, S \cup W)
      BY <1>0, <3>2, FS_Subset, FS_Union DEF Numbers
    <3>5. SumFunctionOnSet(f, S \cup W) = SumFunctionOnSet(f, S) + SumFunctionOnSet(f, W)
      BY <1>1, <3>2, <3>3
    <3> HIDE DEF W
    <3>6. SumFunctionOnSet(f, U) = SumFunctionOnSet(f, W) + f[y]
      BY <3>2, <3>4, SumAdd
    <3>7. SumFunctionOnSet(f, S \cup U) = SumFunctionOnSet(f, S \cup W) + f[y]
      BY <3>2, <3>4, SumAdd
    <3>8. SumFunctionOnSet(f, W) \in Int
      BY <3>4, SumInt
    <3> QED
      BY <1>0, <3>4, <3>5, <3>6, <3>7, <3>8
  <2> QED
    BY <2>1, <2>2
<1>2. \A U \in SUBSET T : U \in Good
  <2> HIDE DEF Good
  <2> QED
    BY <1>0, <1>1, OverSubsets
<1> QED
  BY <1>2

\* Along an interval.
LEMMA SumNext ==
  ASSUME NEW b \in Int, NEW e \in Int, b <= e + 1, NEW f, Numbers(f, b .. e + 1)
  PROVE  /\ Numbers(f, b .. e) /\ f[e + 1] \in Int
         /\ SumFunctionOnSet(f, b .. e) \in Int
         /\ SumFunctionOnSet(f, b .. e + 1) = SumFunctionOnSet(f, b .. e) + f[e + 1]
<1> DEFINE S == b .. e
           y == e + 1
<1>1. S \cup {y} = b .. e + 1 /\ y \notin S /\ y \in b .. e + 1
  OBVIOUS
<1>2. Numbers(f, S) /\ f[y] \in Int
  BY <1>1, FS_Interval DEF Numbers
<1> HIDE DEF S, y
<1>3. SumFunctionOnSet(f, S \cup {y}) = SumFunctionOnSet(f, S) + f[y]
  BY <1>1, <1>2, SumAdd
<1>4. SumFunctionOnSet(f, S) \in Int
  BY <1>2, SumInt
<1> QED
  BY <1>1, <1>2, <1>3, <1>4 DEF S, y

\* A list's sum, with one of its terms replaced by two.
OneReplaced(f, n, s, h) ==
  /\ n \in Nat /\ s \in 1 .. n
  /\ \A k \in 1 .. n : f[k] \in Int
  /\ \A k \in 1 .. n + 1 : h[k] \in Int
  /\ \A k \in 1 .. s - 1 : h[k] = f[k]
  /\ \A k \in s + 1 .. n : h[k + 1] = f[k]

LEMMA SumReplaced ==
  ASSUME NEW n, NEW s, NEW f, NEW h, OneReplaced(f, n, s, h)
  PROVE  SumFunctionOnSet(h, 1 .. n + 1)
           = SumFunctionOnSet(f, 1 .. n) - f[s] + h[s] + h[s + 1]
<1>0. /\ n \in Nat /\ s \in 1 .. n
      /\ \A k \in 1 .. n : f[k] \in Int
      /\ \A k \in 1 .. n + 1 : h[k] \in Int
      /\ \A k \in 1 .. s - 1 : h[k] = f[k]
      /\ \A k \in s + 1 .. n : h[k + 1] = f[k]
  BY DEF OneReplaced
<1> DEFINE F(k) == SumFunctionOnSet(f, 1 .. k)
           H(k) == SumFunctionOnSet(h, 1 .. k)
<1>1. ASSUME NEW k \in 0 .. n - 1
      PROVE  F(k) \in Int /\ F(k + 1) \in Int /\ F(k + 1) = F(k) + f[k + 1]
  <2>1. Numbers(f, 1 .. k + 1) /\ k \in Int /\ 1 \in Int /\ 1 <= k + 1
    BY <1>0, FS_Interval DEF Numbers
  <2>2. SumFunctionOnSet(f, 1 .. k + 1) \in Int
    BY <2>1, SumInt
  <2> QED
    BY <2>1, <2>2, SumNext
<1>2. ASSUME NEW k \in 0 .. n
      PROVE  H(k) \in Int /\ H(k + 1) \in Int /\ H(k + 1) = H(k) + h[k + 1]
  <2>1. Numbers(h, 1 .. k + 1) /\ k \in Int /\ 1 \in Int /\ 1 <= k + 1
    BY <1>0, FS_Interval DEF Numbers
  <2>2. SumFunctionOnSet(h, 1 .. k + 1) \in Int
    BY <2>1, SumInt
  <2> QED
    BY <2>1, <2>2, SumNext
<1>3. F(0) = 0 /\ H(0) = 0
  <2>1. 1 .. 0 = {}
    OBVIOUS
  <2> QED
    BY <2>1, SumEmpty
<1> HIDE DEF F, H
<1> DEFINE T == { k \in 0 .. n : IF k < s THEN H(k) = F(k)
                                 ELSE H(k + 1) = F(k) - f[s] + h[s] + h[s + 1] }
<1>4. 0 \in T
  BY <1>0, <1>3
<1>5. ASSUME NEW k \in 0 .. n - 1, k \in T
      PROVE  k + 1 \in T
  <2>0. k + 1 \in 0 .. n /\ k \in Int /\ s \in Int /\ k + 1 \in 1 .. n /\ k \in 0 .. n
    BY <1>0
  <2>1. CASE k + 1 < s
    <3>1. k + 1 \in 1 .. s - 1 /\ k < s
      BY <1>0, <2>0, <2>1
    <3>2. H(k + 1) = F(k + 1)
      BY <1>0, <1>1, <1>2, <1>5, <2>0, <3>1
    <3> QED
      BY <1>0, <2>0, <2>1, <3>2
  <2>2. CASE k + 1 = s
    <3>1. H(k) = F(k)
      BY <1>0, <1>5, <2>2
    <3>2. H(k + 1) = H(k) + h[s] /\ H(k + 2) = H(k + 1) + h[s + 1] /\ F(k + 1) = F(k) + f[s]
      <4>1. H(k + 1) = H(k) + h[s] /\ F(k + 1) = F(k) + f[s]
        BY <1>0, <1>1, <1>2, <2>0, <2>2
      <4>2. H(k + 1 + 1) = H(k + 1) + h[k + 1 + 1]
        BY <1>0, <1>2, <2>0
      <4> QED
        BY <1>0, <2>0, <2>2, <4>1, <4>2
    <3>3. h[s] \in Int /\ h[s + 1] \in Int /\ f[s] \in Int /\ F(k) \in Int
      BY <1>0, <1>1
    <3>4. H(k + 1 + 1) = F(k + 1) - f[s] + h[s] + h[s + 1]
      BY <1>0, <2>0, <3>1, <3>2, <3>3
    <3> QED
      BY <1>0, <2>0, <2>2, <3>4
  <2>3. CASE s <= k
    <3>1. H(k + 1) = F(k) - f[s] + h[s] + h[s + 1]
      BY <1>0, <1>5, <2>0, <2>3
    <3>2. h[k + 1 + 1] = f[k + 1]
      BY <1>0, <2>0, <2>3
    <3>3. H(k + 1 + 1) = H(k + 1) + h[k + 1 + 1] /\ F(k + 1) = F(k) + f[k + 1] /\ F(k) \in Int
      BY <1>0, <1>1, <1>2, <2>0
    <3>4. h[s] \in Int /\ h[s + 1] \in Int /\ f[s] \in Int /\ f[k + 1] \in Int
      BY <1>0, <2>0
    <3>5. H(k + 1 + 1) = F(k + 1) - f[s] + h[s] + h[s + 1]
      BY <3>1, <3>2, <3>3, <3>4
    <3> QED
      BY <1>0, <2>0, <2>3, <3>5
  <2> QED
    BY <1>0, <2>0, <2>1, <2>2, <2>3
<1>6. n \in T
  <2> HIDE DEF T
  <2>1. \A k \in 0 .. n : k \in T
    BY <1>0, <1>4, <1>5, UpTo
  <2> QED
    BY <1>0, <2>1
<1> QED
  BY <1>0, <1>6 DEF F, H

\* The sum of squares, as a sum of a function.
Squares(a) == [x \in DOMAIN a |-> a[x] * a[x]]
SquareSum(a, S) == MapThenSumSet(LAMBDA x : a[x] * a[x], S)
SquaresEqn(a, S, h) ==
  h = [s \in SUBSET S |->
         IF s = {} THEN 0
         ELSE a[AnyOf(s)] * a[AnyOf(s)] + h[s \ {AnyOf(s)}]]

LEMMA SquaresFold ==
  ASSUME NEW a, NEW S, NEW h, SquaresEqn(a, S, h)
  PROVE  \E g : SquaresEqn(a, S, g) /\ SquareSum(a, S) = g[S]
BY Zenon DEF SquareSum, MapThenSumSet, MapThenFoldSet, AnyOf, SquaresEqn

LEMMA SquaresAre ==
  ASSUME NEW a, NEW S, S \subseteq DOMAIN a, Numbers(a, S)
  PROVE  /\ Numbers(Squares(a), S)
         /\ SquareSum(a, S) = SumFunctionOnSet(Squares(a), S)
<1> DEFINE f == Squares(a)
<1>0. IsFiniteSet(S)
  BY DEF Numbers
<1>1. \A x \in S : f[x] = a[x] * a[x] /\ f[x] \in Int
  BY DEF Squares, Numbers
<1> HIDE DEF f
<1>2. Numbers(f, S)
  BY <1>0, <1>1 DEF Numbers
<1>3. ASSUME NEW h
      PROVE  SquaresEqn(a, S, h) <=> SumsTo(f, S, h)
  <2>1. \A s \in SUBSET S : s # {} => AnyOf(s) \in S
    BY <1>0, AnyOfPicks
  <2>2. \A s \in SUBSET S :
          (IF s = {} THEN 0 ELSE a[AnyOf(s)] * a[AnyOf(s)] + h[s \ {AnyOf(s)}])
            = (IF s = {} THEN 0 ELSE f[AnyOf(s)] + h[s \ {AnyOf(s)}])
    BY <1>1, <2>1
  <2>3. [s \in SUBSET S |->
           IF s = {} THEN 0 ELSE a[AnyOf(s)] * a[AnyOf(s)] + h[s \ {AnyOf(s)}]]
          = [s \in SUBSET S |-> IF s = {} THEN 0 ELSE f[AnyOf(s)] + h[s \ {AnyOf(s)}]]
    BY <2>2, Zenon
  <2> QED
    BY <2>3, Zenon DEF SquaresEqn, SumsTo
<1>4. PICK p : Sums(f, S, p)
  BY <1>2, SumIs, Zenon
<1>5. SumsTo(f, S, p) /\ SumFunctionOnSet(f, S) = p[S]
  <2>1. S \in SUBSET S
    OBVIOUS
  <2> QED
    BY <1>4, <2>1, Zenon DEF Sums
<1>6. PICK q : SquaresEqn(a, S, q) /\ SquareSum(a, S) = q[S]
  BY <1>3, <1>5, SquaresFold, Zenon
<1>7. q[S] = p[S]
  <2>1. SumsTo(f, S, q) /\ S \subseteq S /\ \A x \in S : f[x] = f[x]
    BY <1>3, <1>6
  <2> QED
    BY <1>0, <1>5, <2>1, SumsUnique
<1> QED
  BY <1>2, <1>5, <1>6, <1>7 DEF f

\* A product over a set, factor by factor as the library takes them.
ProductsOf(S, g) ==
  g = [s \in SUBSET S |-> IF s = {} THEN 1 ELSE AnyOf(s) * g[s \ {AnyOf(s)}]]

LEMMA ProductFold ==
  ASSUME NEW S, NEW h, ProductsOf(S, h)
  PROVE  \E g : ProductsOf(S, g) /\ FoldSet(LAMBDA n, p : n * p, 1, S) = g[S]
BY Zenon DEF FoldSet, MapThenFoldSet, AnyOf, ProductsOf

\* A product of positive numbers is positive, and each of them divides it.
LEMMA ProductDivides ==
  ASSUME NEW S, IsFiniteSet(S), S \subseteq Nat \ {0}
  PROVE  LET P == FoldSet(LAMBDA n, p : n * p, 1, S)
         IN P \in Nat \ {0} /\ \A m \in S : \E u \in Nat : P = u * m
<1> DEFINE V == Nat \ {0}
           F == [p \in S \X V |-> p[1] * p[2]]
           pick == [s \in SUBSET S |-> AnyOf(s)]
<1>0. \A m, n \in V : m * n \in V
  OBVIOUS
<1>1. F \in [S \X V -> V] /\ 1 \in V
  <2>1. ASSUME NEW p \in S \X V
        PROVE  p[1] * p[2] \in V
    <3>1. p[1] \in V /\ p[2] \in V
      OBVIOUS
    <3> QED
      BY <1>0, <3>1
  <2> QED
    BY <2>1
<1>2. Picks(pick, S)
  BY AnyOfPicks
<1>3. PICK h \in [SUBSET S -> V] : FoldBy(F, 1, pick, S, h)
  <2> HIDE DEF F, V, pick
  <2> QED
    BY <1>1, <1>2, FoldByExists, Zenon
<1>4. ASSUME NEW s \in SUBSET S, s # {}
      PROVE  /\ pick[s] = AnyOf(s) /\ AnyOf(s) \in S /\ s \ {AnyOf(s)} \in SUBSET S
             /\ F[<< AnyOf(s), h[s \ {AnyOf(s)}] >>] = AnyOf(s) * h[s \ {AnyOf(s)}]
  <2>1. AnyOf(s) \in S /\ s \ {AnyOf(s)} \in SUBSET S
    BY <1>4, AnyOfPicks
  <2> QED
    BY <2>1
<1> HIDE DEF F, pick, V
<1>5. ProductsOf(S, h)
  <2>1. h = [s \in SUBSET S |->
               IF s = {} THEN 1 ELSE F[<< pick[s], h[s \ {pick[s]}] >>]]
    BY <1>3 DEF FoldBy
  <2>2. \A s \in SUBSET S :
          (IF s = {} THEN 1 ELSE F[<< pick[s], h[s \ {pick[s]}] >>])
            = (IF s = {} THEN 1 ELSE AnyOf(s) * h[s \ {AnyOf(s)}])
    BY <1>4
  <2> QED
    BY <2>1, <2>2, Zenon DEF ProductsOf
<1>6. PICK g : ProductsOf(S, g) /\ FoldSet(LAMBDA n, p : n * p, 1, S) = g[S]
  BY <1>5, ProductFold, Zenon
<1>7. /\ g[{}] = 1
      /\ \A s \in SUBSET S : s # {} => g[s] = AnyOf(s) * g[s \ {AnyOf(s)}]
  <2>1. g[{}] = 1
    <3>1. {} \in SUBSET S
      OBVIOUS
    <3> QED
      BY <1>6, <3>1, Zenon DEF ProductsOf
  <2>2. ASSUME NEW s \in SUBSET S, s # {}
        PROVE  g[s] = AnyOf(s) * g[s \ {AnyOf(s)}]
    BY <1>6, <2>2, Zenon DEF ProductsOf
  <2> QED
    BY <2>1, <2>2, Zenon
<1> USE DEF V
<1> DEFINE T == { s \in SUBSET S : g[s] \in V /\ \A m \in s : \E u \in Nat : g[s] = u * m }
<1>8. ASSUME NEW s \in SUBSET S,
             \A u \in SUBSET S : Cardinality(u) < Cardinality(s) => u \in T
      PROVE  s \in T
  <2>1. CASE s = {}
    BY <1>7, <2>1
  <2>2. CASE s # {}
    <3> DEFINE y == AnyOf(s)
               w == s \ {y}
    <3>1. y \in S /\ y \in s /\ w \in SUBSET S /\ Cardinality(w) < Cardinality(s)
      <4>1. /\ y \in S /\ y \in s /\ w \in SUBSET S
            /\ Cardinality(w) = Cardinality(s) - 1 /\ Cardinality(s) \in Nat
        BY <2>2, AnyOfPicks
      <4> QED
        BY <4>1
    <3>2. w \in T
      BY <1>8, <3>1
    <3>3. g[s] = y * g[w] /\ y \in V /\ g[w] \in V
      BY <1>7, <2>2, <3>1, <3>2
    <3>4. \A m \in s : m = y \/ m \in w
      OBVIOUS
    <3>5. \A m \in w : \E u \in Nat : g[w] = u * m
      BY <3>2
    <3> HIDE DEF y, w
    <3>6. ASSUME NEW m \in s
          PROVE  \E u \in Nat : g[s] = u * m
      <4>1. CASE m = y
        <5>1. g[s] = g[w] * m /\ g[w] \in Nat
          BY <3>3, <4>1
        <5> QED
          BY <5>1
      <4>2. CASE m \in w
        <5>1. PICK u \in Nat : g[w] = u * m
          BY <3>5, <4>2
        <5>2. m \in Nat
          OBVIOUS
        <5>3. g[s] = (y * u) * m /\ y * u \in Nat
          BY <3>3, <5>1, <5>2
        <5> QED
          BY <5>3
      <4> QED
        BY <3>4, <4>1, <4>2
    <3>7. g[s] \in V
      BY <1>0, <3>3
    <3> QED
      BY <3>6, <3>7
  <2> QED
    BY <2>1, <2>2
<1>9. \A s \in SUBSET S : s \in T
  <2> HIDE DEF T
  <2> QED
    BY <1>8, OverSubsets
<1>10. g[S] \in Nat \ {0} /\ \A m \in S : \E u \in Nat : g[S] = u * m
  BY <1>9
<1> QED
  BY <1>6, <1>10, Zenon

\* A multiple is divided without a rest.
LEMMA ExactDivision ==
  ASSUME NEW n \in Nat \ {0}, NEW k \in Int
  PROVE  (k * n) \div n = k
OBVIOUS

-----------------------------------------------------------------------------
(* Means, as the quotients that they are.                                  *)

\* One is at most another.
Quotient     == [sum : Int, n : Nat \ {0}]
AtMost(p, q) == p.sum * q.n <= q.sum * p.n

\* It is an order of all means.
LEMMA AtMostOrders ==
  /\ \A p, q \in Quotient : AtMost(p, q) \/ AtMost(q, p)
  /\ \A p, q, r \in Quotient : AtMost(p, q) /\ AtMost(q, r) => AtMost(p, r)
<1>1. ASSUME NEW p \in Quotient, NEW q \in Quotient
      PROVE  AtMost(p, q) \/ AtMost(q, p)
  <2>1. /\ p.sum \in Int /\ p.n \in Int /\ q.sum \in Int /\ q.n \in Int
    BY DEF Quotient
  <2>2. p.sum * q.n \in Int /\ q.sum * p.n \in Int
    BY <2>1
  <2> QED
    BY <2>2 DEF AtMost
<1>2. ASSUME NEW a \in Int, NEW b \in Int, NEW c \in Int,
             NEW k \in Nat \ {0}, NEW l \in Nat \ {0}, NEW m \in Nat \ {0},
             a * l <= b * k, b * m <= c * l
      PROVE  a * m <= c * k
  <2>1. (a * l) * m <= (b * k) * m
    BY <1>2
  <2>2. (b * m) * k <= (c * l) * k
    BY <1>2
  <2>3. (a * m) * l <= (c * k) * l
    <3>1. (a * l) * m = (a * m) * l /\ (b * k) * m = (b * m) * k /\ (c * l) * k = (c * k) * l
      OBVIOUS
    <3> QED
      BY <2>1, <2>2, <3>1
  <2> QED
    BY <2>3
<1>3. ASSUME NEW p \in Quotient, NEW q \in Quotient, NEW r \in Quotient,
             AtMost(p, q), AtMost(q, r)
      PROVE  AtMost(p, r)
  <2>1. /\ p.sum \in Int /\ q.sum \in Int /\ r.sum \in Int
        /\ p.n \in Nat \ {0} /\ q.n \in Nat \ {0} /\ r.n \in Nat \ {0}
    BY DEF Quotient
  <2> QED
    BY <1>2, <1>3, <2>1 DEF AtMost
<1> QED
  BY <1>1, <1>3

\* What drawing nl + nr numbers in two colours saves of the squared error, in
\* terms of the sums sl and sr of the two parts: u, v and w are p over the
\* sizes of the whole and of the parts.
Shares(p, u, v, w, nl, nr, sl, sr) ==
  /\ p \in Int /\ u \in Int /\ v \in Int /\ w \in Int
  /\ nl \in Int /\ nr \in Int /\ sl \in Int /\ sr \in Int
  /\ p = u * (nl + nr) /\ p = v * nl /\ p = w * nr

LEMMA SavingAlgebra ==
  ASSUME NEW p, NEW u, NEW v, NEW w, NEW nl, NEW nr, NEW sl, NEW sr,
         Shares(p, u, v, w, nl, nr, sl, sr)
  PROVE  (v * sl * sl + w * sr * sr - u * (sl + sr) * (sl + sr)) * ((nl * nr) * (nl + nr))
           = p * ((sl * nr - sr * nl) * (sl * nr - sr * nl))
<1>0. /\ p \in Int /\ u \in Int /\ v \in Int /\ w \in Int
      /\ nl \in Int /\ nr \in Int /\ sl \in Int /\ sr \in Int
      /\ p = u * (nl + nr) /\ p = v * nl /\ p = w * nr
  BY DEF Shares
<1> DEFINE n == nl + nr
           k == (nl * nr) * n
<1>1. (v * sl * sl) * k = p * (sl * sl * nr * n)
  <2>1. (v * sl * sl) * k = (v * nl) * (sl * sl * nr * n)
    BY <1>0
  <2> QED
    BY <1>0, <2>1
<1>2. (w * sr * sr) * k = p * (sr * sr * nl * n)
  <2>1. (w * sr * sr) * k = (w * nr) * (sr * sr * nl * n)
    BY <1>0
  <2> QED
    BY <1>0, <2>1
<1>3. (u * (sl + sr) * (sl + sr)) * k = p * ((sl + sr) * (sl + sr) * (nl * nr))
  <2>1. (u * (sl + sr) * (sl + sr)) * k = (u * n) * ((sl + sr) * (sl + sr) * (nl * nr))
    BY <1>0
  <2> QED
    BY <1>0, <2>1
<1>4. (sl * sl * nr * n) + (sr * sr * nl * n) - ((sl + sr) * (sl + sr) * (nl * nr))
        = (sl * nr - sr * nl) * (sl * nr - sr * nl)
  BY <1>0
<1> DEFINE A == v * sl * sl
           B == w * sr * sr
           C == u * (sl + sr) * (sl + sr)
           D == sl * sl * nr * n
           E == sr * sr * nl * n
           F == (sl + sr) * (sl + sr) * (nl * nr)
<1>5. /\ A \in Int /\ B \in Int /\ C \in Int /\ D \in Int /\ E \in Int /\ F \in Int
      /\ k \in Int
  BY <1>0
<1>6. A * k = p * D /\ B * k = p * E /\ C * k = p * F
  BY <1>1, <1>2, <1>3
<1> HIDE DEF A, B, C, D, E, F, k
<1>7. (A + B - C) * k = p * (D + E - F)
  <2>1. (A + B - C) * k = A * k + B * k - C * k
    BY <1>0, <1>5
  <2>2. p * (D + E - F) = p * D + p * E - p * F
    BY <1>0, <1>5
  <2> QED
    BY <1>6, <2>1, <2>2
<1>8. D + E - F = (sl * nr - sr * nl) * (sl * nr - sr * nl)
  BY <1>4 DEF D, E, F
<1> QED
  BY <1>7, <1>8 DEF A, B, C, k

-----------------------------------------------------------------------------
(* Splicing into a list.                                                   *)

LEMMA MinOfTwo ==
  ASSUME NEW a \in Int, NEW b \in Int, a <= b
  PROVE  Min({a, b}) = a /\ Min({b, a}) = a
<1>1. a \in {a, b} /\ \A y \in {a, b} : a <= y
  OBVIOUS
<1>2. \A x \in {a, b} : (\A y \in {a, b} : x <= y) => x = a
  OBVIOUS
<1>3. Min({a, b}) = a
  BY <1>1, <1>2 DEF Min
<1>4. {b, a} = {a, b}
  OBVIOUS
<1> QED
  BY <1>3, <1>4

\* x in the place of the element after the first n, or put in there.
Over(arr, n, x) == SubSeq(arr, 1, n) \o << x >> \o SubSeq(arr, n + 1 + 1, Len(arr))
In(arr, n, x)   == SubSeq(arr, 1, n) \o << x >> \o SubSeq(arr, n + 1 + 0, Len(arr))

LEMMA OverElements ==
  ASSUME NEW S, NEW arr \in Seq(S), NEW x \in S, NEW n \in 0..Len(arr) - 1
  PROVE  /\ Over(arr, n, x) \in Seq(S)
         /\ Len(Over(arr, n, x)) = Len(arr)
         /\ \A k \in 1..Len(arr) :
              Over(arr, n, x)[k] = IF k = n + 1 THEN x ELSE arr[k]
<1> DEFINE l == SubSeq(arr, 1, n)
           r == SubSeq(arr, n + 1 + 1, Len(arr))
<1>1. Len(arr) \in Nat /\ n \in Nat /\ n <= Len(arr)
  OBVIOUS
<1>2. Over(arr, n, x) = l \o << x >> \o r
  BY DEF Over
<1>3. /\ l \in Seq(S) /\ Len(l) = n
      /\ \A k \in 1..n : l[k] = arr[k]
  BY <1>1
<1>4. /\ r \in Seq(S) /\ Len(r) = Len(arr) - n - 1
      /\ \A k \in 1..Len(arr) - n - 1 : r[k] = arr[k + n + 1]
  BY <1>1
<1> HIDE DEF l, r
<1>5. << x >> \in Seq(S) /\ Len(<< x >>) = 1 /\ << x >>[1] = x
  OBVIOUS
<1> DEFINE m == l \o << x >>
<1>6. /\ m \in Seq(S) /\ Len(m) = n + 1
      /\ \A k \in 1..n : m[k] = arr[k]
      /\ m[n + 1] = x
  BY <1>1, <1>3, <1>5
<1> HIDE DEF m
<1> DEFINE t == m \o r
<1>7. /\ t \in Seq(S) /\ Len(t) = Len(arr)
      /\ \A k \in 1..n + 1 : t[k] = m[k]
      /\ \A k \in n + 2..Len(arr) : t[k] = r[k - n - 1]
  <2>1. t \in Seq(S) /\ Len(t) = Len(arr)
    <3>1. t \in Seq(S) /\ Len(t) = Len(m) + Len(r)
      <4>1. m \in Seq(S) /\ r \in Seq(S)
        BY <1>4, <1>6
      <4> QED
        BY <4>1
    <3>2. Len(m) + Len(r) = Len(arr)
      BY <1>1, <1>4, <1>6
    <3> QED
      BY <3>1, <3>2
  <2>2. \A k \in 1..n + 1 : t[k] = m[k]
    BY <1>1, <1>4, <1>6
  <2>3. \A k \in n + 2..Len(arr) : t[k] = r[k - n - 1]
    BY <1>1, <1>4, <1>6
  <2> QED
    BY <2>1, <2>2, <2>3
<1> HIDE DEF t
<1>8. \A k \in n + 2..Len(arr) : t[k] = arr[k]
  BY <1>1, <1>4, <1>7
<1>9. \A k \in 1..Len(arr) : t[k] = IF k = n + 1 THEN x ELSE arr[k]
  <2> SUFFICES ASSUME NEW k \in 1..Len(arr)
               PROVE  t[k] = IF k = n + 1 THEN x ELSE arr[k]
    OBVIOUS
  <2>1. CASE k \in 1..n
    BY <1>1, <1>6, <1>7, <2>1
  <2>2. CASE k = n + 1
    BY <1>1, <1>6, <1>7, <2>2
  <2>3. CASE k \in n + 2..Len(arr)
    BY <1>1, <1>8, <2>3
  <2> QED
    BY <1>1, <2>1, <2>2, <2>3
<1>10. Over(arr, n, x) = t
  BY <1>2 DEF m, t
<1> QED
  BY <1>7, <1>9, <1>10

LEMMA InElements ==
  ASSUME NEW S, NEW arr \in Seq(S), NEW x \in S, NEW n \in 0..Len(arr)
  PROVE  /\ In(arr, n, x) \in Seq(S)
         /\ Len(In(arr, n, x)) = Len(arr) + 1
         /\ \A k \in 1..n : In(arr, n, x)[k] = arr[k]
         /\ In(arr, n, x)[n + 1] = x
         /\ \A k \in n + 1..Len(arr) : In(arr, n, x)[k + 1] = arr[k]
<1> DEFINE l == SubSeq(arr, 1, n)
           r == SubSeq(arr, n + 1 + 0, Len(arr))
<1>1. Len(arr) \in Nat /\ n \in Nat /\ n <= Len(arr)
  OBVIOUS
<1>2. In(arr, n, x) = l \o << x >> \o r
  BY DEF In
<1>3. /\ l \in Seq(S) /\ Len(l) = n
      /\ \A k \in 1..n : l[k] = arr[k]
  BY <1>1
<1>4. /\ r \in Seq(S) /\ Len(r) = Len(arr) - n
      /\ \A k \in 1..Len(arr) - n : r[k] = arr[k + n]
  BY <1>1
<1> HIDE DEF l, r
<1>5. << x >> \in Seq(S) /\ Len(<< x >>) = 1 /\ << x >>[1] = x
  OBVIOUS
<1> DEFINE m == l \o << x >>
<1>6. /\ m \in Seq(S) /\ Len(m) = n + 1
      /\ \A k \in 1..n : m[k] = arr[k]
      /\ m[n + 1] = x
  BY <1>1, <1>3, <1>5
<1> HIDE DEF m
<1> DEFINE t == m \o r
<1>7. /\ t \in Seq(S) /\ Len(t) = Len(arr) + 1
      /\ \A k \in 1..n + 1 : t[k] = m[k]
      /\ \A k \in n + 2..Len(arr) + 1 : t[k] = r[k - n - 1]
  BY <1>1, <1>4, <1>6
<1> HIDE DEF t
<1>8. ASSUME NEW k \in n + 1..Len(arr)
      PROVE  t[k + 1] = arr[k]
  <2>1. /\ k + 1 \in n + 2..Len(arr) + 1 /\ (k + 1) - n - 1 = k - n
        /\ k - n \in 1..Len(arr) - n /\ (k - n) + n = k
    BY <1>1
  <2>2. t[k + 1] = r[k - n]
    BY <1>7, <2>1
  <2> QED
    BY <1>4, <2>1, <2>2
<1>9. t[n + 1] = x /\ \A k \in 1..n : t[k] = arr[k]
  BY <1>1, <1>6, <1>7
<1>10. In(arr, n, x) = t
  BY <1>2 DEF m, t
<1> QED
  BY <1>7, <1>8, <1>9, <1>10

-----------------------------------------------------------------------------
(* Segments.                                                               *)

\* Segment s of `segs` split before group `cut`.
Cut(segs, s, cut) ==
  SplitSeg(segs, s, Seg(segs[s].b, cut - 1), Seg(cut, segs[s].e))

\* Where `cut` may lie, and what the lemmas assume of `segs`.
CanCut(segs, s, cut) ==
  /\ segs \in Seq(Segment)
  /\ s \in 1..Len(segs)
  /\ cut \in Int
  /\ segs[s].b < cut /\ cut <= segs[s].e

NonEmpty(segs) == \A k \in 1..Len(segs) : segs[k].b <= segs[k].e

\* A split list of segments is a list of segments, one longer.
LEMMA SplitType ==
  ASSUME NEW S, NEW segs \in Seq(S), NEW s \in 1..Len(segs),
         NEW x \in S, NEW y \in S
  PROVE  /\ SplitSeg(segs, s, x, y) \in Seq(S)
         /\ Len(SplitSeg(segs, s, x, y)) = Len(segs) + 1
<1> DEFINE new == SplitSeg(segs, s, x, y)
<1>1. Len(segs) \in Nat /\ Len(segs) + 1 \in Nat /\ s \in Nat
  OBVIOUS
<1>2. ASSUME NEW k \in 1..Len(segs) + 1
      PROVE  new[k] \in S
  <2>1. CASE k < s
    BY <1>1, <2>1 DEF SplitSeg
  <2>2. CASE k = s \/ k = s + 1
    BY <1>1, <2>2 DEF SplitSeg
  <2>3. CASE k > s + 1
    BY <1>1, <2>3 DEF SplitSeg
  <2> QED
    BY <1>1, <2>1, <2>2, <2>3
<1>3. new \in [1..Len(segs) + 1 -> S]
  <2>1. new = [k \in 1..Len(segs) + 1 |-> new[k]]
    BY DEF SplitSeg
  <2> QED
    BY <1>2, <2>1
<1>4. new \in Seq(S)
  BY <1>1, <1>3
<1>5. Len(new) = Len(segs) + 1
  BY <1>1, <1>3, <1>4
<1> QED
  BY <1>4, <1>5

\* An element of a sequence over S is in S.
LEMMA ElementOfSeq ==
  ASSUME NEW S, NEW q \in Seq(S), NEW k \in 1..Len(q)
  PROVE  q[k] \in S
  OBVIOUS

\* The elements of a list of segments have integer bounds.
LEMMA SegmentBounds ==
  ASSUME NEW segs \in Seq(Segment), NEW k \in 1..Len(segs)
  PROVE  segs[k].b \in Int /\ segs[k].e \in Int
<1>1. segs[k] \in Segment
  OBVIOUS
<1> QED
  BY <1>1 DEF Segment

\* The elements of a split list, position by position.
LEMMA SplitElements ==
  ASSUME NEW segs, NEW s, NEW cut, CanCut(segs, s, cut)
  PROVE  /\ Cut(segs, s, cut) \in Seq(Segment)
         /\ Len(Cut(segs, s, cut)) = Len(segs) + 1
         /\ \A k \in 1..Len(segs) : k < s => Cut(segs, s, cut)[k] = segs[k]
         /\ Cut(segs, s, cut)[s].b = segs[s].b
         /\ Cut(segs, s, cut)[s].e = cut - 1
         /\ Cut(segs, s, cut)[s + 1].b = cut
         /\ Cut(segs, s, cut)[s + 1].e = segs[s].e
         /\ \A k \in 1..Len(segs) : k > s => Cut(segs, s, cut)[k + 1] = segs[k]
<1> DEFINE x == Seg(segs[s].b, cut - 1)
           y == Seg(cut, segs[s].e)
<1>1. segs \in Seq(Segment) /\ s \in 1..Len(segs) /\ cut \in Int
  BY DEF CanCut
<1>2. Len(segs) \in Nat
  BY <1>1
<1>3. x \in Segment /\ y \in Segment
  BY <1>1, SegmentBounds DEF Seg, Segment
<1>4. x.b = segs[s].b /\ x.e = cut - 1 /\ y.b = cut /\ y.e = segs[s].e
  BY DEF Seg
<1>5. Cut(segs, s, cut) = SplitSeg(segs, s, x, y)
  BY DEF Cut
<1> HIDE DEF x, y
<1>6. /\ SplitSeg(segs, s, x, y) \in Seq(Segment)
      /\ Len(SplitSeg(segs, s, x, y)) = Len(segs) + 1
  BY <1>1, <1>3, SplitType
<1>7. SplitSeg(segs, s, x, y)[s] = x /\ SplitSeg(segs, s, x, y)[s + 1] = y
  BY <1>1, <1>2 DEF SplitSeg
<1>8. \A k \in 1..Len(segs) : k < s => SplitSeg(segs, s, x, y)[k] = segs[k]
  BY <1>1, <1>2 DEF SplitSeg
<1>9. ASSUME NEW k \in 1..Len(segs), k > s
      PROVE  SplitSeg(segs, s, x, y)[k + 1] = segs[k]
  <2>1. /\ k + 1 \in 1..Len(segs) + 1 /\ (k + 1) - 1 = k
        /\ ~(k + 1 < s) /\ k + 1 # s /\ k + 1 # s + 1
    BY <1>1, <1>2, <1>9
  <2> QED
    BY <2>1 DEF SplitSeg
<1> QED
  BY <1>4, <1>5, <1>6, <1>7, <1>8, <1>9

\* Splitting keeps the segments non-empty.
LEMMA SplitNonEmpty ==
  ASSUME NEW segs, NEW s, NEW cut, CanCut(segs, s, cut), NonEmpty(segs)
  PROVE  NonEmpty(Cut(segs, s, cut))
<1> DEFINE new == Cut(segs, s, cut)
           n == Len(segs)
<1>1. segs \in Seq(Segment) /\ s \in 1..n /\ cut \in Int
      /\ segs[s].b < cut /\ cut <= segs[s].e /\ n \in Nat
  BY DEF CanCut
<1>2. segs[s].b \in Int /\ segs[s].e \in Int
  BY <1>1, SegmentBounds
<1>3. SUFFICES ASSUME NEW k \in 1..n + 1
               PROVE  new[k].b <= new[k].e
  BY SplitElements DEF NonEmpty
<1>4. CASE k < s
  <2>1. k \in 1..n /\ new[k] = segs[k]
    BY <1>1, <1>4, SplitElements
  <2> QED
    BY <2>1 DEF NonEmpty
<1>5. CASE k = s
  <2>1. new[s].b = segs[s].b /\ new[s].e = cut - 1
    BY SplitElements
  <2> QED
    BY <1>1, <1>2, <1>5, <2>1
<1>6. CASE k = s + 1
  <2>1. new[s + 1].b = cut /\ new[s + 1].e = segs[s].e
    BY SplitElements
  <2> QED
    BY <1>1, <1>2, <1>6, <2>1
<1>7. CASE k > s + 1
  <2>1. k - 1 \in 1..n /\ k - 1 > s /\ (k - 1) + 1 = k
    BY <1>1, <1>3, <1>7
  <2>2. new[k] = segs[k - 1]
    BY <2>1, SplitElements
  <2> QED
    BY <2>1, <2>2 DEF NonEmpty
<1> QED
  BY <1>1, <1>3, <1>4, <1>5, <1>6, <1>7

\* Splitting segment s at `cut` keeps the cover.
LEMMA SplitCovers ==
  ASSUME NEW segs, NEW s, NEW cut, CanCut(segs, s, cut),
         NEW lo \in Int, NEW hi \in Int, Covers(segs, lo, hi)
  PROVE  Covers(Cut(segs, s, cut), lo, hi)
<1> DEFINE new == Cut(segs, s, cut)
           n == Len(segs)
<1>1. segs \in Seq(Segment) /\ s \in 1..n /\ cut \in Int
      /\ segs[s].b < cut /\ cut <= segs[s].e /\ n \in Nat
  BY DEF CanCut
<1>2. Len(new) = n + 1
  BY SplitElements
<1>3. NonEmpty(new)
  BY SplitNonEmpty DEF Covers, NonEmpty
<1>4. new[1].b = lo
  <2>1. CASE s = 1
    BY <2>1, SplitElements DEF Covers
  <2>2. CASE s > 1
    <3>1. 1 \in 1..n /\ 1 < s
      BY <1>1, <2>2
    <3>2. new[1] = segs[1]
      BY <3>1, SplitElements
    <3> QED
      BY <3>2 DEF Covers
  <2> QED
    BY <1>1, <2>1, <2>2
<1>5. new[n + 1].e = hi
  <2>1. CASE s = n
    BY <2>1, SplitElements DEF Covers
  <2>2. CASE s < n
    <3>1. new[n + 1] = segs[n]
      BY <1>1, <2>2, SplitElements
    <3> QED
      BY <3>1 DEF Covers
  <2> QED
    BY <1>1, <2>1, <2>2
<1>6. ASSUME NEW k \in 1..n
      PROVE  new[k + 1].b = new[k].e + 1
  <2>1. CASE k + 1 < s
    <3>1. k \in 1..n - 1 /\ new[k] = segs[k] /\ new[k + 1] = segs[k + 1]
      BY <1>1, <2>1, SplitElements
    <3> QED
      BY <3>1 DEF Covers
  <2>2. CASE k + 1 = s
    <3>1. k \in 1..n - 1 /\ k \in 1..n /\ k < s
      BY <1>1, <1>6, <2>2
    <3>2. new[k] = segs[k] /\ new[s].b = segs[s].b
      BY <3>1, SplitElements
    <3>3. segs[k + 1].b = segs[k].e + 1
      BY <3>1 DEF Covers
    <3> QED
      BY <2>2, <3>2, <3>3
  <2>3. CASE k = s
    <3>1. new[s].e = cut - 1 /\ new[s + 1].b = cut
      BY SplitElements
    <3> QED
      BY <1>1, <2>3, <3>1
  <2>4. CASE k = s + 1
    <3>1. /\ s \in 1..n - 1 /\ s + 1 \in 1..n /\ s + 1 > s
          /\ k = s + 1 /\ new[s + 1].e = segs[s].e
      BY <1>1, <1>6, <2>4, SplitElements
    <3>2. new[(s + 1) + 1] = segs[s + 1]
      BY <3>1, SplitElements
    <3>3. segs[s + 1].b = segs[s].e + 1
      BY <3>1 DEF Covers
    <3> QED
      BY <3>1, <3>2, <3>3
  <2>5. CASE k > s + 1
    <3>1. /\ k - 1 \in 1..n - 1 /\ k - 1 \in 1..n /\ k - 1 > s /\ k > s
          /\ (k - 1) + 1 = k
      BY <1>1, <1>6, <2>5
    <3>2. new[k + 1] = segs[k] /\ new[(k - 1) + 1] = segs[k - 1]
      BY <1>6, <3>1, SplitElements
    <3>3. segs[(k - 1) + 1].b = segs[k - 1].e + 1
      BY <3>1 DEF Covers
    <3> QED
      BY <3>1, <3>2, <3>3
  <2> QED
    BY <1>1, <2>1, <2>2, <2>3, <2>4, <2>5
<1> QED
  BY <1>1, <1>2, <1>3, <1>4, <1>5, <1>6 DEF Covers, NonEmpty

\* Where position k of the split list comes from.
Origin(k, s) == IF k <= s THEN k ELSE k - 1

\* A segment of the split list lies inside the one it comes from.
LEMMA SplitInside ==
  ASSUME NEW segs, NEW s, NEW cut, CanCut(segs, s, cut),
         NEW k \in 1..Len(segs) + 1
  PROVE  /\ Origin(k, s) \in 1..Len(segs)
         /\ segs[Origin(k, s)].b <= Cut(segs, s, cut)[k].b
         /\ Cut(segs, s, cut)[k].e <= segs[Origin(k, s)].e
         /\ Cut(segs, s, cut)[k].b \in Int
         /\ Cut(segs, s, cut)[k].e \in Int
<1> DEFINE new == Cut(segs, s, cut)
           n == Len(segs)
<1>1. segs \in Seq(Segment) /\ s \in 1..n /\ cut \in Int
      /\ segs[s].b < cut /\ cut <= segs[s].e /\ n \in Nat
  BY DEF CanCut
<1>2. \A j \in 1..n : segs[j].b \in Int /\ segs[j].e \in Int
  BY <1>1, SegmentBounds
<1>3. CASE k < s
  <2>1. k \in 1..n /\ Origin(k, s) = k
    BY <1>1, <1>3 DEF Origin
  <2>2. new[k] = segs[k]
    BY <1>3, <2>1, SplitElements
  <2> QED
    BY <1>2, <2>1, <2>2
<1>4. CASE k = s
  <2>1. Origin(k, s) = s
    BY <1>1, <1>4 DEF Origin
  <2>2. new[s].b = segs[s].b /\ new[s].e = cut - 1
    BY SplitElements
  <2> QED
    BY <1>1, <1>2, <1>4, <2>1, <2>2
<1>5. CASE k = s + 1
  <2>1. Origin(k, s) = s
    BY <1>1, <1>5 DEF Origin
  <2>2. new[s + 1].b = cut /\ new[s + 1].e = segs[s].e
    BY SplitElements
  <2> QED
    BY <1>1, <1>2, <1>5, <2>1, <2>2
<1>6. CASE k > s + 1
  <2>1. k - 1 \in 1..n /\ k - 1 > s /\ (k - 1) + 1 = k /\ Origin(k, s) = k - 1
    BY <1>1, <1>6 DEF Origin
  <2>2. new[(k - 1) + 1] = segs[k - 1]
    BY <2>1, SplitElements
  <2> QED
    BY <1>2, <2>1, <2>2
<1> QED
  BY <1>1, <1>3, <1>4, <1>5, <1>6

\* Splitting keeps the order of the segments.
LEMMA SplitOrdered ==
  ASSUME NEW segs, NEW s, NEW cut, CanCut(segs, s, cut), Ordered(segs)
  PROVE  Ordered(Cut(segs, s, cut))
<1> DEFINE new == Cut(segs, s, cut)
           n == Len(segs)
<1>1. segs \in Seq(Segment) /\ s \in 1..n /\ cut \in Int /\ n \in Nat
  BY DEF CanCut
<1>2. SUFFICES ASSUME NEW j \in 1..n + 1, NEW k \in 1..n + 1, j < k
               PROVE  new[j].e < new[k].b
  BY SplitElements DEF Ordered
<1>3. CASE j = s /\ k = s + 1
  <2>1. new[s].e = cut - 1 /\ new[s + 1].b = cut
    BY SplitElements
  <2> QED
    BY <1>1, <1>3, <2>1
<1>4. CASE ~(j = s /\ k = s + 1)
  <2>1. Origin(j, s) \in 1..n /\ Origin(k, s) \in 1..n
    BY SplitInside
  <2>2. Origin(j, s) < Origin(k, s)
    BY <1>1, <1>2, <1>4 DEF Origin
  <2>3. segs[Origin(j, s)].e < segs[Origin(k, s)].b
    BY <2>1, <2>2 DEF Ordered
  <2>4. segs[Origin(j, s)].e \in Int /\ segs[Origin(k, s)].b \in Int
    BY <1>1, <2>1, SegmentBounds
  <2>5. /\ new[j].e <= segs[Origin(j, s)].e /\ new[j].e \in Int
        /\ segs[Origin(k, s)].b <= new[k].b /\ new[k].b \in Int
    BY SplitInside
  <2> QED
    BY <2>3, <2>4, <2>5
<1> QED
  BY <1>3, <1>4

\* Splitting adds exactly one cut.
LEMMA SplitRefines ==
  ASSUME NEW segs, NEW s, NEW cut, CanCut(segs, s, cut),
         Ordered(segs), NonEmpty(segs)
  PROVE  RefinesByOne(Cut(segs, s, cut), segs)
<1> DEFINE new == Cut(segs, s, cut)
           n == Len(segs)
<1>1. segs \in Seq(Segment) /\ s \in 1..n /\ cut \in Int
      /\ segs[s].b < cut /\ cut <= segs[s].e /\ n \in Nat
  BY DEF CanCut
<1>2. Len(new) = n + 1
  BY SplitElements
<1>3. cut \notin Starts(segs)
  <2> SUFFICES ASSUME NEW j \in 1..n
               PROVE  segs[j].b # cut
    BY DEF Starts
  <2>1. /\ segs[j].b \in Int /\ segs[j].e \in Int
        /\ segs[s].b \in Int /\ segs[s].e \in Int
        /\ segs[j].b <= segs[j].e
    BY <1>1, SegmentBounds DEF NonEmpty
  <2>2. CASE j < s
    <3>1. segs[j].e < segs[s].b
      BY <1>1, <2>2 DEF Ordered
    <3> QED
      BY <1>1, <2>1, <3>1
  <2>3. CASE j = s
    BY <1>1, <2>1, <2>3
  <2>4. CASE j > s
    <3>1. segs[s].e < segs[j].b
      BY <1>1, <2>4 DEF Ordered
    <3> QED
      BY <1>1, <2>1, <3>1
  <2> QED
    BY <1>1, <2>2, <2>3, <2>4
<1>4. ASSUME NEW k \in 1..n
      PROVE  \E i, j \in 1..n + 1 : new[i].b = segs[k].b /\ new[j].e = segs[k].e
  <2>1. k \in 1..n + 1 /\ k + 1 \in 1..n + 1
    BY <1>1
  <2>2. CASE k < s
    <3>1. new[k] = segs[k]
      BY <2>2, SplitElements
    <3> QED
      BY <2>1, <3>1
  <2>3. CASE k = s
    <3>1. new[k].b = segs[k].b /\ new[k + 1].e = segs[k].e
      BY <2>3, SplitElements
    <3> QED
      BY <2>1, <3>1
  <2>4. CASE k > s
    <3>1. new[k + 1] = segs[k]
      BY <2>4, SplitElements
    <3> QED
      BY <2>1, <3>1
  <2> QED
    BY <1>1, <2>2, <2>3, <2>4
<1>5. ASSUME NEW j \in 1..n + 1
      PROVE  /\ new[j].b = cut \/ \E k \in 1..n : new[j].b = segs[k].b
             /\ new[j].e = cut - 1 \/ \E k \in 1..n : new[j].e = segs[k].e
  <2>1. CASE j < s
    <3>1. j \in 1..n
      BY <1>1, <2>1
    <3>2. new[j] = segs[j]
      BY <2>1, <3>1, SplitElements
    <3> QED
      BY <3>1, <3>2
  <2>2. CASE j = s
    <3>1. new[s].b = segs[s].b /\ new[s].e = cut - 1
      BY SplitElements
    <3> QED
      BY <1>1, <2>2, <3>1
  <2>3. CASE j = s + 1
    <3>1. new[s + 1].b = cut /\ new[s + 1].e = segs[s].e
      BY SplitElements
    <3> QED
      BY <1>1, <2>3, <3>1
  <2>4. CASE j > s + 1
    <3>1. j - 1 \in 1..n /\ j - 1 > s /\ (j - 1) + 1 = j
      BY <1>1, <2>4
    <3>2. new[(j - 1) + 1] = segs[j - 1]
      BY <3>1, SplitElements
    <3> QED
      BY <3>1, <3>2
  <2> QED
    BY <1>1, <2>1, <2>2, <2>3, <2>4
<1>6. /\ s \in 1..n + 1 /\ s + 1 \in 1..n + 1
      /\ new[s].e = cut - 1 /\ new[s + 1].b = cut
  BY <1>1, SplitElements
<1> HIDE DEF new
<1>7. Starts(new) = Starts(segs) \cup {cut}
  <2>1. Starts(new) = { new[j].b : j \in 1..n + 1 }
    BY <1>2 DEF Starts
  <2>2. Starts(segs) = { segs[k].b : k \in 1..n }
    BY DEF Starts
  <2>3. ASSUME NEW v \in Starts(new)
        PROVE  v \in Starts(segs) \cup {cut}
    BY <1>5, <2>1, <2>2
  <2>4. ASSUME NEW v \in Starts(segs)
        PROVE  v \in Starts(new)
    BY <1>4, <2>1, <2>2
  <2>5. cut \in Starts(new)
    BY <1>6, <2>1
  <2> QED
    BY <2>3, <2>4, <2>5
<1>8. Ends(new) = Ends(segs) \cup {cut - 1}
  <2>1. Ends(new) = { new[j].e : j \in 1..n + 1 }
    BY <1>2 DEF Ends
  <2>2. Ends(segs) = { segs[k].e : k \in 1..n }
    BY DEF Ends
  <2>3. ASSUME NEW v \in Ends(new)
        PROVE  v \in Ends(segs) \cup {cut - 1}
    BY <1>5, <2>1, <2>2
  <2>4. ASSUME NEW v \in Ends(segs)
        PROVE  v \in Ends(new)
    BY <1>4, <2>1, <2>2
  <2>5. cut - 1 \in Ends(new)
    BY <1>6, <2>1
  <2> QED
    BY <2>3, <2>4, <2>5
<1> QED
  BY <1>3, <1>7, <1>8 DEF RefinesByOne, new

\* n + 1 groups have room for n + 1 segments at most.
LEMMA OrderedLength ==
  ASSUME NEW n \in Nat, NEW segs \in Seq([b : 0..n, e : 0..n]),
         Ordered(segs), NonEmpty(segs)
  PROVE  Len(segs) <= n + 1
<1> DEFINE start == [k \in 1..Len(segs) |-> segs[k].b]
<1>1. Len(segs) \in Nat
  OBVIOUS
<1>2. ASSUME NEW k \in 1..Len(segs)
      PROVE  segs[k].b \in 0..n /\ segs[k].e \in 0..n /\ segs[k].b <= segs[k].e
  <2>1. segs[k] \in [b : 0..n, e : 0..n]
    BY ElementOfSeq
  <2> QED
    BY <2>1 DEF NonEmpty
<1>3. ASSUME NEW j \in 1..Len(segs), NEW k \in 1..Len(segs), j < k
      PROVE  segs[j].b # segs[k].b
  <2>1. segs[j].e < segs[k].b
    BY <1>3 DEF Ordered
  <2> QED
    BY <1>2, <2>1
<1>4. start \in [1..Len(segs) -> 0..n]
  BY <1>2
<1>5. \A j, k \in 1..Len(segs) : start[j] = start[k] => j = k
  BY <1>1, <1>3
<1> HIDE DEF start
<1>6. start \in Injection(1..Len(segs), 0..n)
  BY <1>4, <1>5 DEF Injection, IsInjective
<1>7. /\ IsFiniteSet(0..n) /\ Cardinality(0..n) = n + 1
      /\ Cardinality(1..Len(segs)) = Len(segs)
  <2>1. IsFiniteSet(0..n) /\ Cardinality(0..n) = IF 0 > n THEN 0 ELSE n - 0 + 1
    BY FS_Interval
  <2>2. Cardinality(1..Len(segs)) = IF 1 > Len(segs) THEN 0 ELSE Len(segs) - 1 + 1
    BY <1>1, FS_Interval
  <2> QED
    BY <1>1, <2>1, <2>2
<1>8. Cardinality(1..Len(segs)) <= Cardinality(0..n)
  BY <1>6, <1>7, FS_Injection
<1> QED
  BY <1>7, <1>8

-----------------------------------------------------------------------------
(* What a segmentation covers, value by value.                             *)

\* Every group is in some segment.
Full(segs, lo, hi) ==
  \A v \in lo..hi : \E k \in 1..Len(segs) : v \in Groups(segs[k])

\* One segment over the whole axis is a segmentation of it.
LEMMA OneSegment ==
  ASSUME NEW lo \in Int, NEW hi \in Int, lo <= hi
  PROVE  LET one == << Seg(lo, hi) >>
         IN  /\ one \in Seq(Segment) /\ Len(one) = 1
             /\ one[1].b = lo /\ one[1].e = hi
             /\ Covers(one, lo, hi) /\ Ordered(one) /\ Full(one, lo, hi)
<1> DEFINE x == Seg(lo, hi)
           one == << x >>
<1>1. x \in Segment /\ x.b = lo /\ x.e = hi
  BY DEF Seg, Segment
<1> HIDE DEF x
<1>2. one \in Seq(Segment) /\ Len(one) = 1 /\ one[1] = x
  BY <1>1
<1> HIDE DEF one
<1>3. Covers(one, lo, hi) /\ Ordered(one) /\ Full(one, lo, hi)
  BY <1>1, <1>2 DEF Covers, Ordered, Full, Groups
<1> QED
  BY <1>1, <1>2, <1>3 DEF one, x

\* Splitting loses no group.
LEMMA SplitFull ==
  ASSUME NEW segs, NEW s, NEW cut, CanCut(segs, s, cut),
         NEW lo \in Int, NEW hi \in Int, Full(segs, lo, hi)
  PROVE  Full(Cut(segs, s, cut), lo, hi)
<1> DEFINE new == Cut(segs, s, cut)
           n == Len(segs)
<1>1. segs \in Seq(Segment) /\ s \in 1..n /\ cut \in Int /\ n \in Nat
  BY DEF CanCut
<1>2. Len(new) = n + 1
  BY SplitElements
<1>3. SUFFICES ASSUME NEW v \in lo..hi
               PROVE  \E k \in 1..n + 1 : v \in Groups(new[k])
  BY <1>2 DEF Full
<1>4. PICK k \in 1..n : v \in Groups(segs[k])
  BY DEF Full
<1>5. segs[k].b \in Int /\ segs[k].e \in Int /\ segs[k].b <= v /\ v <= segs[k].e
  BY <1>1, SegmentBounds, <1>4 DEF Groups
<1>6. k \in 1..n + 1 /\ k + 1 \in 1..n + 1
  BY <1>1
<1>7. CASE k < s
  <2>1. new[k] = segs[k]
    BY <1>7, SplitElements
  <2> QED
    BY <1>4, <1>6, <2>1
<1>8. CASE k = s
  <2>1. /\ new[s].b = segs[s].b /\ new[s].e = cut - 1
        /\ new[s + 1].b = cut /\ new[s + 1].e = segs[s].e
    BY SplitElements
  <2>2. v \in Groups(new[s]) \/ v \in Groups(new[s + 1])
    BY <1>1, <1>5, <1>8, <2>1 DEF Groups
  <2> QED
    BY <1>6, <1>8, <2>2
<1>9. CASE k > s
  <2>1. new[k + 1] = segs[k]
    BY <1>9, SplitElements
  <2> QED
    BY <1>4, <1>6, <2>1
<1> QED
  BY <1>1, <1>7, <1>8, <1>9

\* A segment of a segmentation lies inside what the segmentation covers.
LEMMA CoversInside ==
  ASSUME NEW segs \in Seq(Segment), NEW lo \in Int, NEW hi \in Int,
         Covers(segs, lo, hi), Ordered(segs), NEW k \in 1..Len(segs)
  PROVE  /\ segs[k].b \in Int /\ segs[k].e \in Int
         /\ lo <= segs[k].b /\ segs[k].b <= segs[k].e /\ segs[k].e <= hi
<1> DEFINE n == Len(segs)
<1>1. n \in Nat /\ 1 \in 1..n /\ n \in 1..n
  BY DEF Covers
<1>2. \A j \in 1..n : /\ segs[j].b \in Int /\ segs[j].e \in Int
                      /\ segs[j].b <= segs[j].e
  BY SegmentBounds DEF Covers
<1>3. segs[1].b = lo /\ segs[n].e = hi
  BY DEF Covers
<1>4. k = 1 \/ segs[1].e < segs[k].b
  BY <1>1 DEF Ordered
<1>5. k = n \/ segs[k].e < segs[n].b
  BY <1>1 DEF Ordered
<1> QED
  BY <1>1, <1>2, <1>3, <1>4, <1>5

\* Fewer segments than groups: one of them can still be split.
LEMMA CanStillSplit ==
  ASSUME NEW segs \in Seq(Segment), NEW lo \in Int, NEW hi \in Int,
         Covers(segs, lo, hi), Full(segs, lo, hi), Len(segs) <= hi - lo
  PROVE  Splittable(segs) # {}
<1> SUFFICES ASSUME Splittable(segs) = {}
             PROVE  FALSE
  OBVIOUS
<1> DEFINE n == Len(segs)
           start == [k \in 1..n |-> IF segs[k].b \in lo..hi THEN segs[k].b ELSE lo]
<1>1. n \in Nat /\ n > 0
  BY DEF Covers
<1>2. \A k \in 1..n : /\ segs[k].b \in Int /\ segs[k].e \in Int
                      /\ segs[k].b = segs[k].e
  <2> SUFFICES ASSUME NEW k \in 1..n
               PROVE  /\ segs[k].b \in Int /\ segs[k].e \in Int
                      /\ segs[k].b = segs[k].e
    OBVIOUS
  <2>1. segs[k].b \in Int /\ segs[k].e \in Int /\ segs[k].b <= segs[k].e
    BY SegmentBounds DEF Covers
  <2>2. ~(segs[k].b < segs[k].e)
    BY DEF Splittable
  <2> QED
    BY <2>1, <2>2
<1>3. lo <= hi
  BY <1>1
<1>4. start \in [1..n -> lo..hi]
  BY <1>3
<1>5. ASSUME NEW v \in lo..hi
      PROVE  \E k \in 1..n : start[k] = v
  <2>1. PICK k \in 1..n : v \in segs[k].b..segs[k].e
    BY DEF Full, Groups
  <2>2. segs[k].b = v
    BY <1>2, <2>1
  <2> QED
    BY <2>2
<1> HIDE DEF start
<1>6. ExistsSurjection(1..n, lo..hi)
  BY <1>4, <1>5 DEF ExistsSurjection, Surjection
<1>7. Cardinality(lo..hi) <= n
  BY <1>1, <1>6, FS_SurjCardinalityBound
<1>8. Cardinality(lo..hi) = hi - lo + 1
  BY <1>3, FS_Interval
<1> QED
  BY <1>1, <1>7, <1>8

-----------------------------------------------------------------------------
(* The same segmentation over another axis.                                *)

LEMMA ShiftElements ==
  ASSUME NEW segs \in Seq(Segment), NEW x \in Int
  PROVE  /\ Shift(segs, x) \in Seq(Segment)
         /\ Len(Shift(segs, x)) = Len(segs)
         /\ \A k \in 1..Len(segs) : /\ Shift(segs, x)[k].b = segs[k].b + x
                                    /\ Shift(segs, x)[k].e = segs[k].e + x
         /\ Splittable(Shift(segs, x)) = Splittable(segs)
<1> DEFINE new == Shift(segs, x)
           n == Len(segs)
<1>1. n \in Nat
  OBVIOUS
<1>2. \A k \in 1..n : segs[k].b \in Int /\ segs[k].e \in Int
  BY SegmentBounds
<1>3. \A k \in 1..n : /\ new[k] \in Segment
                      /\ new[k].b = segs[k].b + x /\ new[k].e = segs[k].e + x
  BY <1>2 DEF Shift, Seg, Segment
<1>4. new \in [1..n -> Segment]
  BY <1>3 DEF Shift
<1> HIDE DEF new
<1>5. new \in Seq(Segment) /\ Len(new) = n
  BY <1>1, <1>4
<1>6. Splittable(new) = Splittable(segs)
  BY <1>2, <1>3, <1>5 DEF Splittable
<1> QED
  BY <1>3, <1>5, <1>6 DEF new

\* Two lists of segments with the same bounds are the same.
LEMMA SameSegments ==
  ASSUME NEW p \in Seq(Segment), NEW q \in Seq(Segment), Len(p) = Len(q),
         \A k \in 1..Len(p) : p[k].b = q[k].b /\ p[k].e = q[k].e
  PROVE  p = q
<1>1. Len(p) \in Nat
  OBVIOUS
<1>2. \A k \in 1..Len(p) : p[k] \in Segment /\ q[k] \in Segment
  BY ElementOfSeq
<1>3. \A r \in Segment : r = Seg(r.b, r.e)
  BY DEF Segment, Seg
<1>4. \A k \in 1..Len(p) : p[k] = q[k]
  BY <1>2, <1>3
<1> QED
  BY <1>1, <1>4

\* Cutting and moving to another axis commute.
LEMMA ShiftCut ==
  ASSUME NEW segs, NEW s, NEW cut, CanCut(segs, s, cut), NEW x \in Int
  PROVE  /\ CanCut(Shift(segs, x), s, cut + x)
         /\ Shift(Cut(segs, s, cut), x) = Cut(Shift(segs, x), s, cut + x)
<1> DEFINE old == Shift(segs, x)
           new == Cut(segs, s, cut)
           p == Shift(new, x)
           q == Cut(old, s, cut + x)
           n == Len(segs)
<1>1. segs \in Seq(Segment) /\ s \in 1..n /\ cut \in Int /\ n \in Nat
      /\ segs[s].b < cut /\ cut <= segs[s].e
  BY DEF CanCut
<1>2. \A k \in 1..n : segs[k].b \in Int /\ segs[k].e \in Int
  BY <1>1, SegmentBounds
<1>3. /\ old \in Seq(Segment) /\ Len(old) = n
      /\ \A k \in 1..n : old[k].b = segs[k].b + x /\ old[k].e = segs[k].e + x
  BY <1>1, ShiftElements
<1> HIDE DEF old
<1>4. CanCut(old, s, cut + x)
  BY <1>1, <1>2, <1>3 DEF CanCut
<1>5. /\ new \in Seq(Segment) /\ Len(new) = n + 1
      /\ \A k \in 1..n : k < s => new[k] = segs[k]
      /\ new[s].b = segs[s].b /\ new[s].e = cut - 1
      /\ new[s + 1].b = cut /\ new[s + 1].e = segs[s].e
      /\ \A k \in 1..n : k > s => new[k + 1] = segs[k]
  BY SplitElements
<1> HIDE DEF new
<1>6. /\ p \in Seq(Segment) /\ Len(p) = n + 1
      /\ \A k \in 1..n + 1 : p[k].b = new[k].b + x /\ p[k].e = new[k].e + x
  BY <1>5, ShiftElements
<1>7. /\ q \in Seq(Segment) /\ Len(q) = n + 1
      /\ \A k \in 1..n : k < s => q[k] = old[k]
      /\ q[s].b = old[s].b /\ q[s].e = (cut + x) - 1
      /\ q[s + 1].b = cut + x /\ q[s + 1].e = old[s].e
      /\ \A k \in 1..n : k > s => q[k + 1] = old[k]
  <2>1. /\ q \in Seq(Segment) /\ Len(q) = Len(old) + 1
        /\ \A k \in 1..Len(old) : k < s => q[k] = old[k]
        /\ q[s].b = old[s].b /\ q[s].e = (cut + x) - 1
        /\ q[s + 1].b = cut + x /\ q[s + 1].e = old[s].e
        /\ \A k \in 1..Len(old) : k > s => q[k + 1] = old[k]
    BY <1>4, SplitElements
  <2> QED
    BY <1>3, <2>1
<1> HIDE DEF p, q
<1>8. ASSUME NEW k \in 1..n + 1
      PROVE  p[k].b = q[k].b /\ p[k].e = q[k].e
  <2>1. CASE k < s
    <3>1. k \in 1..n
      BY <1>1, <2>1
    <3>2. new[k] = segs[k] /\ q[k] = old[k]
      BY <1>5, <1>7, <2>1, <3>1
    <3> QED
      BY <1>3, <1>6, <3>1, <3>2
  <2>2. CASE k = s
    <3>1. /\ p[s].b = segs[s].b + x /\ p[s].e = (cut - 1) + x
          /\ q[s].b = segs[s].b + x /\ q[s].e = (cut + x) - 1
      BY <1>1, <1>3, <1>5, <1>6, <1>7, <2>2
    <3> QED
      BY <1>1, <2>2, <3>1
  <2>3. CASE k = s + 1
    <3>1. /\ p[s + 1].b = cut + x /\ p[s + 1].e = segs[s].e + x
          /\ q[s + 1].b = cut + x /\ q[s + 1].e = segs[s].e + x
      BY <1>1, <1>3, <1>5, <1>6, <1>7, <2>3
    <3> QED
      BY <2>3, <3>1
  <2>4. CASE k > s + 1
    <3> DEFINE j == k - 1
    <3>1. j \in 1..n /\ j > s /\ k = j + 1
      BY <1>1, <2>4
    <3> HIDE DEF j
    <3>2. new[k] = segs[j] /\ q[k] = old[j]
      BY <1>5, <1>7, <3>1
    <3> QED
      BY <1>3, <1>6, <3>1, <3>2
  <2> QED
    BY <1>1, <2>1, <2>2, <2>3, <2>4
<1>9. p = q
  BY <1>6, <1>7, <1>8, SameSegments
<1> QED
  BY <1>4, <1>9 DEF p, q, new, old

-----------------------------------------------------------------------------
(* Quadrants.                                                              *)

\* A quadrant with its edges in order, and what may be cut.
Proper(q) == q \in Quadrant /\ q.xb <= q.xe /\ q.yb <= q.ye
CanCutAt(q, x, y) ==
  /\ Proper(q)
  /\ x \in q.xb .. q.xe
  /\ y \in q.yb .. q.ye

\* The quadrants of `list` fill the place of q, every cell once.
Fits(list, q) ==
  /\ \A k \in 1 .. Len(list) :
       /\ q.xb <= list[k].xb /\ list[k].xb <= list[k].xe /\ list[k].xe <= q.xe
       /\ q.yb <= list[k].yb /\ list[k].yb <= list[k].ye /\ list[k].ye <= q.ye
  /\ \A x \in q.xb .. q.xe, y \in q.yb .. q.ye :
       \E k \in 1 .. Len(list) : Inside(list[k], x, y)
  /\ \A j, k \in 1 .. Len(list) :
       \A x \in list[j].xb .. list[j].xe, y \in list[j].yb .. list[j].ye :
         Inside(list[k], x, y) => j = k

\* The pieces around a cell fill the place of the quadrant.
LEMMA PiecesAroundFit ==
  ASSUME NEW q, NEW x, NEW y, CanCutAt(q, x, y)
  PROVE  /\ PiecesAround(q, x, y) \in Seq(Quadrant)
         /\ Fits(PiecesAround(q, x, y), q)
<1> DEFINE new == PiecesAround(q, x, y)
<1>1. /\ q.xb \in Int /\ q.xe \in Int /\ q.yb \in Int /\ q.ye \in Int
      /\ x \in Int /\ y \in Int
      /\ q.xb <= x /\ x <= q.xe /\ q.yb <= y /\ y <= q.ye
  BY DEF CanCutAt, Proper, Quadrant
<1>2. CASE x < q.xe /\ y > q.yb
  <2>1. new = << Quad(q.xb, x, y, q.ye), Quad(x + 1, q.xe, y, q.ye),
                 Quad(x + 1, q.xe, q.yb, y - 1), Quad(q.xb, x, q.yb, y - 1) >>
    BY <1>2 DEF PiecesAround
  <2>2. new \in Seq(Quadrant) /\ Len(new) = 4
    BY <1>1, <2>1 DEF Quad, Quadrant
  <2>3. /\ new[1] = Quad(q.xb, x, y, q.ye)
        /\ new[2] = Quad(x + 1, q.xe, y, q.ye)
        /\ new[3] = Quad(x + 1, q.xe, q.yb, y - 1)
        /\ new[4] = Quad(q.xb, x, q.yb, y - 1)
    BY <2>1
  <2> HIDE DEF new
  <2>4. \A k \in 1 .. 4 : k = 1 \/ k = 2 \/ k = 3 \/ k = 4
    OBVIOUS
  <2>5. \A k \in 1 .. 4 :
          /\ q.xb <= new[k].xb /\ new[k].xb <= new[k].xe /\ new[k].xe <= q.xe
          /\ q.yb <= new[k].yb /\ new[k].yb <= new[k].ye /\ new[k].ye <= q.ye
    BY <1>1, <1>2, <2>3, <2>4 DEF Quad
  <2>6. ASSUME NEW u \in q.xb .. q.xe, NEW v \in q.yb .. q.ye
        PROVE  \E k \in 1 .. 4 : Inside(new[k], u, v)
    <3>1. \/ Inside(new[1], u, v) \/ Inside(new[2], u, v)
          \/ Inside(new[3], u, v) \/ Inside(new[4], u, v)
      BY <1>1, <1>2, <2>3 DEF Inside, Quad
    <3> QED
      BY <3>1
  <2>7. \A k \in 1 .. 4 : new[k] \in Quadrant
    BY <2>2
  <2>8. ASSUME NEW j \in 1 .. 4, NEW k \in 1 .. 4,
               NEW u \in new[j].xb .. new[j].xe,
               NEW v \in new[j].yb .. new[j].ye, Inside(new[k], u, v)
        PROVE  j = k
    <3>1. Inside(new[j], u, v) /\ u \in Int /\ v \in Int
      BY <2>7 DEF Inside, Quadrant
    <3>2. /\ Inside(new[1], u, v) => u <= x /\ v >= y
          /\ Inside(new[2], u, v) => u > x /\ v >= y
          /\ Inside(new[3], u, v) => u > x /\ v < y
          /\ Inside(new[4], u, v) => u <= x /\ v < y
      BY <1>1, <2>3, <3>1 DEF Inside, Quad
    <3> QED
      BY <1>1, <2>4, <2>8, <3>1, <3>2
  <2>9. Fits(new, q)
    BY <2>2, <2>5, <2>6, <2>8 DEF Fits
  <2> QED
    BY <2>2, <2>9 DEF new
<1>3. CASE x < q.xe /\ ~(y > q.yb)
  <2>1. new = << Quad(q.xb, x, q.yb, q.ye), Quad(x + 1, q.xe, q.yb, q.ye) >>
    BY <1>3 DEF PiecesAround
  <2>2. new \in Seq(Quadrant) /\ Len(new) = 2
    BY <1>1, <2>1 DEF Quad, Quadrant
  <2>3. /\ new[1] = Quad(q.xb, x, q.yb, q.ye)
        /\ new[2] = Quad(x + 1, q.xe, q.yb, q.ye)
    BY <2>1
  <2> HIDE DEF new
  <2>4. Fits(new, q)
    BY <1>1, <1>3, <2>2, <2>3 DEF Fits, Inside, Quad
  <2> QED
    BY <2>2, <2>4 DEF new
<1>4. CASE ~(x < q.xe) /\ y > q.yb
  <2>1. new = << Quad(q.xb, q.xe, y, q.ye), Quad(q.xb, q.xe, q.yb, y - 1) >>
    BY <1>4 DEF PiecesAround
  <2>2. new \in Seq(Quadrant) /\ Len(new) = 2
    BY <1>1, <2>1 DEF Quad, Quadrant
  <2>3. /\ new[1] = Quad(q.xb, q.xe, y, q.ye)
        /\ new[2] = Quad(q.xb, q.xe, q.yb, y - 1)
    BY <2>1
  <2> HIDE DEF new
  <2>4. Fits(new, q)
    BY <1>1, <1>4, <2>2, <2>3 DEF Fits, Inside, Quad
  <2> QED
    BY <2>2, <2>4 DEF new
<1>5. CASE ~(x < q.xe) /\ ~(y > q.yb)
  <2>1. new = << q >>
    BY <1>5 DEF PiecesAround
  <2>2. new \in Seq(Quadrant) /\ Len(new) = 1 /\ new[1] = q
    BY <2>1 DEF CanCutAt, Proper
  <2> HIDE DEF new
  <2>3. Fits(new, q)
    BY <1>1, <2>2 DEF Fits, Inside
  <2> QED
    BY <2>2, <2>3 DEF new
<1> QED
  BY <1>2, <1>3, <1>4, <1>5

\* The cut of a quadrant with several cells goes through it, and leaves two
\* or four pieces.
LEMMA CutGoesThrough ==
  ASSUME NEW q, NEW x, NEW y, CanCutAt(q, x, y), ~Single(q)
  PROVE  /\ CanCutAt(q, CutX(q, x, y), CutY(q, x, y))
         /\ CutX(q, x, y) < q.xe \/ CutY(q, x, y) > q.yb
<1>1. /\ q.xb \in Int /\ q.xe \in Int /\ q.yb \in Int /\ q.ye \in Int
      /\ x \in Int /\ y \in Int
      /\ q.xb <= x /\ x <= q.xe /\ q.yb <= y /\ y <= q.ye
      /\ Proper(q)
  BY DEF CanCutAt, Proper, Quadrant
<1> QED
  BY <1>1 DEF CanCutAt, CutX, CutY, Single

\* What is put in the place of a quadrant is two or four pieces that fill it.
LEMMA PiecesFit ==
  ASSUME NEW q, NEW x, NEW y, CanCutAt(q, x, y), ~Single(q)
  PROVE  /\ Pieces(q, x, y) \in Seq(Quadrant)
         /\ Fits(Pieces(q, x, y), q)
         /\ Len(Pieces(q, x, y)) = 2 \/ Len(Pieces(q, x, y)) = 4
<1> DEFINE cx == CutX(q, x, y)
           cy == CutY(q, x, y)
<1>1. CanCutAt(q, cx, cy) /\ (cx < q.xe \/ cy > q.yb)
  BY CutGoesThrough
<1> HIDE DEF cx, cy
<1>2. \/ Len(PiecesAround(q, cx, cy)) = 2
      \/ Len(PiecesAround(q, cx, cy)) = 4
  BY <1>1 DEF PiecesAround
<1> QED
  BY <1>1, <1>2, PiecesAroundFit DEF Pieces, cx, cy

\* A list with one element replaced by others, position by position.
LEMMA PutElements ==
  ASSUME NEW S, NEW list \in Seq(S), NEW s \in 1 .. Len(list),
         NEW pieces \in Seq(S), Len(pieces) >= 1
  PROVE  /\ Put(list, s, pieces) \in Seq(S)
         /\ Len(Put(list, s, pieces)) = Len(list) + Len(pieces) - 1
         /\ \A k \in 1 .. s - 1 : Put(list, s, pieces)[k] = list[k]
         /\ \A k \in 1 .. Len(pieces) :
              Put(list, s, pieces)[s + k - 1] = pieces[k]
         /\ \A k \in s + 1 .. Len(list) :
              Put(list, s, pieces)[k + Len(pieces) - 1] = list[k]
<1> DEFINE new == Put(list, s, pieces)
           n   == Len(list) + Len(pieces) - 1
<1>1. /\ Len(list) \in Nat /\ Len(pieces) \in Nat /\ n \in Nat
      /\ s \in Nat /\ s >= 1 /\ s <= Len(list)
  OBVIOUS
<1>2. new = [ k \in 1 .. n |->
                IF k < s THEN list[k]
                ELSE IF k < s + Len(pieces) THEN pieces[k - s + 1]
                ELSE list[k - Len(pieces) + 1] ]
  BY DEF Put
<1>3. ASSUME NEW k \in 1 .. n
      PROVE  new[k] \in S
  <2>1. CASE k < s
    <3>1. new[k] = list[k] /\ k \in 1 .. Len(list)
      BY <1>1, <1>2, <2>1
    <3> QED
      BY <3>1
  <2>2. CASE ~(k < s) /\ k < s + Len(pieces)
    <3>1. new[k] = pieces[k - s + 1] /\ k - s + 1 \in 1 .. Len(pieces)
      BY <1>1, <1>2, <2>2
    <3> QED
      BY <3>1
  <2>3. CASE ~(k < s) /\ ~(k < s + Len(pieces))
    <3>1. /\ new[k] = list[k - Len(pieces) + 1]
          /\ k - Len(pieces) + 1 \in 1 .. Len(list)
      BY <1>1, <1>2, <2>3
    <3> QED
      BY <3>1
  <2> QED
    BY <2>1, <2>2, <2>3
<1>4. new \in [1 .. n -> S]
  BY <1>2, <1>3
<1>5. new \in Seq(S) /\ Len(new) = n
  BY <1>1, <1>4
<1>6. \A k \in 1 .. s - 1 : new[k] = list[k]
  BY <1>1, <1>2
<1>7. \A k \in 1 .. Len(pieces) : new[s + k - 1] = pieces[k]
  BY <1>1, <1>2
<1>8. \A k \in s + 1 .. Len(list) : new[k + Len(pieces) - 1] = list[k]
  BY <1>1, <1>2
<1> QED
  BY <1>5, <1>6, <1>7, <1>8

\* The pieces have come into `new` at position s of `list`.
Holds(new, list, s, pieces) ==
  /\ new \in Seq(Quadrant)
  /\ Len(new) = Len(list) + Len(pieces) - 1
  /\ \A k \in 1 .. Len(pieces) : new[s + k - 1] = pieces[k]

LEMMA PutHolds ==
  ASSUME NEW list \in Seq(Quadrant), NEW s \in 1 .. Len(list),
         NEW pieces \in Seq(Quadrant), Len(pieces) >= 1
  PROVE  Holds(Put(list, s, pieces), list, s, pieces)
BY PutElements DEF Holds

\* Where an element of the new list comes from: a piece, or another element
\* of the old list, moved up when it came after the one replaced.
LEMMA PutOrigin ==
  ASSUME NEW S, NEW list \in Seq(S), NEW s \in 1 .. Len(list),
         NEW pieces \in Seq(S), Len(pieces) >= 1,
         NEW k \in 1 .. Len(Put(list, s, pieces))
  PROVE  \/ \E j \in 1 .. Len(pieces) :
              k = s + j - 1 /\ Put(list, s, pieces)[k] = pieces[j]
         \/ \E j \in 1 .. Len(list) :
              /\ j # s
              /\ k = IF j < s THEN j ELSE j + Len(pieces) - 1
              /\ Put(list, s, pieces)[k] = list[j]
<1> DEFINE new == Put(list, s, pieces)
<1>1. /\ Len(list) \in Nat /\ Len(pieces) \in Nat
      /\ s \in Nat /\ s >= 1 /\ s <= Len(list)
  OBVIOUS
<1>2. k \in 1 .. Len(list) + Len(pieces) - 1
  BY PutElements
<1>3. CASE k < s
  <2>1. k \in 1 .. Len(list) /\ k # s /\ k \in 1 .. s - 1
    BY <1>1, <1>2, <1>3
  <2>2. new[k] = list[k]
    BY <2>1, PutElements
  <2> QED
    BY <1>3, <2>1, <2>2
<1>4. CASE s <= k /\ k < s + Len(pieces)
  <2> DEFINE j == k - s + 1
  <2>1. j \in 1 .. Len(pieces) /\ k = s + j - 1
    BY <1>1, <1>2, <1>4
  <2>2. new[s + j - 1] = pieces[j]
    BY <2>1, PutElements
  <2> QED
    BY <2>1, <2>2
<1>5. CASE s + Len(pieces) <= k
  <2> DEFINE j == k - Len(pieces) + 1
  <2>1. /\ j \in s + 1 .. Len(list) /\ j \in 1 .. Len(list)
        /\ j # s /\ ~(j < s) /\ k = j + Len(pieces) - 1
    BY <1>1, <1>2, <1>5
  <2>2. new[j + Len(pieces) - 1] = list[j]
    BY <2>1, PutElements
  <2> QED
    BY <2>1, <2>2
<1> QED
  BY <1>1, <1>2, <1>3, <1>4, <1>5

\* The edges of a quadrant are numbers.
Edges(q) == q.xb \in Int /\ q.xe \in Int /\ q.yb \in Int /\ q.ye \in Int

\* p lies within q.
Within(p, q) ==
  /\ q.xb <= p.xb /\ p.xb <= p.xe /\ p.xe <= q.xe
  /\ q.yb <= p.yb /\ p.yb <= p.ye /\ p.ye <= q.ye

\* What lies within a quadrant lies where that lies.
LEMMA WithinGrid ==
  ASSUME NEW p, NEW q, NEW w \in Int, NEW h \in Int, Edges(p), Edges(q),
         Within(p, q), Within(q, Quad(0, w - 1, 0, h - 1))
  PROVE  Within(p, Quad(0, w - 1, 0, h - 1))
<1>1. /\ q.xb \in Int /\ q.xe \in Int /\ q.yb \in Int /\ q.ye \in Int
      /\ p.xb \in Int /\ p.xe \in Int /\ p.yb \in Int /\ p.ye \in Int
  BY DEF Edges
<1> QED
  BY <1>1 DEF Within, Quad

LEMMA WithinInside ==
  ASSUME NEW p, NEW q, NEW x \in Int, NEW y \in Int, Edges(p), Edges(q),
         Within(p, q), Inside(p, x, y)
  PROVE  Inside(q, x, y)
<1>1. /\ q.xb \in Int /\ q.xe \in Int /\ q.yb \in Int /\ q.ye \in Int
      /\ p.xb \in Int /\ p.xe \in Int /\ p.yb \in Int /\ p.ye \in Int
  BY DEF Edges
<1> QED
  BY <1>1 DEF Within, Inside

\* A grid that is covered stays covered when a quadrant gives way to pieces
\* that fill its place.
LEMMA PutTiles ==
  ASSUME NEW list \in Seq(Quadrant), NEW s \in 1 .. Len(list),
         NEW pieces \in Seq(Quadrant), Len(pieces) >= 1,
         NEW w \in Int, NEW h \in Int,
         Tiles(list, w, h), Fits(pieces, list[s])
  PROVE  Tiles(Put(list, s, pieces), w, h)
<1> DEFINE new == Put(list, s, pieces)
           m   == Len(pieces)
           n   == Len(list)
           at(j) == IF j < s THEN j ELSE j + m - 1
<1>1. /\ n \in Nat /\ m \in Nat /\ s \in Nat /\ s >= 1 /\ s <= n
      /\ Len(new) = n + m - 1
  BY PutElements
<1>2. /\ \A j \in 1 .. n : Edges(list[j])
      /\ \A j \in 1 .. m : Edges(pieces[j])
  <2>1. /\ \A j \in 1 .. n : list[j] \in Quadrant
        /\ \A j \in 1 .. m : pieces[j] \in Quadrant
    OBVIOUS
  <2> QED
    BY <2>1 DEF Edges, Quadrant
<1>3. ASSUME NEW k \in 1 .. Len(new)
      PROVE  \/ \E j \in 1 .. m : k = s + j - 1 /\ new[k] = pieces[j]
             \/ \E j \in 1 .. n : j # s /\ k = at(j) /\ new[k] = list[j]
  BY PutOrigin
<1>4. ASSUME NEW j \in 1 .. m
      PROVE  s + j - 1 \in 1 .. Len(new) /\ new[s + j - 1] = pieces[j]
  BY <1>1, PutElements
<1>5. ASSUME NEW j \in 1 .. n, j # s
      PROVE  at(j) \in 1 .. Len(new) /\ new[at(j)] = list[j]
  <2>1. CASE j < s
    BY <1>1, <2>1, PutElements
  <2>2. CASE ~(j < s)
    <3>1. j \in s + 1 .. n
      BY <1>1, <1>5, <2>2
    <3> QED
      BY <1>1, <2>2, <3>1, PutElements
  <2> QED
    BY <2>1, <2>2
<1> HIDE DEF new, m, n
<1> DEFINE all == Quad(0, w - 1, 0, h - 1)
<1>6. ASSUME NEW j \in 1 .. n
      PROVE  Within(list[j], all)
  <2>1. Edges(list[j])
    BY <1>2
  <2> QED
    BY <2>1 DEF Tiles, n, Within, Quad, Edges
<1>7. ASSUME NEW j \in 1 .. m
      PROVE  Within(pieces[j], list[s])
  BY DEF Fits, m, Within
<1>8. ASSUME NEW k \in 1 .. Len(new)
      PROVE  Within(new[k], all) /\ Edges(new[k])
  <2>1. CASE \E j \in 1 .. m : k = s + j - 1 /\ new[k] = pieces[j]
    <3>1. PICK j \in 1 .. m : new[k] = pieces[j]
      BY <2>1
    <3>2. s \in 1 .. n
      BY <1>1
    <3>3. Edges(list[s]) /\ Edges(pieces[j])
      BY <1>2, <3>2
    <3> QED
      BY <1>6, <1>7, <3>1, <3>2, <3>3, WithinGrid
  <2>2. CASE \E j \in 1 .. n : j # s /\ k = at(j) /\ new[k] = list[j]
    BY <1>2, <1>6, <2>2
  <2> QED
    BY <1>3, <2>1, <2>2
<1>9. ASSUME NEW x \in 0 .. w - 1, NEW y \in 0 .. h - 1
      PROVE  \E k \in 1 .. Len(new) : Inside(new[k], x, y)
  <2>1. PICK j \in 1 .. n : Inside(list[j], x, y)
    BY DEF Tiles, n
  <2>2. CASE j = s
    <3>1. x \in list[s].xb .. list[s].xe /\ y \in list[s].yb .. list[s].ye
      BY <2>1, <2>2 DEF Inside
    <3>2. PICK i \in 1 .. m : Inside(pieces[i], x, y)
      BY <3>1 DEF Fits, m
    <3> QED
      BY <1>4, <3>2
  <2>3. CASE j # s
    BY <1>5, <2>1, <2>3
  <2> QED
    BY <2>2, <2>3
<1>10. ASSUME NEW j \in 1 .. m, NEW x \in Int, NEW y \in Int,
              Inside(pieces[j], x, y)
       PROVE  Inside(list[s], x, y)
  <2>1. s \in 1 .. n
    BY <1>1
  <2>2. Edges(list[s]) /\ Edges(pieces[j])
    BY <1>2, <2>1
  <2> QED
    BY <1>7, <1>10, <2>2, WithinInside
<1>11. ASSUME NEW i \in 1 .. n, NEW j \in 1 .. n, NEW x \in Int, NEW y \in Int,
              Inside(list[i], x, y), Inside(list[j], x, y)
       PROVE  i = j
  <2>1. x \in list[i].xb .. list[i].xe /\ y \in list[i].yb .. list[i].ye
    BY <1>2, <1>11 DEF Inside, Edges
  <2> QED
    BY <1>11, <2>1 DEF Tiles, n
<1>12. ASSUME NEW i \in 1 .. m, NEW j \in 1 .. m, NEW x \in Int, NEW y \in Int,
              Inside(pieces[i], x, y), Inside(pieces[j], x, y)
       PROVE  i = j
  <2>1. x \in pieces[i].xb .. pieces[i].xe /\ y \in pieces[i].yb .. pieces[i].ye
    BY <1>2, <1>12 DEF Inside, Edges
  <2> QED
    BY <1>12, <2>1 DEF Fits, m
<1>13. ASSUME NEW a \in 1 .. Len(new), NEW b \in 1 .. Len(new),
              NEW x \in new[a].xb .. new[a].xe,
              NEW y \in new[a].yb .. new[a].ye, Inside(new[b], x, y)
       PROVE  a = b
  <2>1. Inside(new[a], x, y) /\ x \in Int /\ y \in Int
    <3>1. \/ \E j \in 1 .. m : new[a] = pieces[j]
          \/ \E j \in 1 .. n : new[a] = list[j]
      BY <1>3
    <3>2. Edges(new[a])
      BY <1>2, <3>1
    <3> QED
      BY <3>2 DEF Inside, Edges
  <2>2. s \in 1 .. n
    BY <1>1
  <2>3. CASE /\ \E i \in 1 .. m : a = s + i - 1 /\ new[a] = pieces[i]
             /\ \E j \in 1 .. m : b = s + j - 1 /\ new[b] = pieces[j]
    BY <1>12, <1>13, <2>1, <2>3
  <2>4. CASE /\ \E i \in 1 .. n : i # s /\ a = at(i) /\ new[a] = list[i]
             /\ \E j \in 1 .. n : j # s /\ b = at(j) /\ new[b] = list[j]
    <3>1. PICK i \in 1 .. n : a = at(i) /\ new[a] = list[i]
      BY <2>4
    <3>2. PICK j \in 1 .. n : b = at(j) /\ new[b] = list[j]
      BY <2>4
    <3>3. i = j
      BY <1>11, <1>13, <2>1, <3>1, <3>2
    <3> QED
      BY <3>1, <3>2, <3>3
  <2>5. CASE /\ \E i \in 1 .. m : a = s + i - 1 /\ new[a] = pieces[i]
             /\ \E j \in 1 .. n : j # s /\ b = at(j) /\ new[b] = list[j]
    <3>1. Inside(list[s], x, y)
      BY <1>10, <2>1, <2>5
    <3> QED
      BY <1>11, <1>13, <2>1, <2>2, <2>5, <3>1
  <2>6. CASE /\ \E i \in 1 .. n : i # s /\ a = at(i) /\ new[a] = list[i]
             /\ \E j \in 1 .. m : b = s + j - 1 /\ new[b] = pieces[j]
    <3>1. Inside(list[s], x, y)
      BY <1>10, <1>13, <2>1, <2>6
    <3> QED
      BY <1>11, <2>1, <2>2, <2>6, <3>1
  <2> QED
    BY <1>3, <2>3, <2>4, <2>5, <2>6
<1>14. \A a, b \in 1 .. Len(new) :
         \A x \in new[a].xb .. new[a].xe, y \in new[a].yb .. new[a].ye :
           Inside(new[b], x, y) => a = b
  BY <1>13
<1>15. ASSUME NEW k \in 1 .. Len(new)
       PROVE  /\ 0 <= new[k].xb /\ new[k].xb <= new[k].xe /\ new[k].xe < w
              /\ 0 <= new[k].yb /\ new[k].yb <= new[k].ye /\ new[k].ye < h
  BY <1>8 DEF Within, Quad, Edges
<1> QED
  BY <1>9, <1>14, <1>15 DEF Tiles, new
=============================================================================
