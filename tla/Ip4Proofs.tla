------------------------------ MODULE Ip4Proofs ------------------------------
(* For every string: isValidIp4 accepts it if and only if it is a dotted   *)
(* quad, and then inet_aton reads four bytes.  The string's positions are  *)
(* gone through by induction over a set of them, which needs no operator   *)
(* as a parameter: a least counterexample exists by WFMin.                 *)
EXTENDS Ip4, FiniteSetTheorems, SequenceTheorems, WellFoundedInduction, TLAPS

-----------------------------------------------------------------------------
(* Induction and recursion.                                                *)

LEMMA LeastOf ==
  ASSUME NEW T, T \subseteq Nat, T # {}
  PROVE  \E x \in T : \A y \in T : x <= y
  <1> DEFINE less == {ss \in Nat \X Nat : ss[1] < ss[2]}
  <1>1. OpToRel(<, Nat) = less
    BY Zenon DEF OpToRel
  <1>2. IsWellFoundedOn(less, Nat)
    BY <1>1, NatLessThanWellFounded
  <1>3. \A x, y \in Nat : ~(<<y, x>> \in less) => x <= y
    OBVIOUS
  <1> HIDE DEF less
  <1>4. \E x \in T : \A y \in T : ~(<<y, x>> \in less)
    BY <1>2, WFMin
  <1> QED
    BY <1>3, <1>4

\* What holds at 0, and at each number's successor, holds up to n.
LEMMA UpTo ==
  ASSUME NEW n \in Nat, NEW S, 0 \in S, \A k \in 0..(n - 1) : k \in S => k + 1 \in S
  PROVE  \A k \in 0..n : k \in S
  <1> DEFINE T == {k \in 0..n : k \notin S}
  <1> SUFFICES ASSUME T # {} PROVE FALSE
    OBVIOUS
  <1>1. PICK x \in T : \A y \in T : x <= y
    <2>1. T \subseteq Nat
      OBVIOUS
    <2> HIDE DEF T
    <2> QED
      BY <2>1, LeastOf
  <1>2. x \in 1..n
    BY <1>1
  <1>3. x - 1 \in 0..(n - 1) /\ x - 1 \notin T
    BY <1>1, <1>2
  <1> QED
    BY <1>1, <1>2, <1>3

Follows(f, a, n, G) == f[0] = a /\ \A k \in 1..n : f[k] = G[<<k, f[k - 1]>>]

\* What is defined by its value at 0 and from each value to the next exists.
LEMMA Recursion ==
  ASSUME NEW V, NEW a \in V, NEW n \in Nat, NEW G \in [(1..n) \X V -> V]
  PROVE  \E f \in [0..n -> V] : Follows(f, a, n, G)
  <1> DEFINE Good(m, f) == f[0] = a /\ \A k \in 1..m : f[k] = G[<<k, f[k - 1]>>]
             S == {m \in 0..n : \E f \in [0..m -> V] : Good(m, f)}
  <1>1. 0 \in S
    <2> DEFINE f == [k \in 0..0 |-> a]
    <2>1. f \in [0..0 -> V] /\ Good(0, f) /\ 0 \in 0..n
      OBVIOUS
    <2> HIDE DEF f, Good
    <2> QED
      BY <2>1, Zenon
  <1>2. ASSUME NEW m \in 0..(n - 1), m \in S
        PROVE  m + 1 \in S
    <2>1. PICK f \in [0..m -> V] : Good(m, f)
      BY <1>2
    <2>2. m \in Nat /\ m + 1 \in 1..n /\ m + 1 \in 0..n /\ m \in 0..m
      OBVIOUS
    <2> DEFINE g == [k \in 0..(m + 1) |-> IF k = m + 1 THEN G[<<m + 1, f[m]>>] ELSE f[k]]
    <2>3. f[m] \in V /\ G[<<m + 1, f[m]>>] \in V
      BY <2>2
    <2>4. g \in [0..(m + 1) -> V]
      BY <2>2, <2>3
    <2>5. /\ g[m + 1] = G[<<m + 1, f[m]>>]
          /\ \A k \in 0..m : g[k] = f[k]
      BY <2>2
    <2> HIDE DEF g
    <2>6. g[0] = a
      BY <2>1, <2>2, <2>5
    <2>7. ASSUME NEW k \in 1..(m + 1)
          PROVE  g[k] = G[<<k, g[k - 1]>>]
      <3>1. CASE k = m + 1
        BY <2>2, <2>5, <3>1
      <3>2. CASE k # m + 1
        <4>1. k \in 1..m /\ k \in 0..m /\ k - 1 \in 0..m
          BY <2>2, <3>2
        <4> QED
          BY <2>1, <2>5, <4>1
      <3> QED
        BY <3>1, <3>2
    <2>8. Good(m + 1, g)
      BY <2>6, <2>7
    <2> HIDE DEF Good
    <2> QED
      BY <2>2, <2>4, <2>8
  <1> HIDE DEF S
  <1>3. n \in S
    <2>1. \A k \in 0..n : k \in S
      BY <1>1, <1>2, UpTo
    <2> QED
      BY <2>1
  <1> QED
    BY <1>3 DEF S, Follows

-----------------------------------------------------------------------------
(* The two recursive functions.                                            *)

Turns == [segs : Int, chcnt : Int, accum : Int, ok : BOOLEAN]

Begun == [segs |-> 0, chcnt |-> 0, accum |-> 0, ok |-> TRUE]

LEMMA CharacterTyped ==
  ASSUME NEW v \in Turns, NEW c \in Characters
  PROVE  Character(v, c) \in Turns
  <1>1. c \in Int
    BY DEF Characters, Dot, Letter
  <1>2. Segment(v) \in Turns
    <2> DEFINE o == v.chcnt # 0 /\ v.segs + 1 # 4
    <2>1. o \in BOOLEAN /\ v.segs + 1 \in Int
      BY DEF Turns
    <2> HIDE DEF o
    <2>2. [segs |-> v.segs + 1, chcnt |-> 0, accum |-> 0, ok |-> o] \in Turns
      BY <2>1 DEF Turns
    <2> QED
      BY <2>2 DEF Segment, o
  <1>3. Digit(v, c) \in Turns
    <2> DEFINE o == v.accum * 10 + c <= 255
    <2>1. /\ o \in BOOLEAN
          /\ v.segs \in Int /\ v.chcnt + 1 \in Int /\ v.accum * 10 + c \in Int
      BY <1>1 DEF Turns
    <2> HIDE DEF o
    <2>2. [segs |-> v.segs, chcnt |-> v.chcnt + 1, accum |-> v.accum * 10 + c, ok |-> o]
            \in Turns
      BY <2>1 DEF Turns
    <2> QED
      BY <2>2 DEF Digit, o
  <1>4. [v EXCEPT !.ok = FALSE] \in Turns
    BY DEF Turns
  <1>5. Character(v, c) \in {v, Segment(v), Digit(v, c), [v EXCEPT !.ok = FALSE]}
    BY DEF Character
  <1> QED
    BY <1>2, <1>3, <1>4, <1>5

LEMMA LoopIs ==
  ASSUME NEW str \in Seq(Characters)
  PROVE  /\ Len(str) \in Nat
         /\ Loop(str) \in [0..Len(str) -> Turns]
         /\ Loop(str)[0] = Begun
         /\ \A k \in 1..Len(str) : Loop(str)[k] = Character(Loop(str)[k - 1], str[k])
  <1> DEFINE n == Len(str)
             P(f) == f = [k \in 0..n |-> IF k = 0 THEN Begun ELSE Character(f[k - 1], str[k])]
             G == [p \in (1..n) \X Turns |-> Character(p[2], str[p[1]])]
  <1>1. n \in Nat /\ \A k \in 1..n : str[k] \in Characters
    OBVIOUS
  <1>2. Begun \in Turns
    BY DEF Begun, Turns
  <1>3. G \in [(1..n) \X Turns -> Turns]
    BY <1>1, CharacterTyped
  <1>4. \A k \in 1..n, v \in Turns : G[<<k, v>>] = Character(v, str[k])
    OBVIOUS
  <1>5. Loop(str) = CHOOSE f : P(f)
    BY Zenon DEF Loop, Begun
  <1> HIDE DEF n, G
  <1>6. PICK F \in [0..n -> Turns] : F[0] = Begun /\ \A k \in 1..n : F[k] = G[<<k, F[k - 1]>>]
    <2>1. /\ n \in Nat /\ Begun \in Turns
          /\ G \in [(1..n) \X Turns -> Turns]
      BY <1>1, <1>2, <1>3
    <2> HIDE DEF Begun
    <2>2. \E f \in [0..n -> Turns] : Follows(f, Begun, n, G)
      BY <2>1, Recursion, Zenon
    <2> QED
      BY <2>2 DEF Follows
  <1>7. P(F)
    <2>1. ASSUME NEW k \in 0..n
          PROVE  F[k] = IF k = 0 THEN Begun ELSE Character(F[k - 1], str[k])
      <3>1. CASE k = 0
        BY <1>6, <3>1
      <3>2. CASE k # 0
        <4>1. k \in 1..n /\ k - 1 \in 0..n
          BY <1>1, <3>2
        <4>2. F[k - 1] \in Turns
          BY <4>1
        <4> QED
          BY <1>4, <1>6, <3>2, <4>1, <4>2
      <3> QED
        BY <3>1, <3>2
    <2>2. F = [k \in 0..n |-> F[k]]
      OBVIOUS
    <2> QED
      BY <2>1, <2>2, Zenon
  <1>8. P(Loop(str))
    <2> HIDE DEF P
    <2> QED
      BY <1>5, <1>7
  <1> DEFINE v == Loop(str)
  <1>9. /\ v = [k \in 0..n |-> v[k]] /\ v[0] = Begun
        /\ \A k \in 1..n : v[k] = Character(v[k - 1], str[k])
    <2> HIDE DEF v
    <2>1. v = [k \in 0..n |-> IF k = 0 THEN Begun ELSE Character(v[k - 1], str[k])]
      BY <1>8 DEF v
    <2>2. \A k \in 0..n : v[k] = IF k = 0 THEN Begun ELSE Character(v[k - 1], str[k])
      BY <2>1
    <2>3. 0 \in 0..n /\ \A k \in 1..n : k \in 0..n /\ k # 0
      BY <1>1
    <2> QED
      BY <2>1, <2>2, <2>3
  <1> HIDE DEF P, v
  <1>10. \A k \in 0..n : v[k] \in Turns
    <2> DEFINE S == {k \in 0..n : v[k] \in Turns}
    <2>1. 0 \in S
      BY <1>1, <1>2, <1>9
    <2>2. ASSUME NEW k \in 0..(n - 1), k \in S
          PROVE  k + 1 \in S
      <3>1. k + 1 \in 1..n /\ (k + 1) - 1 = k
        BY <1>1
      <3>2. v[k + 1] = Character(v[k], str[k + 1])
        BY <1>9, <3>1
      <3> QED
        BY <1>1, <2>2, <3>1, <3>2, CharacterTyped
    <2> HIDE DEF S
    <2>3. \A k \in 0..n : k \in S
      BY <1>1, <2>1, <2>2, UpTo
    <2> QED
      BY <2>3 DEF S
  <1> QED
    BY <1>1, <1>9, <1>10 DEF v, n

LEMMA ValuesAre ==
  ASSUME NEW seg \in Seq(Int), NEW base \in Int
  PROVE  /\ Len(seg) \in Nat
         /\ Values(seg, base) \in [0..Len(seg) -> Int]
         /\ Values(seg, base)[0] = 0
         /\ \A k \in 1..Len(seg) :
              Values(seg, base)[k] = Values(seg, base)[k - 1] * base + seg[k]
  <1> DEFINE m == Len(seg)
             P(f) == f = [k \in 0..m |-> IF k = 0 THEN 0 ELSE f[k - 1] * base + seg[k]]
             G == [p \in (1..m) \X Int |-> p[2] * base + seg[p[1]]]
  <1>1. m \in Nat /\ \A k \in 1..m : seg[k] \in Int
    OBVIOUS
  <1>2. \A x \in Int, k \in 1..m : x * base + seg[k] \in Int
    <2>1. ASSUME NEW x \in Int, NEW k \in 1..m
          PROVE  x * base + seg[k] \in Int
      <3>1. x * base \in Int /\ seg[k] \in Int
        BY <1>1
      <3> QED
        BY <3>1
    <2> QED
      BY <2>1
  <1>3. G \in [(1..m) \X Int -> Int]
    BY <1>1, <1>2
  <1>4. \A k \in 1..m, x \in Int : G[<<k, x>>] = x * base + seg[k]
    OBVIOUS
  <1>5. Values(seg, base) = CHOOSE f : P(f)
    BY Zenon DEF Values
  <1> HIDE DEF m, G
  <1>6. PICK F \in [0..m -> Int] : F[0] = 0 /\ \A k \in 1..m : F[k] = G[<<k, F[k - 1]>>]
    <2>1. m \in Nat /\ 0 \in Int /\ G \in [(1..m) \X Int -> Int]
      BY <1>1, <1>3
    <2>2. \E f \in [0..m -> Int] : Follows(f, 0, m, G)
      BY <2>1, Recursion, Zenon
    <2> QED
      BY <2>2 DEF Follows
  <1>7. P(F)
    <2>1. ASSUME NEW k \in 0..m
          PROVE  F[k] = IF k = 0 THEN 0 ELSE F[k - 1] * base + seg[k]
      <3>1. CASE k = 0
        BY <1>6, <3>1
      <3>2. CASE k # 0
        <4>1. k \in 1..m /\ k - 1 \in 0..m
          BY <1>1, <3>2
        <4>2. F[k - 1] \in Int
          BY <4>1
        <4> QED
          BY <1>4, <1>6, <3>2, <4>1, <4>2
      <3> QED
        BY <3>1, <3>2
    <2>2. F = [k \in 0..m |-> F[k]]
      OBVIOUS
    <2> QED
      BY <2>1, <2>2, Zenon
  <1>8. P(Values(seg, base))
    <2> HIDE DEF P
    <2> QED
      BY <1>5, <1>7
  <1> DEFINE v == Values(seg, base)
  <1>9. /\ v = [k \in 0..m |-> v[k]] /\ v[0] = 0
        /\ \A k \in 1..m : v[k] = v[k - 1] * base + seg[k]
    <2> HIDE DEF v
    <2>1. v = [k \in 0..m |-> IF k = 0 THEN 0 ELSE v[k - 1] * base + seg[k]]
      BY <1>8 DEF v
    <2>2. \A k \in 0..m : v[k] = IF k = 0 THEN 0 ELSE v[k - 1] * base + seg[k]
      BY <2>1
    <2>3. 0 \in 0..m /\ \A k \in 1..m : k \in 0..m /\ k # 0
      BY <1>1
    <2> QED
      BY <2>1, <2>2, <2>3
  <1> HIDE DEF P, v
  <1>10. \A k \in 0..m : v[k] \in Int
    <2> DEFINE S == {k \in 0..m : v[k] \in Int}
    <2>1. 0 \in S
      BY <1>1, <1>9
    <2>2. ASSUME NEW k \in 0..(m - 1), k \in S
          PROVE  k + 1 \in S
      <3>1. k + 1 \in 1..m /\ (k + 1) - 1 = k
        BY <1>1
      <3>2. v[k + 1] = v[k] * base + seg[k + 1]
        BY <1>9, <3>1
      <3> QED
        BY <1>1, <1>2, <2>2, <3>1, <3>2
    <2> HIDE DEF S
    <2>3. \A k \in 0..m : k \in S
      BY <1>1, <2>1, <2>2, UpTo
    <2> QED
      BY <2>3 DEF S
  <1> QED
    BY <1>1, <1>9, <1>10 DEF v, m

\* A segment of digits: its values grow, and those to the base 8 are the smaller ones.
LEMMA ValuesGrow ==
  ASSUME NEW seg \in Seq(0..9), NEW base \in {8, 10}
  PROVE  /\ \A k \in 0..Len(seg) : /\ Values(seg, base)[k] \in Nat
                                   /\ Values(seg, base)[k] <= Values(seg, 10)[k]
         /\ \A k \in 0..Len(seg) : Values(seg, base)[k] <= Values(seg, base)[Len(seg)]
  <1> DEFINE m == Len(seg)
             v == Values(seg, base)
             w == Values(seg, 10)
  <1>1. /\ m \in Nat /\ v \in [0..m -> Int] /\ w \in [0..m -> Int]
        /\ v[0] = 0 /\ w[0] = 0
        /\ \A k \in 1..m : v[k] = v[k - 1] * base + seg[k]
        /\ \A k \in 1..m : w[k] = w[k - 1] * 10 + seg[k]
    <2>1. seg \in Seq(Int) /\ base \in Int /\ 10 \in Int
      OBVIOUS
    <2> QED
      BY <2>1, ValuesAre
  <1>2. \A k \in 1..m : seg[k] \in 0..9
    OBVIOUS
  <1> HIDE DEF m, v, w
  <1> DEFINE S == {k \in 0..m : v[k] >= 0 /\ v[k] <= w[k]}
  <1>3. ASSUME NEW k \in 0..(m - 1), v[k] >= 0
        PROVE  v[k + 1] >= v[k] /\ v[k + 1] = v[k] * base + seg[k + 1]
               /\ w[k + 1] = w[k] * 10 + seg[k + 1] /\ seg[k + 1] \in 0..9
    <2>1. k + 1 \in 1..m /\ (k + 1) - 1 = k /\ k \in 0..m /\ k + 1 \in 0..m
      BY <1>1
    <2>2. /\ v[k + 1] = v[k] * base + seg[k + 1] /\ seg[k + 1] \in 0..9 /\ v[k] \in Int
          /\ w[k + 1] = w[k] * 10 + seg[k + 1]
      BY <1>1, <1>2, <2>1
    <2>3. CASE base = 8
      BY <1>3, <2>2, <2>3
    <2>4. CASE base = 10
      BY <1>3, <2>2, <2>4
    <2> QED
      BY <2>2, <2>3, <2>4
  <1>4. \A k \in 0..m : k \in S
    <2>1. 0 \in S
      BY <1>1
    <2>2. ASSUME NEW k \in 0..(m - 1), k \in S
          PROVE  k + 1 \in S
      <3>1. /\ v[k + 1] >= v[k] /\ v[k + 1] = v[k] * base + seg[k + 1]
            /\ w[k + 1] = w[k] * 10 + seg[k + 1] /\ seg[k + 1] \in 0..9
        BY <1>3, <2>2
      <3>2. k + 1 \in 0..m /\ k \in 0..m /\ v[k] \in Int /\ w[k] \in Int
        BY <1>1
      <3>3. v[k + 1] <= w[k + 1]
        <4>1. CASE base = 8
          <5>1. v[k + 1] = v[k] * 8 + seg[k + 1]
            BY <3>1, <4>1
          <5>2. v[k] <= w[k] /\ v[k] >= 0
            BY <2>2
          <5>3. w[k + 1] = w[k] * 10 + seg[k + 1] /\ seg[k + 1] \in Int
            BY <3>1
          <5>4. v[k] \in Int /\ w[k] \in Int
            BY <3>2
          <5> QED
            BY <5>1, <5>2, <5>3, <5>4
        <4>2. CASE base = 10
          <5>1. v[k + 1] = v[k] * 10 + seg[k + 1]
            BY <3>1, <4>2
          <5>2. v[k] <= w[k] /\ v[k] >= 0
            BY <2>2
          <5>3. w[k + 1] = w[k] * 10 + seg[k + 1] /\ seg[k + 1] \in Int
            BY <3>1
          <5>4. v[k] \in Int /\ w[k] \in Int
            BY <3>2
          <5> QED
            BY <5>1, <5>2, <5>3, <5>4
        <4> QED
          BY <4>1, <4>2
      <3>4. v[k + 1] \in Int /\ v[k + 1] >= 0
        BY <1>1, <2>2, <3>1, <3>2
      <3> QED
        BY <3>2, <3>3, <3>4
    <2> HIDE DEF S
    <2> QED
      BY <1>1, <2>1, <2>2, UpTo
  \* From the end backwards: what is not above the last value, so many places before it.
  <1> DEFINE R == {d \in 0..m : v[m - d] <= v[m]}
  <1>5. \A d \in 0..m : d \in R
    <2>1. 0 \in R
      BY <1>1
    <2>2. ASSUME NEW d \in 0..(m - 1), d \in R
          PROVE  d + 1 \in R
      <3> DEFINE k == m - (d + 1)
      <3>1. /\ k \in 0..(m - 1) /\ k + 1 = m - d /\ k \in 0..m /\ k + 1 \in 0..m
            /\ d + 1 \in 0..m /\ m \in 0..m
        BY <1>1
      <3>2. v[k] >= 0 /\ v[k] \in Int /\ v[k + 1] \in Int /\ v[m] \in Int
        BY <1>1, <1>4, <3>1
      <3>3. v[k + 1] >= v[k]
        BY <1>3, <3>1, <3>2
      <3>4. v[k + 1] <= v[m]
        BY <2>2, <3>1
      <3> HIDE DEF k
      <3>5. v[k] <= v[m]
        BY <3>2, <3>3, <3>4
      <3> QED
        BY <3>1, <3>5 DEF k
    <2> HIDE DEF R
    <2> QED
      BY <1>1, <2>1, <2>2, UpTo
  <1>6. ASSUME NEW k \in 0..m
        PROVE  v[k] <= v[m]
    <2>1. m - k \in 0..m /\ m - (m - k) = k
      BY <1>1
    <2>2. m - k \in R
      BY <1>5, <2>1
    <2> QED
      BY <2>1, <2>2
  <1>7. \A k \in 0..m : v[k] \in Nat /\ v[k] <= w[k]
    BY <1>1, <1>4
  <1> QED
    BY <1>6, <1>7 DEF v, w, m

-----------------------------------------------------------------------------
(* The dots and the segments between them.                                 *)

Before(str, k) == Cardinality({j \in Dots(str) : j < k})

LEMMA DotsCounted ==
  ASSUME NEW str \in Seq(Characters)
  PROVE  /\ Len(str) \in Nat
         /\ Before(str, 1) = 0
         /\ Before(str, Len(str) + 1) = Cardinality(Dots(str))
         /\ \A k \in 1..(Len(str) + 1) : Before(str, k) \in Nat
         /\ \A k \in 1..Len(str) :
              Before(str, k + 1) = IF str[k] = Dot THEN Before(str, k) + 1 ELSE Before(str, k)
  <1> DEFINE n == Len(str)
             B(k) == {j \in Dots(str) : j < k}
  <1>1. n \in Nat
    OBVIOUS
  <1>2. \A k \in 1..(n + 1) : IsFiniteSet(B(k)) /\ Cardinality(B(k)) \in Nat
    <2>1. IsFiniteSet(1..n)
      BY <1>1, FS_Interval
    <2>2. \A k \in 1..(n + 1) : B(k) \subseteq 1..n
      BY DEF Dots
    <2> HIDE DEF B
    <2> QED
      BY <2>1, <2>2, FS_Subset, FS_CardinalityType
  <1>3. B(1) = {}
    BY <1>1 DEF Dots
  <1>4. B(n + 1) = Dots(str)
    BY <1>1 DEF Dots
  <1>5. ASSUME NEW k \in 1..n
        PROVE  Cardinality(B(k + 1)) =
                 IF str[k] = Dot THEN Cardinality(B(k)) + 1 ELSE Cardinality(B(k))
    <2>1. CASE str[k] = Dot
      <3>1. B(k + 1) = B(k) \cup {k} /\ k \notin B(k)
        BY <1>1, <2>1 DEF Dots
      <3>2. k \in 1..(n + 1)
        BY <1>1
      <3> HIDE DEF B
      <3>3. Cardinality(B(k) \cup {k}) = Cardinality(B(k)) + 1
        BY <1>2, <3>1, <3>2, FS_AddElement
      <3> QED
        BY <2>1, <3>1, <3>3
    <2>2. CASE str[k] # Dot
      <3>1. B(k + 1) = B(k)
        BY <1>1, <2>2 DEF Dots
      <3> HIDE DEF B
      <3> QED
        BY <2>2, <3>1
    <2> QED
      BY <2>1, <2>2
  <1>6. Cardinality({}) = 0
    BY FS_EmptySet
  <1>7. \A k : Before(str, k) = Cardinality(B(k))
    BY DEF Before
  <1> HIDE DEF B
  <1> QED
    BY <1>1, <1>2, <1>3, <1>4, <1>5, <1>6, <1>7

\* A later position has no fewer dots before it, and one more if the earlier one is one.
LEMMA BeforeGrows ==
  ASSUME NEW str \in Seq(Characters), NEW i \in 1..(Len(str) + 1),
         NEW j \in 1..(Len(str) + 1), i <= j
  PROVE  /\ Before(str, i) <= Before(str, j)
         /\ i < j /\ str[i] = Dot => Before(str, i) + 1 <= Before(str, j)
  <1> DEFINE n == Len(str)
             B(k) == Before(str, k)
  <1>1. /\ n \in Nat
        /\ \A k \in 1..(n + 1) : B(k) \in Nat
        /\ \A k \in 1..n : B(k + 1) = IF str[k] = Dot THEN B(k) + 1 ELSE B(k)
    BY DotsCounted
  <1> HIDE DEF B, n
  <1>2. i \in 1..(n + 1) /\ j \in 1..(n + 1)
    BY DEF n
  <1>3. ASSUME NEW p \in 1..(n + 1), p <= j
        PROVE  B(p) <= B(j)
    <2> DEFINE S == {d \in 0..(j - p) : B(p) <= B(p + d)}
    <2>1. 0 \in S
      BY <1>1, <1>2, <1>3
    <2>2. ASSUME NEW d \in 0..((j - p) - 1), d \in S
          PROVE  d + 1 \in S
      <3>1. /\ p + d \in 1..n /\ p + (d + 1) = (p + d) + 1 /\ p + d \in 1..(n + 1)
            /\ p + (d + 1) \in 1..(n + 1) /\ d + 1 \in 0..(j - p)
        BY <1>1, <1>2, <1>3
      <3>2. B(p + d) \in Nat /\ B(p) \in Nat /\ B(p) <= B(p + d)
        BY <1>1, <2>2, <3>1
      <3>3. B((p + d) + 1) = IF str[p + d] = Dot THEN B(p + d) + 1 ELSE B(p + d)
        BY <1>1, <3>1
      <3>4. B(p) <= B(p + (d + 1))
        BY <3>1, <3>2, <3>3
      <3> QED
        BY <3>1, <3>4
    <2>3. j - p \in Nat /\ j - p \in 0..(j - p) /\ p + (j - p) = j
      BY <1>1, <1>2, <1>3
    <2> HIDE DEF S
    <2>4. j - p \in S
      BY <2>1, <2>2, <2>3, UpTo
    <2> QED
      BY <2>3, <2>4 DEF S
  <1>4. B(i) <= B(j)
    BY <1>2, <1>3
  <1>5. ASSUME i < j, str[i] = Dot
        PROVE  B(i) + 1 <= B(j)
    <2>1. i \in 1..n /\ i + 1 \in 1..(n + 1) /\ i + 1 <= j
      BY <1>1, <1>2, <1>5
    <2>2. B(i + 1) = B(i) + 1
      BY <1>1, <1>5, <2>1
    <2> QED
      BY <1>3, <2>1, <2>2
  <1> QED
    BY <1>4, <1>5 DEF B

ThreeDots(str) == Cardinality(Dots(str)) = 3

\* Where there are three dots each segment has its end, and the segments follow one
\* another without a dot in them.
LEMMA EndExists ==
  ASSUME NEW str \in Seq(Characters), ThreeDots(str), NEW b \in Bytes
  PROVE  /\ EndOf(str, b) \in Dots(str) \cup {Len(str) + 1}
         /\ Before(str, EndOf(str, b)) = b - 1
  <1> DEFINE n == Len(str)
             Is(k) == k \in Dots(str) \cup {n + 1} /\ Before(str, k) = b - 1
  <1>1. /\ n \in Nat
        /\ Before(str, 1) = 0 /\ Before(str, n + 1) = 3
        /\ \A k \in 1..(n + 1) : Before(str, k) \in Nat
        /\ \A k \in 1..n : Before(str, k + 1) =
             IF str[k] = Dot THEN Before(str, k) + 1 ELSE Before(str, k)
    BY DotsCounted DEF ThreeDots
  <1>2. b \in 1..4
    BY DEF Bytes
  <1> HIDE DEF n
  <1>3. \E k : Is(k)
    <2>1. CASE b = 4
      BY <1>1, <2>1
    <2>2. CASE b # 4
      <3> DEFINE T == {k \in 1..(n + 1) : Before(str, k) >= b}
      <3>1. PICK x \in T : \A y \in T : x <= y
        <4>1. T \subseteq Nat
          OBVIOUS
        <4>2. n + 1 \in T
          BY <1>1, <1>2, <2>2
        <4> HIDE DEF T
        <4> QED
          BY <4>1, <4>2, LeastOf
      <3>2. x \in 1..(n + 1) /\ Before(str, x) >= b /\ Before(str, x) \in Nat
        BY <1>1, <3>1
      <3>3. x # 1
        BY <1>1, <1>2, <3>2
      <3>4. /\ x - 1 \in 1..n /\ (x - 1) + 1 = x /\ x - 1 \in 1..(n + 1) /\ ~(x <= x - 1)
        BY <1>1, <3>2, <3>3
      <3>5. x - 1 \notin T
        BY <3>1, <3>4
      <3>6. Before(str, x - 1) < b /\ Before(str, x - 1) \in Nat
        BY <1>1, <1>2, <3>4, <3>5
      <3>7. Before(str, x) = IF str[x - 1] = Dot THEN Before(str, x - 1) + 1
                             ELSE Before(str, x - 1)
        BY <1>1, <3>4
      <3>8. str[x - 1] = Dot /\ Before(str, x - 1) = b - 1
        BY <1>2, <3>2, <3>6, <3>7
      <3>9. x - 1 \in Dots(str)
        BY <3>4, <3>8 DEF Dots, n
      <3> QED
        BY <3>8, <3>9
    <2> QED
      BY <2>1, <2>2
  <1>4. EndOf(str, b) = CHOOSE k \in Dots(str) \cup {n + 1} :
                          Cardinality({j \in Dots(str) : j < k}) = b - 1
    <2>1. b # 0
      BY <1>2
    <2> QED
      BY <2>1, Zenon DEF EndOf, n
  <1>5. EndOf(str, b) = CHOOSE k \in Dots(str) \cup {n + 1} : Before(str, k) = b - 1
    BY <1>4, Zenon DEF Before
  <1>6. Is(CHOOSE k \in Dots(str) \cup {n + 1} : Before(str, k) = b - 1)
    BY <1>3, Zenon
  <1> QED
    BY <1>5, <1>6, Zenon DEF n

LEMMA EndsAre ==
  ASSUME NEW str \in Seq(Characters), ThreeDots(str), NEW b \in Bytes
  PROVE  /\ EndOf(str, b - 1) \in 0..Len(str)
         /\ EndOf(str, b) \in 1..(Len(str) + 1)
         /\ EndOf(str, b - 1) < EndOf(str, b)
         /\ b = 4 => EndOf(str, b) = Len(str) + 1
         /\ b # 4 => EndOf(str, b) \in Dots(str)
         /\ \A k \in (EndOf(str, b - 1) + 1)..(EndOf(str, b) - 1) : str[k] # Dot
         /\ \A k \in (EndOf(str, b - 1) + 1)..EndOf(str, b) : Before(str, k) = b - 1
  <1> DEFINE n == Len(str)
             s == EndOf(str, b - 1)
             e == EndOf(str, b)
  <1>1. /\ n \in Nat
        /\ Before(str, 1) = 0 /\ Before(str, n + 1) = 3
        /\ \A k \in 1..(n + 1) : Before(str, k) \in Nat
    BY DotsCounted DEF ThreeDots
  <1>2. b \in 1..4
    BY DEF Bytes
  <1>3. Dots(str) = {k \in 1..n : str[k] = Dot}
    BY DEF Dots
  <1>4. /\ \A i, j \in 1..(n + 1) : i <= j => Before(str, i) <= Before(str, j)
        /\ \A i, j \in 1..(n + 1) : i < j /\ str[i] = Dot =>
             Before(str, i) + 1 <= Before(str, j)
    <2>1. ASSUME NEW i \in 1..(n + 1), NEW j \in 1..(n + 1), i <= j
          PROVE  /\ Before(str, i) <= Before(str, j)
                 /\ i < j /\ str[i] = Dot => Before(str, i) + 1 <= Before(str, j)
      BY <2>1, BeforeGrows
    <2>2. \A i, j \in 1..(n + 1) : i < j => i <= j
      BY <1>1
    <2> HIDE DEF n
    <2> QED
      BY <2>1, <2>2
  <1>5. e \in Dots(str) \cup {n + 1} /\ Before(str, e) = b - 1
    BY EndExists
  <1>6. b # 1 => s \in Dots(str) \cup {n + 1} /\ Before(str, s) = b - 2
    <2>1. SUFFICES ASSUME b # 1
                   PROVE  s \in Dots(str) \cup {n + 1} /\ Before(str, s) = b - 2
      OBVIOUS
    <2>2. b - 1 \in Bytes /\ (b - 1) - 1 = b - 2
      BY <1>2, <2>1 DEF Bytes
    <2> QED
      BY <2>2, EndExists
  <1>7. b = 1 => s = 0
    BY DEF EndOf
  <1> HIDE DEF n, s, e
  <1>8. e \in 1..(n + 1)
    BY <1>1, <1>3, <1>5
  <1>9. b # 1 => s \in Dots(str) /\ s \in 1..n
    <2>1. SUFFICES ASSUME b # 1
                   PROVE  s \in Dots(str) /\ s \in 1..n
      OBVIOUS
    <2>2. s # n + 1
      BY <1>1, <1>2, <1>6, <2>1
    <2> QED
      BY <1>3, <1>6, <2>1, <2>2
  <1>10. s \in 0..n /\ s < e
    <2>1. CASE b = 1
      BY <1>1, <1>7, <1>8, <2>1
    <2>2. CASE b # 1
      <3>1. s \in 1..(n + 1) /\ s \in 0..n
        BY <1>1, <1>9, <2>2
      <3>2. ~(e <= s)
        <4>1. SUFFICES ASSUME e <= s PROVE FALSE
          OBVIOUS
        <4>2. b - 1 <= b - 2
          BY <1>4, <1>5, <1>6, <1>8, <2>2, <3>1, <4>1
        <4> QED
          BY <1>2, <4>2
      <3> QED
        BY <1>1, <1>8, <3>1, <3>2
    <2> QED
      BY <2>1, <2>2
  <1>11. ASSUME NEW k \in (s + 1)..e
         PROVE  Before(str, k) = b - 1
    <2>1. k \in 1..(n + 1) /\ k <= e /\ s < k
      BY <1>1, <1>8, <1>10
    <2>2. Before(str, k) <= b - 1 /\ Before(str, k) \in Nat
      BY <1>1, <1>4, <1>5, <1>8, <2>1
    <2>3. Before(str, k) >= b - 1
      <3>1. CASE b = 1
        BY <2>2, <3>1
      <3>2. CASE b # 1
        <4>1. s \in 1..(n + 1) /\ str[s] = Dot
          BY <1>1, <1>3, <1>9, <3>2
        <4>2. (b - 2) + 1 <= Before(str, k)
          BY <1>4, <1>6, <2>1, <3>2, <4>1
        <4> QED
          BY <1>2, <2>2, <4>2
      <3> QED
        BY <3>1, <3>2
    <2> QED
      BY <1>2, <2>2, <2>3
  <1>12. ASSUME NEW k \in (s + 1)..(e - 1), str[k] = Dot
         PROVE  FALSE
    <2>1. k \in 1..(n + 1) /\ k < e /\ k \in (s + 1)..e
      BY <1>1, <1>8, <1>10
    <2>2. Before(str, k) = b - 1
      BY <1>11, <2>1
    <2>3. Before(str, k) + 1 <= Before(str, e)
      BY <1>4, <1>8, <1>12, <2>1
    <2> QED
      BY <1>2, <1>5, <2>2, <2>3
  <1>13. b = 4 => e = n + 1
    <2>1. SUFFICES ASSUME b = 4, e # n + 1 PROVE FALSE
      OBVIOUS
    <2>2. e \in 1..n /\ str[e] = Dot /\ e \in 1..(n + 1) /\ n + 1 \in 1..(n + 1) /\ e < n + 1
      BY <1>1, <1>3, <1>5, <2>1
    <2>3. Before(str, e) + 1 <= Before(str, n + 1)
      BY <1>4, <2>2
    <2> QED
      BY <1>1, <1>5, <2>1, <2>3
  <1>14. b # 4 => e \in Dots(str)
    <2>1. SUFFICES ASSUME b # 4, e = n + 1 PROVE FALSE
      BY <1>5
    <2> QED
      BY <1>1, <1>2, <1>5, <2>1
  <1> QED
    BY <1>8, <1>10, <1>11, <1>12, <1>13, <1>14 DEF n, s, e

\* A segment is the piece between its two ends, and of digits if there are no letters.
LEMMA SegmentIs ==
  ASSUME NEW str \in Seq(Characters), ThreeDots(str), NEW b \in Bytes
  PROVE  /\ SegmentOf(str, b) \in Seq(Int)
         /\ Len(SegmentOf(str, b)) = (EndOf(str, b) - EndOf(str, b - 1)) - 1
         /\ Len(SegmentOf(str, b)) \in Nat
         /\ \A i \in 1..Len(SegmentOf(str, b)) :
              SegmentOf(str, b)[i] = str[EndOf(str, b - 1) + i]
         /\ (\A k \in 1..Len(str) : str[k] # Letter) => SegmentOf(str, b) \in Seq(0..9)
  <1> DEFINE n == Len(str)
             s == EndOf(str, b - 1)
             e == EndOf(str, b)
             seg == SubSeq(str, s + 1, e - 1)
  <1>1. /\ n \in Nat /\ s \in 0..n /\ e \in 1..(n + 1) /\ s < e
        /\ \A k \in (s + 1)..(e - 1) : str[k] # Dot
    BY EndsAre
  <1>2. \A k \in 1..n : str[k] \in Characters
    OBVIOUS
  <1>3. seg = SegmentOf(str, b)
    BY DEF SegmentOf
  <1> HIDE DEF n, s, e
  <1>4. s + 1 \in Int /\ e - 1 \in Int /\ \A k \in (s + 1)..(e - 1) : k \in 1..n
    BY <1>1
  <1>5. \A k \in (s + 1)..(e - 1) : str[k] \in Int
    BY <1>2, <1>4 DEF Characters, Dot, Letter
  <1>6. /\ seg \in Seq(Int)
        /\ Len(seg) = IF s + 1 <= e - 1 THEN ((e - 1) - (s + 1)) + 1 ELSE 0
        /\ \A i \in 1..(((e - 1) - (s + 1)) + 1) : seg[i] = str[((s + 1) + i) - 1]
    BY <1>4, <1>5, SubSeqProperties
  <1> HIDE DEF seg
  <1>7. Len(seg) = (e - s) - 1 /\ Len(seg) \in Nat
    BY <1>1, <1>6
  <1>8. ASSUME NEW i \in 1..Len(seg)
        PROVE  seg[i] = str[s + i]
    <2>1. i \in 1..(((e - 1) - (s + 1)) + 1) /\ ((s + 1) + i) - 1 = s + i
      BY <1>1, <1>7
    <2> QED
      BY <1>6, <2>1
  <1>9. ASSUME \A k \in 1..n : str[k] # Letter
        PROVE  seg \in Seq(0..9)
    <2>1. \A k \in (s + 1)..(e - 1) : str[k] \in 0..9
      <3>1. \A k \in 1..n : str[k] # Dot => str[k] \in 0..9
        BY <1>2, <1>9 DEF Characters
      <3> QED
        BY <1>1, <1>4, <3>1
    <2> QED
      BY <1>4, <2>1, SubSeqProperties DEF seg
  <1> QED
    BY <1>3, <1>6, <1>7, <1>8, <1>9 DEF n, s, e

-----------------------------------------------------------------------------
(* The loop.                                                               *)

\* The cases of one turn, as far as they are needed.
LEMMA TurnIs ==
  ASSUME NEW v \in Turns, NEW c \in Characters
  PROVE  /\ Character(v, c).ok => v.ok
         /\ v.ok /\ c = Letter => ~Character(v, c).ok
         /\ v.ok /\ c = Dot =>
              /\ Character(v, c).segs = v.segs + 1
              /\ Character(v, c).chcnt = 0 /\ Character(v, c).accum = 0
              /\ Character(v, c).ok <=> v.chcnt # 0 /\ v.segs + 1 # 4
         /\ v.ok /\ c \in 0..9 =>
              /\ Character(v, c).segs = v.segs
              /\ Character(v, c).chcnt = v.chcnt + 1
              /\ Character(v, c).accum = v.accum * 10 + c
              /\ Character(v, c).ok <=> v.accum * 10 + c <= 255
  <1>1. v = [segs |-> v.segs, chcnt |-> v.chcnt, accum |-> v.accum, ok |-> v.ok]
        /\ v.ok \in BOOLEAN
    BY DEF Turns
  <1>2. c = Dot \/ c = Letter \/ c \in 0..9
    BY DEF Characters
  <1>3. CASE ~v.ok
    <2>1. Character(v, c) = v
      BY <1>3 DEF Character
    <2> QED
      BY <1>3, <2>1
  <1>4. CASE v.ok /\ c = Dot
    <2>1. c # Letter /\ c \notin 0..9
      BY <1>4 DEF Dot, Letter
    <2>2. Character(v, c) = Segment(v)
      BY <1>4, <2>1, Zenon DEF Character
    <2>3. Segment(v).segs = v.segs + 1 /\ Segment(v).chcnt = 0 /\ Segment(v).accum = 0
      BY Zenon DEF Segment
    <2>4. Segment(v).ok <=> v.chcnt # 0 /\ v.segs + 1 # 4
      BY Zenon DEF Segment
    <2> QED
      BY <1>4, <2>1, <2>2, <2>3, <2>4, Zenon
  <1>5. CASE v.ok /\ c = Letter
    <2>1. c # Dot /\ c \notin 0..9
      BY <1>5 DEF Dot, Letter
    <2>2. Character(v, c) = [v EXCEPT !.ok = FALSE]
      BY <1>5, <2>1 DEF Character
    <2>3. ~[v EXCEPT !.ok = FALSE].ok
      BY <1>1
    <2> QED
      BY <1>5, <2>1, <2>2, <2>3
  <1>6. CASE v.ok /\ c \in 0..9
    <2>1. c # Dot /\ c # Letter
      BY <1>6 DEF Dot, Letter
    <2>2. Character(v, c) = Digit(v, c)
      BY <1>6, <2>1 DEF Character
    <2>3. /\ Digit(v, c).segs = v.segs /\ Digit(v, c).chcnt = v.chcnt + 1
          /\ Digit(v, c).accum = v.accum * 10 + c
      BY Zenon DEF Digit
    <2>4. Digit(v, c).ok <=> v.accum * 10 + c <= 255
      BY Zenon DEF Digit
    <2> QED
      BY <1>6, <2>1, <2>2, <2>3, <2>4, Zenon
  <1> QED
    BY <1>1, <1>2, <1>3, <1>4, <1>5, <1>6

\* Once it has returned it has returned.
LEMMA OkBefore ==
  ASSUME NEW str \in Seq(Characters), Loop(str)[Len(str)].ok, NEW k \in 0..Len(str)
  PROVE  Loop(str)[k].ok
  <1> DEFINE n == Len(str)
             v == Loop(str)
             S == {d \in 0..n : v[n - d].ok}
  <1>1. /\ n \in Nat /\ v \in [0..n -> Turns]
        /\ \A i \in 1..n : v[i] = Character(v[i - 1], str[i])
    BY LoopIs
  <1>2. \A i \in 1..n : str[i] \in Characters
    OBVIOUS
  <1>3. v[n].ok /\ k \in 0..n
    OBVIOUS
  <1> HIDE DEF n, v
  <1>4. 0 \in S
    BY <1>1, <1>3
  <1>5. ASSUME NEW d \in 0..(n - 1), d \in S
        PROVE  d + 1 \in S
    <2>1. n - d \in 1..n /\ (n - d) - 1 = n - (d + 1) /\ n - (d + 1) \in 0..n /\ d + 1 \in 0..n
      BY <1>1
    <2>2. v[n - d] = Character(v[n - (d + 1)], str[n - d]) /\ v[n - (d + 1)] \in Turns
      BY <1>1, <2>1
    <2>3. v[n - d].ok
      BY <1>5
    <2>4. Character(v[n - (d + 1)], str[n - d]).ok => v[n - (d + 1)].ok
      BY <1>2, <2>1, <2>2, TurnIs
    <2> QED
      BY <2>1, <2>2, <2>3, <2>4
  <1> HIDE DEF S
  <1>6. n - k \in 0..n /\ n - (n - k) = k
    BY <1>1, <1>3
  <1>7. n - k \in S
    BY <1>1, <1>4, <1>5, <1>6, UpTo
  <1> QED
    BY <1>6, <1>7 DEF S, v, n

\* What the loop has found when it has come through.
LEMMA ComeThrough ==
  ASSUME NEW str \in Seq(Characters), Loop(str)[Len(str)].ok
  PROVE  /\ \A k \in 0..Len(str) :
              Loop(str)[k].segs = Before(str, k + 1) /\ Loop(str)[k].accum <= 255
         /\ \A k \in 1..Len(str) : str[k] # Letter
  <1> DEFINE n == Len(str)
             v == Loop(str)
             S == {k \in 0..n : v[k].segs = Before(str, k + 1) /\ v[k].accum <= 255}
  <1>1. /\ n \in Nat /\ v \in [0..n -> Turns] /\ v[0] = Begun
        /\ \A k \in 1..n : v[k] = Character(v[k - 1], str[k])
    BY LoopIs
  <1>2. /\ Before(str, 1) = 0
        /\ \A k \in 1..n : Before(str, k + 1) =
             IF str[k] = Dot THEN Before(str, k) + 1 ELSE Before(str, k)
    BY DotsCounted
  <1>3. \A k \in 1..n : str[k] \in Characters
    OBVIOUS
  <1>4. \A k \in 0..n : v[k].ok
    BY OkBefore
  <1> HIDE DEF n, v
  <1>5. ASSUME NEW k \in 1..n
        PROVE  /\ k - 1 \in 0..n /\ v[k - 1] \in Turns /\ v[k - 1].ok /\ v[k].ok
               /\ v[k] = Character(v[k - 1], str[k])
               /\ str[k] \in Characters /\ str[k] # Letter
               /\ str[k] # Dot => str[k] \in 0..9
    <2>1. k - 1 \in 0..n /\ k \in 0..n
      BY <1>1
    <2>2. v[k - 1] \in Turns /\ v[k - 1].ok /\ v[k].ok /\ v[k] = Character(v[k - 1], str[k])
      BY <1>1, <1>4, <2>1
    <2>3. str[k] # Letter
      BY <1>3, <2>2, TurnIs
    <2>4. str[k] # Dot => str[k] \in 0..9
      BY <1>3, <2>3 DEF Characters
    <2> QED
      BY <1>3, <2>1, <2>2, <2>3, <2>4
  <1>6. 0 \in S
    BY <1>1, <1>2 DEF Begun
  <1>7. ASSUME NEW k \in 0..(n - 1), k \in S
        PROVE  k + 1 \in S
    <2>1. k + 1 \in 1..n /\ (k + 1) - 1 = k /\ k + 1 \in 0..n
      BY <1>1
    <2>2. /\ v[k] \in Turns /\ v[k].ok /\ v[k + 1].ok
          /\ v[k + 1] = Character(v[k], str[k + 1])
          /\ str[k + 1] \in Characters
          /\ str[k + 1] # Dot => str[k + 1] \in 0..9
      BY <1>5, <2>1
    <2>3. v[k].segs = Before(str, k + 1) /\ v[k].accum <= 255
      BY <1>7
    <2>4. Before(str, (k + 1) + 1) = IF str[k + 1] = Dot THEN Before(str, k + 1) + 1
                                     ELSE Before(str, k + 1)
      BY <1>2, <2>1
    <2>5. v[k + 1].segs = Before(str, (k + 1) + 1) /\ v[k + 1].accum <= 255
      <3>1. CASE str[k + 1] = Dot
        <4>1. v[k + 1].segs = v[k].segs + 1 /\ v[k + 1].accum = 0
          BY <2>2, <3>1, TurnIs
        <4> QED
          BY <2>3, <2>4, <3>1, <4>1
      <3>2. CASE str[k + 1] # Dot
        <4>1. /\ v[k + 1].segs = v[k].segs
              /\ v[k + 1].accum = v[k].accum * 10 + str[k + 1]
              /\ v[k].accum * 10 + str[k + 1] <= 255
          BY <2>2, <3>2, TurnIs
        <4> QED
          BY <2>3, <2>4, <3>2, <4>1
      <3> QED
        BY <3>1, <3>2
    <2> QED
      BY <2>1, <2>5
  <1> HIDE DEF S
  <1>8. \A k \in 0..n : k \in S
    BY <1>1, <1>6, <1>7, UpTo
  <1>9. /\ \A k \in 0..n : v[k].segs = Before(str, k + 1) /\ v[k].accum <= 255
        /\ \A k \in 1..n : str[k] # Letter
    BY <1>5, <1>8 DEF S
  <1> QED
    BY <1>9 DEF v, n

\* After k characters the loop is in the b-th segment and has its number so far.
At(str, k, b) ==
  /\ b \in Bytes /\ EndOf(str, b - 1) <= k /\ k < EndOf(str, b)
  /\ Loop(str)[k].segs = b - 1
  /\ Loop(str)[k].chcnt = k - EndOf(str, b - 1)
  /\ Loop(str)[k].accum = Values(SegmentOf(str, b), 10)[k - EndOf(str, b - 1)]

NoLetters(str) == \A k \in 1..Len(str) : str[k] # Letter

LEMMA AtStart ==
  ASSUME NEW str \in Seq(Characters), ThreeDots(str)
  PROVE  At(str, 0, 1) /\ Loop(str)[0].ok
  <1>1. 1 \in Bytes /\ 1 - 1 = 0 /\ EndOf(str, 0) = 0
    BY DEF Bytes, EndOf
  <1>2. Loop(str)[0] = Begun
    BY LoopIs
  <1>3. EndOf(str, 0) < EndOf(str, 1)
    BY <1>1, EndsAre
  <1>4. SegmentOf(str, 1) \in Seq(Int)
    BY <1>1, SegmentIs
  <1>5. Values(SegmentOf(str, 1), 10)[0] = 0
    BY <1>4, ValuesAre
  <1> QED
    BY <1>1, <1>2, <1>3, <1>5 DEF At, Begun

LEMMA AtDot ==
  ASSUME NEW str \in Seq(Characters), ThreeDots(str), NEW k \in 1..Len(str), NEW b \in Bytes,
         At(str, k - 1, b), Loop(str)[k - 1].ok, str[k] = Dot
  PROVE  /\ k = EndOf(str, b) /\ b # 4
         /\ At(str, k, b + 1)
         /\ Loop(str)[k].ok <=> SegmentOf(str, b) # <<>>
  <1> DEFINE n == Len(str)
             v == Loop(str)
             s == EndOf(str, b - 1)
             e == EndOf(str, b)
  <1>1. /\ n \in Nat /\ v \in [0..n -> Turns] /\ k \in 1..n
        /\ v[k] = Character(v[k - 1], str[k])
    BY LoopIs
  <1>2. /\ s \in 0..n /\ e \in 1..(n + 1) /\ s < e
        /\ \A i \in (s + 1)..(e - 1) : str[i] # Dot
        /\ b = 4 => e = n + 1
    BY EndsAre
  <1>3. /\ SegmentOf(str, b) \in Seq(Int) /\ Len(SegmentOf(str, b)) = (e - s) - 1
    BY SegmentIs
  <1>4. s <= k - 1 /\ k - 1 < e /\ v[k - 1].segs = b - 1 /\ v[k - 1].chcnt = (k - 1) - s
        /\ b \in 1..4
    BY DEF At, Bytes
  <1>5. str[k] \in Characters /\ v[k - 1].ok
    OBVIOUS
  <1> HIDE DEF n, v, s, e
  <1>6. k = e
    <2>1. SUFFICES ASSUME k # e PROVE FALSE
      OBVIOUS
    <2>2. k \in (s + 1)..(e - 1)
      BY <1>1, <1>2, <1>4, <2>1
    <2> QED
      BY <1>2, <2>2
  <1>7. b # 4
    BY <1>1, <1>2, <1>6
  <1>8. b + 1 \in Bytes /\ (b + 1) - 1 = b
    BY <1>4, <1>7 DEF Bytes
  <1>9. e < EndOf(str, b + 1) /\ SegmentOf(str, b + 1) \in Seq(Int)
    BY <1>8, EndsAre, SegmentIs DEF e
  <1>10. Values(SegmentOf(str, b + 1), 10)[0] = 0
    BY <1>9, ValuesAre
  <1>11. k - 1 \in 0..n /\ v[k - 1] \in Turns
    BY <1>1
  <1>12. /\ v[k].segs = v[k - 1].segs + 1 /\ v[k].chcnt = 0 /\ v[k].accum = 0
         /\ v[k].ok <=> v[k - 1].chcnt # 0 /\ v[k - 1].segs + 1 # 4
    BY <1>1, <1>5, <1>11, TurnIs
  <1>13. At(str, k, b + 1)
    <2>1. e - e = 0 /\ e <= e /\ (b - 1) + 1 = (b + 1) - 1
      BY <1>2, <1>4
    <2>2. v[k].segs = (b + 1) - 1 /\ v[k].chcnt = k - e
      BY <1>4, <1>6, <1>12, <2>1
    <2>3. v[k].accum = Values(SegmentOf(str, b + 1), 10)[k - e]
      BY <1>6, <1>10, <1>12, <2>1
    <2>4. EndOf(str, (b + 1) - 1) = e
      BY <1>8 DEF e
    <2> QED
      BY <1>6, <1>8, <1>9, <2>1, <2>2, <2>3, <2>4 DEF At, v
  <1>14. v[k].ok <=> (k - 1) - s # 0
    <2>1. v[k - 1].segs + 1 # 4
      BY <1>4, <1>7
    <2> QED
      BY <1>4, <1>12, <2>1
  <1>15. (k - 1) - s # 0 <=> SegmentOf(str, b) # <<>>
    <2>1. SegmentOf(str, b) = <<>> <=> Len(SegmentOf(str, b)) = 0
      BY <1>3, EmptySeq
    <2> QED
      BY <1>1, <1>2, <1>3, <1>6, <2>1
  <1> QED
    BY <1>6, <1>7, <1>13, <1>14, <1>15 DEF v, e

LEMMA AtDigit ==
  ASSUME NEW str \in Seq(Characters), ThreeDots(str), NoLetters(str), NEW k \in 1..Len(str),
         NEW b \in Bytes, At(str, k - 1, b), Loop(str)[k - 1].ok, str[k] # Dot
  PROVE  /\ At(str, k, b)
         /\ Loop(str)[k].ok <=>
              Values(SegmentOf(str, b), 10)[k - EndOf(str, b - 1)] <= 255
  <1> DEFINE n == Len(str)
             v == Loop(str)
             s == EndOf(str, b - 1)
             e == EndOf(str, b)
             seg == SegmentOf(str, b)
             w == Values(seg, 10)
  <1>1. /\ n \in Nat /\ v \in [0..n -> Turns] /\ k \in 1..n
        /\ v[k] = Character(v[k - 1], str[k])
    BY LoopIs
  <1>2. /\ s \in 0..n /\ e \in 1..(n + 1) /\ s < e
        /\ b = 4 => e = n + 1
        /\ b # 4 => e \in Dots(str)
    BY EndsAre
  <1>3. /\ seg \in Seq(Int) /\ Len(seg) = (e - s) - 1
        /\ \A i \in 1..Len(seg) : seg[i] = str[s + i]
    BY SegmentIs
  <1>4. s <= k - 1 /\ k - 1 < e /\ v[k - 1].segs = b - 1 /\ v[k - 1].chcnt = (k - 1) - s
        /\ v[k - 1].accum = w[(k - 1) - s]
    BY DEF At
  <1>5. str[k] \in 0..9 /\ str[k] \in Characters /\ v[k - 1].ok /\ b \in Int
    <2>1. str[k] \in Characters /\ str[k] # Letter
      BY DEF NoLetters
    <2> QED
      BY <2>1 DEF Characters, Bytes
  <1> HIDE DEF seg
  <1>6. /\ w \in [0..Len(seg) -> Int]
        /\ \A i \in 1..Len(seg) : w[i] = w[i - 1] * 10 + seg[i]
    <2>1. 10 \in Int
      OBVIOUS
    <2> QED
      BY <1>3, <2>1, ValuesAre, Zenon
  <1>7. k # e
    <2>1. SUFFICES ASSUME k = e PROVE FALSE
      OBVIOUS
    <2>2. e # n + 1
      BY <1>1, <2>1
    <2>3. e \in Dots(str)
      BY <1>2, <2>2
    <2> QED
      BY <2>1, <2>3 DEF Dots
  <1> HIDE DEF n, v, s, e, w
  <1>8. k < e /\ s <= k
    BY <1>1, <1>2, <1>4, <1>7
  <1>9. /\ k - s \in 1..Len(seg) /\ (k - s) - 1 = (k - 1) - s /\ s + (k - s) = k
        /\ ((k - 1) - s) + 1 = k - s
    BY <1>1, <1>2, <1>3, <1>4, <1>8
  <1>10. w[k - s] = w[(k - 1) - s] * 10 + str[k]
    BY <1>3, <1>6, <1>9
  <1>11. k - 1 \in 0..n /\ v[k - 1] \in Turns
    BY <1>1
  <1>12. /\ v[k].segs = v[k - 1].segs /\ v[k].chcnt = v[k - 1].chcnt + 1
         /\ v[k].accum = v[k - 1].accum * 10 + str[k]
         /\ v[k].ok <=> v[k - 1].accum * 10 + str[k] <= 255
    BY <1>1, <1>5, <1>11, TurnIs
  <1>13. /\ v[k].segs = b - 1 /\ v[k].chcnt = k - s /\ v[k].accum = w[k - s]
         /\ v[k].ok <=> w[k - s] <= 255
    BY <1>4, <1>9, <1>10, <1>12
  <1> QED
    BY <1>8, <1>13 DEF At, v, s, e, w, seg

\* At every position, if the segments are as they should be.
LEMMA AtAll ==
  ASSUME NEW str \in Seq(Characters), ThreeDots(str), NoLetters(str), NEW k \in 0..Len(str),
         \/ Loop(str)[Len(str)].ok
         \/ \A b \in Bytes : SegmentOf(str, b) # <<>> /\ Number(SegmentOf(str, b), 10) <= 255
  PROVE  Loop(str)[k].ok /\ \E b \in Bytes : At(str, k, b)
  <1> DEFINE n == Len(str)
             Quad == \A b \in Bytes :
                       SegmentOf(str, b) # <<>> /\ Number(SegmentOf(str, b), 10) <= 255
             S == {i \in 0..n : Loop(str)[i].ok /\ \E b \in Bytes : At(str, i, b)}
  <1>1. n \in Nat /\ k \in 0..n
    OBVIOUS
  <1>2. 0 \in S
    <2>1. 1 \in Bytes /\ 0 \in 0..n
      BY <1>1 DEF Bytes
    <2> QED
      BY <2>1, AtStart
  <1>3. ASSUME NEW i \in 0..(n - 1), i \in S
        PROVE  i + 1 \in S
    <2>1. i + 1 \in 1..n /\ (i + 1) - 1 = i /\ i + 1 \in 0..n /\ i \in Int
      BY <1>1
    <2>2. PICK b \in Bytes : At(str, i, b)
      BY <1>3
    <2>3. Loop(str)[i].ok
      BY <1>3
    <2>4. Loop(str)[n].ok => Loop(str)[i + 1].ok
      BY <2>1, OkBefore
    <2>5. CASE str[i + 1] = Dot
      <3>1. b # 4 /\ At(str, i + 1, b + 1) /\ (Loop(str)[i + 1].ok <=> SegmentOf(str, b) # <<>>)
        <4>1. At(str, (i + 1) - 1, b) /\ Loop(str)[(i + 1) - 1].ok
          BY <2>1, <2>2, <2>3
        <4> QED
          BY <2>1, <2>5, <4>1, AtDot
      <3>2. b + 1 \in Bytes
        BY <3>1 DEF Bytes
      <3> QED
        BY <2>1, <2>4, <3>1, <3>2
    <2>6. CASE str[i + 1] # Dot
      <3>1. /\ At(str, i + 1, b)
            /\ Loop(str)[i + 1].ok <=>
                 Values(SegmentOf(str, b), 10)[(i + 1) - EndOf(str, b - 1)] <= 255
        <4>1. At(str, (i + 1) - 1, b) /\ Loop(str)[(i + 1) - 1].ok
          BY <2>1, <2>2, <2>3
        <4> QED
          BY <2>1, <2>6, <4>1, AtDigit
      <3>2. Quad => Values(SegmentOf(str, b), 10)[(i + 1) - EndOf(str, b - 1)] <= 255
        <4> DEFINE seg == SegmentOf(str, b)
                   j == (i + 1) - EndOf(str, b - 1)
        <4>1. /\ seg \in Seq(0..9) /\ Len(seg) \in Nat
              /\ Len(seg) = (EndOf(str, b) - EndOf(str, b - 1)) - 1
          BY SegmentIs DEF NoLetters
        <4>2. EndOf(str, b - 1) \in 0..n /\ EndOf(str, b) \in 1..(n + 1)
          BY EndsAre
        <4>3. EndOf(str, b - 1) <= i + 1 /\ i + 1 < EndOf(str, b)
          BY <3>1 DEF At
        <4>4. j \in 0..Len(seg)
          BY <2>1, <4>1, <4>2, <4>3
        <4> HIDE DEF j, seg
        <4>5. /\ Values(seg, 10)[j] \in Nat
              /\ Values(seg, 10)[j] <= Values(seg, 10)[Len(seg)]
              /\ Values(seg, 10)[Len(seg)] \in Nat
          <5>1. 10 \in {8, 10} /\ Len(seg) \in 0..Len(seg)
            BY <4>1
          <5> QED
            BY <4>1, <4>4, <5>1, ValuesGrow
        <4>6. Quad => Values(seg, 10)[Len(seg)] <= 255
          BY DEF Number, seg
        <4>7. Quad => Values(seg, 10)[j] <= 255
          <5> HIDE DEF Quad
          <5> QED
            BY <4>5, <4>6
        <4> QED
          BY <4>7 DEF j, seg
      <3> QED
        BY <2>1, <2>4, <3>1, <3>2
    <2> QED
      BY <2>5, <2>6
  <1> HIDE DEF S
  <1>4. k \in S
    BY <1>1, <1>2, <1>3, UpTo
  <1> QED
    BY <1>4 DEF S

\* The end of a segment, in the two ways the loop meets it.
LEMMA AtEnd ==
  ASSUME NEW str \in Seq(Characters), ThreeDots(str), NEW b \in Bytes,
         NEW c \in Bytes, At(str, EndOf(str, b) - 1, c)
  PROVE  /\ c = b
         /\ Loop(str)[EndOf(str, b) - 1].chcnt = Len(SegmentOf(str, b))
         /\ Loop(str)[EndOf(str, b) - 1].accum = Number(SegmentOf(str, b), 10)
  <1> DEFINE n == Len(str)
             e == EndOf(str, b)
             s == EndOf(str, b - 1)
  <1>1. /\ s \in 0..n /\ e \in 1..(n + 1) /\ s < e /\ n \in Nat
        /\ \A k \in (s + 1)..e : Before(str, k) = b - 1
    BY EndsAre
  <1>2. /\ EndOf(str, c - 1) \in 0..n /\ EndOf(str, c) \in 1..(n + 1)
        /\ \A k \in (EndOf(str, c - 1) + 1)..EndOf(str, c) : Before(str, k) = c - 1
    BY EndsAre
  <1>3. EndOf(str, c - 1) <= e - 1 /\ e - 1 < EndOf(str, c)
    BY DEF At
  <1>4. Len(SegmentOf(str, b)) = (e - s) - 1
    BY SegmentIs
  <1>5. b \in 1..4 /\ c \in 1..4
    BY DEF Bytes
  <1> HIDE DEF e, s, n
  <1>6. c = b
    <2>1. Before(str, e) = b - 1
      BY <1>1
    <2>2. e \in (EndOf(str, c - 1) + 1)..EndOf(str, c)
      BY <1>1, <1>2, <1>3
    <2>3. Before(str, e) = c - 1
      BY <1>2, <2>2
    <2> QED
      BY <1>5, <2>1, <2>3
  <1>7. Loop(str)[e - 1].chcnt = (e - 1) - s
        /\ Loop(str)[e - 1].accum = Values(SegmentOf(str, b), 10)[(e - 1) - s]
    BY <1>6 DEF At, e, s
  <1>8. (e - 1) - s = Len(SegmentOf(str, b))
    BY <1>1, <1>4
  <1> QED
    BY <1>6, <1>7, <1>8 DEF Number, e

-----------------------------------------------------------------------------

\* isValidIp4 accepts every dotted quad and nothing else, whatever the string.
THEOREM ValidIsDottedQuad ==
  ASSUME NEW str \in Seq(Characters)
  PROVE  isValidIp4(str) <=> IsDottedQuad(str)
  <1> DEFINE n == Len(str)
             v == Loop(str)[n]
             Quad == \A b \in Bytes :
                       SegmentOf(str, b) # <<>> /\ Number(SegmentOf(str, b), 10) <= 255
  <1>1. n \in Nat /\ n \in 0..n /\ n + 1 \in Int /\ (n + 1) - 1 = n
    OBVIOUS
  <1>2. isValidIp4(str) <=> v.ok /\ v.segs = 3 /\ v.chcnt # 0
    BY Zenon DEF isValidIp4
  <1>3. IsDottedQuad(str) <=> NoLetters(str) /\ ThreeDots(str) /\ Quad
    BY Zenon DEF IsDottedQuad, NoLetters, ThreeDots
  \* Where the loop stands at the end.
  <1>4. ASSUME ThreeDots(str), v.ok, NEW c \in Bytes, At(str, n, c)
        PROVE  c = 4 /\ v.segs = 3 /\ (v.chcnt # 0 <=> SegmentOf(str, 4) # <<>>)
    <2>1. 4 \in Bytes /\ 4 \in Int
      BY DEF Bytes
    <2>2. EndOf(str, 4) = n + 1
      BY <1>4, <2>1, EndsAre
    <2>3. At(str, EndOf(str, 4) - 1, c)
      BY <1>1, <1>4, <2>2
    <2>4. c = 4 /\ v.chcnt = Len(SegmentOf(str, 4))
      <3>1. /\ c = 4
            /\ Loop(str)[EndOf(str, 4) - 1].chcnt = Len(SegmentOf(str, 4))
        BY <1>4, <2>1, <2>3, AtEnd
      <3> QED
        BY <1>1, <2>2, <3>1
    <2>5. v.segs = 4 - 1
      BY <1>4, <2>4 DEF At
    <2>6. SegmentOf(str, 4) = <<>> <=> Len(SegmentOf(str, 4)) = 0
      BY <1>4, <2>1, SegmentIs, EmptySeq
    <2> QED
      BY <2>4, <2>5, <2>6
  <1>5. ASSUME v.ok, v.segs = 3, v.chcnt # 0
        PROVE  NoLetters(str) /\ ThreeDots(str) /\ Quad
    <2>1. /\ NoLetters(str) /\ v.segs = Before(str, n + 1)
          /\ \A k \in 0..n : Loop(str)[k].ok /\ Loop(str)[k].accum <= 255
      BY <1>1, <1>5, ComeThrough, OkBefore DEF NoLetters
    <2>2. Before(str, n + 1) = Cardinality(Dots(str))
      BY DotsCounted
    <2>3. ThreeDots(str)
      BY <1>5, <2>1, <2>2 DEF ThreeDots
    <2>4. ASSUME NEW b \in Bytes
          PROVE  SegmentOf(str, b) # <<>> /\ Number(SegmentOf(str, b), 10) <= 255
      <3> DEFINE e == EndOf(str, b)
      <3>1. /\ e \in 1..(n + 1) /\ e - 1 \in 0..n /\ (e - 1) + 1 = e /\ b \in Int
            /\ b = 4 => e = n + 1
            /\ b # 4 => e \in Dots(str)
        <4>1. /\ e \in 1..(n + 1)
              /\ b = 4 => e = n + 1
              /\ b # 4 => e \in Dots(str)
          BY <2>3, EndsAre
        <4> HIDE DEF e
        <4> QED
          BY <1>1, <4>1 DEF Bytes
      <3>2. PICK c \in Bytes : At(str, e - 1, c)
        BY <1>5, <2>1, <2>3, <3>1, AtAll
      <3>3. /\ At(str, e - 1, b)
            /\ Loop(str)[e - 1].chcnt = Len(SegmentOf(str, b))
            /\ Loop(str)[e - 1].accum = Number(SegmentOf(str, b), 10)
        BY <2>3, <3>2, AtEnd
      <3>4. Number(SegmentOf(str, b), 10) <= 255
        BY <2>1, <3>1, <3>3
      <3>5. CASE b = 4
        <4>1. At(str, n, 4)
          BY <1>1, <3>1, <3>3, <3>5
        <4>2. SegmentOf(str, 4) # <<>>
          BY <1>4, <1>5, <2>3, <3>5, <4>1
        <4> QED
          BY <3>4, <3>5, <4>2
      <3>6. CASE b # 4
        <4>1. e \in 1..n /\ str[e] = Dot /\ e \in 0..n
          BY <1>1, <3>1, <3>6 DEF Dots
        <4>2. Loop(str)[e - 1].ok /\ Loop(str)[e].ok
          BY <2>1, <3>1, <4>1
        <4> HIDE DEF e
        <4>3. Loop(str)[e].ok <=> SegmentOf(str, b) # <<>>
          BY <2>3, <3>3, <4>1, <4>2, AtDot
        <4> QED
          BY <3>4, <4>2, <4>3
      <3> QED
        BY <3>5, <3>6
    <2> QED
      BY <2>1, <2>3, <2>4
  <1>6. ASSUME NoLetters(str), ThreeDots(str), Quad
        PROVE  v.ok /\ v.segs = 3 /\ v.chcnt # 0
    <2>1. v.ok /\ \E c \in Bytes : At(str, n, c)
      BY <1>1, <1>6, AtAll
    <2>2. PICK c \in Bytes : At(str, n, c)
      BY <2>1
    <2>3. 4 \in Bytes
      BY DEF Bytes
    <2>4. SegmentOf(str, 4) # <<>>
      BY <1>6, <2>3
    <2> QED
      BY <1>4, <1>6, <2>1, <2>2, <2>4
  <1> HIDE DEF v, Quad
  <1> QED
    BY <1>2, <1>3, <1>5, <1>6

\* Of an accepted string inet_aton reads four bytes, whichever numbers are octal.
THEOREM ReadsBytes ==
  ASSUME NEW str \in Seq(Characters), isValidIp4(str)
  PROVE  inet_aton(str) \in [Bytes -> 0..255]
  <1>1. IsDottedQuad(str)
    BY ValidIsDottedQuad
  <1>2. ASSUME NEW b \in Bytes
        PROVE  Number(SegmentOf(str, b), Base(SegmentOf(str, b))) \in 0..255
    <2> DEFINE seg == SegmentOf(str, b)
               base == Base(SegmentOf(str, b))
    <2>1. ThreeDots(str) /\ NoLetters(str) /\ Values(seg, 10)[Len(seg)] <= 255
      BY <1>1 DEF IsDottedQuad, ThreeDots, NoLetters, Number
    <2>2. seg \in Seq(0..9) /\ Len(seg) \in Nat
      BY <2>1, SegmentIs DEF NoLetters
    <2>3. base \in {8, 10}
      BY DEF Base
    <2> HIDE DEF seg, base
    <2>4. Len(seg) \in 0..Len(seg) /\ 10 \in {8, 10}
      BY <2>2
    <2>5. /\ Values(seg, base)[Len(seg)] \in Nat
          /\ Values(seg, base)[Len(seg)] <= Values(seg, 10)[Len(seg)]
          /\ Values(seg, 10)[Len(seg)] \in Nat
      BY <2>2, <2>3, <2>4, ValuesGrow
    <2>6. \A x, y \in Nat : x <= y /\ y <= 255 => x \in 0..255
      OBVIOUS
    <2>7. Values(seg, base)[Len(seg)] \in 0..255
      BY <2>1, <2>5, <2>6, Zenon
    <2> QED
      BY <2>7 DEF Number, seg, base
  <1> QED
    BY <1>2 DEF inet_aton
=============================================================================
