----------------------------- MODULE GF128Proofs -----------------------------
(***************************************************************************)
(* Theorems about GF128, for every width and every polynomial: the loop of *)
(* gf128_mul() multiplies polynomials modulo the field's.                  *)
(***************************************************************************)
EXTENDS GF128, FunctionTheorems, FiniteSetTheorems, WellFoundedInduction, TLAPS

LEMMA Least == ASSUME NEW T, T \subseteq Nat, T # {} PROVE \E n \in T : \A m \in T : n <= m
<1> DEFINE Less == OpToRel(<, Nat)
<1>1. IsWellFoundedOn(Less, Nat)
  BY NatLessThanWellFounded
<1>2. \A n, m \in Nat : m < n => <<m, n>> \in Less
  BY DEF OpToRel
<1> HIDE DEF Less
<1>3. PICK n \in T : \A m \in T : ~(<<m, n>> \in Less)
  BY <1>1, WFMin
<1>4. \A m \in T : ~(m < n)
  BY <1>2, <1>3
<1> QED BY <1>3, <1>4

LEMMA Induction ==
   ASSUME NEW S, 0 \in S, \A n \in Nat : n \in S => n + 1 \in S
   PROVE Nat \subseteq S
<1> SUFFICES ASSUME NEW k \in Nat, k \notin S PROVE FALSE
  OBVIOUS
<1>1. PICK n \in Nat \ S : \A m \in Nat \ S : n <= m
  BY Least
<1>2. n # 0 /\ n - 1 \in Nat /\ n - 1 \in S
  BY <1>1
<1>3. (n - 1) + 1 \in S
  BY <1>2
<1> QED BY <1>1, <1>3

Iterates(f, T, a, g) ==
    f \in [Nat -> T] /\ f[0] = a /\ \A n \in Nat : f[n + 1] = g[n][f[n]]

LEMMA Recursion ==
    ASSUME NEW T, NEW a \in T, NEW g \in [Nat -> [T -> T]]
    PROVE  \E f : Iterates(f, T, a, g)
<1> DEFINE Upto(n, f) == f \in [0..n -> T] /\ f[0] = a /\ \A k \in 0..n-1 : f[k + 1] = g[k][f[k]]
           S == {n \in Nat : \E f : Upto(n, f)}
<1>1. \A n \in Nat : \E f : Upto(n, f)
  <2>1. 0 \in S
    <3>1. Upto(0, [k \in 0..0 |-> a])
      OBVIOUS
    <3> QED BY <3>1
  <2>2. ASSUME NEW n \in Nat, n \in S PROVE n + 1 \in S
    <3>1. PICK f : Upto(n, f)
      BY <2>2
    <3> DEFINE h == [k \in 0..n+1 |-> IF k = n + 1 THEN g[n][f[n]] ELSE f[k]]
    <3>2. h \in [0..n+1 -> T]
      BY <3>1
    <3>3. h[0] = a /\ h[n + 1] = g[n][f[n]] /\ \A k \in 0..n : h[k] = f[k]
      BY <3>1
    <3>4. ASSUME NEW k \in 0..(n+1)-1 PROVE h[k + 1] = g[k][h[k]]
      <4>1. CASE k = n
        <5>1. h[n + 1] = g[n][f[n]] /\ h[n] = f[n]
          BY <3>3
        <5> HIDE DEF h
        <5> QED BY <4>1, <5>1
      <4>2. CASE k # n
        <5>1. k \in 0..n-1 /\ k \in 0..n /\ k + 1 \in 0..n
          BY <4>2
        <5> QED BY <3>1, <3>3, <5>1
      <4> QED BY <4>1, <4>2
    <3>5. h \in [0..n+1 -> T] /\ h[0] = a /\ \A k \in 0..(n+1)-1 : h[k + 1] = g[k][h[k]]
      BY <3>2, <3>3, <3>4
    <3> HIDE DEF h
    <3>6. Upto(n + 1, h)
      BY <3>5
    <3>7. n + 1 \in Nat
      OBVIOUS
    <3> QED BY <3>6, <3>7
  <2> HIDE DEF S
  <2>3. Nat \subseteq S
    BY <2>1, <2>2, Induction
  <2> QED BY <2>3 DEF S
<1>2. ASSUME NEW m \in Nat, NEW n \in Nat, m <= n, NEW e, NEW f, Upto(m, e), Upto(n, f)
      PROVE  \A k \in 0..m : e[k] = f[k]
  <2> DEFINE A == {k \in Nat : k <= m => e[k] = f[k]}
  <2>1. 0 \in A
    BY <1>2
  <2>2. ASSUME NEW k \in Nat, k \in A PROVE k + 1 \in A
    <3> SUFFICES ASSUME k + 1 <= m PROVE e[k + 1] = f[k + 1]
      OBVIOUS
    <3>1. k \in 0..m-1 /\ k \in 0..n-1 /\ e[k] = f[k]
      BY <1>2, <2>2
    <3> QED BY <1>2, <3>1
  <2> HIDE DEF A
  <2>3. Nat \subseteq A
    BY <2>1, <2>2, Induction
  <2> QED BY <2>3 DEF A
<1> DEFINE F(n) == CHOOSE f : Upto(n, f)
           r == [n \in Nat |-> F(n)[n]]
<1>3. ASSUME NEW n \in Nat PROVE Upto(n, F(n))
  BY <1>1, Zenon
<1> HIDE DEF F
<1>4. r \in [Nat -> T]
  BY <1>3
<1>5. r[0] = a
  BY <1>3
<1>6. ASSUME NEW n \in Nat PROVE r[n + 1] = g[n][r[n]]
  <2>1. F(n + 1)[n + 1] = g[n][F(n + 1)[n]]
    <3>1. n \in 0..(n+1)-1
      OBVIOUS
    <3> QED BY <1>3, <3>1
  <2>2. F(n)[n] = F(n + 1)[n]
    <3>1. Upto(n, F(n)) /\ Upto(n + 1, F(n + 1))
      BY <1>3
    <3> HIDE DEF Upto
    <3>2. \A k \in 0..n : F(n)[k] = F(n + 1)[k]
      <4>1. n <= n + 1 /\ n + 1 \in Nat
        OBVIOUS
      <4> QED BY <1>2, <3>1, <4>1
    <3> QED BY <3>2
  <2> QED BY <2>1, <2>2
<1>7. Iterates(r, T, a, g)
  BY <1>4, <1>5, <1>6 DEF Iterates
<1> QED BY <1>7


-----------------------------------------------------------------------------
(***************************************************************************)
(* Polynomials: sums, shifts and the reduction of one power.               *)
(***************************************************************************)
Times(k, p) == {k + j : j \in p}        \* x^k * p

LEMMA Width == W \in Nat /\ W >= 1 /\ (\A r \in R : r \in Nat /\ r < W)
BY WidthAssumption

LEMMA SumFacts ==
    ASSUME NEW p, NEW q
    PROVE  /\ \A k : k \in p ++ q <=> ~(k \in p <=> k \in q)
           /\ \A S : p \subseteq S /\ q \subseteq S => p ++ q \subseteq S
           /\ p ++ {} = p
BY DEF ++

(***************************************************************************)
(* What Reductions(p) computes: from 2W-2 down, one power at a time.       *)
(***************************************************************************)
Powers == 0..2*W-2

LEMMA ReducedType ==
    ASSUME NEW k \in W..2*W-2, NEW p, p \subseteq 0..k
    PROVE  Reduced(k, p) \subseteq 0..k-1
<1> SUFFICES ASSUME NEW j \in Reduced(k, p) PROVE j \in 0..k-1
  OBVIOUS
<1>1. k \in Nat /\ k >= W /\ W \in Nat
  BY Width
<1>2. CASE k \in p
  <2> DEFINE low == {k - W + r : r \in R}
  <2>1. \A r \in R : k - W + r \in 0..k-1
    BY <1>1, Width
  <2>2. low \subseteq 0..k-1
    BY <2>1
  <2>3. j \in p ++ ({k} \cup low)
    BY <1>2 DEF Reduced
  <2> HIDE DEF low
  <2>4. ~(j \in p <=> j \in {k} \cup low)
    BY <2>3 DEF ++
  <2>5. j # k
    BY <1>2, <2>4
  <2>6. j \in 0..k
    <3>1. j \in p \/ j = k \/ j \in low
      BY <2>4
    <3>2. p \subseteq 0..k /\ k \in 0..k
      BY <1>1
    <3>3. low \subseteq 0..k
      BY <1>1, <2>2
    <3> QED BY <3>1, <3>2, <3>3
  <2> QED BY <1>1, <2>5, <2>6
<1>3. CASE k \notin p
  <2>1. j \in p /\ j # k
    BY <1>3 DEF Reduced
  <2>2. j \in 0..k
    BY <2>1
  <2> QED BY <1>1, <2>1, <2>2
<1> QED BY <1>2, <1>3

LEMMA RestFacts ==
    ASSUME NEW p \in SUBSET Powers
    PROVE  /\ Reductions(p)[2*W-2] = p
           /\ \A k \in W..2*W-2 : Reductions(p)[k - 1] = Reduced(k, Reductions(p)[k])
           /\ \A k \in W-1..2*W-2 : Reductions(p)[k] \subseteq 0..k
<1> DEFINE T == 2*W-2
           g == [n \in Nat |-> [q \in SUBSET Powers |-> IF n + W <= T THEN Reduced(T - n, q) ELSE q]]
           rest == Reductions(p)
<1>0. T \in Nat /\ W - 1 \in Nat /\ W - 1 <= T /\ W \in Nat
  BY Width
<1>1. g \in [Nat -> [SUBSET Powers -> SUBSET Powers]]
  <2>1. ASSUME NEW n \in Nat, NEW q \in SUBSET Powers, n + W <= T
        PROVE  Reduced(T - n, q) \in SUBSET Powers
    <3>1. \A r \in R : (T - n) - W + r \in Powers
      BY <1>0, <2>1, Width DEF Powers
    <3>2. T - n \in Powers
      BY <1>0, <2>1 DEF Powers
    <3>3. {T - n} \cup {(T - n) - W + r : r \in R} \subseteq Powers
      BY <3>1, <3>2
    <3> HIDE DEF T
    <3> QED BY <3>3, SumFacts DEF Reduced
  <2> HIDE DEF T
  <2> QED BY <2>1
<1>2. PICK f : Iterates(f, SUBSET Powers, p, g)
  <2> HIDE DEF g
  <2> QED BY <1>1, Recursion
<1>3. /\ f \in [Nat -> SUBSET Powers] /\ f[0] = p
      /\ \A n \in Nat : n + W <= T => f[n + 1] = Reduced(T - n, f[n])
  <2> HIDE DEF T
  <2> QED BY <1>2 DEF Iterates
<1> DEFINE h == [k \in W-1..T |-> f[T - k]]
<1>4. h = [k \in W-1..T |-> IF k = T THEN p ELSE Reduced(k + 1, h[k + 1])]
  <2> HIDE DEF T
  <2>1. ASSUME NEW k \in W-1..T PROVE h[k] = IF k = T THEN p ELSE Reduced(k + 1, h[k + 1])
    <3>1. CASE k = T
      <4>1. T - k = 0
        BY <1>0, <3>1
      <4> QED BY <1>3, <3>1, <4>1
    <3>2. CASE k # T
      <4> DEFINE n == T - (k + 1)
      <4>1. n \in Nat /\ n + W <= T /\ T - n = k + 1 /\ n + 1 = T - k /\ k + 1 \in W-1..T
        BY <1>0, <3>2
      <4>2. h[k + 1] = f[n] /\ h[k] = f[n + 1]
        BY <4>1
      <4> HIDE DEF n
      <4> QED BY <1>3, <3>2, <4>1, <4>2
    <3> QED BY <3>1, <3>2
  <2> QED BY <2>1
<1>5. rest = [k \in W-1..T |-> IF k = T THEN p ELSE Reduced(k + 1, rest[k + 1])]
  <2> HIDE DEF h
  <2> QED BY <1>4, Zenon DEF Reductions
<1>6. rest[T] = p
  <2> HIDE DEF rest, T
  <2>1. T \in W-1..T
    BY <1>0
  <2> QED BY <1>5, <2>1
<1>7. ASSUME NEW k \in W..T PROVE rest[k - 1] = Reduced(k, rest[k])
  <2>1. k - 1 \in W-1..T /\ k - 1 # T /\ (k - 1) + 1 = k
    BY <1>0
  <2> HIDE DEF rest, T
  <2> QED BY <1>5, <2>1
<1>8. ASSUME NEW k \in W-1..T PROVE rest[k] \subseteq 0..k
  <2> DEFINE A == {n \in Nat : n + W - 1 <= T => rest[T - n] \subseteq 0..T-n}
  <2>1. 0 \in A
    <3>1. T - 0 = T
      BY <1>0
    <3> HIDE DEF rest
    <3> QED BY <1>6, <3>1 DEF Powers
  <2>2. ASSUME NEW n \in Nat, n \in A PROVE n + 1 \in A
    <3> SUFFICES ASSUME (n + 1) + W - 1 <= T PROVE rest[T - (n + 1)] \subseteq 0..T-(n+1)
      BY <2>2
    <3>1. T - n \in W..2*W-2 /\ T - n \in W..T /\ (T - n) - 1 = T - (n + 1) /\ n + W - 1 <= T
      BY <1>0
    <3>2. rest[T - n] \subseteq 0..T-n
      BY <2>2, <3>1
    <3>3. rest[(T - n) - 1] = Reduced(T - n, rest[T - n])
      BY <1>7, <3>1
    <3> HIDE DEF rest, T
    <3>4. Reduced(T - n, rest[T - n]) \subseteq 0..(T - n)-1
      BY <3>1, <3>2, ReducedType
    <3> QED BY <3>1, <3>3, <3>4
  <2> HIDE DEF A
  <2>3. Nat \subseteq A
    BY <2>1, <2>2, Induction
  <2>4. T - k \in Nat /\ (T - k) + W - 1 <= T /\ T - (T - k) = k
    BY <1>0
  <2> HIDE DEF rest, T
  <2> QED BY <2>3, <2>4 DEF A
<1> QED BY <1>6, <1>7, <1>8

(***************************************************************************)
(* Reducing is linear, and leaves what is already reduced alone.           *)
(***************************************************************************)
LEMMA SumLaws ==
    /\ \A p, q, s : (p ++ q) ++ s = p ++ (q ++ s)
    /\ \A p, q : p ++ q = q ++ p
    /\ \A p : p ++ p = {} /\ p ++ {} = p /\ {} ++ p = p
    /\ \A p, q, d : (p ++ d) ++ (q ++ d) = p ++ q
    /\ \A p, q, d : (p ++ d) ++ q = (p ++ q) ++ d
    /\ \A p, q, d : p ++ (q ++ d) = (p ++ q) ++ d
<1>1. \A p, q, s : (p ++ q) ++ s = p ++ (q ++ s)
  BY DEF ++
<1>2. \A p, q : p ++ q = q ++ p
  BY DEF ++
<1>3. \A p : p ++ p = {} /\ p ++ {} = p /\ {} ++ p = p
  BY DEF ++
<1>4. \A p, q, d : (p ++ d) ++ (q ++ d) = p ++ q
  BY DEF ++
<1>5. \A p, q, d : (p ++ d) ++ q = (p ++ q) ++ d
  BY DEF ++
<1> QED BY <1>1, <1>2, <1>3, <1>4, <1>5

LEMMA ReducedSum ==
    ASSUME NEW k, NEW p, NEW q
    PROVE  Reduced(k, p ++ q) = Reduced(k, p) ++ Reduced(k, q)
<1> DEFINE d == {k} \cup {k - W + r : r \in R}
<1>1. \A s : Reduced(k, s) = IF k \in s THEN s ++ d ELSE s
  BY DEF Reduced
<1> HIDE DEF d
<1>2. k \in p ++ q <=> ~(k \in p <=> k \in q)
  BY SumFacts
<1>3. CASE k \in p /\ k \in q
  BY <1>1, <1>2, <1>3, SumLaws
<1>4. CASE k \in p /\ k \notin q
  BY <1>1, <1>2, <1>4, SumLaws
<1>5. CASE k \notin p /\ k \in q
  BY <1>1, <1>2, <1>5, SumLaws
<1>6. CASE k \notin p /\ k \notin q
  BY <1>1, <1>2, <1>6
<1> QED BY <1>3, <1>4, <1>5, <1>6

(***************************************************************************)
(* Downward induction over the powers that are reduced.                    *)
(***************************************************************************)
LEMMA Downward ==
    ASSUME NEW A, 2*W-2 \in A, \A k \in W..2*W-2 : k \in A => k - 1 \in A
    PROVE  W-1..2*W-2 \subseteq A
<1> DEFINE T == 2*W-2
           B == {n \in Nat : n + W - 1 <= T => T - n \in A}
<1>0. T \in Nat /\ W \in Nat /\ W >= 1
  BY Width
<1>1. 0 \in B
  <2>1. T - 0 = T
    BY <1>0
  <2> QED BY <2>1
<1>2. ASSUME NEW n \in Nat, n \in B PROVE n + 1 \in B
  <2> SUFFICES ASSUME (n + 1) + W - 1 <= T PROVE T - (n + 1) \in A
    BY <1>2
  <2>1. T - n \in W..2*W-2 /\ n + W - 1 <= T /\ (T - n) - 1 = T - (n + 1)
    BY <1>0
  <2>2. T - n \in A
    BY <1>2, <2>1
  <2> HIDE DEF T
  <2> QED BY <2>1, <2>2
<1> HIDE DEF B
<1>3. Nat \subseteq B
  BY <1>1, <1>2, Induction
<1> SUFFICES ASSUME NEW k \in W-1..2*W-2 PROVE k \in A
  OBVIOUS
<1>4. T - k \in Nat /\ (T - k) + W - 1 <= T /\ T - (T - k) = k
  BY <1>0
<1> HIDE DEF T
<1> QED BY <1>3, <1>4 DEF B

LEMMA ReduceSum ==
    ASSUME NEW p \in SUBSET Powers, NEW q \in SUBSET Powers
    PROVE  Reduce(p ++ q) = Reduce(p) ++ Reduce(q)
<1> DEFINE A == {k \in Powers : Reductions(p ++ q)[k] = Reductions(p)[k] ++ Reductions(q)[k]}
<1>0. p ++ q \in SUBSET Powers /\ 2*W-2 \in Powers /\ W-1 \in W-1..2*W-2
  <2>1. p ++ q \subseteq Powers
    BY SumFacts
  <2> QED BY <2>1, Width DEF Powers
<1>1. 2*W-2 \in A
  BY <1>0, RestFacts
<1>2. ASSUME NEW k \in W..2*W-2, k \in A PROVE k - 1 \in A
  <2>1. /\ Reductions(p ++ q)[k - 1] = Reduced(k, Reductions(p ++ q)[k])
        /\ Reductions(p)[k - 1] = Reduced(k, Reductions(p)[k])
        /\ Reductions(q)[k - 1] = Reduced(k, Reductions(q)[k])
    BY <1>0, RestFacts
  <2>2. Reductions(p ++ q)[k] = Reductions(p)[k] ++ Reductions(q)[k]
    BY <1>2
  <2>3. Reduced(k, Reductions(p)[k] ++ Reductions(q)[k])
          = Reduced(k, Reductions(p)[k]) ++ Reduced(k, Reductions(q)[k])
    BY ReducedSum
  <2>4. k - 1 \in Powers
    BY Width DEF Powers
  <2> QED BY <2>1, <2>2, <2>3, <2>4
<1> HIDE DEF A
<1>3. W-1..2*W-2 \subseteq A
  BY <1>1, <1>2, Downward
<1> QED BY <1>0, <1>3 DEF A, Reduce

LEMMA ReduceType == ASSUME NEW p \in SUBSET Powers PROVE Reduce(p) \in Elem
<1>1. W-1 \in W-1..2*W-2
  BY Width
<1> QED BY <1>1, RestFacts DEF Reduce, Elem

LEMMA ReduceElem == ASSUME NEW p \in Elem PROVE p \in SUBSET Powers /\ Reduce(p) = p
<1>0. p \in SUBSET Powers /\ 2*W-2 \in Powers
  BY Width DEF Elem, Powers
<1> DEFINE A == {k \in Powers : Reductions(p)[k] = p}
<1>1. 2*W-2 \in A
  BY <1>0, RestFacts
<1>2. ASSUME NEW k \in W..2*W-2, k \in A PROVE k - 1 \in A
  <2>1. k - 1 \in Powers /\ k \notin p
    BY Width DEF Powers, Elem
  <2>2. Reductions(p)[k - 1] = Reduced(k, p)
    BY <1>0, <1>2, RestFacts
  <2> QED BY <2>1, <2>2 DEF Reduced
<1> HIDE DEF A
<1>3. W-1..2*W-2 \subseteq A
  BY <1>1, <1>2, Downward
<1>4. W-1 \in W-1..2*W-2
  BY Width
<1> QED BY <1>0, <1>3, <1>4 DEF A, Reduce

(***************************************************************************)
(* Multiplying by x before the reduction is ShiftReduce after it.          *)
(***************************************************************************)
LEMMA ReducedTimes ==
    ASSUME NEW k \in Nat, NEW p, p \subseteq Nat
    PROVE  Reduced(k + 1, Times(1, p)) = Times(1, Reduced(k, p))
<1> DEFINE low == {k - W + r : r \in R}
           high == {(k + 1) - W + r : r \in R}
<1>0. W \in Nat /\ R \subseteq Nat
  BY Width
<1>1. k + 1 \in Times(1, p) <=> k \in p
  <2>1. \A j \in p : j \in Nat /\ (k + 1 = 1 + j <=> k = j)
    OBVIOUS
  <2> QED BY <2>1 DEF Times
<1>2. CASE k \notin p
  BY <1>1, <1>2 DEF Reduced
<1>3. CASE k \in p
  <2>1. \A r \in R : k - W + r \in Int /\ 1 + (k - W + r) = (k + 1) - W + r
    BY <1>0
  <2>2. high = Times(1, low)
    BY <2>1 DEF Times
  <2>3. low \subseteq Int
    BY <2>1
  <2>4. Reduced(k + 1, Times(1, p)) = Times(1, p) ++ ({k + 1} \cup high)
    BY <1>1, <1>3 DEF Reduced
  <2>5. Reduced(k, p) = p ++ ({k} \cup low)
    BY <1>3 DEF Reduced
  <2> HIDE DEF low, high
  <2>6. {k + 1} \cup high = Times(1, {k} \cup low)
    BY <2>2 DEF Times
  <2>7. ASSUME NEW s \in SUBSET Int, NEW t \in SUBSET Int
        PROVE  Times(1, s) ++ Times(1, t) = Times(1, s ++ t)
    <3>1. \A j : j \in Times(1, s) <=> j \in Int /\ j - 1 \in s
      BY DEF Times
    <3>2. \A j : j \in Times(1, t) <=> j \in Int /\ j - 1 \in t
      BY DEF Times
    <3>3. s ++ t \in SUBSET Int
      BY DEF ++
    <3>4. \A j : j \in Times(1, s ++ t) <=> j \in Int /\ j - 1 \in s ++ t
      BY <3>3 DEF Times
    <3>5. \A j : j \in Times(1, s ++ t) <=> j \in Times(1, s) ++ Times(1, t)
      BY <3>1, <3>2, <3>4, SumFacts
    <3> QED BY <3>5
  <2>8. p \in SUBSET Int /\ {k} \cup low \in SUBSET Int
    BY <2>3
  <2> QED BY <2>4, <2>5, <2>6, <2>7, <2>8
<1> QED BY <1>2, <1>3

LEMMA ReduceTimes ==
    ASSUME NEW p \in SUBSET (0..2*W-3), W >= 2
    PROVE  Reduce(Times(1, p)) = ShiftReduce(Reduce(p))
<1> DEFINE A == {k \in Powers : k >= W => Reductions(Times(1, p))[k] = Times(1, Reductions(p)[k - 1])}
           q == Reduce(p)
<1>0. W \in Nat /\ 2*W-2 \in W..2*W-2 /\ 2*W-2 \in Powers
  BY Width DEF Powers
<1>1. p \in SUBSET Powers /\ 2*W-2 \notin p /\ Times(1, p) \in SUBSET Powers
  <2>1. \A j \in p : j \in 0..2*W-3 /\ j \in Powers /\ 1 + j \in Powers /\ j # 2*W-2
    BY <1>0 DEF Powers
  <2> QED BY <2>1 DEF Times
<1>2. 2*W-2 \in A
  <2>1. Reductions(Times(1, p))[2*W-2] = Times(1, p)
    BY <1>1, RestFacts
  <2>2. Reductions(p)[(2*W-2) - 1] = Reduced(2*W-2, p)
    BY <1>0, <1>1, RestFacts
  <2>3. Reduced(2*W-2, p) = p
    BY <1>1 DEF Reduced
  <2> QED BY <1>0, <2>1, <2>2, <2>3
<1>3. ASSUME NEW k \in W..2*W-2, k \in A PROVE k - 1 \in A
  <2> SUFFICES ASSUME k - 1 >= W
               PROVE  Reductions(Times(1, p))[k - 1] = Times(1, Reductions(p)[(k - 1) - 1])
    BY <1>0 DEF Powers
  <2>1. k - 1 \in W..2*W-2 /\ k - 1 \in Nat /\ (k - 1) + 1 = k /\ k - 1 \in W-1..2*W-2
    BY <1>0
  <2>2. Reductions(Times(1, p))[k - 1] = Reduced(k, Times(1, Reductions(p)[k - 1]))
    BY <1>0, <1>1, <1>3, RestFacts
  <2>3. Reductions(p)[k - 1] \subseteq Nat
    <3>1. Reductions(p)[k - 1] \subseteq 0..k-1
      BY <1>1, <2>1, RestFacts
    <3> QED BY <3>1
  <2>4. Reduced(k, Times(1, Reductions(p)[k - 1])) = Times(1, Reduced(k - 1, Reductions(p)[k - 1]))
    <3> DEFINE m == k - 1
    <3>1. m \in Nat /\ m + 1 = k
      BY <2>1
    <3>2. Reduced(m + 1, Times(1, Reductions(p)[m])) = Times(1, Reduced(m, Reductions(p)[m]))
      <4> HIDE DEF m
      <4> QED BY <2>3, <3>1, ReducedTimes DEF m
    <3> QED BY <3>1, <3>2
  <2>5. Reductions(p)[(k - 1) - 1] = Reduced(k - 1, Reductions(p)[k - 1])
    BY <1>1, <2>1, RestFacts
  <2> QED BY <2>2, <2>4, <2>5
<1> HIDE DEF A
<1>4. W-1..2*W-2 \subseteq A
  BY <1>2, <1>3, Downward
<1>5. W \in W-1..2*W-2 /\ W \in W..2*W-2
  BY <1>0
<1>6. Reductions(Times(1, p))[W] = Times(1, q)
  BY <1>0, <1>4, <1>5 DEF A, Reduce
<1>7. Reduce(Times(1, p)) = Reduced(W, Times(1, q))
  BY <1>1, <1>5, <1>6, RestFacts DEF Reduce
<1>8. q \in Elem
  BY <1>1, ReduceType
<1> HIDE DEF q
<1> DEFINE shifted == {k + 1 : k \in q \ {W-1}}
<1>9. \A j \in q : j \in 0..W-1 /\ (1 + j = W <=> j = W-1) /\ 1 + j = j + 1 /\ j + 1 \in Nat
  BY <1>0, <1>8 DEF Elem
<1>10. W \in Times(1, q) <=> W-1 \in q
  BY <1>9 DEF Times
<1>11. {W - W + r : r \in R} = R
  <2>1. \A r \in R : W - W + r = r
    BY Width
  <2> QED BY <2>1
<1>12. W \notin R /\ W \notin shifted
  BY <1>9, Width
<1>13. CASE W-1 \in q
  <2>1. Times(1, q) = shifted \cup {W}
    BY <1>0, <1>9, <1>13 DEF Times
  <2>2. Reduced(W, Times(1, q)) = Times(1, q) ++ ({W} \cup R)
    BY <1>10, <1>11, <1>13 DEF Reduced
  <2>3. ShiftReduce(q) = shifted ++ R
    BY <1>13 DEF ShiftReduce
  <2> HIDE DEF shifted
  <2>4. (shifted \cup {W}) ++ ({W} \cup R) = shifted ++ R
    BY <1>12 DEF ++
  <2> QED BY <1>7, <2>1, <2>2, <2>3, <2>4 DEF q
<1>14. CASE W-1 \notin q
  <2>1. Times(1, q) = shifted
    BY <1>9, <1>14 DEF Times
  <2> QED BY <1>7, <1>10, <1>14, <2>1 DEF Reduced, ShiftReduce, q
<1> QED BY <1>13, <1>14

-----------------------------------------------------------------------------
(***************************************************************************)
(* The product, one coefficient of its first factor at a time.             *)
(***************************************************************************)
LEMMA Parity ==
    ASSUME NEW n \in Nat
    PROVE  (n + 1) % 2 = 1 <=> ~(n % 2 = 1)
OBVIOUS

LEMMA ElemFacts ==
    ASSUME NEW a \in Elem
    PROVE  IsFiniteSet(a) /\ a \subseteq Nat /\ \A k \in a : k < W
<1>1. IsFiniteSet(0..W-1)
  BY FS_Interval, Width
<1>2. a \in SUBSET (0..W-1)
  BY DEF Elem
<1>3. IsFiniteSet(a)
  BY <1>1, <1>2, FS_Subset
<1>4. a \subseteq Nat /\ \A k \in a : k < W
  BY <1>2, Width
<1> QED BY <1>3, <1>4

LEMMA ProductEmpty == ASSUME NEW b PROVE Product({}, b) = {}
<1>1. \A k : {j \in {} : k - j \in b} = {}
  OBVIOUS
<1>2. Cardinality({}) = 0
  BY FS_EmptySet
<1> QED BY <1>1, <1>2 DEF Product

LEMMA ProductAdd ==
    ASSUME NEW a \in Elem, NEW b \in Elem, NEW n \in 0..W-1, n \notin a
    PROVE  Product(a \cup {n}, b) = Product(a, b) ++ Times(n, b)
<1> DEFINE Terms(s, k) == {j \in s : k - j \in b}
<1>0. W \in Nat /\ n \in Nat
  BY Width
<1>1. ASSUME NEW k \in Powers
      PROVE  k \in Product(a \cup {n}, b) <=> ~(k \in Product(a, b) <=> k - n \in b)
  <2>1. IsFiniteSet(Terms(a, k)) /\ n \notin Terms(a, k)
    <3>1. IsFiniteSet(a) /\ Terms(a, k) \subseteq a
      BY ElemFacts
    <3> HIDE DEF Terms
    <3>2. IsFiniteSet(Terms(a, k))
      BY <3>1, FS_Subset
    <3> QED BY <3>1, <3>2
  <2>2. Cardinality(Terms(a, k)) \in Nat
    BY <2>1, FS_CardinalityType
  <2>3. CASE k - n \in b
    <3>1. Terms(a \cup {n}, k) = Terms(a, k) \cup {n}
      BY <2>3
    <3> HIDE DEF Terms
    <3>2. Cardinality(Terms(a \cup {n}, k)) = Cardinality(Terms(a, k)) + 1
      BY <2>1, <3>1, FS_AddElement
    <3>3. Cardinality(Terms(a \cup {n}, k)) % 2 = 1 <=> ~(Cardinality(Terms(a, k)) % 2 = 1)
      BY <2>2, <3>2, Parity
    <3> QED BY <2>3, <3>3 DEF Product, Terms, Powers
  <2>4. CASE k - n \notin b
    <3>1. Terms(a \cup {n}, k) = Terms(a, k)
      BY <2>4
    <3> QED BY <2>4, <3>1 DEF Product, Powers
  <2> QED BY <2>3, <2>4
<1>2. ASSUME NEW k \in Powers PROVE k - n \in b <=> k \in Times(n, b)
  <2>1. \A j \in b : j \in Nat /\ (k = n + j <=> k - n = j)
    BY <1>0, ElemFacts DEF Powers
  <2> QED BY <2>1 DEF Times
<1>3. Product(a \cup {n}, b) \subseteq Powers /\ Product(a, b) \subseteq Powers
  BY DEF Product, Powers
<1>4. Times(n, b) \subseteq Powers
  <2>1. \A j \in b : n + j \in Powers
    BY <1>0, ElemFacts DEF Powers
  <2> QED BY <2>1 DEF Times
<1>5. \A k : k \in Product(a, b) ++ Times(n, b) <=> ~(k \in Product(a, b) <=> k \in Times(n, b))
  BY SumFacts
<1>6. \A k : k \in Product(a \cup {n}, b) <=> k \in Product(a, b) ++ Times(n, b)
  BY <1>1, <1>2, <1>3, <1>4, <1>5
<1> HIDE DEF Terms
<1> QED BY <1>6

LEMMA ProductType == ASSUME NEW a, NEW b PROVE Product(a, b) \in SUBSET Powers
BY DEF Product, Powers

LEMMA TimesType == ASSUME NEW n \in 0..W-1, NEW b \in Elem PROVE Times(n, b) \in SUBSET Powers
<1>1. \A j \in b : n + j \in Powers
  BY ElemFacts, Width DEF Powers
<1> QED BY <1>1 DEF Times

LEMMA ProductOne ==
    ASSUME NEW b \in Elem, NEW n \in 0..W-1
    PROVE  Product({n}, b) = Times(n, b)
<1>1. {} \in Elem /\ n \notin {} /\ {} \cup {n} = {n}
  BY DEF Elem
<1>2. Product({} \cup {n}, b) = Product({}, b) ++ Times(n, b)
  BY <1>1, ProductAdd
<1> QED BY <1>1, <1>2, ProductEmpty, SumLaws

(***************************************************************************)
(* Mul: the product with nothing is nothing, with 1 the element itself,    *)
(* with the next power of x one ShiftReduce more, and with a sum the sum.  *)
(***************************************************************************)
LEMMA MulType == ASSUME NEW a, NEW b PROVE Mul(a, b) \in Elem
BY ProductType, ReduceType DEF Mul

LEMMA MulEmpty == ASSUME NEW b PROVE Mul({}, b) = {}
<1>1. {} \in Elem
  BY DEF Elem
<1> QED BY <1>1, ProductEmpty, ReduceElem DEF Mul

LEMMA MulOne == ASSUME NEW b \in Elem PROVE Mul({0}, b) = b
<1>1. 0 \in 0..W-1
  BY Width
<1>2. Times(0, b) = b
  <2>1. \A j \in b : 0 + j = j
    BY ElemFacts
  <2> QED BY <2>1 DEF Times
<1> QED BY <1>1, <1>2, ProductOne, ReduceElem DEF Mul

LEMMA MulNext ==
    ASSUME NEW b \in Elem, NEW n \in Nat, n + 1 < W
    PROVE  Mul({n + 1}, b) = ShiftReduce(Mul({n}, b))
<1>0. W \in Nat /\ W >= 2 /\ n \in 0..W-1 /\ n + 1 \in 0..W-1
  BY Width
<1>1. Times(n, b) \in SUBSET (0..2*W-3)
  <2>1. \A j \in b : n + j \in 0..2*W-3
    BY <1>0, ElemFacts
  <2> QED BY <2>1 DEF Times
<1>2. Times(n + 1, b) = Times(1, Times(n, b))
  <2>1. \A j \in b : 1 + (n + j) = (n + 1) + j
    BY ElemFacts
  <2> QED BY <2>1 DEF Times
<1>3. Mul({n}, b) = Reduce(Times(n, b))
  BY <1>0, ProductOne DEF Mul
<1>4. Mul({n + 1}, b) = Reduce(Times(n + 1, b))
  <2> DEFINE k == n + 1
  <2>1. k \in 0..W-1
    BY <1>0
  <2> HIDE DEF k
  <2>2. Mul({k}, b) = Reduce(Times(k, b))
    BY <2>1, ProductOne DEF Mul
  <2> QED BY <2>2 DEF k
<1> QED BY <1>0, <1>1, <1>2, <1>3, <1>4, ReduceTimes

LEMMA MulAdd ==
    ASSUME NEW a \in Elem, NEW b \in Elem, NEW n \in 0..W-1, n \notin a
    PROVE  Mul(a \cup {n}, b) = Mul(a, b) ++ Mul({n}, b)
<1>1. Product(a \cup {n}, b) = Product(a, b) ++ Times(n, b)
  BY ProductAdd
<1>2. Product({n}, b) = Times(n, b)
  BY ProductOne
<1>3. Product(a, b) \in SUBSET Powers /\ Times(n, b) \in SUBSET Powers
  BY ProductType, TimesType
<1> QED BY <1>1, <1>2, <1>3, ReduceSum DEF Mul

-----------------------------------------------------------------------------
(***************************************************************************)
(* The machine.  Until it returns, the memory is what it was at the call,  *)
(* so that reading x through its pointer every time does no harm.          *)
(***************************************************************************)
MemoryInv == i <= W => mem = mem0

LoopInv == TypeOK /\ MemoryInv /\ PartialProduct /\ ComputesProduct

LEMMA ShiftReduceType == ASSUME NEW p \in Elem PROVE ShiftReduce(p) \in Elem
<1> DEFINE shifted == {k + 1 : k \in p \ {W-1}}
<1>1. \A k \in p \ {W-1} : k + 1 \in 0..W-1
  BY Width DEF Elem
<1>2. shifted \in SUBSET (0..W-1) /\ R \in SUBSET (0..W-1)
  BY <1>1, WidthAssumption
<1> HIDE DEF shifted
<1>3. shifted ++ R \in SUBSET (0..W-1)
  BY <1>2 DEF ++
<1> QED BY <1>2, <1>3 DEF ShiftReduce, Elem, shifted

LEMMA LoopInit == Init => LoopInv
<1> SUFFICES ASSUME Init PROVE LoopInv
  OBVIOUS
<1>1. /\ mem \in [Cells -> Elem] /\ mem0 = mem /\ {x, y, out} \subseteq Cells
      /\ i = 0 /\ z = {} /\ v = mem[y]
  BY ContentsAssumption DEF Init
<1>2. W \in Nat /\ W >= 1 /\ i \in 0..W+1 /\ i # W + 1
  BY <1>1, Width
<1>3. mem[y] \in Elem /\ {} \in Elem
  BY <1>1 DEF Elem
<1>4. TypeOK
  BY <1>1, <1>2, <1>3 DEF TypeOK
<1>5. PartialProduct
  <2>1. mem0[x] \cap 0..i-1 = {}
    BY <1>1
  <2>2. Mul({}, mem0[y]) = {} /\ Mul({0}, mem0[y]) = mem0[y]
    BY <1>1, <1>3, MulEmpty, MulOne
  <2> QED BY <1>1, <2>1, <2>2 DEF PartialProduct
<1> QED BY <1>1, <1>2, <1>4, <1>5 DEF LoopInv, MemoryInv, ComputesProduct

LEMMA IterateInv == ASSUME LoopInv, Iterate PROVE LoopInv'
<1>1. /\ i < W /\ i' = i + 1 /\ UNCHANGED <<mem, x, y, out, mem0>>
      /\ z' = (IF i \in mem[x] THEN z ++ v ELSE z) /\ v' = ShiftReduce(v)
  BY DEF Iterate
<1>2. /\ W \in Nat /\ i \in 0..W-1 /\ i \in Nat /\ z \in Elem /\ v \in Elem
      /\ mem = mem0 /\ mem0[x] \in Elem /\ mem0[y] \in Elem
      /\ i' \in 0..W+1 /\ i' <= W /\ i' # W + 1
  BY <1>1, Width DEF LoopInv, TypeOK, MemoryInv
<1>3. z = Mul(mem0[x] \cap 0..i-1, mem0[y]) /\ v = Mul({i}, mem0[y])
  BY <1>1, <1>2 DEF LoopInv, PartialProduct
<1> DEFINE a == mem0[x] \cap 0..i-1
           b == mem0[y]
<1>4. a \in Elem /\ b \in Elem /\ i \notin a
  BY <1>2 DEF Elem
<1>5. z' = Mul(mem0[x] \cap 0..i, mem0[y])
  <2>1. CASE i \in mem0[x]
    <3>1. mem0[x] \cap 0..i = a \cup {i}
      <4>1. \A j : j \in 0..i <=> j \in 0..i-1 \/ j = i
        BY <1>2
      <4> QED BY <2>1, <4>1
    <3> HIDE DEF a, b
    <3>2. Mul(a \cup {i}, b) = Mul(a, b) ++ Mul({i}, b)
      BY <1>2, <1>4, MulAdd
    <3> QED BY <1>1, <1>2, <1>3, <2>1, <3>1, <3>2 DEF a, b
  <2>2. CASE i \notin mem0[x]
    <3>1. mem0[x] \cap 0..i = a
      <4>1. \A j : j \in 0..i <=> j \in 0..i-1 \/ j = i
        BY <1>2
      <4> QED BY <2>2, <4>1
    <3> QED BY <1>1, <1>2, <1>3, <2>2, <3>1
  <2> QED BY <2>1, <2>2
<1>6. i + 1 < W => v' = Mul({i + 1}, mem0[y])
  BY <1>1, <1>2, <1>3, MulNext
<1>7. PartialProduct'
  <2>1. i' - 1 = i
    BY <1>1, <1>2
  <2> QED BY <1>1, <1>5, <1>6, <2>1 DEF PartialProduct
<1>8. z' \in Elem
  BY <1>5, MulType
<1>9. v' \in Elem
  BY <1>1, <1>2, ShiftReduceType
<1>10. TypeOK'
  BY <1>1, <1>2, <1>8, <1>9 DEF LoopInv, TypeOK
<1> QED BY <1>1, <1>2, <1>7, <1>10 DEF LoopInv, MemoryInv, ComputesProduct

LEMMA ReturnInv == ASSUME LoopInv, Return PROVE LoopInv'
<1>1. i = W /\ i' = W + 1 /\ mem' = [mem EXCEPT ![out] = z] /\ UNCHANGED <<x, y, out, z, v, mem0>>
  BY DEF Return
<1>2. W \in Nat /\ ~(i' <= W) /\ i' \in 0..W+1
  BY <1>1, Width
<1>3. mem = mem0 /\ z = Mul(mem0[x] \cap 0..W-1, mem0[y]) /\ mem0[x] \in Elem
  BY <1>1, <1>2 DEF LoopInv, TypeOK, MemoryInv, PartialProduct
<1>4. mem0[x] \cap 0..W-1 = mem0[x]
  BY <1>3 DEF Elem
<1>5. ComputesProduct'
  BY <1>1, <1>3, <1>4 DEF ComputesProduct
<1>6. TypeOK'
  BY <1>1, <1>2 DEF LoopInv, TypeOK
<1> QED BY <1>2, <1>5, <1>6 DEF LoopInv, MemoryInv, PartialProduct

LEMMA LoopNext == LoopInv /\ [Next]_vars => LoopInv'
<1>1. LoopInv /\ UNCHANGED vars => LoopInv'
  BY DEF vars, LoopInv, TypeOK, MemoryInv, PartialProduct, ComputesProduct
<1> QED BY <1>1, IterateInv, ReturnInv DEF Next

LEMMA LoopInductive == Spec => []LoopInv
BY LoopInit, LoopNext, PTL DEF Spec

(***************************************************************************)
(* No bit leaves the block, and the loop counter its range.                *)
(***************************************************************************)
THEOREM StaysInTheField == Spec => []TypeOK
<1>1. LoopInv => TypeOK
  BY DEF LoopInv
<1> QED BY <1>1, LoopInductive, PTL

(***************************************************************************)
(* gf128_mul()'s loop adds one term of the product an iteration, already   *)
(* reduced.                                                                *)
(***************************************************************************)
THEOREM LoopAddsTerms == Spec => []PartialProduct
<1>1. LoopInv => PartialProduct
  BY DEF LoopInv
<1> QED BY <1>1, LoopInductive, PTL

(***************************************************************************)
(* gf128_mul() multiplies in the field, whichever pointers are equal: for  *)
(* the code's 128 bits and 0xE1 as for any other width and polynomial.     *)
(***************************************************************************)
THEOREM MultipliesInTheField == Spec => []ComputesProduct
<1>1. LoopInv => ComputesProduct
  BY DEF LoopInv
<1> QED BY <1>1, LoopInductive, PTL

-----------------------------------------------------------------------------
(***************************************************************************)
(* Mul is commutative, associative and distributes over ++, which is what  *)
(* GHASH takes for granted.                                                *)
(***************************************************************************)
LEMMA BitInduction ==
    ASSUME NEW S, {} \in S,
           \A s \in S \cap Elem, n \in 0..W-1 : n \notin s => s ++ {n} \in S
    PROVE  Elem \subseteq S
<1> SUFFICES ASSUME NEW a \in Elem PROVE a \in S
  OBVIOUS
<1> DEFINE A == {n \in Nat : n <= W => a \cap 0..n-1 \in S}
<1>1. 0 \in A
  <2>1. a \cap 0..0-1 = {}
    OBVIOUS
  <2> QED BY <2>1
<1>2. ASSUME NEW n \in Nat, n \in A PROVE n + 1 \in A
  <2> DEFINE s == a \cap 0..n-1
  <2> SUFFICES ASSUME n + 1 <= W PROVE a \cap 0..n \in S
    BY <1>2
  <2>1. n \in 0..W-1 /\ n \notin s /\ s \in S \cap Elem
    BY <1>2, Width DEF Elem
  <2>2. \A j : j \in 0..n <=> j \in 0..n-1 \/ j = n
    OBVIOUS
  <2>3. CASE n \in a
    <3>1. a \cap 0..n = s ++ {n}
      BY <2>1, <2>2, <2>3 DEF ++
    <3> HIDE DEF s
    <3> QED BY <2>1, <3>1
  <2>4. CASE n \notin a
    <3>1. a \cap 0..n = s
      BY <2>2, <2>4
    <3> QED BY <2>1, <3>1
  <2> QED BY <2>3, <2>4
<1> HIDE DEF A
<1>3. Nat \subseteq A
  BY <1>1, <1>2, Induction
<1>4. a \cap 0..W-1 = a
  BY DEF Elem
<1> QED BY <1>3, <1>4, Width DEF A

LEMMA ElemSum ==
    /\ \A a, b \in Elem : a ++ b \in Elem
    /\ {} \in Elem /\ \A n \in 0..W-1 : {n} \in Elem
BY DEF Elem, ++

LEMMA MulToggle ==
    ASSUME NEW a \in Elem, NEW b \in Elem, NEW n \in 0..W-1
    PROVE  Mul(a ++ {n}, b) = Mul(a, b) ++ Mul({n}, b)
<1>1. CASE n \notin a
  <2>1. a ++ {n} = a \cup {n}
    BY <1>1 DEF ++
  <2> QED BY <1>1, <2>1, MulAdd
<1>2. CASE n \in a
  <2> DEFINE s == a \ {n}
  <2>1. a ++ {n} = s /\ a = s \cup {n} /\ n \notin s /\ s \in Elem
    BY <1>2 DEF ++, Elem
  <2> HIDE DEF s
  <2>2. Mul(a, b) = Mul(s, b) ++ Mul({n}, b)
    BY <2>1, MulAdd
  <2>3. (Mul(s, b) ++ Mul({n}, b)) ++ Mul({n}, b) = Mul(s, b)
    BY DEF ++
  <2> QED BY <2>1, <2>2, <2>3
<1> QED BY <1>1, <1>2

LEMMA SumOnLeft ==
    ASSUME NEW a \in Elem, NEW b \in Elem, NEW c \in Elem
    PROVE  Mul(a ++ b, c) = Mul(a, c) ++ Mul(b, c)
<1> DEFINE S == {s \in Elem : Mul(s ++ b, c) = Mul(s, c) ++ Mul(b, c)}
<1>1. {} \in S
  <2>1. {} ++ b = b /\ {} ++ Mul(b, c) = Mul(b, c)
    BY DEF ++
  <2> QED BY <2>1, MulEmpty, ElemSum
<1>2. ASSUME NEW s \in S \cap Elem, NEW n \in 0..W-1, n \notin s PROVE s ++ {n} \in S
  <2>1. s ++ b \in Elem /\ s ++ {n} \in Elem /\ {n} \in Elem
    BY ElemSum
  <2>2. (s ++ {n}) ++ b = (s ++ b) ++ {n}
    BY SumLaws
  <2>3. Mul((s ++ b) ++ {n}, c) = Mul(s ++ b, c) ++ Mul({n}, c)
    BY <2>1, MulToggle
  <2>4. Mul(s ++ {n}, c) = Mul(s, c) ++ Mul({n}, c)
    BY MulToggle
  <2>5. (Mul(s, c) ++ Mul(b, c)) ++ Mul({n}, c) = (Mul(s, c) ++ Mul({n}, c)) ++ Mul(b, c)
    BY SumLaws
  <2> QED BY <2>1, <2>2, <2>3, <2>4, <2>5
<1> HIDE DEF S
<1>3. Elem \subseteq S
  BY <1>1, <1>2, BitInduction
<1> QED BY <1>3 DEF S

LEMMA ProductCommutes ==
    ASSUME NEW a \in Elem, NEW b \in Elem
    PROVE  Product(a, b) = Product(b, a)
<1>1. ASSUME NEW k \in Powers
      PROVE  Cardinality({j \in a : k - j \in b}) = Cardinality({j \in b : k - j \in a})
  <2> DEFINE A == {j \in a : k - j \in b}
             B == {j \in b : k - j \in a}
             f == [j \in A |-> k - j]
  <2>1. k \in Int /\ (\A j \in a \cup b : j \in Int)
    BY ElemFacts, Width DEF Powers
  <2>2. \A j \in a \cup b : k - j \in Int /\ k - (k - j) = j
    BY <2>1
  <2>3. \A j \in A : f[j] \in B /\ k - f[j] = j
    BY <2>2
  <2>4. \A j \in B : k - j \in A /\ f[k - j] = j
    BY <2>2
  <2>5. IsFiniteSet(A)
    <3>1. IsFiniteSet(a) /\ A \subseteq a
      BY ElemFacts
    <3> HIDE DEF A
    <3> QED BY <3>1, FS_Subset
  <2>6. DOMAIN f = A /\ f \in [A -> B]
    BY <2>3
  <2> HIDE DEF f, A, B
  <2>7. \A i1, i2 \in A : f[i1] = f[i2] => i1 = i2
    BY <2>3
  <2>8. \A j \in B : \E i1 \in A : f[i1] = j
    BY <2>4
  <2>9. f \in Bijection(A, B)
    BY <2>6, <2>7, <2>8, Fun_IsBij
  <2>10. ExistsBijection(A, B)
    BY <2>9 DEF ExistsBijection
  <2>11. Cardinality(A) = Cardinality(B)
    BY <2>5, <2>10, FS_Bijection
  <2> QED BY <2>11 DEF A, B
<1> QED BY <1>1 DEF Product, Powers

LEMMA ShiftReduceSum ==
    ASSUME NEW p \in Elem, NEW q \in Elem
    PROVE  ShiftReduce(p ++ q) = ShiftReduce(p) ++ ShiftReduce(q)
<1> DEFINE Shifted(s) == {k + 1 : k \in s \ {W-1}}
<1>1. Shifted(p ++ q) = Shifted(p) ++ Shifted(q)
  <2>1. \A k : k \in p \/ k \in q => k \in Int
    BY ElemFacts
  <2>2. \A s \in {p, q, p ++ q}, j \in Int : j + 1 \in Shifted(s) <=> j \in s /\ j # W-1
    <3>1. \A s \in {p, q, p ++ q} : \A k \in s : k \in Int
      BY <2>1, SumFacts
    <3> QED BY <3>1
  <2>3. \A s \in {p, q, p ++ q} : \A t \in Shifted(s) : t - 1 \in Int /\ (t - 1) + 1 = t
    <3>1. \A s \in {p, q, p ++ q} : \A k \in s : k \in Int
      BY <2>1, SumFacts
    <3> QED BY <3>1
  <2> HIDE DEF Shifted
  <2>4. \A j : j \in p ++ q <=> ~(j \in p <=> j \in q)
    BY SumFacts
  <2>5. \A j : j \in Shifted(p) ++ Shifted(q) <=> ~(j \in Shifted(p) <=> j \in Shifted(q))
    BY SumFacts
  <2>6. ASSUME NEW j \in Int PROVE j + 1 \in Shifted(p ++ q) <=> j + 1 \in Shifted(p) ++ Shifted(q)
    <3>1. j + 1 \in Shifted(p) <=> j \in p /\ j # W-1
      BY <2>2
    <3>2. j + 1 \in Shifted(q) <=> j \in q /\ j # W-1
      BY <2>2
    <3>3. j + 1 \in Shifted(p ++ q) <=> j \in p ++ q /\ j # W-1
      BY <2>2
    <3> QED BY <2>4, <2>5, <3>1, <3>2, <3>3
  <2>7. ASSUME NEW t, t \in Shifted(p ++ q) \/ t \in Shifted(p) ++ Shifted(q)
        PROVE  t - 1 \in Int /\ (t - 1) + 1 = t
    <3>1. t \in Shifted(p ++ q) \/ t \in Shifted(p) \/ t \in Shifted(q)
      BY <2>5, <2>7
    <3> QED BY <2>3, <3>1
  <2>8. \A t : t \in Shifted(p ++ q) <=> t \in Shifted(p) ++ Shifted(q)
    BY <2>6, <2>7
  <2> QED BY <2>8
<1>2. \A s : ShiftReduce(s) = IF W-1 \in s THEN Shifted(s) ++ R ELSE Shifted(s)
  BY DEF ShiftReduce
<1> HIDE DEF Shifted
<1>3. W-1 \in p ++ q <=> ~(W-1 \in p <=> W-1 \in q)
  BY SumFacts
<1>4. \A s, t, d : /\ (s ++ d) ++ (t ++ d) = s ++ t
                   /\ (s ++ d) ++ t = (s ++ t) ++ d
                   /\ s ++ (t ++ d) = (s ++ t) ++ d
  BY SumLaws
<1> QED BY <1>1, <1>2, <1>3, <1>4

LEMMA MulPowerShift ==
    ASSUME NEW b \in Elem, NEW n \in 0..W-1
    PROVE  Mul({n}, ShiftReduce(b)) = ShiftReduce(Mul({n}, b))
<1> DEFINE A == {k \in Nat : k < W => Mul({k}, ShiftReduce(b)) = ShiftReduce(Mul({k}, b))}
<1>1. 0 \in A
  BY MulOne, ShiftReduceType
<1>2. ASSUME NEW k \in Nat, k \in A PROVE k + 1 \in A
  <2> SUFFICES ASSUME k + 1 < W
               PROVE  Mul({k + 1}, ShiftReduce(b)) = ShiftReduce(Mul({k + 1}, b))
    OBVIOUS
  <2>1. k < W
    BY Width
  <2>2. Mul({k}, ShiftReduce(b)) = ShiftReduce(Mul({k}, b))
    BY <1>2, <2>1
  <2>3. Mul({k + 1}, b) = ShiftReduce(Mul({k}, b))
    BY MulNext
  <2>4. ShiftReduce(b) \in Elem
    BY ShiftReduceType
  <2>5. Mul({k + 1}, ShiftReduce(b)) = ShiftReduce(Mul({k}, ShiftReduce(b)))
    BY <2>4, MulNext
  <2> QED BY <2>2, <2>3, <2>5
<1> HIDE DEF A
<1>3. Nat \subseteq A
  BY <1>1, <1>2, Induction
<1>4. n \in Nat /\ n < W
  BY Width
<1> QED BY <1>3, <1>4 DEF A

LEMMA MulShift ==
    ASSUME NEW a \in Elem, NEW b \in Elem
    PROVE  Mul(a, ShiftReduce(b)) = ShiftReduce(Mul(a, b))
<1> DEFINE S == {s \in Elem : Mul(s, ShiftReduce(b)) = ShiftReduce(Mul(s, b))}
<1>1. {} \in S
  <2>1. ShiftReduce({}) = {}
    BY DEF ShiftReduce
  <2> QED BY <2>1, MulEmpty, ElemSum
<1>2. ASSUME NEW s \in S \cap Elem, NEW n \in 0..W-1, n \notin s PROVE s ++ {n} \in S
  <2>1. s ++ {n} \in Elem /\ ShiftReduce(b) \in Elem
    BY ElemSum, ShiftReduceType
  <2>2. Mul(s ++ {n}, ShiftReduce(b)) = Mul(s, ShiftReduce(b)) ++ Mul({n}, ShiftReduce(b))
    BY <2>1, MulToggle
  <2>3. Mul(s ++ {n}, b) = Mul(s, b) ++ Mul({n}, b)
    BY MulToggle
  <2>4. ShiftReduce(Mul(s, b) ++ Mul({n}, b)) = ShiftReduce(Mul(s, b)) ++ ShiftReduce(Mul({n}, b))
    BY MulType, ShiftReduceSum
  <2>5. Mul({n}, ShiftReduce(b)) = ShiftReduce(Mul({n}, b))
    BY MulPowerShift
  <2> QED BY <2>1, <2>2, <2>3, <2>4, <2>5
<1> HIDE DEF S
<1>3. Elem \subseteq S
  BY <1>1, <1>2, BitInduction
<1> QED BY <1>3 DEF S

LEMMA MulCommutes ==
    ASSUME NEW a \in Elem, NEW b \in Elem
    PROVE  Mul(a, b) = Mul(b, a)
BY ProductCommutes DEF Mul

LEMMA PowerAssociates ==
    ASSUME NEW b \in Elem, NEW c \in Elem, NEW n \in 0..W-1
    PROVE  Mul({n}, Mul(b, c)) = Mul(Mul({n}, b), c)
<1> DEFINE A == {k \in Nat : k < W => Mul({k}, Mul(b, c)) = Mul(Mul({k}, b), c)}
<1>0. Mul(b, c) \in Elem
  BY MulType
<1>1. 0 \in A
  BY <1>0, MulOne
<1>2. ASSUME NEW k \in Nat, k \in A PROVE k + 1 \in A
  <2> SUFFICES ASSUME k + 1 < W
               PROVE  Mul({k + 1}, Mul(b, c)) = Mul(Mul({k + 1}, b), c)
    OBVIOUS
  <2>1. k < W
    BY Width
  <2>2. Mul({k}, Mul(b, c)) = Mul(Mul({k}, b), c)
    BY <1>2, <2>1
  <2>3. Mul({k + 1}, b) = ShiftReduce(Mul({k}, b))
    BY MulNext
  <2>4. Mul({k + 1}, Mul(b, c)) = ShiftReduce(Mul({k}, Mul(b, c)))
    BY <1>0, MulNext
  <2> DEFINE m == Mul({k}, b)
  <2>5. m \in Elem /\ ShiftReduce(m) \in Elem
    BY MulType, ShiftReduceType
  <2> HIDE DEF m
  <2>6. Mul(ShiftReduce(m), c) = Mul(c, ShiftReduce(m))
    BY <2>5, MulCommutes
  <2>7. Mul(c, ShiftReduce(m)) = ShiftReduce(Mul(c, m))
    BY <2>5, MulShift
  <2>8. Mul(c, m) = Mul(m, c)
    BY <2>5, MulCommutes
  <2> QED BY <2>2, <2>3, <2>4, <2>6, <2>7, <2>8 DEF m
<1> HIDE DEF A
<1>3. Nat \subseteq A
  BY <1>1, <1>2, Induction
<1>4. n \in Nat /\ n < W
  BY Width
<1> QED BY <1>3, <1>4 DEF A

LEMMA MulAssociates ==
    ASSUME NEW a \in Elem, NEW b \in Elem, NEW c \in Elem
    PROVE  Mul(a, Mul(b, c)) = Mul(Mul(a, b), c)
<1> DEFINE S == {s \in Elem : Mul(s, Mul(b, c)) = Mul(Mul(s, b), c)}
<1>1. {} \in S
  BY MulEmpty, ElemSum
<1>2. ASSUME NEW s \in S \cap Elem, NEW n \in 0..W-1, n \notin s PROVE s ++ {n} \in S
  <2>1. s ++ {n} \in Elem /\ Mul(b, c) \in Elem /\ Mul(s, b) \in Elem /\ Mul({n}, b) \in Elem
    BY ElemSum, MulType
  <2>2. Mul(s ++ {n}, Mul(b, c)) = Mul(s, Mul(b, c)) ++ Mul({n}, Mul(b, c))
    BY <2>1, MulToggle
  <2>3. Mul(s ++ {n}, b) = Mul(s, b) ++ Mul({n}, b)
    BY MulToggle
  <2>4. Mul(Mul(s, b) ++ Mul({n}, b), c) = Mul(Mul(s, b), c) ++ Mul(Mul({n}, b), c)
    BY <2>1, SumOnLeft
  <2>5. Mul({n}, Mul(b, c)) = Mul(Mul({n}, b), c)
    BY PowerAssociates
  <2> QED BY <2>1, <2>2, <2>3, <2>4, <2>5
<1> HIDE DEF S
<1>3. Elem \subseteq S
  BY <1>1, <1>2, BitInduction
<1> QED BY <1>3 DEF S

(***************************************************************************)
(* What ghash_update() takes for granted of gf128_mul(): the elements form *)
(* a commutative ring with XOR for its addition.  (That it is a field, for *)
(* the code's polynomial, is the irreducibility the run computes.)         *)
(***************************************************************************)
THEOREM RingLaws ==
    \A a, b, c \in Elem :
        /\ Mul(a, b) \in Elem
        /\ Mul(a, b) = Mul(b, a)
        /\ Mul(a, Mul(b, c)) = Mul(Mul(a, b), c)
        /\ Mul(a ++ b, c) = Mul(a, c) ++ Mul(b, c)
        /\ Mul({0}, a) = a
BY MulType, MulCommutes, MulAssociates, SumOnLeft, MulOne
=============================================================================
