---------------------------- MODULE RatioProofs -----------------------------
(***************************************************************************)
(* What the ratio search decides, for every number of nodes, tolerance and *)
(* ratio: the powers it compares are sums of weights, since the weights    *)
(* are a geometric sequence.                                               *)
(*                                                                         *)
(* Powers and sums are recursive functions.  The library's theorems about  *)
(* those take operators; here the step of a recursion is a function and    *)
(* the predicate of an induction a set, and the least number of a set,     *)
(* which exists because < is well-founded, does the rest.                  *)
(***************************************************************************)
EXTENDS RatioSearch, FiniteSetTheorems, WellFoundedInduction, TLAPS

\* The numbers of a set have a least one.
LEMMA LeastNat ==
  ASSUME NEW S, S \in SUBSET Nat, S # {}
  PROVE  \E m \in S : \A k \in S : m <= k
<1> DEFINE R == {ss \in Nat \X Nat : ss[1] < ss[2]}
<1>1. IsWellFoundedOn(R, Nat)
  BY NatLessThanWellFounded DEF OpToRel
<1>2. PICK m \in S : \A k \in S : ~ (<<k, m>> \in R)
  <2> HIDE DEF R
  <2> QED BY <1>1, WFMin
<1>3. ASSUME NEW k \in S
      PROVE  m <= k
  <2>1. ~ (<<k, m>> \in R)
    BY <1>2
  <2>2. m \in Nat /\ k \in Nat
    OBVIOUS
  <2>3. ~(k < m)
    BY <2>1, <2>2
  <2> QED
    BY <2>2, <2>3
<1> QED
  BY <1>3

\* Induction, the predicate given by the set of the numbers it holds for.
LEMMA SetInduction ==
  ASSUME NEW S, 0 \in S, \A n \in Nat : n \in S => n + 1 \in S
  PROVE  Nat \subseteq S
<1> SUFFICES ASSUME Nat \ S # {}
             PROVE  FALSE
  OBVIOUS
<1>1. PICK m \in Nat \ S : \A k \in Nat \ S : m <= k
  BY LeastNat
<1>2. m # 0
  OBVIOUS
<1>3. m-1 \in Nat /\ ~(m <= m-1) /\ m = (m-1) + 1
  BY <1>2
<1>4. m-1 \in S
  BY <1>1, <1>3
<1> QED
  BY <1>3, <1>4

\* The sequences of integers on 0 .. n that begin with a and go on as h says.
Upto(a, h, n) ==
  {g \in [0 .. n -> Int] : /\ g[0] = a
                           /\ \A k \in 0 .. n-1 : g[k+1] = h[<<k, g[k]>>]}

\* There is one for every n.
LEMMA UptoExists ==
  ASSUME NEW a \in Int, NEW h \in [Nat \X Int -> Int]
  PROVE  \A n \in Nat : Upto(a, h, n) # {}
<1> DEFINE S == {n \in Nat : Upto(a, h, n) # {}}
<1>1. 0 \in S
  <2>1. [k \in 0 .. 0 |-> a] \in Upto(a, h, 0)
    BY DEF Upto
  <2> QED
    BY <2>1
<1>2. ASSUME NEW n \in Nat, n \in S
      PROVE  n + 1 \in S
  <2>1. PICK g \in Upto(a, h, n) : TRUE
    BY <1>2
  <2>2. /\ g \in [0 .. n -> Int] /\ g[0] = a
        /\ \A k \in 0 .. n-1 : g[k+1] = h[<<k, g[k]>>]
    BY <2>1 DEF Upto
  <2> DEFINE e == [k \in 0 .. n + 1 |-> IF k <= n THEN g[k] ELSE h[<<n, g[n]>>]]
  <2>3. g[n] \in Int /\ h[<<n, g[n]>>] \in Int
    BY <2>2
  <2>4. e \in [0 .. n+1 -> Int] /\ e[0] = a
    BY <2>2, <2>3
  <2>5. \A k \in 0 .. (n+1)-1 : e[k+1] = h[<<k, e[k]>>]
    <3> TAKE k \in 0 .. (n+1)-1
    <3>1. CASE k = n
      <4>1. e[n+1] = h[<<n, g[n]>>] /\ e[n] = g[n]
        OBVIOUS
      <4> HIDE DEF e
      <4> QED
        BY <3>1, <4>1
    <3>2. CASE k # n
      BY <2>2, <3>2
    <3> QED
      BY <3>1, <3>2
  <2>6. e \in Upto(a, h, n+1)
    BY <2>4, <2>5 DEF Upto
  <2> QED
    BY <2>6
<1> HIDE DEF S
<1>3. Nat \subseteq S
  BY <1>1, <1>2, SetInduction
<1> QED
  BY <1>3 DEF S

\* Where two of them are defined they are equal.
LEMMA UptoAgree ==
  ASSUME NEW a \in Int, NEW h \in [Nat \X Int -> Int],
         NEW m \in Nat, NEW n \in Nat, m <= n,
         NEW f \in Upto(a, h, m), NEW g \in Upto(a, h, n)
  PROVE  f[m] = g[m]
<1> DEFINE S == {k \in Nat : k <= m => f[k] = g[k]}
<1>1. 0 \in S
  BY DEF Upto
<1>2. ASSUME NEW k \in Nat, k \in S
      PROVE  k + 1 \in S
  <2>1. CASE k + 1 <= m
    <3>1. k \in 0 .. m-1 /\ k \in 0 .. n-1 /\ k <= m
      BY <2>1
    <3>2. f[k] = g[k]
      BY <1>2, <3>1
    <3>3. f[k+1] = h[<<k, f[k]>>] /\ g[k+1] = h[<<k, g[k]>>]
      BY <3>1 DEF Upto
    <3> QED
      BY <3>2, <3>3
  <2> QED
    BY <2>1
<1> HIDE DEF S
<1>3. Nat \subseteq S
  BY <1>1, <1>2, SetInduction
<1> QED
  BY <1>3 DEF S

\* So there is one for all numbers: what a recursive definition needs.
LEMMA RecursionExists ==
  ASSUME NEW a \in Int, NEW h \in [Nat \X Int -> Int]
  PROVE  \E g \in [Nat -> Int] : g[0] = a /\ \A k \in Nat : g[k+1] = h[<<k, g[k]>>]
<1> DEFINE u(n) == CHOOSE g \in Upto(a, h, n) : TRUE
           g == [n \in Nat |-> u(n)[n]]
<1>1. \A n \in Nat : u(n) \in Upto(a, h, n)
  BY UptoExists
<1> HIDE DEF u
<1>2. g \in [Nat -> Int] /\ g[0] = a
  BY <1>1 DEF Upto
<1>3. ASSUME NEW k \in Nat
      PROVE  g[k+1] = h[<<k, g[k]>>]
  <2>1. u(k)[k] = u(k+1)[k]
    BY <1>1, UptoAgree
  <2>2. k \in 0 .. (k+1) - 1 /\ k+1 \in Nat
    OBVIOUS
  <2>3. u(k+1)[k+1] = h[<<k, u(k+1)[k]>>]
    BY <1>1, <2>2 DEF Upto
  <2> QED
    BY <2>1, <2>2, <2>3
<1> HIDE DEF g
<1> QED
  BY <1>2, <1>3

-----------------------------------------------------------------------------
(* Powers and sums of weights.                                             *)

\* The equations of Powers, and its type.
LEMMA PowersFacts ==
  ASSUME NEW b \in Int
  PROVE  /\ Powers(b) \in [Nat -> Int]
         /\ Powers(b)[0] = 1
         /\ \A k \in Nat : Powers(b)[k+1] = b * Powers(b)[k]
<1> DEFINE IsPow(p) == p = [k \in Nat |-> IF k = 0 THEN 1 ELSE b * p[k-1]]
           h == [x \in Nat \X Int |-> b * x[2]]
<1>1. h \in [Nat \X Int -> Int] /\ 1 \in Int
  OBVIOUS
<1>2. PICK g \in [Nat -> Int] : g[0] = 1 /\ \A k \in Nat : g[k+1] = h[<<k, g[k]>>]
  <2> HIDE DEF h
  <2> QED
    BY <1>1, RecursionExists
<1>3. \A k \in Nat : g[k+1] = b * g[k]
  BY <1>2
<1>4. IsPow(g)
  <2>1. ASSUME NEW k \in Nat
        PROVE  g[k] = IF k = 0 THEN 1 ELSE b * g[k-1]
    <3>1. CASE k # 0
      <4>1. k-1 \in Nat /\ (k-1) + 1 = k
        BY <3>1
      <4> QED
        BY <1>3, <3>1, <4>1
    <3> QED
      BY <1>2, <3>1
  <2>2. g = [k \in Nat |-> g[k]]
    BY <1>2
  <2> QED
    BY <2>1, <2>2
<1>5. Powers(b) = CHOOSE p : IsPow(p)
  BY DEF Powers
<1>6. PICK p : p = Powers(b)
  OBVIOUS
<1>7. p = [k \in Nat |-> IF k = 0 THEN 1 ELSE b * p[k-1]]
  BY <1>4, <1>5, <1>6
<1>8. p[0] = 1 /\ \A k \in Nat : p[k+1] = b * p[k]
  BY <1>7
<1>9. p = g
  <2> DEFINE S == {k \in Nat : p[k] = g[k]}
  <2>1. 0 \in S /\ \A k \in Nat : k \in S => k + 1 \in S
    BY <1>2, <1>3, <1>8
  <2> HIDE DEF S
  <2>2. Nat \subseteq S
    BY <2>1, SetInduction
  <2>3. \A k \in Nat : p[k] = g[k]
    BY <2>2 DEF S
  <2>4. p = [k \in Nat |-> p[k]] /\ g = [k \in Nat |-> g[k]]
    BY <1>2, <1>7
  <2> QED
    BY <2>3, <2>4
<1> QED
  BY <1>6, <1>8, <1>9

\* The equations of Sums, and its type, for the weights of n nodes.
LEMMA SumsFacts ==
  ASSUME NEW n \in Nat, NEW w \in [0 .. n-1 -> Int]
  PROVE  /\ Sums(n, w) \in [0 .. n -> Int]
         /\ Sums(n, w)[0] = 0
         /\ \A k \in 0 .. n-1 : Sums(n, w)[k+1] = Sums(n, w)[k] + w[k]
<1> DEFINE IsSum(s) == s = [k \in 0 .. n |-> IF k = 0 THEN 0 ELSE s[k-1] + w[k-1]]
           v == [k \in Nat |-> IF k < n THEN w[k] ELSE 0]
           h == [x \in Nat \X Int |-> x[2] + v[x[1]]]
<1>1. h \in [Nat \X Int -> Int] /\ 0 \in Int
  <2>1. v \in [Nat -> Int]
    OBVIOUS
  <2> HIDE DEF v
  <2> QED
    BY <2>1
<1>2. PICK u \in [Nat -> Int] : u[0] = 0 /\ \A k \in Nat : u[k+1] = h[<<k, u[k]>>]
  <2> HIDE DEF h
  <2> QED
    BY <1>1, RecursionExists
<1>3. \A k \in 0 .. n-1 : u[k+1] = u[k] + w[k]
  <2> TAKE k \in 0 .. n-1
  <2>1. h[<<k, u[k]>>] = u[k] + v[k] /\ v[k] = w[k]
    BY <1>2
  <2> HIDE DEF h, v
  <2> QED
    BY <1>2, <2>1
<1> DEFINE g == [k \in 0 .. n |-> u[k]]
<1>4. /\ g \in [0 .. n -> Int] /\ g[0] = 0
      /\ \A k \in 0 .. n-1 : g[k+1] = g[k] + w[k]
  BY <1>2, <1>3
<1> HIDE DEF g, v, h
<1>5. IsSum(g)
  <2>1. ASSUME NEW k \in 0 .. n
        PROVE  g[k] = IF k = 0 THEN 0 ELSE g[k-1] + w[k-1]
    <3>1. CASE k # 0
      <4>1. k-1 \in 0 .. n-1 /\ (k-1) + 1 = k
        BY <3>1
      <4> QED
        BY <1>4, <3>1, <4>1
    <3> QED
      BY <1>4, <3>1
  <2>2. g = [k \in 0 .. n |-> g[k]]
    BY <1>4
  <2> QED
    BY <2>1, <2>2
<1>6. Sums(n, w) = CHOOSE s : IsSum(s)
  BY DEF Sums
<1>7. PICK s : s = Sums(n, w)
  OBVIOUS
<1>8. s = [k \in 0 .. n |-> IF k = 0 THEN 0 ELSE s[k-1] + w[k-1]]
  BY <1>5, <1>6, <1>7
<1>9. s[0] = 0 /\ \A k \in 0 .. n-1 : s[k+1] = s[k] + w[k]
  BY <1>8
<1>10. s = g
  <2> DEFINE S == {k \in Nat : k <= n => s[k] = g[k]}
  <2>1. 0 \in S
    BY <1>4, <1>9
  <2>2. ASSUME NEW k \in Nat, k \in S
        PROVE  k + 1 \in S
    <3> SUFFICES ASSUME k + 1 <= n
                 PROVE  s[k+1] = g[k+1]
      OBVIOUS
    <3>1. k <= n /\ k \in 0 .. n-1
      OBVIOUS
    <3>2. s[k] = g[k]
      BY <2>2, <3>1
    <3>3. s[k+1] = s[k] + w[k] /\ g[k+1] = g[k] + w[k]
      BY <1>4, <1>9, <3>1
    <3> QED
      BY <3>2, <3>3
  <2> HIDE DEF S
  <2>3. Nat \subseteq S
    BY <2>1, <2>2, SetInduction
  <2>4. \A k \in 0 .. n : s[k] = g[k]
    BY <2>3 DEF S
  <2>5. s = [k \in 0 .. n |-> s[k]] /\ g = [k \in 0 .. n |-> g[k]]
    BY <1>4, <1>8
  <2> QED
    BY <2>4, <2>5
<1> QED
  BY <1>4, <1>7, <1>10


\* Powers of a positive number are positive.
LEMMA PowersPositive ==
  ASSUME NEW b \in Nat \ {0}
  PROVE  \A k \in Nat : Powers(b)[k] \in Nat \ {0}
<1> DEFINE S == {k \in Nat : Powers(b)[k] \in Nat \ {0}}
<1>1. 0 \in S
  <2>1. b \in Int
    OBVIOUS
  <2>2. Powers(b)[0] = 1
    BY <2>1, PowersFacts
  <2> QED
    BY <2>2
<1>2. ASSUME NEW k \in Nat, k \in S
      PROVE  k + 1 \in S
  <2>1. Powers(b)[k+1] = b * Powers(b)[k]
    BY PowersFacts
  <2>2. PICK x \in Nat \ {0} : x = Powers(b)[k]
    BY <1>2
  <2>3. b * x \in Nat \ {0}
    OBVIOUS
  <2> QED
    BY <2>1, <2>2, <2>3
<1> HIDE DEF S
<1>3. Nat \subseteq S
  BY <1>1, <1>2, SetInduction
<1> QED
  BY <1>3 DEF S

\* The weights are integers.
LEMMA SchemeType ==
  ASSUME NEW n \in Nat, NEW num \in Int, Grid[n] \in Int
  PROVE  SchemeOf(n, num) \in [0 .. n-1 -> Int]
<1> SUFFICES ASSUME NEW i \in 0 .. n-1
             PROVE  Powers(num)[n-1-i] * Powers(Grid[n])[i] \in Int
  BY DEF SchemeOf
<1>1. n-1-i \in Nat /\ i \in Nat
  OBVIOUS
<1>2. Powers(num)[n-1-i] \in Int /\ Powers(Grid[n])[i] \in Int
  BY <1>1, PowersFacts
<1> QED
  BY <1>2

\* One step of a geometric sum.
LEMMA GeometricStep ==
  ASSUME NEW x \in Int, NEW g \in Int, NEW s \in Int, NEW p \in Int,
         NEW a \in Int, NEW b \in Int,
         (x - g) * s = p - (x * a) * b
  PROVE  (x - g) * (s + a * b) = p - a * (g * b)
OBVIOUS

(***************************************************************************)
(* The weights are a geometric sequence, so that (r-1) times the weight of *)
(* the first k nodes is a difference of two powers.                        *)
(***************************************************************************)
LEMMA GeometricSums ==
  ASSUME NEW n \in Nat, NEW num \in Int, Grid[n] \in Int
  PROVE  \A k \in 0 .. n :
           (num - Grid[n]) * Sums(n, SchemeOf(n, num))[k]
             = Powers(num)[n] - Power(n, num, n-k)
<1> DEFINE w == SchemeOf(n, num)
           g == Grid[n]
           x == Powers(num)
           y == Powers(g)
           s == Sums(n, w)
           S == {k \in Nat : k <= n => (num - g) * s[k] = x[n] - x[n-k] * y[k]}
<1>1. /\ x \in [Nat -> Int] /\ x[0] = 1 /\ \A k \in Nat : x[k+1] = num * x[k]
      /\ y \in [Nat -> Int] /\ y[0] = 1 /\ \A k \in Nat : y[k+1] = g * y[k]
  BY PowersFacts
<1>2. /\ s \in [0 .. n -> Int] /\ s[0] = 0
      /\ \A k \in 0 .. n-1 : s[k+1] = s[k] + w[k]
  BY SchemeType, SumsFacts
<1>3. \A k \in 0 .. n-1 : w[k] = x[n-1-k] * y[k]
  BY DEF SchemeOf
<1>4. g \in Int
  OBVIOUS
<1> HIDE DEF w, g, x, y, s
<1>5. 0 \in S
  <2>1. x[n] \in Int
    BY <1>1
  <2>2. x[n] - x[n-0] * y[0] = 0
    BY <1>1, <2>1
  <2>3. (num - g) * s[0] = 0
    BY <1>2, <1>4
  <2> QED
    BY <2>2, <2>3
<1>6. ASSUME NEW k \in Nat, k \in S
      PROVE  k + 1 \in S
  <2> SUFFICES ASSUME k + 1 <= n
               PROVE  (num - g) * s[k+1] = x[n] - x[n-(k+1)] * y[k+1]
    OBVIOUS
  <2>1. k \in 0 .. n-1 /\ k \in 0 .. n /\ k <= n /\ n-1-k \in Nat
    OBVIOUS
  <2>2. n-(k+1) = n-1-k /\ n-k = (n-1-k) + 1
    OBVIOUS
  <2>3. PICK a \in Int : a = x[n-1-k]
    BY <1>1, <2>1
  <2>4. PICK b \in Int : b = y[k]
    BY <1>1, <2>1
  <2>5. PICK t \in Int : t = s[k]
    BY <1>2, <2>1
  <2>6. PICK p \in Int : p = x[n]
    BY <1>1
  <2>7. x[n-k] = num * a /\ y[k+1] = g * b /\ s[k+1] = t + a * b
    BY <1>1, <1>2, <1>3, <2>1, <2>2, <2>3, <2>4, <2>5
  <2>8. (num - g) * t = p - (num * a) * b
    BY <1>6, <2>1, <2>4, <2>5, <2>6, <2>7
  <2>9. (num - g) * (t + a * b) = p - a * (g * b)
    BY <1>4, <2>8, GeometricStep
  <2> QED
    BY <2>2, <2>3, <2>6, <2>7, <2>9
<1> HIDE DEF S
<1>7. Nat \subseteq S
  BY <1>5, <1>6, SetInduction
<1>8. \A k \in 0 .. n : (num - g) * s[k] = x[n] - x[n-k] * y[k]
  BY <1>7 DEF S
<1>9. \A k \in 0 .. n : Power(n, num, n-k) = x[n-k] * y[k]
  <2> TAKE k \in 0 .. n
  <2>1. n-(n-k) = k
    OBVIOUS
  <2> QED
    BY <2>1 DEF Power, g, x, y
<1> QED
  BY <1>8, <1>9 DEF w, g, x, s

-----------------------------------------------------------------------------
(* The condition of the search.                                            *)

\* Multiplying by a positive number keeps the order.
LEMMA ScaledOrder ==
  ASSUME NEW d \in Nat \ {0}, NEW a \in Int, NEW b \in Int
  PROVE  a > b <=> d * a > d * b
<1>1. d * (a - b) = d * a - d * b
  OBVIOUS
<1>2. CASE a > b
  <2>1. PICK c \in Nat \ {0} : c = a - b
    BY <1>2
  <2>2. d * c \in Nat \ {0}
    OBVIOUS
  <2> QED
    BY <1>1, <1>2, <2>1, <2>2
<1>3. CASE ~(a > b)
  <2>1. PICK c \in Nat : c = b - a
    BY <1>3
  <2>2. d * c \in Nat
    OBVIOUS
  <2>3. d * c = d * b - d * a
    BY <2>1
  <2> QED
    BY <1>3, <2>2, <2>3
<1> QED
  BY <1>2, <1>3

(***************************************************************************)
(* At a ratio above 1 the powers calcInitPrioRatio compares decide I1 and  *)
(* I2 exactly, for every number of nodes and every tolerance.              *)
(***************************************************************************)
LEMMA CriterionDecides ==
  ASSUME NEW n \in Nat, NEW t \in 0 .. n-1, NEW num \in Int,
         Grid[n] \in Int, num > Grid[n]
  PROVE  Accepts(n, t+1, num) <=> /\ QuorumSuffices(n, SchemeOf(n, num), t)
                                  /\ FewerDoNot(n, SchemeOf(n, num), t)
<1> DEFINE s == Sums(n, SchemeOf(n, num))
<1>1. s \in [0 .. n -> Int]
  BY SchemeType, SumsFacts
<1>2. \A k \in 0 .. n : (num - Grid[n]) * s[k] = Powers(num)[n] - Power(n, num, n-k)
  BY GeometricSums
<1>3. \A k \in 0 .. n : Power(n, num, n-k) \in Int
  <2> TAKE k \in 0 .. n
  <2>1. n-k \in Nat /\ n-(n-k) \in Nat
    OBVIOUS
  <2>2. Powers(num)[n-k] \in Int /\ Powers(Grid[n])[n-(n-k)] \in Int
    BY <2>1, PowersFacts
  <2> QED
    BY <2>2 DEF Power
<1>4. t \in 0 .. n /\ t+1 \in 0 .. n /\ n \in 0 .. n
  OBVIOUS
<1>5. PICK all \in Int : all = Powers(num)[n]
  BY PowersFacts
<1>6. PICK one \in Int : one = Powers(Grid[n])[n]
  BY PowersFacts
<1>7. PICK p \in Int : p = Power(n, num, n-t)
  BY <1>3, <1>4
<1>8. PICK q \in Int : q = Power(n, num, n-(t+1))
  BY <1>3, <1>4
<1>9. Power(n, num, n-n) = one
  <2>1. n-n = 0 /\ n-0 = n
    OBVIOUS
  <2>2. Powers(num)[0] = 1
    BY PowersFacts
  <2> QED
    BY <1>6, <2>1, <2>2 DEF Power
<1>10. Accepts(n, t+1, num) <=> p - all > one - p /\ all - q > q - one
  <2>1. n-(t+1)+1 = n-t
    OBVIOUS
  <2> QED
    BY <1>5, <1>6, <1>7, <1>8, <2>1 DEF Accepts
<1>11. PICK d \in Nat \ {0} : d = num - Grid[n]
  OBVIOUS
<1> HIDE DEF s
<1>12. PICK a \in Int : a = s[t]
  BY <1>1, <1>4
<1>13. PICK b \in Int : b = s[t+1]
  BY <1>1, <1>4
<1>14. PICK c \in Int : c = s[n]
  BY <1>1, <1>4
<1>15. d * a = all - p /\ d * b = all - q /\ d * c = all - one
  BY <1>2, <1>4, <1>5, <1>7, <1>8, <1>9, <1>11, <1>12, <1>13, <1>14
<1>16. 2 * b > c <=> all - q > q - one
  <2>1. 2 * b > c <=> d * (2 * b) > d * c
    BY ScaledOrder
  <2>2. d * (2 * b) = 2 * (d * b)
    OBVIOUS
  <2> QED
    BY <1>15, <2>1, <2>2
<1>17. c > 2 * a <=> p - all > one - p
  <2>1. c > 2 * a <=> d * c > d * (2 * a)
    BY ScaledOrder
  <2>2. d * (2 * a) = 2 * (d * a)
    OBVIOUS
  <2> QED
    BY <1>15, <2>1, <2>2
<1>18. /\ QuorumSuffices(n, SchemeOf(n, num), t) <=> 2 * b > c
       /\ FewerDoNot(n, SchemeOf(n, num), t) <=> c > 2 * a
  BY <1>12, <1>13, <1>14 DEF QuorumSuffices, FewerDoNot, s
<1> QED
  BY <1>10, <1>16, <1>17, <1>18

\* Above ratio 1 the weights are positive and descend.
LEMMA SchemeDescends ==
  ASSUME NEW n \in Nat, NEW num \in Int, Grid[n] \in Nat \ {0}, num > Grid[n]
  PROVE  /\ \A i \in 0 .. n-1 : SchemeOf(n, num)[i] \in Nat \ {0}
         /\ \A i \in 1 .. n-1 : SchemeOf(n, num)[i] < SchemeOf(n, num)[i-1]
<1> DEFINE x == Powers(num)
           y == Powers(Grid[n])
<1>1. PICK g \in Nat \ {0} : g = Grid[n]
  OBVIOUS
<1>2. num \in Nat \ {0} /\ Grid[n] \in Int
  BY <1>1
<1>3. /\ \A k \in Nat : x[k] \in Nat \ {0} /\ y[k] \in Nat \ {0}
      /\ \A k \in Nat : x[k+1] = num * x[k] /\ y[k+1] = g * y[k]
  BY <1>1, <1>2, PowersPositive, PowersFacts
<1>4. \A i \in 0 .. n-1 : SchemeOf(n, num)[i] = x[n-1-i] * y[i]
  BY DEF SchemeOf
<1> HIDE DEF x, y
<1>5. ASSUME NEW i \in 0 .. n-1
      PROVE  SchemeOf(n, num)[i] \in Nat \ {0}
  <2>1. n-1-i \in Nat /\ i \in Nat
    OBVIOUS
  <2>2. PICK a \in Nat \ {0} : a = x[n-1-i]
    BY <1>3, <2>1
  <2>3. PICK b \in Nat \ {0} : b = y[i]
    BY <1>3, <2>1
  <2>4. a * b \in Nat \ {0}
    OBVIOUS
  <2> QED
    BY <1>4, <2>2, <2>3, <2>4
<1>6. ASSUME NEW i \in 1 .. n-1
      PROVE  SchemeOf(n, num)[i] < SchemeOf(n, num)[i-1]
  <2>1. /\ i \in 0 .. n-1 /\ i-1 \in 0 .. n-1 /\ n-1-i \in Nat /\ i-1 \in Nat
        /\ n-1-(i-1) = (n-1-i) + 1 /\ (i-1) + 1 = i
    OBVIOUS
  <2>2. PICK a \in Nat \ {0} : a = x[n-1-i]
    BY <1>3, <2>1
  <2>3. PICK b \in Nat \ {0} : b = y[i-1]
    BY <1>3, <2>1
  <2>4. x[n-1-(i-1)] = num * a /\ y[i] = g * b
    BY <1>3, <2>1, <2>2, <2>3
  <2>5. SchemeOf(n, num)[i] = a * (g * b) /\ SchemeOf(n, num)[i-1] = (num * a) * b
    BY <1>4, <2>1, <2>2, <2>3, <2>4
  <2>6. PICK c \in Nat \ {0} : c = a * b
    <3>1. a * b \in Nat \ {0}
      OBVIOUS
    <3> QED
      BY <3>1
  <2>7. a * (g * b) = c * g /\ (num * a) * b = c * num
    BY <2>6
  <2>8. c * num > c * g
    BY <1>1, <1>2, ScaledOrder
  <2>9. c * g \in Int /\ c * num \in Int
    BY <1>2
  <2> QED
    BY <2>5, <2>7, <2>8, <2>9
<1> QED
  BY <1>5, <1>6

\* Weights that descend from each node to the next descend.
LEMMA DescentIsMonotone ==
  ASSUME NEW n \in Nat, NEW w \in [0 .. n-1 -> Int],
         \A i \in 1 .. n-1 : w[i] < w[i-1]
  PROVE  \A i, j \in 0 .. n-1 : i <= j => w[j] <= w[i]
<1> SUFFICES ASSUME NEW i \in 0 .. n-1
             PROVE  \A j \in 0 .. n-1 : i <= j => w[j] <= w[i]
  OBVIOUS
<1> DEFINE S == {k \in Nat : i + k < n => w[i+k] <= w[i]}
<1>1. 0 \in S
  OBVIOUS
<1>2. ASSUME NEW k \in Nat, k \in S
      PROVE  k + 1 \in S
  <2> SUFFICES ASSUME i + (k+1) < n
               PROVE  w[i+(k+1)] <= w[i]
    OBVIOUS
  <2>1. i + (k+1) \in 1 .. n-1 /\ i + k \in 0 .. n-1 /\ i + (k+1) - 1 = i + k
    OBVIOUS
  <2>2. w[i+(k+1)] < w[i+k]
    BY <2>1
  <2>3. w[i+k] <= w[i]
    BY <1>2, <2>1
  <2>4. w[i+(k+1)] \in Int /\ w[i+k] \in Int /\ w[i] \in Int
    BY <2>1
  <2> QED
    BY <2>2, <2>3, <2>4
<1> HIDE DEF S
<1>3. Nat \subseteq S
  BY <1>1, <1>2, SetInduction
<1>4. ASSUME NEW j \in 0 .. n-1, i <= j
      PROVE  w[j] <= w[i]
  <2>1. j - i \in Nat /\ i + (j - i) = j /\ i + (j - i) < n
    BY <1>4
  <2>2. j - i \in S
    BY <1>3, <2>1
  <2> QED
    BY <2>1, <2>2 DEF S
<1> QED
  BY <1>4

(***************************************************************************)
(* If the t heaviest nodes are not a majority, t is below half of n: of    *)
(* n or more nodes with descending weights the heavier half is one.        *)
(***************************************************************************)
LEMMA LightMeansMinority ==
  ASSUME NEW n \in Nat, NEW w \in [0 .. n-1 -> Nat],
         \A i \in 1 .. n-1 : w[i] < w[i-1],
         NEW t \in 0 .. n, FewerDoNot(n, w, t)
  PROVE  2 * t < n
<1> DEFINE s == Sums(n, w)
<1>1. w \in [0 .. n-1 -> Int]
  OBVIOUS
<1>2. /\ s \in [0 .. n -> Int] /\ s[0] = 0
      /\ \A k \in 0 .. n-1 : s[k+1] = s[k] + w[k]
  BY <1>1, SumsFacts
<1>3. 2 * s[t] < s[n]
  BY DEF FewerDoNot
<1> HIDE DEF s
<1>4. \A i, j \in 0 .. n-1 : i <= j => w[j] <= w[i]
  BY <1>1, DescentIsMonotone
<1>5. ASSUME NEW m \in 0 .. n, m <= t
      PROVE  s[m] <= s[t]
  <2> DEFINE S == {k \in Nat : m + k <= n => s[m] <= s[m+k]}
  <2>1. 0 \in S
    BY <1>2
  <2>2. ASSUME NEW k \in Nat, k \in S
        PROVE  k + 1 \in S
    <3> SUFFICES ASSUME m + (k+1) <= n
                 PROVE  s[m] <= s[m+(k+1)]
      OBVIOUS
    <3>1. m + k \in 0 .. n-1 /\ m + k \in 0 .. n /\ m + (k+1) = (m+k) + 1
      OBVIOUS
    <3>2. s[m+(k+1)] = s[m+k] + w[m+k]
      BY <1>2, <3>1
    <3>3. s[m] <= s[m+k]
      BY <2>2, <3>1
    <3>4. s[m] \in Int /\ s[m+k] \in Int /\ w[m+k] \in Nat
      BY <1>2, <3>1
    <3> QED
      BY <3>2, <3>3, <3>4
  <2> HIDE DEF S
  <2>3. Nat \subseteq S
    BY <2>1, <2>2, SetInduction
  <2>4. t - m \in Nat /\ m + (t - m) = t /\ t <= n
    BY <1>5
  <2>5. t - m \in S
    BY <2>3, <2>4
  <2> QED
    BY <2>4, <2>5 DEF S
<1>6. \A k \in 0 .. n - t : s[t+k] <= s[t] + s[k]
  <2> DEFINE S == {k \in Nat : t + k <= n => s[t+k] <= s[t] + s[k]}
  <2>1. 0 \in S
    BY <1>2
  <2>2. ASSUME NEW k \in Nat, k \in S
        PROVE  k + 1 \in S
    <3> SUFFICES ASSUME t + (k+1) <= n
                 PROVE  s[t+(k+1)] <= s[t] + s[k+1]
      OBVIOUS
    <3>1. /\ t + k \in 0 .. n-1 /\ t + k \in 0 .. n /\ t + (k+1) = (t+k) + 1
          /\ k \in 0 .. n-1 /\ k \in 0 .. n /\ k <= t + k
      OBVIOUS
    <3>2. s[t+(k+1)] = s[t+k] + w[t+k] /\ s[k+1] = s[k] + w[k]
      BY <1>2, <3>1
    <3>3. s[t+k] <= s[t] + s[k]
      BY <2>2, <3>1
    <3>4. w[t+k] <= w[k]
      BY <1>4, <3>1
    <3>5. /\ s[t] \in Int /\ s[k] \in Int /\ s[t+k] \in Int
          /\ w[t+k] \in Int /\ w[k] \in Int
      BY <1>2, <3>1
    <3> HIDE DEF S
    <3>6. s[t+k] + w[t+k] <= s[t] + (s[k] + w[k])
      BY <3>3, <3>4, <3>5
    <3> QED
      BY <3>2, <3>6
  <2> HIDE DEF S
  <2>3. Nat \subseteq S
    BY <2>1, <2>2, SetInduction
  <2> QED
    BY <2>3 DEF S
<1>7. CASE n - t <= t
  <2>1. n - t \in 0 .. n - t /\ n - t \in 0 .. n /\ t + (n - t) = n
    OBVIOUS
  <2>2. s[n] <= s[t] + s[n-t]
    BY <1>6, <2>1
  <2>3. s[n-t] <= s[t]
    BY <1>5, <1>7, <2>1
  <2>4. s[n] \in Int /\ s[t] \in Int /\ s[n-t] \in Int
    BY <1>2, <2>1
  <2> QED
    BY <1>3, <2>2, <2>3, <2>4
<1>8. CASE ~(n - t <= t)
  BY <1>8
<1> QED
  BY <1>7, <1>8

(***************************************************************************)
(* The search cannot end at a ratio from 0 to 1: the power with the higher *)
(* exponent would have to be the larger one.                               *)
(***************************************************************************)
LEMMA FlatIsRefused ==
  ASSUME NEW n \in Nat, NEW t \in 0 .. n-1, NEW num \in Nat,
         Grid[n] \in Nat \ {0}, num <= Grid[n]
  PROVE  ~Accepts(n, t+1, num)
<1> SUFFICES ASSUME Accepts(n, t+1, num)
             PROVE  FALSE
  OBVIOUS
<1>1. PICK g \in Nat \ {0} : g = Grid[n]
  OBVIOUS
<1>2. g \in Int /\ num \in Int
  OBVIOUS
<1>3. n-t \in Nat /\ n-(t+1) \in Nat /\ n-t = (n-(t+1)) + 1 /\ n-(n-t) = t
      /\ n-(n-(t+1)) = t+1 /\ n-(t+1)+1 = n-t /\ t \in Nat /\ n \in Nat
  OBVIOUS
<1>4. PICK a \in Nat : a = Powers(num)[n-(t+1)]
  <2>1. CASE num = 0
    <3> DEFINE S == {k \in Nat : Powers(num)[k] \in Nat}
    <3>1. 0 \in S
      <4>1. Powers(num)[0] = 1
        BY <1>2, PowersFacts
      <4> QED
        BY <4>1
    <3>2. ASSUME NEW k \in Nat, k \in S
          PROVE  k + 1 \in S
      <4>1. Powers(num)[k+1] = num * Powers(num)[k]
        BY <1>2, PowersFacts
      <4>2. Powers(num)[k] \in Int
        BY <1>2, PowersFacts
      <4>3. Powers(num)[k+1] = 0
        BY <2>1, <4>1, <4>2
      <4> QED
        BY <4>3
    <3> HIDE DEF S
    <3>3. Nat \subseteq S
      BY <3>1, <3>2, SetInduction
    <3> QED
      BY <1>3, <3>3 DEF S
  <2>2. CASE num # 0
    BY <1>3, <2>2, PowersPositive
  <2> QED
    BY <2>1, <2>2
<1>5. PICK b \in Nat \ {0} : b = Powers(g)[t]
  BY <1>3, PowersPositive
<1>6. Powers(num)[n-t] = num * a
  BY <1>2, <1>3, <1>4, PowersFacts
<1>7. Powers(g)[t+1] = g * b
  BY <1>2, <1>3, <1>5, PowersFacts
<1>8. PICK p \in Int : p = Power(n, num, n-(t+1)+1) /\ p = (num * a) * b
  BY <1>1, <1>3, <1>5, <1>6 DEF Power
<1>9. PICK q \in Int : q = Power(n, num, n-(t+1)) /\ q = a * (g * b)
  BY <1>1, <1>3, <1>4, <1>7 DEF Power
<1>10. p > q
  <2>1. Powers(num)[n] \in Int /\ Powers(g)[n] \in Int
    BY <1>2, <1>3, PowersFacts
  <2>2. PICK all \in Int : all = Powers(num)[n]
    BY <2>1
  <2>3. PICK one \in Int : one = Powers(g)[n]
    BY <2>1
  <2>4. p - all > one - p /\ all - q > q - one
    BY <1>1, <1>8, <1>9, <2>2, <2>3 DEF Accepts
  <2> QED
    BY <2>4
<1>11. PICK c \in Nat : c = a * b
  <2>1. a * b \in Nat
    OBVIOUS
  <2> QED
    BY <2>1
<1>12. p = c * num /\ q = c * g
  BY <1>8, <1>9, <1>11
<1>13. c # 0
  BY <1>10, <1>12
<1>14. num > g
  BY <1>2, <1>10, <1>12, <1>13, ScaledOrder
<1> QED
  BY <1>1, <1>14

-----------------------------------------------------------------------------
(* The weights of Priorities.                                              *)

\* Priorities for the weights w.
Weights(n, t, w) == INSTANCE Priorities WITH N <- n, T <- t, Scheme <- w

\* The units of a weight m of one rank.
LEMMA ColumnSize ==
  ASSUME NEW a, NEW m \in Nat
  PROVE  IsFiniteSet({a} \X (1 .. m)) /\ Cardinality({a} \X (1 .. m)) = m
<1> DEFINE one == {a}
           units == 1 .. m
<1>1. IsFiniteSet(one) /\ Cardinality(one) = 1
  BY FS_Singleton
<1>2. /\ IsFiniteSet(units)
      /\ Cardinality(units) = IF 1 > m THEN 0 ELSE m - 1 + 1
  <2>1. 1 \in Int /\ m \in Int
    OBVIOUS
  <2> QED
    BY <2>1, FS_Interval
<1>3. Cardinality(units) = m
  BY <1>2
<1> HIDE DEF one, units
<1>4. /\ IsFiniteSet(one \X units)
      /\ Cardinality(one \X units) = Cardinality(one) * Cardinality(units)
  BY <1>1, <1>2, FS_Product, Zenon
<1>5. Cardinality(one \X units) = m
  BY <1>1, <1>3, <1>4
<1> QED
  BY <1>4, <1>5 DEF one, units

\* Sets that share nothing.
LEMMA DisjointSize ==
  ASSUME NEW A, IsFiniteSet(A), NEW B, IsFiniteSet(B), A \cap B = {}
  PROVE  /\ IsFiniteSet(A \cup B)
         /\ Cardinality(A \cup B) = Cardinality(A) + Cardinality(B)
<1>1. /\ IsFiniteSet(A \cup B)
      /\ Cardinality(A \cup B)
           = Cardinality(A) + Cardinality(B) - Cardinality(A \cap B)
  BY FS_Union, Zenon
<1>2. Cardinality(A \cap B) = 0
  BY FS_EmptySet
<1>3. Cardinality(A) \in Nat /\ Cardinality(B) \in Nat
  BY FS_CardinalityType
<1> QED
  BY <1>1, <1>2, <1>3

(***************************************************************************)
(* Priorities counts the units of weight of a set of ranks; for the first  *)
(* k ranks that is the sum of their weights.                               *)
(***************************************************************************)
LEMMA WeightsAreSums ==
  ASSUME NEW n \in Nat, NEW t, NEW w \in [0 .. n-1 -> Nat],
         \A i \in 1 .. n-1 : w[i] < w[i-1]
  PROVE  \A k \in 0 .. n : Weights(n, t, w)!RankWeight(0 .. k-1) = Sums(n, w)[k]
<1> DEFINE U(k) == {u \in (0 .. k-1) \X (1 .. w[0]) : u[2] <= w[u[1]]}
           s == Sums(n, w)
           S == {k \in Nat : k <= n => IsFiniteSet(U(k)) /\ Cardinality(U(k)) = s[k]}
<1>1. w \in [0 .. n-1 -> Int]
  OBVIOUS
<1>2. /\ s \in [0 .. n -> Int] /\ s[0] = 0
      /\ \A k \in 0 .. n-1 : s[k+1] = s[k] + w[k]
  BY <1>1, SumsFacts
<1>3. \A i, j \in 0 .. n-1 : i <= j => w[j] <= w[i]
  BY <1>1, DescentIsMonotone
<1> HIDE DEF s
<1>4. 0 \in S
  <2>1. U(0) = {}
    OBVIOUS
  <2> HIDE DEF U
  <2> QED
    BY <1>2, <2>1, FS_EmptySet
<1>5. ASSUME NEW k \in Nat, k \in S
      PROVE  k + 1 \in S
  <2> SUFFICES ASSUME k + 1 <= n
               PROVE  IsFiniteSet(U(k+1)) /\ Cardinality(U(k+1)) = s[k+1]
    OBVIOUS
  <2> DEFINE column == {k} \X (1 .. w[k])
  <2>1. k \in 0 .. n-1 /\ 0 \in 0 .. n-1 /\ w[k] \in Nat /\ w[0] \in Nat
    OBVIOUS
  <2>2. w[k] <= w[0]
    BY <1>3, <2>1
  <2>3. 0 .. (k+1)-1 = (0 .. k-1) \cup {k} /\ k \notin 0 .. k-1
    OBVIOUS
  <2>4. U(k+1) = U(k) \cup column
    <3>1. \A j \in 1 .. w[0] : j <= w[k] <=> j \in 1 .. w[k]
      BY <2>1
    <3>2. 1 .. w[k] \subseteq 1 .. w[0]
      BY <2>1, <2>2
    <3> QED
      BY <2>3, <3>1, <3>2, Zenon
  <2>5. U(k) \cap column = {}
    BY <2>3
  <2>6. IsFiniteSet(column) /\ Cardinality(column) = w[k]
    BY <2>1, ColumnSize
  <2>7. IsFiniteSet(U(k)) /\ Cardinality(U(k)) = s[k]
    BY <1>5, <2>1
  <2> HIDE DEF U, column
  <2>8. /\ IsFiniteSet(U(k+1))
        /\ Cardinality(U(k+1)) = Cardinality(U(k)) + Cardinality(column)
    BY <2>4, <2>5, <2>6, <2>7, DisjointSize
  <2>9. s[k] \in Int /\ s[k+1] = s[k] + w[k]
    BY <1>2, <2>1
  <2> QED
    BY <2>6, <2>7, <2>8, <2>9
<1> HIDE DEF S
<1>6. Nat \subseteq S
  BY <1>4, <1>5, SetInduction
<1>7. ASSUME NEW k \in 0 .. n
      PROVE  Weights(n, t, w)!RankWeight(0 .. k-1) = Cardinality(U(k))
  BY DEF Weights!Units, Weights!RankWeight, Weights!Cardinality, Cardinality
<1> HIDE DEF U
<1>8. \A k \in 0 .. n : Cardinality(U(k)) = s[k]
  BY <1>6 DEF S
<1> QED
  BY <1>7, <1>8 DEF s

(***************************************************************************)
(* So the weights computed from a ratio above 1 are a scheme as Priorities *)
(* assumes one, I1 and I2 included, exactly if the ratio is accepted.      *)
(***************************************************************************)
LEMMA AcceptedScheme ==
  ASSUME NEW n \in Nat, NEW t \in 0 .. n-1, NEW num \in Int,
         Grid[n] \in Nat \ {0}, num > Grid[n]
  PROVE  LET w == SchemeOf(n, num)
         IN  /\ w \in [0 .. n-1 -> Nat]
             /\ \A i, j \in 0 .. n-1 : i <= j => w[i] >= w[j]
             /\ Accepts(n, t+1, num) <=> Weights(n, t, w)!I1 /\ Weights(n, t, w)!I2
<1> DEFINE w == SchemeOf(n, num)
<1>1. Grid[n] \in Int
  OBVIOUS
<1>2. w \in [0 .. n-1 -> Int]
  BY <1>1, SchemeType
<1>3. /\ \A i \in 0 .. n-1 : w[i] \in Nat \ {0}
      /\ \A i \in 1 .. n-1 : w[i] < w[i-1]
  BY SchemeDescends
<1>4. Accepts(n, t+1, num) <=> QuorumSuffices(n, w, t) /\ FewerDoNot(n, w, t)
  BY <1>1, CriterionDecides
<1> HIDE DEF w
<1>5. w \in [0 .. n-1 -> Nat]
  BY <1>2, <1>3
<1>6. \A i, j \in 0 .. n-1 : i <= j => w[i] >= w[j]
  <2>1. \A i, j \in 0 .. n-1 : i <= j => w[j] <= w[i]
    BY <1>2, <1>3, DescentIsMonotone
  <2> QED
    BY <1>2, <2>1
<1>7. \A k \in 0 .. n : Weights(n, t, w)!RankWeight(0 .. k-1) = Sums(n, w)[k]
  <2>1. \A i \in 1 .. n-1 : w[i] < w[i-1]
    BY <1>3
  <2> QED
    BY <1>5, <2>1, WeightsAreSums, Zenon
<1>8. /\ Weights(n, t, w)!RankWeight(0 .. t) = Sums(n, w)[t+1]
      /\ Weights(n, t, w)!RankWeight(0 .. t-1) = Sums(n, w)[t]
      /\ Weights(n, t, w)!RankWeight(0 .. n-1) = Sums(n, w)[n]
  <2>1. t+1 \in 0 .. n /\ t \in 0 .. n /\ n \in 0 .. n /\ (t+1)-1 = t
    OBVIOUS
  <2> QED
    BY <1>7, <2>1
<1>9. /\ Weights(n, t, w)!I1 <=> QuorumSuffices(n, w, t)
      /\ Weights(n, t, w)!I2 <=> FewerDoNot(n, w, t)
  BY <1>8 DEF Weights!I1, Weights!I2, Weights!SchemeSum, Weights!Rank,
              QuorumSuffices, FewerDoNot
<1> QED
  BY <1>4, <1>5, <1>6, <1>9 DEF w

-----------------------------------------------------------------------------
(* When the search succeeds.                                               *)

\* Powers are multiplied by adding the exponents.
LEMMA PowersAdd ==
  ASSUME NEW b \in Int, NEW j \in Nat
  PROVE  \A k \in Nat : Powers(b)[j+k] = Powers(b)[j] * Powers(b)[k]
<1> DEFINE S == {k \in Nat : Powers(b)[j+k] = Powers(b)[j] * Powers(b)[k]}
<1>1. /\ Powers(b) \in [Nat -> Int] /\ Powers(b)[0] = 1
      /\ \A k \in Nat : Powers(b)[k+1] = b * Powers(b)[k]
  BY PowersFacts
<1>2. 0 \in S
  BY <1>1
<1>3. ASSUME NEW k \in Nat, k \in S
      PROVE  k + 1 \in S
  <2>1. j + (k+1) = (j+k) + 1 /\ j + k \in Nat
    OBVIOUS
  <2>2. PICK x \in Int : x = Powers(b)[j]
    BY <1>1
  <2>3. PICK y \in Int : y = Powers(b)[k]
    BY <1>1
  <2>4. Powers(b)[j+(k+1)] = b * (x * y) /\ Powers(b)[k+1] = b * y
    BY <1>1, <1>3, <2>1, <2>2, <2>3
  <2>5. b * (x * y) = x * (b * y)
    OBVIOUS
  <2> QED
    BY <2>2, <2>4, <2>5
<1> HIDE DEF S
<1>4. Nat \subseteq S
  BY <1>2, <1>3, SetInduction
<1> QED
  BY <1>4 DEF S

\* Products of larger numbers are larger.
LEMMA ProductGrows ==
  ASSUME NEW a \in Nat, NEW b \in Nat, NEW c \in Nat, NEW d \in Nat, a <= b, c <= d
  PROVE  a * c <= b * d
<1>1. PICK x \in Nat : b = a + x
  <2>1. b - a \in Nat /\ b = a + (b - a)
    OBVIOUS
  <2> QED
    BY <2>1
<1>2. PICK y \in Nat : d = c + y
  <2>1. d - c \in Nat /\ d = c + (d - c)
    OBVIOUS
  <2> QED
    BY <2>1
<1>3. b * d = a * c + (a * y + x * c + x * y)
  BY <1>1, <1>2
<1>4. a * y \in Nat /\ x * c \in Nat /\ x * y \in Nat /\ a * c \in Nat
  OBVIOUS
<1> QED
  BY <1>3, <1>4

\* The two facts about powers together.
LEMMA NaturalPowers ==
  ASSUME NEW b \in Nat \ {0}
  PROVE  /\ \A k \in Nat : Powers(b)[k] \in Nat \ {0}
         /\ Powers(b)[0] = 1
         /\ \A k \in Nat : Powers(b)[k+1] = b * Powers(b)[k]
<1>1. b \in Int
  OBVIOUS
<1> QED
  BY <1>1, PowersPositive, PowersFacts

\* So are powers.
LEMMA PowersGrow ==
  ASSUME NEW g \in Nat \ {0}, NEW x \in Nat \ {0}, g <= x
  PROVE  \A k \in Nat : Powers(g)[k] <= Powers(x)[k]
<1> DEFINE S == {k \in Nat : Powers(g)[k] <= Powers(x)[k]}
<1>1. /\ \A k \in Nat : Powers(g)[k] \in Nat \ {0} /\ Powers(x)[k] \in Nat \ {0}
      /\ Powers(g)[0] = 1 /\ Powers(x)[0] = 1
      /\ \A k \in Nat : Powers(g)[k+1] = g * Powers(g)[k] /\ Powers(x)[k+1] = x * Powers(x)[k]
  BY NaturalPowers
<1>2. 0 \in S
  BY <1>1
<1>3. ASSUME NEW k \in Nat, k \in S
      PROVE  k + 1 \in S
  <2>1. g * Powers(g)[k] <= x * Powers(x)[k]
    BY <1>1, <1>3, ProductGrows
  <2> QED
    BY <1>1, <2>1
<1> HIDE DEF S
<1>4. Nat \subseteq S
  BY <1>2, <1>3, SetInduction
<1> QED
  BY <1>4 DEF S

(***************************************************************************)
(* Bernoulli's inequality for (g / (g+j))^k.                               *)
(***************************************************************************)
LEMMA Bernoulli ==
  ASSUME NEW g \in Nat \ {0}, NEW j \in Nat
  PROVE  \A k \in Nat : Powers(g+j)[k] * (g+j-k*j) <= Powers(g)[k] * (g+j)
<1> DEFINE S == {k \in Nat : Powers(g+j)[k] * (g+j-k*j) <= Powers(g)[k] * (g+j)}
<1>1. PICK x \in Nat \ {0} : x = g+j
  OBVIOUS
<1>2. /\ \A k \in Nat : Powers(g)[k] \in Nat \ {0} /\ Powers(x)[k] \in Nat \ {0}
      /\ Powers(g)[0] = 1 /\ Powers(x)[0] = 1
      /\ \A k \in Nat : Powers(g)[k+1] = g * Powers(g)[k] /\ Powers(x)[k+1] = x * Powers(x)[k]
  BY NaturalPowers
<1>3. 0 \in S
  BY <1>1, <1>2
<1>4. ASSUME NEW k \in Nat, k \in S
      PROVE  k + 1 \in S
  <2>1. PICK a \in Nat : a = Powers(x)[k]
    BY <1>2
  <2>2. PICK b \in Nat : b = Powers(g)[k]
    BY <1>2
  <2>3. PICK c \in Nat : b * x = a * (x-k*j) + c
    <3>1. a * (x-k*j) <= b * x
      BY <1>1, <1>4, <2>1, <2>2
    <3>2. a * (x-k*j) \in Int /\ b * x \in Int
      OBVIOUS
    <3> QED
      BY <3>1, <3>2
  <2>4. (g * b) * x = (x * a) * (x-(k+1)*j) + (a * (k * (j * j)) + g * c)
    <3>1. (g * b) * x = g * (b * x)
      OBVIOUS
    <3>2. g = x - j
      BY <1>1
    <3>3. (x-j) * (a * (x-k*j) + c)
            = (x * a) * (x-(k+1)*j) + (a * (k * (j * j)) + (x-j) * c)
      OBVIOUS
    <3> QED
      BY <2>3, <3>1, <3>2, <3>3
  <2>5. a * (k * (j * j)) \in Nat /\ g * c \in Nat /\ (x * a) * (x-(k+1)*j) \in Int
    <3>1. k * (j * j) \in Nat
      <4>1. j * j \in Nat
        OBVIOUS
      <4> QED
        BY <4>1
    <3> QED
      BY <3>1
  <2>6. (x * a) * (x-(k+1)*j) <= (g * b) * x
    BY <2>4, <2>5
  <2> QED
    BY <1>1, <1>2, <2>1, <2>2, <2>6
<1> HIDE DEF S
<1>5. Nat \subseteq S
  BY <1>3, <1>4, SetInduction
<1> QED
  BY <1>5 DEF S

(***************************************************************************)
(* And for ((x+1) / x)^k.                                                  *)
(***************************************************************************)
LEMMA BernoulliBelow ==
  ASSUME NEW x \in Nat \ {0}
  PROVE  \A k \in Nat : Powers(x)[k] * (x+k) <= Powers(x+1)[k] * x
<1> DEFINE S == {k \in Nat : Powers(x)[k] * (x+k) <= Powers(x+1)[k] * x}
<1>1. PICK y \in Nat \ {0} : y = x+1
  OBVIOUS
<1>2. /\ \A k \in Nat : Powers(x)[k] \in Nat \ {0} /\ Powers(y)[k] \in Nat \ {0}
      /\ Powers(x)[0] = 1 /\ Powers(y)[0] = 1
      /\ \A k \in Nat : Powers(x)[k+1] = x * Powers(x)[k] /\ Powers(y)[k+1] = y * Powers(y)[k]
  BY NaturalPowers
<1>3. 0 \in S
  BY <1>1, <1>2
<1>4. ASSUME NEW k \in Nat, k \in S
      PROVE  k + 1 \in S
  <2>1. PICK a \in Nat : a = Powers(x)[k]
    BY <1>2
  <2>2. PICK b \in Nat : b = Powers(y)[k]
    BY <1>2
  <2>3. PICK c \in Nat : b * x = a * (x+k) + c
    <3>1. a * (x+k) <= b * x
      BY <1>1, <1>4, <2>1, <2>2
    <3>2. a * (x+k) \in Int /\ b * x \in Int
      OBVIOUS
    <3> QED
      BY <3>1, <3>2
  <2>4. (y * b) * x = (x * a) * (x+(k+1)) + (a * k + y * c)
    <3>1. (y * b) * x = y * (b * x)
      OBVIOUS
    <3>2. (x+1) * (a * (x+k) + c) = (x * a) * (x+(k+1)) + (a * k + (x+1) * c)
      OBVIOUS
    <3> QED
      BY <1>1, <2>3, <3>1, <3>2
  <2>5. a * k \in Nat /\ y * c \in Nat /\ (x * a) * (x+(k+1)) \in Int
    OBVIOUS
  <2>6. (x * a) * (x+(k+1)) <= (y * b) * x
    BY <2>4, <2>5
  <2> QED
    BY <1>1, <1>2, <2>1, <2>2, <2>6
<1> HIDE DEF S
<1>5. Nat \subseteq S
  BY <1>3, <1>4, SetInduction
<1> QED
  BY <1>5 DEF S

\* What a step of at most 1/((e+1)^2 - 1) means.
LEMMA FineStep ==
  ASSUME NEW e \in Nat, NEW h \in Nat, (e+1) * (e+1) <= h
  PROVE  h - e \in Nat \ {0} /\ h * (e * e) < (h - e) * (h - e)
<1>1. PICK j \in Nat : h = (e+1) * (e+1) + j
  <2>1. (e+1) * (e+1) \in Int
    OBVIOUS
  <2>2. h - (e+1) * (e+1) \in Nat
    BY <2>1
  <2> QED
    BY <2>1, <2>2
<1>2. PICK s \in Nat : s = e * e
  <2>1. e * e \in Nat
    OBVIOUS
  <2> QED
    BY <2>1
<1>3. PICK u \in Nat : u = s * j
  <2>1. s * j \in Nat
    OBVIOUS
  <2> QED
    BY <2>1
<1>4. PICK v \in Nat : v = e * j
  <2>1. e * j \in Nat
    OBVIOUS
  <2> QED
    BY <2>1
<1>5. PICK w \in Nat : w = j * j
  <2>1. j * j \in Nat
    OBVIOUS
  <2> QED
    BY <2>1
<1>6. h = s + 2 * e + 1 + j
  BY <1>1, <1>2
<1>7. (h - e) * (h - e) - h * (e * e) = 2 * s + 2 * e + u + 2 * v + 1 + 2 * j + w
  <2>1. (h - e) * (h - e) = (s + e + 1 + j) * (s + e + 1 + j)
    BY <1>6
  <2>2. h * (e * e) = (s + 2 * e + 1 + j) * s
    BY <1>2, <1>6
  <2>3. (s + e + 1 + j) * (s + e + 1 + j) - (s + 2 * e + 1 + j) * s
          = e * e + 1 + j * j + s * j + 2 * (e * j) + s + 2 * e + 2 * j
    OBVIOUS
  <2> QED
    BY <1>2, <1>3, <1>4, <1>5, <2>1, <2>2, <2>3
<1>8. (h - e) * (h - e) \in Int /\ h * (e * e) \in Int
  OBVIOUS
<1> QED
  BY <1>6, <1>7, <1>8

(***************************************************************************)
(* Two powers a and b = a - d with the same exponent e, of neighbouring    *)
(* bases h and h - 1, are close if the step is fine.                       *)
(***************************************************************************)
LEMMA PowersClose ==
  ASSUME NEW e \in Nat, NEW h \in Nat, (e+1) * (e+1) <= h,
         NEW b \in Nat \ {0}, NEW d \in Nat, (b + d) * (h - e) <= b * h
  PROVE  h * (d * d) < b * b
<1>1. PICK q \in Nat \ {0} : q = h - e
  BY FineStep
<1>2. h * (e * e) < q * q
  BY <1>1, FineStep
<1>3. d * q <= b * e
  <2>1. (b + d) * (h - e) = b * h - b * e + d * q
    BY <1>1
  <2>2. b * h \in Int /\ b * e \in Int /\ d * q \in Int
    OBVIOUS
  <2> QED
    BY <2>1, <2>2
<1>4. (d * q) * (d * q) <= (b * e) * (b * e)
  <2>1. d * q \in Nat /\ b * e \in Nat
    OBVIOUS
  <2> QED
    BY <1>3, <2>1, ProductGrows
<1>5. h * ((d * q) * (d * q)) <= h * ((b * e) * (b * e))
  <2>1. (d * q) * (d * q) \in Nat /\ (b * e) * (b * e) \in Nat
    OBVIOUS
  <2> QED
    BY <1>4, <2>1, ProductGrows
<1>6. (b * b) * (q * q) > (b * b) * (h * (e * e))
  <2>1. b * b \in Nat \ {0} /\ q * q \in Int /\ h * (e * e) \in Int
    OBVIOUS
  <2> QED
    BY <1>2, <2>1, ScaledOrder
<1>7. /\ h * ((d * q) * (d * q)) = (q * q) * (h * (d * d))
      /\ h * ((b * e) * (b * e)) = (b * b) * (h * (e * e))
      /\ (b * b) * (q * q) = (q * q) * (b * b)
  OBVIOUS
<1>8. (q * q) * (b * b) > (q * q) * (h * (d * d))
  <2>1. /\ (q * q) * (h * (d * d)) \in Int /\ (b * b) * (h * (e * e)) \in Int
        /\ (b * b) * (q * q) \in Int
    OBVIOUS
  <2> QED
    BY <1>5, <1>6, <1>7, <2>1
<1>9. q * q \in Nat \ {0} /\ b * b \in Int /\ h * (d * d) \in Int
  OBVIOUS
<1> QED
  BY <1>8, <1>9, ScaledOrder

\* With a fine step the powers of the two smallest ratios are close.
LEMMA StepsClose ==
  ASSUME NEW e \in Nat, NEW g \in Nat \ {0}, (e+1) * (e+1) <= g + 1
  PROVE  \E b \in Nat \ {0}, d \in Nat :
           /\ Powers(g)[e] = b /\ Powers(g+1)[e] = b + d
           /\ (g+1) * (d * d) < b * b
<1>1. g + 1 \in Nat \ {0} /\ g <= g + 1
  OBVIOUS
<1>2. PICK b \in Nat \ {0} : b = Powers(g)[e]
  BY NaturalPowers
<1>3. PICK a \in Nat \ {0} : a = Powers(g+1)[e]
  BY <1>1, NaturalPowers
<1>4. b <= a
  BY <1>1, <1>2, <1>3, PowersGrow
<1>5. PICK d \in Nat : a = b + d
  <2>1. a - b \in Nat /\ a = b + (a - b)
    BY <1>4
  <2> QED
    BY <2>1
<1>6. (b + d) * (g+1-e) <= b * (g+1)
  <2>1. Powers(g+1)[e] * (g+1-e*1) <= Powers(g)[e] * (g+1)
    BY Bernoulli
  <2> QED
    BY <1>2, <1>3, <1>5, <2>1
<1>7. (g+1) * (d * d) < b * b
  BY <1>1, <1>6, PowersClose
<1> QED
  BY <1>2, <1>3, <1>5, <1>7

(***************************************************************************)
(* An odd number of nodes and the default tolerance.                       *)
(***************************************************************************)
LEMMA OddAccepted ==
  ASSUME NEW m \in Nat, NEW n, n = 2 * m + 1,
         Grid[n] \in Nat \ {0}, (m+1) * (m+1) <= Grid[n] + 1
  PROVE  Accepts(n, m+1, Grid[n] + 1)
<1>1. PICK g \in Nat \ {0} : g = Grid[n]
  OBVIOUS
<1>2. PICK h \in Nat \ {0} : h = g + 1
  OBVIOUS
<1>3. PICK b \in Nat \ {0}, d \in Nat :
        /\ Powers(g)[m] = b /\ Powers(h)[m] = b + d
        /\ h * (d * d) < b * b
  BY <1>1, <1>2, StepsClose
<1>4. PICK a \in Nat \ {0} : a = b + d
  OBVIOUS
<1>5. Powers(h)[m+1] = h * a /\ Powers(g)[m+1] = g * b
  BY <1>3, <1>4, NaturalPowers
<1>6. n = m + (m+1) /\ m+1 \in Nat /\ n \in Nat
  OBVIOUS
<1>7. Powers(h)[n] = a * (h * a) /\ Powers(g)[n] = b * (g * b)
  <2>1. h \in Int /\ g \in Int
    OBVIOUS
  <2>2. Powers(h)[m+(m+1)] = Powers(h)[m] * Powers(h)[m+1]
    BY <1>6, <2>1, PowersAdd
  <2>3. Powers(g)[m+(m+1)] = Powers(g)[m] * Powers(g)[m+1]
    BY <1>6, <2>1, PowersAdd
  <2> QED
    BY <1>3, <1>4, <1>5, <1>6, <2>2, <2>3
<1>8. /\ n-(m+1)+1 = m+1 /\ n-(m+1) = m
      /\ n-(n-(m+1)+1) = m /\ n-(n-(m+1)) = m+1
  BY <1>6
<1>9. /\ Power(n, h, n-(m+1)+1) = (h * a) * b
      /\ Power(n, h, n-(m+1)) = a * (g * b)
  <2>1. n - (m+1) = m /\ n - m = m+1
    BY <1>6
  <2> QED
    BY <1>1, <1>3, <1>4, <1>5, <1>8, <2>1 DEF Power
<1>10. (h * a) * b - a * (h * a) > b * (g * b) - (h * a) * b
  <2>1. ((h * a) * b - a * (h * a)) - (b * (g * b) - (h * a) * b)
          = b * b - h * (d * d)
    BY <1>2, <1>4
  <2>2. /\ (h * a) * b - a * (h * a) \in Int /\ b * (g * b) - (h * a) * b \in Int
        /\ b * b \in Int /\ h * (d * d) \in Int
    OBVIOUS
  <2> QED
    BY <1>3, <2>1, <2>2
<1>11. a * (h * a) - a * (g * b) > a * (g * b) - b * (g * b)
  <2>1. (a * (h * a) - a * (g * b)) - (a * (g * b) - b * (g * b))
          = g * (d * d) + a * a
    BY <1>2, <1>4
  <2>2. /\ a * (h * a) - a * (g * b) \in Int /\ a * (g * b) - b * (g * b) \in Int
        /\ g * (d * d) \in Nat /\ a * a \in Nat \ {0}
    <3>1. d * d \in Nat
      OBVIOUS
    <3> QED
      BY <3>1
  <2> QED
    BY <2>1, <2>2
<1> QED
  BY <1>1, <1>2, <1>7, <1>9, <1>10, <1>11 DEF Accepts

(***************************************************************************)
(* An even number of nodes and the default tolerance.                      *)
(***************************************************************************)
LEMMA EvenAccepted ==
  ASSUME NEW e \in Nat, NEW n, n = 2 * (e+1),
         Grid[n] \in Nat \ {0}, (e+1) * (e+1) <= Grid[n] + 1
  PROVE  Accepts(n, e+1, Grid[n] + 1)
<1>1. PICK g \in Nat \ {0} : g = Grid[n]
  OBVIOUS
<1>2. PICK h \in Nat \ {0} : h = g + 1
  OBVIOUS
<1>3. PICK b \in Nat \ {0}, d \in Nat :
        /\ Powers(g)[e] = b /\ Powers(h)[e] = b + d
        /\ h * (d * d) < b * b
  BY <1>1, <1>2, StepsClose
<1>4. PICK a \in Nat \ {0} : a = b + d
  OBVIOUS
<1>5. e+1 \in Nat /\ e+2 \in Nat /\ n = (e+1) + (e+1) /\ (e+1)+1 = e+2 /\ n \in Nat
  OBVIOUS
<1>6. Powers(h)[e+1] = h * a /\ Powers(g)[e+1] = g * b
  BY <1>3, <1>4, NaturalPowers
<1>7. Powers(h)[e+2] = h * (h * a)
  <2>1. Powers(h)[(e+1)+1] = h * Powers(h)[e+1]
    BY <1>5, NaturalPowers
  <2> QED
    BY <1>5, <1>6, <2>1
<1>8. Powers(h)[n] = (h * a) * (h * a) /\ Powers(g)[n] = (g * b) * (g * b)
  <2>1. h \in Int /\ g \in Int
    OBVIOUS
  <2>2. Powers(h)[(e+1)+(e+1)] = Powers(h)[e+1] * Powers(h)[e+1]
    BY <1>5, <2>1, PowersAdd
  <2>3. Powers(g)[(e+1)+(e+1)] = Powers(g)[e+1] * Powers(g)[e+1]
    BY <1>5, <2>1, PowersAdd
  <2> QED
    BY <1>5, <1>6, <2>2, <2>3
<1>9. /\ Power(n, h, n-(e+1)+1) = (h * (h * a)) * b
      /\ Power(n, h, n-(e+1)) = (h * a) * (g * b)
  <2>1. n-(e+1)+1 = e+2 /\ n-(e+1) = e+1 /\ n-(e+2) = e
    BY <1>5
  <2> QED
    BY <1>1, <1>3, <1>4, <1>6, <1>7, <2>1 DEF Power
<1>10. (h * (h * a)) * b - (h * a) * (h * a)
         > (g * b) * (g * b) - (h * (h * a)) * b
  <2>1. PICK c \in Nat \ {0} : b * b = h * (d * d) + c
    <3>1. b * b \in Int /\ h * (d * d) \in Int
      OBVIOUS
    <3>2. b * b - h * (d * d) \in Nat \ {0} /\ b * b = h * (d * d) + (b * b - h * (d * d))
      BY <1>3, <3>1
    <3> QED
      BY <3>2
  <2>2. ((h * (h * a)) * b - (h * a) * (h * a)) - ((g * b) * (g * b) - (h * (h * a)) * b)
          = (2 * h - 1) * (b * b) - h * (h * (d * d))
    BY <1>2, <1>4
  <2>3. (2 * h - 1) * (b * b) - h * (h * (d * d)) = g * (b * b) + h * c
    <3>1. (2 * h - 1) * (b * b) = g * (b * b) + h * (b * b)
      BY <1>2
    <3>2. h * (b * b) = h * (h * (d * d)) + h * c
      BY <2>1
    <3>3. h * (h * (d * d)) \in Int /\ h * c \in Int /\ g * (b * b) \in Int
      OBVIOUS
    <3> QED
      BY <3>1, <3>2, <3>3
  <2>4. g * (b * b) \in Nat /\ h * c \in Nat \ {0}
    <3>1. b * b \in Nat
      OBVIOUS
    <3> QED
      BY <3>1
  <2>5. (h * (h * a)) * b - (h * a) * (h * a) \in Int /\ (g * b) * (g * b) - (h * (h * a)) * b \in Int
    OBVIOUS
  <2> QED
    BY <2>2, <2>3, <2>4, <2>5
<1>11. (h * a) * (h * a) - (h * a) * (g * b) > (h * a) * (g * b) - (g * b) * (g * b)
  <2>1. PICK c \in Nat \ {0} : c = h * a - g * b
    <3>1. h * a - g * b = g * d + a
      BY <1>2, <1>4
    <3>2. g * d \in Nat
      OBVIOUS
    <3>3. h * a - g * b \in Nat \ {0}
      BY <3>1, <3>2
    <3> QED
      BY <3>3
  <2>2. ((h * a) * (h * a) - (h * a) * (g * b)) - ((h * a) * (g * b) - (g * b) * (g * b))
          = c * c
    BY <2>1
  <2>3. /\ c * c \in Nat \ {0} /\ (h * a) * (h * a) - (h * a) * (g * b) \in Int
        /\ (h * a) * (g * b) - (g * b) * (g * b) \in Int
    OBVIOUS
  <2> QED
    BY <2>2, <2>3
<1> QED
  BY <1>1, <1>2, <1>8, <1>9, <1>10, <1>11 DEF Accepts

(***************************************************************************)
(* With a fine step the default tolerance has a ratio above 1 that is      *)
(* accepted: the search ends at it, if not before.                         *)
(***************************************************************************)
LEMMA DefaultIsAccepted ==
  ASSUME NEW n \in Nat \ {0}, Grid[n] \in Nat \ {0}, FineFor(n)
  PROVE  Accepts(n, (n-1) \div 2 + 1, Grid[n] + 1)
<1>1. CASE n % 2 = 1
  <2>1. PICK m \in Nat : n = 2 * m + 1 /\ (n-1) \div 2 = m /\ Half(n) = m + 1
    <3>1. /\ (n-1) \div 2 \in Nat /\ n = 2 * ((n-1) \div 2) + 1
          /\ (n+1) \div 2 = (n-1) \div 2 + 1
      BY <1>1
    <3> QED
      BY <3>1 DEF Half
  <2> QED
    BY <2>1, OddAccepted DEF FineFor
<1>2. CASE n % 2 = 0
  <2>1. PICK e \in Nat : n = 2 * (e+1) /\ (n-1) \div 2 = e /\ Half(n) = e + 1
    <3>1. /\ (n-1) \div 2 \in Nat /\ n = 2 * ((n-1) \div 2 + 1)
          /\ (n+1) \div 2 = (n-1) \div 2 + 1
      BY <1>2
    <3> QED
      BY <3>1 DEF Half
  <2> QED
    BY <2>1, EvenAccepted DEF FineFor
<1>3. n % 2 = 1 \/ n % 2 = 0
  OBVIOUS
<1> QED
  BY <1>1, <1>2, <1>3

(***************************************************************************)
(* The two comparisons of the search: the t first nodes are below the      *)
(* majority; the t+1 first are over it.                                    *)
(***************************************************************************)
Below(n, t, num) ==
  Power(n, num, n-t) - Powers(num)[n] > Powers(Grid[n])[n] - Power(n, num, n-t)

Over(n, t, num) ==
  Powers(num)[n] - Power(n, num, n-(t+1)) > Power(n, num, n-(t+1)) - Powers(Grid[n])[n]

\* They are what Accepts asks.
LEMMA AcceptsParts ==
  ASSUME NEW n \in Nat, NEW t \in 0 .. n-1, NEW num
  PROVE  Accepts(n, t+1, num) <=> Below(n, t, num) /\ Over(n, t, num)
<1>1. n-(t+1)+1 = n-t
  OBVIOUS
<1> QED
  BY <1>1 DEF Accepts, Below, Over

(***************************************************************************)
(* They compare products of four powers, with the exponents t and n-t-1 of *)
(* the ratio x / g.                                                        *)
(***************************************************************************)
LEMMA Factors ==
  ASSUME NEW n \in Nat, NEW t \in 0 .. n-1, NEW x \in Nat \ {0}, Grid[n] \in Nat \ {0}
  PROVE  LET p == n-(t+1)
             u == Powers(x)[p]
             a == Powers(x)[t]
             k == Powers(Grid[n])[p]
             c == Powers(Grid[n])[t]
         IN  /\ u \in Nat \ {0} /\ a \in Nat \ {0} /\ k \in Nat \ {0} /\ c \in Nat \ {0}
             /\ Powers(x)[n] = x * u * a
             /\ Below(n, t, x) <=> 2 * (x * u * c) > x * u * a + Grid[n] * k * c
             /\ Over(n, t, x) <=> x * u * a + Grid[n] * k * c > 2 * (u * Grid[n] * c)
<1> DEFINE p == n-(t+1)
<1>1. PICK g \in Nat \ {0} : g = Grid[n]
  OBVIOUS
<1>2. p \in Nat /\ t \in Nat /\ p + 1 = n - t /\ n = (p+1) + t /\ n-(n-t) = t /\ n-p = t+1
      /\ p+1 \in Nat
  OBVIOUS
<1> HIDE DEF p
<1>3. PICK u \in Nat \ {0} : u = Powers(x)[p]
  BY <1>2, NaturalPowers
<1>4. PICK a \in Nat \ {0} : a = Powers(x)[t]
  BY <1>2, NaturalPowers
<1>5. PICK k \in Nat \ {0} : k = Powers(g)[p]
  BY <1>2, NaturalPowers
<1>6. PICK c \in Nat \ {0} : c = Powers(g)[t]
  BY <1>2, NaturalPowers
<1>7. Powers(x)[p+1] = x * u /\ Powers(g)[p+1] = g * k /\ Powers(g)[t+1] = g * c
  BY <1>2, <1>3, <1>5, <1>6, NaturalPowers
<1>8. Powers(x)[n] = (x * u) * a /\ Powers(g)[n] = (g * k) * c
  <2>1. x \in Int /\ g \in Int
    OBVIOUS
  <2>2. Powers(x)[(p+1)+t] = Powers(x)[p+1] * Powers(x)[t]
    BY <1>2, <2>1, PowersAdd
  <2>3. Powers(g)[(p+1)+t] = Powers(g)[p+1] * Powers(g)[t]
    BY <1>2, <2>1, PowersAdd
  <2> QED
    BY <1>2, <1>4, <1>6, <1>7, <2>2, <2>3
<1>9. Power(n, x, n-t) = (x * u) * c
  BY <1>1, <1>2, <1>6, <1>7 DEF Power
<1>10. Power(n, x, p) = u * (g * c)
  BY <1>1, <1>2, <1>3, <1>7 DEF Power
<1>11. Below(n, t, x) <=> 2 * (x * u * c) > x * u * a + g * k * c
  <2>1. PICK z \in Int : z = (x * u) * c
    OBVIOUS
  <2>2. PICK v \in Int : v = (x * u) * a
    OBVIOUS
  <2>3. PICK w \in Int : w = (g * k) * c
    OBVIOUS
  <2>4. Below(n, t, x) <=> z - v > w - z
    BY <1>1, <1>8, <1>9, <2>1, <2>2, <2>3 DEF Below
  <2> QED
    BY <2>1, <2>2, <2>3, <2>4
<1>12. Over(n, t, x) <=> x * u * a + g * k * c > 2 * (u * g * c)
  <2>1. PICK z \in Int : z = u * (g * c)
    OBVIOUS
  <2>2. PICK v \in Int : v = (x * u) * a
    OBVIOUS
  <2>3. PICK w \in Int : w = (g * k) * c
    OBVIOUS
  <2>4. Over(n, t, x) <=> v - z > z - w
    BY <1>1, <1>8, <1>10, <2>1, <2>2, <2>3 DEF Over, p
  <2>5. u * g * c = z
    BY <2>1
  <2> QED
    BY <2>1, <2>2, <2>3, <2>4, <2>5
<1> QED
  BY <1>1, <1>3, <1>4, <1>5, <1>6, <1>8, <1>11, <1>12 DEF p

(***************************************************************************)
(* At ratio 2 the t+1 first nodes are over the majority.                   *)
(***************************************************************************)
LEMMA OverAtTwo ==
  ASSUME NEW n \in Nat, NEW t \in 0 .. n-1, Grid[n] \in Nat \ {0}
  PROVE  Over(n, t, 2 * Grid[n])
<1>1. PICK g \in Nat \ {0} : g = Grid[n]
  OBVIOUS
<1>2. PICK x \in Nat \ {0} : x = 2 * g /\ g <= x
  OBVIOUS
<1> DEFINE X == Powers(x)
           G == Powers(g)
           p == n-(t+1)
<1>3. /\ X[p] \in Nat \ {0} /\ X[t] \in Nat \ {0} /\ G[p] \in Nat \ {0} /\ G[t] \in Nat \ {0}
      /\ Over(n, t, x) <=> x * X[p] * X[t] + g * G[p] * G[t] > 2 * (X[p] * g * G[t])
  BY <1>1, Factors
<1>4. G[t] <= X[t]
  BY <1>2, PowersGrow
<1> HIDE DEF X, G, p
<1>5. PICK u \in Nat \ {0} : u = X[p]
  BY <1>3
<1>6. PICK a \in Nat \ {0} : a = X[t]
  BY <1>3
<1>7. PICK k \in Nat \ {0} : k = G[p]
  BY <1>3
<1>8. PICK c \in Nat \ {0} : c = G[t]
  BY <1>3
<1>9. PICK d \in Nat : a = c + d
  <2>1. a - c \in Nat /\ a = c + (a - c)
    BY <1>4, <1>6, <1>8
  <2> QED
    BY <2>1
<1>10. x * u * a + g * k * c = 2 * (u * g * c) + (2 * (g * u * d) + g * k * c)
  BY <1>2, <1>9
<1>11. g * u * d \in Nat /\ g * k * c \in Nat \ {0} /\ u * g * c \in Int
  <2>1. g * u \in Nat /\ g * k \in Nat \ {0} /\ u * g \in Int
    OBVIOUS
  <2> QED
    BY <2>1
<1>12. x * u * a + g * k * c > 2 * (u * g * c)
  BY <1>10, <1>11
<1> QED
  BY <1>1, <1>2, <1>3, <1>5, <1>6, <1>7, <1>8, <1>12

(***************************************************************************)
(* With a fine step the t first nodes are below the majority at the        *)
(* smallest ratio above 1: fewer nodes than with the default tolerance.    *)
(***************************************************************************)
LEMMA BelowAtOne ==
  ASSUME NEW n \in Nat \ {0}, NEW t \in Nat, 2 * t < n,
         Grid[n] \in Nat \ {0}, FineFor(n)
  PROVE  Below(n, t, Grid[n] + 1)
<1>1. PICK g \in Nat \ {0} : g = Grid[n]
  OBVIOUS
<1>2. PICK h \in Nat \ {0} : h = g + 1 /\ g <= h
  OBVIOUS
<1>3. PICK m \in Nat : m = (n-1) \div 2
  OBVIOUS
<1>4. m \in 0 .. n-1 /\ t <= m /\ t \in 0 .. n-1
  BY <1>3
<1>5. Below(n, m, h)
  BY <1>1, <1>2, <1>3, <1>4, DefaultIsAccepted, AcceptsParts
<1>6. PICK e \in Nat : m = t + e
  <2>1. m - t \in Nat /\ m = t + (m - t)
    BY <1>4
  <2> QED
    BY <2>1
<1>7. n-t = (n-m) + e /\ n-m \in Nat /\ n-t \in Nat /\ n-(n-t) = t /\ n-(n-m) = t + e /\ t + e \in Nat
  BY <1>4, <1>6
<1>8. PICK u \in Nat \ {0} : u = Powers(h)[n-m]
  BY <1>7, NaturalPowers
<1>9. PICK c \in Nat \ {0} : c = Powers(g)[t]
  BY NaturalPowers
<1>10. PICK a \in Nat \ {0} : a = Powers(h)[e]
  BY NaturalPowers
<1>11. PICK b \in Nat \ {0} : b = Powers(g)[e]
  BY NaturalPowers
<1>12. b <= a
  BY <1>2, <1>10, <1>11, PowersGrow
<1>13. h \in Int /\ g \in Int
  OBVIOUS
<1>14. Powers(h)[n-t] = u * a
  BY <1>7, <1>8, <1>10, <1>13, PowersAdd
<1>15. Powers(g)[t+e] = c * b
  BY <1>9, <1>11, <1>13, PowersAdd
<1>16. PICK y \in Int : y = Power(n, h, n-m) /\ y = u * (c * b)
  BY <1>1, <1>7, <1>8, <1>15 DEF Power
<1>17. PICK z \in Int : z = Power(n, h, n-t) /\ z = (u * a) * c
  BY <1>1, <1>7, <1>9, <1>14 DEF Power
<1>18. y <= z
  <2>1. PICK d \in Nat : a = b + d
    <3>1. a - b \in Nat /\ a = b + (a - b)
      BY <1>12
    <3> QED
      BY <3>1
  <2>2. z = y + u * d * c
    BY <1>16, <1>17, <2>1
  <2>3. u * d * c \in Nat
    <3>1. u * d \in Nat
      OBVIOUS
    <3> QED
      BY <3>1
  <2> QED
    BY <2>2, <2>3
<1>19. PICK all \in Int : all = Powers(h)[n]
  BY <1>13, PowersFacts
<1>20. PICK one \in Int : one = Powers(g)[n]
  BY <1>13, PowersFacts
<1>21. y - all > one - y
  BY <1>1, <1>5, <1>16, <1>19, <1>20 DEF Below
<1>22. z - all > one - z
  BY <1>18, <1>21
<1> QED
  BY <1>1, <1>2, <1>17, <1>19, <1>20, <1>22 DEF Below

-----------------------------------------------------------------------------
(* Every tolerance below n/2.  The search goes down from 2 to the first    *)
(* ratio at which the t heaviest nodes are below the majority.  It remains *)
(* to be shown that the t+1 heaviest are over it there: that a step cannot *)
(* lead from a ratio at which the first fails to one where the second does.*)

\* Factors, and inequalities.
LEMMA Scale ==
  ASSUME NEW d \in Nat, NEW a \in Int, NEW b \in Int, a <= b
  PROVE  d * a <= d * b
<1>1. PICK c \in Nat : b = a + c
  <2>1. b - a \in Nat /\ b = a + (b - a)
    OBVIOUS
  <2> QED
    BY <2>1
<1>2. d * b = d * a + d * c /\ d * c \in Nat /\ d * a \in Int
  BY <1>1
<1> QED
  BY <1>2

LEMMA Cancel ==
  ASSUME NEW d \in Nat \ {0}, NEW a \in Int, NEW b \in Int, d * a <= d * b
  PROVE  a <= b
<1>1. CASE a > b
  <2>1. d * a > d * b
    BY <1>1, ScaledOrder
  <2>2. d * a \in Int /\ d * b \in Int
    OBVIOUS
  <2> QED
    BY <2>1, <2>2
<1> QED
  BY <1>1

\* If the one comparison fails at x and the other at y, the c cancels.
LEMMA FailuresCombined ==
  ASSUME NEW g \in Nat, NEW x \in Nat, NEW y \in Nat, NEW u \in Nat, NEW a \in Nat,
         NEW v \in Nat, NEW b \in Nat, NEW k \in Nat, NEW c \in Nat \ {0},
         x * u * a + g * k * c <= 2 * (u * g * c),
         2 * (y * v * c) <= y * v * b + g * k * c
  PROVE  (g * k) * (y * v * b - x * u * a) <= 2 * (u * v * (y * (g * b - x * a)))
<1>1. PICK p \in Nat : p = x * u * a
  <2>1. x * u \in Nat
    OBVIOUS
  <2>2. x * u * a \in Nat
    BY <2>1
  <2> QED
    BY <2>2
<1>2. PICK q \in Nat : q = y * v * b
  <2>1. y * v \in Nat
    OBVIOUS
  <2>2. y * v * b \in Nat
    BY <2>1
  <2> QED
    BY <2>2
<1>3. PICK w \in Nat : w = g * k
  <2>1. g * k \in Nat
    OBVIOUS
  <2> QED
    BY <2>1
<1>4. PICK r \in Nat : r = u * g
  <2>1. u * g \in Nat
    OBVIOUS
  <2> QED
    BY <2>1
<1>5. PICK s \in Nat : s = y * v
  <2>1. y * v \in Nat
    OBVIOUS
  <2> QED
    BY <2>1
<1>6. p + w * c <= 2 * (r * c) /\ 2 * (s * c) <= q + w * c
  BY <1>1, <1>2, <1>3, <1>4, <1>5
<1>7. q * (p + w * c) <= q * (2 * (r * c))
  <2>1. p + w * c \in Int /\ 2 * (r * c) \in Int
    OBVIOUS
  <2> QED
    BY <1>6, <2>1, Scale
<1>8. p * (2 * (s * c)) <= p * (q + w * c)
  <2>1. q + w * c \in Int /\ 2 * (s * c) \in Int
    OBVIOUS
  <2> QED
    BY <1>6, <2>1, Scale
<1>9. c * (w * (q - p)) <= c * (2 * (r * q - s * p))
  <2>1. c * (2 * (r * q - s * p)) - c * (w * (q - p))
          = (q * (2 * (r * c)) - q * (p + w * c)) + (p * (q + w * c) - p * (2 * (s * c)))
    OBVIOUS
  <2>2. /\ q * (2 * (r * c)) \in Int /\ q * (p + w * c) \in Int
        /\ p * (q + w * c) \in Int /\ p * (2 * (s * c)) \in Int
        /\ c * (2 * (r * q - s * p)) \in Int /\ c * (w * (q - p)) \in Int
    OBVIOUS
  <2> QED
    BY <1>7, <1>8, <2>1, <2>2
<1>10. w * (q - p) <= 2 * (r * q - s * p)
  <2>1. w * (q - p) \in Int /\ 2 * (r * q - s * p) \in Int
    OBVIOUS
  <2> QED
    BY <1>9, <2>1, Cancel
<1>11. r * q - s * p = u * v * (y * (g * b - x * a))
  <2>1. r * q = (u * g) * (y * v * b) /\ s * p = (y * v) * (x * u * a)
    BY <1>1, <1>2, <1>4, <1>5
  <2>2. (u * g) * (y * v * b) - (y * v) * (x * u * a) = u * v * (y * (g * b - x * a))
    OBVIOUS
  <2> QED
    BY <2>1, <2>2
<1> QED
  BY <1>1, <1>2, <1>3, <1>10, <1>11

\* Bernoulli's bounds for the two differences leave u and k.
LEMMA FailuresBounded ==
  ASSUME NEW g \in Nat \ {0}, NEW j \in Nat, NEW x \in Nat \ {0}, x = g + j,
         NEW y \in Nat \ {0}, NEW n \in Nat, NEW t \in Nat,
         NEW u \in Nat \ {0}, NEW a \in Nat \ {0}, NEW v \in Nat \ {0}, NEW b \in Nat \ {0},
         NEW k \in Nat \ {0},
         (g * k) * (y * v * b - x * u * a) <= 2 * (u * v * (y * (g * b - x * a))),
         b * (y - t) <= a * y,
         (x * u * a) * (x + n) <= (y * v * b) * x
  PROVE  g * k * y * n <= 2 * u * (x * t - j * y) * (x + n)
<1>1. PICK w \in Nat : w = g * k
  <2>1. g * k \in Nat
    OBVIOUS
  <2> QED
    BY <2>1
<1>2. PICK p \in Int : p = x * u * a
  OBVIOUS
<1>3. PICK q \in Int : q = y * v * b
  OBVIOUS
<1>4. PICK f \in Int : f = x * t - j * y
  OBVIOUS
<1>5. y * (g * b - x * a) <= b * f
  <2>1. x * (b * (y - t)) <= x * (a * y)
    <3>1. b * (y - t) \in Int /\ a * y \in Int
      OBVIOUS
    <3> QED
      BY <3>1, Scale
  <2>2. b * f - y * (g * b - x * a) = x * (a * y) - x * (b * (y - t))
    <3>1. b * f = b * (x * t - j * y) /\ g = x - j
      BY <1>4
    <3>2. b * (x * t - j * y) - y * ((x - j) * b - x * a) = x * (a * y) - x * (b * (y - t))
      OBVIOUS
    <3> QED
      BY <3>1, <3>2
  <2>3. /\ x * (a * y) \in Int /\ x * (b * (y - t)) \in Int
        /\ b * f \in Int /\ y * (g * b - x * a) \in Int
    OBVIOUS
  <2> QED
    BY <2>1, <2>2, <2>3
<1>6. w * (q - p) <= 2 * (u * v * (b * f))
  <2>1. u * v * (y * (g * b - x * a)) <= u * v * (b * f)
    <3>1. u * v \in Nat /\ y * (g * b - x * a) \in Int /\ b * f \in Int
      OBVIOUS
    <3> QED
      BY <1>5, <3>1, Scale
  <2>2. u * v * (y * (g * b - x * a)) \in Int /\ u * v * (b * f) \in Int /\ w * (q - p) \in Int
    OBVIOUS
  <2>3. w * (q - p) <= 2 * (u * v * (y * (g * b - x * a)))
    BY <1>1, <1>2, <1>3
  <2> QED
    BY <2>1, <2>2, <2>3
<1>7. q * n <= (x + n) * (q - p)
  <2>1. p * (x + n) <= q * x
    BY <1>2, <1>3
  <2>2. (x + n) * (q - p) - q * n = q * x - p * (x + n)
    OBVIOUS
  <2>3. p * (x + n) \in Int /\ q * x \in Int /\ (x + n) * (q - p) \in Int /\ q * n \in Int
    OBVIOUS
  <2> QED
    BY <2>1, <2>2, <2>3
<1>8. w * (q * n) <= w * ((x + n) * (q - p))
  <2>1. q * n \in Int /\ (x + n) * (q - p) \in Int
    OBVIOUS
  <2> QED
    BY <1>7, <2>1, Scale
<1>9. (x + n) * (w * (q - p)) <= (x + n) * (2 * (u * v * (b * f)))
  <2>1. x + n \in Nat /\ w * (q - p) \in Int /\ 2 * (u * v * (b * f)) \in Int
    OBVIOUS
  <2> QED
    BY <1>6, <2>1, Scale
<1>10. (v * b) * (w * y * n) <= (v * b) * (2 * u * f * (x + n))
  <2>1. w * (q * n) = (v * b) * (w * y * n)
    BY <1>3
  <2>2. (x + n) * (2 * (u * v * (b * f))) = (v * b) * (2 * u * f * (x + n))
    OBVIOUS
  <2>3. w * ((x + n) * (q - p)) = (x + n) * (w * (q - p))
    OBVIOUS
  <2>4. /\ w * (q * n) \in Int /\ (x + n) * (w * (q - p)) \in Int
        /\ (x + n) * (2 * (u * v * (b * f))) \in Int
    OBVIOUS
  <2> QED
    BY <1>8, <1>9, <2>1, <2>2, <2>3, <2>4
<1>11. w * y * n <= 2 * u * f * (x + n)
  <2>1. v * b \in Nat \ {0} /\ w * y * n \in Int /\ 2 * u * f * (x + n) \in Int
    OBVIOUS
  <2> QED
    BY <1>10, <2>1, Cancel
<1> QED
  BY <1>1, <1>4, <1>11

(***************************************************************************)
(* The numbers of the argument, for a tolerance t with n - 2t >= 3, one    *)
(* below the default or less, at j steps above ratio 1.  Only n - 2t = 3   *)
(* needs a bound on n; the bound on the step leaves no more than 20 nodes  *)
(* to the code's 1/100.                                                    *)
(***************************************************************************)
LEMMA FineNumbers ==
  ASSUME NEW n \in Nat, NEW t \in Nat, NEW j \in Nat \ {0}, j < t,
         2 * t + 3 <= n, n <= 24,
         NEW x \in Nat, Half(n) * Half(n) <= x
  PROVE  n * ((n - t) * j + 2 * (t - j)) <= (n - 2 * t + 2 * j) * x
<1>1. CASE n = 2 * t + 3
  <2>1. Half(n) = t + 2
    BY <1>1 DEF Half
  <2>2. PICK z \in Nat : x = (t + 2) * (t + 2) + z
    <3>1. (t + 2) * (t + 2) \in Int
      OBVIOUS
    <3>2. x - (t + 2) * (t + 2) \in Nat
      BY <2>1, <3>1
    <3> QED
      BY <3>1, <3>2
  <2>3. n - t = t + 3 /\ n - 2 * t + 2 * j = 3 + 2 * j
    BY <1>1
  <2>4. (n - 2 * t + 2 * j) * x - n * ((n - t) * j + 2 * (t - j))
          = (3 + 2 * j) * z + (t * (10 - t) + 5 * (j - 1) + (17 - 4 * t) + 3 * (t * j))
    <3>1. (3 + 2 * j) * ((t + 2) * (t + 2) + z) - (2 * t + 3) * ((t + 3) * j + 2 * (t - j))
            = (3 + 2 * j) * z + (t * (10 - t) + 5 * (j - 1) + (17 - 4 * t) + 3 * (t * j))
      OBVIOUS
    <3> QED
      BY <1>1, <2>2, <2>3, <3>1
  <2>5. t * (10 - t) \in Nat
    <3>1. PICK s \in Nat : s = 10 - t
      BY <1>1
    <3>2. t * s \in Nat
      OBVIOUS
    <3> QED
      BY <3>1, <3>2
  <2>6. PICK i \in Nat : j = 1 + i
    <3>1. j - 1 \in Nat /\ j = 1 + (j - 1)
      OBVIOUS
    <3> QED
      BY <3>1
  <2>7. PICK l \in Nat : l = t * i
    <3>1. t * i \in Nat
      OBVIOUS
    <3> QED
      BY <3>1
  <2>8. t * j = t + l
    BY <2>6, <2>7
  <2>9. (17 - 4 * t) + 3 * (t * j) \in Nat
    BY <1>1, <2>7, <2>8
  <2>10. (3 + 2 * j) * z \in Nat
    <3>1. PICK s \in Nat : s = 3 + 2 * j
      OBVIOUS
    <3>2. s * z \in Nat
      OBVIOUS
    <3> QED
      BY <3>1, <3>2
  <2>11. (n - 2 * t + 2 * j) * x \in Int /\ n * ((n - t) * j + 2 * (t - j)) \in Int
    OBVIOUS
  <2> QED
    BY <2>4, <2>5, <2>6, <2>9, <2>10, <2>11
<1>2. CASE n # 2 * t + 3
  <2>1. PICK s \in Nat : n = 2 * t + (4 + s)
    <3>1. n - (2 * t + 4) \in Nat /\ n = 2 * t + (4 + (n - (2 * t + 4)))
      BY <1>2
    <3> QED
      BY <3>1
  <2>2. PICK r \in Nat : t = j + 1 + r
    <3>1. t - (j + 1) \in Nat /\ t = j + 1 + (t - (j + 1))
      OBVIOUS
    <3> QED
      BY <3>1
  <2>3. n * n <= 4 * x
    <3>1. PICK m \in Nat : m = Half(n)
      BY DEF Half
    <3>2. n <= 2 * m
      BY <3>1 DEF Half
    <3>3. n * n <= (2 * m) * (2 * m)
      BY <3>2, ProductGrows
    <3>4. (2 * m) * (2 * m) = 4 * (m * m) /\ m * m <= x /\ m * m \in Int /\ n * n \in Int
      BY <3>1
    <3> QED
      BY <3>3, <3>4
  <2>4. PICK f \in Nat : f = n - 2 * t + 2 * j /\ f = 4 + s + 2 * j
    BY <2>1
  <2>5. f * (n * n) <= f * (4 * x)
    <3>1. n * n \in Int /\ 4 * x \in Int
      OBVIOUS
    <3> QED
      BY <2>3, <3>1, Scale
  <2>6. f * (n * n) - 4 * (n * ((n - t) * j + 2 * (t - j)))
          = n * (s * (2 * (1 + r) + 4 + s) + 4 * (4 + s))
    <3>1. n = 2 * (j + 1 + r) + 4 + s /\ n - t = (j + 1 + r) + 4 + s /\ t - j = 1 + r
      BY <2>1, <2>2
    <3>2. (4 + s + 2 * j) * (2 * (j + 1 + r) + 4 + s)
            - 4 * (((j + 1 + r) + 4 + s) * j + 2 * (1 + r))
            = s * (2 * (1 + r) + 4 + s) + 4 * (4 + s)
      OBVIOUS
    <3>3. f * n - 4 * ((n - t) * j + 2 * (t - j)) = s * (2 * (1 + r) + 4 + s) + 4 * (4 + s)
      BY <2>4, <3>1, <3>2
    <3>4. f * (n * n) - 4 * (n * ((n - t) * j + 2 * (t - j)))
            = n * (f * n - 4 * ((n - t) * j + 2 * (t - j)))
      OBVIOUS
    <3> QED
      BY <3>3, <3>4
  <2>7. n * (s * (2 * (1 + r) + 4 + s) + 4 * (4 + s)) \in Nat
    <3>1. PICK i \in Nat : i = 2 * (1 + r) + 4 + s
      OBVIOUS
    <3>2. PICK l \in Nat : l = s * i
      <4>1. s * i \in Nat
        OBVIOUS
      <4> QED
        BY <4>1
    <3>3. n * (l + 4 * (4 + s)) \in Nat
      <4>1. PICK w \in Nat : w = l + 4 * (4 + s)
        OBVIOUS
      <4>2. n * w \in Nat
        OBVIOUS
      <4> QED
        BY <4>1, <4>2
    <3> QED
      BY <3>1, <3>2, <3>3
  <2>8. PICK w \in Int : w = n * ((n - t) * j + 2 * (t - j))
    OBVIOUS
  <2>9. PICK z \in Int : z = f * x
    OBVIOUS
  <2>10. f * (4 * x) = 4 * z /\ f * (n * n) \in Int
    BY <2>9
  <2>11. 4 * w <= 4 * z
    BY <2>5, <2>6, <2>7, <2>8, <2>10
  <2> QED
    BY <2>4, <2>8, <2>9, <2>11
<1> QED
  BY <1>1, <1>2

\* They contradict what two failures at neighbouring ratios amount to.
LEMMA NumbersContradict ==
  ASSUME NEW n \in Nat, NEW t \in Nat, NEW j \in Nat \ {0}, j < t, 2 * t + 3 <= n,
         NEW g \in Nat \ {0}, NEW x \in Nat \ {0}, x = g + j, NEW y \in Nat, y = x + 1,
         NEW u \in Nat \ {0}, NEW k \in Nat \ {0}, NEW p \in Nat, p = n-(t+1),
         u * (x - p * j) <= k * x,
         n * ((n - t) * j + 2 * (t - j)) <= (n - 2 * t + 2 * j) * x,
         g * k * y * n <= 2 * u * (x * t - j * y) * (x + n)
  PROVE  FALSE
<1>1. PICK z \in Int : z = x - p * j
  OBVIOUS
<1>2. PICK e \in Int : e = x * t - j * y
  OBVIOUS
<1>3. PICK w \in Nat : w = g * y * n
  <2>1. g * y \in Nat
    OBVIOUS
  <2>2. g * y * n \in Nat
    BY <2>1
  <2> QED
    BY <2>2
<1>4. w * (u * z) <= w * (k * x)
  <2>1. u * z \in Int /\ k * x \in Int
    OBVIOUS
  <2> QED
    BY <1>1, <2>1, Scale
<1>5. x * (w * k) <= x * (2 * u * e * (x + n))
  <2>1. w * k <= 2 * u * e * (x + n)
    BY <1>2, <1>3
  <2>2. w * k \in Int /\ 2 * u * e * (x + n) \in Int
    OBVIOUS
  <2> QED
    BY <2>1, <2>2, Scale
<1>6. u * (w * z) <= u * (2 * x * e * (x + n))
  <2>1. w * (k * x) = x * (w * k)
    OBVIOUS
  <2>2. PICK f \in Int : f = w * (u * z)
    OBVIOUS
  <2>3. PICK h \in Int : h = x * (w * k)
    OBVIOUS
  <2>4. PICK i \in Int : i = x * (2 * u * e * (x + n))
    OBVIOUS
  <2>5. f <= h /\ h <= i
    BY <1>4, <1>5, <2>1, <2>2, <2>3, <2>4, Zenon
  <2>6. f = u * (w * z) /\ i = u * (2 * x * e * (x + n))
    BY <2>2, <2>4
  <2>7. f <= i
    BY <2>5
  <2> QED
    BY <2>6, <2>7, Zenon
<1>7. w * z <= 2 * x * e * (x + n)
  <2>1. w * z \in Int /\ 2 * x * e * (x + n) \in Int
    OBVIOUS
  <2> QED
    BY <1>6, <2>1, Cancel
<1>8. PICK s \in Nat \ {0} : s = t - j
  OBVIOUS
<1>9. PICK d \in Int : d = n * g * z
  OBVIOUS
\* n * g * z is at least 2 * s * x * (x + n).
<1>10. PICK c \in Nat : d = 2 * s * x * (x + n) + c
  <2>1. PICK l \in Nat : (n - 2 * t + 2 * j) * x = n * ((n - t) * j + 2 * (t - j)) + l
    <3>1. (n - 2 * t + 2 * j) * x \in Int /\ n * ((n - t) * j + 2 * (t - j)) \in Int
      OBVIOUS
    <3>2. (n - 2 * t + 2 * j) * x - n * ((n - t) * j + 2 * (t - j)) \in Nat
      BY <3>1
    <3> QED
      BY <3>1, <3>2
  <2>2. d = n * (x - j) * (x - p * j)
    BY <1>1, <1>9
  <2>3. n * (x - j) * (x - p * j) - 2 * (t - j) * x * (x + n)
          = x * ((n - 2 * t + 2 * j) * x - n * ((p + 1) * j + 2 * (t - j))) + n * p * (j * j)
    OBVIOUS
  <2>4. p + 1 = n - t
    OBVIOUS
  <2>5. d - 2 * s * x * (x + n) = x * l + n * p * (j * j)
    <3>1. (n - 2 * t + 2 * j) * x - n * ((p + 1) * j + 2 * (t - j)) = l
      BY <2>1, <2>4
    <3> QED
      BY <1>8, <2>2, <2>3, <3>1
  <2>6. PICK c \in Nat : c = x * l + n * p * (j * j)
    <3>1. x * l \in Nat /\ n * p \in Nat /\ j * j \in Nat
      OBVIOUS
    <3>2. n * p * (j * j) \in Nat
      BY <3>1
    <3>3. PICK i \in Nat : i = x * l
      BY <3>1
    <3>4. PICK h \in Nat : h = n * p * (j * j)
      BY <3>2
    <3>5. i + h \in Nat
      OBVIOUS
    <3>6. x * l + n * p * (j * j) \in Nat
      BY <3>3, <3>4, <3>5, Zenon
    <3> QED
      BY <3>6, Zenon
  <2>7. 2 * s * x * (x + n) \in Int
    OBVIOUS
  <2> QED
    BY <2>5, <2>6, <2>7
<1>11. w * z = d * x + d
  <2>1. w * z = g * (x + 1) * n * z
    BY <1>3
  <2>2. g * (x + 1) * n * z = (n * g * z) * x + (n * g * z)
    OBVIOUS
  <2> QED
    BY <1>9, <2>1, <2>2
<1>12. 2 * x * e * (x + n) = 2 * s * x * (x + n) * x - 2 * x * j * (x + n)
  <2>1. e = x * s - j
    <3>1. e = x * t - j * (x + 1)
      BY <1>2
    <3>2. x * t - j * (x + 1) = x * (t - j) - j
      OBVIOUS
    <3> QED
      BY <1>8, <3>1, <3>2
  <2>2. 2 * x * (x * s - j) * (x + n) = 2 * s * x * (x + n) * x - 2 * x * j * (x + n)
    OBVIOUS
  <2> QED
    BY <2>1, <2>2
<1>13. w * z - 2 * x * e * (x + n)
         = c * x + 2 * s * x * (x + n) + c + 2 * x * j * (x + n)
  <2>1. d * x = 2 * s * x * (x + n) * x + c * x
    BY <1>10
  <2>2. 2 * s * x * (x + n) * x \in Int /\ c * x \in Int /\ 2 * x * j * (x + n) \in Int
        /\ 2 * s * x * (x + n) \in Int
    OBVIOUS
  <2> QED
    BY <1>10, <1>11, <1>12, <2>1, <2>2
<1>14. /\ c * x \in Nat /\ 2 * s * x * (x + n) \in Nat \ {0} /\ 2 * x * j * (x + n) \in Nat
       /\ w * z \in Int /\ 2 * x * e * (x + n) \in Int
  <2>1. PICK f \in Nat \ {0} : f = x * (x + n)
    <3>1. x * x \in Nat \ {0} /\ x * n \in Nat
      OBVIOUS
    <3>2. x * (x + n) = x * x + x * n
      OBVIOUS
    <3>3. x * (x + n) \in Nat \ {0}
      BY <3>1, <3>2
    <3> QED
      BY <3>3
  <2>2. 2 * s * x * (x + n) = 2 * (s * f) /\ 2 * x * j * (x + n) = 2 * (j * f)
    BY <2>1
  <2>3. s * f \in Nat \ {0} /\ j * f \in Nat /\ c * x \in Nat
    OBVIOUS
  <2> QED
    BY <2>2, <2>3
<1> QED
  BY <1>7, <1>13, <1>14

(***************************************************************************)
(* One step of the search at a time: of two neighbouring ratios either the *)
(* upper has the t first nodes below the majority already, or the lower    *)
(* still has the t+1 first over it.                                        *)
(***************************************************************************)
LEMMA StepDoesNotPass ==
  ASSUME NEW n \in Nat, NEW t \in Nat, 2 * t + 3 <= n, n <= 24,
         Grid[n] \in Nat \ {0}, FineFor(n), NEW j \in Nat \ {0}
  PROVE  Over(n, t, Grid[n] + j) \/ Below(n, t, Grid[n] + j + 1)
<1> SUFFICES ASSUME ~Over(n, t, Grid[n] + j), ~Below(n, t, Grid[n] + j + 1)
             PROVE  FALSE
  OBVIOUS
<1>1. PICK g \in Nat \ {0} : g = Grid[n]
  OBVIOUS
<1>2. PICK x \in Nat \ {0} : x = g + j
  OBVIOUS
<1>3. PICK y \in Nat \ {0} : y = x + 1
  OBVIOUS
<1>4. PICK p \in Nat : p = n-(t+1)
  OBVIOUS
<1>5. t \in 0 .. n-1
  OBVIOUS
<1> DEFINE X == Powers(x)
           Y == Powers(y)
           G == Powers(g)
<1>6. /\ X[p] \in Nat \ {0} /\ X[t] \in Nat \ {0} /\ G[p] \in Nat \ {0} /\ G[t] \in Nat \ {0}
      /\ X[n] = x * X[p] * X[t]
      /\ Over(n, t, x) <=> x * X[p] * X[t] + g * G[p] * G[t] > 2 * (X[p] * g * G[t])
  BY <1>1, <1>4, <1>5, Factors
<1>7. /\ Y[p] \in Nat \ {0} /\ Y[t] \in Nat \ {0}
      /\ Y[n] = y * Y[p] * Y[t]
      /\ Below(n, t, y) <=> 2 * (y * Y[p] * G[t]) > y * Y[p] * Y[t] + g * G[p] * G[t]
  BY <1>1, <1>4, <1>5, Factors
<1>8. Y[t] * (x + 1 - t * 1) <= X[t] * (x + 1)
  BY <1>3, Bernoulli
<1>9. X[n] * (x + n) <= Y[n] * x
  BY <1>3, BernoulliBelow
<1>10. X[p] * (g + j - p * j) <= G[p] * (g + j)
  BY <1>2, Bernoulli
<1> HIDE DEF X, Y, G
<1>11. PICK u \in Nat \ {0} : u = X[p]
  BY <1>6
<1>12. PICK a \in Nat \ {0} : a = X[t]
  BY <1>6
<1>13. PICK v \in Nat \ {0} : v = Y[p]
  BY <1>7
<1>14. PICK b \in Nat \ {0} : b = Y[t]
  BY <1>7
<1>15. PICK k \in Nat \ {0} : k = G[p]
  BY <1>6
<1>16. PICK c \in Nat \ {0} : c = G[t]
  BY <1>6
<1>17. x * u * a + g * k * c <= 2 * (u * g * c)
  <2>1. ~(x * u * a + g * k * c > 2 * (u * g * c))
    BY <1>1, <1>2, <1>6, <1>11, <1>12, <1>15, <1>16
  <2>2. x * u * a + g * k * c \in Int /\ 2 * (u * g * c) \in Int
    OBVIOUS
  <2> QED
    BY <2>1, <2>2
<1>18. 2 * (y * v * c) <= y * v * b + g * k * c
  <2>1. ~(2 * (y * v * c) > y * v * b + g * k * c)
    BY <1>1, <1>2, <1>3, <1>7, <1>13, <1>14, <1>15, <1>16
  <2>2. y * v * b + g * k * c \in Int /\ 2 * (y * v * c) \in Int
    OBVIOUS
  <2> QED
    BY <2>1, <2>2
<1>19. (g * k) * (y * v * b - x * u * a) <= 2 * (u * v * (y * (g * b - x * a)))
  BY <1>17, <1>18, FailuresCombined
<1>20. b * (y - t) <= a * y
  BY <1>3, <1>8, <1>12, <1>14
<1>21. (x * u * a) * (x + n) <= (y * v * b) * x
  BY <1>6, <1>7, <1>9, <1>11, <1>12, <1>13, <1>14
<1>22. g * k * y * n <= 2 * u * (x * t - j * y) * (x + n)
  BY <1>2, <1>19, <1>20, <1>21, FailuresBounded
<1>23. u * (x - p * j) <= k * x
  BY <1>2, <1>10, <1>11, <1>15
<1>24. CASE j < t
  <2>1. Half(n) * Half(n) <= x
    <3>1. Half(n) \in Nat
      BY DEF Half
    <3>2. Half(n) * Half(n) \in Int
      BY <3>1
    <3> QED
      BY <1>1, <1>2, <3>2 DEF FineFor
  <2>2. n * ((n - t) * j + 2 * (t - j)) <= (n - 2 * t + 2 * j) * x
    BY <1>24, <2>1, FineNumbers
  <2> QED
    BY <1>2, <1>3, <1>4, <1>22, <1>23, <1>24, <2>2, NumbersContradict
<1>25. CASE ~(j < t)
  <2>1. PICK d \in Nat : j = t + d
    <3>1. j - t \in Nat /\ j = t + (j - t)
      BY <1>25
    <3> QED
      BY <3>1
  <2>2. PICK f \in Nat \ {0} : x * t - j * y = -f
    <3>1. x * t - j * y = -(d * x + j)
      BY <1>3, <2>1
    <3>2. d * x \in Nat
      OBVIOUS
    <3>3. d * x + j \in Nat \ {0}
      BY <3>2
    <3> QED
      BY <3>1, <3>3
  <2>3. 2 * u * (x * t - j * y) * (x + n) = -(2 * u * f * (x + n))
    BY <2>2
  <2>4. 2 * u * f * (x + n) \in Nat \ {0} /\ g * k * y * n \in Nat
    <3>1. u * f \in Nat \ {0} /\ x + n \in Nat \ {0} /\ g * k \in Nat
      OBVIOUS
    <3>2. (u * f) * (x + n) \in Nat \ {0} /\ g * k * y \in Nat
      BY <3>1
    <3>3. 2 * u * f * (x + n) = 2 * ((u * f) * (x + n)) /\ g * k * y * n \in Nat
      BY <3>2
    <3> QED
      BY <3>2, <3>3
  <2> QED
    BY <1>22, <2>3, <2>4
<1> QED
  BY <1>24, <1>25

(***************************************************************************)
(* With a step fine enough for n nodes, which for the code's 1/100 means   *)
(* at most 20, every tolerance below n/2 has a ratio above 1 that the      *)
(* search accepts.                                                         *)
(***************************************************************************)
LEMMA MinorityIsAccepted ==
  ASSUME NEW n \in Nat \ {0}, NEW t \in Nat, 2 * t < n, n <= 24,
         Grid[n] \in Nat \ {0}, FineFor(n)
  PROVE  \E r \in Grid[n] + 1 .. 2 * Grid[n] : Accepts(n, t+1, r)
<1>1. PICK g \in Nat \ {0} : g = Grid[n]
  OBVIOUS
<1>2. CASE t = (n-1) \div 2
  <2>1. g + 1 \in g + 1 .. 2 * g
    OBVIOUS
  <2> QED
    BY <1>1, <1>2, <2>1, DefaultIsAccepted
<1>3. CASE t # (n-1) \div 2
  <2>1. 2 * t + 3 <= n
    BY <1>3
  <2>2. t \in 0 .. n-1
    OBVIOUS
  <2> DEFINE S == {k \in Nat : k < g /\ Below(n, t, 2 * g - k)}
  <2>3. g - 1 \in S
    <3>1. g - 1 \in Nat /\ g - 1 < g /\ 2 * g - (g - 1) = g + 1
      OBVIOUS
    <3>2. Below(n, t, g + 1)
      BY <1>1, BelowAtOne
    <3> QED
      BY <3>1, <3>2
  <2>4. PICK m \in S : \A k \in S : m <= k
    BY <2>3, LeastNat
  <2>5. m \in Nat /\ m < g /\ Below(n, t, 2 * g - m) /\ 2 * g - m \in g + 1 .. 2 * g
    OBVIOUS
  <2>6. Over(n, t, 2 * g - m)
    <3>1. CASE m = 0
      <4>1. 2 * g - m = 2 * g
        BY <3>1
      <4> QED
        BY <1>1, <2>2, <4>1, OverAtTwo
    <3>2. CASE m # 0
      <4>1. PICK j \in Nat \ {0} : j = g - m
        BY <2>5
      <4>2. 2 * g - m = g + j /\ 2 * g - (m - 1) = g + j + 1
        BY <2>5, <4>1
      <4>3. m - 1 \in Nat /\ m - 1 < g /\ ~(m <= m - 1)
        BY <2>5, <3>2
      <4>4. ~Below(n, t, g + j + 1)
        <5>1. m - 1 \notin S
          BY <2>4, <4>3
        <5> QED
          BY <4>2, <4>3, <5>1
      <4>5. Over(n, t, g + j) \/ Below(n, t, g + j + 1)
        BY <1>1, <2>1, StepDoesNotPass
      <4> QED
        BY <4>2, <4>4, <4>5
    <3> QED
      BY <3>1, <3>2
  <2> HIDE DEF S
  <2>7. Accepts(n, t+1, 2 * g - m)
    BY <2>2, <2>5, <2>6, AcceptsParts
  <2> QED
    BY <1>1, <2>5, <2>7
<1> QED
  BY <1>2, <1>3
=============================================================================
