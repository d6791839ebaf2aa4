---------------------------- MODULE NpfInduction ----------------------------
(***************************************************************************)
(* Induction over the numbers, in the form the provers can use: a set      *)
(* stands for the predicate and a function for the body of a recursive     *)
(* definition, so that nothing is a parameter that takes arguments; and    *)
(* division by a number that is not written out.                           *)
(***************************************************************************)
EXTENDS Integers, WellFoundedInduction, TLAPS

\* A set of numbers has a least one.
LEMMA LeastNumber ==
  ASSUME NEW S \in SUBSET Nat, S # {}
  PROVE  \E m \in S : \A k \in S : m <= k
<1> DEFINE R == OpToRel(<, Nat)
<1>1. IsWellFoundedOn(R, Nat)
  BY NatLessThanWellFounded
<1>2. PICK m \in S : \A k \in S : ~(<<k, m>> \in R)
  <2> HIDE DEF R
  <2> QED BY <1>1, WFMin
<1>3. \A k, n \in Nat : k < n => <<k, n>> \in R
  BY DEF OpToRel
<1> HIDE DEF R
<1>4. \A k \in S : m <= k
  <2> SUFFICES ASSUME NEW k \in S PROVE m <= k
    OBVIOUS
  <2>1. m \in Nat /\ k \in Nat
    OBVIOUS
  <2>2. ~(k < m)
    BY <1>2, <1>3, <2>1
  <2> QED BY <2>1, <2>2
<1> QED BY <1>4

\* A set that holds a number whenever it holds the smaller ones holds them all.
LEMMA StrongInduction ==
  ASSUME NEW S, \A n \in Nat : 0..(n - 1) \subseteq S => n \in S
  PROVE  Nat \subseteq S
<1> SUFFICES ASSUME Nat \ S # {} PROVE FALSE
  OBVIOUS
<1>1. PICK m \in Nat \ S : \A k \in Nat \ S : m <= k
  BY LeastNumber
<1>2. 0..(m - 1) \subseteq S
  BY <1>1
<1> QED BY <1>1, <1>2

\* A set with 0 and, with a number, the next one, holds them all.
LEMMA Induction ==
  ASSUME NEW S, 0 \in S, \A k \in Nat : k \in S => k + 1 \in S
  PROVE  Nat \subseteq S
<1> SUFFICES ASSUME Nat \ S # {} PROVE FALSE
  OBVIOUS
<1>1. PICK m \in Nat \ S : \A k \in Nat \ S : m <= k
  BY LeastNumber
<1>2. m # 0
  OBVIOUS
<1>3. m - 1 \in Nat /\ m - 1 \in S
  BY <1>1, <1>2
<1> QED BY <1>1, <1>3

\* The same within bounds, and downwards.
LEMMA InductionUpTo ==
  ASSUME NEW n \in Nat, NEW S, 0 \in S, \A k \in 0..(n - 1) : k \in S => k + 1 \in S
  PROVE  0..n \subseteq S
<1> DEFINE T == {k \in Nat : k <= n => k \in S}
<1>1. 0 \in T
  OBVIOUS
<1>2. \A k \in Nat : k \in T => k + 1 \in T
  OBVIOUS
<1>3. Nat \subseteq T
  <2> HIDE DEF T
  <2> QED BY <1>1, <1>2, Induction
<1> QED BY <1>3

LEMMA InductionDownFrom ==
  ASSUME NEW n \in Nat, NEW S, n \in S, \A k \in 0..(n - 1) : k + 1 \in S => k \in S
  PROVE  0..n \subseteq S
<1> DEFINE T == {k \in Nat : k <= n => n - k \in S}
<1>1. 0 \in T
  OBVIOUS
<1>2. \A k \in Nat : k \in T => k + 1 \in T
  <2> SUFFICES ASSUME NEW k \in Nat, k \in T, k + 1 <= n PROVE n - (k + 1) \in S
    OBVIOUS
  <2>1. n - k \in S /\ n - (k + 1) \in 0..(n - 1) /\ (n - (k + 1)) + 1 = n - k
    OBVIOUS
  <2> QED BY <2>1
<1>3. Nat \subseteq T
  <2> HIDE DEF T
  <2> QED BY <1>1, <1>2, Induction
<1>4. \A k \in 0..n : k \in S
  <2> SUFFICES ASSUME NEW k \in 0..n PROVE k \in S
    OBVIOUS
  <2>1. n - k \in Nat /\ n - k <= n /\ n - (n - k) = k
    OBVIOUS
  <2>2. n - k \in T
    BY <1>3, <2>1
  <2> QED BY <2>1, <2>2
<1> QED BY <1>4

(***************************************************************************)
(* Recursion.                                                              *)
(***************************************************************************)
\* Step is the body of a recursive definition f = Step[f] of a function on the numbers;
\* it looks at f below the number only.
Recursive(Step, T) ==
  /\ Step \in [[Nat -> T] -> [Nat -> T]]
  /\ \A g, h \in [Nat -> T] : \A n \in Nat :
       (\A k \in 0..(n - 1) : g[k] = h[k]) => Step[g][n] = Step[h][n]

\* g satisfies the definition up to n.
SolvesTo(g, n, Step) == \A k \in 0..n : g[k] = Step[g][k]

\* Two solutions agree as far as both go.
LEMMA SolutionsAgree ==
  ASSUME NEW T, NEW Step, Recursive(Step, T), NEW n \in Nat,
         NEW g \in [Nat -> T], NEW h \in [Nat -> T], SolvesTo(g, n, Step), SolvesTo(h, n, Step)
  PROVE  \A k \in 0..n : g[k] = h[k]
<1> DEFINE S == {k \in Nat : k <= n => g[k] = h[k]}
<1>1. \A k \in Nat : 0..(k - 1) \subseteq S => k \in S
  <2> SUFFICES ASSUME NEW k \in Nat, 0..(k - 1) \subseteq S, k <= n PROVE g[k] = h[k]
    OBVIOUS
  <2>1. \A m \in 0..(k - 1) : g[m] = h[m]
    OBVIOUS
  <2>2. Step[g][k] = Step[h][k]
    BY <2>1 DEF Recursive
  <2> QED BY <2>2 DEF SolvesTo
<1>2. Nat \subseteq S
  <2> HIDE DEF S
  <2> QED BY <1>1, StrongInduction
<1> QED BY <1>2

\* There is one up to each number.
LEMMA SolutionUpTo ==
  ASSUME NEW T, T # {}, NEW Step, Recursive(Step, T)
  PROVE  \A n \in Nat : \E g \in [Nat -> T] : SolvesTo(g, n, Step)
<1> DEFINE S == {n \in Nat : \E g \in [Nat -> T] : SolvesTo(g, n, Step)}
<1>1. ASSUME NEW g \in [Nat -> T], NEW n \in Nat, \A k \in 0..(n - 1) : g[k] = Step[g][k]
      PROVE  n \in S
  <2> DEFINE h == [g EXCEPT ![n] = Step[g][n]]
  <2>1. Step[g][n] \in T
    BY DEF Recursive
  <2>2. h \in [Nat -> T] /\ h[n] = Step[g][n] /\ \A k \in 0..(n - 1) : h[k] = g[k]
    BY <2>1
  <2> HIDE DEF h
  <2>3. ASSUME NEW k \in 0..n PROVE h[k] = Step[h][k]
    <3>1. Step[g][k] = Step[h][k]
      <4>1. \A m \in 0..(k - 1) : g[m] = h[m]
        BY <2>2
      <4> QED BY <4>1, <2>2 DEF Recursive
    <3>2. CASE k = n
      BY <3>1, <3>2, <2>2
    <3>3. CASE k # n
      BY <3>1, <3>3, <2>2, <1>1
    <3> QED BY <3>2, <3>3
  <2> QED BY <2>2, <2>3 DEF SolvesTo
<1>2. 0 \in S
  <2>1. PICK t \in T : TRUE
    OBVIOUS
  <2> DEFINE g == [k \in Nat |-> t]
  <2>2. g \in [Nat -> T]
    OBVIOUS
  <2>3. 0..(0 - 1) = {}
    OBVIOUS
  <2> HIDE DEF S, g
  <2> QED BY <2>2, <2>3, <1>1
<1>3. ASSUME NEW n \in Nat, n \in S PROVE n + 1 \in S
  <2>1. PICK g \in [Nat -> T] : SolvesTo(g, n, Step)
    BY <1>3
  <2>2. n + 1 \in Nat /\ \A k \in 0..((n + 1) - 1) : g[k] = Step[g][k]
    BY <2>1 DEF SolvesTo
  <2> HIDE DEF S
  <2> QED BY <2>2, <1>1
<1>4. Nat \subseteq S
  <2> HIDE DEF S
  <2> QED BY <1>2, <1>3, Induction
<1> QED BY <1>4

\* A recursive definition defines something.
LEMMA Recursion ==
  ASSUME NEW T, T # {}, NEW Step, Recursive(Step, T)
  PROVE  \E f \in [Nat -> T] : f = Step[f]
<1> DEFINE sol == [n \in Nat |-> CHOOSE g \in [Nat -> T] : SolvesTo(g, n, Step)]
           f == [n \in Nat |-> sol[n][n]]
<1>1. \A n \in Nat : sol[n] \in [Nat -> T] /\ SolvesTo(sol[n], n, Step)
  BY SolutionUpTo
<1> HIDE DEF sol
<1>2. f \in [Nat -> T]
  BY <1>1
<1>3. ASSUME NEW n \in Nat, NEW k \in 0..n PROVE f[k] = sol[n][k]
  <2>1. k \in Nat /\ SolvesTo(sol[n], k, Step)
    BY <1>1 DEF SolvesTo
  <2>2. \A m \in 0..k : sol[k][m] = sol[n][m]
    BY <2>1, <1>1, SolutionsAgree
  <2> QED BY <2>1, <2>2
<1>4. ASSUME NEW n \in Nat PROVE f[n] = Step[f][n]
  <2>1. sol[n][n] = Step[sol[n]][n]
    BY <1>1 DEF SolvesTo
  <2>2. \A k \in 0..(n - 1) : f[k] = sol[n][k]
    BY <1>3
  <2> HIDE DEF f
  <2>3. Step[f][n] = Step[sol[n]][n]
    BY <2>2, <1>1, <1>2 DEF Recursive
  <2> QED BY <2>1, <2>3, <1>3
<1> HIDE DEF f
<1>5. Step[f] \in [Nat -> T]
  BY <1>2 DEF Recursive
<1>6. f = Step[f]
  BY <1>2, <1>4, <1>5
<1> QED BY <1>2, <1>6

\* So does an iteration from b, of which Step[k] is the turn k.
Turns(Step, n, T) == \A k \in 1..n : Step[k] \in [T -> T]

LEMMA Iteration ==
  ASSUME NEW T, NEW b \in T, NEW n \in Nat, NEW Step, Turns(Step, n, T)
  PROVE  \E f \in [0..n -> T] : f = [k \in 0..n |-> IF k = 0 THEN b ELSE Step[k][f[k - 1]]]
<1> DEFINE S == {m \in 0..n : \E f \in [0..m -> T] :
                    f[0] = b /\ \A k \in 1..m : f[k] = Step[k][f[k - 1]]}
<1>1. 0 \in S
  <2> DEFINE f == [k \in 0..0 |-> b]
  <2>1. f \in [0..0 -> T] /\ f[0] = b /\ 1..0 = {}
    OBVIOUS
  <2> HIDE DEF f
  <2> QED BY <2>1
<1>2. ASSUME NEW m \in 0..(n - 1), m \in S PROVE m + 1 \in S
  <2>1. PICK f \in [0..m -> T] : f[0] = b /\ \A k \in 1..m : f[k] = Step[k][f[k - 1]]
    BY <1>2
  <2>2. m \in Nat /\ m + 1 \in 1..n /\ m \in 0..m
    OBVIOUS
  <2> DEFINE x == Step[m + 1][f[m]]
             g == [k \in 0..(m + 1) |-> IF k = m + 1 THEN x ELSE f[k]]
  <2>3. x \in T
    BY <2>2 DEF Turns
  <2> HIDE DEF x
  <2>4. /\ g \in [0..(m + 1) -> T] /\ g[m + 1] = x /\ \A k \in 0..m : g[k] = f[k]
    BY <2>2, <2>3
  <2> HIDE DEF g
  <2>5. g[0] = b
    BY <2>1, <2>2, <2>4
  <2>6. ASSUME NEW k \in 1..(m + 1) PROVE g[k] = Step[k][g[k - 1]]
    <3>1. CASE k = m + 1
      <4>1. k - 1 = m
        BY <3>1, <2>2
      <4> QED BY <4>1, <3>1, <2>2, <2>4 DEF x
    <3>2. CASE k # m + 1
      <4>1. k \in 1..m /\ k \in 0..m /\ k - 1 \in 0..m
        BY <3>2
      <4> QED BY <4>1, <2>1, <2>4
    <3> QED BY <3>1, <3>2
  <2> QED BY <2>2, <2>4, <2>5, <2>6
<1>3. n \in S
  <2> HIDE DEF S
  <2>1. 0..n \subseteq S
    BY <1>1, <1>2, InductionUpTo
  <2> QED BY <2>1
<1>4. PICK f \in [0..n -> T] : f[0] = b /\ \A k \in 1..n : f[k] = Step[k][f[k - 1]]
  BY <1>3
<1>5. \A k \in 0..n : f[k] = IF k = 0 THEN b ELSE Step[k][f[k - 1]]
  <2>1. \A k \in 0..n : k # 0 => k \in 1..n
    OBVIOUS
  <2> QED BY <1>4, <2>1
<1> QED BY <1>5

-----------------------------------------------------------------------------
(* Division.                                                                 *)

\* A quotient and a remainder, for a divisor of which only the sign is known.
LEMMA Division ==
  ASSUME NEW n \in Int, NEW d \in Nat \ {0}
  PROVE  /\ n \div d \in Int /\ n % d \in Nat /\ n % d < d
         /\ n = d * (n \div d) + (n % d)
         /\ n >= 0 => n \div d \in Nat
  OBVIOUS

\* There is only one of each.
LEMMA DivisionUnique ==
  ASSUME NEW n \in Int, NEW d \in Nat \ {0}, NEW x \in Int, NEW y \in Nat,
         n = d * x + y, y < d
  PROVE  n \div d = x /\ n % d = y
<1> DEFINE u == n \div d
           v == n % d
<1>1. u \in Int /\ v \in Nat /\ v < d /\ n = d * u + v
  BY Division
<1> HIDE DEF u, v
<1>2. ~(u < x)
  <2> SUFFICES ASSUME u < x PROVE FALSE
    OBVIOUS
  <2>1. PICK e \in Nat : x = u + 1 + e
    <3>1. x - u - 1 \in Nat /\ x = u + 1 + (x - u - 1)
      BY <1>1
    <3> QED BY <3>1
  <2>2. d * x = d * u + d + d * e
    BY <2>1, <1>1
  <2>3. d * e \in Nat /\ d * u \in Int /\ d * x \in Int
    BY <1>1, <2>1
  <2> QED BY <1>1, <2>2, <2>3
<1>3. ~(x < u)
  <2> SUFFICES ASSUME x < u PROVE FALSE
    OBVIOUS
  <2>1. PICK e \in Nat : u = x + 1 + e
    <3>1. u - x - 1 \in Nat /\ u = x + 1 + (u - x - 1)
      BY <1>1
    <3> QED BY <3>1
  <2>2. d * u = d * x + d + d * e
    BY <2>1, <1>1
  <2>3. d * e \in Nat /\ d * u \in Int /\ d * x \in Int
    BY <1>1, <2>1
  <2> QED BY <1>1, <2>2, <2>3
<1>4. u = x
  BY <1>1, <1>2, <1>3
<1>5. v = y
  BY <1>1, <1>4
<1> QED BY <1>4, <1>5 DEF u, v

\* Nothing wraps below the word.
LEMMA FitsBelow ==
  ASSUME NEW n \in Nat, NEW d \in Nat \ {0}, n < d
  PROVE  n % d = n /\ n \div d = 0
<1>1. n = d * 0 + n
  OBVIOUS
<1> QED BY <1>1, DivisionUnique

\* One more bit of a number: its prefix doubles and takes the bit.
LEMMA Halved ==
  ASSUME NEW n \in Nat, NEW p \in Nat \ {0}
  PROVE  n \div p = 2 * (n \div (2 * p)) + ((n \div p) % 2)
<1> DEFINE x == n \div p
           y == n % p
           z == x \div 2
           w == x % 2
<1>1. x \in Nat /\ y \in Nat /\ y < p /\ n = p * x + y
  BY Division
<1>2. z \in Nat /\ w \in {0, 1} /\ x = 2 * z + w
  <2> HIDE DEF x
  <2> QED BY <1>1, Division
<1> HIDE DEF x, y, z, w
<1>3. p * w + y \in Nat /\ p * w + y < 2 * p
  BY <1>1, <1>2
<1>4. n = (2 * p) * z + (p * w + y)
  <2>1. p * x = (2 * p) * z + p * w
    BY <1>2
  <2> QED BY <1>1, <1>2, <2>1
<1>5. n \div (2 * p) = z
  <2>1. 2 * p \in Nat \ {0}
    OBVIOUS
  <2> QED BY <2>1, <1>2, <1>3, <1>4, DivisionUnique
<1> QED BY <1>2, <1>5 DEF x, z, w

\* Dividing twice divides by the product.
LEMMA DividedTwice ==
  ASSUME NEW n \in Nat, NEW p \in Nat \ {0}
  PROVE  (n \div p) \div 2 = n \div (2 * p)
<1> DEFINE x == n \div p
           z == n \div (2 * p)
<1>1. x = 2 * z + (x % 2) /\ x \in Nat /\ z \in Nat
  <2>1. 2 * p \in Nat \ {0}
    OBVIOUS
  <2>2. n \div p = 2 * (n \div (2 * p)) + ((n \div p) % 2)
    BY Halved
  <2>3. n \div p \in Nat /\ n \div (2 * p) \in Nat
    BY <2>1, Division
  <2> QED BY <2>2, <2>3
<1> HIDE DEF x, z
<1>2. x % 2 \in Nat /\ x % 2 < 2
  BY <1>1
<1>3. x \div 2 = z
  BY <1>1, <1>2, DivisionUnique
<1> QED BY <1>3 DEF x, z
=============================================================================
