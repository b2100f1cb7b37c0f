---- MODULE Foundations ----
(***************************************************************************)
(* What the other proofs build on: induction over the natural numbers in   *)
(* the form of a set that contains 0 and every successor, the functions    *)
(* that recursion on 0..n defines, running maxima and sums, and facts on   *)
(* short sequences.                                                        *)
(***************************************************************************)
EXTENDS Integers, Sequences, FiniteSets, FiniteSetTheorems, SequenceTheorems,
        WellFoundedInduction, TLAPS

(***************************************************************************)
(* Induction.                                                              *)
(***************************************************************************)
Less == {p \in Nat \X Nat : p[1] < p[2]}

LEMMA LessIsWellFounded == IsWellFoundedOn(Less, Nat)
BY NatLessThanWellFounded DEF OpToRel, Less

\* A set of natural numbers has a least element.
LEMMA LeastElement ==
  ASSUME NEW T \in SUBSET Nat, T # {}
  PROVE  \E n \in T : \A m \in T : n <= m
<1>1. PICK n \in T : \A m \in T : <<m, n>> \notin Less
  BY LessIsWellFounded, WFMin
<1>2. \A m \in T : ~(m < n)
  BY <1>1 DEF Less
<1> QED BY <1>2

\* A set that contains 0 and the successor of each of its members contains
\* every natural number.
LEMMA Induction ==
  ASSUME NEW T, 0 \in T, \A n \in Nat : n \in T => n + 1 \in T
  PROVE  \A n \in Nat : n \in T
<1> SUFFICES ASSUME NEW k \in Nat, k \notin T PROVE FALSE
  OBVIOUS
<1> DEFINE U == {n \in Nat : n \notin T}
<1>1. PICK n \in U : \A m \in U : n <= m
  <2>1. U \in SUBSET Nat /\ U # {}
    OBVIOUS
  <2> HIDE DEF U
  <2> QED BY <2>1, LeastElement
<1>2. n # 0 /\ n \in Nat
  OBVIOUS
<1>3. n - 1 \in Nat /\ n - 1 \in T
  BY <1>1, <1>2
<1> QED BY <1>3, <1>1

\* f records a loop of n turns: f[0] is what it starts with, f[i] what the
\* body makes, in turn i, of what the turn before it left.
IsLoop(f, n, S, first, body) ==
  /\ f \in [0..n -> S] /\ f[0] = first
  /\ \A i \in 1..n : f[i] = body[<<i, f[i - 1]>>]

LEMMA LoopExists ==
  ASSUME NEW n \in Nat, NEW S, NEW first \in S, NEW body \in [(1..n) \X S -> S]
  PROVE  \E f : IsLoop(f, n, S, first, body)
<1> DEFINE T == {m \in Nat : m <= n => \E f : IsLoop(f, m, S, first, body)}
<1>1. 0 \in T
  <2>1. IsLoop([i \in 0..0 |-> first], 0, S, first, body)
    BY DEF IsLoop
  <2> QED BY <2>1
<1>2. ASSUME NEW m \in Nat, m \in T PROVE m + 1 \in T
  <2> SUFFICES ASSUME m + 1 <= n PROVE \E f : IsLoop(f, m + 1, S, first, body)
    OBVIOUS
  <2>1. PICK f : IsLoop(f, m, S, first, body)
    BY <1>2
  <2>2. f \in [0..m -> S] /\ f[m] \in S /\ m + 1 \in 1..n
    BY <2>1 DEF IsLoop
  <2> DEFINE last == body[<<m + 1, f[m]>>]
             g == [i \in 0..m + 1 |-> IF i = m + 1 THEN last ELSE f[i]]
  <2>3. last \in S
    <3>1. <<m + 1, f[m]>> \in (1..n) \X S
      BY <2>2
    <3> QED BY <3>1
  <2>4. g \in [0..m + 1 -> S]
    <3> HIDE DEF last
    <3> QED BY <2>2, <2>3
  <2>5. ASSUME NEW i \in 1..m + 1 PROVE g[i] = body[<<i, g[i - 1]>>]
    <3>1. CASE i = m + 1
      <4>1. g[m + 1] = last /\ g[m] = f[m] /\ i - 1 = m
        BY <3>1
      <4> QED BY <3>1, <4>1
    <3>2. CASE i \in 1..m
      BY <2>1, <3>2 DEF IsLoop
    <3> QED BY <3>1, <3>2
  <2>6. g[0] = first
    BY <2>1 DEF IsLoop
  <2>7. IsLoop(g, m + 1, S, first, body)
    <3> HIDE DEF g
    <3> QED BY <2>4, <2>5, <2>6 DEF IsLoop
  <2> QED BY <2>7
<1>3. n \in T
  <2> HIDE DEF T
  <2> QED BY <1>1, <1>2, Induction
<1> QED BY <1>3

\* What a function that takes each turn from the one before it yields.
LEMMA LoopTypes ==
  ASSUME NEW n \in Nat, NEW S, NEW F, F[0] \in S,
         \A i \in 1..n : F[i - 1] \in S => F[i] \in S
  PROVE  \A i \in 0..n : F[i] \in S
<1> DEFINE T == {m \in Nat : m <= n => F[m] \in S}
<1>1. 0 \in T
  OBVIOUS
<1>2. ASSUME NEW m \in Nat, m \in T PROVE m + 1 \in T
  <2> SUFFICES ASSUME m + 1 <= n PROVE F[m + 1] \in S
    OBVIOUS
  <2>1. m + 1 \in 1..n /\ (m + 1) - 1 = m /\ F[m] \in S
    BY <1>2
  <2> QED BY <2>1
<1>3. \A m \in Nat : m \in T
  <2> HIDE DEF T
  <2> QED BY <1>1, <1>2, Induction
<1> QED BY <1>3

\* m[i] is the largest of first and the first i numbers.
LEMMA RunningMax ==
  ASSUME NEW n \in Nat, NEW f \in [1..n -> Int], NEW m \in [0..n -> Int],
         \A i \in 1..n : m[i] = IF f[i] > m[i - 1] THEN f[i] ELSE m[i - 1]
  PROVE  /\ m[n] >= m[0] /\ \A i \in 1..n : m[n] >= f[i]
         /\ m[n] = m[0] \/ \E i \in 1..n : m[n] = f[i]
<1> DEFINE T == {k \in Nat : k <= n =>
                   /\ m[k] >= m[0] /\ \A i \in 1..k : m[k] >= f[i]
                   /\ m[k] = m[0] \/ \E i \in 1..k : m[k] = f[i]}
<1>1. 0 \in T
  <2>1. m[0] \in Int
    OBVIOUS
  <2> QED BY <2>1
<1>2. ASSUME NEW k \in Nat, k \in T PROVE k + 1 \in T
  <2> SUFFICES ASSUME k + 1 <= n
               PROVE  /\ m[k + 1] >= m[0] /\ \A i \in 1..k + 1 : m[k + 1] >= f[i]
                      /\ m[k + 1] = m[0] \/ \E i \in 1..k + 1 : m[k + 1] = f[i]
    OBVIOUS
  <2>1. /\ m[k] >= m[0] /\ \A i \in 1..k : m[k] >= f[i]
        /\ m[k] = m[0] \/ \E i \in 1..k : m[k] = f[i]
    BY <1>2
  <2>2. k + 1 \in 1..n /\ (k + 1) - 1 = k /\ k \in 0..n /\ 0 \in 0..n
    OBVIOUS
  <2>3. m[k] \in Int /\ m[0] \in Int /\ f[k + 1] \in Int /\ \A i \in 1..k : i \in 1..n /\ f[i] \in Int
    BY <2>2
  <2>4. m[k + 1] = IF f[k + 1] > m[k] THEN f[k + 1] ELSE m[k]
    BY <2>2
  <2>5. \A i \in 1..k + 1 : i \in 1..k \/ i = k + 1
    OBVIOUS
  <2> HIDE DEF T
  <2>6. CASE f[k + 1] > m[k]
    <3>1. m[k + 1] = f[k + 1] /\ k + 1 \in 1..k + 1
      BY <2>4, <2>6
    <3>2. m[k + 1] >= m[0] /\ m[k + 1] >= f[k + 1]
      BY <2>1, <2>3, <2>6, <3>1
    <3>3. \A i \in 1..k : m[k + 1] >= f[i]
      BY <2>1, <2>3, <2>6, <3>1
    <3> QED BY <2>5, <3>1, <3>2, <3>3
  <2>7. CASE ~(f[k + 1] > m[k])
    <3>1. m[k + 1] = m[k] /\ m[k] >= f[k + 1]
      BY <2>3, <2>4, <2>7
    <3>2. \A i \in 1..k : i \in 1..k + 1
      OBVIOUS
    <3> QED BY <2>1, <2>5, <3>1, <3>2
  <2> QED BY <2>6, <2>7
<1>3. n \in T
  <2> HIDE DEF T
  <2> QED BY <1>1, <1>2, Induction
<1> QED BY <1>3

(***************************************************************************)
(* Sums of n numbers.                                                      *)
(***************************************************************************)
SumTo(f, n) ==
  LET sum[i \in 0..n] == IF i = 0 THEN 0 ELSE sum[i - 1] + f[i]
  IN  sum[n]

\* s holds the sums of the first i numbers, for each i.
PartialSums(s, f, n) ==
  s \in [0..n -> Int] /\ s[0] = 0 /\ \A i \in 1..n : s[i] = s[i - 1] + f[i]

LEMMA SumExists ==
  ASSUME NEW n \in Nat, NEW f \in [1..n -> Int]
  PROVE  \E s : PartialSums(s, f, n) /\ SumTo(f, n) = s[n]
<1> DEFINE Body(g) == [i \in 0..n |-> IF i = 0 THEN 0 ELSE g[i - 1] + f[i]]
           sum[i \in 0..n] == IF i = 0 THEN 0 ELSE sum[i - 1] + f[i]
           body == [p \in (1..n) \X Int |-> p[2] + f[p[1]]]
<1>1. body \in [(1..n) \X Int -> Int]
  OBVIOUS
<1>2. PICK s : IsLoop(s, n, Int, 0, body)
  <2> HIDE DEF body
  <2>1. 0 \in Int
    OBVIOUS
  <2> QED BY <1>1, <2>1, LoopExists
<1>3. PartialSums(s, f, n)
  <2>1. s \in [0..n -> Int] /\ s[0] = 0
    BY <1>2 DEF IsLoop
  <2>2. ASSUME NEW i \in 1..n PROVE s[i] = s[i - 1] + f[i]
    <3>1. <<i, s[i - 1]>> \in (1..n) \X Int
      <4>1. i - 1 \in 0..n
        OBVIOUS
      <4>2. s[i - 1] \in Int
        BY <2>1, <4>1
      <4> QED BY <4>2
    <3>2. s[i] = body[<<i, s[i - 1]>>]
      BY <1>2 DEF IsLoop
    <3> QED BY <3>1, <3>2
  <2> QED BY <2>1, <2>2 DEF PartialSums
<1>4. s = Body(s)
  BY <1>3 DEF PartialSums
<1>5. sum = Body(sum)
  <2>1. sum = CHOOSE g : g = Body(g)
    OBVIOUS
  <2> HIDE DEF sum, Body
  <2> QED BY <1>4, <2>1
<1>6. SumTo(f, n) = sum[n]
  BY DEF SumTo
<1> HIDE DEF sum
<1> DEFINE T == {m \in Nat : m <= n => sum[m] = s[m]}
<1>7. 0 \in T
  <2>1. sum[0] = 0
    BY <1>5
  <2> QED BY <1>3, <2>1 DEF PartialSums
<1>8. ASSUME NEW m \in Nat, m \in T PROVE m + 1 \in T
  <2> SUFFICES ASSUME m + 1 <= n PROVE sum[m + 1] = s[m + 1]
    OBVIOUS
  <2>1. m + 1 \in 1..n /\ (m + 1) - 1 = m /\ m + 1 \in 0..n /\ m + 1 # 0
    OBVIOUS
  <2>2. sum[m + 1] = sum[m] + f[m + 1]
    <3>1. Body(sum)[m + 1] = sum[(m + 1) - 1] + f[m + 1]
      BY <2>1
    <3> HIDE DEF Body
    <3> QED BY <1>5, <2>1, <3>1
  <2>3. s[m + 1] = s[m] + f[m + 1]
    BY <1>3, <2>1 DEF PartialSums
  <2>4. sum[m] = s[m]
    BY <1>8
  <2> QED BY <2>2, <2>3, <2>4
<1>9. n \in T
  <2> HIDE DEF T
  <2> QED BY <1>7, <1>8, Induction
<1> QED BY <1>3, <1>6, <1>9

LEMMA OneTurn ==
  ASSUME NEW m \in Nat, NEW c \in Nat, NEW a \in Int, NEW b \in Int, NEW x \in Int, NEW y \in Int,
         0 <= a - b, a - b <= m * c, x - y \in 0..c
  PROVE  (a + x) - (b + y) \in Int /\ 0 <= (a + x) - (b + y) /\ (a + x) - (b + y) <= (m + 1) * c
<1> DEFINE p == m * c
           q == (m + 1) * c
<1>1. q = p + c /\ p \in Nat
  OBVIOUS
<1>2. a - b <= p
  OBVIOUS
<1> HIDE DEF p, q
<1>3. (a + x) - (b + y) \in Int /\ 0 <= (a + x) - (b + y) /\ (a + x) - (b + y) <= q
  BY <1>1, <1>2
<1> QED BY <1>3 DEF q

\* Numbers that differ by at most c have sums that differ by at most n * c.
LEMMA SumsApart ==
  ASSUME NEW n \in Nat, NEW f \in [1..n -> Int], NEW g \in [1..n -> Int], NEW c \in Nat,
         \A i \in 1..n : f[i] - g[i] \in 0..c
  PROVE  SumTo(f, n) - SumTo(g, n) \in 0..n * c
<1>1. PICK s : PartialSums(s, f, n) /\ SumTo(f, n) = s[n]
  BY SumExists
<1>2. PICK t : PartialSums(t, g, n) /\ SumTo(g, n) = t[n]
  BY SumExists
<1> DEFINE T == {m \in Nat : m <= n => s[m] - t[m] \in Int /\ 0 <= s[m] - t[m] /\ s[m] - t[m] <= m * c}
<1>3. 0 \in T
  BY <1>1, <1>2 DEF PartialSums
<1>4. ASSUME NEW m \in Nat, m \in T PROVE m + 1 \in T
  <2> SUFFICES ASSUME m + 1 <= n
               PROVE  /\ s[m + 1] - t[m + 1] \in Int /\ 0 <= s[m + 1] - t[m + 1]
                      /\ s[m + 1] - t[m + 1] <= (m + 1) * c
    OBVIOUS
  <2>1. /\ s[m + 1] = s[m] + f[m + 1] /\ t[m + 1] = t[m] + g[m + 1]
        /\ s[m] \in Int /\ t[m] \in Int
    <3>1. m + 1 \in 1..n /\ (m + 1) - 1 = m /\ m \in 0..n
      OBVIOUS
    <3> QED BY <1>1, <1>2, <3>1 DEF PartialSums
  <2>2. f[m + 1] - g[m + 1] \in 0..c /\ f[m + 1] \in Int /\ g[m + 1] \in Int
    OBVIOUS
  <2>3. 0 <= s[m] - t[m] /\ s[m] - t[m] <= m * c
    BY <1>4
  <2>4. /\ (s[m] + f[m + 1]) - (t[m] + g[m + 1]) \in Int
        /\ 0 <= (s[m] + f[m + 1]) - (t[m] + g[m + 1])
        /\ (s[m] + f[m + 1]) - (t[m] + g[m + 1]) <= (m + 1) * c
    <3> DEFINE a == s[m]
               b == t[m]
               x == f[m + 1]
               y == g[m + 1]
    <3>1. a \in Int /\ b \in Int /\ x \in Int /\ y \in Int /\ 0 <= a - b /\ a - b <= m * c /\ x - y \in 0..c
      BY <2>1, <2>2, <2>3
    <3> HIDE DEF T, a, b, x, y
    <3>2. (a + x) - (b + y) \in Int /\ 0 <= (a + x) - (b + y) /\ (a + x) - (b + y) <= (m + 1) * c
      BY <3>1, OneTurn
    <3> QED BY <3>2 DEF a, b, x, y
  <2> QED BY <2>1, <2>4
<1>5. n \in T
  <2> HIDE DEF T
  <2> QED BY <1>3, <1>4, Induction
<1>6. n * c \in Nat
  OBVIOUS
<1> QED BY <1>1, <1>2, <1>5, <1>6 DEF PartialSums

\* The sum of no more than zeroes, and of numbers up to c.
LEMMA SumBounds ==
  ASSUME NEW n \in Nat, NEW f \in [1..n -> Int], NEW c \in Nat, \A i \in 1..n : f[i] \in 0..c
  PROVE  SumTo(f, n) \in 0..n * c
<1> DEFINE zero == [i \in 1..n |-> 0]
<1>1. zero \in [1..n -> Int] /\ \A i \in 1..n : zero[i] = 0
  OBVIOUS
<1>2. PICK t : PartialSums(t, zero, n) /\ SumTo(zero, n) = t[n]
  <2> HIDE DEF zero
  <2> QED BY <1>1, SumExists
<1> DEFINE T == {m \in Nat : m <= n => t[m] = 0}
<1>3. 0 \in T
  BY <1>2 DEF PartialSums
<1>4. ASSUME NEW m \in Nat, m \in T PROVE m + 1 \in T
  <2> SUFFICES ASSUME m + 1 <= n PROVE t[m + 1] = 0
    OBVIOUS
  <2>1. m + 1 \in 1..n /\ (m + 1) - 1 = m
    OBVIOUS
  <2>2. t[m + 1] = t[m] + zero[m + 1]
    <3> HIDE DEF zero
    <3> QED BY <1>2, <2>1 DEF PartialSums
  <2> QED BY <1>1, <1>4, <2>1, <2>2
<1>5. SumTo(zero, n) = 0
  <2>1. n \in T
    <3> HIDE DEF T
    <3> QED BY <1>3, <1>4, Induction
  <2> QED BY <1>2, <2>1
<1>6. SumTo(f, n) - SumTo(zero, n) \in 0..n * c
  <2>1. \A i \in 1..n : f[i] - zero[i] \in 0..c
    OBVIOUS
  <2> HIDE DEF zero
  <2> QED BY <1>1, <2>1, SumsApart
<1>7. SumTo(f, n) \in Int
  BY SumExists DEF PartialSums
<1> HIDE DEF zero
<1> QED BY <1>5, <1>6, <1>7

\* Changing one of the numbers changes the sum by as much.
LEMMA SumChange ==
  ASSUME NEW n \in Nat, NEW f \in [1..n -> Int], NEW g \in [1..n -> Int], NEW k \in 1..n,
         \A i \in 1..n : i # k => g[i] = f[i]
  PROVE  SumTo(g, n) = SumTo(f, n) + (g[k] - f[k])
<1>1. PICK s : PartialSums(s, f, n) /\ SumTo(f, n) = s[n]
  BY SumExists
<1>2. PICK t : PartialSums(t, g, n) /\ SumTo(g, n) = t[n]
  BY SumExists
<1> DEFINE T == {m \in Nat : m <= n => t[m] = s[m] + (IF k <= m THEN g[k] - f[k] ELSE 0)}
<1>3. 0 \in T
  BY <1>1, <1>2 DEF PartialSums
<1>4. ASSUME NEW m \in Nat, m \in T PROVE m + 1 \in T
  <2> SUFFICES ASSUME m + 1 <= n
               PROVE  t[m + 1] = s[m + 1] + (IF k <= m + 1 THEN g[k] - f[k] ELSE 0)
    OBVIOUS
  <2>1. /\ s[m + 1] = s[m] + f[m + 1] /\ t[m + 1] = t[m] + g[m + 1]
        /\ s[m] \in Int /\ t[m] \in Int
    <3>1. m + 1 \in 1..n /\ (m + 1) - 1 = m /\ m \in 0..n
      OBVIOUS
    <3> QED BY <1>1, <1>2, <3>1 DEF PartialSums
  <2>2. f[m + 1] \in Int /\ g[m + 1] \in Int /\ f[k] \in Int /\ g[k] \in Int
        /\ (m + 1 # k => g[m + 1] = f[m + 1])
    OBVIOUS
  <2>3. t[m] = s[m] + (IF k <= m THEN g[k] - f[k] ELSE 0)
    BY <1>4
  <2> HIDE DEF T
  <2>4. CASE k <= m
    <3>1. m + 1 # k
      BY <2>4
    <3>2. t[m] = s[m] + (g[k] - f[k]) /\ g[m + 1] = f[m + 1]
      BY <2>2, <2>3, <2>4, <3>1
    <3>3. t[m + 1] = s[m + 1] + (g[k] - f[k])
      BY <2>1, <2>2, <3>2
    <3> QED BY <2>4, <3>3
  <2>5. CASE k = m + 1
    BY <2>1, <2>2, <2>3, <2>5
  <2>6. CASE ~(k <= m) /\ k # m + 1
    BY <2>1, <2>2, <2>3, <2>6
  <2> QED BY <2>4, <2>5, <2>6
<1>5. n \in T
  <2> HIDE DEF T
  <2> QED BY <1>3, <1>4, Induction
<1> QED BY <1>1, <1>2, <1>5

(***************************************************************************)
(* Short sequences.                                                        *)
(***************************************************************************)
LEMMA OneFrame ==
  ASSUME NEW a
  PROVE  /\ <<a>> # <<>> /\ Head(<<a>>) = a /\ Tail(<<a>>) = <<>>
         /\ Append(<<>>, a) = <<a>>
OBVIOUS

LEMMA AppendTail ==
  ASSUME NEW S, NEW q \in Seq(S), q # <<>>, NEW a \in S
  PROVE  /\ Append(q, a) # <<>>
         /\ Head(Append(q, a)) = Head(q)
         /\ Tail(Append(q, a)) = Append(Tail(q), a)
<1> DEFINE s == Tail(Append(q, a))
           t == Append(Tail(q), a)
<1>1. Append(q, a) \in Seq(S) /\ Len(Append(q, a)) = Len(q) + 1 /\ Len(q) \in Nat \ {0}
  OBVIOUS
<1>2. \A i \in 1..Len(q) + 1 : Append(q, a)[i] = IF i = Len(q) + 1 THEN a ELSE q[i]
  OBVIOUS
<1>3. s \in Seq(S) /\ Len(s) = Len(q) /\ \A i \in 1..Len(q) : s[i] = Append(q, a)[i + 1]
  BY <1>1
<1>4. Tail(q) \in Seq(S) /\ Len(Tail(q)) = Len(q) - 1 /\ \A i \in 1..Len(q) - 1 : Tail(q)[i] = q[i + 1]
  BY <1>1
<1>5. t \in Seq(S) /\ Len(t) = Len(q) /\ \A i \in 1..Len(q) : t[i] = IF i = Len(q) THEN a ELSE Tail(q)[i]
  <2> DEFINE r == Tail(q)
  <2>1. r \in Seq(S) /\ Len(r) + 1 = Len(q) /\ Len(r) \in Nat
    BY <1>4, <1>1
  <2> HIDE DEF r
  <2>2. t = Append(r, a)
    BY DEF r
  <2>3. Append(r, a) \in Seq(S) /\ Len(Append(r, a)) = Len(r) + 1 /\ Append(r, a)[Len(r) + 1] = a
        /\ \A i \in 1..Len(r) : Append(r, a)[i] = r[i]
    BY <2>1, AppendProperties
  <2>4. \A i \in 1..Len(q) : Append(r, a)[i] = IF i = Len(q) THEN a ELSE r[i]
    BY <2>1, <2>3
  <2> QED BY <2>1, <2>2, <2>3, <2>4 DEF r
<1>6. \A i \in 1..Len(s) : s[i] = t[i]
  <2> HIDE DEF s, t
  <2> QED BY <1>1, <1>2, <1>3, <1>4, <1>5
<1>7. s = t
  <2> HIDE DEF s, t
  <2> QED BY <1>3, <1>5, <1>6, SeqEqual
<1> QED BY <1>1, <1>2, <1>7

LEMMA TwoFrames ==
  ASSUME NEW a, NEW b
  PROVE  /\ Append(<<a>>, b) # <<>>
         /\ Head(Append(<<a>>, b)) = a
         /\ Tail(Append(<<a>>, b)) = <<b>>
<1>1. <<a>> \in Seq({a, b}) /\ a \in {a, b} /\ b \in {a, b} /\ <<a>> # <<>>
  OBVIOUS
<1>2. Append(Tail(<<a>>), b) = <<b>> /\ Head(<<a>>) = a
  BY OneFrame
<1> QED BY <1>1, <1>2, AppendTail

LEMMA ThreeFrames ==
  ASSUME NEW a, NEW b, NEW c
  PROVE  /\ Append(Append(<<a>>, b), c) # <<>>
         /\ Head(Append(Append(<<a>>, b), c)) = a
         /\ Tail(Append(Append(<<a>>, b), c)) = Append(<<b>>, c)
<1>1. <<a>> \in Seq({a, b, c}) /\ b \in {a, b, c} /\ c \in {a, b, c}
  OBVIOUS
<1>2. Append(<<a>>, b) \in Seq({a, b, c})
  BY <1>1
<1> QED BY <1>1, <1>2, AppendTail, TwoFrames
====
