-------------------------- MODULE SwapContract_proofs --------------------------
(***************************************************************************)
(* Proofs about SwapContract, for every length of a hash and of an int,    *)
(* among them the 20 and 4 bytes of the code: the powers and bytes of      *)
(* numbers, the layout of a contract, and the transactions that spend it.  *)
(***************************************************************************)
EXTENDS SwapContract, SequenceTheorems, WellFoundedInduction, TLAPS

(* Natural numbers, by the smallest counterexample *)

LEMMA Smallest ==
  ASSUME NEW T \in SUBSET Nat, T # {}
  PROVE  \E m \in T : \A k \in T : m <= k
<1> DEFINE R == {ss \in Nat \X Nat : ss[1] < ss[2]}
<1>1. IsWellFoundedOn(R, Nat)
  BY NatLessThanWellFounded DEF OpToRel
<1> HIDE DEF R
<1>2. PICK m \in T : \A k \in T : <<k, m>> \notin R
  BY <1>1, WFMin
<1>3. \A k \in T : ~(k < m)
  BY <1>2 DEF R
<1> QED
  BY <1>3

\* f starts with a and goes on by step, up to n
Follows(f, n, a, step) ==
  f[0] = a /\ \A i \in 0 .. n - 1 : f[i + 1] = step[<<i + 1, f[i]>>]

LEMMA FollowOne ==
  ASSUME NEW n \in Nat, NEW a, NEW step, NEW f, NEW g,
         Follows(f, n, a, step), Follows(g, n, a, step)
  PROVE  \A i \in 0 .. n : f[i] = g[i]
<1> DEFINE T == {i \in 0 .. n : f[i] # g[i]}
<1> SUFFICES ASSUME T # {} PROVE FALSE
  OBVIOUS
<1>0. T \in SUBSET Nat
  OBVIOUS
<1>1. PICK m \in T : \A k \in T : m <= k
  BY <1>0, Smallest
<1>2. m # 0 /\ m \in 0 .. n
  BY DEF Follows
<1>3. m - 1 \in 0 .. n - 1 /\ (m - 1) + 1 = m
  BY <1>2
<1>4. f[m - 1] = g[m - 1]
  BY <1>1, <1>3
<1>5. f[m] = step[<<m, f[m - 1]>>] /\ g[m] = step[<<m, g[m - 1]>>]
  BY <1>3 DEF Follows
<1> QED
  BY <1>4, <1>5

LEMMA FollowsExists ==
  ASSUME NEW a \in Int, NEW step \in [Nat \X Int -> Int], NEW n \in Nat
  PROVE  \E f \in [0 .. n -> Int] : Follows(f, n, a, step)
<1> DEFINE T == {m \in Nat : ~ \E f \in [0 .. m -> Int] : Follows(f, m, a, step)}
<1> SUFFICES ASSUME T # {} PROVE FALSE
  OBVIOUS
<1>1. PICK m \in T : \A k \in T : m <= k
  BY Smallest
<1>2. m # 0
  <2> SUFFICES ASSUME m = 0 PROVE FALSE
    OBVIOUS
  <2> DEFINE f == [i \in 0 .. 0 |-> a]
  <2>1. f \in [0 .. m -> Int] /\ Follows(f, m, a, step)
    BY DEF Follows
  <2> QED
    BY <2>1
<1>3. m - 1 \in Nat /\ m - 1 \notin T
  <2>1. m \in Nat
    OBVIOUS
  <2> HIDE DEF T
  <2> QED
    BY <1>1, <1>2, <2>1
<1>4. PICK f \in [0 .. m - 1 -> Int] : Follows(f, m - 1, a, step)
  BY <1>3
<1> DEFINE g == [i \in 0 .. m |-> IF i = m THEN step[<<m, f[m - 1]>>] ELSE f[i]]
<1>5. f[m - 1] \in Int /\ <<m, f[m - 1]>> \in Nat \X Int
  BY <1>3
<1>6. step[<<m, f[m - 1]>>] \in Int
  BY <1>5
<1>7. g \in [0 .. m -> Int]
  <2> SUFFICES ASSUME NEW i \in 0 .. m PROVE g[i] \in Int
    OBVIOUS
  <2>1. CASE i = m
    BY <1>6, <2>1
  <2>2. CASE i # m
    <3>1. i \in 0 .. m - 1
      BY <2>2
    <3> QED
      BY <2>2, <3>1
  <2> QED
    BY <2>1, <2>2
<1>8. Follows(g, m, a, step)
  <2>1. g[0] = a
    BY <1>2, <1>4 DEF Follows
  <2>2. ASSUME NEW i \in 0 .. m - 1 PROVE g[i + 1] = step[<<i + 1, g[i]>>]
    <3>1. i \in 0 .. m /\ i # m /\ g[i] = f[i]
      OBVIOUS
    <3>2. CASE i + 1 = m
      <4>1. i = m - 1 /\ g[m] = step[<<m, f[m - 1]>>]
        BY <3>2
      <4> QED
        BY <3>1, <3>2, <4>1
    <3>3. CASE i + 1 # m
      <4>1. i \in 0 .. (m - 1) - 1 /\ i + 1 \in 0 .. m - 1 /\ i + 1 \in 0 .. m
        BY <3>3
      <4>2. g[i + 1] = f[i + 1]
        BY <3>3, <4>1
      <4> QED
        BY <1>4, <3>1, <4>1, <4>2 DEF Follows
    <3> QED
      BY <3>2, <3>3
  <2> QED
    BY <2>1, <2>2 DEF Follows
<1> QED
  BY <1>7, <1>8

LEMMA Recursion ==
  ASSUME NEW a \in Int, NEW step \in [Nat \X Int -> Int]
  PROVE  \E f \in [Nat -> Int] : \A n \in Nat : Follows(f, n, a, step)
<1> DEFINE g(n) == CHOOSE f \in [0 .. n -> Int] : Follows(f, n, a, step)
           h == [n \in Nat |-> g(n)[n]]
<1>1. \A n \in Nat : g(n) \in [0 .. n -> Int] /\ Follows(g(n), n, a, step)
  BY FollowsExists
<1> HIDE DEF g
<1>2. h \in [Nat -> Int]
  BY <1>1
<1>3. ASSUME NEW i \in Nat PROVE h[i + 1] = step[<<i + 1, h[i]>>]
  <2> i + 1 \in Nat
    OBVIOUS
  <2>0. Follows(g(i + 1), i + 1, a, step)
    BY <1>1, Zenon
  <2>1. Follows(g(i + 1), i, a, step)
    BY <2>0 DEF Follows
  <2>2. g(i + 1)[i] = g(i)[i]
    BY <1>1, <2>1, FollowOne
  <2>3. g(i + 1)[i + 1] = step[<<i + 1, g(i + 1)[i]>>]
    BY <2>0 DEF Follows
  <2>4. h[i + 1] = g(i + 1)[i + 1] /\ h[i] = g(i)[i] /\ i + 1 \in Nat
    BY Zenon
  <2> HIDE DEF g, h
  <2> QED
    BY <2>2, <2>3, <2>4, Zenon
<1>4. h[0] = a
  BY <1>1 DEF Follows
<1>5. \A n \in Nat : Follows(h, n, a, step)
  BY <1>3, <1>4 DEF Follows
<1> QED
  BY <1>2, <1>5

-----------------------------------------------------------------------------
(* Powers of 256 *)

LEMMA PowerIs ==
  /\ Power \in [Nat -> Int] /\ Power[0] = 1
  /\ \A n \in Nat : Power[n + 1] = 256 * Power[n]
<1> DEFINE step == [p \in Nat \X Int |-> 256 * p[2]]
           Is(P) == P = [n \in Nat |-> IF n = 0 THEN 1 ELSE 256 * P[n - 1]]
<1>1. step \in [Nat \X Int -> Int]
  OBVIOUS
<1>2. PICK f \in [Nat -> Int] : \A n \in Nat : Follows(f, n, 1, step)
  <2> HIDE DEF step
  <2>1. 1 \in Int
    OBVIOUS
  <2> QED
    BY <1>1, <2>1, Recursion, Zenon
<1>3. f[0] = 1
  BY <1>2 DEF Follows
<1>4. ASSUME NEW n \in Nat, n # 0 PROVE f[n] = 256 * f[n - 1]
  <2>1. n - 1 \in 0 .. n - 1 /\ (n - 1) + 1 = n /\ <<n, f[n - 1]>> \in Nat \X Int
    BY <1>4
  <2>2. f[n] = step[<<n, f[n - 1]>>]
    <3> HIDE DEF step
    <3>1. f[(n - 1) + 1] = step[<<(n - 1) + 1, f[n - 1]>>]
      BY <1>2, <2>1 DEF Follows
    <3> QED
      BY <2>1, <3>1
  <2> QED
    BY <2>1, <2>2
<1>5. Is(f)
  BY <1>3, <1>4
<1>6. Is(Power)
  BY <1>5 DEF Power
<1>8. Power[0] = 1 /\ \A n \in Nat : Power[n + 1] = 256 * Power[n]
  BY <1>6
<1>9. \A n \in Nat : Power[n] \in Int
  <2> DEFINE T == {n \in Nat : Power[n] \notin Int}
  <2> SUFFICES ASSUME T # {} PROVE FALSE
    OBVIOUS
  <2>1. PICK m \in T : \A k \in T : m <= k
    BY Smallest
  <2>2. m # 0 /\ m - 1 \in Nat /\ m - 1 \notin T
    BY <1>8, <2>1
  <2>3. Power[m] = 256 * Power[m - 1]
    BY <1>8, <2>2
  <2> QED
    BY <2>2, <2>3
<1> QED
  BY <1>6, <1>8, <1>9

LEMMA PowerGrows ==
  /\ \A n \in Nat : Power[n] \in Nat \ {0}
  /\ \A m, n \in Nat : m <= n => Power[m] <= Power[n]
<1>1. \A n \in Nat : Power[n] \in Nat \ {0}
  <2> DEFINE T == {n \in Nat : Power[n] \notin Nat \ {0}}
  <2> SUFFICES ASSUME T # {} PROVE FALSE
    OBVIOUS
  <2>1. PICK m \in T : \A k \in T : m <= k
    BY Smallest
  <2>2. m # 0 /\ m - 1 \in Nat /\ m - 1 \notin T
    BY <2>1, PowerIs
  <2>3. Power[m] = 256 * Power[m - 1]
    BY <2>2, PowerIs
  <2> QED
    BY <2>2, <2>3
<1>2. ASSUME NEW m \in Nat PROVE \A n \in Nat : m <= n => Power[m] <= Power[n]
  <2> DEFINE T == {n \in Nat : m <= n /\ ~(Power[m] <= Power[n])}
  <2> SUFFICES ASSUME T # {} PROVE FALSE
    OBVIOUS
  <2>1. PICK n \in T : \A k \in T : n <= k
    BY Smallest
  <2>2. n # m
    BY <1>1
  <2>3. n - 1 \in Nat /\ n - 1 \notin T /\ m <= n - 1
    BY <2>1, <2>2
  <2>4. Power[n] = 256 * Power[n - 1]
    BY <2>3, PowerIs
  <2> QED
    BY <1>1, <2>3, <2>4
<1> QED
  BY <1>1, <1>2

-----------------------------------------------------------------------------
(* Digits *)

LEMMA DivMod ==
  ASSUME NEW t \in Nat, NEW P \in Nat \ {0}
  PROVE  t \div P \in Nat /\ t % P \in 0 .. P - 1 /\ t = (t \div P) * P + (t % P)
<1>1. t \div P \in Nat
  BY SMT
<1>2. t % P \in 0 .. P - 1
  BY SMT
<1> DEFINE a == t \div P
<1>3. t = a * P + (t % P)
  BY SMT
<1> QED
  BY <1>1, <1>2, <1>3

LEMMA DivModOne ==
  ASSUME NEW a \in Nat, NEW P \in Nat \ {0}, NEW r \in 0 .. P - 1
  PROVE  (a * P + r) \div P = a /\ (a * P + r) % P = r
BY SMT

LEMMA Quotient ==
  ASSUME NEW t \in Nat, NEW P \in Nat \ {0}, NEW a \in Nat, NEW b \in Nat,
         a * P <= t, t < b * P
  PROVE  t \div P \in a .. b - 1
<1> DEFINE q == t \div P
           r == t % P
<1>1. q \in Nat /\ r \in 0 .. P - 1 /\ t = q * P + r
  BY DivMod
<1> HIDE DEF q, r
<1>2. ~(q < a)
  <2> SUFFICES ASSUME q + 1 <= a PROVE FALSE
    BY <1>1
  <2>1. (q + 1) * P <= a * P
    BY <1>1
  <2>2. (q + 1) * P = q * P + P
    BY <1>1
  <2> QED
    BY <1>1, <2>1, <2>2
<1>3. ~(q >= b)
  <2> SUFFICES ASSUME b <= q PROVE FALSE
    BY <1>1
  <2>1. b * P <= q * P
    BY <1>1
  <2> QED
    BY <1>1, <2>1
<1> QED
  BY <1>1, <1>2, <1>3 DEF q

\* The part of t below 256 * P, from the part below P and the next digit
Lower(t, P) == (t % P) + ((t \div P) % 256) * P

LEMMA NextDigit ==
  ASSUME NEW t \in Nat, NEW P \in Nat \ {0}
  PROVE  t % (256 * P) = Lower(t, P)
<1> DEFINE a == t \div P
           r == t % P
           b == a \div 256
           d == a % 256
<1>1. a \in Nat /\ r \in 0 .. P - 1 /\ t = a * P + r
  BY DivMod
<1> HIDE DEF a, r
<1>2. b \in Nat /\ d \in 0 .. 255 /\ a = b * 256 + d
  BY <1>1, DivMod
<1> HIDE DEF b, d
<1>3. t = b * (256 * P) + (d * P + r)
  <2>1. a * P = (b * 256 + d) * P
    BY <1>2
  <2>2. (b * 256 + d) * P = (b * 256) * P + d * P
    BY <1>2
  <2>3. (b * 256) * P = b * (256 * P)
    BY <1>2
  <2> QED
    BY <1>1, <1>2, <2>1, <2>2, <2>3
<1>4. d * P + r \in 0 .. 256 * P - 1
  <2>1. d * P <= 255 * P /\ d * P \in Nat
    BY <1>2
  <2> QED
    BY <1>1, <2>1
<1>5. t % (256 * P) = d * P + r
  <2>1. 256 * P \in Nat \ {0}
    OBVIOUS
  <2> DEFINE R == d * P + r
             Q == 256 * P
  <2>2. R \in 0 .. Q - 1 /\ Q \in Nat \ {0} /\ t = b * Q + R
    BY <1>3, <1>4, <2>1
  <2> HIDE DEF R, Q
  <2>3. t % Q = R
    BY <1>2, <2>2, DivModOne
  <2> QED
    BY <2>3 DEF R, Q
<1> QED
  BY <1>1, <1>2, <1>5 DEF d, r, a, Lower

LEMMA PowerDigit ==
  ASSUME NEW t \in Nat, NEW k \in Nat
  PROVE  t % Power[k + 1] = Lower(t, Power[k])
<1>1. Power[k] \in Nat \ {0}
  BY PowerGrows, Zenon
<1>2. Power[k + 1] = 256 * Power[k]
  BY PowerIs, Zenon
<1>3. t % (256 * Power[k]) = Lower(t, Power[k])
  BY <1>1, NextDigit, Zenon
<1> QED
  BY <1>2, <1>3, Zenon

-----------------------------------------------------------------------------
(* The number that bytes stand for *)

LEMMA ByteIn ==
  ASSUME NEW b \in Seq(Byte), NEW i \in 1 .. Len(b)
  PROVE  b[i] \in 0 .. 255
BY ElementOfSeq DEF Byte

LEMMA ByteAt ==
  ASSUME NEW b \in Seq(Byte), NEW i \in 1 .. Len(b)
  PROVE  b[i] \in 0 .. 255 /\ i - 1 \in Nat /\ i \in Nat /\ Power[i - 1] \in Nat \ {0}
         /\ Power[i] = 256 * Power[i - 1]
<1>1. b[i] \in 0 .. 255
  BY ByteIn
<1>2. i - 1 \in Nat /\ i \in Nat /\ (i - 1) + 1 = i
  OBVIOUS
<1> QED
  <2>1. Power[i - 1] \in Nat \ {0} /\ Power[(i - 1) + 1] = 256 * Power[i - 1]
    BY <1>2, PowerIs, PowerGrows, Zenon
  <2> QED
    BY <1>1, <1>2, <2>1, Zenon

Sums(b) == CHOOSE sum : sum = [i \in 0 .. Len(b) |->
                               IF i = 0 THEN 0 ELSE sum[i - 1] + b[i] * Power[i - 1]]

LEMMA SumsAre ==
  ASSUME NEW b \in Seq(Byte)
  PROVE  /\ Sums(b)[0] = 0
         /\ \A i \in 1 .. Len(b) : Sums(b)[i] = Sums(b)[i - 1] + b[i] * Power[i - 1]
<1> DEFINE Is(sum) == sum = [i \in 0 .. Len(b) |->
                             IF i = 0 THEN 0 ELSE sum[i - 1] + b[i] * Power[i - 1]]
           term == [i \in Nat |-> IF i \in 1 .. Len(b) THEN b[i] * Power[i - 1] ELSE 0]
           step == [p \in Nat \X Int |-> p[2] + term[p[1]]]
<1>1. term \in [Nat -> Int]
  <2> SUFFICES ASSUME NEW i \in 1 .. Len(b) PROVE b[i] * Power[i - 1] \in Int
    OBVIOUS
  <2> DEFINE x == b[i]
             y == Power[i - 1]
  <2>1. x \in Int /\ y \in Int
    <3>1. x \in 0 .. 255 /\ y \in Nat \ {0}
      BY ByteAt
    <3> HIDE DEF x, y
    <3> QED
      BY <3>1
  <2> HIDE DEF x, y
  <2>2. x * y \in Int
    BY <2>1
  <2> QED
    BY <2>2 DEF x, y
<1>2. step \in [Nat \X Int -> Int]
  BY <1>1
<1>3. PICK f \in [Nat -> Int] : \A n \in Nat : Follows(f, n, 0, step)
  <2> HIDE DEF step
  <2>1. 0 \in Int
    OBVIOUS
  <2> QED
    BY <1>2, <2>1, Recursion, Zenon
<1>4. f[0] = 0
  BY <1>3 DEF Follows
<1>5. ASSUME NEW i \in 1 .. Len(b) PROVE f[i] = f[i - 1] + b[i] * Power[i - 1]
  <2>1. i - 1 \in 0 .. i - 1 /\ (i - 1) + 1 = i /\ i \in Nat /\ <<i, f[i - 1]>> \in Nat \X Int
    OBVIOUS
  <2>2. f[i] = step[<<i, f[i - 1]>>]
    <3> HIDE DEF step
    <3>1. f[(i - 1) + 1] = step[<<(i - 1) + 1, f[i - 1]>>]
      BY <1>3, <2>1 DEF Follows
    <3> QED
      BY <2>1, <3>1
  <2>3. term[i] = b[i] * Power[i - 1]
    BY <2>1
  <2> HIDE DEF term
  <2> QED
    BY <2>1, <2>2, <2>3
<1> DEFINE g == [i \in 0 .. Len(b) |-> f[i]]
<1>6. Is(g)
  <2>1. \A i \in 0 .. Len(b) : i # 0 => i \in 1 .. Len(b) /\ i - 1 \in 0 .. Len(b)
    OBVIOUS
  <2> HIDE DEF term, step
  <2> QED
    BY <1>4, <1>5, <2>1
<1> HIDE DEF g
<1>7. Is(Sums(b))
  BY <1>6 DEF Sums
<1>8. 0 \in 0 .. Len(b) /\ \A i \in 1 .. Len(b) : i \in 0 .. Len(b) /\ i # 0
  OBVIOUS
<1> DEFINE q == Sums(b)
<1> HIDE DEF q
<1>9. q = [i \in 0 .. Len(b) |-> IF i = 0 THEN 0 ELSE q[i - 1] + b[i] * Power[i - 1]]
  BY <1>7 DEF q
<1>10. \A i \in 0 .. Len(b) : q[i] = IF i = 0 THEN 0 ELSE q[i - 1] + b[i] * Power[i - 1]
  BY <1>9, Zenon
<1>11. q[0] = 0 /\ \A i \in 1 .. Len(b) : q[i] = q[i - 1] + b[i] * Power[i - 1]
  BY <1>8, <1>10, Zenon
<1> QED
  BY <1>11 DEF q

LEMMA ValueIs ==
  ASSUME NEW b \in Seq(Byte)
  PROVE  Value(b) = Sums(b)[Len(b)]
BY DEF Value, Sums

LEMMA SumsBounds ==
  ASSUME NEW b \in Seq(Byte), NEW n \in 0 .. Len(b)
  PROVE  Sums(b)[n] \in 0 .. Power[n] - 1
<1> DEFINE T == {k \in 0 .. Len(b) : Sums(b)[k] \notin 0 .. Power[k] - 1}
<1> SUFFICES ASSUME T # {} PROVE FALSE
  OBVIOUS
<1>1. T \in SUBSET Nat
  OBVIOUS
<1>2. PICK m \in T : \A k \in T : m <= k
  BY <1>1, Smallest
<1>3. m # 0
  <2>1. Sums(b)[0] = 0 /\ Power[0] = 1
    BY SumsAre, PowerIs
  <2> QED
    BY <2>1
<1>4. m \in 1 .. Len(b)
  BY <1>3
<1>5. Sums(b)[m - 1] \in 0 .. Power[m - 1] - 1
  <2>1. m - 1 \in 0 .. Len(b) /\ ~(m <= m - 1)
    BY <1>4
  <2> QED
    BY <1>2, <2>1
<1>6. Sums(b)[m] = Sums(b)[m - 1] + b[m] * Power[m - 1]
  BY <1>4, SumsAre
<1> DEFINE P == Power[m - 1]
           d == b[m]
           x == Sums(b)[m - 1]
<1>7. d \in 0 .. 255 /\ P \in Nat \ {0} /\ Power[m] = 256 * P
  BY <1>4, ByteAt
<1>8. x \in 0 .. P - 1 /\ Sums(b)[m] = x + d * P
  BY <1>5, <1>6
<1> HIDE DEF P, d, x
<1>9. d * P <= 255 * P /\ d * P \in Nat
  BY <1>7
<1> QED
  BY <1>7, <1>8, <1>9

LEMMA ValueBounds ==
  ASSUME NEW b \in Seq(Byte)
  PROVE  Value(b) \in 0 .. Power[Len(b)] - 1
<1>1. Len(b) \in 0 .. Len(b)
  OBVIOUS
<1> QED
  BY <1>1, ValueIs, SumsBounds

\* Bytes that are the digits of n stand for n
LEMMA ValueOfDigits ==
  ASSUME NEW b \in Seq(Byte), NEW n \in Nat, n < Power[Len(b)],
         \A i \in 1 .. Len(b) : b[i] = (n \div Power[i - 1]) % 256
  PROVE  Value(b) = n
<1> DEFINE T == {k \in 0 .. Len(b) : Sums(b)[k] # n % Power[k]}
<1>1. T = {}
  <2> SUFFICES ASSUME T # {} PROVE FALSE
    OBVIOUS
  <2>1. T \in SUBSET Nat
    OBVIOUS
  <2>2. PICK m \in T : \A k \in T : m <= k
    <3> HIDE DEF T
    <3> QED
      BY <2>1, Smallest
  <2>3. m # 0
    <3>1. Sums(b)[0] = 0 /\ Power[0] = 1 /\ n % 1 = 0
      BY SumsAre, PowerIs
    <3> QED
      BY <3>1
  <2>4. m \in 1 .. Len(b)
    BY <2>3
  <2>5. Sums(b)[m - 1] = n % Power[m - 1]
    <3>1. m - 1 \in 0 .. Len(b) /\ ~(m <= m - 1)
      BY <2>4
    <3> QED
      BY <2>2, <3>1
  <2>6. Sums(b)[m] = Sums(b)[m - 1] + ((n \div Power[m - 1]) % 256) * Power[m - 1]
    BY <2>4, SumsAre
  <2>7. n % Power[m] = (n % Power[m - 1]) + ((n \div Power[m - 1]) % 256) * Power[m - 1]
    <3>1. m - 1 \in Nat /\ (m - 1) + 1 = m
      BY <2>4
    <3> QED
      BY <3>1, PowerDigit DEF Lower
  <2>8. Sums(b)[m] = n % Power[m]
    BY <2>5, <2>6, <2>7
  <2> QED
    BY <2>8
<1>2. Value(b) = n % Power[Len(b)]
  <2>1. Len(b) \in 0 .. Len(b)
    OBVIOUS
  <2> QED
    BY <1>1, <2>1, ValueIs
<1>3. n % Power[Len(b)] = n
  <2>1. Power[Len(b)] \in Nat \ {0} /\ 0 \in Nat
    BY PowerGrows
  <2>2. n \in 0 .. Power[Len(b)] - 1 /\ n = 0 * Power[Len(b)] + n
    BY <2>1
  <2> QED
    BY <2>1, <2>2, DivModOne
<1> QED
  BY <1>2, <1>3

-----------------------------------------------------------------------------
(* Script numbers *)

Size(n) == CHOOSE k \in 0 .. Word : n < Power[k] /\ \A j \in 0 .. k - 1 : n >= Power[j]

LEMMA SizeIs ==
  ASSUME NEW n \in Nat, n < Power[Word]
  PROVE  Size(n) \in 0 .. Word /\ n < Power[Size(n)] /\ \A j \in 0 .. Size(n) - 1 : n >= Power[j]
<1> DEFINE T == {k \in 0 .. Word : n < Power[k]}
<1>1. Word \in Nat /\ T \in SUBSET Nat /\ Word \in T
  BY ContractAssumption
<1>2. PICK m \in T : \A k \in T : m <= k
  BY <1>1, Smallest
<1>3. ASSUME NEW j \in 0 .. m - 1 PROVE n >= Power[j]
  <2>1. j \in 0 .. Word /\ j \in Nat /\ ~(m <= j)
    BY <1>1
  <2>2. ~(n < Power[j])
    BY <1>2, <2>1
  <2>3. Power[j] \in Nat
    BY <2>1, PowerGrows
  <2> QED
    BY <2>2, <2>3
<1>4. \E k \in 0 .. Word : n < Power[k] /\ \A j \in 0 .. k - 1 : n >= Power[j]
  BY <1>3
<1> HIDE DEF T
<1> QED
  BY <1>4, Zenon DEF Size

LEMMA MagnitudeIs ==
  ASSUME NEW n \in Nat, n < Power[Word]
  PROVE  /\ Magnitude(n) \in Seq(Byte) /\ Len(Magnitude(n)) = Size(n)
         /\ \A i \in 1 .. Size(n) : Magnitude(n)[i] = (n \div Power[i - 1]) % 256
<1>1. Magnitude(n) = [i \in 1 .. Size(n) |-> (n \div Power[i - 1]) % 256]
  BY DEF Magnitude, Size
<1>2. Size(n) \in Nat
  BY SizeIs, ContractAssumption
<1>3. ASSUME NEW i \in 1 .. Size(n) PROVE (n \div Power[i - 1]) % 256 \in Byte
  <2>1. i - 1 \in Nat
    BY <1>2
  <2>2. Power[i - 1] \in Nat \ {0}
    BY <2>1, PowerGrows
  <2>3. n \div Power[i - 1] \in Nat
    BY <2>2, DivMod
  <2> QED
    BY <2>3 DEF Byte
<1> QED
  BY <1>1, <1>2, <1>3

\* The last byte is what is left of the number
LEMMA MagnitudeLast ==
  ASSUME NEW n \in Nat, n < Power[Word], Size(n) # 0
  PROVE  /\ Size(n) - 1 \in Nat /\ Power[Size(n) - 1] \in Nat \ {0}
         /\ n \div Power[Size(n) - 1] \in 1 .. 255
         /\ Last(Magnitude(n)) = n \div Power[Size(n) - 1]
<1> DEFINE k == Size(n) - 1
           q == n \div Power[k]
<1>1. k \in Nat /\ k \in 0 .. Size(n) - 1 /\ k + 1 = Size(n)
  BY SizeIs, ContractAssumption
<1>2. Power[k] \in Nat \ {0}
  BY <1>1, PowerGrows
<1>3. n < 256 * Power[k]
  <2>1. Power[k + 1] = 256 * Power[k]
    BY <1>1, PowerIs
  <2> QED
    BY <1>1, <2>1, SizeIs
<1>4. 1 * Power[k] <= n
  <2>1. n >= Power[k]
    BY <1>1, SizeIs
  <2> QED
    BY <1>2, <2>1
<1>5. q \in 1 .. 255
  <2> DEFINE P == Power[k]
  <2>1. P \in Nat \ {0} /\ 1 * P <= n /\ n < 256 * P
    BY <1>2, <1>3, <1>4
  <2> HIDE DEF P
  <2>2. n \div P \in 1 .. 256 - 1
    BY <2>1, Quotient
  <2> QED
    BY <2>2 DEF P
<1>6. Magnitude(n)[Size(n)] = q % 256
  BY <1>1, MagnitudeIs
<1>7. Last(Magnitude(n)) = q % 256
  BY <1>6, MagnitudeIs DEF Last
<1> HIDE DEF q, k
<1>8. q % 256 = q
  BY <1>5
<1> QED
  BY <1>1, <1>2, <1>5, <1>7, <1>8 DEF q, k

LEMMA SameExcept ==
  ASSUME NEW m \in Seq(Byte), NEW i \in 1 .. Len(m)
  PROVE  [m EXCEPT ![i] = m[i]] = m
<1>1. m \in [1 .. Len(m) -> Byte]
  OBVIOUS
<1> QED
  BY <1>1

LEMMA GetvchPositive ==
  ASSUME NEW n \in Nat, n < Power[Word]
  PROVE  /\ Getvch(n) \in Seq(Byte)
         /\ Getvch(n) = IF Size(n) = 0 THEN <<>>
                        ELSE IF Last(Magnitude(n)) >= 128 THEN Append(Magnitude(n), 0)
                        ELSE Magnitude(n)
<1> DEFINE m == Magnitude(n)
<1>1. m \in Seq(Byte) /\ Len(m) = Size(n)
  BY MagnitudeIs
<1>2. Getvch(n) = IF m = <<>> THEN m
                  ELSE IF Last(m) >= 128 THEN Append(m, 0) ELSE [m EXCEPT ![Len(m)] = @ + 0]
  <2>1. ~(n < 0)
    OBVIOUS
  <2> QED
    BY <2>1 DEF Getvch
<1>3. (m = <<>>) <=> Size(n) = 0
  BY <1>1
<1> HIDE DEF m
<1>4. ASSUME Size(n) # 0 PROVE [m EXCEPT ![Len(m)] = @ + 0] = m
  <2>1. Len(m) \in 1 .. Len(m)
    BY <1>1, <1>4
  <2>2. m[Len(m)] \in 0 .. 255
    BY <1>1, <2>1, ByteIn
  <2>3. \A d \in 0 .. 255 : d + 0 = d
    OBVIOUS
  <2>4. [m EXCEPT ![Len(m)] = m[Len(m)]] = m
    BY <1>1, <2>1, SameExcept
  <2>5. m[Len(m)] + 0 = m[Len(m)]
    BY <2>2, <2>3, Zenon
  <2> QED
    BY <2>4, <2>5, Zenon
<1>5. 0 \in Byte
  BY DEF Byte
<1>6. m \in Seq(Byte) /\ Append(m, 0) \in Seq(Byte)
  BY <1>1, <1>5
<1> QED
  BY <1>2, <1>3, <1>4, <1>6 DEF m

\* A number that is not negative is read as it was written, with no sign bit
LEMMA GetvchValue ==
  ASSUME NEW n \in Nat, n < Power[Word]
  PROVE  /\ Value(Getvch(n)) = n
         /\ Getvch(n) # <<>> => Last(Getvch(n)) < 128
<1> DEFINE b == Getvch(n)
           k == Size(n)
<1>1. /\ Magnitude(n) \in Seq(Byte) /\ Len(Magnitude(n)) = k /\ k \in Nat
      /\ \A i \in 1 .. k : Magnitude(n)[i] = (n \div Power[i - 1]) % 256
  BY MagnitudeIs, SizeIs, ContractAssumption
<1>2. b \in Seq(Byte)
  BY GetvchPositive
<1>3. CASE b = Append(Magnitude(n), 0)
  <2>1. Len(b) = k + 1 /\ \A i \in 1 .. k : b[i] = Magnitude(n)[i]
    BY <1>1, <1>3
  <2>2. b[k + 1] = 0 /\ Last(b) = 0
    BY <1>1, <1>3 DEF Last
  <2>3. Power[k] \in Nat \ {0} /\ Power[k + 1] \in Nat /\ Power[k] <= Power[k + 1]
    <3>1. k + 1 \in Nat /\ k <= k + 1
      BY <1>1
    <3> QED
      BY <1>1, <3>1, PowerGrows
  <2>4. n < Power[k]
    BY SizeIs
  <2>5. (n \div Power[k]) % 256 = 0
    <3>1. n \div Power[k] \in 0 .. 1 - 1
      BY <2>3, <2>4, Quotient
    <3> QED
      BY <3>1
  <2>6. \A i \in 1 .. Len(b) : b[i] = (n \div Power[i - 1]) % 256
    <3> SUFFICES ASSUME NEW i \in 1 .. k + 1 PROVE b[i] = (n \div Power[i - 1]) % 256
      BY <2>1
    <3>1. CASE i \in 1 .. k
      BY <1>1, <2>1, <3>1
    <3>2. CASE i = k + 1
      BY <1>1, <2>2, <2>5, <3>2
    <3> QED
      BY <1>1, <3>1, <3>2
  <2>7. n < Power[Len(b)]
    BY <2>1, <2>3, <2>4
  <2> HIDE DEF b
  <2>8. Value(b) = n
    BY <1>2, <2>6, <2>7, ValueOfDigits
  <2> QED
    BY <2>2, <2>8 DEF b
<1>4. CASE b = Magnitude(n) /\ (k # 0 => Last(Magnitude(n)) < 128)
  <2>1. Len(b) = k /\ \A i \in 1 .. Len(b) : b[i] = (n \div Power[i - 1]) % 256
    BY <1>1, <1>4
  <2>2. n < Power[Len(b)]
    BY <2>1, SizeIs
  <2>3. b # <<>> => k # 0
    BY <1>2, <2>1
  <2> HIDE DEF b
  <2>4. Value(b) = n
    BY <1>2, <2>1, <2>2, ValueOfDigits
  <2> QED
    BY <1>4, <2>3, <2>4 DEF b
<1>5. Size(n) = 0 => Magnitude(n) = <<>>
  BY <1>1
<1>6. Size(n) # 0 => Last(Magnitude(n)) \in Nat
  BY MagnitudeLast
<1> QED
  BY <1>3, <1>4, <1>5, <1>6, GetvchPositive
LEMMA GetvchBytes ==
  ASSUME NEW n \in Int, -Power[Word] < n, n < Power[Word]
  PROVE  Getvch(n) \in Seq(Byte) /\ Len(Getvch(n)) <= Word + 1
<1>1. Word \in Nat /\ Power[Word] \in Nat
  <2>1. Word \in Nat
    BY ContractAssumption
  <2> QED
    BY <2>1, PowerGrows
<1>2. CASE n >= 0
  <2>1. n \in Nat /\ n < Power[Word]
    BY <1>2
  <2>2. Magnitude(n) \in Seq(Byte) /\ Len(Magnitude(n)) = Size(n) /\ Size(n) \in 0 .. Word
    BY <2>1, MagnitudeIs, SizeIs
  <2>3. /\ Getvch(n) \in Seq(Byte)
        /\ \/ Getvch(n) = <<>>
           \/ Getvch(n) = Append(Magnitude(n), 0)
           \/ Getvch(n) = Magnitude(n)
    BY <2>1, GetvchPositive
  <2>4. Len(Append(Magnitude(n), 0)) = Size(n) + 1 /\ Len(<<>>) = 0
    BY <2>2
  <2> QED
    BY <1>1, <2>2, <2>3, <2>4
<1>3. CASE n < 0
  <2> DEFINE a == -n
             m == Magnitude(a)
  <2>1. a \in Nat /\ a < Power[Word]
    BY <1>1, <1>3
  <2>2. m \in Seq(Byte) /\ Len(m) = Size(a) /\ Size(a) \in 0 .. Word
    BY <2>1, MagnitudeIs, SizeIs
  <2>3. Getvch(n) = IF m = <<>> THEN m
                    ELSE IF Last(m) >= 128 THEN Append(m, 128)
                    ELSE [m EXCEPT ![Len(m)] = @ + 128]
    BY <1>3 DEF Getvch
  <2> HIDE DEF m, a
  <2>4. 128 \in Byte /\ Append(m, 128) \in Seq(Byte) /\ Len(Append(m, 128)) = Len(m) + 1
    BY <2>2 DEF Byte
  <2>5. ASSUME m # <<>>, ~(Last(m) >= 128)
        PROVE  /\ [m EXCEPT ![Len(m)] = @ + 128] \in Seq(Byte)
               /\ Len([m EXCEPT ![Len(m)] = @ + 128]) = Len(m)
    <3>1. Len(m) \in 1 .. Len(m)
      BY <2>2, <2>5
    <3>2. m[Len(m)] \in 0 .. 255
      BY <2>2, <3>1, ByteIn
    <3>3. \A d \in 0 .. 255 : ~(d >= 128) => d + 128 \in Byte
      BY DEF Byte
    <3>4. m[Len(m)] + 128 \in Byte
      BY <2>5, <3>2, <3>3, Zenon DEF Last
    <3> QED
      BY <2>2, <3>1, <3>4, ExceptSeq
  <2> QED
    BY <1>1, <2>2, <2>3, <2>4, <2>5
<1> QED
  BY <1>2, <1>3

\* The first of the numbers that are negative as ints
LEMMA HalfIs ==
  /\ Word - 1 \in Nat /\ Power[Word - 1] \in Nat \ {0}
  /\ Half = 128 * Power[Word - 1] /\ Power[Word] = 2 * Half
  /\ Half \in Nat \ {0}
<1>1. Word - 1 \in Nat /\ (Word - 1) + 1 = Word
  BY ContractAssumption
<1>2. Power[Word] = 256 * Power[Word - 1] /\ Power[Word - 1] \in Nat \ {0}
  BY <1>1, PowerIs, PowerGrows
<1> DEFINE P == Power[Word - 1]
<1>3. P \in Nat \ {0} /\ Half = (256 * P) \div 2 /\ Power[Word] = 256 * P
  BY <1>2 DEF Half
<1> HIDE DEF P
<1>4. (256 * P) \div 2 = 128 * P
  BY <1>3
<1>5. Half = 128 * P /\ Power[Word] = 2 * Half /\ Half \in Nat \ {0}
  BY <1>3, <1>4
<1> QED
  BY <1>1, <1>2, <1>5 DEF P

LEMMA ToIntIs ==
  ASSUME NEW n \in Nat
  PROVE  /\ ToInt(n) \in Int /\ -Power[Word] < ToInt(n) /\ ToInt(n) < Power[Word]
         /\ n < Half => ToInt(n) = n
<1> DEFINE P == Power[Word]
<1>1. P \in Nat \ {0} /\ P = 2 * Half /\ Half \in Nat \ {0}
  BY HalfIs
<1>2. ToInt(n) = IF n % P < Half THEN n % P ELSE (n % P) - P
  BY DEF ToInt
<1> HIDE DEF P
<1>3. n % P \in 0 .. P - 1
  BY <1>1, DivMod
<1>4. ASSUME n < Half PROVE n % P = n
  <2>1. n \in 0 .. P - 1 /\ n = 0 * P + n /\ 0 \in Nat
    BY <1>1, <1>4
  <2> QED
    BY <1>1, <2>1, DivModOne
<1>5. ToInt(n) \in Int /\ -P < ToInt(n) /\ ToInt(n) < P /\ (n < Half => ToInt(n) = n)
  BY <1>1, <1>2, <1>3, <1>4
<1> QED
  BY <1>5 DEF P

\* The lock times of WordLock are the ones that are pushed with Word bytes
LEMMA WordLockBytes ==
  ASSUME NEW t \in Nat, WordLock(t)
  PROVE  ToInt(t) = t /\ t \notin 1 .. 16 /\ Len(Getvch(ToInt(t))) = Word
<1>1. Word - 1 \in Nat /\ Word - 2 \in Nat /\ (Word - 2) + 1 = Word - 1 /\ Word \in Nat
  BY ContractAssumption
<1> DEFINE Q == Power[Word - 2]
           P == Power[Word - 1]
<1>2. Q \in Nat \ {0} /\ P = 256 * Q
  <2>1. Q \in Nat \ {0}
    BY <1>1, PowerGrows
  <2>2. Power[(Word - 2) + 1] = 256 * Power[Word - 2]
    BY <1>1, PowerIs
  <2> QED
    BY <1>1, <2>1, <2>2
<1>3. Half = 128 * P /\ Power[Word] = 256 * P
  BY HalfIs
<1>4. 128 * Q <= t /\ t < 128 * P
  <2>1. P \div 2 <= t /\ t < Half
    BY DEF WordLock
  <2> HIDE DEF P, Q
  <2>2. P \div 2 = 128 * Q
    BY <1>2
  <2> QED
    BY <1>3, <2>1, <2>2
<1>5. ToInt(t) = t
  BY ToIntIs DEF WordLock
<1> HIDE DEF P, Q
<1>6. t \notin 1 .. 16 /\ t < Power[Word]
  BY <1>2, <1>3, <1>4
<1>7. Size(t) \in 0 .. Word /\ t < Power[Size(t)] /\ \A j \in 0 .. Size(t) - 1 : t >= Power[j]
  BY <1>6, SizeIs
<1>8. Size(t) >= Word - 1
  <2> SUFFICES ASSUME Size(t) <= Word - 2 PROVE FALSE
    BY <1>1, <1>7
  <2>1. Size(t) \in Nat /\ Power[Size(t)] <= Q /\ Power[Size(t)] \in Nat
    BY <1>1, <1>7, PowerGrows DEF Q
  <2> QED
    BY <1>2, <1>4, <1>7, <2>1
<1>9. /\ Magnitude(t) \in Seq(Byte) /\ Len(Magnitude(t)) = Size(t)
      /\ Getvch(t) = IF Last(Magnitude(t)) >= 128 THEN Append(Magnitude(t), 0)
                     ELSE Magnitude(t)
  BY <1>1, <1>6, <1>8, MagnitudeIs, GetvchPositive
<1>10. Last(Magnitude(t)) = t \div Power[Size(t) - 1]
  BY <1>1, <1>6, <1>8, MagnitudeLast
<1>11. CASE Size(t) = Word
  <2>1. Last(Magnitude(t)) = t \div P
    BY <1>10, <1>11 DEF P
  <2>2. t \div P \in 0 .. 128 - 1
    BY <1>2, <1>4, Quotient
  <2>3. ~(Last(Magnitude(t)) >= 128)
    BY <2>1, <2>2
  <2> QED
    BY <1>5, <1>6, <1>9, <1>11, <2>3
<1>12. CASE Size(t) = Word - 1
  <2>1. Last(Magnitude(t)) = t \div Q
    BY <1>1, <1>10, <1>12 DEF Q
  <2>2. t < 256 * Q
    <3>1. t < P
      BY <1>7, <1>12 DEF P
    <3> QED
      BY <1>2, <3>1
  <2>3. t \div Q \in 128 .. 256 - 1
    BY <1>2, <1>4, <2>2, Quotient
  <2>4. Last(Magnitude(t)) >= 128
    BY <2>1, <2>3
  <2>5. Len(Append(Magnitude(t), 0)) = Len(Magnitude(t)) + 1
    BY <1>9
  <2> QED
    BY <1>1, <1>5, <1>6, <1>9, <1>12, <2>4, <2>5
<1> QED
  BY <1>1, <1>7, <1>8, <1>11, <1>12
-----------------------------------------------------------------------------
(* Pushes *)

LEMMA PowerTwo == Power[1] = 256 /\ Power[2] = 256 * 256
<1>1. Power[0] = 1 /\ Power[0 + 1] = 256 * Power[0]
  BY PowerIs
<1>2. Power[1] = 256 /\ Power[1 + 1] = 256 * Power[1]
  BY <1>1, PowerIs
<1> QED
  BY <1>2

LEMMA ConcatFirst ==
  ASSUME NEW p \in Seq(Byte), NEW v \in Seq(Byte), Len(p) >= 1
  PROVE  p \o v \in Seq(Byte) /\ Len(p \o v) = Len(p) + Len(v) /\ (p \o v)[1] = p[1]
<1>1. /\ p \o v \in Seq(Byte) /\ Len(p \o v) = Len(p) + Len(v)
      /\ \A i \in 1 .. Len(p) + Len(v) :
           (p \o v)[i] = IF i <= Len(p) THEN p[i] ELSE v[i - Len(p)]
  BY ConcatProperties
<1>2. 1 \in 1 .. Len(p) + Len(v) /\ 1 <= Len(p)
  OBVIOUS
<1> QED
  BY <1>1, <1>2

LEMMA PushIs ==
  ASSUME NEW v \in Seq(Byte), Len(v) < Power[2]
  PROVE  /\ Push(v) \in Seq(Byte) /\ Len(Push(v)) \in Nat \ {0}
         /\ Len(v) < 76 => Push(v) = <<Len(v)>> \o v /\ Push(v)[1] = Len(v)
         /\ Len(v) >= 76 => Push(v)[1] \in {76, 77}
<1> DEFINE n == Len(v)
           p == PushSize(n)
<1>1. n \in Nat
  OBVIOUS
<1>2. Push(v) = p \o v
  BY DEF Push
<1>3. v \in Seq(Byte) /\ n = Len(v)
  OBVIOUS
<1> HIDE DEF n
<1>4. CASE n < 76
  <2>1. p = <<n>> /\ n \in Byte
    BY <1>1, <1>4 DEF PushSize, OP_PUSHDATA1, Byte
  <2> HIDE DEF p
  <2>2. p \in Seq(Byte) /\ Len(p) = 1 /\ p[1] = n
    BY <2>1
  <2>3. p \o v \in Seq(Byte) /\ Len(p \o v) = 1 + n /\ (p \o v)[1] = n
    <3>1. Len(p) >= 1
      BY <2>2
    <3>2. p \o v \in Seq(Byte) /\ Len(p \o v) = Len(p) + Len(v) /\ (p \o v)[1] = p[1]
      BY <1>3, <2>2, <3>1, ConcatFirst, Zenon
    <3> QED
      BY <1>3, <2>2, <3>2
  <2> QED
    BY <1>1, <1>2, <1>3, <1>4, <2>1, <2>3
<1>5. CASE n >= 76 /\ n <= 255
  <2>1. p = <<76, n>> /\ n \in Byte /\ 76 \in Byte
    BY <1>1, <1>5 DEF PushSize, OP_PUSHDATA1, Byte
  <2> HIDE DEF p
  <2>2. p \in Seq(Byte) /\ Len(p) = 2 /\ p[1] = 76
    BY <2>1
  <2>3. p \o v \in Seq(Byte) /\ Len(p \o v) = 2 + n /\ (p \o v)[1] = 76
    <3>1. Len(p) >= 1
      BY <2>2
    <3>2. p \o v \in Seq(Byte) /\ Len(p \o v) = Len(p) + Len(v) /\ (p \o v)[1] = p[1]
      BY <1>3, <2>2, <3>1, ConcatFirst, Zenon
    <3> QED
      BY <1>3, <2>2, <3>2
  <2> QED
    BY <1>1, <1>2, <1>3, <1>5, <2>3
<1>6. CASE n > 255
  <2>1. p = <<77, n % 256, n \div 256>>
    BY <1>1, <1>6 DEF PushSize, OP_PUSHDATA1, OP_PUSHDATA2
  <2>2. n % 256 \in Byte /\ n \div 256 \in Byte /\ 77 \in Byte
    <3>1. 0 * 256 <= n /\ n < 256 * 256
      BY <1>1, PowerTwo DEF n
    <3>2. n \div 256 \in 0 .. 256 - 1
      BY <1>1, <3>1, Quotient
    <3>3. n % 256 \in 0 .. 255
      BY <1>1
    <3> QED
      BY <3>2, <3>3 DEF Byte
  <2> HIDE DEF p
  <2>3. p \in Seq(Byte) /\ Len(p) = 3 /\ p[1] = 77
    BY <2>1, <2>2
  <2>4. p \o v \in Seq(Byte) /\ Len(p \o v) = 3 + n /\ (p \o v)[1] = 77
    <3>1. Len(p) >= 1
      BY <2>3
    <3>2. p \o v \in Seq(Byte) /\ Len(p \o v) = Len(p) + Len(v) /\ (p \o v)[1] = p[1]
      BY <1>3, <2>3, <3>1, ConcatFirst, Zenon
    <3> QED
      BY <1>3, <2>3, <3>2
  <2> QED
    BY <1>1, <1>2, <1>3, <1>6, <2>4
<1> QED
  BY <1>1, <1>4, <1>5, <1>6

\* The lock times whose push has the length byte that ISAtomicSwap looks for
Fits(t) == t \notin 1 .. 16 /\ Len(Getvch(ToInt(t))) = Word

LEMMA PushLockIs ==
  ASSUME NEW t \in Nat
  PROVE  /\ PushInt64(t) \in Seq(Byte) /\ Len(PushInt64(t)) \in Nat \ {0}
         /\ Fits(t) => /\ PushInt64(t) = <<Word>> \o Getvch(ToInt(t))
                       /\ Getvch(ToInt(t)) \in Seq(Byte)
         /\ ~Fits(t) => PushInt64(t)[1] # Word
<1>1. CASE t \in 1 .. 16
  <2>1. PushInt64(t) = <<80 + t>> /\ 80 + t \in Byte
    BY <1>1 DEF PushInt64, OP_1, Byte
  <2> DEFINE x == 80 + t
  <2>2. x \in Byte /\ x # Word
    BY <1>1, <2>1, ContractAssumption
  <2> HIDE DEF x
  <2>3. <<x>> \in Seq(Byte) /\ Len(<<x>>) = 1 /\ <<x>>[1] # Word
    BY <2>2
  <2> QED
    BY <1>1, <2>1, <2>3 DEF Fits, x
<1>2. CASE t \notin 1 .. 16
  <2> DEFINE v == Getvch(ToInt(t))
  <2>1. v \in Seq(Byte) /\ Len(v) <= Word + 1
    BY ToIntIs, GetvchBytes
  <2>2. PushInt64(t) = Push(v)
    BY <1>2 DEF PushInt64
  <2>3. Fits(t) <=> Len(v) = Word
    BY <1>2 DEF Fits
  <2> HIDE DEF v
  <2>4. Word \in 2 .. 75 /\ Len(v) \in Nat /\ Len(v) < Power[2]
    BY <2>1, PowerTwo, ContractAssumption
  <2>5. /\ Push(v) \in Seq(Byte) /\ Len(Push(v)) \in Nat \ {0}
        /\ Len(v) < 76 => Push(v) = <<Len(v)>> \o v /\ Push(v)[1] = Len(v)
        /\ Len(v) >= 76 => Push(v)[1] \in {76, 77}
    BY <2>1, <2>4, PushIs
  <2>6. Len(v) = Word => Push(v) = <<Word>> \o v
    BY <2>4, <2>5
  <2>7. Len(v) # Word => Push(v)[1] # Word
    BY <2>4, <2>5
  <2> QED
    BY <2>1, <2>2, <2>3, <2>5, <2>6, <2>7 DEF v
<1> QED
  BY <1>1, <1>2

-----------------------------------------------------------------------------
(* Where the parts of a script are *)

\* s has p after its first k bytes
Has(s, k, p) == k + Len(p) <= Len(s) /\ \A i \in 1 .. Len(p) : s[k + i] = p[i]
Starts(s, p) == Len(p) <= Len(s) /\ \A i \in 1 .. Len(p) : s[i] = p[i]

LEMMA Peel ==
  ASSUME NEW s \in Seq(Byte), NEW p \in Seq(Byte), NEW q \in Seq(Byte), Starts(s, p \o q)
  PROVE  Starts(s, p) /\ Has(s, Len(p), q)
<1>1. /\ Len(p \o q) = Len(p) + Len(q)
      /\ \A i \in 1 .. Len(p) + Len(q) :
           (p \o q)[i] = IF i <= Len(p) THEN p[i] ELSE q[i - Len(p)]
  BY ConcatProperties
<1>2. Len(p) \in Nat /\ Len(q) \in Nat /\ Len(s) \in Nat
  OBVIOUS
<1>3. Len(p) + Len(q) <= Len(s) /\ \A i \in 1 .. Len(p) + Len(q) : s[i] = (p \o q)[i]
  BY <1>1 DEF Starts
<1>4. ASSUME NEW i \in 1 .. Len(p) PROVE s[i] = p[i]
  <2>1. i \in 1 .. Len(p) + Len(q) /\ i <= Len(p)
    BY <1>2
  <2> QED
    BY <1>1, <1>3, <2>1
<1>5. ASSUME NEW i \in 1 .. Len(q) PROVE s[Len(p) + i] = q[i]
  <2>1. /\ Len(p) + i \in 1 .. Len(p) + Len(q) /\ ~(Len(p) + i <= Len(p))
        /\ (Len(p) + i) - Len(p) = i
    BY <1>2
  <2> QED
    BY <1>1, <1>3, <2>1
<1> QED
  BY <1>2, <1>3, <1>4, <1>5 DEF Starts, Has

LEMMA HasTail ==
  ASSUME NEW s \in Seq(Byte), NEW k \in Nat, NEW n \in Byte, NEW v \in Seq(Byte),
         Has(s, k, <<n>> \o v)
  PROVE  s[k + 1] = n /\ k + 1 + Len(v) <= Len(s) /\ Part(s, k + 1, Len(v)) = v
<1>1. /\ Len(<<n>> \o v) = 1 + Len(v) /\ (<<n>> \o v)[1] = n
      /\ \A i \in 1 .. Len(v) : (<<n>> \o v)[1 + i] = v[i]
  <2>1. <<n>> \in Seq(Byte) /\ Len(<<n>>) = 1 /\ <<n>>[1] = n
    OBVIOUS
  <2>2. /\ Len(<<n>> \o v) = 1 + Len(v)
        /\ \A i \in 1 .. 1 + Len(v) :
             (<<n>> \o v)[i] = IF i <= 1 THEN <<n>>[i] ELSE v[i - 1]
    BY <2>1, ConcatProperties
  <2>3. (<<n>> \o v)[1] = n
    BY <2>1, <2>2
  <2>4. ASSUME NEW i \in 1 .. Len(v) PROVE (<<n>> \o v)[1 + i] = v[i]
    <3>1. 1 + i \in 1 .. 1 + Len(v) /\ ~(1 + i <= 1) /\ (1 + i) - 1 = i
      OBVIOUS
    <3> QED
      BY <2>2, <3>1
  <2> QED
    BY <2>2, <2>3, <2>4
<1>2. k + (1 + Len(v)) <= Len(s) /\ \A i \in 1 .. 1 + Len(v) : s[k + i] = (<<n>> \o v)[i]
  BY <1>1 DEF Has
<1>3. s[k + 1] = n
  <2>1. 1 \in 1 .. 1 + Len(v)
    OBVIOUS
  <2> QED
    BY <1>1, <1>2, <2>1
<1>4. ASSUME NEW i \in 1 .. Len(v) PROVE s[(k + 1) + i] = v[i]
  <2>1. 1 + i \in 1 .. 1 + Len(v) /\ k + (1 + i) = (k + 1) + i
    OBVIOUS
  <2> QED
    BY <1>1, <1>2, <2>1
<1>5. k + 1 + Len(v) <= Len(s)
  BY <1>2
<1>6. Part(s, k + 1, Len(v)) = v
  <2> DEFINE a == k + 1 + 1
             b == k + 1 + Len(v)
             t == SubSeq(s, a, b)
  <2>1. a \in Int /\ b \in Int /\ (IF a <= b THEN (b - a) + 1 ELSE 0) = Len(v) /\ (b - a) + 1 = Len(v)
    OBVIOUS
  <2>2. \A i \in a .. b : s[i] \in Byte
    <3>1. \A i \in a .. b : i \in 1 .. Len(s)
      BY <1>5
    <3> QED
      BY <3>1, ElementOfSeq
  <2> HIDE DEF a, b
  <2>3. /\ t \in Seq(Byte) /\ Len(t) = Len(v)
        /\ \A i \in 1 .. Len(v) : t[i] = s[a + i - 1]
    BY <2>1, <2>2, SubSeqProperties
  <2> HIDE DEF t
  <2>4. ASSUME NEW i \in 1 .. Len(v) PROVE t[i] = v[i]
    <3>1. a + i - 1 = (k + 1) + i
      BY DEF a
    <3> QED
      BY <1>4, <2>3, <3>1
  <2>5. t = v
    BY <2>3, <2>4, SeqEqual
  <2> QED
    BY <2>5 DEF Part, t, a, b
<1> QED
  BY <1>3, <1>5, <1>6

LEMMA HasOpcodes ==
  ASSUME NEW s \in Seq(Byte), NEW k \in Nat, NEW a \in Byte, NEW b \in Byte, NEW c \in Byte
  PROVE  /\ Has(s, k, <<a>>) => k + 1 <= Len(s) /\ s[k + 1] = a
         /\ Has(s, k, <<a, b>>) => k + 2 <= Len(s) /\ s[k + 1] = a /\ s[k + 2] = b
         /\ Has(s, k, <<a, b, c>>) =>
              k + 3 <= Len(s) /\ s[k + 1] = a /\ s[k + 2] = b /\ s[k + 3] = c
<1>1. Len(<<a>>) = 1 /\ <<a>>[1] = a
  OBVIOUS
<1>2. Len(<<a, b>>) = 2 /\ <<a, b>>[1] = a /\ <<a, b>>[2] = b
  OBVIOUS
<1>3. Len(<<a, b, c>>) = 3 /\ <<a, b, c>>[1] = a /\ <<a, b, c>>[2] = b /\ <<a, b, c>>[3] = c
  OBVIOUS
<1>4. 1 \in 1 .. 1 /\ 1 \in 1 .. 2 /\ 2 \in 1 .. 2 /\ {1, 2, 3} \subseteq 1 .. 3
  OBVIOUS
<1> QED
  BY <1>1, <1>2, <1>3, <1>4, Zenon DEF Has
\* A key hash and its push
LEMMA KeyIs ==
  ASSUME NEW k \in [1 .. HashLen -> Byte]
  PROVE  /\ k \in Seq(Byte) /\ Len(k) = HashLen
         /\ Push(k) = <<HashLen>> \o k /\ Push(k) \in Seq(Byte) /\ Len(Push(k)) = HashLen + 1
<1>1. HashLen \in Nat /\ HashLen < 76 /\ HashLen < Power[2]
  BY PowerTwo, ContractAssumption
<1>2. k \in Seq(Byte) /\ Len(k) = HashLen
  BY <1>1
<1>3. Push(k) = <<HashLen>> \o k /\ Push(k) \in Seq(Byte)
  BY <1>1, <1>2, PushIs
<1>4. <<HashLen>> \in Seq(Byte) /\ Len(<<HashLen>>) = 1
  BY <1>1, ContractAssumption DEF Byte
<1>5. Len(<<HashLen>> \o k) = Len(<<HashLen>>) + Len(k)
  BY <1>2, <1>4, ConcatProperties
<1> QED
  BY <1>1, <1>2, <1>3, <1>4, <1>5

LEMMA OpcodesAreBytes ==
  /\ OP_IF \in Byte /\ OP_RIPEMD160 \in Byte /\ OP_EQUALVERIFY \in Byte /\ OP_DUP \in Byte
  /\ OP_HASH160 \in Byte /\ OP_ELSE \in Byte /\ OP_CHECKLOCKTIMEVERIFY \in Byte
  /\ OP_DROP \in Byte /\ OP_ENDIF \in Byte /\ OP_CHECKSIG \in Byte
BY DEF Byte, OP_IF, OP_RIPEMD160, OP_EQUALVERIFY, OP_DUP, OP_HASH160, OP_ELSE,
       OP_CHECKLOCKTIMEVERIFY, OP_DROP, OP_ENDIF, OP_CHECKSIG

LEMMA NextOpcodes ==
  ASSUME NEW k \in Nat
  PROVE  (k + 7) + 2 = k + 9 /\ (k + 9) + 2 = k + 11
OBVIOUS

\* Where AtomicSwapContract puts its parts, whatever the lengths of the pushes
LEMMA Layout ==
  ASSUME NEW me \in [1 .. HashLen -> Byte], NEW them \in [1 .. HashLen -> Byte],
         NEW t \in Nat, NEW h \in Seq(Byte), Len(h) < Power[2]
  PROVE  LET s == AtomicSwapContract(me, them, t, h)
             x == Len(Push(h)) + HashLen
             y == x + Len(PushInt64(t)) IN
         /\ s \in Seq(Byte) /\ Len(Push(h)) \in Nat \ {0} /\ Len(PushInt64(t)) \in Nat \ {0}
         /\ Has(s, 0, <<OP_IF, OP_RIPEMD160>>)
         /\ Has(s, 2, Push(h))
         /\ Has(s, 2 + Len(Push(h)), <<OP_EQUALVERIFY, OP_DUP, OP_HASH160>>)
         /\ Has(s, 5 + Len(Push(h)), Push(them))
         /\ Has(s, x + 6, <<OP_ELSE>>)
         /\ Has(s, x + 7, PushInt64(t))
         /\ Has(s, y + 7, <<OP_CHECKLOCKTIMEVERIFY, OP_DROP>>)
         /\ Has(s, y + 9, <<OP_DUP, OP_HASH160>>)
         /\ Has(s, y + 11, Push(me))
         /\ Has(s, y + 12 + HashLen, <<OP_ENDIF, OP_EQUALVERIFY, OP_CHECKSIG>>)
<1> DEFINE a1 == <<OP_IF, OP_RIPEMD160>>
           a2 == Push(h)
           a3 == <<OP_EQUALVERIFY, OP_DUP, OP_HASH160>>
           a4 == Push(them)
           a5 == <<OP_ELSE>>
           a6 == PushInt64(t)
           a7 == <<OP_CHECKLOCKTIMEVERIFY, OP_DROP>>
           a8 == <<OP_DUP, OP_HASH160>>
           a9 == Push(me)
           a10 == <<OP_ENDIF, OP_EQUALVERIFY, OP_CHECKSIG>>
           s1 == a1
           s2 == s1 \o a2
           s3 == s2 \o a3
           s4 == s3 \o a4
           s5 == s4 \o a5
           s6 == s5 \o a6
           s7 == s6 \o a7
           s8 == s7 \o a8
           s9 == s8 \o a9
           s10 == s9 \o a10
           s == AtomicSwapContract(me, them, t, h)
           x == Len(Push(h)) + HashLen
           y == x + Len(PushInt64(t))
<1>1. s = s10
  BY DEF AtomicSwapContract
<1>2. /\ a1 \in Seq(Byte) /\ Len(a1) = 2 /\ a3 \in Seq(Byte) /\ Len(a3) = 3
      /\ a5 \in Seq(Byte) /\ Len(a5) = 1 /\ a7 \in Seq(Byte) /\ Len(a7) = 2
      /\ a8 \in Seq(Byte) /\ Len(a8) = 2 /\ a10 \in Seq(Byte) /\ Len(a10) = 3
  BY OpcodesAreBytes
<1>3. a2 \in Seq(Byte) /\ Len(a2) \in Nat \ {0}
  BY PushIs
<1>4. a4 \in Seq(Byte) /\ Len(a4) = HashLen + 1 /\ a9 \in Seq(Byte) /\ Len(a9) = HashLen + 1
  BY KeyIs
<1>5. a6 \in Seq(Byte) /\ Len(a6) \in Nat \ {0}
  BY PushLockIs
<1>6. HashLen \in Nat
  BY ContractAssumption
<1>7. x = Len(a2) + HashLen /\ y = x + Len(a6)
  OBVIOUS
<1> HIDE DEF a1, a2, a3, a4, a5, a6, a7, a8, a9, a10, s, x, y
<1>8. s1 \in Seq(Byte) /\ Len(s1) = Len(a1)
  BY <1>2
<1> HIDE DEF s1
<1>9. s2 \in Seq(Byte) /\ Len(s2) = Len(s1) + Len(a2)
  BY <1>3, <1>8, ConcatProperties
<1> HIDE DEF s2
<1>10. s3 \in Seq(Byte) /\ Len(s3) = Len(s2) + Len(a3)
  BY <1>2, <1>9, ConcatProperties
<1> HIDE DEF s3
<1>11. s4 \in Seq(Byte) /\ Len(s4) = Len(s3) + Len(a4)
  BY <1>4, <1>10, ConcatProperties
<1> HIDE DEF s4
<1>12. s5 \in Seq(Byte) /\ Len(s5) = Len(s4) + Len(a5)
  BY <1>2, <1>11, ConcatProperties
<1> HIDE DEF s5
<1>13. s6 \in Seq(Byte) /\ Len(s6) = Len(s5) + Len(a6)
  BY <1>5, <1>12, ConcatProperties
<1> HIDE DEF s6
<1>14. s7 \in Seq(Byte) /\ Len(s7) = Len(s6) + Len(a7)
  BY <1>2, <1>13, ConcatProperties
<1> HIDE DEF s7
<1>15. s8 \in Seq(Byte) /\ Len(s8) = Len(s7) + Len(a8)
  BY <1>2, <1>14, ConcatProperties
<1> HIDE DEF s8
<1>16. s9 \in Seq(Byte) /\ Len(s9) = Len(s8) + Len(a9)
  BY <1>4, <1>15, ConcatProperties
<1> HIDE DEF s9
<1>17. s10 \in Seq(Byte) /\ Len(s10) = Len(s9) + Len(a10)
  BY <1>2, <1>16, ConcatProperties
<1> HIDE DEF s10
<1>18. s \in Seq(Byte) /\ Starts(s, s10)
  BY <1>1, <1>17 DEF Starts
<1>19. Starts(s, s9) /\ Has(s, Len(s9), a10)
  BY <1>2, <1>16, <1>18, Peel DEF s10
<1>20. Starts(s, s8) /\ Has(s, Len(s8), a9)
  BY <1>4, <1>15, <1>18, <1>19, Peel DEF s9
<1>21. Starts(s, s7) /\ Has(s, Len(s7), a8)
  BY <1>2, <1>14, <1>18, <1>20, Peel DEF s8
<1>22. Starts(s, s6) /\ Has(s, Len(s6), a7)
  BY <1>2, <1>13, <1>18, <1>21, Peel DEF s7
<1>23. Starts(s, s5) /\ Has(s, Len(s5), a6)
  BY <1>5, <1>12, <1>18, <1>22, Peel DEF s6
<1>24. Starts(s, s4) /\ Has(s, Len(s4), a5)
  BY <1>2, <1>11, <1>18, <1>23, Peel DEF s5
<1>25. Starts(s, s3) /\ Has(s, Len(s3), a4)
  BY <1>4, <1>10, <1>18, <1>24, Peel DEF s4
<1>26. Starts(s, s2) /\ Has(s, Len(s2), a3)
  BY <1>2, <1>9, <1>18, <1>25, Peel DEF s3
<1>27. Starts(s, s1) /\ Has(s, Len(s1), a2)
  BY <1>3, <1>8, <1>18, <1>26, Peel DEF s2
<1>28. Has(s, 0, a1)
  <2>1. Len(a1) <= Len(s) /\ \A i \in 1 .. Len(a1) : s[i] = a1[i]
    BY <1>27 DEF Starts, s1
  <2>2. 0 + Len(a1) = Len(a1) /\ \A i \in 1 .. Len(a1) : 0 + i = i
    BY <1>2
  <2> QED
    BY <2>1, <2>2 DEF Has
<1>29. /\ Len(s1) = 2 /\ Len(s2) = 2 + Len(a2) /\ Len(s3) = 5 + Len(a2)
       /\ Len(s4) = x + 6 /\ Len(s5) = x + 7 /\ Len(s6) = y + 7
       /\ Len(s7) = y + 9 /\ Len(s8) = y + 11 /\ Len(s9) = y + 12 + HashLen
  <2> DEFINE m == Len(a2)
             n == Len(a6)
  <2>1. Len(s1) = 2 /\ Len(s2) = 2 + m /\ Len(s3) = 5 + m /\ m \in Nat
    <3>1. Len(s1) = 2 /\ Len(s2) = Len(s1) + m /\ Len(s3) = Len(s2) + 3 /\ m \in Nat
      BY <1>2, <1>3, <1>8, <1>9, <1>10
    <3> HIDE DEF m
    <3> QED
      BY <3>1
  <2>2. Len(s4) = x + 6 /\ Len(s5) = x + 7 /\ x \in Nat
    <3>1. Len(s4) = Len(s3) + (HashLen + 1) /\ Len(s5) = Len(s4) + 1 /\ x = m + HashLen
      BY <1>2, <1>4, <1>7, <1>11, <1>12
    <3> HIDE DEF m
    <3> QED
      BY <1>6, <2>1, <3>1
  <2>3. Len(s6) = y + 7 /\ Len(s7) = y + 9 /\ Len(s8) = y + 11 /\ y \in Nat
    <3> DEFINE u == Len(s6)
               v == Len(s7)
               w == Len(s8)
    <3>1. u = (x + 7) + n /\ y = x + n
      BY <1>7, <1>13, <2>2
    <3>2. v = u + 2 /\ w = v + 2
      BY <1>2, <1>14, <1>15
    <3>3. n \in Nat /\ x \in Nat
      BY <1>5, <2>2
    <3> HIDE DEF n, u, v, w
    <3>4. u = y + 7 /\ y \in Nat
      BY <3>1, <3>3
    <3>5. v = y + 9 /\ w = y + 11
      BY <3>2, <3>4, NextOpcodes, Zenon
    <3> QED
      BY <3>4, <3>5 DEF u, v, w
  <2>4. Len(s9) = y + 12 + HashLen
    <3>1. Len(s9) = Len(s8) + (HashLen + 1)
      BY <1>4, <1>16
    <3> QED
      BY <1>6, <2>3, <3>1
  <2> QED
    BY <2>1, <2>2, <2>3, <2>4
<1> QED
  BY <1>3, <1>5, <1>18, <1>29, <1>28, <1>27, <1>26, <1>25, <1>24, <1>23, <1>22, <1>21, <1>20, <1>19
     DEF a1, a2, a3, a4, a5, a6, a7, a8, a9, a10, s, x, y

-----------------------------------------------------------------------------
(* Recognising a script *)

At(s, i) == ~Beyond(s, i) /\ s[Template[i][1] + 1] = Template[i][2]

LEMMA AtIs ==
  ASSUME NEW s \in Seq(Byte), NEW i \in 1 .. 17
  PROVE  At(s, i) <=> ~(Template[i][1] >= Len(s)) /\ s[Template[i][1] + 1] = Template[i][2]
BY DEF At, Beyond

LEMMA TemplateIs ==
  /\ DOMAIN Template = 1 .. 17
  /\ Template[1] = <<0, OP_IF>> /\ Template[2] = <<1, OP_RIPEMD160>>
  /\ Template[3] = <<2, HashLen>>
  /\ Template[4] = <<ThemAt - 4, OP_EQUALVERIFY>> /\ Template[5] = <<ThemAt - 3, OP_DUP>>
  /\ Template[6] = <<ThemAt - 2, OP_HASH160>> /\ Template[7] = <<ThemAt - 1, HashLen>>
  /\ Template[8] = <<LockAt - 2, OP_ELSE>> /\ Template[9] = <<LockAt - 1, Word>>
  /\ Template[10] = <<LockAt + Word, OP_CHECKLOCKTIMEVERIFY>>
  /\ Template[11] = <<LockAt + Word + 1, OP_DROP>>
  /\ Template[12] = <<LockAt + Word + 2, OP_DUP>>
  /\ Template[13] = <<LockAt + Word + 3, OP_HASH160>>
  /\ Template[14] = <<MeAt - 1, HashLen>> /\ Template[15] = <<MeAt + HashLen, OP_ENDIF>>
  /\ Template[16] = <<MeAt + HashLen + 1, OP_EQUALVERIFY>>
  /\ Template[17] = <<MeAt + HashLen + 2, OP_CHECKSIG>>
BY DEF Template

LEMMA Recognised ==
  ASSUME NEW s
  PROVE  (ISAtomicSwap(s) = "yes") <=> \A i \in 1 .. 17 : At(s, i)
<1> DEFINE fails == {i \in DOMAIN Template :
                       Beyond(s, i) \/ s[Template[i][1] + 1] # Template[i][2]}
<1>1. fails = {i \in 1 .. 17 : ~At(s, i)}
  BY TemplateIs DEF At
<1>2. ISAtomicSwap(s) = IF fails = {} THEN "yes"
                        ELSE IF Beyond(s, Min(fails)) THEN "throws" ELSE "no"
  BY DEF ISAtomicSwap
<1> HIDE DEF fails
<1>3. (ISAtomicSwap(s) = "yes") <=> fails = {}
  BY <1>2
<1> QED
  BY <1>1, <1>3

\* A comparison that fails within the script decides, if those before it hold
LEMMA Refused ==
  ASSUME NEW s, NEW n \in 1 .. 17, \A i \in 1 .. n - 1 : At(s, i), ~Beyond(s, n), ~At(s, n)
  PROVE  ISAtomicSwap(s) = "no"
<1> DEFINE fails == {i \in DOMAIN Template :
                       Beyond(s, i) \/ s[Template[i][1] + 1] # Template[i][2]}
<1>1. fails = {i \in 1 .. 17 : ~At(s, i)}
  BY TemplateIs DEF At
<1>2. ISAtomicSwap(s) = IF fails = {} THEN "yes"
                        ELSE IF Beyond(s, Min(fails)) THEN "throws" ELSE "no"
  BY DEF ISAtomicSwap
<1> HIDE DEF fails
<1>3. n \in fails /\ \A i \in fails : i \in 1 .. 17 /\ n <= i
  <2>1. \A i \in fails : i \in 1 .. 17 /\ ~(i \in 1 .. n - 1)
    BY <1>1
  <2>2. \A i \in 1 .. 17 : ~(i \in 1 .. n - 1) => n <= i
    OBVIOUS
  <2> QED
    BY <1>1, <2>1, <2>2
<1>4. Min(fails) \in fails /\ \A i \in fails : Min(fails) <= i
  BY <1>3, Zenon DEF Min
<1>5. Min(fails) = n
  <2>1. Min(fails) <= n /\ n <= Min(fails) /\ Min(fails) \in 1 .. 17
    BY <1>3, <1>4
  <2> QED
    BY <2>1
<1> QED
  BY <1>2, <1>3, <1>5
LEMMA OffsetsAre ==
  /\ HashLen \in Nat /\ Word \in Nat /\ HashAt = 3
  /\ ThemAt = HashLen + 7 /\ LockAt = HashLen + HashLen + 9
  /\ MeAt = HashLen + HashLen + Word + 14
  /\ HashLen \in Byte /\ Word \in Byte
<1>1. HashLen \in Nat /\ Word \in Nat /\ HashLen \in Byte /\ Word \in Byte
  BY ContractAssumption DEF Byte
<1> QED
  BY <1>1 DEF HashAt, ThemAt, LockAt, MeAt

LEMMA HeadOffsets ==
  ASSUME NEW lp, lp = HashLen + 1
  PROVE  /\ 2 + lp = ThemAt - 4 /\ 5 + lp = ThemAt - 1
         /\ (lp + HashLen) + 6 = LockAt - 2 /\ (lp + HashLen) + 7 = LockAt - 1
BY OffsetsAre

LEMMA TailOffsets ==
  ASSUME NEW y, y = ((HashLen + 1) + HashLen) + (Word + 1)
  PROVE  /\ y + 7 = LockAt + Word /\ y + 9 = LockAt + Word + 2
         /\ y + 11 = MeAt - 1 /\ y + 12 + HashLen = MeAt + HashLen
BY OffsetsAre

\* Which comparison looks at which byte of a part
LEMMA AtHas ==
  ASSUME NEW s \in Seq(Byte), NEW k \in Nat, NEW p, Len(p) \in Nat, Has(s, k, p),
         NEW i \in 1 .. 17, NEW j \in 1 .. Len(p), NEW at \in Nat, NEW b,
         Template[i] = <<at, b>>, at + 1 = k + j, p[j] = b
  PROVE  At(s, i)
<1>1. Template[i][1] = at /\ Template[i][2] = b
  OBVIOUS
<1>2. k + Len(p) <= Len(s) /\ s[k + j] = p[j]
  BY DEF Has
<1>3. ~(at >= Len(s))
  BY <1>2
<1>4. s[at + 1] = b
  BY <1>2
<1> QED
  BY <1>1, <1>3, <1>4, AtIs

LEMMA AtOne ==
  ASSUME NEW s \in Seq(Byte), NEW k \in Nat, NEW a, Has(s, k, <<a>>),
         NEW i \in 1 .. 17, Template[i] = <<k, a>>
  PROVE  At(s, i)
<1>1. Len(<<a>>) = 1 /\ <<a>>[1] = a /\ 1 \in 1 .. 1 /\ Len(<<a>>) \in Nat
  OBVIOUS
<1> QED
  BY <1>1, AtHas, Zenon

LEMMA AtTwo ==
  ASSUME NEW s \in Seq(Byte), NEW k \in Nat, NEW a, NEW b, Has(s, k, <<a, b>>),
         NEW i \in 1 .. 17, NEW j \in 1 .. 17, Template[i] = <<k, a>>, Template[j] = <<k + 1, b>>
  PROVE  At(s, i) /\ At(s, j)
<1> DEFINE p == <<a, b>>
<1>1. Len(p) = 2 /\ p[1] = a /\ p[2] = b /\ 1 \in 1 .. 2 /\ 2 \in 1 .. 2 /\ Len(p) \in Nat
  OBVIOUS
<1>2. k + 1 \in Nat /\ (k + 1) + 1 = k + 2
  OBVIOUS
<1> HIDE DEF p
<1>3. Has(s, k, p)
  BY DEF p
<1> QED
  BY <1>1, <1>2, <1>3, AtHas, Zenon

LEMMA AtThree ==
  ASSUME NEW s \in Seq(Byte), NEW k \in Nat, NEW a, NEW b, NEW c, Has(s, k, <<a, b, c>>),
         NEW i \in 1 .. 17, NEW j \in 1 .. 17, NEW l \in 1 .. 17,
         Template[i] = <<k, a>>, Template[j] = <<k + 1, b>>, Template[l] = <<k + 2, c>>
  PROVE  At(s, i) /\ At(s, j) /\ At(s, l)
<1> DEFINE p == <<a, b, c>>
<1>1. /\ Len(p) = 3 /\ p[1] = a /\ p[2] = b /\ p[3] = c /\ Len(p) \in Nat
      /\ 1 \in 1 .. 3 /\ 2 \in 1 .. 3 /\ 3 \in 1 .. 3
  OBVIOUS
<1>2. k + 1 \in Nat /\ (k + 1) + 1 = k + 2 /\ k + 2 \in Nat /\ (k + 2) + 1 = k + 3
  OBVIOUS
<1> HIDE DEF p
<1>3. Has(s, k, p)
  BY DEF p
<1> QED
  BY <1>1, <1>2, <1>3, AtHas, Zenon

\* A push of n bytes: its length and what it pushes
LEMMA AtPush ==
  ASSUME NEW s \in Seq(Byte), NEW k \in Nat, NEW n \in Byte, NEW v \in Seq(Byte), Len(v) = n,
         Has(s, k, <<n>> \o v), NEW i \in 1 .. 17, Template[i] = <<k, n>>
  PROVE  At(s, i) /\ Part(s, k + 1, n) = v
<1>1. s[k + 1] = n /\ k + 1 + Len(v) <= Len(s) /\ Part(s, k + 1, Len(v)) = v
  BY HasTail
<1>2. ~(k >= Len(s))
  BY <1>1
<1>3. Template[i][1] = k /\ Template[i][2] = n
  OBVIOUS
<1> QED
  BY <1>1, <1>2, <1>3, AtIs

\* What a script says up to the first byte of its lock time, and after it
Begins(s, them, t, h) ==
  /\ Len(h) < Power[2] /\ Len(Push(h)) = HashLen + 1
  /\ \A i \in 1 .. 8 : At(s, i)
  /\ ~Beyond(s, 9) /\ s[LockAt] = PushInt64(t)[1]
  /\ Part(s, HashAt, HashLen) = h /\ Part(s, ThemAt, HashLen) = them

Ends(s, me, t) ==
  /\ \A i \in 9 .. 17 : At(s, i)
  /\ Part(s, LockAt, Word) = Getvch(ToInt(t)) /\ Part(s, MeAt, HashLen) = me

\* A script whose hash has the right length, up to the first byte of the lock time
LEMMA FirstParts ==
  ASSUME NEW me \in [1 .. HashLen -> Byte], NEW them \in [1 .. HashLen -> Byte],
         NEW t \in Nat, NEW h \in Seq(Byte), Len(h) = HashLen
  PROVE  Begins(AtomicSwapContract(me, them, t, h), them, t, h)
<1> DEFINE s == AtomicSwapContract(me, them, t, h)
           lp == Len(Push(h))
<1>1. HashLen \in 1 .. 75 /\ Len(h) < Power[2]
  BY PowerTwo, ContractAssumption
<1>2. Push(h) = <<HashLen>> \o h /\ lp = HashLen + 1
  <2>1. Push(h) = <<HashLen>> \o h
    BY <1>1, PushIs
  <2>2. <<HashLen>> \in Seq(Byte) /\ Len(<<HashLen>>) = 1
    BY <1>1 DEF Byte
  <2> QED
    BY <1>1, <2>1, <2>2, ConcatProperties
<1>3. /\ s \in Seq(Byte) /\ Len(PushInt64(t)) \in Nat \ {0}
      /\ Has(s, 0, <<OP_IF, OP_RIPEMD160>>)
      /\ Has(s, 2, Push(h))
      /\ Has(s, 2 + lp, <<OP_EQUALVERIFY, OP_DUP, OP_HASH160>>)
      /\ Has(s, 5 + lp, Push(them))
      /\ Has(s, (lp + HashLen) + 6, <<OP_ELSE>>)
      /\ Has(s, (lp + HashLen) + 7, PushInt64(t))
  BY <1>1, Layout, Zenon
<1> HIDE DEF s, lp
<1>4. /\ Has(s, ThemAt - 4, <<OP_EQUALVERIFY, OP_DUP, OP_HASH160>>)
      /\ Has(s, ThemAt - 1, Push(them))
      /\ Has(s, LockAt - 2, <<OP_ELSE>>)
      /\ Has(s, LockAt - 1, PushInt64(t))
  <2>1. /\ 2 + lp = ThemAt - 4 /\ 5 + lp = ThemAt - 1
        /\ (lp + HashLen) + 6 = LockAt - 2 /\ (lp + HashLen) + 7 = LockAt - 1
    BY <1>2, HeadOffsets, Zenon
  <2> QED
    BY <1>3, <2>1, Zenon
<1>5. /\ ThemAt - 4 \in Nat /\ (ThemAt - 4) + 1 = ThemAt - 3 /\ (ThemAt - 4) + 2 = ThemAt - 2
      /\ ThemAt - 1 \in Nat /\ (ThemAt - 1) + 1 = ThemAt
      /\ LockAt - 2 \in Nat /\ LockAt - 1 \in Nat /\ (LockAt - 1) + 1 = LockAt
      /\ 0 + 1 = 1 /\ 2 + 1 = HashAt /\ 0 \in Nat /\ 2 \in Nat
  BY OffsetsAre
<1>7. 1 \in 1 .. 17 /\ 2 \in 1 .. 17 /\ 3 \in 1 .. 17 /\ 4 \in 1 .. 17 /\ 5 \in 1 .. 17
      /\ 6 \in 1 .. 17 /\ 7 \in 1 .. 17 /\ 8 \in 1 .. 17 /\ 9 \in 1 .. 17
  OBVIOUS
<1>8. At(s, 1) /\ At(s, 2)
  <2>1. Template[1] = <<0, OP_IF>> /\ Template[2] = <<0 + 1, OP_RIPEMD160>>
    BY <1>5, TemplateIs, Zenon
  <2>2. Has(s, 0, <<OP_IF, OP_RIPEMD160>>) /\ s \in Seq(Byte)
    BY <1>3
  <2> QED
    BY <1>5, <1>7, <2>1, <2>2, AtTwo
<1>9. At(s, 3) /\ Part(s, HashAt, HashLen) = h
  <2>1. Template[3] = <<2, HashLen>> /\ HashLen \in Byte
    BY TemplateIs, OffsetsAre, Zenon
  <2>2. Has(s, 2, <<HashLen>> \o h) /\ s \in Seq(Byte)
    BY <1>2, <1>3
  <2>3. At(s, 3) /\ Part(s, 2 + 1, HashLen) = h
    BY <1>5, <1>7, <2>1, <2>2, AtPush
  <2> QED
    BY <1>5, <2>3
<1>10. At(s, 4) /\ At(s, 5) /\ At(s, 6)
  <2> DEFINE k == ThemAt - 4
  <2>1. /\ Template[4] = <<k, OP_EQUALVERIFY>> /\ Template[5] = <<k + 1, OP_DUP>>
        /\ Template[6] = <<k + 2, OP_HASH160>>
    BY <1>5, TemplateIs, Zenon
  <2>2. Has(s, k, <<OP_EQUALVERIFY, OP_DUP, OP_HASH160>>) /\ s \in Seq(Byte) /\ k \in Nat
    BY <1>3, <1>4, <1>5
  <2> HIDE DEF k
  <2> QED
    BY <1>7, <2>1, <2>2, AtThree
<1>11. At(s, 7) /\ Part(s, ThemAt, HashLen) = them
  <2>1. them \in Seq(Byte) /\ Len(them) = HashLen /\ Push(them) = <<HashLen>> \o them
    BY KeyIs, Zenon
  <2> DEFINE k == ThemAt - 1
  <2>2. Template[7] = <<k, HashLen>> /\ HashLen \in Byte
    BY TemplateIs, OffsetsAre, Zenon
  <2>3. Has(s, k, <<HashLen>> \o them) /\ s \in Seq(Byte) /\ k \in Nat /\ k + 1 = ThemAt
    BY <1>3, <1>4, <1>5, <2>1
  <2> HIDE DEF k
  <2>4. At(s, 7) /\ Part(s, k + 1, HashLen) = them
    BY <1>7, <2>1, <2>2, <2>3, AtPush
  <2> QED
    BY <2>3, <2>4
<1>12. At(s, 8)
  BY <1>3, <1>4, <1>5, <1>7, TemplateIs, AtOne, Zenon
<1>13. ~Beyond(s, 9) /\ s[LockAt] = PushInt64(t)[1]
  <2> DEFINE p == PushInt64(t)
             k == LockAt - 1
  <2>1. Len(p) \in Nat \ {0} /\ Has(s, k, p) /\ k \in Nat /\ k + 1 = LockAt
    BY <1>3, <1>4, <1>5
  <2> HIDE DEF p, k
  <2>2. 1 \in 1 .. Len(p)
    BY <2>1
  <2>3. k + Len(p) <= Len(s) /\ s[k + 1] = p[1]
    BY <2>1, <2>2 DEF Has
  <2>4. Len(s) \in Nat
    BY <1>3
  <2>5. ~(k >= Len(s))
    BY <2>1, <2>3, <2>4
  <2>6. Template[9] = <<k, Word>>
    BY TemplateIs DEF k
  <2>7. Template[9][1] = k
    BY <2>6
  <2> QED
    BY <2>1, <2>3, <2>5, <2>7 DEF Beyond, p
<1>14. \A i \in 1 .. 8 : At(s, i)
  <2>1. \A i \in 1 .. 8 : i = 1 \/ i = 2 \/ i = 3 \/ i = 4 \/ i = 5 \/ i = 6 \/ i = 7 \/ i = 8
    OBVIOUS
  <2> QED
    BY <1>8, <1>9, <1>10, <1>11, <1>12, <2>1, Zenon
<1> QED
  <2>1. Begins(s, them, t, h)
    BY <1>1, <1>2, <1>9, <1>11, <1>13, <1>14 DEF Begins, lp
  <2> QED
    BY <2>1 DEF s

\* One whose lock time has the right length too, to its end
LEMMA LastParts ==
  ASSUME NEW me \in [1 .. HashLen -> Byte], NEW them \in [1 .. HashLen -> Byte],
         NEW t \in Nat, NEW h \in Seq(Byte), Len(h) = HashLen, Fits(t)
  PROVE  Ends(AtomicSwapContract(me, them, t, h), me, t)
<1> DEFINE s == AtomicSwapContract(me, them, t, h)
           lp == Len(Push(h))
           lq == Len(PushInt64(t))
           v == Getvch(ToInt(t))
<1>1. Len(h) < Power[2] /\ lp = HashLen + 1
  <2>1. Begins(AtomicSwapContract(me, them, t, h), them, t, h)
    BY FirstParts, Zenon
  <2> QED
    BY <2>1, Zenon DEF Begins
<1>2. PushInt64(t) = <<Word>> \o v /\ v \in Seq(Byte) /\ Len(v) = Word
  BY PushLockIs DEF Fits
<1>3. lq = Word + 1
  <2>1. <<Word>> \in Seq(Byte) /\ Len(<<Word>>) = 1 /\ Word \in Nat
    BY OffsetsAre
  <2>2. Len(<<Word>> \o v) = Len(<<Word>>) + Len(v)
    BY <1>2, <2>1, ConcatProperties
  <2> QED
    BY <1>2, <2>1, <2>2
<1>4. /\ s \in Seq(Byte)
      /\ Has(s, (lp + HashLen) + 7, PushInt64(t))
      /\ Has(s, ((lp + HashLen) + lq) + 7, <<OP_CHECKLOCKTIMEVERIFY, OP_DROP>>)
      /\ Has(s, ((lp + HashLen) + lq) + 9, <<OP_DUP, OP_HASH160>>)
      /\ Has(s, ((lp + HashLen) + lq) + 11, Push(me))
      /\ Has(s, ((lp + HashLen) + lq) + 12 + HashLen,
             <<OP_ENDIF, OP_EQUALVERIFY, OP_CHECKSIG>>)
  BY <1>1, Layout, Zenon
<1> HIDE DEF s, lp, lq, v
<1>5. /\ Has(s, LockAt - 1, <<Word>> \o v)
      /\ Has(s, LockAt + Word, <<OP_CHECKLOCKTIMEVERIFY, OP_DROP>>)
      /\ Has(s, LockAt + Word + 2, <<OP_DUP, OP_HASH160>>)
      /\ Has(s, MeAt - 1, Push(me))
      /\ Has(s, MeAt + HashLen, <<OP_ENDIF, OP_EQUALVERIFY, OP_CHECKSIG>>)
  <2> DEFINE y == (lp + HashLen) + lq
  <2>1. (lp + HashLen) + 7 = LockAt - 1
    BY <1>1, HeadOffsets, Zenon
  <2>2. y = ((HashLen + 1) + HashLen) + (Word + 1)
    BY <1>1, <1>3
  <2>3. /\ Has(s, y + 7, <<OP_CHECKLOCKTIMEVERIFY, OP_DROP>>)
        /\ Has(s, y + 9, <<OP_DUP, OP_HASH160>>)
        /\ Has(s, y + 11, Push(me))
        /\ Has(s, y + 12 + HashLen, <<OP_ENDIF, OP_EQUALVERIFY, OP_CHECKSIG>>)
    BY <1>4
  <2> HIDE DEF y
  <2>4. /\ y + 7 = LockAt + Word /\ y + 9 = LockAt + Word + 2
        /\ y + 11 = MeAt - 1 /\ y + 12 + HashLen = MeAt + HashLen
    BY <2>2, TailOffsets, Zenon
  <2> QED
    BY <1>2, <1>4, <2>1, <2>3, <2>4, Zenon
<1>6. /\ LockAt - 1 \in Nat /\ (LockAt - 1) + 1 = LockAt /\ LockAt + Word \in Nat
      /\ LockAt + Word + 2 \in Nat /\ (LockAt + Word + 2) + 1 = LockAt + Word + 3
      /\ MeAt - 1 \in Nat /\ (MeAt - 1) + 1 = MeAt /\ MeAt + HashLen \in Nat
  BY OffsetsAre
<1>7. 9 \in 1 .. 17 /\ 10 \in 1 .. 17 /\ 11 \in 1 .. 17 /\ 12 \in 1 .. 17 /\ 13 \in 1 .. 17
      /\ 14 \in 1 .. 17 /\ 15 \in 1 .. 17 /\ 16 \in 1 .. 17 /\ 17 \in 1 .. 17
  OBVIOUS
<1>8. At(s, 9) /\ Part(s, LockAt, Word) = v
  <2> DEFINE k == LockAt - 1
  <2>1. Template[9] = <<k, Word>> /\ Word \in Byte
    BY TemplateIs, OffsetsAre, Zenon
  <2>2. Has(s, k, <<Word>> \o v) /\ s \in Seq(Byte) /\ k \in Nat /\ k + 1 = LockAt
    BY <1>4, <1>5, <1>6
  <2> HIDE DEF k
  <2>3. At(s, 9) /\ Part(s, k + 1, Word) = v
    BY <1>2, <1>7, <2>1, <2>2, AtPush
  <2> QED
    BY <2>2, <2>3
<1>9. At(s, 10) /\ At(s, 11)
  <2> DEFINE k == LockAt + Word
  <2>1. Template[10] = <<k, OP_CHECKLOCKTIMEVERIFY>> /\ Template[11] = <<k + 1, OP_DROP>>
    BY TemplateIs, Zenon
  <2>2. Has(s, k, <<OP_CHECKLOCKTIMEVERIFY, OP_DROP>>) /\ s \in Seq(Byte) /\ k \in Nat
    BY <1>4, <1>5, <1>6
  <2> HIDE DEF k
  <2> QED
    BY <1>7, <2>1, <2>2, AtTwo
<1>10. At(s, 12) /\ At(s, 13)
  <2> DEFINE k == LockAt + Word + 2
  <2>1. Template[12] = <<k, OP_DUP>> /\ Template[13] = <<k + 1, OP_HASH160>>
    BY <1>6, TemplateIs, Zenon
  <2>2. Has(s, k, <<OP_DUP, OP_HASH160>>) /\ s \in Seq(Byte) /\ k \in Nat
    BY <1>4, <1>5, <1>6
  <2> HIDE DEF k
  <2> QED
    BY <1>7, <2>1, <2>2, AtTwo
<1>11. At(s, 14) /\ Part(s, MeAt, HashLen) = me
  <2> DEFINE k == MeAt - 1
  <2>1. me \in Seq(Byte) /\ Len(me) = HashLen /\ Push(me) = <<HashLen>> \o me
    BY KeyIs, Zenon
  <2>2. Template[14] = <<k, HashLen>> /\ HashLen \in Byte
    BY TemplateIs, OffsetsAre, Zenon
  <2>3. Has(s, k, <<HashLen>> \o me) /\ s \in Seq(Byte) /\ k \in Nat /\ k + 1 = MeAt
    BY <1>4, <1>5, <1>6, <2>1
  <2> HIDE DEF k
  <2>4. At(s, 14) /\ Part(s, k + 1, HashLen) = me
    BY <1>7, <2>1, <2>2, <2>3, AtPush
  <2> QED
    BY <2>3, <2>4
<1>12. At(s, 15) /\ At(s, 16) /\ At(s, 17)
  <2> DEFINE k == MeAt + HashLen
  <2>1. /\ Template[15] = <<k, OP_ENDIF>> /\ Template[16] = <<k + 1, OP_EQUALVERIFY>>
        /\ Template[17] = <<k + 2, OP_CHECKSIG>>
    BY TemplateIs, Zenon
  <2>2. /\ Has(s, k, <<OP_ENDIF, OP_EQUALVERIFY, OP_CHECKSIG>>)
        /\ s \in Seq(Byte) /\ k \in Nat
    BY <1>4, <1>5, <1>6
  <2> HIDE DEF k
  <2> QED
    BY <1>7, <2>1, <2>2, AtThree
<1>13. \A i \in 9 .. 17 : At(s, i)
  <2>1. \A i \in 9 .. 17 : \/ i = 9 \/ i = 10 \/ i = 11 \/ i = 12 \/ i = 13
                           \/ i = 14 \/ i = 15 \/ i = 16 \/ i = 17
    OBVIOUS
  <2> QED
    BY <1>8, <1>9, <1>10, <1>11, <1>12, <2>1, Zenon
<1> QED
  <2>1. Ends(s, me, t)
    BY <1>8, <1>11, <1>13 DEF Ends, v
  <2> QED
    BY <2>1 DEF s

\* A contract of the right lengths is recognised and taken apart into what it was
\* made of; any other whole contract is refused, and nothing is read beyond its end
LEMMA WholeContract ==
  ASSUME NEW me \in [1 .. HashLen -> Byte], NEW them \in [1 .. HashLen -> Byte],
         NEW t \in Nat, NEW h \in Seq(Byte), Len(h) < Power[2]
  PROVE  LET s == AtomicSwapContract(me, them, t, h) IN
         /\ s \in Seq(Byte)
         /\ ISAtomicSwap(s) = IF Len(h) = HashLen /\ Fits(t) THEN "yes" ELSE "no"
         /\ Len(h) = HashLen /\ Fits(t) =>
              ExtractAtomicSwapData(s) =
                [secHash |-> h, recipient |-> them, lockTime |-> Getvch(ToInt(t)), refund |-> me]
<1> DEFINE s == AtomicSwapContract(me, them, t, h)
<1>1. /\ s \in Seq(Byte) /\ Len(Push(h)) \in Nat \ {0}
      /\ Has(s, 0, <<OP_IF, OP_RIPEMD160>>) /\ Has(s, 2, Push(h))
  BY Layout, Zenon
<1>2. ASSUME Len(h) = HashLen, Fits(t)
      PROVE  /\ ISAtomicSwap(s) = "yes"
             /\ ExtractAtomicSwapData(s) =
                  [secHash |-> h, recipient |-> them, lockTime |-> Getvch(ToInt(t)),
                   refund |-> me]
  <2>1. Begins(s, them, t, h)
    <3>1. Len(h) = HashLen
      BY <1>2
    <3> QED
      BY <3>1, FirstParts, Zenon
  <2>2. Ends(s, me, t)
    <3>1. Len(h) = HashLen /\ Fits(t)
      BY <1>2
    <3> QED
      BY <3>1, LastParts, Zenon
  <2>3. \A i \in 1 .. 17 : At(s, i)
    <3>1. \A i \in 1 .. 17 : i \in 1 .. 8 \/ i \in 9 .. 17
      OBVIOUS
    <3> QED
      BY <2>1, <2>2, <3>1, Zenon DEF Begins, Ends
  <2> QED
    BY <2>1, <2>2, <2>3, Recognised, Zenon DEF ExtractAtomicSwapData, Begins, Ends
<1>3. ASSUME Len(h) = HashLen, ~Fits(t) PROVE ISAtomicSwap(s) = "no"
  <2>1. (\A i \in 1 .. 8 : At(s, i)) /\ ~Beyond(s, 9) /\ s[LockAt] = PushInt64(t)[1]
    <3>1. Begins(s, them, t, h)
      BY <1>3, FirstParts, Zenon
    <3> QED
      BY <3>1, Zenon DEF Begins
  <2>2. PushInt64(t)[1] # Word
    BY <1>3, PushLockIs, Zenon
  <2>3. Template[9][1] + 1 = LockAt /\ Template[9][2] = Word
    <3>1. Template[9] = <<LockAt - 1, Word>>
      BY TemplateIs, Zenon
    <3>2. (LockAt - 1) + 1 = LockAt
      BY OffsetsAre
    <3>3. <<LockAt - 1, Word>>[1] = LockAt - 1 /\ <<LockAt - 1, Word>>[2] = Word
      OBVIOUS
    <3> QED
      BY <3>1, <3>2, <3>3, Zenon
  <2>4. ~At(s, 9)
    BY <2>1, <2>2, <2>3 DEF At
  <2>5. 9 \in 1 .. 17 /\ 9 - 1 = 8
    OBVIOUS
  <2> QED
    BY <2>1, <2>4, <2>5, Refused
<1>4. ASSUME Len(h) # HashLen PROVE ISAtomicSwap(s) = "no"
  <2>1. Push(h)[1] # HashLen
    <3>1. HashLen \in 1 .. 75
      BY ContractAssumption
    <3>2. CASE Len(h) < 76
      BY <1>4, <3>2, PushIs
    <3>3. CASE Len(h) >= 76
      <4>1. Push(h)[1] \in {76, 77}
        BY <3>3, PushIs
      <4> QED
        BY <3>1, <4>1
    <3> QED
      BY <3>2, <3>3
  <2>2. At(s, 1) /\ At(s, 2)
    <3>1. Template[1] = <<0, OP_IF>> /\ Template[2] = <<0 + 1, OP_RIPEMD160>> /\ 0 \in Nat
      <4>1. 0 + 1 = 1
        OBVIOUS
      <4> QED
        BY <4>1, TemplateIs
    <3>2. 1 \in 1 .. 17 /\ 2 \in 1 .. 17
      OBVIOUS
    <3> QED
      BY <1>1, <3>1, <3>2, AtTwo
  <2> DEFINE p == Push(h)
  <2>3. 2 + Len(p) <= Len(s) /\ s[2 + 1] = p[1] /\ Len(p) \in Nat \ {0}
    <3>1. Len(p) \in Nat \ {0} /\ Has(s, 2, p)
      BY <1>1
    <3> HIDE DEF p
    <3>2. 1 \in 1 .. Len(p)
      BY <3>1
    <3> QED
      BY <3>1, <3>2 DEF Has
  <2> HIDE DEF p
  <2>4. ~(2 >= Len(s)) /\ s[2 + 1] # HashLen
    <3>1. Len(s) \in Nat
      BY <1>1
    <3>2. s[2 + 1] # HashLen
      BY <2>1, <2>3 DEF p
    <3> QED
      BY <2>3, <3>1, <3>2
  <2>5. Template[3][1] = 2 /\ Template[3][2] = HashLen
    BY TemplateIs
  <2>6. ~Beyond(s, 3) /\ ~At(s, 3)
    BY <2>4, <2>5 DEF Beyond, At
  <2>7. 3 \in 1 .. 17 /\ \A i \in 1 .. 3 - 1 : i = 1 \/ i = 2
    OBVIOUS
  <2> QED
    BY <2>2, <2>6, <2>7, Refused
<1> QED
  BY <1>1, <1>2, <1>3, <1>4
-----------------------------------------------------------------------------
(* The transactions that spend a contract *)

\* The transaction that pays output 0 of the contract to one output
Paying(sig, value, n) ==
  [vin |-> << [prev |-> [tx |-> "contract", n |-> 0], scriptSig |-> sig] >>,
   vout |-> << value >>, nLockTime |-> n]

LEMMA SpendSigned ==
  ASSUME NEW c, NEW value, NEW n, NEW sig
  PROVE  [Spend(c, value, n) EXCEPT !.vin[1].scriptSig = sig] = Paying(sig, value, n)
<1> DEFINE in == [prev |-> [tx |-> "contract", n |-> 0], scriptSig |-> <<>>]
           out == [prev |-> [tx |-> "contract", n |-> 0], scriptSig |-> sig]
<1>1. [in EXCEPT !.scriptSig = sig] = out
  OBVIOUS
<1>2. <<in>>[1] = in
  OBVIOUS
<1> HIDE DEF in, out
<1>3. [<<in>> EXCEPT ![1] = out] = <<out>>
  OBVIOUS
<1>4. Spend(c, value, n) = [vin |-> <<in>>, vout |-> <<value>>, nLockTime |-> n]
  BY DEF Spend, in
<1>5. Paying(sig, value, n) = [vin |-> <<out>>, vout |-> <<value>>, nLockTime |-> n]
  BY DEF Paying, out
<1> QED
  BY <1>1, <1>2, <1>3, <1>4, <1>5

LEMMA PayingIs ==
  ASSUME NEW sig, NEW value, NEW n
  PROVE  /\ Paying(sig, value, n).vin[1].scriptSig = sig /\ Len(Paying(sig, value, n).vin) = 1
         /\ Paying(sig, value, n).vout = <<value>> /\ Paying(sig, value, n).nLockTime = n
BY DEF Paying

\* The signature of an input does not cover the signatures
LEMMA SameHash ==
  ASSUME NEW c, NEW value, NEW n, NEW sig, NEW key, NEW script
  PROVE  Sign(key, script, Spend(c, value, n), 1) = Sign(key, script, Paying(sig, value, n), 1)
<1> DEFINE P == [tx |-> "contract", n |-> 0]
           a == << [prev |-> P, scriptSig |-> <<>>] >>
           b == << [prev |-> P, scriptSig |-> sig] >>
<1> HIDE DEF P
<1>1. DOMAIN a = {1} /\ a[1].prev = P /\ DOMAIN b = {1} /\ b[1].prev = P
  OBVIOUS
<1> HIDE DEF a, b
<1>2. [k \in DOMAIN a |-> a[k].prev] = [k \in DOMAIN b |-> b[k].prev]
  BY <1>1
<1>3. /\ Spend(c, value, n).vin = a /\ Spend(c, value, n).vout = <<value>>
      /\ Spend(c, value, n).nLockTime = n
  BY DEF Spend, a, P
<1>4. /\ Paying(sig, value, n).vin = b /\ Paying(sig, value, n).vout = <<value>>
      /\ Paying(sig, value, n).nLockTime = n
  BY DEF Paying, b, P
<1> QED
  BY <1>2, <1>3, <1>4 DEF Sign, SignatureHash

\* A contract as Fund makes it
Made(c) ==
  /\ c.me \in [1 .. HashLen -> Byte] /\ c.them \in [1 .. HashLen -> Byte]
  /\ c.lock \in Nat /\ c.hash \in Seq(Byte) /\ Len(c.hash) < Power[2]
  /\ c.coin \in Coin /\ c.amount \in Nat
  /\ c.script = AtomicSwapContract(c.me, c.them, c.lock, c.hash)

\* What it is taken apart into, if ISAtomicSwap takes it for a contract
Whole(c) == Len(c.hash) = HashLen /\ Fits(c.lock)
Data(c) ==
  [secHash |-> c.hash, recipient |-> c.them, lockTime |-> Getvch(ToInt(c.lock)),
   refund |-> c.me]

LEMMA MadeContract ==
  ASSUME NEW c, Made(c)
  PROVE  /\ c.script \in Seq(Byte)
         /\ ISAtomicSwap(c.script) = IF Whole(c) THEN "yes" ELSE "no"
         /\ Whole(c) => ExtractAtomicSwapData(c.script) = Data(c)
<1> DEFINE me == c.me
           them == c.them
           t == c.lock
           h == c.hash
           s == c.script
<1>1. /\ me \in [1 .. HashLen -> Byte] /\ them \in [1 .. HashLen -> Byte]
      /\ t \in Nat /\ h \in Seq(Byte) /\ Len(h) < Power[2]
      /\ s = AtomicSwapContract(me, them, t, h)
  BY DEF Made
<1> HIDE DEF me, them, t, h, s
<1>2. /\ s \in Seq(Byte)
      /\ ISAtomicSwap(s) = IF Len(h) = HashLen /\ Fits(t) THEN "yes" ELSE "no"
      /\ Len(h) = HashLen /\ Fits(t) =>
           ExtractAtomicSwapData(s) =
             [secHash |-> h, recipient |-> them, lockTime |-> Getvch(ToInt(t)), refund |-> me]
  BY <1>1, WholeContract
<1> QED
  BY <1>2, Zenon DEF Whole, Data, me, them, t, h, s

\* A redemption of a coin other than cfos
LEMMA RedemptionIs ==
  ASSUME NEW c, Made(c), c.coin # "cfos", NEW secret, NEW tx \in Redemptions(c, Data(c), secret)
  PROVE  /\ tx.vin[1].scriptSig = <<Sign(c.them, c.script, tx, 1), c.them, secret, True, c.script>>
         /\ Len(tx.vin) = 1
         /\ \E value \in Cut(c.amount - Fee[c.coin]) : tx.vout = <<value>>
<1>1. PICK value \in Cut(c.amount - Fee[c.coin]) : tx = RedeemBitcoin(c, Data(c), secret, value)
  BY DEF Redemptions, Redeemed
<1> DEFINE tx0 == Spend(c, value, 0)
           sig == <<Sign(c.them, c.script, tx0, 1), c.them, secret, True, c.script>>
<1>2. Data(c).recipient = c.them
  BY DEF Data
<1>3. tx = [tx0 EXCEPT !.vin[1].scriptSig = sig]
  BY <1>1, <1>2 DEF RedeemBitcoin
<1>4. tx = Paying(sig, value, 0)
  BY <1>3, SpendSigned
<1>5. Sign(c.them, c.script, tx0, 1) = Sign(c.them, c.script, tx, 1)
  BY <1>4, SameHash
<1>6. sig = <<Sign(c.them, c.script, tx, 1), c.them, secret, True, c.script>>
  BY <1>5
<1> HIDE DEF sig
<1>7. tx.vin[1].scriptSig = sig /\ Len(tx.vin) = 1 /\ tx.vout = <<value>>
  BY <1>4, PayingIs
<1> QED
  BY <1>1, <1>6, <1>7

\* A refund of any coin; what it pays of cfos is not known
LEMMA RefundIs ==
  ASSUME NEW c, Made(c), NEW tx \in Refunds(c, Data(c))
  PROVE  /\ tx.vin[1].scriptSig = <<Sign(c.me, c.script, tx, 1), c.me, False, c.script>>
         /\ tx.nLockTime = RefundLock(Data(c).lockTime)
         /\ c.coin # "cfos" =>
              \E value \in Cut(c.amount - Fee[c.coin]) : tx.vout = <<value>>
<1> DEFINE n == RefundLock(Data(c).lockTime)
<1>1. Data(c).refund = c.me
  BY DEF Data
<1> DEFINE fees == IF c.coin = "cfos" THEN Garbage ELSE {Fee[c.coin]}
<1>2. PICK value \in UNION {Cut(c.amount - fee) : fee \in fees} :
        tx = [Spend(c, value, n) EXCEPT !.vin[1].scriptSig =
                <<Sign(c.me, c.script, Spend(c, value, n), 1), c.me, False, c.script>>]
  BY <1>1 DEF Refunds
<1> DEFINE tx0 == Spend(c, value, n)
           sig == <<Sign(c.me, c.script, tx0, 1), c.me, False, c.script>>
<1>3. c.coin # "cfos" => value \in Cut(c.amount - Fee[c.coin])
  BY <1>2
<1>4. tx = [tx0 EXCEPT !.vin[1].scriptSig = sig]
  BY <1>2
<1> HIDE DEF n
<1>5. tx = Paying(sig, value, n)
  BY <1>4, SpendSigned
<1>6. Sign(c.me, c.script, tx0, 1) = Sign(c.me, c.script, tx, 1)
  BY <1>5, SameHash
<1>7. sig = <<Sign(c.me, c.script, tx, 1), c.me, False, c.script>>
  BY <1>6
<1> HIDE DEF sig
<1>8. tx.vin[1].scriptSig = sig /\ tx.vout = <<value>> /\ tx.nLockTime = n
  BY <1>5, PayingIs
<1> QED
  BY <1>3, <1>7, <1>8 DEF n

\* The fee input of cfos leaves the nLockTime
LEMMA RedemptionLock ==
  ASSUME NEW c, NEW secret, NEW tx \in Redemptions(c, Data(c), secret)
  PROVE  tx.nLockTime = 0
<1> DEFINE txs == {RedeemBitcoin(c, Data(c), secret, value) : value \in Redeemed(c)}
<1>1. \A t \in txs : t.nLockTime = 0
  BY DEF RedeemBitcoin, Spend
<1>2. ASSUME NEW t \in txs, NEW list, NEW key, NEW with \in AddFee(t, list, key)
      PROVE  with.nLockTime = 0
  <2> DEFINE i == Min(Enough(list))
             In == [prev |-> [tx |-> list[i].tx, n |-> i - 1], scriptSig |-> <<>>]
             w(value) == [t EXCEPT !.vin = Append(@, In), !.vout = Append(@, value)]
  <2>1. PICK value : with = [w(value) EXCEPT !.vin[1].scriptSig = <<Sign(key, list[i].key, w(value), 2)>>]
    BY DEF AddFee
  <2>2. w(value).nLockTime = 0
    BY <1>1, <1>2 DEF RedeemBitcoin, Spend
  <2> DEFINE w0 == w(value)
  <2>3. w0 = w(value) /\ "nLockTime" # "vin"
    OBVIOUS
  <2> HIDE DEF w0, w, i, In
  <2> QED
    BY <2>1, <2>2, <2>3
<1>3. tx \in txs \/ \E t \in txs, list \in Unspents : tx \in AddFee(t, list, Data(c).recipient)
  BY DEF Redemptions
<1> HIDE DEF txs
<1> QED
  BY <1>1, <1>2, <1>3
-----------------------------------------------------------------------------
(* The daemon *)

\* The redemptions and refunds that were sent are those of whole contracts that
\* were funded, made with what the contracts were made of
IInv ==
  /\ pc \in {"up", "dead"} /\ now \in Times
  /\ \A c \in funded : Made(c)
  /\ \A r \in redeems :
       r.of \in funded /\ Whole(r.of) /\ r.tx \in Redemptions(r.of, Data(r.of), r.secret)
  /\ \A r \in refunds :
       r.of \in funded /\ Whole(r.of) /\ r.tx \in Refunds(r.of, Data(r.of))

LEMMA KeysAre ==
  ASSUME NEW k \in Key \cup {NoKey}
  PROVE  k \in [1 .. HashLen -> Byte]
<1>1. NoKey \in [1 .. HashLen -> Byte]
  BY DEF NoKey, Byte
<1> QED
  BY <1>1, ContractAssumption

\* What Fund adds
LEMMA FundMakes ==
  ASSUME IInv, NEW me \in Key \cup {NoKey}, NEW them \in Key \cup {NoKey},
         NEW t \in Nat, NEW h \in Hashes, NEW offer \in Offers, Fund(me, them, t, h, offer)
  PROVE  IInv'
<1> DEFINE c == [me |-> me, them |-> them, lock |-> t, hash |-> h,
                 coin |-> offer.coin, amount |-> offer.amount,
                 script |-> AtomicSwapContract(me, them, t, h)]
<1>1. Made(c)
  <2>1. me \in [1 .. HashLen -> Byte] /\ them \in [1 .. HashLen -> Byte]
    BY KeysAre
  <2>2. h \in Seq(Byte) /\ Len(h) < Power[2]
    BY ContractAssumption
  <2>3. offer.coin \in Coin /\ offer.amount \in Nat
    BY ContractAssumption
  <2> QED
    BY <2>1, <2>2, <2>3 DEF Made
<1>2. funded' = funded \cup {c} /\ UNCHANGED <<pc, now, redeems, refunds>>
  BY DEF Fund
<1> HIDE DEF c
<1> QED
  BY <1>1, <1>2 DEF IInv

LEMMA PayableIs ==
  ASSUME IInv, NEW s, NEW key, NEW c \in Payable(s, key), ISAtomicSwap(s) = "yes"
  PROVE  c \in funded /\ Whole(c) /\ ExtractAtomicSwapData(s) = Data(c)
<1>1. c \in funded /\ c.script = s /\ Made(c)
  BY DEF Payable, IInv
<1>2. ISAtomicSwap(s) = IF Whole(c) THEN "yes" ELSE "no"
  BY <1>1, MadeContract
<1> QED
  BY <1>1, <1>2, MadeContract

LEMMA RedeemKeeps ==
  ASSUME IInv, NEW s, NEW secret, Redeem(s, secret)
  PROVE  IInv'
<1> DEFINE data == ExtractAtomicSwapData(s)
<1>1. CASE ISAtomicSwap(s) = "throws" /\ pc' = "dead" /\ UNCHANGED redeems
  BY <1>1 DEF Redeem, IInv
<1>2. CASE /\ ISAtomicSwap(s) = "yes"
           /\ \E c \in Payable(s, data.recipient) : \E tx \in Redemptions(c, data, secret) :
                redeems' = redeems \cup {[of |-> c, secret |-> secret, tx |-> tx]}
           /\ UNCHANGED pc
  <2>1. PICK c \in Payable(s, data.recipient) :
          \E tx \in Redemptions(c, data, secret) :
            redeems' = redeems \cup {[of |-> c, secret |-> secret, tx |-> tx]}
    BY <1>2
  <2>2. c \in funded /\ Whole(c) /\ data = Data(c)
    BY <1>2, PayableIs
  <2>3. UNCHANGED <<pc, now, funded, refunds>>
    BY <1>2 DEF Redeem
  <2>4. PICK tx \in Redemptions(c, data, secret) :
          redeems' = redeems \cup {[of |-> c, secret |-> secret, tx |-> tx]}
    BY <2>1
  <2> DEFINE r == [of |-> c, secret |-> secret, tx |-> tx]
  <2>5. r.of = c /\ r.tx = tx /\ r.secret = secret /\ redeems' = redeems \cup {r}
    BY <2>4
  <2> HIDE DEF r, data
  <2>6. r.of \in funded /\ Whole(r.of) /\ r.tx \in Redemptions(r.of, Data(r.of), r.secret)
    BY <2>2, <2>4, <2>5
  <2> QED
    BY <2>3, <2>5, <2>6 DEF IInv
<1> QED
  BY <1>1, <1>2 DEF Redeem

LEMMA RefundKeeps ==
  ASSUME IInv, NEW s, Refund(s)
  PROVE  IInv'
<1> DEFINE data == ExtractAtomicSwapData(s)
<1>1. CASE ISAtomicSwap(s) = "throws" /\ pc' = "dead" /\ UNCHANGED refunds
  BY <1>1 DEF Refund, IInv
<1>2. CASE /\ ISAtomicSwap(s) = "yes"
           /\ \E c \in Payable(s, data.refund) : \E tx \in Refunds(c, data) :
                refunds' = refunds \cup {[of |-> c, tx |-> tx]}
           /\ UNCHANGED pc
  <2>1. PICK c \in Payable(s, data.refund) :
          \E tx \in Refunds(c, data) : refunds' = refunds \cup {[of |-> c, tx |-> tx]}
    BY <1>2
  <2>2. c \in funded /\ Whole(c) /\ data = Data(c)
    BY <1>2, PayableIs
  <2>3. UNCHANGED <<pc, now, funded, redeems>>
    BY <1>2 DEF Refund
  <2>4. PICK tx \in Refunds(c, data) : refunds' = refunds \cup {[of |-> c, tx |-> tx]}
    BY <2>1
  <2> DEFINE r == [of |-> c, tx |-> tx]
  <2>5. r.of = c /\ r.tx = tx /\ refunds' = refunds \cup {r}
    BY <2>4
  <2> HIDE DEF r, data
  <2>6. r.of \in funded /\ Whole(r.of) /\ r.tx \in Refunds(r.of, Data(r.of))
    BY <2>2, <2>4, <2>5
  <2> QED
    BY <2>3, <2>5, <2>6 DEF IInv
<1> QED
  BY <1>1, <1>2 DEF Refund

LEMMA InitIInv == Init => IInv
BY DEF Init, IInv

LEMMA NextIInv == IInv /\ [Next]_vars => IInv'
<1> SUFFICES ASSUME IInv, [Next]_vars PROVE IInv'
  OBVIOUS
<1>1. CASE Tick
  BY <1>1 DEF Tick, IInv
<1>2. ASSUME NEW me \in Key \cup {NoKey}, NEW them \in Key \cup {NoKey},
             NEW h \in Hashes, NEW o \in Offers,
             Initiate(me, them, h, o) \/ Participate(me, them, h, o)
      PROVE  IInv'
  <2>1. now + InitiateLock \in Nat /\ now + ParticipateLock \in Nat
    BY ContractAssumption DEF IInv
  <2> QED
    BY <1>2, <2>1, FundMakes DEF Initiate, Participate
<1>3. ASSUME NEW s, Refund(s) \/ \E secret \in Secret : Redeem(s, secret) PROVE IInv'
  BY <1>3, RedeemKeeps, RefundKeeps
<1>4. CASE UNCHANGED vars
  BY <1>4 DEF vars, IInv
<1> QED
  BY <1>1, <1>2, <1>3, <1>4 DEF Next

LEMMA AlwaysIInv == Spec => []IInv
BY InitIInv, NextIInv, PTL DEF Spec

-----------------------------------------------------------------------------
(* Theorems *)

LEMMA LockRead ==
  ASSUME NEW t \in Nat, Fits(t)
  PROVE  /\ RefundLock(Getvch(ToInt(t))) \in 0 .. Power[Word] - 1
         /\ t < Half => /\ RefundLock(Getvch(ToInt(t))) = t
                        /\ ScriptNum(Getvch(ToInt(t))) \in 0 .. t
<1> DEFINE b == Getvch(ToInt(t))
<1>1. b \in Seq(Byte) /\ Len(b) = Word
  BY ToIntIs, GetvchBytes DEF Fits
<1>2. RefundLock(b) \in 0 .. Power[Word] - 1
  <2> HIDE DEF b
  <2> QED
    BY <1>1, ValueBounds DEF RefundLock
<1>3. ASSUME t < Half PROVE RefundLock(b) = t /\ ScriptNum(b) \in 0 .. t
  <2>1. b = Getvch(t)
    BY <1>3, ToIntIs
  <2>2. t < Power[Word]
    BY <1>3, HalfIs
  <2>3. Value(b) = t /\ (b # <<>> => Last(b) < 128)
    BY <2>1, <2>2, GetvchValue
  <2> HIDE DEF b
  <2>4. ScriptNum(b) = t \/ ScriptNum(b) = 0
    BY <2>3 DEF ScriptNum
  <2> QED
    BY <2>3, <2>4 DEF RefundLock
<1> QED
  BY <1>2, <1>3

LEMMA IInvTypeOK == IInv => TypeOK
<1> SUFFICES ASSUME IInv PROVE TypeOK
  OBVIOUS
<1>1. \A c \in funded : c.script \in Seq(Byte)
  BY MadeContract DEF IInv
<1>2. ASSUME NEW r \in redeems
      PROVE  r.of \in funded /\ r.tx.nLockTime \in 0 .. Power[Word] - 1
  <2>1. r.tx.nLockTime = 0
    BY RedemptionLock DEF IInv
  <2>2. Power[Word] \in Nat \ {0}
    BY OffsetsAre, PowerGrows
  <2> QED
    BY <2>1, <2>2 DEF IInv
<1>3. ASSUME NEW r \in refunds
      PROVE  r.of \in funded /\ r.tx.nLockTime \in 0 .. Power[Word] - 1
  <2>1. r.of \in funded /\ Made(r.of) /\ Whole(r.of) /\ r.tx \in Refunds(r.of, Data(r.of))
    BY DEF IInv
  <2>2. r.tx.nLockTime = RefundLock(Data(r.of).lockTime)
    BY <2>1, RefundIs
  <2>3. Data(r.of).lockTime = Getvch(ToInt(r.of.lock))
    BY DEF Data
  <2>4. r.of.lock \in Nat /\ Fits(r.of.lock)
    BY <2>1 DEF Made, Whole
  <2> QED
    BY <2>1, <2>2, <2>3, <2>4, LockRead
<1> QED
  BY <1>1, <1>2, <1>3 DEF TypeOK, IInv

\* The types of the daemon's state, among them that the nLockTime of a refund is
\* an unsigned int, for every hash, clock and byte string.
THEOREM TypesAlways == Spec => []TypeOK
BY AlwaysIInv, IInvTypeOK, PTL

\* Every contract that Initiate or Participate funds is recognised if its hash and
\* its lock time have the lengths that ISAtomicSwap looks for, and whatever is
\* recognised is taken apart into what it was made of, for every hash and key.
THEOREM TakenApartAlways == Spec => []TakenApart
<1>1. IInv => TakenApart
  <2> SUFFICES ASSUME IInv, NEW c \in funded
               PROVE  LET data == ExtractAtomicSwapData(c.script) IN
                      /\ Len(c.hash) = HashLen /\ WordLock(c.lock) => ISAtomicSwap(c.script) = "yes"
                      /\ ISAtomicSwap(c.script) = "yes" =>
                           data.secHash = c.hash /\ data.recipient = c.them /\ data.refund = c.me
    BY DEF TakenApart
  <2>1. Made(c)
    BY DEF IInv
  <2>2. /\ ISAtomicSwap(c.script) = IF Whole(c) THEN "yes" ELSE "no"
        /\ Whole(c) => ExtractAtomicSwapData(c.script) = Data(c)
    BY <2>1, MadeContract
  <2>3. Data(c).secHash = c.hash /\ Data(c).recipient = c.them /\ Data(c).refund = c.me
    BY DEF Data
  <2>4. Len(c.hash) = HashLen /\ WordLock(c.lock) => Whole(c)
    BY <2>1, WordLockBytes DEF Whole, Made, Fits
  <2> QED
    BY <2>2, <2>3, <2>4
<1> QED
  BY <1>1, AlwaysIInv, PTL

\* A refund that is sent is final at the lock time the contract was made with and
\* satisfies its script's lock, for every lock time that fits an int.
THEOREM RefundFinalAlways == Spec => []RefundFinal
<1>1. IInv => RefundFinal
  <2> SUFFICES ASSUME IInv, NEW r \in refunds, r.of.lock < Half
               PROVE  /\ r.tx.nLockTime = r.of.lock
                      /\ ScriptNum(Part(r.of.script, LockAt, Word)) \in 0 .. r.tx.nLockTime
    BY DEF RefundFinal
  <2>1. Made(r.of) /\ Whole(r.of) /\ r.tx \in Refunds(r.of, Data(r.of))
    BY DEF IInv
  <2>2. r.tx.nLockTime = RefundLock(Data(r.of).lockTime)
    BY <2>1, RefundIs
  <2>3. Data(r.of).lockTime = Getvch(ToInt(r.of.lock))
    BY DEF Data
  <2>4. r.of.lock \in Nat /\ Fits(r.of.lock)
    BY <2>1 DEF Made, Whole
  <2>5. Part(r.of.script, LockAt, Word) = Data(r.of).lockTime
    <3>1. ExtractAtomicSwapData(r.of.script) = Data(r.of)
      BY <2>1, MadeContract
    <3>2. ExtractAtomicSwapData(r.of.script).lockTime = Part(r.of.script, LockAt, Word)
      BY DEF ExtractAtomicSwapData
    <3> QED
      BY <3>1, <3>2
  <2> QED
    BY <2>2, <2>3, <2>4, <2>5, LockRead
<1> QED
  BY <1>1, AlwaysIInv, PTL

\* Redemptions and refunds are signed over the transaction that is sent and pay all
\* but the fee and the part that the cut of a double may cost; a refund has what the
\* script of its contract asks for, and a redemption has if the user gave the secret
\* of that contract, and no other.
THEOREM SpendsValidAlways == Spec => []SpendsValid
<1>1. IInv => SpendsValid
  <2> SUFFICES ASSUME IInv, NEW r \in redeems \cup refunds,
                      r.of.coin # "cfos", r.of.amount > Fee[r.of.coin]
               PROVE  /\ r \in redeems => (Redeems(r.tx, r.of) <=> r.secret = r.of.hash)
                      /\ r \in refunds => RefundsTo(r.tx, r.of)
                      /\ Pays(r.tx, r.of)
    BY DEF SpendsValid
  <2> DEFINE value == r.of.amount - Fee[r.of.coin]
  <2>1. Made(r.of) /\ value > 0
    <3>1. Made(r.of)
      BY DEF IInv
    <3>2. r.of.coin \in {"bitcoin", "blackcoin"} /\ r.of.amount \in Nat
      BY <3>1 DEF Made, Coin
    <3>3. Fee[r.of.coin] \in Nat
      BY <3>2, ContractAssumption
    <3> QED
      BY <3>1, <3>2, <3>3
  <2>2. ASSUME r \in redeems
        PROVE  /\ Redeems(r.tx, r.of) <=> r.secret = r.of.hash
               /\ \E paid \in Cut(value) : r.tx.vout = <<paid>>
    <3>1. r.tx \in Redemptions(r.of, Data(r.of), r.secret)
      BY <2>2 DEF IInv
    <3>2. /\ r.tx.vin[1].scriptSig =
               <<Sign(r.of.them, r.of.script, r.tx, 1), r.of.them, r.secret, True, r.of.script>>
          /\ \E paid \in Cut(value) : r.tx.vout = <<paid>>
      BY <2>1, <3>1, RedemptionIs
    <3> HIDE DEF value
    <3> QED
      BY <3>2 DEF Redeems
  <2>3. ASSUME r \in refunds
        PROVE  RefundsTo(r.tx, r.of) /\ \E paid \in Cut(value) : r.tx.vout = <<paid>>
    <3>1. r.tx \in Refunds(r.of, Data(r.of))
      BY <2>3 DEF IInv
    <3> QED
      BY <2>1, <3>1, RefundIs DEF RefundsTo
  <2>4. ASSUME NEW paid \in Cut(value), r.tx.vout = <<paid>> PROVE Pays(r.tx, r.of)
    <3>1. Len(r.tx.vout) = 1 /\ r.tx.vout[1] = paid
      BY <2>4
    <3>2. r.of.amount \in Nat /\ Fee[r.of.coin] \in Nat
      BY <2>1, ContractAssumption DEF Made, Coin
    <3>3. paid \in {value - 1, value}
      BY <2>1, <2>4 DEF Cut
    <3> QED
      BY <2>1, <3>1, <3>2, <3>3 DEF Pays
  <2> QED
    BY <2>2, <2>3, <2>4
<1> QED
  BY <1>1, AlwaysIInv, PTL

\* The secret is where ExtractSecret looks for it in every redemption of a coin other
\* than cfos that was made with it, and never in another or in a refund.
THEOREM SecretShownAlways == Spec => []SecretShown
<1>1. IInv => SecretShown
  <2> SUFFICES ASSUME IInv PROVE SecretShown
    OBVIOUS
  <2>1. ASSUME NEW r \in redeems, r.of.coin # "cfos"
        PROVE  ExtractSecret(r.tx, r.of.hash) = {r.secret} \cap {r.of.hash}
    <3>1. Made(r.of) /\ r.tx \in Redemptions(r.of, Data(r.of), r.secret)
      BY DEF IInv
    <3>2. /\ r.tx.vin[1].scriptSig =
               <<Sign(r.of.them, r.of.script, r.tx, 1), r.of.them, r.secret, True, r.of.script>>
          /\ Len(r.tx.vin) = 1
      BY <2>1, <3>1, RedemptionIs
    <3>3. r.tx.vin[1].scriptSig[3] = r.secret
      BY <3>2
    <3> QED
      BY <3>2, <3>3 DEF ExtractSecret
  <2>2. ASSUME NEW r \in refunds PROVE ExtractSecret(r.tx, r.of.hash) = {}
    <3>1. Made(r.of) /\ Whole(r.of) /\ r.tx \in Refunds(r.of, Data(r.of))
      BY DEF IInv
    <3>2. r.tx.vin[1].scriptSig =
            <<Sign(r.of.me, r.of.script, r.tx, 1), r.of.me, False, r.of.script>>
      BY <3>1, RefundIs
    <3>3. r.tx.vin[1].scriptSig[3] = False
      BY <3>2
    <3>4. r.of.hash # False
      <4>1. Len(r.of.hash) = HashLen /\ HashLen # 0
        BY <3>1, ContractAssumption DEF Whole
      <4> QED
        BY <4>1 DEF False
    <3> QED
      BY <3>3, <3>4 DEF ExtractSecret
  <2> QED
    BY <2>1, <2>2 DEF SecretShown
<1> QED
  BY <1>1, AlwaysIInv, PTL

\* Redeem and Refund of a contract that was funded never end the daemon, whatever it
\* was made with.
THEOREM WholeContractsHarmlessAlways == Spec => WholeContractsHarmless
<1>1. ASSUME IInv, NEW c \in funded,
             Refund(c.script) \/ \E secret \in Secret : Redeem(c.script, secret)
      PROVE  pc' = "up"
  <2>1. ISAtomicSwap(c.script) # "throws"
    <3>1. ISAtomicSwap(c.script) = IF Whole(c) THEN "yes" ELSE "no"
      BY <1>1, MadeContract DEF IInv
    <3> QED
      BY <3>1
  <2> QED
    BY <1>1, <2>1 DEF Redeem, Refund
<1>2. IInv => [pc' = "dead" =>
                 \A c \in funded :
                   ~Refund(c.script) /\ \A secret \in Secret : ~Redeem(c.script, secret)]_vars
  BY <1>1
<1> QED
  BY <1>2, AlwaysIInv, PTL DEF WholeContractsHarmless
=============================================================================
