---------------------------- MODULE NumberProofs ----------------------------
(***************************************************************************)
(* Lemmas about sequences, natural numbers, cells, stacks and the texts of *)
(* numbers, for every width of a cell and every size of a stack.           *)
(***************************************************************************)
EXTENDS Numbers, SequenceTheorems, WellFoundedInduction, NaturalsInduction, TLAPS

IsSeq(s) == s \in Seq({s[i] : i \in DOMAIN s})

----------------------------------------------------------------------------
(* Sequences of anything.                                                  *)

LEMMA SeqIs == ASSUME NEW s, IsSeq(s) PROVE Len(s) \in Nat /\ DOMAIN s = 1 .. Len(s)
  BY DEF IsSeq

LEMMA AnySeq == ASSUME NEW S, NEW s \in Seq(S) PROVE IsSeq(s)
<1> DEFINE R == {s[j] : j \in DOMAIN s}
<1>1. Len(s) \in Nat /\ DOMAIN s = 1 .. Len(s) /\ s = [i \in 1 .. Len(s) |-> s[i]]
  OBVIOUS
<1>2. \A i \in 1 .. Len(s) : s[i] \in R
  BY <1>1
<1> HIDE DEF R
<1>3. [i \in 1 .. Len(s) |-> s[i]] \in [1 .. Len(s) -> R]
  BY <1>2
<1>4. s \in Seq(R)
  BY <1>1, <1>3, SeqDef
<1> QED BY <1>4 DEF IsSeq, R

LEMMA EmptyIs == IsSeq(<<>>) /\ Len(<<>>) = 0 /\ DOMAIN <<>> = {}
<1>1. <<>> \in Seq({})
  OBVIOUS
<1>2. IsSeq(<<>>)
  BY <1>1, AnySeq
<1> QED BY <1>1, <1>2

LEMMA OneIs == ASSUME NEW e PROVE IsSeq(<<e>>) /\ Len(<<e>>) = 1 /\ <<e>>[1] = e /\ DOMAIN <<e>> = {1}
<1>1. <<e>> \in Seq({e})
  OBVIOUS
<1>2. IsSeq(<<e>>)
  BY <1>1, AnySeq
<1> QED BY <1>1, <1>2

LEMMA AppendIs ==
  ASSUME NEW s, NEW e, IsSeq(s)
  PROVE  /\ IsSeq(Append(s, e)) /\ Len(Append(s, e)) = Len(s) + 1
         /\ DOMAIN Append(s, e) = 1 .. Len(s) + 1
         /\ \A i \in 1 .. Len(s) : Append(s, e)[i] = s[i]
         /\ Append(s, e)[Len(s) + 1] = e
<1> DEFINE S == {s[i] : i \in DOMAIN s} \cup {e}
<1>1. s \in Seq(S) /\ e \in S
  BY DEF IsSeq
<1> HIDE DEF S
<1>2. Append(s, e) \in Seq(S)
  BY <1>1
<1>3. IsSeq(Append(s, e))
  BY <1>2, AnySeq
<1> QED BY <1>1, <1>2, <1>3

LEMMA FrontIs ==
  ASSUME NEW s, IsSeq(s), s # <<>>
  PROVE  /\ IsSeq(Front(s)) /\ Len(Front(s)) = Len(s) - 1 /\ Len(s) \in Nat \ {0}
         /\ DOMAIN Front(s) = 1 .. Len(s) - 1
         /\ \A i \in 1 .. Len(s) - 1 : Front(s)[i] = s[i]
<1> DEFINE S == {s[i] : i \in DOMAIN s}
<1>1. s \in Seq(S)
  BY DEF IsSeq
<1> HIDE DEF S
<1>2. Front(s) \in Seq(S) /\ Len(Front(s)) = Len(s) - 1 /\ Len(s) \in Nat \ {0}
  BY <1>1 DEF Front
<1>3. \A i \in 1 .. Len(s) - 1 : Front(s)[i] = s[i]
  BY <1>1 DEF Front
<1>4. IsSeq(Front(s))
  BY <1>2, AnySeq
<1> QED BY <1>2, <1>3, <1>4

----------------------------------------------------------------------------
(* Numbers.                                                                *)

\* Every set of naturals that is not empty has a least element.
LEMMA Smallest ==
  ASSUME NEW T, T \subseteq Nat, T # {}
  PROVE  \E x \in T : \A y \in T : x <= y
<1> DEFINE R == OpToRel(<, Nat)
<1>1. \A x, y \in Nat : <<x, y>> \in R <=> x < y
  BY DEF OpToRel
<1>2. IsWellFoundedOn(R, Nat)
  BY NatLessThanWellFounded
<1> HIDE DEF R
<1>3. PICK x \in T : \A y \in T : ~(<<y, x>> \in R)
  BY <1>2, WFMin
<1>4. ASSUME NEW y \in T PROVE x <= y
  <2>1. x \in Nat /\ y \in Nat
    OBVIOUS
  <2>2. ~(y < x)
    BY <1>1, <1>3, <2>1
  <2> QED BY <2>1, <2>2
<1> QED BY <1>4

LEMMA MaxIs ==
  ASSUME NEW S \in SUBSET Int, NEW m \in S, \A x \in S : x <= m
  PROVE  Max(S) = m
<1>1. \A x \in S : x \in Int /\ m >= x
  OBVIOUS
<1>2. \A x \in S : (\A y \in S : x >= y) => x = m
  BY <1>1
<1> QED BY <1>1, <1>2 DEF Max

LEMMA MinIs ==
  ASSUME NEW S \in SUBSET Nat, S # {}
  PROVE  Min(S) \in S
<1>1. PICK x \in S : \A y \in S : x <= y
  BY Smallest
<1> QED BY <1>1 DEF Min

LEMMA Counting ==
  ASSUME NEW N \in Nat, NEW T, 0 \in T, \A n \in 0 .. N : n # N /\ n \in T => n + 1 \in T
  PROVE  \A n \in 0 .. N : n \in T
<1> DEFINE Bad == {n \in 0 .. N : n \notin T}
<1>1. SUFFICES ASSUME Bad # {} PROVE FALSE
  OBVIOUS
<1>2. Bad \subseteq Nat
  OBVIOUS
<1>3. PICK n \in Bad : \A m \in Bad : n <= m
  <2> HIDE DEF Bad
  <2> QED BY <1>1, <1>2, Smallest
<1>4. n \in 0 .. N /\ n \notin T /\ n # 0
  OBVIOUS
<1>5. n - 1 \in 0 .. N /\ n - 1 # N /\ n - 1 \notin Bad
  BY <1>3, <1>4
<1>6. (n - 1) + 1 \in T
  BY <1>5
<1> QED BY <1>4, <1>6

----------------------------------------------------------------------------
(* Powers of two and the arithmetic of cells.                              *)

PowTurn(f, i) == IF i = 0 THEN 1 ELSE 2 * f[i - 1]
IsPow(f, k)   == f = [i \in 0 .. k |-> PowTurn(f, i)]
Pows(f, n)    == /\ TwoTo(n) = f[n] /\ f[0] = 1
                 /\ \A i \in 0 .. n : i # 0 => f[i] = 2 * f[i - 1]

LEMMA PowExists == ASSUME NEW N \in Nat PROVE \E f : IsPow(f, N)
<1> DEFINE T == {k \in Nat : \E f : IsPow(f, k)}
<1>1. 0 \in T
  <2> DEFINE f == [n \in 0 .. 0 |-> 1]
  <2>1. IsPow(f, 0)
    BY DEF IsPow, PowTurn
  <2> QED BY <2>1
<1>2. ASSUME NEW k \in 0 .. N, k \in T PROVE k + 1 \in T
  <2>1. PICK g : IsPow(g, k)
    BY <1>2
  <2> DEFINE f == [n \in 0 .. k + 1 |-> PowTurn(g, n)]
  <2>2. \A n \in 0 .. k : g[n] = PowTurn(g, n)
    BY <2>1 DEF IsPow
  <2>3. \A n \in 0 .. k : f[n] = g[n]
    BY <2>2
  <2>4. \A n \in 0 .. k + 1 : n # 0 => n - 1 \in 0 .. k
    OBVIOUS
  <2>5. \A n \in 0 .. k + 1 : PowTurn(f, n) = PowTurn(g, n)
    <3> HIDE DEF f
    <3> QED BY <2>3, <2>4 DEF PowTurn
  <2>6. f = [n \in 0 .. k + 1 |-> PowTurn(f, n)]
    BY <2>5
  <2> HIDE DEF f
  <2>7. IsPow(f, k + 1)
    BY <2>6 DEF IsPow
  <2> QED BY <2>7
<1>3. \A k \in 0 .. N : k # N /\ k \in T => k + 1 \in T
  BY <1>2
<1> HIDE DEF T
<1>4. N \in T
  BY <1>1, <1>3, Counting
<1> QED BY <1>4 DEF T

LEMMA PowsAre == ASSUME NEW n \in Nat PROVE \E f : Pows(f, n)
<1> DEFINE f == CHOOSE x : IsPow(x, n)
<1>1. IsPow(f, n)
  BY PowExists
<1>2. TwoTo(n) = f[n]
  BY DEF TwoTo, IsPow, PowTurn
<1> HIDE DEF f
<1>3. \A i \in 0 .. n : f[i] = PowTurn(f, i)
  BY <1>1 DEF IsPow
<1>4. Pows(f, n)
  BY <1>2, <1>3, 0 \in 0 .. n DEF Pows, PowTurn
<1> QED BY <1>4

LEMMA TwoToStep ==
  ASSUME NEW n \in Nat
  PROVE  TwoTo(n) \in Nat /\ TwoTo(n) >= 1 /\ TwoTo(n + 1) = 2 * TwoTo(n)
<1>1. PICK m \in Nat : m = n + 1
  OBVIOUS
<1>2. PICK f : Pows(f, n)
  BY PowsAre
<1>3. PICK g : Pows(g, m)
  BY PowsAre
<1> DEFINE T == {i \in 0 .. n : f[i] = g[i] /\ f[i] \in Nat /\ f[i] >= 1}
<1>4. 0 \in T
  BY <1>2, <1>3 DEF Pows
<1>5. ASSUME NEW i \in 0 .. n, i # n, i \in T PROVE i + 1 \in T
  <2>1. i + 1 \in 0 .. n /\ i + 1 \in 0 .. m /\ i + 1 # 0 /\ (i + 1) - 1 = i
    BY <1>1, <1>5
  <2>2. f[i + 1] = 2 * f[i] /\ g[i + 1] = 2 * g[i]
    BY <1>2, <1>3, <2>1 DEF Pows
  <2>3. f[i] = g[i] /\ f[i] \in Nat /\ f[i] >= 1
    BY <1>5
  <2>4. f[i + 1] = g[i + 1] /\ f[i + 1] \in Nat /\ f[i + 1] >= 1
    BY <2>2, <2>3
  <2> QED BY <2>1, <2>4
<1>6. \A i \in 0 .. n : i # n /\ i \in T => i + 1 \in T
  BY <1>5
<1>7. n \in T
  <2> HIDE DEF T
  <2> QED BY <1>4, <1>6, Counting
<1>8. m \in 0 .. m /\ m # 0 /\ m - 1 = n
  BY <1>1
<1>9. g[m] = 2 * g[n]
  BY <1>3, <1>8 DEF Pows
<1>10. TwoTo(n) = f[n] /\ TwoTo(m) = g[m]
  BY <1>2, <1>3 DEF Pows
<1> QED BY <1>1, <1>7, <1>9, <1>10

LEMMA TwoToGrows ==
  ASSUME NEW m \in Nat, NEW n \in Nat, m <= n
  PROVE  TwoTo(m) <= TwoTo(n)
<1>1. PICK d \in Nat : d = n - m
  OBVIOUS
<1> DEFINE T == {i \in 0 .. d : TwoTo(m) <= TwoTo(m + i)}
<1>2. 0 \in T
  <2>1. m + 0 = m /\ TwoTo(m) \in Nat
    BY TwoToStep
  <2>2. TwoTo(m + 0) = TwoTo(m)
    BY <2>1
  <2> QED BY <2>1, <2>2
<1>3. ASSUME NEW i \in 0 .. d, i # d, i \in T PROVE i + 1 \in T
  <2>1. PICK k \in Nat : k = m + i
    OBVIOUS
  <2>2. m + (i + 1) = k + 1
    BY <2>1
  <2>3. TwoTo(k) \in Nat /\ TwoTo(k + 1) = 2 * TwoTo(k) /\ TwoTo(m) \in Nat
    BY TwoToStep
  <2>4. TwoTo(m) <= TwoTo(k)
    BY <1>3, <2>1
  <2>5. TwoTo(m) <= TwoTo(k + 1)
    BY <2>3, <2>4
  <2>6. i + 1 \in 0 .. d
    BY <1>3
  <2> QED BY <2>2, <2>5, <2>6
<1>4. \A i \in 0 .. d : i # d /\ i \in T => i + 1 \in T
  BY <1>3
<1>5. d \in T
  <2> HIDE DEF T
  <2> QED BY <1>2, <1>4, Counting
<1>6. m + d = n
  BY <1>1
<1> QED BY <1>5, <1>6

LEMMA WidthIs ==
  /\ Half \in Nat /\ Half >= 1 /\ TwoTo(Width) = 2 * Half
  /\ IntWidth \in Nat /\ IntWidth - 1 \in Nat
  /\ TwoTo(IntWidth - 1) \in Nat /\ TwoTo(IntWidth - 1) >= 1
  /\ TwoTo(IntWidth) = 2 * TwoTo(IntWidth - 1)
  /\ TwoTo(IntWidth) \in Nat /\ TwoTo(IntWidth) <= Half
<1>1. PICK w \in Nat : w = Width - 1 /\ w >= 1 /\ w + 1 = Width
  BY SizesAssumption
<1>2. IntWidth \in Nat /\ IntWidth >= 1 /\ IntWidth <= w
  BY <1>1, SizesAssumption DEF IntWidth
<1>3. PICK v \in Nat : v = IntWidth - 1 /\ v + 1 = IntWidth
  BY <1>2
<1>4. TwoTo(w) \in Nat /\ TwoTo(w) >= 1 /\ TwoTo(w + 1) = 2 * TwoTo(w)
  BY TwoToStep
<1>5. TwoTo(v) \in Nat /\ TwoTo(v) >= 1 /\ TwoTo(v + 1) = 2 * TwoTo(v)
  BY TwoToStep
<1>6. TwoTo(IntWidth) <= TwoTo(w)
  BY <1>2, TwoToGrows
<1> QED BY <1>1, <1>2, <1>3, <1>4, <1>5, <1>6 DEF Half

\* Remainders do not change by multiples of the divisor.
LEMMA OneQuotient ==
  ASSUME NEW p \in Int, NEW q \in Int, NEW M \in Nat, M >= 1,
         NEW r \in 0 .. M - 1, NEW s \in 0 .. M - 1, p * M + r = q * M + s
  PROVE  r = s
<1>1. \A a, b \in Int : a >= 1 /\ b >= 0 => a * b >= b
  <2> SUFFICES ASSUME NEW a \in Int, NEW b \in Int, a >= 1, b >= 0 PROVE a * b >= b
    OBVIOUS
  <2>1. a * b = (a - 1) * b + b /\ (a - 1) * b >= 0
    OBVIOUS
  <2> QED BY <2>1
<1>2. (p - q) * M = p * M - q * M /\ (q - p) * M = q * M - p * M
  OBVIOUS
<1>3. p * M \in Int /\ q * M \in Int
  OBVIOUS
<1>4. CASE p - q >= 1
  <2>1. (p - q) * M >= M
    BY <1>1, <1>4
  <2> QED BY <1>2, <1>3, <2>1
<1>5. CASE q - p >= 1
  <2>1. (q - p) * M >= M
    BY <1>1, <1>5
  <2> QED BY <1>2, <1>3, <2>1
<1>6. CASE p = q
  BY <1>3, <1>6
<1> QED BY <1>4, <1>5, <1>6

LEMMA DivMod ==
  ASSUME NEW a \in Int, NEW M \in Nat, M > 0
  PROVE  a = M * (a \div M) + (a % M)
  OBVIOUS

LEMMA ModIs ==
  ASSUME NEW a \in Int, NEW M \in Nat, M >= 1
  PROVE  (a % M) \in 0 .. M - 1 /\ \E q \in Int : a = q * M + (a % M)
<1>1. (a % M) \in 0 .. M - 1 /\ a \div M \in Int /\ M > 0
  OBVIOUS
<1>2. PICK q \in Int : q = a \div M
  BY <1>1
<1>3. a = M * q + (a % M)
  BY <1>1, <1>2, DivMod
<1>4. M * q = q * M
  OBVIOUS
<1> QED BY <1>1, <1>3, <1>4

Differ(a, b, k, M) == a = b + k * M

LEMMA ModSame ==
  ASSUME NEW a \in Int, NEW b \in Int, NEW k \in Int, NEW M \in Nat, M >= 1, Differ(a, b, k, M)
  PROVE  (a % M) = (b % M)
<1>1. PICK p \in Int : a = p * M + (a % M)
  BY ModIs
<1>2. PICK q \in Int : b = q * M + (b % M)
  BY ModIs
<1>3. PICK r, s \in 0 .. M - 1 : r = (a % M) /\ s = (b % M)
  BY ModIs
<1>4. (q + k) * M = q * M + k * M /\ q * M \in Int /\ k * M \in Int /\ p * M \in Int
  OBVIOUS
<1>5. PICK u \in Int : u = q + k
  OBVIOUS
<1>6. p * M + r = u * M + s
  <2>1. PICK P, Q, K \in Int : P = p * M /\ Q = q * M /\ K = k * M
    BY <1>4
  <2>2. u * M = Q + K
    BY <1>4, <1>5, <2>1
  <2>3. r \in Int /\ s \in Int
    OBVIOUS
  <2>4. a = P + r /\ b = Q + s /\ a = b + K
    BY <1>1, <1>2, <1>3, <2>1 DEF Differ
  <2> QED BY <2>1, <2>2, <2>3, <2>4
<1>7. r = s
  BY <1>6, OneQuotient
<1> QED BY <1>3, <1>7

Modulus == 2 * Half

LEMMA WrapIs ==
  ASSUME NEW x \in Int
  PROVE  Wrap(x) \in Cells /\ Wrap(x) \in Int /\ \E k \in Int : x = Wrap(x) + k * Modulus
<1>1. PICK M \in Nat : M = Modulus /\ M >= 1 /\ M = 2 * Half /\ Half \in Nat
  BY WidthIs DEF Modulus
<1>2. PICK a \in Int : a = x + Half
  BY <1>1
<1>3. (a % M) \in 0 .. M - 1
  BY <1>1, ModIs
<1>4. PICK q \in Int : a = q * M + (a % M)
  BY <1>1, ModIs
<1>5. Wrap(x) = (a % M) - Half
  BY <1>1, <1>2 DEF Wrap
<1>6. Wrap(x) \in Cells /\ Wrap(x) \in Int
  BY <1>1, <1>3, <1>5 DEF Cells
<1>7. PICK Q \in Int : Q = q * M
  OBVIOUS
<1>8. x = Wrap(x) + q * M
  <2>1. PICK r \in Int : r = (a % M)
    BY <1>3
  <2>2. x + Half = Q + r /\ Wrap(x) = r - Half
    BY <1>2, <1>4, <1>5, <1>7, <2>1
  <2>3. x = (r - Half) + Q
    BY <1>1, <2>2
  <2> QED BY <1>7, <2>2, <2>3
<1> QED BY <1>1, <1>6, <1>8

LEMMA WrapSame ==
  ASSUME NEW x \in Int, NEW y \in Int, NEW k \in Int, x = y + k * Modulus
  PROVE  Wrap(x) = Wrap(y)
<1>1. PICK M \in Nat : M = Modulus /\ M >= 1 /\ M = 2 * Half /\ Half \in Nat
  BY WidthIs DEF Modulus
<1>2. PICK h \in Int : h = Half
  BY <1>1
<1>6. PICK a, b \in Int : a = x + h /\ b = y + h
  OBVIOUS
<1>3. PICK K \in Int : K = k * M
  OBVIOUS
<1>4. a = b + k * M
  <2>1. x = y + K
    BY <1>1, <1>3
  <2>2. a = b + K
    BY <1>6, <2>1
  <2> QED BY <1>3, <2>2
<1>5. (a % M) = (b % M)
  <2>1. M >= 1 /\ Differ(a, b, k, M)
    BY <1>1, <1>4 DEF Differ
  <2> QED BY <2>1, ModSame
<1> QED BY <1>1, <1>2, <1>5, <1>6 DEF Wrap

LEMMA WrapCell == ASSUME NEW x \in Cells PROVE Wrap(x) = x
<1>1. Half \in Nat /\ Half >= 1
  BY WidthIs
<1>2. PICK a \in Int : a = x + Half /\ a \in 0 .. 2 * Half - 1
  BY <1>1 DEF Cells
<1>3. a % (2 * Half) = a
  BY <1>1, <1>2
<1> QED BY <1>1, <1>2, <1>3 DEF Wrap, Cells

LEMMA CellsAreInts == Cells \subseteq Int
  BY WidthIs DEF Cells

\* One more digit, before or after wrapping.
LEMMA WrapDigit ==
  ASSUME NEW q \in Int, NEW b \in Int, NEW d \in Int
  PROVE  Wrap(Wrap(q) * b + d) = Wrap(q * b + d)
<1>1. PICK w \in Int, k \in Int : w = Wrap(q) /\ q = w + k * Modulus
  BY WrapIs
<1>2. PICK M \in Int : M = Modulus
  BY WidthIs DEF Modulus
<1>3. q * b = w * b + (k * b) * M
  <2>1. q = w + k * M
    BY <1>1, <1>2
  <2>2. (w + k * M) * b = w * b + (k * M) * b /\ (k * M) * b = (k * b) * M
    OBVIOUS
  <2> QED BY <2>1, <2>2
<1>4. PICK x, y, l \in Int : x = q * b + d /\ y = w * b + d /\ l = k * b
  OBVIOUS
<1>5. x = y + l * M
  <2>1. w * b \in Int /\ l * M \in Int
    OBVIOUS
  <2> QED BY <1>3, <1>4, <2>1
<1>6. Wrap(x) = Wrap(y)
  BY <1>2, <1>5, WrapSame
<1> QED BY <1>1, <1>4, <1>6

LEMMA WrapMinus ==
  ASSUME NEW x \in Int
  PROVE  Wrap(-Wrap(x)) = Wrap(-x)
<1>1. PICK w \in Int, k \in Int : w = Wrap(x) /\ x = w + k * Modulus
  BY WrapIs
<1>2. PICK M \in Int : M = Modulus
  BY WidthIs DEF Modulus
<1>3. PICK a, b \in Int : a = -w /\ b = -x
  OBVIOUS
<1>4. a = b + k * M
  <2>1. PICK K \in Int : K = k * M
    OBVIOUS
  <2>2. x = w + K
    BY <1>1, <1>2, <2>1
  <2>3. a = b + K
    BY <1>3, <2>2
  <2> QED BY <2>1, <2>3
<1>5. Wrap(a) = Wrap(b)
  BY <1>2, <1>4, WrapSame
<1> QED BY <1>1, <1>3, <1>5

----------------------------------------------------------------------------
(* Reading digits.                                                         *)

ReadTurn(s, b, f, i) == IF i = 0 THEN 0 ELSE Wrap(f[i - 1] * b + s[i])
IsRead(s, b, f, k)   == f = [i \in 0 .. k |-> ReadTurn(s, b, f, i)]
Reads(s, b, f, n)    == /\ Horner(s, b) = f[n] /\ f[0] = 0
                        /\ \A i \in 0 .. n : i # 0 => f[i] = Wrap(f[i - 1] * b + s[i])

LEMMA ReadExists == ASSUME NEW s, NEW b, NEW N \in Nat PROVE \E f : IsRead(s, b, f, N)
<1> DEFINE T == {k \in Nat : \E f : IsRead(s, b, f, k)}
<1>1. 0 \in T
  <2> DEFINE f == [n \in 0 .. 0 |-> 0]
  <2>1. IsRead(s, b, f, 0)
    BY DEF IsRead, ReadTurn
  <2> QED BY <2>1
<1>2. ASSUME NEW k \in 0 .. N, k \in T PROVE k + 1 \in T
  <2>1. PICK g : IsRead(s, b, g, k)
    BY <1>2
  <2> DEFINE f == [n \in 0 .. k + 1 |-> ReadTurn(s, b, g, n)]
  <2>2. \A n \in 0 .. k : g[n] = ReadTurn(s, b, g, n)
    BY <2>1 DEF IsRead
  <2>3. \A n \in 0 .. k : f[n] = g[n]
    BY <2>2
  <2>4. \A n \in 0 .. k + 1 : n # 0 => n - 1 \in 0 .. k
    OBVIOUS
  <2>5. \A n \in 0 .. k + 1 : ReadTurn(s, b, f, n) = ReadTurn(s, b, g, n)
    <3> HIDE DEF f
    <3> QED BY <2>3, <2>4 DEF ReadTurn
  <2>6. f = [n \in 0 .. k + 1 |-> ReadTurn(s, b, f, n)]
    BY <2>5
  <2> HIDE DEF f
  <2>7. IsRead(s, b, f, k + 1)
    BY <2>6 DEF IsRead
  <2> QED BY <2>7
<1>3. \A k \in 0 .. N : k # N /\ k \in T => k + 1 \in T
  BY <1>2
<1> HIDE DEF T
<1>4. N \in T
  BY <1>1, <1>3, Counting
<1> QED BY <1>4 DEF T

LEMMA ReadsAre ==
  ASSUME NEW s, NEW b, NEW n \in Nat, Len(s) = n
  PROVE  \E f : Reads(s, b, f, n)
<1> DEFINE f == CHOOSE x : IsRead(s, b, x, n)
<1>1. IsRead(s, b, f, n)
  BY ReadExists
<1>2. Horner(s, b) = f[n]
  BY DEF Horner, IsRead, ReadTurn
<1> HIDE DEF f
<1>3. \A i \in 0 .. n : f[i] = ReadTurn(s, b, f, i)
  BY <1>1 DEF IsRead
<1>4. Reads(s, b, f, n)
  BY <1>2, <1>3, 0 \in 0 .. n DEF Reads, ReadTurn
<1> QED BY <1>4

LEMMA ValueAppend ==
  ASSUME NEW s \in Seq(Int), NEW d \in Int, NEW b \in Int, NEW u, u = Append(s, d)
  PROVE  Horner(u, b) = Wrap(Horner(s, b) * b + d)
<1>1. PICK n, m \in Nat : n = Len(s) /\ m = n + 1
  OBVIOUS
<1>2. /\ Len(u) = m /\ u[m] = d
      /\ \A i \in 1 .. n : u[i] = s[i]
  BY <1>1, AppendProperties
<1>3. PICK f : Reads(s, b, f, n)
  BY <1>1, ReadsAre
<1>4. PICK g : Reads(u, b, g, m)
  BY <1>2, ReadsAre
<1> DEFINE T == {i \in 0 .. n : f[i] = g[i]}
<1>5. 0 \in T
  BY <1>3, <1>4 DEF Reads
<1>6. ASSUME NEW i \in 0 .. n, i # n, i \in T PROVE i + 1 \in T
  <2>1. i + 1 \in 0 .. n /\ i + 1 \in 0 .. m /\ i + 1 # 0 /\ (i + 1) - 1 = i /\ i + 1 \in 1 .. n
    BY <1>1, <1>6
  <2>2. f[i + 1] = Wrap(f[i] * b + s[i + 1]) /\ g[i + 1] = Wrap(g[i] * b + u[i + 1])
    BY <1>3, <1>4, <2>1 DEF Reads
  <2>3. f[i] = g[i] /\ s[i + 1] = u[i + 1]
    BY <1>2, <1>6, <2>1
  <2> QED BY <2>1, <2>2, <2>3
<1>7. \A i \in 0 .. n : i # n /\ i \in T => i + 1 \in T
  BY <1>6
<1>8. n \in T
  <2> HIDE DEF T
  <2>1. \A i \in 0 .. n : i \in T
    BY <1>5, <1>7, Counting
  <2> QED BY <2>1
<1>9. m \in 0 .. m /\ m # 0 /\ m - 1 = n
  BY <1>1
<1>10. g[m] = Wrap(g[n] * b + u[m])
  BY <1>4, <1>9 DEF Reads
<1>11. Horner(s, b) = f[n] /\ Horner(u, b) = g[m]
  BY <1>3, <1>4 DEF Reads
<1> QED BY <1>2, <1>8, <1>10, <1>11

LEMMA ValueOne ==
  ASSUME NEW m \in Int, NEW b \in Int
  PROVE  Horner(<<m>>, b) = Wrap(m)
<1>1. PICK s : s = <<m>>
  OBVIOUS
<1>2. PICK o \in Nat : o = 1
  OBVIOUS
<1>3. Len(s) = o /\ s[1] = m
  BY <1>1, <1>2
<1>4. PICK f : Reads(s, b, f, o)
  BY <1>3, ReadsAre
<1>5. o \in 0 .. o /\ o # 0 /\ o - 1 = 0
  BY <1>2
<1>6. Horner(s, b) = f[o] /\ f[0] = 0 /\ f[o] = Wrap(f[0] * b + s[o])
  BY <1>4, <1>5 DEF Reads
<1>7. 0 * b + m = m
  OBVIOUS
<1> QED BY <1>1, <1>2, <1>3, <1>6, <1>7

----------------------------------------------------------------------------
(* Printing digits.                                                        *)

DigitTurn(b, f, m) == IF m < b THEN <<m>> ELSE Append(f[m \div b], m % b)
IsDigits(b, f, n)  == f = [m \in 0 .. n |-> DigitTurn(b, f, m)]

LEMMA Quotient ==
  ASSUME NEW b \in Bases, NEW m \in Nat, m >= b
  PROVE  /\ m \div b \in Nat /\ m \div b < m
         /\ m % b \in 0 .. b - 1 /\ m = (m \div b) * b + (m % b)
<1>1. CASE b = 10
  BY <1>1
<1>2. CASE b = 16
  BY <1>2
<1> QED BY <1>1, <1>2 DEF Bases

LEMMA DigitsExist ==
  ASSUME NEW b \in Bases, NEW N \in Nat
  PROVE  \E f : IsDigits(b, f, N)
<1>0. b \in Nat /\ b >= 2
  BY DEF Bases
<1> DEFINE T == {k \in Nat : \E f : IsDigits(b, f, k)}
<1>1. 0 \in T
  <2> DEFINE f == [m \in 0 .. 0 |-> <<m>>]
  <2>1. \A m \in 0 .. 0 : DigitTurn(b, f, m) = <<m>>
    BY <1>0 DEF DigitTurn
  <2>2. IsDigits(b, f, 0)
    BY <2>1 DEF IsDigits
  <2> QED BY <2>2
<1>2. ASSUME NEW k \in 0 .. N, k \in T PROVE k + 1 \in T
  <2>1. PICK g : IsDigits(b, g, k)
    BY <1>2
  <2> DEFINE f == [n \in 0 .. k + 1 |-> DigitTurn(b, g, n)]
  <2>2. \A n \in 0 .. k : g[n] = DigitTurn(b, g, n)
    BY <2>1 DEF IsDigits
  <2>3. \A n \in 0 .. k : f[n] = g[n]
    BY <2>2
  <2>4. ASSUME NEW n \in 0 .. k + 1, ~(n < b) PROVE n \div b \in 0 .. k
    <3>1. n \in Nat /\ n >= b
      BY <1>0, <2>4
    <3>2. n \div b \in Nat /\ n \div b < n
      BY <3>1, Quotient
    <3> QED BY <3>2
  <2>5. \A n \in 0 .. k + 1 : DigitTurn(b, f, n) = DigitTurn(b, g, n)
    <3> HIDE DEF f
    <3> QED BY <2>3, <2>4 DEF DigitTurn
  <2>6. f = [n \in 0 .. k + 1 |-> DigitTurn(b, f, n)]
    BY <2>5
  <2> HIDE DEF f
  <2>7. IsDigits(b, f, k + 1)
    BY <2>6 DEF IsDigits
  <2> QED BY <2>7
<1>3. \A k \in 0 .. N : k # N /\ k \in T => k + 1 \in T
  BY <1>2
<1> HIDE DEF T
<1>4. N \in T
  BY <1>1, <1>3, Counting
<1> QED BY <1>4 DEF T

Right(s, m, b) == s \in Seq(0 .. b - 1) /\ s # <<>> /\ Horner(s, b) = Wrap(m)

\* The digits of a number, read in the same base, are this number's cell.
LEMMA DigitsRead ==
  ASSUME NEW n \in Nat, NEW b \in Bases
  PROVE  Right(DigitsOf(n, b), n, b)
<1>0. b \in Nat /\ b >= 2
  BY DEF Bases
<1> DEFINE f == CHOOSE x : IsDigits(b, x, n)
<1>1. IsDigits(b, f, n)
  BY DigitsExist
<1>2. DigitsOf(n, b) = f[n]
  BY DEF DigitsOf, IsDigits, DigitTurn
<1> HIDE DEF f
<1>3. \A m \in 0 .. n : f[m] = DigitTurn(b, f, m)
  BY <1>1 DEF IsDigits
<1> DEFINE Bad == {m \in 0 .. n : ~Right(f[m], m, b)}
<1>4. SUFFICES ASSUME Bad # {} PROVE FALSE
  BY <1>2
<1>5. Bad \subseteq Nat
  OBVIOUS
<1>6. PICK m \in Bad : \A k \in Bad : m <= k
  <2> HIDE DEF Bad
  <2> QED BY <1>4, <1>5, Smallest
<1>7. m \in 0 .. n /\ m \in Nat /\ ~Right(f[m], m, b)
  OBVIOUS
<1>8. CASE m < b
  <2>1. f[m] = <<m>>
    BY <1>3, <1>7, <1>8 DEF DigitTurn
  <2>2. m \in 0 .. b - 1
    BY <1>0, <1>7, <1>8
  <2>3. <<m>> \in Seq(0 .. b - 1) /\ <<m>> # <<>>
    BY <2>2
  <2>4. Horner(<<m>>, b) = Wrap(m)
    BY <1>0, <1>7, ValueOne
  <2> QED BY <1>7, <2>1, <2>3, <2>4 DEF Right
<1>9. CASE ~(m < b)
  <2>1. m >= b
    BY <1>0, <1>7, <1>9
  <2>2. PICK q, d : q = m \div b /\ d = m % b
    OBVIOUS
  <2>3. q \in Nat /\ q < m /\ d \in 0 .. b - 1 /\ m = q * b + d
    BY <1>7, <2>1, <2>2, Quotient
  <2>4. q \in 0 .. n
    BY <1>7, <2>3
  <2>5. q \notin Bad
    BY <1>6, <1>7, <2>3
  <2>6. PICK s : s = f[q]
    OBVIOUS
  <2>7. s \in Seq(0 .. b - 1) /\ Horner(s, b) = Wrap(q)
    BY <2>4, <2>5, <2>6 DEF Right
  <2>8. PICK u : u = Append(s, d)
    OBVIOUS
  <2>9. f[m] = u
    BY <1>3, <1>7, <1>9, <2>2, <2>6, <2>8 DEF DigitTurn
  <2>10. u \in Seq(0 .. b - 1) /\ u # <<>>
    BY <2>3, <2>7, <2>8, AppendProperties
  <2>11. s \in Seq(Int) /\ d \in Int /\ b \in Int /\ q \in Int
    BY <1>0, <2>3, <2>7
  <2>12. Horner(u, b) = Wrap(Horner(s, b) * b + d)
    BY <2>8, <2>11, ValueAppend
  <2>13. Wrap(Wrap(q) * b + d) = Wrap(q * b + d)
    BY <2>11, WrapDigit
  <2> QED BY <1>7, <2>3, <2>7, <2>9, <2>10, <2>12, <2>13 DEF Right
<1> QED BY <1>8, <1>9

\* All digits are read, and the sign makes the number negative.
LEMMA ParsesDigits ==
  ASSUME NEW n \in Nat, NEW b \in Bases, NEW sign \in {"none", "-"},
         NEW t, t = Text("none", sign, DigitsOf(n, b))
  PROVE  try_parse_number(t, b)
           = [ok |-> TRUE, value |-> IF sign = "-" THEN Wrap(-Wrap(n)) ELSE Wrap(n)]
<1>1. PICK s : s = DigitsOf(n, b)
  OBVIOUS
<1>2. s \in Seq(0 .. b - 1) /\ s # <<>> /\ Horner(s, b) = Wrap(n)
  BY <1>1, DigitsRead DEF Right
<1>3. b \in Nat
  BY DEF Bases
<1>4. t.prefix = "none" /\ t.sign = sign /\ t.digits = s
  BY <1>1 DEF Text
<1>5. PrefixBase(t, b) = b
  BY <1>4 DEF PrefixBase
<1>6. Len(s) \in Nat /\ \A i \in DOMAIN s : s[i] \in 0 .. b - 1
  <2>1. PICK S : S = 0 .. b - 1
    OBVIOUS
  <2>2. s \in Seq(S)
    BY <1>2, <2>1
  <2>3. Len(s) \in Nat /\ \A i \in DOMAIN s : s[i] \in S
    BY <2>2
  <2> QED BY <2>1, <2>3
<1>7. {i \in DOMAIN s : s[i] >= b} = {}
  BY <1>3, <1>6
<1>8. PICK n0 : n0 = strtol(sign, s, b)
  OBVIOUS
<1>9. n0 = [value |-> IF sign = "-" THEN Wrap(-Horner(s, b)) ELSE Horner(s, b),
            rest |-> Len(s) - Len(s)]
  BY <1>7, <1>8 DEF strtol
<1>10. n0.rest = 0 /\ n0.value = IF sign = "-" THEN Wrap(-Horner(s, b)) ELSE Horner(s, b)
  BY <1>6, <1>9
<1>11. try_parse_number(t, b) = [ok |-> n0.rest = 0 /\ (t.sign # "none" \/ t.digits # <<>>),
                                 value |-> n0.value]
  BY <1>4, <1>5, <1>8 DEF try_parse_number
<1>12. (n0.rest = 0 /\ (t.sign # "none" \/ t.digits # <<>>)) = TRUE
  BY <1>2, <1>4, <1>10
<1> QED BY <1>2, <1>10, <1>11, <1>12

----------------------------------------------------------------------------
(* Printing and reading back.                                              *)

LEMMA SameCell ==
  ASSUME NEW n \in Nat, NEW b \in Bases, NEW v \in Cells, NEW k \in Int,
         Differ(n, v, k, Modulus), NEW t, t = Text("none", "none", DigitsOf(n, b))
  PROVE  Same(t, b, v)
<1>1. v \in Int
  BY CellsAreInts
<1>2. Wrap(n) = Wrap(v)
  BY <1>1, WrapSame DEF Differ
<1>3. Wrap(n) = v
  BY <1>2, WrapCell
<1>4. PICK sign \in {"none", "-"} : sign = "none"
  OBVIOUS
<1>5. try_parse_number(t, b) = [ok |-> TRUE, value |-> IF sign = "-" THEN Wrap(-Wrap(n)) ELSE Wrap(n)]
  BY <1>4, ParsesDigits
<1> QED BY <1>3, <1>4, <1>5 DEF Same

LEMMA SameNegative ==
  ASSUME NEW n \in Nat, NEW b \in Bases, NEW v \in Cells, NEW k \in Int,
         Differ(-n, v, k, Modulus), NEW t, t = Text("none", "-", DigitsOf(n, b))
  PROVE  Same(t, b, v)
<1>1. v \in Int /\ -n \in Int
  BY CellsAreInts
<1>2. PICK x \in Int : x = -n
  OBVIOUS
<1>3. Wrap(x) = Wrap(v)
  BY <1>1, <1>2, WrapSame DEF Differ
<1>4. Wrap(-Wrap(n)) = v
  BY <1>2, <1>3, WrapCell, WrapMinus
<1>5. PICK sign \in {"none", "-"} : sign = "-"
  OBVIOUS
<1>6. try_parse_number(t, b) = [ok |-> TRUE, value |-> IF sign = "-" THEN Wrap(-Wrap(n)) ELSE Wrap(n)]
  BY <1>5, ParsesDigits
<1> QED BY <1>4, <1>5, <1>6 DEF Same

\* A remainder differs from its number by a multiple.
LEMMA ModDiffers ==
  ASSUME NEW a \in Int, NEW M \in Nat, M >= 1
  PROVE  (a % M) \in Nat /\ (a % M) < M /\ \E k \in Int : Differ(a % M, a, k, M)
<1>1. PICK r : r = (a % M)
  OBVIOUS
<1>2. PICK q \in Int : a = q * M + r
  BY <1>1, ModIs
<1>3. r \in 0 .. M - 1
  BY <1>1, ModIs
<1>4. PICK k \in Int : k = -q
  OBVIOUS
<1>5. PICK Q \in Int : Q = q * M
  OBVIOUS
<1>6. k * M = -Q
  BY <1>4, <1>5
<1>7. r = a + k * M
  <2>1. a = Q + r /\ r \in Int
    BY <1>2, <1>3, <1>5
  <2>2. r = a + (-Q)
    BY <2>1
  <2> QED BY <1>6, <2>2
<1>8. Differ(r, a, k, M)
  BY <1>7 DEF Differ
<1> QED BY <1>1, <1>3, <1>8

LEMMA DifferNot == ASSUME NEW a \in Int, NEW M \in Int PROVE Differ(a, a, 0, M)
<1>1. 0 * M = 0
  OBVIOUS
<1> QED BY <1>1 DEF Differ

LEMMA UnsignedReads ==
  ASSUME NEW b \in Bases, NEW v \in Cells
  PROVE  Same(Unsigned(v, b, Width), b, v)
<1>1. PICK M \in Nat : M = Modulus /\ M = TwoTo(Width) /\ M >= 1
  BY WidthIs DEF Modulus
<1>2. v \in Int
  BY CellsAreInts
<1>3. PICK n : n = (v % M)
  OBVIOUS
<1>4. n \in Nat
  BY <1>1, <1>2, <1>3, ModDiffers
<1>5. PICK k \in Int : Differ(n, v, k, M)
  BY <1>1, <1>2, <1>3, ModDiffers
<1>6. PICK t : t = Text("none", "none", DigitsOf(n, b))
  OBVIOUS
<1>7. Same(t, b, v)
  BY <1>1, <1>4, <1>5, <1>6, SameCell
<1> QED BY <1>1, <1>3, <1>6, <1>7 DEF Unsigned

LEMMA NegativeReads ==
  ASSUME NEW b \in Bases, NEW v \in Cells, NEW t,
         t = Text("none", "-", DigitsOf((-v) % TwoTo(Width), b))
  PROVE  Same(t, b, v)
<1>1. PICK M \in Nat : M = Modulus /\ M = TwoTo(Width) /\ M >= 1
  BY WidthIs DEF Modulus
<1>2. PICK w \in Int : w = -v /\ v \in Int /\ v = -w
  BY CellsAreInts
<1>3. PICK n : n = (w % M)
  OBVIOUS
<1>4. n \in Nat
  BY <1>1, <1>3, ModDiffers
<1>5. PICK k \in Int : Differ(n, w, k, M)
  BY <1>1, <1>3, ModDiffers
<1>6. PICK l \in Int : l = -k
  OBVIOUS
<1>7. Differ(-n, v, l, M)
  <2>1. PICK K \in Int : K = k * M
    OBVIOUS
  <2>2. l * M = -K
    BY <1>6, <2>1
  <2>3. n = w + K
    BY <1>5, <2>1 DEF Differ
  <2>4. -n = v + (-K)
    BY <1>2, <2>3
  <2> QED BY <2>2, <2>4 DEF Differ
<1>8. t = Text("none", "-", DigitsOf(n, b))
  BY <1>1, <1>2, <1>3
<1> QED BY <1>1, <1>4, <1>7, <1>8, SameNegative

LEMMA LongReads ==
  ASSUME NEW b \in Bases, NEW v \in Cells
  PROVE  Same(ltoa(v, b), b, v) /\ Same(ultoa(v, b), b, v)
<1>1. Same(Unsigned(v, b, Width), b, v)
  BY UnsignedReads
<1>2. CASE v < 0 /\ b = 10
  <2>1. PICK t : t = Text("none", "-", DigitsOf((-v) % TwoTo(Width), b))
    OBVIOUS
  <2>2. ltoa(v, b) = t
    BY <1>2, <2>1 DEF ltoa, Signed
  <2>3. Same(t, b, v)
    BY <2>1, NegativeReads
  <2> QED BY <1>1, <2>2, <2>3 DEF ultoa
<1>3. CASE ~(v < 0 /\ b = 10)
  <2>1. ltoa(v, b) = Unsigned(v, b, Width)
    BY <1>3 DEF ltoa, Signed, Unsigned
  <2> QED BY <1>1, <2>1 DEF ultoa
<1> QED BY <1>2, <1>3

\* An int that is not negative, and its text.
LEMMA SmallReads ==
  ASSUME NEW b \in Bases, NEW n \in Nat, n < Half, NEW t, t = Text("none", "none", DigitsOf(n, b))
  PROVE  Same(t, b, n)
<1>1. Half \in Nat /\ Modulus \in Int
  BY WidthIs DEF Modulus
<1>2. n \in Cells
  BY <1>1 DEF Cells
<1>3. PICK k \in Int : k = 0
  OBVIOUS
<1>4. Differ(n, n, k, Modulus)
  BY <1>1, <1>3, DifferNot
<1> QED BY <1>2, <1>4, SameCell

LEMMA IntReads ==
  ASSUME NEW b \in Bases, NEW v \in Ints
  PROVE  /\ Same(itoa(v, b), b, IF b = 10 THEN v ELSE v % TwoTo(IntWidth))
         /\ Same(utoa(v, b), b, v % TwoTo(IntWidth))
<1>1. PICK h, i, j \in Nat : h = Half /\ i = TwoTo(IntWidth) /\ j = TwoTo(IntWidth - 1)
  BY WidthIs
<1>2. i = 2 * j /\ j >= 1 /\ i <= h
  BY <1>1, WidthIs
<1>3. v \in Int /\ v >= -j /\ v < j
  BY <1>1 DEF Ints
<1>4. PICK n : n = (v % i)
  OBVIOUS
<1>5. n \in Nat /\ n < i
  BY <1>2, <1>3, <1>4, ModDiffers
<1>6. PICK t : t = Text("none", "none", DigitsOf(n, b))
  OBVIOUS
<1>7. Same(t, b, n)
  <2>1. n < Half
    BY <1>1, <1>2, <1>5
  <2> QED BY <1>5, <1>6, <2>1, SmallReads
<1>8. Same(utoa(v, b), b, v % TwoTo(IntWidth))
  BY <1>1, <1>4, <1>6, <1>7 DEF utoa, Unsigned
<1>9. CASE v < 0 /\ b = 10
  <2>1. PICK m \in Nat : m = -v /\ m < i /\ v = -m
    BY <1>2, <1>3, <1>9
  <2>2. (-v) % TwoTo(IntWidth) = m
    <3>1. m % i = m
      BY <1>2, <2>1
    <3> QED BY <1>1, <2>1, <3>1
  <2>3. PICK u : u = Text("none", "-", DigitsOf(m, b))
    OBVIOUS
  <2>4. itoa(v, b) = u
    BY <1>9, <2>2, <2>3 DEF itoa, Signed
  <2>5. v \in Cells /\ Modulus \in Int
    BY <1>1, <1>2, <1>3 DEF Cells, Modulus
  <2>6. PICK k \in Int : k = 0
    OBVIOUS
  <2>7. Differ(v, v, k, Modulus)
    BY <1>3, <2>5, <2>6, DifferNot
  <2>8. Differ(-m, v, k, Modulus)
    BY <2>1, <2>7
  <2>9. Same(u, b, v)
    BY <2>3, <2>5, <2>8, SameNegative
  <2> QED BY <1>8, <1>9, <2>4, <2>9
<1>10. CASE ~(v < 0 /\ b = 10)
  <2>1. itoa(v, b) = t
    BY <1>1, <1>4, <1>6, <1>10 DEF itoa, Signed
  <2>2. b = 10 => n = v
    <3>1. SUFFICES ASSUME b = 10 PROVE n = v
      OBVIOUS
    <3>2. v >= 0 /\ v < i
      BY <1>2, <1>3, <1>10, <3>1
    <3> QED BY <1>2, <1>3, <1>4, <3>2
  <2> QED BY <1>1, <1>4, <1>7, <1>8, <2>1, <2>2
<1> QED BY <1>9, <1>10

----------------------------------------------------------------------------
(* What the computing primitives leave fits into cells.                    *)

LEMMA CellIs ==
  /\ Cells \subseteq Int /\ Half \in Nat /\ Half >= 2
  /\ \A v \in Int : v \in Cells <=> -Half <= v /\ v <= Half - 1
  BY WidthIs DEF Cells

LEMMA FlagCell == ASSUME NEW v \in -1 .. 1 PROVE v \in Cells
<1>1. v \in Int /\ -1 <= v /\ v <= 1
  OBVIOUS
<1> QED BY <1>1, CellIs

LEMMA WrapFits == \A v \in Int : Wrap(v) \in Cells
  BY WrapIs

\* A quotient of magnitudes, and what it leaves.
LEMMA MagParts ==
  ASSUME NEW m \in Nat, NEW n \in Nat, n >= 1
  PROVE  \E q, r \in Nat : /\ q = m \div n /\ r < n /\ m = q * n + r
                           /\ q <= m /\ (n >= 2 => 2 * q <= m)
<1>1. (m % n) \in 0 .. n - 1 /\ m \div n \in Int /\ n > 0 /\ m \in Int
  OBVIOUS
<1>2. PICK q \in Int : q = m \div n
  BY <1>1
<1>3. PICK r \in Nat : r = (m % n) /\ r < n
  BY <1>1
<1>4. m = n * q + r
  BY <1>1, <1>2, <1>3, DivMod
<1>5. n * q = q * n
  OBVIOUS
<1>6. q >= 0
  <2>1. SUFFICES ASSUME q <= -1 PROVE FALSE
    OBVIOUS
  <2>2. q * n = (q + 1) * n - n /\ (q + 1) * n <= 0
    <3>1. \A a, b \in Int : a <= 0 /\ b >= 0 => a * b <= 0
      OBVIOUS
    <3>2. q + 1 <= 0 /\ q + 1 \in Int
      BY <2>1
    <3>3. (q + 1) * n <= 0
      BY <3>1, <3>2
    <3>4. (q + 1) * n = q * n + n
      OBVIOUS
    <3> QED BY <3>3, <3>4
  <2>3. PICK k \in Int : k = q * n
    OBVIOUS
  <2> QED BY <1>3, <1>4, <1>5, <2>2, <2>3
<1>7. q * n >= q /\ (n >= 2 => q * n >= 2 * q)
  <2>1. \A a, b \in Int : a >= 0 /\ b >= 0 => a * b >= 0
    OBVIOUS
  <2>2. q * (n - 1) >= 0 /\ (n >= 2 => q * (n - 2) >= 0)
    BY <1>6, <2>1
  <2>3. q * (n - 1) = q * n - q /\ q * (n - 2) = q * n - 2 * q
    OBVIOUS
  <2>4. PICK k \in Int : k = q * n
    OBVIOUS
  <2> QED BY <2>2, <2>3, <2>4
<1>8. PICK k \in Int : k = q * n
  OBVIOUS
<1>9. q \in Nat /\ m = k + r /\ q <= m /\ (n >= 2 => 2 * q <= m)
  BY <1>3, <1>4, <1>5, <1>6, <1>7, <1>8
<1> QED BY <1>2, <1>3, <1>8, <1>9

LEMMA MagIs ==
  ASSUME NEW a \in Cells
  PROVE  /\ a \in Int /\ Mag(a) \in Nat /\ Mag(a) <= Half
         /\ a >= 0 => Mag(a) = a /\ Mag(a) <= Half - 1
         /\ a < 0 => Mag(a) = -a
         /\ a # 0 => Mag(a) >= 1
  BY CellIs DEF Mag

LEMMA DivFits ==
  ASSUME NEW a \in Cells, NEW b \in Cells, b # 0, ~(b = -1 /\ a = -Half)
  PROVE  CDiv(a, b) \in Cells /\ CMod(a, b) \in Cells
<1>1. PICK m, n \in Nat : m = Mag(a) /\ n = Mag(b)
  BY MagIs
<1>2. /\ m <= Half /\ n <= Half /\ n >= 1 /\ a \in Int /\ b \in Int
      /\ a >= 0 => m = a /\ m <= Half - 1
      /\ a < 0 => m = -a
      /\ b >= 0 => n = b
      /\ b < 0 => n = -b
  BY <1>1, MagIs
<1>3. PICK q, r \in Nat : /\ q = m \div n /\ r < n /\ m = q * n + r
                          /\ q <= m /\ (n >= 2 => 2 * q <= m)
  BY <1>2, MagParts
<1>4. PICK k \in Int : k = q * n
  OBVIOUS
<1>5. CASE (a < 0) = (b < 0)
  <2>1. CDiv(a, b) = q
    BY <1>1, <1>3, <1>5 DEF CDiv
  <2>2. q <= Half - 1
    BY <1>2, <1>3, <1>5, CellIs
  <2>3. b * q = IF a < 0 THEN -k ELSE k
    <3>1. CASE a < 0
      <4>1. b = -n
        BY <1>2, <1>5, <3>1
      <4>2. (-n) * q = -(q * n)
        OBVIOUS
      <4> QED BY <1>4, <3>1, <4>1, <4>2
    <3>2. CASE ~(a < 0)
      <4>1. b = n /\ n * q = q * n
        BY <1>2, <1>5, <3>2
      <4> QED BY <1>4, <3>2, <4>1
    <3> QED BY <3>1, <3>2
  <2>4. CMod(a, b) = IF a < 0 THEN -r ELSE r
    BY <1>2, <1>3, <1>4, <2>1, <2>3 DEF CMod
  <2> QED BY <1>2, <1>3, <2>1, <2>2, <2>4, CellIs
<1>6. CASE (a < 0) # (b < 0)
  <2>1. CDiv(a, b) = -q
    BY <1>1, <1>3, <1>6 DEF CDiv
  <2>2. b * (-q) = IF a < 0 THEN -k ELSE k
    <3>1. CASE a < 0
      <4>1. b = n
        BY <1>2, <1>6, <3>1
      <4>2. n * (-q) = -(q * n)
        OBVIOUS
      <4> QED BY <1>4, <3>1, <4>1, <4>2
    <3>2. CASE ~(a < 0)
      <4>1. b = -n /\ (-n) * (-q) = q * n
        BY <1>2, <1>6, <3>2
      <4> QED BY <1>4, <3>2, <4>1
    <3> QED BY <3>1, <3>2
  <2>3. CMod(a, b) = IF a < 0 THEN -r ELSE r
    BY <1>2, <1>3, <1>4, <2>1, <2>2 DEF CMod
  <2> QED BY <1>2, <1>3, <2>1, <2>3, CellIs
<1> QED BY <1>5, <1>6

\* The bits of a cell make a number.
BitTurn(f, g, n) == IF n = 0 THEN 0 ELSE g[n - 1] + f[n - 1] * TwoTo(n - 1)
IsBits(f, g, k)  == g = [n \in 0 .. k |-> BitTurn(f, g, n)]

LEMMA BitsTurns == ASSUME NEW f PROVE Bits(f) = Wrap((CHOOSE g : IsBits(f, g, Width))[Width])
  BY DEF Bits, IsBits, BitTurn

LEMMA BitsExist == ASSUME NEW f, NEW N \in Nat PROVE \E g : IsBits(f, g, N)
<1> DEFINE T == {k \in Nat : \E g : IsBits(f, g, k)}
<1>1. 0 \in T
  <2> DEFINE g == [n \in 0 .. 0 |-> 0]
  <2>1. IsBits(f, g, 0)
    BY DEF IsBits, BitTurn
  <2> QED BY <2>1
<1>2. ASSUME NEW k \in 0 .. N, k \in T PROVE k + 1 \in T
  <2>1. PICK h : IsBits(f, h, k)
    BY <1>2
  <2> DEFINE g == [n \in 0 .. k + 1 |-> BitTurn(f, h, n)]
  <2>2. \A n \in 0 .. k : h[n] = BitTurn(f, h, n)
    BY <2>1 DEF IsBits
  <2>3. \A n \in 0 .. k : g[n] = h[n]
    BY <2>2
  <2>4. \A n \in 0 .. k + 1 : n # 0 => n - 1 \in 0 .. k
    OBVIOUS
  <2>5. \A n \in 0 .. k + 1 : BitTurn(f, g, n) = BitTurn(f, h, n)
    <3> HIDE DEF g
    <3> QED BY <2>3, <2>4 DEF BitTurn
  <2>6. g = [n \in 0 .. k + 1 |-> BitTurn(f, g, n)]
    BY <2>5
  <2> HIDE DEF g
  <2>7. IsBits(f, g, k + 1)
    BY <2>6 DEF IsBits
  <2> QED BY <2>7
<1>3. \A k \in 0 .. N : k # N /\ k \in T => k + 1 \in T
  BY <1>2
<1> HIDE DEF T
<1>4. N \in T
  BY <1>1, <1>3, Counting
<1> QED BY <1>4 DEF T

LEMMA BitsFit ==
  ASSUME NEW f, \A i \in 0 .. Width - 1 : f[i] \in Int
  PROVE  Bits(f) \in Cells
<1>1. Width \in Nat
  BY SizesAssumption
<1> DEFINE g == CHOOSE x : IsBits(f, x, Width)
<1>2. IsBits(f, g, Width)
  BY <1>1, BitsExist
<1>3. Bits(f) = Wrap(g[Width])
  BY BitsTurns
<1> HIDE DEF g
<1>4. \A n \in 0 .. Width : g[n] = BitTurn(f, g, n)
  BY <1>2 DEF IsBits
<1> DEFINE T == {n \in 0 .. Width : g[n] \in Int}
<1>5. 0 \in T
  <2>1. 0 \in 0 .. Width
    BY <1>1
  <2> QED BY <1>4, <2>1 DEF BitTurn
<1>6. ASSUME NEW n \in 0 .. Width, n # Width, n \in T PROVE n + 1 \in T
  <2>1. n + 1 \in 0 .. Width /\ n + 1 # 0 /\ (n + 1) - 1 = n /\ n \in Nat /\ n \in 0 .. Width - 1
    BY <1>1, <1>6
  <2>2. g[n + 1] = g[n] + f[n] * TwoTo(n)
    BY <1>4, <2>1 DEF BitTurn
  <2>3. g[n] \in Int /\ f[n] \in Int /\ TwoTo(n) \in Int
    BY <1>6, <2>1, TwoToStep
  <2>4. g[n + 1] \in Int
    BY <2>2, <2>3
  <2> QED BY <2>1, <2>4
<1>7. \A n \in 0 .. Width : n # Width /\ n \in T => n + 1 \in T
  BY <1>6
<1>8. \A n \in 0 .. Width : n \in T
  <2> HIDE DEF T
  <2> QED BY <1>1, <1>5, <1>7, Counting
<1>9. g[Width] \in Int
  BY <1>1, <1>8
<1> QED BY <1>3, <1>9, WrapFits

LEMMA BitIs ==
  ASSUME NEW v \in Int, NEW i \in 0 .. Width - 1
  PROVE  Bit(v, i) \in {0, 1}
<1>1. i \in Nat
  BY SizesAssumption
<1>2. PICK p \in Nat : p = TwoTo(i) /\ p >= 1
  BY <1>1, TwoToStep
<1>3. PICK q \in Int : q = v \div p
  BY <1>2
<1>4. Bit(v, i) = q % 2
  BY <1>2, <1>3 DEF Bit
<1> QED BY <1>4

LEMMA ShiftFits ==
  ASSUME NEW v \in Int, NEW n \in Int
  PROVE  Lshift(v, n) \in Cells /\ Rshift(v, n) \in Cells
<1>1. PICK k \in Nat : k = n % Width
  BY SizesAssumption
<1>2. PICK p \in Nat : p = TwoTo(k) /\ p >= 1
  BY TwoToStep
<1>3. PICK M \in Nat : M = TwoTo(Width) /\ M >= 1
  BY SizesAssumption, TwoToStep
<1>4. v * p \in Int
  OBVIOUS
<1>5. (v % M) \in Int
  BY <1>3
<1>6. PICK u \in Int : u = (v % M)
  BY <1>5
<1>7. u \div p \in Int
  BY <1>2
<1>8. Lshift(v, n) = Wrap(v * p) /\ Rshift(v, n) = Wrap(u \div p)
  BY <1>1, <1>2, <1>3, <1>6 DEF Lshift, Rshift
<1> QED BY <1>4, <1>7, <1>8, WrapFits

----------------------------------------------------------------------------
(* Stacks of cells.                                                        *)

Stacks(size) == {s \in Seq(Cells) : Len(s) <= size}

LEMMA StackPush ==
  ASSUME NEW s \in Stacks(DATA_STACK_SIZE), NEW v \in Cells
  PROVE  ds_push(s, v) \in Stacks(DATA_STACK_SIZE)
<1>1. s \in Seq(Cells) /\ Len(s) <= DATA_STACK_SIZE /\ Len(s) \in Nat
  BY DEF Stacks
<1>2. Append(s, v) \in Seq(Cells) /\ Len(Append(s, v)) = Len(s) + 1
  BY <1>1, AppendProperties
<1> QED BY <1>1, <1>2, SizesAssumption DEF ds_push, Stacks

LEMMA StackPick ==
  ASSUME NEW s \in Stacks(DATA_STACK_SIZE), NEW n \in Nat
  PROVE  ds_pick(s, n) \in Cells
<1>1. s \in Seq(Cells) /\ Len(s) \in Nat
  BY DEF Stacks
<1>2. 0 \in Cells
  BY FlagCell
<1>3. CASE n >= Len(s)
  BY <1>2, <1>3 DEF ds_pick
<1>4. CASE ~(n >= Len(s))
  <2>1. Len(s) - n \in 1 .. Len(s)
    BY <1>1, <1>4
  <2>2. s[Len(s) - n] \in Cells
    BY <1>1, <2>1, ElementOfSeq
  <2> QED BY <1>4, <2>2 DEF ds_pick
<1> QED BY <1>3, <1>4

LEMMA StackDrops ==
  ASSUME NEW s \in Stacks(DATA_STACK_SIZE), NEW n \in Nat
  PROVE  /\ Drops(s, n) \in Stacks(DATA_STACK_SIZE)
         /\ Len(Drops(s, n)) <= Len(s)
<1>1. s \in Seq(Cells) /\ Len(s) \in Nat /\ Len(s) <= DATA_STACK_SIZE
  BY DEF Stacks
<1>2. CASE n <= Len(s)
  <2>1. PICK m \in Nat : m = Len(s) - n /\ m <= Len(s)
    BY <1>1, <1>2
  <2>2. m = 0 \/ (1 \in 1 .. Len(s) + 1 /\ m \in 0 .. Len(s))
    BY <1>1, <2>1
  <2>3. SubSeq(s, 1, m) \in Seq(Cells) /\ Len(SubSeq(s, 1, m)) = m
    <3>1. 1 \in 1 .. Len(s) + 1 /\ m \in 1 - 1 .. Len(s)
      BY <1>1, <2>1
    <3> QED BY <1>1, <2>1, <3>1, SubSeqProperties
  <2>4. Drops(s, n) = SubSeq(s, 1, m)
    BY <1>2, <2>1 DEF Drops
  <2> QED BY <1>1, <2>1, <2>3, <2>4, SizesAssumption DEF Stacks
<1>3. CASE ~(n <= Len(s))
  <2>1. Drops(s, n) = <<>> /\ <<>> \in Seq(Cells) /\ Len(<<>>) = 0
    BY <1>3 DEF Drops
  <2> QED BY <1>1, <2>1, SizesAssumption DEF Stacks
<1> QED BY <1>2, <1>3

LEMMA StackPushes ==
  ASSUME NEW s \in Stacks(DATA_STACK_SIZE), NEW vs \in Seq(Cells)
  PROVE  Pushes(s, vs) \in Stacks(DATA_STACK_SIZE)
<1>1. s \in Seq(Cells) /\ Len(s) \in Nat /\ Len(s) <= DATA_STACK_SIZE /\ Len(vs) \in Nat
  BY DEF Stacks
<1>2. DATA_STACK_SIZE \in Nat
  BY SizesAssumption
<1> DEFINE n == IF Len(s) + Len(vs) <= DATA_STACK_SIZE THEN Len(vs) ELSE DATA_STACK_SIZE - Len(s)
<1>8. n \in Nat /\ n <= Len(vs) /\ Len(s) + n <= DATA_STACK_SIZE
  <2>1. CASE Len(s) + Len(vs) <= DATA_STACK_SIZE
    BY <1>1, <2>1
  <2>2. CASE ~(Len(s) + Len(vs) <= DATA_STACK_SIZE)
    BY <1>1, <1>2, <2>2
  <2> QED BY <2>1, <2>2
<1> HIDE DEF n
<1>3. PICK m \in Nat : m = n /\ m <= Len(vs) /\ Len(s) + m <= DATA_STACK_SIZE
  BY <1>8
<1>4. PICK t : t = SubSeq(vs, 1, m)
  OBVIOUS
<1>5. t \in Seq(Cells) /\ Len(t) = m
  <2>1. 1 \in 1 .. Len(vs) + 1 /\ m \in 1 - 1 .. Len(vs)
    BY <1>1, <1>3
  <2> QED BY <1>3, <1>4, <2>1, SubSeqProperties
<1>6. s \o t \in Seq(Cells) /\ Len(s \o t) = Len(s) + m
  BY <1>1, <1>5, ConcatProperties
<1>7. Pushes(s, vs) = s \o t
  BY <1>3, <1>4 DEF Pushes, n
<1> QED BY <1>3, <1>6, <1>7 DEF Stacks

LEMMA StackReplace ==
  ASSUME NEW s \in Stacks(DATA_STACK_SIZE), NEW n \in Nat, NEW vs \in Seq(Cells)
  PROVE  Replace(s, n, vs) \in Stacks(DATA_STACK_SIZE)
<1>1. PICK t \in Stacks(DATA_STACK_SIZE) : t = Drops(s, n)
  BY StackDrops
<1>2. Pushes(t, vs) \in Stacks(DATA_STACK_SIZE)
  BY StackPushes
<1> QED BY <1>1, <1>2 DEF Replace

LEMMA StackPop ==
  ASSUME NEW s \in Stacks(DATA_STACK_SIZE)
  PROVE  ds_rest(s) \in Stacks(DATA_STACK_SIZE) /\ ds_peek(s) \in Cells
<1>1. s \in Seq(Cells) /\ Len(s) \in Nat /\ Len(s) <= DATA_STACK_SIZE
  BY DEF Stacks
<1>2. PICK o \in Nat : o = 1
  OBVIOUS
<1>3. Drops(s, o) \in Stacks(DATA_STACK_SIZE)
  BY StackDrops
<1>4. CASE s = <<>>
  <2>1. 0 \in Cells
    BY FlagCell
  <2> QED BY <1>4, <2>1 DEF ds_rest, ds_peek
<1>5. CASE s # <<>>
  <2>1. Len(s) >= 1 /\ Len(s) \in 1 .. Len(s)
    BY <1>1, <1>5, EmptySeq
  <2>2. ds_rest(s) = Drops(s, o)
    BY <1>2, <1>5, <2>1 DEF ds_rest, Drops
  <2>3. s[Len(s)] \in Cells
    BY <1>1, <2>1, ElementOfSeq
  <2> QED BY <1>3, <1>5, <2>2, <2>3 DEF ds_peek
<1> QED BY <1>4, <1>5

Operands(s) == /\ s \in Stacks(DATA_STACK_SIZE)
               /\ Len(s) \in Cells /\ Len(s) \in Nat
               /\ \A n \in 0 .. 3 : ds_pick(s, n) \in Cells

LEMMA OperandsAre == ASSUME NEW s \in Stacks(DATA_STACK_SIZE) PROVE Operands(s)
<1>1. Len(s) \in Nat /\ Len(s) <= DATA_STACK_SIZE /\ DATA_STACK_SIZE \in Nat
  BY SizesAssumption DEF Stacks
<1>2. DATA_STACK_SIZE \in Cells
  BY DepthAssumption
<1>3. Len(s) \in Cells
  BY <1>1, <1>2, CellIs
<1>4. \A n \in 0 .. 3 : ds_pick(s, n) \in Cells
  BY StackPick
<1> QED BY <1>1, <1>3, <1>4 DEF Operands

\* n cells are replaced by one, two, three or four.
LEMMA Replaces ==
  ASSUME NEW s \in Stacks(DATA_STACK_SIZE), NEW n \in Nat
  PROVE  /\ \A v \in Cells : Replace(s, n, <<v>>) \in Stacks(DATA_STACK_SIZE)
         /\ \A v, w \in Cells : Replace(s, n, <<v, w>>) \in Stacks(DATA_STACK_SIZE)
         /\ \A u, v, w \in Cells : Replace(s, n, <<u, v, w>>) \in Stacks(DATA_STACK_SIZE)
         /\ \A t, u, v, w \in Cells : Replace(s, n, <<t, u, v, w>>) \in Stacks(DATA_STACK_SIZE)
<1>1. ASSUME NEW v \in Cells PROVE Replace(s, n, <<v>>) \in Stacks(DATA_STACK_SIZE)
  <2>1. <<v>> \in Seq(Cells)
    OBVIOUS
  <2> QED BY <2>1, StackReplace
<1>2. ASSUME NEW v \in Cells, NEW w \in Cells
      PROVE  Replace(s, n, <<v, w>>) \in Stacks(DATA_STACK_SIZE)
  <2>1. <<v, w>> \in Seq(Cells)
    OBVIOUS
  <2> QED BY <2>1, StackReplace
<1>3. ASSUME NEW u \in Cells, NEW v \in Cells, NEW w \in Cells
      PROVE  Replace(s, n, <<u, v, w>>) \in Stacks(DATA_STACK_SIZE)
  <2>1. <<u, v, w>> \in Seq(Cells)
    OBVIOUS
  <2> QED BY <2>1, StackReplace
<1>4. ASSUME NEW t \in Cells, NEW u \in Cells, NEW v \in Cells, NEW w \in Cells
      PROVE  Replace(s, n, <<t, u, v, w>>) \in Stacks(DATA_STACK_SIZE)
  <2>1. <<t, u, v, w>> \in Seq(Cells)
    OBVIOUS
  <2> QED BY <2>1, StackReplace
<1> QED BY <1>1, <1>2, <1>3, <1>4

LEMMA Pushing ==
  ASSUME NEW s \in Stacks(DATA_STACK_SIZE)
  PROVE  /\ \A v \in Cells : Pushes(s, <<v>>) \in Stacks(DATA_STACK_SIZE)
         /\ \A v, w \in Cells : Pushes(s, <<v, w>>) \in Stacks(DATA_STACK_SIZE)
<1>1. \A v, w \in Cells : <<v>> \in Seq(Cells) /\ <<v, w>> \in Seq(Cells)
  OBVIOUS
<1> QED BY <1>1, StackPushes

\* Every computing primitive leaves a stack of cells that is not too deep; a
\* division, unless it traps.
LEMMA EffectFits ==
  ASSUME NEW s \in Stacks(DATA_STACK_SIZE), NEW w \in Computing, ~Traps(w, s)
  PROVE  Effect(w, s) \in Stacks(DATA_STACK_SIZE)
<1>1. PICK a, b, x, y \in Cells : /\ a = ds_pick(s, 1) /\ b = ds_pick(s, 0)
                                  /\ y = ds_pick(s, 2) /\ x = ds_pick(s, 3)
  BY OperandsAre DEF Operands
<1>2. /\ a \in Int /\ b \in Int /\ x \in Int /\ y \in Int /\ Half \in Nat
      /\ \A v \in Int : v \in Cells <=> -Half <= v /\ v <= Half - 1
  BY CellIs
<1>3. 0 \in Cells /\ -1 \in Cells /\ Len(s) \in Cells
  <2>1. 0 \in Cells /\ -1 \in Cells
    BY CellIs
  <2> QED BY <2>1, OperandsAre DEF Operands
<1>4. \A n \in {1, 2, 3, 4} :
        /\ \A v \in Cells : Replace(s, n, <<v>>) \in Stacks(DATA_STACK_SIZE)
        /\ \A v, u \in Cells : Replace(s, n, <<v, u>>) \in Stacks(DATA_STACK_SIZE)
        /\ \A t, u, v \in Cells : Replace(s, n, <<t, u, v>>) \in Stacks(DATA_STACK_SIZE)
        /\ \A r, t, u, v \in Cells : Replace(s, n, <<r, t, u, v>>) \in Stacks(DATA_STACK_SIZE)
  BY Replaces
<1>5. CASE w \in {"DUP", "OVER", "2DUP", "DEPTH", "?DUP"}
  <2>1. \/ Effect(w, s) = s
        \/ Effect(w, s) = Pushes(s, <<b>>) \/ Effect(w, s) = Pushes(s, <<a>>)
        \/ Effect(w, s) = Pushes(s, <<a, b>>) \/ Effect(w, s) = Pushes(s, <<Len(s)>>)
    BY <1>1, <1>5 DEF Effect
  <2> QED BY <1>3, <2>1, Pushing
<1>6. CASE w \in {"DROP", "2DROP"}
  <2>1. \E n \in {1, 2} : Effect(w, s) = Drops(s, n)
    BY <1>6 DEF Effect
  <2> QED BY <2>1, StackDrops
<1>7. CASE w \in {"SWAP", "ROT", "TUCK", "2SWAP", "VDUP"}
  <2>1. \/ Effect(w, s) = s \/ Effect(w, s) = Replace(s, 2, <<b, a>>)
        \/ Effect(w, s) = Replace(s, 3, <<a, b, y>>) \/ Effect(w, s) = Replace(s, 2, <<b, a, b>>)
        \/ Effect(w, s) = Replace(s, 4, <<a, b, x, y>>) \/ Effect(w, s) = Replace(s, 1, <<b, b>>)
    BY <1>1, <1>7 DEF Effect
  <2> QED BY <1>4, <2>1
<1>8. CASE w \in {"NIP", "MIN", "MAX"}
  <2>1. \E v \in {a, b} : Effect(w, s) = Replace(s, 2, <<v>>)
    BY <1>1, <1>8 DEF Effect
  <2> QED BY <1>4, <2>1
<1>9. CASE w \in {"=", "<>", "<", ">", "<=", ">=", "0=", "0<", "0>"}
  <2>1. \E v \in {-1, 0}, n \in {1, 2} : Effect(w, s) = Replace(s, n, <<v>>)
    BY <1>9 DEF Effect, Flag
  <2> QED BY <1>3, <1>4, <2>1
<1>10. CASE w \in {"+", "-", "*"}
  <2>1. \E v \in {a + b, a - b, a * b} : Effect(w, s) = Replace(s, 2, <<Wrap(v)>>)
    BY <1>1, <1>10 DEF Effect
  <2>2. \A v \in {a + b, a - b, a * b} : v \in Int
    BY <1>2
  <2> QED BY <1>4, <2>1, <2>2, WrapFits
<1>11. CASE w \in {"NEGATE", "ABS", "1+", "1-", "2*"}
  <2>1. \E v \in {-b, Mag(b), b + 1, b - 1, 2 * b} : Effect(w, s) = Replace(s, 1, <<Wrap(v)>>)
    BY <1>1, <1>11 DEF Effect
  <2>2. \A v \in {-b, Mag(b), b + 1, b - 1, 2 * b} : v \in Int
    BY <1>2 DEF Mag
  <2> QED BY <1>4, <2>1, <2>2, WrapFits
<1>12. CASE w \in {"2/", "INVERT"}
  <2>1. \E v \in {b \div 2, -b - 1} : Effect(w, s) = Replace(s, 1, <<v>>)
    BY <1>1, <1>12 DEF Effect
  <2>2. b \div 2 \in Cells /\ -b - 1 \in Cells
    BY <1>1, <1>2
  <2> QED BY <1>4, <2>1, <2>2
<1>13. CASE w \in {"/", "MOD", "/MOD"}
  <2>1. CASE b = 0
    <3>1. Effect(w, s) = Replace(s, 1, <<0>>) \/ Effect(w, s) = Replace(s, 1, <<0, 0>>)
      BY <1>1, <1>13, <2>1 DEF Effect
    <3> QED BY <1>3, <1>4, <3>1
  <2>2. CASE b # 0
    <3>1. \/ Effect(w, s) = Replace(s, 2, <<CDiv(a, b)>>) \/ Effect(w, s) = Replace(s, 2, <<CMod(a, b)>>)
          \/ Effect(w, s) = Replace(s, 2, <<CMod(a, b), CDiv(a, b)>>)
      BY <1>1, <1>13, <2>2 DEF Effect
    <3>2. ~(b = -1 /\ a = -Half)
      BY <1>1, <1>13 DEF Traps
    <3>3. CDiv(a, b) \in Cells /\ CMod(a, b) \in Cells
      BY <2>2, <3>2, DivFits
    <3> QED BY <1>4, <3>1, <3>3
  <2> QED BY <2>1, <2>2
<1>14. CASE w \in {"AND", "OR", "XOR"}
  <2>1. \A i \in 0 .. Width - 1 : Bit(a, i) \in {0, 1} /\ Bit(b, i) \in {0, 1}
    BY <1>2, BitIs
  <2> DEFINE both == [i \in 0 .. Width - 1 |-> Bit(a, i) * Bit(b, i)]
             some == [i \in 0 .. Width - 1 |-> IF Bit(a, i) + Bit(b, i) = 0 THEN 0 ELSE 1]
             one  == [i \in 0 .. Width - 1 |-> (Bit(a, i) + Bit(b, i)) % 2]
  <2>2. \A f \in {both, some, one} : \A i \in 0 .. Width - 1 : f[i] \in Int
    <3>1. ASSUME NEW i \in 0 .. Width - 1 PROVE both[i] \in Int /\ some[i] \in Int /\ one[i] \in Int
      <4>1. PICK p, q \in {0, 1} : p = Bit(a, i) /\ q = Bit(b, i)
        BY <2>1
      <4>2. both[i] = p * q /\ some[i] = (IF p + q = 0 THEN 0 ELSE 1) /\ one[i] = (p + q) % 2
        BY <4>1
      <4>3. p * q \in Int /\ (p + q) % 2 \in Int
        <5>1. p + q \in 0 .. 2
          OBVIOUS
        <5>2. PICK k \in 0 .. 2 : k = p + q
          BY <5>1
        <5>3. (k % 2) \in Int
          OBVIOUS
        <5> QED BY <5>2, <5>3
      <4> HIDE DEF both, some, one
      <4> QED BY <4>2, <4>3
    <3> HIDE DEF both, some, one
    <3> QED BY <3>1
  <2>3. \E f \in {both, some, one} : Effect(w, s) = Replace(s, 2, <<Bits(f)>>)
    BY <1>1, <1>14 DEF Effect, BitOp
  <2> HIDE DEF both, some, one
  <2>4. \A f \in {both, some, one} : Bits(f) \in Cells
    BY <2>2, BitsFit
  <2> QED BY <1>4, <2>3, <2>4
<1>15. CASE w \in {"LSHIFT", "RSHIFT"}
  <2>1. \E v \in {Lshift(a, b), Rshift(a, b)} : Effect(w, s) = Replace(s, 2, <<v>>)
    BY <1>1, <1>15 DEF Effect
  <2>2. Lshift(a, b) \in Cells /\ Rshift(a, b) \in Cells
    BY <1>2, ShiftFits
  <2> QED BY <1>4, <2>1, <2>2
<1>16. CASE w = "V+"
  <2>1. Effect(w, s) = s \/ Effect(w, s) = Replace(s, 4, <<Wrap(x + a), Wrap(y + b)>>)
    BY <1>1, <1>16 DEF Effect
  <2>2. Wrap(x + a) \in Cells /\ Wrap(y + b) \in Cells
    BY <1>2, WrapFits
  <2> QED BY <1>4, <2>1, <2>2
<1> QED BY <1>5, <1>6, <1>7, <1>8, <1>9, <1>10, <1>11, <1>12, <1>13, <1>14, <1>15, <1>16
        DEF Computing

LEMMA ReturnPush ==
  ASSUME NEW s \in Stacks(RETURN_STACK_SIZE), NEW v \in Cells
  PROVE  rs_push(s, v) \in Stacks(RETURN_STACK_SIZE)
<1>1. s \in Seq(Cells) /\ Len(s) <= RETURN_STACK_SIZE /\ Len(s) \in Nat
  BY DEF Stacks
<1>2. Append(s, v) \in Seq(Cells) /\ Len(Append(s, v)) = Len(s) + 1
  BY <1>1, AppendProperties
<1> QED BY <1>1, <1>2, SizesAssumption DEF rs_push, Stacks

LEMMA ReturnPop ==
  ASSUME NEW s \in Stacks(RETURN_STACK_SIZE)
  PROVE  rs_rest(s) \in Stacks(RETURN_STACK_SIZE) /\ rs_peek(s) \in Cells
<1>1. s \in Seq(Cells) /\ Len(s) \in Nat /\ Len(s) <= RETURN_STACK_SIZE
  BY DEF Stacks
<1>2. CASE s = <<>>
  <2>1. 0 \in Cells
    BY FlagCell
  <2> QED BY <1>2, <2>1 DEF rs_rest, rs_peek
<1>3. CASE s # <<>>
  <2>1. Len(s) >= 1 /\ Len(s) \in 1 .. Len(s)
    BY <1>1, <1>3, EmptySeq
  <2>2. PICK m \in Nat : m = Len(s) - 1
    BY <1>1, <2>1
  <2>3. SubSeq(s, 1, m) \in Seq(Cells) /\ Len(SubSeq(s, 1, m)) = m
    <3>1. 1 \in 1 .. Len(s) + 1 /\ m \in 1 - 1 .. Len(s)
      BY <1>1, <2>2
    <3> QED BY <1>1, <2>2, <3>1, SubSeqProperties
  <2>4. rs_rest(s) = SubSeq(s, 1, m)
    BY <1>3, <2>2 DEF rs_rest
  <2>5. s[Len(s)] \in Cells
    BY <1>1, <2>1, ElementOfSeq
  <2> QED BY <1>1, <1>3, <2>2, <2>3, <2>4, <2>5, SizesAssumption DEF Stacks, rs_peek
<1> QED BY <1>2, <1>3

LEMMA SeqWider == ASSUME NEW S, NEW T, S \subseteq T, NEW s \in Seq(S) PROVE s \in Seq(T)
<1>1. Len(s) \in Nat /\ s \in [1 .. Len(s) -> S]
  OBVIOUS
<1>2. s \in [1 .. Len(s) -> T]
  BY <1>1
<1> QED BY <1>1, <1>2, IsASeq

LEMMA SeqCut ==
  ASSUME NEW S, NEW s \in Seq(S), NEW m \in 1 .. Len(s)
  PROVE  SubSeq(s, 1, m - 1) \in Seq(S)
<1>1. PICK k \in Nat : k = m - 1 /\ k \in 1 - 1 .. Len(s) /\ 1 \in 1 .. Len(s) + 1
  OBVIOUS
<1>2. SubSeq(s, 1, k) \in Seq(S)
  BY <1>1, SubSeqProperties
<1> QED BY <1>1, <1>2

\* A number read is a cell.
LEMMA HornerFits ==
  ASSUME NEW s \in Seq(Int), NEW b \in Int
  PROVE  Horner(s, b) \in Cells
<1>1. PICK n \in Nat : n = Len(s)
  OBVIOUS
<1>2. PICK f : Reads(s, b, f, n)
  BY <1>1, ReadsAre
<1>3. \A i \in 1 .. n : s[i] \in Int
  BY <1>1, ElementOfSeq
<1> DEFINE T == {i \in 0 .. n : f[i] \in Cells}
<1>4. 0 \in T
  <2>1. 0 \in Cells
    BY FlagCell
  <2> QED BY <1>2, <2>1 DEF Reads
<1>5. ASSUME NEW i \in 0 .. n, i # n, i \in T PROVE i + 1 \in T
  <2>1. i + 1 \in 0 .. n /\ i + 1 \in 1 .. n /\ i + 1 # 0 /\ (i + 1) - 1 = i
    BY <1>5
  <2>2. f[i + 1] = Wrap(f[i] * b + s[i + 1])
    BY <1>2, <2>1 DEF Reads
  <2>3. f[i] * b + s[i + 1] \in Int
    <3>1. f[i] \in Int /\ s[i + 1] \in Int
      BY <1>3, <1>5, <2>1, CellsAreInts
    <3> QED BY <3>1
  <2> QED BY <2>1, <2>2, <2>3, WrapFits
<1>6. \A i \in 0 .. n : i # n /\ i \in T => i + 1 \in T
  BY <1>5
<1>7. \A i \in 0 .. n : i \in T
  <2> HIDE DEF T
  <2> QED BY <1>4, <1>6, Counting
<1>8. f[n] \in Cells
  BY <1>7
<1> QED BY <1>2, <1>8 DEF Reads
=============================================================================
