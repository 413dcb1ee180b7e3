----------------------------- MODULE HeapProofs -----------------------------
(***************************************************************************)
(* The kernel heap for every size of memory and every set of requests.     *)
(* The inductive invariant adds to the properties what the call under way  *)
(* has established (Arguments, Position), that free blocks never touch     *)
(* between calls (Spaced), that a block in use has a holder (Holders), and *)
(* where in memory a tag that reads "in use" can be (Tags, Freeable).      *)
(***************************************************************************)
EXTENDS Heap, WellFoundedInduction, NaturalsInduction, FiniteSetTheorems, TLAPS

Both(b) == NextOf(b) # NULL => ~(Free(b) /\ Free(NextOf(b)))

Arguments ==
    /\ \A p \in DOMAIN live : live[p].len <= live[p].units
    /\ pc \in {"search", "move"} =>
         /\ 1 <= req.use /\ req.use <= req.units
         /\ req.kind = "aligned" => req.use + req.align <= req.units
         /\ req.kind = "realloc" =>
              req.old \in DOMAIN live /\ Own(req.old) /\ Size(req.old - HEADER) <= req.use

Position ==
    /\ pc \in {"search", "coalesce", "move"} => at \in chain
    /\ pc = "search" => \A b \in chain : b < at => ~Fits(b)
    /\ pc = "coalesce" => \A b \in chain : b < at => Both(b)
    /\ pc = "move" => /\ ~Free(at) /\ req.kind = "realloc" /\ req.units <= Size(at)
                      /\ \A p \in DOMAIN live : live[p].raw # at

Spaced == pc \in {"idle", "search", "move"} => \A b \in chain : Both(b)

Holders == \A b \in chain : ~Free(b) => \/ pc = "move" /\ b = at
                                        \/ \E p \in DOMAIN live : live[p].raw = b

Tags == \A u \in Addr : mem[u].kind = "tag" /\ ~mem[u].free => u - 1 \in chain \/ u + 1 \in DOMAIN live

Freeable == /\ \A p \in freed : p >= HEADER
            /\ \A b \in chain : ~Free(b) => b + HEADER \notin freed

IInv == /\ TypeOK /\ Tiling /\ Owned /\ Intact /\ Arguments /\ Position /\ Spaced
        /\ Holders /\ Tags /\ Freeable /\ PanicJustified

\* What a step does to the blocks in use and to heap_used.
Busy == {b \in chain : ~Free(b)}
Even == /\ Busy' = Busy /\ heap_used' = heap_used
        /\ \A c \in Busy : Size(c)' = Size(c)
Charged(b) == /\ b \notin Busy /\ Busy' = Busy \cup {b} /\ heap_used' = heap_used + Size(b)' /\ Size(b)' \in Nat
              /\ \A c \in Busy : Size(c)' = Size(c)
Refunded(b) == /\ b \in Busy /\ Busy' = Busy \ {b} /\ heap_used' = heap_used - Size(b)
               /\ \A c \in Busy : Size(c)' = Size(c)

----------------------------------------------------------------------------
(* Sums of sizes.                                                          *)

\* Every set of naturals that is not empty has a least element.
LEMMA Least ==
  ASSUME NEW T, T \subseteq Nat, T # {}
  PROVE  \E x \in T : \A y \in T : x <= y
<1> DEFINE R == OpToRel(<, Nat)
<1>1. \A x, y \in Nat : <<x, y>> \in R <=> x < y
  BY DEF OpToRel
<1>2. IsWellFoundedOn(R, Nat)
  BY NatLessThanWellFounded
<1> HIDE DEF R
<1>3. PICK x \in T : \A y \in T : ~(<<y, x>> \in R)
  BY <1>2, WFMin
<1>4. ASSUME NEW y \in T PROVE x <= y
  <2>1. x \in Nat /\ y \in Nat
    OBVIOUS
  <2>2. ~(y < x)
    BY <1>1, <1>3, <2>1
  <2> QED BY <2>1, <2>2
<1> QED BY <1>4

\* What UsedExact adds up, for memory m and blocks T, and the function the fold
\* computes it with: the sum over each subset.
SumOf(m, T) == MapThenSumSet(LAMBDA b : m[b].size, T)
Pick(s) == CHOOSE x \in s : TRUE
Sums(m, T, it) == it = [s \in SUBSET T |-> IF s = {} THEN 0 ELSE m[Pick(s)].size + it[s \ {Pick(s)}]]

LEMMA SumOfIs == ASSUME NEW m, NEW T PROVE SumOf(m, T) = (CHOOSE it : Sums(m, T, it))[T]
  BY DEF SumOf, MapThenSumSet, MapThenFoldSet, Sums, Pick

LEMMA PickIn == ASSUME NEW s, s # {} PROVE Pick(s) \in s
  BY DEF Pick

LEMMA Smaller ==
  ASSUME NEW s, IsFiniteSet(s), NEW x \in s
  PROVE  /\ IsFiniteSet(s \ {x}) /\ Cardinality(s) \in Nat /\ Cardinality(s \ {x}) \in Nat
         /\ Cardinality(s \ {x}) = Cardinality(s) - 1
  BY FS_RemoveElement, FS_CardinalityType

\* The sums over the subsets exist: first over those of up to n elements.
LEMMA SumsExist ==
  ASSUME NEW m, NEW T, IsFiniteSet(T)
  PROVE  \E it : Sums(m, T, it)
<1> DEFINE Sub(n) == {s \in SUBSET T : Cardinality(s) <= n}
           Next1(it, s) == IF s = {} THEN 0 ELSE m[Pick(s)].size + it[s \ {Pick(s)}]
           Has(n) == \E it : it = [s \in Sub(n) |-> Next1(it, s)]
           Bad == {n \in Nat : ~Has(n)}
<1>1. \A s \in SUBSET T : IsFiniteSet(s) /\ Cardinality(s) \in Nat
  BY FS_Subset, FS_CardinalityType
<1>2. Has(0)
  <2> DEFINE it == [s \in Sub(0) |-> 0]
  <2>1. \A s \in Sub(0) : s = {}
    BY <1>1, FS_EmptySet
  <2>2. it = [s \in Sub(0) |-> Next1(it, s)]
    BY <2>1
  <2> QED BY <2>2
<1>3. ASSUME NEW n \in Nat, Has(n) PROVE Has(n + 1)
  <2>1. PICK old : old = [s \in Sub(n) |-> Next1(old, s)]
    BY <1>3
  <2> DEFINE it == [s \in Sub(n + 1) |-> Next1(old, s)]
  <2>2. ASSUME NEW s \in Sub(n + 1), s # {} PROVE s \ {Pick(s)} \in Sub(n)
    <3>1. Pick(s) \in s /\ s \in SUBSET T
      BY <2>2, PickIn
    <3>2. Cardinality(s \ {Pick(s)}) = Cardinality(s) - 1 /\ Cardinality(s) \in Nat
      BY <1>1, <3>1, Smaller
    <3> QED BY <2>2, <3>1, <3>2
  <2>3. Sub(n) \subseteq Sub(n + 1)
    BY <1>1
  <2>4. ASSUME NEW r \in Sub(n) PROVE it[r] = old[r]
    <3> HIDE DEF Next1
    <3>1. old[r] = Next1(old, r)
      BY <2>1
    <3> QED BY <2>3, <3>1
  <2>5. \A s \in Sub(n + 1) : Next1(old, s) = Next1(it, s)
    <3> HIDE DEF it, Sub
    <3> QED BY <2>2, <2>4
  <2>6. it = [s \in Sub(n + 1) |-> Next1(it, s)]
    <3> HIDE DEF Next1, Sub
    <3> QED BY <2>5
  <2> QED BY <2>6
<1>4. \A n \in Nat : Has(n)
  <2> HIDE DEF Has
  <2> SUFFICES ASSUME Bad # {} PROVE FALSE
    OBVIOUS
  <2>1. PICK n \in Bad : \A y \in Bad : n <= y
    <3>1. Bad \subseteq Nat
      OBVIOUS
    <3> HIDE DEF Bad
    <3> QED BY <3>1, Least
  <2>2. n \in Nat /\ n # 0 /\ n - 1 \in Nat /\ n - 1 \notin Bad
    BY <1>2, <2>1
  <2>3. Has(n - 1) /\ (n - 1) + 1 = n
    BY <2>2
  <2> QED BY <1>3, <2>1, <2>2, <2>3
<1>5. Cardinality(T) \in Nat /\ Sub(Cardinality(T)) = SUBSET T
  BY <1>1, FS_Subset, FS_CardinalityType
<1>6. Has(Cardinality(T))
  <2> HIDE DEF Has
  <2> QED BY <1>4, <1>5
<1> QED BY <1>5, <1>6 DEF Sums

Sized(m, T) == \A b \in T : m[b].size \in Int

\* The order in which the fold takes the elements does not matter.
LEMMA SumsSplit ==
  ASSUME NEW m, NEW T, IsFiniteSet(T), Sized(m, T), NEW it, Sums(m, T, it)
  PROVE  \A s \in SUBSET T : it[s] \in Int /\ \A x \in s : it[s] = m[x].size + it[s \ {x}]
<1> DEFINE Good(s) == it[s] \in Int /\ \A x \in s : it[s] = m[x].size + it[s \ {x}]
           Bad == {n \in Nat : \E s \in SUBSET T : Cardinality(s) = n /\ ~Good(s)}
<1>1. \A s \in SUBSET T : IsFiniteSet(s) /\ Cardinality(s) \in Nat
  BY FS_Subset, FS_CardinalityType
<1>2. \A s \in SUBSET T : it[s] = IF s = {} THEN 0 ELSE m[Pick(s)].size + it[s \ {Pick(s)}]
  BY DEF Sums
<1>3. \A b \in T : m[b].size \in Int
  BY DEF Sized
<1>4. ASSUME NEW s \in SUBSET T, \A r \in SUBSET T : Cardinality(r) < Cardinality(s) => Good(r)
      PROVE  Good(s)
  <2>1. CASE s = {}
    <3>1. it[s] = 0
      BY <1>2, <2>1
    <3> QED BY <2>1, <3>1
  <2>2. CASE s # {}
    <3>1. PICK c : c = Pick(s)
      OBVIOUS
    <3>2. c \in s /\ c \in T /\ it[s] = m[c].size + it[s \ {c}]
      BY <1>2, <2>2, <3>1, PickIn
    <3>3. \A x \in s : s \ {x} \in SUBSET T /\ Good(s \ {x})
      <4> SUFFICES ASSUME NEW x \in s PROVE s \ {x} \in SUBSET T /\ Good(s \ {x})
        OBVIOUS
      <4>1. s \ {x} \in SUBSET T /\ Cardinality(s \ {x}) < Cardinality(s)
        BY <1>1, Smaller
      <4> HIDE DEF Good
      <4> QED BY <1>4, <4>1
    <3>4. it[s] \in Int
      BY <1>3, <3>2, <3>3
    <3>5. ASSUME NEW x \in s PROVE it[s] = m[x].size + it[s \ {x}]
      <4>1. CASE x = c
        BY <3>2, <4>1
      <4>2. CASE x # c
        <5>1. x \in s \ {c} /\ c \in s \ {x} /\ (s \ {c}) \ {x} = (s \ {x}) \ {c}
          BY <3>2, <4>2
        <5>2. it[s \ {c}] = m[x].size + it[(s \ {x}) \ {c}]
          BY <3>2, <3>3, <5>1
        <5>3. it[s \ {x}] = m[c].size + it[(s \ {x}) \ {c}]
          BY <3>3, <5>1
        <5>4. it[(s \ {x}) \ {c}] \in Int
          <6>1. (s \ {x}) \ {c} \in SUBSET T /\ Cardinality((s \ {x}) \ {c}) < Cardinality(s)
            <7>1. PICK r : r = s \ {x}
              OBVIOUS
            <7>2. /\ Cardinality(r) = Cardinality(s) - 1 /\ IsFiniteSet(r)
                  /\ Cardinality(s) \in Nat /\ Cardinality(r) \in Nat
              BY <1>1, <7>1, Smaller
            <7>3. c \in r
              BY <5>1, <7>1
            <7>4. Cardinality(r \ {c}) = Cardinality(r) - 1
              BY <7>2, <7>3, Smaller
            <7> QED BY <7>1, <7>2, <7>4
          <6> QED BY <1>4, <6>1
        <5>5. m[x].size \in Int /\ m[c].size \in Int
          BY <1>3, <3>2
        <5> QED BY <3>2, <5>2, <5>3, <5>4, <5>5
      <4> QED BY <4>1, <4>2
    <3> QED BY <3>4, <3>5
  <2> QED BY <2>1, <2>2
<1> HIDE DEF Good
<1>5. Bad = {}
  <2> SUFFICES ASSUME Bad # {} PROVE FALSE
    OBVIOUS
  <2>1. PICK n \in Bad : \A y \in Bad : n <= y
    <3>1. Bad \subseteq Nat
      OBVIOUS
    <3> HIDE DEF Bad
    <3> QED BY <3>1, Least
  <2>2. PICK s \in SUBSET T : Cardinality(s) = n /\ ~Good(s)
    OBVIOUS
  <2>3. ASSUME NEW r \in SUBSET T, Cardinality(r) < Cardinality(s) PROVE Good(r)
    <3>1. Cardinality(r) \in Nat /\ n \in Nat
      BY <1>1
    <3> QED BY <2>1, <2>2, <2>3, <3>1
  <2> QED BY <1>4, <2>2, <2>3
<1>6. \A s \in SUBSET T : Good(s)
  BY <1>1, <1>5
<1> QED BY <1>6 DEF Good

\* Sums over the same set are the same whatever larger set and memory they come
\* from, if sizes agree.
LEMMA SumsAgree ==
  ASSUME NEW m, NEW n, NEW S, NEW T, IsFiniteSet(S), IsFiniteSet(T),
         NEW f, NEW g, Sums(m, S, f), Sums(n, T, g),
         \A b \in S \cap T : m[b].size = n[b].size
  PROVE  \A s \in SUBSET (S \cap T) : f[s] = g[s]
<1> DEFINE Bad == {k \in Nat : \E s \in SUBSET (S \cap T) : Cardinality(s) = k /\ f[s] # g[s]}
<1>1. \A s \in SUBSET (S \cap T) : IsFiniteSet(s) /\ Cardinality(s) \in Nat
  BY FS_Subset, FS_CardinalityType
<1>2. \A s \in SUBSET (S \cap T) :
        /\ f[s] = IF s = {} THEN 0 ELSE m[Pick(s)].size + f[s \ {Pick(s)}]
        /\ g[s] = IF s = {} THEN 0 ELSE n[Pick(s)].size + g[s \ {Pick(s)}]
  BY DEF Sums
<1>3. Bad = {}
  <2> SUFFICES ASSUME Bad # {} PROVE FALSE
    OBVIOUS
  <2>1. PICK k \in Bad : \A y \in Bad : k <= y
    <3>1. Bad \subseteq Nat
      OBVIOUS
    <3> HIDE DEF Bad
    <3> QED BY <3>1, Least
  <2>2. PICK s \in SUBSET (S \cap T) : Cardinality(s) = k /\ f[s] # g[s]
    OBVIOUS
  <2>3. s # {}
    BY <1>2, <2>2
  <2>4. Pick(s) \in s /\ s \ {Pick(s)} \in SUBSET (S \cap T)
    BY <2>3, PickIn
  <2>5. Cardinality(s \ {Pick(s)}) = k - 1 /\ Cardinality(s \ {Pick(s)}) \in Nat /\ k \in Nat
    BY <1>1, <2>2, <2>4, Smaller
  <2>6. f[s \ {Pick(s)}] = g[s \ {Pick(s)}]
    <3>1. k - 1 \notin Bad /\ k - 1 \in Nat
      BY <2>1, <2>5
    <3> QED BY <2>4, <2>5, <3>1
  <2> QED BY <1>2, <2>2, <2>3, <2>4, <2>6
<1> QED BY <1>1, <1>3

\* Taking one block out of a sum, and sums over memories that agree.
LEMMA SumSplit ==
  ASSUME NEW m, NEW T, IsFiniteSet(T), Sized(m, T), NEW x \in T
  PROVE  SumOf(m, T) = m[x].size + SumOf(m, T \ {x}) /\ SumOf(m, T \ {x}) \in Int
<1>1. IsFiniteSet(T \ {x})
  BY Smaller
<1>2. PICK f : f = (CHOOSE it : Sums(m, T, it))
  OBVIOUS
<1>3. PICK g : g = (CHOOSE it : Sums(m, T \ {x}, it))
  OBVIOUS
<1>4. Sums(m, T, f) /\ Sums(m, T \ {x}, g)
  <2>1. \E it : Sums(m, T, it)
    BY SumsExist
  <2>2. \E it : Sums(m, T \ {x}, it)
    BY <1>1, SumsExist
  <2> QED BY <1>2, <1>3, <2>1, <2>2
<1>5. f[T] = m[x].size + f[T \ {x}] /\ f[T \ {x}] \in Int
  <2>1. \A s \in SUBSET T : f[s] \in Int /\ \A y \in s : f[s] = m[y].size + f[s \ {y}]
    BY <1>4, SumsSplit
  <2>2. T \in SUBSET T /\ T \ {x} \in SUBSET T
    OBVIOUS
  <2> QED BY <2>1, <2>2
<1>6. f[T \ {x}] = g[T \ {x}]
  <2>1. PICK S, n : S = T \ {x} /\ n = m
    OBVIOUS
  <2>2. Sums(m, T, f) /\ Sums(n, S, g) /\ IsFiniteSet(S)
    BY <1>1, <1>4, <2>1
  <2>3. \A b \in T \cap S : m[b].size = n[b].size
    BY <2>1
  <2>4. \A s \in SUBSET (T \cap S) : f[s] = g[s]
    BY <2>2, <2>3, SumsAgree
  <2> QED BY <2>1, <2>4
<1> QED BY <1>2, <1>3, <1>5, <1>6, SumOfIs

LEMMA SumAgrees ==
  ASSUME NEW m, NEW n, NEW T, IsFiniteSet(T), \A b \in T : m[b].size = n[b].size
  PROVE  SumOf(m, T) = SumOf(n, T)
<1>1. PICK f : f = (CHOOSE it : Sums(m, T, it))
  OBVIOUS
<1>2. PICK g : g = (CHOOSE it : Sums(n, T, it))
  OBVIOUS
<1>3. Sums(m, T, f) /\ Sums(n, T, g)
  <2>1. (\E it : Sums(m, T, it)) /\ (\E it : Sums(n, T, it))
    BY SumsExist
  <2> QED BY <1>1, <1>2, <2>1
<1>4. \A s \in SUBSET (T \cap T) : f[s] = g[s]
  BY <1>3, SumsAgree
<1> QED BY <1>1, <1>2, <1>4, SumOfIs

LEMMA SumEmpty == ASSUME NEW m PROVE SumOf(m, {}) = 0
<1>1. PICK f : f = (CHOOSE it : Sums(m, {}, it))
  OBVIOUS
<1>2. Sums(m, {}, f)
  <2>1. \E it : Sums(m, {}, it)
    BY SumsExist, FS_EmptySet
  <2> QED BY <1>1, <2>1
<1>3. f[{}] = 0
  BY <1>2 DEF Sums
<1> QED BY <1>1, <1>3, SumOfIs

----------------------------------------------------------------------------
(* Arithmetic of requests.                                                 *)

LEMMA Division ==
  ASSUME NEW x \in Nat, NEW d \in Nat \ {0}
  PROVE  /\ x \div d \in Nat
         /\ d * (x \div d) <= x
         /\ x < d * (x \div d) + d
  OBVIOUS

\* A product of naturals grows with its factors.
LEMMA Product ==
  ASSUME NEW d \in Nat \ {0}, NEW x \in Nat, NEW y \in Nat
  PROVE  /\ d * x < d * y + d => x <= y
         /\ d * x \in Nat
  OBVIOUS

LEMMA RoundedIs ==
  ASSUME NEW bytes \in Nat
  PROVE  /\ Rounded(bytes) \in Nat
         /\ \A s \in Nat : s * UnitBytes >= bytes => Rounded(bytes) <= s
         /\ \A s \in Nat : s * UnitBytes < bytes => s + 1 <= Rounded(bytes)
<1> DEFINE d == UnitBytes
           q == Rounded(bytes)
<1>1. d \in Nat \ {0}
  BY HeapAssumption
<1>2. q \in Nat /\ d * q <= bytes + d - 1 /\ bytes + d - 1 < d * q + d
  <2>1. bytes + d - 1 \in Nat
    BY <1>1
  <2>2. q = (bytes + d - 1) \div d
    BY DEF Rounded
  <2> HIDE DEF d, q
  <2> QED BY <1>1, <2>1, <2>2, Division
<1> HIDE DEF d, q
<1>3. ASSUME NEW s \in Nat, s * d >= bytes PROVE q <= s
  <2>1. d * s = s * d /\ d * s \in Nat /\ d * q \in Nat
    BY <1>1, <1>2
  <2>2. d * q < d * s + d
    BY <1>1, <1>2, <1>3, <2>1
  <2> QED BY <1>1, <1>2, <2>2, Product
<1>4. ASSUME NEW s \in Nat, s * d < bytes PROVE s + 1 <= q
  <2>1. d * (s + 1) = s * d + d /\ d * s = s * d /\ d * s \in Nat /\ d * q \in Nat
    BY <1>1, <1>2
  <2>2. d * (s + 1) < d * q + d
    BY <1>1, <1>2, <1>4, <2>1
  <2> QED BY <1>1, <1>2, <2>2, Product
<1> QED BY <1>2, <1>3, <1>4 DEF d, q

LEMMA AtLeastOne ==
  ASSUME NEW bytes \in Nat \ {0}
  PROVE  Rounded(bytes) \in Nat /\ 1 <= Rounded(bytes)
<1>1. 0 * UnitBytes < bytes
  BY HeapAssumption
<1>2. Rounded(bytes) \in Nat /\ 0 + 1 <= Rounded(bytes)
  BY <1>1, RoundedIs
<1> QED BY <1>2

\* kmalloc_aligned asks for enough to move the pointer up to its alignment.
LEMMA RoundedAligned ==
  ASSUME NEW bytes \in Nat, NEW align \in Nat
  PROVE  Rounded(bytes) + align <= Rounded(bytes + align * UnitBytes + UnitBytes \div 2)
<1> DEFINE d == UnitBytes
           h == d \div 2
           big == bytes + align * d + h
           q == Rounded(bytes)
           r == Rounded(big)
<1>1. d \in Nat \ {0} /\ h \in Nat
  BY HeapAssumption
<1>2. align * d \in Nat /\ big \in Nat
  BY <1>1
<1>3. /\ q = (bytes + d - 1) \div d /\ bytes + d - 1 \in Nat
      /\ r = (big + d - 1) \div d /\ big + d - 1 \in Nat
  BY <1>1, <1>2 DEF Rounded
<1>4. /\ q \in Nat /\ d * q <= bytes + d - 1
      /\ r \in Nat /\ big + d - 1 < d * r + d
  <2> HIDE DEF d, h, big, q, r
  <2> QED BY <1>1, <1>3, Division
<1>5. d * (q + align) = d * q + align * d /\ d * q \in Nat /\ d * r \in Nat
  <2> HIDE DEF d, h, big, q, r
  <2> QED BY <1>1, <1>4
<1>6. big = bytes + align * d + h
  OBVIOUS
<1>7. d * (q + align) < d * r + d
  <2> HIDE DEF d, h, big, q, r
  <2> QED BY <1>1, <1>2, <1>4, <1>5, <1>6
<1>8. q + align \in Nat
  BY <1>4
<1>9. q + align <= r
  <2> HIDE DEF d, h, big, q, r
  <2> QED BY <1>1, <1>4, <1>7, <1>8, Product
<1> QED BY <1>9

LEMMA AlignedUpIs ==
  ASSUME NEW raw \in Nat, req.align \in Nat \ {0}
  PROVE  AlignedUp(raw) \in Nat /\ raw < AlignedUp(raw) /\ AlignedUp(raw) <= raw + req.align
<1> DEFINE d == req.align
           q == raw \div d
<1>1. q \in Nat /\ d * q <= raw /\ raw < d * q + d
  <2> HIDE DEF d
  <2> QED BY Division DEF d
<1>2. (q + 1) * d = d * q + d
  <2> HIDE DEF q
  <2> QED BY <1>1
<1>3. d * q \in Nat
  <2> HIDE DEF q
  <2> QED BY <1>1
<1> QED BY <1>1, <1>2, <1>3 DEF AlignedUp

LEMMA MinOf ==
  ASSUME NEW x \in Nat, NEW y \in Nat
  PROVE  Min({x, y}) \in Nat /\ Min({x, y}) <= x /\ Min({x, y}) <= y
<1>1. \E z \in {x, y} : \A w \in {x, y} : z <= w
  BY x <= y \/ y <= x
<1> QED BY <1>1 DEF Min

----------------------------------------------------------------------------
(* Blocks and holdings.                                                    *)

LEMMA AddrIs == Units \in Nat /\ \A u : u \in Addr <=> u \in Nat /\ u < Units
  BY HeapAssumption DEF Addr

LEMMA BlockIs ==
  ASSUME TypeOK, Tiling, NEW b \in chain
  PROVE  /\ b \in Nat /\ b \in Addr /\ b + 1 \in Addr
         /\ Size(b) \in Nat /\ NextOf(b) \in Addr \cup {NULL}
         /\ Last(b) \in Nat /\ Last(b) = b + 2 + Size(b) /\ Last(b) <= Units
         /\ mem[b].kind = "link" /\ mem[b + 1].kind = "tag"
         /\ Free(b) = mem[b + 1].free /\ Free(b) \in BOOLEAN
         /\ NextOf(b) = IF Last(b) = Units THEN NULL ELSE Last(b)
         /\ NextOf(b) # NULL => NextOf(b) \in chain
<1>1. /\ b \in Addr /\ mem[b] \in Cell /\ mem[b].kind = "link" /\ HasMagic(b)
      /\ Last(b) <= Units
      /\ NextOf(b) = IF Last(b) = Units THEN NULL ELSE Last(b)
      /\ NextOf(b) # NULL => NextOf(b) \in chain
  BY DEF TypeOK, Tiling
<1>2. b \in Nat /\ Units \in Nat
  BY <1>1, HeapAssumption DEF Addr
<1>3. Size(b) \in Nat /\ NextOf(b) \in Addr \cup {NULL}
  BY <1>1, HeapAssumption DEF Cell, Size, NextOf
<1>4. Last(b) = b + 2 + Size(b)
  BY DEF Last, HEADER
<1>5. b + 1 \in Addr
  BY <1>1, <1>2, <1>3, <1>4 DEF Addr
<1>6. mem[b + 1] \in Cell /\ mem[b + 1].kind = "tag"
  BY <1>1, <1>5 DEF TypeOK, HasMagic
<1>7. mem[b + 1].free \in BOOLEAN
  BY <1>6 DEF Cell
<1>8. Free(b) = mem[b + 1].free
  BY <1>6, <1>7 DEF Free
<1> QED BY <1>1, <1>2, <1>3, <1>4, <1>5, <1>6, <1>7, <1>8

\* Two blocks of the list do not overlap.
LEMMA Apart ==
  ASSUME TypeOK, Tiling, NEW b \in chain, NEW c \in chain, b # c
  PROVE  Last(b) <= c \/ Last(c) <= b
<1>1. b < c \/ c < b
  BY BlockIs
<1> QED BY <1>1 DEF Tiling

\* The block after b, if there is one, is the next in address order.
LEMMA NextIsNext ==
  ASSUME TypeOK, Tiling, NEW b \in chain, NEW c \in chain
  PROVE  /\ NextOf(b) = NULL => c <= b
         /\ NextOf(b) # NULL => b < NextOf(b) /\ (c < NextOf(b) => c <= b)
<1>1. /\ b \in Nat /\ c \in Nat /\ Last(b) \in Nat /\ b < Last(b) /\ c < Units
      /\ NextOf(b) = IF Last(b) = Units THEN NULL ELSE Last(b)
  BY BlockIs, HeapAssumption DEF Addr
<1>2. b < c => Last(b) <= c
  BY DEF Tiling
<1> QED BY <1>1, <1>2, HeapAssumption DEF NULL

LEMMA HoldingIs ==
  ASSUME TypeOK, Tiling, Owned, Arguments, NEW p \in DOMAIN live
  PROVE  /\ p \in Nat /\ p \in Addr /\ live[p] \in Holding
         /\ live[p].raw \in chain /\ ~Free(live[p].raw)
         /\ live[p].raw + 2 <= p
         /\ live[p].units \in Nat /\ live[p].len \in Nat /\ live[p].len <= live[p].units
         /\ p + live[p].units <= Last(live[p].raw)
<1>1. p \in Addr /\ live[p] \in Holding
  BY DEF TypeOK
<1>2. p \in Nat /\ live[p].units \in Nat /\ live[p].len \in Nat
  BY <1>1 DEF Addr, Holding
<1> QED BY <1>1, <1>2 DEF Owned, Arguments, HEADER

\* A list whose headers are as before, apart from the free bytes.
LEMMA HeadersKept ==
  ASSUME TypeOK, Tiling, chain' = chain,
         \A b \in chain : mem'[b] = mem[b] /\ mem'[b + 1].kind = "tag"
  PROVE  /\ Tiling'
         /\ \A b \in chain : /\ Size(b)' = Size(b) /\ NextOf(b)' = NextOf(b)
                             /\ Last(b)' = Last(b)
<1>1. \A b \in chain : Size(b)' = Size(b) /\ NextOf(b)' = NextOf(b) /\ Last(b)' = Last(b)
  BY DEF Size, NextOf, Last
<1>2. \A b \in chain : mem'[b].kind = "link" /\ HasMagic(b)'
  BY DEF Tiling, HasMagic
<1> QED BY <1>1, <1>2 DEF Tiling

\* What no call has touched.
LEMMA SameHeap ==
  ASSUME IInv, UNCHANGED <<mem, chain, live, freed>>
  PROVE  /\ Tiling' /\ Owned' /\ Intact' /\ Tags' /\ Freeable'
         /\ \A p \in DOMAIN live : live'[p].len <= live'[p].units
         /\ \A b \in chain : Free(b)' = Free(b) /\ Both(b)' = Both(b)
  BY DEF IInv, Tiling, Owned, Intact, Tags, Freeable, Arguments, Both, Free, HasMagic, Size,
         NextOf, Last

----------------------------------------------------------------------------
(* The calls.                                                              *)

LEMMA InitInv == Init => IInv
<1> SUFFICES ASSUME Init PROVE IInv
  OBVIOUS
<1> USE HeapAssumption
<1>1. 0 \in Addr /\ 1 \in Addr /\ 0 # 1 /\ Units - 2 \in 0 .. Units
  BY DEF Addr
<1>2. /\ mem[0] = Link(Units - 2, NULL) /\ mem[1] = Tag(TRUE)
      /\ \A u \in Addr : u # 0 /\ u # 1 => mem[u] = Data(Junk)
  BY <1>1 DEF Init, heap_head, HEADER
<1>3. /\ Link(Units - 2, NULL) \in Cell /\ Tag(TRUE) \in Cell /\ Data(Junk) \in Cell
  BY <1>1 DEF Link, Tag, Data, Cell
<1>4. TypeOK
  <2>1. mem \in [Addr -> Cell]
    <3>1. \A u \in Addr : mem[u] \in Cell
      BY <1>2, <1>3
    <3> DEFINE cell(u) == CASE u = heap_head -> Link(Units - HEADER, NULL)
                            [] u = heap_head + 1 -> Tag(TRUE)
                            [] OTHER -> Data(Junk)
    <3>2. mem = [u \in Addr |-> cell(u)]
      BY DEF Init
    <3> HIDE DEF cell
    <3> QED BY <3>1, <3>2
  <2>2. live \in [DOMAIN live -> Holding] /\ DOMAIN live = {}
    BY DEF Init
  <2>3. NoCall \in Req
    BY DEF NoCall, Req
  <2>4. heap_used = 0 /\ chain = {0} /\ freed = {} /\ pc = "idle" /\ at = NULL /\ req = NoCall
    BY DEF Init, heap_head
  <2> QED BY <1>1, <2>1, <2>2, <2>3, <2>4 DEF TypeOK
<1>5. Size(0) = Units - 2 /\ NextOf(0) = NULL /\ Free(0) /\ HasMagic(0)
  BY <1>2 DEF Size, NextOf, Free, HasMagic, Link, Tag
<1>6. Tiling
  BY <1>2, <1>5 DEF Init, Tiling, heap_head, Last, HEADER, Link
<1>7. DOMAIN live = {} /\ chain = {0} /\ pc = "idle" /\ freed = {}
  BY DEF Init, heap_head
<1>8. Owned /\ Intact /\ Arguments /\ Position /\ PanicJustified /\ Freeable
  BY <1>5, <1>7 DEF Owned, Intact, Arguments, Position, PanicJustified, Freeable
<1>9. Spaced /\ Holders
  BY <1>5, <1>7 DEF Spaced, Both, Holders
<1>10. Tags
  BY <1>2, <1>7 DEF Tags, Link, Tag, Data
<1> QED BY <1>4, <1>6, <1>8, <1>9, <1>10 DEF IInv

LEMMA CallInv ==
  ASSUME IInv, NEW kind \in {"malloc", "calloc", "aligned", "realloc"},
         NEW units \in Nat, NEW use \in Nat, NEW old \in Addr \cup {NULL}, NEW align \in Nat \ {0},
         Call(kind, units, use, old, align),
         1 <= use, use <= units,
         kind = "aligned" => use + align <= units,
         kind = "realloc" => old \in DOMAIN live /\ Own(old) /\ Size(old - HEADER) <= use
  PROVE  IInv'
<1>1. /\ pc = "idle" /\ pc' = "search" /\ at' = 0
      /\ req' = [kind |-> kind, units |-> units, use |-> use, old |-> old, align |-> align]
      /\ UNCHANGED <<mem, heap_used, chain, live, freed>>
  BY DEF Call, heap_head
<1>2. 0 \in chain /\ 0 \in Addr
  BY DEF IInv, TypeOK, Tiling, heap_head
<1>3. TypeOK'
  <2>1. req' \in Req
    BY <1>1 DEF Req
  <2> QED BY <1>1, <1>2, <2>1 DEF IInv, TypeOK
<1>4. /\ Tiling' /\ Owned' /\ Intact' /\ Tags' /\ Freeable'
      /\ \A p \in DOMAIN live : live'[p].len <= live'[p].units
      /\ \A b \in chain : Free(b)' = Free(b) /\ Both(b)' = Both(b)
  BY <1>1, SameHeap
<1>5. Arguments'
  BY <1>1, <1>4 DEF Arguments, Own, Size
<1>6. Position'
  <2>1. \A b \in chain : ~(b < 0)
    BY BlockIs DEF IInv
  <2> QED BY <1>1, <1>2, <2>1 DEF Position
<1>7. Spaced' /\ Holders'
  BY <1>1, <1>4 DEF IInv, Spaced, Holders
<1>8. PanicJustified'
  BY <1>1 DEF PanicJustified
<1> QED BY <1>3, <1>4, <1>5, <1>6, <1>7, <1>8 DEF IInv

LEMMA RequestsInv ==
  ASSUME IInv, NEW bytes \in Requests,
         \/ kmalloc(bytes)
         \/ \E count \in {1, 2} : kcalloc(count, bytes)
         \/ \E align \in Aligns : kmalloc_aligned(bytes, align)
         \/ \E p \in DOMAIN live : Own(p) /\ ReallocMoves(p, bytes)
  PROVE  IInv'
<1>1. /\ bytes \in Nat /\ Rounded(bytes) \in Nat /\ 1 <= Rounded(bytes)
      /\ NULL \in Addr \cup {NULL} /\ 1 \in Nat \ {0}
  BY HeapAssumption, AtLeastOne
<1>2. CASE kmalloc(bytes)
  BY <1>1, <1>2, CallInv DEF kmalloc
<1>3. ASSUME NEW count \in {1, 2}, kcalloc(count, bytes) PROVE IInv'
  <2>1. count * bytes \in Nat \ {0}
    BY HeapAssumption
  <2>2. Rounded(count * bytes) \in Nat /\ 1 <= Rounded(count * bytes)
    BY <2>1, AtLeastOne
  <2> QED BY <1>1, <1>3, <2>2, CallInv DEF kcalloc
<1>4. ASSUME NEW align \in Aligns, kmalloc_aligned(bytes, align) PROVE IInv'
  <2> DEFINE all == bytes + align * UnitBytes + UnitBytes \div 2
  <2>1. align \in Nat \ {0} /\ UnitBytes \in Nat /\ align * UnitBytes \in Nat
        /\ UnitBytes \div 2 \in Nat
    BY HeapAssumption
  <2>2. all \in Nat
    BY <1>1, <2>1
  <2>3. Rounded(all) \in Nat
    BY <2>2, RoundedIs
  <2>4. Rounded(bytes) + align <= Rounded(all)
    BY <1>1, <2>1, RoundedAligned
  <2>5. Call("aligned", Rounded(all), Rounded(bytes), NULL, align)
    BY <1>4 DEF kmalloc_aligned
  <2> HIDE DEF all
  <2>6. Rounded(bytes) <= Rounded(all)
    BY <1>1, <2>1, <2>3, <2>4
  <2> QED BY <1>1, <2>1, <2>3, <2>4, <2>5, <2>6, CallInv
<1>5. ASSUME NEW p \in DOMAIN live, Own(p), ReallocMoves(p, bytes) PROVE IInv'
  <2>1. /\ Size(p - HEADER) * UnitBytes < bytes
        /\ Call("realloc", Rounded(bytes), Rounded(bytes), p, 1)
    BY <1>5 DEF ReallocMoves
  <2>2. p \in Addr /\ p - HEADER = live[p].raw /\ live[p].raw \in chain
    <3>1. p \in Addr /\ live[p].raw \in chain /\ p = live[p].raw + HEADER
      BY <1>5, HoldingIs DEF IInv, Own
    <3>2. live[p].raw \in Nat
      BY <3>1, BlockIs DEF IInv
    <3> QED BY <3>1, <3>2 DEF HEADER
  <2>3. Size(p - HEADER) \in Nat
    BY <2>2, BlockIs DEF IInv
  <2>4. Size(p - HEADER) <= Rounded(bytes)
    <3> DEFINE s == Size(p - HEADER)
    <3> HIDE DEF s
    <3>1. s \in Nat /\ s * UnitBytes < bytes
      BY <2>1, <2>3 DEF s
    <3>2. s + 1 <= Rounded(bytes)
      BY <1>1, <3>1, RoundedIs
    <3>3. s <= Rounded(bytes)
      BY <1>1, <3>1, <3>2
    <3> QED BY <3>3 DEF s
  <2> QED BY <1>1, <1>5, <2>1, <2>2, <2>4, CallInv
<1> QED BY <1>2, <1>3, <1>4, <1>5

\* krealloc finds room in the block: the holding grows or shrinks in place.
LEMMA ReallocInPlaceInv ==
  ASSUME IInv, NEW p \in DOMAIN live, NEW bytes \in Requests, Own(p), ReallocInPlace(p, bytes)
  PROVE  IInv'
<1> DEFINE n == Rounded(bytes)
           k == Min({live[p].len, n})
           b == live[p].raw
<1>1. /\ live[p] \in Holding /\ b \in chain /\ p \in Nat /\ p = b + 2 /\ b \in Nat
      /\ live[p].len \in Nat
  BY HoldingIs, BlockIs DEF IInv, Own, HEADER
<1>2. n \in Nat /\ n <= Size(b)
  <2>1. p - HEADER = b /\ Size(b) \in Nat
    BY <1>1, BlockIs DEF IInv, HEADER
  <2>2. bytes \in Nat /\ Size(b) * UnitBytes >= bytes
    BY <2>1, HeapAssumption DEF ReallocInPlace
  <2> HIDE DEF b
  <2> QED BY <2>1, <2>2, RoundedIs
<1>3. k \in Nat /\ k <= live[p].len /\ k <= n
  <2> HIDE DEF n
  <2> QED BY <1>1, <1>2, MinOf
<1>4. /\ pc = "idle" /\ UNCHANGED <<mem, heap_used, chain, pc, at, req, freed>>
      /\ live' = [live EXCEPT ![p] = [live[p] EXCEPT !.units = n, !.len = k]]
  BY DEF ReallocInPlace
<1> DEFINE g == [live[p] EXCEPT !.units = n, !.len = k]
<1>5. /\ g \in Holding
      /\ g.raw = b /\ g.units = n /\ g.stamp = live[p].stamp /\ g.len = k
  <2> DEFINE h == live[p]
  <2>0. n \in Nat /\ k \in Nat
    BY <1>2, <1>3
  <2>1. g = [h EXCEPT !.units = n, !.len = k] /\ h \in Holding
    BY <1>1
  <2> HIDE DEF n, k, g, h
  <2>2. /\ g \in Holding
        /\ g.raw = h.raw /\ g.units = n /\ g.stamp = h.stamp /\ g.len = k
    BY <2>0, <2>1 DEF Holding
  <2> QED BY <2>2 DEF h
<1> HIDE DEF n, k, g
<1>6. /\ DOMAIN live' = DOMAIN live
      /\ live'[p].raw = b /\ live'[p].units = n /\ live'[p].len = k /\ live'[p].stamp = live[p].stamp
      /\ live'[p] \in Holding
      /\ \A q \in DOMAIN live : q # p => live'[q] = live[q]
  <2>1. live' = [live EXCEPT ![p] = g]
    BY <1>4 DEF g
  <2> QED BY <1>5, <2>1 DEF IInv, TypeOK
<1>7. TypeOK'
  <2>1. \A q \in DOMAIN live : live'[q] \in Holding
    BY <1>6 DEF IInv, TypeOK
  <2>2. live' \in [DOMAIN live -> Holding]
    BY <1>4, <2>1 DEF IInv, TypeOK
  <2> QED BY <1>4, <1>6, <2>2 DEF IInv, TypeOK
<1>8. Tiling' /\ Spaced' /\ Position' /\ PanicJustified' /\ Freeable'
  BY <1>4 DEF IInv, Tiling, Spaced, Position, PanicJustified, Freeable, Both, Free, HasMagic, Size,
              NextOf, Last
<1>9. Owned'
  <2>1. \A q \in DOMAIN live : live'[q].raw = live[q].raw
    BY <1>6
  <2>2. \A c \in chain : Free(c)' = Free(c) /\ Last(c)' = Last(c)
    BY <1>4 DEF Free, Last, Size
  <2>3. ASSUME NEW q \in DOMAIN live
        PROVE  q + live'[q].units <= Last(live[q].raw)
    <3>1. CASE q = p
      <4>1. Last(b) = b + 2 + Size(b) /\ Size(b) \in Nat
        BY <1>1, BlockIs DEF IInv
      <4> QED BY <1>1, <1>2, <1>6, <3>1, <4>1
    <3>2. CASE q # p
      BY <1>6, <3>2 DEF IInv, Owned
    <3> QED BY <3>1, <3>2
  <2>4. ASSUME NEW q \in DOMAIN live
        PROVE  /\ live[q].raw \in chain /\ ~Free(live[q].raw) /\ q >= live[q].raw + HEADER
               /\ \A r \in DOMAIN live : live[q].raw = live[r].raw => q = r
    BY DEF IInv, Owned
  <2> QED BY <1>4, <1>6, <2>1, <2>2, <2>3, <2>4 DEF Owned
<1>10. Intact'
  <2>1. ASSUME NEW q \in DOMAIN live, NEW u \in q .. q + live'[q].len - 1
        PROVE  mem'[u] = Data(live'[q].stamp)
    <3>1. live'[q].stamp = live[q].stamp
      BY <1>6
    <3>2. u \in q .. q + live[q].len - 1
      <4>1. CASE q = p
        BY <1>1, <1>3, <1>6, <2>1, <4>1
      <4>2. CASE q # p
        BY <1>6, <2>1, <4>2
      <4> QED BY <4>1, <4>2
    <3> QED BY <1>4, <3>1, <3>2 DEF IInv, Intact
  <2> QED BY <1>6, <2>1 DEF Intact
<1>11. Arguments'
  BY <1>3, <1>4, <1>6 DEF IInv, Arguments
<1>12. Holders' /\ Tags'
  BY <1>4, <1>6 DEF IInv, Holders, Tags, Free
<1> QED BY <1>7, <1>8, <1>9, <1>10, <1>11, <1>12 DEF IInv

----------------------------------------------------------------------------
(* The walks that only look.                                               *)

LEMMA LooksInv ==
  ASSUME IInv, Visit \/ SearchFails \/ Advance \/ Coalesced PROVE IInv'
<1>1. UNCHANGED <<mem, heap_used, chain, req, live, freed>>
  BY DEF Visit, SearchFails, Advance, Coalesced
<1>2. /\ Tiling' /\ Owned' /\ Intact' /\ Tags' /\ Freeable'
      /\ \A p \in DOMAIN live : live'[p].len <= live'[p].units
      /\ \A b \in chain : Free(b)' = Free(b) /\ Both(b)' = Both(b)
  BY <1>1, SameHeap
<1>3. pc \in {"search", "coalesce"} /\ at \in chain /\ at \in Nat
  BY BlockIs DEF IInv, Position, Visit, SearchFails, Advance, Coalesced
<1>4. Holders'
  <2>1. pc' # "move"
    BY <1>3 DEF Visit, SearchFails, Advance, Coalesced
  <2> QED BY <1>1, <1>2, <1>3, <2>1 DEF IInv, Holders
<1>5. CASE Visit
  <2>1. /\ pc = "search" /\ pc' = "search" /\ ~Fits(at) /\ at' = NextOf(at) /\ NextOf(at) # NULL
    BY <1>5 DEF Visit
  <2>2. at' \in chain /\ at' \in Addr
    BY <1>3, <2>1, BlockIs DEF IInv
  <2>3. \A b \in chain : b < at' => ~Fits(b)
    <3> SUFFICES ASSUME NEW b \in chain, b < at' PROVE ~Fits(b)
      OBVIOUS
    <3>1. b <= at /\ b \in Nat
      BY <1>3, <2>1, NextIsNext, BlockIs DEF IInv
    <3>2. b < at \/ b = at
      BY <1>3, <3>1
    <3> QED BY <2>1, <3>2 DEF IInv, Position
  <2>4. Position'
    BY <1>1, <2>1, <2>2, <2>3 DEF Position, Fits, Free, Size
  <2> QED BY <1>1, <1>2, <1>4, <2>1, <2>2, <2>4
          DEF IInv, TypeOK, Arguments, Own, Size, Spaced, PanicJustified
<1>6. CASE SearchFails
  <2>1. pc = "search" /\ HasMagic(at)
    BY <1>3, <1>6 DEF SearchFails, IInv, Tiling
  <2>2. ~Fits(at) /\ NextOf(at) = NULL /\ pc' = "oom" /\ at' = at
    BY <1>6, <2>1 DEF SearchFails
  <2>3. \A b \in chain : Free(b) => Size(b) < req.units
    <3> SUFFICES ASSUME NEW b \in chain, Free(b) PROVE Size(b) < req.units
      OBVIOUS
    <3>1. b <= at /\ b \in Nat /\ Size(b) \in Nat
      BY <1>3, <2>2, NextIsNext, BlockIs DEF IInv
    <3>2. b < at \/ b = at
      BY <1>3, <3>1
    <3>3. ~Fits(b)
      BY <2>1, <2>2, <3>2 DEF IInv, Position
    <3>4. req.units \in Nat
      BY DEF IInv, TypeOK, Req
    <3> QED BY <3>1, <3>3, <3>4 DEF Fits
  <2>4. PanicJustified'
    BY <1>1, <2>2, <2>3 DEF PanicJustified, Free, Size
  <2> QED BY <1>1, <1>2, <1>4, <2>2, <2>4 DEF IInv, TypeOK, Arguments, Position, Spaced
<1>7. CASE Advance
  <2>1. /\ pc = "coalesce" /\ pc' = "coalesce" /\ at' = NextOf(at) /\ NextOf(at) # NULL /\ ~BothFree
    BY <1>7 DEF Advance
  <2>2. at' \in chain /\ at' \in Addr
    BY <1>3, <2>1, BlockIs DEF IInv
  <2>3. \A b \in chain : b < at' => Both(b)
    <3> SUFFICES ASSUME NEW b \in chain, b < at' PROVE Both(b)
      OBVIOUS
    <3>1. b <= at /\ b \in Nat
      BY <1>3, <2>1, NextIsNext, BlockIs DEF IInv
    <3>2. b < at \/ b = at
      BY <1>3, <3>1
    <3>3. Both(at)
      BY <2>1 DEF Both, BothFree
    <3> QED BY <2>1, <3>2, <3>3 DEF IInv, Position
  <2>4. Position'
    BY <1>1, <1>2, <2>1, <2>2, <2>3 DEF Position
  <2> QED BY <1>1, <1>2, <1>4, <2>1, <2>2, <2>4 DEF IInv, TypeOK, Arguments, Spaced, PanicJustified
<1>8. CASE Coalesced
  <2>1. pc = "coalesce" /\ pc' = "idle" /\ NextOf(at) = NULL /\ at' = NULL
    BY <1>8 DEF Coalesced
  <2>2. \A b \in chain : Both(b)
    <3> SUFFICES ASSUME NEW b \in chain PROVE Both(b)
      OBVIOUS
    <3>1. b <= at /\ b \in Nat
      BY <1>3, <2>1, NextIsNext, BlockIs DEF IInv
    <3>2. b < at \/ b = at
      BY <1>3, <3>1
    <3> QED BY <2>1, <3>2 DEF IInv, Position, Both
  <2> QED BY <1>1, <1>2, <1>4, <2>1, <2>2 DEF IInv, TypeOK, Arguments, Position, Spaced, PanicJustified
<1> QED BY <1>5, <1>6, <1>7, <1>8

----------------------------------------------------------------------------
(* Changes inside one block.                                               *)

\* A unit of a block's data is in no header and in no other block.
LEMMA Inside ==
  ASSUME TypeOK, Tiling, NEW b \in chain, NEW c \in chain,
         NEW u \in Nat, b + 2 <= u, u < Last(b)
  PROVE  u # c /\ u # c + 1 /\ (c # b => u < c \/ Last(c) <= u)
<1>1. /\ b \in Nat /\ c \in Nat /\ Last(b) \in Nat /\ Last(c) \in Nat /\ c + 2 <= Last(c)
  BY BlockIs
<1>2. b # c => Last(b) <= c \/ Last(c) <= b
  BY Apart
<1> QED BY <1>1, <1>2

\* What other clients have is untouched by changes within block b.
LEMMA OthersIntact ==
  ASSUME IInv, NEW b \in chain, NEW q \in DOMAIN live, live[q].raw # b,
         \A u \in Addr : u < b \/ Last(b) <= u => mem'[u] = mem[u]
  PROVE  \A u \in q .. q + live[q].len - 1 : mem'[u] = Data(live[q].stamp)
<1> SUFFICES ASSUME NEW u \in q .. q + live[q].len - 1 PROVE mem'[u] = Data(live[q].stamp)
  OBVIOUS
<1>1. /\ live[q].raw \in chain /\ live[q].raw + 2 <= q /\ q \in Nat
      /\ live[q].units \in Nat /\ live[q].len \in Nat /\ live[q].len <= live[q].units
      /\ q + live[q].units <= Last(live[q].raw)
  BY HoldingIs DEF IInv
<1>2. /\ live[q].raw \in Nat /\ Last(live[q].raw) \in Nat /\ Last(live[q].raw) <= Units
      /\ b \in Nat /\ Last(b) \in Nat
  BY <1>1, BlockIs DEF IInv
<1>3. u \in Nat /\ live[q].raw + 2 <= u /\ u < Last(live[q].raw) /\ u \in Addr
  BY <1>1, <1>2, HeapAssumption DEF Addr
<1>4. u < b \/ Last(b) <= u
  <2> DEFINE a == live[q].raw
  <2> HIDE DEF a
  <2>1. a \in chain /\ a # b /\ a + 2 <= u /\ u < Last(a)
    BY <1>1, <1>3 DEF a
  <2> QED BY <1>3, <2>1, Inside DEF IInv
<1> QED BY <1>3, <1>4 DEF IInv, Intact

LEMMA WriteInv ==
  ASSUME IInv, NEW p \in DOMAIN live, NEW s \in Stamps, Write(p, s)
  PROVE  IInv' /\ Even
<1> DEFINE b == live[p].raw
           n == live[p].units
<1>1. /\ p \in Nat /\ n \in Nat /\ b \in chain /\ b + 2 <= p /\ p + n <= Last(b)
      /\ live[p] \in Holding
  BY HoldingIs DEF IInv
<1>2. b \in Nat /\ Last(b) \in Nat /\ Last(b) <= Units
  BY <1>1, BlockIs DEF IInv
<1>3. /\ pc = "idle" /\ UNCHANGED <<heap_used, chain, pc, at, req, freed>>
      /\ mem' = [u \in Addr |-> IF u \in p .. p + n - 1 THEN Data(s) ELSE mem[u]]
      /\ live' = [live EXCEPT ![p] = [live[p] EXCEPT !.stamp = s, !.len = n]]
  BY DEF Write, Filled
<1> DEFINE h == live[p]
           g == [h EXCEPT !.stamp = s, !.len = n]
<1>4. /\ g \in Holding
      /\ g.raw = h.raw /\ g.units = h.units /\ g.stamp = s /\ g.len = n
  <2>1. h \in Holding /\ n \in Nat
    BY <1>1
  <2> HIDE DEF n, h
  <2> QED BY <2>1 DEF Holding
<1>5. /\ DOMAIN live' = DOMAIN live
      /\ live'[p] = g
      /\ \A q \in DOMAIN live : q # p => live'[q] = live[q]
  <2>1. live' = [live EXCEPT ![p] = g]
    BY <1>3
  <2> HIDE DEF g
  <2> QED BY <2>1 DEF IInv, TypeOK
<1> HIDE DEF g, n
<1>6. \A q \in DOMAIN live : live'[q].raw = live[q].raw /\ live'[q].units = live[q].units
  BY <1>4, <1>5
<1>7. /\ \A u \in Addr : u \in p .. p + n - 1 => mem'[u] = Data(s)
      /\ \A u \in Addr : u \notin p .. p + n - 1 => mem'[u] = mem[u]
  BY <1>3
<1>8. \A c \in chain : mem'[c] = mem[c] /\ mem'[c + 1] = mem[c + 1]
  <2> SUFFICES ASSUME NEW c \in chain PROVE mem'[c] = mem[c] /\ mem'[c + 1] = mem[c + 1]
    OBVIOUS
  <2>1. c \in Addr /\ c + 1 \in Addr /\ c \in Nat
    BY BlockIs DEF IInv
  <2>2. c \notin p .. p + n - 1 /\ c + 1 \notin p .. p + n - 1
    <3> HIDE DEF b
    <3> QED BY <1>1, <1>2, <2>1, Inside DEF IInv
  <2> QED BY <1>7, <2>1, <2>2
<1>9. TypeOK'
  <2>1. Data(s) \in Cell
    BY DEF Data, Cell
  <2>2. mem' \in [Addr -> Cell]
    BY <1>3, <2>1 DEF IInv, TypeOK
  <2>3. live' \in [DOMAIN live -> Holding]
    BY <1>3, <1>4, <1>5 DEF IInv, TypeOK
  <2> QED BY <1>3, <1>5, <2>2, <2>3 DEF IInv, TypeOK
<1>10. /\ Tiling'
       /\ \A c \in chain : /\ Size(c)' = Size(c) /\ NextOf(c)' = NextOf(c) /\ Last(c)' = Last(c)
                           /\ Free(c)' = Free(c)
  <2>1. \A c \in chain : mem'[c + 1].kind = "tag"
    BY <1>8, BlockIs DEF IInv
  <2>2. \A c \in chain : Free(c)' = Free(c)
    BY <1>8 DEF Free
  <2> QED BY <1>3, <1>8, <2>1, <2>2, HeadersKept DEF IInv
<1>11. \A c \in chain : Both(c)' = Both(c)
  <2>1. \A c \in chain : NextOf(c) # NULL => NextOf(c) \in chain
    BY BlockIs DEF IInv
  <2> QED BY <1>10, <2>1 DEF Both
<1>12. Spaced' /\ Holders' /\ Freeable' /\ PanicJustified' /\ Position' /\ Arguments'
  <2>1. \A q \in DOMAIN live : live'[q].len <= live'[q].units
    BY <1>1, <1>4, <1>5 DEF IInv, Arguments, n
  <2> QED BY <1>3, <1>5, <1>6, <1>10, <1>11, <2>1
          DEF IInv, Spaced, Holders, Freeable, PanicJustified, Position, Arguments
<1>13. Owned'
  <2>1. ASSUME NEW q \in DOMAIN live
        PROVE  /\ live[q].raw \in chain /\ ~Free(live[q].raw) /\ q >= live[q].raw + HEADER
               /\ q + live[q].units <= Last(live[q].raw)
               /\ \A r \in DOMAIN live : live[q].raw = live[r].raw => q = r
    BY DEF IInv, Owned
  <2> QED BY <1>3, <1>5, <1>6, <1>10, <2>1 DEF Owned
<1>14. Intact'
  <2>1. ASSUME NEW q \in DOMAIN live, NEW u \in q .. q + live'[q].len - 1
        PROVE  mem'[u] = Data(live'[q].stamp)
    <3>1. CASE q = p
      <4>1. u \in p .. p + n - 1
        BY <1>4, <1>5, <2>1, <3>1
      <4>2. u \in Addr
        BY <1>1, <1>2, <4>1, HeapAssumption DEF Addr
      <4> QED BY <1>4, <1>5, <1>7, <3>1, <4>1, <4>2
    <3>2. CASE q # p
      <4>1. live[q].raw # b
        BY <3>2 DEF IInv, Owned
      <4>2. \A v \in Addr : v < b \/ Last(b) <= v => mem'[v] = mem[v]
        BY <1>1, <1>2, <1>7 DEF Addr
      <4> QED BY <1>1, <1>5, <2>1, <3>2, <4>1, <4>2, OthersIntact
    <3> QED BY <3>1, <3>2
  <2> QED BY <1>5, <2>1 DEF Intact
<1>15. Tags'
  <2> SUFFICES ASSUME NEW u \in Addr, mem'[u].kind = "tag", ~mem'[u].free
               PROVE  u - 1 \in chain \/ u + 1 \in DOMAIN live
    BY <1>3, <1>5 DEF Tags
  <2>1. mem'[u] = mem[u]
    BY <1>7 DEF Data
  <2> QED BY <2>1 DEF IInv, Tags
<1>inv. IInv'
  BY <1>9, <1>10, <1>12, <1>13, <1>14, <1>15 DEF IInv
<1>even. Even
  BY <1>3, <1>10 DEF Even, Busy
<1> QED BY <1>inv, <1>even

----------------------------------------------------------------------------
(* kmalloc takes a block.                                                  *)

LEMMA TakenIs ==
  ASSUME IInv, pc = "search", NEW b, b = at, NEW k \in Nat, k = req.units, Free(b), Size(b) >= k
  PROVE  LET m == Taken(b)
             n == b + 2 + k
         IN  /\ m \in [Addr -> Cell] /\ m[b + 1] = Tag(FALSE)
             /\ ~Splits(b, k) =>
                  \A u \in Addr : u # b + 1 => m[u] = mem[u]
             /\ Splits(b, k) =>
                  /\ n \in Addr /\ n + 1 \in Addr /\ n + 2 < Last(b)
                  /\ m[b] = Link(k, n)
                  /\ m[n] = Link(Size(b) - k - 2, NextOf(b))
                  /\ m[n + 1] = Tag(TRUE)
                  /\ \A u \in Addr : u \notin {b, b + 1, n, n + 1} => m[u] = mem[u]
<1> DEFINE m == Taken(b)
           n == b + 2 + k
           s == heap_split(b, k)
<1>1. /\ b \in chain /\ mem \in [Addr -> Cell]
      /\ Units \in Nat /\ MinBlock \in Nat
  BY HeapAssumption DEF IInv, Position, TypeOK, Req
<1>2. /\ b \in Nat /\ b \in Addr /\ b + 1 \in Addr /\ Size(b) \in Nat
      /\ NextOf(b) \in Addr \cup {NULL} /\ Last(b) = b + 2 + Size(b) /\ Last(b) <= Units
  BY <1>1, BlockIs DEF IInv
<1>3. m = [s EXCEPT ![b + 1] = Tag(FALSE)] /\ Tag(FALSE) \in Cell /\ Tag(TRUE) \in Cell
  BY DEF Taken, Tag, Cell
<1>4. CASE ~Splits(b, k)
  <2>1. s = mem
    BY <1>4 DEF heap_split
  <2> HIDE DEF s, m
  <2>2. /\ m \in [Addr -> Cell] /\ m[b + 1] = Tag(FALSE)
        /\ \A u \in Addr : u # b + 1 => m[u] = mem[u]
    BY <1>1, <1>2, <1>3, <2>1
  <2> QED BY <1>4, <2>2 DEF m
<1>5. CASE Splits(b, k)
  <2> DEFINE l1 == Link(Size(b) - k - 2, NextOf(b))
             l2 == Link(k, n)
  <2>1. s = [mem EXCEPT ![n] = l1, ![n + 1] = Tag(TRUE), ![b] = l2]
    BY <1>5 DEF heap_split, HEADER
  <2>2. Size(b) > k + 2 + MinBlock
    BY <1>5 DEF Splits, HEADER
  <2>3. /\ n \in Nat /\ n + 1 \in Nat /\ n + 2 < Last(b) /\ n + 1 < Units /\ n < Units
        /\ b # n /\ b # n + 1 /\ n # n + 1 /\ b + 1 # n /\ b + 1 # n + 1 /\ b # b + 1
    BY <1>1, <1>2, <2>2
  <2>a. n \in Addr /\ n + 1 \in Addr
    <3> HIDE DEF n
    <3> QED BY <2>3, AddrIs
  <2>4. /\ Size(b) - k - 2 \in 0 .. Units /\ k \in 0 .. Units
    BY <1>1, <1>2, <2>2
  <2>5. l1 \in Cell /\ l2 \in Cell
    BY <1>2, <2>a, <2>4 DEF Link, Cell
  <2> HIDE DEF l1, l2, n, s, m
  <2>6. /\ s \in [Addr -> Cell] /\ s[b] = l2 /\ s[n] = l1 /\ s[n + 1] = Tag(TRUE)
        /\ \A u \in Addr : u \notin {b, n, n + 1} => s[u] = mem[u]
    BY <1>1, <1>2, <1>3, <2>1, <2>3, <2>a, <2>5
  <2>7. /\ m \in [Addr -> Cell] /\ m[b + 1] = Tag(FALSE)
        /\ m[b] = l2 /\ m[n] = l1 /\ m[n + 1] = Tag(TRUE)
        /\ \A u \in Addr : u \notin {b, b + 1, n, n + 1} => m[u] = mem[u]
    BY <1>2, <1>3, <2>3, <2>a, <2>6
  <2> QED BY <1>5, <2>3, <2>a, <2>7 DEF l1, l2, n, m
<1> QED BY <1>4, <1>5

\* Block b has been taken and perhaps split; nothing but its data was written.
LEMMA TookTiling ==
  ASSUME IInv, pc = "search", NEW b, b = at, NEW k \in Nat, k = req.units,
         Free(b), Size(b) >= k,
         chain' = Grown(b), mem' \in [Addr -> Cell],
         \A u \in Addr : u < b + 2 \/ b + 2 + k <= u => mem'[u] = Taken(b)[u]
  PROVE  /\ Tiling'
         /\ \A c \in chain : c # b => /\ Size(c)' = Size(c) /\ NextOf(c)' = NextOf(c)
                                      /\ Last(c)' = Last(c) /\ Free(c)' = Free(c)
         /\ ~Free(b)' /\ Size(b)' \in Nat /\ k <= Size(b)'
         /\ chain \subseteq chain' /\ chain' \subseteq Addr
         /\ \A c \in chain' : c \notin chain => Free(c)'
         /\ \A c \in chain' : Both(c)'
         /\ \A u \in Addr : u < b \/ Last(b) <= u => mem'[u] = mem[u]
         /\ \A u \in Addr : mem'[u].kind = "tag" /\ ~mem'[u].free =>
              \/ u = b + 1 \/ mem'[u] = mem[u]
              \/ b + 2 <= u /\ u < b + 2 + k
<1> DEFINE m == Taken(b)
           n == b + 2 + k
<1>1. /\ b \in chain /\ Units \in Nat /\ MinBlock \in Nat
  BY HeapAssumption DEF IInv, Position, TypeOK, Req
<1>2. /\ b \in Nat /\ b \in Addr /\ b + 1 \in Addr /\ Size(b) \in Nat
      /\ Last(b) = b + 2 + Size(b) /\ Last(b) <= Units /\ Last(b) \in Nat
      /\ NextOf(b) = (IF Last(b) = Units THEN NULL ELSE Last(b))
      /\ NextOf(b) # NULL => NextOf(b) \in chain
  BY <1>1, BlockIs DEF IInv
<1>3. /\ m[b + 1] = Tag(FALSE)
      /\ ~Splits(b, k) => \A u \in Addr : u # b + 1 => m[u] = mem[u]
      /\ Splits(b, k) =>
           /\ n \in Addr /\ n + 1 \in Addr /\ n + 2 < Last(b)
           /\ m[b] = Link(k, n)
           /\ m[n] = Link(Size(b) - k - 2, NextOf(b))
           /\ m[n + 1] = Tag(TRUE)
           /\ \A u \in Addr : u \notin {b, b + 1, n, n + 1} => m[u] = mem[u]
  BY TakenIs
<1> HIDE DEF m
<1>4. \A u \in Addr : u < b + 2 \/ n <= u => mem'[u] = m[u]
  BY DEF m
<1>a. n \in Nat /\ n <= Last(b) /\ b < b + 2 /\ b + 1 < b + 2 /\ b + 2 <= n
  BY <1>2
<1> HIDE DEF n
<1>5. mem'[b] = m[b] /\ mem'[b + 1] = Tag(FALSE)
  BY <1>2, <1>3, <1>4, <1>a
<1>6. \A u \in Addr : u < b \/ Last(b) <= u => mem'[u] = mem[u]
  <2> SUFFICES ASSUME NEW u \in Addr, u < b \/ Last(b) <= u PROVE mem'[u] = mem[u]
    OBVIOUS
  <2>1. u \in Nat
    BY AddrIs
  <2>2. mem'[u] = m[u] /\ u # b /\ u # b + 1
    BY <1>2, <1>4, <1>a, <2>1
  <2>3. Splits(b, k) => u # n /\ u # n + 1
    BY <1>2, <1>3, <1>a, <2>1
  <2> QED BY <1>3, <2>2, <2>3
<1>7. \A c \in chain : /\ c \in Nat /\ c \in Addr /\ c + 1 \in Addr /\ Last(c) \in Nat
                       /\ c + 2 <= Last(c) /\ Last(c) <= Units
                       /\ mem[c].kind = "link" /\ mem[c + 1].kind = "tag"
                       /\ NextOf(c) = (IF Last(c) = Units THEN NULL ELSE Last(c))
                       /\ NextOf(c) # NULL => NextOf(c) \in chain
  BY BlockIs DEF IInv
<1>8. \A c \in chain : c # b => Last(c) <= b \/ Last(b) <= c
  BY <1>1, Apart DEF IInv
<1>9. \A c \in chain : c # b => mem'[c] = mem[c] /\ mem'[c + 1] = mem[c + 1]
  <2> SUFFICES ASSUME NEW c \in chain, c # b PROVE mem'[c] = mem[c] /\ mem'[c + 1] = mem[c + 1]
    OBVIOUS
  <2>1. (c < b /\ c + 1 < b) \/ (Last(b) <= c /\ Last(b) <= c + 1)
    BY <1>2, <1>7, <1>8
  <2> QED BY <1>6, <1>7, <2>1
<1>10. \A c \in chain : c # b => /\ Size(c)' = Size(c) /\ NextOf(c)' = NextOf(c)
                                 /\ Last(c)' = Last(c) /\ Free(c)' = Free(c)
  BY <1>9 DEF Size, NextOf, Last, Free
<1>11. ~Free(b)'
  BY <1>5 DEF Free, Tag
<1>12. CASE ~Splits(b, k)
  <2>1. chain' = chain /\ mem'[b] = mem[b]
    BY <1>1, <1>2, <1>3, <1>5, <1>12 DEF Grown
  <2>2. \A c \in chain : mem'[c] = mem[c] /\ mem'[c + 1].kind = "tag"
    BY <1>5, <1>7, <1>9, <2>1 DEF Tag
  <2>3. Tiling' /\ \A c \in chain : NextOf(c)' = NextOf(c) /\ Size(c)' = Size(c)
    BY <2>1, <2>2, HeadersKept DEF IInv
  <2>4. \A c \in chain : Both(c)'
    <3> SUFFICES ASSUME NEW c \in chain, NextOf(c)' # NULL, Free(c)', Free(NextOf(c))' PROVE FALSE
      BY DEF Both
    <3>1. PICK d : d = NextOf(c)
      OBVIOUS
    <3>2. NextOf(c)' = d /\ d # NULL /\ d \in chain /\ Free(d)'
      BY <1>7, <2>3, <3>1
    <3>3. c # b /\ d # b
      BY <1>11, <3>2
    <3>4. Free(c) /\ Free(d)
      BY <1>10, <3>2, <3>3
    <3> QED BY <3>1, <3>2, <3>4 DEF IInv, Spaced, Both
  <2>5. ASSUME NEW u \in Addr, mem'[u].kind = "tag", ~mem'[u].free
        PROVE  u = b + 1 \/ mem'[u] = mem[u] \/ (b + 2 <= u /\ u < n)
    <3>1. u \in Nat
      BY AddrIs
    <3>2. CASE b + 2 <= u /\ u < n
      BY <3>2
    <3>3. CASE u < b + 2 \/ n <= u
      BY <1>3, <1>4, <1>12, <3>3
    <3> QED BY <1>2, <1>a, <3>1, <3>2, <3>3
  <2>6. chain' \subseteq Addr
    BY <1>7, <2>1
  <2> QED BY <1>1, <1>2, <1>6, <1>10, <1>11, <2>1, <2>3, <2>4, <2>5, <2>6 DEF n
<1>13. CASE Splits(b, k)
  <2>1. /\ n \in Addr /\ n + 1 \in Addr /\ n + 2 < Last(b)
        /\ m[b] = Link(k, n)
        /\ m[n] = Link(Size(b) - k - 2, NextOf(b))
        /\ m[n + 1] = Tag(TRUE)
        /\ \A u \in Addr : u \notin {b, b + 1, n, n + 1} => m[u] = mem[u]
    BY <1>3, <1>13
  <2>2. chain' = chain \cup {n}
    BY <1>13 DEF Grown, HEADER, n
  <2>3. n \in Nat /\ b + 2 <= n /\ n = b + 2 + k /\ n < n + 1
    BY <1>2, <1>a DEF n
  <2>4. n \notin chain
    <3>1. \A c \in chain : n # c
      BY <1>1, <1>2, <2>1, <2>3, Inside DEF IInv
    <3> QED BY <3>1
  <2>5. /\ mem'[b] = Link(k, n) /\ mem'[n + 1] = Tag(TRUE)
        /\ mem'[n] = Link(Size(b) - k - 2, NextOf(b))
    <3>1. n <= n /\ n <= n + 1
      BY <2>3
    <3> QED BY <1>4, <1>5, <2>1, <3>1
  <2>6. /\ Size(b)' = k /\ NextOf(b)' = n /\ mem'[b].kind = "link"
        /\ Size(n)' = Size(b) - k - 2 /\ NextOf(n)' = NextOf(b) /\ mem'[n].kind = "link"
        /\ Free(n)' /\ HasMagic(n)' /\ HasMagic(b)'
    BY <1>5, <2>5 DEF Link, Tag, Size, NextOf, Free, HasMagic
  <2>7. Last(b)' = n /\ Last(n)' = Last(b)
    <3>1. Last(b)' = b + 2 + Size(b)' /\ Last(n)' = n + 2 + Size(n)'
      BY DEF Last, HEADER
    <3> QED BY <1>1, <1>2, <2>3, <2>6, <3>1
  <2>8. n # b /\ n < Units /\ n # NULL
    <3>1. n < Units
      BY <2>1, AddrIs
    <3> QED BY <1>2, <2>3, <3>1 DEF NULL
  <2>9. ASSUME NEW c \in chain'
        PROVE  /\ mem'[c].kind = "link" /\ HasMagic(c)'
               /\ Last(c)' <= Units
               /\ NextOf(c)' = (IF Last(c)' = Units THEN NULL ELSE Last(c)')
               /\ NextOf(c)' # NULL => NextOf(c)' \in chain'
    <3>1. CASE c = b
      <4>1. n <= Units /\ n # Units
        BY <2>3, <2>8, AddrIs
      <4> QED BY <2>2, <2>6, <2>7, <2>8, <3>1, <4>1
    <3>2. CASE c = n
      BY <1>2, <2>2, <2>6, <2>7, <3>2
    <3>3. CASE c # b /\ c # n
      BY <1>7, <1>9, <1>10, <2>2, <3>3 DEF HasMagic
    <3> QED BY <3>1, <3>2, <3>3
  <2>10. ASSUME NEW c \in chain', NEW d \in chain', c < d PROVE Last(c)' <= d
    <3>1. CASE c = b
      <4>1. CASE d = n
        BY <2>3, <2>7, <3>1, <4>1
      <4>2. CASE d # n
        <5>1. d \in chain /\ d # b
          BY <1>2, <2>2, <2>10, <3>1, <4>2
        <5>2. Last(b) <= d /\ d \in Nat
          BY <1>2, <1>7, <1>8, <2>10, <3>1, <5>1
        <5> QED BY <1>2, <2>1, <2>3, <2>7, <3>1, <5>2
      <4> QED BY <4>1, <4>2
    <3>2. CASE c = n
      <4>1. d \in chain /\ d # b
        BY <1>2, <2>2, <2>3, <2>10, <3>2
      <4>2. Last(b) <= d
        BY <1>2, <1>7, <1>8, <2>3, <2>10, <3>2, <4>1
      <4> QED BY <2>7, <3>2, <4>2
    <3>3. CASE c # b /\ c # n
      <4>1. c \in chain /\ Last(c)' = Last(c) /\ c \in Nat /\ Last(c) \in Nat
        BY <1>7, <1>10, <2>2, <3>3
      <4>2. CASE d = n
        BY <1>2, <1>7, <1>8, <2>1, <2>3, <2>10, <3>3, <4>1, <4>2
      <4>3. CASE d # n
        BY <2>2, <2>10, <4>1, <4>3 DEF IInv, Tiling
      <4> QED BY <4>2, <4>3
    <3> QED BY <3>1, <3>2, <3>3
  <2>11. Tiling'
    <3>1. heap_head \in chain'
      BY <2>2 DEF IInv, Tiling
    <3> QED BY <2>9, <2>10, <3>1 DEF Tiling
  <2>12. \A c \in chain' : Both(c)'
    <3> SUFFICES ASSUME NEW c \in chain', NextOf(c)' # NULL, Free(c)', Free(NextOf(c))' PROVE FALSE
      BY DEF Both
    <3>1. c # b
      BY <1>11
    <3>2. CASE c = n
      <4>1. PICK d : d = NextOf(b)
        OBVIOUS
      <4>2. d # NULL /\ d \in chain /\ d # b /\ Free(d)'
        BY <1>2, <2>6, <3>2, <4>1
      <4>3. Free(d)
        BY <1>10, <4>2
      <4> QED BY <1>1, <4>1, <4>2, <4>3 DEF IInv, Spaced, Both
    <3>3. CASE c # n
      <4>1. PICK d : d = NextOf(c)
        OBVIOUS
      <4>2. c \in chain /\ NextOf(c)' = d /\ Free(c)
        BY <1>10, <2>2, <3>1, <3>3, <4>1
      <4>3. d # NULL /\ d \in chain /\ Free(d)'
        BY <1>7, <4>1, <4>2
      <4>4. d # b
        BY <1>11, <4>3
      <4>5. Free(d)
        BY <1>10, <4>3, <4>4
      <4> QED BY <4>1, <4>2, <4>3, <4>5 DEF IInv, Spaced, Both
    <3> QED BY <3>2, <3>3
  <2>13. ASSUME NEW u \in Addr, mem'[u].kind = "tag", ~mem'[u].free
         PROVE  u = b + 1 \/ mem'[u] = mem[u] \/ (b + 2 <= u /\ u < n)
    <3>1. u # b /\ u # n /\ u # n + 1
      BY <2>5, <2>13 DEF Link, Tag
    <3>2. u \in Nat
      BY AddrIs
    <3>3. CASE b + 2 <= u /\ u < n
      BY <3>3
    <3>4. CASE u < b + 2 \/ n <= u
      BY <1>4, <2>1, <3>1, <3>4
    <3> QED BY <1>2, <2>3, <3>2, <3>3, <3>4
  <2>14. chain' \subseteq Addr /\ chain \subseteq chain'
    BY <1>7, <2>1, <2>2
  <2>15. \A c \in chain' : c \notin chain => Free(c)'
    BY <2>2, <2>6
  <2> QED BY <1>1, <1>6, <1>10, <1>11, <2>3, <2>6, <2>11, <2>12, <2>13, <2>14, <2>15 DEF n
<1> QED BY <1>12, <1>13

\* kmalloc returns to a caller that hands pointer p into block b to a client.
HandsOver(b, k, p, st, len) ==
    /\ pc = "search" /\ b = at /\ k \in Nat /\ k = req.units /\ Free(b) /\ Size(b) >= k
    /\ chain' = Grown(b) /\ mem' \in [Addr -> Cell]
    /\ \A u \in Addr : u < b + 2 \/ b + 2 + k <= u => mem'[u] = Taken(b)[u]
    /\ heap_used' \in Int /\ freed' = freed \ {b + HEADER}
    /\ pc' = "idle" /\ at' = NULL /\ req' = NoCall
    /\ p \in Nat /\ st \in Stamps \cup {Zero, Junk} /\ len \in Nat
    /\ live' = Handed(p, b, st, len)
    /\ b + 2 <= p /\ p + req.use <= b + 2 + k /\ len <= req.use
    /\ \A u \in p .. p + len - 1 : mem'[u] = Data(st)
    /\ \A u \in Addr : /\ b + 2 <= u /\ u < b + 2 + k
                       /\ mem'[u].kind = "tag" /\ ~mem'[u].free
                       => mem'[u] = mem[u] \/ u + 1 = p

LEMMA HandedInv ==
  ASSUME IInv, NEW b, NEW k, NEW p, NEW st, NEW len, HandsOver(b, k, p, st, len)
  PROVE  IInv'
<1> SUFFICES ASSUME pc = "search", b = at, k \in Nat, k = req.units,
                    Free(b), Size(b) >= k,
                    chain' = Grown(b), mem' \in [Addr -> Cell],
                    \A u \in Addr : u < b + 2 \/ b + 2 + k <= u => mem'[u] = Taken(b)[u],
                    heap_used' \in Int, freed' = freed \ {b + HEADER},
                    pc' = "idle", at' = NULL, req' = NoCall,
                    p \in Nat, st \in Stamps \cup {Zero, Junk}, len \in Nat,
                    live' = Handed(p, b, st, len),
                    b + 2 <= p, p + req.use <= b + 2 + k, len <= req.use,
                    \A u \in p .. p + len - 1 : mem'[u] = Data(st),
                    \A u \in Addr : /\ b + 2 <= u /\ u < b + 2 + k
                                    /\ mem'[u].kind = "tag" /\ ~mem'[u].free
                                    => mem'[u] = mem[u] \/ u + 1 = p
             PROVE  IInv'
  BY DEF HandsOver
<1>1. /\ b \in chain /\ req.use \in Nat /\ 1 <= req.use
  BY DEF IInv, Position, Arguments, TypeOK, Req
<1>2. /\ b \in Nat /\ b \in Addr /\ Size(b) \in Nat /\ Last(b) = b + 2 + Size(b)
      /\ Last(b) <= Units /\ Last(b) \in Nat
  BY <1>1, BlockIs DEF IInv
<1>3. /\ Tiling'
      /\ \A c \in chain : c # b => /\ Size(c)' = Size(c) /\ NextOf(c)' = NextOf(c)
                                   /\ Last(c)' = Last(c) /\ Free(c)' = Free(c)
      /\ ~Free(b)' /\ Size(b)' \in Nat /\ k <= Size(b)'
      /\ chain \subseteq chain' /\ chain' \subseteq Addr
      /\ \A c \in chain' : c \notin chain => Free(c)'
      /\ \A c \in chain' : Both(c)'
      /\ \A u \in Addr : u < b \/ Last(b) <= u => mem'[u] = mem[u]
      /\ \A u \in Addr : mem'[u].kind = "tag" /\ ~mem'[u].free =>
           \/ u = b + 1 \/ mem'[u] = mem[u]
           \/ b + 2 <= u /\ u < b + 2 + k
  BY TookTiling
<1>4. \A q \in DOMAIN live : /\ live[q].raw \in chain /\ live[q].raw # b
                             /\ ~Free(live[q].raw) /\ q # p
  <2> SUFFICES ASSUME NEW q \in DOMAIN live
               PROVE  /\ live[q].raw \in chain /\ live[q].raw # b
                      /\ ~Free(live[q].raw) /\ q # p
    OBVIOUS
  <2> DEFINE c == live[q].raw
  <2>1. /\ q \in Nat /\ c \in chain /\ ~Free(c) /\ c + 2 <= q /\ live[q].units \in Nat
        /\ q + live[q].units <= Last(c)
    BY HoldingIs DEF IInv
  <2>2. c # b
    BY <2>1
  <2> HIDE DEF c
  <2>3. c \in Nat /\ Last(c) \in Nat /\ (Last(c) <= b \/ Last(b) <= c)
    BY <1>1, <2>1, <2>2, BlockIs, Apart DEF IInv
  <2>4. q <= Last(c)
    BY <2>1, <2>3
  <2>5. q # p
    BY <1>1, <1>2, <2>1, <2>3, <2>4
  <2> QED BY <2>1, <2>2, <2>5 DEF c
<1>5. p \in Addr
  BY <1>1, <1>2, AddrIs
<1> DEFINE h == [raw |-> b, units |-> req.use, stamp |-> st, len |-> len]
<1>6. /\ h \in Holding /\ h.raw = b /\ h.units = req.use /\ h.stamp = st /\ h.len = len
  BY <1>1, <1>2 DEF Holding
<1>7. /\ DOMAIN live' = DOMAIN live \cup {p} /\ live'[p] = h
      /\ \A q \in DOMAIN live : live'[q] = live[q]
      /\ live' \in [DOMAIN live \cup {p} -> Holding]
  <2>1. live' = [x \in DOMAIN live \cup {p} |-> IF x = p THEN h ELSE live[x]]
    BY DEF Handed
  <2>2. \A q \in DOMAIN live : live[q] \in Holding
    BY DEF IInv, TypeOK
  <2> HIDE DEF h
  <2> QED BY <1>4, <1>6, <2>1, <2>2
<1> HIDE DEF h
<1>8. TypeOK'
  <2>1. NoCall \in Req
    BY DEF NoCall, Req
  <2>2. DOMAIN live' \subseteq Addr
    BY <1>5, <1>7 DEF IInv, TypeOK
  <2> QED BY <1>3, <1>7, <2>1, <2>2 DEF IInv, TypeOK
<1>9. Owned'
  <2>1. ASSUME NEW q \in DOMAIN live'
        PROVE  LET c == live'[q].raw
               IN  c \in chain' /\ q >= c + HEADER
    BY <1>1, <1>3, <1>4, <1>6, <1>7 DEF IInv, Owned, HEADER
  <2>2. ASSUME NEW q \in DOMAIN live', NEW c, c = live'[q].raw
        PROVE  ~Free(c)' /\ q + live'[q].units <= Last(c)'
    <3>1. CASE q = p
      <4>1. Last(b)' = b + 2 + Size(b)'
        BY DEF Last, HEADER
      <4> QED BY <1>1, <1>2, <1>3, <1>6, <1>7, <2>2, <3>1, <4>1
    <3>2. CASE q # p
      <4>1. q \in DOMAIN live /\ c = live[q].raw /\ c \in chain /\ c # b /\ ~Free(c)
            /\ live'[q].units = live[q].units
        BY <1>4, <1>7, <2>2, <3>2
      <4>2. q + live[q].units <= Last(c)
        BY <4>1 DEF IInv, Owned
      <4> QED BY <1>3, <4>1, <4>2
    <3> QED BY <3>1, <3>2
  <2>3. ASSUME NEW q \in DOMAIN live', NEW r \in DOMAIN live', live'[q].raw = live'[r].raw
        PROVE  q = r
    <3>1. q # p /\ r # p => q = r
      BY <1>7, <2>3 DEF IInv, Owned
    <3>2. (q = p) = (r = p)
      BY <1>4, <1>6, <1>7, <2>3
    <3> QED BY <3>1, <3>2
  <2> QED BY <2>1, <2>2, <2>3 DEF Owned
<1>10. Intact'
  <2>1. ASSUME NEW q \in DOMAIN live', NEW u \in q .. q + live'[q].len - 1
        PROVE  mem'[u] = Data(live'[q].stamp)
    <3>1. CASE q = p
      BY <1>6, <1>7, <2>1, <3>1
    <3>2. CASE q # p
      <4>1. q \in DOMAIN live /\ live'[q] = live[q] /\ live[q].raw # b
        BY <1>4, <1>7, <3>2
      <4> QED BY <1>1, <1>3, <2>1, <4>1, OthersIntact
    <3> QED BY <3>1, <3>2
  <2> QED BY <2>1 DEF Intact
<1>11. Arguments' /\ Position' /\ Spaced' /\ PanicJustified'
  <2>1. \A q \in DOMAIN live' : live'[q].len <= live'[q].units
    BY <1>6, <1>7 DEF IInv, Arguments
  <2> QED BY <1>3, <2>1 DEF Arguments, Position, Spaced, PanicJustified
<1>12. Holders'
  <2> SUFFICES ASSUME NEW c \in chain', ~Free(c)'
               PROVE  \E q \in DOMAIN live' : live'[q].raw = c
    BY DEF Holders
  <2>1. CASE c = b
    BY <1>6, <1>7, <2>1
  <2>2. CASE c # b
    <3>1. c \in chain /\ ~Free(c)
      BY <1>3, <2>2
    <3>2. PICK q \in DOMAIN live : live[q].raw = c
      BY <3>1 DEF IInv, Holders
    <3> QED BY <1>7, <3>2
  <2> QED BY <2>1, <2>2
<1>13. Tags'
  <2> SUFFICES ASSUME NEW u \in Addr, mem'[u].kind = "tag", ~mem'[u].free
               PROVE  u - 1 \in chain' \/ u + 1 \in DOMAIN live'
    BY DEF Tags
  <2>1. CASE u = b + 1
    BY <1>1, <1>2, <1>3, <2>1
  <2>2. CASE mem'[u] = mem[u]
    BY <1>3, <1>7, <2>2 DEF IInv, Tags
  <2>3. CASE u + 1 = p
    BY <1>7, <2>3
  <2> QED BY <1>3, <2>1, <2>2, <2>3
<1>14. Freeable'
  <2>1. \A c \in chain' : ~Free(c)' => c + HEADER \notin freed'
    <3> SUFFICES ASSUME NEW c \in chain', ~Free(c)' PROVE c + HEADER \notin freed'
      OBVIOUS
    <3>1. CASE c = b
      BY <3>1
    <3>2. CASE c # b
      <4>1. c \in chain /\ ~Free(c)
        BY <1>3, <3>2
      <4> QED BY <4>1 DEF IInv, Freeable
    <3> QED BY <3>1, <3>2
  <2> QED BY <2>1 DEF IInv, Freeable
<1> QED BY <1>3, <1>8, <1>9, <1>10, <1>11, <1>12, <1>13, <1>14 DEF IInv

\* What Found has before its caller goes on.
LEMMA FoundIs ==
  ASSUME IInv, Found, NEW b, b = at, NEW k, k = req.units
  PROVE  /\ pc = "search" /\ k \in Nat /\ req.use \in Nat /\ req.use <= k /\ Free(b) /\ Size(b) >= k
         /\ b \in Nat /\ b + 2 + k <= Last(b) /\ Last(b) <= Units
         /\ chain' = Grown(b) /\ heap_used' \in Int /\ freed' = freed \ {b + HEADER}
         /\ Taken(b) \in [Addr -> Cell]
         /\ \A u \in Addr : b + 2 <= u /\ u < b + 2 + k => Taken(b)[u] = mem[u]
<1>1. /\ pc = "search" /\ Free(b) /\ Size(b) >= k /\ Take(b) /\ b \in chain
      /\ k \in Nat /\ req.use \in Nat /\ req.use <= k
  BY DEF Found, Fits, IInv, Position, Arguments, TypeOK, Req
<1>2. /\ b \in Nat /\ b \in Addr /\ Size(b) \in Nat /\ Last(b) = b + 2 + Size(b) /\ Last(b) <= Units
  BY <1>1, BlockIs DEF IInv
<1> DEFINE m == Taken(b)
           n == b + 2 + k
<1>3. /\ m \in [Addr -> Cell] /\ m[b + 1] = Tag(FALSE)
      /\ ~Splits(b, k) => \A u \in Addr : u # b + 1 => m[u] = mem[u]
      /\ Splits(b, k) =>
           /\ m[b] = Link(k, n)
           /\ \A u \in Addr : u \notin {b, b + 1, n, n + 1} => m[u] = mem[u]
  BY <1>1, TakenIs
<1> HIDE DEF m
<1>4. \A u \in Addr : b + 2 <= u /\ u < n => m[u] = mem[u]
  <2> SUFFICES ASSUME NEW u \in Addr, b + 2 <= u, u < n PROVE m[u] = mem[u]
    OBVIOUS
  <2>1. u \in Nat
    BY AddrIs
  <2>2. u # b /\ u # b + 1 /\ u # n /\ u # n + 1
    BY <1>1, <1>2, <2>1
  <2> HIDE DEF n
  <2> QED BY <1>3, <2>2
<1>5. m[b].size \in Int
  <2>1. CASE Splits(b, k)
    <3> HIDE DEF n
    <3> QED BY <1>1, <1>3, <2>1 DEF Link
  <2>2. CASE ~Splits(b, k)
    <3>1. b # b + 1
      BY <1>2
    <3>2. m[b] = mem[b]
      <4> HIDE DEF n
      <4> QED BY <1>2, <1>3, <2>2, <3>1
    <3> QED BY <1>2, <3>2 DEF Size
  <2> QED BY <2>1, <2>2
<1>6. heap_used' = heap_used + m[b].size /\ chain' = Grown(b) /\ freed' = freed \ {b + HEADER}
  BY <1>1 DEF Take, m
<1>7. heap_used' \in Int
  BY <1>5, <1>6 DEF IInv, TypeOK
<1> QED BY <1>1, <1>2, <1>3, <1>4, <1>6, <1>7 DEF m

\* The block taken is counted with the size it has after the split.
LEMMA TookCharged ==
  ASSUME IInv, pc = "search", NEW b, b = at, NEW k \in Nat, k = req.units,
         Free(b), Size(b) >= k,
         chain' = Grown(b), mem' \in [Addr -> Cell],
         \A u \in Addr : u < b + 2 \/ b + 2 + k <= u => mem'[u] = Taken(b)[u],
         heap_used' = heap_used + Taken(b)[b].size
  PROVE  Charged(b)
<1>1. /\ \A c \in chain : c # b => Size(c)' = Size(c) /\ Free(c)' = Free(c)
      /\ ~Free(b)' /\ Size(b)' \in Nat /\ chain \subseteq chain'
      /\ \A c \in chain' : c \notin chain => Free(c)'
  BY TookTiling
<1>2. b \in chain /\ b \in Nat /\ b \in Addr
  BY BlockIs DEF IInv, Position
<1>3. b \notin Busy /\ Busy' = Busy \cup {b}
  BY <1>1, <1>2 DEF Busy
<1>4. Size(b)' = Taken(b)[b].size
  BY <1>2 DEF Size
<1>5. \A c \in Busy : Size(c)' = Size(c)
  BY <1>1, <1>3 DEF Busy
<1> QED BY <1>1, <1>3, <1>4, <1>5 DEF Charged

LEMMA FoundMalloc == ASSUME IInv, Found, TakeMalloc(at) PROVE IInv' /\ Charged(at)
<1>1. PICK b, k : b = at /\ k = req.units
  OBVIOUS
<1>2. /\ pc = "search" /\ k \in Nat /\ req.use \in Nat /\ req.use <= k /\ Free(b) /\ Size(b) >= k
      /\ b \in Nat
      /\ chain' = Grown(b) /\ heap_used' \in Int /\ freed' = freed \ {b + HEADER}
      /\ Taken(b) \in [Addr -> Cell]
      /\ \A u \in Addr : b + 2 <= u /\ u < b + 2 + k => Taken(b)[u] = mem[u]
  BY <1>1, FoundIs
<1> DEFINE p == b + 2
           st == Junk
           len == 0
<1>3. /\ mem' = Taken(b) /\ live' = Handed(p, b, st, len)
      /\ pc' = "idle" /\ at' = NULL /\ req' = NoCall
  BY <1>1 DEF TakeMalloc, HEADER
<1>4. /\ p \in Nat /\ st \in Stamps \cup {Zero, Junk} /\ len \in Nat /\ b + 2 <= p
      /\ p + req.use <= b + 2 + k /\ len <= req.use /\ p .. p + len - 1 = {}
  BY <1>2
<1>5. \A u \in Addr : u < b + 2 \/ b + 2 + k <= u => mem'[u] = Taken(b)[u]
  BY <1>3
<1>6. \A u \in Addr : /\ b + 2 <= u /\ u < b + 2 + k
                      /\ mem'[u].kind = "tag" /\ ~mem'[u].free
                      => mem'[u] = mem[u] \/ u + 1 = p
  BY <1>2, <1>3
<1>7. mem' \in [Addr -> Cell]
  BY <1>2, <1>3
<1>8. \A u \in p .. p + len - 1 : mem'[u] = Data(st)
  BY <1>4
<1> HIDE DEF p, st, len
<1>inv. IInv'
  BY <1>1, <1>2, <1>3, <1>4, <1>5, <1>6, <1>7, <1>8, HandedInv DEF HandsOver
<1>charged. Charged(at)
  <2>1. heap_used' = heap_used + Taken(b)[b].size
    BY <1>1 DEF Found, Take
  <2> QED BY <1>1, <1>2, <1>5, <1>7, <2>1, TookCharged
<1> QED BY <1>inv, <1>charged

LEMMA FoundCalloc == ASSUME IInv, Found, TakeCalloc(at) PROVE IInv' /\ Charged(at)
<1>1. PICK b, k : b = at /\ k = req.units
  OBVIOUS
<1>2. /\ pc = "search" /\ k \in Nat /\ req.use \in Nat /\ req.use <= k /\ Free(b) /\ Size(b) >= k
      /\ b \in Nat /\ b + 2 + k <= Last(b) /\ Last(b) <= Units
      /\ chain' = Grown(b) /\ heap_used' \in Int /\ freed' = freed \ {b + HEADER}
      /\ Taken(b) \in [Addr -> Cell]
      /\ \A u \in Addr : b + 2 <= u /\ u < b + 2 + k => Taken(b)[u] = mem[u]
  BY <1>1, FoundIs
<1> DEFINE p == b + 2
           len == req.use
<1>3. /\ mem' = [u \in Addr |-> IF u \in p .. p + len - 1 THEN Data(Zero) ELSE Taken(b)[u]]
      /\ live' = Handed(p, b, Zero, len)
      /\ pc' = "idle" /\ at' = NULL /\ req' = NoCall
  BY <1>1 DEF TakeCalloc, HEADER, Filled
<1>4. /\ p \in Nat /\ Zero \in Stamps \cup {Zero, Junk} /\ len \in Nat /\ b + 2 <= p
      /\ p + req.use <= b + 2 + k /\ len <= req.use
  BY <1>2
<1>5. \A u \in Addr : u < b + 2 \/ b + 2 + k <= u => mem'[u] = Taken(b)[u]
  <2> SUFFICES ASSUME NEW u \in Addr, u < b + 2 \/ b + 2 + k <= u PROVE mem'[u] = Taken(b)[u]
    OBVIOUS
  <2>1. u \notin p .. p + len - 1
    BY <1>2, AddrIs
  <2> QED BY <1>3, <2>1
<1>6. \A u \in Addr : /\ b + 2 <= u /\ u < b + 2 + k
                      /\ mem'[u].kind = "tag" /\ ~mem'[u].free
                      => mem'[u] = mem[u]
  <2> SUFFICES ASSUME NEW u \in Addr, b + 2 <= u, u < b + 2 + k, mem'[u].kind = "tag"
               PROVE  mem'[u] = mem[u]
    OBVIOUS
  <2>1. mem'[u] # Data(Zero)
    BY DEF Data
  <2>2. mem'[u] = Taken(b)[u]
    <3> HIDE DEF p, len
    <3> QED BY <1>3, <2>1
  <2> QED BY <1>2, <2>2
<1>7. mem' \in [Addr -> Cell]
  <2>1. Data(Zero) \in Cell
    BY DEF Data, Cell
  <2> HIDE DEF p, len
  <2> QED BY <1>2, <1>3, <2>1
<1>8. \A u \in p .. p + len - 1 : mem'[u] = Data(Zero)
  <2> SUFFICES ASSUME NEW u \in p .. p + len - 1 PROVE mem'[u] = Data(Zero)
    OBVIOUS
  <2>1. u \in Nat /\ u < b + 2 + k
    BY <1>2
  <2>2. b + 2 + k \in Nat /\ Last(b) \in Nat
    <3>1. b \in chain
      BY <1>1, <1>2 DEF IInv, Position
    <3> QED BY <1>2, <3>1, BlockIs DEF IInv
  <2>3. u < Units
    BY <1>2, <2>1, <2>2, AddrIs
  <2>4. u \in Addr
    BY <2>1, <2>3, AddrIs
  <2> QED BY <1>3, <2>4
<1> HIDE DEF p, len
<1>inv. IInv'
  BY <1>1, <1>2, <1>3, <1>4, <1>5, <1>6, <1>7, <1>8, HandedInv DEF HandsOver
<1>charged. Charged(at)
  <2>1. heap_used' = heap_used + Taken(b)[b].size
    BY <1>1 DEF Found, Take
  <2> QED BY <1>1, <1>2, <1>5, <1>7, <2>1, TookCharged
<1> QED BY <1>inv, <1>charged

LEMMA FoundAligned == ASSUME IInv, Found, TakeAligned(at) PROVE IInv' /\ Charged(at)
<1>1. PICK b, k : b = at /\ k = req.units
  OBVIOUS
<1>2. /\ pc = "search" /\ k \in Nat /\ req.use \in Nat /\ req.use <= k /\ Free(b) /\ Size(b) >= k
      /\ b \in Nat /\ b + 2 + k <= Last(b) /\ Last(b) <= Units
      /\ chain' = Grown(b) /\ heap_used' \in Int /\ freed' = freed \ {b + HEADER}
      /\ Taken(b) \in [Addr -> Cell]
      /\ \A u \in Addr : b + 2 <= u /\ u < b + 2 + k => Taken(b)[u] = mem[u]
  BY <1>1, FoundIs
<1>3. /\ req.align \in Nat \ {0} /\ req.use + req.align <= k /\ 1 <= req.use
  BY <1>1, <1>2 DEF TakeAligned, IInv, Arguments, TypeOK, Req
<1>a. PICK p : p = AlignedUp(b + HEADER)
  OBVIOUS
<1> DEFINE m == Taken(b)
           below == IF m[p - 1].kind = "tag" THEN Tag(((b + HEADER) * UnitBytes) % 256 # 0)
                                            ELSE Data(Junk)
<1>4. p \in Nat /\ b + 2 < p /\ p <= b + 2 + req.align
  <2>1. b + HEADER \in Nat /\ b + HEADER = b + 2
    BY <1>2 DEF HEADER
  <2> QED BY <1>3, <1>a, <2>1, AlignedUpIs
<1>5. /\ mem' = [m EXCEPT ![p - 1] = below] /\ live' = Handed(p, b, Junk, 0)
      /\ pc' = "idle" /\ at' = NULL /\ req' = NoCall
  BY <1>1, <1>a DEF TakeAligned
<1>6. below \in Cell
  <2>1. Data(Junk) \in Cell /\ Tag(TRUE) \in Cell /\ Tag(FALSE) \in Cell
    BY DEF Data, Tag, Cell
  <2>2. (((b + HEADER) * UnitBytes) % 256 # 0) \in BOOLEAN
    OBVIOUS
  <2>3. below = Tag(TRUE) \/ below = Tag(FALSE) \/ below = Data(Junk)
    BY <2>2 DEF Tag
  <2> HIDE DEF below
  <2> QED BY <2>1, <2>3
<1> HIDE DEF m, below
<1>7. /\ p - 1 \in Nat /\ b + 2 <= p - 1 /\ p - 1 < b + 2 + k /\ p + req.use <= b + 2 + k
      /\ (p - 1) + 1 = p /\ b + 2 <= p
  BY <1>2, <1>3, <1>4
<1>8. mem' \in [Addr -> Cell]
  BY <1>2, <1>5, <1>6 DEF m
<1>9. \A u \in Addr : u # p - 1 => mem'[u] = m[u]
  BY <1>2, <1>5 DEF m
<1>10. \A u \in Addr : u < b + 2 \/ b + 2 + k <= u => mem'[u] = Taken(b)[u]
  BY <1>2, <1>7, <1>9, AddrIs DEF m
<1>11. \A u \in Addr : /\ b + 2 <= u /\ u < b + 2 + k
                       /\ mem'[u].kind = "tag" /\ ~mem'[u].free
                       => mem'[u] = mem[u] \/ u + 1 = p
  BY <1>2, <1>7, <1>9 DEF m
<1> DEFINE st == Junk
           len == 0
<1>12. \A u \in p .. p + len - 1 : mem'[u] = Data(st)
  BY <1>4
<1>13. st \in Stamps \cup {Zero, Junk} /\ len \in Nat /\ len <= req.use /\ live' = Handed(p, b, st, len)
  BY <1>2, <1>5
<1> HIDE DEF st, len
<1>14. /\ pc = "search" /\ b = at /\ k \in Nat /\ k = req.units /\ Free(b) /\ Size(b) >= k
       /\ chain' = Grown(b) /\ heap_used' \in Int /\ freed' = freed \ {b + HEADER}
       /\ pc' = "idle" /\ at' = NULL /\ req' = NoCall /\ p \in Nat
       /\ b + 2 <= p /\ p + req.use <= b + 2 + k
  BY <1>1, <1>2, <1>4, <1>5, <1>7
<1>inv. IInv'
  BY <1>8, <1>10, <1>11, <1>12, <1>13, <1>14, HandedInv DEF HandsOver
<1>charged. Charged(at)
  <2>1. heap_used' = heap_used + Taken(b)[b].size
    BY <1>1 DEF Found, Take
  <2> QED BY <1>8, <1>10, <1>14, <2>1, TookCharged
<1> QED BY <1>inv, <1>charged

LEMMA FoundRealloc == ASSUME IInv, Found, TakeRealloc(at) PROVE IInv' /\ Charged(at)
<1>1. PICK b, k : b = at /\ k = req.units
  OBVIOUS
<1>2. /\ pc = "search" /\ k \in Nat /\ req.use \in Nat /\ req.use <= k /\ Free(b) /\ Size(b) >= k
      /\ chain' = Grown(b) /\ heap_used' \in Int /\ freed' = freed \ {b + HEADER}
      /\ Taken(b) \in [Addr -> Cell]
      /\ \A u \in Addr : b + 2 <= u /\ u < b + 2 + k => Taken(b)[u] = mem[u]
  BY <1>1, FoundIs
<1>3. /\ req.kind = "realloc" /\ mem' = Taken(b) /\ pc' = "move" /\ at' = b
      /\ live' = live /\ req' = req
  BY <1>1 DEF TakeRealloc
<1>4. b \in chain /\ b \in Nat /\ b \in Addr
  BY <1>1, <1>2, BlockIs DEF IInv, Position
<1>5. mem' \in [Addr -> Cell] /\ \A u \in Addr : u < b + 2 \/ b + 2 + k <= u => mem'[u] = Taken(b)[u]
  BY <1>2, <1>3
<1>6. /\ Tiling'
      /\ \A c \in chain : c # b => /\ Size(c)' = Size(c) /\ NextOf(c)' = NextOf(c)
                                   /\ Last(c)' = Last(c) /\ Free(c)' = Free(c)
      /\ ~Free(b)' /\ Size(b)' \in Nat /\ k <= Size(b)'
      /\ chain \subseteq chain' /\ chain' \subseteq Addr
      /\ \A c \in chain' : c \notin chain => Free(c)'
      /\ \A c \in chain' : Both(c)'
      /\ \A u \in Addr : u < b \/ Last(b) <= u => mem'[u] = mem[u]
      /\ \A u \in Addr : mem'[u].kind = "tag" /\ ~mem'[u].free =>
           \/ u = b + 1 \/ mem'[u] = mem[u]
           \/ b + 2 <= u /\ u < b + 2 + k
  BY <1>1, <1>2, <1>5, TookTiling
<1>7. \A q \in DOMAIN live : /\ live[q].raw \in chain /\ live[q].raw # b /\ ~Free(live[q].raw)
  BY <1>2 DEF IInv, Owned
<1>8. TypeOK'
  BY <1>2, <1>3, <1>4, <1>5, <1>6 DEF IInv, TypeOK
<1>9. Owned'
  <2>1. ASSUME NEW q \in DOMAIN live, NEW c, c = live[q].raw
        PROVE  /\ c \in chain' /\ ~Free(c)' /\ q >= c + HEADER /\ q + live[q].units <= Last(c)'
    <3>1. c \in chain /\ c # b /\ ~Free(c) /\ q >= c + HEADER /\ q + live[q].units <= Last(c)
      BY <1>7, <2>1 DEF IInv, Owned
    <3> QED BY <1>6, <3>1
  <2>2. \A q, r \in DOMAIN live : live[q].raw = live[r].raw => q = r
    BY DEF IInv, Owned
  <2> QED BY <1>3, <2>1, <2>2 DEF Owned
<1>10. Intact'
  <2>1. ASSUME NEW q \in DOMAIN live, NEW u \in q .. q + live[q].len - 1
        PROVE  mem'[u] = Data(live[q].stamp)
    BY <1>4, <1>6, <1>7, <2>1, OthersIntact
  <2> QED BY <1>3, <2>1 DEF Intact
<1>11. Arguments'
  <2>1. /\ \A p \in DOMAIN live : live[p].len <= live[p].units
        /\ 1 <= req.use /\ req.use <= req.units
        /\ req.old \in DOMAIN live /\ Own(req.old) /\ Size(req.old - HEADER) <= req.use
    BY <1>2, <1>3 DEF IInv, Arguments
  <2>2. PICK o, c : o = req.old /\ c = live[o].raw
    OBVIOUS
  <2>3. o \in DOMAIN live /\ o = c + 2 /\ c \in chain /\ c # b
    BY <1>7, <2>1, <2>2 DEF Own, HEADER
  <2>4. o - HEADER = c /\ req.old - HEADER = c
    <3>1. c \in Nat
      BY <2>3, BlockIs DEF IInv
    <3> QED BY <2>2, <2>3, <3>1 DEF HEADER
  <2>5. Size(c) <= req.use
    BY <2>1, <2>4
  <2>6. Size(c)' <= req.use
    BY <1>6, <2>3, <2>5
  <2>7. Own(req.old)'
    BY <1>3, <2>1 DEF Own
  <2>8. Size(req.old - HEADER)' = Size(c)'
    <3>1. (req.old - HEADER)' = c
      BY <1>3, <2>4 DEF HEADER
    <3> QED BY <3>1 DEF Size
  <2> QED BY <1>3, <2>1, <2>6, <2>7, <2>8 DEF Arguments
<1>12. Position'
  <2>1. Free(at)' = Free(b)' /\ Size(at)' = Size(b)'
    BY <1>3 DEF Free, Size
  <2>2. at' \in chain' /\ at' = b
    BY <1>3, <1>4, <1>6
  <2> QED BY <1>1, <1>3, <1>6, <1>7, <2>1, <2>2 DEF Position
<1>13. Spaced' /\ PanicJustified'
  BY <1>3, <1>6 DEF Spaced, PanicJustified
<1>14. Holders'
  <2> SUFFICES ASSUME NEW c \in chain', ~Free(c)'
               PROVE  c = b \/ \E q \in DOMAIN live : live[q].raw = c
    BY <1>3 DEF Holders
  <2>1. CASE c # b
    <3>1. c \in chain /\ ~Free(c)
      BY <1>6, <2>1
    <3> QED BY <1>2, <3>1 DEF IInv, Holders
  <2> QED BY <2>1
<1>15. Tags'
  <2> SUFFICES ASSUME NEW u \in Addr, mem'[u].kind = "tag", ~mem'[u].free
               PROVE  u - 1 \in chain' \/ u + 1 \in DOMAIN live
    BY <1>3 DEF Tags
  <2>1. CASE u = b + 1
    BY <1>4, <1>6, <2>1
  <2>2. CASE mem'[u] = mem[u]
    BY <1>6, <2>2 DEF IInv, Tags
  <2>3. CASE b + 2 <= u /\ u < b + 2 + k
    BY <1>2, <1>3, <2>2, <2>3
  <2> QED BY <1>6, <2>1, <2>2, <2>3
<1>16. Freeable'
  <2>1. \A c \in chain' : ~Free(c)' => c + HEADER \notin freed'
    <3> SUFFICES ASSUME NEW c \in chain', ~Free(c)' PROVE c + HEADER \notin freed'
      OBVIOUS
    <3>1. CASE c = b
      BY <1>2, <3>1
    <3>2. CASE c # b
      <4>1. c \in chain /\ ~Free(c)
        BY <1>6, <3>2
      <4> QED BY <1>2, <4>1 DEF IInv, Freeable
    <3> QED BY <3>1, <3>2
  <2> QED BY <1>2, <2>1 DEF IInv, Freeable
<1>inv. IInv'
  BY <1>6, <1>8, <1>9, <1>10, <1>11, <1>12, <1>13, <1>14, <1>15, <1>16 DEF IInv
<1>charged. Charged(at)
  <2>1. heap_used' = heap_used + Taken(b)[b].size
    BY <1>1 DEF Found, Take
  <2> QED BY <1>1, <1>2, <1>5, <2>1, TookCharged
<1> QED BY <1>inv, <1>charged

LEMMA FoundInv == ASSUME IInv, Found PROVE IInv' /\ Charged(at)
  BY FoundMalloc, FoundCalloc, FoundAligned, FoundRealloc DEF Found

----------------------------------------------------------------------------
(* kfree gives a block back.                                               *)

\* Block b becomes free; clients hold other blocks only.
GivesBack(b) ==
    /\ b \in chain /\ b + 2 \in DOMAIN live /\ live[b + 2].raw = b
    /\ chain' = chain /\ mem' \in [Addr -> Cell] /\ mem'[b + 1] = Tag(TRUE)
    /\ \A c \in chain : mem'[c] = mem[c] /\ (c # b => mem'[c + 1] = mem[c + 1])
    /\ \A u \in Addr : mem'[u].kind = "tag" /\ ~mem'[u].free => mem'[u] = mem[u]
    /\ heap_used' \in Int /\ freed' = freed \cup {b + 2}
    /\ pc' = "coalesce" /\ at' = 0 /\ req' \in Req
    /\ live' \in [DOMAIN live' -> Holding] /\ DOMAIN live' \subseteq Addr
    /\ \A q \in DOMAIN live : q # b + 2 => q \in DOMAIN live' /\ live'[q] = live[q]
    /\ \A q \in DOMAIN live' :
         /\ live'[q].len <= live'[q].units
         /\ live'[q].raw \in chain /\ live'[q].raw # b /\ ~Free(live'[q].raw)
         /\ q >= live'[q].raw + HEADER /\ q + live'[q].units <= Last(live'[q].raw)
         /\ \A u \in q .. q + live'[q].len - 1 : mem'[u] = Data(live'[q].stamp)
         /\ \A r \in DOMAIN live' : live'[q].raw = live'[r].raw => q = r
    /\ pc = "move" => \E q \in DOMAIN live' : live'[q].raw = at

LEMMA GivesBackInv == ASSUME IInv, NEW b, GivesBack(b) PROVE IInv'
<1>1. b \in chain /\ b \in Nat /\ b + 2 \in DOMAIN live /\ b + 2 \in Addr
  BY BlockIs DEF GivesBack, IInv, TypeOK
<1>2. /\ chain' = chain /\ mem'[b + 1] = Tag(TRUE) /\ pc' = "coalesce" /\ at' = 0
      /\ freed' = freed \cup {b + 2}
      /\ \A c \in chain : mem'[c] = mem[c] /\ (c # b => mem'[c + 1] = mem[c + 1])
      /\ \A u \in Addr : mem'[u].kind = "tag" /\ ~mem'[u].free => mem'[u] = mem[u]
      /\ \A q \in DOMAIN live : q # b + 2 => q \in DOMAIN live' /\ live'[q] = live[q]
  BY DEF GivesBack
<1>3. \A c \in chain : mem'[c + 1].kind = "tag"
  <2> SUFFICES ASSUME NEW c \in chain PROVE mem'[c + 1].kind = "tag"
    OBVIOUS
  <2>1. mem[c + 1].kind = "tag"
    BY BlockIs DEF IInv
  <2>2. CASE c = b
    BY <1>2, <2>2 DEF Tag
  <2> QED BY <1>2, <2>1, <2>2
<1>4. /\ Tiling'
      /\ \A c \in chain : /\ Size(c)' = Size(c) /\ NextOf(c)' = NextOf(c) /\ Last(c)' = Last(c)
  BY <1>2, <1>3, HeadersKept DEF IInv
<1>5. Free(b)' /\ \A c \in chain : c # b => Free(c)' = Free(c)
  BY <1>2 DEF Free, Tag
<1>6. TypeOK'
  <2>1. 0 \in Addr
    BY DEF IInv, TypeOK, Tiling, heap_head
  <2> QED BY <1>1, <1>2, <2>1 DEF IInv, TypeOK, GivesBack
<1>7. Owned'
  <2>1. ASSUME NEW q \in DOMAIN live', NEW c, c = live'[q].raw
        PROVE  /\ c \in chain' /\ ~Free(c)' /\ q >= c + HEADER /\ q + live'[q].units <= Last(c)'
    <3>1. c \in chain /\ c # b /\ ~Free(c) /\ q >= c + HEADER /\ q + live'[q].units <= Last(c)
      BY <2>1 DEF GivesBack
    <3> QED BY <1>2, <1>4, <1>5, <3>1
  <2>2. \A q, r \in DOMAIN live' : live'[q].raw = live'[r].raw => q = r
    BY DEF GivesBack
  <2> QED BY <2>1, <2>2 DEF Owned
<1>8. Intact'
  BY DEF Intact, GivesBack
<1>9. Arguments'
  BY <1>2 DEF Arguments, GivesBack
<1>10. Position'
  <2>1. \A c \in chain : ~(c < 0)
    BY BlockIs DEF IInv
  <2>2. 0 \in chain
    BY DEF IInv, Tiling, heap_head
  <2> QED BY <1>2, <2>1, <2>2 DEF Position
<1>11. Spaced' /\ PanicJustified'
  BY <1>2 DEF Spaced, PanicJustified
<1>12. Holders'
  <2> SUFFICES ASSUME NEW c \in chain, ~Free(c)' PROVE \E q \in DOMAIN live' : live'[q].raw = c
    BY <1>2 DEF Holders
  <2>1. c # b /\ ~Free(c)
    BY <1>5
  <2>2. CASE pc = "move" /\ c = at
    BY <2>2 DEF GivesBack
  <2>3. ASSUME NEW q \in DOMAIN live, live[q].raw = c PROVE \E r \in DOMAIN live' : live'[r].raw = c
    <3>1. q # b + 2
      BY <2>1, <2>3 DEF GivesBack
    <3> QED BY <1>2, <2>3, <3>1
  <2> QED BY <2>1, <2>2, <2>3 DEF IInv, Holders
<1>13. Tags'
  <2> SUFFICES ASSUME NEW u \in Addr, mem'[u].kind = "tag", ~mem'[u].free
               PROVE  u - 1 \in chain \/ u + 1 \in DOMAIN live'
    BY <1>2 DEF Tags
  <2>1. u # b + 1 /\ mem'[u] = mem[u]
    BY <1>2 DEF Tag
  <2>2. u - 1 \in chain \/ u + 1 \in DOMAIN live
    BY <2>1 DEF IInv, Tags
  <2>3. u + 1 # b + 2
    BY <1>1, <2>1, AddrIs
  <2> QED BY <1>2, <2>2, <2>3
<1>14. Freeable'
  <2>1. \A c \in chain : ~Free(c)' => c + HEADER \notin freed'
    <3> SUFFICES ASSUME NEW c \in chain, ~Free(c)' PROVE c + HEADER \notin freed'
      OBVIOUS
    <3>1. c # b /\ ~Free(c) /\ c \in Nat
      BY <1>5, BlockIs DEF IInv
    <3>2. c + HEADER \notin freed
      BY <3>1 DEF IInv, Freeable
    <3>3. c + HEADER # b + 2
      BY <1>1, <3>1 DEF HEADER
    <3> QED BY <1>2, <3>2, <3>3
  <2>2. \A p \in freed' : p >= HEADER
    BY <1>1, <1>2 DEF IInv, Freeable, HEADER
  <2> QED BY <1>2, <2>1, <2>2 DEF Freeable
<1> QED BY <1>4, <1>6, <1>7, <1>8, <1>9, <1>10, <1>11, <1>12, <1>13, <1>14 DEF IInv

LEMMA GivesBackRefunded ==
  ASSUME IInv, NEW b, GivesBack(b), heap_used' = heap_used - Size(b)
  PROVE  Refunded(b)
<1>1. /\ b \in chain /\ ~Free(b) /\ chain' = chain /\ mem'[b + 1] = Tag(TRUE)
      /\ \A c \in chain : mem'[c] = mem[c] /\ (c # b => mem'[c + 1] = mem[c + 1])
  BY DEF GivesBack, IInv, Owned
<1>2. \A c \in chain : Size(c)' = Size(c) /\ (c # b => Free(c)' = Free(c))
  BY <1>1 DEF Size, Free
<1>3. Free(b)'
  BY <1>1 DEF Free, Tag
<1>4. Busy' = Busy \ {b}
  BY <1>1, <1>2, <1>3 DEF Busy
<1> QED BY <1>1, <1>2, <1>4 DEF Refunded, Busy

\* What kfree does to memory m once the pointer has passed its checks.
LEMMA ReleaseIs ==
  ASSUME NEW m \in [Addr -> Cell], NEW b \in Nat, NEW n \in Nat, b + 1 \in Addr, n = m[b].size,
         heap_used \in Int, Release(m, b + 2)
  PROVE  /\ mem' \in [Addr -> Cell] /\ mem'[b + 1] = Tag(TRUE)
         /\ \A u \in Addr : u # b + 1 =>
              \/ mem'[u] = m[u]
              \/ b + 2 <= u /\ u < b + 2 + n /\ m[u].kind = "data" /\ mem'[u] = Data(Junk)
         /\ heap_used' \in Int /\ pc' = "coalesce" /\ at' = 0 /\ freed' = freed \cup {b + 2}
<1> DEFINE a == (b + 2) - HEADER
           p == b + 2
<1>1. a = b /\ p = b + 2
  BY DEF HEADER
<1> DEFINE cell(u) == CASE u = a + 1 -> Tag(TRUE)
                        [] u \in p .. p + m[a].size - 1 /\ m[u].kind = "data" -> Data(Junk)
                        [] OTHER -> m[u]
<1>2. /\ mem' = [u \in Addr |-> cell(u)] /\ heap_used' = heap_used - m[a].size
      /\ pc' = "coalesce" /\ at' = 0 /\ freed' = freed \cup {p}
  <2>1. mem' = [u \in Addr |-> cell(u)]
    BY DEF Release
  <2>2. heap_used' = heap_used - m[a].size /\ pc' = "coalesce" /\ at' = 0 /\ freed' = freed \cup {p}
    BY DEF Release, heap_head
  <2> QED BY <2>1, <2>2
<1>3. Tag(TRUE) \in Cell /\ Data(Junk) \in Cell
  BY DEF Tag, Data, Cell
<1> HIDE DEF a, p
<1>4. ASSUME NEW u \in Addr
      PROVE  /\ cell(u) \in Cell
             /\ u = b + 1 => cell(u) = Tag(TRUE)
             /\ u # b + 1 =>
                  \/ cell(u) = m[u]
                  \/ b + 2 <= u /\ u < b + 2 + n /\ m[u].kind = "data" /\ cell(u) = Data(Junk)
  <2>1. u \in Nat /\ m[u] \in Cell
    BY AddrIs
  <2> DEFINE hit == u \in p .. p + m[a].size - 1 /\ m[u].kind = "data"
  <2>a. hit => b + 2 <= u /\ u < b + 2 + n /\ m[u].kind = "data"
    BY <1>1, <2>1
  <2>b. cell(u) = CASE u = a + 1 -> Tag(TRUE) [] hit -> Data(Junk) [] OTHER -> m[u]
    OBVIOUS
  <2> HIDE DEF hit, cell
  <2>2. CASE u = b + 1
    <3>1. ~hit /\ u = a + 1
      BY <1>1, <2>2, <2>a
    <3>2. cell(u) = Tag(TRUE)
      BY <2>b, <3>1
    <3> QED BY <1>3, <2>2, <3>2
  <2>3. CASE u # b + 1 /\ hit
    <3>1. cell(u) = Data(Junk)
      BY <1>1, <2>b, <2>3
    <3> QED BY <1>3, <2>3, <2>a, <3>1
  <2>4. CASE u # b + 1 /\ ~hit
    <3>1. cell(u) = m[u]
      BY <1>1, <2>b, <2>4
    <3> QED BY <2>1, <2>4, <3>1
  <2> QED BY <2>2, <2>3, <2>4
<1> HIDE DEF cell
<1>5. heap_used' \in Int
  BY <1>1, <1>2
<1> QED BY <1>1, <1>2, <1>4, <1>5

LEMMA FreedInv ==
  ASSUME IInv, NEW p \in DOMAIN live, Own(p), pc = "idle", Freed(p)
  PROVE  IInv' /\ Refunded(live[p].raw)
<1>1. PICK b : b = live[p].raw
  OBVIOUS
<1>2. /\ b \in chain /\ p = b + 2 /\ b \in Nat /\ b \in Addr /\ b + 1 \in Addr /\ Size(b) \in Nat
      /\ Last(b) = b + 2 + Size(b) /\ Last(b) <= Units /\ Last(b) \in Nat
  BY <1>1, HoldingIs, BlockIs DEF IInv, Own, HEADER
<1>3. /\ Release(mem, b + 2) /\ live' = [x \in DOMAIN live \ {p} |-> live[x]]
      /\ chain' = chain /\ req' = req
  BY <1>2 DEF Freed
<1>4. mem \in [Addr -> Cell] /\ heap_used \in Int /\ req \in Req
  BY DEF IInv, TypeOK
<1>5. PICK n : n = Size(b)
  OBVIOUS
<1>6. n \in Nat /\ n = mem[b].size
  BY <1>2, <1>5 DEF Size
<1>7. /\ mem' \in [Addr -> Cell] /\ mem'[b + 1] = Tag(TRUE)
      /\ \A u \in Addr : u # b + 1 =>
           \/ mem'[u] = mem[u]
           \/ b + 2 <= u /\ u < b + 2 + n /\ mem[u].kind = "data" /\ mem'[u] = Data(Junk)
      /\ heap_used' \in Int /\ pc' = "coalesce" /\ at' = 0 /\ freed' = freed \cup {b + 2}
  BY <1>2, <1>3, <1>4, <1>6, ReleaseIs
<1>8. /\ DOMAIN live' = DOMAIN live \ {p}
      /\ \A q \in DOMAIN live \ {p} : live'[q] = live[q]
      /\ live' \in [DOMAIN live' -> Holding] /\ DOMAIN live' \subseteq Addr
  BY <1>3 DEF IInv, TypeOK
<1>9. \A c \in chain : mem'[c] = mem[c] /\ (c # b => mem'[c + 1] = mem[c + 1])
  <2> SUFFICES ASSUME NEW c \in chain PROVE mem'[c] = mem[c] /\ (c # b => mem'[c + 1] = mem[c + 1])
    OBVIOUS
  <2>1. /\ c \in Nat /\ c \in Addr /\ c + 1 \in Addr /\ Last(c) \in Nat /\ c + 2 <= Last(c)
        /\ c # b => Last(b) <= c \/ Last(c) <= b
    BY <1>2, BlockIs, Apart DEF IInv
  <2>2. c # b + 1 /\ ~(b + 2 <= c /\ c < b + 2 + n)
    BY <1>2, <1>5, <2>1
  <2>3. c # b => c + 1 # b + 1 /\ ~(b + 2 <= c + 1 /\ c + 1 < b + 2 + n)
    BY <1>2, <1>5, <2>1
  <2> QED BY <1>7, <2>1, <2>2, <2>3
<1>10. \A u \in Addr : mem'[u].kind = "tag" /\ ~mem'[u].free => mem'[u] = mem[u]
  BY <1>7 DEF Tag, Data
<1>11. \A u \in Addr : u < b \/ Last(b) <= u => mem'[u] = mem[u]
  BY <1>2, <1>5, <1>7, AddrIs
<1>12. ASSUME NEW q \in DOMAIN live'
       PROVE  /\ q \in DOMAIN live /\ q # p /\ live'[q] = live[q]
              /\ live[q].raw # b /\ live[q].raw \in chain /\ ~Free(live[q].raw)
              /\ live[q].len <= live[q].units
              /\ q >= live[q].raw + HEADER /\ q + live[q].units <= Last(live[q].raw)
              /\ \A u \in q .. q + live[q].len - 1 : mem'[u] = Data(live[q].stamp)
              /\ \A r \in DOMAIN live : live[q].raw = live[r].raw => q = r
  <2>1. q \in DOMAIN live /\ q # p /\ live'[q] = live[q]
    BY <1>8
  <2>2. /\ live[q].raw \in chain /\ ~Free(live[q].raw) /\ live[q].len <= live[q].units
        /\ q >= live[q].raw + HEADER /\ q + live[q].units <= Last(live[q].raw)
        /\ \A r \in DOMAIN live : live[q].raw = live[r].raw => q = r
    BY <2>1 DEF IInv, Owned, Arguments
  <2>3. live[q].raw # b
    BY <1>1, <2>1, <2>2
  <2> QED BY <1>2, <1>11, <2>1, <2>2, <2>3, OthersIntact
<1>13. \A q \in DOMAIN live : q # b + 2 => q \in DOMAIN live' /\ live'[q] = live[q]
  BY <1>2, <1>8
<1>14. \A q \in DOMAIN live' :
         /\ live'[q].len <= live'[q].units
         /\ live'[q].raw \in chain /\ live'[q].raw # b /\ ~Free(live'[q].raw)
         /\ q >= live'[q].raw + HEADER /\ q + live'[q].units <= Last(live'[q].raw)
         /\ \A u \in q .. q + live'[q].len - 1 : mem'[u] = Data(live'[q].stamp)
         /\ \A r \in DOMAIN live' : live'[q].raw = live'[r].raw => q = r
  BY <1>12
<1>15. GivesBack(b)
  BY <1>1, <1>2, <1>3, <1>4, <1>7, <1>8, <1>9, <1>10, <1>13, <1>14 DEF GivesBack
<1>inv. IInv'
  BY <1>15, GivesBackInv
<1>refunded. Refunded(b)
  <2>1. heap_used' = heap_used - Size(b)
    BY <1>2, <1>3 DEF Release, HEADER, Size
  <2> QED BY <1>15, <2>1, GivesBackRefunded
<1> QED BY <1>1, <1>inv, <1>refunded

\* A pointer freed before points behind a tag that reads "free", or behind no tag.
LEMMA StaleIsFree ==
  ASSUME IInv, NEW p \in Stale, HasMagic(p - HEADER)
  PROVE  Free(p - HEADER)
<1> SUFFICES ASSUME ~Free(p - HEADER) PROVE FALSE
  OBVIOUS
<1>1. p \in freed /\ p \notin DOMAIN live /\ p \in Nat /\ p \in Addr /\ p >= 2
  BY AddrIs DEF Stale, IInv, TypeOK, Freeable, HEADER
<1>2. mem[p - 1].kind = "tag" /\ ~mem[p - 1].free /\ p - 1 \in Addr
  BY <1>1, AddrIs DEF HasMagic, Free, HEADER
<1>3. p - 2 \in chain /\ p - 2 + HEADER = p
  BY <1>1, <1>2 DEF IInv, Tags, HEADER
<1>4. ~Free(p - 2)
  BY <1>1 DEF HEADER
<1> QED BY <1>1, <1>3, <1>4 DEF IInv, Freeable

LEMMA FreeInv ==
  ASSUME IInv, NEW p \in {q \in DOMAIN live : Own(q)} \cup Stale, kfree(p)
  PROVE  IInv'
<1>1. pc = "idle" /\ (Freed(p) \/ DoubleFree(p) \/ InvalidFree(p))
  BY DEF kfree
<1>2. CASE DoubleFree(p)
  BY <1>2 DEF DoubleFree, vars, IInv, TypeOK, Tiling, Owned, Intact, Arguments, Position, Spaced, Holders,
         Tags, Freeable, PanicJustified, Both, Free, HasMagic, Size, NextOf, Last, Own, Fits
<1>3. CASE InvalidFree(p)
  <2>1. pc' = "invalid" /\ UNCHANGED <<mem, heap_used, chain, at, req, live, freed>>
    BY <1>3 DEF InvalidFree
  <2>2. /\ Tiling' /\ Owned' /\ Intact' /\ Tags' /\ Freeable'
        /\ \A q \in DOMAIN live : live'[q].len <= live'[q].units
        /\ \A b \in chain : Free(b)' = Free(b)
    BY <2>1, SameHeap
  <2> QED BY <1>1, <2>1, <2>2 DEF IInv, TypeOK, Arguments, Position, Spaced, Holders, PanicJustified
<1>4. CASE Freed(p) /\ p \in DOMAIN live /\ Own(p)
  BY <1>1, <1>4, FreedInv
<1>5. CASE Freed(p) /\ p \in Stale
  BY <1>5, StaleIsFree DEF Freed
<1> QED BY <1>1, <1>2, <1>3, <1>4, <1>5

----------------------------------------------------------------------------
(* krealloc copies and gives the old block back.                           *)

\* What a client has written is in its own block and in no other.
LEMMA Written ==
  ASSUME IInv, NEW q \in DOMAIN live, NEW u \in q .. q + live[q].len - 1
  PROVE  /\ u \in Nat /\ u \in Addr /\ mem[u] = Data(live[q].stamp)
         /\ \A c \in chain : c # live[q].raw => u < c \/ Last(c) <= u
<1>1. PICK a : a = live[q].raw
  OBVIOUS
<1>2. /\ a \in chain /\ a + 2 <= q /\ q \in Nat
      /\ live[q].units \in Nat /\ live[q].len \in Nat /\ live[q].len <= live[q].units
      /\ q + live[q].units <= Last(a)
  BY <1>1, HoldingIs DEF IInv
<1>3. a \in Nat /\ Last(a) \in Nat /\ Last(a) <= Units
  BY <1>2, BlockIs DEF IInv
<1>4. u \in Nat /\ a + 2 <= u /\ u < Last(a) /\ u \in Addr
  BY <1>2, <1>3, AddrIs
<1>5. \A c \in chain : c # a => u < c \/ Last(c) <= u
  BY <1>2, <1>4, Inside DEF IInv
<1> QED BY <1>1, <1>4, <1>5 DEF IInv, Intact

\* Inside a block that kmalloc returned as it is there is no tag that reads "in use".
LEMMA NoTagInside ==
  ASSUME IInv, NEW b \in chain, b + 2 \in DOMAIN live, live[b + 2].raw = b,
         NEW v \in Addr, b + 2 <= v, v < Last(b)
  PROVE  ~(mem[v].kind = "tag" /\ ~mem[v].free)
<1> SUFFICES ASSUME mem[v].kind = "tag", ~mem[v].free PROVE FALSE
  OBVIOUS
<1>1. b \in Nat /\ Last(b) \in Nat /\ v \in Nat
  BY BlockIs, AddrIs DEF IInv
<1>2. CASE v - 1 \in chain
  <2>1. v # (v - 1) + 1
    <3>1. PICK c : c = v - 1
      OBVIOUS
    <3> QED BY <1>1, <1>2, <3>1, Inside DEF IInv
  <2> QED BY <1>1, <2>1
<1>3. CASE v + 1 \in DOMAIN live
  <2>1. PICK q, c : q = v + 1 /\ c = live[q].raw
    OBVIOUS
  <2>2. q \in DOMAIN live /\ c \in chain /\ c + 2 <= q /\ live[q].units \in Nat
        /\ q + live[q].units <= Last(c)
    BY <1>3, <2>1, HoldingIs DEF IInv
  <2>3. c \in Nat /\ Last(c) \in Nat /\ (c # b => Last(c) <= b \/ Last(b) <= c)
    BY <2>2, BlockIs, Apart DEF IInv
  <2>4. q <= Last(c)
    BY <1>1, <2>1, <2>2, <2>3
  <2>5. c = b
    BY <1>1, <2>1, <2>2, <2>3, <2>4
  <2>6. q = b + 2
    BY <2>1, <2>2, <2>5 DEF IInv, Owned
  <2> QED BY <1>1, <2>1, <2>6
<1> QED BY <1>2, <1>3 DEF IInv, Tags

LEMMA MoveInv == ASSUME IInv, Move PROVE IInv' /\ \E b : Refunded(b)
<1>1. PICK o, a, b, n, use : /\ o = req.old /\ a = at /\ b = live[o].raw /\ n = Size(b) /\ use = req.use
  OBVIOUS
<1>2. /\ pc = "move" /\ o \in DOMAIN live /\ Own(o) /\ Size(o - HEADER) <= use
      /\ a \in chain /\ ~Free(a) /\ req.units <= Size(a)
      /\ req.units \in Nat /\ use \in Nat /\ use <= req.units
      /\ \A p \in DOMAIN live : live[p].raw # a
  BY <1>1 DEF Move, IInv, Position, Arguments, TypeOK, Req
<1>3. /\ b \in chain /\ o = b + 2 /\ b # a /\ live[o] \in Holding
      /\ live[o].units \in Nat /\ live[o].len \in Nat /\ live[o].len <= live[o].units
      /\ o + live[o].units <= Last(b)
  BY <1>1, <1>2, HoldingIs DEF IInv, Own, HEADER
<1>4. /\ a \in Nat /\ a \in Addr /\ Size(a) \in Nat /\ Last(a) = a + 2 + Size(a) /\ Last(a) <= Units
      /\ Last(a) \in Nat
      /\ b \in Nat /\ b \in Addr /\ b + 1 \in Addr /\ n \in Nat /\ Last(b) = b + 2 + n /\ Last(b) <= Units
      /\ Last(b) \in Nat
  BY <1>1, <1>2, <1>3, BlockIs DEF IInv
<1>5. n <= use /\ use <= Size(a) /\ a + 2 + n <= Last(a) /\ Units \in Nat
  <2>1. o - HEADER = b
    BY <1>3, <1>4 DEF HEADER
  <2>2. n <= use
    BY <1>1, <1>2, <2>1
  <2> QED BY <1>2, <1>4, <2>2, AddrIs
<1>6. mem \in [Addr -> Cell] /\ heap_used \in Int
  BY DEF IInv, TypeOK
<1>7. PICK new : new = a + 2
  OBVIOUS
<1> DEFINE m == [u \in Addr |-> IF u \in new .. new + n - 1 THEN mem[o + (u - new)] ELSE mem[u]]
           g == [live[o] EXCEPT !.raw = a, !.units = use]
<1>8. /\ Release(m, b + 2)
      /\ live' = [x \in (DOMAIN live \ {o}) \cup {new} |-> IF x = new THEN g ELSE live[x]]
      /\ req' = NoCall /\ chain' = chain
  <2>1. a + HEADER = new /\ o - HEADER = b /\ n = Size(o - HEADER)
    <3>1. a + HEADER = new /\ o - HEADER = b
      BY <1>3, <1>4, <1>7 DEF HEADER
    <3> QED BY <1>1, <3>1
  <2>2. Copied(o, new) = m
    BY <2>1 DEF Copied
  <2> HIDE DEF m, g
  <2>3. Release(Copied(o, a + HEADER), o)
    BY <1>1 DEF Move
  <2>4. /\ live' = [x \in (DOMAIN live \ {o}) \cup {a + HEADER} |->
                      IF x = a + HEADER THEN [live[o] EXCEPT !.raw = a, !.units = use] ELSE live[x]]
        /\ req' = NoCall /\ chain' = chain
    BY <1>1 DEF Move
  <2> QED BY <1>3, <2>1, <2>2, <2>3, <2>4 DEF g
<1>9. /\ \A u \in Addr : u \notin new .. new + n - 1 => m[u] = mem[u]
      /\ \A u \in Addr : u \in new .. new + n - 1 =>
           /\ m[u] = mem[o + (u - new)] /\ o + (u - new) \in Addr
           /\ b + 2 <= o + (u - new) /\ o + (u - new) < Last(b)
  <2> SUFFICES ASSUME NEW u \in Addr, u \in new .. new + n - 1
               PROVE  /\ o + (u - new) \in Addr
                      /\ b + 2 <= o + (u - new) /\ o + (u - new) < Last(b)
    OBVIOUS
  <2>1. o + (u - new) \in Nat /\ b + 2 <= o + (u - new) /\ o + (u - new) < Last(b)
    BY <1>3, <1>4, <1>7
  <2>2. o + (u - new) < Units
    BY <1>4, <1>5, <2>1
  <2> QED BY <2>1, <2>2, AddrIs
<1>10. m \in [Addr -> Cell]
  <2>1. m = [u \in Addr |-> m[u]]
    OBVIOUS
  <2> HIDE DEF m
  <2>2. \A u \in Addr : m[u] \in Cell
    BY <1>6, <1>9
  <2> QED BY <2>1, <2>2
<1> HIDE DEF m
\* The copy stays inside block a.
<1>11. \A u \in Nat : u \in new .. new + n - 1 =>
          /\ a + 2 <= u /\ u < Last(a) /\ u # b + 1 /\ ~(b + 2 <= u /\ u < b + 2 + n)
          /\ \A c \in chain : u # c /\ u # c + 1 /\ (c # a => u < c \/ Last(c) <= u)
  <2> SUFFICES ASSUME NEW u \in Nat, u \in new .. new + n - 1
               PROVE  /\ a + 2 <= u /\ u < Last(a) /\ u # b + 1 /\ ~(b + 2 <= u /\ u < b + 2 + n)
                      /\ \A c \in chain : u # c /\ u # c + 1 /\ (c # a => u < c \/ Last(c) <= u)
    OBVIOUS
  <2>1. a + 2 <= u /\ u < Last(a)
    BY <1>4, <1>5, <1>7
  <2>2. \A c \in chain : u # c /\ u # c + 1 /\ (c # a => u < c \/ Last(c) <= u)
    BY <1>2, <2>1, Inside DEF IInv
  <2>3. u # b + 1 /\ (u < b \/ Last(b) <= u)
    BY <1>3, <2>2
  <2> QED BY <1>4, <2>1, <2>2, <2>3
<1>12. n = m[b].size
  <2>1. b \notin new .. new + n - 1
    BY <1>3, <1>4, <1>11
  <2> QED BY <1>1, <1>4, <1>9, <2>1 DEF Size
<1>13. /\ mem' \in [Addr -> Cell] /\ mem'[b + 1] = Tag(TRUE)
       /\ \A u \in Addr : u # b + 1 =>
            \/ mem'[u] = m[u]
            \/ b + 2 <= u /\ u < b + 2 + n /\ m[u].kind = "data" /\ mem'[u] = Data(Junk)
       /\ heap_used' \in Int /\ pc' = "coalesce" /\ at' = 0 /\ freed' = freed \cup {b + 2}
  BY <1>4, <1>6, <1>8, <1>10, <1>12, ReleaseIs
\* Outside the two blocks nothing changes.
<1>14. \A u \in Addr : (u < b \/ Last(b) <= u) /\ u \notin new .. new + n - 1 => mem'[u] = mem[u]
  <2> SUFFICES ASSUME NEW u \in Addr, u < b \/ Last(b) <= u, u \notin new .. new + n - 1
               PROVE  mem'[u] = mem[u]
    OBVIOUS
  <2>1. u # b + 1 /\ ~(b + 2 <= u /\ u < b + 2 + n)
    BY <1>4, AddrIs
  <2> QED BY <1>9, <1>13, <2>1
<1>15. \A c \in chain : mem'[c] = mem[c] /\ (c # b => mem'[c + 1] = mem[c + 1])
  <2> SUFFICES ASSUME NEW c \in chain PROVE mem'[c] = mem[c] /\ (c # b => mem'[c + 1] = mem[c + 1])
    OBVIOUS
  <2>1. /\ c \in Nat /\ c \in Addr /\ c + 1 \in Addr /\ Last(c) \in Nat /\ c + 2 <= Last(c)
        /\ c # b => Last(b) <= c \/ Last(c) <= b
    BY <1>3, BlockIs, Apart DEF IInv
  <2>2. c \notin new .. new + n - 1 /\ c + 1 \notin new .. new + n - 1
    BY <1>11, <2>1
  <2>3. c # b + 1 /\ ~(b + 2 <= c /\ c < b + 2 + n)
    BY <1>4, <2>1
  <2>4. c # b => c + 1 # b + 1 /\ ~(b + 2 <= c + 1 /\ c + 1 < b + 2 + n)
    BY <1>4, <2>1
  <2> QED BY <1>9, <1>13, <2>1, <2>2, <2>3, <2>4
<1>16. \A u \in Addr : mem'[u].kind = "tag" /\ ~mem'[u].free => mem'[u] = mem[u]
  <2> SUFFICES ASSUME NEW u \in Addr, mem'[u].kind = "tag", ~mem'[u].free PROVE mem'[u] = mem[u]
    OBVIOUS
  <2>1. mem'[u] = m[u]
    BY <1>13 DEF Tag, Data
  <2>2. CASE u \in new .. new + n - 1
    <3>1. PICK v : v = o + (u - new)
      OBVIOUS
    <3>2. v \in Addr /\ b + 2 <= v /\ v < Last(b) /\ mem'[u] = mem[v]
      BY <1>9, <2>1, <2>2, <3>1
    <3>3. ~(mem[v].kind = "tag" /\ ~mem[v].free)
      BY <1>1, <1>2, <1>3, <3>2, NoTagInside
    <3> QED BY <3>2, <3>3
  <2> QED BY <1>9, <2>1, <2>2

<1>17. /\ g \in Holding /\ g.raw = a /\ g.units = use /\ g.stamp = live[o].stamp /\ g.len = live[o].len
  <2> DEFINE h == live[o]
  <2>1. h \in Holding /\ g = [h EXCEPT !.raw = a, !.units = use]
    BY <1>3
  <2> HIDE DEF h, g
  <2>2. /\ g \in Holding /\ g.raw = a /\ g.units = use /\ g.stamp = h.stamp /\ g.len = h.len
    BY <1>2, <1>4, <2>1 DEF Holding
  <2> QED BY <2>2 DEF h
<1> HIDE DEF g
<1>18. new \notin DOMAIN live /\ new \in Addr /\ new # o
  <2>1. new \in Addr
    <3>1. 1 <= use
      BY <1>1, <1>2 DEF IInv, Arguments
    <3>2. new \in Nat /\ new < Units
      BY <1>2, <1>4, <1>5, <1>7, <3>1
    <3> QED BY <3>2, AddrIs
  <2>2. ASSUME new \in DOMAIN live PROVE FALSE
    <3>1. PICK c : c = live[new].raw
      OBVIOUS
    <3>2. c \in chain /\ c # a /\ c + 2 <= new /\ live[new].units \in Nat
          /\ new + live[new].units <= Last(c)
      BY <1>2, <2>2, <3>1, HoldingIs DEF IInv
    <3>3. c \in Nat /\ Last(c) \in Nat /\ (Last(c) <= a \/ Last(a) <= c)
      BY <1>2, <3>2, BlockIs, Apart DEF IInv
    <3>4. new <= Last(c)
      BY <1>4, <1>7, <3>2, <3>3
    <3> QED BY <1>4, <1>7, <3>2, <3>3, <3>4
  <2> QED BY <1>2, <2>1, <2>2
<1>19. /\ DOMAIN live' = (DOMAIN live \ {o}) \cup {new} /\ live'[new] = g
       /\ \A q \in DOMAIN live : q # o => q \in DOMAIN live' /\ live'[q] = live[q]
       /\ live' \in [DOMAIN live' -> Holding] /\ DOMAIN live' \subseteq Addr
  BY <1>8, <1>17, <1>18 DEF IInv, TypeOK
<1>20. ASSUME NEW q \in DOMAIN live'
       PROVE  /\ live'[q].len <= live'[q].units
              /\ live'[q].raw \in chain /\ live'[q].raw # b /\ ~Free(live'[q].raw)
              /\ q >= live'[q].raw + HEADER /\ q + live'[q].units <= Last(live'[q].raw)
              /\ \A u \in q .. q + live'[q].len - 1 : mem'[u] = Data(live'[q].stamp)
              /\ \A r \in DOMAIN live' : live'[q].raw = live'[r].raw => q = r
  <2>1. CASE q = new
    <3>1. /\ live'[q].len = live[o].len /\ live'[q].units = use /\ live'[q].raw = a
          /\ live'[q].stamp = live[o].stamp
      BY <1>17, <1>19, <2>1
    <3>2. live[o].len <= n
      BY <1>3, <1>4
    <3>3. ASSUME NEW u \in new .. new + live[o].len - 1 PROVE mem'[u] = Data(live[o].stamp)
      <4>1. u \in Nat /\ u \in new .. new + n - 1 /\ u < Last(a)
        BY <1>3, <1>4, <1>5, <1>7, <3>2
      <4>2. u \in Addr
        BY <1>4, <1>5, <4>1, AddrIs
      <4>3. mem'[u] = mem[o + (u - new)]
        BY <1>9, <1>11, <1>13, <4>1, <4>2
      <4>4. o + (u - new) \in o .. o + live[o].len - 1
        BY <1>3, <1>4, <1>7
      <4> QED BY <1>2, <4>3, <4>4 DEF IInv, Intact
    <3>4. \A r \in DOMAIN live' : live'[r].raw = a => r = new
      BY <1>2, <1>19
    <3>5. live[o].len <= use /\ new >= a + HEADER /\ new + use <= Last(a)
      BY <1>2, <1>3, <1>4, <1>5, <1>7, <3>2 DEF HEADER
    <3> QED BY <1>2, <1>3, <2>1, <3>1, <3>3, <3>4, <3>5
  <2>2. CASE q # new
    <3>1. q \in DOMAIN live /\ q # o /\ live'[q] = live[q]
      BY <1>19, <2>2
    <3>2. /\ live[q].raw \in chain /\ ~Free(live[q].raw) /\ live[q].len <= live[q].units
          /\ q >= live[q].raw + HEADER /\ q + live[q].units <= Last(live[q].raw)
          /\ \A r \in DOMAIN live : live[q].raw = live[r].raw => q = r
      BY <3>1 DEF IInv, Owned, Arguments
    <3>3. live[q].raw # b /\ live[q].raw # a
      BY <1>1, <1>2, <3>1, <3>2
    <3>4. ASSUME NEW u \in q .. q + live[q].len - 1 PROVE mem'[u] = Data(live[q].stamp)
      <4>1. /\ u \in Nat /\ u \in Addr /\ mem[u] = Data(live[q].stamp)
            /\ u < b \/ Last(b) <= u
            /\ u < a \/ Last(a) <= u
        BY <1>2, <1>3, <3>1, <3>3, Written
      <4>2. u \notin new .. new + n - 1
        BY <1>4, <1>11, <4>1
      <4> QED BY <1>14, <4>1, <4>2
    <3>5. \A r \in DOMAIN live' : live[q].raw = live'[r].raw => q = r
      BY <1>17, <1>19, <3>2, <3>3
    <3> QED BY <3>1, <3>2, <3>3, <3>4, <3>5
  <2> QED BY <2>1, <2>2
<1>21. NoCall \in Req
  BY DEF NoCall, Req
<1>22. \E q \in DOMAIN live' : live'[q].raw = at
  BY <1>1, <1>17, <1>19
<1>23. GivesBack(b)
  BY <1>1, <1>2, <1>3, <1>8, <1>13, <1>15, <1>16, <1>19, <1>20, <1>21, <1>22 DEF GivesBack
<1>24. IInv'
  BY <1>23, GivesBackInv
<1>25. Refunded(b)
  <2>1. heap_used' = heap_used - m[(b + 2) - HEADER].size
    BY <1>8 DEF Release
  <2>2. (b + 2) - HEADER = b /\ m[b].size = Size(b)
    BY <1>1, <1>4, <1>12 DEF HEADER
  <2>3. heap_used' = heap_used - Size(b)
    BY <2>1, <2>2
  <2> QED BY <1>23, <2>3, GivesBackRefunded
<1> QED BY <1>24, <1>25

----------------------------------------------------------------------------
(* heap_coalesce merges two neighbours.                                    *)

LEMMA MergeInv == ASSUME IInv, Merge PROVE IInv' /\ Even
<1>1. PICK a, d, f : a = at /\ d = NextOf(a) /\ f = NextOf(d)
  OBVIOUS
<1>2. /\ pc = "coalesce" /\ d # NULL /\ Free(a) /\ Free(d) /\ a \in chain
      /\ chain' = chain \ {d} /\ UNCHANGED <<heap_used, pc, at, req, live, freed>>
  BY <1>1 DEF Merge, BothFree, IInv, Position
<1>3. /\ a \in Nat /\ a \in Addr /\ a + 1 \in Addr /\ Size(a) \in Nat /\ Last(a) = a + 2 + Size(a)
      /\ d \in chain /\ d = Last(a)
      /\ mem[a + 1].kind = "tag" /\ mem[a + 1].free
  BY <1>1, <1>2, BlockIs DEF IInv
<1>4. /\ d \in Nat /\ d \in Addr /\ d + 1 \in Addr /\ Size(d) \in Nat /\ Last(d) = d + 2 + Size(d)
      /\ Last(d) \in Nat /\ Last(d) <= Units
      /\ f \in Addr \cup {NULL} /\ f = (IF Last(d) = Units THEN NULL ELSE Last(d))
      /\ f # NULL => f \in chain
      /\ mem[d + 1].kind = "tag" /\ mem[d + 1].free
  BY <1>1, <1>2, <1>3, BlockIs DEF IInv
<1>5. PICK n : n = Size(a) + HEADER + Size(d)
  OBVIOUS
<1>6. n \in 0 .. Units /\ a + 2 + n = Last(d) /\ a < d /\ Units \in Nat
  BY <1>3, <1>4, <1>5, AddrIs DEF HEADER
<1>7. mem' = [mem EXCEPT ![a] = Link(n, f), ![d] = Data(Junk)]
  BY <1>1, <1>5 DEF Merge
<1>8. Link(n, f) \in Cell /\ Data(Junk) \in Cell /\ mem \in [Addr -> Cell]
  BY <1>4, <1>6 DEF Link, Data, Cell, IInv, TypeOK
<1>9. /\ mem' \in [Addr -> Cell] /\ mem'[a] = Link(n, f) /\ mem'[d] = Data(Junk)
      /\ \A u \in Addr : u # a /\ u # d => mem'[u] = mem[u]
  <2>1. a # d
    BY <1>3, <1>4, <1>6
  <2> QED BY <1>3, <1>4, <1>7, <1>8, <2>1
<1>10. ASSUME NEW c \in chain, c # d
       PROVE  /\ c \in Nat /\ mem'[c + 1] = mem[c + 1] /\ mem'[c + 1].kind = "tag" /\ Free(c)' = Free(c)
              /\ c # a => mem'[c] = mem[c] /\ mem'[c].kind = "link"
  <2>1. /\ c \in Nat /\ c \in Addr /\ c + 1 \in Addr /\ Last(c) \in Nat /\ c + 2 <= Last(c)
        /\ mem[c].kind = "link" /\ mem[c + 1].kind = "tag"
    BY BlockIs DEF IInv
  <2>2. Last(c) <= d \/ Last(d) <= c
    BY <1>3, <1>10, Apart DEF IInv
  <2>3. c # a => Last(c) <= a \/ Last(a) <= c
    BY <1>2, Apart DEF IInv
  <2>4. c + 1 # a /\ c + 1 # d
    BY <1>3, <1>4, <2>1, <2>2, <2>3
  <2>5. mem'[c + 1] = mem[c + 1]
    BY <1>9, <2>1, <2>4
  <2>6. c # a => mem'[c] = mem[c]
    BY <1>9, <1>10, <2>1
  <2> QED BY <2>1, <2>5, <2>6 DEF Free
<1>11. Size(a)' = n /\ NextOf(a)' = f /\ Last(a)' = Last(d)
  BY <1>6, <1>9 DEF Size, NextOf, Last, Link, HEADER
<1>12. ASSUME NEW c \in chain, c # d, c # a
       PROVE  /\ Size(c)' = Size(c) /\ NextOf(c)' = NextOf(c) /\ Last(c)' = Last(c)
              /\ NextOf(c) # NULL => NextOf(c) \in chain /\ NextOf(c) # d
  <2>1. Size(c)' = Size(c) /\ NextOf(c)' = NextOf(c) /\ Last(c)' = Last(c)
    BY <1>10, <1>12 DEF Size, NextOf, Last
  <2>2. NextOf(c) # NULL => NextOf(c) \in chain
    BY BlockIs DEF IInv
  <2>3. ASSUME NextOf(c) = d PROVE FALSE
    <3>1. c \in Nat /\ c < d /\ (a < d => a <= c)
      BY <1>2, <1>12, <2>3, NextIsNext, BlockIs DEF IInv
    <3>2. c < d => c <= a
      BY <1>1, <1>2, NextIsNext DEF IInv
    <3> QED BY <1>3, <1>6, <1>12, <3>1, <3>2
  <2> QED BY <2>1, <2>2, <2>3
<1>13. a \in chain' /\ (f # NULL => f \in chain')
  BY <1>2, <1>3, <1>4, <1>6
<1>14. Tiling'
  <2>1. heap_head \in chain'
    <3>1. 0 \in chain
      BY DEF IInv, Tiling, heap_head
    <3>2. 0 # d
      BY <1>3, <1>4, <1>6
    <3> QED BY <1>2, <3>1, <3>2 DEF heap_head
  <2>2. ASSUME NEW c \in chain'
        PROVE  /\ mem'[c].kind = "link" /\ HasMagic(c)'
               /\ Last(c)' <= Units
               /\ NextOf(c)' = IF Last(c)' = Units THEN NULL ELSE Last(c)'
               /\ NextOf(c)' # NULL => NextOf(c)' \in chain'
               /\ \A e \in chain' : c < e => Last(c)' <= e
    <3>1. c \in chain /\ c # d
      BY <1>2, <2>2
    <3>2. HasMagic(c)'
      BY <1>10, <3>1 DEF HasMagic
    <3>3. CASE c = a
      <4>1. mem'[a].kind = "link"
        BY <1>9 DEF Link
      <4>2. \A e \in chain' : a < e => Last(d) <= e
        <5> SUFFICES ASSUME NEW e \in chain', a < e PROVE Last(d) <= e
          OBVIOUS
        <5>1. e \in chain /\ e # d /\ e \in Nat
          BY <1>2, BlockIs DEF IInv
        <5>2. Last(e) \in Nat /\ e + 2 <= Last(e) /\ (e < d => e <= a)
          BY <1>1, <1>2, <5>1, NextIsNext, BlockIs DEF IInv
        <5>3. Last(e) <= d \/ Last(d) <= e
          BY <1>3, <5>1, Apart DEF IInv
        <5> QED BY <1>3, <1>4, <5>1, <5>2, <5>3
      <4> QED BY <1>4, <1>11, <1>13, <3>2, <3>3, <4>1, <4>2
    <3>4. CASE c # a
      <4>1. /\ Last(c) <= Units
            /\ NextOf(c) = IF Last(c) = Units THEN NULL ELSE Last(c)
            /\ \A e \in chain : c < e => Last(c) <= e
        BY <3>1 DEF IInv, Tiling
      <4>2. NextOf(c) # NULL => NextOf(c) \in chain'
        BY <1>2, <1>12, <3>1, <3>4
      <4> QED BY <1>2, <1>10, <1>12, <3>1, <3>2, <3>4, <4>1, <4>2
    <3> QED BY <3>3, <3>4
  <2> QED BY <2>1, <2>2 DEF Tiling
<1>15. \A q \in DOMAIN live : /\ live[q].raw \in chain /\ live[q].raw # d /\ live[q].raw # a
                              /\ ~Free(live[q].raw)
  BY <1>2 DEF IInv, Owned
<1>16. Owned'
  <2>1. ASSUME NEW q \in DOMAIN live, NEW c, c = live[q].raw
        PROVE  /\ c \in chain' /\ ~Free(c)' /\ q >= c + HEADER /\ q + live[q].units <= Last(c)'
    <3>1. /\ c \in chain /\ c # a /\ c # d /\ ~Free(c) /\ q >= c + HEADER
          /\ q + live[q].units <= Last(c)
      BY <1>15, <2>1 DEF IInv, Owned
    <3> QED BY <1>2, <1>10, <1>12, <3>1
  <2>2. \A q, r \in DOMAIN live : live[q].raw = live[r].raw => q = r
    BY DEF IInv, Owned
  <2> QED BY <1>2, <2>1, <2>2 DEF Owned
<1>17. Intact'
  <2>1. ASSUME NEW q \in DOMAIN live, NEW u \in q .. q + live[q].len - 1
        PROVE  mem'[u] = Data(live[q].stamp)
    <3>1. /\ u \in Nat /\ u \in Addr /\ mem[u] = Data(live[q].stamp)
          /\ u < a \/ Last(a) <= u
          /\ u < d \/ Last(d) <= u
      BY <1>2, <1>3, <1>15, Written
    <3>2. u # a /\ u # d
      BY <1>3, <1>4, <3>1
    <3> QED BY <1>9, <3>1, <3>2
  <2> QED BY <1>2, <2>1 DEF Intact
<1>18. TypeOK'
  BY <1>2, <1>9 DEF IInv, TypeOK
<1>19. Arguments' /\ Spaced' /\ PanicJustified'
  BY <1>2 DEF IInv, Arguments, Spaced, PanicJustified
<1>20. Position'
  <2>1. ASSUME NEW c \in chain', c < a PROVE Both(c)'
    <3>0. c \in chain /\ c # d /\ c \in Nat
      BY <1>2, <1>10, <2>1
    <3>1. c \in chain /\ c # d /\ c # a /\ Both(c)
      BY <1>1, <1>2, <1>3, <2>1, <3>0 DEF IInv, Position
    <3>2. PICK e : e = NextOf(c)
      OBVIOUS
    <3>3. e = NextOf(c)' /\ (e # NULL => e \in chain /\ e # d)
      BY <1>12, <3>1, <3>2
    <3>4. e # NULL => Free(e)' = Free(e)
      BY <1>10, <3>3
    <3>5. e # NULL => ~(Free(c)' /\ Free(e)')
      BY <1>10, <3>1, <3>2, <3>4 DEF Both
    <3>6. Free(NextOf(c))' = Free(e)'
      BY <3>3 DEF Free
    <3> QED BY <3>3, <3>5, <3>6 DEF Both
  <2> QED BY <1>1, <1>2, <1>13, <2>1 DEF Position
<1>21. Holders'
  <2> SUFFICES ASSUME NEW c \in chain', ~Free(c)' PROVE \E q \in DOMAIN live : live[q].raw = c
    BY <1>2 DEF Holders
  <2>1. c \in chain /\ ~Free(c)
    BY <1>2, <1>10
  <2> QED BY <1>2, <2>1 DEF IInv, Holders
<1>22. Tags'
  <2> SUFFICES ASSUME NEW u \in Addr, mem'[u].kind = "tag", ~mem'[u].free
               PROVE  u - 1 \in chain' \/ u + 1 \in DOMAIN live
    BY <1>2 DEF Tags
  <2>1. u # a /\ u # d
    BY <1>9 DEF Link, Data
  <2>2. mem[u].kind = "tag" /\ ~mem[u].free
    BY <1>9, <2>1
  <2>3. u - 1 # d
    <3>1. u # d + 1
      BY <1>4, <2>2
    <3> QED BY <1>4, <3>1, AddrIs
  <2> QED BY <1>2, <2>2, <2>3 DEF IInv, Tags
<1>23. Freeable'
  <2>1. \A c \in chain' : ~Free(c)' => c + HEADER \notin freed'
    <3> SUFFICES ASSUME NEW c \in chain', ~Free(c)' PROVE c + HEADER \notin freed
      BY <1>2
    <3>1. c \in chain /\ ~Free(c)
      BY <1>2, <1>10
    <3> QED BY <3>1 DEF IInv, Freeable
  <2> QED BY <1>2, <2>1 DEF IInv, Freeable
<1>inv. IInv'
  BY <1>14, <1>16, <1>17, <1>18, <1>19, <1>20, <1>21, <1>22, <1>23 DEF IInv
<1>even. Even
  <2>1. Busy' = Busy
    BY <1>2, <1>10 DEF Busy
  <2>2. \A c \in Busy : Size(c)' = Size(c)
    BY <1>2, <1>12 DEF Busy
  <2> QED BY <1>2, <2>1, <2>2 DEF Even
<1> QED BY <1>inv, <1>even

----------------------------------------------------------------------------
(* The theorems.                                                           *)

LEMMA NextInv == IInv /\ [Next]_vars => IInv'
<1> SUFFICES ASSUME IInv, [Next]_vars PROVE IInv'
  OBVIOUS
<1>1. CASE UNCHANGED vars
  BY <1>1 DEF vars, IInv, TypeOK, Tiling, Owned, Intact, Arguments, Position, Spaced, Holders,
         Tags, Freeable, PanicJustified, Both, Free, HasMagic, Size, NextOf, Last, Own, Fits
<1>2. CASE Client
  <2>1. ASSUME NEW bytes \in Requests, kmalloc(bytes) PROVE IInv'
    BY <2>1, RequestsInv
  <2>2. ASSUME NEW bytes \in Requests, NEW count \in {1, 2}, kcalloc(count, bytes) PROVE IInv'
    BY <2>2, RequestsInv
  <2>3. ASSUME NEW bytes \in Requests, NEW align \in Aligns, kmalloc_aligned(bytes, align) PROVE IInv'
    BY <2>3, RequestsInv
  <2>4. ASSUME NEW bytes \in Requests, NEW p \in DOMAIN live, krealloc(p, bytes) PROVE IInv'
    BY <2>4, RequestsInv, ReallocInPlaceInv DEF krealloc
  <2>5. ASSUME NEW p \in {q \in DOMAIN live : Own(q)} \cup Stale, kfree(p) PROVE IInv'
    BY <2>5, FreeInv
  <2>6. ASSUME NEW p \in DOMAIN live, NEW s \in Stamps, Write(p, s) PROVE IInv'
    BY <2>6, WriteInv
  <2> QED BY <1>2, <2>1, <2>2, <2>3, <2>4, <2>5, <2>6 DEF Client
<1>3. CASE Step
  BY <1>3, LooksInv, FoundInv, MoveInv, MergeInv DEF Step
<1>4. CASE Halted
  BY <1>1, <1>4 DEF Halted
<1> QED BY <1>1, <1>2, <1>3, <1>4 DEF Next

\* Every step leaves the books even, or charges or refunds one block.
Balanced == Even \/ \E b : Charged(b) \/ Refunded(b)

LEMMA NextBalanced == ASSUME IInv, [Next]_vars PROVE Balanced
<1>1. ASSUME UNCHANGED <<mem, chain, heap_used>> PROVE Even
  BY <1>1 DEF Even, Busy, Free, Size
<1>2. CASE UNCHANGED vars
  BY <1>1, <1>2 DEF vars, Balanced
<1>3. CASE Client
  <2>1. ASSUME NEW bytes \in Requests,
               \/ kmalloc(bytes)
               \/ \E count \in {1, 2} : kcalloc(count, bytes)
               \/ \E align \in Aligns : kmalloc_aligned(bytes, align)
               \/ \E p \in DOMAIN live : krealloc(p, bytes)
        PROVE  Even
    <3>1. UNCHANGED <<mem, chain, heap_used>>
      BY <2>1 DEF kmalloc, kcalloc, kmalloc_aligned, krealloc, ReallocInPlace, ReallocMoves, Call
    <3> QED BY <1>1, <3>1
  <2>2. ASSUME NEW p \in {q \in DOMAIN live : Own(q)} \cup Stale, kfree(p) PROVE Balanced
    <3>1. pc = "idle" /\ (Freed(p) \/ DoubleFree(p) \/ InvalidFree(p))
      BY <2>2 DEF kfree
    <3>2. CASE DoubleFree(p) \/ InvalidFree(p)
      BY <1>1, <3>2 DEF DoubleFree, InvalidFree, vars, Balanced
    <3>3. CASE Freed(p) /\ p \in DOMAIN live /\ Own(p)
      BY <3>1, <3>3, FreedInv DEF Balanced
    <3>4. CASE Freed(p) /\ p \in Stale
      BY <3>4, StaleIsFree DEF Freed
    <3> QED BY <2>2, <3>1, <3>2, <3>3, <3>4
  <2>3. ASSUME NEW p \in DOMAIN live, NEW s \in Stamps, Write(p, s) PROVE Even
    BY <2>3, WriteInv
  <2> QED BY <1>3, <2>1, <2>2, <2>3 DEF Client, Balanced
<1>4. CASE Step
  <2>1. CASE Visit \/ SearchFails \/ Advance \/ Coalesced
    BY <1>1, <2>1 DEF Visit, SearchFails, Advance, Coalesced, Balanced
  <2> QED BY <1>4, <2>1, FoundInv, MoveInv, MergeInv DEF Step, Balanced
<1>5. CASE Halted
  BY <1>2, <1>5 DEF Halted
<1> QED BY <1>2, <1>3, <1>4, <1>5 DEF Next

\* heap_used is the sum over the blocks in use.
Counted == heap_used = SumOf(mem, Busy)

LEMMA CountedStep == ASSUME IInv, Counted, Balanced PROVE Counted'
<1>1. IsFiniteSet(Busy) /\ Sized(mem, Busy)
  <2>1. IsFiniteSet(Addr)
    BY FS_Interval, HeapAssumption DEF Addr
  <2>2. Busy \subseteq Addr
    BY DEF Busy, IInv, TypeOK
  <2>3. \A b \in Busy : mem[b].size \in Int
    BY BlockIs DEF Busy, IInv, Size
  <2> QED BY <2>1, <2>2, <2>3, FS_Subset DEF Sized
<1>2. heap_used \in Int
  BY DEF IInv, TypeOK
<1>3. CASE Even
  <2>1. \A c \in Busy : mem[c].size = mem'[c].size
    BY <1>3 DEF Even, Size
  <2>2. SumOf(mem, Busy) = SumOf(mem', Busy)
    BY <1>1, <2>1, SumAgrees
  <2> QED BY <1>3, <2>2 DEF Even, Counted
<1>4. ASSUME NEW b, Charged(b) PROVE Counted'
  <2>1. PICK T : T = Busy \cup {b}
    OBVIOUS
  <2>2. b \in T /\ T \ {b} = Busy /\ Busy' = T /\ heap_used' = heap_used + mem'[b].size
    BY <1>4, <2>1 DEF Charged, Size
  <2>3. \A c \in Busy : mem[c].size = mem'[c].size
    BY <1>4 DEF Charged, Size
  <2>4. IsFiniteSet(T)
    BY <1>1, <2>1, FS_AddElement
  <2>5. SumOf(mem, Busy) = SumOf(mem', Busy)
    BY <1>1, <2>3, SumAgrees
  <2>6. mem'[b].size \in Int
    BY <1>4 DEF Charged, Size
  <2>7. Sized(mem', T)
    BY <1>1, <2>1, <2>3, <2>6 DEF Sized
  <2>8. SumOf(mem', T) = mem'[b].size + SumOf(mem', T \ {b}) /\ SumOf(mem', T \ {b}) \in Int
    BY <2>2, <2>4, <2>7, SumSplit
  <2>9. SumOf(mem', T) = mem'[b].size + heap_used
    BY <2>2, <2>5, <2>8 DEF Counted
  <2>10. heap_used' = SumOf(mem', T)
    BY <1>2, <2>2, <2>6, <2>9
  <2> QED BY <2>2, <2>10 DEF Counted
<1>5. ASSUME NEW b, Refunded(b) PROVE Counted'
  <2>1. PICK T : T = Busy \ {b}
    OBVIOUS
  <2>2. b \in Busy /\ Busy' = T /\ heap_used' = heap_used - mem[b].size
    BY <1>5, <2>1 DEF Refunded, Size
  <2>3. \A c \in T : mem[c].size = mem'[c].size
    BY <1>5, <2>1 DEF Refunded, Size
  <2>4. IsFiniteSet(T)
    BY <1>1, <2>1, FS_RemoveElement
  <2>5. SumOf(mem, T) = SumOf(mem', T)
    BY <2>3, <2>4, SumAgrees
  <2>6. SumOf(mem, Busy) = mem[b].size + SumOf(mem, T) /\ SumOf(mem, T) \in Int
    BY <1>1, <2>1, <2>2, SumSplit
  <2>7. mem[b].size \in Int
    BY <1>1, <2>2 DEF Sized
  <2> QED BY <1>2, <2>2, <2>5, <2>6, <2>7 DEF Counted
<1> QED BY <1>3, <1>4, <1>5 DEF Balanced

LEMMA Invariance == Spec => []IInv
  BY InitInv, NextInv, PTL DEF Spec

\* The cells, the request and what clients hold are well formed throughout.
THEOREM TypeCorrect == Spec => []TypeOK
<1>1. IInv => TypeOK
  BY DEF IInv
<1> QED BY <1>1, Invariance, PTL

\* heap_split and heap_coalesce keep the list a tiling of the heap, at every turn of
\* kmalloc's and heap_coalesce's loops.
THEOREM AlwaysTiled == Spec => []Tiling
<1>1. IInv => Tiling
  BY DEF IInv
<1> QED BY <1>1, Invariance, PTL

\* kmalloc, kcalloc, kmalloc_aligned and krealloc hand out memory that no other
\* client holds, in a block that is in use and large enough.
THEOREM NothingShared == Spec => []Owned
<1>1. IInv => Owned
  BY DEF IInv
<1> QED BY <1>1, Invariance, PTL

\* What a client wrote stays in its memory, and krealloc takes it along.
THEOREM ContentsKept == Spec => []Intact
<1>1. IInv => Intact
  BY DEF IInv
<1> QED BY <1>1, Invariance, PTL

\* kmalloc's panics are true: nothing fitted, and no header was ever damaged.
THEOREM PanicsAreTrue == Spec => []PanicJustified
<1>1. IInv => PanicJustified
  BY DEF IInv
<1> QED BY <1>1, Invariance, PTL

\* Between calls every block in use has a client and no two free blocks touch.
THEOREM NoLeak == Spec => []NothingLost
<1>1. IInv => NothingLost
  BY DEF IInv, NothingLost, Holders, Spaced, Both
<1> QED BY <1>1, Invariance, PTL

\* A second kfree of a pointer finds a free block or no block, and changes nothing.
THEOREM SecondFreeCaught == Spec => []DoubleFreeCaught
<1>1. IInv => DoubleFreeCaught
  BY StaleIsFree DEF DoubleFreeCaught
<1> QED BY <1>1, Invariance, PTL

\* heap_used, which kmalloc adds to and kfree subtracts from, is always the sum of
\* the sizes of the blocks in use.
THEOREM UsedIsExact == Spec => []UsedExact
<1>1. Init => Counted
  <2> SUFFICES ASSUME Init PROVE Counted
    OBVIOUS
  <2>1. Free(0) /\ chain = {0} /\ heap_used = 0
    BY HeapAssumption DEF Init, Free, Addr, heap_head, Tag, Link, Data
  <2>2. Busy = {}
    BY <2>1 DEF Busy
  <2> QED BY <2>1, <2>2, SumEmpty DEF Counted
<1>2. IInv /\ Counted /\ [Next]_vars => Counted'
  BY NextBalanced, CountedStep
<1>3. Counted => UsedExact
  BY DEF Counted, UsedExact, Busy, SumOf, Size
<1> QED BY <1>1, <1>2, <1>3, Invariance, PTL DEF Spec
=============================================================================
