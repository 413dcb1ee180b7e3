----------------------------- MODULE PagesProofs -----------------------------
(***************************************************************************)
(* Physical pages and page tables for every memory map, size of memory and *)
(* number of entries in a table.  The invariant has two parts.  About the  *)
(* bitmap: which pages can be clear while pmm_init still marks regions     *)
(* (Bits, Marks, Covered).  About the tables: a table is reached along one *)
(* path of indices only (Tree), nobody else has its page (Private), huge   *)
(* entries are in tables of the third level (HugeAtThree), and the walk of *)
(* vmm_map_page is where the path of its page leads (Walking).             *)
(***************************************************************************)
EXTENDS Pages, WellFoundedInduction, FiniteSetTheorems, TLAPS

FreePages == Page \ bitmap
Avoids(p, i) == PageBytes(p) \cap Bytes(Reserved[i]) = {}

Bits == /\ FreePages \subseteq 0 .. total - 1
        /\ held \subseteq bitmap /\ held \subseteq 0 .. total - 1
        /\ todo # << >> => held = {} /\ walk = Idle

\* regions are freed before any is reserved; a reserved one is still to come or is
\* in force
Marks ==
    /\ \A j \in DOMAIN todo : todo[j].mark = "free" => todo[j].region \in usable
    /\ \A j, k \in DOMAIN todo : j < k /\ todo[j].mark = "used" => todo[k].mark = "used"
    /\ \A i \in DOMAIN Reserved :
         \/ \E j \in DOMAIN todo : todo[j].mark = "used" /\ todo[j].region = Reserved[i]
         \/ /\ \A j \in DOMAIN todo : todo[j].mark = "used"
            /\ \A p \in FreePages : Avoids(p, i)

Covered == /\ \A p \in FreePages \cup held : PageBytes(p) \subseteq UNION {Bytes(r) : r \in usable}
           /\ \A p \in held : \A i \in DOMAIN Reserved : Avoids(p, i)

\* The tables along a path of indices, in memory of content c.
Tables == [Page -> [Index -> EntrySet]]
Path == [1 .. 4 -> Index]
Follow(c, t, i) == IF t # NONE /\ c[t][i].present /\ ~c[t][i].huge THEN c[t][i].page ELSE NONE
Tab(c, l, x) == LET t2 == Follow(c, Boot[1], x[1])
                    t3 == Follow(c, t2, x[2])
                IN  <<Boot[1], t2, t3, Follow(c, t3, x[3])>>[l]
At(c, l, x) == c[Tab(c, l, x)][x[l]]
PathOf(v) == [l \in 1 .. 4 |-> IndexAt(v, l)]
Agree(l, x, y) == \A n \in 1 .. l : x[n] = y[n]

Tree(c) == \A l, m \in 1 .. 4 : \A x, y \in Path :
    Tab(c, l, x) # NONE /\ Tab(c, l, x) = Tab(c, m, y) => l = m /\ Agree(l - 1, x, y)

HugeAtThree(c) == \A l \in 1 .. 4 : \A x \in Path : Tab(c, l, x) # NONE /\ At(c, l, x).huge => l = 3

Private == \A l \in 1 .. 4 : \A x \in Path : Tab(content, l, x) # NONE =>
    /\ Tab(content, l, x) \notin held
    /\ todo = << >> => Tab(content, l, x) \in bitmap
    /\ todo # << >> => \E k \in DOMAIN Boot : Tab(content, l, x) = Boot[k]

\* what a lookup along a path finds
Large(c, x) == Tab(c, 3, x) # NONE /\ At(c, 3, x).huge
Phys(c, x) == IF Tab(c, 4, x) # NONE
              THEN IF At(c, 4, x).present THEN At(c, 4, x).page ELSE NONE
              ELSE IF Large(c, x) THEN At(c, 3, x).page + x[4] ELSE NONE

Lookup == \A v \in VirtualPage : Phys(content, PathOf(v)) = expected[v]

Walking ==
    walk.op = "map" =>
        /\ walk.table = Tab(content, walk.level, PathOf(walk.virt))
        /\ walk.phys .. walk.phys + walk.left - 1 \subseteq held
        /\ \A w \in walk.virt .. walk.virt + walk.left - 1 :
              w \in VirtualPage /\ ~Large(content, PathOf(w))

IInv == /\ TypeOK /\ CountExact /\ Bits /\ Marks /\ Covered
        /\ Tree(content) /\ HugeAtThree(content) /\ Private /\ Lookup /\ Walking

----------------------------------------------------------------------------
(* Numbers.                                                                *)

\* Every set of naturals that is not empty has a least element; what holds for all
\* numbers is shown by looking at the least that breaks it.
LEMMA Least ==
  ASSUME NEW T, T \subseteq Nat, T # {}
  PROVE  \E x \in T : \A y \in T : x <= y
<1> DEFINE R == OpToRel(<, Nat)
<1>1. \A x, y \in Nat : <<x, y>> \in R <=> x < y
  BY DEF OpToRel
<1>2. IsWellFoundedOn(R, Nat)
  BY NatLessThanWellFounded
<1> HIDE DEF R
<1>3. PICK x \in T : \A y \in T : ~(<<y, x>> \in R)
  BY <1>2, WFMin
<1>4. ASSUME NEW y \in T PROVE x <= y
  <2>1. x \in Nat /\ y \in Nat
    OBVIOUS
  <2>2. ~(y < x)
    BY <1>1, <1>3, <2>1
  <2> QED BY <2>1, <2>2
<1> QED BY <1>4

LEMMA MinIs ==
  ASSUME NEW S, S \subseteq Nat, S # {}
  PROVE  Min(S) \in S /\ \A y \in S : Min(S) <= y
  BY Least DEF Min

LEMMA MaxIs ==
  ASSUME NEW S, S \subseteq Nat, S # {}, NEW b \in Nat, \A y \in S : y <= b
  PROVE  Max(S) \in S /\ \A y \in S : y <= Max(S)
<1> DEFINE U == {u \in Nat : \A y \in S : y <= u}
<1>1. PICK u \in U : \A w \in U : u <= w
  BY Least
<1>2. u \in Nat /\ \A y \in S : y <= u
  OBVIOUS
<1>3. u \in S
  <2> SUFFICES ASSUME u \notin S PROVE FALSE
    OBVIOUS
  <2>1. \A y \in S : y \in Nat /\ y < u
    BY <1>2
  <2>a. PICK z \in S : z \in Nat /\ z < u
    BY <2>1
  <2>2. u - 1 \in Nat /\ \A y \in S : y <= u - 1
    BY <1>2, <2>1, <2>a
  <2>3. u - 1 \in U
    BY <2>2
  <2>4. u <= u - 1
    BY <1>1, <2>3
  <2> QED BY <1>2, <2>4
<1>4. \E x \in S : \A y \in S : x >= y
  BY <1>2, <1>3
<1>5. Max(S) \in S /\ \A y \in S : Max(S) >= y
  BY <1>4 DEF Max
<1> QED BY <1>5

\* Finitely many numbers have a bound.
LEMMA Bounded ==
  ASSUME NEW n \in Nat, NEW f \in [1 .. n -> Nat]
  PROVE  \E b \in Nat : \A i \in 1 .. n : f[i] <= b
<1> DEFINE P(k) == \E b \in Nat : \A i \in 1 .. k : f[i] <= b
           T == {k \in 0 .. n : ~P(k)}
<1> HIDE DEF P
<1> SUFFICES ASSUME ~P(n) PROVE FALSE
  BY DEF P
<1>1. T \subseteq Nat /\ n \in T
  OBVIOUS
<1>2. PICK k \in T : \A j \in T : k <= j
  <2> HIDE DEF T
  <2> QED BY <1>1, Least
<1>3. k \in Nat /\ k <= n /\ ~P(k)
  OBVIOUS
<1>4. k # 0
  <2>1. P(0)
    <3>1. \A i \in 1 .. 0 : f[i] <= 0
      OBVIOUS
    <3> QED BY <3>1 DEF P
  <2> QED BY <1>3, <2>1
<1>5. k - 1 \in Nat /\ k - 1 <= n /\ k \in 1 .. n
  BY <1>3, <1>4
<1>6. P(k - 1)
  <2> SUFFICES ASSUME ~P(k - 1) PROVE FALSE
    OBVIOUS
  <2>1. k - 1 \in T
    BY <1>5
  <2>2. k <= k - 1
    BY <1>2, <2>1
  <2> QED BY <1>3, <2>2
<1>7. PICK b \in Nat : \A i \in 1 .. k - 1 : f[i] <= b
  BY <1>6 DEF P
<1>8. f[k] \in Nat /\ b + f[k] \in Nat
  BY <1>5
<1>9. ASSUME NEW i \in 1 .. k PROVE f[i] <= b + f[k]
  <2>1. i \in 1 .. n /\ (i = k \/ i \in 1 .. k - 1)
    BY <1>3
  <2>2. f[i] \in Nat /\ (i = k \/ f[i] <= b)
    BY <1>7, <2>1
  <2> QED BY <1>8, <2>2
<1>10. P(k)
  BY <1>8, <1>9 DEF P
<1> QED BY <1>3, <1>10

LEMMA Division ==
  ASSUME NEW x \in Nat, NEW d \in Nat \ {0}
  PROVE  /\ x \div d \in Nat /\ d * (x \div d) \in Nat
         /\ d * (x \div d) <= x
         /\ x < d * (x \div d) + d
  OBVIOUS

\* A product of naturals grows with its factors.
LEMMA Product ==
  ASSUME NEW d \in Nat \ {0}, NEW x \in Nat, NEW y \in Nat
  PROVE  /\ d * x \in Nat /\ x * d = d * x
         /\ d * x < d * y + d => x <= y
         /\ x < y => d * x + d <= d * y
         /\ d * (x + 1) = d * x + d
  OBVIOUS

----------------------------------------------------------------------------
(* Counting pages.                                                         *)

\* The pages below total that are in a set.
Low(S) == {p \in 0 .. total - 1 : p \in S}

LEMMA LowIs ==
  ASSUME total \in Nat, NEW S
  PROVE  /\ IsFiniteSet(Low(S)) /\ Cardinality(Low(S)) \in Nat /\ Cardinality(Low(S)) <= total
<1>1. IsFiniteSet(0 .. total - 1) /\ Cardinality(0 .. total - 1) = total
  <2>1. 0 \in Int /\ total - 1 \in Int
    OBVIOUS
  <2>2. /\ IsFiniteSet(0 .. total - 1)
        /\ Cardinality(0 .. total - 1) = IF 0 > total - 1 THEN 0 ELSE (total - 1) - 0 + 1
    BY <2>1, FS_Interval
  <2> QED BY <2>2
<1>2. Low(S) \in SUBSET (0 .. total - 1)
  BY DEF Low
<1>3. IsFiniteSet(Low(S)) /\ Cardinality(Low(S)) <= Cardinality(0 .. total - 1)
  BY <1>1, <1>2, FS_Subset
<1> QED BY <1>1, <1>3, FS_CardinalityType

LEMMA ClearCounts ==
  ASSUME TypeOK, CountExact, NEW S, S \subseteq 0 .. total - 1, Clear(S), total' = total
  PROVE  CountExact' /\ pmm_used_pages' \in 0 .. MaxPages /\ bitmap' = bitmap \ S
<1>1. /\ total \in Nat /\ total <= MaxPages /\ MaxPages \in Nat
      /\ bitmap' = bitmap \ S /\ pmm_used_pages = Cardinality(Low(bitmap))
      /\ pmm_used_pages' = pmm_used_pages - Cardinality(S \cap bitmap)
  BY PagesAssumption DEF TypeOK, CountExact, Clear, Low
<1>2. Low(bitmap) \cap S = S \cap bitmap /\ Low(bitmap') = Low(bitmap) \ S
  BY <1>1 DEF Low
<1>3. IsFiniteSet(Low(bitmap))
  BY <1>1, LowIs
<1>4. Cardinality(Low(bitmap) \ S) = Cardinality(Low(bitmap)) - Cardinality(Low(bitmap) \cap S)
  BY <1>3, FS_Difference
<1>5. pmm_used_pages' = Cardinality(Low(bitmap'))
  BY <1>1, <1>2, <1>4
<1>6. Cardinality(Low(bitmap')) \in Nat /\ Cardinality(Low(bitmap')) <= total
  BY <1>1, LowIs
<1>7. Low(bitmap') = {p \in 0 .. total' - 1 : p \in bitmap'}
  BY DEF Low
<1>8. CountExact'
  BY <1>5, <1>7, Zenon DEF CountExact
<1> QED BY <1>1, <1>5, <1>6, <1>8

LEMMA SetCounts ==
  ASSUME TypeOK, CountExact, NEW S, S \subseteq 0 .. total - 1, total' = total,
         bitmap' = bitmap \cup S, pmm_used_pages' = pmm_used_pages + Cardinality(S \ bitmap)
  PROVE  CountExact' /\ pmm_used_pages' \in 0 .. MaxPages
<1> DEFINE D == S \ bitmap
<1>1. /\ total \in Nat /\ total <= MaxPages /\ MaxPages \in Nat
      /\ pmm_used_pages = Cardinality(Low(bitmap))
  BY PagesAssumption DEF TypeOK, CountExact, Low
<1>2. Low(bitmap') = Low(bitmap) \cup D /\ Low(bitmap) \cap D = {} /\ D = Low(D)
  BY DEF Low
<1> HIDE DEF D
<1>3. IsFiniteSet(Low(bitmap)) /\ Cardinality(Low(bitmap)) \in Nat
  BY <1>1, LowIs
<1>a. IsFiniteSet(D) /\ Cardinality(D) \in Nat
  BY <1>1, <1>2, LowIs
<1>4. Cardinality(Low(bitmap) \cup D) =
        Cardinality(Low(bitmap)) + Cardinality(D) - Cardinality(Low(bitmap) \cap D)
  BY <1>3, <1>a, FS_Union
<1>5. pmm_used_pages' = Cardinality(Low(bitmap'))
  <2>1. Cardinality(Low(bitmap) \cap D) = 0
    BY <1>2, FS_EmptySet
  <2>2. pmm_used_pages' = Cardinality(Low(bitmap)) + Cardinality(D)
    BY <1>1 DEF D
  <2>3. Cardinality(Low(bitmap')) = Cardinality(Low(bitmap) \cup D)
    BY <1>2
  <2> DEFINE a == Cardinality(Low(bitmap))
             b == Cardinality(D)
  <2>4. a \in Nat /\ b \in Nat /\ pmm_used_pages' = a + b /\ Cardinality(Low(bitmap')) = a + b - 0
    BY <1>3, <1>a, <1>4, <2>1, <2>2, <2>3
  <2> HIDE DEF a, b
  <2> QED BY <2>4
<1>6. Cardinality(Low(bitmap')) \in Nat /\ Cardinality(Low(bitmap')) <= total
  BY <1>1, LowIs
<1>7. Low(bitmap') = {p \in 0 .. total' - 1 : p \in bitmap'}
  BY DEF Low
<1>8. CountExact'
  BY <1>5, <1>7, Zenon DEF CountExact
<1> QED BY <1>1, <1>5, <1>6, <1>8

----------------------------------------------------------------------------
(* Regions and pages.                                                      *)

Regions == [base : Nat, length : Nat]

LEMMA PageBytesIs ==
  ASSUME NEW p \in Nat
  PROVE  /\ PageSize * p \in Nat
         /\ \A u : u \in PageBytes(p) <=> u \in Nat /\ PageSize * p <= u /\ u < PageSize * p + PageSize
         /\ PageSize * p \in PageBytes(p)
<1>1. PageSize \in Nat \ {0}
  BY PagesAssumption
<1>2. PageSize * p \in Nat /\ p * PageSize = PageSize * p /\ (p + 1) * PageSize = PageSize * p + PageSize
  BY <1>1, Product
<1> DEFINE a == PageSize * p
           z == (p + 1) * PageSize
<1>a. PageBytes(p) = a .. z - 1
  BY <1>2 DEF PageBytes
<1>3. a \in Nat /\ z = a + PageSize
  BY <1>2
<1> HIDE DEF a, z
<1>4. \A u : u \in PageBytes(p) <=> u \in Nat /\ a <= u /\ u < a + PageSize
  BY <1>1, <1>a, <1>3
<1>5. a \in PageBytes(p)
  BY <1>1, <1>3, <1>4
<1> QED BY <1>3, <1>4, <1>5 DEF a

\* A page that pmm_mark_region_free frees lies wholly in the region.
LEMMA FreedIsInside ==
  ASSUME NEW r \in Regions, NEW p \in Nat, Ceil(r.base) <= p, p < Floor(r.base + r.length)
  PROVE  PageBytes(p) \subseteq Bytes(r)
<1> DEFINE d == PageSize
           b == r.base
           e == r.base + r.length
           q == Ceil(b)
           f == Floor(e)
<1>1. d \in Nat \ {0} /\ b \in Nat /\ e \in Nat /\ Bytes(r) = b .. e - 1
  BY PagesAssumption DEF Regions, Bytes
<1>a. q = (b + d - 1) \div d /\ q <= p
  BY DEF Ceil
<1>b. f = e \div d /\ p < f
  BY DEF Floor
<1> HIDE DEF d, b, e, q, f
<1>2. q = (b + d - 1) \div d /\ b + d - 1 \in Nat /\ f = e \div d /\ q <= p /\ p < f
  BY <1>1, <1>a, <1>b
<1>3. /\ q \in Nat /\ d * q \in Nat /\ b + d - 1 < d * q + d
      /\ f \in Nat /\ d * f \in Nat /\ d * f <= e
  BY <1>1, <1>2, Division
<1>4. d * q <= d * p /\ d * p + d <= d * f /\ d * p \in Nat
  <2>1. d * p \in Nat /\ (q < p => d * q + d <= d * p) /\ (p < f => d * p + d <= d * f)
    BY <1>1, <1>3, Product
  <2>2. q < p \/ q = p
    BY <1>2, <1>3
  <2> QED BY <1>1, <1>2, <1>3, <2>1, <2>2
<1>5. \A u : u \in PageBytes(p) <=> u \in Nat /\ d * p <= u /\ u < d * p + d
  BY PageBytesIs DEF d
<1> QED BY <1>1, <1>3, <1>4, <1>5

\* pmm_mark_region_used marks every page the region touches, if the region starts at a page.
LEMMA TouchedIsMarked ==
  ASSUME NEW r \in Regions, r.base % PageSize = 0, NEW p \in Nat, PageBytes(p) \cap Bytes(r) # {}
  PROVE  Floor(r.base) <= p /\ p < Floor(r.base) + Ceil(r.length)
<1> DEFINE d == PageSize
           b == r.base
           n == r.length
           q == Floor(b)
           c == Ceil(n)
<1>1. d \in Nat \ {0} /\ b \in Nat /\ n \in Nat /\ Bytes(r) = b .. b + n - 1 /\ b % d = 0
  BY PagesAssumption DEF Regions, Bytes
<1>2. q = b \div d /\ c = (n + d - 1) \div d /\ n + d - 1 \in Nat
  BY <1>1 DEF Ceil, Floor
<1> HIDE DEF d, b, n, q, c
<1>3. /\ q \in Nat /\ d * q \in Nat /\ c \in Nat /\ d * c \in Nat /\ n + d - 1 < d * c + d
  BY <1>1, <1>2, Division
<1>4. b = d * q
  BY <1>1, <1>2
<1>5. PICK u : u \in PageBytes(p) /\ u \in Bytes(r)
  OBVIOUS
<1>6. u \in Nat /\ d * p <= u /\ u < d * p + d /\ d * p \in Nat
  BY <1>5, PageBytesIs DEF d
<1>7. d * q <= u /\ u < d * q + n
  BY <1>1, <1>4, <1>5
<1>8. q <= p
  <2>1. d * q < d * p + d
    BY <1>1, <1>3, <1>6, <1>7
  <2> QED BY <1>1, <1>3, <2>1, Product
<1>9. p < q + c
  <2>1. d * (q + c) = d * q + d * c /\ q + c \in Nat
    BY <1>1, <1>2, <1>3
  <2>2. d * p < d * (q + c)
    BY <1>1, <1>3, <1>6, <1>7, <2>1
  <2> SUFFICES ASSUME q + c <= p PROVE FALSE
    BY <2>1
  <2>3. q + c = p \/ q + c < p
    BY <2>1
  <2>4. q + c < p => d * (q + c) + d <= d * p
    BY <1>1, <2>1, Product
  <2>5. d * (q + c) \in Nat
    BY <1>3, <2>1
  <2> QED BY <1>1, <1>6, <2>2, <2>3, <2>4, <2>5
<1> QED BY <1>8, <1>9 DEF q, c, b, n

----------------------------------------------------------------------------
(* Tables.                                                                 *)

LEMMA BootIs ==
  /\ DOMAIN Boot = 1 .. 3 /\ Len(Boot) = 3
  /\ Boot[1] \in Page /\ Boot[2] \in Page /\ Boot[3] \in Page
  /\ Boot[1] # Boot[2] /\ Boot[1] # Boot[3] /\ Boot[2] # Boot[3]
  /\ 0 \in Page /\ NONE \notin Page /\ MaxPages \in Nat
<1>1. /\ Boot \in Seq(Page) /\ Len(Boot) = 3 /\ MaxPages \in Nat
  BY PagesAssumption DEF Levels
<1>2. DOMAIN Boot = 1 .. 3
  BY <1>1
<1>3. Boot[1] \in Page /\ Boot[2] \in Page /\ Boot[3] \in Page
  BY <1>1
<1>4. Boot[1] # Boot[2] /\ Boot[1] # Boot[3] /\ Boot[2] # Boot[3]
  BY <1>2, RegionAssumption
<1>5. 0 \in Page /\ NONE \notin Page
  BY <1>1, <1>3 DEF Page, NONE
<1> QED BY <1>1, <1>2, <1>3, <1>4, <1>5

LEMMA EntryIs ==
  /\ \A e \in EntrySet : /\ e.present \in BOOLEAN /\ e.huge \in BOOLEAN
                         /\ e.page \in Page /\ (e.huge => e.present)
  /\ Absent \in EntrySet /\ ~Absent.present /\ ~Absent.huge
  /\ \A p \in Page, h \in BOOLEAN :
       /\ Entry(p, h) \in EntrySet /\ Entry(p, h).present
       /\ Entry(p, h).page = p /\ Entry(p, h).huge = h
  /\ Cleared \in [Index -> EntrySet] /\ Garbage \in [Index -> EntrySet]
  /\ \A i \in Index : Cleared[i] = Absent
<1>1. /\ Absent \in EntrySet /\ ~Absent.present /\ ~Absent.huge /\ Absent.page = 0
  BY DEF Absent, EntrySet
<1>2. ASSUME NEW p \in Page, NEW h \in BOOLEAN
      PROVE  /\ Entry(p, h) \in EntrySet /\ Entry(p, h).present
             /\ Entry(p, h).page = p /\ Entry(p, h).huge = h
  BY DEF Entry, EntrySet
<1>3. ASSUME NEW e \in EntrySet
      PROVE  /\ e.present \in BOOLEAN /\ e.huge \in BOOLEAN
             /\ e.page \in Page /\ (e.huge => e.present)
  <2>1. CASE e = Absent
    BY <2>1, BootIs DEF Absent
  <2>2. CASE e \in [present : {TRUE}, page : Page, huge : BOOLEAN]
    BY <2>2
  <2> QED BY <2>1, <2>2 DEF EntrySet
<1>4. Cleared \in [Index -> EntrySet] /\ Garbage \in [Index -> EntrySet] /\ \A i \in Index : Cleared[i] = Absent
  BY <1>1, <1>2, BootIs DEF Cleared, Garbage
<1> QED BY <1>1, <1>2, <1>3, <1>4

LEMMA PathIs ==
  ASSUME NEW x \in Path
  PROVE  /\ x[1] \in Index /\ x[2] \in Index /\ x[3] \in Index /\ x[4] \in Index
         /\ \A l \in 1 .. 4 : x[l] \in Index
  BY DEF Path

LEMMA AtIsEntry ==
  ASSUME NEW c \in Tables, NEW t \in Page, NEW i \in Index
  PROVE  /\ c[t] \in [Index -> EntrySet] /\ c[t][i] \in EntrySet
         /\ c[t][i].present \in BOOLEAN /\ c[t][i].huge \in BOOLEAN
         /\ c[t][i].page \in Page /\ (c[t][i].huge => c[t][i].present)
<1>1. c[t] \in [Index -> EntrySet] /\ c[t][i] \in EntrySet
  BY DEF Tables
<1> QED BY <1>1, EntryIs

LEMMA TabIs ==
  ASSUME NEW c, NEW x
  PROVE  /\ Tab(c, 1, x) = Boot[1]
         /\ Tab(c, 2, x) = Follow(c, Tab(c, 1, x), x[1])
         /\ Tab(c, 3, x) = Follow(c, Tab(c, 2, x), x[2])
         /\ Tab(c, 4, x) = Follow(c, Tab(c, 3, x), x[3])
  BY DEF Tab

LEMMA FollowType ==
  ASSUME NEW c \in Tables, NEW t \in Page \cup {NONE}, NEW i \in Index
  PROVE  Follow(c, t, i) \in Page \cup {NONE}
  BY AtIsEntry DEF Follow

LEMMA TabType ==
  ASSUME NEW c \in Tables, NEW x \in Path, NEW l \in 1 .. 4
  PROVE  Tab(c, l, x) \in Page \cup {NONE}
<1>1. Tab(c, 1, x) \in Page \cup {NONE}
  BY TabIs, BootIs
<1>2. Tab(c, 2, x) \in Page \cup {NONE}
  <2>1. x[1] \in Index
    BY PathIs
  <2>2. Follow(c, Tab(c, 1, x), x[1]) \in Page \cup {NONE}
    BY <1>1, <2>1, FollowType
  <2> QED BY <2>2, TabIs
<1>3. Tab(c, 3, x) \in Page \cup {NONE}
  BY <1>2, TabIs, FollowType, PathIs
<1>4. Tab(c, 4, x) \in Page \cup {NONE}
  BY <1>3, TabIs, FollowType, PathIs
<1>5. l = 1 \/ l = 2 \/ l = 3 \/ l = 4
  OBVIOUS
<1> QED BY <1>1, <1>2, <1>3, <1>4, <1>5

LEMMA TabAgree ==
  ASSUME NEW c, NEW x, NEW y, NEW l \in 1 .. 4, Agree(l - 1, x, y)
  PROVE  Tab(c, l, x) = Tab(c, l, y)
<1>1. CASE l = 1
  BY <1>1, TabIs
<1>2. CASE l = 2
  <2>1. x[1] = y[1]
    BY <1>2 DEF Agree
  <2> QED BY <1>2, <2>1, TabIs
<1>3. CASE l = 3
  <2>1. x[1] = y[1] /\ x[2] = y[2]
    BY <1>3 DEF Agree
  <2> QED BY <1>3, <2>1, TabIs
<1>4. CASE l = 4
  <2>1. x[1] = y[1] /\ x[2] = y[2] /\ x[3] = y[3]
    BY <1>4 DEF Agree
  <2> QED BY <1>4, <2>1, TabIs
<1> QED BY <1>1, <1>2, <1>3, <1>4

\* Memory that has the same tables and the same entries in them.
SameTables(c, d) == \A l \in 1 .. 4 : \A x \in Path :
    Tab(d, l, x) = Tab(c, l, x) /\ (Tab(c, l, x) # NONE => At(d, l, x) = At(c, l, x))

\* What is in other pages does not matter.
LEMMA OthersDoNotMatter ==
  ASSUME NEW c, NEW d,
         \A l \in 1 .. 4 : \A x \in Path : Tab(c, l, x) # NONE => d[Tab(c, l, x)] = c[Tab(c, l, x)]
  PROVE  SameTables(c, d)
<1> SUFFICES ASSUME NEW x \in Path
             PROVE  \A l \in 1 .. 4 : /\ Tab(d, l, x) = Tab(c, l, x)
                                      /\ (Tab(c, l, x) # NONE => At(d, l, x) = At(c, l, x))
  BY DEF SameTables
<1>0. /\ Tab(c, 1, x) # NONE => d[Tab(c, 1, x)] = c[Tab(c, 1, x)]
      /\ Tab(c, 2, x) # NONE => d[Tab(c, 2, x)] = c[Tab(c, 2, x)]
      /\ Tab(c, 3, x) # NONE => d[Tab(c, 3, x)] = c[Tab(c, 3, x)]
      /\ Tab(c, 4, x) # NONE => d[Tab(c, 4, x)] = c[Tab(c, 4, x)]
  OBVIOUS
<1>1. Tab(d, 1, x) = Tab(c, 1, x)
  BY TabIs
<1>2. Tab(d, 2, x) = Tab(c, 2, x)
  BY <1>0, <1>1, TabIs DEF Follow
<1>3. Tab(d, 3, x) = Tab(c, 3, x)
  BY <1>0, <1>2, TabIs DEF Follow
<1>4. Tab(d, 4, x) = Tab(c, 4, x)
  BY <1>0, <1>3, TabIs DEF Follow
<1>5. ASSUME NEW l \in 1 .. 4 PROVE Tab(d, l, x) = Tab(c, l, x)
  <2>1. l = 1 \/ l = 2 \/ l = 3 \/ l = 4
    OBVIOUS
  <2> QED BY <1>1, <1>2, <1>3, <1>4, <2>1
<1> QED BY <1>5 DEF At

LEMMA SameKeeps ==
  ASSUME NEW c, NEW d, SameTables(c, d)
  PROVE  /\ Tree(c) => Tree(d)
         /\ HugeAtThree(c) => HugeAtThree(d)
         /\ \A x \in Path : Large(d, x) = Large(c, x) /\ Phys(d, x) = Phys(c, x)
<1>1. Tree(c) => Tree(d)
  BY DEF Tree, SameTables
<1>2. HugeAtThree(c) => HugeAtThree(d)
  BY DEF HugeAtThree, SameTables
<1>3. ASSUME NEW x \in Path PROVE Large(d, x) = Large(c, x) /\ Phys(d, x) = Phys(c, x)
  <2>1. /\ Tab(d, 3, x) = Tab(c, 3, x) /\ (Tab(c, 3, x) # NONE => At(d, 3, x) = At(c, 3, x))
        /\ Tab(d, 4, x) = Tab(c, 4, x) /\ (Tab(c, 4, x) # NONE => At(d, 4, x) = At(c, 4, x))
    BY DEF SameTables
  <2> QED BY <2>1 DEF Large, Phys
<1> QED BY <1>1, <1>2, <1>3

LEMMA TabStep ==
  ASSUME NEW c, NEW x, NEW m \in 1 .. 3
  PROVE  Tab(c, m + 1, x) = Follow(c, Tab(c, m, x), x[m])
<1>1. m = 1 \/ m = 2 \/ m = 3
  OBVIOUS
<1> QED BY <1>1, TabIs

\* Two paths reach the same entry of the same table if they are one path up to there.
LEMMA SameEntry ==
  ASSUME NEW c, Tree(c), NEW l \in 1 .. 4, NEW z \in Path, NEW m \in 1 .. 4, NEW x \in Path,
         Tab(c, m, x) # NONE
  PROVE  Tab(c, m, x) = Tab(c, l, z) /\ x[m] = z[l] <=> m = l /\ Agree(l, x, z)
<1>1. ASSUME Tab(c, m, x) = Tab(c, l, z), x[m] = z[l]
      PROVE  m = l /\ Agree(l, x, z)
  <2>1. m = l /\ Agree(m - 1, x, z)
    BY <1>1 DEF Tree
  <2> QED BY <1>1, <2>1 DEF Agree
<1>2. ASSUME m = l, Agree(l, x, z)
      PROVE  Tab(c, m, x) = Tab(c, l, z) /\ x[m] = z[l]
  <2>1. Agree(l - 1, x, z) /\ x[l] = z[l]
    BY <1>2 DEF Agree
  <2> QED BY <1>2, <2>1, TabAgree
<1> QED BY <1>1, <1>2

\* Memory after an entry is set, and after an entry is set to a new table.
WithEntry(c, t, i, e) == [c EXCEPT ![t][i] = e]
WithTable(c, p, t, i) == [c EXCEPT ![p] = Cleared, ![t][i] = Entry(p, FALSE)]

\* What these do to the tables and the entries along every path.
EntryChanged(c, d, l, z, e) == \A m \in 1 .. 4 : \A x \in Path :
    /\ Tab(d, m, x) = Tab(c, m, x)
    /\ Tab(c, m, x) # NONE => At(d, m, x) = IF m = l /\ Agree(l, x, z) THEN e ELSE At(c, m, x)

TableAdded(c, d, l, z, p) == \A m \in 1 .. 4 : \A x \in Path :
    /\ Tab(d, m, x) = IF m = l + 1 /\ Agree(l, x, z) THEN p ELSE Tab(c, m, x)
    /\ m = l + 1 /\ Agree(l, x, z) => Tab(c, m, x) = NONE /\ At(d, m, x) = Absent
    /\ Tab(c, m, x) # NONE =>
         At(d, m, x) = IF m = l /\ Agree(l, x, z) THEN Entry(p, FALSE) ELSE At(c, m, x)

\* Setting an entry that leads to no table, before or after, changes that entry only.
LEMMA SetLeaf ==
  ASSUME NEW c \in Tables, Tree(c), NEW l \in 1 .. 4, NEW z \in Path, Tab(c, l, z) # NONE,
         NEW e \in EntrySet, NEW d, d = WithEntry(c, Tab(c, l, z), z[l], e),
         l < 4 => /\ ~(At(c, l, z).present /\ ~At(c, l, z).huge)
                  /\ ~(e.present /\ ~e.huge)
  PROVE  d \in Tables /\ EntryChanged(c, d, l, z, e)
<1> DEFINE t == Tab(c, l, z)
           k == z[l]
<1>1. t \in Page /\ k \in Index
  BY TabType, PathIs
<1>a. d = [c EXCEPT ![t][k] = e] /\ t # NONE
  BY DEF WithEntry
<1>b. At(c, l, z) = c[t][k]
  BY DEF At
<1> HIDE DEF t, k
<1>2. d \in Tables
  <2> DEFINE Rows == [Index -> EntrySet]
             g == [c[t] EXCEPT ![k] = e]
  <2>1. c[t] \in Rows
    BY <1>1, AtIsEntry
  <2>2. g \in Rows
    BY <1>1, <2>1
  <2>3. d = [c EXCEPT ![t] = g] /\ c \in [Page -> Rows]
    BY <1>a DEF Tables
  <2> HIDE DEF Rows, g
  <2>4. d \in [Page -> Rows]
    BY <1>1, <2>2, <2>3
  <2> QED BY <2>4 DEF Rows, Tables
<1>3. \A p \in Page, i \in Index : d[p][i] = IF p = t /\ i = k THEN e ELSE c[p][i]
  BY <1>1, <1>a DEF Tables
<1>4. ASSUME NEW m \in 1 .. 4, NEW x \in Path, Tab(c, m, x) # NONE
      PROVE  /\ Tab(c, m, x) \in Page /\ x[m] \in Index
             /\ d[Tab(c, m, x)][x[m]] = IF m = l /\ Agree(l, x, z) THEN e ELSE c[Tab(c, m, x)][x[m]]
             /\ m = l /\ Agree(l, x, z) => Tab(c, m, x) = t /\ x[m] = k
  <2>1. Tab(c, m, x) \in Page /\ x[m] \in Index
    BY <1>4, TabType, PathIs
  <2>2. Tab(c, m, x) = t /\ x[m] = k <=> m = l /\ Agree(l, x, z)
    BY <1>4, SameEntry DEF t, k
  <2> QED BY <1>3, <2>1, <2>2
<1>5. ASSUME NEW m \in 1 .. 3, NEW x \in Path
      PROVE  Follow(d, Tab(c, m, x), x[m]) = Follow(c, Tab(c, m, x), x[m])
  <2>0. m \in 1 .. 4 /\ m < 4
    OBVIOUS
  <2>1. CASE Tab(c, m, x) = NONE
    BY <2>1 DEF Follow
  <2>2. CASE Tab(c, m, x) # NONE /\ ~(m = l /\ Agree(l, x, z))
    <3>1. d[Tab(c, m, x)][x[m]] = c[Tab(c, m, x)][x[m]]
      BY <2>0, <2>2, <1>4
    <3> QED BY <3>1 DEF Follow
  <2>3. CASE Tab(c, m, x) # NONE /\ m = l /\ Agree(l, x, z)
    <3>1. Tab(c, m, x) = t /\ x[m] = k /\ d[Tab(c, m, x)][x[m]] = e
      BY <2>0, <2>3, <1>4
    <3>2. ~(c[t][k].present /\ ~c[t][k].huge) /\ ~(e.present /\ ~e.huge)
      BY <2>0, <2>3, <1>b
    <3>3. Follow(d, Tab(c, m, x), x[m]) = NONE
      BY <3>1, <3>2 DEF Follow
    <3>4. Follow(c, Tab(c, m, x), x[m]) = NONE
      BY <3>1, <3>2 DEF Follow
    <3> QED BY <3>3, <3>4
  <2> QED BY <2>1, <2>2, <2>3
<1>6. ASSUME NEW x \in Path
      PROVE  \A m \in 1 .. 4 : Tab(d, m, x) = Tab(c, m, x)
  <2> DEFINE Q(m) == Follow(d, Tab(c, m, x), x[m]) = Follow(c, Tab(c, m, x), x[m])
  <2>q. \A m \in 1 .. 3 : Q(m)
    BY <1>5
  <2> HIDE DEF Q
  <2>r. Q(1) /\ Q(2) /\ Q(3)
    BY <2>q
  <2>1. Tab(d, 1, x) = Tab(c, 1, x)
    BY TabIs
  <2>2. Tab(d, 2, x) = Tab(c, 2, x)
    BY <2>r, <2>1, TabIs DEF Q
  <2>3. Tab(d, 3, x) = Tab(c, 3, x)
    BY <2>r, <2>2, TabIs DEF Q
  <2>4. Tab(d, 4, x) = Tab(c, 4, x)
    BY <2>r, <2>3, TabIs DEF Q
  <2>5. \A m \in 1 .. 4 : m = 1 \/ m = 2 \/ m = 3 \/ m = 4
    OBVIOUS
  <2> QED BY <2>1, <2>2, <2>3, <2>4, <2>5
<1>7. ASSUME NEW m \in 1 .. 4, NEW x \in Path, Tab(c, m, x) # NONE
      PROVE  At(d, m, x) = IF m = l /\ Agree(l, x, z) THEN e ELSE At(c, m, x)
  BY <1>4, <1>6, <1>7 DEF At
<1> QED BY <1>2, <1>6, <1>7 DEF EntryChanged

\* An entry that was absent is made to lead to a cleared page that was no table.
LEMMA GrowTable ==
  ASSUME NEW c \in Tables, Tree(c), NEW l \in 1 .. 3, NEW z \in Path, Tab(c, l, z) # NONE,
         ~At(c, l, z).present, NEW p \in Page,
         \A m \in 1 .. 4 : \A x \in Path : Tab(c, m, x) # p,
         NEW d, d = WithTable(c, p, Tab(c, l, z), z[l])
  PROVE  d \in Tables /\ TableAdded(c, d, l, z, p)
<1> DEFINE t == Tab(c, l, z)
           k == z[l]
           e == Entry(p, FALSE)
           Hit(m, x) == m = l + 1 /\ Agree(l, x, z)
<1>0. l \in 1 .. 4
  OBVIOUS
<1>1. t \in Page /\ k \in Index
  BY <1>0, TabType, PathIs
<1>a. d = [c EXCEPT ![p] = Cleared, ![t][k] = e] /\ t # NONE /\ t # p
  BY <1>0 DEF WithTable
<1>b. ~c[t][k].present
  BY DEF At
<1>c. e \in EntrySet /\ e.present /\ ~e.huge /\ e.page = p
  BY EntryIs
<1> HIDE DEF t, k, e
<1> DEFINE Rows == [Index -> EntrySet]
           b == [c EXCEPT ![p] = Cleared]
           g == [c[t] EXCEPT ![k] = e]
<1>e. c[t] \in Rows /\ c \in [Page -> Rows] /\ Cleared \in Rows
  BY <1>1, AtIsEntry, EntryIs DEF Tables
<1>f. g \in Rows /\ \A i \in Index : g[i] = IF i = k THEN e ELSE c[t][i]
  BY <1>1, <1>c, <1>e
<1>g. d = [b EXCEPT ![t] = [b[t] EXCEPT ![k] = e]]
  BY <1>a
<1>2. d \in [Page -> Rows] /\ \A q \in Page : d[q] = IF q = p THEN Cleared ELSE IF q = t THEN g ELSE c[q]
  <2> HIDE DEF Rows, b, g
  <2>1. b \in [Page -> Rows] /\ \A q \in Page : b[q] = IF q = p THEN Cleared ELSE c[q]
    BY <1>e DEF b
  <2>2. b[t] = c[t]
    BY <1>1, <1>a, <2>1
  <2>3. d = [b EXCEPT ![t] = g]
    BY <1>g, <2>2 DEF g
  <2> QED BY <1>1, <1>a, <1>f, <2>1, <2>3
<1>h. d \in Tables
  BY <1>2 DEF Tables
<1> HIDE DEF Rows, b, g
<1>3. \A q \in Page, i \in Index :
        d[q][i] = IF q = p THEN Absent ELSE IF q = t /\ i = k THEN e ELSE c[q][i]
  <2> SUFFICES ASSUME NEW q \in Page, NEW i \in Index
               PROVE  d[q][i] = IF q = p THEN Absent ELSE IF q = t /\ i = k THEN e ELSE c[q][i]
    OBVIOUS
  <2>1. d[q] = IF q = p THEN Cleared ELSE IF q = t THEN g ELSE c[q]
    BY <1>2
  <2>2. Cleared[i] = Absent /\ g[i] = IF i = k THEN e ELSE c[t][i]
    BY <1>f, EntryIs
  <2>3. CASE q = p
    <3>1. d[q] = Cleared
      BY <2>1, <2>3
    <3> QED BY <2>2, <2>3, <3>1
  <2>4. CASE q # p /\ q = t
    BY <2>1, <2>2, <2>4, Zenon
  <2>5. CASE q # p /\ q # t
    <3>1. d[q] = c[q]
      BY <2>1, <2>5
    <3> QED BY <2>5, <3>1
  <2> QED BY <2>3, <2>4, <2>5
<1>4. ASSUME NEW m \in 1 .. 4, NEW x \in Path, Tab(c, m, x) # NONE
      PROVE  /\ Tab(c, m, x) \in Page /\ x[m] \in Index
             /\ d[Tab(c, m, x)][x[m]] = IF m = l /\ Agree(l, x, z) THEN e ELSE c[Tab(c, m, x)][x[m]]
  <2>1. Tab(c, m, x) \in Page /\ x[m] \in Index /\ Tab(c, m, x) # p
    BY <1>4, TabType, PathIs
  <2>2. Tab(c, m, x) = t /\ x[m] = k <=> m = l /\ Agree(l, x, z)
    BY <1>0, <1>4, SameEntry DEF t, k
  <2> QED BY <1>3, <2>1, <2>2
<1>d. ASSUME NEW x \in Path, Agree(l, x, z)
      PROVE  Tab(c, l, x) = t /\ x[l] = k /\ Tab(c, l + 1, x) = NONE
  <2>1. Agree(l - 1, x, z) /\ x[l] = k
    BY <1>d DEF Agree, k
  <2>2. Tab(c, l, x) = t
    BY <1>0, <2>1, TabAgree DEF t
  <2>3. Tab(c, l + 1, x) = Follow(c, t, k)
    BY <2>1, <2>2, TabStep
  <2> QED BY <1>b, <2>1, <2>2, <2>3 DEF Follow
<1>5. ASSUME NEW m \in 1 .. 3, NEW n \in 1 .. 4, n = m + 1, NEW x \in Path,
             Tab(d, m, x) = IF Hit(m, x) THEN p ELSE Tab(c, m, x)
      PROVE  Tab(d, n, x) = IF Hit(n, x) THEN p ELSE Tab(c, n, x)
  <2>0. m \in 1 .. 4 /\ x[m] \in Index
    BY PathIs
  <2>s. /\ Tab(d, n, x) = Follow(d, Tab(d, m, x), x[m])
        /\ Tab(c, n, x) = Follow(c, Tab(c, m, x), x[m])
    BY <1>5, TabStep
  <2>1. CASE Hit(m, x)
    <3>1. m = l + 1 /\ Tab(c, m, x) = NONE /\ ~Hit(n, x)
      BY <1>5, <1>d, <2>1
    <3>2. Tab(c, n, x) = NONE
      BY <2>s, <3>1 DEF Follow
    <3>3. Tab(d, m, x) = p
      BY <1>5, <2>1
    <3>5. d[p][x[m]] = Absent
      BY <1>3, <2>0
    <3>4. Tab(d, n, x) = NONE
      BY <2>s, <3>3, <3>5, EntryIs DEF Follow
    <3> QED BY <3>1, <3>2, <3>4
  <2>2. CASE ~Hit(m, x) /\ Tab(c, m, x) = NONE
    <3>1. ~Hit(n, x)
      <4> SUFFICES ASSUME Hit(n, x) PROVE FALSE
        OBVIOUS
      <4>1. m = l /\ Agree(l, x, z)
        BY <1>5
      <4>2. Tab(c, m, x) = t
        BY <1>d, <4>1
      <4> QED BY <1>a, <2>2, <4>2
    <3>2. Tab(d, m, x) = NONE
      BY <1>5, <2>2
    <3> QED BY <2>2, <2>s, <3>1, <3>2 DEF Follow
  <2>3. CASE ~Hit(m, x) /\ Tab(c, m, x) # NONE
    <3> DEFINE u == Tab(c, m, x)
    <3>1. Tab(d, m, x) = u /\ u # NONE
      BY <1>5, <2>3
    <3>2. d[u][x[m]] = IF m = l /\ Agree(l, x, z) THEN e ELSE c[u][x[m]]
      BY <1>4, <2>0, <2>3
    <3>3. Hit(n, x) <=> m = l /\ Agree(l, x, z)
      BY <1>5
    <3> HIDE DEF u, Hit
    <3>4. CASE Hit(n, x)
      <4>1. d[u][x[m]] = e
        BY <3>2, <3>3, <3>4
      <4>2. Tab(d, n, x) = p
        BY <1>c, <2>s, <3>1, <4>1 DEF Follow
      <4> QED BY <3>4, <4>2
    <3>5. CASE ~Hit(n, x)
      <4>1. d[u][x[m]] = c[u][x[m]]
        BY <3>2, <3>3, <3>5
      <4>2. Tab(d, n, x) = Tab(c, n, x)
        BY <2>s, <3>1, <4>1 DEF Follow, u
      <4> QED BY <3>5, <4>2
    <3> QED BY <3>4, <3>5
  <2> QED BY <2>1, <2>2, <2>3
<1>6. ASSUME NEW m \in 1 .. 4, NEW x \in Path
      PROVE  Tab(d, m, x) = IF Hit(m, x) THEN p ELSE Tab(c, m, x)
  <2>1. ~Hit(1, x) /\ Tab(d, 1, x) = Tab(c, 1, x)
    BY TabIs
  <2> DEFINE Q(n) == Tab(d, n, x) = IF Hit(n, x) THEN p ELSE Tab(c, n, x)
  <2>q. \A a \in 1 .. 3 : \A n \in 1 .. 4 : n = a + 1 /\ Q(a) => Q(n)
    BY <1>5
  <2>2. Q(1)
    BY <2>1
  <2> HIDE DEF Q
  <2>3. Q(1) /\ Q(2) /\ Q(3) /\ Q(4)
    BY <2>q, <2>2
  <2>4. Q(m)
    BY <2>3
  <2> QED BY <2>4 DEF Q
<1>7. ASSUME NEW m \in 1 .. 4, NEW x \in Path, Hit(m, x)
      PROVE  Tab(c, m, x) = NONE /\ At(d, m, x) = Absent
  <2>1. Tab(c, m, x) = NONE
    BY <1>d, <1>7
  <2>2. Tab(d, m, x) = p /\ x[m] \in Index
    BY <1>6, <1>7, PathIs
  <2> QED BY <1>3, <2>1, <2>2 DEF At
<1>8. ASSUME NEW m \in 1 .. 4, NEW x \in Path, Tab(c, m, x) # NONE
      PROVE  At(d, m, x) = IF m = l /\ Agree(l, x, z) THEN e ELSE At(c, m, x)
  <2>1. ~Hit(m, x)
    BY <1>7, <1>8
  <2>2. Tab(d, m, x) = Tab(c, m, x)
    BY <1>6, <2>1
  <2> QED BY <1>4, <1>8, <2>2 DEF At
<1> QED BY <1>h, <1>6, <1>7, <1>8 DEF e, TableAdded

\* An entry of a huge page is no way to a table of the last level.
LEMMA LargeHasNoTable ==
  ASSUME NEW c, NEW x, Large(c, x)
  PROVE  Tab(c, 4, x) = NONE
<1>1. Tab(c, 4, x) = Follow(c, Tab(c, 3, x), x[3]) /\ c[Tab(c, 3, x)][x[3]].huge
  BY TabIs DEF Large, At
<1> QED BY <1>1 DEF Follow

LEMMA EntryChangedKeeps ==
  ASSUME NEW c \in Tables, NEW d \in Tables, NEW l \in 3 .. 4, NEW z \in Path, NEW e \in EntrySet,
         Tree(c), HugeAtThree(c), EntryChanged(c, d, l, z, e), Tab(c, l, z) # NONE, ~e.huge
  PROVE  /\ Tree(d) /\ HugeAtThree(d)
         /\ l = 4 => \A x \in Path :
              /\ Large(d, x) = Large(c, x)
              /\ Phys(d, x) = IF Agree(4, x, z) THEN IF e.present THEN e.page ELSE NONE
                                                ELSE Phys(c, x)
         /\ l = 3 /\ Large(c, z) => \A x \in Path :
              Phys(d, x) = IF Agree(3, x, z) THEN NONE ELSE Phys(c, x)
<1>1. Tree(d)
  BY DEF Tree, EntryChanged
<1>2. HugeAtThree(d)
  <2> SUFFICES ASSUME NEW m \in 1 .. 4, NEW x \in Path, Tab(d, m, x) # NONE, At(d, m, x).huge
               PROVE  m = 3
    BY DEF HugeAtThree
  <2>1. Tab(c, m, x) # NONE /\ At(d, m, x) = IF m = l /\ Agree(l, x, z) THEN e ELSE At(c, m, x)
    BY DEF EntryChanged
  <2>2. At(d, m, x) = At(c, m, x)
    BY <2>1
  <2>3. At(c, m, x).huge
    BY <2>2
  <2> QED BY <2>1, <2>3 DEF HugeAtThree
<1>a. ASSUME NEW x \in Path
      PROVE  /\ Tab(d, 3, x) = Tab(c, 3, x) /\ Tab(d, 4, x) = Tab(c, 4, x)
             /\ Tab(c, 3, x) # NONE =>
                  At(d, 3, x) = IF 3 = l /\ Agree(l, x, z) THEN e ELSE At(c, 3, x)
             /\ Tab(c, 4, x) # NONE =>
                  At(d, 4, x) = IF 4 = l /\ Agree(l, x, z) THEN e ELSE At(c, 4, x)
  BY DEF EntryChanged
<1>3. ASSUME l = 4, NEW x \in Path
      PROVE  /\ Large(d, x) = Large(c, x)
             /\ Phys(d, x) = IF Agree(4, x, z) THEN IF e.present THEN e.page ELSE NONE
                                               ELSE Phys(c, x)
  <2>1. /\ Tab(d, 3, x) = Tab(c, 3, x) /\ Tab(d, 4, x) = Tab(c, 4, x)
        /\ Tab(c, 3, x) # NONE => At(d, 3, x) = At(c, 3, x)
        /\ Tab(c, 4, x) # NONE => At(d, 4, x) = IF Agree(4, x, z) THEN e ELSE At(c, 4, x)
    BY <1>3, <1>a
  <2>2. Large(d, x) = Large(c, x)
    BY <2>1 DEF Large
  <2>3. CASE Agree(4, x, z)
    <3>1. Agree(3, x, z)
      BY <2>3 DEF Agree
    <3>2. Tab(c, 4, x) = Tab(c, 4, z)
      BY <3>1, TabAgree
    <3>3. Tab(c, 4, x) # NONE /\ At(d, 4, x) = e
      BY <1>3, <2>1, <2>3, <3>2
    <3> QED BY <2>1, <2>2, <2>3, <3>3 DEF Phys
  <2>4. CASE ~Agree(4, x, z)
    <3>1. Tab(c, 4, x) # NONE => At(d, 4, x) = At(c, 4, x)
      BY <2>1, <2>4
    <3>2. Large(d, x) => At(d, 3, x) = At(c, 3, x)
      BY <2>1 DEF Large
    <3>3. Phys(d, x) = Phys(c, x)
      BY <2>1, <2>2, <3>1, <3>2 DEF Phys
    <3> QED BY <2>2, <2>4, <3>3
  <2> QED BY <2>3, <2>4
<1>4. ASSUME l = 3, Large(c, z), NEW x \in Path
      PROVE  Phys(d, x) = IF Agree(3, x, z) THEN NONE ELSE Phys(c, x)
  <2>1. /\ Tab(d, 3, x) = Tab(c, 3, x) /\ Tab(d, 4, x) = Tab(c, 4, x)
        /\ Tab(c, 3, x) # NONE => At(d, 3, x) = IF Agree(3, x, z) THEN e ELSE At(c, 3, x)
        /\ Tab(c, 4, x) # NONE => At(d, 4, x) = At(c, 4, x)
    BY <1>4, <1>a
  <2>2. CASE Agree(3, x, z)
    <3>1. Agree(2, x, z) /\ x[3] = z[3]
      BY <2>2 DEF Agree
    <3>2. Tab(c, 3, x) = Tab(c, 3, z)
      BY <3>1, TabAgree
    <3>3. Large(c, x)
      BY <1>4, <3>1, <3>2 DEF Large, At
    <3>4. Tab(c, 4, x) = NONE /\ Tab(c, 3, x) # NONE
      BY <3>3, LargeHasNoTable DEF Large
    <3>5. Tab(d, 4, x) = NONE /\ ~Large(d, x)
      BY <2>1, <2>2, <3>4 DEF Large
    <3> QED BY <2>2, <3>5 DEF Phys
  <2>3. CASE ~Agree(3, x, z)
    <3>1. Tab(c, 3, x) # NONE => At(d, 3, x) = At(c, 3, x)
      BY <2>1, <2>3
    <3>2. Large(d, x) = Large(c, x) /\ (Large(d, x) => At(d, 3, x) = At(c, 3, x))
      BY <2>1, <3>1 DEF Large
    <3>3. Phys(d, x) = Phys(c, x)
      BY <2>1, <3>2 DEF Phys
    <3> QED BY <2>3, <3>3
  <2> QED BY <2>2, <2>3
<1> QED BY <1>1, <1>2, <1>3, <1>4

LEMMA TableAddedKeeps ==
  ASSUME NEW c \in Tables, NEW d \in Tables, NEW l \in 1 .. 3, NEW z \in Path, NEW p \in Page,
         Tree(c), HugeAtThree(c), TableAdded(c, d, l, z, p), Tab(c, l, z) # NONE,
         ~At(c, l, z).present, ~At(c, l, z).huge,
         \A m \in 1 .. 4 : \A x \in Path : Tab(c, m, x) # p
  PROVE  /\ Tree(d) /\ HugeAtThree(d)
         /\ \A x \in Path : Large(d, x) = Large(c, x) /\ Phys(d, x) = Phys(c, x)
<1> DEFINE Hit(m, x) == m = l + 1 /\ Agree(l, x, z)
<1>0. p # NONE
  BY BootIs
<1>a. ASSUME NEW m \in 1 .. 4, NEW x \in Path
      PROVE  /\ Hit(m, x) => Tab(d, m, x) = p /\ Tab(c, m, x) = NONE /\ At(d, m, x) = Absent
             /\ ~Hit(m, x) => Tab(d, m, x) = Tab(c, m, x)
             /\ Tab(c, m, x) # NONE =>
                  At(d, m, x) = IF m = l /\ Agree(l, x, z) THEN Entry(p, FALSE) ELSE At(c, m, x)
             /\ Tab(c, m, x) # p
  BY DEF TableAdded
<1>e. Entry(p, FALSE).present /\ ~Entry(p, FALSE).huge /\ ~Absent.huge /\ ~Absent.present
  BY EntryIs
<1>1. Tree(d)
  <2> SUFFICES ASSUME NEW a \in 1 .. 4, NEW m \in 1 .. 4, NEW x \in Path, NEW y \in Path,
                      Tab(d, a, x) # NONE, Tab(d, a, x) = Tab(d, m, y)
               PROVE  a = m /\ Agree(a - 1, x, y)
    BY DEF Tree
  <2>0. Tab(c, a, x) # p /\ Tab(c, m, y) # p
    BY <1>a
  <2>1. CASE Hit(a, x) /\ Hit(m, y)
    <3>1. a - 1 = l /\ a = m /\ Agree(l, x, z) /\ Agree(l, y, z)
      BY <2>1
    <3> QED BY <3>1 DEF Agree
  <2>2. CASE ~Hit(a, x) /\ ~Hit(m, y)
    <3>1. Tab(d, a, x) = Tab(c, a, x) /\ Tab(d, m, y) = Tab(c, m, y)
      BY <1>a, <2>2
    <3>2. Tab(c, a, x) # NONE /\ Tab(c, a, x) = Tab(c, m, y)
      BY <3>1
    <3> HIDE DEF Hit
    <3> QED BY <3>2 DEF Tree
  <2>3. CASE Hit(a, x) /\ ~Hit(m, y)
    <3>1. Tab(d, a, x) = p /\ Tab(d, m, y) = Tab(c, m, y)
      BY <1>a, <2>3
    <3> QED BY <2>0, <3>1
  <2>4. CASE ~Hit(a, x) /\ Hit(m, y)
    <3>1. Tab(d, a, x) = Tab(c, a, x) /\ Tab(d, m, y) = p
      BY <1>a, <2>4
    <3> QED BY <2>0, <3>1
  <2> QED BY <2>1, <2>2, <2>3, <2>4
<1>2. HugeAtThree(d)
  <2> SUFFICES ASSUME NEW m \in 1 .. 4, NEW x \in Path, Tab(d, m, x) # NONE, At(d, m, x).huge
               PROVE  m = 3
    BY DEF HugeAtThree
  <2>1. ~Hit(m, x)
    BY <1>a, <1>e
  <2>2. Tab(d, m, x) = Tab(c, m, x)
    BY <1>a, <2>1
  <2>3. At(d, m, x) = IF m = l /\ Agree(l, x, z) THEN Entry(p, FALSE) ELSE At(c, m, x)
    BY <1>a, <2>2
  <2>4. At(d, m, x) = At(c, m, x)
    BY <1>e, <2>3
  <2>5. At(c, m, x).huge
    BY <2>4
  <2> QED BY <2>2, <2>5 DEF HugeAtThree
<1>3. ASSUME NEW x \in Path
      PROVE  Large(d, x) = Large(c, x) /\ Phys(d, x) = Phys(c, x)
  <2> DEFINE Q(m) ==
          /\ Hit(m, x) => Tab(d, m, x) = p /\ Tab(c, m, x) = NONE /\ At(d, m, x) = Absent
          /\ ~Hit(m, x) => Tab(d, m, x) = Tab(c, m, x)
          /\ Tab(c, m, x) # NONE =>
               At(d, m, x) = IF m = l /\ Agree(l, x, z) THEN Entry(p, FALSE) ELSE At(c, m, x)
  <2>q. \A m \in 1 .. 4 : Q(m)
    BY <1>a
  <2> HIDE DEF Q
  <2>r. Q(3) /\ Q(4)
    BY <2>q
  <2>a. /\ Hit(3, x) => Tab(d, 3, x) = p /\ Tab(c, 3, x) = NONE /\ At(d, 3, x) = Absent
        /\ ~Hit(3, x) => Tab(d, 3, x) = Tab(c, 3, x)
        /\ Tab(c, 3, x) # NONE =>
             At(d, 3, x) = IF 3 = l /\ Agree(l, x, z) THEN Entry(p, FALSE) ELSE At(c, 3, x)
    BY <2>r DEF Q
  <2>b. /\ Hit(4, x) => Tab(d, 4, x) = p /\ Tab(c, 4, x) = NONE /\ At(d, 4, x) = Absent
        /\ ~Hit(4, x) => Tab(d, 4, x) = Tab(c, 4, x)
        /\ Tab(c, 4, x) # NONE => At(d, 4, x) = At(c, 4, x)
    <3>1. l # 4
      OBVIOUS
    <3>2. /\ Hit(4, x) => Tab(d, 4, x) = p /\ Tab(c, 4, x) = NONE /\ At(d, 4, x) = Absent
          /\ ~Hit(4, x) => Tab(d, 4, x) = Tab(c, 4, x)
          /\ Tab(c, 4, x) # NONE =>
               At(d, 4, x) = IF 4 = l /\ Agree(l, x, z) THEN Entry(p, FALSE) ELSE At(c, 4, x)
      BY <2>r DEF Q
    <3> HIDE DEF Hit
    <3> QED BY <3>1, <3>2
  <2>1. Large(d, x) <=> Large(c, x)
    <3>1. CASE Hit(3, x)
      <4>1. Tab(c, 3, x) = NONE /\ ~At(d, 3, x).huge
        BY <2>a, <1>e, <3>1
      <4> QED BY <4>1 DEF Large
    <3>2. CASE ~Hit(3, x) /\ Tab(c, 3, x) = NONE
      <4>1. Tab(d, 3, x) = NONE
        BY <2>a, <3>2
      <4> QED BY <4>1, <3>2 DEF Large
    <3>3. CASE ~Hit(3, x) /\ Tab(c, 3, x) # NONE /\ ~(3 = l /\ Agree(l, x, z))
      <4>1. Tab(d, 3, x) = Tab(c, 3, x) /\ At(d, 3, x) = At(c, 3, x)
        BY <2>a, <3>3
      <4> QED BY <4>1 DEF Large
    <3>4. CASE ~Hit(3, x) /\ Tab(c, 3, x) # NONE /\ 3 = l /\ Agree(l, x, z)
      <4>1. ~At(d, 3, x).huge
        BY <2>a, <1>e, <3>4
      <4>2. Agree(2, x, z) /\ x[3] = z[3]
        BY <3>4 DEF Agree
      <4>3. Tab(c, 3, x) = Tab(c, 3, z)
        BY <4>2, TabAgree
      <4>4. ~At(c, 3, x).huge
        BY <3>4, <4>2, <4>3 DEF At
      <4> QED BY <4>1, <4>4 DEF Large
    <3> QED BY <3>1, <3>2, <3>3, <3>4
  <2>2. Phys(d, x) = Phys(c, x)
    <3>1. CASE Large(c, x)
      <4>1. Tab(c, 4, x) = NONE /\ Tab(d, 4, x) = NONE
        BY <2>1, <3>1, LargeHasNoTable
      <4>2. Tab(c, 3, x) # NONE /\ At(c, 3, x).huge /\ At(d, 3, x).huge
        BY <2>1, <3>1 DEF Large
      <4>3. At(d, 3, x) = At(c, 3, x)
        BY <2>a, <1>e, <4>2
      <4> QED BY <2>1, <3>1, <4>1, <4>3 DEF Phys
    <3>2. CASE ~Large(c, x) /\ Hit(4, x)
      <4>1. Tab(d, 4, x) = p /\ Tab(c, 4, x) = NONE /\ ~At(d, 4, x).present
        BY <2>b, <1>e, <3>2
      <4> QED BY <1>0, <3>2, <4>1 DEF Phys
    <3>3. CASE ~Large(c, x) /\ ~Hit(4, x)
      <4>1. Tab(d, 4, x) = Tab(c, 4, x)
        BY <2>b, <3>3
      <4>2. Tab(c, 4, x) # NONE => At(d, 4, x) = At(c, 4, x)
        BY <2>b
      <4> QED BY <2>1, <3>3, <4>1, <4>2 DEF Phys
    <3> QED BY <3>1, <3>2, <3>3
  <2>3. Large(d, x) \in BOOLEAN /\ Large(c, x) \in BOOLEAN
    BY DEF Large
  <2> QED BY <2>1, <2>2, <2>3
<1> QED BY <1>1, <1>2, <1>3

----------------------------------------------------------------------------
(* Virtual pages and the paths of their indices.                           *)

LEMMA DivMod ==
  ASSUME NEW x \in Nat, NEW d \in Nat \ {0}
  PROVE  x \div d \in Nat /\ x % d \in 0 .. d - 1 /\ x = d * (x \div d) + (x % d)
  OBVIOUS

LEMMA DivModSmall ==
  ASSUME NEW d \in Nat \ {0}, NEW x \in Nat, x < d
  PROVE  x \div d = 0 /\ x % d = x
<1> DEFINE q == x \div d
           m == x % d
           a == d * q
<1>1. q \in Nat /\ m \in 0 .. d - 1 /\ x = a + m
  BY DivMod
<1> HIDE DEF q, m
<1>2. d * 0 = 0 /\ a \in Nat /\ (0 < q => d * 0 + d <= a) /\ (q = 0 => a = 0)
  BY <1>1, Product
<1> HIDE DEF a
<1>3. q = 0 /\ m = x
  BY <1>1, <1>2
<1> QED BY <1>3 DEF q, m

LEMMA DivLess ==
  ASSUME NEW x \in Nat, NEW d \in Nat \ {0}, NEW k \in Nat, x < k * d
  PROVE  x \div d < k
<1> DEFINE q == x \div d
<1>1. q \in Nat /\ d * q \in Nat /\ d * q <= x
  BY Division
<1> HIDE DEF q
<1>2. k * d = d * k /\ d * k \in Nat
  BY Product
<1>3. k < q => d * k + d <= d * q
  BY <1>1, Product
<1>4. q = k => d * q = d * k
  OBVIOUS
<1>5. q < k
  BY <1>1, <1>2, <1>3, <1>4
<1> QED BY <1>5 DEF q

\* The page table, the page directory and the table above that a virtual page is in, by number;
\* the last digit of a number, and the number that has a digit more.
Up3(v) == v \div Fanout
Up2(v) == Up3(v) \div Fanout
Up1(v) == Up2(v) \div Fanout
Digit(v) == v % Fanout
Join(a, m) == Fanout * a + m

LEMMA DigitIs ==
  ASSUME NEW x \in Nat
  PROVE  /\ x \div Fanout \in Nat /\ Digit(x) \in Index /\ x = Join(x \div Fanout, Digit(x))
         /\ x < Fanout => x \div Fanout = 0 /\ Digit(x) = x
<1>1. Fanout \in Nat \ {0}
  BY PagesAssumption
<1>2. x \div Fanout \in Nat /\ Digit(x) \in Index /\ x = Join(x \div Fanout, Digit(x))
  BY <1>1, DivMod DEF Digit, Join, Index
<1>3. ASSUME x < Fanout PROVE x \div Fanout = 0 /\ Digit(x) = x
  BY <1>1, <1>3, DivModSmall DEF Digit
<1> QED BY <1>2, <1>3

LEMMA UpIs ==
  ASSUME NEW v \in VirtualPage
  PROVE  /\ v \in Nat /\ Up3(v) \in Nat /\ Up2(v) \in Nat /\ Up1(v) \in Nat
         /\ v = Join(Up3(v), Digit(v))
         /\ Up3(v) = Join(Up2(v), Digit(Up3(v)))
         /\ Up2(v) = Join(Up1(v), Digit(Up2(v)))
         /\ Up1(v) = Digit(Up1(v))
<1> DEFINE F == Fanout
           F2 == F * F
           F3 == F2 * F
<1>1. F \in Nat \ {0} /\ Fanout \in Nat \ {0} /\ Fanout = F
  BY PagesAssumption
<1>2. F2 \in Nat /\ F3 \in Nat /\ v \in Nat /\ v < F3 * F
  <2>1. F2 \in Nat
    BY <1>1, Product
  <2>2. F3 \in Nat
    <3> HIDE DEF F2
    <3> QED BY <1>1, <2>1, Product
  <2>3. F3 * F \in Nat
    <3> HIDE DEF F3
    <3> QED BY <1>1, <2>2, Product
  <2>4. v \in 0 .. (F3 * F) - 1
    BY DEF VirtualPage
  <2> HIDE DEF F, F2, F3
  <2> QED BY <2>1, <2>2, <2>3, <2>4
<1>a. F2 = F * F /\ F3 = F2 * F
  OBVIOUS
<1> HIDE DEF F, F2, F3
<1>3. Up3(v) \in Nat /\ Up3(v) < F3
  BY <1>1, <1>2, DivMod, DivLess DEF Up3
<1>4. Up2(v) \in Nat /\ Up2(v) < F2
  BY <1>1, <1>2, <1>a, <1>3, DivMod, DivLess DEF Up2
<1>5. Up1(v) \in Nat /\ Up1(v) < F
  BY <1>1, <1>2, <1>a, <1>4, DivMod, DivLess DEF Up1
<1>6. v = Join(Up3(v), Digit(v))
  BY <1>2, DigitIs DEF Up3
<1>7. Up3(v) = Join(Up2(v), Digit(Up3(v)))
  BY <1>3, DigitIs DEF Up2
<1>8. Up2(v) = Join(Up1(v), Digit(Up2(v)))
  BY <1>4, DigitIs DEF Up1
<1>9. Up1(v) = Digit(Up1(v))
  BY <1>1, <1>5, DigitIs
<1> QED BY <1>2, <1>3, <1>4, <1>5, <1>6, <1>7, <1>8, <1>9

LEMMA PathOfIs ==
  ASSUME NEW v \in VirtualPage
  PROVE  /\ PathOf(v) \in Path
         /\ PathOf(v)[1] = Digit(Up1(v)) /\ PathOf(v)[2] = Digit(Up2(v))
         /\ PathOf(v)[3] = Digit(Up3(v)) /\ PathOf(v)[4] = Digit(v)
         /\ \A l \in 1 .. 4 : PathOf(v)[l] = IndexAt(v, l)
<1>1. v \in Nat /\ Up3(v) \in Nat /\ Up2(v) \in Nat /\ Up1(v) \in Nat
  BY UpIs
<1>2. /\ IndexAt(v, 1) = Digit(Up1(v)) /\ IndexAt(v, 2) = Digit(Up2(v))
      /\ IndexAt(v, 3) = Digit(Up3(v)) /\ IndexAt(v, 4) = Digit(v)
  BY DEF IndexAt, Up1, Up2, Up3, Digit
<1>3. \A l \in 1 .. 4 : IndexAt(v, l) \in Index
  <2>1. \A l \in 1 .. 4 : l = 1 \/ l = 2 \/ l = 3 \/ l = 4
    OBVIOUS
  <2>2. Digit(Up1(v)) \in Index /\ Digit(Up2(v)) \in Index /\ Digit(Up3(v)) \in Index /\ Digit(v) \in Index
    BY <1>1, DigitIs
  <2> QED BY <1>2, <2>1, <2>2
<1>4. PathOf(v) \in Path /\ \A l \in 1 .. 4 : PathOf(v)[l] = IndexAt(v, l)
  BY <1>3 DEF PathOf, Path
<1> QED BY <1>2, <1>4

LEMMA SamePath ==
  ASSUME NEW v \in VirtualPage, NEW w \in VirtualPage
  PROVE  /\ Agree(4, PathOf(v), PathOf(w)) <=> v = w
         /\ Agree(3, PathOf(v), PathOf(w)) <=> v \div Fanout = w \div Fanout
<1>1. ASSUME Agree(3, PathOf(v), PathOf(w)) PROVE Up3(v) = Up3(w)
  <2>1. /\ PathOf(v)[1] = PathOf(w)[1] /\ PathOf(v)[2] = PathOf(w)[2] /\ PathOf(v)[3] = PathOf(w)[3]
    BY <1>1 DEF Agree
  <2>2. Digit(Up1(v)) = Digit(Up1(w)) /\ Digit(Up2(v)) = Digit(Up2(w)) /\ Digit(Up3(v)) = Digit(Up3(w))
    BY <2>1, PathOfIs
  <2>3. Up1(v) = Up1(w)
    BY <2>2, UpIs
  <2>4. Up2(v) = Up2(w)
    BY <2>2, <2>3, UpIs
  <2> QED BY <2>2, <2>4, UpIs
<1>2. ASSUME Up3(v) = Up3(w) PROVE Agree(3, PathOf(v), PathOf(w))
  <2>1. Up2(v) = Up2(w) /\ Up1(v) = Up1(w)
    BY <1>2 DEF Up1, Up2
  <2>2. /\ PathOf(v)[1] = PathOf(w)[1] /\ PathOf(v)[2] = PathOf(w)[2] /\ PathOf(v)[3] = PathOf(w)[3]
    BY <1>2, <2>1, PathOfIs
  <2>3. \A n \in 1 .. 3 : n = 1 \/ n = 2 \/ n = 3
    OBVIOUS
  <2> QED BY <2>2, <2>3 DEF Agree
<1>3. ASSUME Agree(4, PathOf(v), PathOf(w)) PROVE v = w
  <2>1. Agree(3, PathOf(v), PathOf(w)) /\ PathOf(v)[4] = PathOf(w)[4]
    BY <1>3 DEF Agree
  <2>2. Digit(v) = Digit(w) /\ Up3(v) = Up3(w)
    BY <1>1, <2>1, PathOfIs
  <2> QED BY <2>2, UpIs
<1>4. Agree(4, PathOf(v), PathOf(v))
  BY DEF Agree
<1> QED BY <1>1, <1>2, <1>3, <1>4 DEF Up3

\* The virtual pages of the first page table: those the boot loader maps.
LEMMA FirstTable ==
  ASSUME NEW v \in VirtualPage
  PROVE  /\ v < Fanout <=> PathOf(v)[1] = 0 /\ PathOf(v)[2] = 0 /\ PathOf(v)[3] = 0
         /\ v < Fanout => PathOf(v)[4] = v
<1>1. v \in Nat /\ Fanout \in Nat \ {0} /\ 0 \in Nat /\ 0 < Fanout
  BY UpIs, PagesAssumption
<1>2. ASSUME v < Fanout
      PROVE  /\ PathOf(v)[1] = 0 /\ PathOf(v)[2] = 0 /\ PathOf(v)[3] = 0 /\ PathOf(v)[4] = v
  <2>1. Up3(v) = 0 /\ Digit(v) = v
    BY <1>1, <1>2, DigitIs DEF Up3
  <2>2. 0 \div Fanout = 0 /\ Digit(0) = 0
    BY <1>1, DigitIs
  <2>3. Up2(v) = 0 /\ Up1(v) = 0
    BY <2>1, <2>2 DEF Up2, Up1
  <2> QED BY <2>1, <2>2, <2>3, PathOfIs
<1>3. ASSUME PathOf(v)[1] = 0, PathOf(v)[2] = 0, PathOf(v)[3] = 0
      PROVE  v < Fanout
  <2>1. Digit(Up1(v)) = 0 /\ Digit(Up2(v)) = 0 /\ Digit(Up3(v)) = 0
    BY <1>3, PathOfIs
  <2>z. Join(0, 0) = 0
    BY <1>1 DEF Join
  <2>2. Up1(v) = 0
    BY <2>1, UpIs
  <2>3. Up2(v) = 0
    BY <2>1, <2>2, <2>z, UpIs
  <2>4. Up3(v) = 0
    BY <2>1, <2>3, <2>z, UpIs
  <2>5. v = Join(0, Digit(v)) /\ Digit(v) \in 0 .. Fanout - 1
    BY <1>1, <2>4, UpIs, DigitIs DEF Index
  <2>6. v = Digit(v)
    <3> DEFINE m == Digit(v)
    <3>1. m \in Int /\ v = Fanout * 0 + m
      BY <1>1, <2>5 DEF Join
    <3> HIDE DEF m
    <3>2. v = m
      BY <1>1, <3>1
    <3> QED BY <3>2 DEF m
  <2> QED BY <1>1, <2>5, <2>6
<1> QED BY <1>2, <1>3

----------------------------------------------------------------------------
(* Lookups.                                                                *)

Leading(e) == e.present /\ ~e.huge

\* The entries a walk reads are those of the tables along the path, until there is none.
LEMMA WalkReads ==
  ASSUME TypeOK, NEW v \in VirtualPage, NEW x, x = PathOf(v), NEW e, e = EntryOf(v)
  PROVE  /\ e[1] = At(content, 1, x)
         /\ Leading(e[1]) => Tab(content, 2, x) = e[1].page /\ Tab(content, 2, x) # NONE
                             /\ e[2] = At(content, 2, x)
         /\ ~Leading(e[1]) => Tab(content, 2, x) = NONE /\ e[2] = e[1]
         /\ Leading(e[2]) => Tab(content, 3, x) = e[2].page /\ Tab(content, 3, x) # NONE
                             /\ e[3] = At(content, 3, x)
         /\ ~Leading(e[2]) => Tab(content, 3, x) = NONE /\ e[3] = e[2]
         /\ Leading(e[3]) => Tab(content, 4, x) = e[3].page /\ Tab(content, 4, x) # NONE
                             /\ e[4] = At(content, 4, x)
         /\ ~Leading(e[3]) => Tab(content, 4, x) = NONE /\ e[4] = e[3]
<1> DEFINE c == content
<1>1. c \in Tables /\ x \in Path
  BY PathOfIs DEF TypeOK, Tables
<1>i. /\ IndexAt(v, 1) = x[1] /\ IndexAt(v, 2) = x[2] /\ IndexAt(v, 3) = x[3] /\ IndexAt(v, 4) = x[4]
  BY DEF PathOf
<1>2. /\ e[1] = c[Boot[1]][x[1]]
      /\ e[2] = IF Leading(e[1]) THEN c[e[1].page][x[2]] ELSE e[1]
      /\ e[3] = IF Leading(e[2]) THEN c[e[2].page][x[3]] ELSE e[2]
      /\ e[4] = IF Leading(e[3]) THEN c[e[3].page][x[4]] ELSE e[3]
  <2>1. /\ e[1] = c[Boot[1]][IndexAt(v, 1)]
        /\ e[2] = IF Leading(e[1]) THEN c[e[1].page][IndexAt(v, 2)] ELSE e[1]
        /\ e[3] = IF Leading(e[2]) THEN c[e[2].page][IndexAt(v, 3)] ELSE e[2]
        /\ e[4] = IF Leading(e[3]) THEN c[e[3].page][IndexAt(v, 4)] ELSE e[3]
    BY DEF EntryOf, Leading
  <2> QED BY <2>1, <1>i
<1> HIDE DEF c
<1>3. \A m \in 1 .. 4 : Tab(c, m, x) # NONE => Tab(c, m, x) \in Page /\ At(c, m, x) \in EntrySet
  <2> SUFFICES ASSUME NEW m \in 1 .. 4, Tab(c, m, x) # NONE
               PROVE  Tab(c, m, x) \in Page /\ At(c, m, x) \in EntrySet
    OBVIOUS
  <2>1. Tab(c, m, x) \in Page /\ x[m] \in Index
    BY <1>1, TabType, PathIs
  <2> QED BY <1>1, <2>1, AtIsEntry DEF At
<1>p. \A g \in EntrySet : g.page \in Page /\ g.page # NONE
  <2>1. \A g \in EntrySet : g.page \in Page
    BY EntryIs
  <2> QED BY <2>1, BootIs
<1>4. e[1] = At(c, 1, x) /\ Tab(c, 1, x) # NONE
  BY <1>2, TabIs, BootIs DEF At
<1>5. /\ Leading(e[1]) => Tab(c, 2, x) = e[1].page /\ Tab(c, 2, x) # NONE /\ e[2] = At(c, 2, x)
      /\ ~Leading(e[1]) => Tab(c, 2, x) = NONE /\ e[2] = e[1]
  <2>1. Tab(c, 2, x) = IF Leading(e[1]) THEN e[1].page ELSE NONE
    BY <1>4, TabIs DEF Follow, At, Leading
  <2>2. e[1].page # NONE
    BY <1>3, <1>4, <1>p
  <2> QED BY <1>2, <2>1, <2>2 DEF At
<1>6. /\ Leading(e[2]) => Tab(c, 3, x) = e[2].page /\ Tab(c, 3, x) # NONE /\ e[3] = At(c, 3, x)
      /\ ~Leading(e[2]) => Tab(c, 3, x) = NONE /\ e[3] = e[2]
  <2>1. CASE Leading(e[1])
    <3>1. e[2] = At(c, 2, x) /\ Tab(c, 2, x) # NONE
      BY <1>5, <2>1
    <3>2. Tab(c, 3, x) = IF Leading(e[2]) THEN e[2].page ELSE NONE
      BY <3>1, TabIs DEF Follow, At, Leading
    <3>3. e[2].page # NONE
      BY <1>3, <1>p, <3>1
    <3> QED BY <1>2, <3>2, <3>3 DEF At
  <2>2. CASE ~Leading(e[1])
    <3>1. e[2] = e[1] /\ ~Leading(e[2]) /\ Tab(c, 2, x) = NONE
      BY <1>5, <2>2
    <3>2. Tab(c, 3, x) = NONE
      BY <3>1, TabIs DEF Follow
    <3> QED BY <1>2, <3>1, <3>2
  <2> QED BY <2>1, <2>2
<1>7. /\ Leading(e[3]) => Tab(c, 4, x) = e[3].page /\ Tab(c, 4, x) # NONE /\ e[4] = At(c, 4, x)
      /\ ~Leading(e[3]) => Tab(c, 4, x) = NONE /\ e[4] = e[3]
  <2>1. CASE Leading(e[2])
    <3>1. e[3] = At(c, 3, x) /\ Tab(c, 3, x) # NONE
      BY <1>6, <2>1
    <3>2. Tab(c, 4, x) = IF Leading(e[3]) THEN e[3].page ELSE NONE
      BY <3>1, TabIs DEF Follow, At, Leading
    <3>3. e[3].page # NONE
      BY <1>3, <1>p, <3>1
    <3> QED BY <1>2, <3>2, <3>3 DEF At
  <2>2. CASE ~Leading(e[2])
    <3>1. e[3] = e[2] /\ ~Leading(e[3]) /\ Tab(c, 3, x) = NONE
      BY <1>6, <2>2
    <3>2. Tab(c, 4, x) = NONE
      BY <3>1, TabIs DEF Follow
    <3> QED BY <1>2, <3>1, <3>2
  <2> QED BY <2>1, <2>2
<1> QED BY <1>4, <1>5, <1>6, <1>7 DEF c

\* Where the entry is that vmm_unmap_page clears, and what vmm_get_phys returns.
LEMMA LookupIs ==
  ASSUME TypeOK, HugeAtThree(content), NEW v \in VirtualPage, NEW x, x = PathOf(v),
         NEW e, e = EntryOf(v)
  PROVE  /\ e[4].huge <=> Large(content, x)
         /\ e[4].huge => e[2].present /\ e[2].page = Tab(content, 3, x) /\ Tab(content, 3, x) # NONE
         /\ ~e[4].huge /\ e[3].present => e[3].page = Tab(content, 4, x) /\ Tab(content, 4, x) # NONE
         /\ vmm_get_phys(v) = Phys(content, x)
<1> DEFINE c == content
<1>0. x \in Path
  BY PathOfIs
<1>1. /\ e[1] = At(c, 1, x) /\ Tab(c, 1, x) # NONE
      /\ Leading(e[1]) => Tab(c, 2, x) = e[1].page /\ Tab(c, 2, x) # NONE /\ e[2] = At(c, 2, x)
      /\ ~Leading(e[1]) => Tab(c, 2, x) = NONE /\ e[2] = e[1]
      /\ Leading(e[2]) => Tab(c, 3, x) = e[2].page /\ Tab(c, 3, x) # NONE /\ e[3] = At(c, 3, x)
      /\ ~Leading(e[2]) => Tab(c, 3, x) = NONE /\ e[3] = e[2]
      /\ Leading(e[3]) => Tab(c, 4, x) = e[3].page /\ Tab(c, 4, x) # NONE /\ e[4] = At(c, 4, x)
      /\ ~Leading(e[3]) => Tab(c, 4, x) = NONE /\ e[4] = e[3]
  BY WalkReads, TabIs, BootIs
<1>2. (e[4].huge => e[4].present) =>
        vmm_get_phys(v) = IF ~e[4].present THEN NONE
                          ELSE IF e[4].huge THEN e[4].page + x[4] ELSE e[4].page
  <2>1. IndexAt(v, 4) = x[4]
    BY DEF PathOf
  <2>2. vmm_get_phys(v) = CASE ~e[4].present -> NONE
                            [] e[4].huge -> e[4].page + x[4]
                            [] OTHER -> e[4].page
    BY <2>1 DEF vmm_get_phys, Levels
  <2>3. CASE ~e[4].present /\ ~e[4].huge
    BY <2>2, <2>3
  <2>4. CASE e[4].present /\ e[4].huge
    BY <2>2, <2>4
  <2>5. CASE e[4].present /\ ~e[4].huge
    BY <2>2, <2>5
  <2> QED BY <2>3, <2>4, <2>5
<1> DEFINE H(m) == Tab(c, m, x) # NONE => ~At(c, m, x).huge
<1>3. H(1) /\ H(2) /\ H(4)
  <2>1. \A m \in 1 .. 4 : m # 3 => H(m)
    BY <1>0 DEF HugeAtThree
  <2> HIDE DEF H
  <2> QED BY <2>1
<1>h. Tab(c, 3, x) # NONE /\ At(c, 3, x).huge => At(c, 3, x).present
  <2>0. c \in Tables
    BY DEF TypeOK, Tables
  <2> HIDE DEF c
  <2>1. x[3] \in Index /\ Tab(c, 3, x) \in Page \cup {NONE}
    BY <1>0, <2>0, TabType, PathIs
  <2> QED BY <2>0, <2>1, AtIsEntry DEF At
<1> HIDE DEF c
<1>4. ~e[1].huge /\ ~e[2].huge
  BY <1>1, <1>3
<1>5. CASE Leading(e[3])
  <2>1. Leading(e[2]) /\ e[3] = At(c, 3, x) /\ ~e[3].huge /\ e[4] = At(c, 4, x) /\ Tab(c, 4, x) # NONE
    BY <1>1, <1>5 DEF Leading
  <2>2. ~Large(c, x) /\ ~e[4].huge
    BY <1>3, <2>1 DEF Large
  <2>3. Phys(c, x) = IF e[4].present THEN e[4].page ELSE NONE
    BY <2>1 DEF Phys
  <2>4. vmm_get_phys(v) = Phys(c, x)
    BY <1>2, <2>2, <2>3
  <2> QED BY <1>1, <1>5, <2>2, <2>4 DEF c
<1>6. CASE ~Leading(e[3]) /\ Leading(e[2])
  <2>1. e[4] = e[3] /\ e[3] = At(c, 3, x) /\ Tab(c, 3, x) # NONE /\ Tab(c, 4, x) = NONE /\ Tab(c, 3, x) = e[2].page
    BY <1>1, <1>6
  <2>2. Large(c, x) <=> e[4].huge
    BY <2>1 DEF Large
  <2>3. Phys(c, x) = IF e[4].huge THEN e[4].page + x[4] ELSE NONE
    BY <2>1, <2>2 DEF Phys
  <2>4. e[4].huge => e[4].present
    BY <1>h, <2>1
  <2>5. ~e[4].huge => ~e[4].present
    BY <1>6, <2>1 DEF Leading
  <2>6. vmm_get_phys(v) = Phys(c, x)
    BY <1>2, <2>3, <2>4, <2>5
  <2>7. e[2].present
    BY <1>6 DEF Leading
  <2> QED BY <2>1, <2>2, <2>5, <2>6, <2>7 DEF c
<1>7. CASE ~Leading(e[3]) /\ ~Leading(e[2])
  <2>1. e[4] = e[3] /\ e[3] = e[2] /\ Tab(c, 3, x) = NONE /\ Tab(c, 4, x) = NONE
    BY <1>1, <1>7
  <2>2. ~Large(c, x) /\ ~e[4].huge /\ ~e[4].present /\ ~e[3].present
    BY <1>4, <1>7, <2>1 DEF Large, Leading
  <2>3. Phys(c, x) = NONE
    BY <2>1, <2>2 DEF Phys
  <2>4. vmm_get_phys(v) = Phys(c, x)
    BY <1>2, <2>2, <2>3
  <2> QED BY <2>2, <2>4 DEF c
<1> QED BY <1>5, <1>6, <1>7

----------------------------------------------------------------------------
(* The initial states.                                                     *)

\* The number of pages is at most PMM_MAX_MEMORY's, whatever the BIOS reports.
LEMMA TotalIs ==
  ASSUME NEW map \in Seq(Regions)
  PROVE  TotalPages({map[i] : i \in DOMAIN map}) \in 0 .. MaxPages
<1> DEFINE f == [i \in 1 .. Len(map) |-> map[i].base + map[i].length]
           S == {0} \cup {r.base + r.length : r \in {map[i] : i \in DOMAIN map}}
<1>1. Len(map) \in Nat /\ DOMAIN map = 1 .. Len(map) /\ \A i \in DOMAIN map : map[i] \in Regions
  OBVIOUS
<1>2. f \in [1 .. Len(map) -> Nat]
  <2>1. \A r \in Regions : r.base + r.length \in Nat
    BY DEF Regions
  <2> QED BY <1>1, <2>1
<1>3. PICK b \in Nat : \A i \in 1 .. Len(map) : f[i] <= b
  <2> HIDE DEF f
  <2> QED BY <1>1, <1>2, Bounded
<1>4. \A y \in S : y \in Nat /\ y <= b
  <2> SUFFICES ASSUME NEW y \in S PROVE y \in Nat /\ y <= b
    OBVIOUS
  <2>1. CASE y = 0
    BY <2>1
  <2>2. CASE y # 0
    <3>1. PICK i \in 1 .. Len(map) : y = map[i].base + map[i].length
      BY <1>1, <2>2
    <3>2. y = f[i]
      BY <3>1
    <3> QED BY <1>2, <1>3, <3>2
  <2> QED BY <2>1, <2>2
<1>5. S \subseteq Nat /\ S # {}
  BY <1>4
<1>6. TotalPages({map[i] : i \in DOMAIN map}) = Min({MaxPages, Floor(Max(S))})
  BY DEF TotalPages
<1> HIDE DEF S, f
<1>7. Max(S) \in Nat
  BY <1>4, <1>5, MaxIs
<1>8. Floor(Max(S)) \in Nat /\ MaxPages \in Nat
  BY <1>7, PagesAssumption, Division DEF Floor
<1> DEFINE T == {MaxPages, Floor(Max(S))}
<1>9. T \subseteq Nat /\ MaxPages \in T /\ T # {}
  BY <1>8
<1> HIDE DEF T
<1>10. Min(T) \in T /\ \A y \in T : Min(T) <= y
  BY <1>9, MinIs
<1>11. Min(T) \in Nat /\ Min(T) <= MaxPages
  BY <1>9, <1>10
<1> QED BY <1>6, <1>8, <1>11 DEF T

Mark == [mark : {"free", "used"}, region : Regions]
MarksOf(map) == [i \in DOMAIN map |-> [mark |-> "free", region |-> map[i]]] \o
                [i \in DOMAIN Reserved |-> [mark |-> "used", region |-> Reserved[i]]]

LEMMA SeqIs ==
  ASSUME NEW S, NEW n \in Nat, NEW f \in [1 .. n -> S]
  PROVE  f \in Seq(S) /\ Len(f) = n
  OBVIOUS

LEMMA ConcatIs ==
  ASSUME NEW S, NEW a \in Seq(S), NEW b \in Seq(S)
  PROVE  /\ a \o b \in Seq(S) /\ DOMAIN (a \o b) = 1 .. Len(a) + Len(b)
         /\ \A j \in 1 .. Len(a) + Len(b) : (a \o b)[j] = IF j <= Len(a) THEN a[j] ELSE b[j - Len(a)]
  OBVIOUS

LEMMA TailIs ==
  ASSUME NEW S, NEW a \in Seq(S), a # << >>
  PROVE  /\ Tail(a) \in Seq(S) /\ DOMAIN Tail(a) = 1 .. Len(a) - 1
         /\ \A j \in 1 .. Len(a) - 1 : Tail(a)[j] = a[j + 1]
         /\ Len(a) \in Nat /\ Len(a) > 0 /\ DOMAIN a = 1 .. Len(a) /\ Head(a) = a[1]
         /\ \A j \in DOMAIN a : a[j] \in S
  OBVIOUS

LEMMA InitMarks ==
  ASSUME NEW map \in Seq(Regions), NEW todo0, todo0 = MarksOf(map)
  PROVE  /\ todo0 \in Seq(Mark)
         /\ \A j \in DOMAIN todo0 : todo0[j].mark = "free" => todo0[j].region \in {map[i] : i \in DOMAIN map}
         /\ \A j, k \in DOMAIN todo0 : j < k /\ todo0[j].mark = "used" => todo0[k].mark = "used"
         /\ \A i \in DOMAIN Reserved :
              \E j \in DOMAIN todo0 : todo0[j].mark = "used" /\ todo0[j].region = Reserved[i]
<1> DEFINE A == [i \in DOMAIN map |-> [mark |-> "free", region |-> map[i]]]
           B == [i \in DOMAIN Reserved |-> [mark |-> "used", region |-> Reserved[i]]]
           n == Len(map)
           m == Len(Reserved)
<1>1. /\ n \in Nat /\ DOMAIN map = 1 .. n /\ \A i \in 1 .. n : map[i] \in Regions
      /\ m \in Nat /\ DOMAIN Reserved = 1 .. m /\ \A i \in 1 .. m : Reserved[i] \in Regions
  <2>1. Reserved \in Seq(Regions)
    BY RegionAssumption DEF Regions
  <2> QED BY <2>1
<1> HIDE DEF n, m
<1>2. A \in [1 .. n -> Mark] /\ B \in [1 .. m -> Mark]
  BY <1>1 DEF Mark
<1>3. A \in Seq(Mark) /\ Len(A) = n /\ B \in Seq(Mark) /\ Len(B) = m
  <2> HIDE DEF A, B
  <2> QED BY <1>1, <1>2, SeqIs
<1>4. /\ \A i \in 1 .. n : A[i].mark = "free" /\ A[i].region = map[i]
      /\ \A i \in 1 .. m : B[i].mark = "used" /\ B[i].region = Reserved[i]
  BY <1>1
<1>5. todo0 = A \o B
  BY DEF MarksOf
<1> HIDE DEF A, B
<1>6. /\ todo0 \in Seq(Mark) /\ DOMAIN todo0 = 1 .. n + m
      /\ \A j \in 1 .. n + m : todo0[j] = IF j <= n THEN A[j] ELSE B[j - n]
  BY <1>3, <1>5, ConcatIs
<1>7. ASSUME NEW j \in DOMAIN todo0
      PROVE  /\ j <= n => todo0[j].mark = "free" /\ todo0[j].region = map[j] /\ j \in DOMAIN map
             /\ ~(j <= n) => todo0[j].mark = "used"
  <2>1. CASE j <= n
    <3>1. j \in 1 .. n /\ todo0[j] = A[j]
      BY <1>1, <1>6, <2>1
    <3> QED BY <1>1, <1>4, <2>1, <3>1
  <2>2. CASE ~(j <= n)
    <3>1. j - n \in 1 .. m /\ todo0[j] = B[j - n]
      BY <1>1, <1>6, <2>2
    <3> QED BY <1>4, <2>2, <3>1
  <2> QED BY <2>1, <2>2
<1>8. ASSUME NEW j \in DOMAIN todo0, NEW k \in DOMAIN todo0, j < k, todo0[j].mark = "used"
      PROVE  todo0[k].mark = "used"
  <2>1. ~(j <= n)
    BY <1>7, <1>8
  <2>2. ~(k <= n)
    BY <1>1, <1>6, <1>8, <2>1
  <2> QED BY <1>7, <2>2
<1>9. ASSUME NEW i \in DOMAIN Reserved
      PROVE  \E j \in DOMAIN todo0 : todo0[j].mark = "used" /\ todo0[j].region = Reserved[i]
  <2>1. n + i \in DOMAIN todo0 /\ ~(n + i <= n) /\ (n + i) - n = i /\ i \in 1 .. m
    BY <1>1, <1>6
  <2>2. todo0[n + i] = B[i]
    BY <1>6, <2>1
  <2>3. todo0[n + i].mark = "used" /\ todo0[n + i].region = Reserved[i]
    BY <1>4, <2>1, <2>2
  <2> QED BY <2>1, <2>3
<1>10. ASSUME NEW j \in DOMAIN todo0, todo0[j].mark = "free"
       PROVE  todo0[j].region \in {map[i] : i \in DOMAIN map}
  <2>1. j <= n
    BY <1>7, <1>10
  <2> QED BY <1>7, <2>1
<1> QED BY <1>6, <1>8, <1>9, <1>10

LEMMA InitPmm ==
  ASSUME Init
  PROVE  /\ total \in 0 .. MaxPages /\ pmm_used_pages \in 0 .. MaxPages
         /\ bitmap = Page /\ held = {}
         /\ todo \in Seq(Mark)
         /\ CountExact /\ Bits /\ Marks /\ Covered
<1>1. PICK map \in MemoryMaps :
        /\ usable = {map[i] : i \in DOMAIN map}
        /\ total = TotalPages({map[i] : i \in DOMAIN map})
        /\ todo = MarksOf(map)
  BY DEF Init, MarksOf
<1>2. map \in Seq(Regions)
  BY RegionAssumption DEF Regions
<1>3. total \in 0 .. MaxPages
  BY <1>1, <1>2, TotalIs
<1>4. /\ todo \in Seq(Mark)
      /\ \A j \in DOMAIN todo : todo[j].mark = "free" => todo[j].region \in {map[i] : i \in DOMAIN map}
      /\ \A j, k \in DOMAIN todo : j < k /\ todo[j].mark = "used" => todo[k].mark = "used"
      /\ \A i \in DOMAIN Reserved :
           \E j \in DOMAIN todo : todo[j].mark = "used" /\ todo[j].region = Reserved[i]
  BY <1>1, <1>2, InitMarks
<1>5. bitmap = Page /\ held = {} /\ walk = Idle /\ pmm_used_pages = total /\ FreePages = {}
  BY DEF Init, FreePages
<1>6. Marks
  BY <1>1, <1>4 DEF Marks
<1>7. CountExact
  <2>1. total \in Nat /\ 0 \in Int /\ total - 1 \in Int /\ MaxPages \in Nat
    BY <1>3, BootIs
  <2>2. {p \in 0 .. total - 1 : p \in bitmap} = 0 .. total - 1
    BY <1>3, <1>5, <2>1 DEF Page
  <2>3. Cardinality(0 .. total - 1) = IF 0 > total - 1 THEN 0 ELSE (total - 1) - 0 + 1
    BY <2>1, FS_Interval
  <2>4. Cardinality(0 .. total - 1) = total
    BY <2>1, <2>3
  <2> QED BY <1>5, <2>2, <2>4 DEF CountExact
<1>8. Bits /\ Covered
  BY <1>5 DEF Bits, Covered
<1> QED BY <1>3, <1>4, <1>5, <1>6, <1>7, <1>8

LEMMA InitTables ==
  ASSUME Init
  PROVE  /\ content \in Tables /\ expected \in [VirtualPage -> Int] /\ walk = Idle
         /\ Tree(content) /\ HugeAtThree(content) /\ Lookup
         /\ \A l \in 1 .. 4 : \A x \in Path : Tab(content, l, x) # NONE =>
              \E k \in DOMAIN Boot : Tab(content, l, x) = Boot[k]
<1> DEFINE c == content
           K(p) == CHOOSE k \in DOMAIN Boot : Boot[k] = p
           Row(p) == IF \E k \in DOMAIN Boot : Boot[k] = p THEN BootTable(K(p)) ELSE Garbage
<1>0. 0 \in Index /\ Fanout \in Nat
  BY PagesAssumption DEF Index
<1>1. c = [p \in Page |-> Row(p)]
  BY DEF Init
<1>2. ASSUME NEW k \in 1 .. 3
      PROVE  /\ BootTable(k) \in [Index -> EntrySet]
             /\ \A i \in Index : BootTable(k)[i] =
                  IF i = 0 THEN IF k = 3 THEN Entry(0, TRUE) ELSE Entry(Boot[k + 1], FALSE) ELSE Absent
  <2> DEFINE g == IF k = 3 THEN Entry(0, TRUE) ELSE Entry(Boot[k + 1], FALSE)
  <2>1. g \in EntrySet
    <3>1. k # 3 => k + 1 \in 2 .. 3
      OBVIOUS
    <3>2. k # 3 => Boot[k + 1] \in Page
      BY <3>1, BootIs
    <3> QED BY <3>2, BootIs, EntryIs
  <2>2. BootTable(k) = [Cleared EXCEPT ![0] = g]
    BY BootIs DEF BootTable
  <2>3. Cleared \in [Index -> EntrySet] /\ \A i \in Index : Cleared[i] = Absent
    BY EntryIs
  <2> HIDE DEF g
  <2>4. BootTable(k) \in [Index -> EntrySet] /\ \A i \in Index : BootTable(k)[i] = IF i = 0 THEN g ELSE Absent
    BY <1>0, <2>1, <2>2, <2>3
  <2> QED BY <2>4 DEF g
<1> HIDE DEF c
<1>3. c \in Tables
  <2> SUFFICES ASSUME NEW p \in Page PROVE Row(p) \in [Index -> EntrySet]
    BY <1>1 DEF Tables
  <2>1. CASE \E k \in DOMAIN Boot : Boot[k] = p
    <3>1. K(p) \in DOMAIN Boot
      BY <2>1
    <3>2. K(p) \in 1 .. 3
      BY <3>1, BootIs
    <3> HIDE DEF K
    <3> QED BY <1>2, <2>1, <3>2
  <2>2. CASE ~\E k \in DOMAIN Boot : Boot[k] = p
    BY <2>2, EntryIs
  <2> QED BY <2>1, <2>2
<1>4. ASSUME NEW k \in 1 .. 3
      PROVE  Boot[k] \in Page /\ c[Boot[k]] = BootTable(k)
  <2>1. k \in DOMAIN Boot /\ Boot[k] \in Page
    BY BootIs
  <2>2. K(Boot[k]) \in DOMAIN Boot /\ Boot[K(Boot[k])] = Boot[k]
    BY <2>1
  <2>3. K(Boot[k]) = k
    BY <2>1, <2>2, RegionAssumption
  <2>4. c[Boot[k]] = Row(Boot[k])
    BY <1>1, <2>1
  <2> HIDE DEF K
  <2> QED BY <2>1, <2>3, <2>4
<1>e. /\ Entry(Boot[2], FALSE).present /\ ~Entry(Boot[2], FALSE).huge /\ Entry(Boot[2], FALSE).page = Boot[2]
      /\ Entry(Boot[3], FALSE).present /\ ~Entry(Boot[3], FALSE).huge /\ Entry(Boot[3], FALSE).page = Boot[3]
      /\ Entry(0, TRUE).present /\ Entry(0, TRUE).huge /\ Entry(0, TRUE).page = 0
      /\ ~Absent.present /\ ~Absent.huge
  BY DEF Entry, Absent
<1>5. ASSUME NEW i \in Index
      PROVE  /\ c[Boot[1]][i] = IF i = 0 THEN Entry(Boot[2], FALSE) ELSE Absent
             /\ c[Boot[2]][i] = IF i = 0 THEN Entry(Boot[3], FALSE) ELSE Absent
             /\ c[Boot[3]][i] = IF i = 0 THEN Entry(0, TRUE) ELSE Absent
  <2> DEFINE Q(k, n) == c[Boot[k]][i] =
               IF i = 0 THEN IF k = 3 THEN Entry(0, TRUE) ELSE Entry(Boot[n], FALSE) ELSE Absent
  <2>1. \A k \in 1 .. 3 : Q(k, k + 1)
    <3> SUFFICES ASSUME NEW k \in 1 .. 3 PROVE Q(k, k + 1)
      OBVIOUS
    <3>1. c[Boot[k]] = BootTable(k)
      BY <1>4
    <3>2. BootTable(k)[i] =
            IF i = 0 THEN IF k = 3 THEN Entry(0, TRUE) ELSE Entry(Boot[k + 1], FALSE) ELSE Absent
      BY <1>2
    <3> QED BY <3>1, <3>2
  <2> HIDE DEF Q
  <2>2. Q(1, 2) /\ Q(2, 3) /\ Q(3, 4)
    <3>1. Q(1, 1 + 1) /\ Q(2, 2 + 1) /\ Q(3, 3 + 1)
      BY <2>1
    <3> QED BY <3>1
  <2> QED BY <2>2 DEF Q
<1>6. ASSUME NEW x \in Path
      PROVE  /\ Tab(c, 1, x) = Boot[1]
             /\ Tab(c, 2, x) = IF x[1] = 0 THEN Boot[2] ELSE NONE
             /\ Tab(c, 3, x) = IF x[1] = 0 /\ x[2] = 0 THEN Boot[3] ELSE NONE
             /\ Tab(c, 4, x) = NONE
  <2>0. x[1] \in Index /\ x[2] \in Index /\ x[3] \in Index
    BY PathIs
  <2>b. Boot[1] # NONE /\ Boot[2] # NONE /\ Boot[3] # NONE /\ Boot[2] \in Page /\ Boot[3] \in Page /\ 0 \in Page
    BY BootIs
  <2>1. Tab(c, 1, x) = Boot[1]
    BY TabIs
  <2>2. Tab(c, 2, x) = IF x[1] = 0 THEN Boot[2] ELSE NONE
    <3>1. Tab(c, 2, x) = Follow(c, Boot[1], x[1])
      BY <2>1, TabIs
    <3>2. c[Boot[1]][x[1]] = IF x[1] = 0 THEN Entry(Boot[2], FALSE) ELSE Absent
      BY <1>5, <2>0
    <3> QED BY <2>b, <3>1, <3>2, <1>e DEF Follow
  <2>3. Tab(c, 3, x) = IF x[1] = 0 /\ x[2] = 0 THEN Boot[3] ELSE NONE
    <3>1. Tab(c, 3, x) = Follow(c, Tab(c, 2, x), x[2])
      BY TabIs
    <3>2. c[Boot[2]][x[2]] = IF x[2] = 0 THEN Entry(Boot[3], FALSE) ELSE Absent
      BY <1>5, <2>0
    <3> QED BY <2>b, <2>2, <3>1, <3>2, <1>e DEF Follow
  <2>4. Tab(c, 4, x) = NONE
    <3>1. Tab(c, 4, x) = Follow(c, Tab(c, 3, x), x[3])
      BY TabIs
    <3>2. c[Boot[3]][x[3]] = IF x[3] = 0 THEN Entry(0, TRUE) ELSE Absent
      BY <1>5, <2>0
    <3> QED BY <2>b, <2>3, <3>1, <3>2, <1>e DEF Follow
  <2> QED BY <2>1, <2>2, <2>3, <2>4
<1>7. ASSUME NEW l \in 1 .. 4, NEW x \in Path, Tab(c, l, x) # NONE
      PROVE  /\ l \in 1 .. 3 /\ Tab(c, l, x) = Boot[l] /\ \A n \in 1 .. l - 1 : x[n] = 0
             /\ At(c, l, x).huge => l = 3
  <2>0. x[1] \in Index /\ x[2] \in Index /\ Boot[2] \in Page /\ Boot[3] \in Page
    BY PathIs, BootIs
  <2>1. CASE l = 1
    <3>1. c[Boot[1]][x[1]] = IF x[1] = 0 THEN Entry(Boot[2], FALSE) ELSE Absent
      BY <1>5, <2>0
    <3>2. ~c[Boot[1]][x[1]].huge
      BY <3>1, <1>e
    <3> QED BY <1>6, <2>1, <3>2 DEF At
  <2>2. CASE l = 2
    <3>0. Tab(c, 2, x) = Boot[2] /\ x[1] = 0
      BY <1>6, <1>7, <2>2
    <3>1. c[Boot[2]][x[2]] = IF x[2] = 0 THEN Entry(Boot[3], FALSE) ELSE Absent
      BY <1>5, <2>0
    <3>2. ~c[Boot[2]][x[2]].huge
      BY <3>1, <1>e
    <3> QED BY <2>2, <3>0, <3>2 DEF At
  <2>3. CASE l = 3
    <3>0. Tab(c, 3, x) = Boot[3] /\ x[1] = 0 /\ x[2] = 0
      BY <1>6, <1>7, <2>3
    <3>1. \A n \in 1 .. 2 : n = 1 \/ n = 2
      OBVIOUS
    <3> QED BY <2>3, <3>0, <3>1
  <2>4. CASE l = 4
    BY <1>6, <1>7, <2>4
  <2> QED BY <2>1, <2>2, <2>3, <2>4
<1>8. Tree(c)
  <2> SUFFICES ASSUME NEW l \in 1 .. 4, NEW m \in 1 .. 4, NEW x \in Path, NEW y \in Path,
                      Tab(c, l, x) # NONE, Tab(c, l, x) = Tab(c, m, y)
               PROVE  l = m /\ Agree(l - 1, x, y)
    BY DEF Tree
  <2>1. /\ l \in 1 .. 3 /\ m \in 1 .. 3 /\ Boot[l] = Boot[m]
        /\ \A n \in 1 .. l - 1 : x[n] = 0
        /\ \A n \in 1 .. m - 1 : y[n] = 0
    BY <1>7
  <2>2. l = m
    BY <2>1, BootIs, RegionAssumption
  <2> QED BY <2>1, <2>2 DEF Agree
<1>9. HugeAtThree(c)
  BY <1>7 DEF HugeAtThree
<1>10. ASSUME NEW x \in Path
       PROVE  Phys(c, x) = IF x[1] = 0 /\ x[2] = 0 /\ x[3] = 0 THEN x[4] ELSE NONE
  <2>0. x[3] \in Index /\ x[4] \in Int /\ Boot[3] # NONE /\ 0 \in Page
    BY <1>0, PathIs, BootIs DEF Index
  <2>1. Tab(c, 4, x) = NONE
    BY <1>6
  <2>2. c[Boot[3]][x[3]] = IF x[3] = 0 THEN Entry(0, TRUE) ELSE Absent
    BY <1>5, <2>0
  <2>3. Large(c, x) <=> x[1] = 0 /\ x[2] = 0 /\ x[3] = 0
    <3>1. CASE x[1] = 0 /\ x[2] = 0
      <4>1. Tab(c, 3, x) = Boot[3]
        BY <1>6, <3>1
      <4> QED BY <2>0, <2>2, <3>1, <4>1, <1>e DEF Large, At
    <3>2. CASE ~(x[1] = 0 /\ x[2] = 0)
      <4>1. Tab(c, 3, x) = NONE
        BY <1>6, <3>2
      <4> QED BY <3>2, <4>1 DEF Large
    <3> QED BY <3>1, <3>2
  <2>4. CASE Large(c, x)
    <3>1. Tab(c, 3, x) = Boot[3]
      BY <1>6, <2>3, <2>4
    <3>2. At(c, 3, x).page = 0
      BY <2>0, <2>2, <2>3, <2>4, <3>1, <1>e DEF At
    <3>3. Phys(c, x) = 0 + x[4]
      BY <2>1, <2>4, <3>2 DEF Phys
    <3> QED BY <2>0, <2>3, <2>4, <3>3
  <2>5. CASE ~Large(c, x)
    BY <2>1, <2>3, <2>5 DEF Phys
  <2> QED BY <2>4, <2>5
<1>11. Lookup /\ expected \in [VirtualPage -> Int]
  <2>1. expected = [v \in VirtualPage |-> IF v < Fanout THEN v ELSE NONE]
    BY DEF Init
  <2>2. expected \in [VirtualPage -> Int]
    BY <2>1, UpIs DEF NONE
  <2>3. ASSUME NEW v \in VirtualPage PROVE Phys(c, PathOf(v)) = expected[v]
    <3> DEFINE x == PathOf(v)
    <3>1. x \in Path
      BY PathOfIs
    <3>2. /\ v < Fanout <=> x[1] = 0 /\ x[2] = 0 /\ x[3] = 0
          /\ v < Fanout => x[4] = v
      BY FirstTable
    <3>3. expected[v] = IF v < Fanout THEN v ELSE NONE
      BY <2>1
    <3> HIDE DEF x
    <3>4. Phys(c, x) = expected[v]
      BY <1>10, <3>1, <3>2, <3>3
    <3> QED BY <3>4 DEF x
  <2> QED BY <2>2, <2>3 DEF Lookup, c
<1>12. ASSUME NEW l \in 1 .. 4, NEW x \in Path, Tab(c, l, x) # NONE
       PROVE  \E k \in DOMAIN Boot : Tab(c, l, x) = Boot[k]
  BY <1>7, <1>12, BootIs
<1>13. walk = Idle
  BY DEF Init
<1> QED BY <1>3, <1>8, <1>9, <1>11, <1>12, <1>13 DEF c

LEMMA InitInv ==
  ASSUME Init
  PROVE  IInv
<1>1. /\ total \in 0 .. MaxPages /\ pmm_used_pages \in 0 .. MaxPages
      /\ bitmap = Page /\ held = {} /\ todo \in Seq(Mark)
      /\ CountExact /\ Bits /\ Marks /\ Covered
  BY InitPmm
<1>2. /\ content \in Tables /\ expected \in [VirtualPage -> Int] /\ walk = Idle
      /\ Tree(content) /\ HugeAtThree(content) /\ Lookup
      /\ \A l \in 1 .. 4 : \A x \in Path : Tab(content, l, x) # NONE =>
           \E k \in DOMAIN Boot : Tab(content, l, x) = Boot[k]
  BY InitTables
<1>3. Idle \in Walks /\ walk.op # "map"
  BY <1>2 DEF Idle, Walks
<1>4. TypeOK
  BY <1>1, <1>2, <1>3 DEF TypeOK, Mark, Regions, Tables
<1>5. Private
  <2> SUFFICES ASSUME NEW l \in 1 .. 4, NEW x \in Path, Tab(content, l, x) # NONE
               PROVE  /\ Tab(content, l, x) \notin held
                      /\ todo = << >> => Tab(content, l, x) \in bitmap
                      /\ todo # << >> => \E k \in DOMAIN Boot : Tab(content, l, x) = Boot[k]
    BY DEF Private
  <2>1. Tab(content, l, x) \in Page
    BY <1>2, TabType
  <2> QED BY <1>1, <1>2, <2>1
<1>6. Walking
  BY <1>3 DEF Walking
<1> QED BY <1>1, <1>2, <1>4, <1>5, <1>6 DEF IInv

----------------------------------------------------------------------------
(* The steps: marking regions.                                             *)

\* The table part of the invariant, of one state.
Mapped == Tree(content) /\ HugeAtThree(content) /\ Lookup

LEMMA MappedKept ==
  ASSUME Mapped, content' = content, expected' = expected
  PROVE  Mapped'
  BY DEF Mapped, Lookup

LEMMA TypesGive ==
  ASSUME TypeOK
  PROVE  /\ total \in Nat /\ total <= MaxPages /\ MaxPages \in Nat /\ 0 .. total - 1 \subseteq Page
         /\ bitmap \subseteq Page /\ held \subseteq Page /\ content \in Tables /\ todo \in Seq(Mark)
         /\ walk \in Walks /\ expected \in [VirtualPage -> Int]
  BY BootIs DEF TypeOK, Page, Tables, Mark, Regions

LEMMA MarkTail ==
  ASSUME todo \in Seq(Mark), todo # << >>, todo' = Tail(todo)
  PROVE  /\ todo' \in Seq(Mark) /\ 1 \in DOMAIN todo /\ Head(todo) = todo[1] /\ todo[1] \in Mark
         /\ \A j \in DOMAIN todo' : j + 1 \in DOMAIN todo /\ todo'[j] = todo[j + 1] /\ j \in Nat
         /\ \A j \in DOMAIN todo : j # 1 => j - 1 \in DOMAIN todo' /\ todo'[j - 1] = todo[j]
         /\ \A j \in DOMAIN todo : j \in Nat /\ 1 <= j
<1> DEFINE a == todo
           n == Len(todo)
           b == Tail(todo)
<1>1. /\ b \in Seq(Mark) /\ DOMAIN b = 1 .. n - 1
      /\ \A j \in 1 .. n - 1 : b[j] = a[j + 1]
      /\ n \in Nat /\ n > 0 /\ DOMAIN a = 1 .. n /\ Head(a) = a[1]
      /\ \A j \in DOMAIN a : a[j] \in Mark
  BY TailIs
<1> HIDE DEF a, n, b
<1>2. /\ 1 \in DOMAIN a /\ a[1] \in Mark
      /\ \A j \in DOMAIN b : j + 1 \in DOMAIN a /\ b[j] = a[j + 1] /\ j \in Nat
      /\ \A j \in DOMAIN a : j \in Nat /\ 1 <= j
  BY <1>1
<1>3. ASSUME NEW j \in DOMAIN a, j # 1 PROVE j - 1 \in DOMAIN b /\ b[j - 1] = a[j]
  <2>1. j - 1 \in 1 .. n - 1 /\ (j - 1) + 1 = j
    BY <1>1, <1>3
  <2> QED BY <1>1, <2>1
<1> QED BY <1>1, <1>2, <1>3 DEF a, b

LEMMA MarksFree ==
  ASSUME TypeOK, Marks, todo # << >>, Head(todo).mark = "free", todo' = Tail(todo), usable' = usable
  PROVE  Marks'
<1>1. todo \in Seq(Mark)
  BY TypesGive
<1>2. /\ 1 \in DOMAIN todo /\ todo[1].mark = "free"
      /\ \A j \in DOMAIN todo' : j + 1 \in DOMAIN todo /\ todo'[j] = todo[j + 1] /\ j \in Nat
      /\ \A j \in DOMAIN todo : j # 1 => j - 1 \in DOMAIN todo' /\ todo'[j - 1] = todo[j]
  BY <1>1, MarkTail
<1>3. \A j \in DOMAIN todo' : todo'[j].mark = "free" => todo'[j].region \in usable
  BY <1>2 DEF Marks
<1>4. ASSUME NEW j \in DOMAIN todo', NEW k \in DOMAIN todo', j < k, todo'[j].mark = "used"
      PROVE  todo'[k].mark = "used"
  <2>1. j + 1 \in DOMAIN todo /\ k + 1 \in DOMAIN todo /\ j + 1 < k + 1 /\ todo[j + 1].mark = "used"
    BY <1>2, <1>4
  <2>2. todo[k + 1].mark = "used"
    BY <2>1 DEF Marks
  <2> QED BY <1>2, <2>2
<1>5. ASSUME NEW i \in DOMAIN Reserved
      PROVE  \E j \in DOMAIN todo' : todo'[j].mark = "used" /\ todo'[j].region = Reserved[i]
  <2>1. PICK j \in DOMAIN todo : todo[j].mark = "used" /\ todo[j].region = Reserved[i]
    BY <1>2 DEF Marks
  <2>2. j # 1
    BY <1>2, <2>1
  <2> QED BY <1>2, <2>1, <2>2
<1> QED BY <1>3, <1>4, <1>5 DEF Marks

LEMMA MarksUsed ==
  ASSUME TypeOK, Bits, Marks, todo # << >>, Head(todo).mark = "used", todo' = Tail(todo), usable' = usable,
         NEW r, r = Head(todo).region, total' = total,
         bitmap' = bitmap \cup {p \in 0 .. total - 1 : Floor(r.base) <= p /\ p < Floor(r.base) + Ceil(r.length)}
  PROVE  Marks'
<1>1. todo \in Seq(Mark) /\ 0 .. total - 1 \subseteq Page /\ total \in Nat
  BY TypesGive
<1>2. /\ 1 \in DOMAIN todo /\ todo[1].mark = "used" /\ todo[1].region = r /\ todo[1] \in Mark
      /\ \A j \in DOMAIN todo' : j + 1 \in DOMAIN todo /\ todo'[j] = todo[j + 1] /\ j \in Nat
      /\ \A j \in DOMAIN todo : j # 1 => j - 1 \in DOMAIN todo' /\ todo'[j - 1] = todo[j]
      /\ \A j \in DOMAIN todo : j \in Nat /\ 1 <= j
  BY <1>1, MarkTail
<1>a. r \in Regions
  BY <1>2 DEF Mark
<1>3. \A j \in DOMAIN todo : todo[j].mark = "used"
  <2> SUFFICES ASSUME NEW j \in DOMAIN todo PROVE todo[j].mark = "used"
    OBVIOUS
  <2>1. j = 1 \/ 1 < j
    BY <1>2
  <2>2. 1 < j => todo[j].mark = "used"
    BY <1>2 DEF Marks
  <2> QED BY <1>2, <2>1, <2>2
<1>4. \A j \in DOMAIN todo' : todo'[j].mark = "used"
  BY <1>2, <1>3
<1>5. FreePages' \subseteq FreePages
  BY DEF FreePages
<1>6. ASSUME NEW i \in DOMAIN Reserved, ~\E j \in DOMAIN todo' : todo'[j].mark = "used" /\ todo'[j].region = Reserved[i]
      PROVE  \A p \in FreePages' : Avoids(p, i)
  <2>1. CASE \A p \in FreePages : Avoids(p, i)
    BY <1>5, <2>1
  <2>2. CASE ~\A p \in FreePages : Avoids(p, i)
    <3>1. PICK j \in DOMAIN todo : todo[j].mark = "used" /\ todo[j].region = Reserved[i]
      BY <2>2 DEF Marks
    <3>2. j = 1
      <4> SUFFICES ASSUME j # 1 PROVE FALSE
        OBVIOUS
      <4>1. j - 1 \in DOMAIN todo' /\ todo'[j - 1] = todo[j]
        BY <1>2
      <4> QED BY <1>6, <3>1, <4>1
    <3>3. r = Reserved[i] /\ r.base % PageSize = 0
      BY <1>2, <3>1, <3>2, RegionAssumption
    <3> SUFFICES ASSUME NEW p \in FreePages', ~Avoids(p, i) PROVE FALSE
      OBVIOUS
    <3>4. p \in 0 .. total - 1 /\ p \notin bitmap'
      BY <1>5 DEF Bits, FreePages
    <3>5. p \in Nat /\ PageBytes(p) \cap Bytes(r) # {}
      BY <1>1, <3>3, <3>4 DEF Avoids
    <3>6. Floor(r.base) <= p /\ p < Floor(r.base) + Ceil(r.length)
      BY <1>a, <3>3, <3>5, TouchedIsMarked
    <3> QED BY <3>4, <3>6
  <2> QED BY <2>1, <2>2
<1>7. \A j \in DOMAIN todo' : todo'[j].mark = "free" => todo'[j].region \in usable'
  BY <1>4
<1>8. \A j, k \in DOMAIN todo' : j < k /\ todo'[j].mark = "used" => todo'[k].mark = "used"
  BY <1>4
<1>9. ASSUME NEW i \in DOMAIN Reserved
      PROVE  \/ \E j \in DOMAIN todo' : todo'[j].mark = "used" /\ todo'[j].region = Reserved[i]
             \/ /\ \A j \in DOMAIN todo' : todo'[j].mark = "used"
                /\ \A p \in FreePages' : Avoids(p, i)
  BY <1>4, <1>6
<1> QED BY <1>7, <1>8, <1>9 DEF Marks

\* When all regions are marked, the boot loader's tables are.
LEMMA BootMarked ==
  ASSUME Marks', todo' = << >>, NEW k \in DOMAIN Boot
  PROVE  Boot[k] \in bitmap'
<1> SUFFICES ASSUME Boot[k] \notin bitmap' PROVE FALSE
  OBVIOUS
<1>1. PICK i \in DOMAIN Reserved : PageBytes(Boot[k]) \subseteq Bytes(Reserved[i])
  BY RegionAssumption
<1>2. Boot[k] \in Page /\ Boot[k] \in Nat
  BY BootIs DEF Page
<1>3. DOMAIN todo' = {}
  OBVIOUS
<1>4. \A p \in FreePages' : Avoids(p, i)
  BY <1>3 DEF Marks
<1>5. Boot[k] \in FreePages'
  BY <1>2 DEF FreePages
<1>6. PageBytes(Boot[k]) \cap Bytes(Reserved[i]) = {}
  BY <1>4, <1>5 DEF Avoids
<1>7. PageSize * Boot[k] \in PageBytes(Boot[k])
  BY <1>2, PageBytesIs
<1> QED BY <1>1, <1>6, <1>7

LEMMA MarkInv ==
  ASSUME IInv, MarkRegion
  PROVE  IInv'
<1> DEFINE r == Head(todo).region
           F == {p \in 0 .. total - 1 : Ceil(r.base) <= p /\ p < Floor(r.base + r.length)}
           U == {p \in 0 .. total - 1 : Floor(r.base) <= p /\ p < Floor(r.base) + Ceil(r.length)}
<1>1. /\ TypeOK /\ CountExact /\ Bits /\ Marks /\ Covered /\ Private
      /\ total \in Nat /\ total <= MaxPages /\ MaxPages \in Nat /\ 0 .. total - 1 \subseteq Page
      /\ bitmap \subseteq Page /\ todo \in Seq(Mark) /\ held = {} /\ walk = Idle
  BY TypesGive DEF IInv, Bits, MarkRegion
<1>2. /\ todo # << >> /\ todo' = Tail(todo) /\ total' = total /\ usable' = usable /\ held' = held
      /\ content' = content /\ walk' = walk /\ expected' = expected
  BY DEF MarkRegion
<1>3. /\ todo' \in Seq(Mark) /\ 1 \in DOMAIN todo /\ Head(todo) = todo[1] /\ todo[1] \in Mark
  BY <1>1, <1>2, MarkTail
<1>4. r \in Regions /\ (Head(todo).mark = "free" \/ Head(todo).mark = "used")
  BY <1>3 DEF Mark
<1>5. /\ CountExact' /\ pmm_used_pages' \in 0 .. MaxPages /\ bitmap' \subseteq Page
      /\ FreePages' \subseteq 0 .. total - 1 /\ Marks'
      /\ \A p \in FreePages' : PageBytes(p) \subseteq UNION {Bytes(q) : q \in usable}
  <2>1. CASE Head(todo).mark = "free"
    <3>1. Clear(F) /\ F \subseteq 0 .. total - 1
      BY <2>1 DEF MarkRegion, pmm_mark_region_free
    <3>2. \A p \in F : p \in Nat /\ PageBytes(p) \subseteq Bytes(r)
      BY <1>1, <1>4, FreedIsInside
    <3>3. r \in usable
      BY <1>3, <2>1, <1>1 DEF Marks
    <3> HIDE DEF F, r
    <3>4. CountExact' /\ pmm_used_pages' \in 0 .. MaxPages /\ bitmap' = bitmap \ F
      BY <1>1, <1>2, <3>1, ClearCounts
    <3>5. FreePages' \subseteq FreePages \cup F
      BY <3>4 DEF FreePages
    <3>6. Marks'
      BY <1>1, <1>2, <2>1, MarksFree
    <3>7. FreePages' \subseteq 0 .. total - 1
      BY <1>1, <3>1, <3>5 DEF Bits
    <3>8. ASSUME NEW p \in FreePages' PROVE PageBytes(p) \subseteq UNION {Bytes(q) : q \in usable}
      <4>1. CASE p \in F
        BY <3>2, <3>3, <4>1
      <4>2. CASE p \in FreePages
        BY <1>1, <4>2 DEF Covered
      <4> QED BY <3>5, <4>1, <4>2
    <3> QED BY <1>1, <3>4, <3>6, <3>7, <3>8
  <2>2. CASE Head(todo).mark = "used"
    <3>1. SetNew(U) /\ U \subseteq 0 .. total - 1
      BY <2>2 DEF MarkRegion, pmm_mark_region_used
    <3>2. Marks'
      <4>1. bitmap' = bitmap \cup U
        BY <3>1 DEF SetNew
      <4> QED BY <1>1, <1>2, <2>2, <4>1, MarksUsed
    <3> HIDE DEF U
    <3>3. bitmap' = bitmap \cup U /\ CountExact' /\ pmm_used_pages' \in 0 .. MaxPages
      BY <1>1, <1>2, <3>1, SetCounts DEF SetNew
    <3>4. FreePages' \subseteq FreePages /\ bitmap' \subseteq Page
      BY <1>1, <3>1, <3>3 DEF FreePages
    <3> QED BY <1>1, <3>2, <3>3, <3>4 DEF Bits, Covered
  <2> QED BY <1>4, <2>1, <2>2
<1> HIDE DEF F, U, r
<1>6. TypeOK'
  BY <1>1, <1>2, <1>3, <1>5 DEF TypeOK, Mark, Regions
<1>7. Bits' /\ Covered'
  BY <1>1, <1>2, <1>5 DEF Bits, Covered
<1>8. Tree(content') /\ HugeAtThree(content') /\ Lookup'
  BY <1>2, MappedKept DEF IInv, Mapped
<1>9. Private'
  <2> SUFFICES ASSUME NEW l \in 1 .. 4, NEW x \in Path, Tab(content, l, x) # NONE
               PROVE  /\ Tab(content, l, x) \notin held'
                      /\ todo' = << >> => Tab(content, l, x) \in bitmap'
                      /\ todo' # << >> => \E k \in DOMAIN Boot : Tab(content, l, x) = Boot[k]
    BY <1>2 DEF Private
  <2>1. PICK k \in DOMAIN Boot : Tab(content, l, x) = Boot[k]
    BY <1>1, <1>2 DEF Private
  <2>2. todo' = << >> => Tab(content, l, x) \in bitmap'
    BY <1>5, <2>1, BootMarked
  <2> QED BY <1>1, <1>2, <2>1, <2>2
<1>10. Walking'
  BY <1>1, <1>2 DEF Walking, Idle
<1> QED BY <1>5, <1>6, <1>7, <1>8, <1>9, <1>10 DEF IInv

----------------------------------------------------------------------------
(* The steps: allocating and freeing pages.                                *)

\* With all regions marked, a page that is clear or held is in no reserved region.
LEMMA RunningAvoids ==
  ASSUME Marks, todo = << >>, NEW p \in FreePages, NEW i \in DOMAIN Reserved
  PROVE  Avoids(p, i)
<1>1. DOMAIN todo = {}
  OBVIOUS
<1> QED BY <1>1 DEF Marks

LEMMA MarksKept ==
  ASSUME todo = << >>, todo' = todo, usable' = usable,
         \A p \in FreePages' : \A i \in DOMAIN Reserved : Avoids(p, i)
  PROVE  Marks'
<1>1. DOMAIN todo' = {}
  OBVIOUS
<1> QED BY <1>1 DEF Marks

\* Tables keep their pages while their bits stay set and clients get none of them.
LEMMA PrivateKept ==
  ASSUME TypeOK, Private, todo = << >>, todo' = todo, SameTables(content, content'),
         \A p \in bitmap \ held : p \in bitmap' /\ p \notin held'
  PROVE  Private'
<1> SUFFICES ASSUME NEW l \in 1 .. 4, NEW x \in Path, Tab(content', l, x) # NONE
             PROVE  Tab(content', l, x) \notin held' /\ Tab(content', l, x) \in bitmap'
  BY DEF Private
<1>1. Tab(content', l, x) = Tab(content, l, x)
  BY DEF SameTables
<1>2. Tab(content, l, x) \in bitmap \ held
  BY <1>1 DEF Private
<1> QED BY <1>1, <1>2

LEMMA MappedSame ==
  ASSUME Mapped, SameTables(content, content'), expected' = expected
  PROVE  Mapped'
<1>1. /\ Tree(content') /\ HugeAtThree(content')
      /\ \A x \in Path : Phys(content', x) = Phys(content, x)
  BY SameKeeps DEF Mapped
<1>2. ASSUME NEW v \in VirtualPage PROVE Phys(content', PathOf(v)) = expected'[v]
  <2>1. PathOf(v) \in Path
    BY PathOfIs
  <2> QED BY <1>1, <2>1 DEF Mapped, Lookup
<1> QED BY <1>1, <1>2 DEF Mapped, Lookup

LEMMA NoChange ==
  ASSUME content' = content
  PROVE  SameTables(content, content')
  BY DEF SameTables

LEMMA HandInv ==
  ASSUME IInv, Running, NEW S, S \subseteq 0 .. total - 1, S \cap bitmap = {}, Hand(S)
  PROVE  IInv'
<1>1. /\ TypeOK /\ CountExact /\ Bits /\ Marks /\ Covered /\ Private /\ Mapped
      /\ total \in Nat /\ total <= MaxPages /\ MaxPages \in Nat /\ 0 .. total - 1 \subseteq Page
      /\ bitmap \subseteq Page /\ held \subseteq Page /\ todo \in Seq(Mark) /\ content \in Tables
      /\ todo = << >> /\ walk = Idle
  BY TypesGive DEF IInv, Running, Mapped
<1>2. /\ bitmap' = bitmap \cup S /\ pmm_used_pages' = pmm_used_pages + Cardinality(S)
      /\ held' = held \cup S /\ total' = total /\ todo' = todo /\ usable' = usable
      /\ walk' = walk /\ expected' = expected
      /\ content' = [p \in Page |-> IF p \in S THEN Garbage ELSE content[p]]
  BY DEF Hand, SetBit
<1>3. S \ bitmap = S /\ S \subseteq FreePages
  BY <1>1 DEF FreePages
<1>4. CountExact' /\ pmm_used_pages' \in 0 .. MaxPages
  BY <1>1, <1>2, <1>3, SetCounts
<1>5. content' \in Tables
  BY <1>1, <1>2, EntryIs DEF Tables
<1>6. SameTables(content, content')
  <2>1. ASSUME NEW l \in 1 .. 4, NEW x \in Path, Tab(content, l, x) # NONE
        PROVE  content'[Tab(content, l, x)] = content[Tab(content, l, x)]
    <3>1. Tab(content, l, x) \in bitmap
      BY <1>1, <2>1 DEF Private
    <3>2. Tab(content, l, x) \in Page /\ Tab(content, l, x) \notin S
      BY <1>1, <3>1
    <3> QED BY <1>2, <3>2
  <2> QED BY <2>1, OthersDoNotMatter
<1>7. TypeOK'
  BY <1>1, <1>2, <1>4, <1>5 DEF TypeOK, Tables
<1>8. FreePages' \subseteq FreePages
  BY <1>2 DEF FreePages
<1>9. Marks'
  BY <1>1, <1>2, <1>8, RunningAvoids, MarksKept
<1>10. Bits'
  BY <1>1, <1>2, <1>8 DEF Bits
<1>11. Covered'
  <2>1. \A p \in FreePages' \cup held' : PageBytes(p) \subseteq UNION {Bytes(q) : q \in usable}
    BY <1>1, <1>2, <1>3, <1>8 DEF Covered
  <2>2. ASSUME NEW p \in held', NEW i \in DOMAIN Reserved PROVE Avoids(p, i)
    <3>1. CASE p \in held
      BY <1>1, <3>1 DEF Covered
    <3>2. CASE p \in S
      BY <1>1, <1>3, <3>2, RunningAvoids
    <3> QED BY <1>2, <3>1, <3>2
  <2> QED BY <1>2, <2>1, <2>2 DEF Covered
<1>12. Private'
  <2>1. \A p \in bitmap \ held : p \in bitmap' /\ p \notin held'
    BY <1>2
  <2> QED BY <1>1, <1>2, <1>6, <2>1, PrivateKept
<1>13. Mapped'
  BY <1>1, <1>2, <1>6, MappedSame
<1>14. Walking'
  BY <1>1, <1>2 DEF Walking, Idle
<1> QED BY <1>4, <1>7, <1>9, <1>10, <1>11, <1>12, <1>13, <1>14 DEF IInv, Mapped

LEMMA StopInv ==
  ASSUME IInv, todo = << >>, NEW message \in {"out of pages", "no run of pages"}, Stop(message)
  PROVE  IInv'
<1>1. /\ TypeOK /\ CountExact /\ Bits /\ Marks /\ Covered /\ Private /\ Mapped
  BY DEF IInv, Mapped
<1>2. /\ total' = total /\ todo' = todo /\ usable' = usable /\ bitmap' = bitmap /\ held' = held
      /\ pmm_used_pages' = pmm_used_pages /\ content' = content /\ expected' = expected
      /\ walk' = Panic(message)
  BY DEF Stop, pmm
<1>3. Panic(message) \in Walks /\ Panic(message).op # "map"
  BY DEF Panic, Walks
<1>4. TypeOK'
  BY <1>1, <1>2, <1>3 DEF TypeOK
<1>5. CountExact'
  BY <1>1, <1>2 DEF CountExact
<1>6. Bits'
  BY <1>1, <1>2 DEF Bits, FreePages
<1>7. Marks' /\ Covered'
  BY <1>1, <1>2 DEF Marks, Covered, FreePages
<1>8. Private' /\ Mapped'
  BY <1>1, <1>2, MappedKept DEF Private
<1>9. Walking'
  BY <1>2, <1>3 DEF Walking
<1> QED BY <1>4, <1>5, <1>6, <1>7, <1>8, <1>9 DEF IInv, Mapped

\* bitmap_find_free finds pages that are clear.
LEMMA SearchedIs ==
  ASSUME TypeOK, Searched # {}
  PROVE  AllocPage \in 0 .. total - 1 /\ AllocPage \notin bitmap /\ AllocPage \in Page
<1>1. total \in Nat /\ WordBits \in Nat \ {0} /\ 0 .. total - 1 \subseteq Page
  BY TypesGive, PagesAssumption
<1> DEFINE k == total \div WordBits
           n == k * WordBits
<1>2. n \in Nat /\ n <= total
  <2>1. k \in Nat /\ WordBits * k \in Nat /\ WordBits * k <= total
    BY <1>1, Division
  <2> HIDE DEF k
  <2> QED BY <1>1, <2>1, Product
<1>3. Searched = {p \in 0 .. n - 1 : p \notin bitmap}
  BY DEF Searched
<1> HIDE DEF n
<1>4. Searched \subseteq Nat /\ \A p \in Searched : p \in 0 .. total - 1 /\ p \notin bitmap
  BY <1>1, <1>2, <1>3
<1>5. Min(Searched) \in Searched
  BY <1>4, MinIs
<1> QED BY <1>1, <1>4, <1>5 DEF AllocPage

LEMMA AllocPageInv ==
  ASSUME IInv, pmm_alloc_page
  PROVE  IInv'
<1>1. Running /\ todo = << >> /\ TypeOK
  BY DEF pmm_alloc_page, Running, IInv
<1>2. CASE Searched # {}
  <2>1. Hand({AllocPage})
    BY <1>2 DEF pmm_alloc_page
  <2>2. {AllocPage} \subseteq 0 .. total - 1 /\ {AllocPage} \cap bitmap = {}
    BY <1>1, <1>2, SearchedIs
  <2> QED BY <1>1, <2>1, <2>2, HandInv
<1>3. CASE Searched = {}
  <2>1. Stop("out of pages")
    BY <1>3 DEF pmm_alloc_page
  <2> QED BY <1>1, <2>1, StopInv
<1> QED BY <1>2, <1>3

LEMMA AllocPagesInv ==
  ASSUME IInv, NEW count \in Nat \ {0}, pmm_alloc_pages(count)
  PROVE  IInv'
<1>1. Running /\ todo = << >> /\ TypeOK /\ total \in Nat
  BY TypesGive DEF pmm_alloc_pages, Running, IInv
<1>2. CASE Runs(count) # {}
  <2> DEFINE R == Runs(count)
             s == Min(R)
             S == s .. s + count - 1
  <2>1. Hand(S)
    BY <1>2 DEF pmm_alloc_pages
  <2>2. R \subseteq Nat /\ \A t \in R : t + count <= total /\ (t .. t + count - 1) \cap bitmap = {}
    BY <1>1 DEF Runs
  <2>3. s \in R
    <3> HIDE DEF R
    <3> QED BY <1>2, <2>2, MinIs DEF R
  <2> HIDE DEF R, s
  <2>4. s \in Nat /\ s + count <= total /\ S \cap bitmap = {}
    BY <2>2, <2>3
  <2>5. S \subseteq 0 .. total - 1
    BY <1>1, <2>4
  <2> HIDE DEF S
  <2> QED BY <1>1, <2>1, <2>4, <2>5, HandInv
<1>3. CASE Runs(count) = {}
  <2>1. Stop("no run of pages")
    BY <1>3 DEF pmm_alloc_pages
  <2> QED BY <1>1, <2>1, StopInv
<1> QED BY <1>2, <1>3

LEMMA FreeInv ==
  ASSUME IInv, NEW start, NEW count, pmm_free_pages(start, count)
  PROVE  IInv'
<1> DEFINE G == start .. start + count - 1
           S == {p \in G : p < total}
<1>1. /\ TypeOK /\ CountExact /\ Bits /\ Marks /\ Covered /\ Private /\ Mapped
      /\ total \in Nat /\ total <= MaxPages /\ MaxPages \in Nat /\ 0 .. total - 1 \subseteq Page
      /\ bitmap \subseteq Page /\ held \subseteq Page /\ todo \in Seq(Mark) /\ content \in Tables
      /\ todo = << >> /\ walk = Idle
  BY TypesGive DEF IInv, Running, Mapped, pmm_free_pages
<1>2. /\ G \subseteq held /\ Clear(S) /\ held' = held \ G
      /\ total' = total /\ todo' = todo /\ usable' = usable
      /\ walk' = walk /\ expected' = expected /\ content' = content
  BY DEF pmm_free_pages
<1> HIDE DEF G
<1>3. S = G /\ G \subseteq 0 .. total - 1
  <2>1. G \subseteq 0 .. total - 1
    BY <1>1, <1>2 DEF Bits
  <2>2. \A p \in G : p < total
    BY <1>1, <2>1
  <2>3. S = G
    BY <2>2
  <2> QED BY <2>1, <2>3
<1> HIDE DEF S
<1>4. CountExact' /\ pmm_used_pages' \in 0 .. MaxPages /\ bitmap' = bitmap \ G
  BY <1>1, <1>2, <1>3, ClearCounts
<1>5. TypeOK'
  BY <1>1, <1>2, <1>4 DEF TypeOK
<1>6. FreePages' \subseteq FreePages \cup G
  BY <1>4 DEF FreePages
<1>7. Marks'
  <2>1. ASSUME NEW p \in FreePages', NEW i \in DOMAIN Reserved PROVE Avoids(p, i)
    <3>1. CASE p \in FreePages
      BY <1>1, <3>1, RunningAvoids
    <3>2. CASE p \in G
      BY <1>1, <1>2, <3>2 DEF Covered
    <3> QED BY <1>6, <3>1, <3>2
  <2> QED BY <1>1, <1>2, <2>1, MarksKept
<1>8. Bits'
  BY <1>1, <1>2, <1>3, <1>4, <1>6 DEF Bits
<1>9. Covered'
  BY <1>1, <1>2, <1>6 DEF Covered
<1>10. Private'
  <2>1. \A p \in bitmap \ held : p \in bitmap' /\ p \notin held'
    BY <1>2, <1>4
  <2> QED BY <1>1, <1>2, <2>1, NoChange, PrivateKept
<1>11. Mapped'
  BY <1>1, <1>2, MappedKept
<1>12. Walking'
  BY <1>1, <1>2 DEF Walking, Idle
<1> QED BY <1>4, <1>5, <1>7, <1>8, <1>9, <1>10, <1>11, <1>12 DEF IInv, Mapped

----------------------------------------------------------------------------
(* The steps: mapping and unmapping.                                       *)

LEMMA WalkIs ==
  ASSUME TypeOK, walk.op = "map"
  PROVE  /\ walk.virt \in VirtualPage /\ walk.phys \in Page /\ walk.left \in Nat \ {0}
         /\ walk.level \in 1 .. 4 /\ walk.table \in Page
         /\ walk \in [op : {"map"}, virt : VirtualPage, phys : Page, left : Nat \ {0},
                      level : 1 .. Levels, table : Page]
<1>1. walk \in Walks
  BY DEF TypeOK
<1>2. walk \in [op : {"map"}, virt : VirtualPage, phys : Page, left : Nat \ {0},
                level : 1 .. Levels, table : Page]
  BY <1>1 DEF Walks
<1> QED BY <1>2 DEF Levels

LEMMA MappingIs ==
  ASSUME NEW v \in VirtualPage, NEW p \in Page, NEW n \in Nat \ {0}, NEW l \in 1 .. 4, NEW t \in Page
  PROVE  /\ Mapping(v, p, n, l, t) \in Walks /\ Mapping(v, p, n, l, t).op = "map"
         /\ Mapping(v, p, n, l, t).virt = v /\ Mapping(v, p, n, l, t).phys = p
         /\ Mapping(v, p, n, l, t).left = n /\ Mapping(v, p, n, l, t).level = l
         /\ Mapping(v, p, n, l, t).table = t
  BY DEF Mapping, Walks, Levels

\* Steps that leave the bitmap and what clients hold alone.
LEMMA PmmKept ==
  ASSUME IInv, UNCHANGED pmm, todo = << >>
  PROVE  /\ CountExact' /\ Bits' /\ Marks' /\ Covered'
         /\ (walk' \in Walks /\ content' \in Tables /\ expected' \in [VirtualPage -> Int] => TypeOK')
         /\ (SameTables(content, content') => Private')
<1>1. /\ TypeOK /\ CountExact /\ Bits /\ Marks /\ Covered /\ Private
  BY DEF IInv
<1>2. /\ total' = total /\ todo' = todo /\ usable' = usable /\ bitmap' = bitmap /\ held' = held
      /\ pmm_used_pages' = pmm_used_pages
  BY DEF pmm
<1>3. walk' \in Walks /\ content' \in Tables /\ expected' \in [VirtualPage -> Int] => TypeOK'
  BY <1>1, <1>2 DEF TypeOK, Tables
<1>4. CountExact'
  BY <1>1, <1>2 DEF CountExact
<1>5. Bits'
  BY <1>1, <1>2 DEF Bits, FreePages
<1>6. Marks' /\ Covered'
  BY <1>1, <1>2 DEF Marks, Covered, FreePages
<1>7. SameTables(content, content') => Private'
  BY <1>1, <1>2, PrivateKept
<1> QED BY <1>3, <1>4, <1>5, <1>6, <1>7

LEMMA MapRangeInv ==
  ASSUME IInv, NEW v \in Virts, NEW p \in held, NEW n \in Nat \ {0}, vmm_map_range(v, p, n)
  PROVE  IInv'
<1>1. /\ TypeOK /\ HugeAtThree(content) /\ Mapped /\ content \in Tables /\ held \subseteq Page
      /\ expected \in [VirtualPage -> Int]
  BY TypesGive DEF IInv, Mapped
<1>2. /\ todo = << >> /\ v .. v + n - 1 \subseteq Virts /\ p .. p + n - 1 \subseteq held
      /\ \A w \in v .. v + n - 1 : ~EntryOf(w)[4].huge
      /\ walk' = Mapping(v, p, n, 1, Boot[1])
      /\ UNCHANGED pmm /\ content' = content /\ expected' = expected /\ held' = held
  BY DEF vmm_map_range, Running, Levels, pmm
<1>3. v \in VirtualPage /\ p \in Page /\ Virts \subseteq VirtualPage /\ Boot[1] \in Page /\ 1 \in 1 .. 4
  BY <1>1, PagesAssumption, BootIs
<1>4. /\ walk' \in Walks /\ walk'.virt = v /\ walk'.phys = p /\ walk'.left = n
      /\ walk'.level = 1 /\ walk'.table = Boot[1] /\ walk'.op = "map"
  BY <1>2, <1>3, MappingIs
<1>5. CountExact' /\ Bits' /\ Marks' /\ Covered' /\ TypeOK' /\ Private'
  BY <1>1, <1>2, <1>4, PmmKept, NoChange
<1>6. Mapped'
  BY <1>1, <1>2, MappedKept
<1>7. Walking'
  <2>1. ASSUME NEW w \in v .. v + n - 1 PROVE w \in VirtualPage /\ ~Large(content, PathOf(w))
    <3>1. w \in VirtualPage /\ ~EntryOf(w)[4].huge
      BY <1>2, <1>3
    <3> QED BY <1>1, <3>1, LookupIs
  <2>2. Boot[1] = Tab(content, 1, PathOf(v))
    BY TabIs
  <2> QED BY <1>2, <1>4, <2>1, <2>2 DEF Walking
<1> QED BY <1>5, <1>6, <1>7 DEF IInv, Mapped

\* What a walk under way is: where it stands, and that it meets no huge page.
LEMMA WalkStands ==
  ASSUME IInv, walk.op = "map", NEW x, x = PathOf(walk.virt), NEW l, l = walk.level
  PROVE  /\ todo = << >> /\ x \in Path /\ l \in 1 .. 4 /\ walk.table \in Page /\ walk.virt \in VirtualPage
         /\ walk.table = Tab(content, l, x) /\ Tab(content, l, x) # NONE /\ x[l] \in Index
         /\ content[walk.table][IndexAt(walk.virt, l)] = At(content, l, x)
         /\ IndexAt(walk.virt, l) = x[l]
         /\ At(content, l, x) \in EntrySet /\ ~Large(content, x) /\ ~At(content, l, x).huge
         /\ walk.phys \in held /\ walk.phys \in Page /\ walk.left \in Nat \ {0}
<1>1. /\ TypeOK /\ Bits /\ HugeAtThree(content) /\ Walking /\ content \in Tables /\ held \subseteq Page
  BY TypesGive DEF IInv
<1>2. /\ walk.virt \in VirtualPage /\ walk.phys \in Page /\ walk.left \in Nat \ {0}
      /\ walk.level \in 1 .. 4 /\ walk.table \in Page
  BY <1>1, WalkIs
<1>3. todo = << >>
  BY <1>1 DEF Bits, Idle
<1>4. x \in Path /\ x[l] = IndexAt(walk.virt, l) /\ x[l] \in Index
  BY <1>2, PathOfIs, PathIs
<1>5. walk.table = Tab(content, l, x) /\ Tab(content, l, x) # NONE
  BY <1>1, <1>2, BootIs DEF Walking
<1>6. content[walk.table][IndexAt(walk.virt, l)] = At(content, l, x)
  BY <1>4, <1>5 DEF At
<1>7. At(content, l, x) \in EntrySet
  BY <1>1, <1>2, <1>4, <1>5, AtIsEntry DEF At
<1>8. ~Large(content, x) /\ walk.phys \in held
  <2>1. walk.virt \in Nat /\ walk.phys \in Nat
    BY <1>2, UpIs, BootIs DEF Page
  <2>2. walk.virt \in walk.virt .. walk.virt + walk.left - 1 /\ walk.phys \in walk.phys .. walk.phys + walk.left - 1
    BY <1>2, <2>1
  <2> QED BY <1>1, <2>2 DEF Walking
<1>9. ~At(content, l, x).huge
  <2>1. CASE l = 3
    BY <1>5, <1>8, <2>1 DEF Large
  <2>2. CASE l # 3
    BY <1>1, <1>2, <1>4, <1>5, <2>2 DEF HugeAtThree
  <2> QED BY <2>1, <2>2
<1> QED BY <1>2, <1>3, <1>4, <1>5, <1>6, <1>7, <1>8, <1>9

LEMMA GetTableInv ==
  ASSUME IInv, GetTable
  PROVE  IInv'
<1> DEFINE x == PathOf(walk.virt)
           l == walk.level
           e == content[walk.table][IndexAt(walk.virt, l)]
<1>1. walk.op = "map" /\ l < 4 /\ e.present /\ walk' = [walk EXCEPT !.level = l + 1, !.table = e.page]
  BY DEF GetTable, Levels
<1>2. UNCHANGED pmm /\ content' = content /\ expected' = expected /\ held' = held
  BY DEF GetTable, pmm
<1>3. /\ TypeOK /\ Mapped /\ Walking /\ content \in Tables /\ expected \in [VirtualPage -> Int]
  BY TypesGive DEF IInv, Mapped
<1>4. /\ todo = << >> /\ x \in Path /\ l \in 1 .. 4 /\ Tab(content, l, x) # NONE
      /\ walk.table = Tab(content, l, x) /\ e = At(content, l, x) /\ e \in EntrySet /\ ~e.huge
  BY <1>1, WalkStands
<1>5. l \in 1 .. 3 /\ l + 1 \in 1 .. 4
  BY <1>1, <1>4
<1>6. e.page \in Page
  BY <1>4, EntryIs
<1>7. Tab(content, l + 1, x) = e.page
  <2>1. Tab(content, l + 1, x) = Follow(content, Tab(content, l, x), x[l])
    BY <1>5, TabStep
  <2>2. content[Tab(content, l, x)][x[l]] = e
    BY <1>4 DEF At
  <2> HIDE DEF e
  <2> QED BY <1>1, <1>4, <2>1, <2>2 DEF Follow
<1>8. walk \in [op : {"map"}, virt : VirtualPage, phys : Page, left : Nat \ {0},
                level : 1 .. Levels, table : Page]
  BY <1>1, <1>3, WalkIs
<1> HIDE DEF e, l
<1>9. /\ walk' \in Walks /\ walk'.op = "map" /\ walk'.virt = walk.virt /\ walk'.phys = walk.phys
      /\ walk'.left = walk.left /\ walk'.level = l + 1 /\ walk'.table = e.page
  BY <1>1, <1>5, <1>6, <1>8 DEF Walks, Levels
<1>10. CountExact' /\ Bits' /\ Marks' /\ Covered' /\ TypeOK' /\ Private'
  BY <1>2, <1>3, <1>4, <1>9, PmmKept, NoChange
<1>11. Mapped'
  BY <1>2, <1>3, MappedKept
<1>12. Walking'
  BY <1>1, <1>2, <1>3, <1>7, <1>9 DEF Walking
<1> QED BY <1>10, <1>11, <1>12 DEF IInv, Mapped

LEMMA CreateTableInv ==
  ASSUME IInv, CreateTable
  PROVE  IInv'
<1> DEFINE x == PathOf(walk.virt)
           l == walk.level
           p == AllocPage
           c == content
           d == content'
<1>1. walk.op = "map" /\ l < 4 /\ ~content[walk.table][IndexAt(walk.virt, l)].present
  BY DEF CreateTable, Levels
<1>2. /\ todo = << >> /\ x \in Path /\ l \in 1 .. 4 /\ walk.table = Tab(c, l, x) /\ Tab(c, l, x) # NONE
      /\ content[walk.table][IndexAt(walk.virt, l)] = At(c, l, x)
      /\ IndexAt(walk.virt, l) = x[l] /\ ~At(c, l, x).huge
  BY <1>1, WalkStands
<1>3. CASE Searched = {}
  <2>1. Stop("out of pages")
    BY <1>3 DEF CreateTable
  <2> QED BY <1>2, <2>1, StopInv
<1>4. CASE Searched # {}
  <2>1. /\ SetBit({p}) /\ content' = NewTable(p)
        /\ walk' = [walk EXCEPT !.level = l + 1, !.table = p]
        /\ total' = total /\ todo' = todo /\ usable' = usable /\ held' = held /\ expected' = expected
    BY <1>4 DEF CreateTable
  <2>2. /\ TypeOK /\ CountExact /\ Bits /\ Marks /\ Covered /\ Private /\ Walking /\ Mapped
        /\ Tree(c) /\ HugeAtThree(c) /\ Lookup
        /\ total \in Nat /\ 0 .. total - 1 \subseteq Page /\ bitmap \subseteq Page /\ held \subseteq Page
        /\ c \in Tables /\ todo \in Seq(Mark) /\ expected \in [VirtualPage -> Int]
    BY TypesGive DEF IInv, Mapped
  <2>3. p \in 0 .. total - 1 /\ p \notin bitmap /\ p \in Page
    BY <1>4, <2>2, SearchedIs
  <2>4. d = WithTable(c, p, Tab(c, l, x), x[l])
    BY <1>2, <2>1 DEF NewTable, WithTable
  <2>5. \A m \in 1 .. 4 : \A y \in Path : Tab(c, m, y) # p
    <3> SUFFICES ASSUME NEW m \in 1 .. 4, NEW y \in Path, Tab(c, m, y) = p PROVE FALSE
      OBVIOUS
    <3>1. p # NONE
      BY <2>3, BootIs
    <3>2. p \in bitmap
      BY <1>2, <2>2, <3>1 DEF Private
    <3> QED BY <2>3, <3>2
  <2>6. l \in 1 .. 3 /\ l + 1 \in 1 .. 4 /\ ~At(c, l, x).present
    BY <1>1, <1>2
  <2> HIDE DEF c, d, l, p, x
  <2>7. d \in Tables /\ TableAdded(c, d, l, x, p)
    BY <1>2, <2>2, <2>3, <2>4, <2>5, <2>6, GrowTable
  <2>8. /\ Tree(d) /\ HugeAtThree(d)
        /\ \A y \in Path : Large(d, y) = Large(c, y) /\ Phys(d, y) = Phys(c, y)
    BY <1>2, <2>2, <2>3, <2>5, <2>6, <2>7, TableAddedKeeps
  <2>9. /\ bitmap' = bitmap \cup {p} /\ pmm_used_pages' = pmm_used_pages + Cardinality({p} \ bitmap)
        /\ {p} \subseteq 0 .. total - 1
    <3>1. {p} \ bitmap = {p}
      BY <2>3
    <3> QED BY <2>1, <2>3, <3>1 DEF SetBit
  <2>10. CountExact' /\ pmm_used_pages' \in 0 .. MaxPages
    BY <2>1, <2>2, <2>9, SetCounts
  <2>11. /\ walk' \in Walks /\ walk'.op = "map" /\ walk'.virt = walk.virt /\ walk'.phys = walk.phys
         /\ walk'.left = walk.left /\ walk'.level = l + 1 /\ walk'.table = p
    <3>1. walk \in [op : {"map"}, virt : VirtualPage, phys : Page, left : Nat \ {0},
                    level : 1 .. Levels, table : Page]
      BY <1>1, <2>2, WalkIs
    <3> QED BY <2>1, <2>3, <2>6, <3>1 DEF Walks, Levels
  <2>12. TypeOK'
    BY <2>1, <2>2, <2>3, <2>7, <2>9, <2>10, <2>11 DEF TypeOK, Tables, d
  <2>13. FreePages' \subseteq FreePages
    BY <2>9 DEF FreePages
  <2>14. Marks'
    BY <1>2, <2>1, <2>2, <2>13, RunningAvoids, MarksKept
  <2>15. Bits'
    BY <1>2, <2>1, <2>2, <2>9, <2>13 DEF Bits
  <2>16. Covered'
    BY <2>1, <2>2, <2>13 DEF Covered
  <2>17. Private'
    <3> SUFFICES ASSUME NEW m \in 1 .. 4, NEW y \in Path, Tab(d, m, y) # NONE
                 PROVE  Tab(d, m, y) \notin held' /\ Tab(d, m, y) \in bitmap'
      BY <1>2, <2>1 DEF Private, d
    <3>1. Tab(d, m, y) = p \/ Tab(d, m, y) = Tab(c, m, y)
      BY <2>7 DEF TableAdded
    <3>2. CASE Tab(d, m, y) = p
      BY <2>1, <2>2, <2>3, <2>9, <3>2 DEF Bits
    <3>3. CASE Tab(d, m, y) = Tab(c, m, y)
      <4>1. Tab(c, m, y) \notin held /\ Tab(c, m, y) \in bitmap
        BY <1>2, <2>2, <3>3 DEF Private, c
      <4> QED BY <2>1, <2>9, <3>3, <4>1
    <3> QED BY <3>1, <3>2, <3>3
  <2>18. Lookup'
    <3> SUFFICES ASSUME NEW v \in VirtualPage PROVE Phys(d, PathOf(v)) = expected[v]
      BY <2>1 DEF Lookup, d
    <3>1. PathOf(v) \in Path
      BY PathOfIs
    <3> QED BY <2>2, <2>8, <3>1 DEF Lookup, c
  <2>19. Walking'
    <3>1. Tab(d, l + 1, x) = p
      <4>1. Agree(l, x, x)
        BY DEF Agree
      <4> QED BY <1>2, <2>6, <2>7, <4>1 DEF TableAdded
    <3>2. walk'.table = Tab(content', walk'.level, PathOf(walk'.virt))
      BY <2>11, <3>1 DEF d, x
    <3>3. ASSUME NEW w \in walk.virt .. walk.virt + walk.left - 1
          PROVE  w \in VirtualPage /\ ~Large(d, PathOf(w))
      <4>1. w \in VirtualPage /\ ~Large(c, PathOf(w))
        BY <1>1, <2>2 DEF Walking, c
      <4>2. PathOf(w) \in Path
        BY <4>1, PathOfIs
      <4> QED BY <2>8, <4>1, <4>2
    <3> QED BY <1>1, <2>1, <2>2, <2>11, <3>2, <3>3 DEF Walking, d
  <2> QED BY <2>8, <2>10, <2>12, <2>14, <2>15, <2>16, <2>17, <2>18, <2>19 DEF IInv, d
<1> QED BY <1>3, <1>4

LEMMA SetEntryInv ==
  ASSUME IInv, SetEntry
  PROVE  IInv'
<1> DEFINE v == walk.virt
           f == walk.phys
           n == walk.left
           x == PathOf(walk.virt)
           e == Entry(walk.phys, FALSE)
           c == content
           d == content'
<1>1. walk.op = "map" /\ walk.level = 4
  BY DEF SetEntry, Levels
<1>2. /\ todo = << >> /\ x \in Path /\ walk.table = Tab(c, 4, x) /\ Tab(c, 4, x) # NONE
      /\ IndexAt(walk.virt, 4) = x[4] /\ v \in VirtualPage /\ f \in Page /\ n \in Nat \ {0}
  BY <1>1, WalkStands
<1>3. /\ d = WithEntry(c, Tab(c, 4, x), x[4], e)
      /\ expected' = [expected EXCEPT ![v] = f]
      /\ walk' = IF n = 1 THEN Idle ELSE Mapping(v + 1, f + 1, n - 1, 1, Boot[1])
      /\ UNCHANGED pmm /\ held' = held
  BY <1>2 DEF SetEntry, Levels, WithEntry, pmm
<1>4. /\ TypeOK /\ Walking /\ Tree(c) /\ HugeAtThree(c) /\ Lookup /\ held \subseteq Page
      /\ c \in Tables /\ expected \in [VirtualPage -> Int]
  BY TypesGive DEF IInv
<1>5. e \in EntrySet /\ e.present /\ ~e.huge /\ e.page = f
  BY <1>2, EntryIs
<1>i. f \in Int /\ v \in Nat
  BY <1>2, UpIs, BootIs DEF Page
<1>w. /\ f .. f + n - 1 \subseteq held
      /\ \A w \in v .. v + n - 1 : w \in VirtualPage /\ ~Large(c, PathOf(w))
  BY <1>1, <1>4 DEF Walking
<1> HIDE DEF v, f, n, x, e, c, d
<1>6. d \in Tables /\ EntryChanged(c, d, 4, x, e)
  BY <1>2, <1>3, <1>4, <1>5, SetLeaf
<1>7. /\ Tree(d) /\ HugeAtThree(d)
      /\ \A y \in Path : /\ Large(d, y) = Large(c, y)
                         /\ Phys(d, y) = IF Agree(4, y, x) THEN IF e.present THEN e.page ELSE NONE
                                                           ELSE Phys(c, y)
  BY <1>2, <1>4, <1>5, <1>6, EntryChangedKeeps
<1>9. Lookup' /\ expected' \in [VirtualPage -> Int]
  <2>1. expected' \in [VirtualPage -> Int] /\ \A w \in VirtualPage : expected'[w] = IF w = v THEN f ELSE expected[w]
    BY <1>2, <1>3, <1>4, <1>i
  <2> SUFFICES ASSUME NEW w \in VirtualPage PROVE Phys(d, PathOf(w)) = expected'[w]
    BY <2>1 DEF Lookup, d
  <2>2. PathOf(w) \in Path /\ (Agree(4, PathOf(w), x) <=> w = v)
    BY <1>2, PathOfIs, SamePath DEF x, v
  <2>3. Phys(c, PathOf(w)) = expected[w]
    BY <1>4 DEF Lookup, c
  <2> QED BY <1>5, <1>7, <2>1, <2>2, <2>3
<1>10. n # 1 => v + 1 \in VirtualPage /\ f + 1 \in Page /\ n - 1 \in Nat \ {0}
  <2> SUFFICES ASSUME n # 1 PROVE v + 1 \in VirtualPage /\ f + 1 \in Page /\ n - 1 \in Nat \ {0}
    OBVIOUS
  <2>1. v + 1 \in v .. v + n - 1 /\ f + 1 \in f .. f + n - 1 /\ n - 1 \in Nat \ {0}
    BY <1>2, <1>i
  <2> QED BY <1>4, <1>w, <2>1
<1>11. walk' \in Walks /\ (walk'.op = "map" => n # 1)
  <2>1. CASE n = 1
    BY <1>3, <2>1 DEF Idle, Walks
  <2>2. CASE n # 1
    <3>1. Boot[1] \in Page /\ 1 \in 1 .. 4
      BY BootIs
    <3>2. Mapping(v + 1, f + 1, n - 1, 1, Boot[1]) \in Walks
      BY <1>10, <2>2, <3>1, MappingIs
    <3> QED BY <1>3, <2>2, <3>2
  <2> QED BY <2>1, <2>2
<1>12. CountExact' /\ Bits' /\ Marks' /\ Covered' /\ TypeOK'
  BY <1>2, <1>3, <1>6, <1>9, <1>11, PmmKept DEF d
<1>13. Private'
  <2> SUFFICES ASSUME NEW m \in 1 .. 4, NEW y \in Path, Tab(d, m, y) # NONE
               PROVE  Tab(d, m, y) \notin held' /\ Tab(d, m, y) \in bitmap'
    BY <1>2, <1>3 DEF Private, d, pmm
  <2>1. Tab(d, m, y) = Tab(c, m, y)
    BY <1>6 DEF EntryChanged
  <2>2. Tab(c, m, y) \notin held /\ Tab(c, m, y) \in bitmap
    BY <1>2, <2>1 DEF IInv, Private, c
  <2> QED BY <1>3, <2>1, <2>2 DEF pmm
<1>14. Walking'
  <2> SUFFICES ASSUME n # 1
               PROVE  /\ walk'.table = Tab(d, walk'.level, PathOf(walk'.virt))
                      /\ walk'.phys .. walk'.phys + walk'.left - 1 \subseteq held
                      /\ \A w \in walk'.virt .. walk'.virt + walk'.left - 1 :
                            w \in VirtualPage /\ ~Large(d, PathOf(w))
    BY <1>3, <1>11 DEF Walking, d
  <2>1. /\ walk'.virt = v + 1 /\ walk'.phys = f + 1 /\ walk'.left = n - 1
        /\ walk'.level = 1 /\ walk'.table = Boot[1]
    BY <1>3 DEF Mapping
  <2>2. Boot[1] = Tab(d, 1, PathOf(v + 1))
    BY TabIs
  <2>3. (f + 1) .. (f + 1) + (n - 1) - 1 \subseteq f .. f + n - 1
    BY <1>2, <1>i
  <2>4. \A w \in (v + 1) .. (v + 1) + (n - 1) - 1 : w \in v .. v + n - 1
    BY <1>2, <1>i
  <2>5. ASSUME NEW w \in v .. v + n - 1 PROVE w \in VirtualPage /\ ~Large(d, PathOf(w))
    <3>1. w \in VirtualPage /\ ~Large(c, PathOf(w))
      BY <1>w
    <3>2. PathOf(w) \in Path
      BY <3>1, PathOfIs
    <3> QED BY <1>7, <3>1, <3>2
  <2>6. walk'.phys .. walk'.phys + walk'.left - 1 \subseteq held
    BY <1>w, <2>1, <2>3
  <2>7. \A w \in walk'.virt .. walk'.virt + walk'.left - 1 : w \in VirtualPage /\ ~Large(d, PathOf(w))
    BY <2>1, <2>4, <2>5
  <2> QED BY <2>1, <2>2, <2>6, <2>7
<1> QED BY <1>7, <1>9, <1>12, <1>13, <1>14 DEF IInv, d

LEMMA UnmapInv ==
  ASSUME IInv, NEW v \in Virts, vmm_unmap_page(v)
  PROVE  IInv'
<1> DEFINE x == PathOf(v)
           e == EntryOf(v)
           c == content
           d == content'
           l == IF e[4].huge THEN 3 ELSE 4
<1>1. /\ TypeOK /\ Tree(c) /\ HugeAtThree(c) /\ Lookup /\ c \in Tables /\ expected \in [VirtualPage -> Int]
      /\ walk \in Walks /\ v \in VirtualPage /\ x \in Path
  BY TypesGive, PagesAssumption, PathOfIs DEF IInv
<1>2. /\ todo = << >> /\ walk = Idle /\ UNCHANGED pmm /\ walk' = walk /\ held' = held
      /\ e[l - 1].present
      /\ d = WithEntry(c, e[l - 1].page, IndexAt(v, l), Absent)
      /\ expected' = [w \in VirtualPage |->
            IF w = v \/ (l < 4 /\ w \div Fanout = v \div Fanout) THEN NONE ELSE expected[w]]
  BY DEF vmm_unmap_page, Running, Levels, WithEntry, pmm
<1>3. /\ e[4].huge <=> Large(c, x)
      /\ e[4].huge => e[2].page = Tab(c, 3, x) /\ Tab(c, 3, x) # NONE
      /\ ~e[4].huge /\ e[3].present => e[3].page = Tab(c, 4, x) /\ Tab(c, 4, x) # NONE
  BY <1>1, LookupIs
<1>4. IndexAt(v, 3) = x[3] /\ IndexAt(v, 4) = x[4]
  BY DEF PathOf
<1>5. expected' \in [VirtualPage -> Int]
  BY <1>1, <1>2 DEF NONE
<1>a. Absent \in EntrySet /\ ~Absent.present /\ ~Absent.huge
  BY EntryIs
<1>6. ASSUME l \in 3 .. 4, EntryChanged(c, d, l, x, Absent), d \in Tables, Tree(d), HugeAtThree(d), Lookup'
      PROVE  IInv'
  <2>1. CountExact' /\ Bits' /\ Marks' /\ Covered' /\ TypeOK'
    BY <1>1, <1>2, <1>5, <1>6, PmmKept
  <2>2. Private'
    <3> HIDE DEF l
    <3> SUFFICES ASSUME NEW m \in 1 .. 4, NEW y \in Path, Tab(d, m, y) # NONE
                 PROVE  Tab(d, m, y) \notin held' /\ Tab(d, m, y) \in bitmap'
      BY <1>2 DEF Private, pmm
    <3>1. Tab(d, m, y) = Tab(c, m, y)
      BY <1>6 DEF EntryChanged
    <3>2. Tab(c, m, y) \notin held /\ Tab(c, m, y) \in bitmap
      BY <1>2, <3>1 DEF IInv, Private
    <3> QED BY <1>2, <3>1, <3>2 DEF pmm
  <2>3. Walking'
    BY <1>2 DEF Walking, Idle
  <2> QED BY <1>6, <2>1, <2>2, <2>3 DEF IInv
<1>7. CASE e[4].huge
  <2>1. /\ l = 3 /\ Large(c, x) /\ Tab(c, 3, x) # NONE
        /\ d = WithEntry(c, Tab(c, 3, x), x[3], Absent)
        /\ expected' = [w \in VirtualPage |->
               IF w = v \/ w \div Fanout = v \div Fanout THEN NONE ELSE expected[w]]
    BY <1>2, <1>3, <1>4, <1>7
  <2>2. At(c, 3, x).huge
    BY <2>1 DEF Large
  <2> HIDE DEF c, d, x, l
  <2>3. d \in Tables /\ EntryChanged(c, d, 3, x, Absent)
    BY <1>1, <1>a, <2>1, <2>2, SetLeaf
  <2>4. /\ Tree(d) /\ HugeAtThree(d)
        /\ \A y \in Path : Phys(d, y) = IF Agree(3, y, x) THEN NONE ELSE Phys(c, y)
    BY <1>1, <1>a, <2>1, <2>3, EntryChangedKeeps
  <2>5. Lookup'
    <3> SUFFICES ASSUME NEW w \in VirtualPage PROVE Phys(d, PathOf(w)) = expected'[w]
      BY DEF Lookup, d
    <3>1. PathOf(w) \in Path /\ (Agree(3, PathOf(w), x) <=> w \div Fanout = v \div Fanout)
      BY <1>1, PathOfIs, SamePath DEF x
    <3>2. Phys(c, PathOf(w)) = expected[w]
      BY <1>1 DEF Lookup, c
    <3>3. expected'[w] = IF w \div Fanout = v \div Fanout THEN NONE ELSE expected[w]
      BY <2>1
    <3> QED BY <2>4, <3>1, <3>2, <3>3
  <2> QED BY <1>6, <2>1, <2>3, <2>4, <2>5
<1>8. CASE ~e[4].huge
  <2>1. /\ l = 4 /\ Tab(c, 4, x) # NONE
        /\ d = WithEntry(c, Tab(c, 4, x), x[4], Absent)
        /\ expected' = [w \in VirtualPage |-> IF w = v THEN NONE ELSE expected[w]]
    BY <1>2, <1>3, <1>4, <1>8
  <2> HIDE DEF c, d, x, l
  <2>3. d \in Tables /\ EntryChanged(c, d, 4, x, Absent)
    BY <1>1, <1>a, <2>1, SetLeaf
  <2>4. /\ Tree(d) /\ HugeAtThree(d)
        /\ \A y \in Path : Phys(d, y) = IF Agree(4, y, x) THEN IF Absent.present THEN Absent.page ELSE NONE
                                                          ELSE Phys(c, y)
    BY <1>1, <1>a, <2>1, <2>3, EntryChangedKeeps
  <2>5. Lookup'
    <3> SUFFICES ASSUME NEW w \in VirtualPage PROVE Phys(d, PathOf(w)) = expected'[w]
      BY DEF Lookup, d
    <3>1. PathOf(w) \in Path /\ (Agree(4, PathOf(w), x) <=> w = v)
      BY <1>1, PathOfIs, SamePath DEF x
    <3>2. Phys(c, PathOf(w)) = expected[w]
      BY <1>1 DEF Lookup, c
    <3>3. expected'[w] = IF w = v THEN NONE ELSE expected[w]
      BY <2>1
    <3> QED BY <1>a, <2>4, <3>1, <3>2, <3>3
  <2> QED BY <1>6, <2>1, <2>3, <2>4, <2>5
<1> QED BY <1>7, <1>8

LEMMA StutterInv ==
  ASSUME IInv, UNCHANGED vars
  PROVE  IInv'
<1>1. /\ total' = total /\ todo' = todo /\ usable' = usable /\ bitmap' = bitmap /\ held' = held
      /\ pmm_used_pages' = pmm_used_pages /\ content' = content /\ expected' = expected /\ walk' = walk
  BY DEF vars
<1>2. /\ TypeOK /\ CountExact /\ Bits /\ Marks /\ Covered /\ Private /\ Mapped /\ Walking
  BY DEF IInv, Mapped
<1>3. TypeOK' /\ CountExact'
  BY <1>1, <1>2 DEF TypeOK, CountExact
<1>4. Bits' /\ Marks' /\ Covered'
  BY <1>1, <1>2 DEF Bits, Marks, Covered, FreePages
<1>5. Private' /\ Mapped' /\ Walking'
  BY <1>1, <1>2, MappedKept DEF Private, Walking
<1> QED BY <1>3, <1>4, <1>5 DEF IInv, Mapped

LEMMA NextInv ==
  ASSUME IInv, [Next]_vars
  PROVE  IInv'
<1>1. CASE MarkRegion
  BY <1>1, MarkInv
<1>2. CASE pmm_alloc_page
  BY <1>2, AllocPageInv
<1>3. ASSUME NEW count \in 1 .. 2, pmm_alloc_pages(count) PROVE IInv'
  <2>1. count \in Nat \ {0}
    OBVIOUS
  <2> QED BY <1>3, <2>1, AllocPagesInv
<1>4. ASSUME NEW p \in held, NEW count \in 1 .. 2, pmm_free_pages(p, count) PROVE IInv'
  BY <1>4, FreeInv
<1>5. ASSUME NEW v \in Virts, NEW p \in held, NEW count \in 1 .. 2, vmm_map_range(v, p, count) PROVE IInv'
  <2>1. count \in Nat \ {0}
    OBVIOUS
  <2> QED BY <1>5, <2>1, MapRangeInv
<1>6. CASE GetTable
  BY <1>6, GetTableInv
<1>7. CASE CreateTable
  BY <1>7, CreateTableInv
<1>8. CASE SetEntry
  BY <1>8, SetEntryInv
<1>9. ASSUME NEW v \in Virts, vmm_unmap_page(v) PROVE IInv'
  BY <1>9, UnmapInv
<1>10. CASE Halted
  BY <1>10, StutterInv DEF Halted
<1>11. CASE UNCHANGED vars
  BY <1>11, StutterInv
<1> QED BY <1>1, <1>2, <1>3, <1>4, <1>5, <1>6, <1>7, <1>8, <1>9, <1>10, <1>11 DEF Next

LEMMA Invariant == Spec => []IInv
<1>1. Init => IInv
  BY InitInv
<1>2. IInv /\ [Next]_vars => IInv'
  BY NextInv
<1> QED BY <1>1, <1>2, PTL DEF Spec

----------------------------------------------------------------------------
(* The tables found from the root are those the paths lead to.             *)

\* the tables of a level, by paths
Reached(l, T) == \A t \in T : \E x \in Path : Tab(content, l, x) = t /\ t # NONE

LEMMA LeadsTo ==
  ASSUME TypeOK, NEW l \in 1 .. 3, NEW T, Reached(l, T), NEW q \in Leads(T)
  PROVE  \E y \in Path : /\ Tab(content, l, y) = q[1] /\ y[l] = q[2] /\ q = <<q[1], q[2]>>
                         /\ Tab(content, l + 1, y) = content[q[1]][q[2]].page
                         /\ Tab(content, l + 1, y) # NONE
<1> DEFINE c == content
           t == q[1]
           i == q[2]
<1>1. t \in T /\ i \in Index /\ q = <<t, i>> /\ c[t][i].present /\ ~c[t][i].huge
  BY DEF Leads
<1>2. c \in Tables
  BY TypesGive
<1>3. PICK x \in Path : Tab(c, l, x) = t /\ t # NONE
  BY <1>1 DEF Reached
<1> DEFINE y == [x EXCEPT ![l] = i]
<1>4. y \in Path /\ y[l] = i /\ Agree(l - 1, x, y)
  BY <1>1 DEF Path, Agree
<1> HIDE DEF c, t, i, y
<1>5. Tab(c, l, y) = t
  <2>1. l \in 1 .. 4
    OBVIOUS
  <2> QED BY <1>3, <1>4, <2>1, TabAgree
<1>6. t \in Page
  BY <1>2, <1>3, TabType
<1>7. c[t][i].page \in Page /\ c[t][i].page # NONE
  <2>1. c[t][i].page \in Page
    BY <1>1, <1>2, <1>6, AtIsEntry
  <2> QED BY <2>1, BootIs
<1>8. Tab(c, l + 1, y) = c[t][i].page
  <2>1. Tab(c, l + 1, y) = Follow(c, t, i)
    BY <1>4, <1>5, TabStep
  <2> QED BY <1>1, <1>3, <2>1 DEF Follow
<1> QED BY <1>1, <1>4, <1>5, <1>7, <1>8 DEF c, t, i

NextTables(T) == {content[x[1]][x[2]].page : x \in Leads(T)}

LEMMA NextReached ==
  ASSUME TypeOK, NEW l \in 1 .. 3, NEW T, Reached(l, T)
  PROVE  Reached(l + 1, NextTables(T))
<1> SUFFICES ASSUME NEW t \in NextTables(T)
             PROVE  \E x \in Path : Tab(content, l + 1, x) = t /\ t # NONE
  BY DEF Reached
<1>1. PICK q \in Leads(T) : t = content[q[1]][q[2]].page
  BY DEF NextTables
<1>2. \E y \in Path : Tab(content, l + 1, y) = content[q[1]][q[2]].page /\ Tab(content, l + 1, y) # NONE
  BY LeadsTo
<1> QED BY <1>1, <1>2

LEMMA AllReached ==
  ASSUME TypeOK
  PROVE  \A l \in 1 .. 4 : Reached(l, TablesAt[l])
<1> DEFINE t1 == {Boot[1]}
           t2 == NextTables(t1)
           t3 == NextTables(t2)
           t4 == NextTables(t3)
<1>1. TablesAt[1] = t1 /\ TablesAt[2] = t2 /\ TablesAt[3] = t3 /\ TablesAt[4] = t4
  BY DEF TablesAt, NextTables
<1>2. Reached(1, t1)
  <2>1. [k \in 1 .. 4 |-> 0] \in Path
    BY PagesAssumption DEF Path, Index
  <2>2. Tab(content, 1, [k \in 1 .. 4 |-> 0]) = Boot[1] /\ Boot[1] # NONE
    BY TabIs, BootIs
  <2> QED BY <2>1, <2>2 DEF Reached
<1> HIDE DEF t1
<1>3. Reached(2, t2)
  <2>1. Reached(1 + 1, t2)
    BY <1>2, NextReached
  <2> QED BY <2>1
<1> HIDE DEF t2
<1>4. Reached(3, t3)
  <2>1. Reached(2 + 1, t3)
    BY <1>3, NextReached
  <2> QED BY <2>1
<1> HIDE DEF t3
<1>5. Reached(4, t4)
  <2>1. Reached(3 + 1, t4)
    BY <1>4, NextReached
  <2> QED BY <2>1
<1> HIDE DEF t4
<1>6. \A l \in 1 .. 4 : l = 1 \/ l = 2 \/ l = 3 \/ l = 4
  OBVIOUS
<1> QED BY <1>1, <1>2, <1>3, <1>4, <1>5, <1>6

LEMMA OwnedNow ==
  ASSUME IInv
  PROVE  TablesOwned
<1> DEFINE inner == UNION {TablesAt[level] : level \in 1 .. Levels - 1}
           tables == inner \cup TablesAt[Levels]
<1>1. TypeOK /\ Tree(content) /\ Private
  BY DEF IInv
<1>2. \A l \in 1 .. 4 : Reached(l, TablesAt[l])
  BY <1>1, AllReached
<1>3. ASSUME NEW t \in tables PROVE t \notin held /\ (todo = << >> => t \in bitmap)
  <2>1. PICK l \in 1 .. 4 : t \in TablesAt[l]
    BY DEF Levels
  <2>2. PICK x \in Path : Tab(content, l, x) = t /\ t # NONE
    BY <1>2, <2>1 DEF Reached
  <2> QED BY <1>1, <2>2 DEF Private
<1>4. ASSUME NEW q \in Leads(inner)
      PROVE  \E l \in 1 .. 3 : q \in Leads(TablesAt[l])
  <2>1. q[1] \in inner /\ q \in inner \X Index
    BY DEF Leads
  <2>2. PICK l \in 1 .. 3 : q[1] \in TablesAt[l]
    BY <2>1 DEF Levels
  <2> HIDE DEF inner
  <2>3. q \in TablesAt[l] \X Index
    BY <2>1, <2>2
  <2> QED BY <2>3 DEF Leads
<1>5. ASSUME NEW q \in Leads(inner), NEW r \in Leads(inner),
             content[q[1]][q[2]].page = content[r[1]][r[2]].page
      PROVE  q = r
  <2>1. PICK l \in 1 .. 3 : q \in Leads(TablesAt[l])
    BY <1>4
  <2>2. PICK m \in 1 .. 3 : r \in Leads(TablesAt[m])
    BY <1>4
  <2> HIDE DEF inner
  <2>a. Reached(l, TablesAt[l]) /\ Reached(m, TablesAt[m])
    BY <1>2
  <2>3. PICK x \in Path : /\ Tab(content, l, x) = q[1] /\ x[l] = q[2] /\ q = <<q[1], q[2]>>
                          /\ Tab(content, l + 1, x) = content[q[1]][q[2]].page
                          /\ Tab(content, l + 1, x) # NONE
    BY <1>1, <2>1, <2>a, LeadsTo
  <2>4. PICK y \in Path : /\ Tab(content, m, y) = r[1] /\ y[m] = r[2] /\ r = <<r[1], r[2]>>
                          /\ Tab(content, m + 1, y) = content[r[1]][r[2]].page
    BY <1>1, <2>2, <2>a, LeadsTo
  <2>5. l + 1 \in 1 .. 4 /\ m + 1 \in 1 .. 4 /\ Tab(content, l + 1, x) = Tab(content, m + 1, y)
    BY <1>5, <2>3, <2>4
  <2>6. l + 1 = m + 1 /\ Agree((l + 1) - 1, x, y)
    BY <1>1, <2>3, <2>5 DEF Tree
  <2>7. l = m /\ Agree(l - 1, x, y) /\ x[l] = y[l]
    BY <2>6 DEF Agree
  <2>8. q[1] = r[1]
    <3>1. l \in 1 .. 4
      OBVIOUS
    <3> QED BY <2>3, <2>4, <2>7, <3>1, TabAgree
  <2> QED BY <2>3, <2>4, <2>7, <2>8
<1> HIDE DEF inner
<1>6. todo = << >> => tables \subseteq bitmap
  BY <1>3
<1>7. tables \cap held = {}
  BY <1>3
<1>8. \A q, r \in Leads(inner) : content[q[1]][q[2]].page = content[r[1]][r[2]].page => q = r
  BY <1>5
<1> QED BY <1>6, <1>7, <1>8 DEF TablesOwned, inner

----------------------------------------------------------------------------
(* Results.                                                                *)

\* Every variable keeps its type, whatever memory map the BIOS reports: the number of pages
\* never exceeds PMM_MAX_MEMORY's, and entries of tables name pages of that memory.
THEOREM TypeCorrect == Spec => []TypeOK
<1>1. IInv => TypeOK
  BY DEF IInv
<1> QED BY <1>1, Invariant, PTL

\* pmm_used_pages is the number of bits that are set, through boot and after it.
THEOREM CountedRight == Spec => []CountExact
<1>1. IInv => CountExact
  BY DEF IInv
<1> QED BY <1>1, Invariant, PTL

\* Once the kernel runs, pages that can be allocated and pages that clients hold are wholly in
\* usable memory and apart from everything reserved, for any overlap of the regions.
THEOREM PagesUsable == Spec => []OnlyUsable
<1>1. IInv => OnlyUsable
  <2> SUFFICES ASSUME IInv, todo = << >>, NEW p \in (Page \ bitmap) \cup held
               PROVE  /\ PageBytes(p) \subseteq UNION {Bytes(r) : r \in usable}
                      /\ \A i \in DOMAIN Reserved : PageBytes(p) \cap Bytes(Reserved[i]) = {}
    BY DEF OnlyUsable
  <2>1. Marks /\ Covered /\ p \in FreePages \cup held
    BY DEF IInv, FreePages
  <2>2. PageBytes(p) \subseteq UNION {Bytes(r) : r \in usable}
    BY <2>1 DEF Covered
  <2>3. ASSUME NEW i \in DOMAIN Reserved PROVE Avoids(p, i)
    <3>1. CASE p \in FreePages
      BY <2>1, <3>1, RunningAvoids
    <3>2. CASE p \in held
      BY <2>1, <3>2 DEF Covered
    <3> QED BY <2>1, <3>1, <3>2
  <2> QED BY <2>2, <2>3 DEF Avoids
<1> QED BY <1>1, Invariant, PTL

\* What vmm_get_phys returns is what the virtual page was last mapped to: making tables from
\* pages that held other data, mapping and unmapping change no other translation.
THEOREM LookupsExact == Spec => []MapExact
<1>1. IInv => MapExact
  <2> SUFFICES ASSUME IInv, NEW v \in VirtualPage PROVE vmm_get_phys(v) = expected[v]
    BY DEF MapExact
  <2>1. TypeOK /\ HugeAtThree(content) /\ Lookup
    BY DEF IInv
  <2>2. vmm_get_phys(v) = Phys(content, PathOf(v))
    BY <2>1, LookupIs
  <2> QED BY <2>1, <2>2 DEF Lookup
<1> QED BY <1>1, Invariant, PTL

\* The pages of page tables are nobody else's: no client has one, their bits are set after
\* boot, and each is reached through one entry only.
THEOREM TablesTheirOwn == Spec => []TablesOwned
<1>1. IInv => TablesOwned
  BY OwnedNow
<1> QED BY <1>1, Invariant, PTL
=============================================================================
