-------------------------- MODULE FilesystemProofs --------------------------
(***************************************************************************)
(* The filesystem for every size of the bitmap, every split of it over the *)
(* two sectors, every set of other blocks and any number of crashes.  The  *)
(* inductive invariant says what memory, platter and the step of a format  *)
(* or an allocation have in common.                                        *)
(***************************************************************************)
EXTENDS Filesystem, WellFoundedInduction, NaturalsInduction, TLAPS

Low  == {n \in Numbers : n < FirstSector}
High == {n \in Numbers : n >= FirstSector}

\* What a block may hold: any halves, but in the bitmap each bit lies in its
\* own sector.
Bits    == Numbers \cup {FS_MAGIC}
Data    == [lo : SUBSET Bits, hi : SUBSET Bits]
Bitmaps == [lo : SUBSET Low, hi : SUBSET High]
Holds(b) == IF b = BITMAP THEN Bitmaps ELSE Data

StoreTypeOK ==
    /\ mem \in [Blocks -> Data \cup {NoBlock}]
    /\ platter \in [Blocks -> Data]
    /\ \A b \in Blocks : platter[b] \in Holds(b) /\ (Cache!Cached(b) => mem[b] \in Holds(b))
    /\ marked \in SUBSET Blocks
    /\ writing \in Blocks \cup {NoBlock}

Format == {"super", "superUpdate", "getBitmap", "bitmap", "bitmapUpdate"}
Valid  == FS_MAGIC \in platter[SUPERBLOCK].lo

\* The bits fs_alloc_block would search.
Seen == IF Cache!Cached(BITMAP) THEN UsedIn(mem[BITMAP]) ELSE UsedIn(platter[BITMAP])

\* Stored into, and block_update is still to come.
Unmarked(b) == \/ b = SUPERBLOCK /\ step = "superUpdate"
               \/ b = BITMAP /\ step \in {"bitmapUpdate", "allocUpdate"}

\* Memory and disk agree but for what is marked or about to be, and a first
\* sector that was written is the one in memory.
Synced ==
    /\ \A b \in marked : Cache!Cached(b)
    /\ \A b \in Blocks : Cache!Cached(b) /\ b \notin marked /\ ~Unmarked(b) => mem[b] = platter[b]
    /\ writing # NoBlock => /\ writing \in marked
                            /\ platter[writing].lo = mem[writing].lo
                            /\ step \in {"ready", "flush", "formatFlush"}

\* Where the superblock is.
Super ==
    /\ Valid /\ Cache!Cached(SUPERBLOCK) => FS_MAGIC \in mem[SUPERBLOCK].lo
    /\ step \in {"ready", "allocUpdate", "flush", "panic"} => Valid
    /\ step \in Format => ~Valid
    /\ step \in {"superUpdate", "getBitmap", "bitmap", "bitmapUpdate", "formatFlush"} =>
         Cache!Cached(SUPERBLOCK) /\ FS_MAGIC \in mem[SUPERBLOCK].lo
    /\ step \in {"getBitmap", "bitmap", "bitmapUpdate"} => SUPERBLOCK \in marked

\* No block in use is free in the bitmap that is seen, and none that a flush
\* has seen to is free on the disk.
Remembered ==
    /\ kept \subseteq handed
    /\ kept \subseteq UsedIn(platter[BITMAP])
    /\ handed \subseteq Seen
    /\ ~Valid => kept = {}
    /\ step = "init" => handed = kept
    /\ step \in Format \cup {"formatFlush"} => handed = {}

\* The reserved blocks are marked wherever the superblock is.
Guarded ==
    /\ ReservedKept
    /\ ~cut /\ Valid /\ step # "formatFlush" =>
         Reserved \subseteq UsedIn(platter[BITMAP]) /\ Reserved \subseteq Seen
    /\ step \in {"bitmapUpdate", "formatFlush"} =>
         Cache!Cached(BITMAP) /\ Reserved \subseteq UsedIn(mem[BITMAP])

\* A bit that is set stands for a block that was handed out, or a reserved one.
Accounted ==
    /\ UsedIn(platter[BITMAP]) \subseteq ever \cup Reserved
    /\ Seen \subseteq ever \cup Reserved
    /\ step = "panic" => Numbers \subseteq ever \cup Reserved

IInv == TypeOK /\ StoreTypeOK /\ Synced /\ Super /\ Remembered /\ Guarded /\ Accounted

----------------------------------------------------------------------------
(* Bits, halves and the bitmap.                                            *)

\* What Halves makes of some bits is a bitmap with just these bits set.
LEMMA HalvesOfBits ==
  ASSUME NEW S \in SUBSET Numbers
  PROVE  Halves(S) \in Bitmaps /\ UsedIn(Halves(S)) = S
<1>1. \A n \in S : n < FirstSector \/ n >= FirstSector
  BY LayoutAssumption DEF Numbers
<1>2. Halves(S) \in Bitmaps
  BY DEF Halves, Bitmaps, Low, High
<1> QED BY <1>1, <1>2 DEF Halves, UsedIn

LEMMA BitmapsAreData ==
  Bitmaps \subseteq Data /\ \A d \in Bitmaps : UsedIn(d) \subseteq Numbers
  BY DEF Bitmaps, Data, Bits, Low, High, UsedIn

\* After a crash between its two sectors a bitmap has every bit that was set
\* before and after, and no bit that was set neither before nor after.
LEMMA TornBitmap ==
  ASSUME NEW p \in Bitmaps, NEW m \in Bitmaps
  PROVE  LET t == [p EXCEPT !.lo = m.lo]
         IN  /\ t \in Bitmaps
             /\ UsedIn(p) \cap UsedIn(m) \subseteq UsedIn(t)
             /\ UsedIn(t) \subseteq UsedIn(p) \cup UsedIn(m)
<1> DEFINE t == [p EXCEPT !.lo = m.lo]
<1>1. t \in Bitmaps /\ t.lo = m.lo /\ t.hi = p.hi
  BY DEF Bitmaps
<1>2. \A n \in Low : n \notin High
  BY LayoutAssumption DEF Low, High, Numbers
<1> QED BY <1>1, <1>2 DEF UsedIn, Bitmaps

LEMMA MinIn ==
  ASSUME NEW S \in SUBSET Nat, S # {}
  PROVE  Min(S) \in S
<1> DEFINE R == {ss \in Nat \X Nat : ss[1] < ss[2]}
<1>1. IsWellFoundedOn(R, Nat)
  BY NatLessThanWellFounded, Zenon DEF OpToRel
<1>2. PICK x \in S : \A y \in S : ~(<<y, x>> \in R)
  <2> HIDE DEF R
  <2> QED BY <1>1, WFMin
<1>3. \A y \in S : x <= y
  <2> SUFFICES ASSUME NEW y \in S, y < x PROVE FALSE
    OBVIOUS
  <2>1. <<y, x>> \in Nat \X Nat /\ <<y, x>>[1] = y /\ <<y, x>>[2] = x
    OBVIOUS
  <2>2. <<y, x>> \in R
    BY <2>1
  <2> QED BY <1>2, <2>2
<1> QED BY <1>3 DEF Min

LEMMA BlocksApart ==
  /\ SUPERBLOCK \in Blocks /\ BITMAP \in Blocks /\ SUPERBLOCK # BITMAP
  /\ NoBlock \notin Blocks /\ NoBlock \notin Data
  /\ \A b \in UserBlocks : b # SUPERBLOCK /\ b # BITMAP
  /\ \A b : Holds(b) \subseteq Data
  /\ Holds(BITMAP) = Bitmaps /\ Holds(SUPERBLOCK) = Data
  BY LayoutAssumption, MarkerAssumption, BitmapsAreData
  DEF Blocks, SUPERBLOCK, BITMAP, Data, Bits, Numbers, Holds

LEMMA FormattedIsData == Formatted \in Data /\ FS_MAGIC \in Formatted.lo
  BY DEF Formatted, Data, Bits

----------------------------------------------------------------------------
(* What the steps of the cache do to what is in memory and on the disk.    *)

LEMMA FillStep ==
  ASSUME StoreTypeOK, Synced, NEW b \in Blocks, NEW gone, Cache!Fill(b, gone),
         \A x \in Blocks : ~Unmarked(x)
  PROVE  /\ StoreTypeOK'
         /\ platter' = platter /\ marked' = marked /\ writing' = writing /\ writing = NoBlock
         /\ Cache!Cached(b)' /\ mem'[b] = platter[b]
         /\ \A x \in Blocks : Cache!Cached(x)' /\ x # b => mem'[x] = mem[x]
         /\ \A x \in marked : Cache!Cached(x)' /\ mem'[x] = mem[x]
         /\ Seen' = Seen
         /\ gone = {} => \A x \in Blocks : x # b => mem'[x] = mem[x]
<1> USE DEF Cache!Cached, Cache!Quiet
<1>1. /\ platter' = platter /\ marked' = marked /\ writing' = writing /\ writing = NoBlock
      /\ mem[b] = NoBlock /\ gone \cap marked = {}
  BY DEF Cache!Fill
<1>2. mem' = [x \in Blocks |-> IF x = b THEN platter[b]
                               ELSE IF x \in gone THEN NoBlock ELSE mem[x]]
  BY DEF Cache!Fill
<1>3. mem'[b] = platter[b] /\ mem'[b] # NoBlock
  BY <1>2, BlocksApart DEF StoreTypeOK
<1>4. ASSUME NEW x \in Blocks, x # b
      PROVE  mem'[x] = IF x \in gone THEN NoBlock ELSE mem[x]
  BY <1>2, <1>4
<1>5. \A x \in marked : mem'[x] = mem[x] /\ mem[x] # NoBlock
  BY <1>1, <1>4 DEF Synced, StoreTypeOK
<1>6. StoreTypeOK'
  <2>1. mem' \in [Blocks -> Data \cup {NoBlock}]
    BY <1>2, <1>3, <1>4, BlocksApart DEF StoreTypeOK
  <2>2. ASSUME NEW x \in Blocks, mem'[x] # NoBlock
        PROVE  mem'[x] \in Holds(x)
    BY <1>3, <1>4, <2>2 DEF StoreTypeOK
  <2> QED BY <1>1, <2>1, <2>2 DEF StoreTypeOK, Holds
<1>7. Seen' = Seen
  <2>1. CASE BITMAP = b
    BY <1>1, <1>3, <2>1 DEF Seen
  <2>2. CASE BITMAP # b /\ BITMAP \notin gone
    BY <1>1, <1>4, <2>2, BlocksApart DEF Seen
  <2>3. CASE BITMAP # b /\ BITMAP \in gone
    BY <1>1, <1>4, <2>3, BlocksApart DEF Seen, Synced
  <2> QED BY <2>1, <2>2, <2>3
<1> QED BY <1>1, <1>3, <1>4, <1>5, <1>6, <1>7

LEMMA ChangeStep ==
  ASSUME StoreTypeOK, NEW b \in Blocks, NEW data \in Holds(b), Cache!Change(b, data)
  PROVE  /\ StoreTypeOK'
         /\ platter' = platter /\ marked' = marked /\ writing' = writing /\ writing = NoBlock
         /\ Cache!Cached(b) /\ Cache!Cached(b)' /\ mem'[b] = data
         /\ \A x \in Blocks : x # b => mem'[x] = mem[x]
<1> USE DEF Cache!Cached, Cache!Quiet
<1>1. /\ platter' = platter /\ marked' = marked /\ writing' = writing /\ writing = NoBlock
      /\ mem[b] # NoBlock /\ mem' = [mem EXCEPT ![b] = data]
  BY DEF Cache!Change
<1>2. data \in Data /\ data # NoBlock
  BY BlocksApart
<1>3. mem'[b] = data /\ \A x \in Blocks : x # b => mem'[x] = mem[x]
  BY <1>1 DEF StoreTypeOK
<1>4. StoreTypeOK'
  <2>1. mem' \in [Blocks -> Data \cup {NoBlock}]
    BY <1>1, <1>2 DEF StoreTypeOK
  <2>2. \A x \in Blocks : mem'[x] # NoBlock => mem'[x] \in Holds(x)
    BY <1>3 DEF StoreTypeOK
  <2> QED BY <1>1, <2>1, <2>2 DEF StoreTypeOK, Holds
<1> QED BY <1>1, <1>2, <1>3, <1>4

LEMMA MarkStep ==
  ASSUME StoreTypeOK, NEW b \in Blocks, Cache!Mark(b)
  PROVE  /\ StoreTypeOK' /\ Seen' = Seen
         /\ mem' = mem /\ platter' = platter /\ writing' = writing /\ writing = NoBlock
         /\ Cache!Cached(b) /\ marked' = marked \cup {b}
<1>1. /\ mem' = mem /\ platter' = platter /\ writing' = writing /\ writing = NoBlock
      /\ Cache!Cached(b) /\ marked' = marked \cup {b}
  BY DEF Cache!Mark, Cache!Quiet
<1> QED BY <1>1 DEF StoreTypeOK, Holds, Seen, Cache!Cached

\* The first sector of a marked block: what is on the disk may be torn.
LEMMA WriteFirstStep ==
  ASSUME StoreTypeOK, Synced, NEW b \in marked, Cache!WriteFirst(b)
  PROVE  /\ StoreTypeOK' /\ Seen' = Seen
         /\ mem' = mem /\ marked' = marked /\ writing' = b
         /\ b \in Blocks /\ Cache!Cached(b)
         /\ platter'[b] = [platter[b] EXCEPT !.lo = mem[b].lo]
         /\ platter'[b].lo = mem[b].lo
         /\ \A x \in Blocks : x # b => platter'[x] = platter[x]
<1> USE DEF Cache!Cached, Cache!Quiet
<1>1. /\ mem' = mem /\ marked' = marked /\ writing' = b
      /\ platter' = [platter EXCEPT ![b].lo = mem[b].lo]
  BY DEF Cache!WriteFirst
<1>2. b \in Blocks /\ mem[b] # NoBlock /\ mem[b] \in Holds(b) /\ platter[b] \in Holds(b)
  BY DEF StoreTypeOK, Synced
<1>3. /\ platter'[b] = [platter[b] EXCEPT !.lo = mem[b].lo]
      /\ \A x \in Blocks : x # b => platter'[x] = platter[x]
  BY <1>1, <1>2 DEF StoreTypeOK
<1>4. platter'[b] \in Holds(b) /\ platter'[b].lo = mem[b].lo
  BY <1>2, <1>3 DEF Holds, Bitmaps, Data
<1>5. platter' \in [Blocks -> Data]
  BY <1>1, <1>2, <1>4, BlocksApart DEF StoreTypeOK
<1>6. StoreTypeOK'
  BY <1>1, <1>2, <1>3, <1>4, <1>5 DEF StoreTypeOK, Holds
<1>7. Seen' = Seen
  <2>1. CASE b = BITMAP
    BY <1>1, <1>2, <2>1 DEF Seen
  <2>2. CASE b # BITMAP
    BY <1>1, <1>3, <2>2, BlocksApart DEF Seen
  <2> QED BY <2>1, <2>2
<1> QED BY <1>1, <1>2, <1>3, <1>4, <1>6, <1>7

\* With the second sector the disk has what the memory has.
LEMMA WriteSecondStep ==
  ASSUME StoreTypeOK, Synced, NEW b \in marked, Cache!WriteSecond(b)
  PROVE  /\ StoreTypeOK' /\ Seen' = Seen
         /\ mem' = mem /\ marked' = marked \ {b} /\ writing' = NoBlock /\ writing = b
         /\ b \in Blocks /\ Cache!Cached(b)
         /\ platter'[b] = mem[b] /\ platter[b].lo = mem[b].lo
         /\ \A x \in Blocks : x # b => platter'[x] = platter[x]
<1> USE DEF Cache!Cached, Cache!Quiet
<1>1. /\ mem' = mem /\ marked' = marked \ {b} /\ writing' = NoBlock /\ writing = b
      /\ platter' = [platter EXCEPT ![b].hi = mem[b].hi]
  BY DEF Cache!WriteSecond
<1>2. b \in Blocks /\ mem[b] # NoBlock /\ mem[b] \in Holds(b) /\ platter[b] \in Holds(b)
  BY DEF StoreTypeOK, Synced
<1>3. /\ platter'[b] = [platter[b] EXCEPT !.hi = mem[b].hi]
      /\ \A x \in Blocks : x # b => platter'[x] = platter[x]
  BY <1>1, <1>2 DEF StoreTypeOK
<1>4. platter[b].lo = mem[b].lo
  BY <1>1, <1>2, BlocksApart DEF Synced
<1>5. platter'[b] = mem[b]
  BY <1>2, <1>3, <1>4 DEF Holds, Bitmaps, Data
<1>6. platter' \in [Blocks -> Data]
  BY <1>1, <1>2, <1>5, BlocksApart DEF StoreTypeOK
<1>7. StoreTypeOK'
  BY <1>1, <1>2, <1>3, <1>5, <1>6 DEF StoreTypeOK, Holds
<1>8. Seen' = Seen
  <2>1. CASE b = BITMAP
    BY <1>1, <1>2, <2>1 DEF Seen
  <2>2. CASE b # BITMAP
    BY <1>1, <1>3, <2>2, BlocksApart DEF Seen
  <2> QED BY <2>1, <2>2
<1> QED BY <1>1, <1>2, <1>3, <1>4, <1>5, <1>7, <1>8

LEMMA ForgetStep ==
  ASSUME StoreTypeOK, Cache!Forget
  PROVE  /\ StoreTypeOK'
         /\ platter' = platter /\ marked' = {} /\ writing' = NoBlock
         /\ \A x \in Blocks : ~Cache!Cached(x)'
         /\ Seen' = UsedIn(platter[BITMAP])
<1> USE DEF Cache!Cached
<1>1. /\ platter' = platter /\ marked' = {} /\ writing' = NoBlock
      /\ mem' = [b \in Blocks |-> NoBlock]
  BY DEF Cache!Forget
<1>2. \A x \in Blocks : mem'[x] = NoBlock
  BY <1>1
<1> QED BY <1>1, <1>2, BlocksApart DEF StoreTypeOK, Holds, Seen

----------------------------------------------------------------------------
(* The inductive invariant, action by action.                              *)

Ctl == <<crashes, ghosts>>

LEMMA InitHolds == Init => IInv
<1> SUFFICES ASSUME Init PROVE IInv
  OBVIOUS
<1>1. /\ mem = [b \in Blocks |-> NoBlock] /\ marked = {} /\ writing = NoBlock
      /\ platter = [b \in Blocks |-> Halves({})]
      /\ step = "init" /\ crashes = 0 /\ handed = {} /\ ever = {} /\ kept = {} /\ cut = FALSE
  BY DEF Init, Cache!Init
<1>2. /\ \A b \in Blocks : ~Cache!Cached(b) /\ platter[b] = Halves({})
      /\ Halves({}) \in Bitmaps /\ Halves({}) \in Data
  BY <1>1, HalvesOfBits, BitmapsAreData DEF Cache!Cached
<1>3. TypeOK
  BY <1>1, CrashesAssumption DEF TypeOK, Steps
<1>4. StoreTypeOK
  BY <1>1, <1>2 DEF StoreTypeOK, Holds
<1>5. Synced /\ Super
  BY <1>1, <1>2, BlocksApart, HalvesOfBits DEF Synced, Super, Valid, Halves, Format
<1>6. Remembered
  BY <1>1 DEF Remembered, Format
<1>7. Guarded
  BY <1>1, <1>2, BlocksApart DEF Guarded, ReservedKept, Valid, Halves
<1>8. Accounted
  BY <1>1, <1>2, BlocksApart, HalvesOfBits DEF Accounted, Seen
<1> QED BY <1>3, <1>4, <1>5, <1>6, <1>7, <1>8 DEF IInv

LEMMA InitStep == IInv /\ fs_init => IInv'
<1> SUFFICES ASSUME IInv, fs_init PROVE IInv'
  OBVIOUS
<1> USE BlocksApart
<1>1. /\ step = "init" /\ crashes' = crashes /\ handed' = handed /\ ever' = ever
      /\ kept' = kept /\ cut' = cut
      /\ step' = IF Valid THEN "ready" ELSE "super"
      /\ Cache!Fill(SUPERBLOCK, {})
  BY DEF fs_init, ghosts, Valid
<1>2. /\ StoreTypeOK' /\ platter' = platter /\ marked' = marked /\ writing' = writing
      /\ writing = NoBlock
      /\ Cache!Cached(SUPERBLOCK)' /\ mem'[SUPERBLOCK] = platter[SUPERBLOCK]
      /\ \A x \in Blocks : Cache!Cached(x)' /\ x # SUPERBLOCK => mem'[x] = mem[x]
      /\ \A x \in marked : Cache!Cached(x)' /\ mem'[x] = mem[x]
      /\ Seen' = Seen
  <2>1. \A x \in Blocks : ~Unmarked(x)
    BY <1>1 DEF Unmarked
  <2> QED BY <1>1, <2>1, FillStep DEF IInv
<1>3. Valid' = Valid
  BY <1>2 DEF Valid
<1>4. TypeOK'
  BY <1>1 DEF IInv, TypeOK, Steps
<1>5. Synced'
  BY <1>1, <1>2 DEF IInv, Synced, Unmarked, Cache!Cached, StoreTypeOK
<1>6. Super'
  BY <1>1, <1>2, <1>3 DEF Super, Format, Valid
<1>7. Remembered'
  BY <1>1, <1>2, <1>3 DEF IInv, Remembered, Format
<1>8. Guarded'
  BY <1>1, <1>2, <1>3 DEF IInv, Guarded, ReservedKept
<1>9. Accounted'
  BY <1>1, <1>2 DEF IInv, Accounted
<1> QED BY <1>2, <1>4, <1>5, <1>6, <1>7, <1>8, <1>9 DEF IInv

LEMMA FormatSuper ==
  ASSUME IInv, Goto("super", "superUpdate"), Cache!Change(SUPERBLOCK, Formatted), UNCHANGED Ctl
  PROVE  IInv'
<1> USE BlocksApart
<1>1. /\ step = "super" /\ step' = "superUpdate" /\ crashes' = crashes /\ handed' = handed
      /\ ever' = ever /\ kept' = kept /\ cut' = cut
  BY DEF Goto, Ctl, ghosts
<1>2. /\ StoreTypeOK' /\ platter' = platter /\ marked' = marked /\ writing' = writing
      /\ writing = NoBlock
      /\ Cache!Cached(SUPERBLOCK)' /\ mem'[SUPERBLOCK] = Formatted
      /\ \A x \in Blocks : x # SUPERBLOCK => mem'[x] = mem[x]
  BY ChangeStep, FormattedIsData DEF IInv
<1>3. Valid' = Valid /\ Seen' = Seen
  BY <1>2 DEF Valid, Seen, Cache!Cached
<1>4. TypeOK'
  BY <1>1 DEF IInv, TypeOK, Steps
<1>5. Synced'
  BY <1>1, <1>2 DEF IInv, Synced, Unmarked, Cache!Cached, StoreTypeOK
<1>6. Super'
  BY <1>1, <1>2, <1>3, FormattedIsData DEF IInv, Super, Format
<1>7. Remembered'
  BY <1>1, <1>2, <1>3 DEF IInv, Remembered, Format
<1>8. Guarded'
  BY <1>1, <1>2, <1>3 DEF IInv, Guarded, ReservedKept, Super, Format
<1>9. Accounted'
  BY <1>1, <1>2, <1>3 DEF IInv, Accounted
<1> QED BY <1>2, <1>4, <1>5, <1>6, <1>7, <1>8, <1>9 DEF IInv

LEMMA FormatMark ==
  ASSUME IInv, NEW b \in {SUPERBLOCK, BITMAP}, NEW from, NEW to,
         \/ b = SUPERBLOCK /\ from = "superUpdate" /\ to = "getBitmap"
         \/ b = BITMAP /\ from = "bitmapUpdate" /\ to = "formatFlush"
         \/ b = BITMAP /\ from = "allocUpdate" /\ to = "ready",
         Goto(from, to), Cache!Mark(b), UNCHANGED Ctl
  PROVE  IInv'
<1> USE BlocksApart
<1>1. /\ step = from /\ step' = to /\ crashes' = crashes /\ handed' = handed
      /\ ever' = ever /\ kept' = kept /\ cut' = cut
  BY DEF Goto, Ctl, ghosts
<1>2. /\ StoreTypeOK' /\ mem' = mem /\ platter' = platter /\ writing' = writing
      /\ writing = NoBlock /\ Cache!Cached(b) /\ marked' = marked \cup {b} /\ Seen' = Seen
  BY MarkStep DEF IInv
<1>3. Valid' = Valid
  BY <1>2 DEF Valid
<1>4. TypeOK'
  BY <1>1 DEF IInv, TypeOK, Steps
<1>5. Synced'
  BY <1>1, <1>2 DEF IInv, Synced, Unmarked, Cache!Cached
<1>6. Super'
  BY <1>1, <1>2, <1>3 DEF IInv, Super, Format, Cache!Cached
<1>7. Remembered'
  BY <1>1, <1>2, <1>3 DEF IInv, Remembered, Format
<1>8. Guarded'
  BY <1>1, <1>2, <1>3 DEF IInv, Guarded, ReservedKept, Super, Format, Cache!Cached
<1>9. Accounted'
  BY <1>1, <1>2, <1>3 DEF IInv, Accounted
<1> QED BY <1>2, <1>4, <1>5, <1>6, <1>7, <1>8, <1>9 DEF IInv

LEMMA FormatGet ==
  ASSUME IInv, Goto("getBitmap", "bitmap"), Cache!Fill(BITMAP, {}), UNCHANGED Ctl
  PROVE  IInv'
<1> USE BlocksApart
<1>1. /\ step = "getBitmap" /\ step' = "bitmap" /\ crashes' = crashes /\ handed' = handed
      /\ ever' = ever /\ kept' = kept /\ cut' = cut
  BY DEF Goto, Ctl, ghosts
<1>2. /\ StoreTypeOK' /\ platter' = platter /\ marked' = marked /\ writing' = writing
      /\ writing = NoBlock
      /\ Cache!Cached(BITMAP)' /\ mem'[BITMAP] = platter[BITMAP]
      /\ \A x \in Blocks : x # BITMAP => mem'[x] = mem[x]
      /\ \A x \in marked : Cache!Cached(x)' /\ mem'[x] = mem[x]
      /\ Seen' = Seen
  <2>1. \A x \in Blocks : ~Unmarked(x)
    BY <1>1 DEF Unmarked
  <2> QED BY <1>1, <2>1, FillStep DEF IInv
<1>3. Valid' = Valid
  BY <1>2 DEF Valid
<1>4. TypeOK'
  BY <1>1 DEF IInv, TypeOK, Steps
<1>5. Synced'
  BY <1>1, <1>2 DEF IInv, Synced, Unmarked, Cache!Cached, StoreTypeOK
<1>6. Super'
  BY <1>1, <1>2, <1>3 DEF IInv, Super, Format, Cache!Cached
<1>7. Remembered'
  BY <1>1, <1>2, <1>3 DEF IInv, Remembered, Format
<1>8. Guarded'
  BY <1>1, <1>2, <1>3 DEF IInv, Guarded, ReservedKept
<1>9. Accounted'
  BY <1>1, <1>2 DEF IInv, Accounted
<1> QED BY <1>2, <1>4, <1>5, <1>6, <1>7, <1>8, <1>9 DEF IInv

\* The empty bitmap of a fresh filesystem: nobody has been handed a block yet.
LEMMA FormatBitmap ==
  ASSUME IInv, Goto("bitmap", "bitmapUpdate"), Cache!Change(BITMAP, Halves(Reserved)),
         UNCHANGED Ctl
  PROVE  IInv'
<1> USE BlocksApart
<1>1. /\ step = "bitmap" /\ step' = "bitmapUpdate" /\ crashes' = crashes /\ handed' = handed
      /\ ever' = ever /\ kept' = kept /\ cut' = cut
  BY DEF Goto, Ctl, ghosts
<1>2. Halves(Reserved) \in Bitmaps /\ UsedIn(Halves(Reserved)) = Reserved
  <2>1. Reserved \subseteq Numbers
    BY LayoutAssumption DEF Reserved, Numbers
  <2> QED BY <2>1, HalvesOfBits
<1>3. /\ StoreTypeOK' /\ platter' = platter /\ marked' = marked /\ writing' = writing
      /\ writing = NoBlock
      /\ Cache!Cached(BITMAP)' /\ mem'[BITMAP] = Halves(Reserved)
      /\ \A x \in Blocks : x # BITMAP => mem'[x] = mem[x]
  BY <1>2, ChangeStep DEF IInv
<1>4. Valid' = Valid /\ Seen' = Reserved
  BY <1>2, <1>3 DEF Valid, Seen
<1>5. TypeOK'
  BY <1>1 DEF IInv, TypeOK, Steps
<1>6. Synced'
  BY <1>1, <1>3 DEF IInv, Synced, Unmarked, Cache!Cached, StoreTypeOK
<1>7. Super'
  BY <1>1, <1>3, <1>4 DEF IInv, Super, Format, Cache!Cached
<1>8. Remembered'
  BY <1>1, <1>3, <1>4 DEF IInv, Remembered, Format
<1>9. Guarded'
  BY <1>1, <1>2, <1>3, <1>4 DEF IInv, Guarded, ReservedKept, Super, Format
<1>10. Accounted'
  BY <1>1, <1>3, <1>4 DEF IInv, Accounted
<1> QED BY <1>3, <1>5, <1>6, <1>7, <1>8, <1>9, <1>10 DEF IInv

LEMMA FormatStep == IInv /\ fs_format => IInv'
<1> SUFFICES ASSUME IInv, fs_format PROVE IInv'
  OBVIOUS
<1>1. UNCHANGED Ctl
  BY DEF fs_format, Ctl
<1>2. CASE Goto("super", "superUpdate") /\ Cache!Change(SUPERBLOCK, Formatted)
  BY <1>1, <1>2, FormatSuper
<1>3. CASE Goto("superUpdate", "getBitmap") /\ Cache!Mark(SUPERBLOCK)
  BY <1>1, <1>3, FormatMark
<1>4. CASE Goto("getBitmap", "bitmap") /\ Cache!Fill(BITMAP, {})
  BY <1>1, <1>4, FormatGet
<1>5. CASE Goto("bitmap", "bitmapUpdate") /\ Cache!Change(BITMAP, Halves(Reserved))
  BY <1>1, <1>5, FormatBitmap
<1>6. CASE Goto("bitmapUpdate", "formatFlush") /\ Cache!Mark(BITMAP)
  BY <1>1, <1>6, FormatMark
<1> QED BY <1>2, <1>3, <1>4, <1>5, <1>6 DEF fs_format

LEMMA GetStep == IInv /\ block_get => IInv'
<1> SUFFICES ASSUME IInv, block_get PROVE IInv'
  OBVIOUS
<1> USE BlocksApart
<1>1. /\ step = "ready" /\ step' = step /\ crashes' = crashes /\ handed' = handed
      /\ ever' = ever /\ kept' = kept /\ cut' = cut
  BY DEF block_get, ghosts
<1>2. PICK b \in Blocks, gone \in SUBSET Blocks : Cache!Fill(b, gone)
  BY DEF block_get
<1>3. /\ StoreTypeOK' /\ platter' = platter /\ marked' = marked /\ writing' = writing
      /\ writing = NoBlock
      /\ Cache!Cached(b)' /\ mem'[b] = platter[b]
      /\ \A x \in Blocks : Cache!Cached(x)' /\ x # b => mem'[x] = mem[x]
      /\ \A x \in marked : Cache!Cached(x)' /\ mem'[x] = mem[x]
      /\ Seen' = Seen
  <2>1. \A x \in Blocks : ~Unmarked(x)
    BY <1>1 DEF Unmarked
  <2> QED BY <1>2, <2>1, FillStep DEF IInv
<1>4. Valid' = Valid
  BY <1>3 DEF Valid
<1>5. TypeOK'
  BY <1>1 DEF IInv, TypeOK
<1>6. Synced'
  BY <1>1, <1>3 DEF IInv, Synced, Unmarked, Cache!Cached, StoreTypeOK
<1>7. Super'
  <2>1. Valid /\ Cache!Cached(SUPERBLOCK)' => FS_MAGIC \in mem'[SUPERBLOCK].lo
    <3>1. CASE b = SUPERBLOCK
      BY <1>3, <3>1 DEF Valid
    <3>2. CASE b # SUPERBLOCK
      BY <1>3, <3>2 DEF IInv, Super, Cache!Cached
    <3> QED BY <3>1, <3>2
  <2> QED BY <1>1, <1>4, <2>1 DEF IInv, Super, Format
<1>8. Remembered'
  BY <1>1, <1>3, <1>4 DEF IInv, Remembered
<1>9. Guarded'
  BY <1>1, <1>3, <1>4 DEF IInv, Guarded, ReservedKept
<1>10. Accounted'
  BY <1>1, <1>3 DEF IInv, Accounted
<1> QED BY <1>3, <1>5, <1>6, <1>7, <1>8, <1>9, <1>10 DEF IInv

LEMMA UserStep == IInv /\ UserWrites => IInv'
<1> SUFFICES ASSUME IInv, UserWrites PROVE IInv'
  OBVIOUS
<1> USE BlocksApart
<1>1. /\ step = "ready" /\ step' = step /\ crashes' = crashes /\ handed' = handed
      /\ ever' = ever /\ kept' = kept /\ cut' = cut
  BY DEF UserWrites, ghosts
<1>2. PICK b \in UserBlocks : Cache!Mark(b)
  BY DEF UserWrites
<1>3. /\ StoreTypeOK' /\ mem' = mem /\ platter' = platter /\ writing' = writing
      /\ writing = NoBlock /\ Cache!Cached(b) /\ marked' = marked \cup {b} /\ Seen' = Seen
  <2>1. b \in Blocks
    BY DEF Blocks
  <2> QED BY <1>2, <2>1, MarkStep DEF IInv
<1>4. Valid' = Valid
  BY <1>3 DEF Valid
<1>5. TypeOK'
  BY <1>1 DEF IInv, TypeOK
<1>6. Synced'
  BY <1>1, <1>3 DEF IInv, Synced, Unmarked, Cache!Cached
<1>7. Super'
  BY <1>1, <1>3, <1>4 DEF IInv, Super, Format, Cache!Cached
<1>8. Remembered'
  BY <1>1, <1>3, <1>4 DEF IInv, Remembered
<1>9. Guarded'
  BY <1>1, <1>3, <1>4 DEF IInv, Guarded, ReservedKept
<1>10. Accounted'
  BY <1>1, <1>3 DEF IInv, Accounted
<1> QED BY <1>3, <1>5, <1>6, <1>7, <1>8, <1>9, <1>10 DEF IInv

\* Between the two sectors of a block: the bitmap may be torn, the superblock
\* is not, for all that matters of it lies in its first sector.
LEMMA FirstSectorStep ==
  ASSUME IInv, step \in {"ready", "formatFlush", "flush"},
         NEW b \in marked, Cache!WriteFirst(b), UNCHANGED <<step, Ctl>>
  PROVE  IInv'
<1> USE BlocksApart
<1>1. /\ step' = step /\ crashes' = crashes /\ handed' = handed
      /\ ever' = ever /\ kept' = kept /\ cut' = cut
  BY DEF Ctl, ghosts
<1>2. /\ StoreTypeOK' /\ Seen' = Seen
      /\ mem' = mem /\ marked' = marked /\ writing' = b
      /\ b \in Blocks /\ Cache!Cached(b)
      /\ platter'[b] = [platter[b] EXCEPT !.lo = mem[b].lo]
      /\ platter'[b].lo = mem[b].lo
      /\ \A x \in Blocks : x # b => platter'[x] = platter[x]
  BY WriteFirstStep DEF IInv
<1>3. \A x \in Blocks : Cache!Cached(x)' <=> Cache!Cached(x)
  BY <1>2 DEF Cache!Cached
<1>4. Valid => Valid'
  <2>1. CASE b = SUPERBLOCK
    BY <1>2, <2>1 DEF IInv, Super, Valid
  <2>2. CASE b # SUPERBLOCK
    BY <1>2, <2>2 DEF Valid
  <2> QED BY <2>1, <2>2
<1>5. /\ UsedIn(platter[BITMAP]) \cap Seen \subseteq UsedIn(platter'[BITMAP])
      /\ UsedIn(platter'[BITMAP]) \subseteq UsedIn(platter[BITMAP]) \cup Seen
  <2>1. CASE b = BITMAP
    <3>1. platter[BITMAP] \in Bitmaps /\ mem[BITMAP] \in Bitmaps /\ Seen = UsedIn(mem[BITMAP])
      BY <1>2, <2>1 DEF IInv, StoreTypeOK, Seen
    <3> QED BY <1>2, <2>1, <3>1, TornBitmap
  <2>2. CASE b # BITMAP
    BY <1>2, <2>2
  <2> QED BY <2>1, <2>2
<1>6. TypeOK'
  BY <1>1 DEF IInv, TypeOK
<1>7. Synced'
  BY <1>1, <1>2, <1>3 DEF IInv, Synced, Unmarked, StoreTypeOK
<1>8. Super'
  <2>1. Valid' /\ Cache!Cached(SUPERBLOCK) => FS_MAGIC \in mem[SUPERBLOCK].lo
    <3>1. CASE b = SUPERBLOCK
      BY <1>2, <3>1 DEF Valid
    <3>2. CASE b # SUPERBLOCK
      BY <1>2, <3>2 DEF IInv, Super, Valid
    <3> QED BY <3>1, <3>2
  <2> QED BY <1>1, <1>2, <1>3, <1>4, <2>1 DEF IInv, Super, Format
<1>9. Remembered'
  BY <1>1, <1>2, <1>4, <1>5 DEF IInv, Remembered, Format
<1>10. Guarded'
  BY <1>1, <1>2, <1>3, <1>4, <1>5 DEF IInv, Guarded, ReservedKept, Super
<1>11. Accounted'
  BY <1>1, <1>2, <1>5 DEF IInv, Accounted
<1> QED BY <1>2, <1>6, <1>7, <1>8, <1>9, <1>10, <1>11 DEF IInv

LEMMA SecondSectorStep ==
  ASSUME IInv, step \in {"ready", "formatFlush", "flush"},
         NEW b \in marked, Cache!WriteSecond(b), UNCHANGED <<step, Ctl>>
  PROVE  IInv'
<1> USE BlocksApart
<1>1. /\ step' = step /\ crashes' = crashes /\ handed' = handed
      /\ ever' = ever /\ kept' = kept /\ cut' = cut
  BY DEF Ctl, ghosts
<1>2. /\ StoreTypeOK' /\ Seen' = Seen
      /\ mem' = mem /\ marked' = marked \ {b} /\ writing' = NoBlock /\ writing = b
      /\ b \in Blocks /\ Cache!Cached(b)
      /\ platter'[b] = mem[b] /\ platter[b].lo = mem[b].lo
      /\ \A x \in Blocks : x # b => platter'[x] = platter[x]
  BY WriteSecondStep DEF IInv
<1>3. \A x \in Blocks : Cache!Cached(x)' <=> Cache!Cached(x)
  BY <1>2 DEF Cache!Cached
<1>4. Valid' = Valid
  <2>1. CASE b = SUPERBLOCK
    BY <1>2, <2>1 DEF Valid
  <2>2. CASE b # SUPERBLOCK
    BY <1>2, <2>2 DEF Valid
  <2> QED BY <2>1, <2>2
<1>5. UsedIn(platter'[BITMAP]) \in {UsedIn(platter[BITMAP]), Seen}
  BY <1>2 DEF Seen
<1>6. TypeOK'
  BY <1>1 DEF IInv, TypeOK
<1>7. Synced'
  BY <1>1, <1>2, <1>3 DEF IInv, Synced, Unmarked, StoreTypeOK
<1>8. Super'
  BY <1>1, <1>2, <1>3, <1>4 DEF IInv, Super, Format
<1>9. Remembered'
  BY <1>1, <1>2, <1>4, <1>5 DEF IInv, Remembered, Format
<1>10. Guarded'
  BY <1>1, <1>2, <1>3, <1>4, <1>5 DEF IInv, Guarded, ReservedKept
<1>11. Accounted'
  BY <1>1, <1>2, <1>5 DEF IInv, Accounted
<1> QED BY <1>2, <1>6, <1>7, <1>8, <1>9, <1>10, <1>11 DEF IInv

LEMMA WriteStep == IInv /\ write_buffer_to_disk => IInv'
<1> SUFFICES ASSUME IInv, write_buffer_to_disk PROVE IInv'
  OBVIOUS
<1>1. step \in {"ready", "formatFlush", "flush"} /\ UNCHANGED <<step, Ctl>>
  BY DEF write_buffer_to_disk, Ctl
<1>2. PICK b \in marked : Cache!WriteFirst(b) \/ Cache!WriteSecond(b)
  BY DEF write_buffer_to_disk
<1> QED BY <1>1, <1>2, FirstSectorStep, SecondSectorStep

LEMMA FlushStarts == IInv /\ w_flush => IInv'
<1> SUFFICES ASSUME IInv, w_flush PROVE IInv'
  OBVIOUS
<1>1. /\ step = "ready" /\ step' = "flush" /\ writing = NoBlock
      /\ mem' = mem /\ platter' = platter /\ marked' = marked /\ writing' = writing
      /\ crashes' = crashes /\ handed' = handed /\ ever' = ever /\ kept' = kept /\ cut' = cut
  BY DEF w_flush, Goto, ghosts, store, Cache!Quiet
<1>2. /\ Seen' = Seen /\ Valid' = Valid /\ StoreTypeOK'
      /\ \A x : Cache!Cached(x)' <=> Cache!Cached(x)
  BY <1>1 DEF IInv, Seen, Valid, StoreTypeOK, Cache!Cached, Holds
<1>3. TypeOK'
  BY <1>1 DEF IInv, TypeOK, Steps
<1>4. Synced' /\ Super'
  BY <1>1, <1>2 DEF IInv, Synced, Unmarked, Super, Format
<1>5. Remembered'
  BY <1>1, <1>2 DEF IInv, Remembered, Format
<1>6. Guarded' /\ Accounted'
  BY <1>1, <1>2 DEF IInv, Guarded, ReservedKept, Accounted
<1> QED BY <1>2, <1>3, <1>4, <1>5, <1>6 DEF IInv

\* Nothing is marked any more: disk and memory agree, and what is in use is
\* set on the disk.
LEMMA FlushEnds == IInv /\ FlushReturns => IInv'
<1> SUFFICES ASSUME IInv, FlushReturns PROVE IInv'
  OBVIOUS
<1> USE BlocksApart
<1>1. /\ step \in {"formatFlush", "flush"} /\ step' = "ready" /\ marked = {}
      /\ mem' = mem /\ platter' = platter /\ marked' = marked /\ writing' = writing
      /\ crashes' = crashes /\ handed' = handed /\ ever' = ever /\ kept' = handed /\ cut' = cut
  BY DEF FlushReturns, store
<1>2. /\ Seen' = Seen /\ Valid' = Valid /\ StoreTypeOK'
      /\ \A x : Cache!Cached(x)' <=> Cache!Cached(x)
  BY <1>1 DEF IInv, Seen, Valid, StoreTypeOK, Cache!Cached, Holds
<1>3. \A b \in Blocks : Cache!Cached(b) => mem[b] = platter[b]
  BY <1>1 DEF IInv, Synced, Unmarked
<1>4. Seen = UsedIn(platter[BITMAP])
  BY <1>3 DEF Seen
<1>5. Valid
  BY <1>1, <1>3 DEF IInv, Super, Valid
<1>6. TypeOK'
  BY <1>1 DEF IInv, TypeOK, Steps
<1>7. Synced' /\ Super'
  BY <1>1, <1>2, <1>5 DEF IInv, Synced, Unmarked, Super, Format
<1>8. Remembered'
  BY <1>1, <1>2, <1>4, <1>5 DEF IInv, Remembered, Format
<1>9. Guarded'
  BY <1>1, <1>2, <1>3, <1>4, <1>5 DEF IInv, Guarded, ReservedKept
<1>10. Accounted'
  BY <1>1, <1>2 DEF IInv, Accounted
<1> QED BY <1>2, <1>6, <1>7, <1>8, <1>9, <1>10 DEF IInv

LEMMA AllocStep == IInv /\ fs_alloc_block => IInv' /\ (step' = "allocUpdate" => handed' # handed)
<1> SUFFICES ASSUME IInv, fs_alloc_block
             PROVE  IInv' /\ (step' = "allocUpdate" => handed' # handed)
  OBVIOUS
<1> USE BlocksApart
<1>1. /\ step = "ready" /\ writing = NoBlock /\ Cache!Cached(BITMAP)
      /\ crashes' = crashes /\ kept' = kept /\ cut' = cut
  BY DEF fs_alloc_block, Cache!Quiet
<1>2. mem[BITMAP] \in Bitmaps /\ Seen = UsedIn(mem[BITMAP]) /\ Seen \subseteq Numbers
  BY <1>1, BitmapsAreData DEF IInv, StoreTypeOK, Seen
<1>3. CASE Free = {}
  <2>1. /\ step' = "panic" /\ handed' = handed /\ ever' = ever
        /\ mem' = mem /\ platter' = platter /\ marked' = marked /\ writing' = writing
    BY <1>3 DEF fs_alloc_block, store
  <2>2. /\ Seen' = Seen /\ Valid' = Valid /\ StoreTypeOK'
        /\ \A x : Cache!Cached(x)' <=> Cache!Cached(x)
    BY <2>1 DEF IInv, Seen, Valid, StoreTypeOK, Cache!Cached, Holds
  <2>3. TypeOK'
    BY <1>1, <2>1 DEF IInv, TypeOK, Steps
  <2>4. Synced' /\ Super'
    BY <1>1, <2>1, <2>2 DEF IInv, Synced, Unmarked, Super, Format
  <2>5. Remembered'
    BY <1>1, <2>1, <2>2 DEF IInv, Remembered, Format
  <2>6. Guarded'
    BY <1>1, <2>1, <2>2 DEF IInv, Guarded, ReservedKept
  <2>7. Accounted'
    BY <1>2, <1>3, <2>1, <2>2 DEF IInv, Accounted, Free
  <2> QED BY <2>1, <2>2, <2>3, <2>4, <2>5, <2>6, <2>7 DEF IInv
<1>4. CASE Free # {}
  <2> DEFINE r == Min(Free)
             S == UsedIn(mem[BITMAP]) \cup {r}
  <2>1. r \in Numbers /\ r \notin Seen
    <3>1. Free \in SUBSET Nat
      BY LayoutAssumption DEF Free, Numbers
    <3> QED BY <1>2, <1>4, <3>1, MinIn DEF Free
  <2>2. /\ step' = "allocUpdate" /\ handed' = handed \cup {r} /\ ever' = ever \cup {r}
        /\ Cache!Change(BITMAP, Halves(S))
    BY <1>4 DEF fs_alloc_block
  <2> HIDE DEF r
  <2>3. Halves(S) \in Bitmaps /\ UsedIn(Halves(S)) = S
    BY <1>2, <2>1, HalvesOfBits
  <2> HIDE DEF S
  <2>4. /\ StoreTypeOK' /\ platter' = platter /\ marked' = marked /\ writing' = writing
        /\ Cache!Cached(BITMAP)' /\ mem'[BITMAP] = Halves(S)
        /\ \A x \in Blocks : x # BITMAP => mem'[x] = mem[x]
    BY <2>2, <2>3, ChangeStep DEF IInv
  <2>5. Valid' = Valid /\ Seen' = Seen \cup {r}
    BY <1>2, <2>3, <2>4 DEF Valid, Seen, S
  <2>6. \A x \in Blocks : Cache!Cached(x)' <=> Cache!Cached(x)
    BY <1>1, <2>4 DEF Cache!Cached
  <2>7. r \notin handed /\ (~cut => r \notin Reserved)
    BY <1>1, <2>1 DEF IInv, Remembered, Guarded, Super
  <2>8. TypeOK'
    BY <1>1, <2>1, <2>2 DEF IInv, TypeOK, Steps
  <2>9. Synced'
    BY <1>1, <2>2, <2>4, <2>6 DEF IInv, Synced, Unmarked, StoreTypeOK
  <2>10. Super'
    BY <1>1, <2>2, <2>4, <2>5, <2>6 DEF IInv, Super, Format
  <2>11. Remembered'
    BY <1>1, <2>2, <2>4, <2>5 DEF IInv, Remembered, Format
  <2>12. Guarded'
    BY <1>1, <2>2, <2>4, <2>5, <2>7 DEF IInv, Guarded, ReservedKept
  <2>13. Accounted'
    BY <1>1, <2>2, <2>4, <2>5 DEF IInv, Accounted
  <2> QED BY <2>2, <2>4, <2>7, <2>8, <2>9, <2>10, <2>11, <2>12, <2>13 DEF IInv
<1> QED BY <1>3, <1>4

\* A crash before a flush has ended takes back what was handed out since the
\* last one, and nothing else.
LEMMA CrashStep == IInv /\ Crash => IInv'
<1> SUFFICES ASSUME IInv, Crash PROVE IInv'
  OBVIOUS
<1> USE BlocksApart
<1>1. /\ crashes < MaxCrashes /\ crashes' = crashes + 1 /\ step' = "init"
      /\ handed' = handed \cap kept /\ cut' = (cut \/ step = "formatFlush")
      /\ ever' = ever /\ kept' = kept
  BY DEF Crash
<1>2. /\ StoreTypeOK' /\ platter' = platter /\ marked' = {} /\ writing' = NoBlock
      /\ \A x \in Blocks : ~Cache!Cached(x)'
      /\ Seen' = UsedIn(platter[BITMAP])
  BY ForgetStep DEF Crash, IInv
<1>3. Valid' = Valid
  BY <1>2 DEF Valid
<1>4. TypeOK'
  BY <1>1, CrashesAssumption DEF IInv, TypeOK, Steps
<1>5. Synced' /\ Super'
  BY <1>1, <1>2 DEF Synced, Super, Format
<1>6. Remembered'
  BY <1>1, <1>2, <1>3 DEF IInv, Remembered, Format
<1>7. Guarded'
  BY <1>1, <1>2, <1>3 DEF IInv, Guarded, ReservedKept
<1>8. Accounted'
  BY <1>1, <1>2 DEF IInv, Accounted
<1> QED BY <1>2, <1>4, <1>5, <1>6, <1>7, <1>8 DEF IInv

LEMMA NextHolds == IInv /\ [Next]_vars => IInv' /\ (step' = "allocUpdate" => handed' # handed \/ UNCHANGED vars)
<1> SUFFICES ASSUME IInv, [Next]_vars
             PROVE  IInv' /\ (step' = "allocUpdate" => handed' # handed \/ UNCHANGED vars)
  OBVIOUS
<1>1. CASE UNCHANGED vars
  BY <1>1 DEF vars, store, IInv, TypeOK, StoreTypeOK, Holds, Synced, Super, Remembered, Guarded,
              Accounted, ReservedKept, Valid, Seen, Unmarked, Cache!Cached
<1>2. CASE fs_alloc_block
  BY <1>2, AllocStep
<1>3. CASE AllocUpdate
  <2>1. Goto("allocUpdate", "ready") /\ Cache!Mark(BITMAP) /\ UNCHANGED Ctl
    BY <1>3 DEF AllocUpdate, Ctl
  <2> QED BY <2>1, FormatMark DEF Goto
<1>4. CASE fs_init \/ fs_format
  BY <1>4, InitStep, FormatStep DEF fs_init, fs_format, Goto
<1>5. CASE block_get \/ UserWrites \/ write_buffer_to_disk
  BY <1>5, GetStep, UserStep, WriteStep DEF block_get, UserWrites, write_buffer_to_disk
<1>6. CASE w_flush \/ FlushReturns \/ Crash
  BY <1>6, FlushStarts, FlushEnds, CrashStep DEF w_flush, Goto, FlushReturns, Crash
<1> QED BY <1>1, <1>2, <1>3, <1>4, <1>5, <1>6 DEF Next

----------------------------------------------------------------------------
(* The theorems.                                                           *)

\* Steps, histories and the contents of memory and disk are of their types.
THEOREM TypeCorrect == Spec => [](TypeOK /\ StoreTypeOK)
<1>1. IInv => TypeOK /\ StoreTypeOK
  BY DEF IInv
<1> QED BY <1>1, InitHolds, NextHolds, PTL DEF Spec

\* fs_alloc_block hands out no block that somebody uses, whatever was evicted
\* and whenever the machine crashed.
THEOREM NoBlockTwice == Spec => NoDoubleAlloc
<1>1. IInv /\ [Next]_vars => [step' = "allocUpdate" => handed' # handed]_vars
  BY NextHolds
<1> QED BY <1>1, InitHolds, NextHolds, PTL DEF Spec, NoDoubleAlloc

\* Superblock, bitmap and directory are handed out only after a crash inside
\* the flush of fs_format.
THEOREM ReservedSafe == Spec => []ReservedKept
<1>1. IInv => ReservedKept
  BY DEF IInv, Guarded
<1> QED BY <1>1, InitHolds, NextHolds, PTL DEF Spec

\* "Disk Full!" leaves over exactly the recorded blocks that have no bit in
\* block 2, however many blocks the superblock records.
THEOREM FullIsBitmapFull == Spec => []FullLeaves
<1>1. IInv => FullLeaves
  <2> SUFFICES ASSUME IInv, step = "panic"
               PROVE  Recorded \ (ever \cup Reserved) = Recorded \ Numbers
    BY DEF FullLeaves
  <2>1. Numbers \subseteq ever \cup Reserved
    BY DEF IInv, Accounted
  <2>2. ever \subseteq Numbers /\ Reserved \subseteq Numbers
    BY LayoutAssumption DEF IInv, TypeOK, Reserved, Numbers
  <2> QED BY <2>1, <2>2
<1> QED BY <1>1, InitHolds, NextHolds, PTL DEF Spec
=============================================================================
