----------------------------- MODULE Filesystem -----------------------------
(***************************************************************************)
(* The filesystem layer of fs/filesystem.c: the superblock and the         *)
(* allocation bitmap, kept in blocks 1 and 2 of the abstract block store,  *)
(* which the block cache implements (BlockDevice!ImplementsStore).         *)
(*                                                                         *)
(* fs_init runs at boot with nothing else running.  Afterwards tasks call  *)
(* fs_alloc_block and the block words; none of these gives up the CPU, so  *)
(* step is where the one running is.  They get and evict any block, but    *)
(* only the filesystem is taken to store into blocks 1 and 2.              *)
(*                                                                         *)
(* The contents of half a block are the set of its one bits that matter.   *)
(***************************************************************************)
EXTENDS Integers, FiniteSetsExt

CONSTANTS
    BitmapBits,     \* bits searched: 8 * BLOCK_DATA_SIZE in the code
    FirstSector,    \* how many of them are in the first sector
    TotalBlocks,    \* blocks the superblock records: 10000 in the code
    FS_MAGIC,       \* what header.type holds in a superblock
    UserBlocks,     \* other blocks, which the block words use
    NoBlock,
    MaxCrashes      \* bound on the crashes

ASSUME LayoutAssumption == /\ BitmapBits \in Nat /\ FirstSector \in 0 .. BitmapBits
                           /\ BitmapBits > 5
                           /\ {1, 2} \cap UserBlocks = {}
ASSUME TotalAssumption == TotalBlocks \in Nat
ASSUME CrashesAssumption == MaxCrashes \in Nat
\* A block in memory is told apart from none, and a block from no block.
ASSUME MarkerAssumption ==
    LET bits == (0 .. BitmapBits - 1) \cup {FS_MAGIC}
    IN  /\ NoBlock \notin {1, 2} \cup UserBlocks
        /\ NoBlock \notin [lo : SUBSET bits, hi : SUBSET bits]

VARIABLES
    mem, marked, platter, writing,  \* the block store
    step,           \* what the running task does next
    crashes,
    handed,         \* history: blocks in use by those who asked for them
    ever,           \* history: blocks handed out at any time
    kept,           \* history: handed when a flush last completed
    cut             \* history: a crash fell into the flush of fs_format

store == <<mem, marked, platter, writing>>
vars  == <<store, step, crashes, handed, ever, kept, cut>>

SUPERBLOCK == 1
BITMAP     == 2
Reserved   == 0 .. 4                \* the byte 0x1F
Blocks     == {SUPERBLOCK, BITMAP} \cup UserBlocks
Numbers    == 0 .. BitmapBits - 1   \* the bits of block 2
Recorded   == 0 .. TotalBlocks - 1
Halves(S)  == [lo |-> {n \in S : n < FirstSector}, hi |-> {n \in S : n >= FirstSector}]
UsedIn(d)  == d.lo \cup d.hi
Formatted  == [lo |-> {FS_MAGIC}, hi |-> {}]

Cache == INSTANCE BlockStore
           WITH Contents <- {Halves(S) : S \in SUBSET Numbers} \cup {Formatted},
                Fresh <- Halves({})

Steps == {"init", "super", "superUpdate", "getBitmap", "bitmap", "bitmapUpdate", "formatFlush",
          "ready", "allocUpdate", "flush", "panic"}

Init ==
    /\ Cache!Init
    /\ step = "init"
    /\ crashes = 0
    /\ handed = {} /\ ever = {} /\ kept = {}
    /\ cut = FALSE

Goto(from, to) == step = from /\ step' = to
ghosts == <<handed, ever, kept, cut>>

----------------------------------------------------------------------------
(* fs_init and fs_format.  block_init has left the cache empty, so that    *)
(* the two blocks find a buffer without an eviction.                       *)

fs_init ==
    /\ step = "init"
    /\ Cache!Fill(SUPERBLOCK, {})
    /\ step' = IF FS_MAGIC \in platter[SUPERBLOCK].lo THEN "ready" ELSE "super"
    /\ UNCHANGED <<crashes, ghosts>>

MutSuperNoUpdate ==         \* mutant: the superblock is not marked
    /\ \/ Goto("super", "superUpdate") /\ Cache!Change(SUPERBLOCK, Formatted)
       \/ Goto("superUpdate", "getBitmap") /\ UNCHANGED store
       \/ Goto("getBitmap", "bitmap") /\ Cache!Fill(BITMAP, {})
       \/ Goto("bitmap", "bitmapUpdate") /\ Cache!Change(BITMAP, Halves(Reserved))
       \/ Goto("bitmapUpdate", "formatFlush") /\ Cache!Mark(BITMAP)
    /\ UNCHANGED <<crashes, ghosts>>

MutFormatKeepsBitmap ==     \* mutant: the bitmap is left as it was on the disk
    /\ \/ Goto("super", "superUpdate") /\ Cache!Change(SUPERBLOCK, Formatted)
       \/ Goto("superUpdate", "formatFlush") /\ Cache!Mark(SUPERBLOCK)
    /\ UNCHANGED <<crashes, ghosts>>

fs_format ==
    /\ \/ Goto("super", "superUpdate") /\ Cache!Change(SUPERBLOCK, Formatted)
       \/ Goto("superUpdate", "getBitmap") /\ Cache!Mark(SUPERBLOCK)
       \/ Goto("getBitmap", "bitmap") /\ Cache!Fill(BITMAP, {})
       \/ Goto("bitmap", "bitmapUpdate") /\ Cache!Change(BITMAP, Halves(Reserved))
       \/ Goto("bitmapUpdate", "formatFlush") /\ Cache!Mark(BITMAP)
    /\ UNCHANGED <<crashes, ghosts>>

----------------------------------------------------------------------------
(* block_get, the write-backs it and block_flush make, and block_flush.    *)

block_get ==
    /\ step = "ready"
    /\ \E b \in Blocks, gone \in SUBSET Blocks : Cache!Fill(b, gone)
    /\ UNCHANGED <<step, crashes, ghosts>>

UserWrites ==
    /\ step = "ready"
    /\ \E b \in UserBlocks : Cache!Mark(b)
    /\ UNCHANGED <<step, crashes, ghosts>>

write_buffer_to_disk ==
    /\ step \in {"ready", "formatFlush", "flush"}
    /\ \E b \in marked : Cache!WriteFirst(b) \/ Cache!WriteSecond(b)
    /\ UNCHANGED <<step, crashes, ghosts>>

w_flush ==
    /\ Goto("ready", "flush")
    /\ Cache!Quiet
    /\ UNCHANGED <<store, crashes, ghosts>>

FlushReturns ==
    /\ step \in {"formatFlush", "flush"}
    /\ marked = {}
    /\ step' = "ready"
    /\ kept' = handed
    /\ UNCHANGED <<store, crashes, handed, ever, cut>>

----------------------------------------------------------------------------
(* fs_alloc_block, once block_get has returned the bitmap.                 *)

Free == Numbers \ UsedIn(mem[BITMAP])

MutAllocSkips ==            \* mutant: the last bit is not looked at
    /\ step = "ready"
    /\ Cache!Quiet /\ Cache!Cached(BITMAP)
    /\ IF Free \subseteq {BitmapBits - 1}
       THEN step' = "panic" /\ UNCHANGED <<store, handed, ever>>
       ELSE LET r == Min(Free)
            IN  /\ Cache!Change(BITMAP, Halves(UsedIn(mem[BITMAP]) \cup {r}))
                /\ step' = "allocUpdate"
                /\ handed' = handed \cup {r}
                /\ ever' = ever \cup {r}
    /\ UNCHANGED <<crashes, kept, cut>>

\* The lowest bit that is 0 is set and its number returned; "Disk Full!"
\* halts the machine.
fs_alloc_block ==
    /\ step = "ready"
    /\ Cache!Quiet /\ Cache!Cached(BITMAP)
    /\ IF Free = {}
       THEN step' = "panic" /\ UNCHANGED <<store, handed, ever>>
       ELSE LET r == Min(Free)
            IN  /\ Cache!Change(BITMAP, Halves(UsedIn(mem[BITMAP]) \cup {r}))
                /\ step' = "allocUpdate"
                /\ handed' = handed \cup {r}
                /\ ever' = ever \cup {r}
    /\ UNCHANGED <<crashes, kept, cut>>

\* Its block_update: no flush follows.
AllocUpdate ==
    /\ Goto("allocUpdate", "ready")
    /\ Cache!Mark(BITMAP)
    /\ UNCHANGED <<crashes, ghosts>>

----------------------------------------------------------------------------
\* Power is lost and the kernel boots.  Those who were handed a block after
\* the last flush are gone with the machine.
Crash ==
    /\ crashes < MaxCrashes
    /\ crashes' = crashes + 1
    /\ Cache!Forget
    /\ step' = "init"
    /\ handed' = handed \cap kept
    /\ cut' = (cut \/ step = "formatFlush")
    /\ UNCHANGED <<ever, kept>>

Next == \/ fs_init \/ fs_format
        \/ block_get \/ UserWrites \/ write_buffer_to_disk \/ w_flush \/ FlushReturns
        \/ fs_alloc_block \/ AllocUpdate
        \/ Crash

Spec == Init /\ [][Next]_vars

----------------------------------------------------------------------------
(* Properties.                                                             *)

TypeOK == /\ step \in Steps
          /\ crashes \in 0 .. MaxCrashes
          /\ kept \subseteq ever /\ handed \subseteq ever /\ ever \subseteq Numbers

\* fs_alloc_block hands out no block that somebody uses: neither evictions of
\* the bitmap, nor a crash between its two sectors, nor the decision of
\* fs_init whether to format makes it forget a block that was handed out
\* before the last completed flush.  (What was handed out later, a crash does
\* forget: fs_alloc_block never flushes.)
NoDoubleAlloc == [][step' = "allocUpdate" => handed' # handed]_vars

\* Blocks 0 to 4, which hold the superblock, the bitmap and the directory,
\* are handed out only if a crash fell into the flush of fs_format, where the
\* superblock may be on the disk and the bitmap not: fs_init then finds a
\* valid superblock and does not format again.
ReservedKept == ever \cap Reserved # {} => cut

\* When "Disk Full!" stops the machine, all blocks with a bit in block 2 are
\* handed out or reserved, and the other blocks that the superblock records,
\* those whose bits would be in block 3, are lost to it: no crash, eviction or
\* format makes the search stop earlier, and it never goes further.
FullLeaves == step = "panic" => Recorded \ (ever \cup Reserved) = Recorded \ Numbers

----------------------------------------------------------------------------
(* What the comments of filesystem.c say.                                  *)

\* "Disk Full!": every block that the superblock counts and that is not
\* reserved was handed out.  ("Block 2-3: Allocation Bitmap" is to track up to
\* 16,384 blocks, and fs_format records 10000 of them.)
DiskFullTrue == step = "panic" => Recorded \subseteq ever \cup Reserved
=============================================================================
