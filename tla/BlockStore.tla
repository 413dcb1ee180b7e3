----------------------------- MODULE BlockStore -----------------------------
(***************************************************************************)
(* What the block cache of fs/block_device.c promises the code above it: a *)
(* store of blocks with a copy in memory of some of them.  A block is got  *)
(* (read from the disk unless it is in memory), changed in memory, marked  *)
(* by UPDATE and written back some time later, one sector after the other; *)
(* a clean copy may be dropped to make room for another block.  A crash    *)
(* keeps the disk as it is at that moment and forgets the memory.          *)
(*                                                                         *)
(* Which block is dropped, and when and in which order marked blocks are   *)
(* written back, is left open.                                             *)
(***************************************************************************)
CONSTANTS Blocks,
          Contents,     \* data of a block: a record with fields lo and hi
          Fresh,        \* those of a fresh disk
          NoBlock       \* neither a block nor data

VARIABLES
    mem,            \* the copy in memory, or NoBlock
    marked,         \* blocks marked by UPDATE and not written back yet
    platter,        \* the two sectors of each block on the disk
    writing         \* block whose first sector is on the disk, or NoBlock

storeVars == <<writing, marked, platter, mem>>

Quiet == writing = NoBlock

Cached(b) == mem[b] # NoBlock

\* b is read; some other copies go.
Fill(b, gone) ==
    /\ Quiet
    /\ UNCHANGED <<writing, marked, platter>>
    /\ ~Cached(b)
    /\ gone \cap marked = {}
    /\ mem' = [x \in Blocks |-> IF x = b THEN platter[b]
                                ELSE IF x \in gone THEN NoBlock ELSE mem[x]]

\* A store into the copy of b.
Change(b, data) ==
    /\ Quiet
    /\ UNCHANGED <<writing, marked, platter>>
    /\ Cached(b)
    /\ mem' = [mem EXCEPT ![b] = data]

Mark(b) ==
    /\ Quiet
    /\ Cached(b)
    /\ marked' = marked \cup {b}
    /\ UNCHANGED <<mem, platter, writing>>

WriteFirst(b) ==
    /\ Quiet
    /\ b \in marked
    /\ platter' = [platter EXCEPT ![b].lo = mem[b].lo]
    /\ writing' = b
    /\ UNCHANGED <<mem, marked>>

WriteSecond(b) ==
    /\ writing = b
    /\ platter' = [platter EXCEPT ![b].hi = mem[b].hi]
    /\ marked' = marked \ {b}
    /\ writing' = NoBlock
    /\ UNCHANGED mem

Forget ==
    /\ mem' = [b \in Blocks |-> NoBlock]
    /\ marked' = {}
    /\ writing' = NoBlock
    /\ UNCHANGED platter

Init ==
    /\ mem = [b \in Blocks |-> NoBlock]
    /\ marked = {}
    /\ platter = [b \in Blocks |-> Fresh]
    /\ writing = NoBlock

Next ==
    \/ UNCHANGED storeVars     \* a copy is found, or nobody uses the store
    \/ \E b \in Blocks :
         \/ Fill(b, {x \in Blocks : mem'[x] = NoBlock})
         \/ Change(b, mem'[b]) /\ mem'[b] \in Contents
         \/ Mark(b) \/ WriteFirst(b) \/ WriteSecond(b)
    \/ Forget

Spec == Init /\ [][Next]_storeVars
=============================================================================
