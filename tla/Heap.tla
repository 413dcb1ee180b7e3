-------------------------------- MODULE Heap --------------------------------
(***************************************************************************)
(* The kernel heap of kernel/memory/heap.c: a list of blocks in address    *)
(* order, searched first fit, split on allocation and coalesced on free.   *)
(*                                                                         *)
(* Memory is counted in units of 16 bytes.  A heap_block_t is exactly two  *)
(* of them: the first holds size and next, the second magic and free.  A   *)
(* unit is therefore a link cell, a tag cell (which carries the magic      *)
(* number), or data; the tags of blocks that were merged away stay in      *)
(* memory, as they do in the code, until something overwrites them.  Other *)
(* contents of memory that nobody holds are not told apart (Junk).         *)
(* Request sizes are those for which size + 15 does not wrap; every caller *)
(* passes a constant.                                                      *)
(***************************************************************************)
EXTENDS Integers, FiniteSets, FiniteSetsExt, Functions

CONSTANTS Units,      \* HEAP_INITIAL_SIZE, in units
          MinBlock,   \* HEAP_MIN_BLOCK, in units
          UnitBytes,  \* 16
          Requests,   \* the sizes clients ask for, in bytes
          Aligns,     \* the alignments of kmalloc_aligned, in units
          Stamps,     \* what clients write into their memory
          Zero,       \* what kcalloc writes there
          Junk        \* bytes that were never written

ASSUME HeapAssumption ==
    /\ Units \in Nat /\ Units > 2
    /\ MinBlock \in Nat /\ UnitBytes \in Nat \ {0}
    /\ Requests \subseteq Nat \ {0}
    /\ Aligns \subseteq Nat \ {0}
    /\ Zero \notin Stamps /\ Junk \notin Stamps \cup {Zero}

VARIABLES mem,        \* the heap's memory, unit by unit
          heap_used,  \* in units
          chain,      \* the blocks that are in the list (history)
          pc,         \* where the call under way stands; "idle" when none is
          at,         \* the block its loop looks at
          req,        \* its arguments
          live,       \* the pointers clients hold, and what they have in them
          freed       \* pointers that clients have freed

vars == <<mem, heap_used, chain, pc, at, req, live, freed>>

HEADER == 2
NULL == -1
heap_head == 0
Addr == 0 .. Units - 1

Link(size, next) == [kind |-> "link", size |-> size, next |-> next]
Tag(free) == [kind |-> "tag", free |-> free]
Data(v) == [kind |-> "data", val |-> v]

\* size = (size + 15) & ~15, counted in units
Rounded(bytes) == (bytes + UnitBytes - 1) \div UnitBytes

Free(b) == mem[b + 1].kind = "tag" /\ mem[b + 1].free
Size(b) == mem[b].size
NextOf(b) == mem[b].next
HasMagic(b) == mem[b + 1].kind = "tag"

\* n units of m from address a on hold v
Filled(m, a, n, v) == [u \in Addr |-> IF u \in a .. a + n - 1 THEN Data(v) ELSE m[u]]

NoCall == [kind |-> "none", units |-> 0, use |-> 0, old |-> NULL, align |-> 1]

Init ==
    /\ mem = [u \in Addr |-> CASE u = heap_head -> Link(Units - HEADER, NULL)
                               [] u = heap_head + 1 -> Tag(TRUE)
                               [] OTHER -> Data(Junk)]
    /\ heap_used = 0
    /\ chain = {heap_head}
    /\ pc = "idle" /\ at = NULL /\ req = NoCall
    /\ live = << >> /\ freed = {}

-----------------------------------------------------------------------------
(* Calls.  Each starts the search of kmalloc or ends at once.              *)

Call(kind, units, use, old, align) ==
    /\ pc = "idle"
    /\ pc' = "search" /\ at' = heap_head
    /\ req' = [kind |-> kind, units |-> units, use |-> use, old |-> old, align |-> align]
    /\ UNCHANGED <<mem, heap_used, chain, live, freed>>

\* mutant: the request is cut to whole units
MutTruncates(bytes) == Call("malloc", bytes \div UnitBytes, Rounded(bytes), NULL, 1)

\* also krealloc(NULL, bytes)
kmalloc(bytes) == Call("malloc", Rounded(bytes), Rounded(bytes), NULL, 1)

kcalloc(count, bytes) ==
    Call("calloc", Rounded(count * bytes), Rounded(count * bytes), NULL, 1)

\* total = size + alignment + sizeof(void *), the last being half a unit
kmalloc_aligned(bytes, align) ==
    Call("aligned", Rounded(bytes + align * UnitBytes + UnitBytes \div 2),
         Rounded(bytes), NULL, align)

\* pointers of kmalloc_aligned are not the heap's own: nothing frees them
Own(p) == p = live[p].raw + HEADER

\* block->size >= new_size: the caller keeps its pointer.  (A block in use has its
\* magic number, see Owned and Tiling; krealloc(p, 0) is kfree.)
ReallocInPlace(p, bytes) ==
    /\ pc = "idle"
    /\ Size(p - HEADER) * UnitBytes >= bytes
    /\ live' = [live EXCEPT ![p].units = Rounded(bytes),
                            ![p].len = Min({@, Rounded(bytes)})]
    /\ UNCHANGED <<mem, heap_used, chain, pc, at, req, freed>>

ReallocMoves(p, bytes) ==
    /\ Size(p - HEADER) * UnitBytes < bytes
    /\ Call("realloc", Rounded(bytes), Rounded(bytes), p, 1)

krealloc(p, bytes) == Own(p) /\ (ReallocInPlace(p, bytes) \/ ReallocMoves(p, bytes))

-----------------------------------------------------------------------------
(* kmalloc's loop over the list.                                           *)

\* mutant: an exact fit is refused
MutFitsStrict(b) == Free(b) /\ Size(b) > req.units

Fits(b) == Free(b) /\ Size(b) >= req.units

Visit ==
    /\ pc = "search" /\ HasMagic(at) /\ ~Fits(at) /\ NextOf(at) # NULL
    /\ at' = NextOf(at)
    /\ UNCHANGED <<mem, heap_used, chain, pc, req, live, freed>>

\* the list is at its end, or the block looked at has lost its magic number
SearchFails ==
    /\ pc = "search"
    /\ HasMagic(at) => ~Fits(at) /\ NextOf(at) = NULL
    /\ pc' = IF HasMagic(at) THEN "oom" ELSE "corrupt"
    /\ UNCHANGED <<mem, heap_used, chain, at, req, live, freed>>

Splits(b, size) == Size(b) > size + HEADER + MinBlock

\* mutant: block->next is set before new_block->next is read from it
MutSplitOrder(b, size) ==
    IF ~Splits(b, size) THEN mem
    ELSE LET new_block == b + HEADER + size
         IN  [mem EXCEPT ![new_block] = Link(Size(b) - size - HEADER, new_block),
                         ![new_block + 1] = Tag(TRUE),
                         ![b] = Link(size, new_block)]

\* the memory after heap_split(b, size)
heap_split(b, size) ==
    IF ~Splits(b, size) THEN mem
    ELSE LET new_block == b + HEADER + size
         IN  [mem EXCEPT ![new_block] = Link(Size(b) - size - HEADER, NextOf(b)),
                         ![new_block + 1] = Tag(TRUE),
                         ![b] = Link(size, new_block)]

\* the memory and the list after kmalloc took block b
Taken(b) == [heap_split(b, req.units) EXCEPT ![b + 1] = Tag(FALSE)]

Grown(b) == IF Splits(b, req.units) THEN chain \cup {b + HEADER + req.units} ELSE chain

\* a client gets pointer p into block b, whose first len units hold stamp
Handed(p, b, stamp, len) ==
    [x \in DOMAIN live \cup {p} |->
        IF x = p THEN [raw |-> b, units |-> req.use, stamp |-> stamp, len |-> len]
                 ELSE live[x]]

\* mutant: the request is counted, not the block
MutTakeCountsRequest(b) ==
    /\ chain' = Grown(b)
    /\ heap_used' = heap_used + req.units
    /\ freed' = freed \ {b + HEADER}

\* kmalloc took block b; what its caller then does with it
Take(b) ==
    /\ chain' = Grown(b)
    /\ heap_used' = heap_used + Taken(b)[b].size
    /\ freed' = freed \ {b + HEADER}

TakeMalloc(b) ==
    /\ req.kind = "malloc"
    /\ mem' = Taken(b)
    /\ live' = Handed(b + HEADER, b, Junk, 0)
    /\ pc' = "idle" /\ at' = NULL /\ req' = NoCall

\* kcalloc clears what was asked for
TakeCalloc(b) ==
    /\ req.kind = "calloc"
    /\ mem' = Filled(Taken(b), b + HEADER, req.use, Zero)
    /\ live' = Handed(b + HEADER, b, Zero, req.use)
    /\ pc' = "idle" /\ at' = NULL /\ req' = NoCall

\* the first multiple of the alignment that leaves room for a pointer below it
AlignedUp(raw) == (raw \div req.align + 1) * req.align

\* kmalloc_aligned writes raw into the 8 bytes below the aligned address: a stale
\* tag there keeps its magic and gets the low byte of raw as its free byte
TakeAligned(b) ==
    LET p == AlignedUp(b + HEADER)
        m == Taken(b)
        below == IF m[p - 1].kind = "tag" THEN Tag(((b + HEADER) * UnitBytes) % 256 # 0)
                                         ELSE Data(Junk)
    IN  /\ req.kind = "aligned"
        /\ mem' = [m EXCEPT ![p - 1] = below]
        /\ live' = Handed(p, b, Junk, 0)
        /\ pc' = "idle" /\ at' = NULL /\ req' = NoCall

\* krealloc goes on with memcpy and kfree
TakeRealloc(b) ==
    /\ req.kind = "realloc"
    /\ mem' = Taken(b)
    /\ pc' = "move" /\ at' = b
    /\ UNCHANGED <<live, req>>

Found ==
    /\ pc = "search" /\ HasMagic(at) /\ Fits(at)
    /\ Take(at)
    /\ TakeMalloc(at) \/ TakeCalloc(at) \/ TakeAligned(at) \/ TakeRealloc(at)

-----------------------------------------------------------------------------
(* kfree.                                                                  *)

\* mutant: heap_coalesce looks only from the freed block on
MutReleaseForward(m, p) ==
    LET b == p - HEADER
    IN  /\ mem' = [u \in Addr |->
                     CASE u = b + 1 -> Tag(TRUE)
                       [] u \in p .. p + m[b].size - 1 /\ m[u].kind = "data" -> Data(Junk)
                       [] OTHER -> m[u]]
        /\ heap_used' = heap_used - m[b].size
        /\ pc' = "coalesce" /\ at' = b
        /\ freed' = freed \cup {p}

\* kfree(p) past its two checks, on memory m
Release(m, p) ==
    LET b == p - HEADER
    IN  /\ mem' = [u \in Addr |->
                     CASE u = b + 1 -> Tag(TRUE)
                       [] u \in p .. p + m[b].size - 1 /\ m[u].kind = "data" -> Data(Junk)
                       [] OTHER -> m[u]]
        /\ heap_used' = heap_used - m[b].size
        /\ pc' = "coalesce" /\ at' = heap_head
        /\ freed' = freed \cup {p}

Freed(p) ==
    /\ HasMagic(p - HEADER) /\ ~Free(p - HEADER)
    /\ Release(mem, p)
    /\ live' = [x \in DOMAIN live \ {p} |-> live[x]]
    /\ UNCHANGED <<chain, req>>

DoubleFree(p) ==
    /\ HasMagic(p - HEADER) /\ Free(p - HEADER)
    /\ UNCHANGED vars

InvalidFree(p) ==
    /\ ~HasMagic(p - HEADER)
    /\ pc' = "invalid"
    /\ UNCHANGED <<mem, heap_used, chain, at, req, live, freed>>

kfree(p) == pc = "idle" /\ (Freed(p) \/ DoubleFree(p) \/ InvalidFree(p))

\* mutant: the copy starts at the old block's header
MutCopiedHeader(old, new) ==
    [u \in Addr |-> IF u \in new .. new + Size(old - HEADER) - 1
                    THEN mem[old - HEADER + (u - new)] ELSE mem[u]]

\* memcpy of the old block's size and kfree of the old pointer
Copied(old, new) ==
    [u \in Addr |-> IF u \in new .. new + Size(old - HEADER) - 1
                    THEN mem[old + (u - new)] ELSE mem[u]]

Move ==
    LET old == req.old
        new == at + HEADER
    IN  /\ pc = "move"
        /\ Release(Copied(old, new), old)
        /\ live' = [x \in (DOMAIN live \ {old}) \cup {new} |->
                      IF x = new THEN [live[old] EXCEPT !.raw = at, !.units = req.use]
                                 ELSE live[x]]
        /\ req' = NoCall
        /\ UNCHANGED chain

\* heap_coalesce, one turn of its loop at a time
BothFree == Free(at) /\ Free(NextOf(at))

Merge ==
    /\ pc = "coalesce" /\ NextOf(at) # NULL /\ BothFree
    /\ mem' = [mem EXCEPT ![at] = Link(Size(at) + HEADER + Size(NextOf(at)),
                                       NextOf(NextOf(at))),
                         ![NextOf(at)] = Data(Junk)]
    /\ chain' = chain \ {NextOf(at)}
    /\ UNCHANGED <<heap_used, pc, at, req, live, freed>>

\* mutant: the scan starts over at a block it cannot merge
MutAdvanceRestarts ==
    /\ pc = "coalesce" /\ NextOf(at) # NULL /\ ~BothFree
    /\ at' = heap_head
    /\ UNCHANGED <<mem, heap_used, chain, pc, req, live, freed>>

Advance ==
    /\ pc = "coalesce" /\ NextOf(at) # NULL /\ ~BothFree
    /\ at' = NextOf(at)
    /\ UNCHANGED <<mem, heap_used, chain, pc, req, live, freed>>

Coalesced ==
    /\ pc = "coalesce" /\ NextOf(at) = NULL
    /\ pc' = "idle" /\ at' = NULL
    /\ UNCHANGED <<mem, heap_used, chain, req, live, freed>>

-----------------------------------------------------------------------------
\* a client fills what it asked for
Write(p, s) ==
    /\ pc = "idle"
    /\ mem' = Filled(mem, p, live[p].units, s)
    /\ live' = [live EXCEPT ![p].stamp = s, ![p].len = live[p].units]
    /\ UNCHANGED <<heap_used, chain, pc, at, req, freed>>

\* kernel_panic halts for ever
Panicked == pc \in {"oom", "corrupt", "invalid"}
Halted == Panicked /\ UNCHANGED vars

\* pointers a client may free for the second time
Stale == freed \ DOMAIN live

Client ==
    \/ \E bytes \in Requests :
          \/ kmalloc(bytes)
          \/ \E count \in {1, 2} : kcalloc(count, bytes)
          \/ \E align \in Aligns : kmalloc_aligned(bytes, align)
          \/ \E p \in DOMAIN live : krealloc(p, bytes)
    \/ \E p \in {q \in DOMAIN live : Own(q)} \cup Stale : kfree(p)
    \/ \E p \in DOMAIN live, s \in Stamps : Write(p, s)

\* the code of a call under way
Step == \/ Visit \/ SearchFails \/ Found
        \/ Move \/ Merge \/ Advance \/ Coalesced

Next == Client \/ Step \/ Halted

Spec == Init /\ [][Next]_vars /\ WF_vars(Step)

-----------------------------------------------------------------------------
(* Properties.                                                             *)

Cell == [kind : {"link"}, size : 0 .. Units, next : Addr \cup {NULL}]
        \cup [kind : {"tag"}, free : BOOLEAN]
        \cup [kind : {"data"}, val : Stamps \cup {Zero, Junk}]

Holding == [raw : Addr, units : Nat, stamp : Stamps \cup {Zero, Junk}, len : Nat]
Req == [kind : {"none", "malloc", "calloc", "aligned", "realloc"}, units : Nat, use : Nat,
        old : Addr \cup {NULL}, align : Nat \ {0}]

TypeOK ==
    /\ mem \in [Addr -> Cell]
    /\ heap_used \in Int
    /\ chain \subseteq Addr /\ freed \subseteq Addr
    /\ pc \in {"idle", "search", "move", "coalesce", "oom", "corrupt", "invalid"}
    /\ at \in Addr \cup {NULL}
    /\ req \in Req
    /\ DOMAIN live \subseteq Addr /\ live \in [DOMAIN live -> Holding]

Last(b) == b + HEADER + Size(b)

\* The blocks of the list tile the heap: each header is intact, each block ends
\* where the next one starts or at the end of the heap (heap_split, heap_coalesce).
Tiling ==
    /\ heap_head \in chain
    /\ \A b \in chain :
         /\ mem[b].kind = "link" /\ HasMagic(b)
         /\ Last(b) <= Units
         /\ NextOf(b) = IF Last(b) = Units THEN NULL ELSE Last(b)
         /\ NextOf(b) # NULL => NextOf(b) \in chain
         /\ \A c \in chain : b < c => Last(b) <= c

\* Every pointer a client holds lies in a block of its own that is in use and large
\* enough for what was asked, also after krealloc and for kmalloc_aligned.
Owned ==
    /\ \A p \in DOMAIN live :
         LET b == live[p].raw
         IN  /\ b \in chain /\ ~Free(b)
             /\ p >= b + HEADER /\ p + live[p].units <= Last(b)
    /\ \A p, q \in DOMAIN live : live[p].raw = live[q].raw => p = q

\* No heap operation changes what a client has written, and krealloc and kcalloc
\* hand over what they promise.
Intact == \A p \in DOMAIN live : \A u \in p .. p + live[p].len - 1 :
              mem[u] = Data(live[p].stamp)

\* heap_used, which is only ever added to and subtracted from, is the sum of the
\* sizes of the blocks in use.
UsedExact == heap_used = MapThenSumSet(Size, {b \in chain : ~Free(b)})

\* Between calls no memory is lost: what no client holds is one block again as
\* soon as nothing separates it, so a heap with no clients is whole.
NothingLost ==
    pc = "idle" =>
        /\ \A b \in chain : ~Free(b) => \E p \in DOMAIN live : live[p].raw = b
        /\ \A b \in chain : NextOf(b) # NULL => ~(Free(b) /\ Free(NextOf(b)))

\* kfree of a pointer freed before never gets past the test of block->free ("Double
\* free detected!") or the magic number, whatever was merged or reused since.
DoubleFreeCaught ==
    pc = "idle" => \A p \in Stale : HasMagic(p - HEADER) => Free(p - HEADER)

\* kmalloc panics only when no free block is large enough, and never because it
\* finds a damaged header.
PanicJustified ==
    /\ pc # "corrupt"
    /\ pc = "oom" => \A b \in chain : Free(b) => Size(b) < req.units

\* Every call returns or panics: neither list walk runs for ever.
CallsReturn == (pc \in {"search", "coalesce"}) ~> (pc = "idle" \/ Panicked)
====
