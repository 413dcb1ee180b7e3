---------------------------- MODULE BlockDevice ----------------------------
(***************************************************************************)
(* The block cache of fs/block_device.c over the ATA disk, and its users:  *)
(* the Forth words BLOCK, LOAD, UPDATE and FLUSH and the block editor      *)
(* (vm/core/forth.c), run by several tasks.                                *)
(*                                                                         *)
(* A block is its header's crc and the two halves of its data, one per     *)
(* sector; the header travels with the first sector.  A task gives up the  *)
(* CPU only between two words of the terminal and while its editor waits   *)
(* for a key, so words of different tasks interleave but one cache         *)
(* operation runs alone: job is that operation, stopped between two sector *)
(* transfers, where the machine may crash.                                 *)
(***************************************************************************)
EXTENDS Integers, FiniteSets

CONSTANTS
    Blocks,         \* numbers of the blocks in use
    NoBlock,        \* not a block number
    NUM_BUFFERS,
    Values,         \* contents of half a block
    Zero,           \* the contents of a fresh disk, one of Values
    Clients,        \* tasks
    Nobody,         \* not a client
    MaxTicks,       \* bound on kernel_ticks
    MaxStores,      \* bound on the stores made into buffers
    MaxCrashes      \* bound on the crashes

ASSUME BlocksAssumption == NoBlock \notin Blocks
ASSUME MarkerAssumption == NoBlock \notin [lo : Values, hi : Values]
ASSUME BuffersAssumption == NUM_BUFFERS \in Nat \ {0}
ASSUME ValuesAssumption == Zero \in Values
ASSUME ClientsAssumption == Nobody \notin Clients
ASSUME BoundsAssumption == /\ MaxTicks \in Nat
                           /\ MaxStores \in Nat
                           /\ MaxCrashes \in Nat

VARIABLES
    buffers,                \* the array buffers[NUM_BUFFERS]
    most_recent_buffer,
    disk,                   \* the two sectors of each block
    kernel_ticks,
    job,                    \* the cache operation that is under way
    handle,                 \* buffer whose address a client holds, and for which block
    mode,                   \* what a client is doing
    stores, crashes,        \* counted against the bounds
    promised,               \* history: the data UPDATE vouches for, per block
    versions,               \* history: every complete data ever sent to disk, per block
    typed,                  \* history: what the client's editor was made to contain
    disturbed               \* history: what others did to the client's open editor

cache  == <<buffers, most_recent_buffer>>
ghosts == <<promised, versions, typed, disturbed>>
vars   == <<cache, disk, kernel_ticks, job, handle, mode, stores, crashes, ghosts>>

Indices == 0 .. NUM_BUFFERS - 1
Data    == [lo : Values, hi : Values]
NoCrc   == <<>>                             \* 0: a header.crc that was never set
Crcs    == {NoCrc} \cup (Values \X Values)
Block   == [crc : Crcs, lo : Values, hi : Values]
NoBuf   == -1

DataOf(blk) == [lo |-> blk.lo, hi |-> blk.hi]
FreshBlock  == [crc |-> NoCrc, lo |-> Zero, hi |-> Zero]

FreshData   == DataOf(FreshBlock)

\* The array after memset; block number and contents of an invalid buffer
\* are never looked at.
EmptyBuffer == [block_num |-> NoBlock, dirty |-> FALSE, valid |-> FALSE,
                last_used |-> 0, block |-> FreshBlock]
NoHandle    == [buf |-> NoBuf, blk |-> NoBlock]
Idle        == [op |-> "idle", who |-> Nobody, blk |-> NoBlock, idx |-> 0, stage |-> "none"]

Buffer      == [block_num : Blocks \cup {NoBlock}, dirty : BOOLEAN, valid : BOOLEAN,
                last_used : 0 .. MaxTicks, block : Block]
Job         == [op : {"idle", "get", "flush"}, who : Clients \cup {Nobody},
                blk : Blocks \cup {NoBlock}, idx : Indices,
                stage : {"none", "sector0", "sector1", "load"}]

TypeOK ==
    /\ buffers \in [Indices -> Buffer]
    /\ most_recent_buffer \in Indices
    /\ disk \in [Blocks -> Block]
    /\ kernel_ticks \in 0 .. MaxTicks
    /\ job \in Job
    /\ handle \in [Clients -> [buf : Indices \cup {NoBuf}, blk : Blocks \cup {NoBlock}]]
    /\ mode \in [Clients -> {"words", "edit", "saving"}]
    /\ stores \in 0 .. MaxStores
    /\ crashes \in 0 .. MaxCrashes
    /\ promised \in [Blocks -> Data]
    /\ versions \in [Blocks -> SUBSET Data]
    /\ typed \in [Clients -> Data]
    /\ disturbed \in [Clients -> SUBSET {"get", "store"}]

Init ==
    /\ buffers = [i \in Indices |-> EmptyBuffer]
    /\ most_recent_buffer = 0
    /\ disk = [b \in Blocks |-> FreshBlock]
    /\ kernel_ticks = 0
    /\ job = Idle
    /\ handle = [c \in Clients |-> NoHandle]
    /\ mode = [c \in Clients |-> "words"]
    /\ stores = 0
    /\ crashes = 0
    /\ promised = [b \in Blocks |-> FreshData]
    /\ versions = [b \in Blocks |-> {FreshData}]
    /\ typed = [c \in Clients |-> FreshData]
    /\ disturbed = [c \in Clients |-> {}]

----------------------------------------------------------------------------
(* Writing back: write_buffer_to_disk, one action per sector.              *)

Lowest(S) == CHOOSE i \in S : \A j \in S : i <= j

\* CRC-32 of the data, taken to tell any two data apart.
calculate_crc32(data) == <<data.lo, data.hi>>

NeedsWrite(bufs, i) == bufs[i].valid /\ bufs[i].dirty

\* Where block_flush's loop over bufs stops next, from buffer i on.
Flushed(c, bufs, i) ==
    LET todo == {j \in Indices : j >= i /\ NeedsWrite(bufs, j)}
    IN  IF todo = {} THEN Idle
        ELSE [op |-> "flush", who |-> c, blk |-> NoBlock, stage |-> "sector0",
              idx |-> Lowest(todo)]

\* The operation j under way next; if it is none, an editor that was saving
\* returns and drops its address.
Proceed(j, c, modes) ==
    LET leaves == j = Idle /\ modes[c] = "saving"
    IN  /\ job' = j
        /\ mode' = [modes EXCEPT ![c] = IF leaves THEN "words" ELSE @]
        /\ handle' = [handle EXCEPT ![c] = IF leaves THEN NoHandle ELSE @]
        /\ typed' = [typed EXCEPT ![c] = IF leaves THEN FreshData ELSE @]
        /\ disturbed' = [disturbed EXCEPT ![c] = IF leaves THEN {} ELSE @]

MutSecondFirst(n, d, blk) ==        \* mutant: the second sector is written first
    IF n = 1 THEN [d EXCEPT !.crc = blk.crc, !.lo = blk.lo] ELSE [d EXCEPT !.hi = blk.hi]

\* The disk's block d after ata_write_sector of the n-th sector of blk.
Transfer(n, d, blk) ==
    IF n = 0 THEN [d EXCEPT !.crc = blk.crc, !.lo = blk.lo] ELSE [d EXCEPT !.hi = blk.hi]

WriteSector0 ==
    /\ job.stage = "sector0"
    /\ LET i   == job.idx
           b   == buffers[i].block_num
           blk == [buffers[i].block EXCEPT !.crc = calculate_crc32(DataOf(buffers[i].block))]
       IN  /\ buffers' = [buffers EXCEPT ![i].block = blk]
           /\ disk' = [disk EXCEPT ![b] = Transfer(0, @, blk)]
           /\ versions' = [versions EXCEPT ![b] = @ \cup {DataOf(blk)}]
    /\ job' = [job EXCEPT !.stage = "sector1"]
    /\ UNCHANGED <<most_recent_buffer, kernel_ticks, handle, mode, stores, crashes,
                   promised, typed, disturbed>>

\* Then block_get goes on to read, block_flush to its next buffer.
WriteSector1 ==
    /\ job.stage = "sector1"
    /\ LET i    == job.idx
           b    == buffers[i].block_num
           bufs == [buffers EXCEPT ![i].dirty = FALSE]
       IN  /\ disk' = [disk EXCEPT ![b] = Transfer(1, @, buffers[i].block)]
           /\ buffers' = bufs
           /\ IF job.op = "get"
                THEN Proceed([job EXCEPT !.stage = "load"], job.who, mode)
                ELSE Proceed(Flushed(job.who, bufs, i + 1), job.who, mode)
    /\ UNCHANGED <<most_recent_buffer, kernel_ticks, stores, crashes, promised, versions>>

----------------------------------------------------------------------------
(* block_get                                                               *)

MutRecentOnly(b) ==                 \* mutant: only the last buffer is looked at
    {i \in {most_recent_buffer} : buffers[i].valid /\ buffers[i].block_num = b}

Hits(b)  == {i \in Indices : buffers[i].valid /\ buffers[i].block_num = b}
Invalid  == {i \in Indices : ~buffers[i].valid}
Oldest   == {i \in Indices : \A j \in Indices : buffers[i].last_used <= buffers[j].last_used}

Victim == Lowest(IF Invalid # {} THEN Invalid ELSE Oldest)

\* What block_get warns about when it has read a block.
CrcMismatch(blk) == blk.crc # NoCrc /\ blk.crc # calculate_crc32(DataOf(blk))

\* block_get returns buffer i, which holds blk, to c, doing m.
Return(c, i, b, blk, m) ==
    /\ most_recent_buffer' = i
    /\ handle' = [handle EXCEPT ![c] = [buf |-> i, blk |-> b]]
    /\ typed' = [typed EXCEPT ![c] = IF m = "edit" THEN DataOf(blk) ELSE @]
    /\ disturbed' = [d \in Clients |-> IF d = c THEN {}
                                     ELSE IF mode[d] = "edit" THEN disturbed[d] \cup {"get"}
                                     ELSE disturbed[d]]

MutHit(c, b, m) ==                  \* mutant: a hit does not count as a use
    /\ Return(c, Lowest(Hits(b)), b, buffers[Lowest(Hits(b))].block, m)
    /\ UNCHANGED <<buffers, job>>

Hit(c, b, m) ==
    LET i == Lowest(Hits(b))
    IN  /\ buffers' = [buffers EXCEPT ![i].last_used = kernel_ticks]
        /\ Return(c, i, b, buffers[i].block, m)
        /\ UNCHANGED job

MutDirtyDropped(c, b) ==            \* mutant: the victim is not written back
    /\ job' = [op |-> "get", who |-> c, blk |-> b, idx |-> Victim, stage |-> "load"]
    /\ UNCHANGED <<cache, handle, typed, disturbed>>

Miss(c, b) ==
    /\ job' = [op |-> "get", who |-> c, blk |-> b, idx |-> Victim,
               stage |-> IF NeedsWrite(buffers, Victim) THEN "sector0" ELSE "load"]
    /\ UNCHANGED <<cache, handle, typed, disturbed>>

\* Called by c to do m with the block.
BlockGet(c, b, m) ==
    /\ job = Idle
    /\ IF Hits(b) # {} THEN Hit(c, b, m) ELSE Miss(c, b)
    /\ mode' = [mode EXCEPT ![c] = m]
    /\ UNCHANGED <<disk, kernel_ticks, stores, crashes, promised, versions>>

\* Reads both sectors, takes the buffer over and returns it.
LoadBlock ==
    /\ job.stage = "load"
    /\ buffers' = [buffers EXCEPT
                     ![job.idx] = [block_num |-> job.blk, valid |-> TRUE, dirty |-> FALSE,
                                   last_used |-> kernel_ticks, block |-> disk[job.blk]]]
    /\ Return(job.who, job.idx, job.blk, disk[job.blk], mode[job.who])
    /\ job' = Idle
    /\ UNCHANGED <<disk, kernel_ticks, mode, stores, crashes, promised, versions>>

----------------------------------------------------------------------------
(* Modifying blocks                                                        *)

\* block_update marks the buffer block_get returned last, whoever asked.
Updated ==
    LET i == most_recent_buffer
    IN  IF buffers[i].valid THEN [buffers EXCEPT ![i].dirty = TRUE] ELSE buffers

Vouched ==
    LET i == most_recent_buffer
    IN  IF buffers[i].valid
        THEN [promised EXCEPT ![buffers[i].block_num] = DataOf(buffers[i].block)]
        ELSE promised

\* Stores through an address BLOCK or the editor holds change what is in that
\* buffer now; any number of bytes until the task gives up the CPU.
StoreInto(c, data) ==
    /\ job = Idle
    /\ handle[c].buf # NoBuf
    /\ stores < MaxStores
    /\ LET i == handle[c].buf
       IN  /\ buffers' = [buffers EXCEPT ![i].block = [@ EXCEPT !.lo = data.lo, !.hi = data.hi]]
           /\ promised' = IF NeedsWrite(buffers, i)
                          THEN [promised EXCEPT ![buffers[i].block_num] = data]
                          ELSE promised
    /\ stores' = stores + 1
    /\ disturbed' = [d \in Clients |->
                       IF d # c /\ mode[d] = "edit" /\ handle[d].buf = handle[c].buf
                       THEN disturbed[d] \cup {"store"} ELSE disturbed[d]]
    /\ UNCHANGED <<most_recent_buffer, disk, kernel_ticks, job, handle, mode, crashes,
                   versions>>

----------------------------------------------------------------------------
(* The clients                                                             *)

\* BLOCK pushes the address; LOAD reads the text out of it at once.
w_block(c, b) == mode[c] = "words" /\ BlockGet(c, b, "words")

\* ! and C! into the block.
w_store(c, data) == mode[c] = "words" /\ StoreInto(c, data) /\ UNCHANGED typed

w_update(c) ==
    /\ mode[c] = "words"
    /\ job = Idle
    /\ buffers' = Updated
    /\ promised' = Vouched
    /\ UNCHANGED <<most_recent_buffer, disk, kernel_ticks, job, handle, mode, stores,
                   crashes, versions, typed, disturbed>>

w_flush(c) ==
    /\ mode[c] = "words"
    /\ job = Idle
    /\ Proceed(Flushed(c, buffers, 0), c, mode)
    /\ UNCHANGED <<cache, disk, kernel_ticks, stores, crashes, promised, versions>>

\* run_editor: gets the block once, then waits for keys (and yields).
run_editor(c, b) == mode[c] = "words" /\ BlockGet(c, b, "edit")

EditKey(c, data) ==
    /\ mode[c] = "edit"
    /\ StoreInto(c, data)
    /\ typed' = [typed EXCEPT ![c] = data]

MutEscNoUpdate(c) ==                \* mutant: ESC flushes without UPDATE
    /\ mode[c] = "edit"
    /\ job = Idle
    /\ Proceed(Flushed(c, buffers, 0), c, [mode EXCEPT ![c] = "saving"])
    /\ UNCHANGED <<cache, disk, kernel_ticks, stores, crashes, promised, versions>>

\* ESC: block_update, then block_flush.
EditEsc(c) ==
    /\ mode[c] = "edit"
    /\ job = Idle
    /\ buffers' = Updated
    /\ promised' = Vouched
    /\ Proceed(Flushed(c, Updated, 0), c, [mode EXCEPT ![c] = "saving"])
    /\ UNCHANGED <<most_recent_buffer, disk, kernel_ticks, stores, crashes, versions>>

timer_handler_c ==
    /\ kernel_ticks < MaxTicks
    /\ kernel_ticks' = kernel_ticks + 1
    /\ UNCHANGED <<cache, disk, job, handle, mode, stores, crashes, ghosts>>

\* Power is lost and the kernel boots again: block_init.
Crash ==
    /\ crashes < MaxCrashes
    /\ crashes' = crashes + 1
    /\ buffers' = [i \in Indices |-> EmptyBuffer]
    /\ most_recent_buffer' = 0
    /\ kernel_ticks' = 0
    /\ job' = Idle
    /\ handle' = [c \in Clients |-> NoHandle]
    /\ mode' = [c \in Clients |-> "words"]
    /\ promised' = [b \in Blocks |-> DataOf(disk[b])]
    /\ typed' = [c \in Clients |-> FreshData]
    /\ disturbed' = [c \in Clients |-> {}]
    /\ UNCHANGED <<disk, stores, versions>>

----------------------------------------------------------------------------
Next ==
    \/ \E c \in Clients, b \in Blocks : w_block(c, b) \/ run_editor(c, b)
    \/ \E c \in Clients, data \in Data : w_store(c, data) \/ EditKey(c, data)
    \/ \E c \in Clients : w_update(c) \/ w_flush(c) \/ EditEsc(c)
    \/ WriteSector0 \/ WriteSector1 \/ LoadBlock
    \/ timer_handler_c
    \/ Crash

Spec == Init /\ [][Next]_vars

----------------------------------------------------------------------------
(* Properties                                                              *)

\* block_get never loads a block into a second buffer, so all holders of a
\* block see the same copy.
NoDuplicate ==
    \A i, j \in Indices :
        /\ buffers[i].valid /\ buffers[j].valid
        /\ buffers[i].block_num = buffers[j].block_num
        => i = j

\* What UPDATE vouched for is either still in a dirty buffer or on the disk:
\* neither eviction in block_get nor block_flush loses it.
PromiseKept ==
    \A b \in Blocks :
        LET dirty == {i \in Hits(b) : buffers[i].dirty}
        IN  IF dirty = {} THEN DataOf(disk[b]) = promised[b]
            ELSE \A i \in dirty : DataOf(buffers[i].block) = promised[b]

\* A crash between the two sector writes of write_buffer_to_disk cannot go
\* unnoticed: a block that block_get loads without a CRC warning holds data
\* that were once written as a whole.  (It relies on the header, whose crc is
\* 0 only on a fresh disk, going out with the first sector.)
TornDetected ==
    \A b \in Blocks : ~CrcMismatch(disk[b]) => DataOf(disk[b]) \in versions[b]

\* block_get takes the buffer that was got last as its victim, while its
\* address has just been handed out, only if all buffers were last used in
\* one and the same timer tick.
RecentEvictedOnlyOnTie ==
    [][\A i, j \in Indices :
          /\ job = Idle /\ job'.op = "get" /\ i = job'.idx
          /\ i = most_recent_buffer /\ buffers[i].valid
          => buffers[j].last_used = buffers[i].last_used]_vars

\* When the editor returns after ESC, the disk holds what was typed, provided
\* no other task called block_get or stored into the block meanwhile.
EditorSaves ==
    [][\A c \in Clients :
          /\ mode[c] \in {"edit", "saving"} /\ mode'[c] = "words" /\ crashes' = crashes
          /\ disturbed[c] = {}
          => DataOf(disk'[handle[c].blk]) = typed[c]]_vars

\* The same although other tasks call block_get, as the editor's banner
\* promises ("Press ESC to Save/Exit"): only their stores into the very block
\* being edited are excused.
EscSaves ==
    [][\A c \in Clients :
          /\ mode[c] \in {"edit", "saving"} /\ mode'[c] = "words" /\ crashes' = crashes
          /\ "store" \notin disturbed[c]
          => DataOf(disk'[handle[c].blk]) = typed[c]]_vars

----------------------------------------------------------------------------
(* The abstract store that the cache implements.                           *)

Holds(bufs, i, b) == bufs[i].valid /\ bufs[i].block_num = b

\* The copies of blocks in bufs, and the blocks marked there.
Copies(bufs) ==
    [b \in Blocks |-> IF \E i \in Indices : Holds(bufs, i, b)
                      THEN DataOf(bufs[CHOOSE i \in Indices : Holds(bufs, i, b)].block)
                      ELSE NoBlock]
Marks(bufs) == {bufs[i].block_num : i \in {j \in Indices : NeedsWrite(bufs, j)}}

\* The data on the disk d, and the block that job j has written the half of.
Sectors(d)           == [b \in Blocks |-> DataOf(d[b])]
HalfWritten(j, bufs) == IF j.stage = "sector1" THEN bufs[j.idx].block_num ELSE NoBlock

Store == INSTANCE BlockStore
           WITH Contents <- Data, Fresh <- FreshData,
                mem     <- Copies(buffers),
                marked  <- Marks(buffers),
                platter <- Sectors(disk),
                writing <- HalfWritten(job, buffers)

\* To the code above it (the filesystem) the cache is the abstract store:
\* whatever hits, evictions and flushes do, a block is found with the data
\* stored last, only blocks marked by UPDATE are written, first sector first,
\* and nothing but a crash discards a marked copy.
ImplementsStore == Store!Spec
=============================================================================
