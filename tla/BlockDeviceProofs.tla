------------------------- MODULE BlockDeviceProofs -------------------------
(***************************************************************************)
(* The block cache for every number of blocks, buffers and tasks.  The     *)
(* inductive invariant says what the cache operation under way has already *)
(* established (JobInv), that a block's crc on disk names data written as  *)
(* a whole (DiskInv), and that the buffer got last was used last (Recent). *)
(***************************************************************************)
EXTENDS BlockDevice, WellFoundedInduction, NaturalsInduction, TLAPS

BufInv == \A i \in Indices : buffers[i].valid => buffers[i].block_num \in Blocks

JobInv ==
    /\ job = Idle \/ (job.op \in {"get", "flush"} /\ job.who \in Clients /\ job.stage # "none")
    /\ job.op = "get" =>
         /\ job.blk \in Blocks
         /\ \A i \in Indices : ~(buffers[i].valid /\ buffers[i].block_num = job.blk)
    /\ job.stage \in {"sector0", "sector1"} => NeedsWrite(buffers, job.idx)
    /\ job.stage = "load" => job.op = "get" /\ ~NeedsWrite(buffers, job.idx)
    /\ job.stage = "sector1" =>
         LET blk == buffers[job.idx].block
             b   == buffers[job.idx].block_num
         IN  /\ disk[b].crc = calculate_crc32(DataOf(blk))
             /\ disk[b].lo = blk.lo
             /\ DataOf(blk) \in versions[b]

DiskInv ==
    \A b \in Blocks :
        IF disk[b].crc = NoCrc THEN DataOf(disk[b]) \in versions[b]
        ELSE [lo |-> disk[b].crc[1], hi |-> disk[b].crc[2]] \in versions[b]

Recent ==
    /\ \A i \in Indices : buffers[i].last_used <= kernel_ticks
    /\ buffers[most_recent_buffer].valid =>
          \A i \in Indices : buffers[i].last_used <= buffers[most_recent_buffer].last_used

\* PromiseKept, buffer by buffer and block by block.
Kept ==
    /\ \A i \in Indices : NeedsWrite(buffers, i) =>
          DataOf(buffers[i].block) = promised[buffers[i].block_num]
    /\ \A b \in Blocks :
          \/ \E i \in Indices : NeedsWrite(buffers, i) /\ buffers[i].block_num = b
          \/ DataOf(disk[b]) = promised[b]

IInv == TypeOK /\ BufInv /\ JobInv /\ NoDuplicate /\ Kept /\ DiskInv /\ Recent

----------------------------------------------------------------------------
(* Searching.                                                              *)

LEMMA LowestIn ==
  ASSUME NEW S \in SUBSET Nat, S # {}
  PROVE  Lowest(S) \in S /\ \A j \in S : Lowest(S) <= j
<1> DEFINE R == {ss \in Nat \X Nat : ss[1] < ss[2]}
<1>1. IsWellFoundedOn(R, Nat)
  BY NatLessThanWellFounded, Zenon DEF OpToRel
<1>2. PICK x \in S : \A y \in S : ~(<<y, x>> \in R)
  <2> HIDE DEF R
  <2> QED BY <1>1, WFMin
<1>3. \A y \in S : x <= y
  <2> SUFFICES ASSUME NEW y \in S, y < x PROVE FALSE
    OBVIOUS
  <2>1. <<y, x>> \in Nat \X Nat /\ <<y, x>>[1] = y /\ <<y, x>>[2] = x
    OBVIOUS
  <2>2. <<y, x>> \in R
    BY <2>1
  <2> QED BY <1>2, <2>2
<1> QED BY <1>3 DEF Lowest

LEMMA HitIn ==
  ASSUME NEW b, Hits(b) # {}
  PROVE  Lowest(Hits(b)) \in Hits(b)
  BY LowestIn DEF Hits, Indices

LEMMA VictimIn ==
  ASSUME TypeOK
  PROVE  /\ Victim \in Indices
         /\ Invalid # {} => ~buffers[Victim].valid
         /\ Invalid = {} => Victim \in Oldest
<1>1. CASE Invalid # {}
  <2>1. Lowest(Invalid) \in Invalid
    BY <1>1, LowestIn DEF Invalid, Indices
  <2> QED BY <1>1, <2>1 DEF Victim, Invalid
<1>2. CASE Invalid = {}
  <2> DEFINE T == {buffers[i].last_used : i \in Indices}
  <2>1. T \in SUBSET Nat /\ T # {}
    BY BuffersAssumption, BoundsAssumption DEF TypeOK, Buffer, Indices
  <2>2. Lowest(T) \in T /\ \A n \in T : Lowest(T) <= n
    <3> HIDE DEF T
    <3> QED BY <2>1, LowestIn
  <2>3. PICK i \in Indices : buffers[i].last_used = Lowest(T)
    BY <2>2
  <2>4. i \in Oldest
    BY <2>2, <2>3 DEF Oldest
  <2>5. Lowest(Oldest) \in Oldest
    BY <2>4, LowestIn DEF Oldest, Indices
  <2> QED BY <1>2, <2>5 DEF Victim, Oldest
<1> QED BY <1>1, <1>2

LEMMA FlushedIs ==
  ASSUME NEW c, NEW bufs, NEW k \in Int
  PROVE  \/ Flushed(c, bufs, k) = Idle
         \/ \E i \in Indices :
              /\ NeedsWrite(bufs, i)
              /\ Flushed(c, bufs, k) = [op |-> "flush", who |-> c, blk |-> NoBlock,
                                        stage |-> "sector0", idx |-> i]
<1> DEFINE todo == {j \in Indices : j >= k /\ NeedsWrite(bufs, j)}
<1>1. CASE todo = {}
  BY <1>1 DEF Flushed
<1>2. CASE todo # {}
  <2>1. todo \in SUBSET Nat
    BY DEF Indices
  <2>2. Lowest(todo) \in todo
    <3> HIDE DEF todo
    <3> QED BY <1>2, <2>1, LowestIn
  <2>3. Flushed(c, bufs, k) = [op |-> "flush", who |-> c, blk |-> NoBlock,
                               stage |-> "sector0", idx |-> Lowest(todo)]
    BY <1>2 DEF Flushed
  <2> QED BY <2>2, <2>3
<1> QED BY <1>1, <1>2

\* What is true of the operation that Proceed or block_flush starts.
LEMMA FlushJob ==
  ASSUME NEW c \in Clients, NEW bufs, NEW k \in Int, NEW j, j = Flushed(c, bufs, k)
  PROVE  /\ j \in Job
         /\ j = Idle \/ (j.op = "flush" /\ j.who = c /\ j.stage = "sector0")
         /\ j.op # "get" /\ j.stage \notin {"sector1", "load"}
         /\ j.stage = "sector0" => NeedsWrite(bufs, j.idx)
<1>1. CASE j = Idle
  BY <1>1, BuffersAssumption DEF Idle, Job, Indices
<1>2. CASE j # Idle
  <2>1. PICK i \in Indices :
          /\ NeedsWrite(bufs, i)
          /\ j = [op |-> "flush", who |-> c, blk |-> NoBlock, stage |-> "sector0", idx |-> i]
    BY <1>2, FlushedIs
  <2> QED BY <2>1 DEF Job
<1> QED BY <1>1, <1>2

LEMMA KeptPromise ==
  ASSUME Kept PROVE PromiseKept
  BY DEF Kept, PromiseKept, Hits, NeedsWrite

LEMMA DataFacts ==
  /\ \A blk \in Block : DataOf(blk) \in Data /\ calculate_crc32(DataOf(blk)) \in Crcs \ {NoCrc}
  /\ FreshBlock \in Block /\ FreshData \in Data
  BY ValuesAssumption DEF DataOf, Data, calculate_crc32, Crcs, NoCrc, Block, FreshBlock, FreshData

\* What an assignment to one field of a buffer leaves alone.
LEMMA SetBlock ==
  ASSUME NEW r \in Buffer, NEW blk \in Block
  PROVE  LET s == [r EXCEPT !.block = blk]
         IN  /\ s \in Buffer /\ s.block = blk
             /\ s.block_num = r.block_num /\ s.valid = r.valid
             /\ s.dirty = r.dirty /\ s.last_used = r.last_used
  BY DEF Buffer

LEMMA SetDirty ==
  ASSUME NEW r \in Buffer, NEW d \in BOOLEAN
  PROVE  LET s == [r EXCEPT !.dirty = d]
         IN  /\ s \in Buffer /\ s.dirty = d
             /\ s.block_num = r.block_num /\ s.valid = r.valid
             /\ s.block = r.block /\ s.last_used = r.last_used
  BY DEF Buffer

LEMMA SetUsed ==
  ASSUME NEW r \in Buffer, NEW t \in 0 .. MaxTicks
  PROVE  LET s == [r EXCEPT !.last_used = t]
         IN  /\ s \in Buffer /\ s.last_used = t
             /\ s.block_num = r.block_num /\ s.valid = r.valid
             /\ s.dirty = r.dirty /\ s.block = r.block
  BY DEF Buffer

----------------------------------------------------------------------------
(* The inductive invariant, one lemma per action.                          *)

LEMMA InitInv == Init => IInv
<1> SUFFICES ASSUME Init PROVE IInv
  OBVIOUS
<1> USE DEF Init
<1>1. TypeOK
  BY DataFacts, BuffersAssumption, BoundsAssumption
  DEF TypeOK, Buffer, EmptyBuffer, Job, Idle, NoHandle, NoBuf, Indices
<1>2. BufInv /\ NoDuplicate
  BY DEF BufInv, NoDuplicate, EmptyBuffer
<1>3. JobInv
  BY DEF JobInv, Idle
<1>4. Kept
  BY DEF Kept, FreshData, NeedsWrite, EmptyBuffer
<1>5. DiskInv
  BY DEF DiskInv, FreshBlock, FreshData
<1>6. Recent
  BY BuffersAssumption DEF Recent, EmptyBuffer, Indices
<1> QED BY <1>1, <1>2, <1>3, <1>4, <1>5, <1>6 DEF IInv

LEMMA StutterInv == IInv /\ UNCHANGED vars => IInv'
  BY DEF IInv, vars, cache, ghosts, TypeOK, BufInv, JobInv, NoDuplicate, Kept, DiskInv, Recent,
         NeedsWrite

LEMMA WriteSector0Inv ==
  ASSUME IInv, WriteSector0 PROVE IInv'
<1> DEFINE i == job.idx
           b == buffers[i].block_num
           blk == [buffers[i].block EXCEPT !.crc = calculate_crc32(DataOf(buffers[i].block))]
<1> USE DEF IInv
<1>1. /\ i \in Indices /\ NeedsWrite(buffers, i) /\ b \in Blocks
      /\ buffers[i].block \in Block /\ disk[b] \in Block
  BY DEF WriteSector0, TypeOK, JobInv, BufInv, NeedsWrite, Job, Buffer
<1>2. /\ blk \in Block /\ DataOf(blk) = DataOf(buffers[i].block)
      /\ blk.crc = <<blk.lo, blk.hi>> /\ blk.crc # NoCrc
      /\ blk.lo = buffers[i].block.lo /\ blk.hi = buffers[i].block.hi
  BY <1>1, DataFacts DEF Block, DataOf, calculate_crc32, NoCrc
<1>3. Transfer(0, disk[b], blk) = [crc |-> blk.crc, lo |-> blk.lo, hi |-> disk[b].hi]
  BY <1>1, <1>2 DEF Transfer, Block
<1>4. /\ buffers' = [buffers EXCEPT ![i].block = blk]
      /\ disk' = [disk EXCEPT ![b] = Transfer(0, disk[b], blk)]
      /\ versions' = [versions EXCEPT ![b] = versions[b] \cup {DataOf(blk)}]
      /\ job' = [job EXCEPT !.stage = "sector1"]
      /\ job.stage = "sector0"
      /\ UNCHANGED <<most_recent_buffer, kernel_ticks, handle, mode, stores, crashes,
                     promised, typed, disturbed>>
  BY DEF WriteSector0
<1> HIDE DEF i, b, blk
<1>5. TypeOK'
  <2>1. Transfer(0, disk[b], blk) \in Block
    BY <1>1, <1>2, <1>3 DEF Block
  <2>2. DataOf(blk) \in Data
    BY <1>2, DataFacts
  <2>3. buffers' \in [Indices -> Buffer]
    <3>1. [buffers[i] EXCEPT !.block = blk] \in Buffer
      BY <1>1, <1>2, SetBlock DEF TypeOK
    <3> QED BY <1>1, <1>4, <3>1 DEF TypeOK
  <2>4. job' \in Job
    BY <1>4 DEF TypeOK, Job
  <2> QED BY <1>1, <1>4, <2>1, <2>2, <2>3, <2>4 DEF TypeOK
<1>6. \A k \in Indices :
        /\ buffers'[k] = IF k = i THEN [buffers[i] EXCEPT !.block = blk] ELSE buffers[k]
        /\ buffers'[k].block_num = buffers[k].block_num
        /\ buffers'[k].valid = buffers[k].valid
        /\ buffers'[k].dirty = buffers[k].dirty
        /\ buffers'[k].last_used = buffers[k].last_used
        /\ DataOf(buffers'[k].block) = DataOf(buffers[k].block)
  BY <1>1, <1>2, <1>4 DEF TypeOK, Buffer
<1>7. BufInv' /\ NoDuplicate' /\ Recent'
  BY <1>4, <1>6 DEF BufInv, NoDuplicate, Recent, TypeOK
<1>8. JobInv'
  <2>1. /\ job'.op = job.op /\ job'.who = job.who /\ job'.blk = job.blk /\ job'.idx = i
        /\ job'.stage = "sector1" /\ job # Idle
    BY <1>4 DEF TypeOK, Job, Idle, i
  <2>2. buffers'[i].block = blk /\ buffers'[i].block_num = b
    BY <1>1, <1>4 DEF TypeOK, Buffer, b
  <2>3. disk'[b].crc = blk.crc /\ disk'[b].lo = blk.lo /\ DataOf(blk) \in versions'[b]
    BY <1>1, <1>3, <1>4 DEF TypeOK
  <2>4. NeedsWrite(buffers', i)
    BY <1>1, <1>6 DEF NeedsWrite
  <2>5. blk.crc = calculate_crc32(DataOf(blk))
    BY <1>2 DEF calculate_crc32, DataOf
  <2> QED BY <1>6, <2>1, <2>2, <2>3, <2>4, <2>5 DEF JobInv
<1>9. Kept'
  <2>1. \A k \in Indices : NeedsWrite(buffers', k) <=> NeedsWrite(buffers, k)
    BY <1>6 DEF NeedsWrite
  <2>2. NeedsWrite(buffers', i) /\ buffers'[i].block_num = b
    BY <1>1, <1>6, <2>1 DEF b
  <2>3. \A c \in Blocks \ {b} : disk'[c] = disk[c]
    BY <1>4 DEF TypeOK
  <2>4. ASSUME NEW k \in Indices, NeedsWrite(buffers', k)
        PROVE  DataOf(buffers'[k].block) = promised'[buffers'[k].block_num]
    BY <1>4, <1>6, <2>1, <2>4 DEF Kept
  <2>5. ASSUME NEW c \in Blocks
        PROVE  \/ \E k \in Indices : NeedsWrite(buffers', k) /\ buffers'[k].block_num = c
               \/ DataOf(disk'[c]) = promised'[c]
    <3>1. CASE c = b
      BY <1>1, <2>2, <3>1
    <3>2. CASE c # b
      <4>1. disk'[c] = disk[c] /\ promised'[c] = promised[c]
        BY <1>4, <2>3, <3>2
      <4> QED BY <1>6, <4>1 DEF Kept, NeedsWrite
    <3> QED BY <3>1, <3>2
  <2> QED BY <2>4, <2>5 DEF Kept
<1>10. DiskInv'
  <2> SUFFICES ASSUME NEW c \in Blocks
               PROVE  IF disk'[c].crc = NoCrc THEN DataOf(disk'[c]) \in versions'[c]
                      ELSE [lo |-> disk'[c].crc[1], hi |-> disk'[c].crc[2]] \in versions'[c]
    BY DEF DiskInv
  <2>1. CASE c = b
    <3>1. disk'[c].crc = blk.crc /\ DataOf(blk) \in versions'[c]
      BY <1>1, <1>3, <1>4, <2>1 DEF TypeOK
    <3>2. DataOf(blk) = [lo |-> blk.crc[1], hi |-> blk.crc[2]]
      BY <1>2 DEF DataOf
    <3> QED BY <1>2, <3>1, <3>2
  <2>2. CASE c # b
    BY <1>4, <2>2 DEF DiskInv, TypeOK
  <2> QED BY <2>1, <2>2
<1> QED BY <1>5, <1>7, <1>8, <1>9, <1>10

\* What Proceed assigns has its type.
LEMMA ProceedType ==
  ASSUME TypeOK, NEW c \in Clients, NEW j \in Job,
         NEW modes \in [Clients -> {"words", "edit", "saving"}], Proceed(j, c, modes)
  PROVE  /\ job' = j
         /\ mode' \in [Clients -> {"words", "edit", "saving"}]
         /\ handle' \in [Clients -> [buf : Indices \cup {NoBuf}, blk : Blocks \cup {NoBlock}]]
         /\ typed' \in [Clients -> Data]
         /\ disturbed' \in [Clients -> SUBSET {"get", "store"}]
<1>1. NoHandle \in [buf : Indices \cup {NoBuf}, blk : Blocks \cup {NoBlock}]
  BY DEF NoHandle
<1> QED BY <1>1, DataFacts DEF TypeOK, Proceed

LEMMA WriteSector1Inv ==
  ASSUME IInv, WriteSector1 PROVE IInv'
<1> DEFINE i == job.idx
           b == buffers[i].block_num
           blk == buffers[i].block
           bufs == [buffers EXCEPT ![i].dirty = FALSE]
           j == IF job.op = "get" THEN [job EXCEPT !.stage = "load"]
                ELSE Flushed(job.who, bufs, i + 1)
<1> USE DEF IInv
<1>1. /\ i \in Indices /\ NeedsWrite(buffers, i) /\ b \in Blocks
      /\ blk \in Block /\ disk[b] \in Block /\ job.who \in Clients
      /\ disk[b].crc = calculate_crc32(DataOf(blk)) /\ disk[b].lo = blk.lo
      /\ DataOf(blk) \in versions[b] /\ job # Idle /\ buffers[i] \in Buffer
  BY DEF WriteSector1, TypeOK, JobInv, BufInv, NeedsWrite, Job, Buffer, Idle
<1>2. Transfer(1, disk[b], blk) = [crc |-> disk[b].crc, lo |-> blk.lo, hi |-> blk.hi]
  BY <1>1 DEF Transfer, Block
<1>3. /\ buffers' = bufs
      /\ disk' = [disk EXCEPT ![b] = Transfer(1, disk[b], blk)]
      /\ Proceed(j, job.who, mode)
      /\ job.stage = "sector1"
      /\ UNCHANGED <<most_recent_buffer, kernel_ticks, stores, crashes, promised, versions>>
  BY DEF WriteSector1
<1>4. /\ j \in Job
      /\ job.op = "get" => /\ j.op = "get" /\ j.who = job.who /\ j.blk = job.blk
                           /\ j.idx = i /\ j.stage = "load"
      /\ job.op # "get" => /\ j = Idle \/ (j.op = "flush" /\ j.who = job.who /\ j.stage = "sector0")
                           /\ j.op # "get" /\ j.stage \notin {"sector1", "load"}
                           /\ j.stage = "sector0" => NeedsWrite(bufs, j.idx)
  <2>1. CASE job.op = "get"
    BY <1>3, <2>1 DEF TypeOK, Job
  <2>2. CASE job.op # "get"
    <3>1. j = Flushed(job.who, bufs, i + 1) /\ i + 1 \in Int
      BY <1>1, <2>2 DEF Indices
    <3> QED BY <1>1, <2>2, <3>1, FlushJob
  <2> QED BY <2>1, <2>2
<1>5. \A k \in Indices :
        /\ bufs[k].block_num = buffers[k].block_num
        /\ bufs[k].valid = buffers[k].valid
        /\ bufs[k].dirty = IF k = i THEN FALSE ELSE buffers[k].dirty
        /\ bufs[k].last_used = buffers[k].last_used
        /\ bufs[k].block = buffers[k].block
  <2> TAKE k \in Indices
  <2>1. buffers[k] \in Buffer /\ bufs[k] = IF k = i THEN [buffers[i] EXCEPT !.dirty = FALSE] ELSE buffers[k]
    BY <1>1 DEF TypeOK
  <2> HIDE DEF bufs, i
  <2>2. CASE k = i
    <3>1. bufs[k] = [buffers[k] EXCEPT !.dirty = FALSE]
      BY <2>1, <2>2
    <3>2. FALSE \in BOOLEAN
      OBVIOUS
    <3> QED BY <2>1, <2>2, <3>1, <3>2, SetDirty
  <2>3. CASE k # i
    BY <2>1, <2>3
  <2> QED BY <2>2, <2>3
<1>6. bufs \in [Indices -> Buffer]
  <2>1. [buffers[i] EXCEPT !.dirty = FALSE] \in Buffer
    BY <1>1, SetDirty
  <2> QED BY <1>1, <2>1 DEF TypeOK
<1> HIDE DEF i, b, blk, bufs, j
<1>7. TypeOK'
  <2>1. Transfer(1, disk[b], blk) \in Block
    BY <1>1, <1>2 DEF Block
  <2>2. /\ job' = j
        /\ mode' \in [Clients -> {"words", "edit", "saving"}]
        /\ handle' \in [Clients -> [buf : Indices \cup {NoBuf}, blk : Blocks \cup {NoBlock}]]
        /\ typed' \in [Clients -> Data]
        /\ disturbed' \in [Clients -> SUBSET {"get", "store"}]
    <3>1. mode \in [Clients -> {"words", "edit", "saving"}]
      BY DEF TypeOK
    <3> QED BY <1>1, <1>3, <1>4, <3>1, ProceedType
  <2>3. disk' \in [Blocks -> Block]
    BY <1>1, <1>3, <2>1 DEF TypeOK
  <2>4. buffers' \in [Indices -> Buffer] /\ job' \in Job
    BY <1>3, <1>4, <1>6, <2>2
  <2> QED BY <1>3, <2>2, <2>3, <2>4 DEF TypeOK
<1>8. BufInv' /\ NoDuplicate' /\ Recent'
  <2>1. BufInv'
    BY <1>3, <1>5 DEF BufInv
  <2>2. NoDuplicate'
    <3> SUFFICES ASSUME NEW k \in Indices, NEW l \in Indices,
                        bufs[k].valid, bufs[l].valid, bufs[k].block_num = bufs[l].block_num
                 PROVE  k = l
      BY <1>3 DEF NoDuplicate
    <3>1. /\ buffers[k].valid /\ buffers[l].valid
          /\ buffers[k].block_num = buffers[l].block_num
      BY <1>5
    <3> QED BY <3>1 DEF NoDuplicate
  <2>3. Recent'
    BY <1>3, <1>5 DEF Recent, TypeOK
  <2> QED BY <2>1, <2>2, <2>3
<1>9. JobInv'
  <2>1. job' = j
    BY <1>3 DEF Proceed
  <2>2. CASE job.op = "get"
    <3>1. ~NeedsWrite(buffers', i)
      BY <1>1, <1>3, <1>5 DEF NeedsWrite
    <3>2. job.blk \in Blocks
          /\ \A k \in Indices : ~(buffers[k].valid /\ buffers[k].block_num = job.blk)
      BY <2>2 DEF JobInv
    <3>3. \A k \in Indices : ~(buffers'[k].valid /\ buffers'[k].block_num = job.blk)
      BY <1>3, <1>5, <3>2
    <3> QED BY <1>1, <1>4, <2>1, <2>2, <3>1, <3>2, <3>3 DEF JobInv
  <2>3. CASE job.op # "get"
    BY <1>1, <1>3, <1>4, <2>1, <2>3 DEF JobInv
  <2> QED BY <2>2, <2>3
<1>10. DataOf(disk'[b]) = DataOf(blk)
  <2>1. disk'[b] = Transfer(1, disk[b], blk)
    BY <1>1, <1>3 DEF TypeOK
  <2> QED BY <1>2, <2>1 DEF DataOf
<1>11. Kept'
  <2>1. \A c \in Blocks \ {b} : disk'[c] = disk[c]
    BY <1>3 DEF TypeOK
  <2>2. ASSUME NEW k \in Indices, buffers'[k].valid /\ buffers'[k].dirty
        PROVE  DataOf(buffers'[k].block) = promised'[buffers'[k].block_num]
    BY <1>3, <1>5, <2>2 DEF Kept, NeedsWrite
  <2>3. ASSUME NEW c \in Blocks,
               \A k \in Indices : ~(buffers'[k].valid /\ buffers'[k].dirty /\ buffers'[k].block_num = c)
        PROVE  DataOf(disk'[c]) = promised'[c]
    <3>1. CASE c = b
      <4>1. DataOf(blk) = promised[b]
        BY <1>1 DEF Kept, b, blk
      <4> QED BY <1>3, <1>10, <3>1, <4>1
    <3>2. CASE c # b
      <4>1. \A k \in Indices : ~(buffers[k].valid /\ buffers[k].dirty /\ buffers[k].block_num = c)
        BY <1>1, <1>3, <1>5, <2>3, <3>2 DEF b
      <4>2. DataOf(disk[c]) = promised[c]
        BY <4>1 DEF Kept, NeedsWrite
      <4> QED BY <1>3, <2>1, <3>2, <4>2
    <3> QED BY <3>1, <3>2
  <2> QED BY <2>2, <2>3 DEF Kept, NeedsWrite
<1>12. DiskInv'
  <2> SUFFICES ASSUME NEW c \in Blocks
               PROVE  IF disk'[c].crc = NoCrc THEN DataOf(disk'[c]) \in versions'[c]
                      ELSE [lo |-> disk'[c].crc[1], hi |-> disk'[c].crc[2]] \in versions'[c]
    BY DEF DiskInv
  <2>1. CASE c = b
    <3>1. disk'[c].crc = disk[c].crc
      BY <1>1, <1>2, <1>3, <2>1 DEF TypeOK
    <3>2. DataOf(disk'[c]) \in versions'[c]
      BY <1>1, <1>3, <1>10, <2>1
    <3> QED BY <1>3, <3>1, <3>2 DEF DiskInv
  <2>2. CASE c # b
    BY <1>3, <2>2 DEF DiskInv, TypeOK
  <2> QED BY <2>1, <2>2
<1> QED BY <1>7, <1>8, <1>9, <1>11, <1>12

\* What Return assigns has its type.
LEMMA ReturnType ==
  ASSUME TypeOK, NEW c \in Clients, NEW i \in Indices, NEW b \in Blocks, NEW blk \in Block,
         NEW m, Return(c, i, b, blk, m)
  PROVE  /\ most_recent_buffer' = i
         /\ handle' \in [Clients -> [buf : Indices \cup {NoBuf}, blk : Blocks \cup {NoBlock}]]
         /\ typed' \in [Clients -> Data]
         /\ disturbed' \in [Clients -> SUBSET {"get", "store"}]
<1>1. DataOf(blk) \in Data
  BY DataFacts
<1>2. typed' \in [Clients -> Data]
  BY <1>1 DEF TypeOK, Return
<1>3. [buf |-> i, blk |-> b] \in [buf : Indices \cup {NoBuf}, blk : Blocks \cup {NoBlock}]
  OBVIOUS
<1>4. handle' \in [Clients -> [buf : Indices \cup {NoBuf}, blk : Blocks \cup {NoBlock}]]
  BY <1>3 DEF TypeOK, Return
<1>5. disturbed' \in [Clients -> SUBSET {"get", "store"}]
  BY DEF TypeOK, Return
<1> QED BY <1>2, <1>4, <1>5 DEF Return

\* A hit makes its buffer the one used last, and changes nothing else of it.
LEMMA HitInv ==
  ASSUME IInv, NEW c \in Clients, NEW b \in Blocks, NEW m \in {"words", "edit"},
         job = Idle, Hits(b) # {}, Hit(c, b, m),
         mode' = [mode EXCEPT ![c] = m],
         UNCHANGED <<disk, kernel_ticks, stores, crashes, promised, versions>>
  PROVE  IInv'
<1> DEFINE i == Lowest(Hits(b))
<1> USE DEF IInv
<1>1. i \in Indices /\ buffers[i].valid /\ buffers[i] \in Buffer /\ buffers[i].block \in Block
  <2>1. i \in Indices /\ buffers[i].valid
    BY HitIn DEF Hits
  <2> HIDE DEF i
  <2> QED BY <2>1 DEF TypeOK, Buffer
<1>2. /\ buffers' = [buffers EXCEPT ![i].last_used = kernel_ticks]
      /\ Return(c, i, b, buffers[i].block, m)
      /\ job' = job
  BY DEF Hit
<1> HIDE DEF i
<1>3. kernel_ticks \in 0 .. MaxTicks
  BY DEF TypeOK
<1>4. buffers' \in [Indices -> Buffer]
  <2>1. [buffers[i] EXCEPT !.last_used = kernel_ticks] \in Buffer
    BY <1>1, <1>3, SetUsed
  <2> QED BY <1>1, <1>2, <2>1 DEF TypeOK
<1>5. /\ most_recent_buffer' = i
      /\ handle' \in [Clients -> [buf : Indices \cup {NoBuf}, blk : Blocks \cup {NoBlock}]]
      /\ typed' \in [Clients -> Data]
      /\ disturbed' \in [Clients -> SUBSET {"get", "store"}]
  BY <1>1, <1>2, ReturnType
<1>6. TypeOK'
  <2>1. mode' \in [Clients -> {"words", "edit", "saving"}]
    BY DEF TypeOK
  <2> QED BY <1>1, <1>2, <1>4, <1>5, <2>1 DEF TypeOK
<1>7. \A k \in Indices :
        /\ buffers'[k].block_num = buffers[k].block_num
        /\ buffers'[k].valid = buffers[k].valid
        /\ buffers'[k].dirty = buffers[k].dirty
        /\ buffers'[k].last_used = IF k = i THEN kernel_ticks ELSE buffers[k].last_used
        /\ buffers'[k].block = buffers[k].block
  <2> TAKE k \in Indices
  <2>1. buffers[k] \in Buffer
    BY DEF TypeOK
  <2>2. CASE k = i
    <3>1. buffers'[k] = [buffers[k] EXCEPT !.last_used = kernel_ticks]
      BY <1>1, <1>2, <2>2 DEF TypeOK
    <3> QED BY <1>3, <2>1, <2>2, <3>1, SetUsed
  <2>3. CASE k # i
    <3>1. buffers'[k] = buffers[k]
      BY <1>1, <1>2, <2>3 DEF TypeOK
    <3> QED BY <2>3, <3>1
  <2> QED BY <2>2, <2>3
<1>8. BufInv' /\ NoDuplicate'
  BY <1>7 DEF BufInv, NoDuplicate
<1>9. JobInv'
  BY <1>2, <1>7 DEF JobInv, Idle
<1>10. Kept' /\ DiskInv'
  BY <1>7 DEF Kept, DiskInv, NeedsWrite
<1>11. Recent'
  <2>1. \A k \in Indices : buffers'[k].last_used <= kernel_ticks
    BY <1>3, <1>7 DEF Recent
  <2> QED BY <1>1, <1>5, <1>7, <2>1 DEF Recent
<1> QED BY <1>6, <1>8, <1>9, <1>10, <1>11

LEMMA MissInv ==
  ASSUME IInv, NEW c \in Clients, NEW b \in Blocks, NEW m \in {"words", "edit"},
         job = Idle, Hits(b) = {}, Miss(c, b),
         mode' = [mode EXCEPT ![c] = m],
         UNCHANGED <<disk, kernel_ticks, stores, crashes, promised, versions>>
  PROVE  IInv'
<1> USE DEF IInv
<1>1. Victim \in Indices
  BY VictimIn
<1>2. /\ job' = [op |-> "get", who |-> c, blk |-> b, idx |-> Victim,
                 stage |-> IF NeedsWrite(buffers, Victim) THEN "sector0" ELSE "load"]
      /\ UNCHANGED <<buffers, most_recent_buffer, handle, typed, disturbed>>
  BY DEF Miss, cache
<1> DEFINE v == Victim
<1>3. /\ job'.op = "get" /\ job'.who = c /\ job'.blk = b /\ job'.idx = v
      /\ job'.stage \in {"sector0", "load"} /\ (job'.stage = "sector0" <=> NeedsWrite(buffers, v))
      /\ job' \in Job
  BY <1>1, <1>2 DEF Job
<1> HIDE DEF v
<1>4. TypeOK'
  BY <1>2, <1>3 DEF TypeOK
<1>5. JobInv'
  <2>1. \A k \in Indices : ~(buffers[k].valid /\ buffers[k].block_num = b)
    BY DEF Hits
  <2> QED BY <1>2, <1>3, <2>1 DEF JobInv
<1> QED BY <1>2, <1>4, <1>5 DEF BufInv, NoDuplicate, Kept, DiskInv, Recent, NeedsWrite

LEMMA BlockGetInv ==
  ASSUME IInv, NEW c \in Clients, NEW b \in Blocks, NEW m \in {"words", "edit"},
         BlockGet(c, b, m)
  PROVE  IInv'
<1>1. /\ job = Idle
      /\ mode' = [mode EXCEPT ![c] = m]
      /\ UNCHANGED <<disk, kernel_ticks, stores, crashes, promised, versions>>
      /\ (Hits(b) # {} /\ Hit(c, b, m)) \/ (Hits(b) = {} /\ Miss(c, b))
  BY DEF BlockGet
<1>2. CASE Hits(b) # {} /\ Hit(c, b, m)
  BY <1>1, <1>2, HitInv
<1>3. CASE Hits(b) = {} /\ Miss(c, b)
  BY <1>1, <1>3, MissInv
<1> QED BY <1>1, <1>2, <1>3

LEMMA LoadBlockInv ==
  ASSUME IInv, LoadBlock PROVE IInv'
<1> DEFINE i == job.idx
           b == job.blk
           new == [block_num |-> b, valid |-> TRUE, dirty |-> FALSE,
                   last_used |-> kernel_ticks, block |-> disk[b]]
<1> USE DEF IInv
<1>1. /\ i \in Indices /\ b \in Blocks /\ job.who \in Clients /\ ~NeedsWrite(buffers, i)
      /\ \A k \in Indices : ~(buffers[k].valid /\ buffers[k].block_num = b)
      /\ disk[b] \in Block
  BY DEF LoadBlock, TypeOK, JobInv, Job, Idle
<1>2. /\ buffers' = [buffers EXCEPT ![i] = new]
      /\ Return(job.who, i, b, disk[b], mode[job.who])
      /\ job' = Idle
      /\ UNCHANGED <<disk, kernel_ticks, mode, stores, crashes, promised, versions>>
  BY DEF LoadBlock
<1>3. /\ new \in Buffer /\ new.block_num = b /\ new.valid = TRUE /\ new.dirty = FALSE
      /\ new.last_used = kernel_ticks /\ new.block = disk[b]
  BY <1>1 DEF TypeOK, Buffer
<1> HIDE DEF i, b, new
<1>4. \A k \in Indices : buffers'[k] = IF k = i THEN new ELSE buffers[k]
  BY <1>1, <1>2 DEF TypeOK
<1>5. /\ most_recent_buffer' = i
      /\ handle' \in [Clients -> [buf : Indices \cup {NoBuf}, blk : Blocks \cup {NoBlock}]]
      /\ typed' \in [Clients -> Data]
      /\ disturbed' \in [Clients -> SUBSET {"get", "store"}]
  BY <1>1, <1>2, ReturnType
<1>6. TypeOK'
  <2>1. buffers' \in [Indices -> Buffer]
    BY <1>1, <1>2, <1>3 DEF TypeOK
  <2>2. job' \in Job
    BY <1>2, BuffersAssumption DEF Idle, Job, Indices
  <2> QED BY <1>1, <1>2, <1>5, <2>1, <2>2 DEF TypeOK
<1>7. BufInv' /\ NoDuplicate'
  BY <1>1, <1>3, <1>4 DEF BufInv, NoDuplicate
<1>8. JobInv'
  BY <1>2 DEF JobInv, Idle
<1>9. Kept'
  <2>1. ASSUME NEW k \in Indices, buffers'[k].valid /\ buffers'[k].dirty
        PROVE  DataOf(buffers'[k].block) = promised'[buffers'[k].block_num]
    BY <1>2, <1>3, <1>4, <2>1 DEF Kept, NeedsWrite
  <2>2. ASSUME NEW c \in Blocks,
               \A k \in Indices : ~(buffers'[k].valid /\ buffers'[k].dirty /\ buffers'[k].block_num = c)
        PROVE  DataOf(disk'[c]) = promised'[c]
    <3>1. \A k \in Indices : ~(buffers[k].valid /\ buffers[k].dirty /\ buffers[k].block_num = c)
      BY <1>1, <1>4, <2>2 DEF NeedsWrite
    <3>2. DataOf(disk[c]) = promised[c]
      BY <3>1 DEF Kept, NeedsWrite
    <3> QED BY <1>2, <3>2
  <2> QED BY <2>1, <2>2 DEF Kept, NeedsWrite
<1>10. DiskInv'
  BY <1>2 DEF DiskInv
<1>11. Recent'
  <2>1. kernel_ticks \in Int /\ \A k \in Indices : buffers[k].last_used <= kernel_ticks
    BY DEF TypeOK, Recent
  <2>2. \A k \in Indices : buffers'[k].last_used <= kernel_ticks
    BY <1>3, <1>4, <2>1
  <2> QED BY <1>1, <1>2, <1>3, <1>4, <1>5, <2>2 DEF Recent
<1> QED BY <1>6, <1>7, <1>8, <1>9, <1>10, <1>11

\* Changes of a buffer's contents through a held address, and of the mark
\* block_update sets: what they have in common.
LEMMA StoreInv ==
  ASSUME IInv, NEW c \in Clients, NEW data \in Data, StoreInto(c, data),
         typed' \in [Clients -> Data]
  PROVE  IInv'
<1> DEFINE i == handle[c].buf
           blk == [buffers[i].block EXCEPT !.lo = data.lo, !.hi = data.hi]
<1> USE DEF IInv
<1>1. i \in Indices /\ buffers[i] \in Buffer /\ buffers[i].block \in Block
  BY DEF StoreInto, TypeOK, Buffer
<1>2. blk \in Block /\ DataOf(blk) = data
  BY <1>1 DEF Block, DataOf, Data
<1>3. /\ buffers' = [buffers EXCEPT ![i] = [buffers[i] EXCEPT !.block = blk]]
      /\ promised' = IF buffers[i].valid /\ buffers[i].dirty
                     THEN [promised EXCEPT ![buffers[i].block_num] = data] ELSE promised
      /\ job = Idle /\ job' = job
      /\ stores < MaxStores /\ stores' = stores + 1
      /\ UNCHANGED <<most_recent_buffer, disk, kernel_ticks, handle, mode, crashes, versions>>
  BY DEF StoreInto, NeedsWrite
<1>3a. disturbed' \in [Clients -> SUBSET {"get", "store"}]
  BY DEF StoreInto, TypeOK
<1> HIDE DEF i, blk
<1>4. \A k \in Indices :
        /\ buffers'[k].block_num = buffers[k].block_num
        /\ buffers'[k].valid = buffers[k].valid
        /\ buffers'[k].dirty = buffers[k].dirty
        /\ buffers'[k].last_used = buffers[k].last_used
        /\ buffers'[k].block = IF k = i THEN blk ELSE buffers[k].block
  <2> TAKE k \in Indices
  <2>1. buffers[k] \in Buffer
    BY DEF TypeOK
  <2>2. CASE k = i
    <3>1. buffers'[k] = [buffers[k] EXCEPT !.block = blk]
      BY <1>1, <1>3, <2>2 DEF TypeOK
    <3> QED BY <1>2, <2>1, <2>2, <3>1, SetBlock
  <2>3. CASE k # i
    <3>1. buffers'[k] = buffers[k]
      BY <1>1, <1>3, <2>3 DEF TypeOK
    <3> QED BY <2>3, <3>1
  <2> QED BY <2>2, <2>3
<1>5. TypeOK'
  <2>1. [buffers[i] EXCEPT !.block = blk] \in Buffer
    BY <1>1, <1>2, SetBlock
  <2>2. buffers' \in [Indices -> Buffer]
    BY <1>1, <1>3, <2>1 DEF TypeOK
  <2>3. promised' \in [Blocks -> Data]
    BY <1>1, <1>3 DEF TypeOK
  <2>4. stores' \in 0 .. MaxStores
    BY <1>3, BoundsAssumption DEF TypeOK
  <2> QED BY <1>3, <1>3a, <2>2, <2>3, <2>4 DEF TypeOK
<1>6. BufInv' /\ NoDuplicate' /\ Recent'
  BY <1>3, <1>4 DEF BufInv, NoDuplicate, Recent, TypeOK
<1>7. JobInv'
  BY <1>3 DEF JobInv, Idle
<1>8. Kept'
  <2>1. ASSUME NEW k \in Indices, buffers'[k].valid /\ buffers'[k].dirty
        PROVE  DataOf(buffers'[k].block) = promised'[buffers'[k].block_num]
    <3>1. buffers[k].valid /\ buffers[k].dirty /\ buffers[k].block_num \in Blocks
      BY <1>4, <2>1 DEF BufInv
    <3>2. DataOf(buffers[k].block) = promised[buffers[k].block_num]
      BY <3>1 DEF Kept, NeedsWrite
    <3>3. CASE k = i
      BY <1>1, <1>2, <1>3, <1>4, <3>1, <3>3 DEF TypeOK
    <3>4. CASE k # i
      <4>1. buffers[i].valid => buffers[k].block_num # buffers[i].block_num
        BY <1>1, <3>1, <3>4 DEF NoDuplicate
      <4>2. promised'[buffers[k].block_num] = promised[buffers[k].block_num]
        BY <1>3, <3>1, <4>1 DEF TypeOK
      <4> QED BY <1>4, <3>2, <3>4, <4>2
    <3> QED BY <3>3, <3>4
  <2>2. ASSUME NEW d \in Blocks,
               \A k \in Indices : ~(buffers'[k].valid /\ buffers'[k].dirty /\ buffers'[k].block_num = d)
        PROVE  DataOf(disk'[d]) = promised'[d]
    <3>1. \A k \in Indices : ~(buffers[k].valid /\ buffers[k].dirty /\ buffers[k].block_num = d)
      BY <1>4, <2>2
    <3>2. DataOf(disk[d]) = promised[d]
      BY <3>1 DEF Kept, NeedsWrite
    <3>3. promised'[d] = promised[d]
      BY <1>1, <1>3, <3>1 DEF TypeOK
    <3> QED BY <1>3, <3>2, <3>3
  <2> QED BY <2>1, <2>2 DEF Kept, NeedsWrite
<1>9. DiskInv'
  BY <1>3 DEF DiskInv
<1> QED BY <1>5, <1>6, <1>7, <1>8, <1>9

LEMMA UpdateInv ==
  ASSUME IInv, buffers' = Updated, promised' = Vouched,
         UNCHANGED <<most_recent_buffer, disk, kernel_ticks, versions>>
  PROVE  /\ buffers' \in [Indices -> Buffer] /\ promised' \in [Blocks -> Data]
         /\ BufInv' /\ NoDuplicate' /\ Kept' /\ DiskInv' /\ Recent'
<1> DEFINE i == most_recent_buffer
<1> USE DEF IInv
<1>1. i \in Indices /\ buffers[i] \in Buffer /\ buffers[i].block \in Block
  BY DEF TypeOK, Buffer
<1>2. CASE ~buffers[i].valid
  <2>1. UNCHANGED <<buffers, promised>>
    BY <1>2 DEF Updated, Vouched
  <2> QED BY <2>1 DEF TypeOK, BufInv, NoDuplicate, Kept, DiskInv, Recent, NeedsWrite
<1>3. CASE buffers[i].valid
  <2> DEFINE b == buffers[i].block_num
             data == DataOf(buffers[i].block)
  <2>1. /\ buffers' = [buffers EXCEPT ![i] = [buffers[i] EXCEPT !.dirty = TRUE]]
        /\ promised' = [promised EXCEPT ![b] = data]
    BY <1>3 DEF Updated, Vouched
  <2>2. b \in Blocks /\ data \in Data
    BY <1>1, <1>3, DataFacts DEF BufInv
  <2> HIDE DEF i, b, data
  <2>3. [buffers[i] EXCEPT !.dirty = TRUE] \in Buffer
    BY <1>1, SetDirty
  <2>4. buffers' \in [Indices -> Buffer] /\ promised' \in [Blocks -> Data]
    BY <1>1, <2>1, <2>2, <2>3 DEF TypeOK
  <2>5. \A k \in Indices :
          /\ buffers'[k].block_num = buffers[k].block_num
          /\ buffers'[k].valid = buffers[k].valid
          /\ buffers'[k].dirty = IF k = i THEN TRUE ELSE buffers[k].dirty
          /\ buffers'[k].last_used = buffers[k].last_used
          /\ buffers'[k].block = buffers[k].block
    <3> TAKE k \in Indices
    <3>1. buffers[k] \in Buffer /\ TRUE \in BOOLEAN
      BY DEF TypeOK
    <3>2. CASE k = i
      <4>1. buffers'[k] = [buffers[k] EXCEPT !.dirty = TRUE]
        BY <1>1, <2>1, <3>2 DEF TypeOK
      <4> QED BY <3>1, <3>2, <4>1, SetDirty
    <3>3. CASE k # i
      <4>1. buffers'[k] = buffers[k]
        BY <1>1, <2>1, <3>3 DEF TypeOK
      <4> QED BY <3>3, <4>1
    <3> QED BY <3>2, <3>3
  <2>6. BufInv' /\ NoDuplicate' /\ Recent' /\ DiskInv'
    <3>1. BufInv' /\ NoDuplicate'
      <4>1. \A k \in Indices : /\ buffers'[k].block_num = buffers[k].block_num
                               /\ buffers'[k].valid = buffers[k].valid
        BY <2>5, Zenon
      <4> QED BY <4>1 DEF BufInv, NoDuplicate
    <3>2. Recent'
      <4>1. \A k \in Indices : buffers'[k].last_used = buffers[k].last_used
        BY <2>5
      <4>2. most_recent_buffer' = i /\ kernel_ticks' = kernel_ticks
        BY DEF i
      <4> QED BY <1>1, <1>3, <4>1, <4>2 DEF Recent, i
    <3> QED BY <3>1, <3>2 DEF DiskInv
  <2>7. Kept'
    <3>1. ASSUME NEW k \in Indices, buffers'[k].valid /\ buffers'[k].dirty
          PROVE  DataOf(buffers'[k].block) = promised'[buffers'[k].block_num]
      <4>1. CASE k = i
        BY <2>1, <2>2, <2>5, <4>1 DEF TypeOK, b, data
      <4>2. CASE k # i
        <5>1. buffers[k].valid /\ buffers[k].dirty /\ buffers[k].block_num \in Blocks
          BY <2>5, <3>1, <4>2 DEF BufInv
        <5>2. buffers[k].block_num # b
          BY <1>1, <1>3, <4>2, <5>1 DEF NoDuplicate, b, i
        <5>3. promised'[buffers[k].block_num] = promised[buffers[k].block_num]
          BY <2>1, <5>1, <5>2 DEF TypeOK
        <5>4. DataOf(buffers[k].block) = promised[buffers[k].block_num]
          BY <5>1 DEF Kept, NeedsWrite
        <5> QED BY <2>5, <5>3, <5>4
      <4> QED BY <4>1, <4>2
    <3>2. ASSUME NEW d \in Blocks,
                 \A k \in Indices : ~(buffers'[k].valid /\ buffers'[k].dirty /\ buffers'[k].block_num = d)
          PROVE  DataOf(disk'[d]) = promised'[d]
      <4>1. d # b
        BY <1>1, <1>3, <2>5, <3>2 DEF b, i
      <4>2. \A k \in Indices : ~(buffers[k].valid /\ buffers[k].dirty /\ buffers[k].block_num = d)
        BY <2>5, <3>2
      <4>3. DataOf(disk[d]) = promised[d]
        BY <4>2 DEF Kept, NeedsWrite
      <4> QED BY <2>1, <4>1, <4>3 DEF TypeOK
    <3> QED BY <3>1, <3>2 DEF Kept, NeedsWrite
  <2> QED BY <2>4, <2>6, <2>7
<1> QED BY <1>2, <1>3

LEMMA EditEscInv ==
  ASSUME IInv, NEW c \in Clients, EditEsc(c) PROVE IInv'
<1> DEFINE j == Flushed(c, Updated, 0)
           modes == [mode EXCEPT ![c] = "saving"]
<1> USE DEF IInv
<1>1. /\ buffers' = Updated /\ promised' = Vouched
      /\ Proceed(j, c, modes)
      /\ UNCHANGED <<most_recent_buffer, disk, kernel_ticks, stores, crashes, versions>>
  BY DEF EditEsc
<1>2. /\ buffers' \in [Indices -> Buffer] /\ promised' \in [Blocks -> Data]
      /\ BufInv' /\ NoDuplicate' /\ Kept' /\ DiskInv' /\ Recent'
  BY <1>1, UpdateInv
<1>3. /\ j \in Job
      /\ j = Idle \/ (j.op = "flush" /\ j.who = c /\ j.stage = "sector0")
      /\ j.op # "get" /\ j.stage \notin {"sector1", "load"}
      /\ j.stage = "sector0" => NeedsWrite(Updated, j.idx)
  BY FlushJob
<1>4. modes \in [Clients -> {"words", "edit", "saving"}]
  BY DEF TypeOK
<1> HIDE DEF j, modes
<1>5. /\ job' = j
      /\ mode' \in [Clients -> {"words", "edit", "saving"}]
      /\ handle' \in [Clients -> [buf : Indices \cup {NoBuf}, blk : Blocks \cup {NoBlock}]]
      /\ typed' \in [Clients -> Data]
      /\ disturbed' \in [Clients -> SUBSET {"get", "store"}]
  BY <1>1, <1>3, <1>4, ProceedType
<1>6. TypeOK'
  BY <1>1, <1>2, <1>3, <1>5 DEF TypeOK
<1>7. JobInv'
  BY <1>1, <1>3, <1>5 DEF JobInv
<1> QED BY <1>2, <1>6, <1>7

LEMMA FlushInv ==
  ASSUME IInv, NEW c \in Clients, w_flush(c) PROVE IInv'
<1> DEFINE j == Flushed(c, buffers, 0)
<1> USE DEF IInv
<1>1. /\ Proceed(j, c, mode)
      /\ UNCHANGED <<buffers, most_recent_buffer, disk, kernel_ticks, stores, crashes,
                     promised, versions>>
  BY DEF w_flush, cache
<1>2. /\ j \in Job
      /\ j = Idle \/ (j.op = "flush" /\ j.who = c /\ j.stage = "sector0")
      /\ j.op # "get" /\ j.stage \notin {"sector1", "load"}
      /\ j.stage = "sector0" => NeedsWrite(buffers, j.idx)
  BY FlushJob
<1>3. mode \in [Clients -> {"words", "edit", "saving"}]
  BY DEF TypeOK
<1> HIDE DEF j
<1>4. /\ job' = j
      /\ mode' \in [Clients -> {"words", "edit", "saving"}]
      /\ handle' \in [Clients -> [buf : Indices \cup {NoBuf}, blk : Blocks \cup {NoBlock}]]
      /\ typed' \in [Clients -> Data]
      /\ disturbed' \in [Clients -> SUBSET {"get", "store"}]
  BY <1>1, <1>2, <1>3, ProceedType
<1>5. TypeOK'
  BY <1>1, <1>2, <1>4 DEF TypeOK
<1>6. JobInv'
  BY <1>1, <1>2, <1>4 DEF JobInv
<1> QED BY <1>1, <1>5, <1>6 DEF BufInv, NoDuplicate, Kept, DiskInv, Recent, NeedsWrite

LEMMA CrashInv ==
  ASSUME IInv, Crash PROVE IInv'
<1> USE DEF IInv, Crash
<1>1. TypeOK'
  <2>1. EmptyBuffer \in Buffer /\ NoHandle \in [buf : Indices \cup {NoBuf}, blk : Blocks \cup {NoBlock}]
    BY DataFacts, BoundsAssumption DEF EmptyBuffer, Buffer, NoHandle
  <2>2. Idle \in Job /\ 0 \in Indices
    BY BuffersAssumption DEF Idle, Job, Indices
  <2>3. \A b \in Blocks : DataOf(disk[b]) \in Data
    BY DataFacts DEF TypeOK
  <2>4. crashes' \in 0 .. MaxCrashes /\ kernel_ticks' \in 0 .. MaxTicks
    BY BoundsAssumption DEF TypeOK
  <2> QED BY <2>1, <2>2, <2>3, <2>4, DataFacts DEF TypeOK
<1>2. BufInv' /\ NoDuplicate'
  BY DEF BufInv, NoDuplicate, EmptyBuffer
<1>3. JobInv'
  BY DEF JobInv, Idle
<1>4. Kept'
  BY DEF Kept, NeedsWrite, EmptyBuffer
<1>5. DiskInv'
  BY DEF DiskInv
<1>6. Recent'
  BY BuffersAssumption DEF Recent, EmptyBuffer, Indices
<1> QED BY <1>1, <1>2, <1>3, <1>4, <1>5, <1>6

LEMMA NextInv == IInv /\ [Next]_vars => IInv'
<1> SUFFICES ASSUME IInv, [Next]_vars PROVE IInv'
  OBVIOUS
<1>1. ASSUME NEW c \in Clients, NEW b \in Blocks, w_block(c, b) PROVE IInv'
  BY <1>1, BlockGetInv DEF w_block
<1>2. ASSUME NEW c \in Clients, NEW b \in Blocks, run_editor(c, b) PROVE IInv'
  BY <1>2, BlockGetInv DEF run_editor
<1>3. ASSUME NEW c \in Clients, NEW data \in Data, w_store(c, data) PROVE IInv'
  <2>1. typed' \in [Clients -> Data]
    BY <1>3 DEF w_store, IInv, TypeOK
  <2> QED BY <1>3, <2>1, StoreInv DEF w_store
<1>4. ASSUME NEW c \in Clients, NEW data \in Data, EditKey(c, data) PROVE IInv'
  <2>1. typed' \in [Clients -> Data]
    BY <1>4 DEF EditKey, IInv, TypeOK
  <2> QED BY <1>4, <2>1, StoreInv DEF EditKey
<1>5. ASSUME NEW c \in Clients, w_update(c) PROVE IInv'
  <2>1. /\ buffers' = Updated /\ promised' = Vouched
        /\ UNCHANGED <<most_recent_buffer, disk, kernel_ticks, job, handle, mode, stores,
                       crashes, versions, typed, disturbed>>
        /\ job = Idle
    BY <1>5 DEF w_update
  <2>2. /\ buffers' \in [Indices -> Buffer] /\ promised' \in [Blocks -> Data]
        /\ BufInv' /\ NoDuplicate' /\ Kept' /\ DiskInv' /\ Recent'
    BY <2>1, UpdateInv
  <2>3. TypeOK'
    BY <2>1, <2>2 DEF IInv, TypeOK
  <2>4. JobInv'
    BY <2>1 DEF JobInv, Idle
  <2> QED BY <2>2, <2>3, <2>4 DEF IInv
<1>6. ASSUME timer_handler_c PROVE IInv'
  <2>1. TypeOK'
    BY <1>6, BoundsAssumption DEF timer_handler_c, cache, ghosts, IInv, TypeOK
  <2>2. Recent'
    <3>1. kernel_ticks \in Int /\ kernel_ticks' = kernel_ticks + 1
      BY <1>6, BoundsAssumption DEF timer_handler_c, IInv, TypeOK
    <3>2. \A i \in Indices : buffers[i].last_used \in Int
      BY BoundsAssumption DEF IInv, TypeOK, Buffer
    <3> QED BY <1>6, <3>1, <3>2 DEF timer_handler_c, cache, IInv, Recent
  <2> QED BY <1>6, <2>1, <2>2
      DEF timer_handler_c, cache, ghosts, IInv, BufInv, JobInv, NoDuplicate, Kept, DiskInv, NeedsWrite
<1> QED BY <1>1, <1>2, <1>3, <1>4, <1>5, <1>6, FlushInv, EditEscInv, CrashInv, WriteSector0Inv,
           WriteSector1Inv, LoadBlockInv, StutterInv DEF Next

----------------------------------------------------------------------------
\* Every reachable state of the cache satisfies the inductive invariant.
THEOREM Invariance == Spec => []IInv
  BY InitInv, NextInv, PTL DEF Spec

\* The cache, the operation under way and the history keep their types.
THEOREM TypeCorrect == Spec => []TypeOK
<1>1. IInv => TypeOK
  BY DEF IInv
<1> QED BY <1>1, Invariance, PTL

\* No block is ever in two buffers, for any number of buffers and tasks.
THEOREM OneCopy == Spec => []NoDuplicate
<1>1. IInv => NoDuplicate
  BY DEF IInv
<1> QED BY <1>1, Invariance, PTL

\* Neither eviction nor flushing loses data that UPDATE vouched for.
THEOREM UpdateKept == Spec => []PromiseKept
<1>1. IInv => PromiseKept
  BY KeptPromise DEF IInv
<1> QED BY <1>1, Invariance, PTL

\* A block torn by a crash between two sector writes fails its CRC.
THEOREM TornBlocksDetected == Spec => []TornDetected
<1>1. IInv => TornDetected
  <2> SUFFICES ASSUME IInv, NEW b \in Blocks, ~CrcMismatch(disk[b])
               PROVE  DataOf(disk[b]) \in versions[b]
    BY DEF TornDetected
  <2>1. CASE disk[b].crc = NoCrc
    BY <2>1 DEF IInv, DiskInv
  <2>2. CASE disk[b].crc # NoCrc
    <3>1. disk[b].crc = <<disk[b].lo, disk[b].hi>>
      BY <2>2 DEF CrcMismatch, calculate_crc32, DataOf
    <3>2. [lo |-> disk[b].crc[1], hi |-> disk[b].crc[2]] = DataOf(disk[b])
      BY <3>1 DEF DataOf
    <3> QED BY <2>2, <3>2 DEF IInv, DiskInv
  <2> QED BY <2>1, <2>2
<1> QED BY <1>1, Invariance, PTL

\* block_get evicts the buffer whose address it handed out last only when all
\* buffers tie, for any number of buffers.
THEOREM RecentKept == Spec => RecentEvictedOnlyOnTie
<1> DEFINE Step == \A i, j \in Indices :
                     /\ job = Idle /\ job'.op = "get" /\ i = job'.idx
                     /\ i = most_recent_buffer /\ buffers[i].valid
                     => buffers[j].last_used = buffers[i].last_used
<1>1. IInv /\ [Next]_vars => [Step]_vars
  <2> SUFFICES ASSUME IInv, Next, NEW i \in Indices, NEW j \in Indices,
                      job = Idle, job'.op = "get", i = job'.idx,
                      i = most_recent_buffer, buffers[i].valid
               PROVE  buffers[j].last_used = buffers[i].last_used
    OBVIOUS
  <2>1. job' # job
    BY DEF Idle
  <2>2. PICK c \in Clients, b \in Blocks : Miss(c, b)
    <3>1. job.stage = "none"
      BY DEF Idle
    <3>2. \A c \in Clients : ~w_flush(c) /\ ~EditEsc(c)
      <4> SUFFICES ASSUME NEW c \in Clients, NEW bufs, job' = Flushed(c, bufs, 0) PROVE FALSE
        BY DEF w_flush, EditEsc, Proceed
      <4> QED BY FlushJob
    <3>3. ~Crash
      BY DEF Crash, Idle
    <3> QED BY <2>1, <3>1, <3>2, <3>3
        DEF Next, w_block, run_editor, BlockGet, Hit, w_store, EditKey, StoreInto, w_update,
            WriteSector0, WriteSector1, LoadBlock, timer_handler_c
  <2>3. i = Victim
    BY <2>2 DEF Miss
  <2>4. i \in Oldest
    BY <2>3, VictimIn DEF IInv
  <2>5. buffers[i].last_used \in Int /\ buffers[j].last_used \in Int
    BY BoundsAssumption DEF IInv, TypeOK, Buffer
  <2> QED BY <2>4, <2>5 DEF IInv, Recent, Oldest
<1> QED BY <1>1, Invariance, PTL DEF Spec, RecentEvictedOnlyOnTie

----------------------------------------------------------------------------
(* What the steps do to the buffers.                                       *)

LEMMA Sector0Buffers ==
  ASSUME IInv, WriteSector0, NEW k \in Indices
  PROVE  /\ buffers'[k].block_num = buffers[k].block_num
         /\ buffers'[k].valid = buffers[k].valid
         /\ buffers'[k].dirty = buffers[k].dirty
         /\ DataOf(buffers'[k].block) = DataOf(buffers[k].block)
<1> DEFINE i == job.idx
           blk == [buffers[i].block EXCEPT !.crc = calculate_crc32(DataOf(buffers[i].block))]
<1>1. i \in Indices /\ buffers[i] \in Buffer /\ buffers[i].block \in Block
  BY DEF IInv, TypeOK, Job, Buffer
<1>2. blk \in Block /\ DataOf(blk) = DataOf(buffers[i].block)
  BY <1>1, DataFacts DEF Block, DataOf, calculate_crc32
<1>3. buffers' = [buffers EXCEPT ![i] = [buffers[i] EXCEPT !.block = blk]]
  BY DEF WriteSector0
<1> HIDE DEF i, blk
<1>4. CASE k = i
  <2>1. buffers'[k] = [buffers[k] EXCEPT !.block = blk] /\ buffers[k] \in Buffer
    BY <1>1, <1>3, <1>4 DEF IInv, TypeOK
  <2> QED BY <1>2, <1>4, <2>1, SetBlock
<1>5. CASE k # i
  BY <1>1, <1>3, <1>5 DEF IInv, TypeOK
<1> QED BY <1>4, <1>5

LEMMA Sector1Buffers ==
  ASSUME IInv, WriteSector1, NEW k \in Indices
  PROVE  /\ buffers'[k].block_num = buffers[k].block_num
         /\ buffers'[k].valid = buffers[k].valid
         /\ buffers'[k].dirty = IF k = job.idx THEN FALSE ELSE buffers[k].dirty
         /\ buffers'[k].block = buffers[k].block
<1> DEFINE i == job.idx
<1>1. i \in Indices /\ buffers[i] \in Buffer
  BY DEF IInv, TypeOK, Job
<1>2. buffers' = [buffers EXCEPT ![i] = [buffers[i] EXCEPT !.dirty = FALSE]]
  BY DEF WriteSector1
<1> HIDE DEF i
<1>3. CASE k = i
  <2>1. buffers'[k] = [buffers[k] EXCEPT !.dirty = FALSE] /\ buffers[k] \in Buffer
    BY <1>1, <1>2, <1>3 DEF IInv, TypeOK
  <2>2. FALSE \in BOOLEAN
    OBVIOUS
  <2> QED BY <1>3, <2>1, <2>2, SetDirty DEF i
<1>4. CASE k # i
  BY <1>1, <1>2, <1>4 DEF IInv, TypeOK, i
<1> QED BY <1>3, <1>4

LEMMA StoreBuffers ==
  ASSUME IInv, NEW c \in Clients, NEW data \in Data, StoreInto(c, data), NEW k \in Indices
  PROVE  /\ buffers'[k].block_num = buffers[k].block_num
         /\ buffers'[k].valid = buffers[k].valid
         /\ buffers'[k].dirty = buffers[k].dirty
         /\ DataOf(buffers'[k].block) = IF k = handle[c].buf THEN data ELSE DataOf(buffers[k].block)
<1> DEFINE i == handle[c].buf
           blk == [buffers[i].block EXCEPT !.lo = data.lo, !.hi = data.hi]
<1>1. i \in Indices /\ buffers[i] \in Buffer /\ buffers[i].block \in Block
  BY DEF IInv, StoreInto, TypeOK, Buffer
<1>2. blk \in Block /\ DataOf(blk) = data
  BY <1>1 DEF Block, DataOf, Data
<1>3. buffers' = [buffers EXCEPT ![i] = [buffers[i] EXCEPT !.block = blk]]
  BY DEF StoreInto
<1> HIDE DEF i, blk
<1>4. CASE k = i
  <2>1. buffers'[k] = [buffers[k] EXCEPT !.block = blk] /\ buffers[k] \in Buffer
    BY <1>1, <1>3, <1>4 DEF IInv, TypeOK
  <2> QED BY <1>2, <1>4, <2>1, SetBlock DEF i
<1>5. CASE k # i
  BY <1>1, <1>3, <1>5 DEF IInv, TypeOK, i
<1> QED BY <1>4, <1>5

LEMMA UpdateBuffers ==
  ASSUME IInv, buffers' = Updated, NEW k \in Indices
  PROVE  /\ buffers'[k].block_num = buffers[k].block_num
         /\ buffers'[k].valid = buffers[k].valid
         /\ buffers'[k].dirty = IF k = most_recent_buffer /\ buffers[k].valid THEN TRUE
                                ELSE buffers[k].dirty
         /\ buffers'[k].block = buffers[k].block
<1> DEFINE i == most_recent_buffer
<1>1. i \in Indices /\ buffers[i] \in Buffer
  BY DEF IInv, TypeOK
<1>2. CASE ~buffers[i].valid
  BY <1>2 DEF Updated
<1>3. CASE buffers[i].valid
  <2>1. buffers' = [buffers EXCEPT ![i] = [buffers[i] EXCEPT !.dirty = TRUE]]
    BY <1>3 DEF Updated
  <2> HIDE DEF i
  <2>2. CASE k = i
    <3>1. buffers'[k] = [buffers[k] EXCEPT !.dirty = TRUE] /\ buffers[k] \in Buffer
      BY <1>1, <2>1, <2>2 DEF IInv, TypeOK
    <3>2. TRUE \in BOOLEAN
      OBVIOUS
    <3> QED BY <1>3, <2>2, <3>1, <3>2, SetDirty DEF i
  <2>3. CASE k # i
    BY <1>1, <2>1, <2>3 DEF IInv, TypeOK, i
  <2> QED BY <2>2, <2>3
<1> QED BY <1>2, <1>3

LEMMA HitBuffers ==
  ASSUME IInv, NEW c, NEW b, NEW m, Hits(b) # {}, Hit(c, b, m), NEW k \in Indices
  PROVE  /\ buffers'[k].block_num = buffers[k].block_num
         /\ buffers'[k].valid = buffers[k].valid
         /\ buffers'[k].dirty = buffers[k].dirty
         /\ buffers'[k].block = buffers[k].block
<1> DEFINE i == Lowest(Hits(b))
<1>1. i \in Indices /\ buffers[i] \in Buffer
  BY HitIn DEF Hits, IInv, TypeOK
<1>2. buffers' = [buffers EXCEPT ![i] = [buffers[i] EXCEPT !.last_used = kernel_ticks]]
  BY DEF Hit
<1> HIDE DEF i
<1>3. CASE k = i
  <2>1. /\ buffers'[k] = [buffers[k] EXCEPT !.last_used = kernel_ticks] /\ buffers[k] \in Buffer
        /\ kernel_ticks \in 0 .. MaxTicks
    BY <1>1, <1>2, <1>3 DEF IInv, TypeOK
  <2> QED BY <1>3, <2>1, SetUsed
<1>4. CASE k # i
  BY <1>1, <1>2, <1>4 DEF IInv, TypeOK
<1> QED BY <1>3, <1>4

----------------------------------------------------------------------------
(* The cache implements the abstract store.                                *)

Unique(bufs) == \A i, j \in Indices :
                   bufs[i].valid /\ bufs[j].valid /\ bufs[i].block_num = bufs[j].block_num => i = j

\* With one copy of each block, the copy of a block is that of its buffer.
LEMMA CopyOf ==
  ASSUME NEW bufs, Unique(bufs), NEW b \in Blocks
  PROVE  /\ \A i \in Indices : Holds(bufs, i, b) => Copies(bufs)[b] = DataOf(bufs[i].block)
         /\ (\A i \in Indices : ~Holds(bufs, i, b)) => Copies(bufs)[b] = NoBlock
<1>1. ASSUME NEW i \in Indices, Holds(bufs, i, b)
      PROVE  Copies(bufs)[b] = DataOf(bufs[i].block)
  <2> DEFINE k == CHOOSE k \in Indices : Holds(bufs, k, b)
  <2>1. k \in Indices /\ Holds(bufs, k, b)
    BY <1>1
  <2>2. k = i
    BY <1>1, <2>1 DEF Unique, Holds
  <2> QED BY <1>1, <2>2 DEF Copies
<1>2. ASSUME \A i \in Indices : ~Holds(bufs, i, b)
      PROVE  Copies(bufs)[b] = NoBlock
  BY <1>2 DEF Copies
<1> QED BY <1>1, <1>2

\* A block is in memory exactly when a buffer has it.
LEMMA InMemory ==
  ASSUME NEW bufs \in [Indices -> Buffer], Unique(bufs), NEW b \in Blocks
  PROVE  /\ Copies(bufs)[b] # NoBlock <=> \E i \in Indices : Holds(bufs, i, b)
         /\ Copies(bufs)[b] \in Data \cup {NoBlock}
<1>1. ASSUME NEW i \in Indices, Holds(bufs, i, b)
      PROVE  DataOf(bufs[i].block) \in Data /\ DataOf(bufs[i].block) # NoBlock
  BY MarkerAssumption DEF Buffer, Block, DataOf, Data
<1> QED BY <1>1, CopyOf

\* Buffers that have the same blocks with the same data have the same copies.
LEMMA SameCopies ==
  ASSUME NEW bufs, NEW bufs2, Unique(bufs), Unique(bufs2),
         \A b \in Blocks, i \in Indices :
            /\ Holds(bufs2, i, b) <=> Holds(bufs, i, b)
            /\ Holds(bufs, i, b) => DataOf(bufs2[i].block) = DataOf(bufs[i].block)
  PROVE  Copies(bufs2) = Copies(bufs)
<1>1. ASSUME NEW b \in Blocks
      PROVE  Copies(bufs2)[b] = Copies(bufs)[b]
  <2>1. CASE \E i \in Indices : Holds(bufs, i, b)
    BY <2>1, CopyOf
  <2>2. CASE \A i \in Indices : ~Holds(bufs, i, b)
    BY <2>2, CopyOf
  <2> QED BY <2>1, <2>2
<1>2. Copies(bufs) = [b \in Blocks |-> Copies(bufs)[b]] /\ Copies(bufs2) = [b \in Blocks |-> Copies(bufs2)[b]]
  BY DEF Copies
<1> QED BY <1>1, <1>2

LEMMA SameMarks ==
  ASSUME NEW bufs, NEW bufs2,
         \A i \in Indices : /\ NeedsWrite(bufs2, i) <=> NeedsWrite(bufs, i)
                            /\ NeedsWrite(bufs, i) => bufs2[i].block_num = bufs[i].block_num
  PROVE  Marks(bufs2) = Marks(bufs)
<1>1. ASSUME NEW x \in Marks(bufs) PROVE x \in Marks(bufs2)
  BY <1>1 DEF Marks
<1>2. ASSUME NEW x \in Marks(bufs2) PROVE x \in Marks(bufs)
  BY <1>2 DEF Marks
<1> QED BY <1>1, <1>2

LEMMA UniqueBuffers == IInv => Unique(buffers)
  BY DEF IInv, NoDuplicate, Unique

LEMMA UniqueAfter == IInv' => Unique(buffers')
  BY DEF IInv, NoDuplicate, Unique

LEMMA StoreInit == Init => Store!Init
<1> SUFFICES ASSUME Init PROVE Store!Init
  OBVIOUS
<1>1. \A i \in Indices : ~buffers[i].valid
  BY DEF Init, EmptyBuffer
<1>2. Copies(buffers) = [b \in Blocks |-> NoBlock]
  BY <1>1 DEF Copies, Holds
<1>3. Marks(buffers) = {}
  BY <1>1 DEF Marks, NeedsWrite
<1>4. Sectors(disk) = [b \in Blocks |-> FreshData]
  BY DEF Init, Sectors, FreshData
<1>5. HalfWritten(job, buffers) = NoBlock
  BY DEF Init, HalfWritten, Idle
<1> QED BY <1>2, <1>3, <1>4, <1>5 DEF Store!Init

\* Steps that leave the store as it is: hits, misses, the walks of flush.
LEMMA StoreStutter ==
  ASSUME IInv, IInv',
         \A i \in Indices : /\ buffers'[i].valid = buffers[i].valid
                            /\ buffers'[i].dirty = buffers[i].dirty
                            /\ buffers'[i].block_num = buffers[i].block_num
                            /\ buffers[i].valid => DataOf(buffers'[i].block) = DataOf(buffers[i].block),
         disk' = disk, job.stage # "sector1", job'.stage # "sector1"
  PROVE  UNCHANGED Store!storeVars
<1>1. Copies(buffers)' = Copies(buffers)
  <2>1. \A b \in Blocks, i \in Indices :
           /\ Holds(buffers', i, b) <=> Holds(buffers, i, b)
           /\ Holds(buffers, i, b) => DataOf(buffers'[i].block) = DataOf(buffers[i].block)
    BY DEF Holds
  <2>2. Copies(buffers') = Copies(buffers)
    BY <2>1, SameCopies, UniqueBuffers, UniqueAfter
  <2> QED BY <2>2
<1>2. Marks(buffers)' = Marks(buffers)
  <2>1. Marks(buffers') = Marks(buffers)
    BY SameMarks DEF NeedsWrite
  <2> QED BY <2>1
<1>3. Sectors(disk)' = Sectors(disk) /\ HalfWritten(job, buffers)' = HalfWritten(job, buffers)
  BY DEF Sectors, HalfWritten
<1> QED BY <1>1, <1>2, <1>3 DEF Store!storeVars

LEMMA FirstHalf ==
  ASSUME IInv, IInv', WriteSector0 PROVE \E b \in Blocks : Store!WriteFirst(b)
<1> DEFINE i == job.idx
           b == buffers[i].block_num
           blk == [buffers[i].block EXCEPT !.crc = calculate_crc32(DataOf(buffers[i].block))]
<1>1. /\ i \in Indices /\ NeedsWrite(buffers, i) /\ b \in Blocks
      /\ buffers[i] \in Buffer /\ buffers[i].block \in Block /\ disk[b] \in Block
      /\ job \in Job
  BY DEF IInv, WriteSector0, TypeOK, JobInv, BufInv, NeedsWrite, Job, Buffer
<1>2. /\ blk \in Block /\ DataOf(blk) = DataOf(buffers[i].block)
      /\ blk.lo = buffers[i].block.lo
  BY <1>1, DataFacts DEF Block, DataOf, calculate_crc32
<1>3. DataOf(Transfer(0, disk[b], blk)) = [DataOf(disk[b]) EXCEPT !.lo = DataOf(buffers[i].block).lo]
  BY <1>1, <1>2 DEF Transfer, Block, DataOf
<1>4. /\ buffers' = [buffers EXCEPT ![i] = [buffers[i] EXCEPT !.block = blk]]
      /\ disk' = [disk EXCEPT ![b] = Transfer(0, disk[b], blk)]
      /\ job' = [job EXCEPT !.stage = "sector1"] /\ job.stage = "sector0"
  BY DEF WriteSector0
<1>5. job'.stage = "sector1" /\ job'.idx = i
  BY <1>1, <1>4 DEF Job
<1> HIDE DEF i, b, blk
<1>6. \A k \in Indices :
        /\ buffers'[k].block_num = buffers[k].block_num
        /\ buffers'[k].valid = buffers[k].valid
        /\ buffers'[k].dirty = buffers[k].dirty
        /\ DataOf(buffers'[k].block) = DataOf(buffers[k].block)
  BY Sector0Buffers
<1>7. Copies(buffers)' = Copies(buffers)
  <2>1. Copies(buffers') = Copies(buffers)
    BY <1>6, SameCopies, UniqueBuffers, UniqueAfter DEF Holds
  <2> QED BY <2>1
<1>8. Marks(buffers)' = Marks(buffers)
  <2>1. Marks(buffers') = Marks(buffers)
    BY <1>6, SameMarks DEF NeedsWrite
  <2> QED BY <2>1
<1>9. Copies(buffers)[b] = DataOf(buffers[i].block)
  BY <1>1, CopyOf, UniqueBuffers DEF Holds, NeedsWrite, b
<1>10. Sectors(disk)' = [Sectors(disk) EXCEPT ![b].lo = Copies(buffers)[b].lo]
  <2>1. \A x \in Blocks : DataOf(disk'[x]) = IF x = b THEN [DataOf(disk[b]) EXCEPT !.lo = Copies(buffers)[b].lo]
                                             ELSE DataOf(disk[x])
    BY <1>1, <1>3, <1>4, <1>9 DEF IInv, TypeOK
  <2> QED BY <1>1, <2>1 DEF Sectors
<1>11. HalfWritten(job, buffers) = NoBlock /\ HalfWritten(job, buffers)' = b
  BY <1>1, <1>4, <1>5, <1>6 DEF HalfWritten, b
<1>12. b \in Marks(buffers)
  BY <1>1 DEF Marks, b
<1>13. Store!WriteFirst(b)
  BY <1>7, <1>8, <1>10, <1>11, <1>12 DEF Store!WriteFirst, Store!Quiet
<1> QED BY <1>1, <1>13

LEMMA SecondHalf ==
  ASSUME IInv, IInv', WriteSector1 PROVE \E b \in Blocks : Store!WriteSecond(b)
<1> DEFINE i == job.idx
           b == buffers[i].block_num
           blk == buffers[i].block
           bufs == [buffers EXCEPT ![i].dirty = FALSE]
<1>1. /\ i \in Indices /\ NeedsWrite(buffers, i) /\ b \in Blocks
      /\ blk \in Block /\ disk[b] \in Block /\ job.who \in Clients
      /\ buffers[i] \in Buffer /\ disk[b].lo = blk.lo /\ job \in Job
  <2>a. TypeOK /\ BufInv /\ JobInv /\ job.stage = "sector1"
    BY DEF IInv, WriteSector1
  <2>1. job \in Job /\ job.who \in Clients
    <3>1. job \in Job /\ job # Idle
      BY <2>a DEF TypeOK, Idle
    <3> QED BY <2>a, <3>1 DEF JobInv
  <2>2. NeedsWrite(buffers, i) /\ disk[b].lo = blk.lo /\ i \in Indices
    <3>1. NeedsWrite(buffers, i) /\ disk[b].lo = blk.lo
      BY <2>a DEF JobInv
    <3>2. i \in Indices
      BY <2>a, <2>1 DEF Job, TypeOK
    <3> QED BY <3>1, <3>2
  <2>3. buffers[i] \in Buffer /\ b \in Blocks /\ blk \in Block
    BY <2>2 DEF IInv, TypeOK, BufInv, NeedsWrite, Buffer
  <2> QED BY <2>1, <2>2, <2>3 DEF IInv, TypeOK
<1>2. DataOf(Transfer(1, disk[b], blk)) = [DataOf(disk[b]) EXCEPT !.hi = DataOf(blk).hi]
  BY <1>1 DEF Transfer, Block, DataOf
<1>3. /\ buffers' = [buffers EXCEPT ![i] = [buffers[i] EXCEPT !.dirty = FALSE]]
      /\ disk' = [disk EXCEPT ![b] = Transfer(1, disk[b], blk)]
      /\ job.stage = "sector1"
  BY DEF WriteSector1
<1>4. job'.stage # "sector1"
  <2>1. CASE job.op = "get"
    <3>1. job' = [job EXCEPT !.stage = "load"]
      BY <2>1 DEF WriteSector1, Proceed
    <3> QED BY <1>1, <3>1 DEF Job
  <2>2. CASE job.op # "get"
    <3>1. job' = Flushed(job.who, bufs, i + 1) /\ i + 1 \in Int
      BY <1>1, <2>2 DEF WriteSector1, Proceed, Indices
    <3> QED BY <1>1, <3>1, FlushJob
  <2> QED BY <2>1, <2>2
<1> HIDE DEF i, b, blk, bufs
<1>5. \A k \in Indices :
        /\ buffers'[k].block_num = buffers[k].block_num
        /\ buffers'[k].valid = buffers[k].valid
        /\ buffers'[k].dirty = IF k = i THEN FALSE ELSE buffers[k].dirty
        /\ buffers'[k].block = buffers[k].block
  BY Sector1Buffers DEF i
<1>6. Copies(buffers)' = Copies(buffers)
  <2>1. Copies(buffers') = Copies(buffers)
    BY <1>5, SameCopies, UniqueBuffers, UniqueAfter DEF Holds
  <2> QED BY <2>1
<1>7. Copies(buffers)[b] = DataOf(blk)
  BY <1>1, CopyOf, UniqueBuffers DEF Holds, NeedsWrite, b, blk
<1>8. Marks(buffers)' = Marks(buffers) \ {b}
  <2>1. \A k \in Indices : NeedsWrite(buffers', k) <=> NeedsWrite(buffers, k) /\ k # i
    BY <1>5 DEF NeedsWrite
  <2>2. \A k \in Indices : NeedsWrite(buffers, k) => (k # i <=> buffers[k].block_num # b)
    BY <1>1 DEF IInv, NoDuplicate, NeedsWrite, b
  <2>3. ASSUME NEW x \in Marks(buffers') PROVE x \in Marks(buffers) \ {b}
    <3>1. PICK k \in Indices : NeedsWrite(buffers', k) /\ x = buffers'[k].block_num
      BY DEF Marks
    <3>2. NeedsWrite(buffers, k) /\ x = buffers[k].block_num /\ x # b
      BY <1>5, <2>1, <2>2, <3>1
    <3> QED BY <3>2 DEF Marks
  <2>4. ASSUME NEW x \in Marks(buffers) \ {b} PROVE x \in Marks(buffers')
    <3>1. PICK k \in Indices : NeedsWrite(buffers, k) /\ x = buffers[k].block_num
      BY DEF Marks
    <3>2. NeedsWrite(buffers', k) /\ x = buffers'[k].block_num
      BY <1>5, <2>1, <2>2, <3>1
    <3> QED BY <3>2 DEF Marks
  <2> QED BY <2>3, <2>4
<1>9. Sectors(disk)' = [Sectors(disk) EXCEPT ![b].hi = Copies(buffers)[b].hi]
  <2>1. \A x \in Blocks : DataOf(disk'[x]) = IF x = b THEN [DataOf(disk[b]) EXCEPT !.hi = Copies(buffers)[b].hi]
                                             ELSE DataOf(disk[x])
    BY <1>1, <1>2, <1>3, <1>7 DEF IInv, TypeOK
  <2> QED BY <1>1, <2>1 DEF Sectors
<1>10. HalfWritten(job, buffers) = b /\ HalfWritten(job, buffers)' = NoBlock
  BY <1>3, <1>4 DEF HalfWritten, b, i
<1>11. Store!WriteSecond(b)
  BY <1>6, <1>8, <1>9, <1>10 DEF Store!WriteSecond
<1> QED BY <1>1, <1>11

\* block_get reads a block into a buffer; the clean copy that was there goes.
LEMMA Loads ==
  ASSUME IInv, IInv', LoadBlock
  PROVE  \E b \in Blocks : Store!Fill(b, {x \in Blocks : Copies(buffers)'[x] = NoBlock})
<1> DEFINE i == job.idx
           b == job.blk
           new == [block_num |-> b, valid |-> TRUE, dirty |-> FALSE,
                   last_used |-> kernel_ticks, block |-> disk[b]]
           gone == {x \in Blocks : Copies(buffers)'[x] = NoBlock}
<1>1. /\ i \in Indices /\ b \in Blocks /\ ~NeedsWrite(buffers, i)
      /\ \A k \in Indices : ~Holds(buffers, k, b)
      /\ buffers \in [Indices -> Buffer] /\ buffers' \in [Indices -> Buffer]
  BY DEF IInv, LoadBlock, TypeOK, JobInv, Job, Idle, Holds
<1>2. /\ buffers' = [buffers EXCEPT ![i] = new]
      /\ job.stage = "load" /\ job' = Idle /\ disk' = disk
  BY DEF LoadBlock
<1>3. new.block_num = b /\ new.valid = TRUE /\ new.dirty = FALSE /\ new.block = disk[b]
  OBVIOUS
<1> HIDE DEF i, b, new
<1>4. \A k \in Indices : buffers'[k] = IF k = i THEN new ELSE buffers[k]
  BY <1>1, <1>2
<1>5. Copies(buffers)[b] = NoBlock /\ Copies(buffers')[b] = DataOf(disk[b])
  BY <1>1, <1>3, <1>4, CopyOf, UniqueBuffers, UniqueAfter DEF Holds
<1>6. ASSUME NEW x \in Blocks, x # b, Copies(buffers')[x] # NoBlock
      PROVE  Copies(buffers')[x] = Copies(buffers)[x]
  <2>1. PICK k \in Indices : Holds(buffers', k, x)
    BY <1>1, <1>6, InMemory, UniqueAfter
  <2>2. k # i /\ Holds(buffers, k, x)
    BY <1>3, <1>4, <1>6, <2>1 DEF Holds
  <2> QED BY <1>4, <2>1, <2>2, CopyOf, UniqueBuffers, UniqueAfter
<1>7. ASSUME NEW k \in Indices, NeedsWrite(buffers, k)
      PROVE  buffers[k].block_num \notin gone /\ NeedsWrite(buffers', k)
             /\ buffers'[k].block_num = buffers[k].block_num
  <2>1. k # i /\ buffers'[k] = buffers[k]
    BY <1>1, <1>4, <1>7
  <2>2. buffers[k].block_num \in Blocks
    BY <1>7 DEF IInv, BufInv, NeedsWrite
  <2>3. Copies(buffers')[buffers[k].block_num] # NoBlock
    BY <1>1, <1>7, <2>1, <2>2, InMemory, UniqueAfter DEF Holds, NeedsWrite
  <2> QED BY <1>7, <2>1, <2>3 DEF NeedsWrite
<1>8. gone \cap Marks(buffers) = {}
  BY <1>7 DEF Marks
<1>9. Marks(buffers)' = Marks(buffers)
  <2>1. \A k \in Indices : NeedsWrite(buffers', k) => NeedsWrite(buffers, k)
    BY <1>3, <1>4 DEF NeedsWrite
  <2>2. Marks(buffers') = Marks(buffers)
    BY <1>7, <2>1, SameMarks
  <2> QED BY <2>2
<1>10. Copies(buffers)' = [x \in Blocks |-> IF x = b THEN Sectors(disk)[b]
                                            ELSE IF x \in gone THEN NoBlock ELSE Copies(buffers)[x]]
  <2>1. Sectors(disk)[b] = DataOf(disk[b])
    BY <1>1 DEF Sectors
  <2>2. \A x \in Blocks : Copies(buffers')[x] = IF x = b THEN Sectors(disk)[b]
                                                ELSE IF x \in gone THEN NoBlock ELSE Copies(buffers)[x]
    BY <1>5, <1>6, <2>1
  <2>3. Copies(buffers') = [x \in Blocks |-> Copies(buffers')[x]]
    BY DEF Copies
  <2> HIDE DEF gone
  <2>4. Copies(buffers') = [x \in Blocks |-> IF x = b THEN Sectors(disk)[b]
                                            ELSE IF x \in gone THEN NoBlock ELSE Copies(buffers)[x]]
    BY <2>2, <2>3
  <2> QED BY <2>4
<1>11. /\ HalfWritten(job, buffers) = NoBlock /\ HalfWritten(job, buffers)' = NoBlock
       /\ Sectors(disk)' = Sectors(disk)
  BY <1>2 DEF HalfWritten, Idle, Sectors
<1>12. Store!Fill(b, gone)
  BY <1>5, <1>8, <1>9, <1>10, <1>11 DEF Store!Fill, Store!Quiet, Store!Cached
<1> QED BY <1>1, <1>12

LEMMA Stores ==
  ASSUME IInv, IInv', NEW c \in Clients, NEW data \in Data, StoreInto(c, data)
  PROVE  \/ UNCHANGED Store!storeVars
         \/ \E b \in Blocks : Store!Change(b, Copies(buffers)'[b]) /\ Copies(buffers)'[b] \in Data
<1> DEFINE i == handle[c].buf
           blk == [buffers[i].block EXCEPT !.lo = data.lo, !.hi = data.hi]
           b == buffers[i].block_num
<1>1. i \in Indices /\ buffers[i] \in Buffer /\ buffers[i].block \in Block
  BY DEF IInv, StoreInto, TypeOK, Buffer
<1>2. blk \in Block /\ DataOf(blk) = data
  BY <1>1 DEF Block, DataOf, Data
<1>3. /\ buffers' = [buffers EXCEPT ![i] = [buffers[i] EXCEPT !.block = blk]]
      /\ job = Idle /\ job' = job /\ disk' = disk
  BY DEF StoreInto
<1> HIDE DEF i, blk
<1>4. \A k \in Indices :
        /\ buffers'[k].block_num = buffers[k].block_num
        /\ buffers'[k].valid = buffers[k].valid
        /\ buffers'[k].dirty = buffers[k].dirty
        /\ DataOf(buffers'[k].block) = IF k = i THEN data ELSE DataOf(buffers[k].block)
  BY StoreBuffers DEF i
<1>5. job.stage = "none"
  BY <1>3 DEF Idle
<1>6. CASE ~buffers[i].valid
  <2>1. \A k \in Indices : buffers[k].valid => DataOf(buffers'[k].block) = DataOf(buffers[k].block)
    BY <1>4, <1>6
  <2> QED BY <1>3, <1>4, <1>5, <2>1, StoreStutter
<1>7. CASE buffers[i].valid
  <2>1. b \in Blocks
    BY <1>1, <1>7 DEF IInv, BufInv
  <2>2. Copies(buffers)[b] = DataOf(buffers[i].block) /\ Copies(buffers')[b] = data
    <3>1. Holds(buffers, i, b) /\ Holds(buffers', i, b)
      BY <1>1, <1>4, <1>7 DEF Holds
    <3> QED BY <1>1, <1>4, <2>1, <3>1, CopyOf, UniqueBuffers, UniqueAfter
  <2>3. Copies(buffers)[b] # NoBlock
    BY <1>1, <1>7, <2>1, InMemory, UniqueBuffers DEF IInv, TypeOK, Holds
  <2>4. ASSUME NEW x \in Blocks, x # b
        PROVE  Copies(buffers')[x] = Copies(buffers)[x]
    <3>1. \A k \in Indices : /\ Holds(buffers', k, x) <=> Holds(buffers, k, x)
                             /\ Holds(buffers, k, x) => k # i
      BY <1>4, <2>4 DEF Holds
    <3>2. CASE \E k \in Indices : Holds(buffers, k, x)
      BY <1>4, <3>1, <3>2, CopyOf, UniqueBuffers, UniqueAfter
    <3>3. CASE \A k \in Indices : ~Holds(buffers, k, x)
      BY <3>1, <3>3, CopyOf, UniqueBuffers, UniqueAfter
    <3> QED BY <3>2, <3>3
  <2> HIDE DEF b
  <2>5. Copies(buffers)' = [Copies(buffers) EXCEPT ![b] = Copies(buffers)'[b]]
    <3>1. /\ Copies(buffers') = [x \in Blocks |-> Copies(buffers')[x]]
          /\ Copies(buffers) = [x \in Blocks |-> Copies(buffers)[x]]
      BY DEF Copies
    <3>2. Copies(buffers') = [Copies(buffers) EXCEPT ![b] = Copies(buffers')[b]]
      BY <2>1, <2>4, <3>1
    <3> QED BY <3>2
  <2>6. Marks(buffers)' = Marks(buffers)
    <3>1. Marks(buffers') = Marks(buffers)
      BY <1>4, SameMarks DEF NeedsWrite
    <3> QED BY <3>1
  <2>7. /\ Sectors(disk)' = Sectors(disk) /\ HalfWritten(job, buffers) = NoBlock
        /\ HalfWritten(job, buffers)' = NoBlock
    BY <1>3, <1>5 DEF Sectors, HalfWritten
  <2>8. Store!Change(b, Copies(buffers)'[b])
    BY <2>3, <2>5, <2>6, <2>7 DEF Store!Change, Store!Quiet, Store!Cached
  <2> QED BY <2>1, <2>2, <2>8
<1> QED BY <1>6, <1>7

LEMMA Updates ==
  ASSUME IInv, IInv', buffers' = Updated, disk' = disk, job = Idle, job'.stage # "sector1"
  PROVE  UNCHANGED Store!storeVars \/ \E b \in Blocks : Store!Mark(b)
<1> DEFINE i == most_recent_buffer
           b == buffers[i].block_num
<1>1. i \in Indices /\ buffers[i] \in Buffer /\ job.stage = "none"
  BY DEF IInv, TypeOK, Idle
<1>2. CASE ~buffers[i].valid
  <2>1. buffers' = buffers
    BY <1>2 DEF Updated
  <2> QED BY <1>1, <2>1, StoreStutter
<1>3. CASE buffers[i].valid
  <2>1. buffers' = [buffers EXCEPT ![i] = [buffers[i] EXCEPT !.dirty = TRUE]]
    BY <1>3 DEF Updated
  <2>2. b \in Blocks
    BY <1>1, <1>3 DEF IInv, BufInv
  <2> HIDE DEF i
  <2>3. \A k \in Indices :
          /\ buffers'[k].block_num = buffers[k].block_num
          /\ buffers'[k].valid = buffers[k].valid
          /\ buffers'[k].dirty = IF k = i THEN TRUE ELSE buffers[k].dirty
          /\ buffers'[k].block = buffers[k].block
    BY <1>3, UpdateBuffers DEF i
  <2>4. Copies(buffers)' = Copies(buffers)
    <3>1. Copies(buffers') = Copies(buffers)
      BY <2>3, SameCopies, UniqueBuffers, UniqueAfter DEF Holds
    <3> QED BY <3>1
  <2>5. Copies(buffers)[b] # NoBlock
    BY <1>1, <1>3, <2>2, InMemory, UniqueBuffers DEF IInv, TypeOK, Holds
  <2>6. Marks(buffers)' = Marks(buffers) \cup {b}
    <3>1. \A k \in Indices : NeedsWrite(buffers', k) <=> NeedsWrite(buffers, k) \/ k = i
      BY <1>3, <2>3 DEF NeedsWrite
    <3>2. ASSUME NEW x \in Marks(buffers') PROVE x \in Marks(buffers) \cup {b}
      <4>1. PICK k \in Indices : NeedsWrite(buffers', k) /\ x = buffers'[k].block_num
        BY DEF Marks
      <4>2. CASE k = i
        BY <2>3, <4>1, <4>2
      <4>3. CASE k # i
        BY <2>3, <3>1, <4>1, <4>3 DEF Marks
      <4> QED BY <4>2, <4>3
    <3>3. ASSUME NEW x \in Marks(buffers) PROVE x \in Marks(buffers')
      <4>1. PICK k \in Indices : NeedsWrite(buffers, k) /\ x = buffers[k].block_num
        BY DEF Marks
      <4> QED BY <2>3, <3>1, <4>1 DEF Marks
    <3>4. b \in Marks(buffers')
      BY <1>1, <2>3, <3>1 DEF Marks
    <3> QED BY <3>2, <3>3, <3>4
  <2>7. /\ Sectors(disk)' = Sectors(disk) /\ HalfWritten(job, buffers) = NoBlock
        /\ HalfWritten(job, buffers)' = NoBlock
    BY <1>1 DEF Sectors, HalfWritten
  <2>8. Store!Mark(b)
    BY <2>4, <2>5, <2>6, <2>7 DEF Store!Mark, Store!Quiet, Store!Cached
  <2> QED BY <2>2, <2>8
<1> QED BY <1>2, <1>3

LEMMA Forgets == ASSUME Crash PROVE Store!Forget
<1>1. /\ \A i \in Indices : ~buffers'[i].valid
      /\ disk' = disk /\ job' = Idle
  BY DEF Crash, EmptyBuffer
<1>2. Copies(buffers)' = [b \in Blocks |-> NoBlock]
  BY <1>1 DEF Copies, Holds
<1>3. Marks(buffers)' = {}
  BY <1>1 DEF Marks, NeedsWrite
<1>4. Sectors(disk)' = Sectors(disk) /\ HalfWritten(job, buffers)' = NoBlock
  BY <1>1 DEF Sectors, HalfWritten, Idle
<1> QED BY <1>2, <1>3, <1>4 DEF Store!Forget

\* A hit and a miss change neither what is in memory nor what is marked.
LEMMA Gets ==
  ASSUME IInv, IInv', NEW c \in Clients, NEW b \in Blocks, NEW m, BlockGet(c, b, m)
  PROVE  UNCHANGED Store!storeVars
<1>1. job = Idle /\ job.stage = "none" /\ disk' = disk
  BY DEF BlockGet, Idle
<1>2. CASE Hits(b) # {}
  <2> DEFINE i == Lowest(Hits(b))
  <2>1. i \in Indices /\ buffers[i] \in Buffer
    BY <1>2, HitIn DEF Hits, IInv, TypeOK
  <2>2. buffers' = [buffers EXCEPT ![i] = [buffers[i] EXCEPT !.last_used = kernel_ticks]] /\ job' = job
    BY <1>2 DEF BlockGet, Hit
  <2> HIDE DEF i
  <2>3. \A k \in Indices : /\ buffers'[k].valid = buffers[k].valid
                           /\ buffers'[k].dirty = buffers[k].dirty
                           /\ buffers'[k].block_num = buffers[k].block_num
                           /\ buffers'[k].block = buffers[k].block
    BY <1>2, HitBuffers DEF BlockGet
  <2> QED BY <1>1, <2>2, <2>3, StoreStutter
<1>3. CASE Hits(b) = {}
  <2>1. buffers' = buffers /\ job'.stage \in {"sector0", "load"}
    BY <1>3 DEF BlockGet, Miss, cache
  <2> QED BY <1>1, <2>1, StoreStutter
<1> QED BY <1>2, <1>3

LEMMA StoreStep == IInv /\ IInv' /\ [Next]_vars => [Store!Next]_(Store!storeVars)
<1> SUFFICES ASSUME IInv, IInv', [Next]_vars PROVE Store!Next \/ UNCHANGED Store!storeVars
  OBVIOUS
<1>1. ASSUME NEW c \in Clients, NEW b \in Blocks, w_block(c, b) \/ run_editor(c, b)
      PROVE  UNCHANGED Store!storeVars
  BY <1>1, Gets DEF w_block, run_editor
<1>2. ASSUME NEW c \in Clients, NEW data \in Data, w_store(c, data) \/ EditKey(c, data)
      PROVE  Store!Next \/ UNCHANGED Store!storeVars
  <2>1. \/ UNCHANGED Store!storeVars
        \/ \E b \in Blocks : Store!Change(b, Copies(buffers)'[b]) /\ Copies(buffers)'[b] \in Data
    BY <1>2, Stores DEF w_store, EditKey
  <2> QED BY <2>1 DEF Store!Next
<1>3. ASSUME NEW c \in Clients, w_update(c) \/ EditEsc(c)
      PROVE  Store!Next \/ UNCHANGED Store!storeVars
  <2>1. job = Idle /\ buffers' = Updated /\ disk' = disk
    BY <1>3 DEF w_update, EditEsc
  <2>2. job'.stage # "sector1"
    <3>1. CASE w_update(c)
      BY <2>1, <3>1 DEF w_update, Idle
    <3>2. CASE EditEsc(c)
      BY <3>2, FlushJob DEF EditEsc, Proceed
    <3> QED BY <1>3, <3>1, <3>2
  <2>3. UNCHANGED Store!storeVars \/ \E b \in Blocks : Store!Mark(b)
    BY <2>1, <2>2, Updates
  <2> QED BY <2>3 DEF Store!Next
<1>4. ASSUME NEW c \in Clients, w_flush(c)
      PROVE  UNCHANGED Store!storeVars
  <2>1. buffers' = buffers /\ disk' = disk /\ job.stage = "none"
    BY <1>4 DEF w_flush, cache, Idle
  <2>2. job'.stage # "sector1"
    BY <1>4, FlushJob DEF w_flush, Proceed
  <2> QED BY <2>1, <2>2, StoreStutter
<1>5. CASE WriteSector0
  BY <1>5, FirstHalf DEF Store!Next
<1>6. CASE WriteSector1
  BY <1>6, SecondHalf DEF Store!Next
<1>7. CASE LoadBlock
  BY <1>7, Loads DEF Store!Next
<1>8. CASE Crash
  BY <1>8, Forgets DEF Store!Next
<1>9. CASE timer_handler_c \/ UNCHANGED vars
  <2>1. buffers' = buffers /\ disk' = disk /\ job' = job
    BY <1>9 DEF timer_handler_c, vars, cache
  <2>2. Copies(buffers)' = Copies(buffers) /\ Marks(buffers)' = Marks(buffers)
    BY <2>1 DEF Copies, Marks, Holds, NeedsWrite
  <2>3. Sectors(disk)' = Sectors(disk) /\ HalfWritten(job, buffers)' = HalfWritten(job, buffers)
    BY <2>1 DEF Sectors, HalfWritten
  <2> QED BY <2>2, <2>3 DEF Store!storeVars
<1> QED BY <1>1, <1>2, <1>3, <1>4, <1>5, <1>6, <1>7, <1>8, <1>9 DEF Next

\* The cache is the abstract store: each of its steps is a step of BlockStore
\* or leaves the store as it is, for any number of blocks, buffers and tasks.
THEOREM Refinement == Spec => ImplementsStore
<1>1. IInv /\ IInv' /\ [Next]_vars => [Store!Next]_(Store!storeVars)
  BY StoreStep
<1>2. Init => Store!Init
  BY StoreInit
<1> QED BY <1>1, <1>2, Invariance, PTL DEF Spec, ImplementsStore, Store!Spec

----------------------------------------------------------------------------
(* The editor.  While nobody disturbs it, its buffer is the one block_get  *)
(* returned last and has what was typed; after ESC the flush under way is  *)
(* its own, UPDATE has vouched for what was typed, and the buffers flush   *)
(* has passed are clean.                                                   *)

Editing(c) ==
    mode[c] = "edit" /\ ~(job.op = "get" /\ job.who = c) /\ disturbed[c] = {} =>
      /\ handle[c].buf = most_recent_buffer
      /\ Holds(buffers, most_recent_buffer, handle[c].blk)
      /\ DataOf(buffers[most_recent_buffer].block) = typed[c]

Saving(c) ==
    mode[c] = "saving" =>
      /\ job.op = "flush" /\ job.who = c
      /\ disturbed[c] = {} => handle[c].blk \in Blocks /\ promised[handle[c].blk] = typed[c]

Swept == job.op = "flush" => \A k \in Indices : k < job.idx => ~NeedsWrite(buffers, k)

EditInv == (\A c \in Clients : Editing(c) /\ Saving(c)) /\ Swept

Saved(c) ==
    /\ mode[c] \in {"edit", "saving"} /\ mode'[c] = "words" /\ crashes' = crashes
    /\ disturbed[c] = {}
    => DataOf(disk'[handle[c].blk]) = typed[c]

LEMMA FlushedSkips ==
  ASSUME NEW c, NEW bufs, NEW k \in Int
  PROVE  LET j == Flushed(c, bufs, k)
         IN  \A n \in Indices : n >= k /\ (j = Idle \/ n < j.idx) => ~NeedsWrite(bufs, n)
<1> DEFINE todo == {n \in Indices : n >= k /\ NeedsWrite(bufs, n)}
           j == Flushed(c, bufs, k)
<1>1. CASE todo = {}
  BY <1>1
<1>2. CASE todo # {}
  <2>1. todo \in SUBSET Nat
    BY BuffersAssumption DEF Indices
  <2>2. \A n \in todo : Lowest(todo) <= n
    <3> HIDE DEF todo
    <3> QED BY <1>2, <2>1, LowestIn
  <2>3. j = [op |-> "flush", who |-> c, blk |-> NoBlock, stage |-> "sector0", idx |-> Lowest(todo)]
    BY <1>2 DEF Flushed
  <2>4. j # Idle /\ j.idx = Lowest(todo)
    BY <2>3 DEF Idle
  <2>5. Lowest(todo) \in Int
    <3> HIDE DEF todo
    <3>1. Lowest(todo) \in todo
      BY <1>2, <2>1, LowestIn
    <3>2. todo \subseteq Int
      BY DEF todo, Indices
    <3> QED BY <3>1, <3>2
  <2> HIDE DEF j
  <2>6. ASSUME NEW n \in Indices, n >= k, n < j.idx PROVE ~NeedsWrite(bufs, n)
    <3>1. n \in Int /\ ~(Lowest(todo) <= n)
      BY <2>4, <2>5, <2>6 DEF Indices
    <3> QED BY <2>2, <2>6, <3>1
  <2> QED BY <2>4, <2>6 DEF j
<1> QED BY <1>1, <1>2

LEMMA ProceedIs ==
  ASSUME TypeOK, NEW c \in Clients, NEW j, NEW modes \in [Clients -> {"words", "edit", "saving"}],
         Proceed(j, c, modes)
  PROVE  /\ \A d \in Clients : d # c => /\ mode'[d] = modes[d] /\ handle'[d] = handle[d]
                                        /\ typed'[d] = typed[d] /\ disturbed'[d] = disturbed[d]
         /\ IF j = Idle /\ modes[c] = "saving" THEN mode'[c] = "words"
            ELSE /\ mode'[c] = modes[c] /\ handle'[c] = handle[c]
                 /\ typed'[c] = typed[c] /\ disturbed'[c] = disturbed[c]
  BY DEF Proceed, TypeOK

LEMMA ReturnIs ==
  ASSUME TypeOK, NEW c \in Clients, NEW i, NEW b, NEW blk, NEW m, Return(c, i, b, blk, m)
  PROVE  /\ most_recent_buffer' = i
         /\ handle'[c] = [buf |-> i, blk |-> b] /\ disturbed'[c] = {}
         /\ m = "edit" => typed'[c] = DataOf(blk)
         /\ \A d \in Clients : d # c => /\ handle'[d] = handle[d] /\ typed'[d] = typed[d]
                                        /\ mode[d] = "edit" => disturbed'[d] # {}
                                        /\ mode[d] # "edit" => disturbed'[d] = disturbed[d]
  BY DEF Return, TypeOK

LEMMA CleanIsKept ==
  ASSUME IInv', \A k \in Indices : ~NeedsWrite(buffers', k), NEW b \in Blocks
  PROVE  DataOf(disk'[b]) = promised'[b]
  BY DEF IInv, Kept, NeedsWrite

\* Nobody's editor is saving while no operation is under way.
LEMMA NoSaver ==
  ASSUME EditInv, job = Idle, NEW c \in Clients
  PROVE  mode[c] # "saving"
  BY DEF EditInv, Saving, Idle

LEMMA EditInit == Init => EditInv
  BY DEF Init, EditInv, Editing, Saving, Swept, Idle

LEMMA EditSector0 ==
  ASSUME IInv, EditInv, WriteSector0 PROVE EditInv' /\ \A c \in Clients : Saved(c)
<1>1. /\ mode' = mode /\ handle' = handle /\ typed' = typed /\ disturbed' = disturbed
      /\ promised' = promised /\ most_recent_buffer' = most_recent_buffer
      /\ job'.op = job.op /\ job'.who = job.who /\ job'.idx = job.idx
      /\ most_recent_buffer \in Indices
  BY DEF WriteSector0, IInv, TypeOK, Job
<1>2. \A k \in Indices : NeedsWrite(buffers', k) <=> NeedsWrite(buffers, k)
  BY Sector0Buffers DEF NeedsWrite
<1>3. \A c \in Clients : Editing(c)'
  BY <1>1, Sector0Buffers DEF EditInv, Editing, Holds
<1>4. (\A c \in Clients : Saving(c)') /\ Swept'
  BY <1>1, <1>2 DEF EditInv, Saving, Swept, NeedsWrite
<1>5. \A c \in Clients : Saved(c)
  BY <1>1 DEF Saved
<1> QED BY <1>3, <1>4, <1>5 DEF EditInv

LEMMA EditSector1 ==
  ASSUME IInv, IInv', EditInv, WriteSector1 PROVE EditInv' /\ \A c \in Clients : Saved(c)
<1> DEFINE i == job.idx
           w == job.who
           bufs == [buffers EXCEPT ![i].dirty = FALSE]
           j == IF job.op = "get" THEN [job EXCEPT !.stage = "load"] ELSE Flushed(w, bufs, i + 1)
<1>1. /\ i \in Indices /\ i \in Int /\ w \in Clients /\ most_recent_buffer \in Indices
      /\ job \in Job /\ job.op \in {"get", "flush"} /\ mode \in [Clients -> {"words", "edit", "saving"}]
  BY DEF WriteSector1, IInv, TypeOK, JobInv, Job, Idle, Indices
<1>2. /\ buffers' = bufs /\ Proceed(j, w, mode) /\ job' = j
      /\ promised' = promised /\ most_recent_buffer' = most_recent_buffer
  BY DEF WriteSector1, Proceed
<1>3. /\ \A d \in Clients : d # w => /\ mode'[d] = mode[d] /\ handle'[d] = handle[d]
                                     /\ typed'[d] = typed[d] /\ disturbed'[d] = disturbed[d]
      /\ IF j = Idle /\ mode[w] = "saving" THEN mode'[w] = "words"
         ELSE /\ mode'[w] = mode[w] /\ handle'[w] = handle[w]
              /\ typed'[w] = typed[w] /\ disturbed'[w] = disturbed[w]
  <2> HIDE DEF j, w
  <2> QED BY <1>1, <1>2, ProceedIs DEF IInv
<1>4. /\ job.op = "get" => j.op = "get" /\ j.who = w
      /\ job.op = "flush" => j.op # "get" /\ (j = Idle \/ (j.op = "flush" /\ j.who = w))
  <2>1. CASE job.op = "get"
    BY <1>1, <2>1 DEF Job
  <2>2. CASE job.op = "flush"
    <3>1. j = Flushed(w, bufs, i + 1) /\ i + 1 \in Int
      BY <1>1, <2>2
    <3> QED BY <1>1, <2>2, <3>1, FlushJob
  <2> QED BY <1>1, <2>1, <2>2
<1>5. job.op = "flush" =>
        \A n \in Indices : j = Idle \/ n < j.idx => ~NeedsWrite(buffers', n)
  <2> SUFFICES ASSUME job.op = "flush", NEW n \in Indices, j = Idle \/ n < j.idx
               PROVE  ~NeedsWrite(buffers', n)
    OBVIOUS
  <2>1. CASE n < i
    BY <1>1, <2>1, Sector1Buffers DEF EditInv, Swept, NeedsWrite
  <2>2. CASE n = i
    BY <2>2, Sector1Buffers DEF NeedsWrite
  <2>3. CASE n >= i + 1
    <3>1. j = Flushed(w, bufs, i + 1) /\ i + 1 \in Int
      BY <1>1
    <3>2. ~NeedsWrite(bufs, n)
      <4> HIDE DEF j, bufs, i, w
      <4> QED BY <2>3, <3>1, FlushedSkips
    <3> QED BY <1>2, <3>2
  <2> QED BY <1>1, <2>1, <2>2, <2>3 DEF Indices
<1> HIDE DEF i, w, bufs, j
<1>6. ASSUME NEW c \in Clients PROVE Editing(c)'
  <2> SUFFICES ASSUME mode'[c] = "edit", ~(job'.op = "get" /\ job'.who = c), disturbed'[c] = {}
               PROVE  /\ handle'[c].buf = most_recent_buffer'
                      /\ Holds(buffers', most_recent_buffer', handle'[c].blk)
                      /\ DataOf(buffers'[most_recent_buffer'].block) = typed'[c]
    BY DEF Editing
  <2>1. /\ mode[c] = "edit" /\ disturbed[c] = {} /\ handle'[c] = handle[c] /\ typed'[c] = typed[c]
    BY <1>3
  <2>2. ~(job.op = "get" /\ job.who = c)
    BY <1>2, <1>4 DEF w
  <2>3. /\ handle[c].buf = most_recent_buffer
        /\ Holds(buffers, most_recent_buffer, handle[c].blk)
        /\ DataOf(buffers[most_recent_buffer].block) = typed[c]
    BY <2>1, <2>2 DEF EditInv, Editing
  <2>4. /\ buffers'[most_recent_buffer].valid = buffers[most_recent_buffer].valid
        /\ buffers'[most_recent_buffer].block_num = buffers[most_recent_buffer].block_num
        /\ buffers'[most_recent_buffer].block = buffers[most_recent_buffer].block
    BY <1>1, Sector1Buffers
  <2> QED BY <1>2, <2>1, <2>3, <2>4 DEF Holds
<1>7. ASSUME NEW c \in Clients PROVE Saving(c)'
  <2> SUFFICES ASSUME mode'[c] = "saving" PROVE Saving(c)'
    BY DEF Saving
  <2>1. /\ mode[c] = "saving" /\ handle'[c] = handle[c] /\ typed'[c] = typed[c]
        /\ disturbed'[c] = disturbed[c]
    BY <1>3
  <2>2. job.op = "flush" /\ w = c
    BY <2>1 DEF EditInv, Saving, w
  <2>3. j # Idle
    BY <1>3, <2>1, <2>2
  <2> QED BY <1>2, <1>4, <2>1, <2>2, <2>3 DEF EditInv, Saving
<1>8. Swept'
  BY <1>1, <1>2, <1>4, <1>5 DEF Swept
<1>9. ASSUME NEW c \in Clients PROVE Saved(c)
  <2> SUFFICES ASSUME mode[c] \in {"edit", "saving"}, mode'[c] = "words", disturbed[c] = {}
               PROVE  DataOf(disk'[handle[c].blk]) = typed[c]
    BY DEF Saved
  <2>1. c = w /\ j = Idle /\ mode[c] = "saving"
    BY <1>3
  <2>2. job.op = "flush" /\ handle[c].blk \in Blocks /\ promised[handle[c].blk] = typed[c]
    BY <2>1 DEF EditInv, Saving
  <2>3. \A n \in Indices : ~NeedsWrite(buffers', n)
    BY <1>5, <2>1, <2>2
  <2> QED BY <1>2, <2>2, <2>3, CleanIsKept
<1> QED BY <1>6, <1>7, <1>8, <1>9 DEF EditInv

LEMMA EditBlockGet ==
  ASSUME IInv, EditInv, NEW c \in Clients, NEW b \in Blocks, NEW m \in {"words", "edit"},
         mode[c] = "words", BlockGet(c, b, m)
  PROVE  EditInv' /\ \A d \in Clients : Saved(d)
<1>1. /\ job = Idle /\ mode' = [mode EXCEPT ![c] = m] /\ promised' = promised
      /\ mode \in [Clients -> {"words", "edit", "saving"}]
  BY DEF BlockGet, IInv, TypeOK
<1>2. \A d \in Clients : mode[d] # "saving" /\ mode'[d] = (IF d = c THEN m ELSE mode[d])
  BY <1>1, NoSaver
<1>3. \A d \in Clients : Saving(d)' /\ Saved(d)
  BY <1>2 DEF Saving, Saved
<1>4. CASE Hits(b) # {}
  <2> DEFINE i == Lowest(Hits(b))
  <2>1. /\ Return(c, i, b, buffers[i].block, m) /\ job' = job /\ Hit(c, b, m)
    BY <1>4 DEF BlockGet, Hit
  <2>2. i \in Hits(b)
    BY <1>4, HitIn
  <2>3. i \in Indices /\ Holds(buffers, i, b)
    BY <2>2 DEF Hits, Holds
  <2> HIDE DEF i
  <2>4. /\ most_recent_buffer' = i
        /\ handle'[c] = [buf |-> i, blk |-> b]
        /\ m = "edit" => typed'[c] = DataOf(buffers[i].block)
        /\ \A d \in Clients : d # c /\ mode[d] = "edit" => disturbed'[d] # {}
    BY <2>1, ReturnIs DEF IInv
  <2>5. /\ buffers'[i].block_num = buffers[i].block_num
        /\ buffers'[i].valid = buffers[i].valid
        /\ buffers'[i].block = buffers[i].block
    BY <1>4, <2>1, <2>3, HitBuffers
  <2>6. Holds(buffers', i, b)
    BY <2>3, <2>5 DEF Holds
  <2>7. ASSUME NEW d \in Clients PROVE Editing(d)'
    <3>1. CASE d = c
      BY <1>2, <2>4, <2>5, <2>6, <3>1 DEF Editing
    <3>2. CASE d # c
      BY <1>2, <2>4, <3>2 DEF Editing
    <3> QED BY <3>1, <3>2
  <2>8. Swept'
    BY <1>1, <2>1 DEF Swept, Idle
  <2> QED BY <1>3, <2>7, <2>8 DEF EditInv
<1>5. CASE Hits(b) = {}
  <2>1. /\ job'.op = "get" /\ job'.who = c /\ buffers' = buffers /\ handle' = handle
        /\ most_recent_buffer' = most_recent_buffer /\ typed' = typed /\ disturbed' = disturbed
    BY <1>5 DEF BlockGet, Miss, cache
  <2>2. ASSUME NEW d \in Clients PROVE Editing(d)'
    <3>1. CASE d = c
      BY <2>1, <3>1 DEF Editing
    <3>2. CASE d # c
      <4>1. mode'[d] = mode[d] /\ ~(job.op = "get" /\ job.who = d)
        BY <1>1, <1>2, <3>2 DEF Idle
      <4> QED BY <2>1, <4>1 DEF EditInv, Editing, Holds
    <3> QED BY <3>1, <3>2
  <2>3. Swept'
    BY <2>1 DEF Swept
  <2> QED BY <1>3, <2>2, <2>3 DEF EditInv
<1> QED BY <1>4, <1>5

LEMMA EditLoad ==
  ASSUME IInv, EditInv, LoadBlock PROVE EditInv' /\ \A c \in Clients : Saved(c)
<1> DEFINE i == job.idx
           w == job.who
           b == job.blk
<1>1. /\ i \in Indices /\ w \in Clients /\ b \in Blocks /\ job.op = "get" /\ disk[b] \in Block
      /\ buffers \in [Indices -> Buffer]
  BY DEF LoadBlock, IInv, TypeOK, JobInv, Job, Idle
<1>2. /\ Return(w, i, b, disk[b], mode[w]) /\ job' = Idle /\ mode' = mode
      /\ buffers' = [buffers EXCEPT ![i] = [block_num |-> b, valid |-> TRUE, dirty |-> FALSE,
                                            last_used |-> kernel_ticks, block |-> disk[b]]]
  BY DEF LoadBlock
<1>3. \A d \in Clients : mode[d] # "saving"
  BY <1>1 DEF EditInv, Saving
<1>4. \A d \in Clients : Saving(d)' /\ Saved(d)
  BY <1>2, <1>3 DEF Saving, Saved
<1> HIDE DEF i, w, b
<1>5. /\ most_recent_buffer' = i
      /\ handle'[w] = [buf |-> i, blk |-> b]
      /\ mode[w] = "edit" => typed'[w] = DataOf(disk[b])
      /\ \A d \in Clients : d # w /\ mode[d] = "edit" => disturbed'[d] # {}
  BY <1>1, <1>2, ReturnIs DEF IInv
<1>6. buffers'[i].block = disk[b] /\ Holds(buffers', i, b)
  BY <1>1, <1>2 DEF Holds
<1>7. ASSUME NEW d \in Clients PROVE Editing(d)'
  <2>1. CASE d = w
    BY <1>2, <1>5, <1>6, <2>1 DEF Editing
  <2>2. CASE d # w
    BY <1>2, <1>5, <2>2 DEF Editing
  <2> QED BY <2>1, <2>2
<1>8. Swept'
  BY <1>2 DEF Swept, Idle
<1> QED BY <1>4, <1>7, <1>8 DEF EditInv

LEMMA EditStore ==
  ASSUME IInv, EditInv, NEW c \in Clients, NEW data \in Data, StoreInto(c, data),
         \/ mode[c] = "words" /\ typed' = typed
         \/ mode[c] = "edit" /\ typed' = [typed EXCEPT ![c] = data]
  PROVE  EditInv' /\ \A d \in Clients : Saved(d)
<1>1. /\ job = Idle /\ job' = Idle /\ mode' = mode /\ handle' = handle
      /\ most_recent_buffer' = most_recent_buffer /\ most_recent_buffer \in Indices
      /\ disturbed' = [d \in Clients |->
                       IF d # c /\ mode[d] = "edit" /\ handle[d].buf = handle[c].buf
                       THEN disturbed[d] \cup {"store"} ELSE disturbed[d]]
  BY DEF StoreInto, IInv, TypeOK
<1>2. \A d \in Clients : Saving(d)' /\ Saved(d)
  BY <1>1, NoSaver DEF Saving, Saved
<1>3. Swept'
  BY <1>1 DEF Swept, Idle
<1>4. ASSUME NEW d \in Clients PROVE Editing(d)'
  <2> SUFFICES ASSUME mode'[d] = "edit", disturbed'[d] = {}
               PROVE  /\ handle'[d].buf = most_recent_buffer'
                      /\ Holds(buffers', most_recent_buffer', handle'[d].blk)
                      /\ DataOf(buffers'[most_recent_buffer'].block) = typed'[d]
    BY DEF Editing
  <2>1. mode[d] = "edit" /\ disturbed[d] = {} /\ (d = c \/ handle[d].buf # handle[c].buf)
    BY <1>1
  <2>2. ~(job.op = "get" /\ job.who = d)
    BY <1>1 DEF Idle
  <2>3. /\ handle[d].buf = most_recent_buffer
        /\ Holds(buffers, most_recent_buffer, handle[d].blk)
        /\ DataOf(buffers[most_recent_buffer].block) = typed[d]
    BY <2>1, <2>2 DEF EditInv, Editing
  <2>4. /\ buffers'[most_recent_buffer].valid = buffers[most_recent_buffer].valid
        /\ buffers'[most_recent_buffer].block_num = buffers[most_recent_buffer].block_num
        /\ DataOf(buffers'[most_recent_buffer].block)
             = IF most_recent_buffer = handle[c].buf THEN data
               ELSE DataOf(buffers[most_recent_buffer].block)
    BY <1>1, StoreBuffers
  <2>5. typed'[d] = IF d = c THEN data ELSE typed[d]
    BY <2>1 DEF IInv, TypeOK
  <2> QED BY <1>1, <2>1, <2>3, <2>4, <2>5 DEF Holds
<1> QED BY <1>2, <1>3, <1>4 DEF EditInv

\* UPDATE leaves the editors' buffers and data as they are.
LEMMA EditUpdated ==
  ASSUME IInv, EditInv, job = Idle, buffers' = Updated, NEW d \in Clients,
         mode[d] = "edit", disturbed[d] = {}
  PROVE  /\ handle[d].buf = most_recent_buffer
         /\ Holds(buffers', most_recent_buffer, handle[d].blk)
         /\ DataOf(buffers'[most_recent_buffer].block) = typed[d]
<1>1. ~(job.op = "get" /\ job.who = d)
  BY DEF Idle
<1>2. /\ handle[d].buf = most_recent_buffer
      /\ Holds(buffers, most_recent_buffer, handle[d].blk)
      /\ DataOf(buffers[most_recent_buffer].block) = typed[d]
  BY <1>1 DEF EditInv, Editing
<1>3. /\ buffers'[most_recent_buffer].valid = buffers[most_recent_buffer].valid
      /\ buffers'[most_recent_buffer].block_num = buffers[most_recent_buffer].block_num
      /\ buffers'[most_recent_buffer].block = buffers[most_recent_buffer].block
  <2>1. most_recent_buffer \in Indices
    BY DEF IInv, TypeOK
  <2> QED BY <2>1, UpdateBuffers
<1> QED BY <1>2, <1>3 DEF Holds

LEMMA EditUpdate ==
  ASSUME IInv, EditInv, NEW c \in Clients, w_update(c)
  PROVE  EditInv' /\ \A d \in Clients : Saved(d)
<1>1. /\ job = Idle /\ job' = Idle /\ mode' = mode /\ handle' = handle /\ typed' = typed
      /\ disturbed' = disturbed /\ most_recent_buffer' = most_recent_buffer
      /\ buffers' = Updated
  BY DEF w_update
<1>2. \A d \in Clients : Saving(d)' /\ Saved(d)
  BY <1>1, NoSaver DEF Saving, Saved
<1>3. \A d \in Clients : Editing(d)'
  BY <1>1, EditUpdated DEF Editing
<1>4. Swept'
  BY <1>1 DEF Swept, Idle
<1> QED BY <1>2, <1>3, <1>4 DEF EditInv

\* Whoever flushes bufs from the first buffer on has passed clean buffers only.
LEMMA SweptFromStart ==
  ASSUME NEW c, job' = Flushed(c, buffers', 0)
  PROVE  /\ Swept'
         /\ job' = Idle => \A n \in Indices : ~NeedsWrite(buffers', n)
<1> DEFINE bufs == buffers'
           j == job'
<1>1. \A n \in Indices : n >= 0
  BY DEF Indices
<1>2. j = Flushed(c, bufs, 0)
  OBVIOUS
<1> HIDE DEF bufs, j
<1>3. \A n \in Indices : n >= 0 /\ (j = Idle \/ n < j.idx) => ~NeedsWrite(bufs, n)
  BY <1>2, FlushedSkips
<1>4. \A n \in Indices : (j = Idle \/ n < j.idx) => ~NeedsWrite(bufs, n)
  BY <1>1, <1>3
<1> QED BY <1>4 DEF Swept, j, bufs, NeedsWrite

LEMMA EditFlush ==
  ASSUME IInv, EditInv, NEW c \in Clients, w_flush(c)
  PROVE  EditInv' /\ \A d \in Clients : Saved(d)
<1> DEFINE j == Flushed(c, buffers, 0)
<1>1. /\ job = Idle /\ mode[c] = "words" /\ Proceed(j, c, mode) /\ job' = j
      /\ buffers' = buffers /\ most_recent_buffer' = most_recent_buffer
      /\ mode \in [Clients -> {"words", "edit", "saving"}]
  BY DEF w_flush, Proceed, cache, IInv, TypeOK
<1>2. j.op # "get"
  BY FlushJob
<1>3. Swept'
  BY <1>1, SweptFromStart
<1> HIDE DEF j
<1>4. \A d \in Clients : /\ mode'[d] = mode[d] /\ handle'[d] = handle[d]
                         /\ typed'[d] = typed[d] /\ disturbed'[d] = disturbed[d]
  BY <1>1, ProceedIs DEF IInv
<1>5. \A d \in Clients : Saving(d)' /\ Saved(d)
  BY <1>1, <1>4, NoSaver DEF Saving, Saved
<1>6. \A d \in Clients : ~(job.op = "get" /\ job.who = d)
  BY <1>1 DEF Idle
<1>7. \A d \in Clients : Editing(d)'
  BY <1>1, <1>2, <1>4, <1>6 DEF EditInv, Editing, Holds
<1> QED BY <1>3, <1>5, <1>7 DEF EditInv

LEMMA EditEscape ==
  ASSUME IInv, IInv', EditInv, NEW c \in Clients, EditEsc(c)
  PROVE  EditInv' /\ \A d \in Clients : Saved(d)
<1> DEFINE j == Flushed(c, Updated, 0)
           modes == [mode EXCEPT ![c] = "saving"]
<1>1. /\ job = Idle /\ mode[c] = "edit" /\ Proceed(j, c, modes) /\ job' = j
      /\ buffers' = Updated /\ promised' = Vouched /\ most_recent_buffer' = most_recent_buffer
      /\ modes \in [Clients -> {"words", "edit", "saving"}] /\ modes[c] = "saving"
      /\ \A d \in Clients : d # c => modes[d] = mode[d]
  BY DEF EditEsc, Proceed, IInv, TypeOK
<1>2. j.op # "get" /\ (j = Idle \/ (j.op = "flush" /\ j.who = c))
  BY FlushJob
<1>3. Swept' /\ (job' = Idle => \A n \in Indices : ~NeedsWrite(buffers', n))
  BY <1>1, SweptFromStart
<1> HIDE DEF j, modes
<1>4. /\ \A d \in Clients : d # c => /\ mode'[d] = mode[d] /\ handle'[d] = handle[d]
                                     /\ typed'[d] = typed[d] /\ disturbed'[d] = disturbed[d]
      /\ j = Idle => mode'[c] = "words"
      /\ j # Idle => /\ mode'[c] = "saving" /\ handle'[c] = handle[c]
                     /\ typed'[c] = typed[c] /\ disturbed'[c] = disturbed[c]
  BY <1>1, ProceedIs DEF IInv
<1>5. ASSUME disturbed[c] = {}
      PROVE  handle[c].blk \in Blocks /\ promised'[handle[c].blk] = typed[c]
  <2> DEFINE i == most_recent_buffer
  <2>1. i \in Indices /\ ~(job.op = "get" /\ job.who = c)
    BY <1>1 DEF IInv, TypeOK, Idle
  <2>2. /\ Holds(buffers, i, handle[c].blk) /\ DataOf(buffers[i].block) = typed[c]
    BY <1>1, <1>5, <2>1 DEF EditInv, Editing
  <2>3. buffers[i].block_num \in Blocks
    BY <2>1, <2>2 DEF Holds, IInv, BufInv
  <2> QED BY <1>1, <2>2, <2>3 DEF Vouched, Holds, IInv, TypeOK
<1>6. ASSUME NEW d \in Clients PROVE Editing(d)'
  <2>1. CASE d = c
    BY <1>4, <2>1 DEF Editing
  <2>2. CASE d # c
    BY <1>1, <1>4, <2>2, EditUpdated DEF Editing
  <2> QED BY <2>1, <2>2
<1>7. ASSUME NEW d \in Clients PROVE Saving(d)'
  <2>1. CASE d = c
    BY <1>1, <1>2, <1>4, <1>5, <2>1 DEF Saving
  <2>2. CASE d # c
    BY <1>1, <1>4, <2>2, NoSaver DEF Saving
  <2> QED BY <2>1, <2>2
<1>8. ASSUME NEW d \in Clients PROVE Saved(d)
  <2> SUFFICES ASSUME mode[d] \in {"edit", "saving"}, mode'[d] = "words", disturbed[d] = {}
               PROVE  DataOf(disk'[handle[d].blk]) = typed[d]
    BY DEF Saved
  <2>1. d = c /\ j = Idle
    BY <1>4
  <2>2. \A n \in Indices : ~NeedsWrite(buffers', n)
    BY <1>1, <1>3, <2>1
  <2> QED BY <1>5, <2>1, <2>2, CleanIsKept
<1> QED BY <1>3, <1>6, <1>7, <1>8 DEF EditInv

LEMMA EditNext ==
  IInv /\ IInv' /\ EditInv /\ [Next]_vars => EditInv' /\ \A c \in Clients : Saved(c)
<1> SUFFICES ASSUME IInv, IInv', EditInv, [Next]_vars
             PROVE  EditInv' /\ \A c \in Clients : Saved(c)
  OBVIOUS
<1>1. ASSUME NEW c \in Clients, NEW b \in Blocks, w_block(c, b) \/ run_editor(c, b)
      PROVE  EditInv' /\ \A d \in Clients : Saved(d)
  BY <1>1, EditBlockGet DEF w_block, run_editor
<1>2. ASSUME NEW c \in Clients, NEW data \in Data, w_store(c, data) \/ EditKey(c, data)
      PROVE  EditInv' /\ \A d \in Clients : Saved(d)
  BY <1>2, EditStore DEF w_store, EditKey
<1>3. ASSUME NEW c \in Clients, w_update(c) \/ w_flush(c) \/ EditEsc(c)
      PROVE  EditInv' /\ \A d \in Clients : Saved(d)
  BY <1>3, EditUpdate, EditFlush, EditEscape
<1>4. CASE WriteSector0 \/ WriteSector1 \/ LoadBlock
  BY <1>4, EditSector0, EditSector1, EditLoad
<1>5. CASE Crash
  <2>1. \A c \in Clients : mode'[c] = "words"
    BY <1>5 DEF Crash
  <2>2. crashes' # crashes /\ job'.op = "idle"
    BY <1>5 DEF Crash, Idle, IInv, TypeOK
  <2> QED BY <2>1, <2>2 DEF EditInv, Editing, Saving, Swept, Saved
<1>6. CASE timer_handler_c \/ UNCHANGED vars
  <2>1. /\ buffers' = buffers /\ most_recent_buffer' = most_recent_buffer /\ job' = job
        /\ handle' = handle /\ mode' = mode /\ promised' = promised /\ typed' = typed
        /\ disturbed' = disturbed
    BY <1>6 DEF timer_handler_c, vars, cache, ghosts
  <2> QED BY <2>1 DEF EditInv, Editing, Saving, Swept, Saved, Holds, NeedsWrite
<1> QED BY <1>1, <1>2, <1>3, <1>4, <1>5, <1>6 DEF Next

\* When run_editor returns after ESC the disk has what was typed, unless
\* another task got a block or stored into this one: for any number of blocks,
\* buffers and tasks, and whatever flush had to write before.
THEOREM EditorKeeps == Spec => EditorSaves
<1>1. IInv /\ IInv' /\ EditInv /\ [Next]_vars
        => EditInv' /\ [\A c \in Clients : Saved(c)]_vars
  BY EditNext
<1>2. Init => EditInv
  BY EditInit
<1>3. Spec => [][\A c \in Clients : Saved(c)]_vars
  BY <1>1, <1>2, Invariance, PTL DEF Spec
<1>4. (\A c \in Clients : Saved(c)) <=>
      \A c \in Clients :
          /\ mode[c] \in {"edit", "saving"} /\ mode'[c] = "words" /\ crashes' = crashes
          /\ disturbed[c] = {}
          => DataOf(disk'[handle[c].blk]) = typed[c]
  BY DEF Saved
<1> QED BY <1>3, <1>4, PTL DEF EditorSaves
=============================================================================
