------------------------------- MODULE Pages --------------------------------
(***************************************************************************)
(* Physical pages (kernel/memory/pmm.c) and the page tables built from     *)
(* them (kernel/memory/vmm.c), from pmm_init over the memory map of the    *)
(* BIOS to a running kernel that allocates, frees, maps and unmaps pages.  *)
(*                                                                         *)
(* Physical memory is numbered by pages, the memory map by bytes.  A page  *)
(* holds Fanout entries (512 in the machine); what is in a page its client *)
(* uses is Garbage, which read as a page table would look like entries.    *)
(***************************************************************************)
EXTENDS Integers, Sequences, FiniteSets, FiniteSetsExt

CONSTANTS MemoryMaps,  \* sequences of usable regions the BIOS may report
          Reserved,    \* regions reserved by pmm_init and heap_init, in order
          PageSize,    \* bytes in a page
          MaxPages,    \* PMM_MAX_MEMORY / PAGE_SIZE
          WordBits,    \* pages in one word of the bitmap: 32
          Fanout,      \* entries of a page table
          Boot,        \* the boot loader's tables: <<PML4, PDPT, PD>>
          Virts,       \* virtual pages that are mapped and unmapped
          MaxHeld      \* bound on the pages clients hold

Levels == 4
Page == 0 .. MaxPages - 1
Index == 0 .. Fanout - 1
VirtualPage == 0 .. Fanout * Fanout * Fanout * Fanout - 1

Bytes(r) == r.base .. r.base + r.length - 1
PageBytes(p) == p * PageSize .. (p + 1) * PageSize - 1

ASSUME PagesAssumption ==
    /\ PageSize \in Nat \ {0} /\ WordBits \in Nat \ {0}
    /\ MaxPages \in Nat /\ Fanout \in Nat \ {0, 1}
    /\ Boot \in Seq(Page) /\ Len(Boot) = Levels - 1
    /\ Virts \subseteq VirtualPage

\* Regions are given by their bytes.  What pmm_init and heap_init reserve starts at a
\* page; the boot loader's tables are different pages of it.
ASSUME RegionAssumption ==
    /\ MemoryMaps \subseteq Seq([base : Nat, length : Nat])
    /\ Reserved \in Seq([base : Nat, length : Nat])
    /\ \A i \in DOMAIN Reserved : Reserved[i].base % PageSize = 0
    /\ \A k \in DOMAIN Boot : \E i \in DOMAIN Reserved : PageBytes(Boot[k]) \subseteq Bytes(Reserved[i])
    /\ \A k, l \in DOMAIN Boot : Boot[k] = Boot[l] => k = l

VARIABLES total,           \* pmm_total_pages
          todo,            \* the regions pmm_init and heap_init still mark
          usable,          \* the memory map (constant)
          bitmap,          \* the pages whose bit is set
          pmm_used_pages,
          content,         \* what is in each page, read as a page table
          held,            \* the pages clients hold
          walk,            \* the vmm_map_range under way
          expected         \* what each virtual page was mapped to (history)

vars == <<total, todo, usable, bitmap, pmm_used_pages, content, held, walk, expected>>
pmm == <<total, todo, usable, bitmap, pmm_used_pages, held>>

NONE == -1
Entry(page, huge) == [present |-> TRUE, page |-> page, huge |-> huge]
Absent == [present |-> FALSE, page |-> 0, huge |-> FALSE]
Cleared == [i \in Index |-> Absent]
Garbage == [i \in Index |-> Entry(0, FALSE)]

Idle == [op |-> "idle"]
Panic(message) == [op |-> "panic", message |-> message]
Mapping(virt, phys, left, level, table) ==
    [op |-> "map", virt |-> virt, phys |-> phys, left |-> left,
     level |-> level, table |-> table]

-----------------------------------------------------------------------------
(* Boot.                                                                   *)

\* the tables of the boot loader: one huge page, at virtual address 0
BootTable(k) == [Cleared EXCEPT ![0] = IF k = Len(Boot) THEN Entry(0, TRUE)
                                                        ELSE Entry(Boot[k + 1], FALSE)]

Ceil(bytes) == (bytes + PageSize - 1) \div PageSize
Floor(bytes) == bytes \div PageSize

TotalPages(map) ==
    Min({MaxPages, Floor(Max({0} \cup {r.base + r.length : r \in map}))})

Init ==
    /\ \E map \in MemoryMaps :
         LET regions == {map[i] : i \in DOMAIN map}
         IN  /\ usable = regions
             /\ total = TotalPages(regions)
             /\ todo = [i \in DOMAIN map |-> [mark |-> "free", region |-> map[i]]] \o
                       [i \in DOMAIN Reserved |-> [mark |-> "used", region |-> Reserved[i]]]
    /\ bitmap = Page
    /\ pmm_used_pages = total
    /\ content = [p \in Page |-> IF \E k \in DOMAIN Boot : Boot[k] = p
                                 THEN BootTable(CHOOSE k \in DOMAIN Boot : Boot[k] = p)
                                 ELSE Garbage]
    /\ held = {} /\ walk = Idle
    /\ expected = [v \in VirtualPage |-> IF v < Fanout THEN v ELSE NONE]

\* mutant: the counter moves without a look at the bit
MutSetBlind(pages) ==
    /\ bitmap' = bitmap \cup pages
    /\ pmm_used_pages' = pmm_used_pages + Cardinality(pages)

\* bitmap_clear, bitmap_set and the counter, for those of the pages whose bit changes
Clear(pages) ==
    /\ bitmap' = bitmap \ pages
    /\ pmm_used_pages' = pmm_used_pages - Cardinality(pages \cap bitmap)

SetNew(pages) ==
    /\ bitmap' = bitmap \cup pages
    /\ pmm_used_pages' = pmm_used_pages + Cardinality(pages \ bitmap)

\* mutant: pages that lie partly in the region are freed too
MutMarkTouched(r) ==
    Clear({p \in 0 .. total - 1 : Floor(r.base) <= p /\ p < Ceil(r.base + r.length)})

\* the pages that lie wholly in the region
pmm_mark_region_free(r) ==
    Clear({p \in 0 .. total - 1 : Ceil(r.base) <= p /\ p < Floor(r.base + r.length)})

pmm_mark_region_used(r) ==
    SetNew({p \in 0 .. total - 1 : Floor(r.base) <= p /\ p < Floor(r.base) + Ceil(r.length)})

MarkRegion ==
    /\ todo # << >>
    /\ IF Head(todo).mark = "free" THEN pmm_mark_region_free(Head(todo).region)
                                   ELSE pmm_mark_region_used(Head(todo).region)
    /\ todo' = Tail(todo)
    /\ UNCHANGED <<total, usable, content, held, walk, expected>>

-----------------------------------------------------------------------------
(* Allocation.                                                             *)

Running == todo = << >> /\ walk = Idle

\* bitmap_find_free looks at whole words of the bitmap
Searched == {p \in 0 .. (total \div WordBits) * WordBits - 1 : p \notin bitmap}

\* mutant: the bit is not set
MutSetBitForgotten(pages) ==
    pmm_used_pages' = pmm_used_pages + Cardinality(pages) /\ UNCHANGED bitmap

\* pmm_alloc_page without its caller
AllocPage == Min(Searched)
SetBit(pages) ==
    /\ bitmap' = bitmap \cup pages
    /\ pmm_used_pages' = pmm_used_pages + Cardinality(pages)

\* the pages a client gets, and what it then writes into them
Hand(pages) ==
    /\ Cardinality(held \cup pages) <= MaxHeld
    /\ SetBit(pages)
    /\ held' = held \cup pages
    /\ content' = [p \in Page |-> IF p \in pages THEN Garbage ELSE content[p]]
    /\ UNCHANGED <<total, todo, usable, walk, expected>>

\* kernel_panic: nothing runs any more
Stop(message) == walk' = Panic(message) /\ UNCHANGED <<pmm, content, expected>>

pmm_alloc_page == Running /\ IF Searched # {} THEN Hand({AllocPage}) ELSE Stop("out of pages")

\* the starts of runs of count clear bits
Runs(count) == {s \in 0 .. total - count : s .. s + count - 1 \cap bitmap = {}}

pmm_alloc_pages(count) ==
    /\ Running
    /\ IF Runs(count) # {} THEN LET s == Min(Runs(count)) IN Hand(s .. s + count - 1)
                           ELSE Stop("no run of pages")

\* pmm_free_page is pmm_free_pages of one page
pmm_free_pages(start, count) ==
    LET pages == start .. start + count - 1
    IN  /\ Running
        /\ pages \subseteq held
        /\ Clear({p \in pages : p < total})
        /\ held' = held \ pages
        /\ UNCHANGED <<total, todo, usable, content, walk, expected>>

-----------------------------------------------------------------------------
(* Page tables.                                                            *)

\* the index of virtual page v in the table of a level: pml4_index .. pt_index
IndexAt(v, level) ==
    LET v3 == v \div Fanout
        v2 == v3 \div Fanout
        v1 == v2 \div Fanout
    IN  <<v1, v2, v3, v>>[level] % Fanout

\* the entries a walk for v reads: it stops at an absent entry or a huge page
EntryOf(v) ==
    LET below(e, level) == IF e.present /\ ~e.huge THEN content[e.page][IndexAt(v, level)] ELSE e
        e1 == content[Boot[1]][IndexAt(v, 1)]
        e2 == below(e1, 2)
        e3 == below(e2, 3)
    IN  <<e1, e2, e3, below(e3, 4)>>

\* huge pages are entries of a PD
vmm_get_phys(v) ==
    LET e == EntryOf(v)[Levels]
    IN  CASE ~e.present -> NONE
          [] e.huge -> e.page + IndexAt(v, Levels)
          [] OTHER -> e.page

\* vmm_map_range; vmm_map_page is a range of one page.  Its callers map outside
\* the huge pages of the boot loader.
vmm_map_range(v, phys, pages) ==
    /\ Running
    /\ v .. v + pages - 1 \subseteq Virts
    /\ \A w \in v .. v + pages - 1 : ~EntryOf(w)[Levels].huge
    /\ phys .. phys + pages - 1 \subseteq held
    /\ walk' = Mapping(v, phys, pages, 1, Boot[1])
    /\ UNCHANGED <<pmm, content, expected>>

\* vmm_get_or_create_table: the entry is there
GetTable ==
    LET e == content[walk.table][IndexAt(walk.virt, walk.level)]
    IN  /\ walk.op = "map" /\ walk.level < Levels /\ e.present
        /\ walk' = [walk EXCEPT !.level = @ + 1, !.table = e.page]
        /\ UNCHANGED <<pmm, content, expected>>

\* mutant: the new table is not cleared
MutNewTableDirty(page) ==
    [content EXCEPT ![walk.table][IndexAt(walk.virt, walk.level)] = Entry(page, FALSE)]

\* the new table's page is cleared before its entry is set
NewTable(page) ==
    [content EXCEPT ![page] = Cleared,
                    ![walk.table][IndexAt(walk.virt, walk.level)] = Entry(page, FALSE)]

CreateTable ==
    /\ walk.op = "map" /\ walk.level < Levels
    /\ ~content[walk.table][IndexAt(walk.virt, walk.level)].present
    /\ IF Searched = {} THEN Stop("out of pages")
       ELSE /\ SetBit({AllocPage})
            /\ content' = NewTable(AllocPage)
            /\ walk' = [walk EXCEPT !.level = @ + 1, !.table = AllocPage]
            /\ UNCHANGED <<total, todo, usable, held, expected>>

\* the page's entry; then the next page of the range, from the root again
SetEntry ==
    /\ walk.op = "map" /\ walk.level = Levels
    /\ content' = [content EXCEPT ![walk.table][IndexAt(walk.virt, Levels)] =
                                    Entry(walk.phys, FALSE)]
    /\ expected' = [expected EXCEPT ![walk.virt] = walk.phys]
    /\ walk' = IF walk.left = 1 THEN Idle
               ELSE Mapping(walk.virt + 1, walk.phys + 1, walk.left - 1, 1, Boot[1])
    /\ UNCHANGED pmm

\* the table and the level whose entry vmm_unmap_page clears, if it gets there
vmm_unmap_page(v) ==
    LET e == EntryOf(v)
        level == IF e[Levels].huge THEN Levels - 1 ELSE Levels
        table == e[level - 1].page
    IN  /\ Running
        /\ e[level - 1].present
        /\ content' = [content EXCEPT ![table][IndexAt(v, level)] = Absent]
        /\ expected' = [w \in VirtualPage |->
               IF w = v \/ (level < Levels /\ w \div Fanout = v \div Fanout)
               THEN NONE ELSE expected[w]]
        /\ UNCHANGED <<pmm, walk>>

Halted == walk.op = "panic" /\ UNCHANGED vars

Next ==
    \/ MarkRegion
    \/ pmm_alloc_page
    \/ \E count \in 1 .. 2 : pmm_alloc_pages(count)
    \/ \E p \in held, count \in 1 .. 2 : pmm_free_pages(p, count)
    \/ \E v \in Virts, p \in held, count \in 1 .. 2 : vmm_map_range(v, p, count)
    \/ GetTable \/ CreateTable \/ SetEntry
    \/ \E v \in Virts : vmm_unmap_page(v)
    \/ Halted

Spec == Init /\ [][Next]_vars

-----------------------------------------------------------------------------
(* Properties.                                                             *)

EntrySet == {Absent} \cup [present : {TRUE}, page : Page, huge : BOOLEAN]
Walks == [op : {"idle"}]
         \cup [op : {"panic"}, message : {"out of pages", "no run of pages"}]
         \cup [op : {"map"}, virt : VirtualPage, phys : Page, left : Nat \ {0},
               level : 1 .. Levels, table : Page]

TypeOK ==
    /\ total \in 0 .. MaxPages /\ bitmap \subseteq Page /\ held \subseteq Page
    /\ pmm_used_pages \in 0 .. MaxPages
    /\ todo \in Seq([mark : {"free", "used"}, region : [base : Nat, length : Nat]])
    /\ content \in [Page -> [Index -> EntrySet]]
    /\ walk \in Walks
    /\ expected \in [VirtualPage -> Int]

\* pmm_used_pages, counted up and down one by one, is the number of bits set, with
\* overlapping regions of the memory map and reserved pages that were never free.
CountExact == pmm_used_pages = Cardinality({p \in 0 .. total - 1 : p \in bitmap})

\* Once the kernel runs, a page that can be allocated or that a client holds lies
\* wholly in memory the BIOS called usable and in no region reserved at boot.
OnlyUsable ==
    todo = << >> =>
        \A p \in (Page \ bitmap) \cup held :
            /\ PageBytes(p) \subseteq UNION {Bytes(r) : r \in usable}
            /\ \A i \in DOMAIN Reserved : PageBytes(p) \cap Bytes(Reserved[i]) = {}

\* the entries that lead from a table of a level to one of the next
Leads(tables) == {x \in tables \X Index : LET e == content[x[1]][x[2]]
                                          IN  e.present /\ ~e.huge}
TablesAt == LET next(tables) == {content[x[1]][x[2]].page : x \in Leads(tables)}
                t1 == {Boot[1]}
                t2 == next(t1)
                t3 == next(t2)
            IN  <<t1, t2, t3, next(t3)>>

\* The pages of page tables belong to them alone: after boot their bits are set, no client
\* holds one, and no two entries lead to the same table (vmm_get_or_create_table).
TablesOwned ==
    LET inner == UNION {TablesAt[level] : level \in 1 .. Levels - 1}
        tables == inner \cup TablesAt[Levels]
    IN  /\ todo = << >> => tables \subseteq bitmap
        /\ tables \cap held = {}
        /\ \A x, y \in Leads(inner) :
              content[x[1]][x[2]].page = content[y[1]][y[2]].page => x = y

\* What vmm_get_phys finds for a virtual page is what it was last mapped to:
\* mapping or unmapping one page, with tables made from pages that held other
\* data before, changes no other.
MapExact == \A v \in VirtualPage : vmm_get_phys(v) = expected[v]

\* What the panic of pmm_alloc_page says ("Out of physical memory!") is true.
OutOfMemoryTrue == walk = Panic("out of pages") => 0 .. total - 1 \subseteq bitmap
=============================================================================
