----------------------------- MODULE KernelPaging -----------------------------
(***************************************************************************)
(* The kernel's page tables: setup_paging, map and unmap, and the TLB that *)
(* stands between them and the CPU.                                        *)
(*                                                                         *)
(* The kernel reaches the table in frame f through the page                *)
(* f + KERNEL_OFFSET.                                                      *)
(***************************************************************************)
EXTENDS PageTables, Sequences, FiniteSets

CONSTANTS
  Frames,       \* the page frames
  BootMem,      \* the page tables the boot loader left, by frame
  BootPml4,     \* the frame of the boot loader's PML4
  KernelFrame,  \* the first frame of the kernel image
  KernelPages,  \* the pages of the image, its heap included
  HeapFirst,    \* the first page of the image kmalloc can use for a table
  HeapTables,   \* how many tables kmalloc can give
  SmallRuns,    \* the [page, frame, count] map_4k is called with
  LargeRuns,    \* those map_2m and unmap_2m are called with
  UnmapRuns,    \* those unmap_4k is called with
  Rsdps,        \* where the RSDP may be: its page, and whether it crosses into the next
  Touched       \* the pages the kernel accesses

Pages == 0 .. (Fan * Fan * Fan * Fan) - 1

KERNEL_BASE == (Fan \div 2) * Fan * Fan * Fan

KERNEL_OFFSET == KERNEL_BASE - KernelFrame

KernelFrames == KernelFrame .. KernelFrame + KernelPages - 1

ASSUME PagingAssumption ==
  /\ Frames \subseteq Nat /\ KernelFrames \subseteq Frames /\ BootPml4 \in Frames
  /\ KernelFrame \in Nat /\ KernelPages \in Nat
  /\ HeapFirst \in Nat \ {0} /\ HeapTables \in Nat /\ HeapFirst + HeapTables <= KernelPages

VARIABLES
  mem,      \* what each frame holds when it is read as a page table
  tables,   \* how many tables kmalloc has given
  cr3,      \* the frame of the table the CPU walks from
  tlb,      \* translations the CPU has cached
  asked,    \* the last call, kept for the properties
  mode      \* "boot", "kernel", or "fault" once a wild or null pointer is used

vars == <<mem, tables, cr3, tlb, asked, mode>>

(***************************************************************************)
(* Pointers while the boot loader's tables are in use: the frame one leads *)
(* to, Nowhere if the CPU faults.  Tables are found at their physical      *)
(* addresses, which the boot loader maps to themselves up to a megabyte.   *)
(***************************************************************************)
Deref(m, p) == IF p = Nowhere THEN Nowhere ELSE Walk(m, BootPml4, p)

EntryAt(m, p, i) == Entry(m, Deref(m, p), i)

IsLink(e) == Present(e) /\ ~e.large

(* Looks for large pages one level too high, and takes an entry for a      *)
(* large page as a pointer to a table.  0 is "not mapped".                 *)
virt_to_phys(m, v) ==
  LET e4 == EntryAt(m, BootPml4, Index4(v))
      e3 == EntryAt(m, e4.to, Index3(v))
      e2 == EntryAt(m, e3.to, Index2(v))
      e1 == EntryAt(m, e2.to, Index1(v))
      faults == \E e \in {e4, e3, e2} : Present(e) /\ Deref(m, e.to) = Nowhere
  IN  CASE e4.large -> e4.to + (v % (Fan * Fan))
        [] ~e4.large /\ e3.large -> e3.to + (v % Fan)
        [] ~e4.large /\ ~e3.large ->
             IF faults THEN Nowhere ELSE IF Present(e1) THEN e1.to ELSE 0

(***************************************************************************)
(* setup_paging: a deep copy of the upper half of the boot loader's tree,  *)
(* each table into the next page of the heap.  It works on a record: the   *)
(* frames as they are so far, the tables kmalloc gave, and the page of the *)
(* last copy, Nowhere after a page fault.                                  *)
(***************************************************************************)
HeapPage(n) == KERNEL_BASE + HeapFirst + n

(* The null pointer kmalloc gives when the heap is used up is not tested.  *)
NULL == 0

NewPage(s) == IF s.tables < HeapTables THEN HeapPage(s.tables) ELSE NULL

memcpy(s, to, from) ==
  LET t == Deref(s.mem, to)
      f == Deref(s.mem, from)
  IN  IF Nowhere \in {t, f} THEN [s EXCEPT !.at = Nowhere]
      ELSE [s EXCEPT !.mem[t] = s.mem[f], !.at = to]

(* Entry i of the table at page p, a link, is turned to a copy of what it  *)
(* led to.                                                                 *)
CopyLink(s, p, i) ==
  LET new    == NewPage(s)
      given  == [s EXCEPT !.tables = IF @ < HeapTables THEN @ + 1 ELSE @]
      filled == memcpy(given, new, EntryAt(s.mem, p, i).to)
      phys   == virt_to_phys(filled.mem, new)
  IN  IF filled.at = Nowhere \/ phys = Nowhere THEN [filled EXCEPT !.at = Nowhere]
      ELSE [filled EXCEPT !.mem[Deref(filled.mem, p)][i] = Link(phys)]

(* The loop over the entries of the table at page p; Into is the one       *)
(* nested in it, over the entries of the copy.                             *)
CopyLinks(s, p, first, Into(_)) ==
  LET after[n \in first .. Fan] ==
        IF n = first THEN s
        ELSE IF after[n - 1].at = Nowhere \/ ~IsLink(EntryAt(after[n - 1].mem, p, n - 1))
             THEN after[n - 1]
             ELSE Into(CopyLink(after[n - 1], p, n - 1))
  IN  after[Fan]

NoLoop(s) == s

(* Mutant: the tables under a directory stay the boot loader's.            *)
CopyDirectory_Shallow(s) == s

CopyDirectory(s) == CopyLinks(s, s.at, 0, NoLoop)

CopyPdpt(s) == CopyLinks(s, s.at, 0, CopyDirectory)

(* Mutant: the first entry of the upper half is cleared too.               *)
UpperHalf_ClearsOneMore(t) == [s \in Slots |-> IF s <= Fan \div 2 THEN Absent ELSE t[s]]

UpperHalf(t) == [s \in Slots |-> IF s < Fan \div 2 THEN Absent ELSE t[s]]

(* The kernel's own PML4 stands for the first page of the image.           *)
Pml4Frame == KernelFrame

CopyTree ==
  LET whole == memcpy([mem |-> mem, tables |-> tables, at |-> Nowhere], KERNEL_BASE, BootPml4)
      upper == [whole EXCEPT !.mem[Deref(mem, KERNEL_BASE)] = UpperHalf(@)]
  IN  CopyLinks(upper, KERNEL_BASE, Fan \div 2, CopyPdpt)

setup_paging ==
  /\ mode = "boot"
  /\ \E s \in {CopyTree} :
       /\ mem' = s.mem /\ tables' = s.tables
       /\ \E root \in {virt_to_phys(s.mem, KERNEL_BASE)} :
            IF s.at = Nowhere \/ root = Nowhere THEN mode' = "fault" /\ UNCHANGED cr3
            ELSE mode' = "kernel" /\ cr3' = root
  /\ tlb' = {}
  /\ asked' = [op |-> "leave"]

(***************************************************************************)
(* Mapping.  A call works on a record: the tables as they are so far and   *)
(* the table it has reached, Nowhere once it has followed a null pointer   *)
(* or one that leads out of the kernel image.                              *)
(***************************************************************************)
Start == [mem |-> mem, tables |-> tables, at |-> Pml4Frame, tlb |-> tlb]

(* Mutant: the heap gives one table too many.                              *)
get_or_create_table_OneTooMany(s, i) ==
  CASE s.at \notin KernelFrames -> [s EXCEPT !.at = Nowhere]
    [] s.at \in KernelFrames /\ Present(s.mem[s.at][i]) -> [s EXCEPT !.at = s.mem[s.at][i].to]
    [] s.at \in KernelFrames /\ ~Present(s.mem[s.at][i]) ->
         IF s.tables > HeapTables THEN [s EXCEPT !.at = Nowhere]
         ELSE LET new == KernelFrame + HeapFirst + s.tables
              IN  [s EXCEPT !.mem[s.at][i] = Link(new), !.mem[new] = EmptyTable,
                            !.tables = @ + 1, !.at = new]

(* Mutant: the new table is not linked into its parent.                    *)
get_or_create_table_Unlinked(s, i) ==
  CASE s.at \notin KernelFrames -> [s EXCEPT !.at = Nowhere]
    [] s.at \in KernelFrames /\ Present(s.mem[s.at][i]) -> [s EXCEPT !.at = s.mem[s.at][i].to]
    [] s.at \in KernelFrames /\ ~Present(s.mem[s.at][i]) ->
         IF s.tables = HeapTables THEN [s EXCEPT !.at = Nowhere]
         ELSE LET new == KernelFrame + HeapFirst + s.tables
              IN  [s EXCEPT !.mem[new] = EmptyTable, !.tables = @ + 1, !.at = new]

get_or_create_table(s, i) ==
  CASE s.at \notin KernelFrames -> [s EXCEPT !.at = Nowhere]
    [] s.at \in KernelFrames /\ Present(s.mem[s.at][i]) -> [s EXCEPT !.at = s.mem[s.at][i].to]
    [] s.at \in KernelFrames /\ ~Present(s.mem[s.at][i]) ->
         IF s.tables = HeapTables THEN [s EXCEPT !.at = Nowhere]
         ELSE LET new == KernelFrame + HeapFirst + s.tables
              IN  [s EXCEPT !.mem[s.at][i] = Link(new), !.mem[new] = EmptyTable,
                            !.tables = @ + 1, !.at = new]

Store(s, i, e) ==
  IF s.at \in KernelFrames THEN [s EXCEPT !.mem[s.at][i] = e] ELSE [s EXCEPT !.at = Nowhere]

FromRoot(s) == [s EXCEPT !.at = Pml4Frame]

DirectoryOf(s, v) ==
  get_or_create_table(get_or_create_table(FromRoot(s), Index4(v)), Index3(v))

MapSmall(s, r, i) ==
  LET v == r.page + i
  IN  Store(get_or_create_table(DirectoryOf(s, v), Index2(v)), Index1(v), Link(r.frame + i))

(* Large pages too advance by one small page per iteration.                *)
MapLarge(s, r, i) ==
  LET v == r.page + i
  IN  Store(DirectoryOf(s, v), Index2(v), Large(r.frame + i))

(* The loop of a call: iteration after iteration until one goes wild.      *)
Loop(Iterate(_, _, _), r) ==
  LET after[n \in 0 .. r.count] ==
        IF n = 0 THEN Start
        ELSE IF after[n - 1].at = Nowhere THEN after[n - 1]
        ELSE Iterate(after[n - 1], r, n - 1)
  IN  after[r.count]

Finish(s) ==
  /\ mem' = s.mem /\ tables' = s.tables /\ tlb' = s.tlb
  /\ mode' = IF s.at = Nowhere THEN "fault" ELSE mode
  /\ UNCHANGED cr3

(* A run of n-page units, as asked for.                                    *)
Ask(op, r, n) == asked' = [op |-> op, page |-> r.page, count |-> n * r.count]

(* The kernel maps what is not mapped, as parseRSDP does.                  *)
Unmapped(first, n) == \A v \in first .. first + n - 1 : Walk(mem, cr3, v) = Nowhere

map_4k(r) ==
  /\ mode = "kernel"
  /\ Unmapped(r.page, r.count)
  /\ Ask("map", r, 1)
  /\ Finish(Loop(MapSmall, r))

map_2m(r) ==
  /\ mode = "kernel"
  /\ Unmapped(r.page, r.count * Fan)
  /\ Ask("map", r, Fan)
  /\ Finish(Loop(MapLarge, r))

(***************************************************************************)
(* Unmapping.  A table that is missing ends the iteration, not the call.   *)
(***************************************************************************)
Missing == -2

get_table_if_exists(s, i) ==
  CASE s.at = Missing -> s
    [] s.at # Missing /\ s.at \notin KernelFrames -> [s EXCEPT !.at = Nowhere]
    [] s.at \in KernelFrames ->
         [s EXCEPT !.at = IF Present(s.mem[s.at][i]) THEN s.mem[s.at][i].to ELSE Missing]

Covers(e, v) == v \in e.page .. e.page + e.span - 1

(* Mutant: no invlpg.                                                      *)
flush_tlb_single_Never(cached, v) == cached

flush_tlb_single(cached, v) == {e \in cached : ~Covers(e, v)}

(* Every iteration flushes the first page of the call.                     *)
Clear(s, i, r) ==
  CASE s.at = Missing -> FromRoot(s)
    [] s.at # Missing /\ s.at \notin KernelFrames -> [s EXCEPT !.at = Nowhere]
    [] s.at \in KernelFrames ->
         [s EXCEPT !.mem[s.at][i] = Absent, !.tlb = flush_tlb_single(@, r.page)]

ExistingDirectory(s, v) ==
  get_table_if_exists(get_table_if_exists(FromRoot(s), Index4(v)), Index3(v))

UnmapSmall(s, r, i) ==
  LET v == r.page + i
  IN  Clear(get_table_if_exists(ExistingDirectory(s, v), Index2(v)), Index1(v), r)

UnmapLarge(s, r, i) ==
  LET v == r.page + i
  IN  Clear(ExistingDirectory(s, v), Index2(v), r)

unmap_4k(r) ==
  /\ mode = "kernel"
  /\ Ask("unmap", r, 1)
  /\ Finish(Loop(UnmapSmall, r))

unmap_2m(r) ==
  /\ mode = "kernel"
  /\ Ask("unmap", r, Fan)
  /\ Finish(Loop(UnmapLarge, r))

(***************************************************************************)
(* main, after setup_paging: parseRSDP maps one page, copies the RSDP and  *)
(* unmaps the page.                                                        *)
(***************************************************************************)
parseRSDP(d) ==
  /\ mode = "kernel" /\ asked.op = "leave"
  /\ asked' = [op |-> "borrow"]
  /\ LET r      == [page |-> d.page, frame |-> d.page, count |-> 1]
         mapped == Loop(MapSmall, r)
         read   == [mapped EXCEPT !.tlb = @ \cup {Translation(mapped.mem, cr3, d.page)}]
         fails  == \/ mapped.at = Nowhere
                   \/ d.crosses /\ Walk(mapped.mem, cr3, d.page + 1) = Nowhere
     IN  \/ fails /\ Finish([mapped EXCEPT !.at = Nowhere])
         \/ ~fails /\ Finish(UnmapSmall(read, r, 0))

(* The CPU translates page v, by the TLB if it can.                        *)
Touch(v) ==
  /\ mode = "kernel"
  /\ ~ \E e \in tlb : Covers(e, v)
  /\ Walk(mem, cr3, v) # Nowhere
  /\ tlb' = tlb \cup {Translation(mem, cr3, v)}
  /\ UNCHANGED <<mem, tables, cr3, asked, mode>>

Init ==
  /\ mem = [f \in Frames |-> IF f \in DOMAIN BootMem THEN BootMem[f] ELSE EmptyTable]
  /\ tables = 0
  /\ cr3 = BootPml4
  /\ tlb = {}
  /\ asked = [op |-> "boot"]
  /\ mode = "boot"

Next ==
  \/ setup_paging
  \/ \E d \in Rsdps : parseRSDP(d)
  \/ \E r \in SmallRuns : map_4k(r)
  \/ \E r \in UnmapRuns : unmap_4k(r)
  \/ \E r \in LargeRuns : map_2m(r)
  \/ \E r \in LargeRuns : unmap_2m(r)
  \/ \E v \in Touched : Touch(v)

Spec == Init /\ [][Next]_vars

(***************************************************************************)
(* Properties.                                                             *)
(***************************************************************************)
EntryType == [to : Frames \cup {Nowhere}, large : BOOLEAN]

TypeOK ==
  /\ mem \in [Frames -> [Slots -> EntryType]]
  /\ tables \in 0 .. HeapTables
  /\ cr3 \in Frames
  /\ \A e \in tlb : e.page \in Pages /\ e.span \in {1, Fan} /\ e.frame \in Frames
  /\ mode \in {"boot", "kernel", "fault"}

(* The entries on the way to page v, from the table in frame root.         *)
Entry4(m, root, v) == Entry(m, root, Index4(v))
Entry3(m, root, v) == Entry(m, Entry4(m, root, v).to, Index3(v))
Entry2(m, root, v) == Entry(m, Entry3(m, root, v).to, Index2(v))
Entry1(m, root, v) == Entry(m, Entry2(m, root, v).to, Index1(v))

Spans(e) == \A i \in 0 .. Fan - 1 : e.to + i \in Frames

(* The tables under the entries first of the table in frame root, by the   *)
(* slots that lead to them.                                                *)
TableOf(m, root, name) ==
  LET t4 == Entry(m, root, name[1])
      t3 == Entry(m, t4.to, name[2])
      t2 == Entry(m, t3.to, name[3])
  IN  IF Len(name) = 1 THEN t4 ELSE IF Len(name) = 2 THEN t3 ELSE t2

NamesOf(m, root, first) ==
  LET n1 == {n \in {<<i>> : i \in first} : IsLink(TableOf(m, root, n))}
      n2 == {n \in {Append(l, j) : l \in n1, j \in Slots} : IsLink(TableOf(m, root, n))}
      n3 == {n \in {Append(l, k) : l \in n2, k \in Slots} : IsLink(TableOf(m, root, n))}
  IN  n1 \cup n2 \cup n3

Upper == {s \in Slots : s >= Fan \div 2}

(* The boot loader's tables, where the properties rest on them: they are   *)
(* outside the kernel image, at pages that lead to themselves; no large    *)
(* page hangs above a directory, and the image is in small pages; and the  *)
(* heap has room for a copy of each table of the upper half.               *)
InPlace(f) == f \in Pages \ KernelFrames /\ Walk(BootMem, BootPml4, f) = f

BootSound ==
  /\ DOMAIN BootMem \subseteq Frames
  /\ \A f \in DOMAIN BootMem : BootMem[f] \in [Slots -> EntryType]
  /\ KERNEL_BASE + KernelPages <= Fan * Fan * Fan * Fan
  /\ InPlace(BootPml4)
  /\ Cardinality(NamesOf(BootMem, BootPml4, Upper)) <= HeapTables
  /\ \A v \in Pages :
       LET e4 == Entry4(BootMem, BootPml4, v)
           e3 == Entry3(BootMem, BootPml4, v)
           e2 == Entry2(BootMem, BootPml4, v)
       IN  /\ \A e \in {e4, e3, e2} : IsLink(e) => InPlace(e.to)
           /\ e2.large => Spans(e2)
           /\ ~e4.large /\ ~e3.large
           /\ v \in KERNEL_BASE .. KERNEL_BASE + KernelPages - 1 =>
                ~e2.large /\ Entry1(BootMem, BootPml4, v).to = KernelFrame + (v - KERNEL_BASE)

(* The pages the kernel maps as large ones.                                *)
InLarge(v) == \E r \in LargeRuns : v \div Fan = r.page \div Fan

RunType == [page : Pages, frame : Int, count : Nat]

(* The calls the kernel may make: what it maps are page frames; it unmaps  *)
(* pages of the lower half one by one; and no page is mapped in small      *)
(* pages now and as part of a large page then.                             *)
CallersSound ==
  /\ \A r \in SmallRuns \cup UnmapRuns \cup LargeRuns : r \in RunType
  /\ \A r \in SmallRuns : \A i \in 0 .. r.count - 1 :
       r.page + i \in Pages /\ ~InLarge(r.page + i) /\ r.frame + i \in Frames
  /\ \A r \in UnmapRuns : r.count = 1 /\ r.page < KERNEL_BASE /\ ~InLarge(r.page)
  /\ \A r \in LargeRuns :
       /\ r.count = 1 /\ r.page < KERNEL_BASE /\ Index1(r.page) = 0
       /\ \A i \in 0 .. Fan - 1 : r.frame + i \in Frames
  /\ \A d \in Rsdps :
       d.page \in Pages \cap Frames /\ d.page < KERNEL_BASE /\ ~InLarge(d.page)
  /\ Touched \subseteq Pages

Translations == INSTANCE AddressSpace WITH
  Lower  <- 0 .. KERNEL_BASE - 1,
  Runs   <- SmallRuns \cup UnmapRuns \cup {[page |-> r.page, frame |-> r.frame, count |-> Fan * r.count] :
                                            r \in LargeRuns},
  space  <- [v \in Pages |-> Walk(mem, cr3, v)],
  halted <- (mode = "fault")

(* Four levels of tables behave as one map: leaving the boot loader's      *)
(* tables keeps the kernel where it was, and mapping or unmapping some     *)
(* pages moves no other page, even when the heap gives out half way.       *)
ImplementsAddressSpace == Translations!Spec

(* What the CPU has cached is what the tables say: no access reaches a     *)
(* frame its page no longer leads to.                                      *)
TlbCoherent ==
  mode = "kernel" =>
    \A e \in tlb : \A v \in e.page .. e.page + e.span - 1 :
      Walk(mem, cr3, v) = e.frame + (v - e.page)

(* Every table lies in the kernel's heap, hangs from exactly one slot, and *)
(* every table the heap gave is in use: the kernel shares no table with    *)
(* the boot loader and leaks none.                                         *)
TablesOwned ==
  mode = "kernel" =>
    /\ {TableOf(mem, cr3, n).to : n \in NamesOf(mem, cr3, Slots)} =
         {KernelFrame + HeapFirst + i : i \in 0 .. tables - 1}
    /\ Cardinality(NamesOf(mem, cr3, Slots)) = tables

(* The kernel image stays mapped at KERNEL_BASE + i, to consecutive        *)
(* frames: the sums with KERNEL_OFFSET rest on it.                         *)
KernelMapped ==
  \A i \in 0 .. KernelPages - 1 : Walk(mem, cr3, KERNEL_BASE + i) = KernelFrame + i

(* setup_paging gets the kernel into tables of its own, as it is there to. *)
PagingIsSetUp == asked.op = "leave" => mode = "kernel"
=============================================================================
