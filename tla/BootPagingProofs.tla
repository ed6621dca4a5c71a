--------------------------- MODULE BootPagingProofs ---------------------------
(***************************************************************************)
(* What holds of kmalloc for every heap, and what mapping a page does to   *)
(* the heap and to the tables there are: however many of its three tables  *)
(* are made, and whether the heap has room for them or not, what has been  *)
(* given away stays apart and inside, and the tables of the first megabyte *)
(* stay what they are.  While there is room, the tables are a tree that    *)
(* maps each page to the frame it is meant for, or not at all.             *)
(***************************************************************************)
EXTENDS BootPaging, PageTableProofs, Sequences, FiniteSetTheorems, TLAPS

(***************************************************************************)
(* kmalloc, for every heap and every sequence of requests.                 *)
(***************************************************************************)
(* AlignUp, where the sum does not wrap: the next multiple of a.           *)
LEMMA AlignUpNext ==
  ASSUME NEW x \in Nat, NEW a \in Nat \ {0}, W \in Nat, x + a < W
  PROVE  /\ AlignUp(x, a) \in Nat
         /\ x <= AlignUp(x, a)
         /\ AlignUp(x, a) <= x + a - 1
         /\ AlignUp(x, a) % a = 0
PROOF
<1> DEFINE y == x + a - 1
           q == y \div a
           r == y % a
<1>1. y \in Nat /\ y % W = y
  OBVIOUS
<1>2. AlignUp(x, a) = y - r
  BY <1>1 DEF AlignUp
<1>3. r \in 0 .. a - 1 /\ q \in Nat /\ y = a * q + r
  BY <1>1
<1>4. y - r = a * q
  BY <1>3
<1>5. (a * q) % a = 0
  BY <1>3
<1>6. y - r \in Nat /\ x <= y - r /\ y - r <= x + a - 1
  BY <1>1, <1>3
<1> QED
  BY <1>2, <1>4, <1>5, <1>6

(* A request that fits: the offset it leaves is the end of its block.      *)
LEMMA FittingBlock ==
  ASSUME NEW r \in Requests, NEW o \in 0 .. HeapSize, Fits(o, r.size, r.align),
         NEW b, b = Block(o, r.size, r.align)
  PROVE  /\ b \in [addr : Nat, size : Nat, align : Nat \ {0}]
         /\ b.addr % b.align = 0
         /\ HeapBase + o <= b.addr
         /\ NextOffset(o, r.size, r.align) \in Nat
         /\ b.addr + b.size = HeapBase + NextOffset(o, r.size, r.align)
         /\ NextOffset(o, r.size, r.align) < HeapSize
PROOF
<1> DEFINE x == HeapBase + o
           up == AlignUp(x, r.align)
<1>1. /\ W \in Nat /\ HeapBase \in Nat \ {0} /\ HeapSize \in Nat
      /\ r.size \in Nat /\ r.align \in Nat \ {0}
      /\ HeapBase + HeapSize + r.size + r.align < W
  BY HeapAssumption
<1>2. x \in Nat /\ x + r.align < W
  BY <1>1
<1>3. up \in Nat /\ x <= up /\ up <= x + r.align - 1 /\ up % r.align = 0
  BY <1>1, <1>2, AlignUpNext
<1>4. NextOffset(o, r.size, r.align) = up - HeapBase + r.size
  <2> DEFINE n == up - HeapBase + r.size
  <2>1. n \in Nat /\ n < W
    BY <1>1, <1>2, <1>3
  <2>2. n % W = n
    BY <2>1, <1>1
  <2> QED
    BY <2>2 DEF NextOffset
<1>5. b = [addr |-> up, size |-> r.size, align |-> r.align]
  BY DEF Block
<1>6. NextOffset(o, r.size, r.align) < HeapSize
  BY DEF Fits
<1> HIDE DEF up
<1> QED
  BY <1>1, <1>3, <1>4, <1>5, <1>6

(***************************************************************************)
(* The inductive invariant, of any offset and set of blocks: everything    *)
(* given away lies below the offset, so the next block, which starts at or *)
(* above it, touches none of it.                                           *)
(***************************************************************************)
Sound(o, given) ==
  /\ o \in 0 .. HeapSize
  /\ given \subseteq [addr : Nat, size : Nat, align : Nat \ {0}]
  /\ \A b \in given : b.addr + b.size <= HeapBase + o
  /\ \A b, c \in given : b = c \/ Apart(b, c)
  /\ \A b \in given :
       b.addr % b.align = 0 /\ HeapBase <= b.addr /\ b.addr + b.size <= HeapBase + HeapSize

LEMMA AllocationKeepsSound ==
  ASSUME NEW o, NEW given, Sound(o, given), NEW r \in Requests, Fits(o, r.size, r.align)
  PROVE  Sound(NextOffset(o, r.size, r.align), given \cup {Block(o, r.size, r.align)})
PROOF
<1> DEFINE b == Block(o, r.size, r.align)
           n == NextOffset(o, r.size, r.align)
<1>1. /\ o \in Nat /\ o <= HeapSize /\ HeapBase \in Nat /\ HeapSize \in Nat
      /\ given \subseteq [addr : Nat, size : Nat, align : Nat \ {0}]
  BY HeapAssumption DEF Sound
<1>2. /\ b \in [addr : Nat, size : Nat, align : Nat \ {0}]
      /\ b.addr % b.align = 0
      /\ HeapBase + o <= b.addr
      /\ n \in Nat
      /\ b.addr + b.size = HeapBase + n
      /\ n < HeapSize
  BY <1>1, FittingBlock
<1> HIDE DEF b, n
<1>3. o <= n
  BY <1>1, <1>2
<1>4. ASSUME NEW c \in given \cup {b}
      PROVE  /\ c.addr + c.size <= HeapBase + n
             /\ c.addr % c.align = 0 /\ HeapBase <= c.addr
             /\ c.addr + c.size <= HeapBase + HeapSize
  <2>1. CASE c \in given
    BY <2>1, <1>1, <1>2, <1>3 DEF Sound
  <2>2. CASE c = b
    BY <2>2, <1>1, <1>2
  <2> QED
    BY <2>1, <2>2
<1>5. \A c, d \in given \cup {b} : c = d \/ Apart(c, d)
  <2>1. \A c \in given : Apart(b, c) /\ Apart(c, b)
    BY <1>1, <1>2 DEF Sound, Apart
  <2> QED
    BY <2>1 DEF Sound
<1>6. Sound(n, given \cup {b})
  BY <1>1, <1>2, <1>4, <1>5 DEF Sound
<1> QED
  BY <1>6 DEF b, n

HeapInv == Sound(heap_offset, blocks)

LEMMA SoundHeap == HeapInv <=> HeapTypeOK /\ BlocksDisjoint /\ BlocksInHeap
                              /\ \A b \in blocks : b.addr + b.size <= HeapBase + heap_offset
BY DEF HeapInv, Sound, HeapTypeOK, BlocksDisjoint, BlocksInHeap

LEMMA HeapInvInit == HeapInit => HeapInv
BY HeapAssumption DEF HeapInit, HeapInv, Sound

LEMMA KmallocKeepsSound ==
  ASSUME HeapInv, NEW r \in Requests, kmalloc(r.size, r.align)
  PROVE  HeapInv'
PROOF
<1>1. CASE Fits(heap_offset, r.size, r.align)
  <2>1. /\ heap_offset' = NextOffset(heap_offset, r.size, r.align)
        /\ blocks' = blocks \cup {Block(heap_offset, r.size, r.align)}
    BY <1>1 DEF kmalloc
  <2>2. Sound(NextOffset(heap_offset, r.size, r.align),
              blocks \cup {Block(heap_offset, r.size, r.align)})
    BY <1>1, AllocationKeepsSound DEF HeapInv
  <2> QED
    BY <2>1, <2>2, Zenon DEF HeapInv
<1>2. CASE ~Fits(heap_offset, r.size, r.align)
  BY <1>2 DEF kmalloc, heapVars, HeapInv
<1> QED
  BY <1>1, <1>2

LEMMA HeapInvStep == HeapInv /\ [HeapNext]_heapVars => HeapInv'
PROOF
<1> SUFFICES ASSUME HeapInv, [HeapNext]_heapVars
             PROVE  HeapInv'
  OBVIOUS
<1>1. CASE UNCHANGED heapVars
  BY <1>1 DEF heapVars, HeapInv
<1>2. CASE HeapNext
  BY <1>2, KmallocKeepsSound DEF HeapNext
<1> QED
  BY <1>1, <1>2

(* Whatever is asked of kmalloc, its offset and blocks stay sound.         *)
THEOREM HeapInvariance == HeapSpec => []HeapInv
PROOF
  BY HeapInvInit, HeapInvStep, PTL DEF HeapSpec

(* The bump pointer never passes the end of the heap.                      *)
THEOREM KmallocTypeOK == HeapSpec => []HeapTypeOK
PROOF
<1>1. HeapInv => HeapTypeOK
  BY SoundHeap
<1> QED
  BY <1>1, HeapInvariance, PTL

(* kmalloc never gives a byte away twice, whatever sizes and alignments    *)
(* its callers ask for and in whatever order.                              *)
THEOREM KmallocBlocksDisjoint == HeapSpec => []BlocksDisjoint
PROOF
<1>1. HeapInv => BlocksDisjoint
  BY SoundHeap
<1> QED
  BY <1>1, HeapInvariance, PTL

(* Every block kmalloc gives away is aligned as asked and lies between     *)
(* __heap_start and __heap_end.                                            *)
THEOREM KmallocBlocksInHeap == HeapSpec => []BlocksInHeap
PROOF
<1>1. HeapInv => BlocksInHeap
  BY SoundHeap
<1> QED
  BY <1>1, HeapInvariance, PTL

(***************************************************************************)
(* Mapping a page.                                                         *)
(***************************************************************************)
PageRequest == [size |-> PAGE, align |-> PAGE]

(* A state of memory within a call.                                        *)
SoundMemory(s) ==
  /\ DOMAIN s = {"mem", "offset", "blocks", "ram", "at"}
  /\ Sound(s.offset, s.blocks)

LEMMA MemoryIsSound == ASSUME HeapInv PROVE SoundMemory(Memory)
BY DEF HeapInv, SoundMemory, Memory

LEMMA NewTableSound ==
  ASSUME PageRequest \in Requests, NEW s, SoundMemory(s)
  PROVE  SoundMemory(NewTable(s))
PROOF
<1>1. PageRequest.size = PAGE /\ PageRequest.align = PAGE
  BY DEF PageRequest
<1>2. CASE Fits(s.offset, PAGE, PAGE)
  <2>1. Sound(NextOffset(s.offset, PAGE, PAGE), s.blocks \cup {Block(s.offset, PAGE, PAGE)})
    <3>1. Fits(s.offset, PageRequest.size, PageRequest.align)
      BY <1>1, <1>2, Zenon
    <3>2. Sound(NextOffset(s.offset, PageRequest.size, PageRequest.align),
                s.blocks \cup {Block(s.offset, PageRequest.size, PageRequest.align)})
      BY <3>1, AllocationKeepsSound DEF SoundMemory
    <3> QED
      BY <1>1, <3>2, Zenon
  <2> DEFINE t == NewTable(s)
  <2>2. /\ DOMAIN t = DOMAIN s
        /\ t.offset = NextOffset(s.offset, PAGE, PAGE)
        /\ t.blocks = s.blocks \cup {Block(s.offset, PAGE, PAGE)}
    BY <1>2 DEF NewTable, SoundMemory
  <2> HIDE DEF t
  <2>3. SoundMemory(t)
    BY <2>1, <2>2 DEF SoundMemory
  <2> QED
    BY <2>3 DEF t
<1>3. CASE ~Fits(s.offset, PAGE, PAGE)
  BY <1>3 DEF NewTable, SoundMemory
<1> QED
  BY <1>2, <1>3

LEMMA GetOrCreateSound ==
  ASSUME PageRequest \in Requests, NEW s, SoundMemory(s), NEW i
  PROVE  SoundMemory(get_or_create_table(s, i))
PROOF
<1> DEFINE n == NewTable(s)
<1>1. SoundMemory(n)
  BY NewTableSound
<1> HIDE DEF n
<1>2. CASE s.at \notin TableFrames
  BY <1>2 DEF get_or_create_table, SoundMemory
<1>3. CASE s.at \in TableFrames /\ Present(s.mem[s.at][i])
  BY <1>3 DEF get_or_create_table, SoundMemory
<1>4. CASE s.at \in TableFrames /\ ~Present(s.mem[s.at][i])
  <2> DEFINE t == [n EXCEPT !.mem[n.at] = EmptyTable, !.mem[s.at][i] = Link(n.at)]
  <2>1. get_or_create_table(s, i) = t
    BY <1>4 DEF get_or_create_table, n
  <2>2. DOMAIN t = DOMAIN n /\ t.offset = n.offset /\ t.blocks = n.blocks
    BY <1>1 DEF SoundMemory
  <2> QED
    BY <1>1, <2>1, <2>2 DEF SoundMemory
<1> QED
  BY <1>2, <1>3, <1>4

LEMMA StoreSound ==
  ASSUME NEW s, SoundMemory(s), NEW i, NEW e
  PROVE  SoundMemory(Store(s, i, e))
BY DEF Store, SoundMemory

(* The way down to a page directory, and the two entries that end it.      *)
LEMMA MapsSound ==
  ASSUME PageRequest \in Requests, NEW s, SoundMemory(s), NEW virt, NEW phys, NEW i
  PROVE  SoundMemory(map_4k(s, virt, phys, i)) /\ SoundMemory(map_2m(s, virt, phys, i))
PROOF
<1>1. ASSUME NEW v PROVE SoundMemory(DirectoryOf(s, v))
  <2>1. SoundMemory([s EXCEPT !.at = Pml4])
    BY DEF SoundMemory
  <2> QED
    BY <2>1, GetOrCreateSound DEF DirectoryOf
<1>2. SoundMemory(map_4k(s, virt, phys, i))
  BY <1>1, GetOrCreateSound, StoreSound DEF map_4k
<1>3. SoundMemory(map_2m(s, virt, phys, i))
  BY <1>1, StoreSound DEF map_2m
<1> QED
  BY <1>2, <1>3

LEMMA WriteSound ==
  ASSUME NEW s, SoundMemory(s), NEW a, NEW values
  PROVE  SoundMemory(Write(s, a, values))
BY DEF Write, SoundMemory

(* What becomes of memory is as sound as the record it becomes.            *)
LEMMA BecomesSound ==
  ASSUME NEW s, SoundMemory(s), Becomes(s)
  PROVE  HeapInv'
BY DEF Becomes, SoundMemory, HeapInv

(***************************************************************************)
(* The first megabyte.                                                     *)
(***************************************************************************)
(* The tables of setup_paging.                                             *)
Own == Pml4 .. Pml4 + 3

EntryType == [to : Nat \cup {Nowhere}, large : BOOLEAN]

TablesTyped(m) == m \in [TableFrames -> [Slots -> EntryType]]

(* No entry leads to one of them, ...                                      *)
Unowned(m) == \A f \in TableFrames : \A s \in Slots : m[f][s].to \notin Own

(* ... or those of the chain alone, which ends at the identity table: the  *)
(* entries above the first megabyte in that table are none of a table.     *)
LowIdentity(m) ==
  /\ TablesTyped(m)
  /\ \A l \in 0 .. 2 : m[Pml4 + l][0] = Link(Pml4 + l + 1)
  /\ \A p \in 0 .. LOW_PAGES - 1 : m[Pml4 + 3][p] = Link(p)
  /\ \A f \in TableFrames \ {Pml4 + 3} : \A s \in Slots :
       m[f][s].to \in Own => f \in Pml4 .. Pml4 + 2 /\ s = 0

BootIdentity(m) ==
  /\ m[Page_table_l4][0] = Link(Page_table_l4 + 1)
  /\ m[Page_table_l4 + 1][0] = Link(Page_table_l4 + 2)
  /\ m[Page_table_l4 + 2] = [s \in Slots |-> Large(s * Fan)]

(* The four tables lie below the heap, and all of them in the pages that   *)
(* stay where they are.                                                    *)
LEMMA Frames ==
  /\ Pml4 \in Nat /\ Page_table_l4 \in Nat /\ LOW_PAGES \in 1 .. Fan /\ Fan \in Nat /\ PAGE \in Nat \ {0}
  /\ Page_table_l4 + 3 <= Pml4 /\ Pml4 >= 4 /\ Pml4 + 4 <= LOW_PAGES
  /\ \A f \in HeapFrames : f \in Nat /\ f >= Pml4 + 4 /\ f <= LOW_PAGES
PROOF
<1>1. /\ Pml4 \in Nat /\ Page_table_l4 \in Nat \ {0} /\ LOW_PAGES \in 1 .. Fan
      /\ PAGE \in Nat \ {0} /\ Page_table_l4 + 3 <= Pml4
      /\ (Pml4 + 4) * PAGE <= HeapBase /\ HeapBase + HeapSize <= LOW_PAGES * PAGE
  BY BootPagingAssumption
<1>2. HeapBase \in Nat /\ HeapSize \in Nat /\ HeapBase + HeapSize \in Nat /\ Fan \in Nat \ {0}
  BY HeapAssumption, FanAssumption
<1>3. LOW_PAGES \in Nat
  BY <1>1, <1>2
<1>4. ~(HeapBase \div PAGE < Pml4 + 4) /\ HeapBase \div PAGE \in Nat
  <2>1. ~(HeapBase < (Pml4 + 4) * PAGE)
    BY <1>1, <1>2
  <2>2. PAGE \in Nat \ {0} /\ HeapBase \in Nat /\ Pml4 + 4 \in Nat
    BY <1>1, <1>2
  <2>3. HeapBase \div PAGE < Pml4 + 4 <=> HeapBase < (Pml4 + 4) * PAGE
    BY <2>2, BelowProduct, Zenon
  <2>4. HeapBase \div PAGE \in Nat
    BY <2>2, Division, Zenon
  <2> QED
    BY <2>1, <2>3, <2>4, Zenon
<1>5. (HeapBase + HeapSize) \div PAGE < LOW_PAGES + 1 /\ (HeapBase + HeapSize) \div PAGE \in Nat
  <2>1. (LOW_PAGES + 1) * PAGE = LOW_PAGES * PAGE + PAGE /\ LOW_PAGES * PAGE \in Nat
    BY <1>1, <1>3
  <2>2. HeapBase + HeapSize < (LOW_PAGES + 1) * PAGE
    BY <1>1, <1>2, <2>1
  <2>3. PAGE \in Nat \ {0} /\ LOW_PAGES + 1 \in Nat
    BY <1>1, <1>3
  <2> QED
    BY <1>2, <2>2, <2>3, BelowProduct, Division, Zenon
<1>6. Pml4 + 4 <= LOW_PAGES
  <2>1. ASSUME LOW_PAGES + 1 <= Pml4 + 4 PROVE FALSE
    <3>1. PAGE * (LOW_PAGES + 1) <= PAGE * (Pml4 + 4)
      BY <1>1, <1>3, <2>1
    <3>2. PAGE * (LOW_PAGES + 1) = LOW_PAGES * PAGE + PAGE /\ PAGE * (Pml4 + 4) = (Pml4 + 4) * PAGE
      BY <1>1, <1>3
    <3>3. LOW_PAGES * PAGE \in Nat /\ (Pml4 + 4) * PAGE \in Nat
      BY <1>1, <1>3
    <3> QED
      BY <1>1, <1>2, <3>1, <3>2, <3>3
  <2> QED
    BY <1>1, <1>3, <2>1
<1>7. \A f \in HeapFrames : f \in Nat /\ f >= Pml4 + 4 /\ f <= LOW_PAGES
  BY <1>1, <1>3, <1>4, <1>5 DEF HeapFrames
<1> QED
  BY <1>1, <1>2, <1>6, <1>7

LEMMA OwnFrames ==
  /\ Own \subseteq TableFrames /\ Pml4 + 3 \in Own /\ 0 \notin Own /\ 0 \in TableFrames
  /\ HeapFrames \subseteq TableFrames /\ HeapFrames \cap Own = {}
  /\ \A f \in Own : f < LOW_PAGES
  /\ \A f \in Page_table_l4 .. Page_table_l4 + 2 : f \in TableFrames /\ f \notin Own
BY Frames DEF Own, TableFrames

(* A new table is the null page or a page of the heap.                     *)
LEMMA NewFrame ==
  ASSUME PageRequest \in Requests, NEW s, SoundMemory(s)
  PROVE  NewTable(s).at \in {0} \cup HeapFrames /\ NewTable(s).mem = s.mem
PROOF
<1>1. CASE Fits(s.offset, PAGE, PAGE)
  <2> DEFINE b == Block(s.offset, PAGE, PAGE)
  <2>1. PageRequest.size = PAGE /\ PageRequest.align = PAGE
    BY DEF PageRequest
  <2>2. s.offset \in 0 .. HeapSize
    BY DEF SoundMemory, Sound
  <2>3. /\ b.addr \in Nat /\ HeapBase + s.offset <= b.addr
        /\ b.addr + b.size = HeapBase + NextOffset(s.offset, PAGE, PAGE)
        /\ NextOffset(s.offset, PAGE, PAGE) < HeapSize /\ NextOffset(s.offset, PAGE, PAGE) \in Nat
    BY <1>1, <2>1, <2>2, FittingBlock
  <2>4. b.size = PAGE
    BY DEF Block
  <2>5. NewTable(s).at = b.addr \div PAGE /\ NewTable(s).mem = s.mem
    BY <1>1 DEF NewTable, SoundMemory
  <2> HIDE DEF b
  <2>6. /\ HeapBase \in Nat /\ HeapSize \in Nat /\ PAGE \in Nat \ {0}
        /\ HeapBase <= b.addr /\ b.addr <= HeapBase + HeapSize
    BY <2>2, <2>3, <2>4, HeapAssumption, Frames
  <2>7. /\ b.addr \div PAGE \in Nat /\ HeapBase \div PAGE \in Nat
        /\ (HeapBase + HeapSize) \div PAGE \in Nat
    <3>1. HeapBase + HeapSize \in Nat
      BY <2>6
    <3> QED
      BY <2>3, <2>6, <3>1, Division, Zenon
  <2>8. HeapBase \div PAGE <= b.addr \div PAGE
    BY <2>3, <2>6, QuotientsOrdered
  <2>9. b.addr \div PAGE <= (HeapBase + HeapSize) \div PAGE
    BY <2>3, <2>6, QuotientsOrdered
  <2>10. b.addr \div PAGE \in HeapFrames
    BY <2>7, <2>8, <2>9 DEF HeapFrames
  <2> QED
    BY <2>5, <2>10
<1>2. CASE ~Fits(s.offset, PAGE, PAGE)
  BY <1>2 DEF NewTable, SoundMemory
<1> QED
  BY <1>1, <1>2

(***************************************************************************)
(* The steps down the tables, and the entry stored at the end.             *)
(***************************************************************************)
(* What making a table leaves of the memory.                               *)
Hung(m, at, i, new) ==
  [f \in TableFrames |->
     LET t == IF f = new THEN EmptyTable ELSE m[f]
     IN  IF f = at THEN [t EXCEPT ![i] = Link(new)] ELSE t]

LEMMA GetOrCreateCases ==
  ASSUME PageRequest \in Requests, NEW s, SoundMemory(s), TablesTyped(s.mem), NEW i
  PROVE  LET r == get_or_create_table(s, i)
         IN  \/ s.at \notin TableFrames /\ r.mem = s.mem /\ r.at = Nowhere
             \/ s.at \in TableFrames /\ Present(s.mem[s.at][i]) /\ r.mem = s.mem
                  /\ r.at = s.mem[s.at][i].to
             \/ /\ s.at \in TableFrames /\ ~Present(s.mem[s.at][i])
                /\ \E new \in {0} \cup HeapFrames :
                     /\ r.at = new /\ r.mem = Hung(s.mem, s.at, i, new)
                     /\ new = NewTable(s).at /\ r.offset = NewTable(s).offset
PROOF
<1>1. CASE s.at \notin TableFrames
  BY <1>1 DEF get_or_create_table, SoundMemory
<1>2. CASE s.at \in TableFrames /\ Present(s.mem[s.at][i])
  BY <1>2 DEF get_or_create_table, SoundMemory
<1>3. CASE s.at \in TableFrames /\ ~Present(s.mem[s.at][i])
  <2> DEFINE n == NewTable(s)
             r == [n EXCEPT !.mem[n.at] = EmptyTable, !.mem[s.at][i] = Link(n.at)]
  <2>1. get_or_create_table(s, i) = r
    BY <1>3 DEF get_or_create_table
  <2>2. n.at \in {0} \cup HeapFrames /\ n.mem = s.mem
    BY NewFrame
  <2>3. DOMAIN n = {"mem", "offset", "blocks", "ram", "at"}
    BY NewTableSound DEF SoundMemory
  <2> HIDE DEF n
  <2>4. n.at \in TableFrames
    BY <2>2, OwnFrames
  <2>5. DOMAIN s.mem = TableFrames
    BY DEF TablesTyped
  <2>6. r.at = n.at /\ r.offset = n.offset
    BY <2>3
  <2>7. r.mem = [[s.mem EXCEPT ![n.at] = EmptyTable] EXCEPT ![s.at][i] = Link(n.at)]
    BY <2>2, <2>3
  <2>8. r.mem = Hung(s.mem, s.at, i, n.at)
    BY <1>3, <2>4, <2>5, <2>7 DEF Hung
  <2> QED
    BY <1>3, <2>1, <2>2, <2>6, <2>8 DEF n
<1> QED
  BY <1>1, <1>2, <1>3

LEMMA HungTyped ==
  ASSUME NEW m, TablesTyped(m), NEW at \in TableFrames, NEW i, NEW new \in {0} \cup HeapFrames
  PROVE  TablesTyped(Hung(m, at, i, new))
PROOF
<1>1. new \in Nat
  BY Frames
<1>2. Link(new) \in EntryType /\ Absent \in EntryType
  BY <1>1 DEF Link, Absent, EntryType
<1>3. EmptyTable \in [Slots -> EntryType]
  BY <1>2 DEF EmptyTable
<1>4. ASSUME NEW f \in TableFrames
      PROVE  (IF f = new THEN EmptyTable ELSE m[f]) \in [Slots -> EntryType]
  BY <1>3 DEF TablesTyped
<1>5. ASSUME NEW t \in [Slots -> EntryType]
      PROVE  [t EXCEPT ![i] = Link(new)] \in [Slots -> EntryType]
  BY <1>2, <1>5
<1> QED
  BY <1>4, <1>5 DEF Hung, TablesTyped

LEMMA GetOrCreateTyped ==
  ASSUME PageRequest \in Requests, NEW s, SoundMemory(s), TablesTyped(s.mem), NEW i
  PROVE  TablesTyped(get_or_create_table(s, i).mem)
BY GetOrCreateCases, HungTyped

(* A table hung where the chain does not go leaves the chain as it is.     *)
LEMMA HungLow ==
  ASSUME NEW m, LowIdentity(m), NEW at \in TableFrames, at # Pml4 + 3, NEW i \in Slots,
         ~Present(m[at][i]), NEW new \in {0} \cup HeapFrames
  PROVE  LowIdentity(Hung(m, at, i, new))
PROOF
<1> DEFINE h == Hung(m, at, i, new)
<1>1. new \notin Own /\ new \in Nat /\ Nowhere \notin Own /\ Pml4 \in Nat
  BY OwnFrames, Frames DEF Own, Nowhere
<1>2. TablesTyped(m) /\ TablesTyped(h)
  BY HungTyped DEF LowIdentity
<1>3. \A f \in TableFrames \ {at} : f # new => h[f] = m[f]
  BY DEF Hung
<1>4. h[at] = [(IF at = new THEN EmptyTable ELSE m[at]) EXCEPT ![i] = Link(new)]
  BY DEF Hung
<1>5. at # new => /\ h[at][i] = Link(new)
                  /\ \A s \in Slots \ {i} : h[at][s] = m[at][s]
  BY <1>2, <1>4 DEF TablesTyped
<1>6. at = new => \A s \in Slots : h[at][s] \in {Absent, Link(new)}
  BY <1>4 DEF EmptyTable
<1>7. at # new => \A s \in Slots : h[new][s] = Absent
  BY OwnFrames DEF Hung, EmptyTable
<1> HIDE DEF h
<1>8. ASSUME NEW l \in 0 .. 2 PROVE h[Pml4 + l][0] = Link(Pml4 + l + 1)
  <2>1. Pml4 + l \in Own /\ Pml4 + l \in TableFrames /\ m[Pml4 + l][0] = Link(Pml4 + l + 1)
    BY <1>1, OwnFrames DEF LowIdentity, Own
  <2>2. Present(m[Pml4 + l][0])
    BY <1>1, <2>1 DEF Present, Link, Nowhere
  <2>3. 0 \in Slots
    BY Frames DEF Slots
  <2> QED
    BY <1>1, <1>3, <1>5, <2>1, <2>2, <2>3
<1>9. ASSUME NEW p \in 0 .. LOW_PAGES - 1 PROVE h[Pml4 + 3][p] = Link(p)
  BY <1>1, <1>3, OwnFrames DEF LowIdentity
<1>10. ASSUME NEW f \in TableFrames \ {Pml4 + 3}, NEW s \in Slots, h[f][s].to \in Own
       PROVE  f \in Pml4 .. Pml4 + 2 /\ s = 0
  <2>1. h[f][s] # Absent /\ h[f][s] # Link(new)
    BY <1>1, <1>10 DEF Absent, Link
  <2>2. h[f][s] = m[f][s]
    BY <1>3, <1>5, <1>6, <1>7, <2>1
  <2> QED
    BY <1>10, <2>2 DEF LowIdentity
<1> QED
  BY <1>2, <1>8, <1>9, <1>10 DEF LowIdentity, h

LEMMA GetOrCreateLow ==
  ASSUME PageRequest \in Requests, NEW s, SoundMemory(s), LowIdentity(s.mem), s.at # Pml4 + 3,
         NEW i \in Slots
  PROVE  LET r == get_or_create_table(s, i)
         IN  /\ LowIdentity(r.mem)
             /\ r.at \in Own => s.at \in Pml4 .. Pml4 + 2 /\ i = 0 /\ r.at = s.at + 1
PROOF
<1> DEFINE r == get_or_create_table(s, i)
<1>1. TablesTyped(s.mem)
  BY DEF LowIdentity
<1>2. CASE s.at \notin TableFrames /\ r.mem = s.mem /\ r.at = Nowhere
  BY <1>2, Frames DEF Own, Nowhere
<1>3. CASE s.at \in TableFrames /\ r.mem = s.mem /\ r.at = s.mem[s.at][i].to
  <2>1. ASSUME r.at \in Own PROVE s.at \in Pml4 .. Pml4 + 2 /\ i = 0
    BY <1>3, <2>1 DEF LowIdentity
  <2>2. ASSUME s.at \in Pml4 .. Pml4 + 2, i = 0 PROVE r.at = s.at + 1
    <3>1. PICK l \in 0 .. 2 : s.at = Pml4 + l
      BY <2>2, Frames
    <3>2. s.mem[s.at][0] = Link(Pml4 + l + 1)
      BY <3>1 DEF LowIdentity
    <3> QED
      BY <1>3, <2>2, <3>1, <3>2 DEF Link
  <2> QED
    BY <1>3, <2>1, <2>2
<1>4. CASE /\ s.at \in TableFrames /\ ~Present(s.mem[s.at][i])
           /\ \E new \in {0} \cup HeapFrames : r.at = new /\ r.mem = Hung(s.mem, s.at, i, new)
  <2>1. PICK new \in {0} \cup HeapFrames : r.at = new /\ r.mem = Hung(s.mem, s.at, i, new)
    BY <1>4
  <2>2. LowIdentity(r.mem)
    BY <1>4, <2>1, HungLow
  <2> QED
    BY <2>1, <2>2, OwnFrames
<1> QED
  BY <1>1, <1>2, <1>3, <1>4, GetOrCreateCases

LEMMA StoreTyped ==
  ASSUME NEW s, SoundMemory(s), TablesTyped(s.mem), NEW i, NEW e \in EntryType
  PROVE  TablesTyped(Store(s, i, e).mem)
PROOF
<1>1. CASE s.at \notin TableFrames
  BY <1>1 DEF Store, SoundMemory
<1>2. CASE s.at \in TableFrames
  <2>1. Store(s, i, e).mem = [s.mem EXCEPT ![s.at][i] = e]
    BY <1>2 DEF Store, SoundMemory
  <2>2. [s.mem[s.at] EXCEPT ![i] = e] \in [Slots -> EntryType]
    BY <1>2 DEF TablesTyped
  <2> QED
    BY <1>2, <2>1, <2>2 DEF TablesTyped
<1> QED
  BY <1>1, <1>2

LEMMA StoreLow ==
  ASSUME NEW s, SoundMemory(s), LowIdentity(s.mem), NEW i \in Slots, NEW e \in EntryType,
         e.to \notin Own,
         s.at \in Own => (s.at = Pml4 + 3 /\ i >= LOW_PAGES) \/ (s.at = Pml4 + 2 /\ i # 0)
  PROVE  LowIdentity(Store(s, i, e).mem)
PROOF
<1> DEFINE h == Store(s, i, e).mem
<1>1. TablesTyped(s.mem) /\ TablesTyped(h)
  BY StoreTyped DEF LowIdentity
<1>2. \A f \in TableFrames : \A t \in Slots : f # s.at \/ t # i => h[f][t] = s.mem[f][t]
  BY <1>1 DEF Store, SoundMemory, TablesTyped
<1>3. h = s.mem \/ (s.at \in TableFrames /\ h[s.at][i] = e)
  BY <1>1 DEF Store, SoundMemory, TablesTyped
<1> HIDE DEF h
<1>4. ASSUME NEW l \in 0 .. 2 PROVE h[Pml4 + l][0] = Link(Pml4 + l + 1)
  <2>1. Pml4 + l \in Own /\ Pml4 + l \in TableFrames /\ 0 \in Slots
    BY Frames, OwnFrames DEF Own, Slots
  <2>2. Pml4 + l # s.at \/ 0 # i
    BY <2>1, Frames
  <2> QED
    BY <1>2, <2>1, <2>2 DEF LowIdentity
<1>5. ASSUME NEW p \in 0 .. LOW_PAGES - 1 PROVE h[Pml4 + 3][p] = Link(p)
  <2>1. Pml4 + 3 \in Own /\ Pml4 + 3 \in TableFrames /\ p \in Slots
    BY Frames, OwnFrames DEF Slots
  <2>2. Pml4 + 3 # s.at \/ p # i
    BY <2>1, Frames
  <2> QED
    BY <1>2, <2>1, <2>2 DEF LowIdentity
<1>6. ASSUME NEW f \in TableFrames \ {Pml4 + 3}, NEW t \in Slots, h[f][t].to \in Own
      PROVE  f \in Pml4 .. Pml4 + 2 /\ t = 0
  <2>1. h[f][t] = s.mem[f][t]
    BY <1>2, <1>3, <1>6
  <2> QED
    BY <1>6, <2>1 DEF LowIdentity
<1> QED
  BY <1>1, <1>4, <1>5, <1>6 DEF LowIdentity, h

LEMMA DirectoryLow ==
  ASSUME PageRequest \in Requests, NEW s, SoundMemory(s), LowIdentity(s.mem),
         NEW v \in Nat, v < Fan * Fan * Fan * Fan
  PROVE  LET d == DirectoryOf(s, v)
         IN  /\ SoundMemory(d) /\ LowIdentity(d.mem)
             /\ d.at \in Own => d.at = Pml4 + 2 /\ Index4(v) = 0 /\ Index3(v) = 0
PROOF
<1> DEFINE s0 == [s EXCEPT !.at = Pml4]
           s1 == get_or_create_table(s0, Index4(v))
           s2 == get_or_create_table(s1, Index3(v))
<1>1. SoundMemory(s0) /\ s0.mem = s.mem /\ s0.at = Pml4
  BY DEF SoundMemory
<1>2. Index4(v) \in Slots /\ Index3(v) \in Slots
  BY IndexesAreSlots
<1>3. Pml4 # Pml4 + 3 /\ Pml4 + 1 # Pml4 + 3 /\ Pml4 + 3 \in Own /\ (Pml4 + 1) + 1 = Pml4 + 2
  BY Frames, OwnFrames
<1> HIDE DEF s0
<1>4. /\ SoundMemory(s1) /\ LowIdentity(s1.mem)
      /\ s1.at \in Own => Index4(v) = 0 /\ s1.at = Pml4 + 1
  BY <1>1, <1>2, <1>3, GetOrCreateSound, GetOrCreateLow
<1> HIDE DEF s1
<1>5. s1.at # Pml4 + 3
  BY <1>3, <1>4
<1>6. /\ SoundMemory(s2) /\ LowIdentity(s2.mem)
      /\ s2.at \in Own => s1.at \in Pml4 .. Pml4 + 2 /\ Index3(v) = 0 /\ s2.at = s1.at + 1
  BY <1>2, <1>4, <1>5, GetOrCreateSound, GetOrCreateLow
<1> HIDE DEF s2
<1>7. s2.at \in Own => s2.at = Pml4 + 2 /\ Index4(v) = 0 /\ Index3(v) = 0
  <2>1. Pml4 .. Pml4 + 2 \subseteq Own
    BY Frames DEF Own
  <2> QED
    BY <1>3, <1>4, <1>6, <2>1
<1> QED
  BY <1>6, <1>7 DEF s2, s1, s0, DirectoryOf

(* A page from the first megabyte on, mapped to a frame from there on.     *)
LEMMA StoreFourKLow ==
  ASSUME PageRequest \in Requests, NEW s, SoundMemory(s), LowIdentity(s.mem),
         NEW v \in Nat, LOW_PAGES <= v, v < Fan * Fan * Fan * Fan,
         NEW f \in Nat, LOW_PAGES <= f
  PROVE  LowIdentity(Store(get_or_create_table(DirectoryOf(s, v), Index2(v)), Index1(v), Link(f)).mem)
PROOF
<1> DEFINE d == DirectoryOf(s, v)
           t == get_or_create_table(d, Index2(v))
<1>1. /\ SoundMemory(d) /\ LowIdentity(d.mem)
      /\ d.at \in Own => d.at = Pml4 + 2 /\ Index4(v) = 0 /\ Index3(v) = 0
  BY DirectoryLow
<1>2. Index2(v) \in Slots /\ Index1(v) \in Slots
  BY IndexesAreSlots
<1> HIDE DEF d
<1>3. d.at # Pml4 + 3 /\ Pml4 .. Pml4 + 2 \subseteq Own /\ (Pml4 + 2) + 1 = Pml4 + 3
  BY <1>1, Frames, OwnFrames DEF Own
<1>4. /\ SoundMemory(t) /\ LowIdentity(t.mem)
      /\ t.at \in Own => d.at \in Pml4 .. Pml4 + 2 /\ Index2(v) = 0 /\ t.at = d.at + 1
  BY <1>1, <1>2, <1>3, GetOrCreateSound, GetOrCreateLow
<1> HIDE DEF t
<1>5. t.at \in Own => t.at = Pml4 + 3 /\ Index1(v) = v
  BY <1>1, <1>3, <1>4, LowIndexes
<1>6. Link(f) \in EntryType /\ Link(f).to \notin Own
  BY Frames DEF Link, EntryType, Own
<1>7. LowIdentity(Store(t, Index1(v), Link(f)).mem)
  BY <1>2, <1>4, <1>5, <1>6, StoreLow
<1> QED
  BY <1>7 DEF t, d

(* A large page above the first.                                           *)
LEMMA StoreTwoMLow ==
  ASSUME PageRequest \in Requests, NEW s, SoundMemory(s), LowIdentity(s.mem),
         NEW v \in Nat, Fan <= v, v < Fan * Fan * Fan * Fan,
         NEW f \in Nat, LOW_PAGES <= f
  PROVE  LowIdentity(Store(DirectoryOf(s, v), Index2(v), Large(f)).mem)
PROOF
<1> DEFINE d == DirectoryOf(s, v)
<1>1. /\ SoundMemory(d) /\ LowIdentity(d.mem)
      /\ d.at \in Own => d.at = Pml4 + 2 /\ Index4(v) = 0 /\ Index3(v) = 0
  BY DirectoryLow
<1>2. Index2(v) \in Slots
  BY IndexesAreSlots
<1> HIDE DEF d
<1>3. ASSUME d.at \in Own PROVE Index2(v) # 0
  <2>1. Index2(v) = 0 => v < Fan
    BY <1>1, <1>3, LowIndexes
  <2> QED
    BY <2>1, Frames
<1>4. Large(f) \in EntryType /\ Large(f).to \notin Own
  BY Frames DEF Large, EntryType, Own
<1>5. LowIdentity(Store(d, Index2(v), Large(f)).mem)
  BY <1>1, <1>2, <1>3, <1>4, StoreLow
<1> QED
  BY <1>5 DEF d

(***************************************************************************)
(* The walks.                                                              *)
(***************************************************************************)
LEMMA LowWalk ==
  ASSUME NEW m, LowIdentity(m), NEW p \in 0 .. LOW_PAGES - 1
  PROVE  Walk(m, Pml4, p) = p
PROOF
<1>1. p \in 0 .. Fan - 1 /\ p \in Nat
  BY Frames
<1>2. Index4(p) = 0 /\ Index3(p) = 0 /\ Index2(p) = 0 /\ Index1(p) = p
  BY <1>1, LowPage
<1>3. DOMAIN m = TableFrames /\ \A l \in 0 .. 3 : Pml4 + l \in TableFrames
  BY OwnFrames, Frames DEF LowIdentity, TablesTyped, Own
<1>4. /\ m[Pml4][0] = Link(Pml4 + 1) /\ m[Pml4 + 1][0] = Link(Pml4 + 2)
      /\ m[Pml4 + 2][0] = Link(Pml4 + 3) /\ m[Pml4 + 3][p] = Link(p)
  <2>1. \A l \in 0 .. 2 : m[Pml4 + l][0] = Link(Pml4 + l + 1)
    BY DEF LowIdentity
  <2>2. m[Pml4 + 0][0] = Link(Pml4 + 0 + 1) /\ m[Pml4 + 1][0] = Link(Pml4 + 1 + 1)
        /\ m[Pml4 + 2][0] = Link(Pml4 + 2 + 1)
    BY <2>1
  <2>3. Pml4 + 0 = Pml4 /\ Pml4 + 0 + 1 = Pml4 + 1 /\ Pml4 + 1 + 1 = Pml4 + 2 /\ Pml4 + 2 + 1 = Pml4 + 3
    BY Frames
  <2> QED
    BY <2>2, <2>3 DEF LowIdentity
<1>5. Pml4 \in TableFrames
  BY <1>3, Frames
<1>6. Entry(m, Pml4, 0).to = Pml4 + 1 /\ Entry(m, Pml4 + 1, 0).to = Pml4 + 2
  BY <1>3, <1>4, <1>5 DEF Entry, Link
<1>7. Entry(m, Pml4 + 2, 0) = Link(Pml4 + 3) /\ Entry(m, Pml4 + 3, p) = Link(p)
  BY <1>3, <1>4 DEF Entry
<1>8. Translation(m, Pml4, p) = [page |-> p, span |-> 1, frame |-> p]
  BY <1>2, <1>6, <1>7 DEF Translation, Link
<1> QED
  BY <1>1, <1>8 DEF Walk, Nowhere

LEMMA BootWalk ==
  ASSUME NEW m, TablesTyped(m), BootIdentity(m), NEW p \in 0 .. LOW_PAGES - 1
  PROVE  Walk(m, Page_table_l4, p) = p
PROOF
<1>1. p \in 0 .. Fan - 1 /\ p \in Nat
  BY Frames
<1>2. Index4(p) = 0 /\ Index3(p) = 0 /\ Index2(p) = 0 /\ Index1(p) = p
  BY <1>1, LowPage
<1>3. /\ DOMAIN m = TableFrames /\ Page_table_l4 \in TableFrames
      /\ Page_table_l4 + 1 \in TableFrames /\ Page_table_l4 + 2 \in TableFrames
  BY OwnFrames, Frames DEF TablesTyped
<1>4. /\ m[Page_table_l4][0] = Link(Page_table_l4 + 1)
      /\ m[Page_table_l4 + 1][0] = Link(Page_table_l4 + 2)
      /\ m[Page_table_l4 + 2][0] = Large(0)
  <2>1. 0 \in Slots /\ 0 * Fan = 0
    BY Frames DEF Slots
  <2> QED
    BY <2>1 DEF BootIdentity
<1>5. /\ Entry(m, Page_table_l4, 0).to = Page_table_l4 + 1
      /\ Entry(m, Page_table_l4 + 1, 0).to = Page_table_l4 + 2
      /\ Entry(m, Page_table_l4 + 2, 0) = Large(0)
  BY <1>3, <1>4 DEF Entry, Link
<1>6. Translation(m, Page_table_l4, p) = [page |-> p - p, span |-> Fan, frame |-> 0]
  BY <1>2, <1>5 DEF Translation, Large
<1> QED
  BY <1>1, <1>6 DEF Walk, Nowhere

(***************************************************************************)
(* The pages of a segment.                                                 *)
(***************************************************************************)
LEMMA SmallPages ==
  ASSUME NEW P \in Nat \ {0}, NEW v \in Nat, NEW m \in Nat, NEW n \in Nat,
         n < (m + P - 1) \div P, NEW B \in Nat, v + m <= B * P
  PROVE  (v \div P) + n \in Nat /\ (v \div P) + n < B
PROOF
<1>1. PICK k \in Nat : k = m + P - 1
  OBVIOUS
<1>2. PICK q \in Nat : q = v \div P
  BY Division
<1>3. q * P <= v
  <2>1. ~(q < q)
    OBVIOUS
  <2> QED
    BY <1>2, <2>1, BelowProduct
<1>4. (n + 1) * P <= k
  <2>1. k \div P \in Nat /\ ~(k \div P < n + 1)
    BY <1>1, Division
  <2>2. (n + 1) * P \in Nat
    OBVIOUS
  <2> QED
    BY <2>1, <2>2, BelowProduct
<1>5. (n + 1) * P = n * P + P /\ (q + n) * P = q * P + n * P /\ n * P \in Nat /\ q * P \in Nat
  OBVIOUS
<1>6. (q + n) * P < B * P
  BY <1>1, <1>3, <1>4, <1>5
<1>7. q + n < B
  <2>1. ASSUME B <= q + n PROVE B * P <= (q + n) * P
    <3>1. P * B <= P * (q + n)
      BY <2>1
    <3> QED
      BY <3>1
  <2>2. B * P \in Nat /\ (q + n) * P \in Nat
    OBVIOUS
  <2> QED
    BY <1>6, <2>1, <2>2
<1> QED
  BY <1>2, <1>7

LEMMA LargePages ==
  ASSUME NEW P \in Nat \ {0}, NEW F \in Nat \ {0}, NEW v \in Nat, NEW m \in Nat, NEW n \in Nat,
         n < m \div (P * F), NEW B \in Nat, v + m <= B * P
  PROVE  (v \div P) + n * F \in Nat /\ (v \div P) + n * F < B
PROOF
<1>1. PICK G \in Nat \ {0} : G = P * F
  OBVIOUS
<1>2. PICK q \in Nat : q = v \div P
  BY Division
<1>3. q * P <= v
  <2>1. ~(q < q)
    OBVIOUS
  <2> QED
    BY <1>2, <2>1, BelowProduct
<1>4. (n + 1) * G <= m
  <2>1. m \div G \in Nat /\ ~(m \div G < n + 1)
    BY <1>1, Division
  <2>2. (n + 1) * G \in Nat
    OBVIOUS
  <2> QED
    BY <2>1, <2>2, BelowProduct
<1>5. PICK k \in Nat : k = n * F
  OBVIOUS
<1>6. n * G = k * P
  <2>1. n * (P * F) = (n * F) * P
    OBVIOUS
  <2> QED
    BY <1>1, <1>5, <2>1
<1>7. (n + 1) * G = n * G + G /\ (q + k) * P = q * P + k * P /\ k * P \in Nat /\ q * P \in Nat
  OBVIOUS
<1>8. (q + k) * P < B * P
  BY <1>3, <1>4, <1>6, <1>7
<1>9. q + k < B
  <2>1. ASSUME B <= q + k PROVE B * P <= (q + k) * P
    <3>1. P * B <= P * (q + k)
      BY <2>1
    <3> QED
      BY <3>1
  <2>2. B * P \in Nat /\ (q + k) * P \in Nat
    OBVIOUS
  <2> QED
    BY <1>8, <2>1, <2>2
<1> QED
  BY <1>2, <1>5, <1>9

LEMMA FirstOfPages ==
  ASSUME NEW P \in Nat \ {0}, NEW v \in Nat, NEW L \in Nat, L * P <= v
  PROVE  L <= v \div P /\ v \div P \in Nat
PROOF
<1>1. v \div P \in Nat
  BY Division
<1>2. ~(v < L * P)
  OBVIOUS
<1> QED
  BY <1>1, <1>2, BelowProduct

(* A large page that does not start at 0 starts above the first.           *)
LEMMA FirstLarge ==
  ASSUME NEW P \in Nat \ {0}, NEW F \in Nat \ {0}, NEW v \in Nat, v % (P * F) = 0, v # 0
  PROVE  F <= v \div P
PROOF
<1>1. PICK G \in Nat \ {0} : G = P * F
  OBVIOUS
<1>2. ~(v \in 0 .. G - 1)
  BY <1>1, SmallDivision
<1>3. F * P <= v
  <2>1. P * F = F * P
    OBVIOUS
  <2> QED
    BY <1>1, <1>2, <2>1
<1> QED
  BY <1>3, FirstOfPages

LEMMA FirstTablesMade ==
  ASSUME TablesTyped(mem), Unowned(mem), setup_page_tables
  PROVE  TablesTyped(mem') /\ Unowned(mem') /\ BootIdentity(mem') /\ UNCHANGED cr3
PROOF
<1> DEFINE a == Page_table_l4
           b == Page_table_l4 + 1
           c == Page_table_l4 + 2
           big == [s \in Slots |-> Large(s * Fan)]
<1>1. /\ a \in TableFrames /\ b \in TableFrames /\ c \in TableFrames /\ 0 \in Slots
      /\ a # b /\ b # c /\ a # c /\ b \in Nat /\ c \in Nat /\ b \notin Own /\ c \notin Own
  BY Frames, OwnFrames DEF Slots
<1>2. ASSUME NEW s \in Slots PROVE s * Fan \in Nat /\ s * Fan \notin Own
  <2>1. s \in Nat /\ Fan \in Nat /\ s * Fan \in Nat
    BY Frames DEF Slots
  <2>2. s = 0 => s * Fan = 0
    BY <2>1
  <2>3. s # 0 => s * Fan >= Fan
    <3>1. s # 0 => Fan * 1 <= Fan * s
      BY <2>1
    <3> QED
      BY <2>1, <3>1
  <2> QED
    BY <2>1, <2>2, <2>3, Frames DEF Own
<1>3. big \in [Slots -> EntryType] /\ \A s \in Slots : big[s].to \notin Own
  BY <1>2 DEF Large, EntryType
<1>4. Link(b) \in EntryType /\ Link(c) \in EntryType /\ Link(b).to \notin Own /\ Link(c).to \notin Own
  BY <1>1 DEF Link, EntryType
<1>5. UNCHANGED cr3 /\ mem' = [mem EXCEPT ![a][0] = Link(b), ![b][0] = Link(c), ![c] = big]
  <2>1. a + 1 = b /\ a + 2 = c
    OBVIOUS
  <2> QED
    BY <2>1 DEF setup_page_tables
<1> HIDE DEF a, b, c, big
<1>6. /\ mem'[a] = [mem[a] EXCEPT ![0] = Link(b)] /\ mem'[b] = [mem[b] EXCEPT ![0] = Link(c)]
      /\ mem'[c] = big /\ DOMAIN mem' = TableFrames
      /\ \A f \in TableFrames \ {a, b, c} : mem'[f] = mem[f]
  BY <1>1, <1>5 DEF TablesTyped
<1>7. \A f \in TableFrames : mem'[f] \in [Slots -> EntryType]
  BY <1>1, <1>3, <1>4, <1>6 DEF TablesTyped
<1>8. mem' = [f \in TableFrames |-> mem'[f]]
  BY <1>1, <1>5 DEF TablesTyped
<1>9. TablesTyped(mem')
  BY <1>7, <1>8 DEF TablesTyped
<1>10. Unowned(mem')
  BY <1>1, <1>3, <1>4, <1>6 DEF TablesTyped, Unowned
<1>11. mem'[a][0] = Link(b) /\ mem'[b][0] = Link(c)
  BY <1>1, <1>6 DEF TablesTyped
<1> QED
  BY <1>5, <1>6, <1>9, <1>10, <1>11 DEF BootIdentity, a, b, c, big

LEMMA IdentityMade ==
  ASSUME TablesTyped(mem), Unowned(mem), setup_paging
  PROVE  LowIdentity(mem') /\ cr3' = Pml4
PROOF
<1>1. mem' = [f \in TableFrames |-> IdentityTable(f)] /\ cr3' = Pml4
  BY DEF setup_paging
<1>2. 0 \in Slots /\ Absent \in EntryType /\ Nowhere \notin Own /\ Absent.to \notin Own
  BY Frames DEF Slots, Absent, EntryType, Own, Nowhere
<1>3. ASSUME NEW f \in Pml4 .. Pml4 + 2
      PROVE  /\ f \in TableFrames /\ f # Pml4 + 3 /\ f + 1 \in Nat
             /\ mem'[f] = [EmptyTable EXCEPT ![0] = Link(f + 1)]
             /\ mem'[f] \in [Slots -> EntryType] /\ mem'[f][0] = Link(f + 1)
             /\ \A s \in Slots \ {0} : mem'[f][s] = Absent
  <2>1. f \in TableFrames /\ f # Pml4 + 3 /\ f + 1 \in Nat
    BY Frames, OwnFrames DEF Own
  <2>2. mem'[f] = [EmptyTable EXCEPT ![0] = Link(f + 1)]
    BY <1>1, <2>1 DEF IdentityTable
  <2>3. Link(f + 1) \in EntryType
    BY <2>1 DEF Link, EntryType
  <2> QED
    BY <1>2, <2>1, <2>2, <2>3 DEF EmptyTable
<1>4. /\ Pml4 + 3 \in TableFrames
      /\ mem'[Pml4 + 3] = [s \in Slots |-> IF s < LOW_PAGES THEN Link(s) ELSE Absent]
  <2>1. Pml4 + 3 \in TableFrames /\ Pml4 + 3 \notin Pml4 .. Pml4 + 2
    BY Frames, OwnFrames
  <2> QED
    BY <1>1, <2>1 DEF IdentityTable
<1>5. mem'[Pml4 + 3] \in [Slots -> EntryType]
  <2>1. \A s \in Slots : s \in Nat
    BY Frames DEF Slots
  <2> QED
    BY <1>2, <1>4, <2>1 DEF Link, EntryType
<1>6. \A f \in TableFrames : f \notin Pml4 .. Pml4 + 2 /\ f # Pml4 + 3 => mem'[f] = mem[f]
  BY <1>1 DEF IdentityTable
<1>7. TablesTyped(mem')
  <2>1. \A f \in TableFrames : mem'[f] \in [Slots -> EntryType]
    BY <1>3, <1>5, <1>6 DEF TablesTyped
  <2> QED
    BY <1>1, <2>1 DEF TablesTyped
<1>8. ASSUME NEW l \in 0 .. 2 PROVE mem'[Pml4 + l][0] = Link(Pml4 + l + 1)
  <2>1. Pml4 + l \in Pml4 .. Pml4 + 2
    BY Frames
  <2> QED
    BY <1>3, <2>1
<1>9. ASSUME NEW p \in 0 .. LOW_PAGES - 1 PROVE mem'[Pml4 + 3][p] = Link(p)
  <2>1. p \in Slots /\ p < LOW_PAGES
    BY Frames DEF Slots
  <2> QED
    BY <1>4, <2>1
<1>10. ASSUME NEW f \in TableFrames \ {Pml4 + 3}, NEW s \in Slots, mem'[f][s].to \in Own
       PROVE  f \in Pml4 .. Pml4 + 2 /\ s = 0
  BY <1>2, <1>3, <1>6, <1>10 DEF Unowned
<1> QED
  BY <1>1, <1>7, <1>8, <1>9, <1>10 DEF LowIdentity

(***************************************************************************)
(* The tables below Pml4 are a tree.  A table has a name, the indexes that *)
(* lead to it: Name(l, v) is the table on the way to page v in which the   *)
(* index of level l is looked up, Ix(l, v) the index.                      *)
(***************************************************************************)
VPages == 0 .. (Fan * Fan * Fan * Fan) - 1

Name(l, v) ==
  CASE l = 4 -> << >>
    [] l = 3 -> <<Index4(v)>>
    [] l = 2 -> <<Index4(v), Index3(v)>>
    [] l = 1 -> <<Index4(v), Index3(v), Index2(v)>>

Ix(l, v) ==
  CASE l = 4 -> Index4(v) [] l = 3 -> Index3(v) [] l = 2 -> Index2(v) [] l = 1 -> Index1(v)

LEMMA Indexes ==
  ASSUME NEW v \in VPages, NEW l \in 1 .. 4
  PROVE  v \in Nat /\ Ix(l, v) \in Slots
PROOF
<1>1. v \in Nat /\ v < Fan * Fan * Fan * Fan
  BY Powers DEF VPages
<1>2. l = 1 \/ l = 2 \/ l = 3 \/ l = 4
  OBVIOUS
<1> QED
  BY <1>1, <1>2, IndexesAreSlots DEF Ix

LEMMA NamesAre ==
  ASSUME NEW v
  PROVE  /\ Name(4, v) = << >> /\ Name(3, v) = <<Index4(v)>>
         /\ Name(2, v) = <<Index4(v), Index3(v)>>
         /\ Name(1, v) = <<Index4(v), Index3(v), Index2(v)>>
         /\ Ix(4, v) = Index4(v) /\ Ix(3, v) = Index3(v)
         /\ Ix(2, v) = Index2(v) /\ Ix(1, v) = Index1(v)
BY DEF Name, Ix

LEMMA NameLevel ==
  ASSUME NEW v, NEW w, NEW k \in 1 .. 4, NEW l \in 1 .. 4, Name(k, v) = Name(l, w)
  PROVE  k = l
PROOF
<1>1. ASSUME NEW u, NEW n \in 1 .. 4
      PROVE  Len(Name(n, u)) = 4 - n
  <2>1. CASE n = 1
    BY <2>1 DEF Name
  <2>2. CASE n = 2
    BY <2>2 DEF Name
  <2>3. CASE n = 3
    BY <2>3 DEF Name
  <2>4. CASE n = 4
    BY <2>4 DEF Name
  <2> QED
    BY <2>1, <2>2, <2>3, <2>4
<1> QED
  BY <1>1

(* The child's name tells the parent's and the index, and the last name    *)
(* and index tell the page.                                                *)
LEMMA NameOfChild ==
  ASSUME NEW v \in VPages, NEW w \in VPages, NEW l \in 2 .. 4
  PROVE  Name(l - 1, v) = Name(l - 1, w) <=> Name(l, v) = Name(l, w) /\ Ix(l, v) = Ix(l, w)
PROOF
<1>1. l = 2 \/ l = 3 \/ l = 4
  OBVIOUS
<1>2. \A a, b, c, d : <<a, b>> = <<c, d>> <=> <<a>> = <<c>> /\ b = d
  OBVIOUS
<1>3. \A a, b, c, d, e, f : <<a, b, e>> = <<c, d, f>> <=> <<a, b>> = <<c, d>> /\ e = f
  OBVIOUS
<1>4. \A a, b : <<a>> = <<b>> <=> a = b
  OBVIOUS
<1>5. CASE l = 2
  BY <1>3, <1>5, NamesAre
<1>6. CASE l = 3
  BY <1>2, <1>6, NamesAre
<1>7. CASE l = 4
  BY <1>4, <1>7, NamesAre
<1> QED
  BY <1>1, <1>5, <1>6, <1>7

LEMMA NameOfPage ==
  ASSUME NEW v \in VPages, NEW w \in VPages
  PROVE  /\ Name(1, v) = Name(1, w) <=> v \div Fan = w \div Fan
         /\ Name(1, v) = Name(1, w) /\ Ix(1, v) = Ix(1, w) => v = w
PROOF
<1>1. v \in Nat /\ w \in Nat
  BY Powers DEF VPages
<1>2. Name(1, v) = Name(1, w)
        <=> Index4(v) = Index4(w) /\ Index3(v) = Index3(w) /\ Index2(v) = Index2(w)
  BY NamesAre
<1>3. Name(1, v) = Name(1, w) <=> v \div Fan = w \div Fan
  BY <1>1, <1>2, SameBlock
<1> QED
  BY <1>1, <1>3, SamePage, NamesAre

(***************************************************************************)
(* What the tables are to hold: page v goes to frame[v], in a large page   *)
(* if v is one of big, in a small one otherwise.                           *)
(***************************************************************************)
Layout(frame, big) ==
  /\ frame \in [VPages -> Int] /\ big \subseteq VPages
  /\ \A v \in VPages : v < LOW_PAGES => frame[v] = v
  /\ \A v \in VPages : v \div Fan = 0 => v \notin big
  /\ \A v, w \in VPages : v \div Fan = w \div Fan /\ v \in big => w \in big
  /\ \A v \in big : frame[v] = frame[v - Index1(v)] + Index1(v)

Leaf(frame, big, l, v, e) ==
  \/ l = 1 /\ frame[v] \in Nat /\ e = Link(frame[v])
  \/ l = 2 /\ v \in big /\ frame[v - Index1(v)] \in Nat /\ e = Large(frame[v - Index1(v)])

At(m, F, l, v) == m[F[Name(l, v)]][Ix(l, v)]

Right(m, F, frame, big, l, v) ==
  IF l # 1 /\ Name(l - 1, v) \in DOMAIN F
  THEN At(m, F, l, v) = Link(F[Name(l - 1, v)])
  ELSE At(m, F, l, v) = Absent \/ Leaf(frame, big, l, v, At(m, F, l, v))

(* F gives the tables of the memory m their frames.                        *)
Tree(m, F, frame, big) ==
  /\ TablesTyped(m)
  /\ F \in [DOMAIN F -> TableFrames]
  /\ \A a, b \in DOMAIN F : F[a] = F[b] => a = b
  /\ << >> \in DOMAIN F /\ F[<< >>] = Pml4
  /\ \A v \in VPages : \A l \in 2 .. 4 : Name(l - 1, v) \in DOMAIN F => Name(l, v) \in DOMAIN F
  /\ \A v \in VPages : Name(1, v) \in DOMAIN F => v \notin big
  /\ \A v \in VPages : \A l \in 1 .. 4 :
       Name(l, v) \in DOMAIN F => Right(m, F, frame, big, l, v)

(* Page v is mapped.                                                       *)
Held(m, F, big, v) ==
  LET l == IF v \in big THEN 2 ELSE 1
  IN  Name(l, v) \in DOMAIN F /\ At(m, F, l, v) # Absent

LEMMA NoTable ==
  /\ Nowhere \notin TableFrames /\ Nowhere \notin Nat /\ TableFrames \subseteq Nat
  /\ Absent.to = Nowhere /\ Absent.large = FALSE
  /\ \A f : Link(f).to = f /\ Link(f).large = FALSE /\ Large(f).to = f /\ Large(f).large = TRUE
  /\ \A f \in Nat : Link(f) # Absent /\ Large(f) # Absent
PROOF
<1>1. \A f : Link(f).to = f /\ Link(f).large = FALSE /\ Large(f).to = f /\ Large(f).large = TRUE
  BY DEF Link, Large
<1>2. Absent.to = Nowhere /\ Absent.large = FALSE
  BY DEF Absent
<1>3. Nowhere \notin Nat
  BY DEF Nowhere
<1>4. TableFrames \subseteq Nat
  BY Frames DEF TableFrames
<1> QED
  BY <1>1, <1>2, <1>3, <1>4

(* A table has its entry, and below what is no table there is none.        *)
LEMMA EntryBelow ==
  ASSUME NEW m, NEW F, NEW frame, NEW big, Tree(m, F, frame, big), NEW v \in VPages,
         NEW l \in 3 .. 4, NEW e,
         e = IF Name(l, v) \in DOMAIN F THEN At(m, F, l, v) ELSE Absent
  PROVE  Entry(m, e.to, Ix(l - 1, v))
           = IF Name(l - 1, v) \in DOMAIN F THEN At(m, F, l - 1, v) ELSE Absent
PROOF
<1>1. DOMAIN m = TableFrames
  BY DEF Tree, TablesTyped
<1>2. CASE Name(l - 1, v) \in DOMAIN F
  <2>1. Name(l, v) \in DOMAIN F
    BY <1>2 DEF Tree
  <2>2. Right(m, F, frame, big, l, v)
    BY <2>1 DEF Tree
  <2>3. e = Link(F[Name(l - 1, v)])
    BY <1>2, <2>1, <2>2 DEF Right
  <2>4. F[Name(l - 1, v)] \in TableFrames
    BY <1>2 DEF Tree
  <2> QED
    BY <1>1, <1>2, <2>3, <2>4, NoTable DEF Entry, At
<1>3. CASE Name(l - 1, v) \notin DOMAIN F
  <2>1. e = Absent
    <3>1. CASE Name(l, v) \in DOMAIN F
      <4>1. Right(m, F, frame, big, l, v)
        BY <3>1 DEF Tree
      <4> QED
        BY <1>3, <3>1, <4>1 DEF Right, Leaf
    <3> QED
      BY <3>1
  <2>2. e.to \notin DOMAIN m
    BY <1>1, <2>1, NoTable
  <2> QED
    BY <1>3, <2>2 DEF Entry
<1> QED
  BY <1>2, <1>3

(* The CPU finds each page in its frame, or nowhere.                       *)
LEMMA WalkIs ==
  ASSUME NEW m, NEW F, NEW frame, NEW big, Layout(frame, big), Tree(m, F, frame, big),
         NEW v \in VPages
  PROVE  /\ Held(m, F, big, v) => frame[v] \in Nat
         /\ Walk(m, Pml4, v) = IF Held(m, F, big, v) THEN frame[v] ELSE Nowhere
PROOF
<1> DEFINE e4 == Entry(m, Pml4, Index4(v))
           e3 == Entry(m, e4.to, Index3(v))
           e2 == Entry(m, e3.to, Index2(v))
           e1 == Entry(m, e2.to, Index1(v))
<1>1. DOMAIN m = TableFrames /\ Pml4 \in TableFrames
  BY OwnFrames DEF Tree, TablesTyped, Own, TableFrames
<1>2. Name(4, v) = << >> /\ << >> \in DOMAIN F /\ F[<< >>] = Pml4
  BY NamesAre DEF Tree
<1>3. e4 = IF Name(4, v) \in DOMAIN F THEN At(m, F, 4, v) ELSE Absent
  BY <1>1, <1>2, NamesAre DEF Entry, At
<1>4. e3 = IF Name(3, v) \in DOMAIN F THEN At(m, F, 3, v) ELSE Absent
  <2> HIDE DEF e4
  <2>1. Entry(m, e4.to, Ix(4 - 1, v))
          = IF Name(4 - 1, v) \in DOMAIN F THEN At(m, F, 4 - 1, v) ELSE Absent
    BY <1>3, EntryBelow
  <2> QED
    BY <2>1, NamesAre
<1>5. e2 = IF Name(2, v) \in DOMAIN F THEN At(m, F, 2, v) ELSE Absent
  <2> HIDE DEF e3
  <2>1. Entry(m, e3.to, Ix(3 - 1, v))
          = IF Name(3 - 1, v) \in DOMAIN F THEN At(m, F, 3 - 1, v) ELSE Absent
    BY <1>4, EntryBelow
  <2> QED
    BY <2>1, NamesAre
<1>6. Walk(m, Pml4, v) =
        LET p == IF e2.large THEN v - Index1(v) ELSE v
            f == IF e2.large THEN e2.to ELSE e1.to
        IN  IF f = Nowhere THEN Nowhere ELSE f + (v - p)
  BY DEF Walk, Translation
<1>7. Name(2, v) \in DOMAIN F => Right(m, F, frame, big, 2, v)
  BY DEF Tree
<1>8. Name(1, v) \in DOMAIN F => Right(m, F, frame, big, 1, v) /\ v \notin big /\ Name(2, v) \in DOMAIN F
  BY DEF Tree
<1>9. v \in Nat /\ Index1(v) \in Nat
  <2>1. 1 \in 1 .. 4
    OBVIOUS
  <2>2. v \in Nat /\ Ix(1, v) \in Slots
    BY <2>1, Indexes
  <2> QED
    BY <2>2, NamesAre, FanAssumption DEF Slots
<1>10. CASE v \in big /\ Held(m, F, big, v)
  <2>1. e2 = Large(frame[v - Index1(v)]) /\ frame[v - Index1(v)] \in Nat
    BY <1>5, <1>7, <1>8, <1>10 DEF Held, Right, Leaf
  <2>2. frame[v] = frame[v - Index1(v)] + Index1(v)
    BY <1>10 DEF Layout
  <2> HIDE DEF e2, e1
  <2>3. PICK f \in Nat : f = frame[v - Index1(v)]
    BY <2>1
  <2>4. e2.large = TRUE /\ e2.to = f /\ f # Nowhere
    BY <2>1, <2>3, NoTable
  <2>5. Walk(m, Pml4, v) = f + (v - (v - Index1(v)))
    BY <1>6, <2>4
  <2>6. Walk(m, Pml4, v) = f + Index1(v)
    BY <1>9, <2>5
  <2> QED
    BY <1>9, <1>10, <2>2, <2>3, <2>6
<1>11. CASE v \in big /\ ~Held(m, F, big, v)
  <2>1. e2 = Absent
    BY <1>5, <1>11 DEF Held
  <2> HIDE DEF e2
  <2>2. e1 = Absent
    BY <1>1, <2>1, NoTable DEF Entry
  <2> HIDE DEF e1
  <2> QED
    BY <1>6, <1>11, <2>1, <2>2, NoTable
<1>12. CASE v \notin big
  <2>1. e1 = (IF Name(1, v) \in DOMAIN F THEN At(m, F, 1, v) ELSE Absent) /\ e2.large = FALSE
    <3>1. CASE Name(1, v) \in DOMAIN F
      <4>1. e2 = Link(F[Name(1, v)])
        <5>1. Right(m, F, frame, big, 2, v) /\ Name(2 - 1, v) \in DOMAIN F
          BY <1>7, <1>8, <3>1
        <5> QED
          BY <1>5, <1>8, <3>1, <5>1 DEF Right
      <4>2. F[Name(1, v)] \in TableFrames
        BY <3>1 DEF Tree
      <4> HIDE DEF e2
      <4> QED
        BY <1>1, <3>1, <4>1, <4>2, NoTable, NamesAre DEF Entry, At
    <3>2. CASE Name(1, v) \notin DOMAIN F
      <4>1. e2 = Absent
        <5>1. Name(2 - 1, v) \notin DOMAIN F
          BY <3>2
        <5> QED
          BY <1>5, <1>7, <1>12, <5>1 DEF Right, Leaf
      <4> HIDE DEF e2
      <4> QED
        BY <1>1, <3>2, <4>1, NoTable DEF Entry
    <3> QED
      BY <3>1, <3>2
  <2> HIDE DEF e2, e1
  <2>2. Walk(m, Pml4, v) = IF e1.to = Nowhere THEN Nowhere ELSE e1.to + (v - v)
    BY <1>6, <2>1
  <2>3. CASE Held(m, F, big, v)
    <3>1. Name(1, v) \in DOMAIN F /\ At(m, F, 1, v) # Absent
      BY <1>12, <2>3 DEF Held
    <3>2. e1 = Link(frame[v]) /\ frame[v] \in Nat
      BY <1>8, <2>1, <3>1 DEF Right, Leaf
    <3>3. PICK f \in Nat : f = frame[v]
      BY <3>2
    <3> QED
      BY <1>9, <2>2, <2>3, <3>2, <3>3, NoTable
  <2>4. CASE ~Held(m, F, big, v)
    <3>1. e1 = Absent
      BY <1>12, <2>1, <2>4 DEF Held
    <3> QED
      BY <2>2, <2>4, <3>1, NoTable
  <2> QED
    BY <2>3, <2>4
<1> QED
  BY <1>10, <1>11, <1>12

With(F, a, new) == [b \in DOMAIN F \cup {a} |-> IF b \in DOMAIN F THEN F[b] ELSE new]

(* The entries once a table is hung: none in it, a link to it, and all     *)
(* others as they were.                                                    *)
LEMMA HungEntries ==
  ASSUME NEW m, NEW F, NEW frame, NEW big, Tree(m, F, frame, big),
         NEW v \in VPages, NEW l \in 2 .. 4, Name(l, v) \in DOMAIN F, Name(l - 1, v) \notin DOMAIN F,
         NEW new \in TableFrames, \A a \in DOMAIN F : F[a] # new,
         NEW h, h = Hung(m, F[Name(l, v)], Ix(l, v), new),
         NEW G, G = With(F, Name(l - 1, v), new),
         NEW w \in VPages, NEW k \in 1 .. 4, Name(k, w) \in DOMAIN G
  PROVE  /\ Name(k, w) = Name(l - 1, v) => At(h, G, k, w) = Absent
         /\ Name(k, w) = Name(l, v) /\ Ix(k, w) = Ix(l, v) => At(h, G, k, w) = Link(new)
         /\ Name(k, w) # Name(l - 1, v) /\ (Name(k, w) # Name(l, v) \/ Ix(k, w) # Ix(l, v))
              => At(h, G, k, w) = At(m, F, k, w)
PROOF
<1>1. Ix(k, w) \in Slots
  BY Indexes
<1>2. Ix(l, v) \in Slots
  <2>1. l \in 1 .. 4
    OBVIOUS
  <2> QED
    BY <2>1, Indexes
<1>3. \A f \in TableFrames : m[f] \in [Slots -> EntryType] /\ DOMAIN m[f] = Slots
  BY DEF Tree, TablesTyped
<1>4. F[Name(l, v)] \in TableFrames /\ F[Name(l, v)] # new
  BY DEF Tree
<1>5. h[new] = EmptyTable
  BY <1>4 DEF Hung
<1>6. h[F[Name(l, v)]] = [m[F[Name(l, v)]] EXCEPT ![Ix(l, v)] = Link(new)]
  BY <1>4 DEF Hung
<1>7. \A f \in TableFrames : f # new /\ f # F[Name(l, v)] => h[f] = m[f]
  BY DEF Hung
<1>8. DOMAIN G = DOMAIN F \cup {Name(l - 1, v)} /\ G[Name(l - 1, v)] = new
        /\ \A a \in DOMAIN F : G[a] = F[a]
  BY DEF With
<1>9. CASE Name(k, w) = Name(l - 1, v)
  <2>1. Name(k, w) # Name(l, v)
    BY <1>9
  <2>2. At(h, G, k, w) = EmptyTable[Ix(k, w)]
    BY <1>5, <1>8, <1>9 DEF At
  <2> QED
    BY <1>1, <1>9, <2>1, <2>2 DEF EmptyTable
<1>10. CASE Name(k, w) # Name(l - 1, v)
  <2>1. Name(k, w) \in DOMAIN F /\ G[Name(k, w)] = F[Name(k, w)] /\ F[Name(k, w)] \in TableFrames
          /\ F[Name(k, w)] # new
    BY <1>8, <1>10 DEF Tree
  <2>2. CASE Name(k, w) = Name(l, v)
    <3>1. At(h, G, k, w) = [m[F[Name(l, v)]] EXCEPT ![Ix(l, v)] = Link(new)][Ix(k, w)]
      BY <1>6, <2>1, <2>2 DEF At
    <3> QED
      BY <1>1, <1>2, <1>3, <1>4, <1>10, <2>2, <3>1 DEF At
  <2>3. CASE Name(k, w) # Name(l, v)
    <3>1. F[Name(k, w)] # F[Name(l, v)]
      BY <2>1, <2>3 DEF Tree
    <3>2. h[F[Name(k, w)]] = m[F[Name(k, w)]]
      BY <1>7, <2>1, <3>1
    <3> QED
      BY <1>10, <2>1, <2>3, <3>2 DEF At
  <2> QED
    BY <2>2, <2>3
<1> QED
  BY <1>9, <1>10

LEMMA HungTree ==
  ASSUME NEW m, NEW F, NEW frame, NEW big, Layout(frame, big), Tree(m, F, frame, big),
         NEW v \in VPages, NEW l \in 2 .. 4, Name(l, v) \in DOMAIN F, Name(l - 1, v) \notin DOMAIN F,
         l = 2 => v \notin big,
         NEW new \in HeapFrames, \A a \in DOMAIN F : F[a] # new,
         NEW h, h = Hung(m, F[Name(l, v)], Ix(l, v), new),
         NEW G, G = With(F, Name(l - 1, v), new)
  PROVE  /\ Tree(h, G, frame, big)
         /\ \A w \in VPages : Held(m, F, big, w) => Held(h, G, big, w)
PROOF
<1>1. DOMAIN G = DOMAIN F \cup {Name(l - 1, v)} /\ G[Name(l - 1, v)] = new
        /\ \A a \in DOMAIN F : G[a] = F[a]
  BY DEF With
<1>2. new \in TableFrames
  BY OwnFrames
<1>3. ASSUME NEW w \in VPages, NEW k \in 1 .. 4, Name(k, w) = Name(l - 1, v)
      PROVE  k = l - 1
  <2>1. l - 1 \in 1 .. 4
    OBVIOUS
  <2> QED
    BY <1>3, <2>1, NameLevel
<1>4. ASSUME NEW w \in VPages, NEW k \in 1 .. 4, Name(k, w) = Name(l, v)
      PROVE  k = l
  <2>1. l \in 1 .. 4
    OBVIOUS
  <2> QED
    BY <1>4, <2>1, NameLevel
<1>5. TablesTyped(h)
  BY HungTyped DEF Tree
<1>6. G \in [DOMAIN G -> TableFrames]
  <2>1. G = [b \in DOMAIN F \cup {Name(l - 1, v)} |-> IF b \in DOMAIN F THEN F[b] ELSE new]
    BY DEF With
  <2>2. \A b \in DOMAIN F \cup {Name(l - 1, v)} :
          (IF b \in DOMAIN F THEN F[b] ELSE new) \in TableFrames
    BY <1>2 DEF Tree
  <2> QED
    BY <2>1, <2>2
<1>7. \A a, b \in DOMAIN G : G[a] = G[b] => a = b
  BY <1>1 DEF Tree
<1>8. << >> \in DOMAIN G /\ G[<< >>] = Pml4
  BY <1>1 DEF Tree
<1>9. ASSUME NEW w \in VPages, NEW k \in 2 .. 4, Name(k - 1, w) \in DOMAIN G
      PROVE  Name(k, w) \in DOMAIN G
  <2>1. CASE Name(k - 1, w) \in DOMAIN F
    BY <1>1, <2>1 DEF Tree
  <2>2. CASE Name(k - 1, w) = Name(l - 1, v)
    <3>1. k - 1 = l - 1
      <4>1. k - 1 \in 1 .. 4
        OBVIOUS
      <4> QED
        BY <1>3, <2>2, <4>1
    <3>2. k = l
      BY <3>1
    <3>3. Name(l, w) = Name(l, v)
      BY <2>2, <3>2, NameOfChild
    <3> QED
      BY <1>1, <3>2, <3>3
  <2> QED
    BY <1>1, <1>9, <2>1, <2>2
<1>10. ASSUME NEW w \in VPages, Name(1, w) \in DOMAIN G
       PROVE  w \notin big
  <2>1. CASE Name(1, w) \in DOMAIN F
    BY <2>1 DEF Tree
  <2>2. CASE Name(1, w) = Name(l - 1, v)
    <3>1. 1 = l - 1
      <4>1. 1 \in 1 .. 4
        OBVIOUS
      <4> QED
        BY <1>3, <2>2, <4>1
    <3>2. l = 2 /\ Name(1, w) = Name(1, v)
      BY <2>2, <3>1
    <3>3. w \div Fan = v \div Fan
      BY <3>2, NameOfPage
    <3> QED
      BY <3>2, <3>3 DEF Layout
  <2> QED
    BY <1>1, <1>10, <2>1, <2>2
<1>11. ASSUME NEW w \in VPages, NEW k \in 1 .. 4, Name(k, w) \in DOMAIN G
       PROVE  /\ Name(k, w) = Name(l - 1, v) => At(h, G, k, w) = Absent
              /\ Name(k, w) = Name(l, v) /\ Ix(k, w) = Ix(l, v) => At(h, G, k, w) = Link(new)
              /\ Name(k, w) # Name(l - 1, v) /\ (Name(k, w) # Name(l, v) \/ Ix(k, w) # Ix(l, v))
                   => At(h, G, k, w) = At(m, F, k, w)
  BY <1>2, <1>11, HungEntries
<1>12. ASSUME NEW w \in VPages, NEW k \in 1 .. 4, Name(k, w) \in DOMAIN G
       PROVE  Right(h, G, frame, big, k, w)
  <2>1. CASE Name(k, w) = Name(l - 1, v)
    <3>1. At(h, G, k, w) = Absent
      BY <1>11, <1>12, <2>1
    <3>2. k # 1 => Name(k - 1, w) \notin DOMAIN G
      <4> SUFFICES ASSUME k # 1 PROVE Name(k - 1, w) \notin DOMAIN G
        OBVIOUS
      <4>1. k - 1 \in 1 .. 4 /\ k \in 2 .. 4
        OBVIOUS
      <4>2. Name(k - 1, w) \notin DOMAIN F
        BY <2>1, <4>1 DEF Tree
      <4>3. Name(k - 1, w) # Name(l - 1, v)
        <5> SUFFICES ASSUME Name(k - 1, w) = Name(l - 1, v) PROVE FALSE
          OBVIOUS
        <5>1. k - 1 = l - 1 /\ k = l - 1
          BY <1>3, <2>1, <4>1
        <5> QED
          BY <5>1
      <4> QED
        BY <1>1, <4>2, <4>3
    <3> QED
      BY <3>1, <3>2 DEF Right
  <2>2. CASE Name(k, w) # Name(l - 1, v) /\ Name(k, w) = Name(l, v) /\ Ix(k, w) = Ix(l, v)
    <3>1. At(h, G, k, w) = Link(new) /\ k = l
      BY <1>4, <1>11, <1>12, <2>2
    <3>2. Name(l - 1, w) = Name(l - 1, v)
      BY <2>2, <3>1, NameOfChild
    <3> QED
      BY <1>1, <3>1, <3>2 DEF Right
  <2>3. CASE Name(k, w) # Name(l - 1, v) /\ (Name(k, w) # Name(l, v) \/ Ix(k, w) # Ix(l, v))
    <3>1. At(h, G, k, w) = At(m, F, k, w) /\ Name(k, w) \in DOMAIN F
      BY <1>1, <1>11, <1>12, <2>3
    <3>2. Right(m, F, frame, big, k, w)
      BY <3>1 DEF Tree
    <3>3. k # 1 => Name(k - 1, w) # Name(l - 1, v)
      <4> SUFFICES ASSUME k # 1, Name(k - 1, w) = Name(l - 1, v) PROVE FALSE
        OBVIOUS
      <4>1. k - 1 \in 1 .. 4 /\ k \in 2 .. 4
        OBVIOUS
      <4>2. k - 1 = l - 1
        BY <1>3, <4>1
      <4>3. k = l
        BY <4>2
      <4> QED
        BY <2>3, <4>3, NameOfChild
    <3>4. k # 1 => (Name(k - 1, w) \in DOMAIN G <=> Name(k - 1, w) \in DOMAIN F)
      BY <1>1, <3>3
    <3>5. k # 1 /\ Name(k - 1, w) \in DOMAIN F => G[Name(k - 1, w)] = F[Name(k - 1, w)]
      BY <1>1
    <3> QED
      BY <3>1, <3>2, <3>4, <3>5 DEF Right
  <2> QED
    BY <2>1, <2>2, <2>3
<1>13. Tree(h, G, frame, big)
  BY <1>5, <1>6, <1>7, <1>8, <1>9, <1>10, <1>12 DEF Tree
<1>14. ASSUME NEW w \in VPages, Held(m, F, big, w)
       PROVE  Held(h, G, big, w)
  <2>1. PICK k \in 1 .. 2 : k = IF w \in big THEN 2 ELSE 1
    OBVIOUS
  <2>2. Name(k, w) \in DOMAIN F /\ At(m, F, k, w) # Absent
    BY <1>14, <2>1 DEF Held
  <2>3. ~(Name(k, w) = Name(l, v) /\ Ix(k, w) = Ix(l, v))
    <3> SUFFICES ASSUME Name(k, w) = Name(l, v), Ix(k, w) = Ix(l, v) PROVE FALSE
      OBVIOUS
    <3>1. k = l
      BY <1>4
    <3>2. l = 2 /\ w \in big /\ k = 2
      BY <2>1, <3>1
    <3>3. Name(2 - 1, w) = Name(2 - 1, v)
      BY <3>2, NameOfChild
    <3>4. w \div Fan = v \div Fan
      BY <3>3, NameOfPage
    <3> QED
      BY <3>2, <3>4 DEF Layout
  <2>4. Name(k, w) \in DOMAIN G /\ Name(k, w) # Name(l - 1, v)
    BY <1>1, <2>2
  <2>5. At(h, G, k, w) = At(m, F, k, w)
    BY <1>11, <2>3, <2>4
  <2> QED
    BY <2>1, <2>2, <2>4, <2>5 DEF Held
<1> QED
  BY <1>13, <1>14

(* What was mapped still is, and so is the page of a leaf of level l.      *)
Keeps(m, F, h, G, big) == \A w \in VPages : Held(m, F, big, w) => Held(h, G, big, w)

Covered(h, F, big, l, v) ==
  \A w \in VPages : w = v \/ (l = 2 /\ w \div Fan = v \div Fan) => Held(h, F, big, w)

(* An entry that a page may have, stored where the page has it.            *)
LEMMA StoredTree ==
  ASSUME NEW m, NEW F, NEW frame, NEW big, Layout(frame, big), Tree(m, F, frame, big),
         NEW v \in VPages, NEW l \in 1 .. 2, Name(l, v) \in DOMAIN F, l = 2 => v \in big,
         NEW e, Leaf(frame, big, l, v, e),
         NEW h, h = [m EXCEPT ![F[Name(l, v)]][Ix(l, v)] = e]
  PROVE  Tree(h, F, frame, big) /\ Keeps(m, F, h, F, big) /\ Covered(h, F, big, l, v)
PROOF
<1>1. l \in 1 .. 4
  OBVIOUS
<1>2. Ix(l, v) \in Slots
  BY <1>1, Indexes
<1>3. F[Name(l, v)] \in TableFrames
  BY DEF Tree
<1>4. \A f \in TableFrames : m[f] \in [Slots -> EntryType] /\ DOMAIN m[f] = Slots
  BY DEF Tree, TablesTyped
<1>5. DOMAIN m = TableFrames
  BY DEF Tree, TablesTyped
<1>6. e \in EntryType /\ e # Absent
  BY NoTable DEF Leaf, EntryType, Link, Large
<1>7. h[F[Name(l, v)]] = [m[F[Name(l, v)]] EXCEPT ![Ix(l, v)] = e]
        /\ \A f \in TableFrames : f # F[Name(l, v)] => h[f] = m[f]
  BY <1>3, <1>5
<1>8. ASSUME NEW w \in VPages, NEW k \in 1 .. 4, Name(k, w) \in DOMAIN F
      PROVE  /\ Name(k, w) = Name(l, v) /\ Ix(k, w) = Ix(l, v) => At(h, F, k, w) = e
             /\ Name(k, w) # Name(l, v) \/ Ix(k, w) # Ix(l, v) => At(h, F, k, w) = At(m, F, k, w)
  <2>1. Ix(k, w) \in Slots /\ F[Name(k, w)] \in TableFrames
    BY <1>8, Indexes DEF Tree
  <2>2. CASE Name(k, w) = Name(l, v)
    <3>1. At(h, F, k, w) = [m[F[Name(l, v)]] EXCEPT ![Ix(l, v)] = e][Ix(k, w)]
      BY <1>7, <2>2 DEF At
    <3> QED
      BY <1>2, <1>3, <1>4, <2>1, <2>2, <3>1 DEF At
  <2>3. CASE Name(k, w) # Name(l, v)
    <3>1. F[Name(k, w)] # F[Name(l, v)]
      BY <1>8, <2>3 DEF Tree
    <3> QED
      BY <1>7, <2>1, <2>3, <3>1 DEF At
  <2> QED
    BY <2>2, <2>3
<1>9. ASSUME NEW w \in VPages, NEW k \in 1 .. 4, Name(k, w) = Name(l, v), Ix(k, w) = Ix(l, v)
      PROVE  /\ k = l /\ (l = 1 => w = v) /\ (l = 2 => w \div Fan = v \div Fan /\ w \in big)
             /\ Leaf(frame, big, k, w, e)
  <2>1. k = l
    BY <1>1, <1>9, NameLevel
  <2>2. CASE l = 1
    <3>1. w = v
      BY <1>9, <2>1, <2>2, NameOfPage
    <3> QED
      BY <2>1, <2>2, <3>1
  <2>3. CASE l = 2
    <3>1. Name(2, w) = Name(2, v) /\ Ix(2, w) = Ix(2, v)
      BY <1>9, <2>1, <2>3
    <3>2. Name(2 - 1, w) = Name(2 - 1, v)
      BY <3>1, NameOfChild
    <3>3. w \div Fan = v \div Fan
      BY <3>2, NameOfPage
    <3>4. w \in big
      BY <2>3, <3>3 DEF Layout
    <3>5. w - Index1(w) = v - Index1(v)
      <4>1. w \in Nat /\ v \in Nat
        BY Powers DEF VPages
      <4>2. PICK a \in Nat : a = Index1(w)
        BY <4>1, PageFromIndexes, FanAssumption DEF Slots
      <4>3. PICK b \in Nat : b = Index1(v)
        BY <4>1, PageFromIndexes, FanAssumption DEF Slots
      <4>4. PICK d \in Nat : d = v \div Fan
        BY <4>1, PageFromIndexes
      <4>5. w = Fan * d + a /\ v = Fan * d + b
        BY <3>3, <4>1, <4>2, <4>3, <4>4, PageFromIndexes
      <4>6. PICK g \in Nat : g = Fan * d
        BY <4>4, FanAssumption
      <4> QED
        BY <4>2, <4>3, <4>5, <4>6
    <3> QED
      BY <2>1, <2>3, <3>3, <3>4, <3>5 DEF Leaf
  <2> QED
    BY <2>2, <2>3
<1>10. TablesTyped(h)
  <2>1. [m[F[Name(l, v)]] EXCEPT ![Ix(l, v)] = e] \in [Slots -> EntryType]
    BY <1>3, <1>4, <1>6
  <2> QED
    BY <1>3, <2>1 DEF Tree, TablesTyped
<1>11. ASSUME NEW w \in VPages, NEW k \in 1 .. 4, Name(k, w) \in DOMAIN F
       PROVE  Right(h, F, frame, big, k, w)
  <2>1. CASE Name(k, w) = Name(l, v) /\ Ix(k, w) = Ix(l, v)
    <3>1. At(h, F, k, w) = e /\ Leaf(frame, big, k, w, e) /\ k = l
            /\ (l = 2 => w \in big)
      BY <1>8, <1>9, <1>11, <2>1
    <3>2. k = 1 \/ (k = 2 /\ Name(2 - 1, w) \notin DOMAIN F)
      BY <3>1 DEF Tree
    <3> QED
      BY <3>1, <3>2 DEF Right
  <2>2. CASE Name(k, w) # Name(l, v) \/ Ix(k, w) # Ix(l, v)
    <3>1. At(h, F, k, w) = At(m, F, k, w)
      BY <1>8, <1>11, <2>2
    <3>2. Right(m, F, frame, big, k, w)
      BY <1>11 DEF Tree
    <3> QED
      BY <3>1, <3>2 DEF Right
  <2> QED
    BY <2>1, <2>2
<1>12. Tree(h, F, frame, big)
  BY <1>10, <1>11 DEF Tree
<1>13. ASSUME NEW w \in VPages, Held(m, F, big, w)
       PROVE  Held(h, F, big, w)
  <2>1. PICK k \in 1 .. 4 : k = IF w \in big THEN 2 ELSE 1
    OBVIOUS
  <2>2. Name(k, w) \in DOMAIN F /\ At(m, F, k, w) # Absent
    BY <1>13, <2>1 DEF Held
  <2>3. At(h, F, k, w) # Absent
    BY <1>6, <1>8, <2>2
  <2> QED
    BY <2>1, <2>2, <2>3 DEF Held
<1>14. ASSUME NEW w \in VPages, w = v \/ (l = 2 /\ w \div Fan = v \div Fan)
       PROVE  Held(h, F, big, w)
  <2>1. Name(l, w) = Name(l, v) /\ Ix(l, w) = Ix(l, v)
    <3>1. CASE w = v
      BY <3>1
    <3>2. CASE l = 2 /\ w \div Fan = v \div Fan
      <4>1. Name(2 - 1, w) = Name(2 - 1, v)
        BY <3>2, NameOfPage
      <4> QED
        BY <3>2, <4>1, NameOfChild
    <3> QED
      BY <1>14, <3>1, <3>2
  <2>2. At(h, F, l, w) = e /\ Name(l, w) \in DOMAIN F
    BY <1>1, <1>8, <2>1
  <2>3. l = IF w \in big THEN 2 ELSE 1
    <3>1. CASE l = 1
      <4>1. w = v /\ w \notin big
        BY <1>14, <3>1 DEF Tree
      <4> QED
        BY <3>1, <4>1
    <3>2. CASE l = 2
      BY <1>1, <1>9, <2>1, <3>2
    <3> QED
      BY <3>1, <3>2
  <2> QED
    BY <1>6, <2>2, <2>3 DEF Held
<1> QED
  BY <1>12, <1>13, <1>14 DEF Keeps, Covered

(***************************************************************************)
(* The heap has room for the tables that are needed, from frame first on,  *)
(* beside the four that setup_paging makes.                                *)
(***************************************************************************)
FirstNames == {<< >>, <<0>>, <<0, 0>>, <<0, 0, 0>>}

Room(needed, first) ==
  /\ first \in Nat /\ IsFiniteSet(needed)
  /\ (first + Cardinality(needed)) * PAGE < HeapBase + HeapSize

(* The record of a call, with the tree its tables are.                     *)
Grown(s, F, frame, big, needed, first) ==
  /\ SoundMemory(s) /\ Tree(s.mem, F, frame, big)
  /\ DOMAIN F \subseteq needed \cup FirstNames /\ IsFiniteSet(DOMAIN F)
  /\ \A a \in DOMAIN F : (F[a] + 1) * PAGE <= HeapBase + s.offset
  /\ HeapBase + s.offset <= (first + Cardinality(DOMAIN F) - 4) * PAGE

LEMMA FourNames == IsFiniteSet(FirstNames) /\ Cardinality(FirstNames) = 4
PROOF
<1>1. ASSUME NEW a, NEW b, NEW c, NEW d, b # a, c \notin {a, b}, d \notin {a, b, c}
      PROVE  IsFiniteSet({a, b, c, d}) /\ Cardinality({a, b, c, d}) = 4
  <2>1. PICK R : R = {a}
    OBVIOUS
  <2>2. PICK S : S = R \cup {b}
    OBVIOUS
  <2>3. PICK T : T = S \cup {c}
    OBVIOUS
  <2>4. b \notin R /\ c \notin S /\ d \notin T /\ {a, b, c, d} = T \cup {d}
    BY <1>1, <2>1, <2>2, <2>3
  <2>5. IsFiniteSet(R) /\ Cardinality(R) = 1
    BY <2>1, FS_Singleton
  <2>6. IsFiniteSet(S) /\ Cardinality(S) = 2
    BY <2>2, <2>4, <2>5, FS_AddElement
  <2>7. IsFiniteSet(T) /\ Cardinality(T) = 3
    BY <2>3, <2>4, <2>6, FS_AddElement
  <2> QED
    BY <2>4, <2>7, FS_AddElement
<1>2. /\ <<0>> # << >> /\ <<0, 0>> \notin {<< >>, <<0>>}
      /\ <<0, 0, 0>> \notin {<< >>, <<0>>, <<0, 0>>}
  <2>1. Len(<< >>) = 0 /\ Len(<<0>>) = 1 /\ Len(<<0, 0>>) = 2 /\ Len(<<0, 0, 0>>) = 3
    OBVIOUS
  <2>2. 0 # 1 /\ 0 # 2 /\ 0 # 3 /\ 1 # 2 /\ 1 # 3 /\ 2 # 3
    OBVIOUS
  <2> QED
    BY <2>1, <2>2, Zenon
<1> QED
  BY <1>1, <1>2, Zenon DEF FirstNames

(* The next page of the heap: the least at or above an address.            *)
LEMMA NextPage ==
  ASSUME NEW P \in Nat \ {0}, NEW x \in Nat, NEW b \in Nat, x <= b, b <= x + P - 1, b % P = 0,
         NEW M \in Int, x <= M * P
  PROVE  \E n \in Nat : b = n * P /\ b \div P = n /\ n <= M /\ b + P = (n + 1) * P
PROOF
<1>1. PICK n \in Nat : n = b \div P
  BY Division
<1>2. b = P * n
  BY <1>1, Division
<1>3. n < M + 1
  <2> SUFFICES ASSUME M + 1 <= n PROVE FALSE
    BY <1>1
  <2>1. (M + 1) * P <= n * P
    BY <1>1
  <2>2. (M + 1) * P = M * P + P /\ M * P \in Int
    OBVIOUS
  <2> QED
    BY <1>2, <2>1, <2>2
<1> QED
  BY <1>1, <1>2, <1>3

LEMMA RoomForOne ==
  ASSUME PageRequest \in Requests, NEW s, NEW F, NEW frame, NEW big, NEW needed, NEW first,
         Room(needed, first), Grown(s, F, frame, big, needed, first),
         NEW c \in needed \cup FirstNames, c \notin DOMAIN F
  PROVE  \E new \in HeapFrames :
           /\ NewTable(s).at = new /\ \A a \in DOMAIN F : F[a] # new
           /\ HeapBase + NewTable(s).offset = (new + 1) * PAGE
           /\ \A a \in DOMAIN F : (F[a] + 1) * PAGE <= HeapBase + NewTable(s).offset
           /\ IsFiniteSet(DOMAIN F \cup {c})
           /\ HeapBase + NewTable(s).offset
                <= (first + Cardinality(DOMAIN F \cup {c}) - 4) * PAGE
PROOF
<1>1. /\ W \in Nat /\ HeapBase \in Nat \ {0} /\ HeapSize \in Nat /\ PAGE \in Nat \ {0}
      /\ HeapBase + HeapSize + PAGE + PAGE < W
  BY HeapAssumption, Frames DEF PageRequest
<1>2. PICK o \in 0 .. HeapSize : o = s.offset
  BY DEF Grown, SoundMemory, Sound
<1>3. PICK x \in Nat : x = HeapBase + o
  BY <1>1
<1>4. PICK d \in Nat : d = Cardinality(DOMAIN F)
  BY FS_CardinalityType DEF Grown
<1>5. /\ IsFiniteSet(DOMAIN F \cup {c}) /\ Cardinality(DOMAIN F \cup {c}) = d + 1
  BY <1>4, FS_AddElement DEF Grown
<1>6. PICK k \in Nat : k = Cardinality(needed)
  BY FS_CardinalityType DEF Room
<1>7. d + 1 <= k + 4
  <2>1. IsFiniteSet(needed \cup FirstNames) /\ Cardinality(needed \cup FirstNames) <= k + 4
    <3>1. PICK z \in Nat : z = Cardinality(FirstNames) /\ z <= 4
      BY FourNames, FS_CardinalityType
    <3>2. /\ IsFiniteSet(needed \cup FirstNames)
          /\ Cardinality(needed \cup FirstNames) = k + z - Cardinality(needed \cap FirstNames)
      BY <1>6, <3>1, FourNames, FS_Union DEF Room
    <3>3. IsFiniteSet(needed \cap FirstNames) /\ Cardinality(needed \cap FirstNames) \in Nat
      <4>1. needed \cap FirstNames \in SUBSET FirstNames
        OBVIOUS
      <4> QED
        BY <4>1, FourNames, FS_Subset, FS_CardinalityType
    <3>4. PICK y \in Nat : y = Cardinality(needed \cap FirstNames)
      BY <3>3
    <3> QED
      BY <3>1, <3>2, <3>4
  <2>2. DOMAIN F \cup {c} \in SUBSET (needed \cup FirstNames)
    BY DEF Grown
  <2>3. Cardinality(DOMAIN F \cup {c}) <= Cardinality(needed \cup FirstNames)
    BY <2>1, <2>2, FS_Subset
  <2>4. Cardinality(needed \cup FirstNames) \in Nat
    BY <2>1, FS_CardinalityType
  <2> QED
    BY <1>5, <2>1, <2>3, <2>4
<1>8. PICK M \in Int : M = first + d - 4
  BY <1>4 DEF Room
<1>9. x <= M * PAGE
  BY <1>2, <1>3, <1>4, <1>8 DEF Grown
<1>22. x + PAGE < W
  BY <1>1, <1>2, <1>3
<1>23. /\ AlignUp(x, PAGE) \in Nat /\ x <= AlignUp(x, PAGE)
       /\ AlignUp(x, PAGE) <= x + PAGE - 1 /\ AlignUp(x, PAGE) % PAGE = 0
  BY <1>1, <1>22, AlignUpNext, Zenon
<1>10. PICK b \in Nat : b = AlignUp(x, PAGE)
  BY <1>23
<1>11. x <= b /\ b <= x + PAGE - 1 /\ b % PAGE = 0
  BY <1>10, <1>23
<1>12. PICK n \in Nat : b = n * PAGE /\ b \div PAGE = n /\ n <= M /\ b + PAGE = (n + 1) * PAGE
  BY <1>1, <1>9, <1>11, NextPage
<1>13. (n + 1) * PAGE <= (M + 1) * PAGE /\ (M + 1) * PAGE < HeapBase + HeapSize
  <2>1. n + 1 <= M + 1 /\ M + 1 <= first + k /\ first + k \in Nat
    BY <1>4, <1>6, <1>7, <1>8, <1>12 DEF Room
  <2>2. \A g, h \in Int : g <= h => g * PAGE <= h * PAGE
    BY <1>1
  <2>3. (n + 1) * PAGE <= (M + 1) * PAGE /\ (M + 1) * PAGE <= (first + k) * PAGE
    BY <2>1, <2>2
  <2>4. (first + k) * PAGE < HeapBase + HeapSize
    BY <1>6 DEF Room
  <2>5. (M + 1) * PAGE \in Int /\ (first + k) * PAGE \in Int
    BY <1>1, <2>1
  <2> QED
    BY <1>1, <2>3, <2>4, <2>5
<1>14. NextOffset(s.offset, PAGE, PAGE) = b - HeapBase + PAGE
  <2>1. PICK g \in Nat : g = b - HeapBase + PAGE
    BY <1>1, <1>2, <1>3, <1>11
  <2>2. g < W
    BY <1>1, <1>2, <1>3, <1>11, <2>1
  <2>3. g % W = g
    BY <1>1, <2>1, <2>2
  <2> QED
    BY <1>2, <1>3, <1>10, <2>1, <2>3 DEF NextOffset
<1>15. PICK top \in Int : top = (M + 1) * PAGE
  BY <1>1
<1>16. Fits(s.offset, PAGE, PAGE)
  BY <1>1, <1>12, <1>13, <1>14, <1>15 DEF Fits
<1>17. /\ NewTable(s).at = n
       /\ NewTable(s).offset = b - HeapBase + PAGE
  BY <1>2, <1>3, <1>10, <1>12, <1>14, <1>16 DEF NewTable, SoundMemory, Grown, Block
<1>18. HeapBase + NewTable(s).offset = (n + 1) * PAGE
  BY <1>1, <1>12, <1>17
<1>19. n \in HeapFrames
  <2>1. /\ HeapBase \div PAGE \in Nat /\ (HeapBase + HeapSize) \div PAGE \in Nat
    <3>1. HeapBase + HeapSize \in Nat
      BY <1>1
    <3> QED
      BY <1>1, <3>1, Division, Zenon
  <2>2. HeapBase <= b /\ b <= HeapBase + HeapSize
    BY <1>1, <1>2, <1>3, <1>11, <1>12, <1>13, <1>15
  <2>3. HeapBase \div PAGE <= b \div PAGE
    BY <1>1, <2>2, QuotientsOrdered
  <2>4. b \div PAGE <= (HeapBase + HeapSize) \div PAGE
    <3>1. HeapBase + HeapSize \in Nat
      BY <1>1
    <3> QED
      BY <1>1, <2>2, <3>1, QuotientsOrdered
  <2> QED
    BY <1>12, <2>1, <2>3, <2>4 DEF HeapFrames
<1>20. ASSUME NEW a \in DOMAIN F
       PROVE  F[a] # n /\ (F[a] + 1) * PAGE <= HeapBase + NewTable(s).offset
  <2>1. PICK f \in Nat : f = F[a]
    BY NoTable DEF Grown, Tree
  <2>2. (f + 1) * PAGE <= x
    BY <1>2, <1>3, <2>1 DEF Grown
  <2>3. PICK g \in Nat : g = (f + 1) * PAGE
    BY <1>1
  <2>4. f # n
    <3> SUFFICES ASSUME f = n PROVE FALSE
      OBVIOUS
    <3>1. g = b + PAGE
      BY <1>12, <2>3
    <3> QED
      BY <1>1, <1>11, <2>2, <2>3, <3>1
  <2>5. g <= HeapBase + (b - HeapBase + PAGE)
    BY <1>1, <1>11, <2>2, <2>3
  <2> QED
    BY <1>17, <2>1, <2>3, <2>4, <2>5
<1>21. HeapBase + NewTable(s).offset <= (first + Cardinality(DOMAIN F \cup {c}) - 4) * PAGE
  <2>1. first + (d + 1) - 4 = M + 1
    BY <1>4, <1>8 DEF Room
  <2> QED
    BY <1>5, <1>13, <1>18, <2>1
<1> QED
  BY <1>5, <1>17, <1>18, <1>19, <1>20, <1>21

(* The table below is there, or is made.                                   *)
LEMMA GetOrCreateTree ==
  ASSUME PageRequest \in Requests, NEW s, NEW F, NEW frame, NEW big, NEW needed, NEW first,
         Layout(frame, big), Room(needed, first), Grown(s, F, frame, big, needed, first),
         NEW v \in VPages, NEW l \in 2 .. 4, Name(l, v) \in DOMAIN F, s.at = F[Name(l, v)],
         l = 2 => v \notin big, Name(l - 1, v) \in needed \cup FirstNames
  PROVE  \E G : /\ Grown(get_or_create_table(s, Ix(l, v)), G, frame, big, needed, first)
                /\ Name(l - 1, v) \in DOMAIN G
                /\ get_or_create_table(s, Ix(l, v)).at = G[Name(l - 1, v)]
                /\ Keeps(s.mem, F, get_or_create_table(s, Ix(l, v)).mem, G, big)
PROOF
<1>1. PICK i : i = Ix(l, v)
  OBVIOUS
<1>2. PICK r : r = get_or_create_table(s, i)
  OBVIOUS
<1>3. SoundMemory(r) /\ SoundMemory(s) /\ Tree(s.mem, F, frame, big) /\ TablesTyped(s.mem)
  BY <1>2, GetOrCreateSound DEF Grown, Tree
<1>4. s.at \in TableFrames /\ s.mem[s.at][i] = At(s.mem, F, l, v)
  BY <1>1, <1>3 DEF Tree, At
<1>5. l \in 1 .. 4 /\ l # 1
  OBVIOUS
<1>6. Right(s.mem, F, frame, big, l, v)
  BY <1>3, <1>5 DEF Tree
<1>7. CASE Name(l - 1, v) \in DOMAIN F
  <2>1. s.mem[s.at][i] = Link(F[Name(l - 1, v)])
    BY <1>4, <1>5, <1>6, <1>7 DEF Right
  <2>2. Present(s.mem[s.at][i]) /\ s.mem[s.at][i].to = F[Name(l - 1, v)]
    BY <1>3, <1>7, <2>1, NoTable DEF Present, Tree
  <2>3. r = [s EXCEPT !.at = s.mem[s.at][i].to]
    BY <1>2, <1>4, <2>2 DEF get_or_create_table
  <2>4. r.mem = s.mem /\ r.offset = s.offset /\ r.at = F[Name(l - 1, v)]
    BY <1>3, <2>2, <2>3 DEF SoundMemory
  <2>5. Grown(r, F, frame, big, needed, first)
    BY <1>3, <2>4 DEF Grown
  <2>6. Keeps(s.mem, F, r.mem, F, big)
    BY <2>4 DEF Keeps
  <2> QED
    BY <1>1, <1>2, <1>7, <2>4, <2>5, <2>6
<1>8. CASE Name(l - 1, v) \notin DOMAIN F
  <2>1. s.mem[s.at][i] = Absent
    BY <1>4, <1>5, <1>6, <1>8 DEF Right, Leaf
  <2>2. ~Present(s.mem[s.at][i])
    BY <2>1, NoTable DEF Present
  <2>3. PICK new \in HeapFrames :
           /\ NewTable(s).at = new /\ \A a \in DOMAIN F : F[a] # new
           /\ HeapBase + NewTable(s).offset = (new + 1) * PAGE
           /\ \A a \in DOMAIN F : (F[a] + 1) * PAGE <= HeapBase + NewTable(s).offset
           /\ IsFiniteSet(DOMAIN F \cup {Name(l - 1, v)})
           /\ HeapBase + NewTable(s).offset
                <= (first + Cardinality(DOMAIN F \cup {Name(l - 1, v)}) - 4) * PAGE
    BY <1>8, RoomForOne
  <2>4. r.at = new /\ r.mem = Hung(s.mem, s.at, i, new) /\ r.offset = NewTable(s).offset
    BY <1>2, <1>3, <1>4, <2>2, <2>3, GetOrCreateCases
  <2>5. PICK G : G = With(F, Name(l - 1, v), new)
    OBVIOUS
  <2>6. DOMAIN G = DOMAIN F \cup {Name(l - 1, v)} /\ G[Name(l - 1, v)] = new
          /\ \A a \in DOMAIN F : G[a] = F[a]
    BY <1>8, <2>5 DEF With
  <2>7. Tree(r.mem, G, frame, big) /\ Keeps(s.mem, F, r.mem, G, big)
    <3>1. r.mem = Hung(s.mem, F[Name(l, v)], Ix(l, v), new)
      BY <1>1, <2>4
    <3> QED
      BY <1>3, <1>8, <2>3, <2>5, <3>1, HungTree DEF Keeps
  <2>8. \A a \in DOMAIN G : (G[a] + 1) * PAGE <= HeapBase + r.offset
    <3>1. (new + 1) * PAGE <= HeapBase + r.offset
      <4>1. new \in Nat
        BY OwnFrames, NoTable
      <4>2. (new + 1) * PAGE \in Nat
        BY <4>1, Frames
      <4> QED
        BY <2>3, <2>4, <4>2
    <3> QED
      BY <2>3, <2>4, <2>6, <3>1
  <2>9. Grown(r, G, frame, big, needed, first)
    <3>1. DOMAIN G \subseteq needed \cup FirstNames
      BY <2>6 DEF Grown
    <3> QED
      BY <1>3, <2>3, <2>4, <2>6, <2>7, <2>8, <3>1 DEF Grown
  <2> QED
    BY <1>1, <1>2, <2>4, <2>6, <2>7, <2>9
<1> QED
  BY <1>7, <1>8

LEMMA KeepsOn ==
  ASSUME NEW m, NEW F, NEW h, NEW G, NEW n, NEW H, NEW big, Keeps(m, F, h, G, big), Keeps(h, G, n, H, big)
  PROVE  Keeps(m, F, n, H, big)
BY DEF Keeps

(* The way to page v needs no table but those there is room for.           *)
Way(needed, v, lowest) == \A l \in lowest .. 3 : Name(l, v) \in needed \cup FirstNames

LEMMA DirectoryTree ==
  ASSUME PageRequest \in Requests, NEW s, NEW F, NEW frame, NEW big, NEW needed, NEW first,
         Layout(frame, big), Room(needed, first), Grown(s, F, frame, big, needed, first),
         NEW v \in VPages, Way(needed, v, 2)
  PROVE  \E G : /\ Grown(DirectoryOf(s, v), G, frame, big, needed, first)
                /\ Name(2, v) \in DOMAIN G /\ DirectoryOf(s, v).at = G[Name(2, v)]
                /\ Keeps(s.mem, F, DirectoryOf(s, v).mem, G, big)
PROOF
<1>1. PICK r : r = [s EXCEPT !.at = Pml4]
  OBVIOUS
<1>2. r.mem = s.mem /\ r.offset = s.offset /\ r.blocks = s.blocks /\ r.at = Pml4
        /\ DOMAIN r = DOMAIN s
  BY <1>1 DEF Grown, SoundMemory
<1>3. Grown(r, F, frame, big, needed, first)
  BY <1>2 DEF Grown, SoundMemory
<1>4. Name(4, v) \in DOMAIN F /\ r.at = F[Name(4, v)]
  BY <1>2, NamesAre DEF Grown, Tree
<1>5. 4 \in 2 .. 4 /\ 3 \in 2 .. 4 /\ 4 - 1 = 3 /\ 3 - 1 = 2 /\ 4 # 2 /\ 3 # 2 /\ 3 \in 2 .. 3 /\ 2 \in 2 .. 3
  OBVIOUS
<1>6. PICK q : q = get_or_create_table(r, Index4(v))
  OBVIOUS
<1>7. PICK H : /\ Grown(q, H, frame, big, needed, first) /\ Name(3, v) \in DOMAIN H
               /\ q.at = H[Name(3, v)] /\ Keeps(s.mem, F, q.mem, H, big)
  <2>1. q = get_or_create_table(r, Ix(4, v))
    BY <1>6, NamesAre
  <2>2. Name(4 - 1, v) \in needed \cup FirstNames
    BY <1>5 DEF Way
  <2>3. \E G : /\ Grown(q, G, frame, big, needed, first)
                /\ Name(4 - 1, v) \in DOMAIN G
                /\ q.at = G[Name(4 - 1, v)]
                /\ Keeps(r.mem, F, q.mem, G, big)
    BY <1>3, <1>4, <1>5, <2>1, <2>2, GetOrCreateTree
  <2> QED
    BY <1>2, <1>5, <2>3
<1>8. DirectoryOf(s, v) = get_or_create_table(q, Index3(v))
  BY <1>1, <1>6 DEF DirectoryOf
<1>9. \E G : /\ Grown(DirectoryOf(s, v), G, frame, big, needed, first)
             /\ Name(3 - 1, v) \in DOMAIN G
             /\ DirectoryOf(s, v).at = G[Name(3 - 1, v)]
             /\ Keeps(q.mem, H, DirectoryOf(s, v).mem, G, big)
  <2>1. DirectoryOf(s, v) = get_or_create_table(q, Ix(3, v))
    BY <1>8, NamesAre
  <2>2. Name(3 - 1, v) \in needed \cup FirstNames
    BY <1>5 DEF Way
  <2> QED
    BY <1>5, <1>7, <2>1, <2>2, GetOrCreateTree
<1> QED
  BY <1>5, <1>7, <1>9, KeepsOn

(* A call stores a page of the layout: it finds room, the page is mapped,  *)
(* and so is every page that was.                                          *)
LEMMA StoreGrown ==
  ASSUME NEW s, NEW F, NEW frame, NEW big, NEW needed, NEW first,
         Layout(frame, big), Grown(s, F, frame, big, needed, first),
         NEW v \in VPages, NEW l \in 1 .. 2, Name(l, v) \in DOMAIN F, l = 2 => v \in big,
         s.at = F[Name(l, v)],
         NEW e, Leaf(frame, big, l, v, e)
  PROVE  LET r == Store(s, Ix(l, v), e)
         IN  /\ Grown(r, F, frame, big, needed, first) /\ r.at \in TableFrames
             /\ Keeps(s.mem, F, r.mem, F, big) /\ Covered(r.mem, F, big, l, v)
PROOF
<1>1. PICK r : r = Store(s, Ix(l, v), e)
  OBVIOUS
<1>2. s.at \in TableFrames
  BY DEF Grown, Tree
<1>3. r.mem = [s.mem EXCEPT ![F[Name(l, v)]][Ix(l, v)] = e] /\ r.offset = s.offset /\ r.at = s.at
  BY <1>1, <1>2 DEF Store, Grown, SoundMemory
<1>4. SoundMemory(r)
  BY <1>1, StoreSound DEF Grown
<1>5. Tree(r.mem, F, frame, big) /\ Keeps(s.mem, F, r.mem, F, big) /\ Covered(r.mem, F, big, l, v)
  <2>1. Tree(s.mem, F, frame, big)
    BY DEF Grown
  <2>2. PICK h : h = r.mem
    OBVIOUS
  <2>3. h = [s.mem EXCEPT ![F[Name(l, v)]][Ix(l, v)] = e]
    BY <1>3, <2>2
  <2>4. Tree(h, F, frame, big) /\ Keeps(s.mem, F, h, F, big) /\ Covered(h, F, big, l, v)
    BY <2>1, <2>3, StoredTree
  <2> QED
    BY <2>2, <2>4
<1>6. Grown(r, F, frame, big, needed, first)
  BY <1>3, <1>4, <1>5 DEF Grown
<1> QED
  BY <1>1, <1>2, <1>3, <1>5, <1>6

LEMMA SmallPageTree ==
  ASSUME PageRequest \in Requests, NEW s, NEW F, NEW frame, NEW big, NEW needed, NEW first,
         Layout(frame, big), Room(needed, first), Grown(s, F, frame, big, needed, first),
         NEW v \in VPages, Way(needed, v, 1), v \notin big, frame[v] \in Nat,
         NEW r, r = Store(get_or_create_table(DirectoryOf(s, v), Index2(v)), Index1(v), Link(frame[v]))
  PROVE  \E G : /\ Grown(r, G, frame, big, needed, first) /\ r.at \in TableFrames
                /\ Keeps(s.mem, F, r.mem, G, big) /\ Held(r.mem, G, big, v)
PROOF
<1>1. PICK d : d = DirectoryOf(s, v)
  OBVIOUS
<1>2. PICK H : /\ Grown(d, H, frame, big, needed, first) /\ Name(2, v) \in DOMAIN H
               /\ d.at = H[Name(2, v)] /\ Keeps(s.mem, F, d.mem, H, big)
  <2>1. Way(needed, v, 2)
    BY DEF Way
  <2> QED
    BY <1>1, <2>1, DirectoryTree
<1>3. PICK q : q = get_or_create_table(d, Ix(2, v))
  OBVIOUS
<1>4. 2 \in 2 .. 4 /\ 2 - 1 = 1 /\ 1 \in 1 .. 3 /\ 1 \in 1 .. 2
  OBVIOUS
<1>5. \E G : /\ Grown(q, G, frame, big, needed, first) /\ Name(2 - 1, v) \in DOMAIN G
             /\ q.at = G[Name(2 - 1, v)] /\ Keeps(d.mem, H, q.mem, G, big)
  <2>1. Name(2 - 1, v) \in needed \cup FirstNames
    BY <1>4 DEF Way
  <2> QED
    BY <1>2, <1>3, <1>4, <2>1, GetOrCreateTree
<1>6. PICK G : /\ Grown(q, G, frame, big, needed, first) /\ Name(1, v) \in DOMAIN G
               /\ q.at = G[Name(1, v)] /\ Keeps(d.mem, H, q.mem, G, big)
  BY <1>4, <1>5
<1>7. r = Store(q, Ix(1, v), Link(frame[v]))
  BY <1>1, <1>3, NamesAre
<1>8. Leaf(frame, big, 1, v, Link(frame[v]))
  BY DEF Leaf
<1>9. /\ Grown(r, G, frame, big, needed, first) /\ r.at \in TableFrames
      /\ Keeps(q.mem, G, r.mem, G, big) /\ Covered(r.mem, G, big, 1, v)
  BY <1>4, <1>6, <1>7, <1>8, StoreGrown
<1>10. Held(r.mem, G, big, v)
  BY <1>9 DEF Covered
<1> QED
  BY <1>2, <1>6, <1>9, <1>10, KeepsOn

LEMMA LargePageTree ==
  ASSUME PageRequest \in Requests, NEW s, NEW F, NEW frame, NEW big, NEW needed, NEW first,
         Layout(frame, big), Room(needed, first), Grown(s, F, frame, big, needed, first),
         NEW v \in VPages, Way(needed, v, 2), v \in big, Index1(v) = 0, frame[v] \in Nat,
         NEW r, r = Store(DirectoryOf(s, v), Index2(v), Large(frame[v]))
  PROVE  \E G : /\ Grown(r, G, frame, big, needed, first) /\ r.at \in TableFrames
                /\ Keeps(s.mem, F, r.mem, G, big)
                /\ \A w \in VPages : w \div Fan = v \div Fan => Held(r.mem, G, big, w)
PROOF
<1>1. PICK d : d = DirectoryOf(s, v)
  OBVIOUS
<1>2. PICK G : /\ Grown(d, G, frame, big, needed, first) /\ Name(2, v) \in DOMAIN G
               /\ d.at = G[Name(2, v)] /\ Keeps(s.mem, F, d.mem, G, big)
  BY <1>1, DirectoryTree
<1>3. r = Store(d, Ix(2, v), Large(frame[v]))
  BY <1>1, NamesAre
<1>4. v - Index1(v) = v
  <2>1. v \in Nat
    BY Powers DEF VPages
  <2> QED
    BY <2>1
<1>5. Leaf(frame, big, 2, v, Large(frame[v]))
  BY <1>4 DEF Leaf
<1>6. 2 \in 1 .. 2
  OBVIOUS
<1>7. /\ Grown(r, G, frame, big, needed, first) /\ r.at \in TableFrames
      /\ Keeps(d.mem, G, r.mem, G, big) /\ Covered(r.mem, G, big, 2, v)
  BY <1>2, <1>3, <1>5, <1>6, StoreGrown
<1>8. \A w \in VPages : w \div Fan = v \div Fan => Held(r.mem, G, big, w)
  BY <1>7 DEF Covered
<1> QED
  BY <1>2, <1>7, <1>8, KeepsOn

(***************************************************************************)
(* The tables of setup_paging: the first tree.                             *)
(***************************************************************************)
SetUp(m) ==
  /\ TablesTyped(m)
  /\ \A l \in 0 .. 2 : m[Pml4 + l] = [EmptyTable EXCEPT ![0] = Link(Pml4 + l + 1)]
  /\ m[Pml4 + 3] = [s \in Slots |-> IF s < LOW_PAGES THEN Link(s) ELSE Absent]

FirstFrames == [a \in FirstNames |-> Pml4 + Len(a)]

LEMMA FirstNamesAre ==
  /\ 0 \in VPages /\ DOMAIN FirstFrames = FirstNames
  /\ \A l \in 1 .. 4 : Name(l, 0) \in FirstNames /\ FirstFrames[Name(l, 0)] = Pml4 + (4 - l)
  /\ \A a \in FirstNames : \E l \in 1 .. 4 : a = Name(l, 0)
PROOF
<1>1. 0 \in 0 .. Fan - 1 /\ 0 \in VPages
  BY Powers, FanAssumption DEF VPages
<1>2. Index4(0) = 0 /\ Index3(0) = 0 /\ Index2(0) = 0
  BY <1>1, LowPage
<1>3. Name(4, 0) = << >> /\ Name(3, 0) = <<0>> /\ Name(2, 0) = <<0, 0>> /\ Name(1, 0) = <<0, 0, 0>>
  BY <1>2, NamesAre
<1>4. DOMAIN FirstFrames = FirstNames
  BY DEF FirstFrames
<1>5. Name(4, 0) \in FirstNames /\ Name(3, 0) \in FirstNames /\ Name(2, 0) \in FirstNames /\ Name(1, 0) \in FirstNames
  BY <1>3, Zenon DEF FirstNames
<1>6. Len(<< >>) = 0 /\ Len(<<0>>) = 1 /\ Len(<<0, 0>>) = 2 /\ Len(<<0, 0, 0>>) = 3
  OBVIOUS
<1>7. /\ FirstFrames[Name(4, 0)] = Pml4 + 0 /\ FirstFrames[Name(3, 0)] = Pml4 + 1
      /\ FirstFrames[Name(2, 0)] = Pml4 + 2 /\ FirstFrames[Name(1, 0)] = Pml4 + 3
  BY <1>3, <1>5, <1>6, Zenon DEF FirstFrames
<1>8. ASSUME NEW l \in 1 .. 4
      PROVE  Name(l, 0) \in FirstNames /\ FirstFrames[Name(l, 0)] = Pml4 + (4 - l)
  <2>1. l = 1 \/ l = 2 \/ l = 3 \/ l = 4
    OBVIOUS
  <2>2. 4 - 4 = 0 /\ 4 - 3 = 1 /\ 4 - 2 = 2 /\ 4 - 1 = 3
    OBVIOUS
  <2> QED
    BY <1>5, <1>7, <2>1, <2>2, Zenon
<1>9. ASSUME NEW a \in FirstNames
      PROVE  \E l \in 1 .. 4 : a = Name(l, 0)
  <2>1. 1 \in 1 .. 4 /\ 2 \in 1 .. 4 /\ 3 \in 1 .. 4 /\ 4 \in 1 .. 4
    OBVIOUS
  <2>2. a = << >> \/ a = <<0>> \/ a = <<0, 0>> \/ a = <<0, 0, 0>>
    BY Zenon DEF FirstNames
  <2> QED
    BY <1>3, <2>1, <2>2, Zenon
<1> QED
  BY <1>1, <1>4, <1>8, <1>9

LEMMA FirstTree ==
  ASSUME NEW m, SetUp(m), NEW frame, NEW big, Layout(frame, big)
  PROVE  Tree(m, FirstFrames, frame, big)
PROOF
<1>1. PICK F : F = FirstFrames
  OBVIOUS
<1>2. /\ 0 \in VPages /\ DOMAIN F = FirstNames
      /\ \A l \in 1 .. 4 : Name(l, 0) \in FirstNames /\ F[Name(l, 0)] = Pml4 + (4 - l)
      /\ \A a \in FirstNames : \E l \in 1 .. 4 : a = Name(l, 0)
  BY <1>1, FirstNamesAre
<1>3. ASSUME NEW v \in VPages, NEW l \in 1 .. 4, Name(l, v) \in FirstNames
      PROVE  Name(l, v) = Name(l, 0)
  <2>1. PICK k \in 1 .. 4 : Name(l, v) = Name(k, 0)
    BY <1>2, <1>3
  <2>2. k = l
    BY <2>1, NameLevel
  <2> QED
    BY <2>1, <2>2
<1>4. F \in [DOMAIN F -> TableFrames]
  <2>1. F = [a \in FirstNames |-> F[a]]
    BY <1>1 DEF FirstFrames
  <2>2. ASSUME NEW a \in FirstNames PROVE F[a] \in TableFrames
    <3>1. PICK l \in 1 .. 4 : a = Name(l, 0)
      BY <1>2
    <3>2. F[a] = Pml4 + (4 - l)
      BY <1>2, <3>1
    <3>3. F[a] \in Own
      BY <3>2, Frames DEF Own
    <3> QED
      BY <3>3, OwnFrames
  <2> QED
    BY <1>2, <2>1, <2>2
<1>5. ASSUME NEW a \in DOMAIN F, NEW b \in DOMAIN F, F[a] = F[b]
      PROVE  a = b
  <2>1. PICK l \in 1 .. 4 : a = Name(l, 0)
    BY <1>2
  <2>2. PICK k \in 1 .. 4 : b = Name(k, 0)
    BY <1>2
  <2>3. Pml4 + (4 - l) = Pml4 + (4 - k)
    BY <1>2, <1>5, <2>1, <2>2
  <2>4. l = k
    BY <2>3, Frames
  <2> QED
    BY <2>1, <2>2, <2>4
<1>6. << >> \in DOMAIN F /\ F[<< >>] = Pml4
  <2>1. 4 \in 1 .. 4 /\ Pml4 + (4 - 4) = Pml4
    BY Frames
  <2>2. Name(4, 0) = << >>
    BY NamesAre
  <2> QED
    BY <1>2, <2>1, <2>2
<1>7. ASSUME NEW v \in VPages, NEW l \in 2 .. 4
      PROVE  Name(l - 1, v) \in DOMAIN F <=> Name(l, v) \in DOMAIN F /\ Ix(l, v) = 0
  <2>1. l \in 1 .. 4 /\ l - 1 \in 1 .. 4
    OBVIOUS
  <2>2. Name(l - 1, v) \in DOMAIN F <=> Name(l - 1, v) = Name(l - 1, 0)
    BY <1>2, <1>3, <2>1
  <2>3. Name(l, v) \in DOMAIN F <=> Name(l, v) = Name(l, 0)
    BY <1>2, <1>3, <2>1
  <2>4. Ix(l, 0) = 0
    <3>1. 0 \in 0 .. Fan - 1
      BY FanAssumption
    <3>2. Index4(0) = 0 /\ Index3(0) = 0 /\ Index2(0) = 0
      BY <3>1, LowPage
    <3>3. l = 2 \/ l = 3 \/ l = 4
      OBVIOUS
    <3> QED
      BY <3>2, <3>3, NamesAre
  <2> QED
    BY <1>2, <2>2, <2>3, <2>4, NameOfChild
<1>8. ASSUME NEW v \in VPages, Name(1, v) \in DOMAIN F
      PROVE  v \div Fan = 0 /\ v \notin big /\ Ix(1, v) = v
  <2>1. 1 \in 1 .. 4
    OBVIOUS
  <2>2. Name(1, v) = Name(1, 0)
    BY <1>2, <1>3, <1>8, <2>1
  <2>3. v \div Fan = 0 \div Fan
    BY <1>2, <2>2, NameOfPage
  <2>4. 0 \div Fan = 0
    <3>1. 0 \in 0 .. Fan - 1 /\ Fan \in Nat \ {0}
      BY FanAssumption
    <3> QED
      BY <3>1, SmallDivision
  <2>5. v = Fan * (v \div Fan) + Index1(v) /\ Index1(v) \in Nat
    <3>1. v \in Nat
      BY Powers DEF VPages
    <3> QED
      BY <3>1, PageFromIndexes, FanAssumption DEF Slots
  <2>6. v = Index1(v)
    BY <2>3, <2>4, <2>5, FanAssumption
  <2> QED
    BY <2>3, <2>4, <2>6, NamesAre DEF Layout
<1>9. ASSUME NEW v \in VPages, NEW l \in 1 .. 4, Name(l, v) \in DOMAIN F
      PROVE  Right(m, F, frame, big, l, v)
  <2>1. F[Name(l, v)] = Pml4 + (4 - l)
    BY <1>2, <1>3, <1>9
  <2>2. Ix(l, v) \in Slots /\ 0 \in Slots
    BY Indexes, FanAssumption DEF Slots
  <2>3. CASE l = 1
    <3>1. At(m, F, 1, v) = m[Pml4 + 3][v] /\ v \in Slots
      BY <1>8, <1>9, <2>1, <2>2, <2>3 DEF At
    <3>2. At(m, F, 1, v) = IF v < LOW_PAGES THEN Link(v) ELSE Absent
      BY <3>1 DEF SetUp
    <3>3. v < LOW_PAGES => frame[v] = v /\ v \in Nat
      BY Powers DEF Layout, VPages
    <3> QED
      BY <2>3, <3>2, <3>3 DEF Right, Leaf
  <2>4. CASE l # 1
    <3>1. l \in 2 .. 4 /\ 4 - l \in 0 .. 2 /\ l - 1 \in 1 .. 4 /\ 4 - (l - 1) = (4 - l) + 1
      BY <2>4
    <3>2. At(m, F, l, v) = [EmptyTable EXCEPT ![0] = Link(Pml4 + (4 - l) + 1)][Ix(l, v)]
      BY <2>1, <3>1 DEF At, SetUp
    <3>3. EmptyTable = [s \in Slots |-> Absent]
      BY DEF EmptyTable
    <3>4. CASE Ix(l, v) = 0
      <4>1. Name(l - 1, v) \in DOMAIN F
        BY <1>7, <1>9, <3>1, <3>4
      <4>2. F[Name(l - 1, v)] = Pml4 + (4 - (l - 1))
        BY <1>2, <1>3, <3>1, <4>1
      <4>3. Pml4 + (4 - (l - 1)) = Pml4 + (4 - l) + 1
        BY <3>1, Frames
      <4>4. At(m, F, l, v) = Link(Pml4 + (4 - l) + 1)
        BY <2>2, <3>2, <3>3, <3>4
      <4> QED
        BY <2>4, <4>1, <4>2, <4>3, <4>4 DEF Right
    <3>5. CASE Ix(l, v) # 0
      <4>1. Name(l - 1, v) \notin DOMAIN F
        BY <1>7, <3>1, <3>5
      <4>2. At(m, F, l, v) = Absent
        BY <2>2, <3>2, <3>3, <3>5
      <4> QED
        BY <4>1, <4>2 DEF Right
    <3> QED
      BY <3>4, <3>5
  <2> QED
    BY <2>3, <2>4
<1>10. TablesTyped(m)
  BY DEF SetUp
<1> QED
  BY <1>1, <1>4, <1>5, <1>6, <1>7, <1>8, <1>9, <1>10 DEF Tree

LEMMA FirstGrown ==
  ASSUME NEW s, SoundMemory(s), SetUp(s.mem), NEW frame, NEW big, Layout(frame, big),
         NEW needed, NEW first \in Nat, HeapBase + s.offset <= first * PAGE
  PROVE  Grown(s, FirstFrames, frame, big, needed, first)
PROOF
<1>1. IsFiniteSet(DOMAIN FirstFrames) /\ Cardinality(DOMAIN FirstFrames) = 4
        /\ DOMAIN FirstFrames \subseteq needed \cup FirstNames
  BY FourNames, FirstNamesAre
<1>2. first + 4 - 4 = first
  OBVIOUS
<1>3. ASSUME NEW a \in DOMAIN FirstFrames
      PROVE  (FirstFrames[a] + 1) * PAGE <= HeapBase + s.offset
  <2>1. PICK l \in 1 .. 4 : FirstFrames[a] = Pml4 + (4 - l)
    BY FirstNamesAre
  <2>2. PICK f \in Nat : f = FirstFrames[a] /\ f + 1 <= Pml4 + 4
    BY <2>1, Frames
  <2>3. (f + 1) * PAGE <= (Pml4 + 4) * PAGE
    BY <2>2, Frames
  <2>4. (Pml4 + 4) * PAGE <= HeapBase /\ HeapBase \in Nat
    BY BootPagingAssumption, HeapAssumption
  <2>5. (f + 1) * PAGE \in Nat /\ (Pml4 + 4) * PAGE \in Nat
    BY <2>2, Frames
  <2>6. PICK o \in Nat : o = s.offset
    BY DEF SoundMemory, Sound
  <2>7. HeapBase <= HeapBase + o
    BY <2>4, <2>6
  <2> QED
    BY <2>2, <2>3, <2>4, <2>5, <2>6, <2>7
<1> QED
  BY <1>1, <1>2, <1>3, FirstTree DEF Grown
=============================================================================
