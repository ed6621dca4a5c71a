------------------------------ MODULE BootPaging ------------------------------
(***************************************************************************)
(* The boot loader's memory: its heap, the page tables it builds there,    *)
(* and what stands in the memory above the first megabyte.                 *)
(*                                                                         *)
(* Addresses are in a unit that divides a page; entries name frames.  A    *)
(* call works on a record: the memory as it is so far and the table it has *)
(* reached, Nowhere once an access has no page behind it.                  *)
(***************************************************************************)
EXTENDS KernelHeap, PageTables

CONSTANTS
  PAGE,        \* units of a page
  LOW_PAGES,   \* pages of the first megabyte
  Page_table_l4,   \* the frame of page_table_l4; those of l3 and l2 follow it
  Pml4             \* the frame of pml4; pdpt, pd and pt follow it

HeapFrames == (HeapBase \div PAGE) .. ((HeapBase + HeapSize) \div PAGE)

(* The tables of the assembly code, pml4 to pt, the pages of the heap, and *)
(* what a null pointer leads to.                                           *)
TableFrames ==
  {0} \cup (Page_table_l4 .. Page_table_l4 + 2) \cup (Pml4 .. Pml4 + 3) \cup HeapFrames

ASSUME BootPagingAssumption ==
  /\ PAGE \in Nat \ {0} /\ LOW_PAGES \in 1 .. Fan /\ Page_table_l4 \in Nat \ {0} /\ Pml4 \in Nat
  /\ Page_table_l4 + 3 <= Pml4 /\ (Pml4 + 4) * PAGE <= HeapBase /\ HeapBase + HeapSize <= LOW_PAGES * PAGE

VARIABLES
  mem,   \* what the frames of TableFrames hold when they are read as tables
  cr3,   \* the frame the CPU walks from, Nowhere while it does not page
  ram    \* the units of memory that were written, outside of TableFrames

memory == <<heap_offset, blocks, mem, cr3, ram>>

Memory == [mem |-> mem, offset |-> heap_offset, blocks |-> blocks, ram |-> ram, at |-> Pml4]

Becomes(s) ==
  /\ mem' = s.mem /\ heap_offset' = s.offset /\ blocks' = s.blocks /\ ram' = s.ram
  /\ UNCHANGED cr3

(***************************************************************************)
(* The tables of the assembly code: the first gigabyte in large pages.     *)
(***************************************************************************)
setup_page_tables ==
  /\ mem' = [mem EXCEPT ![Page_table_l4][0]     = Link(Page_table_l4 + 1),
                        ![Page_table_l4 + 1][0] = Link(Page_table_l4 + 2),
                        ![Page_table_l4 + 2]    = [s \in Slots |-> Large(s * Fan)]]
  /\ UNCHANGED <<heap_offset, blocks, cr3, ram>>

enable_paging_and_longmode ==
  cr3' = Page_table_l4 /\ UNCHANGED <<heap_offset, blocks, mem, ram>>

(***************************************************************************)
(* setup_paging: the first megabyte, each page to itself.                  *)
(***************************************************************************)
IdentityTable(f) ==
  CASE f \in Pml4 .. Pml4 + 2 -> [EmptyTable EXCEPT ![0] = Link(f + 1)]
    [] f = Pml4 + 3 -> [s \in Slots |-> IF s < LOW_PAGES THEN Link(s) ELSE Absent]
    [] OTHER -> mem[f]

setup_paging ==
  /\ mem' = [f \in TableFrames |-> IdentityTable(f)]
  /\ cr3' = Pml4
  /\ UNCHANGED <<heap_offset, blocks, ram>>

(***************************************************************************)
(* Mapping.  kmalloc's answer is not looked at: a null table is the page   *)
(* at address 0.                                                           *)
(***************************************************************************)
NewTable(s) ==
  IF Fits(s.offset, PAGE, PAGE)
  THEN [s EXCEPT !.at     = Block(s.offset, PAGE, PAGE).addr \div PAGE,
                 !.blocks = @ \cup {Block(s.offset, PAGE, PAGE)},
                 !.offset = NextOffset(s.offset, PAGE, PAGE)]
  ELSE [s EXCEPT !.at = 0]

(* Mutant: the new table hangs from slot 0, whatever slot was asked for.   *)
get_or_create_table_SlotZero(s, i) ==
  IF s.at \notin TableFrames THEN [s EXCEPT !.at = Nowhere]
  ELSE IF Present(s.mem[s.at][i]) THEN [s EXCEPT !.at = s.mem[s.at][i].to]
  ELSE LET n == NewTable(s)
       IN  [n EXCEPT !.mem[n.at] = EmptyTable, !.mem[s.at][0] = Link(n.at)]

get_or_create_table(s, i) ==
  IF s.at \notin TableFrames THEN [s EXCEPT !.at = Nowhere]
  ELSE IF Present(s.mem[s.at][i]) THEN [s EXCEPT !.at = s.mem[s.at][i].to]
  ELSE LET n == NewTable(s)
       IN  [n EXCEPT !.mem[n.at] = EmptyTable, !.mem[s.at][i] = Link(n.at)]

Store(s, i, e) ==
  IF s.at \in TableFrames THEN [s EXCEPT !.mem[s.at][i] = e] ELSE [s EXCEPT !.at = Nowhere]

DirectoryOf(s, v) ==
  get_or_create_table(get_or_create_table([s EXCEPT !.at = Pml4], Index4(v)), Index3(v))

(* Page number i of a call map_4k(virt, phys, _), and of map_2m.  The low  *)
(* bits of phys fall into the flags of the entry.                          *)
map_4k(s, virt, phys, i) ==
  LET page == (virt \div PAGE) + i
  IN  Store(get_or_create_table(DirectoryOf(s, page), Index2(page)),
            Index1(page), Link((phys \div PAGE) + i))

map_2m(s, virt, phys, i) ==
  LET page == (virt \div PAGE) + i * Fan
  IN  Store(DirectoryOf(s, page), Index2(page), Large((phys \div PAGE) + i * Fan))

(***************************************************************************)
(* The CPU's accesses.                                                     *)
(***************************************************************************)
Mapped(m, a) == Walk(m, cr3, a \div PAGE) # Nowhere

Physical(m, a) == Walk(m, cr3, a \div PAGE) * PAGE + (a % PAGE)

(* The values, one a unit, go to memory from the virtual address a on.     *)
Write(s, a, values) ==
  IF \E j \in DOMAIN values : ~Mapped(s.mem, a + j - 1) THEN [s EXCEPT !.at = Nowhere]
  ELSE LET to(j)   == Physical(s.mem, a + j - 1)
           hits(c) == {j \in DOMAIN values : to(j) = c}
           last(c) == CHOOSE j \in hits(c) : \A k \in hits(c) : k <= j
       IN  [s EXCEPT !.ram =
              [c \in DOMAIN @ \cup {to(j) : j \in DOMAIN values} |->
                 IF hits(c) = {} THEN @[c] ELSE values[last(c)]]]

BootPagingInit ==
  /\ HeapInit
  /\ mem = [f \in TableFrames |-> EmptyTable]
  /\ cr3 = Nowhere
  /\ ram = << >>
=============================================================================
