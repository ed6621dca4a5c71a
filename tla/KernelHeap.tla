------------------------------ MODULE KernelHeap ------------------------------
(***************************************************************************)
(* kmalloc, the allocator of the kernel and, in the same words, of the     *)
(* stage-2 boot loader: a bump pointer that never takes memory back.       *)
(***************************************************************************)
EXTENDS Integers

CONSTANTS
  W,          \* number of values of a size_t (2^64)
  HeapBase,   \* the address of __heap_start
  HeapSize,   \* __heap_end - __heap_start
  Requests    \* the [size, align] pairs the callers of kmalloc pass

(* The heap lies in the address space and no caller asks for so much that  *)
(* the sums wrap: the callers are operator new and the page-table code.    *)
ASSUME HeapAssumption ==
  /\ W \in Nat /\ HeapBase \in Nat \ {0} /\ HeapSize \in Nat
  /\ \A r \in Requests :
       /\ r.size \in Nat /\ r.align \in Nat \ {0}
       /\ HeapBase + HeapSize + r.size + r.align < W

VARIABLES
  heap_offset,  \* bytes of the heap given away, padding included
  blocks        \* the blocks given away: address, size and alignment

heapVars == <<heap_offset, blocks>>

(* Mutant: rounds down.                                                    *)
AlignUp_Down(x, a) == x - (x % a)

(* (x + a - 1) & ~(a - 1), for a power of two a.                           *)
AlignUp(x, a) == ((x + a - 1) % W) - (((x + a - 1) % W) % a)

(* Where a block of size bytes would end, counted from the heap's start.   *)
NextOffset(offset, size, align) ==
  (AlignUp(HeapBase + offset, align) - HeapBase + size) % W

(* Mutant: only the start of the block has to lie in the heap.             *)
Fits_StartOnly(offset, size, align) == NextOffset(offset, 0, align) < HeapSize

Fits(offset, size, align) == NextOffset(offset, size, align) < HeapSize

Block(offset, size, align) ==
  [addr |-> AlignUp(HeapBase + offset, align), size |-> size, align |-> align]

(* A request that does not fit gets a null pointer and changes nothing.    *)
kmalloc(size, align) ==
  \/ /\ Fits(heap_offset, size, align)
     /\ heap_offset' = NextOffset(heap_offset, size, align)
     /\ blocks' = blocks \cup {Block(heap_offset, size, align)}
  \/ /\ ~Fits(heap_offset, size, align)
     /\ UNCHANGED heapVars

HeapInit == heap_offset = 0 /\ blocks = {}

HeapNext == \E r \in Requests : kmalloc(r.size, r.align)

HeapSpec == HeapInit /\ [][HeapNext]_heapVars

(***************************************************************************)
(* Properties.                                                             *)
(***************************************************************************)
(* The bump pointer stays in the heap, however the last requests fit.      *)
HeapTypeOK ==
  /\ heap_offset \in 0 .. HeapSize
  /\ blocks \subseteq [addr : Nat, size : Nat, align : Nat \ {0}]

Apart(b, c) == b.addr + b.size <= c.addr \/ c.addr + c.size <= b.addr

(* No byte is given away twice, however the alignments of the callers      *)
(* (8 for operator new, 4096 for page tables) follow each other.           *)
BlocksDisjoint == \A b, c \in blocks : b = c \/ Apart(b, c)

(* Every block lies in the heap, at an address its caller's alignment      *)
(* divides: the page tables the MMU walks start on a page.                 *)
BlocksInHeap ==
  \A b \in blocks :
    /\ b.addr % b.align = 0
    /\ HeapBase <= b.addr
    /\ b.addr + b.size <= HeapBase + HeapSize
=============================================================================
