------------------------------- MODULE ElfLoader -------------------------------
(***************************************************************************)
(* readElf: maps the segments of an ELF file at the addresses it was       *)
(* linked for, fills them from the file, and clears what the file does not *)
(* give.  No result of seek or read is looked at: a sector that fails      *)
(* leaves old bytes in the buffer, which the next read takes for those     *)
(* asked for.                                                              *)
(*                                                                         *)
(* A file is [magic, entry, size, phdrs]; unit k of its contents is the    *)
(* number k.                                                               *)
(***************************************************************************)
EXTENDS BootPaging, Sequences

CONSTANTS
  MaxFaults,   \* sectors that may fail to be read in one boot
  Strays       \* program headers that the bytes of other sectors may read as

VARIABLES
  elf,       \* readElf: where it is, and its locals
  faults,    \* sectors that failed so far, where it makes a difference
  stray      \* whether one of Strays was taken for a program header

Zero  == -1     \* a cleared unit
Wrong == -2     \* bytes of another place of the disk

Idle == [op |-> "idle"]

NoSegment == [load |-> FALSE, offset |-> 0, vaddr |-> 0, paddr |-> 0, filesz |-> 0, memsz |-> 0]

LARGE == PAGE * Fan

(* A sector is read, or fails.                                             *)
SectorFails == faults < MaxFaults /\ faults' = faults + 1

SectorRead == UNCHANGED faults

(***************************************************************************)
(* seek(file, offset), then read(file, n, out): what may arrive, lost if a *)
(* sector has failed.                                                      *)
(***************************************************************************)
Intact(file, offset, n) ==
  LET size == IF offset + n <= file.size THEN n ELSE file.size - offset
  IN  [j \in 1 .. size |-> offset + j - 1]

Garbled(n) == [j \in 1 .. n |-> Wrong]

(* A seek past the end is refused and the read goes on from where the last *)
(* one ended.  A sector that fails in seek leaves the buffer as it was, at *)
(* the new position; in read, it ends the call; one of the FAT leaves its  *)
(* cache wrong.                                                            *)
Arrives(file, offset, n, lost) ==
  LET most  == IF n <= file.size THEN n ELSE file.size
      whole == IF offset <= file.size THEN {Intact(file, offset, n)}
               ELSE {Garbled(k) : k \in {0, most}}
      cut   == UNION {{SubSeq(w, 1, k) : k \in 0 .. Len(w)} : w \in whole}
  IN  IF lost THEN cut \cup {Garbled(Len(w)) : w \in whole} ELSE whole

(* The header is in the buffer since open, whatever becomes of seek.       *)
ReadHeader ==
  /\ elf.op = "header"
  /\ elf' = IF elf.file.magic
            THEN [op |-> "segments", file |-> elf.file, data |-> elf.data, done |-> 0,
                  base |-> Nowhere, phdr |-> NoSegment, mapped |-> 0]
            ELSE [op |-> "returned", entry |-> 0, phys_base |-> 0]
  /\ UNCHANGED <<memory, faults, stray>>

(* Program header done + 1.  One that is not read leaves phdr what the     *)
(* stack holds, the one before it or nothing to load; and the bytes of an  *)
(* old sector, or some of them, are taken for a header like any other.     *)
ReadPhdr ==
  /\ elf.op = "segments" /\ elf.done < Len(elf.file.phdrs)
  /\ SectorRead \/ SectorFails
  /\ \E got \in {elf.file.phdrs[elf.done + 1]}
                  \cup (IF faults' > 0 THEN {elf.phdr, NoSegment} \cup Strays ELSE {}) :
       /\ elf' = [elf EXCEPT !.op = "segment", !.phdr = got]
       /\ stray' = (stray \/ got \notin {elf.file.phdrs[elf.done + 1], elf.phdr, NoSegment})
  /\ UNCHANGED memory

(* Mutant: continue leaves out the increment.                              *)
SkipSegment_Again ==
  /\ elf.op = "segment" /\ ~elf.phdr.load
  /\ elf' = [elf EXCEPT !.op = "segments"]
  /\ UNCHANGED <<memory, faults, stray>>

SkipSegment ==
  /\ elf.op = "segment" /\ ~elf.phdr.load
  /\ elf' = [elf EXCEPT !.op = "segments", !.done = @ + 1]
  /\ UNCHANGED <<memory, faults, stray>>

Phys(ph) == elf.data + ph.paddr

(* Mutant: the last segment gives the physical base.                       *)
LowerBase_Last(base, phys) == phys

LowerBase(base, phys) == IF base = Nowhere \/ phys < base THEN phys ELSE base

LoadSegment ==
  /\ elf.op = "segment" /\ elf.phdr.load
  /\ elf' = [elf EXCEPT !.op = "map", !.mapped = 0, !.base = LowerBase(@, Phys(elf.phdr))]
  /\ UNCHANGED <<memory, faults, stray>>

InLargePages(ph) == \A n \in {ph.vaddr, Phys(ph), ph.memsz} : n % LARGE = 0

(* Mutant: the last page that is not full is left out.                     *)
Pages_RoundsDown(ph) == IF InLargePages(ph) THEN ph.memsz \div LARGE ELSE ph.memsz \div PAGE

Pages(ph) ==
  IF InLargePages(ph) THEN ph.memsz \div LARGE ELSE (ph.memsz + PAGE - 1) \div PAGE

(* Mutant: the physical address in the file is not looked at.              *)
MapOne_AtData(s, ph, i) ==
  IF InLargePages(ph) THEN map_2m(s, ph.vaddr, elf.data, i)
  ELSE map_4k(s, ph.vaddr, elf.data, i)

MapOne(s, ph, i) ==
  IF InLargePages(ph) THEN map_2m(s, ph.vaddr, Phys(ph), i)
  ELSE map_4k(s, ph.vaddr, Phys(ph), i)

(* A step that runs off the mapped memory ends in a page fault, for which  *)
(* the boot loader has no handler.                                         *)
Continue(s, next) ==
  Becomes(s) /\ elf' = IF s.at = Nowhere THEN [op |-> "fault"] ELSE next

(* The next page of the segment; the last one leads on to its bytes.       *)
MapPage ==
  /\ elf.op = "map" /\ elf.mapped < Pages(elf.phdr)
  /\ \E s \in {MapOne(Memory, elf.phdr, elf.mapped)} :
       Continue(s, [elf EXCEPT !.mapped = @ + 1])
  /\ UNCHANGED <<faults, stray>>

Copy ==
  /\ elf.op = "map" /\ elf.mapped = Pages(elf.phdr)
  /\ SectorRead \/ SectorFails
  /\ \E got \in Arrives(elf.file, elf.phdr.offset, elf.phdr.filesz, faults' > 0) :
       \E s \in {Write(Memory, elf.phdr.vaddr, got)} : Continue(s, [elf EXCEPT !.op = "clear"])
  /\ UNCHANGED stray

Zeros(n) == [j \in 1 .. n |-> Zero]

(* Mutant: what the file does not give is not cleared.                     *)
Clear_Nothing ==
  /\ elf.op = "clear"
  /\ elf' = [elf EXCEPT !.op = "segments", !.done = @ + 1]
  /\ UNCHANGED <<memory, faults, stray>>

Clear ==
  /\ elf.op = "clear"
  /\ \E s \in {Write(Memory, elf.phdr.vaddr + elf.phdr.filesz,
                     Zeros(elf.phdr.memsz - elf.phdr.filesz))} :
       Continue(s, [elf EXCEPT !.op = "segments", !.done = @ + 1])
  /\ UNCHANGED <<faults, stray>>

Return ==
  /\ elf.op = "segments" /\ elf.done = Len(elf.file.phdrs)
  /\ elf' = [op |-> "returned", entry |-> elf.file.entry,
             phys_base |-> IF elf.base = Nowhere THEN elf.data ELSE elf.base]
  /\ UNCHANGED <<memory, faults, stray>>

(* Stage 2 runs in the first megabyte: once a page of it is mapped         *)
(* elsewhere, or written to, what runs is another program.                 *)
InControl ==
  /\ \A p \in 0 .. LOW_PAGES - 1 : Walk(mem, cr3, p) = p
  /\ \A c \in DOMAIN ram : c >= LOW_PAGES * PAGE

readElf ==
  /\ InControl
  /\ ReadHeader \/ ReadPhdr \/ SkipSegment \/ LoadSegment \/ MapPage \/ Copy \/ Clear \/ Return
=============================================================================
