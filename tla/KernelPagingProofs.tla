------------------------- MODULE KernelPagingProofs -------------------------
(***************************************************************************)
(* The kernel's page tables are a tree whatever is mapped and unmapped,    *)
(* and behave as one map from pages to page frames.                        *)
(***************************************************************************)
EXTENDS KernelPaging, PageTableProofs, FiniteSetTheorems, SequenceTheorems, WellFoundedInduction

Memories == [Frames -> [Slots -> EntryType]]

(* The kernel's tables: the PML4, and what the heap gave.                  *)
Own(n) == {KernelFrame} \cup {KernelFrame + HeapFirst + i : i \in 0 .. n - 1}

(* Slot s of table f leads to a table, where lv gives tables their level.  *)
LinkIn(m, lv, f, s) == lv[f] >= 2 /\ IsLink(m[f][s])

Levels(n, lv) ==
  /\ n \in 0 .. HeapTables
  /\ lv \in [Own(n) -> 1 .. 4]
  /\ \A f \in Own(n) : lv[f] = 4 <=> f = KernelFrame

(* Large pages hang from directories alone, ...                            *)
LargeInDirectories(m, n, lv) ==
  \A f \in Own(n) : \A s \in Slots :
    m[f][s].large => lv[f] <= 2 /\ (lv[f] = 2 => Spans(m[f][s]))

(* ... a link leads to a table of the next level, ...                      *)
LinksDown(m, n, lv) ==
  \A f \in Own(n) : \A s \in Slots :
    LinkIn(m, lv, f, s) => m[f][s].to \in Own(n) /\ lv[m[f][s].to] = lv[f] - 1

(* ... no two links to the same one, ...                                   *)
LinkedOnce(m, n, lv) ==
  \A f, g \in Own(n) : \A s, t \in Slots :
    LinkIn(m, lv, f, s) /\ LinkIn(m, lv, g, t) /\ m[f][s].to = m[g][t].to => f = g /\ s = t

(* ... and every table but the first is linked.                            *)
AllLinked(m, n, lv) ==
  \A g \in Own(n) \ {KernelFrame} : \E f \in Own(n) : \E s \in Slots :
    LinkIn(m, lv, f, s) /\ m[f][s].to = g

Tree(m, n, lv) ==
  /\ m \in Memories
  /\ Levels(n, lv)
  /\ LargeInDirectories(m, n, lv)
  /\ LinksDown(m, n, lv)
  /\ LinkedOnce(m, n, lv)
  /\ AllLinked(m, n, lv)

LEMMA Constants ==
  /\ Frames \subseteq Nat /\ Nowhere \notin Frames /\ Missing \notin Frames /\ Missing # Nowhere
  /\ KernelFrame \in Nat /\ KernelPages \in Nat /\ KernelFrame \in KernelFrames
  /\ HeapFirst \in Nat \ {0} /\ HeapTables \in Nat
  /\ KernelFrames \subseteq Frames /\ BootPml4 \in Frames
  /\ Fan \in Nat \ {0, 1} /\ KERNEL_BASE \in Nat
  /\ \A i \in 0 .. HeapTables - 1 :
       /\ KernelFrame + HeapFirst + i \in KernelFrames
       /\ KernelFrame + HeapFirst + i # KernelFrame
PROOF
<1>1. KERNEL_BASE \in Nat
  <2>1. Fan \div 2 \in Nat /\ Fan * Fan * Fan \in Nat
    BY Powers, FanAssumption
  <2>2. (Fan \div 2) * Fan * Fan * Fan \in Nat
    BY <2>1, FanAssumption
  <2> QED
    BY <2>2 DEF KERNEL_BASE
<1> QED
  BY <1>1, PagingAssumption, FanAssumption DEF KernelFrames, Nowhere, Missing

LEMMA OwnFrames ==
  ASSUME NEW n \in 0 .. HeapTables
  PROVE  /\ KernelFrame \in Own(n) /\ Own(n) \subseteq KernelFrames /\ Own(n) \subseteq Frames
         /\ Nowhere \notin Own(n) /\ Missing \notin Own(n)
BY Constants DEF Own

LEMMA OwnNext ==
  ASSUME NEW n \in 0 .. HeapTables - 1
  PROVE  /\ Own(n + 1) = Own(n) \cup {KernelFrame + HeapFirst + n}
         /\ KernelFrame + HeapFirst + n \notin Own(n)
         /\ KernelFrame + HeapFirst + n \in KernelFrames
         /\ n + 1 \in 0 .. HeapTables
PROOF
<1>1. 0 .. (n + 1) - 1 = (0 .. n - 1) \cup {n} /\ n + 1 \in 0 .. HeapTables
  BY Constants
<1>2. Own(n + 1) = Own(n) \cup {KernelFrame + HeapFirst + n}
  BY <1>1 DEF Own
<1>3. KernelFrame + HeapFirst + n \notin Own(n)
  <2>1. \A i \in 0 .. n - 1 : KernelFrame + HeapFirst + n # KernelFrame + HeapFirst + i
    BY Constants
  <2>2. KernelFrame + HeapFirst + n # KernelFrame
    BY Constants
  <2> QED
    BY <2>1, <2>2 DEF Own
<1> QED
  BY <1>1, <1>2, <1>3, Constants

LEMMA TreeRoot ==
  ASSUME NEW m, NEW n, NEW lv, Tree(m, n, lv)
  PROVE  /\ KernelFrame \in Own(n) /\ lv[KernelFrame] = 4 /\ Own(n) \subseteq Frames
         /\ Own(n) \subseteq KernelFrames /\ m \in Memories /\ n \in 0 .. HeapTables
         /\ lv \in [Own(n) -> 1 .. 4]
PROOF
<1>1. n \in 0 .. HeapTables /\ m \in Memories /\ Levels(n, lv)
  BY DEF Tree, Levels
<1>2. KernelFrame \in Own(n) /\ Own(n) \subseteq Frames /\ Own(n) \subseteq KernelFrames
  BY <1>1, OwnFrames
<1> QED
  BY <1>1, <1>2 DEF Levels

LEMMA Pages4 ==
  ASSUME NEW v \in Pages
  PROVE  v \in Nat /\ v < Fan * Fan * Fan * Fan
         /\ Index4(v) \in Slots /\ Index3(v) \in Slots /\ Index2(v) \in Slots /\ Index1(v) \in Slots
PROOF
<1>1. Fan * Fan * Fan * Fan \in Nat
  BY Powers
<1>2. v \in Nat /\ v < Fan * Fan * Fan * Fan
  BY <1>1 DEF Pages
<1> QED
  BY <1>2, IndexesAreSlots

(***************************************************************************)
(* The way down to a page.                                                 *)
(***************************************************************************)
LEMMA TranslationByEntries ==
  ASSUME NEW m, NEW root, NEW v
  PROVE  Translation(m, root, v) =
           IF Entry2(m, root, v).large
           THEN [page |-> v - Index1(v), span |-> Fan, frame |-> Entry2(m, root, v).to]
           ELSE [page |-> v, span |-> 1, frame |-> Entry1(m, root, v).to]
BY DEF Translation, Entry4, Entry3, Entry2, Entry1

LEMMA EntryIsTyped ==
  ASSUME NEW m \in Memories, NEW f, NEW s \in Slots
  PROVE  Entry(m, f, s) \in EntryType /\ (f \notin Frames => Entry(m, f, s) = Absent)
         /\ (f \in Frames => Entry(m, f, s) = m[f][s])
BY DEF Entry, Memories, EntryType, Absent

Chain(m, n, lv, v) ==
  LET e4 == Entry4(m, KernelFrame, v)
      e3 == Entry3(m, KernelFrame, v)
      e2 == Entry2(m, KernelFrame, v)
      e1 == Entry1(m, KernelFrame, v)
  IN  /\ e4 \in EntryType /\ e3 \in EntryType /\ e2 \in EntryType /\ e1 \in EntryType
      /\ e4 = m[KernelFrame][Index4(v)] /\ ~e4.large /\ ~e3.large
      /\ Present(e4) => e4.to \in Own(n) /\ lv[e4.to] = 3 /\ e3 = m[e4.to][Index3(v)]
      /\ ~Present(e4) => e3 = Absent
      /\ Present(e3) => e3.to \in Own(n) /\ lv[e3.to] = 2 /\ e2 = m[e3.to][Index2(v)]
      /\ ~Present(e3) => e2 = Absent
      /\ IsLink(e2) => e2.to \in Own(n) /\ lv[e2.to] = 1 /\ e1 = m[e2.to][Index1(v)]
      /\ ~Present(e2) => e1 = Absent
      /\ e2.large => Present(e2) /\ Spans(e2)

LEMMA ChainOfPage ==
  ASSUME NEW m, NEW n, NEW lv, Tree(m, n, lv), NEW v \in Pages
  PROVE  Chain(m, n, lv, v)
PROOF
<1> DEFINE e4 == Entry4(m, KernelFrame, v)
           e3 == Entry3(m, KernelFrame, v)
           e2 == Entry2(m, KernelFrame, v)
           e1 == Entry1(m, KernelFrame, v)
           i4 == Index4(v)
           i3 == Index3(v)
           i2 == Index2(v)
           i1 == Index1(v)
<1>1. i4 \in Slots /\ i3 \in Slots /\ i2 \in Slots /\ i1 \in Slots
  BY Pages4
<1>2. m \in Memories /\ n \in 0 .. HeapTables /\ Levels(n, lv)
  BY DEF Tree, Levels
<1>3. /\ KernelFrame \in Own(n) /\ Own(n) \subseteq Frames /\ Nowhere \notin Frames
      /\ lv[KernelFrame] = 4
  BY <1>2, OwnFrames, Constants DEF Levels
<1>4. /\ e4 = Entry(m, KernelFrame, i4) /\ e3 = Entry(m, e4.to, i3)
      /\ e2 = Entry(m, e3.to, i2) /\ e1 = Entry(m, e2.to, i1)
  BY DEF Entry4, Entry3, Entry2, Entry1
<1> HIDE DEF e4, e3, e2, e1, i4, i3, i2, i1
<1>5. e4 = m[KernelFrame][i4] /\ e4 \in EntryType
  BY <1>1, <1>2, <1>3, <1>4, EntryIsTyped
<1>6. e3 \in EntryType /\ e2 \in EntryType /\ e1 \in EntryType
  BY <1>1, <1>2, <1>4, EntryIsTyped
<1>7. ASSUME NEW f \in Own(n), NEW s \in Slots, IsLink(m[f][s]), lv[f] >= 2
      PROVE  m[f][s].to \in Own(n) /\ lv[m[f][s].to] = lv[f] - 1
  BY <1>7 DEF Tree, LinksDown, LinkIn
<1>8. ASSUME NEW f \in Own(n), NEW s \in Slots, m[f][s].large
      PROVE  lv[f] <= 2 /\ (lv[f] = 2 => Spans(m[f][s]))
  BY <1>8 DEF Tree, LargeInDirectories
<1>9. ~e4.large /\ (Present(e4) => e4.to \in Own(n) /\ lv[e4.to] = 3)
  BY <1>1, <1>3, <1>5, <1>7, <1>8 DEF IsLink
<1>10. ASSUME Present(e4) PROVE e3 = m[e4.to][i3] /\ e4.to \in Own(n) /\ lv[e4.to] = 3
  BY <1>1, <1>2, <1>3, <1>4, <1>9, <1>10, EntryIsTyped
<1>11. ASSUME ~Present(e4) PROVE e3 = Absent
  BY <1>1, <1>2, <1>3, <1>4, <1>11, EntryIsTyped DEF Present
<1>12. ~e3.large /\ (Present(e3) => e3.to \in Own(n) /\ lv[e3.to] = 2)
  <2>1. CASE Present(e4)
    BY <2>1, <1>1, <1>7, <1>8, <1>10 DEF IsLink
  <2>2. CASE ~Present(e4)
    BY <2>2, <1>11 DEF Absent, Present
  <2> QED
    BY <2>1, <2>2
<1>13. ASSUME Present(e3) PROVE e2 = m[e3.to][i2] /\ e3.to \in Own(n) /\ lv[e3.to] = 2
  BY <1>1, <1>2, <1>3, <1>4, <1>12, <1>13, EntryIsTyped
<1>14. ASSUME ~Present(e3) PROVE e2 = Absent
  BY <1>1, <1>2, <1>3, <1>4, <1>14, EntryIsTyped DEF Present
<1>15. /\ IsLink(e2) => e2.to \in Own(n) /\ lv[e2.to] = 1
       /\ e2.large => Spans(e2)
  <2>1. CASE Present(e3)
    BY <2>1, <1>1, <1>7, <1>8, <1>13
  <2>2. CASE ~Present(e3)
    BY <2>2, <1>14 DEF Absent, Present, IsLink
  <2> QED
    BY <2>1, <2>2
<1>16. IsLink(e2) => e1 = m[e2.to][i1]
  BY <1>1, <1>2, <1>3, <1>4, <1>15, EntryIsTyped
<1>17. ~Present(e2) => e1 = Absent
  BY <1>1, <1>2, <1>3, <1>4, EntryIsTyped DEF Present
<1>18. e2.large => Present(e2)
  <2> SUFFICES ASSUME e2.large PROVE Present(e2)
    OBVIOUS
  <2>1. e2.to + 0 \in Frames /\ e2.to \in Frames \cup {Nowhere}
    BY <1>6, <1>15, Constants DEF Spans, EntryType
  <2>2. e2.to # Nowhere
    BY <2>1, Constants DEF Nowhere
  <2> QED
    BY <2>2 DEF Present
<1> QED
  BY <1>5, <1>6, <1>9, <1>10, <1>11, <1>12, <1>13, <1>14, <1>15, <1>16, <1>17, <1>18
  DEF Chain, e4, e3, e2, e1, i4, i3, i2, i1

(* m2 has the entries of m on the way to v, level by level.                *)
Kept4(m, m2, v) == m2[KernelFrame][Index4(v)] = m[KernelFrame][Index4(v)]

Kept3(m, m2, v) ==
  LET e == Entry4(m, KernelFrame, v)
  IN  Present(e) => m2[e.to][Index3(v)] = m[e.to][Index3(v)]

Kept2(m, m2, v) ==
  LET e == Entry3(m, KernelFrame, v)
  IN  Present(e) => m2[e.to][Index2(v)] = m[e.to][Index2(v)]

Kept1(m, m2, v) ==
  LET e == Entry2(m, KernelFrame, v)
  IN  IsLink(e) => m2[e.to][Index1(v)] = m[e.to][Index1(v)]

Moved(m, m2, v) == Translation(m2, KernelFrame, v) # Translation(m, KernelFrame, v)

LEMMA ChainKept ==
  ASSUME NEW m, NEW n, NEW lv, Tree(m, n, lv), NEW m2 \in Memories, NEW v \in Pages,
         Kept4(m, m2, v)
  PROVE  /\ Entry4(m2, KernelFrame, v) = Entry4(m, KernelFrame, v)
         /\ Kept3(m, m2, v) => Entry3(m2, KernelFrame, v) = Entry3(m, KernelFrame, v)
         /\ Kept3(m, m2, v) /\ Kept2(m, m2, v) =>
              Entry2(m2, KernelFrame, v) = Entry2(m, KernelFrame, v)
         /\ Kept3(m, m2, v) /\ Kept2(m, m2, v) /\ Kept1(m, m2, v) => ~Moved(m, m2, v)
PROOF
<1> DEFINE e4 == Entry4(m, KernelFrame, v)
           e3 == Entry3(m, KernelFrame, v)
           e2 == Entry2(m, KernelFrame, v)
           e1 == Entry1(m, KernelFrame, v)
           d4 == Entry4(m2, KernelFrame, v)
           d3 == Entry3(m2, KernelFrame, v)
           d2 == Entry2(m2, KernelFrame, v)
           d1 == Entry1(m2, KernelFrame, v)
           i4 == Index4(v)
           i3 == Index3(v)
           i2 == Index2(v)
           i1 == Index1(v)
<1>1. i4 \in Slots /\ i3 \in Slots /\ i2 \in Slots /\ i1 \in Slots
  BY Pages4
<1>2. n \in 0 .. HeapTables /\ m \in Memories
  BY DEF Tree, Levels
<1>3. KernelFrame \in Frames /\ Own(n) \subseteq Frames /\ Nowhere \notin Frames
  BY <1>2, OwnFrames, Constants
<1>4. /\ d4 = Entry(m2, KernelFrame, i4) /\ d3 = Entry(m2, d4.to, i3)
      /\ d2 = Entry(m2, d3.to, i2) /\ d1 = Entry(m2, d2.to, i1)
      /\ e4 = Entry(m, KernelFrame, i4) /\ e3 = Entry(m, e4.to, i3)
      /\ e2 = Entry(m, e3.to, i2) /\ e1 = Entry(m, e2.to, i1)
  BY DEF Entry4, Entry3, Entry2, Entry1
<1>5. Chain(m, n, lv, v)
  BY ChainOfPage
<1>6. /\ Present(e4) => e4.to \in Own(n) /\ e3 = m[e4.to][i3]
      /\ ~Present(e4) => e3 = Absent
      /\ Present(e3) => e3.to \in Own(n) /\ e2 = m[e3.to][i2]
      /\ ~Present(e3) => e2 = Absent
      /\ IsLink(e2) => e2.to \in Own(n) /\ e1 = m[e2.to][i1]
      /\ ~Present(e2) => e1 = Absent
      /\ e4 = m[KernelFrame][i4]
  BY <1>5 DEF Chain
<1>7. /\ m2[KernelFrame][i4] = m[KernelFrame][i4]
      /\ Kept3(m, m2, v) <=> (Present(e4) => m2[e4.to][i3] = m[e4.to][i3])
      /\ Kept2(m, m2, v) <=> (Present(e3) => m2[e3.to][i2] = m[e3.to][i2])
      /\ Kept1(m, m2, v) <=> (IsLink(e2) => m2[e2.to][i1] = m[e2.to][i1])
  BY DEF Kept4, Kept3, Kept2, Kept1
<1>8. ~Moved(m, m2, v) <=>
        (IF d2.large THEN [page |-> v - i1, span |-> Fan, frame |-> d2.to]
         ELSE [page |-> v, span |-> 1, frame |-> d1.to])
        = (IF e2.large THEN [page |-> v - i1, span |-> Fan, frame |-> e2.to]
           ELSE [page |-> v, span |-> 1, frame |-> e1.to])
  BY TranslationByEntries DEF Moved
<1> HIDE DEF e4, e3, e2, e1, d4, d3, d2, d1, i4, i3, i2, i1
<1>9. ASSUME NEW f, NEW s \in Slots
      PROVE  /\ f \in Frames => Entry(m2, f, s) = m2[f][s] /\ Entry(m, f, s) = m[f][s]
             /\ f \notin Frames => Entry(m2, f, s) = Absent
  BY <1>2, EntryIsTyped
<1>10. d4 = e4
  BY <1>1, <1>3, <1>4, <1>6, <1>7, <1>9
<1>11. ASSUME Kept3(m, m2, v) PROVE d3 = e3
  <2>1. CASE Present(e4)
    <3>1. e4.to \in Frames /\ e3 = m[e4.to][i3] /\ m2[e4.to][i3] = m[e4.to][i3]
      BY <2>1, <1>3, <1>6, <1>7, <1>11
    <3> QED
      BY <3>1, <1>1, <1>4, <1>9, <1>10
  <2>2. CASE ~Present(e4)
    <3>1. d4.to \notin Frames
      BY <2>2, <1>3, <1>10 DEF Present
    <3> QED
      BY <2>2, <3>1, <1>1, <1>4, <1>6, <1>9
  <2> QED
    BY <2>1, <2>2
<1>12. ASSUME Kept3(m, m2, v), Kept2(m, m2, v) PROVE d2 = e2
  <2>1. CASE Present(e3)
    <3>1. e3.to \in Frames /\ e2 = m[e3.to][i2] /\ m2[e3.to][i2] = m[e3.to][i2]
      BY <2>1, <1>3, <1>6, <1>7, <1>12
    <3> QED
      BY <3>1, <1>1, <1>4, <1>9, <1>11, <1>12
  <2>2. CASE ~Present(e3)
    <3>1. d3.to \notin Frames
      BY <2>2, <1>3, <1>11, <1>12 DEF Present
    <3> QED
      BY <2>2, <3>1, <1>1, <1>4, <1>6, <1>9
  <2> QED
    BY <2>1, <2>2
<1>13. ASSUME Kept3(m, m2, v), Kept2(m, m2, v), Kept1(m, m2, v) PROVE ~Moved(m, m2, v)
  <2>1. d2 = e2
    BY <1>12, <1>13
  <2>2. CASE e2.large
    BY <2>1, <2>2, <1>8
  <2>3. CASE IsLink(e2)
    <3>1. d1 = e1
      BY <2>1, <2>3, <1>1, <1>3, <1>4, <1>6, <1>7, <1>9, <1>13
    <3> QED
      BY <2>1, <3>1, <1>8
  <2>4. CASE ~Present(e2)
    <3>1. d2.to \notin Frames
      BY <2>1, <2>4, <1>3 DEF Present
    <3>2. d1 = e1
      BY <2>4, <3>1, <1>1, <1>4, <1>6, <1>9
    <3> QED
      BY <2>1, <3>2, <1>8
  <2> QED
    BY <2>2, <2>3, <2>4 DEF IsLink
<1> QED
  BY <1>10, <1>11, <1>12, <1>13 DEF e4, e3, e2, d4, d3, d2

(***************************************************************************)
(* One slot leads to a table, so a table is on the way to one block only.  *)
(***************************************************************************)
LEMMA SameDirectory ==
  ASSUME NEW m, NEW n, NEW lv, Tree(m, n, lv), NEW v \in Pages, NEW w \in Pages,
         Present(Entry3(m, KernelFrame, v)), Present(Entry3(m, KernelFrame, w)),
         Entry3(m, KernelFrame, v).to = Entry3(m, KernelFrame, w).to
  PROVE  Index3(v) = Index3(w) /\ Index4(v) = Index4(w)
PROOF
<1> DEFINE a4 == Entry4(m, KernelFrame, v)
           a3 == Entry3(m, KernelFrame, v)
           b4 == Entry4(m, KernelFrame, w)
           b3 == Entry3(m, KernelFrame, w)
<1>1. /\ Index4(v) \in Slots /\ Index3(v) \in Slots
      /\ Index4(w) \in Slots /\ Index3(w) \in Slots
  BY Pages4
<1>2. Chain(m, n, lv, v) /\ Chain(m, n, lv, w)
  BY ChainOfPage
<1>3. /\ a4 = m[KernelFrame][Index4(v)] /\ ~a4.large /\ ~a3.large
      /\ Present(a4) => a4.to \in Own(n) /\ lv[a4.to] = 3 /\ a3 = m[a4.to][Index3(v)]
      /\ ~Present(a4) => a3 = Absent
  BY <1>2 DEF Chain
<1>4. /\ b4 = m[KernelFrame][Index4(w)] /\ ~b4.large /\ ~b3.large
      /\ Present(b4) => b4.to \in Own(n) /\ lv[b4.to] = 3 /\ b3 = m[b4.to][Index3(w)]
      /\ ~Present(b4) => b3 = Absent
  BY <1>2 DEF Chain
<1>5. Present(a3) /\ Present(b3) /\ a3.to = b3.to /\ ~Present(Absent)
  BY DEF Present, Absent
<1>6. KernelFrame \in Own(n) /\ lv[KernelFrame] = 4
  BY OwnFrames DEF Tree, Levels
<1>7. LinkedOnce(m, n, lv)
  BY DEF Tree
<1> HIDE DEF a4, a3, b4, b3
<1>8. ASSUME NEW f \in Own(n), NEW g \in Own(n), NEW s \in Slots, NEW t \in Slots,
             lv[f] >= 2, lv[g] >= 2, IsLink(m[f][s]), IsLink(m[g][t]), m[f][s].to = m[g][t].to
      PROVE  f = g /\ s = t
  BY <1>7, <1>8 DEF LinkedOnce, LinkIn
<1>9. Present(a4) /\ Present(b4)
  BY <1>3, <1>4, <1>5
<1>10. a4.to = b4.to /\ Index3(v) = Index3(w)
  BY <1>1, <1>3, <1>4, <1>5, <1>8, <1>9 DEF IsLink
<1>11. Index4(v) = Index4(w)
  BY <1>1, <1>3, <1>4, <1>6, <1>8, <1>9, <1>10 DEF IsLink
<1> QED
  BY <1>10, <1>11

LEMMA SameTable ==
  ASSUME NEW m, NEW n, NEW lv, Tree(m, n, lv), NEW v \in Pages, NEW w \in Pages,
         IsLink(Entry2(m, KernelFrame, v)), IsLink(Entry2(m, KernelFrame, w)),
         Entry2(m, KernelFrame, v).to = Entry2(m, KernelFrame, w).to
  PROVE  v \div Fan = w \div Fan
PROOF
<1> DEFINE a3 == Entry3(m, KernelFrame, v)
           a2 == Entry2(m, KernelFrame, v)
           b3 == Entry3(m, KernelFrame, w)
           b2 == Entry2(m, KernelFrame, w)
<1>1. Index2(v) \in Slots /\ Index2(w) \in Slots /\ v \in Nat /\ w \in Nat
  BY Pages4
<1>2. Chain(m, n, lv, v) /\ Chain(m, n, lv, w)
  BY ChainOfPage
<1>3. /\ Present(a3) => a3.to \in Own(n) /\ lv[a3.to] = 2 /\ a2 = m[a3.to][Index2(v)]
      /\ ~Present(a3) => a2 = Absent
  BY <1>2 DEF Chain
<1>4. /\ Present(b3) => b3.to \in Own(n) /\ lv[b3.to] = 2 /\ b2 = m[b3.to][Index2(w)]
      /\ ~Present(b3) => b2 = Absent
  BY <1>2 DEF Chain
<1>5. IsLink(a2) /\ IsLink(b2) /\ a2.to = b2.to /\ ~IsLink(Absent)
  BY DEF IsLink, Present, Absent
<1>6. LinkedOnce(m, n, lv)
  BY DEF Tree
<1>7. (Present(a3) /\ Present(b3) /\ a3.to = b3.to) => Index3(v) = Index3(w) /\ Index4(v) = Index4(w)
  BY SameDirectory
<1> HIDE DEF a3, a2, b3, b2
<1>8. Present(a3) /\ Present(b3)
  BY <1>3, <1>4, <1>5
<1>9. a3.to = b3.to /\ Index2(v) = Index2(w)
  BY <1>1, <1>3, <1>4, <1>5, <1>6, <1>8 DEF LinkedOnce, LinkIn
<1> QED
  BY <1>1, <1>7, <1>8, <1>9, SameBlock

(***************************************************************************)
(* An entry is written that is no link and becomes none.                   *)
(***************************************************************************)
Written(m, m2, f, i, e) ==
  /\ m2 \in Memories
  /\ m2[f][i] = e
  /\ \A g \in Frames : \A s \in Slots : (g = f /\ s = i) \/ m2[g][s] = m[g][s]

LEMMA EntryWritten ==
  ASSUME NEW m \in Memories, NEW f \in Frames, NEW i \in Slots, NEW e \in EntryType
  PROVE  Written(m, [m EXCEPT ![f][i] = e], f, i, e)
BY DEF Written, Memories

(* Slot i of table f holds no link before and after e is written to it.    *)
LeafWrite(m, n, lv, f, i, e) ==
  /\ f \in Own(n) /\ i \in Slots /\ e \in EntryType
  /\ lv[f] <= 2
  /\ lv[f] = 2 => ~IsLink(m[f][i]) /\ ~IsLink(e) /\ (e.large => Spans(e))

LEMMA WriteTree ==
  ASSUME NEW m, NEW n, NEW lv, Tree(m, n, lv), NEW f, NEW i, NEW e,
         LeafWrite(m, n, lv, f, i, e), NEW m2, Written(m, m2, f, i, e)
  PROVE  Tree(m2, n, lv)
PROOF
<1>1. /\ n \in 0 .. HeapTables /\ lv \in [Own(n) -> 1 .. 4] /\ Levels(n, lv)
      /\ LargeInDirectories(m, n, lv) /\ LinksDown(m, n, lv) /\ LinkedOnce(m, n, lv)
      /\ AllLinked(m, n, lv)
  BY DEF Tree, Levels
<1>2. Own(n) \subseteq Frames
  BY <1>1, OwnFrames
<1>3. \A g \in Own(n) : \A s \in Slots : (g = f /\ s = i) \/ m2[g][s] = m[g][s]
  BY <1>2 DEF Written
<1>4. m2[f][i] = e /\ m2 \in Memories
  BY DEF Written
<1>5. \A g \in Own(n) : \A s \in Slots :
        /\ LinkIn(m2, lv, g, s) => LinkIn(m, lv, g, s) /\ m2[g][s] = m[g][s]
        /\ LinkIn(m, lv, g, s) => LinkIn(m2, lv, g, s)
  <2> SUFFICES ASSUME NEW g \in Own(n), NEW s \in Slots
               PROVE  /\ LinkIn(m2, lv, g, s) => LinkIn(m, lv, g, s) /\ m2[g][s] = m[g][s]
                      /\ LinkIn(m, lv, g, s) => LinkIn(m2, lv, g, s)
    OBVIOUS
  <2>1. CASE g = f /\ s = i
    BY <1>1, <1>4, <2>1 DEF LeafWrite, LinkIn
  <2>2. CASE m2[g][s] = m[g][s]
    BY <2>2 DEF LinkIn
  <2> QED
    BY <1>3, <2>1, <2>2
<1>6. LargeInDirectories(m2, n, lv)
  BY <1>1, <1>3, <1>4 DEF LargeInDirectories, LeafWrite
<1>7. LinksDown(m2, n, lv)
  BY <1>1, <1>5 DEF LinksDown
<1>8. LinkedOnce(m2, n, lv)
  BY <1>1, <1>5 DEF LinkedOnce
<1>9. AllLinked(m2, n, lv)
  BY <1>1, <1>5 DEF AllLinked
<1> QED
  BY <1>1, <1>4, <1>6, <1>7, <1>8, <1>9 DEF Tree

(* The way to v ends in slot i of the last-level table, or the directory,  *)
(* in frame f.                                                             *)
ThroughTable(m, v, f, i) ==
  LET e == Entry2(m, KernelFrame, v) IN IsLink(e) /\ e.to = f /\ Index1(v) = i

ThroughDirectory(m, v, f, i) ==
  LET e == Entry3(m, KernelFrame, v) IN Present(e) /\ e.to = f /\ Index2(v) = i

LEMMA WriteKeepsWays ==
  ASSUME NEW m, NEW n, NEW lv, Tree(m, n, lv), NEW f, NEW i, NEW e,
         LeafWrite(m, n, lv, f, i, e), NEW m2, Written(m, m2, f, i, e), NEW v \in Pages
  PROVE  /\ Kept4(m, m2, v) /\ Kept3(m, m2, v)
         /\ ~ThroughDirectory(m, v, f, i) => Kept2(m, m2, v)
         /\ ~ThroughTable(m, v, f, i) => Kept1(m, m2, v)
         /\ lv[f] = 1 => Kept2(m, m2, v) /\ ~ThroughDirectory(m, v, f, i)
         /\ lv[f] = 2 => ~ThroughTable(m, v, f, i)
PROOF
<1> DEFINE e4 == Entry4(m, KernelFrame, v)
           e3 == Entry3(m, KernelFrame, v)
           e2 == Entry2(m, KernelFrame, v)
<1>1. /\ Index4(v) \in Slots /\ Index3(v) \in Slots /\ Index2(v) \in Slots /\ Index1(v) \in Slots
  BY Pages4
<1>2. Own(n) \subseteq Frames /\ KernelFrame \in Own(n) /\ lv[KernelFrame] = 4
  BY OwnFrames DEF Tree, Levels
<1>3. /\ Present(e4) => e4.to \in Own(n) /\ lv[e4.to] = 3
      /\ Present(e3) => e3.to \in Own(n) /\ lv[e3.to] = 2
      /\ IsLink(e2) => e2.to \in Own(n) /\ lv[e2.to] = 1
  BY ChainOfPage DEF Chain
<1>4. lv[f] <= 2
  BY DEF LeafWrite
<1>5. \A g \in Own(n) : \A s \in Slots : (g = f /\ s = i) \/ m2[g][s] = m[g][s]
  BY <1>2 DEF Written
<1>6. Kept4(m, m2, v)
  BY <1>1, <1>2, <1>4, <1>5 DEF Kept4
<1> HIDE DEF e4, e3, e2
<1>7. Present(e4) => m2[e4.to][Index3(v)] = m[e4.to][Index3(v)]
  BY <1>1, <1>3, <1>4, <1>5
<1>8. ~(Present(e3) /\ e3.to = f /\ Index2(v) = i) =>
         (Present(e3) => m2[e3.to][Index2(v)] = m[e3.to][Index2(v)])
  BY <1>1, <1>3, <1>5
<1>9. ~(IsLink(e2) /\ e2.to = f /\ Index1(v) = i) =>
         (IsLink(e2) => m2[e2.to][Index1(v)] = m[e2.to][Index1(v)])
  BY <1>1, <1>3, <1>5
<1>10. lv[f] = 1 => ~(Present(e3) /\ e3.to = f)
  BY <1>3
<1>11. lv[f] = 2 => ~(IsLink(e2) /\ e2.to = f)
  BY <1>3
<1> QED
  BY <1>6, <1>7, <1>8, <1>9, <1>10, <1>11
  DEF Kept3, Kept2, Kept1, ThroughDirectory, ThroughTable, e4, e3, e2

(* A page of a last-level table: it alone moves.                           *)
LEMMA WriteSmall ==
  ASSUME NEW m, NEW n, NEW lv, Tree(m, n, lv), NEW f, NEW i, NEW e,
         LeafWrite(m, n, lv, f, i, e), lv[f] = 1, NEW m2, Written(m, m2, f, i, e), NEW v \in Pages
  PROVE  /\ Entry2(m2, KernelFrame, v) = Entry2(m, KernelFrame, v)
         /\ ~ThroughTable(m, v, f, i) => ~Moved(m, m2, v)
         /\ ThroughTable(m, v, f, i) =>
              Translation(m2, KernelFrame, v) = [page |-> v, span |-> 1, frame |-> e.to]
PROOF
<1>1. m2 \in Memories /\ m2[f][i] = e
  BY DEF Written
<1>2. /\ Kept4(m, m2, v) /\ Kept3(m, m2, v) /\ Kept2(m, m2, v)
      /\ ~ThroughTable(m, v, f, i) => Kept1(m, m2, v)
  BY WriteKeepsWays
<1>3. /\ Entry2(m2, KernelFrame, v) = Entry2(m, KernelFrame, v)
      /\ Kept1(m, m2, v) => ~Moved(m, m2, v)
  BY <1>1, <1>2, ChainKept
<1>4. ASSUME ThroughTable(m, v, f, i)
      PROVE  Translation(m2, KernelFrame, v) = [page |-> v, span |-> 1, frame |-> e.to]
  <2>1. /\ ~Entry2(m, KernelFrame, v).large /\ Entry2(m, KernelFrame, v).to = f
        /\ Index1(v) = i
    BY <1>4 DEF ThroughTable, IsLink
  <2>2. f \in Frames /\ i \in Slots
    BY OwnFrames DEF LeafWrite, Tree, Levels
  <2>3. Entry1(m2, KernelFrame, v) = e
    BY <1>1, <1>3, <2>1, <2>2, EntryIsTyped DEF Entry1
  <2> QED
    BY <1>3, <2>1, <2>3, TranslationByEntries
<1> QED
  BY <1>2, <1>3, <1>4

(* A large page: its block alone moves.                                    *)
LEMMA WriteDirectory ==
  ASSUME NEW m, NEW n, NEW lv, Tree(m, n, lv), NEW f, NEW i, NEW e,
         LeafWrite(m, n, lv, f, i, e), lv[f] = 2, NEW m2, Written(m, m2, f, i, e), NEW v \in Pages
  PROVE  /\ ~ThroughDirectory(m, v, f, i) =>
              Entry2(m2, KernelFrame, v) = Entry2(m, KernelFrame, v) /\ ~Moved(m, m2, v)
         /\ ThroughDirectory(m, v, f, i) =>
              /\ Entry2(m2, KernelFrame, v) = e
              /\ e.large => Translation(m2, KernelFrame, v)
                             = [page |-> v - Index1(v), span |-> Fan, frame |-> e.to]
              /\ ~e.large => Translation(m2, KernelFrame, v)
                              = [page |-> v, span |-> 1, frame |-> Nowhere]
PROOF
<1>1. m2 \in Memories /\ m2[f][i] = e
  BY DEF Written
<1>2. /\ Kept4(m, m2, v) /\ Kept3(m, m2, v) /\ Kept1(m, m2, v)
      /\ ~ThroughDirectory(m, v, f, i) => Kept2(m, m2, v)
  BY WriteKeepsWays
<1>3. /\ Entry3(m2, KernelFrame, v) = Entry3(m, KernelFrame, v)
      /\ Kept2(m, m2, v) => Entry2(m2, KernelFrame, v) = Entry2(m, KernelFrame, v) /\ ~Moved(m, m2, v)
  BY <1>1, <1>2, ChainKept
<1>4. ASSUME ThroughDirectory(m, v, f, i)
      PROVE  /\ Entry2(m2, KernelFrame, v) = e
             /\ e.large => Translation(m2, KernelFrame, v)
                            = [page |-> v - Index1(v), span |-> Fan, frame |-> e.to]
             /\ ~e.large => Translation(m2, KernelFrame, v)
                             = [page |-> v, span |-> 1, frame |-> Nowhere]
  <2>1. Entry3(m, KernelFrame, v).to = f /\ Index2(v) = i
    BY <1>4 DEF ThroughDirectory
  <2>2. f \in Frames /\ i \in Slots
    BY OwnFrames DEF LeafWrite, Tree, Levels
  <2>3. Entry2(m2, KernelFrame, v) = e
    BY <1>1, <1>3, <2>1, <2>2, EntryIsTyped DEF Entry2
  <2>4. ASSUME ~e.large PROVE Entry1(m2, KernelFrame, v).to = Nowhere
    <3>1. e.to \notin Frames
      BY <2>4, Constants DEF LeafWrite, IsLink, Present
    <3>2. Index1(v) \in Slots
      BY Pages4
    <3> QED
      BY <1>1, <2>3, <3>1, <3>2, EntryIsTyped DEF Entry1, Absent
  <2> QED
    BY <2>3, <2>4, TranslationByEntries
<1> QED
  BY <1>2, <1>3, <1>4

(***************************************************************************)
(* A new table.                                                            *)
(***************************************************************************)
Grown(m, m2, f, i, new) ==
  /\ m2 \in Memories
  /\ m2[f][i] = Link(new)
  /\ \A s \in Slots : m2[new][s] = Absent
  /\ \A g \in Frames \ {new} : \A s \in Slots : (g = f /\ s = i) \/ m2[g][s] = m[g][s]

LEMMA TableGrown ==
  ASSUME NEW m \in Memories, NEW f \in Frames, NEW i \in Slots, NEW new \in Frames \ {f}
  PROVE  Grown(m, [m EXCEPT ![f][i] = Link(new), ![new] = EmptyTable], f, i, new)
BY DEF Grown, Memories, EntryType, Link, Absent, EmptyTable

(* Slot i of table f is empty, and the heap has a table for it.            *)
NewLink(m, n, lv, f, i) ==
  /\ n < HeapTables
  /\ f \in Own(n) /\ i \in Slots
  /\ lv[f] >= 2 /\ ~Present(m[f][i])

NewTable(n) == KernelFrame + HeapFirst + n

NewLevels(n, lv, f) == [g \in Own(n + 1) |-> IF g = NewTable(n) THEN lv[f] - 1 ELSE lv[g]]

LEMMA GrowTree ==
  ASSUME NEW m, NEW n, NEW lv, Tree(m, n, lv), NEW f, NEW i, NewLink(m, n, lv, f, i),
         NEW m2, Grown(m, m2, f, i, NewTable(n))
  PROVE  Tree(m2, n + 1, NewLevels(n, lv, f))
PROOF
<1> DEFINE new == NewTable(n)
           lw == NewLevels(n, lv, f)
<1>1. /\ n \in 0 .. HeapTables - 1 /\ lv \in [Own(n) -> 1 .. 4]
      /\ \A g \in Own(n) : lv[g] = 4 <=> g = KernelFrame
      /\ LargeInDirectories(m, n, lv) /\ LinksDown(m, n, lv) /\ LinkedOnce(m, n, lv)
      /\ AllLinked(m, n, lv)
  BY Constants DEF Tree, Levels, NewLink
<1>2. /\ Own(n + 1) = Own(n) \cup {new} /\ new \notin Own(n) /\ n + 1 \in 0 .. HeapTables
      /\ KernelFrame \in Own(n) /\ Own(n) \subseteq Frames
  <2>1. n \in 0 .. HeapTables
    BY <1>1, Constants
  <2>2. KernelFrame \in Own(n) /\ Own(n) \subseteq Frames
    BY <2>1, OwnFrames
  <2> QED
    BY <1>1, <2>2, OwnNext DEF NewTable
<1>3. f \in Own(n) /\ i \in Slots /\ lv[f] >= 2 /\ lv[f] \in 1 .. 4 /\ ~Present(m[f][i])
  BY <1>1 DEF NewLink
<1>4. /\ lw \in [Own(n + 1) -> 1 .. 4] /\ lw[new] = lv[f] - 1
      /\ \A g \in Own(n) : lw[g] = lv[g]
  <2>1. lv[f] - 1 \in 1 .. 4
    BY <1>3
  <2> QED
    BY <1>1, <1>2, <2>1 DEF NewLevels
<1>5. /\ m2 \in Memories /\ m2[f][i] = Link(new) /\ \A s \in Slots : m2[new][s] = Absent
      /\ \A g \in Own(n) : \A s \in Slots : (g = f /\ s = i) \/ m2[g][s] = m[g][s]
  BY <1>2 DEF Grown
<1> HIDE DEF new, lw
<1>6. Levels(n + 1, lw)
  <2>1. \A g \in Own(n + 1) : lw[g] = 4 <=> g = KernelFrame
    BY <1>1, <1>2, <1>3, <1>4
  <2> QED
    BY <1>2, <1>4, <2>1 DEF Levels
<1>7. ~IsLink(Absent) /\ IsLink(Link(new)) /\ Link(new).to = new /\ ~Absent.large /\ ~Link(new).large
  <2>1. new # Nowhere
    BY <1>1, Constants DEF new, NewTable, Nowhere
  <2> QED
    BY <2>1 DEF IsLink, Present, Absent, Link
(* The links of m2 are those of m and the new one.                         *)
<1>8. ASSUME NEW g \in Own(n + 1), NEW s \in Slots
      PROVE  LinkIn(m2, lw, g, s) <=>
               \/ g = f /\ s = i
               \/ g \in Own(n) /\ ~(g = f /\ s = i) /\ LinkIn(m, lv, g, s)
  <2>1. CASE g = new
    BY <1>2, <1>3, <1>5, <1>7, <2>1 DEF LinkIn
  <2>2. CASE g = f /\ s = i
    BY <1>3, <1>4, <1>5, <1>7, <2>2 DEF LinkIn
  <2>3. CASE g \in Own(n) /\ ~(g = f /\ s = i)
    BY <1>4, <1>5, <2>3 DEF LinkIn
  <2> QED
    BY <1>2, <2>1, <2>2, <2>3
<1>9. LargeInDirectories(m2, n + 1, lw)
  <2> SUFFICES ASSUME NEW g \in Own(n + 1), NEW s \in Slots, m2[g][s].large
               PROVE  lw[g] <= 2 /\ (lw[g] = 2 => Spans(m2[g][s]))
    BY DEF LargeInDirectories
  <2>1. g \in Own(n) /\ ~(g = f /\ s = i)
    BY <1>2, <1>5, <1>7
  <2> QED
    BY <1>1, <1>4, <1>5, <2>1 DEF LargeInDirectories
<1>10. LinksDown(m2, n + 1, lw)
  <2> SUFFICES ASSUME NEW g \in Own(n + 1), NEW s \in Slots, LinkIn(m2, lw, g, s)
               PROVE  m2[g][s].to \in Own(n + 1) /\ lw[m2[g][s].to] = lw[g] - 1
    BY DEF LinksDown
  <2>1. CASE g = f /\ s = i
    BY <1>2, <1>3, <1>4, <1>5, <1>7, <2>1
  <2>2. CASE g \in Own(n) /\ ~(g = f /\ s = i) /\ LinkIn(m, lv, g, s)
    BY <1>1, <1>2, <1>4, <1>5, <2>2 DEF LinksDown
  <2> QED
    BY <1>8, <2>1, <2>2
<1>11. ASSUME NEW g \in Own(n), NEW s \in Slots, ~(g = f /\ s = i), LinkIn(m, lv, g, s)
       PROVE  m2[g][s] = m[g][s] /\ m2[g][s].to # new
  BY <1>1, <1>2, <1>5, <1>11 DEF LinksDown
<1>12. LinkedOnce(m2, n + 1, lw)
  <2> SUFFICES ASSUME NEW g \in Own(n + 1), NEW h \in Own(n + 1), NEW s \in Slots, NEW t \in Slots,
                      LinkIn(m2, lw, g, s), LinkIn(m2, lw, h, t), m2[g][s].to = m2[h][t].to
               PROVE  g = h /\ s = t
    BY DEF LinkedOnce
  <2>1. CASE (g = f /\ s = i) \/ (h = f /\ t = i)
    BY <1>5, <1>7, <1>8, <1>11, <2>1
  <2>2. CASE ~(g = f /\ s = i) /\ ~(h = f /\ t = i)
    BY <1>1, <1>8, <1>11, <2>2 DEF LinkedOnce
  <2> QED
    BY <2>1, <2>2
<1>13. AllLinked(m2, n + 1, lw)
  <2> SUFFICES ASSUME NEW h \in Own(n + 1) \ {KernelFrame}
               PROVE  \E g \in Own(n + 1) : \E s \in Slots : LinkIn(m2, lw, g, s) /\ m2[g][s].to = h
    BY DEF AllLinked
  <2>1. CASE h = new
    BY <1>2, <1>3, <1>5, <1>7, <1>8, <2>1
  <2>2. CASE h \in Own(n)
    <3>1. PICK g \in Own(n), s \in Slots : LinkIn(m, lv, g, s) /\ m[g][s].to = h
      BY <1>1, <2>2 DEF AllLinked
    <3>2. ~(g = f /\ s = i)
      BY <1>3, <3>1 DEF LinkIn, IsLink
    <3> QED
      BY <1>2, <1>8, <1>11, <3>1, <3>2
  <2> QED
    BY <1>2, <2>1, <2>2
<1> QED
  BY <1>5, <1>6, <1>9, <1>10, <1>12, <1>13 DEF Tree, new, lw

(* Where the way to a page ends.                                           *)
LEMMA EndOfWay ==
  ASSUME NEW m \in Memories, NEW v \in Pages
  PROVE  /\ ~Present(Entry4(m, KernelFrame, v)) => Entry3(m, KernelFrame, v) = Absent
         /\ ~Present(Entry3(m, KernelFrame, v)) => Entry2(m, KernelFrame, v) = Absent
         /\ Entry2(m, KernelFrame, v) = Absent =>
              Translation(m, KernelFrame, v) = [page |-> v, span |-> 1, frame |-> Nowhere]
PROOF
<1>1. Index3(v) \in Slots /\ Index2(v) \in Slots /\ Index1(v) \in Slots /\ Nowhere \notin Frames
  BY Pages4, Constants
<1>2. ASSUME NEW e, ~Present(e), NEW s \in Slots PROVE Entry(m, e.to, s) = Absent
  <2>1. e.to \notin Frames
    BY <1>1, <1>2 DEF Present
  <2> QED
    BY <2>1, EntryIsTyped
<1>3. ~Present(Absent) /\ ~Absent.large /\ Absent.to = Nowhere
  BY DEF Present, Absent
<1>4. Entry2(m, KernelFrame, v) = Absent => Entry1(m, KernelFrame, v) = Absent
  BY <1>1, <1>2, <1>3 DEF Entry1
<1> QED
  BY <1>1, <1>2, <1>3, <1>4, TranslationByEntries DEF Entry3, Entry2

LEMMA GrowWays ==
  ASSUME NEW m, NEW n, NEW lv, Tree(m, n, lv), NEW f, NEW i, NewLink(m, n, lv, f, i),
         NEW m2, Grown(m, m2, f, i, NewTable(n)), NEW v \in Pages
  PROVE  /\ ~Moved(m, m2, v)
         /\ lv[f] >= 3 => Entry2(m2, KernelFrame, v) = Entry2(m, KernelFrame, v)
         /\ lv[f] = 2 /\ ~ThroughDirectory(m, v, f, i) =>
              Entry2(m2, KernelFrame, v) = Entry2(m, KernelFrame, v)
         /\ lv[f] = 2 => Entry3(m2, KernelFrame, v) = Entry3(m, KernelFrame, v)
         /\ lv[f] # 4 => Entry4(m2, KernelFrame, v) = Entry4(m, KernelFrame, v)
PROOF
<1> DEFINE e4 == Entry4(m, KernelFrame, v)
           e3 == Entry3(m, KernelFrame, v)
           e2 == Entry2(m, KernelFrame, v)
           d4 == Entry4(m2, KernelFrame, v)
           d3 == Entry3(m2, KernelFrame, v)
           d2 == Entry2(m2, KernelFrame, v)
           new == NewTable(n)
           end == [page |-> v, span |-> 1, frame |-> Nowhere]
<1>1. /\ Index4(v) \in Slots /\ Index3(v) \in Slots /\ Index2(v) \in Slots /\ Index1(v) \in Slots
  BY Pages4
<1>2. /\ n \in 0 .. HeapTables - 1 /\ n \in 0 .. HeapTables /\ lv \in [Own(n) -> 1 .. 4]
      /\ \A g \in Own(n) : lv[g] = 4 <=> g = KernelFrame
      /\ m \in Memories /\ m2 \in Memories
  BY Constants DEF Tree, Levels, NewLink, Grown
<1>3. Own(n) \subseteq Frames /\ KernelFrame \in Own(n) /\ new \notin Own(n) /\ new \in Frames
  BY <1>2, OwnFrames, OwnNext, Constants DEF NewTable
<1>4. f \in Own(n) /\ i \in Slots /\ lv[f] >= 2 /\ lv[f] \in 1 .. 4 /\ ~Present(m[f][i])
  BY <1>2 DEF NewLink
<1>5. /\ m2[f][i] = Link(new) /\ Link(new).to = new /\ ~Link(new).large
      /\ \A s \in Slots : m2[new][s] = Absent
      /\ \A g \in Own(n) : \A s \in Slots : (g = f /\ s = i) \/ m2[g][s] = m[g][s]
  BY <1>3 DEF Grown, Link
<1>6. /\ e4 = m[KernelFrame][Index4(v)]
      /\ Present(e4) => e4.to \in Own(n) /\ lv[e4.to] = 3 /\ e3 = m[e4.to][Index3(v)]
      /\ Present(e3) => e3.to \in Own(n) /\ lv[e3.to] = 2 /\ e2 = m[e3.to][Index2(v)]
      /\ IsLink(e2) => e2.to \in Own(n) /\ lv[e2.to] = 1
  BY ChainOfPage DEF Chain
<1>7. /\ ~Present(e4) => e3 = Absent
      /\ ~Present(e3) => e2 = Absent
      /\ e2 = Absent => Translation(m, KernelFrame, v) = end
      /\ ~Present(d4) => d3 = Absent
      /\ ~Present(d3) => d2 = Absent
      /\ d2 = Absent => Translation(m2, KernelFrame, v) = end
      /\ ~Present(Absent)
  BY <1>2, EndOfWay DEF Present, Absent
<1>8. /\ d4 = Entry(m2, KernelFrame, Index4(v)) /\ d3 = Entry(m2, d4.to, Index3(v))
      /\ d2 = Entry(m2, d3.to, Index2(v))
  BY DEF Entry4, Entry3, Entry2
<1>9. \A s \in Slots : Entry(m2, new, s) = Absent
  BY <1>2, <1>3, <1>5, EntryIsTyped
<1>10. ASSUME Kept4(m, m2, v)
       PROVE  /\ d4 = e4
              /\ Kept3(m, m2, v) => d3 = e3
              /\ Kept3(m, m2, v) /\ Kept2(m, m2, v) => d2 = e2
              /\ Kept3(m, m2, v) /\ Kept2(m, m2, v) /\ Kept1(m, m2, v) => ~Moved(m, m2, v)
  BY <1>2, <1>10, ChainKept
<1>11. /\ Kept4(m, m2, v) <=> m2[KernelFrame][Index4(v)] = m[KernelFrame][Index4(v)]
       /\ Kept3(m, m2, v) <=> (Present(e4) => m2[e4.to][Index3(v)] = m[e4.to][Index3(v)])
       /\ Kept2(m, m2, v) <=> (Present(e3) => m2[e3.to][Index2(v)] = m[e3.to][Index2(v)])
       /\ Kept1(m, m2, v) <=> (IsLink(e2) => m2[e2.to][Index1(v)] = m[e2.to][Index1(v)])
       /\ Moved(m, m2, v) <=> Translation(m2, KernelFrame, v) # Translation(m, KernelFrame, v)
       /\ ThroughDirectory(m, v, f, i) <=> Present(e3) /\ e3.to = f /\ Index2(v) = i
  BY DEF Kept4, Kept3, Kept2, Kept1, Moved, ThroughDirectory
<1> HIDE DEF e4, e3, e2, d4, d3, d2, new, end
<1>12. Kept1(m, m2, v)
  BY <1>1, <1>4, <1>5, <1>6, <1>11
<1>13. lv[f] # 4 => d4 = e4
  BY <1>1, <1>2, <1>3, <1>5, <1>10, <1>11
<1>14. CASE f = KernelFrame /\ Index4(v) = i
  <2>1. e2 = Absent
    BY <1>4, <1>6, <1>7, <1>14
  <2>2. d4 = Link(new)
    BY <1>1, <1>2, <1>3, <1>5, <1>8, <1>14, EntryIsTyped
  <2>3. d2 = Absent
    BY <1>1, <1>5, <1>7, <1>8, <1>9, <2>2
  <2> QED
    BY <1>2, <1>3, <1>7, <1>11, <1>14, <2>1, <2>3 DEF e2, d2
<1>15. CASE Present(e4) /\ e4.to = f /\ Index3(v) = i
  <2>1. Kept4(m, m2, v)
    BY <1>1, <1>2, <1>3, <1>5, <1>6, <1>11, <1>15
  <2>2. e2 = Absent
    BY <1>4, <1>6, <1>7, <1>15
  <2>3. d4 = e4
    BY <1>10, <2>1
  <2>4. d3 = Link(new)
    BY <1>1, <1>2, <1>3, <1>4, <1>5, <1>8, <1>15, <2>3, EntryIsTyped
  <2>5. d2 = Absent
    BY <1>1, <1>5, <1>8, <1>9, <2>4
  <2> QED
    BY <1>6, <1>7, <1>11, <1>13, <1>15, <2>2, <2>5 DEF e2, d2, e4, d4
<1>16. CASE ~(f = KernelFrame /\ Index4(v) = i) /\ ~(Present(e4) /\ e4.to = f /\ Index3(v) = i)
  <2>1. Kept4(m, m2, v)
    BY <1>1, <1>3, <1>5, <1>11, <1>16
  <2>2. Kept3(m, m2, v)
    BY <1>1, <1>5, <1>6, <1>11, <1>16
  <2>3. d3 = e3
    BY <1>10, <2>1, <2>2
  <2>4. CASE ThroughDirectory(m, v, f, i)
    <3>1. /\ e2 = m[f][i] /\ Present(e3) /\ e3.to = f /\ Index2(v) = i /\ lv[f] = 2
      BY <1>6, <1>11, <2>4
    <3>2. e2 = Absent
      <4>1. m[f][i] \in EntryType
        BY <1>2, <1>3, <1>4 DEF Memories
      <4>2. ~m[f][i].large
        BY <1>4, <3>1, ChainOfPage DEF Chain, e2
      <4> QED
        BY <1>4, <3>1, <4>1, <4>2 DEF EntryType, Present, Absent
    <3>3. d2 = Link(new)
      BY <1>1, <1>2, <1>3, <1>4, <1>5, <1>8, <2>3, <3>1, EntryIsTyped
    <3>4. Translation(m2, KernelFrame, v) = end
      <4>1. Entry1(m2, KernelFrame, v) = Absent
        BY <1>1, <1>5, <1>9, <3>3 DEF Entry1, d2
      <4> QED
        BY <1>5, <3>3, <4>1, TranslationByEntries DEF d2, end, Absent
    <3> QED
      BY <1>7, <1>11, <1>13, <2>3, <2>4, <3>1, <3>2, <3>4 DEF e3, d3, e4, d4
  <2>5. CASE ~ThroughDirectory(m, v, f, i)
    <3>1. Kept2(m, m2, v)
      BY <1>1, <1>5, <1>6, <1>11, <2>5
    <3>2. d2 = e2 /\ ~Moved(m, m2, v)
      BY <1>10, <1>12, <2>1, <2>2, <3>1
    <3> QED
      BY <1>13, <2>3, <2>5, <3>2 DEF e2, d2, e3, d3, e4, d4
  <2> QED
    BY <2>4, <2>5
<1> QED
  BY <1>14, <1>15, <1>16

(***************************************************************************)
(* The steps of a call.                                                    *)
(***************************************************************************)
Cached == [page : Pages, span : {1, Fan}, frame : Frames]

CallType ==
  [mem : Memories, tables : 0 .. HeapTables, at : Frames \cup {Nowhere, Missing}, tlb : SUBSET Cached]

HasTree(s) == \E lv : Tree(s.mem, s.tables, lv)

(* The ways to a directory are the same, and to a page.                    *)
SameWays(s, t) ==
  \A w \in Pages :
    /\ ~Moved(s.mem, t.mem, w)
    /\ Entry2(t.mem, KernelFrame, w) = Entry2(s.mem, KernelFrame, w)

Found(s, t, i) ==
  /\ Present(s.mem[s.at][i])
  /\ t.mem = s.mem /\ t.tables = s.tables /\ t.at = s.mem[s.at][i].to

Refused(s, t) == t.mem = s.mem /\ t.tables = s.tables /\ t.at = Nowhere

Made(s, t, i, lv) ==
  /\ NewLink(s.mem, s.tables, lv, s.at, i)
  /\ Grown(s.mem, t.mem, s.at, i, NewTable(s.tables))
  /\ t.tables = s.tables + 1 /\ t.at = NewTable(s.tables)

LEMMA GetOrCreate ==
  ASSUME NEW s \in CallType, NEW lv, Tree(s.mem, s.tables, lv), s.at \in Own(s.tables), lv[s.at] >= 2,
         NEW i \in Slots, NEW t, t = get_or_create_table(s, i)
  PROVE  /\ t \in CallType /\ t.tlb = s.tlb
         /\ Found(s, t, i) \/ Refused(s, t) \/ Made(s, t, i, lv)
PROOF
<1>1. /\ s.mem \in Memories /\ s.tables \in 0 .. HeapTables /\ s.tlb \in SUBSET Cached
      /\ s = [mem |-> s.mem, tables |-> s.tables, at |-> s.at, tlb |-> s.tlb]
  BY DEF CallType
<1>2. s.at \in KernelFrames /\ s.at \in Frames
  BY <1>1, OwnFrames
<1>3. CASE Present(s.mem[s.at][i])
  <2>1. t = [s EXCEPT !.at = s.mem[s.at][i].to]
    BY <1>2, <1>3 DEF get_or_create_table
  <2>2. s.mem[s.at][i].to \in Frames \cup {Nowhere}
    BY <1>1, <1>2 DEF Memories, EntryType
  <2> QED
    BY <1>1, <1>3, <2>1, <2>2 DEF CallType, Found
<1>4. CASE ~Present(s.mem[s.at][i]) /\ s.tables = HeapTables
  <2>1. t = [s EXCEPT !.at = Nowhere]
    BY <1>2, <1>4 DEF get_or_create_table
  <2> QED
    BY <1>1, <2>1 DEF CallType, Refused
<1>5. CASE ~Present(s.mem[s.at][i]) /\ s.tables # HeapTables
  <2> DEFINE new == NewTable(s.tables)
             m2 == [s.mem EXCEPT ![s.at][i] = Link(new), ![new] = EmptyTable]
  <2>1. t = [s EXCEPT !.mem = m2, !.tables = s.tables + 1, !.at = new]
    BY <1>1, <1>2, <1>5 DEF get_or_create_table, NewTable
  <2>2. s.tables \in 0 .. HeapTables - 1
    BY <1>1, <1>5, Constants
  <2>3. new \in Frames \ {s.at} /\ s.tables + 1 \in 0 .. HeapTables
    BY <2>2, OwnNext, Constants DEF NewTable
  <2>4. Grown(s.mem, m2, s.at, i, new)
    BY <1>1, <1>2, <2>3, TableGrown
  <2>5. m2 \in Memories
    BY <2>4 DEF Grown
  <2> HIDE DEF m2, new
  <2>6. t.mem = m2 /\ t.tables = s.tables + 1 /\ t.at = new /\ t.tlb = s.tlb /\ t \in CallType
    BY <1>1, <2>1, <2>3, <2>5 DEF CallType
  <2>7. NewLink(s.mem, s.tables, lv, s.at, i)
    BY <1>1, <1>5, Constants DEF NewLink
  <2> QED
    BY <2>4, <2>6, <2>7 DEF Made, new
<1> QED
  BY <1>3, <1>4, <1>5

(* Where a call is on the way to page v.                                   *)
AtLevel3(s, v) ==
  LET e == Entry4(s.mem, KernelFrame, v) IN Present(e) /\ s.at = e.to

AtDirectory(s, v) ==
  LET e == Entry3(s.mem, KernelFrame, v) IN Present(e) /\ s.at = e.to

AtTable(s, v) ==
  LET e == Entry2(s.mem, KernelFrame, v) IN IsLink(e) /\ s.at = e.to

LEMMA DownFrom4 ==
  ASSUME NEW s \in CallType, HasTree(s), s.at = KernelFrame, NEW v \in Pages,
         NEW t, t = get_or_create_table(s, Index4(v))
  PROVE  /\ t \in CallType /\ t.tlb = s.tlb /\ HasTree(t) /\ SameWays(s, t)
         /\ t.at = Nowhere \/ AtLevel3(t, v)
PROOF
<1>1. PICK i : i = Index4(v)
  OBVIOUS
<1>2. PICK lv : Tree(s.mem, s.tables, lv)
  BY DEF HasTree
<1>3. /\ s.at \in Own(s.tables) /\ lv[s.at] = 4 /\ i \in Slots /\ KernelFrame \in Frames
      /\ s.mem \in Memories
  BY <1>1, <1>2, TreeRoot, Pages4
<1>4. /\ t \in CallType /\ t.tlb = s.tlb
      /\ Found(s, t, i) \/ Refused(s, t) \/ Made(s, t, i, lv)
  BY <1>1, <1>2, <1>3, GetOrCreate
<1>5. t.mem \in Memories
  BY <1>4 DEF CallType
<1>6. Entry4(t.mem, KernelFrame, v) = t.mem[KernelFrame][i]
  BY <1>1, <1>3, <1>5, EntryIsTyped DEF Entry4
<1>7. CASE Found(s, t, i)
  BY <1>2, <1>4, <1>6, <1>7 DEF Found, HasTree, SameWays, Moved, AtLevel3
<1>8. CASE Refused(s, t)
  BY <1>2, <1>4, <1>8 DEF Refused, HasTree, SameWays, Moved
<1>9. CASE Made(s, t, i, lv)
  <2>1. NewLink(s.mem, s.tables, lv, s.at, i) /\ Grown(s.mem, t.mem, s.at, i, NewTable(s.tables))
    BY <1>9 DEF Made
  <2>2. HasTree(t)
    BY <1>2, <1>9, <2>1, GrowTree DEF HasTree, Made
  <2>3. SameWays(s, t)
    BY <1>2, <1>3, <2>1, GrowWays DEF SameWays
  <2>4. t.mem[KernelFrame][i] = Link(t.at)
    BY <1>9, <2>1 DEF Grown, Made
  <2>5. t.at \in Frames
    BY <1>9, OwnNext, Constants DEF Made, NewLink, NewTable, CallType
  <2>6. AtLevel3(t, v)
    BY <1>6, <2>4, <2>5, Constants DEF AtLevel3, Link, Present
  <2> QED
    BY <1>4, <2>2, <2>3, <2>6
<1> QED
  BY <1>1, <1>4, <1>7, <1>8, <1>9

LEMMA DownFrom3 ==
  ASSUME NEW s \in CallType, HasTree(s), NEW v \in Pages, AtLevel3(s, v),
         NEW t, t = get_or_create_table(s, Index3(v))
  PROVE  /\ t \in CallType /\ t.tlb = s.tlb /\ HasTree(t) /\ SameWays(s, t)
         /\ t.at = Nowhere \/ AtDirectory(t, v)
PROOF
<1>1. PICK i : i = Index3(v)
  OBVIOUS
<1>2. PICK lv : Tree(s.mem, s.tables, lv)
  BY DEF HasTree
<1>3. /\ s.at \in Own(s.tables) /\ lv[s.at] = 3 /\ i \in Slots /\ s.at \in Frames
      /\ Entry4(s.mem, KernelFrame, v).to = s.at
  BY <1>1, <1>2, TreeRoot, ChainOfPage, Pages4 DEF Chain, AtLevel3
<1>4. /\ t \in CallType /\ t.tlb = s.tlb
      /\ Found(s, t, i) \/ Refused(s, t) \/ Made(s, t, i, lv)
  BY <1>1, <1>2, <1>3, GetOrCreate
<1>5. t.mem \in Memories
  BY <1>4 DEF CallType
<1>6. ASSUME Entry4(t.mem, KernelFrame, v) = Entry4(s.mem, KernelFrame, v)
      PROVE  Entry3(t.mem, KernelFrame, v) = t.mem[s.at][i]
  BY <1>1, <1>3, <1>5, <1>6, EntryIsTyped DEF Entry3
<1>7. CASE Found(s, t, i)
  BY <1>2, <1>4, <1>6, <1>7 DEF Found, HasTree, SameWays, Moved, AtDirectory
<1>8. CASE Refused(s, t)
  BY <1>2, <1>4, <1>8 DEF Refused, HasTree, SameWays, Moved
<1>9. CASE Made(s, t, i, lv)
  <2>1. NewLink(s.mem, s.tables, lv, s.at, i) /\ Grown(s.mem, t.mem, s.at, i, NewTable(s.tables))
    BY <1>9 DEF Made
  <2>2. HasTree(t)
    BY <1>2, <1>9, <2>1, GrowTree DEF HasTree, Made
  <2>3. SameWays(s, t) /\ Entry4(t.mem, KernelFrame, v) = Entry4(s.mem, KernelFrame, v)
    BY <1>2, <1>3, <2>1, GrowWays DEF SameWays
  <2>4. t.mem[s.at][i] = Link(t.at)
    BY <1>9, <2>1 DEF Grown, Made
  <2>5. t.at # Nowhere
    BY <1>9, Constants DEF Made, NewTable, Nowhere, CallType
  <2>6. AtDirectory(t, v)
    BY <1>6, <2>3, <2>4, <2>5 DEF AtDirectory, Link, Present
  <2> QED
    BY <1>4, <2>2, <2>3, <2>6
<1> QED
  BY <1>4, <1>7, <1>8, <1>9

(* The last step may turn the empty directory entry of v's block into a    *)
(* link, and no other.                                                     *)
LEMMA DownFrom2 ==
  ASSUME NEW s \in CallType, HasTree(s), NEW v \in Pages, AtDirectory(s, v),
         ~Entry2(s.mem, KernelFrame, v).large,
         NEW t, t = get_or_create_table(s, Index2(v))
  PROVE  /\ t \in CallType /\ t.tlb = s.tlb /\ HasTree(t)
         /\ \A w \in Pages :
              /\ ~Moved(s.mem, t.mem, w)
              /\ w \div Fan # v \div Fan =>
                   Entry2(t.mem, KernelFrame, w) = Entry2(s.mem, KernelFrame, w)
         /\ (t.at = Nowhere /\ SameWays(s, t)) \/ AtTable(t, v)
PROOF
<1>1. PICK i : i = Index2(v)
  OBVIOUS
<1>2. PICK lv : Tree(s.mem, s.tables, lv)
  BY DEF HasTree
<1>3. /\ s.at \in Own(s.tables) /\ lv[s.at] = 2 /\ i \in Slots /\ s.at \in Frames
      /\ Entry3(s.mem, KernelFrame, v).to = s.at /\ Present(Entry3(s.mem, KernelFrame, v))
  BY <1>1, <1>2, TreeRoot, ChainOfPage, Pages4 DEF Chain, AtDirectory
<1>4. /\ t \in CallType /\ t.tlb = s.tlb
      /\ Found(s, t, i) \/ Refused(s, t) \/ Made(s, t, i, lv)
  BY <1>1, <1>2, <1>3, GetOrCreate
<1>5. t.mem \in Memories
  BY <1>4 DEF CallType
<1>6. ASSUME Entry3(t.mem, KernelFrame, v) = Entry3(s.mem, KernelFrame, v)
      PROVE  Entry2(t.mem, KernelFrame, v) = t.mem[s.at][i]
  BY <1>1, <1>3, <1>5, <1>6, EntryIsTyped DEF Entry2
<1>7. CASE Found(s, t, i)
  BY <1>2, <1>4, <1>6, <1>7 DEF Found, HasTree, Moved, AtTable, IsLink
<1>8. CASE Refused(s, t)
  BY <1>2, <1>4, <1>8 DEF Refused, HasTree, SameWays, Moved
<1>9. CASE Made(s, t, i, lv)
  <2>1. NewLink(s.mem, s.tables, lv, s.at, i) /\ Grown(s.mem, t.mem, s.at, i, NewTable(s.tables))
    BY <1>9 DEF Made
  <2>2. HasTree(t)
    BY <1>2, <1>9, <2>1, GrowTree DEF HasTree, Made
  <2>3. ASSUME NEW w \in Pages
        PROVE  /\ ~Moved(s.mem, t.mem, w)
               /\ ~ThroughDirectory(s.mem, w, s.at, i) =>
                    Entry2(t.mem, KernelFrame, w) = Entry2(s.mem, KernelFrame, w)
               /\ Entry3(t.mem, KernelFrame, w) = Entry3(s.mem, KernelFrame, w)
    BY <1>2, <1>3, <2>1, GrowWays
  <2>4. t.mem[s.at][i] = Link(t.at)
    BY <1>9, <2>1 DEF Grown, Made
  <2>5. t.at # Nowhere
    BY <1>9, Constants DEF Made, NewTable, Nowhere, CallType
  <2>6. AtTable(t, v)
    BY <1>6, <2>3, <2>4, <2>5 DEF AtTable, Link, IsLink, Present
  <2>7. ASSUME NEW w \in Pages, ThroughDirectory(s.mem, w, s.at, i) PROVE w \div Fan = v \div Fan
    <3>1. Index3(v) = Index3(w) /\ Index4(v) = Index4(w) /\ Index2(v) = Index2(w)
      BY <1>1, <1>2, <1>3, <2>7, SameDirectory DEF ThroughDirectory
    <3> QED
      BY <3>1, SameBlock, Pages4
  <2> QED
    BY <1>4, <2>2, <2>3, <2>6, <2>7
<1> QED
  BY <1>4, <1>7, <1>8, <1>9

LEMMA BlockEntry ==
  ASSUME NEW m, NEW root, NEW v \in Pages, NEW w \in Pages, v \div Fan = w \div Fan
  PROVE  Entry2(m, root, v) = Entry2(m, root, w) /\ Entry3(m, root, v) = Entry3(m, root, w)
PROOF
<1>1. Index4(v) = Index4(w) /\ Index3(v) = Index3(w) /\ Index2(v) = Index2(w)
  BY Pages4, SameBlock
<1> QED
  BY <1>1 DEF Entry4, Entry3, Entry2

LEMMA SameWaysTransitive ==
  ASSUME NEW r, NEW s, NEW t, SameWays(r, s), SameWays(s, t)
  PROVE  SameWays(r, t)
BY DEF SameWays, Moved

LEMMA CallFields ==
  ASSUME NEW s \in CallType
  PROVE  /\ s.mem \in Memories /\ s.tables \in 0 .. HeapTables /\ s.tlb \in SUBSET Cached
         /\ s.at \in Frames \cup {Nowhere, Missing}
         /\ s = [mem |-> s.mem, tables |-> s.tables, at |-> s.at, tlb |-> s.tlb]
BY DEF CallType

LEMMA StaysNowhere ==
  ASSUME NEW s \in CallType, s.at = Nowhere, NEW i
  PROVE  get_or_create_table(s, i) = s /\ \A e : Store(s, i, e) = s
PROOF
<1>1. Nowhere \notin KernelFrames
  BY Constants
<1>2. [s EXCEPT !.at = Nowhere] = s
  BY DEF CallType
<1> QED
  BY <1>1, <1>2 DEF get_or_create_table, Store

LEMMA BackToRoot ==
  ASSUME NEW s \in CallType
  PROVE  /\ FromRoot(s) \in CallType /\ FromRoot(s).mem = s.mem /\ FromRoot(s).tables = s.tables
         /\ FromRoot(s).tlb = s.tlb /\ FromRoot(s).at = KernelFrame
BY Constants DEF FromRoot, Pml4Frame, CallType

LEMMA ToDirectory ==
  ASSUME NEW s \in CallType, HasTree(s), NEW v \in Pages, NEW t, t = DirectoryOf(s, v)
  PROVE  /\ t \in CallType /\ t.tlb = s.tlb /\ HasTree(t) /\ SameWays(s, t)
         /\ t.at = Nowhere \/ AtDirectory(t, v)
PROOF
<1>1. PICK r : r = FromRoot(s)
  OBVIOUS
<1>2. /\ r \in CallType /\ r.mem = s.mem /\ r.tables = s.tables /\ r.tlb = s.tlb /\ r.at = KernelFrame
  BY <1>1, BackToRoot
<1>3. HasTree(r) /\ SameWays(s, r)
  BY <1>2 DEF HasTree, SameWays, Moved
<1>4. PICK a : a = get_or_create_table(r, Index4(v))
  OBVIOUS
<1>5. /\ a \in CallType /\ a.tlb = s.tlb /\ HasTree(a) /\ SameWays(r, a)
      /\ a.at = Nowhere \/ AtLevel3(a, v)
  BY <1>2, <1>3, <1>4, DownFrom4
<1>6. t = get_or_create_table(a, Index3(v))
  BY <1>1, <1>4 DEF DirectoryOf
<1>7. SameWays(s, a)
  BY <1>3, <1>5, SameWaysTransitive
<1>8. CASE a.at = Nowhere
  BY <1>5, <1>6, <1>7, <1>8, StaysNowhere
<1>9. CASE AtLevel3(a, v)
  <2>1. /\ t \in CallType /\ t.tlb = a.tlb /\ HasTree(t) /\ SameWays(a, t)
        /\ t.at = Nowhere \/ AtDirectory(t, v)
    BY <1>5, <1>6, <1>9, DownFrom3
  <2> QED
    BY <1>5, <1>7, <2>1, SameWaysTransitive
<1> QED
  BY <1>5, <1>8, <1>9

(* An entry is stored in a table of the tree.                              *)
LEMMA StoreLeaf ==
  ASSUME NEW s \in CallType, NEW lv, Tree(s.mem, s.tables, lv), NEW i \in Slots, NEW e,
         LeafWrite(s.mem, s.tables, lv, s.at, i, e), NEW t, t = Store(s, i, e)
  PROVE  /\ t \in CallType /\ t.tlb = s.tlb /\ t.tables = s.tables /\ t.at = s.at /\ t.at # Nowhere
         /\ HasTree(t) /\ Written(s.mem, t.mem, s.at, i, e)
PROOF
<1>1. /\ s.mem \in Memories /\ s.tables \in 0 .. HeapTables /\ s.tlb \in SUBSET Cached
      /\ s = [mem |-> s.mem, tables |-> s.tables, at |-> s.at, tlb |-> s.tlb]
  BY CallFields
<1>2. s.at \in KernelFrames /\ s.at \in Frames /\ e \in EntryType
  BY TreeRoot DEF LeafWrite
<1>3. PICK m2 : m2 = [s.mem EXCEPT ![s.at][i] = e]
  OBVIOUS
<1>4. Written(s.mem, m2, s.at, i, e)
  BY <1>1, <1>2, <1>3, EntryWritten
<1>5. t = [s EXCEPT !.mem = m2]
  BY <1>1, <1>2, <1>3 DEF Store
<1>6. t \in CallType /\ t.mem = m2 /\ t.tlb = s.tlb /\ t.tables = s.tables /\ t.at = s.at
  BY <1>1, <1>2, <1>4, <1>5 DEF CallType, Written
<1>7. Tree(m2, s.tables, lv)
  BY <1>4, WriteTree
<1> QED
  BY <1>2, <1>4, <1>6, <1>7, Constants DEF HasTree

(* Nothing moves: a call that ran out of memory.                           *)
Still(s, t) == \A w \in Pages : ~Moved(s.mem, t.mem, w)

(* Page v leads to frame x, and no other page moves.                       *)
OnePage(s, t, v, x) ==
  \A w \in Pages :
    IF w = v THEN Translation(t.mem, KernelFrame, w) = [page |-> v, span |-> 1, frame |-> x]
    ELSE ~Moved(s.mem, t.mem, w)

(* Directory entries but those of v's block are what they were, and those  *)
(* of the block are not for a large page.                                  *)
SmallBlock(s, t, v) ==
  \A w \in Pages :
    IF w \div Fan = v \div Fan THEN ~Entry2(t.mem, KernelFrame, w).large
    ELSE Entry2(t.mem, KernelFrame, w) = Entry2(s.mem, KernelFrame, w)

LEMMA UnmappedIsSmall ==
  ASSUME NEW s, HasTree(s), NEW v \in Pages, Translation(s.mem, KernelFrame, v).frame = Nowhere
  PROVE  ~Entry2(s.mem, KernelFrame, v).large
PROOF
<1>1. PICK lv : Tree(s.mem, s.tables, lv)
  BY DEF HasTree
<1>2. Entry2(s.mem, KernelFrame, v).large => Entry2(s.mem, KernelFrame, v).to # Nowhere
  BY <1>1, ChainOfPage DEF Chain, Present
<1> QED
  BY <1>2, TranslationByEntries

LEMMA MapSmallStep ==
  ASSUME NEW s \in CallType, HasTree(s), NEW r, NEW i, NEW v \in Pages, v = r.page + i,
         r.frame + i \in Frames, ~Entry2(s.mem, KernelFrame, v).large,
         NEW t, t = MapSmall(s, r, i)
  PROVE  /\ t \in CallType /\ t.tlb = s.tlb /\ HasTree(t) /\ SmallBlock(s, t, v)
         /\ IF t.at = Nowhere THEN Still(s, t) ELSE OnePage(s, t, v, r.frame + i)
PROOF
<1>1. PICK d : d = DirectoryOf(s, v)
  OBVIOUS
<1>2. /\ d \in CallType /\ d.tlb = s.tlb /\ HasTree(d) /\ SameWays(s, d)
      /\ d.at = Nowhere \/ AtDirectory(d, v)
  BY <1>1, ToDirectory
<1>3. PICK a : a = get_or_create_table(d, Index2(v))
  OBVIOUS
<1>4. PICK x \in Frames : x = r.frame + i
  OBVIOUS
<1>5. t = Store(a, Index1(v), Link(x))
  BY <1>1, <1>3, <1>4 DEF MapSmall
<1>6. ~Entry2(d.mem, KernelFrame, v).large
  BY <1>2 DEF SameWays
<1>7. ASSUME NEW w \in Pages, w \div Fan = v \div Fan, NEW m
      PROVE  Entry2(m, KernelFrame, w) = Entry2(m, KernelFrame, v)
  BY <1>7, BlockEntry
<1>8. CASE d.at = Nowhere
  <2>1. a = d /\ t = d
    BY <1>2, <1>3, <1>5, <1>8, StaysNowhere
  <2>2. SmallBlock(s, t, v)
    BY <1>2, <1>6, <1>7, <2>1 DEF SmallBlock, SameWays
  <2> QED
    BY <1>2, <1>8, <2>1, <2>2 DEF Still, SameWays
<1>9. CASE AtDirectory(d, v)
  <2>1. /\ a \in CallType /\ a.tlb = d.tlb /\ HasTree(a)
        /\ \A w \in Pages :
             /\ ~Moved(d.mem, a.mem, w)
             /\ w \div Fan # v \div Fan =>
                  Entry2(a.mem, KernelFrame, w) = Entry2(d.mem, KernelFrame, w)
        /\ (a.at = Nowhere /\ SameWays(d, a)) \/ AtTable(a, v)
    BY <1>2, <1>3, <1>6, <1>9, DownFrom2
  <2>2. /\ Still(s, a)
        /\ \A w \in Pages : w \div Fan # v \div Fan =>
             Entry2(a.mem, KernelFrame, w) = Entry2(s.mem, KernelFrame, w)
    BY <1>2, <2>1 DEF Still, SameWays, Moved
  <2>3. CASE a.at = Nowhere /\ SameWays(d, a)
    <3>1. t = a
      BY <1>5, <2>1, <2>3, StaysNowhere
    <3>2. ~Entry2(a.mem, KernelFrame, v).large
      BY <1>6, <2>3 DEF SameWays
    <3>3. SmallBlock(s, t, v)
      BY <1>7, <2>2, <3>1, <3>2 DEF SmallBlock
    <3> QED
      BY <1>2, <2>1, <2>2, <2>3, <3>1, <3>3
  <2>4. CASE AtTable(a, v)
    <3>1. PICK lv : Tree(a.mem, a.tables, lv)
      BY <2>1 DEF HasTree
    <3>2. a.at \in Own(a.tables) /\ lv[a.at] = 1 /\ IsLink(Entry2(a.mem, KernelFrame, v))
      BY <2>4, <3>1, ChainOfPage DEF Chain, AtTable
    <3>3. Link(x) \in EntryType /\ Link(x).to = x
      BY DEF Link, EntryType
    <3>4. LeafWrite(a.mem, a.tables, lv, a.at, Index1(v), Link(x))
      BY <3>2, <3>3, Pages4 DEF LeafWrite
    <3>5. /\ t \in CallType /\ t.tlb = a.tlb /\ t.tables = a.tables /\ t.at # Nowhere
          /\ HasTree(t) /\ Written(a.mem, t.mem, a.at, Index1(v), Link(x))
      BY <1>5, <2>1, <3>1, <3>4, Pages4, StoreLeaf
    <3>6. ASSUME NEW w \in Pages
          PROVE  /\ Entry2(t.mem, KernelFrame, w) = Entry2(a.mem, KernelFrame, w)
                 /\ ~ThroughTable(a.mem, w, a.at, Index1(v)) => ~Moved(a.mem, t.mem, w)
                 /\ ThroughTable(a.mem, w, a.at, Index1(v)) =>
                      Translation(t.mem, KernelFrame, w) = [page |-> w, span |-> 1, frame |-> x]
      BY <3>1, <3>2, <3>3, <3>4, <3>5, WriteSmall
    <3>7. ThroughTable(a.mem, v, a.at, Index1(v))
      BY <2>4 DEF AtTable, ThroughTable
    <3>8. ASSUME NEW w \in Pages, ThroughTable(a.mem, w, a.at, Index1(v)) PROVE w = v
      <4>1. w \div Fan = v \div Fan
        BY <3>1, <3>7, <3>8, SameTable DEF ThroughTable
      <4> QED
        BY <3>8, <4>1, SamePage, Pages4 DEF ThroughTable
    <3>9. OnePage(s, t, v, x)
      BY <2>2, <3>6, <3>7, <3>8 DEF OnePage, Still, Moved
    <3>10. ~Entry2(t.mem, KernelFrame, v).large
      BY <3>2, <3>6 DEF IsLink
    <3>11. SmallBlock(s, t, v)
      BY <1>7, <2>2, <3>6, <3>10 DEF SmallBlock
    <3> QED
      BY <1>2, <1>4, <2>1, <3>5, <3>9, <3>11
  <2> QED
    BY <2>1, <2>3, <2>4
<1> QED
  BY <1>2, <1>8, <1>9

(* The block of v gets directory entry e, and no page outside it moves.    *)
OneBlock(s, t, v, e) ==
  \A w \in Pages :
    IF w \div Fan = v \div Fan
    THEN /\ Entry2(t.mem, KernelFrame, w) = e
         /\ Translation(t.mem, KernelFrame, w) =
              IF e.large THEN [page |-> w - Index1(w), span |-> Fan, frame |-> e.to]
              ELSE [page |-> w, span |-> 1, frame |-> Nowhere]
    ELSE /\ Entry2(t.mem, KernelFrame, w) = Entry2(s.mem, KernelFrame, w)
         /\ ~Moved(s.mem, t.mem, w)

LEMMA WriteBlock ==
  ASSUME NEW s, NEW lv, Tree(s.mem, s.tables, lv), NEW v \in Pages, AtDirectory(s, v),
         ~IsLink(Entry2(s.mem, KernelFrame, v)), NEW e \in EntryType, ~IsLink(e), e.large => Spans(e)
  PROVE  /\ LeafWrite(s.mem, s.tables, lv, s.at, Index2(v), e)
         /\ \A t : Written(s.mem, t.mem, s.at, Index2(v), e) => OneBlock(s, t, v, e)
PROOF
<1>1. /\ s.at \in Own(s.tables) /\ lv[s.at] = 2
      /\ Entry2(s.mem, KernelFrame, v) = s.mem[s.at][Index2(v)]
      /\ Present(Entry3(s.mem, KernelFrame, v)) /\ Entry3(s.mem, KernelFrame, v).to = s.at
  BY ChainOfPage DEF Chain, AtDirectory
<1>2. LeafWrite(s.mem, s.tables, lv, s.at, Index2(v), e)
  BY <1>1, Pages4 DEF LeafWrite
<1>3. ASSUME NEW t, Written(s.mem, t.mem, s.at, Index2(v), e) PROVE OneBlock(s, t, v, e)
  <2> SUFFICES ASSUME NEW w \in Pages
               PROVE  IF w \div Fan = v \div Fan
                      THEN /\ Entry2(t.mem, KernelFrame, w) = e
                           /\ Translation(t.mem, KernelFrame, w) =
                                IF e.large THEN [page |-> w - Index1(w), span |-> Fan, frame |-> e.to]
                                ELSE [page |-> w, span |-> 1, frame |-> Nowhere]
                      ELSE /\ Entry2(t.mem, KernelFrame, w) = Entry2(s.mem, KernelFrame, w)
                           /\ ~Moved(s.mem, t.mem, w)
    BY DEF OneBlock
  <2>1. ThroughDirectory(s.mem, w, s.at, Index2(v)) <=> w \div Fan = v \div Fan
    <3>1. ASSUME ThroughDirectory(s.mem, w, s.at, Index2(v)) PROVE w \div Fan = v \div Fan
      <4>1. /\ Present(Entry3(s.mem, KernelFrame, w)) /\ Index2(w) = Index2(v)
            /\ Entry3(s.mem, KernelFrame, w).to = Entry3(s.mem, KernelFrame, v).to
        BY <1>1, <3>1 DEF ThroughDirectory
      <4>2. Index3(w) = Index3(v) /\ Index4(w) = Index4(v)
        BY <1>1, <4>1, SameDirectory
      <4> QED
        BY <4>1, <4>2, SameBlock, Pages4
    <3>2. ASSUME w \div Fan = v \div Fan PROVE ThroughDirectory(s.mem, w, s.at, Index2(v))
      <4>1. Entry3(s.mem, KernelFrame, w) = Entry3(s.mem, KernelFrame, v)
        BY <3>2, BlockEntry
      <4>2. Index2(w) = Index2(v)
        BY <3>2, SameBlock, Pages4
      <4> QED
        BY <1>1, <4>1, <4>2 DEF ThroughDirectory
    <3> QED
      BY <3>1, <3>2
  <2>2. /\ ~ThroughDirectory(s.mem, w, s.at, Index2(v)) =>
             /\ Entry2(t.mem, KernelFrame, w) = Entry2(s.mem, KernelFrame, w)
             /\ ~Moved(s.mem, t.mem, w)
        /\ ThroughDirectory(s.mem, w, s.at, Index2(v)) =>
             /\ Entry2(t.mem, KernelFrame, w) = e
             /\ e.large => Translation(t.mem, KernelFrame, w)
                            = [page |-> w - Index1(w), span |-> Fan, frame |-> e.to]
             /\ ~e.large => Translation(t.mem, KernelFrame, w)
                             = [page |-> w, span |-> 1, frame |-> Nowhere]
    BY <1>1, <1>2, <1>3, WriteDirectory
  <2> QED
    BY <2>1, <2>2
<1> QED
  BY <1>2, <1>3

LEMMA MapLargeStep ==
  ASSUME NEW s \in CallType, HasTree(s), NEW r, NEW i, NEW v \in Pages, v = r.page + i,
         NEW x \in Frames, x = r.frame + i, \A j \in 0 .. Fan - 1 : x + j \in Frames,
         ~IsLink(Entry2(s.mem, KernelFrame, v)),
         NEW t, t = MapLarge(s, r, i)
  PROVE  /\ t \in CallType /\ t.tlb = s.tlb /\ HasTree(t)
         /\ IF t.at = Nowhere THEN SameWays(s, t) ELSE OneBlock(s, t, v, Large(x))
PROOF
<1>1. PICK d : d = DirectoryOf(s, v)
  OBVIOUS
<1>2. /\ d \in CallType /\ d.tlb = s.tlb /\ HasTree(d) /\ SameWays(s, d)
      /\ d.at = Nowhere \/ AtDirectory(d, v)
  BY <1>1, ToDirectory
<1>3. t = Store(d, Index2(v), Large(x))
  BY <1>1 DEF MapLarge
<1>4. CASE d.at = Nowhere
  <2>1. t = d
    BY <1>2, <1>3, <1>4, StaysNowhere
  <2> QED
    BY <1>2, <1>4, <2>1
<1>5. CASE AtDirectory(d, v)
  <2>1. PICK lv : Tree(d.mem, d.tables, lv)
    BY <1>2 DEF HasTree
  <2>2. /\ Large(x) \in EntryType /\ ~IsLink(Large(x)) /\ Spans(Large(x)) /\ Large(x).large
    BY DEF Large, EntryType, IsLink, Spans
  <2>3. ~IsLink(Entry2(d.mem, KernelFrame, v))
    BY <1>2 DEF SameWays
  <2>4. /\ LeafWrite(d.mem, d.tables, lv, d.at, Index2(v), Large(x))
        /\ \A u : Written(d.mem, u.mem, d.at, Index2(v), Large(x)) => OneBlock(d, u, v, Large(x))
    BY <1>5, <2>1, <2>2, <2>3, WriteBlock
  <2>5. /\ t \in CallType /\ t.tlb = d.tlb /\ t.tables = d.tables /\ t.at # Nowhere
        /\ HasTree(t) /\ Written(d.mem, t.mem, d.at, Index2(v), Large(x))
    BY <1>2, <1>3, <2>1, <2>4, Pages4, StoreLeaf
  <2>6. OneBlock(d, t, v, Large(x))
    BY <2>4, <2>5
  <2>7. OneBlock(s, t, v, Large(x))
    BY <1>2, <2>6 DEF OneBlock, SameWays, Moved
  <2> QED
    BY <1>2, <2>5, <2>7
<1> QED
  BY <1>2, <1>4, <1>5

(***************************************************************************)
(* Unmapping.                                                              *)
(***************************************************************************)
LEMMA ToExistingDirectory ==
  ASSUME NEW s \in CallType, HasTree(s), NEW v \in Pages, NEW t, t = ExistingDirectory(s, v)
  PROVE  t = [s EXCEPT !.at = IF Present(Entry3(s.mem, KernelFrame, v))
                              THEN Entry3(s.mem, KernelFrame, v).to ELSE Missing]
PROOF
<1>1. PICK r : r = FromRoot(s)
  OBVIOUS
<1>2. PICK lv : Tree(s.mem, s.tables, lv)
  BY DEF HasTree
<1>3. /\ r.mem = s.mem /\ r.at = KernelFrame /\ r = [s EXCEPT !.at = KernelFrame]
  BY <1>1, BackToRoot DEF FromRoot, Pml4Frame
<1>4. PICK e4 : e4 = Entry4(s.mem, KernelFrame, v)
  OBVIOUS
<1>5. PICK e3 : e3 = Entry3(s.mem, KernelFrame, v)
  OBVIOUS
<1>6. /\ e4 = s.mem[KernelFrame][Index4(v)]
      /\ Present(e4) => e4.to \in Own(s.tables) /\ e3 = s.mem[e4.to][Index3(v)]
      /\ ~Present(e4) => e3 = Absent
  BY <1>2, <1>4, <1>5, ChainOfPage DEF Chain
<1>7. Own(s.tables) \subseteq KernelFrames /\ KernelFrame \in KernelFrames
  BY <1>2, TreeRoot, Constants
<1>8. Missing \notin KernelFrames /\ ~Present(Absent)
  BY Constants DEF Present, Absent
<1>9. PICK a : a = get_table_if_exists(r, Index4(v))
  OBVIOUS
<1>10. a = [s EXCEPT !.at = IF Present(e4) THEN e4.to ELSE Missing]
  <2>1. r.at \in KernelFrames /\ r.at # Missing /\ r.mem[r.at][Index4(v)] = e4
    BY <1>3, <1>6, <1>7, <1>8
  <2>2. a = [r EXCEPT !.at = IF Present(e4) THEN e4.to ELSE Missing]
    BY <1>9, <2>1 DEF get_table_if_exists
  <2> QED
    BY <1>3, <2>2 DEF CallType
<1>11. t = get_table_if_exists(a, Index3(v))
  BY <1>1, <1>9 DEF ExistingDirectory
<1>12. a.mem = s.mem /\ a.at = IF Present(e4) THEN e4.to ELSE Missing
  BY <1>10 DEF CallType
<1>13. CASE Present(e4)
  <2>1. a.at \in KernelFrames /\ a.at # Missing /\ a.mem[a.at][Index3(v)] = e3
    BY <1>6, <1>7, <1>8, <1>12, <1>13
  <2>2. t = [a EXCEPT !.at = IF Present(e3) THEN e3.to ELSE Missing]
    BY <1>11, <2>1 DEF get_table_if_exists
  <2> QED
    BY <1>5, <1>10, <2>2 DEF CallType
<1>14. CASE ~Present(e4)
  <2>1. t = a /\ ~Present(e3)
    BY <1>6, <1>8, <1>11, <1>12, <1>14 DEF get_table_if_exists
  <2> QED
    BY <1>5, <1>10, <1>14, <2>1
<1> QED
  BY <1>13, <1>14

(* An unmapping finds no table and does nothing, or flushes page p.        *)
Flushed(s, t, p) ==
  \/ t.mem = s.mem /\ t.tlb = s.tlb /\ Translation(s.mem, KernelFrame, p).frame = Nowhere
  \/ t.tlb = flush_tlb_single(s.tlb, p)

LEMMA ClearLeaf ==
  ASSUME NEW s \in CallType, NEW lv, Tree(s.mem, s.tables, lv), NEW i \in Slots, NEW r,
         LeafWrite(s.mem, s.tables, lv, s.at, i, Absent), NEW t, t = Clear(s, i, r)
  PROVE  /\ t \in CallType /\ t.tlb = flush_tlb_single(s.tlb, r.page) /\ t.at # Nowhere
         /\ t.tables = s.tables /\ HasTree(t) /\ Written(s.mem, t.mem, s.at, i, Absent)
PROOF
<1>1. /\ s.mem \in Memories /\ s.tables \in 0 .. HeapTables /\ s.tlb \in SUBSET Cached
      /\ s = [mem |-> s.mem, tables |-> s.tables, at |-> s.at, tlb |-> s.tlb]
  BY CallFields
<1>2. s.at \in KernelFrames /\ s.at \in Frames /\ Absent \in EntryType /\ s.at # Missing
  BY TreeRoot, Constants DEF LeafWrite
<1>3. PICK m2 : m2 = [s.mem EXCEPT ![s.at][i] = Absent]
  OBVIOUS
<1>4. Written(s.mem, m2, s.at, i, Absent)
  BY <1>1, <1>2, <1>3, EntryWritten
<1>5. PICK c : c = flush_tlb_single(s.tlb, r.page)
  OBVIOUS
<1>6. c \in SUBSET Cached
  BY <1>1, <1>5 DEF flush_tlb_single
<1>7. t = [s EXCEPT !.mem = m2, !.tlb = c]
  BY <1>1, <1>2, <1>3, <1>5 DEF Clear
<1>8. t \in CallType /\ t.mem = m2 /\ t.tlb = c /\ t.tables = s.tables /\ t.at = s.at
  BY <1>1, <1>2, <1>4, <1>6, <1>7 DEF CallType, Written
<1>9. Tree(m2, s.tables, lv)
  BY <1>4, WriteTree
<1> QED
  BY <1>2, <1>4, <1>5, <1>8, <1>9, Constants DEF HasTree

LEMMA NothingToClear ==
  ASSUME NEW s \in CallType, HasTree(s), NEW d, d = [s EXCEPT !.at = Missing],
         NEW i, NEW r, NEW t, t = Clear(d, i, r)
  PROVE  /\ t \in CallType /\ t.mem = s.mem /\ t.tables = s.tables /\ t.tlb = s.tlb /\ HasTree(t)
         /\ t.at # Nowhere
PROOF
<1>1. d \in CallType /\ d.mem = s.mem /\ d.tables = s.tables /\ d.tlb = s.tlb /\ d.at = Missing
  BY DEF CallType
<1>2. t = FromRoot(d)
  BY <1>1, Constants DEF Clear
<1> QED
  BY <1>1, <1>2, BackToRoot, Constants DEF HasTree

LEMMA UnmapSmallStep ==
  ASSUME NEW s \in CallType, HasTree(s), NEW r, r.page \in Pages,
         ~Entry2(s.mem, KernelFrame, r.page).large, NEW t, t = UnmapSmall(s, r, 0)
  PROVE  /\ t \in CallType /\ HasTree(t) /\ t.at # Nowhere /\ Flushed(s, t, r.page)
         /\ OnePage(s, t, r.page, Nowhere)
         /\ \A w \in Pages : Entry2(t.mem, KernelFrame, w) = Entry2(s.mem, KernelFrame, w)
PROOF
<1>1. PICK v \in Pages : v = r.page
  OBVIOUS
<1>2. PICK lv : Tree(s.mem, s.tables, lv)
  BY DEF HasTree
<1>3. PICK d : d = ExistingDirectory(s, v)
  OBVIOUS
<1>4. PICK a : a = get_table_if_exists(d, Index2(v))
  OBVIOUS
<1>5. t = Clear(a, Index1(v), r)
  <2>1. r.page + 0 = v
    BY <1>1, Pages4
  <2> QED
    BY <1>3, <1>4, <2>1 DEF UnmapSmall
<1>6. PICK e3 : e3 = Entry3(s.mem, KernelFrame, v)
  OBVIOUS
<1>7. PICK e2 : e2 = Entry2(s.mem, KernelFrame, v)
  OBVIOUS
<1>8. /\ Present(e3) => e3.to \in Own(s.tables) /\ e2 = s.mem[e3.to][Index2(v)]
      /\ ~Present(e3) => e2 = Absent
      /\ IsLink(e2) => e2.to \in Own(s.tables) /\ lv[e2.to] = 1
      /\ e2 \in EntryType
  BY <1>2, <1>6, <1>7, ChainOfPage DEF Chain
<1>9. ~e2.large /\ (Present(e2) <=> IsLink(e2))
  BY <1>1, <1>7 DEF IsLink
<1>10. Own(s.tables) \subseteq KernelFrames /\ Missing \notin KernelFrames /\ s.mem \in Memories
       /\ Own(s.tables) \subseteq Frames
  BY <1>2, TreeRoot, Constants
<1>11. d = [s EXCEPT !.at = IF Present(e3) THEN e3.to ELSE Missing]
  BY <1>3, <1>6, ToExistingDirectory
<1>12. d.mem = s.mem /\ d.at = IF Present(e3) THEN e3.to ELSE Missing
  BY <1>11 DEF CallType
<1>13. a = [s EXCEPT !.at = IF Present(e2) THEN e2.to ELSE Missing]
  <2>1. CASE Present(e3)
    <3>1. d.at \in KernelFrames /\ d.at # Missing /\ d.mem[d.at][Index2(v)] = e2
      BY <1>8, <1>10, <1>12, <2>1
    <3>2. a = [d EXCEPT !.at = IF Present(e2) THEN e2.to ELSE Missing]
      BY <1>4, <3>1 DEF get_table_if_exists
    <3> QED
      BY <1>11, <3>2 DEF CallType
  <2>2. CASE ~Present(e3)
    <3>1. a = d /\ ~Present(e2)
      BY <1>4, <1>8, <1>10, <1>12, <2>2 DEF get_table_if_exists, Present, Absent
    <3> QED
      BY <1>11, <2>2, <3>1
  <2> QED
    BY <2>1, <2>2
<1>14. CASE ~Present(e2)
  <2>1. /\ t \in CallType /\ t.mem = s.mem /\ t.tables = s.tables /\ t.tlb = s.tlb /\ HasTree(t)
        /\ t.at # Nowhere
    BY <1>5, <1>13, <1>14, NothingToClear
  <2>2. Translation(s.mem, KernelFrame, v) = [page |-> v, span |-> 1, frame |-> Nowhere]
    <3>1. e2 = Absent
      BY <1>8, <1>9, <1>14 DEF EntryType, Present, Absent
    <3> QED
      BY <1>7, <1>10, <3>1, EndOfWay
  <2>3. OnePage(s, t, v, Nowhere)
    BY <2>1, <2>2 DEF OnePage, Moved
  <2> QED
    BY <1>1, <2>1, <2>2, <2>3 DEF Flushed
<1>15. CASE Present(e2)
  <2>1. e2.to \in Own(s.tables) /\ lv[e2.to] = 1 /\ e2.to \in Frames
    BY <1>8, <1>9, <1>10, <1>15
  <2>2. a \in CallType /\ a.mem = s.mem /\ a.tables = s.tables /\ a.tlb = s.tlb /\ a.at = e2.to
    BY <1>13, <1>15, <2>1 DEF CallType
  <2>3. Absent \in EntryType /\ ~IsLink(Absent) /\ ~Absent.large /\ Absent.to = Nowhere
    BY DEF Absent, EntryType, IsLink, Present
  <2>4. LeafWrite(a.mem, a.tables, lv, a.at, Index1(v), Absent)
    BY <2>1, <2>2, <2>3, Pages4 DEF LeafWrite
  <2>5. /\ t \in CallType /\ t.tlb = flush_tlb_single(a.tlb, r.page) /\ t.at # Nowhere
        /\ t.tables = a.tables /\ HasTree(t) /\ Written(a.mem, t.mem, a.at, Index1(v), Absent)
    BY <1>2, <1>5, <2>2, <2>4, Pages4, ClearLeaf
  <2>6. ASSUME NEW w \in Pages
        PROVE  /\ Entry2(t.mem, KernelFrame, w) = Entry2(s.mem, KernelFrame, w)
               /\ ~ThroughTable(s.mem, w, a.at, Index1(v)) => ~Moved(s.mem, t.mem, w)
               /\ ThroughTable(s.mem, w, a.at, Index1(v)) =>
                    Translation(t.mem, KernelFrame, w) = [page |-> w, span |-> 1, frame |-> Nowhere]
    BY <1>2, <2>1, <2>2, <2>3, <2>4, <2>5, WriteSmall
  <2>7. ThroughTable(s.mem, v, a.at, Index1(v))
    BY <1>7, <1>9, <1>15, <2>2 DEF ThroughTable
  <2>8. ASSUME NEW w \in Pages, ThroughTable(s.mem, w, a.at, Index1(v)) PROVE w = v
    <3>1. w \div Fan = v \div Fan
      BY <1>2, <2>7, <2>8, SameTable DEF ThroughTable
    <3> QED
      BY <2>8, <3>1, SamePage, Pages4 DEF ThroughTable
  <2>9. OnePage(s, t, v, Nowhere)
    BY <2>6, <2>7, <2>8 DEF OnePage
  <2> QED
    BY <1>1, <2>2, <2>5, <2>6, <2>9 DEF Flushed
<1> QED
  BY <1>14, <1>15

LEMMA UnmapLargeStep ==
  ASSUME NEW s \in CallType, HasTree(s), NEW r, r.page \in Pages,
         ~IsLink(Entry2(s.mem, KernelFrame, r.page)), NEW t, t = UnmapLarge(s, r, 0)
  PROVE  /\ t \in CallType /\ HasTree(t) /\ t.at # Nowhere /\ Flushed(s, t, r.page)
         /\ OneBlock(s, t, r.page, Absent)
PROOF
<1>1. PICK v \in Pages : v = r.page
  OBVIOUS
<1>2. PICK lv : Tree(s.mem, s.tables, lv)
  BY DEF HasTree
<1>3. PICK d : d = ExistingDirectory(s, v)
  OBVIOUS
<1>4. t = Clear(d, Index2(v), r)
  <2>1. r.page + 0 = v
    BY <1>1, Pages4
  <2> QED
    BY <1>3, <2>1 DEF UnmapLarge
<1>5. PICK e3 : e3 = Entry3(s.mem, KernelFrame, v)
  OBVIOUS
<1>6. d = [s EXCEPT !.at = IF Present(e3) THEN e3.to ELSE Missing]
  BY <1>3, <1>5, ToExistingDirectory
<1>7. Present(e3) => e3.to \in Frames
  BY <1>2, <1>5, ChainOfPage, TreeRoot DEF Chain
<1>8. CASE ~Present(e3)
  <2>1. /\ t \in CallType /\ t.mem = s.mem /\ t.tables = s.tables /\ t.tlb = s.tlb /\ HasTree(t)
        /\ t.at # Nowhere
    BY <1>4, <1>6, <1>8, NothingToClear
  <2>2. ASSUME NEW w \in Pages, w \div Fan = v \div Fan
        PROVE  /\ Entry2(s.mem, KernelFrame, w) = Absent
               /\ Translation(s.mem, KernelFrame, w) = [page |-> w, span |-> 1, frame |-> Nowhere]
    <3>1. Entry3(s.mem, KernelFrame, w) = e3
      BY <1>5, <2>2, BlockEntry
    <3>2. s.mem \in Memories
      BY CallFields
    <3> QED
      BY <1>8, <3>1, <3>2, EndOfWay
  <2>3. OneBlock(s, t, v, Absent)
    BY <2>1, <2>2 DEF OneBlock, Moved, Absent
  <2>4. Translation(s.mem, KernelFrame, v) = [page |-> v, span |-> 1, frame |-> Nowhere]
    BY <1>1, <2>2
  <2>5. Translation(s.mem, KernelFrame, v).frame = Nowhere
    BY <2>4
  <2>6. Flushed(s, t, v)
    BY <2>1, <2>5 DEF Flushed
  <2> QED
    BY <1>1, <2>1, <2>3, <2>6
<1>9. CASE Present(e3)
  <2>1. d \in CallType /\ d.mem = s.mem /\ d.tables = s.tables /\ d.tlb = s.tlb /\ d.at = e3.to
    BY <1>6, <1>7, <1>9 DEF CallType
  <2>2. AtDirectory(d, v) /\ ~IsLink(Entry2(d.mem, KernelFrame, v))
    BY <1>1, <1>5, <1>9, <2>1 DEF AtDirectory
  <2>3. Absent \in EntryType /\ ~IsLink(Absent) /\ ~Absent.large
    BY DEF Absent, EntryType, IsLink, Present
  <2>4. Tree(d.mem, d.tables, lv)
    BY <1>2, <2>1
  <2>5. /\ LeafWrite(d.mem, d.tables, lv, d.at, Index2(v), Absent)
        /\ \A u : Written(d.mem, u.mem, d.at, Index2(v), Absent) => OneBlock(d, u, v, Absent)
    BY <2>2, <2>3, <2>4, WriteBlock
  <2>6. /\ t \in CallType /\ t.tlb = flush_tlb_single(d.tlb, r.page) /\ t.at # Nowhere
        /\ t.tables = d.tables /\ HasTree(t) /\ Written(d.mem, t.mem, d.at, Index2(v), Absent)
    BY <1>4, <2>1, <2>4, <2>5, Pages4, ClearLeaf
  <2>7. OneBlock(d, t, v, Absent)
    BY <2>5, <2>6
  <2>8. OneBlock(s, t, v, Absent)
    BY <2>1, <2>7 DEF OneBlock, Moved
  <2>9. Flushed(s, t, r.page)
    BY <2>1, <2>6 DEF Flushed
  <2> QED
    BY <1>1, <2>6, <2>8, <2>9
<1> QED
  BY <1>8, <1>9

(***************************************************************************)
(* The loops.                                                              *)
(***************************************************************************)
LEMMA Earliest ==
  ASSUME NEW S, S \subseteq Nat, S # {}
  PROVE  \E p \in S : \A q \in S : p <= q
PROOF
<1> DEFINE R == OpToRel(<, Nat)
<1>1. IsWellFoundedOn(R, Nat)
  BY NatLessThanWellFounded
<1>2. \A p, q \in Nat : q < p => <<q, p>> \in R
  BY DEF OpToRel
<1> HIDE DEF R
<1>3. PICK p \in S : \A q \in S : <<q, p>> \notin R
  BY <1>1, WFMin
<1>4. ASSUME NEW q \in S PROVE p <= q
  <2>1. p \in Nat /\ q \in Nat
    OBVIOUS
  <2>2. ~(q < p)
    BY <1>2, <1>3, <2>1, Zenon
  <2> QED
    BY <2>1, <2>2
<1> QED
  BY <1>4

(* The state of map_4k's loop after n iterations.                          *)
SmallStep(f, r, n) ==
  IF n = 0 THEN Start
  ELSE IF f[n - 1].at = Nowhere THEN f[n - 1]
  ELSE MapSmall(f[n - 1], r, n - 1)

LEMMA LoopExists ==
  ASSUME NEW r, NEW c \in Nat
  PROVE  \E f : f = [n \in 0 .. c |-> SmallStep(f, r, n)]
PROOF
<1> DEFINE Built(m) == \E f : f = [k \in 0 .. m |-> SmallStep(f, r, k)]
           S == {m \in Nat : ~Built(m)}
<1>1. SUFFICES ASSUME S # {} PROVE FALSE
  BY Zenon
<1>2. PICK m \in S : \A q \in S : m <= q
  <2>1. S \subseteq Nat
    OBVIOUS
  <2> HIDE DEF S
  <2> QED
    BY <1>1, <2>1, Earliest, Zenon
<1>3. m \in Nat /\ ~Built(m)
  OBVIOUS
<1>4. m # 0
  <2>1. Built(0)
    <3> DEFINE f == [k \in 0 .. 0 |-> Start]
    <3>1. \A k \in 0 .. 0 : SmallStep(f, r, k) = Start
      BY DEF SmallStep
    <3>2. f = [k \in 0 .. 0 |-> SmallStep(f, r, k)]
      BY <3>1
    <3> HIDE DEF f
    <3> QED
      BY <3>2
  <2> HIDE DEF Built
  <2> QED
    BY <1>3, <2>1
<1>5. m - 1 \in Nat /\ Built(m - 1)
  <2>1. m - 1 \in Nat /\ ~(m <= m - 1)
    BY <1>3, <1>4
  <2>2. m - 1 \notin S
    BY <1>2, <2>1
  <2> HIDE DEF Built
  <2> QED
    BY <2>1, <2>2
<1>6. PICK f : f = [k \in 0 .. m - 1 |-> SmallStep(f, r, k)]
  BY <1>5
<1> DEFINE g == [k \in 0 .. m |-> IF k = m THEN SmallStep(f, r, m) ELSE f[k]]
<1>7. \A k \in 0 .. m - 1 : g[k] = f[k] /\ f[k] = SmallStep(f, r, k)
  <2>1. \A k \in 0 .. m - 1 : k \in 0 .. m /\ k # m
    BY <1>3
  <2>2. \A k \in 0 .. m - 1 : f[k] = SmallStep(f, r, k)
    BY <1>6
  <2> QED
    BY <2>1, <2>2
<1>8. ASSUME NEW k \in 0 .. m PROVE g[k] = SmallStep(g, r, k)
  <2>1. k # 0 => k - 1 \in 0 .. m - 1
    BY <1>3
  <2>2. k # 0 => g[k - 1] = f[k - 1]
    BY <1>7, <2>1
  <2>3. SmallStep(g, r, k) = SmallStep(f, r, k)
    <3> HIDE DEF g
    <3> QED
      BY <2>2 DEF SmallStep
  <2>4. g[k] = SmallStep(f, r, k)
    <3>1. CASE k = m
      BY <3>1
    <3>2. CASE k # m
      <4>1. k \in 0 .. m - 1
        BY <1>3, <3>2
      <4> HIDE DEF g
      <4> QED
        BY <1>7, <4>1
    <3> QED
      BY <3>1, <3>2
  <2> HIDE DEF g
  <2> QED
    BY <2>3, <2>4
<1>9. g = [k \in 0 .. m |-> SmallStep(g, r, k)]
  <2>1. g = [k \in 0 .. m |-> g[k]]
    OBVIOUS
  <2> HIDE DEF g
  <2> QED
    BY <1>8, <2>1
<1> HIDE DEF g
<1> QED
  BY <1>3, <1>9

LEMMA LoopBySteps ==
  ASSUME NEW r, r.count \in Nat
  PROVE  \E f : /\ Loop(MapSmall, r) = f[r.count]
                /\ f[0] = Start
                /\ \A n \in 0 .. r.count - 1 :
                     f[n + 1] = IF f[n].at = Nowhere THEN f[n] ELSE MapSmall(f[n], r, n)
PROOF
<1> DEFINE w == CHOOSE f : f = [n \in 0 .. r.count |-> SmallStep(f, r, n)]
<1>1. Loop(MapSmall, r) = w[r.count]
  BY DEF Loop, SmallStep
<1>2. w = [n \in 0 .. r.count |-> SmallStep(w, r, n)]
  BY LoopExists, Zenon
<1> HIDE DEF w
<1>3. \A n \in 0 .. r.count : w[n] = SmallStep(w, r, n)
  BY <1>2
<1>4. w[0] = Start
  BY <1>3 DEF SmallStep
<1>5. ASSUME NEW n \in 0 .. r.count - 1
      PROVE  w[n + 1] = IF w[n].at = Nowhere THEN w[n] ELSE MapSmall(w[n], r, n)
  <2>1. n + 1 \in 0 .. r.count /\ n + 1 # 0 /\ (n + 1) - 1 = n
    OBVIOUS
  <2> QED
    BY <1>3, <2>1 DEF SmallStep
<1> QED
  BY <1>1, <1>4, <1>5

(* The other calls are for one unit.                                       *)
LEMMA LoopOfMapLarge ==
  ASSUME NEW r, r.count = 1, Start.at # Nowhere
  PROVE  Loop(MapLarge, r) = MapLarge(Start, r, 0)
PROOF
<1> DEFINE Step(f, n) == IF n = 0 THEN Start
                         ELSE IF f[n - 1].at = Nowhere THEN f[n - 1]
                         ELSE MapLarge(f[n - 1], r, n - 1)
           w == CHOOSE f : f = [n \in 0 .. r.count |-> Step(f, n)]
           g == [n \in 0 .. 1 |-> IF n = 0 THEN Start ELSE MapLarge(Start, r, 0)]
<1>1. Loop(MapLarge, r) = w[r.count]
  BY DEF Loop
<1>2. g[0] = Start /\ g[1] = MapLarge(Start, r, 0)
  OBVIOUS
<1>3. g = [n \in 0 .. r.count |-> Step(g, n)]
  <2>1. \A n \in 0 .. 1 : g[n] = Step(g, n)
    <3> HIDE DEF g
    <3>1. Step(g, 0) = g[0]
      BY <1>2
    <3>2. Step(g, 1) = g[1]
      BY <1>2
    <3> HIDE DEF Step
    <3> QED
      BY <3>1, <3>2
  <2>2. g = [n \in 0 .. 1 |-> g[n]]
    OBVIOUS
  <2> HIDE DEF g, Step
  <2> QED
    BY <2>1, <2>2
<1>4. w = [n \in 0 .. r.count |-> Step(w, n)]
  <2> HIDE DEF g, Step
  <2> QED
    BY <1>3, Zenon
<1> HIDE DEF w
<1>5. w[0] = Step(w, 0) /\ w[1] = Step(w, 1)
  <2> HIDE DEF Step
  <2> QED
    BY <1>4
<1>6. w[0] = Start
  BY <1>5
<1> QED
  BY <1>1, <1>5, <1>6

LEMMA LoopOfUnmapSmall ==
  ASSUME NEW r, r.count = 1, Start.at # Nowhere
  PROVE  Loop(UnmapSmall, r) = UnmapSmall(Start, r, 0)
PROOF
<1> DEFINE Step(f, n) == IF n = 0 THEN Start
                         ELSE IF f[n - 1].at = Nowhere THEN f[n - 1]
                         ELSE UnmapSmall(f[n - 1], r, n - 1)
           w == CHOOSE f : f = [n \in 0 .. r.count |-> Step(f, n)]
           g == [n \in 0 .. 1 |-> IF n = 0 THEN Start ELSE UnmapSmall(Start, r, 0)]
<1>1. Loop(UnmapSmall, r) = w[r.count]
  BY DEF Loop
<1>2. g[0] = Start /\ g[1] = UnmapSmall(Start, r, 0)
  OBVIOUS
<1>3. g = [n \in 0 .. r.count |-> Step(g, n)]
  <2>1. \A n \in 0 .. 1 : g[n] = Step(g, n)
    <3> HIDE DEF g
    <3>1. Step(g, 0) = g[0]
      BY <1>2
    <3>2. Step(g, 1) = g[1]
      BY <1>2
    <3> HIDE DEF Step
    <3> QED
      BY <3>1, <3>2
  <2>2. g = [n \in 0 .. 1 |-> g[n]]
    OBVIOUS
  <2> HIDE DEF g, Step
  <2> QED
    BY <2>1, <2>2
<1>4. w = [n \in 0 .. r.count |-> Step(w, n)]
  <2> HIDE DEF g, Step
  <2> QED
    BY <1>3, Zenon
<1> HIDE DEF w
<1>5. w[0] = Step(w, 0) /\ w[1] = Step(w, 1)
  <2> HIDE DEF Step
  <2> QED
    BY <1>4
<1>6. w[0] = Start
  BY <1>5
<1> QED
  BY <1>1, <1>5, <1>6

LEMMA LoopOfUnmapLarge ==
  ASSUME NEW r, r.count = 1, Start.at # Nowhere
  PROVE  Loop(UnmapLarge, r) = UnmapLarge(Start, r, 0)
PROOF
<1> DEFINE Step(f, n) == IF n = 0 THEN Start
                         ELSE IF f[n - 1].at = Nowhere THEN f[n - 1]
                         ELSE UnmapLarge(f[n - 1], r, n - 1)
           w == CHOOSE f : f = [n \in 0 .. r.count |-> Step(f, n)]
           g == [n \in 0 .. 1 |-> IF n = 0 THEN Start ELSE UnmapLarge(Start, r, 0)]
<1>1. Loop(UnmapLarge, r) = w[r.count]
  BY DEF Loop
<1>2. g[0] = Start /\ g[1] = UnmapLarge(Start, r, 0)
  OBVIOUS
<1>3. g = [n \in 0 .. r.count |-> Step(g, n)]
  <2>1. \A n \in 0 .. 1 : g[n] = Step(g, n)
    <3> HIDE DEF g
    <3>1. Step(g, 0) = g[0]
      BY <1>2
    <3>2. Step(g, 1) = g[1]
      BY <1>2
    <3> HIDE DEF Step
    <3> QED
      BY <3>1, <3>2
  <2>2. g = [n \in 0 .. 1 |-> g[n]]
    OBVIOUS
  <2> HIDE DEF g, Step
  <2> QED
    BY <2>1, <2>2
<1>4. w = [n \in 0 .. r.count |-> Step(w, n)]
  <2> HIDE DEF g, Step
  <2> QED
    BY <1>3, Zenon
<1> HIDE DEF w
<1>5. w[0] = Step(w, 0) /\ w[1] = Step(w, 1)
  <2> HIDE DEF Step
  <2> QED
    BY <1>4
<1>6. w[0] = Start
  BY <1>5
<1> QED
  BY <1>1, <1>5, <1>6

(***************************************************************************)
(* Calls.                                                                  *)
(***************************************************************************)
(* What a directory holds for the lower half: large pages for the blocks   *)
(* that are mapped so, tables for the others.                              *)
Sorted(m) ==
  \A v \in 0 .. KERNEL_BASE - 1 :
    IF InLarge(v) THEN ~IsLink(Entry2(m, KernelFrame, v)) ELSE ~Entry2(m, KernelFrame, v).large

(* What is cached is what the tables say.                                  *)
TlbExact(s) ==
  \A e \in s.tlb : \A v \in e.page .. e.page + e.span - 1 :
    v \in Pages /\ Translation(s.mem, KernelFrame, v) = e

ImageMapped(m) ==
  \A i \in 0 .. KernelPages - 1 : Walk(m, KernelFrame, KERNEL_BASE + i) = KernelFrame + i

Kernel(s) ==
  /\ s \in CallType /\ HasTree(s)
  /\ Sorted(s.mem) /\ TlbExact(s) /\ ImageMapped(s.mem)

(* The pages of the run of n pages at p.                                   *)
Within(w, p, n) == w \in p .. p + n - 1

(* A run is mapped to consecutive frames, and no other page moves.         *)
RunMapped(m, m2, p, x, n) ==
  \A w \in Pages :
    Walk(m2, KernelFrame, w) = IF Within(w, p, n) THEN x + (w - p) ELSE Walk(m, KernelFrame, w)

LEMMA HalfOfPages ==
  /\ KERNEL_BASE = (Fan \div 2) * Fan * Fan * Fan
  /\ KERNEL_BASE \in Nat /\ KERNEL_BASE <= Fan * Fan * Fan * Fan
  /\ Fan * Fan * Fan * Fan \in Nat /\ 0 .. KERNEL_BASE - 1 \subseteq Pages
PROOF
<1>1. KERNEL_BASE \in Nat /\ Fan * Fan * Fan * Fan \in Nat
  BY Constants, Powers
<1>2. Fan \div 2 \in Nat /\ Fan \div 2 <= Fan
  BY FanAssumption
<1>3. KERNEL_BASE = (Fan \div 2) * (Fan * Fan * Fan)
  BY <1>2, FanAssumption DEF KERNEL_BASE
<1>4. (Fan \div 2) * (Fan * Fan * Fan) <= Fan * (Fan * Fan * Fan)
  <2>1. \A a, b, c \in Nat : a <= b => a * c <= b * c
    OBVIOUS
  <2> QED
    BY <1>2, <2>1, Powers
<1>5. KERNEL_BASE <= Fan * Fan * Fan * Fan
  BY <1>3, <1>4, Powers
<1>6. 0 .. KERNEL_BASE - 1 \subseteq Pages
  BY <1>1, <1>5 DEF Pages
<1> QED
  BY <1>1, <1>5, <1>6 DEF KERNEL_BASE

(* A block lies in one half.                                               *)
LEMMA LowerBlock ==
  ASSUME NEW v \in Pages, NEW w \in Pages, v \div Fan = w \div Fan
  PROVE  v < KERNEL_BASE <=> w < KERNEL_BASE
PROOF
<1>1. v \in Nat /\ w \in Nat
  BY Pages4
<1>2. Index4(v) = Index4(w)
  BY <1>1, SameBlock
<1>3. Fan \div 2 \in Nat
  BY FanAssumption
<1> QED
  BY <1>1, <1>2, <1>3, FirstIndexBelow, HalfOfPages

(* What a walk says of the translation.                                    *)
LEMMA WalkOf ==
  ASSUME NEW m, NEW n, NEW lv, Tree(m, n, lv), NEW v \in Pages
  PROVE  LET t == Translation(m, KernelFrame, v)
         IN  /\ Walk(m, KernelFrame, v) = Nowhere <=> t.frame = Nowhere
             /\ Walk(m, KernelFrame, v) = Nowhere => t = [page |-> v, span |-> 1, frame |-> Nowhere]
             /\ Walk(m, KernelFrame, v) # Nowhere => t \in Cached
             /\ t.page \in Nat /\ v \in t.page .. t.page + t.span - 1
             /\ Walk(m, KernelFrame, v) # Nowhere => Walk(m, KernelFrame, v) = t.frame + (v - t.page)
PROOF
<1> DEFINE t == Translation(m, KernelFrame, v)
<1>1. PICK e2, e1 : e2 = Entry2(m, KernelFrame, v) /\ e1 = Entry1(m, KernelFrame, v)
  OBVIOUS
<1>2. /\ e2 \in EntryType /\ e1 \in EntryType
      /\ e2.large => e2.to \in Frames
  BY <1>1, ChainOfPage DEF Chain, EntryType, Present
<1>3. t = IF e2.large THEN [page |-> v - Index1(v), span |-> Fan, frame |-> e2.to]
          ELSE [page |-> v, span |-> 1, frame |-> e1.to]
  BY <1>1, TranslationByEntries
<1>4. Walk(m, KernelFrame, v) = IF t.frame = Nowhere THEN Nowhere ELSE t.frame + (v - t.page)
  BY DEF Walk
<1> HIDE DEF t
<1>5. v \in Nat /\ Index1(v) \in Slots
  BY Pages4
<1>6. v - Index1(v) \in Nat /\ v \in v - Index1(v) .. v - Index1(v) + Fan - 1 /\ v - Index1(v) \in Pages
  <2>1. v - Index1(v) \in Nat /\ v \in v - Index1(v) .. v - Index1(v) + Fan - 1
    BY <1>5, BlockOf
  <2> QED
    BY <1>5, <2>1, Powers DEF Pages, Slots
<1>7. t.page \in Pages /\ t.page \in Nat /\ t.span \in {1, Fan} /\ v \in t.page .. t.page + t.span - 1
      /\ t.frame \in Frames \cup {Nowhere} /\ t = [page |-> t.page, span |-> t.span, frame |-> t.frame]
  BY <1>2, <1>3, <1>5, <1>6 DEF EntryType
<1>8. t.frame # Nowhere => t.frame + (v - t.page) # Nowhere
  <2>1. t.frame # Nowhere => t.frame \in Nat /\ v - t.page \in Nat
    BY <1>5, <1>7, Constants
  <2> QED
    BY <2>1 DEF Nowhere
<1>9. t.frame = Nowhere => t = [page |-> v, span |-> 1, frame |-> Nowhere]
  BY <1>2, <1>3, Constants
<1>10. t.frame # Nowhere => t \in Cached
  BY <1>7 DEF Cached
<1> QED
  BY <1>4, <1>7, <1>8, <1>9, <1>10 DEF t

(* Translations that stay walk to where they did.                          *)
LEMMA UnmovedWalk ==
  ASSUME NEW m, NEW m2, NEW v, ~Moved(m, m2, v)
  PROVE  Walk(m2, KernelFrame, v) = Walk(m, KernelFrame, v)
BY DEF Walk, Moved

(* When only pages move that led nowhere, the TLB and the image stay true. *)
LEMMA MappedStays ==
  ASSUME NEW s, Kernel(s), NEW t, t \in CallType, HasTree(t), t.tlb = s.tlb,
         \A w \in Pages : Walk(s.mem, KernelFrame, w) # Nowhere => ~Moved(s.mem, t.mem, w),
         KERNEL_BASE + KernelPages <= Fan * Fan * Fan * Fan
  PROVE  TlbExact(t) /\ ImageMapped(t.mem)
PROOF
<1>1. PICK lv : Tree(s.mem, s.tables, lv)
  BY DEF Kernel, HasTree
<1>2. TlbExact(t)
  <2> SUFFICES ASSUME NEW e \in s.tlb, NEW v \in e.page .. e.page + e.span - 1
               PROVE  v \in Pages /\ Translation(t.mem, KernelFrame, v) = e
    BY DEF TlbExact
  <2>1. v \in Pages /\ Translation(s.mem, KernelFrame, v) = e
    BY DEF Kernel, TlbExact
  <2>2. e.frame # Nowhere
    BY Constants, CallFields DEF Kernel, Cached
  <2>3. Walk(s.mem, KernelFrame, v) # Nowhere
    BY <1>1, <2>1, <2>2, WalkOf
  <2> QED
    BY <2>1, <2>3 DEF Moved
<1>3. ImageMapped(t.mem)
  <2> SUFFICES ASSUME NEW i \in 0 .. KernelPages - 1
               PROVE  Walk(t.mem, KernelFrame, KERNEL_BASE + i) = KernelFrame + i
    BY DEF ImageMapped
  <2>1. KERNEL_BASE + i \in Pages
    BY Constants, HalfOfPages DEF Pages
  <2>2. Walk(s.mem, KernelFrame, KERNEL_BASE + i) = KernelFrame + i
    BY DEF Kernel, ImageMapped
  <2>3. KernelFrame + i # Nowhere
    BY Constants DEF Nowhere
  <2> QED
    BY <2>1, <2>2, <2>3, UnmovedWalk
<1> QED
  BY <1>2, <1>3

(* map_4k after k pages.                                                   *)
Mapping(s, t, r, k) ==
  /\ t \in CallType /\ HasTree(t) /\ t.tlb = s.tlb /\ Sorted(t.mem)
  /\ \A w \in Pages :
       IF Within(w, r.page, k)
       THEN Translation(t.mem, KernelFrame, w) = [page |-> w, span |-> 1, frame |-> r.frame + (w - r.page)]
       ELSE ~Moved(s.mem, t.mem, w)

SmallRun(r) ==
  /\ r \in RunType
  /\ \A i \in 0 .. r.count - 1 :
       r.page + i \in Pages /\ ~InLarge(r.page + i) /\ r.frame + i \in Frames

LEMMA MapNext ==
  ASSUME NEW s, Kernel(s), NEW r, SmallRun(r), NEW k \in 0 .. r.count - 1,
         \A i \in 0 .. r.count - 1 : Walk(s.mem, KernelFrame, r.page + i) = Nowhere,
         NEW t, Mapping(s, t, r, k), NEW u, u = MapSmall(t, r, k)
  PROVE  IF u.at = Nowhere THEN Mapping(s, u, r, k) ELSE Mapping(s, u, r, k + 1)
PROOF
<1>1. PICK v \in Pages : v = r.page + k
  BY DEF SmallRun
<1>2. ~InLarge(v) /\ r.frame + k \in Frames
  BY <1>1 DEF SmallRun
<1>3. r.page \in Nat /\ v \in Nat /\ \A w \in Pages : w \in Nat
  BY <1>1, Pages4 DEF SmallRun, RunType
<1>4. \A w \in Pages : Within(w, r.page, k + 1) <=> Within(w, r.page, k) \/ w = v
  BY <1>1, <1>3 DEF Within
<1>5. ~Within(v, r.page, k)
  BY <1>1, <1>3 DEF Within
<1>6. ~Entry2(t.mem, KernelFrame, v).large
  <2>1. ~Moved(s.mem, t.mem, v)
    BY <1>5 DEF Mapping
  <2>2. Walk(t.mem, KernelFrame, v) = Nowhere
    BY <1>1, <2>1, UnmovedWalk
  <2>3. PICK lv : Tree(t.mem, t.tables, lv)
    BY DEF Mapping, HasTree
  <2>4. Translation(t.mem, KernelFrame, v).frame = Nowhere
    BY <2>2, <2>3, WalkOf
  <2> QED
    BY <2>4, UnmappedIsSmall DEF Mapping
<1>7. /\ u \in CallType /\ u.tlb = t.tlb /\ HasTree(u) /\ SmallBlock(t, u, v)
      /\ IF u.at = Nowhere THEN Still(t, u) ELSE OnePage(t, u, v, r.frame + k)
  BY <1>1, <1>2, <1>6, MapSmallStep DEF Mapping
<1>8. Sorted(u.mem)
  <2> SUFFICES ASSUME NEW w \in 0 .. KERNEL_BASE - 1
               PROVE  IF InLarge(w) THEN ~IsLink(Entry2(u.mem, KernelFrame, w))
                      ELSE ~Entry2(u.mem, KernelFrame, w).large
    BY DEF Sorted
  <2>1. w \in Pages
    BY HalfOfPages
  <2>2. CASE w \div Fan = v \div Fan
    BY <1>2, <1>7, <2>1, <2>2 DEF SmallBlock, InLarge
  <2>3. CASE w \div Fan # v \div Fan
    <3>1. Entry2(u.mem, KernelFrame, w) = Entry2(t.mem, KernelFrame, w)
      BY <1>7, <2>1, <2>3 DEF SmallBlock
    <3> QED
      BY <3>1 DEF Mapping, Sorted
  <2> QED
    BY <2>2, <2>3
<1>9. u.tlb = s.tlb
  BY <1>7 DEF Mapping
<1>10. CASE u.at = Nowhere
  <2>1. ASSUME NEW w \in Pages
        PROVE  Translation(u.mem, KernelFrame, w) = Translation(t.mem, KernelFrame, w)
    BY <1>7, <1>10 DEF Still, Moved
  <2>2. Mapping(s, u, r, k)
    BY <1>7, <1>8, <1>9, <2>1 DEF Mapping, Moved
  <2> QED
    BY <1>10, <2>2
<1>11. CASE u.at # Nowhere
  <2>1. ASSUME NEW w \in Pages, w # v
        PROVE  Translation(u.mem, KernelFrame, w) = Translation(t.mem, KernelFrame, w)
    BY <1>7, <1>11, <2>1 DEF OnePage, Moved
  <2>2. Translation(u.mem, KernelFrame, v) = [page |-> v, span |-> 1, frame |-> r.frame + (v - r.page)]
    <3>1. v - r.page = k
      BY <1>1, <1>3
    <3> QED
      BY <1>7, <1>11, <3>1 DEF OnePage
  <2>3. ASSUME NEW w \in Pages
        PROVE  IF Within(w, r.page, k + 1)
               THEN Translation(u.mem, KernelFrame, w)
                      = [page |-> w, span |-> 1, frame |-> r.frame + (w - r.page)]
               ELSE ~Moved(s.mem, u.mem, w)
    <3>1. CASE w = v
      BY <1>4, <2>2, <3>1
    <3>2. CASE w # v
      <4>1. Within(w, r.page, k + 1) <=> Within(w, r.page, k)
        BY <1>4, <3>2
      <4> QED
        BY <2>1, <3>2, <4>1 DEF Mapping, Moved
    <3> QED
      BY <3>1, <3>2
  <2>4. Mapping(s, u, r, k + 1)
    BY <1>7, <1>8, <1>9, <2>3 DEF Mapping
  <2> QED
    BY <1>11, <2>4
<1> QED
  BY <1>10, <1>11

AllUnmapped(m, p, n) == \A i \in 0 .. n - 1 : Walk(m, KernelFrame, p + i) = Nowhere

LEMMA MapRun ==
  ASSUME Kernel(Start), NEW r, SmallRun(r), AllUnmapped(mem, r.page, r.count),
         NEW t, t = Loop(MapSmall, r)
  PROVE  \E k \in 0 .. r.count : (t.at = Nowhere <=> k < r.count) /\ Mapping(Start, t, r, k)
PROOF
<1>1. r.count \in Nat
  BY DEF SmallRun, RunType
<1>2. PICK f : /\ t = f[r.count]
               /\ f[0] = Start
               /\ \A n \in 0 .. r.count - 1 :
                    f[n + 1] = IF f[n].at = Nowhere THEN f[n] ELSE MapSmall(f[n], r, n)
  BY <1>1, LoopBySteps
<1> DEFINE P(n) == \E k \in 0 .. n : (f[n].at = Nowhere <=> k < n) /\ Mapping(Start, f[n], r, k)
           S == {n \in 0 .. r.count : ~P(n)}
<1>3. P(0)
  <2>1. Start.at # Nowhere /\ Start.mem = mem
    BY Constants DEF Start, Pml4Frame
  <2>2. \A w \in Pages : ~Within(w, r.page, 0)
    <3>1. r.page \in Nat /\ \A w \in Pages : w \in Nat
      BY Pages4 DEF SmallRun, RunType
    <3> QED
      BY <3>1 DEF Within
  <2>3. Mapping(Start, Start, r, 0)
    <3> HIDE DEF Start
    <3> QED
      BY <2>2 DEF Mapping, Kernel, Moved
  <2> QED
    BY <1>2, <2>1, <2>3
<1>4. ASSUME NEW n \in 0 .. r.count - 1, P(n) PROVE P(n + 1)
  <2>1. PICK k \in 0 .. n : (f[n].at = Nowhere <=> k < n) /\ Mapping(Start, f[n], r, k)
    BY <1>4
  <2>2. CASE f[n].at = Nowhere
    <3>1. f[n + 1] = f[n]
      BY <1>2, <2>2
    <3>2. k \in 0 .. n + 1 /\ k < n + 1
      OBVIOUS
    <3> QED
      BY <2>1, <2>2, <3>1, <3>2
  <2>3. CASE f[n].at # Nowhere
    <3>1. PICK u : u = MapSmall(f[n], r, n)
      OBVIOUS
    <3>2. f[n + 1] = u
      BY <1>2, <2>3, <3>1
    <3>3. k = n
      BY <2>1, <2>3
    <3>4. \A i \in 0 .. r.count - 1 : Walk(Start.mem, KernelFrame, r.page + i) = Nowhere
      BY DEF AllUnmapped, Start
    <3>5. IF u.at = Nowhere THEN Mapping(Start, u, r, n) ELSE Mapping(Start, u, r, n + 1)
      <4> HIDE DEF P, S
      <4> QED
        BY <2>1, <3>1, <3>3, <3>4, MapNext
    <3>6. n \in 0 .. n + 1 /\ n + 1 \in 0 .. n + 1 /\ n < n + 1 /\ ~(n + 1 < n + 1)
      OBVIOUS
    <3> QED
      BY <3>2, <3>5, <3>6
  <2> QED
    BY <2>2, <2>3
<1> HIDE DEF P
<1>5. S = {}
  <2> SUFFICES ASSUME S # {} PROVE FALSE
    OBVIOUS
  <2>1. S \subseteq Nat
    OBVIOUS
  <2>2. PICK n \in S : \A q \in S : n <= q
    <3> HIDE DEF S
    <3> QED
      BY <2>1, Earliest
  <2>3. n \in 0 .. r.count /\ ~P(n)
    OBVIOUS
  <2>4. n # 0
    BY <1>3, <2>3
  <2>5. n - 1 \in 0 .. r.count - 1 /\ (n - 1) + 1 = n
    BY <1>1, <2>3, <2>4
  <2>6. P(n - 1)
    <3>1. n - 1 \notin S
      BY <2>2, <2>5
    <3> QED
      BY <1>1, <2>5, <3>1
  <2> QED
    BY <1>4, <2>3, <2>5, <2>6
<1>6. P(r.count)
  BY <1>1, <1>5
<1> QED
  BY <1>2, <1>6 DEF P

(* The kernel's half is where its pages are counted.                       *)
ImageFits == KERNEL_BASE + KernelPages <= Fan * Fan * Fan * Fan

LEMMA MapSmallSound ==
  ASSUME ImageFits, Kernel(Start), NEW r, SmallRun(r), AllUnmapped(mem, r.page, r.count),
         NEW t, t = Loop(MapSmall, r)
  PROVE  /\ Kernel(t)
         /\ \E k \in 0 .. r.count : /\ t.at = Nowhere <=> k < r.count
                                    /\ RunMapped(mem, t.mem, r.page, r.frame, k)
PROOF
<1>1. PICK k \in 0 .. r.count : (t.at = Nowhere <=> k < r.count) /\ Mapping(Start, t, r, k)
  BY MapRun
<1>2. r.page \in Nat /\ r.count \in Nat /\ \A w \in Pages : w \in Nat
  BY Pages4 DEF SmallRun, RunType
<1>3. Start.mem = mem
  BY DEF Start
<1>4. ASSUME NEW w \in Pages, Within(w, r.page, k)
      PROVE  /\ Walk(mem, KernelFrame, w) = Nowhere
             /\ Walk(t.mem, KernelFrame, w) = r.frame + (w - r.page)
  <2>1. w - r.page \in 0 .. r.count - 1 /\ r.page + (w - r.page) = w
    BY <1>2, <1>4 DEF Within
  <2>2. Walk(mem, KernelFrame, w) = Nowhere
    BY <2>1 DEF AllUnmapped
  <2>3. r.frame + (w - r.page) \in Frames
    BY <2>1 DEF SmallRun
  <2>4. Translation(t.mem, KernelFrame, w) = [page |-> w, span |-> 1, frame |-> r.frame + (w - r.page)]
    BY <1>1, <1>4 DEF Mapping
  <2>5. Walk(t.mem, KernelFrame, w) = (r.frame + (w - r.page)) + (w - w)
    BY <2>3, <2>4, Constants DEF Walk
  <2>6. r.frame + (w - r.page) \in Nat
    BY <2>3, Constants
  <2> QED
    BY <1>2, <2>2, <2>5, <2>6
<1>5. \A w \in Pages : ~Within(w, r.page, k) => ~Moved(mem, t.mem, w)
  BY <1>1, <1>3 DEF Mapping
<1>6. RunMapped(mem, t.mem, r.page, r.frame, k)
  BY <1>4, <1>5, UnmovedWalk DEF RunMapped
<1>7. t \in CallType /\ HasTree(t) /\ t.tlb = Start.tlb /\ Sorted(t.mem)
  BY <1>1 DEF Mapping
<1>8. \A w \in Pages : Walk(Start.mem, KernelFrame, w) # Nowhere => ~Moved(Start.mem, t.mem, w)
  BY <1>3, <1>4, <1>5
<1>9. TlbExact(t) /\ ImageMapped(t.mem)
  BY <1>7, <1>8, MappedStays DEF ImageFits
<1> QED
  BY <1>1, <1>6, <1>7, <1>9 DEF Kernel

LargeRun(r) ==
  /\ r \in RunType /\ InLarge(r.page)
  /\ r.count = 1 /\ r.page < KERNEL_BASE /\ Index1(r.page) = 0
  /\ \A i \in 0 .. Fan - 1 : r.frame + i \in Frames

(* The pages of a large run are a block.                                   *)
LEMMA LargeRunIsBlock ==
  ASSUME NEW r, LargeRun(r), NEW w \in Pages
  PROVE  /\ Within(w, r.page, Fan) <=> w \div Fan = r.page \div Fan
         /\ w \div Fan = r.page \div Fan => w - r.page = Index1(w) /\ w < KERNEL_BASE /\ InLarge(w)
PROOF
<1>1. r.page \in Pages /\ Index1(r.page) = 0 /\ r.page < KERNEL_BASE /\ InLarge(r.page)
  BY DEF LargeRun, RunType
<1>2. r.page \in Nat /\ w \in Nat /\ w \in Int
  BY <1>1, Pages4
<1>3. r.page - Index1(r.page) = r.page
  BY <1>1, <1>2
<1>4. /\ w \in r.page .. r.page + Fan - 1 <=> w \in Nat /\ w \div Fan = r.page \div Fan
      /\ w \in Nat /\ w \div Fan = r.page \div Fan => w - r.page = Index1(w)
  BY <1>2, <1>3, BlockOf
<1>5. w \div Fan = r.page \div Fan => w < KERNEL_BASE /\ InLarge(w)
  BY <1>1, LowerBlock DEF InLarge
<1> QED
  BY <1>2, <1>4, <1>5 DEF Within

LEMMA MapLargeSound ==
  ASSUME ImageFits, Kernel(Start), NEW r, LargeRun(r), AllUnmapped(mem, r.page, Fan),
         NEW t, t = Loop(MapLarge, r)
  PROVE  /\ Kernel(t)
         /\ \E k \in {0, Fan} : /\ t.at = Nowhere <=> k < Fan
                                /\ RunMapped(mem, t.mem, r.page, r.frame, k)
PROOF
<1>1. Start.mem = mem /\ Start.at # Nowhere
  BY Constants DEF Start, Pml4Frame
<1>2. t = MapLarge(Start, r, 0)
  BY <1>1, LoopOfMapLarge DEF LargeRun
<1>3. PICK v \in Pages : v = r.page
  BY DEF LargeRun, RunType
<1>4. v \in Nat /\ v = r.page + 0 /\ v < KERNEL_BASE /\ InLarge(v)
  BY <1>3, Pages4 DEF LargeRun
<1>5. PICK x \in Frames : x = r.frame
  BY FanAssumption DEF LargeRun, RunType
<1>6. x \in Nat /\ x = r.frame + 0 /\ \A j \in 0 .. Fan - 1 : x + j \in Frames
  BY <1>5, Constants DEF LargeRun
<1>7. ~IsLink(Entry2(Start.mem, KernelFrame, v))
  BY <1>4, Constants DEF Kernel, Sorted
<1>8. Start \in CallType /\ HasTree(Start) /\ Sorted(Start.mem)
  BY DEF Kernel
<1>9. /\ t \in CallType /\ t.tlb = Start.tlb /\ HasTree(t)
      /\ IF t.at = Nowhere THEN SameWays(Start, t) ELSE OneBlock(Start, t, v, Large(x))
  <2> HIDE DEF Start
  <2> QED
    BY <1>2, <1>4, <1>6, <1>7, <1>8, MapLargeStep
<1>10. \A w \in Pages : w \in Nat
  BY Pages4
<1>11. \A w \in Pages : /\ Within(w, r.page, Fan) <=> w \div Fan = v \div Fan
                        /\ w \div Fan = v \div Fan =>
                             w - r.page = Index1(w) /\ w < KERNEL_BASE /\ InLarge(w)
  BY <1>3, LargeRunIsBlock
<1>12. \A w \in Pages : w \div Fan = v \div Fan => Walk(mem, KernelFrame, w) = Nowhere
  <2> SUFFICES ASSUME NEW w \in Pages, w \div Fan = v \div Fan
               PROVE  Walk(mem, KernelFrame, w) = Nowhere
    OBVIOUS
  <2>1. Index1(w) \in 0 .. Fan - 1 /\ w = r.page + Index1(w)
    BY <1>3, <1>4, <1>10, <1>11, Pages4 DEF Slots
  <2> QED
    BY <2>1 DEF AllUnmapped
<1>13. CASE t.at = Nowhere
  <2>1. \A w \in Pages : ~Moved(Start.mem, t.mem, w)
    BY <1>9, <1>13 DEF SameWays
  <2>2. Sorted(t.mem)
    <3>1. \A w \in 0 .. KERNEL_BASE - 1 : Entry2(t.mem, KernelFrame, w) = Entry2(Start.mem, KernelFrame, w)
      BY <1>9, <1>13, HalfOfPages DEF SameWays
    <3> QED
      BY <1>8, <3>1 DEF Sorted
  <2>3. TlbExact(t) /\ ImageMapped(t.mem)
    BY <1>9, <2>1, MappedStays DEF ImageFits
  <2>4. \A w \in Pages : ~Within(w, r.page, 0)
    BY <1>3, <1>4, <1>10 DEF Within
  <2>5. RunMapped(mem, t.mem, r.page, r.frame, 0)
    BY <1>1, <2>1, <2>4, UnmovedWalk DEF RunMapped
  <2>6. 0 < Fan
    BY FanAssumption
  <2> QED
    BY <1>9, <1>13, <2>2, <2>3, <2>5, <2>6 DEF Kernel
<1>14. CASE t.at # Nowhere
  <2>1. OneBlock(Start, t, v, Large(x))
    BY <1>9, <1>14
  <2>2. Large(x).large /\ Large(x).to = x /\ ~IsLink(Large(x))
    BY DEF Large, IsLink
  <2>3. Sorted(t.mem)
    <3> SUFFICES ASSUME NEW w \in 0 .. KERNEL_BASE - 1
                 PROVE  IF InLarge(w) THEN ~IsLink(Entry2(t.mem, KernelFrame, w))
                        ELSE ~Entry2(t.mem, KernelFrame, w).large
      BY DEF Sorted
    <3>1. w \in Pages
      BY HalfOfPages
    <3>2. CASE w \div Fan = v \div Fan
      BY <1>11, <2>1, <2>2, <3>1, <3>2 DEF OneBlock
    <3>3. CASE w \div Fan # v \div Fan
      <4>1. Entry2(t.mem, KernelFrame, w) = Entry2(Start.mem, KernelFrame, w)
        BY <2>1, <3>1, <3>3 DEF OneBlock
      <4> QED
        BY <1>8, <4>1 DEF Sorted
    <3> QED
      BY <3>2, <3>3
  <2>4. \A w \in Pages : w \div Fan # v \div Fan => ~Moved(Start.mem, t.mem, w)
    BY <2>1 DEF OneBlock
  <2>5. TlbExact(t) /\ ImageMapped(t.mem)
    <3>1. \A w \in Pages : Walk(Start.mem, KernelFrame, w) # Nowhere => ~Moved(Start.mem, t.mem, w)
      BY <1>1, <1>12, <2>4
    <3> QED
      BY <1>9, <3>1, MappedStays DEF ImageFits
  <2>6. ASSUME NEW w \in Pages, w \div Fan = v \div Fan
        PROVE  Walk(t.mem, KernelFrame, w) = r.frame + (w - r.page)
    <3>1. Translation(t.mem, KernelFrame, w) = [page |-> w - Index1(w), span |-> Fan, frame |-> x]
      BY <2>1, <2>2, <2>6 DEF OneBlock
    <3>2. Walk(t.mem, KernelFrame, w) = x + (w - (w - Index1(w)))
      BY <3>1, Constants DEF Walk
    <3>3. w - (w - Index1(w)) = w - r.page
      BY <1>3, <1>4, <1>10, <1>11, <2>6
    <3> QED
      BY <1>5, <3>2, <3>3
  <2>7. RunMapped(mem, t.mem, r.page, r.frame, Fan)
    BY <1>1, <1>11, <2>4, <2>6, UnmovedWalk DEF RunMapped
  <2>8. Fan \in {0, Fan} /\ ~(Fan < Fan)
    BY FanAssumption
  <2> QED
    BY <1>9, <1>14, <2>3, <2>5, <2>7, <2>8 DEF Kernel
<1> QED
  BY <1>13, <1>14

SmallPage(r) ==
  r.page \in Pages /\ r.count = 1 /\ r.page < KERNEL_BASE /\ ~InLarge(r.page)

(* A page is unmapped and no other moves.                                  *)
LEMMA UnmapSmallSound ==
  ASSUME ImageFits, NEW s, Kernel(s), NEW r, SmallPage(r), NEW t, t = UnmapSmall(s, r, 0)
  PROVE  /\ Kernel(t) /\ t.at # Nowhere
         /\ \A w \in Pages : Walk(t.mem, KernelFrame, w) =
                               IF w = r.page THEN Nowhere ELSE Walk(s.mem, KernelFrame, w)
PROOF
<1>1. PICK p \in Pages : p = r.page
  BY DEF SmallPage
<1>2. p \in Nat /\ p < KERNEL_BASE /\ ~InLarge(p)
  BY <1>1, Pages4 DEF SmallPage
<1>3. s \in CallType /\ HasTree(s) /\ Sorted(s.mem) /\ TlbExact(s) /\ ImageMapped(s.mem)
  BY DEF Kernel
<1>4. ~Entry2(s.mem, KernelFrame, p).large
  BY <1>2, <1>3, Constants DEF Sorted
<1>5. /\ t \in CallType /\ HasTree(t) /\ t.at # Nowhere /\ Flushed(s, t, p)
      /\ OnePage(s, t, p, Nowhere)
      /\ \A w \in Pages : Entry2(t.mem, KernelFrame, w) = Entry2(s.mem, KernelFrame, w)
  BY <1>1, <1>3, <1>4, UnmapSmallStep
<1>6. \A w \in Pages : w # p => ~Moved(s.mem, t.mem, w)
  BY <1>5 DEF OnePage
<1>7. Sorted(t.mem)
  BY <1>3, <1>5, HalfOfPages DEF Sorted
<1>8. TlbExact(t)
  <2>1. CASE t.mem = s.mem /\ t.tlb = s.tlb
    BY <1>3, <2>1 DEF TlbExact
  <2>2. CASE t.tlb = flush_tlb_single(s.tlb, p)
    <3> SUFFICES ASSUME NEW e \in t.tlb, NEW v \in e.page .. e.page + e.span - 1
                 PROVE  v \in Pages /\ Translation(t.mem, KernelFrame, v) = e
      BY DEF TlbExact
    <3>1. e \in s.tlb /\ ~Covers(e, p)
      BY <2>2 DEF flush_tlb_single
    <3>2. v \in Pages /\ Translation(s.mem, KernelFrame, v) = e
      BY <1>3, <3>1 DEF TlbExact
    <3>3. v # p
      BY <3>1 DEF Covers
    <3> QED
      BY <1>6, <3>2, <3>3 DEF Moved
  <2> QED
    BY <1>5, <2>1, <2>2 DEF Flushed
<1>9. ImageMapped(t.mem)
  <2> SUFFICES ASSUME NEW i \in 0 .. KernelPages - 1
               PROVE  Walk(t.mem, KernelFrame, KERNEL_BASE + i) = KernelFrame + i
    BY DEF ImageMapped
  <2>1. KERNEL_BASE + i \in Pages /\ KERNEL_BASE + i # p
    BY <1>2, Constants, HalfOfPages DEF Pages, ImageFits
  <2>2. Walk(s.mem, KernelFrame, KERNEL_BASE + i) = KernelFrame + i
    BY <1>3 DEF ImageMapped
  <2> QED
    BY <1>6, <2>1, <2>2, UnmovedWalk
<1>10. Translation(t.mem, KernelFrame, p) = [page |-> p, span |-> 1, frame |-> Nowhere]
  BY <1>5 DEF OnePage
<1>11. Walk(t.mem, KernelFrame, p) = Nowhere
  BY <1>10 DEF Walk
<1>12. \A w \in Pages : Walk(t.mem, KernelFrame, w) =
                          IF w = r.page THEN Nowhere ELSE Walk(s.mem, KernelFrame, w)
  BY <1>1, <1>6, <1>11, UnmovedWalk
<1> QED
  BY <1>5, <1>7, <1>8, <1>9, <1>12 DEF Kernel

(* A block is unmapped and no other page moves.                            *)
LEMMA UnmapLargeSound ==
  ASSUME ImageFits, NEW s, Kernel(s), NEW r, LargeRun(r), NEW t, t = UnmapLarge(s, r, 0)
  PROVE  /\ Kernel(t) /\ t.at # Nowhere
         /\ \A w \in Pages : Walk(t.mem, KernelFrame, w) =
                               IF Within(w, r.page, Fan) THEN Nowhere ELSE Walk(s.mem, KernelFrame, w)
PROOF
<1>1. PICK p \in Pages : p = r.page
  BY DEF LargeRun, RunType
<1>2. p \in Nat /\ p < KERNEL_BASE /\ InLarge(p) /\ Index1(p) = 0
  BY <1>1, Pages4 DEF LargeRun
<1>3. s \in CallType /\ HasTree(s) /\ Sorted(s.mem) /\ TlbExact(s) /\ ImageMapped(s.mem)
  BY DEF Kernel
<1>4. ~IsLink(Entry2(s.mem, KernelFrame, p))
  BY <1>2, <1>3, Constants DEF Sorted
<1>5. t \in CallType /\ HasTree(t) /\ t.at # Nowhere /\ Flushed(s, t, p) /\ OneBlock(s, t, p, Absent)
  BY <1>1, <1>3, <1>4, UnmapLargeStep
<1>6. \A w \in Pages : w \div Fan # p \div Fan =>
        ~Moved(s.mem, t.mem, w) /\ Entry2(t.mem, KernelFrame, w) = Entry2(s.mem, KernelFrame, w)
  BY <1>5 DEF OneBlock
<1>7. \A w \in Pages : w \div Fan = p \div Fan =>
        /\ Entry2(t.mem, KernelFrame, w) = Absent
        /\ Translation(t.mem, KernelFrame, w) = [page |-> w, span |-> 1, frame |-> Nowhere]
  BY <1>5 DEF OneBlock, Absent
<1>8. \A w \in Pages : /\ Within(w, r.page, Fan) <=> w \div Fan = p \div Fan
                       /\ w \div Fan = p \div Fan => w < KERNEL_BASE /\ InLarge(w)
  BY <1>1, LargeRunIsBlock
<1>9. Sorted(t.mem)
  <2> SUFFICES ASSUME NEW w \in 0 .. KERNEL_BASE - 1
               PROVE  IF InLarge(w) THEN ~IsLink(Entry2(t.mem, KernelFrame, w))
                      ELSE ~Entry2(t.mem, KernelFrame, w).large
    BY DEF Sorted
  <2>1. w \in Pages
    BY HalfOfPages
  <2>2. CASE w \div Fan = p \div Fan
    <3>1. Entry2(t.mem, KernelFrame, w) = Absent
      BY <1>7, <2>1, <2>2
    <3>2. ~IsLink(Absent) /\ ~Absent.large
      BY DEF Absent, IsLink, Present
    <3> QED
      BY <3>1, <3>2
  <2>3. CASE w \div Fan # p \div Fan
    <3>1. Entry2(t.mem, KernelFrame, w) = Entry2(s.mem, KernelFrame, w)
      BY <1>6, <2>1, <2>3
    <3> QED
      BY <1>3, <3>1 DEF Sorted
  <2> QED
    BY <2>2, <2>3
(* A cached translation of a page of the block is that of the whole block. *)
<1>10. ASSUME NEW e \in s.tlb, NEW v \in e.page .. e.page + e.span - 1, v \div Fan = p \div Fan
       PROVE  Covers(e, p)
  <2>1. v \in Pages /\ Translation(s.mem, KernelFrame, v) = e
    BY <1>3 DEF TlbExact
  <2>2. e.frame # Nowhere
    BY <1>3, Constants, CallFields DEF Cached
  <2>3. Entry2(s.mem, KernelFrame, v) = Entry2(s.mem, KernelFrame, p)
    BY <1>10, <2>1, BlockEntry
  <2>4. Entry2(s.mem, KernelFrame, v).large
    <3> SUFFICES ASSUME ~Entry2(s.mem, KernelFrame, v).large PROVE FALSE
      OBVIOUS
    <3>1. PICK lv : Tree(s.mem, s.tables, lv)
      BY <1>3 DEF HasTree
    <3>2. Entry1(s.mem, KernelFrame, v) = Absent
      BY <1>4, <2>1, <2>3, <3>1, ChainOfPage DEF Chain, IsLink
    <3>3. e = [page |-> v, span |-> 1, frame |-> Entry1(s.mem, KernelFrame, v).to]
      BY <2>1, TranslationByEntries
    <3> QED
      BY <2>2, <3>2, <3>3 DEF Absent
  <2>5. e = [page |-> v - Index1(v), span |-> Fan, frame |-> Entry2(s.mem, KernelFrame, v).to]
    BY <2>1, <2>4, TranslationByEntries
  <2>6. v \in Nat
    BY <2>1, Pages4
  <2>7. p \in v - Index1(v) .. v - Index1(v) + Fan - 1
    BY <1>2, <1>10, <2>6, BlockOf
  <2> QED
    BY <2>5, <2>7 DEF Covers
<1>11. TlbExact(t)
  <2>1. CASE t.mem = s.mem /\ t.tlb = s.tlb
    BY <1>3, <2>1 DEF TlbExact
  <2>2. CASE t.tlb = flush_tlb_single(s.tlb, p)
    <3> SUFFICES ASSUME NEW e \in t.tlb, NEW v \in e.page .. e.page + e.span - 1
                 PROVE  v \in Pages /\ Translation(t.mem, KernelFrame, v) = e
      BY DEF TlbExact
    <3>1. e \in s.tlb /\ ~Covers(e, p)
      BY <2>2 DEF flush_tlb_single
    <3>2. v \in Pages /\ Translation(s.mem, KernelFrame, v) = e
      BY <1>3, <3>1 DEF TlbExact
    <3>3. v \div Fan # p \div Fan
      BY <1>10, <3>1
    <3> QED
      BY <1>6, <3>2, <3>3 DEF Moved
  <2> QED
    BY <1>5, <2>1, <2>2 DEF Flushed
<1>12. ImageMapped(t.mem)
  <2> SUFFICES ASSUME NEW i \in 0 .. KernelPages - 1
               PROVE  Walk(t.mem, KernelFrame, KERNEL_BASE + i) = KernelFrame + i
    BY DEF ImageMapped
  <2>1. KERNEL_BASE + i \in Pages /\ ~(KERNEL_BASE + i < KERNEL_BASE)
    BY Constants, HalfOfPages DEF Pages, ImageFits
  <2>2. (KERNEL_BASE + i) \div Fan # p \div Fan
    BY <1>8, <2>1
  <2>3. Walk(s.mem, KernelFrame, KERNEL_BASE + i) = KernelFrame + i
    BY <1>3 DEF ImageMapped
  <2> QED
    BY <1>6, <2>1, <2>2, <2>3, UnmovedWalk
<1>13. ASSUME NEW w \in Pages, w \div Fan = p \div Fan PROVE Walk(t.mem, KernelFrame, w) = Nowhere
  <2>1. Translation(t.mem, KernelFrame, w).frame = Nowhere
    <3>1. Translation(t.mem, KernelFrame, w) = [page |-> w, span |-> 1, frame |-> Nowhere]
      BY <1>7, <1>13
    <3> QED
      BY <3>1
  <2> QED
    BY <2>1 DEF Walk
<1>14. \A w \in Pages : Walk(t.mem, KernelFrame, w) =
                          IF Within(w, r.page, Fan) THEN Nowhere ELSE Walk(s.mem, KernelFrame, w)
  BY <1>6, <1>8, <1>13, UnmovedWalk
<1> QED
  BY <1>5, <1>9, <1>11, <1>12, <1>14 DEF Kernel

(***************************************************************************)
(* The boot loader's tables, and their names.                              *)
(***************************************************************************)
BootLoaded == [f \in Frames |-> IF f \in DOMAIN BootMem THEN BootMem[f] ELSE EmptyTable]

AtBoot == BootSound /\ mem = BootLoaded /\ tables = 0

(* The entries on the way through slots i, j and k.                        *)
T1(i) == Entry(mem, BootPml4, i)
T2(i, j) == Entry(mem, T1(i).to, j)
T3(i, j, k) == Entry(mem, T2(i, j).to, k)

LEMMA BootEntries ==
  ASSUME AtBoot
  PROVE  /\ mem \in Memories
         /\ \A f, s : s \in Slots => Entry(mem, f, s) = Entry(BootMem, f, s)
PROOF
<1>1. DOMAIN BootMem \subseteq Frames /\ \A f \in DOMAIN BootMem : BootMem[f] \in [Slots -> EntryType]
  BY DEF AtBoot, BootSound
<1>2. EmptyTable \in [Slots -> EntryType] /\ \A s \in Slots : EmptyTable[s] = Absent
  BY DEF EmptyTable, EntryType, Absent
<1>3. BootLoaded \in Memories
  BY <1>1, <1>2 DEF BootLoaded, Memories
<1>4. DOMAIN BootLoaded = Frames
  BY DEF BootLoaded
<1>5. ASSUME NEW f, NEW s \in Slots PROVE Entry(BootLoaded, f, s) = Entry(BootMem, f, s)
  <2>1. CASE f \in DOMAIN BootMem
    BY <1>1, <1>4, <2>1 DEF Entry, BootLoaded
  <2>2. CASE f \in Frames \ DOMAIN BootMem
    BY <1>2, <1>4, <2>2 DEF Entry, BootLoaded
  <2>3. CASE f \notin Frames
    BY <1>1, <1>4, <2>3 DEF Entry
  <2> QED
    BY <2>1, <2>2, <2>3
<1> QED
  BY <1>3, <1>5 DEF AtBoot

(* What the boot loader's tables say of a page.                            *)
LEMMA BootPage ==
  ASSUME AtBoot, NEW v \in Pages
  PROVE  LET e4 == Entry4(mem, BootPml4, v)
             e3 == Entry3(mem, BootPml4, v)
             e2 == Entry2(mem, BootPml4, v)
             e1 == Entry1(mem, BootPml4, v)
         IN  /\ e4 \in EntryType /\ e3 \in EntryType /\ e2 \in EntryType /\ e1 \in EntryType
             /\ IsLink(e4) => InPlace(e4.to)
             /\ IsLink(e3) => InPlace(e3.to)
             /\ IsLink(e2) => InPlace(e2.to)
             /\ e2.large => Spans(e2)
             /\ ~e4.large /\ ~e3.large
             /\ v \in KERNEL_BASE .. KERNEL_BASE + KernelPages - 1 =>
                  ~e2.large /\ e1.to = KernelFrame + (v - KERNEL_BASE)
PROOF
<1>1. /\ Entry4(mem, BootPml4, v) = Entry4(BootMem, BootPml4, v)
      /\ Entry3(mem, BootPml4, v) = Entry3(BootMem, BootPml4, v)
      /\ Entry2(mem, BootPml4, v) = Entry2(BootMem, BootPml4, v)
      /\ Entry1(mem, BootPml4, v) = Entry1(BootMem, BootPml4, v)
  BY BootEntries, Pages4 DEF Entry4, Entry3, Entry2, Entry1
<1>2. /\ Entry4(mem, BootPml4, v) \in EntryType /\ Entry3(mem, BootPml4, v) \in EntryType
      /\ Entry2(mem, BootPml4, v) \in EntryType /\ Entry1(mem, BootPml4, v) \in EntryType
  BY BootEntries, Pages4, EntryIsTyped DEF Entry4, Entry3, Entry2, Entry1
<1>3. /\ \A e \in {Entry4(mem, BootPml4, v), Entry3(mem, BootPml4, v), Entry2(mem, BootPml4, v)} :
           IsLink(e) => InPlace(e.to)
      /\ Entry2(mem, BootPml4, v).large => Spans(Entry2(mem, BootPml4, v))
      /\ ~Entry4(mem, BootPml4, v).large /\ ~Entry3(mem, BootPml4, v).large
      /\ v \in KERNEL_BASE .. KERNEL_BASE + KernelPages - 1 =>
           /\ ~Entry2(mem, BootPml4, v).large
           /\ Entry1(mem, BootPml4, v).to = KernelFrame + (v - KERNEL_BASE)
  BY <1>1 DEF AtBoot, BootSound
<1> QED
  BY <1>2, <1>3

(* A table that is in its place is found there.                            *)
LEMMA TableInPlace ==
  ASSUME AtBoot, NEW f, InPlace(f)
  PROVE  f \in Pages /\ f \in Nat /\ f # Nowhere /\ f \notin KernelFrames
         /\ Walk(mem, BootPml4, f) = f
PROOF
<1>1. f \in Pages /\ f \notin KernelFrames /\ Walk(BootMem, BootPml4, f) = f
  BY DEF InPlace
<1>2. f \in Nat /\ f # Nowhere
  BY <1>1, Pages4 DEF Nowhere
<1>3. /\ Entry2(mem, BootPml4, f) = Entry2(BootMem, BootPml4, f)
      /\ Entry1(mem, BootPml4, f) = Entry1(BootMem, BootPml4, f)
  BY <1>1, BootEntries, Pages4 DEF Entry4, Entry3, Entry2, Entry1
<1>4. Translation(mem, BootPml4, f) = Translation(BootMem, BootPml4, f)
  BY <1>3, TranslationByEntries
<1> QED
  BY <1>1, <1>2, <1>4 DEF Walk

(* The same, of the slots that lead there.                                 *)
LEMMA BootSlots ==
  ASSUME AtBoot, NEW i \in Upper, NEW j \in Slots, NEW k \in Slots
  PROVE  /\ T1(i) \in EntryType /\ T2(i, j) \in EntryType /\ T3(i, j, k) \in EntryType
         /\ ~T1(i).large /\ ~T2(i, j).large
         /\ T3(i, j, k).large => Spans(T3(i, j, k))
         /\ IsLink(T1(i)) => InPlace(T1(i).to)
         /\ IsLink(T2(i, j)) => InPlace(T2(i, j).to)
         /\ IsLink(T3(i, j, k)) => InPlace(T3(i, j, k).to)
PROOF
<1>1. i \in Slots
  BY DEF Upper
<1>2. PICK v : v = PageAt(i, j, k)
  OBVIOUS
<1>3. /\ v \in Nat /\ v < Fan * Fan * Fan * Fan
      /\ Index4(v) = i /\ Index3(v) = j /\ Index2(v) = k
  BY <1>1, <1>2, IndexesOfPage
<1>4. v \in Pages
  BY <1>3, Powers DEF Pages
<1>5. v >= KERNEL_BASE
  <2>1. Fan \div 2 \in Nat /\ i \in Nat /\ ~(i < Fan \div 2)
    BY FanAssumption DEF Upper, Slots
  <2>2. ~(v < KERNEL_BASE)
    BY <1>3, <2>1, HalfOfPages, FirstIndexBelow
  <2> QED
    BY <1>3, <2>2, HalfOfPages
<1>6. /\ T1(i) = Entry4(mem, BootPml4, v) /\ T2(i, j) = Entry3(mem, BootPml4, v)
      /\ T3(i, j, k) = Entry2(mem, BootPml4, v)
  BY <1>3 DEF T1, T2, T3, Entry4, Entry3, Entry2
<1> QED
  BY <1>4, <1>5, <1>6, BootPage

LEMMA Appended ==
  ASSUME NEW i \in Slots, NEW j \in Slots, NEW k \in Slots
  PROVE  Append(<<i>>, j) = <<i, j>> /\ Append(<<i, j>>, k) = <<i, j, k>>
PROOF
<1>1. Append(<<i>>, j) = <<i, j>>
  <2>1. <<i>> \in Seq(Slots) /\ Len(<<i>>) = 1
    OBVIOUS
  <2>2. PICK a : a = Append(<<i>>, j)
    OBVIOUS
  <2>3. a \in Seq(Slots) /\ Len(a) = 2 /\ a[1] = i /\ a[2] = j
    BY <2>1, <2>2, AppendProperties
  <2>4. PICK b : b = <<i, j>>
    OBVIOUS
  <2>5. b \in Seq(Slots) /\ Len(b) = 2 /\ b[1] = i /\ b[2] = j
    BY <2>4
  <2>6. \A x \in 1 .. Len(a) : a[x] = b[x]
    BY <2>3, <2>5
  <2>7. a = b
    BY <2>3, <2>5, <2>6, SeqEqual
  <2> QED
    BY <2>2, <2>4, <2>7
<1>2. Append(<<i, j>>, k) = <<i, j, k>>
  <2>1. <<i, j>> \in Seq(Slots) /\ Len(<<i, j>>) = 2
    OBVIOUS
  <2>2. PICK a : a = Append(<<i, j>>, k)
    OBVIOUS
  <2>3. a \in Seq(Slots) /\ Len(a) = 3 /\ a[1] = i /\ a[2] = j /\ a[3] = k
    BY <2>1, <2>2, AppendProperties
  <2>4. PICK b : b = <<i, j, k>>
    OBVIOUS
  <2>5. b \in Seq(Slots) /\ Len(b) = 3 /\ b[1] = i /\ b[2] = j /\ b[3] = k
    BY <2>4
  <2>6. \A x \in 1 .. Len(a) : a[x] = b[x]
    BY <2>3, <2>5
  <2>7. a = b
    BY <2>3, <2>5, <2>6, SeqEqual
  <2> QED
    BY <2>2, <2>4, <2>7
<1> QED
  BY <1>1, <1>2

(* A table is named by the slots that lead to it.  The names: those of     *)
(* links under links.                                                      *)
TableAt(name) == TableOf(mem, BootPml4, name)

Names == NamesOf(mem, BootPml4, Upper)

LEMMA NamesAre ==
  /\ \A n \in Names :
       \/ \E i \in Upper : n = <<i>>
       \/ \E i \in Upper : \E j \in Slots : n = <<i, j>>
       \/ \E i \in Upper : \E j, k \in Slots : n = <<i, j, k>>
  /\ \A i \in Upper : <<i>> \in Names <=> IsLink(T1(i))
  /\ \A i \in Upper : \A j \in Slots : <<i, j>> \in Names <=> IsLink(T1(i)) /\ IsLink(T2(i, j))
  /\ \A i \in Upper : \A j, k \in Slots :
       <<i, j, k>> \in Names <=> IsLink(T1(i)) /\ IsLink(T2(i, j)) /\ IsLink(T3(i, j, k))
PROOF
<1> DEFINE n1 == {n \in {<<i>> : i \in Upper} : IsLink(TableAt(n))}
           n2 == {n \in {Append(l, j) : l \in n1, j \in Slots} : IsLink(TableAt(n))}
           n3 == {n \in {Append(l, k) : l \in n2, k \in Slots} : IsLink(TableAt(n))}
<1>1. Names = n1 \cup n2 \cup n3
  BY DEF Names, NamesOf, TableAt
<1>2. \A i, j, k : /\ Len(<<i>>) = 1 /\ Len(<<i, j>>) = 2 /\ Len(<<i, j, k>>) = 3
                   /\ <<i>>[1] = i /\ <<i, j>>[1] = i /\ <<i, j>>[2] = j
                   /\ <<i, j, k>>[1] = i /\ <<i, j, k>>[2] = j /\ <<i, j, k>>[3] = k
  OBVIOUS
<1>3. \A i, j, k : /\ TableAt(<<i>>) = T1(i) /\ TableAt(<<i, j>>) = T2(i, j)
                   /\ TableAt(<<i, j, k>>) = T3(i, j, k)
  BY <1>2 DEF TableAt, TableOf, T1, T2, T3
<1>4. Upper \subseteq Slots
  BY DEF Upper
<1>12. \A n : n \in n1 <=> \E i \in Upper : IsLink(T1(i)) /\ n = <<i>>
  BY <1>3
<1> HIDE DEF n1
<1>5. \A n : n \in n2 <=> \E i \in Upper : \E j \in Slots :
                            IsLink(T1(i)) /\ IsLink(T2(i, j)) /\ n = <<i, j>>
  <2>1. ASSUME NEW n \in n2
        PROVE  \E i \in Upper : \E j \in Slots : IsLink(T1(i)) /\ IsLink(T2(i, j)) /\ n = <<i, j>>
    <3>1. PICK l \in n1, j \in Slots : n = Append(l, j)
      OBVIOUS
    <3>2. PICK i \in Upper : IsLink(T1(i)) /\ l = <<i>>
      BY <1>12, <3>1
    <3>3. n = <<i, j>>
      BY <1>4, <3>1, <3>2, Appended
    <3>4. IsLink(TableAt(n))
      OBVIOUS
    <3> HIDE DEF n2
    <3> QED
      BY <1>3, <3>1, <3>2, <3>3, <3>4
  <2>2. ASSUME NEW i \in Upper, NEW j \in Slots, IsLink(T1(i)), IsLink(T2(i, j))
        PROVE  <<i, j>> \in n2
    <3>1. PICK l : l = <<i>>
      OBVIOUS
    <3>2. l \in n1
      BY <1>12, <2>2, <3>1
    <3>4. Append(l, j) = <<i, j>>
      BY <1>4, <3>1, Appended
    <3>5. IsLink(TableAt(Append(l, j)))
      <4>1. TableAt(Append(l, j)) = T2(i, j)
        BY <1>3, <3>4
      <4> QED
        BY <2>2, <4>1
    <3>7. Append(l, j) \in n2
      BY <3>2, <3>5
    <3> HIDE DEF n2
    <3> QED
      BY <3>4, <3>7
  <2> HIDE DEF n2
  <2> QED
    BY <2>1, <2>2
<1> HIDE DEF n2
<1>6. \A n : n \in n3 <=> \E i \in Upper : \E j, k \in Slots :
                            IsLink(T1(i)) /\ IsLink(T2(i, j)) /\ IsLink(T3(i, j, k)) /\ n = <<i, j, k>>
  <2>1. ASSUME NEW n \in n3
        PROVE  \E i \in Upper : \E j, k \in Slots :
                 IsLink(T1(i)) /\ IsLink(T2(i, j)) /\ IsLink(T3(i, j, k)) /\ n = <<i, j, k>>
    <3>1. PICK l \in n2, k \in Slots : n = Append(l, k)
      OBVIOUS
    <3>2. PICK i \in Upper, j \in Slots : IsLink(T1(i)) /\ IsLink(T2(i, j)) /\ l = <<i, j>>
      BY <1>5, <3>1
    <3>4. IsLink(TableAt(n))
      OBVIOUS
    <3> HIDE DEF n3
    <3>3. n = <<i, j, k>>
      BY <1>4, <3>1, <3>2, Appended
    <3>5. IsLink(T3(i, j, k))
      BY <1>3, <3>3, <3>4
    <3> QED
      BY <3>1, <3>2, <3>3, <3>5
  <2>2. ASSUME NEW i \in Upper, NEW j \in Slots, NEW k \in Slots,
               IsLink(T1(i)), IsLink(T2(i, j)), IsLink(T3(i, j, k))
        PROVE  <<i, j, k>> \in n3
    <3>1. PICK l : l = <<i, j>>
      OBVIOUS
    <3>2. l \in n2
      BY <1>5, <2>2, <3>1
    <3>4. Append(l, k) = <<i, j, k>>
      BY <1>4, <3>1, Appended
    <3>5. IsLink(TableAt(Append(l, k)))
      <4>1. TableAt(Append(l, k)) = T3(i, j, k)
        BY <1>3, <3>4
      <4> QED
        BY <2>2, <4>1
    <3>7. Append(l, k) \in n3
      BY <3>2, <3>5
    <3> HIDE DEF n3
    <3> QED
      BY <3>4, <3>7
  <2> HIDE DEF n3
  <2> QED
    BY <2>1, <2>2
<1> HIDE DEF n3
<1>7. \A n \in Names :
        \/ \E i \in Upper : n = <<i>>
        \/ \E i \in Upper : \E j \in Slots : n = <<i, j>>
        \/ \E i \in Upper : \E j, k \in Slots : n = <<i, j, k>>
  <2> SUFFICES ASSUME NEW n \in Names
               PROVE  \/ \E i \in Upper : n = <<i>>
                      \/ \E i \in Upper : \E j \in Slots : n = <<i, j>>
                      \/ \E i \in Upper : \E j, k \in Slots : n = <<i, j, k>>
    OBVIOUS
  <2>1. n \in n1 \/ n \in n2 \/ n \in n3
    BY <1>1
  <2>2. CASE n \in n1
    BY <1>12, <2>2
  <2>3. CASE n \in n2
    BY <1>5, <2>3
  <2>4. CASE n \in n3
    BY <1>6, <2>4
  <2> QED
    BY <2>1, <2>2, <2>3, <2>4
<1>8. ASSUME NEW i \in Upper PROVE <<i>> \in Names <=> IsLink(T1(i))
  <2>1. <<i>> \notin n2
    BY <1>2, <1>5
  <2>2. <<i>> \notin n3
    BY <1>2, <1>6
  <2>3. <<i>> \in n1 <=> IsLink(T1(i))
    BY <1>2, <1>12
  <2> QED
    BY <1>1, <2>1, <2>2, <2>3
<1>9. ASSUME NEW i \in Upper, NEW j \in Slots
      PROVE  <<i, j>> \in Names <=> IsLink(T1(i)) /\ IsLink(T2(i, j))
  <2>1. <<i, j>> \notin n1
    BY <1>2, <1>12
  <2>2. <<i, j>> \notin n3
    BY <1>2, <1>6
  <2>3. <<i, j>> \in n2 <=> IsLink(T1(i)) /\ IsLink(T2(i, j))
    BY <1>2, <1>5
  <2> QED
    BY <1>1, <2>1, <2>2, <2>3
<1>10. ASSUME NEW i \in Upper, NEW j \in Slots, NEW k \in Slots
       PROVE  <<i, j, k>> \in Names <=> IsLink(T1(i)) /\ IsLink(T2(i, j)) /\ IsLink(T3(i, j, k))
  <2>1. <<i, j, k>> \notin n1
    BY <1>2, <1>12
  <2>2. <<i, j, k>> \notin n2
    BY <1>2, <1>5
  <2>3. <<i, j, k>> \in n3 <=> IsLink(T1(i)) /\ IsLink(T2(i, j)) /\ IsLink(T3(i, j, k))
    BY <1>2, <1>6
  <2> QED
    BY <1>1, <2>1, <2>2, <2>3
<1> QED
  BY <1>7, <1>8, <1>9, <1>10

(* They are as many as there were in what the boot loader left.            *)
LEMMA NamesInBootMem ==
  ASSUME AtBoot
  PROVE  Cardinality(Names) <= HeapTables
PROOF
<1> DEFINE a1 == {n \in {<<i>> : i \in Upper} : IsLink(TableOf(mem, BootPml4, n))}
           a2 == {n \in {Append(l, j) : l \in a1, j \in Slots} : IsLink(TableOf(mem, BootPml4, n))}
           a3 == {n \in {Append(l, k) : l \in a2, k \in Slots} : IsLink(TableOf(mem, BootPml4, n))}
           b1 == {n \in {<<i>> : i \in Upper} : IsLink(TableOf(BootMem, BootPml4, n))}
           b2 == {n \in {Append(l, j) : l \in b1, j \in Slots} : IsLink(TableOf(BootMem, BootPml4, n))}
           b3 == {n \in {Append(l, k) : l \in b2, k \in Slots} : IsLink(TableOf(BootMem, BootPml4, n))}
<1>1. Names = a1 \cup a2 \cup a3 /\ NamesOf(BootMem, BootPml4, Upper) = b1 \cup b2 \cup b3
  BY DEF NamesOf, Names
<1>2. \A f, s : s \in Slots => Entry(mem, f, s) = Entry(BootMem, f, s)
  BY BootEntries
<1>3. Upper \subseteq Slots
  BY DEF Upper
<1>4. \A i, j, k : /\ Len(<<i>>) = 1 /\ Len(<<i, j>>) = 2 /\ Len(<<i, j, k>>) = 3
                   /\ <<i>>[1] = i /\ <<i, j>>[1] = i /\ <<i, j>>[2] = j
                   /\ <<i, j, k>>[1] = i /\ <<i, j, k>>[2] = j /\ <<i, j, k>>[3] = k
  OBVIOUS
<1> DEFINE Same(n) == TableOf(mem, BootPml4, n) = TableOf(BootMem, BootPml4, n)
<1>5. \A i \in Slots : Same(<<i>>)
  BY <1>2, <1>4 DEF TableOf
<1>6. \A i, j \in Slots : Same(<<i, j>>)
  BY <1>2, <1>4 DEF TableOf
<1>7. \A i, j, k \in Slots : Same(<<i, j, k>>)
  BY <1>2, <1>4 DEF TableOf
<1>8. a1 = b1 /\ \A n \in a1 : \E i \in Slots : n = <<i>>
  BY <1>3, <1>5
<1> HIDE DEF a1, b1
<1>9. \A l \in a1 : \A j \in Slots : Same(Append(l, j)) /\ \E i \in Slots : Append(l, j) = <<i, j>>
  <2> SUFFICES ASSUME NEW l \in a1, NEW j \in Slots
               PROVE  Same(Append(l, j)) /\ \E i \in Slots : Append(l, j) = <<i, j>>
    OBVIOUS
  <2>1. PICK i \in Slots : l = <<i>>
    BY <1>8
  <2>2. Append(l, j) = <<i, j>>
    BY <2>1, Appended
  <2>3. Same(<<i, j>>)
    BY <1>6
  <2> QED
    BY <2>2, <2>3
<1>10. a2 = b2 /\ \A n \in a2 : \E i, j \in Slots : n = <<i, j>>
  <2> DEFINE Under(n) == \E l \in a1 : \E j \in Slots : n = Append(l, j)
  <2>6. a1 = b1
    BY <1>8
  <2>1. \A n : n \in a2 <=> Under(n) /\ IsLink(TableOf(mem, BootPml4, n))
    OBVIOUS
  <2>2. \A n : n \in b2 <=> Under(n) /\ IsLink(TableOf(BootMem, BootPml4, n))
    BY <2>6
  <2>5. \A n : Under(n) => Same(n) /\ \E i, j \in Slots : n = <<i, j>>
    <3> HIDE DEF Same
    <3> QED
      BY <1>9
  <2> HIDE DEF a2, b2, Under
  <2>3. \A n : n \in a2 <=> n \in b2
    BY <2>1, <2>2, <2>5
  <2>4. \A n \in a2 : \E i, j \in Slots : n = <<i, j>>
    BY <2>1, <2>5
  <2> QED
    BY <2>3, <2>4
<1> HIDE DEF a2, b2
<1>11. \A l \in a2 : \A k \in Slots : Same(Append(l, k))
  <2> SUFFICES ASSUME NEW l \in a2, NEW k \in Slots
               PROVE  Same(Append(l, k))
    OBVIOUS
  <2>1. PICK i \in Slots, j \in Slots : l = <<i, j>>
    BY <1>10
  <2>2. Append(l, k) = <<i, j, k>>
    BY <2>1, Appended
  <2>3. Same(<<i, j, k>>)
    BY <1>7
  <2> HIDE DEF Same
  <2> QED
    BY <2>2, <2>3
<1>12. a3 = b3
  <2>1. \A n : n \in a3 <=> (\E l \in a2 : \E j \in Slots : n = Append(l, j))
                            /\ IsLink(TableOf(mem, BootPml4, n))
    OBVIOUS
  <2>2. \A n : n \in b3 <=> (\E l \in b2 : \E j \in Slots : n = Append(l, j))
                            /\ IsLink(TableOf(BootMem, BootPml4, n))
    OBVIOUS
  <2> HIDE DEF a3, b3
  <2>3. \A n : n \in a3 <=> n \in b3
    BY <1>10, <1>11, <2>1, <2>2
  <2> QED
    BY <2>3
<1> HIDE DEF a3, b3
<1>13. Names = NamesOf(BootMem, BootPml4, Upper)
  BY <1>1, <1>8, <1>10, <1>12
<1> QED
  BY <1>13 DEF AtBoot, BootSound

(***************************************************************************)
(* The order of the copies.                                                *)
(***************************************************************************)
Digit(name, d) == IF d <= Len(name) THEN name[d] + 1 ELSE 0

Key(name) ==
  (Digit(name, 1) * (Fan + 1) * (Fan + 1)) + (Digit(name, 2) * (Fan + 1)) + Digit(name, 3)

LEMMA DigitsOf ==
  /\ \A n \in Names : Digit(n, 1) \in 0 .. Fan /\ Digit(n, 2) \in 0 .. Fan /\ Digit(n, 3) \in 0 .. Fan
  /\ \A n, m \in Names :
       Digit(n, 1) = Digit(m, 1) /\ Digit(n, 2) = Digit(m, 2) /\ Digit(n, 3) = Digit(m, 3) => n = m
PROOF
<1>1. Fan \in Nat /\ \A i \in Upper : i \in Slots
  BY Powers DEF Upper
<1>2. \A i, j, k : /\ Len(<<i>>) = 1 /\ Len(<<i, j>>) = 2 /\ Len(<<i, j, k>>) = 3
                   /\ <<i>>[1] = i /\ <<i, j>>[1] = i /\ <<i, j>>[2] = j
                   /\ <<i, j, k>>[1] = i /\ <<i, j, k>>[2] = j /\ <<i, j, k>>[3] = k
  OBVIOUS
<1>3. \A i, j, k :
        /\ Digit(<<i>>, 1) = i + 1 /\ Digit(<<i>>, 2) = 0 /\ Digit(<<i>>, 3) = 0
        /\ Digit(<<i, j>>, 1) = i + 1 /\ Digit(<<i, j>>, 2) = j + 1 /\ Digit(<<i, j>>, 3) = 0
        /\ Digit(<<i, j, k>>, 1) = i + 1 /\ Digit(<<i, j, k>>, 2) = j + 1 /\ Digit(<<i, j, k>>, 3) = k + 1
  BY <1>2 DEF Digit
<1>4. \A s \in Slots : s + 1 \in 1 .. Fan /\ s + 1 # 0 /\ \A t \in Slots : s + 1 = t + 1 => s = t
  BY <1>1 DEF Slots
<1>5. ASSUME NEW n \in Names
      PROVE  Digit(n, 1) \in 0 .. Fan /\ Digit(n, 2) \in 0 .. Fan /\ Digit(n, 3) \in 0 .. Fan
  <2>1. 0 \in 0 .. Fan /\ 1 .. Fan \subseteq 0 .. Fan
    BY <1>1
  <2>2. CASE \E i \in Upper : n = <<i>>
    <3>1. PICK i \in Upper : n = <<i>>
      BY <2>2
    <3>2. Digit(n, 1) = i + 1 /\ Digit(n, 2) = 0 /\ Digit(n, 3) = 0
      BY <1>3, <3>1
    <3> QED
      BY <1>1, <1>4, <2>1, <3>2
  <2>3. CASE \E i \in Upper : \E j \in Slots : n = <<i, j>>
    <3>1. PICK i \in Upper, j \in Slots : n = <<i, j>>
      BY <2>3
    <3>2. Digit(n, 1) = i + 1 /\ Digit(n, 2) = j + 1 /\ Digit(n, 3) = 0
      BY <1>3, <3>1
    <3> QED
      BY <1>1, <1>4, <2>1, <3>2
  <2>4. CASE \E i \in Upper : \E j, k \in Slots : n = <<i, j, k>>
    <3>1. PICK i \in Upper, j \in Slots, k \in Slots : n = <<i, j, k>>
      BY <2>4
    <3>2. Digit(n, 1) = i + 1 /\ Digit(n, 2) = j + 1 /\ Digit(n, 3) = k + 1
      BY <1>3, <3>1
    <3> QED
      BY <1>1, <1>4, <2>1, <3>2
  <2> QED
    BY <2>2, <2>3, <2>4, NamesAre
<1>6. ASSUME NEW n \in Names, NEW m \in Names,
             Digit(n, 1) = Digit(m, 1), Digit(n, 2) = Digit(m, 2), Digit(n, 3) = Digit(m, 3)
      PROVE  n = m
  <2>1. CASE \E i \in Upper : n = <<i>>
    <3>1. PICK i \in Upper : n = <<i>>
      BY <2>1
    <3>2. Digit(m, 1) = i + 1 /\ Digit(m, 2) = 0
      BY <1>3, <1>6, <3>1
    <3>3. PICK p \in Upper : m = <<p>>
      <4>1. ~ \E p \in Upper : \E j \in Slots : m = <<p, j>>
        BY <1>3, <1>4, <3>2
      <4>2. ~ \E p \in Upper : \E j, k \in Slots : m = <<p, j, k>>
        BY <1>3, <1>4, <3>2
      <4> QED
        BY <4>1, <4>2, NamesAre
    <3>4. p = i
      BY <1>1, <1>3, <1>4, <3>2, <3>3
    <3> QED
      BY <3>1, <3>3, <3>4
  <2>2. CASE \E i \in Upper : \E j \in Slots : n = <<i, j>>
    <3>1. PICK i \in Upper, j \in Slots : n = <<i, j>>
      BY <2>2
    <3>2. Digit(m, 1) = i + 1 /\ Digit(m, 2) = j + 1 /\ Digit(m, 3) = 0
      BY <1>3, <1>6, <3>1
    <3>3. PICK p \in Upper, q \in Slots : m = <<p, q>>
      <4>1. ~ \E p \in Upper : m = <<p>>
        BY <1>3, <1>4, <3>2
      <4>2. ~ \E p \in Upper : \E q, k \in Slots : m = <<p, q, k>>
        BY <1>3, <1>4, <3>2
      <4> QED
        BY <4>1, <4>2, NamesAre
    <3>4. p = i /\ q = j
      BY <1>1, <1>3, <1>4, <3>2, <3>3
    <3> QED
      BY <3>1, <3>3, <3>4
  <2>3. CASE \E i \in Upper : \E j, k \in Slots : n = <<i, j, k>>
    <3>1. PICK i \in Upper, j \in Slots, k \in Slots : n = <<i, j, k>>
      BY <2>3
    <3>2. Digit(m, 1) = i + 1 /\ Digit(m, 2) = j + 1 /\ Digit(m, 3) = k + 1
      BY <1>3, <1>6, <3>1
    <3>3. PICK p \in Upper, q \in Slots, r \in Slots : m = <<p, q, r>>
      <4>1. ~ \E p \in Upper : m = <<p>>
        BY <1>3, <1>4, <3>2
      <4>2. ~ \E p \in Upper : \E q \in Slots : m = <<p, q>>
        BY <1>3, <1>4, <3>2
      <4> QED
        BY <4>1, <4>2, NamesAre
    <3>4. p = i /\ q = j /\ r = k
      BY <1>1, <1>3, <1>4, <3>2, <3>3
    <3> QED
      BY <3>1, <3>3, <3>4
  <2> QED
    BY <2>1, <2>2, <2>3, NamesAre
<1> QED
  BY <1>5, <1>6

LEMMA KeysDiffer ==
  \E b \in Nat : /\ \A n \in Names : Key(n) \in 0 .. b
                 /\ \A n, m \in Names : Key(n) = Key(m) => n = m
PROOF
<1>1. PICK c \in Nat : c = Fan + 1
  BY Powers
<1>2. c \in Nat \ {0} /\ 0 .. Fan = 0 .. c - 1
  BY <1>1, Powers
<1>3. ASSUME NEW n \in Names
      PROVE  \E a \in Nat : /\ a = c * Digit(n, 1) + Digit(n, 2)
                            /\ Key(n) = c * a + Digit(n, 3) /\ a <= c * c
                            /\ Key(n) \in 0 .. c * c * c + c
  <2>1. PICK x \in 0 .. c - 1, y \in 0 .. c - 1, z \in 0 .. c - 1 :
          x = Digit(n, 1) /\ y = Digit(n, 2) /\ z = Digit(n, 3)
    BY <1>2, DigitsOf
  <2>2. PICK a \in Nat : a = c * x + y
    BY <1>1
  <2>3. Key(n) = (x * c * c) + (y * c) + z
    BY <1>1, <2>1 DEF Key
  <2>4. (x * c * c) + (y * c) = c * a
    BY <1>1, <2>2
  <2>5. a <= c * c
    <3>1. c * (x + 1) <= c * c /\ c * (x + 1) = c * x + c
      BY <1>2
    <3> QED
      BY <1>2, <2>2, <3>1
  <2>6. c * a \in Nat /\ c * a <= c * c * c
    <3>1. c * a <= c * (c * c) /\ c * (c * c) = c * c * c
      BY <1>2, <2>5
    <3> QED
      BY <1>2, <3>1
  <2>7. c * c * c \in Nat
    BY <1>1
  <2>8. Key(n) = c * a + z
    BY <2>3, <2>4
  <2>9. Key(n) \in 0 .. c * c * c + c
    BY <1>2, <2>6, <2>7, <2>8
  <2> QED
    BY <2>1, <2>2, <2>5, <2>8, <2>9
<1>4. ASSUME NEW n \in Names, NEW m \in Names, Key(n) = Key(m) PROVE n = m
  <2>1. PICK a \in Nat, x \in 0 .. c - 1, y \in 0 .. c - 1, z \in 0 .. c - 1 :
          /\ a = c * x + y /\ Key(n) = c * a + z
          /\ x = Digit(n, 1) /\ y = Digit(n, 2) /\ z = Digit(n, 3)
    BY <1>2, <1>3, DigitsOf
  <2>2. PICK b \in Nat, u \in 0 .. c - 1, v \in 0 .. c - 1, w \in 0 .. c - 1 :
          /\ b = c * u + v /\ Key(m) = c * b + w
          /\ u = Digit(m, 1) /\ v = Digit(m, 2) /\ w = Digit(m, 3)
    BY <1>2, <1>3, DigitsOf
  <2>3. c * a + z = c * b + w
    BY <1>4, <2>1, <2>2
  <2>4. a = b /\ z = w
    BY <1>2, <2>3, Digits
  <2>5. x \in Nat /\ u \in Nat /\ c * x + y = c * u + v
    BY <1>2, <2>1, <2>2, <2>4
  <2>6. x = u /\ y = v
    BY <1>2, <2>5, Digits
  <2> QED
    BY <2>1, <2>2, <2>4, <2>6, DigitsOf
<1>5. c * c * c + c \in Nat
  BY <1>1
<1> QED
  BY <1>3, <1>4, <1>5

Rank(name) == Cardinality({n \in Names : Key(n) < Key(name)})

LEMMA Ranks ==
  /\ IsFiniteSet(Names) /\ Cardinality(Names) \in Nat
  /\ \A n \in Names : Rank(n) \in 0 .. Cardinality(Names) - 1
  /\ \A n, m \in Names : Rank(n) = Rank(m) => n = m
  /\ \A i \in 0 .. Cardinality(Names) - 1 : \E n \in Names : Rank(n) = i
PROOF
<1>1. PICK b \in Nat : /\ \A n \in Names : Key(n) \in 0 .. b
                       /\ \A n, m \in Names : Key(n) = Key(m) => n = m
  BY KeysDiffer
<1>2. IsFiniteSet(Names)
  <2>1. IsFiniteSet(0 .. b)
    BY FS_Interval
  <2>2. [n \in Names |-> Key(n)] \in Injection(Names, 0 .. b)
    BY <1>1 DEF Injection, IsInjective
  <2> QED
    BY <2>1, <2>2, FS_Injection
<1>3. PICK c \in Nat : c = Cardinality(Names)
  BY <1>2, FS_CardinalityType
<1> DEFINE Below(x) == {n \in Names : Key(n) < Key(x)}
<1>4. \A x \in Names : IsFiniteSet(Below(x)) /\ Cardinality(Below(x)) \in Nat
  BY <1>2, FS_Subset, FS_CardinalityType
<1>5. \A x \in Names : Rank(x) = Cardinality(Below(x))
  BY DEF Rank
<1>6. ASSUME NEW x \in Names PROVE Rank(x) \in 0 .. c - 1
  <2>1. Below(x) \in SUBSET (Names \ {x})
    BY <1>1
  <2>2. IsFiniteSet(Names \ {x}) /\ Cardinality(Names \ {x}) = c - 1
    BY <1>2, <1>3, FS_RemoveElement
  <2> HIDE DEF Below
  <2>3. Cardinality(Below(x)) <= c - 1
    BY <2>1, <2>2, FS_Subset
  <2> QED
    BY <1>4, <1>5, <2>3
<1>7. ASSUME NEW x \in Names, NEW y \in Names, Key(x) < Key(y) PROVE Rank(x) < Rank(y)
  <2>1. Below(x) \cup {x} \in SUBSET Below(y)
    BY <1>1, <1>7
  <2>2. x \notin Below(x)
    BY <1>1
  <2> HIDE DEF Below
  <2>3. Cardinality(Below(x) \cup {x}) = Cardinality(Below(x)) + 1
    BY <1>4, <2>2, FS_AddElement
  <2>4. Cardinality(Below(x) \cup {x}) <= Cardinality(Below(y))
    BY <1>4, <2>1, FS_Subset
  <2> QED
    BY <1>4, <1>5, <2>3, <2>4
<1>8. ASSUME NEW x \in Names, NEW y \in Names, Rank(x) = Rank(y) PROVE x = y
  <2>1. Key(x) \in Int /\ Key(y) \in Int
    BY <1>1
  <2>2. ~(Key(x) < Key(y)) /\ ~(Key(y) < Key(x))
    BY <1>3, <1>6, <1>7, <1>8
  <2> QED
    BY <1>1, <2>1, <2>2
<1>9. ASSUME NEW i \in 0 .. c - 1 PROVE \E n \in Names : Rank(n) = i
  <2> DEFINE f == [n \in Names |-> Rank(n)]
  <2>1. f \in Injection(Names, 0 .. c - 1)
    BY <1>6, <1>8 DEF Injection, IsInjective
  <2>2. IsFiniteSet(0 .. c - 1) /\ Cardinality(0 .. c - 1) = c
    BY <1>3, FS_Interval
  <2>3. f \in Surjection(Names, 0 .. c - 1)
    <3> HIDE DEF f
    <3> QED
      BY <1>3, <2>1, <2>2, FS_Injection
  <2> QED
    BY <2>3 DEF Surjection
<1> QED
  BY <1>2, <1>3, <1>6, <1>8, <1>9

(* Keys compare as their digits do.                                        *)
Num(a, b, c) == (a * (Fan + 1) * (Fan + 1)) + (b * (Fan + 1)) + c

LEMMA DigitOrder ==
  ASSUME NEW c \in Nat \ {0}, NEW a \in Nat, NEW x \in Nat, NEW b \in 0 .. c - 1, NEW y \in 0 .. c - 1
  PROVE  (a * c) + b \in Nat /\ ((a * c) + b < (x * c) + y <=> a < x \/ (a = x /\ b < y))
PROOF
<1>1. a * c \in Nat /\ x * c \in Nat
  OBVIOUS
<1>2. CASE a < x
  <2>1. (a + 1) * c <= x * c
    BY <1>2
  <2>2. (a + 1) * c = (a * c) + c
    OBVIOUS
  <2>3. PICK p \in Nat, q \in Nat : p = a * c /\ q = x * c
    BY <1>1
  <2>4. p + c <= q
    BY <2>1, <2>2, <2>3
  <2>5. p + b < q + y
    BY <2>4
  <2> QED
    BY <1>2, <2>3, <2>5
<1>3. CASE x < a
  <2>1. (x + 1) * c <= a * c
    BY <1>3
  <2>2. (x + 1) * c = (x * c) + c
    OBVIOUS
  <2>3. PICK p \in Nat, q \in Nat : p = a * c /\ q = x * c
    BY <1>1
  <2>4. q + c <= p
    BY <2>1, <2>2, <2>3
  <2>5. ~(p + b < q + y)
    BY <2>4
  <2> QED
    BY <1>3, <2>3, <2>5
<1>4. CASE a = x
  <2>1. PICK p \in Nat : p = a * c
    BY <1>1
  <2> QED
    BY <1>4, <2>1
<1> QED
  BY <1>2, <1>3, <1>4

LEMMA SumTimes ==
  ASSUME NEW p \in Nat, NEW b \in Nat, NEW c \in Nat
  PROVE  (p + b) * c = (p * c) + (b * c)
OBVIOUS

LEMMA KeyOrder ==
  ASSUME NEW a \in Nat, NEW x \in Nat, NEW b \in 0 .. Fan, NEW y \in 0 .. Fan,
         NEW d \in 0 .. Fan, NEW z \in 0 .. Fan
  PROVE  /\ Num(a, b, d) \in Nat
         /\ Num(a, b, d) < Num(x, y, z) <=> a < x \/ (a = x /\ (b < y \/ (b = y /\ d < z)))
PROOF
<1>1. PICK c \in Nat \ {0} : c = Fan + 1 /\ 0 .. Fan = 0 .. c - 1
  BY Powers
<1>2. PICK u \in Nat, v \in Nat : u = (a * c) + b /\ v = (x * c) + y
  <2>1. (a * c) + b \in Nat /\ (x * c) + y \in Nat
    BY <1>1, DigitOrder
  <2> QED
    BY <2>1
<1>3. Num(a, b, d) = (u * c) + d /\ Num(x, y, z) = (v * c) + z
  <2>1. ((a * c) + b) * c = (a * c * c) + (b * c) /\ ((x * c) + y) * c = (x * c * c) + (y * c)
    <3>1. PICK p \in Nat, q \in Nat : p = a * c /\ q = x * c
      BY <1>1
    <3>2. (p + b) * c = (p * c) + (b * c) /\ (q + y) * c = (q * c) + (y * c)
      BY <1>1, SumTimes, Powers
    <3> QED
      BY <3>1, <3>2
  <2>2. Num(a, b, d) = (a * c * c) + (b * c) + d /\ Num(x, y, z) = (x * c * c) + (y * c) + z
    BY <1>1 DEF Num
  <2> QED
    BY <1>2, <2>1, <2>2
<1>4. u < v <=> a < x \/ (a = x /\ b < y)
  BY <1>1, <1>2, DigitOrder
<1>5. v < u <=> x < a \/ (a = x /\ y < b)
  BY <1>1, <1>2, DigitOrder
<1>6. (u * c) + d \in Nat /\ ((u * c) + d < (v * c) + z <=> u < v \/ (u = v /\ d < z))
  BY <1>1, DigitOrder
<1>7. u = v <=> a = x /\ b = y
  BY <1>1, <1>4, <1>5
<1> QED
  BY <1>3, <1>4, <1>6, <1>7

LEMMA KeyCarries ==
  ASSUME NEW a \in Nat, NEW b \in Nat
  PROVE  /\ Num(a, b, Fan + 1) = Num(a, b + 1, 0)
         /\ Num(a, Fan + 1, 0) = Num(a + 1, 0, 0)
         /\ \A d \in Nat : Num(a, b, d) + 1 = Num(a, b, d + 1)
PROOF
<1>1. PICK c \in Nat : c = Fan + 1
  BY Powers
<1>2. (b + 1) * c = (b * c) + c /\ (a + 1) * c * c = (a * c * c) + (c * c)
  BY <1>1
<1> QED
  BY <1>1, <1>2 DEF Num

LEMMA DigitsOfTuples ==
  \A i, j, k :
    /\ Digit(<<i>>, 1) = i + 1 /\ Digit(<<i>>, 2) = 0 /\ Digit(<<i>>, 3) = 0
    /\ Digit(<<i, j>>, 1) = i + 1 /\ Digit(<<i, j>>, 2) = j + 1 /\ Digit(<<i, j>>, 3) = 0
    /\ Digit(<<i, j, k>>, 1) = i + 1 /\ Digit(<<i, j, k>>, 2) = j + 1 /\ Digit(<<i, j, k>>, 3) = k + 1
PROOF
<1>1. \A i, j, k : /\ Len(<<i>>) = 1 /\ Len(<<i, j>>) = 2 /\ Len(<<i, j, k>>) = 3
                   /\ <<i>>[1] = i /\ <<i, j>>[1] = i /\ <<i, j>>[2] = j
                   /\ <<i, j, k>>[1] = i /\ <<i, j, k>>[2] = j /\ <<i, j, k>>[3] = k
  OBVIOUS
<1> QED
  BY <1>1 DEF Digit

LEMMA KeyIsNum ==
  /\ \A n : Key(n) = Num(Digit(n, 1), Digit(n, 2), Digit(n, 3))
  /\ \A n \in Names : Key(n) \in Nat
PROOF
<1>1. \A n : Key(n) = Num(Digit(n, 1), Digit(n, 2), Digit(n, 3))
  BY DEF Key, Num
<1>2. ASSUME NEW n \in Names PROVE Key(n) \in Nat
  <2>1. Digit(n, 1) \in Nat /\ Digit(n, 2) \in 0 .. Fan /\ Digit(n, 3) \in 0 .. Fan
    BY DigitsOf, Powers
  <2> QED
    BY <1>1, <2>1, KeyOrder
<1> QED
  BY <1>1, <1>2

(* Names by their digits.                                                  *)
LEMMA NameByDigits ==
  ASSUME NEW n \in Names
  PROVE  /\ Digit(n, 1) \in Nat /\ Digit(n, 2) \in 0 .. Fan /\ Digit(n, 3) \in 0 .. Fan
         /\ Digit(n, 1) - 1 \in Upper /\ Digit(n, 1) # 0
         /\ Digit(n, 2) # 0 => Digit(n, 2) - 1 \in Slots
         /\ Digit(n, 3) # 0 => Digit(n, 2) # 0 /\ Digit(n, 3) - 1 \in Slots
         /\ n = IF Digit(n, 2) = 0 THEN <<Digit(n, 1) - 1>>
                ELSE IF Digit(n, 3) = 0 THEN <<Digit(n, 1) - 1, Digit(n, 2) - 1>>
                ELSE <<Digit(n, 1) - 1, Digit(n, 2) - 1, Digit(n, 3) - 1>>
         /\ <<Digit(n, 1) - 1>> \in Names
         /\ Digit(n, 2) # 0 => <<Digit(n, 1) - 1, Digit(n, 2) - 1>> \in Names
PROOF
<1>1. Upper \subseteq Slots /\ Fan \in Nat /\ \A s \in Slots : s \in Nat /\ s + 1 # 0 /\ (s + 1) - 1 = s
  BY Powers DEF Upper, Slots
<1>2. Digit(n, 1) \in Nat /\ Digit(n, 2) \in 0 .. Fan /\ Digit(n, 3) \in 0 .. Fan
  BY <1>1, DigitsOf
<1>3. CASE \E i \in Upper : n = <<i>>
  <2>1. PICK i \in Upper : n = <<i>>
    BY <1>3
  <2>2. Digit(n, 1) = i + 1 /\ Digit(n, 2) = 0 /\ Digit(n, 3) = 0
    BY <2>1, DigitsOfTuples
  <2> QED
    BY <1>1, <1>2, <2>1, <2>2
<1>4. CASE \E i \in Upper : \E j \in Slots : n = <<i, j>>
  <2>1. PICK i \in Upper, j \in Slots : n = <<i, j>>
    BY <1>4
  <2>2. Digit(n, 1) = i + 1 /\ Digit(n, 2) = j + 1 /\ Digit(n, 3) = 0
    BY <2>1, DigitsOfTuples
  <2>3. <<i>> \in Names
    BY <2>1, NamesAre
  <2> QED
    BY <1>1, <1>2, <2>1, <2>2, <2>3
<1>5. CASE \E i \in Upper : \E j, k \in Slots : n = <<i, j, k>>
  <2>1. PICK i \in Upper, j \in Slots, k \in Slots : n = <<i, j, k>>
    BY <1>5
  <2>2. Digit(n, 1) = i + 1 /\ Digit(n, 2) = j + 1 /\ Digit(n, 3) = k + 1
    BY <2>1, DigitsOfTuples
  <2>3. <<i>> \in Names /\ <<i, j>> \in Names
    BY <2>1, NamesAre
  <2> QED
    BY <1>1, <1>2, <2>1, <2>2, <2>3
<1> QED
  BY <1>3, <1>4, <1>5, NamesAre

(***************************************************************************)
(* Pointers, while the boot loader's tables are in use: the copies change  *)
(* the kernel image alone, so they lead where they led.                    *)
(***************************************************************************)
Alike(m) == DOMAIN m = Frames /\ \A f \in Frames \ KernelFrames : m[f] = mem[f]

LEMMA SameBootWays ==
  ASSUME AtBoot, NEW m, Alike(m), NEW v \in Pages
  PROVE  /\ Entry4(m, BootPml4, v) = Entry4(mem, BootPml4, v)
         /\ Entry3(m, BootPml4, v) = Entry3(mem, BootPml4, v)
         /\ Entry2(m, BootPml4, v) = Entry2(mem, BootPml4, v)
         /\ ~Entry2(mem, BootPml4, v).large => Entry1(m, BootPml4, v) = Entry1(mem, BootPml4, v)
         /\ Walk(m, BootPml4, v) = Walk(mem, BootPml4, v)
PROOF
<1>1. mem \in Memories /\ DOMAIN mem = Frames /\ DOMAIN m = Frames
  BY BootEntries DEF Memories, Alike
<1>2. \A f, s : f \notin KernelFrames => Entry(m, f, s) = Entry(mem, f, s)
  BY <1>1 DEF Entry, Alike
<1>3. BootPml4 \notin KernelFrames /\ Nowhere \notin KernelFrames
  BY Constants, TableInPlace DEF AtBoot, BootSound
<1>4. PICK e4, e3, e2 : /\ e4 = Entry4(mem, BootPml4, v) /\ e3 = Entry3(mem, BootPml4, v)
                        /\ e2 = Entry2(mem, BootPml4, v)
  OBVIOUS
<1>5. /\ e4 \in EntryType /\ e3 \in EntryType /\ e2 \in EntryType
      /\ IsLink(e4) => InPlace(e4.to)
      /\ IsLink(e3) => InPlace(e3.to)
      /\ IsLink(e2) => InPlace(e2.to)
      /\ ~e4.large /\ ~e3.large
  BY <1>4, BootPage
<1>6. \A e \in EntryType : (IsLink(e) => InPlace(e.to)) /\ ~e.large => e.to \notin KernelFrames
  <2> SUFFICES ASSUME NEW e \in EntryType, IsLink(e) => InPlace(e.to), ~e.large
               PROVE  e.to \notin KernelFrames
    OBVIOUS
  <2>1. CASE e.to = Nowhere
    BY <1>3, <2>1
  <2>2. CASE e.to # Nowhere
    <3>1. IsLink(e)
      BY <2>2 DEF IsLink, Present
    <3> QED
      BY <3>1, TableInPlace
  <2> QED
    BY <2>1, <2>2
<1>7. Entry4(m, BootPml4, v) = e4
  BY <1>2, <1>3, <1>4 DEF Entry4
<1>8. Entry3(m, BootPml4, v) = e3
  <2>1. e4.to \notin KernelFrames
    BY <1>5, <1>6
  <2> QED
    BY <1>2, <1>4, <1>7, <2>1 DEF Entry3
<1>9. Entry2(m, BootPml4, v) = e2
  <2>1. e3.to \notin KernelFrames
    BY <1>5, <1>6
  <2> QED
    BY <1>2, <1>4, <1>8, <2>1 DEF Entry2
<1>10. ~e2.large => Entry1(m, BootPml4, v) = Entry1(mem, BootPml4, v)
  <2> SUFFICES ASSUME ~e2.large PROVE Entry1(m, BootPml4, v) = Entry1(mem, BootPml4, v)
    OBVIOUS
  <2>1. e2.to \notin KernelFrames
    BY <1>5, <1>6
  <2> QED
    BY <1>2, <1>4, <1>9, <2>1 DEF Entry1
<1>11. Translation(m, BootPml4, v) = Translation(mem, BootPml4, v)
  BY <1>4, <1>9, <1>10, TranslationByEntries
<1>12. Walk(m, BootPml4, v) = Walk(mem, BootPml4, v)
  BY <1>11 DEF Walk
<1> QED
  BY <1>4, <1>7, <1>8, <1>9, <1>10, <1>12

(* A table in its place is where a pointer to it leads.                    *)
LEMMA PointerToTable ==
  ASSUME AtBoot, NEW m, Alike(m), NEW f, InPlace(f)
  PROVE  Deref(m, f) = f
BY TableInPlace, SameBootWays DEF Deref

LEMMA BootPml4InPlace ==
  ASSUME AtBoot
  PROVE  InPlace(BootPml4)
BY DEF AtBoot, BootSound

(* The pages of the image lead to its frames, and virt_to_phys says so.    *)
LEMMA ImagePage ==
  ASSUME AtBoot, NEW i \in 0 .. KernelPages - 1, NEW m, Alike(m)
  PROVE  /\ KERNEL_BASE + i \in Pages
         /\ virt_to_phys(m, KERNEL_BASE + i) = KernelFrame + i
         /\ Walk(m, BootPml4, KERNEL_BASE + i) = KernelFrame + i
         /\ Deref(m, KERNEL_BASE + i) = KernelFrame + i
PROOF
<1>1. PICK v : v = KERNEL_BASE + i
  OBVIOUS
<1>2. /\ v \in Pages /\ v >= KERNEL_BASE /\ v \in KERNEL_BASE .. KERNEL_BASE + KernelPages - 1
      /\ KernelFrame + (v - KERNEL_BASE) = KernelFrame + i
      /\ v - v = 0 /\ (KernelFrame + i) + 0 = KernelFrame + i /\ KernelFrame + i # Nowhere
      /\ v # Nowhere
  BY <1>1, Constants, HalfOfPages DEF Pages, AtBoot, BootSound, Nowhere
<1>3. PICK e4, e3, e2, e1 : /\ e4 = Entry4(m, BootPml4, v) /\ e3 = Entry3(m, BootPml4, v)
                            /\ e2 = Entry2(m, BootPml4, v) /\ e1 = Entry1(m, BootPml4, v)
  OBVIOUS
<1>4. /\ e4 \in EntryType /\ e3 \in EntryType /\ e2 \in EntryType
      /\ ~e4.large /\ ~e3.large /\ ~e2.large /\ e1.to = KernelFrame + i
      /\ IsLink(e4) => InPlace(e4.to)
      /\ IsLink(e3) => InPlace(e3.to)
      /\ IsLink(e2) => InPlace(e2.to)
  BY <1>2, <1>3, BootPage, SameBootWays
<1>5. Present(e1)
  BY <1>2, <1>4 DEF Present
<1>6. Deref(m, BootPml4) = BootPml4
  BY BootPml4InPlace, PointerToTable
<1>7. Deref(m, Nowhere) = Nowhere
  BY DEF Deref
<1>8. \A e \in {e4, e3, e2} : Deref(m, e.to) = e.to /\ (Present(e) => Deref(m, e.to) # Nowhere)
  <2> SUFFICES ASSUME NEW e \in {e4, e3, e2}
               PROVE  Deref(m, e.to) = e.to /\ (Present(e) => Deref(m, e.to) # Nowhere)
    OBVIOUS
  <2>1. ~e.large /\ (IsLink(e) => InPlace(e.to))
    BY <1>4
  <2>2. CASE e.to = Nowhere
    BY <1>7, <2>2 DEF Present
  <2>3. CASE e.to # Nowhere
    <3>1. InPlace(e.to)
      BY <2>1, <2>3 DEF IsLink, Present
    <3> QED
      BY <2>3, <3>1, PointerToTable
  <2> QED
    BY <2>2, <2>3
<1>9. /\ EntryAt(m, BootPml4, Index4(v)) = e4 /\ EntryAt(m, e4.to, Index3(v)) = e3
      /\ EntryAt(m, e3.to, Index2(v)) = e2 /\ EntryAt(m, e2.to, Index1(v)) = e1
  BY <1>3, <1>6, <1>8 DEF EntryAt, Entry4, Entry3, Entry2, Entry1
<1>10. virt_to_phys(m, v) =
         CASE e4.large -> e4.to + (v % (Fan * Fan))
           [] ~e4.large /\ e3.large -> e3.to + (v % Fan)
           [] ~e4.large /\ ~e3.large ->
                IF \E e \in {e4, e3, e2} : Present(e) /\ Deref(m, e.to) = Nowhere THEN Nowhere
                ELSE IF Present(e1) THEN e1.to ELSE 0
  BY <1>9 DEF virt_to_phys
<1>11. virt_to_phys(m, v) = KernelFrame + i
  BY <1>4, <1>5, <1>8, <1>10
<1>12. Translation(m, BootPml4, v) = [page |-> v, span |-> 1, frame |-> KernelFrame + i]
  BY <1>3, <1>4, TranslationByEntries
<1>13. Walk(m, BootPml4, v) = KernelFrame + i
  BY <1>2, <1>12 DEF Walk
<1>14. Deref(m, v) = KernelFrame + i
  BY <1>2, <1>13 DEF Deref
<1> QED
  BY <1>1, <1>2, <1>11, <1>13, <1>14

Copy(name) == KernelFrame + HeapFirst + Rank(name)

LEMMA Copies ==
  ASSUME AtBoot
  PROVE  /\ \A n \in Names :
              /\ Rank(n) < HeapTables /\ HeapFirst + Rank(n) \in 0 .. KernelPages - 1
              /\ HeapPage(Rank(n)) = KERNEL_BASE + (HeapFirst + Rank(n))
              /\ Copy(n) = KernelFrame + (HeapFirst + Rank(n))
              /\ Copy(n) \in Own(Cardinality(Names)) /\ Copy(n) # KernelFrame
         /\ \A n, m \in Names : Copy(n) = Copy(m) => n = m
         /\ \A g \in Own(Cardinality(Names)) \ {KernelFrame} : \E n \in Names : Copy(n) = g
         /\ Cardinality(Names) \in 0 .. HeapTables
PROOF
<1>1. PICK c \in 0 .. HeapTables : c = Cardinality(Names)
  BY Ranks, Constants, NamesInBootMem
<1>2. KernelFrame \in Nat /\ HeapFirst \in Nat \ {0} /\ HeapTables \in Nat
      /\ HeapFirst + HeapTables <= KernelPages /\ KernelPages \in Nat /\ KERNEL_BASE \in Nat
  BY Constants, PagingAssumption
<1>3. ASSUME NEW n \in Names
      PROVE  /\ Rank(n) < HeapTables /\ HeapFirst + Rank(n) \in 0 .. KernelPages - 1
             /\ HeapPage(Rank(n)) = KERNEL_BASE + (HeapFirst + Rank(n))
             /\ Copy(n) = KernelFrame + (HeapFirst + Rank(n))
             /\ Copy(n) \in Own(c) /\ Copy(n) # KernelFrame
  <2>1. PICK r \in 0 .. c - 1 : r = Rank(n)
    BY <1>1, Ranks
  <2>2. HeapFirst + r \in 0 .. KernelPages - 1 /\ r < HeapTables
    BY <1>1, <1>2, <2>1
  <2>3. HeapPage(r) = KERNEL_BASE + (HeapFirst + r)
    BY <1>2, <2>1 DEF HeapPage
  <2>4. Copy(n) = KernelFrame + (HeapFirst + r)
    BY <1>2, <2>1 DEF Copy
  <2>6. Copy(n) \in Own(c)
    BY <2>1 DEF Copy, Own
  <2>7. Copy(n) # KernelFrame
    BY <1>2, <2>1, <2>4
  <2> QED
    BY <2>1, <2>2, <2>3, <2>4, <2>6, <2>7
<1>4. ASSUME NEW n \in Names, NEW m \in Names, Copy(n) = Copy(m) PROVE n = m
  <2>1. PICK r \in 0 .. c - 1, s \in 0 .. c - 1 : r = Rank(n) /\ s = Rank(m)
    BY <1>1, Ranks
  <2>2. r = s
    BY <1>2, <1>4, <2>1 DEF Copy
  <2> QED
    BY <2>1, <2>2, Ranks
<1>5. ASSUME NEW g \in Own(c) \ {KernelFrame} PROVE \E n \in Names : Copy(n) = g
  <2>1. PICK i \in 0 .. c - 1 : g = KernelFrame + HeapFirst + i
    BY DEF Own
  <2>2. PICK n \in Names : Rank(n) = i
    BY <1>1, <2>1, Ranks
  <2> QED
    BY <2>1, <2>2 DEF Copy
<1> QED
  BY <1>1, <1>3, <1>4, <1>5

(***************************************************************************)
(* What the loops of setup_paging have left once the names of keys under K *)
(* are copied.                                                             *)
(***************************************************************************)
NameAt(f) == CHOOSE n \in Names : Copy(n) = f

(* The name of slot s of the copy in frame f.                              *)
SlotName(f, s) == IF f = KernelFrame THEN <<s>> ELSE Append(NameAt(f), s)

Source(f) == IF f = KernelFrame THEN UpperHalf(mem[BootPml4]) ELSE mem[TableAt(NameAt(f)).to]

Before(K, n) == n \in Names /\ Key(n) < K

Held(K) == {KernelFrame} \cup {Copy(n) : n \in {x \in Names : Key(x) < K}}

PartTable(K, f) ==
  [s \in Slots |-> IF Before(K, SlotName(f, s)) THEN Link(Copy(SlotName(f, s))) ELSE Source(f)[s]]

PartMem(K) == [f \in Frames |-> IF f \in Held(K) THEN PartTable(K, f) ELSE mem[f]]

Count(K) == Cardinality({n \in Names : Key(n) < K})

Part(K) ==
  [mem |-> PartMem(K), tables |-> Count(K),
   at |-> IF Count(K) = 0 THEN KERNEL_BASE ELSE HeapPage(Count(K) - 1)]

(***************************************************************************)
(* One round of the loops.                                                 *)
(***************************************************************************)
LEMMA SlotNames ==
  ASSUME AtBoot
  PROVE  /\ \A n \in Names : NameAt(Copy(n)) = n /\ Copy(n) # KernelFrame /\ Copy(n) \in KernelFrames
         /\ \A n \in Names : \A s : SlotName(Copy(n), s) = Append(n, s)
         /\ \A s : SlotName(KernelFrame, s) = <<s>>
         /\ \A n \in Names : \A s \in Slots :
              Append(n, s) \in Names =>
                /\ Key(n) < Key(Append(n, s))
                /\ \A m \in Names : \A t \in Slots : Append(m, t) = Append(n, s) => m = n /\ t = s
                /\ \A t : <<t>> # Append(n, s)
         /\ KernelFrame \in KernelFrames /\ KernelFrames \subseteq Frames
PROOF
<1>1. ASSUME NEW n \in Names
      PROVE  NameAt(Copy(n)) = n /\ Copy(n) # KernelFrame /\ Copy(n) \in KernelFrames
  <2>1. Copy(n) # KernelFrame /\ Copy(n) \in KernelFrames /\ \A m \in Names : Copy(m) = Copy(n) => m = n
    BY Copies, OwnFrames
  <2>2. NameAt(Copy(n)) = n
    BY <2>1 DEF NameAt
  <2> QED
    BY <2>1, <2>2
<1>2. \A n \in Names : \A s : SlotName(Copy(n), s) = Append(n, s)
  BY <1>1 DEF SlotName
<1>3. \A s : SlotName(KernelFrame, s) = <<s>>
  BY DEF SlotName
<1>4. \A n \in Names : n \in Seq(Slots) /\ Len(n) \in {1, 2, 3}
  <2>1. Upper \subseteq Slots
    BY DEF Upper
  <2>2. \A i, j, k \in Slots : /\ <<i>> \in Seq(Slots) /\ Len(<<i>>) = 1
                               /\ <<i, j>> \in Seq(Slots) /\ Len(<<i, j>>) = 2
                               /\ <<i, j, k>> \in Seq(Slots) /\ Len(<<i, j, k>>) = 3
    OBVIOUS
  <2> SUFFICES ASSUME NEW n \in Names PROVE n \in Seq(Slots) /\ Len(n) \in {1, 2, 3}
    OBVIOUS
  <2>3. CASE \E i \in Upper : n = <<i>>
    BY <2>1, <2>2, <2>3
  <2>4. CASE \E i \in Upper : \E j \in Slots : n = <<i, j>>
    BY <2>1, <2>2, <2>4
  <2>5. CASE \E i \in Upper : \E j, k \in Slots : n = <<i, j, k>>
    <3>1. PICK i \in Slots, j \in Slots, k \in Slots : n = <<i, j, k>>
      BY <2>1, <2>5
    <3> QED
      BY <2>2, <3>1
  <2> QED
    BY <2>3, <2>4, <2>5, NamesAre
<1>5. ASSUME NEW n \in Names, NEW s \in Slots, Append(n, s) \in Names PROVE Key(n) < Key(Append(n, s))
  <2>1. PICK a : a = Append(n, s) /\ a \in Names
    BY <1>5
  <2>2. a \in Seq(Slots) /\ Len(a) = Len(n) + 1 /\ a[Len(n) + 1] = s
        /\ \A x \in 1 .. Len(n) : a[x] = n[x]
    BY <1>4, <2>1, AppendProperties
  <2>3. Len(n) \in {1, 2, 3} /\ Len(a) \in {1, 2, 3}
    BY <1>4, <2>1
  <2>4. Len(n) \in {1, 2}
    BY <2>2, <2>3
  <2>5. /\ Digit(a, 1) \in Nat /\ Digit(a, 2) \in 0 .. Fan /\ Digit(a, 3) \in 0 .. Fan
        /\ Digit(n, 1) \in Nat /\ Digit(n, 2) \in 0 .. Fan /\ Digit(n, 3) \in 0 .. Fan
    BY <2>1, DigitsOf, Powers
  <2>6. s \in Nat
    BY Powers DEF Slots
  <2>9. /\ Key(n) = Num(Digit(n, 1), Digit(n, 2), Digit(n, 3))
        /\ Key(a) = Num(Digit(a, 1), Digit(a, 2), Digit(a, 3))
    BY <2>1, KeyIsNum
  <2>10. Key(n) < Key(a) <=>
           \/ Digit(n, 1) < Digit(a, 1)
           \/ Digit(n, 1) = Digit(a, 1) /\ \/ Digit(n, 2) < Digit(a, 2)
                                           \/ Digit(n, 2) = Digit(a, 2) /\ Digit(n, 3) < Digit(a, 3)
    <3>1. PICK x1 \in Nat, x2 \in 0 .. Fan, x3 \in 0 .. Fan :
            x1 = Digit(n, 1) /\ x2 = Digit(n, 2) /\ x3 = Digit(n, 3)
      BY <2>5
    <3>2. PICK y1 \in Nat, y2 \in 0 .. Fan, y3 \in 0 .. Fan :
            y1 = Digit(a, 1) /\ y2 = Digit(a, 2) /\ y3 = Digit(a, 3)
      BY <2>5
    <3>3. Num(x1, x2, x3) < Num(y1, y2, y3) <=>
            x1 < y1 \/ (x1 = y1 /\ (x2 < y2 \/ (x2 = y2 /\ x3 < y3)))
      BY KeyOrder
    <3> QED
      BY <2>9, <3>1, <3>2, <3>3
  <2>7. CASE Len(n) = 1
    <3>1. /\ Digit(a, 1) = Digit(n, 1) /\ Digit(a, 2) = s + 1 /\ Digit(n, 2) = 0
      BY <2>2, <2>7 DEF Digit
    <3> QED
      BY <2>1, <2>5, <2>6, <2>10, <3>1
  <2>8. CASE Len(n) = 2
    <3>1. /\ Digit(a, 1) = Digit(n, 1) /\ Digit(a, 2) = Digit(n, 2)
          /\ Digit(a, 3) = s + 1 /\ Digit(n, 3) = 0
      BY <2>2, <2>8 DEF Digit
    <3> QED
      BY <2>1, <2>5, <2>6, <2>10, <3>1
  <2> QED
    BY <2>1, <2>4, <2>7, <2>8
<1>6. ASSUME NEW n \in Names, NEW s \in Slots, NEW m \in Names, NEW t \in Slots,
             Append(m, t) = Append(n, s)
      PROVE  m = n /\ t = s
  <2>1. PICK a : a = Append(n, s) /\ a = Append(m, t)
    BY <1>6
  <2>7. n \in Seq(Slots) /\ m \in Seq(Slots) /\ Len(n) \in Nat /\ Len(m) \in Nat
    BY <1>4
  <2>8. /\ Len(Append(n, s)) = Len(n) + 1 /\ Append(n, s)[Len(n) + 1] = s
        /\ \A x \in 1 .. Len(n) : Append(n, s)[x] = n[x]
    BY <2>7, AppendProperties
  <2>9. /\ Len(Append(m, t)) = Len(m) + 1 /\ Append(m, t)[Len(m) + 1] = t
        /\ \A x \in 1 .. Len(m) : Append(m, t)[x] = m[x]
    BY <2>7, AppendProperties
  <2>2. Len(a) = Len(n) + 1 /\ a[Len(n) + 1] = s /\ \A x \in 1 .. Len(n) : a[x] = n[x]
    BY <2>1, <2>8
  <2>3. Len(a) = Len(m) + 1 /\ a[Len(m) + 1] = t /\ \A x \in 1 .. Len(m) : a[x] = m[x]
    BY <2>1, <2>9
  <2>4. Len(n) = Len(m)
    BY <2>2, <2>3, <2>7
  <2>5. \A x \in 1 .. Len(n) : n[x] = m[x]
    BY <2>2, <2>3, <2>4
  <2>6. n = m
    BY <2>4, <2>5, <2>7, SeqEqual
  <2> QED
    BY <2>2, <2>3, <2>4, <2>6
<1>7. ASSUME NEW n \in Names, NEW s \in Slots, NEW t PROVE <<t>> # Append(n, s)
  <2>1. PICK a : a = Append(n, s)
    OBVIOUS
  <2>2. Len(a) = Len(n) + 1 /\ Len(n) \in {1, 2, 3}
    BY <1>4, <2>1, AppendProperties
  <2>3. Len(a) # 1
    BY <2>2
  <2>4. Len(<<t>>) = 1
    OBVIOUS
  <2> QED
    BY <2>1, <2>3, <2>4
<1>8. KernelFrame \in KernelFrames /\ KernelFrames \subseteq Frames
  BY Constants
<1> QED
  BY <1>1, <1>2, <1>3, <1>5, <1>6, <1>7, <1>8

(* The copies are the kernel's own frames, so the way to them is as it was. *)
LEMMA PartAlike ==
  ASSUME AtBoot, NEW K
  PROVE  Alike(PartMem(K)) /\ Held(K) \subseteq KernelFrames /\ Held(K) \subseteq Frames
PROOF
<1>1. Held(K) \subseteq KernelFrames /\ KernelFrames \subseteq Frames
  BY SlotNames DEF Held
<1> QED
  BY <1>1 DEF Alike, PartMem

(* What the loops read in a copy, where no name under it is copied yet.    *)
LEMMA EntryOfCopy ==
  ASSUME AtBoot, NEW K, NEW g \in Held(K), NEW i \in Slots, ~Before(K, SlotName(g, i)),
         NEW p, Deref(PartMem(K), p) = g
  PROVE  EntryAt(PartMem(K), p, i) = Source(g)[i]
PROOF
<1>1. g \in Frames /\ DOMAIN PartMem(K) = Frames
  BY PartAlike DEF Alike
<1>2. PartMem(K)[g] = PartTable(K, g)
  BY <1>1 DEF PartMem
<1>3. PartTable(K, g)[i] = Source(g)[i]
  BY DEF PartTable
<1> QED
  BY <1>1, <1>2, <1>3 DEF EntryAt, Entry

(* What is held and what is before, as the keys go on.                     *)
LEMMA NextKey ==
  ASSUME AtBoot, NEW n \in Names
  PROVE  /\ \A m : Before(Key(n) + 1, m) <=> Before(Key(n), m) \/ m = n
         /\ Held(Key(n) + 1) = Held(Key(n)) \cup {Copy(n)}
         /\ Count(Key(n)) = Rank(n) /\ Count(Key(n) + 1) = Rank(n) + 1
         /\ Rank(n) \in Nat
         /\ Copy(n) \notin Held(Key(n))
PROOF
<1>1. \A m \in Names : Key(m) \in Nat /\ (Key(m) = Key(n) => m = n)
  BY KeyIsNum, KeysDiffer
<1>2. \A m \in Names : Key(m) < Key(n) + 1 <=> Key(m) < Key(n) \/ m = n
  BY <1>1
<1>3. \A m : Before(Key(n) + 1, m) <=> Before(Key(n), m) \/ m = n
  BY <1>2 DEF Before
<1> DEFINE A == {m \in Names : Key(m) < Key(n)}
<1>4. {m \in Names : Key(m) < Key(n) + 1} = A \cup {n}
  BY <1>2
<1>5. Held(Key(n) + 1) = Held(Key(n)) \cup {Copy(n)}
  BY <1>2 DEF Held
<1>6. n \notin A
  BY <1>1
<1>7. IsFiniteSet(A)
  BY Ranks, FS_Subset
<1>8. Count(Key(n)) = Cardinality(A) /\ Rank(n) = Cardinality(A) /\ Count(Key(n) + 1) = Cardinality(A \cup {n})
  BY <1>4 DEF Count, Rank
<1>9. Copy(n) \notin Held(Key(n))
  <2>1. \A m \in A : m # n /\ m \in Names
    BY <1>6
  <2>2. \A m \in A : Copy(m) # Copy(n)
    BY <2>1, Copies
  <2> QED
    BY <2>2, Copies DEF Held
<1> HIDE DEF A
<1>10. Cardinality(A \cup {n}) = Cardinality(A) + 1 /\ Cardinality(A) \in Nat
  BY <1>6, <1>7, FS_AddElement, FS_CardinalityType
<1> QED
  BY <1>3, <1>5, <1>8, <1>9, <1>10

(* A link in slot i of the copy in frame g is turned to the copy of the    *)
(* table it led to.                                                        *)
LEMMA CopyOne ==
  ASSUME AtBoot, NEW n \in Names, NEW g \in Held(Key(n)), NEW i \in Slots, SlotName(g, i) = n,
         NEW p, Deref(PartMem(Key(n)), p) = g, p \in Pages,
         Source(g)[i] = TableAt(n), InPlace(TableAt(n).to), TableAt(n).to \in Frames
  PROVE  CopyLink(Part(Key(n)), p, i) = Part(Key(n) + 1)
PROOF
<1> DEFINE K == Key(n)
           M == PartMem(K)
           a == Part(K)
           new == HeapPage(Rank(n))
           from == TableAt(n).to
<1>1. /\ a.mem = M /\ a.tables = Rank(n)
      /\ a = [mem |-> M, tables |-> Rank(n), at |-> a.at]
  BY NextKey DEF Part
<1>2. /\ Rank(n) \in Nat /\ Rank(n) < HeapTables
      /\ HeapFirst + Rank(n) \in 0 .. KernelPages - 1
      /\ new = KERNEL_BASE + (HeapFirst + Rank(n)) /\ Copy(n) = KernelFrame + (HeapFirst + Rank(n))
  BY NextKey, Copies
<1>3. Alike(M) /\ DOMAIN M = Frames /\ g \in Frames /\ g \in KernelFrames /\ Copy(n) \in KernelFrames
      /\ Copy(n) \in Frames /\ Copy(n) # g
  BY PartAlike, SlotNames, NextKey DEF Alike
<1>4. NewPage(a) = new
  BY <1>1, <1>2 DEF NewPage
<1>5. EntryAt(M, p, i).to = from
  <2>1. ~Before(K, SlotName(g, i))
    BY KeyIsNum DEF Before
  <2> QED
    BY <2>1, EntryOfCopy
<1>6. Deref(M, new) = Copy(n) /\ Deref(M, from) = from /\ new \in Pages
  BY <1>2, <1>3, ImagePage, PointerToTable
<1>7. Copy(n) # Nowhere /\ from # Nowhere /\ from \notin KernelFrames /\ new # Nowhere
  BY <1>3, <1>6, Constants, TableInPlace, Pages4 DEF Nowhere
<1>8. M[from] = mem[from]
  BY <1>3, <1>7 DEF Alike
<1> DEFINE filled == [mem |-> [M EXCEPT ![Copy(n)] = mem[from]], tables |-> Rank(n) + 1, at |-> new]
<1> HIDE DEF a, new, from, M, K
<1>9. [a EXCEPT !.tables = IF @ < HeapTables THEN @ + 1 ELSE @] =
        [mem |-> M, tables |-> Rank(n) + 1, at |-> a.at]
  BY <1>1, <1>2
<1>10. memcpy([mem |-> M, tables |-> Rank(n) + 1, at |-> a.at], new, from) = filled
  BY <1>6, <1>7, <1>8 DEF memcpy
<1>11. Alike(filled.mem) /\ DOMAIN filled.mem = Frames
  BY <1>3 DEF Alike
<1>12. virt_to_phys(filled.mem, new) = Copy(n)
  <2> HIDE DEF filled
  <2> QED
    BY <1>2, <1>11, ImagePage
<1>13. Deref(filled.mem, p) = g
  <2>1. Deref(M, p) = Deref(filled.mem, p)
    <3>1. Walk(M, BootPml4, p) = Walk(mem, BootPml4, p)
      BY <1>3, SameBootWays
    <3>2. Walk(filled.mem, BootPml4, p) = Walk(mem, BootPml4, p)
      BY <1>11, SameBootWays
    <3> QED
      BY <3>1, <3>2 DEF Deref
  <2> QED
    BY <2>1 DEF M, K
<1>14. CopyLink(a, p, i) = [filled EXCEPT !.mem[g][i] = Link(Copy(n))]
  <2>1. CopyLink(a, p, i) =
          IF filled.at = Nowhere \/ virt_to_phys(filled.mem, new) = Nowhere
          THEN [filled EXCEPT !.at = Nowhere]
          ELSE [filled EXCEPT !.mem[Deref(filled.mem, p)][i] = Link(virt_to_phys(filled.mem, new))]
    BY <1>1, <1>4, <1>5, <1>9, <1>10 DEF CopyLink
  <2>2. filled.at # Nowhere
    BY <1>7
  <2> HIDE DEF filled
  <2> QED
    BY <1>7, <1>12, <1>13, <2>1, <2>2
(* The frames, as they should be now.                                      *)
<1> DEFINE after == [[M EXCEPT ![Copy(n)] = mem[from]] EXCEPT ![g][i] = Link(Copy(n))]
<1>15. [filled EXCEPT !.mem[g][i] = Link(Copy(n))] =
         [mem |-> after, tables |-> Rank(n) + 1, at |-> new]
  OBVIOUS
<1>16. ASSUME NEW f \in Frames PROVE after[f] = PartMem(K + 1)[f]
  <2>1. PartMem(K + 1)[f] = IF f \in Held(K) \/ f = Copy(n) THEN PartTable(K + 1, f) ELSE mem[f]
    BY NextKey DEF PartMem, K
  <2>2. M[f] = IF f \in Held(K) THEN PartTable(K, f) ELSE mem[f]
    BY DEF M, PartMem
  <2>3. \A m : Before(K + 1, m) <=> Before(K, m) \/ m = n
    BY NextKey DEF K
  <2>4. CASE f = Copy(n)
    <3>1. after[f] = mem[from]
      BY <1>3, <2>4
    <3>2. \A s \in Slots : ~Before(K + 1, SlotName(f, s))
      <4> SUFFICES ASSUME NEW s \in Slots, Before(K + 1, SlotName(f, s)) PROVE FALSE
        OBVIOUS
      <4>4. SlotName(f, s) = Append(n, s)
        BY <2>4, SlotNames
      <4>1. SlotName(f, s) = Append(n, s) /\ Append(n, s) \in Names
        BY <4>4 DEF Before
      <4>2. K < Key(Append(n, s))
        BY <4>1, SlotNames DEF K
      <4>3. K \in Nat /\ Key(Append(n, s)) \in Nat
        BY <4>1, KeyIsNum DEF K
      <4> QED
        BY <4>1, <4>2, <4>3 DEF Before
    <3>3. Source(f) = mem[from]
      BY <2>4, SlotNames DEF Source, from
    <3>4. mem[from] = [s \in Slots |-> mem[from][s]]
      <4>1. from \in Frames
        BY DEF from
      <4> QED
        BY <4>1, BootEntries DEF Memories
    <3>5. PartTable(K + 1, f) = [s \in Slots |-> mem[from][s]]
      BY <3>2, <3>3 DEF PartTable
    <3> QED
      BY <2>1, <2>4, <3>1, <3>4, <3>5
  <2>5. CASE f = g
    <3>1. M[f] = PartTable(K, f) /\ f \in Held(K)
      BY <2>2, <2>5 DEF K
    <3>2. after[f] = [PartTable(K, f) EXCEPT ![i] = Link(Copy(n))]
      BY <1>3, <2>5, <3>1
    <3>3. \A s \in Slots : SlotName(f, s) = n <=> s = i
      <4>1. CASE f = KernelFrame
        <5>1. \A s : SlotName(f, s) = <<s>>
          BY <4>1, SlotNames
        <5> QED
          BY <2>5, <5>1
      <4>2. CASE f # KernelFrame
        <5>1. PICK m \in Names : f = Copy(m)
          BY <3>1, <4>2 DEF Held
        <5>2. \A s : SlotName(f, s) = Append(m, s)
          BY <5>1, SlotNames
        <5>3. Append(m, i) = n
          BY <2>5, <5>2
        <5> QED
          BY <5>2, <5>3, SlotNames
      <4> QED
        BY <4>1, <4>2
    <3>4. ASSUME NEW s \in Slots
          PROVE  PartTable(K + 1, f)[s] = IF s = i THEN Link(Copy(n)) ELSE PartTable(K, f)[s]
      <4>1. PartTable(K + 1, f)[s] =
              IF Before(K + 1, SlotName(f, s)) THEN Link(Copy(SlotName(f, s))) ELSE Source(f)[s]
        BY DEF PartTable
      <4>2. PartTable(K, f)[s] =
              IF Before(K, SlotName(f, s)) THEN Link(Copy(SlotName(f, s))) ELSE Source(f)[s]
        BY DEF PartTable
      <4> QED
        BY <2>3, <3>3, <4>1, <4>2
    <3>5. PartTable(K + 1, f) = [PartTable(K, f) EXCEPT ![i] = Link(Copy(n))]
      <4>1. /\ PartTable(K + 1, f) = [s \in Slots |-> PartTable(K + 1, f)[s]]
            /\ PartTable(K, f) = [s \in Slots |-> PartTable(K, f)[s]]
        BY DEF PartTable
      <4> QED
        BY <3>4, <4>1
    <3> QED
      BY <2>1, <3>1, <3>2, <3>5
  <2>6. CASE f # g /\ f # Copy(n)
    <3>1. after[f] = M[f]
      BY <1>3, <2>6
    <3>2. ASSUME f \in Held(K), NEW s \in Slots PROVE SlotName(f, s) # n
      <4>1. CASE f = KernelFrame
        <5>1. SlotName(f, s) = <<s>>
          BY <4>1, SlotNames
        <5>2. PICK m \in Names : g = Copy(m)
          BY <2>6, <4>1 DEF Held
        <5>3. n = Append(m, i)
          BY <5>2, SlotNames
        <5> QED
          BY <5>1, <5>3, SlotNames
      <4>2. CASE f # KernelFrame
        <5>1. PICK m \in Names : f = Copy(m)
          BY <3>2, <4>2 DEF Held
        <5>2. SlotName(f, s) = Append(m, s)
          BY <5>1, SlotNames
        <5>3. CASE g = KernelFrame
          <6>1. n = <<i>> /\ n \in Names
            BY <5>3, SlotNames
          <6>2. \A q \in Names : \A r \in Slots : Append(q, r) \in Names => \A t : <<t>> # Append(q, r)
            BY SlotNames
          <6>3. Append(m, s) \in Names => Append(m, s) # <<i>>
            BY <6>2
          <6> QED
            BY <5>2, <6>1, <6>3
        <5>4. CASE g # KernelFrame
          <6>1. PICK q \in Names : g = Copy(q)
            BY <5>4 DEF Held
          <6>2. n = Append(q, i) /\ q # m
            BY <2>6, <5>1, <6>1, SlotNames
          <6> QED
            BY <5>2, <6>2, SlotNames
        <5> QED
          BY <5>3, <5>4
      <4> QED
        BY <4>1, <4>2
    <3>3. f \in Held(K) => PartTable(K + 1, f) = PartTable(K, f)
      <4> SUFFICES ASSUME f \in Held(K) PROVE PartTable(K + 1, f) = PartTable(K, f)
        OBVIOUS
      <4>1. \A s \in Slots : Before(K + 1, SlotName(f, s)) <=> Before(K, SlotName(f, s))
        BY <2>3, <3>2
      <4> QED
        BY <4>1 DEF PartTable
    <3> QED
      BY <2>1, <2>2, <2>6, <3>1, <3>3
  <2> QED
    BY <2>4, <2>5, <2>6
<1>17. after = PartMem(K + 1)
  <2>1. after = [f \in Frames |-> after[f]]
    BY <1>3
  <2>2. PartMem(K + 1) = [f \in Frames |-> PartMem(K + 1)[f]]
    BY DEF PartMem
  <2> HIDE DEF after
  <2> QED
    BY <1>16, <2>1, <2>2
<1>18. Part(K + 1) = [mem |-> PartMem(K + 1), tables |-> Rank(n) + 1, at |-> new]
  <2>1. Count(K + 1) = Rank(n) + 1 /\ Rank(n) + 1 # 0 /\ (Rank(n) + 1) - 1 = Rank(n)
    BY <1>2, NextKey DEF K
  <2> QED
    BY <2>1 DEF Part, new
<1> QED
  BY <1>14, <1>15, <1>17, <1>18 DEF a, K

(***************************************************************************)
(* The loops, one inside the other.                                        *)
(***************************************************************************)
LEMMA KeyCompare ==
  ASSUME NEW n \in Names, NEW x \in Nat, NEW y \in 0 .. Fan, NEW z \in 0 .. Fan
  PROVE  /\ Key(n) \in Nat /\ Num(x, y, z) \in Nat
         /\ Key(n) < Num(x, y, z) <=>
              \/ Digit(n, 1) < x
              \/ Digit(n, 1) = x /\ (Digit(n, 2) < y \/ (Digit(n, 2) = y /\ Digit(n, 3) < z))
         /\ Num(x, y, z) < Key(n) <=>
              \/ x < Digit(n, 1)
              \/ x = Digit(n, 1) /\ (y < Digit(n, 2) \/ (y = Digit(n, 2) /\ z < Digit(n, 3)))
PROOF
<1>1. PICK a \in Nat, b \in 0 .. Fan, d \in 0 .. Fan :
        a = Digit(n, 1) /\ b = Digit(n, 2) /\ d = Digit(n, 3)
  BY NameByDigits
<1>2. Key(n) = Num(a, b, d)
  BY <1>1, KeyIsNum
<1>3. Num(a, b, d) \in Nat /\ Num(x, y, z) \in Nat
  BY KeyOrder
<1>4. Num(a, b, d) < Num(x, y, z) <=> a < x \/ (a = x /\ (b < y \/ (b = y /\ d < z)))
  BY KeyOrder
<1>5. Num(x, y, z) < Num(a, b, d) <=> x < a \/ (x = a /\ (y < b \/ (y = b /\ z < d)))
  BY KeyOrder
<1> QED
  BY <1>1, <1>2, <1>3, <1>4, <1>5

LEMMA SamePart ==
  ASSUME NEW K, NEW L, \A n \in Names : Key(n) < K <=> Key(n) < L
  PROVE  Part(K) = Part(L)
PROOF
<1>1. \A n : Before(K, n) <=> Before(L, n)
  BY DEF Before
<1>2. {n \in Names : Key(n) < K} = {n \in Names : Key(n) < L}
  OBVIOUS
<1>3. Held(K) = Held(L) /\ Count(K) = Count(L)
  BY <1>2 DEF Held, Count
<1>4. \A f : PartTable(K, f) = PartTable(L, f)
  BY <1>1 DEF PartTable
<1> QED
  BY <1>3, <1>4 DEF Part, PartMem

(* Where no table hangs, the keys go on over nothing.                      *)
LEMMA NothingUnder ==
  /\ \A i \in Upper : <<i>> \notin Names => Part(Num(i + 1, 0, 0)) = Part(Num((i + 1) + 1, 0, 0))
  /\ \A i \in Upper : Part(Num(i + 1, 0, 1)) = Part(Num(i + 1, 1, 0))
  /\ \A i \in Upper : \A j \in Slots :
       <<i, j>> \notin Names => Part(Num(i + 1, j + 1, 0)) = Part(Num(i + 1, (j + 1) + 1, 0))
  /\ \A i \in Upper : \A j, k \in Slots :
       <<i, j, k>> \notin Names =>
         Part(Num(i + 1, j + 1, k + 1)) = Part(Num(i + 1, j + 1, (k + 1) + 1))
PROOF
<1>1. /\ Fan \in Nat \ {0, 1} /\ Upper \subseteq Slots /\ 0 \in 0 .. Fan /\ 1 \in 0 .. Fan /\ Fan \in 0 .. Fan
      /\ \A s \in Slots : s \in Nat /\ s + 1 \in Nat /\ s + 1 \in 0 .. Fan /\ (s + 1) + 1 \in Nat /\ (s + 1) - 1 = s
  BY FanAssumption DEF Upper, Slots
<1>2. ASSUME NEW i \in Upper, <<i>> \notin Names
      PROVE  Part(Num(i + 1, 0, 0)) = Part(Num((i + 1) + 1, 0, 0))
  <2> SUFFICES ASSUME NEW n \in Names
               PROVE  Key(n) < Num(i + 1, 0, 0) <=> Key(n) < Num((i + 1) + 1, 0, 0)
    BY SamePart
  <2>1. i + 1 \in Nat /\ (i + 1) + 1 \in Nat /\ (i + 1) - 1 = i
    BY <1>1
  <2>2. Digit(n, 1) \in Nat /\ Digit(n, 2) \in 0 .. Fan /\ Digit(n, 3) \in 0 .. Fan
        /\ Digit(n, 1) # i + 1
    BY <1>2, <2>1, NameByDigits
  <2>3. Key(n) < Num(i + 1, 0, 0) <=> Digit(n, 1) < i + 1
    BY <1>1, <2>1, <2>2, KeyCompare
  <2>4. Key(n) < Num((i + 1) + 1, 0, 0) <=> Digit(n, 1) < (i + 1) + 1
    <3>1. PICK x \in Nat : x = (i + 1) + 1
      BY <2>1
    <3>2. Key(n) < Num(x, 0, 0) <=>
              \/ Digit(n, 1) < x
              \/ Digit(n, 1) = x /\ (Digit(n, 2) < 0 \/ (Digit(n, 2) = 0 /\ Digit(n, 3) < 0))
      BY <1>1, KeyCompare
    <3>3. ~(Digit(n, 2) < 0) /\ ~(Digit(n, 3) < 0)
      BY <1>1, <2>2
    <3> QED
      BY <3>1, <3>2, <3>3
  <2> QED
    BY <2>1, <2>2, <2>3, <2>4
<1>3. ASSUME NEW i \in Upper PROVE Part(Num(i + 1, 0, 1)) = Part(Num(i + 1, 1, 0))
  <2> SUFFICES ASSUME NEW n \in Names
               PROVE  Key(n) < Num(i + 1, 0, 1) <=> Key(n) < Num(i + 1, 1, 0)
    BY SamePart
  <2>1. i + 1 \in Nat
    BY <1>1
  <2>2. /\ Digit(n, 1) \in Nat /\ Digit(n, 2) \in 0 .. Fan /\ Digit(n, 3) \in 0 .. Fan
        /\ Digit(n, 2) = 0 => Digit(n, 3) = 0
    BY NameByDigits
  <2>3. Key(n) < Num(i + 1, 0, 1) <=>
          \/ Digit(n, 1) < i + 1
          \/ Digit(n, 1) = i + 1 /\ (Digit(n, 2) < 0 \/ (Digit(n, 2) = 0 /\ Digit(n, 3) < 1))
    BY <1>1, <2>1, KeyCompare
  <2>4. Key(n) < Num(i + 1, 1, 0) <=>
          \/ Digit(n, 1) < i + 1
          \/ Digit(n, 1) = i + 1 /\ (Digit(n, 2) < 1 \/ (Digit(n, 2) = 1 /\ Digit(n, 3) < 0))
    BY <1>1, <2>1, KeyCompare
  <2> QED
    BY <2>1, <2>2, <2>3, <2>4
<1>4. ASSUME NEW i \in Upper, NEW j \in Slots, <<i, j>> \notin Names
      PROVE  Part(Num(i + 1, j + 1, 0)) = Part(Num(i + 1, (j + 1) + 1, 0))
  <2> SUFFICES ASSUME NEW n \in Names
               PROVE  Key(n) < Num(i + 1, j + 1, 0) <=> Key(n) < Num(i + 1, (j + 1) + 1, 0)
    BY SamePart
  <2>1. i + 1 \in Nat /\ j + 1 \in 0 .. Fan /\ (i + 1) - 1 = i /\ (j + 1) - 1 = j /\ j + 1 # 0 /\ j + 1 \in Nat
    BY <1>1
  <2>2. Digit(n, 1) \in Nat /\ Digit(n, 2) \in 0 .. Fan /\ Digit(n, 3) \in 0 .. Fan
        /\ ~(Digit(n, 1) = i + 1 /\ Digit(n, 2) = j + 1)
    BY <1>4, <2>1, NameByDigits
  <2>3. Key(n) < Num(i + 1, j + 1, 0) <=>
          Digit(n, 1) < i + 1 \/ (Digit(n, 1) = i + 1 /\ Digit(n, 2) < j + 1)
    BY <1>1, <2>1, <2>2, KeyCompare
  <2>4. Num(i + 1, j + 1, Fan) < Key(n) <=>
          i + 1 < Digit(n, 1) \/ (i + 1 = Digit(n, 1) /\ j + 1 < Digit(n, 2))
    BY <1>1, <2>1, <2>2, KeyCompare
  <2>5. Num(i + 1, (j + 1) + 1, 0) = Num(i + 1, j + 1, Fan) + 1
    BY <1>1, <2>1, KeyCarries
  <2>6. Num(i + 1, j + 1, Fan) \in Nat /\ Key(n) \in Nat
    BY <1>1, <2>1, KeyCompare
  <2> QED
    BY <2>1, <2>2, <2>3, <2>4, <2>5, <2>6
<1>5. ASSUME NEW i \in Upper, NEW j \in Slots, NEW k \in Slots, <<i, j, k>> \notin Names
      PROVE  Part(Num(i + 1, j + 1, k + 1)) = Part(Num(i + 1, j + 1, (k + 1) + 1))
  <2> SUFFICES ASSUME NEW n \in Names
               PROVE  Key(n) < Num(i + 1, j + 1, k + 1) <=> Key(n) < Num(i + 1, j + 1, (k + 1) + 1)
    BY SamePart
  <2>1. i + 1 \in Nat /\ j + 1 \in 0 .. Fan /\ k + 1 \in 0 .. Fan /\ (i + 1) - 1 = i /\ (j + 1) - 1 = j
        /\ (k + 1) - 1 = k /\ j + 1 # 0 /\ k + 1 # 0 /\ j + 1 \in Nat /\ k + 1 \in Nat
    BY <1>1
  <2>2. Digit(n, 1) \in Nat /\ Digit(n, 2) \in 0 .. Fan /\ Digit(n, 3) \in 0 .. Fan
        /\ ~(Digit(n, 1) = i + 1 /\ Digit(n, 2) = j + 1 /\ Digit(n, 3) = k + 1)
    BY <1>5, <2>1, NameByDigits
  <2>3. Key(n) < Num(i + 1, j + 1, k + 1) <=>
              \/ Digit(n, 1) < i + 1
              \/ Digit(n, 1) = i + 1 /\ (Digit(n, 2) < j + 1 \/ (Digit(n, 2) = j + 1 /\ Digit(n, 3) < k + 1))
    BY <2>1, KeyCompare
  <2>4. Num(i + 1, j + 1, k + 1) < Key(n) <=>
              \/ i + 1 < Digit(n, 1)
              \/ i + 1 = Digit(n, 1) /\ (j + 1 < Digit(n, 2) \/ (j + 1 = Digit(n, 2) /\ k + 1 < Digit(n, 3)))
    BY <2>1, KeyCompare
  <2>5. Num(i + 1, j + 1, (k + 1) + 1) = Num(i + 1, j + 1, k + 1) + 1
    BY <2>1, KeyCarries
  <2>6. Num(i + 1, j + 1, k + 1) \in Nat /\ Key(n) \in Nat
    BY <2>1, KeyCompare
  <2>7. Key(n) # Num(i + 1, j + 1, k + 1)
    BY <2>1, <2>2, <2>3, <2>4, <2>6
  <2> QED
    BY <2>5, <2>6, <2>7
<1> QED
  BY <1>2, <1>3, <1>4, <1>5

(* The page of a copy, once it is made.                                    *)
LEMMA AtCopy ==
  ASSUME AtBoot, NEW n \in Names, NEW K \in Nat, Key(n) < K
  PROVE  /\ Copy(n) \in Held(K) /\ HeapPage(Rank(n)) \in Pages /\ Part(Key(n) + 1).at = HeapPage(Rank(n))
         /\ Deref(PartMem(K), HeapPage(Rank(n))) = Copy(n)
PROOF
<1>1. Copy(n) \in Held(K)
  BY DEF Held
<1>2. HeapPage(Rank(n)) \in Pages /\ Deref(PartMem(K), HeapPage(Rank(n))) = Copy(n)
  BY Copies, ImagePage, PartAlike
<1>3. Count(Key(n) + 1) = Rank(n) + 1 /\ Rank(n) + 1 # 0 /\ (Rank(n) + 1) - 1 = Rank(n)
  BY NextKey
<1>4. Part(Key(n) + 1).at = HeapPage(Rank(n))
  BY <1>3 DEF Part
<1> QED
  BY <1>1, <1>2, <1>4

(* The image's first page, where the kernel's PML4 is.                     *)
LEMMA AtPml4 ==
  ASSUME AtBoot, NEW K
  PROVE  /\ KernelFrame \in Held(K) /\ KERNEL_BASE \in Pages
         /\ Deref(PartMem(K), KERNEL_BASE) = KernelFrame
         /\ Part(K).at # Nowhere
PROOF
<1>1. KernelPages \in Nat \ {0} /\ KERNEL_BASE \in Nat /\ KernelFrame \in Nat /\ HeapFirst \in Nat
  BY Constants, PagingAssumption
<1>2. 0 \in 0 .. KernelPages - 1 /\ KERNEL_BASE + 0 = KERNEL_BASE /\ KernelFrame + 0 = KernelFrame
  BY <1>1
<1>3. KERNEL_BASE \in Pages /\ Deref(PartMem(K), KERNEL_BASE) = KernelFrame
  BY <1>2, ImagePage, PartAlike
<1>4. Count(K) \in Nat
  <2>1. IsFiniteSet({n \in Names : Key(n) < K})
    BY Ranks, FS_Subset
  <2> QED
    BY <2>1, FS_CardinalityType DEF Count
<1>5. Part(K).at \in Nat
  <2>1. Count(K) # 0 => HeapPage(Count(K) - 1) \in Nat
    BY <1>1, <1>4 DEF HeapPage
  <2> QED
    BY <1>1, <2>1 DEF Part
<1> QED
  BY <1>3, <1>5 DEF Held, Nowhere

LEMMA LoopReaches ==
  ASSUME NEW first \in Nat, NEW last \in Nat, first <= last, NEW w, NEW f, w[first] = f[first],
         \A k \in first .. last - 1 : w[k] = f[k] => w[k + 1] = f[k + 1]
  PROVE  w[last] = f[last]
PROOF
<1> DEFINE S == {k \in first .. last : w[k] # f[k]}
<1>1. SUFFICES ASSUME S # {} PROVE FALSE
  OBVIOUS
<1>2. PICK m \in S : \A q \in S : m <= q
  <2>1. S \subseteq Nat
    OBVIOUS
  <2> HIDE DEF S
  <2> QED
    BY <1>1, <2>1, Earliest, Zenon
<1>3. m \in first .. last /\ w[m] # f[m] /\ m # first
  OBVIOUS
<1>4. m - 1 \in first .. last - 1 /\ m - 1 \in first .. last /\ (m - 1) + 1 = m /\ ~(m <= m - 1)
  BY <1>3
<1>5. m - 1 \notin S
  BY <1>2, <1>4
<1>6. w[m - 1] = f[m - 1]
  BY <1>4, <1>5
<1> QED
  BY <1>3, <1>4, <1>6

(* Where the entries that are read in a copy come from.                    *)
LEMMA Sources ==
  ASSUME AtBoot
  PROVE  /\ \A i \in Upper : Source(KernelFrame)[i] = T1(i) /\ TableAt(<<i>>) = T1(i)
         /\ \A i \in Upper : \A j \in Slots : <<i>> \in Names =>
              Source(Copy(<<i>>))[j] = T2(i, j) /\ TableAt(<<i, j>>) = T2(i, j)
         /\ \A i \in Upper : \A j, k \in Slots : <<i, j>> \in Names =>
              Source(Copy(<<i, j>>))[k] = T3(i, j, k) /\ TableAt(<<i, j, k>>) = T3(i, j, k)
         /\ \A n \in Names : InPlace(TableAt(n).to) /\ TableAt(n).to \in Frames
         /\ \A n \in Names : \A s \in Slots : Source(Copy(n))[s] = Entry(mem, TableAt(n).to, s)
PROOF
<1>1. mem \in Memories
  BY BootEntries
<1>2. Upper = {s \in Slots : ~(s < Fan \div 2)} /\ Upper \subseteq Slots
  BY FanAssumption DEF Upper, Slots
<1>3. \A f \in Frames : \A s \in Slots : Entry(mem, f, s) = mem[f][s]
  BY <1>1, EntryIsTyped
<1>4. \A i, j, k : /\ Len(<<i>>) = 1 /\ Len(<<i, j>>) = 2 /\ Len(<<i, j, k>>) = 3
                   /\ <<i>>[1] = i /\ <<i, j>>[1] = i /\ <<i, j>>[2] = j
                   /\ <<i, j, k>>[1] = i /\ <<i, j, k>>[2] = j /\ <<i, j, k>>[3] = k
  OBVIOUS
<1>5. \A i, j, k : /\ TableAt(<<i>>) = T1(i) /\ TableAt(<<i, j>>) = T2(i, j)
                   /\ TableAt(<<i, j, k>>) = T3(i, j, k)
  BY <1>4 DEF TableAt, TableOf, T1, T2, T3
<1>6. \A e \in EntryType : IsLink(e) => e.to \in Frames
  BY DEF EntryType, IsLink, Present
<1>7. ASSUME NEW n \in Names PROVE InPlace(TableAt(n).to) /\ TableAt(n).to \in Frames
  <2>1. CASE \E i \in Upper : n = <<i>>
    <3>1. PICK i \in Upper : n = <<i>>
      BY <2>1
    <3>2. TableAt(n) = T1(i) /\ IsLink(T1(i)) /\ i \in Slots
      BY <1>2, <1>5, <3>1, NamesAre
    <3> QED
      BY <1>6, <3>2, BootSlots
  <2>2. CASE \E i \in Upper : \E j \in Slots : n = <<i, j>>
    <3>1. PICK i \in Upper, j \in Slots : n = <<i, j>>
      BY <2>2
    <3>2. TableAt(n) = T2(i, j) /\ IsLink(T2(i, j))
      BY <1>5, <3>1, NamesAre
    <3> QED
      BY <1>6, <3>2, BootSlots
  <2>3. CASE \E i \in Upper : \E j, k \in Slots : n = <<i, j, k>>
    <3>1. PICK i \in Upper, j \in Slots, k \in Slots : n = <<i, j, k>>
      BY <2>3
    <3>2. TableAt(n) = T3(i, j, k) /\ IsLink(T3(i, j, k))
      BY <1>5, <3>1, NamesAre
    <3> QED
      BY <1>6, <3>2, BootSlots
  <2> QED
    BY <2>1, <2>2, <2>3, NamesAre
<1>8. ASSUME NEW i \in Upper PROVE Source(KernelFrame)[i] = T1(i)
  <2>1. i \in Slots /\ ~(i < Fan \div 2) /\ BootPml4 \in Frames
    BY <1>2, Constants
  <2>2. mem[BootPml4][i] = T1(i)
    BY <1>3, <2>1 DEF T1
  <2> QED
    BY <2>1, <2>2 DEF Source, UpperHalf
<1>9. \A n \in Names : \A s \in Slots : Source(Copy(n))[s] = Entry(mem, TableAt(n).to, s)
  <2> SUFFICES ASSUME NEW n \in Names, NEW s \in Slots
               PROVE  Source(Copy(n))[s] = Entry(mem, TableAt(n).to, s)
    OBVIOUS
  <2>1. Copy(n) # KernelFrame /\ NameAt(Copy(n)) = n
    BY SlotNames
  <2>2. Source(Copy(n)) = mem[TableAt(n).to]
    BY <2>1 DEF Source
  <2>3. PICK t \in Frames : t = TableAt(n).to
    BY <1>7
  <2>4. Entry(mem, t, s) = mem[t][s]
    BY <1>3
  <2> QED
    BY <2>2, <2>3, <2>4, Zenon
<1>10. ASSUME NEW i \in Upper, NEW j \in Slots, <<i>> \in Names
       PROVE  Source(Copy(<<i>>))[j] = T2(i, j)
  <2>1. PICK n \in Names : n = <<i>>
    BY <1>10
  <2>2. TableAt(n) = T1(i)
    BY <1>5, <2>1
  <2>3. Source(Copy(n))[j] = Entry(mem, T1(i).to, j)
    BY <1>9, <2>2
  <2> QED
    BY <2>1, <2>3 DEF T2
<1>11. \A i \in Upper : \A j, k \in Slots : <<i, j>> \in Names => Source(Copy(<<i, j>>))[k] = T3(i, j, k)
  BY <1>5, <1>9 DEF T3
<1> QED
  BY <1>5, <1>7, <1>8, <1>9, <1>10, <1>11

(* One round of the innermost loop.                                        *)
LEMMA DirectoryRound ==
  ASSUME AtBoot, NEW i \in Upper, NEW j \in Slots, NEW k \in Slots, <<i, j>> \in Names,
         NEW s, s = Part(Num(i + 1, j + 1, k + 1)), NEW p, p = HeapPage(Rank(<<i, j>>))
  PROVE  /\ s.at # Nowhere
         /\ Part(Num(i + 1, j + 1, (k + 1) + 1)) =
              IF IsLink(EntryAt(s.mem, p, k)) THEN CopyLink(s, p, k) ELSE s
PROOF
<1>1. PICK K \in Nat : K = Num(i + 1, j + 1, k + 1)
  <2>1. i + 1 \in Nat /\ j + 1 \in 0 .. Fan /\ k + 1 \in 0 .. Fan
    BY FanAssumption DEF Upper, Slots
  <2> QED
    BY <2>1, KeyOrder
<1>2. PICK n \in Names : n = <<i, j>>
  OBVIOUS
<1>3. Key(n) < K /\ Num(i + 1, j + 1, (k + 1) + 1) = K + 1
  <2>1. i + 1 \in Nat /\ j + 1 \in Nat /\ j + 1 \in 0 .. Fan /\ k + 1 \in 0 .. Fan /\ k + 1 \in Nat /\ 0 < k + 1
    BY FanAssumption DEF Upper, Slots
  <2>2. Digit(n, 1) = i + 1 /\ Digit(n, 2) = j + 1 /\ Digit(n, 3) = 0
    BY <1>2, DigitsOfTuples
  <2>3. Key(n) < Num(i + 1, j + 1, k + 1) <=>
          \/ Digit(n, 1) < i + 1
          \/ Digit(n, 1) = i + 1 /\ (Digit(n, 2) < j + 1 \/ (Digit(n, 2) = j + 1 /\ Digit(n, 3) < k + 1))
    BY <2>1, KeyCompare
  <2>4. Key(n) < K
    BY <1>1, <2>1, <2>2, <2>3
  <2>5. Num(i + 1, j + 1, (k + 1) + 1) = K + 1
    BY <1>1, <2>1, KeyCarries
  <2> QED
    BY <2>4, <2>5
<1>4. /\ Copy(n) \in Held(K) /\ p \in Pages /\ Deref(PartMem(K), p) = Copy(n)
  BY <1>2, <1>3, AtCopy
<1>5. SlotName(Copy(n), k) = <<i, j, k>>
  <2>1. i \in Slots
    BY DEF Upper
  <2>2. Append(<<i, j>>, k) = <<i, j, k>>
    BY <2>1, Appended
  <2> QED
    BY <1>2, <2>2, SlotNames
<1>6. Source(Copy(n))[k] = T3(i, j, k) /\ TableAt(<<i, j, k>>) = T3(i, j, k)
  BY <1>2, Sources
<1>7. <<i, j, k>> \in Names => Key(<<i, j, k>>) = K
  <2>1. Digit(<<i, j, k>>, 1) = i + 1 /\ Digit(<<i, j, k>>, 2) = j + 1 /\ Digit(<<i, j, k>>, 3) = k + 1
    BY DigitsOfTuples
  <2> QED
    BY <1>1, <2>1, KeyIsNum
<1>8. ~Before(K, <<i, j, k>>)
  BY <1>1, <1>7 DEF Before
<1>9. s.mem = PartMem(K) /\ s = Part(K)
  BY <1>1 DEF Part
<1>10. EntryAt(s.mem, p, k) = T3(i, j, k)
  BY <1>4, <1>5, <1>6, <1>8, <1>9, EntryOfCopy
<1>11. <<i, j, k>> \in Names <=> IsLink(T3(i, j, k))
  BY NamesAre
<1>12. CASE <<i, j, k>> \in Names
  <2>1. PICK m \in Names : m = <<i, j, k>>
    BY <1>12
  <2>2. InPlace(TableAt(m).to) /\ TableAt(m).to \in Frames
    BY Sources
  <2>3. CopyLink(Part(Key(m)), p, k) = Part(Key(m) + 1)
    BY <1>4, <1>5, <1>6, <1>7, <2>1, <2>2, CopyOne
  <2> QED
    BY <1>3, <1>7, <1>9, <1>10, <1>11, <1>12, <2>1, <2>3, AtPml4
<1>13. CASE <<i, j, k>> \notin Names
  <2>1. Part(K) = Part(Num(i + 1, j + 1, (k + 1) + 1))
    BY <1>1, <1>13, NothingUnder
  <2> QED
    BY <1>9, <1>10, <1>11, <1>13, <2>1, AtPml4
<1> QED
  BY <1>12, <1>13

LEMMA DirectoryCopied ==
  ASSUME AtBoot, NEW i \in Upper, NEW j \in Slots, <<i, j>> \in Names
  PROVE  CopyDirectory(Part(Key(<<i, j>>) + 1)) = Part(Num(i + 1, (j + 1) + 1, 0))
PROOF
<1>1. /\ Fan \in Nat \ {0, 1} /\ Fan - 1 \in Nat /\ i + 1 \in Nat /\ j + 1 \in Nat
      /\ \A k \in 0 .. Fan - 1 : k \in Slots
  BY FanAssumption DEF Upper, Slots
<1>2. PICK n \in Names : n = <<i, j>>
  OBVIOUS
<1>3. PICK s, p : s = Part(Key(n) + 1) /\ p = HeapPage(Rank(n))
  OBVIOUS
<1>4. s.at = p
  <2>1. Key(n) \in Nat
    BY KeyIsNum
  <2>2. Key(n) + 1 \in Nat /\ Key(n) < Key(n) + 1
    BY <2>1
  <2> QED
    BY <1>3, <2>2, AtCopy
<1>5. Key(n) + 1 = Num(i + 1, j + 1, 0 + 1)
  <2>1. Key(n) = Num(i + 1, j + 1, 0)
    BY <1>2, DigitsOfTuples, KeyIsNum
  <2> QED
    BY <1>1, <2>1, KeyCarries
<1> DEFINE Step(h, m) == IF m = 0 THEN s
                         ELSE IF h[m - 1].at = Nowhere \/ ~IsLink(EntryAt(h[m - 1].mem, p, m - 1))
                              THEN h[m - 1]
                              ELSE CopyLink(h[m - 1], p, m - 1)
           w == CHOOSE h : h = [m \in 0 .. Fan |-> Step(h, m)]
<1>6. CopyDirectory(s) = w[Fan]
  BY <1>4 DEF CopyDirectory, CopyLinks, NoLoop
<1>7. PICK f : f = [m \in 0 .. Fan |-> Part(Num(i + 1, j + 1, m + 1))]
  OBVIOUS
<1>8. f[0] = s /\ \A m \in 0 .. Fan : f[m] = Part(Num(i + 1, j + 1, m + 1))
  BY <1>1, <1>3, <1>5, <1>7
<1>9. ASSUME NEW h, NEW k \in 0 .. Fan - 1, h[k] = f[k] PROVE Step(h, k + 1) = f[k + 1]
  <2>1. k \in Slots /\ k \in 0 .. Fan /\ k + 1 \in 0 .. Fan /\ k + 1 # 0 /\ (k + 1) - 1 = k
    BY <1>1
  <2>2. f[k] = Part(Num(i + 1, j + 1, k + 1)) /\ f[k + 1] = Part(Num(i + 1, j + 1, (k + 1) + 1))
    BY <1>8, <2>1
  <2>3. /\ f[k].at # Nowhere
        /\ f[k + 1] = IF IsLink(EntryAt(f[k].mem, p, k)) THEN CopyLink(f[k], p, k) ELSE f[k]
    BY <1>2, <1>3, <2>1, <2>2, DirectoryRound
  <2> QED
    BY <1>9, <2>1, <2>3
<1>10. \A h : Step(h, 0) = s
  OBVIOUS
<1> HIDE DEF Step
<1>11. f = [m \in 0 .. Fan |-> Step(f, m)]
  <2>1. ASSUME NEW m \in 0 .. Fan PROVE Part(Num(i + 1, j + 1, m + 1)) = Step(f, m)
    <3>1. CASE m = 0
      BY <1>8, <1>10, <3>1
    <3>2. CASE m # 0
      <4>1. PICK k \in 0 .. Fan - 1 : m = k + 1
        <5>1. m - 1 \in 0 .. Fan - 1 /\ m = (m - 1) + 1
          BY <1>1, <3>2
        <5> QED
          BY <5>1
      <4> QED
        BY <1>8, <1>9, <4>1
    <3> QED
      BY <3>1, <3>2
  <2> QED
    BY <1>7, <2>1, Zenon
<1>12. w = [m \in 0 .. Fan |-> Step(w, m)]
  BY <1>11, Zenon
<1> HIDE DEF w
<1>13. \A m \in 0 .. Fan : w[m] = Step(w, m)
  BY <1>12
<1>14. w[0] = f[0]
  BY <1>1, <1>8, <1>10, <1>13
<1>15. \A k \in 0 .. Fan - 1 : w[k] = f[k] => w[k + 1] = f[k + 1]
  <2>1. \A k \in 0 .. Fan - 1 : k + 1 \in 0 .. Fan
    BY <1>1
  <2> QED
    BY <1>9, <1>13, <2>1
<1>16. w[Fan] = f[Fan]
  <2>1. 0 \in Nat /\ Fan \in Nat /\ 0 <= Fan
    BY <1>1
  <2> QED
    BY <1>14, <1>15, <2>1, LoopReaches
<1>17. f[Fan] = Part(Num(i + 1, (j + 1) + 1, 0))
  <2>1. Fan \in 0 .. Fan
    BY <1>1
  <2>2. f[Fan] = Part(Num(i + 1, j + 1, Fan + 1))
    BY <1>8, <2>1
  <2> QED
    BY <1>1, <2>2, KeyCarries
<1> QED
  BY <1>2, <1>3, <1>6, <1>16, <1>17

(* One round of the loop over a table of directories.                      *)
LEMMA PdptRound ==
  ASSUME AtBoot, NEW i \in Upper, NEW j \in Slots, <<i>> \in Names,
         NEW s, s = Part(Num(i + 1, j + 1, 0)), NEW p, p = HeapPage(Rank(<<i>>))
  PROVE  /\ s.at # Nowhere
         /\ Part(Num(i + 1, (j + 1) + 1, 0)) =
              IF IsLink(EntryAt(s.mem, p, j)) THEN CopyDirectory(CopyLink(s, p, j)) ELSE s
PROOF
<1>1. PICK K \in Nat : K = Num(i + 1, j + 1, 0)
  <2>1. i + 1 \in Nat /\ j + 1 \in 0 .. Fan /\ 0 \in 0 .. Fan
    BY FanAssumption DEF Upper, Slots
  <2> QED
    BY <2>1, KeyOrder
<1>2. PICK n \in Names : n = <<i>>
  OBVIOUS
<1>3. Key(n) < K
  <2>1. i + 1 \in Nat /\ j + 1 \in 0 .. Fan /\ 0 \in 0 .. Fan /\ 0 < j + 1
    BY FanAssumption DEF Upper, Slots
  <2>2. Digit(n, 1) = i + 1 /\ Digit(n, 2) = 0 /\ Digit(n, 3) = 0
    BY <1>2, DigitsOfTuples
  <2>3. Key(n) < Num(i + 1, j + 1, 0) <=>
          \/ Digit(n, 1) < i + 1
          \/ Digit(n, 1) = i + 1 /\ (Digit(n, 2) < j + 1 \/ (Digit(n, 2) = j + 1 /\ Digit(n, 3) < 0))
    BY <2>1, KeyCompare
  <2> QED
    BY <1>1, <2>1, <2>2, <2>3
<1>4. /\ Copy(n) \in Held(K) /\ p \in Pages /\ Deref(PartMem(K), p) = Copy(n)
  BY <1>2, <1>3, AtCopy
<1>5. SlotName(Copy(n), j) = <<i, j>>
  <2>1. i \in Slots
    BY DEF Upper
  <2>2. Append(<<i>>, j) = <<i, j>>
    BY <2>1, Appended
  <2> QED
    BY <1>2, <2>2, SlotNames
<1>6. Source(Copy(n))[j] = T2(i, j) /\ TableAt(<<i, j>>) = T2(i, j)
  BY <1>2, Sources
<1>7. <<i, j>> \in Names => Key(<<i, j>>) = K
  <2>1. Digit(<<i, j>>, 1) = i + 1 /\ Digit(<<i, j>>, 2) = j + 1 /\ Digit(<<i, j>>, 3) = 0
    BY DigitsOfTuples
  <2> QED
    BY <1>1, <2>1, KeyIsNum
<1>8. ~Before(K, <<i, j>>)
  BY <1>1, <1>7 DEF Before
<1>9. s.mem = PartMem(K) /\ s = Part(K)
  BY <1>1 DEF Part
<1>10. EntryAt(s.mem, p, j) = T2(i, j)
  BY <1>4, <1>5, <1>6, <1>8, <1>9, EntryOfCopy
<1>11. <<i, j>> \in Names <=> IsLink(T2(i, j))
  BY <1>2, NamesAre
<1>12. CASE <<i, j>> \in Names
  <2>1. PICK m \in Names : m = <<i, j>>
    BY <1>12
  <2>2. InPlace(TableAt(m).to) /\ TableAt(m).to \in Frames
    BY Sources
  <2>3. CopyLink(Part(Key(m)), p, j) = Part(Key(m) + 1)
    BY <1>4, <1>5, <1>6, <1>7, <2>1, <2>2, CopyOne
  <2>4. CopyDirectory(Part(Key(m) + 1)) = Part(Num(i + 1, (j + 1) + 1, 0))
    BY <2>1, DirectoryCopied
  <2> QED
    BY <1>7, <1>9, <1>10, <1>11, <1>12, <2>1, <2>3, <2>4, AtPml4
<1>13. CASE <<i, j>> \notin Names
  <2>1. Part(K) = Part(Num(i + 1, (j + 1) + 1, 0))
    BY <1>1, <1>13, NothingUnder
  <2> QED
    BY <1>9, <1>10, <1>11, <1>13, <2>1, AtPml4
<1> QED
  BY <1>12, <1>13

LEMMA PdptCopied ==
  ASSUME AtBoot, NEW i \in Upper, <<i>> \in Names
  PROVE  CopyPdpt(Part(Key(<<i>>) + 1)) = Part(Num((i + 1) + 1, 0, 0))
PROOF
<1>1. /\ Fan \in Nat \ {0, 1} /\ Fan - 1 \in Nat /\ i + 1 \in Nat
      /\ \A k \in 0 .. Fan - 1 : k \in Slots
  BY FanAssumption DEF Upper, Slots
<1>2. PICK n \in Names : n = <<i>>
  OBVIOUS
<1>3. PICK s, p : s = Part(Key(n) + 1) /\ p = HeapPage(Rank(n))
  OBVIOUS
<1>4. s.at = p
  <2>1. Key(n) \in Nat
    BY KeyIsNum
  <2>2. Key(n) + 1 \in Nat /\ Key(n) < Key(n) + 1
    BY <2>1
  <2> QED
    BY <1>3, <2>2, AtCopy
<1>5. s = Part(Num(i + 1, 0 + 1, 0))
  <2>1. Key(n) = Num(i + 1, 0, 0)
    BY <1>2, DigitsOfTuples, KeyIsNum
  <2>2. 0 \in Nat /\ 0 + 1 = 1
    OBVIOUS
  <2>3. Key(n) + 1 = Num(i + 1, 0, 1)
    BY <1>1, <2>1, <2>2, KeyCarries
  <2> QED
    BY <1>3, <2>2, <2>3, NothingUnder
<1> DEFINE Step(h, m) == IF m = 0 THEN s
                         ELSE IF h[m - 1].at = Nowhere \/ ~IsLink(EntryAt(h[m - 1].mem, p, m - 1))
                              THEN h[m - 1]
                              ELSE CopyDirectory(CopyLink(h[m - 1], p, m - 1))
           w == CHOOSE h : h = [m \in 0 .. Fan |-> Step(h, m)]
<1>6. CopyPdpt(s) = w[Fan]
  BY <1>4 DEF CopyPdpt, CopyLinks
<1>7. PICK f : f = [m \in 0 .. Fan |-> Part(Num(i + 1, m + 1, 0))]
  OBVIOUS
<1>8. f[0] = s /\ \A m \in 0 .. Fan : f[m] = Part(Num(i + 1, m + 1, 0))
  BY <1>1, <1>5, <1>7
<1>9. ASSUME NEW h, NEW k \in 0 .. Fan - 1, h[k] = f[k] PROVE Step(h, k + 1) = f[k + 1]
  <2>1. k \in Slots /\ k \in 0 .. Fan /\ k + 1 \in 0 .. Fan /\ k + 1 # 0 /\ (k + 1) - 1 = k
    BY <1>1
  <2>2. f[k] = Part(Num(i + 1, k + 1, 0)) /\ f[k + 1] = Part(Num(i + 1, (k + 1) + 1, 0))
    BY <1>8, <2>1
  <2>3. /\ f[k].at # Nowhere
        /\ f[k + 1] = IF IsLink(EntryAt(f[k].mem, p, k)) THEN CopyDirectory(CopyLink(f[k], p, k)) ELSE f[k]
    BY <1>2, <1>3, <2>1, <2>2, PdptRound
  <2> QED
    BY <1>9, <2>1, <2>3
<1>10. \A h : Step(h, 0) = s
  OBVIOUS
<1> HIDE DEF Step
<1>11. f = [m \in 0 .. Fan |-> Step(f, m)]
  <2>1. ASSUME NEW m \in 0 .. Fan PROVE Part(Num(i + 1, m + 1, 0)) = Step(f, m)
    <3>1. CASE m = 0
      BY <1>8, <1>10, <3>1
    <3>2. CASE m # 0
      <4>1. PICK k \in 0 .. Fan - 1 : m = k + 1
        <5>1. m - 1 \in 0 .. Fan - 1 /\ m = (m - 1) + 1
          BY <1>1, <3>2
        <5> QED
          BY <5>1
      <4> QED
        BY <1>8, <1>9, <4>1
    <3> QED
      BY <3>1, <3>2
  <2> QED
    BY <1>7, <2>1, Zenon
<1>12. w = [m \in 0 .. Fan |-> Step(w, m)]
  BY <1>11, Zenon
<1> HIDE DEF w
<1>13. \A m \in 0 .. Fan : w[m] = Step(w, m)
  BY <1>12
<1>14. w[0] = f[0]
  BY <1>1, <1>8, <1>10, <1>13
<1>15. \A k \in 0 .. Fan - 1 : w[k] = f[k] => w[k + 1] = f[k + 1]
  <2>1. \A k \in 0 .. Fan - 1 : k + 1 \in 0 .. Fan
    BY <1>1
  <2> QED
    BY <1>9, <1>13, <2>1
<1>16. w[Fan] = f[Fan]
  <2>1. 0 \in Nat /\ Fan \in Nat /\ 0 <= Fan
    BY <1>1
  <2> QED
    BY <1>14, <1>15, <2>1, LoopReaches
<1>17. f[Fan] = Part(Num((i + 1) + 1, 0, 0))
  <2>1. Fan \in 0 .. Fan
    BY <1>1
  <2>2. f[Fan] = Part(Num(i + 1, Fan + 1, 0))
    BY <1>8, <2>1
  <2> QED
    BY <1>1, <2>2, KeyCarries
<1> QED
  BY <1>2, <1>3, <1>6, <1>16, <1>17


(* One round of the outermost loop.                                        *)
LEMMA Pml4Round ==
  ASSUME AtBoot, NEW i \in Upper, NEW s, s = Part(Num(i + 1, 0, 0))
  PROVE  /\ s.at # Nowhere
         /\ Part(Num((i + 1) + 1, 0, 0)) =
              IF IsLink(EntryAt(s.mem, KERNEL_BASE, i)) THEN CopyPdpt(CopyLink(s, KERNEL_BASE, i)) ELSE s
PROOF
<1>1. PICK K \in Nat : K = Num(i + 1, 0, 0)
  <2>1. i + 1 \in Nat /\ 0 \in 0 .. Fan
    BY FanAssumption DEF Upper, Slots
  <2> QED
    BY <2>1, KeyOrder
<1>2. i \in Slots
  BY DEF Upper
<1>4. KernelFrame \in Held(K) /\ KERNEL_BASE \in Pages /\ Deref(PartMem(K), KERNEL_BASE) = KernelFrame
  BY AtPml4
<1>5. SlotName(KernelFrame, i) = <<i>>
  BY SlotNames
<1>6. Source(KernelFrame)[i] = T1(i) /\ TableAt(<<i>>) = T1(i)
  BY Sources
<1>7. <<i>> \in Names => Key(<<i>>) = K
  <2>1. Digit(<<i>>, 1) = i + 1 /\ Digit(<<i>>, 2) = 0 /\ Digit(<<i>>, 3) = 0
    BY DigitsOfTuples
  <2> QED
    BY <1>1, <2>1, KeyIsNum
<1>8. ~Before(K, <<i>>)
  BY <1>1, <1>7 DEF Before
<1>9. s.mem = PartMem(K) /\ s = Part(K)
  BY <1>1 DEF Part
<1>10. EntryAt(s.mem, KERNEL_BASE, i) = T1(i)
  BY <1>2, <1>4, <1>5, <1>6, <1>8, <1>9, EntryOfCopy
<1>11. <<i>> \in Names <=> IsLink(T1(i))
  BY NamesAre
<1>12. CASE <<i>> \in Names
  <2>1. PICK m \in Names : m = <<i>>
    BY <1>12
  <2>2. InPlace(TableAt(m).to) /\ TableAt(m).to \in Frames
    BY Sources
  <2>3. CopyLink(Part(Key(m)), KERNEL_BASE, i) = Part(Key(m) + 1)
    BY <1>2, <1>4, <1>5, <1>6, <1>7, <2>1, <2>2, CopyOne
  <2>4. CopyPdpt(Part(Key(m) + 1)) = Part(Num((i + 1) + 1, 0, 0))
    BY <2>1, PdptCopied
  <2> QED
    BY <1>7, <1>9, <1>10, <1>11, <1>12, <2>1, <2>3, <2>4, AtPml4
<1>13. CASE <<i>> \notin Names
  <2>1. Part(K) = Part(Num((i + 1) + 1, 0, 0))
    BY <1>1, <1>13, NothingUnder
  <2> QED
    BY <1>9, <1>10, <1>11, <1>13, <2>1, AtPml4
<1> QED
  BY <1>12, <1>13

(* Before the loops: the whole of the PML4 is copied, its lower half       *)
(* cleared.                                                                *)
LEMMA UpperCopied ==
  ASSUME AtBoot
  PROVE  LET whole == memcpy([mem |-> mem, tables |-> tables, at |-> Nowhere], KERNEL_BASE, BootPml4)
         IN  [whole EXCEPT !.mem[Deref(mem, KERNEL_BASE)] = UpperHalf(@)]
               = Part(Num((Fan \div 2) + 1, 0, 0))
PROOF
<1>1. PICK K \in Nat : K = Num((Fan \div 2) + 1, 0, 0)
  <2>1. (Fan \div 2) + 1 \in Nat /\ 0 \in 0 .. Fan
    BY FanAssumption
  <2> QED
    BY <2>1, KeyOrder
<1>2. \A n \in Names : ~(Key(n) < K)
  <2> SUFFICES ASSUME NEW n \in Names PROVE ~(Key(n) < K)
    OBVIOUS
  <2>1. (Fan \div 2) + 1 \in Nat /\ 0 \in 0 .. Fan /\ Fan \div 2 \in Nat
    BY FanAssumption
  <2>2. Digit(n, 1) \in Nat /\ Digit(n, 2) \in 0 .. Fan /\ Digit(n, 3) \in 0 .. Fan
        /\ Digit(n, 1) - 1 \in Upper
    BY NameByDigits
  <2>3. Digit(n, 1) - 1 >= Fan \div 2
    BY <2>2 DEF Upper
  <2>4. Key(n) < K <=>
              \/ Digit(n, 1) < (Fan \div 2) + 1
              \/ Digit(n, 1) = (Fan \div 2) + 1 /\ (Digit(n, 2) < 0 \/ (Digit(n, 2) = 0 /\ Digit(n, 3) < 0))
    BY <1>1, <2>1, KeyCompare
  <2> QED
    BY <2>1, <2>2, <2>3, <2>4
<1>3. Held(K) = {KernelFrame} /\ Count(K) = 0
  <2>1. {n \in Names : Key(n) < K} = {}
    BY <1>2
  <2> QED
    BY <2>1, FS_EmptySet DEF Held, Count
<1>4. PartTable(K, KernelFrame) = UpperHalf(mem[BootPml4])
  <2>1. \A s \in Slots : PartTable(K, KernelFrame)[s] = UpperHalf(mem[BootPml4])[s]
    BY <1>2 DEF PartTable, Before, Source
  <2>2. /\ PartTable(K, KernelFrame) = [s \in Slots |-> PartTable(K, KernelFrame)[s]]
        /\ UpperHalf(mem[BootPml4]) = [s \in Slots |-> UpperHalf(mem[BootPml4])[s]]
    BY DEF PartTable, UpperHalf
  <2> QED
    BY <2>1, <2>2
<1>5. DOMAIN mem = Frames /\ mem = [f \in Frames |-> mem[f]] /\ tables = 0
  BY BootEntries DEF Memories, AtBoot
<1>6. PartMem(K) = [mem EXCEPT ![KernelFrame] = UpperHalf(mem[BootPml4])]
  BY <1>3, <1>4, <1>5 DEF PartMem
<1>7. KernelFrame \in Frames /\ KernelFrame # Nowhere /\ BootPml4 # Nowhere
  BY Constants
<1>8. Alike(mem)
  BY <1>5 DEF Alike
<1>9. Deref(mem, KERNEL_BASE) = KernelFrame
  <2>1. 0 \in 0 .. KernelPages - 1 /\ KERNEL_BASE + 0 = KERNEL_BASE /\ KernelFrame + 0 = KernelFrame
    BY Constants, PagingAssumption
  <2> QED
    BY <1>8, <2>1, ImagePage
<1>10. Deref(mem, BootPml4) = BootPml4
  BY <1>8, BootPml4InPlace, PointerToTable
<1>11. memcpy([mem |-> mem, tables |-> tables, at |-> Nowhere], KERNEL_BASE, BootPml4) =
         [mem |-> [mem EXCEPT ![KernelFrame] = mem[BootPml4]], tables |-> 0, at |-> KERNEL_BASE]
  BY <1>5, <1>7, <1>9, <1>10 DEF memcpy
<1>12. [[mem EXCEPT ![KernelFrame] = mem[BootPml4]] EXCEPT ![KernelFrame] = UpperHalf(@)]
         = PartMem(K)
  BY <1>5, <1>6, <1>7
<1>13. Part(K) = [mem |-> PartMem(K), tables |-> 0, at |-> KERNEL_BASE]
  BY <1>3 DEF Part
<1> QED
  BY <1>1, <1>9, <1>11, <1>12, <1>13

(* What setup_paging leaves in memory.                                     *)
All == Num(Fan + 1, 0, 0)

Left == PartMem(All)

LEMMA AllBefore ==
  \A n \in Names : Key(n) < All
PROOF
<1> SUFFICES ASSUME NEW n \in Names PROVE Key(n) < All
  OBVIOUS
<1>1. /\ Digit(n, 1) \in Nat /\ Digit(n, 1) < Fan + 1
      /\ Fan + 1 \in Nat /\ 0 \in 0 .. Fan
  <2>1. Digit(n, 1) \in 0 .. Fan /\ Fan \in Nat
    BY DigitsOf, Powers
  <2> QED
    BY <2>1
<1>2. Key(n) < Num(Fan + 1, 0, 0) <=>
        \/ Digit(n, 1) < Fan + 1
        \/ Digit(n, 1) = Fan + 1 /\ (Digit(n, 2) < 0 \/ (Digit(n, 2) = 0 /\ Digit(n, 3) < 0))
  BY <1>1, KeyCompare
<1> QED
  BY <1>1, <1>2 DEF All

LEMMA TreeCopied ==
  ASSUME AtBoot
  PROVE  /\ CopyTree = [mem |-> Left, tables |-> Cardinality(Names), at |-> CopyTree.at]
         /\ CopyTree.at # Nowhere
PROOF
<1>1. /\ Fan \in Nat \ {0, 1} /\ Fan - 1 \in Nat /\ Fan \div 2 \in Nat /\ Fan \div 2 <= Fan
      /\ \A k \in Fan \div 2 .. Fan - 1 : k \in Upper
  BY FanAssumption DEF Upper, Slots
<1>3. PICK s, p : s = Part(Num((Fan \div 2) + 1, 0, 0)) /\ p = KERNEL_BASE
  OBVIOUS
<1> DEFINE Step(h, m) == IF m = Fan \div 2 THEN s
                         ELSE IF h[m - 1].at = Nowhere \/ ~IsLink(EntryAt(h[m - 1].mem, p, m - 1))
                              THEN h[m - 1]
                              ELSE CopyPdpt(CopyLink(h[m - 1], p, m - 1))
           w == CHOOSE h : h = [m \in Fan \div 2 .. Fan |-> Step(h, m)]
<1>6. CopyTree = w[Fan]
  <2>1. CopyTree = CopyLinks(s, p, Fan \div 2, CopyPdpt)
    BY <1>3, UpperCopied DEF CopyTree
  <2> QED
    BY <2>1 DEF CopyLinks
<1>7. PICK f : f = [m \in Fan \div 2 .. Fan |-> Part(Num(m + 1, 0, 0))]
  OBVIOUS
<1>8. f[Fan \div 2] = s /\ \A m \in Fan \div 2 .. Fan : f[m] = Part(Num(m + 1, 0, 0))
  BY <1>1, <1>3, <1>7
<1>9. ASSUME NEW h, NEW k \in Fan \div 2 .. Fan - 1, h[k] = f[k] PROVE Step(h, k + 1) = f[k + 1]
  <2>1. k \in Upper /\ k \in Fan \div 2 .. Fan /\ k + 1 \in Fan \div 2 .. Fan /\ k + 1 # Fan \div 2
        /\ (k + 1) - 1 = k
    BY <1>1
  <2>2. f[k] = Part(Num(k + 1, 0, 0)) /\ f[k + 1] = Part(Num((k + 1) + 1, 0, 0))
    BY <1>8, <2>1
  <2>3. /\ f[k].at # Nowhere
        /\ f[k + 1] = IF IsLink(EntryAt(f[k].mem, p, k)) THEN CopyPdpt(CopyLink(f[k], p, k)) ELSE f[k]
    BY <1>3, <2>1, <2>2, Pml4Round
  <2> QED
    BY <1>9, <2>1, <2>3
<1>10. \A h : Step(h, Fan \div 2) = s
  OBVIOUS
<1> HIDE DEF Step
<1>11. f = [m \in Fan \div 2 .. Fan |-> Step(f, m)]
  <2>1. ASSUME NEW m \in Fan \div 2 .. Fan PROVE Part(Num(m + 1, 0, 0)) = Step(f, m)
    <3>1. CASE m = Fan \div 2
      BY <1>8, <1>10, <3>1
    <3>2. CASE m # Fan \div 2
      <4>1. PICK k \in Fan \div 2 .. Fan - 1 : m = k + 1
        <5>1. m - 1 \in Fan \div 2 .. Fan - 1 /\ m = (m - 1) + 1
          BY <1>1, <3>2
        <5> QED
          BY <5>1
      <4>2. k \in Fan \div 2 .. Fan
        BY <1>1
      <4> QED
        BY <1>8, <1>9, <4>1, <4>2
    <3> QED
      BY <3>1, <3>2
  <2> QED
    BY <1>7, <2>1, Zenon
<1>12. w = [m \in Fan \div 2 .. Fan |-> Step(w, m)]
  BY <1>11, Zenon
<1> HIDE DEF w
<1>13. \A m \in Fan \div 2 .. Fan : w[m] = Step(w, m)
  BY <1>12
<1>14. w[Fan \div 2] = f[Fan \div 2]
  BY <1>1, <1>8, <1>10, <1>13
<1>15. \A k \in Fan \div 2 .. Fan - 1 : w[k] = f[k] => w[k + 1] = f[k + 1]
  <2>1. \A k \in Fan \div 2 .. Fan - 1 : k + 1 \in Fan \div 2 .. Fan
    BY <1>1
  <2> QED
    BY <1>9, <1>13, <2>1
<1>16. w[Fan] = f[Fan]
  BY <1>1, <1>14, <1>15, LoopReaches
<1>17. CopyTree = Part(All)
  <2>1. Fan \in Fan \div 2 .. Fan
    BY <1>1
  <2>2. f[Fan] = Part(Num(Fan + 1, 0, 0))
    BY <1>8, <2>1
  <2> QED
    BY <1>6, <1>16, <2>2 DEF All
<1>18. Count(All) = Cardinality(Names)
  <2>1. {n \in Names : Key(n) < All} = Names
    BY AllBefore
  <2> QED
    BY <2>1 DEF Count
<1>19. Part(All).at # Nowhere
  BY AtPml4
<1> QED
  BY <1>17, <1>18, <1>19 DEF Part, Left

(* The tables of the copy, entry by entry.                                 *)
LEMMA LeftTables ==
  ASSUME AtBoot
  PROVE  /\ Left \in Memories
         /\ \A s \in Slots : Left[KernelFrame][s] =
              IF s \notin Upper THEN Absent
              ELSE IF <<s>> \in Names THEN Link(Copy(<<s>>)) ELSE T1(s)
         /\ \A i \in Upper : \A s \in Slots : <<i>> \in Names =>
              Left[Copy(<<i>>)][s] = IF <<i, s>> \in Names THEN Link(Copy(<<i, s>>)) ELSE T2(i, s)
         /\ \A i \in Upper : \A j, s \in Slots : <<i, j>> \in Names =>
              Left[Copy(<<i, j>>)][s] = IF <<i, j, s>> \in Names THEN Link(Copy(<<i, j, s>>)) ELSE T3(i, j, s)
         /\ \A i \in Upper : \A j, k, s \in Slots : <<i, j, k>> \in Names =>
              Left[Copy(<<i, j, k>>)][s] = Entry(mem, T3(i, j, k).to, s)
PROOF
<1>1. mem \in Memories
  BY BootEntries
<1>2. Upper = {s \in Slots : ~(s < Fan \div 2)} /\ Upper \subseteq Slots
  BY FanAssumption DEF Upper, Slots
<1>3. \A f \in Own(Cardinality(Names)) : f \in Frames
  BY Copies, OwnFrames
<1>4. \A n : Before(All, n) <=> n \in Names
  BY AllBefore DEF Before
<1>5. \A f \in Held(All) :
        /\ Left[f] = PartTable(All, f)
        /\ \A s \in Slots :
             Left[f][s] = IF SlotName(f, s) \in Names THEN Link(Copy(SlotName(f, s))) ELSE Source(f)[s]
  BY <1>4, PartAlike DEF Left, PartMem, PartTable
<1>20. KernelFrame \in Held(All) /\ \A n \in Names : Copy(n) \in Held(All)
  BY AllBefore DEF Held
<1>6. \A i, j, k : /\ Len(<<i>>) = 1 /\ Len(<<i, j>>) = 2 /\ Len(<<i, j, k>>) = 3
                   /\ <<i>>[1] = i /\ <<i, j>>[1] = i /\ <<i, j>>[2] = j
                   /\ <<i, j, k>>[1] = i /\ <<i, j, k>>[2] = j /\ <<i, j, k>>[3] = k
  OBVIOUS
<1>7. \A i, j, k : /\ TableAt(<<i>>) = T1(i) /\ TableAt(<<i, j>>) = T2(i, j)
                   /\ TableAt(<<i, j, k>>) = T3(i, j, k)
  BY <1>6 DEF TableAt, TableOf, T1, T2, T3
<1>8. \A i, j, k : i \in Slots /\ j \in Slots /\ k \in Slots =>
        /\ T1(i) \in EntryType /\ T2(i, j) \in EntryType /\ T3(i, j, k) \in EntryType
        /\ Entry(mem, T3(i, j, k).to, k) \in EntryType
  BY <1>1, EntryIsTyped DEF T1, T2, T3
<1>9. \A e \in EntryType : IsLink(e) => e.to \in Frames
  BY DEF EntryType, IsLink, Present
<1>10. \A f \in Frames : \A s \in Slots : Entry(mem, f, s) = mem[f][s] /\ mem[f][s] \in EntryType
  BY <1>1, EntryIsTyped
<1>11. ASSUME NEW s \in Slots
       PROVE  Left[KernelFrame][s] = IF s \notin Upper THEN Absent
                                     ELSE IF <<s>> \in Names THEN Link(Copy(<<s>>)) ELSE T1(s)
  <2>1. Left[KernelFrame][s] = IF <<s>> \in Names THEN Link(Copy(<<s>>)) ELSE Source(KernelFrame)[s]
    BY <1>5, <1>20, SlotNames
  <2>2. CASE s \in Upper
    BY <2>1, <2>2, Sources
  <2>3. CASE s \notin Upper
    <3>1. <<s>> \notin Names
      <4> SUFFICES ASSUME <<s>> \in Names PROVE FALSE
        OBVIOUS
      <4>1. PICK n \in Names : n = <<s>>
        OBVIOUS
      <4>2. Digit(n, 1) - 1 \in Upper /\ Digit(n, 1) = s + 1
        BY <4>1, NameByDigits, DigitsOfTuples
      <4>3. (s + 1) - 1 = s
        BY Powers DEF Slots
      <4> QED
        BY <2>3, <4>2, <4>3
    <3>2. Source(KernelFrame)[s] = Absent
      BY <1>2, <2>3 DEF Source, UpperHalf
    <3> QED
      BY <2>1, <2>3, <3>1, <3>2
  <2> QED
    BY <2>2, <2>3
<1>12. ASSUME NEW n \in Names, NEW s \in Slots
       PROVE  Left[Copy(n)][s] = IF Append(n, s) \in Names THEN Link(Copy(Append(n, s)))
                                 ELSE Entry(mem, TableAt(n).to, s)
  <2>1. SlotName(Copy(n), s) = Append(n, s)
    BY SlotNames
  <2>2. Source(Copy(n))[s] = Entry(mem, TableAt(n).to, s)
    BY Sources
  <2> QED
    BY <1>5, <1>20, <2>1, <2>2
<1>13. ASSUME NEW i \in Upper, NEW s \in Slots, <<i>> \in Names
       PROVE  Left[Copy(<<i>>)][s] = IF <<i, s>> \in Names THEN Link(Copy(<<i, s>>)) ELSE T2(i, s)
  <2>2. Entry(mem, T1(i).to, s) = T2(i, s)
    BY DEF T2
  <2>3. Append(<<i>>, s) = <<i, s>>
    BY <1>2, Appended
  <2>4. TableAt(<<i>>) = T1(i)
    BY <1>7
  <2> QED
    BY <1>12, <1>13, <2>2, <2>3, <2>4
<1>14. ASSUME NEW i \in Upper, NEW j \in Slots, NEW s \in Slots, <<i, j>> \in Names
       PROVE  Left[Copy(<<i, j>>)][s] = IF <<i, j, s>> \in Names THEN Link(Copy(<<i, j, s>>))
                                        ELSE T3(i, j, s)
  <2>2. Entry(mem, T2(i, j).to, s) = T3(i, j, s)
    BY DEF T3
  <2>3. Append(<<i, j>>, s) = <<i, j, s>>
    BY <1>2, Appended
  <2>4. TableAt(<<i, j>>) = T2(i, j)
    BY <1>7
  <2> QED
    BY <1>12, <1>14, <2>2, <2>3, <2>4
<1>15. ASSUME NEW i \in Upper, NEW j \in Slots, NEW k \in Slots, NEW s \in Slots, <<i, j, k>> \in Names
       PROVE  Left[Copy(<<i, j, k>>)][s] = Entry(mem, T3(i, j, k).to, s)
  <2>3. Append(<<i, j, k>>, s) \notin Names
    <3>1. <<i, j, k>> \in Seq(Slots) /\ Len(<<i, j, k>>) = 3
      BY <1>2
    <3>2. PICK a : a = Append(<<i, j, k>>, s) /\ Len(a) = 4
      <4>1. Len(Append(<<i, j, k>>, s)) = Len(<<i, j, k>>) + 1
        BY <3>1, AppendProperties
      <4>2. Len(Append(<<i, j, k>>, s)) = 4
        BY <3>1, <4>1
      <4> QED
        BY <4>2
    <3>3. \A n \in Names : Len(n) \in {1, 2, 3}
      BY <1>6, NamesAre
    <3>4. a \in Names => 4 \in {1, 2, 3}
      BY <3>2, <3>3
    <3> QED
      BY <3>2, <3>4
  <2>4. TableAt(<<i, j, k>>) = T3(i, j, k)
    BY <1>7
  <2> QED
    BY <1>12, <1>15, <2>3, <2>4
<1>16. \A n \in Names : Link(Copy(n)) \in EntryType
  BY <1>3, Copies DEF Link, EntryType
<1>17. Absent \in EntryType
  BY DEF Absent, EntryType
<1>19. Left \in Memories
  <2>1. ASSUME NEW f \in Frames PROVE Left[f] \in [Slots -> EntryType]
    <3>1. CASE f = KernelFrame
      <4>1. Left[f] = PartTable(All, f)
        BY <1>5, <1>20, <3>1
      <4>2. \A s \in Slots : Source(f)[s] \in EntryType
        <5>1. \A s \in Slots : mem[BootPml4][s] \in EntryType
          BY <1>10, Constants
        <5> QED
          BY <1>17, <3>1, <5>1 DEF Source, UpperHalf
      <4>3. \A s \in Slots : Left[f][s] \in EntryType
        BY <1>5, <1>16, <1>20, <3>1, <4>2
      <4>4. PartTable(All, f) = [s \in Slots |-> PartTable(All, f)[s]]
        BY DEF PartTable
      <4> QED
        BY <4>1, <4>3, <4>4
    <3>2. CASE \E n \in Names : Copy(n) = f
      <4>1. PICK n \in Names : Copy(n) = f
        BY <3>2
      <4>2. Left[f] = PartTable(All, f)
        BY <1>5, <1>20, <4>1
      <4>3. \A s \in Slots : Left[f][s] \in EntryType
        <5>1. \A s \in Slots : Entry(mem, TableAt(n).to, s) \in EntryType
          BY <1>10, Sources
        <5> QED
          BY <1>12, <1>16, <4>1, <5>1
      <4>4. PartTable(All, f) = [s \in Slots |-> PartTable(All, f)[s]]
        BY DEF PartTable
      <4> QED
        BY <4>2, <4>3, <4>4
    <3>3. CASE f # KernelFrame /\ ~ \E n \in Names : Copy(n) = f
      <4>1. f \notin Held(All)
        BY <3>3 DEF Held
      <4>2. Left[f] = mem[f]
        BY <4>1 DEF Left, PartMem
      <4> QED
        BY <1>1, <4>2 DEF Memories
    <3> QED
      BY <3>1, <3>2, <3>3
  <2>2. Left = [f \in Frames |-> Left[f]]
    BY DEF Left, PartMem
  <2> HIDE DEF Left
  <2> QED
    BY <2>1, <2>2 DEF Memories
<1> QED
  BY <1>11, <1>13, <1>14, <1>15, <1>19

LeftLevels ==
  [f \in Own(Cardinality(Names)) |->
     IF f = KernelFrame THEN 4 ELSE 4 - Len(CHOOSE n \in Names : Copy(n) = f)]

(* Name n is that of slot s of the table in frame f of the copy.           *)
Child(f, s, n) ==
  \/ f = KernelFrame /\ s \in Upper /\ n = <<s>>
  \/ \E i \in Upper : <<i>> \in Names /\ f = Copy(<<i>>) /\ n = <<i, s>>
  \/ \E i \in Upper : \E j \in Slots : <<i, j>> \in Names /\ f = Copy(<<i, j>>) /\ n = <<i, j, s>>

LEMMA LeftTree ==
  ASSUME AtBoot
  PROVE  Tree(Left, Cardinality(Names), LeftLevels)
PROOF
<1>1. PICK c \in 0 .. HeapTables : c = Cardinality(Names)
  BY Copies
<1>2. PICK lv : lv = LeftLevels
  OBVIOUS
<1>3. KernelFrame \in Own(c) /\ Own(c) \subseteq Frames /\ Upper \subseteq Slots /\ 0 \in Slots
  BY OwnFrames, FanAssumption DEF Upper, Slots
<1>4. \A i, j, k : Len(<<i>>) = 1 /\ Len(<<i, j>>) = 2 /\ Len(<<i, j, k>>) = 3
  OBVIOUS
<1>5. \A f \in Own(c) : lv[f] = IF f = KernelFrame THEN 4 ELSE 4 - Len(CHOOSE n \in Names : Copy(n) = f)
  BY <1>1, <1>2 DEF LeftLevels
<1>6. ASSUME NEW n \in Names PROVE Copy(n) \in Own(c) /\ Copy(n) # KernelFrame /\ lv[Copy(n)] = 4 - Len(n)
  <2>1. Copy(n) \in Own(c) /\ Copy(n) # KernelFrame /\ \A m \in Names : Copy(m) = Copy(n) => m = n
    BY <1>1, Copies
  <2>2. (CHOOSE m \in Names : Copy(m) = Copy(n)) = n
    BY <2>1
  <2> QED
    BY <1>5, <2>1, <2>2
<1>19. ASSUME NEW i, NEW j, NEW k
       PROVE  /\ <<i>> \in Names => Copy(<<i>>) \in Own(c) /\ lv[Copy(<<i>>)] = 3
              /\ <<i, j>> \in Names => Copy(<<i, j>>) \in Own(c) /\ lv[Copy(<<i, j>>)] = 2
              /\ <<i, j, k>> \in Names => Copy(<<i, j, k>>) \in Own(c) /\ lv[Copy(<<i, j, k>>)] = 1
  <2>1. PICK a : a = <<i>> /\ Len(a) = 1
    BY <1>4
  <2>2. PICK b : b = <<i, j>> /\ Len(b) = 2
    BY <1>4
  <2>3. PICK d : d = <<i, j, k>> /\ Len(d) = 3
    BY <1>4
  <2>4. a \in Names => Copy(a) \in Own(c) /\ lv[Copy(a)] = 3
    <3>1. 4 - Len(a) = 3
      BY <2>1
    <3> QED
      BY <1>6, <3>1
  <2>5. b \in Names => Copy(b) \in Own(c) /\ lv[Copy(b)] = 2
    <3>1. 4 - Len(b) = 2
      BY <2>2
    <3> QED
      BY <1>6, <3>1
  <2>6. d \in Names => Copy(d) \in Own(c) /\ lv[Copy(d)] = 1
    <3>1. 4 - Len(d) = 1
      BY <2>3
    <3> QED
      BY <1>6, <3>1
  <2> QED
    BY <2>1, <2>2, <2>3, <2>4, <2>5, <2>6
<1>7. lv[KernelFrame] = 4
  BY <1>3, <1>5
<1>8. \A f \in Own(c) \ {KernelFrame} : \E n \in Names : Copy(n) = f
  BY <1>1, Copies
<1>9. \A n, m \in Names : Copy(n) = Copy(m) => n = m
  BY Copies
<1>10. Absent.large = FALSE /\ ~IsLink(Absent) /\ \A n : Link(n).large = FALSE /\ Link(n).to = n
  BY DEF Absent, Link, IsLink, Present
(* Entries of the four kinds of table.                                     *)
<1>11. ASSUME NEW f \in Own(c)
       PROVE  \/ f = KernelFrame
              \/ \E i \in Upper : <<i>> \in Names /\ f = Copy(<<i>>)
              \/ \E i \in Upper : \E j \in Slots : <<i, j>> \in Names /\ f = Copy(<<i, j>>)
              \/ \E i \in Upper : \E j, k \in Slots : <<i, j, k>> \in Names /\ f = Copy(<<i, j, k>>)
  BY <1>8, NamesAre
<1>12. ASSUME NEW f \in Own(c), NEW s \in Slots
       PROVE  /\ Left[f][s].large => lv[f] <= 2 /\ (lv[f] = 2 => Spans(Left[f][s]))
              /\ LinkIn(Left, lv, f, s) => \E n \in Names : /\ Child(f, s, n)
                                                             /\ Left[f][s].to = Copy(n)
                                                             /\ lv[Copy(n)] = lv[f] - 1
  <2>1. CASE f = KernelFrame
    <3>1. Left[f][s] = IF s \notin Upper THEN Absent
                       ELSE IF <<s>> \in Names THEN Link(Copy(<<s>>)) ELSE T1(s)
      BY <2>1, LeftTables
    <3>2. s \in Upper => ~T1(s).large /\ (<<s>> \in Names <=> IsLink(T1(s)))
      BY <1>3, BootSlots, NamesAre
    <3>3. ~Left[f][s].large
      BY <1>10, <3>1, <3>2
    <3>4. IsLink(Left[f][s]) => s \in Upper /\ <<s>> \in Names /\ Left[f][s].to = Copy(<<s>>)
      BY <1>10, <3>1, <3>2
    <3>5. <<s>> \in Names => lv[Copy(<<s>>)] = 3
      BY <1>19
    <3>6. s \in Upper => Child(f, s, <<s>>)
      BY <2>1 DEF Child
    <3> QED
      BY <1>7, <2>1, <3>3, <3>4, <3>5, <3>6 DEF LinkIn
  <2>2. CASE \E i \in Upper : <<i>> \in Names /\ f = Copy(<<i>>)
    <3>1. PICK i \in Upper : <<i>> \in Names /\ f = Copy(<<i>>)
      BY <2>2
    <3>2. lv[f] = 3
      BY <1>19, <3>1
    <3>3. Left[f][s] = IF <<i, s>> \in Names THEN Link(Copy(<<i, s>>)) ELSE T2(i, s)
      BY <3>1, LeftTables
    <3>4. ~T2(i, s).large /\ (<<i, s>> \in Names <=> IsLink(T2(i, s)))
      BY <1>3, <3>1, BootSlots, NamesAre
    <3>5. ~Left[f][s].large
      BY <1>10, <3>3, <3>4
    <3>6. IsLink(Left[f][s]) => <<i, s>> \in Names /\ Left[f][s].to = Copy(<<i, s>>)
      BY <1>10, <3>3, <3>4
    <3>7. <<i, s>> \in Names => lv[Copy(<<i, s>>)] = 2
      BY <1>19
    <3>8. Child(f, s, <<i, s>>)
      BY <3>1 DEF Child
    <3> QED
      BY <3>2, <3>5, <3>6, <3>7, <3>8 DEF LinkIn
  <2>3. CASE \E i \in Upper : \E j \in Slots : <<i, j>> \in Names /\ f = Copy(<<i, j>>)
    <3>1. PICK i \in Upper, j \in Slots : <<i, j>> \in Names /\ f = Copy(<<i, j>>)
      BY <2>3
    <3>2. lv[f] = 2
      BY <1>19, <3>1
    <3>3. Left[f][s] = IF <<i, j, s>> \in Names THEN Link(Copy(<<i, j, s>>)) ELSE T3(i, j, s)
      BY <3>1, LeftTables
    <3>4. (T3(i, j, s).large => Spans(T3(i, j, s))) /\ (<<i, j, s>> \in Names <=> IsLink(T3(i, j, s)))
      BY <1>3, <3>1, BootSlots, NamesAre
    <3>5. Left[f][s].large => Spans(Left[f][s])
      BY <1>10, <3>3, <3>4
    <3>6. IsLink(Left[f][s]) => <<i, j, s>> \in Names /\ Left[f][s].to = Copy(<<i, j, s>>)
      BY <1>10, <3>3, <3>4
    <3>7. <<i, j, s>> \in Names => lv[Copy(<<i, j, s>>)] = 1
      BY <1>19
    <3>8. Child(f, s, <<i, j, s>>)
      BY <3>1 DEF Child
    <3> QED
      BY <3>2, <3>5, <3>6, <3>7, <3>8 DEF LinkIn
  <2>4. CASE \E i \in Upper : \E j, k \in Slots : <<i, j, k>> \in Names /\ f = Copy(<<i, j, k>>)
    <3>1. PICK i \in Upper, j \in Slots, k \in Slots : <<i, j, k>> \in Names /\ f = Copy(<<i, j, k>>)
      BY <2>4
    <3>2. lv[f] = 1
      BY <1>19, <3>1
    <3> QED
      BY <3>2 DEF LinkIn
  <2> QED
    BY <1>11, <2>1, <2>2, <2>3, <2>4
<1>13. ASSUME NEW f \in Own(c), NEW g \in Own(c), NEW s \in Slots, NEW t \in Slots,
              NEW n \in Names, Child(f, s, n), Child(g, t, n)
       PROVE  f = g /\ s = t
  <2>1. \A a, b, d, i, j, k : /\ <<a>> # <<i, j>> /\ <<a>> # <<i, j, k>> /\ <<a, b>> # <<i, j, k>>
                              /\ <<a>> = <<i>> => a = i
                              /\ <<a, b>> = <<i, j>> => a = i /\ b = j
                              /\ <<a, b, d>> = <<i, j, k>> => a = i /\ b = j /\ d = k
    OBVIOUS
  <2>2. CASE f = KernelFrame /\ n = <<s>>
    BY <1>13, <2>1, <2>2 DEF Child
  <2>3. CASE \E i \in Upper : <<i>> \in Names /\ f = Copy(<<i>>) /\ n = <<i, s>>
    <3>1. PICK i \in Upper : f = Copy(<<i>>) /\ n = <<i, s>>
      BY <2>3
    <3>2. PICK k \in Upper : g = Copy(<<k>>) /\ n = <<k, t>>
      BY <1>13, <2>1, <3>1 DEF Child
    <3>3. i = k /\ s = t
      BY <2>1, <3>1, <3>2
    <3> QED
      BY <3>1, <3>2, <3>3
  <2>4. CASE \E i \in Upper : \E j \in Slots :
               <<i, j>> \in Names /\ f = Copy(<<i, j>>) /\ n = <<i, j, s>>
    <3>1. PICK i \in Upper, j \in Slots : f = Copy(<<i, j>>) /\ n = <<i, j, s>>
      BY <2>4
    <3>2. PICK k \in Upper, l \in Slots : g = Copy(<<k, l>>) /\ n = <<k, l, t>>
      BY <1>13, <2>1, <3>1 DEF Child
    <3>3. i = k /\ j = l /\ s = t
      BY <2>1, <3>1, <3>2
    <3> QED
      BY <3>1, <3>2, <3>3
  <2> QED
    BY <1>13, <2>2, <2>3, <2>4 DEF Child
<1>14. LinksDown(Left, c, lv)
  BY <1>6, <1>12 DEF LinksDown
<1>15. LinkedOnce(Left, c, lv)
  <2> SUFFICES ASSUME NEW f \in Own(c), NEW g \in Own(c), NEW s \in Slots, NEW t \in Slots,
                      LinkIn(Left, lv, f, s), LinkIn(Left, lv, g, t), Left[f][s].to = Left[g][t].to
               PROVE  f = g /\ s = t
    BY DEF LinkedOnce
  <2>1. PICK n \in Names : Child(f, s, n) /\ Left[f][s].to = Copy(n)
    BY <1>12
  <2>2. PICK m \in Names : Child(g, t, m) /\ Left[g][t].to = Copy(m)
    BY <1>12
  <2>3. n = m
    BY <1>9, <2>1, <2>2
  <2> QED
    BY <1>13, <2>1, <2>2, <2>3
<1>16. AllLinked(Left, c, lv)
  <2> SUFFICES ASSUME NEW g \in Own(c) \ {KernelFrame}
               PROVE  \E f \in Own(c) : \E s \in Slots : LinkIn(Left, lv, f, s) /\ Left[f][s].to = g
    BY DEF AllLinked
  <2>1. PICK n \in Names : Copy(n) = g
    BY <1>8
  <2>2. Link(g).to = g /\ IsLink(Link(g))
    <3>1. g # Nowhere
      BY <1>3, Constants
    <3> QED
      BY <3>1 DEF Link, IsLink, Present
  <2>3. CASE \E i \in Upper : n = <<i>>
    <3>1. PICK i \in Upper : n = <<i>>
      BY <2>3
    <3>2. Left[KernelFrame][i] = Link(g)
      BY <1>3, <2>1, <3>1, LeftTables
    <3> QED
      BY <1>3, <1>7, <2>2, <3>1, <3>2 DEF LinkIn
  <2>4. CASE \E i \in Upper : \E j \in Slots : n = <<i, j>>
    <3>1. PICK i \in Upper, j \in Slots : n = <<i, j>>
      BY <2>4
    <3>2. <<i>> \in Names
      BY <2>1, <3>1, NamesAre
    <3>3. Left[Copy(<<i>>)][j] = Link(g)
      BY <2>1, <3>1, <3>2, LeftTables
    <3>4. Copy(<<i>>) \in Own(c) /\ lv[Copy(<<i>>)] = 3
      BY <1>19, <3>2
    <3> QED
      BY <2>2, <3>1, <3>3, <3>4 DEF LinkIn
  <2>5. CASE \E i \in Upper : \E j, k \in Slots : n = <<i, j, k>>
    <3>1. PICK i \in Upper, j \in Slots, k \in Slots : n = <<i, j, k>>
      BY <2>5
    <3>2. <<i, j>> \in Names
      BY <2>1, <3>1, NamesAre
    <3>3. Left[Copy(<<i, j>>)][k] = Link(g)
      BY <2>1, <3>1, <3>2, LeftTables
    <3>4. Copy(<<i, j>>) \in Own(c) /\ lv[Copy(<<i, j>>)] = 2
      BY <1>19, <3>2
    <3> QED
      BY <2>2, <3>1, <3>3, <3>4 DEF LinkIn
  <2> QED
    BY <2>3, <2>4, <2>5, NamesAre
<1>17. LargeInDirectories(Left, c, lv)
  BY <1>12 DEF LargeInDirectories
<1>18. Levels(c, lv)
  <2>1. ASSUME NEW f \in Own(c) PROVE lv[f] \in 1 .. 4 /\ (lv[f] = 4 <=> f = KernelFrame)
    <3>1. CASE f = KernelFrame
      BY <1>7, <3>1
    <3>2. CASE f # KernelFrame
      <4>1. lv[f] = 3 \/ lv[f] = 2 \/ lv[f] = 1
        <5>1. CASE \E i \in Upper : <<i>> \in Names /\ f = Copy(<<i>>)
          <6>1. PICK i \in Upper : <<i>> \in Names /\ f = Copy(<<i>>)
            BY <5>1
          <6>2. lv[Copy(<<i>>)] = 3
            BY <1>19, <6>1
          <6> QED
            BY <6>1, <6>2
        <5>2. CASE \E i \in Upper : \E j \in Slots : <<i, j>> \in Names /\ f = Copy(<<i, j>>)
          BY <1>19, <5>2
        <5>3. CASE \E i \in Upper : \E j, k \in Slots : <<i, j, k>> \in Names /\ f = Copy(<<i, j, k>>)
          BY <1>19, <5>3
        <5> QED
          BY <1>11, <3>2, <5>1, <5>2, <5>3
      <4> QED
        BY <3>2, <4>1
    <3> QED
      BY <3>1, <3>2
  <2>2. lv = [f \in Own(c) |-> lv[f]]
    BY <1>1, <1>2 DEF LeftLevels
  <2> QED
    BY <2>1, <2>2 DEF Levels
<1> QED
  BY <1>1, <1>2, <1>14, <1>15, <1>16, <1>17, <1>18, LeftTables DEF Tree

(* The lower half is empty; the upper half leads where it did.             *)
LEMMA LeftWalks ==
  ASSUME AtBoot, NEW v \in Pages
  PROVE  /\ v < KERNEL_BASE => Entry2(Left, KernelFrame, v) = Absent
         /\ v < KERNEL_BASE => Walk(Left, KernelFrame, v) = Nowhere
         /\ v >= KERNEL_BASE => Walk(Left, KernelFrame, v) = Walk(mem, BootPml4, v)
PROOF
<1>1. PICK i \in Slots, j \in Slots, k \in Slots, l \in Slots :
        i = Index4(v) /\ j = Index3(v) /\ k = Index2(v) /\ l = Index1(v)
  BY Pages4
<1>2. Left \in Memories /\ KernelFrame \in Frames
  BY LeftTables, Constants
<1>3. v \in Nat /\ KERNEL_BASE \in Nat /\ (v >= KERNEL_BASE <=> i \in Upper)
  <2>1. v \in Nat /\ Fan \div 2 \in Nat
    BY Pages4, FanAssumption
  <2>2. v < KERNEL_BASE <=> i < Fan \div 2
    BY <1>1, <2>1, HalfOfPages, FirstIndexBelow
  <2> QED
    BY <1>1, <2>1, <2>2, HalfOfPages DEF Upper, Slots
<1>4. PICK e4, e3, e2, e1 : /\ e4 = Entry4(Left, KernelFrame, v) /\ e3 = Entry3(Left, KernelFrame, v)
                            /\ e2 = Entry2(Left, KernelFrame, v) /\ e1 = Entry1(Left, KernelFrame, v)
  OBVIOUS
<1>5. /\ e4 = Left[KernelFrame][i]
      /\ e3 = Entry(Left, e4.to, j) /\ e2 = Entry(Left, e3.to, k) /\ e1 = Entry(Left, e2.to, l)
  BY <1>1, <1>2, <1>4, EntryIsTyped DEF Entry4, Entry3, Entry2, Entry1
<1>6. \A f \in Frames : \A s \in Slots : Entry(Left, f, s) = Left[f][s]
  BY <1>2, EntryIsTyped
<1>7. \A m \in Memories : \A s \in Slots : Entry(m, Nowhere, s) = Absent
  BY EntryIsTyped, Constants
<1>8. Absent.to = Nowhere /\ Absent.large = FALSE /\ \A n : Link(n).to = n /\ Link(n).large = FALSE
  BY DEF Absent, Link
<1>9. CASE v < KERNEL_BASE
  <2>1. e4 = Absent
    <3>1. i \notin Upper
      BY <1>3, <1>9
    <3>2. Left[KernelFrame][i] = Absent
      BY <3>1, LeftTables
    <3> QED
      BY <1>5, <3>2
  <2>2. ~Present(e4)
    BY <1>8, <2>1 DEF Present
  <2>3. e3 = Absent
    BY <1>2, <1>4, <2>2, EndOfWay
  <2>4. ~Present(e3)
    BY <1>8, <2>3 DEF Present
  <2>5. e2 = Absent /\ Translation(Left, KernelFrame, v) = [page |-> v, span |-> 1, frame |-> Nowhere]
    BY <1>2, <1>4, <2>4, EndOfWay
  <2>6. Walk(Left, KernelFrame, v) = Nowhere
    BY <2>5 DEF Walk
  <2> QED
    BY <1>3, <1>4, <1>9, <2>5, <2>6
<1>10. CASE v >= KERNEL_BASE
  <2>1. i \in Upper
    BY <1>3, <1>10
  <2>2. PICK t1, t2, t3, b1 : t1 = T1(i) /\ t2 = T2(i, j) /\ t3 = T3(i, j, k) /\ b1 = Entry(mem, t3.to, l)
    OBVIOUS
  <2>3. /\ t1 \in EntryType /\ t2 \in EntryType /\ t3 \in EntryType
        /\ ~t1.large /\ ~t2.large
    BY <2>1, <2>2, BootSlots
  <2>4. t3 = Entry2(mem, BootPml4, v) /\ b1 = Entry1(mem, BootPml4, v)
    BY <1>1, <2>2 DEF T1, T2, T3, Entry4, Entry3, Entry2, Entry1
  <2>5. mem \in Memories
    BY BootEntries
  <2>6. /\ t2 = Entry(mem, t1.to, j) /\ t3 = Entry(mem, t2.to, k)
    BY <2>2 DEF T2, T3
  <2>7. /\ <<i>> \in Names <=> IsLink(t1)
        /\ <<i, j>> \in Names <=> IsLink(t1) /\ IsLink(t2)
        /\ <<i, j, k>> \in Names <=> IsLink(t1) /\ IsLink(t2) /\ IsLink(t3)
    BY <2>1, <2>2, NamesAre
  <2>8. \A n \in Names : Copy(n) \in Frames
    BY Copies, OwnFrames
  <2>9. \A e \in EntryType : ~e.large /\ ~IsLink(e) => e.to = Nowhere
    BY DEF IsLink, Present
  <2>10. e4 = IF <<i>> \in Names THEN Link(Copy(<<i>>)) ELSE t1
    BY <1>5, <2>1, <2>2, LeftTables
  <2>11. e3 = IF <<i, j>> \in Names THEN Link(Copy(<<i, j>>)) ELSE t2
    <3>1. CASE <<i>> \in Names
      <4>1. e3 = Left[Copy(<<i>>)][j]
        BY <1>5, <1>6, <1>8, <2>8, <2>10, <3>1
      <4> QED
        BY <2>1, <2>2, <3>1, <4>1, LeftTables
    <3>2. CASE <<i>> \notin Names
      <4>1. t1.to = Nowhere
        BY <2>3, <2>7, <2>9, <3>2
      <4>2. t2 = Absent /\ e3 = Absent
        BY <1>2, <1>5, <1>7, <2>5, <2>6, <2>10, <3>2, <4>1
      <4>3. <<i, j>> \notin Names
        BY <2>7, <3>2
      <4> QED
        BY <4>2, <4>3
    <3> QED
      BY <3>1, <3>2
  <2>12. e2 = IF <<i, j, k>> \in Names THEN Link(Copy(<<i, j, k>>)) ELSE t3
    <3>1. CASE <<i, j>> \in Names
      <4>1. e2 = Left[Copy(<<i, j>>)][k]
        BY <1>5, <1>6, <1>8, <2>8, <2>11, <3>1
      <4> QED
        BY <2>1, <2>2, <3>1, <4>1, LeftTables
    <3>2. CASE <<i, j>> \notin Names
      <4>1. t2.to = Nowhere
        <5>1. ~IsLink(t1) => t1.to = Nowhere
          BY <2>3, <2>9
        <5>2. ~IsLink(t1) => t2 = Absent
          BY <1>7, <2>5, <2>6, <5>1
        <5> QED
          BY <1>8, <2>3, <2>7, <2>9, <3>2, <5>2
      <4>2. t3 = Absent /\ e2 = Absent
        BY <1>2, <1>5, <1>7, <2>5, <2>6, <2>11, <3>2, <4>1
      <4>3. <<i, j, k>> \notin Names
        BY <2>7, <3>2
      <4> QED
        BY <4>2, <4>3
    <3> QED
      BY <3>1, <3>2
  <2>13. e2.large <=> t3.large
    BY <1>8, <2>7, <2>12 DEF IsLink
  <2>14. t3.large => e2 = t3
    BY <2>7, <2>12 DEF IsLink
  <2>15. ~t3.large => e1 = b1
    <3>1. CASE <<i, j, k>> \in Names
      <4>1. e1 = Left[Copy(<<i, j, k>>)][l]
        BY <1>5, <1>6, <1>8, <2>8, <2>12, <3>1
      <4> QED
        BY <2>1, <2>2, <3>1, <4>1, LeftTables
    <3>2. CASE <<i, j, k>> \notin Names /\ ~t3.large
      <4>1. e2 = t3
        BY <2>12, <3>2
      <4>2. t3.to = Nowhere
        <5>1. ~IsLink(t1) => t1.to = Nowhere
          BY <2>3, <2>9
        <5>2. ~IsLink(t1) => t2 = Absent
          BY <1>7, <2>5, <2>6, <5>1
        <5>3. ~IsLink(t2) => t2.to = Nowhere
          BY <2>3, <2>9
        <5>4. ~IsLink(t2) => t3 = Absent
          BY <1>7, <2>5, <2>6, <5>3
        <5>5. ~IsLink(t1) => ~IsLink(t2)
          BY <1>8, <5>2 DEF IsLink, Present
        <5> QED
          BY <1>8, <2>3, <2>7, <2>9, <3>2, <5>4, <5>5
      <4> QED
        BY <1>2, <1>5, <1>7, <2>2, <2>5, <4>1, <4>2
    <3> QED
      BY <3>1, <3>2
  <2>16. Translation(Left, KernelFrame, v) = Translation(mem, BootPml4, v)
    <3>1. Translation(Left, KernelFrame, v) =
            IF e2.large THEN [page |-> v - Index1(v), span |-> Fan, frame |-> e2.to]
            ELSE [page |-> v, span |-> 1, frame |-> e1.to]
      BY <1>4, TranslationByEntries
    <3>2. Translation(mem, BootPml4, v) =
            IF t3.large THEN [page |-> v - Index1(v), span |-> Fan, frame |-> t3.to]
            ELSE [page |-> v, span |-> 1, frame |-> b1.to]
      BY <2>4, TranslationByEntries
    <3> QED
      BY <2>13, <2>14, <2>15, <3>1, <3>2
  <2>17. Walk(Left, KernelFrame, v) = Walk(mem, BootPml4, v)
    BY <2>16 DEF Walk
  <2> QED
    BY <1>3, <1>10, <2>17
<1> QED
  BY <1>3, <1>9, <1>10

(***************************************************************************)
(* The invariant.                                                          *)
(***************************************************************************)
State == [mem |-> mem, tables |-> tables, at |-> KernelFrame, tlb |-> tlb]

LowerEmpty == \A v \in 0 .. KERNEL_BASE - 1 : Walk(mem, KernelFrame, v) = Nowhere

BootInv == mode = "boot" => /\ mem = BootLoaded /\ tables = 0 /\ cr3 = BootPml4
                            /\ asked = [op |-> "boot"]

(* The tables are a tree that leads each page where it should and the TLB  *)
(* knows; until the kernel maps anything the lower half is empty.          *)
CallsInv ==
  mode = "kernel" => /\ cr3 = KernelFrame /\ Kernel(State)
                     /\ asked.op # "boot"
                     /\ asked.op = "leave" => asked = [op |-> "leave"] /\ LowerEmpty

KernelInv ==
  /\ mem \in Memories /\ tables \in 0 .. HeapTables /\ cr3 \in Frames /\ tlb \in SUBSET Cached
  /\ mode \in {"boot", "kernel", "fault"}
  /\ BootInv
  /\ CallsInv
  /\ KernelMapped

Sound == BootSound /\ CallersSound

LEMMA InitSound ==
  ASSUME Sound, Init
  PROVE  KernelInv
PROOF
<1>1. AtBoot
  BY DEF AtBoot, Sound, Init, BootLoaded
<1>2. mem \in Memories
  BY <1>1, BootEntries
<1>3. Alike(mem)
  BY <1>2 DEF Alike, Memories
<1>4. KernelMapped
  BY <1>1, <1>3, ImagePage DEF KernelMapped, Init
<1> QED
  BY <1>1, <1>2, <1>4, Constants DEF KernelInv, BootInv, CallsInv, Init, AtBoot

LEMMA Leaving ==
  ASSUME Sound, KernelInv, setup_paging
  PROVE  /\ KernelInv' /\ mode' = "kernel"
         /\ \A v \in Pages : Walk(mem', cr3', v) =
                               IF v < KERNEL_BASE THEN Nowhere ELSE Walk(mem, cr3, v)
PROOF
<1>1. AtBoot /\ cr3 = BootPml4
  BY DEF setup_paging, KernelInv, BootInv, Sound, AtBoot
<1>2. Alike(mem) /\ Alike(Left)
  BY <1>1, BootEntries, PartAlike DEF Alike, Memories, Left
<1>3. /\ virt_to_phys(Left, KERNEL_BASE) = KernelFrame /\ KernelFrame # Nowhere
  <2>1. 0 \in 0 .. KernelPages - 1 /\ KERNEL_BASE + 0 = KERNEL_BASE /\ KernelFrame + 0 = KernelFrame
    BY Constants, PagingAssumption
  <2> QED
    BY <1>1, <1>2, <2>1, Constants, ImagePage
<1>4. /\ mem' = Left /\ tables' = Cardinality(Names) /\ cr3' = KernelFrame
      /\ mode' = "kernel" /\ tlb' = {} /\ asked' = [op |-> "leave"]
  <2>1. PICK s : s = CopyTree
    OBVIOUS
  <2>2. s.mem = Left /\ s.tables = Cardinality(Names) /\ s.at # Nowhere
    BY <1>1, <2>1, TreeCopied
  <2> QED
    BY <1>3, <2>1, <2>2 DEF setup_paging
<1>5. PICK t : t = State'
  OBVIOUS
<1>6. t = [mem |-> Left, tables |-> Cardinality(Names), at |-> KernelFrame, tlb |-> {}]
  BY <1>4, <1>5 DEF State
<1>7. Tree(Left, Cardinality(Names), LeftLevels)
  BY <1>1, LeftTree
<1>8. t \in CallType /\ HasTree(t)
  BY <1>6, <1>7, TreeRoot, Constants DEF CallType, HasTree
<1>9. Sorted(t.mem)
  <2>1. \A v \in 0 .. KERNEL_BASE - 1 : Entry2(Left, KernelFrame, v) = Absent
    BY <1>1, HalfOfPages, LeftWalks
  <2>2. ~IsLink(Absent) /\ ~Absent.large
    BY DEF Absent, IsLink, Present
  <2> QED
    BY <1>6, <2>1, <2>2 DEF Sorted
<1>10. TlbExact(t)
  BY <1>6 DEF TlbExact
<1>11. ImageMapped(Left)
  <2> SUFFICES ASSUME NEW i \in 0 .. KernelPages - 1
               PROVE  Walk(Left, KernelFrame, KERNEL_BASE + i) = KernelFrame + i
    BY DEF ImageMapped
  <2>1. KERNEL_BASE + i \in Pages /\ KERNEL_BASE + i >= KERNEL_BASE
    BY <1>1, <1>2, ImagePage, Constants
  <2> QED
    BY <1>1, <1>2, <2>1, ImagePage, LeftWalks
<1>12. Kernel(t)
  BY <1>6, <1>8, <1>9, <1>10, <1>11 DEF Kernel
<1>13. LowerEmpty'
  <2>1. \A v \in 0 .. KERNEL_BASE - 1 : Walk(Left, KernelFrame, v) = Nowhere
    BY <1>1, HalfOfPages, LeftWalks
  <2> QED
    BY <1>4, <2>1 DEF LowerEmpty
<1>14. KernelMapped'
  BY <1>4, <1>11 DEF KernelMapped, ImageMapped
<1>15. mem' \in Memories /\ tables' \in 0 .. HeapTables /\ cr3' \in Frames /\ tlb' \in SUBSET Cached
  BY <1>4, <1>7, TreeRoot, Constants
<1>16. CallsInv'
  BY <1>4, <1>5, <1>12, <1>13 DEF CallsInv
<1>17. KernelInv'
  BY <1>4, <1>14, <1>15, <1>16 DEF KernelInv, BootInv
<1>18. \A v \in Pages : Walk(mem', cr3', v) = IF v < KERNEL_BASE THEN Nowhere ELSE Walk(mem, cr3, v)
  <2> SUFFICES ASSUME NEW v \in Pages
               PROVE  Walk(Left, KernelFrame, v) =
                        IF v < KERNEL_BASE THEN Nowhere ELSE Walk(mem, BootPml4, v)
    BY <1>1, <1>4
  <2>1. v \in Nat /\ KERNEL_BASE \in Nat
    BY Pages4, Constants
  <2> QED
    BY <1>1, <2>1, LeftWalks
<1> QED
  BY <1>4, <1>17, <1>18

(***************************************************************************)
(* The calls keep it.                                                      *)
(***************************************************************************)
LEMMA StartIsState == Start = State
BY DEF Start, State, Pml4Frame

LEMMA Finished ==
  ASSUME KernelInv, mode = "kernel", NEW t, Kernel(t), Finish(t), asked'.op \notin {"boot", "leave"}
  PROVE  /\ KernelInv' /\ mem' = t.mem /\ cr3' = KernelFrame /\ cr3 = KernelFrame
         /\ mode' = IF t.at = Nowhere THEN "fault" ELSE "kernel"
PROOF
<1>1. /\ mem' = t.mem /\ tables' = t.tables /\ tlb' = t.tlb /\ cr3' = cr3
      /\ mode' = IF t.at = Nowhere THEN "fault" ELSE "kernel"
  BY DEF Finish
<1>2. cr3 = KernelFrame
  BY DEF KernelInv, CallsInv
<1>3. /\ t.mem \in Memories /\ t.tables \in 0 .. HeapTables /\ t.tlb \in SUBSET Cached
      /\ HasTree(t) /\ Sorted(t.mem) /\ TlbExact(t) /\ ImageMapped(t.mem)
  BY CallFields DEF Kernel
<1>4. PICK s : s = State'
  OBVIOUS
<1>5. s = [mem |-> t.mem, tables |-> t.tables, at |-> KernelFrame, tlb |-> t.tlb]
  BY <1>1, <1>4 DEF State
<1>6. s \in CallType
  BY <1>3, <1>5, Constants DEF CallType
<1>7. Kernel(s)
  BY <1>3, <1>5, <1>6 DEF Kernel, HasTree, TlbExact
<1>8. CallsInv'
  BY <1>1, <1>2, <1>4, <1>7 DEF CallsInv
<1>9. BootInv'
  BY <1>1 DEF BootInv
<1>10. KernelMapped'
  BY <1>1, <1>2, <1>3 DEF KernelMapped, ImageMapped
<1>11. mode' \in {"boot", "kernel", "fault"} /\ cr3' \in Frames
  BY <1>1, <1>2, Constants
<1>12. mem' \in Memories /\ tables' \in 0 .. HeapTables /\ tlb' \in SUBSET Cached
  BY <1>1, <1>3
<1> QED
  BY <1>1, <1>2, <1>8, <1>9, <1>10, <1>11, <1>12 DEF KernelInv

(* What the callers ask for.                                               *)
LEMMA Callers ==
  ASSUME Sound
  PROVE  /\ ImageFits
         /\ \A r \in SmallRuns : SmallRun(r)
         /\ \A r \in UnmapRuns : SmallPage(r)
         /\ \A r \in LargeRuns : LargeRun(r)
         /\ \A d \in Rsdps : d.page \in Pages /\ d.page \in Frames /\ d.page < KERNEL_BASE /\ ~InLarge(d.page)
PROOF
<1>1. ImageFits
  BY DEF Sound, BootSound, ImageFits
<1>2. \A r \in SmallRuns : SmallRun(r)
  BY DEF Sound, CallersSound, SmallRun
<1>3. \A r \in UnmapRuns : SmallPage(r)
  BY DEF Sound, CallersSound, SmallPage, RunType
<1>4. \A r \in LargeRuns : LargeRun(r)
  BY DEF Sound, CallersSound, LargeRun, InLarge
<1>5. \A d \in Rsdps : d.page \in Pages /\ d.page \in Frames /\ d.page < KERNEL_BASE /\ ~InLarge(d.page)
  BY DEF Sound, CallersSound
<1> QED
  BY <1>1, <1>2, <1>3, <1>4, <1>5

LEMMA Mapping4k ==
  ASSUME Sound, KernelInv, NEW r \in SmallRuns, map_4k(r)
  PROVE  /\ KernelInv' /\ cr3 = KernelFrame /\ cr3' = KernelFrame
         /\ \E k \in 0 .. r.count : /\ (mode' = "fault") <=> k < r.count
                                    /\ RunMapped(mem, mem', r.page, r.frame, k)
PROOF
<1>1. mode = "kernel" /\ asked'.op = "map" /\ Finish(Loop(MapSmall, r))
  BY DEF map_4k, Ask
<1>2. cr3 = KernelFrame /\ Kernel(Start)
  BY <1>1, StartIsState DEF KernelInv, CallsInv
<1>3. AllUnmapped(mem, r.page, r.count)
  <2>1. r.page \in Nat /\ r.count \in Nat
    BY Callers, Pages4 DEF SmallRun, RunType
  <2>2. \A i \in 0 .. r.count - 1 : r.page + i \in r.page .. r.page + r.count - 1
    BY <2>1
  <2> QED
    BY <1>2, <2>2 DEF map_4k, Unmapped, AllUnmapped
<1>4. PICK t : t = Loop(MapSmall, r)
  OBVIOUS
<1>5. /\ Kernel(t)
      /\ \E k \in 0 .. r.count : /\ t.at = Nowhere <=> k < r.count
                                 /\ RunMapped(mem, t.mem, r.page, r.frame, k)
  BY <1>2, <1>3, <1>4, Callers, MapSmallSound
<1>6. /\ KernelInv' /\ mem' = t.mem /\ cr3' = KernelFrame
      /\ mode' = IF t.at = Nowhere THEN "fault" ELSE "kernel"
  BY <1>1, <1>4, <1>5, Finished
<1>7. (mode' = "fault") <=> t.at = Nowhere
  BY <1>6
<1> QED
  BY <1>2, <1>5, <1>6, <1>7

LEMMA Mapping2m ==
  ASSUME Sound, KernelInv, NEW r \in LargeRuns, map_2m(r)
  PROVE  /\ KernelInv' /\ cr3 = KernelFrame /\ cr3' = KernelFrame
         /\ \E k \in 0 .. Fan : /\ (mode' = "fault") <=> k < Fan
                                /\ RunMapped(mem, mem', r.page, r.frame, k)
PROOF
<1>1. mode = "kernel" /\ asked'.op = "map" /\ Finish(Loop(MapLarge, r))
  BY DEF map_2m, Ask
<1>2. cr3 = KernelFrame /\ Kernel(Start)
  BY <1>1, StartIsState DEF KernelInv, CallsInv
<1>3. AllUnmapped(mem, r.page, Fan)
  <2>1. r.page \in Nat /\ r.count = 1 /\ Fan \in Nat
    BY Callers, Pages4, FanAssumption DEF LargeRun, RunType
  <2>2. r.count * Fan = Fan
    BY <2>1
  <2>3. \A i \in 0 .. Fan - 1 : r.page + i \in r.page .. r.page + Fan - 1
    BY <2>1
  <2> QED
    BY <1>2, <2>2, <2>3 DEF map_2m, Unmapped, AllUnmapped
<1>4. PICK t : t = Loop(MapLarge, r)
  OBVIOUS
<1>5. /\ Kernel(t)
      /\ \E k \in {0, Fan} : /\ t.at = Nowhere <=> k < Fan
                             /\ RunMapped(mem, t.mem, r.page, r.frame, k)
  BY <1>2, <1>3, <1>4, Callers, MapLargeSound
<1>6. /\ KernelInv' /\ mem' = t.mem /\ cr3' = KernelFrame
      /\ mode' = IF t.at = Nowhere THEN "fault" ELSE "kernel"
  BY <1>1, <1>4, <1>5, Finished
<1>7. (mode' = "fault") <=> t.at = Nowhere
  BY <1>6
<1>8. {0, Fan} \subseteq 0 .. Fan
  BY FanAssumption
<1> QED
  BY <1>2, <1>5, <1>6, <1>7, <1>8

LEMMA Unmapping4k ==
  ASSUME Sound, KernelInv, NEW r \in UnmapRuns, unmap_4k(r)
  PROVE  /\ KernelInv' /\ cr3 = KernelFrame /\ cr3' = KernelFrame /\ mode' = mode
         /\ \A w \in Pages : Walk(mem', KernelFrame, w) =
                               IF w = r.page THEN Nowhere ELSE Walk(mem, KernelFrame, w)
PROOF
<1>1. mode = "kernel" /\ asked'.op = "unmap" /\ Finish(Loop(UnmapSmall, r))
  BY DEF unmap_4k, Ask
<1>2. cr3 = KernelFrame /\ Kernel(Start)
  BY <1>1, StartIsState DEF KernelInv, CallsInv
<1>3. Start.mem = mem /\ Start.at # Nowhere
  BY Constants DEF Start, Pml4Frame
<1>4. SmallPage(r) /\ ImageFits
  BY Callers
<1>5. PICK t : t = UnmapSmall(Start, r, 0)
  OBVIOUS
<1>6. Finish(t)
  BY <1>1, <1>3, <1>4, <1>5, LoopOfUnmapSmall DEF SmallPage
<1>7. PICK s : s = Start
  OBVIOUS
<1>8. /\ Kernel(t) /\ t.at # Nowhere
      /\ \A w \in Pages : Walk(t.mem, KernelFrame, w) =
                            IF w = r.page THEN Nowhere ELSE Walk(s.mem, KernelFrame, w)
  BY <1>2, <1>4, <1>5, <1>7, UnmapSmallSound
<1>9. KernelInv' /\ mem' = t.mem /\ cr3' = KernelFrame /\ mode' = "kernel"
  BY <1>1, <1>6, <1>8, Finished
<1> QED
  BY <1>1, <1>2, <1>3, <1>7, <1>8, <1>9

LEMMA Unmapping2m ==
  ASSUME Sound, KernelInv, NEW r \in LargeRuns, unmap_2m(r)
  PROVE  /\ KernelInv' /\ cr3 = KernelFrame /\ cr3' = KernelFrame /\ mode' = mode
         /\ \A w \in Pages : Walk(mem', KernelFrame, w) =
                               IF Within(w, r.page, Fan) THEN Nowhere ELSE Walk(mem, KernelFrame, w)
PROOF
<1>1. mode = "kernel" /\ asked'.op = "unmap" /\ Finish(Loop(UnmapLarge, r))
  BY DEF unmap_2m, Ask
<1>2. cr3 = KernelFrame /\ Kernel(Start)
  BY <1>1, StartIsState DEF KernelInv, CallsInv
<1>3. Start.mem = mem /\ Start.at # Nowhere
  BY Constants DEF Start, Pml4Frame
<1>4. LargeRun(r) /\ ImageFits
  BY Callers
<1>5. PICK t : t = UnmapLarge(Start, r, 0)
  OBVIOUS
<1>6. Finish(t)
  BY <1>1, <1>3, <1>4, <1>5, LoopOfUnmapLarge DEF LargeRun
<1>7. PICK s : s = Start
  OBVIOUS
<1>8. /\ Kernel(t) /\ t.at # Nowhere
      /\ \A w \in Pages : Walk(t.mem, KernelFrame, w) =
                            IF Within(w, r.page, Fan) THEN Nowhere ELSE Walk(s.mem, KernelFrame, w)
  BY <1>2, <1>4, <1>5, <1>7, UnmapLargeSound
<1>9. KernelInv' /\ mem' = t.mem /\ cr3' = KernelFrame /\ mode' = "kernel"
  BY <1>1, <1>6, <1>8, Finished
<1> QED
  BY <1>1, <1>2, <1>3, <1>7, <1>8, <1>9

(* The CPU caches what it walks to.                                        *)
LEMMA Caching ==
  ASSUME NEW s, Kernel(s), NEW v \in Pages, Walk(s.mem, KernelFrame, v) # Nowhere,
         NEW t, t = [s EXCEPT !.tlb = @ \cup {Translation(s.mem, KernelFrame, v)}]
  PROVE  Kernel(t) /\ t.mem = s.mem /\ t.at = s.at /\ t.tables = s.tables
PROOF
<1>1. PICK e : e = Translation(s.mem, KernelFrame, v)
  OBVIOUS
<1>2. PICK lv : Tree(s.mem, s.tables, lv)
  BY DEF Kernel, HasTree
<1>3. e \in Cached
  BY <1>1, <1>2, WalkOf
<1>4. /\ t.mem = s.mem /\ t.tables = s.tables /\ t.at = s.at /\ t.tlb = s.tlb \cup {e}
      /\ t \in CallType
  <2>1. s \in CallType
    BY DEF Kernel
  <2>2. t = [mem |-> s.mem, tables |-> s.tables, at |-> s.at, tlb |-> s.tlb \cup {e}]
    <3>1. s = [mem |-> s.mem, tables |-> s.tables, at |-> s.at, tlb |-> s.tlb]
      BY <2>1, CallFields
    <3>2. t = [s EXCEPT !.tlb = s.tlb \cup {e}]
      BY <1>1, <3>1
    <3> QED
      BY <3>1, <3>2
  <2> QED
    BY <1>3, <2>1, <2>2, CallFields DEF CallType
<1>5. ASSUME NEW w \in e.page .. e.page + e.span - 1
      PROVE  w \in Pages /\ Translation(s.mem, KernelFrame, w) = e
  <2>1. PICK e2 : e2 = Entry2(s.mem, KernelFrame, v)
    OBVIOUS
  <2>2. v \in Nat /\ e.page \in Nat /\ Fan \in Nat
    BY <1>3, Pages4, Powers DEF Cached
  <2>3. CASE ~e2.large
    <3>1. e.page = v /\ e.span = 1
      BY <1>1, <2>1, <2>3, TranslationByEntries
    <3>2. w = v
      BY <2>2, <3>1
    <3> QED
      BY <1>1, <3>2
  <2>4. CASE e2.large
    <3>1. e = [page |-> v - Index1(v), span |-> Fan, frame |-> e2.to]
      BY <1>1, <2>1, <2>4, TranslationByEntries
    <3>2. w \in v - Index1(v) .. v - Index1(v) + Fan - 1 /\ w \in Int
      BY <2>2, <3>1
    <3>3. w \in Nat /\ w \div Fan = v \div Fan /\ w - (v - Index1(v)) = Index1(w)
      BY <2>2, <3>2, BlockOf
    <3>4. w \in Pages
      <4>1. Index4(w) = Index4(v) /\ Index4(v) \in Slots
        BY <2>2, <3>3, SameBlock, Pages4
      <4>2. w < Fan * Fan * Fan * Fan
        BY <2>2, <3>3, <4>1, FirstIndexBelow DEF Slots
      <4> QED
        BY <3>3, <4>2, Powers DEF Pages
    <3>5. Entry2(s.mem, KernelFrame, w) = e2
      BY <2>1, <2>2, <3>3, <3>4, SameBlock DEF Entry2, Entry3, Entry4
    <3>6. w - Index1(w) = v - Index1(v)
      <4>1. Index1(w) \in Int /\ Index1(v) \in Int
        BY <3>4, Pages4 DEF Slots
      <4> QED
        BY <2>2, <3>3, <4>1
    <3> QED
      BY <2>4, <3>1, <3>4, <3>5, <3>6, TranslationByEntries
  <2> QED
    BY <2>3, <2>4
<1>6. TlbExact(t)
  BY <1>4, <1>5 DEF Kernel, TlbExact
<1> QED
  BY <1>4, <1>6 DEF Kernel, HasTree

LEMMA Touching ==
  ASSUME Sound, KernelInv, NEW v \in Touched, Touch(v)
  PROVE  KernelInv'
PROOF
<1>1. /\ mode = "kernel" /\ mode' = mode /\ Walk(mem, cr3, v) # Nowhere
      /\ mem' = mem /\ tables' = tables /\ cr3' = cr3 /\ asked' = asked
      /\ tlb' = tlb \cup {Translation(mem, cr3, v)}
  BY DEF Touch
<1>2. cr3 = KernelFrame /\ Kernel(State) /\ v \in Pages
  BY <1>1 DEF KernelInv, CallsInv, Sound, CallersSound
<1>3. PICK s : s = State
  OBVIOUS
<1>4. PICK t : t = State'
  OBVIOUS
<1>5. s.mem = mem /\ t = [s EXCEPT !.tlb = @ \cup {Translation(s.mem, KernelFrame, v)}]
  BY <1>1, <1>2, <1>3, <1>4 DEF State
<1>6. Kernel(t)
  BY <1>1, <1>2, <1>3, <1>5, Caching
<1>7. tlb' \in SUBSET Cached
  <2>1. t.tlb = tlb'
    BY <1>4 DEF State
  <2> QED
    BY <1>6, <2>1, CallFields DEF Kernel
<1>8. CallsInv'
  <2>1. LowerEmpty => LowerEmpty'
    BY <1>1 DEF LowerEmpty
  <2> QED
    BY <1>1, <1>2, <1>4, <1>6, <2>1 DEF CallsInv, KernelInv
<1>9. BootInv' /\ KernelMapped'
  BY <1>1 DEF BootInv, KernelInv, KernelMapped
<1> QED
  BY <1>1, <1>7, <1>8, <1>9 DEF KernelInv

(* parseRSDP leaves things as they were, or runs out half way.             *)
LEMMA Borrowing ==
  ASSUME Sound, KernelInv, NEW d \in Rsdps, parseRSDP(d)
  PROVE  /\ KernelInv' /\ cr3 = KernelFrame /\ cr3' = KernelFrame
         /\ asked = [op |-> "leave"] /\ asked' = [op |-> "borrow"]
         /\ \/ /\ mode' = "kernel"
               /\ \A w \in Pages : Walk(mem', KernelFrame, w) = Walk(mem, KernelFrame, w)
            \/ /\ mode' = "fault"
               /\ \E k \in 0 .. 1 : RunMapped(mem, mem', d.page, d.page, k)
PROOF
<1>1. mode = "kernel" /\ asked.op = "leave" /\ asked' = [op |-> "borrow"]
  BY DEF parseRSDP
<1>2. cr3 = KernelFrame /\ Kernel(Start) /\ asked = [op |-> "leave"] /\ LowerEmpty
  BY <1>1, StartIsState DEF KernelInv, CallsInv
<1>3. /\ d.page \in Pages /\ d.page \in Frames /\ d.page < KERNEL_BASE /\ ~InLarge(d.page)
      /\ d.page \in Nat /\ ImageFits
  BY Callers, Pages4
<1>4. PICK r : r = [page |-> d.page, frame |-> d.page, count |-> 1]
  OBVIOUS
<1>5. r.page = d.page /\ r.frame = d.page /\ r.count = 1
  BY <1>4
<1>6. SmallRun(r) /\ SmallPage(r)
  <2>1. \A i \in 0 .. r.count - 1 : r.page + i = d.page /\ r.frame + i = d.page
    BY <1>3, <1>5
  <2>2. r \in RunType
    BY <1>3, <1>4 DEF RunType
  <2> QED
    BY <1>3, <1>5, <2>1, <2>2 DEF SmallRun, SmallPage
<1>7. AllUnmapped(mem, r.page, r.count)
  <2>1. \A i \in 0 .. r.count - 1 : r.page + i = d.page
    BY <1>3, <1>5
  <2>2. d.page \in 0 .. KERNEL_BASE - 1
    BY <1>3, Constants
  <2> QED
    BY <1>2, <2>1, <2>2 DEF AllUnmapped, LowerEmpty
<1>8. PICK m : m = Loop(MapSmall, r)
  OBVIOUS
<1>9. Kernel(m)
  BY <1>2, <1>3, <1>6, <1>7, <1>8, MapSmallSound
<1>10. PICK k \in 0 .. 1 : /\ m.at = Nowhere <=> k < 1
                           /\ RunMapped(mem, m.mem, d.page, d.page, k)
  BY <1>2, <1>3, <1>5, <1>6, <1>7, <1>8, MapSmallSound
<1>11. PICK read : read = [m EXCEPT !.tlb = @ \cup {Translation(m.mem, KernelFrame, d.page)}]
  OBVIOUS
<1>12. \/ Finish([m EXCEPT !.at = Nowhere])
       \/ m.at # Nowhere /\ Finish(UnmapSmall(read, r, 0))
  BY <1>2, <1>4, <1>8, <1>11 DEF parseRSDP
<1>13. CASE Finish([m EXCEPT !.at = Nowhere])
  <2>1. PICK t : t = [m EXCEPT !.at = Nowhere]
    OBVIOUS
  <2>2. t = [mem |-> m.mem, tables |-> m.tables, at |-> Nowhere, tlb |-> m.tlb]
    <3>1. m = [mem |-> m.mem, tables |-> m.tables, at |-> m.at, tlb |-> m.tlb]
      BY <1>9, CallFields DEF Kernel
    <3> QED
      BY <2>1, <3>1
  <2>3. t \in CallType
    BY <1>9, <2>2, CallFields DEF Kernel, CallType
  <2>4. Kernel(t)
    BY <1>9, <2>2, <2>3 DEF Kernel, HasTree, TlbExact
  <2>5. KernelInv' /\ mem' = t.mem /\ cr3' = KernelFrame /\ mode' = "fault"
    <3>1. Finish(t)
      BY <1>13, <2>1
    <3> QED
      BY <1>1, <2>2, <2>4, <3>1, Finished
  <2> QED
    BY <1>1, <1>2, <1>10, <2>2, <2>5
<1>14. CASE m.at # Nowhere /\ Finish(UnmapSmall(read, r, 0))
  <2>1. k = 1
    BY <1>10, <1>14
  <2>2. /\ Walk(m.mem, KernelFrame, d.page) = d.page
        /\ \A w \in Pages : w # d.page => Walk(m.mem, KernelFrame, w) = Walk(mem, KernelFrame, w)
    <3>1. \A w \in Pages : Within(w, d.page, 1) <=> w = d.page
      BY <1>3, Pages4 DEF Within
    <3>2. d.page + (d.page - d.page) = d.page
      BY <1>3
    <3> QED
      BY <1>3, <1>10, <2>1, <3>1, <3>2 DEF RunMapped
  <2>3. d.page # Nowhere
    BY <1>3 DEF Nowhere
  <2>4. Kernel(read) /\ read.mem = m.mem
    BY <1>3, <1>9, <1>11, <2>2, <2>3, Caching
  <2>5. PICK t : t = UnmapSmall(read, r, 0)
    OBVIOUS
  <2>6. /\ Kernel(t) /\ t.at # Nowhere
        /\ \A w \in Pages : Walk(t.mem, KernelFrame, w) =
                              IF w = r.page THEN Nowhere ELSE Walk(read.mem, KernelFrame, w)
    BY <1>3, <1>6, <2>4, <2>5, UnmapSmallSound
  <2>7. KernelInv' /\ mem' = t.mem /\ cr3' = KernelFrame /\ mode' = "kernel"
    <3>1. Finish(t)
      BY <1>14, <2>5
    <3> QED
      BY <1>1, <2>6, <3>1, Finished
  <2>8. Walk(mem, KernelFrame, d.page) = Nowhere
    <3>1. 0 \in 0 .. r.count - 1 /\ d.page + 0 = d.page
      BY <1>3, <1>5
    <3> QED
      BY <1>5, <1>7, <3>1 DEF AllUnmapped
  <2>9. \A w \in Pages : Walk(mem', KernelFrame, w) = Walk(mem, KernelFrame, w)
    BY <1>5, <2>2, <2>4, <2>6, <2>7, <2>8
  <2> QED
    BY <1>1, <1>2, <2>7, <2>9
<1> QED
  BY <1>12, <1>13, <1>14

LEMMA Stutter ==
  ASSUME KernelInv, UNCHANGED vars
  PROVE  KernelInv'
BY DEF vars, KernelInv, BootInv, CallsInv, KernelMapped, State, LowerEmpty

LEMMA NextSound ==
  ASSUME Sound, KernelInv, [Next]_vars
  PROVE  KernelInv'
PROOF
<1>1. CASE setup_paging
  BY <1>1, Leaving
<1>2. ASSUME NEW d \in Rsdps, parseRSDP(d) PROVE KernelInv'
  BY <1>2, Borrowing
<1>3. ASSUME NEW r \in SmallRuns, map_4k(r) PROVE KernelInv'
  BY <1>3, Mapping4k
<1>4. ASSUME NEW r \in UnmapRuns, unmap_4k(r) PROVE KernelInv'
  BY <1>4, Unmapping4k
<1>5. ASSUME NEW r \in LargeRuns, map_2m(r) PROVE KernelInv'
  BY <1>5, Mapping2m
<1>6. ASSUME NEW r \in LargeRuns, unmap_2m(r) PROVE KernelInv'
  BY <1>6, Unmapping2m
<1>7. ASSUME NEW v \in Touched, Touch(v) PROVE KernelInv'
  BY <1>7, Touching
<1>8. CASE UNCHANGED vars
  BY <1>8, Stutter
<1> QED
  BY <1>1, <1>2, <1>3, <1>4, <1>5, <1>6, <1>7, <1>8 DEF Next

(***************************************************************************)
(* The tables the CPU reaches, counted.                                    *)
(***************************************************************************)
LiveTable(name) == TableOf(mem, cr3, name)

LiveNames == NamesOf(mem, cr3, Slots)

U1(i) == Entry(mem, cr3, i)
U2(i, j) == Entry(mem, U1(i).to, j)
U3(i, j, k) == Entry(mem, U2(i, j).to, k)

LEMMA LiveTablesAre ==
  ASSUME NEW i, NEW j, NEW k
  PROVE  /\ LiveTable(<<i>>) = U1(i) /\ LiveTable(<<i, j>>) = U2(i, j)
         /\ LiveTable(<<i, j, k>>) = U3(i, j, k)
PROOF
<1>1. /\ Len(<<i>>) = 1 /\ Len(<<i, j>>) = 2 /\ Len(<<i, j, k>>) = 3
      /\ <<i>>[1] = i /\ <<i, j>>[1] = i /\ <<i, j>>[2] = j
      /\ <<i, j, k>>[1] = i /\ <<i, j, k>>[2] = j /\ <<i, j, k>>[3] = k
  OBVIOUS
<1> QED
  BY <1>1 DEF LiveTable, TableOf, U1, U2, U3

Name1(n) == \E i \in Slots : IsLink(U1(i)) /\ n = <<i>>
Name2(n) == \E i, j \in Slots : IsLink(U1(i)) /\ IsLink(U2(i, j)) /\ n = <<i, j>>
Name3(n) ==
  \E i, j, k \in Slots : IsLink(U1(i)) /\ IsLink(U2(i, j)) /\ IsLink(U3(i, j, k)) /\ n = <<i, j, k>>

LEMMA LiveNamesAre ==
  \A n : n \in LiveNames <=> Name1(n) \/ Name2(n) \/ Name3(n)
PROOF
<1> DEFINE n1 == {n \in {<<i>> : i \in Slots} : IsLink(LiveTable(n))}
           a2 == {Append(m, j) : m \in n1, j \in Slots}
           n2 == {n \in a2 : IsLink(LiveTable(n))}
           a3 == {Append(m, k) : m \in n2, k \in Slots}
           n3 == {n \in a3 : IsLink(LiveTable(n))}
<1>1. LiveNames = n1 \cup n2 \cup n3
  BY DEF LiveNames, NamesOf, LiveTable
<1>2. \A n : n \in n1 <=> Name1(n)
  BY LiveTablesAre DEF Name1
<1> HIDE DEF n1
<1>3. \A n : n \in n2 <=> Name2(n)
  <2>1. ASSUME NEW n \in n2 PROVE Name2(n)
    <3>1. n \in a2 /\ IsLink(LiveTable(n))
      OBVIOUS
    <3>2. PICK m \in n1, j \in Slots : n = Append(m, j)
      BY <3>1
    <3> HIDE DEF a2, n2
    <3>3. PICK i \in Slots : IsLink(U1(i)) /\ m = <<i>>
      BY <1>2, <3>2 DEF Name1
    <3>4. n = <<i, j>>
      BY <3>2, <3>3, Appended
    <3>5. IsLink(U2(i, j))
      BY <3>1, <3>4, LiveTablesAre
    <3> QED
      BY <3>2, <3>3, <3>4, <3>5 DEF Name2
  <2>2. ASSUME NEW n, Name2(n) PROVE n \in n2
    <3>1. PICK i \in Slots, j \in Slots : IsLink(U1(i)) /\ IsLink(U2(i, j)) /\ n = <<i, j>>
      BY <2>2 DEF Name2
    <3>2. PICK m : m = <<i>>
      OBVIOUS
    <3>3. m \in n1
      BY <1>2, <3>1, <3>2 DEF Name1
    <3>4. Append(m, j) \in a2
      BY <3>3
    <3> HIDE DEF a2
    <3>5. Append(m, j) = n
      BY <3>1, <3>2, Appended
    <3>6. LiveTable(n) = U2(i, j)
      BY <3>1, LiveTablesAre
    <3> QED
      BY <3>1, <3>4, <3>5, <3>6
  <2> HIDE DEF n2
  <2> QED
    BY <2>1, <2>2
<1> HIDE DEF n2, a2
<1>4. \A n : n \in n3 <=> Name3(n)
  <2>1. ASSUME NEW n \in n3 PROVE Name3(n)
    <3>1. n \in a3 /\ IsLink(LiveTable(n))
      OBVIOUS
    <3>2. PICK m \in n2, k \in Slots : n = Append(m, k)
      BY <3>1
    <3> HIDE DEF a3, n3
    <3>3. PICK i \in Slots, j \in Slots : IsLink(U1(i)) /\ IsLink(U2(i, j)) /\ m = <<i, j>>
      BY <1>3, <3>2 DEF Name2
    <3>4. n = <<i, j, k>>
      BY <3>2, <3>3, Appended
    <3>5. IsLink(U3(i, j, k))
      BY <3>1, <3>4, LiveTablesAre
    <3> QED
      BY <3>2, <3>3, <3>4, <3>5 DEF Name3
  <2>2. ASSUME NEW n, Name3(n) PROVE n \in n3
    <3>1. PICK i \in Slots, j \in Slots, k \in Slots :
            IsLink(U1(i)) /\ IsLink(U2(i, j)) /\ IsLink(U3(i, j, k)) /\ n = <<i, j, k>>
      BY <2>2 DEF Name3
    <3>2. PICK m : m = <<i, j>>
      OBVIOUS
    <3>3. m \in n2
      BY <1>3, <3>1, <3>2 DEF Name2
    <3>4. Append(m, k) \in a3
      BY <3>3
    <3> HIDE DEF a3
    <3>5. Append(m, k) = n
      BY <3>1, <3>2, Appended
    <3>6. LiveTable(n) = U3(i, j, k)
      BY <3>1, LiveTablesAre
    <3> QED
      BY <3>1, <3>4, <3>5, <3>6
  <2> HIDE DEF n3
  <2> QED
    BY <2>1, <2>2
<1> HIDE DEF n3
<1> QED
  BY <1>1, <1>2, <1>3, <1>4

(* A live name leads to a table of the kernel's, one level down per slot.  *)
LEMMA LiveLevels ==
  ASSUME NEW lv, Tree(mem, tables, lv), cr3 = KernelFrame
  PROVE  /\ \A i \in Slots : IsLink(U1(i)) => /\ U1(i) = mem[KernelFrame][i]
                                              /\ U1(i).to \in Own(tables) /\ lv[U1(i).to] = 3
         /\ \A i, j \in Slots : IsLink(U1(i)) /\ IsLink(U2(i, j)) =>
              /\ U2(i, j) = mem[U1(i).to][j] /\ U2(i, j).to \in Own(tables) /\ lv[U2(i, j).to] = 2
         /\ \A i, j, k \in Slots : IsLink(U1(i)) /\ IsLink(U2(i, j)) /\ IsLink(U3(i, j, k)) =>
              /\ U3(i, j, k) = mem[U2(i, j).to][k]
              /\ U3(i, j, k).to \in Own(tables) /\ lv[U3(i, j, k).to] = 1
PROOF
<1>1. /\ KernelFrame \in Own(tables) /\ lv[KernelFrame] = 4 /\ Own(tables) \subseteq Frames
      /\ mem \in Memories
  BY TreeRoot
<1>2. ASSUME NEW f \in Own(tables), NEW s \in Slots, IsLink(mem[f][s]), lv[f] >= 2
      PROVE  mem[f][s].to \in Own(tables) /\ lv[mem[f][s].to] = lv[f] - 1
  BY <1>2 DEF Tree, LinksDown, LinkIn
<1>3. \A f \in Own(tables) : \A s \in Slots : Entry(mem, f, s) = mem[f][s]
  BY <1>1, EntryIsTyped
<1>4. ASSUME NEW i \in Slots, IsLink(U1(i))
      PROVE  /\ U1(i) = mem[KernelFrame][i]
             /\ U1(i).to \in Own(tables) /\ lv[U1(i).to] = 3
  <2>1. U1(i) = mem[KernelFrame][i]
    BY <1>1, <1>3 DEF U1
  <2> QED
    BY <1>1, <1>2, <1>4, <2>1
<1>5. ASSUME NEW i \in Slots, NEW j \in Slots, IsLink(U1(i)), IsLink(U2(i, j))
      PROVE  /\ U2(i, j) = mem[U1(i).to][j] /\ U2(i, j).to \in Own(tables)
             /\ lv[U2(i, j).to] = 2
  <2>1. U1(i).to \in Own(tables) /\ lv[U1(i).to] = 3
    BY <1>4, <1>5
  <2>2. U2(i, j) = mem[U1(i).to][j]
    BY <1>3, <2>1 DEF U2
  <2> QED
    BY <1>2, <1>5, <2>1, <2>2
<1>6. ASSUME NEW i \in Slots, NEW j \in Slots, NEW k \in Slots,
             IsLink(U1(i)), IsLink(U2(i, j)), IsLink(U3(i, j, k))
      PROVE  /\ U3(i, j, k) = mem[U2(i, j).to][k]
             /\ U3(i, j, k).to \in Own(tables) /\ lv[U3(i, j, k).to] = 1
  <2>1. U2(i, j).to \in Own(tables) /\ lv[U2(i, j).to] = 2
    BY <1>5, <1>6
  <2>2. U3(i, j, k) = mem[U2(i, j).to][k]
    BY <1>3, <2>1 DEF U3
  <2> QED
    BY <1>2, <1>6, <2>1, <2>2
<1> QED
  BY <1>4, <1>5, <1>6

LEMMA LiveOnce ==
  ASSUME NEW lv, Tree(mem, tables, lv), cr3 = KernelFrame,
         NEW a \in LiveNames, NEW b \in LiveNames, LiveTable(a).to = LiveTable(b).to
  PROVE  a = b
PROOF
<1>1. /\ KernelFrame \in Own(tables) /\ lv[KernelFrame] = 4
  BY TreeRoot
<1>2. ASSUME NEW f \in Own(tables), NEW g \in Own(tables), NEW s \in Slots, NEW t \in Slots,
             lv[f] >= 2, lv[g] >= 2, IsLink(mem[f][s]), IsLink(mem[g][t]), mem[f][s].to = mem[g][t].to
      PROVE  f = g /\ s = t
  BY <1>2 DEF Tree, LinkedOnce, LinkIn
<1>3. ASSUME NEW i \in Slots, NEW x \in Slots, IsLink(U1(i)), IsLink(U1(x)), U1(i).to = U1(x).to
      PROVE  i = x
  <2>1. U1(i) = mem[KernelFrame][i] /\ U1(x) = mem[KernelFrame][x]
    BY <1>3, LiveLevels
  <2> QED
    BY <1>1, <1>2, <1>3, <2>1
<1>4. ASSUME NEW i \in Slots, NEW x \in Slots, NEW j \in Slots, NEW y \in Slots,
             IsLink(U1(i)), IsLink(U1(x)), IsLink(U2(i, j)), IsLink(U2(x, y)), U2(i, j).to = U2(x, y).to
      PROVE  i = x /\ j = y
  <2>1. /\ U2(i, j) = mem[U1(i).to][j] /\ U2(x, y) = mem[U1(x).to][y]
        /\ U1(i).to \in Own(tables) /\ lv[U1(i).to] = 3
        /\ U1(x).to \in Own(tables) /\ lv[U1(x).to] = 3
    BY <1>4, LiveLevels
  <2>2. U1(i).to = U1(x).to /\ j = y
    BY <1>2, <1>4, <2>1
  <2> QED
    BY <1>3, <1>4, <2>2
<1>5. ASSUME NEW i \in Slots, NEW x \in Slots, NEW j \in Slots, NEW y \in Slots,
             NEW k \in Slots, NEW z \in Slots,
             IsLink(U1(i)), IsLink(U1(x)), IsLink(U2(i, j)), IsLink(U2(x, y)),
             IsLink(U3(i, j, k)), IsLink(U3(x, y, z)), U3(i, j, k).to = U3(x, y, z).to
      PROVE  i = x /\ j = y /\ k = z
  <2>1. /\ U3(i, j, k) = mem[U2(i, j).to][k] /\ U3(x, y, z) = mem[U2(x, y).to][z]
        /\ U2(i, j).to \in Own(tables) /\ lv[U2(i, j).to] = 2
        /\ U2(x, y).to \in Own(tables) /\ lv[U2(x, y).to] = 2
    BY <1>5, LiveLevels
  <2>2. U2(i, j).to = U2(x, y).to /\ k = z
    BY <1>2, <1>5, <2>1
  <2> QED
    BY <1>4, <1>5, <2>2
<1>6. /\ \A n : Name1(n) => lv[LiveTable(n).to] = 3
      /\ \A n : Name2(n) => lv[LiveTable(n).to] = 2
      /\ \A n : Name3(n) => lv[LiveTable(n).to] = 1
  <2>1. ASSUME NEW n, Name1(n) PROVE lv[LiveTable(n).to] = 3
    <3>1. PICK i \in Slots : IsLink(U1(i)) /\ n = <<i>>
      BY <2>1 DEF Name1
    <3>2. LiveTable(n) = U1(i)
      BY <3>1, LiveTablesAre
    <3> QED
      BY <3>1, <3>2, LiveLevels
  <2>2. ASSUME NEW n, Name2(n) PROVE lv[LiveTable(n).to] = 2
    <3>1. PICK i \in Slots, j \in Slots : IsLink(U1(i)) /\ IsLink(U2(i, j)) /\ n = <<i, j>>
      BY <2>2 DEF Name2
    <3>2. LiveTable(n) = U2(i, j)
      BY <3>1, LiveTablesAre
    <3> QED
      BY <3>1, <3>2, LiveLevels
  <2>3. ASSUME NEW n, Name3(n) PROVE lv[LiveTable(n).to] = 1
    <3>1. PICK i \in Slots, j \in Slots, k \in Slots :
            IsLink(U1(i)) /\ IsLink(U2(i, j)) /\ IsLink(U3(i, j, k)) /\ n = <<i, j, k>>
      BY <2>3 DEF Name3
    <3>2. LiveTable(n) = U3(i, j, k)
      BY <3>1, LiveTablesAre
    <3> QED
      BY <3>1, <3>2, LiveLevels
  <2> QED
    BY <2>1, <2>2, <2>3
<1>7. \/ Name1(a) /\ Name1(b)
      \/ Name2(a) /\ Name2(b)
      \/ Name3(a) /\ Name3(b)
  BY <1>6, LiveNamesAre
<1>8. CASE Name1(a) /\ Name1(b)
  <2>1. PICK i \in Slots, x \in Slots : IsLink(U1(i)) /\ a = <<i>> /\ IsLink(U1(x)) /\ b = <<x>>
    BY <1>8 DEF Name1
  <2>2. LiveTable(a) = U1(i) /\ LiveTable(b) = U1(x)
    BY <2>1, LiveTablesAre
  <2> QED
    BY <1>3, <2>1, <2>2
<1>9. CASE Name2(a) /\ Name2(b)
  <2>1. PICK i \in Slots, j \in Slots : IsLink(U1(i)) /\ IsLink(U2(i, j)) /\ a = <<i, j>>
    BY <1>9 DEF Name2
  <2>2. PICK x \in Slots, y \in Slots : IsLink(U1(x)) /\ IsLink(U2(x, y)) /\ b = <<x, y>>
    BY <1>9 DEF Name2
  <2>3. LiveTable(a) = U2(i, j) /\ LiveTable(b) = U2(x, y)
    BY <2>1, <2>2, LiveTablesAre
  <2>4. i = x /\ j = y
    BY <1>4, <2>1, <2>2, <2>3
  <2> QED
    BY <2>1, <2>2, <2>4
<1>10. CASE Name3(a) /\ Name3(b)
  <2>1. PICK i \in Slots, j \in Slots, k \in Slots :
          IsLink(U1(i)) /\ IsLink(U2(i, j)) /\ IsLink(U3(i, j, k)) /\ a = <<i, j, k>>
    BY <1>10 DEF Name3
  <2>2. PICK x \in Slots, y \in Slots, z \in Slots :
          IsLink(U1(x)) /\ IsLink(U2(x, y)) /\ IsLink(U3(x, y, z)) /\ b = <<x, y, z>>
    BY <1>10 DEF Name3
  <2>3. LiveTable(a) = U3(i, j, k) /\ LiveTable(b) = U3(x, y, z)
    BY <2>1, <2>2, LiveTablesAre
  <2>4. i = x /\ j = y /\ k = z
    BY <1>5, <2>1, <2>2, <2>3
  <2> QED
    BY <2>1, <2>2, <2>4
<1> QED
  BY <1>7, <1>8, <1>9, <1>10

LEMMA LiveAll ==
  ASSUME NEW lv, Tree(mem, tables, lv), cr3 = KernelFrame
  PROVE  /\ \A n \in LiveNames : LiveTable(n).to \in Own(tables) \ {KernelFrame}
         /\ \A g \in Own(tables) \ {KernelFrame} : \E n \in LiveNames : LiveTable(n).to = g
PROOF
<1>1. /\ KernelFrame \in Own(tables) /\ lv[KernelFrame] = 4 /\ lv \in [Own(tables) -> 1 .. 4]
      /\ \A f \in Own(tables) : lv[f] = 4 <=> f = KernelFrame
  BY TreeRoot DEF Tree, Levels
<1>2. ASSUME NEW n \in LiveNames
      PROVE  LiveTable(n).to \in Own(tables) /\ lv[LiveTable(n).to] \in 1 .. 3
  <2>1. CASE Name1(n)
    <3>1. PICK i \in Slots : IsLink(U1(i)) /\ n = <<i>>
      BY <2>1 DEF Name1
    <3>2. LiveTable(n) = U1(i)
      BY <3>1, LiveTablesAre
    <3> QED
      BY <3>1, <3>2, LiveLevels
  <2>2. CASE Name2(n)
    <3>1. PICK i \in Slots, j \in Slots : IsLink(U1(i)) /\ IsLink(U2(i, j)) /\ n = <<i, j>>
      BY <2>2 DEF Name2
    <3>2. LiveTable(n) = U2(i, j)
      BY <3>1, LiveTablesAre
    <3> QED
      BY <3>1, <3>2, LiveLevels
  <2>3. CASE Name3(n)
    <3>1. PICK i \in Slots, j \in Slots, k \in Slots :
            IsLink(U1(i)) /\ IsLink(U2(i, j)) /\ IsLink(U3(i, j, k)) /\ n = <<i, j, k>>
      BY <2>3 DEF Name3
    <3>2. LiveTable(n) = U3(i, j, k)
      BY <3>1, LiveTablesAre
    <3> QED
      BY <3>1, <3>2, LiveLevels
  <2> QED
    BY <2>1, <2>2, <2>3, LiveNamesAre
<1>3. ASSUME NEW g \in Own(tables), g # KernelFrame
      PROVE  \E f \in Own(tables) : \E s \in Slots :
               IsLink(mem[f][s]) /\ mem[f][s].to = g /\ lv[g] = lv[f] - 1
  <2>1. PICK f \in Own(tables), s \in Slots : LinkIn(mem, lv, f, s) /\ mem[f][s].to = g
    BY <1>3 DEF Tree, AllLinked
  <2>2. IsLink(mem[f][s])
    BY <2>1 DEF LinkIn
  <2>3. lv[g] = lv[f] - 1
    BY <2>1 DEF Tree, LinksDown
  <2> QED
    BY <2>1, <2>2, <2>3
<1>4. mem \in Memories /\ Own(tables) \subseteq Frames
  BY TreeRoot
<1>5. \A f \in Own(tables) : \A s \in Slots : Entry(mem, f, s) = mem[f][s]
  BY <1>4, EntryIsTyped
<1>6. ASSUME NEW g \in Own(tables), lv[g] = 3
      PROVE  \E i \in Slots : IsLink(U1(i)) /\ U1(i).to = g
  <2>1. PICK f \in Own(tables), s \in Slots : IsLink(mem[f][s]) /\ mem[f][s].to = g /\ lv[g] = lv[f] - 1
    BY <1>1, <1>3, <1>6
  <2>2. f = KernelFrame
    BY <1>1, <1>6, <2>1
  <2> QED
    BY <1>5, <2>1, <2>2 DEF U1
<1>7. ASSUME NEW g \in Own(tables), lv[g] = 2
      PROVE  \E i, j \in Slots : IsLink(U1(i)) /\ IsLink(U2(i, j)) /\ U2(i, j).to = g
  <2>1. PICK f \in Own(tables), s \in Slots : IsLink(mem[f][s]) /\ mem[f][s].to = g /\ lv[g] = lv[f] - 1
    BY <1>1, <1>3, <1>7
  <2>2. lv[f] = 3
    BY <1>1, <1>7, <2>1
  <2>3. PICK i \in Slots : IsLink(U1(i)) /\ U1(i).to = f
    BY <1>6, <2>2
  <2>4. U2(i, s) = mem[f][s]
    BY <1>5, <2>3 DEF U2
  <2> QED
    BY <2>1, <2>3, <2>4
<1>8. ASSUME NEW g \in Own(tables), lv[g] = 1
      PROVE  \E i, j, k \in Slots :
               IsLink(U1(i)) /\ IsLink(U2(i, j)) /\ IsLink(U3(i, j, k)) /\ U3(i, j, k).to = g
  <2>1. PICK f \in Own(tables), s \in Slots : IsLink(mem[f][s]) /\ mem[f][s].to = g /\ lv[g] = lv[f] - 1
    BY <1>1, <1>3, <1>8
  <2>2. lv[f] = 2
    BY <1>1, <1>8, <2>1
  <2>3. PICK i \in Slots, j \in Slots : IsLink(U1(i)) /\ IsLink(U2(i, j)) /\ U2(i, j).to = f
    BY <1>7, <2>2
  <2>4. U3(i, j, s) = mem[f][s]
    BY <1>5, <2>3 DEF U3
  <2> QED
    BY <2>1, <2>3, <2>4
<1>9. ASSUME NEW g \in Own(tables) \ {KernelFrame}
      PROVE  \E n \in LiveNames : LiveTable(n).to = g
  <2>1. lv[g] \in 1 .. 3
    BY <1>1
  <2>2. CASE lv[g] = 3
    <3>1. PICK i \in Slots : IsLink(U1(i)) /\ U1(i).to = g
      BY <1>6, <2>2
    <3>2. PICK n : n = <<i>>
      OBVIOUS
    <3>3. Name1(n) /\ LiveTable(n) = U1(i)
      BY <3>1, <3>2, LiveTablesAre DEF Name1
    <3> QED
      BY <3>1, <3>3, LiveNamesAre
  <2>3. CASE lv[g] = 2
    <3>1. PICK i \in Slots, j \in Slots : IsLink(U1(i)) /\ IsLink(U2(i, j)) /\ U2(i, j).to = g
      BY <1>7, <2>3
    <3>2. PICK n : n = <<i, j>>
      OBVIOUS
    <3>3. Name2(n) /\ LiveTable(n) = U2(i, j)
      BY <3>1, <3>2, LiveTablesAre DEF Name2
    <3> QED
      BY <3>1, <3>3, LiveNamesAre
  <2>4. CASE lv[g] = 1
    <3>1. PICK i \in Slots, j \in Slots, k \in Slots :
            IsLink(U1(i)) /\ IsLink(U2(i, j)) /\ IsLink(U3(i, j, k)) /\ U3(i, j, k).to = g
      BY <1>8, <2>4
    <3>2. PICK n : n = <<i, j, k>>
      OBVIOUS
    <3>3. Name3(n) /\ LiveTable(n) = U3(i, j, k)
      BY <3>1, <3>2, LiveTablesAre DEF Name3
    <3> QED
      BY <3>1, <3>3, LiveNamesAre
  <2> QED
    BY <2>1, <2>2, <2>3, <2>4
<1>10. ASSUME NEW n \in LiveNames PROVE LiveTable(n).to \in Own(tables) \ {KernelFrame}
  BY <1>1, <1>2
<1> QED
  BY <1>9, <1>10

LEMMA Owned ==
  ASSUME KernelInv
  PROVE  TablesOwned
PROOF
<1> SUFFICES ASSUME mode = "kernel"
             PROVE  /\ {LiveTable(n).to : n \in LiveNames} =
                         {KernelFrame + HeapFirst + i : i \in 0 .. tables - 1}
                    /\ Cardinality(LiveNames) = tables
  BY DEF TablesOwned, LiveTable, LiveNames
<1>1. PICK lv : Tree(mem, tables, lv) /\ cr3 = KernelFrame
  BY DEF KernelInv, CallsInv, Kernel, HasTree, State
<1>2. tables \in 0 .. HeapTables /\ HeapTables \in Nat /\ KernelFrame \in Nat /\ HeapFirst \in Nat \ {0}
  BY Constants DEF KernelInv
<1>3. Own(tables) \ {KernelFrame} = {KernelFrame + HeapFirst + i : i \in 0 .. tables - 1}
  BY <1>2 DEF Own
<1>4. {LiveTable(n).to : n \in LiveNames} = Own(tables) \ {KernelFrame}
  BY <1>1, LiveAll
<1>5. PICK F : F = [n \in LiveNames |-> LiveTable(n).to - (KernelFrame + HeapFirst)]
  OBVIOUS
<1>6. \A n \in LiveNames : /\ F[n] \in 0 .. tables - 1
                           /\ LiveTable(n).to = KernelFrame + HeapFirst + F[n]
  <2> SUFFICES ASSUME NEW n \in LiveNames
               PROVE  F[n] \in 0 .. tables - 1 /\ LiveTable(n).to = KernelFrame + HeapFirst + F[n]
    OBVIOUS
  <2>1. PICK i \in 0 .. tables - 1 : LiveTable(n).to = KernelFrame + HeapFirst + i
    BY <1>3, <1>4
  <2> QED
    BY <1>2, <1>5, <2>1
<1>7. F \in Injection(LiveNames, 0 .. tables - 1)
  <2>1. \A a, b \in LiveNames : F[a] = F[b] => a = b
    BY <1>1, <1>6, LiveOnce
  <2> QED
    BY <1>5, <1>6, <2>1 DEF Injection, IsInjective
<1>8. F \in Surjection(LiveNames, 0 .. tables - 1)
  <2>1. ASSUME NEW i \in 0 .. tables - 1 PROVE \E n \in LiveNames : F[n] = i
    <3>1. PICK n \in LiveNames : LiveTable(n).to = KernelFrame + HeapFirst + i
      BY <1>3, <1>4
    <3> QED
      BY <1>2, <1>6, <3>1
  <2> QED
    BY <1>5, <1>6, <2>1 DEF Surjection
<1>9. IsFiniteSet(0 .. tables - 1) /\ Cardinality(0 .. tables - 1) = tables
  <2>1. 0 \in Int /\ tables - 1 \in Int
    BY <1>2
  <2> QED
    BY <1>2, <2>1, FS_Interval
<1>10. Cardinality(LiveNames) = tables
  BY <1>7, <1>8, <1>9, FS_Injection
<1> QED
  BY <1>3, <1>4, <1>10

(***************************************************************************)
(* The theorems.                                                           *)
(***************************************************************************)
(* From a boot loader's tables and with callers as KernelPaging assumes    *)
(* them, the kernel's tables are a tree at all times: KernelInv is an      *)
(* invariant of setup_paging, map, unmap, parseRSDP and the CPU's accesses.*)
THEOREM AlwaysKernel ==
  ASSUME BootSound, CallersSound
  PROVE  Spec => []KernelInv
PROOF
<1>1. Sound
  BY DEF Sound
<1>2. Init => KernelInv
  BY <1>1, InitSound
<1>3. KernelInv /\ [Next]_vars => KernelInv'
  BY <1>1, NextSound
<1> QED
  BY <1>2, <1>3, PTL DEF Spec

(* The whole of the boot loader's upper half is copied without a page      *)
(* fault, whatever tables there are, when the image is in small pages.     *)
THEOREM SetupNeverFaults ==
  ASSUME BootSound, CallersSound
  PROVE  Spec => []PagingIsSetUp
PROOF
<1>1. Sound
  BY DEF Sound
<1>2. Init => PagingIsSetUp
  BY DEF Init, PagingIsSetUp
<1>3. ASSUME KernelInv, PagingIsSetUp, [Next]_vars PROVE PagingIsSetUp'
  <2>1. CASE setup_paging
    BY <1>1, <1>3, <2>1, Leaving DEF PagingIsSetUp
  <2>2. ASSUME NEW d \in Rsdps, parseRSDP(d) PROVE PagingIsSetUp'
    <3>1. asked'.op = "borrow"
      BY <2>2 DEF parseRSDP
    <3> QED
      BY <3>1 DEF PagingIsSetUp
  <2>3. ASSUME NEW r \in SmallRuns, map_4k(r) PROVE PagingIsSetUp'
    <3>1. asked'.op = "map"
      BY <2>3 DEF map_4k, Ask
    <3> QED
      BY <3>1 DEF PagingIsSetUp
  <2>4. ASSUME NEW r \in UnmapRuns, unmap_4k(r) PROVE PagingIsSetUp'
    <3>1. asked'.op = "unmap"
      BY <2>4 DEF unmap_4k, Ask
    <3> QED
      BY <3>1 DEF PagingIsSetUp
  <2>5. ASSUME NEW r \in LargeRuns, map_2m(r) PROVE PagingIsSetUp'
    <3>1. asked'.op = "map"
      BY <2>5 DEF map_2m, Ask
    <3> QED
      BY <3>1 DEF PagingIsSetUp
  <2>6. ASSUME NEW r \in LargeRuns, unmap_2m(r) PROVE PagingIsSetUp'
    <3>1. asked'.op = "unmap"
      BY <2>6 DEF unmap_2m, Ask
    <3> QED
      BY <3>1 DEF PagingIsSetUp
  <2>7. ASSUME NEW v \in Touched, Touch(v) PROVE PagingIsSetUp'
    BY <1>3, <2>7 DEF Touch, PagingIsSetUp
  <2>8. CASE UNCHANGED vars
    BY <1>3, <2>8 DEF vars, PagingIsSetUp
  <2> QED
    BY <1>3, <2>1, <2>2, <2>3, <2>4, <2>5, <2>6, <2>7, <2>8 DEF Next
<1> QED
  BY <1>2, <1>3, AlwaysKernel, PTL DEF Spec

(* Every frame holds a table's worth of well-formed entries, kmalloc gives *)
(* no more tables than it has, and what the TLB holds are page frames.     *)
THEOREM PagingTyped ==
  ASSUME BootSound, CallersSound
  PROVE  Spec => []TypeOK
PROOF
<1>1. KernelInv => TypeOK
  BY DEF KernelInv, TypeOK, Memories, Cached
<1> QED
  BY <1>1, AlwaysKernel, PTL

(* The kernel image stays where it was linked, before setup_paging, after  *)
(* it, through every call, and even after a call that went wild.           *)
THEOREM KernelStaysMapped ==
  ASSUME BootSound, CallersSound
  PROVE  Spec => []KernelMapped
PROOF
<1>1. KernelInv => KernelMapped
  BY DEF KernelInv
<1> QED
  BY <1>1, AlwaysKernel, PTL

(* The one invlpg of unmap is enough: no cached translation disagrees with *)
(* the tables, for any of the pages it covers.                             *)
THEOREM TlbStaysCoherent ==
  ASSUME BootSound, CallersSound
  PROVE  Spec => []TlbCoherent
PROOF
<1>1. KernelInv => TlbCoherent
  <2> SUFFICES ASSUME KernelInv, mode = "kernel",
                      NEW e \in tlb, NEW v \in e.page .. e.page + e.span - 1
               PROVE  Walk(mem, cr3, v) = e.frame + (v - e.page)
    BY DEF TlbCoherent
  <2>1. cr3 = KernelFrame /\ Translation(mem, KernelFrame, v) = e
    BY DEF KernelInv, CallsInv, Kernel, TlbExact, State
  <2>2. e.frame # Nowhere
    BY Constants DEF KernelInv, Cached
  <2> QED
    BY <2>1, <2>2 DEF Walk
<1> QED
  BY <1>1, AlwaysKernel, PTL

(* Every table the CPU can reach is the kernel's own, hangs from exactly   *)
(* one slot, and every table kmalloc gave is in use: none is shared with   *)
(* the boot loader's tree, none is shared between two, none is leaked.     *)
THEOREM TablesStayOwned ==
  ASSUME BootSound, CallersSound
  PROVE  Spec => []TablesOwned
PROOF
<1>1. KernelInv => TablesOwned
  BY Owned
<1> QED
  BY <1>1, AlwaysKernel, PTL

(***************************************************************************)
(* One map from pages to frames.                                           *)
(***************************************************************************)
(* Two conditions that agree are the same.                                 *)
LEMMA SameTruth ==
  ASSUME NEW a \in BOOLEAN, NEW b \in BOOLEAN, a <=> b
  PROVE  a = b
OBVIOUS

LEMMA RefinedInit ==
  ASSUME Sound, Init
  PROVE  Translations!Init
PROOF
<1>1. AtBoot /\ cr3 = BootPml4 /\ mode = "boot" /\ asked = [op |-> "boot"]
  BY DEF AtBoot, Sound, Init, BootLoaded
<1>2. ASSUME NEW v \in Pages PROVE Walk(mem, cr3, v) \in Frames \cup {Nowhere}
  <2>1. PICK e2, e1 : e2 = Entry2(mem, BootPml4, v) /\ e1 = Entry1(mem, BootPml4, v)
    OBVIOUS
  <2>2. mem \in Memories
    BY <1>1, BootEntries
  <2>3. v \in Nat /\ Index1(v) \in Slots
    BY Pages4
  <2>4. e1 \in EntryType /\ e2 \in EntryType
    BY <2>1, <2>2, Pages4, EntryIsTyped DEF Entry2, Entry1
  <2>5. CASE e2.large
    <3>1. Translation(mem, BootPml4, v) = [page |-> v - Index1(v), span |-> Fan, frame |-> e2.to]
      BY <2>1, <2>5, TranslationByEntries
    <3>2. Spans(e2)
      BY <1>1, <2>1, <2>5, BootPage
    <3>3. e2.to + Index1(v) \in Frames
      BY <2>3, <3>2 DEF Spans, Slots
    <3>4. v - (v - Index1(v)) = Index1(v)
      BY <2>3 DEF Slots
    <3> QED
      BY <1>1, <3>1, <3>3, <3>4 DEF Walk
  <2>6. CASE ~e2.large
    <3>1. Translation(mem, BootPml4, v) = [page |-> v, span |-> 1, frame |-> e1.to]
      BY <2>1, <2>6, TranslationByEntries
    <3>2. PICK f \in Frames \cup {Nowhere} : f = e1.to
      BY <2>4 DEF EntryType
    <3>3. f # Nowhere => f + (v - v) = f
      <4>1. f # Nowhere => f \in Nat
        BY <3>2, Constants
      <4> QED
        BY <2>3, <4>1
    <3> QED
      BY <1>1, <3>1, <3>2, <3>3 DEF Walk
  <2> QED
    BY <2>5, <2>6
<1>3. (mode = "fault") = FALSE
  BY <1>1
<1> QED
  BY <1>1, <1>2, <1>3 DEF Translations!Init, Translations!Start

LEMMA RefinedLeave ==
  ASSUME Sound, KernelInv, setup_paging
  PROVE  Translations!Next
PROOF
<1>1. mode = "boot" /\ asked = [op |-> "boot"] /\ asked' = [op |-> "leave"]
  BY DEF setup_paging, KernelInv, BootInv
<1>2. \A v \in Pages : v \in 0 .. KERNEL_BASE - 1 <=> v < KERNEL_BASE
  BY Pages4, Constants
<1>3. /\ mode' = "kernel"
      /\ \A v \in Pages : Walk(mem', cr3', v) =
                             IF v < KERNEL_BASE THEN Nowhere ELSE Walk(mem, cr3, v)
  BY Leaving
<1>4. [v \in Pages |-> Walk(mem', cr3', v)] =
        [v \in Pages |-> IF v \in 0 .. KERNEL_BASE - 1 THEN Nowhere
                         ELSE [w \in Pages |-> Walk(mem, cr3, w)][v]]
  BY <1>2, <1>3
<1>5. (mode' = "fault") = (mode = "fault")
  BY <1>1, <1>3
<1>6. Translations!LeaveBoot
  BY <1>1, <1>4, <1>5 DEF Translations!LeaveBoot, Translations!Start
<1> QED
  BY <1>1, <1>6 DEF Translations!Next

(* The runs of small pages, and the large ones as runs of small pages.     *)
RunsAsked ==
  SmallRuns \cup UnmapRuns \cup {[page |-> r.page, frame |-> r.frame, count |-> Fan * r.count] :
                                  r \in LargeRuns}

LEMMA RefinedMap ==
  ASSUME KernelInv, KernelInv', cr3 = KernelFrame, cr3' = KernelFrame, mode = "kernel",
         NEW r \in RunsAsked, r.count \in Nat,
         asked' = [op |-> "map", page |-> r.page, count |-> r.count],
         NEW k \in 0 .. r.count, (mode' = "fault") <=> k < r.count,
         RunMapped(mem, mem', r.page, r.frame, k)
  PROVE  Translations!Next
PROOF
<1>1. [v \in Pages |-> Walk(mem', cr3', v)] =
        [v \in Pages |-> IF Translations!Inside(v, r, k) THEN r.frame + (v - r.page)
                         ELSE [w \in Pages |-> Walk(mem, cr3, w)][v]]
  BY DEF RunMapped, Within, Translations!Inside
<1>2. (mode' = "fault") = (k < r.count)
  BY SameTruth
<1>3. Translations!Map(r)
  BY <1>1, <1>2 DEF Translations!Map, Translations!Asked
<1>4. asked # Translations!Start
  BY DEF KernelInv, CallsInv, Translations!Start
<1>5. ~(mode = "fault")
  OBVIOUS
<1> QED
  BY <1>3, <1>4, <1>5 DEF Translations!Next, RunsAsked

(* A run that is unmapped leads nowhere.                                   *)
LEMMA RefinedUnmap ==
  ASSUME KernelInv, cr3 = KernelFrame, cr3' = KernelFrame, mode = "kernel", mode' = mode,
         NEW r \in RunsAsked,
         asked' = [op |-> "unmap", page |-> r.page, count |-> r.count],
         \A w \in Pages : Walk(mem', KernelFrame, w) =
                            IF Within(w, r.page, r.count) THEN Nowhere ELSE Walk(mem, KernelFrame, w)
  PROVE  Translations!Next
PROOF
<1>1. [v \in Pages |-> Walk(mem', cr3', v)] =
        [v \in Pages |-> IF Translations!Inside(v, r, r.count) THEN Nowhere
                         ELSE [w \in Pages |-> Walk(mem, cr3, w)][v]]
  BY DEF Within, Translations!Inside
<1>2. (mode' = "fault") = (mode = "fault")
  OBVIOUS
<1>3. Translations!Unmap(r)
  BY <1>1, <1>2 DEF Translations!Unmap, Translations!Asked
<1>4. asked # Translations!Start
  BY DEF KernelInv, CallsInv, Translations!Start
<1>5. ~(mode = "fault")
  OBVIOUS
<1> QED
  BY <1>3, <1>4, <1>5 DEF Translations!Next, RunsAsked

LEMMA RefinedBorrow ==
  ASSUME Sound, KernelInv, NEW d \in Rsdps, parseRSDP(d)
  PROVE  Translations!Next
PROOF
<1>1. /\ mode = "kernel" /\ cr3 = KernelFrame /\ cr3' = KernelFrame
      /\ asked = [op |-> "leave"] /\ asked' = [op |-> "borrow"]
  BY Borrowing DEF parseRSDP
<1>2. d.page \in Pages /\ d.page \in Nat /\ d.page \in 0 .. KERNEL_BASE - 1
  BY Callers, Pages4, Constants
<1>3. CASE /\ mode' = "kernel"
           /\ \A w \in Pages : Walk(mem', KernelFrame, w) = Walk(mem, KernelFrame, w)
  <2>1. [v \in Pages |-> Walk(mem', cr3', v)] = [v \in Pages |-> Walk(mem, cr3, v)]
    BY <1>1, <1>3
  <2>2. (mode' = "fault") = (mode = "fault")
    BY <1>1, <1>3
  <2>3. Translations!Borrow
    BY <1>1, <2>1, <2>2 DEF Translations!Borrow
  <2> QED
    BY <1>1, <2>3 DEF Translations!Next
<1>4. CASE mode' = "fault" /\ \E k \in 0 .. 1 : RunMapped(mem, mem', d.page, d.page, k)
  <2>1. PICK k \in 0 .. 1 : RunMapped(mem, mem', d.page, d.page, k)
    BY <1>4
  <2>2. PICK f : f = IF k = 1 THEN d.page ELSE Walk(mem, cr3, d.page)
    OBVIOUS
  <2>3. f \in {d.page, [v \in Pages |-> Walk(mem, cr3, v)][d.page]}
    BY <1>2, <2>2
  <2>4. ASSUME NEW w \in Pages
        PROVE  Walk(mem', cr3', w) = IF w = d.page THEN f ELSE Walk(mem, cr3, w)
    <3>1. Within(w, d.page, k) <=> k = 1 /\ w = d.page
      BY <1>2, Pages4 DEF Within
    <3>2. d.page + (d.page - d.page) = d.page
      BY <1>2
    <3> QED
      BY <1>1, <2>1, <2>2, <3>1, <3>2 DEF RunMapped
  <2>5. [v \in Pages |-> Walk(mem', cr3', v)] =
          [[v \in Pages |-> Walk(mem, cr3, v)] EXCEPT ![d.page] = f]
    BY <2>4
  <2>6. (mode' = "fault") = TRUE
    BY <1>4
  <2>7. Translations!Borrow
    BY <1>1, <1>2, <2>3, <2>5, <2>6 DEF Translations!Borrow
  <2> QED
    BY <1>1, <2>7 DEF Translations!Next
<1> QED
  BY <1>3, <1>4, Borrowing

Refined ==
  \/ Translations!Next
  \/ /\ asked' = asked
     /\ [v \in Pages |-> Walk(mem', cr3', v)] = [v \in Pages |-> Walk(mem, cr3, v)]
     /\ (mode' = "fault") = (mode = "fault")

LEMMA RefinedCalls ==
  ASSUME Sound, KernelInv
  PROVE  /\ \A r \in SmallRuns : map_4k(r) => Refined
         /\ \A r \in LargeRuns : map_2m(r) => Refined
         /\ \A r \in UnmapRuns : unmap_4k(r) => Refined
         /\ \A r \in LargeRuns : unmap_2m(r) => Refined
PROOF
<1>1. ASSUME NEW r \in SmallRuns, map_4k(r) PROVE Refined
  <2>1. r.count \in Nat /\ 1 * r.count = r.count /\ r \in RunsAsked
    BY Callers DEF SmallRun, RunType, RunsAsked
  <2>2. mode = "kernel" /\ asked' = [op |-> "map", page |-> r.page, count |-> r.count]
    BY <1>1, <2>1 DEF map_4k, Ask
  <2>3. /\ KernelInv' /\ cr3 = KernelFrame /\ cr3' = KernelFrame
        /\ \E k \in 0 .. r.count : /\ (mode' = "fault") <=> k < r.count
                                   /\ RunMapped(mem, mem', r.page, r.frame, k)
    BY <1>1, Mapping4k
  <2> QED
    BY <2>1, <2>2, <2>3, RefinedMap DEF Refined
<1>2. ASSUME NEW r \in LargeRuns, map_2m(r) PROVE Refined
  <2>1. r.count = 1 /\ Fan \in Nat /\ Fan * 1 = Fan
    BY Callers, FanAssumption DEF LargeRun
  <2>2. PICK x : x = [page |-> r.page, frame |-> r.frame, count |-> Fan * r.count]
    OBVIOUS
  <2>3. x.page = r.page /\ x.frame = r.frame /\ x.count = Fan /\ x \in RunsAsked
    <3>1. x \in {[page |-> q.page, frame |-> q.frame, count |-> Fan * q.count] : q \in LargeRuns}
      BY <2>2, Zenon
    <3>2. x \in RunsAsked
      BY <3>1 DEF RunsAsked
    <3>3. x.page = r.page /\ x.frame = r.frame /\ x.count = Fan
      BY <2>1, <2>2
    <3> QED
      BY <3>2, <3>3
  <2>4. mode = "kernel" /\ asked' = [op |-> "map", page |-> x.page, count |-> x.count]
    BY <1>2, <2>1, <2>3 DEF map_2m, Ask
  <2>5. /\ KernelInv' /\ cr3 = KernelFrame /\ cr3' = KernelFrame
        /\ \E k \in 0 .. x.count : /\ (mode' = "fault") <=> k < x.count
                                   /\ RunMapped(mem, mem', x.page, x.frame, k)
    BY <1>2, <2>3, Mapping2m
  <2> QED
    BY <2>1, <2>3, <2>4, <2>5, RefinedMap DEF Refined
<1>3. ASSUME NEW r \in UnmapRuns, unmap_4k(r) PROVE Refined
  <2>1. r.count = 1 /\ 1 * r.count = r.count /\ r \in RunsAsked /\ r.page \in Nat
    BY Callers, Pages4 DEF SmallPage, RunsAsked
  <2>2. mode = "kernel" /\ asked' = [op |-> "unmap", page |-> r.page, count |-> r.count]
    BY <1>3, <2>1 DEF unmap_4k, Ask
  <2>3. /\ cr3 = KernelFrame /\ cr3' = KernelFrame /\ mode' = mode
        /\ \A w \in Pages : Walk(mem', KernelFrame, w) =
                              IF w = r.page THEN Nowhere ELSE Walk(mem, KernelFrame, w)
    BY <1>3, Unmapping4k
  <2>4. \A w \in Pages : Within(w, r.page, r.count) <=> w = r.page
    BY <2>1, Pages4 DEF Within
  <2> QED
    BY <2>1, <2>2, <2>3, <2>4, RefinedUnmap DEF Refined
<1>4. ASSUME NEW r \in LargeRuns, unmap_2m(r) PROVE Refined
  <2>1. r.count = 1 /\ Fan \in Nat /\ Fan * 1 = Fan
    BY Callers, FanAssumption DEF LargeRun
  <2>2. PICK x : x = [page |-> r.page, frame |-> r.frame, count |-> Fan * r.count]
    OBVIOUS
  <2>3. x.page = r.page /\ x.count = Fan /\ x \in RunsAsked
    <3>1. x \in {[page |-> q.page, frame |-> q.frame, count |-> Fan * q.count] : q \in LargeRuns}
      BY <2>2, Zenon
    <3>2. x \in RunsAsked
      BY <3>1 DEF RunsAsked
    <3>3. x.page = r.page /\ x.frame = r.frame /\ x.count = Fan
      BY <2>1, <2>2
    <3> QED
      BY <3>2, <3>3
  <2>4. mode = "kernel" /\ asked' = [op |-> "unmap", page |-> x.page, count |-> x.count]
    BY <1>4, <2>1, <2>3 DEF unmap_2m, Ask
  <2>5. /\ cr3 = KernelFrame /\ cr3' = KernelFrame /\ mode' = mode
        /\ \A w \in Pages : Walk(mem', KernelFrame, w) =
                              IF Within(w, x.page, x.count) THEN Nowhere ELSE Walk(mem, KernelFrame, w)
    BY <1>4, <2>3, Unmapping2m
  <2> QED
    BY <2>3, <2>4, <2>5, RefinedUnmap DEF Refined
<1> QED
  BY <1>1, <1>2, <1>3, <1>4

LEMMA RefinedStep ==
  ASSUME Sound, KernelInv, [Next]_vars
  PROVE  Refined
PROOF
<1>1. CASE setup_paging
  BY <1>1, RefinedLeave DEF Refined
<1>2. ASSUME NEW d \in Rsdps, parseRSDP(d) PROVE Refined
  BY <1>2, RefinedBorrow DEF Refined
<1>3. ASSUME NEW v \in Touched, Touch(v) PROVE Refined
  BY <1>3 DEF Touch, Refined
<1>4. CASE UNCHANGED vars
  BY <1>4 DEF vars, Refined
<1> QED
  BY <1>1, <1>2, <1>3, <1>4, RefinedCalls DEF Next

(* Four levels of tables, a heap that may give out half way and a TLB are  *)
(* one map from pages to frames: setup_paging empties the lower half and   *)
(* keeps the upper, a call maps or unmaps the pages it names - all of them *)
(* unless it runs out - and nothing else ever moves a page.                *)
THEOREM TablesAreOneMap ==
  ASSUME BootSound, CallersSound
  PROVE  Spec => ImplementsAddressSpace
PROOF
<1>1. Sound
  BY DEF Sound
<1>2. Init => KernelInv /\ Translations!Init
  BY <1>1, InitSound, RefinedInit
<1>3. KernelInv /\ [Next]_vars => KernelInv' /\ Refined
  BY <1>1, NextSound, RefinedStep
<1>4. Refined => [Translations!Next]_<<asked, [v \in Pages |-> Walk(mem, cr3, v)], mode = "fault">>
  BY DEF Refined
<1> QED
  BY <1>2, <1>3, <1>4, PTL DEF Spec, ImplementsAddressSpace, Translations!Spec
=============================================================================
