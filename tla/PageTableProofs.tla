---------------------------- MODULE PageTableProofs ----------------------------
(***************************************************************************)
(* The arithmetic of page tables: a page is its four indexes.              *)
(***************************************************************************)
EXTENDS PageTables, TLAPS

(***************************************************************************)
(* Numbers of pages.                                                       *)
(***************************************************************************)
LEMMA Division ==
  ASSUME NEW n \in Nat, NEW d \in Nat \ {0}
  PROVE  n = d * (n \div d) + (n % d) /\ n \div d \in Nat /\ n % d \in 0 .. d - 1
OBVIOUS

LEMMA SmallDivision ==
  ASSUME NEW d \in Nat \ {0}, NEW n \in 0 .. d - 1
  PROVE  n \div d = 0 /\ n % d = n
PROOF
<1>1. PICK q \in Nat : q = n \div d
  BY Division
<1>2. PICK r \in 0 .. d - 1 : r = n % d
  BY Division
<1>3. n = d * q + r
  BY <1>1, <1>2, Division
<1>4. q >= 1 => d * q >= d
  OBVIOUS
<1>5. q = 0 => d * q = 0
  OBVIOUS
<1>6. d * q \in Nat
  OBVIOUS
<1>7. q = 0 /\ r = n
  BY <1>3, <1>4, <1>5, <1>6
<1> QED
  BY <1>1, <1>2, <1>7

(* The quotient of x by s is below n as x is below n * s.                  *)
LEMMA BelowProduct ==
  ASSUME NEW x \in Nat, NEW s \in Nat \ {0}, NEW n \in Nat
  PROVE  x \div s < n <=> x < n * s
PROOF
<1>1. PICK q \in Nat : q = x \div s
  OBVIOUS
<1>2. PICK r \in 0 .. s - 1 : r = x % s
  OBVIOUS
<1>3. x = s * q + r
  BY <1>1, <1>2
<1>4. q < n => s * (q + 1) <= s * n
  OBVIOUS
<1>5. q >= n => s * q >= s * n
  OBVIOUS
<1>6. s * (q + 1) = s * q + s /\ s * n = n * s /\ s * q \in Nat /\ s * n \in Nat
  OBVIOUS
<1>7. q < n <=> x < n * s
  BY <1>3, <1>4, <1>5, <1>6
<1> QED
  BY <1>1, <1>7

LEMMA Powers ==
  /\ Fan \in Nat /\ Fan # 0 /\ Fan * Fan \in Nat \ {0} /\ Fan * Fan * Fan \in Nat \ {0}
  /\ Fan * Fan * Fan = Fan * (Fan * Fan)
  /\ Fan * Fan * Fan * Fan = Fan * (Fan * Fan * Fan)
PROOF
<1>1. Fan \in Nat \ {0}
  BY FanAssumption
<1>2. \A a, b \in Nat \ {0} : a * b \in Nat \ {0}
  OBVIOUS
<1>3. Fan * Fan \in Nat \ {0}
  BY <1>1, <1>2
<1>4. \A a \in Nat : a * Fan = Fan * a
  BY <1>1
<1> QED
  BY <1>1, <1>2, <1>3, <1>4

(* The indexes of a page that four levels translate are slots.             *)
LEMMA IndexesAreSlots ==
  ASSUME NEW v \in Nat, v < Fan * Fan * Fan * Fan
  PROVE  /\ Index4(v) \in Slots /\ Index3(v) \in Slots
         /\ Index2(v) \in Slots /\ Index1(v) \in Slots
PROOF
<1>1. Index4(v) \in Slots
  <2> DEFINE c == Fan * Fan * Fan
  <2>1. c \in Nat \ {0} /\ Fan * Fan * Fan * Fan = Fan * c
    BY Powers
  <2> HIDE DEF c
  <2>2. Fan \in Nat /\ v < Fan * c
    BY <2>1, Powers
  <2>3. v \div c < Fan /\ v \div c \in Nat
    BY <2>1, <2>2, BelowProduct, Division
  <2>4. v \div c \in Slots
    BY <2>2, <2>3 DEF Slots
  <2> QED
    BY <2>4 DEF Index4, c
<1>2. Fan \in Nat \ {0}
  BY Powers
<1>3. ASSUME NEW q \in Nat PROVE q % Fan \in Slots
  BY <1>2, Division DEF Slots
<1>4. v \div (Fan * Fan) \in Nat /\ v \div Fan \in Nat
  BY Powers, Division, Zenon
<1> QED
  BY <1>1, <1>3, <1>4 DEF Index3, Index2, Index1

(* Of a page in the first table of its kind, the next index counts.        *)
LEMMA LowIndexes ==
  ASSUME NEW v \in Nat, Index4(v) = 0, Index3(v) = 0
  PROVE  /\ Index2(v) = v \div Fan
         /\ Index2(v) = 0 => Index1(v) = v /\ v < Fan
PROOF
<1> DEFINE c == Fan * Fan * Fan
           b == Fan * Fan
<1>1. /\ c \in Nat \ {0} /\ b \in Nat \ {0} /\ Fan \in Nat \ {0}
      /\ c = Fan * b /\ b = Fan * Fan
  BY Powers
<1>2. v \div c = 0 /\ (v \div b) % Fan = 0
  BY DEF Index4, Index3
<1> HIDE DEF c, b
<1>3. v < c
  <2>1. v < 1 * c
    BY <1>1, <1>2, BelowProduct
  <2> QED
    BY <1>1, <2>1
<1>4. v \div b < Fan /\ v \div b \in Nat
  BY <1>1, <1>3, BelowProduct, Division
<1>5. v \div b = 0
  BY <1>1, <1>2, <1>4, SmallDivision
<1>6. v < b
  <2>1. v < 1 * b
    BY <1>1, <1>5, BelowProduct
  <2> QED
    BY <1>1, <2>1
<1>7. v \div Fan < Fan /\ v \div Fan \in Nat
  BY <1>1, <1>6, BelowProduct, Division
<1>8. (v \div Fan) % Fan = v \div Fan
  BY <1>1, <1>7, SmallDivision
<1>9. ASSUME v \div Fan = 0 PROVE v % Fan = v /\ v < Fan
  <2>1. v < 1 * Fan
    BY <1>1, <1>9, BelowProduct
  <2>2. v < Fan
    BY <1>1, <2>1
  <2> QED
    BY <1>1, <2>2, SmallDivision
<1> QED
  BY <1>8, <1>9 DEF Index2, Index1

LEMMA LowPage ==
  ASSUME NEW v \in 0 .. Fan - 1
  PROVE  Index4(v) = 0 /\ Index3(v) = 0 /\ Index2(v) = 0 /\ Index1(v) = v
PROOF
<1> DEFINE c == Fan * Fan * Fan
           b == Fan * Fan
<1>1. /\ c \in Nat \ {0} /\ b \in Nat \ {0} /\ Fan \in Nat \ {0}
      /\ c = Fan * b /\ b = Fan * Fan
  BY Powers
<1> HIDE DEF c, b
<1>2. Fan <= b
  <2>1. Fan * 1 <= Fan * Fan
    BY <1>1
  <2> QED
    BY <1>1, <2>1
<1>3. b <= c
  <2>1. b * 1 <= b * Fan
    BY <1>1
  <2>2. b * Fan = Fan * b /\ b * 1 = b
    BY <1>1
  <2> QED
    BY <1>1, <2>1, <2>2
<1>4. v \in 0 .. b - 1 /\ v \in 0 .. c - 1 /\ 0 \in 0 .. Fan - 1
  BY <1>1, <1>2, <1>3
<1>5. v \div c = 0 /\ v \div b = 0 /\ v \div Fan = 0 /\ v % Fan = v /\ 0 % Fan = 0
  BY <1>1, <1>4, SmallDivision
<1> QED
  BY <1>5 DEF Index4, Index3, Index2, Index1, b, c

LEMMA QuotientsOrdered ==
  ASSUME NEW a \in Nat, NEW b \in Nat, a <= b, NEW d \in Nat \ {0}
  PROVE  a \div d <= b \div d
PROOF
<1>1. PICK q \in Nat : q = b \div d
  BY Division
<1>2. b < (q + 1) * d
  BY <1>1, BelowProduct
<1>3. a < (q + 1) * d
  BY <1>2
<1>4. a \div d < q + 1 /\ a \div d \in Nat
  <2>1. q + 1 \in Nat
    OBVIOUS
  <2> QED
    BY <1>3, <2>1, BelowProduct, Division, Zenon
<1> QED
  BY <1>1, <1>4


LEMMA QuotientOfQuotient ==
  ASSUME NEW n \in Nat, NEW a \in Nat \ {0}, NEW b \in Nat \ {0}, a * b \in Nat \ {0}
  PROVE  (n \div a) \div b = n \div (a * b)
PROOF
<1>1. PICK q \in Nat : q = n \div a
  BY Division
<1>2. PICK p \in Nat : p = q \div b
  BY Division
<1>3. PICK m \in Nat : m = n \div (a * b)
  BY Division
<1>4. ASSUME NEW x \in Nat PROVE p < x <=> m < x
  <2>1. x * b \in Nat /\ (x * b) * a = x * (a * b)
    OBVIOUS
  <2>2. p < x <=> q < x * b
    BY <1>2, BelowProduct
  <2>3. q < x * b <=> n < (x * b) * a
    BY <1>1, <2>1, BelowProduct
  <2>4. m < x <=> n < x * (a * b)
    BY <1>3, BelowProduct
  <2> QED
    BY <2>1, <2>2, <2>3, <2>4
<1>5. p = m
  <2>1. m + 1 \in Nat /\ p + 1 \in Nat
    OBVIOUS
  <2>2. (p < m + 1 <=> m < m + 1) /\ (p < p + 1 <=> m < p + 1)
    BY <1>4, <2>1
  <2> QED
    BY <2>2
<1> QED
  BY <1>1, <1>2, <1>3, <1>5

(* Each quotient is the next one and an index.                             *)
LEMMA PageFromIndexes ==
  ASSUME NEW v \in Nat
  PROVE  /\ v \div Fan \in Nat /\ v \div (Fan * Fan) \in Nat /\ Index4(v) \in Nat
         /\ Index1(v) \in Slots /\ Index2(v) \in Slots /\ Index3(v) \in Slots
         /\ v = Fan * (v \div Fan) + Index1(v)
         /\ v \div Fan = Fan * (v \div (Fan * Fan)) + Index2(v)
         /\ v \div (Fan * Fan) = Fan * Index4(v) + Index3(v)
PROOF
<1> DEFINE c == Fan * Fan * Fan
           b == Fan * Fan
<1>1. /\ c \in Nat \ {0} /\ b \in Nat \ {0} /\ Fan \in Nat \ {0}
      /\ c = Fan * b /\ b = Fan * Fan /\ b * Fan \in Nat \ {0} /\ b * Fan = c
  BY Powers
<1> HIDE DEF c, b
<1>2. v \div Fan \in Nat /\ v \div b \in Nat /\ v \div c \in Nat
  BY <1>1, Division, Zenon
<1>3. (v \div Fan) \div Fan = v \div b
  BY <1>1, QuotientOfQuotient
<1>4. (v \div b) \div Fan = v \div c
  BY <1>1, QuotientOfQuotient
<1>5. ASSUME NEW x \in Nat PROVE x = Fan * (x \div Fan) + (x % Fan) /\ x % Fan \in Slots
  BY <1>1, Division DEF Slots
<1>6. v = Fan * (v \div Fan) + (v % Fan) /\ v % Fan \in Slots
  BY <1>5
<1>7. v \div Fan = Fan * (v \div b) + ((v \div Fan) % Fan) /\ (v \div Fan) % Fan \in Slots
  BY <1>2, <1>3, <1>5
<1>8. v \div b = Fan * (v \div c) + ((v \div b) % Fan) /\ (v \div b) % Fan \in Slots
  BY <1>2, <1>4, <1>5
<1> QED
  BY <1>2, <1>6, <1>7, <1>8 DEF Index4, Index3, Index2, Index1, b, c

(* Pages with the same first three indexes share a block of Fan pages.     *)
LEMMA SameBlock ==
  ASSUME NEW v \in Nat, NEW w \in Nat
  PROVE  v \div Fan = w \div Fan
           <=> Index4(v) = Index4(w) /\ Index3(v) = Index3(w) /\ Index2(v) = Index2(w)
PROOF
<1>1. ASSUME Index4(v) = Index4(w), Index3(v) = Index3(w), Index2(v) = Index2(w)
      PROVE  v \div Fan = w \div Fan
  BY <1>1, PageFromIndexes
<1>2. ASSUME v \div Fan = w \div Fan
      PROVE  Index4(v) = Index4(w) /\ Index3(v) = Index3(w) /\ Index2(v) = Index2(w)
  <2>1. /\ Fan * Fan * Fan = (Fan * Fan) * Fan /\ Fan * Fan \in Nat \ {0} /\ Fan \in Nat \ {0}
        /\ (Fan * Fan) * Fan \in Nat \ {0}
    BY Powers
  <2>2. ASSUME NEW x \in Nat
        PROVE  (x \div Fan) \div Fan = x \div (Fan * Fan)
               /\ (x \div (Fan * Fan)) \div Fan = x \div (Fan * Fan * Fan)
    BY <2>1, QuotientOfQuotient
  <2>3. v \div (Fan * Fan) = w \div (Fan * Fan)
    BY <1>2, <2>2
  <2>4. v \div (Fan * Fan * Fan) = w \div (Fan * Fan * Fan)
    BY <2>2, <2>3
  <2> QED
    BY <1>2, <2>3, <2>4 DEF Index4, Index3, Index2
<1> QED
  BY <1>1, <1>2

LEMMA SamePage ==
  ASSUME NEW v \in Nat, NEW w \in Nat, v \div Fan = w \div Fan, Index1(v) = Index1(w)
  PROVE  v = w
BY PageFromIndexes

(* The pages of the block of v.                                            *)
LEMMA BlockOf ==
  ASSUME NEW v \in Nat, NEW w \in Int
  PROVE  /\ v - Index1(v) \in Nat
         /\ w \in v - Index1(v) .. v - Index1(v) + Fan - 1
              <=> w \in Nat /\ w \div Fan = v \div Fan
         /\ w \in Nat /\ w \div Fan = v \div Fan => w - (v - Index1(v)) = Index1(w)
PROOF
<1>1. Fan \in Nat \ {0}
  BY Powers
<1>2. PICK q \in Nat : q = v \div Fan
  BY PageFromIndexes
<1>3. v - Index1(v) = Fan * q /\ Fan * q \in Nat
  <2>1. v = Fan * q + Index1(v) /\ Index1(v) \in Int
    BY <1>2, PageFromIndexes DEF Slots
  <2>2. Fan * q \in Nat
    BY <1>1
  <2> QED
    BY <2>1, <2>2
<1>4. ASSUME w \in Nat, w \div Fan = q
      PROVE  w - Fan * q = Index1(w) /\ w \in Fan * q .. Fan * q + Fan - 1
  <2>1. w = Fan * q + Index1(w) /\ Index1(w) \in 0 .. Fan - 1
    BY <1>4, PageFromIndexes DEF Slots
  <2> QED
    BY <1>1, <1>3, <1>4, <2>1
<1>5. ASSUME w \in Fan * q .. Fan * q + Fan - 1
      PROVE  w \in Nat /\ w \div Fan = q
  <2>1. w \in Nat
    BY <1>1, <1>3, <1>5
  <2>2. PICK p \in Nat : p = w \div Fan
    BY <2>1, PageFromIndexes
  <2>3. q * Fan = Fan * q /\ (q + 1) * Fan = Fan * q + Fan
    BY <1>1
  <2>4. ~(w < q * Fan) /\ w < (q + 1) * Fan
    BY <1>1, <1>3, <1>5, <2>1, <2>3
  <2>5. ~(p < q) /\ p < q + 1
    BY <1>1, <2>1, <2>2, <2>4, BelowProduct
  <2> QED
    BY <2>1, <2>2, <2>5
<1> QED
  BY <1>2, <1>3, <1>4, <1>5

(* A page is below the one that starts slot n of the first table exactly   *)
(* when its first index is below n.                                        *)
LEMMA FirstIndexBelow ==
  ASSUME NEW v \in Nat, NEW n \in Nat
  PROVE  v < n * Fan * Fan * Fan <=> Index4(v) < n
PROOF
<1> DEFINE c == Fan * Fan * Fan
<1>1. c \in Nat \ {0} /\ n * Fan * Fan * Fan = n * c
  BY Powers
<1> HIDE DEF c
<1>2. v \div c < n <=> v < n * c
  BY <1>1, BelowProduct
<1> QED
  BY <1>1, <1>2 DEF Index4, c

(* Quotient and remainder are unique.                                      *)
LEMMA Digits ==
  ASSUME NEW d \in Nat \ {0}, NEW q \in Nat, NEW p \in Nat, NEW r \in 0 .. d - 1, NEW s \in 0 .. d - 1,
         d * q + r = d * p + s
  PROVE  q = p /\ r = s
PROOF
<1>1. \A a, b \in Nat : a < b => d * a + d <= d * b
  <2> SUFFICES ASSUME NEW a \in Nat, NEW b \in Nat, a < b PROVE d * a + d <= d * b
    OBVIOUS
  <2>1. a + 1 <= b
    OBVIOUS
  <2>2. d * (a + 1) <= d * b
    BY <2>1
  <2>3. d * (a + 1) = d * a + d
    OBVIOUS
  <2> QED
    BY <2>2, <2>3
<1>2. d * q \in Nat /\ d * p \in Nat
  OBVIOUS
<1>3. ~(q < p)
  BY <1>1, <1>2
<1>4. ~(p < q)
  BY <1>1, <1>2
<1>5. q = p
  BY <1>3, <1>4
<1> QED
  BY <1>2, <1>5

LEMMA QuotientIs ==
  ASSUME NEW d \in Nat \ {0}, NEW q \in Nat, NEW r \in 0 .. d - 1
  PROVE  d * q + r \in Nat /\ (d * q + r) \div d = q /\ (d * q + r) % d = r
PROOF
<1>1. PICK n \in Nat : n = d * q + r
  OBVIOUS
<1>2. n = d * (n \div d) + (n % d) /\ n \div d \in Nat /\ n % d \in 0 .. d - 1
  BY Division
<1> QED
  BY <1>1, <1>2, Digits

(* The page that three slots lead to.                                      *)
PageAt(i, j, k) == Fan * (Fan * (Fan * i + j) + k)

LEMMA IndexesOfPage ==
  ASSUME NEW i \in Slots, NEW j \in Slots, NEW k \in Slots
  PROVE  /\ PageAt(i, j, k) \in Nat /\ PageAt(i, j, k) < Fan * Fan * Fan * Fan
         /\ Index4(PageAt(i, j, k)) = i /\ Index3(PageAt(i, j, k)) = j
         /\ Index2(PageAt(i, j, k)) = k
PROOF
<1>1. Fan \in Nat \ {0} /\ Fan * Fan \in Nat \ {0} /\ Fan * Fan * Fan \in Nat \ {0}
  BY Powers
<1>2. PICK a \in Nat : a = Fan * i + j
  BY <1>1 DEF Slots
<1>3. PICK b \in Nat : b = Fan * a + k
  BY <1>1 DEF Slots
<1>4. PICK v \in Nat : v = PageAt(i, j, k) /\ v = Fan * b + 0
  <2>1. Fan * b \in Nat /\ Fan * b + 0 = Fan * b
    BY <1>1
  <2> QED
    BY <1>2, <1>3, <2>1 DEF PageAt
<1>5. i \in Nat /\ j \in 0 .. Fan - 1 /\ k \in 0 .. Fan - 1 /\ 0 \in 0 .. Fan - 1
  BY <1>1 DEF Slots
<1>6. a \div Fan = i /\ a % Fan = j
  BY <1>1, <1>2, <1>5, QuotientIs
<1>7. b \div Fan = a /\ b % Fan = k
  BY <1>1, <1>3, <1>5, QuotientIs
<1>8. v \div Fan = b
  BY <1>1, <1>4, <1>5, QuotientIs
<1>9. v \div (Fan * Fan) = a
  BY <1>1, <1>7, <1>8, QuotientOfQuotient
<1>10. v \div (Fan * Fan * Fan) = i
  <2>1. (v \div (Fan * Fan)) \div Fan = v \div ((Fan * Fan) * Fan)
    BY <1>1, QuotientOfQuotient
  <2>2. a \div Fan = i
    BY <1>6
  <2> QED
    BY <1>9, <2>1, <2>2
<1>11. Index4(v) = i /\ Index3(v) = j /\ Index2(v) = k
  BY <1>6, <1>7, <1>8, <1>9, <1>10 DEF Index4, Index3, Index2
<1>12. v < Fan * Fan * Fan * Fan
  <2>1. i < Fan
    BY <1>1 DEF Slots
  <2> QED
    BY <1>1, <1>11, <2>1, FirstIndexBelow
<1> QED
  BY <1>4, <1>11, <1>12
=============================================================================
