---------------------------- MODULE ConsoleProofs ----------------------------
(***************************************************************************)
(* For every screen and every list of messages: the driver's position      *)
(* stays on the screen, the screen shows the last rows of what was         *)
(* printed, and a call of printf prints what its message says.             *)
(***************************************************************************)
EXTENDS Console, SequenceTheorems, WellFoundedInduction, TLAPS

(* A row and a column of the screen are a place of the text buffer.        *)
LEMMA PlaceOnScreen ==
  ASSUME NEW c \in 0 .. WIDTH - 1, NEW r \in 0 .. HEIGHT - 1
  PROVE  (r * WIDTH) + c \in Places
PROOF
<1>1. WIDTH \in Nat /\ HEIGHT \in Nat /\ WIDTH >= 1 /\ HEIGHT >= 1
  BY ConsoleAssumption
<1>2. (r + 1) * WIDTH <= HEIGHT * WIDTH
  BY <1>1
<1>3. (r + 1) * WIDTH = r * WIDTH + WIDTH /\ r * WIDTH >= 0
  BY <1>1
<1> QED
  BY <1>1, <1>2, <1>3 DEF Places

(* A number below the square of n has a low and a high digit.              *)
LEMMA TwoDigits ==
  ASSUME NEW n \in Nat \ {0}, NEW p \in 0 .. (n * n) - 1
  PROVE  p % n \in 0 .. n - 1 /\ p \div n \in 0 .. n - 1
PROOF
<1>1. p = n * (p \div n) + (p % n) /\ p % n \in 0 .. n - 1 /\ p \div n \in Int
  OBVIOUS
<1>2. n * (p \div n) < n * n /\ n * (p \div n) > -n
  BY <1>1
<1>3. p \div n < n
  BY <1>1, <1>2
<1>4. p \div n > -1
  <2>1. p \div n <= -1 => n * (p \div n) <= -n
    BY <1>1
  <2> QED
    BY <1>1, <1>2, <2>1
<1> QED
  BY <1>1, <1>3, <1>4

CursorType == [low : 0 .. BYTE - 1, high : 0 .. BYTE - 1]

(* Both registers get a byte, whatever the position is.                    *)
LEMMA CursorIsTwoBytes ==
  ASSUME NEW c \in Int, NEW r \in Int
  PROVE  [low |-> Position(c, r) % BYTE, high |-> Position(c, r) \div BYTE] \in CursorType
PROOF
<1>1. BYTE \in Nat \ {0} /\ WIDTH \in Nat
  BY ConsoleAssumption
<1>2. r % BYTE \in Int /\ c % BYTE \in Int
  BY <1>1
<1>3. ((r % BYTE) * WIDTH) + (c % BYTE) \in Int
  BY <1>1, <1>2
<1>4. BYTE * BYTE \in Nat \ {0}
  BY <1>1
<1>5. Position(c, r) \in 0 .. (BYTE * BYTE) - 1
  BY <1>3, <1>4 DEF Position
<1>6. Position(c, r) % BYTE \in 0 .. BYTE - 1 /\ Position(c, r) \div BYTE \in 0 .. BYTE - 1
  BY <1>1, <1>5, TwoDigits
<1> QED
  BY <1>6 DEF CursorType

(* A call is a record that says where printf is.                           *)
CallShape == "op" \in DOMAIN call /\ call = [k \in DOMAIN call |-> call[k]]

ConsoleInv == TypeOK /\ CallShape

(* Whatever is printed, the next character has a place.                    *)
LEMMA PutcharType ==
  ASSUME TypeOK, NEW c, putchar(c)
  PROVE  /\ x' \in 0 .. WIDTH - 1 /\ y' \in 0 .. HEIGHT - 1
         /\ DOMAIN screen' = Places
         /\ cursor' \in CursorType
PROOF
<1>1. WIDTH \in Nat /\ HEIGHT \in Nat /\ WIDTH >= 1 /\ HEIGHT >= 1
  BY ConsoleAssumption
<1>2. x \in 0 .. WIDTH - 1 /\ y \in 0 .. HEIGHT - 1 /\ DOMAIN screen = Places
  BY DEF TypeOK
<1>3. x' \in 0 .. WIDTH - 1
  BY <1>1, <1>2 DEF putchar, EndsRow
<1>4. y' \in 0 .. HEIGHT - 1
  BY <1>1, <1>2 DEF putchar
<1>5. DOMAIN Placed(c) = Places
  BY <1>2 DEF Placed
<1>6. DOMAIN screen' = Places
  BY <1>5 DEF putchar, Scrolled
<1>7. cursor' \in CursorType
  BY <1>3, <1>4, CursorIsTwoBytes DEF putchar, update_cursor
<1> QED
  BY <1>3, <1>4, <1>6, <1>7

LEMMA ConsoleInvInit == Init => ConsoleInv
PROOF
<1> SUFFICES ASSUME Init PROVE ConsoleInv
  OBVIOUS
<1>1. WIDTH \in Nat /\ HEIGHT \in Nat /\ WIDTH >= 1 /\ HEIGHT >= 1 /\ BYTE \in Nat /\ BYTE >= 1
  BY ConsoleAssumption
<1>2. TypeOK
  <2>0. 0 \in 0 .. WIDTH - 1 /\ 0 \in 0 .. HEIGHT - 1 /\ 0 \in 0 .. BYTE - 1
    BY <1>1
  <2>1. x \in 0 .. WIDTH - 1 /\ y \in 0 .. HEIGHT - 1
    BY <2>0, Zenon DEF Init
  <2>2. DOMAIN screen = Places
    BY DEF Init
  <2>3. cursor \in [low : 0 .. BYTE - 1, high : 0 .. BYTE - 1]
    BY <2>0, Zenon DEF Init
  <2>4. call.op \in {"off", "idle", "format", "print"}
    BY DEF Init
  <2> QED
    BY <2>1, <2>2, <2>3, <2>4 DEF TypeOK
<1>3. CallShape
  BY DEF Init, CallShape
<1> QED
  BY <1>2, <1>3 DEF ConsoleInv

LEMMA ConsoleInvStep == ConsoleInv /\ [Next]_vars => ConsoleInv'
PROOF
<1> SUFFICES ASSUME ConsoleInv, [Next]_vars PROVE ConsoleInv'
  OBVIOUS
<1> USE DEF ConsoleInv
<1>1. CASE initialize
  <2>1. WIDTH \in Nat /\ HEIGHT \in Nat /\ 0 \in Int
    BY ConsoleAssumption
  <2>2. cursor' \in CursorType
    BY <1>1, <2>1, CursorIsTwoBytes DEF initialize, update_cursor
  <2>3. TypeOK'
    BY <1>1, <2>2 DEF initialize, TypeOK, CursorType
  <2>4. CallShape'
    BY <1>1 DEF initialize, CallShape
  <2> QED
    BY <2>3, <2>4
<1>2. CASE Call
  <2>1. TypeOK' /\ CallShape'
    BY <1>2 DEF Call, TypeOK, CallShape
  <2> QED
    BY <2>1
<1>3. CASE Conversion
  <2>1. call'.op = "print" /\ CallShape'
    BY <1>3 DEF Conversion, CallShape
  <2>2. TypeOK'
    BY <1>3, <2>1 DEF Conversion, TypeOK
  <2> QED
    BY <2>1, <2>2
<1>4. CASE Plain
  <2>1. call'.op = call.op /\ CallShape'
    BY <1>4 DEF Plain, CallShape
  <2>2. TypeOK'
    BY <1>4, <2>1, PutcharType DEF Plain, TypeOK, CursorType
  <2> QED
    BY <2>1, <2>2
<1>5. CASE Emit
  <2>1. call'.op \in {"print", "format"} /\ CallShape'
    BY <1>5 DEF Emit, CallShape
  <2>2. CASE call.out = << >>
    BY <1>5, <2>1, <2>2 DEF Emit, TypeOK
  <2>3. CASE call.out # << >>
    BY <1>5, <2>1, <2>3, PutcharType DEF Emit, TypeOK, CursorType
  <2> QED
    BY <2>1, <2>2, <2>3
<1>6. CASE Return
  BY <1>6 DEF Return, TypeOK, CallShape
<1>7. CASE UNCHANGED vars
  BY <1>7 DEF vars, TypeOK, CallShape
<1> QED
  BY <1>1, <1>2, <1>3, <1>4, <1>5, <1>6, <1>7 DEF Next

(* Whatever is printed, on a screen of any size, the driver's position     *)
(* stays on the screen and the cursor registers hold bytes.                *)
THEOREM PositionStaysOnScreen == Spec => []TypeOK
PROOF
<1>1. ConsoleInv => TypeOK
  BY DEF ConsoleInv
<1> QED
  BY <1>1, ConsoleInvInit, ConsoleInvStep, PTL DEF Spec

(* putchar writes into the text buffer and nowhere else.                   *)
THEOREM WritesInTheBuffer == Spec => [](y * WIDTH + x \in Places)
PROOF
<1>1. TypeOK => y * WIDTH + x \in Places
  BY PlaceOnScreen DEF TypeOK
<1> QED
  BY <1>1, PositionStaysOnScreen, PTL

(* A set of numbers has a least one.                                       *)
LEMMA FirstOf ==
  ASSUME NEW S, S \subseteq Nat, S # {}
  PROVE  \E p \in S : \A q \in S : p <= q
PROOF
<1> DEFINE R == OpToRel(<, Nat)
<1>1. IsWellFoundedOn(R, Nat)
  BY NatLessThanWellFounded
<1>2. \A p, q \in Nat : q < p => <<q, p>> \in R
  BY DEF OpToRel
<1> HIDE DEF R
<1>3. PICK p \in S : \A q \in S : <<q, p>> \notin R
  BY <1>1, WFMin
<1>4. ASSUME NEW q \in S PROVE p <= q
  <2>1. p \in Nat /\ q \in Nat
    OBVIOUS
  <2>2. ~(q < p)
    BY <1>2, <1>3, <2>1, Zenon
  <2> QED
    BY <2>1, <2>2
<1> QED
  BY <1>4

(***************************************************************************)
(* The rows of a text.  Rows is a recursive function of the characters; it *)
(* is followed one character at a time.                                    *)
(***************************************************************************)
Longer(rows, c) == [rows EXCEPT ![Len(rows)] = Append(@, c)]

NextRows(rows, c) ==
  IF c = "\n" THEN Append(rows, << >>)
  ELSE IF Len(Longer(rows, c)[Len(rows)]) = WIDTH THEN Append(Longer(rows, c), << >>)
       ELSE Longer(rows, c)

RowsBy(f, t) ==
  f = [n \in 0 .. Len(t) |-> IF n = 0 THEN << << >> >> ELSE NextRows(f[n - 1], t[n])]

IsText(t) == \E S : t \in Seq(S)

(* Two functions that follow the same characters agree.                    *)
LEMMA RowsAgree ==
  ASSUME NEW t, IsText(t), NEW f, NEW g, RowsBy(f, t), RowsBy(g, t)
  PROVE  f = g
PROOF
<1>1. Len(t) \in Nat
  BY DEF IsText
<1>2. /\ f[0] = << << >> >> /\ g[0] = << << >> >>
      /\ \A n \in 1 .. Len(t) : f[n] = NextRows(f[n - 1], t[n]) /\ g[n] = NextRows(g[n - 1], t[n])
  BY <1>1 DEF RowsBy
<1> DEFINE D == {n \in 0 .. Len(t) : f[n] # g[n]}
<1>3. D = {}
  <2> SUFFICES ASSUME D # {} PROVE FALSE
    OBVIOUS
  <2>1. D \subseteq Nat
    OBVIOUS
  <2>2. PICK n \in D : \A m \in D : n <= m
    <3> HIDE DEF D
    <3> QED
      BY <2>1, FirstOf
  <2>3. n \in 0 .. Len(t) /\ f[n] # g[n]
    OBVIOUS
  <2>4. n \in 1 .. Len(t) /\ n - 1 \in 0 .. Len(t) /\ ~(n <= n - 1)
    <3>1. n # 0
      BY <1>2, <2>3
    <3> QED
      BY <1>1, <2>3, <3>1
  <2>5. f[n - 1] = g[n - 1]
    BY <2>2, <2>4
  <2> QED
    BY <1>2, <2>3, <2>4, <2>5
<1>4. \A n \in 0 .. Len(t) : f[n] = g[n]
  BY <1>3
<1>5. /\ f = [n \in 0 .. Len(t) |-> f[n]]
      /\ g = [n \in 0 .. Len(t) |-> g[n]]
  BY DEF RowsBy
<1> QED
  BY <1>4, <1>5

LEMMA RowsAre ==
  ASSUME NEW t, IsText(t), NEW f, RowsBy(f, t)
  PROVE  Rows(t) = f[Len(t)]
PROOF
<1> DEFINE h == CHOOSE g : RowsBy(g, t)
<1>1. RowsBy(h, t)
  OBVIOUS
<1>2. Rows(t) = h[Len(t)]
  BY DEF Rows, RowsBy, NextRows, Longer
<1> HIDE DEF h
<1>3. h = f
  BY <1>1, RowsAgree
<1> QED
  BY <1>2, <1>3

LEMMA RowsOfNothing ==
  /\ IsText(<< >>) /\ Rows(<< >>) = << << >> >>
  /\ \E f : RowsBy(f, << >>)
PROOF
<1> DEFINE f == [n \in 0 .. 0 |-> << << >> >>]
<1>1. << >> \in Seq({}) /\ Len(<< >>) = 0
  OBVIOUS
<1>2. IsText(<< >>)
  BY <1>1 DEF IsText
<1>3. f[0] = << << >> >> /\ f = [n \in 0 .. 0 |-> IF n = 0 THEN << << >> >> ELSE NextRows(f[n - 1], << >>[n])]
  OBVIOUS
<1> HIDE DEF f
<1>4. RowsBy(f, << >>)
  BY <1>1, <1>3 DEF RowsBy
<1>5. Rows(<< >>) = f[Len(<< >>)]
  BY <1>2, <1>4, RowsAre
<1> QED
  BY <1>1, <1>2, <1>3, <1>4, <1>5

LEMMA RowsOfMore ==
  ASSUME NEW t, IsText(t), NEW f, RowsBy(f, t), NEW c, NEW u, u = Append(t, c)
  PROVE  IsText(u) /\ Rows(u) = NextRows(Rows(t), c) /\ \E g : RowsBy(g, u)
PROOF
<1>1. PICK S : t \in Seq(S)
  BY DEF IsText
<1>2. PICK T : T = S \cup {c}
  OBVIOUS
<1>3. t \in Seq(T) /\ c \in T
  <2>1. Len(t) \in Nat /\ DOMAIN t = 1 .. Len(t) /\ t = [i \in 1 .. Len(t) |-> t[i]]
        /\ \A i \in 1 .. Len(t) : t[i] \in S
    BY <1>1
  <2>2. \A i \in 1 .. Len(t) : t[i] \in T
    BY <1>2, <2>1
  <2> QED
    BY <1>2, <2>1, <2>2, IsASeq
<1>4. /\ Len(t) \in Nat /\ Len(u) = Len(t) + 1 /\ u \in Seq(T) /\ u[Len(t) + 1] = c
      /\ \A i \in 1 .. Len(t) : u[i] = t[i]
  BY <1>3, AppendProperties
<1>5. IsText(u)
  BY <1>4 DEF IsText
<1> DEFINE k == Len(t)
           g == [n \in 0 .. k + 1 |-> IF n = k + 1 THEN NextRows(f[k], c) ELSE f[n]]
<1>6. k \in Nat
  BY <1>4
<1>7. /\ f[0] = << << >> >>
      /\ \A n \in 1 .. k : f[n] = NextRows(f[n - 1], t[n])
  BY <1>6 DEF RowsBy
<1> HIDE DEF k
<1>8. ASSUME NEW n \in 0 .. k + 1
      PROVE  g[n] = IF n = 0 THEN << << >> >> ELSE NextRows(g[n - 1], u[n])
  <2>1. CASE n = 0
    <3>1. n \in 0 .. k + 1 /\ n # k + 1
      BY <1>6, <2>1
    <3>2. g[n] = f[n]
      BY <3>1
    <3> HIDE DEF g
    <3>3. g[n] = << << >> >>
      BY <1>7, <2>1, <3>2
    <3> QED
      BY <2>1, <3>3
  <2>2. CASE n \in 1 .. k
    <3>1. n - 1 \in 0 .. k + 1 /\ n # k + 1 /\ n - 1 # k + 1 /\ n # 0
      BY <1>6, <2>2
    <3>2. g[n] = f[n] /\ g[n - 1] = f[n - 1]
      BY <3>1
    <3>3. u[n] = t[n]
      BY <1>4, <2>2 DEF k
    <3> QED
      BY <1>7, <2>2, <3>1, <3>2, <3>3
  <2>3. CASE n = k + 1
    <3>1. n - 1 = k /\ k \in 0 .. k + 1 /\ k # k + 1 /\ n # 0
      BY <1>6, <2>3
    <3>2. g[n] = NextRows(f[k], c) /\ g[n - 1] = f[k]
      BY <2>3, <3>1
    <3>3. u[n] = c
      BY <1>4, <2>3 DEF k
    <3> QED
      BY <3>1, <3>2, <3>3
  <2>4. n = 0 \/ n \in 1 .. k \/ n = k + 1
    BY <1>6
  <2> QED
    BY <2>1, <2>2, <2>3, <2>4, Zenon
<1>9. g = [n \in 0 .. k + 1 |-> g[n]] /\ g[k + 1] = NextRows(f[k], c)
  BY <1>6
<1> HIDE DEF g
<1>10. RowsBy(g, u)
  BY <1>4, <1>8, <1>9 DEF RowsBy, k
<1>11. Rows(u) = NextRows(f[k], c)
  BY <1>4, <1>5, <1>9, <1>10, RowsAre DEF k
<1>12. Rows(t) = f[k]
  BY RowsAre DEF k
<1> QED
  BY <1>5, <1>10, <1>11, <1>12

(***************************************************************************)
(* The screen shows the last rows.                                         *)
(***************************************************************************)
First(rows) == IF Len(rows) > HEIGHT THEN Len(rows) - HEIGHT ELSE 0

(* What stands in column c of row k of a text.                             *)
Shown(rows, k, c) == IF k <= Len(rows) /\ c <= Len(rows[k]) THEN Cell(rows[k][c]) ELSE Blank

Shows(s, rows) ==
  /\ DOMAIN s = Places
  /\ \A r \in 0 .. HEIGHT - 1 : \A c \in 0 .. WIDTH - 1 :
       s[(r * WIDTH) + c] = Shown(rows, First(rows) + r + 1, c + 1)

(* The rows of a text: at least one, and none is too long.                 *)
SomeRows(rows) ==
  /\ \E S : rows \in Seq(Seq(S))
  /\ Len(rows) >= 1
  /\ \A k \in 1 .. Len(rows) : Len(rows[k]) <= WIDTH

Behind(rows, px, py) == px = Len(rows[Len(rows)]) /\ py = Len(rows) - First(rows) - 1

LEMMA SamePlace ==
  ASSUME NEW r \in 0 .. HEIGHT - 1, NEW s \in 0 .. HEIGHT - 1,
         NEW c \in 0 .. WIDTH - 1, NEW d \in 0 .. WIDTH - 1, (r * WIDTH) + c = (s * WIDTH) + d
  PROVE  r = s /\ c = d
PROOF
<1>1. WIDTH \in Nat /\ HEIGHT \in Nat /\ r \in Nat /\ s \in Nat
  BY ConsoleAssumption
<1>2. \A a, b \in Nat : a < b => a * WIDTH + WIDTH <= b * WIDTH
  <2> SUFFICES ASSUME NEW a \in Nat, NEW b \in Nat, a < b PROVE a * WIDTH + WIDTH <= b * WIDTH
    OBVIOUS
  <2>1. a + 1 <= b
    OBVIOUS
  <2>2. (a + 1) * WIDTH <= b * WIDTH
    BY <1>1, <2>1
  <2> QED
    BY <1>1, <2>2
<1>3. PICK p \in Nat, q \in Nat : p = r * WIDTH /\ q = s * WIDTH
  BY <1>1
<1>4. ~(r < s) /\ ~(s < r)
  BY <1>1, <1>2, <1>3
<1>5. r = s
  BY <1>1, <1>4
<1> QED
  BY <1>1, <1>3, <1>5

HasOneMore(R1, R, c) ==
  /\ SomeRows(R1) /\ Len(R1) = Len(R) /\ Len(R) \in Nat \ {0}
  /\ \A k \in 1 .. Len(R) - 1 : R1[k] = R[k]
  /\ Len(R[Len(R)]) \in Nat
  /\ Len(R1[Len(R)]) = Len(R[Len(R)]) + 1
  /\ R1[Len(R)][Len(R[Len(R)]) + 1] = c
  /\ \A i \in 1 .. Len(R[Len(R)]) : R1[Len(R)][i] = R[Len(R)][i]

(* A character goes behind the last one.                                   *)
LEMMA LongerRow ==
  ASSUME NEW R, SomeRows(R), Len(R[Len(R)]) < WIDTH, NEW c,
         NEW R1, R1 = Longer(R, c)
  PROVE  HasOneMore(R1, R, c)
PROOF
<1>1. PICK S : R \in Seq(Seq(S))
  BY DEF SomeRows
<1>2. PICK T : T = S \cup {c}
  OBVIOUS
<1>3. PICK L : L = Len(R)
  OBVIOUS
<1>4. L \in Nat /\ L >= 1 /\ DOMAIN R = 1 .. L /\ L \in 1 .. L
  BY <1>1, <1>3 DEF SomeRows
<1>5. ASSUME NEW k \in 1 .. L PROVE R[k] \in Seq(T)
  <2>1. R[k] \in Seq(S)
    BY <1>1, <1>4, <1>3
  <2>2. PICK q : q = R[k]
    OBVIOUS
  <2>3. Len(q) \in Nat /\ q = [i \in 1 .. Len(q) |-> q[i]] /\ \A i \in 1 .. Len(q) : q[i] \in S
    BY <2>1, <2>2
  <2>4. \A i \in 1 .. Len(q) : q[i] \in T
    BY <1>2, <2>3
  <2>5. q \in Seq(T)
    BY <2>3, <2>4, IsASeq
  <2> QED
    BY <2>2, <2>5
<1>6. PICK p : p = R[L]
  OBVIOUS
<1>7. PICK u : u = Append(p, c)
  OBVIOUS
<1>8. p \in Seq(T) /\ c \in T
  BY <1>2, <1>4, <1>5, <1>6
<1>9. /\ u \in Seq(T) /\ Len(p) \in Nat /\ Len(u) = Len(p) + 1 /\ u[Len(p) + 1] = c
      /\ \A i \in 1 .. Len(p) : u[i] = p[i]
  BY <1>7, <1>8, AppendProperties
<1>10. R1 = [k \in 1 .. L |-> IF k = L THEN u ELSE R[k]]
  BY <1>3, <1>4, <1>6, <1>7 DEF Longer
<1>11. ASSUME NEW k \in 1 .. L PROVE R1[k] \in Seq(T)
  <2>1. R1[k] = IF k = L THEN u ELSE R[k]
    BY <1>10
  <2> QED
    BY <1>5, <1>9, <2>1
<1>12. R1 = [k \in 1 .. L |-> R1[k]]
  BY <1>10
<1>13. R1 \in Seq(Seq(T)) /\ Len(R1) = L
  BY <1>4, <1>11, <1>12, IsASeq
<1>14. R1[L] = u /\ \A k \in 1 .. L - 1 : R1[k] = R[k]
  BY <1>4, <1>10
<1>15. WIDTH \in Nat /\ Len(p) < WIDTH
  BY <1>3, <1>6, ConsoleAssumption
<1>16. ASSUME NEW k \in 1 .. L PROVE Len(R1[k]) <= WIDTH
  <2>1. CASE k = L
    BY <1>9, <1>14, <1>15, <2>1
  <2>2. CASE k # L
    BY <1>3, <1>4, <1>14, <2>2 DEF SomeRows
  <2> QED
    BY <2>1, <2>2
<1>17. SomeRows(R1)
  BY <1>4, <1>13, <1>16 DEF SomeRows
<1> QED
  BY <1>3, <1>4, <1>6, <1>9, <1>13, <1>14, <1>17 DEF HasOneMore

(* The driver's place for it is the place the screen shows it at.          *)
LEMMA PlacedShows ==
  ASSUME NEW R, SomeRows(R), Len(R[Len(R)]) < WIDTH, NEW c, NEW s, Shows(s, R),
         NEW px \in 0 .. WIDTH - 1, NEW py \in 0 .. HEIGHT - 1, Behind(R, px, py),
         NEW R1, R1 = Longer(R, c),
         NEW s1, s1 = [s EXCEPT ![py * WIDTH + px] = Cell(c)]
  PROVE  Shows(s1, R1)
PROOF
<1>1. PICK L : L = Len(R)
  OBVIOUS
<1>2. PICK p : p = R[L]
  OBVIOUS
<1>3. PICK u : u = R1[L]
  OBVIOUS
<1>4. PICK F : F = First(R)
  OBVIOUS
<1>5. /\ Len(R1) = L /\ L \in Nat \ {0} /\ Len(p) \in Nat /\ Len(u) = Len(p) + 1
      /\ \A k \in 1 .. L - 1 : R1[k] = R[k]
      /\ u[Len(p) + 1] = c
      /\ \A i \in 1 .. Len(p) : u[i] = p[i]
  <2>1. HasOneMore(R1, R, c)
    BY LongerRow, Zenon
  <2> QED
    BY <1>1, <1>2, <1>3, <2>1, Zenon DEF HasOneMore
<1>6. WIDTH \in Nat /\ HEIGHT \in Nat
  BY ConsoleAssumption
<1>7. F \in Nat /\ First(R1) = F
  BY <1>1, <1>4, <1>5, <1>6 DEF First
<1>8. px = Len(p) /\ py = L - F - 1
  BY <1>1, <1>2, <1>4 DEF Behind
<1>9. DOMAIN s1 = Places /\ DOMAIN s = Places
  BY DEF Shows
<1>10. ASSUME NEW r \in 0 .. HEIGHT - 1, NEW d \in 0 .. WIDTH - 1
       PROVE  s1[(r * WIDTH) + d] = Shown(R1, F + r + 1, d + 1)
  <2>1. PICK k : k = F + r + 1
    OBVIOUS
  <2>2. PICK e : e = d + 1
    OBVIOUS
  <2>3. k \in Nat /\ k >= 1 /\ e \in Nat /\ e >= 1
    BY <1>6, <1>7, <2>1, <2>2
  <2>4. (r * WIDTH) + d \in Places
    BY PlaceOnScreen
  <2>5. s[(r * WIDTH) + d] = Shown(R, k, e)
    BY <1>4, <2>1, <2>2 DEF Shows
  <2>6. CASE r = py /\ d = px
    <3>1. s1[(r * WIDTH) + d] = Cell(c)
      BY <1>9, <2>4, <2>6
    <3>2. k = L /\ e = Len(u) /\ e = Len(p) + 1
      BY <1>5, <1>6, <1>7, <1>8, <2>1, <2>2, <2>6
    <3>3. k <= Len(R1) /\ e <= Len(R1[k]) /\ R1[k][e] = c
      BY <1>3, <1>5, <3>2
    <3>4. Shown(R1, k, e) = Cell(c)
      BY <3>3 DEF Shown
    <3> QED
      BY <2>1, <2>2, <3>1, <3>4
  <2>7. CASE ~(r = py /\ d = px)
    <3>1. (r * WIDTH) + d # (py * WIDTH) + px
      BY <2>7, SamePlace
    <3>2. s1[(r * WIDTH) + d] = s[(r * WIDTH) + d]
      BY <1>9, <2>4, <3>1
    <3>3. Shown(R1, k, e) = Shown(R, k, e)
      <4>1. CASE k < L
        <5>1. k \in 1 .. L - 1 /\ k <= Len(R) /\ k <= Len(R1)
          BY <1>1, <1>5, <2>3, <4>1
        <5>2. R1[k] = R[k]
          BY <1>5, <5>1
        <5> QED
          BY <5>1, <5>2 DEF Shown
      <4>2. CASE k = L
        <5>1. r = py
          BY <1>5, <1>6, <1>7, <1>8, <2>1, <4>2
        <5>2. d # px /\ d \in Int /\ px \in Int
          BY <1>6, <2>7, <5>1
        <5>3. k <= Len(R) /\ k <= Len(R1) /\ R[k] = p /\ R1[k] = u
          BY <1>1, <1>2, <1>3, <1>5, <4>2
        <5>4. CASE d < px
          <6>1. e \in 1 .. Len(p) /\ e <= Len(p) /\ e <= Len(u)
            BY <1>5, <1>8, <2>2, <2>3, <5>2, <5>4
          <6>2. u[e] = p[e]
            BY <1>5, <6>1
          <6>3. Shown(R, k, e) = Cell(p[e])
            BY <5>3, <6>1, Zenon DEF Shown
          <6>4. Shown(R1, k, e) = Cell(u[e])
            BY <5>3, <6>1, Zenon DEF Shown
          <6> QED
            BY <6>2, <6>3, <6>4, Zenon
        <5>5. CASE d > px
          <6>1. ~(e <= Len(p)) /\ ~(e <= Len(u))
            BY <1>5, <1>8, <2>2, <2>3, <5>2, <5>5
          <6>2. Shown(R, k, e) = Blank /\ Shown(R1, k, e) = Blank
            BY <5>3, <6>1, Zenon DEF Shown
          <6> QED
            BY <6>2, Zenon
        <5> QED
          BY <5>2, <5>4, <5>5
      <4>3. CASE k > L
        <5>1. ~(k <= Len(R)) /\ ~(k <= Len(R1))
          BY <1>1, <1>5, <2>3, <4>3
        <5> QED
          BY <5>1 DEF Shown
      <4> QED
        BY <1>5, <2>3, <4>1, <4>2, <4>3
    <3> QED
      BY <2>1, <2>2, <2>5, <3>2, <3>3
  <2> QED
    BY <2>6, <2>7
<1> QED
  BY <1>7, <1>9, <1>10 DEF Shows

(* A new row: on paper below the last one, on the screen too if there is   *)
(* one below, and in the place of the last one otherwise, when the rest    *)
(* moves up.                                                               *)
LEMMA OneMoreRow ==
  ASSUME NEW R1, SomeRows(R1), NEW R2, R2 = Append(R1, << >>)
  PROVE  /\ SomeRows(R2) /\ Len(R1) \in Nat \ {0} /\ Len(R2) = Len(R1) + 1
         /\ \A k \in 1 .. Len(R1) : R2[k] = R1[k]
         /\ R2[Len(R1) + 1] = << >>
PROOF
<1>1. PICK S : R1 \in Seq(Seq(S))
  BY DEF SomeRows
<1>2. << >> \in Seq(S) /\ Len(<< >>) = 0
  OBVIOUS
<1>3. /\ R2 \in Seq(Seq(S)) /\ Len(R1) \in Nat /\ Len(R2) = Len(R1) + 1
      /\ R2[Len(R1) + 1] = << >>
      /\ \A k \in 1 .. Len(R1) : R2[k] = R1[k]
  BY <1>1, <1>2, AppendProperties
<1>4. Len(R1) >= 1 /\ \A k \in 1 .. Len(R1) : Len(R1[k]) <= WIDTH
  BY DEF SomeRows
<1>5. WIDTH \in Nat
  BY ConsoleAssumption
<1>6. ASSUME NEW k \in 1 .. Len(R2) PROVE Len(R2[k]) <= WIDTH
  <2>1. CASE k \in 1 .. Len(R1)
    <3>1. R2[k] = R1[k]
      BY <1>3, <2>1
    <3> QED
      BY <1>4, <2>1, <3>1
  <2>2. CASE k = Len(R1) + 1
    BY <1>2, <1>3, <1>5, <2>2
  <2>3. k \in 1 .. Len(R1) \/ k = Len(R1) + 1
    BY <1>3
  <2> QED
    BY <2>1, <2>2, <2>3
<1>7. SomeRows(R2)
  BY <1>3, <1>4, <1>6 DEF SomeRows
<1> QED
  BY <1>3, <1>4, <1>7

LEMMA FirstIs ==
  ASSUME NEW R, NEW n, n = Len(R)
  PROVE  First(R) = IF n > HEIGHT THEN n - HEIGHT ELSE 0
PROOF
<1> QED
  BY DEF First

LEMMA NewRowShows ==
  ASSUME NEW R1, SomeRows(R1), NEW s, Shows(s, R1),
         NEW py \in 0 .. HEIGHT - 1, py = Len(R1) - First(R1) - 1,
         NEW R2, R2 = Append(R1, << >>),
         NEW s2, s2 = IF py + 1 >= HEIGHT THEN Scrolled(s) ELSE s,
         NEW y2, y2 = IF py + 1 >= HEIGHT THEN HEIGHT - 1 ELSE py + 1
  PROVE  Shows(s2, R2) /\ Behind(R2, 0, y2)
PROOF
<1>1. PICK L : L = Len(R1)
  OBVIOUS
<1>2. PICK F : F = First(R1)
  OBVIOUS
<1>3. PICK G : G = First(R2)
  OBVIOUS
<1>4. /\ L \in Nat \ {0} /\ Len(R2) = L + 1
      /\ \A k \in 1 .. L : R2[k] = R1[k]
      /\ R2[L + 1] = << >>
  BY <1>1, OneMoreRow
<1>5. WIDTH \in Nat /\ HEIGHT \in Nat /\ WIDTH >= 1 /\ HEIGHT >= 1
  BY ConsoleAssumption
<1>M. PICK M : M = L + 1
  OBVIOUS
<1>6. /\ M = L + 1
      /\ F = IF L > HEIGHT THEN L - HEIGHT ELSE 0
      /\ G = IF M > HEIGHT THEN M - HEIGHT ELSE 0
  <2>1. F = IF L > HEIGHT THEN L - HEIGHT ELSE 0
    BY <1>1, <1>2, FirstIs
  <2>2. M = Len(R2)
    BY <1>4, <1>M
  <2>3. G = IF M > HEIGHT THEN M - HEIGHT ELSE 0
    BY <1>3, <2>2, FirstIs
  <2> QED
    BY <1>M, <2>1, <2>3
<1>7. F \in Nat /\ G \in Nat /\ py = L - F - 1
  BY <1>1, <1>2, <1>4, <1>5, <1>6
<1>8. Len(R2[Len(R2)]) = 0
  BY <1>4
<1>9. DOMAIN s = Places
  BY DEF Shows
<1>10. ASSUME NEW k \in Nat \ {0}, NEW e \in Nat \ {0} PROVE Shown(R2, k, e) = Shown(R1, k, e)
  <2>1. CASE k \in 1 .. L
    <3>1. R2[k] = R1[k] /\ k <= Len(R1) /\ k <= Len(R2)
      BY <1>1, <1>4, <2>1
    <3> QED
      BY <3>1, Zenon DEF Shown
  <2>2. CASE k = L + 1
    <3>1. ~(k <= Len(R1)) /\ ~(e <= Len(R2[k]))
      BY <1>1, <1>4, <2>2
    <3> QED
      BY <3>1, Zenon DEF Shown
  <2>3. CASE k > L + 1
    <3>1. ~(k <= Len(R1)) /\ ~(k <= Len(R2))
      BY <1>1, <1>4, <2>3
    <3> QED
      BY <3>1, Zenon DEF Shown
  <2>4. k \in 1 .. L \/ k = L + 1 \/ k > L + 1
    BY <1>4
  <2> QED
    BY <2>1, <2>2, <2>3, <2>4
<1>11. CASE py + 1 < HEIGHT
  <2>1. F = 0 /\ G = 0 /\ s2 = s /\ y2 = py + 1
    <3>1. ~(py + 1 >= HEIGHT) /\ ~(L > HEIGHT) /\ ~(M > HEIGHT)
      BY <1>4, <1>5, <1>6, <1>7, <1>11
    <3> QED
      BY <1>6, <3>1, Zenon
  <2>2. ASSUME NEW r \in 0 .. HEIGHT - 1, NEW d \in 0 .. WIDTH - 1
        PROVE  s2[(r * WIDTH) + d] = Shown(R2, G + r + 1, d + 1)
    <3>1. G + r + 1 \in Nat \ {0} /\ d + 1 \in Nat \ {0} /\ F + r + 1 = G + r + 1
      BY <1>5, <2>1
    <3>2. s[(r * WIDTH) + d] = Shown(R1, F + r + 1, d + 1)
      BY <1>2 DEF Shows
    <3> QED
      BY <1>10, <2>1, <3>1, <3>2
  <2>3. y2 = Len(R2) - G - 1
    BY <1>4, <1>7, <2>1
  <2> QED
    BY <1>3, <1>8, <1>9, <2>1, <2>2, <2>3 DEF Shows, Behind
<1>12. CASE py + 1 >= HEIGHT
  <2>1. G = F + 1 /\ L = F + HEIGHT /\ s2 = Scrolled(s) /\ y2 = HEIGHT - 1
    <3>1. L >= HEIGHT
      BY <1>4, <1>5, <1>6, <1>7, <1>12
    <3>2. F = L - HEIGHT /\ G = L + 1 - HEIGHT
      BY <1>4, <1>5, <1>6, <3>1
    <3>3. s2 = Scrolled(s) /\ y2 = HEIGHT - 1
      BY <1>12, Zenon
    <3> QED
      BY <1>4, <1>5, <3>2, <3>3
  <2>2. s2 = [i \in Places |-> IF i < (HEIGHT - 1) * WIDTH THEN s[i + WIDTH] ELSE Blank]
    BY <2>1 DEF Scrolled
  <2>3. ASSUME NEW r \in 0 .. HEIGHT - 1, NEW d \in 0 .. WIDTH - 1
        PROVE  s2[(r * WIDTH) + d] = Shown(R2, G + r + 1, d + 1)
    <3>1. G + r + 1 \in Nat \ {0} /\ d + 1 \in Nat \ {0} /\ r \in Nat /\ d \in Nat
      BY <1>5, <1>7
    <3>2. Shown(R2, G + r + 1, d + 1) = Shown(R1, G + r + 1, d + 1)
      BY <1>10, <3>1
    <3>3. PICK i : i = (r * WIDTH) + d
      OBVIOUS
    <3>4. i \in Places
      BY <3>3, PlaceOnScreen
    <3>5. CASE r < HEIGHT - 1
      <4>1. r + 1 \in 0 .. HEIGHT - 1
        BY <1>5, <3>1, <3>5
      <4>2. (r + 1) * WIDTH = (r * WIDTH) + WIDTH /\ r * WIDTH \in Nat
        BY <1>5, <3>1
      <4>3. (r + 1) * WIDTH <= (HEIGHT - 1) * WIDTH /\ (HEIGHT - 1) * WIDTH \in Nat
        BY <1>5, <4>1, <3>1
      <4>4. i + WIDTH = ((r + 1) * WIDTH) + d /\ i < (HEIGHT - 1) * WIDTH
        <5>1. PICK a : a = r * WIDTH
          OBVIOUS
        <5>2. PICK b : b = (r + 1) * WIDTH
          OBVIOUS
        <5>3. PICK z : z = (HEIGHT - 1) * WIDTH
          OBVIOUS
        <5>4. a \in Nat /\ b = a + WIDTH /\ b <= z /\ z \in Nat /\ i = a + d
          BY <3>3, <4>2, <4>3, <5>1, <5>2, <5>3
        <5>5. i + WIDTH = b + d /\ i < z
          BY <1>5, <5>4
        <5> QED
          BY <5>2, <5>3, <5>5
      <4>5. s2[i] = s[((r + 1) * WIDTH) + d]
        BY <2>2, <3>4, <4>4
      <4>6. s[((r + 1) * WIDTH) + d] = Shown(R1, F + (r + 1) + 1, d + 1)
        BY <1>2, <4>1 DEF Shows
      <4>7. F + (r + 1) + 1 = G + r + 1
        BY <1>7, <2>1, <3>1
      <4> QED
        BY <3>2, <3>3, <4>5, <4>6, <4>7
    <3>6. CASE r = HEIGHT - 1
      <4>1. ~(i < (HEIGHT - 1) * WIDTH)
        <5>1. PICK a : a = (HEIGHT - 1) * WIDTH
          OBVIOUS
        <5>2. a \in Int /\ i = a + d
          BY <1>5, <3>3, <3>6, <5>1
        <5> QED
          BY <3>1, <5>1, <5>2
      <4>2. s2[i] = Blank
        BY <2>2, <3>4, <4>1
      <4>3. ~(G + r + 1 <= Len(R1))
        BY <1>1, <1>5, <1>7, <2>1, <3>6
      <4>4. Shown(R1, G + r + 1, d + 1) = Blank
        BY <4>3, Zenon DEF Shown
      <4> QED
        BY <3>2, <3>3, <4>2, <4>4
    <3> QED
      BY <1>5, <3>5, <3>6
  <2>4. DOMAIN s2 = Places
    BY <2>2
  <2>5. y2 = Len(R2) - G - 1
    <3>1. PICK n : n = Len(R2)
      OBVIOUS
    <3>2. n = L + 1
      BY <1>4, <3>1
    <3>3. y2 = n - G - 1
      BY <1>4, <1>5, <1>7, <2>1, <3>2
    <3> QED
      BY <3>1, <3>3
  <2> QED
    BY <1>3, <1>8, <2>3, <2>4, <2>5 DEF Shows, Behind
<1> QED
  BY <1>5, <1>7, <1>11, <1>12

(* putchar writes on the screen what the character is on paper.            *)
OnPaper(R) ==
  /\ SomeRows(R) /\ Len(R[Len(R)]) < WIDTH
  /\ Shows(screen, R) /\ Behind(R, x, y)

LEMMA PutcharShows ==
  ASSUME TypeOK, NEW R, OnPaper(R), NEW c, putchar(c), NEW R2, R2 = NextRows(R, c)
  PROVE  OnPaper(R2)'
PROOF
<1>1. WIDTH \in Nat /\ HEIGHT \in Nat /\ WIDTH >= 1 /\ HEIGHT >= 1
  BY ConsoleAssumption
<1>2. x \in 0 .. WIDTH - 1 /\ y \in 0 .. HEIGHT - 1
  BY DEF TypeOK
<1>3. SomeRows(R) /\ Len(R[Len(R)]) < WIDTH /\ Shows(screen, R) /\ Behind(R, x, y)
  BY DEF OnPaper
<1>4. /\ x' = IF EndsRow(c) THEN 0 ELSE x + 1
      /\ y' = IF EndsRow(c) THEN IF y + 1 >= HEIGHT THEN HEIGHT - 1 ELSE y + 1 ELSE y
      /\ screen' = IF EndsRow(c) THEN IF y + 1 >= HEIGHT THEN Scrolled(Placed(c)) ELSE Placed(c)
                   ELSE Placed(c)
  BY DEF putchar
<1>5. CASE c = "\n"
  <2>1. EndsRow(c) /\ Placed(c) = screen /\ R2 = Append(R, << >>)
    BY <1>5 DEF EndsRow, Placed, NextRows
  <2>2. /\ x' = 0 /\ y' = IF y + 1 >= HEIGHT THEN HEIGHT - 1 ELSE y + 1
        /\ screen' = IF y + 1 >= HEIGHT THEN Scrolled(screen) ELSE screen
    BY <1>4, <2>1, Zenon
  <2>3. y = Len(R) - First(R) - 1
    BY <1>3 DEF Behind
  <2>4. Shows(screen', R2) /\ Behind(R2, 0, y')
    BY <1>2, <1>3, <2>1, <2>2, <2>3, NewRowShows, Zenon
  <2>5. SomeRows(R2) /\ Len(R2) = Len(R) + 1 /\ R2[Len(R) + 1] = << >>
    BY <1>3, <2>1, OneMoreRow, Zenon
  <2>6. Len(R2[Len(R2)]) = 0
    BY <2>5
  <2> QED
    BY <1>1, <2>2, <2>4, <2>5, <2>6 DEF OnPaper
<1>6. CASE c # "\n"
  <2>1. PICK R1 : R1 = Longer(R, c)
    OBVIOUS
  <2>2. HasOneMore(R1, R, c)
    BY <1>3, <2>1, LongerRow, Zenon
  <2>3. PICK s1 : s1 = [screen EXCEPT ![y * WIDTH + x] = Cell(c)]
    OBVIOUS
  <2>4. Placed(c) = s1
    BY <1>6, <2>3 DEF Placed
  <2>5. Shows(s1, R1)
    BY <1>2, <1>3, <2>1, <2>3, PlacedShows, Zenon
  <2>6. SomeRows(R1) /\ Len(R1) = Len(R) /\ Len(R1[Len(R1)]) = x + 1 /\ Len(R) \in Nat
    BY <1>3, <2>2 DEF HasOneMore, Behind
  <2>7. First(R1) = First(R)
    BY <2>6, Zenon DEF First
  <2>8. y = Len(R1) - First(R1) - 1
    BY <1>3, <2>6, <2>7 DEF Behind
  <2>9. R2 = IF x + 1 = WIDTH THEN Append(R1, << >>) ELSE R1
    BY <1>6, <2>1, <2>6 DEF NextRows
  <2>10. CASE x + 1 = WIDTH
    <3>1. EndsRow(c) /\ R2 = Append(R1, << >>)
      BY <1>1, <2>9, <2>10 DEF EndsRow
    <3>2. /\ x' = 0 /\ y' = IF y + 1 >= HEIGHT THEN HEIGHT - 1 ELSE y + 1
          /\ screen' = IF y + 1 >= HEIGHT THEN Scrolled(s1) ELSE s1
      BY <1>4, <2>4, <3>1, Zenon
    <3>3. Shows(screen', R2) /\ Behind(R2, 0, y')
      BY <1>2, <2>5, <2>6, <2>8, <3>1, <3>2, NewRowShows, Zenon
    <3>4. SomeRows(R2) /\ Len(R2) = Len(R1) + 1 /\ R2[Len(R1) + 1] = << >>
      BY <2>6, <3>1, OneMoreRow, Zenon
    <3>5. Len(R2[Len(R2)]) = 0
      BY <3>4
    <3> QED
      BY <1>1, <3>2, <3>3, <3>4, <3>5 DEF OnPaper
  <2>11. CASE x + 1 # WIDTH
    <3>1. ~EndsRow(c) /\ R2 = R1 /\ x + 1 < WIDTH
      BY <1>1, <1>2, <1>6, <2>9, <2>11 DEF EndsRow
    <3>2. x' = x + 1 /\ y' = y /\ screen' = s1
      BY <1>4, <2>4, <3>1, Zenon
    <3>3. Behind(R2, x', y')
      BY <2>6, <2>8, <3>1, <3>2, Zenon DEF Behind
    <3>4. Len(R2[Len(R2)]) < WIDTH
      BY <2>6, <3>1
    <3> QED
      BY <2>5, <2>6, <3>1, <3>2, <3>3, <3>4, Zenon DEF OnPaper
  <2> QED
    BY <2>10, <2>11
<1> QED
  BY <1>5, <1>6

(***************************************************************************)
(* The inductive invariant: the screen, the position and the cursor follow *)
(* the text; before initialize there is no text.                           *)
(***************************************************************************)
Registers(px, py) == [low |-> Position(px, py) % BYTE, high |-> Position(px, py) \div BYTE]

OnScreen ==
  /\ IsText(text) /\ \E f : RowsBy(f, text)
  /\ call.op = "off" => text = << >> /\ x = 0 /\ y = 0
  /\ call.op # "off" => OnPaper(Rows(text)) /\ cursor = Registers(x, y)

ScreenInv == ConsoleInv /\ OnScreen

(* The registers hold the place of the next character.                     *)
LEMMA CursorIsBehind ==
  ASSUME NEW px \in 0 .. WIDTH - 1, NEW py \in 0 .. HEIGHT - 1
  PROVE  Registers(px, py).high * BYTE + Registers(px, py).low = (py * WIDTH) + px
PROOF
<1>1. WIDTH \in Nat /\ HEIGHT \in Nat /\ BYTE \in Nat \ {0} /\ WIDTH <= BYTE /\ HEIGHT <= BYTE
      /\ WIDTH * HEIGHT <= BYTE * BYTE
  BY ConsoleAssumption
<1>2. px % BYTE = px /\ py % BYTE = py
  BY <1>1
<1>3. PICK p : p = (py * WIDTH) + px
  OBVIOUS
<1>4. p \in Places
  BY <1>3, PlaceOnScreen
<1>5. p \in Nat /\ p < BYTE * BYTE
  <2>1. PICK a : a = WIDTH * HEIGHT
    OBVIOUS
  <2>2. PICK b : b = BYTE * BYTE
    OBVIOUS
  <2>3. a \in Nat /\ b \in Nat /\ a <= b
    BY <1>1, <2>1, <2>2
  <2>4. p \in 0 .. a - 1
    BY <1>4, <2>1 DEF Places
  <2> QED
    BY <2>2, <2>3, <2>4
<1>6. p % (BYTE * BYTE) = p
  <2>1. PICK b \in Nat \ {0} : b = BYTE * BYTE
    BY <1>1
  <2>2. p % b = p
    BY <1>5, <2>1
  <2> QED
    BY <2>1, <2>2
<1>7. Position(px, py) = p
  BY <1>2, <1>3, <1>6 DEF Position
<1>8. (p \div BYTE) * BYTE + (p % BYTE) = p
  BY <1>1, <1>5
<1> QED
  BY <1>3, <1>7, <1>8 DEF Registers

LEMMA ScreenInvInit == Init => ScreenInv
PROOF
<1> SUFFICES ASSUME Init PROVE OnScreen
  BY ConsoleInvInit DEF ScreenInv
<1>1. text = << >> /\ call.op = "off" /\ x = 0 /\ y = 0
  BY DEF Init
<1>2. IsText(text) /\ \E f : RowsBy(f, text)
  BY <1>1, RowsOfNothing, Zenon
<1> QED
  BY <1>1, <1>2 DEF OnScreen

(* initialize clears the screen: no text has one row.                      *)
LEMMA ClearShowsNothing ==
  ASSUME NEW s, s = [i \in Places |-> Blank], NEW R, R = << << >> >>
  PROVE  /\ SomeRows(R) /\ Len(R[Len(R)]) < WIDTH
         /\ Shows(s, R) /\ Behind(R, 0, 0)
PROOF
<1>1. WIDTH \in Nat /\ HEIGHT \in Nat /\ WIDTH >= 1 /\ HEIGHT >= 1
  BY ConsoleAssumption
<1>2. R \in Seq(Seq({})) /\ Len(R) = 1 /\ R[1] = << >> /\ Len(R[1]) = 0
  OBVIOUS
<1>3. SomeRows(R) /\ Len(R[Len(R)]) = 0
  BY <1>1, <1>2 DEF SomeRows
<1>4. First(R) = 0
  BY <1>1, <1>2 DEF First
<1>5. ASSUME NEW r \in 0 .. HEIGHT - 1, NEW c \in 0 .. WIDTH - 1
      PROVE  s[(r * WIDTH) + c] = Shown(R, First(R) + r + 1, c + 1)
  <2>1. (r * WIDTH) + c \in Places
    BY PlaceOnScreen
  <2>2. s[(r * WIDTH) + c] = Blank
    BY <2>1
  <2>3. PICK k \in Nat \ {0} : k = First(R) + r + 1
    BY <1>1, <1>4
  <2>4. PICK e \in Nat \ {0} : e = c + 1
    BY <1>1
  <2>5. ~(k <= Len(R) /\ e <= Len(R[k]))
    BY <1>2
  <2>6. Shown(R, k, e) = Blank
    BY <2>5, Zenon DEF Shown
  <2> QED
    BY <2>2, <2>3, <2>4, <2>6
<1>6. DOMAIN s = Places
  OBVIOUS
<1>7. Behind(R, 0, 0)
  BY <1>2, <1>4 DEF Behind
<1> QED
  BY <1>1, <1>3, <1>5, <1>6, <1>7 DEF Shows

LEMMA ScreenInvPutchar ==
  ASSUME ScreenInv, call.op # "off", NEW c, putchar(c), call'.op # "off"
  PROVE  OnScreen'
PROOF
<1>1. TypeOK /\ IsText(text) /\ OnPaper(Rows(text))
  BY DEF ScreenInv, ConsoleInv, OnScreen
<1>2. PICK f : RowsBy(f, text)
  BY DEF ScreenInv, OnScreen
<1>3. PICK t : t = text
  OBVIOUS
<1>4. PICK u : u = text'
  OBVIOUS
<1>5. u = Append(t, c)
  BY <1>3, <1>4 DEF putchar
<1>6. IsText(u) /\ Rows(u) = NextRows(Rows(t), c) /\ \E g : RowsBy(g, u)
  BY <1>1, <1>2, <1>3, <1>5, RowsOfMore
<1>7. PICK R : R = Rows(t)
  OBVIOUS
<1>8. PICK R2 : R2 = NextRows(R, c)
  OBVIOUS
<1>9. OnPaper(R)
  BY <1>1, <1>3, <1>7
<1>10. OnPaper(R2)'
  BY <1>1, <1>8, <1>9, PutcharShows
<1>11. Rows(u) = R2
  BY <1>6, <1>7, <1>8
<1>12. cursor' = Registers(x', y')
  BY DEF putchar, update_cursor, Registers
<1>13. IsText(text)' /\ (\E g : RowsBy(g, text))'
  BY <1>4, <1>6
<1>14. OnPaper(Rows(text))'
  BY <1>4, <1>10, <1>11
<1> QED
  BY <1>12, <1>13, <1>14 DEF OnScreen

LEMMA ScreenInvStep == ScreenInv /\ [Next]_vars => ScreenInv'
PROOF
<1> SUFFICES ASSUME ScreenInv, [Next]_vars PROVE OnScreen'
  BY ConsoleInvStep DEF ScreenInv
<1>1. CASE initialize
  <2>1. text = << >> /\ x = 0 /\ y = 0 /\ IsText(text) /\ \E f : RowsBy(f, text)
    BY <1>1 DEF ScreenInv, OnScreen, initialize
  <2>2. text' = text /\ x' = x /\ y' = y /\ call'.op = "idle" /\ cursor' = Registers(0, 0)
        /\ screen' = [i \in Places |-> Blank]
    BY <1>1 DEF initialize, update_cursor, Registers
  <2>3. Rows(text) = << << >> >>
    BY <2>1, RowsOfNothing
  <2>4. PICK R : R = Rows(text)
    OBVIOUS
  <2>5. PICK s : s = screen'
    OBVIOUS
  <2>6. SomeRows(R) /\ Len(R[Len(R)]) < WIDTH /\ Shows(s, R) /\ Behind(R, 0, 0)
    BY <2>2, <2>3, <2>4, <2>5, ClearShowsNothing
  <2>7. OnPaper(R)'
    BY <2>1, <2>2, <2>5, <2>6 DEF OnPaper
  <2>8. R = Rows(text)'
    BY <2>2, <2>4
  <2>9. OnPaper(Rows(text))'
    BY <2>7, <2>8
  <2>10. IsText(text)' /\ (\E f : RowsBy(f, text))'
    BY <2>1, <2>2
  <2> QED
    BY <2>1, <2>2, <2>9, <2>10 DEF OnScreen
<1>2. ASSUME UNCHANGED <<screen, x, y, cursor, text>>, call.op # "off", call'.op # "off"
      PROVE  OnScreen'
  BY <1>2 DEF ScreenInv, OnScreen, OnPaper
<1>3. CASE Call
  BY <1>2, <1>3 DEF Call
<1>4. CASE Conversion
  <2>1. call.op = "format" /\ call'.op = "print"
    BY <1>4 DEF Conversion, ScreenInv, ConsoleInv, CallShape
  <2> QED
    BY <1>2, <1>4, <2>1 DEF Conversion
<1>5. CASE Plain
  <2>1. call.op = "format" /\ call'.op = "format"
    BY <1>5 DEF Plain, ScreenInv, ConsoleInv, CallShape
  <2> QED
    BY <1>5, <2>1, ScreenInvPutchar DEF Plain
<1>6. CASE Emit
  <2>1. call.op = "print" /\ call'.op \in {"print", "format"}
    BY <1>6 DEF Emit, ScreenInv, ConsoleInv, CallShape
  <2>2. CASE call.out = << >>
    BY <1>2, <1>6, <2>1, <2>2 DEF Emit
  <2>3. CASE call.out # << >>
    BY <1>6, <2>1, <2>3, ScreenInvPutchar DEF Emit
  <2> QED
    BY <2>2, <2>3
<1>7. CASE Return
  BY <1>2, <1>7 DEF Return
<1>8. CASE UNCHANGED vars
  BY <1>8 DEF vars, ScreenInv, OnScreen, OnPaper
<1> QED
  BY <1>1, <1>3, <1>4, <1>5, <1>6, <1>7, <1>8 DEF Next

(* The inductive invariant says what the property says.                    *)
LEMMA ScreenInvShows == ScreenInv => ShowsTheText
PROOF
<1> SUFFICES ASSUME ScreenInv, call.op # "off" PROVE ShowsTheText
  BY DEF ShowsTheText
<1>1. PICK R : R = Rows(text)
  OBVIOUS
<1>2. TypeOK /\ OnPaper(R) /\ cursor = Registers(x, y)
  BY <1>1 DEF ScreenInv, ConsoleInv, OnScreen
<1>3. WIDTH \in Nat /\ HEIGHT \in Nat /\ WIDTH >= 1 /\ HEIGHT >= 1
  BY ConsoleAssumption
<1>4. SomeRows(R) /\ Shows(screen, R) /\ Behind(R, x, y)
  BY <1>2 DEF OnPaper
<1>5. PICK F : F = First(R)
  OBVIOUS
<1>6. Len(R) \in Nat
  BY <1>4 DEF SomeRows
<1>7. F \in Nat
  BY <1>3, <1>5, <1>6 DEF First
<1>8. ASSUME NEW r \in 1 .. HEIGHT, NEW c \in 1 .. WIDTH
      PROVE  LET cell == screen[((r - 1) * WIDTH) + c - 1]
             IN  /\ cell.char = IF F + r <= Len(R) /\ c <= Len(R[F + r]) THEN R[F + r][c] ELSE " "
                 /\ cell.char \notin High => cell.attr = DEFAULT_ATTR
  <2>1. r - 1 \in 0 .. HEIGHT - 1 /\ c - 1 \in 0 .. WIDTH - 1
    BY <1>3
  <2>2. screen[((r - 1) * WIDTH) + (c - 1)] = Shown(R, F + (r - 1) + 1, (c - 1) + 1)
    BY <1>4, <1>5, <2>1 DEF Shows
  <2>3. PICK k : k = F + r
    OBVIOUS
  <2>4. k = F + (r - 1) + 1 /\ c = (c - 1) + 1
    BY <1>3, <1>7, <2>3
  <2>5. ((r - 1) * WIDTH) + c - 1 = ((r - 1) * WIDTH) + (c - 1)
    <3>1. PICK a \in Int : a = (r - 1) * WIDTH
      BY <1>3
    <3>2. a + c - 1 = a + (c - 1)
      BY <1>3
    <3> QED
      BY <3>1, <3>2
  <2>6. PICK cell : cell = screen[((r - 1) * WIDTH) + c - 1]
    OBVIOUS
  <2>7. cell = Shown(R, k, c)
    BY <2>2, <2>4, <2>5, <2>6
  <2>8. CASE k <= Len(R) /\ c <= Len(R[k])
    <3>1. cell = Cell(R[k][c])
      BY <2>7, <2>8 DEF Shown
    <3>2. cell.char = R[k][c] /\ (cell.char \notin High => cell.attr = DEFAULT_ATTR)
      BY <3>1 DEF Cell
    <3> QED
      BY <2>3, <2>6, <2>8, <3>2
  <2>9. CASE ~(k <= Len(R) /\ c <= Len(R[k]))
    <3>1. cell = Cell(" ")
      BY <2>7, <2>9 DEF Shown, Blank
    <3>2. cell.char = " " /\ (cell.char \notin High => cell.attr = DEFAULT_ATTR)
      BY <3>1 DEF Cell
    <3> QED
      BY <2>3, <2>6, <2>9, <3>2
  <2> QED
    BY <2>8, <2>9
<1>9. cursor.high * BYTE + cursor.low = (y * WIDTH) + x
  BY <1>2, CursorIsBehind DEF TypeOK
<1>10. y = Len(R) - F - 1 /\ x = Len(R[Len(R)])
  BY <1>4, <1>5 DEF Behind
<1>11. cursor.high * BYTE + cursor.low = ((Len(R) - F - 1) * WIDTH) + Len(R[Len(R)])
  BY <1>9, <1>10
<1>12. F = IF Len(R) > HEIGHT THEN Len(R) - HEIGHT ELSE 0
  BY <1>5 DEF First
<1> QED
  BY <1>1, <1>8, <1>11, <1>12 DEF ShowsTheText

(* The screen shows the last rows of everything printed since initialize,  *)
(* with the cursor behind them: for every text, however long, on a screen  *)
(* of any size whose places fit the cursor registers.                      *)
THEOREM ScreenShowsTheText == Spec => []ShowsTheText
PROOF
<1> QED
  BY ScreenInvInit, ScreenInvStep, ScreenInvShows, PTL DEF Spec

(***************************************************************************)
(* What printf prints.  The recursive functions of the model are followed  *)
(* number by number: a set that holds n as soon as it holds all below n    *)
(* holds every number.                                                     *)
(***************************************************************************)
LEMMA Induction ==
  ASSUME NEW L \in Nat, NEW T,
         \A n \in 0 .. L : (\A k \in 0 .. n - 1 : k \in T) => n \in T
  PROVE  \A n \in 0 .. L : n \in T
PROOF
<1> PICK D : D = (0 .. L) \ T
  OBVIOUS
<1> SUFFICES ASSUME D # {} PROVE FALSE
  OBVIOUS
<1>1. D \subseteq Nat
  OBVIOUS
<1>2. PICK n \in D : \A q \in D : n <= q
  BY <1>1, FirstOf
<1>3. n \in 0 .. L /\ n \notin T
  OBVIOUS
<1>4. ASSUME NEW k \in 0 .. n - 1 PROVE k \in T
  <2>1. k \in 0 .. L /\ ~(n <= k)
    BY <1>3
  <2> QED
    BY <1>2, <2>1
<1> QED
  BY <1>3, <1>4

(* A step from each number to the next defines a function.                 *)
Follows(f, a, step, L) ==
  f = [n \in 0 .. L |-> IF n = 0 THEN a ELSE step[<<f[n - 1], n>>]]

LEMMA Recursion ==
  ASSUME NEW V, NEW a \in V, NEW L \in Nat, NEW step \in [V \X (1 .. L) -> V]
  PROVE  \E f \in [0 .. L -> V] : Follows(f, a, step, L)
PROOF
<1> PICK T : T = {n \in 0 .. L : \E f \in [0 .. n -> V] : Follows(f, a, step, n)}
  OBVIOUS
<1>1. ASSUME NEW n \in 0 .. L, \A k \in 0 .. n - 1 : k \in T PROVE n \in T
  <2>1. CASE n = 0
    <3>1. PICK f : f = [k \in 0 .. 0 |-> a]
      OBVIOUS
    <3>2. f \in [0 .. 0 -> V]
      BY <3>1
    <3>3. Follows(f, a, step, 0)
      <4>1. \A k \in 0 .. 0 : k = 0
        OBVIOUS
      <4> QED
        BY <3>1, <4>1 DEF Follows
    <3> QED
      BY <2>1, <3>2, <3>3
  <2>2. CASE n # 0
    <3>1. n \in 1 .. L /\ n - 1 \in 0 .. n - 1 /\ n \in Nat
      BY <2>2
    <3>2. PICK g \in [0 .. n - 1 -> V] : Follows(g, a, step, n - 1)
      BY <1>1, <3>1
    <3>3. PICK b : b = step[<<g[n - 1], n>>]
      OBVIOUS
    <3>4. b \in V
      BY <3>1, <3>2, <3>3
    <3>5. PICK f : f = [k \in 0 .. n |-> IF k = n THEN b ELSE g[k]]
      OBVIOUS
    <3>6. f \in [0 .. n -> V]
      BY <3>1, <3>2, <3>4, <3>5
    <3>7. ASSUME NEW k \in 0 .. n PROVE f[k] = IF k = 0 THEN a ELSE step[<<f[k - 1], k>>]
      <4>1. CASE k = 0
        <5>1. k # n /\ k \in 0 .. n - 1
          BY <3>1, <4>1
        <5>2. f[k] = g[k] /\ g[k] = a
          BY <3>2, <3>5, <4>1, <5>1 DEF Follows
        <5> QED
          BY <4>1, <5>2
      <4>2. CASE k # 0 /\ k # n
        <5>1. k \in 0 .. n - 1 /\ k - 1 \in 0 .. n /\ k - 1 # n
          BY <3>1, <4>2
        <5>2. g[k] = step[<<g[k - 1], k>>]
          BY <3>2, <4>2, <5>1 DEF Follows
        <5>3. f[k] = g[k] /\ f[k - 1] = g[k - 1]
          BY <3>5, <4>2, <5>1
        <5> QED
          BY <4>2, <5>2, <5>3
      <4>3. CASE k = n
        <5>1. k # 0 /\ k - 1 \in 0 .. n /\ k - 1 # n
          BY <3>1, <4>3
        <5>2. f[k - 1] = g[n - 1] /\ f[k] = b
          BY <3>5, <4>3, <5>1
        <5> QED
          BY <3>3, <4>3, <5>1, <5>2
      <4> QED
        BY <4>1, <4>2, <4>3
    <3>8. Follows(f, a, step, n)
      BY <3>5, <3>7 DEF Follows
    <3> QED
      BY <3>6, <3>8
  <2> QED
    BY <2>1, <2>2
<1>2. \A n \in 0 .. L : n \in T
  BY <1>1, Induction
<1>3. L \in T
  BY <1>2
<1> QED
  BY <1>3

LEMMA FollowsFacts ==
  ASSUME NEW L \in Nat, NEW a, NEW step, NEW f, Follows(f, a, step, L)
  PROVE  /\ f = [n \in 0 .. L |-> f[n]] /\ f[0] = a
         /\ \A n \in 1 .. L : f[n] = step[<<f[n - 1], n>>]
PROOF
<1>1. \A n \in 0 .. L : f[n] = IF n = 0 THEN a ELSE step[<<f[n - 1], n>>]
  BY DEF Follows
<1>2. 0 \in 0 .. L
  OBVIOUS
<1>3. ASSUME NEW n \in 1 .. L PROVE f[n] = step[<<f[n - 1], n>>]
  <2>1. n \in 0 .. L /\ n # 0
    OBVIOUS
  <2> QED
    BY <1>1, <2>1
<1> QED
  BY <1>1, <1>2, <1>3 DEF Follows

(* Pieces joined: what was joined stays in front, a piece stands behind    *)
(* those before it.                                                        *)
Joins(f, p, L) == f[0] = << >> /\ \A n \in 1 .. L : f[n] = f[n - 1] \o p[n]

PieceByPiece(f, p, L, S) ==
  /\ \A n \in 0 .. L : f[n] \in Seq(S)
  /\ \A n \in 1 .. L : Len(f[n]) = Len(f[n - 1]) + Len(p[n])
  /\ \A n \in 1 .. L : \A i \in 1 .. Len(f[n - 1]) : f[n][i] = f[n - 1][i]
  /\ \A n \in 1 .. L : \A i \in 1 .. Len(p[n]) : f[n][Len(f[n - 1]) + i] = p[n][i]

LEMMA Joined ==
  ASSUME NEW S, NEW L \in Nat, NEW p \in [1 .. L -> Seq(S)], NEW f, Joins(f, p, L)
  PROVE  PieceByPiece(f, p, L, S)
PROOF
<1> PICK T : T = {n \in 0 .. L : f[n] \in Seq(S)}
  OBVIOUS
<1>1. ASSUME NEW n \in 0 .. L, \A k \in 0 .. n - 1 : k \in T PROVE n \in T
  <2>1. CASE n = 0
    <3>1. f[n] = << >>
      BY <2>1 DEF Joins
    <3>2. f[n] \in Seq(S)
      BY <3>1, EmptySeq
    <3> QED
      BY <3>2
  <2>2. CASE n # 0
    <3>1. n \in 1 .. L /\ n - 1 \in T
      BY <1>1, <2>2
    <3>2. f[n - 1] \in Seq(S) /\ p[n] \in Seq(S) /\ f[n] = f[n - 1] \o p[n]
      BY <3>1 DEF Joins
    <3>3. f[n] \in Seq(S)
      BY <3>2, ConcatProperties
    <3> QED
      BY <3>3
  <2> QED
    BY <2>1, <2>2
<1>2. \A n \in 0 .. L : n \in T
  BY <1>1, Induction
<1>3. \A n \in 0 .. L : f[n] \in Seq(S)
  BY <1>2
<1>4. ASSUME NEW n \in 1 .. L
      PROVE  /\ Len(f[n]) = Len(f[n - 1]) + Len(p[n])
             /\ \A i \in 1 .. Len(f[n - 1]) : f[n][i] = f[n - 1][i]
             /\ \A i \in 1 .. Len(p[n]) : f[n][Len(f[n - 1]) + i] = p[n][i]
  <2>1. PICK s : s = f[n - 1]
    OBVIOUS
  <2>2. PICK t : t = p[n]
    OBVIOUS
  <2>3. PICK u : u = f[n]
    OBVIOUS
  <2>4. s \in Seq(S) /\ t \in Seq(S) /\ u = s \o t
    <3>1. n - 1 \in 0 .. L
      OBVIOUS
    <3> QED
      BY <1>3, <2>1, <2>2, <2>3, <3>1 DEF Joins
  <2>5. /\ Len(s) \in Nat /\ Len(t) \in Nat /\ Len(u) = Len(s) + Len(t)
        /\ \A i \in 1 .. Len(s) + Len(t) : u[i] = IF i <= Len(s) THEN s[i] ELSE t[i - Len(s)]
    BY <2>4, ConcatProperties, LenProperties
  <2>6. \A i \in 1 .. Len(s) : u[i] = s[i]
    BY <2>5
  <2>7. ASSUME NEW i \in 1 .. Len(t) PROVE u[Len(s) + i] = t[i]
    <3>1. Len(s) + i \in 1 .. Len(s) + Len(t) /\ ~(Len(s) + i <= Len(s)) /\ Len(s) + i - Len(s) = i
      BY <2>5
    <3> QED
      BY <2>5, <3>1
  <2> QED
    BY <2>1, <2>2, <2>3, <2>5, <2>6, <2>7
<1> QED
  BY <1>3, <1>4 DEF PieceByPiece

InFront(f, d, n) ==
  /\ Len(f[d]) \in Nat /\ Len(f[d]) <= Len(f[n]) /\ Len(f[n]) \in Nat
  /\ \A i \in 1 .. Len(f[d]) : f[n][i] = f[d][i]

LEMMA JoinedInFront ==
  ASSUME NEW S, NEW L \in Nat, NEW p \in [1 .. L -> Seq(S)], NEW f, Joins(f, p, L),
         NEW d \in 0 .. L
  PROVE  InFront(f, d, L)
PROOF
<1> PICK T : T = {n \in 0 .. L : n >= d => /\ Len(f[d]) <= Len(f[n])
                                           /\ \A i \in 1 .. Len(f[d]) : f[n][i] = f[d][i]}
  OBVIOUS
<1>0. PieceByPiece(f, p, L, S)
  BY Joined
<1>1. \A n \in 0 .. L : Len(f[n]) \in Nat
  BY <1>0, LenProperties DEF PieceByPiece
<1>2. ASSUME NEW n \in 0 .. L, \A k \in 0 .. n - 1 : k \in T PROVE n \in T
  <2>1. CASE n < d
    BY <2>1
  <2>2. CASE n = d
    BY <1>1, <2>2
  <2>3. CASE n > d
    <3>1. n \in 1 .. L /\ n - 1 \in T /\ n - 1 >= d /\ n - 1 \in 0 .. L
      BY <1>2, <2>3
    <3>2. Len(p[n]) \in Nat
      BY <3>1, LenProperties
    <3>3. /\ Len(f[d]) <= Len(f[n - 1]) /\ Len(f[n]) = Len(f[n - 1]) + Len(p[n])
          /\ \A i \in 1 .. Len(f[d]) : f[n - 1][i] = f[d][i]
          /\ \A i \in 1 .. Len(f[n - 1]) : f[n][i] = f[n - 1][i]
      <4>1. Len(f[d]) <= Len(f[n - 1]) /\ \A i \in 1 .. Len(f[d]) : f[n - 1][i] = f[d][i]
        BY <3>1
      <4>2. /\ \A k \in 1 .. L : Len(f[k]) = Len(f[k - 1]) + Len(p[k])
            /\ \A k \in 1 .. L : \A i \in 1 .. Len(f[k - 1]) : f[k][i] = f[k - 1][i]
        BY <1>0 DEF PieceByPiece
      <4> QED
        BY <3>1, <4>1, <4>2
    <3>4. Len(f[d]) <= Len(f[n])
      BY <1>1, <3>1, <3>2, <3>3
    <3>5. ASSUME NEW i \in 1 .. Len(f[d]) PROVE f[n][i] = f[d][i]
      <4>1. i \in 1 .. Len(f[n - 1])
        BY <1>1, <3>1, <3>3
      <4> QED
        BY <3>3, <4>1
    <3> QED
      BY <3>4, <3>5
  <2> QED
    BY <2>1, <2>2, <2>3
<1>3. \A n \in 0 .. L : n \in T
  BY <1>2, Induction
<1>4. L \in T /\ L >= d /\ L \in 0 .. L
  BY <1>3
<1> QED
  BY <1>1, <1>4 DEF InFront

(***************************************************************************)
(* Numerals.                                                               *)
(***************************************************************************)
DigitSet == {DIGITS[d] : d \in 1 .. 16}

DigitOf(c) == (CHOOSE d \in DOMAIN DIGITS : DIGITS[d] = c) - 1

LEMMA TheDigits ==
  /\ DOMAIN DIGITS = 1 .. 16
  /\ \A i \in 1 .. 16 : \A j \in 1 .. 16 : DIGITS[i] = DIGITS[j] => i = j
  /\ DIGITS[1] = "0"
PROOF
<1>1. DOMAIN DIGITS = 1 .. 16 /\ DIGITS[1] = "0"
  BY DEF DIGITS
<1>2. /\ DIGITS[1] = "0" /\ DIGITS[2] = "1" /\ DIGITS[3] = "2" /\ DIGITS[4] = "3"
      /\ DIGITS[5] = "4" /\ DIGITS[6] = "5" /\ DIGITS[7] = "6" /\ DIGITS[8] = "7"
      /\ DIGITS[9] = "8" /\ DIGITS[10] = "9" /\ DIGITS[11] = "A" /\ DIGITS[12] = "B"
      /\ DIGITS[13] = "C" /\ DIGITS[14] = "D" /\ DIGITS[15] = "E" /\ DIGITS[16] = "F"
  BY DEF DIGITS
<1>3. \A i \in 1 .. 16 : i \in {1, 2, 3, 4, 5, 6, 7, 8, 9, 10, 11, 12, 13, 14, 15, 16}
  OBVIOUS
<1>4. \A i \in 1 .. 16 : \A j \in 1 .. 16 : DIGITS[i] = DIGITS[j] => i = j
  BY <1>2, <1>3
<1> QED
  BY <1>1, <1>4

LEMMA DigitsStandForNumbers ==
  ASSUME NEW k \in 0 .. 15
  PROVE  DIGITS[k + 1] \in DigitSet /\ DigitOf(DIGITS[k + 1]) = k
PROOF
<1>1. PICK c : c = DIGITS[k + 1]
  OBVIOUS
<1>2. k + 1 \in 1 .. 16
  OBVIOUS
<1>3. PICK e : e = CHOOSE d \in DOMAIN DIGITS : DIGITS[d] = c
  OBVIOUS
<1>4. e \in 1 .. 16 /\ DIGITS[e] = c
  BY <1>1, <1>2, <1>3, TheDigits
<1>5. e = k + 1
  BY <1>1, <1>2, <1>4, TheDigits
<1>6. DigitOf(c) = e - 1
  BY <1>3 DEF DigitOf
<1> QED
  BY <1>1, <1>2, <1>5, <1>6 DEF DigitSet

LEMMA DigitsAreNumbers ==
  ASSUME NEW c \in DigitSet
  PROVE  DigitOf(c) \in 0 .. 15
PROOF
<1>1. PICK d \in 1 .. 16 : c = DIGITS[d]
  BY DEF DigitSet
<1>2. d - 1 \in 0 .. 15 /\ (d - 1) + 1 = d
  OBVIOUS
<1>3. DigitOf(DIGITS[(d - 1) + 1]) = d - 1
  BY <1>2, DigitsStandForNumbers
<1> QED
  BY <1>1, <1>2, <1>3

ValuesBy(f, s, base) ==
  f = [n \in 0 .. Len(s) |-> IF n = 0 THEN 0 ELSE (f[n - 1] * base) + DigitOf(s[n])]

LEMMA ValueBy ==
  ASSUME NEW s \in Seq(DigitSet), NEW base \in Int
  PROVE  \E f \in [0 .. Len(s) -> Int] :
           /\ f[0] = 0 /\ ValueOf(s, base) = f[Len(s)]
           /\ \A n \in 1 .. Len(s) : f[n] = (f[n - 1] * base) + DigitOf(s[n])
PROOF
<1>1. PICK L : L = Len(s)
  OBVIOUS
<1>2. L \in Nat /\ \A n \in 1 .. L : s[n] \in DigitSet
  BY <1>1, LenProperties, ElementOfSeq
<1>3. \A n \in 1 .. L : DigitOf(s[n]) \in Int
  BY <1>2, DigitsAreNumbers
<1>4. PICK step : step = [w \in Int \X (1 .. L) |-> (w[1] * base) + DigitOf(s[w[2]])]
  OBVIOUS
<1>5. step \in [Int \X (1 .. L) -> Int]
  <2>1. ASSUME NEW w \in Int \X (1 .. L) PROVE (w[1] * base) + DigitOf(s[w[2]]) \in Int
    <3>1. w[1] \in Int /\ w[2] \in 1 .. L
      OBVIOUS
    <3> QED
      BY <1>3, <3>1
  <2> QED
    BY <1>4, <2>1
<1>6. PICK f \in [0 .. L -> Int] : Follows(f, 0, step, L)
  <2>1. 0 \in Int
    OBVIOUS
  <2> QED
    BY <1>2, <1>5, <2>1, Recursion, Zenon
<1>7. /\ f = [n \in 0 .. L |-> f[n]] /\ f[0] = 0
      /\ \A n \in 1 .. L : f[n] = step[<<f[n - 1], n>>]
  BY <1>2, <1>6, FollowsFacts
<1>8. ASSUME NEW n \in 1 .. L PROVE f[n] = (f[n - 1] * base) + DigitOf(s[n])
  <2>1. n - 1 \in 0 .. L
    BY <1>2
  <2>2. <<f[n - 1], n>> \in Int \X (1 .. L)
    BY <2>1
  <2>3. step[<<f[n - 1], n>>] = (f[n - 1] * base) + DigitOf(s[n])
    BY <1>4, <2>2
  <2> QED
    BY <1>7, <2>3
<1>9. ValuesBy(f, s, base)
  <2>1. ASSUME NEW n \in 0 .. L PROVE f[n] = IF n = 0 THEN 0 ELSE (f[n - 1] * base) + DigitOf(s[n])
    <3>1. n = 0 \/ n \in 1 .. L
      OBVIOUS
    <3> QED
      BY <1>7, <1>8, <3>1
  <2> QED
    BY <1>1, <1>7, <2>1 DEF ValuesBy
<1>10. PICK h : h = CHOOSE g : ValuesBy(g, s, base)
  OBVIOUS
<1>11. ValuesBy(h, s, base)
  BY <1>9, <1>10
<1>12. ValueOf(s, base) = h[L]
  BY <1>1, <1>10 DEF ValueOf, ValuesBy, DigitOf
<1>13. ASSUME NEW n \in 0 .. L PROVE h[n] = IF n = 0 THEN 0 ELSE (h[n - 1] * base) + DigitOf(s[n])
  BY <1>1, <1>11 DEF ValuesBy
<1> PICK T : T = {n \in 0 .. L : f[n] = h[n]}
  OBVIOUS
<1>14. ASSUME NEW n \in 0 .. L, \A k \in 0 .. n - 1 : k \in T PROVE n \in T
  <2>1. CASE n = 0
    BY <1>7, <1>13, <2>1
  <2>2. CASE n # 0
    <3>1. n \in 1 .. L /\ n - 1 \in T
      BY <1>14, <2>2
    <3>2. f[n] = h[n]
      BY <1>8, <1>13, <2>2, <3>1
    <3> QED
      BY <3>2
  <2> QED
    BY <2>1, <2>2
<1>15. \A n \in 0 .. L : n \in T
  BY <1>2, <1>14, Induction
<1>16. h[L] = f[L]
  BY <1>2, <1>15
<1> QED
  BY <1>1, <1>7, <1>8, <1>12, <1>16

LEMMA ValueOfNothing == ASSUME NEW base \in Int PROVE ValueOf(<< >>, base) = 0
PROOF
<1>1. << >> \in Seq(DigitSet) /\ Len(<< >>) = 0
  BY EmptySeq
<1> QED
  BY <1>1, ValueBy

LEMMA ValueOfMore ==
  ASSUME NEW s \in Seq(DigitSet), NEW c \in DigitSet, NEW base \in Int, NEW u, u = Append(s, c)
  PROVE  ValueOf(u, base) = (ValueOf(s, base) * base) + DigitOf(c)
PROOF
<1>1. PICK L : L = Len(s)
  OBVIOUS
<1>2. /\ L \in Nat /\ u \in Seq(DigitSet) /\ Len(u) = L + 1 /\ u[L + 1] = c
      /\ \A i \in 1 .. L : u[i] = s[i]
  BY <1>1, AppendProperties, LenProperties
<1>3. PICK f \in [0 .. L -> Int] :
           /\ f[0] = 0 /\ ValueOf(s, base) = f[L]
           /\ \A n \in 1 .. L : f[n] = (f[n - 1] * base) + DigitOf(s[n])
  BY <1>1, ValueBy
<1>4. PICK g \in [0 .. L + 1 -> Int] :
           /\ g[0] = 0 /\ ValueOf(u, base) = g[L + 1]
           /\ \A n \in 1 .. L + 1 : g[n] = (g[n - 1] * base) + DigitOf(u[n])
  <2>1. PICK M : M = Len(u)
    OBVIOUS
  <2>2. \E g \in [0 .. M -> Int] :
           /\ g[0] = 0 /\ ValueOf(u, base) = g[M]
           /\ \A n \in 1 .. M : g[n] = (g[n - 1] * base) + DigitOf(u[n])
    BY <1>2, <2>1, ValueBy
  <2>3. M = L + 1
    BY <1>2, <2>1
  <2> QED
    BY <2>2, <2>3
<1> PICK T : T = {n \in 0 .. L : f[n] = g[n]}
  OBVIOUS
<1>5. ASSUME NEW n \in 0 .. L, \A k \in 0 .. n - 1 : k \in T PROVE n \in T
  <2>1. CASE n = 0
    BY <1>3, <1>4, <2>1
  <2>2. CASE n # 0
    <3>1. n \in 1 .. L /\ n \in 1 .. L + 1 /\ n - 1 \in T
      BY <1>2, <1>5, <2>2
    <3>2. f[n] = g[n]
      BY <1>2, <1>3, <1>4, <3>1
    <3> QED
      BY <3>2
  <2> QED
    BY <2>1, <2>2
<1>6. \A n \in 0 .. L : n \in T
  BY <1>2, <1>5, Induction
<1>7. f[L] = g[L]
  BY <1>2, <1>6
<1>8. L + 1 \in 1 .. L + 1 /\ (L + 1) - 1 = L
  BY <1>2
<1>9. g[L + 1] = (g[L] * base) + DigitOf(c)
  BY <1>2, <1>4, <1>8
<1> QED
  BY <1>3, <1>4, <1>7, <1>9

DigitsBy(f, n, base) ==
  f = [k \in 0 .. n |->
         IF k < base THEN <<DIGITS[k + 1]>> ELSE Append(f[k \div base], DIGITS[(k % base) + 1])]

DigitsTo(f, n, base) ==
  \A k \in 0 .. n :
    f[k] = IF k < base THEN <<DIGITS[k + 1]>> ELSE Append(f[k \div base], DIGITS[(k % base) + 1])

LEMMA Shorter ==
  ASSUME NEW base \in {10, 16}, NEW k \in Nat, k >= base
  PROVE  k \div base \in 1 .. k - 1 /\ k % base \in 0 .. base - 1
         /\ ((k \div base) * base) + (k % base) = k
PROOF
<1>1. CASE base = 10
  BY <1>1
<1>2. CASE base = 16
  BY <1>2
<1> QED
  BY <1>1, <1>2

LEMMA DigitsExist ==
  ASSUME NEW n \in Nat, NEW base \in {10, 16}
  PROVE  \E f : DigitsBy(f, n, base)
PROOF
<1> PICK T : T = {k \in 0 .. n : \E f : DigitsBy(f, k, base)}
  OBVIOUS
<1>1. ASSUME NEW k \in 0 .. n, \A j \in 0 .. k - 1 : j \in T PROVE k \in T
  <2>1. PICK g : k # 0 => DigitsBy(g, k - 1, base)
    <3>1. CASE k = 0
      BY <3>1
    <3>2. CASE k # 0
      <4>1. k - 1 \in T
        BY <1>1, <3>2
      <4> QED
        BY <4>1
    <3> QED
      BY <3>1, <3>2
  <2>2. PICK e : e = IF k < base THEN <<DIGITS[k + 1]>>
                     ELSE Append(g[k \div base], DIGITS[(k % base) + 1])
    OBVIOUS
  <2>3. PICK f : f = [j \in 0 .. k |-> IF j = k THEN e ELSE g[j]]
    OBVIOUS
  <2>4. ASSUME NEW j \in 0 .. k
        PROVE  f[j] = IF j < base THEN <<DIGITS[j + 1]>>
                      ELSE Append(f[j \div base], DIGITS[(j % base) + 1])
    <3>1. j \in Nat /\ base \in Nat
      OBVIOUS
    <3>2. PICK q : q = j \div base
      OBVIOUS
    <3>3. j >= base => q \in 0 .. k /\ q # k /\ q \in 0 .. k - 1
      BY <3>1, <3>2, Shorter
    <3>4. j >= base => f[q] = g[q]
      BY <2>3, <3>3
    <3>5. CASE j = k
      <4>1. f[j] = e
        BY <2>3, <3>5
      <4>2. CASE j < base
        BY <2>2, <3>5, <4>1, <4>2
      <4>3. CASE j >= base
        <5>1. ~(j < base)
          BY <3>1, <4>3
        <5>2. f[q] = g[q]
          BY <3>4, <4>3
        <5> QED
          BY <2>2, <3>2, <3>5, <4>1, <5>1, <5>2, Zenon
      <4> QED
        BY <3>1, <4>2, <4>3
    <3>6. CASE j # k
      <4>1. k # 0 /\ j \in 0 .. k - 1
        BY <3>6
      <4>2. f[j] = g[j]
        BY <2>3, <3>6
      <4>3. g[j] = IF j < base THEN <<DIGITS[j + 1]>>
                   ELSE Append(g[j \div base], DIGITS[(j % base) + 1])
        BY <2>1, <4>1 DEF DigitsBy
      <4>4. CASE j < base
        BY <4>2, <4>3, <4>4
      <4>5. CASE j >= base
        <5>1. ~(j < base)
          BY <3>1, <4>5
        <5>2. f[q] = g[q]
          BY <3>4, <4>5
        <5> QED
          BY <3>2, <4>2, <4>3, <5>1, <5>2, Zenon
      <4> QED
        BY <3>1, <4>4, <4>5
    <3> QED
      BY <3>5, <3>6
  <2>5. f = [j \in 0 .. k |-> f[j]]
    BY <2>3
  <2>6. DigitsBy(f, k, base)
    BY <2>4, <2>5 DEF DigitsBy
  <2> QED
    BY <2>6
<1>2. \A k \in 0 .. n : k \in T
  BY <1>1, Induction
<1>3. n \in T
  BY <1>2
<1> QED
  BY <1>3

(* What a numeral is, but for zeros in front: those the first digit rules  *)
(* out.                                                                    *)
IsNumeral(s, v, base) ==
  /\ s \in Seq(DigitSet) /\ Len(s) >= 1
  /\ v = 0 => Len(s) = 1
  /\ v # 0 => s[1] # "0"
  /\ \A i \in 1 .. Len(s) : \E d \in 1 .. base : s[i] = DIGITS[d]
  /\ ValueOf(s, base) = v

LEMMA OneDigit ==
  ASSUME NEW base \in {10, 16}, NEW k \in 0 .. base - 1, NEW s, s = <<DIGITS[k + 1]>>
  PROVE  IsNumeral(s, k, base)
PROOF
<1>1. k \in 0 .. 15 /\ k + 1 \in 1 .. base /\ k + 1 \in 1 .. 16 /\ base \in Int
  OBVIOUS
<1>2. PICK c : c = DIGITS[k + 1]
  OBVIOUS
<1>3. c \in DigitSet /\ DigitOf(c) = k
  BY <1>1, <1>2, DigitsStandForNumbers
<1>4. s \in Seq(DigitSet) /\ Len(s) = 1 /\ s[1] = c
  BY <1>2, <1>3
<1>5. s = Append(<< >>, c)
  BY <1>2
<1>6. << >> \in Seq(DigitSet)
  BY EmptySeq
<1>7. ValueOf(s, base) = (ValueOf(<< >>, base) * base) + DigitOf(c)
  BY <1>1, <1>3, <1>5, <1>6, ValueOfMore
<1>8. ValueOf(s, base) = k
  BY <1>1, <1>3, <1>7, ValueOfNothing
<1>9. k # 0 => c # "0"
  <2>1. c = "0" => k + 1 = 1
    <3>1. PICK i \in 1 .. 16 : i = k + 1
      BY <1>1
    <3>2. 1 \in 1 .. 16
      OBVIOUS
    <3>3. DIGITS[i] = DIGITS[1] => i = 1
      BY <3>2, TheDigits, Zenon
    <3> QED
      BY <1>2, <3>1, <3>3, TheDigits
  <2> QED
    BY <1>1, <2>1
<1>10. \A i \in 1 .. Len(s) : \E d \in 1 .. base : s[i] = DIGITS[d]
  BY <1>1, <1>2, <1>4
<1> QED
  BY <1>4, <1>8, <1>9, <1>10 DEF IsNumeral

LEMMA OneDigitMore ==
  ASSUME NEW base \in {10, 16}, NEW k \in Nat, k >= base, NEW s, IsNumeral(s, k \div base, base),
         NEW u, u = Append(s, DIGITS[(k % base) + 1])
  PROVE  IsNumeral(u, k, base)
PROOF
<1>1. PICK r : r = k % base
  OBVIOUS
<1>2. PICK q : q = k \div base
  OBVIOUS
<1>3. q \in 1 .. k - 1 /\ r \in 0 .. base - 1 /\ (q * base) + r = k
  BY <1>1, <1>2, Shorter
<1>4. r \in 0 .. 15 /\ r + 1 \in 1 .. base /\ base \in Int /\ q # 0 /\ k # 0
  BY <1>3
<1>5. PICK c : c = DIGITS[r + 1]
  OBVIOUS
<1>6. c \in DigitSet /\ DigitOf(c) = r
  BY <1>4, <1>5, DigitsStandForNumbers
<1>7. /\ s \in Seq(DigitSet) /\ Len(s) >= 1 /\ s[1] # "0" /\ ValueOf(s, base) = q
      /\ \A i \in 1 .. Len(s) : \E d \in 1 .. base : s[i] = DIGITS[d]
  BY <1>2, <1>4 DEF IsNumeral
<1>8. /\ u \in Seq(DigitSet) /\ Len(s) \in Nat /\ Len(u) = Len(s) + 1 /\ u[Len(s) + 1] = c
      /\ \A i \in 1 .. Len(s) : u[i] = s[i]
  BY <1>1, <1>5, <1>6, <1>7, AppendProperties, LenProperties
<1>9. ValueOf(u, base) = (ValueOf(s, base) * base) + DigitOf(c)
  BY <1>1, <1>4, <1>5, <1>6, <1>7, ValueOfMore
<1>10. ValueOf(u, base) = k
  BY <1>3, <1>6, <1>7, <1>9
<1>11. u[1] # "0" /\ Len(u) >= 1
  BY <1>7, <1>8
<1>12. ASSUME NEW i \in 1 .. Len(u) PROVE \E d \in 1 .. base : u[i] = DIGITS[d]
  <2>1. CASE i \in 1 .. Len(s)
    BY <1>7, <1>8, <2>1
  <2>2. CASE i = Len(s) + 1
    BY <1>4, <1>5, <1>8, <2>2
  <2> QED
    BY <1>8, <2>1, <2>2
<1> QED
  BY <1>4, <1>8, <1>10, <1>11, <1>12 DEF IsNumeral

(* Digits writes a number as its numeral.                                  *)
LEMMA DigitsAreANumeral ==
  ASSUME NEW n \in Nat, NEW base \in {10, 16}
  PROVE  IsNumeral(Digits(n, base), n, base)
PROOF
<1>1. PICK f : f = CHOOSE g : DigitsBy(g, n, base)
  OBVIOUS
<1>2. DigitsBy(f, n, base)
  BY <1>1, DigitsExist
<1>3. Digits(n, base) = f[n]
  BY <1>1 DEF Digits, DigitsBy
<1>4. \A k \in 0 .. n : f[k] = IF k < base THEN <<DIGITS[k + 1]>>
                               ELSE Append(f[k \div base], DIGITS[(k % base) + 1])
  BY <1>2 DEF DigitsBy
<1> PICK T : T = {k \in 0 .. n : IsNumeral(f[k], k, base)}
  OBVIOUS
<1>5. ASSUME NEW k \in 0 .. n, \A j \in 0 .. k - 1 : j \in T PROVE k \in T
  <2>1. k \in Nat /\ base \in Nat
    OBVIOUS
  <2>2. CASE k < base
    <3>1. f[k] = <<DIGITS[k + 1]>> /\ k \in 0 .. base - 1
      <4>1. k \in 0 .. base - 1
        BY <2>1, <2>2
      <4>2. f[k] = <<DIGITS[k + 1]>>
        BY <1>4, <2>2, Zenon
      <4> QED
        BY <4>1, <4>2
    <3>2. IsNumeral(f[k], k, base)
      BY <3>1, OneDigit
    <3> QED
      BY <3>2
  <2>3. CASE k >= base
    <3>1. f[k] = Append(f[k \div base], DIGITS[(k % base) + 1])
      <4>1. ~(k < base)
        BY <2>1, <2>3
      <4> QED
        BY <1>4, <4>1
    <3>2. k \div base \in 0 .. k - 1
      BY <2>1, <2>3, Shorter
    <3>3. IsNumeral(f[k \div base], k \div base, base)
      BY <1>5, <3>2
    <3>4. IsNumeral(f[k], k, base)
      BY <2>1, <2>3, <3>1, <3>3, OneDigitMore
    <3> QED
      BY <3>4
  <2> QED
    BY <2>1, <2>2, <2>3
<1>6. \A k \in 0 .. n : k \in T
  BY <1>5, Induction
<1>7. IsNumeral(f[n], n, base)
  BY <1>6
<1> QED
  BY <1>3, <1>7

LEMMA NumeralsAreRight ==
  ASSUME NEW base \in {10, 16}, NEW v \in Nat, NEW s, IsNumeral(s, v, base)
  PROVE  Numeral(s, v, base)
PROOF
<1>1. DOMAIN s = 1 .. Len(s) /\ Len(s) \in Nat
  BY LenProperties DEF IsNumeral
<1>2. Len(s) > 1 => v # 0
  BY <1>1 DEF IsNumeral
<1> QED
  BY <1>1, <1>2 DEF IsNumeral, Numeral

(***************************************************************************)
(* A message: its pieces, and where each stands in the format and among    *)
(* the arguments.                                                          *)
(***************************************************************************)
Pieces == UNION {{m[i] : i \in DOMAIN m} : m \in Messages}

Strings == {p.v : p \in {q \in Pieces : q.kind = "s"}}

Chars ==
  DigitSet \cup {"-", "%"} \cup {p.kind : p \in Pieces}
    \cup {p.v : p \in {q \in Pieces : q.kind \in {"text", "c"}}}
    \cup UNION {{s[i] : i \in DOMAIN s} : s \in Strings}

Values == {p.v : p \in Pieces}

PieceFormat(p) == IF p.kind = "text" THEN <<p.v>> ELSE <<"%", p.kind>>

PieceArgument(p) == IF p.kind = "text" THEN << >> ELSE <<p.v>>

LEMMA MessagePieces ==
  ASSUME NEW m \in Messages
  PROVE  /\ Len(m) \in Nat /\ DOMAIN m = 1 .. Len(m)
         /\ \A i \in 1 .. Len(m) : m[i] \in Pieces
PROOF
<1>1. m \in Seq({m[i] : i \in DOMAIN m})
  BY MessagesAssumption DEF IsString
<1>2. Len(m) \in Nat /\ DOMAIN m = 1 .. Len(m)
  BY <1>1, LenProperties
<1> QED
  BY <1>2 DEF Pieces

LEMMA PiecesTyped ==
  ASSUME NEW p \in Pieces
  PROVE  PieceFormat(p) \in Seq(Chars) /\ PieceArgument(p) \in Seq(Values)
PROOF
<1>1. p.v \in Values /\ p.kind \in Chars /\ "%" \in Chars
  BY DEF Values, Chars
<1>2. p.kind = "text" => p.v \in Chars
  BY DEF Chars
<1>3. CASE p.kind = "text"
  <2>1. <<p.v>> \in Seq(Chars) /\ << >> \in Seq(Values)
    BY <1>2, <1>3
  <2> QED
    BY <1>3, <2>1 DEF PieceFormat, PieceArgument
<1>4. CASE p.kind # "text"
  <2>1. <<"%", p.kind>> \in Seq(Chars) /\ <<p.v>> \in Seq(Values)
    BY <1>1
  <2> QED
    BY <1>4, <2>1 DEF PieceFormat, PieceArgument
<1> QED
  BY <1>3, <1>4

JoinsAll(f, p, L) == f = [n \in 0 .. L |-> IF n = 0 THEN << >> ELSE f[n - 1] \o p[n]]

LEMMA JoinsExist ==
  ASSUME NEW S, NEW L \in Nat, NEW p \in [1 .. L -> Seq(S)]
  PROVE  \E f \in [0 .. L -> Seq(S)] : JoinsAll(f, p, L)
PROOF
<1>1. PICK V : V = Seq(S)
  OBVIOUS
<1>2. PICK step : step = [w \in V \X (1 .. L) |-> w[1] \o p[w[2]]]
  OBVIOUS
<1>3. step \in [V \X (1 .. L) -> V]
  <2>1. ASSUME NEW w \in V \X (1 .. L) PROVE w[1] \o p[w[2]] \in V
    <3>1. w[1] \in Seq(S) /\ w[2] \in 1 .. L
      BY <1>1
    <3>2. p[w[2]] \in Seq(S)
      BY <3>1
    <3> QED
      BY <1>1, <3>1, <3>2, ConcatProperties
  <2> QED
    BY <1>2, <2>1
<1>4. PICK a : a = << >>
  OBVIOUS
<1>5. a \in V
  BY <1>1, <1>4, EmptySeq
<1>6. PICK f \in [0 .. L -> V] : Follows(f, a, step, L)
  BY <1>3, <1>5, Recursion
<1>7. /\ f = [n \in 0 .. L |-> f[n]] /\ f[0] = a
      /\ \A n \in 1 .. L : f[n] = step[<<f[n - 1], n>>]
  BY <1>6, FollowsFacts
<1>8. ASSUME NEW n \in 0 .. L PROVE f[n] = IF n = 0 THEN << >> ELSE f[n - 1] \o p[n]
  <2>1. CASE n = 0
    BY <1>4, <1>7, <2>1
  <2>2. CASE n # 0
    <3>1. n \in 1 .. L /\ n - 1 \in 0 .. L
      BY <2>2
    <3>2. <<f[n - 1], n>> \in V \X (1 .. L)
      BY <3>1
    <3>3. step[<<f[n - 1], n>>] = f[n - 1] \o p[n]
      BY <1>2, <3>2
    <3> QED
      BY <1>7, <2>2, <3>1, <3>3
  <2> QED
    BY <2>1, <2>2
<1> QED
  BY <1>1, <1>7, <1>8 DEF JoinsAll

FormatPieces(m) == [n \in 1 .. Len(m) |-> PieceFormat(m[n])]

ArgumentPieces(m) == [n \in 1 .. Len(m) |-> PieceArgument(m[n])]

LEMMA FormatJoins ==
  ASSUME NEW m \in Messages
  PROVE  \E f : Joins(f, FormatPieces(m), Len(m)) /\ Format(m) = f[Len(m)]
PROOF
<1>1. PICK L : L = Len(m)
  OBVIOUS
<1>2. PICK p : p = FormatPieces(m)
  OBVIOUS
<1>3. L \in Nat /\ p \in [1 .. L -> Seq(Chars)]
  BY <1>1, <1>2, MessagePieces, PiecesTyped DEF FormatPieces
<1> DEFINE By(f) == f = [n \in 0 .. Len(m) |->
                           IF n = 0 THEN << >>
                           ELSE f[n - 1] \o (IF m[n].kind = "text" THEN <<m[n].v>>
                                             ELSE <<"%", m[n].kind>>)]
<1>4. ASSUME NEW n \in 1 .. L
      PROVE  p[n] = IF m[n].kind = "text" THEN <<m[n].v>> ELSE <<"%", m[n].kind>>
  BY <1>1, <1>2 DEF FormatPieces, PieceFormat
<1>5. PICK f \in [0 .. L -> Seq(Chars)] : f = [n \in 0 .. L |-> IF n = 0 THEN << >> ELSE f[n - 1] \o p[n]]
  <2>1. \E f \in [0 .. L -> Seq(Chars)] : JoinsAll(f, p, L)
    BY <1>3, JoinsExist
  <2> QED
    BY <2>1 DEF JoinsAll
<1>6. By(f)
  <2>1. ASSUME NEW n \in 0 .. L
        PROVE  f[n] = IF n = 0 THEN << >> ELSE f[n - 1] \o (IF m[n].kind = "text" THEN <<m[n].v>>
                                                            ELSE <<"%", m[n].kind>>)
    <3>1. n = 0 \/ n \in 1 .. L
      BY <1>3
    <3>2. f[n] = IF n = 0 THEN << >> ELSE f[n - 1] \o p[n]
      BY <1>5
    <3>3. CASE n = 0
      BY <3>2, <3>3
    <3>4. CASE n \in 1 .. L
      <4>1. n # 0
        BY <3>4
      <4> QED
        BY <1>4, <3>2, <3>4, <4>1
    <3> QED
      BY <3>1, <3>3, <3>4
  <2>2. f = [n \in 0 .. L |-> f[n]]
    BY <1>5
  <2> QED
    BY <1>1, <2>1, <2>2
<1>7. PICK h : h = CHOOSE g : By(g)
  OBVIOUS
<1>8. By(h)
  BY <1>6, <1>7
<1>9. Format(m) = h[L]
  BY <1>1, <1>7 DEF Format
<1>10. ASSUME NEW n \in 0 .. L
       PROVE  h[n] = IF n = 0 THEN << >> ELSE h[n - 1] \o (IF m[n].kind = "text" THEN <<m[n].v>>
                                                           ELSE <<"%", m[n].kind>>)
  BY <1>1, <1>8
<1> HIDE DEF By
<1>11. h[0] = << >>
  <2>1. 0 \in 0 .. L
    BY <1>3
  <2> QED
    BY <1>10, <2>1
<1>12. ASSUME NEW n \in 1 .. L PROVE h[n] = h[n - 1] \o p[n]
  <2>1. n \in 0 .. L /\ n # 0
    BY <1>3
  <2> QED
    BY <1>4, <1>10, <2>1
<1> QED
  BY <1>1, <1>2, <1>9, <1>11, <1>12 DEF Joins

LEMMA ArgumentsJoin ==
  ASSUME NEW m \in Messages
  PROVE  \E f : Joins(f, ArgumentPieces(m), Len(m)) /\ Arguments(m) = f[Len(m)]
PROOF
<1>1. PICK L : L = Len(m)
  OBVIOUS
<1>2. PICK p : p = ArgumentPieces(m)
  OBVIOUS
<1>3. L \in Nat /\ p \in [1 .. L -> Seq(Values)]
  BY <1>1, <1>2, MessagePieces, PiecesTyped DEF ArgumentPieces
<1> DEFINE By(f) == f = [n \in 0 .. Len(m) |->
                           IF n = 0 THEN << >>
                           ELSE IF m[n].kind = "text" THEN f[n - 1] ELSE Append(f[n - 1], m[n].v)]
<1>4. ASSUME NEW n \in 1 .. L PROVE p[n] = IF m[n].kind = "text" THEN << >> ELSE <<m[n].v>>
  BY <1>1, <1>2 DEF ArgumentPieces, PieceArgument
<1>5. PICK f \in [0 .. L -> Seq(Values)] : f = [n \in 0 .. L |-> IF n = 0 THEN << >> ELSE f[n - 1] \o p[n]]
  <2>1. \E f \in [0 .. L -> Seq(Values)] : JoinsAll(f, p, L)
    BY <1>3, JoinsExist
  <2> QED
    BY <2>1 DEF JoinsAll
<1>6. ASSUME NEW n \in 1 .. L, NEW s \in Seq(Values)
      PROVE  s \o p[n] = IF m[n].kind = "text" THEN s ELSE Append(s, m[n].v)
  <2>1. CASE m[n].kind = "text"
    <3>1. s \o << >> = s
      BY ConcatEmptySeq
    <3> QED
      BY <1>4, <2>1, <3>1
  <2>2. CASE m[n].kind # "text"
    <3>1. m[n].v \in Values
      BY <1>1, MessagePieces DEF Values
    <3>2. Append(s, m[n].v) = s \o <<m[n].v>>
      BY <3>1, AppendIsConcat
    <3> QED
      BY <1>4, <2>2, <3>2
  <2> QED
    BY <2>1, <2>2
<1>7. By(f)
  <2>1. ASSUME NEW n \in 0 .. L
        PROVE  f[n] = IF n = 0 THEN << >>
                      ELSE IF m[n].kind = "text" THEN f[n - 1] ELSE Append(f[n - 1], m[n].v)
    <3>1. n = 0 \/ n \in 1 .. L
      BY <1>3
    <3>2. f[n] = IF n = 0 THEN << >> ELSE f[n - 1] \o p[n]
      BY <1>5
    <3>3. CASE n = 0
      BY <3>2, <3>3
    <3>4. CASE n \in 1 .. L
      <4>1. n # 0 /\ n - 1 \in 0 .. L
        BY <1>3, <3>4
      <4>2. f[n - 1] \in Seq(Values)
        BY <4>1
      <4> QED
        BY <1>6, <3>2, <3>4, <4>1, <4>2
    <3> QED
      BY <3>1, <3>3, <3>4
  <2>2. f = [n \in 0 .. L |-> f[n]]
    BY <1>5
  <2> QED
    BY <1>1, <2>1, <2>2
<1>8. PICK h : h = CHOOSE g : By(g)
  OBVIOUS
<1>9. By(h)
  BY <1>7, <1>8
<1>10. Arguments(m) = h[L]
  BY <1>1, <1>8 DEF Arguments
<1>11. ASSUME NEW n \in 0 .. L
       PROVE  h[n] = IF n = 0 THEN << >>
                     ELSE IF m[n].kind = "text" THEN h[n - 1] ELSE Append(h[n - 1], m[n].v)
  BY <1>1, <1>9
<1> HIDE DEF By
<1> PICK T : T = {n \in 0 .. L : h[n] = f[n]}
  OBVIOUS
<1>12. ASSUME NEW n \in 0 .. L, \A k \in 0 .. n - 1 : k \in T PROVE n \in T
  <2>1. CASE n = 0
    BY <1>5, <1>11, <2>1
  <2>2. CASE n # 0
    <3>1. n \in 1 .. L /\ n - 1 \in T /\ n - 1 \in 0 .. L
      BY <1>12, <2>2
    <3>2. f[n - 1] \in Seq(Values) /\ h[n - 1] = f[n - 1]
      BY <3>1
    <3>3. f[n] = f[n - 1] \o p[n]
      BY <1>5, <2>2
    <3>4. h[n] = f[n]
      BY <1>6, <1>11, <2>2, <3>1, <3>2, <3>3
    <3> QED
      BY <3>4
  <2> QED
    BY <2>1, <2>2
<1>13. \A n \in 0 .. L : n \in T
  BY <1>3, <1>12, Induction
<1>14. h[L] = f[L]
  BY <1>3, <1>13
<1>15. f[0] = << >> /\ \A n \in 1 .. L : f[n] = f[n - 1] \o p[n]
  <2>1. \A n \in 0 .. L : f[n] = IF n = 0 THEN << >> ELSE f[n - 1] \o p[n]
    BY <1>5
  <2>2. 0 \in 0 .. L
    BY <1>3
  <2>3. ASSUME NEW n \in 1 .. L PROVE f[n] = f[n - 1] \o p[n]
    <3>1. n \in 0 .. L /\ n # 0
      BY <1>3
    <3> QED
      BY <2>1, <3>1
  <2> QED
    BY <2>1, <2>2, <2>3
<1> QED
  BY <1>1, <1>2, <1>10, <1>14, <1>15 DEF Joins

FormatOf(m) == CHOOSE f : Joins(f, FormatPieces(m), Len(m)) /\ Format(m) = f[Len(m)]

ArgumentsOf(m) == CHOOSE f : Joins(f, ArgumentPieces(m), Len(m)) /\ Arguments(m) = f[Len(m)]

(* How much of the format and how many arguments the first d pieces are.   *)
InFormat(m, d) == Len(FormatOf(m)[d])

InArguments(m, d) == Len(ArgumentsOf(m)[d])

PlacesIn(s, f, p, L, S) ==
  /\ s \in Seq(S) /\ Len(f[0]) = 0
  /\ \A d \in 0 .. L : Len(f[d]) \in 0 .. Len(s)
  /\ \A d \in 1 .. L : /\ Len(f[d]) = Len(f[d - 1]) + Len(p[d])
                       /\ \A i \in 1 .. Len(p[d]) : s[Len(f[d - 1]) + i] = p[d][i]

LEMMA JoinedPlaces ==
  ASSUME NEW S, NEW L \in Nat, NEW p \in [1 .. L -> Seq(S)], NEW f, Joins(f, p, L), NEW s, s = f[L]
  PROVE  PlacesIn(s, f, p, L, S)
PROOF
<1>1. PieceByPiece(f, p, L, S)
  BY Joined
<1>2. s \in Seq(S)
  BY <1>1 DEF PieceByPiece
<1>3. Len(f[0]) = 0
  <2>1. f[0] = << >>
    BY DEF Joins
  <2> QED
    BY <2>1
<1>4. ASSUME NEW d \in 0 .. L
      PROVE  /\ Len(f[d]) \in Nat /\ Len(f[d]) <= Len(s) /\ Len(s) \in Nat
             /\ \A i \in 1 .. Len(f[d]) : s[i] = f[d][i]
  <2>1. InFront(f, d, L)
    BY JoinedInFront
  <2> QED
    BY <2>1 DEF InFront
<1>5. ASSUME NEW d \in 1 .. L
      PROVE  /\ Len(f[d]) = Len(f[d - 1]) + Len(p[d])
             /\ \A i \in 1 .. Len(p[d]) : s[Len(f[d - 1]) + i] = p[d][i]
  <2>1. d \in 0 .. L /\ d - 1 \in 0 .. L
    OBVIOUS
  <2>2. Len(f[d]) = Len(f[d - 1]) + Len(p[d])
    BY <1>1 DEF PieceByPiece
  <2>3. Len(f[d - 1]) \in Nat /\ \A i \in 1 .. Len(f[d]) : s[i] = f[d][i]
    BY <1>4, <2>1
  <2>4. Len(p[d]) \in Nat
    BY LenProperties
  <2>5. ASSUME NEW i \in 1 .. Len(p[d]) PROVE s[Len(f[d - 1]) + i] = p[d][i]
    <3>1. f[d][Len(f[d - 1]) + i] = p[d][i]
      BY <1>1 DEF PieceByPiece
    <3>2. PICK j : j = Len(f[d - 1]) + i
      OBVIOUS
    <3>3. j \in 1 .. Len(f[d])
      BY <2>2, <2>3, <2>4, <3>2
    <3>4. s[j] = f[d][j]
      BY <2>3, <3>3
    <3> QED
      BY <3>1, <3>2, <3>4
  <2> QED
    BY <2>2, <2>5
<1>6. \A d \in 0 .. L : Len(f[d]) \in 0 .. Len(s)
  BY <1>4
<1> QED
  BY <1>2, <1>3, <1>5, <1>6 DEF PlacesIn

FormatInPlaces(m) ==
  /\ Format(m) \in Seq(Chars)
  /\ InFormat(m, 0) = 0 /\ InFormat(m, Len(m)) = Len(Format(m))
  /\ \A d \in 0 .. Len(m) : InFormat(m, d) \in 0 .. Len(Format(m))
  /\ \A d \in 1 .. Len(m) :
       IF m[d].kind = "text"
       THEN /\ InFormat(m, d) = InFormat(m, d - 1) + 1
            /\ Format(m)[InFormat(m, d - 1) + 1] = m[d].v
       ELSE /\ InFormat(m, d) = InFormat(m, d - 1) + 2
            /\ Format(m)[InFormat(m, d - 1) + 1] = "%"
            /\ Format(m)[InFormat(m, d - 1) + 2] = m[d].kind

LEMMA FormatPlaces == ASSUME NEW m \in Messages PROVE FormatInPlaces(m)
PROOF
<1>1. PICK L : L = Len(m)
  OBVIOUS
<1>2. PICK p : p = FormatPieces(m)
  OBVIOUS
<1>3. L \in Nat /\ p \in [1 .. L -> Seq(Chars)]
  BY <1>1, <1>2, MessagePieces, PiecesTyped DEF FormatPieces
<1>4. PICK f : f = FormatOf(m)
  OBVIOUS
<1>5. PICK s : s = Format(m)
  OBVIOUS
<1>6. Joins(f, p, L) /\ s = f[L]
  BY <1>1, <1>2, <1>4, <1>5, FormatJoins DEF FormatOf
<1>7. /\ s \in Seq(Chars) /\ Len(f[0]) = 0
      /\ \A d \in 0 .. L : Len(f[d]) \in 0 .. Len(s)
      /\ \A d \in 1 .. L : /\ Len(f[d]) = Len(f[d - 1]) + Len(p[d])
                           /\ \A i \in 1 .. Len(p[d]) : s[Len(f[d - 1]) + i] = p[d][i]
  <2>1. PlacesIn(s, f, p, L, Chars)
    BY <1>3, <1>6, JoinedPlaces
  <2> QED
    BY <2>1 DEF PlacesIn
<1>8. ASSUME NEW d \in 1 .. L
      PROVE  IF m[d].kind = "text"
             THEN Len(f[d]) = Len(f[d - 1]) + 1 /\ s[Len(f[d - 1]) + 1] = m[d].v
             ELSE /\ Len(f[d]) = Len(f[d - 1]) + 2
                  /\ s[Len(f[d - 1]) + 1] = "%" /\ s[Len(f[d - 1]) + 2] = m[d].kind
  <2>0. /\ Len(f[d]) = Len(f[d - 1]) + Len(p[d])
        /\ \A i \in 1 .. Len(p[d]) : s[Len(f[d - 1]) + i] = p[d][i]
    BY <1>7
  <2>1. p[d] = IF m[d].kind = "text" THEN <<m[d].v>> ELSE <<"%", m[d].kind>>
    BY <1>1, <1>2 DEF FormatPieces, PieceFormat
  <2>2. CASE m[d].kind = "text"
    <3>1. p[d] = <<m[d].v>>
      BY <2>1, <2>2
    <3>2. Len(p[d]) = 1 /\ p[d][1] = m[d].v
      BY <3>1
    <3> QED
      BY <2>0, <2>2, <3>2
  <2>3. CASE m[d].kind # "text"
    <3>1. p[d] = <<"%", m[d].kind>>
      BY <2>1, <2>3
    <3>2. Len(p[d]) = 2 /\ p[d][1] = "%" /\ p[d][2] = m[d].kind
      BY <3>1
    <3> QED
      BY <2>0, <2>3, <3>2
  <2> QED
    BY <2>2, <2>3
<1> QED
  BY <1>1, <1>4, <1>5, <1>6, <1>7, <1>8 DEF InFormat, FormatInPlaces

ArgumentsInPlaces(m) ==
  /\ Arguments(m) \in Seq(Values)
  /\ InArguments(m, 0) = 0
  /\ \A d \in 0 .. Len(m) : InArguments(m, d) \in 0 .. Len(Arguments(m))
  /\ \A d \in 1 .. Len(m) :
       IF m[d].kind = "text"
       THEN InArguments(m, d) = InArguments(m, d - 1)
       ELSE /\ InArguments(m, d) = InArguments(m, d - 1) + 1
            /\ Arguments(m)[InArguments(m, d - 1) + 1] = m[d].v

LEMMA ArgumentPlaces == ASSUME NEW m \in Messages PROVE ArgumentsInPlaces(m)
PROOF
<1>1. PICK L : L = Len(m)
  OBVIOUS
<1>2. PICK p : p = ArgumentPieces(m)
  OBVIOUS
<1>3. L \in Nat /\ p \in [1 .. L -> Seq(Values)]
  BY <1>1, <1>2, MessagePieces, PiecesTyped DEF ArgumentPieces
<1>4. PICK f : f = ArgumentsOf(m)
  OBVIOUS
<1>5. PICK s : s = Arguments(m)
  OBVIOUS
<1>6. Joins(f, p, L) /\ s = f[L]
  BY <1>1, <1>2, <1>4, <1>5, ArgumentsJoin DEF ArgumentsOf
<1>7. /\ s \in Seq(Values) /\ Len(f[0]) = 0
      /\ \A d \in 0 .. L : Len(f[d]) \in 0 .. Len(s)
      /\ \A d \in 1 .. L : /\ Len(f[d]) = Len(f[d - 1]) + Len(p[d])
                           /\ \A i \in 1 .. Len(p[d]) : s[Len(f[d - 1]) + i] = p[d][i]
  <2>1. PlacesIn(s, f, p, L, Values)
    BY <1>3, <1>6, JoinedPlaces
  <2> QED
    BY <2>1 DEF PlacesIn
<1>8. ASSUME NEW d \in 1 .. L
      PROVE  IF m[d].kind = "text" THEN Len(f[d]) = Len(f[d - 1])
             ELSE Len(f[d]) = Len(f[d - 1]) + 1 /\ s[Len(f[d - 1]) + 1] = m[d].v
  <2>0. /\ Len(f[d]) = Len(f[d - 1]) + Len(p[d])
        /\ \A i \in 1 .. Len(p[d]) : s[Len(f[d - 1]) + i] = p[d][i]
    BY <1>7
  <2>1. p[d] = IF m[d].kind = "text" THEN << >> ELSE <<m[d].v>>
    BY <1>1, <1>2 DEF ArgumentPieces, PieceArgument
  <2>2. CASE m[d].kind = "text"
    <3>1. Len(p[d]) = 0
      BY <2>1, <2>2
    <3>2. Len(f[d - 1]) \in Nat
      <4>1. d - 1 \in 0 .. L /\ Len(s) \in Nat
        BY <1>3, <1>7, LenProperties
      <4> QED
        BY <1>7, <4>1
    <3> QED
      BY <2>0, <2>2, <3>1, <3>2
  <2>3. CASE m[d].kind # "text"
    <3>1. p[d] = <<m[d].v>>
      BY <2>1, <2>3
    <3>2. Len(p[d]) = 1 /\ p[d][1] = m[d].v
      BY <3>1
    <3> QED
      BY <2>0, <2>3, <3>2
  <2> QED
    BY <2>2, <2>3
<1> QED
  BY <1>1, <1>4, <1>5, <1>6, <1>7, <1>8 DEF InArguments, ArgumentsInPlaces

(* What is left of a sequence after its first k elements.                  *)
Rest(s, k) == SubSeq(s, k + 1, Len(s))

IsRest(r, s, k, S) ==
  /\ r \in Seq(S) /\ Len(r) = Len(s) - k /\ (r = << >> <=> k = Len(s))
  /\ \A i \in 1 .. Len(r) : r[i] = s[k + i]
  /\ k < Len(s) => Head(r) = s[k + 1] /\ Tail(r) = Rest(s, k + 1)
  /\ k + 1 < Len(s) => SubSeq(r, 3, Len(r)) = Rest(s, k + 2)

LEMMA Rests ==
  ASSUME NEW S, NEW s \in Seq(S), NEW k \in 0 .. Len(s), NEW r, r = Rest(s, k)
  PROVE  IsRest(r, s, k, S)
PROOF
<1>1. PICK n : n = Len(s)
  OBVIOUS
<1>2. n \in Nat /\ k \in Nat /\ k <= n /\ r = SubSeq(s, k + 1, n)
  BY <1>1, LenProperties DEF Rest
<1>3. \A i \in k + 1 .. n : s[i] \in S
  BY <1>1, <1>2, ElementOfSeq
<1>4. /\ r \in Seq(S) /\ Len(r) = (IF k + 1 <= n THEN n - (k + 1) + 1 ELSE 0)
      /\ \A i \in 1 .. n - (k + 1) + 1 : r[i] = s[(k + 1) + i - 1]
  BY <1>2, <1>3, SubSeqProperties
<1>5. Len(r) = n - k
  BY <1>2, <1>4
<1>6. ASSUME NEW i \in 1 .. Len(r) PROVE r[i] = s[k + i]
  <2>1. i \in 1 .. n - (k + 1) + 1 /\ (k + 1) + i - 1 = k + i
    BY <1>2, <1>5
  <2> QED
    BY <1>4, <2>1
<1>7. r = << >> <=> k = n
  <2>1. r = << >> => Len(r) = 0
    BY EmptySeq
  <2>2. r # << >> => Len(r) # 0
    BY <1>4, EmptySeq
  <2> QED
    BY <1>2, <1>5, <2>1, <2>2
<1>8. ASSUME k < n PROVE Head(r) = s[k + 1] /\ Tail(r) = Rest(s, k + 1)
  <2>1. k + 1 \in 1 .. n /\ n \in k + 1 .. n
    BY <1>2, <1>8
  <2>2. Head(SubSeq(s, k + 1, n)) = s[k + 1] /\ Tail(SubSeq(s, k + 1, n)) = SubSeq(s, (k + 1) + 1, n)
    BY <1>1, <2>1, HeadTailOfSubSeq
  <2> QED
    BY <1>1, <1>2, <2>2 DEF Rest
<1>9. ASSUME k + 1 < n PROVE SubSeq(r, 3, Len(r)) = Rest(s, k + 2)
  <2>1. PICK l : l = n - k
    OBVIOUS
  <2>2. l \in Nat /\ l >= 2 /\ Len(r) = l
    BY <1>2, <1>5, <1>9, <2>1
  <2>3. \A i \in 3 .. l : r[i] \in S
    BY <1>4, <2>2, ElementOfSeq
  <2>4. PICK a : a = SubSeq(r, 3, l)
    OBVIOUS
  <2>5. /\ a \in Seq(S) /\ Len(a) = (IF 3 <= l THEN l - 3 + 1 ELSE 0)
        /\ \A i \in 1 .. l - 3 + 1 : a[i] = r[3 + i - 1]
    BY <2>2, <2>3, <2>4, SubSeqProperties
  <2>6. PICK b : b = SubSeq(s, k + 2 + 1, n)
    OBVIOUS
  <2>7. \A i \in k + 2 + 1 .. n : s[i] \in S
    BY <1>2, <1>3
  <2>8. /\ b \in Seq(S) /\ Len(b) = (IF k + 2 + 1 <= n THEN n - (k + 2 + 1) + 1 ELSE 0)
        /\ \A i \in 1 .. n - (k + 2 + 1) + 1 : b[i] = s[(k + 2 + 1) + i - 1]
    BY <1>2, <2>6, <2>7, SubSeqProperties
  <2>9. Len(a) = l - 2 /\ Len(b) = l - 2
    BY <1>2, <2>1, <2>2, <2>5, <2>8
  <2>10. ASSUME NEW i \in 1 .. Len(a) PROVE a[i] = b[i]
    <3>1. i \in 1 .. l - 3 + 1 /\ i \in 1 .. n - (k + 2 + 1) + 1 /\ i + 2 \in 1 .. Len(r)
          /\ 3 + i - 1 = i + 2 /\ (k + 2 + 1) + i - 1 = k + (i + 2)
      BY <1>2, <2>1, <2>2, <2>9
    <3>2. a[i] = r[i + 2] /\ b[i] = s[k + (i + 2)]
      BY <2>5, <2>8, <3>1
    <3> QED
      BY <1>6, <3>1, <3>2
  <2>11. a = b
    BY <2>5, <2>8, <2>9, <2>10, SeqEqual
  <2> QED
    BY <1>1, <2>2, <2>4, <2>6, <2>11 DEF Rest
<1> QED
  BY <1>1, <1>4, <1>5, <1>6, <1>7, <1>8, <1>9 DEF IsRest

(***************************************************************************)
(* What a conversion prints is what its piece of the message says.         *)
(***************************************************************************)
LEMMA DigitsAreChars == ASSUME NEW s \in Seq(DigitSet) PROVE s \in Seq(Chars)
PROOF
<1>1. DigitSet \subseteq Chars
  BY DEF Chars
<1> QED
  BY <1>1, SeqMonotonic

LEMMA ConvertedInts ==
  ASSUME NEW v \in -(WORD \div 2) .. (WORD \div 2) - 1
  PROVE  /\ Decimal(v) \in Seq(Chars)
         /\ v >= 0 => Numeral(Decimal(v), v, 10)
         /\ v < 0 => /\ Decimal(v) # << >> /\ Head(Decimal(v)) = "-"
                     /\ Numeral(Tail(Decimal(v)), -v, 10)
PROOF
<1>1. WORD \in Nat \ {0} /\ v \in Int
  BY ConsoleAssumption
<1>2. PICK n : n = IF v < 0 THEN -v ELSE v
  OBVIOUS
<1>3. n \in 0 .. WORD - 1
  <2>1. WORD \div 2 \in Nat /\ WORD \div 2 <= WORD - 1
    BY <1>1
  <2> QED
    BY <1>1, <1>2, <2>1
<1>4. n % WORD = n /\ n \in Nat
  BY <1>1, <1>3
<1>5. PICK s : s = Digits(n, 10)
  OBVIOUS
<1>6. IsNumeral(s, n, 10)
  BY <1>4, <1>5, DigitsAreANumeral
<1>7. s \in Seq(DigitSet) /\ s \in Seq(Chars) /\ Numeral(s, n, 10)
  BY <1>4, <1>6, NumeralsAreRight, DigitsAreChars DEF IsNumeral
<1>8. Decimal(v) = (IF v < 0 THEN <<"-">> ELSE << >>) \o s
  BY <1>2, <1>4, <1>5 DEF Decimal
<1>9. CASE v >= 0
  <2>0. ~(v < 0)
    BY <1>1, <1>9
  <2>1. Decimal(v) = << >> \o s /\ n = v
    BY <1>2, <1>8, <2>0, Zenon
  <2>2. << >> \o s = s
    BY <1>7, ConcatEmptySeq
  <2> QED
    BY <1>7, <2>0, <2>1, <2>2, Zenon
<1>10. CASE v < 0
  <2>1. Decimal(v) = <<"-">> \o s /\ n = -v
    BY <1>2, <1>8, <1>10, Zenon
  <2>2. PICK a : a = <<"-">>
    OBVIOUS
  <2>3. a \in Seq(Chars) /\ Len(a) = 1 /\ a[1] = "-"
    <3>1. "-" \in Chars
      BY DEF Chars
    <3> QED
      BY <2>2, <3>1
  <2>4. PICK u : u = a \o s
    OBVIOUS
  <2>5. /\ u \in Seq(Chars) /\ Len(s) \in Nat /\ Len(u) = 1 + Len(s)
        /\ \A i \in 1 .. 1 + Len(s) : u[i] = IF i <= 1 THEN a[i] ELSE s[i - 1]
    <3>1. /\ u \in Seq(Chars) /\ Len(u) = Len(a) + Len(s)
          /\ \A i \in 1 .. Len(a) + Len(s) : u[i] = IF i <= Len(a) THEN a[i] ELSE s[i - Len(a)]
      BY <1>7, <2>3, <2>4, ConcatProperties
    <3>2. Len(s) \in Nat
      BY <1>7, LenProperties
    <3> QED
      BY <2>3, <3>1, <3>2
  <2>6. u # << >> /\ u[1] = "-"
    <3>1. 1 \in 1 .. 1 + Len(s)
      BY <2>5
    <3>2. Len(u) # 0
      BY <2>5
    <3> QED
      BY <2>3, <2>5, <3>1, <3>2, EmptySeq
  <2>7. Head(u) = "-"
    BY <2>5, <2>6
  <2>8. /\ Tail(u) \in Seq(Chars) /\ Len(Tail(u)) = Len(s)
        /\ \A i \in 1 .. Len(s) : Tail(u)[i] = u[i + 1]
    BY <2>5, <2>6, HeadTailProperties
  <2>9. ASSUME NEW i \in 1 .. Len(s) PROVE Tail(u)[i] = s[i]
    <3>1. i + 1 \in 1 .. 1 + Len(s) /\ ~(i + 1 <= 1) /\ (i + 1) - 1 = i
      BY <2>5
    <3>2. u[i + 1] = s[i]
      BY <2>5, <3>1
    <3> QED
      BY <2>8, <3>2
  <2>10. Tail(u) = s
    BY <1>7, <2>8, <2>9, SeqEqual
  <2>11. Decimal(v) = u
    BY <2>1, <2>2, <2>4
  <2> QED
    <3>1. ~(v >= 0)
      BY <1>1, <1>10
    <3> QED
      BY <1>7, <2>1, <2>5, <2>6, <2>7, <2>10, <2>11, <3>1, Zenon
<1> QED
  BY <1>1, <1>9, <1>10

LEMMA ConvertedSays ==
  ASSUME NEW m \in Messages, NEW i \in 1 .. Len(m), NEW p, p = m[i], p.kind \in Known
  PROVE  Converted(p.kind, p.v) \in Seq(Chars) /\ Says(p, Converted(p.kind, p.v))
PROOF
<1>1. /\ p \in Pieces /\ i \in DOMAIN m
      /\ p.kind = "s" => IsString(p.v)
      /\ p.kind = "d" => p.v \in -(WORD \div 2) .. (WORD \div 2) - 1
      /\ p.kind = "x" => p.v \in 0 .. WORD - 1
  BY MessagePieces, MessagesAssumption
<1>2. CASE p.kind = "s"
  <2>1. PICK s : s = p.v
    OBVIOUS
  <2>2. s \in Seq({s[j] : j \in DOMAIN s})
    BY <1>1, <1>2, <2>1 DEF IsString
  <2>3. s \in Strings
    BY <1>1, <1>2, <2>1 DEF Strings
  <2>4. {s[j] : j \in DOMAIN s} \subseteq Chars
    BY <2>3 DEF Chars
  <2>5. s \in Seq(Chars)
    BY <2>2, <2>4, SeqMonotonic
  <2> QED
    BY <1>2, <2>1, <2>5 DEF Converted, Says
<1>3. CASE p.kind = "c"
  <2>1. p.v \in Chars
    BY <1>1, <1>3 DEF Chars
  <2>2. <<p.v>> \in Seq(Chars)
    BY <2>1
  <2> QED
    BY <1>3, <2>2 DEF Converted, Says
<1>4. CASE p.kind = "x"
  <2>1. PICK v \in Nat : v = p.v
    BY <1>1, <1>4, ConsoleAssumption
  <2>2. PICK s : s = Digits(v, 16)
    OBVIOUS
  <2>3. IsNumeral(s, v, 16)
    BY <2>2, DigitsAreANumeral
  <2>4. s \in Seq(Chars) /\ Numeral(s, v, 16)
    BY <2>3, NumeralsAreRight, DigitsAreChars DEF IsNumeral
  <2>5. Converted(p.kind, p.v) = s
    BY <1>4, <2>1, <2>2 DEF Converted
  <2> QED
    BY <1>4, <2>1, <2>4, <2>5 DEF Says
<1>5. CASE p.kind = "d"
  <2>1. PICK v \in -(WORD \div 2) .. (WORD \div 2) - 1 : v = p.v
    BY <1>1, <1>5
  <2>2. /\ Decimal(v) \in Seq(Chars)
        /\ v >= 0 => Numeral(Decimal(v), v, 10)
        /\ v < 0 => /\ Decimal(v) # << >> /\ Head(Decimal(v)) = "-"
                    /\ Numeral(Tail(Decimal(v)), -v, 10)
    BY ConvertedInts
  <2>3. Converted(p.kind, p.v) = Decimal(v)
    BY <1>5, <2>1 DEF Converted
  <2>4. v \in Int
    BY ConsoleAssumption
  <2>5. CASE v >= 0
    <3>1. Numeral(Decimal(v), v, 10) /\ ~(v < 0)
      BY <2>2, <2>4, <2>5
    <3> QED
      BY <1>5, <2>1, <2>2, <2>3, <2>5, <3>1 DEF Says
  <2>6. CASE v < 0
    <3>1. ~(v >= 0)
      BY <2>4, <2>6
    <3> QED
      BY <1>5, <2>1, <2>2, <2>3, <2>6, <3>1 DEF Says
  <2> QED
    BY <2>4, <2>5, <2>6
<1> QED
  BY <1>2, <1>3, <1>4, <1>5 DEF Known

(***************************************************************************)
(* The inductive invariant: what has been said is what the first pieces    *)
(* say, the format and the arguments are what the others need, and what a  *)
(* conversion has printed and has still to print is what its piece says.   *)
(* The arguments are looked at no more once one was left behind.           *)
(***************************************************************************)
AllKnown(m, d) == \A i \in 1 .. d : m[i].kind \in Known \cup {"text"}

Progress(c) ==
  LET m == c.message
      d == Len(c.said)
  IN  /\ c = [op |-> c.op, message |-> m, fmt |-> c.fmt, args |-> c.args,
              out |-> c.out, said |-> c.said]
      /\ m \in Messages /\ c.said \in Seq(Seq(Chars)) /\ d <= Len(m)
      /\ c.fmt = Rest(Format(m), InFormat(m, d))
      /\ AllKnown(m, d) => c.args = Rest(Arguments(m), InArguments(m, d))
      /\ \A i \in 1 .. d : i < d \/ c.op = "format" => Says(m[i], c.said[i])
      /\ c.op = "print" => /\ d >= 1 /\ c.out \in Seq(Chars)
                           /\ Says(m[d], c.said[d] \o c.out)

AllSaid(c) ==
  "message" \in DOMAIN c =>
    Len(c.said) = Len(c.message) /\ \A i \in DOMAIN c.message : Says(c.message[i], c.said[i])

CallInv(c) == (c.op \in {"format", "print"} => Progress(c)) /\ (c.op = "idle" => AllSaid(c))

LEMMA NextPiece ==
  ASSUME NEW c, Progress(c), NEW m, m = c.message, NEW d, d = Len(c.said), c.fmt # << >>
  PROVE  /\ m \in Messages /\ d \in Nat /\ d + 1 \in 1 .. Len(m) /\ m[d + 1] \in Pieces
         /\ m[d + 1].kind = "text" =>
              /\ Head(c.fmt) = m[d + 1].v /\ Tail(c.fmt) = Rest(Format(m), InFormat(m, d + 1))
              /\ Head(c.fmt) = "%" => Len(c.fmt) = 1
         /\ m[d + 1].kind # "text" =>
              /\ Head(c.fmt) = "%" /\ Len(c.fmt) > 1 /\ c.fmt[2] = m[d + 1].kind
              /\ SubSeq(c.fmt, 3, Len(c.fmt)) = Rest(Format(m), InFormat(m, d + 1))
PROOF
<1>1. m \in Messages /\ d \in Nat /\ d <= Len(m) /\ c.fmt = Rest(Format(m), InFormat(m, d))
  BY LenProperties DEF Progress
<1>2. PICK s : s = Format(m)
  OBVIOUS
<1>3. PICK k : k = InFormat(m, d)
  OBVIOUS
<1>4. PICK r : r = c.fmt
  OBVIOUS
<1>5. PICK n : n = Len(m)
  OBVIOUS
<1>6. n \in Nat /\ DOMAIN m = 1 .. n /\ \A i \in 1 .. n : m[i] \in Pieces
  BY <1>1, <1>5, MessagePieces
<1>7. FormatInPlaces(m)
  BY <1>1, FormatPlaces
<1>8. /\ s \in Seq(Chars) /\ InFormat(m, n) = Len(s)
      /\ \A e \in 0 .. n : InFormat(m, e) \in 0 .. Len(s)
      /\ \A e \in 1 .. n :
           IF m[e].kind = "text"
           THEN InFormat(m, e) = InFormat(m, e - 1) + 1 /\ s[InFormat(m, e - 1) + 1] = m[e].v
           ELSE /\ InFormat(m, e) = InFormat(m, e - 1) + 2
                /\ s[InFormat(m, e - 1) + 1] = "%" /\ s[InFormat(m, e - 1) + 2] = m[e].kind
  BY <1>2, <1>5, <1>7 DEF FormatInPlaces
<1>9. k \in 0 .. Len(s) /\ Len(s) \in Nat
  <2>1. d \in 0 .. n
    BY <1>1, <1>5, <1>6
  <2> QED
    BY <1>3, <1>8, <2>1, LenProperties
<1>10. IsRest(r, s, k, Chars)
  BY <1>1, <1>2, <1>3, <1>4, <1>8, <1>9, Rests
<1>11. k < Len(s) /\ d < n
  <2>1. k # Len(s)
    BY <1>4, <1>10 DEF IsRest
  <2>2. d # n
    BY <1>3, <1>8, <2>1
  <2> QED
    BY <1>1, <1>5, <1>6, <1>9, <2>1, <2>2
<1>12. PICK e : e = d + 1
  OBVIOUS
<1>13. e \in 1 .. n /\ e \in 0 .. n /\ e - 1 = d
  BY <1>1, <1>6, <1>11, <1>12
<1>14. PICK l : l = InFormat(m, e)
  OBVIOUS
<1>15. l \in 0 .. Len(s)
  BY <1>8, <1>13, <1>14
<1>16. IF m[e].kind = "text" THEN l = k + 1 /\ s[k + 1] = m[e].v
       ELSE l = k + 2 /\ s[k + 1] = "%" /\ s[k + 2] = m[e].kind
  BY <1>3, <1>8, <1>13, <1>14
<1>17. Head(r) = s[k + 1] /\ Tail(r) = Rest(s, k + 1) /\ Len(r) = Len(s) - k
  BY <1>10, <1>11 DEF IsRest
<1>18. ASSUME m[e].kind = "text"
       PROVE  /\ Head(r) = m[e].v /\ Tail(r) = Rest(s, l)
              /\ Head(r) = "%" => Len(r) = 1
  <2>1. l = k + 1 /\ s[k + 1] = m[e].v
    BY <1>16, <1>18
  <2>2. Head(r) = m[e].v /\ Tail(r) = Rest(s, l)
    BY <1>17, <2>1
  <2>3. ASSUME Head(r) = "%" PROVE Len(r) = 1
    <3>1. e = Len(m)
      BY <1>1, <1>6, <1>13, <1>18, <2>2, <2>3, MessagesAssumption
    <3>2. l = Len(s)
      BY <1>5, <1>8, <1>14, <3>1
    <3> QED
      BY <1>9, <1>17, <2>1, <3>2
  <2> QED
    BY <2>2, <2>3
<1>19. ASSUME m[e].kind # "text"
       PROVE  /\ Head(r) = "%" /\ Len(r) > 1 /\ r[2] = m[e].kind
              /\ SubSeq(r, 3, Len(r)) = Rest(s, l)
  <2>1. l = k + 2 /\ s[k + 1] = "%" /\ s[k + 2] = m[e].kind
    BY <1>16, <1>19
  <2>2. k + 1 < Len(s) /\ Len(r) > 1 /\ 2 \in 1 .. Len(r)
    BY <1>9, <1>15, <1>17, <2>1
  <2>3. SubSeq(r, 3, Len(r)) = Rest(s, k + 2) /\ r[2] = s[k + 2]
    BY <1>10, <2>2 DEF IsRest
  <2> QED
    BY <1>17, <2>1, <2>2, <2>3
<1> QED
  BY <1>1, <1>2, <1>4, <1>5, <1>6, <1>12, <1>13, <1>14, <1>18, <1>19

(* A conversion that is known finds its argument: none before it was left  *)
(* behind.                                                                 *)
LEMMA NextArgument ==
  ASSUME NEW c, Progress(c), NEW m, m = c.message, NEW d, d = Len(c.said),
         d + 1 \in 1 .. Len(m), m[d + 1].kind \in Known
  PROVE  Head(c.args) = m[d + 1].v /\ Tail(c.args) = Rest(Arguments(m), InArguments(m, d + 1))
PROOF
<1>1. m \in Messages /\ d \in Nat /\ d <= Len(m)
      /\ (AllKnown(m, d) => c.args = Rest(Arguments(m), InArguments(m, d)))
  BY LenProperties DEF Progress
<1>2. PICK n \in Nat : n = Len(m)
  BY <1>1, MessagePieces
<1>3. DOMAIN m = 1 .. n
  BY <1>1, <1>2, MessagePieces
<1>4. AllKnown(m, d)
  <2> SUFFICES ASSUME NEW i \in 1 .. d, m[i].kind \notin Known \cup {"text"} PROVE FALSE
    BY DEF AllKnown
  <2>1. i \in DOMAIN m /\ d + 1 \in i + 1 .. Len(m)
    BY <1>1, <1>2, <1>3
  <2> QED
    BY <1>1, <2>1, MessagesAssumption
<1>5. PICK s : s = Arguments(m)
  OBVIOUS
<1>6. PICK k : k = InArguments(m, d)
  OBVIOUS
<1>7. PICK e : e = d + 1
  OBVIOUS
<1>8. e \in 1 .. n /\ d \in 0 .. n /\ e \in 0 .. n /\ e - 1 = d /\ m[e].kind # "text"
  BY <1>1, <1>2, <1>7 DEF Known
<1>9. ArgumentsInPlaces(m)
  BY <1>1, ArgumentPlaces
<1>10. /\ s \in Seq(Values) /\ k \in 0 .. Len(s) /\ InArguments(m, e) \in 0 .. Len(s)
       /\ InArguments(m, e) = k + 1 /\ s[k + 1] = m[e].v
  BY <1>2, <1>5, <1>6, <1>8, <1>9 DEF ArgumentsInPlaces
<1>11. PICK r : r = c.args
  OBVIOUS
<1>12. IsRest(r, s, k, Values)
  BY <1>1, <1>4, <1>5, <1>6, <1>10, <1>11, Rests
<1>13. k < Len(s)
  <2>1. Len(s) \in Nat
    BY <1>10, LenProperties
  <2> QED
    BY <1>10, <2>1
<1>14. Head(r) = s[k + 1] /\ Tail(r) = Rest(s, k + 1)
  BY <1>12, <1>13 DEF IsRest
<1> QED
  BY <1>5, <1>7, <1>10, <1>11, <1>14

LEMMA OneMoreSaid ==
  ASSUME NEW said \in Seq(Seq(Chars)), NEW t \in Seq(Chars), NEW q, q = Append(said, t)
  PROVE  /\ q \in Seq(Seq(Chars)) /\ Len(said) \in Nat /\ Len(q) = Len(said) + 1
         /\ q[Len(said) + 1] = t /\ \A i \in 1 .. Len(said) : q[i] = said[i]
PROOF
<1>1. Len(said) \in Nat
  BY LenProperties
<1>2. q \in Seq(Seq(Chars)) /\ Len(q) = Len(said) + 1 /\ q[Len(said) + 1] = t
      /\ \A i \in 1 .. Len(said) : q[i] = said[i]
  BY AppendProperties
<1> QED
  BY <1>1, <1>2

(* The next piece is said, or begun.                                       *)
LEMMA PieceProgress ==
  ASSUME NEW c, Progress(c), c.op = "format", c.fmt # << >>,
         NEW m, m = c.message, NEW d, d = Len(c.said),
         NEW op, NEW args, NEW out, NEW t \in Seq(Chars),
         NEW c1, c1 = [op |-> op, message |-> m, fmt |-> Rest(Format(m), InFormat(m, d + 1)),
                       args |-> args, out |-> out, said |-> Append(c.said, t)],
         AllKnown(m, d + 1) => args = Rest(Arguments(m), InArguments(m, d + 1)),
         \/ op = "format" /\ Says(m[d + 1], t)
         \/ op = "print" /\ out \in Seq(Chars) /\ Says(m[d + 1], t \o out)
  PROVE  Progress(c1)
PROOF
<1>1. m \in Messages /\ d \in Nat /\ d + 1 \in 1 .. Len(m)
  BY NextPiece
<1>2. PICK e : e = d + 1
  OBVIOUS
<1>3. PICK q : q = Append(c.said, t)
  OBVIOUS
<1>4. c.said \in Seq(Seq(Chars)) /\ \A i \in 1 .. d : Says(m[i], c.said[i])
  BY DEF Progress
<1>5. q \in Seq(Seq(Chars)) /\ Len(q) = e /\ q[e] = t /\ \A i \in 1 .. d : q[i] = c.said[i]
  BY <1>2, <1>3, <1>4, OneMoreSaid
<1>6. e \in 1 .. Len(m) /\ Len(m) \in Nat /\ e >= 1 /\ e <= Len(m)
  BY <1>1, <1>2, MessagePieces
<1>7. /\ c1.op = op /\ c1.message = m /\ c1.fmt = Rest(Format(m), InFormat(m, e))
      /\ c1.args = args /\ c1.out = out /\ c1.said = q
      /\ c1 = [op |-> c1.op, message |-> m, fmt |-> c1.fmt, args |-> c1.args,
               out |-> c1.out, said |-> c1.said]
  BY <1>2, <1>3
<1>8. ASSUME NEW i \in 1 .. e, i < e \/ op = "format"
      PROVE  Says(m[i], q[i])
  <2>1. CASE i = e
    <3>1. op = "format" /\ Says(m[e], t)
      BY <1>2, <1>6, <1>8, <2>1
    <3> QED
      BY <1>5, <2>1, <3>1
  <2>2. CASE i # e
    <3>1. i \in 1 .. d
      BY <1>1, <1>2, <2>2
    <3> QED
      BY <1>4, <1>5, <3>1
  <2> QED
    BY <2>1, <2>2
<1>9. op = "print" => out \in Seq(Chars) /\ Says(m[e], q[e] \o out)
  BY <1>2, <1>5
<1>10. AllKnown(m, e) => args = Rest(Arguments(m), InArguments(m, e))
  BY <1>2
<1> QED
  BY <1>1, <1>5, <1>6, <1>7, <1>8, <1>9, <1>10 DEF Progress

LEMMA CallStarts ==
  ASSUME NEW m \in Messages,
         NEW c, c = [op |-> "format", message |-> m, fmt |-> Format(m), args |-> Arguments(m),
                     out |-> << >>, said |-> << >>]
  PROVE  Progress(c)
PROOF
<1>1. FormatInPlaces(m) /\ ArgumentsInPlaces(m) /\ Len(m) \in Nat
  BY FormatPlaces, ArgumentPlaces, MessagePieces
<1>2. InFormat(m, 0) = 0 /\ InArguments(m, 0) = 0
      /\ Format(m) \in Seq(Chars) /\ Arguments(m) \in Seq(Values)
  BY <1>1 DEF FormatInPlaces, ArgumentsInPlaces
<1>3. Format(m) = Rest(Format(m), 0)
  <2>1. PICK s \in Seq(Chars) : s = Format(m)
    BY <1>2
  <2>2. SubSeq(s, 1, Len(s)) = s
    BY SubSeqFull
  <2> QED
    BY <2>1, <2>2 DEF Rest
<1>4. Arguments(m) = Rest(Arguments(m), 0)
  <2>1. PICK s \in Seq(Values) : s = Arguments(m)
    BY <1>2
  <2>2. SubSeq(s, 1, Len(s)) = s
    BY SubSeqFull
  <2> QED
    BY <2>1, <2>2 DEF Rest
<1>5. PICK none : none = << >>
  OBVIOUS
<1>6. none \in Seq(Seq(Chars)) /\ Len(none) = 0
  BY <1>5
<1>7. /\ c.op = "format" /\ c.message = m /\ c.fmt = Rest(Format(m), InFormat(m, 0))
      /\ c.args = Rest(Arguments(m), InArguments(m, 0)) /\ c.said = none
      /\ c = [op |-> c.op, message |-> m, fmt |-> c.fmt, args |-> c.args,
              out |-> c.out, said |-> c.said]
  BY <1>2, <1>3, <1>4, <1>5
<1> QED
  BY <1>1, <1>6, <1>7 DEF Progress

LEMMA FormatLength == ASSUME NEW c, Progress(c) PROVE Len(c.fmt) \in Nat
PROOF
<1>1. PICK m : m = c.message
  OBVIOUS
<1>2. PICK k : k = InFormat(m, Len(c.said))
  OBVIOUS
<1>3. m \in Messages /\ c.said \in Seq(Seq(Chars)) /\ Len(c.said) <= Len(m)
      /\ c.fmt = Rest(Format(m), k)
  BY <1>1, <1>2 DEF Progress
<1>4. Len(c.said) \in 0 .. Len(m)
  BY <1>3, LenProperties, MessagePieces
<1>5. Format(m) \in Seq(Chars) /\ k \in 0 .. Len(Format(m))
  BY <1>2, <1>3, <1>4, FormatPlaces DEF FormatInPlaces
<1>6. c.fmt \in Seq(Chars)
  BY <1>3, <1>5, Rests DEF IsRest
<1> QED
  BY <1>6, LenProperties

LEMMA PlainSays == CallInv(call) /\ Plain => CallInv(call')
PROOF
<1> SUFFICES ASSUME CallInv(call), Plain PROVE CallInv(call')
  OBVIOUS
<1>1. PICK c : c = call
  OBVIOUS
<1>2. PICK c1 : c1 = call'
  OBVIOUS
<1>3. Progress(c) /\ c.op = "format" /\ c.fmt # << >>
      /\ (Head(c.fmt) # "%" \/ Len(c.fmt) = 1)
      /\ c1 = [c EXCEPT !.fmt = Tail(@), !.said = Append(@, <<Head(c.fmt)>>)]
  BY <1>1, <1>2 DEF Plain, CallInv
<1>4. PICK m : m = c.message
  OBVIOUS
<1>5. PICK d : d = Len(c.said)
  OBVIOUS
<1>6. PICK p : p = m[d + 1]
  OBVIOUS
<1>7. /\ m \in Messages /\ d \in Nat /\ d + 1 \in 1 .. Len(m) /\ p \in Pieces
      /\ p.kind = "text" => /\ Head(c.fmt) = p.v
                            /\ Tail(c.fmt) = Rest(Format(m), InFormat(m, d + 1))
      /\ p.kind # "text" => Head(c.fmt) = "%" /\ Len(c.fmt) > 1
  BY <1>3, <1>4, <1>5, <1>6, NextPiece
<1>8. p.kind = "text"
  <2>1. Progress(c)
    BY <1>3, Zenon
  <2>2. Len(c.fmt) > 1 => Len(c.fmt) # 1
    <3>1. PICK l : l = Len(c.fmt)
      OBVIOUS
    <3>2. l \in Nat
      BY <2>1, <3>1, FormatLength
    <3>3. l > 1 => l # 1
      BY <3>2
    <3> QED
      BY <3>1, <3>3, Zenon
  <2> QED
    BY <1>3, <1>7, <2>2, Zenon
<1>9. /\ c = [op |-> "format", message |-> m, fmt |-> c.fmt, args |-> c.args,
              out |-> c.out, said |-> c.said]
  BY <1>3, <1>4 DEF Progress
<1>10. PICK t : t = <<p.v>>
  OBVIOUS
<1>11. c1 = [op |-> "format", message |-> m, fmt |-> Rest(Format(m), InFormat(m, d + 1)),
             args |-> c.args, out |-> c.out, said |-> Append(c.said, t)]
  <2>1. PICK rest : rest = Rest(Format(m), InFormat(m, d + 1))
    OBVIOUS
  <2>2. Head(c.fmt) = p.v /\ Tail(c.fmt) = rest
        /\ c1 = [c EXCEPT !.fmt = Tail(@), !.said = Append(@, <<Head(c.fmt)>>)]
    BY <1>3, <1>7, <1>8, <2>1, Zenon
  <2>3. PICK said : said = Append(c.said, t)
    OBVIOUS
  <2>4. c1 = [c EXCEPT !.fmt = rest, !.said = said]
    BY <1>10, <2>2, <2>3
  <2>5. c1 = [op |-> "format", message |-> m, fmt |-> rest,
              args |-> c.args, out |-> c.out, said |-> said]
    <3>1. PICK f, a, o, s : f = c.fmt /\ a = c.args /\ o = c.out /\ s = c.said
      OBVIOUS
    <3>2. c = [op |-> "format", message |-> m, fmt |-> f, args |-> a, out |-> o, said |-> s]
      BY <1>9, <3>1
    <3>3. c1 = [op |-> "format", message |-> m, fmt |-> rest, args |-> a, out |-> o,
                said |-> said]
      BY <2>4, <3>2
    <3> QED
      BY <3>1, <3>3
  <2> QED
    BY <2>1, <2>3, <2>5
<1>12. t \in Seq(Chars)
  <2>1. p.v \in Chars
    BY <1>7, <1>8 DEF Chars
  <2> QED
    BY <1>10, <2>1
<1>13. Says(p, t)
  BY <1>8, <1>10 DEF Says
<1>14. AllKnown(m, d + 1) => c.args = Rest(Arguments(m), InArguments(m, d + 1))
  <2> HAVE AllKnown(m, d + 1)
  <2>1. AllKnown(m, d)
    BY <1>7 DEF AllKnown
  <2>2. c.args = Rest(Arguments(m), InArguments(m, d))
    BY <1>3, <1>4, <1>5, <2>1 DEF Progress
  <2>3. PICK e : e = d + 1
    OBVIOUS
  <2>4. e \in 1 .. Len(m) /\ e - 1 = d
    BY <1>7, <2>3
  <2>5. InArguments(m, e) = InArguments(m, e - 1)
    BY <1>6, <1>7, <1>8, <2>3, <2>4, ArgumentPlaces DEF ArgumentsInPlaces
  <2> QED
    BY <2>2, <2>3, <2>4, <2>5
<1>15. Progress(c1)
  <2>1. Progress(c) /\ c.op = "format" /\ c.fmt # << >>
    BY <1>3, Zenon
  <2>2. Says(m[d + 1], t)
    BY <1>6, <1>13
  <2> QED
    BY <1>4, <1>5, <1>11, <1>12, <1>14, <2>1, <2>2, PieceProgress
<1>16. c1.op = "format"
  BY <1>11
<1> QED
  BY <1>2, <1>15, <1>16 DEF CallInv

Converting(c, k, h, percent) ==
  [c EXCEPT !.op = "print", !.fmt = SubSeq(@, 3, Len(@)),
            !.args = IF k \in Known THEN Tail(@) ELSE @,
            !.out = IF k \in Known THEN Converted(k, h) ELSE <<percent, k>>,
            !.said = Append(@, << >>)]

IsConverting(c1, c, m, k, h, percent) ==
  c1 = [op |-> "print", message |-> m, fmt |-> SubSeq(c.fmt, 3, Len(c.fmt)),
        args |-> IF k \in Known THEN Tail(c.args) ELSE c.args,
        out |-> IF k \in Known THEN Converted(k, h) ELSE <<percent, k>>,
        said |-> Append(c.said, << >>)]

LEMMA ConversionMakes ==
  ASSUME NEW m, NEW k, NEW h, NEW percent, NEW c,
         c = [op |-> "format", message |-> m, fmt |-> c.fmt, args |-> c.args,
              out |-> c.out, said |-> c.said],
         NEW c1, c1 = Converting(c, k, h, percent)
  PROVE  IsConverting(c1, c, m, k, h, percent)
PROOF
<1>1. PICK f, a, o, s : f = c.fmt /\ a = c.args /\ o = c.out /\ s = c.said
  OBVIOUS
<1>2. PICK f1 : f1 = SubSeq(c.fmt, 3, Len(c.fmt))
  OBVIOUS
<1>3. PICK a1 : a1 = IF k \in Known THEN Tail(c.args) ELSE c.args
  OBVIOUS
<1>4. PICK o1 : o1 = IF k \in Known THEN Converted(k, h) ELSE <<percent, k>>
  OBVIOUS
<1>5. PICK s1 : s1 = Append(c.said, << >>)
  OBVIOUS
<1>6. c = [op |-> "format", message |-> m, fmt |-> f, args |-> a, out |-> o, said |-> s]
  BY <1>1
<1>7. c1 = [c EXCEPT !.op = "print", !.fmt = f1, !.args = a1, !.out = o1, !.said = s1]
  BY <1>2, <1>3, <1>4, <1>5, Zenon DEF Converting
<1>8. c1 = [op |-> "print", message |-> m, fmt |-> f1, args |-> a1, out |-> o1, said |-> s1]
  BY <1>6, <1>7
<1> QED
  BY <1>2, <1>3, <1>4, <1>5, <1>8, Zenon DEF IsConverting

LEMMA ConversionSays == CallInv(call) /\ Conversion => CallInv(call')
PROOF
<1> SUFFICES ASSUME CallInv(call), Conversion PROVE CallInv(call')
  OBVIOUS
<1>1. PICK c : c = call
  OBVIOUS
<1>2. PICK c1 : c1 = call'
  OBVIOUS
<1>3. PICK k : k = c.fmt[2]
  OBVIOUS
<1>4. /\ Progress(c) /\ c.op = "format" /\ Len(c.fmt) > 1 /\ Head(c.fmt) = "%"
      /\ c1 = Converting(c, k, Head(c.args), "%")
  BY <1>1, <1>2, <1>3 DEF Conversion, CallInv, Converting
<1>5. PICK m : m = c.message
  OBVIOUS
<1>6. PICK d : d = Len(c.said)
  OBVIOUS
<1>7. PICK p : p = m[d + 1]
  OBVIOUS
<1>8. Progress(c) /\ c.op = "format" /\ c.fmt # << >> /\ ~(Len(c.fmt) = 1)
  <2>1. Progress(c) /\ c.op = "format" /\ Len(c.fmt) > 1
    BY <1>4, Zenon
  <2>2. Len(c.fmt) \in Nat /\ Len(<< >>) = 0
    BY <2>1, FormatLength
  <2>3. PICK f, l : f = c.fmt /\ l = Len(f)
    OBVIOUS
  <2>4. l \in Nat /\ l > 1
    BY <2>1, <2>2, <2>3, Zenon
  <2>5. l # 0 /\ l # 1
    BY <2>4
  <2>6. c.fmt # << >> /\ ~(Len(c.fmt) = 1)
    BY <2>2, <2>3, <2>5, Zenon
  <2> QED
    BY <2>1, <2>6
<1>9. /\ m \in Messages /\ d \in Nat /\ d + 1 \in 1 .. Len(m) /\ p \in Pieces
      /\ p.kind = "text" => (Head(c.fmt) = "%" => Len(c.fmt) = 1)
      /\ p.kind # "text" => /\ c.fmt[2] = p.kind
                            /\ SubSeq(c.fmt, 3, Len(c.fmt)) = Rest(Format(m), InFormat(m, d + 1))
  BY <1>4, <1>5, <1>6, <1>7, <1>8, NextPiece
<1>10. p.kind # "text" /\ k = p.kind
  BY <1>3, <1>4, <1>8, <1>9
<1>11. c = [op |-> "format", message |-> m, fmt |-> c.fmt, args |-> c.args,
            out |-> c.out, said |-> c.said]
  BY <1>4, <1>5 DEF Progress
<1>12. PICK t : t = << >>
  OBVIOUS
<1>13. t \in Seq(Chars) /\ \A s \in Seq(Chars) : t \o s = s
  BY <1>12, ConcatEmptySeq
<1>14. PICK args : args = IF k \in Known THEN Tail(c.args) ELSE c.args
  OBVIOUS
<1>15. PICK out : out = IF k \in Known THEN Converted(k, Head(c.args)) ELSE <<"%", k>>
  OBVIOUS
<1>16. c1 = [op |-> "print", message |-> m, fmt |-> Rest(Format(m), InFormat(m, d + 1)),
             args |-> args, out |-> out, said |-> Append(c.said, t)]
  <2>1. PICK rest : rest = Rest(Format(m), InFormat(m, d + 1))
    OBVIOUS
  <2>2. SubSeq(c.fmt, 3, Len(c.fmt)) = rest
    BY <1>9, <1>10, <2>1, Zenon
  <2>3. IsConverting(c1, c, m, k, Head(c.args), "%")
    BY <1>4, <1>11, ConversionMakes, Zenon
  <2> QED
    BY <1>12, <1>14, <1>15, <2>1, <2>2, <2>3, Zenon DEF IsConverting
<1>17. ASSUME k \in Known PROVE Progress(c1)
  <2>1. Head(c.args) = p.v /\ Tail(c.args) = Rest(Arguments(m), InArguments(m, d + 1))
    BY <1>4, <1>5, <1>6, <1>7, <1>9, <1>10, <1>17, NextArgument
  <2>2. Converted(p.kind, p.v) \in Seq(Chars) /\ Says(p, Converted(p.kind, p.v))
    BY <1>7, <1>9, <1>10, <1>17, ConvertedSays
  <2>3. out = Converted(p.kind, p.v) /\ args = Rest(Arguments(m), InArguments(m, d + 1))
    BY <1>10, <1>14, <1>15, <1>17, <2>1
  <2>4. out \in Seq(Chars) /\ Says(m[d + 1], t \o out)
    BY <1>7, <1>13, <2>2, <2>3
  <2> QED
    BY <1>5, <1>6, <1>8, <1>13, <1>16, <2>3, <2>4, PieceProgress
<1>18. ASSUME k \notin Known PROVE Progress(c1)
  <2>1. out = <<"%", p.kind>>
    BY <1>10, <1>15, <1>18
  <2>2. out \in Seq(Chars)
    <3>1. "%" \in Chars /\ p.kind \in Chars
      BY <1>9 DEF Chars
    <3> QED
      BY <2>1, <3>1
  <2>3. Says(p, out)
    BY <1>10, <1>18, <2>1 DEF Says, Known
  <2>4. out \in Seq(Chars) /\ Says(m[d + 1], t \o out)
    BY <1>7, <1>13, <2>2, <2>3
  <2>5. ~AllKnown(m, d + 1)
    BY <1>7, <1>9, <1>10, <1>18 DEF AllKnown
  <2> QED
    BY <1>5, <1>6, <1>8, <1>13, <1>16, <2>4, <2>5, PieceProgress
<1>19. c1.op = "print"
  BY <1>16
<1> QED
  BY <1>2, <1>17, <1>18, <1>19 DEF CallInv

(* The next character of what is to be printed goes behind what was.       *)
LEMMA OneCharacterMore ==
  ASSUME NEW S, NEW a \in Seq(S), NEW b \in Seq(S), b # << >>
  PROVE  /\ Append(a, Head(b)) \in Seq(S) /\ Tail(b) \in Seq(S)
         /\ Append(a, Head(b)) \o Tail(b) = a \o b
PROOF
<1>1. PICK h : h = Head(b)
  OBVIOUS
<1>2. PICK t : t = Tail(b)
  OBVIOUS
<1>3. h \in S /\ t \in Seq(S) /\ Len(t) = Len(b) - 1 /\ \A i \in 1 .. Len(t) : t[i] = b[i + 1]
  BY <1>1, <1>2, HeadTailProperties
<1>4. PICK e : e = Append(a, h)
  OBVIOUS
<1>5. /\ e \in Seq(S) /\ Len(e) = Len(a) + 1 /\ e[Len(a) + 1] = h
      /\ \A i \in 1 .. Len(a) : e[i] = a[i]
  BY <1>3, <1>4, AppendProperties
<1>6. Len(a) \in Nat /\ Len(b) \in Nat
  BY LenProperties
<1>7. h = b[1]
  BY <1>1
<1>8. PICK u : u = e \o t
  OBVIOUS
<1>9. PICK v : v = a \o b
  OBVIOUS
<1>10. /\ u \in Seq(S) /\ Len(u) = Len(e) + Len(t)
       /\ \A i \in 1 .. Len(e) + Len(t) : u[i] = IF i <= Len(e) THEN e[i] ELSE t[i - Len(e)]
  BY <1>3, <1>5, <1>8, ConcatProperties
<1>11. /\ v \in Seq(S) /\ Len(v) = Len(a) + Len(b)
       /\ \A i \in 1 .. Len(a) + Len(b) : v[i] = IF i <= Len(a) THEN a[i] ELSE b[i - Len(a)]
  BY <1>9, ConcatProperties
<1>12. ASSUME NEW i \in 1 .. Len(v)
       PROVE  u[i] = v[i]
  <2>1. i \in Nat /\ i \in 1 .. Len(a) + Len(b) /\ i \in 1 .. Len(e) + Len(t)
    BY <1>3, <1>5, <1>6, <1>11, <1>12
  <2>2. CASE i <= Len(a)
    <3>1. i <= Len(e) /\ i \in 1 .. Len(a)
      BY <1>5, <1>6, <2>1, <2>2
    <3>2. u[i] = e[i] /\ v[i] = a[i] /\ e[i] = a[i]
      BY <1>5, <1>10, <1>11, <2>1, <2>2, <3>1
    <3> QED
      BY <3>2
  <2>3. CASE i = Len(a) + 1
    <3>1. i <= Len(e) /\ ~(i <= Len(a)) /\ i - Len(a) = 1
      BY <1>5, <1>6, <2>1, <2>3
    <3>2. u[i] = e[i] /\ v[i] = b[1]
      BY <1>10, <1>11, <2>1, <3>1
    <3> QED
      BY <1>5, <1>7, <2>3, <3>2
  <2>4. CASE i > Len(a) + 1
    <3>1. /\ ~(i <= Len(e)) /\ ~(i <= Len(a)) /\ i - Len(e) \in 1 .. Len(t)
          /\ (i - Len(e)) + 1 = i - Len(a)
      BY <1>3, <1>5, <1>6, <2>1, <2>4
    <3>2. u[i] = t[i - Len(e)] /\ v[i] = b[i - Len(a)]
      BY <1>10, <1>11, <2>1, <3>1
    <3>3. t[i - Len(e)] = b[(i - Len(e)) + 1]
      BY <1>3, <3>1
    <3> QED
      BY <3>1, <3>2, <3>3
  <2> QED
    BY <1>6, <2>1, <2>2, <2>3, <2>4
<1>13. Len(u) = Len(v)
  BY <1>3, <1>5, <1>6, <1>10, <1>11
<1>14. u = v
  BY <1>10, <1>11, <1>12, <1>13, SeqEqual
<1> QED
  BY <1>1, <1>2, <1>3, <1>4, <1>5, <1>8, <1>9, <1>14

LEMMA EmitSays == CallInv(call) /\ Emit => CallInv(call')
PROOF
<1> SUFFICES ASSUME CallInv(call), Emit PROVE CallInv(call')
  OBVIOUS
<1>1. PICK c : c = call
  OBVIOUS
<1>2. PICK c1 : c1 = call'
  OBVIOUS
<1>3. /\ Progress(c) /\ c.op = "print"
      /\ \/ c.out = << >> /\ c1 = [c EXCEPT !.op = "format"]
         \/ /\ c.out # << >>
            /\ c1 = [c EXCEPT !.out = Tail(@), !.said[Len(c.said)] = Append(@, Head(c.out))]
  BY <1>1, <1>2 DEF Emit, CallInv
<1>4. PICK m : m = c.message
  OBVIOUS
<1>5. PICK d : d = Len(c.said)
  OBVIOUS
<1>6. PICK said : said = c.said
  OBVIOUS
<1>7. PICK out : out = c.out
  OBVIOUS
<1>8. /\ c = [op |-> "print", message |-> m, fmt |-> c.fmt, args |-> c.args,
              out |-> out, said |-> said]
      /\ m \in Messages /\ said \in Seq(Seq(Chars)) /\ d <= Len(m)
      /\ c.fmt = Rest(Format(m), InFormat(m, d))
      /\ AllKnown(m, d) => c.args = Rest(Arguments(m), InArguments(m, d))
      /\ \A i \in 1 .. d : i < d => Says(m[i], said[i])
      /\ d >= 1 /\ out \in Seq(Chars) /\ Says(m[d], said[d] \o out)
  BY <1>3, <1>4, <1>5, <1>6, <1>7 DEF Progress
<1>9. d \in Nat /\ d \in 1 .. d /\ d = Len(said) /\ said[d] \in Seq(Chars)
  <2>1. d \in Nat /\ d = Len(said)
    BY <1>5, <1>6, <1>8, LenProperties
  <2>2. d \in 1 .. Len(said)
    BY <1>8, <2>1
  <2> QED
    BY <1>8, <2>1, <2>2, ElementOfSeq
<1>10. CASE out = << >>
  <2>1. c1 = [op |-> "format", message |-> m, fmt |-> c.fmt, args |-> c.args,
              out |-> out, said |-> said]
    BY <1>3, <1>7, <1>8, <1>10
  <2>2. said[d] \o out = said[d]
    BY <1>9, <1>10, ConcatEmptySeq
  <2>3. ASSUME NEW i \in 1 .. d PROVE Says(m[i], said[i])
    <3>1. i < d \/ i = d
      BY <1>9
    <3> QED
      BY <1>8, <2>2, <3>1
  <2>4. /\ c1.op = "format" /\ c1.message = m /\ c1.fmt = c.fmt /\ c1.args = c.args
        /\ c1.said = said
        /\ c1 = [op |-> c1.op, message |-> m, fmt |-> c1.fmt, args |-> c1.args,
                 out |-> c1.out, said |-> c1.said]
    BY <2>1
  <2>5. Progress(c1)
    BY <1>8, <1>9, <2>3, <2>4 DEF Progress
  <2> QED
    BY <1>2, <2>4, <2>5 DEF CallInv
<1>11. CASE out # << >>
  <2>1. PICK a : a = Append(said[d], Head(out))
    OBVIOUS
  <2>2. PICK q : q = [said EXCEPT ![d] = a]
    OBVIOUS
  <2>3. c1 = [op |-> "print", message |-> m, fmt |-> c.fmt, args |-> c.args,
              out |-> Tail(out), said |-> q]
    <3>1. PICK t : t = Tail(out)
      OBVIOUS
    <3>2. c1 = [c EXCEPT !.out = t, !.said[d] = a]
      <4>1. c1 = [c EXCEPT !.out = Tail(@), !.said[Len(c.said)] = Append(@, Head(c.out))]
        BY <1>3, <1>7, <1>11
      <4> QED
        BY <1>5, <1>6, <1>7, <2>1, <3>1, <4>1
    <3>3. c1 = [op |-> "print", message |-> m, fmt |-> c.fmt, args |-> c.args,
                out |-> t, said |-> [said EXCEPT ![d] = a]]
      <4>1. PICK f, args : f = c.fmt /\ args = c.args
        OBVIOUS
      <4>2. c = [op |-> "print", message |-> m, fmt |-> f, args |-> args, out |-> out,
                 said |-> said]
        BY <1>8, <4>1
      <4>3. c1 = [op |-> "print", message |-> m, fmt |-> f, args |-> args, out |-> t,
                  said |-> [said EXCEPT ![d] = a]]
        BY <3>2, <4>2
      <4> QED
        BY <4>1, <4>3
    <3> QED
      BY <2>2, <3>1, <3>3
  <2>4. a \in Seq(Chars) /\ Tail(out) \in Seq(Chars) /\ a \o Tail(out) = said[d] \o out
    BY <1>8, <1>9, <1>11, <2>1, OneCharacterMore
  <2>5. /\ q \in Seq(Seq(Chars)) /\ Len(q) = d
        /\ \A i \in 1 .. d : q[i] = IF i = d THEN a ELSE said[i]
    BY <1>8, <1>9, <2>2, <2>4, ExceptSeq
  <2>6. q[d] = a /\ \A i \in 1 .. d : i < d => Says(m[i], q[i])
    BY <1>8, <1>9, <2>5
  <2>7. Says(m[d], q[d] \o Tail(out))
    BY <1>8, <2>4, <2>6
  <2>8. /\ c1.op = "print" /\ c1.message = m /\ c1.fmt = c.fmt /\ c1.args = c.args
        /\ c1.said = q /\ c1.out = Tail(out)
        /\ c1 = [op |-> c1.op, message |-> m, fmt |-> c1.fmt, args |-> c1.args,
                 out |-> c1.out, said |-> c1.said]
    BY <2>3
  <2>9. Progress(c1)
    BY <1>8, <2>4, <2>5, <2>6, <2>7, <2>8 DEF Progress
  <2> QED
    BY <1>2, <2>8, <2>9 DEF CallInv
<1> QED
  BY <1>10, <1>11

(* The format is read to its end when every piece was said.                *)
LEMMA EverythingSaid ==
  ASSUME NEW c, Progress(c), NEW m, m = c.message, c.fmt = << >>
  PROVE  Len(c.said) = Len(m)
PROOF
<1>1. PICK d : d = Len(c.said)
  OBVIOUS
<1>2. m \in Messages /\ d \in Nat /\ d <= Len(m) /\ c.fmt = Rest(Format(m), InFormat(m, d))
  BY <1>1, LenProperties DEF Progress
<1>3. PICK n \in Nat : n = Len(m)
  BY <1>2, MessagePieces
<1>4. PICK s : s = Format(m)
  OBVIOUS
<1>5. /\ s \in Seq(Chars) /\ Len(s) \in Nat /\ d \in 0 .. n
      /\ \A e \in 0 .. n : InFormat(m, e) \in 0 .. Len(s)
      /\ \A e \in 1 .. n : \/ InFormat(m, e) = InFormat(m, e - 1) + 1
                           \/ InFormat(m, e) = InFormat(m, e - 1) + 2
  <2>1. FormatInPlaces(m)
    BY <1>2, FormatPlaces
  <2>2. /\ s \in Seq(Chars)
        /\ \A e \in 0 .. n : InFormat(m, e) \in 0 .. Len(s)
        /\ \A e \in 1 .. n : \/ InFormat(m, e) = InFormat(m, e - 1) + 1
                             \/ InFormat(m, e) = InFormat(m, e - 1) + 2
    BY <1>3, <1>4, <2>1 DEF FormatInPlaces
  <2> QED
    BY <1>2, <1>3, <2>2, LenProperties
<1>6. PICK k : k = InFormat(m, d)
  OBVIOUS
<1>7. k = Len(s)
  <2>1. k \in 0 .. Len(s)
    BY <1>5, <1>6
  <2>2. IsRest(c.fmt, s, k, Chars)
    BY <1>2, <1>4, <1>5, <1>6, <2>1, Rests
  <2> QED
    BY <2>2 DEF IsRest
<1>8. ASSUME d # n PROVE FALSE
  <2>1. PICK e : e = d + 1
    OBVIOUS
  <2>2. e \in 1 .. n /\ e \in 0 .. n /\ e - 1 = d
    BY <1>2, <1>3, <1>8, <2>1
  <2>3. InFormat(m, e) \in 0 .. Len(s) /\ (InFormat(m, e) = k + 1 \/ InFormat(m, e) = k + 2)
    BY <1>5, <1>6, <2>2
  <2> QED
    BY <1>5, <1>7, <2>3
<1> QED
  BY <1>1, <1>3, <1>8

LEMMA ReturnSaidAll == CallInv(call) /\ Return => CallInv(call')
PROOF
<1> SUFFICES ASSUME CallInv(call), Return PROVE CallInv(call')
  OBVIOUS
<1>1. PICK c : c = call
  OBVIOUS
<1>2. PICK c1 : c1 = call'
  OBVIOUS
<1>3. Progress(c) /\ c.op = "format" /\ c.fmt = << >>
      /\ c1 = [op |-> "idle", message |-> c.message, said |-> c.said]
  BY <1>1, <1>2 DEF Return, CallInv
<1>4. PICK m : m = c.message
  OBVIOUS
<1>5. Len(c.said) = Len(m) /\ m \in Messages /\ \A i \in 1 .. Len(m) : Says(m[i], c.said[i])
  <2>1. Len(c.said) = Len(m)
    BY <1>3, <1>4, EverythingSaid
  <2>2. m \in Messages /\ \A i \in 1 .. Len(c.said) : Says(m[i], c.said[i])
    BY <1>3, <1>4 DEF Progress
  <2> QED
    BY <2>1, <2>2
<1>6. DOMAIN m = 1 .. Len(m)
  BY <1>5, MessagePieces
<1>7. c1.op = "idle" /\ c1.message = m /\ c1.said = c.said
  BY <1>3, <1>4
<1>8. AllSaid(c1)
  BY <1>5, <1>6, <1>7 DEF AllSaid
<1> QED
  BY <1>2, <1>7, <1>8 DEF CallInv

LEMMA CallInvStep == CallInv(call) /\ [Next]_vars => CallInv(call')
PROOF
<1> SUFFICES ASSUME CallInv(call), [Next]_vars PROVE CallInv(call')
  OBVIOUS
<1>1. CASE initialize
  <2>1. PICK c : c = call'
    OBVIOUS
  <2>2. c = [op |-> "idle"]
    BY <1>1, <2>1 DEF initialize
  <2>3. c.op = "idle" /\ "message" \notin DOMAIN c
    BY <2>2
  <2> QED
    BY <2>1, <2>3 DEF CallInv, AllSaid
<1>2. CASE Call
  <2>1. PICK c : c = call'
    OBVIOUS
  <2>2. PICK m \in Messages :
          c = [op |-> "format", message |-> m, fmt |-> Format(m), args |-> Arguments(m),
               out |-> << >>, said |-> << >>]
    BY <1>2, <2>1 DEF Call
  <2>3. Progress(c)
    BY <2>2, CallStarts
  <2>4. c.op = "format"
    BY <2>2
  <2> QED
    BY <2>1, <2>3, <2>4 DEF CallInv
<1>3. CASE Conversion
  BY <1>3, ConversionSays
<1>4. CASE Plain
  BY <1>4, PlainSays
<1>5. CASE Emit
  BY <1>5, EmitSays
<1>6. CASE Return
  BY <1>6, ReturnSaidAll
<1>7. CASE UNCHANGED vars
  BY <1>7 DEF vars
<1> QED
  BY <1>1, <1>2, <1>3, <1>4, <1>5, <1>6, <1>7 DEF Next

(* For every list of messages that MessagesAssumption describes, a call of *)
(* printf that has returned has printed each piece of its message in its   *)
(* place, and each number as the numeral that reads back as it.            *)
THEOREM PrintsWhatWasAsked == Spec => []PrintsTheMessage
PROOF
<1>1. Init => CallInv(call)
  <2>1. Init => call = [op |-> "off"]
    BY Zenon DEF Init
  <2>2. call = [op |-> "off"] => CallInv(call)
    BY DEF CallInv
  <2> QED
    BY <2>1, <2>2
<1>2. CallInv(call) => PrintsTheMessage
  BY DEF CallInv, AllSaid, PrintsTheMessage
<1>3. CallInv(call) /\ [Next]_vars => CallInv(call)'
  BY CallInvStep
<1> QED
  BY <1>1, <1>2, <1>3, PTL DEF Spec
=============================================================================
