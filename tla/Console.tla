-------------------------------- MODULE Console --------------------------------
(***************************************************************************)
(* The text output of stage 2: stdio::printf, character by character, and  *)
(* the VGA driver it prints on.                                            *)
(*                                                                         *)
(* A character is a string of length one, or the name of one that has no   *)
(* such string.                                                            *)
(***************************************************************************)
EXTENDS Integers, Sequences

CONSTANTS
  WIDTH, HEIGHT,   \* the screen (80 by 25)
  BYTE,            \* number of values of a byte
  WORD,            \* number of values of an int
  High,            \* the characters from 128 on: a char is signed
  Messages,        \* the calls of printf: what each has to say, piece by piece
  MaxCalls         \* how many calls are made

ASSUME ConsoleAssumption ==
  /\ WIDTH \in 1 .. BYTE /\ HEIGHT \in 1 .. BYTE /\ BYTE \in Nat /\ WORD \in Nat \ {0}
  /\ WIDTH * HEIGHT <= BYTE * BYTE
  /\ MaxCalls \in Nat

VARIABLES
  screen,    \* the text buffer, row by row
  x, y,      \* where the driver puts the next character
  cursor,    \* the cursor registers, low and high byte
  text,      \* everything printed since initialize
  call,      \* printf: the message it was called for, and its progress
  calls      \* calls made

vars == <<screen, x, y, cursor, text, call, calls>>

Places == 0 .. WIDTH * HEIGHT - 1

(* A negative char sets the bits of the attribute: white on white.         *)
DEFAULT_ATTR == "white on black"

Cell(c) == [char |-> c, attr |-> IF c \in High THEN "white on white" ELSE DEFAULT_ATTR]

Blank == Cell(" ")

(***************************************************************************)
(* VGADriver.                                                              *)
(***************************************************************************)
Position(px, py) == (((py % BYTE) * WIDTH) + (px % BYTE)) % (BYTE * BYTE)

update_cursor(px, py) ==
  cursor' = [low |-> Position(px, py) % BYTE, high |-> Position(px, py) \div BYTE]

initialize ==
  /\ call.op = "off"
  /\ screen' = [i \in Places |-> Blank]
  /\ update_cursor(0, 0)
  /\ call' = [op |-> "idle"]
  /\ UNCHANGED <<x, y, text, calls>>

Placed(c) == IF c = "\n" THEN screen ELSE [screen EXCEPT ![y * WIDTH + x] = Cell(c)]

(* Mutant: the row ends one character late.                                *)
EndsRow_Late(c) == c = "\n" \/ x + 1 > WIDTH

EndsRow(c) == c = "\n" \/ x + 1 >= WIDTH

(* Mutant: the last row keeps what it shows.                               *)
Scrolled_KeepsLast(s) ==
  [i \in Places |-> IF i < (HEIGHT - 1) * WIDTH THEN s[i + WIDTH] ELSE s[i]]

Scrolled(s) == [i \in Places |-> IF i < (HEIGHT - 1) * WIDTH THEN s[i + WIDTH] ELSE Blank]

putchar(c) ==
  /\ x' = IF EndsRow(c) THEN 0 ELSE x + 1
  /\ IF EndsRow(c) /\ y + 1 >= HEIGHT
     THEN y' = HEIGHT - 1 /\ screen' = Scrolled(Placed(c))
     ELSE y' = (IF EndsRow(c) THEN y + 1 ELSE y) /\ screen' = Placed(c)
  /\ update_cursor(x', y')
  /\ text' = Append(text, c)

(***************************************************************************)
(* printf.                                                                 *)
(***************************************************************************)
DIGITS == <<"0", "1", "2", "3", "4", "5", "6", "7", "8", "9", "A", "B", "C", "D", "E", "F">>

(* Mutant: a while loop, which prints no digit of zero.                    *)
Digits_While(n, base) ==
  LET f[k \in 0 .. n] ==
        IF k = 0 THEN << >> ELSE Append(f[k \div base], DIGITS[(k % base) + 1])
  IN  f[n]

Digits(n, base) ==
  LET f[k \in 0 .. n] ==
        IF k < base THEN <<DIGITS[k + 1]>> ELSE Append(f[k \div base], DIGITS[(k % base) + 1])
  IN  f[n]

(* The smallest int has no negative; the build keeps its bits.             *)
Decimal(v) == (IF v < 0 THEN <<"-">> ELSE << >>) \o Digits((IF v < 0 THEN -v ELSE v) % WORD, 10)

(* A message is a sequence of pieces: a character of the format, or a      *)
(* conversion and its argument.                                            *)
Text(c) == [kind |-> "text", v |-> c]

Format(message) ==
  LET f[n \in 0 .. Len(message)] ==
        IF n = 0 THEN << >>
        ELSE f[n - 1] \o (IF message[n].kind = "text" THEN <<message[n].v>>
                          ELSE <<"%", message[n].kind>>)
  IN  f[Len(message)]

Arguments(message) ==
  LET f[n \in 0 .. Len(message)] ==
        IF n = 0 THEN << >>
        ELSE IF message[n].kind = "text" THEN f[n - 1] ELSE Append(f[n - 1], message[n].v)
  IN  f[Len(message)]

Known == {"s", "d", "x", "c"}

IsString(s) == s \in Seq({s[i] : i \in DOMAIN s})

(* What the callers pass: a "%" only where a format ends, arguments of the *)
(* kinds their conversions take, and behind a conversion that printf does  *)
(* not know, which takes no argument, none that takes one.                 *)
ASSUME MessagesAssumption ==
  \A message \in Messages :
    /\ IsString(message)
    /\ \A i \in DOMAIN message :
         LET piece == message[i]
         IN  /\ piece.kind = "text" /\ piece.v = "%" => i = Len(message)
             /\ piece.kind = "s" => IsString(piece.v)
             /\ piece.kind = "d" => piece.v \in -(WORD \div 2) .. (WORD \div 2) - 1
             /\ piece.kind = "x" => piece.v \in 0 .. WORD - 1
             /\ piece.kind \notin Known \cup {"text"} =>
                  \A j \in i + 1 .. Len(message) : message[j].kind \notin Known

Call ==
  /\ call.op = "idle" /\ calls < MaxCalls
  /\ \E message \in Messages :
       call' = [op |-> "format", message |-> message, fmt |-> Format(message),
                args |-> Arguments(message), out |-> << >>, said |-> << >>]
  /\ calls' = calls + 1
  /\ UNCHANGED <<screen, x, y, cursor, text>>

(* What the conversion c prints of its argument.                           *)
Converted(c, arg) ==
  CASE c = "s" -> arg
    [] c = "d" -> Decimal(arg)
    [] c = "x" -> Digits(arg, 16)
    [] c = "c" -> <<arg>>

(* A conversion that printf does not know takes no argument.               *)
Conversion ==
  /\ call.op = "format" /\ Len(call.fmt) > 1 /\ Head(call.fmt) = "%"
  /\ LET c == call.fmt[2]
         known == c \in Known
     IN  call' = [call EXCEPT
                    !.op = "print", !.fmt = SubSeq(@, 3, Len(@)),
                    !.args = IF known THEN Tail(@) ELSE @,
                    !.out = IF known THEN Converted(c, Head(call.args)) ELSE <<"%", c>>,
                    !.said = Append(@, << >>)]
  /\ UNCHANGED <<screen, x, y, cursor, text, calls>>

Plain ==
  /\ call.op = "format" /\ call.fmt # << >>
  /\ Head(call.fmt) # "%" \/ Len(call.fmt) = 1
  /\ putchar(Head(call.fmt))
  /\ call' = [call EXCEPT !.fmt = Tail(@), !.said = Append(@, <<Head(call.fmt)>>)]
  /\ UNCHANGED calls

Emit ==
  /\ call.op = "print"
  /\ IF call.out = << >>
     THEN call' = [call EXCEPT !.op = "format"] /\ UNCHANGED <<screen, x, y, cursor, text>>
     ELSE /\ putchar(Head(call.out))
          /\ call' = [call EXCEPT !.out = Tail(@),
                                  !.said[Len(call.said)] = Append(@, Head(call.out))]
  /\ UNCHANGED calls

Return ==
  /\ call.op = "format" /\ call.fmt = << >>
  /\ call' = [op |-> "idle", message |-> call.message, said |-> call.said]
  /\ UNCHANGED <<screen, x, y, cursor, text, calls>>

(* The driver starts in a cleared .bss, on the screen the BIOS left.       *)
Init ==
  /\ screen = [i \in Places |-> [char |-> "B", attr |-> "grey on black"]]
  /\ x = 0 /\ y = 0
  /\ cursor = [low |-> 0, high |-> 0]
  /\ text = << >>
  /\ call = [op |-> "off"] /\ calls = 0

Next == initialize \/ Call \/ Conversion \/ Plain \/ Emit \/ Return

Spec == Init /\ [][Next]_vars

(***************************************************************************)
(* Properties.                                                             *)
(***************************************************************************)
(* The driver's position is on the screen, so that no character is written *)
(* behind the text buffer.                                                 *)
TypeOK ==
  /\ x \in 0 .. WIDTH - 1 /\ y \in 0 .. HEIGHT - 1
  /\ DOMAIN screen = Places
  /\ cursor \in [low : 0 .. BYTE - 1, high : 0 .. BYTE - 1]
  /\ call.op \in {"off", "idle", "format", "print"}

(* The rows of a text on paper: a new one after a newline and after a full *)
(* row.                                                                    *)
Rows(t) ==
  LET f[n \in 0 .. Len(t)] ==
        IF n = 0 THEN << << >> >>
        ELSE LET rows == f[n - 1]
                 last == Len(rows)
             IN  IF t[n] = "\n" THEN Append(rows, << >>)
                 ELSE LET longer == [rows EXCEPT ![last] = Append(@, t[n])]
                      IN  IF Len(longer[last]) = WIDTH THEN Append(longer, << >>) ELSE longer
  IN  f[Len(t)]

(* The screen shows the last rows of what was printed, in ASCII white on   *)
(* black and nothing else, whatever was scrolled away; the cursor stands   *)
(* behind the last character.                                              *)
ShowsTheText ==
  call.op # "off" =>
    LET rows  == Rows(text)
        first == IF Len(rows) > HEIGHT THEN Len(rows) - HEIGHT ELSE 0
        char(r, c) == IF first + r <= Len(rows) /\ c <= Len(rows[first + r])
                      THEN rows[first + r][c] ELSE " "
    IN  /\ \A r \in 1 .. HEIGHT : \A c \in 1 .. WIDTH :
             LET cell == screen[((r - 1) * WIDTH) + c - 1]
             IN  cell.char = char(r, c) /\ (cell.char \notin High => cell.attr = DEFAULT_ATTR)
        /\ cursor.high * BYTE + cursor.low =
             ((Len(rows) - first - 1) * WIDTH) + Len(rows[Len(rows)])

(* The number a numeral stands for.                                        *)
ValueOf(s, base) ==
  LET digit(c) == (CHOOSE d \in DOMAIN DIGITS : DIGITS[d] = c) - 1
      f[n \in 0 .. Len(s)] == IF n = 0 THEN 0 ELSE (f[n - 1] * base) + digit(s[n])
  IN  f[Len(s)]

(* s is the number v as one writes it: its value, no zeros in front.       *)
Numeral(s, v, base) ==
  /\ Len(s) > 0 /\ (Len(s) > 1 => s[1] # "0")
  /\ \A i \in DOMAIN s : \E d \in 1 .. base : s[i] = DIGITS[d]
  /\ ValueOf(s, base) = v

Says(piece, said) ==
  CASE piece.kind = "text" -> said = <<piece.v>>
    [] piece.kind = "s" -> said = piece.v
    [] piece.kind = "c" -> said = <<piece.v>>
    [] piece.kind = "x" -> Numeral(said, piece.v, 16)
    [] piece.kind = "d" /\ piece.v >= 0 -> Numeral(said, piece.v, 10)
    [] piece.kind = "d" /\ piece.v < 0 -> /\ said # << >> /\ Head(said) = "-"
                                          /\ Numeral(Tail(said), -piece.v, 10)
    [] OTHER -> said = <<"%", piece.kind>>

(* A call prints what it was asked to: each piece in its place, each       *)
(* number, zero and the smallest one too, as the numeral that reads back   *)
(* as it; but for the conversions it does not know, which it repeats.      *)
PrintsTheMessage ==
  call.op = "idle" /\ "message" \in DOMAIN call =>
    /\ Len(call.said) = Len(call.message)
    /\ \A i \in DOMAIN call.message : Says(call.message[i], call.said[i])
=============================================================================
