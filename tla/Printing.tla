------------------------------- MODULE Printing -------------------------------
(***************************************************************************)
(* The two small printf functions of the library: alt_printf               *)
(* (alt_printf.c) and alt_log_private_printf (alt_log_printf.c), and the   *)
(* buffer of alt_putcharbuf.c.  A format is a sequence of items, a literal *)
(* character or a conversion; what is printed is a sequence in which a     *)
(* digit is its value and every other character a negative number.         *)
(***************************************************************************)
EXTENDS Integers, Sequences, SequencesExt

CONSTANTS WordSize,    \* the number of values of a machine word
          HexDigits,   \* hexadecimal digits of a word: eight
          BufferSize   \* ALT_PUTBUF_SIZE
PowerOf16[n \in Nat] == IF n = 0 THEN 1 ELSE 16 * PowerOf16[n - 1]
ASSUME PrintingAssumption ==
  /\ HexDigits \in Nat \ {0} /\ WordSize = PowerOf16[HexDigits]
  /\ BufferSize \in Nat \ {0}

Minus == -1
Blank == -2
Percent == -3

Literal(c) == [kind |-> "literal", char |-> c]
Conversion(letter, zero, width) ==
  [kind |-> "conversion", letter |-> letter, zero |-> zero, width |-> width]

-----------------------------------------------------------------------------
(* alt_printf: the conversions %c, %s, %x and %%; others are skipped, and with
   them no argument is taken. *)

\* What is left of m when it is divided n times, and the digit of a place.
Quotient(m, b) ==
  LET quotient[n \in Nat] == IF n = 0 THEN m ELSE quotient[n - 1] \div b IN quotient
Digit(m, b, place) == Quotient(m, b)[place] % b

\* From the first digit that is not zero.
Hex(v) ==
  IF v = 0 THEN <<0>>
  ELSE LET first == CHOOSE p \in 0..(HexDigits - 1) :
                      Digit(v, 16, p) # 0 /\ \A q \in (p + 1)..(HexDigits - 1) : Digit(v, 16, q) = 0
       IN  [i \in 1..(first + 1) |-> Digit(v, 16, (first + 1) - i)]

Converted(letter, arg) ==
  CASE letter = "x" -> Hex(arg)
    [] letter = "c" -> <<arg>>
    [] letter = "s" -> arg
    [] OTHER -> <<>>

\* The text of an item, and the arguments it leaves.
Printed(item, args) ==
  IF item.kind = "literal" THEN <<item.char>>
  ELSE IF item.letter = "%" THEN <<Percent>>
  ELSE IF item.letter \in {"x", "c", "s"} THEN Converted(item.letter, Head(args))
  ELSE <<>>
Left(item, args) ==
  IF item.kind = "conversion" /\ item.letter \in {"x", "c", "s"} THEN Tail(args) ELSE args

alt_printf(format, args) ==
  LET done[n \in 0..Len(format)] ==
        IF n = 0 THEN [text |-> <<>>, args |-> args]
        ELSE [text |-> done[n - 1].text \o Printed(format[n], done[n - 1].args),
              args |-> Left(format[n], done[n - 1].args)]
  IN  done[Len(format)].text

\* Under semihosting the characters are collected and written in pieces: when the
\* buffer is full, and at the end of alt_printf.
alt_putbufflush(b) == [buf |-> <<>>, pieces |-> Append(b.pieces, b.buf)]
alt_putcharbuf(b, c) ==
  LET more == [b EXCEPT !.buf = Append(@, c)]
  IN  IF Len(more.buf) >= BufferSize THEN alt_putbufflush(more) ELSE more
Pieces(text) ==
  LET after[n \in 0..Len(text)] ==
        IF n = 0 THEN [buf |-> <<>>, pieces |-> <<>>] ELSE alt_putcharbuf(after[n - 1], text[n])
  IN  alt_putbufflush(after[Len(text)]).pieces

-----------------------------------------------------------------------------
(* alt_log_private_printf: %d %i %u %o %x %X with a width and leading zeros, %c
   and %s with a width. *)

Repeated(c, count) == [i \in 1..(IF count > 0 THEN count ELSE 0) |-> c]

IsSigned(letter) == letter \in {"d", "i"}
NumberBase(letter) == CASE letter = "o" -> 8 [] letter \in {"x", "X"} -> 16 [] OTHER -> 10

Negative(letter, v) == IsSigned(letter) /\ v >= WordSize \div 2
Magnitude(letter, v) == IF Negative(letter, v) THEN (WordSize - v) % WordSize ELSE v

DigitCount(m, b) ==
  CHOOSE k \in 1..(m + 1) : Quotient(m, b)[k] = 0 /\ (k > 1 => Quotient(m, b)[k - 1] # 0)
DigitsOf(m, b) ==
  LET k == DigitCount(m, b) IN [i \in 1..k |-> Digit(m, b, k - i)]

\* Mutant of Number: the minus sign is not counted in the width.
Number_SignAside(letter, zero, width, v) ==
  LET digits == DigitsOf(Magnitude(letter, v), NumberBase(letter))
      sign == IF Negative(letter, v) THEN <<Minus>> ELSE <<>>
      fill == Repeated(IF zero THEN 0 ELSE Blank, width - Len(digits))
  IN  IF zero THEN sign \o fill \o digits ELSE fill \o sign \o digits
\* Zeros come after the sign, blanks before it; the sign counts for the width.
Number(letter, zero, width, v) ==
  LET digits == DigitsOf(Magnitude(letter, v), NumberBase(letter))
      sign == IF Negative(letter, v) THEN <<Minus>> ELSE <<>>
      fill == Repeated(IF zero THEN 0 ELSE Blank, width - Len(digits) - Len(sign))
  IN  IF zero THEN sign \o fill \o digits ELSE fill \o sign \o digits

alt_log_private_printf(letter, zero, width, arg) ==
  CASE letter \in {"d", "i", "u", "o", "x", "X"} -> Number(letter, zero, width, arg)
    [] letter = "c" -> Repeated(Blank, width - 1) \o <<arg>>
    [] letter = "s" -> Repeated(Blank, width - Len(arg)) \o arg
    [] letter = "%" -> <<Percent>>
    [] OTHER -> <<>>

\* alt_log_write: the echo of what is written, whose last character gives way to a
\* line end and in which Ctrl-D becomes D.
EchoLength(text, echo_len) == IF echo_len > Len(text) THEN Len(text) ELSE echo_len
alt_log_write(text, echo_len) ==
  LET length == EchoLength(text, echo_len) IN
  IF length < 2 THEN <<>>
  ELSE [i \in 1..(length - 1) |-> IF text[i] = "^D" THEN "D" ELSE text[i]] \o <<"\n", "\r">>

-----------------------------------------------------------------------------
\* The number that digits spell, and the digits at the end of a text.
Value(digits, b) ==
  LET value[n \in 0..Len(digits)] == IF n = 0 THEN 0 ELSE b * value[n - 1] + digits[n]
  IN  value[Len(digits)]
DigitsFrom(text, i) == \A j \in i..Len(text) : text[j] \in 0..15
Digits(text) ==
  LET start == CHOOSE i \in 1..(Len(text) + 1) :
                 DigitsFrom(text, i) /\ \A h \in 1..(i - 1) : ~DigitsFrom(text, h)
  IN  SubSeq(text, start, Len(text))
Framed(v) == alt_printf(<<Literal(Minus), Conversion("x", FALSE, 0), Conversion("%", FALSE, 0),
                          Conversion("q", FALSE, 0), Literal(Blank)>>, <<v>>)

\* A number can be read back from what either function prints of it, whatever its
\* sign bit and the width; no zero precedes it that is not asked for, and a text is
\* filled up to the width and never cut; the buffer of semihosting passes all of it on
\* in order (alt_printf.c 84-113, alt_log_printf.c 208-297, alt_putcharbuf.c 42-79).
ReadsBack(v, width) ==
  /\ LET hex == SubSeq(Framed(v), 2, Len(Framed(v)) - 2) IN
     /\ Value(hex, 16) = v
     /\ hex[1] = 0 => v = 0
     /\ FlattenSeq(Pieces(Framed(v))) = Framed(v)
  /\ \A letter \in {"d", "u", "o", "x"}, zero \in BOOLEAN :
       LET text == alt_log_private_printf(letter, zero, width, v)
           m == Value(Digits(text), NumberBase(letter))
       IN  /\ v = (IF Contains(text, Minus) THEN WordSize - m ELSE m) % WordSize
           /\ Contains(text, Minus) => IsSigned(letter) /\ m <= WordSize \div 2
           /\ Len(text) >= width
           /\ Len(text) > width =>
                /\ ~Contains(text, Blank)
                /\ Digits(text)[1] = 0 => v = 0
=============================================================================
