------------------------------- MODULE RowText -------------------------------
(***************************************************************************)
(* The rows of a measurements file as bytes, and how the programs read a   *)
(* temperature from them.  A byte stands for its distance from '0', which  *)
(* is what the programs calculate with: a digit is its value, the others   *)
(* are given by name.  Positions count from 0.                             *)
(***************************************************************************)
EXTENDS Integers, SequencesExt

Zero == -48         \* the byte 0
Newline == -38
Minus == -3
Dot == -2
Semicolon == 11

(***************************************************************************)
(* The rows of the data set.  A name may have any bytes but the three that *)
(* the programs look for.                                                  *)
(***************************************************************************)
NameByte == Int \ {Zero, Newline, Semicolon}

Measured == [name : Seq(NameByte), tenths : -999 .. 999]

(***************************************************************************)
(* The text of a row [name |-> ..., tenths |-> ...] in the data set: one   *)
(* or two digits, a dot and one digit, with a sign where it is negative.   *)
(***************************************************************************)
Magnitude(n) == IF n < 0 THEN -n ELSE n

Decimal(tenths) ==
  LET n == Magnitude(tenths) IN
  (IF tenths < 0 THEN <<Minus>> ELSE <<>>)
    \o (IF n >= 100 THEN <<n \div 100>> ELSE <<>>)
    \o <<(n \div 10) % 10, Dot, n % 10>>

Text(row) == row.name \o <<Semicolon>> \o Decimal(row.tenths) \o <<Newline>>

TextOf(rows) == FlattenSeq([i \in 1 .. Len(rows) |-> Text(rows[i])])

(***************************************************************************)
(* customFloatParse of C++ and its copies in Go, Java, C# and Rust: the    *)
(* number, in tenths, that starts at position i of the bytes b.            *)
(***************************************************************************)
SignIgnored(b, i) ==                    \* mutant
  LET k == IF b[i] = Minus THEN i + 1 ELSE i IN
  IF b[k + 1] = Dot THEN 10 * b[k] + b[k + 2]
  ELSE 100 * b[k] + 10 * b[k + 1] + b[k + 3]

customFloatParse(b, i) ==
  LET negative == b[i] = Minus
      first == IF negative THEN i + 1 ELSE i
      oneDigit == b[first + 1] = Dot
      last == IF oneDigit THEN first + 2 ELSE first + 3
      result == IF oneDigit THEN 10 * b[first] + b[last]
                ELSE 100 * b[first] + 10 * b[first + 1] + b[last]
  IN IF negative THEN - result ELSE result

(***************************************************************************)
(* Whether the first byte t of b at or after i is at q.                    *)
(***************************************************************************)
FirstAt(b, i, t, q) ==
  q \in DOMAIN b /\ i <= q /\ b[q] = t /\ \A k \in i .. q - 1 : b[k] # t

Between(b, i, j) == [k \in 1 .. j - i |-> b[i + k - 1]]     \* bytes i to j - 1
=============================================================================
