------------------------------ MODULE Kprintf ------------------------------
(***************************************************************************)
(* What kprintf makes of a format and its arguments (kprintf.cpp, with     *)
(* strlen of kstring.cpp): the characters it calls putc with, in order.    *)
(* Characters are their ASCII codes, and a string is the sequence of its   *)
(* characters without the zero at its end.  A format is a sequence of      *)
(* items: text, or a conversion with its argument in arg[1].               *)
(***************************************************************************)
EXTENDS Integers, Sequences
LOCAL INSTANCE SequencesExt

CONSTANT Nibbles  \* hexadecimal digits in a machine word, 8 in the kernel

ASSUME KprintfAssumption == Nibbles \in Nat \ {0}

(* base to the power n. *)
Power(base, n) ==
  LET power[i \in Nat] == IF i = 0 THEN 1 ELSE base * power[i - 1] IN power[n]

Chars == 0..127
Words == 0..(Power(16, Nibbles) - 1)
LeastInt == -(Power(16, Nibbles) \div 2)
Ints == LeastInt..(-LeastInt - 1)

(* The items of a format, with arguments of the types they are for. *)
Items ==
  [kind : {"%"}, arg : {<< >>}] \cup [kind : {"d"}, arg : [1..1 -> Ints]] \cup
  [kind : {"x"}, arg : [1..1 -> Words]] \cup [kind : {"c", "s", "text"}, arg : Seq(Chars)]

(* Quotient and remainder of C: the quotient is rounded towards zero.      *)
Quot(a, b) == IF a >= 0 THEN a \div b ELSE -((-a) \div b)
Rem(a, b) == a - b * Quot(a, b)

digits(d) == IF d < 10 THEN 48 + d ELSE 87 + d

(***************************************************************************)
(* %x: as many zeros as the number has leading nibbles that are zero, then *)
(* the others; the number zero has one nibble.                             *)
(***************************************************************************)
kprintf_internal_hex(number) ==
  LET used == CHOOSE n \in 1..Nibbles :
                number < Power(16, n) /\ (n = 1 \/ number >= Power(16, n - 1))
  IN  [i \in 1..(Nibbles - used) |-> digits(0)] \o
      [i \in 1..used |-> digits((number \div Power(16, used - i)) % 16)]

(* -number, which for the least integer is the least integer again.        *)
Negated(number) == IF number = LeastInt THEN LeastInt ELSE -number

(* memset(buff, 0, 512), with room for as many digits as there can be. *)
Cleared == [i \in 1..(4 * Nibbles) |-> 0]

(* The characters before the first zero. *)
strlen(str) == CHOOSE n \in 0..Len(str) :
  (\A i \in 1..n : str[i] # 0) /\ (n < Len(str) => str[n + 1] = 0)

(* buff, as the loop fills it from the front, at least one digit. *)
Buff(number) ==
  LET left[i \in 1..Len(Cleared)] == IF i = 1 THEN number ELSE Quot(left[i - 1], 10)
  IN  [i \in 1..Len(Cleared) |->
         IF i = 1 \/ left[i] # 0 THEN 48 + Rem(left[i], 10) ELSE Cleared[i]]

(* %d: a sign, and the characters of buff from the last to the first. *)
kprintf_internal_number(number) ==
  LET buff == Buff(IF number < 0 THEN Negated(number) ELSE number)
      written == Reverse(SubSeq(buff, 1, strlen(buff)))
  IN  IF number < 0 THEN <<45>> \o written ELSE written

(* One item of the format: %% , %d, %x; %c, %s and text are taken over.    *)
Printed(item) ==
  CASE item.kind = "%" -> <<37>>
    [] item.kind = "d" -> kprintf_internal_number(item.arg[1])
    [] item.kind = "x" -> kprintf_internal_hex(item.arg[1])
    [] item.kind \in {"c", "s", "text"} -> item.arg

kprintf_internal(fmt) == FlattenSeq([i \in DOMAIN fmt |-> Printed(fmt[i])])

-----------------------------------------------------------------------------
(***************************************************************************)
(* What a reader expects to see, for the properties: the decimal numeral   *)
(* without leading zeros, and the word in all its hexadecimal digits.      *)
(***************************************************************************)
Numeral(n, base, length) == [i \in 1..length |-> digits((n \div Power(base, length - i)) % base)]

Length(n, base) == CHOOSE k \in 1..(4 * Nibbles) :
  n < Power(base, k) /\ \A j \in 1..(k - 1) : Power(base, j) <= n

Meant(item) ==
  CASE item.kind = "%" -> <<37>>
    [] item.kind = "d" ->
         LET n == item.arg[1]
             size == IF n < 0 THEN -n ELSE n
         IN  (IF n < 0 THEN <<45>> ELSE << >>) \o Numeral(size, 10, Length(size, 10))
    [] item.kind = "x" -> Numeral(item.arg[1], 16, Nibbles)
    [] item.kind \in {"c", "s", "text"} -> item.arg
=============================================================================
