------------------------------- MODULE Sysout -------------------------------
(***************************************************************************)
(* custom-printf/sysout.c: one call of sysout, with the arguments its      *)
(* format asks for.  A character is its code; an int has a few bits.       *)
(***************************************************************************)
EXTENDS Integers, Sequences

CONSTANTS
  Formats,       (* sequences of codes                                     *)
  Strings,       (* what is given for %s                                   *)
  Chars,         (* what is given for %c                                   *)
  MaxInt         (* INT_MAX; the least int is -MaxInt - 1                  *)

VARIABLES
  format,        (* what s points at                                       *)
  out,           (* what was written                                       *)
  meant,         (* history: the text the format and the arguments stand   *)
                 (* for                                                    *)
  out_status     (* "running"; "undefined" after -INT_MIN, or after a      *)
                 (* format was read beyond its end                         *)

outVars == <<format, out, meant, out_status>>

MinInt == -MaxInt - 1
Percent == 37
Space == 32
Minus == 45
Zero == 48

Init ==
  /\ format \in Formats
  /\ out = <<>> /\ meant = <<>>
  /\ out_status = "running"

-----------------------------------------------------------------------------
(* C rounds a quotient towards zero.                                       *)
Quotient(n) == IF n < 0 THEN -((-n) \div 10) ELSE n \div 10
Remainder(n) == n - 10 * Quotient(n)

(* buf from its last character to its first.                               *)
Digits[n \in MinInt .. MaxInt] ==
  IF n = 0 THEN <<>> ELSE Append(Digits[Quotient(n)], Zero + Remainder(n))

Negated(n) == IF n = MinInt THEN MinInt ELSE -n

(* Faulty variant: no special case for 0.                                  *)
print_int_digits(n) ==
  IF n < 0 THEN <<Minus>> \o Digits[Negated(n)] ELSE Digits[n]
print_int(n) ==
  CASE n = 0 -> <<Zero>>
    [] n > 0 -> Digits[n]
    [] n < 0 -> <<Minus>> \o Digits[Negated(n)]

(* What a number looks like: its digits from the highest place on.         *)
Decimal(n) ==
  LET m == IF n < 0 THEN -n ELSE n
      places == CHOOSE k \in 1 .. 10 : m < 10^k /\ (k = 1 \/ m >= 10^(k - 1))
      text == [k \in 1 .. places |-> Zero + ((m \div 10^(places - k)) % 10)]
  IN  IF n < 0 THEN <<Minus>> \o text ELSE text

Writes(length, text, intended, status) ==
  /\ out_status = "running"
  /\ format' = SubSeq(format, length + 1, Len(format))
  /\ out' = out \o text
  /\ meant' = meant \o intended
  /\ out_status' = status

Plain ==
  /\ format # <<>> /\ format[1] # Percent
  /\ Writes(1, <<format[1]>>, <<format[1]>>, "running")

Letter(c) == Len(format) > 1 /\ format[1] = Percent /\ format[2] = c

ConvertC == Letter(99) /\ \E c \in Chars : Writes(2, <<c>>, <<c>>, "running")

ConvertS == Letter(115) /\ \E s \in Strings : Writes(2, s, s, "running")

ConvertD ==
  /\ Letter(100)
  /\ \E n \in MinInt .. MaxInt :
       Writes(2, print_int(n), Decimal(n), IF n = MinInt THEN "undefined" ELSE "running")

(* Any other letter gives a space, and so does the end of the format,      *)
(* which is passed over.                                                   *)
ConvertOther ==
  /\ Len(format) > 1 /\ format[1] = Percent /\ format[2] \notin {99, 100, 115}
  /\ Writes(2, <<Space>>, <<Space>>, "running")

PercentAtEnd ==
  /\ format = <<Percent>>
  /\ Writes(1, <<Space>>, <<>>, "undefined")

Next == Plain \/ ConvertC \/ ConvertS \/ ConvertD \/ ConvertOther \/ PercentAtEnd

-----------------------------------------------------------------------------
(* What is written is the format with its arguments put in: each int is in *)
(* decimal without leading zeros, 0 and the negative ones included.  Not   *)
(* claimed once the least int or a % at the end has been met.              *)
SysoutPrints == out_status = "running" => out = meant
=============================================================================
