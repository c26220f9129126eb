---------------------------- MODULE SerialString ----------------------------
(***************************************************************************)
(* neoRADIO2SerialToString: a serial number in six characters, the digits  *)
(* of base 36.  Six of them have room for 36^6 numbers, a uint32_t has     *)
(* more.                                                                   *)
(***************************************************************************)
EXTENDS Integers

Count == 36 * 36 * 36 * 36 * 36 * 36

VARIABLES
  number,    (* the serial number given; a uint32_t, but no width matters    *)
  serial,    (* what is left of it                                           *)
  place,     (* the next character                                           *)
  string

vars == <<number, serial, place, string>>

Blank == 32
Character(digit) ==
  IF digit <= 9 THEN digit + 48 ELSE IF digit <= 35 THEN digit + 55 ELSE Blank

SerialInit ==
  /\ number \in Nat /\ serial = number
  /\ place = 5 /\ string = [k \in 0 .. 5 |-> Blank]

Step ==
  /\ place >= 0 /\ place' = place - 1
  /\ string' = [string EXCEPT ![place] = Character(serial % 36)]
  /\ serial' = serial \div 36
  /\ UNCHANGED number

SerialSpec == SerialInit /\ [][Step]_vars

\* The digit a character stands for.
Digits == 48 .. 57
Letters == 65 .. 90
Digit(c) == IF c \in Digits THEN c - 48 ELSE c - 55

Weight(k) ==
  IF k = 5 THEN 1 ELSE IF k = 4 THEN 36 ELSE IF k = 3 THEN 36 * 36
  ELSE IF k = 2 THEN 36 * 36 * 36 ELSE IF k = 1 THEN 36 * 36 * 36 * 36
  ELSE IF k = 0 THEN 36 * 36 * 36 * 36 * 36 ELSE Count
Part(k) == IF k > place THEN Weight(k) * Digit(string[k]) ELSE 0
Value == Part(0) + Part(1) + Part(2) + Part(3) + Part(4) + Part(5)

\* The string consists of digits and capital letters, no blank among them, and
\* stands for the serial number, or for what is left of it modulo 36^6: strings of
\* serial numbers below 36^6 differ, and one above has the string of another
\* (neoRAD-IO2.c:213-227).
StringIsNumber ==
  place = -1 =>
    /\ \A k \in 0 .. 5 : string[k] \in Digits \cup Letters
    /\ Value = number % Count
=============================================================================
