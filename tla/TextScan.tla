------------------------------ MODULE TextScan ------------------------------
(***************************************************************************)
(* Decimal text of ints as the C library reads and writes it: "%d" output  *)
(* and the %d conversion of sscanf, which strtol/stoi share (white space,  *)
(* an optional sign, then the longest run of digits; the rest of the      *)
(* string is left unread).  Text is a sequence of one-character strings;   *)
(* int is IntBits wide.                                                    *)
(***************************************************************************)
EXTENDS Integers, Sequences, SequencesExt

CONSTANT IntBits    \* width of int

ASSUME IntBits \in Nat \ {0}

IntMin == -(2^(IntBits - 1))
IntMax == 2^(IntBits - 1) - 1

\* x fits in an int.
InRange(x) == IntMin <= x /\ x <= IntMax

DigitChars == <<"0", "1", "2", "3", "4", "5", "6", "7", "8", "9">>
IsDigit(c) == c \in ToSet(DigitChars)
DigitValue(c) == CHOOSE d \in 0..9 : DigitChars[d + 1] = c

RECURSIVE Digits(_)
Digits(n) == IF n < 10 THEN <<DigitChars[n + 1]>>
             ELSE Digits(n \div 10) \o <<DigitChars[(n % 10) + 1]>>

\* ML::format("%d", n).
PrintInt(n) == IF n < 0 THEN <<"-">> \o Digits(-n) ELSE Digits(n)

\* isspace in the C locale: space, \t, \n, \r, \f and the vertical tab,
\* which TLA+ strings have no escape for and is written "VT" here.
WhiteSpace == {" ", "\t", "\n", "\r", "\f", "VT"}

RECURSIVE SkipSpaces(_, _)
SkipSpaces(s, i) == IF i <= Len(s) /\ s[i] \in WhiteSpace THEN SkipSpaces(s, i + 1) ELSE i

RECURSIVE DigitRun(_, _, _)
DigitRun(s, i, acc) ==
    IF i <= Len(s) /\ IsDigit(s[i]) THEN DigitRun(s, i + 1, acc * 10 + DigitValue(s[i]))
    ELSE [val |-> acc, next |-> i]

\* The result of %d once the digits after the optional sign at k are read.
Signed(neg, k, run) ==
    [ok |-> run.next > k, val |-> IF neg THEN -run.val ELSE run.val, next |-> run.next]

\* %d from the first non-white-space character j: an optional sign, then
\* at least one digit.
ScanSigned(s, j) ==
    LET k == IF j <= Len(s) /\ s[j] \in {"+", "-"} THEN j + 1 ELSE j
    IN Signed(j <= Len(s) /\ s[j] = "-", k, DigitRun(s, k, 0))

\* One %d conversion from position i: leading white space skipped.
ScanInt(s, i) == ScanSigned(s, SkipSpaces(s, i))

=============================================================================
