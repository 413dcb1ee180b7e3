------------------------------ MODULE Numbers -------------------------------
(***************************************************************************)
(* Numbers and their texts: ltoa, ultoa, itoa and strtol of                *)
(* kernel/utils/stdlib.c and try_parse_number of vm/core/forth.c.          *)
(*                                                                         *)
(* A text is its prefix, its sign ("none" for neither) and the values of   *)
(* its digits, 0 to 35.                                                    *)
(* (A digit that is a letter is printed small and read in either case.)    *)
(***************************************************************************)
EXTENDS ForthStack, SequencesExt

Bases == {10, 16}       \* what DECIMAL and HEX set

Text(prefix, sign, digits) == [prefix |-> prefix, sign |-> sign, digits |-> digits]

\* The digits of n, from the remainders of repeated divisions, reversed.
DigitsOf(n, base) ==
    LET D[m \in 0 .. n] == IF m < base THEN <<m>> ELSE Append(D[m \div base], m % base)
    IN  D[n]

MutSigned(v, base, bits) ==         \* mutant: the sign is lost in any base but 10
    IF v < 0
    THEN Text("none", IF base = 10 THEN "-" ELSE "none", DigitsOf((-v) % TwoTo(bits), base))
    ELSE Text("none", "none", DigitsOf(v % TwoTo(bits), base))

\* A minus sign in base 10 only; otherwise the bits as an unsigned number.
Signed(v, base, bits) ==
    IF v < 0 /\ base = 10 THEN Text("none", "-", DigitsOf((-v) % TwoTo(bits), base))
    ELSE Text("none", "none", DigitsOf(v % TwoTo(bits), base))

Unsigned(v, base, bits) == Text("none", "none", DigitsOf(v % TwoTo(bits), base))

IntWidth == Width \div 2            \* bits of a C int
Ints     == -TwoTo(IntWidth - 1) .. TwoTo(IntWidth - 1) - 1

ltoa(v, base)  == Signed(v, base, Width)
ultoa(v, base) == Unsigned(v, base, Width)
itoa(v, base)  == Signed(v, base, IntWidth)
utoa(v, base)  == Unsigned(v, base, IntWidth)

\* What digits stand for; the result wraps.
Horner(digits, base) ==
    LET Result[i \in 0 .. Len(digits)] ==
          IF i = 0 THEN 0 ELSE Wrap(Result[i - 1] * base + digits[i])
    IN  Result[Len(digits)]

\* Digits are read until one is too large for the base.
strtol(sign, digits, base) ==
    LET stop == {i \in DOMAIN digits : digits[i] >= base}
        read == IF stop = {} THEN digits ELSE SubSeq(digits, 1, Min(stop) - 1)
        result == Horner(read, base)
    IN  [value |-> IF sign = "-" THEN Wrap(-result) ELSE result,
         rest  |-> Len(digits) - Len(read)]

\* A prefix overrides the base, and everything must have been read: a sign
\* alone is the number 0.
PrefixBase(t, base) ==
    CASE t.prefix \in {"0x", "$"} -> 16
      [] t.prefix = "#" -> 10
      [] t.prefix = "%" -> 2
      [] OTHER -> base
try_parse_number(t, base) ==
    LET n == strtol(t.sign, t.digits, PrefixBase(t, base))
    IN  [ok    |-> n.rest = 0 /\ (t.sign # "none" \/ t.digits # <<>>),
         value |-> n.value]

\* The text t, read in a base, is the number v.
Same(t, base, v) == try_parse_number(t, base) = [ok |-> TRUE, value |-> v]

=============================================================================
