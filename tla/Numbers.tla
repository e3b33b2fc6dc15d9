------------------------------ MODULE Numbers ------------------------------
(***************************************************************************)
(* Arithmetic the library does by hand: the 64-bit division of             *)
(* utils/builtins.cpp, which the compiler calls on the 32-bit target, and  *)
(* the printing of decimal numbers in utils/print.cpp.  One step is one    *)
(* turn of a loop.  Width stands for 64 (division) and 32 (printing).      *)
(***************************************************************************)
EXTENDS Integers, Sequences, FiniteSetsExt

CONSTANT Width

ASSUME WidthAssumption == Width \in Nat /\ Width > 3

VARIABLE calc

Word == 0 .. (2 ^ Width - 1)

shl(x, k) == (x * 2 ^ k) % 2 ^ Width
shr(x, k) == x \div 2 ^ k

Idle == [op |-> "none"]

-----------------------------------------------------------------------------
\* Division.  calc.n and calc.r are the registers, calc.num the dividend.

clz(x) == Width - 1 - Max({k \in 0 .. Width - 1 : 2 ^ k <= x})

\* The shift count before the loop, an unsigned number: the quotient has at
\* most sr + 1 bits; huge when n < d.
ShiftCount(n, d) ==
  (clz(d) - (IF n = 0 THEN Width ELSE clz(n))) % 2 ^ Width

\* What __udivdi3 and __umoddi3 share up to the loop.  n is the quotient and r
\* the remainder of what is done at once.
DivisionStart(n, d) ==
  LET sr == ShiftCount(n, d)
  IN  IF sr > Width - 1 THEN [op |-> "done", num |-> n, d |-> d, n |-> 0, r |-> n]
      ELSE IF sr = Width - 1
           THEN [op |-> "done", num |-> n, d |-> d, n |-> n, r |-> 0]
           ELSE [op |-> "divide", num |-> n, d |-> d, sr |-> sr + 1, carry |-> 0,
                 r |-> shr(n, sr + 1), n |-> shl(n, Width - (sr + 1))]

\* Mutant: s is computed from d - r.
SubtractsLate(d, r) == shr((d - r) % 2 ^ Width, Width - 1) = 1

\* The mask s of the loop: all ones exactly if the sign bit of d - r - 1 is set.
Subtracts(d, r) == shr((d - r - 1) % 2 ^ Width, Width - 1) = 1

\* One turn of the loop.
DivideStep(c) ==
  LET r == shl(c.r, 1) + shr(c.n, Width - 1)
      s == Subtracts(c.d, r)
  IN  [c EXCEPT !.sr = @ - 1, !.carry = IF s THEN 1 ELSE 0,
                !.r = (r - (IF s THEN c.d ELSE 0)) % 2 ^ Width,
                !.n = shl(@, 1) + c.carry]

Divide ==
  /\ calc.op = "divide"
  /\ calc' = IF calc.sr > 0 THEN DivideStep(calc)
             ELSE [op |-> "done", num |-> calc.num, d |-> calc.d,
                   n |-> shl(calc.n, 1) + calc.carry, r |-> calc.r]

-----------------------------------------------------------------------------
\* Printing.  calc.out is what put was called with before the digits, calc.text
\* the buffer from buffer_ptr on.

kBase == 10
Minus == "-"

\* The buffer has room for the digits of the largest number and no more.
NumDigits == Max({k \in 1 .. Width : 10 ^ (k - 1) < 2 ^ Width})

\* The smallest number has no negation; its text is a constant.
SmallestText ==
  LET digit[k \in 0 .. NumDigits] == (2 ^ (Width - 1) \div 10 ^ k) % 10
      len == Max({k \in 1 .. NumDigits : 10 ^ (k - 1) <= 2 ^ (Width - 1)})
  IN  [k \in 1 .. len |-> digit[len - k]]

\* Mutant: the smallest number is negated like the others; the negation
\* overflows and gives it back, which the division by a signed number keeps.
PrintStartNegates(v) ==
  [op |-> "print", val |-> v, out |-> IF v < 0 THEN <<Minus>> ELSE <<>>, text |-> <<>>,
   left |-> IF v = -(2 ^ (Width - 1)) THEN 0 ELSE IF v < 0 THEN -v ELSE v]

PrintStart(v) ==
  IF v = -(2 ^ (Width - 1))
  THEN [op |-> "printed", val |-> v, out |-> <<Minus>>, text |-> SmallestText]
  ELSE [op |-> "print", val |-> v, out |-> IF v < 0 THEN <<Minus>> ELSE <<>>,
        text |-> <<>>, left |-> IF v < 0 THEN -v ELSE v]

\* One turn of the loop: the next digit goes in front.
Digit(c) == [c EXCEPT !.text = <<c.left % kBase>> \o @, !.left = @ \div kBase]

PrintDecimal ==
  /\ calc.op = "print"
  /\ calc' = IF calc.left = 0 /\ calc.text # <<>>
             THEN [op |-> "printed", val |-> calc.val, out |-> calc.out,
                   text |-> calc.text]
             ELSE Digit(calc)

-----------------------------------------------------------------------------
NumbersInit ==
  \/ \E n \in Word, d \in Word \ {0} : calc = DivisionStart(n, d)
  \/ \E v \in Word \cup {-x - 1 : x \in 0 .. 2 ^ (Width - 1) - 1} : calc = PrintStart(v)

NumbersNext == Divide \/ PrintDecimal

NumbersDone == calc.op \in {"none", "done", "printed"}

-----------------------------------------------------------------------------
\* Throughout the loop of __udivdi3 and __umoddi3 the quotient so far, the
\* remainder and the bits still to come in n make up the dividend, and the
\* remainder is smaller than the divisor although the comparison is made with
\* the sign bit of a wrapping subtraction.
DivisionExact ==
  /\ calc.op = "divide" =>
       LET q == 2 * (calc.n % 2 ^ (Width - calc.sr)) + calc.carry
       IN  /\ calc.num = (q * calc.d + calc.r) * 2 ^ calc.sr + shr(calc.n, Width - calc.sr)
           /\ calc.r < calc.d
  /\ calc.op = "done" => calc.num = calc.n * calc.d + calc.r /\ calc.r < calc.d

\* The text PrintDecimal puts out, read as a number with its sign, is the
\* number that was printed, has no leading zero, and its digits never run out
\* of the buffer, for the smallest and the largest number too.
PrintedReadsBack ==
  /\ calc.op \in {"print", "printed"} => Len(calc.text) <= NumDigits
  /\ calc.op = "printed" =>
       LET len == Len(calc.text)
           value[k \in 0 .. len] ==
             IF k = 0 THEN 0 ELSE 10 * value[k - 1] + calc.text[k]
       IN  /\ calc.val = IF calc.out = <<Minus>> THEN -value[len] ELSE value[len]
           /\ len > 1 => calc.text[1] # 0
=============================================================================
