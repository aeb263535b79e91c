------------------------------ MODULE Rounding ------------------------------
(***************************************************************************)
(* Rounding to what an exchange accepts (calculations/rounding.py).        *)
(* Decimal numbers are [c, e], for c * 10^e; amounts are in tenths.        *)
(***************************************************************************)
EXTENDS Integers, FiniteSetsExt

Digits == 1
(* Steps of a tenth, or of more, as they are written. *)
Steps == [c : Nat \ {0}, e : -Digits .. 3 - Digits]
Tenths(d) == d.c * 10 ^ (d.e + Digits)

(* Variation (a bug the properties must notice): with its zeros. *)
AsItIs(d) == d
(* Without the zeros at the end. *)
normalize(d) == LET zeros == Max({i \in 0 .. 3 : d.c % 10 ^ i = 0})
                IN [c |-> d.c \div 10 ^ zeros, e |-> d.e + zeros]

(* quantize goes by the exponent of the step alone. *)
Place(step) == 10 ^ (normalize(step).e + Digits)
round_down(x, step) == (x \div Place(step)) * Place(step)

IsPowerOfTen(step) == \E k \in 0 .. 3 : Tenths(step) = 10 ^ k
IsMultiple(x, step) == x % Tenths(step) = 0
=============================================================================
