------------------------------ MODULE Decimals ------------------------------
(***************************************************************************)
(* What quantize(TWOPLACES) of Python's decimal does with a quotient: it   *)
(* goes to the nearest hundredth, and from the middle to the even one.     *)
(***************************************************************************)
EXTENDS Integers

(* n / d, in hundredths, if n counts them. *)
Rounded(n, d) ==
    LET q == n \div d
        rest == 2 * (n % d)
    IN  IF rest > d \/ (rest = d /\ q % 2 = 1) THEN q + 1 ELSE q
=============================================================================
