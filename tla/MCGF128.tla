------------------------------- MODULE MCGF128 -------------------------------
(***************************************************************************)
(* An instance of GF128 that is small enough for every pair of elements    *)
(* and every way the three pointers can alias in two cells: width 6 with   *)
(* x^6 = x + 1.                                                            *)
(***************************************************************************)
EXTENDS GF128

SmallR == {0, 1}
SmallContents == Elem

-----------------------------------------------------------------------------
(***************************************************************************)
(* The code's polynomial, x^128 + x^7 + x^2 + x + 1, is irreducible, so    *)
(* what it defines is a field.  By Rabin's test: squaring x 128 times      *)
(* gives x back, and after 64 times what it gives differs from x by        *)
(* something coprime to the polynomial.                                    *)
(***************************************************************************)
WidePolynomial == {0, 1, 2, 7, 128}

Sum(p, q) == {k \in 0..254 : (k \in p) # (k \in q)}
Degree(p) == CHOOSE d \in p : \A k \in p : k <= d

RECURSIVE Remainder(_, _), Gcd(_, _), Squared(_, _)
Remainder(p, q) ==
    IF p = {} \/ Degree(p) < Degree(q) THEN p
    ELSE Remainder(Sum(p, {k + Degree(p) - Degree(q) : k \in q}), q)
Gcd(p, q) == IF q = {} THEN p ELSE Gcd(q, Remainder(p, q))
Squared(p, n) ==            \* p squared n times
    IF n = 0 \/ p = {} THEN p
    ELSE Squared(Remainder({2 * k : k \in p}, WidePolynomial), n - 1)

ASSUME Irreducible ==
    /\ Squared({1}, 128) = {1}
    /\ Gcd(WidePolynomial, Sum(Squared({1}, 64), {1})) = {0}
=============================================================================
