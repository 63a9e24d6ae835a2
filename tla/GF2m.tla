-------------------------------- MODULE GF2m ---------------------------------
(***************************************************************************)
(* The field GF(2^W) as mathematics: the reference gf128_mul() is compared *)
(* with.  An element is the set of the positions of its 1 bits, as in      *)
(* GF128; nothing here translates code.                                    *)
(***************************************************************************)
EXTENDS Naturals, FiniteSets

CONSTANTS
    W,      \* the degree of the field's polynomial
    R       \* the powers below W in it

ASSUME WidthAssumption == W \in Nat \ {0} /\ R \subseteq 0..W-1

a ++ b == (a \ b) \cup (b \ a)

(***************************************************************************)
(* Reference: multiplication of polynomials over GF(2), where position i   *)
(* is the coefficient of x^i and x^W = the sum of x^r for r in R.  The     *)
(* full product first, then the reduction from the highest power down.     *)
(***************************************************************************)
Product(a, b) ==
    {k \in 0..2*W-2 : Cardinality({j \in a : k - j \in b}) % 2 = 1}

Reduced(k, p) ==            \* p without its power k >= W
    IF k \in p THEN p ++ ({k} \cup {k - W + r : r \in R}) ELSE p

Reductions(p) ==            \* [k] is p with the powers above k reduced
    LET rest[k \in W-1..2*W-2] == IF k = 2*W-2 THEN p ELSE Reduced(k + 1, rest[k + 1])
    IN  rest

Reduce(p) == Reductions(p)[W-1]

Mul(a, b) == Reduce(Product(a, b))
=============================================================================
