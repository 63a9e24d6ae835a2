-------------------------------- MODULE Bytes --------------------------------
(***************************************************************************)
(* A byte is the set of the positions of its 1 bits, bit 0 the least       *)
(* significant; exclusive or is symmetric difference.  A 32-bit word is    *)
(* its four bytes, the most significant first.                             *)
(***************************************************************************)
EXTENDS Integers

Byte == SUBSET (0..7)
Index == 0..3
Cells == Index \X Index         \* of the state: row and column
Word == [Index -> Byte]

a ++ b == (a \ b) \cup (b \ a)

(* The number a byte is. *)
FromInt(n) == {k \in 0..7 : (n \div 2^k) % 2 = 1}
ToInt(b) ==
    LET bit(k) == IF k \in b THEN 2^k ELSE 0
    IN  bit(0) + bit(1) + bit(2) + bit(3) + bit(4) + bit(5) + bit(6) + bit(7)
=============================================================================
