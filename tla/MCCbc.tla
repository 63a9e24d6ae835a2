-------------------------------- MODULE MCCbc --------------------------------
(***************************************************************************)
(* Instances of Cbc with three-byte blocks of two-bit bytes: 64 blocks,    *)
(* and padding of one, two and three bytes.                                *)
(***************************************************************************)
EXTENDS Cbc

Half(n, k) == (n \div k) % 2
XorBits(a, b) == 2 * ((Half(a, 2) + Half(b, 2)) % 2) + ((a + b) % 2)

(***************************************************************************)
(* A permutation of the blocks: the block as a number n goes to 37 n + 11  *)
(* modulo 64, with its first and last byte then exchanged.                 *)
(***************************************************************************)
Permute(b) ==
    LET n == (37 * (16 * b[1] + 4 * b[2] + b[3]) + 11) % 64
    IN  <<n % 4, (n \div 4) % 4, n \div 16>>
Cipher == [b \in Block |-> Permute(b)]
Decipher == [c \in Block |-> CHOOSE b \in Block : Permute(b) = c]

(* Texts of 0 to 7 bytes, most of them ending in what looks like padding. *)
Pattern(n, last) ==
    LET byte(k) == IF k = n THEN last ELSE k % 4
        block(j) == [k \in 1..3 |-> byte(3 * (j - 1) + k)]
    IN  [full |-> [j \in 1..(n \div 3) |-> block(j)],
         rest |-> [k \in 1..(n % 3) |-> byte(3 * (n \div 3) + k)]]

SomeTexts == {Pattern(n, last) : n \in 0..7, last \in 1..3}
SomeIVs == {<<0, 0, 0>>, <<3, 1, 2>>}

(* All ciphertexts of one block, and of two that begin with one of two blocks. *)
SomeStrangers == {<<b>> : b \in Block} \cup {<<b, c>> : b \in {<<0, 0, 0>>, <<1, 2, 3>>}, c \in Block}
=============================================================================
