-------------------------------- MODULE MCGcm --------------------------------
(***************************************************************************)
(* Instances of Gcm with one-bit bytes: a block is a two-byte nonce and    *)
(* the four counter bytes, so there are 64 blocks, the field is GF(2^6)    *)
(* with x^6 = x + 1, and the counter wraps after 16 blocks.                *)
(***************************************************************************)
EXTENDS Gcm, FiniteSets

F == INSTANCE GF2m WITH W <- 6, R <- {0, 1}

Powers == [k \in 0..6 |-> 2^k]

Xor2(a, b) == (a + b) % 2

Bits(b) == {k - 1 : k \in {j \in DOMAIN b : b[j] = 1}}
FromBits(s) == [k \in 1..6 |-> IF k - 1 \in s THEN 1 ELSE 0]
Products == [a, b \in Block |-> FromBits(F!Mul(Bits(a), Bits(b)))]
Mul6(a, b) == Products[a, b]

(***************************************************************************)
(* A permutation of the 64 blocks: the block as a number n goes to         *)
(* 37 n + 11 modulo 64, with its halves then exchanged.                    *)
(***************************************************************************)
Number(b) == 32*b[1] + 16*b[2] + 8*b[3] + 4*b[4] + 2*b[5] + b[6]
Permute(b) ==
    LET n == (37 * Number(b) + 11) % 64
        m == (n % 8) * 8 + (n \div 8)
    IN  [k \in 1..6 |-> (m \div 2^(6 - k)) % 2]
Cipher == [b \in Block |-> Permute(b)]

Pattern(n) == [k \in 1..n |-> IF k % 3 = 0 \/ k % 5 = 1 THEN 1 ELSE 0]

(***************************************************************************)
(* Every boundary of the last block, and a message of 17 blocks, which     *)
(* takes the counter round to J0 and past it.                              *)
(***************************************************************************)
SomeTexts == {Pattern(n) : n \in {0, 1, 5, 6, 7, 13, 97}} \cup {<<0, 0, 0>>}
SomeNonces == {<<1, 0>>}
SomeAads == {Pattern(n) : n \in {0, 4, 6, 8}}
=============================================================================
