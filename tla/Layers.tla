------------------------------- MODULE Layers --------------------------------
(***************************************************************************)
(* The layers of a round of src/cipher.c on the state, a byte for every    *)
(* row and column: SubBytes, ShiftRows and MixColumns with their inverses. *)
(* The cipher is built from them, and so are the programs of tools/ that   *)
(* hold copies of their own.                                               *)
(*                                                                         *)
(* The tables of src/sbox.h and src/gf256.h are constants, of which only   *)
(* facts about single bytes are assumed: TLC evaluates them on the tables  *)
(* the code has, and what is proved from them holds for every block.       *)
(***************************************************************************)
EXTENDS Bytes

CONSTANTS
    SBOX, INV_SBOX,
    GF_MUL              \* GF_MUL[c] is the table GF_MULc, and GF_MUL[1] the identity

State == [Cells -> Byte]

ASSUME SboxAssumption ==
    /\ INV_SBOX \in [Byte -> Byte]
    /\ \A b \in Byte : INV_SBOX[SBOX[b]] = b /\ SBOX[INV_SBOX[b]] = b

Coefficients == {1, 2, 3, 9, 11, 13, 14}

ASSUME TableAssumption ==
    \A c \in Coefficients :
        /\ GF_MUL[c] \in [Byte -> Byte]
        /\ \A x, y \in Byte : GF_MUL[c][x ++ y] = GF_MUL[c][x] ++ GF_MUL[c][y]

ASSUME CoefficientAssumption ==
    \A c \in Coefficients, b \in Byte \ {{}} : GF_MUL[c][b] # {}

-----------------------------------------------------------------------------
sub_bytes(s) == [x \in Cells |-> SBOX[s[x]]]
inv_sub_bytes(s) == [x \in Cells |-> INV_SBOX[s[x]]]

shift_rows_none(s) == s             \* Slip: the rows stay where they are
shift_rows(s) == [x \in Cells |-> s[<<x[1], (x[2] + x[1]) % 4>>]]
inv_shift_rows_left(s) ==           \* Slip: to the left, as shift_rows does
    [x \in Cells |-> s[<<x[1], (x[2] + x[1]) % 4>>]]
inv_shift_rows(s) == [x \in Cells |-> s[<<x[1], (x[2] - x[1]) % 4>>]]

(***************************************************************************)
(* The two matrices.  Row r is the first row moved r places to the right,  *)
(* so a coefficient is named by its column less its row.                   *)
(***************************************************************************)
MIX == [d \in Index |-> CASE d = 0 -> 2 [] d = 1 -> 3 [] d = 2 -> 1 [] d = 3 -> 1]
INV_MIX == [d \in Index |-> CASE d = 0 -> 14 [] d = 1 -> 11 [] d = 2 -> 13 [] d = 3 -> 9]

Sum(f) == ((f[0] ++ f[1]) ++ f[2]) ++ f[3]

(***************************************************************************)
(* What is in byte r of a column when byte j is b, the others are zero,    *)
(* and the column has gone through the matrices A and B.                   *)
(***************************************************************************)
Entry(A, B, b, r, j) == Sum([k \in Index |-> GF_MUL[B[(k - r) % 4]][GF_MUL[A[(j - k) % 4]][b]]])

ASSUME MatrixAssumption ==
    \A b \in Byte, r, j \in Index :
        /\ Entry(MIX, INV_MIX, b, r, j) = IF r = j THEN b ELSE {}
        /\ Entry(INV_MIX, MIX, b, r, j) = IF r = j THEN b ELSE {}

Times(matrix, s) ==
    [x \in Cells |-> Sum([k \in Index |-> GF_MUL[matrix[(k - x[1]) % 4]][s[<<k, x[2]>>]]])]

mix_columns(s) == Times(MIX, s)
inv_mix_columns(s) == Times(INV_MIX, s)
=============================================================================
