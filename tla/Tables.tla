------------------------------- MODULE Tables --------------------------------
(***************************************************************************)
(* The tables of src/sbox.h as they stand there, and those of src/gf256.h  *)
(* as what tests/test_gf256_tables.c compares every entry of them with,    *)
(* gmul_runtime().  The assumptions at the end say what the comments of    *)
(* the two headers say of the tables; TLC evaluates them.                  *)
(***************************************************************************)
EXTENDS Bytes, Sequences

AsTable(list) == [b \in Byte |-> FromInt(list[ToInt(b) + 1])]

MakoSBOX == AsTable(<<
         77,   2, 226, 135, 146, 244,  40, 130, 170,   8, 145,  57, 247, 159, 162, 213,
        190, 202, 231,  53,  43,  15, 119, 252,  16, 198,  44, 126, 178, 158,   9, 105,
        180, 174, 142, 107,  24, 150, 121,  12, 118, 169, 100, 203,  80, 163, 157, 167,
        227, 236, 128,  48, 245, 101, 212,   0, 186,  34, 164, 225, 111,  92,  95, 140,
        177, 253, 188, 155, 172,  31,  86,  66, 239,  74, 168, 104,  87, 214, 229, 120,
        216,  45,  63, 221, 217, 153,   6,  97, 195, 137,  58,  36,  37, 151,  56,  85,
         26, 179, 149,  28, 171, 160, 243,  79,  25, 114,  81,  91, 129, 207, 235, 251,
        182,  27, 242, 152, 185, 133,  19,  23,  84, 131, 205, 238,  76, 192, 165, 116,
         59,  90,  21, 234, 189,  82,  46, 201, 181, 199, 108, 248, 200, 211, 194,  62,
         20, 147, 206, 127, 183,  14, 215,  29,  64, 132, 136, 144,  17, 138, 223, 250,
        143, 196, 125, 232, 124, 141,   5, 228,   7,  67,  39, 122, 224,  60,  83, 233,
         10, 208,  47,  70, 246, 241, 249, 204, 113,  51,  32,  88, 255, 176,  73, 134,
        230, 222,  50, 210,  41, 240, 237, 219,  54,  72, 187, 112,  18,  99,  68, 115,
        103, 161, 218, 166,  75, 102,  78,  52,  35,  65,   4, 191,  22,  94,  30, 220,
        184,  69, 110, 123, 154, 148, 175,  11,  55,  71,  33,   1,  98, 106,  96,  38,
        193, 117,  42, 109,  13,  61, 156, 173, 197,  89, 139,   3,  49,  93, 209, 254 >>)

MakoINV_SBOX == AsTable(<<
         55, 235,   1, 251, 218, 166,  86, 168,   9,  30, 176, 231,  39, 244, 149,  21,
         24, 156, 204, 118, 144, 130, 220, 119,  36, 104,  96, 113,  99, 151, 222,  69,
        186, 234,  57, 216,  91,  92, 239, 170,   6, 196, 242,  20,  26,  81, 134, 178,
         51, 252, 194, 185, 215,  19, 200, 232,  94,  11,  90, 128, 173, 245, 143,  82,
        152, 217,  71, 169, 206, 225, 179, 233, 201, 190,  73, 212, 124,   0, 214, 103,
         44, 106, 133, 174, 120,  95,  70,  76, 187, 249, 129, 107,  61, 253, 221,  62,
        238,  87, 236, 205,  42,  53, 213, 208,  75,  31, 237,  35, 138, 243, 226,  60,
        203, 184, 105, 207, 127, 241,  40,  22,  79,  38, 171, 227, 164, 162,  27, 147,
         50, 108,   7, 121, 153, 117, 191,   3, 154,  89, 157, 250,  63, 165,  34, 160,
        155,  10,   4, 145, 229,  98,  37,  93, 115,  85, 228,  67, 246,  46,  29,  13,
        101, 209,  14,  45,  58, 126, 211,  47,  74,  41,   8, 100,  68, 247,  33, 230,
        189,  64,  28,  97,  32, 136, 112, 148, 224, 116,  56, 202,  66, 132,  16, 219,
        125, 240, 142,  88, 161, 248,  25, 137, 140, 135,  17,  43, 183, 122, 146, 109,
        177, 254, 195, 141,  54,  15,  77, 150,  80,  84, 210, 199, 223,  83, 193, 158,
        172,  59,   2,  48, 167,  78, 192,  18, 163, 175, 131, 110,  49, 198, 123,  72,
        197, 181, 114, 102,   5,  52, 180,  12, 139, 182, 159, 111,  23,  65, 255, 188 >>)

MakoRCON ==
    LET list == <<0, 1, 2, 4, 8, 16, 32, 64, 128, 27, 54, 108, 216, 171, 77, 154, 47>>
    IN  [n \in 0..16 |-> FromInt(list[n + 1])]

-----------------------------------------------------------------------------
(***************************************************************************)
(* gmul_runtime(): eight times, a is added in if the next bit of b is 1,   *)
(* and doubled.                                                            *)
(***************************************************************************)
Doubled(x) ==
    LET shifted == {k + 1 : k \in x \ {7}}
    IN  IF 7 \in x THEN shifted ++ {0, 1, 3, 4} ELSE shifted

gmul_runtime(x, y) ==
    LET loop[n \in 0..8] ==
            IF n = 0 THEN [a |-> x, product |-> {}]
            ELSE LET l == loop[n - 1]
                 IN  [a |-> Doubled(l.a),
                      product |-> IF n - 1 \in y THEN l.product ++ l.a ELSE l.product]
    IN  loop[8].product

MakoGF_MUL == [c \in {1, 2, 3, 9, 11, 13, 14} |-> [b \in Byte |-> gmul_runtime(b, FromInt(c))]]

-----------------------------------------------------------------------------
(***************************************************************************)
(* "the multiplicative inverse of each byte in GF(2^8) ... followed by a   *)
(* Makocrypto-specific affine transformation", "0 fixed points"            *)
(* (sbox.h:11-22).                                                         *)
(***************************************************************************)
F == INSTANCE GF2m WITH W <- 8, R <- {0, 1, 3, 4}

ROL(b, n) == {(k + n) % 8 : k \in b}
Affine(b) == b ++ ROL(b, 1) ++ ROL(b, 2) ++ ROL(b, 3) ++ ROL(b, 6) ++ FromInt(77)

ASSUME SboxByConstruction ==
    \A b \in Byte :
        /\ MakoSBOX[b] # b
        /\ \E inverse \in Byte :
              /\ IF b = {} THEN inverse = {} ELSE F!Mul(b, inverse) = {0}
              /\ MakoSBOX[b] = Affine(inverse)

(***************************************************************************)
(* "repeated GF(2^8) doubling (xtime) starting from 0x01", "indexed 1..16" *)
(* (sbox.h:64-67).                                                         *)
(***************************************************************************)
ASSUME RconByDoubling ==
    MakoRCON[1] = {0} /\ \A n \in 2..16 : MakoRCON[n] = F!Mul(MakoRCON[n - 1], {1})

(***************************************************************************)
(* gmul_runtime() multiplies in the field of the polynomial 0x11B, by each *)
(* constant MixColumns and its inverse use (gf256.h:133-138).              *)
(***************************************************************************)
ASSUME TablesMultiply ==
    \A c \in DOMAIN MakoGF_MUL, b \in Byte : MakoGF_MUL[c][b] = F!Mul(b, FromInt(c))
=============================================================================
