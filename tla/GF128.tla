-------------------------------- MODULE GF128 --------------------------------
(***************************************************************************)
(* gf128_mul() of src/gf128.h: the multiplication GHASH is built on.       *)
(*                                                                         *)
(* A field element is the SET of the positions of its 1 bits, numbered as  *)
(* the loop numbers them: position 0 is the most significant bit of byte   *)
(* 0, position W-1 the least significant bit of the last byte.  XOR is     *)
(* symmetric difference.  The code has W = 128 and R = {0, 1, 2, 7}, the   *)
(* bits of 0xE1 in byte 0; W and R are declared in GF2m.                   *)
(*                                                                         *)
(* The three arguments are pointers, and ghash_update() calls              *)
(* gf128_mul(y, h, y): the machine below takes three names of memory cells *)
(* which may be equal, and reads x through its pointer in every iteration, *)
(* as the code does.                                                       *)
(***************************************************************************)
EXTENDS GF2m

CONSTANTS
    Cells,      \* the memory cells the pointers range over
    Contents    \* the values a cell starts with

Elem == SUBSET (0..W-1)

ASSUME ContentsAssumption == Contents \subseteq Elem

(***************************************************************************)
(* One iteration's treatment of v: a right shift by one bit across the     *)
(* whole block and, if the bit shifted out was 1, the reduction.           *)
(***************************************************************************)
ShiftNoDrop(v) ==           \* Slip: the bit shifted out stays
    {k + 1 : k \in v}

ShiftReduceLate(v) ==       \* Slip: the carry is looked at after the shift
    LET shifted == {k + 1 : k \in v \ {W-1}}
    IN  IF W-1 \in shifted THEN shifted ++ R ELSE shifted

ShiftReduce(v) ==
    LET shifted == {k + 1 : k \in v \ {W-1}}
    IN  IF W-1 \in v THEN shifted ++ R ELSE shifted

-----------------------------------------------------------------------------
VARIABLES
    mem,            \* the memory: [Cells -> Elem]
    x, y, out,      \* the three pointers
    i,              \* the loop counter; W+1 when the call has returned
    z, v,           \* the accumulator and the shifted copy of y
    mem0            \* history: the memory when the call was made

vars == <<mem, x, y, out, i, z, v, mem0>>

TypeOK ==
    /\ mem \in [Cells -> Elem] /\ mem0 \in [Cells -> Elem]
    /\ {x, y, out} \subseteq Cells
    /\ i \in 0..W+1
    /\ z \in Elem /\ v \in Elem

Init ==
    /\ mem \in [Cells -> Contents]
    /\ x \in Cells /\ y \in Cells /\ out \in Cells
    /\ mem0 = mem
    /\ i = 0
    /\ z = {}
    /\ v = mem[y]

Iterate ==
    /\ i < W
    /\ z' = IF i \in mem[x] THEN z ++ v ELSE z
    /\ v' = ShiftReduce(v)
    /\ i' = i + 1
    /\ UNCHANGED <<mem, x, y, out, mem0>>

ReturnAccumulates ==         \* Slip: the accumulator is added to what out already holds
    /\ i = W
    /\ mem' = [mem EXCEPT ![out] = @ ++ z]
    /\ i' = W + 1
    /\ UNCHANGED <<x, y, out, z, v, mem0>>

Return ==
    /\ i = W
    /\ mem' = [mem EXCEPT ![out] = z]
    /\ i' = W + 1
    /\ UNCHANGED <<x, y, out, z, v, mem0>>

Next == Iterate \/ Return

Spec == Init /\ [][Next]_vars

-----------------------------------------------------------------------------
(***************************************************************************)
(* The result is the product of what x and y pointed to when the call was  *)
(* made, even when out is x, y or both, and no other cell has changed.     *)
(***************************************************************************)
ComputesProduct ==
    i = W + 1 => mem = [mem0 EXCEPT ![out] = Mul(mem0[x], mem0[y])]

(***************************************************************************)
(* The loop's invariant: after i iterations z is the product of y with the *)
(* first i coefficients of x, and v is x^i times y, both already reduced.  *)
(* (A reduction that was late by one iteration would break it at once.)    *)
(***************************************************************************)
PartialProduct ==
    i <= W => /\ z = Mul(mem0[x] \cap 0..i-1, mem0[y])
              /\ i < W => v = Mul({i}, mem0[y])
=============================================================================
