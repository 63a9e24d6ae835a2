------------------------------- MODULE MCMako --------------------------------
(***************************************************************************)
(* The cipher and the programs that analyse it with the code's own tables  *)
(* and sizes: a few keys of both lengths, a few blocks, and a differential *)
(* trail of four rounds.                                                   *)
(***************************************************************************)
EXTENDS Analysis, Tables

KeyFrom(n, byte(_)) == [w \in 0..n-1 |-> [b \in Index |-> FromInt(byte(4 * w + b))]]

Zero(n) == 0
Counting(n) == n
Spread(n) == (89 * n + 7) % 256
Flip(k, w) == [k EXCEPT ![w][3] = @ ++ {0}]

(* One bit apart in the first and in the last word, and far apart. *)
SomeKeys ==
    UNION {{KeyFrom(n, Zero), KeyFrom(n, Counting), Flip(KeyFrom(n, Counting), 0),
            Flip(KeyFrom(n, Counting), n - 1), KeyFrom(n, Spread)} : n \in KeyWords}

BlockFrom(byte(_)) == [n \in 0..15 |-> FromInt(byte(n))]
SomeBlocks == {BlockFrom(Zero), BlockFrom(Spread)}
SomeChanges == [at : 0..15, by : {{0}, {7, 4, 1}}]

OneKey == {KeyFrom(4, Spread)}

-----------------------------------------------------------------------------
(* Differences are listed row by row. *)
Difference(list) == [x \in Cells |-> FromInt(list[4 * x[1] + x[2] + 1])]

(* The trail from one difference on through the S-boxes, as they turn out. *)
Trail(before, after) ==
    [k \in 1..Len(after) |->
        [before |-> IF k = 1 THEN before ELSE mix_columns(shift_rows(after[k - 1])),
         after |-> after[k]]]

(* One byte, four, sixteen, four: and after the fourth round one again. *)
Witness ==
    Trail(Single(0),
          << Difference(<<37, 0, 0, 0,  0, 0, 0, 0,  0, 0, 0, 0,  0, 0, 0, 0>>),
             Difference(<<90, 0, 0, 0,  31, 0, 0, 0,  180, 0, 0, 0,  203, 0, 0, 0>>),
             Difference(<<114, 28, 250, 180,  228, 75, 254, 85,
                          32, 156, 2, 129,  160, 48, 216, 226>>),
             Difference(<<189, 0, 0, 0,  0, 110, 0, 0,  0, 0, 16, 0,  0, 0, 0, 81>>) >>)

SomeTrails == UNION {{SubSeq(Witness, m, n) : n \in m..4} : m \in 1..4}

(* A key and a block under which the witness is what happens. *)
Words(list) ==
    [w \in 0..Len(list)-1 |-> [b \in Index |-> FromInt(list[w + 1][b + 1])]]
WitnessKey ==
    {Words(<< <<234, 87, 222, 43>>, <<239, 154, 24, 146>>,
              <<62, 232, 149, 140>>, <<125, 53, 82, 106>> >>)}
WitnessBlock ==
    LET list == <<117, 78, 214, 145, 146, 106, 101, 210, 67, 215, 192, 124, 38, 247, 241, 214>>
    IN  {[n \in 0..15 |-> FromInt(list[n + 1])]}
WitnessChange == {[at |-> 0, by |-> {0}]}

TwoBases == <<BlockFrom(Spread), BlockFrom(Counting)>>
SweptBytes == <<6, 11>>

OneByOne == {<<program>> : program \in Programs}
SearchThenCipher == {<<"impossible", "cipher">>}
TrailAlone == {<<"trail">>}
NoKeys == {}
=============================================================================
