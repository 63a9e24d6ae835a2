---------------------------- MODULE AnalysisProofs ----------------------------
(***************************************************************************)
(* Theorems about the programs of tools/ that analyse the cipher, and      *)
(* about what they say of it: what the search for impossible differentials *)
(* prints, for every number of rounds it is asked for, that its patterns   *)
(* are right about the cipher for two rounds, that the 16 starts of the    *)
(* trail search are one search and its trails as wide as the program says, *)
(* and that 256 plaintexts balance for three rounds in the integral test.  *)
(***************************************************************************)
EXTENDS Analysis, BlockCipherProofs, FunctionTheorems

(***************************************************************************)
(* The patterns after n rounds from a cell: the cell, then a column or a   *)
(* diagonal of cells, one in every row, and then all of them.              *)
(***************************************************************************)
Mark(S) == [y \in Cells |-> IF y \in S THEN ACTIVE ELSE INACTIVE]
ColumnFrom(x) == {y \in Cells : y[2] = (x[2] - x[1]) % 4}
DiagonalFrom(x) == {y \in Cells : (y[2] - y[1]) % 4 = x[2]}

Forward(x, n) == Mark(IF n = 0 THEN {x} ELSE IF n = 1 THEN ColumnFrom(x) ELSE Cells)
Backward(x, n) == Mark(IF n = 0 THEN {x} ELSE IF n = 1 THEN DiagonalFrom(x) ELSE Cells)

-----------------------------------------------------------------------------
LEMMA IndexArithmetic ==
    /\ \A c, j \in Index : (c + j) % 4 \in Index /\ (c - j) % 4 \in Index
    /\ \A c, j, k \in Index : (c + j) % 4 = k <=> c = (k - j) % 4
    /\ \A c, j, k \in Index : (c - j) % 4 = k <=> j = (c - k) % 4
    /\ \A c, d \in Index : \E j \in Index : (c - j) % 4 # d
    /\ \A c, k \in Index : \E j \in Index : (c + j) % 4 = k
    /\ \A c, k \in Index : \E j \in Index : (c - j) % 4 = k
<1>1. \A c, j \in Index : (c + j) % 4 \in Index /\ (c - j) % 4 \in Index
  BY DEF Index
<1>2. \A c, j, k \in Index : (c + j) % 4 = k <=> c = (k - j) % 4
  BY DEF Index
<1>3. \A c, j, k \in Index : (c - j) % 4 = k <=> j = (c - k) % 4
  BY DEF Index
<1>4. \A c \in Index : (c - 0) % 4 # (c - 1) % 4 /\ 0 \in Index /\ 1 \in Index
  BY DEF Index
<1>5. \A c, k \in Index : (c + ((k - c) % 4)) % 4 = k
  BY DEF Index
<1> QED BY <1>1, <1>2, <1>3, <1>4, <1>5

LEMMA PairFacts ==
    /\ \A x \in Cells : x[1] \in Index /\ x[2] \in Index /\ x = <<x[1], x[2]>>
    /\ \A j, c \in Index : <<j, c>> \in Cells /\ <<j, c>>[1] = j /\ <<j, c>>[2] = c
BY DEF Cells

LEMMA CellOfNumber == \A n \in 0..15 : Cell(n) \in Cells
<1> SUFFICES ASSUME NEW n \in 0..15 PROVE Cell(n) \in Cells
  OBVIOUS
<1>1. n \div 4 \in Index /\ n % 4 \in Index
  BY DEF Index
<1> QED BY <1>1 DEF Cell, Cells

LEMMA OnlyIsMark == \A x : Only(x) = Mark({x})
BY DEF Only, Mark

(***************************************************************************)
(* What the layers do to the set of the cells that are marked.             *)
(***************************************************************************)
SlidForward(S) == {y \in Cells : <<y[1], (y[2] + y[1]) % 4>> \in S}
SlidBackward(S) == {y \in Cells : <<y[1], (y[2] - y[1]) % 4>> \in S}
Blended(S) == {y \in Cells : \E j \in Index : <<j, y[2]>> \in S}

LEMMA MixMarked ==
    ASSUME NEW S \in SUBSET Cells
    PROVE  mix_columns_truncated(Mark(S)) = Mark(Blended(S))
<1> SUFFICES ASSUME NEW x \in Cells
             PROVE  mix_columns_truncated(Mark(S))[x] = Mark(Blended(S))[x]
  BY Zenon DEF mix_columns_truncated, Mark
<1>1. \A j \in Index : Mark(S)[<<j, x[2]>>] = IF <<j, x[2]>> \in S THEN ACTIVE ELSE INACTIVE
  BY PairFacts DEF Mark
<1>2. UNKNOWN \notin Column(Mark(S), x[2])
  BY <1>1, StatusAssumption DEF Column
<1>3. ACTIVE \in Column(Mark(S), x[2]) <=> x \in Blended(S)
  BY <1>1, StatusAssumption DEF Column, Blended
<1>4. mix_columns_truncated(Mark(S))[x] = IF x \in Blended(S) THEN ACTIVE ELSE INACTIVE
  BY <1>2, <1>3 DEF mix_columns_truncated
<1> QED BY <1>4 DEF Mark

LEMMA ShiftMarked ==
    ASSUME NEW S \in SUBSET Cells
    PROVE  /\ shift_rows_forward(Mark(S)) = Mark(SlidForward(S))
           /\ shift_rows_backward(Mark(S)) = Mark(SlidBackward(S))
<1>1. \A y \in Cells : /\ <<y[1], (y[2] + y[1]) % 4>> \in Cells
                       /\ <<y[1], (y[2] - y[1]) % 4>> \in Cells
  BY PairFacts, IndexArithmetic
<1> QED BY <1>1 DEF shift_rows_forward, shift_rows_backward, Mark, SlidForward, SlidBackward

LEMMA SetsOfCells ==
    \A S : SlidForward(S) \in SUBSET Cells /\ SlidBackward(S) \in SUBSET Cells
               /\ Blended(S) \in SUBSET Cells
BY DEF SlidForward, SlidBackward, Blended

(***************************************************************************)
(* A round takes a cell to its column, or the other way to its diagonal,   *)
(* either of them to everything, and everything to itself.                 *)
(***************************************************************************)
LEMMA RoundForward ==
    ASSUME NEW x \in Cells
    PROVE  /\ Blended(SlidForward({x})) = ColumnFrom(x)
           /\ Blended(SlidForward(ColumnFrom(x))) = Cells
           /\ Blended(SlidForward(Cells)) = Cells
<1> DEFINE k == (x[2] - x[1]) % 4
<1>1. k \in Index /\ 0 \in Index /\ x[1] \in Index /\ x[2] \in Index /\ x = <<x[1], x[2]>>
  BY PairFacts, IndexArithmetic DEF Index
<1>2. \A S, y : y \in Blended(SlidForward(S)) <=>
                    y \in Cells /\ \E j \in Index : <<j, (y[2] + j) % 4>> \in S
  BY PairFacts DEF Blended, SlidForward
<1>3. \A j, c \in Index : <<j, (c + j) % 4>> = x <=> j = x[1] /\ c = k
  <2>1. \A c \in Index : (c + x[1]) % 4 = x[2] <=> c = k
    BY <1>1, IndexArithmetic
  <2>2. \A j, c \in Index : <<j, (c + j) % 4>> = x <=> j = x[1] /\ (c + j) % 4 = x[2]
    BY <1>1
  <2> QED BY <2>1, <2>2
<1>4. Blended(SlidForward({x})) = ColumnFrom(x)
  <2>1. ASSUME NEW y \in Cells PROVE y \in Blended(SlidForward({x})) <=> y[2] = k
    <3>1. y[2] \in Index
      BY PairFacts
    <3>2. y \in Blended(SlidForward({x})) <=> \E j \in Index : <<j, (y[2] + j) % 4>> = x
      <4>1. y \in Blended(SlidForward({x})) <=> \E j \in Index : <<j, (y[2] + j) % 4>> \in {x}
        BY <1>2, Zenon
      <4> QED BY <4>1, Zenon
    <3> HIDE DEF k
    <3> QED BY <1>1, <1>3, <3>1, <3>2
  <2> QED BY <2>1, SetsOfCells DEF ColumnFrom
<1>5. Blended(SlidForward(ColumnFrom(x))) = Cells
  <2>1. \A j, c \in Index : (c + j) % 4 = k => <<j, (c + j) % 4>> \in ColumnFrom(x)
    BY PairFacts, IndexArithmetic DEF ColumnFrom
  <2>2. \A c \in Index : \E j \in Index : (c + j) % 4 = k
    BY <1>1, IndexArithmetic
  <2>3. \A y \in Cells : y[2] \in Index
    BY PairFacts
  <2>4. \A y \in Cells : \E j \in Index : <<j, (y[2] + j) % 4>> \in ColumnFrom(x)
    <3> HIDE DEF k
    <3> QED BY <2>1, <2>2, <2>3
  <2>5. \A y \in Cells : y \in Blended(SlidForward(ColumnFrom(x)))
    BY <1>2, <2>4
  <2> QED BY <2>5, SetsOfCells
<1>6. Blended(SlidForward(Cells)) = Cells
  <2>1. \A y \in Cells : <<0, (y[2] + 0) % 4>> \in Cells
    BY <1>1, PairFacts, IndexArithmetic
  <2>2. \A y \in Cells : y \in Blended(SlidForward(Cells))
    BY <1>1, <1>2, <2>1
  <2> QED BY <2>2, SetsOfCells
<1> QED BY <1>4, <1>5, <1>6

LEMMA RoundBackward ==
    ASSUME NEW x \in Cells
    PROVE  /\ SlidBackward(Blended({x})) = DiagonalFrom(x)
           /\ SlidBackward(Blended(DiagonalFrom(x))) = Cells
           /\ SlidBackward(Blended(Cells)) = Cells
<1>1. 0 \in Index /\ x[1] \in Index /\ x[2] \in Index /\ x = <<x[1], x[2]>>
  BY PairFacts DEF Index
<1>2. \A S, y : y \in SlidBackward(Blended(S)) <=>
                    y \in Cells /\ \E j \in Index : <<j, (y[2] - y[1]) % 4>> \in S
  <2>1. \A y \in Cells : <<y[1], (y[2] - y[1]) % 4>> \in Cells
    BY PairFacts, IndexArithmetic
  <2> QED BY <2>1, PairFacts DEF Blended, SlidBackward
<1>3. SlidBackward(Blended({x})) = DiagonalFrom(x)
  <2>1. \A j, c \in Index : <<j, c>> = x <=> j = x[1] /\ c = x[2]
    BY <1>1
  <2>2. ASSUME NEW y \in Cells PROVE y \in SlidBackward(Blended({x})) <=> (y[2] - y[1]) % 4 = x[2]
    <3> DEFINE c == (y[2] - y[1]) % 4
    <3>1. c \in Index
      BY PairFacts, IndexArithmetic
    <3>2. y \in SlidBackward(Blended({x})) <=> \E j \in Index : <<j, c>> = x
      <4>1. y \in SlidBackward(Blended({x})) <=> \E j \in Index : <<j, c>> \in {x}
        BY <1>2, Zenon
      <4> QED BY <4>1, Zenon
    <3> HIDE DEF c
    <3>3. y \in SlidBackward(Blended({x})) <=> c = x[2]
      BY <1>1, <2>1, <3>1, <3>2
    <3> QED BY <3>3 DEF c
  <2> QED BY <2>2, SetsOfCells DEF DiagonalFrom
<1>4. SlidBackward(Blended(DiagonalFrom(x))) = Cells
  <2>1. \A j, c \in Index : (c - j) % 4 = x[2] => <<j, c>> \in DiagonalFrom(x)
    BY PairFacts DEF DiagonalFrom
  <2>2. \A c \in Index : \E j \in Index : (c - j) % 4 = x[2]
    BY <1>1, IndexArithmetic
  <2>3. \A y \in Cells : (y[2] - y[1]) % 4 \in Index
    BY PairFacts, IndexArithmetic
  <2> QED BY <1>2, <2>1, <2>2, <2>3
<1>5. SlidBackward(Blended(Cells)) = Cells
  <2>1. \A y \in Cells : <<0, (y[2] - y[1]) % 4>> \in Cells
    <3>1. \A y \in Cells : (y[2] - y[1]) % 4 \in Index
      BY PairFacts, IndexArithmetic
    <3> QED BY <1>1, <3>1, PairFacts
  <2>2. \A y \in Cells : y \in SlidBackward(Blended(Cells))
    BY <1>1, <1>2, <2>1
  <2> QED BY <2>2, SetsOfCells
<1> QED BY <1>3, <1>4, <1>5

LEMMA ForwardStep ==
    ASSUME NEW x \in Cells, NEW n \in Nat
    PROVE  ForwardOnce(Forward(x, n)) = Forward(x, n + 1)
<1>1. \A S \in SUBSET Cells : ForwardOnce(Mark(S)) = Mark(Blended(SlidForward(S)))
  BY ShiftMarked, MixMarked, SetsOfCells DEF ForwardOnce
<1>2. {x} \in SUBSET Cells /\ ColumnFrom(x) \in SUBSET Cells /\ Cells \in SUBSET Cells
  BY DEF ColumnFrom
<1>3. CASE n = 0
  <2>1. Forward(x, n) = Mark({x}) /\ Forward(x, n + 1) = Mark(ColumnFrom(x))
    BY <1>3 DEF Forward
  <2> QED BY <1>1, <1>2, <2>1, RoundForward
<1>4. CASE n = 1
  <2>1. Forward(x, n) = Mark(ColumnFrom(x)) /\ Forward(x, n + 1) = Mark(Cells)
    BY <1>4 DEF Forward
  <2> QED BY <1>1, <1>2, <2>1, RoundForward
<1>5. CASE n > 1
  <2>1. Forward(x, n) = Mark(Cells) /\ Forward(x, n + 1) = Mark(Cells)
    BY <1>5 DEF Forward
  <2> QED BY <1>1, <1>2, <2>1, RoundForward
<1> QED BY <1>3, <1>4, <1>5

LEMMA BackwardStep ==
    ASSUME NEW x \in Cells, NEW n \in Nat
    PROVE  BackwardOnce(Backward(x, n)) = Backward(x, n + 1)
<1>1. \A S \in SUBSET Cells : BackwardOnce(Mark(S)) = Mark(SlidBackward(Blended(S)))
  BY ShiftMarked, MixMarked, SetsOfCells DEF BackwardOnce
<1>2. {x} \in SUBSET Cells /\ DiagonalFrom(x) \in SUBSET Cells /\ Cells \in SUBSET Cells
  BY DEF DiagonalFrom
<1>3. CASE n = 0
  <2>1. Backward(x, n) = Mark({x}) /\ Backward(x, n + 1) = Mark(DiagonalFrom(x))
    BY <1>3 DEF Backward
  <2> QED BY <1>1, <1>2, <2>1, RoundBackward
<1>4. CASE n = 1
  <2>1. Backward(x, n) = Mark(DiagonalFrom(x)) /\ Backward(x, n + 1) = Mark(Cells)
    BY <1>4 DEF Backward
  <2> QED BY <1>1, <1>2, <2>1, RoundBackward
<1>5. CASE n > 1
  <2>1. Backward(x, n) = Mark(Cells) /\ Backward(x, n + 1) = Mark(Cells)
    BY <1>5 DEF Backward
  <2> QED BY <1>1, <1>2, <2>1, RoundBackward
<1> QED BY <1>3, <1>4, <1>5

(***************************************************************************)
(* Two patterns contradict each other unless both are everything: a column *)
(* and a diagonal are never the same, and neither is everything.           *)
(***************************************************************************)
LEMMA Contradiction ==
    ASSUME NEW x \in Cells, NEW z \in Cells, NEW m \in Nat \ {0}, NEW n \in Nat \ {0}
    PROVE  patterns_contradict(Forward(x, m), Backward(z, n)) <=> m = 1 \/ n = 1
<1> DEFINE S == IF m = 1 THEN ColumnFrom(x) ELSE Cells
           T == IF n = 1 THEN DiagonalFrom(z) ELSE Cells
<1>1. Forward(x, m) = Mark(S) /\ Backward(z, n) = Mark(T)
  BY DEF Forward, Backward
<1>2. patterns_contradict(Mark(S), Mark(T)) <=> \E y \in Cells : ~(y \in S <=> y \in T)
  BY StatusAssumption DEF patterns_contradict, Mark
<1>3. S \in SUBSET Cells /\ T \in SUBSET Cells
  BY DEF ColumnFrom, DiagonalFrom
<1> DEFINE k == (x[2] - x[1]) % 4
<1>4. k \in Index /\ z[2] \in Index
  BY PairFacts, IndexArithmetic
<1>5. \A j, c \in Index : /\ <<j, c>> \in ColumnFrom(x) <=> c = k
                          /\ <<j, c>> \in DiagonalFrom(z) <=> (c - j) % 4 = z[2]
  BY PairFacts DEF ColumnFrom, DiagonalFrom
<1>6. PICK j \in Index : (k - j) % 4 # z[2]
  BY <1>4, IndexArithmetic
<1>7. <<j, k>> \in Cells /\ <<j, k>> \in ColumnFrom(x) /\ <<j, k>> \notin DiagonalFrom(z)
  BY <1>4, <1>5, <1>6, PairFacts
<1>8. \E y \in Cells : y \notin ColumnFrom(x)
  <2>1. PICK c \in Index : c # k
    BY DEF Index
  <2>2. <<0, c>> \in Cells /\ <<0, c>> \notin ColumnFrom(x)
    BY <1>5, <2>1, PairFacts DEF Index
  <2> QED BY <2>2
<1>9. CASE m = 1 /\ n = 1
  BY <1>1, <1>2, <1>7, <1>9
<1>10. CASE m = 1 /\ n # 1
  BY <1>1, <1>2, <1>8, <1>10
<1>11. CASE m # 1 /\ n = 1
  BY <1>1, <1>2, <1>7, <1>11
<1>12. CASE m # 1 /\ n # 1
  BY <1>1, <1>2, <1>12
<1> QED BY <1>9, <1>10, <1>11, <1>12

-----------------------------------------------------------------------------
(***************************************************************************)
(* The inductive invariant: the loops are where their variables say, the   *)
(* patterns are those of the rounds propagated, and the pairs counted are  *)
(* all the pairs there have been, or none.                                 *)
(***************************************************************************)
InSearch == at \in {"start", "forward", "end", "backward"}
OneRound == fwd = 1 \/ total - fwd = 1
Pairs == 16 * start + (IF at \in {"end", "backward"} THEN end ELSE 0)

LoopInv ==
    /\ at \in {"total", "split", "start", "forward", "end", "backward"}
    /\ total \in Nat /\ total >= 2 /\ fwd \in Nat /\ fwd >= 1
    /\ start \in 0..16 /\ end \in 0..16 /\ r \in Nat
    /\ at = "split" => fwd <= total
    /\ InSearch => fwd < total
    /\ at \in {"forward", "end", "backward"} => start < 16
    /\ at = "backward" => end < 16

PatternInv ==
    /\ at = "forward" => r <= fwd /\ forward = Forward(Cell(start), r)
    /\ at \in {"end", "backward"} => forward = Forward(Cell(start), fwd)
    /\ at = "backward" => r <= total - fwd /\ backward = Backward(Cell(end), r)

CountInv ==
    InSearch =>
        /\ count = IF OneRound THEN Pairs ELSE 0
        /\ found = IF OneRound /\ Pairs > 0 THEN <<Cell(0), Cell(0)>> ELSE NoPair

SplitInv == (InSearch \/ at = "split") /\ fwd > 1 => any_split_found

SearchInv == LoopInv /\ PatternInv /\ CountInv /\ SplitInv /\ SplitDecides

LEMMA SearchInit == ImpossibleInit => SearchInv
BY DEF ImpossibleInit, SearchInv, LoopInv, PatternInv, CountInv, SplitInv, InSearch, SplitDecides

LEMMA BeginTotalInv == SearchInv /\ BeginTotal => SearchInv'
<1> SUFFICES ASSUME SearchInv, BeginTotal PROVE SearchInv'
  OBVIOUS
<1> QED BY DEF BeginTotal, SearchInv, LoopInv, PatternInv, CountInv, SplitInv, SplitDecides, InSearch,
            OneRound, Pairs, lines

LEMMA BeginSplitInv == SearchInv /\ BeginSplit => SearchInv'
<1> SUFFICES ASSUME SearchInv, BeginSplit PROVE SearchInv'
  OBVIOUS
<1> QED BY DEF BeginSplit, SearchInv, LoopInv, PatternInv, CountInv, SplitInv, SplitDecides, InSearch,
            OneRound, Pairs, lines

LEMMA SetStartInv == SearchInv /\ SetStart => SearchInv'
<1> SUFFICES ASSUME SearchInv, SetStart PROVE SearchInv'
  OBVIOUS
<1>1. forward' = Forward(Cell(start'), r') /\ r' = 0
  BY OnlyIsMark DEF SetStart, Forward
<1> QED BY <1>1 DEF SetStart, SearchInv, LoopInv, PatternInv, CountInv, SplitInv, SplitDecides,
              InSearch, OneRound, Pairs, lines

LEMMA ForwardRoundInv == SearchInv /\ ForwardRound => SearchInv'
<1> SUFFICES ASSUME SearchInv, ForwardRound PROVE SearchInv'
  OBVIOUS
<1>1. Cell(start) \in Cells
  BY CellOfNumber DEF SearchInv, LoopInv, ForwardRound
<1>2. forward' = Forward(Cell(start'), r') /\ r' = r + 1 /\ r' <= fwd
  BY <1>1, ForwardStep DEF SearchInv, LoopInv, PatternInv, ForwardRound
<1> QED BY <1>2 DEF ForwardRound, SearchInv, LoopInv, PatternInv, CountInv, SplitInv, SplitDecides,
              InSearch, OneRound, Pairs, lines

LEMMA ForwardEndInv == SearchInv /\ ForwardEnd => SearchInv'
<1> SUFFICES ASSUME SearchInv, ForwardEnd PROVE SearchInv'
  OBVIOUS
<1>1. forward' = Forward(Cell(start'), fwd')
  BY DEF SearchInv, LoopInv, PatternInv, ForwardEnd
<1> QED BY <1>1 DEF ForwardEnd, SearchInv, LoopInv, PatternInv, CountInv, SplitInv, SplitDecides,
              InSearch, OneRound, Pairs, lines

LEMMA SetEndInv == SearchInv /\ SetEnd => SearchInv'
<1> SUFFICES ASSUME SearchInv, SetEnd PROVE SearchInv'
  OBVIOUS
<1>1. backward' = Backward(Cell(end'), r') /\ r' = 0
  BY OnlyIsMark DEF SetEnd, Backward
<1> QED BY <1>1 DEF SetEnd, SearchInv, LoopInv, PatternInv, CountInv, SplitInv, SplitDecides,
              InSearch, OneRound, Pairs, lines

LEMMA BackwardRoundInv == SearchInv /\ BackwardRound => SearchInv'
<1> SUFFICES ASSUME SearchInv, BackwardRound PROVE SearchInv'
  OBVIOUS
<1>1. Cell(end) \in Cells
  BY CellOfNumber DEF SearchInv, LoopInv, BackwardRound
<1>2. backward' = Backward(Cell(end'), r') /\ r' = r + 1 /\ r' <= total - fwd
  BY <1>1, BackwardStep DEF SearchInv, LoopInv, PatternInv, BackwardRound
<1> QED BY <1>2 DEF BackwardRound, SearchInv, LoopInv, PatternInv, CountInv, SplitInv, SplitDecides,
              InSearch, OneRound, Pairs, lines

(***************************************************************************)
(* Every pair contradicts or none does, so the pairs counted are one more, *)
(* and the first pair found is the first there is.                         *)
(***************************************************************************)
LEMMA CompareInv == SearchInv /\ Compare => SearchInv'
<1> SUFFICES ASSUME SearchInv, Compare PROVE SearchInv'
  OBVIOUS
<1>1. /\ start \in 0..15 /\ end \in 0..15 /\ total \in Nat /\ fwd \in Nat \ {0} /\ fwd < total
      /\ r = total - fwd /\ forward = Forward(Cell(start), fwd) /\ backward = Backward(Cell(end), r)
  BY DEF Compare, SearchInv, LoopInv, PatternInv, InSearch
<1>2. patterns_contradict(forward, backward) <=> OneRound
  <2>1. Cell(start) \in Cells /\ Cell(end) \in Cells /\ r \in Nat \ {0}
    BY <1>1, CellOfNumber
  <2> QED BY <1>1, <2>1, Contradiction DEF OneRound
<1>3. LoopInv' /\ PatternInv' /\ SplitInv' /\ SplitDecides'
  BY <1>1 DEF Compare, SearchInv, LoopInv, PatternInv, SplitInv, SplitDecides, InSearch, lines
<1>4. count = (IF OneRound THEN Pairs ELSE 0) /\ Pairs = 16 * start + end
  BY DEF Compare, SearchInv, CountInv, InSearch, Pairs
<1>5. found = IF OneRound /\ Pairs > 0 THEN <<Cell(0), Cell(0)>> ELSE NoPair
  BY DEF Compare, SearchInv, CountInv, InSearch
<1>6. (OneRound' <=> OneRound) /\ Pairs' = Pairs + 1 /\ Pairs \in Nat
  BY <1>1, <1>4 DEF Compare, OneRound, Pairs
<1>7. CASE OneRound
  <2>1. count' = Pairs'
    BY <1>2, <1>4, <1>6, <1>7 DEF Compare
  <2>2. found' = <<Cell(0), Cell(0)>>
    <3>1. CASE Pairs = 0
      <4>1. found = NoPair /\ start = 0 /\ end = 0
        BY <1>1, <1>4, <1>5, <3>1
      <4> QED BY <1>2, <1>7, <4>1 DEF Compare
    <3>2. CASE Pairs > 0
      <4>1. found = <<Cell(0), Cell(0)>>
        BY <1>5, <1>7, <3>2
      <4>2. found # NoPair
        BY <4>1 DEF NoPair
      <4> QED BY <1>2, <1>7, <4>1, <4>2 DEF Compare
    <3> QED BY <1>6, <3>1, <3>2
  <2> QED BY <1>3, <1>6, <1>7, <2>1, <2>2 DEF SearchInv, CountInv
<1>8. CASE ~OneRound
  <2>1. count' = 0 /\ found' = NoPair
    BY <1>2, <1>4, <1>5, <1>8 DEF Compare
  <2> QED BY <1>3, <1>6, <1>8, <2>1 DEF SearchInv, CountInv
<1> QED BY <1>7, <1>8

LEMMA NextStartInv == SearchInv /\ NextStart => SearchInv'
<1> SUFFICES ASSUME SearchInv, NextStart PROVE SearchInv'
  OBVIOUS
<1> QED BY DEF NextStart, SearchInv, LoopInv, PatternInv, CountInv, SplitInv, SplitDecides, InSearch,
            OneRound, Pairs, lines

LEMMA PrintSplitInv == SearchInv /\ PrintSplit => SearchInv'
<1> SUFFICES ASSUME SearchInv, PrintSplit PROVE SearchInv'
  OBVIOUS
<1> DEFINE line == [fwd |-> fwd, bwd |-> total - fwd, count |-> count, found |-> found]
<1>1. start = 16 /\ total \in Nat /\ fwd \in Nat /\ fwd >= 1 /\ fwd < total
  BY DEF PrintSplit, SearchInv, LoopInv, InSearch
<1>2. Pairs = 256 /\ InSearch
  BY <1>1 DEF PrintSplit, Pairs, InSearch
<1>3. /\ count = (IF OneRound THEN 256 ELSE 0)
      /\ found = (IF OneRound THEN <<Cell(0), Cell(0)>> ELSE NoPair)
  BY <1>2 DEF SearchInv, CountInv
<1>4. Decided(line)
  BY <1>3 DEF Decided, OneRound
<1>5. SplitDecides'
  BY <1>4 DEF PrintSplit, SearchInv, SplitDecides
<1>6. any_split_found'
  <2>1. CASE fwd > 1
    BY <1>2, <2>1 DEF PrintSplit, SearchInv, SplitInv
  <2>2. CASE fwd = 1
    <3>1. found = <<Cell(0), Cell(0)>>
      BY <1>3, <2>2 DEF OneRound
    <3>2. found # NoPair
      BY <3>1 DEF NoPair
    <3> QED BY <3>2 DEF PrintSplit
  <2> QED BY <1>1, <2>1, <2>2
<1>7. LoopInv' /\ PatternInv' /\ CountInv' /\ SplitInv'
  BY <1>1, <1>6 DEF PrintSplit, SearchInv, LoopInv, PatternInv, CountInv, SplitInv, InSearch
<1> QED BY <1>5, <1>7 DEF SearchInv

LEMMA PrintTotalInv == SearchInv /\ PrintTotal => SearchInv'
<1> SUFFICES ASSUME SearchInv, PrintTotal PROVE SearchInv'
  OBVIOUS
<1>1. any_split_found
  BY DEF PrintTotal, SearchInv, LoopInv, SplitInv
<1>2. SplitDecides'
  BY <1>1 DEF PrintTotal, SearchInv, SplitDecides
<1>3. LoopInv' /\ PatternInv' /\ CountInv' /\ SplitInv'
  BY DEF PrintTotal, SearchInv, LoopInv, PatternInv, CountInv, SplitInv, InSearch
<1> QED BY <1>2, <1>3 DEF SearchInv

(***************************************************************************)
(* For every number of rounds: what is said of a split depends on nothing  *)
(* but whether one of its sides is a single round (the comment in main(),  *)
(* which has it for the totals that were run).                             *)
(***************************************************************************)
THEOREM SplitAlwaysDecides == ImpossibleSpec => []SplitDecides
<1>1. SearchInv /\ UNCHANGED impossibleVars => SearchInv'
  BY DEF impossibleVars, SearchInv, LoopInv, PatternInv, CountInv, SplitInv, SplitDecides, InSearch,
         OneRound, Pairs
<1>2. SearchInv /\ [ImpossibleNext]_impossibleVars => SearchInv'
  BY <1>1, BeginTotalInv, BeginSplitInv, SetStartInv, ForwardRoundInv, ForwardEndInv, SetEndInv,
     BackwardRoundInv, CompareInv, NextStartInv, PrintSplitInv, PrintTotalInv, Zenon
     DEF ImpossibleNext
<1>3. SearchInv => SplitDecides
  BY DEF SearchInv
<1> QED BY <1>2, <1>3, SearchInit, PTL DEF ImpossibleSpec

-----------------------------------------------------------------------------
(***************************************************************************)
(* A session runs the cipher and the searches as each of them runs alone:  *)
(* the integral test makes its key with the cipher's key schedule, and     *)
(* only while there is none.                                               *)
(***************************************************************************)
LEMMA SessionStep ==
    ASSUME TypeOK, [AnalysisNext]_allVars
    PROVE  [Next]_vars /\ [ImpossibleNext]_impossibleVars /\ [TrailNext]_trailVars
<1>1. CASE UNCHANGED <<vars, integralVars, impossibleVars, trailVars>>
  BY <1>1
<1>2. CASE IntegralNext /\ UNCHANGED <<cipherVars, impossibleVars, trailVars, session>>
  <2>1. CASE IntegralKey
    <3>1. call = NoCall
      BY <2>1 DEF IntegralKey, TypeOK
    <3>2. KeyNext
      <4>1. 4 \in KeyWords /\ IntegralKeys \subseteq Keys
        BY IntegralAssumption DEF KeyWords
      <4> QED BY <2>1, <4>1 DEF IntegralKey, KeyNext
    <3> QED BY <1>2, <3>1, <3>2 DEF Next
  <2>2. CASE UNCHANGED keyVars
    BY <1>2, <2>2 DEF vars
  <2> QED BY <1>2, <2>1, <2>2 DEF IntegralNext
<1>3. CASE Next /\ UNCHANGED <<integralVars, impossibleVars, trailVars, session>>
  BY <1>3
<1>4. CASE ImpossibleNext /\ UNCHANGED <<vars, integralVars, trailVars, session>>
  BY <1>4
<1>5. CASE TrailNext /\ UNCHANGED <<vars, integralVars, impossibleVars, session>>
  BY <1>5
<1> QED BY <1>1, <1>2, <1>3, <1>4, <1>5 DEF AnalysisNext, allVars, End

(***************************************************************************)
(* So what is proved of the cipher, and of each search, holds of it in any *)
(* sequence of programs.                                                   *)
(***************************************************************************)
THEOREM SessionsRunTheParts == AnalysisSpec => Spec /\ ImpossibleSpec /\ TrailSpec
<1>1. AnalysisInit => Init /\ ImpossibleInit /\ TrailInit
  BY DEF AnalysisInit
<1>2. IInv /\ [AnalysisNext]_allVars
          => [Next]_vars /\ [ImpossibleNext]_impossibleVars /\ [TrailNext]_trailVars
  BY SessionStep DEF IInv
<1>3. Init => IInv /\ KeyIInv
  BY InitIInv, KeyInitInv DEF Init
<1>4. IInv /\ KeyIInv /\ [Next]_vars => (IInv /\ KeyIInv)'
  BY NextIInv, KeyStep, KeyNextInv
<1> QED BY <1>1, <1>2, <1>3, <1>4, PTL DEF AnalysisSpec, Spec, ImpossibleSpec, TrailSpec

(***************************************************************************)
(* The patterns, from the cell that was changed: what Forecast computes by *)
(* its recursion, two rounds far.                                          *)
(***************************************************************************)
LEMMA OriginIsChangedCell ==
    ASSUME NEW y \in Cells, Origin(y)
    PROVE  ChangedCell = y
<1>1. \A x \in Cells : bytes_to_state(call.in)[x] # bytes_to_state(first.in)[x] <=> x = y
  BY DEF Origin, Differ
<1> QED BY <1>1 DEF ChangedCell

LEMMA AloneBackward ==
    ASSUME NEW y \in Cells
    PROVE  shift_rows_backward(Only(y)) = Mark({Right(y)})
<1>1. y[1] \in Index /\ y[2] \in Index /\ y = <<y[1], y[2]>>
  BY PairFacts
<1>2. ASSUME NEW x \in Cells PROVE <<x[1], (x[2] - x[1]) % 4>> = y <=> x = Right(y)
  <2>1. x[1] \in Index /\ x[2] \in Index /\ x = <<x[1], x[2]>>
    BY PairFacts
  <2>2. (x[2] - x[1]) % 4 = y[2] <=> x[2] = (y[2] + x[1]) % 4
    BY <1>1, <2>1, ShiftedCells
  <2> QED BY <1>1, <2>1, <2>2 DEF Right
<1>3. SlidBackward({y}) = {Right(y)}
  <2>1. Right(y) \in Cells
    BY <1>1, PairFacts, IndexFacts DEF Right
  <2> QED BY <1>2, <2>1 DEF SlidBackward
<1>4. {y} \in SUBSET Cells
  OBVIOUS
<1> QED BY <1>3, <1>4, OnlyIsMark, ShiftMarked

LEMMA ForecastFrom ==
    ASSUME NEW y \in Cells, Origin(y), Landing(pc, y) \in Cells, NEW n \in 0..2
    PROVE  Forecast(n) = IF pc = "encrypt" THEN Forward(Landing(pc, y), n)
                                           ELSE Backward(Landing(pc, y), n)
<1> DEFINE z == Landing(pc, y)
           Once(p) == IF pc = "encrypt" THEN ForwardOnce(p) ELSE BackwardOnce(p)
           a == IF pc = "encrypt" THEN Only(ChangedCell) ELSE shift_rows_backward(Only(ChangedCell))
           Spread(k) == IF pc = "encrypt" THEN Forward(z, k) ELSE Backward(z, k)
           h == [k \in 0..n |-> Spread(k)]
           f == CHOOSE after : after = [k \in 0..n |-> IF k = 0 THEN a ELSE Once(after[k - 1])]
<1>1. a = Spread(0)
  <2>1. ChangedCell = y
    BY OriginIsChangedCell
  <2>2. pc = "encrypt" => a = Mark({z})
    BY <2>1, OnlyIsMark DEF Landing
  <2>3. pc # "encrypt" => a = Mark({z})
    BY <2>1, AloneBackward DEF Landing
  <2> QED BY <2>2, <2>3 DEF Forward, Backward
<1>2. \A k \in 0..1 : Once(Spread(k)) = Spread(k + 1)
  <2>1. z \in Cells
    OBVIOUS
  <2> HIDE DEF z
  <2> QED BY <2>1, ForwardStep, BackwardStep
<1> HIDE DEF a, Spread, Once, z
<1>3. h = [k \in 0..n |-> IF k = 0 THEN a ELSE Once(h[k - 1])]
  <2>1. ASSUME NEW k \in 0..n PROVE h[k] = IF k = 0 THEN a ELSE Once(h[k - 1])
    <3>1. CASE k = 0
      BY <1>1, <3>1
    <3>2. CASE k # 0
      <4>1. k - 1 \in 0..n /\ k - 1 \in 0..1 /\ (k - 1) + 1 = k
        BY <3>2
      <4>2. h[k - 1] = Spread(k - 1) /\ h[k] = Spread(k)
        BY <4>1
      <4>3. Once(Spread(k - 1)) = Spread((k - 1) + 1)
        BY <1>2, <4>1
      <4> HIDE DEF h
      <4> QED BY <3>2, <4>1, <4>2, <4>3
    <3> QED BY <3>1, <3>2
  <2> QED BY <2>1
<1>4. f = [k \in 0..n |-> IF k = 0 THEN a ELSE Once(f[k - 1])]
  <2> HIDE DEF h
  <2> QED BY <1>3, Zenon
<1>5. f[n] = Spread(n)
  <2> HIDE DEF f
  <2>1. f[0] = Spread(0)
    BY <1>1, <1>4
  <2>2. n >= 1 => f[1] = Spread(1)
    BY <1>2, <1>4, <2>1
  <2>3. n >= 2 => f[2] = Spread(2)
    BY <1>2, <1>4, <2>2
  <2> QED BY <2>1, <2>2, <2>3
<1>6. Forecast(n) = f[n]
  BY Zenon DEF Forecast, f, a, Once
<1> QED BY <1>5, <1>6 DEF Spread, z

(***************************************************************************)
(* For two rounds, forward and backward, the search's patterns are exactly *)
(* the bytes that differ in the cipher, whatever was changed and under any *)
(* key: the two programs agree about where the layers take a difference.   *)
(***************************************************************************)
LEMMA SpreadAsForecast == SpreadInv => ForecastsHold
<1> SUFFICES ASSUME SpreadInv, Again, Mixed <= 2
             PROVE  \A x \in Cells :
                        Forecast(Mixed)[x] = IF x \in Differing THEN ACTIVE ELSE INACTIVE
  BY DEF ForecastsHold, Comparing, Again
<1>1. PICK y \in Cells :
          /\ Origin(y) /\ Landing(pc, y) \in Cells
          /\ Reached(pc, Landing(pc, y), MixedRounds, Differ(state, trace[Position]))
  BY DEF SpreadInv
<1>2. Mixed = MixedRounds /\ Mixed \in 0..2
  BY DEF Mixed, MixedRounds, SpreadInv
<1> DEFINE z == Landing(pc, y)
<1>3. Differing = Differ(state, trace[Position])
  BY DEF Differing, Differ
<1>4. ColumnFrom(z) = WholeColumn(Left(z)[2]) /\ DiagonalFrom(z) = Diagonal(z[2])
  BY DEF ColumnFrom, WholeColumn, Left, DiagonalFrom, Diagonal
<1>5. Forecast(Mixed) = IF pc = "encrypt" THEN Forward(z, Mixed) ELSE Backward(z, Mixed)
  BY <1>1, <1>2, ForecastFrom
<1> HIDE DEF z
<1>6. Forecast(Mixed) = Mark(Differing)
  <2>1. Reached(pc, z, Mixed, Differing)
    BY <1>1, <1>2, <1>3 DEF z
  <2>2. CASE Mixed = 0
    BY <1>5, <2>1, <2>2 DEF Reached, Forward, Backward
  <2>3. CASE Mixed = 1
    BY <1>4, <1>5, <2>1, <2>3 DEF Reached, Line, Forward, Backward
  <2>4. CASE Mixed = 2
    BY <1>5, <2>1, <2>4 DEF Reached, Forward, Backward
  <2> QED BY <1>2, <2>2, <2>3, <2>4
<1> QED BY <1>6 DEF Mark

THEOREM PatternsTellTheTruth == AnalysisSpec => []ForecastsHold
<1>1. Init => SpreadInv
  BY DEF Init, CipherInit, SpreadInv, Again
<1> QED BY <1>1, SpreadNext, SpreadAsForecast, CipherInvariant, SessionsRunTheParts, PTL DEF Spec

-----------------------------------------------------------------------------
(***************************************************************************)
(* The trail search.  A difference whose rows and columns are rotated is   *)
(* taken by every layer to a rotated one, and costs the same.              *)
(***************************************************************************)
Rotated(d, a, b) == [x \in Cells |-> d[<<(x[1] - a) % 4, (x[2] - b) % 4>>]]

NextDifference(d) == mix_columns_pattern(shift_rows_pattern(SubBest(d)))

LEMMA Weights == Weight(4) = 6 /\ Weight(2) = 7
<1>1. /\ 2^0 = 1 /\ 2^1 = 2 /\ 2^2 = 4 /\ 2^3 = 8 /\ 2^4 = 16
      /\ 2^5 = 32 /\ 2^6 = 64 /\ 2^7 = 128 /\ 2^8 = 256
  OBVIOUS
<1> DEFINE power == [w \in 0..8 |-> 2^w]
<1>2. /\ power[0] = 1 /\ power[1] = 2 /\ power[2] = 4 /\ power[3] = 8 /\ power[4] = 16
      /\ power[5] = 32 /\ power[6] = 64 /\ power[7] = 128 /\ power[8] = 256
  BY <1>1
<1>3. \A w \in 0..8 : 2^w = power[w]
  OBVIOUS
<1> HIDE DEF power
<1>4. \A w \in 0..8 : 4 * 2^w = 256 <=> w = 6
  <2> SUFFICES ASSUME NEW w \in 0..8 PROVE 4 * 2^w = 256 <=> w = 6
    OBVIOUS
  <2>1. w \in {0, 1, 2, 3, 4, 5, 6, 7, 8}
    OBVIOUS
  <2>2. 4 * power[w] = 256 <=> w = 6
    BY <1>2, <2>1
  <2>3. 4 * 2^w = 4 * power[w]
    BY <1>3, Zenon
  <2> QED BY <2>2, <2>3, Zenon
<1>5. \A w \in 0..8 : 2 * 2^w = 256 <=> w = 7
  <2> SUFFICES ASSUME NEW w \in 0..8 PROVE 2 * 2^w = 256 <=> w = 7
    OBVIOUS
  <2>1. w \in {0, 1, 2, 3, 4, 5, 6, 7, 8}
    OBVIOUS
  <2>2. 2 * power[w] = 256 <=> w = 7
    BY <1>2, <2>1
  <2>3. 2 * 2^w = 2 * power[w]
    BY <1>3, Zenon
  <2> QED BY <2>2, <2>3, Zenon
<1>6. Weight(4) = 6
  BY <1>4 DEF Weight
<1>7. Weight(2) = 7
  BY <1>5 DEF Weight
<1> QED BY <1>6, <1>7

LEMMA BestFacts ==
    /\ \A b \in Byte : Best[b] \in Byte
    /\ Best[{}] = {}
    /\ \A b \in Byte \ {{}} : Best[b] # {} /\ Weight(Count(b, Best[b])) = 6
<1>1. \A n : FromInt(n) \in Byte
  BY DEF FromInt, Byte
<1>2. \A b \in Byte : Best[b] = FromInt(FirstLargest(DDT[ToInt(b)]))
  BY Zenon DEF Best
<1>3. \A b \in Byte \ {{}} : Best[b] # {} /\ Count(b, Best[b]) = 4
  BY UniformityAssumption
<1> QED BY <1>1, <1>2, <1>3, Weights, UniformityAssumption

LEMMA NextType ==
    ASSUME NEW d \in State
    PROVE  SubBest(d) \in State /\ shift_rows(SubBest(d)) \in State /\ NextDifference(d) \in State
<1>1. SubBest(d) \in State
  BY BestFacts DEF SubBest, State
<1>2. shift_rows(SubBest(d)) \in State
  BY <1>1, ShiftInverse
<1>3. mix_columns(shift_rows(SubBest(d))) \in State
  BY <1>2, MixInverse
<1> QED BY <1>1, <1>2, <1>3 DEF NextDifference, mix_columns_pattern, shift_rows_pattern

LEMMA ZeroTimes == \A c \in Coefficients : GF_MUL[c][{}] = {}
<1>1. {} \in Byte /\ {} ++ {} = {}
  BY DEF Byte, ++
<1>2. ASSUME NEW c \in Coefficients PROVE GF_MUL[c][{}] = {}
  <2>1. GF_MUL[c][{}] = GF_MUL[c][{}] ++ GF_MUL[c][{}]
    BY <1>1, TableAssumption
  <2>2. \A u : u ++ u = {}
    BY DEF ++
  <2> QED BY <2>1, <2>2
<1> QED BY <1>2

LEMMA ZeroMixed == NoDifference \in State /\ mix_columns(NoDifference) = NoDifference
<1>1. {} \in Byte
  BY DEF Byte
<1>2. NoDifference \in State
  BY <1>1 DEF NoDifference, State
<1>3. \A c \in Coefficients : GF_MUL[c][{}] = {}
  BY ZeroTimes
<1>4. ASSUME NEW x \in Cells PROVE mix_columns(NoDifference)[x] = {}
  <2>1. \A k \in Index : MIX[(k - x[1]) % 4] \in Coefficients
    BY Matrices, CellFacts, IndexFacts
  <2>2. \A k \in Index : NoDifference[<<k, x[2]>>] = {}
    BY CellFacts DEF NoDifference
  <2> DEFINE f == [k \in Index |-> GF_MUL[MIX[(k - x[1]) % 4]][NoDifference[<<k, x[2]>>]]]
  <2>3. \A k \in Index : f[k] = {}
    BY <1>3, <2>1, <2>2
  <2> HIDE DEF f
  <2>4. Sum(f) = {}
    BY <2>3 DEF Sum, ++, Index
  <2> QED BY <2>4 DEF mix_columns, Times, f
<1>5. mix_columns(NoDifference) \in State
  BY <1>2, MixInverse
<1>6. mix_columns(NoDifference) = NoDifference
  BY <1>4, <1>5 DEF State, NoDifference
<1> QED BY <1>2, <1>6

LEMMA NextActive ==
    ASSUME NEW d \in State, ActiveBytes(d) # {}
    PROVE  ActiveBytes(NextDifference(d)) # {}
<1> DEFINE s == shift_rows(SubBest(d))
<1>1. SubBest(d) \in State /\ s \in State
  BY NextType
<1>2. PICK x \in Cells : d[x] # {}
  BY DEF ActiveBytes
<1>3. SubBest(d)[x] # {}
  <2>1. d[x] \in Byte \ {{}}
    BY <1>2 DEF State
  <2> QED BY <2>1, BestFacts DEF SubBest
<1>4. s # NoDifference
  <2>1. inv_shift_rows(s) = SubBest(d)
    BY <1>1, ShiftInverse
  <2>2. inv_shift_rows(NoDifference) = NoDifference
    <3>1. \A y \in Cells : <<y[1], (y[2] - y[1]) % 4>> \in Cells
      BY CellFacts, IndexFacts
    <3> QED BY <3>1 DEF inv_shift_rows, NoDifference
  <2>3. SubBest(d) # NoDifference
    BY <1>3 DEF NoDifference
  <2> QED BY <2>1, <2>2, <2>3
<1> HIDE DEF s
<1>5. mix_columns(s) # NoDifference
  BY <1>1, <1>4, ZeroMixed, MixInverse
<1>6. \A t \in State : t # NoDifference => ActiveBytes(t) # {}
  BY DEF State, NoDifference, ActiveBytes
<1>7. NextDifference(d) = mix_columns(s) /\ mix_columns(s) \in State
  BY <1>1, MixInverse DEF NextDifference, mix_columns_pattern, shift_rows_pattern, s
<1> QED BY <1>5, <1>6, <1>7

LEMMA Turns ==
    /\ \A a, j \in Index : (j - a) % 4 \in Index
    /\ \A a, b, j, k \in Index : ((k + j) - b) % 4 \in Index
    /\ \A a, b, j, k \in Index :
          (((k + j) % 4) - b) % 4 = (((k - ((b - a) % 4)) % 4) + ((j - a) % 4)) % 4
    /\ \A a, j, k \in Index : (((k - a) % 4) - ((j - a) % 4)) % 4 = (k - j) % 4
<1>1. \A a, j \in Index : (j - a) % 4 \in Index
  BY DEF Index
<1>2. \A a, b, j, k \in Index : ((k + j) - b) % 4 \in Index
  BY DEF Index
<1>3. \A a, b, j, k \in Index :
          (((k + j) % 4) - b) % 4 = (((k - ((b - a) % 4)) % 4) + ((j - a) % 4)) % 4
  BY DEF Index
<1>4. \A a, j, k \in Index : (((k - a) % 4) - ((j - a) % 4)) % 4 = (k - j) % 4
  BY DEF Index
<1> QED BY <1>1, <1>2, <1>3, <1>4

LEMMA SumTurned ==
    ASSUME NEW f, NEW a \in Index
    PROVE  Sum([k \in Index |-> f[(k - a) % 4]]) = Sum(f)
<1> DEFINE g == [k \in Index |-> f[(k - a) % 4]]
<1>0. \A a1, k \in Index : (k - a1) % 4 = IF k >= a1 THEN k - a1 ELSE (k - a1) + 4
  BY DEF Index
<1>1. \A u, v, w, z : ((u ++ v) ++ w) ++ z = ((v ++ w) ++ z) ++ u
  BY DEF ++
<1>2. CASE a = 0
  <2>1. g[0] = f[0] /\ g[1] = f[1] /\ g[2] = f[2] /\ g[3] = f[3]
    BY <1>2 DEF Index
  <2> HIDE DEF g
  <2> QED BY <2>1 DEF Sum, g
<1>3. CASE a = 1
  <2>0. (0 - 1) % 4 = 3 /\ (1 - 1) % 4 = 0 /\ (2 - 1) % 4 = 1 /\ (3 - 1) % 4 = 2
    BY <1>0 DEF Index
  <2>1. g[0] = f[3] /\ g[1] = f[0] /\ g[2] = f[1] /\ g[3] = f[2]
    BY <1>3, <2>0 DEF Index
  <2> HIDE DEF g
  <2>2. Sum(g) = Sum(f)
    BY <1>1, <2>1 DEF Sum
  <2> QED BY <2>2 DEF g
<1>4. CASE a = 2
  <2>0. (0 - 2) % 4 = 2 /\ (1 - 2) % 4 = 3 /\ (2 - 2) % 4 = 0 /\ (3 - 2) % 4 = 1
    BY <1>0 DEF Index
  <2>1. g[0] = f[2] /\ g[1] = f[3] /\ g[2] = f[0] /\ g[3] = f[1]
    BY <1>4, <2>0 DEF Index
  <2> HIDE DEF g
  <2>2. Sum(g) = Sum(f)
    BY <1>1, <2>1 DEF Sum
  <2> QED BY <2>2 DEF g
<1>5. CASE a = 3
  <2>0. (0 - 3) % 4 = 1 /\ (1 - 3) % 4 = 2 /\ (2 - 3) % 4 = 3 /\ (3 - 3) % 4 = 0
    BY <1>0 DEF Index
  <2>1. g[0] = f[1] /\ g[1] = f[2] /\ g[2] = f[3] /\ g[3] = f[0]
    BY <1>5, <2>0 DEF Index
  <2> HIDE DEF g
  <2>2. Sum(g) = Sum(f)
    BY <1>1, <2>1 DEF Sum
  <2> QED BY <2>2 DEF g
<1> QED BY <1>2, <1>3, <1>4, <1>5 DEF Index

LEMMA RotatedType ==
    ASSUME NEW d \in State, NEW a \in Index, NEW b \in Index
    PROVE  Rotated(d, a, b) \in State
<1>1. \A x \in Cells : <<(x[1] - a) % 4, (x[2] - b) % 4>> \in Cells
  BY CellFacts, IndexFacts
<1> QED BY <1>1 DEF Rotated, State

LEMMA RotatedSub ==
    ASSUME NEW d \in State, NEW a \in Index, NEW b \in Index
    PROVE  SubBest(Rotated(d, a, b)) = Rotated(SubBest(d), a, b)
<1>1. \A x \in Cells : <<(x[1] - a) % 4, (x[2] - b) % 4>> \in Cells
  BY CellFacts, IndexFacts
<1> QED BY <1>1 DEF Rotated, SubBest

LEMMA RotatedShift ==
    ASSUME NEW d \in State, NEW a \in Index, NEW b \in Index
    PROVE  shift_rows(Rotated(d, a, b)) = Rotated(shift_rows(d), a, (b - a) % 4)
<1> DEFINE e == (b - a) % 4
<1>1. ASSUME NEW x \in Cells
      PROVE  shift_rows(Rotated(d, a, b))[x] = Rotated(shift_rows(d), a, e)[x]
  <2>1. x[1] \in Index /\ x[2] \in Index
    BY CellFacts
  <2> DEFINE w == (x[1] - a) % 4
             c == (x[2] + x[1]) % 4
             q == (x[2] - e) % 4
  <2>2. e \in Index /\ w \in Index /\ c \in Index /\ q \in Index
    BY <2>1, IndexFacts
  <2>3. (c - b) % 4 = (q + w) % 4
    <3>1. \A j, k \in Index :
              (((k + j) % 4) - b) % 4 = (((k - ((b - a) % 4)) % 4) + ((j - a) % 4)) % 4
      BY Turns, Zenon
    <3>2. (((x[2] + x[1]) % 4) - b) % 4 = (((x[2] - ((b - a) % 4)) % 4) + ((x[1] - a) % 4)) % 4
      BY <2>1, <3>1, Zenon
    <3> QED BY <3>2, Zenon
  <2>4. <<x[1], c>> \in Cells /\ <<w, q>> \in Cells
    BY <2>1, <2>2, CellFacts
  <2> HIDE DEF w, c, q, e
  <2>5. shift_rows(Rotated(d, a, b))[x] = d[<<w, (c - b) % 4>>]
    BY <2>4 DEF shift_rows, Rotated, c, w
  <2>6. Rotated(shift_rows(d), a, e)[x] = d[<<w, (q + w) % 4>>]
    BY <2>4 DEF shift_rows, Rotated, q, w
  <2> QED BY <2>3, <2>5, <2>6
<1> HIDE DEF e
<1>2. /\ shift_rows(Rotated(d, a, b)) = [x \in Cells |-> shift_rows(Rotated(d, a, b))[x]]
      /\ Rotated(shift_rows(d), a, e) = [x \in Cells |-> Rotated(shift_rows(d), a, e)[x]]
  BY DEF shift_rows, Rotated
<1>3. shift_rows(Rotated(d, a, b)) = Rotated(shift_rows(d), a, e)
  BY <1>1, <1>2
<1> QED BY <1>3 DEF e

LEMMA RotatedMix ==
    ASSUME NEW d \in State, NEW a \in Index, NEW b \in Index
    PROVE  mix_columns(Rotated(d, a, b)) = Rotated(mix_columns(d), a, b)
<1> DEFINE Terms(s, x) == [k \in Index |-> GF_MUL[MIX[(k - x[1]) % 4]][s[<<k, x[2]>>]]]
<1>1. \A s : \A x \in Cells : mix_columns(s)[x] = Sum(Terms(s, x))
  BY DEF mix_columns, Times
<1>2. ASSUME NEW x \in Cells
      PROVE  mix_columns(Rotated(d, a, b))[x] = Rotated(mix_columns(d), a, b)[x]
  <2>1. x[1] \in Index /\ x[2] \in Index
    BY CellFacts
  <2> DEFINE y == <<(x[1] - a) % 4, (x[2] - b) % 4>>
             f == Terms(d, y)
  <2>2. y \in Cells /\ y[1] = (x[1] - a) % 4 /\ y[2] = (x[2] - b) % 4
    BY <2>1, IndexFacts, CellFacts
  <2>3. ASSUME NEW k \in Index
        PROVE  Terms(Rotated(d, a, b), x)[k] = f[(k - a) % 4]
    <3> DEFINE j == (k - a) % 4
    <3>1. j \in Index /\ (j - y[1]) % 4 = (k - x[1]) % 4
      <4>1. \A i1 \in Index : (((k - a) % 4) - ((i1 - a) % 4)) % 4 = (k - i1) % 4
        BY Turns
      <4>2. (j - ((x[1] - a) % 4)) % 4 = (k - x[1]) % 4
        BY <2>1, <4>1, Zenon
      <4>3. j \in Index
        BY IndexFacts
      <4> HIDE DEF j, y
      <4> QED BY <2>1, <2>2, <4>2, <4>3 DEF Index
    <3>2. <<k, x[2]>> \in Cells
      BY <2>1, CellFacts
    <3>3. Rotated(d, a, b)[<<k, x[2]>>] = d[<<j, y[2]>>]
      BY <2>2, <3>2 DEF Rotated
    <3> HIDE DEF j, y
    <3> QED BY <3>1, <3>3 DEF j
  <2> HIDE DEF y
  <2>4. Terms(Rotated(d, a, b), x) = [k \in Index |-> f[(k - a) % 4]]
    BY <2>3
  <2> HIDE DEF f, Terms
  <2>5. Sum(Terms(Rotated(d, a, b), x)) = Sum(f)
    BY <2>4, SumTurned
  <2>6. Rotated(mix_columns(d), a, b)[x] = mix_columns(d)[y]
    BY DEF Rotated, y
  <2> QED BY <1>1, <2>2, <2>5, <2>6 DEF f
<1>3. /\ mix_columns(Rotated(d, a, b)) = [x \in Cells |-> mix_columns(Rotated(d, a, b))[x]]
      /\ Rotated(mix_columns(d), a, b) = [x \in Cells |-> Rotated(mix_columns(d), a, b)[x]]
  BY DEF mix_columns, Times, Rotated
<1> QED BY <1>2, <1>3

LEMMA RotatedNext ==
    ASSUME NEW d \in State, NEW a \in Index, NEW b \in Index
    PROVE  /\ (b - a) % 4 \in Index
           /\ NextDifference(Rotated(d, a, b)) = Rotated(NextDifference(d), a, (b - a) % 4)
<1>1. (b - a) % 4 \in Index
  BY Turns
<1>2. SubBest(d) \in State /\ shift_rows(SubBest(d)) \in State
  BY NextType
<1>3. shift_rows(SubBest(Rotated(d, a, b))) = Rotated(shift_rows(SubBest(d)), a, (b - a) % 4)
  BY <1>2, RotatedSub, RotatedShift
<1>4. mix_columns(Rotated(shift_rows(SubBest(d)), a, (b - a) % 4))
          = Rotated(mix_columns(shift_rows(SubBest(d))), a, (b - a) % 4)
  BY <1>1, <1>2, RotatedMix
<1> QED BY <1>1, <1>3, <1>4 DEF NextDifference, mix_columns_pattern, shift_rows_pattern

LEMMA SingleRotated ==
    ASSUME NEW n \in 0..15
    PROVE  /\ n \div 4 \in Index /\ n % 4 \in Index
           /\ Single(0) \in State /\ ActiveBytes(Single(0)) # {}
           /\ Single(n) = Rotated(Single(0), n \div 4, n % 4)
<1>1. n \div 4 \in Index /\ n % 4 \in Index
  BY DEF Index
<1>2. 0 \div 4 = 0 /\ 0 % 4 = 0 /\ 0 \in Index
  BY DEF Index
<1>3. \A m \in 0..15 : Single(m) = [x \in Cells |-> IF x = <<m \div 4, m % 4>> THEN {0} ELSE {}]
  BY DEF Single, NoDifference
<1>4. Single(0) = [x \in Cells |-> IF x = <<0, 0>> THEN {0} ELSE {}]
  BY <1>2, <1>3
<1>5. Single(0) \in State
  <2>1. {0} \in Byte /\ {} \in Byte
    BY DEF Byte
  <2> QED BY <1>4, <2>1 DEF State
<1>6. ActiveBytes(Single(0)) # {}
  <2>1. <<0, 0>> \in Cells
    BY <1>2, CellFacts
  <2> QED BY <1>4, <2>1 DEF ActiveBytes
<1>7. Single(n) = Rotated(Single(0), n \div 4, n % 4)
  <2> DEFINE a == n \div 4
             b == n % 4
  <2>1. ASSUME NEW x \in Cells
        PROVE  Single(n)[x] = Rotated(Single(0), a, b)[x]
    <3>1. x[1] \in Index /\ x[2] \in Index /\ x = <<x[1], x[2]>>
      BY CellFacts
    <3>2. \A i1, j \in Index : (i1 - j) % 4 = 0 <=> i1 = j
      BY DEF Index
    <3>3. <<(x[1] - a) % 4, (x[2] - b) % 4>> \in Cells
      BY <1>1, <3>1, IndexFacts, CellFacts
    <3>4. x = <<a, b>> <=> <<(x[1] - a) % 4, (x[2] - b) % 4>> = <<0, 0>>
      BY <1>1, <3>1, <3>2
    <3> HIDE DEF a, b
    <3>5. Single(n)[x] = IF x = <<a, b>> THEN {0} ELSE {}
      BY <1>3 DEF a, b
    <3> QED BY <1>4, <3>3, <3>4, <3>5 DEF Rotated
  <2>2. Single(n) = [x \in Cells |-> Single(n)[x]] /\ Rotated(Single(0), a, b) = [x \in Cells |-> Rotated(Single(0), a, b)[x]]
    BY <1>3 DEF Rotated
  <2> HIDE DEF a, b
  <2>3. Single(n) = Rotated(Single(0), a, b)
    BY <2>1, <2>2
  <2> QED BY <2>3 DEF a, b
<1> QED BY <1>1, <1>5, <1>6, <1>7

(***************************************************************************)
(* What a round costs is six for every byte that differs: AddUp goes       *)
(* through the cells by their numbers.                                     *)
(***************************************************************************)
Numbered(d, n) == {x \in ActiveBytes(d) : 4 * x[1] + x[2] < n}

LEMMA ActiveFinite == \A d : IsFiniteSet(ActiveBytes(d))
<1>1. \A d : ActiveBytes(d) \subseteq Cells
  BY DEF ActiveBytes
<1> QED BY <1>1, CellCount, FS_Subset

LEMMA NumberedEnds ==
    \A d : Cardinality(Numbered(d, 0)) = 0 /\ Numbered(d, 16) = ActiveBytes(d)
<1>1. \A x \in Cells : ~(4 * x[1] + x[2] < 0) /\ 4 * x[1] + x[2] < 16
  BY CellFacts DEF Index
<1>2. \A d : Numbered(d, 0) = {} /\ Numbered(d, 16) = ActiveBytes(d)
  BY <1>1 DEF Numbered, ActiveBytes
<1> QED BY <1>2, FS_EmptySet

LEMMA NumberedStep ==
    ASSUME NEW d \in State, NEW n \in 0..15
    PROVE  /\ <<n \div 4, n % 4>> \in Cells
           /\ Cardinality(Numbered(d, n)) \in Nat
           /\ Cardinality(Numbered(d, n + 1))
                = Cardinality(Numbered(d, n)) + (IF d[<<n \div 4, n % 4>>] = {} THEN 0 ELSE 1)
<1> DEFINE c == <<n \div 4, n % 4>>
<1>1. /\ c \in Cells /\ c[1] = n \div 4 /\ c[2] = n % 4
      /\ 4 * c[1] + c[2] = n
  <2>1. n \div 4 \in Index /\ n % 4 \in Index /\ 4 * (n \div 4) + (n % 4) = n
    BY DEF Index
  <2> QED BY <2>1 DEF Cells
<1>2. \A x \in Cells : 4 * x[1] + x[2] = n <=> x = c
  <2>1. ASSUME NEW x \in Cells, 4 * x[1] + x[2] = n PROVE x = c
    <3>1. x[1] \in Index /\ x[2] \in Index /\ x = <<x[1], x[2]>>
      BY CellFacts
    <3>2. x[1] = n \div 4 /\ x[2] = n % 4
      BY <2>1, <3>1 DEF Index
    <3> QED BY <3>1, <3>2
  <2> QED BY <1>1, <2>1
<1> HIDE DEF c
<1>3. /\ Numbered(d, n + 1) = IF d[c] = {} THEN Numbered(d, n) ELSE Numbered(d, n) \cup {c}
      /\ c \notin Numbered(d, n)
  <2>1. \A x \in Cells : 4 * x[1] + x[2] < n + 1 <=> 4 * x[1] + x[2] < n \/ x = c
    <3>1. \A x \in Cells : 4 * x[1] + x[2] \in Int
      BY CellFacts DEF Index
    <3>2. \A m \in Int : m < n + 1 <=> m < n \/ m = n
      OBVIOUS
    <3> QED BY <1>2, <3>1, <3>2
  <2>2. \A x : x \in ActiveBytes(d) <=> x \in Cells /\ d[x] # {}
    BY DEF ActiveBytes
  <2>3. \A x : x \in Numbered(d, n + 1) <=> x \in Numbered(d, n) \/ (x = c /\ d[c] # {})
    BY <1>1, <2>1, <2>2 DEF Numbered
  <2>4. c \notin Numbered(d, n)
    BY <1>1 DEF Numbered
  <2> QED BY <2>3, <2>4
<1>4. IsFiniteSet(Numbered(d, n))
  <2>1. Numbered(d, n) \subseteq ActiveBytes(d)
    BY DEF Numbered
  <2> QED BY <2>1, ActiveFinite, FS_Subset
<1>5. Cardinality(Numbered(d, n)) \in Nat
  BY <1>4, FS_CardinalityType
<1>6. Cardinality(Numbered(d, n) \cup {c}) = Cardinality(Numbered(d, n)) + 1
  BY <1>3, <1>4, FS_AddElement
<1> QED BY <1>1, <1>3, <1>5, <1>6 DEF c

LEMMA AddUpSteps ==
    ASSUME NEW n \in Nat, NEW f \in [0..n-1 -> Nat]
    PROVE  \E s \in [0..n -> Nat] :
               s[0] = 0 /\ (\A k \in 0..n-1 : s[k + 1] = s[k] + f[k]) /\ AddUp(f, n) = s[n]
<1> DEFINE Sums(m, s) == s \in [0..m -> Nat] /\ s[0] = 0 /\ \A k \in 0..m-1 : s[k + 1] = s[k] + f[k]
           c == CHOOSE s : s = [k \in 0..n |-> IF k = 0 THEN 0 ELSE s[k - 1] + f[k - 1]]
<1>1. \E s : Sums(n, s)
  <2> DEFINE T == {m \in Nat : m <= n /\ ~(\E s : Sums(m, s))}
  <2> SUFFICES ASSUME ~(\E s : Sums(n, s)) PROVE FALSE
    OBVIOUS
  <2>0. T # {}
    <3>1. n \in Nat /\ n <= n
      OBVIOUS
    <3> HIDE DEF Sums
    <3> QED BY <3>1
  <2>1. PICK m \in T : \A j \in T : m <= j
    <3>1. T \subseteq Nat
      OBVIOUS
    <3> HIDE DEF T
    <3> QED BY <2>0, <3>1, Least
  <2>2. m # 0
    <3>1. Sums(0, [k \in 0..0 |-> 0])
      OBVIOUS
    <3> HIDE DEF Sums
    <3> QED BY <2>1, <3>1
  <2>3. m \in 1..n /\ m - 1 \in Nat /\ m - 1 \in 0..n-1
    BY <2>1, <2>2
  <2>4. PICK s : Sums(m - 1, s)
    <3> HIDE DEF Sums
    <3> QED BY <2>1, <2>3
  <2> DEFINE t == [k \in 0..m |-> IF k = m THEN s[m - 1] + f[m - 1] ELSE s[k]]
  <2>5. Sums(m, t)
    <3>1. s[m - 1] \in Nat /\ f[m - 1] \in Nat
      BY <2>3, <2>4
    <3>2. t \in [0..m -> Nat] /\ t[0] = 0
      BY <2>3, <2>4, <3>1
    <3>3. ASSUME NEW k \in 0..m-1 PROVE t[k + 1] = t[k] + f[k]
      <4>1. CASE k = m - 1
        BY <2>3, <4>1
      <4>2. CASE k # m - 1
        <5>1. k \in 0..(m-1)-1 /\ k + 1 # m /\ k # m /\ k + 1 \in 0..m /\ k \in 0..m
          BY <2>3, <4>2
        <5> QED BY <2>4, <5>1
      <4> QED BY <4>1, <4>2
    <3> HIDE DEF t
    <3> QED BY <3>2, <3>3
  <2> HIDE DEF Sums
  <2> QED BY <2>1, <2>5
<1>2. PICK h : Sums(n, h)
  BY <1>1
<1>3. h = [k \in 0..n |-> IF k = 0 THEN 0 ELSE h[k - 1] + f[k - 1]]
  <2>1. ASSUME NEW k \in 0..n PROVE h[k] = IF k = 0 THEN 0 ELSE h[k - 1] + f[k - 1]
    <3>1. CASE k = 0
      BY <1>2, <3>1
    <3>2. CASE k # 0
      <4>1. k - 1 \in 0..n-1 /\ (k - 1) + 1 = k
        BY <3>2
      <4> QED BY <1>2, <3>2, <4>1
    <3> QED BY <3>1, <3>2
  <2>2. h = [k \in 0..n |-> h[k]]
    BY <1>2
  <2> QED BY <2>1, <2>2
<1>4. c = [k \in 0..n |-> IF k = 0 THEN 0 ELSE c[k - 1] + f[k - 1]]
  BY <1>3, Zenon
<1> HIDE DEF c
<1>5. c[0] = 0 /\ \A k \in 0..n-1 : c[k + 1] = c[k] + f[k]
  <2>1. c[0] = 0
    BY <1>4
  <2>2. ASSUME NEW k \in 0..n-1 PROVE c[k + 1] = c[k] + f[k]
    <3>1. k + 1 \in 0..n /\ k + 1 # 0 /\ (k + 1) - 1 = k
      OBVIOUS
    <3> QED BY <1>4, <3>1
  <2> QED BY <2>1, <2>2
<1>6. \A k \in 0..n : c[k] = h[k]
  <2> DEFINE T == {k \in 0..n : c[k] # h[k]}
  <2> SUFFICES ASSUME T # {} PROVE FALSE
    OBVIOUS
  <2>1. PICK k \in T : \A j \in T : k <= j
    <3>1. T \subseteq Nat
      OBVIOUS
    <3> HIDE DEF T
    <3> QED BY <3>1, Least
  <2>2. k # 0
    BY <1>2, <1>5, <2>1
  <2>3. k - 1 \in 0..n-1 /\ (k - 1) + 1 = k /\ k - 1 \in 0..n
    BY <2>1, <2>2
  <2>4. c[k - 1] = h[k - 1]
    BY <2>1, <2>3
  <2>5. c[k] = c[k - 1] + f[k - 1] /\ h[k] = h[k - 1] + f[k - 1]
    BY <1>2, <1>5, <2>3
  <2> QED BY <2>1, <2>4, <2>5
<1>7. c \in [0..n -> Nat]
  <2>1. \A k \in 0..n : c[k] \in Nat
    BY <1>2, <1>6
  <2> QED BY <1>4, <2>1
<1>8. AddUp(f, n) = c[n]
  BY Zenon DEF AddUp, c
<1> QED BY <1>5, <1>7, <1>8

LEMMA CostOfCells ==
    ASSUME NEW d \in State, NEW f \in [0..15 -> Nat],
           \A n \in 0..15 : d[<<n \div 4, n % 4>>] # {} => f[n] >= 6
    PROVE  /\ AddUp(f, 16) \in Nat /\ AddUp(f, 16) >= 6 * Cardinality(ActiveBytes(d))
           /\ (\A n \in 0..15 : f[n] = IF d[<<n \div 4, n % 4>>] = {} THEN 0 ELSE 6)
                  => AddUp(f, 16) = 6 * Cardinality(ActiveBytes(d))
<1> DEFINE on(n) == IF d[<<n \div 4, n % 4>>] = {} THEN 0 ELSE 1
           card(n) == Cardinality(Numbered(d, n))
<1>1. PICK s \in [0..16 -> Nat] : s[0] = 0 /\ (\A k \in 0..15 : s[k + 1] = s[k] + f[k]) /\ AddUp(f, 16) = s[16]
  <2>1. 16 \in Nat /\ 0..16-1 = 0..15
    OBVIOUS
  <2>2. f \in [0..16-1 -> Nat]
    BY <2>1
  <2> HIDE DEF on, card
  <2>3. \E s \in [0..16 -> Nat] :
            s[0] = 0 /\ (\A k \in 0..16-1 : s[k + 1] = s[k] + f[k]) /\ AddUp(f, 16) = s[16]
    BY <2>1, <2>2, AddUpSteps
  <2> QED BY <2>1, <2>3
<1>2. card(0) = 0
  BY NumberedEnds
<1>3. card(16) = Cardinality(ActiveBytes(d))
  BY NumberedEnds
<1>4. \A n \in 0..15 : card(n) \in Nat /\ card(n + 1) = card(n) + on(n)
  BY NumberedStep
<1>5. \A n \in 0..15 : on(n) \in {0, 1} /\ f[n] >= 6 * on(n)
  <2> SUFFICES ASSUME NEW n \in 0..15 PROVE on(n) \in {0, 1} /\ f[n] >= 6 * on(n)
    OBVIOUS
  <2>1. f[n] \in Nat
    OBVIOUS
  <2> QED BY <2>1
<1>6. (\A n \in 0..15 : f[n] = IF d[<<n \div 4, n % 4>>] = {} THEN 0 ELSE 6)
          => \A n \in 0..15 : f[n] = 6 * on(n)
  OBVIOUS
<1> HIDE DEF on, card
<1>7. \A n \in 0..16 : s[n] >= 6 * card(n) /\ ((\A k \in 0..15 : f[k] = 6 * on(k)) => s[n] = 6 * card(n))
  <2> DEFINE P(n) == s[n] >= 6 * card(n) /\ ((\A k \in 0..15 : f[k] = 6 * on(k)) => s[n] = 6 * card(n))
             T == {n \in 0..16 : ~P(n)}
  <2> SUFFICES ASSUME T # {} PROVE FALSE
    OBVIOUS
  <2>1. PICK n \in T : \A j \in T : n <= j
    <3>1. T \subseteq Nat
      OBVIOUS
    <3> HIDE DEF T
    <3> QED BY <3>1, Least
  <2>2. n # 0
    BY <1>1, <1>2, <2>1
  <2>3. n - 1 \in 0..15 /\ (n - 1) + 1 = n /\ n - 1 \in 0..16
    BY <2>1, <2>2
  <2>4. P(n - 1)
    <3> HIDE DEF P
    <3> QED BY <2>1, <2>3
  <2>5. s[n] = s[n - 1] + f[n - 1] /\ card(n) = card(n - 1) + on(n - 1)
    BY <1>1, <1>4, <2>3
  <2>6. s[n - 1] \in Nat /\ card(n - 1) \in Nat /\ f[n - 1] \in Nat /\ on(n - 1) \in {0, 1} /\ f[n - 1] >= 6 * on(n - 1)
    BY <1>4, <1>5, <2>3
  <2>7. s[n] >= 6 * card(n)
    BY <2>4, <2>5, <2>6
  <2>8. (\A k \in 0..15 : f[k] = 6 * on(k)) => s[n] = 6 * card(n)
    <3> SUFFICES ASSUME \A k \in 0..15 : f[k] = 6 * on(k) PROVE s[n] = 6 * card(n)
      OBVIOUS
    <3>1. f[n - 1] = 6 * on(n - 1) /\ s[n - 1] = 6 * card(n - 1)
      BY <2>3, <2>4
    <3> QED BY <2>5, <2>6, <3>1
  <2> QED BY <2>1, <2>7, <2>8
<1>8. 16 \in 0..16
  OBVIOUS
<1>9. s[16] >= 6 * card(16) /\ ((\A k \in 0..15 : f[k] = 6 * on(k)) => s[16] = 6 * card(16))
  BY <1>7, <1>8
<1>10. s[16] \in Nat
  BY <1>1, <1>8
<1>11. /\ AddUp(f, 16) \in Nat /\ AddUp(f, 16) >= 6 * Cardinality(ActiveBytes(d))
       /\ (\A k \in 0..15 : f[k] = 6 * on(k)) => AddUp(f, 16) = 6 * Cardinality(ActiveBytes(d))
  BY <1>1, <1>3, <1>9, <1>10
<1> QED BY <1>6, <1>11

LEMMA CostOfActive ==
    ASSUME NEW d \in State
    PROVE  SubWeight(d) = 6 * Cardinality(ActiveBytes(d))
<1> DEFINE f == Costs(d, SubBest(d))
<1>1. ASSUME NEW n \in 0..15 PROVE f[n] = IF d[<<n \div 4, n % 4>>] = {} THEN 0 ELSE 6
  <2> DEFINE x == <<n \div 4, n % 4>>
  <2>1. x \in Cells
    BY NumberedStep
  <2>2. d[x] \in Byte /\ SubBest(d)[x] = Best[d[x]]
    BY <2>1 DEF State, SubBest
  <2>3. f[n] = IF d[x] = {} THEN 0 ELSE Weight(Count(d[x], SubBest(d)[x]))
    BY DEF Costs
  <2> HIDE DEF x, f
  <2>4. f[n] = IF d[x] = {} THEN 0 ELSE 6
    BY <2>2, <2>3, BestFacts
  <2> QED BY <2>4 DEF x
<1>2. f = [n \in 0..15 |-> f[n]]
  BY DEF Costs
<1> HIDE DEF f
<1>3. f \in [0..15 -> Nat]
  <2>1. \A n \in 0..15 : f[n] \in Nat
    BY <1>1
  <2> QED BY <1>2, <2>1
<1>4. \A n \in 0..15 : d[<<n \div 4, n % 4>>] # {} => f[n] >= 6
  BY <1>1
<1>5. AddUp(f, 16) = 6 * Cardinality(ActiveBytes(d))
  BY <1>1, <1>3, <1>4, CostOfCells
<1> QED BY <1>5 DEF SubWeight, f

LEMMA CostRotated ==
    ASSUME NEW d \in State, NEW a \in Index, NEW b \in Index
    PROVE  /\ SubWeight(Rotated(d, a, b)) = SubWeight(d)
           /\ SubWeight(d) \in Nat
           /\ ActiveBytes(d) # {} => SubWeight(d) > 0
<1> DEFINE S == ActiveBytes(Rotated(d, a, b))
           T == ActiveBytes(d)
           turn == [x \in S |-> <<(x[1] - a) % 4, (x[2] - b) % 4>>]
<1>1. \A i1, k \in Index : \A j \in Index : (i1 - j) % 4 = k <=> i1 = (k + j) % 4
  BY DEF Index
<1>2. \A x \in Cells : <<(x[1] - a) % 4, (x[2] - b) % 4>> \in Cells
  BY CellFacts, IndexFacts
<1>3. turn \in [S -> T]
  BY <1>2 DEF ActiveBytes, Rotated
<1>4. \A x, y \in S : turn[x] = turn[y] => x = y
  <2> SUFFICES ASSUME NEW x \in S, NEW y \in S, turn[x] = turn[y] PROVE x = y
    OBVIOUS
  <2>1. x \in Cells /\ y \in Cells
    BY DEF ActiveBytes
  <2>2. /\ x[1] \in Index /\ x[2] \in Index /\ x = <<x[1], x[2]>>
        /\ y[1] \in Index /\ y[2] \in Index /\ y = <<y[1], y[2]>>
    BY <2>1, CellFacts
  <2>3. (x[1] - a) % 4 = (y[1] - a) % 4 /\ (x[2] - b) % 4 = (y[2] - b) % 4
    OBVIOUS
  <2>4. x[1] = y[1] /\ x[2] = y[2]
    BY <1>1, <2>2, <2>3, IndexFacts
  <2> QED BY <2>2, <2>4
<1>5. \A y \in T : \E x \in S : turn[x] = y
  <2> SUFFICES ASSUME NEW y \in T PROVE \E x \in S : turn[x] = y
    OBVIOUS
  <2>1. y \in Cells /\ d[y] # {}
    BY DEF ActiveBytes
  <2>2. y[1] \in Index /\ y[2] \in Index /\ y = <<y[1], y[2]>>
    BY <2>1, CellFacts
  <2> DEFINE x == <<(y[1] + a) % 4, (y[2] + b) % 4>>
  <2>3. x \in Cells /\ x[1] = (y[1] + a) % 4 /\ x[2] = (y[2] + b) % 4
    BY <2>2, IndexFacts, CellFacts
  <2>4. (x[1] - a) % 4 = y[1] /\ (x[2] - b) % 4 = y[2]
    BY <1>1, <2>2, <2>3, IndexFacts
  <2> HIDE DEF x
  <2>5. Rotated(d, a, b)[x] = d[y]
    BY <2>2, <2>3, <2>4 DEF Rotated
  <2>6. x \in S
    BY <2>1, <2>3, <2>5 DEF ActiveBytes
  <2> QED BY <2>2, <2>4, <2>6
<1>6. turn \in Bijection(S, T)
  BY <1>3, <1>4, <1>5, Fun_IsBij
<1>7. ExistsBijection(S, T) /\ IsFiniteSet(S) /\ IsFiniteSet(T)
  BY <1>6, ActiveFinite DEF ExistsBijection
<1>8. Cardinality(T) = Cardinality(S)
  BY <1>7, FS_Bijection
<1>9. Cardinality(T) \in Nat /\ (T # {} => Cardinality(T) # 0)
  BY <1>7, FS_CardinalityType, FS_EmptySet
<1>10. SubWeight(d) = 6 * Cardinality(T) /\ SubWeight(Rotated(d, a, b)) = 6 * Cardinality(S)
  BY RotatedType, CostOfActive
<1> HIDE DEF S, T
<1>11. SubWeight(d) \in Nat /\ SubWeight(Rotated(d, a, b)) = SubWeight(d) /\ (T # {} => SubWeight(d) > 0)
  BY <1>8, <1>9, <1>10
<1> QED BY <1>11 DEF T

(***************************************************************************)
(* The trail of the start in the upper left corner: the smallest set with  *)
(* the start, and with the next step of each of its steps, a step being a  *)
(* depth, a difference and a weight.                                       *)
(***************************************************************************)
Steps == Nat \X State \X Nat

Follows(P) ==
    /\ <<0, Single(0), 0>> \in P
    /\ \A k \in Nat, d \in State, w \in Nat :
          <<k, d, w>> \in P => <<k + 1, NextDifference(d), w + SubWeight(d)>> \in P

Trail == {p \in Steps : \A P \in SUBSET Steps : Follows(P) => p \in P}

LEMMA StepTypes ==
    /\ <<0, Single(0), 0>> \in Steps
    /\ \A k \in Nat, d \in State, w \in Nat :
          <<k + 1, NextDifference(d), w + SubWeight(d)>> \in Steps
<1>1. 0 \in 0..15 /\ 0 \in Index
  BY DEF Index
<1>2. Single(0) \in State
  BY <1>1, SingleRotated
<1>3. \A d \in State : NextDifference(d) \in State /\ SubWeight(d) \in Nat
  BY <1>1, NextType, CostRotated
<1> QED BY <1>2, <1>3 DEF Steps

LEMMA TrailFollows == Trail \subseteq Steps /\ Follows(Trail)
<1>1. <<0, Single(0), 0>> \in Trail
  BY StepTypes DEF Trail, Follows
<1>2. ASSUME NEW k \in Nat, NEW d \in State, NEW w \in Nat, <<k, d, w>> \in Trail
      PROVE  <<k + 1, NextDifference(d), w + SubWeight(d)>> \in Trail
  <2>1. ASSUME NEW P \in SUBSET Steps, Follows(P)
        PROVE  <<k + 1, NextDifference(d), w + SubWeight(d)>> \in P
    <3>1. <<k, d, w>> \in P
      BY <1>2, <2>1 DEF Trail
    <3> QED BY <2>1, <3>1 DEF Follows
  <2> QED BY <2>1, StepTypes DEF Trail
<1> QED BY <1>1, <1>2 DEF Trail, Follows

LEMMA TrailLeast ==
    ASSUME NEW P \in SUBSET Trail, Follows(P)
    PROVE  P = Trail
BY DEF Trail

LEMMA TrailActive ==
    \A k \in Nat, d \in State, w \in Nat : <<k, d, w>> \in Trail => ActiveBytes(d) # {}
<1> DEFINE P == {p \in Trail : ActiveBytes(p[2]) # {}}
<1>1. Follows(P)
  <2>1. <<0, Single(0), 0>> \in P
    <3>1. 0 \in 0..15
      OBVIOUS
    <3> QED BY <3>1, SingleRotated, TrailFollows DEF Follows
  <2>2. ASSUME NEW k \in Nat, NEW d \in State, NEW w \in Nat, <<k, d, w>> \in P
        PROVE  <<k + 1, NextDifference(d), w + SubWeight(d)>> \in P
    <3>1. ActiveBytes(d) # {} /\ <<k, d, w>> \in Trail
      BY <2>2
    <3>2. ActiveBytes(NextDifference(d)) # {}
      BY <3>1, NextActive
    <3> QED BY <3>1, <3>2, TrailFollows DEF Follows
  <2> HIDE DEF P
  <2> QED BY <2>1, <2>2 DEF Follows
<1>2. P = Trail
  BY <1>1, TrailLeast
<1> QED BY <1>2

LEMMA TrailBack ==
    ASSUME NEW k \in Nat, NEW d \in State, NEW w \in Nat, <<k, d, w>> \in Trail
    PROVE  \/ k = 0 /\ d = Single(0) /\ w = 0
           \/ \E e \in State, v \in Nat :
                 /\ k > 0 /\ <<k - 1, e, v>> \in Trail
                 /\ d = NextDifference(e) /\ w = v + SubWeight(e)
<1> SUFFICES ASSUME ~(k = 0 /\ d = Single(0) /\ w = 0),
                    \A e \in State, v \in Nat :
                        ~(/\ k > 0 /\ <<k - 1, e, v>> \in Trail
                          /\ d = NextDifference(e) /\ w = v + SubWeight(e))
             PROVE  FALSE
  OBVIOUS
<1> DEFINE P == Trail \ {<<k, d, w>>}
<1>1. <<0, Single(0), 0>> \in P
  BY TrailFollows DEF Follows
<1>2. ASSUME NEW j \in Nat, NEW e \in State, NEW v \in Nat, <<j, e, v>> \in P
      PROVE  <<j + 1, NextDifference(e), v + SubWeight(e)>> \in P
  <2>1. <<j, e, v>> \in Trail
    BY <1>2
  <2>2. <<j + 1, NextDifference(e), v + SubWeight(e)>> \in Trail
    BY <2>1, TrailFollows DEF Follows
  <2>3. <<j + 1, NextDifference(e), v + SubWeight(e)>> # <<k, d, w>>
    <3> SUFFICES ASSUME j + 1 = k, NextDifference(e) = d, v + SubWeight(e) = w PROVE FALSE
      OBVIOUS
    <3>1. k - 1 = j /\ k > 0
      OBVIOUS
    <3> QED BY <2>1, <3>1
  <2> QED BY <2>2, <2>3
<1> HIDE DEF P
<1>3. Follows(P)
  BY <1>1, <1>2 DEF Follows
<1>4. P = Trail
  BY <1>3, TrailLeast DEF P
<1> QED BY <1>4 DEF P

(***************************************************************************)
(* There is one step of every depth, and its weight grows with the depth.  *)
(***************************************************************************)
SameStep(k) ==
    \A d, e \in State, v, w \in Nat :
        <<k, d, w>> \in Trail /\ <<k, e, v>> \in Trail => d = e /\ w = v

LEMMA OneStep == \A k \in Nat : SameStep(k)
<1> DEFINE T == {k \in Nat : ~SameStep(k)}
<1> SUFFICES ASSUME T # {} PROVE FALSE
  OBVIOUS
<1>1. PICK k \in T : \A m \in T : k <= m
  BY Least
<1>2. k \in Nat /\ ~SameStep(k)
  BY <1>1
<1>3. k > 0 => SameStep(k - 1)
  BY <1>1
<1> HIDE DEF T
<1>4. PICK d \in State, e \in State, v \in Nat, w \in Nat :
         <<k, d, w>> \in Trail /\ <<k, e, v>> \in Trail /\ ~(d = e /\ w = v)
  BY <1>2 DEF SameStep
<1>5. CASE k = 0
  <2>0. ~(k > 0)
    BY <1>5
  <2>1. d = Single(0) /\ w = 0
    BY <1>2, <1>4, <2>0, TrailBack, Zenon
  <2>2. e = Single(0) /\ v = 0
    BY <1>2, <1>4, <2>0, TrailBack, Zenon
  <2> QED BY <1>4, <2>1, <2>2
<1>6. CASE k # 0
  <2>1. PICK d1 \in State, w1 \in Nat :
           <<k - 1, d1, w1>> \in Trail /\ d = NextDifference(d1) /\ w = w1 + SubWeight(d1)
    BY <1>2, <1>4, <1>6, TrailBack
  <2>2. PICK e1 \in State, v1 \in Nat :
           <<k - 1, e1, v1>> \in Trail /\ e = NextDifference(e1) /\ v = v1 + SubWeight(e1)
    BY <1>2, <1>4, <1>6, TrailBack
  <2>3. d1 = e1 /\ w1 = v1
    BY <1>2, <1>3, <1>6, <2>1, <2>2 DEF SameStep
  <2> QED BY <1>4, <2>1, <2>2, <2>3
<1> QED BY <1>5, <1>6

Heavier(k, w, j) == \A e \in State, v \in Nat : <<j, e, v>> \in Trail => w < v

LEMMA TrailGrows ==
    ASSUME NEW k \in Nat, NEW d \in State, NEW w \in Nat, <<k, d, w>> \in Trail,
           NEW m \in Nat, k < m
    PROVE  Heavier(k, w, m)
<1> DEFINE T == {j \in Nat : k < j /\ ~Heavier(k, w, j)}
<1> SUFFICES ASSUME T # {} PROVE FALSE
  OBVIOUS
<1>1. PICK n \in T : \A j \in T : n <= j
  BY Least
<1>2. n \in Nat /\ k < n /\ ~Heavier(k, w, n)
  BY <1>1
<1>3. n - 1 > k => Heavier(k, w, n - 1)
  BY <1>1
<1> HIDE DEF T
<1>4. PICK e \in State, v \in Nat : <<n, e, v>> \in Trail /\ ~(w < v)
  BY <1>2 DEF Heavier
<1>5. PICK e1 \in State, v1 \in Nat :
         <<n - 1, e1, v1>> \in Trail /\ e = NextDifference(e1) /\ v = v1 + SubWeight(e1)
  BY <1>2, <1>4, TrailBack
<1>6. SubWeight(e1) \in Nat /\ SubWeight(e1) > 0
  <2>1. n - 1 \in Nat /\ 0 \in Index
    BY <1>2 DEF Index
  <2>2. ActiveBytes(e1) # {}
    BY <1>5, <2>1, TrailActive
  <2> QED BY <2>1, <2>2, CostRotated
<1>7. CASE n - 1 > k
  <2>1. w < v1
    BY <1>3, <1>5, <1>7 DEF Heavier
  <2> QED BY <1>4, <1>5, <1>6, <2>1
<1>8. CASE n - 1 = k
  <2>1. w = v1
    BY <1>5, <1>8, OneStep DEF SameStep
  <2> QED BY <1>4, <1>5, <1>6, <2>1
<1> QED BY <1>2, <1>7, <1>8

-----------------------------------------------------------------------------
(***************************************************************************)
(* The inductive invariant: where the search is, its difference is that of *)
(* the one trail, rotated, and its weight the same; the best trail found   *)
(* is the whole of it; and no node has been passed by.                     *)
(***************************************************************************)
Placed ==
    /\ doing \in {"rounds", "starts", "search_round"}
    /\ g_target_rounds \in Nat \ {0} /\ from \in 0..16
    /\ doing = "search_round" => from < 16 /\ depth \in 0..g_target_rounds

OnTrail ==
    doing = "search_round" =>
        \E d \in State, a \in Index, b \in Index :
            difference = Rotated(d, a, b) /\ weight \in Nat /\ <<depth, d, weight>> \in Trail

BestOnTrail ==
    doing \in {"starts", "search_round"} =>
        \/ g_best = NoTrail /\ from = 0
        \/ g_best \in Nat /\ \E d \in State : <<g_target_rounds, d, g_best>> \in Trail

NodesCounted ==
    /\ doing = "starts" => g_nodes_visited = from * (g_target_rounds + 1)
    /\ doing = "search_round" => g_nodes_visited = from * (g_target_rounds + 1) + depth
    /\ \A line \in results : line.nodes = 16 * (line.rounds + 1)

TrailInv == Placed /\ OnTrail /\ BestOnTrail /\ NodesCounted

LEMMA NotPruned ==
    ASSUME TrailInv, doing = "search_round"
    PROVE  /\ StartsAlike
           /\ ~Hopeless(weight)
           /\ depth < g_target_rounds => ~Hopeless(weight + SubWeight(difference))
<1>1. PICK d \in State, a \in Index, b \in Index :
         difference = Rotated(d, a, b) /\ weight \in Nat /\ <<depth, d, weight>> \in Trail
  BY DEF TrailInv, OnTrail
<1>2. depth \in Nat /\ g_target_rounds \in Nat /\ depth <= g_target_rounds
  BY DEF TrailInv, Placed
<1>3. SubWeight(difference) = SubWeight(d) /\ SubWeight(d) \in Nat
  BY <1>1, CostRotated
<1>4. \A line \in results : line.nodes = 16 * (line.rounds + 1)
  BY DEF TrailInv, NodesCounted
<1>5. CASE g_best = NoTrail
  BY <1>4, <1>5 DEF StartsAlike, Hopeless
<1>6. CASE g_best # NoTrail
  <2>1. PICK e \in State : g_best \in Nat /\ <<g_target_rounds, e, g_best>> \in Trail
    BY <1>6 DEF TrailInv, BestOnTrail
  <2>2. depth = g_target_rounds => weight = g_best
    BY <1>1, <1>2, <2>1, OneStep DEF SameStep
  <2>3. depth < g_target_rounds => weight < g_best
    BY <1>1, <1>2, <2>1, TrailGrows DEF Heavier
  <2>4. depth < g_target_rounds => weight + SubWeight(d) <= g_best
    <3> SUFFICES ASSUME depth < g_target_rounds PROVE weight + SubWeight(d) <= g_best
      OBVIOUS
    <3>1. <<depth + 1, NextDifference(d), weight + SubWeight(d)>> \in Trail
      BY <1>1, <1>2, TrailFollows DEF Follows
    <3>2. NextDifference(d) \in State /\ weight + SubWeight(d) \in Nat /\ depth + 1 \in Nat
      BY <1>1, <1>2, <1>3, NextType
    <3>3. CASE depth + 1 = g_target_rounds
      BY <2>1, <3>1, <3>2, <3>3, OneStep DEF SameStep
    <3>4. CASE depth + 1 < g_target_rounds
      <4>1. Heavier(depth + 1, weight + SubWeight(d), g_target_rounds)
        BY <1>2, <3>1, <3>2, <3>4, TrailGrows
      <4>2. weight + SubWeight(d) < g_best
        BY <2>1, <4>1 DEF Heavier
      <4> QED BY <2>1, <3>2, <4>2
    <3> QED BY <1>2, <3>3, <3>4
  <2>5. ~Hopeless(weight)
    BY <1>1, <1>2, <2>1, <2>2, <2>3 DEF Hopeless
  <2>6. depth < g_target_rounds => ~Hopeless(weight + SubWeight(difference))
    BY <1>1, <1>3, <2>1, <2>4 DEF Hopeless
  <2>7. StartsAlike
    BY <1>2, <1>4, <2>2, <2>3 DEF StartsAlike
  <2> QED BY <2>5, <2>6, <2>7
<1> QED BY <1>5, <1>6

LEMMA TrailInitInv == TrailInit => TrailInv
BY DEF TrailInit, TrailInv, Placed, OnTrail, BestOnTrail, NodesCounted

LEMMA RunSearchInv == TrailInv /\ RunSearch => TrailInv'
<1> SUFFICES ASSUME TrailInv, RunSearch PROVE TrailInv'
  OBVIOUS
<1>1. g_target_rounds \in Nat /\ 0 * (g_target_rounds + 1) = 0
  BY DEF TrailInv, Placed
<1> QED BY <1>1 DEF RunSearch, TrailInv, Placed, OnTrail, BestOnTrail, NodesCounted

LEMMA StartFromInv == TrailInv /\ StartFrom => TrailInv'
<1> SUFFICES ASSUME TrailInv, StartFrom PROVE TrailInv'
  OBVIOUS
<1>1. from \in 0..15 /\ g_target_rounds \in Nat /\ 0 \in 0..15
  BY DEF StartFrom, TrailInv, Placed
<1>2. Placed'
  BY <1>1 DEF StartFrom, TrailInv, Placed
<1>3. OnTrail'
  <2>1. /\ from \div 4 \in Index /\ from % 4 \in Index /\ Single(0) \in State
        /\ difference' = Rotated(Single(0), from \div 4, from % 4)
    BY <1>1, SingleRotated DEF StartFrom
  <2>2. depth' = 0 /\ weight' = 0 /\ <<0, Single(0), 0>> \in Trail
    BY TrailFollows DEF StartFrom, Follows
  <2>3. \E d \in State, a \in Index, b \in Index :
            difference' = Rotated(d, a, b) /\ weight' \in Nat /\ <<depth', d, weight'>> \in Trail
    BY <2>1, <2>2
  <2> QED BY <2>3 DEF OnTrail
<1>4. BestOnTrail'
  BY DEF StartFrom, TrailInv, BestOnTrail
<1>5. NodesCounted'
  <2>1. from * (g_target_rounds + 1) \in Int
    BY <1>1
  <2> QED BY <2>1 DEF StartFrom, TrailInv, NodesCounted
<1> QED BY <1>2, <1>3, <1>4, <1>5 DEF TrailInv

LEMMA SearchRoundInv == TrailInv /\ SearchRound => TrailInv'
<1> SUFFICES ASSUME TrailInv, SearchRound PROVE TrailInv'
  OBVIOUS
<1>1. doing = "search_round" /\ g_target_rounds' = g_target_rounds /\ results' = results
      /\ g_nodes_visited' = g_nodes_visited + 1
  BY DEF SearchRound
<1>2. /\ from \in 0..15 /\ g_target_rounds \in Nat \ {0} /\ depth \in Nat /\ depth <= g_target_rounds
      /\ g_nodes_visited = from * (g_target_rounds + 1) + depth
  BY <1>1 DEF TrailInv, Placed, NodesCounted
<1>3. PICK d \in State, a \in Index, b \in Index :
         difference = Rotated(d, a, b) /\ weight \in Nat /\ <<depth, d, weight>> \in Trail
  BY <1>1 DEF TrailInv, OnTrail
<1>4. ~Hopeless(weight) /\ (depth < g_target_rounds => ~Hopeless(weight + SubWeight(difference)))
  BY <1>1, NotPruned
<1>5. \A line \in results : line.nodes = 16 * (line.rounds + 1)
  BY DEF TrailInv, NodesCounted
<1>6. CASE depth = g_target_rounds
  <2>1. Complete
    BY <1>4, <1>6 DEF SearchRound
  <2>2. doing' = "starts" /\ from' = from + 1
    BY <2>1 DEF Complete, Back
  <2>3. g_best' \in Nat /\ \E e \in State : <<g_target_rounds, e, g_best'>> \in Trail
    <3>1. CASE g_best = NoTrail \/ weight < g_best
      <4>1. g_best' = weight
        BY <2>1, <3>1 DEF Complete
      <4> QED BY <1>3, <1>6, <4>1
    <3>2. CASE ~(g_best = NoTrail \/ weight < g_best)
      <4>1. g_best' = g_best
        BY <2>1, <3>2 DEF Complete
      <4> QED BY <1>1, <3>2, <4>1 DEF TrailInv, BestOnTrail
    <3> QED BY <3>1, <3>2
  <2>4. g_nodes_visited' = (from + 1) * (g_target_rounds + 1)
    <3>1. \A f, t \in Nat : (f + 1) * (t + 1) = f * (t + 1) + t + 1
      OBVIOUS
    <3>2. from \in Nat /\ (from + 1) * (g_target_rounds + 1) = from * (g_target_rounds + 1) + g_target_rounds + 1
      BY <1>2, <3>1
    <3> QED BY <1>1, <1>2, <1>6, <3>2
  <2>5. Placed' /\ OnTrail'
    BY <1>1, <1>2, <2>2 DEF Placed, OnTrail
  <2>6. BestOnTrail'
    BY <1>1, <2>3 DEF BestOnTrail
  <2>7. NodesCounted'
    BY <1>1, <1>5, <2>2, <2>4 DEF NodesCounted
  <2> QED BY <2>5, <2>6, <2>7 DEF TrailInv
<1>7. CASE depth # g_target_rounds
  <2>1. depth < g_target_rounds
    BY <1>2, <1>7
  <2>2. Descend /\ UNCHANGED <<g_best, g_best_trail_active_bytes>>
    BY <1>4, <1>7, <2>1 DEF SearchRound
  <2>3. doing' = doing /\ from' = from /\ depth' = depth + 1 /\ g_best' = g_best
        /\ weight' = weight + SubWeight(difference) /\ difference' = NextDifference(difference)
    BY <2>2 DEF Descend, NextDifference
  <2>4. /\ (b - a) % 4 \in Index /\ NextDifference(d) \in State
        /\ difference' = Rotated(NextDifference(d), a, (b - a) % 4)
    BY <1>3, <2>3, RotatedNext, NextType
  <2>5. weight' = weight + SubWeight(d) /\ SubWeight(d) \in Nat
    BY <1>3, <2>3, CostRotated
  <2>6. <<depth + 1, NextDifference(d), weight + SubWeight(d)>> \in Trail
    BY <1>2, <1>3, TrailFollows DEF Follows
  <2>7. \E e \in State, r1 \in Index, c1 \in Index :
            difference' = Rotated(e, r1, c1) /\ weight' \in Nat /\ <<depth', e, weight'>> \in Trail
    <3>1. weight' \in Nat /\ <<depth', NextDifference(d), weight'>> \in Trail
      BY <1>3, <2>3, <2>5, <2>6
    <3> QED BY <2>4, <3>1
  <2>8. OnTrail'
    BY <2>7 DEF OnTrail
  <2>9. Placed'
    BY <1>1, <1>2, <2>1, <2>3 DEF Placed
  <2>10. BestOnTrail'
    BY <1>1, <2>3 DEF TrailInv, BestOnTrail
  <2>11. NodesCounted'
    <3>1. from * (g_target_rounds + 1) \in Int
      BY <1>2
    <3>2. g_nodes_visited' = from * (g_target_rounds + 1) + depth'
      BY <1>1, <1>2, <2>3, <3>1
    <3> QED BY <1>1, <1>5, <2>3, <3>2 DEF NodesCounted
  <2> QED BY <2>8, <2>9, <2>10, <2>11 DEF TrailInv
<1> QED BY <1>6, <1>7

LEMMA PrintLineInv == TrailInv /\ PrintLine => TrailInv'
<1> SUFFICES ASSUME TrailInv, PrintLine PROVE TrailInv'
  OBVIOUS
<1>1. from = 16 /\ doing = "starts" /\ g_target_rounds \in Nat /\ doing' = "rounds"
  BY DEF PrintLine, TrailInv, Placed
<1>2. g_nodes_visited = 16 * (g_target_rounds + 1)
  BY <1>1 DEF TrailInv, NodesCounted
<1>3. \A line \in results' : line.nodes = 16 * (line.rounds + 1)
  <2> SUFFICES ASSUME NEW line \in results' PROVE line.nodes = 16 * (line.rounds + 1)
    OBVIOUS
  <2>1. CASE line \in results
    BY <2>1 DEF TrailInv, NodesCounted
  <2>2. CASE line \notin results
    <3>1. line = [rounds |-> g_target_rounds, weight |-> g_best, nodes |-> g_nodes_visited]
      BY <2>2 DEF PrintLine
    <3> QED BY <1>2, <3>1
  <2> QED BY <2>1, <2>2
<1>4. Placed' /\ OnTrail' /\ BestOnTrail'
  BY <1>1 DEF PrintLine, TrailInv, Placed, OnTrail, BestOnTrail
<1> QED BY <1>1, <1>3, <1>4 DEF TrailInv, NodesCounted

LEMMA TrailInductive == TrailSpec => []TrailInv
<1>1. TrailInv /\ UNCHANGED trailVars => TrailInv'
  BY DEF trailVars, TrailInv, Placed, OnTrail, BestOnTrail, NodesCounted
<1>2. TrailInv /\ [TrailNext]_trailVars => TrailInv'
  BY <1>1, RunSearchInv, StartFromInv, SearchRoundInv, PrintLineInv, Zenon DEF TrailNext
<1> QED BY <1>2, TrailInitInv, PTL DEF TrailSpec

(***************************************************************************)
(* For every S-box of uniformity 4 and every circulant matrix that can be  *)
(* undone, and for every number of rounds: the 16 starts are one search,   *)
(* none of them is pruned, and each visits one node a round (the comment   *)
(* in run_search(), lines 235-237, which the program relies on).           *)
(***************************************************************************)
THEOREM StartsAreOne == (TrailSpec => []StartsAlike) /\ (AnalysisSpec => []StartsAlike)
<1>1. TrailInv => StartsAlike
  <2>1. TrailInv /\ doing # "search_round" => StartsAlike
    BY DEF TrailInv, NodesCounted, StartsAlike
  <2> QED BY <2>1, NotPruned
<1>2. TrailSpec => []StartsAlike
  BY <1>1, TrailInductive, PTL
<1> QED BY <1>2, SessionsRunTheParts, PTL

LEMMA SumDiffers ==
    ASSUME NEW f, NEW g, NEW j \in Index, \A k \in Index : k # j => f[k] = g[k]
    PROVE  Sum(f) = Sum(g) <=> f[j] = g[j]
<1>1. 0 \in Index /\ 1 \in Index /\ 2 \in Index /\ 3 \in Index
  BY DEF Index
<1>2. f[j] = g[j] => Sum(f) = Sum(g)
  <2> SUFFICES ASSUME f[j] = g[j] PROVE Sum(f) = Sum(g)
    OBVIOUS
  <2>1. \A k \in Index : f[k] = g[k]
    OBVIOUS
  <2> QED BY <1>1, <2>1 DEF Sum
<1>3. \A u, y, v, w, z : ((y ++ v) ++ w) ++ z = ((u ++ v) ++ w) ++ z => y = u
  BY DEF ++
<1>4. \A u, y, v, w, z : ((v ++ y) ++ w) ++ z = ((v ++ u) ++ w) ++ z => y = u
  BY DEF ++
<1>5. \A u, y, v, w, z : ((v ++ w) ++ y) ++ z = ((v ++ w) ++ u) ++ z => y = u
  BY DEF ++
<1>6. \A u, y, v, w, z : ((v ++ w) ++ z) ++ y = ((v ++ w) ++ z) ++ u => y = u
  BY DEF ++
<1>7. CASE j = 0
  <2>1. f[1] = g[1] /\ f[2] = g[2] /\ f[3] = g[3]
    BY <1>1, <1>7
  <2> QED BY <1>2, <1>3, <1>7, <2>1 DEF Sum
<1>8. CASE j = 1
  <2>1. f[0] = g[0] /\ f[2] = g[2] /\ f[3] = g[3]
    BY <1>1, <1>8
  <2> QED BY <1>2, <1>4, <1>8, <2>1 DEF Sum
<1>9. CASE j = 2
  <2>1. f[0] = g[0] /\ f[1] = g[1] /\ f[3] = g[3]
    BY <1>1, <1>9
  <2> QED BY <1>2, <1>5, <1>9, <2>1 DEF Sum
<1>10. CASE j = 3
  <2>1. f[0] = g[0] /\ f[1] = g[1] /\ f[2] = g[2]
    BY <1>1, <1>10
  <2> QED BY <1>2, <1>6, <1>10, <2>1 DEF Sum
<1> QED BY <1>7, <1>8, <1>9, <1>10 DEF Index

-----------------------------------------------------------------------------
(***************************************************************************)
(* The bound of the wide trails.  A column with a difference has at least  *)
(* five that are not zero before and after MixColumns.                     *)
(***************************************************************************)
Bit(d, row, c) == IF d[<<row, c>>] = {} THEN 0 ELSE 1
InColumn(d, c) == ((Bit(d, 0, c) + Bit(d, 1, c)) + Bit(d, 2, c)) + Bit(d, 3, c)

LEMMA BitType == \A d, row, c : Bit(d, row, c) \in {0, 1}
BY DEF Bit

LEMMA ColumnType == \A d, c : InColumn(d, c) \in 0..4
<1> SUFFICES ASSUME NEW d, NEW c PROVE InColumn(d, c) \in 0..4
  OBVIOUS
<1>1. Bit(d, 0, c) \in {0, 1} /\ Bit(d, 1, c) \in {0, 1} /\ Bit(d, 2, c) \in {0, 1} /\ Bit(d, 3, c) \in {0, 1}
  BY BitType
<1> QED BY <1>1 DEF InColumn

(***************************************************************************)
(* How many bytes differ, column by column.                                *)
(***************************************************************************)
LEMMA ActiveColumns ==
    ASSUME NEW d \in State
    PROVE  Cardinality(ActiveBytes(d)) = ((InColumn(d, 0) + InColumn(d, 1)) + InColumn(d, 2)) + InColumn(d, 3)
<1> DEFINE card(n) == Cardinality(Numbered(d, n))
<1>1. card(0) = 0
  BY NumberedEnds
<1>2. card(16) = Cardinality(ActiveBytes(d))
  BY NumberedEnds
<1>3. \A n \in 0..15 : card(n) \in Nat /\ card(n + 1) = card(n) + Bit(d, n \div 4, n % 4)
  BY NumberedStep DEF Bit
<1> HIDE DEF card
<1>4. /\ card(4) = card(0) + (((Bit(d, 0, 0) + Bit(d, 0, 1)) + Bit(d, 0, 2)) + Bit(d, 0, 3))
      /\ card(0) \in Nat /\ card(4) \in Nat
  <2>1. /\ 0 \div 4 = 0 /\ 1 \div 4 = 0 /\ 2 \div 4 = 0 /\ 3 \div 4 = 0
        /\ 0 % 4 = 0 /\ 1 % 4 = 1 /\ 2 % 4 = 2 /\ 3 % 4 = 3
        /\ 0 + 1 = 1 /\ 1 + 1 = 2 /\ 2 + 1 = 3 /\ 3 + 1 = 4
    OBVIOUS
  <2>2. 0 \in 0..15 /\ 1 \in 0..15 /\ 2 \in 0..15 /\ 3 \in 0..15 /\ 4 \in 0..15
    OBVIOUS
  <2>3. /\ card(1) = card(0) + Bit(d, 0, 0) /\ card(2) = card(1) + Bit(d, 0, 1)
        /\ card(3) = card(2) + Bit(d, 0, 2) /\ card(4) = card(3) + Bit(d, 0, 3)
    BY <1>3, <2>1, <2>2
  <2>4. card(0) \in Nat /\ card(4) \in Nat
    BY <1>3, <2>2
  <2> QED BY <2>3, <2>4, BitType
<1>5. /\ card(8) = card(4) + (((Bit(d, 1, 0) + Bit(d, 1, 1)) + Bit(d, 1, 2)) + Bit(d, 1, 3))
      /\ card(8) \in Nat
  <2>1. /\ 4 \div 4 = 1 /\ 5 \div 4 = 1 /\ 6 \div 4 = 1 /\ 7 \div 4 = 1
        /\ 4 % 4 = 0 /\ 5 % 4 = 1 /\ 6 % 4 = 2 /\ 7 % 4 = 3
        /\ 4 + 1 = 5 /\ 5 + 1 = 6 /\ 6 + 1 = 7 /\ 7 + 1 = 8
    OBVIOUS
  <2>2. 4 \in 0..15 /\ 5 \in 0..15 /\ 6 \in 0..15 /\ 7 \in 0..15 /\ 8 \in 0..15
    OBVIOUS
  <2>3. /\ card(5) = card(4) + Bit(d, 1, 0) /\ card(6) = card(5) + Bit(d, 1, 1)
        /\ card(7) = card(6) + Bit(d, 1, 2) /\ card(8) = card(7) + Bit(d, 1, 3)
    BY <1>3, <2>1, <2>2
  <2>4. card(4) \in Nat /\ card(8) \in Nat
    BY <1>3, <2>2
  <2> QED BY <2>3, <2>4, BitType
<1>6. /\ card(12) = card(8) + (((Bit(d, 2, 0) + Bit(d, 2, 1)) + Bit(d, 2, 2)) + Bit(d, 2, 3))
      /\ card(12) \in Nat
  <2>1. /\ 8 \div 4 = 2 /\ 9 \div 4 = 2 /\ 10 \div 4 = 2 /\ 11 \div 4 = 2
        /\ 8 % 4 = 0 /\ 9 % 4 = 1 /\ 10 % 4 = 2 /\ 11 % 4 = 3
        /\ 8 + 1 = 9 /\ 9 + 1 = 10 /\ 10 + 1 = 11 /\ 11 + 1 = 12
    OBVIOUS
  <2>2. 8 \in 0..15 /\ 9 \in 0..15 /\ 10 \in 0..15 /\ 11 \in 0..15 /\ 12 \in 0..15
    OBVIOUS
  <2>3. /\ card(9) = card(8) + Bit(d, 2, 0) /\ card(10) = card(9) + Bit(d, 2, 1)
        /\ card(11) = card(10) + Bit(d, 2, 2) /\ card(12) = card(11) + Bit(d, 2, 3)
    BY <1>3, <2>1, <2>2
  <2>4. card(8) \in Nat /\ card(12) \in Nat
    BY <1>3, <2>2
  <2> QED BY <2>3, <2>4, BitType
<1>7. card(16) = card(12) + (((Bit(d, 3, 0) + Bit(d, 3, 1)) + Bit(d, 3, 2)) + Bit(d, 3, 3))
  <2>1. /\ 12 \div 4 = 3 /\ 13 \div 4 = 3 /\ 14 \div 4 = 3 /\ 15 \div 4 = 3
        /\ 12 % 4 = 0 /\ 13 % 4 = 1 /\ 14 % 4 = 2 /\ 15 % 4 = 3
        /\ 12 + 1 = 13 /\ 13 + 1 = 14 /\ 14 + 1 = 15 /\ 15 + 1 = 16
    OBVIOUS
  <2>2. 12 \in 0..15 /\ 13 \in 0..15 /\ 14 \in 0..15 /\ 15 \in 0..15
    OBVIOUS
  <2>3. /\ card(13) = card(12) + Bit(d, 3, 0) /\ card(14) = card(13) + Bit(d, 3, 1)
        /\ card(15) = card(14) + Bit(d, 3, 2) /\ card(16) = card(15) + Bit(d, 3, 3)
    BY <1>3, <2>1, <2>2
  <2>4. card(12) \in Nat
    BY <1>3, <2>2
  <2> QED BY <2>3, <2>4, BitType
<1>8. /\ Bit(d, 0, 0) \in Int /\ Bit(d, 0, 1) \in Int /\ Bit(d, 0, 2) \in Int /\ Bit(d, 0, 3) \in Int
      /\ Bit(d, 1, 0) \in Int /\ Bit(d, 1, 1) \in Int /\ Bit(d, 1, 2) \in Int /\ Bit(d, 1, 3) \in Int
      /\ Bit(d, 2, 0) \in Int /\ Bit(d, 2, 1) \in Int /\ Bit(d, 2, 2) \in Int /\ Bit(d, 2, 3) \in Int
      /\ Bit(d, 3, 0) \in Int /\ Bit(d, 3, 1) \in Int /\ Bit(d, 3, 2) \in Int /\ Bit(d, 3, 3) \in Int
  BY BitType
<1>9. card(16) = ((InColumn(d, 0) + InColumn(d, 1)) + InColumn(d, 2)) + InColumn(d, 3)
  BY <1>1, <1>4, <1>5, <1>6, <1>7, <1>8 DEF InColumn
<1> QED BY <1>2, <1>9

LEMMA ActiveShifted ==
    ASSUME NEW d \in State
    PROVE  Cardinality(ActiveBytes(shift_rows(d))) = Cardinality(ActiveBytes(d))
<1>1. shift_rows(d) \in State
  BY ShiftInverse
<1>2. \A row, c \in Index : Bit(shift_rows(d), row, c) = Bit(d, row, (c + row) % 4)
  <2> SUFFICES ASSUME NEW row \in Index, NEW c \in Index
               PROVE  Bit(shift_rows(d), row, c) = Bit(d, row, (c + row) % 4)
    OBVIOUS
  <2>1. <<row, c>> \in Cells
    BY CellFacts
  <2>2. shift_rows(d)[<<row, c>>] = d[<<row, (c + row) % 4>>]
    BY <2>1 DEF shift_rows
  <2> QED BY <2>2 DEF Bit
<1>3. Index = {0, 1, 2, 3}
  BY DEF Index
<1>4. /\ (0 + 0) % 4 = 0 /\ (1 + 0) % 4 = 1 /\ (2 + 0) % 4 = 2 /\ (3 + 0) % 4 = 3
      /\ (0 + 1) % 4 = 1 /\ (1 + 1) % 4 = 2 /\ (2 + 1) % 4 = 3 /\ (3 + 1) % 4 = 0
      /\ (0 + 2) % 4 = 2 /\ (1 + 2) % 4 = 3 /\ (2 + 2) % 4 = 0 /\ (3 + 2) % 4 = 1
      /\ (0 + 3) % 4 = 3 /\ (1 + 3) % 4 = 0 /\ (2 + 3) % 4 = 1 /\ (3 + 3) % 4 = 2
  OBVIOUS
<1> DEFINE s == shift_rows(d)
<1> HIDE DEF s
<1>5. /\ Bit(s, 0, 0) = Bit(d, 0, 0) /\ Bit(s, 0, 1) = Bit(d, 0, 1)
      /\ Bit(s, 0, 2) = Bit(d, 0, 2) /\ Bit(s, 0, 3) = Bit(d, 0, 3)
  BY <1>2, <1>3, <1>4 DEF s
<1>6. /\ Bit(s, 1, 0) = Bit(d, 1, 1) /\ Bit(s, 1, 1) = Bit(d, 1, 2)
      /\ Bit(s, 1, 2) = Bit(d, 1, 3) /\ Bit(s, 1, 3) = Bit(d, 1, 0)
  BY <1>2, <1>3, <1>4 DEF s
<1>7. /\ Bit(s, 2, 0) = Bit(d, 2, 2) /\ Bit(s, 2, 1) = Bit(d, 2, 3)
      /\ Bit(s, 2, 2) = Bit(d, 2, 0) /\ Bit(s, 2, 3) = Bit(d, 2, 1)
  BY <1>2, <1>3, <1>4 DEF s
<1>8. /\ Bit(s, 3, 0) = Bit(d, 3, 3) /\ Bit(s, 3, 1) = Bit(d, 3, 0)
      /\ Bit(s, 3, 2) = Bit(d, 3, 1) /\ Bit(s, 3, 3) = Bit(d, 3, 2)
  BY <1>2, <1>3, <1>4 DEF s
<1>9. ((InColumn(s, 0) + InColumn(s, 1)) + InColumn(s, 2)) + InColumn(s, 3)
        = ((InColumn(d, 0) + InColumn(d, 1)) + InColumn(d, 2)) + InColumn(d, 3)
  BY <1>5, <1>6, <1>7, <1>8, BitType DEF InColumn
<1> QED BY <1>1, <1>9, ActiveColumns DEF s

(***************************************************************************)
(* The branch number of the matrix.                                        *)
(***************************************************************************)
LEMMA OneSpreads ==
    ASSUME NEW A \in [Index -> Coefficients], NEW s \in State, NEW c \in Index
    PROVE  /\ (\A k \in Index : s[<<k, c>>] = {}) => \A row \in Index : Times(A, s)[<<row, c>>] = {}
           /\ \A j \in Index :
                 s[<<j, c>>] # {} /\ (\A k \in Index : k # j => s[<<k, c>>] = {})
                     => \A row \in Index : Times(A, s)[<<row, c>>] # {}
<1>1. NoDifference \in State /\ {} \in Byte
  BY ZeroMixed DEF Byte
<1>2. \A e \in Coefficients : GF_MUL[e][{}] = {}
  BY ZeroTimes
<1>3. ASSUME NEW row \in Index
      PROVE  Times(A, s)[<<row, c>>] = Sum([k \in Index |-> GF_MUL[A[(k - row) % 4]][s[<<k, c>>]]])
  <2>1. <<row, c>> \in Cells /\ <<row, c>>[1] = row /\ <<row, c>>[2] = c
    BY CellFacts
  <2> QED BY <2>1 DEF Times
<1>4. \A k, row \in Index : A[(k - row) % 4] \in Coefficients
  BY IndexFacts
<1>5. \A k \in Index : s[<<k, c>>] \in Byte
  BY CellFacts DEF State
<1>6. ASSUME NEW row \in Index, \A k \in Index : s[<<k, c>>] = {}
      PROVE  Times(A, s)[<<row, c>>] = {}
  <2> DEFINE f == [k \in Index |-> GF_MUL[A[(k - row) % 4]][s[<<k, c>>]]]
  <2>1. \A k \in Index : f[k] = {}
    BY <1>2, <1>4, <1>6
  <2> HIDE DEF f
  <2>2. Sum(f) = {}
    BY <2>1 DEF Sum, Index, ++
  <2> QED BY <1>3, <2>2 DEF f
<1>7. ASSUME NEW row \in Index, NEW j \in Index, s[<<j, c>>] # {},
             \A k \in Index : k # j => s[<<k, c>>] = {}
      PROVE  Times(A, s)[<<row, c>>] # {}
  <2> DEFINE f == [k \in Index |-> GF_MUL[A[(k - row) % 4]][s[<<k, c>>]]]
             g == [k \in Index |-> {}]
  <2>1. \A k \in Index : k # j => f[k] = g[k]
    BY <1>2, <1>4, <1>7
  <2>2. f[j] # g[j]
    BY <1>4, <1>5, <1>7, CoefficientAssumption
  <2>3. Sum(g) = {}
    BY DEF Sum, Index, ++
  <2> HIDE DEF f, g
  <2>4. Sum(f) # Sum(g)
    BY <2>1, <2>2, SumDiffers
  <2> QED BY <1>3, <2>3, <2>4 DEF f
<1> QED BY <1>6, <1>7

LEMMA TwoLeaveOneZero ==
    ASSUME NEW s \in State, NEW c \in Index, NEW j \in Index, NEW k \in Index, j # k,
           s[<<j, c>>] # {}, \A i1 \in Index : i1 \notin {j, k} => s[<<i1, c>>] = {},
           NEW row \in Index, NEW q \in Index, row # q,
           mix_columns(s)[<<row, c>>] = {}, mix_columns(s)[<<q, c>>] = {}
    PROVE  FALSE
<1> DEFINE M(row1, k1, b) == GF_MUL[MIX[(k1 - row1) % 4]][b]
           a == s[<<j, c>>]
           b == s[<<k, c>>]
<1>1. MIX \in [Index -> {1, 2, 3}]
  BY DEF MIX, Index
<1>2. \A k1, row1 \in Index : MIX[(k1 - row1) % 4] \in {1, 2, 3} /\ MIX[(k1 - row1) % 4] \in Coefficients
  BY <1>1, IndexFacts DEF Coefficients
<1>3. a \in Byte /\ b \in Byte
  BY CellFacts DEF State
<1>4. ASSUME NEW p \in Index, mix_columns(s)[<<p, c>>] = {} PROVE M(p, k, b) = M(p, j, a)
  <2> DEFINE f == [n \in Index |-> GF_MUL[MIX[(n - p) % 4]][s[<<n, c>>]]]
  <2>1. <<p, c>> \in Cells /\ <<p, c>>[1] = p /\ <<p, c>>[2] = c
    BY CellFacts
  <2>2. Sum(f) = {}
    BY <1>4, <2>1 DEF mix_columns, Times
  <2>3. \A e \in Coefficients : GF_MUL[e][{}] = {}
    BY ZeroTimes
  <2>4. \A n \in Index : n \notin {j, k} => f[n] = {}
    BY <1>2, <2>3
  <2>5. f[j] = M(p, j, a) /\ f[k] = M(p, k, b)
    OBVIOUS
  <2> HIDE DEF f, a, b, M
  <2>6. f[j] = f[k]
    <3>1. \A v, w : ((v ++ w) ++ {}) ++ {} = {} => v = w
      BY DEF ++
    <3>2. \A v, w : ((v ++ {}) ++ w) ++ {} = {} => v = w
      BY DEF ++
    <3>3. \A v, w : ((v ++ {}) ++ {}) ++ w = {} => v = w
      BY DEF ++
    <3>4. \A v, w : (({} ++ v) ++ w) ++ {} = {} => v = w
      BY DEF ++
    <3>5. \A v, w : (({} ++ v) ++ {}) ++ w = {} => v = w
      BY DEF ++
    <3>6. \A v, w : (({} ++ {}) ++ v) ++ w = {} => v = w
      BY DEF ++
    <3>7. ((f[0] ++ f[1]) ++ f[2]) ++ f[3] = {}
      BY <2>2 DEF Sum
    <3>8. Index = {0, 1, 2, 3}
      BY DEF Index
    <3>9. CASE j = 0
      <4>1. CASE k = 1
        <5>1. f[2] = {} /\ f[3] = {}
          BY <2>4, <3>8, <3>9, <4>1
        <5> QED BY <3>1, <3>7, <3>9, <4>1, <5>1
      <4>2. CASE k = 2
        <5>1. f[1] = {} /\ f[3] = {}
          BY <2>4, <3>8, <3>9, <4>2
        <5> QED BY <3>2, <3>7, <3>9, <4>2, <5>1
      <4>3. CASE k = 3
        <5>1. f[1] = {} /\ f[2] = {}
          BY <2>4, <3>8, <3>9, <4>3
        <5> QED BY <3>3, <3>7, <3>9, <4>3, <5>1
      <4> QED BY <3>8, <3>9, <4>1, <4>2, <4>3
    <3>10. CASE j = 1
      <4>1. CASE k = 0
        <5>1. f[2] = {} /\ f[3] = {}
          BY <2>4, <3>8, <3>10, <4>1
        <5> QED BY <3>1, <3>7, <3>10, <4>1, <5>1
      <4>2. CASE k = 2
        <5>1. f[0] = {} /\ f[3] = {}
          BY <2>4, <3>8, <3>10, <4>2
        <5> QED BY <3>4, <3>7, <3>10, <4>2, <5>1
      <4>3. CASE k = 3
        <5>1. f[0] = {} /\ f[2] = {}
          BY <2>4, <3>8, <3>10, <4>3
        <5> QED BY <3>5, <3>7, <3>10, <4>3, <5>1
      <4> QED BY <3>8, <3>10, <4>1, <4>2, <4>3
    <3>11. CASE j = 2
      <4>1. CASE k = 0
        <5>1. f[1] = {} /\ f[3] = {}
          BY <2>4, <3>8, <3>11, <4>1
        <5> QED BY <3>2, <3>7, <3>11, <4>1, <5>1
      <4>2. CASE k = 1
        <5>1. f[0] = {} /\ f[3] = {}
          BY <2>4, <3>8, <3>11, <4>2
        <5> QED BY <3>4, <3>7, <3>11, <4>2, <5>1
      <4>3. CASE k = 3
        <5>1. f[0] = {} /\ f[1] = {}
          BY <2>4, <3>8, <3>11, <4>3
        <5> QED BY <3>6, <3>7, <3>11, <4>3, <5>1
      <4> QED BY <3>8, <3>11, <4>1, <4>2, <4>3
    <3>12. CASE j = 3
      <4>1. CASE k = 0
        <5>1. f[1] = {} /\ f[2] = {}
          BY <2>4, <3>8, <3>12, <4>1
        <5> QED BY <3>3, <3>7, <3>12, <4>1, <5>1
      <4>2. CASE k = 1
        <5>1. f[0] = {} /\ f[2] = {}
          BY <2>4, <3>8, <3>12, <4>2
        <5> QED BY <3>5, <3>7, <3>12, <4>2, <5>1
      <4>3. CASE k = 2
        <5>1. f[0] = {} /\ f[1] = {}
          BY <2>4, <3>8, <3>12, <4>3
        <5> QED BY <3>6, <3>7, <3>12, <4>3, <5>1
      <4> QED BY <3>8, <3>12, <4>1, <4>2, <4>3
    <3> QED BY <3>8, <3>9, <3>10, <3>11, <3>12
  <2> QED BY <2>5, <2>6
<1>5. M(row, k, b) = M(row, j, a) /\ M(q, k, b) = M(q, j, a)
  BY <1>4
<1>6. M(q, k, M(row, k, b)) = M(row, k, M(q, k, b))
  <2>1. \A e, g \in {1, 2, 3} : GF_MUL[e][GF_MUL[g][b]] = GF_MUL[g][GF_MUL[e][b]]
    BY <1>3, MinorAssumption
  <2>2. MIX[(k - q) % 4] \in {1, 2, 3} /\ MIX[(k - row) % 4] \in {1, 2, 3}
    BY <1>2
  <2> QED BY <2>1, <2>2
<1>7. M(q, k, M(row, j, a)) # M(row, k, M(q, j, a))
  <2>1. a \in Byte \ {{}}
    BY <1>3
  <2> HIDE DEF a
  <2> QED BY <2>1, MinorAssumption
<1> HIDE DEF M
<1> QED BY <1>5, <1>6, <1>7

LEMMA BranchNumber ==
    ASSUME NEW s \in State, NEW c \in Index, \E j \in Index : s[<<j, c>>] # {}
    PROVE  InColumn(s, c) + InColumn(mix_columns(s), c) >= 5
<1> DEFINE t == mix_columns(s)
           On(d, row) == Bit(d, row, c) = 1
<1>1. t \in State /\ inv_mix_columns(t) = s
  BY MixInverse
<1>6. \A d, row : On(d, row) <=> d[<<row, c>>] # {}
  BY DEF Bit
<1> HIDE DEF On
<1>2. \A j \in Index : On(s, j) /\ (\A k \in Index : k # j => ~On(s, k)) => \A row \in Index : On(t, row)
  <2>1. \A j \in Index :
            s[<<j, c>>] # {} /\ (\A k \in Index : k # j => s[<<k, c>>] = {})
                => \A row \in Index : Times(MIX, s)[<<row, c>>] # {}
    BY Matrices, OneSpreads
  <2>2. t = Times(MIX, s)
    BY DEF mix_columns
  <2> HIDE DEF t
  <2> QED BY <1>6, <2>1, <2>2
<1>3. /\ (\A k \in Index : ~On(t, k)) => \A row \in Index : ~On(s, row)
      /\ \A j \in Index : On(t, j) /\ (\A k \in Index : k # j => ~On(t, k)) => \A row \in Index : On(s, row)
  <2> HIDE DEF t
  <2>1. s = Times(INV_MIX, t)
    BY <1>1 DEF inv_mix_columns
  <2>2. /\ (\A k \in Index : t[<<k, c>>] = {}) => \A row \in Index : Times(INV_MIX, t)[<<row, c>>] = {}
        /\ \A j \in Index :
              t[<<j, c>>] # {} /\ (\A k \in Index : k # j => t[<<k, c>>] = {})
                  => \A row \in Index : Times(INV_MIX, t)[<<row, c>>] # {}
    BY <1>1, Matrices, OneSpreads
  <2> QED BY <1>6, <2>1, <2>2
<1>4. \A j, k \in Index : \A row, q \in Index :
          j # k /\ On(s, j) /\ (\A n \in Index : n \notin {j, k} => ~On(s, n)) /\ row # q => On(t, row) \/ On(t, q)
  <2> SUFFICES ASSUME NEW j \in Index, NEW k \in Index, NEW row \in Index, NEW q \in Index, j # k, On(s, j),
                      \A n \in Index : n \notin {j, k} => ~On(s, n), row # q, ~On(t, row), ~On(t, q)
               PROVE  FALSE
    OBVIOUS
  <2>1. t[<<row, c>>] = {} /\ t[<<q, c>>] = {} /\ s[<<j, c>>] # {}
    BY <1>6
  <2>2. \A n \in Index : n \notin {j, k} => s[<<n, c>>] = {}
    BY <1>6
  <2> QED BY <2>1, <2>2, TwoLeaveOneZero
<1>5. Index = {0, 1, 2, 3}
  BY DEF Index
<1>7. On(s, 0) \/ On(s, 1) \/ On(s, 2) \/ On(s, 3)
  BY <1>5, <1>6
<1> HIDE DEF t
<1>8. /\ On(s, 0) /\ ~On(s, 1) /\ ~On(s, 2) /\ ~On(s, 3) => On(t, 0) /\ On(t, 1) /\ On(t, 2) /\ On(t, 3)
      /\ ~On(s, 0) /\ On(s, 1) /\ ~On(s, 2) /\ ~On(s, 3) => On(t, 0) /\ On(t, 1) /\ On(t, 2) /\ On(t, 3)
      /\ ~On(s, 0) /\ ~On(s, 1) /\ On(s, 2) /\ ~On(s, 3) => On(t, 0) /\ On(t, 1) /\ On(t, 2) /\ On(t, 3)
      /\ ~On(s, 0) /\ ~On(s, 1) /\ ~On(s, 2) /\ On(s, 3) => On(t, 0) /\ On(t, 1) /\ On(t, 2) /\ On(t, 3)
  BY <1>2, <1>5
<1>9. /\ On(t, 0) /\ ~On(t, 1) /\ ~On(t, 2) /\ ~On(t, 3) => On(s, 0) /\ On(s, 1) /\ On(s, 2) /\ On(s, 3)
      /\ ~On(t, 0) /\ On(t, 1) /\ ~On(t, 2) /\ ~On(t, 3) => On(s, 0) /\ On(s, 1) /\ On(s, 2) /\ On(s, 3)
      /\ ~On(t, 0) /\ ~On(t, 1) /\ On(t, 2) /\ ~On(t, 3) => On(s, 0) /\ On(s, 1) /\ On(s, 2) /\ On(s, 3)
      /\ ~On(t, 0) /\ ~On(t, 1) /\ ~On(t, 2) /\ On(t, 3) => On(s, 0) /\ On(s, 1) /\ On(s, 2) /\ On(s, 3)
      /\ On(t, 0) \/ On(t, 1) \/ On(t, 2) \/ On(t, 3)
  BY <1>3, <1>5, <1>7
<1> DEFINE Three ==
               /\ On(t, 0) \/ On(t, 1)
               /\ On(t, 0) \/ On(t, 2)
               /\ On(t, 0) \/ On(t, 3)
               /\ On(t, 1) \/ On(t, 2)
               /\ On(t, 1) \/ On(t, 3)
               /\ On(t, 2) \/ On(t, 3)
<1>10. ASSUME NEW j \in Index, NEW k \in Index, j # k, \A n \in Index : n \notin {j, k} => ~On(s, n)
       PROVE  Three
  <2>1. On(s, j) \/ On(s, k)
    BY <1>5, <1>7, <1>10
  <2>2. \A row, q \in Index : row # q => On(t, row) \/ On(t, q)
    <3>1. CASE On(s, j)
      BY <1>4, <1>10, <3>1
    <3>2. CASE On(s, k)
      <4>1. \A n \in Index : n \notin {k, j} => ~On(s, n)
        BY <1>10
      <4> QED BY <1>4, <1>10, <3>2, <4>1
    <3> QED BY <2>1, <3>1, <3>2
  <2>3. 0 \in Index /\ 1 \in Index /\ 2 \in Index /\ 3 \in Index /\ 0 # 1 /\ 0 # 2 /\ 0 # 3 /\ 1 # 2 /\ 1 # 3 /\ 2 # 3
    BY <1>5
  <2> QED BY <2>2, <2>3
<1> HIDE DEF Three
<1>11. /\ ~On(s, 2) /\ ~On(s, 3) => Three
       /\ ~On(s, 1) /\ ~On(s, 3) => Three
       /\ ~On(s, 1) /\ ~On(s, 2) => Three
       /\ ~On(s, 0) /\ ~On(s, 3) => Three
       /\ ~On(s, 0) /\ ~On(s, 2) => Three
       /\ ~On(s, 0) /\ ~On(s, 1) => Three
  <2>1. \A j, k \in Index : j # k /\ (\A n \in Index : n \notin {j, k} => ~On(s, n)) => Three
    BY <1>10
  <2> QED BY <1>5, <2>1
<1>12. InColumn(s, c) + InColumn(t, c) >= 5
  BY <1>7, <1>8, <1>9, <1>11, BitType DEF InColumn, Three, On
<1> QED BY <1>12 DEF t

LEMMA ActiveCount ==
    \A d : /\ Cardinality(ActiveBytes(d)) \in Nat
           /\ Cardinality(ActiveBytes(d)) > 0 <=> ActiveBytes(d) # {}
<1> SUFFICES ASSUME NEW d
             PROVE  /\ Cardinality(ActiveBytes(d)) \in Nat
                    /\ Cardinality(ActiveBytes(d)) > 0 <=> ActiveBytes(d) # {}
  OBVIOUS
<1>1. IsFiniteSet(ActiveBytes(d))
  BY ActiveFinite
<1>2. Cardinality(ActiveBytes(d)) \in Nat
  BY <1>1, FS_CardinalityType
<1>3. Cardinality(ActiveBytes(d)) = 0 <=> ActiveBytes(d) = {}
  BY <1>1, FS_EmptySet
<1> QED BY <1>2, <1>3

(***************************************************************************)
(* Two rounds: what goes into ShiftRows and MixColumns, and comes out.     *)
(***************************************************************************)
LEMMA WideLayer ==
    ASSUME NEW e \in State, ActiveBytes(e) # {}
    PROVE  /\ mix_columns(shift_rows(e)) \in State
           /\ ActiveBytes(mix_columns(shift_rows(e))) # {}
           /\ Cardinality(ActiveBytes(e)) + Cardinality(ActiveBytes(mix_columns(shift_rows(e)))) >= 5
<1> DEFINE s == shift_rows(e)
           t == mix_columns(s)
<1>1. s \in State
  BY ShiftInverse
<1>2. Cardinality(ActiveBytes(s)) = Cardinality(ActiveBytes(e))
  BY ActiveShifted
<1> HIDE DEF s
<1>3. t \in State
  BY <1>1, MixInverse
<1>4. ActiveBytes(s) # {}
  BY <1>2, ActiveCount
<1>5. PICK x \in Cells : s[x] # {}
  BY <1>4 DEF ActiveBytes
<1>6. x[1] \in Index /\ x[2] \in Index /\ s[<<x[1], x[2]>>] # {}
  <2>1. x[1] \in Index /\ x[2] \in Index /\ x = <<x[1], x[2]>>
    BY CellFacts
  <2> QED BY <1>5, <2>1
<1>7. InColumn(s, x[2]) + InColumn(t, x[2]) >= 5
  BY <1>1, <1>6, BranchNumber
<1>8. /\ Cardinality(ActiveBytes(s)) = ((InColumn(s, 0) + InColumn(s, 1)) + InColumn(s, 2)) + InColumn(s, 3)
      /\ Cardinality(ActiveBytes(t)) = ((InColumn(t, 0) + InColumn(t, 1)) + InColumn(t, 2)) + InColumn(t, 3)
  BY <1>1, <1>3, ActiveColumns
<1> HIDE DEF t
<1>9. /\ InColumn(s, 0) \in 0..4 /\ InColumn(s, 1) \in 0..4 /\ InColumn(s, 2) \in 0..4 /\ InColumn(s, 3) \in 0..4
      /\ InColumn(t, 0) \in 0..4 /\ InColumn(t, 1) \in 0..4 /\ InColumn(t, 2) \in 0..4 /\ InColumn(t, 3) \in 0..4
  BY ColumnType
<1>10. x[2] = 0 \/ x[2] = 1 \/ x[2] = 2 \/ x[2] = 3
  BY <1>6 DEF Index
<1>11. /\ Cardinality(ActiveBytes(s)) + Cardinality(ActiveBytes(t)) >= 5
       /\ Cardinality(ActiveBytes(t)) > 0
  BY <1>7, <1>8, <1>9, <1>10
<1>12. ActiveBytes(t) # {}
  BY <1>11, ActiveCount
<1> QED BY <1>2, <1>3, <1>11, <1>12 DEF s, t

LEMMA SearchWide ==
    ASSUME NEW d \in State, ActiveBytes(d) # {}
    PROVE  Cardinality(ActiveBytes(d)) + Cardinality(ActiveBytes(NextDifference(d))) >= 5
<1>1. SubBest(d) \in State
  BY NextType
<1>2. ActiveBytes(SubBest(d)) = ActiveBytes(d)
  <2>1. \A x \in Cells : SubBest(d)[x] = {} <=> d[x] = {}
    <3> SUFFICES ASSUME NEW x \in Cells PROVE SubBest(d)[x] = {} <=> d[x] = {}
      OBVIOUS
    <3>1. d[x] \in Byte /\ SubBest(d)[x] = Best[d[x]]
      BY DEF State, SubBest
    <3> QED BY <3>1, BestFacts
  <2> QED BY <2>1 DEF ActiveBytes
<1> QED BY <1>1, <1>2, WideLayer DEF NextDifference, mix_columns_pattern, shift_rows_pattern

LEMMA Halves ==
    \A k \in Nat :
        /\ k % 2 = 0 => (k + 1) % 2 = 1 /\ (k + 1) \div 2 = k \div 2 /\ ((k + 1) + 1) \div 2 = (k \div 2) + 1
        /\ k % 2 = 1 => (k + 1) % 2 = 0 /\ (k + 1) \div 2 = (k \div 2) + 1
        /\ k % 2 = 0 \/ k % 2 = 1
        /\ k \div 2 \in Nat /\ (k + 1) \div 2 \in Nat /\ ((k + 1) + 1) \div 2 \in Nat
OBVIOUS

(***************************************************************************)
(* One more round, of weight w and then of a difference of b bytes after   *)
(* one of a bytes.                                                         *)
(***************************************************************************)
LEMMA WideStep ==
    ASSUME NEW k \in Nat, NEW w \in Nat, NEW v \in Nat, NEW a \in Nat, NEW b \in Nat,
           w >= WideBound(k), k % 2 = 1 => w + 6 * a >= WideBound(k + 1),
           v >= 6 * a
    PROVE  /\ w + v >= WideBound(k + 1)
           /\ a + b >= 5 /\ (k + 1) % 2 = 1 => (w + v) + 6 * b >= WideBound((k + 1) + 1)
<1>1. CASE k % 2 = 0
  <2>1. (k + 1) \div 2 = k \div 2 /\ ((k + 1) + 1) \div 2 = (k \div 2) + 1 /\ k \div 2 \in Nat
    BY <1>1, Halves
  <2> QED BY <2>1 DEF WideBound
<1>2. CASE k % 2 = 1
  <2>1. (k + 1) % 2 = 0 /\ (k + 1) \div 2 = (k \div 2) + 1 /\ k \div 2 \in Nat
    BY <1>2, Halves
  <2> QED BY <1>2, <2>1 DEF WideBound
<1> QED BY <1>1, <1>2, Halves

-----------------------------------------------------------------------------
LEMMA RoundOfTrail ==
    ASSUME NEW step \in [before : State, after : State],
           \A x \in Cells : Count(step.before[x], step.after[x]) > 0
    PROVE  /\ ActiveBytes(step.before) = ActiveBytes(step.after)
           /\ RoundWeight(step) \in Nat
           /\ RoundWeight(step) >= 6 * Cardinality(ActiveBytes(step.before))
<1> DEFINE d == step.before
           e == step.after
           f == Costs(d, e)
<1>1. d \in State /\ e \in State
  OBVIOUS
<1> HIDE DEF d, e
<1>2. \A x \in Cells : /\ d[x] = {} <=> e[x] = {}
                       /\ d[x] # {} => Weight(Count(d[x], e[x])) \in {6, 7}
  <2> SUFFICES ASSUME NEW x \in Cells
               PROVE  /\ d[x] = {} <=> e[x] = {}
                      /\ d[x] # {} => Weight(Count(d[x], e[x])) \in {6, 7}
    OBVIOUS
  <2>1. d[x] \in Byte /\ e[x] \in Byte
    BY <1>1 DEF State
  <2>2. Count(d[x], e[x]) > 0
    BY DEF d, e
  <2>3. Count(d[x], e[x]) # 0
    BY <2>2
  <2>4. CASE d[x] = {}
    BY <2>1, <2>3, <2>4, UniformityAssumption
  <2>5. CASE d[x] # {}
    <3>1. Count(d[x], {}) = 0 /\ Count(d[x], e[x]) \in {0, 2, 4}
      BY <2>1, <2>5, UniformityAssumption
    <3>2. Count(d[x], e[x]) = 2 \/ Count(d[x], e[x]) = 4
      BY <2>3, <3>1
    <3>3. Weight(Count(d[x], e[x])) \in {6, 7}
      BY <3>2, Weights
    <3>4. e[x] # {}
      BY <2>3, <3>1
    <3> QED BY <2>5, <3>3, <3>4
  <2> QED BY <2>4, <2>5
<1>3. ActiveBytes(d) = ActiveBytes(e)
  BY <1>2 DEF ActiveBytes
<1>4. ASSUME NEW n \in 0..15
      PROVE  f[n] \in Nat /\ (d[<<n \div 4, n % 4>>] # {} => f[n] >= 6)
  <2> DEFINE x == <<n \div 4, n % 4>>
  <2>1. x \in Cells
    BY NumberedStep, ZeroMixed
  <2>2. f[n] = IF d[x] = {} THEN 0 ELSE Weight(Count(d[x], e[x]))
    BY DEF Costs
  <2> HIDE DEF x, f
  <2>3. f[n] \in Nat /\ (d[x] # {} => f[n] >= 6)
    BY <1>2, <2>1, <2>2
  <2> QED BY <2>3 DEF x
<1>5. f \in [0..15 -> Nat]
  <2>1. f = [n \in 0..15 |-> f[n]]
    BY DEF Costs
  <2> HIDE DEF f
  <2> QED BY <1>4, <2>1
<1> HIDE DEF f
<1>6. AddUp(f, 16) \in Nat /\ AddUp(f, 16) >= 6 * Cardinality(ActiveBytes(d))
  BY <1>1, <1>4, <1>5, CostOfCells
<1> QED BY <1>3, <1>6 DEF RoundWeight, d, e, f

LEMMA TrailsAreWide ==
    ASSUME NEW t \in Trails, IsTrail(t)
    PROVE  TrailWeight(t) >= WideBound(Len(t))
<1> DEFINE n == Len(t)
           f == [k \in 0..n-1 |-> RoundWeight(t[k + 1])]
           a(k) == Cardinality(ActiveBytes(t[k].before))
<1>1. t \in Seq([before : State, after : State]) /\ n \in Nat \ {0}
  <2>1. t \in Seq([before : State, after : State])
    BY TrailsAssumption
  <2>2. t # <<>>
    BY DEF IsTrail
  <2> QED BY <2>1, <2>2
<1>2. \A k \in 1..n : /\ t[k] \in [before : State, after : State]
                      /\ \A x \in Cells : Count(t[k].before[x], t[k].after[x]) > 0
  <2>1. \A k \in 1..n : t[k] \in [before : State, after : State]
    <3>1. \A S, u : u \in Seq(S) => \A k \in 1..Len(u) : u[k] \in S
      OBVIOUS
    <3> QED BY <1>1, <3>1
  <2>2. \A k \in 1..n, x \in Cells : Count(t[k].before[x], t[k].after[x]) > 0
    BY Zenon DEF IsTrail
  <2> QED BY <2>1, <2>2
<1>3. \A k \in 1..n : /\ ActiveBytes(t[k].before) = ActiveBytes(t[k].after)
                      /\ RoundWeight(t[k]) \in Nat /\ RoundWeight(t[k]) >= 6 * a(k)
  <2> SUFFICES ASSUME NEW k \in 1..n
               PROVE  /\ ActiveBytes(t[k].before) = ActiveBytes(t[k].after)
                      /\ RoundWeight(t[k]) \in Nat /\ RoundWeight(t[k]) >= 6 * a(k)
    OBVIOUS
  <2> DEFINE step == t[k]
  <2>1. step \in [before : State, after : State]
    BY <1>2
  <2>2. \A x \in Cells : Count(step.before[x], step.after[x]) > 0
    BY <1>2
  <2> HIDE DEF step
  <2>3. /\ ActiveBytes(step.before) = ActiveBytes(step.after)
        /\ RoundWeight(step) \in Nat
        /\ RoundWeight(step) >= 6 * Cardinality(ActiveBytes(step.before))
    BY <2>1, <2>2, RoundOfTrail
  <2> QED BY <2>3 DEF step
<1>4. \A k \in 1..n : k < n /\ ActiveBytes(t[k].before) # {} =>
          ActiveBytes(t[k + 1].before) # {} /\ a(k) + a(k + 1) >= 5
  <2> SUFFICES ASSUME NEW k \in 1..n, k < n, ActiveBytes(t[k].before) # {}
               PROVE  ActiveBytes(t[k + 1].before) # {} /\ a(k) + a(k + 1) >= 5
    OBVIOUS
  <2>1. k + 1 \in 2..n /\ (k + 1) - 1 = k
    BY <1>1
  <2>2. t[k + 1].before = mix_columns(shift_rows(t[k].after))
    BY <2>1 DEF IsTrail
  <2>3. t[k].after \in State
    BY <1>2
  <2>4. ActiveBytes(t[k].after) = ActiveBytes(t[k].before)
    BY <1>3
  <2> QED BY <2>2, <2>3, <2>4, WideLayer
<1>5. \A k \in Nat : a(k) \in Nat
  BY ActiveCount
<1>6. f \in [0..n-1 -> Nat] /\ \A k \in 0..n-1 : f[k] = RoundWeight(t[k + 1])
  <2>1. \A k \in 0..n-1 : k + 1 \in 1..n
    BY <1>1
  <2> QED BY <1>3, <2>1
<1>7. TrailWeight(t) = AddUp(f, n)
  BY DEF TrailWeight
<1>8. ActiveBytes(t[1].before) # {}
  BY DEF IsTrail
<1> HIDE DEF n, f, a
<1>9. PICK s \in [0..n -> Nat] :
          s[0] = 0 /\ (\A k \in 0..n-1 : s[k + 1] = s[k] + f[k]) /\ AddUp(f, n) = s[n]
  BY <1>1, <1>6, AddUpSteps
<1> DEFINE P(k) == /\ s[k] >= WideBound(k)
                   /\ k < n => /\ ActiveBytes(t[k + 1].before) # {}
                               /\ k % 2 = 1 => s[k] + 6 * a(k + 1) >= WideBound(k + 1)
<1>10. \A k \in 0..n : P(k)
  <2> DEFINE T == {k \in 0..n : ~P(k)}
  <2> SUFFICES ASSUME T # {} PROVE FALSE
    OBVIOUS
  <2>1. PICK k \in T : \A j \in T : k <= j
    <3>1. T \subseteq Nat
      BY <1>1
    <3> HIDE DEF T
    <3> QED BY <3>1, Least
  <2>2. P(0)
    <3>1. 0 \div 2 = 0 /\ 0 % 2 = 0 /\ 0 + 1 = 1
      OBVIOUS
    <3> QED BY <1>8, <1>9, <3>1 DEF WideBound
  <2> HIDE DEF P
  <2>3. k # 0 /\ k \in 0..n /\ ~P(k)
    BY <2>1, <2>2
  <2> DEFINE j == k - 1
  <2>4. j \in 0..n-1 /\ j \in 0..n /\ j \in Nat /\ j + 1 = k /\ j < n /\ k \in 1..n
    BY <1>1, <2>3
  <2>5. P(j)
    BY <2>1, <2>4
  <2> HIDE DEF j
  <2>6. /\ s[j] >= WideBound(j) /\ ActiveBytes(t[k].before) # {}
        /\ j % 2 = 1 => s[j] + 6 * a(k) >= WideBound(j + 1)
    BY <2>4, <2>5 DEF P
  <2>7. s[k] = s[j] + f[j] /\ f[j] = RoundWeight(t[k]) /\ s[j] \in Nat /\ f[j] \in Nat
    BY <1>6, <1>9, <2>4
  <2>8. f[j] >= 6 * a(k)
    BY <1>3, <2>4, <2>7
  <2>9. a(k) \in Nat /\ a(k + 1) \in Nat
    <3>1. k \in Nat /\ k + 1 \in Nat
      BY <1>1, <2>4
    <3> QED BY <1>5, <3>1
  <2>10. /\ s[j] + f[j] >= WideBound(j + 1)
         /\ a(k) + a(k + 1) >= 5 /\ (j + 1) % 2 = 1 => (s[j] + f[j]) + 6 * a(k + 1) >= WideBound((j + 1) + 1)
    BY <2>4, <2>6, <2>7, <2>8, <2>9, WideStep
  <2>11. k < n => ActiveBytes(t[k + 1].before) # {} /\ a(k) + a(k + 1) >= 5
    BY <1>4, <2>4, <2>6
  <2>12. P(k)
    BY <2>4, <2>7, <2>10, <2>11 DEF P
  <2> QED BY <2>3, <2>12
<1>11. s[n] >= WideBound(n)
  <2>1. n \in 0..n
    BY <1>1
  <2> QED BY <1>10, <2>1
<1> QED BY <1>7, <1>9, <1>11 DEF n

-----------------------------------------------------------------------------
(***************************************************************************)
(* The inductive invariant: after an odd number of rounds the next one     *)
(* makes up what the weight is short of.                                   *)
(***************************************************************************)
WideInv ==
    /\ doing = "search_round" =>
          /\ difference \in State /\ ActiveBytes(difference) # {}
          /\ weight >= WideBound(depth)
          /\ depth % 2 = 1 => weight + 6 * Cardinality(ActiveBytes(difference)) >= WideBound(depth + 1)
    /\ doing \in {"starts", "search_round"} /\ g_best # NoTrail => g_best >= WideBound(g_target_rounds)
    /\ \A line \in results : line.weight >= WideBound(line.rounds)

LEMMA WideSearchRound ==
    ASSUME TrailInv, WideInv, SearchRound
    PROVE  WideInv'
<1>1. /\ doing = "search_round" /\ g_target_rounds' = g_target_rounds /\ results' = results
      /\ depth \in Nat /\ g_target_rounds \in Nat /\ depth <= g_target_rounds
  BY DEF SearchRound, TrailInv, Placed
<1>2. weight \in Nat
  BY <1>1 DEF TrailInv, OnTrail
<1>3. /\ difference \in State /\ ActiveBytes(difference) # {} /\ weight >= WideBound(depth)
      /\ depth % 2 = 1 => weight + 6 * Cardinality(ActiveBytes(difference)) >= WideBound(depth + 1)
      /\ g_best # NoTrail => g_best >= WideBound(g_target_rounds)
  BY <1>1 DEF WideInv
<1>4. ~Hopeless(weight) /\ (depth < g_target_rounds => ~Hopeless(weight + SubWeight(difference)))
  BY <1>1, NotPruned
<1>5. \A line \in results' : line.weight >= WideBound(line.rounds)
  BY <1>1 DEF WideInv
<1>6. CASE depth = g_target_rounds
  <2>1. Complete
    BY <1>4, <1>6 DEF SearchRound
  <2>2. doing' = "starts" /\ (g_best' = weight \/ g_best' = g_best)
    BY <2>1 DEF Complete, Back
  <2>3. g_best' # NoTrail => g_best' >= WideBound(g_target_rounds')
    BY <1>1, <1>3, <1>6, <2>2
  <2> QED BY <1>5, <2>2, <2>3 DEF WideInv
<1>7. CASE depth # g_target_rounds
  <2>1. depth < g_target_rounds
    BY <1>1, <1>7
  <2>2. Descend /\ g_best' = g_best
    BY <1>4, <1>7, <2>1 DEF SearchRound
  <2>3. doing' = doing /\ depth' = depth + 1 /\ weight' = weight + SubWeight(difference)
        /\ difference' = NextDifference(difference)
    BY <2>2 DEF Descend, NextDifference
  <2> DEFINE a == Cardinality(ActiveBytes(difference))
             b == Cardinality(ActiveBytes(NextDifference(difference)))
  <2>4. a \in Nat /\ b \in Nat
    BY ActiveCount
  <2>5. SubWeight(difference) = 6 * a
    BY <1>3, CostOfActive
  <2>6. a + b >= 5
    BY <1>3, SearchWide
  <2>7. NextDifference(difference) \in State /\ ActiveBytes(NextDifference(difference)) # {}
    BY <1>3, NextType, NextActive
  <2>8. depth % 2 = 1 => weight + 6 * a >= WideBound(depth + 1)
    BY <1>3
  <2> HIDE DEF a, b
  <2>9. 6 * a \in Nat /\ 6 * a >= 6 * a
    BY <2>4
  <2>10. /\ weight + 6 * a >= WideBound(depth + 1)
         /\ a + b >= 5 /\ (depth + 1) % 2 = 1 => (weight + 6 * a) + 6 * b >= WideBound((depth + 1) + 1)
    BY <1>1, <1>2, <1>3, <2>4, <2>8, <2>9, WideStep
  <2>11. /\ weight' >= WideBound(depth')
         /\ depth' % 2 = 1 => weight' + 6 * Cardinality(ActiveBytes(difference')) >= WideBound(depth' + 1)
    BY <2>3, <2>5, <2>6, <2>10 DEF b
  <2>12. g_best' # NoTrail => g_best' >= WideBound(g_target_rounds')
    BY <1>1, <1>3, <2>2
  <2> QED BY <1>5, <2>3, <2>7, <2>11, <2>12 DEF WideInv
<1> QED BY <1>6, <1>7

LEMMA WideNext ==
    ASSUME TrailInv, WideInv, [TrailNext]_trailVars
    PROVE  WideInv'
<1>1. CASE UNCHANGED trailVars
  BY <1>1 DEF trailVars, WideInv
<1>2. CASE RunSearch
  BY <1>2 DEF RunSearch, WideInv
<1>3. CASE StartFrom
  <2>1. from \in 0..15
    BY <1>3 DEF StartFrom, TrailInv, Placed
  <2>2. difference' \in State /\ ActiveBytes(difference') # {}
    <3>1. /\ from \div 4 \in Index /\ from % 4 \in Index
          /\ difference' = Rotated(Single(0), from \div 4, from % 4)
          /\ Single(0) \in State /\ ActiveBytes(Single(0)) # {}
      BY <1>3, <2>1, SingleRotated DEF StartFrom
    <3>2. difference' \in State
      BY <3>1, RotatedType
    <3>3. SubWeight(difference') > 0
      BY <3>1, CostRotated
    <3>4. SubWeight(difference') = 6 * Cardinality(ActiveBytes(difference'))
      BY <3>2, CostOfActive
    <3>5. Cardinality(ActiveBytes(difference')) \in Nat
          /\ (Cardinality(ActiveBytes(difference')) > 0 <=> ActiveBytes(difference') # {})
      BY ActiveCount
    <3> QED BY <3>2, <3>3, <3>4, <3>5
  <2>3. 0 % 2 = 0 /\ 0 \div 2 = 0 /\ WideBound(0) = 0
    BY DEF WideBound
  <2> QED BY <1>3, <2>2, <2>3 DEF StartFrom, WideInv
<1>4. CASE SearchRound
  BY <1>4, WideSearchRound
<1>5. CASE PrintLine
  <2>1. from = 16 /\ doing = "starts" /\ doing' = "rounds"
    BY <1>5 DEF PrintLine, TrailInv, Placed
  <2>2. g_best \in Nat
    BY <2>1 DEF TrailInv, BestOnTrail
  <2>3. g_best >= WideBound(g_target_rounds)
    BY <2>1, <2>2 DEF WideInv, NoTrail
  <2>4. \A line \in results' : line.weight >= WideBound(line.rounds)
    <3> SUFFICES ASSUME NEW line \in results' PROVE line.weight >= WideBound(line.rounds)
      OBVIOUS
    <3>1. CASE line \in results
      BY <3>1 DEF WideInv
    <3>2. CASE line \notin results
      <4>1. line = [rounds |-> g_target_rounds, weight |-> g_best, nodes |-> g_nodes_visited]
        BY <1>5, <3>2 DEF PrintLine
      <4> QED BY <2>3, <4>1
    <3> QED BY <3>1, <3>2
  <2> QED BY <2>1, <2>4 DEF WideInv
<1> QED BY <1>1, <1>2, <1>3, <1>4, <1>5 DEF TrailNext

(***************************************************************************)
(* "any two consecutive rounds have at least 5 active S-boxes" of a weight *)
(* of 6 at least (lines 22-27 and 294-309): so much has every trail the    *)
(* search is on, prints, or could be compared with, of any length, as the  *)
(* matrix has branch number 5 and the S-box uniformity 4.                  *)
(***************************************************************************)
THEOREM TrailsStayWide == (TrailSpec => []WideTrail) /\ (AnalysisSpec => []WideTrail)
<1>1. TrailInit => WideInv
  BY DEF TrailInit, WideInv
<1>2. TrailSpec => []TrailInv
  BY TrailInductive
<1>3. TrailInv /\ WideInv /\ [TrailNext]_trailVars => WideInv'
  BY WideNext
<1>4. WideInv => WideTrail
  <2> SUFFICES ASSUME WideInv PROVE WideTrail
    OBVIOUS
  <2>1. \A one \in RealTrails : one.weight >= WideBound(one.rounds)
    <3>1. \A one \in RealTrails : \E t \in Trails :
              IsTrail(t) /\ one.rounds = Len(t) /\ one.weight = TrailWeight(t)
      BY DEF RealTrails
    <3> QED BY <3>1, TrailsAreWide
  <2> QED BY <2>1 DEF WideInv, WideTrail
<1>5. TrailSpec => []WideTrail
  BY <1>1, <1>2, <1>3, <1>4, PTL DEF TrailSpec
<1> QED BY <1>5, SessionsRunTheParts, PTL

-----------------------------------------------------------------------------
(***************************************************************************)
(* The integral test.  The numbers from 0 to 255 are the bytes.            *)
(***************************************************************************)
LEMMA Powers ==
    /\ 2^0 = 1 /\ 2^1 = 2 /\ 2^2 = 4 /\ 2^3 = 8
    /\ 2^4 = 16 /\ 2^5 = 32 /\ 2^6 = 64 /\ 2^7 = 128
OBVIOUS

LEMMA SameNumber == \A n, m \in 0..255 : FromInt(n) = FromInt(m) => n = m
<1> DEFINE bit(n, k) == (n \div 2^k) % 2
<1>1. \A n \in 0..255 :
          n = ((n \div 1) % 2) + 2 * ((n \div 2) % 2) + 4 * ((n \div 4) % 2) + 8 * ((n \div 8) % 2)
              + 16 * ((n \div 16) % 2) + 32 * ((n \div 32) % 2) + 64 * ((n \div 64) % 2)
              + 128 * ((n \div 128) % 2)
  OBVIOUS
<1>2. \A n \in 0..255 :
          n = bit(n, 0) + 2 * bit(n, 1) + 4 * bit(n, 2) + 8 * bit(n, 3)
              + 16 * bit(n, 4) + 32 * bit(n, 5) + 64 * bit(n, 6) + 128 * bit(n, 7)
  BY <1>1, Powers
<1>3. \A n \in 0..255, k \in 0..7 : bit(n, k) \in {0, 1}
  <2>1. \A n \in 0..255 :
            /\ (n \div 1) % 2 \in {0, 1} /\ (n \div 2) % 2 \in {0, 1} /\ (n \div 4) % 2 \in {0, 1}
            /\ (n \div 8) % 2 \in {0, 1} /\ (n \div 16) % 2 \in {0, 1} /\ (n \div 32) % 2 \in {0, 1}
            /\ (n \div 64) % 2 \in {0, 1} /\ (n \div 128) % 2 \in {0, 1}
    OBVIOUS
  <2>2. \A k \in 0..7 : k \in {0, 1, 2, 3, 4, 5, 6, 7}
    OBVIOUS
  <2> QED BY <2>1, <2>2, Powers
<1>4. \A n \in 0..255, k \in 0..7 : k \in FromInt(n) <=> bit(n, k) = 1
  BY DEF FromInt
<1> HIDE DEF bit
<1>5. ASSUME NEW n \in 0..255, NEW m \in 0..255, FromInt(n) = FromInt(m) PROVE n = m
  <2>1. \A k \in 0..7 : bit(n, k) = bit(m, k)
    BY <1>3, <1>4, <1>5
  <2>2. /\ bit(n, 0) = bit(m, 0) /\ bit(n, 1) = bit(m, 1) /\ bit(n, 2) = bit(m, 2)
        /\ bit(n, 3) = bit(m, 3) /\ bit(n, 4) = bit(m, 4) /\ bit(n, 5) = bit(m, 5)
        /\ bit(n, 6) = bit(m, 6) /\ bit(n, 7) = bit(m, 7)
    BY <2>1
  <2>3. \A k \in {0, 1, 2, 3, 4, 5, 6, 7} : bit(n, k) \in Int
    BY <1>3
  <2> QED BY <1>2, <2>2, <2>3
<1> QED BY <1>5

LEMMA ByteCount == IsFiniteSet(Byte) /\ Cardinality(Byte) = 256
<1>1. 0 \in Int /\ 7 \in Int /\ ~(0 > 7) /\ 7 - 0 + 1 = 8
  OBVIOUS
<1>2. IsFiniteSet(0..7) /\ Cardinality(0..7) = IF 0 > 7 THEN 0 ELSE 7 - 0 + 1
  BY <1>1, FS_Interval, Zenon
<1>3. IsFiniteSet(0..7) /\ Cardinality(0..7) = 8
  BY <1>1, <1>2
<1>4. IsFiniteSet(SUBSET (0..7)) /\ Cardinality(SUBSET (0..7)) = 2^Cardinality(0..7)
  BY <1>3, FS_SUBSET
<1>5. 2^8 = 256
  OBVIOUS
<1> QED BY <1>3, <1>4, <1>5 DEF Byte

Values == 0..255

LEMMA ValueCount == IsFiniteSet(Values) /\ Cardinality(Values) = 256
<1>1. 0 \in Int /\ 255 \in Int /\ ~(0 > 255) /\ 255 - 0 + 1 = 256
  OBVIOUS
<1>2. IsFiniteSet(0..255) /\ Cardinality(0..255) = IF 0 > 255 THEN 0 ELSE 255 - 0 + 1
  BY <1>1, FS_Interval, Zenon
<1> QED BY <1>1, <1>2 DEF Values

(***************************************************************************)
(* If 256 bytes are all different, every bit is 1 in half of them.         *)
(***************************************************************************)
Alike(f, b) == {v \in Values : b \in f[v]}

LEMMA HalfOfThem ==
    ASSUME NEW f \in [Values -> Byte], \A v, w \in Values : f[v] = f[w] => v = w,
           NEW b \in 0..7
    PROVE  Cardinality(Alike(f, b)) = 128
<1> DEFINE V == Alike(f, b)
           N == Values \ V
           h == [v \in V |-> CHOOSE u \in Values : f[u] = f[v] \ {b}]
<1>1. \A c \in Byte : \E u \in Values : f[u] = c
  <2>1. f \in Injection(Values, Byte)
    BY Fun_IsInj
  <2>2. Cardinality(Values) = Cardinality(Byte) /\ IsFiniteSet(Byte)
    BY ByteCount, ValueCount
  <2>3. f \in Surjection(Values, Byte)
    BY <2>1, <2>2, FS_Injection
  <2> QED BY <2>3 DEF Surjection
<1>2. \A v \in V : v \in Values /\ b \in f[v] /\ f[v] \in Byte /\ f[v] \ {b} \in Byte
  BY DEF Alike, Byte
<1>3. \A v \in V : h[v] \in Values /\ f[h[v]] = f[v] \ {b}
  BY <1>1, <1>2
<1>4. h \in [V -> N]
  <2>1. \A v \in V : h[v] \in N
    BY <1>3 DEF Alike
  <2> QED BY <2>1
<1> HIDE DEF h
<1>5. \A v, w \in V : h[v] = h[w] => v = w
  <2> SUFFICES ASSUME NEW v \in V, NEW w \in V, h[v] = h[w] PROVE v = w
    OBVIOUS
  <2>1. f[v] \ {b} = f[w] \ {b}
    BY <1>3
  <2>2. f[v] = f[w]
    <3>1. b \in f[v] /\ b \in f[w]
      BY <1>2
    <3> HIDE DEF V
    <3> QED BY <2>1, <3>1
  <2> QED BY <1>2, <2>2
<1>6. \A u \in N : \E v \in V : h[v] = u
  <2> SUFFICES ASSUME NEW u \in N PROVE \E v \in V : h[v] = u
    OBVIOUS
  <2>1. u \in Values /\ b \notin f[u] /\ f[u] \cup {b} \in Byte
    BY DEF Alike, Byte
  <2>2. PICK v \in Values : f[v] = f[u] \cup {b}
    BY <1>1, <2>1
  <2>3. v \in V
    BY <2>2 DEF Alike
  <2>4. f[v] \ {b} = f[u]
    BY <2>1, <2>2
  <2>5. h[v] = u
    BY <1>3, <2>1, <2>3, <2>4
  <2> QED BY <2>3, <2>5
<1>7. h \in Bijection(V, N)
  BY <1>4, <1>5, <1>6, Fun_IsBij
<1>8. IsFiniteSet(V) /\ IsFiniteSet(N) /\ V \subseteq Values
  <2>1. V \in SUBSET Values /\ N \in SUBSET Values
    BY DEF Alike
  <2> HIDE DEF V, N
  <2>2. IsFiniteSet(V)
    BY <2>1, ValueCount, FS_Subset
  <2>3. IsFiniteSet(N)
    BY <2>1, ValueCount, FS_Subset
  <2> QED BY <2>1, <2>2, <2>3
<1>9. Cardinality(N) = Cardinality(V)
  <2>1. ExistsBijection(V, N)
    BY <1>7 DEF ExistsBijection
  <2> HIDE DEF V, N
  <2> QED BY <1>8, <2>1, FS_Bijection
<1>10. Cardinality(N) = 256 - Cardinality(V)
  <2> HIDE DEF V
  <2>0. IsFiniteSet(Values)
    BY ValueCount
  <2>1. Cardinality(Values \ V) = Cardinality(Values) - Cardinality(Values \cap V)
    BY <2>0, FS_Difference, Zenon
  <2>2. Values \cap V = V
    BY <1>8
  <2> QED BY <2>1, <2>2, ValueCount
<1>11. Cardinality(V) \in Nat
  BY <1>8, FS_CardinalityType
<1> HIDE DEF V, N
<1>12. \A n \in Nat : n = 256 - n => n = 128
  OBVIOUS
<1>13. Cardinality(V) = 128
  BY <1>9, <1>10, <1>11, <1>12
<1> QED BY <1>13 DEF V

(***************************************************************************)
(* 256 states, one for every value of the byte that is swept: in the cells *)
(* of T they are all different, and in the others all the same.            *)
(***************************************************************************)
Swings(f, T) ==
    /\ f \in [Values -> State] /\ T \in SUBSET Cells
    /\ \A v, w \in Values : \A x \in Cells :
          f[v][x] = f[w][x] <=> (x \in T => v = w)

OncePerColumn(T) == \A x, y \in T : x[2] = y[2] => x = y

LEMMA SubSwings ==
    ASSUME NEW f, NEW T, Swings(f, T)
    PROVE  Swings([v \in Values |-> sub_bytes(f[v])], T)
<1>1. \A v \in Values : f[v] \in State /\ sub_bytes(f[v]) \in State
  BY TablesAssumption DEF Swings, sub_bytes, State
<1>2. \A v, w \in Values : \A x \in Cells :
          sub_bytes(f[v])[x] = sub_bytes(f[w])[x] <=> f[v][x] = f[w][x]
  <2>1. \A v \in Values : \A x \in Cells :
            sub_bytes(f[v])[x] = SBOX[f[v][x]] /\ f[v][x] \in Byte
    BY <1>1 DEF sub_bytes, State
  <2>2. \A c, d \in Byte : SBOX[c] = SBOX[d] => c = d
    BY SboxAssumption
  <2> QED BY <2>1, <2>2
<1> QED BY <1>1, <1>2 DEF Swings

LEMMA ShiftSwings ==
    ASSUME NEW f, NEW T, Swings(f, T)
    PROVE  Swings([v \in Values |-> shift_rows(f[v])], SlidForward(T))
<1>1. \A v \in Values : f[v] \in State /\ shift_rows(f[v]) \in State
  BY ShiftInverse DEF Swings
<1>2. \A x \in Cells : <<x[1], (x[2] + x[1]) % 4>> \in Cells
  BY CellFacts, IndexFacts
<1>3. \A v \in Values : \A x \in Cells : shift_rows(f[v])[x] = f[v][<<x[1], (x[2] + x[1]) % 4>>]
  BY DEF shift_rows
<1>4. SlidForward(T) \in SUBSET Cells
  BY SetsOfCells
<1>5. \A x \in Cells : x \in SlidForward(T) <=> <<x[1], (x[2] + x[1]) % 4>> \in T
  BY DEF SlidForward
<1>6. \A v, w \in Values : \A x \in Cells :
          shift_rows(f[v])[x] = shift_rows(f[w])[x] <=> (x \in SlidForward(T) => v = w)
  <2> SUFFICES ASSUME NEW v \in Values, NEW w \in Values, NEW x \in Cells
               PROVE  shift_rows(f[v])[x] = shift_rows(f[w])[x] <=> (x \in SlidForward(T) => v = w)
    OBVIOUS
  <2> DEFINE y == <<x[1], (x[2] + x[1]) % 4>>
  <2>1. y \in Cells
    BY <1>2
  <2>2. shift_rows(f[v])[x] = f[v][y] /\ shift_rows(f[w])[x] = f[w][y]
    BY <1>3
  <2>3. x \in SlidForward(T) <=> y \in T
    BY <1>5
  <2> HIDE DEF y
  <2>4. f[v][y] = f[w][y] <=> (y \in T => v = w)
    BY <2>1 DEF Swings
  <2> QED BY <2>2, <2>3, <2>4
<1> QED BY <1>1, <1>4, <1>6 DEF Swings

LEMMA KeySwings ==
    ASSUME NEW f, NEW T, Swings(f, T), NEW k \in RoundKeys, NEW n \in 0..Rounds
    PROVE  Swings([v \in Values |-> add_round_key(f[v], k, n)], T)
<1>1. \A v \in Values : f[v] \in State /\ add_round_key(f[v], k, n) \in State
  BY KeyInverse DEF Swings
<1>2. \A v, w \in Values : \A x \in Cells :
          add_round_key(f[v], k, n)[x] = add_round_key(f[w], k, n)[x] <=> f[v][x] = f[w][x]
  <2>1. \A c, d, e : c ++ e = d ++ e <=> c = d
    BY DEF ++
  <2>2. \A v \in Values : \A x \in Cells :
            add_round_key(f[v], k, n)[x] = f[v][x] ++ k[4 * n + x[2]][x[1]]
    BY DEF add_round_key
  <2> QED BY <2>1, <2>2
<1> QED BY <1>1, <1>2 DEF Swings

LEMMA TablesInject ==
    \A c \in Coefficients : \A b, d \in Byte : GF_MUL[c][b] = GF_MUL[c][d] <=> b = d
<1> SUFFICES ASSUME NEW c \in Coefficients, NEW b \in Byte, NEW d \in Byte,
                    GF_MUL[c][b] = GF_MUL[c][d]
             PROVE  b = d
  OBVIOUS
<1>1. b ++ d \in Byte
  BY XorByte
<1>2. GF_MUL[c][b ++ d] = GF_MUL[c][b] ++ GF_MUL[c][d]
  BY TableAssumption
<1>3. \A u, w : u ++ w = {} <=> u = w
  BY DEF ++
<1>4. GF_MUL[c][b ++ d] = {}
  BY <1>2, <1>3
<1>5. b ++ d = {}
  BY <1>1, <1>4, CoefficientAssumption
<1> QED BY <1>3, <1>5

LEMMA MixSwings ==
    ASSUME NEW f, NEW T, Swings(f, T), OncePerColumn(T)
    PROVE  Swings([v \in Values |-> mix_columns(f[v])], Blended(T))
<1>1. \A v \in Values : f[v] \in State /\ mix_columns(f[v]) \in State
  BY MixInverse DEF Swings
<1>2. Blended(T) \in SUBSET Cells
  BY SetsOfCells
<1>3. ASSUME NEW v \in Values, NEW w \in Values, NEW x \in Cells
      PROVE  mix_columns(f[v])[x] = mix_columns(f[w])[x] <=> (x \in Blended(T) => v = w)
  <2> DEFINE Term(s) == [k \in Index |-> GF_MUL[MIX[(k - x[1]) % 4]][s[<<k, x[2]>>]]]
  <2>1. x[1] \in Index /\ x[2] \in Index
    BY CellFacts
  <2>2. mix_columns(f[v])[x] = Sum(Term(f[v])) /\ mix_columns(f[w])[x] = Sum(Term(f[w]))
    BY DEF mix_columns, Times
  <2>3. \A k \in Index : Term(f[v])[k] = Term(f[w])[k] <=> f[v][<<k, x[2]>>] = f[w][<<k, x[2]>>]
    <3> SUFFICES ASSUME NEW k \in Index
                 PROVE  Term(f[v])[k] = Term(f[w])[k] <=> f[v][<<k, x[2]>>] = f[w][<<k, x[2]>>]
      OBVIOUS
    <3>1. MIX[(k - x[1]) % 4] \in Coefficients
      BY <2>1, Matrices, IndexFacts
    <3>2. <<k, x[2]>> \in Cells
      BY <2>1, CellFacts
    <3>3. f[v][<<k, x[2]>>] \in Byte /\ f[w][<<k, x[2]>>] \in Byte
      BY <1>1, <3>2 DEF State
    <3>4. \A b, d \in Byte : GF_MUL[MIX[(k - x[1]) % 4]][b] = GF_MUL[MIX[(k - x[1]) % 4]][d] <=> b = d
      BY <3>1, TablesInject
    <3>5. /\ Term(f[v])[k] = GF_MUL[MIX[(k - x[1]) % 4]][f[v][<<k, x[2]>>]]
          /\ Term(f[w])[k] = GF_MUL[MIX[(k - x[1]) % 4]][f[w][<<k, x[2]>>]]
      OBVIOUS
    <3> HIDE DEF Term
    <3> QED BY <3>3, <3>4, <3>5
  <2> HIDE DEF Term
  <2>4. \A k \in Index : f[v][<<k, x[2]>>] = f[w][<<k, x[2]>>] <=> (<<k, x[2]>> \in T => v = w)
    <3>1. \A k \in Index : <<k, x[2]>> \in Cells
      BY <2>1, CellFacts
    <3> QED BY <3>1 DEF Swings
  <2>5. CASE x \in Blended(T)
    <3>1. PICK j \in Index : <<j, x[2]>> \in T
      BY <2>5 DEF Blended
    <3>2. \A k \in Index : k # j => <<k, x[2]>> \notin T
      <4> SUFFICES ASSUME NEW k \in Index, <<k, x[2]>> \in T PROVE k = j
        OBVIOUS
      <4>1. <<k, x[2]>> = <<j, x[2]>>
        BY <3>1 DEF OncePerColumn
      <4> QED BY <4>1
    <3>3. \A k \in Index : k # j => Term(f[v])[k] = Term(f[w])[k]
      BY <2>3, <2>4, <3>2
    <3>4. Sum(Term(f[v])) = Sum(Term(f[w])) <=> Term(f[v])[j] = Term(f[w])[j]
      BY <3>3, SumDiffers
    <3>5. Term(f[v])[j] = Term(f[w])[j] <=> v = w
      BY <2>3, <2>4, <3>1
    <3> QED BY <2>2, <2>5, <3>4, <3>5
  <2>6. CASE x \notin Blended(T)
    <3>1. \A k \in Index : <<k, x[2]>> \notin T
      BY <2>6 DEF Blended
    <3>2. \A k \in Index : Term(f[v])[k] = Term(f[w])[k]
      BY <2>3, <2>4, <3>1
    <3>3. Sum(Term(f[v])) = Sum(Term(f[w]))
      BY <3>2 DEF Sum, Index
    <3> QED BY <2>2, <2>6, <3>3
  <2> QED BY <2>5, <2>6
<1> QED BY <1>1, <1>2, <1>3 DEF Swings

(***************************************************************************)
(* encrypt_reduced_rounds(), round by round.                               *)
(***************************************************************************)
Begun(k, in) == add_round_key(bytes_to_state(in), k, 0)
LastRound(s, k, n) == add_round_key(shift_rows(sub_bytes(s)), k, n)

Reduced(k, in, n) ==
    IF n = 1 THEN LastRound(Begun(k, in), k, 1)
    ELSE IF n = 2 THEN LastRound(Round(Begun(k, in), k, 1), k, 2)
    ELSE LastRound(Round(Round(Begun(k, in), k, 1), k, 2), k, 3)

LEMMA RoundsUnrolled ==
    ASSUME NEW k, NEW in, NEW n \in 1..3
    PROVE  encrypt_reduced_rounds(k, in, n) = state_to_bytes(Reduced(k, in, n))
<1> DEFINE Once(s, m) == IF m < n THEN Round(s, k, m) ELSE LastRound(s, k, m)
           h == [m \in 0..n |-> IF m = 0 THEN Begun(k, in)
                                ELSE IF m = 1 THEN Once(Begun(k, in), 1)
                                ELSE IF m = 2 THEN Once(Once(Begun(k, in), 1), 2)
                                ELSE Once(Once(Once(Begun(k, in), 1), 2), 3)]
           f == CHOOSE s : s = [m \in 0..n |-> IF m = 0 THEN Begun(k, in) ELSE Once(s[m - 1], m)]
<1> HIDE DEF Once
<1>1. h = [m \in 0..n |-> IF m = 0 THEN Begun(k, in) ELSE Once(h[m - 1], m)]
  <2>1. ASSUME NEW m \in 0..n PROVE h[m] = IF m = 0 THEN Begun(k, in) ELSE Once(h[m - 1], m)
    <3>1. CASE m = 0
      BY <3>1
    <3>2. CASE m = 1
      BY <3>2
    <3>3. CASE m = 2
      BY <3>3
    <3>4. CASE m = 3
      BY <3>4
    <3> QED BY <3>1, <3>2, <3>3, <3>4
  <2>2. h = [m \in 0..n |-> h[m]]
    OBVIOUS
  <2> HIDE DEF h
  <2> QED BY <2>1, <2>2
<1> HIDE DEF h
<1>2. f = [m \in 0..n |-> IF m = 0 THEN Begun(k, in) ELSE Once(f[m - 1], m)]
  BY <1>1, Zenon
<1> HIDE DEF f
<1>3. f[n] = Reduced(k, in, n)
  <2>1. f[0] = Begun(k, in) /\ f[1] = Once(f[0], 1)
    BY <1>2
  <2>2. n >= 2 => f[2] = Once(f[1], 2)
    BY <1>2
  <2>3. n = 3 => f[3] = Once(f[2], 3)
    BY <1>2
  <2>4. CASE n = 1
    BY <2>1, <2>4 DEF Once, Reduced
  <2>5. CASE n = 2
    BY <2>1, <2>2, <2>5 DEF Once, Reduced
  <2>6. CASE n = 3
    BY <2>1, <2>2, <2>3, <2>6 DEF Once, Reduced
  <2> QED BY <2>4, <2>5, <2>6
<1>4. encrypt_reduced_rounds(k, in, n) = state_to_bytes(f[n])
  <2>1. \A s, m : Once(s, m) = LET u == shift_rows(sub_bytes(s))
                               IN  add_round_key(IF m < n THEN mix_columns(u) ELSE u, k, m)
    BY DEF Once, Round, LastRound
  <2> DEFINE g == CHOOSE s : s = [r1 \in 0..n |->
                     IF r1 = 0 THEN add_round_key(bytes_to_state(in), k, 0)
                     ELSE LET u == shift_rows(sub_bytes(s[r1 - 1]))
                          IN  add_round_key(IF r1 < n THEN mix_columns(u) ELSE u, k, r1)]
  <2>2. g = f
    BY <2>1, Zenon DEF f, Begun
  <2>3. encrypt_reduced_rounds(k, in, n) = state_to_bytes(g[n])
    BY Zenon DEF encrypt_reduced_rounds
  <2> QED BY <2>2, <2>3
<1> QED BY <1>3, <1>4

(***************************************************************************)
(* "mirrors mako_encrypt_block()'s exact round structure (see              *)
(* src/cipher.c), stopping early": with no round left out,                 *)
(* encrypt_reduced_rounds() is the cipher, its last round without          *)
(* MixColumns and its round keys included, for every schedule and block.   *)
(* The sums the test looks at would not show an error in either.           *)
(***************************************************************************)
THEOREM AllRoundsAreTheCipher ==
    ASSUME NEW k \in RoundKeys, NEW in \in Block
    PROVE  encrypt_reduced_rounds(k, in, Rounds) = Encipher(k, in)
<1> DEFINE Once(s, m) == IF m < Rounds THEN Round(s, k, m) ELSE LastRound(s, k, m)
           f == CHOOSE s : s = [m \in 0..Rounds |-> IF m = 0 THEN Begun(k, in) ELSE Once(s[m - 1], m)]
<1> HIDE DEF Once
<1>0. Rounds \in Nat /\ 0 \in 0..Rounds /\ Rounds \in 0..Rounds
  BY SizeAssumption
<1>1. \A s : \A m \in 1..Rounds : Once(s, m) = Rounded(s, k, m)
  BY <1>0 DEF Once, Rounded, FinalRound, LastRound
<1>2. Begun(k, in) \in State
  <2>1. bytes_to_state(in) \in State
    BY BytesInverse
  <2> QED BY <1>0, <2>1, KeyInverse DEF Begun
<1>3. PICK p : Walk(k, 0, Rounds, p) /\ p[0] = Begun(k, in)
  BY <1>2, WalkFrom
<1>4. p = [m \in 0..Rounds |-> IF m = 0 THEN Begun(k, in) ELSE Once(p[m - 1], m)]
  <2>1. ASSUME NEW m \in 0..Rounds PROVE p[m] = IF m = 0 THEN Begun(k, in) ELSE Once(p[m - 1], m)
    <3>1. CASE m = 0
      BY <1>3, <3>1
    <3>2. CASE m # 0
      <4>1. m \in 1..Rounds /\ m \in 0+1..Rounds
        BY <1>0, <3>2
      <4> QED BY <1>1, <1>3, <3>2, <4>1 DEF Walk
    <3> QED BY <3>1, <3>2
  <2>2. p = [m \in 0..Rounds |-> p[m]]
    BY <1>3 DEF Walk
  <2> QED BY <2>1, <2>2
<1>5. f = [m \in 0..Rounds |-> IF m = 0 THEN Begun(k, in) ELSE Once(f[m - 1], m)]
  BY <1>4, Zenon
<1> HIDE DEF f
<1>6. f[Rounds] = p[Rounds]
  <2> DEFINE T == {m \in 0..Rounds : f[m] = p[m]}
  <2>1. 0 \in T
    BY <1>0, <1>3, <1>5
  <2>2. ASSUME NEW n \in 0..Rounds-1, n \in T PROVE n + 1 \in T
    <3>1. n + 1 \in 0..Rounds /\ n + 1 # 0 /\ (n + 1) - 1 = n
      BY <1>0, <2>2
    <3>2. f[n + 1] = Once(f[n], n + 1)
      BY <1>5, <3>1
    <3>3. p[n + 1] = Once(p[n], n + 1)
      BY <1>4, <3>1
    <3> QED BY <2>2, <3>1, <3>2, <3>3
  <2> HIDE DEF T
  <2>3. Rounds \in T
    BY <1>0, <2>1, <2>2, EveryRound
  <2> QED BY <2>3 DEF T
<1>7. encrypt_reduced_rounds(k, in, Rounds) = state_to_bytes(f[Rounds])
  <2>1. \A s, m : Once(s, m) = LET u == shift_rows(sub_bytes(s))
                               IN  add_round_key(IF m < Rounds THEN mix_columns(u) ELSE u, k, m)
    BY DEF Once, Round, LastRound
  <2> DEFINE g == CHOOSE s : s = [r1 \in 0..Rounds |->
                     IF r1 = 0 THEN add_round_key(bytes_to_state(in), k, 0)
                     ELSE LET u == shift_rows(sub_bytes(s[r1 - 1]))
                          IN  add_round_key(IF r1 < Rounds THEN mix_columns(u) ELSE u, k, r1)]
  <2>2. g = f
    BY <2>1, Zenon DEF f, Begun
  <2>3. encrypt_reduced_rounds(k, in, Rounds) = state_to_bytes(g[Rounds])
    BY Zenon DEF encrypt_reduced_rounds
  <2> QED BY <2>2, <2>3
<1>8. p[Rounds] \in State
  BY <1>0, <1>3 DEF Walk
<1>9. state_to_bytes(p[Rounds]) \in Block /\ bytes_to_state(state_to_bytes(p[Rounds])) = p[Rounds]
  BY <1>8, BytesInverse
<1>10. Enciphers(k, in, state_to_bytes(p[Rounds]))
  BY <1>3, <1>9 DEF Enciphers, Whitened, Begun
<1> QED BY <1>6, <1>7, <1>9, <1>10, BlockFunctions

LEMMA LambdaSwings ==
    ASSUME NEW k \in RoundKeys, NEW base \in Block, NEW active \in 0..15
    PROVE  \E x \in Cells : Swings([v \in Values |-> Begun(k, build_lambda_set(base, active)[v])], {x})
<1> DEFINE y == <<active % 4, active \div 4>>
           f == [v \in Values |-> bytes_to_state(build_lambda_set(base, active)[v])]
<1>1. y \in Cells /\ y[1] = active % 4 /\ y[2] = active \div 4
  <2>1. active % 4 \in Index /\ active \div 4 \in Index
    BY DEF Index
  <2> QED BY <2>1, CellFacts
<1>2. \A x \in Cells : 4 * x[2] + x[1] \in 0..15 /\ (4 * x[2] + x[1] = active <=> x = y)
  <2> SUFFICES ASSUME NEW x \in Cells
               PROVE  4 * x[2] + x[1] \in 0..15 /\ (4 * x[2] + x[1] = active <=> x = y)
    OBVIOUS
  <2>1. x[1] \in Index /\ x[2] \in Index /\ x = <<x[1], x[2]>>
    BY CellFacts
  <2>2. 4 * x[2] + x[1] = active <=> x[1] = active % 4 /\ x[2] = active \div 4
    BY <2>1 DEF Index
  <2>3. 4 * x[2] + x[1] \in 0..15
    BY <2>1 DEF Index
  <2> QED BY <2>1, <2>2, <2>3
<1> HIDE DEF y
<1>3. \A v \in Values : \A x \in Cells : f[v][x] = IF x = y THEN FromInt(v) ELSE base[4 * x[2] + x[1]]
  <2> SUFFICES ASSUME NEW v \in Values, NEW x \in Cells
               PROVE  f[v][x] = IF x = y THEN FromInt(v) ELSE base[4 * x[2] + x[1]]
    OBVIOUS
  <2>1. build_lambda_set(base, active)[v] = [base EXCEPT ![active] = FromInt(v)]
    BY DEF build_lambda_set, Values
  <2>2. f[v][x] = [base EXCEPT ![active] = FromInt(v)][4 * x[2] + x[1]]
    BY <2>1 DEF bytes_to_state
  <2>3. 4 * x[2] + x[1] \in DOMAIN base
    BY <1>2 DEF Block
  <2> HIDE DEF f
  <2> QED BY <1>2, <2>2, <2>3
<1>4. f \in [Values -> State]
  <2>1. \A v \in Values : FromInt(v) \in Byte
    BY DEF FromInt, Byte
  <2>2. \A x \in Cells : base[4 * x[2] + x[1]] \in Byte
    BY <1>2 DEF Block
  <2>3. \A v \in Values : f[v] = [x \in Cells |-> f[v][x]]
    BY DEF bytes_to_state
  <2>4. \A v \in Values : f[v] \in State
    <3> SUFFICES ASSUME NEW v \in Values PROVE f[v] \in State
      OBVIOUS
    <3>1. \A x \in Cells : f[v][x] \in Byte
      BY <1>3, <2>1, <2>2
    <3> HIDE DEF f
    <3> QED BY <2>3, <3>1 DEF State
  <2> QED BY <2>4
<1>5. Swings(f, {y})
  <2>1. \A v, w \in Values : FromInt(v) = FromInt(w) => v = w
    BY SameNumber DEF Values
  <2>2. \A v, w \in Values : \A x \in Cells : f[v][x] = f[w][x] <=> (x \in {y} => v = w)
    <3> HIDE DEF f
    <3> QED BY <1>3, <2>1
  <2> HIDE DEF f
  <2> QED BY <1>1, <1>4, <2>2 DEF Swings
<1>6. 0 \in 0..Rounds
  BY SizeAssumption
<1>7. Swings([v \in Values |-> add_round_key(f[v], k, 0)], {y})
  <2> HIDE DEF f
  <2> QED BY <1>5, <1>6, KeySwings
<1>8. [v \in Values |-> add_round_key(f[v], k, 0)] = [v \in Values |-> Begun(k, build_lambda_set(base, active)[v])]
  BY DEF Begun
<1> QED BY <1>1, <1>7, <1>8

LEMMA LastSwings ==
    ASSUME NEW f, NEW T, Swings(f, T), NEW k \in RoundKeys, NEW n \in 0..Rounds
    PROVE  Swings([v \in Values |-> LastRound(f[v], k, n)], SlidForward(T))
<1> DEFINE g == [v \in Values |-> sub_bytes(f[v])]
           h == [v \in Values |-> shift_rows(g[v])]
<1>1. Swings(g, T)
  BY SubSwings
<1>2. Swings(h, SlidForward(T))
  <2> HIDE DEF g
  <2> QED BY <1>1, ShiftSwings
<1>3. Swings([v \in Values |-> add_round_key(h[v], k, n)], SlidForward(T))
  <2> HIDE DEF h
  <2> QED BY <1>2, KeySwings
<1>4. [v \in Values |-> add_round_key(h[v], k, n)] = [v \in Values |-> LastRound(f[v], k, n)]
  BY DEF LastRound
<1> QED BY <1>3, <1>4

LEMMA RoundSwings ==
    ASSUME NEW f, NEW T, Swings(f, T), OncePerColumn(SlidForward(T)), NEW k \in RoundKeys, NEW n \in 0..Rounds
    PROVE  Swings([v \in Values |-> Round(f[v], k, n)], Blended(SlidForward(T)))
<1> DEFINE g == [v \in Values |-> sub_bytes(f[v])]
           h == [v \in Values |-> shift_rows(g[v])]
           j == [v \in Values |-> mix_columns(h[v])]
<1>1. Swings(g, T)
  BY SubSwings
<1>2. Swings(h, SlidForward(T))
  <2> HIDE DEF g
  <2> QED BY <1>1, ShiftSwings
<1>3. Swings(j, Blended(SlidForward(T)))
  <2> HIDE DEF h
  <2> QED BY <1>2, MixSwings
<1>4. Swings([v \in Values |-> add_round_key(j[v], k, n)], Blended(SlidForward(T)))
  <2> HIDE DEF j
  <2> QED BY <1>3, KeySwings
<1>5. [v \in Values |-> add_round_key(j[v], k, n)] = [v \in Values |-> Round(f[v], k, n)]
  BY DEF Round
<1> QED BY <1>4, <1>5

LEMMA ColumnsApart ==
    ASSUME NEW x \in Cells
    PROVE  OncePerColumn(SlidForward({x})) /\ OncePerColumn(SlidForward(ColumnFrom(x)))
<1> DEFINE k == (x[2] - x[1]) % 4
<1>0. k \in Index
  BY CellFacts, IndexFacts
<1>1. \A y \in Cells : y \in SlidForward({x}) => y[1] = x[1] /\ (y[2] + y[1]) % 4 = x[2]
  BY CellFacts DEF SlidForward
<1>2. \A y \in Cells : y \in SlidForward(ColumnFrom(x)) => (y[2] + y[1]) % 4 = k
  BY CellFacts DEF SlidForward, ColumnFrom
<1>3. \A y, z \in SlidForward({x}) : y[2] = z[2] => y = z
  <2>1. SlidForward({x}) \subseteq Cells
    BY DEF SlidForward
  <2> QED BY <1>1, <2>1, CellFacts
<1>4. \A y, z \in SlidForward(ColumnFrom(x)) : y[2] = z[2] => y = z
  <2> SUFFICES ASSUME NEW y \in SlidForward(ColumnFrom(x)), NEW z \in SlidForward(ColumnFrom(x)), y[2] = z[2]
               PROVE  y = z
    OBVIOUS
  <2>1. y \in Cells /\ z \in Cells
    BY DEF SlidForward
  <2>2. (y[2] + y[1]) % 4 = k /\ (y[2] + z[1]) % 4 = k
    BY <1>2, <2>1
  <2>3. \A a, b, c \in Index : (a + b) % 4 = (a + c) % 4 => b = c
    BY DEF Index
  <2> HIDE DEF k
  <2>4. y[1] = z[1]
    BY <2>1, <2>2, <2>3, CellFacts
  <2> QED BY <2>1, <2>4, CellFacts
<1> QED BY <1>3, <1>4 DEF OncePerColumn

LEMMA ReducedSwings ==
    ASSUME NEW k \in RoundKeys, NEW base \in Block, NEW active \in 0..15, NEW n \in 1..3, n <= Rounds
    PROVE  \E T : Swings([v \in Values |-> Reduced(k, build_lambda_set(base, active)[v], n)], T)
<1> DEFINE in(v) == build_lambda_set(base, active)[v]
           a == [v \in Values |-> Begun(k, in(v))]
           b == [v \in Values |-> Round(a[v], k, 1)]
           c == [v \in Values |-> Round(b[v], k, 2)]
<1>1. PICK x \in Cells : Swings(a, {x})
  BY LambdaSwings
<1>2. /\ 1 \in 0..Rounds /\ n \in 0..Rounds
      /\ n >= 2 => 2 \in 0..Rounds
  BY SizeAssumption
<1>3. CASE n = 1
  <2>1. Swings([v \in Values |-> LastRound(a[v], k, 1)], SlidForward({x}))
    <3> HIDE DEF a
    <3> QED BY <1>1, <1>2, LastSwings
  <2>2. [v \in Values |-> LastRound(a[v], k, 1)] = [v \in Values |-> Reduced(k, in(v), n)]
    BY <1>3 DEF Reduced
  <2> QED BY <2>1, <2>2
<1>4. n >= 2 => Swings(b, ColumnFrom(x))
  <2>1. Swings(b, Blended(SlidForward({x})))
    <3> HIDE DEF a
    <3> QED BY <1>1, <1>2, ColumnsApart, RoundSwings
  <2> QED BY <2>1, RoundForward
<1>5. CASE n = 2
  <2>1. Swings([v \in Values |-> LastRound(b[v], k, 2)], SlidForward(ColumnFrom(x)))
    <3>1. Swings(b, ColumnFrom(x)) /\ 2 \in 0..Rounds
      BY <1>2, <1>4, <1>5
    <3> HIDE DEF b
    <3> QED BY <3>1, LastSwings
  <2>2. [v \in Values |-> LastRound(b[v], k, 2)] = [v \in Values |-> Reduced(k, in(v), n)]
    BY <1>5 DEF Reduced
  <2> QED BY <2>1, <2>2
<1>6. CASE n = 3
  <2>0. Swings(b, ColumnFrom(x)) /\ 2 \in 0..Rounds /\ 3 \in 0..Rounds
    BY <1>2, <1>4, <1>6
  <2>1. Swings(c, Cells)
    <3>1. Swings(c, Blended(SlidForward(ColumnFrom(x))))
      <4> HIDE DEF b
      <4> QED BY <2>0, ColumnsApart, RoundSwings
    <3> QED BY <3>1, RoundForward
  <2>2. Swings([v \in Values |-> LastRound(c[v], k, 3)], SlidForward(Cells))
    <3> HIDE DEF c
    <3> QED BY <2>0, <2>1, LastSwings
  <2>3. [v \in Values |-> LastRound(c[v], k, 3)] = [v \in Values |-> Reduced(k, in(v), n)]
    BY <1>6 DEF Reduced
  <2> QED BY <2>2, <2>3
<1> QED BY <1>3, <1>5, <1>6

LEMMA EvenBits ==
    ASSUME NEW f, NEW T, Swings(f, T), NEW x \in Cells, NEW b \in 0..7
    PROVE  Cardinality({v \in Values : b \in f[v][x]}) % 2 = 0
<1> DEFINE g == [v \in Values |-> f[v][x]]
<1>1. g \in [Values -> Byte]
  BY DEF Swings, State
<1>2. {v \in Values : b \in f[v][x]} = Alike(g, b)
  BY DEF Alike
<1>3. CASE x \in T
  <2>1. \A v, w \in Values : g[v] = g[w] => v = w
    BY <1>3 DEF Swings
  <2> HIDE DEF g
  <2>2. Cardinality(Alike(g, b)) = 128
    BY <1>1, <2>1, HalfOfThem
  <2>3. Cardinality({v \in Values : b \in f[v][x]}) = 128
    BY <1>2, <2>2
  <2>4. \A n : n = 128 => n % 2 = 0
    OBVIOUS
  <2> QED BY <2>3, <2>4
<1>4. CASE x \notin T
  <2>1. \A v, w \in Values : g[v] = g[w]
    BY <1>4 DEF Swings
  <2>2. Alike(g, b) = {} \/ Alike(g, b) = Values
    <3> HIDE DEF g
    <3> QED BY <2>1 DEF Alike
  <2>3. Cardinality(Alike(g, b)) = 0 \/ Cardinality(Alike(g, b)) = 256
    <3>1. Cardinality({}) = 0
      BY FS_EmptySet
    <3>2. Cardinality(Values) = 256
      BY ValueCount
    <3> HIDE DEF g
    <3> QED BY <2>2, <3>1, <3>2
  <2>4. \A n : n = 0 \/ n = 256 => n % 2 = 0
    OBVIOUS
  <2> HIDE DEF g
  <2> QED BY <1>2, <2>3, <2>4
<1> QED BY <1>3, <1>4

(***************************************************************************)
(* Up to three rounds, whatever the key, the other bytes and the byte      *)
(* swept, all 16 positions add up to 0.                                    *)
(***************************************************************************)
LEMMA SixteenBalanced ==
    ASSUME NEW k \in RoundKeys, NEW base \in Block, NEW active \in 0..15, NEW n \in 1..3, n <= Rounds
    PROVE  BalancedBytes(XorSum(Results(k, build_lambda_set(base, active), n))) = 16
<1> DEFINE in == build_lambda_set(base, active)
           res == Results(k, in, n)
           sum == XorSum(res)
           f == [v \in Values |-> Reduced(k, in[v], n)]
<1>1. PICK T : Swings(f, T)
  BY ReducedSwings
<1>2. DOMAIN in = Values
  BY DEF build_lambda_set, Values
<1> HIDE DEF in
<1>3. DOMAIN res = Values /\ \A v \in Values : res[v] = state_to_bytes(f[v])
  BY <1>2, RoundsUnrolled DEF Results
<1> HIDE DEF res, f
<1>4. ASSUME NEW p \in 0..15 PROVE sum[p] = {}
  <2> DEFINE x == <<p % 4, p \div 4>>
  <2>1. x \in Cells
    <3>1. p % 4 \in Index /\ p \div 4 \in Index
      BY DEF Index
    <3> QED BY <3>1, CellFacts
  <2>2. \A v \in Values : res[v][p] = f[v][x]
    BY <1>3 DEF state_to_bytes
  <2> HIDE DEF x
  <2>3. ASSUME NEW b \in 0..7 PROVE Cardinality({v \in DOMAIN res : b \in res[v][p]}) % 2 = 0
    <3>1. {v \in DOMAIN res : b \in res[v][p]} = {v \in Values : b \in f[v][x]}
      BY <1>3, <2>2
    <3>2. Cardinality({v \in Values : b \in f[v][x]}) % 2 = 0
      BY <1>1, <2>1, EvenBits
    <3> QED BY <3>1, <3>2
  <2>4. sum[p] = {b \in 0..7 : Cardinality({v \in DOMAIN res : b \in res[v][p]}) % 2 = 1}
    BY DEF XorSum
  <2>5. ASSUME NEW b \in 0..7 PROVE ~(Cardinality({v \in DOMAIN res : b \in res[v][p]}) % 2 = 1)
    <3>1. 0 # 1
      OBVIOUS
    <3> QED BY <2>3, <3>1
  <2> QED BY <2>4, <2>5
<1> HIDE DEF sum
<1>5. {p \in 0..15 : sum[p] = {}} = 0..15
  BY <1>4
<1>6. Cardinality(0..15) = 16
  <2>1. 0 \in Int /\ 15 \in Int /\ ~(0 > 15) /\ 15 - 0 + 1 = 16
    OBVIOUS
  <2>2. Cardinality(0..15) = IF 0 > 15 THEN 0 ELSE 15 - 0 + 1
    BY <2>1, FS_Interval, Zenon
  <2> QED BY <2>1, <2>2
<1>7. BalancedBytes(sum) = 16
  BY <1>5, <1>6 DEF BalancedBytes
<1> QED BY <1>7 DEF sum, res, in

-----------------------------------------------------------------------------
(***************************************************************************)
(* The inductive invariant: the loops are where their variables say, and   *)
(* the rounds measured so far are those.                                   *)
(***************************************************************************)
IntegralInv ==
    /\ rounds \in Nat \ {0} /\ next_byte \in Nat \ {0}
    /\ worst_active_byte \in 0..15 /\ drawn \in Nat
    /\ ThreeRounds

LEMMA CountedSixteen ==
    ASSUME KeyTypeOK, IntegralInv, made = "OK", rounds <= MaxReduced, rounds <= 3, NEW active \in 0..15
    PROVE  count_balanced_bytes(active) = 16
<1> DEFINE base == Bases[(drawn % Len(Bases)) + 1]
<1>1. ks \in RoundKeys
  BY SizeAssumption DEF KeyTypeOK, RoundKeys, TotalWords
<1>2. base \in Block
  <2>1. Bases \in Seq(Block) /\ Len(Bases) \in Nat \ {0} /\ drawn \in Nat
    BY IntegralAssumption DEF IntegralInv
  <2>2. (drawn % Len(Bases)) + 1 \in 1..Len(Bases)
    BY <2>1
  <2> QED BY <2>1, <2>2
<1>3. rounds \in 1..3 /\ rounds <= Rounds
  BY IntegralAssumption, SizeAssumption DEF IntegralInv
<1> HIDE DEF base
<1>4. BalancedBytes(XorSum(Results(ks, build_lambda_set(base, active), rounds))) = 16
  BY <1>1, <1>2, <1>3, SixteenBalanced
<1> QED BY <1>4 DEF count_balanced_bytes, base

LEMMA IntegralStep ==
    ASSUME KeyTypeOK, IntegralInv, [IntegralNext]_<<keyVars, integralVars>>
    PROVE  IntegralInv'
<1>1. ASSUME UNCHANGED integralVars PROVE IntegralInv'
  BY <1>1 DEF integralVars, IntegralInv, ThreeRounds
<1>2. ASSUME Try PROVE IntegralInv'
  <2>1. made = "OK" /\ rounds <= MaxReduced /\ next_byte <= Len(Swept) /\ rounds' = rounds
        /\ all_rounds_safe' = all_rounds_safe /\ next_byte' = next_byte + 1 /\ drawn' = drawn + 1
    BY <1>2 DEF Try, Counted
  <2>2. Swept[next_byte] \in 0..15
    <3>1. Swept \in Seq(0..15) /\ next_byte \in 1..Len(Swept)
      BY <2>1, IntegralAssumption DEF IntegralInv
    <3> QED BY <3>1
  <2>3. measured' = measured \cup {[rounds |-> rounds, balanced |-> count_balanced_bytes(Swept[next_byte])]}
    BY <1>2 DEF Try, Counted
  <2>4. rounds <= 3 => count_balanced_bytes(Swept[next_byte]) = 16
    BY <2>1, <2>2, CountedSixteen
  <2>5. \A one \in measured' : one.rounds <= 3 => one.balanced = 16
    BY <2>3, <2>4 DEF IntegralInv, ThreeRounds
  <2>6. worst_active_byte' \in 0..15
    BY <1>2, <2>2 DEF Try, IntegralInv
  <2> QED BY <2>1, <2>5, <2>6 DEF IntegralInv, ThreeRounds
<1>3. ASSUME TryWorst PROVE IntegralInv'
  <2>1. made = "OK" /\ rounds <= MaxReduced /\ rounds' = rounds + 1 /\ next_byte' = 1
        /\ worst_active_byte' = 0 /\ drawn' = drawn + 1
    BY <1>3 DEF TryWorst, Counted
  <2>2. /\ measured' = measured \cup {[rounds |-> rounds, balanced |-> count_balanced_bytes(worst_active_byte)]}
        /\ all_rounds_safe' = (all_rounds_safe /\ count_balanced_bytes(worst_active_byte) = 0)
    BY <1>3 DEF TryWorst, Counted
  <2>3. rounds <= 3 => count_balanced_bytes(worst_active_byte) = 16
    BY <2>1, CountedSixteen DEF IntegralInv
  <2>4. \A one \in measured' : one.rounds <= 3 => one.balanced = 16
    BY <2>2, <2>3 DEF IntegralInv, ThreeRounds
  <2>5. ~all_rounds_safe'
    <3>1. CASE rounds = 1
      <4>1. count_balanced_bytes(worst_active_byte) = 16
        BY <2>3, <3>1
      <4>2. \A n : n = 16 => n # 0
        OBVIOUS
      <4>3. count_balanced_bytes(worst_active_byte) # 0
        BY <4>1, <4>2
      <4> QED BY <2>2, <4>3
    <3>2. CASE rounds # 1
      <4>1. ~all_rounds_safe
        BY <3>2 DEF IntegralInv, ThreeRounds
      <4> QED BY <2>2, <4>1
    <3> QED BY <3>1, <3>2
  <2> QED BY <2>1, <2>4, <2>5 DEF IntegralInv, ThreeRounds
<1> QED BY <1>1, <1>2, <1>3 DEF IntegralNext, IntegralKey

(***************************************************************************)
(* The integral property: the program calls one round, two and three       *)
(* unsafe, for every key, every byte swept and all the others, and every   *)
(* S-box that is a permutation.  (That a fourth round ends it is a matter  *)
(* of the tables, and of the plaintexts.)                                  *)
(***************************************************************************)
THEOREM ThreeRoundsBalanced == AnalysisSpec => []ThreeRounds
<1>1. AnalysisInit => KeyTypeOK /\ IntegralInv
  BY DEF AnalysisInit, Init, KeyInit, KeyTypeOK, KeyWords, IntegralInit, IntegralInv, ThreeRounds
<1>2. [AnalysisNext]_allVars => [IntegralNext]_<<keyVars, integralVars>> \/ UNCHANGED integralVars
  BY DEF AnalysisNext, allVars, End
<1>3. UNCHANGED integralVars /\ IntegralInv => IntegralInv'
  BY DEF integralVars, IntegralInv, ThreeRounds
<1>4. KeyTypeOK /\ IntegralInv /\ [AnalysisNext]_allVars => IntegralInv'
  BY <1>2, <1>3, IntegralStep
<1>5. AnalysisSpec => []KeyTypeOK
  <2>1. TypeOK => KeyTypeOK
    BY DEF TypeOK
  <2> QED BY <2>1, SessionsRunTheParts, TypeCorrect, PTL
<1>6. IntegralInv => ThreeRounds
  BY DEF IntegralInv
<1> QED BY <1>1, <1>4, <1>5, <1>6, PTL DEF AnalysisSpec
==============================================================================
