----------------------- MODULE ImpossibleDifferential ------------------------
(***************************************************************************)
(* tools/impossible_differential_search.c: for every way of splitting a    *)
(* number of rounds in two, and for every pair of a byte that differs at   *)
(* the start and a byte that differs at the end, a pattern is propagated   *)
(* forward from the one and another backward from the other, one step per  *)
(* round, and the pairs whose patterns contradict each other are counted.  *)
(***************************************************************************)
EXTENDS Bytes

CONSTANTS
    MaxTotal,                   \* max_total_rounds: 8, or the argument
    INACTIVE, ACTIVE, UNKNOWN

ByteStatus == {INACTIVE, ACTIVE, UNKNOWN}
Pattern == [Cells -> ByteStatus]

ASSUME MaxTotalAssumption == MaxTotal \in Nat
ASSUME StatusAssumption == INACTIVE # ACTIVE /\ ACTIVE # UNKNOWN /\ INACTIVE # UNKNOWN

(***************************************************************************)
(* The two nested loops over rows and columns count cells in this order.   *)
(***************************************************************************)
Cell(n) == <<n \div 4, n % 4>>
Only(x) == [y \in Cells |-> IF y = x THEN ACTIVE ELSE INACTIVE]

-----------------------------------------------------------------------------
shift_rows_forward_short(p) ==      \* Slip: the last row goes two places, like the one above it
    [x \in Cells |-> p[<<x[1], (x[2] + (IF x[1] = 3 THEN 2 ELSE x[1])) % 4>>]]
shift_rows_forward(p) == [x \in Cells |-> p[<<x[1], (x[2] + x[1]) % 4>>]]
shift_rows_backward(p) == [x \in Cells |-> p[<<x[1], (x[2] - x[1]) % 4>>]]

Column(p, c) == {p[<<r, c>>] : r \in Index}

mix_columns_unknown(p) ==           \* Slip: active and inactive bytes together tell nothing
    [x \in Cells |->
        IF Column(p, x[2]) = {ACTIVE} \/ Column(p, x[2]) = {INACTIVE} THEN p[x] ELSE UNKNOWN]
mix_columns_truncated(p) ==
    [x \in Cells |->
        LET column == Column(p, x[2])
        IN  IF UNKNOWN \in column THEN UNKNOWN
            ELSE IF ACTIVE \in column THEN ACTIVE
            ELSE INACTIVE]

ForwardOnce(p) == mix_columns_truncated(shift_rows_forward(p))
BackwardOnce(p) == shift_rows_backward(mix_columns_truncated(p))

patterns_contradict(f, b) == \E x \in Cells : {f[x], b[x]} = {ACTIVE, INACTIVE}

-----------------------------------------------------------------------------
VARIABLES
    at,                 \* which loop the program is in
    total, fwd,         \* the rounds, and how many of them go forward
    start, end,         \* the cells tried, by number
    r,                  \* rounds propagated
    forward, backward,
    count,              \* contradiction_count
    found,              \* the first pair of cells found, if any
    any_split_found,
    printed,            \* the line printed for every split
    fruitless           \* the totals for which it is printed that no split contradicts

impossibleVars ==
    <<at, total, fwd, start, end, r, forward, backward, count, found, any_split_found, printed,
      fruitless>>
lines == <<printed, fruitless>>

Unset == [x \in Cells |-> INACTIVE]
NoPair == <<>>

ImpossibleInit ==
    /\ at = "total" /\ total = 2 /\ fwd = 1 /\ start = 0 /\ end = 0 /\ r = 0
    /\ forward = Unset /\ backward = Unset
    /\ count = 0 /\ found = NoPair /\ any_split_found = FALSE
    /\ printed = {} /\ fruitless = {}

BeginTotal ==
    /\ at = "total" /\ total <= MaxTotal
    /\ at' = "split" /\ fwd' = 1 /\ any_split_found' = FALSE
    /\ UNCHANGED <<total, start, end, r, forward, backward, count, found, lines>>

BeginSplit ==
    /\ at = "split" /\ fwd < total
    /\ at' = "start" /\ start' = 0 /\ count' = 0 /\ found' = NoPair
    /\ UNCHANGED <<total, fwd, end, r, forward, backward, any_split_found, lines>>

SetStart ==
    /\ at = "start" /\ start < 16
    /\ at' = "forward" /\ forward' = Only(Cell(start)) /\ r' = 0
    /\ UNCHANGED <<total, fwd, start, end, backward, count, found, any_split_found, lines>>

ForwardRound ==
    /\ at = "forward" /\ r < fwd
    /\ forward' = ForwardOnce(forward) /\ r' = r + 1
    /\ UNCHANGED <<at, total, fwd, start, end, backward, count, found, any_split_found, lines>>

ForwardEnd ==
    /\ at = "forward" /\ r >= fwd
    /\ at' = "end" /\ end' = 0
    /\ UNCHANGED <<total, fwd, start, r, forward, backward, count, found, any_split_found, lines>>

SetEnd ==
    /\ at = "end" /\ end < 16
    /\ at' = "backward" /\ backward' = Only(Cell(end)) /\ r' = 0
    /\ UNCHANGED <<total, fwd, start, end, forward, count, found, any_split_found, lines>>

BackwardRoundForgotten ==           \* Slip: every round starts from the end's pattern again
    /\ at = "backward" /\ r < total - fwd
    /\ backward' = BackwardOnce(Only(Cell(end))) /\ r' = r + 1
    /\ UNCHANGED <<at, total, fwd, start, end, forward, count, found, any_split_found, lines>>

BackwardRound ==
    /\ at = "backward" /\ r < total - fwd
    /\ backward' = BackwardOnce(backward) /\ r' = r + 1
    /\ UNCHANGED <<at, total, fwd, start, end, forward, count, found, any_split_found, lines>>

Compare ==
    /\ at = "backward" /\ r >= total - fwd
    /\ at' = "end" /\ end' = end + 1
    /\ IF patterns_contradict(forward, backward)
       THEN /\ count' = count + 1
            /\ found' = IF found = NoPair THEN <<Cell(start), Cell(end)>> ELSE found
       ELSE UNCHANGED <<count, found>>
    /\ UNCHANGED <<total, fwd, start, r, forward, backward, any_split_found, lines>>

NextStart ==
    /\ at = "end" /\ end >= 16
    /\ at' = "start" /\ start' = start + 1
    /\ UNCHANGED <<total, fwd, end, r, forward, backward, count, found, any_split_found, lines>>

PrintSplit ==
    /\ at = "start" /\ start >= 16
    /\ at' = "split" /\ fwd' = fwd + 1
    /\ printed' = printed \cup {[fwd |-> fwd, bwd |-> total - fwd, count |-> count, found |-> found]}
    /\ any_split_found' = (any_split_found \/ found # NoPair)
    /\ UNCHANGED <<total, start, end, r, forward, backward, count, found, fruitless>>

PrintTotal ==
    /\ at = "split" /\ fwd >= total
    /\ at' = "total" /\ total' = total + 1
    /\ fruitless' = IF any_split_found THEN fruitless ELSE fruitless \cup {total}
    /\ UNCHANGED <<fwd, start, end, r, forward, backward, count, found, any_split_found, printed>>

ImpossibleNext ==
    \/ BeginTotal \/ BeginSplit \/ SetStart \/ ForwardRound \/ ForwardEnd \/ SetEnd
    \/ BackwardRound \/ Compare \/ NextStart \/ PrintSplit \/ PrintTotal

ImpossibleDone == at = "total" /\ total > MaxTotal

ImpossibleSpec == ImpossibleInit /\ [][ImpossibleNext]_impossibleVars
-----------------------------------------------------------------------------
(***************************************************************************)
(* "a contradiction is found for ALL 256 position pairs whenever one side  *)
(* of the split is exactly 1 round, and for NONE of the 256 position pairs *)
(* whenever both sides are 2 or more rounds" (lines 273-276), whatever the *)
(* number of rounds, and so no total is without a split that contradicts.  *)
(***************************************************************************)
Decided(line) ==
    IF line.fwd = 1 \/ line.bwd = 1
    THEN line.count = 256 /\ line.found = <<Cell(0), Cell(0)>>
    ELSE line.count = 0 /\ line.found = NoPair

SplitDecides == fruitless = {} /\ \A line \in printed : Decided(line)
=============================================================================
