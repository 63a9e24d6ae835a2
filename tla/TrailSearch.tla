----------------------------- MODULE TrailSearch -----------------------------
(***************************************************************************)
(* tools/differential_trail_search.c: for every number of rounds, a search *)
(* from each of the 16 one-byte differences 0x01 for the most probable     *)
(* differential trail, one step per call of search_round().  The search    *)
(* adds up base-2 logarithms of probabilities, which are never positive: a *)
(* weight is the negative of such a sum.                                   *)
(***************************************************************************)
EXTENDS Layers, FiniteSets, Sequences

CONSTANTS
    MaxRounds,          \* max_rounds: 4, or the argument
    Trails              \* differential trails to compare the results with

ASSUME MaxRoundsAssumption == MaxRounds \in Nat
ASSUME TrailsAssumption == Trails \subseteq Seq([before : State, after : State])

NoDifference == [x \in Cells |-> {}]
ActiveBytes(d) == {x \in Cells : d[x] # {}}

-----------------------------------------------------------------------------
(***************************************************************************)
(* The difference distribution table: how many bytes the S-box turns the   *)
(* difference dx into the difference dy for.  (For TLC's sake the bytes    *)
(* are sorted by the upper half of dy first.)                              *)
(***************************************************************************)
SboxAt == [n \in 0..255 |-> SBOX[FromInt(n)]]
Turned ==
    [dx \in 0..255 |->
        [n \in 0..255 |-> ToInt(SboxAt[n] ++ SboxAt[ToInt(FromInt(n) ++ FromInt(dx))])]]
Sorted ==
    [dx \in 0..255 |-> [upper \in 0..15 |-> {n \in 0..255 : Turned[dx][n] \div 16 = upper}]]
DDT ==
    [dx \in 0..255 |-> [dy \in 0..255 |->
        Cardinality({n \in Sorted[dx][dy \div 16] : Turned[dx][n] = dy})]]

(***************************************************************************)
(* precompute_best_ddt_row(): of the most frequent output differences the  *)
(* first; and a zero difference stays one.                                 *)
(***************************************************************************)
FirstLargest(counts) ==
    CHOOSE dy \in 0..255 :
        \A other \in 0..255 :
            IF other < dy THEN counts[other] < counts[dy] ELSE counts[other] <= counts[dy]

Best == [dx \in Byte |-> FromInt(FirstLargest(DDT[ToInt(dx)]))]
Count(dx, dy) == DDT[ToInt(dx)][ToInt(dy)]

(***************************************************************************)
(* "the largest entry in the table excluding the trivial row dx=0" is 4    *)
(* (tools/sbox_analysis.c:14-23, and line 303 here), and every row has it, *)
(* so an S-box that is active costs 6 at least.                            *)
(***************************************************************************)
Weight(count) == CHOOSE w \in 0..8 : count * 2^w = 256

ASSUME UniformityAssumption ==
    /\ Best[{}] = {}
    /\ \A dy \in Byte \ {{}} : Count({}, dy) = 0
    /\ \A dx \in Byte \ {{}} :
          /\ Best[dx] # {} /\ Count(dx, Best[dx]) = 4
          /\ Count(dx, {}) = 0 /\ \A dy \in Byte : Count(dx, dy) \in {0, 2, 4}

(***************************************************************************)
(* The matrix of MixColumns has branch number 5, from which the bound of   *)
(* "at least 5 active S-boxes" follows: no two bytes of a column that are  *)
(* not both zero give zero in two places, as no minor of order 2 vanishes. *)
(***************************************************************************)
ASSUME MinorAssumption ==
    /\ \A c, d \in {1, 2, 3}, b \in Byte : GF_MUL[c][GF_MUL[d][b]] = GF_MUL[d][GF_MUL[c][b]]
    /\ \A r, q, j, k \in Index, b \in Byte \ {{}} :
          r # q /\ j # k =>
              GF_MUL[MIX[(k - r) % 4]][GF_MUL[MIX[(j - q) % 4]][b]]
                 # GF_MUL[MIX[(k - q) % 4]][GF_MUL[MIX[(j - r) % 4]][b]]

(***************************************************************************)
(* mix_columns_pattern() multiplies by itself what MixColumns looks up.    *)
(***************************************************************************)
shift_rows_pattern(d) == shift_rows(d)
mix_columns_pattern_none(d) == d    \* Slip: the columns are not mixed
mix_columns_pattern(d) == mix_columns(d)

SubBest(d) == [x \in Cells |-> Best[d[x]]]

(* Added up row by row: a byte that does not differ costs nothing. *)
AddUp(f, n) == LET sum[k \in 0..n] == IF k = 0 THEN 0 ELSE sum[k - 1] + f[k - 1] IN sum[n]
Costs(d, e) ==
    [n \in 0..15 |->
        LET x == <<n \div 4, n % 4>> IN IF d[x] = {} THEN 0 ELSE Weight(Count(d[x], e[x]))]
SubWeight(d) == AddUp(Costs(d, SubBest(d)), 16)

-----------------------------------------------------------------------------
VARIABLES
    doing,                      \* "rounds", "starts" or "search_round"
    g_target_rounds,
    g_best,                     \* the weight of g_best_trail_log2_prob
    g_best_trail_active_bytes,
    g_nodes_visited,
    from,                       \* the start, by number
    difference, depth, weight,  \* the arguments of search_round()
    results                     \* the lines printed

trailVars == <<doing, g_target_rounds, g_best, g_best_trail_active_bytes, g_nodes_visited,
               from, difference, depth, weight, results>>

NoTrail == -1                   \* the weight of -1e18: any trail is better
Single(n) == [NoDifference EXCEPT ![<<n \div 4, n % 4>>] = {0}]

TrailInit ==
    /\ doing = "rounds" /\ g_target_rounds = 1
    /\ g_best = NoTrail /\ g_best_trail_active_bytes = 0 /\ g_nodes_visited = 0
    /\ from = 0 /\ difference = NoDifference /\ depth = 0 /\ weight = 0
    /\ results = {}

RunSearchOnce ==                    \* Slip: the best of the searches before is kept
    /\ doing = "rounds" /\ g_target_rounds <= MaxRounds
    /\ doing' = "starts" /\ from' = 0 /\ g_nodes_visited' = 0
    /\ UNCHANGED <<g_best, g_best_trail_active_bytes, g_target_rounds, difference, depth, weight,
                   results>>

RunSearch ==
    /\ doing = "rounds" /\ g_target_rounds <= MaxRounds
    /\ doing' = "starts" /\ from' = 0
    /\ g_best' = NoTrail /\ g_best_trail_active_bytes' = 0 /\ g_nodes_visited' = 0
    /\ UNCHANGED <<g_target_rounds, difference, depth, weight, results>>

StartFrom ==
    /\ doing = "starts" /\ from < 16
    /\ doing' = "search_round"
    /\ difference' = Single(from) /\ depth' = 0 /\ weight' = 0
    /\ UNCHANGED <<g_target_rounds, g_best, g_best_trail_active_bytes, g_nodes_visited, from, results>>

Hopeless(w) == g_best # NoTrail /\ w > g_best

Back == doing' = "starts" /\ from' = from + 1 /\ UNCHANGED <<difference, depth, weight>>

Complete ==
    /\ IF g_best = NoTrail \/ weight < g_best
       THEN g_best' = weight /\ g_best_trail_active_bytes' = Cardinality(ActiveBytes(difference))
       ELSE UNCHANGED <<g_best, g_best_trail_active_bytes>>
    /\ Back

Descend ==
    /\ difference' = mix_columns_pattern(shift_rows_pattern(SubBest(difference)))
    /\ depth' = depth + 1 /\ weight' = weight + SubWeight(difference)
    /\ UNCHANGED <<doing, from>>

SearchRound ==
    /\ doing = "search_round"
    /\ g_nodes_visited' = g_nodes_visited + 1
    /\ IF ~Hopeless(weight) /\ depth = g_target_rounds THEN Complete
       ELSE /\ UNCHANGED <<g_best, g_best_trail_active_bytes>>
            /\ IF Hopeless(weight) \/ Hopeless(weight + SubWeight(difference)) THEN Back
               ELSE Descend
    /\ UNCHANGED <<g_target_rounds, results>>

PrintLine ==
    /\ doing = "starts" /\ from >= 16
    /\ doing' = "rounds" /\ g_target_rounds' = g_target_rounds + 1
    /\ results' = results \cup
           {[rounds |-> g_target_rounds, weight |-> g_best, nodes |-> g_nodes_visited]}
    /\ UNCHANGED <<g_best, g_best_trail_active_bytes, g_nodes_visited, from, difference, depth, weight>>

TrailNext == RunSearch \/ StartFrom \/ SearchRound \/ PrintLine

TrailDone == doing = "rounds" /\ g_target_rounds > MaxRounds

TrailSpec == TrailInit /\ [][TrailNext]_trailVars
-----------------------------------------------------------------------------
(***************************************************************************)
(* The 16 starts are "equivalent under the cipher's row/column symmetry"   *)
(* (lines 235-237): each finds a trail of the same weight, so that nothing *)
(* is ever pruned, and nothing is left of the search before (run_search,   *)
(* search_round).                                                          *)
(***************************************************************************)
StartsAlike ==
    /\ doing = "search_round" /\ g_best # NoTrail =>
          IF depth = g_target_rounds THEN weight = g_best ELSE weight < g_best
    /\ \A line \in results : line.nodes = 16 * (line.rounds + 1)

(***************************************************************************)
(* A differential trail: the differences before and after the S-boxes of   *)
(* every round.  It has a probability: every S-box can turn the one into   *)
(* the other, and the linear layer takes a round's to the next.            *)
(***************************************************************************)
IsTrail(t) ==
    /\ t # <<>> /\ ActiveBytes(t[1].before) # {}
    /\ \A k \in 1..Len(t), x \in Cells : Count(t[k].before[x], t[k].after[x]) > 0
    /\ \A k \in 2..Len(t) : t[k].before = mix_columns(shift_rows(t[k - 1].after))

RoundWeight(step) == AddUp(Costs(step.before, step.after), 16)

TrailWeight(t) == AddUp([k \in 0..Len(t) - 1 |-> RoundWeight(t[k + 1])], Len(t))

RealTrails ==
    {[rounds |-> Len(t), start |-> t[1].before, weight |-> TrailWeight(t)] :
        t \in {t \in Trails : IsTrail(t)}}

(***************************************************************************)
(* "any two consecutive rounds have at least 5 active S-boxes", each of a  *)
(* probability of at most 2^-6 (lines 22-27 and 294-309): so much weight   *)
(* there is in every pair of rounds of the trails searched, and of others. *)
(***************************************************************************)
WideBound(rounds) == 5 * 6 * (rounds \div 2)

WideTrail ==
    /\ doing = "search_round" => weight >= WideBound(depth)
    /\ \A line \in results :
          /\ line.weight >= WideBound(line.rounds)
          /\ \A t \in RealTrails : t.rounds = line.rounds => t.weight >= WideBound(line.rounds)

(***************************************************************************)
(* "these per-round numbers are an UPPER BOUND on the true best trail      *)
(* probability" (line 284): no trail of as many rounds, not even from the  *)
(* starts of the search, has less weight than is printed.                  *)
(***************************************************************************)
ReportIsUpperBound ==
    \A line \in results, t \in RealTrails :
        t.rounds = line.rounds /\ (\E n \in 0..15 : t.start = Single(n))
            => t.weight >= line.weight
=============================================================================
