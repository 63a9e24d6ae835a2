------------------------------ MODULE Integral -------------------------------
(***************************************************************************)
(* tools/integral_attack_test.c: sets of 256 plaintexts that differ in one *)
(* byte only, which has every value, are encrypted with a reduced number   *)
(* of rounds under a key made by mako_key_init(), one step per call of     *)
(* count_balanced_bytes(), and the positions counted at which all 256      *)
(* results add up to 0.                                                    *)
(*                                                                         *)
(* The program has its own copies of the layers of src/cipher.c, line for  *)
(* line the same, so BlockCipher's stand for them here.                    *)
(***************************************************************************)
EXTENDS BlockCipher, Sequences

CONSTANTS
    IntegralKeys,       \* what next_rand() may have made the key
    Bases,              \* what next_rand() makes the other bytes of the plaintexts, in turn
    MaxReduced,         \* max_rounds: 6, or the argument
    Swept               \* the bytes tried, in order: 0 to 15

ASSUME IntegralAssumption ==
    /\ IntegralKeys \subseteq Keys \cap KeyOf(4) /\ Bases \in Seq(Block) /\ Bases # <<>>
    /\ MaxReduced \in 0..Rounds
    /\ Swept \in Seq(0..15) /\ Swept # <<>>

-----------------------------------------------------------------------------
encrypt_reduced_rounds(k, in, num_rounds) ==
    LET after[r \in 0..num_rounds] ==
            IF r = 0 THEN add_round_key(bytes_to_state(in), k, 0)
            ELSE LET s == shift_rows(sub_bytes(after[r - 1]))
                 IN  add_round_key(IF r < num_rounds THEN mix_columns(s) ELSE s, k, r)
    IN  state_to_bytes(after[num_rounds])

build_lambda_set_short(base, active) ==     \* Slip: the value 0 is left out
    [v \in 1..255 |-> [base EXCEPT ![active] = FromInt(v)]]
build_lambda_set(base, active) == [v \in 0..255 |-> [base EXCEPT ![active] = FromInt(v)]]

(***************************************************************************)
(* The sum of all results, bit by bit: a bit of it is 1 if it is 1 in an   *)
(* odd number of them.                                                     *)
(***************************************************************************)
Results(k, plaintexts, num_rounds) ==
    [v \in DOMAIN plaintexts |-> encrypt_reduced_rounds(k, plaintexts[v], num_rounds)]
XorSum(results) ==
    [n \in 0..15 |->
        {b \in 0..7 : Cardinality({v \in DOMAIN results : b \in results[v][n]}) % 2 = 1}]

BalancedBytes(xor_sum) == Cardinality({n \in 0..15 : xor_sum[n] = {}})

-----------------------------------------------------------------------------
VARIABLES
    rounds,                 \* the number of rounds tried
    next_byte,              \* where in Swept the loop is
    worst_balanced_count, worst_active_byte,
    all_rounds_safe,
    drawn,                  \* how many sets of plaintexts have been made
    measured                \* history: what count_balanced_bytes() has returned

integralVars ==
    <<rounds, next_byte, worst_balanced_count, worst_active_byte, all_rounds_safe,
      drawn, measured>>

IntegralInit ==
    /\ rounds = 1 /\ next_byte = 1
    /\ worst_balanced_count = 0 /\ worst_active_byte = 0
    /\ all_rounds_safe = TRUE /\ drawn = 0 /\ measured = {}

IntegralKey ==
    /\ \/ \E k \in IntegralKeys : FirstKey(k, 4)
       \/ Expand \/ Ready
    /\ made # "OK"
    /\ UNCHANGED integralVars

count_balanced_bytes(active) ==
    LET base == Bases[(drawn % Len(Bases)) + 1]
    IN  BalancedBytes(XorSum(Results(ks, build_lambda_set(base, active), rounds)))

Counted(balanced) ==
    /\ measured' = measured \cup {[rounds |-> rounds, balanced |-> balanced]}
    /\ drawn' = drawn + 1

Try ==
    /\ made = "OK" /\ rounds <= MaxReduced /\ next_byte <= Len(Swept)
    /\ \E balanced \in {count_balanced_bytes(Swept[next_byte])} :
          /\ Counted(balanced)
          /\ IF balanced > worst_balanced_count
             THEN worst_balanced_count' = balanced /\ worst_active_byte' = Swept[next_byte]
             ELSE UNCHANGED <<worst_balanced_count, worst_active_byte>>
    /\ next_byte' = next_byte + 1
    /\ UNCHANGED <<rounds, all_rounds_safe>>

(***************************************************************************)
(* The worst byte is tried again, on a set that is not the one it was      *)
(* worst on, and that is what is printed and judged.                       *)
(***************************************************************************)
TryWorst ==
    /\ made = "OK" /\ rounds <= MaxReduced /\ next_byte > Len(Swept)
    /\ \E balanced \in {count_balanced_bytes(worst_active_byte)} :
          /\ Counted(balanced)
          /\ all_rounds_safe' = (all_rounds_safe /\ balanced = 0)
    /\ rounds' = rounds + 1 /\ next_byte' = 1
    /\ worst_balanced_count' = 0 /\ worst_active_byte' = 0

IntegralNext ==
    \/ IntegralKey
    \/ (Try \/ TryWorst) /\ UNCHANGED keyVars

IntegralDone == rounds > MaxReduced
-----------------------------------------------------------------------------
(***************************************************************************)
(* "a lambda set fed through enough rounds keeps a detectable statistical  *)
(* property ... this typically holds for 3 rounds" (lines 12-24): up to    *)
(* three rounds every position is balanced, whichever byte is swept and    *)
(* whatever the others are, so the program calls those rounds unsafe; with *)
(* a fourth round that is over.                                            *)
(***************************************************************************)
ThreeRounds ==
    /\ \A one \in measured : one.rounds <= 3 => one.balanced = 16
    /\ rounds > 1 => ~all_rounds_safe

Balanced == ThreeRounds /\ \A one \in measured : one.balanced = 16 => one.rounds <= 3
=============================================================================
