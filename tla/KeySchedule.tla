----------------------------- MODULE KeySchedule -----------------------------
(***************************************************************************)
(* mako_key_init() of src/keyschedule.c, one step per word.  Two schedules *)
(* may be made one after the other, from keys of one size, so that they    *)
(* can be compared; the structure they are made in is new for each, and    *)
(* ks holds what has been written of it.                                   *)
(***************************************************************************)
EXTENDS Layers

CONSTANTS
    Rounds,         \* MAKO_ROUNDS: 16
    RCON,           \* the round constants of src/sbox.h
    Keys            \* the keys the caller may give

TotalWords == 4 * (Rounds + 1)
KeyWords == {4, 8}
KeyOf(n) == [0..n-1 -> Word]

ASSUME SizeAssumption == Rounds \in Nat \ {0}
ASSUME TablesAssumption == SBOX \in [Byte -> Byte] /\ RCON \in [0..Rounds -> Byte]
ASSUME KeyAssumption == Keys \subseteq KeyOf(4) \cup KeyOf(8)

VARIABLES
    ks,         \* round_keys, as far as it is written
    key_words,
    i,          \* the word to be written next
    made,       \* "none", "expanding", or what mako_key_init() returned
    key,        \* history: the key
    other       \* history: the schedule made before this one

keyVars == <<ks, key_words, i, made, key, other>>

Nothing == [n \in {} |-> n]
NoSchedule == [key |-> Nothing, ks |-> Nothing]

-----------------------------------------------------------------------------
word_xor(x, y) == [b \in Index |-> x[b] ++ y[b]]
sub_word(w) == [b \in Index |-> SBOX[w[b]]]
rot_word(w) == [b \in Index |-> w[(b + 1) % 4]]

KeyInit == /\ ks = Nothing /\ key_words = 4 /\ i = 0 /\ made = "none"
           /\ key = Nothing /\ other = NoSchedule

Refuse(null) ==
    /\ made = "none"
    /\ made' = IF null THEN "INVALID_ARG" ELSE "INVALID_KEY_SIZE"
    /\ UNCHANGED <<ks, key_words, i, key, other>>

Load(k, n) ==
    /\ ks' = k /\ key' = k /\ key_words' = n /\ i' = n
    /\ made' = "expanding"

FirstKey(k, n) ==
    /\ made \notin {"expanding", "OK"} /\ k \in KeyOf(n)
    /\ Load(k, n)
    /\ UNCHANGED other

SecondKey(k) ==
    /\ made = "OK" /\ other = NoSchedule /\ k \in KeyOf(key_words) \ {key}
    /\ other' = [key |-> key, ks |-> ks]
    /\ Load(k, key_words)

(***************************************************************************)
(* What is added to the word key_words before: the previous word, every    *)
(* key_words-th time and halfway through a long key put through the S-box. *)
(***************************************************************************)
Temp ==
    LET prev == ks[i - 1]
    IN  IF i % key_words = 0
        THEN [sub_word(rot_word(prev)) EXCEPT ![0] = @ ++ RCON[i \div key_words]]
        ELSE IF key_words > 6 /\ i % key_words = 4 THEN sub_word(prev)
        ELSE prev

FeedNext == ks[i - key_words + 1]       \* Slip: off by one, the first word is never used
Feed == ks[i - key_words]

Expand ==
    /\ made = "expanding" /\ i < TotalWords
    /\ ks' = [n \in 0..i |-> IF n = i THEN word_xor(Feed, Temp) ELSE ks[n]]
    /\ i' = i + 1
    /\ UNCHANGED <<key_words, made, key, other>>

ReadyEarly ==                   \* Slip: the round key after the last round is not made
    /\ made = "expanding" /\ i >= TotalWords - 4
    /\ made' = "OK"
    /\ UNCHANGED <<ks, key_words, i, key, other>>

Ready ==
    /\ made = "expanding" /\ i >= TotalWords
    /\ made' = "OK"
    /\ UNCHANGED <<ks, key_words, i, key, other>>

KeyNext ==
    \/ \E null \in BOOLEAN : Refuse(null)
    \/ \E k \in Keys, n \in KeyWords : FirstKey(k, n)
    \/ \E k \in Keys : SecondKey(k)
    \/ Expand \/ Ready

KeySpec == KeyInit /\ [][KeyNext]_keyVars
-----------------------------------------------------------------------------
(***************************************************************************)
(* Types; every word before i has been written, and is all that is read.   *)
(* A finished schedule has a round key for every round, and the round      *)
(* constants end where the longest loop ends.                              *)
(***************************************************************************)
KeyTypeOK ==
    /\ made \in {"none", "expanding", "OK", "INVALID_ARG", "INVALID_KEY_SIZE"}
    /\ key_words \in KeyWords
    /\ made \notin {"expanding", "OK"} => other = NoSchedule
    /\ made \in {"expanding", "OK"} =>
          /\ key \in KeyOf(key_words) /\ i \in key_words..TotalWords
          /\ ks \in [0..i-1 -> Word] /\ \A n \in 0..key_words-1 : ks[n] = key[n]
          /\ made = "expanding" /\ i < TotalWords => i \div key_words \in 1..Rounds
    /\ made = "OK" => i = TotalWords
    /\ other # NoSchedule => other.key \in KeyOf(key_words) /\ other.ks \in [0..TotalWords-1 -> Word]

(***************************************************************************)
(* Different keys make schedules that differ in every run of key_words     *)
(* words: two 128-bit keys have no round key in common anywhere, two       *)
(* 256-bit keys no two successive ones (mako_key_init, keyschedule.c).     *)
(***************************************************************************)
SchedulesDiffer ==
    made \in {"expanding", "OK"} /\ other # NoSchedule =>
        \A n \in 0..i-key_words : \E m \in n..n+key_words-1 : ks[m] # other.ks[m]
=============================================================================
