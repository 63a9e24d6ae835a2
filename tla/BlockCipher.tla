----------------------------- MODULE BlockCipher -----------------------------
(***************************************************************************)
(* mako_encrypt_block() and mako_decrypt_block() of src/cipher.c, one step *)
(* per round, under a schedule mako_key_init() has made: a first call,     *)
(* either way, and then a second one that takes its result back or works   *)
(* on the same block with one byte changed.                                *)
(***************************************************************************)
EXTENDS KeySchedule, FiniteSets

CONSTANTS
    Blocks,             \* what the first call works on
    Changes             \* what is done to one byte for the second

Block == [0..15 -> Byte]
RoundKeys == [0..TotalWords-1 -> Word]

ASSUME InputAssumption ==
    Blocks \subseteq Block /\ Changes \subseteq [at : 0..15, by : Byte \ {{}}]

-----------------------------------------------------------------------------
bytes_to_state(in) == [x \in Cells |-> in[4 * x[2] + x[1]]]
state_to_bytes(s) == [n \in 0..15 |-> s[<<n % 4, n \div 4>>]]

add_round_key(s, k, r) == [x \in Cells |-> s[x] ++ k[4 * r + x[2]][x[1]]]

Round(s, k, r) == add_round_key(mix_columns(shift_rows(sub_bytes(s))), k, r)
FinalRound(s, k) == add_round_key(shift_rows(sub_bytes(s)), k, Rounds)

InvRoundKeyLate(s, k, r) ==         \* Slip: the key goes in after the columns
    inv_sub_bytes(inv_shift_rows(add_round_key(inv_mix_columns(s), k, r)))
InvRound(s, k, r) == inv_sub_bytes(inv_shift_rows(inv_mix_columns(add_round_key(s, k, r))))
InvFinalRound(s, k) == inv_sub_bytes(inv_shift_rows(add_round_key(s, k, Rounds)))

-----------------------------------------------------------------------------
VARIABLES
    pc,         \* "idle", or the operation being done
    round, state,
    call,       \* the operation and block of the current or last call
    out,        \* what it returned
    first,      \* history: the first call, with what it returned
    trace       \* history: the state of the first call after each round key

cipherVars == <<pc, round, state, call, out, first, trace>>
vars == <<keyVars, cipherVars>>

NoCall == [op |-> "none"]
NoState == [x \in {} |-> {}]

CipherInit ==
    /\ pc = "idle" /\ round = 0 /\ state = NoState /\ out = NoState
    /\ call = NoCall /\ first = NoCall
    /\ trace = [r \in 0..Rounds |-> NoState]

Init == KeyInit /\ CipherInit

Record(r) == trace' = IF first = NoCall THEN [trace EXCEPT ![r] = state'] ELSE trace

Begin(op, in) ==
    /\ pc = "idle" /\ pc' = op /\ call' = [op |-> op, in |-> in]
    /\ UNCHANGED <<out, first>>

Return(block) ==
    /\ pc' = "idle" /\ out' = block
    /\ first' = IF first = NoCall THEN [op |-> call.op, in |-> call.in, out |-> block] ELSE first
    /\ UNCHANGED <<round, call>>

EncryptStart(in) ==
    /\ Begin("encrypt", in)
    /\ state' = add_round_key(bytes_to_state(in), ks, 0)
    /\ round' = 1
    /\ Record(0)

EncryptRound ==
    /\ pc = "encrypt" /\ round < Rounds
    /\ state' = Round(state, ks, round)
    /\ round' = round + 1
    /\ Record(round)
    /\ UNCHANGED <<pc, call, out, first>>

EncryptEnd ==
    /\ pc = "encrypt" /\ round >= Rounds
    /\ state' = FinalRound(state, ks)
    /\ Record(Rounds)
    /\ Return(state_to_bytes(state'))

DecryptStart(in) ==
    /\ Begin("decrypt", in)
    /\ state' = InvFinalRound(bytes_to_state(in), ks)
    /\ round' = Rounds - 1
    /\ trace' = IF first = NoCall
                THEN [trace EXCEPT ![Rounds] = bytes_to_state(in), ![Rounds - 1] = state']
                ELSE trace

DecryptRound ==
    /\ pc = "decrypt" /\ round >= 1
    /\ state' = InvRound(state, ks, round)
    /\ round' = round - 1
    /\ Record(round - 1)
    /\ UNCHANGED <<pc, call, out, first>>

DecryptEndKeyless ==                \* Slip: the first round key is forgotten
    /\ pc = "decrypt" /\ round < 1
    /\ state' = state
    /\ Return(state_to_bytes(state'))
    /\ UNCHANGED trace

DecryptEnd ==
    /\ pc = "decrypt" /\ round < 1
    /\ state' = add_round_key(state, ks, 0)
    /\ Return(state_to_bytes(state'))
    /\ UNCHANGED trace

Start(op, in) == IF op = "encrypt" THEN EncryptStart(in) ELSE DecryptStart(in)

FirstCall ==
    /\ made = "OK" /\ other = NoSchedule /\ call = NoCall
    /\ \E op \in {"encrypt", "decrypt"}, in \in Blocks : Start(op, in)

TakeBack ==
    /\ first # NoCall /\ call.in = first.in /\ call.op = first.op
    /\ Start(IF first.op = "encrypt" THEN "decrypt" ELSE "encrypt", first.out)

Changed ==
    /\ first # NoCall /\ call.in = first.in /\ call.op = first.op
    /\ \E ch \in Changes : Start(first.op, [first.in EXCEPT ![ch.at] = @ ++ ch.by])

CipherNext ==
    \/ FirstCall \/ TakeBack \/ Changed
    \/ EncryptRound \/ EncryptEnd \/ DecryptRound \/ DecryptEnd

Next ==
    \/ call = NoCall /\ KeyNext /\ UNCHANGED cipherVars
    \/ CipherNext /\ UNCHANGED keyVars

Spec == Init /\ [][Next]_vars
-----------------------------------------------------------------------------
Call == [op : {"encrypt", "decrypt"}, in : Block]

TypeOK ==
    /\ KeyTypeOK /\ pc \in {"idle", "encrypt", "decrypt"} /\ round \in 0..Rounds
    /\ call \in Call \cup {NoCall} /\ first.op \in {"none", "encrypt", "decrypt"}
    /\ call = NoCall => pc = "idle" /\ first = NoCall
    /\ call # NoCall => made = "OK" /\ state \in State
    /\ pc # "idle" => pc = call.op
    /\ first # NoCall => first.in \in Block /\ first.out \in Block

(***************************************************************************)
(* Where a call is: the number of the round key added last, going forward. *)
(***************************************************************************)
Position == IF pc = "encrypt" THEN round - 1 ELSE round

Opposite == first # NoCall /\ call.op # first.op

(***************************************************************************)
(* Decrypting undoes encrypting round by round, and the other way round:   *)
(* the second call goes through the states of the first (the loops of      *)
(* mako_encrypt_block and mako_decrypt_block, cipher.c).                   *)
(***************************************************************************)
Retraces == Opposite /\ pc # "idle" => state = trace[Position]

(***************************************************************************)
(* The two functions are inverse to each other: neither can return before  *)
(* the block is what it was (mako_decrypt_block, mako_encrypt_block).      *)
(***************************************************************************)
BlockComesBack == Opposite /\ pc = "idle" => out = first.in

(***************************************************************************)
(* "a single-byte change in a column propagates to all four bytes of that  *)
(* column's output" (cipher.c:107-110); and the shifted rows take it to    *)
(* every column: a change of one byte is a change of 4 after a round with  *)
(* MixColumns and of all 16 after two, both ways, and it never dies out.   *)
(***************************************************************************)
OneByteSpreads ==
    first # NoCall /\ call.op = first.op /\ call.in # first.in /\ pc # "idle" =>
        LET active == {x \in Cells : state[x] # trace[Position][x]}
            mixed == IF pc = "encrypt" THEN Position ELSE Rounds - 1 - Position
        IN  Cardinality(active) \in
                (CASE mixed = 0 -> {1} [] mixed = 1 -> {4} [] mixed = 2 -> {16}
                   [] OTHER -> 1..16)

-----------------------------------------------------------------------------
(***************************************************************************)
(* The inductive invariant behind BlockComesBack: the trace is the         *)
(* cipher's path from the plaintext to the ciphertext, as far as the first *)
(* call has come, whichever end it began at.                               *)
(***************************************************************************)
Linked(r) ==
    trace[r] = IF r = Rounds THEN FinalRound(trace[r - 1], ks) ELSE Round(trace[r - 1], ks, r)

Known(lo, hi) ==
    /\ \A r \in lo..hi : trace[r] \in State
    /\ \A r \in lo+1..hi : Linked(r)

StartsFrom(block) == trace[0] = add_round_key(bytes_to_state(block), ks, 0)
EndsIn(block) == trace[Rounds] = bytes_to_state(block)

RoundInv ==
    /\ trace \in [0..Rounds -> State \cup {NoState}]
    /\ pc = "encrypt" => round \in 1..Rounds
    /\ pc = "decrypt" => round \in 0..Rounds-1

FirstInv ==
    call # NoCall /\ first = NoCall =>
        /\ pc = call.op /\ state = trace[Position]
        /\ pc = "encrypt" => StartsFrom(call.in) /\ Known(0, round - 1)
        /\ pc = "decrypt" => EndsIn(call.in) /\ Known(round, Rounds)

SecondInv ==
    first # NoCall =>
        /\ Known(0, Rounds)
        /\ StartsFrom(IF first.op = "encrypt" THEN first.in ELSE first.out)
        /\ EndsIn(IF first.op = "encrypt" THEN first.out ELSE first.in)
        /\ first.op # "none" /\ (Opposite => call.in = first.out)

CipherInv == RoundInv /\ FirstInv /\ SecondInv /\ Retraces /\ BlockComesBack

IInv == TypeOK /\ CipherInv
=============================================================================
