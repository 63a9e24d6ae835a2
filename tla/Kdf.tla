--------------------------------- MODULE Kdf ---------------------------------
(***************************************************************************)
(* mako_kdf_derive() of src/kdf.c: a key from a salt and a passphrase, in  *)
(* three loops of one compression each, absorb, stretch and expand.  A     *)
(* second derivation may follow the first, so that the keys can be         *)
(* compared.                                                               *)
(*                                                                         *)
(* One compression is the block cipher under a 16-byte key with its input  *)
(* added to its output.  It is modelled as one that never gives two        *)
(* results alike, which is what the derivation hopes of it: a state is the *)
(* sequence of the keys it was compressed under, Self where a state was    *)
(* its own key.  What collides here collides whatever the cipher.          *)
(***************************************************************************)
EXTENDS Integers, Sequences

CONSTANTS
    BlockSize,          \* MAKO_BLOCK_SIZE, the salt's size too: 16
    Iterations,         \* MAKO_KDF_ITERATIONS: 100000
    Letters,            \* bytes
    Salts, Passphrases,
    KeyLengths          \* key_out_len: 16 and 32

ASSUME SizeAssumption == BlockSize \in Nat \ {0} /\ Iterations \in Nat /\ KeyLengths \subseteq Nat

ASSUME InputAssumption ==
    Salts \subseteq [1..BlockSize -> Letters] /\ Passphrases \subseteq Seq(Letters)

VARIABLES
    pc,                 \* "idle", "absorb", "stretch", "expand" or "aborted"
    args,               \* salt, passphrase and key_out_len of the call
    offset, state, iter, produced, counter,
    key_out,
    first               \* history: the first call, with its key

vars == <<pc, args, offset, state, iter, produced, counter, key_out, first>>

NoCall == [len |-> 0]
Self == <<>>
Compress(s, k) == Append(s, k)

Init ==
    /\ pc = "idle" /\ args = NoCall /\ first = NoCall
    /\ offset = 0 /\ state = <<>> /\ iter = 0 /\ produced = 0 /\ counter = 0
    /\ key_out = <<>>

-----------------------------------------------------------------------------
combinedAfter == args.pass \o args.salt      \* Slip: the salt comes after the passphrase
combined == args.salt \o args.pass

(***************************************************************************)
(* combined is malloc'ed, and a failure there ends the process.            *)
(***************************************************************************)
Call(salt, pass, n) ==
    /\ pc = "idle"
    /\ first # NoCall => args = first.args /\ n = args.len
    /\ args' = [salt |-> salt, pass |-> pass, len |-> n]
    /\ pc' \in {"absorb", "aborted"}
    /\ offset' = 0 /\ state' = <<>> /\ iter' = 0 /\ produced' = 0 /\ counter' = 0
    /\ key_out' = <<>>
    /\ UNCHANGED first

Cycled(text, from) == [k \in 1..BlockSize |-> text[((from + k - 1) % Len(text)) + 1]]

ChunkZeroFilled ==              \* Slip: filled up with a constant, as a padding would be
    [k \in 1..BlockSize |-> IF offset + k <= Len(combined) THEN combined[offset + k] ELSE 0]
Chunk == Cycled(combined, offset)

AbsorbWholeChunks ==            \* Slip: what is left over at the end is not absorbed
    /\ pc = "absorb" /\ offset + BlockSize <= Len(combined)
    /\ state' = Compress(state, Chunk)
    /\ offset' = offset + BlockSize
    /\ pc' = IF offset' + BlockSize <= Len(combined) THEN "absorb" ELSE "stretch"
    /\ UNCHANGED <<args, iter, produced, counter, key_out, first>>

Absorb ==
    /\ pc = "absorb" /\ offset < Len(combined)
    /\ state' = Compress(state, Chunk)
    /\ offset' = offset + BlockSize
    /\ pc' = IF offset' < Len(combined) THEN "absorb" ELSE "stretch"
    /\ UNCHANGED <<args, iter, produced, counter, key_out, first>>

Stretch ==
    /\ pc = "stretch" /\ iter < Iterations
    /\ state' = Compress(state, Self)
    /\ iter' = iter + 1
    /\ UNCHANGED <<pc, args, offset, produced, counter, key_out, first>>

Stretched ==
    /\ pc = "stretch" /\ iter >= Iterations
    /\ pc' = "expand"
    /\ UNCHANGED <<args, offset, state, iter, produced, counter, key_out, first>>

(***************************************************************************)
(* Byte n of the state compressed under itself with the counter added.     *)
(***************************************************************************)
OutByte(n) == [from |-> Compress(state, Self), counter |-> counter, byte |-> n]

Take == IF args.len - produced > BlockSize THEN BlockSize ELSE args.len - produced

ExpandOneCounter ==             \* Slip: every block comes from the same counter
    /\ pc = "expand" /\ produced < args.len
    /\ key_out' = key_out \o [n \in 1..Take |-> OutByte(n)]
    /\ produced' = produced + Take
    /\ UNCHANGED <<pc, args, offset, state, iter, counter, first>>

ExpandWhole ==                  \* Slip: the last block is not cut
    /\ pc = "expand" /\ produced < args.len
    /\ key_out' = key_out \o [n \in 1..BlockSize |-> OutByte(n)]
    /\ produced' = produced + BlockSize
    /\ counter' = (counter + 1) % 256
    /\ UNCHANGED <<pc, args, offset, state, iter, first>>

Expand ==
    /\ pc = "expand" /\ produced < args.len
    /\ key_out' = key_out \o [n \in 1..Take |-> OutByte(n)]
    /\ produced' = produced + Take
    /\ counter' = (counter + 1) % 256
    /\ UNCHANGED <<pc, args, offset, state, iter, first>>

Return ==
    /\ pc = "expand" /\ produced >= args.len
    /\ pc' = "idle"
    /\ first' = IF first = NoCall THEN [args |-> args, key |-> key_out] ELSE first
    /\ UNCHANGED <<args, offset, state, iter, produced, counter, key_out>>

Next ==
    \/ \E salt \in Salts, pass \in Passphrases, n \in KeyLengths : Call(salt, pass, n)
    \/ Absorb \/ Stretch \/ Stretched \/ Expand \/ Return

Spec == Init /\ [][Next]_vars
-----------------------------------------------------------------------------
(***************************************************************************)
(* Types; key_out is filled from its beginning and never past its end.     *)
(***************************************************************************)
TypeOK ==
    /\ pc \in {"idle", "absorb", "stretch", "expand", "aborted"}
    /\ args # NoCall => args \in [salt : Salts, pass : Passphrases, len : KeyLengths]
    /\ args = NoCall => pc = "idle" /\ first = NoCall
    /\ offset \in Nat /\ iter \in 0..Iterations /\ counter \in 0..255
    /\ \A n \in 1..Len(state) : state[n] = Self \/ state[n] \in [1..BlockSize -> Letters]
    /\ produced = Len(key_out) /\ produced <= args.len

Returned == pc = "idle" /\ first # NoCall

(***************************************************************************)
(* The whole key is written, and no byte of it is a byte written before:   *)
(* "the second 16-byte half of a 256-bit key is not a trivial function of  *)
(* the first" (kdf.c:98-101).                                              *)
(***************************************************************************)
KeyFilled ==
    Returned =>
        /\ Len(key_out) = args.len
        /\ \A m, n \in 1..Len(key_out) : key_out[m] = key_out[n] => m = n

SomeByteInCommon == \E m, n \in 1..args.len : key_out[m] = first.key[n]

(***************************************************************************)
(* "two different salts produce two entirely different absorption          *)
(* sequences" (kdf.c:55-57): the same passphrase or not, and however it is *)
(* cycled, two salts never lead to keys with a byte in common.             *)
(***************************************************************************)
SaltsSeparate == Returned /\ args.salt # first.args.salt => ~SomeByteInCommon

(***************************************************************************)
(* Under one salt two passphrases of one length have no byte of their keys *)
(* in common, and two of different lengths only if the longer ends as the  *)
(* shorter is cycled, in the same block (kdf.c:20-25): "ab" and "ab"       *)
(* followed by the first 14 bytes of the salt are one passphrase.          *)
(***************************************************************************)
Fills(short, long) ==
    /\ Len(short) <= Len(long)
    /\ (Len(short) - 1) \div BlockSize = (Len(long) - 1) \div BlockSize
    /\ \A n \in 1..Len(long) : long[n] = short[((n - 1) % Len(short)) + 1]

CollideOnlyByFill ==
    Returned /\ args.salt = first.args.salt /\ SomeByteInCommon =>
        LET before == first.args.salt \o first.args.pass
            now == args.salt \o args.pass
        IN  Fills(before, now) \/ Fills(now, before)

(***************************************************************************)
(* What the comment at main.c:205-209 says of version 1: "an all-zero      *)
(* salt: this reproduces exactly what version 1 used to do (the pre-salt   *)
(* mako_kdf_derive() always absorbed the passphrase alone)".               *)
(***************************************************************************)
AbsorbedAlone(text) ==
    [n \in 1..(Len(text) + BlockSize - 1) \div BlockSize |-> Cycled(text, BlockSize * (n - 1))]

ZeroSaltIsNone ==
    pc = "stretch" /\ iter = 0 /\ args.salt = [n \in 1..BlockSize |-> 0] =>
        state = AbsorbedAlone(args.pass)
=============================================================================
