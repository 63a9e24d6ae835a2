--------------------------------- MODULE Cbc ---------------------------------
(***************************************************************************)
(* mako_cbc_encrypt() and mako_cbc_decrypt() of src/mode_cbc.c, one step   *)
(* per block, with the caller's buffers as state: a caller that encrypts a *)
(* text once and then has the result, a damaged copy of it or any other    *)
(* bytes decrypted.                                                        *)
(*                                                                         *)
(* A length is its quotient and remainder by the block size, as the code   *)
(* splits it: a text is its full blocks and the bytes that are left, and   *)
(* buffers are sequences of blocks.  The key is fixed, so the block cipher *)
(* is a permutation E of the blocks and its inverse D.  The code has       *)
(* BlockSize = 16 and Radix = 256.                                         *)
(***************************************************************************)
EXTENDS Integers, Sequences

CONSTANTS
    BlockSize, Radix,
    Xor(_, _),              \* exclusive or of two bytes
    E, D,                   \* mako_encrypt_block() and mako_decrypt_block()
    SizeBlocks,             \* how many blocks a size_t counts before it wraps: 2^60
    Texts, IVs,             \* what the caller encrypts
    Strangers               \* ciphertexts that come from elsewhere

Byte == 0..Radix-1
Block == [1..BlockSize -> Byte]
Text == [full : Seq(Block), rest : UNION {[1..n -> Byte] : n \in 0..BlockSize-1}]
Whole(blocks) == [full |-> blocks, rest |-> <<>>]
Bytes(text) == BlockSize * Len(text.full) + Len(text.rest)

ASSUME SizeAssumption ==
    /\ BlockSize \in Nat \ {0, 1} /\ Radix \in Nat /\ BlockSize < Radix
    /\ SizeBlocks \in Nat \ {0}

ASSUME XorAssumption ==
    \A a, b \in Byte :
        /\ Xor(a, b) \in Byte /\ Xor(Xor(a, b), b) = a
        /\ \A c \in Byte : Xor(Xor(a, b), c) = Xor(a, Xor(b, c))

ASSUME CipherAssumption ==
    /\ E \in [Block -> Block] /\ D \in [Block -> Block]
    /\ \A b \in Block : D[E[b]] = b /\ E[D[b]] = b

ASSUME InputAssumption ==
    /\ Texts \subseteq Text /\ IVs \subseteq Block /\ Strangers \subseteq Seq(Block)

(***************************************************************************)
(* A text in memory leaves room for one more block: the largest size_t is  *)
(* not the length of anything.                                             *)
(***************************************************************************)
ASSUME MemoryAssumption == \A text \in Texts : Len(text.full) + 1 < SizeBlocks

(***************************************************************************)
(* What a buffer holds where nothing was written, and a length that was    *)
(* not set.                                                                *)
(***************************************************************************)
Untouched == Radix
Unset == -1
Pointers == {"ks", "iv", "out", "out_len", "data"}
Status == {"none", "OK", "INVALID_ARG", "BUFFER_TOO_SMALL", "PADDING"}

VARIABLES
    pc,         \* "idle" between calls, else "encrypt", "decrypt" or "unpad"
    call,       \* the arguments of the current or last call
    out,        \* the output buffer, and the input too if call.alias
    chain,      \* the block to be added to the next one
    i,          \* blocks done
    status,     \* what the last call returned
    outLen,     \* *out_len
    sealed      \* history: the text encrypted, the IV and the ciphertext

vars == <<pc, call, out, chain, i, status, outLen, sealed>>

NoMessage == [text |-> Whole(<<>>), iv |-> <<>>, ct |-> <<>>]

-----------------------------------------------------------------------------
XorBlock(a, b) == [k \in 1..BlockSize |-> Xor(a[k], b[k])]

(***************************************************************************)
(* mako_cbc_encrypted_size(), in blocks: there is always a padding block,  *)
(* and the sum is a size_t's.                                              *)
(***************************************************************************)
EncryptedSizeNarrow(text) ==        \* Slip: in an integer of half the range
    (Len(text.full) + 1) % (SizeBlocks \div 2)
EncryptedSize(text) == (Len(text.full) + 1) % SizeBlocks

PadValueOfRemainder(text) == Len(text.rest)     \* Slip: the remainder, as the comment has it
PadValue(text) == BlockSize - Len(text.rest)

ArgumentError(c) ==
    IF \/ c.null \cap {"ks", "iv", "out", "out_len"} # {}
       \/ "data" \in c.null /\ Bytes(c.text) > 0
       \/ c.op = "decrypt" /\ (c.text.full = <<>> \/ c.text.rest # <<>> \/ "data" \in c.null)
    THEN "INVALID_ARG"
    ELSE IF c.cap < (IF c.op = "encrypt" THEN EncryptedSize(c.text) ELSE Len(c.text.full))
         THEN "BUFFER_TOO_SMALL" ELSE "none"

Init ==
    /\ pc = "idle" /\ status = "none" /\ outLen = Unset /\ sealed = NoMessage
    /\ call = [op |-> "none", text |-> Whole(<<>>), iv |-> <<>>, cap |-> 0, alias |-> FALSE,
               null |-> {}]
    /\ out = <<>> /\ chain = <<>> /\ i = 0

(***************************************************************************)
(* The blocks of a text as they lie in memory.                             *)
(***************************************************************************)
InMemory(text, j) ==
    IF j <= Len(text.full) THEN text.full[j]
    ELSE [k \in 1..BlockSize |-> IF j = Len(text.full) + 1 /\ k <= Len(text.rest)
                                 THEN text.rest[k] ELSE Untouched]

Enter(op, text, iv, buf) ==
    LET c == [op |-> op, text |-> text, iv |-> iv, cap |-> buf.cap, alias |-> buf.alias,
              null |-> buf.null]
        error == ArgumentError(c)
    IN  /\ pc = "idle"
        /\ call' = c
        /\ out' = [j \in 1..buf.cap |-> InMemory(IF buf.alias THEN text ELSE Whole(<<>>), j)]
        /\ status' = error
        /\ pc' = IF error = "none" THEN op ELSE "idle"
        /\ chain' = iv /\ i' = 0 /\ outLen' = Unset
        /\ UNCHANGED sealed

CallEncrypt(text, iv, buf) == sealed = NoMessage /\ Enter("encrypt", text, iv, buf)

CallDecrypt(text, iv, buf) ==
    sealed # NoMessage /\ call.op = "encrypt" /\ Enter("decrypt", text, iv, buf)

Return(s) == pc' = "idle" /\ status' = s

Source(j) == IF call.alias THEN out[j] ELSE InMemory(call.text, j)

(***************************************************************************)
(* A store past the end of the buffer would make it longer.                *)
(***************************************************************************)
Store(j, b) == out' = IF j <= Len(out) THEN [out EXCEPT ![j] = b] ELSE Append(out, b)

EncryptBlock ==
    /\ pc = "encrypt" /\ i < Len(call.text.full)
    /\ LET block == E[XorBlock(Source(i + 1), chain)]
       IN  Store(i + 1, block) /\ chain' = block
    /\ i' = i + 1
    /\ UNCHANGED <<pc, call, status, outLen, sealed>>

(***************************************************************************)
(* The last block: what is left of the text, and padding.                  *)
(***************************************************************************)
LastBlock ==
    LET rest == Source(i + 1)
    IN  [k \in 1..BlockSize |-> IF k <= Len(call.text.rest) THEN rest[k] ELSE PadValue(call.text)]

EncryptLast ==
    /\ pc = "encrypt" /\ i = Len(call.text.full)
    /\ Store(i + 1, E[XorBlock(LastBlock, chain)])
    /\ outLen' = BlockSize * EncryptedSize(call.text)
    /\ sealed' = [text |-> call.text, iv |-> call.iv, ct |-> SubSeq(out', 1, i + 1)]
    /\ Return("OK")
    /\ UNCHANGED <<call, chain, i>>

DecryptBlockChainsOutput ==     \* Slip: the next block is added to the text, not the ciphertext
    /\ pc = "decrypt" /\ i < Len(call.text.full)
    /\ LET block == XorBlock(D[Source(i + 1)], chain)
       IN  Store(i + 1, block) /\ chain' = block
    /\ i' = i + 1
    /\ UNCHANGED <<pc, call, status, outLen, sealed>>

DecryptBlock ==
    /\ pc = "decrypt" /\ i < Len(call.text.full)
    /\ Store(i + 1, XorBlock(D[Source(i + 1)], chain))
    /\ chain' = Source(i + 1)
    /\ i' = i + 1
    /\ UNCHANGED <<pc, call, status, outLen, sealed>>

DecryptDone ==
    /\ pc = "decrypt" /\ i = Len(call.text.full)
    /\ pc' = "unpad"
    /\ UNCHANGED <<call, out, chain, i, status, outLen, sealed>>

(***************************************************************************)
(* The last byte says how many bytes are padding; all of them must say so. *)
(***************************************************************************)
PaddedNotWhole(block) ==        \* Slip: a block that is all padding is refused
    LET pad == block[BlockSize]
    IN  pad \in 1..BlockSize-1 /\ \A k \in BlockSize-pad+1..BlockSize : block[k] = pad
PaddedLastOnly(block) ==        \* Slip: the other padding bytes are not looked at
    block[BlockSize] \in 1..BlockSize
Padded(block) ==
    LET pad == block[BlockSize]
    IN  pad \in 1..BlockSize /\ \A k \in BlockSize-pad+1..BlockSize : block[k] = pad

Unpad ==
    /\ pc = "unpad"
    /\ IF Padded(out[i])
       THEN outLen' = BlockSize * i - out[i][BlockSize] /\ Return("OK")
       ELSE Return("PADDING") /\ UNCHANGED outLen
    /\ UNCHANGED <<call, out, chain, i, sealed>>

-----------------------------------------------------------------------------
(***************************************************************************)
(* The environment.  The output buffer may be exact, spare or too small,   *)
(* may be the input buffer itself, or one pointer may be NULL.  What is    *)
(* decrypted is the ciphertext, a copy with one byte or the IV changed or  *)
(* the last block gone, a ciphertext that does not end with a block, or    *)
(* a stranger.                                                             *)
(***************************************************************************)
Buffers(n) ==
         [cap : {n - 1, n, n + 1}, alias : {FALSE}, null : {{}}]
    \cup [cap : {n}, alias : {TRUE}, null : {{}}]
    \cup [cap : {n}, alias : {FALSE}, null : {{p} : p \in Pointers}]

Change(block) == {[block EXCEPT ![k] = (block[k] + 1) % Radix] : k \in 1..BlockSize}

Copies(ct) ==
         {ct, SubSeq(ct, 1, Len(ct) - 1)}
    \cup UNION {{[ct EXCEPT ![j] = b] : b \in Change(ct[j])} : j \in DOMAIN ct}

Exact(n, alias) == [cap |-> n, alias |-> alias, null |-> {}]

Next ==
    \/ \E text \in Texts, iv \in IVs : \E buf \in Buffers(EncryptedSize(text)) :
          CallEncrypt(text, iv, buf)
    \/ \E ct \in Copies(sealed.ct), iv \in {sealed.iv} \cup IVs :
          \E buf \in Buffers(Len(sealed.ct)) : CallDecrypt(Whole(ct), iv, buf)
    \/ \E b \in Byte : CallDecrypt([full |-> sealed.ct, rest |-> [k \in 1..1 |-> b]], sealed.iv,
                                   Exact(Len(sealed.ct) + 1, FALSE))
    \/ \E ct \in Strangers : CallDecrypt(Whole(ct), sealed.iv, Exact(Len(ct), TRUE))
    \/ EncryptBlock \/ EncryptLast
    \/ DecryptBlock \/ DecryptDone \/ Unpad

Spec == Init /\ [][Next]_vars
-----------------------------------------------------------------------------
Memory == [1..BlockSize -> Byte \cup {Untouched}]
Message == [text : Text, iv : Block, ct : Seq(Block)]

TypeOK ==
    /\ pc \in {"idle", "encrypt", "decrypt", "unpad"} /\ status \in Status
    /\ call.op \in {"none", "encrypt", "decrypt"} /\ call.alias \in BOOLEAN
    /\ call.op # "none" => call.iv \in Block /\ chain \in Block
    /\ call.text \in Text /\ call.cap \in Nat /\ i \in Nat /\ outLen \in Nat \cup {Unset}
    /\ out \in Seq(Memory) /\ Len(out) = call.cap
    /\ sealed \in Message \cup {NoMessage}

(***************************************************************************)
(* CBC and PKCS#7 by their definitions: each block of padded text, added   *)
(* to the ciphertext block before it, and the padding bytes their number.  *)
(***************************************************************************)
Prev(iv, ct, j) == IF j = 1 THEN iv ELSE ct[j - 1]

PaddedText(text, j) ==
    IF j <= Len(text.full) THEN text.full[j]
    ELSE [k \in 1..BlockSize |-> IF k <= Len(text.rest) THEN text.rest[k]
                                 ELSE BlockSize - Len(text.rest)]

IsCbc(text, iv, ct) ==
    /\ Len(ct) = Len(text.full) + 1
    /\ \A j \in DOMAIN ct : ct[j] = E[XorBlock(PaddedText(text, j), Prev(iv, ct, j))]

Finished(op) == pc = "idle" /\ call.op = op /\ status \in {"OK", "PADDING"}

(***************************************************************************)
(* The ciphertext is CBC's, of every length of text, in a buffer of its    *)
(* own or written over the text it is made from (mako_cbc_encrypt,         *)
(* mode_cbc.c).                                                            *)
(***************************************************************************)
CiphertextIsCbc == sealed # NoMessage => IsCbc(sealed.text, sealed.iv, sealed.ct)

(***************************************************************************)
(* What was encrypted comes back, whatever its length: not a byte more,    *)
(* not a byte less, and never as a padding error (mako_cbc_decrypt,        *)
(* mode_cbc.c).                                                            *)
(***************************************************************************)
RoundTrip ==
    Finished("decrypt") /\ call.text.full = sealed.ct /\ call.iv = sealed.iv =>
        /\ status = "OK" /\ outLen = Bytes(sealed.text)
        /\ \A j \in 1..Len(sealed.text.full) : out[j] = sealed.text.full[j]
        /\ \A k \in 1..Len(sealed.text.rest) :
              out[Len(sealed.text.full) + 1][k] = sealed.text.rest[k]

(***************************************************************************)
(* The encoding is canonical: a ciphertext that is accepted, wherever it   *)
(* came from, is the one ciphertext of the text it yields; so no two       *)
(* ciphertexts with the same IV yield the same text, and no text is        *)
(* returned with a byte of padding in it or a byte of its own missing.     *)
(***************************************************************************)
Yielded ==
    [full |-> SubSeq(out, 1, outLen \div BlockSize),
     rest |-> IF outLen % BlockSize = 0 THEN <<>>
              ELSE SubSeq(out[outLen \div BlockSize + 1], 1, outLen % BlockSize)]

Canonical ==
    Finished("decrypt") /\ status = "OK" => IsCbc(Yielded, call.iv, call.text.full)

(***************************************************************************)
(* A change of one ciphertext block garbles that block of the text and     *)
(* carries over, as it is, to the next one; every other block is what it   *)
(* was, in place or not, padding error or not.                             *)
(***************************************************************************)
DamageStaysLocal ==
    Finished("decrypt") /\ call.iv = sealed.iv /\ Len(call.text.full) = Len(sealed.ct) =>
        \A j \in DOMAIN sealed.ct :
            LET before == Prev(sealed.iv, sealed.ct, j)
                now == Prev(call.iv, call.text.full, j)
            IN  call.text.full[j] = sealed.ct[j] =>
                    out[j] = XorBlock(PaddedText(sealed.text, j), XorBlock(before, now))

-----------------------------------------------------------------------------
(***************************************************************************)
(* The inductive invariant behind RoundTrip: how far a call has come, and  *)
(* that what is still to be read has not been written over.                *)
(***************************************************************************)
Decrypted(j) == out[j] = XorBlock(D[call.text.full[j]], Prev(call.iv, call.text.full, j))

EncryptInv ==
    pc = "encrypt" =>
        /\ call.op = "encrypt" /\ i <= Len(call.text.full) /\ Len(call.text.full) < call.cap
        /\ EncryptedSize(call.text) = Len(call.text.full) + 1
        /\ chain = Prev(call.iv, out, i + 1)
        /\ \A j \in 1..i : /\ out[j] \in Block
                            /\ out[j] = E[XorBlock(call.text.full[j], Prev(call.iv, out, j))]
        /\ call.alias => \A j \in i+1..call.cap : out[j] = InMemory(call.text, j)

DecryptInv ==
    pc \in {"decrypt", "unpad"} =>
        /\ call.op = "decrypt" /\ i <= Len(call.text.full) /\ Len(call.text.full) <= call.cap
        /\ Len(call.text.full) > 0 /\ call.text.rest = <<>>
        /\ chain = Prev(call.iv, call.text.full, i + 1)
        /\ \A j \in 1..i : Decrypted(j)
        /\ call.alias => \A j \in i+1..call.cap : out[j] = InMemory(call.text, j)
        /\ pc = "unpad" => i = Len(call.text.full)

ResultInv ==
    Finished("decrypt") =>
        LET n == Len(call.text.full) IN
        /\ n > 0 /\ n <= call.cap /\ \A j \in 1..n : Decrypted(j)
        /\ status = IF Padded(out[n]) THEN "OK" ELSE "PADDING"
        /\ status = "OK" => outLen = BlockSize * n - out[n][BlockSize]

IInv == TypeOK /\ CiphertextIsCbc /\ EncryptInv /\ DecryptInv /\ ResultInv
=============================================================================
