--------------------------------- MODULE Gcm ---------------------------------
(***************************************************************************)
(* mako_gcm_encrypt() and mako_gcm_decrypt() of src/mode_gcm.c, one step   *)
(* per block processed, with the caller's buffers as state: a caller that  *)
(* encrypts a message once and then asks for it, or for a damaged copy of  *)
(* it, to be decrypted.                                                    *)
(*                                                                         *)
(* The key is fixed, so mako_encrypt_block() under it is a function E on   *)
(* blocks.  The code's constants are BlockSize = 16, NonceSize = 12 and    *)
(* Radix = 256; four counter bytes follow the nonce in every instance.     *)
(***************************************************************************)
EXTENDS Naturals, Sequences

CONSTANTS
    NonceSize,      \* bytes in a nonce
    Radix,          \* a byte is 0..Radix-1
    Weight,         \* Weight[k] = Radix^k, the weight of a byte k places from the last
    BitsPerByte,    \* Radix = 2^BitsPerByte
    Xor(_, _),      \* exclusive or of two bytes
    E,              \* the block cipher under the key in use
    GfMul(_, _),    \* gf128_mul()
    Plaintexts, Nonces, Aads    \* what the caller passes

BlockSize == NonceSize + 4
Byte == 0..Radix-1
Block == [1..BlockSize -> Byte]
Zero == [k \in 1..BlockSize |-> 0]
CounterBytes == NonceSize+1..BlockSize

ASSUME SizeAssumption ==
    /\ NonceSize \in Nat /\ NonceSize % 2 = 0 /\ BitsPerByte \in Nat
    /\ Radix \in Nat /\ Radix >= 2
    /\ Weight \in [0..BlockSize -> Nat \ {0}]
    /\ Weight[0] = 1 /\ \A k \in 0..BlockSize-1 : Weight[k+1] = Radix * Weight[k]

ASSUME CipherAssumption ==
    /\ E \in [Block -> Block]
    /\ \A a, b \in Byte :
          /\ Xor(a, b) \in Byte /\ Xor(a, b) = Xor(b, a)
          /\ Xor(a, a) = 0 /\ Xor(Xor(a, b), b) = a
    /\ \A a, b \in Block : GfMul(a, b) \in Block

ASSUME InputAssumption ==
    /\ Plaintexts \subseteq Seq(Byte) /\ Aads \subseteq Seq(Byte)
    /\ Nonces \subseteq [1..NonceSize -> Byte]

(***************************************************************************)
(* The pointers a caller may pass as NULL, and what an output buffer       *)
(* holds before the call has written to it.                                *)
(***************************************************************************)
Pointers == {"ks", "nonce", "out", "tag", "data", "aad"}
Untouched == Radix

Status == {"none", "OK", "INVALID_ARG", "BUFFER_TOO_SMALL", "AUTH_FAILED"}

VARIABLES
    pc,         \* "idle" between calls, else what the call does next
    call,       \* the arguments of the current or last call
    in, out,    \* the data buffer read and the buffer written
    counter,    \* the counter block
    off,        \* bytes of the current input consumed
    y,          \* the GHASH accumulator
    status,     \* what the last call returned
    sealed,     \* history: the message encrypted, or NoMessage
    used        \* history: the counter blocks the call has encrypted

vars == <<pc, call, in, out, counter, off, y, status, sealed, used>>

NoMessage == [ct |-> <<>>, aad |-> <<>>, nonce |-> <<>>, tag |-> Zero, pt |-> <<>>]

-----------------------------------------------------------------------------
(***************************************************************************)
(* Blocks.  inc32() increments a byte exactly when every byte after it     *)
(* wrapped to 0, that is, was Radix - 1.                                   *)
(***************************************************************************)
Inc32Narrow(c) ==           \* Slip: the carry stops one byte early
    [k \in 1..BlockSize |->
        IF k \in CounterBytes /\ k # NonceSize + 1 /\ \A j \in k+1..BlockSize : c[j] = Radix - 1
        THEN (c[k] + 1) % Radix
        ELSE c[k]]

Inc32LittleEndian(c) ==     \* Slip: the counter is counted from its other end
    [k \in 1..BlockSize |->
        IF k \in CounterBytes /\ \A j \in NonceSize+1..k-1 : c[j] = Radix - 1
        THEN (c[k] + 1) % Radix
        ELSE c[k]]

Inc32(c) ==
    [k \in 1..BlockSize |->
        IF k \in CounterBytes /\ \A j \in k+1..BlockSize : c[j] = Radix - 1
        THEN (c[k] + 1) % Radix
        ELSE c[k]]

J0(nonce) ==
    [k \in 1..BlockSize |-> IF k <= NonceSize THEN nonce[k]
                            ELSE IF k = BlockSize THEN 1 ELSE 0]

XorBlock(a, b) == [k \in 1..BlockSize |-> Xor(a[k], b[k])]

(***************************************************************************)
(* With XorBlock for its addition, gf128_mul() multiplies in a field.      *)
(***************************************************************************)
ASSUME FieldAssumption ==
    \A a, b \in Block :
        /\ GfMul(a, b) = Zero => a = Zero \/ b = Zero
        /\ \A c \in Block :
              /\ GfMul(XorBlock(a, b), c) = XorBlock(GfMul(a, c), GfMul(b, c))
              /\ GfMul(a, GfMul(b, c)) = GfMul(GfMul(a, b), c)

H == E[Zero]

ChunkLen(o, len) == IF len - o > BlockSize THEN BlockSize ELSE len - o

(***************************************************************************)
(* The block of data that starts at offset o, zero-padded.                 *)
(***************************************************************************)
PadBlock(data, o, len) ==
    [k \in 1..BlockSize |-> IF o + k <= len THEN data[o + k] ELSE 0]

(***************************************************************************)
(* The two bit lengths, big-endian, half a block each and as wide as that. *)
(***************************************************************************)
LenBlock(aadLen, ctLen) ==
    LET half == BlockSize \div 2
        BigEndian(n, k) == (n \div Weight[half - k]) % Radix
    IN  [k \in 1..BlockSize |->
            IF k <= half THEN BigEndian(aadLen * BitsPerByte, k)
                         ELSE BigEndian(ctLen * BitsPerByte, k - half)]

(***************************************************************************)
(* constant_time_equal(): no byte differs.                                 *)
(***************************************************************************)
TagEqualShort(a, b) ==      \* Slip: the last byte is not compared
    \A k \in 1..BlockSize-1 : Xor(a[k], b[k]) = 0

TagEqual(a, b) == \A k \in 1..BlockSize : Xor(a[k], b[k]) = 0

-----------------------------------------------------------------------------
(***************************************************************************)
(* Entering and leaving a call.                                            *)
(***************************************************************************)
ArgumentErrorNoCapacity(c) ==       \* Slip: the output capacity is not checked
    IF c.null # {} THEN "INVALID_ARG" ELSE "none"

ArgumentError(c) ==
    IF \/ c.null \cap {"ks", "nonce", "out", "tag"} # {}
       \/ "data" \in c.null /\ c.len > 0
       \/ "aad" \in c.null /\ Len(c.aad) > 0
    THEN "INVALID_ARG"
    ELSE IF c.cap < c.len THEN "BUFFER_TOO_SMALL" ELSE "none"

Init ==
    /\ pc = "idle" /\ status = "none" /\ sealed = NoMessage
    /\ call = [op |-> "none", nonce |-> <<>>, aad |-> <<>>, data |-> <<>>, len |-> 0,
               tag |-> Zero, cap |-> 0, alias |-> FALSE, null |-> {}]
    /\ in = <<>> /\ out = <<>> /\ used = <<>>
    /\ counter = Zero /\ off = 0 /\ y = Zero

(***************************************************************************)
(* A call begins: the buffers are the caller's, the arguments are checked, *)
(* and either the call is over or processing starts at `start`.  With      *)
(* alias the data buffer and the output buffer are the same memory.        *)
(***************************************************************************)
Enter(op, m, data, buf, start) ==
    LET c == [op |-> op, nonce |-> m.nonce, aad |-> m.aad, data |-> data, len |-> Len(data),
              tag |-> m.tag, cap |-> buf.cap, alias |-> buf.alias, null |-> buf.null]
        inPlace == buf.alias /\ buf.cap >= Len(data)
    IN  /\ pc = "idle"
        /\ call' = c
        /\ out' = [k \in 1..buf.cap |-> IF inPlace /\ k <= Len(data) THEN data[k] ELSE Untouched]
        /\ in' = IF inPlace THEN out' ELSE data
        /\ status' = ArgumentError(c)
        /\ pc' = IF ArgumentError(c) = "none" THEN start ELSE "idle"
        /\ off' = 0 /\ y' = Zero /\ used' = <<>>
        /\ UNCHANGED sealed

CallEncrypt(pt, nonce, aad, buf) ==
    /\ sealed = NoMessage
    /\ Enter("encrypt", [NoMessage EXCEPT !.nonce = nonce, !.aad = aad], pt, buf, "ctr")
    /\ counter' = Inc32(J0(nonce))

CallDecrypt(m, buf) ==
    /\ sealed # NoMessage /\ call.op = "encrypt"
    /\ Enter("decrypt", m, m.ct, buf, "aad")
    /\ UNCHANGED counter

Return(s) == pc' = "idle" /\ status' = s

(***************************************************************************)
(* gcm_ctr_xor(): one block of keystream.                                  *)
(***************************************************************************)
CtrBlock ==
    /\ pc = "ctr" /\ off < call.len
    /\ LET n == ChunkLen(off, call.len)
           keystream == E[counter]
       IN  /\ out' = [k \in DOMAIN out |->
                        IF k \in off+1..off+n THEN Xor(in[k], keystream[k - off]) ELSE out[k]]
           /\ off' = off + n
    /\ in' = IF call.alias THEN out' ELSE in
    /\ counter' = Inc32(counter)
    /\ used' = Append(used, counter)
    /\ UNCHANGED <<pc, call, y, status, sealed>>

CtrDoneKeepsOffset ==       \* Slip: the offset is not reset for the hash
    /\ pc = "ctr" /\ off >= call.len
    /\ IF call.op = "encrypt" THEN pc' = "aad" /\ UNCHANGED status ELSE Return("OK")
    /\ UNCHANGED <<call, in, out, counter, off, y, sealed, used>>

CtrDone ==
    /\ pc = "ctr" /\ off >= call.len
    /\ off' = 0
    /\ IF call.op = "encrypt" THEN pc' = "aad" /\ UNCHANGED status ELSE Return("OK")
    /\ UNCHANGED <<call, in, out, counter, y, sealed, used>>

(***************************************************************************)
(* gcm_compute_tag() is three ghash_update() calls.  Encryption hashes the *)
(* ciphertext it has just written, decryption the one it was given.        *)
(***************************************************************************)
Ghash(data, len, next) ==
    /\ IF off < len
       THEN /\ y' = GfMul(XorBlock(y, PadBlock(data, off, len)), H)
            /\ off' = off + ChunkLen(off, len)
            /\ UNCHANGED pc
       ELSE pc' = next /\ off' = 0 /\ UNCHANGED y
    /\ UNCHANGED <<call, in, out, counter, status, sealed, used>>

GhashAad == pc = "aad" /\ Ghash(call.aad, Len(call.aad), "text")
GhashText == pc = "text" /\ Ghash(IF call.op = "encrypt" THEN out ELSE in, call.len, "len")
GhashLen == pc = "len" /\ Ghash(LenBlock(Len(call.aad), call.len), BlockSize, "tag")

ComputedTag == XorBlock(y, E[J0(call.nonce)])

Seal ==
    /\ pc = "tag" /\ call.op = "encrypt"
    /\ Return("OK")
    /\ sealed' = [ct |-> SubSeq(out, 1, call.len), aad |-> call.aad, nonce |-> call.nonce,
                  tag |-> ComputedTag, pt |-> call.data]
    /\ UNCHANGED <<call, in, out, counter, off, y, used>>

WipedText == [k \in DOMAIN out |-> IF k <= call.len THEN 0 ELSE out[k]]  \* Slip: not the spare bytes
Wiped == [k \in DOMAIN out |-> 0]

Verify ==
    /\ pc = "tag" /\ call.op = "decrypt"
    /\ IF TagEqual(ComputedTag, call.tag)
       THEN /\ pc' = "ctr"
            /\ counter' = Inc32(J0(call.nonce))
            /\ UNCHANGED <<out, in, status>>
       ELSE /\ out' = Wiped
            /\ in' = IF call.alias THEN out' ELSE in
            /\ Return("AUTH_FAILED")
            /\ UNCHANGED counter
    /\ UNCHANGED <<call, off, y, sealed, used>>

-----------------------------------------------------------------------------
(***************************************************************************)
(* The environment.  The caller's buffer may be exact, spare or too small, *)
(* may be the data buffer itself, or one pointer may be NULL.  What is     *)
(* decrypted is the sealed message, or a copy with one byte of one field   *)
(* changed, or with the last byte of the ciphertext or of the AAD gone.    *)
(***************************************************************************)
Buffers(len) ==
         [cap : {len, len + 1} \cup (IF len > 0 THEN {len - 1} ELSE {}), alias : BOOLEAN, null : {{}}]
    \cup [cap : {len}, alias : {FALSE}, null : {{p} : p \in Pointers}]

Change(s) == {[s EXCEPT ![k] = (s[k] + 1) % Radix] : k \in DOMAIN s}
Front(s) == SubSeq(s, 1, Len(s) - 1)

Copies(m) ==
         {m}
    \cup {[m EXCEPT !.ct = d] : d \in Change(m.ct) \cup {Front(m.ct)}}
    \cup {[m EXCEPT !.aad = d] : d \in Change(m.aad) \cup {Front(m.aad)}}
    \cup {[m EXCEPT !.nonce = d] : d \in Change(m.nonce)}
    \cup {[m EXCEPT !.tag = d] : d \in Change(m.tag)}

Next ==
    \/ \E pt \in Plaintexts, nonce \in Nonces, aad \in Aads :
            \E buf \in Buffers(Len(pt)) : CallEncrypt(pt, nonce, aad, buf)
    \/ \E m \in Copies(sealed) : \E buf \in Buffers(Len(m.ct)) : CallDecrypt(m, buf)
    \/ CtrBlock \/ CtrDone
    \/ GhashAad \/ GhashText \/ GhashLen
    \/ Seal \/ Verify

Spec == Init /\ [][Next]_vars

-----------------------------------------------------------------------------
(***************************************************************************)
(* Types.                                                                  *)
(***************************************************************************)
Nonce == [1..NonceSize -> Byte]
Message == [ct : Seq(Byte), aad : Seq(Byte), nonce : Nonce, tag : Block, pt : Seq(Byte)]
Buffer == Seq(Byte \cup {Untouched})

TypeOK ==
    /\ pc \in {"idle", "ctr", "aad", "text", "len", "tag"}
    /\ status \in Status
    /\ counter \in Block /\ y \in Block /\ used \in Seq(Block)
    /\ call.op \in {"none", "encrypt", "decrypt"} /\ call.alias \in BOOLEAN
    /\ call.op # "none" => call.nonce \in Nonce
    /\ call.aad \in Seq(Byte) /\ call.data \in Seq(Byte) /\ call.tag \in Block
    /\ call.len = Len(call.data) /\ call.cap \in Nat
    /\ off \in Nat
    /\ in \in Buffer /\ out \in Buffer /\ Len(out) = call.cap
    /\ sealed \in Message \cup {NoMessage}

(***************************************************************************)
(* The tag as SP 800-38D defines GHASH: the sum of X[i] * H^(m+1-i) over   *)
(* the m blocks of AAD, ciphertext and lengths.                            *)
(***************************************************************************)
GhashBlocks(aad, ct) ==
    LET na == (Len(aad) + BlockSize - 1) \div BlockSize
        nc == (Len(ct) + BlockSize - 1) \div BlockSize
    IN  [k \in 1..na + nc + 1 |->
            IF k <= na THEN PadBlock(aad, (k - 1) * BlockSize, Len(aad))
            ELSE IF k <= na + nc THEN PadBlock(ct, (k - na - 1) * BlockSize, Len(ct))
            ELSE LenBlock(Len(aad), Len(ct))]

HPower[n \in Nat] == IF n = 0 THEN H ELSE GfMul(HPower[n - 1], H)     \* H^(n+1)

PartialSums(X, m) ==        \* [k] is the sum of the first k of the m terms
    LET sum[k \in 0..m] ==
            IF k = 0 THEN Zero ELSE XorBlock(sum[k - 1], GfMul(X[k], HPower[m - k]))
    IN  sum

Polynomial(X) == PartialSums(X, Len(X))[Len(X)]

TagOf(m) == XorBlock(Polynomial(GhashBlocks(m.aad, m.ct)), E[J0(m.nonce)])

Received == [ct |-> call.data, aad |-> call.aad, nonce |-> call.nonce, tag |-> call.tag, pt |-> sealed.pt]

Decrypted == call.op = "decrypt" /\ pc = "idle" /\ status \in {"OK", "AUTH_FAILED"}

(***************************************************************************)
(* GCTR as the standard defines it: the n-th block of text is added to the *)
(* cipher of the n-th block after J0, whose last four bytes spell n + 1    *)
(* modulo 2^32.                                                            *)
(***************************************************************************)
CounterBlock(nonce, n) ==
    [k \in 1..BlockSize |-> IF k <= NonceSize THEN nonce[k]
                            ELSE ((n + 1) \div Weight[BlockSize - k]) % Radix]

Gctr(nonce, text) ==
    [k \in 1..Len(text) |->
        Xor(text[k], E[CounterBlock(nonce, (k - 1) \div BlockSize + 1)][((k - 1) % BlockSize) + 1])]

(***************************************************************************)
(* Authenticated encryption and decryption as the standard defines them,   *)
(* and the module as an implementation of them: however the buffers are    *)
(* laid out, what mako_gcm_encrypt() seals is the standard's ciphertext    *)
(* and tag, and mako_gcm_decrypt() answers with the standard's text, or    *)
(* refuses when the standard does and only then.                           *)
(***************************************************************************)
Sealing(nonce, aad, text) ==
    LET m == [ct |-> Gctr(nonce, text), aad |-> aad, nonce |-> nonce, tag |-> Zero, pt |-> text]
    IN  [m EXCEPT !.tag = TagOf(m)]

Refused == <<Untouched>>        \* no text
Opening(m) == IF m.tag = TagOf(m) THEN Gctr(m.nonce, m.ct) ELSE Refused

NoAnswer == [message |-> NoMessage, text |-> Refused]
Answer ==
    IF Decrypted
    THEN [message |-> Received,
          text |-> IF status = "OK" THEN SubSeq(out, 1, call.len) ELSE Refused]
    ELSE NoAnswer

Std == INSTANCE Aead WITH Texts <- Plaintexts, Fates <- Copies, answer <- Answer

ImplementsAead == Std!Spec

(***************************************************************************)
(* What was encrypted comes back: decrypting the sealed message with the   *)
(* same nonce and AAD succeeds and yields the plaintext, in a buffer of    *)
(* its own or in place, and writes no byte past it (mode_gcm.c:129-221).   *)
(***************************************************************************)
RoundTrip ==
    Decrypted /\ Received = sealed =>
        /\ status = "OK"
        /\ SubSeq(out, 1, call.len) = sealed.pt
        /\ \A k \in call.len+1..call.cap : out[k] = Untouched

(***************************************************************************)
(* The tag of a sealed message is the polynomial in H that the standard    *)
(* defines, although it is computed block by block over a buffer that may  *)
(* have held the plaintext a moment before.                                *)
(***************************************************************************)
TagIsGhash == sealed # NoMessage => sealed.tag = TagOf(sealed)

(***************************************************************************)
(* A change confined to one block -- a byte of the ciphertext, of the AAD  *)
(* or of the tag -- is always detected when H is not zero, as the only     *)
(* term of the polynomial that changes is a nonzero multiple of a power of *)
(* H.  (Two blocks changed together can cancel out, with probability about *)
(* (length) / 2^128 over H.)                                               *)
(***************************************************************************)
OneBlockDiffers(m, n) ==
    /\ m.nonce = n.nonce /\ Len(m.aad) = Len(n.aad) /\ Len(m.ct) = Len(n.ct)
    /\ LET X == GhashBlocks(m.aad, m.ct)
           Y == GhashBlocks(n.aad, n.ct)
           changed == {k \in DOMAIN X : X[k] # Y[k]}
       IN  \/ m.tag = n.tag /\ \E k \in changed : changed = {k}
           \/ m.tag # n.tag /\ changed = {}

OneBlockChangeDetected ==
    Decrypted /\ H # Zero /\ OneBlockDiffers(Received, sealed) => status = "AUTH_FAILED"

(***************************************************************************)
(* Decryption releases nothing unverified: until the call's tag has been   *)
(* found right the output buffer is never written, except with zeros when  *)
(* it was found wrong (mode_gcm.c:199-212).                                *)
(***************************************************************************)
ReleaseOnlyVerified ==
    [][ call.op = "decrypt" /\ pc # "idle" /\ out' # out
            => call.tag = TagOf(Received) \/ out' = [k \in DOMAIN out |-> 0] ]_vars

(***************************************************************************)
(* A call that is refused for its arguments leaves the output as it was,   *)
(* and one whose tag is wrong leaves all of it zero, spare bytes included. *)
(***************************************************************************)
Pristine == \A k \in DOMAIN out : out[k] = Untouched \/ (call.alias /\ out[k] = call.data[k])

FailureLeavesNoPlaintext ==
    call.op = "decrypt" /\ pc = "idle" /\ status # "OK" =>
        IF status = "AUTH_FAILED" THEN \A k \in DOMAIN out : out[k] = 0 ELSE Pristine

(***************************************************************************)
(* No keystream block is used twice in a message, and none is the block    *)
(* that masks the tag, as long as the message has fewer blocks than the    *)
(* counter has values (mode_gcm.c:9-15, 148-164; the code does not limit   *)
(* the length, so beyond that it wraps onto J0).                           *)
(***************************************************************************)
CounterValues == Weight[4]

KeystreamFresh ==
    Len(used) < CounterValues =>
        \A j \in DOMAIN used :
            used[j] # J0(call.nonce) /\ \A k \in DOMAIN used : j # k => used[j] # used[k]

-----------------------------------------------------------------------------
(***************************************************************************)
(* The inductive invariant behind TypeOK, KeystreamFresh and               *)
(* FailureLeavesNoPlaintext: where the buffers stand in each phase, and    *)
(* which number the counter bytes spell.                                   *)
(***************************************************************************)
Value(c) ==
    c[NonceSize+1] * Weight[3] + c[NonceSize+2] * Weight[2] + c[NonceSize+3] * Weight[1] + c[NonceSize+4]

Nth(n) == IF n + 1 = CounterValues THEN 0 ELSE n + 1

Hashing == {"aad", "text", "len", "tag"}

BufferInv ==
    pc # "idle" =>
        /\ call.op # "none" /\ call.len <= call.cap /\ call.len <= Len(in)
        /\ call.alias => in = out
        /\ \A k \in 1..call.len : in[k] \in Byte
        /\ pc = "ctr" => off <= call.len
        /\ pc = "tag" => off = 0
        /\ call.op = "encrypt" =>
                \A k \in 1..call.len : (pc = "ctr" => k <= off) => out[k] \in Byte

CounterInv ==
    /\ pc = "ctr" /\ Len(used) + 1 < CounterValues => Value(counter) = Nth(Len(used) + 1)
    /\ pc \in Hashing /\ call.op = "decrypt" => used = <<>>
    /\ Len(used) < CounterValues => \A k \in DOMAIN used : Value(used[k]) = Nth(k)
    /\ used # <<>> => call.op # "none"

FailureInv ==
    /\ FailureLeavesNoPlaintext
    /\ pc \in Hashing /\ call.op = "decrypt" => Pristine

IInv == TypeOK /\ BufferInv /\ CounterInv /\ FailureInv
=============================================================================
