------------------------------ MODULE GcmProofs ------------------------------
(***************************************************************************)
(* Theorems about Gcm, for every nonce size, byte radix, block cipher and  *)
(* message: the counter arithmetic, type correctness, the freshness of the *)
(* keystream, the round trip, and the tag: it is the standard's            *)
(* polynomial, nothing comes out without it, and one changed block is      *)
(* detected by it.  Last, that the code implements the standard's          *)
(* authenticated encryption.                                               *)
(***************************************************************************)
EXTENDS Gcm, WellFoundedInduction, TLAPS

LEMMA WeightFacts ==
    /\ Weight[1] = Radix /\ Weight[2] = Radix * Radix /\ Weight[3] = Radix * (Radix * Radix)
    /\ CounterValues = Radix * (Radix * (Radix * Radix))
    /\ CounterValues \in Nat /\ CounterValues >= 16
<1>1. /\ Weight[1] = Radix * Weight[0] /\ Weight[2] = Radix * Weight[1]
      /\ Weight[3] = Radix * Weight[2] /\ Weight[4] = Radix * Weight[3]
  <2>1. {0, 1, 2, 3} \subseteq 0..BlockSize-1
    BY SizeAssumption DEF BlockSize
  <2> QED BY <2>1, SizeAssumption
<1>2. Radix \in Nat /\ Radix >= 2 /\ Weight[0] = 1
  BY SizeAssumption
<1>3. Radix * Radix \in Nat /\ Radix * Radix >= 4
  BY <1>2
<1>4. Radix * (Radix * Radix) \in Nat /\ Radix * (Radix * Radix) >= 8
  BY <1>2, <1>3
<1>5. Radix * (Radix * (Radix * Radix)) \in Nat /\ Radix * (Radix * (Radix * Radix)) >= 16
  BY <1>2, <1>4
<1> QED BY <1>1, <1>2, <1>3, <1>4, <1>5 DEF CounterValues

LEMMA ByteWraps ==
    ASSUME NEW b \in Byte
    PROVE  (b + 1) % Radix = IF b = Radix - 1 THEN 0 ELSE b + 1
<1>1. b \in Nat /\ b < Radix /\ Radix \in Nat /\ Radix >= 2
  BY SizeAssumption DEF Byte
<1>2. CASE b = Radix - 1
  BY <1>1, <1>2
<1>3. CASE b # Radix - 1
  <2>1. b + 1 \in 0..Radix-1
    BY <1>1, <1>3
  <2> QED BY <1>1, <1>3, <2>1
<1> QED BY <1>2, <1>3

LEMMA Inc32Type == ASSUME NEW c \in Block PROVE Inc32(c) \in Block
<1>1. ASSUME NEW k \in 1..BlockSize PROVE (c[k] + 1) % Radix \in Byte
  <2>1. c[k] \in Byte
    BY DEF Block
  <2> QED BY <2>1, ByteWraps, SizeAssumption DEF Byte
<1> QED BY <1>1 DEF Inc32, Block

LEMMA Monotone ==
    ASSUME NEW m \in Nat, NEW n \in Nat, NEW w \in Nat, m <= n
    PROVE  0 <= m * w /\ m * w <= n * w
OBVIOUS

(***************************************************************************)
(* inc32() adds one to the counter modulo Radix^4 and leaves the nonce     *)
(* alone: the byte-by-byte ripple is the addition.                         *)
(***************************************************************************)
THEOREM Inc32Value ==
    ASSUME NEW c \in Block
    PROVE  /\ Value(c) \in 0..CounterValues-1
           /\ Value(Inc32(c)) = IF Value(c) + 1 = CounterValues THEN 0 ELSE Value(c) + 1
           /\ \A k \in 1..NonceSize : Inc32(c)[k] = c[k]
<1> DEFINE N == NonceSize
           r == Radix
           p == c[N+1]
           q == c[N+2]
           s == c[N+3]
           t == c[N+4]
           top == r - 1
<1>1. r \in Nat /\ r >= 2 /\ N \in Nat
  BY SizeAssumption
<1>2. p \in 0..top /\ q \in 0..top /\ s \in 0..top /\ t \in 0..top
  BY <1>1 DEF Block, Byte, BlockSize
<1>3. /\ Inc32(c)[N+4] = IF t = top THEN 0 ELSE t + 1
      /\ Inc32(c)[N+3] = IF t = top THEN (IF s = top THEN 0 ELSE s + 1) ELSE s
      /\ Inc32(c)[N+2] = IF t = top /\ s = top THEN (IF q = top THEN 0 ELSE q + 1) ELSE q
      /\ Inc32(c)[N+1] = IF t = top /\ s = top /\ q = top THEN (IF p = top THEN 0 ELSE p + 1) ELSE p
  <2>1. p \in Byte /\ q \in Byte /\ s \in Byte /\ t \in Byte
    BY <1>2 DEF Byte
  <2>2. /\ Inc32(c)[N+4] = (t + 1) % r
        /\ Inc32(c)[N+3] = IF t = top THEN (s + 1) % r ELSE s
        /\ Inc32(c)[N+2] = IF t = top /\ s = top THEN (q + 1) % r ELSE q
        /\ Inc32(c)[N+1] = IF t = top /\ s = top /\ q = top THEN (p + 1) % r ELSE p
    BY <1>1 DEF Inc32, CounterBytes, BlockSize
  <2> QED BY <2>1, <2>2, ByteWraps
<1>4. \A k \in 1..N : Inc32(c)[k] = c[k]
  BY <1>1 DEF Inc32, CounterBytes, BlockSize
<1> HIDE DEF N, r, p, q, s, t, top
<1>5. /\ Value(c) = p * (r * (r * r)) + q * (r * r) + s * r + t
      /\ CounterValues = r * (r * (r * r))
  BY WeightFacts DEF Value, N, r, p, q, s, t
<1>6. Value(Inc32(c)) = Inc32(c)[N+1] * (r * (r * r)) + Inc32(c)[N+2] * (r * r)
                            + Inc32(c)[N+3] * r + Inc32(c)[N+4]
  BY WeightFacts DEF Value, N, r
<1>7. r * r \in Nat /\ r * (r * r) \in Nat
  BY <1>1
<1>8. top \in Nat /\ top + 1 = r
  BY <1>1 DEF top
<1>9. /\ 0 <= p * (r * (r * r)) /\ p * (r * (r * r)) <= top * (r * (r * r))
      /\ 0 <= q * (r * r) /\ q * (r * r) <= top * (r * r)
      /\ 0 <= s * r /\ s * r <= top * r
  BY <1>1, <1>2, <1>7, <1>8, Monotone
<1>10. CounterValues = top * (r * (r * r)) + top * (r * r) + top * r + top + 1
  BY <1>1, <1>5, <1>8
<1>11. Value(c) \in Nat /\ Value(c) + 1 <= CounterValues /\ CounterValues \in Nat
  BY <1>1, <1>2, <1>5, <1>7, <1>8, <1>9, <1>10, WeightFacts
<1>12. CASE t # top
  BY <1>1, <1>2, <1>3, <1>4, <1>5, <1>6, <1>7, <1>8, <1>9, <1>10, <1>11, <1>12 DEF N
<1>13. CASE t = top /\ s # top
  BY <1>1, <1>2, <1>3, <1>4, <1>5, <1>6, <1>7, <1>8, <1>9, <1>10, <1>11, <1>13 DEF N
<1>14. CASE t = top /\ s = top /\ q # top
  BY <1>1, <1>2, <1>3, <1>4, <1>5, <1>6, <1>7, <1>8, <1>9, <1>10, <1>11, <1>14 DEF N
<1>15. CASE t = top /\ s = top /\ q = top /\ p # top
  BY <1>1, <1>2, <1>3, <1>4, <1>5, <1>6, <1>7, <1>8, <1>9, <1>10, <1>11, <1>15 DEF N
<1>16. CASE t = top /\ s = top /\ q = top /\ p = top
  BY <1>1, <1>2, <1>3, <1>4, <1>5, <1>6, <1>7, <1>8, <1>9, <1>10, <1>11, <1>16 DEF N
<1> QED BY <1>12, <1>13, <1>14, <1>15, <1>16

LEMMA ByteFacts == 0 \in Byte /\ 1 \in Byte /\ BlockSize \in Nat /\ Zero \in Block
BY SizeAssumption DEF Byte, BlockSize, Zero, Block

LEMMA BlockFacts ==
    /\ \A a, b \in Block : XorBlock(a, b) \in Block
    /\ \A n \in Nonce : J0(n) \in Block
    /\ \A a, b \in Nat : LenBlock(a, b) \in Block
    /\ H \in Block
<1>1. \A a, b \in Block : XorBlock(a, b) \in Block
  BY CipherAssumption DEF XorBlock, Block
<1>2. \A n \in Nonce : J0(n) \in Block
  BY ByteFacts, SizeAssumption DEF J0, Nonce, Block, BlockSize
<1>3. ASSUME NEW a \in Nat, NEW b \in Nat PROVE LenBlock(a, b) \in Block
  <2> DEFINE half == BlockSize \div 2
  <2>1. half \in Nat /\ half + half = BlockSize
    <3>1. NonceSize \in Nat /\ NonceSize % 2 = 0 /\ BlockSize = NonceSize + 4
      BY SizeAssumption DEF BlockSize
    <3>2. NonceSize = 2 * (NonceSize \div 2)
      BY <3>1
    <3> QED BY <3>1, <3>2
  <2>2. a * BitsPerByte \in Nat /\ b * BitsPerByte \in Nat
    BY SizeAssumption
  <2>3. ASSUME NEW n \in Nat, NEW j \in 0..BlockSize
        PROVE  (n \div Weight[j]) % Radix \in Byte
    <3>1. Weight[j] \in Nat /\ Weight[j] > 0
      BY SizeAssumption
    <3>2. n \div Weight[j] \in Nat
      BY <3>1
    <3> QED BY <3>2, SizeAssumption DEF Byte
  <2>4. ASSUME NEW k \in 1..BlockSize
        PROVE  LenBlock(a, b)[k] \in Byte
    <3>1. LenBlock(a, b)[k] = IF k <= half THEN ((a * BitsPerByte) \div Weight[half - k]) % Radix
                              ELSE ((b * BitsPerByte) \div Weight[half - (k - half)]) % Radix
      BY DEF LenBlock
    <3>2. CASE k <= half
      <4>1. half - k \in 0..BlockSize
        BY <2>1, <3>2
      <4> QED BY <2>2, <2>3, <3>1, <3>2, <4>1
    <3>3. CASE k > half
      <4>1. half - (k - half) \in 0..BlockSize /\ ~(k <= half)
        BY <2>1, <3>3
      <4> QED BY <2>2, <2>3, <3>1, <4>1
    <3> QED BY <2>1, <3>2, <3>3
  <2> QED BY <2>4 DEF LenBlock, Block
<1>4. H \in Block
  BY ByteFacts, CipherAssumption DEF H
<1> QED BY <1>1, <1>2, <1>3, <1>4

LEMMA J0Value ==
    ASSUME NEW n \in Nonce
    PROVE  Value(J0(n)) = 1
BY WeightFacts, SizeAssumption DEF Value, J0, BlockSize

LEMMA FirstCounter ==
    ASSUME NEW n \in Nonce
    PROVE  Inc32(J0(n)) \in Block /\ Value(Inc32(J0(n))) = 2 /\ Nth(1) = 2
<1>1. J0(n) \in Block
  BY BlockFacts
<1>2. Value(Inc32(J0(n))) = IF Value(J0(n)) + 1 = CounterValues THEN 0 ELSE Value(J0(n)) + 1
  BY <1>1, Inc32Value
<1>3. CounterValues # 2
  BY WeightFacts
<1> QED BY <1>1, <1>2, <1>3, J0Value, Inc32Type DEF Nth

LEMMA PadType ==
    ASSUME NEW data, NEW o \in Nat, NEW len \in Nat, \A k \in 1..len : data[k] \in Byte
    PROVE  PadBlock(data, o, len) \in Block
<1>1. \A k \in 1..BlockSize : o + k <= len => o + k \in 1..len
  BY ByteFacts
<1> QED BY <1>1, ByteFacts DEF PadBlock, Block

(***************************************************************************)
(* What the caller passes has the types the code relies on.                *)
(***************************************************************************)
LEMMA ChangeType ==
    /\ \A s \in Seq(Byte) : Change(s) \subseteq Seq(Byte) /\ Front(s) \in Seq(Byte)
    /\ \A s \in Block : Change(s) \subseteq Block
    /\ \A s \in Nonce : Change(s) \subseteq Nonce
<1>1. \A b \in Byte : (b + 1) % Radix \in Byte
  BY ByteWraps, SizeAssumption DEF Byte
<1>2. ASSUME NEW s \in Seq(Byte) PROVE Change(s) \subseteq Seq(Byte)
  BY <1>1 DEF Change
<1>3. ASSUME NEW s \in Seq(Byte) PROVE Front(s) \in Seq(Byte)
  BY DEF Front
<1>4. ASSUME NEW s \in Block PROVE Change(s) \subseteq Block
  BY <1>1 DEF Change, Block
<1>5. ASSUME NEW s \in Nonce PROVE Change(s) \subseteq Nonce
  BY <1>1 DEF Change, Nonce
<1> QED BY <1>2, <1>3, <1>4, <1>5

LEMMA CopiesType == ASSUME NEW m \in Message PROVE Copies(m) \subseteq Message
BY ChangeType DEF Copies, Message

LEMMA BuffersType ==
    ASSUME NEW n \in Nat, NEW b \in Buffers(n)
    PROVE  b.alias \in BOOLEAN /\ b.cap \in Nat
<1>1. CASE b \in [cap : {n, n + 1} \cup (IF n > 0 THEN {n - 1} ELSE {}), alias : BOOLEAN, null : {{}}]
  BY <1>1
<1>2. CASE b \in [cap : {n}, alias : {FALSE}, null : {{p} : p \in Pointers}]
  BY <1>2
<1> QED BY <1>1, <1>2 DEF Buffers

(***************************************************************************)
(* Entering a call, common to encryption and decryption.                   *)
(***************************************************************************)
LEMMA EnterStep ==
    ASSUME IInv,
           NEW op \in {"encrypt", "decrypt"}, NEW m, NEW data \in Seq(Byte),
           NEW buf \in Buffers(Len(data)), NEW start,
           m.nonce \in Nonce, m.aad \in Seq(Byte), m.tag \in Block,
           Enter(op, m, data, buf, start), counter' \in Block,
           start = IF op = "encrypt" THEN "ctr" ELSE "aad"
    PROVE  TypeOK' /\ BufferInv' /\ FailureInv'
<1> DEFINE inPlace == buf.alias /\ buf.cap >= Len(data)
<1>1. /\ buf.alias \in BOOLEAN /\ buf.cap \in Nat
      /\ Len(data) \in Nat
  BY BuffersType, Len(data) \in Nat
<1>2. /\ call'.op = op /\ call'.nonce = m.nonce /\ call'.aad = m.aad /\ call'.data = data
      /\ call'.len = Len(data) /\ call'.tag = m.tag /\ call'.cap = buf.cap /\ call'.alias = buf.alias
      /\ out' = [k \in 1..buf.cap |-> IF inPlace /\ k <= Len(data) THEN data[k] ELSE Untouched]
      /\ in' = IF inPlace THEN out' ELSE data
      /\ off' = 0 /\ y' = Zero /\ used' = <<>> /\ sealed' = sealed
  BY DEF Enter
<1>3. /\ status' \in {"none", "INVALID_ARG", "BUFFER_TOO_SMALL"}
      /\ pc' = IF status' = "none" THEN start ELSE "idle"
      /\ status' = "none" => buf.cap >= Len(data)
  BY <1>1 DEF Enter, ArgumentError
<1>4. out' \in Buffer /\ Len(out') = buf.cap /\ DOMAIN out' = 1..buf.cap
  <2>1. \A k \in 1..buf.cap : k <= Len(data) => data[k] \in Byte
    BY <1>1
  <2>2. out' \in [1..buf.cap -> Byte \cup {Untouched}]
    BY <1>2, <2>1
  <2> QED BY <1>1, <2>2 DEF Buffer
<1>5. in' \in Buffer
  BY <1>2, <1>4 DEF Buffer
<1>6. TypeOK'
  BY <1>1, <1>2, <1>3, <1>4, <1>5, ByteFacts DEF IInv, TypeOK, Status
<1>7. BufferInv'
  BY <1>1, <1>2, <1>3, <1>4 DEF BufferInv
<1>8. Pristine'
  BY <1>1, <1>2, <1>4 DEF Pristine
<1>9. FailureInv'
  BY <1>2, <1>3, <1>8 DEF FailureInv, FailureLeavesNoPlaintext
<1> QED BY <1>6, <1>7, <1>9

(***************************************************************************)
(* A GHASH step, common to its three uses.                                 *)
(***************************************************************************)
LEMMA GhashStep ==
    ASSUME IInv, NEW data, NEW len \in Nat, \A k \in 1..len : data[k] \in Byte,
           NEW next \in Hashing, pc \in Hashing \ {"tag"}, Ghash(data, len, next)
    PROVE  TypeOK' /\ BufferInv' /\ FailureInv' /\ CounterInv'
<1>1. y' \in Block
  BY PadType, BlockFacts, CipherAssumption DEF Ghash, IInv, TypeOK
<1>2. off' \in Nat /\ pc' \in Hashing /\ (pc' = "tag" => off' = 0) /\ UNCHANGED <<call, in, out, counter, status, sealed, used>>
  BY ByteFacts DEF Ghash, IInv, TypeOK, ChunkLen
<1>3. TypeOK'
  BY <1>1, <1>2 DEF IInv, TypeOK, Hashing
<1>4. BufferInv'
  BY <1>2 DEF IInv, BufferInv, Hashing
<1>5. FailureInv'
  BY <1>2 DEF IInv, FailureInv, FailureLeavesNoPlaintext, Hashing, Pristine
<1>6. CounterInv'
  BY <1>2 DEF IInv, CounterInv, Hashing
<1> QED BY <1>3, <1>4, <1>5, <1>6

(***************************************************************************)
(* A keystream block: the bytes done stay bytes, and the counter that was  *)
(* used carries the next number.                                           *)
(***************************************************************************)
LEMMA CtrBlockStep ==
    ASSUME IInv, CtrBlock
    PROVE  IInv'
<1> DEFINE n == ChunkLen(off, call.len)
           m == Len(used)
<1>1. /\ pc = "ctr" /\ off < call.len /\ off' = off + n
      /\ UNCHANGED <<pc, call, y, status, sealed>>
      /\ counter' = Inc32(counter) /\ used' = Append(used, counter)
  BY DEF CtrBlock
<1>2. /\ call.len \in Nat /\ call.cap \in Nat /\ call.len <= call.cap /\ off \in Nat
      /\ in \in Buffer /\ out \in Buffer /\ Len(out) = call.cap /\ call.len <= Len(in)
      /\ call.alias => in = out
      /\ \A k \in 1..call.len : in[k] \in Byte
  BY <1>1 DEF IInv, TypeOK, BufferInv
<1>3. n \in Nat /\ n <= BlockSize /\ off + n <= call.len
  BY <1>1, <1>2, ByteFacts DEF ChunkLen
<1>4. out' = [k \in DOMAIN out |-> IF k \in off+1..off+n THEN Xor(in[k], E[counter][k - off]) ELSE out[k]]
  BY DEF CtrBlock
<1>5. \A k \in off+1..off+n : Xor(in[k], E[counter][k - off]) \in Byte
  <2>1. E[counter] \in Block
    BY CipherAssumption DEF IInv, TypeOK
  <2>2. \A k \in off+1..off+n : k \in 1..call.len /\ k - off \in 1..BlockSize
    BY <1>2, <1>3, ByteFacts
  <2> QED BY <1>2, <2>1, <2>2, CipherAssumption DEF Block
<1>6. out' \in Buffer /\ Len(out') = call.cap
  <2>1. DOMAIN out = 1..call.cap /\ \A k \in 1..call.cap : out[k] \in Byte \cup {Untouched}
    BY <1>2 DEF Buffer
  <2>2. out' \in [1..call.cap -> Byte \cup {Untouched}]
    BY <1>4, <1>5, <2>1
  <2> QED BY <1>2, <2>2 DEF Buffer
<1>7. in' = IF call.alias THEN out' ELSE in
  BY DEF CtrBlock
<1>8. TypeOK'
  BY <1>1, <1>2, <1>3, <1>6, <1>7, Inc32Type DEF IInv, TypeOK
<1>9. BufferInv'
  <2>1. \A k \in 1..call.len : k \in DOMAIN out
    BY <1>2 DEF Buffer
  <2>2. \A k \in 1..call.len : in'[k] \in Byte
    BY <1>2, <1>4, <1>5, <1>7, <2>1
  <2>3. call.op = "encrypt" => \A k \in 1..call.len : k <= off' => out'[k] \in Byte
    BY <1>1, <1>2, <1>3, <1>4, <1>5, <2>1 DEF IInv, BufferInv
  <2> QED BY <1>1, <1>2, <1>3, <1>6, <1>7, <2>2, <2>3 DEF IInv, BufferInv
<1>10. CounterInv'
  <2>1. m \in Nat /\ Len(used') = m + 1 /\ DOMAIN used = 1..m /\ DOMAIN used' = 1..m+1
        /\ used'[m+1] = counter /\ \A k \in 1..m : used'[k] = used[k]
    BY <1>1 DEF IInv, TypeOK
  <2>2. CounterValues \in Nat /\ counter \in Block
    BY WeightFacts DEF IInv, TypeOK
  <2>3. m + 2 < CounterValues => Value(counter') = Nth(m + 2)
    <3>1. m + 2 < CounterValues => Value(counter) = m + 2
      BY <1>1, <2>1, <2>2 DEF IInv, CounterInv, Nth
    <3> QED BY <1>1, <2>1, <2>2, <3>1, Inc32Value DEF Nth
  <2>4. m + 1 < CounterValues => \A k \in 1..m+1 : Value(used'[k]) = Nth(k)
    BY <1>1, <2>1, <2>2 DEF IInv, CounterInv
  <2>5. pc' = "ctr" /\ call'.op # "none"
    BY <1>1 DEF IInv, BufferInv
  <2> QED BY <1>1, <2>1, <2>2, <2>3, <2>4, <2>5 DEF CounterInv, Hashing
<1>11. FailureInv'
  BY <1>1 DEF FailureInv, FailureLeavesNoPlaintext, Hashing
<1> QED BY <1>8, <1>9, <1>10, <1>11 DEF IInv

LEMMA VerifyStep ==
    ASSUME IInv, Verify
    PROVE  IInv'
<1>1. /\ pc = "tag" /\ call.op = "decrypt" /\ UNCHANGED <<call, off, y, sealed, used>>
      /\ call.nonce \in Nonce /\ used = <<>> /\ off \in Nat /\ call.cap \in Nat
      /\ out \in Buffer /\ in \in Buffer /\ Len(out) = call.cap
  BY DEF Verify, IInv, TypeOK, CounterInv, Hashing
<1>2. CASE TagEqual(ComputedTag, call.tag)
  <2>1. pc' = "ctr" /\ counter' = Inc32(J0(call.nonce)) /\ UNCHANGED <<out, in, status>>
    BY <1>2 DEF Verify
  <2>2. counter' \in Block /\ Value(counter') = 2 /\ Nth(1) = 2 /\ Len(used') = 0
    BY <1>1, <2>1, FirstCounter
  <2>3. TypeOK'
    BY <1>1, <2>1, <2>2 DEF IInv, TypeOK
  <2>4. BufferInv'
    <3>1. off = 0
      BY <1>1 DEF IInv, BufferInv
    <3>2. call.len \in Nat
      BY DEF IInv, TypeOK
    <3> QED BY <1>1, <2>1, <3>1, <3>2 DEF IInv, BufferInv
  <2>5. CounterInv'
    BY <1>1, <2>1, <2>2 DEF IInv, CounterInv, Hashing
  <2>6. FailureInv'
    BY <1>1, <2>1 DEF FailureInv, FailureLeavesNoPlaintext, Hashing
  <2> QED BY <2>3, <2>4, <2>5, <2>6 DEF IInv
<1>3. CASE ~TagEqual(ComputedTag, call.tag)
  <2>1. /\ out' = [k \in DOMAIN out |-> 0] /\ in' = IF call.alias THEN out' ELSE in
        /\ pc' = "idle" /\ status' = "AUTH_FAILED" /\ counter' = counter
    BY <1>3 DEF Verify, Return, Wiped
  <2>2. out' \in Buffer /\ Len(out') = call.cap
    BY <1>1, <2>1, ByteFacts DEF Buffer
  <2>3. TypeOK'
    BY <1>1, <2>1, <2>2 DEF IInv, TypeOK, Status
  <2>4. BufferInv'
    BY <2>1 DEF BufferInv
  <2>5. CounterInv'
    BY <1>1, <2>1 DEF IInv, CounterInv, Hashing
  <2>6. FailureInv'
    BY <2>1 DEF FailureInv, FailureLeavesNoPlaintext, Hashing
  <2> QED BY <2>3, <2>4, <2>5, <2>6 DEF IInv
<1> QED BY <1>2, <1>3

LEMMA SealStep ==
    ASSUME IInv, Seal
    PROVE  IInv'
<1>1. /\ pc = "tag" /\ call.op = "encrypt" /\ pc' = "idle" /\ status' = "OK"
      /\ UNCHANGED <<call, in, out, counter, off, y, used>>
  BY DEF Seal, Return
<1>2. call.nonce \in Nonce /\ out \in Buffer /\ call.len \in Nat /\ call.len <= Len(out)
      /\ \A k \in 1..call.len : out[k] \in Byte
  BY <1>1 DEF IInv, TypeOK, BufferInv
<1>3. SubSeq(out, 1, call.len) \in Seq(Byte)
  BY <1>2 DEF Buffer
<1>4. ComputedTag \in Block
  BY <1>2, BlockFacts, CipherAssumption DEF ComputedTag, IInv, TypeOK
<1>5. sealed' \in Message
  BY <1>2, <1>3, <1>4 DEF Seal, Message, IInv, TypeOK
<1>6. TypeOK'
  BY <1>1, <1>5 DEF IInv, TypeOK, Status
<1>7. BufferInv' /\ CounterInv' /\ FailureInv'
  BY <1>1 DEF IInv, BufferInv, CounterInv, FailureInv, FailureLeavesNoPlaintext, Hashing
<1> QED BY <1>6, <1>7 DEF IInv

LEMMA CallStep ==
    ASSUME IInv,
           \/ \E pt \in Plaintexts, nonce \in Nonces, aad \in Aads :
                \E buf \in Buffers(Len(pt)) : CallEncrypt(pt, nonce, aad, buf)
           \/ \E m \in Copies(sealed) : \E buf \in Buffers(Len(m.ct)) : CallDecrypt(m, buf)
    PROVE  IInv'
<1>1. ASSUME NEW pt \in Plaintexts, NEW nonce \in Nonces, NEW aad \in Aads,
             NEW buf \in Buffers(Len(pt)), CallEncrypt(pt, nonce, aad, buf)
      PROVE  IInv'
  <2> DEFINE m == [NoMessage EXCEPT !.nonce = nonce, !.aad = aad]
  <2>1. pt \in Seq(Byte) /\ aad \in Seq(Byte) /\ nonce \in Nonce
    BY InputAssumption DEF Nonce
  <2>2. m.nonce = nonce /\ m.aad = aad /\ m.tag = Zero
    BY DEF NoMessage
  <2>3. counter' = Inc32(J0(nonce)) /\ counter' \in Block /\ Value(counter') = 2 /\ Nth(1) = 2
    BY <1>1, <2>1, FirstCounter DEF CallEncrypt
  <2>4. Enter("encrypt", m, pt, buf, "ctr")
    BY <1>1 DEF CallEncrypt
  <2>5. TypeOK' /\ BufferInv' /\ FailureInv'
    BY <1>1, <2>1, <2>2, <2>3, <2>4, ByteFacts, EnterStep
  <2>6. used' = <<>> /\ call'.op = "encrypt" /\ Len(used') = 0
    BY <2>4 DEF Enter
  <2>7. CounterInv'
    BY <2>3, <2>6 DEF CounterInv
  <2> QED BY <2>5, <2>7 DEF IInv
<1>2. ASSUME NEW m \in Copies(sealed), NEW buf \in Buffers(Len(m.ct)), CallDecrypt(m, buf)
      PROVE  IInv'
  <2>1. m \in Message
    BY <1>2, CopiesType DEF CallDecrypt, IInv, TypeOK
  <2>2. m.ct \in Seq(Byte) /\ m.aad \in Seq(Byte) /\ m.nonce \in Nonce /\ m.tag \in Block
    BY <2>1 DEF Message
  <2>3. Enter("decrypt", m, m.ct, buf, "aad") /\ counter' \in Block
    BY <1>2 DEF CallDecrypt, IInv, TypeOK
  <2>4. TypeOK' /\ BufferInv' /\ FailureInv'
    BY <1>2, <2>2, <2>3, EnterStep
  <2>5. used' = <<>> /\ call'.op = "decrypt" /\ pc' # "ctr" /\ Len(used') = 0
    BY <2>3 DEF Enter
  <2>6. CounterInv'
    BY <2>5 DEF CounterInv
  <2> QED BY <2>4, <2>6 DEF IInv
<1> QED BY <1>1, <1>2

-----------------------------------------------------------------------------
(***************************************************************************)
(* The three facts that make IInv an invariant.                            *)
(***************************************************************************)
LEMMA InvInit == Init => IInv
<1> SUFFICES ASSUME Init PROVE IInv
  OBVIOUS
<1>1. TypeOK
  BY ByteFacts DEF Init, TypeOK, Status, NoMessage, Buffer
<1>2. BufferInv /\ CounterInv /\ FailureInv
  BY DEF Init, BufferInv, CounterInv, FailureInv, FailureLeavesNoPlaintext, Hashing
<1> QED BY <1>1, <1>2 DEF IInv

LEMMA InvNext == IInv /\ [Next]_vars => IInv'
<1> SUFFICES ASSUME IInv, [Next]_vars PROVE IInv'
  OBVIOUS
<1>1. CASE \/ \E pt \in Plaintexts, nonce \in Nonces, aad \in Aads :
                \E buf \in Buffers(Len(pt)) : CallEncrypt(pt, nonce, aad, buf)
           \/ \E m \in Copies(sealed) : \E buf \in Buffers(Len(m.ct)) : CallDecrypt(m, buf)
  BY <1>1, CallStep
<1>2. CASE CtrBlock
  BY <1>2, CtrBlockStep
<1>3. CASE CtrDone
  <2>1. /\ pc = "ctr" /\ off' = 0 /\ off >= call.len
        /\ call.op = "encrypt" => pc' = "aad" /\ status' = status
        /\ call.op # "encrypt" => pc' = "idle" /\ status' = "OK"
        /\ UNCHANGED <<call, in, out, counter, y, sealed, used>>
    BY <1>3 DEF CtrDone, Return
  <2>2. TypeOK'
    BY <2>1 DEF IInv, TypeOK, Status
  <2>3. off \in Nat /\ call.len \in Nat /\ call.op \in {"none", "encrypt", "decrypt"}
    BY DEF IInv, TypeOK
  <2>4. BufferInv'
    BY <2>1, <2>3 DEF IInv, BufferInv
  <2>5. CounterInv' /\ FailureInv'
    BY <2>1 DEF IInv, CounterInv, FailureInv, FailureLeavesNoPlaintext, Hashing
  <2> QED BY <2>2, <2>4, <2>5 DEF IInv
<1>4. CASE GhashAad
  <2>1. Len(call.aad) \in Nat /\ \A k \in 1..Len(call.aad) : call.aad[k] \in Byte
    BY DEF IInv, TypeOK
  <2> QED BY <1>4, <2>1, GhashStep DEF GhashAad, Hashing, IInv
<1>5. CASE GhashText
  <2> DEFINE text == IF call.op = "encrypt" THEN out ELSE in
  <2>1. call.len \in Nat /\ \A k \in 1..call.len : text[k] \in Byte
    BY <1>5 DEF GhashText, IInv, TypeOK, BufferInv
  <2>2. pc \in Hashing \ {"tag"} /\ Ghash(text, call.len, "len")
    BY <1>5 DEF GhashText, Hashing
  <2> HIDE DEF text
  <2> QED BY <2>1, <2>2, GhashStep DEF Hashing, IInv
<1>6. CASE GhashLen
  <2>1. LenBlock(Len(call.aad), call.len) \in Block
    BY BlockFacts DEF IInv, TypeOK
  <2>2. BlockSize \in Nat /\ \A k \in 1..BlockSize : LenBlock(Len(call.aad), call.len)[k] \in Byte
    BY <2>1, ByteFacts DEF Block
  <2> QED BY <1>6, <2>2, GhashStep DEF GhashLen, Hashing, IInv
<1>7. CASE Seal
  BY <1>7, SealStep
<1>8. CASE Verify
  BY <1>8, VerifyStep
<1>9. CASE UNCHANGED vars
  BY <1>9 DEF vars, IInv, TypeOK, BufferInv, CounterInv, FailureInv, FailureLeavesNoPlaintext, Pristine
<1> QED BY <1>1, <1>2, <1>3, <1>4, <1>5, <1>6, <1>7, <1>8, <1>9 DEF Next

THEOREM Inductive == Spec => []IInv
BY InvInit, InvNext, PTL DEF Spec

(***************************************************************************)
(* Every reachable state has its types: no byte of a buffer is read before *)
(* it holds a byte, and every counter and accumulator stays a block.       *)
(***************************************************************************)
THEOREM TypeCorrect == Spec => []TypeOK
<1>1. IInv => TypeOK
  BY DEF IInv
<1> QED BY <1>1, Inductive, PTL

(***************************************************************************)
(* A failed decryption leaves no plaintext in the caller's buffer.         *)
(***************************************************************************)
THEOREM NoPlaintextOnFailure == Spec => []FailureLeavesNoPlaintext
<1>1. IInv => FailureLeavesNoPlaintext
  BY DEF IInv, FailureInv
<1> QED BY <1>1, Inductive, PTL

(***************************************************************************)
(* In a message of fewer than Radix^4 blocks every keystream block comes   *)
(* from a counter block of its own, and none from J0.                      *)
(***************************************************************************)
THEOREM FreshKeystream == Spec => []KeystreamFresh
<1>1. IInv => KeystreamFresh
  <2> SUFFICES ASSUME IInv, Len(used) < CounterValues,
                      NEW j \in DOMAIN used
               PROVE  /\ used[j] # J0(call.nonce)
                      /\ \A k \in DOMAIN used : j # k => used[j] # used[k]
    BY DEF KeystreamFresh
  <2>1. /\ used \in Seq(Block) /\ DOMAIN used = 1..Len(used) /\ Len(used) \in Nat
        /\ \A k \in DOMAIN used : Value(used[k]) = Nth(k)
    BY DEF IInv, TypeOK, CounterInv
  <2>2. call.nonce \in Nonce
    BY DEF IInv, TypeOK, CounterInv
  <2>3. Value(J0(call.nonce)) = 1
    BY <2>2, J0Value
  <2>4. \A k \in DOMAIN used : Nth(k) # 1 /\ (j # k => Nth(j) # Nth(k))
    BY <2>1, WeightFacts DEF Nth
  <2> QED BY <2>1, <2>3, <2>4
<1> QED BY <1>1, Inductive, PTL

-----------------------------------------------------------------------------
(***************************************************************************)
(* That decryption undoes encryption is shown without saying what either   *)
(* computes.  The hash goes through positions -- the phase, the offset,    *)
(* the accumulator -- of which each determines the next; so does the       *)
(* keystream, through offsets and counters.  What encrypting went through  *)
(* is a set closed under the next position, and decrypting what was sealed *)
(* starts in it and so never leaves it.                                    *)
(***************************************************************************)
HashStart == <<"aad", 0, Zero>>
HashHere == <<pc, off, y>>

Update(e, data, len, next) ==
    IF e[2] < len
    THEN <<e[1], e[2] + ChunkLen(e[2], len), GfMul(XorBlock(e[3], PadBlock(data, e[2], len)), H)>>
    ELSE <<next, 0, e[3]>>

HashNext(aad, text, len, e) ==
    IF e[1] = "aad" THEN Update(e, aad, Len(aad), "text")
    ELSE IF e[1] = "text" THEN Update(e, text, len, "len")
    ELSE Update(e, LenBlock(Len(aad), len), BlockSize, "tag")

StreamStart(nonce) == <<0, Inc32(J0(nonce))>>
StreamHere == <<off, counter>>
StreamNext(len, e) == <<e[1] + ChunkLen(e[1], len), Inc32(e[2])>>

Keyed(e, len, from, to) ==
    \A k \in e[1]+1..e[1]+ChunkLen(e[1], len) : to[k] = Xor(from[k], E[e[2]][k - e[1]])

(***************************************************************************)
(* All the positions of a message that is sealed.                          *)
(***************************************************************************)
HashClosed(R, m) ==
    /\ HashStart \in R
    /\ \A e \in R : /\ e[2] \in Nat
                    /\ e[1] = "tag" => m.tag = XorBlock(e[3], E[J0(m.nonce)])
                    /\ e[1] # "tag" => HashNext(m.aad, m.ct, Len(m.ct), e) \in R

StreamClosed(Q, m) ==
    /\ StreamStart(m.nonce) \in Q
    /\ Len(m.pt) = Len(m.ct)
    /\ \A e \in Q : /\ e[1] \in Nat
                    /\ e[1] < Len(m.ct) => StreamNext(Len(m.ct), e) \in Q
                    /\ e[1] < Len(m.ct) => Keyed(e, Len(m.ct), m.pt, m.ct)

(***************************************************************************)
(* Those of a message that is being sealed, up to here.                    *)
(***************************************************************************)
HashSoFar(R) ==
    /\ HashStart \in R /\ HashHere \in R
    /\ \A e \in R : /\ e[2] \in Nat
                    /\ e # HashHere => e[1] # "tag" /\ HashNext(call.aad, out, call.len, e) \in R

Passed(e) == e[1] < call.len /\ (pc = "ctr" => e # StreamHere)

StreamSoFar(Q) ==
    /\ StreamStart(call.nonce) \in Q
    /\ pc = "ctr" => StreamHere \in Q
    /\ \A e \in Q :
         /\ e[1] \in Nat
         /\ Passed(e) => /\ StreamNext(call.len, e) \in Q
                         /\ Keyed(e, call.len, call.data, out)
                         /\ pc = "ctr" => e[1] + ChunkLen(e[1], call.len) <= off

EncryptInv ==
    call.op = "encrypt" /\ pc # "idle" =>
        /\ pc = "ctr" => y = Zero /\ \A k \in off+1..call.len : in[k] = call.data[k]
        /\ pc \in Hashing => \E R : HashSoFar(R)
        /\ \E Q : StreamSoFar(Q)

Genuine == call.op = "decrypt" /\ Received = sealed

SealedInv ==
    sealed # NoMessage =>
        /\ \E R : HashClosed(R, sealed) /\ (Genuine /\ pc \in Hashing => HashHere \in R)
        /\ \E Q : StreamClosed(Q, sealed) /\ (Genuine /\ pc = "ctr" => StreamHere \in Q)

DecryptInv ==
    call.op = "decrypt" =>
        /\ sealed # NoMessage
        /\ pc \in Hashing => \A k \in 1..call.len : in[k] = call.data[k]
        /\ pc = "ctr" => \A k \in off+1..call.len : in[k] = call.data[k]
        /\ pc # "idle" \/ status = "OK" => \A k \in call.len+1..call.cap : out[k] = Untouched
        /\ status = "OK" => call.len <= call.cap
        /\ Genuine /\ pc = "ctr" => \A k \in 1..off : out[k] = sealed.pt[k]
        /\ Genuine /\ pc = "idle" /\ status = "OK" => \A k \in 1..call.len : out[k] = sealed.pt[k]
        /\ Genuine /\ pc = "idle" => status # "AUTH_FAILED"

RoundInv == EncryptInv /\ SealedInv /\ DecryptInv

LEMMA RoundInit == Init => RoundInv
BY DEF Init, RoundInv, EncryptInv, SealedInv, DecryptInv, NoMessage

(***************************************************************************)
(* A position's successor depends on the text, not on the buffer it is in. *)
(***************************************************************************)
LEMMA SameText ==
    ASSUME NEW s, NEW t, NEW len \in Nat, \A k \in 1..len : s[k] = t[k],
           NEW aad, NEW e, e[2] \in Nat
    PROVE  HashNext(aad, s, len, e) = HashNext(aad, t, len, e)
<1>1. PadBlock(s, e[2], len) = PadBlock(t, e[2], len)
  BY ByteFacts DEF PadBlock
<1> QED BY <1>1 DEF HashNext, Update

LEMMA GhashIsNext ==
    ASSUME GhashAad \/ GhashText \/ GhashLen
    PROVE  /\ HashHere' = HashNext(call.aad, IF call.op = "encrypt" THEN out ELSE in, call.len,
                                   HashHere)
           /\ pc \in Hashing /\ pc # "tag" /\ pc' \in Hashing
           /\ UNCHANGED <<call, in, out, counter, status, sealed, used>>
BY DEF GhashAad, GhashText, GhashLen, Ghash, HashHere, HashNext, Update, Hashing

LEMMA GhashKeepsRound ==
    ASSUME IInv, RoundInv, GhashAad \/ GhashText \/ GhashLen
    PROVE  RoundInv'
<1>1. /\ pc \in Hashing /\ pc # "tag" /\ pc # "ctr" /\ pc # "idle"
      /\ pc' \in Hashing /\ pc' # "ctr" /\ pc' # "idle"
      /\ UNCHANGED <<call, in, out, counter, status, sealed, used>>
  BY GhashIsNext DEF Hashing
<1>2. off' \in Nat /\ off \in Nat /\ call.len \in Nat /\ call.op \in {"none", "encrypt", "decrypt"}
      /\ HashHere'[2] = off' /\ HashHere[1] = pc /\ HashHere[2] = off
  <2>1. off \in Nat /\ call.len \in Nat /\ call.op \in {"none", "encrypt", "decrypt"}
    BY DEF IInv, TypeOK
  <2>2. off' \in Nat
    BY InvNext DEF Next, IInv, TypeOK
  <2> QED BY <2>1, <2>2 DEF HashHere
<1>3. EncryptInv'
  <2>1. SUFFICES ASSUME call.op = "encrypt"
                 PROVE  (\E R : HashSoFar(R)') /\ (\E Q : StreamSoFar(Q)')
    BY <1>1 DEF EncryptInv, Hashing
  <2>2. PICK R : HashSoFar(R)
    BY <1>1, <2>1 DEF RoundInv, EncryptInv
  <2>3. PICK Q : StreamSoFar(Q)
    BY <1>1, <2>1 DEF RoundInv, EncryptInv
  <2>4. StreamSoFar(Q)'
    BY <1>1, <2>3 DEF StreamSoFar, Passed
  <2>5. HashHere' = HashNext(call.aad, out, call.len, HashHere)
    BY <2>1, GhashIsNext
  <2>6. ASSUME NEW S, S = R \cup {HashHere'}
        PROVE  HashSoFar(S)'
    <3>1. HashStart \in S /\ HashHere' \in S
      BY <2>2, <2>6 DEF HashSoFar
    <3>2. ASSUME NEW e \in S
          PROVE  /\ e[2] \in Nat
                 /\ e # HashHere' => e[1] # "tag" /\ HashNext(call.aad, out, call.len, e) \in S
      <4>1. CASE e = HashHere'
        BY <1>2, <4>1
      <4>2. CASE e = HashHere
        BY <1>1, <1>2, <2>5, <2>6, <4>2
      <4>3. CASE e # HashHere /\ e # HashHere'
        BY <2>2, <2>6, <3>2, <4>3 DEF HashSoFar
      <4> QED BY <4>1, <4>2, <4>3
    <3> QED BY <1>1, <3>1, <3>2 DEF HashSoFar
  <2> QED BY <2>4, <2>6
<1>4. SealedInv'
  <2> SUFFICES ASSUME sealed # NoMessage PROVE SealedInv'
    BY <1>1 DEF SealedInv
  <2>1. PICK R : HashClosed(R, sealed) /\ (Genuine /\ pc \in Hashing => HashHere \in R)
    BY DEF RoundInv, SealedInv
  <2>2. PICK Q : StreamClosed(Q, sealed)
    BY DEF RoundInv, SealedInv
  <2>3. Genuine' = Genuine
    BY <1>1 DEF Genuine, Received
  <2>4. ASSUME Genuine PROVE HashHere' \in R
    <3>1. HashHere \in R /\ call.op = "decrypt"
      BY <1>1, <2>1, <2>4 DEF Genuine
    <3>2. call.aad = sealed.aad /\ call.data = sealed.ct
      BY <2>4 DEF Genuine, Received
    <3>3. call.len = Len(sealed.ct) /\ \A k \in 1..call.len : in[k] = sealed.ct[k]
      <4>1. call.len = Len(call.data)
        BY DEF IInv, TypeOK
      <4>2. \A k \in 1..call.len : in[k] = call.data[k]
        BY <1>1, <3>1 DEF RoundInv, DecryptInv
      <4> QED BY <3>2, <4>1, <4>2
    <3>4. HashNext(call.aad, in, call.len, HashHere)
            = HashNext(sealed.aad, sealed.ct, Len(sealed.ct), HashHere)
      <4>1. HashNext(call.aad, in, call.len, HashHere)
              = HashNext(call.aad, sealed.ct, call.len, HashHere)
        <5>1. HashHere[2] \in Nat
          BY <1>2
        <5>2. call.len \in Nat /\ \A k \in 1..call.len : in[k] = sealed.ct[k]
          BY <1>2, <3>3
        <5> HIDE DEF HashNext, HashHere
        <5> QED BY <5>1, <5>2, SameText
      <4> QED BY <3>2, <3>3, <4>1
    <3>5. HashHere' = HashNext(call.aad, in, call.len, HashHere)
      BY <3>1, GhashIsNext
    <3> QED BY <1>1, <1>2, <2>1, <3>1, <3>4, <3>5 DEF HashClosed
  <2> QED BY <1>1, <2>1, <2>2, <2>3, <2>4 DEF SealedInv
<1>5. DecryptInv'
  BY <1>1 DEF RoundInv, DecryptInv, Genuine, Received
<1> QED BY <1>3, <1>4, <1>5 DEF RoundInv

(***************************************************************************)
(* One block of keystream.                                                 *)
(***************************************************************************)
LEMMA ChunkFits ==
    ASSUME NEW o \in Nat, NEW len \in Nat, o < len
    PROVE  /\ ChunkLen(o, len) \in 1..BlockSize
           /\ o + ChunkLen(o, len) \in Nat /\ o + ChunkLen(o, len) <= len
<1>1. BlockSize \in Nat /\ BlockSize >= 1
  BY SizeAssumption DEF BlockSize
<1> QED BY <1>1 DEF ChunkLen

LEMMA CtrBlockFacts ==
    ASSUME IInv, CtrBlock
    PROVE  /\ pc = "ctr" /\ off \in Nat /\ call.len \in Nat /\ off < call.len
           /\ call.len = Len(call.data) /\ call.len <= call.cap /\ call.cap \in Nat
           /\ UNCHANGED <<pc, call, y, status, sealed>>
           /\ StreamHere' = StreamNext(call.len, StreamHere)
           /\ off' \in Nat /\ off < off' /\ off' <= call.len
           /\ off' = off + ChunkLen(off, call.len) /\ StreamHere = <<off, counter>>
           /\ \A k \in off+1..off' :
                 /\ out'[k] = Xor(in[k], E[counter][k - off])
                 /\ E[counter][k - off] \in Byte
           /\ \A k \in 1..call.cap : k \notin off+1..off' => out'[k] = out[k]
           /\ \A k \in off'+1..call.len : in'[k] = in[k]
<1>1. /\ pc = "ctr" /\ off \in Nat /\ call.len \in Nat /\ off < call.len
      /\ call.len = Len(call.data) /\ call.len <= call.cap /\ call.cap \in Nat
      /\ UNCHANGED <<pc, call, y, status, sealed>>
      /\ DOMAIN out = 1..call.cap /\ (call.alias => in = out)
  BY DEF CtrBlock, IInv, TypeOK, BufferInv, Buffer
<1>2. off' = off + ChunkLen(off, call.len) /\ counter' = Inc32(counter)
  BY DEF CtrBlock
<1>3. ChunkLen(off, call.len) \in 1..BlockSize /\ off' \in Nat /\ off' <= call.len
  BY <1>1, <1>2, ChunkFits
<1>4. BlockSize \in Nat
  BY ByteFacts
<1>5. off < off'
  BY <1>1, <1>2, <1>3, <1>4
<1>6. out' = [k \in DOMAIN out |->
                IF k \in off+1..off' THEN Xor(in[k], E[counter][k - off]) ELSE out[k]]
  BY <1>2 DEF CtrBlock
<1>7. E[counter] \in Block
  BY CipherAssumption DEF IInv, TypeOK
<1>8. ASSUME NEW k \in off+1..off'
      PROVE  out'[k] = Xor(in[k], E[counter][k - off]) /\ E[counter][k - off] \in Byte
  <2>1. k \in 1..call.cap /\ k - off \in 1..BlockSize
    BY <1>1, <1>2, <1>3, <1>4
  <2> QED BY <1>1, <1>6, <1>7, <2>1 DEF Block
<1>9. \A k \in 1..call.cap : k \notin off+1..off' => out'[k] = out[k]
  BY <1>1, <1>6
<1>10. ASSUME NEW k \in Nat, off' < k, k <= call.len PROVE in'[k] = in[k]
  <2>1. k \in 1..call.cap /\ k \notin off+1..off'
    BY <1>1, <1>3, <1>10
  <2> QED BY <1>1, <1>9, <2>1 DEF CtrBlock
<1>11. StreamHere' = StreamNext(call.len, StreamHere)
  BY <1>2 DEF StreamHere, StreamNext
<1>12. \A k \in off'+1..call.len : in'[k] = in[k]
  <2>1. ASSUME NEW m \in Nat, NEW n \in Nat
        PROVE  \A k \in m+1..n : k \in Nat /\ m < k /\ k <= n
    OBVIOUS
  <2>2. off' \in Nat /\ call.len \in Nat
    BY <1>1, <1>3
  <2> QED BY <1>10, <2>1, <2>2
<1> QED BY <1>1, <1>2, <1>3, <1>5, <1>8, <1>9, <1>11, <1>12 DEF StreamHere

LEMMA CtrBlockSeals ==
    ASSUME IInv, RoundInv, CtrBlock, call.op = "encrypt", NEW Q, StreamSoFar(Q),
           NEW S, S = Q \cup {StreamHere'}
    PROVE  StreamSoFar(S)'
<1> USE CtrBlockFacts
<1>1. StreamStart(call.nonce) \in S /\ StreamHere' \in S /\ StreamHere \in Q
  BY DEF StreamSoFar
<1>2. \A k \in off+1..call.len : in[k] = call.data[k]
  BY DEF RoundInv, EncryptInv
<1>3. ASSUME NEW e \in S
      PROVE  /\ e[1] \in Nat
             /\ e[1] < call.len /\ e # StreamHere' =>
                   /\ StreamNext(call.len, e) \in S
                   /\ Keyed(e, call.len, call.data, out')
                   /\ e[1] + ChunkLen(e[1], call.len) <= off'
  <2>1. CASE e = StreamHere'
    <3>1. StreamHere'[1] = off'
      BY DEF StreamHere
    <3> QED BY <2>1, <3>1
  <2>2. CASE e = StreamHere
    <3>1. e[1] = off /\ e[2] = counter
      BY <2>2
    <3>2. Keyed(e, call.len, call.data, out')
      <4>1. \A k \in off+1..off' : k \in off+1..call.len
        OBVIOUS
      <4>2. \A k \in off+1..off' : out'[k] = Xor(call.data[k], E[counter][k - off])
        BY <1>2, <4>1
      <4> QED BY <3>1, <4>2 DEF Keyed
    <3> QED BY <2>2, <3>1, <3>2
  <2>3. ASSUME e # StreamHere, e # StreamHere', e[1] < call.len
        PROVE  /\ StreamNext(call.len, e) \in S
               /\ Keyed(e, call.len, call.data, out')
               /\ e[1] + ChunkLen(e[1], call.len) <= off'
    <3>1. e \in Q /\ Passed(e) /\ e[1] \in Nat
      BY <1>3, <2>3 DEF Passed, StreamSoFar
    <3>2. /\ StreamNext(call.len, e) \in Q /\ Keyed(e, call.len, call.data, out)
          /\ e[1] + ChunkLen(e[1], call.len) <= off
      BY <3>1 DEF StreamSoFar
    <3>3. e[1] + ChunkLen(e[1], call.len) \in Nat
      BY <2>3, <3>1, ChunkFits
    <3>4. \A k \in e[1]+1..e[1]+ChunkLen(e[1], call.len) : out'[k] = out[k]
      <4>1. \A k \in e[1]+1..e[1]+ChunkLen(e[1], call.len) : k \in 1..call.cap /\ k \notin off+1..off'
        BY <3>1, <3>2, <3>3
      <4> QED BY <4>1
    <3>5. Keyed(e, call.len, call.data, out')
      BY <3>2, <3>4 DEF Keyed
    <3>6. e[1] + ChunkLen(e[1], call.len) <= off'
      BY <3>2, <3>3
    <3> QED BY <3>2, <3>5, <3>6
  <2>4. e[1] \in Nat
    <3>1. CASE e \in Q
      BY <3>1 DEF StreamSoFar
    <3> QED BY <1>3, <2>1, <3>1
  <2> QED BY <2>1, <2>2, <2>3, <2>4
<1> QED BY <1>1, <1>3 DEF StreamSoFar, Passed

(***************************************************************************)
(* A block of what was sealed, opened: the counter is the one it was       *)
(* sealed with, so the keystream cancels.                                  *)
(***************************************************************************)
LEMMA CtrBlockOpens ==
    ASSUME IInv, RoundInv, CtrBlock, Genuine, NEW Q, StreamClosed(Q, sealed), StreamHere \in Q
    PROVE  StreamHere' \in Q /\ \A k \in off+1..off' : out'[k] = sealed.pt[k]
<1> USE CtrBlockFacts
<1>1. call.op = "decrypt" /\ call.data = sealed.ct /\ sealed # NoMessage
  BY DEF Genuine, Received, RoundInv, DecryptInv
<1>2. sealed \in Message
  BY <1>1 DEF IInv, TypeOK
<1>3. call.len = Len(sealed.ct) /\ Len(sealed.pt) = Len(sealed.ct) /\ sealed.pt \in Seq(Byte)
  BY <1>1, <1>2 DEF StreamClosed, Message
<1>4. StreamHere' \in Q /\ Keyed(StreamHere, call.len, sealed.pt, sealed.ct)
  BY <1>3 DEF StreamClosed
<1>5. \A k \in off+1..off' : sealed.ct[k] = Xor(sealed.pt[k], E[counter][k - off])
  BY <1>4 DEF Keyed
<1>6. ASSUME NEW k \in off+1..off' PROVE out'[k] = sealed.pt[k]
  <2>1. k \in 1..Len(sealed.pt) /\ k \in off+1..call.len
    BY <1>3
  <2>2. sealed.pt[k] \in Byte
    BY <1>3, <2>1
  <2>3. in[k] = sealed.ct[k]
    BY <1>1, <2>1 DEF RoundInv, DecryptInv
  <2> QED BY <1>5, <2>2, <2>3, CipherAssumption
<1> QED BY <1>4, <1>6

LEMMA CtrBlockKeepsRound ==
    ASSUME IInv, RoundInv, CtrBlock
    PROVE  RoundInv'
<1> USE CtrBlockFacts
<1>1. "ctr" \notin Hashing /\ "idle" \notin Hashing
  BY DEF Hashing
<1>2. EncryptInv'
  <2>1. SUFFICES ASSUME call.op = "encrypt" PROVE EncryptInv'
    BY DEF EncryptInv
  <2>2. PICK Q : StreamSoFar(Q)
    BY <2>1 DEF RoundInv, EncryptInv
  <2>3. \E S : StreamSoFar(S)'
    BY <2>1, <2>2, CtrBlockSeals
  <2>4. y = Zero /\ \A k \in off+1..call.len : in[k] = call.data[k]
    BY <2>1 DEF RoundInv, EncryptInv
  <2>5. \A k \in off'+1..call.len : in'[k] = call.data[k]
    <3>1. \A k \in off'+1..call.len : k \in off+1..call.len
      OBVIOUS
    <3> QED BY <2>4, <3>1
  <2> QED BY <1>1, <2>3, <2>4, <2>5 DEF EncryptInv
<1>3. Genuine' = Genuine
  BY DEF Genuine, Received
<1>4. SealedInv'
  <2> SUFFICES ASSUME sealed # NoMessage PROVE SealedInv'
    BY DEF SealedInv
  <2>1. PICK R : HashClosed(R, sealed)
    BY DEF RoundInv, SealedInv
  <2>2. PICK Q : StreamClosed(Q, sealed) /\ (Genuine => StreamHere \in Q)
    BY DEF RoundInv, SealedInv
  <2>3. Genuine => StreamHere' \in Q
    BY <2>2, CtrBlockOpens
  <2> QED BY <1>1, <1>3, <2>1, <2>2, <2>3 DEF SealedInv
<1>5. DecryptInv'
  <2>1. SUFFICES ASSUME call.op = "decrypt" PROVE DecryptInv'
    BY DEF DecryptInv
  <2>2. /\ sealed # NoMessage
        /\ \A k \in off+1..call.len : in[k] = call.data[k]
        /\ \A k \in call.len+1..call.cap : out[k] = Untouched
        /\ Genuine => \A k \in 1..off : out[k] = sealed.pt[k]
    BY <2>1 DEF RoundInv, DecryptInv
  <2>3. \A k \in off'+1..call.len : in'[k] = call.data[k]
    <3>1. \A k \in off'+1..call.len : k \in off+1..call.len
      OBVIOUS
    <3> QED BY <2>2, <3>1
  <2>4. \A k \in call.len+1..call.cap : out'[k] = Untouched
    <3>1. \A k \in call.len+1..call.cap : k \in 1..call.cap /\ k \notin off+1..off'
      OBVIOUS
    <3> QED BY <2>2, <3>1
  <2>5. ASSUME Genuine, NEW k \in 1..off' PROVE out'[k] = sealed.pt[k]
    <3>1. PICK Q : StreamClosed(Q, sealed) /\ StreamHere \in Q
      BY <2>2, <2>5 DEF RoundInv, SealedInv
    <3>2. CASE k \in off+1..off'
      BY <2>5, <3>1, <3>2, CtrBlockOpens
    <3>3. CASE k \notin off+1..off'
      <4>1. k \in 1..off /\ k \in 1..call.cap
        BY <3>3
      <4> QED BY <2>2, <2>5, <3>3, <4>1
    <3> QED BY <3>2, <3>3
  <2> QED BY <1>1, <1>3, <2>2, <2>3, <2>4, <2>5 DEF DecryptInv
<1> QED BY <1>2, <1>4, <1>5 DEF RoundInv

(***************************************************************************)
(* The end of the keystream, and the ends of a call.                       *)
(***************************************************************************)
LEMMA CtrDoneKeepsRound ==
    ASSUME IInv, RoundInv, CtrDone
    PROVE  RoundInv'
<1>1. /\ pc = "ctr" /\ off >= call.len /\ off' = 0
      /\ UNCHANGED <<call, in, out, counter, y, sealed, used>>
      /\ off \in Nat /\ call.len \in Nat /\ off <= call.len
  BY DEF CtrDone, IInv, TypeOK, BufferInv
<1>2. /\ call.op = "encrypt" => pc' = "aad" /\ status' = status
      /\ call.op # "encrypt" => pc' = "idle" /\ status' = "OK"
  BY DEF CtrDone, Return
<1>3. off = call.len
  BY <1>1
<1>4. EncryptInv'
  <2>1. SUFFICES ASSUME call.op = "encrypt" PROVE EncryptInv'
    BY <1>1 DEF EncryptInv
  <2>2. y = Zero
    BY <1>1, <2>1 DEF RoundInv, EncryptInv
  <2>3. HashHere' = HashStart
    BY <1>1, <1>2, <2>1, <2>2 DEF HashHere, HashStart
  <2>4. HashSoFar({HashStart})'
    BY <2>3 DEF HashSoFar, HashStart
  <2>5. PICK Q : StreamSoFar(Q)
    BY <1>1, <2>1 DEF RoundInv, EncryptInv
  <2>6. ASSUME NEW e \in Q, e[1] < call.len
        PROVE  StreamNext(call.len, e) \in Q /\ Keyed(e, call.len, call.data, out)
    <3>1. Passed(e)
      <4>1. e # StreamHere
        BY <1>1, <1>3, <2>6 DEF StreamHere
      <4> QED BY <2>6, <4>1 DEF Passed
    <3> QED BY <2>5, <3>1 DEF StreamSoFar
  <2>7. StreamSoFar(Q)'
    BY <1>1, <1>2, <2>1, <2>5, <2>6 DEF StreamSoFar, Passed
  <2> QED BY <1>2, <2>1, <2>4, <2>7 DEF EncryptInv
<1>5. Genuine' = Genuine
  BY <1>1 DEF Genuine, Received
<1>6. Genuine' => pc' = "idle"
  BY <1>1, <1>2 DEF Genuine
<1>7. SealedInv'
  BY <1>1, <1>5, <1>6 DEF RoundInv, SealedInv, Hashing
<1>8. DecryptInv'
  <2>1. call.len <= call.cap
    BY <1>1 DEF IInv, BufferInv
  <2> QED BY <1>1, <1>2, <1>3, <1>5, <2>1 DEF RoundInv, DecryptInv, Hashing
<1> QED BY <1>4, <1>7, <1>8 DEF RoundInv

LEMMA SealKeepsRound ==
    ASSUME IInv, RoundInv, Seal
    PROVE  RoundInv'
<1>1. /\ pc = "tag" /\ call.op = "encrypt" /\ pc' = "idle"
      /\ UNCHANGED <<call, in, out, counter, off, y, used>>
      /\ sealed' = [ct |-> SubSeq(out, 1, call.len), aad |-> call.aad, nonce |-> call.nonce,
                    tag |-> ComputedTag, pt |-> call.data]
  BY DEF Seal, Return
<1>2. /\ call.len = Len(call.data) /\ call.len \in Nat
      /\ Len(sealed'.ct) = call.len /\ \A k \in 1..call.len : sealed'.ct[k] = out[k]
  <2>1. /\ call.len = Len(call.data) /\ call.len \in Nat /\ out \in Buffer
        /\ call.len <= Len(out)
    BY <1>1 DEF IInv, TypeOK, BufferInv
  <2>2. \A k \in 1..call.len : out[k] \in Byte \cup {Untouched}
    BY <2>1 DEF Buffer
  <2>3. ASSUME NEW s \in Buffer, NEW n \in Nat, n <= Len(s)
        PROVE  Len(SubSeq(s, 1, n)) = n /\ \A k \in 1..n : SubSeq(s, 1, n)[k] = s[k]
    BY DEF Buffer
  <2> QED BY <1>1, <2>1, <2>3
<1>3. PICK R : HashSoFar(R)
  BY <1>1 DEF RoundInv, EncryptInv, Hashing
<1>4. PICK Q : StreamSoFar(Q)
  BY <1>1 DEF RoundInv, EncryptInv
<1>5. HashClosed(R, sealed')
  <2>1. HashHere = <<"tag", off, y>>
    BY <1>1 DEF HashHere
  <2>2. ASSUME NEW e \in R, e[1] = "tag"
        PROVE  sealed'.tag = XorBlock(e[3], E[J0(sealed'.nonce)])
    <3>1. e = HashHere
      BY <1>3, <2>2 DEF HashSoFar
    <3> QED BY <1>1, <2>1, <3>1 DEF ComputedTag
  <2>3. ASSUME NEW e \in R, e[1] # "tag"
        PROVE  HashNext(sealed'.aad, sealed'.ct, Len(sealed'.ct), e) \in R
    <3>1. e[2] \in Nat /\ HashNext(call.aad, out, call.len, e) \in R
      BY <1>3, <2>1, <2>3 DEF HashSoFar
    <3>2. ASSUME NEW t, \A k \in 1..call.len : t[k] = out[k]
          PROVE  HashNext(call.aad, t, call.len, e) = HashNext(call.aad, out, call.len, e)
      <4>1. call.len \in Nat /\ e[2] \in Nat
        BY <1>2, <3>1
      <4>2. \A k \in 1..call.len : t[k] = out[k]
        BY <3>2
      <4> QED BY <4>1, <4>2, SameText
    <3> QED BY <1>1, <1>2, <3>1, <3>2
  <2> QED BY <1>3, <2>2, <2>3 DEF HashClosed, HashSoFar
<1>6. StreamClosed(Q, sealed')
  <2>1. ASSUME NEW e \in Q, e[1] < call.len
        PROVE  StreamNext(call.len, e) \in Q /\ Keyed(e, call.len, call.data, sealed'.ct)
    <3>1. /\ StreamNext(call.len, e) \in Q /\ Keyed(e, call.len, call.data, out)
          /\ e[1] \in Nat
      BY <1>1, <1>4, <2>1 DEF StreamSoFar, Passed
    <3>2. \A k \in e[1]+1..e[1]+ChunkLen(e[1], call.len) : k \in 1..call.len
      BY <1>2, <2>1, <3>1, ChunkFits
    <3> QED BY <1>2, <3>1, <3>2 DEF Keyed
  <2> QED BY <1>1, <1>2, <1>4, <2>1 DEF StreamClosed, StreamSoFar
<1>7. ~Genuine' /\ EncryptInv' /\ DecryptInv'
  BY <1>1 DEF Genuine, EncryptInv, DecryptInv
<1>8. SealedInv'
  BY <1>5, <1>6, <1>7 DEF SealedInv
<1> QED BY <1>7, <1>8 DEF RoundInv

(***************************************************************************)
(* What was sealed has the tag it was sealed with.                         *)
(***************************************************************************)
LEMMA GenuineVerifies ==
    ASSUME IInv, RoundInv, pc = "tag", Genuine
    PROVE  TagEqual(ComputedTag, call.tag)
<1>1. sealed # NoMessage /\ call.tag = sealed.tag /\ call.nonce = sealed.nonce
  BY DEF Genuine, Received, RoundInv, DecryptInv
<1>2. PICK R : HashClosed(R, sealed) /\ HashHere \in R
  BY <1>1 DEF RoundInv, SealedInv, Hashing
<1>3. HashHere[1] = "tag" /\ HashHere[3] = y
  BY DEF HashHere
<1>4. sealed.tag = ComputedTag
  BY <1>1, <1>2, <1>3 DEF HashClosed, ComputedTag
<1>5. call.tag \in Block
  BY DEF IInv, TypeOK
<1> QED BY <1>1, <1>4, <1>5, CipherAssumption DEF TagEqual, Block

LEMMA VerifyKeepsRound ==
    ASSUME IInv, RoundInv, Verify
    PROVE  RoundInv'
<1>1. /\ pc = "tag" /\ call.op = "decrypt" /\ off = 0
      /\ UNCHANGED <<call, off, y, sealed, used>>
  BY DEF Verify, IInv, BufferInv
<1>2. Genuine' = Genuine /\ EncryptInv'
  BY <1>1 DEF Genuine, Received, EncryptInv
<1>3. CASE TagEqual(ComputedTag, call.tag)
  <2>1. /\ pc' = "ctr" /\ counter' = Inc32(J0(call.nonce)) /\ UNCHANGED <<out, in, status>>
    BY <1>3 DEF Verify
  <2>2. StreamHere' = StreamStart(call.nonce)
    BY <1>1, <2>1 DEF StreamHere, StreamStart
  <2>3. SealedInv'
    <3> SUFFICES ASSUME sealed # NoMessage PROVE SealedInv'
      BY <1>1 DEF SealedInv
    <3>1. PICK R : HashClosed(R, sealed)
      BY DEF RoundInv, SealedInv
    <3>2. PICK Q : StreamClosed(Q, sealed)
      BY DEF RoundInv, SealedInv
    <3>3. Genuine => StreamHere' \in Q
      BY <2>2, <3>2 DEF Genuine, Received, StreamClosed
    <3> QED BY <1>1, <1>2, <2>1, <3>1, <3>2, <3>3 DEF SealedInv, Hashing
  <2>4. DecryptInv'
    BY <1>1, <1>2, <2>1 DEF RoundInv, DecryptInv, Hashing
  <2> QED BY <1>2, <2>3, <2>4 DEF RoundInv
<1>4. CASE ~TagEqual(ComputedTag, call.tag)
  <2>1. pc' = "idle" /\ status' = "AUTH_FAILED"
    BY <1>4 DEF Verify, Return
  <2>2. ~Genuine
    BY <1>1, <1>4, GenuineVerifies
  <2>3. SealedInv'
    BY <1>1, <1>2, <2>2 DEF RoundInv, SealedInv
  <2>4. DecryptInv'
    BY <1>1, <1>2, <2>1, <2>2 DEF RoundInv, DecryptInv, Hashing
  <2> QED BY <1>2, <2>3, <2>4 DEF RoundInv
<1> QED BY <1>3, <1>4

(***************************************************************************)
(* The beginning of a call.                                                *)
(***************************************************************************)
LEMMA EnterFacts ==
    ASSUME NEW op, NEW m, NEW data \in Seq(Byte), NEW buf \in Buffers(Len(data)), NEW start,
           Enter(op, m, data, buf, start)
    PROVE  /\ call'.op = op /\ call'.nonce = m.nonce /\ call'.aad = m.aad /\ call'.data = data
           /\ call'.tag = m.tag /\ call'.len = Len(data) /\ call'.cap = buf.cap
           /\ sealed' = sealed /\ off' = 0 /\ y' = Zero
           /\ status' \notin {"OK", "AUTH_FAILED"}
           /\ pc' \in {start, "idle"}
           /\ pc' # "idle" => \A k \in 1..Len(data) : in'[k] = data[k]
           /\ \A k \in Len(data)+1..buf.cap : out'[k] = Untouched
<1>1. buf.alias \in BOOLEAN /\ buf.cap \in Nat /\ Len(data) \in Nat
  BY BuffersType, Len(data) \in Nat
<1>2. /\ call'.op = op /\ call'.nonce = m.nonce /\ call'.aad = m.aad /\ call'.data = data
      /\ call'.tag = m.tag /\ call'.len = Len(data) /\ call'.cap = buf.cap
      /\ sealed' = sealed /\ off' = 0 /\ y' = Zero
      /\ status' = ArgumentError(call')
      /\ pc' = IF ArgumentError(call') = "none" THEN start ELSE "idle"
  BY DEF Enter
<1>3. /\ status' \notin {"OK", "AUTH_FAILED"} /\ pc' \in {start, "idle"}
  BY <1>2 DEF ArgumentError
<1>4. out' = [k \in 1..buf.cap |-> IF buf.alias /\ buf.cap >= Len(data) /\ k <= Len(data)
                                   THEN data[k] ELSE Untouched]
      /\ in' = IF buf.alias /\ buf.cap >= Len(data) THEN out' ELSE data
  BY DEF Enter
<1>5. \A k \in 1..Len(data) : in'[k] = data[k]
  BY <1>1, <1>4
<1>6. \A k \in Len(data)+1..buf.cap : out'[k] = Untouched
  BY <1>1, <1>4
<1> QED BY <1>2, <1>3, <1>5, <1>6

LEMMA CallKeepsRound ==
    ASSUME IInv, RoundInv,
           \/ \E pt \in Plaintexts, nonce \in Nonces, aad \in Aads :
                \E buf \in Buffers(Len(pt)) : CallEncrypt(pt, nonce, aad, buf)
           \/ \E m \in Copies(sealed) : \E buf \in Buffers(Len(m.ct)) : CallDecrypt(m, buf)
    PROVE  RoundInv'
<1>0. "ctr" \notin Hashing /\ "idle" \notin Hashing
  BY DEF Hashing
<1>1. ASSUME NEW pt \in Plaintexts, NEW nonce \in Nonces, NEW aad \in Aads,
             NEW buf \in Buffers(Len(pt)), CallEncrypt(pt, nonce, aad, buf)
      PROVE  RoundInv'
  <2>1. pt \in Seq(Byte) /\ Len(pt) \in Nat
    BY InputAssumption
  <2>2. /\ call'.op = "encrypt" /\ call'.nonce = nonce /\ call'.data = pt
        /\ call'.len = Len(pt) /\ sealed' = sealed /\ off' = 0 /\ y' = Zero
        /\ pc' \in {"ctr", "idle"}
        /\ pc' # "idle" => \A k \in 1..Len(pt) : in'[k] = pt[k]
    <3>1. ASSUME NEW m, m = [NoMessage EXCEPT !.nonce = nonce, !.aad = aad],
                 Enter("encrypt", m, pt, buf, "ctr")
          PROVE  /\ call'.op = "encrypt" /\ call'.nonce = nonce /\ call'.data = pt
                 /\ call'.len = Len(pt) /\ sealed' = sealed /\ off' = 0 /\ y' = Zero
                 /\ pc' \in {"ctr", "idle"}
                 /\ pc' # "idle" => \A k \in 1..Len(pt) : in'[k] = pt[k]
      <4>1. m.nonce = nonce
        BY <3>1 DEF NoMessage
      <4> QED BY <2>1, <3>1, <4>1, EnterFacts
    <3> QED BY <1>1, <3>1 DEF CallEncrypt
  <2>3. counter' = Inc32(J0(nonce)) /\ sealed = NoMessage
    BY <1>1 DEF CallEncrypt
  <2>4. StreamHere' = StreamStart(nonce)
    BY <2>2, <2>3 DEF StreamHere, StreamStart
  <2>5. pc' = "ctr" => StreamSoFar({StreamStart(nonce)})'
    BY <2>2, <2>4 DEF StreamSoFar, Passed, StreamStart
  <2>6. EncryptInv'
    BY <1>0, <2>2, <2>5 DEF EncryptInv
  <2> QED BY <2>2, <2>3, <2>6 DEF RoundInv, SealedInv, DecryptInv
<1>2. ASSUME NEW m \in Copies(sealed), NEW buf \in Buffers(Len(m.ct)), CallDecrypt(m, buf)
      PROVE  RoundInv'
  <2>1. sealed # NoMessage /\ sealed \in Message /\ m \in Message
    BY <1>2, CopiesType DEF CallDecrypt, IInv, TypeOK
  <2>2. m.ct \in Seq(Byte) /\ Len(m.ct) \in Nat
    BY <2>1 DEF Message
  <2>3. /\ call'.op = "decrypt" /\ call'.data = m.ct /\ call'.cap = buf.cap
        /\ call'.len = Len(m.ct) /\ sealed' = sealed /\ off' = 0 /\ y' = Zero
        /\ status' \notin {"OK", "AUTH_FAILED"}
        /\ pc' \in {"aad", "idle"}
        /\ pc' # "idle" => \A k \in 1..Len(m.ct) : in'[k] = m.ct[k]
        /\ \A k \in Len(m.ct)+1..buf.cap : out'[k] = Untouched
    <3>1. Enter("decrypt", m, m.ct, buf, "aad")
      BY <1>2 DEF CallDecrypt
    <3>2. ASSUME NEW data \in Seq(Byte), NEW b \in Buffers(Len(data)),
                 Enter("decrypt", m, data, b, "aad")
          PROVE  /\ call'.op = "decrypt" /\ call'.data = data /\ call'.cap = b.cap
                 /\ call'.len = Len(data) /\ sealed' = sealed /\ off' = 0 /\ y' = Zero
                 /\ status' \notin {"OK", "AUTH_FAILED"}
                 /\ pc' \in {"aad", "idle"}
                 /\ pc' # "idle" => \A k \in 1..Len(data) : in'[k] = data[k]
                 /\ \A k \in Len(data)+1..b.cap : out'[k] = Untouched
      BY <3>2, EnterFacts, ZenonT(30)
    <3> QED BY <1>2, <2>2, <3>1, <3>2
  <2>4. SealedInv'
    <3>1. PICK R : HashClosed(R, sealed)
      BY <2>1 DEF RoundInv, SealedInv
    <3>2. PICK Q : StreamClosed(Q, sealed)
      BY <2>1 DEF RoundInv, SealedInv
    <3>3. pc' \in Hashing => HashHere' = HashStart
      BY <1>0, <2>3 DEF HashHere, HashStart
    <3>4. HashStart \in R /\ pc' # "ctr"
      BY <2>3, <3>1 DEF HashClosed
    <3> QED BY <2>3, <3>1, <3>2, <3>3, <3>4 DEF SealedInv
  <2>5. EncryptInv' /\ DecryptInv'
    BY <1>0, <2>1, <2>3 DEF EncryptInv, DecryptInv
  <2> QED BY <2>4, <2>5 DEF RoundInv
<1> QED BY <1>1, <1>2

LEMMA RoundNext == IInv /\ RoundInv /\ [Next]_vars => RoundInv'
<1>1. IInv /\ RoundInv /\ UNCHANGED vars => RoundInv'
  BY DEF vars, RoundInv, EncryptInv, SealedInv, DecryptInv, Genuine, Received, HashSoFar,
         StreamSoFar, Passed, HashHere, StreamHere
<1> QED BY <1>1, CallKeepsRound, CtrBlockKeepsRound, CtrDoneKeepsRound, GhashKeepsRound,
           SealKeepsRound, VerifyKeepsRound DEF Next

(***************************************************************************)
(* Decrypting what was encrypted gives the plaintext back, whatever the    *)
(* cipher, the field's multiplication and the message, in place or not     *)
(* (mako_gcm_encrypt and mako_gcm_decrypt).                                *)
(***************************************************************************)
THEOREM TextComesBack == Spec => []RoundTrip
<1>1. IInv /\ RoundInv => RoundTrip
  <2> SUFFICES ASSUME IInv, RoundInv, Decrypted, Received = sealed
               PROVE  /\ status = "OK"
                      /\ SubSeq(out, 1, call.len) = sealed.pt
                      /\ \A k \in call.len+1..call.cap : out[k] = Untouched
    BY DEF RoundTrip
  <2>1. Genuine /\ call.op = "decrypt" /\ pc = "idle" /\ sealed # NoMessage
    BY DEF Decrypted, Genuine, RoundInv, DecryptInv
  <2>2. status = "OK"
    BY <2>1 DEF Decrypted, RoundInv, DecryptInv
  <2>3. /\ \A k \in 1..call.len : out[k] = sealed.pt[k]
        /\ \A k \in call.len+1..call.cap : out[k] = Untouched
    BY <2>1, <2>2 DEF RoundInv, DecryptInv
  <2>4. /\ sealed.pt \in Seq(Byte) /\ call.len = Len(sealed.pt) /\ call.len \in Nat
        /\ out \in Buffer /\ call.len <= Len(out)
    <3>1. sealed.pt \in Seq(Byte) /\ Len(sealed.pt) = Len(sealed.ct) /\ sealed.ct = call.data
      BY <2>1 DEF IInv, TypeOK, Message, RoundInv, SealedInv, StreamClosed, Genuine, Received
    <3>2. call.len = Len(call.data) /\ call.len \in Nat /\ out \in Buffer /\ Len(out) = call.cap
      BY DEF IInv, TypeOK
    <3>3. call.len <= call.cap
      BY <2>1, <2>2 DEF RoundInv, DecryptInv
    <3> QED BY <3>1, <3>2, <3>3
  <2> QED BY <2>2, <2>3, <2>4
<1> QED BY <1>1, InvInit, InvNext, RoundInit, RoundNext, PTL DEF Spec

-----------------------------------------------------------------------------
(***************************************************************************)
(* Induction over the natural numbers, from their being well-founded, and  *)
(* the existence of functions defined by recursion over them.              *)
(***************************************************************************)
LEMMA Least == ASSUME NEW T, T \subseteq Nat, T # {} PROVE \E n \in T : \A m \in T : n <= m
<1> DEFINE R == OpToRel(<, Nat)
<1>1. IsWellFoundedOn(R, Nat)
  BY NatLessThanWellFounded
<1>2. \A n, m \in Nat : m < n => <<m, n>> \in R
  BY DEF OpToRel
<1> HIDE DEF R
<1>3. PICK n \in T : \A m \in T : ~(<<m, n>> \in R)
  BY <1>1, WFMin
<1>4. \A m \in T : ~(m < n)
  BY <1>2, <1>3
<1> QED BY <1>3, <1>4

LEMMA Induction ==
   ASSUME NEW S, 0 \in S, \A n \in Nat : n \in S => n + 1 \in S
   PROVE Nat \subseteq S
<1> SUFFICES ASSUME NEW k \in Nat, k \notin S PROVE FALSE
  OBVIOUS
<1>1. PICK n \in Nat \ S : \A m \in Nat \ S : n <= m
  BY Least
<1>2. n # 0 /\ n - 1 \in Nat /\ n - 1 \in S
  BY <1>1
<1>3. (n - 1) + 1 \in S
  BY <1>2
<1> QED BY <1>1, <1>3

Iterates(f, T, a, g) ==
    f \in [Nat -> T] /\ f[0] = a /\ \A n \in Nat : f[n + 1] = g[n][f[n]]

LEMMA Recursion ==
    ASSUME NEW T, NEW a \in T, NEW g \in [Nat -> [T -> T]]
    PROVE  \E f : Iterates(f, T, a, g)
<1> DEFINE Upto(n, f) == f \in [0..n -> T] /\ f[0] = a /\ \A k \in 0..n-1 : f[k + 1] = g[k][f[k]]
           S == {n \in Nat : \E f : Upto(n, f)}
<1>1. \A n \in Nat : \E f : Upto(n, f)
  <2>1. 0 \in S
    <3>1. Upto(0, [k \in 0..0 |-> a])
      OBVIOUS
    <3> QED BY <3>1
  <2>2. ASSUME NEW n \in Nat, n \in S PROVE n + 1 \in S
    <3>1. PICK f : Upto(n, f)
      BY <2>2
    <3> DEFINE h == [k \in 0..n+1 |-> IF k = n + 1 THEN g[n][f[n]] ELSE f[k]]
    <3>2. h \in [0..n+1 -> T]
      BY <3>1
    <3>3. h[0] = a /\ h[n + 1] = g[n][f[n]] /\ \A k \in 0..n : h[k] = f[k]
      BY <3>1
    <3>4. ASSUME NEW k \in 0..(n+1)-1 PROVE h[k + 1] = g[k][h[k]]
      <4>1. CASE k = n
        <5>1. h[n + 1] = g[n][f[n]] /\ h[n] = f[n]
          BY <3>3
        <5> HIDE DEF h
        <5> QED BY <4>1, <5>1
      <4>2. CASE k # n
        <5>1. k \in 0..n-1 /\ k \in 0..n /\ k + 1 \in 0..n
          BY <4>2
        <5> QED BY <3>1, <3>3, <5>1
      <4> QED BY <4>1, <4>2
    <3>5. h \in [0..n+1 -> T] /\ h[0] = a /\ \A k \in 0..(n+1)-1 : h[k + 1] = g[k][h[k]]
      BY <3>2, <3>3, <3>4
    <3> HIDE DEF h
    <3>6. Upto(n + 1, h)
      BY <3>5
    <3>7. n + 1 \in Nat
      OBVIOUS
    <3> QED BY <3>6, <3>7
  <2> HIDE DEF S
  <2>3. Nat \subseteq S
    BY <2>1, <2>2, Induction
  <2> QED BY <2>3 DEF S
<1>2. ASSUME NEW m \in Nat, NEW n \in Nat, m <= n, NEW e, NEW f, Upto(m, e), Upto(n, f)
      PROVE  \A k \in 0..m : e[k] = f[k]
  <2> DEFINE A == {k \in Nat : k <= m => e[k] = f[k]}
  <2>1. 0 \in A
    BY <1>2
  <2>2. ASSUME NEW k \in Nat, k \in A PROVE k + 1 \in A
    <3> SUFFICES ASSUME k + 1 <= m PROVE e[k + 1] = f[k + 1]
      OBVIOUS
    <3>1. k \in 0..m-1 /\ k \in 0..n-1 /\ e[k] = f[k]
      BY <1>2, <2>2
    <3> QED BY <1>2, <3>1
  <2> HIDE DEF A
  <2>3. Nat \subseteq A
    BY <2>1, <2>2, Induction
  <2> QED BY <2>3 DEF A
<1> DEFINE F(n) == CHOOSE f : Upto(n, f)
           r == [n \in Nat |-> F(n)[n]]
<1>3. ASSUME NEW n \in Nat PROVE Upto(n, F(n))
  BY <1>1, Zenon
<1> HIDE DEF F
<1>4. r \in [Nat -> T]
  BY <1>3
<1>5. r[0] = a
  BY <1>3
<1>6. ASSUME NEW n \in Nat PROVE r[n + 1] = g[n][r[n]]
  <2>1. F(n + 1)[n + 1] = g[n][F(n + 1)[n]]
    <3>1. n \in 0..(n+1)-1
      OBVIOUS
    <3> QED BY <1>3, <3>1
  <2>2. F(n)[n] = F(n + 1)[n]
    <3>1. Upto(n, F(n)) /\ Upto(n + 1, F(n + 1))
      BY <1>3
    <3> HIDE DEF Upto
    <3>2. \A k \in 0..n : F(n)[k] = F(n + 1)[k]
      <4>1. n <= n + 1 /\ n + 1 \in Nat
        OBVIOUS
      <4> QED BY <1>2, <3>1, <4>1
    <3> QED BY <3>2
  <2> QED BY <2>1, <2>2
<1>7. Iterates(r, T, a, g)
  BY <1>4, <1>5, <1>6 DEF Iterates
<1> QED BY <1>7


-----------------------------------------------------------------------------
(***************************************************************************)
(* The laws of blocks.                                                     *)
(***************************************************************************)
LEMMA SameBlock ==
    ASSUME NEW a \in Block, NEW b \in Block, \A k \in 1..BlockSize : a[k] = b[k]
    PROVE  a = b
<1>1. a = [k \in 1..BlockSize |-> a[k]] /\ b = [k \in 1..BlockSize |-> b[k]]
  BY DEF Block
<1> QED BY <1>1

LEMMA XorLaws ==
    ASSUME NEW a \in Block, NEW b \in Block
    PROVE  /\ XorBlock(a, b) \in Block /\ XorBlock(a, b) = XorBlock(b, a)
           /\ XorBlock(XorBlock(a, b), b) = a
           /\ XorBlock(a, a) = Zero
<1>1. \A k \in 1..BlockSize : a[k] \in Byte /\ b[k] \in Byte
  BY DEF Block
<1>2. XorBlock(a, b) \in Block
  BY BlockFacts
<1>3. \A k \in 1..BlockSize : XorBlock(a, b)[k] = XorBlock(b, a)[k]
  BY <1>1, CipherAssumption DEF XorBlock
<1>4. XorBlock(a, b) = XorBlock(b, a)
  BY <1>1, CipherAssumption DEF XorBlock
<1>5. \A k \in 1..BlockSize : XorBlock(XorBlock(a, b), b)[k] = a[k]
  BY <1>1, CipherAssumption DEF XorBlock
<1>6. XorBlock(XorBlock(a, b), b) \in Block
  BY <1>2, BlockFacts
<1>7. XorBlock(XorBlock(a, b), b) = a
  BY <1>5, <1>6, SameBlock
<1>8. XorBlock(a, a) = Zero
  BY <1>1, CipherAssumption DEF XorBlock, Zero
<1> QED BY <1>2, <1>4, <1>7, <1>8

LEMMA XorCancels ==
    ASSUME NEW a \in Block, NEW b \in Block, NEW c \in Block,
           XorBlock(a, c) = XorBlock(b, c)
    PROVE  a = b
<1>1. XorBlock(XorBlock(a, c), c) = a /\ XorBlock(XorBlock(b, c), c) = b
  BY XorLaws
<1> QED BY <1>1

LEMMA ZeroLaws ==
    ASSUME NEW a \in Block
    PROVE  /\ XorBlock(Zero, a) = a /\ XorBlock(a, Zero) = a
           /\ GfMul(Zero, a) = Zero
<1>1. Zero = XorBlock(a, a) /\ XorBlock(XorBlock(a, a), a) = a
  BY XorLaws
<1>2. XorBlock(Zero, a) = a /\ XorBlock(a, Zero) = a
  BY <1>1, XorLaws, ByteFacts
<1>3. Zero \in Block /\ XorBlock(Zero, Zero) = Zero
  BY XorLaws, ByteFacts
<1>4. GfMul(Zero, a) = XorBlock(GfMul(Zero, a), GfMul(Zero, a))
  BY <1>3, FieldAssumption
<1>5. GfMul(Zero, a) \in Block
  BY <1>3, CipherAssumption
<1> QED BY <1>2, <1>4, <1>5, XorLaws

LEMMA EqualTags ==
    ASSUME NEW a \in Block, NEW b \in Block, TagEqual(a, b)
    PROVE  a = b
<1>1. ASSUME NEW k \in 1..BlockSize PROVE a[k] = b[k]
  <2>1. a[k] \in Byte /\ b[k] \in Byte /\ Xor(a[k], b[k]) = 0
    BY DEF Block, TagEqual
  <2>2. Xor(Xor(a[k], b[k]), b[k]) = a[k] /\ Xor(Xor(b[k], b[k]), b[k]) = b[k] /\ Xor(b[k], b[k]) = 0
    BY <2>1, CipherAssumption
  <2> QED BY <2>1, <2>2
<1> QED BY <1>1, SameBlock

-----------------------------------------------------------------------------
(***************************************************************************)
(* The two recursive functions are the ones their equations describe.      *)
(***************************************************************************)
LEMMA PowerFacts ==
    /\ HPower \in [Nat -> Block] /\ HPower[0] = H
    /\ \A n \in Nat : HPower[n + 1] = GfMul(HPower[n], H)
<1> DEFINE g == [n \in Nat |-> [b \in Block |-> GfMul(b, H)]]
<1>1. g \in [Nat -> [Block -> Block]]
  BY BlockFacts, CipherAssumption
<1>2. PICK f : Iterates(f, Block, H, g)
  <2>1. H \in Block
    BY BlockFacts
  <2> HIDE DEF g
  <2> QED BY <1>1, <2>1, Recursion
<1>3. ASSUME NEW n \in Nat PROVE f[n + 1] = GfMul(f[n], H)
  BY <1>2 DEF Iterates
<1>4. f = [n \in Nat |-> IF n = 0 THEN H ELSE GfMul(f[n - 1], H)]
  <2>1. ASSUME NEW n \in Nat PROVE f[n] = IF n = 0 THEN H ELSE GfMul(f[n - 1], H)
    <3>1. CASE n = 0
      BY <1>2, <3>1 DEF Iterates
    <3>2. CASE n # 0
      <4>1. n - 1 \in Nat /\ (n - 1) + 1 = n
        BY <3>2
      <4> QED BY <1>3, <3>2, <4>1
    <3> QED BY <3>1, <3>2
  <2> QED BY <1>2, <2>1 DEF Iterates
<1>5. HPower = [n \in Nat |-> IF n = 0 THEN H ELSE GfMul(HPower[n - 1], H)]
  BY <1>4, Zenon DEF HPower
<1>6. HPower[0] = H /\ \A n \in Nat : HPower[n + 1] = GfMul(HPower[n], H)
  BY <1>5
<1>7. HPower \in [Nat -> Block]
  <2> DEFINE S == {n \in Nat : HPower[n] \in Block}
  <2>1. 0 \in S /\ \A n \in Nat : n \in S => n + 1 \in S
    BY <1>6, BlockFacts, CipherAssumption
  <2> HIDE DEF S
  <2>2. Nat \subseteq S
    BY <2>1, Induction
  <2> QED BY <1>5, <2>2 DEF S
<1> QED BY <1>6, <1>7

LEMMA PowersAreNotZero == H # Zero => \A n \in Nat : HPower[n] # Zero
<1> SUFFICES ASSUME H # Zero PROVE \A n \in Nat : HPower[n] # Zero
  OBVIOUS
<1> DEFINE S == {n \in Nat : HPower[n] # Zero}
<1>1. 0 \in S
  BY PowerFacts
<1>2. ASSUME NEW n \in Nat, n \in S PROVE n + 1 \in S
  <2>1. HPower[n] \in Block /\ HPower[n] # Zero /\ HPower[n + 1] = GfMul(HPower[n], H)
    BY <1>2, PowerFacts
  <2>2. HPower[n + 1] # Zero
    BY <2>1, BlockFacts, FieldAssumption
  <2> QED BY <2>2
<1> HIDE DEF S
<1>3. Nat \subseteq S
  BY <1>1, <1>2, Induction
<1> QED BY <1>3 DEF S

Blocks(X, m) == \A k \in 1..m : X[k] \in Block

LEMMA SumFacts ==
    ASSUME NEW m \in Nat, NEW X, Blocks(X, m)
    PROVE  LET sum == PartialSums(X, m)
           IN  /\ sum[0] = Zero
               /\ \A k \in 0..m : sum[k] \in Block
               /\ \A k \in 0..m-1 : sum[k + 1] = XorBlock(sum[k], GfMul(X[k + 1], HPower[m - (k + 1)]))
<1> DEFINE Term(k) == GfMul(X[k], HPower[m - k])
           g == [n \in Nat |-> [b \in Block |-> IF n + 1 <= m THEN XorBlock(b, Term(n + 1)) ELSE b]]
           sum == PartialSums(X, m)
<1>0. ASSUME NEW k \in 1..m PROVE Term(k) \in Block
  <2>1. m - k \in Nat /\ X[k] \in Block
    BY DEF Blocks
  <2> QED BY <2>1, PowerFacts, CipherAssumption
<1>1. g \in [Nat -> [Block -> Block]]
  <2>1. ASSUME NEW n \in Nat, NEW b \in Block
        PROVE  (IF n + 1 <= m THEN XorBlock(b, Term(n + 1)) ELSE b) \in Block
    <3> HIDE DEF Term
    <3>1. CASE n + 1 <= m
      BY <1>0, <3>1, BlockFacts
    <3> QED BY <3>1
  <2> HIDE DEF Term
  <2> QED BY <2>1
<1>2. PICK f : Iterates(f, Block, Zero, g)
  <2> HIDE DEF g
  <2> QED BY <1>1, ByteFacts, Recursion
<1>3. /\ f \in [Nat -> Block] /\ f[0] = Zero
      /\ \A n \in Nat : n + 1 <= m => f[n + 1] = XorBlock(f[n], Term(n + 1))
  <2> HIDE DEF Term
  <2> QED BY <1>2 DEF Iterates
<1> DEFINE h == [k \in 0..m |-> f[k]]
<1>4. h = [k \in 0..m |-> IF k = 0 THEN Zero ELSE XorBlock(h[k - 1], Term(k))]
  <2> HIDE DEF Term
  <2>1. ASSUME NEW k \in 0..m PROVE h[k] = IF k = 0 THEN Zero ELSE XorBlock(h[k - 1], Term(k))
    <3>1. CASE k = 0
      BY <1>3, <3>1
    <3>2. CASE k # 0
      <4>1. k - 1 \in Nat /\ (k - 1) + 1 = k /\ k - 1 \in 0..m /\ k <= m
        BY <3>2
      <4>2. f[k] = XorBlock(f[k - 1], Term(k))
        BY <1>3, <4>1
      <4> QED BY <3>2, <4>1, <4>2
    <3> QED BY <3>1, <3>2
  <2> QED BY <2>1
<1>5. sum = [k \in 0..m |-> IF k = 0 THEN Zero ELSE XorBlock(sum[k - 1], Term(k))]
  <2> HIDE DEF h
  <2> QED BY <1>4, Zenon DEF PartialSums
<1>6. sum[0] = Zero
  <2> HIDE DEF sum, Term
  <2> QED BY <1>5
<1>7. ASSUME NEW k \in 0..m-1 PROVE sum[k + 1] = XorBlock(sum[k], Term(k + 1))
  <2>1. k + 1 \in 0..m /\ k + 1 # 0 /\ (k + 1) - 1 = k
    OBVIOUS
  <2> HIDE DEF sum, Term
  <2> QED BY <1>5, <2>1
<1>8. ASSUME NEW k \in 0..m PROVE sum[k] \in Block
  <2> DEFINE S == {n \in Nat : n <= m => sum[n] \in Block}
  <2>1. 0 \in S
    BY <1>6, ByteFacts
  <2>2. ASSUME NEW n \in Nat, n \in S PROVE n + 1 \in S
    <3> SUFFICES ASSUME n + 1 <= m PROVE sum[n + 1] \in Block
      OBVIOUS
    <3>1. n \in 0..m-1 /\ n + 1 \in 1..m /\ sum[n] \in Block
      BY <2>2
    <3>2. sum[n + 1] = XorBlock(sum[n], Term(n + 1)) /\ Term(n + 1) \in Block
      BY <1>0, <1>7, <3>1
    <3> HIDE DEF sum, Term
    <3> QED BY <3>1, <3>2, BlockFacts
  <2> HIDE DEF S
  <2>3. Nat \subseteq S
    BY <2>1, <2>2, Induction
  <2> HIDE DEF sum
  <2> QED BY <2>3 DEF S
<1> QED BY <1>6, <1>7, <1>8

(***************************************************************************)
(* ghash_update() evaluates the polynomial by Horner's rule.               *)
(***************************************************************************)
PolyAt(X, m) == PartialSums(X, m)[m]

LEMMA EmptyPoly == ASSUME NEW X PROVE PolyAt(X, 0) = Zero
<1>1. Blocks(X, 0)
  BY DEF Blocks
<1> QED BY <1>1, SumFacts DEF PolyAt

LEMMA PolyType ==
    ASSUME NEW m \in Nat, NEW X, Blocks(X, m)
    PROVE  PolyAt(X, m) \in Block
<1>1. m \in 0..m
  OBVIOUS
<1> QED BY <1>1, SumFacts DEF PolyAt

LEMMA HornerStep ==
    ASSUME NEW m \in Nat, NEW X, Blocks(X, m + 1)
    PROVE  PolyAt(X, m + 1) = GfMul(XorBlock(PolyAt(X, m), X[m + 1]), H)
<1> DEFINE s == PartialSums(X, m)
           t == PartialSums(X, m + 1)
<1>1. Blocks(X, m) /\ m + 1 \in Nat /\ X[m + 1] \in Block /\ H \in Block
  BY BlockFacts DEF Blocks
<1>2. /\ s[0] = Zero /\ \A k \in 0..m : s[k] \in Block
      /\ \A k \in 0..m-1 : s[k + 1] = XorBlock(s[k], GfMul(X[k + 1], HPower[m - (k + 1)]))
  BY <1>1, SumFacts
<1>3. /\ t[0] = Zero
      /\ \A k \in 0..(m+1)-1 : t[k + 1] = XorBlock(t[k], GfMul(X[k + 1], HPower[(m + 1) - (k + 1)]))
  BY <1>1, SumFacts
<1> HIDE DEF s, t
<1> DEFINE S == {k \in Nat : k <= m => t[k] = GfMul(s[k], H)}
<1>4. 0 \in S
  BY <1>1, <1>2, <1>3, ZeroLaws
<1>5. ASSUME NEW k \in Nat, k \in S PROVE k + 1 \in S
  <2> SUFFICES ASSUME k + 1 <= m PROVE t[k + 1] = GfMul(s[k + 1], H)
    OBVIOUS
  <2> DEFINE p == HPower[m - (k + 1)]
             x == X[k + 1]
  <2>1. k \in 0..m-1 /\ k \in 0..(m+1)-1 /\ k \in 0..m /\ t[k] = GfMul(s[k], H)
    BY <1>5
  <2>2. p \in Block /\ HPower[(m + 1) - (k + 1)] = GfMul(p, H)
    <3>1. m - (k + 1) \in Nat /\ (m + 1) - (k + 1) = (m - (k + 1)) + 1
      OBVIOUS
    <3> QED BY <3>1, PowerFacts
  <2>3. x \in Block
    BY DEF Blocks
  <2>4. s[k + 1] = XorBlock(s[k], GfMul(x, p)) /\ t[k + 1] = XorBlock(t[k], GfMul(x, GfMul(p, H)))
    BY <1>2, <1>3, <2>1, <2>2
  <2> HIDE DEF p, x
  <2>5. s[k] \in Block /\ GfMul(x, p) \in Block
    BY <1>2, <2>1, <2>2, <2>3, CipherAssumption
  <2>6. GfMul(x, GfMul(p, H)) = GfMul(GfMul(x, p), H)
    BY <1>1, <2>2, <2>3, FieldAssumption
  <2>7. GfMul(XorBlock(s[k], GfMul(x, p)), H) = XorBlock(GfMul(s[k], H), GfMul(GfMul(x, p), H))
    BY <1>1, <2>5, FieldAssumption
  <2> QED BY <2>1, <2>4, <2>6, <2>7
<1> HIDE DEF S
<1>6. Nat \subseteq S
  BY <1>4, <1>5, Induction
<1>7. t[m] = GfMul(s[m], H)
  BY <1>6 DEF S
<1>8. t[m + 1] = XorBlock(t[m], GfMul(X[m + 1], H))
  <2>1. m \in 0..(m+1)-1 /\ (m + 1) - (m + 1) = 0
    OBVIOUS
  <2> QED BY <1>3, <2>1, PowerFacts
<1>9. s[m] \in Block
  <2>1. m \in 0..m
    OBVIOUS
  <2> QED BY <1>2, <2>1
<1>10. GfMul(XorBlock(s[m], X[m + 1]), H) = XorBlock(GfMul(s[m], H), GfMul(X[m + 1], H))
  BY <1>1, <1>9, FieldAssumption
<1> QED BY <1>7, <1>8, <1>10 DEF PolyAt, s, t

(***************************************************************************)
(* Changing one block changes the value, unless H is zero.                 *)
(***************************************************************************)
LEMMA OneTerm ==
    ASSUME NEW m \in Nat, NEW X, NEW Y, Blocks(X, m), Blocks(Y, m), H # Zero,
           NEW j \in 1..m, X[j] # Y[j], \A k \in 1..m : k # j => X[k] = Y[k]
    PROVE  PolyAt(X, m) # PolyAt(Y, m)
<1> DEFINE s == PartialSums(X, m)
           t == PartialSums(Y, m)
           Term(Z, k) == GfMul(Z[k], HPower[m - k])
<1>1. /\ s[0] = Zero /\ \A k \in 0..m : s[k] \in Block
      /\ \A k \in 0..m-1 : s[k + 1] = XorBlock(s[k], Term(X, k + 1))
  BY SumFacts
<1>2. /\ t[0] = Zero /\ \A k \in 0..m : t[k] \in Block
      /\ \A k \in 0..m-1 : t[k + 1] = XorBlock(t[k], Term(Y, k + 1))
  BY SumFacts
<1>3. ASSUME NEW k \in 1..m
      PROVE  Term(X, k) \in Block /\ Term(Y, k) \in Block /\ (k # j => Term(X, k) = Term(Y, k))
  <2>1. m - k \in Nat /\ X[k] \in Block /\ Y[k] \in Block
    BY DEF Blocks
  <2>2. Term(X, k) \in Block /\ Term(Y, k) \in Block
    BY <2>1, PowerFacts, CipherAssumption
  <2> QED BY <2>2
<1>4. Term(X, j) # Term(Y, j)
  <2> SUFFICES ASSUME Term(X, j) = Term(Y, j) PROVE FALSE
    OBVIOUS
  <2> DEFINE p == HPower[m - j]
             a == X[j]
             b == Y[j]
  <2>1. m - j \in Nat /\ a \in Block /\ b \in Block
    BY DEF Blocks
  <2>2. p \in Block /\ p # Zero /\ GfMul(a, p) \in Block /\ GfMul(a, p) = GfMul(b, p) /\ a # b
    BY <2>1, PowerFacts, PowersAreNotZero, CipherAssumption
  <2> HIDE DEF p, a, b
  <2>3. GfMul(XorBlock(a, b), p) = Zero
    <3>1. GfMul(XorBlock(a, b), p) = XorBlock(GfMul(a, p), GfMul(b, p))
      BY <2>1, <2>2, FieldAssumption
    <3>2. XorBlock(GfMul(a, p), GfMul(a, p)) = Zero
      BY <2>2, XorLaws
    <3> QED BY <2>2, <3>1, <3>2
  <2>4. XorBlock(a, b) \in Block
    BY <2>1, BlockFacts
  <2>5. XorBlock(a, b) = Zero
    BY <2>2, <2>3, <2>4, FieldAssumption
  <2>6. XorBlock(XorBlock(a, b), b) = a /\ XorBlock(Zero, b) = b
    BY <2>1, XorLaws, ZeroLaws
  <2> QED BY <2>2, <2>5, <2>6
<1> HIDE DEF s, t, Term
<1> DEFINE S == {k \in Nat : k <= m => (s[k] = t[k] <=> k < j)}
<1>5. 0 \in S
  BY <1>1, <1>2
<1>6. ASSUME NEW k \in Nat, k \in S PROVE k + 1 \in S
  <2> SUFFICES ASSUME k + 1 <= m PROVE s[k + 1] = t[k + 1] <=> k + 1 < j
    OBVIOUS
  <2> DEFINE u == Term(X, k + 1)
             v == Term(Y, k + 1)
  <2>1. k \in 0..m-1 /\ k \in 0..m /\ k + 1 \in 1..m /\ (s[k] = t[k] <=> k < j)
    BY <1>6
  <2>2. /\ s[k] \in Block /\ t[k] \in Block /\ u \in Block /\ v \in Block
        /\ s[k + 1] = XorBlock(s[k], u) /\ t[k + 1] = XorBlock(t[k], v)
        /\ (k + 1 # j => u = v) /\ (k + 1 = j => u # v)
    BY <1>1, <1>2, <1>3, <1>4, <2>1
  <2> HIDE DEF u, v
  <2>3. CASE k + 1 < j
    BY <2>1, <2>2, <2>3
  <2>4. CASE k + 1 = j
    <3>1. s[k] = t[k]
      BY <2>1, <2>4
    <3>2. XorBlock(s[k], u) = XorBlock(u, s[k]) /\ XorBlock(s[k], v) = XorBlock(v, s[k])
      BY <2>2, XorLaws
    <3>3. XorBlock(u, s[k]) # XorBlock(v, s[k])
      BY <2>2, <2>4, XorCancels
    <3> QED BY <2>2, <2>4, <3>1, <3>2, <3>3
  <2>5. CASE k + 1 > j
    <3>1. s[k] # t[k] /\ u = v
      BY <2>1, <2>2, <2>5
    <3>2. XorBlock(s[k], u) # XorBlock(t[k], u)
      BY <2>2, <3>1, XorCancels
    <3> QED BY <2>2, <2>5, <3>1, <3>2
  <2> QED BY <2>3, <2>4, <2>5
<1> HIDE DEF S
<1>7. Nat \subseteq S
  BY <1>5, <1>6, Induction
<1>8. s[m] # t[m]
  BY <1>7 DEF S
<1> QED BY <1>8 DEF PolyAt, s, t
-----------------------------------------------------------------------------
(***************************************************************************)
(* Where the hash stands: in each of its three pieces the accumulator is   *)
(* the polynomial of the blocks before the offset.                         *)
(***************************************************************************)
Count(len) == (len + BlockSize - 1) \div BlockSize
Offset(n, len) == IF n * BlockSize <= len THEN n * BlockSize ELSE len

Hashed == GhashBlocks(call.aad, IF call.op = "encrypt" THEN SubSeq(out, 1, call.len) ELSE call.data)

Piece(X, first, len, o, acc) ==
    \E n \in 0..Count(len) : o = Offset(n, len) /\ acc = PolyAt(X, first + n)

HashAt(X, aadLen, len, phase, o, acc) ==
    /\ phase = "aad" => Piece(X, 0, aadLen, o, acc)
    /\ phase = "text" => Piece(X, Count(aadLen), len, o, acc)
    /\ phase = "len" => Piece(X, Count(aadLen) + Count(len), BlockSize, o, acc)
    /\ phase = "tag" => acc = Polynomial(X)

HashInv == HashAt(Hashed, Len(call.aad), call.len, pc, off, y)

VerifiedInv ==
    call.op = "decrypt" /\ (pc = "ctr" \/ (pc = "idle" /\ status = "OK")) =>
        call.tag = TagOf(Received)

TagInv == HashInv /\ TagIsGhash /\ VerifiedInv

LEMMA Multiples ==
    ASSUME NEW w \in Nat, w >= 1
    PROVE  /\ \A a \in Nat : a * w \in Nat /\ (a + 1) * w = a * w + w
           /\ \A a, b \in Nat : a <= b => a * w <= b * w
OBVIOUS

LEMMA CountFacts ==
    ASSUME NEW len \in Nat
    PROVE  Count(len) \in Nat /\ \A n \in Nat : n < Count(len) <=> n * BlockSize < len
<1> DEFINE w == BlockSize
           q == Count(len)
           r == (len + w - 1) % w
<1>1. w \in Nat /\ w >= 1
  BY SizeAssumption DEF BlockSize
<1>2. len + w - 1 \in Nat
  BY <1>1
<1>3. q \in Nat /\ r \in 0..w-1 /\ len + w - 1 = q * w + r
  <2> HIDE DEF w
  <2>1. (len + w - 1) \div w \in Nat /\ r \in 0..w-1
        /\ len + w - 1 = ((len + w - 1) \div w) * w + r
    BY <1>1, <1>2
  <2>2. q = (len + w - 1) \div w
    BY DEF Count, w
  <2> QED BY <2>1, <2>2
<1> HIDE DEF q, r, w
<1>4. q * w \in Nat
  BY <1>1, <1>3, Multiples
<1>5. ASSUME NEW n \in Nat PROVE n < q <=> n * w < len
  <2>1. n * w \in Nat /\ n + 1 \in Nat /\ (n + 1) * w = n * w + w
    BY <1>1, Multiples
  <2>2. CASE n < q
    <3>1. n + 1 <= q
      BY <1>3, <2>2
    <3>2. (n + 1) * w <= q * w
      BY <1>1, <1>3, <2>1, <3>1, Multiples
    <3> QED BY <1>1, <1>3, <1>4, <2>1, <2>2, <3>2
  <2>3. CASE ~(n < q)
    <3>1. q <= n
      BY <1>3, <2>3
    <3>2. q * w <= n * w
      BY <1>1, <1>3, <3>1, Multiples
    <3> QED BY <1>1, <1>3, <1>4, <2>1, <2>3, <3>2
  <2> QED BY <2>2, <2>3
<1> QED BY <1>3, <1>5 DEF q, w

(***************************************************************************)
(* One step of ghash_update() adds one block.                              *)
(***************************************************************************)
LEMMA PieceStep ==
    ASSUME NEW data, NEW len \in Nat, NEW next, Ghash(data, len, next),
           NEW X, NEW first \in Nat, Piece(X, first, len, off, y),
           Blocks(X, first + Count(len)),
           \A k \in 0..Count(len)-1 : X[first + k + 1] = PadBlock(data, k * BlockSize, len)
    PROVE  \/ pc' = pc /\ Piece(X, first, len, off', y')
           \/ pc' = next /\ off' = 0 /\ y' = PolyAt(X, first + Count(len))
<1>0. PICK n \in 0..Count(len) : off = Offset(n, len) /\ y = PolyAt(X, first + n)
  BY DEF Piece
<1> DEFINE w == BlockSize
           c == Count(len)
<1>1. w \in Nat /\ w >= 1 /\ c \in Nat /\ n \in Nat /\ n <= c
  BY CountFacts, SizeAssumption DEF BlockSize
<1>2. n * w \in Nat /\ (n + 1) * w = n * w + w
  BY <1>1, Multiples
<1>3. off = IF n * w <= len THEN n * w ELSE len
  BY <1>0 DEF Offset
<1>4. n < c <=> n * w < len
  BY <1>1, CountFacts
<1>5. CASE off < len
  <2>1. n < c /\ off = n * w
    BY <1>1, <1>2, <1>3, <1>4, <1>5
  <2>2. pc' = pc /\ off' = off + ChunkLen(off, len) /\ y' = GfMul(XorBlock(y, PadBlock(data, off, len)), H)
    BY <1>5 DEF Ghash
  <2>3. off' = Offset(n + 1, len)
    BY <1>1, <1>2, <2>1, <2>2 DEF ChunkLen, Offset
  <2>4. X[first + n + 1] = PadBlock(data, off, len)
    <3>1. n \in 0..c-1
      BY <1>1, <2>1
    <3> QED BY <2>1, <3>1
  <2>5. y' = PolyAt(X, (first + n) + 1)
    <3> DEFINE m == first + n
    <3>1. m \in Nat
      BY <1>1
    <3>2. Blocks(X, m + 1)
      BY <1>1, <2>1 DEF Blocks
    <3>3. X[m + 1] = PadBlock(data, off, len)
      BY <2>4
    <3> HIDE DEF m
    <3>4. PolyAt(X, m + 1) = GfMul(XorBlock(PolyAt(X, m), X[m + 1]), H)
      BY <3>1, <3>2, HornerStep
    <3> QED BY <1>0, <2>2, <3>3, <3>4 DEF m
  <2>6. n + 1 \in 0..c /\ (first + n) + 1 = first + (n + 1)
    BY <1>1, <2>1
  <2>7. Piece(X, first, len, off', y')
    BY <2>3, <2>5, <2>6 DEF Piece
  <2> QED BY <2>2, <2>7
<1>6. CASE ~(off < len)
  <2>1. n = c
    BY <1>1, <1>2, <1>3, <1>4, <1>6
  <2> QED BY <1>0, <1>6, <2>1 DEF Ghash
<1> QED BY <1>5, <1>6

LEMMA OneCount == Count(BlockSize) = 1
<1>1. BlockSize \in Nat /\ BlockSize >= 1
  BY SizeAssumption DEF BlockSize
<1>2. Count(BlockSize) \in Nat /\ (0 < Count(BlockSize) <=> 0 * BlockSize < BlockSize)
      /\ (1 < Count(BlockSize) <=> 1 * BlockSize < BlockSize)
  BY <1>1, CountFacts
<1> QED BY <1>1, <1>2

LEMMA BlocksOfText ==
    ASSUME NEW aad \in Seq(Byte), NEW ct \in Seq(Byte)
    PROVE  LET na == Count(Len(aad))
               nc == Count(Len(ct))
               X == GhashBlocks(aad, ct)
           IN  /\ na \in Nat /\ nc \in Nat
               /\ DOMAIN X = 1..na + nc + 1 /\ Len(X) = na + nc + 1
               /\ Blocks(X, na + nc + 1)
               /\ \A k \in 0..na-1 : X[0 + k + 1] = PadBlock(aad, k * BlockSize, Len(aad))
               /\ \A k \in 0..nc-1 : X[na + k + 1] = PadBlock(ct, k * BlockSize, Len(ct))
               /\ X[na + nc + 0 + 1] = LenBlock(Len(aad), Len(ct))
<1> DEFINE na == Count(Len(aad))
           nc == Count(Len(ct))
           X == GhashBlocks(aad, ct)
           N == na + nc + 1
<1>1. Len(aad) \in Nat /\ Len(ct) \in Nat
      /\ (\A k \in 1..Len(aad) : aad[k] \in Byte) /\ (\A k \in 1..Len(ct) : ct[k] \in Byte)
  OBVIOUS
<1>2. na \in Nat /\ nc \in Nat /\ N \in Nat
  <2>1. \A n \in Nat : Count(n) \in Nat
    BY CountFacts
  <2> QED BY <1>1, <2>1
<1>3. X = [k \in 1..N |->
            IF k <= na THEN PadBlock(aad, (k - 1) * BlockSize, Len(aad))
            ELSE IF k <= na + nc THEN PadBlock(ct, (k - na - 1) * BlockSize, Len(ct))
            ELSE LenBlock(Len(aad), Len(ct))]
  BY DEF GhashBlocks, Count
<1> HIDE DEF na, nc, X
<1>4. \A k \in Nat : k * BlockSize \in Nat
  BY ByteFacts
<1>5. ASSUME NEW k \in 0..na-1 PROVE X[0 + k + 1] = PadBlock(aad, k * BlockSize, Len(aad))
  <2>1. 0 + k + 1 \in 1..N /\ 0 + k + 1 <= na /\ (0 + k + 1) - 1 = k
    BY <1>2
  <2> QED BY <1>3, <2>1
<1>6. ASSUME NEW k \in 0..nc-1 PROVE X[na + k + 1] = PadBlock(ct, k * BlockSize, Len(ct))
  <2>1. /\ na + k + 1 \in 1..N /\ ~(na + k + 1 <= na) /\ na + k + 1 <= na + nc
        /\ (na + k + 1) - na - 1 = k
    BY <1>2
  <2> QED BY <1>3, <2>1
<1>7. X[na + nc + 0 + 1] = LenBlock(Len(aad), Len(ct))
  <2>1. /\ na + nc + 0 + 1 \in 1..N /\ ~(na + nc + 0 + 1 <= na) /\ ~(na + nc + 0 + 1 <= na + nc)
    BY <1>2
  <2> QED BY <1>3, <2>1
<1>8. ASSUME NEW k \in 1..N PROVE X[k] \in Block
  <2>1. CASE k <= na
    <3>1. (k - 1) * BlockSize \in Nat
      <4>1. k - 1 \in Nat
        OBVIOUS
      <4> QED BY <1>4, <4>1
    <3>2. PadBlock(aad, (k - 1) * BlockSize, Len(aad)) \in Block
      BY <1>1, <3>1, PadType
    <3> QED BY <1>3, <2>1, <3>2
  <2>2. CASE ~(k <= na) /\ k <= na + nc
    <3>1. (k - na - 1) * BlockSize \in Nat
      <4>1. k - na - 1 \in Nat
        BY <1>2, <2>2
      <4> QED BY <1>4, <4>1
    <3>2. PadBlock(ct, (k - na - 1) * BlockSize, Len(ct)) \in Block
      BY <1>1, <3>1, PadType
    <3> QED BY <1>3, <2>2, <3>2
  <2>3. CASE ~(k <= na) /\ ~(k <= na + nc)
    <3>1. LenBlock(Len(aad), Len(ct)) \in Block
      BY <1>1, BlockFacts
    <3> QED BY <1>3, <2>3, <3>1
  <2> QED BY <2>1, <2>2, <2>3
<1>9. DOMAIN X = 1..N /\ Len(X) = N
  BY <1>2, <1>3
<1> QED BY <1>2, <1>5, <1>6, <1>7, <1>8, <1>9 DEF Blocks, na, nc, X

LEMMA SamePad ==
    ASSUME NEW s, NEW t, NEW len \in Nat, \A k \in 1..len : s[k] = t[k], NEW o \in Nat
    PROVE  PadBlock(s, o, len) = PadBlock(t, o, len)
BY ByteFacts DEF PadBlock

(***************************************************************************)
(* What is being hashed, in every phase of the hash.                       *)
(***************************************************************************)
LEMMA HashedFacts ==
    ASSUME IInv, RoundInv, pc \in Hashing
    PROVE  LET na == Count(Len(call.aad))
               nc == Count(call.len)
               text == IF call.op = "encrypt" THEN out ELSE in
               lens == LenBlock(Len(call.aad), call.len)
           IN  /\ Len(call.aad) \in Nat /\ call.len \in Nat
               /\ na \in Nat /\ nc \in Nat
               /\ Len(Hashed) = na + nc + 1
               /\ Blocks(Hashed, na + nc + 1)
               /\ \A k \in 0..na-1 : Hashed[0 + k + 1] = PadBlock(call.aad, k * BlockSize, Len(call.aad))
               /\ \A k \in 0..nc-1 : Hashed[na + k + 1] = PadBlock(text, k * BlockSize, call.len)
               /\ Hashed[na + nc + 0 + 1] = PadBlock(lens, 0 * BlockSize, BlockSize)
<1> DEFINE text == IF call.op = "encrypt" THEN out ELSE in
           ct == IF call.op = "encrypt" THEN SubSeq(out, 1, call.len) ELSE call.data
           lens == LenBlock(Len(call.aad), call.len)
<1>1. /\ call.aad \in Seq(Byte) /\ Len(call.aad) \in Nat /\ call.len \in Nat
      /\ call.data \in Seq(Byte) /\ Len(call.data) = call.len
      /\ call.op \in {"none", "encrypt", "decrypt"} /\ out \in Buffer /\ Len(out) = call.cap
      /\ pc # "idle" /\ pc # "ctr"
  <2>1. /\ call.aad \in Seq(Byte) /\ call.len = Len(call.data) /\ call.data \in Seq(Byte)
        /\ call.op \in {"none", "encrypt", "decrypt"} /\ out \in Buffer /\ Len(out) = call.cap
    BY DEF IInv, TypeOK
  <2>2. Len(call.aad) \in Nat /\ Len(call.data) \in Nat
    BY <2>1
  <2> QED BY <2>1, <2>2 DEF Hashing
<1>2. call.op \in {"encrypt", "decrypt"} /\ call.len <= Len(out)
  BY <1>1 DEF IInv, BufferInv
<1>3. ct \in Seq(Byte) /\ Len(ct) = call.len /\ \A k \in 1..call.len : text[k] = ct[k]
  <2>1. CASE call.op = "encrypt"
    <3>1. \A k \in 1..call.len : out[k] \in Byte
      BY <1>1, <2>1 DEF IInv, BufferInv
    <3>2. ASSUME NEW s \in Buffer, NEW n \in Nat, n <= Len(s), \A k \in 1..n : s[k] \in Byte
          PROVE  /\ SubSeq(s, 1, n) \in Seq(Byte) /\ Len(SubSeq(s, 1, n)) = n
                 /\ \A k \in 1..n : SubSeq(s, 1, n)[k] = s[k]
      <4>1. SubSeq(s, 1, n) = [k \in 1..n |-> s[k]]
        BY <3>2 DEF Buffer
      <4> QED BY <3>2, <4>1
    <3> QED BY <1>1, <1>2, <2>1, <3>1, <3>2
  <2>2. CASE call.op = "decrypt"
    <3>1. \A k \in 1..call.len : in[k] = call.data[k]
      BY <2>2 DEF RoundInv, DecryptInv
    <3> QED BY <1>1, <2>2, <3>1
  <2> QED BY <1>2, <2>1, <2>2
<1>4. Hashed = GhashBlocks(call.aad, ct)
  BY DEF Hashed
<1> HIDE DEF ct, text
<1>5. /\ Count(Len(call.aad)) \in Nat /\ Count(call.len) \in Nat
      /\ Len(Hashed) = Count(Len(call.aad)) + Count(call.len) + 1
      /\ Blocks(Hashed, Count(Len(call.aad)) + Count(call.len) + 1)
      /\ \A k \in 0..Count(Len(call.aad))-1 :
            Hashed[0 + k + 1] = PadBlock(call.aad, k * BlockSize, Len(call.aad))
      /\ \A k \in 0..Count(call.len)-1 :
            Hashed[Count(Len(call.aad)) + k + 1] = PadBlock(ct, k * BlockSize, call.len)
      /\ Hashed[Count(Len(call.aad)) + Count(call.len) + 0 + 1] = lens
  <2>1. call.aad \in Seq(Byte)
    BY <1>1
  <2>2. ct \in Seq(Byte) /\ Len(ct) = call.len
    BY <1>3
  <2> HIDE DEF lens
  <2>3. /\ Count(Len(call.aad)) \in Nat /\ Count(Len(ct)) \in Nat
        /\ Len(GhashBlocks(call.aad, ct)) = Count(Len(call.aad)) + Count(Len(ct)) + 1
        /\ Blocks(GhashBlocks(call.aad, ct), Count(Len(call.aad)) + Count(Len(ct)) + 1)
        /\ \A k \in 0..Count(Len(call.aad))-1 :
              GhashBlocks(call.aad, ct)[0 + k + 1] = PadBlock(call.aad, k * BlockSize, Len(call.aad))
        /\ \A k \in 0..Count(Len(ct))-1 :
              GhashBlocks(call.aad, ct)[Count(Len(call.aad)) + k + 1] = PadBlock(ct, k * BlockSize, Len(ct))
        /\ GhashBlocks(call.aad, ct)[Count(Len(call.aad)) + Count(Len(ct)) + 0 + 1]
              = LenBlock(Len(call.aad), Len(ct))
    BY <2>1, <2>2, BlocksOfText
  <2> QED BY <1>4, <2>2, <2>3 DEF lens
<1>6. ASSUME NEW k \in Nat PROVE PadBlock(ct, k * BlockSize, call.len) = PadBlock(text, k * BlockSize, call.len)
  <2>1. k * BlockSize \in Nat
    BY ByteFacts
  <2>2. call.len \in Nat /\ \A j \in 1..call.len : ct[j] = text[j]
    BY <1>1, <1>3
  <2> HIDE DEF PadBlock
  <2> QED BY <2>1, <2>2, SamePad
<1>7. lens = PadBlock(lens, 0 * BlockSize, BlockSize)
  <2>1. lens \in Block
    BY <1>1, BlockFacts
  <2>2. \A s \in Block : PadBlock(s, 0 * BlockSize, BlockSize) = s
    <3> SUFFICES ASSUME NEW s \in Block PROVE PadBlock(s, 0 * BlockSize, BlockSize) = s
      OBVIOUS
    <3>1. \A k \in 1..BlockSize : 0 * BlockSize + k = k /\ k <= BlockSize
      BY ByteFacts
    <3>2. s = [k \in 1..BlockSize |-> s[k]]
      BY DEF Block
    <3> QED BY <3>1, <3>2 DEF PadBlock
  <2> HIDE DEF lens
  <2> QED BY <2>1, <2>2
<1>8. \A k \in 0..Count(call.len)-1 :
            Hashed[Count(Len(call.aad)) + k + 1] = PadBlock(text, k * BlockSize, call.len)
  <2>1. \A k \in 0..Count(call.len)-1 : k \in Nat
    BY <1>5
  <2> QED BY <1>5, <1>6, <2>1
<1> QED BY <1>1, <1>5, <1>7, <1>8 DEF text

LEMMA PieceStarts ==
    ASSUME NEW X, NEW first \in Nat, NEW len \in Nat
    PROVE  Piece(X, first, len, 0, PolyAt(X, first))
<1>1. 0 \in 0..Count(len) /\ first + 0 = first
  <2>1. Count(len) \in Nat
    BY CountFacts
  <2> QED BY <2>1
<1>2. Offset(0, len) = 0
  <2>1. 0 * BlockSize = 0 /\ 0 <= len
    BY ByteFacts
  <2> QED BY <2>1 DEF Offset
<1> QED BY <1>1, <1>2 DEF Piece

LEMMA GhashKeepsTag ==
    ASSUME IInv, RoundInv, TagInv, GhashAad \/ GhashText \/ GhashLen
    PROVE  TagInv'
<1> DEFINE na == Count(Len(call.aad))
           nc == Count(call.len)
           text == IF call.op = "encrypt" THEN out ELSE in
           lens == LenBlock(Len(call.aad), call.len)
<1>1. pc \in Hashing /\ pc' \in Hashing /\ UNCHANGED <<call, in, out, counter, status, sealed, used>>
  BY GhashIsNext
<1>2. Hashed' = Hashed
  BY <1>1 DEF Hashed
<1>3. /\ Len(call.aad) \in Nat /\ call.len \in Nat /\ na \in Nat /\ nc \in Nat
      /\ Len(Hashed) = na + nc + 1 /\ Blocks(Hashed, na + nc + 1)
      /\ \A k \in 0..na-1 : Hashed[0 + k + 1] = PadBlock(call.aad, k * BlockSize, Len(call.aad))
      /\ \A k \in 0..nc-1 : Hashed[na + k + 1] = PadBlock(text, k * BlockSize, call.len)
      /\ Hashed[na + nc + 0 + 1] = PadBlock(lens, 0 * BlockSize, BlockSize)
  BY <1>1, HashedFacts
<1> HIDE DEF na, nc, text, lens
<1>4. BlockSize \in Nat /\ Count(BlockSize) = 1
  BY ByteFacts, OneCount
<1>5. HashAt(Hashed, Len(call.aad), call.len, pc', off', y')
  <2>1. CASE GhashAad
    <3>1. pc = "aad" /\ Ghash(call.aad, Len(call.aad), "text")
      BY <2>1 DEF GhashAad
    <3>2. Piece(Hashed, 0, Len(call.aad), off, y)
      BY <3>1 DEF TagInv, HashInv, HashAt
    <3>3. Blocks(Hashed, 0 + na)
      BY <1>3 DEF Blocks
    <3>4. \/ pc' = pc /\ Piece(Hashed, 0, Len(call.aad), off', y')
          \/ pc' = "text" /\ off' = 0 /\ y' = PolyAt(Hashed, 0 + na)
      BY <1>3, <3>1, <3>2, <3>3, PieceStep DEF na
    <3>5. 0 + na = na /\ Piece(Hashed, na, call.len, 0, PolyAt(Hashed, na))
      BY <1>3, PieceStarts
    <3> QED BY <3>1, <3>4, <3>5 DEF HashAt, na
  <2>2. CASE GhashText
    <3>1. pc = "text" /\ Ghash(text, call.len, "len")
      BY <2>2 DEF GhashText, text
    <3>2. Piece(Hashed, na, call.len, off, y)
      BY <3>1 DEF TagInv, HashInv, HashAt, na
    <3>3. Blocks(Hashed, na + nc)
      BY <1>3 DEF Blocks
    <3>4. \/ pc' = pc /\ Piece(Hashed, na, call.len, off', y')
          \/ pc' = "len" /\ off' = 0 /\ y' = PolyAt(Hashed, na + nc)
      BY <1>3, <3>1, <3>2, <3>3, PieceStep DEF nc
    <3>5. Piece(Hashed, na + nc, BlockSize, 0, PolyAt(Hashed, na + nc))
      BY <1>3, <1>4, PieceStarts
    <3> QED BY <3>1, <3>4, <3>5 DEF HashAt, na, nc
  <2>3. CASE GhashLen
    <3>1. pc = "len" /\ Ghash(lens, BlockSize, "tag")
      BY <2>3 DEF GhashLen, lens
    <3>2. Piece(Hashed, na + nc, BlockSize, off, y)
      BY <3>1 DEF TagInv, HashInv, HashAt, na, nc
    <3>3. Blocks(Hashed, (na + nc) + Count(BlockSize)) /\ na + nc \in Nat
      BY <1>3, <1>4
    <3>4. \A k \in 0..Count(BlockSize)-1 :
              Hashed[(na + nc) + k + 1] = PadBlock(lens, k * BlockSize, BlockSize)
      <4>1. \A k \in 0..Count(BlockSize)-1 : k = 0
        BY <1>4
      <4> QED BY <1>3, <4>1
    <3>5. \/ pc' = pc /\ Piece(Hashed, na + nc, BlockSize, off', y')
          \/ pc' = "tag" /\ off' = 0 /\ y' = PolyAt(Hashed, (na + nc) + Count(BlockSize))
      BY <1>4, <3>1, <3>2, <3>3, <3>4, PieceStep
    <3>6. PolyAt(Hashed, (na + nc) + Count(BlockSize)) = Polynomial(Hashed)
      BY <1>3, <1>4 DEF Polynomial, PolyAt
    <3> QED BY <3>1, <3>5, <3>6 DEF HashAt, na, nc
  <2> QED BY <2>1, <2>2, <2>3
<1>6. HashInv'
  BY <1>1, <1>2, <1>5 DEF HashInv
<1> QED BY <1>1, <1>6 DEF TagInv, TagIsGhash, VerifiedInv, Hashing

LEMMA CallKeepsTag ==
    ASSUME IInv, TagInv,
           \/ \E pt \in Plaintexts, nonce \in Nonces, aad \in Aads :
                \E buf \in Buffers(Len(pt)) : CallEncrypt(pt, nonce, aad, buf)
           \/ \E m \in Copies(sealed) : \E buf \in Buffers(Len(m.ct)) : CallDecrypt(m, buf)
    PROVE  TagInv'
<1>1. ASSUME NEW op, NEW m, NEW data, NEW buf, NEW start, Enter(op, m, data, buf, start)
      PROVE  /\ call'.op = op /\ call'.aad = m.aad /\ sealed' = sealed /\ off' = 0 /\ y' = Zero
             /\ status' # "OK" /\ (pc' = start \/ pc' = "idle")
  BY <1>1 DEF Enter, ArgumentError
<1>2. CASE \E pt \in Plaintexts, nonce \in Nonces, aad \in Aads :
              \E buf \in Buffers(Len(pt)) : CallEncrypt(pt, nonce, aad, buf)
  <2>1. call'.op = "encrypt" /\ sealed' = sealed /\ (pc' = "ctr" \/ pc' = "idle")
    BY <1>1, <1>2 DEF CallEncrypt
  <2> QED BY <2>1 DEF TagInv, HashInv, HashAt, TagIsGhash, VerifiedInv
<1>3. CASE \E m \in Copies(sealed) : \E buf \in Buffers(Len(m.ct)) : CallDecrypt(m, buf)
  <2>1. PICK m \in Copies(sealed) : \E buf \in Buffers(Len(m.ct)) : CallDecrypt(m, buf)
    BY <1>3
  <2>2. m.aad \in Seq(Byte)
    <3>1. sealed \in Message
      BY <2>1 DEF CallDecrypt, IInv, TypeOK
    <3> QED BY <2>1, <3>1, CopiesType DEF Message
  <2>3. /\ call'.op = "decrypt" /\ call'.aad = m.aad /\ sealed' = sealed /\ off' = 0 /\ y' = Zero
        /\ status' # "OK" /\ (pc' = "aad" \/ pc' = "idle")
    BY <1>1, <2>1 DEF CallDecrypt
  <2>4. y' = PolyAt(Hashed', 0)
    BY <2>3, EmptyPoly
  <2>5. Piece(Hashed', 0, Len(call'.aad), off', y')
    <3>1. Len(call'.aad) \in Nat
      BY <2>2, <2>3
    <3> QED BY <2>3, <2>4, <3>1, PieceStarts
  <2>6. HashInv'
    BY <2>3, <2>5 DEF HashInv, HashAt
  <2> QED BY <2>3, <2>6 DEF TagInv, TagIsGhash, VerifiedInv
<1> QED BY <1>2, <1>3
(***************************************************************************)
(* At the end of the hash the tag is the one the standard defines.         *)
(***************************************************************************)
LEMMA ComputedIsTagOf ==
    ASSUME TagInv, pc = "tag",
           NEW m, m.aad = call.aad, m.nonce = call.nonce,
           m.ct = IF call.op = "encrypt" THEN SubSeq(out, 1, call.len) ELSE call.data
    PROVE  ComputedTag = TagOf(m)
BY DEF TagInv, HashInv, HashAt, Hashed, ComputedTag, TagOf

LEMMA SealKeepsTag == ASSUME TagInv, Seal PROVE TagInv'
<1>1. /\ pc = "tag" /\ call.op = "encrypt" /\ pc' = "idle" /\ call' = call
      /\ sealed' = [ct |-> SubSeq(out, 1, call.len), aad |-> call.aad, nonce |-> call.nonce,
                    tag |-> ComputedTag, pt |-> call.data]
  BY DEF Seal, Return
<1>2. ComputedTag = TagOf(sealed')
  <2>1. /\ sealed'.aad = call.aad /\ sealed'.nonce = call.nonce
        /\ sealed'.ct = SubSeq(out, 1, call.len)
    BY <1>1
  <2> QED BY <1>1, <2>1, ComputedIsTagOf
<1>3. TagIsGhash'
  BY <1>1, <1>2 DEF TagIsGhash
<1> QED BY <1>1, <1>3 DEF TagInv, HashInv, HashAt, VerifiedInv

LEMMA VerifyKeepsTag == ASSUME IInv, TagInv, Verify PROVE TagInv'
<1>1. pc = "tag" /\ call.op = "decrypt" /\ UNCHANGED <<call, sealed>>
  BY DEF Verify
<1>2. Received' = Received /\ TagIsGhash'
  BY <1>1 DEF Received, TagInv, TagIsGhash
<1>3. CASE TagEqual(ComputedTag, call.tag)
  <2>1. pc' = "ctr"
    BY <1>3 DEF Verify
  <2>2. y \in Block /\ call.tag \in Block /\ call.nonce \in Nonce
    BY <1>1 DEF IInv, TypeOK
  <2>3. ComputedTag \in Block
    <3>1. E[J0(call.nonce)] \in Block
      BY <2>2, BlockFacts, CipherAssumption
    <3> QED BY <2>2, <3>1, BlockFacts DEF ComputedTag
  <2>4. call.tag = ComputedTag
    BY <1>3, <2>2, <2>3, EqualTags
  <2>5. ComputedTag = TagOf(Received)
    <3>1. Received.aad = call.aad /\ Received.nonce = call.nonce /\ Received.ct = call.data
      BY DEF Received
    <3> QED BY <1>1, <3>1, ComputedIsTagOf
  <2>6. VerifiedInv'
    BY <1>1, <1>2, <2>4, <2>5 DEF VerifiedInv
  <2> QED BY <1>2, <2>1, <2>6 DEF TagInv, HashInv, HashAt
<1>4. CASE ~TagEqual(ComputedTag, call.tag)
  <2>1. pc' = "idle" /\ status' = "AUTH_FAILED"
    BY <1>4 DEF Verify, Return
  <2> QED BY <1>2, <2>1 DEF TagInv, HashInv, HashAt, VerifiedInv
<1> QED BY <1>3, <1>4

LEMMA CtrKeepsTag == ASSUME IInv, RoundInv, TagInv, CtrBlock \/ CtrDone PROVE TagInv'
<1>1. CASE CtrBlock
  <2>1. pc = "ctr" /\ UNCHANGED <<pc, call, sealed, status>>
    BY <1>1 DEF CtrBlock
  <2> QED BY <2>1 DEF TagInv, HashInv, HashAt, TagIsGhash, VerifiedInv, Received
<1>2. CASE CtrDone
  <2>1. /\ pc = "ctr" /\ off' = 0 /\ UNCHANGED <<call, out, y, sealed>>
        /\ IF call.op = "encrypt" THEN pc' = "aad" ELSE pc' = "idle"
    BY <1>2 DEF CtrDone, Return
  <2>2. TagIsGhash' /\ VerifiedInv'
    BY <2>1 DEF TagInv, TagIsGhash, VerifiedInv, Received
  <2>3. CASE call.op = "encrypt"
    <3>1. y = Zero
      BY <2>1, <2>3 DEF RoundInv, EncryptInv
    <3>2. y' = PolyAt(Hashed', 0)
      BY <2>1, <3>1, EmptyPoly
    <3>3. Len(call.aad) \in Nat
      <4>1. call.aad \in Seq(Byte)
        BY DEF IInv, TypeOK
      <4> QED BY <4>1
    <3>4. Piece(Hashed', 0, Len(call.aad), off', y')
      BY <2>1, <3>2, <3>3, PieceStarts
    <3>5. HashInv'
      BY <2>1, <2>3, <3>4 DEF HashInv, HashAt
    <3> QED BY <2>2, <3>5 DEF TagInv
  <2>4. CASE call.op # "encrypt"
    BY <2>1, <2>2, <2>4 DEF TagInv, HashInv, HashAt
  <2> QED BY <2>3, <2>4
<1> QED BY <1>1, <1>2

LEMMA TagInit == Init => TagInv
BY DEF Init, TagInv, HashInv, HashAt, TagIsGhash, VerifiedInv

LEMMA TagNext == IInv /\ RoundInv /\ TagInv /\ [Next]_vars => TagInv'
<1>1. TagInv /\ UNCHANGED vars => TagInv'
  BY DEF vars, TagInv, HashInv, Hashed, TagIsGhash, VerifiedInv, Received
<1> QED BY <1>1, CallKeepsTag, CtrKeepsTag, GhashKeepsTag, SealKeepsTag, VerifyKeepsTag DEF Next

LEMMA TagInductive == Spec => [](IInv /\ RoundInv /\ TagInv)
BY InvInit, InvNext, RoundInit, RoundNext, TagInit, TagNext, PTL DEF Spec

(***************************************************************************)
(* gcm_compute_tag() computes the GHASH of the standard: block by block    *)
(* with Horner's rule, over the buffer just written, it comes to the sum   *)
(* of X[i] * H^(m+1-i).                                                    *)
(***************************************************************************)
THEOREM SealedTag == Spec => []TagIsGhash
<1>1. TagInv => TagIsGhash
  BY DEF TagInv
<1> QED BY <1>1, TagInductive, PTL

(***************************************************************************)
(* mako_gcm_decrypt() writes to the output buffer only once the tag it was *)
(* given is the tag of what it was given, or to wipe it.                   *)
(***************************************************************************)
THEOREM NothingUnverified == Spec => ReleaseOnlyVerified
<1> DEFINE Released == call.op = "decrypt" /\ pc # "idle" /\ out' # out
                         => call.tag = TagOf(Received) \/ out' = [k \in DOMAIN out |-> 0]
<1>1. IInv /\ RoundInv /\ TagInv /\ [Next]_vars => Released \/ UNCHANGED vars
  <2> SUFFICES ASSUME IInv, TagInv, Next, call.op = "decrypt", pc # "idle", out' # out
               PROVE  call.tag = TagOf(Received) \/ out' = [k \in DOMAIN out |-> 0]
    OBVIOUS
  <2>1. CtrBlock \/ Verify
    <3>1. ASSUME NEW pt, NEW nonce, NEW aad, NEW buf, CallEncrypt(pt, nonce, aad, buf) PROVE FALSE
      BY <3>1 DEF CallEncrypt, Enter
    <3>2. ASSUME NEW m, NEW buf, CallDecrypt(m, buf) PROVE FALSE
      BY <3>2 DEF CallDecrypt, Enter
    <3>3. ~CtrDone /\ ~Seal
      BY DEF CtrDone, Seal
    <3>4. ~(GhashAad \/ GhashText \/ GhashLen)
      BY GhashIsNext
    <3> QED BY <3>1, <3>2, <3>3, <3>4 DEF Next
  <2>2. CASE CtrBlock
    BY <2>2 DEF CtrBlock, TagInv, VerifiedInv
  <2>3. CASE Verify
    BY <2>3 DEF Verify, Wiped
  <2> QED BY <2>1, <2>2, <2>3
<1> HIDE DEF Released
<1>2. Spec => [][Released]_vars
  BY <1>1, TagInductive, PTL DEF Spec
<1> QED BY <1>2 DEF ReleaseOnlyVerified, Released

LEMMA TagOfDiffers ==
    ASSUME NEW m, NEW n, H # Zero, OneBlockDiffers(m, n),
           m.aad \in Seq(Byte), n.aad \in Seq(Byte), m.ct \in Seq(Byte), n.ct \in Seq(Byte),
           m.nonce \in Nonce
    PROVE  ~(m.tag = TagOf(m) /\ n.tag = TagOf(n))
<1> DEFINE X == GhashBlocks(m.aad, m.ct)
           Y == GhashBlocks(n.aad, n.ct)
           N == Count(Len(m.aad)) + Count(Len(m.ct)) + 1
           changed == {k \in DOMAIN X : X[k] # Y[k]}
           mask == E[J0(m.nonce)]
<1>1. m.nonce = n.nonce /\ Len(m.aad) = Len(n.aad) /\ Len(m.ct) = Len(n.ct)
  BY DEF OneBlockDiffers
<1>2. \/ m.tag = n.tag /\ \E k \in changed : changed = {k}
      \/ m.tag # n.tag /\ changed = {}
  BY DEF OneBlockDiffers
<1>3. /\ N \in Nat /\ Blocks(X, N) /\ Blocks(Y, N)
      /\ DOMAIN X = 1..N /\ DOMAIN Y = 1..N /\ Len(X) = N /\ Len(Y) = N
  <2>1. LET M == Count(Len(m.aad)) + Count(Len(m.ct)) + 1
        IN  DOMAIN X = 1..M /\ Len(X) = M /\ Blocks(X, M)
    BY BlocksOfText
  <2>3. N \in Nat
    <3>1. \A k \in Nat : Count(k) \in Nat
      BY CountFacts
    <3>2. Len(m.aad) \in Nat /\ Len(m.ct) \in Nat
      OBVIOUS
    <3>3. Count(Len(m.aad)) \in Nat /\ Count(Len(m.ct)) \in Nat
      BY <3>1, <3>2
    <3> HIDE DEF X, Y
    <3> QED BY <3>3
  <2>2. LET M == Count(Len(n.aad)) + Count(Len(n.ct)) + 1
        IN  DOMAIN Y = 1..M /\ Len(Y) = M /\ Blocks(Y, M)
    BY BlocksOfText
  <2> QED BY <1>1, <2>1, <2>2, <2>3
<1>4. Polynomial(X) = PolyAt(X, N) /\ Polynomial(Y) = PolyAt(Y, N)
  BY <1>3 DEF Polynomial, PolyAt
<1>5. Polynomial(X) \in Block /\ Polynomial(Y) \in Block
  BY <1>3, <1>4, PolyType
<1>6. mask \in Block
  BY BlockFacts, CipherAssumption
<1>7. TagOf(m) = XorBlock(Polynomial(X), mask) /\ TagOf(n) = XorBlock(Polynomial(Y), mask)
  BY <1>1 DEF TagOf
<1>8. CASE m.tag = n.tag /\ \E k \in changed : changed = {k}
  <2>1. PICK j \in 1..N : X[j] # Y[j] /\ \A k \in 1..N : k # j => X[k] = Y[k]
    <3>1. PICK j \in changed : changed = {j}
      BY <1>8
    <3>2. j \in 1..N /\ X[j] # Y[j]
      BY <1>3
    <3>3. ASSUME NEW k \in 1..N, k # j PROVE X[k] = Y[k]
      <4>1. k \notin changed
        BY <3>1, <3>3
      <4> QED BY <1>3, <4>1
    <3> QED BY <3>2, <3>3
  <2>2. PolyAt(X, N) # PolyAt(Y, N)
    <3> HIDE DEF X, Y, N
    <3> QED BY <1>3, <2>1, OneTerm
  <2>3. Polynomial(X) # Polynomial(Y)
    BY <1>4, <2>2
  <2> HIDE DEF X, Y, mask
  <2>4. XorBlock(Polynomial(X), mask) # XorBlock(Polynomial(Y), mask)
    BY <1>5, <1>6, <2>3, XorCancels
  <2> QED BY <1>7, <1>8, <2>4
<1>9. CASE m.tag # n.tag /\ changed = {}
  <2>1. \A k \in 1..N : X[k] = Y[k]
    BY <1>3, <1>9
  <2>2. X = Y
    <3>1. X = [k \in 1..N |-> X[k]] /\ Y = [k \in 1..N |-> Y[k]]
      BY <1>3 DEF GhashBlocks
    <3> HIDE DEF X, Y, N
    <3> QED BY <2>1, <3>1
  <2> HIDE DEF X, Y, mask
  <2> QED BY <1>7, <1>9, <2>2
<1> QED BY <1>2, <1>8, <1>9

(***************************************************************************)
(* A change confined to one block of what is authenticated never passes    *)
(* mako_gcm_decrypt(), when H is not zero: no chance is involved.          *)
(***************************************************************************)
THEOREM OneBlockNeverPasses == Spec => []OneBlockChangeDetected
<1>1. IInv /\ RoundInv /\ TagInv => OneBlockChangeDetected
  <2> SUFFICES ASSUME IInv, RoundInv, TagInv, Decrypted, H # Zero,
                      OneBlockDiffers(Received, sealed), status # "AUTH_FAILED"
               PROVE  FALSE
    BY DEF OneBlockChangeDetected
  <2>1. call.op = "decrypt" /\ pc = "idle" /\ status = "OK"
    BY DEF Decrypted
  <2>2. sealed # NoMessage /\ sealed \in Message
    BY <2>1 DEF RoundInv, DecryptInv, IInv, TypeOK
  <2>3. sealed.tag = TagOf(sealed)
    BY <2>2 DEF TagInv, TagIsGhash
  <2>4. Received.tag = TagOf(Received)
    BY <2>1 DEF TagInv, VerifiedInv, Received
  <2>5. /\ Received.aad \in Seq(Byte) /\ Received.ct \in Seq(Byte) /\ Received.nonce \in Nonce
        /\ sealed.aad \in Seq(Byte) /\ sealed.ct \in Seq(Byte)
    BY <2>1, <2>2 DEF IInv, TypeOK, Received, Message
  <2> QED BY <2>3, <2>4, <2>5, TagOfDiffers
<1> QED BY <1>1, TagInductive, PTL

-----------------------------------------------------------------------------
(***************************************************************************)
(* Quotient and remainder are the numbers that satisfy the division.       *)
(***************************************************************************)
LEMMA Division ==
    ASSUME NEW a \in Nat, NEW w \in Nat, w >= 1
    PROVE  \E q \in Nat, r \in 0..w-1 : q = a \div w /\ r = a % w /\ a = q * w + r
<1> DEFINE q == a \div w
           r == a % w
<1>1. q = a \div w /\ r = a % w
  OBVIOUS
<1> HIDE DEF q, r
<1>2. q \in Nat /\ r \in 0..w-1 /\ a = q * w + r
  BY <1>1
<1> QED BY <1>1, <1>2, Zenon

LEMMA DivisionIsUnique ==
    ASSUME NEW w \in Nat, w >= 1, NEW p \in Nat, NEW q \in Nat, NEW r \in 0..w-1, NEW s \in 0..w-1,
           p * w + r = q * w + s
    PROVE  p = q /\ r = s
<1>1. ASSUME NEW a \in Nat, NEW b \in Nat, a < b, NEW x \in 0..w-1 PROVE a * w + x < b * w
  <2>1. (a + 1) * w <= b * w /\ (a + 1) * w = a * w + w
    BY <1>1, Multiples
  <2>2. a * w \in Nat /\ b * w \in Nat
    BY Multiples
  <2> QED BY <1>1, <2>1, <2>2
<1>2. p * w \in Nat /\ q * w \in Nat
  BY Multiples
<1>3. ~(p < q) /\ ~(q < p)
  BY <1>1, <1>2
<1>4. p = q
  BY <1>3
<1> QED BY <1>2, <1>4

LEMMA QuotientOf ==
    ASSUME NEW w \in Nat, w >= 1, NEW q \in Nat, NEW r \in 0..w-1
    PROVE  (q * w + r) \div w = q /\ (q * w + r) % w = r
<1>1. q * w \in Nat
  BY Multiples
<1> DEFINE a == q * w + r
<1>2. a \in Nat
  BY <1>1
<1> HIDE DEF a
<1>3. PICK p \in Nat, s \in 0..w-1 : p = a \div w /\ s = a % w /\ a = p * w + s
  BY <1>2, Division
<1>4. p * w + s = q * w + r
  BY <1>3 DEF a
<1>5. p = q /\ s = r
  BY <1>4, DivisionIsUnique
<1> QED BY <1>3, <1>5 DEF a

LEMMA Distributes ==
    ASSUME NEW p \in Nat, NEW v \in Nat, NEW s \in Nat, NEW w \in Nat
    PROVE  (p * v + s) * w = p * (v * w) + s * w
<1>1. p * v \in Nat
  BY Monotone
<1>2. (p * v + s) * w = (p * v) * w + s * w
  BY <1>1
<1>3. (p * v) * w = p * (v * w)
  OBVIOUS
<1> QED BY <1>2, <1>3

(***************************************************************************)
(* Dividing by a product is dividing twice.                                *)
(***************************************************************************)
LEMMA DivideTwice ==
    ASSUME NEW a \in Nat, NEW v \in Nat, v >= 1, NEW w \in Nat, w >= 1
    PROVE  a \div (v * w) = (a \div w) \div v
<1>1. PICK q \in Nat, r \in 0..w-1 : q = a \div w /\ a = q * w + r
  BY Division
<1>2. PICK p \in Nat, s \in 0..v-1 : p = q \div v /\ q = p * v + s
  BY Division
<1>3. s * w + r \in 0..v * w - 1
  <2>1. s + 1 \in Nat /\ s + 1 <= v /\ (s + 1) * w <= v * w /\ (s + 1) * w = s * w + w
    BY <1>2, Multiples
  <2>2. s * w \in Nat /\ v * w \in Nat
    BY <1>2, Multiples
  <2> QED BY <1>1, <2>1, <2>2
<1>4. a = p * (v * w) + (s * w + r)
  <2>1. (p * v + s) * w = p * (v * w) + s * w
    BY Distributes
  <2>2. p * (v * w) \in Nat /\ s * w \in Nat
    <3>1. v * w \in Nat
      BY Multiples
    <3>2. \A m \in Nat : p * m \in Nat
      OBVIOUS
    <3> QED BY <3>1, <3>2, Multiples
  <2>3. q * w = p * (v * w) + s * w
    BY <1>2, <2>1
  <2>4. ASSUME NEW x \in Nat, NEW y1 \in Nat, q * w = x + y1 PROVE a = x + (y1 + r)
    BY <1>1, <2>4
  <2> QED BY <2>2, <2>3, <2>4
<1>5. v * w \in Nat /\ v * w >= 1
  <2>1. 1 * w <= v * w /\ v * w \in Nat
    BY Multiples
  <2> QED BY <2>1
<1>6. a \div (v * w) = p
  <2> DEFINE m == v * w
             x == s * w + r
  <2>1. m \in Nat /\ m >= 1 /\ x \in 0..m-1 /\ a = p * m + x
    BY <1>3, <1>4, <1>5
  <2> HIDE DEF m, x
  <2>2. a \div m = p
    BY <1>2, <2>1, QuotientOf
  <2> QED BY <2>2 DEF m
<1> QED BY <1>1, <1>2, <1>6

(***************************************************************************)
(* Counting on: the last digit becomes the next one, and there is a carry  *)
(* if it was the last.                                                     *)
(***************************************************************************)
LEMMA CountOn ==
    ASSUME NEW a \in Nat
    PROVE  /\ ((a % Radix) + 1) % Radix = (a + 1) % Radix
           /\ (a + 1) \div Radix = (a \div Radix) + (IF a % Radix = Radix - 1 THEN 1 ELSE 0)
<1>0. Radix \in Nat /\ Radix >= 2
  BY SizeAssumption
<1>1. PICK q \in Nat, r \in 0..Radix-1 : q = a \div Radix /\ r = a % Radix /\ a = q * Radix + r
  BY <1>0, Division
<1>2. r \in Byte
  BY <1>1 DEF Byte
<1>3. q * Radix \in Nat
  BY <1>0, <1>1, Multiples
<1>4. ASSUME NEW p \in Nat, NEW x \in 0..Radix-1, a + 1 = p * Radix + x
      PROVE  (a + 1) \div Radix = p /\ (a + 1) % Radix = x
  BY <1>0, <1>4, QuotientOf
<1>5. CASE r = Radix - 1
  <2>1. a + 1 = (q + 1) * Radix + 0
    BY <1>0, <1>1, <1>3, <1>5, Multiples
  <2>2. (a + 1) \div Radix = q + 1 /\ (a + 1) % Radix = 0
    <3>1. q + 1 \in Nat /\ 0 \in 0..Radix-1
      BY <1>0, <1>1
    <3> QED BY <1>4, <2>1, <3>1
  <2> QED BY <1>2, <1>5, <2>2, <1>1, ByteWraps
<1>6. CASE r # Radix - 1
  <2>1. a + 1 = q * Radix + (r + 1) /\ r + 1 \in 0..Radix-1
    BY <1>0, <1>1, <1>3, <1>6
  <2>2. (a + 1) \div Radix = q /\ (a + 1) % Radix = r + 1
    BY <1>4, <2>1
  <2>3. (a + 1) \div Radix = q + 0
    BY <1>1, <2>2
  <2> QED BY <1>2, <1>6, <2>2, <2>3, <1>1, ByteWraps
<1> QED BY <1>5, <1>6

(***************************************************************************)
(* The digits of a number, and what adding one does to them.               *)
(***************************************************************************)
Left(m, j) == m \div Weight[j]
Digit(m, j) == Left(m, j) % Radix
AllLast(m, j) == \A d \in 0..j-1 : Digit(m, d) = Radix - 1

LEMMA LeftFacts ==
    ASSUME NEW m \in Nat
    PROVE  /\ Left(m, 0) = m
           /\ \A j \in 0..3 : Left(m, j) \in Nat
           /\ \A j \in 0..2 : Left(m, j + 1) = Left(m, j) \div Radix
<1>1. Radix \in Nat /\ Radix >= 1 /\ NonceSize \in Nat
  BY SizeAssumption
<1>2. ASSUME NEW j \in 0..3 PROVE Weight[j] \in Nat /\ Weight[j] >= 1
  <2>1. j \in 0..BlockSize
    BY <1>1 DEF BlockSize
  <2> QED BY <2>1, SizeAssumption
<1>3. ASSUME NEW j \in 0..3 PROVE Left(m, j) \in Nat
  BY <1>2, Division DEF Left
<1>4. ASSUME NEW j \in 0..2 PROVE Left(m, j + 1) = Left(m, j) \div Radix
  <2>1. j \in 0..BlockSize-1
    BY <1>1 DEF BlockSize
  <2>2. Weight[j + 1] = Radix * Weight[j]
    BY <2>1, SizeAssumption
  <2>3. Weight[j] \in Nat /\ Weight[j] >= 1
    BY <1>2
  <2>4. m \div (Radix * Weight[j]) = (m \div Weight[j]) \div Radix
    BY <1>1, <2>3, DivideTwice
  <2> QED BY <2>2, <2>4 DEF Left
<1>5. Left(m, 0) = m
  BY SizeAssumption DEF Left
<1> QED BY <1>3, <1>4, <1>5

LEMMA Carry ==
    ASSUME NEW m \in Nat, NEW j \in 0..3
    PROVE  /\ Left(m + 1, j) = Left(m, j) + (IF AllLast(m, j) THEN 1 ELSE 0)
           /\ Digit(m + 1, j) = IF AllLast(m, j) THEN (Digit(m, j) + 1) % Radix ELSE Digit(m, j)
<1> DEFINE Carried(d) == Left(m + 1, d) = Left(m, d) + (IF AllLast(m, d) THEN 1 ELSE 0)
<1>1. Carried(0)
  BY LeftFacts DEF AllLast
<1>2. ASSUME NEW d \in 0..2, Carried(d) PROVE Carried(d + 1)
  <2>1. Left(m, d) \in Nat /\ Left(m, d + 1) = Left(m, d) \div Radix
    BY LeftFacts
  <2>2. Left(m + 1, d + 1) = Left(m + 1, d) \div Radix
    BY LeftFacts
  <2>3. AllLast(m, d + 1) <=> AllLast(m, d) /\ Digit(m, d) = Radix - 1
    BY DEF AllLast
  <2>4. CASE AllLast(m, d)
    <3>1. Left(m + 1, d) = Left(m, d) + 1
      BY <1>2, <2>4
    <3>2. Left(m + 1, d + 1)
            = (Left(m, d) \div Radix) + (IF Left(m, d) % Radix = Radix - 1 THEN 1 ELSE 0)
      BY <2>1, <2>2, <3>1, CountOn
    <3> QED BY <2>1, <2>3, <2>4, <3>2 DEF Digit
  <2>5. CASE ~AllLast(m, d)
    <3>1. Left(m + 1, d) = Left(m, d)
      BY <1>2, <2>1, <2>5
    <3>2. Left(m + 1, d + 1) = Left(m, d + 1) /\ Left(m, d + 1) \in Nat
      BY <2>1, <2>2, <3>1, LeftFacts
    <3> QED BY <2>3, <2>5, <3>2
  <2> QED BY <2>4, <2>5
<1> HIDE DEF Carried
<1>3. Carried(1)
  BY <1>1, <1>2
<1>4. Carried(2)
  BY <1>2, <1>3
<1>5. Carried(3)
  BY <1>2, <1>4
<1>6. Carried(j)
  BY <1>1, <1>3, <1>4, <1>5
<1>7. Left(m, j) \in Nat
  BY LeftFacts
<1>8. Left(m + 1, j) = Left(m, j) + (IF AllLast(m, j) THEN 1 ELSE 0)
  BY <1>6 DEF Carried
<1>9. CASE AllLast(m, j)
  <2>1. ((Left(m, j) % Radix) + 1) % Radix = (Left(m, j) + 1) % Radix
    BY <1>7, CountOn
  <2> QED BY <1>8, <1>9, <2>1 DEF Digit
<1>10. CASE ~AllLast(m, j)
  BY <1>7, <1>8, <1>10 DEF Digit
<1> QED BY <1>8, <1>9, <1>10

(***************************************************************************)
(* inc32() goes from each counter block of the standard to the next, from  *)
(* J0 on, and round from the last to the first.                            *)
(***************************************************************************)
LEMMA CounterBlocks ==
    ASSUME NEW nonce \in Nonce
    PROVE  /\ J0(nonce) = CounterBlock(nonce, 0)
           /\ \A n \in Nat : Inc32(CounterBlock(nonce, n)) = CounterBlock(nonce, n + 1)
<1>1. NonceSize \in Nat /\ BlockSize = NonceSize + 4 /\ CounterBytes = NonceSize+1..BlockSize
      /\ BlockSize \in Nat
  BY SizeAssumption DEF BlockSize, CounterBytes
<1>2. ASSUME NEW k \in 1..BlockSize
      PROVE  k \in CounterBytes <=> ~(k <= NonceSize)
  BY <1>1
<1>3. ASSUME NEW n \in Nat, NEW k \in CounterBytes
      PROVE  /\ BlockSize - k \in 0..3
             /\ CounterBlock(nonce, n)[k] = Digit(n + 1, BlockSize - k)
  <2>1. k \in 1..BlockSize /\ ~(k <= NonceSize) /\ BlockSize - k \in 0..3
    BY <1>1
  <2> QED BY <2>1 DEF CounterBlock, Digit, Left
<1>4. ASSUME NEW n \in Nat
      PROVE  Inc32(CounterBlock(nonce, n)) = CounterBlock(nonce, n + 1)
  <2> DEFINE c == CounterBlock(nonce, n)
             e == CounterBlock(nonce, n + 1)
  <2>1. ASSUME NEW k \in 1..BlockSize, k <= NonceSize
        PROVE  Inc32(c)[k] = e[k]
    <3>1. k \notin CounterBytes
      BY <1>2, <2>1
    <3> QED BY <2>1, <3>1 DEF Inc32, CounterBlock
  <2>2. ASSUME NEW k \in CounterBytes
        PROVE  Inc32(c)[k] = e[k]
    <3> DEFINE j == BlockSize - k
    <3>1. j \in 0..3 /\ c[k] = Digit(n + 1, j) /\ e[k] = Digit(n + 1 + 1, j) /\ k \in 1..BlockSize
      BY <1>1, <1>3
    <3>2. AllLast(n + 1, j) <=> \A x \in k+1..BlockSize : c[x] = Radix - 1
      <4>1. ASSUME NEW x \in k+1..BlockSize
            PROVE  BlockSize - x \in 0..j-1 /\ c[x] = Digit(n + 1, BlockSize - x)
        <5>1. x \in CounterBytes
          BY <1>1
        <5> QED BY <1>1, <1>3, <5>1
      <4>2. ASSUME NEW d \in 0..j-1
            PROVE  BlockSize - d \in k+1..BlockSize /\ BlockSize - (BlockSize - d) = d
        BY <1>1, <3>1
      <4> HIDE DEF c, j
      <4> QED BY <4>1, <4>2 DEF AllLast
    <3>3. Digit(n + 1 + 1, j) = IF AllLast(n + 1, j) THEN (Digit(n + 1, j) + 1) % Radix
                                ELSE Digit(n + 1, j)
      BY <3>1, Carry
    <3>4. Inc32(c)[k] = IF \A x \in k+1..BlockSize : c[x] = Radix - 1
                        THEN (c[k] + 1) % Radix ELSE c[k]
      BY <2>2, <3>1 DEF Inc32
    <3> HIDE DEF c, e, j
    <3> QED BY <3>1, <3>2, <3>3, <3>4
  <2>3. Inc32(c) = [k \in 1..BlockSize |-> Inc32(c)[k]] /\ e = [k \in 1..BlockSize |-> e[k]]
    BY DEF Inc32, CounterBlock
  <2> HIDE DEF c, e
  <2>4. \A k \in 1..BlockSize : Inc32(c)[k] = e[k]
    BY <1>2, <2>1, <2>2
  <2>5. Inc32(c) = e
    BY <2>3, <2>4
  <2> QED BY <2>5 DEF c, e
<1>5. J0(nonce) = CounterBlock(nonce, 0)
  <2>1. ASSUME NEW k \in CounterBytes
        PROVE  Digit(1, BlockSize - k) = IF k = BlockSize THEN 1 ELSE 0
    <3>1. Radix \in Nat /\ Radix >= 2 /\ Weight[0] = 1
      BY SizeAssumption
    <3>2. \A w \in Nat : w > 1 => 1 \div w = 0
      OBVIOUS
    <3>3. Weight[1] > 1 /\ Weight[2] > 1 /\ Weight[3] > 1
          /\ Weight[1] \in Nat /\ Weight[2] \in Nat /\ Weight[3] \in Nat
      <4>1. Radix * Radix \in Nat /\ Radix * Radix >= 4
        BY <3>1
      <4>2. Radix * (Radix * Radix) \in Nat /\ Radix * (Radix * Radix) >= 8
        BY <3>1, <4>1
      <4> QED BY <3>1, <4>1, <4>2, WeightFacts
    <3>4. Digit(1, 0) = 1 /\ Digit(1, 1) = 0 /\ Digit(1, 2) = 0 /\ Digit(1, 3) = 0
      BY <3>1, <3>2, <3>3 DEF Digit, Left
    <3> QED BY <1>1, <1>3, <3>4
  <2>2. ASSUME NEW k \in 1..BlockSize
        PROVE  J0(nonce)[k] = CounterBlock(nonce, 0)[k]
    <3>1. CASE k <= NonceSize
      BY <3>1 DEF J0, CounterBlock
    <3>2. CASE ~(k <= NonceSize)
      <4>1. CounterBlock(nonce, 0)[k] = Digit(0 + 1, BlockSize - k)
        BY <1>2, <1>3, <3>2
      <4> QED BY <1>2, <2>1, <3>2, <4>1 DEF J0
    <3> QED BY <3>1, <3>2
  <2> QED BY <2>2 DEF J0, CounterBlock
<1> QED BY <1>4, <1>5

-----------------------------------------------------------------------------
(***************************************************************************)
(* Where the keystream stands: the counter block is the standard's for the *)
(* block of text at the offset, and what is written up to there, and in    *)
(* encryption up to the end of the text once hashing starts, is the        *)
(* standard's text.  What a call was given is something the caller may     *)
(* have passed, and only one message is sealed.                            *)
(***************************************************************************)
KeyByte(nonce, k) == E[CounterBlock(nonce, (k - 1) \div BlockSize + 1)][((k - 1) % BlockSize) + 1]

Ciphered(n) == \A k \in 1..n : out[k] = Xor(call.data[k], KeyByte(call.nonce, k))

StreamInv ==
    /\ pc = "ctr" => /\ \E n \in Nat : /\ counter = CounterBlock(call.nonce, n + 1)
                                       /\ off < call.len => off = n * BlockSize
                     /\ Ciphered(off)
    /\ pc \in Hashing /\ call.op = "encrypt" => Ciphered(call.len)

OfferInv ==
    /\ call.op = "encrypt" => /\ call.nonce \in Nonces /\ call.aad \in Aads /\ call.data \in Plaintexts
                              /\ pc # "idle" => sealed = NoMessage
    /\ call.op = "decrypt" => Received \in Copies(sealed)

StandardInv == StreamInv /\ OfferInv

LEMMA KeyByteOf ==
    ASSUME NEW nonce, NEW n \in Nat, NEW k \in Nat, n * BlockSize < k, k <= n * BlockSize + BlockSize
    PROVE  KeyByte(nonce, k) = E[CounterBlock(nonce, n + 1)][k - n * BlockSize]
<1>1. BlockSize \in Nat /\ BlockSize >= 1
  BY SizeAssumption DEF BlockSize
<1>2. n * BlockSize \in Nat
  BY <1>1, Multiples
<1>3. ASSUME NEW o \in Nat, o = n * BlockSize
      PROVE  k - o - 1 \in 0..BlockSize-1 /\ k - 1 = o + (k - o - 1) /\ (k - o - 1) + 1 = k - o
  BY <1>1, <1>3
<1>4. k - n * BlockSize - 1 \in 0..BlockSize-1 /\ k - 1 = n * BlockSize + (k - n * BlockSize - 1)
      /\ (k - n * BlockSize - 1) + 1 = k - n * BlockSize
  BY <1>2, <1>3
<1>5. (k - 1) \div BlockSize = n /\ (k - 1) % BlockSize = k - n * BlockSize - 1
  BY <1>1, <1>4, QuotientOf
<1> QED BY <1>4, <1>5 DEF KeyByte

LEMMA CtrBlockKeepsStandard == ASSUME IInv, RoundInv, StandardInv, CtrBlock PROVE StandardInv'
<1> USE CtrBlockFacts
<1>1. PICK n \in Nat : counter = CounterBlock(call.nonce, n + 1) /\ off = n * BlockSize
  BY DEF StandardInv, StreamInv
<1>2. BlockSize \in Nat /\ call.nonce \in Nonce
  BY ByteFacts DEF IInv, TypeOK, BufferInv
<1>3. off' <= off + BlockSize /\ (off' < call.len => off' = off + BlockSize)
  BY <1>2 DEF ChunkLen
<1>4. counter' = CounterBlock(call.nonce, (n + 1) + 1) /\ n + 1 \in Nat
  <2>1. counter' = Inc32(counter)
    BY DEF CtrBlock
  <2> QED BY <1>1, <1>2, <2>1, CounterBlocks
<1>5. off' < call.len => off' = (n + 1) * BlockSize
  <2>1. (n + 1) * BlockSize = n * BlockSize + BlockSize
    BY ByteFacts
  <2> QED BY <1>1, <1>3, <2>1
<1>6. ASSUME NEW k \in 1..off' PROVE out'[k] = Xor(call.data[k], KeyByte(call.nonce, k))
  <2>1. CASE k \in off+1..off'
    <3>1. in[k] = call.data[k]
      <4>1. k \in off+1..call.len
        BY <2>1
      <4>2. call.op # "none"
        BY DEF IInv, BufferInv
      <4>3. call.op = "encrypt" \/ call.op = "decrypt"
        BY <4>2 DEF IInv, TypeOK
      <4> QED BY <4>1, <4>3 DEF RoundInv, EncryptInv, DecryptInv
    <3>2. KeyByte(call.nonce, k) = E[counter][k - off]
      <4>1. k \in Nat /\ n * BlockSize < k /\ k <= n * BlockSize + BlockSize
        BY <1>1, <1>2, <1>3, <2>1
      <4> QED BY <1>1, <4>1, KeyByteOf
    <3> QED BY <2>1, <3>1, <3>2
  <2>2. CASE k \notin off+1..off'
    <3>1. k \in 1..off /\ k \in 1..call.cap
      BY <2>2
    <3> QED BY <2>2, <3>1 DEF StandardInv, StreamInv, Ciphered
  <2> QED BY <2>1, <2>2
<1>7. StreamInv'
  <2>1. "ctr" \notin Hashing
    BY DEF Hashing
  <2> QED BY <1>4, <1>5, <1>6, <2>1 DEF StreamInv, Ciphered
<1>8. OfferInv'
  BY DEF StandardInv, OfferInv, Received
<1> QED BY <1>7, <1>8 DEF StandardInv

LEMMA CtrDoneKeepsStandard == ASSUME IInv, StandardInv, CtrDone PROVE StandardInv'
<1>1. /\ pc = "ctr" /\ off = call.len /\ UNCHANGED <<call, out, sealed>>
      /\ IF call.op = "encrypt" THEN pc' = "aad" ELSE pc' = "idle"
  <2>1. off \in Nat /\ call.len \in Nat /\ off >= call.len /\ off <= call.len
    BY DEF CtrDone, IInv, TypeOK, BufferInv
  <2> QED BY <2>1 DEF CtrDone, Return
<1>2. StreamInv'
  BY <1>1 DEF StandardInv, StreamInv, Ciphered, Hashing
<1>3. OfferInv'
  BY <1>1 DEF StandardInv, OfferInv, Received
<1> QED BY <1>2, <1>3 DEF StandardInv

LEMMA GhashKeepsStandard ==
    ASSUME StandardInv, GhashAad \/ GhashText \/ GhashLen
    PROVE  StandardInv'
<1>1. pc \in Hashing /\ pc' \in Hashing /\ UNCHANGED <<call, out, sealed>>
  BY GhashIsNext
<1>2. pc # "idle" /\ pc' # "ctr" /\ pc' # "idle"
  BY <1>1 DEF Hashing
<1> QED BY <1>1, <1>2 DEF StandardInv, StreamInv, Ciphered, OfferInv, Received

LEMMA TagKeepsStandard == ASSUME IInv, StandardInv, Seal \/ Verify PROVE StandardInv'
<1>1. CASE Seal
  BY <1>1 DEF Seal, Return, StandardInv, StreamInv, OfferInv, Hashing
<1>2. CASE Verify
  <2>1. pc = "tag" /\ call.op = "decrypt" /\ off = 0 /\ UNCHANGED <<call, off, sealed>>
    BY <1>2 DEF Verify, IInv, BufferInv
  <2>2. OfferInv'
    BY <2>1 DEF StandardInv, OfferInv, Received
  <2>3. \/ pc' = "idle"
        \/ pc' = "ctr" /\ counter' = Inc32(J0(call.nonce))
    BY <1>2 DEF Verify, Return
  <2>4. call.nonce \in Nonce
    BY <2>1 DEF IInv, TypeOK
  <2>5. Inc32(J0(call.nonce)) = CounterBlock(call.nonce, 0 + 1)
    BY <2>4, CounterBlocks
  <2>6. 0 * BlockSize = 0
    BY ByteFacts
  <2>7. StreamInv'
    BY <2>1, <2>3, <2>5, <2>6 DEF StreamInv, Ciphered, Hashing
  <2> QED BY <2>2, <2>7 DEF StandardInv
<1> QED BY <1>1, <1>2

LEMMA CopiesKeepText == ASSUME NEW m \in Message, NEW n \in Copies(m) PROVE n.pt = m.pt
BY DEF Copies, Message

LEMMA CallKeepsStandard ==
    ASSUME IInv, StandardInv,
           \/ \E pt \in Plaintexts, nonce \in Nonces, aad \in Aads :
                \E buf \in Buffers(Len(pt)) : CallEncrypt(pt, nonce, aad, buf)
           \/ \E m \in Copies(sealed) : \E buf \in Buffers(Len(m.ct)) : CallDecrypt(m, buf)
    PROVE  StandardInv'
<1>1. ASSUME NEW op, NEW m, NEW data, NEW buf, NEW start, Enter(op, m, data, buf, start)
      PROVE  /\ call'.op = op /\ call'.nonce = m.nonce /\ call'.aad = m.aad /\ call'.data = data
             /\ call'.tag = m.tag /\ sealed' = sealed /\ off' = 0 /\ (pc' = start \/ pc' = "idle")
  BY <1>1 DEF Enter
<1>2. ASSUME NEW pt \in Plaintexts, NEW nonce \in Nonces, NEW aad \in Aads,
             NEW buf, CallEncrypt(pt, nonce, aad, buf)
      PROVE  StandardInv'
  <2>1. ASSUME NEW m, m = [NoMessage EXCEPT !.nonce = nonce, !.aad = aad]
        PROVE  m.nonce = nonce /\ m.aad = aad
    BY <2>1 DEF NoMessage
  <2>2. /\ call'.op = "encrypt" /\ call'.nonce = nonce /\ call'.aad = aad /\ call'.data = pt
        /\ sealed' = sealed /\ off' = 0 /\ (pc' = "ctr" \/ pc' = "idle")
    BY <1>1, <1>2, <2>1 DEF CallEncrypt
  <2>3. sealed = NoMessage /\ counter' = Inc32(J0(nonce))
    BY <1>2 DEF CallEncrypt
  <2>4. Inc32(J0(nonce)) = CounterBlock(nonce, 0 + 1)
    <3>1. nonce \in Nonce
      BY InputAssumption DEF Nonce
    <3> QED BY <3>1, CounterBlocks
  <2>5. 0 * BlockSize = 0
    BY ByteFacts
  <2>6. StreamInv'
    BY <2>2, <2>3, <2>4, <2>5 DEF StreamInv, Ciphered, Hashing
  <2> QED BY <2>2, <2>3, <2>6 DEF StandardInv, OfferInv
<1>3. ASSUME NEW m \in Copies(sealed), NEW buf, CallDecrypt(m, buf)
      PROVE  StandardInv'
  <2>1. sealed \in Message
    BY <1>3 DEF CallDecrypt, IInv, TypeOK
  <2>2. m \in Message /\ m.pt = sealed.pt
    BY <2>1, CopiesType, CopiesKeepText
  <2>3. /\ call'.op = "decrypt" /\ call'.nonce = m.nonce /\ call'.aad = m.aad /\ call'.data = m.ct
        /\ call'.tag = m.tag /\ sealed' = sealed /\ (pc' = "aad" \/ pc' = "idle")
    BY <1>1, <1>3 DEF CallDecrypt
  <2>4. m = [ct |-> m.ct, aad |-> m.aad, nonce |-> m.nonce, tag |-> m.tag, pt |-> m.pt]
    BY <2>2 DEF Message
  <2>5. Received' = m
    BY <2>2, <2>3, <2>4 DEF Received
  <2> QED BY <2>3, <2>5 DEF StandardInv, StreamInv, OfferInv
<1> QED BY <1>2, <1>3

LEMMA StandardInit == Init => StandardInv
BY DEF Init, StandardInv, StreamInv, OfferInv, Hashing

LEMMA StandardNext == IInv /\ RoundInv /\ StandardInv /\ [Next]_vars => StandardInv'
<1>1. StandardInv /\ UNCHANGED vars => StandardInv'
  BY DEF vars, StandardInv, StreamInv, Ciphered, OfferInv, Received
<1> QED BY <1>1, CallKeepsStandard, CtrBlockKeepsStandard, CtrDoneKeepsStandard, GhashKeepsStandard,
           TagKeepsStandard DEF Next

(***************************************************************************)
(* Every step of the code is a step of authenticated encryption or changes *)
(* nothing there.                                                          *)
(***************************************************************************)
LEMMA CipheredText ==
    ASSUME NEW text, NEW s \in Buffer, NEW len \in Nat, len = Len(text), len <= Len(s), NEW nonce,
           \A k \in 1..len : s[k] = Xor(text[k], KeyByte(nonce, k))
    PROVE  SubSeq(s, 1, len) = Gctr(nonce, text)
<1>1. SubSeq(s, 1, len) = [k \in 1..len |-> s[k]]
  BY DEF Buffer
<1>2. Gctr(nonce, text) = [k \in 1..len |-> Xor(text[k], KeyByte(nonce, k))]
  BY DEF Gctr, KeyByte
<1> QED BY <1>1, <1>2

LEMMA StandardSeal ==
    ASSUME IInv, TagInv, StandardInv, Seal
    PROVE  sealed' # NoMessage => Std!Seal
<1>1. /\ pc = "tag" /\ call.op = "encrypt" /\ call' = call
      /\ sealed' = [ct |-> SubSeq(out, 1, call.len), aad |-> call.aad, nonce |-> call.nonce,
                    tag |-> ComputedTag, pt |-> call.data]
  BY DEF Seal
<1>2. /\ call.len = Len(call.data) /\ call.len \in Nat /\ out \in Buffer /\ call.len <= Len(out)
      /\ call.data \in Seq(Byte)
  BY <1>1 DEF IInv, TypeOK, BufferInv
<1>3. SubSeq(out, 1, call.len) = Gctr(call.nonce, call.data)
  <2>1. Ciphered(call.len)
    BY <1>1 DEF StandardInv, StreamInv, Hashing
  <2> QED BY <1>2, <2>1, CipheredText DEF Ciphered
<1>4. ASSUME NEW m, m.aad = call.aad, m.nonce = call.nonce, m.ct = Gctr(call.nonce, call.data)
      PROVE  TagOf(m) = ComputedTag
  BY <1>1, <1>3, <1>4, ComputedIsTagOf
<1>5. sealed' = Sealing(call.nonce, call.aad, call.data)
  <2> DEFINE m == [ct |-> Gctr(call.nonce, call.data), aad |-> call.aad, nonce |-> call.nonce,
                   tag |-> Zero, pt |-> call.data]
  <2>1. TagOf(m) = ComputedTag
    BY <1>4
  <2>2. ASSUME NEW ct, NEW t PROVE
            [[ct |-> ct, aad |-> call.aad, nonce |-> call.nonce, tag |-> Zero, pt |-> call.data]
                EXCEPT !.tag = t]
                = [ct |-> ct, aad |-> call.aad, nonce |-> call.nonce, tag |-> t, pt |-> call.data]
    OBVIOUS
  <2>3. [m EXCEPT !.tag = ComputedTag] = sealed'
    BY <1>1, <1>3, <2>2
  <2> QED BY <2>1, <2>3 DEF Sealing
<1>6. /\ sealed'.nonce = call.nonce /\ sealed'.aad = call.aad /\ sealed'.pt = call.data
      /\ call.nonce \in Nonces /\ call.aad \in Aads /\ call.data \in Plaintexts /\ sealed = NoMessage
  BY <1>1 DEF StandardInv, OfferInv
<1>7. Answer' = Answer
  BY <1>1 DEF Answer, Decrypted
<1> QED BY <1>5, <1>6, <1>7 DEF Std!Seal

LEMMA StandardOpen ==
    ASSUME IInv, RoundInv, TagInv, StandardInv, call.op = "decrypt", pc # "idle", Verify \/ CtrDone
    PROVE  Answer' = Answer \/ Std!Open
<1>1. UNCHANGED <<call, sealed>> /\ Received' = Received
  BY DEF Verify, CtrDone, Received
<1>2. sealed # NoMessage /\ Received \in Copies(sealed) /\ Answer = NoAnswer
  BY DEF RoundInv, DecryptInv, StandardInv, OfferInv, Answer, Decrypted
<1>3. /\ Received.tag = call.tag /\ Received.nonce = call.nonce /\ Received.ct = call.data
      /\ Received.aad = call.aad
  BY DEF Received
<1>4. CASE pc' # "idle"
  <2>1. Answer' = NoAnswer
    BY <1>4 DEF Answer, Decrypted
  <2> QED BY <1>2, <2>1
<1>5. CASE Verify /\ pc' = "idle"
  <2>1. pc = "tag" /\ status' = "AUTH_FAILED" /\ ~TagEqual(ComputedTag, call.tag)
    BY <1>5 DEF Verify, Return
  <2>2. ComputedTag = TagOf(Received)
    BY <1>3, <2>1, ComputedIsTagOf
  <2>3. call.tag \in Block
    BY DEF IInv, TypeOK
  <2>4. TagEqual(call.tag, call.tag)
    <3>1. \A b \in Byte : Xor(b, b) = 0
      BY CipherAssumption
    <3> QED BY <2>3, <3>1 DEF TagEqual, Block
  <2>5. Opening(Received) = Refused
    BY <1>3, <2>1, <2>2, <2>4 DEF Opening
  <2>6. Answer' = [message |-> Received, text |-> Opening(Received)]
    BY <1>1, <1>5, <2>1, <2>5 DEF Answer, Decrypted
  <2> QED BY <1>1, <1>2, <2>6 DEF Std!Open
<1>6. CASE CtrDone /\ pc' = "idle"
  <2>1. /\ pc = "ctr" /\ status' = "OK" /\ out' = out /\ call.len \in Nat
        /\ off = call.len /\ call.len = Len(call.data)
        /\ out \in Buffer /\ call.len <= Len(out)
    <3>1. pc = "ctr" /\ status' = "OK" /\ out' = out /\ off >= call.len
      BY <1>6 DEF CtrDone, Return
    <3>2. /\ off \in Nat /\ call.len = Len(call.data) /\ call.data \in Seq(Byte) /\ off <= call.len
          /\ out \in Buffer /\ call.len <= Len(out)
      BY <3>1 DEF IInv, TypeOK, BufferInv
    <3> QED BY <3>1, <3>2
  <2>2. SubSeq(out, 1, call.len) = Gctr(call.nonce, call.data)
    <3>1. Ciphered(call.len)
      BY <2>1 DEF StandardInv, StreamInv
    <3> QED BY <2>1, <3>1, CipheredText DEF Ciphered
  <2>3. call.tag = TagOf(Received)
    BY <2>1 DEF TagInv, VerifiedInv
  <2>4. Opening(Received) = SubSeq(out, 1, call.len)
    BY <1>3, <2>2, <2>3 DEF Opening
  <2>5. Answer' = [message |-> Received, text |-> Opening(Received)]
    BY <1>1, <1>6, <2>1, <2>4 DEF Answer, Decrypted
  <2> QED BY <1>1, <1>2, <2>5 DEF Std!Open
<1> QED BY <1>4, <1>5, <1>6

LEMMA AeadInit == Init => Std!Init
BY DEF Init, Std!Init, Answer, Decrypted

LEMMA AeadNext == IInv /\ RoundInv /\ TagInv /\ StandardInv /\ [Next]_vars => [Std!Next]_(Std!vars)
<1> SUFFICES ASSUME IInv, RoundInv, TagInv, StandardInv, [Next]_vars PROVE [Std!Next]_(Std!vars)
  OBVIOUS
<1>1. CASE UNCHANGED vars
  BY <1>1 DEF vars, Std!vars, Answer, Decrypted, Received
<1>2. ASSUME NEW pt, NEW nonce, NEW aad, NEW buf, CallEncrypt(pt, nonce, aad, buf)
      PROVE  UNCHANGED Std!vars
  <2>1. sealed = NoMessage /\ sealed' = sealed /\ call'.op = "encrypt"
    BY <1>2 DEF CallEncrypt, Enter
  <2>2. call.op # "decrypt"
    BY <2>1 DEF RoundInv, DecryptInv
  <2> QED BY <2>1, <2>2 DEF Std!vars, Answer, Decrypted
<1>3. ASSUME NEW m, NEW buf, CallDecrypt(m, buf)
      PROVE  UNCHANGED Std!vars
  <2>1. call.op = "encrypt" /\ sealed' = sealed /\ status' \notin {"OK", "AUTH_FAILED"}
    BY <1>3 DEF CallDecrypt, Enter, ArgumentError
  <2> QED BY <2>1 DEF Std!vars, Answer, Decrypted
<1>4. CASE CtrBlock
  BY <1>4 DEF CtrBlock, Std!vars, Answer, Decrypted
<1>5. CASE GhashAad \/ GhashText \/ GhashLen
  <2>1. pc # "idle" /\ pc' # "idle" /\ sealed' = sealed
    BY <1>5, GhashIsNext DEF Hashing
  <2> QED BY <2>1 DEF Std!vars, Answer, Decrypted
<1>6. CASE Seal
  <2>1. call.op = "encrypt" /\ call' = call
    BY <1>6 DEF Seal
  <2>2. Answer' = Answer
    BY <2>1 DEF Answer, Decrypted
  <2>3. sealed = NoMessage
    BY <1>6, <2>1 DEF Seal, StandardInv, OfferInv
  <2> QED BY <1>6, <2>2, <2>3, StandardSeal DEF Std!Next, Std!vars
<1>7. CASE Verify \/ CtrDone
  <2>1. sealed' = sealed /\ call' = call /\ pc # "idle"
    BY <1>7 DEF Verify, CtrDone
  <2>2. CASE call.op = "decrypt"
    BY <1>7, <2>1, <2>2, StandardOpen DEF Std!Next, Std!vars
  <2>3. CASE call.op # "decrypt"
    BY <2>1, <2>3 DEF Std!vars, Answer, Decrypted
  <2> QED BY <2>2, <2>3
<1> QED BY <1>1, <1>2, <1>3, <1>4, <1>5, <1>6, <1>7 DEF Next

(***************************************************************************)
(* The code is authenticated encryption as SP 800-38D defines it.  Every   *)
(* message mako_gcm_encrypt() seals has the standard's ciphertext and tag, *)
(* and every message mako_gcm_decrypt() is given it answers as the         *)
(* standard does: with the standard's text when the tag is right, and      *)
(* with a refusal when, and only when, it is not.                          *)
(***************************************************************************)
THEOREM ImplementsStandard == Spec => ImplementsAead
<1>1. Spec => [](IInv /\ RoundInv /\ TagInv /\ StandardInv)
  BY TagInductive, StandardInit, StandardNext, PTL DEF Spec
<1>2. Spec => Std!Spec
  BY <1>1, AeadInit, AeadNext, PTL DEF Spec, Std!Spec
<1> QED BY <1>2 DEF ImplementsAead
=============================================================================
