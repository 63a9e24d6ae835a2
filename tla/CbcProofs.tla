------------------------------ MODULE CbcProofs ------------------------------
(***************************************************************************)
(* Theorems about Cbc, for every block size, byte radix, block cipher and  *)
(* text: the ciphertext is CBC's and decrypting it gives the text back.    *)
(***************************************************************************)
EXTENDS Cbc, SequenceTheorems, TLAPS

LEMMA XorBlockType == ASSUME NEW a \in Block, NEW b \in Block PROVE XorBlock(a, b) \in Block
BY XorAssumption DEF XorBlock, Block

LEMMA XorBlockCancels ==
    ASSUME NEW a \in Block, NEW b \in Block
    PROVE  XorBlock(XorBlock(a, b), b) = a
<1>1. \A k \in 1..BlockSize : Xor(Xor(a[k], b[k]), b[k]) = a[k]
  BY XorAssumption DEF Block
<1>2. a = [k \in 1..BlockSize |-> a[k]]
  BY DEF Block
<1> QED BY <1>1, <1>2 DEF XorBlock

LEMMA BlockIsMemory == Block \subseteq Memory
BY DEF Block, Memory

LEMMA TextFacts ==
    ASSUME NEW text \in Text
    PROVE  /\ text.full \in Seq(Block) /\ Len(text.full) \in Nat
           /\ text.rest \in Seq(Byte)
           /\ Len(text.rest) \in 0..BlockSize-1
           /\ DOMAIN text.rest = 1..Len(text.rest)
<1>1. PICK n \in 0..BlockSize-1 : text.rest \in [1..n -> Byte]
  BY DEF Text
<1>2. n \in Nat
  BY <1>1, SizeAssumption
<1>3. text.rest \in Seq(Byte) /\ Len(text.rest) = n
  BY <1>1, <1>2, SeqDef
<1>4. text.full \in Seq(Block)
  BY DEF Text
<1> QED BY <1>1, <1>3, <1>4, LenProperties

LEMMA WholeIsText == ASSUME NEW s \in Seq(Block) PROVE Whole(s) \in Text
<1>1. <<>> \in [1..0 -> Byte] /\ 0 \in 0..BlockSize-1
  BY SizeAssumption
<1> QED BY <1>1 DEF Whole, Text

LEMMA InMemoryType ==
    ASSUME NEW text \in Text, NEW j \in Nat \ {0}
    PROVE  InMemory(text, j) \in Memory
<1>1. CASE j <= Len(text.full)
  BY <1>1, TextFacts, ElementOfSeq, BlockIsMemory DEF InMemory
<1>2. CASE ~(j <= Len(text.full))
  <2>1. ASSUME NEW k \in 1..BlockSize, k <= Len(text.rest)
        PROVE  text.rest[k] \in Byte
    BY <2>1, TextFacts, ElementOfSeq
  <2> QED BY <1>2, <2>1 DEF InMemory, Memory
<1> QED BY <1>1, <1>2

LEMMA StoreInside ==
    ASSUME out \in Seq(Memory), NEW j \in 1..Len(out), NEW b \in Memory, Store(j, b)
    PROVE  /\ out' \in Seq(Memory) /\ Len(out') = Len(out) /\ out'[j] = b
           /\ \A k \in 1..Len(out) : k # j => out'[k] = out[k]
<1>1. j <= Len(out) /\ out' = [out EXCEPT ![j] = b]
  BY LenProperties DEF Store
<1> QED BY <1>1, ExceptSeq

LEMMA PaddedTextType ==
    ASSUME NEW text \in Text, NEW j \in 1..Len(text.full)+1
    PROVE  PaddedText(text, j) \in Block
<1>1. CASE j <= Len(text.full)
  BY <1>1, TextFacts, ElementOfSeq DEF PaddedText
<1>2. CASE ~(j <= Len(text.full))
  <2>1. ASSUME NEW k \in 1..BlockSize
        PROVE  (IF k <= Len(text.rest) THEN text.rest[k] ELSE BlockSize - Len(text.rest)) \in Byte
    <3>1. CASE k <= Len(text.rest)
      BY <3>1, TextFacts, ElementOfSeq
    <3>2. CASE ~(k <= Len(text.rest))
      BY <3>2, TextFacts, SizeAssumption DEF Byte
    <3> QED BY <3>1, <3>2
  <2> QED BY <1>2, <2>1 DEF PaddedText, Block
<1> QED BY <1>1, <1>2

LEMMA InitIInv == Init => IInv
<1> SUFFICES ASSUME Init PROVE IInv
  OBVIOUS
<1>1. TypeOK
  <2>1. Whole(<<>>) \in Text
    <3>1. <<>> \in Seq(Block)
      OBVIOUS
    <3> QED BY <3>1, WholeIsText
  <2> QED BY <2>1 DEF Init, TypeOK, Status
<1> QED BY <1>1 DEF Init, IInv, CiphertextIsCbc, EncryptInv, DecryptInv, ResultInv, Finished

(***************************************************************************)
(* The size of the ciphertext of a text in memory has not wrapped.         *)
(***************************************************************************)
LEMMA SizeOfText ==
    ASSUME NEW text \in Texts
    PROVE  EncryptedSize(text) = Len(text.full) + 1
<1>1. Len(text.full) \in Nat
  BY InputAssumption, TextFacts
<1>2. Len(text.full) + 1 \in 0..SizeBlocks-1 /\ SizeBlocks \in Nat
  BY <1>1, MemoryAssumption, SizeAssumption
<1>3. \A n \in Nat : \A m \in 0..n-1 : m % n = m
  OBVIOUS
<1> QED BY <1>2, <1>3 DEF EncryptedSize

(***************************************************************************)
(* A call begins in a state that satisfies the invariant, whatever it is   *)
(* given.                                                                  *)
(***************************************************************************)
LEMMA EnterIInv ==
    ASSUME IInv, NEW op \in {"encrypt", "decrypt"}, NEW text \in Text, NEW iv \in Block,
           op = "encrypt" => text \in Texts,
           NEW cap \in Nat, NEW alias \in BOOLEAN, NEW null,
           Enter(op, text, iv, [cap |-> cap, alias |-> alias, null |-> null])
    PROVE  IInv'
<1>1. /\ call' = [op |-> op, text |-> text, iv |-> iv, cap |-> cap, alias |-> alias, null |-> null]
      /\ out' = [j \in 1..cap |-> InMemory(IF alias THEN text ELSE Whole(<<>>), j)]
      /\ status' = ArgumentError(call') /\ chain' = iv /\ i' = 0 /\ outLen' = Unset
      /\ pc' = (IF status' = "none" THEN op ELSE "idle") /\ UNCHANGED sealed
  BY DEF Enter
<1>2. Len(text.full) \in Nat
  BY TextFacts
<1>3. out' \in Seq(Memory) /\ Len(out') = cap
  <2>1. Whole(<<>>) \in Text
    <3>1. <<>> \in Seq(Block)
      OBVIOUS
    <3> QED BY <3>1, WholeIsText
  <2>2. out' \in [1..cap -> Memory]
    BY <1>1, <2>1, InMemoryType
  <2> QED BY <1>1, <2>2, SeqDef
<1>4. status' \in {"none", "INVALID_ARG", "BUFFER_TOO_SMALL"}
  BY <1>1 DEF ArgumentError
<1>5. TypeOK'
  BY <1>1, <1>3, <1>4 DEF TypeOK, IInv, Status
<1>6. CiphertextIsCbc'
  BY <1>1 DEF IInv, CiphertextIsCbc, IsCbc
<1>7. pc' = "encrypt" => Len(text.full) < cap
  <2>1. CASE op = "encrypt"
    BY <1>1, <1>2, <2>1, SizeOfText DEF ArgumentError
  <2>2. CASE op = "decrypt"
    BY <1>1, <2>2
  <2> QED BY <2>1, <2>2
<1>8. pc' = "encrypt" => EncryptedSize(text) = Len(text.full) + 1
  BY <1>1, SizeOfText
<1>9. pc' = "decrypt" => Len(text.full) <= cap /\ Len(text.full) > 0 /\ text.rest = <<>>
  <2>1. text.full # <<>> => Len(text.full) > 0
    BY TextFacts, EmptySeq
  <2> QED BY <1>1, <1>2, <2>1 DEF ArgumentError
<1>10. alias => \A j \in 1..cap : out'[j] = InMemory(text, j)
  BY <1>1
<1>11. EncryptInv'
  BY <1>1, <1>2, <1>7, <1>8, <1>10 DEF EncryptInv, Prev, InMemory, EncryptedSize
<1>12. DecryptInv'
  BY <1>1, <1>2, <1>9, <1>10 DEF DecryptInv, Decrypted, Prev, InMemory
<1>13. ResultInv'
  BY <1>1, <1>4 DEF ResultInv, Finished
<1> QED BY <1>5, <1>6, <1>11, <1>12, <1>13 DEF IInv

(***************************************************************************)
(* What is still to be read is as the caller left it.                      *)
(***************************************************************************)
LEMMA SourceIsText ==
    ASSUME IInv, pc \in {"encrypt", "decrypt"}, i + 1 <= call.cap
    PROVE  Source(i + 1) = InMemory(call.text, i + 1)
<1>1. i + 1 \in i+1..call.cap
  BY DEF IInv, TypeOK
<1> QED BY <1>1 DEF Source, IInv, EncryptInv, DecryptInv

LEMMA EncryptBlockIInv == IInv /\ EncryptBlock => IInv'
<1> SUFFICES ASSUME IInv, EncryptBlock PROVE IInv'
  OBVIOUS
<1> DEFINE n == Len(call.text.full)
           b == E[XorBlock(call.text.full[i + 1], chain)]
<1>1. /\ pc = "encrypt" /\ call.op = "encrypt" /\ i \in Nat /\ i < n /\ n < call.cap
      /\ n \in Nat /\ call.cap \in Nat /\ Len(out) = call.cap /\ out \in Seq(Memory)
      /\ chain \in Block /\ call.iv \in Block /\ call.text \in Text
  BY TextFacts DEF EncryptBlock, IInv, TypeOK, EncryptInv
<1>2. Source(i + 1) = call.text.full[i + 1] /\ call.text.full[i + 1] \in Block
  <2>1. i + 1 \in 1..n
    BY <1>1
  <2> QED BY <1>1, <2>1, SourceIsText, TextFacts, ElementOfSeq DEF InMemory
<1>3. b \in Block
  BY <1>1, <1>2, XorBlockType, CipherAssumption
<1>4. /\ Store(i + 1, b) /\ chain' = b /\ i' = i + 1
      /\ UNCHANGED <<pc, call, status, outLen, sealed>>
  BY <1>2 DEF EncryptBlock
<1>5. /\ out' \in Seq(Memory) /\ Len(out') = Len(out) /\ out'[i + 1] = b
      /\ \A k \in 1..Len(out) : k # i + 1 => out'[k] = out[k]
  <2>1. i + 1 \in 1..Len(out) /\ b \in Memory
    BY <1>1, <1>3, BlockIsMemory
  <2> QED BY <1>1, <1>4, <2>1, StoreInside
<1>6. TypeOK'
  BY <1>1, <1>3, <1>4, <1>5 DEF IInv, TypeOK
<1>7. EncryptInv'
  <2>1. \A j \in 1..i+1 : Prev(call.iv, out', j) = Prev(call.iv, out, j)
    BY <1>1, <1>5 DEF Prev
  <2>2. ASSUME NEW j \in 1..i+1
        PROVE  /\ out'[j] \in Block
               /\ out'[j] = E[XorBlock(call.text.full[j], Prev(call.iv, out', j))]
    <3>1. CASE j = i + 1
      <4>1. chain = Prev(call.iv, out, i + 1)
        BY <1>1 DEF IInv, EncryptInv
      <4> QED BY <1>1, <1>3, <1>5, <2>1, <3>1, <4>1
    <3>2. CASE j # i + 1
      <4>1. j \in 1..i
        BY <1>1, <3>2
      <4> QED BY <1>1, <1>5, <2>1, <4>1 DEF IInv, EncryptInv
    <3> QED BY <3>1, <3>2
  <2>3. chain' = Prev(call.iv, out', i + 2)
    BY <1>1, <1>4, <1>5 DEF Prev
  <2>4. call.alias => \A j \in i+2..call.cap : out'[j] = InMemory(call.text, j)
    BY <1>1, <1>5 DEF IInv, EncryptInv
  <2>5. i + 1 <= n /\ i' + 1 = i + 2
    BY <1>1, <1>4
  <2>6. EncryptedSize(call'.text) = Len(call'.text.full) + 1
    BY <1>1, <1>4 DEF IInv, EncryptInv
  <2> QED BY <1>1, <1>4, <2>2, <2>3, <2>4, <2>5, <2>6 DEF EncryptInv
<1>8. CiphertextIsCbc' /\ DecryptInv' /\ ResultInv'
  BY <1>1, <1>4 DEF IInv, CiphertextIsCbc, IsCbc, DecryptInv, ResultInv, Finished
<1> QED BY <1>6, <1>7, <1>8 DEF IInv

LEMMA EncryptLastIInv == IInv /\ EncryptLast => IInv'
<1> SUFFICES ASSUME IInv, EncryptLast PROVE IInv'
  OBVIOUS
<1> DEFINE n == Len(call.text.full)
           b == E[XorBlock(PaddedText(call.text, n + 1), chain)]
<1>1. /\ pc = "encrypt" /\ call.op = "encrypt" /\ i = n /\ n < call.cap
      /\ n \in Nat /\ call.cap \in Nat /\ Len(out) = call.cap /\ out \in Seq(Memory)
      /\ chain \in Block /\ call.iv \in Block /\ call.text \in Text
  BY TextFacts DEF EncryptLast, IInv, TypeOK, EncryptInv
<1>2. LastBlock = PaddedText(call.text, n + 1)
  <2>1. Source(n + 1) = InMemory(call.text, n + 1)
    BY <1>1, SourceIsText
  <2>2. InMemory(call.text, n + 1) =
          [k \in 1..BlockSize |-> IF k <= Len(call.text.rest) THEN call.text.rest[k] ELSE Untouched]
    BY <1>1 DEF InMemory
  <2>3. PaddedText(call.text, n + 1) =
          [k \in 1..BlockSize |-> IF k <= Len(call.text.rest) THEN call.text.rest[k]
                                  ELSE BlockSize - Len(call.text.rest)]
    BY <1>1 DEF PaddedText
  <2>4. LastBlock =
          [k \in 1..BlockSize |-> IF k <= Len(call.text.rest) THEN Source(n + 1)[k]
                                  ELSE BlockSize - Len(call.text.rest)]
    BY <1>1 DEF LastBlock, PadValue
  <2> QED BY <2>1, <2>2, <2>3, <2>4
<1>3. b \in Block
  <2>1. PaddedText(call.text, n + 1) \in Block
    BY <1>1, PaddedTextType
  <2> QED BY <1>1, <2>1, XorBlockType, CipherAssumption
<1>4. /\ Store(n + 1, b) /\ outLen' = BlockSize * (n + 1)
      /\ sealed' = [text |-> call.text, iv |-> call.iv, ct |-> SubSeq(out', 1, n + 1)]
      /\ pc' = "idle" /\ status' = "OK" /\ UNCHANGED <<call, chain, i>>
  BY <1>1, <1>2 DEF EncryptLast, Return, IInv, EncryptInv
<1>5. /\ out' \in Seq(Memory) /\ Len(out') = Len(out) /\ out'[n + 1] = b
      /\ \A k \in 1..Len(out) : k # n + 1 => out'[k] = out[k]
  <2>1. n + 1 \in 1..Len(out) /\ b \in Memory
    BY <1>1, <1>3, BlockIsMemory
  <2> QED BY <1>1, <1>4, <2>1, StoreInside
<1>6. ASSUME NEW j \in 1..n+1
      PROVE  /\ out'[j] = E[XorBlock(PaddedText(call.text, j), Prev(call.iv, out', j))]
             /\ out'[j] \in Block
  <2>1. Prev(call.iv, out', j) = Prev(call.iv, out, j)
    BY <1>1, <1>5 DEF Prev
  <2>2. out'[j] = E[XorBlock(PaddedText(call.text, j), Prev(call.iv, out', j))]
    <3>1. CASE j = n + 1
      <4>1. chain = Prev(call.iv, out, n + 1)
        BY <1>1 DEF IInv, EncryptInv
      <4> QED BY <1>1, <1>5, <2>1, <3>1, <4>1
    <3>2. CASE j # n + 1
      <4>1. j \in 1..n
        BY <1>1, <3>2
      <4> QED BY <1>1, <1>5, <2>1, <4>1 DEF IInv, EncryptInv, PaddedText
    <3> QED BY <3>1, <3>2
  <2>3. out'[j] \in Block
    <3>1. CASE j = n + 1
      BY <1>3, <1>5, <3>1
    <3>2. CASE j # n + 1
      BY <1>1, <1>5, <3>2 DEF IInv, EncryptInv
    <3> QED BY <3>1, <3>2
  <2> QED BY <2>2, <2>3
<1>7. SubSeq(out', 1, n + 1) \in Seq(Block) /\ Len(SubSeq(out', 1, n + 1)) = n + 1
      /\ \A j \in 1..n+1 : SubSeq(out', 1, n + 1)[j] = out'[j]
  <2>1. n + 1 \in Int /\ 1 \in Int
    BY <1>1
  <2> QED BY <1>1, <1>6, <2>1, SubSeqProperties
<1>8. CiphertextIsCbc'
  <2> DEFINE ct == SubSeq(out', 1, n + 1)
  <2>1. DOMAIN ct = 1..n+1
    BY <1>7, LenProperties
  <2>2. \A j \in 1..n+1 : Prev(call.iv, ct, j) = Prev(call.iv, out', j)
    BY <1>1, <1>7 DEF Prev
  <2>3. \A j \in 1..n+1 : ct[j] = E[XorBlock(PaddedText(call.text, j), Prev(call.iv, ct, j))]
    BY <1>6, <1>7, <2>2
  <2> QED BY <1>4, <1>7, <2>1, <2>3 DEF CiphertextIsCbc, IsCbc
<1>9. TypeOK'
  <2>1. sealed' \in Message
    BY <1>1, <1>4, <1>7 DEF Message
  <2>2. outLen' \in Nat
    BY <1>1, <1>4, SizeAssumption
  <2> QED BY <1>1, <1>4, <1>5, <2>1, <2>2 DEF IInv, TypeOK, Status
<1>10. EncryptInv' /\ DecryptInv' /\ ResultInv'
  BY <1>1, <1>4 DEF EncryptInv, DecryptInv, ResultInv, Finished
<1> QED BY <1>8, <1>9, <1>10 DEF IInv

LEMMA PrevIsBlock ==
    ASSUME NEW iv \in Block, NEW ct \in Seq(Block), NEW j \in 1..Len(ct)+1
    PROVE  Prev(iv, ct, j) \in Block
<1>1. CASE j = 1
  BY <1>1 DEF Prev
<1>2. CASE j # 1
  <2>1. j - 1 \in 1..Len(ct)
    BY <1>2, LenProperties
  <2> QED BY <1>2, <2>1, ElementOfSeq DEF Prev
<1> QED BY <1>1, <1>2

LEMMA DecryptBlockIInv == IInv /\ DecryptBlock => IInv'
<1> SUFFICES ASSUME IInv, DecryptBlock PROVE IInv'
  OBVIOUS
<1> DEFINE c == call.text.full
           n == Len(c)
           b == XorBlock(D[c[i + 1]], chain)
<1>1. /\ pc = "decrypt" /\ call.op = "decrypt" /\ i \in Nat /\ i < n /\ n <= call.cap
      /\ n \in Nat /\ call.cap \in Nat /\ Len(out) = call.cap /\ out \in Seq(Memory)
      /\ chain \in Block /\ call.iv \in Block /\ c \in Seq(Block)
  BY TextFacts DEF DecryptBlock, IInv, TypeOK, DecryptInv
<1>2. Source(i + 1) = c[i + 1] /\ c[i + 1] \in Block
  <2>1. i + 1 \in 1..n
    BY <1>1
  <2> QED BY <1>1, <2>1, SourceIsText, ElementOfSeq DEF InMemory
<1>3. b \in Block
  BY <1>1, <1>2, XorBlockType, CipherAssumption
<1>4. /\ Store(i + 1, b) /\ chain' = c[i + 1] /\ i' = i + 1
      /\ UNCHANGED <<pc, call, status, outLen, sealed>>
  BY <1>2 DEF DecryptBlock
<1>5. /\ out' \in Seq(Memory) /\ Len(out') = Len(out) /\ out'[i + 1] = b
      /\ \A k \in 1..Len(out) : k # i + 1 => out'[k] = out[k]
  <2>1. i + 1 \in 1..Len(out) /\ b \in Memory
    BY <1>1, <1>3, BlockIsMemory
  <2> QED BY <1>1, <1>4, <2>1, StoreInside
<1>6. TypeOK'
  BY <1>1, <1>2, <1>4, <1>5 DEF IInv, TypeOK
<1>7. DecryptInv'
  <2>1. ASSUME NEW j \in 1..i+1 PROVE out'[j] = XorBlock(D[c[j]], Prev(call.iv, c, j))
    <3>1. CASE j = i + 1
      <4>1. chain = Prev(call.iv, c, i + 1)
        BY <1>1 DEF IInv, DecryptInv
      <4> QED BY <1>5, <3>1, <4>1
    <3>2. CASE j # i + 1
      <4>1. j \in 1..i /\ j \in 1..Len(out)
        BY <1>1, <3>2
      <4>2. Decrypted(j)
        BY <1>1, <4>1 DEF IInv, DecryptInv
      <4> QED BY <1>5, <3>2, <4>1, <4>2 DEF Decrypted
    <3> QED BY <3>1, <3>2
  <2>2. chain' = Prev(call.iv, c, i + 2)
    BY <1>1, <1>4 DEF Prev
  <2>3. call.alias => \A j \in i+2..call.cap : out'[j] = InMemory(call.text, j)
    BY <1>1, <1>5 DEF IInv, DecryptInv
  <2>4. i + 1 <= n /\ i' + 1 = i + 2 /\ n > 0 /\ call.text.rest = <<>>
    BY <1>1, <1>4 DEF IInv, DecryptInv
  <2> QED BY <1>1, <1>4, <2>1, <2>2, <2>3, <2>4 DEF DecryptInv, Decrypted
<1>8. CiphertextIsCbc' /\ EncryptInv' /\ ResultInv'
  BY <1>1, <1>4 DEF IInv, CiphertextIsCbc, IsCbc, EncryptInv, ResultInv, Finished
<1> QED BY <1>6, <1>7, <1>8 DEF IInv

LEMMA DecryptDoneIInv == IInv /\ DecryptDone => IInv'
<1> SUFFICES ASSUME IInv, DecryptDone PROVE IInv'
  OBVIOUS
<1>1. pc = "decrypt" /\ pc' = "unpad" /\ i = Len(call.text.full)
      /\ UNCHANGED <<call, out, chain, i, status, outLen, sealed>>
  BY DEF DecryptDone
<1>2. TypeOK' /\ DecryptInv'
  BY <1>1 DEF IInv, TypeOK, DecryptInv, Decrypted
<1>3. CiphertextIsCbc' /\ EncryptInv' /\ ResultInv'
  BY <1>1 DEF IInv, CiphertextIsCbc, IsCbc, EncryptInv, ResultInv, Finished
<1> QED BY <1>2, <1>3 DEF IInv

LEMMA UnpadIInv == IInv /\ Unpad => IInv'
<1> SUFFICES ASSUME IInv, Unpad PROVE IInv'
  OBVIOUS
<1> DEFINE n == Len(call.text.full)
<1>1. /\ pc = "unpad" /\ pc' = "idle" /\ i = n /\ n > 0 /\ n <= call.cap
      /\ UNCHANGED <<call, out, chain, i, sealed>>
      /\ status' = (IF Padded(out[n]) THEN "OK" ELSE "PADDING")
      /\ outLen' = IF Padded(out[n]) THEN BlockSize * n - out[n][BlockSize] ELSE outLen
      /\ \A j \in 1..n : Decrypted(j)
  BY DEF Unpad, Return, IInv, DecryptInv
<1>2. ResultInv'
  BY <1>1 DEF ResultInv, Padded, Decrypted
<1>3. TypeOK'
  <2>1. Padded(out[n]) => BlockSize * n - out[n][BlockSize] \in Nat
    <3>1. SUFFICES ASSUME Padded(out[n]) PROVE BlockSize * n - out[n][BlockSize] \in Nat
      OBVIOUS
    <3>2. n \in Nat \ {0} /\ BlockSize \in Nat \ {0}
      BY <1>1, TextFacts, SizeAssumption DEF IInv, TypeOK
    <3>3. BlockSize * n = BlockSize + BlockSize * (n - 1) /\ BlockSize * (n - 1) \in Nat
      BY <3>2
    <3> QED BY <3>1, <3>2, <3>3 DEF Padded
  <2> QED BY <1>1, <2>1 DEF IInv, TypeOK, Status
<1>4. CiphertextIsCbc' /\ EncryptInv' /\ DecryptInv'
  BY <1>1 DEF IInv, CiphertextIsCbc, IsCbc, EncryptInv, DecryptInv
<1> QED BY <1>2, <1>3, <1>4 DEF IInv

LEMMA CallIInv ==
    ASSUME IInv, NEW text \in Text, NEW iv \in Block,
           NEW buf, buf.cap \in Nat, buf.alias \in BOOLEAN,
           \/ CallEncrypt(text, iv, buf) /\ text \in Texts
           \/ CallDecrypt(text, iv, buf)
    PROVE  IInv'
<1>1. PICK op \in {"encrypt", "decrypt"} :
          Enter(op, text, iv, buf) /\ (op = "encrypt" => text \in Texts)
  BY DEF CallEncrypt, CallDecrypt
<1>2. Enter(op, text, iv, [cap |-> buf.cap, alias |-> buf.alias, null |-> buf.null])
  BY <1>1 DEF Enter
<1> QED BY <1>1, <1>2, EnterIInv

LEMMA BuffersFacts ==
    ASSUME NEW n \in Nat \ {0}, NEW buf \in Buffers(n)
    PROVE  buf.cap \in Nat /\ buf.alias \in BOOLEAN
<1>1. n \in Nat /\ n - 1 \in Nat /\ n + 1 \in Nat
  OBVIOUS
<1>2. CASE buf \in [cap : {n-1, n, n+1}, alias : {FALSE}, null : {{}}]
  <2>1. buf.cap \in {n-1, n, n+1} /\ buf.alias \in {FALSE}
    BY <1>2
  <2> QED BY <1>1, <2>1
<1>3. CASE buf \in [cap : {n}, alias : {TRUE}, null : {{}}]
  <2>1. buf.cap \in {n} /\ buf.alias \in {TRUE}
    BY <1>3
  <2> QED BY <1>1, <2>1
<1>4. CASE buf \in [cap : {n}, alias : {FALSE}, null : {{p} : p \in Pointers}]
  <2> DEFINE N == {{p} : p \in Pointers}
  <2>1. buf \in [cap : {n}, alias : {FALSE}, null : N]
    BY <1>4
  <2> HIDE DEF N
  <2>2. buf.cap \in {n} /\ buf.alias \in {FALSE}
    BY <2>1
  <2> QED BY <1>1, <2>2
<1> QED BY <1>2, <1>3, <1>4 DEF Buffers

LEMMA ChangeIsBlock == ASSUME NEW b \in Block, NEW d \in Change(b) PROVE d \in Block
<1>1. \A k \in 1..BlockSize : (b[k] + 1) % Radix \in Byte
  BY SizeAssumption DEF Block, Byte
<1> QED BY <1>1 DEF Change, Block

LEMMA CopyIsCiphertext ==
    ASSUME NEW ct \in Seq(Block), Len(ct) > 0, NEW d \in Copies(ct)
    PROVE  d \in Seq(Block)
<1>1. SubSeq(ct, 1, Len(ct) - 1) \in Seq(Block)
  <2>1. Len(ct) \in Nat /\ Len(ct) - 1 \in Int
    BY LenProperties
  <2>2. \A j \in 1..Len(ct) - 1 : ct[j] \in Block
    BY <2>1, ElementOfSeq
  <2> QED BY <2>1, <2>2, SubSeqProperties
<1>2. ASSUME NEW j \in DOMAIN ct, NEW b \in Change(ct[j]) PROVE [ct EXCEPT ![j] = b] \in Seq(Block)
  <2>1. j \in 1..Len(ct)
    BY LenProperties
  <2>2. b \in Block
    BY <2>1, ElementOfSeq, ChangeIsBlock
  <2> QED BY <2>1, <2>2, ExceptSeq
<1> QED BY <1>1, <1>2 DEF Copies

LEMMA IInvNext == IInv /\ [Next]_vars => IInv'
<1> SUFFICES ASSUME IInv, [Next]_vars PROVE IInv'
  OBVIOUS
<1>1. CASE UNCHANGED vars
  BY <1>1 DEF vars, IInv, TypeOK, CiphertextIsCbc, IsCbc, EncryptInv, DecryptInv, ResultInv,
              Finished, Decrypted, Padded
<1>2. ASSUME sealed # NoMessage
      PROVE  sealed.ct \in Seq(Block) /\ Len(sealed.ct) \in Nat \ {0} /\ sealed.iv \in Block
  <2>1. sealed.ct \in Seq(Block) /\ sealed.iv \in Block /\ sealed.text \in Text
    BY <1>2 DEF IInv, TypeOK, Message
  <2>2. Len(sealed.ct) = Len(sealed.text.full) + 1
    BY <1>2 DEF IInv, CiphertextIsCbc, IsCbc
  <2> QED BY <2>1, <2>2, TextFacts
<1>3. ASSUME NEW text \in Texts, NEW iv \in IVs, NEW buf \in Buffers(EncryptedSize(text)),
             CallEncrypt(text, iv, buf)
      PROVE  IInv'
  <2>1. text \in Text /\ iv \in Block
    BY InputAssumption
  <2>2. EncryptedSize(text) \in Nat \ {0}
    BY <2>1, TextFacts, SizeOfText
  <2> QED BY <1>3, <2>1, <2>2, BuffersFacts, CallIInv
<1>4. ASSUME NEW ct \in Copies(sealed.ct), NEW iv \in {sealed.iv} \cup IVs,
             NEW buf \in Buffers(Len(sealed.ct)), CallDecrypt(Whole(ct), iv, buf)
      PROVE  IInv'
  <2>1. sealed # NoMessage
    BY <1>4 DEF CallDecrypt
  <2>2. Whole(ct) \in Text /\ iv \in Block
    BY <1>2, <2>1, CopyIsCiphertext, WholeIsText, InputAssumption
  <2> QED BY <1>2, <1>4, <2>1, <2>2, BuffersFacts, CallIInv
<1>5. ASSUME NEW b \in Byte,
             CallDecrypt([full |-> sealed.ct, rest |-> [k \in 1..1 |-> b]], sealed.iv,
                         Exact(Len(sealed.ct) + 1, FALSE))
      PROVE  IInv'
  <2> DEFINE text == [full |-> sealed.ct, rest |-> [k \in 1..1 |-> b]]
             buf == Exact(Len(sealed.ct) + 1, FALSE)
  <2>1. sealed # NoMessage /\ Enter("decrypt", text, sealed.iv, buf)
    BY <1>5 DEF CallDecrypt
  <2>2. buf.cap \in Nat /\ buf.alias \in BOOLEAN
    BY <1>2, <2>1 DEF Exact
  <2>3. text \in Text
    <3>1. 1 \in 0..BlockSize-1 /\ [k \in 1..1 |-> b] \in [1..1 -> Byte]
      BY SizeAssumption
    <3> QED BY <1>2, <2>1, <3>1 DEF Text
  <2> QED BY <1>2, <1>5, <2>1, <2>2, <2>3, CallIInv
<1>6. ASSUME NEW ct \in Strangers, CallDecrypt(Whole(ct), sealed.iv, Exact(Len(ct), TRUE))
      PROVE  IInv'
  <2>1. ct \in Seq(Block) /\ sealed # NoMessage
    BY <1>6, InputAssumption DEF CallDecrypt
  <2>2. Exact(Len(ct), TRUE).cap \in Nat /\ Exact(Len(ct), TRUE).alias \in BOOLEAN
    BY <2>1, LenProperties DEF Exact
  <2> QED BY <1>2, <1>6, <2>1, <2>2, WholeIsText, CallIInv
<1> QED BY <1>1, <1>3, <1>4, <1>5, <1>6, EncryptBlockIInv, EncryptLastIInv, DecryptBlockIInv,
           DecryptDoneIInv, UnpadIInv DEF Next

-----------------------------------------------------------------------------
(***************************************************************************)
(* The invariant is inductive: no step of a call, in place or not, writes  *)
(* over a block that is still to be read.                                  *)
(***************************************************************************)
THEOREM Inductive == Spec => []IInv
<1>1. Init => IInv
  BY InitIInv
<1>2. IInv /\ [Next]_vars => IInv'
  BY IInvNext
<1> QED BY <1>1, <1>2, PTL DEF Spec

(***************************************************************************)
(* The variables keep their types, and no call makes its buffer longer: it *)
(* never stores past the end.                                              *)
(***************************************************************************)
THEOREM TypeCorrect == Spec => []TypeOK
<1>1. IInv => TypeOK
  BY DEF IInv
<1> QED BY <1>1, Inductive, PTL

(***************************************************************************)
(* What mako_cbc_encrypt() leaves in the output buffer is the CBC          *)
(* ciphertext of the padded text, whatever its length and in place too.    *)
(***************************************************************************)
THEOREM CbcByTheBook == Spec => []CiphertextIsCbc
<1>1. IInv => CiphertextIsCbc
  BY DEF IInv
<1> QED BY <1>1, Inductive, PTL

(***************************************************************************)
(* The last block of a padded text is well padded.                         *)
(***************************************************************************)
LEMMA PaddedTextIsPadded ==
    ASSUME NEW text \in Text
    PROVE  LET last == PaddedText(text, Len(text.full) + 1)
           IN  /\ last[BlockSize] = BlockSize - Len(text.rest) /\ Padded(last)
               /\ \A k \in 1..Len(text.rest) : last[k] = text.rest[k]
<1> DEFINE last == PaddedText(text, Len(text.full) + 1)
           r == Len(text.rest)
<1>1. Len(text.full) \in Nat /\ r \in 0..BlockSize-1 /\ BlockSize \in Nat \ {0, 1}
  BY TextFacts, SizeAssumption
<1>2. last = [k \in 1..BlockSize |-> IF k <= r THEN text.rest[k] ELSE BlockSize - r]
  BY <1>1 DEF PaddedText
<1> HIDE DEF last, r
<1>3. last[BlockSize] = BlockSize - r
  BY <1>1, <1>2
<1>4. \A k \in BlockSize-(BlockSize-r)+1..BlockSize : last[k] = BlockSize - r
  BY <1>1, <1>2
<1>5. \A k \in 1..r : last[k] = text.rest[k]
  BY <1>1, <1>2
<1>6. Padded(last)
  BY <1>1, <1>3, <1>4 DEF Padded
<1> QED BY <1>3, <1>5, <1>6 DEF last, r

LEMMA SizeOfPadded ==
    \A s, m, r \in Nat : s * (m + 1) - (s - r) = s * m + r
<1>1. ASSUME NEW s \in Nat, NEW m \in Nat, NEW r \in Nat
      PROVE  s * (m + 1) - (s - r) = s * m + r
  <2>1. s * (m + 1) = s * m + s /\ s * m \in Nat
    OBVIOUS
  <2> QED BY <2>1
<1> QED BY <1>1

LEMMA RoundTripHolds == IInv => RoundTrip
<1> SUFFICES ASSUME IInv, Finished("decrypt"), call.text.full = sealed.ct, call.iv = sealed.iv
             PROVE  /\ status = "OK" /\ outLen = Bytes(sealed.text)
                    /\ \A j \in 1..Len(sealed.text.full) : out[j] = sealed.text.full[j]
                    /\ \A k \in 1..Len(sealed.text.rest) :
                          out[Len(sealed.text.full) + 1][k] = sealed.text.rest[k]
  BY DEF RoundTrip
<1> DEFINE text == sealed.text
           n == Len(text.full) + 1
           pad == BlockSize - Len(text.rest)
<1>1. sealed # NoMessage
  <2>1. Len(sealed.ct) > 0
    BY DEF IInv, ResultInv
  <2> QED BY <2>1 DEF NoMessage
<1>2. text \in Text /\ sealed.iv \in Block /\ sealed.ct \in Seq(Block)
  BY <1>1 DEF IInv, TypeOK, Message
<1>3. Len(sealed.ct) = n /\ IsCbc(text, sealed.iv, sealed.ct)
  BY <1>1 DEF IInv, CiphertextIsCbc, IsCbc
<1>4. Len(text.full) \in Nat /\ Len(text.rest) \in 0..BlockSize-1 /\ BlockSize \in Nat \ {0, 1}
  BY <1>2, TextFacts, SizeAssumption
<1>5. ASSUME NEW j \in 1..n PROVE out[j] = PaddedText(text, j)
  <2> DEFINE prev == Prev(sealed.iv, sealed.ct, j)
             p == PaddedText(text, j)
  <2>1. j \in DOMAIN sealed.ct /\ j \in 1..Len(sealed.ct)
    BY <1>2, <1>3, LenProperties
  <2>2. prev \in Block /\ p \in Block
    BY <1>2, <1>3, <2>1, PrevIsBlock, PaddedTextType
  <2>3. sealed.ct[j] = E[XorBlock(p, prev)] /\ out[j] = XorBlock(D[sealed.ct[j]], prev)
    BY <1>3, <2>1 DEF IsCbc, IInv, ResultInv, Decrypted
  <2>4. D[E[XorBlock(p, prev)]] = XorBlock(p, prev)
    BY <2>2, XorBlockType, CipherAssumption
  <2> QED BY <2>2, <2>3, <2>4, XorBlockCancels
<1>6. out[n] = PaddedText(text, n) /\ n \in 1..n
  BY <1>4, <1>5
<1>7. /\ out[n][BlockSize] = pad /\ Padded(out[n])
      /\ \A k \in 1..Len(text.rest) : out[n][k] = text.rest[k]
  BY <1>2, <1>6, PaddedTextIsPadded
<1>8. status = "OK" /\ outLen = BlockSize * n - pad
  BY <1>3, <1>7 DEF IInv, ResultInv
<1>9. BlockSize * n - pad = BlockSize * Len(text.full) + Len(text.rest)
  <2>1. BlockSize \in Nat /\ Len(text.rest) \in Nat
    BY <1>4
  <2>2. BlockSize * (Len(text.full) + 1) - (BlockSize - Len(text.rest))
           = BlockSize * Len(text.full) + Len(text.rest)
    BY <1>4, <2>1, SizeOfPadded, Zenon
  <2> QED BY <2>2
<1>10. \A j \in 1..Len(text.full) : out[j] = text.full[j]
  <2>1. ASSUME NEW j \in 1..Len(text.full) PROVE out[j] = text.full[j]
    <3>1. j \in 1..n /\ j <= Len(text.full)
      BY <1>4
    <3>2. PaddedText(text, j) = text.full[j]
      BY <3>1 DEF PaddedText
    <3> QED BY <1>5, <3>1, <3>2
  <2> QED BY <2>1
<1> QED BY <1>7, <1>8, <1>9, <1>10 DEF Bytes

(***************************************************************************)
(* Decrypting what was encrypted gives the text back, byte for byte and of *)
(* its own length, for every text and in place too (mako_cbc_decrypt).     *)
(***************************************************************************)
THEOREM TextComesBack == Spec => []RoundTrip
BY RoundTripHolds, Inductive, PTL

(***************************************************************************)
(* A change of some ciphertext blocks reaches, in the text, those blocks   *)
(* and the ones after them, and no other (mako_cbc_decrypt).               *)
(***************************************************************************)
LEMMA XorBlockAssociates ==
    ASSUME NEW a \in Block, NEW b \in Block, NEW c \in Block
    PROVE  XorBlock(XorBlock(a, b), c) = XorBlock(a, XorBlock(b, c))
<1>1. \A k \in 1..BlockSize : Xor(Xor(a[k], b[k]), c[k]) = Xor(a[k], Xor(b[k], c[k]))
  BY XorAssumption DEF Block
<1> QED BY <1>1 DEF XorBlock

LEMMA DamageHolds == IInv => DamageStaysLocal
<1> SUFFICES ASSUME IInv, Finished("decrypt"), call.iv = sealed.iv,
                    Len(call.text.full) = Len(sealed.ct), NEW j \in DOMAIN sealed.ct,
                    call.text.full[j] = sealed.ct[j]
             PROVE  out[j] = XorBlock(PaddedText(sealed.text, j),
                                      XorBlock(Prev(sealed.iv, sealed.ct, j),
                                               Prev(call.iv, call.text.full, j)))
  BY DEF DamageStaysLocal
<1> DEFINE p == PaddedText(sealed.text, j)
           before == Prev(sealed.iv, sealed.ct, j)
           now == Prev(call.iv, call.text.full, j)
<1>1. sealed # NoMessage
  <2>1. Len(sealed.ct) > 0
    BY DEF IInv, ResultInv
  <2> QED BY <2>1 DEF NoMessage
<1>2. sealed.text \in Text /\ sealed.iv \in Block /\ sealed.ct \in Seq(Block)
  BY <1>1 DEF IInv, TypeOK, Message
<1>3. call.text.full \in Seq(Block) /\ j \in 1..Len(sealed.ct) /\ j \in 1..Len(call.text.full)
  BY <1>2, TextFacts, LenProperties DEF IInv, TypeOK
<1>4. IsCbc(sealed.text, sealed.iv, sealed.ct)
  BY <1>1 DEF IInv, CiphertextIsCbc
<1>5. before \in Block /\ now \in Block
  BY <1>2, <1>3, PrevIsBlock
<1>6. p \in Block
  BY <1>2, <1>3, <1>4, PaddedTextType DEF IsCbc
<1>7. sealed.ct[j] = E[XorBlock(p, before)] /\ out[j] = XorBlock(D[sealed.ct[j]], now)
  BY <1>3, <1>4 DEF IsCbc, IInv, ResultInv, Decrypted
<1>8. D[E[XorBlock(p, before)]] = XorBlock(p, before)
  BY <1>5, <1>6, XorBlockType, CipherAssumption
<1> QED BY <1>5, <1>6, <1>7, <1>8, XorBlockAssociates

(***************************************************************************)
(* The same of every reachable state: a block whose ciphertext was not     *)
(* changed comes back, added to the change of the block before it.         *)
(***************************************************************************)
THEOREM DamageContained == Spec => []DamageStaysLocal
BY DamageHolds, Inductive, PTL

(***************************************************************************)
(* What is accepted is the one encoding of what it yields.                 *)
(***************************************************************************)
LEMMA Quotient ==
    ASSUME NEW s \in Nat \ {0}, NEW m \in Nat, NEW r \in 0..s-1
    PROVE  (s * m + r) \div s = m /\ (s * m + r) % s = r
<1> DEFINE x == s * m + r
           q == x \div s
           t == x % s
<1>1. x \in Nat
  <2>1. s * m \in Nat
    OBVIOUS
  <2> QED BY <2>1
<1>2. q \in Nat /\ t \in 0..s-1 /\ x = s * q + t
  BY <1>1, SMT
<1> HIDE DEF q, t
<1>3. s * m + r = s * q + t
  BY <1>2
<1>4. \A a, b \in Nat : a < b => s * b >= s * a + s
  <2>1. ASSUME NEW a \in Nat, NEW b \in Nat, a < b PROVE s * b >= s * a + s
    <3>1. PICK d \in Nat : b = a + 1 + d
      <4>1. b - (a + 1) \in Nat /\ b = a + 1 + (b - (a + 1))
        BY <2>1
      <4> QED BY <4>1
    <3>2. s * b = s * a + s + s * d /\ s * d \in Nat /\ s * a \in Nat
      BY <3>1
    <3> QED BY <3>2
  <2> QED BY <2>1
<1>5. s * m \in Nat /\ s * q \in Nat
  BY <1>2
<1>6. ~(m < q)
  <2>1. m < q => s * q >= s * m + s
    BY <1>2, <1>4
  <2> QED BY <1>2, <1>3, <1>5, <2>1
<1>7. ~(q < m)
  <2>1. q < m => s * m >= s * q + s
    BY <1>2, <1>4
  <2> QED BY <1>2, <1>3, <1>5, <2>1
<1>8. q = m
  BY <1>2, <1>6, <1>7
<1>9. t = r
  BY <1>2, <1>3, <1>5, <1>8
<1> QED BY <1>8, <1>9 DEF q, t

LEMMA CanonicalHolds == IInv => Canonical
<1> SUFFICES ASSUME IInv, Finished("decrypt"), status = "OK"
             PROVE  IsCbc(Yielded, call.iv, call.text.full)
  BY DEF Canonical
<1> DEFINE ct == call.text.full
           n == Len(ct)
           pad == out[n][BlockSize]
           rest == BlockSize - pad
<1>1. call.op = "decrypt" /\ call.iv \in Block /\ ct \in Seq(Block) /\ n \in Nat /\ n > 0
  BY TextFacts DEF IInv, TypeOK, Finished, ResultInv
<1>2. /\ out \in Seq(Memory) /\ Len(out) = call.cap /\ n <= call.cap
      /\ \A j \in 1..n : Decrypted(j)
      /\ Padded(out[n]) /\ outLen = BlockSize * n - pad
  BY DEF IInv, TypeOK, ResultInv
<1>3. ASSUME NEW j \in 1..n
      PROVE  out[j] \in Block /\ ct[j] = E[XorBlock(out[j], Prev(call.iv, ct, j))]
  <2> DEFINE prev == Prev(call.iv, ct, j)
  <2>1. ct[j] \in Block /\ prev \in Block
    BY <1>1, ElementOfSeq, PrevIsBlock
  <2>2. out[j] = XorBlock(D[ct[j]], prev) /\ D[ct[j]] \in Block /\ E[D[ct[j]]] = ct[j]
    BY <1>2, <2>1, CipherAssumption DEF Decrypted
  <2> QED BY <2>1, <2>2, XorBlockType, XorBlockCancels
<1>4. n \in 1..n /\ n - 1 \in Nat /\ BlockSize \in Nat \ {0, 1}
  BY <1>1, SizeAssumption
<1>5. pad \in 1..BlockSize /\ \A k \in BlockSize-pad+1..BlockSize : out[n][k] = pad
  BY <1>2 DEF Padded
<1>6. rest \in 0..BlockSize-1
  BY <1>4, <1>5
<1>7. outLen = BlockSize * (n - 1) + rest
  <2>1. BlockSize * n = BlockSize * (n - 1) + BlockSize /\ BlockSize * (n - 1) \in Nat
    BY <1>4, <1>1
  <2> QED BY <1>2, <1>4, <1>5, <2>1
<1>8. outLen \div BlockSize = n - 1 /\ outLen % BlockSize = rest
  BY <1>4, <1>6, <1>7, Quotient
<1>9. /\ Yielded.full = SubSeq(out, 1, n - 1)
      /\ Yielded.rest = IF rest = 0 THEN <<>> ELSE SubSeq(out[n], 1, rest)
  BY <1>1, <1>8 DEF Yielded
<1>10. /\ Len(Yielded.full) = n - 1
       /\ \A j \in 1..n-1 : Yielded.full[j] = out[j]
  BY <1>2, <1>4, <1>9, SubSeqProperties
<1>11. /\ Len(Yielded.rest) = rest
       /\ \A k \in 1..rest : Yielded.rest[k] = out[n][k]
  <2>1. out[n] \in Seq(Byte) /\ Len(out[n]) = BlockSize
    BY <1>3, <1>4, SeqDef DEF Block
  <2>2. CASE rest = 0
    BY <1>9, <2>2
  <2>3. CASE rest # 0
    BY <1>4, <1>6, <1>9, <2>1, <2>3, SubSeqProperties
  <2> QED BY <2>2, <2>3
<1>12. ASSUME NEW j \in 1..n PROVE PaddedText(Yielded, j) = out[j]
  <2>1. CASE j <= n - 1
    BY <1>4, <1>10, <2>1 DEF PaddedText
  <2>2. CASE j = n
    <3>1. PaddedText(Yielded, n) = [k \in 1..BlockSize |-> IF k <= rest THEN Yielded.rest[k]
                                                            ELSE BlockSize - rest]
      BY <1>1, <1>4, <1>10, <1>11 DEF PaddedText
    <3>2. \A k \in 1..BlockSize : out[n][k] = IF k <= rest THEN Yielded.rest[k] ELSE BlockSize - rest
      <4>1. ASSUME NEW k \in 1..BlockSize, ~(k <= rest) PROVE out[n][k] = BlockSize - rest
        <5>1. k \in BlockSize-pad+1..BlockSize
          BY <1>4, <1>5, <4>1
        <5>2. BlockSize - rest = pad
          BY <1>4, <1>5
        <5> QED BY <1>5, <5>1, <5>2
      <4>2. ASSUME NEW k \in 1..BlockSize, k <= rest PROVE out[n][k] = Yielded.rest[k]
        <5>1. k \in 1..rest
          BY <1>4, <1>6, <4>2
        <5> QED BY <1>11, <5>1
      <4> QED BY <4>1, <4>2
    <3>3. out[n] = [k \in 1..BlockSize |-> out[n][k]]
      BY <1>3, <1>4 DEF Block
    <3> QED BY <2>2, <3>1, <3>2, <3>3
  <2> QED BY <1>4, <2>1, <2>2
<1>13. DOMAIN ct = 1..n /\ n = Len(Yielded.full) + 1
  BY <1>1, <1>10, LenProperties
<1> QED BY <1>3, <1>12, <1>13 DEF IsCbc

(***************************************************************************)
(* A ciphertext mako_cbc_decrypt accepts, wherever it came from, is the    *)
(* one ciphertext of the text it yields.                                   *)
(***************************************************************************)
THEOREM CanonicalEncoding == Spec => []Canonical
BY CanonicalHolds, Inductive, PTL
=============================================================================
