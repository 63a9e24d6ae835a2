------------------------------ MODULE KdfProofs -------------------------------
(***************************************************************************)
(* Theorems about Kdf, for every size of block, number of iterations, and  *)
(* set of salts, passphrases and key lengths.                              *)
(***************************************************************************)
EXTENDS Kdf, SequenceTheorems, TLAPS

Key == [1..BlockSize -> Letters]
States == Seq(Key \cup {Self})
OutBytes == [from : States, counter : 0..255, byte : 1..BlockSize]

(***************************************************************************)
(* The inductive invariant.  A state begins with the salt it was absorbed  *)
(* from and is not empty once all is absorbed; so the bytes made from it   *)
(* begin with that salt too, those of the call and those kept of the first.*)
(***************************************************************************)
Begins(s, salt) == s # <<>> => s[1] = salt

AllFrom(key, salt) ==
    /\ key \in Seq(OutBytes)
    /\ \A n \in 1..Len(key) : key[n].from # <<>> /\ key[n].from[1] = salt

Running == pc \in {"absorb", "stretch", "expand"}

StateInv ==
    /\ state \in States
    /\ Running => args # NoCall /\ Begins(state, args.salt)
    /\ pc = "absorb" => offset < Len(combined) /\ (offset = 0 <=> state = <<>>)
    /\ pc \in {"stretch", "expand"} => state # <<>>

BytesInv ==
    /\ pc \in {"absorb", "stretch"} => key_out = <<>> /\ counter = 0
    /\ args = NoCall => key_out = <<>>
    /\ args # NoCall => AllFrom(key_out, args.salt)
    /\ pc = "idle" => produced = args.len

FirstInv ==
    /\ first # NoCall => /\ AllFrom(first.key, first.args.salt)
                         /\ Len(first.key) = first.args.len /\ first.args.len = args.len
    /\ first # NoCall /\ pc = "idle" => args # NoCall

KdfInv == TypeOK /\ StateInv /\ BytesInv /\ FirstInv

-----------------------------------------------------------------------------
LEMMA Remainder ==
    /\ \A n \in Nat : \A m \in 0..n-1 : m % n = m
    /\ \A n \in Nat \ {0}, m \in Nat : m % n \in 0..n-1
<1>1. \A n \in Nat : \A m \in 0..n-1 : m % n = m
  OBVIOUS
<1>2. \A n \in Nat \ {0}, m \in Nat : m % n \in 0..n-1
  OBVIOUS
<1> QED BY <1>1, <1>2

(***************************************************************************)
(* What is absorbed is a sequence of letters that begins with the salt,    *)
(* and the first chunk of it is the salt.                                  *)
(***************************************************************************)
LEMMA CombinedFacts ==
    ASSUME NEW salt \in Salts, NEW pass \in Passphrases
    PROVE  /\ salt \o pass \in Seq(Letters)
           /\ Len(salt \o pass) \in Nat /\ Len(salt \o pass) >= BlockSize
           /\ \A n \in 1..BlockSize : (salt \o pass)[n] = salt[n]
<1>1. salt \in [1..BlockSize -> Letters] /\ pass \in Seq(Letters) /\ BlockSize \in Nat
  BY SizeAssumption, InputAssumption
<1>2. salt \in Seq(Letters) /\ Len(salt) = BlockSize
  BY <1>1
<1>3. /\ salt \o pass \in Seq(Letters) /\ Len(salt \o pass) = Len(salt) + Len(pass)
      /\ \A n \in 1..Len(salt) + Len(pass) :
             (salt \o pass)[n] = IF n <= Len(salt) THEN salt[n] ELSE pass[n - Len(salt)]
  BY <1>1, <1>2, ConcatProperties, Zenon
<1>4. Len(pass) \in Nat
  BY <1>1
<1> QED BY <1>1, <1>2, <1>3, <1>4

LEMMA ChunkFacts ==
    ASSUME args.salt \in Salts, args.pass \in Passphrases, offset \in Nat
    PROVE  Chunk \in Key /\ (offset = 0 => Chunk = args.salt)
<1> DEFINE n == Len(combined)
<1>0. /\ combined \in Seq(Letters) /\ Len(combined) \in Nat /\ Len(combined) >= BlockSize
      /\ \A k \in 1..BlockSize : combined[k] = args.salt[k]
  BY CombinedFacts, Zenon DEF combined
<1>1. BlockSize \in Nat \ {0} /\ combined \in Seq(Letters) /\ n \in Nat \ {0} /\ n >= BlockSize
  BY <1>0, SizeAssumption
<1>2. \A k \in 1..BlockSize : offset + k - 1 \in Nat
  BY <1>1
<1>3. \A k \in 1..BlockSize : ((offset + k - 1) % n) + 1 \in 1..n
  <2> HIDE DEF n
  <2>1. \A m \in Nat : m % n \in 0..n-1
    BY <1>1, Remainder
  <2>2. ASSUME NEW m \in 0..n-1 PROVE m + 1 \in 1..n
    BY <1>1
  <2> QED BY <1>2, <2>1, <2>2
<1>4. \A k \in 1..BlockSize : combined[((offset + k - 1) % n) + 1] \in Letters
  BY <1>1, <1>3, ElementOfSeq
<1>5. Chunk \in Key
  BY <1>4 DEF Chunk, Cycled, Key
<1>6. ASSUME offset = 0 PROVE Chunk = args.salt
  <2>1. ASSUME NEW k \in 1..BlockSize PROVE ((offset + k - 1) % n) + 1 = k
    <3>1. offset + k - 1 = k - 1 /\ k - 1 \in 0..n-1
      BY <1>1, <1>6
    <3>2. (k - 1) % n = k - 1
      BY <1>1, <3>1, Remainder
    <3> QED BY <3>1, <3>2
  <2>2. Chunk = [k \in 1..BlockSize |-> args.salt[k]]
    BY <1>0, <2>1 DEF Chunk, Cycled
  <2>3. args.salt \in Key
    BY InputAssumption DEF Key
  <2> QED BY <2>2, <2>3 DEF Key
<1> QED BY <1>5, <1>6

(***************************************************************************)
(* Compressing once more keeps what a state begins with.                   *)
(***************************************************************************)
LEMMA CompressFacts ==
    ASSUME NEW s \in States, NEW k \in Key \cup {Self}
    PROVE  /\ Compress(s, k) \in States /\ Compress(s, k) # <<>>
           /\ s # <<>> => Compress(s, k)[1] = s[1]
           /\ s = <<>> => Compress(s, k)[1] = k
<1>1. /\ Append(s, k) \in States /\ Append(s, k) # <<>> /\ Len(s) \in Nat
      /\ \A n \in 1..Len(s) : Append(s, k)[n] = s[n]
      /\ Append(s, k)[Len(s) + 1] = k
  BY AppendProperties DEF States
<1>2. s # <<>> => Len(s) \in Nat \ {0}
  BY EmptySeq DEF States
<1>3. s = <<>> => Len(s) = 0
  OBVIOUS
<1> QED BY <1>1, <1>2, <1>3 DEF Compress

LEMMA ArgsFacts ==
    ASSUME TypeOK, args # NoCall
    PROVE  /\ args \in [salt : Salts, pass : Passphrases, len : KeyLengths]
           /\ args.salt \in Salts /\ args.pass \in Passphrases /\ args.len \in Nat
BY SizeAssumption DEF TypeOK

LEMMA CallIsNotNone == \A a, b, c : [salt |-> a, pass |-> b, len |-> c] # NoCall
<1> SUFFICES ASSUME NEW a, NEW b, NEW c PROVE [salt |-> a, pass |-> b, len |-> c] # NoCall
  OBVIOUS
<1>1. DOMAIN [salt |-> a, pass |-> b, len |-> c] # DOMAIN NoCall
  BY DEF NoCall
<1> QED BY <1>1

-----------------------------------------------------------------------------
LEMMA InitInv == Init => KdfInv
<1> SUFFICES ASSUME Init PROVE KdfInv
  OBVIOUS
<1>1. state \in States /\ Len(state) = 0 /\ Len(key_out) = 0 /\ args.len = 0
  BY DEF Init, States, NoCall
<1>2. TypeOK
  BY <1>1, SizeAssumption DEF Init, TypeOK
<1> QED BY <1>1, <1>2 DEF Init, KdfInv, StateInv, BytesInv, FirstInv, Running

LEMMA CallInv ==
    ASSUME KdfInv, NEW salt \in Salts, NEW pass \in Passphrases, NEW n \in KeyLengths,
           Call(salt, pass, n)
    PROVE  KdfInv'
<1>1. args' = [salt |-> salt, pass |-> pass, len |-> n] /\ args' # NoCall /\ n \in Nat
  BY CallIsNotNone, SizeAssumption DEF Call
<1>2. Len(combined') \in Nat /\ Len(combined') >= BlockSize /\ BlockSize \in Nat \ {0}
  <2>1. combined' = salt \o pass
    BY <1>1 DEF combined
  <2> QED BY <2>1, CombinedFacts, SizeAssumption
<1>3. state' = <<>> /\ key_out' = <<>> /\ state' \in States /\ Len(state') = 0 /\ Len(key_out') = 0
  BY DEF Call, States
<1>4. TypeOK'
  BY <1>1, <1>3, SizeAssumption DEF Call, TypeOK
<1>5. StateInv'
  BY <1>1, <1>2, <1>3 DEF Call, StateInv, Running, Begins
<1>6. BytesInv'
  BY <1>1, <1>3, EmptySeq DEF Call, BytesInv, AllFrom
<1>7. FirstInv'
  BY <1>1 DEF Call, KdfInv, FirstInv
<1> QED BY <1>4, <1>5, <1>6, <1>7 DEF KdfInv

LEMMA AbsorbInv == KdfInv /\ Absorb => KdfInv'
<1> SUFFICES ASSUME KdfInv, Absorb PROVE KdfInv'
  OBVIOUS
<1>1. /\ args # NoCall /\ args' = args /\ key_out' = key_out /\ key_out = <<>> /\ counter = 0
      /\ pc = "absorb" /\ offset \in Nat /\ BlockSize \in Nat \ {0} /\ first' = first
      /\ combined' = combined /\ state \in States /\ Begins(state, args.salt)
      /\ offset = 0 <=> state = <<>>
  BY SizeAssumption DEF KdfInv, TypeOK, StateInv, BytesInv, Running, Absorb, combined
<1>2. /\ args.salt \in Salts /\ args.pass \in Passphrases /\ args.len \in Nat
      /\ args \in [salt : Salts, pass : Passphrases, len : KeyLengths]
  BY <1>1, ArgsFacts DEF KdfInv
<1>3. Chunk \in Key /\ (offset = 0 => Chunk = args.salt)
  BY <1>1, <1>2, ChunkFacts
<1>4. state' \in States /\ state' # <<>> /\ state'[1] = args.salt
  BY <1>1, <1>3, CompressFacts DEF Absorb, Begins
<1>5. \A n \in 1..Len(state') : state'[n] = Self \/ state'[n] \in [1..BlockSize -> Letters]
  BY <1>4, ElementOfSeq DEF States, Key
<1>6. TypeOK'
  BY <1>1, <1>2, <1>5 DEF KdfInv, TypeOK, Absorb
<1>7. offset' = offset + BlockSize /\ offset' # 0
  BY <1>1 DEF Absorb
<1>8. StateInv'
  BY <1>1, <1>4, <1>7 DEF StateInv, Running, Begins, Absorb
<1>9. BytesInv' /\ FirstInv'
  BY <1>1 DEF KdfInv, BytesInv, FirstInv, Absorb
<1> QED BY <1>6, <1>8, <1>9 DEF KdfInv

LEMMA StretchInv == KdfInv /\ Stretch => KdfInv'
<1> SUFFICES ASSUME KdfInv, Stretch PROVE KdfInv'
  OBVIOUS
<1>1. /\ args # NoCall /\ pc = "stretch" /\ state \in States /\ state # <<>>
      /\ Begins(state, args.salt)
  BY DEF KdfInv, StateInv, Running, Stretch
<1>2. state' \in States /\ state' # <<>> /\ state'[1] = args.salt
  BY <1>1, CompressFacts DEF Stretch, Begins
<1>3. \A n \in 1..Len(state') : state'[n] = Self \/ state'[n] \in [1..BlockSize -> Letters]
  BY <1>2, ElementOfSeq DEF States, Key
<1>4. TypeOK'
  BY <1>1, <1>3, SizeAssumption DEF KdfInv, TypeOK, Stretch
<1>5. StateInv'
  BY <1>1, <1>2 DEF StateInv, Running, Begins, Stretch
<1>6. BytesInv' /\ FirstInv'
  BY <1>1 DEF KdfInv, BytesInv, FirstInv, Stretch
<1> QED BY <1>4, <1>5, <1>6 DEF KdfInv

LEMMA StretchedInv == KdfInv /\ Stretched => KdfInv'
BY DEF KdfInv, TypeOK, StateInv, BytesInv, FirstInv, Running, Begins, combined, Stretched

(***************************************************************************)
(* The bytes Expand takes: as many as fit, each a byte of the next block.  *)
(***************************************************************************)
Taken == [n \in 1..Take |-> OutByte(n)]

LEMMA TakenFacts ==
    ASSUME KdfInv, Expand
    PROVE  /\ Take \in 1..BlockSize /\ produced + Take <= args.len
           /\ produced \in Nat /\ args.len \in Nat
           /\ Take < BlockSize => produced + Take = args.len
           /\ Taken \in Seq(OutBytes) /\ Len(Taken) = Take
           /\ \A n \in 1..Take : Taken[n] = OutByte(n)
           /\ key_out \in Seq(OutBytes) /\ Len(key_out) = produced
           /\ key_out' \in Seq(OutBytes) /\ Len(key_out') = produced + Take
           /\ \A n \in 1..produced + Take :
                  key_out'[n] = IF n <= produced THEN key_out[n] ELSE OutByte(n - produced)
<1>1. /\ args # NoCall /\ pc = "expand" /\ state \in States /\ counter \in 0..255
      /\ BlockSize \in Nat \ {0} /\ produced < args.len
  BY SizeAssumption DEF KdfInv, TypeOK, StateInv, Running, Expand
<1>2. key_out \in Seq(OutBytes) /\ produced = Len(key_out) /\ produced \in Nat /\ args.len \in Nat
  <2>1. key_out \in Seq(OutBytes) /\ produced = Len(key_out)
    BY <1>1 DEF KdfInv, TypeOK, BytesInv, AllFrom
  <2> QED BY <1>1, <2>1, ArgsFacts DEF KdfInv
<1>3. /\ Take \in 1..BlockSize /\ produced + Take <= args.len
      /\ Take < BlockSize => produced + Take = args.len
  BY <1>1, <1>2 DEF Take
<1>4. \A n \in 1..Take : OutByte(n) \in OutBytes
  BY <1>1, <1>3, CompressFacts DEF OutByte, OutBytes
<1>5. Taken \in Seq(OutBytes) /\ Len(Taken) = Take /\ \A n \in 1..Take : Taken[n] = OutByte(n)
  BY <1>3, <1>4 DEF Taken
<1>6. key_out' = key_out \o Taken
  BY DEF Expand, Taken
<1>7. /\ key_out' \in Seq(OutBytes) /\ Len(key_out') = Len(key_out) + Len(Taken)
      /\ \A n \in 1..Len(key_out) + Len(Taken) :
             key_out'[n] = IF n <= Len(key_out) THEN key_out[n] ELSE Taken[n - Len(key_out)]
  BY <1>2, <1>5, <1>6, ConcatProperties, Zenon
<1>8. ASSUME NEW n \in 1..produced + Take
      PROVE  key_out'[n] = IF n <= produced THEN key_out[n] ELSE OutByte(n - produced)
  BY <1>2, <1>3, <1>5, <1>7
<1> QED BY <1>2, <1>3, <1>5, <1>7, <1>8

LEMMA ExpandInv == KdfInv /\ Expand => KdfInv'
<1> SUFFICES ASSUME KdfInv, Expand PROVE KdfInv'
  OBVIOUS
<1>1. /\ args # NoCall /\ pc = "expand" /\ state \in States /\ state # <<>> /\ counter \in 0..255
      /\ Begins(state, args.salt) /\ pc' = pc /\ args' = args /\ state' = state /\ first' = first
      /\ offset' = offset /\ iter' = iter /\ produced' = produced + Take
      /\ counter' = (counter + 1) % 256
  BY DEF KdfInv, TypeOK, StateInv, Running, Expand
<1>2. counter' \in 0..255
  BY <1>1
<1>3. TypeOK'
  BY <1>1, <1>2, TakenFacts DEF KdfInv, TypeOK
<1>4. StateInv'
  BY <1>1 DEF StateInv, Running
<1>5. \A n \in 1..Take : OutByte(n).from # <<>> /\ OutByte(n).from[1] = args.salt
  BY <1>1, CompressFacts DEF OutByte, Begins
<1>6. AllFrom(key_out, args.salt)
  BY <1>1 DEF KdfInv, BytesInv
<1>7. ASSUME NEW n \in 1..Len(key_out')
      PROVE  key_out'[n].from # <<>> /\ key_out'[n].from[1] = args.salt
  <2>1. n \in 1..produced + Take /\ produced \in Nat /\ Take \in Nat
    BY TakenFacts
  <2>2. CASE n <= produced
    BY <1>6, <2>1, <2>2, TakenFacts DEF AllFrom
  <2>3. CASE n > produced
    <3>1. n - produced \in 1..Take /\ key_out'[n] = OutByte(n - produced)
      BY <2>1, <2>3, TakenFacts
    <3> QED BY <1>5, <3>1
  <2> QED BY <2>1, <2>2, <2>3
<1>8. AllFrom(key_out', args'.salt)
  BY <1>1, <1>7, TakenFacts DEF AllFrom
<1>9. BytesInv' /\ FirstInv'
  BY <1>1, <1>8 DEF KdfInv, BytesInv, FirstInv
<1> QED BY <1>3, <1>4, <1>9 DEF KdfInv

LEMMA ReturnInv == KdfInv /\ Return => KdfInv'
<1> SUFFICES ASSUME KdfInv, Return PROVE KdfInv'
  OBVIOUS
<1>1. /\ args # NoCall /\ pc = "expand" /\ AllFrom(key_out, args.salt) /\ produced = Len(key_out)
      /\ args.len \in Nat /\ key_out \in Seq(OutBytes) /\ produced <= args.len
      /\ produced >= args.len
  BY ArgsFacts DEF KdfInv, TypeOK, StateInv, BytesInv, Running, Return, AllFrom
<1>2. produced = args.len
  BY <1>1
<1>3. TypeOK' /\ StateInv' /\ BytesInv'
  BY <1>1, <1>2 DEF KdfInv, TypeOK, StateInv, BytesInv, Running, Return
<1>4. FirstInv'
  BY <1>1, <1>2 DEF KdfInv, FirstInv, Return
<1> QED BY <1>3, <1>4 DEF KdfInv

LEMMA StepInv == KdfInv /\ [Next]_vars => KdfInv'
<1>1. ASSUME KdfInv, UNCHANGED vars PROVE KdfInv'
  <2>1. TypeOK'
    BY <1>1 DEF vars, KdfInv, TypeOK
  <2>2. StateInv'
    BY <1>1 DEF vars, KdfInv, StateInv, Running, combined
  <2>3. BytesInv' /\ FirstInv'
    BY <1>1 DEF vars, KdfInv, BytesInv, FirstInv
  <2> QED BY <2>1, <2>2, <2>3 DEF KdfInv
<1> QED BY <1>1, CallInv, AbsorbInv, StretchInv, StretchedInv, ExpandInv, ReturnInv DEF Next

LEMMA Invariance == Spec => []KdfInv
BY InitInv, StepInv, PTL DEF Spec

(***************************************************************************)
(* Every reachable state of a derivation is well typed: the key is filled  *)
(* from its beginning and never past its end (mako_kdf_derive).            *)
(***************************************************************************)
THEOREM TypeCorrect == Spec => []TypeOK
<1>1. KdfInv => TypeOK
  BY DEF KdfInv
<1> QED BY <1>1, Invariance, PTL

(***************************************************************************)
(* Different salts give keys that have no byte in common, whatever the     *)
(* passphrases and however the last block is filled (lines 55-57, 71-77).  *)
(***************************************************************************)
THEOREM SaltsApart == Spec => []SaltsSeparate
<1>1. KdfInv => SaltsSeparate
  <2> SUFFICES ASSUME KdfInv, Returned, args.salt # first.args.salt,
                      NEW m \in 1..args.len, NEW n \in 1..args.len
               PROVE  key_out[m] # first.key[n]
    BY DEF SaltsSeparate, SomeByteInCommon
  <2>1. /\ AllFrom(key_out, args.salt) /\ Len(key_out) = args.len
        /\ AllFrom(first.key, first.args.salt) /\ Len(first.key) = args.len
    BY DEF KdfInv, TypeOK, BytesInv, FirstInv, Returned
  <2>2. key_out[m].from[1] = args.salt /\ first.key[n].from[1] = first.args.salt
    BY <2>1 DEF AllFrom
  <2> QED BY <2>2
<1> QED BY <1>1, Invariance, PTL

-----------------------------------------------------------------------------
(***************************************************************************)
(* The 8-bit counter is enough for 256 blocks (line 121).  For as long as  *)
(* there is more to come, there are counters left for it and no byte has   *)
(* been made from the present one.                                         *)
(***************************************************************************)
FewBlocks == \A n \in KeyLengths : n <= 256 * BlockSize

CounterInv ==
    /\ pc = "expand" /\ produced < args.len =>
           /\ args.len - produced <= BlockSize * (256 - counter)
           /\ \A m \in 1..Len(key_out) : key_out[m].counter < counter
    /\ \A m, n \in 1..Len(key_out) : key_out[m] = key_out[n] => m = n

LEMMA StretchedCounter == FewBlocks /\ KdfInv /\ CounterInv /\ Stretched => CounterInv'
<1> SUFFICES ASSUME FewBlocks, KdfInv, CounterInv, Stretched PROVE CounterInv'
  OBVIOUS
<1>1. args # NoCall /\ key_out = <<>> /\ counter = 0
  BY DEF KdfInv, StateInv, BytesInv, Running, Stretched
<1>2. Len(key_out) = 0 /\ produced = 0 /\ args.len \in KeyLengths /\ args.len \in Nat
  BY <1>1, ArgsFacts DEF KdfInv, TypeOK
<1>3. args.len - produced <= BlockSize * (256 - counter)
  BY <1>1, <1>2, SizeAssumption DEF FewBlocks
<1> QED BY <1>2, <1>3 DEF Stretched, CounterInv

LEMMA ExpandCounter == KdfInv /\ CounterInv /\ Expand => CounterInv'
<1> SUFFICES ASSUME KdfInv, CounterInv, Expand PROVE CounterInv'
  OBVIOUS
<1>1. /\ pc = "expand" /\ produced < args.len /\ args' = args /\ pc' = pc
      /\ produced' = produced + Take /\ counter' = (counter + 1) % 256
      /\ counter \in 0..255 /\ BlockSize \in Nat \ {0}
  BY SizeAssumption DEF KdfInv, TypeOK, Expand
<1>2. /\ args.len - produced <= BlockSize * (256 - counter)
      /\ \A m \in 1..Len(key_out) : key_out[m].counter < counter
      /\ \A m, n \in 1..Len(key_out) : key_out[m] = key_out[n] => m = n
  BY <1>1 DEF CounterInv
<1>3. /\ Take \in 1..BlockSize /\ produced \in Nat /\ args.len \in Nat
      /\ Take < BlockSize => produced + Take = args.len
      /\ Len(key_out) = produced /\ Len(key_out') = produced + Take
      /\ \A n \in 1..produced + Take :
             key_out'[n] = IF n <= produced THEN key_out[n] ELSE OutByte(n - produced)
  BY TakenFacts
<1>4. \A n : OutByte(n).counter = counter /\ OutByte(n).byte = n
  BY DEF OutByte
<1>5. ASSUME NEW m \in 1..Len(key_out'), NEW n \in 1..Len(key_out'), key_out'[m] = key_out'[n]
      PROVE  m = n
  <2>1. CASE m <= produced /\ n <= produced
    BY <1>2, <1>3, <1>5, <2>1
  <2>2. CASE m <= produced /\ n > produced
    <3>1. key_out'[m].counter < counter
      BY <1>2, <1>3, <2>2
    <3>2. key_out'[n].counter = counter
      BY <1>3, <1>4, <2>2
    <3> QED BY <1>1, <1>5, <3>1, <3>2
  <2>3. CASE m > produced /\ n <= produced
    <3>1. key_out'[n].counter < counter
      BY <1>2, <1>3, <2>3
    <3>2. key_out'[m].counter = counter
      BY <1>3, <1>4, <2>3
    <3> QED BY <1>1, <1>5, <3>1, <3>2
  <2>4. CASE m > produced /\ n > produced
    <3>1. key_out'[m].byte = m - produced /\ key_out'[n].byte = n - produced
      BY <1>3, <1>4, <2>4
    <3>2. m - produced = n - produced
      BY <1>5, <3>1
    <3> QED BY <1>3, <3>2
  <2> QED BY <1>3, <2>1, <2>2, <2>3, <2>4
<1>6. ASSUME produced' < args'.len
      PROVE  /\ args'.len - produced' <= BlockSize * (256 - counter')
             /\ \A m \in 1..Len(key_out') : key_out'[m].counter < counter'
  <2>1. Take = BlockSize
    BY <1>1, <1>3, <1>6
  <2>2. BlockSize * (256 - counter) = BlockSize * (255 - counter) + BlockSize
    BY <1>1
  <2>3. args.len - produced' <= BlockSize * (255 - counter)
    BY <1>1, <1>2, <1>3, <2>1, <2>2
  <2>4. counter # 255
    BY <1>1, <1>3, <1>6, <2>3
  <2>5. counter' = counter + 1
    BY <1>1, <2>4
  <2>6. args'.len - produced' <= BlockSize * (256 - counter')
    BY <1>1, <2>3, <2>5
  <2>7. ASSUME NEW m \in 1..Len(key_out') PROVE key_out'[m].counter < counter'
    <3>1. CASE m <= produced
      <4>1. m \in 1..Len(key_out) /\ key_out'[m] = key_out[m]
        BY <1>3, <3>1
      <4>2. key_out[m] \in OutBytes
        <5>1. key_out \in Seq(OutBytes)
          BY TakenFacts
        <5> QED BY <4>1, <5>1, ElementOfSeq
      <4>3. key_out[m].counter \in 0..255
        BY <4>2 DEF OutBytes
      <4>4. key_out[m].counter < counter
        BY <1>2, <4>1
      <4>5. key_out[m].counter < counter + 1
        <5>1. \A a, b \in 0..255 : a < b => a < b + 1
          OBVIOUS
        <5>2. counter \in 0..255
          BY <1>1
        <5> QED BY <4>3, <4>4, <5>1, <5>2
      <4> QED BY <2>5, <4>1, <4>5
    <3>2. CASE m > produced
      BY <1>1, <1>3, <1>4, <2>5, <3>2
    <3> QED BY <1>3, <3>1, <3>2
  <2> QED BY <2>6, <2>7
<1> QED BY <1>5, <1>6 DEF CounterInv

LEMMA OtherCounter ==
    ASSUME KdfInv, CounterInv,
           \/ \E salt \in Salts, pass \in Passphrases, n \in KeyLengths : Call(salt, pass, n)
           \/ Absorb \/ Stretch \/ Return \/ UNCHANGED vars
    PROVE  CounterInv'
<1>1. CASE \E salt \in Salts, pass \in Passphrases, n \in KeyLengths : Call(salt, pass, n)
  BY <1>1 DEF Call, CounterInv
<1>2. CASE Absorb
  BY <1>2 DEF Absorb, CounterInv
<1>3. CASE Stretch
  BY <1>3 DEF Stretch, CounterInv
<1>4. CASE Return
  BY <1>4 DEF Return, CounterInv
<1>5. CASE UNCHANGED vars
  BY <1>5 DEF vars, CounterInv
<1> QED BY <1>1, <1>2, <1>3, <1>4, <1>5

(***************************************************************************)
(* A key of at most 256 blocks is filled, and no byte of it is a byte      *)
(* written before (lines 98-129).                                          *)
(***************************************************************************)
THEOREM KeyIsFilled == ASSUME FewBlocks PROVE Spec => []KeyFilled
<1>1. Init => CounterInv
  BY DEF Init, CounterInv
<1>2. KdfInv /\ CounterInv /\ [Next]_vars => CounterInv'
  BY StretchedCounter, ExpandCounter, OtherCounter DEF Next
<1>3. KdfInv /\ CounterInv => KeyFilled
  BY DEF KdfInv, TypeOK, BytesInv, CounterInv, KeyFilled, Returned
<1> QED BY <1>1, <1>2, <1>3, Invariance, PTL DEF Spec

-----------------------------------------------------------------------------
(***************************************************************************)
(* What was absorbed can be read off a state: the chunks of the text, and  *)
(* then nothing but Self.  So two texts that lead to one state have as     *)
(* many chunks, and the same ones.                                         *)
(***************************************************************************)
Chunks(s, c, text) == \A j \in 1..c : s[j] = Cycled(text, (j - 1) * BlockSize)

Absorbed(s, c, text) ==
    /\ c \in 1..Len(s)
    /\ (c - 1) * BlockSize < Len(text) /\ Len(text) <= c * BlockSize
    /\ Chunks(s, c, text)
    /\ \A j \in c+1..Len(s) : s[j] = Self

Made(s, text) == \E c \in Nat : Absorbed(s, c, text)

AllMade(key, text) == \A n \in 1..Len(key) : Made(key[n].from, text)

FirstText == first.args.salt \o first.args.pass

AbsorbingInv ==
    pc = "absorb" => offset = Len(state) * BlockSize /\ Chunks(state, Len(state), combined)

MadeInv ==
    /\ pc \in {"stretch", "expand"} => Made(state, combined)
    /\ args # NoCall => AllMade(key_out, combined)
    /\ first # NoCall => /\ AllMade(first.key, FirstText)
                         /\ first.args.salt \in Salts /\ first.args.pass \in Passphrases

CollideInv == AbsorbingInv /\ MadeInv

LEMMA Product ==
    ASSUME NEW n \in Nat \ {0}
    PROVE  /\ \A a, b \in Nat : a * n \in Nat /\ (a + 1) * n = a * n + n
           /\ \A a, b \in Nat : a * n < b * n => a < b
<1>1. \A a \in Nat : a * n \in Nat /\ (a + 1) * n = a * n + n
  OBVIOUS
<1>2. ASSUME NEW a \in Nat, NEW b \in Nat, b <= a PROVE b * n <= a * n
  <2>1. PICK d \in Nat : a = b + d
    <3>1. a - b \in Nat /\ a = b + (a - b)
      BY <1>2
    <3> QED BY <3>1
  <2>2. a * n = b * n + d * n /\ d * n \in Nat /\ b * n \in Nat
    BY <2>1
  <2> QED BY <2>2
<1>3. ASSUME NEW a \in Nat, NEW b \in Nat, a * n < b * n PROVE a < b
  <2>1. a * n \in Nat /\ b * n \in Nat
    BY <1>1
  <2> QED BY <1>2, <1>3, <2>1
<1> QED BY <1>1, <1>3

(***************************************************************************)
(* Place n of a text is byte k of its chunk j.                             *)
(***************************************************************************)
LEMMA Place ==
    ASSUME NEW c \in Nat, NEW n \in Nat \ {0}, n <= c * BlockSize
    PROVE  \E j \in 1..c, k \in 1..BlockSize : (j - 1) * BlockSize + k = n
<1>0. BlockSize \in Nat \ {0}
  BY SizeAssumption
<1> DEFINE q == (n - 1) \div BlockSize
           r == (n - 1) % BlockSize
<1>1. q \in Nat /\ r \in 0..BlockSize-1 /\ n - 1 = q * BlockSize + r
  BY <1>0
<1> HIDE DEF q, r
<1>2. q * BlockSize < c * BlockSize
  <2>1. q * BlockSize \in Nat /\ c * BlockSize \in Nat
    BY <1>0, <1>1, Product
  <2> QED BY <1>1, <2>1
<1>3. q < c
  BY <1>0, <1>1, <1>2, Product
<1>4. q + 1 \in 1..c /\ r + 1 \in 1..BlockSize
  BY <1>0, <1>1, <1>3
<1>5. ((q + 1) - 1) * BlockSize + (r + 1) = n
  <2>1. (q + 1) - 1 = q /\ q * BlockSize \in Nat
    BY <1>0, <1>1, Product
  <2> QED BY <1>0, <1>1, <2>1
<1> QED BY <1>4, <1>5

LEMMA NumberOfChunks ==
    ASSUME NEW c \in Nat \ {0}, NEW len \in Nat,
           (c - 1) * BlockSize < len, len <= c * BlockSize
    PROVE  (len - 1) \div BlockSize = c - 1
<1>0. BlockSize \in Nat \ {0}
  BY SizeAssumption
<1> DEFINE q == (len - 1) \div BlockSize
           r == (len - 1) % BlockSize
<1>1. (c - 1) * BlockSize \in Nat /\ c - 1 \in Nat /\ c * BlockSize = (c - 1) * BlockSize + BlockSize
  <2>1. c - 1 \in Nat /\ (c - 1) + 1 = c
    OBVIOUS
  <2> QED BY <1>0, <2>1, Product
<1>2. len - 1 \in Nat
  BY <1>1
<1>3. q \in Nat /\ r \in 0..BlockSize-1 /\ len - 1 = q * BlockSize + r
  BY <1>0, <1>2
<1> HIDE DEF q, r
<1>4. q * BlockSize \in Nat /\ (q + 1) * BlockSize = q * BlockSize + BlockSize
  BY <1>0, <1>3, Product
<1>5. q * BlockSize < c * BlockSize /\ (c - 1) * BlockSize < (q + 1) * BlockSize
  BY <1>0, <1>1, <1>3, <1>4
<1>6. q < c /\ c - 1 < q + 1
  BY <1>0, <1>1, <1>3, <1>5, Product
<1>7. q = c - 1
  BY <1>1, <1>3, <1>6
<1> QED BY <1>7 DEF q

(***************************************************************************)
(* A chunk is no Self, so one state tells where its text ended.            *)
(***************************************************************************)
LEMMA ChunkIsNotSelf == \A text, from : Cycled(text, from) # Self
<1> SUFFICES ASSUME NEW text, NEW from PROVE Cycled(text, from) # Self
  OBVIOUS
<1>1. 1 \in DOMAIN Cycled(text, from)
  BY SizeAssumption DEF Cycled
<1>2. 1 \notin DOMAIN Self
  BY DEF Self
<1> QED BY <1>1, <1>2

LEMMA OneNumber ==
    ASSUME NEW s \in States, NEW c \in Nat, NEW d \in Nat, NEW t, NEW u,
           Absorbed(s, c, t), Absorbed(s, d, u)
    PROVE  c = d
<1>1. Len(s) \in Nat /\ c \in 1..Len(s) /\ d \in 1..Len(s)
  BY LenProperties DEF Absorbed, States
<1>2. ASSUME NEW m \in Nat, NEW n \in Nat, NEW v, NEW w, Absorbed(s, m, v), Absorbed(s, n, w)
      PROVE  ~(m < n)
  <2> SUFFICES ASSUME m < n PROVE FALSE
    OBVIOUS
  <2>1. n \in 1..n /\ n \in m+1..Len(s)
    BY <1>1, <1>2 DEF Absorbed
  <2>2. s[n] = Self /\ s[n] = Cycled(w, (n - 1) * BlockSize)
    BY <1>2, <2>1 DEF Absorbed, Chunks
  <2> QED BY <2>2, ChunkIsNotSelf
<1>3. ~(c < d) /\ ~(d < c)
  BY <1>2
<1> QED BY <1>3

LEMMA OneTextFills ==
    ASSUME NEW s \in States, NEW short \in Seq(Letters), NEW long \in Seq(Letters),
           Made(s, short), Made(s, long), Len(short) # 0, Len(short) <= Len(long)
    PROVE  Fills(short, long)
<1>0. BlockSize \in Nat \ {0} /\ Len(short) \in Nat \ {0} /\ Len(long) \in Nat \ {0}
  BY SizeAssumption, LenProperties
<1>1. PICK c \in Nat : Absorbed(s, c, short)
  BY DEF Made
<1>2. Absorbed(s, c, long)
  BY <1>1, OneNumber DEF Made
<1>3. c \in Nat \ {0}
  BY <1>1 DEF Absorbed
<1>4. (Len(short) - 1) \div BlockSize = c - 1 /\ (Len(long) - 1) \div BlockSize = c - 1
  BY <1>0, <1>1, <1>2, <1>3, NumberOfChunks DEF Absorbed
<1>5. ASSUME NEW n \in 1..Len(long)
      PROVE  long[n] = short[((n - 1) % Len(short)) + 1]
  <2>1. PICK j \in 1..c, k \in 1..BlockSize : (j - 1) * BlockSize + k = n
    <3>1. n \in Nat \ {0} /\ n <= Len(long)
      BY <1>0
    <3>2. n <= c * BlockSize
      <4>1. Len(long) <= c * BlockSize /\ c * BlockSize \in Nat
        BY <1>0, <1>2, Product DEF Absorbed
      <4> QED BY <1>0, <3>1, <4>1
    <3> QED BY <3>1, <3>2, Place
  <2>2. Cycled(short, (j - 1) * BlockSize) = Cycled(long, (j - 1) * BlockSize)
    BY <1>1, <1>2 DEF Absorbed, Chunks
  <2>3. ASSUME NEW t
        PROVE  Cycled(t, (j - 1) * BlockSize)[k] = t[((n - 1) % Len(t)) + 1]
    <3> DEFINE from == (j - 1) * BlockSize
    <3>1. from + k - 1 = n - 1
      BY <1>0, <2>1
    <3> HIDE DEF from
    <3>2. Cycled(t, from)[k] = t[((from + k - 1) % Len(t)) + 1]
      BY DEF Cycled
    <3>3. Cycled(t, from)[k] = t[((n - 1) % Len(t)) + 1]
      BY <3>1, <3>2
    <3> QED BY <3>3 DEF from
  <2>4. (n - 1) % Len(long) = n - 1
    BY <1>0
  <2>5. long[n] = Cycled(long, (j - 1) * BlockSize)[k]
    <3>1. Cycled(long, (j - 1) * BlockSize)[k] = long[((n - 1) % Len(long)) + 1]
      BY <2>3, Zenon
    <3>2. (n - 1) + 1 = n
      OBVIOUS
    <3>3. ((n - 1) % Len(long)) + 1 = n
      BY <2>4, <3>2, Zenon
    <3> QED BY <3>1, <3>3, Zenon
  <2>6. Cycled(short, (j - 1) * BlockSize)[k] = short[((n - 1) % Len(short)) + 1]
    BY <2>3, Zenon
  <2> QED BY <2>2, <2>5, <2>6, Zenon
<1> QED BY <1>4, <1>5 DEF Fills

-----------------------------------------------------------------------------
LEMMA MoreSelf ==
    ASSUME NEW s \in States, NEW text, Made(s, text)
    PROVE  Made(Compress(s, Self), text)
<1> DEFINE t == Compress(s, Self)
<1>1. PICK c \in Nat : Absorbed(s, c, text)
  BY DEF Made
<1>2. /\ Len(s) \in Nat /\ Len(t) = Len(s) + 1 /\ t[Len(s) + 1] = Self
      /\ \A n \in 1..Len(s) : t[n] = s[n]
  BY AppendProperties, LenProperties DEF States, Compress
<1> HIDE DEF t
<1>3. Absorbed(t, c, text)
  BY <1>1, <1>2 DEF Absorbed, Chunks
<1> QED BY <1>3 DEF Made, t

LEMMA AbsorbCollide == KdfInv /\ CollideInv /\ Absorb => CollideInv'
<1> SUFFICES ASSUME KdfInv, CollideInv, Absorb PROVE CollideInv'
  OBVIOUS
<1>1. /\ pc = "absorb" /\ args # NoCall /\ state \in States /\ BlockSize \in Nat \ {0}
      /\ offset = Len(state) * BlockSize /\ Chunks(state, Len(state), combined)
      /\ offset \in Nat /\ offset < Len(combined) /\ key_out = <<>>
      /\ state' = Append(state, Chunk) /\ offset' = offset + BlockSize /\ combined' = combined
      /\ key_out' = key_out /\ first' = first /\ args' = args
      /\ pc' = IF offset' < Len(combined) THEN "absorb" ELSE "stretch"
  BY SizeAssumption DEF KdfInv, TypeOK, StateInv, BytesInv, Running, Absorb, CollideInv,
     AbsorbingInv, combined, Compress
<1>2. /\ Len(state) \in Nat /\ Len(state') = Len(state) + 1
      /\ state'[Len(state) + 1] = Cycled(combined, Len(state) * BlockSize)
      /\ \A n \in 1..Len(state) : state'[n] = state[n]
  <2>1. Chunk \in Key
    BY <1>1, ArgsFacts, ChunkFacts DEF KdfInv
  <2> QED BY <1>1, <2>1, AppendProperties, LenProperties DEF States, Chunk
<1>3. Chunks(state', Len(state'), combined)
  BY <1>1, <1>2 DEF Chunks
<1>4. offset' = Len(state') * BlockSize
  BY <1>1, <1>2, Product
<1>5. Len(combined) \in Nat
  BY <1>1, ArgsFacts, CombinedFacts DEF KdfInv, combined
<1>6. ASSUME pc' = "stretch" PROVE Absorbed(state', Len(state'), combined)
  BY <1>1, <1>2, <1>3, <1>4, <1>5, <1>6 DEF Absorbed
<1>7. AllMade(key_out', combined')
  BY <1>1 DEF AllMade
<1>8. FirstText' = FirstText
  BY <1>1 DEF FirstText
<1> QED BY <1>1, <1>2, <1>3, <1>4, <1>6, <1>7, <1>8 DEF CollideInv, AbsorbingInv, MadeInv, Made

LEMMA ExpandCollide == KdfInv /\ CollideInv /\ Expand => CollideInv'
<1> SUFFICES ASSUME KdfInv, CollideInv, Expand PROVE CollideInv'
  OBVIOUS
<1>1. /\ pc = "expand" /\ pc' = pc /\ args # NoCall /\ args' = args /\ state \in States
      /\ state' = state /\ first' = first /\ combined' = combined /\ FirstText' = FirstText
      /\ Made(state, combined) /\ AllMade(key_out, combined)
  BY DEF KdfInv, StateInv, Running, Expand, CollideInv, MadeInv, combined, FirstText
<1>2. \A n : Made(OutByte(n).from, combined)
  BY <1>1, MoreSelf DEF OutByte
<1>3. ASSUME NEW n \in 1..Len(key_out') PROVE Made(key_out'[n].from, combined)
  <2>1. n \in 1..produced + Take /\ produced \in Nat /\ Take \in Nat /\ Len(key_out) = produced
    BY TakenFacts
  <2>2. key_out'[n] = IF n <= produced THEN key_out[n] ELSE OutByte(n - produced)
    BY <2>1, TakenFacts
  <2> QED BY <1>1, <1>2, <2>1, <2>2 DEF AllMade
<1> QED BY <1>1, <1>3 DEF CollideInv, AbsorbingInv, MadeInv, AllMade

LEMMA OtherCollide ==
    ASSUME KdfInv, CollideInv,
           \/ \E salt \in Salts, pass \in Passphrases, n \in KeyLengths : Call(salt, pass, n)
           \/ Stretch \/ Stretched \/ Return \/ UNCHANGED vars
    PROVE  CollideInv'
<1>1. ASSUME NEW salt \in Salts, NEW pass \in Passphrases, NEW n \in KeyLengths,
             Call(salt, pass, n)
      PROVE  CollideInv'
  <2>1. state' = <<>> /\ key_out' = <<>> /\ Len(state') = 0 /\ Len(key_out') = 0
        /\ offset' = 0 /\ pc' \in {"absorb", "aborted"} /\ FirstText' = FirstText /\ first' = first
    BY <1>1 DEF Call, FirstText
  <2>2. 0 * BlockSize = 0
    BY SizeAssumption
  <2> QED BY <2>1, <2>2 DEF CollideInv, AbsorbingInv, MadeInv, Chunks, AllMade
<1>2. CASE Stretch
  <2>1. /\ pc = "stretch" /\ pc' = pc /\ state \in States /\ Made(state, combined)
        /\ state' = Compress(state, Self) /\ combined' = combined
        /\ FirstText' = FirstText /\ first' = first /\ args' = args /\ key_out' = key_out
    BY <1>2 DEF Stretch, KdfInv, StateInv, CollideInv, MadeInv, combined, FirstText
  <2> QED BY <2>1, MoreSelf DEF CollideInv, AbsorbingInv, MadeInv
<1>3. CASE Stretched
  BY <1>3 DEF Stretched, CollideInv, AbsorbingInv, MadeInv, combined, FirstText
<1>4. CASE Return
  <2>1. args # NoCall /\ args.salt \in Salts /\ args.pass \in Passphrases
    BY <1>4, ArgsFacts DEF Return, KdfInv, StateInv, Running
  <2>2. /\ pc' = "idle" /\ args' = args /\ key_out' = key_out /\ combined' = combined
        /\ first' = IF first = NoCall THEN [args |-> args, key |-> key_out] ELSE first
    BY <1>4 DEF Return, combined
  <2>3. CASE first = NoCall
    <3>1. FirstText' = combined /\ first'.key = key_out /\ first'.args = args
      BY <2>2, <2>3 DEF FirstText, combined
    <3> QED BY <2>1, <2>2, <3>1 DEF CollideInv, AbsorbingInv, MadeInv
  <2>4. CASE first # NoCall
    <3>1. FirstText' = FirstText /\ first' = first
      BY <2>2, <2>4 DEF FirstText
    <3> QED BY <2>1, <2>2, <3>1 DEF CollideInv, AbsorbingInv, MadeInv
  <2> QED BY <2>3, <2>4
<1>5. CASE UNCHANGED vars
  BY <1>5 DEF vars, CollideInv, AbsorbingInv, MadeInv, combined, FirstText
<1> QED BY <1>1, <1>2, <1>3, <1>4, <1>5

(***************************************************************************)
(* Under one salt two passphrases have a byte of their keys in common only *)
(* if one is the other with the rest of its last block filled as the code  *)
(* fills it, whatever the letters, lengths and iterations (lines 20-25).   *)
(***************************************************************************)
THEOREM OnlyFillCollides == Spec => []CollideOnlyByFill
<1>1. Init => CollideInv
  <2>1. Init => Len(key_out) = 0 /\ pc = "idle" /\ args = NoCall /\ first = NoCall
    BY DEF Init
  <2> QED BY <2>1 DEF CollideInv, AbsorbingInv, MadeInv
<1>2. KdfInv /\ CollideInv /\ [Next]_vars => CollideInv'
  BY AbsorbCollide, ExpandCollide, OtherCollide DEF Next
<1>3. KdfInv /\ CollideInv => CollideOnlyByFill
  <2> SUFFICES ASSUME KdfInv, CollideInv, Returned, NEW m \in 1..args.len, NEW n \in 1..args.len,
                      key_out[m] = first.key[n]
               PROVE  Fills(FirstText, combined) \/ Fills(combined, FirstText)
    BY DEF CollideOnlyByFill, SomeByteInCommon, FirstText, combined
  <2>1. /\ args # NoCall /\ Len(key_out) = args.len /\ Len(first.key) = args.len
        /\ AllFrom(key_out, args.salt)
    BY DEF KdfInv, TypeOK, BytesInv, FirstInv, Returned
  <2>2. Made(key_out[m].from, combined) /\ Made(key_out[m].from, FirstText)
    BY <2>1 DEF CollideInv, MadeInv, AllMade, Returned
  <2>3. key_out[m].from \in States
    <3>1. key_out[m] \in OutBytes
      BY <2>1, ElementOfSeq DEF AllFrom
    <3> QED BY <3>1 DEF OutBytes
  <2>4. combined \in Seq(Letters) /\ Len(combined) \in Nat \ {0}
    BY <2>1, ArgsFacts, CombinedFacts, SizeAssumption DEF KdfInv, combined
  <2>5. FirstText \in Seq(Letters) /\ Len(FirstText) \in Nat \ {0}
    <3>1. first.args.salt \in Salts /\ first.args.pass \in Passphrases
      BY DEF CollideInv, MadeInv, Returned
    <3>2. /\ FirstText \in Seq(Letters) /\ Len(FirstText) \in Nat /\ Len(FirstText) >= BlockSize
      BY <3>1, CombinedFacts, Zenon DEF FirstText
    <3> QED BY <3>2, SizeAssumption
  <2>6. CASE Len(FirstText) <= Len(combined)
    BY <2>2, <2>3, <2>4, <2>5, <2>6, OneTextFills
  <2>7. CASE Len(combined) <= Len(FirstText)
    BY <2>2, <2>3, <2>4, <2>5, <2>7, OneTextFills
  <2> QED BY <2>4, <2>5, <2>6, <2>7
<1> QED BY <1>1, <1>2, <1>3, Invariance, PTL DEF Spec
=============================================================================
