-------------------------- MODULE BlockCipherProofs --------------------------
(***************************************************************************)
(* Theorems about KeySchedule, for every number of rounds, S-box and table *)
(* of round constants: the expansion stays inside its arrays, and          *)
(* different keys stay apart in every window of the schedule.              *)
(*                                                                         *)
(* Theorems about BlockCipher: each layer of the cipher has the inverse    *)
(* the code takes for it, and so have the two block functions, for every   *)
(* block and key; what they compute is a permutation of the blocks and its *)
(* inverse.  All that is assumed of the tables are the facts about single  *)
(* bytes that TLC evaluates on them.                                       *)
(***************************************************************************)
EXTENDS BlockCipher, FiniteSetTheorems, WellFoundedInduction, TLAPS

LEMMA XorByte ==
    ASSUME NEW x \in Byte, NEW y \in Byte
    PROVE  x ++ y \in Byte /\ (x ++ y) ++ y = x
BY DEF Byte, ++

LEMMA WordXor ==
    ASSUME NEW x \in Word, NEW y \in Word
    PROVE  word_xor(x, y) \in Word /\ word_xor(word_xor(x, y), y) = x
<1>1. \A b \in Index : x[b] \in Byte /\ y[b] \in Byte
  BY DEF Word
<1>2. \A b \in Index : x[b] ++ y[b] \in Byte /\ (x[b] ++ y[b]) ++ y[b] = x[b]
  BY <1>1, XorByte
<1>3. word_xor(x, y) \in Word
  BY <1>2 DEF word_xor, Word
<1>4. word_xor(word_xor(x, y), y) = [b \in Index |-> (x[b] ++ y[b]) ++ y[b]]
  BY DEF word_xor
<1>5. x = [b \in Index |-> x[b]]
  BY DEF Word
<1> QED BY <1>2, <1>3, <1>4, <1>5

(***************************************************************************)
(* Temp, as a function of the words and of their number.                   *)
(***************************************************************************)
TempOf(w, n, size) ==
    IF n % size = 0
    THEN [sub_word(rot_word(w[n - 1])) EXCEPT ![0] = @ ++ RCON[n \div size]]
    ELSE IF size > 6 /\ n % size = 4 THEN sub_word(w[n - 1])
    ELSE w[n - 1]

LEMMA SubWordType == ASSUME NEW w \in Word PROVE sub_word(w) \in Word /\ rot_word(w) \in Word
<1>1. \A b \in Index : (b + 1) % 4 \in Index
  BY DEF Index
<1> QED BY <1>1, TablesAssumption DEF sub_word, rot_word, Word

LEMMA TempType ==
    ASSUME NEW size \in KeyWords, NEW n \in size..TotalWords-1, NEW w, w[n - 1] \in Word
    PROVE  n \div size \in 1..Rounds /\ TempOf(w, n, size) \in Word
<1>1. n \div size \in 1..Rounds
  <2>1. CASE size = 4
    BY <2>1, SizeAssumption DEF TotalWords
  <2>2. CASE size = 8
    BY <2>2, SizeAssumption DEF TotalWords
  <2> QED BY <2>1, <2>2 DEF KeyWords
<1>2. RCON[n \div size] \in Byte
  BY <1>1, SizeAssumption, TablesAssumption
<1>3. ASSUME NEW v \in Word PROVE [v EXCEPT ![0] = @ ++ RCON[n \div size]] \in Word
  <2>1. v[0] ++ RCON[n \div size] \in Byte
    BY <1>2, XorByte DEF Word, Index
  <2> QED BY <2>1 DEF Word
<1> QED BY <1>1, <1>3, SubWordType DEF TempOf

-----------------------------------------------------------------------------
(***************************************************************************)
(* Every word follows from the word before it and the one key_words        *)
(* before, so a window of key_words words leads back to the key.           *)
(***************************************************************************)
Expanded(w, n, size) ==
    \A m \in size..n-1 : w[m] = word_xor(w[m - size], TempOf(w, m, size))

Recurrence ==
    made \in {"expanding", "OK"} =>
        /\ Expanded(ks, i, key_words)
        /\ other # NoSchedule => Expanded(other.ks, TotalWords, key_words)

KeyIInv == KeyTypeOK /\ Recurrence /\ SchedulesDiffer

LEMMA KeyInitInv == KeyInit => KeyIInv
BY DEF KeyInit, KeyIInv, KeyTypeOK, Recurrence, SchedulesDiffer, KeyWords

LEMMA FirstKeyInv == ASSUME KeyIInv, NEW k, NEW n \in KeyWords, FirstKey(k, n) PROVE KeyIInv'
<1>1. /\ ks' = k /\ key' = k /\ key_words' = n /\ i' = n /\ made' = "expanding"
      /\ other' = NoSchedule /\ k \in [0..n-1 -> Word]
  BY DEF FirstKey, Load, KeyOf, KeyIInv, KeyTypeOK
<1>2. n \in {4, 8} /\ TotalWords \in Nat /\ n <= TotalWords
  BY SizeAssumption DEF KeyWords, TotalWords
<1>3. i' < TotalWords => i' \div n \in 1..Rounds
  BY <1>1, <1>2, SizeAssumption DEF TotalWords
<1>4. KeyTypeOK'
  BY <1>1, <1>2, <1>3 DEF KeyTypeOK, KeyOf, KeyWords
<1>5. Recurrence'
  BY <1>1, <1>2 DEF Recurrence, Expanded
<1>6. SchedulesDiffer'
  BY <1>1 DEF SchedulesDiffer
<1> QED BY <1>4, <1>5, <1>6 DEF KeyIInv

LEMMA SecondKeyInv == ASSUME KeyIInv, NEW k, SecondKey(k) PROVE KeyIInv'
<1> DEFINE n == key_words
<1>1. /\ ks' = k /\ key' = k /\ key_words' = n /\ i' = n /\ made' = "expanding"
      /\ other' = [key |-> key, ks |-> ks] /\ k \in [0..n-1 -> Word] /\ k # key
      /\ made = "OK"
  BY DEF SecondKey, Load, KeyOf
<1>2. n \in {4, 8} /\ TotalWords \in Nat /\ n <= TotalWords
  BY SizeAssumption DEF KeyWords, TotalWords, KeyIInv, KeyTypeOK
<1>3. i' < TotalWords => i' \div n \in 1..Rounds
  BY <1>1, <1>2, SizeAssumption DEF TotalWords
<1>4. /\ key \in [0..n-1 -> Word] /\ ks \in [0..TotalWords-1 -> Word] /\ i = TotalWords
      /\ \A m \in 0..n-1 : ks[m] = key[m]
  BY <1>1 DEF KeyIInv, KeyTypeOK, KeyOf
<1>5. KeyTypeOK'
  BY <1>1, <1>2, <1>3, <1>4 DEF KeyTypeOK, KeyOf, KeyWords
<1>6. Recurrence'
  <2>1. Expanded(ks, TotalWords, n)
    BY <1>1, <1>4 DEF KeyIInv, Recurrence
  <2> QED BY <1>1, <1>2, <2>1 DEF Recurrence, Expanded
<1>7. PICK m \in 0..n-1 : k[m] # key[m]
  <2> SUFFICES ASSUME \A m \in 0..n-1 : k[m] = key[m] PROVE FALSE
    OBVIOUS
  <2>1. k = [m \in 0..n-1 |-> k[m]] /\ key = [m \in 0..n-1 |-> key[m]]
    BY <1>1, <1>4
  <2>2. [m \in 0..n-1 |-> k[m]] = [m \in 0..n-1 |-> key[m]]
    OBVIOUS
  <2> QED BY <1>1, <2>1, <2>2
<1>8. SchedulesDiffer'
  <2>1. SUFFICES ASSUME NEW j \in 0..n-n
                 PROVE  \E q \in j..j+n-1 : k[q] # ks[q]
    BY <1>1 DEF SchedulesDiffer
  <2>2. j = 0
    BY <1>2
  <2>3. m \in j..j+n-1
    BY <1>2, <2>2
  <2> QED BY <1>4, <1>7, <2>3
<1> QED BY <1>5, <1>6, <1>8 DEF KeyIInv

LEMMA ExpandInv == ASSUME KeyIInv, Expand PROVE KeyIInv'
<1> DEFINE n == key_words
<1>1. /\ made = "expanding" /\ i \in n..TotalWords-1 /\ n \in KeyWords
      /\ ks' = [q \in 0..i |-> IF q = i THEN word_xor(Feed, Temp) ELSE ks[q]]
      /\ i' = i + 1 /\ UNCHANGED <<key_words, made, key, other>>
  BY SizeAssumption DEF Expand, KeyIInv, KeyTypeOK, TotalWords, KeyWords
<1>2. n \in {4, 8} /\ TotalWords \in Nat /\ i \in Nat /\ n <= i /\ i < TotalWords
  BY <1>1, SizeAssumption DEF KeyWords, TotalWords
<1>3. /\ key \in [0..n-1 -> Word] /\ ks \in [0..i-1 -> Word]
      /\ \A m \in 0..n-1 : ks[m] = key[m]
  BY <1>1 DEF KeyIInv, KeyTypeOK, KeyOf
<1>4. ks[i - 1] \in Word /\ ks[i - n] \in Word
  BY <1>2, <1>3
<1>5. Temp = TempOf(ks, i, n) /\ Temp \in Word /\ Feed = ks[i - n]
  <2>1. TempOf(ks, i, n) \in Word
    BY <1>1, <1>4, TempType
  <2> QED BY <2>1 DEF Temp, TempOf, Feed
<1>6. word_xor(Feed, Temp) \in Word
  BY <1>4, <1>5, WordXor
<1>7. /\ ks' \in [0..i -> Word] /\ \A m \in 0..i-1 : ks'[m] = ks[m]
      /\ ks'[i] = word_xor(ks[i - n], TempOf(ks, i, n))
  BY <1>1, <1>2, <1>3, <1>5, <1>6
<1>8. i' < TotalWords => i' \div n \in 1..Rounds
  BY <1>1, <1>2, SizeAssumption DEF TotalWords
<1>9. KeyTypeOK'
  <2>1. i' \in n..TotalWords /\ i' - 1 = i
    BY <1>1, <1>2
  <2>2. \A m \in 0..n-1 : ks'[m] = key[m]
    BY <1>2, <1>3, <1>7
  <2> QED BY <1>1, <1>7, <1>8, <2>1, <2>2 DEF KeyIInv, KeyTypeOK
<1>10. Expanded(ks', i + 1, n)
  <2>1. ASSUME NEW m \in n..i-1 PROVE ks'[m] = word_xor(ks'[m - n], TempOf(ks', m, n))
    <3>1. m \in 0..i-1 /\ m - n \in 0..i-1 /\ m - 1 \in 0..i-1
      BY <1>2
    <3>2. ks[m] = word_xor(ks[m - n], TempOf(ks, m, n))
      BY <1>1 DEF KeyIInv, Recurrence, Expanded
    <3>3. TempOf(ks', m, n) = TempOf(ks, m, n)
      BY <1>7, <3>1 DEF TempOf
    <3> QED BY <1>7, <3>1, <3>2, <3>3
  <2>2. ks'[i] = word_xor(ks'[i - n], TempOf(ks', i, n))
    <3>1. i - n \in 0..i-1 /\ i - 1 \in 0..i-1
      BY <1>2
    <3>2. TempOf(ks', i, n) = TempOf(ks, i, n)
      BY <1>7, <3>1 DEF TempOf
    <3> QED BY <1>7, <3>1, <3>2
  <2>3. \A m \in n..(i+1)-1 : m = i \/ m \in n..i-1
    BY <1>2
  <2> QED BY <2>1, <2>2, <2>3 DEF Expanded
<1>11. Recurrence'
  BY <1>1, <1>10 DEF KeyIInv, Recurrence
<1>12. ASSUME other # NoSchedule
       PROVE  \E q \in i+1-n..i : ks'[q] # other.ks[q]
  <2> SUFFICES ASSUME \A q \in i+1-n..i : ks'[q] = other.ks[q] PROVE FALSE
    OBVIOUS
  <2>1. other.ks \in [0..TotalWords-1 -> Word] /\ Expanded(other.ks, TotalWords, n)
    BY <1>1, <1>12 DEF KeyIInv, KeyTypeOK, Recurrence
  <2>2. \A m \in i-n..i : ks'[m] \in Word /\ other.ks[m] \in Word
    BY <1>2, <1>7, <2>1
  <2>3. /\ ks'[i] = word_xor(ks'[i - n], TempOf(ks', i, n))
        /\ other.ks[i] = word_xor(other.ks[i - n], TempOf(other.ks, i, n))
    <3>1. i \in n..(i+1)-1 /\ i \in n..TotalWords-1
      BY <1>1, <1>2
    <3> QED BY <1>10, <2>1, <3>1 DEF Expanded
  <2>4. \A m \in i-n+1..i : ks'[m] = other.ks[m]
    BY <1>2
  <2>5. ks'[i - n] = other.ks[i - n]
    <3>1. i - 1 \in i-n+1..i /\ i \in i-n+1..i /\ i - n \in i-n..i /\ i - 1 \in i-n..i
      BY <1>2
    <3>2. ks'[i - 1] = other.ks[i - 1] /\ ks'[i] = other.ks[i]
      BY <2>4, <3>1
    <3>3. TempOf(ks', i, n) = TempOf(other.ks, i, n) /\ TempOf(ks', i, n) \in Word
      <4>1. TempOf(ks', i, n) \in Word
        BY <1>1, <2>2, <3>1, TempType
      <4> QED BY <3>2, <4>1 DEF TempOf
    <3>4. /\ ks'[i - n] = word_xor(ks'[i], TempOf(ks', i, n))
          /\ other.ks[i - n] = word_xor(other.ks[i], TempOf(other.ks, i, n))
      BY <2>2, <2>3, <3>1, <3>3, WordXor
    <3> QED BY <3>2, <3>3, <3>4
  <2>6. PICK q \in i-n..i-1 : ks[q] # other.ks[q]
    <3>1. i - n \in 0..i-n
      BY <1>2
    <3>2. \E q \in i-n..(i-n)+n-1 : ks[q] # other.ks[q]
      BY <1>1, <1>12, <3>1 DEF KeyIInv, SchedulesDiffer
    <3>3. (i-n)+n-1 = i-1
      BY <1>2
    <3> QED BY <3>2, <3>3
  <2>7. q = i - n \/ q \in i+1-n..i
    BY <1>2
  <2>8. ks'[q] = ks[q]
    BY <1>2, <1>7
  <2> QED BY <2>5, <2>6, <2>7, <2>8
<1>13. SchedulesDiffer'
  <2>a. other' = other /\ key_words' = n /\ i' = i + 1
    BY <1>1
  <2> SUFFICES ASSUME other # NoSchedule, NEW j \in 0..i+1-n
               PROVE  \E q \in j..j+n-1 : ks'[q] # other.ks[q]
    BY <1>2, <2>a DEF SchedulesDiffer
  <2>1. CASE j = i + 1 - n
    <3>1. j + n - 1 = i
      BY <1>2, <2>1
    <3> QED BY <1>12, <2>1, <3>1
  <2>2. CASE j # i + 1 - n
    <3>1. j \in 0..i-n
      BY <1>2, <2>2
    <3>2. PICK q \in j..j+n-1 : ks[q] # other.ks[q]
      BY <1>1, <3>1 DEF KeyIInv, SchedulesDiffer
    <3>3. q \in 0..i-1
      BY <1>2, <3>1
    <3> QED BY <1>7, <3>2, <3>3
  <2> QED BY <2>1, <2>2
<1> QED BY <1>9, <1>11, <1>13 DEF KeyIInv

LEMMA ReadyInv == ASSUME KeyIInv, Ready PROVE KeyIInv'
<1>1. made = "expanding" /\ made' = "OK" /\ UNCHANGED <<ks, key_words, i, key, other>>
  BY DEF Ready
<1>2. i = TotalWords
  BY <1>1, SizeAssumption DEF Ready, KeyIInv, KeyTypeOK, TotalWords, KeyWords
<1>3. KeyTypeOK'
  BY <1>1, <1>2 DEF KeyIInv, KeyTypeOK
<1> QED BY <1>1, <1>3 DEF KeyIInv, Recurrence, SchedulesDiffer

LEMMA KeyNextInv == KeyIInv /\ [KeyNext]_keyVars => KeyIInv'
<1> SUFFICES ASSUME KeyIInv, [KeyNext]_keyVars PROVE KeyIInv'
  OBVIOUS
<1>1. CASE UNCHANGED keyVars
  BY <1>1 DEF keyVars, KeyIInv, KeyTypeOK, Recurrence, SchedulesDiffer
<1>2. ASSUME NEW null \in BOOLEAN, Refuse(null) PROVE KeyIInv'
  BY <1>2 DEF Refuse, KeyIInv, KeyTypeOK, Recurrence, SchedulesDiffer
<1> QED BY <1>1, <1>2, FirstKeyInv, SecondKeyInv, ExpandInv, ReadyInv DEF KeyNext

(***************************************************************************)
(* mako_key_init() reads no word before it has written it, no round        *)
(* constant but those of the rounds, and leaves a round key for each.      *)
(***************************************************************************)
THEOREM KeyTypeCorrect == KeySpec => []KeyTypeOK
<1>1. KeyIInv => KeyTypeOK
  BY DEF KeyIInv
<1> QED BY <1>1, KeyInitInv, KeyNextInv, PTL DEF KeySpec

(***************************************************************************)
(* Different keys of one size make schedules that differ in every window.  *)
(***************************************************************************)
THEOREM DifferentKeysDiffer == KeySpec => []SchedulesDiffer
<1>1. KeyIInv => SchedulesDiffer
  BY DEF KeyIInv
<1> QED BY <1>1, KeyInitInv, KeyNextInv, PTL DEF KeySpec

-----------------------------------------------------------------------------
(***************************************************************************)
(* Sums of four bytes.                                                     *)
(***************************************************************************)
LEMMA Medial ==
    ASSUME NEW x, NEW y, NEW z, NEW w
    PROVE  (x ++ y) ++ (z ++ w) = (x ++ z) ++ (y ++ w)
BY DEF ++

LEMMA SumType == ASSUME NEW f \in [Index -> Byte] PROVE Sum(f) \in Byte
<1>1. f[0] \in Byte /\ f[1] \in Byte /\ f[2] \in Byte /\ f[3] \in Byte
  BY DEF Index
<1> QED BY <1>1, XorByte DEF Sum

LEMMA SumPlus ==
    ASSUME NEW f, NEW g
    PROVE  Sum(f) ++ Sum(g) = Sum([j \in Index |-> f[j] ++ g[j]])
<1> DEFINE h == [j \in Index |-> f[j] ++ g[j]]
<1>1. /\ h[0] = f[0] ++ g[0] /\ h[1] = f[1] ++ g[1]
      /\ h[2] = f[2] ++ g[2] /\ h[3] = f[3] ++ g[3]
  BY DEF Index
<1> HIDE DEF h
<1>2. (f[0] ++ f[1]) ++ (g[0] ++ g[1]) = h[0] ++ h[1]
  BY <1>1, Medial
<1>3. ((f[0] ++ f[1]) ++ f[2]) ++ ((g[0] ++ g[1]) ++ g[2])
        = ((f[0] ++ f[1]) ++ (g[0] ++ g[1])) ++ (f[2] ++ g[2])
  BY Medial
<1>4. (((f[0] ++ f[1]) ++ f[2]) ++ f[3]) ++ (((g[0] ++ g[1]) ++ g[2]) ++ g[3])
        = (((f[0] ++ f[1]) ++ f[2]) ++ ((g[0] ++ g[1]) ++ g[2])) ++ (f[3] ++ g[3])
  BY Medial
<1>5. Sum(f) ++ Sum(g) = ((h[0] ++ h[1]) ++ h[2]) ++ h[3]
  BY <1>1, <1>2, <1>3, <1>4 DEF Sum
<1> QED BY <1>5 DEF Sum, h

LEMMA SumSwap ==
    ASSUME NEW M
    PROVE  Sum([k \in Index |-> Sum(M[k])])
              = Sum([j \in Index |-> Sum([k \in Index |-> M[k][j]])])
<1> DEFINE f == [j \in Index |-> M[0][j] ++ M[1][j]]
           g == [j \in Index |-> f[j] ++ M[2][j]]
           h == [j \in Index |-> g[j] ++ M[3][j]]
<1>1. Sum([k \in Index |-> Sum(M[k])]) = ((Sum(M[0]) ++ Sum(M[1])) ++ Sum(M[2])) ++ Sum(M[3])
  BY DEF Sum, Index
<1>2. Sum(M[0]) ++ Sum(M[1]) = Sum(f)
  BY SumPlus
<1>3. Sum(f) ++ Sum(M[2]) = Sum(g)
  BY SumPlus
<1>4. Sum(g) ++ Sum(M[3]) = Sum(h)
  BY SumPlus
<1>5. \A j \in Index : h[j] = Sum([k \in Index |-> M[k][j]])
  BY DEF Sum, Index
<1>6. h = [j \in Index |-> Sum([k \in Index |-> M[k][j]])]
  BY <1>5
<1> QED BY <1>1, <1>2, <1>3, <1>4, <1>6

(***************************************************************************)
(* A table takes a sum to the sum of its entries.                          *)
(***************************************************************************)
LEMMA TableOfSum ==
    ASSUME NEW c \in Coefficients, NEW f \in [Index -> Byte]
    PROVE  GF_MUL[c][Sum(f)] = Sum([j \in Index |-> GF_MUL[c][f[j]]])
<1>1. f[0] \in Byte /\ f[1] \in Byte /\ f[2] \in Byte /\ f[3] \in Byte
  BY DEF Index
<1>2. f[0] ++ f[1] \in Byte /\ (f[0] ++ f[1]) ++ f[2] \in Byte
  BY <1>1, XorByte
<1>3. \A x, y \in Byte : GF_MUL[c][x ++ y] = GF_MUL[c][x] ++ GF_MUL[c][y]
  BY TableAssumption
<1>4. GF_MUL[c][Sum(f)] = ((GF_MUL[c][f[0]] ++ GF_MUL[c][f[1]]) ++ GF_MUL[c][f[2]]) ++ GF_MUL[c][f[3]]
  BY <1>1, <1>2, <1>3 DEF Sum
<1> QED BY <1>4 DEF Sum, Index

-----------------------------------------------------------------------------
(***************************************************************************)
(* Two matrices that are inverse to each other on a single byte are        *)
(* inverse to each other on every state.                                   *)
(***************************************************************************)
LEMMA CellFacts ==
    /\ \A x \in Cells : x[1] \in Index /\ x[2] \in Index /\ x = <<x[1], x[2]>>
    /\ \A r, c \in Index : <<r, c>> \in Cells
BY DEF Cells

LEMMA IndexFacts == \A k, r \in Index : (k - r) % 4 \in Index /\ (k + r) % 4 \in Index
BY DEF Index

LEMMA TimesType ==
    ASSUME NEW A \in [Index -> Coefficients], NEW s \in State
    PROVE  /\ Times(A, s) \in State
           /\ \A r, c, k \in Index : GF_MUL[A[(k - r) % 4]][s[<<k, c>>]] \in Byte
<1>1. ASSUME NEW r \in Index, NEW c \in Index, NEW k \in Index
      PROVE  GF_MUL[A[(k - r) % 4]][s[<<k, c>>]] \in Byte
  <2>1. A[(k - r) % 4] \in Coefficients
    BY IndexFacts
  <2>2. s[<<k, c>>] \in Byte
    BY CellFacts DEF State
  <2> QED BY <2>1, <2>2, TableAssumption
<1>2. ASSUME NEW x \in Cells
      PROVE  Sum([k \in Index |-> GF_MUL[A[(k - x[1]) % 4]][s[<<k, x[2]>>]]]) \in Byte
  <2>1. [k \in Index |-> GF_MUL[A[(k - x[1]) % 4]][s[<<k, x[2]>>]]] \in [Index -> Byte]
    BY <1>1, CellFacts
  <2> QED BY <2>1, SumType
<1> QED BY <1>1, <1>2 DEF Times, State

LEMMA UnitSum ==
    ASSUME NEW r \in Index, NEW f \in [Index -> Byte]
    PROVE  Sum([j \in Index |-> IF r = j THEN f[j] ELSE {}]) = f[r]
<1> DEFINE g == [j \in Index |-> IF r = j THEN f[j] ELSE {}]
<1>1. \A b : b ++ {} = b /\ {} ++ b = b
  BY DEF ++
<1>2. /\ g[0] = (IF r = 0 THEN f[0] ELSE {}) /\ g[1] = (IF r = 1 THEN f[1] ELSE {})
      /\ g[2] = (IF r = 2 THEN f[2] ELSE {}) /\ g[3] = (IF r = 3 THEN f[3] ELSE {})
  BY DEF Index
<1> HIDE DEF g
<1>3. r \in {0, 1, 2, 3}
  BY DEF Index
<1>4. ((g[0] ++ g[1]) ++ g[2]) ++ g[3] = f[r]
  BY <1>1, <1>2, <1>3
<1> QED BY <1>4 DEF Sum, g

InverseOnBytes(A, B) == \A b \in Byte, r, j \in Index : Entry(A, B, b, r, j) = IF r = j THEN b ELSE {}

LEMMA TimesInverse ==
    ASSUME NEW A \in [Index -> Coefficients], NEW B \in [Index -> Coefficients],
           InverseOnBytes(A, B), NEW s \in State
    PROVE  Times(B, Times(A, s)) = s
<1> DEFINE t == Times(A, s)
<1>1. t \in State
  BY TimesType
<1>2. ASSUME NEW x \in Cells PROVE Times(B, t)[x] = s[x]
  <2> DEFINE r == x[1]
             c == x[2]
             row(k) == [j \in Index |-> GF_MUL[A[(j - k) % 4]][s[<<j, c>>]]]
             M == [k \in Index |-> [j \in Index |->
                       GF_MUL[B[(k - r) % 4]][GF_MUL[A[(j - k) % 4]][s[<<j, c>>]]]]]
  <2>1. r \in Index /\ c \in Index /\ x = <<r, c>>
    BY CellFacts
  <2>2. ASSUME NEW k \in Index PROVE GF_MUL[B[(k - r) % 4]][t[<<k, c>>]] = Sum(M[k])
    <3>1. B[(k - r) % 4] \in Coefficients
      BY <2>1, IndexFacts
    <3>2. row(k) \in [Index -> Byte]
      BY <2>1, TimesType
    <3>3. t[<<k, c>>] = Sum(row(k))
      <4>1. <<k, c>> \in Cells
        BY <2>1, CellFacts
      <4> QED BY <4>1 DEF Times
    <3> HIDE DEF t
    <3>4. GF_MUL[B[(k - r) % 4]][Sum(row(k))]
            = Sum([j \in Index |-> GF_MUL[B[(k - r) % 4]][row(k)[j]]])
      BY <3>1, <3>2, TableOfSum
    <3>5. M[k] = [j \in Index |-> GF_MUL[B[(k - r) % 4]][row(k)[j]]]
      OBVIOUS
    <3> QED BY <3>3, <3>4, <3>5
  <2>3. Times(B, t)[x] = Sum([k \in Index |-> Sum(M[k])])
    <3>1. Times(B, t)[x] = Sum([k \in Index |-> GF_MUL[B[(k - r) % 4]][t[<<k, c>>]]])
      BY DEF Times
    <3> HIDE DEF t, M
    <3> QED BY <2>2, <3>1
  <2>4. Sum([k \in Index |-> Sum(M[k])]) = Sum([j \in Index |-> Sum([k \in Index |-> M[k][j]])])
    <3> HIDE DEF M
    <3> QED BY SumSwap
  <2> DEFINE f == [j \in Index |-> s[<<j, c>>]]
  <2>5. f \in [Index -> Byte]
    BY <2>1, CellFacts DEF State
  <2>6. ASSUME NEW j \in Index
        PROVE  Sum([k \in Index |-> M[k][j]]) = IF r = j THEN f[j] ELSE {}
    <3>1. [k \in Index |-> M[k][j]]
            = [k \in Index |-> GF_MUL[B[(k - r) % 4]][GF_MUL[A[(j - k) % 4]][f[j]]]]
      OBVIOUS
    <3>2. f[j] \in Byte
      BY <2>5
    <3> HIDE DEF M, f
    <3>3. Entry(A, B, f[j], r, j) = IF r = j THEN f[j] ELSE {}
      BY <2>1, <3>2 DEF InverseOnBytes
    <3> QED BY <3>1, <3>3 DEF Entry
  <2>7. Sum([j \in Index |-> Sum([k \in Index |-> M[k][j]])]) = f[r]
    <3>1. [j \in Index |-> Sum([k \in Index |-> M[k][j]])]
            = [j \in Index |-> IF r = j THEN f[j] ELSE {}]
      <4> HIDE DEF M, f
      <4> QED BY <2>6
    <3> HIDE DEF M, f
    <3> QED BY <2>1, <2>5, <3>1, UnitSum
  <2> QED BY <2>1, <2>3, <2>4, <2>7
<1>3. Times(B, t) \in State
  BY <1>1, TimesType
<1> HIDE DEF t
<1>4. Times(B, t) = s
  BY <1>2, <1>3 DEF State
<1> QED BY <1>4 DEF t

-----------------------------------------------------------------------------
(***************************************************************************)
(* The layers and their inverses.                                          *)
(***************************************************************************)
LEMMA MixInverse ==
    ASSUME NEW s \in State
    PROVE  /\ mix_columns(s) \in State /\ inv_mix_columns(s) \in State
           /\ inv_mix_columns(mix_columns(s)) = s /\ mix_columns(inv_mix_columns(s)) = s
<1>1. MIX \in [Index -> Coefficients]
  BY DEF MIX, Index, Coefficients
<1>2. INV_MIX \in [Index -> Coefficients]
  BY DEF INV_MIX, Index, Coefficients
<1>3. InverseOnBytes(MIX, INV_MIX)
  BY MatrixAssumption DEF InverseOnBytes
<1>4. InverseOnBytes(INV_MIX, MIX)
  BY MatrixAssumption DEF InverseOnBytes
<1> QED BY <1>1, <1>2, <1>3, <1>4, TimesType, TimesInverse DEF mix_columns, inv_mix_columns

LEMMA SubInverse ==
    ASSUME NEW s \in State
    PROVE  /\ sub_bytes(s) \in State /\ inv_sub_bytes(s) \in State
           /\ inv_sub_bytes(sub_bytes(s)) = s /\ sub_bytes(inv_sub_bytes(s)) = s
<1>1. \A x \in Cells : s[x] \in Byte
  BY DEF State
<1>2. sub_bytes(s) \in State /\ inv_sub_bytes(s) \in State
  BY <1>1, SboxAssumption, TablesAssumption DEF sub_bytes, inv_sub_bytes, State
<1>3. \A x \in Cells : inv_sub_bytes(sub_bytes(s))[x] = s[x] /\ sub_bytes(inv_sub_bytes(s))[x] = s[x]
  BY <1>1, SboxAssumption DEF sub_bytes, inv_sub_bytes
<1>4. inv_sub_bytes(sub_bytes(s)) = [x \in Cells |-> s[x]]
  BY <1>3 DEF inv_sub_bytes
<1>5. sub_bytes(inv_sub_bytes(s)) = [x \in Cells |-> s[x]]
  BY <1>3 DEF sub_bytes
<1>6. s = [x \in Cells |-> s[x]]
  BY DEF State
<1> QED BY <1>2, <1>4, <1>5, <1>6

LEMMA ShiftInverse ==
    ASSUME NEW s \in State
    PROVE  /\ shift_rows(s) \in State /\ inv_shift_rows(s) \in State
           /\ inv_shift_rows(shift_rows(s)) = s /\ shift_rows(inv_shift_rows(s)) = s
<1>1. \A x \in Cells : /\ <<x[1], (x[2] + x[1]) % 4>> \in Cells
                       /\ <<x[1], (x[2] - x[1]) % 4>> \in Cells
  BY CellFacts, IndexFacts
<1>2. shift_rows(s) \in State /\ inv_shift_rows(s) \in State
  BY <1>1 DEF shift_rows, inv_shift_rows, State
<1>3. \A r, c \in Index : /\ (((c - r) % 4) + r) % 4 = c
                          /\ (((c + r) % 4) - r) % 4 = c
  BY DEF Index
<1>4. ASSUME NEW x \in Cells
      PROVE  inv_shift_rows(shift_rows(s))[x] = s[x] /\ shift_rows(inv_shift_rows(s))[x] = s[x]
  <2> DEFINE y == <<x[1], (x[2] - x[1]) % 4>>
             z == <<x[1], (x[2] + x[1]) % 4>>
  <2>1. y \in Cells /\ z \in Cells
    BY <1>1
  <2>2. /\ <<y[1], (y[2] + y[1]) % 4>> = x
        /\ <<z[1], (z[2] - z[1]) % 4>> = x
    BY <1>3, CellFacts
  <2>3. inv_shift_rows(shift_rows(s))[x] = shift_rows(s)[y]
    BY DEF inv_shift_rows
  <2>4. shift_rows(inv_shift_rows(s))[x] = inv_shift_rows(s)[z]
    BY DEF shift_rows
  <2>5. shift_rows(s)[y] = s[<<y[1], (y[2] + y[1]) % 4>>]
    BY <2>1 DEF shift_rows
  <2>6. inv_shift_rows(s)[z] = s[<<z[1], (z[2] - z[1]) % 4>>]
    BY <2>1 DEF inv_shift_rows
  <2> QED BY <2>2, <2>3, <2>4, <2>5, <2>6
<1>5. inv_shift_rows(shift_rows(s)) = [x \in Cells |-> s[x]]
  BY <1>4 DEF inv_shift_rows
<1>6. shift_rows(inv_shift_rows(s)) = [x \in Cells |-> s[x]]
  BY <1>4 DEF shift_rows
<1>7. s = [x \in Cells |-> s[x]]
  BY DEF State
<1> QED BY <1>2, <1>5, <1>6, <1>7

LEMMA KeyInverse ==
    ASSUME NEW s \in State, NEW k \in RoundKeys, NEW r \in 0..Rounds
    PROVE  add_round_key(s, k, r) \in State /\ add_round_key(add_round_key(s, k, r), k, r) = s
<1>1. ASSUME NEW x \in Cells PROVE s[x] \in Byte /\ k[4 * r + x[2]][x[1]] \in Byte
  <2>1. x[1] \in Index /\ x[2] \in Index
    BY CellFacts
  <2>2. 4 * r + x[2] \in 0..TotalWords-1
    BY <2>1, SizeAssumption DEF TotalWords, Index
  <2>3. k[4 * r + x[2]] \in Word
    BY <2>2 DEF RoundKeys
  <2> QED BY <2>1, <2>3 DEF Word, State
<1>2. add_round_key(s, k, r) \in State
  BY <1>1, XorByte DEF add_round_key, State
<1>3. \A x \in Cells : (s[x] ++ k[4 * r + x[2]][x[1]]) ++ k[4 * r + x[2]][x[1]] = s[x]
  BY <1>1, XorByte
<1>4. add_round_key(add_round_key(s, k, r), k, r) = [x \in Cells |-> s[x]]
  BY <1>3 DEF add_round_key
<1>5. s = [x \in Cells |-> s[x]]
  BY DEF State
<1> QED BY <1>2, <1>4, <1>5

LEMMA BytesInverse ==
    /\ \A in \in Block : bytes_to_state(in) \in State /\ state_to_bytes(bytes_to_state(in)) = in
    /\ \A s \in State : state_to_bytes(s) \in Block /\ bytes_to_state(state_to_bytes(s)) = s
<1>1. \A x \in Cells : /\ 4 * x[2] + x[1] \in 0..15
                       /\ <<(4 * x[2] + x[1]) % 4, (4 * x[2] + x[1]) \div 4>> = x
  <2>1. \A r, c \in 0..3 : /\ 4 * c + r \in 0..15 /\ (4 * c + r) % 4 = r
                           /\ (4 * c + r) \div 4 = c
    OBVIOUS
  <2> QED BY <2>1, CellFacts DEF Index
<1>2. \A n \in 0..15 : <<n % 4, n \div 4>> \in Cells /\ 4 * (n \div 4) + (n % 4) = n
  <2>1. \A n \in 0..15 : n % 4 \in 0..3 /\ n \div 4 \in 0..3 /\ 4 * (n \div 4) + (n % 4) = n
    OBVIOUS
  <2> QED BY <2>1, CellFacts DEF Index
<1>3. ASSUME NEW in \in Block
      PROVE  bytes_to_state(in) \in State /\ state_to_bytes(bytes_to_state(in)) = in
  <2>1. bytes_to_state(in) \in State
    BY <1>1 DEF bytes_to_state, State, Block
  <2>2. ASSUME NEW n \in 0..15 PROVE state_to_bytes(bytes_to_state(in))[n] = in[n]
    <3> DEFINE x == <<n % 4, n \div 4>>
    <3>1. state_to_bytes(bytes_to_state(in))[n] = bytes_to_state(in)[x]
      BY DEF state_to_bytes
    <3>2. bytes_to_state(in)[x] = in[4 * x[2] + x[1]]
      BY <1>2 DEF bytes_to_state
    <3> QED BY <1>2, <3>1, <3>2
  <2>3. state_to_bytes(bytes_to_state(in)) = [n \in 0..15 |-> in[n]]
    BY <2>2 DEF state_to_bytes
  <2>4. in = [n \in 0..15 |-> in[n]]
    BY DEF Block
  <2> QED BY <2>1, <2>3, <2>4
<1>4. ASSUME NEW s \in State
      PROVE  state_to_bytes(s) \in Block /\ bytes_to_state(state_to_bytes(s)) = s
  <2>1. state_to_bytes(s) \in Block
    BY <1>2 DEF state_to_bytes, State, Block
  <2>2. ASSUME NEW x \in Cells PROVE bytes_to_state(state_to_bytes(s))[x] = s[x]
    <3> DEFINE n == 4 * x[2] + x[1]
    <3>1. bytes_to_state(state_to_bytes(s))[x] = state_to_bytes(s)[n]
      BY DEF bytes_to_state
    <3>2. state_to_bytes(s)[n] = s[<<n % 4, n \div 4>>]
      BY <1>1 DEF state_to_bytes
    <3> QED BY <1>1, <3>1, <3>2
  <2>3. bytes_to_state(state_to_bytes(s)) = [x \in Cells |-> s[x]]
    BY <2>2 DEF bytes_to_state
  <2>4. s = [x \in Cells |-> s[x]]
    BY DEF State
  <2> QED BY <2>1, <2>3, <2>4
<1> QED BY <1>3, <1>4

(***************************************************************************)
(* The rounds and their inverses.                                          *)
(***************************************************************************)
LEMMA RoundInverse ==
    ASSUME NEW s \in State, NEW k \in RoundKeys, NEW r \in 0..Rounds
    PROVE  /\ Round(s, k, r) \in State /\ InvRound(s, k, r) \in State
           /\ InvRound(Round(s, k, r), k, r) = s /\ Round(InvRound(s, k, r), k, r) = s
<1> DEFINE a == sub_bytes(s)
           b == shift_rows(a)
           m == mix_columns(b)
<1>1. a \in State /\ b \in State /\ m \in State
  BY SubInverse, ShiftInverse, MixInverse
<1>2. Round(s, k, r) = add_round_key(m, k, r) /\ Round(s, k, r) \in State
  BY <1>1, KeyInverse DEF Round
<1>3. InvRound(Round(s, k, r), k, r) = s
  <2>1. add_round_key(Round(s, k, r), k, r) = m
    BY <1>1, <1>2, KeyInverse
  <2>2. inv_mix_columns(m) = b /\ inv_shift_rows(b) = a /\ inv_sub_bytes(a) = s
    BY <1>1, MixInverse, ShiftInverse, SubInverse
  <2> QED BY <2>1, <2>2 DEF InvRound
<1> DEFINE d == add_round_key(s, k, r)
           e == inv_mix_columns(d)
           f == inv_shift_rows(e)
<1>4. d \in State /\ e \in State /\ f \in State
  BY KeyInverse, MixInverse, ShiftInverse
<1>5. InvRound(s, k, r) = inv_sub_bytes(f) /\ InvRound(s, k, r) \in State
  BY <1>4, SubInverse DEF InvRound
<1>6. Round(InvRound(s, k, r), k, r) = s
  <2>1. sub_bytes(inv_sub_bytes(f)) = f /\ shift_rows(f) = e /\ mix_columns(e) = d
    BY <1>4, SubInverse, ShiftInverse, MixInverse
  <2>2. add_round_key(d, k, r) = s
    BY KeyInverse
  <2> QED BY <1>5, <2>1, <2>2 DEF Round
<1> QED BY <1>2, <1>3, <1>5, <1>6

LEMMA FinalRoundInverse ==
    ASSUME NEW s \in State, NEW k \in RoundKeys
    PROVE  /\ FinalRound(s, k) \in State /\ InvFinalRound(s, k) \in State
           /\ InvFinalRound(FinalRound(s, k), k) = s /\ FinalRound(InvFinalRound(s, k), k) = s
<1>0. Rounds \in 0..Rounds
  BY SizeAssumption
<1> DEFINE a == sub_bytes(s)
           b == shift_rows(a)
<1>1. a \in State /\ b \in State
  BY SubInverse, ShiftInverse
<1>2. FinalRound(s, k) = add_round_key(b, k, Rounds) /\ FinalRound(s, k) \in State
  BY <1>0, <1>1, KeyInverse DEF FinalRound
<1>3. InvFinalRound(FinalRound(s, k), k) = s
  <2>1. add_round_key(FinalRound(s, k), k, Rounds) = b
    BY <1>0, <1>1, <1>2, KeyInverse
  <2>2. inv_shift_rows(b) = a /\ inv_sub_bytes(a) = s
    BY <1>1, ShiftInverse, SubInverse
  <2> QED BY <2>1, <2>2 DEF InvFinalRound
<1> DEFINE d == add_round_key(s, k, Rounds)
           f == inv_shift_rows(d)
<1>4. d \in State /\ f \in State
  BY <1>0, KeyInverse, ShiftInverse
<1>5. InvFinalRound(s, k) = inv_sub_bytes(f) /\ InvFinalRound(s, k) \in State
  BY <1>4, SubInverse DEF InvFinalRound
<1>6. FinalRound(InvFinalRound(s, k), k) = s
  <2>1. sub_bytes(inv_sub_bytes(f)) = f /\ shift_rows(f) = d
    BY <1>4, SubInverse, ShiftInverse
  <2>2. add_round_key(d, k, Rounds) = s
    BY <1>0, KeyInverse
  <2> QED BY <1>5, <2>1, <2>2 DEF FinalRound
<1> QED BY <1>2, <1>3, <1>5, <1>6

-----------------------------------------------------------------------------
(***************************************************************************)
(* The calls.                                                              *)
(***************************************************************************)
LEMMA InitIInv == Init => IInv
<1> SUFFICES ASSUME Init PROVE IInv
  OBVIOUS
<1>1. KeyTypeOK
  BY KeyInitInv DEF Init, KeyIInv
<1>2. TypeOK
  BY <1>1, SizeAssumption DEF Init, CipherInit, TypeOK, NoCall
<1>3. RoundInv
  BY DEF Init, CipherInit, RoundInv
<1> QED BY <1>2, <1>3 DEF Init, CipherInit, IInv, CipherInv, FirstInv, SecondInv, Retraces, BlockComesBack,
                       Opposite

(***************************************************************************)
(* What holds of the numbers while a call is going on.                     *)
(***************************************************************************)
LEMMA InCall ==
    ASSUME IInv, call # NoCall
    PROVE  /\ ks \in RoundKeys /\ state \in State /\ Rounds \in Nat \ {0}
           /\ call.op \in {"encrypt", "decrypt"} /\ call.in \in Block
           /\ round \in 0..Rounds /\ trace \in [0..Rounds -> State \cup {NoState}]
<1>1. ks \in [0..i-1 -> Word] /\ i = TotalWords
  BY DEF IInv, TypeOK, KeyTypeOK
<1> QED BY <1>1, SizeAssumption DEF IInv, TypeOK, Call, CipherInv, RoundInv, RoundKeys

LEMMA RoundsKnown ==
    ASSUME Known(0, Rounds), NEW r \in 1..Rounds
    PROVE  /\ trace[r] \in State /\ trace[r - 1] \in State
           /\ trace[r] = IF r = Rounds THEN FinalRound(trace[r - 1], ks) ELSE Round(trace[r - 1], ks, r)
<1>1. r \in 0..Rounds /\ r - 1 \in 0..Rounds /\ r \in 0+1..Rounds
  BY SizeAssumption
<1> QED BY <1>1 DEF Known, Linked

(***************************************************************************)
(* Starting a call: the first one, the way back, or the changed block.     *)
(***************************************************************************)
LEMMA EncryptStartIInv ==
    ASSUME IInv, UNCHANGED keyVars, made = "OK", NEW in \in Block, EncryptStart(in),
           first # NoCall => (first.op = "decrypt" /\ in = first.out) \/ first.op = "encrypt"
    PROVE  IInv'
<1>1. /\ ks' = ks /\ pc' = "encrypt" /\ call' = [op |-> "encrypt", in |-> in] /\ first' = first
      /\ state' = add_round_key(bytes_to_state(in), ks, 0) /\ round' = 1
      /\ trace' = (IF first = NoCall THEN [trace EXCEPT ![0] = state'] ELSE trace)
  BY DEF EncryptStart, Begin, Record, keyVars
<1>2. ks \in RoundKeys /\ Rounds \in Nat \ {0} /\ trace \in [0..Rounds -> State \cup {NoState}]
  <2>1. ks \in [0..i-1 -> Word] /\ i = TotalWords
    BY DEF IInv, TypeOK, KeyTypeOK
  <2> QED BY <2>1, SizeAssumption DEF IInv, CipherInv, RoundInv, RoundKeys
<1>3. state' \in State
  BY <1>1, <1>2, BytesInverse, KeyInverse
<1>4. KeyTypeOK'
  BY DEF IInv, TypeOK, KeyTypeOK, keyVars
<1>5. TypeOK'
  BY <1>1, <1>2, <1>3, <1>4 DEF IInv, TypeOK, Call, NoCall, keyVars
<1>6. RoundInv'
  BY <1>1, <1>2, <1>3 DEF RoundInv
<1>7. Position' = 0
  BY <1>1 DEF Position
<1>8. FirstInv'
  <2> SUFFICES ASSUME first = NoCall PROVE FirstInv'
    BY <1>1 DEF FirstInv
  <2>1. trace'[0] = state'
    BY <1>1, <1>2
  <2>2. Known(0, round - 1)'
    <3>1. 0..round'-1 = {0} /\ 0+1..round'-1 = {}
      BY <1>1
    <3> QED BY <1>3, <2>1, <3>1 DEF Known
  <2>3. StartsFrom(call.in)'
    BY <1>1, <2>1 DEF StartsFrom
  <2> QED BY <1>1, <1>7, <2>1, <2>2, <2>3 DEF FirstInv
<1>9. ASSUME first # NoCall
      PROVE  SecondInv' /\ Retraces'
  <2>1. trace' = trace
    BY <1>1, <1>9
  <2>2. SecondInv'
    BY <1>1, <1>9, <2>1 DEF IInv, CipherInv, SecondInv, Known, Linked, StartsFrom, EndsIn, Opposite
  <2>3. Retraces'
    BY <1>1, <1>7, <1>9, <2>1 DEF IInv, CipherInv, SecondInv, Retraces, Opposite, StartsFrom
  <2> QED BY <2>2, <2>3
<1>10. SecondInv' /\ Retraces' /\ BlockComesBack'
  BY <1>1, <1>9 DEF SecondInv, Retraces, BlockComesBack, Opposite
<1> QED BY <1>5, <1>6, <1>8, <1>10 DEF IInv, CipherInv

LEMMA DecryptStartIInv ==
    ASSUME IInv, UNCHANGED keyVars, made = "OK", NEW in \in Block, DecryptStart(in),
           first # NoCall => (first.op = "encrypt" /\ in = first.out) \/ first.op = "decrypt"
    PROVE  IInv'
<1>1. /\ ks' = ks /\ pc' = "decrypt" /\ call' = [op |-> "decrypt", in |-> in] /\ first' = first
      /\ state' = InvFinalRound(bytes_to_state(in), ks) /\ round' = Rounds - 1
      /\ trace' = (IF first = NoCall
                   THEN [trace EXCEPT ![Rounds] = bytes_to_state(in), ![Rounds - 1] = state']
                   ELSE trace)
  BY DEF DecryptStart, Begin, keyVars
<1>2. ks \in RoundKeys /\ Rounds \in Nat \ {0} /\ trace \in [0..Rounds -> State \cup {NoState}]
  <2>1. ks \in [0..i-1 -> Word] /\ i = TotalWords
    BY DEF IInv, TypeOK, KeyTypeOK
  <2> QED BY <2>1, SizeAssumption DEF IInv, CipherInv, RoundInv, RoundKeys
<1>3. /\ bytes_to_state(in) \in State /\ state' \in State
      /\ FinalRound(state', ks) = bytes_to_state(in)
  BY <1>1, <1>2, BytesInverse, FinalRoundInverse
<1>4. KeyTypeOK'
  BY DEF IInv, TypeOK, KeyTypeOK, keyVars
<1>5. TypeOK'
  BY <1>1, <1>2, <1>3, <1>4 DEF IInv, TypeOK, Call, NoCall, keyVars
<1>6. RoundInv'
  BY <1>1, <1>2, <1>3 DEF RoundInv
<1>7. Position' = Rounds - 1
  BY <1>1 DEF Position
<1>8. FirstInv'
  <2> SUFFICES ASSUME first = NoCall PROVE FirstInv'
    BY <1>1 DEF FirstInv
  <2>1. trace'[Rounds] = bytes_to_state(in) /\ trace'[Rounds - 1] = state'
    BY <1>1, <1>2
  <2>2. Known(round, Rounds)'
    <3>1. round'..Rounds = {Rounds - 1, Rounds} /\ round'+1..Rounds = {Rounds}
      BY <1>1, <1>2
    <3>2. Linked(Rounds)'
      BY <1>1, <1>3, <2>1 DEF Linked
    <3>3. \A r \in round'+1..Rounds : Linked(r)'
      BY <3>1, <3>2
    <3> QED BY <1>3, <2>1, <3>1, <3>3 DEF Known
  <2>3. EndsIn(call.in)'
    BY <1>1, <2>1 DEF EndsIn
  <2> QED BY <1>1, <1>7, <2>1, <2>2, <2>3 DEF FirstInv
<1>9. ASSUME first # NoCall
      PROVE  SecondInv' /\ Retraces'
  <2>1. trace' = trace
    BY <1>1, <1>9
  <2>2. SecondInv'
    BY <1>1, <1>9, <2>1 DEF IInv, CipherInv, SecondInv, Known, Linked, StartsFrom, EndsIn, Opposite
  <2>3. Retraces'
    <3> SUFFICES ASSUME first.op = "encrypt" PROVE state' = trace[Rounds - 1]
      BY <1>1, <1>7, <1>9, <2>1 DEF IInv, CipherInv, SecondInv, Retraces, Opposite
    <3>1. Known(0, Rounds) /\ trace[Rounds] = bytes_to_state(in)
      BY <1>9 DEF IInv, CipherInv, SecondInv, EndsIn
    <3>2. trace[Rounds - 1] \in State /\ trace[Rounds] = FinalRound(trace[Rounds - 1], ks)
      <4>1. Rounds \in 1..Rounds
        BY <1>2
      <4> QED BY <3>1, <4>1, RoundsKnown
    <3> QED BY <1>1, <1>2, <3>1, <3>2, FinalRoundInverse
  <2> QED BY <2>2, <2>3
<1>10. SecondInv' /\ Retraces' /\ BlockComesBack'
  BY <1>1, <1>9 DEF SecondInv, Retraces, BlockComesBack, Opposite
<1> QED BY <1>5, <1>6, <1>8, <1>10 DEF IInv, CipherInv

(***************************************************************************)
(* The rounds of an encryption.                                            *)
(***************************************************************************)
LEMMA EncryptRoundIInv ==
    ASSUME IInv, UNCHANGED keyVars, EncryptRound
    PROVE  IInv'
<1>1. /\ ks' = ks /\ pc = "encrypt" /\ pc' = "encrypt" /\ round' = round + 1
      /\ call' = call /\ first' = first /\ out' = out
      /\ state' = Round(state, ks, round)
      /\ trace' = (IF first = NoCall THEN [trace EXCEPT ![round] = state'] ELSE trace)
      /\ round < Rounds
  BY DEF EncryptRound, Record, keyVars
<1>2. call # NoCall /\ call.op = "encrypt"
  BY <1>1 DEF IInv, TypeOK
<1>3. round \in 1..Rounds-1 /\ Rounds \in Nat \ {0}
  BY <1>1, SizeAssumption DEF IInv, CipherInv, RoundInv
<1>4. /\ ks \in RoundKeys /\ state \in State /\ state' \in State
      /\ trace \in [0..Rounds -> State \cup {NoState}]
  BY <1>1, <1>2, <1>3, InCall, RoundInverse
<1>5. KeyTypeOK'
  BY DEF IInv, TypeOK, KeyTypeOK, keyVars
<1>6. TypeOK'
  BY <1>1, <1>3, <1>4, <1>5 DEF IInv, TypeOK, keyVars
<1>7. RoundInv'
  BY <1>1, <1>3, <1>4 DEF RoundInv
<1>8. Position = round - 1 /\ Position' = round
  BY <1>1, <1>3 DEF Position
<1>9. FirstInv'
  <2> SUFFICES ASSUME first = NoCall PROVE FirstInv'
    BY <1>1 DEF FirstInv
  <2>1. state = trace[round - 1] /\ StartsFrom(call.in) /\ Known(0, round - 1)
    BY <1>1, <1>2, <1>8 DEF IInv, CipherInv, FirstInv
  <2>2. trace'[round] = state' /\ \A r \in 0..round-1 : trace'[r] = trace[r]
    BY <1>1, <1>3, <1>4
  <2>4. ASSUME NEW r \in 0..round PROVE trace'[r] \in State
    BY <1>3, <1>4, <2>1, <2>2 DEF Known
  <2>5. ASSUME NEW r \in 0+1..round PROVE Linked(r)'
    <3>1. CASE r = round
      <4>1. trace'[r - 1] = state
        BY <1>3, <2>1, <2>2, <3>1
      <4> QED BY <1>1, <1>3, <2>2, <3>1, <4>1 DEF Linked
    <3>2. CASE r # round
      <4>1. r \in 0+1..round-1 /\ r \in 0..round-1 /\ r - 1 \in 0..round-1
        BY <1>3, <3>2
      <4> QED BY <1>1, <2>1, <2>2, <4>1 DEF Known, Linked
    <3> QED BY <3>1, <3>2
  <2>6. round' - 1 = round
    BY <1>1, <1>3
  <2>7. Known(0, round - 1)'
    BY <2>4, <2>5, <2>6 DEF Known
  <2>8. StartsFrom(call.in)'
    BY <1>1, <1>3, <2>1, <2>2 DEF StartsFrom
  <2> QED BY <1>1, <1>2, <1>8, <2>2, <2>7, <2>8 DEF FirstInv
<1>10. ASSUME first # NoCall PROVE SecondInv' /\ Retraces'
  <2>1. trace' = trace
    BY <1>1, <1>10
  <2>2. SecondInv'
    BY <1>1, <1>10, <2>1 DEF IInv, CipherInv, SecondInv, Known, Linked, StartsFrom, EndsIn, Opposite
  <2>3. ASSUME Opposite PROVE state' = trace[round]
    <3>1. state = trace[round - 1]
      BY <1>1, <1>8, <2>3 DEF IInv, CipherInv, Retraces
    <3>2. Known(0, Rounds) /\ round \in 1..Rounds /\ round # Rounds
      BY <1>3, <1>10 DEF IInv, CipherInv, SecondInv
    <3>3. trace[round] = Round(trace[round - 1], ks, round)
      BY <3>2, RoundsKnown
    <3> QED BY <1>1, <3>1, <3>3
  <2>4. Retraces'
    BY <1>1, <1>8, <2>1, <2>3 DEF Retraces, Opposite
  <2> QED BY <2>2, <2>4
<1>11. SecondInv' /\ Retraces' /\ BlockComesBack'
  BY <1>1, <1>10 DEF SecondInv, Retraces, BlockComesBack, Opposite
<1> QED BY <1>6, <1>7, <1>9, <1>11 DEF IInv, CipherInv

LEMMA EncryptEndIInv ==
    ASSUME IInv, UNCHANGED keyVars, EncryptEnd
    PROVE  IInv'
<1> DEFINE block == state_to_bytes(state')
<1>1. /\ ks' = ks /\ pc = "encrypt" /\ pc' = "idle" /\ round' = round /\ call' = call
      /\ out' = block
      /\ state' = FinalRound(state, ks)
      /\ trace' = (IF first = NoCall THEN [trace EXCEPT ![Rounds] = state'] ELSE trace)
      /\ first' = (IF first = NoCall THEN [op |-> call.op, in |-> call.in, out |-> block] ELSE first)
  BY DEF EncryptEnd, Record, Return, keyVars
<1>2. call # NoCall /\ call.op = "encrypt"
  BY <1>1 DEF IInv, TypeOK
<1>3. round = Rounds /\ Rounds \in Nat \ {0}
  BY <1>1, SizeAssumption DEF EncryptEnd, IInv, CipherInv, RoundInv
<1>4. /\ ks \in RoundKeys /\ state \in State /\ state' \in State /\ call.in \in Block
      /\ trace \in [0..Rounds -> State \cup {NoState}]
  BY <1>1, <1>2, InCall, FinalRoundInverse
<1>5. block \in Block /\ bytes_to_state(block) = state'
  BY <1>4, BytesInverse
<1> HIDE DEF block
<1>6. KeyTypeOK'
  BY DEF IInv, TypeOK, KeyTypeOK, keyVars
<1>7. TypeOK'
  <2>1. first' # NoCall /\ first'.op \in {"none", "encrypt", "decrypt"}
        /\ first'.in \in Block /\ first'.out \in Block
    BY <1>1, <1>2, <1>4, <1>5 DEF IInv, TypeOK, NoCall
  <2> QED BY <1>1, <1>2, <1>4, <1>6, <2>1 DEF IInv, TypeOK, keyVars
<1>8. RoundInv'
  BY <1>1, <1>3, <1>4 DEF RoundInv
<1>9. Position = Rounds - 1
  BY <1>1, <1>3 DEF Position
<1>10. CASE first = NoCall
  <2>1. state = trace[Rounds - 1] /\ StartsFrom(call.in) /\ Known(0, Rounds - 1)
    BY <1>1, <1>2, <1>3, <1>9, <1>10 DEF IInv, CipherInv, FirstInv
  <2>2. trace'[Rounds] = state' /\ \A r \in 0..Rounds-1 : trace'[r] = trace[r]
    BY <1>1, <1>3, <1>4, <1>10
  <2>3. ASSUME NEW r \in 0..Rounds PROVE trace'[r] \in State
    BY <1>3, <1>4, <2>1, <2>2 DEF Known
  <2>4. ASSUME NEW r \in 0+1..Rounds PROVE Linked(r)'
    <3>1. CASE r = Rounds
      <4>1. trace'[r - 1] = state
        BY <1>3, <2>1, <2>2, <3>1
      <4> QED BY <1>1, <2>2, <3>1, <4>1 DEF Linked
    <3>2. CASE r # Rounds
      <4>1. r \in 0+1..Rounds-1 /\ r \in 0..Rounds-1 /\ r - 1 \in 0..Rounds-1
        BY <1>3, <3>2
      <4> QED BY <1>1, <2>1, <2>2, <4>1 DEF Known, Linked
    <3> QED BY <3>1, <3>2
  <2>5. Known(0, Rounds)'
    BY <2>3, <2>4 DEF Known
  <2>6. first'.op = "encrypt" /\ first'.in = call.in /\ first'.out = block
    BY <1>1, <1>2, <1>10
  <2>7. StartsFrom(first.in)' /\ EndsIn(first.out)'
    BY <1>1, <1>3, <1>5, <2>1, <2>2, <2>6 DEF StartsFrom, EndsIn
  <2>8. ~Opposite' /\ first' # NoCall
    BY <1>1, <1>2, <2>6 DEF Opposite, NoCall
  <2> QED BY <1>7, <1>8, <2>5, <2>6, <2>7, <2>8
          DEF IInv, CipherInv, FirstInv, SecondInv, Retraces, BlockComesBack
<1>11. CASE first # NoCall
  <2>1. trace' = trace /\ first' = first
    BY <1>1, <1>11
  <2>2. SecondInv' /\ FirstInv' /\ Retraces'
    BY <1>1, <1>11, <2>1 DEF IInv, CipherInv, FirstInv, SecondInv, Known, Linked, StartsFrom,
                             EndsIn, Opposite, Retraces
  <2>3. ASSUME Opposite PROVE block = first.in
    <3>1. state = trace[Rounds - 1]
      BY <1>1, <1>9, <2>3 DEF IInv, CipherInv, Retraces
    <3>2. Known(0, Rounds) /\ Rounds \in 1..Rounds
      BY <1>3, <1>11 DEF IInv, CipherInv, SecondInv
    <3>3. trace[Rounds] = FinalRound(trace[Rounds - 1], ks)
      BY <3>2, RoundsKnown
    <3>4. trace[Rounds] = bytes_to_state(first.in)
      BY <1>2, <1>11, <2>3 DEF IInv, CipherInv, SecondInv, TypeOK, Opposite, EndsIn
    <3>5. first.in \in Block
      BY <1>11 DEF IInv, TypeOK
    <3> QED BY <1>1, <3>1, <3>3, <3>4, <3>5, BytesInverse DEF block
  <2>4. BlockComesBack'
    BY <1>1, <2>1, <2>3 DEF BlockComesBack, Opposite
  <2> QED BY <1>7, <1>8, <2>2, <2>4 DEF IInv, CipherInv
<1> QED BY <1>10, <1>11

(***************************************************************************)
(* The rounds of a decryption.                                             *)
(***************************************************************************)
LEMMA DecryptRoundIInv ==
    ASSUME IInv, UNCHANGED keyVars, DecryptRound
    PROVE  IInv'
<1>1. /\ ks' = ks /\ pc = "decrypt" /\ pc' = "decrypt" /\ round' = round - 1
      /\ call' = call /\ first' = first /\ out' = out
      /\ state' = InvRound(state, ks, round)
      /\ trace' = (IF first = NoCall THEN [trace EXCEPT ![round - 1] = state'] ELSE trace)
      /\ round >= 1
  BY DEF DecryptRound, Record, keyVars
<1>2. call # NoCall /\ call.op = "decrypt"
  BY <1>1 DEF IInv, TypeOK
<1>3. round \in 1..Rounds-1 /\ Rounds \in Nat \ {0}
  BY <1>1, SizeAssumption DEF IInv, CipherInv, RoundInv
<1>4. /\ ks \in RoundKeys /\ state \in State /\ state' \in State
      /\ trace \in [0..Rounds -> State \cup {NoState}]
      /\ Round(state', ks, round) = state
  <2>1. round \in 0..Rounds
    BY <1>3
  <2> QED BY <1>1, <1>2, <2>1, InCall, RoundInverse
<1>5. KeyTypeOK'
  BY DEF IInv, TypeOK, KeyTypeOK, keyVars
<1>6. TypeOK'
  BY <1>1, <1>3, <1>4, <1>5 DEF IInv, TypeOK, keyVars
<1>7. RoundInv'
  BY <1>1, <1>3, <1>4 DEF RoundInv
<1>8. Position = round /\ Position' = round - 1
  BY <1>1, <1>3 DEF Position
<1>9. FirstInv'
  <2> SUFFICES ASSUME first = NoCall PROVE FirstInv'
    BY <1>1 DEF FirstInv
  <2>1. state = trace[round] /\ EndsIn(call.in) /\ Known(round, Rounds)
    BY <1>1, <1>2, <1>8 DEF IInv, CipherInv, FirstInv
  <2>2. trace'[round - 1] = state' /\ \A r \in round..Rounds : trace'[r] = trace[r]
    BY <1>1, <1>3, <1>4
  <2>3. ASSUME NEW r \in round-1..Rounds PROVE trace'[r] \in State
    BY <1>3, <1>4, <2>1, <2>2 DEF Known
  <2>4. ASSUME NEW r \in round..Rounds PROVE Linked(r)'
    <3>1. CASE r = round
      <4>1. trace'[r] = state /\ trace'[r - 1] = state' /\ r # Rounds
        BY <1>3, <2>1, <2>2, <3>1
      <4> QED BY <1>1, <1>4, <3>1, <4>1 DEF Linked
    <3>2. CASE r # round
      <4>1. r \in round+1..Rounds /\ r \in round..Rounds /\ r - 1 \in round..Rounds
        BY <1>3, <3>2
      <4> QED BY <1>1, <2>1, <2>2, <4>1 DEF Known, Linked
    <3> QED BY <3>1, <3>2
  <2>5. round' = round - 1 /\ round' + 1 = round
    BY <1>1, <1>3
  <2>6. Known(round, Rounds)'
    BY <1>1, <2>3, <2>4, <2>5 DEF Known
  <2>7. EndsIn(call.in)'
    <3>1. Rounds \in round..Rounds
      BY <1>3
    <3> QED BY <1>1, <2>1, <2>2, <3>1 DEF EndsIn
  <2> QED BY <1>1, <1>2, <1>8, <2>2, <2>6, <2>7 DEF FirstInv
<1>10. ASSUME first # NoCall PROVE SecondInv' /\ Retraces'
  <2>1. trace' = trace
    BY <1>1, <1>10
  <2>2. SecondInv'
    BY <1>1, <1>10, <2>1 DEF IInv, CipherInv, SecondInv, Known, Linked, StartsFrom, EndsIn, Opposite
  <2>3. ASSUME Opposite PROVE state' = trace[round - 1]
    <3>1. state = trace[round]
      BY <1>1, <1>8, <2>3 DEF IInv, CipherInv, Retraces
    <3>2. Known(0, Rounds) /\ round \in 1..Rounds /\ round \in 0..Rounds /\ round # Rounds
      BY <1>3, <1>10 DEF IInv, CipherInv, SecondInv
    <3>3. trace[round - 1] \in State /\ trace[round] = Round(trace[round - 1], ks, round)
      BY <3>2, RoundsKnown
    <3> QED BY <1>1, <1>4, <3>1, <3>2, <3>3, RoundInverse
  <2>4. Retraces'
    BY <1>1, <1>8, <2>1, <2>3 DEF Retraces, Opposite
  <2> QED BY <2>2, <2>4
<1>11. SecondInv' /\ Retraces' /\ BlockComesBack'
  BY <1>1, <1>10 DEF SecondInv, Retraces, BlockComesBack, Opposite
<1> QED BY <1>6, <1>7, <1>9, <1>11 DEF IInv, CipherInv

LEMMA DecryptEndIInv ==
    ASSUME IInv, UNCHANGED keyVars, DecryptEnd
    PROVE  IInv'
<1> DEFINE block == state_to_bytes(state')
<1>1. /\ ks' = ks /\ pc = "decrypt" /\ pc' = "idle" /\ round' = round /\ call' = call
      /\ out' = block /\ trace' = trace
      /\ state' = add_round_key(state, ks, 0)
      /\ first' = (IF first = NoCall THEN [op |-> call.op, in |-> call.in, out |-> block] ELSE first)
  BY DEF DecryptEnd, Return, keyVars
<1>2. call # NoCall /\ call.op = "decrypt"
  BY <1>1 DEF IInv, TypeOK
<1>3. round = 0 /\ Rounds \in Nat \ {0} /\ 0 \in 0..Rounds
  BY <1>1, SizeAssumption DEF DecryptEnd, IInv, CipherInv, RoundInv
<1>4. /\ ks \in RoundKeys /\ state \in State /\ call.in \in Block
      /\ trace \in [0..Rounds -> State \cup {NoState}]
  BY <1>2, InCall
<1>5. state' \in State /\ add_round_key(state', ks, 0) = state
  BY <1>1, <1>3, <1>4, KeyInverse
<1>6. block \in Block /\ bytes_to_state(block) = state'
  BY <1>5, BytesInverse
<1> HIDE DEF block
<1>7. KeyTypeOK'
  BY DEF IInv, TypeOK, KeyTypeOK, keyVars
<1>8. TypeOK'
  <2>1. first' # NoCall /\ first'.op \in {"none", "encrypt", "decrypt"}
        /\ first'.in \in Block /\ first'.out \in Block
    BY <1>1, <1>2, <1>4, <1>6 DEF IInv, TypeOK, NoCall
  <2> QED BY <1>1, <1>2, <1>3, <1>5, <1>7, <2>1 DEF IInv, TypeOK, keyVars
<1>9. RoundInv'
  BY <1>1, <1>3, <1>4 DEF RoundInv
<1>10. Position = 0
  BY <1>1, <1>3 DEF Position
<1>11. CASE first = NoCall
  <2>1. state = trace[0] /\ EndsIn(call.in) /\ Known(0, Rounds)
    BY <1>1, <1>2, <1>3, <1>10, <1>11 DEF IInv, CipherInv, FirstInv
  <2>2. first'.op = "decrypt" /\ first'.in = call.in /\ first'.out = block
    BY <1>1, <1>2, <1>11
  <2>3. Known(0, Rounds)' /\ StartsFrom(first.out)' /\ EndsIn(first.in)'
    BY <1>1, <1>5, <1>6, <2>1, <2>2 DEF Known, Linked, StartsFrom, EndsIn
  <2>4. ~Opposite' /\ first' # NoCall
    BY <1>1, <1>2, <2>2 DEF Opposite, NoCall
  <2> QED BY <1>8, <1>9, <2>2, <2>3, <2>4
          DEF IInv, CipherInv, FirstInv, SecondInv, Retraces, BlockComesBack
<1>12. CASE first # NoCall
  <2>1. first' = first
    BY <1>1, <1>12
  <2>2. SecondInv' /\ FirstInv' /\ Retraces'
    BY <1>1, <1>12, <2>1 DEF IInv, CipherInv, FirstInv, SecondInv, Known, Linked, StartsFrom,
                             EndsIn, Opposite, Retraces
  <2>3. ASSUME Opposite PROVE block = first.in
    <3>1. state = trace[0]
      BY <1>1, <1>10, <2>3 DEF IInv, CipherInv, Retraces
    <3>2. trace[0] = add_round_key(bytes_to_state(first.in), ks, 0)
      BY <1>2, <1>12, <2>3 DEF IInv, CipherInv, SecondInv, TypeOK, Opposite, StartsFrom
    <3>3. first.in \in Block /\ bytes_to_state(first.in) \in State
      BY <1>12, BytesInverse DEF IInv, TypeOK
    <3>4. state' = bytes_to_state(first.in)
      BY <1>1, <1>3, <1>4, <3>1, <3>2, <3>3, KeyInverse
    <3> QED BY <3>3, <3>4, BytesInverse DEF block
  <2>4. BlockComesBack'
    BY <1>1, <2>1, <2>3 DEF BlockComesBack, Opposite
  <2> QED BY <1>8, <1>9, <2>2, <2>4 DEF IInv, CipherInv
<1> QED BY <1>11, <1>12

-----------------------------------------------------------------------------
LEMMA KeyStepIInv ==
    ASSUME IInv, KeyIInv, call = NoCall, KeyNext, UNCHANGED cipherVars
    PROVE  IInv'
<1>1. /\ pc' = pc /\ round' = round /\ state' = state /\ call' = call /\ out' = out
      /\ first' = first /\ trace' = trace
  BY DEF cipherVars
<1>2. call' = NoCall /\ first' = NoCall /\ pc' = "idle"
  BY <1>1 DEF IInv, TypeOK
<1>3. KeyTypeOK'
  BY KeyNextInv DEF KeyIInv
<1>4. TypeOK'
  BY <1>1, <1>2, <1>3 DEF IInv, TypeOK
<1>5. RoundInv'
  BY <1>1 DEF IInv, CipherInv, RoundInv
<1> QED BY <1>2, <1>4, <1>5 DEF IInv, CipherInv, FirstInv, SecondInv, Retraces, BlockComesBack, Opposite

LEMMA ChangedBlock ==
    ASSUME NEW in \in Block, NEW ch \in Changes
    PROVE  [in EXCEPT ![ch.at] = @ ++ ch.by] \in Block
<1>1. ch.at \in 0..15 /\ ch.by \in Byte
  BY InputAssumption
<1>2. in[ch.at] ++ ch.by \in Byte
  BY <1>1, XorByte DEF Block
<1> QED BY <1>2 DEF Block

LEMMA CipherStepIInv == ASSUME IInv, CipherNext, UNCHANGED keyVars PROVE IInv'
<1>1. ASSUME FirstCall PROVE IInv'
  <2>1. PICK op \in {"encrypt", "decrypt"}, in \in Blocks : Start(op, in)
    BY <1>1 DEF FirstCall
  <2>2. made = "OK" /\ call = NoCall /\ first = NoCall /\ in \in Block
    BY <1>1, InputAssumption DEF FirstCall, IInv, TypeOK
  <2> QED BY <2>1, <2>2, EncryptStartIInv, DecryptStartIInv DEF Start
<1>2. ASSUME first # NoCall
      PROVE  /\ made = "OK" /\ first.in \in Block /\ first.out \in Block
             /\ first.op \in {"encrypt", "decrypt"}
  BY <1>2 DEF IInv, TypeOK, CipherInv, SecondInv
<1>3. ASSUME TakeBack PROVE IInv'
  <2>1. /\ first # NoCall
        /\ Start(IF first.op = "encrypt" THEN "decrypt" ELSE "encrypt", first.out)
    BY <1>3 DEF TakeBack
  <2>2. CASE first.op = "encrypt"
    <3>1. DecryptStart(first.out)
      BY <2>1, <2>2 DEF Start
    <3> QED BY <1>2, <2>1, <2>2, <3>1, DecryptStartIInv
  <2>3. CASE first.op = "decrypt"
    <3>1. EncryptStart(first.out)
      BY <2>1, <2>3 DEF Start
    <3> QED BY <1>2, <2>1, <2>3, <3>1, EncryptStartIInv
  <2> QED BY <1>2, <2>1, <2>2, <2>3
<1>4. ASSUME Changed PROVE IInv'
  <2>1. first # NoCall
    BY <1>4 DEF Changed
  <2>2. PICK ch \in Changes : Start(first.op, [first.in EXCEPT ![ch.at] = @ ++ ch.by])
    BY <1>4 DEF Changed
  <2> DEFINE in == [first.in EXCEPT ![ch.at] = @ ++ ch.by]
  <2>3. in \in Block
    BY <1>2, <2>1, ChangedBlock
  <2>4. Start(first.op, in)
    BY <2>2
  <2> HIDE DEF in
  <2>5. CASE first.op = "encrypt"
    <3>1. EncryptStart(in)
      BY <2>4, <2>5 DEF Start
    <3> QED BY <1>2, <2>1, <2>3, <2>5, <3>1, EncryptStartIInv
  <2>6. CASE first.op = "decrypt"
    <3>1. DecryptStart(in)
      BY <2>4, <2>6 DEF Start
    <3> QED BY <1>2, <2>1, <2>3, <2>6, <3>1, DecryptStartIInv
  <2> QED BY <1>2, <2>1, <2>5, <2>6
<1> QED BY <1>1, <1>3, <1>4, EncryptRoundIInv, EncryptEndIInv, DecryptRoundIInv, DecryptEndIInv
        DEF CipherNext

LEMMA NextIInv == IInv /\ KeyIInv /\ [Next]_vars => IInv'
<1> SUFFICES ASSUME IInv, KeyIInv, [Next]_vars PROVE IInv'
  OBVIOUS
<1>1. CASE UNCHANGED vars
  BY <1>1 DEF vars, keyVars, cipherVars, IInv, TypeOK, KeyTypeOK, CipherInv, RoundInv, FirstInv,
              SecondInv, Retraces, BlockComesBack, Opposite, Position, Known, Linked, StartsFrom, EndsIn
<1> QED BY <1>1, KeyStepIInv, CipherStepIInv DEF Next

(***************************************************************************)
(* Every step of the cipher is a step of the key schedule, or none of it.  *)
(***************************************************************************)
LEMMA KeyStep == [Next]_vars => [KeyNext]_keyVars
BY DEF Next, vars

(***************************************************************************)
(* The states of both calls, the schedule's as well, for every table that  *)
(* passes the checks on single bytes and for every block, change and key.  *)
(***************************************************************************)
THEOREM CipherInvariant == Spec => [](IInv /\ KeyIInv)
<1>1. Init => IInv /\ KeyIInv
  BY InitIInv, KeyInitInv DEF Init
<1>2. IInv /\ KeyIInv /\ [Next]_vars => (IInv /\ KeyIInv)'
  BY NextIInv, KeyStep, KeyNextInv
<1> QED BY <1>1, <1>2, PTL DEF Spec

(***************************************************************************)
(* No call reads a round key that is not made, and every byte is a byte.   *)
(***************************************************************************)
THEOREM TypeCorrect == Spec => []TypeOK
<1>1. IInv => TypeOK
  BY DEF IInv
<1> QED BY <1>1, CipherInvariant, PTL

(***************************************************************************)
(* Different keys of one size make different schedules here too.           *)
(***************************************************************************)
THEOREM SchedulesStayApart == Spec => []SchedulesDiffer
<1>1. KeyIInv => SchedulesDiffer
  BY DEF KeyIInv
<1> QED BY <1>1, CipherInvariant, PTL

(***************************************************************************)
(* The second call of a pair goes back through the states of the first.    *)
(***************************************************************************)
THEOREM PathRetraced == Spec => []Retraces
<1>1. IInv => Retraces
  BY DEF IInv, CipherInv
<1> QED BY <1>1, CipherInvariant, PTL

(***************************************************************************)
(* mako_decrypt_block() is the inverse of mako_encrypt_block() and it of   *)
(* that, for every block and every schedule that was made.                 *)
(***************************************************************************)
THEOREM MutuallyInverse == Spec => []BlockComesBack
<1>1. IInv => BlockComesBack
  BY DEF IInv, CipherInv
<1> QED BY <1>1, CipherInvariant, PTL

-----------------------------------------------------------------------------
(***************************************************************************)
(* What the layers do to the cells in which two states differ.  The tables *)
(* and the key leave them where they are, a row shift moves them, and a    *)
(* matrix takes one of a column to all of it.                              *)
(***************************************************************************)
Differ(s, t) == {x \in Cells : s[x] # t[x]}
WholeColumn(c) == {x \in Cells : x[2] = c}
Diagonal(c) == {x \in Cells : (x[2] - x[1]) % 4 = c}
Antidiagonal(c) == {x \in Cells : (x[2] + x[1]) % 4 = c}

Left(y) == <<y[1], (y[2] - y[1]) % 4>>          \* where shift_rows takes a cell
Right(y) == <<y[1], (y[2] + y[1]) % 4>>         \* and inv_shift_rows

LEMMA SubDiffer ==
    ASSUME NEW s \in State, NEW t \in State
    PROVE  /\ Differ(sub_bytes(s), sub_bytes(t)) = Differ(s, t)
           /\ Differ(inv_sub_bytes(s), inv_sub_bytes(t)) = Differ(s, t)
<1>1. \A x \in Cells : s[x] \in Byte /\ t[x] \in Byte
  BY DEF State
<1>2. \A x \in Cells : /\ sub_bytes(s)[x] # sub_bytes(t)[x] <=> s[x] # t[x]
                       /\ inv_sub_bytes(s)[x] # inv_sub_bytes(t)[x] <=> s[x] # t[x]
  BY <1>1, SboxAssumption DEF sub_bytes, inv_sub_bytes
<1> QED BY <1>2 DEF Differ

LEMMA KeyDiffer ==
    ASSUME NEW s \in State, NEW t \in State, NEW k \in RoundKeys, NEW r \in 0..Rounds
    PROVE  Differ(add_round_key(s, k, r), add_round_key(t, k, r)) = Differ(s, t)
<1>1. ASSUME NEW x \in Cells
      PROVE  add_round_key(s, k, r)[x] # add_round_key(t, k, r)[x] <=> s[x] # t[x]
  <2> DEFINE b == k[4 * r + x[2]][x[1]]
  <2>1. add_round_key(s, k, r)[x] = s[x] ++ b /\ add_round_key(t, k, r)[x] = t[x] ++ b
    BY DEF add_round_key
  <2>2. \A u, v, w : u ++ w = v ++ w => u = v
    BY DEF ++
  <2> QED BY <2>1, <2>2
<1> QED BY <1>1 DEF Differ

LEMMA ShiftDiffer ==
    ASSUME NEW s \in State, NEW t \in State
    PROVE  /\ Differ(shift_rows(s), shift_rows(t)) \subseteq Cells
           /\ Differ(inv_shift_rows(s), inv_shift_rows(t)) \subseteq Cells
           /\ \A x \in Cells :
                /\ x \in Differ(shift_rows(s), shift_rows(t))
                      <=> <<x[1], (x[2] + x[1]) % 4>> \in Differ(s, t)
                /\ x \in Differ(inv_shift_rows(s), inv_shift_rows(t))
                      <=> <<x[1], (x[2] - x[1]) % 4>> \in Differ(s, t)
<1>1. \A x \in Cells : /\ <<x[1], (x[2] + x[1]) % 4>> \in Cells
                       /\ <<x[1], (x[2] - x[1]) % 4>> \in Cells
  BY CellFacts, IndexFacts
<1> QED BY <1>1 DEF Differ, shift_rows, inv_shift_rows

(***************************************************************************)
(* Where the differences are after a row shift.                            *)
(***************************************************************************)
LEMMA ShiftedCells ==
    /\ \A r, c, d \in Index : (d + r) % 4 = c <=> d = (c - r) % 4
    /\ \A r, c, d \in Index : (d - r) % 4 = c <=> d = (c + r) % 4
    /\ \A r, c, d \in Index : (d + r) % 4 = c <=> r = (c - d) % 4
    /\ \A r, c, d \in Index : (d - r) % 4 = c <=> r = (d - c) % 4
    /\ \A c, d \in Index : (c - d) % 4 \in Index /\ (d - c) % 4 \in Index
<1>1. \A r, c, d \in Index : (d + r) % 4 = c <=> d = (c - r) % 4
  BY DEF Index
<1>2. \A r, c, d \in Index : (d - r) % 4 = c <=> d = (c + r) % 4
  BY DEF Index
<1>3. \A r, c, d \in Index : (d + r) % 4 = c <=> r = (c - d) % 4
  BY DEF Index
<1>4. \A r, c, d \in Index : (d - r) % 4 = c <=> r = (d - c) % 4
  BY DEF Index
<1>5. \A c, d \in Index : (c - d) % 4 \in Index /\ (d - c) % 4 \in Index
  BY DEF Index
<1> QED BY <1>1, <1>2, <1>3, <1>4, <1>5

LEMMA ShiftOne ==
    ASSUME NEW s \in State, NEW t \in State, NEW y \in Cells, Differ(s, t) = {y}
    PROVE  /\ Left(y) \in Cells /\ Right(y) \in Cells
           /\ Differ(shift_rows(s), shift_rows(t)) = {Left(y)}
           /\ Differ(inv_shift_rows(s), inv_shift_rows(t)) = {Right(y)}
<1>1. y[1] \in Index /\ y[2] \in Index /\ y = <<y[1], y[2]>>
  BY CellFacts
<1> DEFINE z == Left(y)
           w == Right(y)
<1>2. z \in Cells /\ w \in Cells
  BY <1>1, CellFacts, IndexFacts DEF Left, Right
<1>3. ASSUME NEW x \in Cells
      PROVE  /\ <<x[1], (x[2] + x[1]) % 4>> = y <=> x = z
             /\ <<x[1], (x[2] - x[1]) % 4>> = y <=> x = w
  <2>1. x[1] \in Index /\ x[2] \in Index /\ x = <<x[1], x[2]>>
    BY CellFacts
  <2>2. /\ (x[2] + x[1]) % 4 = y[2] <=> x[2] = (y[2] - x[1]) % 4
        /\ (x[2] - x[1]) % 4 = y[2] <=> x[2] = (y[2] + x[1]) % 4
    BY <1>1, <2>1, ShiftedCells
  <2> QED BY <1>1, <2>1, <2>2 DEF Left, Right
<1> HIDE DEF z, w
<1>4. Differ(shift_rows(s), shift_rows(t)) = {z}
  <2>1. \A x \in Cells : x \in Differ(shift_rows(s), shift_rows(t)) <=> x = z
    BY <1>3, ShiftDiffer
  <2> QED BY <1>2, <2>1, ShiftDiffer
<1>5. Differ(inv_shift_rows(s), inv_shift_rows(t)) = {w}
  <2>1. \A x \in Cells : x \in Differ(inv_shift_rows(s), inv_shift_rows(t)) <=> x = w
    BY <1>3, ShiftDiffer
  <2> QED BY <1>2, <2>1, ShiftDiffer
<1> QED BY <1>2, <1>4, <1>5 DEF z, w

LEMMA ShiftColumn ==
    ASSUME NEW s \in State, NEW t \in State, NEW c \in Index, Differ(s, t) = WholeColumn(c)
    PROVE  /\ Differ(shift_rows(s), shift_rows(t)) = Antidiagonal(c)
           /\ Differ(inv_shift_rows(s), inv_shift_rows(t)) = Diagonal(c)
<1>1. \A x \in Cells : /\ <<x[1], (x[2] + x[1]) % 4>> \in WholeColumn(c) <=> (x[2] + x[1]) % 4 = c
                       /\ <<x[1], (x[2] - x[1]) % 4>> \in WholeColumn(c) <=> (x[2] - x[1]) % 4 = c
  BY CellFacts, IndexFacts DEF WholeColumn
<1>2. Differ(shift_rows(s), shift_rows(t)) = Antidiagonal(c)
  <2>1. \A x \in Cells : x \in Differ(shift_rows(s), shift_rows(t)) <=> (x[2] + x[1]) % 4 = c
    BY <1>1, ShiftDiffer
  <2> QED BY <2>1, ShiftDiffer DEF Antidiagonal
<1>3. Differ(inv_shift_rows(s), inv_shift_rows(t)) = Diagonal(c)
  <2>1. \A x \in Cells :
            x \in Differ(inv_shift_rows(s), inv_shift_rows(t)) <=> (x[2] - x[1]) % 4 = c
    BY <1>1, ShiftDiffer
  <2> QED BY <2>1, ShiftDiffer DEF Diagonal
<1> QED BY <1>2, <1>3

LEMMA ShiftAll ==
    ASSUME NEW s \in State, NEW t \in State, Differ(s, t) = Cells
    PROVE  Differ(inv_shift_rows(s), inv_shift_rows(t)) = Cells
<1>1. \A x \in Cells : <<x[1], (x[2] - x[1]) % 4>> \in Cells
  BY CellFacts, IndexFacts
<1>2. \A x \in Cells : x \in Differ(inv_shift_rows(s), inv_shift_rows(t))
  BY <1>1, ShiftDiffer
<1> QED BY <1>2, ShiftDiffer

LEMMA OneInEachColumn ==
    ASSUME NEW c \in Index, NEW d \in Index
    PROVE  /\ \E j \in Index : Diagonal(c) \cap WholeColumn(d) = {<<j, d>>}
           /\ \E j \in Index : Antidiagonal(c) \cap WholeColumn(d) = {<<j, d>>}
<1>1. \A x \in Cells : x[2] = d => x = <<x[1], d>> /\ x[1] \in Index
  BY CellFacts
<1>2. Diagonal(c) \cap WholeColumn(d) = {<<(d - c) % 4, d>>}
  <2>1. (d - c) % 4 \in Index /\ <<(d - c) % 4, d>> \in Cells
    BY ShiftedCells, CellFacts
  <2>2. \A r \in Index : (d - r) % 4 = c <=> r = (d - c) % 4
    BY ShiftedCells
  <2> QED BY <1>1, <2>1, <2>2 DEF Diagonal, WholeColumn
<1>3. Antidiagonal(c) \cap WholeColumn(d) = {<<(c - d) % 4, d>>}
  <2>1. (c - d) % 4 \in Index /\ <<(c - d) % 4, d>> \in Cells
    BY ShiftedCells, CellFacts
  <2>2. \A r \in Index : (d + r) % 4 = c <=> r = (c - d) % 4
    BY ShiftedCells
  <2> QED BY <1>1, <2>1, <2>2 DEF Antidiagonal, WholeColumn
<1> QED BY <1>2, <1>3, ShiftedCells

(***************************************************************************)
(* A sum of four changes if one of them does; so do all the bytes of a     *)
(* column of which one did before the matrix.                              *)
(***************************************************************************)
LEMMA SumOfOne ==
    ASSUME NEW f, NEW g, NEW j \in Index, f[j] # g[j],
           \A k \in Index : k # j => f[k] = g[k]
    PROVE  Sum(f) # Sum(g)
<1>1. \A u, v, w : (u ++ w = v ++ w => u = v) /\ (w ++ u = w ++ v => u = v)
  BY DEF ++
<1>2. j \in {0, 1, 2, 3} /\ Index = {0, 1, 2, 3}
  BY DEF Index
<1>3. CASE j = 0
  BY <1>1, <1>2, <1>3 DEF Sum
<1>4. CASE j = 1
  BY <1>1, <1>2, <1>4 DEF Sum
<1>5. CASE j = 2
  BY <1>1, <1>2, <1>5 DEF Sum
<1>6. CASE j = 3
  BY <1>1, <1>2, <1>6 DEF Sum
<1> QED BY <1>2, <1>3, <1>4, <1>5, <1>6

LEMMA TableDiffers ==
    ASSUME NEW c \in Coefficients, NEW x \in Byte, NEW y \in Byte, x # y
    PROVE  GF_MUL[c][x] # GF_MUL[c][y]
<1>1. x ++ y \in Byte \ {{}}
  <2>1. x ++ y \in Byte
    BY XorByte
  <2>2. x ++ y # {}
    BY DEF ++
  <2> QED BY <2>1, <2>2
<1>2. GF_MUL[c][x ++ y] = GF_MUL[c][x] ++ GF_MUL[c][y] /\ GF_MUL[c][x ++ y] # {}
  BY <1>1, TableAssumption, CoefficientAssumption
<1>3. \A u : u ++ u = {}
  BY DEF ++
<1> QED BY <1>2, <1>3

LEMMA TimesColumn ==
    ASSUME NEW A \in [Index -> Coefficients], NEW s \in State, NEW t \in State, NEW d \in Index
    PROVE  /\ Differ(s, t) \cap WholeColumn(d) = {}
                 => Differ(Times(A, s), Times(A, t)) \cap WholeColumn(d) = {}
           /\ (\E j \in Index : Differ(s, t) \cap WholeColumn(d) = {<<j, d>>})
                 => Differ(Times(A, s), Times(A, t)) \cap WholeColumn(d) = WholeColumn(d)
<1> DEFINE part(u, r) == [k \in Index |-> GF_MUL[A[(k - r) % 4]][u[<<k, d>>]]]
<1>1. ASSUME NEW x \in WholeColumn(d)
      PROVE  /\ x[1] \in Index /\ x = <<x[1], d>> /\ x \in Cells
             /\ Times(A, s)[x] = Sum(part(s, x[1])) /\ Times(A, t)[x] = Sum(part(t, x[1]))
  BY CellFacts DEF WholeColumn, Times
<1>2. \A k \in Index : <<k, d>> \in Cells /\ <<k, d>> \in WholeColumn(d)
  BY CellFacts DEF WholeColumn
<1>3. ASSUME Differ(s, t) \cap WholeColumn(d) = {}, NEW x \in WholeColumn(d)
      PROVE  Times(A, s)[x] = Times(A, t)[x]
  <2>1. \A k \in Index : s[<<k, d>>] = t[<<k, d>>]
    BY <1>2, <1>3 DEF Differ
  <2>2. part(s, x[1]) = part(t, x[1])
    BY <2>1
  <2> QED BY <1>1, <2>2
<1>4. ASSUME NEW j \in Index, Differ(s, t) \cap WholeColumn(d) = {<<j, d>>}, NEW x \in WholeColumn(d)
      PROVE  Times(A, s)[x] # Times(A, t)[x]
  <2>1. s[<<j, d>>] # t[<<j, d>>] /\ \A k \in Index : k # j => s[<<k, d>>] = t[<<k, d>>]
    BY <1>2, <1>4 DEF Differ
  <2>2. s[<<j, d>>] \in Byte /\ t[<<j, d>>] \in Byte
    BY <1>2 DEF State
  <2>3. A[(j - x[1]) % 4] \in Coefficients
    BY <1>1, IndexFacts
  <2>4. part(s, x[1])[j] # part(t, x[1])[j]
    BY <2>1, <2>2, <2>3, TableDiffers
  <2>5. \A k \in Index : k # j => part(s, x[1])[k] = part(t, x[1])[k]
    BY <2>1
  <2> HIDE DEF part
  <2>6. Sum(part(s, x[1])) # Sum(part(t, x[1]))
    BY <2>4, <2>5, SumOfOne
  <2> QED BY <1>1, <2>6
<1> HIDE DEF part
<1>5. \A x \in WholeColumn(d) : x \in Cells
  BY DEF WholeColumn
<1> QED BY <1>3, <1>4, <1>5 DEF Differ
LEMMA MixOne ==
    ASSUME NEW A \in [Index -> Coefficients], NEW s \in State, NEW t \in State,
           NEW y \in Cells, Differ(s, t) = {y}
    PROVE  Differ(Times(A, s), Times(A, t)) = WholeColumn(y[2]) /\ y[2] \in Index
<1> DEFINE after == Differ(Times(A, s), Times(A, t))
<1>1. y[1] \in Index /\ y[2] \in Index /\ y = <<y[1], y[2]>>
  BY CellFacts
<1>2. Differ(s, t) \cap WholeColumn(y[2]) = {<<y[1], y[2]>>}
  BY <1>1 DEF WholeColumn
<1>3. after \cap WholeColumn(y[2]) = WholeColumn(y[2])
  BY <1>1, <1>2, TimesColumn
<1>4. ASSUME NEW x \in Cells, x[2] # y[2] PROVE x \notin after
  <2>1. x[2] \in Index /\ x \in WholeColumn(x[2])
    BY CellFacts DEF WholeColumn
  <2>2. Differ(s, t) \cap WholeColumn(x[2]) = {}
    BY <1>4 DEF WholeColumn
  <2>3. after \cap WholeColumn(x[2]) = {}
    BY <2>1, <2>2, TimesColumn
  <2> QED BY <2>1, <2>3
<1>5. after \subseteq Cells /\ WholeColumn(y[2]) \subseteq Cells
  BY DEF Differ, WholeColumn
<1>6. \A x \in Cells : x \in WholeColumn(y[2]) <=> x[2] = y[2]
  BY DEF WholeColumn
<1> HIDE DEF after
<1>7. after = WholeColumn(y[2])
  BY <1>3, <1>4, <1>5, <1>6
<1> QED BY <1>1, <1>7 DEF after

LEMMA MixEachColumn ==
    ASSUME NEW A \in [Index -> Coefficients], NEW s \in State, NEW t \in State,
           \A d \in Index : \E j \in Index : Differ(s, t) \cap WholeColumn(d) = {<<j, d>>}
    PROVE  Differ(Times(A, s), Times(A, t)) = Cells
<1> DEFINE after == Differ(Times(A, s), Times(A, t))
<1>1. ASSUME NEW x \in Cells PROVE x \in after
  <2>1. x[2] \in Index /\ x \in WholeColumn(x[2])
    BY CellFacts DEF WholeColumn
  <2>2. after \cap WholeColumn(x[2]) = WholeColumn(x[2])
    BY <2>1, TimesColumn
  <2> QED BY <2>1, <2>2
<1> QED BY <1>1 DEF Differ

-----------------------------------------------------------------------------
(***************************************************************************)
(* What a round does to them: one cell becomes a column (back: a diagonal),*)
(* that becomes everything, and never nothing.                             *)
(***************************************************************************)
LEMMA Matrices == MIX \in [Index -> Coefficients] /\ INV_MIX \in [Index -> Coefficients]
<1>1. MIX \in [Index -> Coefficients]
  BY DEF MIX, Index, Coefficients
<1>2. INV_MIX \in [Index -> Coefficients]
  BY DEF INV_MIX, Index, Coefficients
<1> QED BY <1>1, <1>2

LEMMA RoundDiffer ==
    ASSUME NEW s \in State, NEW t \in State, NEW k \in RoundKeys, NEW r \in 0..Rounds
    PROVE  /\ \A y \in Cells : Differ(s, t) = {y} =>
                 Differ(Round(s, k, r), Round(t, k, r)) = WholeColumn(Left(y)[2])
           /\ (\E c \in Index : Differ(s, t) = WholeColumn(c))
                 => Differ(Round(s, k, r), Round(t, k, r)) = Cells
           /\ Differ(s, t) # {} => Differ(Round(s, k, r), Round(t, k, r)) # {}
<1> DEFINE a == sub_bytes(s)
           b == sub_bytes(t)
           d == shift_rows(a)
           e == shift_rows(b)
           m == mix_columns(d)
           n == mix_columns(e)
<1>1. a \in State /\ b \in State /\ d \in State /\ e \in State /\ m \in State /\ n \in State
  BY SubInverse, ShiftInverse, MixInverse
<1>2. Differ(a, b) = Differ(s, t)
  BY SubDiffer
<1>3. Round(s, k, r) = add_round_key(m, k, r) /\ Round(t, k, r) = add_round_key(n, k, r)
  BY DEF Round
<1>4. m = Times(MIX, d) /\ n = Times(MIX, e)
  BY DEF mix_columns
<1> HIDE DEF a, b, d, e, m, n
<1>5. Differ(Round(s, k, r), Round(t, k, r)) = Differ(m, n)
  BY <1>1, <1>3, KeyDiffer
<1>6. ASSUME NEW y \in Cells, Differ(s, t) = {y} PROVE Differ(m, n) = WholeColumn(Left(y)[2])
  <2>1. Left(y) \in Cells /\ Differ(d, e) = {Left(y)}
    BY <1>1, <1>2, <1>6, ShiftOne DEF d, e
  <2> QED BY <1>1, <1>4, <2>1, MixOne, Matrices
<1>7. ASSUME NEW c \in Index, Differ(s, t) = WholeColumn(c) PROVE Differ(m, n) = Cells
  <2>1. Differ(d, e) = Antidiagonal(c)
    BY <1>1, <1>2, <1>7, ShiftColumn DEF d, e
  <2>2. \A f \in Index : \E j \in Index : Differ(d, e) \cap WholeColumn(f) = {<<j, f>>}
    BY <2>1, OneInEachColumn
  <2> QED BY <1>1, <1>4, <2>2, MixEachColumn, Matrices
<1>8. ASSUME Differ(s, t) # {} PROVE Differ(Round(s, k, r), Round(t, k, r)) # {}
  <2>1. s # t
    BY <1>8 DEF Differ
  <2>2. Round(s, k, r) # Round(t, k, r)
    BY <2>1, RoundInverse
  <2>3. Round(s, k, r) \in State /\ Round(t, k, r) \in State
    BY RoundInverse
  <2>4. \A u, v \in State : u # v => \E x \in Cells : u[x] # v[x]
    BY DEF State
  <2> QED BY <2>2, <2>3, <2>4 DEF Differ
<1> QED BY <1>5, <1>6, <1>7, <1>8

LEMMA InvRoundDiffer ==
    ASSUME NEW s \in State, NEW t \in State, NEW k \in RoundKeys, NEW r \in 0..Rounds
    PROVE  /\ \A y \in Cells : Differ(s, t) = {y} =>
                 Differ(InvRound(s, k, r), InvRound(t, k, r)) = Diagonal(y[2])
           /\ (\E c \in Index : Differ(s, t) = Diagonal(c))
                 => Differ(InvRound(s, k, r), InvRound(t, k, r)) = Cells
           /\ Differ(s, t) # {} => Differ(InvRound(s, k, r), InvRound(t, k, r)) # {}
<1> DEFINE a == add_round_key(s, k, r)
           b == add_round_key(t, k, r)
           d == inv_mix_columns(a)
           e == inv_mix_columns(b)
           m == inv_shift_rows(d)
           n == inv_shift_rows(e)
<1>1. a \in State /\ b \in State /\ d \in State /\ e \in State /\ m \in State /\ n \in State
  BY KeyInverse, ShiftInverse, MixInverse
<1>2. Differ(a, b) = Differ(s, t)
  BY KeyDiffer
<1>3. InvRound(s, k, r) = inv_sub_bytes(m) /\ InvRound(t, k, r) = inv_sub_bytes(n)
  BY DEF InvRound
<1>4. d = Times(INV_MIX, a) /\ e = Times(INV_MIX, b)
  BY DEF inv_mix_columns
<1> HIDE DEF a, b, d, e, m, n
<1>5. Differ(InvRound(s, k, r), InvRound(t, k, r)) = Differ(m, n)
  BY <1>1, <1>3, SubDiffer
<1>6. ASSUME NEW y \in Cells, Differ(s, t) = {y} PROVE Differ(m, n) = Diagonal(y[2])
  <2>1. Differ(d, e) = WholeColumn(y[2]) /\ y[2] \in Index
    BY <1>1, <1>2, <1>4, <1>6, MixOne, Matrices
  <2>2. Differ(m, n) = Diagonal(y[2])
    BY <1>1, <2>1, ShiftColumn DEF m, n
  <2> QED BY <2>1, <2>2
<1>7. ASSUME NEW c \in Index, Differ(s, t) = Diagonal(c) PROVE Differ(m, n) = Cells
  <2>1. \A f \in Index : \E j \in Index : Differ(a, b) \cap WholeColumn(f) = {<<j, f>>}
    <3>1. Differ(a, b) = Diagonal(c)
      BY <1>2, <1>7
    <3>2. \A f \in Index : \E j \in Index : Diagonal(c) \cap WholeColumn(f) = {<<j, f>>}
      BY OneInEachColumn
    <3> QED BY <3>1, <3>2
  <2>2. Differ(d, e) = Cells
    BY <1>1, <1>4, <2>1, MixEachColumn, Matrices
  <2> QED BY <1>1, <2>2, ShiftAll DEF m, n
<1>8. ASSUME Differ(s, t) # {} PROVE Differ(InvRound(s, k, r), InvRound(t, k, r)) # {}
  <2>1. s # t
    BY <1>8 DEF Differ
  <2>2. InvRound(s, k, r) # InvRound(t, k, r)
    BY <2>1, RoundInverse
  <2>3. InvRound(s, k, r) \in State /\ InvRound(t, k, r) \in State
    BY RoundInverse
  <2>4. \A u, v \in State : u # v => \E x \in Cells : u[x] # v[x]
    BY DEF State
  <2> QED BY <2>2, <2>3, <2>4 DEF Differ
<1> QED BY <1>5, <1>6, <1>7, <1>8

LEMMA InvFinalRoundDiffer ==
    ASSUME NEW s \in State, NEW t \in State, NEW k \in RoundKeys,
           NEW y \in Cells, Differ(s, t) = {y}
    PROVE  Right(y) \in Cells /\ Differ(InvFinalRound(s, k), InvFinalRound(t, k)) = {Right(y)}
<1>0. Rounds \in 0..Rounds
  BY SizeAssumption
<1> DEFINE a == add_round_key(s, k, Rounds)
           b == add_round_key(t, k, Rounds)
           m == inv_shift_rows(a)
           n == inv_shift_rows(b)
<1>1. a \in State /\ b \in State /\ m \in State /\ n \in State
  BY <1>0, KeyInverse, ShiftInverse
<1>2. Differ(a, b) = Differ(s, t)
  BY <1>0, KeyDiffer
<1>3. InvFinalRound(s, k) = inv_sub_bytes(m) /\ InvFinalRound(t, k) = inv_sub_bytes(n)
  BY DEF InvFinalRound
<1> HIDE DEF a, b, m, n
<1>4. Differ(InvFinalRound(s, k), InvFinalRound(t, k)) = Differ(m, n)
  BY <1>1, <1>3, SubDiffer
<1>5. Right(y) \in Cells /\ Differ(m, n) = {Right(y)}
  BY <1>1, <1>2, ShiftOne DEF m, n
<1> QED BY <1>4, <1>5

-----------------------------------------------------------------------------
(***************************************************************************)
(* How many they are.                                                      *)
(***************************************************************************)
LEMMA CellCount == IsFiniteSet(Cells) /\ Cardinality(Cells) = 16
<1>1. IsFiniteSet(0..3) /\ Cardinality(0..3) = 4
  <2>1. 0 \in Int /\ 3 \in Int /\ ~(0 > 3) /\ 3 - 0 + 1 = 4
    OBVIOUS
  <2>2. IsFiniteSet(0..3) /\ Cardinality(0..3) = IF 0 > 3 THEN 0 ELSE 3 - 0 + 1
    BY <2>1, FS_Interval, Zenon
  <2> QED BY <2>1, <2>2
<1>2. IsFiniteSet(Index) /\ Cardinality(Index) = 4
  BY <1>1 DEF Index
<1>3. IsFiniteSet(Index \X Index) /\ Cardinality(Index \X Index) = 4 * 4
  BY <1>2, FS_Product
<1> QED BY <1>3 DEF Cells

LEMMA FourCells ==
    ASSUME NEW f \in [Index -> Index]
    PROVE  Cardinality({<<0, f[0]>>, <<1, f[1]>>, <<2, f[2]>>, <<3, f[3]>>}) = 4
<1> DEFINE A == {<<0, f[0]>>}
           B == A \cup {<<1, f[1]>>}
           C == B \cup {<<2, f[2]>>}
           D == C \cup {<<3, f[3]>>}
<1>1. IsFiniteSet(A) /\ Cardinality(A) = 1
  BY FS_Singleton
<1>2. <<1, f[1]>> \notin A /\ <<2, f[2]>> \notin B /\ <<3, f[3]>> \notin C
  OBVIOUS
<1>3. D = {<<0, f[0]>>, <<1, f[1]>>, <<2, f[2]>>, <<3, f[3]>>}
  OBVIOUS
<1> HIDE DEF A
<1>4. IsFiniteSet(B) /\ Cardinality(B) = 2
  BY <1>1, <1>2, FS_AddElement
<1> HIDE DEF B
<1>5. IsFiniteSet(C) /\ Cardinality(C) = 3
  BY <1>2, <1>4, FS_AddElement
<1> HIDE DEF C
<1>6. Cardinality(D) = 4
  <2>1. <<3, f[3]>> \notin C /\ IsFiniteSet(C)
    BY <1>2, <1>5
  <2>2. Cardinality(C \cup {<<3, f[3]>>}) = Cardinality(C) + 1
    BY <2>1, FS_AddElement
  <2> QED BY <1>5, <2>2
<1> QED BY <1>3, <1>6

LEMMA LineCount ==
    ASSUME NEW c \in Index
    PROVE  Cardinality(WholeColumn(c)) = 4 /\ Cardinality(Diagonal(c)) = 4
<1>1. ASSUME NEW f \in [Index -> Index], NEW S, S \subseteq Cells,
             \A x \in Cells : x \in S <=> x[2] = f[x[1]]
      PROVE  Cardinality(S) = 4
  <2>1. \A r \in Index : <<r, f[r]>> \in S
    BY <1>1, CellFacts
  <2>2. ASSUME NEW x \in S PROVE \E r \in Index : x = <<r, f[r]>>
    BY <1>1, <2>2, CellFacts
  <2>3. Index = {0, 1, 2, 3}
    BY DEF Index
  <2>4. S = {<<0, f[0]>>, <<1, f[1]>>, <<2, f[2]>>, <<3, f[3]>>}
    BY <2>1, <2>2, <2>3
  <2> QED BY <2>4, FourCells
<1>2. Cardinality(WholeColumn(c)) = 4
  <2> DEFINE f == [r \in Index |-> c]
  <2>1. f \in [Index -> Index] /\ \A x \in Cells : x \in WholeColumn(c) <=> x[2] = f[x[1]]
    BY CellFacts DEF WholeColumn
  <2>2. WholeColumn(c) \subseteq Cells
    BY DEF WholeColumn
  <2> HIDE DEF f
  <2> QED BY <1>1, <2>1, <2>2
<1>3. Cardinality(Diagonal(c)) = 4
  <2> DEFINE f == [r \in Index |-> (c + r) % 4]
  <2>1. f \in [Index -> Index]
    BY IndexFacts
  <2>2. \A x \in Cells : x \in Diagonal(c) <=> x[2] = f[x[1]]
    <3> SUFFICES ASSUME NEW r \in Index, NEW d \in Index
                 PROVE  <<r, d>> \in Diagonal(c) <=> d = f[r]
      BY CellFacts
    <3>1. (d - r) % 4 = c <=> d = (c + r) % 4
      BY ShiftedCells
    <3>2. f[r] = (c + r) % 4
      OBVIOUS
    <3>3. <<r, d>> \in Cells
      BY CellFacts
    <3> HIDE DEF f
    <3> QED BY <3>1, <3>2, <3>3 DEF Diagonal
  <2>3. Diagonal(c) \subseteq Cells
    BY DEF Diagonal
  <2> HIDE DEF f
  <2> QED BY <1>1, <2>1, <2>2, <2>3
<1> QED BY <1>2, <1>3

-----------------------------------------------------------------------------
(***************************************************************************)
(* The second call of a pair on a changed block, against the trace of the  *)
(* first.                                                                  *)
(***************************************************************************)
Again == first # NoCall /\ call.op = first.op /\ call.in # first.in /\ pc # "idle"

MixedRounds == IF pc = "encrypt" THEN Position ELSE Rounds - 1 - Position

(***************************************************************************)
(* Where a change of cell y is when the cipher comes to its first round    *)
(* with MixColumns, and after n of them.                                   *)
(***************************************************************************)
Landing(op, y) == IF op = "encrypt" THEN y ELSE Right(y)

Line(op, y) == IF op = "encrypt" THEN WholeColumn(Left(y)[2]) ELSE Diagonal(y[2])

Reached(op, y, n, active) ==
    /\ n = 0 => active = {y}
    /\ n = 1 => active = Line(op, y)
    /\ n = 2 => active = Cells

Origin(y) == Differ(bytes_to_state(call.in), bytes_to_state(first.in)) = {y}

SpreadInv ==
    Again =>
        /\ MixedRounds \in Nat
        /\ Differ(state, trace[Position]) # {}
        /\ \E y \in Cells :
              /\ Origin(y) /\ Landing(pc, y) \in Cells
              /\ Reached(pc, Landing(pc, y), MixedRounds, Differ(state, trace[Position]))

LEMMA OneCellChanges ==
    ASSUME NEW in \in Block, NEW ch \in Changes
    PROVE  \E y \in Cells :
               Differ(bytes_to_state([in EXCEPT ![ch.at] = @ ++ ch.by]), bytes_to_state(in)) = {y}
<1> DEFINE new == [in EXCEPT ![ch.at] = @ ++ ch.by]
           y == <<ch.at % 4, ch.at \div 4>>
<1>1. ch.at \in 0..15 /\ ch.by \in Byte \ {{}}
  BY InputAssumption
<1>2. /\ \A n \in 0..15 : n % 4 \in 0..3 /\ n \div 4 \in 0..3
      /\ \A n \in 0..15, r, c \in 0..3 : 4 * c + r = n <=> r = n % 4 /\ c = n \div 4
  OBVIOUS
<1>3. \A r, c \in 0..3 : 4 * c + r \in 0..15
  OBVIOUS
<1>4. y \in Cells
  BY <1>1, <1>2, CellFacts DEF Index
<1>5. ASSUME NEW n \in 0..15 PROVE new[n] # in[n] <=> n = ch.at
  <2>1. \A u, v : u ++ v = u => v = {}
    BY DEF ++
  <2> QED BY <1>1, <2>1 DEF Block
<1> HIDE DEF new
<1>6. ASSUME NEW x \in Cells
      PROVE  bytes_to_state(new)[x] # bytes_to_state(in)[x] <=> x = y
  <2>1. x[1] \in 0..3 /\ x[2] \in 0..3 /\ x = <<x[1], x[2]>>
    BY CellFacts DEF Index
  <2>2. 4 * x[2] + x[1] \in 0..15
    BY <1>3, <2>1
  <2>3. bytes_to_state(new)[x] # bytes_to_state(in)[x] <=> 4 * x[2] + x[1] = ch.at
    BY <1>5, <2>2 DEF bytes_to_state
  <2>4. 4 * x[2] + x[1] = ch.at <=> x[1] = ch.at % 4 /\ x[2] = ch.at \div 4
    BY <1>1, <1>2, <2>1
  <2> QED BY <2>1, <2>3, <2>4
<1>7. Differ(bytes_to_state(new), bytes_to_state(in)) = {y}
  BY <1>4, <1>6 DEF Differ
<1> QED BY <1>4, <1>7 DEF new

LEMMA SpreadStart ==
    ASSUME IInv, Changed, UNCHANGED keyVars
    PROVE  SpreadInv'
<1>1. first # NoCall /\ first.in \in Block /\ first.op \in {"encrypt", "decrypt"} /\ made = "OK"
      /\ call # NoCall
  BY DEF Changed, IInv, TypeOK, CipherInv, SecondInv
<1>2. PICK ch \in Changes : Start(first.op, [first.in EXCEPT ![ch.at] = @ ++ ch.by])
  BY DEF Changed
<1> DEFINE new == [first.in EXCEPT ![ch.at] = @ ++ ch.by]
           u == bytes_to_state(new)
           v == bytes_to_state(first.in)
<1>3. new \in Block
  BY <1>1, ChangedBlock
<1>4. u \in State /\ v \in State
  BY <1>1, <1>3, BytesInverse
<1>5. PICK y \in Cells : Differ(u, v) = {y}
  BY <1>1, OneCellChanges
<1>6. Start(first.op, new)
  BY <1>2
<1> HIDE DEF new
<1>7. ks \in RoundKeys /\ Rounds \in Nat \ {0} /\ ks' = ks /\ Known(0, Rounds)
  BY <1>1, InCall DEF keyVars, IInv, CipherInv, SecondInv
<1>8. CASE first.op = "encrypt"
  <2>1. /\ pc' = "encrypt" /\ round' = 1 /\ first' = first /\ trace' = trace
        /\ state' = add_round_key(u, ks, 0)
    BY <1>1, <1>6, <1>8 DEF Start, EncryptStart, Begin, Record
  <2>2. trace[0] = add_round_key(v, ks, 0)
    BY <1>1, <1>8 DEF IInv, CipherInv, SecondInv, StartsFrom
  <2>3. Differ(state', trace[0]) = {y}
    BY <1>4, <1>5, <1>7, <2>1, <2>2, KeyDiffer
  <2>4. Position' = 0 /\ MixedRounds' = 0
    BY <2>1 DEF Position, MixedRounds
  <2>5. call'.in = new
    BY <1>1, <1>6, <1>8 DEF Start, EncryptStart, Begin
  <2>6. Origin(y)'
    BY <1>5, <2>1, <2>5 DEF Origin
  <2>7. Landing(pc', y) = y /\ Reached(pc', y, 0, {y})
    BY <2>1 DEF Landing, Reached
  <2>8. Differ(state', trace'[Position']) = {y}
    BY <2>1, <2>3, <2>4
  <2> QED BY <2>4, <2>6, <2>7, <2>8 DEF SpreadInv
<1>9. CASE first.op = "decrypt"
  <2>1. /\ pc' = "decrypt" /\ round' = Rounds - 1 /\ first' = first /\ trace' = trace
        /\ state' = InvFinalRound(u, ks)
    BY <1>1, <1>6, <1>9 DEF Start, DecryptStart, Begin
  <2>2. trace[Rounds] = v
    BY <1>1, <1>9 DEF IInv, CipherInv, SecondInv, EndsIn
  <2>3. trace[Rounds - 1] \in State /\ trace[Rounds] = FinalRound(trace[Rounds - 1], ks)
    BY <1>7, RoundsKnown
  <2>4. trace[Rounds - 1] = InvFinalRound(v, ks)
    BY <1>7, <2>2, <2>3, FinalRoundInverse
  <2>5. Right(y) \in Cells /\ Differ(state', trace[Rounds - 1]) = {Right(y)}
    BY <1>4, <1>5, <1>7, <2>1, <2>4, InvFinalRoundDiffer
  <2>6. Position' = Rounds - 1 /\ MixedRounds' = 0
    BY <1>7, <2>1 DEF Position, MixedRounds
  <2>7. call'.in = new
    BY <1>1, <1>6, <1>9 DEF Start, DecryptStart, Begin
  <2>8. Origin(y)'
    BY <1>5, <2>1, <2>7 DEF Origin
  <2>9. Landing(pc', y) = Right(y) /\ Reached(pc', Right(y), 0, {Right(y)})
    BY <2>1 DEF Landing, Reached
  <2>10. Differ(state', trace'[Position']) = {Right(y)}
    BY <2>1, <2>5, <2>6
  <2> QED BY <2>5, <2>6, <2>8, <2>9, <2>10 DEF SpreadInv
<1> QED BY <1>1, <1>8, <1>9

LEMMA SpreadEncrypt ==
    ASSUME IInv, SpreadInv, EncryptRound, UNCHANGED keyVars
    PROVE  SpreadInv'
<1> SUFFICES ASSUME Again' PROVE SpreadInv'
  BY DEF SpreadInv
<1>1. /\ pc = "encrypt" /\ pc' = pc /\ call' = call /\ first' = first /\ round < Rounds
      /\ state' = Round(state, ks, round) /\ round' = round + 1 /\ ks' = ks /\ Again
      /\ trace' = trace /\ call # NoCall
  BY DEF EncryptRound, Record, Again, keyVars, IInv, TypeOK
<1>2. /\ ks \in RoundKeys /\ state \in State /\ round \in 1..Rounds /\ Rounds \in Nat \ {0}
      /\ Known(0, Rounds)
  BY <1>1, InCall DEF IInv, CipherInv, RoundInv, SecondInv, Again
<1>3. /\ trace[round - 1] \in State
      /\ trace[round] = Round(trace[round - 1], ks, round)
  BY <1>1, <1>2, RoundsKnown
<1>4. /\ Position = round - 1 /\ Position' = round
      /\ MixedRounds = round - 1 /\ MixedRounds' = round
  BY <1>1, <1>2 DEF Position, MixedRounds
<1> DEFINE before == Differ(state, trace[round - 1])
           after == Differ(Round(state, ks, round), Round(trace[round - 1], ks, round))
<1>5. PICK y \in Cells : Origin(y) /\ Landing(pc, y) = y /\ Reached(pc, y, round - 1, before)
  BY <1>1, <1>4 DEF SpreadInv, Landing
<1>6. /\ before # {} => after # {}
      /\ before = {y} => after = WholeColumn(Left(y)[2])
      /\ (\E c \in Index : before = WholeColumn(c)) => after = Cells
  BY <1>1, <1>2, <1>3, RoundDiffer
<1>7. Differ(state', trace'[Position']) = after /\ before # {}
  BY <1>1, <1>3, <1>4 DEF SpreadInv
<1>8. Left(y)[2] \in Index
  BY CellFacts, IndexFacts DEF Left
<1> HIDE DEF before, after
<1>9. after # {} /\ Reached(pc, y, round, after)
  <2>1. round = 1 => after = Line(pc, y)
    BY <1>1, <1>5, <1>6 DEF Reached, Line
  <2>2. round = 2 => after = Cells
    BY <1>1, <1>5, <1>6, <1>8 DEF Reached, Line
  <2> QED BY <1>2, <1>6, <1>7, <2>1, <2>2 DEF Reached
<1>10. Origin(y)'
  BY <1>1, <1>5 DEF Origin
<1> QED BY <1>1, <1>2, <1>4, <1>5, <1>7, <1>9, <1>10 DEF SpreadInv

LEMMA SpreadDecrypt ==
    ASSUME IInv, SpreadInv, DecryptRound, UNCHANGED keyVars
    PROVE  SpreadInv'
<1> SUFFICES ASSUME Again' PROVE SpreadInv'
  BY DEF SpreadInv
<1>1. /\ pc = "decrypt" /\ pc' = pc /\ call' = call /\ first' = first /\ round >= 1
      /\ state' = InvRound(state, ks, round) /\ round' = round - 1 /\ ks' = ks /\ Again
      /\ trace' = trace /\ call # NoCall
  BY DEF DecryptRound, Record, Again, keyVars, IInv, TypeOK
<1>2. /\ ks \in RoundKeys /\ state \in State /\ round \in 1..Rounds-1 /\ Rounds \in Nat \ {0}
      /\ Known(0, Rounds)
  BY <1>1, InCall DEF IInv, CipherInv, RoundInv, SecondInv, Again
<1>3. /\ trace[round] \in State /\ trace[round - 1] \in State
      /\ trace[round] = Round(trace[round - 1], ks, round)
  BY <1>1, <1>2, RoundsKnown
<1>4. trace[round - 1] = InvRound(trace[round], ks, round)
  BY <1>2, <1>3, RoundInverse
<1>5. /\ Position = round /\ Position' = round - 1
      /\ MixedRounds = Rounds - 1 - round /\ MixedRounds' = (Rounds - 1 - round) + 1
  BY <1>1, <1>2 DEF Position, MixedRounds
<1> DEFINE before == Differ(state, trace[round])
           after == Differ(InvRound(state, ks, round), InvRound(trace[round], ks, round))
           n == Rounds - 1 - round
<1>6. PICK y \in Cells : /\ Origin(y) /\ Landing(pc, y) = Right(y) /\ Right(y) \in Cells
                         /\ Reached(pc, Right(y), n, before)
  BY <1>1, <1>5 DEF SpreadInv, Landing
<1> DEFINE z == Right(y)
<1>7. z \in Cells /\ z[2] \in Index
  BY <1>6, CellFacts
<1>8. /\ before # {} => after # {}
      /\ before = {z} => after = Diagonal(z[2])
      /\ (\E c \in Index : before = Diagonal(c)) => after = Cells
  <2> HIDE DEF z
  <2> QED BY <1>1, <1>2, <1>3, <1>7, InvRoundDiffer
<1>9. Differ(state', trace'[Position']) = after /\ before # {}
  BY <1>1, <1>4, <1>5 DEF SpreadInv
<1>10. n \in Nat /\ MixedRounds' = n + 1
  BY <1>2, <1>5
<1> HIDE DEF before, after, n
<1>11. after # {} /\ Reached(pc, z, n + 1, after)
  <2> HIDE DEF z
  <2>1. Reached(pc, z, n, before)
    BY <1>6 DEF z
  <2>2. n + 1 = 1 => after = Line(pc, z)
    BY <1>1, <1>8, <1>10, <2>1 DEF Reached, Line
  <2>3. n + 1 = 2 => after = Cells
    BY <1>1, <1>7, <1>8, <1>10, <2>1 DEF Reached, Line
  <2> QED BY <1>8, <1>9, <1>10, <2>2, <2>3 DEF Reached
<1>12. Origin(y)'
  BY <1>1, <1>6 DEF Origin
<1> QED BY <1>1, <1>6, <1>9, <1>10, <1>11, <1>12 DEF SpreadInv

LEMMA SpreadNext == IInv /\ SpreadInv /\ [Next]_vars => SpreadInv'
<1> SUFFICES ASSUME IInv, SpreadInv, [Next]_vars PROVE SpreadInv'
  OBVIOUS
<1>1. CASE UNCHANGED vars
  BY <1>1 DEF vars, cipherVars, keyVars, SpreadInv, Again, MixedRounds, Position, Origin
<1>2. ASSUME call = NoCall, UNCHANGED cipherVars PROVE SpreadInv'
  BY <1>2 DEF cipherVars, SpreadInv, Again, IInv, TypeOK
<1>3. ASSUME FirstCall PROVE SpreadInv'
  BY <1>3 DEF FirstCall, Start, EncryptStart, DecryptStart, Begin, SpreadInv, Again, IInv, TypeOK
<1>4. ASSUME TakeBack PROVE SpreadInv'
  <2>1. first.op \in {"encrypt", "decrypt"}
    BY <1>4 DEF TakeBack, IInv, TypeOK, CipherInv, SecondInv
  <2>2. first' = first /\ call'.op # first.op
    BY <1>4, <2>1 DEF TakeBack, Start, EncryptStart, DecryptStart, Begin
  <2> QED BY <2>2 DEF SpreadInv, Again
<1>5. ASSUME EncryptEnd \/ DecryptEnd PROVE SpreadInv'
  BY <1>5 DEF EncryptEnd, DecryptEnd, Return, SpreadInv, Again
<1> QED BY <1>1, <1>2, <1>3, <1>4, <1>5, SpreadStart, SpreadEncrypt, SpreadDecrypt
        DEF Next, CipherNext

(***************************************************************************)
(* A change of one byte is one of 4 after a round with MixColumns and of   *)
(* all 16 after two, either way, and it never dies out: for all tables of  *)
(* which TLC's checks of single bytes hold, and any number of rounds.      *)
(***************************************************************************)
THEOREM ChangeSpreads == Spec => []OneByteSpreads
<1>1. Init => SpreadInv
  BY DEF Init, CipherInit, SpreadInv, Again
<1>2. SpreadInv => OneByteSpreads
  <2> SUFFICES ASSUME SpreadInv, Again PROVE OneByteSpreads
    BY DEF OneByteSpreads, Again
  <2> DEFINE active == Differ(state, trace[Position])
  <2>0. PICK z \in Cells : Reached(pc, z, MixedRounds, active)
    BY DEF SpreadInv
  <2>1. /\ active # {} /\ active \subseteq Cells
        /\ MixedRounds = 0 => active = {z}
        /\ MixedRounds = 1 => active = Line(pc, z)
        /\ MixedRounds = 2 => active = Cells
    BY <2>0 DEF SpreadInv, Differ, Reached
  <2>2. active = {x \in Cells : state[x] # trace[Position][x]}
    BY DEF Differ
  <2> HIDE DEF active
  <2>3. Cardinality(active) \in 1..16
    BY <2>1, CellCount, FS_Subset, FS_EmptySet, FS_CardinalityType
  <2>4. MixedRounds = 0 => Cardinality(active) = 1
    BY <2>1, FS_Singleton
  <2>5. MixedRounds = 1 => Cardinality(active) = 4
    <3>1. Left(z)[2] \in Index /\ z[2] \in Index
      BY CellFacts, IndexFacts DEF Left
    <3> QED BY <2>1, <3>1, LineCount DEF Line
  <2>6. MixedRounds = 2 => Cardinality(active) = 16
    BY <2>1, CellCount
  <2> QED BY <2>2, <2>3, <2>4, <2>5, <2>6 DEF OneByteSpreads, MixedRounds
<1> QED BY <1>1, <1>2, SpreadNext, CipherInvariant, PTL DEF Spec

-----------------------------------------------------------------------------
(***************************************************************************)
(* The cipher without the calls: a block is enciphered as another when the *)
(* rounds lead from the one to the other.  For every schedule this is a    *)
(* permutation of the blocks, and it is what mako_encrypt_block()          *)
(* computes, and mako_decrypt_block() backwards.                           *)
(***************************************************************************)
Rounded(s, k, r) == IF r = Rounds THEN FinalRound(s, k) ELSE Round(s, k, r)
Unrounded(s, k, r) == IF r = Rounds THEN InvFinalRound(s, k) ELSE InvRound(s, k, r)

Walk(k, lo, hi, p) ==
    /\ p \in [lo..hi -> State]
    /\ \A r \in lo+1..hi : p[r] = Rounded(p[r - 1], k, r)

Whitened(k, in) == add_round_key(bytes_to_state(in), k, 0)

Enciphers(k, in, block) ==
    \E p : Walk(k, 0, Rounds, p) /\ p[0] = Whitened(k, in) /\ p[Rounds] = bytes_to_state(block)

LEMMA RoundsUndone ==
    ASSUME NEW s \in State, NEW k \in RoundKeys, NEW r \in 1..Rounds
    PROVE  /\ Rounded(s, k, r) \in State /\ Unrounded(s, k, r) \in State
           /\ Unrounded(Rounded(s, k, r), k, r) = s /\ Rounded(Unrounded(s, k, r), k, r) = s
<1>1. r \in 0..Rounds
  BY SizeAssumption
<1> QED BY <1>1, RoundInverse, FinalRoundInverse DEF Rounded, Unrounded

(***************************************************************************)
(* A walk can be continued at both ends.                                   *)
(***************************************************************************)
LEMMA WalkOn ==
    ASSUME NEW k \in RoundKeys, NEW lo \in 0..Rounds, NEW hi \in lo..Rounds-1, NEW p, Walk(k, lo, hi, p)
    PROVE  \E q : Walk(k, lo, hi + 1, q) /\ q[lo] = p[lo] /\ q[hi + 1] = Rounded(p[hi], k, hi + 1)
<1> DEFINE q == [r \in lo..hi+1 |-> IF r = hi + 1 THEN Rounded(p[hi], k, hi + 1) ELSE p[r]]
<1>1. Rounds \in Nat /\ hi + 1 \in 1..Rounds /\ hi \in lo..hi /\ lo \in Nat /\ hi \in Nat
  BY SizeAssumption
<1>2. Rounded(p[hi], k, hi + 1) \in State
  <2>1. p[hi] \in State
    BY <1>1 DEF Walk
  <2> QED BY <1>1, <2>1, RoundsUndone
<1>3. q \in [lo..hi+1 -> State]
  BY <1>1, <1>2 DEF Walk
<1>4. q[hi + 1] = Rounded(p[hi], k, hi + 1) /\ \A r \in lo..hi : q[r] = p[r]
  BY <1>1
<1> HIDE DEF q
<1>5. ASSUME NEW r \in lo+1..hi+1 PROVE q[r] = Rounded(q[r - 1], k, r)
  <2>1. CASE r = hi + 1
    <3>1. r - 1 = hi /\ q[hi] = p[hi]
      BY <1>1, <1>4, <2>1
    <3> QED BY <1>4, <2>1, <3>1
  <2>2. CASE r # hi + 1
    <3>1. r \in lo+1..hi /\ r \in lo..hi /\ r - 1 \in lo..hi
      BY <1>1, <2>2
    <3>2. p[r] = Rounded(p[r - 1], k, r)
      BY <3>1 DEF Walk
    <3> QED BY <1>4, <3>1, <3>2
  <2> QED BY <2>1, <2>2
<1>6. lo \in lo..hi
  BY <1>1
<1> QED BY <1>3, <1>4, <1>5, <1>6 DEF Walk

LEMMA WalkBack ==
    ASSUME NEW k \in RoundKeys, NEW lo \in 1..Rounds, NEW hi \in lo..Rounds, NEW p, Walk(k, lo, hi, p)
    PROVE  \E q : Walk(k, lo - 1, hi, q) /\ q[hi] = p[hi] /\ q[lo - 1] = Unrounded(p[lo], k, lo)
<1> DEFINE q == [r \in lo-1..hi |-> IF r = lo - 1 THEN Unrounded(p[lo], k, lo) ELSE p[r]]
<1>1. Rounds \in Nat /\ lo \in lo..hi /\ hi \in lo..hi /\ lo \in Nat /\ hi \in Nat
  BY SizeAssumption
<1>2. Unrounded(p[lo], k, lo) \in State /\ Rounded(Unrounded(p[lo], k, lo), k, lo) = p[lo]
  <2>1. p[lo] \in State
    BY <1>1 DEF Walk
  <2> QED BY <2>1, RoundsUndone
<1>3. q \in [lo-1..hi -> State]
  BY <1>1, <1>2 DEF Walk
<1>4. q[lo - 1] = Unrounded(p[lo], k, lo) /\ \A r \in lo..hi : q[r] = p[r]
  BY <1>1
<1> HIDE DEF q
<1>5. ASSUME NEW r \in (lo-1)+1..hi PROVE q[r] = Rounded(q[r - 1], k, r)
  <2>1. CASE r = lo
    BY <1>1, <1>2, <1>4, <2>1
  <2>2. CASE r # lo
    <3>1. r \in lo+1..hi /\ r \in lo..hi /\ r - 1 \in lo..hi
      BY <1>1, <2>2
    <3>2. p[r] = Rounded(p[r - 1], k, r)
      BY <3>1 DEF Walk
    <3> QED BY <1>4, <3>1, <3>2
  <2> QED BY <2>1, <2>2
<1> QED BY <1>1, <1>3, <1>4, <1>5 DEF Walk

LEMMA Least == ASSUME NEW T, T \subseteq Nat, T # {} PROVE \E n \in T : \A m \in T : n <= m
<1> DEFINE Less == OpToRel(<, Nat)
<1>1. IsWellFoundedOn(Less, Nat)
  BY NatLessThanWellFounded
<1>2. \A n, m \in Nat : m < n => <<m, n>> \in Less
  BY DEF OpToRel
<1> HIDE DEF Less
<1>3. PICK n \in T : \A m \in T : ~(<<m, n>> \in Less)
  BY <1>1, WFMin
<1>4. \A m \in T : ~(m < n)
  BY <1>2, <1>3
<1> QED BY <1>3, <1>4

LEMMA EveryRound ==
    ASSUME NEW T, 0 \in T, \A n \in 0..Rounds-1 : n \in T => n + 1 \in T
    PROVE  \A n \in 0..Rounds : n \in T
<1>0. Rounds \in Nat
  BY SizeAssumption
<1> DEFINE U == (0..Rounds) \ T
<1> SUFFICES ASSUME U # {} PROVE FALSE
  OBVIOUS
<1>1. PICK n \in U : \A m \in U : n <= m
  <2>1. U \subseteq Nat
    BY <1>0
  <2> HIDE DEF U
  <2> QED BY <2>1, Least
<1>2. n # 0 /\ n - 1 \in 0..Rounds-1 /\ (n - 1) + 1 = n /\ n - 1 \in 0..Rounds
  BY <1>0, <1>1
<1>3. n - 1 \in T
  BY <1>0, <1>1, <1>2
<1> QED BY <1>1, <1>2, <1>3

(***************************************************************************)
(* From every state there is a walk to the end and one to the beginning,   *)
(* and only one.                                                           *)
(***************************************************************************)
LEMMA WalkFrom ==
    ASSUME NEW k \in RoundKeys, NEW s \in State
    PROVE  /\ \E p : Walk(k, 0, Rounds, p) /\ p[0] = s
           /\ \E p : Walk(k, 0, Rounds, p) /\ p[Rounds] = s
<1>0. Rounds \in Nat /\ Rounds \in 0..Rounds /\ Rounds - Rounds = 0
  BY SizeAssumption
<1> DEFINE Ahead == {n \in 0..Rounds : \E p : Walk(k, 0, n, p) /\ p[0] = s}
           Behind == {n \in 0..Rounds : \E p : Walk(k, Rounds - n, Rounds, p) /\ p[Rounds] = s}
<1>1. Rounds \in Ahead
  <2>1. 0 \in Ahead
    <3>1. Walk(k, 0, 0, [r \in 0..0 |-> s]) /\ [r \in 0..0 |-> s][0] = s
      BY DEF Walk
    <3> QED BY <1>0, <3>1
  <2>2. ASSUME NEW n \in 0..Rounds-1, n \in Ahead PROVE n + 1 \in Ahead
    <3>1. n + 1 \in 0..Rounds /\ 0 \in 0..Rounds
      BY <1>0
    <3>2. PICK p : Walk(k, 0, n, p) /\ p[0] = s
      BY <2>2
    <3>3. PICK q : Walk(k, 0, n + 1, q) /\ q[0] = p[0]
      BY <3>1, <3>2, WalkOn
    <3> QED BY <3>1, <3>2, <3>3
  <2> HIDE DEF Ahead
  <2> QED BY <1>0, <2>1, <2>2, EveryRound
<1>2. Rounds \in Behind
  <2>1. 0 \in Behind
    <3>1. Walk(k, Rounds, Rounds, [r \in Rounds..Rounds |-> s]) /\ [r \in Rounds..Rounds |-> s][Rounds] = s
      BY <1>0 DEF Walk
    <3>2. Rounds - 0 = Rounds /\ 0 \in 0..Rounds
      BY <1>0
    <3> QED BY <3>1, <3>2
  <2>2. ASSUME NEW n \in 0..Rounds-1, n \in Behind PROVE n + 1 \in Behind
    <3>1. /\ n + 1 \in 0..Rounds /\ Rounds - n \in 1..Rounds /\ Rounds \in Rounds-n..Rounds
          /\ (Rounds - n) - 1 = Rounds - (n + 1)
      BY <1>0
    <3>2. PICK p : Walk(k, Rounds - n, Rounds, p) /\ p[Rounds] = s
      BY <2>2
    <3>3. PICK q : Walk(k, (Rounds - n) - 1, Rounds, q) /\ q[Rounds] = p[Rounds]
      BY <3>1, <3>2, WalkBack
    <3> QED BY <3>1, <3>2, <3>3
  <2> HIDE DEF Behind
  <2> QED BY <1>0, <2>1, <2>2, EveryRound
<1> QED BY <1>0, <1>1, <1>2

LEMMA WalkIsUnique ==
    ASSUME NEW k \in RoundKeys, NEW p, NEW q, Walk(k, 0, Rounds, p), Walk(k, 0, Rounds, q),
           p[0] = q[0] \/ p[Rounds] = q[Rounds]
    PROVE  p[0] = q[0] /\ p[Rounds] = q[Rounds]
<1>0. Rounds \in Nat /\ Rounds \in 0..Rounds /\ Rounds - Rounds = 0 /\ 0 \in 0..Rounds /\ Rounds - 0 = Rounds
  BY SizeAssumption
<1>1. ASSUME NEW n \in 0..Rounds-1
      PROVE  /\ n + 1 \in 1..Rounds /\ n + 1 \in 0+1..Rounds /\ (n + 1) - 1 = n /\ n \in 0..Rounds
             /\ Rounds - n \in 1..Rounds /\ Rounds - n \in 0+1..Rounds
             /\ (Rounds - n) - 1 = Rounds - (n + 1) /\ Rounds - (n + 1) \in 0..Rounds
  BY <1>0
<1>2. CASE p[0] = q[0]
  <2> DEFINE T == {n \in 0..Rounds : p[n] = q[n]}
  <2>1. 0 \in T
    BY <1>0, <1>2
  <2>2. ASSUME NEW n \in 0..Rounds-1, n \in T PROVE n + 1 \in T
    <3>1. p[n + 1] = Rounded(p[n], k, n + 1) /\ q[n + 1] = Rounded(q[n], k, n + 1)
      BY <1>1 DEF Walk
    <3> QED BY <1>0, <1>1, <2>2, <3>1
  <2> HIDE DEF T
  <2>3. Rounds \in T
    BY <1>0, <2>1, <2>2, EveryRound
  <2> QED BY <1>2, <2>3 DEF T
<1>3. CASE p[Rounds] = q[Rounds]
  <2> DEFINE T == {n \in 0..Rounds : p[Rounds - n] = q[Rounds - n]}
  <2>1. 0 \in T
    BY <1>0, <1>3
  <2>2. ASSUME NEW n \in 0..Rounds-1, n \in T PROVE n + 1 \in T
    <3> DEFINE r == Rounds - n
    <3>1. r \in 1..Rounds /\ r \in 0+1..Rounds /\ r - 1 = Rounds - (n + 1) /\ r - 1 \in 0..Rounds
      BY <1>1
    <3>2. p[r] = q[r]
      BY <2>2
    <3> HIDE DEF r
    <3>3. p[r] = Rounded(p[r - 1], k, r) /\ q[r] = Rounded(q[r - 1], k, r)
          /\ p[r - 1] \in State /\ q[r - 1] \in State
      BY <3>1 DEF Walk
    <3>4. p[r - 1] = Unrounded(p[r], k, r) /\ q[r - 1] = Unrounded(q[r], k, r)
      BY <3>1, <3>3, RoundsUndone
    <3>5. p[Rounds - (n + 1)] = q[Rounds - (n + 1)] /\ n + 1 \in 0..Rounds
      BY <1>0, <3>1, <3>2, <3>4
    <3> QED BY <3>5
  <2> HIDE DEF T
  <2>3. Rounds \in T
    BY <1>0, <2>1, <2>2, EveryRound
  <2> QED BY <1>0, <1>3, <2>3 DEF T
<1> QED BY <1>2, <1>3

(***************************************************************************)
(* Under every schedule the cipher is a permutation of the blocks: a block *)
(* is enciphered as exactly one, and exactly one is enciphered as it.      *)
(***************************************************************************)
THEOREM IsPermutation ==
    ASSUME NEW k \in RoundKeys, NEW b \in Block
    PROVE  /\ \E c \in Block : Enciphers(k, b, c) /\ \A d \in Block : Enciphers(k, b, d) => d = c
           /\ \E c \in Block : Enciphers(k, c, b) /\ \A d \in Block : Enciphers(k, d, b) => d = c
<1>0. Rounds \in Nat /\ 0 \in 0..Rounds /\ Rounds \in 0..Rounds
  BY SizeAssumption
<1>1. \A c, d \in Block : bytes_to_state(c) = bytes_to_state(d) => c = d
  BY BytesInverse
<1>2. \A s \in State : \E c \in Block : bytes_to_state(c) = s
  BY BytesInverse
<1>3. \A s \in State : \E c \in Block : Whitened(k, c) = s
  <2> SUFFICES ASSUME NEW s \in State PROVE \E c \in Block : Whitened(k, c) = s
    OBVIOUS
  <2>1. add_round_key(s, k, 0) \in State /\ add_round_key(add_round_key(s, k, 0), k, 0) = s
    BY <1>0, KeyInverse
  <2>2. PICK c \in Block : bytes_to_state(c) = add_round_key(s, k, 0)
    BY <1>2, <2>1
  <2> QED BY <2>1, <2>2 DEF Whitened
<1>4. \A c \in Block : Whitened(k, c) \in State /\ bytes_to_state(c) \in State
  BY <1>0, BytesInverse, KeyInverse DEF Whitened
<1>5. \A c, d \in Block : Whitened(k, c) = Whitened(k, d) => c = d
  <2> SUFFICES ASSUME NEW c \in Block, NEW d \in Block, Whitened(k, c) = Whitened(k, d) PROVE c = d
    OBVIOUS
  <2>1. bytes_to_state(c) \in State /\ bytes_to_state(d) \in State
    BY BytesInverse
  <2>2. bytes_to_state(c) = bytes_to_state(d)
    BY <1>0, <2>1, KeyInverse DEF Whitened
  <2> QED BY <1>1, <2>2
<1>6. \E c \in Block : Enciphers(k, b, c) /\ \A d \in Block : Enciphers(k, b, d) => d = c
  <2>1. PICK p : Walk(k, 0, Rounds, p) /\ p[0] = Whitened(k, b)
    BY <1>4, WalkFrom
  <2>2. PICK c \in Block : bytes_to_state(c) = p[Rounds]
    BY <1>0, <1>2, <2>1 DEF Walk
  <2>3. ASSUME NEW d \in Block, Enciphers(k, b, d) PROVE d = c
    <3>1. PICK q : Walk(k, 0, Rounds, q) /\ q[0] = Whitened(k, b) /\ q[Rounds] = bytes_to_state(d)
      BY <2>3 DEF Enciphers
    <3>2. p[Rounds] = q[Rounds]
      BY <2>1, <3>1, WalkIsUnique
    <3> QED BY <1>1, <2>2, <3>1, <3>2
  <2> QED BY <2>1, <2>2, <2>3 DEF Enciphers
<1>7. \E c \in Block : Enciphers(k, c, b) /\ \A d \in Block : Enciphers(k, d, b) => d = c
  <2>1. PICK p : Walk(k, 0, Rounds, p) /\ p[Rounds] = bytes_to_state(b)
    BY <1>4, WalkFrom
  <2>2. PICK c \in Block : Whitened(k, c) = p[0]
    BY <1>0, <1>3, <2>1 DEF Walk
  <2>3. ASSUME NEW d \in Block, Enciphers(k, d, b) PROVE d = c
    <3>1. PICK q : Walk(k, 0, Rounds, q) /\ q[0] = Whitened(k, d) /\ q[Rounds] = bytes_to_state(b)
      BY <2>3 DEF Enciphers
    <3>2. p[0] = q[0]
      BY <2>1, <3>1, WalkIsUnique
    <3> QED BY <1>5, <2>2, <3>1, <3>2
  <2> QED BY <2>1, <2>2, <2>3 DEF Enciphers
<1> QED BY <1>6, <1>7

Encipher(k, b) == CHOOSE c \in Block : Enciphers(k, b, c)
Decipher(k, b) == CHOOSE c \in Block : Enciphers(k, c, b)

LEMMA BlockFunctions ==
    ASSUME NEW k \in RoundKeys, NEW b \in Block
    PROVE  /\ Encipher(k, b) \in Block /\ Decipher(k, b) \in Block
           /\ \A c \in Block : /\ Enciphers(k, b, c) <=> c = Encipher(k, b)
                               /\ Enciphers(k, c, b) <=> c = Decipher(k, b)
<1>1. PICK c \in Block : Enciphers(k, b, c) /\ \A d \in Block : Enciphers(k, b, d) => d = c
  BY IsPermutation
<1>2. PICK d \in Block : Enciphers(k, d, b) /\ \A e \in Block : Enciphers(k, e, b) => e = d
  BY IsPermutation
<1>3. Encipher(k, b) = c /\ Decipher(k, b) = d
  BY <1>1, <1>2 DEF Encipher, Decipher
<1> QED BY <1>1, <1>2, <1>3

(***************************************************************************)
(* What the modes of operation assume of the cipher (in CipherAssumption,  *)
(* Cbc of E and D and Gcm of E) is true of this one under every schedule,  *)
(* in whatever way a mode writes its blocks.                               *)
(***************************************************************************)
THEOREM ServesTheModes ==
    ASSUME NEW k \in RoundKeys,
           NEW Written, NEW read \in [Written -> Block], NEW write \in [Block -> Written],
           \A w \in Written : write[read[w]] = w, \A b \in Block : read[write[b]] = b,
           NEW E, E = [w \in Written |-> write[Encipher(k, read[w])]],
           NEW D, D = [w \in Written |-> write[Decipher(k, read[w])]]
    PROVE  /\ E \in [Written -> Written] /\ D \in [Written -> Written]
           /\ \A w \in Written : D[E[w]] = w /\ E[D[w]] = w
<1>1. ASSUME NEW w \in Written
      PROVE  /\ read[w] \in Block /\ Encipher(k, read[w]) \in Block /\ Decipher(k, read[w]) \in Block
             /\ E[w] \in Written /\ D[w] \in Written
             /\ read[E[w]] = Encipher(k, read[w]) /\ read[D[w]] = Decipher(k, read[w])
  <2>1. read[w] \in Block
    OBVIOUS
  <2>2. Encipher(k, read[w]) \in Block /\ Decipher(k, read[w]) \in Block
    BY <2>1, BlockFunctions
  <2> QED BY <2>1, <2>2
<1>2. ASSUME NEW b \in Block
      PROVE  Decipher(k, Encipher(k, b)) = b /\ Encipher(k, Decipher(k, b)) = b
  <2>1. /\ Encipher(k, b) \in Block /\ Decipher(k, b) \in Block
        /\ Enciphers(k, b, Encipher(k, b)) /\ Enciphers(k, Decipher(k, b), b)
    BY BlockFunctions
  <2> QED BY <2>1, BlockFunctions
<1>3. ASSUME NEW w \in Written PROVE D[E[w]] = w /\ E[D[w]] = w
  <2>1. D[E[w]] = write[Decipher(k, Encipher(k, read[w]))]
    BY <1>1
  <2>2. E[D[w]] = write[Encipher(k, Decipher(k, read[w]))]
    BY <1>1
  <2> QED BY <1>1, <1>2, <2>1, <2>2
<1>4. E \in [Written -> Written] /\ D \in [Written -> Written]
  BY <1>1
<1> QED BY <1>3, <1>4

(***************************************************************************)
(* Where a call is on its walk.                                            *)
(***************************************************************************)
WalkInv ==
    /\ pc = "encrypt" => \E p : /\ Walk(ks, 0, round - 1, p)
                                /\ p[0] = Whitened(ks, call.in) /\ p[round - 1] = state
    /\ pc = "decrypt" => \E p : /\ Walk(ks, round, Rounds, p)
                                /\ p[Rounds] = bytes_to_state(call.in) /\ p[round] = state
    /\ pc = "idle" /\ call # NoCall =>
          /\ out \in Block
          /\ IF call.op = "encrypt" THEN Enciphers(ks, call.in, out) ELSE Enciphers(ks, out, call.in)

LEMMA StartWalks ==
    ASSUME ks \in RoundKeys, ks' = ks, NEW in \in Block, NEW op, Start(op, in)
    PROVE  WalkInv'
<1>0. Rounds \in Nat /\ 0 \in 0..Rounds /\ Rounds \in 1..Rounds /\ Rounds \in Rounds..Rounds
  BY SizeAssumption
<1>1. CASE EncryptStart(in)
  <2>1. pc' = "encrypt" /\ call'.in = in /\ state' = Whitened(ks, in) /\ round' - 1 = 0
    BY <1>1 DEF EncryptStart, Begin, Whitened
  <2>2. state' \in State
    BY <1>0, <2>1, BytesInverse, KeyInverse DEF Whitened
  <2>3. Walk(ks, 0, 0, [r \in 0..0 |-> state']) /\ [r \in 0..0 |-> state'][0] = state'
    BY <2>2 DEF Walk
  <2> QED BY <2>1, <2>3 DEF WalkInv
<1>2. CASE DecryptStart(in)
  <2>1. /\ pc' = "decrypt" /\ call'.in = in /\ round' = Rounds - 1
        /\ state' = Unrounded(bytes_to_state(in), ks, Rounds)
    BY <1>2 DEF DecryptStart, Begin, Unrounded
  <2> DEFINE p == [r \in Rounds..Rounds |-> bytes_to_state(in)]
  <2>2. Walk(ks, Rounds, Rounds, p) /\ p[Rounds] = bytes_to_state(in)
    BY <1>0, BytesInverse DEF Walk
  <2> HIDE DEF p
  <2>3. PICK q : /\ Walk(ks, Rounds - 1, Rounds, q) /\ q[Rounds] = bytes_to_state(in)
                 /\ q[Rounds - 1] = Unrounded(bytes_to_state(in), ks, Rounds)
    BY <1>0, <2>2, WalkBack
  <2> QED BY <2>1, <2>3 DEF WalkInv
<1> QED BY <1>1, <1>2 DEF Start

LEMMA EncryptWalks ==
    ASSUME IInv, WalkInv, ks' = ks, EncryptRound \/ EncryptEnd
    PROVE  WalkInv'
<1>1. /\ pc = "encrypt" /\ call' = call /\ call # NoCall /\ call.op = "encrypt"
      /\ ks \in RoundKeys /\ state \in State /\ call.in \in Block
      /\ Rounds \in Nat /\ round \in 1..Rounds /\ round - 1 \in 0..Rounds-1
      /\ (round - 1) + 1 = round /\ 0 \in 0..Rounds
  <2>1. pc = "encrypt" /\ call' = call
    BY DEF EncryptRound, EncryptEnd, Return
  <2>2. call # NoCall /\ call.op = "encrypt" /\ round \in 1..Rounds
    BY <2>1 DEF IInv, TypeOK, CipherInv, RoundInv
  <2> QED BY <2>1, <2>2, InCall
<1>2. PICK p : Walk(ks, 0, round - 1, p) /\ p[0] = Whitened(ks, call.in) /\ p[round - 1] = state
  BY <1>1 DEF WalkInv
<1>3. PICK q : /\ Walk(ks, 0, round, q) /\ q[0] = Whitened(ks, call.in)
               /\ q[round] = Rounded(state, ks, round)
  BY <1>1, <1>2, WalkOn
<1>4. CASE EncryptRound
  <2>1. pc' = "encrypt" /\ round' - 1 = round /\ state' = Rounded(state, ks, round)
    BY <1>1, <1>4 DEF EncryptRound, Rounded
  <2> QED BY <1>1, <1>3, <2>1 DEF WalkInv
<1>5. CASE EncryptEnd
  <2>1. /\ round = Rounds /\ pc' = "idle" /\ state' = Rounded(state, ks, round)
        /\ out' = state_to_bytes(state')
    BY <1>1, <1>5 DEF EncryptEnd, Return, Rounded
  <2>2. state' \in State
    BY <1>1, <2>1, RoundsUndone
  <2>3. out' \in Block /\ bytes_to_state(out') = state'
    BY <2>1, <2>2, BytesInverse
  <2>4. Enciphers(ks, call.in, out')
    BY <1>3, <2>1, <2>3 DEF Enciphers
  <2> QED BY <1>1, <2>1, <2>3, <2>4 DEF WalkInv
<1> QED BY <1>4, <1>5

LEMMA DecryptWalks ==
    ASSUME IInv, WalkInv, ks' = ks, DecryptRound \/ DecryptEnd
    PROVE  WalkInv'
<1>1. /\ pc = "decrypt" /\ call' = call /\ call # NoCall /\ call.op = "decrypt"
      /\ ks \in RoundKeys /\ state \in State /\ call.in \in Block
      /\ Rounds \in Nat /\ round \in 0..Rounds-1 /\ 0 \in 0..Rounds
  <2>1. pc = "decrypt" /\ call' = call
    BY DEF DecryptRound, DecryptEnd, Return
  <2>2. call # NoCall /\ call.op = "decrypt" /\ round \in 0..Rounds-1
    BY <2>1 DEF IInv, TypeOK, CipherInv, RoundInv
  <2> QED BY <2>1, <2>2, InCall
<1>2. PICK p : Walk(ks, round, Rounds, p) /\ p[Rounds] = bytes_to_state(call.in) /\ p[round] = state
  BY <1>1 DEF WalkInv
<1>3. CASE DecryptRound
  <2>1. round \in 1..Rounds /\ Rounds \in round..Rounds /\ round # Rounds
    BY <1>1, <1>3 DEF DecryptRound
  <2>2. PICK q : /\ Walk(ks, round - 1, Rounds, q) /\ q[Rounds] = bytes_to_state(call.in)
                 /\ q[round - 1] = Unrounded(state, ks, round)
    BY <1>1, <1>2, <2>1, WalkBack
  <2>3. pc' = "decrypt" /\ round' = round - 1 /\ state' = Unrounded(state, ks, round)
    BY <1>3, <2>1 DEF DecryptRound, Unrounded
  <2> QED BY <1>1, <2>2, <2>3 DEF WalkInv
<1>4. CASE DecryptEnd
  <2>1. /\ round = 0 /\ pc' = "idle" /\ state' = add_round_key(state, ks, 0)
        /\ out' = state_to_bytes(state')
    BY <1>1, <1>4 DEF DecryptEnd, Return
  <2>2. state' \in State /\ add_round_key(state', ks, 0) = state
    BY <1>1, <2>1, KeyInverse
  <2>3. out' \in Block /\ Whitened(ks, out') = state
    BY <2>1, <2>2, BytesInverse DEF Whitened
  <2>4. Enciphers(ks, out', call.in)
    BY <1>2, <2>1, <2>3 DEF Enciphers
  <2> QED BY <1>1, <2>1, <2>3, <2>4 DEF WalkInv
<1> QED BY <1>3, <1>4

LEMMA NextWalks == IInv /\ WalkInv /\ [Next]_vars => WalkInv'
<1> SUFFICES ASSUME IInv, WalkInv, [Next]_vars PROVE WalkInv'
  OBVIOUS
<1>1. CASE UNCHANGED vars
  BY <1>1 DEF vars, keyVars, cipherVars, WalkInv
<1>2. CASE call = NoCall /\ UNCHANGED cipherVars
  BY <1>2 DEF cipherVars, WalkInv, IInv, TypeOK
<1>3. CASE CipherNext /\ UNCHANGED keyVars
  <2>1. ks' = ks
    BY <1>3 DEF keyVars
  <2>2. CASE EncryptRound \/ EncryptEnd \/ DecryptRound \/ DecryptEnd
    BY <2>1, <2>2, EncryptWalks, DecryptWalks
  <2>3. CASE FirstCall \/ TakeBack \/ Changed
    <3>1. ks \in RoundKeys
      <4>1. made = "OK"
        BY <2>3 DEF FirstCall, TakeBack, Changed, IInv, TypeOK
      <4>2. ks \in [0..i-1 -> Word] /\ i = TotalWords
        BY <4>1 DEF IInv, TypeOK, KeyTypeOK
      <4> QED BY <4>2 DEF RoundKeys
    <3>2. first # NoCall => first.in \in Block /\ first.out \in Block
      BY DEF IInv, TypeOK
    <3>3. \A ch \in Changes : first # NoCall => [first.in EXCEPT ![ch.at] = @ ++ ch.by] \in Block
      BY <3>2, ChangedBlock
    <3>4. CASE FirstCall
      BY <2>1, <3>1, <3>4, StartWalks, InputAssumption DEF FirstCall
    <3>5. CASE TakeBack
      BY <2>1, <3>1, <3>2, <3>5, StartWalks DEF TakeBack
    <3>6. CASE Changed
      BY <2>1, <3>1, <3>3, <3>6, StartWalks DEF Changed
    <3> QED BY <2>3, <3>4, <3>5, <3>6
  <2> QED BY <1>3, <2>2, <2>3 DEF CipherNext
<1> QED BY <1>1, <1>2, <1>3 DEF Next

(***************************************************************************)
(* mako_encrypt_block() and mako_decrypt_block() compute the permutation   *)
(* and its inverse: what they return depends on the schedule and the block *)
(* alone, whatever was called before.                                      *)
(***************************************************************************)
ComputesCipher ==
    pc = "idle" /\ call # NoCall =>
        out = IF call.op = "encrypt" THEN Encipher(ks, call.in) ELSE Decipher(ks, call.in)

THEOREM ComputesThePermutation == Spec => []ComputesCipher
<1>1. Init => WalkInv
  BY DEF Init, CipherInit, WalkInv
<1>2. IInv /\ WalkInv => ComputesCipher
  <2> SUFFICES ASSUME IInv, WalkInv, pc = "idle", call # NoCall
               PROVE  out = IF call.op = "encrypt" THEN Encipher(ks, call.in) ELSE Decipher(ks, call.in)
    BY DEF ComputesCipher
  <2>1. ks \in RoundKeys /\ call.in \in Block
    BY InCall
  <2>2. /\ out \in Block
        /\ IF call.op = "encrypt" THEN Enciphers(ks, call.in, out) ELSE Enciphers(ks, out, call.in)
    BY DEF WalkInv
  <2> QED BY <2>1, <2>2, BlockFunctions
<1> QED BY <1>1, <1>2, CipherInvariant, NextWalks, PTL DEF Spec
=============================================================================
