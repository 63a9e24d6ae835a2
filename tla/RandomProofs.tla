----------------------------- MODULE RandomProofs -----------------------------
(***************************************************************************)
(* Theorems about Random, for every set of lengths.                        *)
(***************************************************************************)
EXTENDS Random, TLAPS

(***************************************************************************)
(* What getrandom() has filled is a beginning of the buffer, total bytes   *)
(* long; only a read of the whole buffer from /dev/urandom goes further.   *)
(***************************************************************************)
FillInv ==
    /\ pc \in {"idle", "getrandom", "fopen", "fread"} => buf = 0..total-1
    /\ pc = "idle" => total = 0 /\ len = 0
    /\ pc \in {"getrandom", "fopen", "fread"} => ~null

RandomInv == TypeOK /\ FillInv /\ OkMeansRandom

LEMMA InitInv == Init => RandomInv
<1> SUFFICES ASSUME Init PROVE RandomInv
  OBVIOUS
<1>1. TypeOK
  <2>1. have \in BOOLEAN /\ null \in BOOLEAN
    BY BuildAssumption, Zenon DEF Init
  <2> QED BY <2>1 DEF Init, TypeOK
<1>2. FillInv
  <2>1. 0..0-1 = {}
    OBVIOUS
  <2> QED BY <2>1 DEF Init, FillInv
<1> QED BY <1>1, <1>2 DEF Init, RandomInv, OkMeansRandom

LEMMA CallInv ==
    ASSUME RandomInv, NEW absent \in BOOLEAN, NEW n \in Lens, RandomBytes(absent, n)
    PROVE  RandomInv'
<1>1. n \in Nat
  BY LensAssumption
<1>2. /\ pc = "idle" /\ null' = absent /\ len' = n /\ have' = have /\ total' = total /\ buf' = buf
      /\ total = 0 /\ buf = {} /\ status = "none"
  BY DEF RandomBytes, RandomInv, TypeOK, FillInv
<1>3. \/ pc' = "returned" /\ status' = "INVALID_ARG"
      \/ pc' = "returned" /\ status' = "OK" /\ n = 0
      \/ pc' \in {"getrandom", "fopen"} /\ status' = status /\ ~absent
  BY <1>1 DEF RandomBytes, Return
<1> QED BY <1>1, <1>2, <1>3 DEF RandomInv, TypeOK, FillInv, OkMeansRandom

LEMMA GetrandomInv ==
    ASSUME RandomInv, NEW n \in 1..len, Getrandom(n)
    PROVE  RandomInv'
<1>1. /\ pc = "getrandom" /\ total \in 0..len /\ len \in Nat /\ n \in 1..len-total
      /\ buf' = (0..total-1) \cup (total..total+n-1) /\ total' = total + n
      /\ UNCHANGED <<have, pc, null, len, status>>
  BY LensAssumption DEF Getrandom, RandomInv, TypeOK, FillInv
<1>2. buf' = 0..total'-1 /\ total' \in 0..len
  BY <1>1
<1> QED BY <1>1, <1>2 DEF RandomInv, TypeOK, FillInv, OkMeansRandom

LEMMA ReadInv ==
    ASSUME RandomInv, NEW n \in 0..len, Read(n)
    PROVE  RandomInv'
<1>1. /\ pc = "fread" /\ pc' = "returned" /\ total \in 0..len /\ len \in Nat
      /\ buf' = (0..total-1) \cup (0..n-1) /\ status' = (IF n # len THEN "IO" ELSE "OK")
      /\ UNCHANGED <<have, null, len, total>> /\ ~null
  BY LensAssumption DEF Read, Return, RandomInv, TypeOK, FillInv
<1>2. buf' \subseteq 0..len-1 /\ (n = len => buf' = 0..len-1)
  BY <1>1
<1> QED BY <1>1, <1>2 DEF RandomInv, TypeOK, FillInv, OkMeansRandom

LEMMA NextInv == RandomInv /\ [Next]_vars => RandomInv'
<1> SUFFICES ASSUME RandomInv, [Next]_vars PROVE RandomInv'
  OBVIOUS
<1>1. CASE UNCHANGED vars
  BY <1>1 DEF vars, RandomInv, TypeOK, FillInv, OkMeansRandom
<1>2. ASSUME NEW absent \in BOOLEAN, GenerateIv(absent) PROVE RandomInv'
  BY <1>2, CallInv, LensAssumption DEF GenerateIv
<1>3. CASE Interrupted
  BY <1>1, <1>3 DEF Interrupted
<1>4. CASE Failed
  BY <1>4 DEF Failed, RandomInv, TypeOK, FillInv, OkMeansRandom
<1>5. CASE Filled
  <2>1. total \in 0..len /\ len \in Nat /\ total = len /\ buf = 0..total-1
    BY <1>5, LensAssumption DEF Filled, RandomInv, TypeOK, FillInv
  <2> QED BY <1>5, <2>1 DEF Filled, Return, RandomInv, TypeOK, FillInv, OkMeansRandom
<1>6. ASSUME NEW there \in BOOLEAN, Open(there) PROVE RandomInv'
  BY <1>6 DEF Open, Return, RandomInv, TypeOK, FillInv, OkMeansRandom
<1> QED BY <1>1, <1>2, <1>3, <1>4, <1>5, <1>6, CallInv, GetrandomInv, ReadInv DEF Next, Work

(***************************************************************************)
(* A call stores nothing outside its buffer.                               *)
(***************************************************************************)
THEOREM TypeCorrect == Spec => []TypeOK
<1>1. RandomInv => TypeOK
  BY DEF RandomInv
<1> QED BY <1>1, InitInv, NextInv, PTL DEF Spec

(***************************************************************************)
(* A buffer mako_random_bytes() returns with MAKO_OK is random throughout. *)
(***************************************************************************)
THEOREM RandomThroughout == Spec => []OkMeansRandom
<1>1. RandomInv => OkMeansRandom
  BY DEF RandomInv
<1> QED BY <1>1, InitInv, NextInv, PTL DEF Spec

(***************************************************************************)
(* A bound on the steps a call has still to take: the bytes getrandom()    *)
(* may yet be asked for, and the stages of the fallback.                   *)
(***************************************************************************)
StepsLeft ==
    len - total + (CASE pc = "getrandom" -> 3 [] pc = "fopen" -> 2
                     [] pc = "fread"     -> 1 [] OTHER        -> 0)

LEMMA WorkNearsEnd ==
    ASSUME RandomInv, Work
    PROVE  StepsLeft \in Nat /\ StepsLeft' \in Nat /\ StepsLeft' < StepsLeft
<1>1. total \in Nat /\ len \in Nat /\ len - total \in Nat
  BY LensAssumption DEF RandomInv, TypeOK
<1>2. CASE \E n \in 1..len : Getrandom(n)
  <2>1. PICK n \in 1..len : Getrandom(n)
    BY <1>2
  <2>2. /\ pc = "getrandom" /\ pc' = pc /\ len' = len
        /\ total' = total + n /\ n \in Nat \ {0} /\ len - total' \in Nat
    BY <1>1, <2>1 DEF Getrandom
  <2> QED BY <1>1, <2>2 DEF StepsLeft
<1>3. CASE Failed
  BY <1>1, <1>3 DEF Failed, StepsLeft
<1>4. CASE Filled
  BY <1>1, <1>4 DEF Filled, Return, StepsLeft
<1>5. CASE \E there \in BOOLEAN : Open(there)
  BY <1>1, <1>5 DEF Open, Return, StepsLeft
<1>6. CASE \E n \in 0..len : Read(n)
  BY <1>1, <1>6 DEF Read, Return, StepsLeft
<1> QED BY <1>2, <1>3, <1>4, <1>5, <1>6 DEF Work

(***************************************************************************)
(* The loop around getrandom() and the fallback behind it run for a        *)
(* bounded number of steps, whatever mixture of partial results and        *)
(* failures they meet; an interruption costs none of them but brings the   *)
(* call no nearer to its end (mako_random_bytes).                          *)
(***************************************************************************)
Advances ==
    /\ Work => StepsLeft \in Nat /\ StepsLeft' < StepsLeft
    /\ pc # "idle" /\ ~Work => StepsLeft' = StepsLeft

THEOREM WorkRunsOut == Spec => [][Advances]_vars
<1>1. RandomInv /\ [Next]_vars => [Advances]_vars
  <2> SUFFICES ASSUME RandomInv, Next PROVE Advances
    OBVIOUS
  <2>1. Work => StepsLeft \in Nat /\ StepsLeft' < StepsLeft
    BY WorkNearsEnd
  <2>2. ASSUME pc # "idle", ~Work PROVE StepsLeft' = StepsLeft
    BY <2>2 DEF Next, RandomBytes, GenerateIv, Interrupted, vars, StepsLeft
  <2> QED BY <2>1, <2>2 DEF Advances
<1> QED BY <1>1, InitInv, NextInv, PTL DEF Spec
=============================================================================
