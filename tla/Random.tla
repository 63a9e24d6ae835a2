-------------------------------- MODULE Random --------------------------------
(***************************************************************************)
(* mako_random_bytes() and mako_generate_iv() of src/random.c: getrandom() *)
(* in a loop, where the build has it, and /dev/urandom otherwise or when   *)
(* getrandom() fails.  Every salt and nonce comes from here.               *)
(***************************************************************************)
EXTENDS Integers

CONSTANTS
    Lens,               \* the lengths asked for
    HaveGetrandom       \* MAKO_HAVE_GETRANDOM, a matter of the libc: a set of Booleans

ASSUME BuildAssumption == HaveGetrandom \subseteq BOOLEAN

IvSize == 16            \* MAKO_IV_SIZE
ASSUME LensAssumption == Lens \subseteq Nat /\ IvSize \in Lens

VARIABLES
    have,               \* whether this build has getrandom()
    pc,                 \* "idle", "getrandom", "fopen", "fread" or "returned"
    null, len,          \* the arguments
    buf,                \* which bytes have been made random by this call
    total, status

vars == <<have, pc, null, len, buf, total, status>>

Init ==
    /\ have \in HaveGetrandom
    /\ pc = "idle" /\ null = FALSE /\ len = 0 /\ buf = {} /\ total = 0 /\ status = "none"

Return(s) == pc' = "returned" /\ status' = s

-----------------------------------------------------------------------------
(***************************************************************************)
(* n bytes of a buffer that is there, or not.                              *)
(***************************************************************************)
RandomBytes(absent, n) ==
    /\ pc = "idle"
    /\ null' = absent /\ len' = n
    /\ IF absent /\ n > 0 THEN Return("INVALID_ARG")
       ELSE IF n = 0 THEN Return("OK")
       ELSE pc' = (IF have THEN "getrandom" ELSE "fopen") /\ status' = status
    /\ UNCHANGED <<have, buf, total>>

GenerateIv(absent) == RandomBytes(absent, IvSize)

(***************************************************************************)
(* getrandom() fills a part of what it was asked for, or all of it.        *)
(***************************************************************************)
GetrandomWhole(n) ==            \* Slip: what it fills is taken for what was asked for
    /\ pc = "getrandom" /\ total < len /\ n \in 1..len-total
    /\ buf' = buf \cup total..total+n-1
    /\ total' = len
    /\ UNCHANGED <<have, pc, null, len, status>>

Getrandom(n) ==
    /\ pc = "getrandom" /\ total < len /\ n \in 1..len-total
    /\ buf' = buf \cup total..total+n-1
    /\ total' = total + n
    /\ UNCHANGED <<have, pc, null, len, status>>

Interrupted ==                  \* EINTR
    /\ pc = "getrandom" /\ total < len
    /\ UNCHANGED vars

Failed ==                       \* any other error: the whole buffer again
    /\ pc = "getrandom" /\ total < len
    /\ pc' = "fopen"
    /\ UNCHANGED <<have, null, len, buf, total, status>>

FilledPast ==                   \* Slip: the loop goes on at the end and asks for no bytes
    /\ pc = "getrandom" /\ total > len
    /\ Return("OK")
    /\ UNCHANGED <<have, null, len, buf, total>>

Filled ==
    /\ pc = "getrandom" /\ total >= len
    /\ Return("OK")
    /\ UNCHANGED <<have, null, len, buf, total>>

Open(there) ==
    /\ pc = "fopen"
    /\ IF there THEN pc' = "fread" /\ status' = status ELSE Return("IO")
    /\ UNCHANGED <<have, null, len, buf, total>>

ReadOn(n) ==                    \* Slip: fread() stores behind what getrandom() has filled
    /\ pc = "fread" /\ n \in 0..len
    /\ buf' = buf \cup total..total+n-1
    /\ Return(IF n # len THEN "IO" ELSE "OK")
    /\ UNCHANGED <<have, null, len, total>>

Read(n) ==
    /\ pc = "fread" /\ n \in 0..len
    /\ buf' = buf \cup 0..n-1
    /\ Return(IF n # len THEN "IO" ELSE "OK")
    /\ UNCHANGED <<have, null, len, total>>

Work ==
    \/ \E n \in 1..len : Getrandom(n)
    \/ Failed \/ Filled
    \/ \E there \in BOOLEAN : Open(there)
    \/ \E n \in 0..len : Read(n)

Next ==
    \/ \E absent \in BOOLEAN, n \in Lens : RandomBytes(absent, n)
    \/ \E absent \in BOOLEAN : GenerateIv(absent)
    \/ Interrupted \/ Work

(***************************************************************************)
(* Signals do not interrupt getrandom() for ever.                          *)
(***************************************************************************)
Spec == Init /\ [][Next]_vars /\ WF_vars(Work)
-----------------------------------------------------------------------------
(***************************************************************************)
(* Types; nothing is stored past the end of the buffer, or in none.        *)
(***************************************************************************)
TypeOK ==
    /\ have \in BOOLEAN /\ null \in BOOLEAN /\ len \in Lens \cup {0}
    /\ pc \in {"idle", "getrandom", "fopen", "fread", "returned"}
    /\ status \in {"none", "OK", "INVALID_ARG", "IO"}
    /\ status = "none" <=> pc # "returned"
    /\ total \in 0..len /\ buf \subseteq 0..len-1
    /\ null => buf = {}

(***************************************************************************)
(* MAKO_OK is never returned for a buffer with a byte in it that was not   *)
(* made random, whatever mixture of partial results, interruptions and     *)
(* failures came before (mako_random_bytes and read_urandom_fallback).     *)
(***************************************************************************)
OkMeansRandom == status = "OK" => buf = 0..len-1

(***************************************************************************)
(* Every call returns (the loop of mako_random_bytes).                     *)
(***************************************************************************)
Returns == pc # "idle" ~> pc = "returned"
=============================================================================
