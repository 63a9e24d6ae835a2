------------------------------ MODULE Analysis -------------------------------
(***************************************************************************)
(* The cipher and the programs of tools/ that analyse it, so that what a   *)
(* program says of the cipher can be compared with what the cipher does.   *)
(* They share no state: a session is a sequence of them, one after the     *)
(* other, "cipher" being a few calls of the library.                       *)
(***************************************************************************)
EXTENDS Integral, ImpossibleDifferential, TrailSearch

CONSTANT Sessions

VARIABLE session        \* what is running, and what is still to be run

allVars == <<vars, integralVars, impossibleVars, trailVars, session>>

Programs == {"cipher", "integral", "impossible", "trail"}

ASSUME SessionsAssumption == Sessions \subseteq Seq(Programs)

AnalysisInit ==
    /\ session \in Sessions
    /\ Init /\ IntegralInit /\ ImpossibleInit /\ TrailInit

Running(program) == session # <<>> /\ Head(session) = program

End ==
    /\ \/ Running("integral") /\ IntegralDone
       \/ Running("impossible") /\ ImpossibleDone
       \/ Running("trail") /\ TrailDone
    /\ session' = Tail(session)
    /\ UNCHANGED <<vars, integralVars, impossibleVars, trailVars>>

AnalysisNext ==
    \/ /\ Running("cipher") /\ Next
       /\ UNCHANGED <<integralVars, impossibleVars, trailVars, session>>
    \/ /\ Running("integral") /\ IntegralNext
       /\ UNCHANGED <<cipherVars, impossibleVars, trailVars, session>>
    \/ /\ Running("impossible") /\ ImpossibleNext
       /\ UNCHANGED <<vars, integralVars, trailVars, session>>
    \/ /\ Running("trail") /\ TrailNext
       /\ UNCHANGED <<vars, integralVars, impossibleVars, session>>
    \/ End

AnalysisSpec == AnalysisInit /\ [][AnalysisNext]_allVars
-----------------------------------------------------------------------------
(***************************************************************************)
(* The second call of a pair is on the way, on the first one's block with  *)
(* a byte changed: the bytes that differ, after so many rounds with        *)
(* MixColumns, and where the change was made.                              *)
(***************************************************************************)
Comparing == first # NoCall /\ call.op = first.op /\ call.in # first.in /\ pc # "idle"
Differing == {x \in Cells : state[x] # trace[Position][x]}
Mixed == IF pc = "encrypt" THEN Position ELSE Rounds - 1 - Position
ChangedCell == CHOOSE x \in Cells : bytes_to_state(call.in)[x] # bytes_to_state(first.in)[x]

(***************************************************************************)
(* What the search for impossible differentials makes of that change: the  *)
(* layers in its order, and before the first round of decrypting the shift *)
(* that stands alone.                                                      *)
(***************************************************************************)
Forecast(n) ==
    LET once(p) == IF pc = "encrypt" THEN ForwardOnce(p) ELSE BackwardOnce(p)
        alone(p) == IF pc = "encrypt" THEN p ELSE shift_rows_backward(p)
        after[k \in 0..n] == IF k = 0 THEN alone(Only(ChangedCell)) ELSE once(after[k - 1])
    IN  after[n]

(***************************************************************************)
(* For two rounds, either way, the patterns keep their word: the bytes     *)
(* they call active are those that differ in the cipher, and the inactive  *)
(* ones do not (lines 9-11 and 31-45 of the search, propagate_forward and  *)
(* propagate_backward against the rounds of src/cipher.c).                 *)
(***************************************************************************)
ForecastsHold ==
    Comparing /\ Mixed <= 2 =>
        \A x \in Cells : Forecast(Mixed)[x] = IF x \in Differing THEN ACTIVE ELSE INACTIVE

(***************************************************************************)
(* "this proves that the original (start -> target) truncated differential *)
(* has probability exactly 0 for that many rounds" (lines 12-18): if every *)
(* pair of cells contradicts for some split of a number of rounds, no      *)
(* change of one byte is a change of one byte after so many rounds.        *)
(***************************************************************************)
ContradictionMeansImpossible ==
    Comparing /\ pc = "encrypt" /\ Cardinality(Differing) = 1 =>
        \A line \in printed : line.fwd + line.bwd = Mixed => line.count < 256
=============================================================================
