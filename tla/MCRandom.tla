------------------------------- MODULE MCRandom -------------------------------
(***************************************************************************)
(* Random with every length from none to twice an IV, a salt's and a       *)
(* nonce's among them.                                                     *)
(***************************************************************************)
EXTENDS Random

SomeLens == 0..32
=============================================================================
