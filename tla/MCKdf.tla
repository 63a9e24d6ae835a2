-------------------------------- MODULE MCKdf --------------------------------
(***************************************************************************)
(* Kdf with blocks of 3 bytes, each byte 0 or 1: passphrases that end in   *)
(* every place of a block, and one block further on.                       *)
(***************************************************************************)
EXTENDS Kdf, SequencesExt

Bits == {0, 1}
SomeSalts == {<<0, 0, 0>>, <<0, 0, 1>>, <<0, 1, 0>>, <<1, 1, 1>>}
ShortPassphrases == BoundedSeq(Bits, 4)
=============================================================================
