-------------------------------- MODULE MCCli --------------------------------
(***************************************************************************)
(* Instances of Cli.                                                       *)
(***************************************************************************)
EXTENDS Cli, TLC

CONSTANTS proc1, proc2, proc3, file1, file2, file3, file4, chunk1, chunk2, absent

Request(mode, in, out, pass, flag) ==
    [mode |-> mode, in |-> in, out |-> out, pass |-> pass, flag |-> flag]

\* file1 holds two chunks of text, file2 a version-1 file, the others are not there.
TwoFiles == [f \in File |->
    CASE f = file1 -> <<Text(chunk1), Text(chunk2)>>
      [] f = file2 -> <<Sig(1), Junk>>
      [] OTHER     -> absent]

\* Sealing file1 into file3 or onto itself, opening either, or the old file2.
AnyJob ==
    <<Request("encrypt", file1, file3, 1, 1), Request("encrypt", file1, file1, 1, 0),
      Request("decrypt", file3, file2, 1, 0), Request("decrypt", file1, file1, 2, 0),
      Request("decrypt", file2, file3, 1, 0)>>

\* What a process is not launched for.
Unused == Request("decrypt", file4, file4, 1, 0)

\* Two sealings of different texts into one file, and an opening of it.
Race == (proc1 :> Request("encrypt", file1, file3, 1, 1))
     @@ (proc2 :> Request("encrypt", file2, file3, 1, 1))
     @@ (proc3 :> Request("decrypt", file3, file2, 1, 0))

AllJobs == {AnyJob[n] : n \in DOMAIN AnyJob} \cup {Unused} \cup {Race[p] : p \in Proc}

\* Two invocations of any kind, from undamaged files; which is which does not matter.
Pairs ==
    UNION {{[job |-> (proc1 :> AnyJob[m]) @@ (proc2 :> AnyJob[n]) @@ (proc3 :> Unused),
             running |-> {proc1, proc2}, rots |-> 0] : m \in 1..n} : n \in DOMAIN AnyJob}

\* file1 is sealed into file3, and that is opened under the same passphrase.
SealAndOpen ==
    {[job |-> (proc1 :> AnyJob[1]) @@ (proc2 :> AnyJob[3]) @@ (proc3 :> Unused),
      running |-> {proc1, proc2}, rots |-> 0]}

\* Any pair, or the race after all the damage there may be.
PairsAndRace == Pairs \cup {[job |-> Race, running |-> Proc, rots |-> MaxRot]}
=============================================================================
