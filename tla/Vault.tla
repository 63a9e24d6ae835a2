-------------------------------- MODULE Vault --------------------------------
(***************************************************************************)
(* What the makocrypto command promises its users, files and formats left  *)
(* out: text sealed under a passphrase can be opened under that passphrase *)
(* and no other, whole and unchanged, or not at all.  Text in the first    *)
(* format was never sealed here, and nothing is promised of it.            *)
(***************************************************************************)
CONSTANTS Proc, Absent

VARIABLES
    pass,       \* [Proc -> passphrase]
    sealed,     \* [Proc -> text or Absent]: what a process has sealed
    opened      \* [Proc -> text or Absent]: what a process has opened

vars == <<pass, sealed, opened>>

Idle(p) == sealed[p] = Absent /\ opened[p] = Absent

Init ==
    /\ sealed = [p \in Proc |-> Absent]
    /\ opened = [p \in Proc |-> Absent]

Seal(p) ==
    /\ Idle(p)
    /\ sealed'[p] # Absent             \* any text
    /\ sealed' = [sealed EXCEPT ![p] = sealed'[p]]
    /\ UNCHANGED <<pass, opened>>

Open(p) ==
    /\ Idle(p)
    /\ \E q \in Proc :
          /\ sealed[q] # Absent /\ pass[q] = pass[p]
          /\ opened' = [opened EXCEPT ![p] = sealed[q]]
    /\ UNCHANGED <<pass, sealed>>

Next == \E p \in Proc : Seal(p) \/ Open(p)

Spec == Init /\ [][Next]_vars
=============================================================================
