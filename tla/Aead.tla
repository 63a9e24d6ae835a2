-------------------------------- MODULE Aead ---------------------------------
(***************************************************************************)
(* Authenticated encryption as its callers see it, all of a call in one    *)
(* step: a text is sealed, and then something that may have become of the  *)
(* sealed message is opened, with a text or a refusal for an answer.  What *)
(* a sealed message is, and what opening one gives, is for the cipher mode *)
(* to say; a call that is refused for its arguments is not seen here.      *)
(***************************************************************************)
CONSTANTS
    Texts, Nonces, Aads,
    Sealing(_, _, _),       \* the message made of a nonce, associated data and a text,
                            \* with these in its fields nonce, aad and pt
    Opening(_),             \* the answer to a message
    Fates(_),               \* what a message may have become when it comes back
    NoMessage, NoAnswer

VARIABLES
    sealed,     \* the message, or NoMessage
    answer      \* what was opened and with what answer, or NoAnswer

vars == <<sealed, answer>>

Init == sealed = NoMessage /\ answer = NoAnswer

Seal ==
    /\ sealed = NoMessage /\ sealed' # NoMessage
    /\ LET m == sealed'
       IN  /\ m.nonce \in Nonces /\ m.aad \in Aads /\ m.pt \in Texts
           /\ m = Sealing(m.nonce, m.aad, m.pt)
    /\ UNCHANGED answer

Open ==
    /\ sealed # NoMessage /\ answer = NoAnswer /\ answer' # NoAnswer
    /\ LET m == answer'.message
       IN  m \in Fates(sealed) /\ answer' = [message |-> m, text |-> Opening(m)]
    /\ UNCHANGED sealed

Next == Seal \/ Open

Spec == Init /\ [][Next]_vars
=============================================================================
