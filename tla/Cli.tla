--------------------------------- MODULE Cli ---------------------------------
(***************************************************************************)
(* The makocrypto command (src/main.c) as it meets the file system: any    *)
(* number of invocations run at once, each reading its input chunk by      *)
(* chunk, sealing or opening it in memory and writing the result over its  *)
(* output, while processes are killed, writes fail and stored bytes rot.   *)
(*                                                                         *)
(* File contents are sequences of atoms:                                   *)
(*   - Text(x), a chunk of user data, and Junk, a chunk of unknown bytes;  *)
(*   - Sig(v), the magic and the version byte;                             *)
(*   - Fields(flag, salt, tag), the rest of a version-2 header;            *)
(*   - Body(p, k), the k-th chunk of what process p read, encrypted.       *)
(* A process stands for the salt and the nonce it drew: the model takes    *)
(* random values never to repeat.  A tag is what it was computed from, so  *)
(* two tags are equal when passphrase, header fields and ciphertext are.   *)
(***************************************************************************)
EXTENDS Naturals, Sequences

CONSTANTS
    Proc,           \* the invocations
    File,           \* path names
    Pass,           \* passphrases
    Chunk,          \* chunks of user data
    Jobs,           \* what an invocation may be asked to do
    Starts,         \* who is launched, with which jobs, after how much damage
    Files0,         \* the file system's contents at the start
    Absent,         \* no file of that name, no buffer, no process
    MaxRot          \* how many times stored data may be damaged

VARIABLES
    files,          \* [File -> contents or Absent]
    job,            \* [Proc -> Jobs]: mode, input, output, passphrase, key size
    pc, size,       \* where each process is, and what ftell() told it
    data,           \* what it has read
    outb,           \* the buffer it writes, or is to write
    pos,            \* how much of outb is in the file
    result,         \* what it exited with
    lost,           \* history: processes whose last write failed in fclose()
    rots            \* how often stored data was damaged

vars == <<files, job, pc, size, data, outb, pos, result, lost, rots>>

Text(x) == [kind |-> "text", chunk |-> x]
Junk == [kind |-> "junk"]
Sig(v) == [kind |-> "sig", version |-> v]
\* Slip: the fields are laid out in the wrong order.
FieldsSwapped(flag, salt, tag) ==
    [kind |-> "fields", flag |-> salt, salt |-> flag, tag |-> tag]

Fields(flag, salt, tag) == [kind |-> "fields", flag |-> flag, salt |-> salt, tag |-> tag]
Body(p, k) == [kind |-> "body", by |-> p, at |-> k]

(***************************************************************************)
(* The tag: GCM's over the header fields as associated data and the        *)
(* ciphertext, under the key derived from passphrase, salt and key size.   *)
(***************************************************************************)
TagOf(pass, version, flag, salt, body) ==
    [kind |-> "tag", pass |-> pass, version |-> version, flag |-> flag, salt |-> salt,
     body |-> body]
BadTag == [kind |-> "damaged"]

BodyAtom == [kind : {"body"}, by : Proc, at : Nat]
TagType ==
    [kind : {"tag"}, pass : Pass, version : {2}, flag : {0, 1}, salt : Proc,
     body : Seq(BodyAtom)] \cup {BadTag}
FieldsAtom == [kind : {"fields"}, flag : 0..2, salt : Proc \cup {Absent}, tag : TagType]
PlainAtom == [kind : {"text"}, chunk : Chunk] \cup [kind : {"sig"}, version : 1..3] \cup {Junk}
Atom == PlainAtom \cup FieldsAtom \cup BodyAtom

(***************************************************************************)
(* Nothing was sealed before the model starts; what lies in the files is   *)
(* text, or was written by version 1, which has no tag.                    *)
(***************************************************************************)
ASSUME JobsAssumption ==
    /\ Jobs \subseteq [mode : {"encrypt", "decrypt"}, in : File, out : File,
                       pass : Pass, flag : {0, 1}]
    /\ Starts \subseteq [job : [Proc -> Jobs], running : SUBSET Proc, rots : Nat]
    /\ Files0 \in [File -> Seq(PlainAtom) \cup {Absent}]
    /\ Absent \notin Proc \cup Seq(Atom)

(***************************************************************************)
(* The messages a decryption may refuse with, in the order of main.c: no   *)
(* Makocrypto file; an unknown version; "decryption failed"; "decryption   *)
(* failed, wrong passphrase or corrupted file".                            *)
(***************************************************************************)
Refusals == {"not_mako", "version", "failed", "failed_auth"}
Errors == Refusals \cup {"unreadable", "no_resource", "unwritable"}

Init ==
    /\ files = Files0
    /\ \E start \in Starts :
          /\ job = start.job /\ rots = start.rots
          /\ pc = [p \in Proc |-> IF p \in start.running THEN "start" ELSE "done"]
    /\ result = [p \in Proc |-> "none"]
    /\ size = [p \in Proc |-> 0] /\ pos = [p \in Proc |-> 0]
    /\ data = [p \in Proc |-> <<>>] /\ outb = [p \in Proc |-> Absent]
    /\ lost = {}

-----------------------------------------------------------------------------
Exit(p, r) ==
    /\ pc' = [pc EXCEPT ![p] = "done"]
    /\ result' = [result EXCEPT ![p] = r]

Goto(p, l) == pc' = [pc EXCEPT ![p] = l] /\ UNCHANGED result

\* Slip: the last chunk is not counted.
OpenInputShort(p) ==
    /\ pc[p] = "start"
    /\ \/ Exit(p, "unreadable") /\ UNCHANGED size
       \/ /\ files[job[p].in] # Absent
          /\ size' = [size EXCEPT ![p] = IF files[job[p].in] = <<>> THEN 0
                                         ELSE Len(files[job[p].in]) - 1]
          /\ Goto(p, "read")
    /\ UNCHANGED <<files, job, data, outb, pos, lost, rots>>

(***************************************************************************)
(* read_entire_file(): the size is asked for first, then that much is      *)
(* read; a file that has become shorter meanwhile is an error, one that    *)
(* has become longer is read up to the old size.                           *)
(***************************************************************************)
OpenInput(p) ==
    /\ pc[p] = "start"
    /\ \/ Exit(p, "unreadable") /\ UNCHANGED size      \* fopen, fseek, ftell or malloc fails
       \/ /\ files[job[p].in] # Absent
          /\ size' = [size EXCEPT ![p] = Len(files[job[p].in])]
          /\ Goto(p, "read")
    /\ UNCHANGED <<files, job, data, outb, pos, lost, rots>>

\* Slip: a short read is tried again instead of being an error.
ReadChunkInsists(p) ==
    /\ pc[p] = "read" /\ Len(data[p]) < size[p]
    /\ Len(data[p]) < Len(files[job[p].in])
    /\ data' = [data EXCEPT ![p] = Append(@, files[job[p].in][Len(data[p]) + 1])]
    /\ UNCHANGED <<files, job, pc, size, outb, pos, result, lost, rots>>

ReadChunk(p) ==
    /\ pc[p] = "read" /\ Len(data[p]) < size[p]
    /\ LET contents == files[job[p].in]
           next == Len(data[p]) + 1
       IN  \/ /\ next <= Len(contents)
              /\ data' = [data EXCEPT ![p] = Append(@, contents[next])]
              /\ UNCHANGED <<pc, result>>
           \/ Exit(p, "unreadable") /\ UNCHANGED data
    /\ UNCHANGED <<files, job, size, outb, pos, lost, rots>>

InMemory(p) == pc[p] = "read" /\ Len(data[p]) = size[p]

(***************************************************************************)
(* do_encrypt(): salt and nonce are drawn, the data sealed, and the header *)
(* fields, the tag and the ciphertext laid out in one buffer.  Randomness  *)
(* or memory may be lacking; nothing has been written then.                *)
(***************************************************************************)
Sealing(p) == [k \in 1..Len(data[p]) |-> Body(p, k)]
TagFor(p) == TagOf(job[p].pass, 2, job[p].flag, p, Sealing(p))
SealedFile(p) == <<Sig(2), Fields(job[p].flag, p, TagFor(p))>> \o Sealing(p)

SealInput(p) ==
    /\ InMemory(p) /\ job[p].mode = "encrypt"
    /\ \/ outb' = [outb EXCEPT ![p] = SealedFile(p)] /\ Goto(p, "open")
       \/ Exit(p, "no_resource") /\ UNCHANGED outb
    /\ UNCHANGED <<files, job, size, data, pos, lost, rots>>

(***************************************************************************)
(* do_decrypt(): the signature and the version byte choose the format.     *)
(***************************************************************************)
Version(d) == IF Len(d) > 0 /\ d[1].kind = "sig" THEN d[1].version ELSE 0

\* Slip: a header with nothing after it is too short.
TooShortForText(d) == Len(d) <= 2

TooShort(d) == Len(d) < 2          \* shorter than a header

Ciphertext(d) == [k \in 1..(Len(d) - 2) |-> d[k + 2]]

\* Slip: the ciphertext is not under the tag.
TagMatchesHeader(d, pass) ==
    /\ d[2].kind = "fields" /\ d[2].tag # BadTag
    /\ d[2].tag = TagOf(pass, Version(d), d[2].flag, d[2].salt, d[2].tag.body)

\* Slip: the passphrase is not.
TagMatchesAnyPass(d, pass) ==
    /\ d[2].kind = "fields" /\ d[2].tag # BadTag
    /\ d[2].tag = TagOf(d[2].tag.pass, Version(d), d[2].flag, d[2].salt, Ciphertext(d))

(***************************************************************************)
(* do_decrypt_v2()'s tag comparison, on data at least a header long.       *)
(***************************************************************************)
TagMatches(d, pass) ==
    /\ d[2].kind = "fields"
    /\ d[2].tag = TagOf(pass, Version(d), d[2].flag, d[2].salt, Ciphertext(d))

(***************************************************************************)
(* What decryption makes of a ciphertext whose tag has matched.            *)
(***************************************************************************)
Opening(d) ==
    LET c == Ciphertext(d)
    IN  [k \in DOMAIN c |-> IF c[k].kind = "body" THEN data[c[k].by][c[k].at] ELSE Junk]

\* Slip: the output file is emptied on refusal as well.
RefuseClears(p) ==
    /\ InMemory(p) /\ job[p].mode = "decrypt" /\ Version(data[p]) = 0
    /\ Exit(p, "not_mako")
    /\ files' = [files EXCEPT ![job[p].out] = <<>>]
    /\ UNCHANGED <<job, size, data, outb, pos, lost, rots>>

(***************************************************************************)
(* Version 1 has no tag: if the length fits the block size, the padding    *)
(* check on whatever CBC yields is the only judge.  No file in this model  *)
(* was written by version 1, so what comes out is unknown bytes.           *)
(***************************************************************************)
Refuse(p) ==
    /\ InMemory(p) /\ job[p].mode = "decrypt"
    /\ LET d == data[p]
           v == Version(d)
       IN  \/ v = 0 /\ Exit(p, "not_mako")
           \/ v = 3 /\ Exit(p, "version")
           \/ v = 2 /\ TooShort(d) /\ Exit(p, "failed")
           \/ v = 2 /\ ~TooShort(d) /\ ~TagMatches(d, job[p].pass) /\ Exit(p, "failed_auth")
           \/ v = 1 /\ Exit(p, "failed")                         \* too short or not aligned
           \/ v = 1 /\ ~TooShort(d) /\ Exit(p, "failed_auth")    \* bad padding
           \/ v \in {1, 2} /\ ~TooShort(d) /\ Exit(p, "no_resource")
    /\ UNCHANGED <<files, job, size, data, outb, pos, lost, rots>>

OpenSealed(p) ==
    /\ InMemory(p) /\ job[p].mode = "decrypt"
    /\ Version(data[p]) = 2 /\ ~TooShort(data[p]) /\ TagMatches(data[p], job[p].pass)
    /\ outb' = [outb EXCEPT ![p] = Opening(data[p])]
    /\ Goto(p, "open")
    /\ UNCHANGED <<files, job, size, data, pos, lost, rots>>

OpenLegacy(p) ==
    /\ InMemory(p) /\ job[p].mode = "decrypt"
    /\ Version(data[p]) = 1 /\ ~TooShort(data[p])
    /\ \E text \in {<<>>, <<Junk>>} : outb' = [outb EXCEPT ![p] = text]
    /\ Goto(p, "open")
    /\ UNCHANGED <<files, job, size, data, pos, lost, rots>>

(***************************************************************************)
(* write_entire_file(): fopen "wb" truncates; fwrite() hands what fills    *)
(* stdio's buffer to the kernel and keeps the rest; fclose() writes that   *)
(* rest, and its result is not looked at.  Each process writes at its own  *)
(* offset; bytes skipped over read as unknown.                             *)
(***************************************************************************)
Put(contents, k, a) ==
    [i \in 1..(IF k > Len(contents) THEN k ELSE Len(contents)) |->
        IF i = k THEN a ELSE IF i <= Len(contents) THEN contents[i] ELSE Junk]

OpenOutput(p) ==
    /\ pc[p] = "open"
    /\ \/ Exit(p, "unwritable") /\ UNCHANGED files
       \/ files' = [files EXCEPT ![job[p].out] = <<>>] /\ Goto(p, "write")
    /\ UNCHANGED <<job, size, data, outb, pos, lost, rots>>

StoreChunk(p) ==
    /\ pos[p] < Len(outb[p])
    /\ files' = [files EXCEPT ![job[p].out] = Put(@, pos[p] + 1, outb[p][pos[p] + 1])]
    /\ pos' = [pos EXCEPT ![p] = @ + 1]
    /\ UNCHANGED <<pc, result, lost>>

\* Slip: what fwrite() returns is not looked at either.
WriteChunkUnchecked(p) ==
    /\ pc[p] = "write"
    /\ \/ StoreChunk(p)
       \/ pos[p] < Len(outb[p]) /\ Exit(p, "ok") /\ UNCHANGED <<files, pos, lost>>
       \/ Goto(p, "close") /\ UNCHANGED <<files, pos, lost>>
    /\ UNCHANGED <<job, size, data, outb, rots>>

WriteChunk(p) ==
    /\ pc[p] = "write"
    /\ \/ StoreChunk(p)
       \/ pos[p] < Len(outb[p]) /\ Exit(p, "unwritable") /\ UNCHANGED <<files, pos, lost>>
       \/ Goto(p, "close") /\ UNCHANGED <<files, pos, lost>>    \* the rest is in stdio's buffer
    /\ UNCHANGED <<job, size, data, outb, rots>>

CloseOutput(p) ==
    /\ pc[p] = "close"
    /\ \/ StoreChunk(p)
       \/ pos[p] < Len(outb[p]) /\ Exit(p, "ok") /\ lost' = lost \cup {p} /\ UNCHANGED <<files, pos>>
       \/ pos[p] = Len(outb[p]) /\ Exit(p, "ok") /\ UNCHANGED <<files, pos, lost>>
    /\ UNCHANGED <<job, size, data, outb, rots>>

Step(p) ==
    \/ OpenInput(p) \/ ReadChunk(p)
    \/ SealInput(p) \/ Refuse(p) \/ OpenSealed(p) \/ OpenLegacy(p)
    \/ OpenOutput(p) \/ WriteChunk(p) \/ CloseOutput(p)

(***************************************************************************)
(* The world: a process is killed, at whatever point it has reached and    *)
(* with what stdio holds back; the store damages a file, changing a part   *)
(* of it or losing its end.                                                *)
(***************************************************************************)
Kill(p) ==
    /\ pc[p] # "done"
    /\ Exit(p, "killed")
    /\ UNCHANGED <<files, job, size, data, outb, pos, lost, rots>>

Damaged(a) ==
    {Junk} \cup
    CASE a.kind = "sig"    -> {Sig(v) : v \in 1..3}
      [] a.kind = "fields" -> {[a EXCEPT !.flag = 2], [a EXCEPT !.salt = Absent],
                               [a EXCEPT !.tag = BadTag]}
      [] OTHER             -> {}

Rot(f) ==
    /\ files[f] # Absent /\ rots < MaxRot
    /\ \E i \in 1..Len(files[f]) :
          \/ \E a \in Damaged(files[f][i]) \ {files[f][i]} :
                files' = [files EXCEPT ![f] = [@ EXCEPT ![i] = a]]
          \/ files' = [files EXCEPT ![f] = SubSeq(@, 1, i - 1)]
    /\ rots' = rots + 1
    /\ UNCHANGED <<job, pc, size, data, outb, pos, result, lost>>

Next == (\E p \in Proc : Step(p) \/ Kill(p)) \/ (\E f \in File : Rot(f))

(***************************************************************************)
(* A process that can take a step is scheduled; nothing makes the world    *)
(* kill or damage.                                                         *)
(***************************************************************************)
Spec == Init /\ [][Next]_vars /\ \A p \in Proc : WF_vars(Step(p))
-----------------------------------------------------------------------------
Sealed(p) == job[p].mode = "encrypt" /\ outb[p] # Absent
Opened(p) == job[p].mode = "decrypt" /\ outb[p] # Absent /\ Version(data[p]) = 2
Refused(p) == result[p] \in Refusals

(***************************************************************************)
(* TRUE if no process but p has p's output file for its own output.        *)
(***************************************************************************)
SoleWriter(p) == \A q \in Proc \ {p} : job[q].out # job[p].out

TypeOK ==
    /\ files \in [File -> Seq(Atom) \cup {Absent}]
    /\ job \in [Proc -> Jobs]
    /\ pc \in [Proc -> {"start", "read", "open", "write", "close", "done"}]
    /\ result \in [Proc -> Errors \cup {"none", "ok", "killed"}]
    /\ size \in [Proc -> Nat] /\ pos \in [Proc -> Nat]
    /\ data \in [Proc -> Seq(Atom)]
    /\ outb \in [Proc -> Seq(Atom) \cup {Absent}]
    /\ lost \in SUBSET Proc /\ rots \in Nat

(***************************************************************************)
(* What a version-2 decryption puts out is, chunk for chunk, what some     *)
(* process sealed under the same passphrase and the key size that the      *)
(* header it read names, whatever was mixed, cut, damaged or written while *)
(* it was being read (do_decrypt_v2, main.c).                              *)
(***************************************************************************)
Authentic ==
    \A p \in Proc : Opened(p) =>
        \E q \in Proc : /\ Sealed(q) /\ job[q].pass = job[p].pass
                        /\ job[q].flag = data[p][2].flag /\ outb[p] = data[q]

(***************************************************************************)
(* Why Authentic holds.  Every intact tag there is, in a file, in a        *)
(* process or on its way out, is that of a finished sealing; what has been *)
(* sealed or opened is settled, for a process that has a buffer reads no   *)
(* more.                                                                   *)
(***************************************************************************)
TagFrom(t) == t = BadTag \/ \E q \in Proc : Sealed(q) /\ t = TagFor(q)

TracedAtom == PlainAtom \cup {a \in FieldsAtom : TagFrom(a.tag)} \cup BodyAtom

TracedInv ==
    /\ files \in [File -> Seq(TracedAtom) \cup {Absent}]
    /\ data \in [Proc -> Seq(TracedAtom)]
    /\ outb \in [Proc -> Seq(TracedAtom) \cup {Absent}]

Settled ==
    \A p \in Proc :
        /\ pc[p] \in {"start", "read"} => outb[p] = Absent
        /\ pc[p] \in {"open", "write", "close"} => outb[p] # Absent
        /\ pc[p] = "read" => files[job[p].in] # Absent
        /\ pc[p] \in {"write", "close"} => files[job[p].out] # Absent

IInv == TypeOK /\ TracedInv /\ Settled /\ Authentic

(***************************************************************************)
(* A process that got hold of the whole of a file some process sealed      *)
(* under its passphrase does not refuse it: not when the text was empty    *)
(* and the file is a bare header, and not when other processes were at     *)
(* work on it (do_encrypt and do_decrypt, main.c).                         *)
(***************************************************************************)
NoFalseRefusal ==
    \A p, q \in Proc :
        Refused(p) /\ Sealed(q) /\ job[q].pass = job[p].pass => data[p] # SealedFile(q)

(***************************************************************************)
(* After an encryption has reported success the output file is the sealed  *)
(* text, provided nobody else writes it, nothing decays and fclose() did   *)
(* not lose the end (write_entire_file, main.c).                           *)
(***************************************************************************)
StoredIsReadable ==
    \A p \in Proc :
        /\ result[p] = "ok" /\ Sealed(p) /\ SoleWriter(p) /\ rots = 0 /\ p \notin lost
        => files[job[p].out] = SealedFile(p)

(***************************************************************************)
(* Encrypting a file onto itself: the text exists all the time, in the     *)
(* file, in the process, or sealed in the file, unless the process was     *)
(* killed or could not write.  The output is opened, and so emptied, only  *)
(* when everything has been read and sealed (do_encrypt, main.c).          *)
(***************************************************************************)
InPlaceKeepsText ==
    \A p \in Proc :
        LET f == job[p].in IN
        /\ job[p].mode = "encrypt" /\ job[p].out = f /\ SoleWriter(p) /\ rots = 0
        /\ Files0[f] # Absent /\ result[p] \notin {"killed", "unwritable"} /\ p \notin lost
        => \/ files[f] = Files0[f]
           \/ pc[p] \in {"write", "close"} /\ data[p] = Files0[f] /\ outb[p] = SealedFile(p)
           \/ files[f] = SealedFile(p) /\ data[p] = Files0[f]

(***************************************************************************)
(* A file changes only if it decays or a process whose output it is has    *)
(* its result ready: a refused decryption leaves what stood at its output  *)
(* path alone (do_decrypt_v1 and do_decrypt_v2, main.c).                   *)
(***************************************************************************)
RefusalLeavesFiles ==
    [][\A f \in File : files'[f] # files[f] =>
          \/ rots' > rots
          \/ \E p \in Proc : job[p].out = f /\ outb[p] # Absent /\ pc[p] # "done"]_vars

(***************************************************************************)
(* Every invocation comes to an end, whatever the others do to its files   *)
(* meanwhile: the read is bounded by the size asked for at first, the      *)
(* write by the buffer.                                                    *)
(***************************************************************************)
Terminates == \A p \in Proc : <>(pc[p] = "done")

(***************************************************************************)
(* The command implements the vault: every step is a sealing, an opening   *)
(* of something sealed under the same passphrase, or of no account.        *)
(***************************************************************************)
V == INSTANCE Vault WITH
        pass   <- [p \in Proc |-> job[p].pass],
        sealed <- [p \in Proc |-> IF Sealed(p) THEN data[p] ELSE Absent],
        opened <- [p \in Proc |-> IF Opened(p) THEN outb[p] ELSE Absent]

VaultSpec == V!Spec
-----------------------------------------------------------------------------
(***************************************************************************)
(* "Encrypted '%s' -> '%s' (%zu bytes ...)" (main.c:170): that many bytes  *)
(* are in the output file when the command says so.                        *)
(***************************************************************************)
ExitOkMeansStored ==
    \A p \in Proc :
        /\ result[p] = "ok" /\ Sealed(p) /\ SoleWriter(p) /\ rots = 0
        => Len(files[job[p].out]) = Len(SealedFile(p))

(***************************************************************************)
(* "the header fields themselves -- the format version and key-size flag   *)
(* in particular -- are authenticated too" (fileformat.h:51-52): no        *)
(* decryption of a sealed file whose version byte has become 1 stores a    *)
(* text and reports success (do_decrypt, main.c).                          *)
(***************************************************************************)
VersionAuthenticated ==
    \A p, q \in Proc :
        /\ job[p].mode = "decrypt" /\ result[p] = "ok" /\ p \notin lost /\ outb[p] # <<>>
        /\ Sealed(q)
        => data[p] # [SealedFile(q) EXCEPT ![1] = Sig(1)]
=============================================================================
