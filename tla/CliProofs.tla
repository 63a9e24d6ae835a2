------------------------------ MODULE CliProofs ------------------------------
(***************************************************************************)
(* Theorems about Cli, for any number of processes, files and chunks, any  *)
(* requests and any amount of damage: what is opened was sealed under the  *)
(* same passphrase, the command implements the vault, and every step of an *)
(* invocation brings it nearer to its end.                                 *)
(***************************************************************************)
EXTENDS Cli, SequenceTheorems, TLAPS

(***************************************************************************)
(* Sequences as the actions build them.                                    *)
(***************************************************************************)
LEMMA FunctionIsSeq ==
    ASSUME NEW S, NEW n \in Nat, NEW s \in [1..n -> S]
    PROVE  s \in Seq(S)
BY SeqDef

LEMMA AppendIsSeq ==
    ASSUME NEW S, NEW s \in Seq(S), NEW a \in S
    PROVE  Append(s, a) \in Seq(S)
OBVIOUS

LEMMA PutIsSeq ==
    ASSUME NEW S, NEW s \in Seq(S), NEW k \in Nat \ {0}, NEW a \in S, Junk \in S
    PROVE  Put(s, k, a) \in Seq(S)
<1> DEFINE n == IF k > Len(s) THEN k ELSE Len(s)
<1>1. n \in Nat
  BY LenProperties
<1>2. ASSUME NEW i \in 1..n
      PROVE  (IF i = k THEN a ELSE IF i <= Len(s) THEN s[i] ELSE Junk) \in S
  <2>1. CASE i <= Len(s)
    BY <2>1, ElementOfSeq, LenProperties, <1>1
  <2> QED BY <2>1
<1>3. Put(s, k, a) \in [1..n -> S]
  BY <1>2 DEF Put
<1> QED BY <1>1, <1>3, FunctionIsSeq

LEMMA PrefixIsSeq ==
    ASSUME NEW S, NEW s \in Seq(S), NEW i \in 1..Len(s)
    PROVE  SubSeq(s, 1, i - 1) \in Seq(S)
<1>1. i \in Nat /\ i - 1 \in Int /\ Len(s) \in Nat
  BY LenProperties
<1>2. \A j \in 1..(i - 1) : s[j] \in S
  BY <1>1, ElementOfSeq
<1> QED BY <1>1, <1>2, SubSeqProperties

LEMMA TracedIsAtom == TracedAtom \subseteq Atom
BY DEF TracedAtom, Atom

LEMMA ConcatParts ==
    ASSUME NEW S, NEW s \in Seq(S), NEW t \in Seq(S), NEW u, u = s \o t
    PROVE  /\ Len(u) = Len(s) + Len(t)
           /\ \A i \in 1..(Len(s) + Len(t)) : u[i] = IF i <= Len(s) THEN s[i] ELSE t[i - Len(s)]
BY ConcatProperties

LEMMA JunkIsPlain == Junk \in PlainAtom /\ Junk \in TracedAtom
BY DEF PlainAtom, TracedAtom

(***************************************************************************)
(* A sequence is never Absent.                                             *)
(***************************************************************************)
LEMMA SeqIsPresent ==
    ASSUME NEW s \in Seq(TracedAtom)
    PROVE  s # Absent
<1>1. s \in Seq(Atom)
  BY TracedIsAtom, SeqMonotonic
<1> QED BY <1>1, JobsAssumption

LEMMA InitIInv == Init => IInv
<1> SUFFICES ASSUME Init PROVE IInv
  OBVIOUS
<1>1. PlainAtom \subseteq TracedAtom
  BY DEF TracedAtom
<1>2. files \in [File -> Seq(TracedAtom) \cup {Absent}]
  <2>1. ASSUME NEW f \in File PROVE files[f] \in Seq(TracedAtom) \cup {Absent}
    <3>1. files[f] \in Seq(PlainAtom) \cup {Absent}
      BY JobsAssumption DEF Init
    <3>2. CASE files[f] \in Seq(PlainAtom)
      BY <3>2, <1>1, SeqMonotonic
    <3> QED BY <3>1, <3>2
  <2> QED BY <2>1, JobsAssumption DEF Init
<1>3. TracedInv
  <2>1. <<>> \in Seq(TracedAtom)
    BY EmptySeq
  <2> QED BY <1>2, <2>1 DEF TracedInv, Init
<1>4. TypeOK
  <2>1. \A s \in Seq(TracedAtom) : s \in Seq(Atom)
    BY TracedIsAtom, SeqMonotonic
  <2>2. PICK start \in Starts :
           /\ job = start.job /\ rots = start.rots
           /\ pc = [p \in Proc |-> IF p \in start.running THEN "start" ELSE "done"]
    BY DEF Init
  <2>3. job \in [Proc -> Jobs] /\ rots \in Nat
    BY <2>2, JobsAssumption
  <2>4. pc \in [Proc -> {"start", "read", "open", "write", "close", "done"}]
    BY <2>2
  <2> QED BY <1>3, <2>1, <2>3, <2>4 DEF TypeOK, TracedInv, Init
<1>5. Settled
  BY DEF Settled, Init
<1>6. Authentic
  BY DEF Authentic, Opened, Init
<1> QED BY <1>3, <1>4, <1>5, <1>6 DEF IInv

(***************************************************************************)
(* What is sealed stays sealed, with its tag and its text.                 *)
(***************************************************************************)
LEMMA SealedStays ==
    ASSUME IInv, [Next]_vars, NEW q \in Proc, outb[q] # Absent
    PROVE  outb'[q] = outb[q] /\ data'[q] = data[q] /\ job' = job
<1>1. pc[q] \notin {"start", "read"}
  BY DEF IInv, Settled
<1>2. CASE UNCHANGED vars
  BY <1>2 DEF vars
<1>3. ASSUME NEW p \in Proc, Step(p) PROVE outb'[q] = outb[q] /\ data'[q] = data[q] /\ job' = job
  <2>1. CASE OpenInput(p)
    BY <2>1 DEF OpenInput
  <2>2. CASE ReadChunk(p)
    BY <1>1, <2>2 DEF ReadChunk, IInv, TypeOK
  <2>3. CASE SealInput(p)
    BY <1>1, <2>3 DEF SealInput, InMemory, IInv, TypeOK
  <2>4. CASE Refuse(p)
    BY <2>4 DEF Refuse
  <2>5. CASE OpenSealed(p)
    BY <1>1, <2>5 DEF OpenSealed, InMemory, IInv, TypeOK
  <2>6. CASE OpenLegacy(p)
    BY <1>1, <2>6 DEF OpenLegacy, InMemory, IInv, TypeOK
  <2>7. CASE OpenOutput(p)
    BY <2>7 DEF OpenOutput
  <2>8. CASE WriteChunk(p)
    BY <2>8 DEF WriteChunk
  <2>9. CASE CloseOutput(p)
    BY <2>9 DEF CloseOutput
  <2> QED BY <1>3, <2>1, <2>2, <2>3, <2>4, <2>5, <2>6, <2>7, <2>8, <2>9 DEF Step
<1>4. ASSUME NEW p \in Proc, Kill(p) PROVE outb'[q] = outb[q] /\ data'[q] = data[q] /\ job' = job
  BY <1>4 DEF Kill
<1>5. ASSUME NEW f \in File, Rot(f) PROVE outb'[q] = outb[q] /\ data'[q] = data[q] /\ job' = job
  BY <1>5 DEF Rot
<1> QED BY <1>2, <1>3, <1>4, <1>5 DEF Next

LEMMA TracedGrows ==
    ASSUME IInv, [Next]_vars
    PROVE  TracedAtom \subseteq TracedAtom'
<1>1. ASSUME NEW q \in Proc, Sealed(q) PROVE Sealed(q)' /\ TagFor(q)' = TagFor(q)
  BY <1>1, SealedStays DEF Sealed, TagFor, Sealing
<1>2. ASSUME NEW t, TagFrom(t) PROVE TagFrom(t)'
  BY <1>1, <1>2 DEF TagFrom
<1> QED BY <1>2 DEF TracedAtom

(***************************************************************************)
(* Damage yields no tag that was not there before.                         *)
(***************************************************************************)
LEMMA DamagedIsTraced ==
    ASSUME NEW a \in TracedAtom, NEW b \in Damaged(a)
    PROVE  b \in TracedAtom
<1>1. CASE a.kind = "sig"
  BY <1>1, JunkIsPlain DEF Damaged, Sig, TracedAtom, PlainAtom
<1>2. CASE a.kind = "fields"
  <2>1. a \in FieldsAtom /\ TagFrom(a.tag)
    BY <1>2 DEF TracedAtom, PlainAtom, BodyAtom, Junk
  <2>2. TagFrom(BadTag) /\ BadTag \in TagType
    BY DEF TagFrom, TagType
  <2>3. /\ [a EXCEPT !.flag = 2] \in FieldsAtom /\ [a EXCEPT !.flag = 2].tag = a.tag
        /\ [a EXCEPT !.salt = Absent] \in FieldsAtom /\ [a EXCEPT !.salt = Absent].tag = a.tag
        /\ [a EXCEPT !.tag = BadTag] \in FieldsAtom /\ [a EXCEPT !.tag = BadTag].tag = BadTag
    BY <2>1, <2>2 DEF FieldsAtom
  <2>4. b \in {Junk, [a EXCEPT !.flag = 2], [a EXCEPT !.salt = Absent], [a EXCEPT !.tag = BadTag]}
    BY <1>2 DEF Damaged
  <2> QED BY <2>1, <2>2, <2>3, <2>4, JunkIsPlain DEF TracedAtom
<1>3. CASE a.kind \notin {"sig", "fields"}
  BY <1>3, JunkIsPlain DEF Damaged
<1> QED BY <1>1, <1>2, <1>3

LEMMA SealingIsSeq ==
    ASSUME IInv, NEW p \in Proc, job[p].mode = "encrypt"
    PROVE  /\ Sealing(p) \in Seq(BodyAtom)
           /\ TagFor(p) \in TagType
           /\ Fields(job[p].flag, p, TagFor(p)) \in FieldsAtom
<1>1. Len(data[p]) \in Nat /\ job[p].pass \in Pass /\ job[p].flag \in {0, 1}
  <2>1. data[p] \in Seq(Atom) /\ job[p] \in Jobs
    BY DEF IInv, TypeOK
  <2> QED BY <2>1, LenProperties, JobsAssumption
<1>2. Sealing(p) \in [1..Len(data[p]) -> BodyAtom]
  BY <1>1 DEF Sealing, Body, BodyAtom
<1>3. Sealing(p) \in Seq(BodyAtom)
  BY <1>1, <1>2, FunctionIsSeq
<1>4. TagFor(p) \in TagType
  BY <1>1, <1>3 DEF TagFor, TagOf, TagType
<1> QED BY <1>1, <1>3, <1>4 DEF Fields, FieldsAtom

(***************************************************************************)
(* A sealed file is a sequence over any set with its parts.                *)
(***************************************************************************)
LEMMA SealedFileIsSeq ==
    ASSUME IInv, NEW p \in Proc, job[p].mode = "encrypt", NEW S,
           BodyAtom \subseteq S, Sig(2) \in S, Fields(job[p].flag, p, TagFor(p)) \in S
    PROVE  SealedFile(p) \in Seq(S)
<1>1. Sealing(p) \in Seq(S)
  BY SealingIsSeq, SeqMonotonic
<1>2. <<Sig(2), Fields(job[p].flag, p, TagFor(p))>> \in Seq(S)
  OBVIOUS
<1> QED BY <1>1, <1>2, ConcatProperties DEF SealedFile

(***************************************************************************)
(* A tag that matches is that of a finished sealing under the passphrase,  *)
(* and what comes out is what that process read.                           *)
(***************************************************************************)
LEMMA OpeningIsSealed ==
    ASSUME IInv, NEW p \in Proc, ~TooShort(data[p]), TagMatches(data[p], job[p].pass)
    PROVE  \E q \in Proc : /\ Sealed(q) /\ job[q].pass = job[p].pass
                           /\ job[q].flag = data[p][2].flag /\ Opening(data[p]) = data[q]
<1> DEFINE d == data[p]
<1>1. d \in Seq(TracedAtom) /\ Len(d) \in Nat /\ d[2] \in TracedAtom
  <2>1. d \in Seq(TracedAtom)
    BY DEF IInv, TracedInv
  <2>2. Len(d) \in Nat /\ Len(d) >= 2
    BY <2>1, LenProperties DEF TooShort
  <2> QED BY <2>1, <2>2, ElementOfSeq
<1>2. TagFrom(d[2].tag)
  BY <1>1 DEF TagMatches, TracedAtom, PlainAtom, BodyAtom, Junk
<1>3. d[2].tag # BadTag
  BY DEF TagMatches, TagOf, BadTag
<1>4. PICK q \in Proc : Sealed(q) /\ d[2].tag = TagFor(q)
  BY <1>2, <1>3 DEF TagFrom
<1>5. job[q].pass = job[p].pass /\ job[q].flag = d[2].flag /\ Ciphertext(d) = Sealing(q)
  BY <1>4 DEF TagMatches, TagFor, TagOf
<1>6. data[q] \in Seq(TracedAtom) /\ Len(data[q]) \in Nat
  BY LenProperties DEF IInv, TracedInv
<1>7. DOMAIN Sealing(q) = 1..Len(data[q])
  BY DEF Sealing
<1>8. \A k \in 1..Len(data[q]) : Sealing(q)[k] = Body(q, k)
  BY DEF Sealing
<1>9. Opening(d) = [k \in 1..Len(data[q]) |-> data[q][k]]
  <2> DEFINE c == Sealing(q)
             text == [k \in DOMAIN c |-> IF c[k].kind = "body" THEN data[c[k].by][c[k].at]
                                         ELSE Junk]
  <2>1. Opening(d) = text
    BY <1>5 DEF Opening
  <2>2. ASSUME NEW k \in 1..Len(data[q]) PROVE text[k] = data[q][k]
    <3>1. c[k].kind = "body" /\ c[k].by = q /\ c[k].at = k
      <4>1. c[k] = Body(q, k)
        BY <1>8, <2>2
      <4> HIDE DEF c
      <4> QED BY <4>1 DEF Body
    <3> QED BY <1>7, <3>1, <2>2
  <2>3. text = [k \in 1..Len(data[q]) |-> text[k]]
    BY <1>7
  <2> QED BY <2>1, <2>2, <2>3
<1>10. data[q] = [k \in 1..Len(data[q]) |-> data[q][k]]
  BY <1>6, LenProperties
<1> QED BY <1>4, <1>5, <1>9, <1>10

-----------------------------------------------------------------------------
(***************************************************************************)
(* StoreChunk puts a part of the buffer into the file.                     *)
(***************************************************************************)
LEMMA StoreChunkTraced ==
    ASSUME IInv, [Next]_vars, NEW p \in Proc, pc[p] \in {"write", "close"}, StoreChunk(p)
    PROVE  files' \in [File -> Seq(TracedAtom) \cup {Absent}] /\ pos' \in [Proc -> Nat]
<1> DEFINE f == job[p].out
           a == outb[p][pos[p] + 1]
<1>1. f \in File /\ pos[p] \in Nat
  BY JobsAssumption DEF IInv, TypeOK
<1>2. files[f] \in Seq(TracedAtom) /\ outb[p] \in Seq(TracedAtom)
  BY <1>1 DEF IInv, TracedInv, Settled
<1>3. a \in TracedAtom
  <2>1. pos[p] + 1 \in 1..Len(outb[p])
    BY <1>1, <1>2, LenProperties DEF StoreChunk
  <2> QED BY <1>2, <2>1, ElementOfSeq
<1>4. Put(files[f], pos[p] + 1, a) \in Seq(TracedAtom)
  <2>1. pos[p] + 1 \in Nat \ {0}
    BY <1>1
  <2> QED BY <1>2, <1>3, <2>1, JunkIsPlain, PutIsSeq
<1>5. files' = [files EXCEPT ![f] = Put(files[f], pos[p] + 1, a)]
  BY DEF StoreChunk
<1> QED BY <1>1, <1>4, <1>5 DEF StoreChunk, IInv, TypeOK, TracedInv

LEMMA StoredStays ==
    ASSUME IInv, [Next]_vars, NEW p \in Proc, pc[p] \in {"write", "close"}, StoreChunk(p)
    PROVE  \A f \in File : files[f] # Absent => files'[f] # Absent
<1>1. files' \in [File -> Seq(TracedAtom) \cup {Absent}] /\ job[p].out \in File
  BY StoreChunkTraced, JobsAssumption DEF IInv, TypeOK
<1> DEFINE g == job[p].out
           s == Put(files[g], pos[p] + 1, outb[p][pos[p] + 1])
<1>2. files' = [files EXCEPT ![g] = s]
  BY DEF StoreChunk
<1>3. s # Absent
  <2>1. s \in Seq(TracedAtom)
    <3>1. files[g] \in Seq(TracedAtom) /\ outb[p] \in Seq(TracedAtom) /\ pos[p] \in Nat
      BY <1>1 DEF IInv, TypeOK, TracedInv, Settled
    <3>2. outb[p][pos[p] + 1] \in TracedAtom
      <4>1. pos[p] + 1 \in 1..Len(outb[p])
        BY <3>1, LenProperties DEF StoreChunk
      <4> QED BY <3>1, <4>1, ElementOfSeq
    <3>3. pos[p] + 1 \in Nat \ {0}
      BY <3>1
    <3> QED BY <3>1, <3>2, <3>3, JunkIsPlain, PutIsSeq
  <2> QED BY <2>1, SeqIsPresent
<1> QED BY <1>1, <1>2, <1>3 DEF IInv, TypeOK

(***************************************************************************)
(* Everything there is stays traced.                                       *)
(***************************************************************************)
LEMMA TracedNext == IInv /\ [Next]_vars => TracedInv'
<1> SUFFICES ASSUME IInv, [Next]_vars PROVE TracedInv'
  OBVIOUS
<1> DEFINE S == Seq(TracedAtom)
           T == Seq(TracedAtom')
<1>1. \A s \in S : s \in T
  BY TracedGrows, SeqMonotonic
<1>2. /\ files \in [File -> S \cup {Absent}]
      /\ data \in [Proc -> S]
      /\ outb \in [Proc -> S \cup {Absent}]
  BY DEF IInv, TracedInv
<1>3. ASSUME files' \in [File -> S \cup {Absent}], data' \in [Proc -> S],
             outb' \in [Proc -> S \cup {Absent}]
      PROVE  TracedInv'
  BY <1>1, <1>3 DEF TracedInv
<1>4. <<>> \in S /\ <<Junk>> \in S
  BY JunkIsPlain
<1> HIDE DEF S
<1>5. CASE UNCHANGED vars
  BY <1>2, <1>3, <1>5 DEF vars
<1>6. ASSUME NEW p \in Proc, Step(p) PROVE TracedInv'
  <2>0. job[p].in \in File /\ job[p].out \in File
    BY JobsAssumption DEF IInv, TypeOK
  <2>1. CASE OpenInput(p)
    BY <1>2, <1>3, <2>1 DEF OpenInput
  <2>2. CASE ReadChunk(p)
    <3>1. files[job[p].in] \in S
      BY <1>2, <2>0, <2>2 DEF ReadChunk, IInv, Settled
    <3>2. Len(data[p]) + 1 <= Len(files[job[p].in])
             => Append(data[p], files[job[p].in][Len(data[p]) + 1]) \in S
      <4>1. data[p] \in S
        BY <1>2
      <4>2. Len(data[p]) \in Nat /\ Len(files[job[p].in]) \in Nat
        BY <3>1, <4>1, LenProperties DEF S
      <4>3. SUFFICES ASSUME Len(data[p]) + 1 <= Len(files[job[p].in])
                     PROVE  Append(data[p], files[job[p].in][Len(data[p]) + 1]) \in S
        OBVIOUS
      <4>4. Len(data[p]) + 1 \in 1..Len(files[job[p].in])
        BY <4>2, <4>3
      <4>5. files[job[p].in][Len(data[p]) + 1] \in TracedAtom
        BY <3>1, <4>4, ElementOfSeq DEF S
      <4> QED BY <4>1, <4>5, AppendIsSeq DEF S
    <3>3. data' \in [Proc -> S]
      BY <1>2, <2>2, <3>2 DEF ReadChunk
    <3> QED BY <1>2, <1>3, <2>2, <3>3 DEF ReadChunk
  <2>3. CASE SealInput(p)
    <3>1. CASE outb' = [outb EXCEPT ![p] = SealedFile(p)]
      <4>1. job[p].mode = "encrypt"
        BY <2>3 DEF SealInput
      <4>2. Fields(job[p].flag, p, TagFor(p)) \in FieldsAtom
        BY <4>1, SealingIsSeq
      <4>3. SealedFile(p) # Absent
        <5>1. Sig(2) \in Atom
          BY DEF Atom, PlainAtom, Sig
        <5>2. SealedFile(p) \in Seq(Atom)
          BY <4>1, <4>2, <5>1, SealedFileIsSeq DEF Atom
        <5> QED BY <5>2, JobsAssumption
      <4>4. TagFrom(TagFor(p))'
        BY <2>3, <3>1, <4>1, <4>3, <1>2 DEF SealInput, TagFrom, TagFor, Sealing, Sealed
      <4>5. TagFor(p)' = TagFor(p)
        BY <2>3 DEF SealInput, TagFor, Sealing
      <4>6. /\ BodyAtom \subseteq TracedAtom' /\ Sig(2) \in TracedAtom'
            /\ Fields(job[p].flag, p, TagFor(p)) \in TracedAtom'
        BY <4>2, <4>4, <4>5 DEF TracedAtom, PlainAtom, Sig, Fields
      <4>7. SealedFile(p) \in T
        BY <4>1, <4>6, SealedFileIsSeq
      <4>8. outb' \in [Proc -> T \cup {Absent}]
        BY <1>1, <1>2, <3>1, <4>7
      <4> QED BY <1>1, <1>2, <2>3, <4>8 DEF SealInput, TracedInv
    <3>2. CASE UNCHANGED outb
      BY <1>2, <1>3, <2>3, <3>2 DEF SealInput
    <3> QED BY <2>3, <3>1, <3>2 DEF SealInput
  <2>4. CASE Refuse(p)
    BY <1>2, <1>3, <2>4 DEF Refuse
  <2>5. CASE OpenSealed(p)
    <3>1. Opening(data[p]) \in S
      BY <1>2, <2>5, OpeningIsSealed DEF OpenSealed
    <3>2. outb' \in [Proc -> S \cup {Absent}]
      BY <1>2, <2>5, <3>1 DEF OpenSealed
    <3> QED BY <1>2, <1>3, <2>5, <3>2 DEF OpenSealed
  <2>6. CASE OpenLegacy(p)
    <3>1. outb' \in [Proc -> S \cup {Absent}]
      BY <1>2, <1>4, <2>6 DEF OpenLegacy
    <3> QED BY <1>2, <1>3, <2>6, <3>1 DEF OpenLegacy
  <2>7. CASE OpenOutput(p)
    <3>1. files' \in [File -> S \cup {Absent}]
      BY <1>2, <1>4, <2>0, <2>7 DEF OpenOutput
    <3> QED BY <1>2, <1>3, <2>7, <3>1 DEF OpenOutput
  <2>8. CASE WriteChunk(p)
    <3>1. files' \in [File -> S \cup {Absent}]
      BY <1>2, <2>8, StoreChunkTraced DEF WriteChunk, S
    <3> QED BY <1>2, <1>3, <2>8, <3>1 DEF WriteChunk
  <2>9. CASE CloseOutput(p)
    <3>1. files' \in [File -> S \cup {Absent}]
      BY <1>2, <2>9, StoreChunkTraced DEF CloseOutput, S
    <3> QED BY <1>2, <1>3, <2>9, <3>1 DEF CloseOutput
  <2> QED BY <1>6, <2>1, <2>2, <2>3, <2>4, <2>5, <2>6, <2>7, <2>8, <2>9 DEF Step
<1>7. ASSUME NEW p \in Proc, Kill(p) PROVE TracedInv'
  BY <1>2, <1>3, <1>7 DEF Kill
<1>8. ASSUME NEW f \in File, Rot(f) PROVE TracedInv'
  <2>1. files[f] \in S
    BY <1>2, <1>8 DEF Rot
  <2>2. PICK i \in 1..Len(files[f]) :
          \/ \E a \in Damaged(files[f][i]) : files' = [files EXCEPT ![f] = [@ EXCEPT ![i] = a]]
          \/ files' = [files EXCEPT ![f] = SubSeq(@, 1, i - 1)]
    BY <1>8 DEF Rot
  <2>3. ASSUME NEW a \in Damaged(files[f][i]) PROVE [files[f] EXCEPT ![i] = a] \in S
    <3>1. a \in TracedAtom
      BY <2>1, ElementOfSeq, DamagedIsTraced DEF S
    <3> QED BY <2>1, <3>1, ExceptSeq DEF S
  <2>4. SubSeq(files[f], 1, i - 1) \in S
    BY <2>1, PrefixIsSeq DEF S
  <2>5. files' \in [File -> S \cup {Absent}]
    BY <1>2, <2>2, <2>3, <2>4
  <2> QED BY <1>2, <1>3, <1>8, <2>5 DEF Rot
<1> QED BY <1>5, <1>6, <1>7, <1>8 DEF Next

LEMMA TypeNext == IInv /\ [Next]_vars => TypeOK'
<1> SUFFICES ASSUME IInv, [Next]_vars PROVE TypeOK'
  OBVIOUS
<1>1. /\ files' \in [File -> Seq(Atom) \cup {Absent}]
      /\ data' \in [Proc -> Seq(Atom)]
      /\ outb' \in [Proc -> Seq(Atom) \cup {Absent}]
  <2>1. TracedAtom' \subseteq Atom
    BY DEF TracedAtom, Atom
  <2>2. \A s \in Seq(TracedAtom') : s \in Seq(Atom)
    BY <2>1, SeqMonotonic
  <2> QED BY <2>2, TracedNext DEF TracedInv
<1> DEFINE Control ==
        /\ job' \in [Proc -> Jobs]
        /\ pc' \in [Proc -> {"start", "read", "open", "write", "close", "done"}]
        /\ result' \in [Proc -> Errors \cup {"none", "ok", "killed"}]
        /\ size' \in [Proc -> Nat] /\ pos' \in [Proc -> Nat]
        /\ lost' \in SUBSET Proc /\ rots' \in Nat
<1>2. CASE UNCHANGED vars
  BY <1>1, <1>2 DEF vars, IInv, TypeOK
<1>3. ASSUME NEW p \in Proc, Step(p) PROVE Control
  <2> USE DEF Exit, Goto, Errors, Refusals
  <2>0. TypeOK
    BY DEF IInv
  <2>1. CASE OpenInput(p)
    <3>1. files[job[p].in] # Absent => Len(files[job[p].in]) \in Nat
      <4>1. job[p].in \in File
        BY <2>0, JobsAssumption DEF TypeOK
      <4> QED BY <2>0, <4>1, LenProperties DEF TypeOK
    <3> QED BY <2>0, <2>1, <3>1 DEF OpenInput, TypeOK
  <2>2. CASE ReadChunk(p)
    BY <2>0, <2>2 DEF ReadChunk, TypeOK
  <2>3. CASE SealInput(p)
    BY <2>0, <2>3 DEF SealInput, TypeOK
  <2>4. CASE Refuse(p)
    BY <2>0, <2>4 DEF Refuse, TypeOK
  <2>5. CASE OpenSealed(p)
    BY <2>0, <2>5 DEF OpenSealed, TypeOK
  <2>6. CASE OpenLegacy(p)
    BY <2>0, <2>6 DEF OpenLegacy, TypeOK
  <2>7. CASE OpenOutput(p)
    BY <2>0, <2>7 DEF OpenOutput, TypeOK
  <2>8. CASE WriteChunk(p)
    <3>1. CASE StoreChunk(p)
      <4>1. pos' \in [Proc -> Nat]
        BY <2>8, <3>1, StoreChunkTraced DEF WriteChunk
      <4> QED BY <2>0, <2>8, <3>1, <4>1 DEF WriteChunk, StoreChunk, TypeOK
    <3>2. CASE UNCHANGED <<files, pos, lost>>
      BY <2>0, <2>8, <3>2 DEF WriteChunk, StoreChunk, TypeOK
    <3> QED BY <2>8, <3>1, <3>2 DEF WriteChunk
  <2>9. CASE CloseOutput(p)
    <3>1. CASE StoreChunk(p)
      <4>1. pos' \in [Proc -> Nat]
        BY <2>9, <3>1, StoreChunkTraced DEF CloseOutput
      <4> QED BY <2>0, <2>9, <3>1, <4>1 DEF CloseOutput, StoreChunk, TypeOK
    <3>2. CASE Exit(p, "ok") /\ UNCHANGED <<files, pos>> /\ lost' \in SUBSET Proc
      BY <2>0, <2>9, <3>2 DEF CloseOutput, TypeOK
    <3>3. lost \in SUBSET Proc
      BY <2>0 DEF TypeOK
    <3> QED BY <2>9, <3>1, <3>2, <3>3 DEF CloseOutput
  <2> QED BY <1>3, <2>1, <2>2, <2>3, <2>4, <2>5, <2>6, <2>7, <2>8, <2>9 DEF Step
<1>4. ASSUME NEW p \in Proc, Kill(p) PROVE Control
  BY <1>4 DEF Kill, Exit, IInv, TypeOK
<1>5. ASSUME NEW f \in File, Rot(f) PROVE Control
  BY <1>5 DEF Rot, IInv, TypeOK
<1> QED BY <1>1, <1>2, <1>3, <1>4, <1>5 DEF Next, TypeOK

(***************************************************************************)
(* No file vanishes, and a buffer is there from the moment reading ends.   *)
(***************************************************************************)
LEMMA SettledNext == IInv /\ [Next]_vars => Settled'
<1> SUFFICES ASSUME IInv, [Next]_vars PROVE Settled'
  OBVIOUS
<1>1. \A s \in Seq(TracedAtom) \cup Seq(TracedAtom') : s # Absent
  <2>1. TracedAtom \subseteq Atom /\ TracedAtom' \subseteq Atom
    BY DEF TracedAtom, Atom
  <2> QED BY <2>1, SeqMonotonic, JobsAssumption
<1>2. TypeOK /\ Settled /\ TracedInv'
  BY TracedNext DEF IInv
<1>3. \A q \in Proc : job[q].in \in File /\ job[q].out \in File
  BY <1>2, JobsAssumption DEF TypeOK
<1>4. CASE UNCHANGED vars
  BY <1>2, <1>4 DEF vars, Settled
<1>5. ASSUME NEW p \in Proc, Step(p) PROVE Settled'
  <2> USE DEF Exit, Goto
  <2>1. CASE OpenInput(p)
    BY <1>2, <2>1 DEF OpenInput, TypeOK, Settled
  <2>2. CASE ReadChunk(p)
    BY <1>2, <2>2 DEF ReadChunk, TypeOK, Settled
  <2>3. CASE SealInput(p)
    <3>1. CASE outb' = [outb EXCEPT ![p] = SealedFile(p)] /\ Goto(p, "open")
      <4>1. outb'[p] = SealedFile(p) /\ job[p].mode = "encrypt"
        BY <1>2, <2>3, <3>1 DEF SealInput, TypeOK
      <4>2. Sig(2) \in Atom /\ SealedFile(p) \in Seq(Atom)
        <5>1. Sig(2) \in Atom
          BY DEF Atom, PlainAtom, Sig
        <5> QED BY <4>1, <5>1, SealingIsSeq, SealedFileIsSeq DEF Atom
      <4> QED BY <1>2, <2>3, <3>1, <4>1, <4>2, JobsAssumption DEF SealInput, TypeOK, Settled
    <3>2. CASE Exit(p, "no_resource") /\ UNCHANGED outb
      BY <1>2, <2>3, <3>2 DEF SealInput, TypeOK, Settled
    <3> QED BY <2>3, <3>1, <3>2 DEF SealInput
  <2>4. CASE Refuse(p)
    <3>1. pc' = [pc EXCEPT ![p] = "done"]
      BY <2>4 DEF Refuse
    <3> QED BY <1>2, <2>4, <3>1 DEF Refuse, TypeOK, Settled
  <2>5. CASE OpenSealed(p)
    <3>1. Opening(data[p]) # Absent
      BY <1>1, <2>5, OpeningIsSealed DEF OpenSealed, IInv, TracedInv
    <3> QED BY <1>2, <2>5, <3>1 DEF OpenSealed, TypeOK, Settled
  <2>6. CASE OpenLegacy(p)
    <3>1. <<>> # Absent /\ <<Junk>> # Absent
      <4>1. <<>> \in Seq(Atom) /\ <<Junk>> \in Seq(Atom)
        BY JunkIsPlain DEF Atom
      <4> QED BY <4>1, JobsAssumption
    <3> QED BY <1>2, <2>6, <3>1 DEF OpenLegacy, TypeOK, Settled
  <2>7. CASE OpenOutput(p)
    <3>1. <<>> # Absent
      <4>1. <<>> \in Seq(Atom)
        OBVIOUS
      <4> QED BY <4>1, JobsAssumption
    <3> QED BY <1>2, <1>3, <2>7, <3>1 DEF OpenOutput, TypeOK, Settled
  <2>8. CASE WriteChunk(p)
    <3>1. \A f \in File : files[f] # Absent => files'[f] # Absent
      <4>1. CASE UNCHANGED files
        BY <4>1
      <4>2. CASE StoreChunk(p)
        BY <2>8, <4>2, StoredStays DEF WriteChunk
      <4> QED BY <2>8, <4>1, <4>2 DEF WriteChunk
    <3> QED BY <1>2, <1>3, <2>8, <3>1 DEF WriteChunk, StoreChunk, TypeOK, Settled
  <2>9. CASE CloseOutput(p)
    <3>1. \A f \in File : files[f] # Absent => files'[f] # Absent
      <4>1. CASE UNCHANGED files
        BY <4>1
      <4>2. CASE StoreChunk(p)
        BY <2>9, <4>2, StoredStays DEF CloseOutput
      <4> QED BY <2>9, <4>1, <4>2 DEF CloseOutput
    <3> QED BY <1>2, <1>3, <2>9, <3>1 DEF CloseOutput, StoreChunk, TypeOK, Settled
  <2> QED BY <1>5, <2>1, <2>2, <2>3, <2>4, <2>5, <2>6, <2>7, <2>8, <2>9 DEF Step
<1>6. ASSUME NEW p \in Proc, Kill(p) PROVE Settled'
  BY <1>2, <1>6 DEF Kill, Exit, TypeOK, Settled
<1>7. ASSUME NEW f \in File, Rot(f) PROVE Settled'
  <2>1. \A g \in File : files[g] # Absent => files'[g] # Absent
    <3>1. files'[f] # Absent
      <4>1. files[f] \in Seq(TracedAtom)
        BY <1>7 DEF Rot, IInv, TracedInv
      <4>2. PICK i \in 1..Len(files[f]) :
              \/ \E a \in Damaged(files[f][i]) : files'[f] = [files[f] EXCEPT ![i] = a]
              \/ files'[f] = SubSeq(files[f], 1, i - 1)
        BY <1>2, <1>7 DEF Rot, TypeOK
      <4>3. ASSUME NEW a \in Damaged(files[f][i])
            PROVE  [files[f] EXCEPT ![i] = a] \in Seq(TracedAtom)
        <5>1. a \in TracedAtom
          BY <4>1, ElementOfSeq, DamagedIsTraced
        <5> QED BY <4>1, <5>1, ExceptSeq
      <4>4. SubSeq(files[f], 1, i - 1) \in Seq(TracedAtom)
        BY <4>1, PrefixIsSeq
      <4> QED BY <1>1, <4>2, <4>3, <4>4
    <3>2. \A g \in File \ {f} : files'[g] = files[g]
      BY <1>2, <1>7 DEF Rot, TypeOK
    <3> QED BY <3>1, <3>2
  <2> QED BY <1>2, <1>3, <1>7, <2>1 DEF Rot, TypeOK, Settled
<1> QED BY <1>4, <1>5, <1>6, <1>7 DEF Next

LEMMA JobStays == [Next]_vars => job' = job
<1> SUFFICES ASSUME [Next]_vars PROVE job' = job
  OBVIOUS
<1>1. ASSUME NEW p \in Proc, Step(p) PROVE job' = job
  BY <1>1 DEF Step, OpenInput, ReadChunk, SealInput, Refuse, OpenSealed, OpenLegacy,
              OpenOutput, WriteChunk, CloseOutput
<1>2. ASSUME NEW p \in Proc, Kill(p) PROVE job' = job
  BY <1>2 DEF Kill
<1>3. ASSUME NEW f \in File, Rot(f) PROVE job' = job
  BY <1>3 DEF Rot
<1> QED BY <1>1, <1>2, <1>3 DEF Next, vars

(***************************************************************************)
(* A buffer comes into being in one of three actions, of its own process.  *)
(***************************************************************************)
LEMMA OnlyThreeFill ==
    ASSUME IInv, [Next]_vars, NEW p \in Proc, outb'[p] # outb[p]
    PROVE  \/ SealInput(p) /\ outb' = [outb EXCEPT ![p] = SealedFile(p)]
           \/ OpenSealed(p) \/ OpenLegacy(p)
<1>1. \E q \in Proc : SealInput(q) \/ OpenSealed(q) \/ OpenLegacy(q)
  <2>1. ASSUME NEW q \in Proc, Step(q) PROVE SealInput(q) \/ OpenSealed(q) \/ OpenLegacy(q)
    BY <2>1 DEF Step, OpenInput, ReadChunk, Refuse, OpenOutput, WriteChunk, CloseOutput
  <2>2. ASSUME NEW q \in Proc, Kill(q) PROVE FALSE
    BY <2>2 DEF Kill
  <2>3. ASSUME NEW f \in File, Rot(f) PROVE FALSE
    BY <2>3 DEF Rot
  <2> QED BY <2>1, <2>2, <2>3 DEF Next, vars
<1>2. PICK q \in Proc : SealInput(q) \/ OpenSealed(q) \/ OpenLegacy(q)
  BY <1>1
<1>3. q = p
  BY <1>2 DEF SealInput, OpenSealed, OpenLegacy, IInv, TypeOK
<1> QED BY <1>2, <1>3 DEF SealInput

LEMMA OneAtATime ==
    ASSUME IInv, [Next]_vars, NEW p \in Proc, outb'[p] # outb[p], NEW q \in Proc \ {p}
    PROVE  outb'[q] = outb[q]
BY OnlyThreeFill DEF SealInput, OpenSealed, OpenLegacy, IInv, TypeOK

(***************************************************************************)
(* What is newly opened is authentic, what was opened or sealed is settled.*)
(***************************************************************************)
LEMMA AuthenticNext == IInv /\ [Next]_vars => Authentic'
<1> SUFFICES ASSUME IInv, [Next]_vars, NEW p \in Proc, Opened(p)'
             PROVE  \E q \in Proc : /\ Sealed(q)' /\ job'[q].pass = job'[p].pass
                                    /\ job'[q].flag = data'[p][2].flag /\ outb'[p] = data'[q]
  BY DEF Authentic
<1>1. ASSUME NEW q \in Proc, Sealed(q)
      PROVE  Sealed(q)' /\ job'[q] = job[q] /\ data'[q] = data[q]
  BY <1>1, SealedStays DEF Sealed
<1>2. CASE outb[p] # Absent
  <2>1. Opened(p) /\ outb'[p] = outb[p] /\ data'[p] = data[p] /\ job' = job
    BY <1>2, SealedStays DEF Opened
  <2>2. PICK q \in Proc : /\ Sealed(q) /\ job[q].pass = job[p].pass
                         /\ job[q].flag = data[p][2].flag /\ outb[p] = data[q]
    BY <2>1 DEF IInv, Authentic
  <2> QED BY <1>1, <2>1, <2>2
<1>3. CASE outb[p] = Absent
  <2>1. outb'[p] # outb[p]
    BY <1>3 DEF Opened
  <2>2. OpenSealed(p)
    BY <1>3, <2>1, OnlyThreeFill DEF Opened, SealInput, OpenLegacy
  <2>3. PICK q \in Proc : /\ Sealed(q) /\ job[q].pass = job[p].pass
                         /\ job[q].flag = data[p][2].flag /\ Opening(data[p]) = data[q]
    BY <2>2, OpeningIsSealed DEF OpenSealed
  <2>4. outb'[p] = Opening(data[p]) /\ data' = data /\ job' = job
    BY <2>2 DEF OpenSealed, IInv, TypeOK
  <2> QED BY <1>1, <2>3, <2>4
<1> QED BY <1>2, <1>3

LEMMA IInvNext == IInv /\ [Next]_vars => IInv'
BY TypeNext, TracedNext, SettledNext, AuthenticNext DEF IInv

THEOREM Inductive == Spec => []IInv
BY InitIInv, IInvNext, PTL DEF Spec

(***************************************************************************)
(* Every reachable state of the command is well typed, whatever it is      *)
(* asked to do and in whatever order processes and damage take their turn. *)
(***************************************************************************)
THEOREM TypeCorrect == Spec => []TypeOK
<1>1. IInv => TypeOK
  BY DEF IInv
<1> QED BY Inductive, <1>1, PTL

(***************************************************************************)
(* What a version-2 decryption puts out was sealed, whole, under the same  *)
(* passphrase and the key size its header names (do_decrypt_v2, main.c).   *)
(***************************************************************************)
THEOREM OpenedWasSealed == Spec => []Authentic
<1>1. IInv => Authentic
  BY DEF IInv
<1> QED BY Inductive, <1>1, PTL

-----------------------------------------------------------------------------
(***************************************************************************)
(* Every step of the command is a step of the vault or changes nothing     *)
(* there.                                                                  *)
(***************************************************************************)
LEMMA VaultInit == Init => V!Init
BY DEF Init, V!Init, Sealed, Opened

LEMMA VaultNext == IInv /\ [Next]_vars => [V!Next]_(V!vars)
<1> SUFFICES ASSUME IInv, [Next]_vars PROVE [V!Next]_(V!vars)
  OBVIOUS
<1> DEFINE sealed == [p \in Proc |-> IF Sealed(p) THEN data[p] ELSE Absent]
           opened == [p \in Proc |-> IF Opened(p) THEN outb[p] ELSE Absent]
<1>1. job' = job
  BY JobStays
<1>2. ASSUME NEW q \in Proc, outb'[q] = outb[q]
      PROVE  sealed'[q] = sealed[q] /\ opened'[q] = opened[q]
  <2>1. CASE outb[q] = Absent
    BY <1>2, <2>1 DEF Sealed, Opened
  <2>2. CASE outb[q] # Absent
    BY <1>2, <2>2, SealedStays DEF Sealed, Opened
  <2> QED BY <2>1, <2>2
<1>3. CASE \A q \in Proc : outb'[q] = outb[q]
  BY <1>1, <1>2, <1>3 DEF V!vars
<1>4. ASSUME NEW p \in Proc, outb'[p] # outb[p] PROVE [V!Next]_(V!vars)
  <2>1. outb[p] = Absent /\ \A q \in Proc \ {p} : outb'[q] = outb[q]
    BY <1>4, SealedStays, OneAtATime
  <2>2. V!Idle(p)
    BY <2>1 DEF V!Idle, Sealed, Opened
  <2>3. \A q \in Proc \ {p} : sealed'[q] = sealed[q] /\ opened'[q] = opened[q]
    BY <1>2, <2>1
  <2>4. CASE SealInput(p)
    <3>1. data'[p] # Absent /\ outb'[p] # Absent
      BY <1>4, <2>1, <2>4, TypeNext, JobsAssumption DEF SealInput, TypeOK
    <3>2. sealed'[p] = data'[p] /\ opened'[p] = Absent /\ opened[p] = Absent
      BY <1>1, <2>1, <2>4, <3>1 DEF SealInput, Sealed, Opened
    <3>3. V!Seal(p)
      BY <1>1, <2>2, <2>3, <3>1, <3>2 DEF V!Seal
    <3> QED BY <3>3 DEF V!Next
  <2>5. CASE OpenSealed(p)
    <3>1. PICK q \in Proc : /\ Sealed(q) /\ job[q].pass = job[p].pass
                            /\ Opening(data[p]) = data[q]
      BY <2>5, OpeningIsSealed DEF OpenSealed
    <3>2. data[q] # Absent
      BY JobsAssumption DEF IInv, TypeOK
    <3>3. outb'[p] = data[q] /\ Opened(p)'
      BY <1>1, <2>5, <3>1, <3>2 DEF OpenSealed, IInv, TypeOK, Opened
    <3>4. sealed'[p] = Absent /\ sealed[p] = Absent /\ opened'[p] = data[q]
      BY <1>1, <2>1, <2>5, <3>3 DEF OpenSealed, Sealed
    <3>5. sealed[q] = data[q]
      BY <3>1
    <3>6. sealed' = sealed
      BY <2>3, <3>4
    <3>7. opened' = [opened EXCEPT ![p] = sealed[q]]
      BY <2>3, <3>4, <3>5
    <3>8. V!Open(p)
      BY <1>1, <2>2, <3>1, <3>2, <3>5, <3>6, <3>7 DEF V!Open
    <3> QED BY <3>8 DEF V!Next
  <2>6. CASE OpenLegacy(p)
    <3>1. /\ sealed'[p] = Absent /\ sealed[p] = Absent
          /\ opened'[p] = Absent /\ opened[p] = Absent
      BY <1>1, <2>1, <2>6 DEF OpenLegacy, Sealed, Opened
    <3> QED BY <1>1, <2>3, <3>1 DEF V!vars
  <2> QED BY <1>4, <2>4, <2>5, <2>6, OnlyThreeFill
<1> QED BY <1>3, <1>4

(***************************************************************************)
(* The command implements the vault.                                       *)
(***************************************************************************)
THEOREM ImplementsVault == Spec => VaultSpec
<1>1. Spec => V!Spec
  BY VaultInit, VaultNext, Inductive, PTL DEF Spec, V!Spec
<1> QED BY <1>1 DEF VaultSpec

-----------------------------------------------------------------------------
(***************************************************************************)
(* What a process does changes its own variables, and its own output file. *)
(***************************************************************************)
LEMMA OthersLeaveAlone ==
    ASSUME IInv, NEW q \in Proc, Step(q) \/ Kill(q), NEW p \in Proc \ {q}
    PROVE  /\ pc'[p] = pc[p] /\ result'[p] = result[p] /\ size'[p] = size[p]
           /\ data'[p] = data[p] /\ outb'[p] = outb[p] /\ pos'[p] = pos[p]
           /\ (p \in lost' <=> p \in lost)
           /\ job[p].out # job[q].out => files'[job[p].out] = files[job[p].out]
<1> USE DEF Exit, Goto
<1>0. TypeOK /\ job[p].out \in File /\ job[q].out \in File
  BY JobsAssumption DEF IInv, TypeOK
<1>1. CASE OpenInput(q)
  BY <1>0, <1>1 DEF OpenInput, TypeOK
<1>2. CASE ReadChunk(q)
  BY <1>0, <1>2 DEF ReadChunk, TypeOK
<1>3. CASE SealInput(q)
  BY <1>0, <1>3 DEF SealInput, TypeOK
<1>4. CASE Refuse(q)
  <2>1. \E r : Exit(q, r)
    BY <1>4 DEF Refuse
  <2> QED BY <1>0, <1>4, <2>1 DEF Refuse, TypeOK
<1>5. CASE OpenSealed(q)
  BY <1>0, <1>5 DEF OpenSealed, TypeOK
<1>6. CASE OpenLegacy(q)
  BY <1>0, <1>6 DEF OpenLegacy, TypeOK
<1>7. CASE OpenOutput(q)
  BY <1>0, <1>7 DEF OpenOutput, TypeOK
<1>8. CASE WriteChunk(q)
  BY <1>0, <1>8 DEF WriteChunk, StoreChunk, TypeOK
<1>9. CASE CloseOutput(q)
  BY <1>0, <1>9 DEF CloseOutput, StoreChunk, TypeOK
<1>10. CASE Kill(q)
  BY <1>0, <1>10 DEF Kill, TypeOK
<1> QED BY <1>1, <1>2, <1>3, <1>4, <1>5, <1>6, <1>7, <1>8, <1>9, <1>10 DEF Step

(***************************************************************************)
(* A file changes only by damage or by a process that is writing it or     *)
(* about to: no refusal touches what stands at the output path             *)
(* (do_decrypt_v1 and do_decrypt_v2, main.c).                              *)
(***************************************************************************)
LEMMA ChangeHasAuthor ==
    ASSUME IInv, [Next]_vars, NEW f \in File, files'[f] # files[f]
    PROVE  \/ rots' > rots
           \/ \E p \in Proc : job[p].out = f /\ outb[p] # Absent /\ pc[p] # "done"
<1>1. files \in [File -> Seq(Atom) \cup {Absent}] /\ rots \in Nat
  BY DEF IInv, TypeOK
<1>2. ASSUME NEW p \in Proc, Step(p)
      PROVE  job[p].out = f /\ outb[p] # Absent /\ pc[p] # "done"
  <2>1. OpenOutput(p) \/ WriteChunk(p) \/ CloseOutput(p)
    BY <1>2 DEF Step, OpenInput, ReadChunk, SealInput, Refuse, OpenSealed, OpenLegacy
  <2>2. pc[p] \in {"open", "write", "close"}
    BY <2>1 DEF OpenOutput, WriteChunk, CloseOutput
  <2>3. \E s : files' = [files EXCEPT ![job[p].out] = s]
    BY <2>1 DEF OpenOutput, WriteChunk, CloseOutput, StoreChunk
  <2>4. job[p].out = f
    BY <1>1, <2>3
  <2> QED BY <2>2, <2>4 DEF IInv, Settled
<1>3. ASSUME NEW p \in Proc, Kill(p) PROVE FALSE
  BY <1>3 DEF Kill
<1>4. ASSUME NEW g \in File, Rot(g) PROVE rots' > rots
  BY <1>1, <1>4 DEF Rot
<1> QED BY <1>2, <1>3, <1>4 DEF Next, vars

THEOREM RefusalTouchesNothing == Spec => RefusalLeavesFiles
<1>1. IInv /\ [Next]_vars =>
        [\A f \in File : files'[f] # files[f] =>
            \/ rots' > rots
            \/ \E p \in Proc : job[p].out = f /\ outb[p] # Absent /\ pc[p] # "done"]_vars
  BY ChangeHasAuthor
<1> QED BY Inductive, <1>1, PTL DEF Spec, RefusalLeavesFiles

-----------------------------------------------------------------------------
(***************************************************************************)
(* A refusal is final, and it is not of a file that was sealed under the   *)
(* passphrase.                                                             *)
(***************************************************************************)
RefusalInv ==
    /\ \A p \in Proc : pc[p] # "done" => result[p] = "none"
    /\ NoFalseRefusal

(***************************************************************************)
(* Who holds a sealed file holds the tag of a sealing that is finished:    *)
(* nobody can have the file before its process has made it.                *)
(***************************************************************************)
LEMMA SealedFileParts ==
    ASSUME IInv, NEW p \in Proc, NEW q \in Proc, job[q].mode = "encrypt",
           data[p] = SealedFile(q)
    PROVE  /\ Version(data[p]) = 2 /\ ~TooShort(data[p])
           /\ data[p][2] = Fields(job[q].flag, q, TagFor(q))
           /\ Ciphertext(data[p]) = Sealing(q)
           /\ Sealed(q)
<1> DEFINE head == <<Sig(2), Fields(job[q].flag, q, TagFor(q))>>
<1>1. Sealing(q) \in Seq(BodyAtom) /\ Fields(job[q].flag, q, TagFor(q)) \in FieldsAtom
  BY SealingIsSeq
<1>2. head \in Seq(Atom) /\ Sealing(q) \in Seq(Atom) /\ Len(head) = 2
  <2>1. Sig(2) \in Atom /\ Fields(job[q].flag, q, TagFor(q)) \in Atom
    BY <1>1 DEF Atom, PlainAtom, Sig
  <2>2. Sealing(q) \in Seq(Atom)
    BY <1>1, SeqMonotonic DEF Atom
  <2>3. ASSUME NEW a \in Atom, NEW b \in Atom
        PROVE  <<a, b>> \in Seq(Atom) /\ Len(<<a, b>>) = 2
    OBVIOUS
  <2> QED BY <2>1, <2>2, <2>3
<1>3. /\ Len(data[p]) = 2 + Len(Sealing(q)) /\ Len(Sealing(q)) \in Nat
      /\ data[p][1] = Sig(2) /\ data[p][2] = Fields(job[q].flag, q, TagFor(q))
      /\ \A k \in 1..Len(Sealing(q)) : data[p][k + 2] = Sealing(q)[k]
  <2>1. data[p] = head \o Sealing(q)
    BY DEF SealedFile
  <2>2. Len(Sealing(q)) \in Nat /\ head[1] = Sig(2)
        /\ head[2] = Fields(job[q].flag, q, TagFor(q))
    BY <1>2, LenProperties
  <2> HIDE DEF head
  <2>3. /\ Len(data[p]) = Len(head) + Len(Sealing(q))
        /\ \A i \in 1..(Len(head) + Len(Sealing(q))) :
              data[p][i] = IF i <= Len(head) THEN head[i] ELSE Sealing(q)[i - Len(head)]
    BY <1>2, <2>1, ConcatParts, Zenon
  <2>4. Len(head) = 2
    BY <1>2
  <2>5. /\ Len(data[p]) = 2 + Len(Sealing(q))
        /\ data[p][1] = head[1] /\ data[p][2] = head[2]
    BY <2>2, <2>3, <2>4
  <2>6. ASSUME NEW k \in 1..Len(Sealing(q)) PROVE data[p][k + 2] = Sealing(q)[k]
    <3>1. k + 2 \in 1..(2 + Len(Sealing(q))) /\ ~(k + 2 <= 2) /\ (k + 2) - 2 = k
      BY <2>2
    <3> QED BY <2>3, <2>4, <3>1
  <2> QED BY <2>2, <2>5, <2>6
<1>4. Version(data[p]) = 2 /\ ~TooShort(data[p])
  BY <1>3 DEF Version, TooShort, Sig
<1>5. Ciphertext(data[p]) = Sealing(q)
  <2>1. Len(data[p]) - 2 = Len(Sealing(q))
    BY <1>3
  <2>2. Ciphertext(data[p]) = [k \in 1..Len(Sealing(q)) |-> Sealing(q)[k]]
    BY <1>3, <2>1 DEF Ciphertext
  <2>3. Sealing(q) = [k \in 1..Len(Sealing(q)) |-> Sealing(q)[k]]
    BY <1>1, LenProperties
  <2> QED BY <2>2, <2>3
<1>6. Sealed(q)
  <2>1. data[p][2] \in TracedAtom
    <3>1. data[p] \in Seq(TracedAtom)
      BY DEF IInv, TracedInv
    <3>2. 2 \in 1..Len(data[p])
      BY <1>3
    <3> QED BY <3>1, <3>2, ElementOfSeq
  <2>2. TagFrom(TagFor(q))
    BY <1>3, <2>1 DEF TracedAtom, PlainAtom, BodyAtom, Junk, Fields
  <2>3. PICK o \in Proc : Sealed(o) /\ TagFor(q) = TagFor(o)
    BY <2>2 DEF TagFrom, TagFor, TagOf, BadTag
  <2>4. o = q
    BY <2>3 DEF TagFor, TagOf
  <2> QED BY <2>3, <2>4
<1> QED BY <1>3, <1>4, <1>5, <1>6

(***************************************************************************)
(* A process that is done does nothing more.                               *)
(***************************************************************************)
LEMMA DoneStays ==
    ASSUME IInv, [Next]_vars, NEW p \in Proc, pc[p] = "done"
    PROVE  /\ pc'[p] = "done" /\ result'[p] = result[p]
           /\ data'[p] = data[p] /\ outb'[p] = outb[p]
<1>1. ASSUME NEW q \in Proc, Step(q) \/ Kill(q)
      PROVE  /\ pc'[p] = "done" /\ result'[p] = result[p]
             /\ data'[p] = data[p] /\ outb'[p] = outb[p]
  <2>1. pc[q] # "done"
    BY <1>1 DEF Step, OpenInput, ReadChunk, SealInput, Refuse, OpenSealed, OpenLegacy,
                OpenOutput, WriteChunk, CloseOutput, Kill, InMemory
  <2> QED BY <1>1, <2>1, OthersLeaveAlone
<1>2. ASSUME NEW f \in File, Rot(f)
      PROVE  /\ pc'[p] = "done" /\ result'[p] = result[p]
             /\ data'[p] = data[p] /\ outb'[p] = outb[p]
  BY <1>2 DEF Rot
<1> QED BY <1>1, <1>2 DEF Next, vars

LEMMA RefusalInit == Init => RefusalInv
BY DEF Init, RefusalInv, NoFalseRefusal, Refused, Refusals

LEMMA RefusalNext == IInv /\ RefusalInv /\ [Next]_vars => RefusalInv'
<1> SUFFICES ASSUME IInv, RefusalInv, [Next]_vars PROVE RefusalInv'
  OBVIOUS
<1>0. TypeOK
  BY DEF IInv
<1>1. ASSUME NEW p \in Proc, pc'[p] # "done" PROVE result'[p] = "none"
  <2>1. pc[p] # "done" /\ result[p] = "none"
    BY <1>1, DoneStays DEF RefusalInv
  <2>2. ASSUME NEW q \in Proc, Step(q) \/ Kill(q) PROVE result'[p] = result[p]
    <3>1. CASE q # p
      BY <2>2, <3>1, OthersLeaveAlone
    <3>2. ASSUME q = p, NEW r, Exit(p, r) PROVE FALSE
      BY <1>0, <1>1, <3>2 DEF Exit, TypeOK
    <3>3. CASE q = p /\ \A r : ~Exit(p, r)
      BY <2>2, <3>3 DEF Step, OpenInput, ReadChunk, SealInput, Refuse, OpenSealed, OpenLegacy,
                  OpenOutput, WriteChunk, CloseOutput, StoreChunk, Kill, Goto
    <3> QED BY <3>1, <3>2, <3>3
  <2>3. ASSUME NEW f \in File, Rot(f) PROVE result'[p] = result[p]
    BY <2>3 DEF Rot
  <2> QED BY <2>1, <2>2, <2>3 DEF Next, vars
<1>2. ASSUME NEW p \in Proc, NEW q \in Proc, Refused(p)', Sealed(q)',
             job'[q].pass = job'[p].pass, data'[p] = SealedFile(q)'
      PROVE  FALSE
  <2>0. job' = job
    BY JobStays
  <2>1. CASE outb[q] = Absent
    <3>1. SealInput(q) /\ Goto(q, "open")
      <4>1. outb'[q] # outb[q] /\ job[q].mode = "encrypt"
        BY <1>2, <2>0, <2>1 DEF Sealed
      <4>2. SealInput(q) /\ outb' = [outb EXCEPT ![q] = SealedFile(q)]
        BY <4>1, OnlyThreeFill DEF OpenSealed, OpenLegacy
      <4> QED BY <4>1, <4>2 DEF SealInput
    <3>2. data' = data
      BY <3>1 DEF SealInput
    <3>3. data[p] = SealedFile(q) /\ job[q].mode = "encrypt"
      BY <1>2, <2>0, <3>1, <3>2 DEF SealInput, SealedFile, TagFor, Sealing
    <3>4. Sealed(q)
      BY <3>3, SealedFileParts
    <3> QED BY <2>1, <3>4 DEF Sealed
  <2>2. CASE outb[q] # Absent
    <3>1. Sealed(q) /\ data'[q] = data[q]
      BY <1>2, <2>0, <2>2, SealedStays DEF Sealed
    <3>2. SealedFile(q)' = SealedFile(q)
      BY <2>0, <3>1 DEF SealedFile, TagFor, Sealing
    <3>3. CASE Refused(p)
      <4>1. data'[p] = data[p]
        <5>1. pc[p] = "done"
          BY <3>3 DEF RefusalInv, Refused, Refusals
        <5> QED BY <5>1, DoneStays
      <4> QED BY <1>2, <2>0, <3>1, <3>2, <3>3, <4>1 DEF RefusalInv, NoFalseRefusal
    <3>4. CASE ~Refused(p)
      <4>1. Refuse(p)
        <5>1. result'[p] # result[p]
          BY <1>2, <3>4 DEF Refused
        <5>2. result'[p] \in Refusals
          BY <1>2 DEF Refused
        <5>3. Step(p) \/ Kill(p)
          <6>1. ASSUME NEW f \in File, Rot(f) PROVE FALSE
            BY <5>1, <6>1 DEF Rot
          <6> QED BY <5>1, <6>1, OthersLeaveAlone DEF Next, vars
        <5> QED BY <1>0, <5>1, <5>2, <5>3
                DEF Step, OpenInput, ReadChunk, SealInput, OpenSealed, OpenLegacy, OpenOutput,
                    WriteChunk, CloseOutput, StoreChunk, Kill, Exit, Goto, Refusals, TypeOK
      <4>2. data[p] = SealedFile(q) /\ job[q].mode = "encrypt"
        BY <1>2, <3>1, <3>2, <4>1 DEF Refuse, Sealed
      <4>3. /\ Version(data[p]) = 2 /\ ~TooShort(data[p])
            /\ data[p][2] = Fields(job[q].flag, q, TagFor(q))
            /\ Ciphertext(data[p]) = Sealing(q)
        BY <4>2, SealedFileParts
      <4>4. TagMatches(data[p], job[p].pass)
        BY <1>2, <2>0, <4>3 DEF TagMatches, Fields, TagFor
      <4>5. Exit(p, "no_resource")
        BY <4>1, <4>3, <4>4 DEF Refuse
      <4> QED BY <1>0, <1>2, <4>5 DEF Exit, TypeOK, Refused, Refusals
    <3> QED BY <3>3, <3>4
  <2> QED BY <2>1, <2>2
<1> QED BY <1>1, <1>2 DEF RefusalInv, NoFalseRefusal

(***************************************************************************)
(* Whoever holds the whole of a file sealed under its passphrase does not  *)
(* refuse it, be the text empty and the machine as busy as it may          *)
(* (do_encrypt and do_decrypt, main.c).                                    *)
(***************************************************************************)
THEOREM SealedIsNotRefused == Spec => []NoFalseRefusal
<1>1. RefusalInv => NoFalseRefusal
  BY DEF RefusalInv
<1> QED BY Inductive, RefusalInit, RefusalNext, <1>1, PTL DEF Spec

-----------------------------------------------------------------------------
(***************************************************************************)
(* The beginning of a sequence, of length n.                               *)
(***************************************************************************)
Prefix(s, t, n) == Len(s) = n /\ n <= Len(t) /\ \A i \in 1..n : s[i] = t[i]

LEMMA WholePrefix ==
    ASSUME NEW S, NEW s \in Seq(S), NEW t \in Seq(S), Prefix(s, t, Len(t))
    PROVE  s = t
BY SeqEqual DEF Prefix

LEMMA EmptyPrefix ==
    ASSUME NEW S, NEW t \in Seq(S)
    PROVE  Prefix(<<>>, t, 0)
BY LenProperties DEF Prefix

LEMMA AppendPrefix ==
    ASSUME NEW S, NEW s \in Seq(S), NEW t \in Seq(S), Prefix(s, t, Len(s)), Len(s) + 1 <= Len(t)
    PROVE  Prefix(Append(s, t[Len(s) + 1]), t, Len(s) + 1)
<1>1. Len(s) \in Nat /\ Len(t) \in Nat /\ t[Len(s) + 1] \in S
  BY LenProperties, ElementOfSeq
<1>2. /\ Len(Append(s, t[Len(s) + 1])) = Len(s) + 1
      /\ \A i \in 1..Len(s) : Append(s, t[Len(s) + 1])[i] = s[i]
      /\ Append(s, t[Len(s) + 1])[Len(s) + 1] = t[Len(s) + 1]
  BY <1>1, AppendProperties
<1> QED BY <1>1, <1>2 DEF Prefix

LEMMA PutPrefix ==
    ASSUME NEW S, Junk \in S, NEW s \in Seq(S), NEW t \in Seq(S), NEW n \in Nat,
           Prefix(s, t, n), n < Len(t)
    PROVE  Prefix(Put(s, n + 1, t[n + 1]), t, n + 1)
<1> DEFINE u == Put(s, n + 1, t[n + 1])
<1>1. Len(s) = n /\ Len(t) \in Nat /\ n + 1 \in 1..Len(t)
  BY LenProperties DEF Prefix
<1>2. u = [i \in 1..(n + 1) |-> IF i = n + 1 THEN t[n + 1] ELSE IF i <= n THEN s[i] ELSE Junk]
  BY <1>1 DEF Put
<1>3. Len(u) = n + 1
  <2>1. u \in Seq(S)
    <3>1. t[n + 1] \in S
      BY <1>1, ElementOfSeq
    <3>2. n + 1 \in Nat \ {0}
      OBVIOUS
    <3> QED BY <3>1, <3>2, PutIsSeq
  <2>2. DOMAIN u = 1..Len(u) /\ Len(u) \in Nat
    BY <2>1, LenProperties
  <2>3. DOMAIN u = 1..(n + 1)
    BY <1>2
  <2>4. ASSUME NEW k \in Nat, NEW m \in Nat, 1..k = 1..m PROVE k = m
    <3>1. k < m => m \in 1..m /\ m \notin 1..k
      OBVIOUS
    <3>2. m < k => k \in 1..k /\ k \notin 1..m
      OBVIOUS
    <3> QED BY <2>4, <3>1, <3>2
  <2> HIDE DEF u
  <2> QED BY <2>2, <2>3, <2>4, n + 1 \in Nat
<1>4. \A i \in 1..(n + 1) : u[i] = t[i]
  BY <1>1, <1>2 DEF Prefix
<1> QED BY <1>1, <1>3, <1>4 DEF Prefix

(***************************************************************************)
(* Where a process stands with its output, as long as nobody else writes   *)
(* that file and nothing decays: it is as it was before the process opens  *)
(* it, then the beginning of its buffer, and the whole of it at the end.   *)
(* An input that is the output as well is what has been read, to the end   *)
(* of the sealing.                                                         *)
(***************************************************************************)
Alone(p) == SoleWriter(p) /\ rots = 0
InPlace(p) ==
    /\ job[p].mode = "encrypt" /\ job[p].out = job[p].in /\ Files0[job[p].in] # Absent

BufferInv(p) ==
    /\ pc[p] = "start" => data[p] = <<>>
    /\ pc[p] \in {"start", "read", "open"} => pos[p] = 0
    /\ result[p] = "ok" => outb[p] # Absent
    /\ Sealed(p) => outb[p] = SealedFile(p)

OutputInv(p) ==
    /\ pc[p] \in {"start", "read", "open"} => files[job[p].out] = Files0[job[p].out]
    /\ pc[p] \in {"write", "close"} => Prefix(files[job[p].out], outb[p], pos[p])
    /\ pc[p] = "done" /\ result[p] \notin {"ok", "killed", "unwritable"}
          => files[job[p].out] = Files0[job[p].out]
    /\ result[p] = "ok" /\ p \notin lost => files[job[p].out] = outb[p]

InputInv(p) ==
    /\ pc[p] = "read" => /\ size[p] = Len(Files0[job[p].in])
                         /\ Prefix(data[p], Files0[job[p].in], Len(data[p]))
    /\ outb[p] # Absent => data[p] = Files0[job[p].in]

StoreInv ==
    /\ RefusalInv
    /\ \A p \in Proc : /\ BufferInv(p)
                       /\ Alone(p) => OutputInv(p)
                       /\ Alone(p) /\ InPlace(p) => InputInv(p)

LEMMA StoreInit == Init => StoreInv
<1> SUFFICES ASSUME Init PROVE StoreInv
  OBVIOUS
<1>1. \A p \in Proc : pc[p] \in {"start", "done"} /\ outb[p] = Absent /\ result[p] = "none"
  BY DEF Init
<1>2. ASSUME NEW p \in Proc PROVE BufferInv(p) /\ OutputInv(p) /\ InputInv(p)
  BY <1>1 DEF Init, BufferInv, OutputInv, InputInv, Sealed
<1> QED BY <1>2, RefusalInit DEF StoreInv

(***************************************************************************)
(* What the others do, and damage, leave all this alone.                   *)
(***************************************************************************)
LEMMA OthersKeepStore ==
    ASSUME IInv, StoreInv, NEW q \in Proc, Step(q) \/ Kill(q), NEW p \in Proc \ {q}
    PROVE  /\ BufferInv(p)'
           /\ Alone(p)' => OutputInv(p)'
           /\ Alone(p)' /\ InPlace(p)' => InputInv(p)'
<1>1. job' = job /\ rots' = rots
  BY DEF Step, OpenInput, ReadChunk, SealInput, Refuse, OpenSealed, OpenLegacy,
         OpenOutput, WriteChunk, CloseOutput, Kill
<1>2. /\ pc'[p] = pc[p] /\ result'[p] = result[p] /\ size'[p] = size[p]
      /\ data'[p] = data[p] /\ outb'[p] = outb[p] /\ pos'[p] = pos[p]
      /\ (p \in lost' <=> p \in lost)
      /\ job[p].out # job[q].out => files'[job[p].out] = files[job[p].out]
  BY OthersLeaveAlone
<1>3. BufferInv(p)'
  BY <1>1, <1>2 DEF StoreInv, BufferInv, Sealed, SealedFile, TagFor, Sealing
<1>4. ASSUME Alone(p)' PROVE Alone(p) /\ OutputInv(p)'
  <2>1. Alone(p) /\ job[q].out # job[p].out
    BY <1>1, <1>4 DEF Alone, SoleWriter
  <2>2. OutputInv(p) /\ files'[job[p].out] = files[job[p].out]
    BY <1>2, <2>1 DEF StoreInv
  <2> QED BY <1>1, <1>2, <2>1, <2>2 DEF OutputInv
<1>5. ASSUME Alone(p)', InPlace(p)' PROVE InputInv(p)'
  <2>1. InputInv(p)
    BY <1>1, <1>4, <1>5 DEF StoreInv, InPlace
  <2> QED BY <1>1, <1>2, <2>1 DEF InputInv
<1> QED BY <1>3, <1>4, <1>5

LEMMA RotKeepsStore ==
    ASSUME IInv, StoreInv, NEW f \in File, Rot(f), NEW p \in Proc
    PROVE  BufferInv(p)' /\ ~Alone(p)'
<1>1. rots' # 0
  BY DEF Rot, IInv, TypeOK
<1>2. BufferInv(p)
  BY DEF StoreInv
<1>3. UNCHANGED <<job, pc, size, data, outb, pos, result, lost>>
  BY DEF Rot
<1>4. Sealed(p)' = Sealed(p) /\ SealedFile(p)' = SealedFile(p)
  BY <1>3 DEF Sealed, SealedFile, TagFor, Sealing
<1> QED BY <1>1, <1>2, <1>3, <1>4 DEF BufferInv, Alone

(***************************************************************************)
(* Its own steps, up to the moment it has its buffer.                      *)
(***************************************************************************)
StorePart(p) == BufferInv(p) /\ (Alone(p) => OutputInv(p))
                             /\ (Alone(p) /\ InPlace(p) => InputInv(p))

LEMMA ReadingKeepsStore ==
    ASSUME IInv, StoreInv, NEW p \in Proc, OpenInput(p) \/ ReadChunk(p)
    PROVE  StorePart(p)'
<1> USE DEF Exit, Goto
<1>0. TypeOK /\ Settled /\ job[p].in \in File /\ job[p].out \in File
  BY JobsAssumption DEF IInv, TypeOK
<1>1. BufferInv(p) /\ (Alone(p) => OutputInv(p)) /\ (Alone(p) /\ InPlace(p) => InputInv(p))
  BY DEF StoreInv
<1>2. UNCHANGED <<files, job, outb, pos, lost, rots>> /\ pc[p] \in {"start", "read"}
  BY DEF OpenInput, ReadChunk
<1>3. outb[p] = Absent /\ result[p] = "none"
  BY <1>2 DEF StoreInv, RefusalInv, IInv, Settled
<1>4. \/ pc'[p] = "read" /\ result'[p] = "none"
      \/ pc'[p] = "done" /\ result'[p] = "unreadable"
  BY <1>0, <1>3 DEF OpenInput, ReadChunk, TypeOK
<1>5. BufferInv(p)'
  BY <1>1, <1>2, <1>3, <1>4 DEF BufferInv, Sealed
<1>6. Alone(p)' => Alone(p) /\ OutputInv(p)'
  BY <1>1, <1>2, <1>3, <1>4 DEF Alone, SoleWriter, OutputInv
<1>7. ASSUME Alone(p)', InPlace(p)' PROVE InputInv(p)'
  <2>1. Alone(p) /\ InPlace(p) /\ InputInv(p) /\ OutputInv(p)
    BY <1>1, <1>2, <1>7 DEF Alone, SoleWriter, InPlace
  <2> DEFINE t == Files0[job[p].in]
  <2>2. files[job[p].in] = t /\ t \in Seq(Atom) /\ data[p] \in Seq(Atom)
    BY <1>0, <1>2, <2>1 DEF OutputInv, InPlace, TypeOK
  <2>3. CASE OpenInput(p)
    <3>1. pc'[p] = "read" => size'[p] = Len(t) /\ data'[p] = <<>>
      BY <1>0, <1>1, <2>2, <2>3 DEF OpenInput, TypeOK, BufferInv
    <3>2. Prefix(<<>>, t, 0) /\ Len(<<>>) = 0
      BY <2>2, EmptyPrefix
    <3> QED BY <1>2, <1>3, <3>1, <3>2 DEF InputInv
  <2>4. CASE ReadChunk(p)
    <3>1. size[p] = Len(t) /\ Prefix(data[p], t, Len(data[p])) /\ size' = size
      BY <2>1, <2>4 DEF InputInv, ReadChunk
    <3>2. CASE /\ Len(data[p]) + 1 <= Len(t)
               /\ data' = [data EXCEPT ![p] = Append(data[p], t[Len(data[p]) + 1])]
      <4>1. data'[p] = Append(data[p], t[Len(data[p]) + 1])
        BY <1>0, <3>2 DEF TypeOK
      <4>2. Prefix(data'[p], t, Len(data[p]) + 1)
        BY <2>2, <3>1, <3>2, <4>1, AppendPrefix
      <4>3. Prefix(data'[p], t, Len(data'[p]))
        BY <4>2 DEF Prefix
      <4> QED BY <1>2, <1>3, <3>1, <4>3 DEF InputInv
    <3>3. CASE data' = data
      BY <1>2, <1>3, <3>1, <3>3 DEF InputInv
    <3> QED BY <2>2, <2>4, <3>2, <3>3 DEF ReadChunk
  <2> QED BY <2>3, <2>4
<1> QED BY <1>5, <1>6, <1>7 DEF StorePart

LEMMA WorkingKeepsStore ==
    ASSUME IInv, StoreInv, [Next]_vars, NEW p \in Proc,
           SealInput(p) \/ Refuse(p) \/ OpenSealed(p) \/ OpenLegacy(p)
    PROVE  StorePart(p)'
<1>0. TypeOK /\ Settled
  BY DEF IInv
<1>1. BufferInv(p) /\ (Alone(p) => OutputInv(p)) /\ (Alone(p) /\ InPlace(p) => InputInv(p))
  BY DEF StoreInv
<1>2. UNCHANGED <<files, job, size, data, pos, lost, rots>> /\ InMemory(p)
  BY DEF SealInput, Refuse, OpenSealed, OpenLegacy
<1>3. pc[p] = "read" /\ outb[p] = Absent /\ result[p] = "none" /\ Len(data[p]) = size[p]
  BY <1>2 DEF InMemory, StoreInv, RefusalInv, IInv, Settled
<1>4. \/ pc'[p] = "open" /\ result'[p] = "none"
      \/ pc'[p] = "done" /\ result'[p] \notin {"ok", "killed", "unwritable"}
  BY <1>0, <1>3 DEF SealInput, Refuse, OpenSealed, OpenLegacy, Exit, Goto, TypeOK
<1>5. Sealed(p)' => outb'[p] = SealedFile(p)'
  <2>1. SealedFile(p)' = SealedFile(p)
    BY <1>2 DEF SealedFile, TagFor, Sealing
  <2>2. ASSUME Sealed(p)' PROVE SealInput(p) /\ outb'[p] = SealedFile(p)
    <3>1. outb'[p] # outb[p] /\ job[p].mode = "encrypt"
      BY <1>2, <1>3, <2>2 DEF Sealed
    <3>2. SealInput(p) /\ outb' = [outb EXCEPT ![p] = SealedFile(p)]
      BY <3>1, OnlyThreeFill DEF OpenSealed, OpenLegacy
    <3> QED BY <1>0, <3>2 DEF TypeOK
  <2> QED BY <2>1, <2>2
<1>6. BufferInv(p)'
  BY <1>1, <1>2, <1>3, <1>4, <1>5 DEF BufferInv
<1>7. Alone(p)' => Alone(p) /\ OutputInv(p)'
  BY <1>1, <1>2, <1>3, <1>4 DEF Alone, SoleWriter, OutputInv
<1>8. ASSUME Alone(p)', InPlace(p)' PROVE InputInv(p)'
  <2> DEFINE t == Files0[job[p].in]
  <2>1. InputInv(p) /\ InPlace(p)
    BY <1>1, <1>2, <1>7, <1>8 DEF InPlace
  <2>2. t \in Seq(Atom) /\ data[p] \in Seq(Atom)
    <3>1. t \in Seq(PlainAtom)
      BY <1>0, <2>1, JobsAssumption DEF InPlace, TypeOK
    <3> QED BY <1>0, <3>1, SeqMonotonic DEF TypeOK, Atom
  <2>3. data[p] = t
    BY <1>3, <2>1, <2>2, WholePrefix DEF InputInv
  <2> QED BY <1>2, <1>4, <2>3 DEF InputInv
<1> QED BY <1>6, <1>7, <1>8 DEF StorePart

(***************************************************************************)
(* Its own steps after that: a chunk that goes into the file is the next   *)
(* of the buffer.                                                          *)
(***************************************************************************)
LEMMA ChunkExtendsPrefix ==
    ASSUME IInv, NEW p \in Proc, pc[p] \in {"write", "close"}, StoreChunk(p),
           Prefix(files[job[p].out], outb[p], pos[p])
    PROVE  Prefix(files'[job[p].out], outb[p], pos'[p])
<1> DEFINE f == job[p].out
<1>0. TypeOK /\ f \in File
  BY JobsAssumption DEF IInv, TypeOK
<1>1. /\ files[f] \in Seq(TracedAtom) /\ outb[p] \in Seq(TracedAtom) /\ pos[p] \in Nat
      /\ Junk \in TracedAtom
  BY <1>0, JunkIsPlain DEF IInv, TracedInv, Settled, TypeOK
<1>2. files'[f] = Put(files[f], pos[p] + 1, outb[p][pos[p] + 1]) /\ pos'[p] = pos[p] + 1
  BY <1>0 DEF StoreChunk, TypeOK
<1>3. Prefix(Put(files[f], pos[p] + 1, outb[p][pos[p] + 1]), outb[p], pos[p] + 1)
  BY <1>1, PutPrefix DEF StoreChunk
<1> QED BY <1>2, <1>3

LEMMA WritingKeepsStore ==
    ASSUME IInv, StoreInv, NEW p \in Proc,
           OpenOutput(p) \/ WriteChunk(p) \/ CloseOutput(p) \/ Kill(p)
    PROVE  StorePart(p)'
<1> USE DEF Exit, Goto
<1> DEFINE f == job[p].out
<1>0. TypeOK /\ Settled /\ f \in File
  BY JobsAssumption DEF IInv, TypeOK
<1>1. BufferInv(p) /\ (Alone(p) => OutputInv(p)) /\ (Alone(p) /\ InPlace(p) => InputInv(p))
  BY DEF StoreInv
<1>2. UNCHANGED <<job, size, data, outb, rots>> /\ pc[p] # "done" /\ result[p] = "none"
  BY DEF OpenOutput, WriteChunk, CloseOutput, Kill, StoreInv, RefusalInv
<1>3. SealedFile(p)' = SealedFile(p) /\ Sealed(p)' = Sealed(p)
  BY <1>2 DEF SealedFile, TagFor, Sealing, Sealed
<1>4. Alone(p)' = Alone(p) /\ InPlace(p)' = InPlace(p)
  BY <1>2 DEF Alone, SoleWriter, InPlace
<1>5. CASE OpenOutput(p)
  <2>1. outb[p] # Absent /\ pos' = pos /\ pc[p] = "open" /\ pos[p] = 0
    BY <1>0, <1>1, <1>5 DEF OpenOutput, Settled, BufferInv
  <2>2. \/ files'[f] = <<>> /\ pc'[p] = "write" /\ result'[p] = "none"
        \/ pc'[p] = "done" /\ result'[p] = "unwritable"
    BY <1>0, <1>2, <1>5 DEF OpenOutput, TypeOK
  <2>3. Prefix(<<>>, outb[p], 0)
    <3>1. outb[p] \in Seq(Atom)
      BY <1>0, <2>1 DEF TypeOK
    <3> QED BY <3>1, EmptyPrefix
  <2>4. BufferInv(p)'
    BY <1>1, <1>2, <1>3, <2>1, <2>2 DEF BufferInv
  <2>5. OutputInv(p)'
    BY <1>2, <2>1, <2>2, <2>3 DEF OutputInv
  <2>6. InputInv(p) => InputInv(p)'
    BY <1>2, <2>2 DEF InputInv
  <2> QED BY <1>1, <1>4, <2>4, <2>5, <2>6 DEF StorePart
<1>6. CASE WriteChunk(p)
  <2>1. pc[p] = "write" /\ outb[p] # Absent
    BY <1>0, <1>6 DEF WriteChunk, Settled
  <2>2. \/ StoreChunk(p) /\ pc'[p] = "write" /\ result'[p] = "none"
        \/ pc'[p] = "done" /\ result'[p] = "unwritable"
        \/ files' = files /\ pos' = pos /\ pc'[p] = "close" /\ result'[p] = "none"
    BY <1>0, <1>2, <1>6, <2>1 DEF WriteChunk, StoreChunk, TypeOK
  <2>3. BufferInv(p)'
    BY <1>1, <1>2, <1>3, <2>2 DEF BufferInv
  <2>4. OutputInv(p) => OutputInv(p)'
    BY <1>2, <2>1, <2>2, ChunkExtendsPrefix DEF OutputInv
  <2>5. InputInv(p) => InputInv(p)'
    BY <1>2, <2>2 DEF InputInv
  <2> QED BY <1>1, <1>4, <2>3, <2>4, <2>5 DEF StorePart
<1>7. CASE CloseOutput(p)
  <2>1. pc[p] = "close" /\ outb[p] # Absent
    BY <1>0, <1>7 DEF CloseOutput, Settled
  <2>2. \/ StoreChunk(p) /\ pc'[p] = "close" /\ result'[p] = "none"
        \/ pc'[p] = "done" /\ result'[p] = "ok" /\ p \in lost'
        \/ /\ files' = files /\ pos[p] = Len(outb[p])
           /\ pc'[p] = "done" /\ result'[p] = "ok"
    BY <1>0, <1>2, <1>7, <2>1 DEF CloseOutput, StoreChunk, TypeOK
  <2>3. BufferInv(p)'
    BY <1>1, <1>2, <1>3, <2>1, <2>2 DEF BufferInv
  <2>4. OutputInv(p) /\ pos[p] = Len(outb[p]) => files[f] = outb[p]
    <3>1. files[f] \in Seq(Atom) /\ outb[p] \in Seq(Atom)
      BY <1>0, <2>1 DEF Settled, TypeOK
    <3> QED BY <2>1, <3>1, WholePrefix DEF OutputInv
  <2>5. OutputInv(p) => OutputInv(p)'
    BY <1>2, <2>1, <2>2, <2>4, ChunkExtendsPrefix DEF OutputInv
  <2>6. InputInv(p) => InputInv(p)'
    BY <1>2, <2>2 DEF InputInv
  <2> QED BY <1>1, <1>4, <2>3, <2>5, <2>6 DEF StorePart
<1>8. CASE Kill(p)
  <2>1. pc'[p] = "done" /\ result'[p] = "killed" /\ files' = files
    BY <1>0, <1>8 DEF Kill, TypeOK
  <2>2. BufferInv(p)' /\ OutputInv(p)' /\ (InputInv(p) => InputInv(p)')
    BY <1>1, <1>2, <1>3, <2>1 DEF BufferInv, OutputInv, InputInv
  <2> QED BY <1>1, <1>4, <2>2 DEF StorePart
<1> QED BY <1>5, <1>6, <1>7, <1>8

LEMMA StoreNext == IInv /\ StoreInv /\ [Next]_vars => StoreInv'
<1> SUFFICES ASSUME IInv, StoreInv, [Next]_vars PROVE StoreInv'
  OBVIOUS
<1>1. RefusalInv'
  BY RefusalNext DEF StoreInv
<1>2. ASSUME NEW p \in Proc PROVE StorePart(p)'
  <2>1. CASE UNCHANGED vars
    BY <1>2, <2>1 DEF vars, StoreInv, StorePart, BufferInv, OutputInv, InputInv, Alone,
                      SoleWriter, InPlace, Sealed, SealedFile, TagFor, Sealing
  <2>2. ASSUME Step(p) \/ Kill(p) PROVE StorePart(p)'
    BY <1>2, <2>2, ReadingKeepsStore, WorkingKeepsStore, WritingKeepsStore DEF Step
  <2>3. ASSUME NEW q \in Proc \ {p}, Step(q) \/ Kill(q) PROVE StorePart(p)'
    BY <1>2, <2>3, OthersKeepStore DEF StorePart
  <2>4. ASSUME NEW f \in File, Rot(f) PROVE StorePart(p)'
    BY <1>2, <2>4, RotKeepsStore DEF StorePart
  <2> QED BY <2>1, <2>2, <2>3, <2>4 DEF Next
<1> QED BY <1>1, <1>2 DEF StoreInv, StorePart

LEMMA StoreInvariance == Spec => [](IInv /\ StoreInv)
BY Inductive, StoreInit, StoreNext, PTL DEF Spec

(***************************************************************************)
(* "Encrypted" means that the file holds all of the sealed text, unless    *)
(* fclose() lost its end or somebody else writes there                     *)
(* (write_entire_file, main.c).                                            *)
(***************************************************************************)
THEOREM SuccessIsStored == Spec => []StoredIsReadable
<1>1. StoreInv => StoredIsReadable
  BY DEF StoreInv, BufferInv, OutputInv, Alone, StoredIsReadable
<1> QED BY StoreInvariance, <1>1, PTL

(***************************************************************************)
(* Encrypting a file onto itself never leaves a moment without the text:   *)
(* in the file, in memory, or sealed (do_encrypt, main.c).                 *)
(***************************************************************************)
THEOREM TextIsKept == Spec => []InPlaceKeepsText
<1>1. IInv /\ StoreInv => InPlaceKeepsText
  <2> SUFFICES ASSUME IInv, StoreInv, NEW p \in Proc,
                      job[p].mode = "encrypt", job[p].out = job[p].in, SoleWriter(p), rots = 0,
                      Files0[job[p].in] # Absent,
                      result[p] \notin {"killed", "unwritable"}, p \notin lost
               PROVE  \/ files[job[p].in] = Files0[job[p].in]
                      \/ /\ pc[p] \in {"write", "close"} /\ data[p] = Files0[job[p].in]
                         /\ outb[p] = SealedFile(p)
                      \/ files[job[p].in] = SealedFile(p) /\ data[p] = Files0[job[p].in]
    BY DEF InPlaceKeepsText
  <2>1. BufferInv(p) /\ OutputInv(p) /\ InputInv(p)
    BY DEF StoreInv, Alone, InPlace
  <2>2. pc[p] \in {"start", "read", "open", "write", "close", "done"}
    BY DEF IInv, TypeOK
  <2>3. CASE pc[p] \in {"start", "read", "open"}
    BY <2>1, <2>3 DEF OutputInv
  <2>4. CASE pc[p] \in {"write", "close"}
    BY <2>1, <2>4 DEF IInv, Settled, BufferInv, InputInv, Sealed
  <2>5. CASE pc[p] = "done"
    BY <2>1, <2>5 DEF BufferInv, OutputInv, InputInv, Sealed
  <2> QED BY <2>2, <2>3, <2>4, <2>5
<1> QED BY StoreInvariance, <1>1, PTL

-----------------------------------------------------------------------------
(***************************************************************************)
(* What an invocation has still to do: the stages before it, and within a  *)
(* stage the chunks left of what ftell() told it to read or of the buffer  *)
(* it writes.                                                              *)
(***************************************************************************)
Stage == [l \in {"start", "read", "open", "write", "close", "done"} |->
             CASE l = "start" -> 5 [] l = "read"  -> 4 [] l = "open" -> 3
               [] l = "write" -> 2 [] l = "close" -> 1 [] OTHER      -> 0]

ChunksLeft(p) ==
    CASE pc[p] = "read"              -> size[p] - Len(data[p])
      [] pc[p] \in {"write", "close"} -> Len(outb[p]) - pos[p]
      [] OTHER                       -> 0

Nearer(p) ==
    \/ Stage[pc'[p]] < Stage[pc[p]]
    \/ pc'[p] = pc[p] /\ ChunksLeft(p)' < ChunksLeft(p)

BoundInv == \A p \in Proc : ChunksLeft(p) \in Nat /\ BufferInv(p)

(***************************************************************************)
(* The stages, one step after another.                                     *)
(***************************************************************************)
LEMMA ReadingNearsEnd ==
    ASSUME IInv, BoundInv, NEW p \in Proc, OpenInput(p) \/ ReadChunk(p)
    PROVE  Nearer(p) /\ ChunksLeft(p)' \in Nat
<1> USE DEF Exit, Goto
<1>0. TypeOK /\ BufferInv(p) /\ ChunksLeft(p) \in Nat
  BY DEF IInv, BoundInv
<1>1. data[p] \in Seq(Atom) /\ size[p] \in Nat /\ Len(data[p]) \in Nat
  BY <1>0 DEF TypeOK
<1>2. CASE OpenInput(p)
  <2>1. pc[p] = "start" /\ data' = data /\ data[p] = <<>>
    BY <1>0, <1>2 DEF OpenInput, BufferInv
  <2>2. CASE pc'[p] = "done"
    BY <2>1, <2>2 DEF Nearer, Stage, ChunksLeft
  <2>3. CASE pc'[p] # "done"
    <3>1. files[job[p].in] # Absent /\ pc'[p] = "read" /\ size'[p] = Len(files[job[p].in])
      BY <1>0, <1>2, <2>3 DEF OpenInput, TypeOK
    <3>2. files[job[p].in] \in Seq(Atom)
      BY <1>0, <3>1, JobsAssumption DEF TypeOK
    <3>3. size'[p] - Len(data'[p]) \in Nat
      BY <2>1, <3>1, <3>2
    <3> QED BY <2>1, <3>1, <3>3 DEF Nearer, Stage, ChunksLeft
  <2> QED BY <2>2, <2>3
<1>3. CASE ReadChunk(p)
  <2>1. pc[p] = "read" /\ size' = size /\ Len(data[p]) < size[p]
    BY <1>3 DEF ReadChunk
  <2>2. CASE pc'[p] = "done"
    BY <2>1, <2>2 DEF Nearer, Stage, ChunksLeft
  <2>3. CASE pc'[p] # "done"
    <3>1. pc' = pc /\ \E a : data' = [data EXCEPT ![p] = Append(@, a)]
      BY <1>0, <1>3, <2>3 DEF ReadChunk, TypeOK
    <3>2. Len(data'[p]) = Len(data[p]) + 1
      BY <1>0, <1>1, <3>1 DEF TypeOK
    <3>3. size'[p] - Len(data'[p]) \in Nat /\ size'[p] - Len(data'[p]) < size[p] - Len(data[p])
      BY <1>1, <2>1, <3>2
    <3> QED BY <2>1, <3>1, <3>3 DEF Nearer, ChunksLeft
  <2> QED BY <2>2, <2>3
<1> QED BY <1>2, <1>3

LEMMA WorkingNearsEnd ==
    ASSUME IInv, NEW p \in Proc,
           SealInput(p) \/ Refuse(p) \/ OpenSealed(p) \/ OpenLegacy(p) \/ Kill(p)
    PROVE  Nearer(p) /\ ChunksLeft(p)' \in Nat
<1>1. /\ pc[p] \in {"start", "read", "open", "write", "close"}
      /\ pc'[p] # "done" => pc[p] = "read" /\ pc'[p] = "open"
  BY DEF SealInput, Refuse, OpenSealed, OpenLegacy, Kill, InMemory, Exit, Goto, IInv, TypeOK
<1> QED BY <1>1 DEF Nearer, Stage, ChunksLeft

LEMMA WritingNearsEnd ==
    ASSUME IInv, BoundInv, NEW p \in Proc, OpenOutput(p) \/ WriteChunk(p) \/ CloseOutput(p)
    PROVE  Nearer(p) /\ ChunksLeft(p)' \in Nat
<1>0. TypeOK /\ Settled /\ BufferInv(p) /\ ChunksLeft(p) \in Nat
  BY DEF IInv, BoundInv
<1>1. pc[p] \in {"open", "write", "close"} /\ outb' = outb
  BY DEF OpenOutput, WriteChunk, CloseOutput
<1>2. outb[p] \in Seq(Atom) /\ Len(outb[p]) \in Nat /\ pos[p] \in Nat
  BY <1>0, <1>1 DEF TypeOK, Settled
<1>3. CASE pc'[p] = "done"
  BY <1>1, <1>3 DEF Nearer, Stage, ChunksLeft
<1>4. CASE pc[p] = "open" /\ pc'[p] = "write"
  <2>1. pos'[p] = 0
    BY <1>0, <1>4 DEF OpenOutput, WriteChunk, CloseOutput, BufferInv
  <2> QED BY <1>1, <1>2, <1>4, <2>1 DEF Nearer, Stage, ChunksLeft
<1>5. CASE pc[p] = "write" /\ pc'[p] = "close" /\ pos' = pos
  BY <1>0, <1>1, <1>5 DEF Nearer, Stage, ChunksLeft
<1>6. CASE StoreChunk(p) /\ pc[p] \in {"write", "close"}
  <2>1. pos'[p] = pos[p] + 1 /\ pos[p] < Len(outb[p]) /\ pc' = pc
    BY <1>0, <1>6 DEF StoreChunk, TypeOK
  <2>2. Len(outb'[p]) - pos'[p] \in Nat /\ Len(outb'[p]) - pos'[p] < Len(outb[p]) - pos[p]
    BY <1>1, <1>2, <2>1
  <2> QED BY <1>6, <2>1, <2>2 DEF Nearer, ChunksLeft
<1>7. \/ pc'[p] = "done"
      \/ pc[p] = "open" /\ pc'[p] = "write"
      \/ pc[p] = "write" /\ pc'[p] = "close" /\ pos' = pos
      \/ StoreChunk(p) /\ pc[p] \in {"write", "close"}
  BY <1>0 DEF OpenOutput, WriteChunk, CloseOutput, Exit, Goto, TypeOK
<1> QED BY <1>3, <1>4, <1>5, <1>6, <1>7

LEMMA OwnStepNears ==
    ASSUME IInv, BoundInv, NEW p \in Proc, Step(p) \/ Kill(p)
    PROVE  Nearer(p) /\ ChunksLeft(p)' \in Nat
BY ReadingNearsEnd, WorkingNearsEnd, WritingNearsEnd DEF Step

LEMMA OthersDoNotHold ==
    ASSUME IInv, [Next]_vars, NEW p \in Proc, ~(Step(p) \/ Kill(p))
    PROVE  pc'[p] = pc[p] /\ ChunksLeft(p)' = ChunksLeft(p)
<1>1. CASE \E q \in Proc : Step(q) \/ Kill(q)
  <2>1. PICK q \in Proc \ {p} : Step(q) \/ Kill(q)
    BY <1>1
  <2> QED BY <2>1, OthersLeaveAlone DEF ChunksLeft
<1>2. CASE \E f \in File : Rot(f)
  BY <1>2 DEF Rot, ChunksLeft
<1>3. CASE UNCHANGED vars
  BY <1>3 DEF vars, ChunksLeft
<1> QED BY <1>1, <1>2, <1>3 DEF Next

LEMMA BoundInit == Init => BoundInv
<1> SUFFICES ASSUME Init, NEW p \in Proc PROVE ChunksLeft(p) \in Nat /\ BufferInv(p)
  BY DEF BoundInv
<1>1. pc[p] \in {"start", "done"}
  BY DEF Init
<1> QED BY <1>1, StoreInit DEF ChunksLeft, StoreInv

LEMMA BoundNext == IInv /\ StoreInv /\ BoundInv /\ [Next]_vars => BoundInv'
<1> SUFFICES ASSUME IInv, StoreInv, BoundInv, [Next]_vars, NEW p \in Proc
             PROVE  ChunksLeft(p)' \in Nat /\ BufferInv(p)'
  BY DEF BoundInv
<1>1. BufferInv(p)'
  BY StoreNext DEF StoreInv
<1>2. ChunksLeft(p)' \in Nat
  BY OwnStepNears, OthersDoNotHold DEF BoundInv
<1> QED BY <1>1, <1>2

(***************************************************************************)
(* Nobody can keep an invocation from its end by what it does to the       *)
(* files: every step of its own takes it to a later stage or leaves it     *)
(* fewer chunks to read or write, and nothing else sets it back, not even  *)
(* an input that grows while it is read (read_entire_file and              *)
(* write_entire_file, main.c).  Stage and chunks can only decrease so      *)
(* often: an invocation that keeps being scheduled ends.                   *)
(***************************************************************************)
Advances(p) ==
    /\ ChunksLeft(p) \in Nat
    /\ Step(p) \/ Kill(p) => Nearer(p)
    /\ ~(Step(p) \/ Kill(p)) => pc'[p] = pc[p] /\ ChunksLeft(p)' = ChunksLeft(p)

THEOREM StepsRunOut == Spec => [][\A p \in Proc : Advances(p)]_vars
<1>1. IInv /\ BoundInv /\ [Next]_vars => [\A p \in Proc : Advances(p)]_vars
  BY OwnStepNears, OthersDoNotHold DEF BoundInv, Advances
<1>2. Spec => []BoundInv
  <2>1. Spec => [](IInv /\ StoreInv)
    BY StoreInvariance
  <2> QED BY <2>1, BoundInit, BoundNext, PTL DEF Spec
<1> QED BY <1>1, <1>2, Inductive, PTL DEF Spec
=============================================================================
