# Makocrypto: a verification development

TLA+ models of the Makocrypto library and of the `makocrypto` command, the TLC
runs that check them, and the theorems about them that TLAPS checks.  Paths like
`mode_gcm.c:64` are relative to the repository's `src/`.

## 1. The system

Makocrypto is a C11 library and one command.  The library has a 128-bit block
cipher of its own (16 rounds of S-box, row shift, column mixing and round key), a
key schedule for 128- and 256-bit keys, two modes of operation, a key derivation
from passphrases and a source of random bytes; the command encrypts and decrypts
whole files.  No part has threads or callbacks.  What is concurrent is the command:
several invocations share a file system, and any may be killed.  What is hard in the
library is arithmetic at block and counter boundaries, buffers the caller shares
between input and output, orders that must mirror each other, tables typed in by
hand, and what a failure leaves behind.

| Component | State | Operations | Hard behaviour | What makes it correct |
|---|---|---|---|---|
| GF(2^128) multiplication (`gf128.h`) | accumulator, shifted operand | `gf128_mul` | result pointer is an operand's (`mode_gcm.c:64`); carry and reduction across 16 bytes | it is the product of polynomials modulo the field's |
| GCM (`mode_gcm.c`) | counter block, GHASH accumulator, the caller's buffers | `mako_gcm_encrypt`, `mako_gcm_decrypt` | in place; short or absent last block; counter wrap; order of verifying, releasing and wiping | it is the standard's authenticated encryption; round trip, changes in one block are detected, nothing unverified comes out, no keystream twice |
| CBC, the legacy format (`mode_cbc.c`) | chaining block, the caller's buffers | `mako_cbc_encrypt`, `mako_cbc_decrypt`, `mako_cbc_encrypted_size` | in place the ciphertext block is still needed after it was overwritten; padding of aligned texts | CBC and PKCS#7 by their definitions, round trip, canonical encoding, damage stays in two blocks |
| Command and file format (`main.c`, `fileformat.h`) | files; per process what it has read, what it is to write, how far it has come | `do_encrypt`, `do_decrypt` (v1, v2), `read_entire_file`, `write_entire_file` | overlapping invocations, output over input, kills, short writes, damaged files, a format chosen before authentication | only sealed text is opened, whole; no false refusal; success means stored; text is not lost; every run ends |
| Tables (`sbox.h`, `gf256.h`) | constants | - | 256 entries each, by hand | S-box is inverse plus affine map; inverse table inverts it; multiplication tables multiply |
| Key schedule (`keyschedule.c`) | the words made so far | `mako_key_init` | two key sizes with different recurrences; round-constant index | nothing read before written; different keys, different schedules |
| Block cipher (`cipher.c`) | the 4x4 state | `mako_encrypt_block`, `mako_decrypt_block` | inverse layers in exactly mirrored order; two independent row shifts | each undoes the other; one byte spreads to 16 in two rounds |
| Key derivation (`kdf.c`) | chaining state, block counter | `mako_kdf_derive` | cycling a short last chunk; a cut last block | salts separate; collisions only where two inputs are cycled into one |
| Random bytes (`random.c`) | bytes filled so far | `mako_random_bytes`, `mako_generate_iv` | partial results, EINTR, failure half way, short reads | success only for a buffer random throughout; it returns |
| Search for impossible differentials (`impossible_differential_search.c`) | two patterns of bytes that are active, inactive or unknown; loops over rounds, splits and pairs; counts | `main`, the propagation of a pattern | per-loop resets; forward and backward in mirrored order; what "active" promises | it finds what follows from its rules; what it calls impossible is |
| Search for trails (`differential_trail_search.c`) | best trail, the difference and weight on the way | `main`, `search_round` | globals kept between searches; pruning; a choice never taken back | the starts are alike; what it prints bounds what trails there are |
| Integral test (`integral_attack_test.c`) | worst byte and count per number of rounds, the verdict | `main`, `count_balanced_bytes` | reduced rounds, last round without MixColumns, a second measurement on other plaintexts | balanced where it is provable, and the verdict is that of the measurements |
| Other tools, tests (`tools/`, `tests/`) | none between runs | - | - | see section 7 |

How they interact: the command draws salt and nonce (Random), derives a key (Kdf,
which runs the block cipher under keys of 16 bytes), expands it (KeySchedule), and
calls a mode on the whole file in memory; the modes call the block cipher block by
block; GCM multiplies in GF(2^128); the cipher and its schedule read the tables.  The
analysis programs link the library's key schedule and tables, share no state with it or
each other, and make claims about the cipher that can be compared with it.
Everything is a synchronous call; the only state shared between actors is the file
system and, within a call, buffers whose pointers are equal.

## 2. Modules

| Module | Models | Composes with |
|---|---|---|
| `GF2m` | reference: multiplication in GF(2^W) as polynomials | `GF128`, `Tables`, `MCGcm` use it as the definition to compare with |
| `GF128` | `gf128_mul` | its result, `GF2m!Mul`, is what `MCGcm` gives `Gcm` for `GfMul` |
| `Gcm` | the two GCM calls | implements `Aead` (`INSTANCE ... WITH`); `E` and `GfMul` are parameters |
| `Aead` | authenticated encryption, a call in one step | abstract specification of `Gcm` |
| `Cbc` | the two CBC calls | `E` and `D` are parameters; `BlockCipherProofs` proves what is assumed of them |
| `Cli` | the command and its files | implements `Vault` (`INSTANCE ... WITH`) |
| `Vault` | what the command promises, without files and formats | abstract specification of `Cli` |
| `Bytes`, `Tables` | bytes as sets of bits; the tables | given to `BlockCipher` by `MCMako` |
| `Layers` | the layers of a round on the 4x4 state | `BlockCipher` and `TrailSearch` are built from them |
| `KeySchedule` | `mako_key_init` | extended by `BlockCipher` |
| `BlockCipher` | the two block functions | runs on schedules `KeySchedule` has made |
| `Kdf` | `mako_kdf_derive` | - |
| `Random` | `mako_random_bytes`, `mako_generate_iv`, the fallback | - |
| `ImpossibleDifferential` | the search for impossible differentials | - |
| `TrailSearch` | the search for trails, and trails to compare it with | `Layers`; the difference table of the code's S-box |
| `Integral` | the integral test | extends `BlockCipher` |
| `Analysis` | sessions: the cipher and these three programs, one after the other | composes all four, and states what the searches say of the cipher |
| `*Proofs` | theorems of the module of that name; `BlockCipherProofs` has those of `KeySchedule` too, and `AnalysisProofs` those of the three analysis programs | `AnalysisProofs` uses the lemmas of `BlockCipherProofs` |
| `MC*` | instances for TLC | - |

An operator written `...` with a comment `\* Slip:` next to a definition is a plausible
bug of that definition; putting it in the definition's place makes a property fail,
which shows that the property depends on it.  No specification uses a slip.

How state and actions correspond to the code:

- **GF128.** A field element is the set of its 1 bits.  One `Iterate` per turn of the
  loop, reading `x` through its pointer each time; `Return` is the final `memcpy`.  The
  three pointers are names of cells which may be equal.
- **Gcm.** `Call*` is entry up to the argument checks; `CtrBlock` and `CtrDone` are
  `gcm_ctr_xor`; `GhashAad`, `GhashText`, `GhashLen` the three `ghash_update`s of
  `gcm_compute_tag`, a block per step; `Seal` and `Verify` the ends.  `in` and `out` are the
  caller's buffers, equal when `call.alias`, longer or shorter than needed, or `NULL`.
  `used` and `sealed` are history.  The caller encrypts once and then asks for the
  result, or a copy with a byte changed or the end gone, to be decrypted.
- **Aead.** `Seal` makes the message of a nonce, associated data and a text; `Open` answers
  one of the things the message may have become (`Fates`).  `Gcm` gives it the standard's
  `Sealing` and `Opening`, which know nothing of buffers and blocks: `Gctr` has its counter
  block n by a formula (`CounterBlock`), and the tag is a sum of powers of H.  A sealing is
  mapped to the moment `mako_gcm_encrypt()` returns, an answer to that of
  `mako_gcm_decrypt()`, `Refused` standing for no text; every other step, and a call refused
  for its arguments, stutters.
- **Cbc.** As Gcm, but a length is the quotient and remainder the code computes, so a
  text is whole blocks and a rest.  `EncryptedSize` is computed modulo `SizeBlocks`, as a
  `size_t` is; `MemoryAssumption` says that the longest text leaves room for a block.
- **Cli.** Any number of processes, each at `start`, `read`, `open`, `write`, `close` or
  `done`.  A file is a sequence of atoms: a chunk of text, the signature with its version
  byte, the rest of a header, a chunk of ciphertext, or junk.  A tag is the term it was
  computed from.  One `ReadChunk` or `WriteChunk` is one piece of a read or write, so
  processes interleave in the middle of files.  `Kill` strikes anywhere, with what stdio
  holds back; `Rot` damages or cuts a stored file.  Failure of any library call is a
  disjunct of the action that makes it.
- **Vault.** `Seal` any text under a passphrase; `Open` gives a process the whole of a
  text some process sealed under its passphrase.  `Cli` maps a sealing to the moment its
  buffer is complete and an opening likewise; reading, writing, dying and damage stutter.
- **KeySchedule.** `FirstKey`/`SecondKey` load, one `Expand` per word, `Ready`, `Refuse`.
  Two schedules are made so that they can be compared.
- **BlockCipher.** One step per round.  A first call in either direction, then a
  second that takes it back or repeats it on a block with one byte changed; `trace` is
  the history of the first call's states.
- **Kdf.** The loops absorb, stretch and expand, one compression per step.  A compression
  is free: it gives two results alike only for two inputs alike, so what collides in the
  model collides by the construction, whatever the cipher.
- **Random.** `getrandom()` fills any part, is interrupted or fails; `fopen` and `fread` of
  `/dev/urandom` may fail or come short; both builds, with and without `getrandom()`.
- **ImpossibleDifferential.** One action per head of a nested loop (`BeginTotal`,
  `BeginSplit`, `SetStart`, ...) and one per propagated round; `printed` holds the lines.
- **TrailSearch.** One step per call of `search_round`.  The program adds logarithms
  of probabilities; a weight is the negative of such a sum, a whole number.
- **Integral.** One step per `count_balanced_bytes`, which encrypts 256 plaintexts; a second
  measurement of the worst byte and the verdict follow each number of rounds.
- **Analysis.** `Sessions` says which programs run and in what order; `End` goes on to the
  next.  "cipher" is a pair of calls of `BlockCipher`, so what a search has printed can be
  confronted with what the cipher does afterwards.

## 3. Runs

| Run | Shows |
|---|---|
| `gf128` | product for every pair of elements of GF(2^6) and every aliasing of the pointers; what the accumulator is worth in every iteration; that the code's polynomial of degree 128 is irreducible |
| `gcm` | all GCM properties and the refinement of `Aead`, including a message longer than the counter's period |
| `cbc` | all CBC properties |
| `cli_pair` | two invocations of every kind, kills, failures, one damage, and three processes of which two write one file; safety, termination, refinement of `Vault` |
| `cli_close`, `cli_version` | violations, see section 6 |
| `mako` | the code's tables, 16 rounds, ten keys of both sizes: schedules, inversion, retracing, diffusion; the two searches with their default arguments and the integral test to 4 rounds: what they print, against the cipher |
| `impossible_claim`, `trail_bound` | violations, see section 6 |
| `kdf` | two derivations from any two inputs |
| `kdf_legacy` | violation, see section 6 |
| `random` | every sequence of results of the system calls, for lengths 0 to 32, in both builds |

Deadlock checking is off everywhere because every modelled thing really stops: a
call returns, a pair of calls is complete, a process exits, the key derivation
`abort`s when `malloc` fails.

### Bounds, and why they are enough

- `gcm`: bytes of one bit and blocks of six bytes (two of nonce, four of counter as in
  the code), so the field has 64 elements and the counter 16 values.  Texts have
  0, 1, 5, 6, 7, 13 and 97 bytes: none, partial, full, one past, two blocks and one,
  and 17 blocks, which takes the counter round and onto J0.  AAD of 0, 4, 6, 8.  The
  control depends on lengths modulo the block size, on equality of pointers and on
  which byte differs; all are there.  One-bit bytes make false acceptances of changed
  messages common, so detection is claimed for changes that algebra guarantees only.
- `cbc`: blocks of three two-bit bytes; 0 to 7 bytes of text ending in what looks like
  padding of 1, 2 or 3; all 64 ciphertexts of one block and 128 of two as input from
  elsewhere.  Padding of every length, whole blocks of padding and false padding occur.
- `cli_pair`: two text chunks, so that a read or write can be interrupted half way;
  four files, so that in-place, chained and disjoint jobs occur; `MaxRot` = 1.
  It takes a third process to open what two are mixing: `PairsAndRace` adds two sealings
  into one file and an opening of it, without rot.
- `cli_version`: one process seals a file and another opens it under the same passphrase
  (`SealAndOpen`), with one damage; nothing else has to happen for the property to fail.
- `gf128`: at width 6 exhaustive in operands, where every behaviour of the loop occurs; the
  theorems of `GF128Proofs` are about the code's width, and every other.  What they leave
  open, that the code's polynomial makes a field, is a computation: `Irreducible` of
  `MCGF128` is Rabin's test of it.
- `mako`: the algebra does not depend on the key; keys one bit apart in the first and
  last word, and patterned ones, exercise each recurrence.  Changes of all 16 bytes.
  `MaxTotal` = 8 and `MaxRounds` = 4 are the programs' defaults.  The integral test goes to
  `MaxReduced` = 4 of its 6 rounds, sweeps bytes 6 and 11 of 16 with two plaintexts in turn
  under one key: the property holds for up to 3 rounds for every byte and key and is gone
  at 4, and two bytes are enough for a worst one to be remembered.  `OneByOne` runs each
  program alone, as they share no state.
- `impossible_claim`: `MaxTotal` = 4, then the cipher under a key and block for which a
  change of one byte is a change of one byte after four rounds with MixColumns.
- `kdf`: blocks of three bytes over two letters and passphrases up to four: each
  remainder, both sides of a block's end, full period of the cycling; keys of one block,
  two, and one and a cut; `Iterations` = 2 for 100000 (each iteration does the same).

### Fairness

`Cli` assumes weak fairness of each process's `Step`: a process that can run is
scheduled.  Nothing obliges the world to kill or damage.  `Random` assumes weak fairness of
`Work`: signals do not interrupt `getrandom()` for ever; without that the loop at
`random.c:48` need not end.  The other modules state no liveness: they are loops with
counters and their ends are reached by every complete run.

## 4. Properties

Each definition has a comment saying which behaviour of the code it is about.  In brief:

- **gcm**: `RoundTrip`, `OneBlockChangeDetected`, `FailureLeavesNoPlaintext`, `KeystreamFresh`,
  `ReleaseOnlyVerified` (an action property over the moment of the check), and
  `ImplementsAead`, the refinement: ciphertext, tag and answer are the standard's, in place
  too.  `TagIsGhash`, the part of it that is about the tag, is a theorem.
- **cbc**: `CiphertextIsCbc`, `RoundTrip`, `DamageStaysLocal`, `Canonical`.
- **cli**: `Authentic`, `NoFalseRefusal`, `StoredIsReadable`, `InPlaceKeepsText`,
  `RefusalLeavesFiles`, `Terminates`, and `VaultSpec`, the refinement.
- **mako**: `SchedulesDiffer`, `Retraces`, `BlockComesBack`, `OneByteSpreads`; of the tools,
  `SplitDecides` (which splits the search reports, and that it reports all pairs or none),
  `ForecastsHold` (for two rounds the patterns are what the cipher does), `StartsAlike` and
  `WideTrail` (the trail search and the branch number), `Balanced` (the integral property;
  `ThreeRounds` is the half of it that is proved).
- **kdf**: `KeyFilled`, `SaltsSeparate`, `CollideOnlyByFill`.
- **random**: `OkMeansRandom`, `Returns`.
- **gf128**: `TypeOK`, `ComputesProduct`, `PartialProduct` (what the loop has done so far).

`InPlaceKeepsText` states its exceptions openly: a process killed or out of space while it
writes over its own input loses the text, as `fopen(..., "wb")` has emptied it.
`StoredIsReadable` excepts what `fclose()` failed to write; section 6 is about that.
`Authentic` speaks of version 2, of passphrase and key size; what a file taken for version 1
may turn into is the subject of `VersionAuthenticated`.

## 5. Proofs

Eight modules of theorems hold for all values of the constants, that is for any sizes,
any number of processes, any texts:

| Module | Theorems | From |
|---|---|---|
| `GF128Proofs` | `StaysInTheField`, `LoopAddsTerms`, `MultipliesInTheField`, `RingLaws` | the polynomial's powers are below the width |
| `GcmProofs` | `TypeCorrect`, `Inductive`, `FreshKeystream`, `NoPlaintextOnFailure`, `TextComesBack`, `Inc32Value`, `SealedTag`, `NothingUnverified`, `OneBlockNeverPasses`, `ImplementsStandard` | sizes, `E` and `GfMul` give blocks, exclusive or cancels; `OneBlockNeverPasses`, `SealedTag` and `ImplementsStandard` also `FieldAssumption` |
| `CbcProofs` | `TypeCorrect`, `Inductive`, `CbcByTheBook`, `TextComesBack`, `DamageContained`, `CanonicalEncoding` | `D` inverts `E`, exclusive or cancels, memory has an end |
| `CliProofs` | `TypeCorrect`, `Inductive`, `OpenedWasSealed`, `ImplementsVault`, `RefusalTouchesNothing`, `SealedIsNotRefused`, `SuccessIsStored`, `TextIsKept`, `StepsRunOut` | nothing is sealed before the start |
| `BlockCipherProofs` | of the schedule `KeyTypeCorrect`, `DifferentKeysDiffer`; of the cipher `TypeCorrect`, `SchedulesStayApart`, `PathRetraced`, `MutuallyInverse`, `IsPermutation`, `ServesTheModes`, `ComputesThePermutation`, `ChangeSpreads`, `TimesInverse` | types of the tables; facts about single table entries |
| `AnalysisProofs` | `SessionsRunTheParts`, `SplitAlwaysDecides`, `PatternsTellTheTruth`, `StartsAreOne`, `TrailsStayWide`, `AllRoundsAreTheCipher`, `ThreeRoundsBalanced` | the same, the three statuses differ; for trails uniformity 4 and the minors of the matrix |
| `KdfProofs` | `TypeCorrect`, `SaltsApart`, `OnlyFillCollides`, `KeyIsFilled` | sizes; for `KeyIsFilled` also `FewBlocks` |
| `RandomProofs` | `TypeCorrect`, `RandomThroughout`, `WorkRunsOut` | - |

The assumptions are the `ASSUME`s of the modules, and TLC evaluates them in the runs.
`SboxAssumption`, `TableAssumption`, `CoefficientAssumption` and `MatrixAssumption` of
`Layers` speak of single bytes only, and `MCMako` has TLC evaluate them on the code's
tables; `TimesInverse` lifts them to the state by linearity. What `CipherAssumption` says of
`E` and `D` in `Cbc`, and of `E` in `Gcm`, is `ServesTheModes`: for any schedule, the
function that takes a block to what the cipher makes of it and the one that takes it back
satisfy the assumption, whether a block is written as 16 bytes or in any other one-to-one
way; and `ComputesThePermutation` says that these functions are what the two calls return.
`UniformityAssumption` and `MinorAssumption` of `TrailSearch` are evaluated by the same run:
every row of the difference table has entries 0, 2 and 4 and one of 4, and no minor of order
2 of the matrix takes a byte to zero. `FieldAssumption` of `Gcm` says that `GfMul`
distributes, is associative and has no divisors of zero. The first two are `RingLaws` of
gf128_mul(), and the third holds as its polynomial is irreducible; the instance of the run
`gcm` has TLC evaluate all three for its field of 64 elements.

`FewBlocks` is a hypothesis of the theorem and no assumption of the module: it says that no
key is longer than 256 blocks, beyond which the 8-bit counter of `kdf.c:122` comes round and
the key repeats.  The callers ask for 16 or 32 bytes.

Each argument is an inductive invariant:

- **Gcm.** `BufferInv` says which part of the buffers holds bytes in each phase,
  `CounterInv` that the counter bytes spell the number of blocks done, plus two for the next
  one, modulo Radix^4 (`Inc32Value` turns the ripple carry into addition), `FailureInv`
  that the buffer is as the caller left it until the tag is verified.  The properties
  alone say nothing of the middle of a call and are not inductive.  For `TextComesBack`,
  `RoundInv` remembers the hash and the keystream of the encryption as sets of positions
  (offset and accumulator, offset and counter block) that are closed under one step of the
  code's loops: decryption starts from the same first position, so it stays in those sets,
  passes the tag that was sealed, and takes off the keystream that was put on.  Nothing
  is needed of the cipher or the field but their types.  For the tag, the accumulator after
  n blocks is Horner's rule for a polynomial in H, and the polynomial's sum over powers
  of H obeys the same recurrence, by distributivity; in place the blocks hashed are those
  of the ciphertext, as what is encrypted is hashed after, and what is decrypted before.
  Two messages that differ in one block have tags that differ by a multiple of a
  power of H, which is zero only if H is.
  For `ImplementsStandard`, `StandardInv` says that the counter block of the n-th block is the
  standard's `CounterBlock` n and that what has been written is `Gctr` of what was there.  That
  the ripple of `inc32` goes from one counter block to the next is a fact about the digits of
  two numbers that differ by one (`Carry`, `CounterBlocks`); both count modulo Radix^4, and
  the standard's limit on the length of a text, which the code does not check, is
  a hypothesis of neither.  Taking `Gctr` off a text is putting it on again, so the text
  that comes out is the standard's whether or not it was the one sealed.
- **GF128.** After i iterations the accumulator is y times the first i terms of x, and the
  shifted operand y times x^i, both reduced; in the reference the reduction of a sum is the
  sum of the reductions, and a shift with the reduction of one bit is a reduced product
  with x.  The products are counts modulo 2, so each fact is one about sets of positions.
- **Cbc.** `EncryptInv`, `DecryptInv`: what is done is CBC's, what is not yet read has not
  been written over, in place or not, and `chain` is the block before, although its
  place may hold text by now.  `ResultInv` carries it past the return.
- **Cli.** `TracedInv`: every intact tag anywhere, in a file, a process's memory or a buffer
  being written, is the tag of a finished sealing. `Settled`: who has a buffer reads no
  more. So a tag that matches vouches for the ciphertext it was computed from, however files
  were mixed, cut or damaged. `StoreInv`: a file with one writer is a prefix of its buffer
  as far as it has been written, and what a process has read is a prefix of the file while
  nobody writes that; `SuccessIsStored` and `TextIsKept` follow. `ImplementsVault` follows
  step by step: a step that is no sealing or opening leaves the mapped variables alone.
  `StepsRunOut` is what termination rests on: a process's stage, and the chunks it has left
  within a stage, decrease lexicographically with each of its steps, and nobody else's step
  changes them.
- **KeySchedule.** Each word but the first `key_words` satisfies the recurrence; if two
  schedules agreed on `key_words` words in a row, running the recurrence backwards would
  make the keys agree.
- **BlockCipher.** The trace of the first call is a path of the round function from
  plaintext to ciphertext, from whichever end it was walked; the second call walks it
  the other way, each inverse round undoing a round.  `Enciphers` says of
  two blocks, apart from any run, that such a path goes from one to the other; a path exists
  from either end and is unique from either end, since each round can be undone
  (`IsPermutation`), and `WalkInv` says that a call is on its way along it.  `SpreadInv` follows the cells
  in which a second call on a changed block differs from the trace: one, a column of four
  (on the way back a diagonal), all 16, and from then on never none, since a round has an
  inverse.
- **ImpossibleDifferential.** `SearchInv`: a pattern is determined by how many rounds it has
  come and from which cell (the cell; a column or diagonal; everything), so the
  contradiction of a pair is decided by the split alone, and the counters count pairs.
- **Analysis.** A session is the cipher and the searches, each as it runs alone
  (`SessionsRunTheParts`), so their theorems hold in it.  For two rounds `SpreadInv` says
  the cells in which the two calls differ, and they are those of the pattern: this is what
  makes the patterns true although the rule for columns is not (section 6).
- **TrailSearch.** The layers commute with a rotation of the rows and columns, but for ShiftRows,
  which turns a rotation of rows into one of columns as well; so every start runs through
  the differences of the first, rotated, at the same weights.  `TrailInv` says so with the
  set `Trail` of the points of the first search, the least one closed under a round; the
  best weight is that of its end, so that strict pruning never prunes.  `WideInv`: at an
  even depth the weight is 30 for every pair of rounds, and at an odd one it lacks no more
  than the bytes that differ will add.  Its step is `WideLayer`: a column that is not zero
  has five bytes that are not zero before and after MixColumns (`BranchNumber`).  One alone
  reaches all four by `CoefficientAssumption`, two leave at most one zero by
  `MinorAssumption`; and three or four never become fewer than two or one, since the inverse
  matrix takes one byte back to four, and none to none.
  `TrailsAreWide` repeats the argument along a trail of any length.
- **Integral.** 256 states are followed as a function of the byte that is swept: in some
  cells they are all different, in the others all the same (`Swings`).  The layers keep that,
  and MixColumns as long as a column has one cell of the first kind: so for three rounds with
  their last one short.  Then every bit is set in 128 results, none or all, and the sum is
  zero.  `IntegralInv` adds where the loops are.  What is added to all 256 results and what is
  linear cancels in such a sum, so `Balanced` cannot see a wrong round key in the last round or a
  MixColumns too many there; `AllRoundsAreTheCipher` does, for 16 rounds: it says that the
  test's function is the cipher's then.
- **Kdf.** `KdfInv`: the chaining state begins with the salt, and so does whatever each byte
  of a key is made from.  `CounterInv`: while the key is not full, the counters left are
  enough for it, and no byte has been made from the present one.  `CollideInv`: the chunks
  of the text can be read off a chaining state, so two derivations that meet in a byte have
  absorbed the same number of chunks, and the same ones.
- **Random.** While `getrandom()` fills, exactly the bytes below `total` are random;
  each step but an interruption lowers `StepsLeft`, the bytes left and the stages of the fallback.

Model-checked only:

- liveness under fairness (`Terminates`, `Returns`), which is beyond this prover, though not the
  decrease it rests on (`StepsRunOut`, `WorkRunsOut`);
- that the integral property is gone after the fourth round, the other half of `Balanced`: this
  is about the code's tables and plaintexts, and so a computation;
- that the code's tables are what the assumptions say, and its polynomial irreducible.

Recursive functions are reasoned about through a function that satisfies the recursion
(`AddUpSteps`, `Recursion`), and induction is the least counterexample (`Least`, from the
library's theorem about well-founded sets).

The inductive invariants of `Gcm` and `Cbc` are also invariants of runs.  Those of `Cli` and
`BlockCipher` have been checked in instances of `cli_pair` and `mako` too, but take minutes
and are left out there as they are proved.

## 6. What the code does otherwise than it says

Shown by runs:

1. **`cli_close`.** `write_entire_file` ignores what `fclose()` returns (`main.c:63`).  A short
   output is still in stdio's buffer then; on a full disk the command prints
   "Encrypted ..." and exits 0 with nothing stored.
2. **`cli_version`.** `fileformat.h:51-52` says the version is authenticated.  The decoder is
   chosen by that byte first (`main.c:355-368`), and version 1 has no tag.  In the run a
   file is sealed, its version byte becomes 1, and a process that decrypts it under the same
   passphrase takes it for CBC, finds the padding right by luck, stores junk as its text
   and reports success.
3. **`kdf_legacy`.** `main.c:205-209` says a zero salt reproduces the derivation before
   salts existed.  The zero salt is absorbed like any other, so it does not.
4. **`impossible_claim`.** `impossible_differential_search.c:115` calls a column active
   as soon as one of its bytes is, which is a guarantee for one active byte and a guess
   for several.  Lines 12-18 and the line printed at 245 take the contradictions that
   follow for proofs of probability 0.  For 4 rounds all 256 pairs are reported, and the
   cipher takes a change of one byte to a change of one byte in four rounds.
5. **`trail_bound`.** `search_round` follows the first of the most frequent output
   differences only (`differential_trail_search.c:219`), so what it prints is the weight
   of 16 particular trails.  Lines 173-174 and 284 call it an upper bound on the
   probability of the best one.  It prints 2^-222 for 4 rounds; there is a trail with
   25 active S-boxes and 2^-175.  The comment at 235-247 speaks of branching over every
   possible output, which the code does not do.

Noticed in reading, without a run:

- `gf128.h:16-18` numbers the bits of a byte the other way than GCM and the code do;
- `mode_cbc.c:47-50` calls the padding value the remainder; it is the block size less it;
- `main.c:311-313` says failures cannot be told apart; a file that is too short gets a
  message of its own (`main.c:273`);
- `kdf.c:50-52` says every chunk depends on the salt; with passphrases of 16 bytes or
  more only the cycled part of the last one does, besides the first;
- `docs/DESIGN.md:22` claims a column matrix and round constants of the cipher's own; they
  are AES's;
- the comment at `tests/test_correctness.c:85-92` says that a table that no longer matches its
  construction would show there; the test reconstructs the S-box and examines what it has
  reconstructed, and never compares that with the table of `sbox.h` (`Tables` does);
- `gf256.h:133-138` says the schedule and the KDF use `gmul_runtime`; they do not;
- `integral_attack_test.c:26-35` says that the shipped cipher is run; the program has
  copies of its layers (line for line the same, today);
- `integral_attack_test.c:246` measures the worst byte again on other plaintexts, so the
  count printed need not be the one that made it the worst;
- the comment of the GCM regression test says its output is pinned; it is not.

## 7. Not modelled

- `main` and `print_usage`: parsing of arguments, which changes no state.
- `tools/` but for the two searches and the integral test.  Of `sbox_analysis.c` the
  difference table and its largest entry are in `TrailSearch`, and the linear table
  (65536 sums of 256 terms) is too much for TLC.  `keyschedule_analysis.c`,
  `avalanche_per_round.c`, `randomness_check.c`, `known_plaintext_sim.c` and
  `nist_export.c` sample: what they print are frequencies over random inputs, and what
  they do between is calls of functions that are modelled.  `benchmark.c` and
  `timing_sidechannel_test.c` measure time.
- `tests/`: read for what they expect.
- Secrecy and collision resistance: the models take random values not to repeat,
  compressions not to collide and tags to match only what they were computed from
  (`Cli`); `Gcm` by contrast computes with real, small blocks, where forgeries by chance
  happen.

## 8. Plan

Order of the modules: GCM and its field first, as all new files depend on it; the
command and its files; CBC; tables, key schedule and cipher; key derivation and random
bytes; then the analysis programs; last what `Gcm` promises, and what the modes assume of
the cipher.  All of these are in place.

`Cli` keeps terms for its tags and is not built on `Aead`: a tag of `Gcm` is a small block, which
some changed message may have by chance, and `Authentic` is claimed for tags that have no such
accidents.  The two meet in the order of events, which is `ReleaseOnlyVerified` in `Gcm` and the
guard of `OpenSealed` in `Cli`.

What could be added is the linear table of `sbox_analysis.c`, if its sums are cut to a few
masks, and the sampling programs of `tools/` as far as their loops keep state.
