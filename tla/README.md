# mmhashchainsigs in TLA+

`mmhashchainsigs` is an rsyslog message-modification module that puts every
message of a log into a hash chain and signs the chain from time to time;
`mmhashchainsigs-verify` reads the stored log and checks both. This directory
specifies the two programs and the places where they meet: the structured-data
element on each line, the shutdown state file, and the stored log.

The question everything here serves: *does a log that nobody touched always
verify, and what exactly does a passing verification vouch for?* The answer
depends on sequences of calls a unit test does not reach: a crash between two
messages, a restart before the tail of the last chain was signed, a signature
that fails after the chain has moved on, a line that arrives twice.

Paths below are relative to the repository root.

## 1. The system

| Part | Source | State | Operations |
|------|--------|-------|------------|
| Hash chain | `src/mmhashchainsigs/hashchain.c` | `alg`, `current`, `seq` (next number), `msg_count` (entries since the last signature) | init, update, reset_count |
| Worker (signer core) | `src/mmhashchainsigs/mmhashchainsigs.c` 19-382 | chain, `sig_seq_from`, `initialized`, `is_first`, `pending_state` | init (lazy), process_msg, process_final, final_sign, free |
| State file | same, 233-372 | one file: digest, algorithm, next number, first unsigned number, fingerprint | save (temporary file and rename), load, delete |
| rsyslog entry points | same, 454-697 | configuration, `wrkr_count` | newActInst, createWrkrInstance, doAction, freeWrkrInstance |
| Signing key | `src/mmhashchainsigs/signer.c` | key, optional certificate | init, sign, fingerprint, certificate |
| Elements | `src/common/hcs_format.c` | none | format, parse, strip |
| Primitives | `src/common/hcs_crypto.c` | none | hash, sign, verify, load |
| Verification engine | `src/verify/verifier.c` | `verifier_ctx_t` | init, process_line (INIT, SIG, MSG, CONTINUE), finalize |
| Verifier program | `src/verify/mmhashchainsigs_verify.c` | loop over lines | main |
| rsyslog, `omfile`, `omrelp` | external | the stored log | call the entry points, store the lines |

**Interaction.** rsyslog's worker thread calls `doAction` for each message.
`doAction` builds the payload (header element, the client's elements, the
message), lets `process_msg` extend the chain, and puts the element in front of
the message; the next action of the ruleset stores the line. The signer and the
verifier share nothing but the stored lines; two runs of the signer share
nothing but the state file. A segment of the log is an INIT line, MSG lines, and
every `signinterval` entries a SIG line whose range `qf..qt` must continue the
one before it. No code path of the signer emits CONTINUE; the verifier accepts
it, and the model keeps its handler.

**What is hard.**

* *A call fails after state has changed.* `hashchain_update` precedes
  `signer_sign` and the last `malloc` of `doAction`; the pending state is freed
  and its file deleted before anybody looks at the result of `process_final`.
* *A call fails half-way, and is retried for ever.* rsyslog repeats a suspended
  action; `signer_init_x509` alone has eight failing calls, and whatever one of
  them leaves allocated is lost once per retry.
* *Crash and restart.* The state file and the stored log are written by
  different parties at different times, and only a graceful stop writes a file.
* *Power failure.* Neither the state file nor its directory is synced; the file
  has no checksum, so a torn one must be recognised by its lines.
* *Counters that must agree.* `sig_seq_from` and `seq` are saved, `msg_count`
  decides when to sign, the verifier counts for itself.
* *Lines lost, repeated, overtaken or changed* between the signer and the file.
* *Two scanners over one text.* Signer and verifier find elements by searching
  for a prefix, the signer in the structured data, the verifier in the whole
  line; the two searches differ in which of the three element IDs they take out,
  and what a search takes out may join the text around it into a new prefix.
* *A hash without a key.* Whoever changes a line no signature covers can compute
  the digest that fits it.
* *Threads.* The counter that is to refuse a second worker is unprotected.
* *Reading while writing*, and a verifier whose own calls fail.

What makes each part correct, and the properties that say so:

| Part | Correct means | Properties |
|------|---------------|------------|
| Chain and worker | the counters account for the same entries | `CountersAgree`, `IInv` |
| State file and log | the file continues the stored log, and is given up only for a signature | `StateFileMatchesLog`, `TailHandedOver`, `SavedTailEventuallySigned` |
| State file on the disk | one cell that is written and emptied in one step, and never read torn | `ImplementsStateFile`, `StateRoundTrip`, `TornRefused` |
| Worker in the process | owns exactly what its pointers reach; one chain at a time; counted while it exists | `HeapIsOwned`, `RestsWithItsOwn`, `AtMostOneChain`, `CountsWorkers` |
| Log | a succession of segments with a bounded unsigned window | `ImplementsChainLog` |
| Text of a line | the verifier hashes the bytes the signer hashed | `TextInv`, `ReadsBackExactly`, `StripsOnlyOurs`, `ResigningIsStable` |
| Verifier | no finding in an honest log; accepts signatures only behind pieces of one | `NoFalseAlarm`, `UndamagedPasses`, `AcceptedIsAuthentic`, `StrictSegmentsSigned`, `SignedRangesTile` |

`PROJECT.json` lists the hazards line by line.

## 2. The modules

| Module | Models | Extends |
|--------|--------|---------|
| `HashChain` | digests, `hashchain_ctx_t`, signatures | |
| `SDRecord` | the element `hcs_sd_record_t` and a stored line | `HashChain` |
| `Signer` | configuration, worker, state file, every entry point | `SDRecord` |
| `VerifierCtx` | the verification engine as operators on its context | `SDRecord` |
| `Pipeline` | signer, storing action and verifier together | `Signer`, `VerifierCtx` |
| `PipelineInv` | the inductive invariants `IInv` and `TailInv`, with `Tolerable` and `OneTail` | `Pipeline` |
| `ChainLog` | abstract specification: what the signer promises a reader | |
| `Audit` | the verifier program over a copy that may be damaged | `Pipeline` |
| `Reading` | what a context without an error says of the lines behind it | `VerifierCtx` |
| `AuditInv` | the inductive invariants `AuditIInv` and `HonestIInv`, with `AuditTolerable` | `Audit`, `PipelineInv`, `Reading` |
| `StateText` | the state file as text: its lines, what a cut leaves, `load_state` | |
| `WorkerLife` | the worker call by call: allocations, system calls, kill, power failure | `StateText` |
| `WorkerLifeInv` | its inductive invariant `LifeInv` | `WorkerLife` |
| `StateFile` | abstract specification of the state file: one cell | |
| `LineText` | the text of a line: escaping, scanning, stripping, buffers, relays; its inductive invariant `TextInv` | |
| `WorkerGate` | `wrkr_count` taken apart into load and store | |
| `MC...` | configurations, options and texts of the TLC instances | |
| `ChainProofs`, `VerifierProofs`, `SignerProofs` | lemmas on the operators | |
| `PipelineProofs`, `LogProofs` | theorems of `Pipeline!Spec` | |
| `AuditProofs` | theorems of `Audit!AuditSpec` | |
| `LifeProofs` | theorems of `WorkerLife!LifeSpec`, and on the text of the state file | |
| `TextProofs` | theorems of `LineText!TextSpec` | |

The signer is described three times, at three sizes of step. `Signer` makes a
call of an entry point one action, and is what the log and the verifier are
composed with. `WorkerLife` makes every call inside it one action, forgets the
log, and looks at memory, threads and disk. `WorkerGate` takes the one statement
apart that `WorkerLife` takes as atomic, the increment of `wrkr_count`.

**How state corresponds.** `wrkr` is `mmhashchainsigs_worker_t` (`NoWorker`
between `freeWrkrInstance` and `createWrkrInstance`), `disk` the file
`mmhashchainsigs.state`, `conf` the action's configuration, `inhand` the message
between `doAction` and the next action, `log` the stored lines. `v` is the
context of a verifier that has read exactly the stored lines: the engine is
deterministic and reads line by line, so following it along is the same as
starting it at every moment. In `Audit`, `file` is the stored copy, `ctx` the
context of a run of the program, `seen` the lines it has read, `code` its exit
code.

In `WorkerLife`, `wk[t]` is the worker instance of thread `t`: `pc` names the
call it makes next, `ptr` the pointers that are not NULL, the rest are fields of
`mmhashchainsigs_worker_t`. `heap[t]` counts what was allocated and not freed,
by kind; the heap knows nothing of the pointers, which is what makes
`HeapIsOwned` a statement about the code. `path` and `tmp` are the two names of
the state file as a process sees them, `stable` the first as the disk has it. In
`LineText`, `sd` and `msg` are the structured data and MSG of a message before a
signer, `payload` what `doAction` hashes, `line` what is stored.

**How actions correspond.** In `Signer` and `Pipeline` one action is one call of
an entry point, from its first line to its return. `DoAction` is split by the
path the call takes (`PayloadFails`, `InitFails`, `FinishOldChain`, `HashFails`,
`ExtendChain`). Which calls inside it fail is the parameter `fails`, a subset of
the constant `Faults`; each failing place is one of `FaultPoints`, with its line.
In `WorkerLife` every call that can fail may always fail, and the actions bear
the name of the call, of the label (`InitFailed` is `fail:`, `Finalize` is
`finalize_it`) or of the function they begin or end.

**Abstractions.**

* A digest is the list of what was hashed, with its algorithm. Two digests are
  equal when the same entries were hashed in the same order: collision
  resistance as an exact fact.
* A signature is the pair of key and digest; nobody but the signer makes one that
  a verifier trusts, while anyone may compute a digest. A key stands for its
  fingerprint and for the certificate issued for it.
* A payload is a model value, and encodings (hexadecimal, base64, quoting)
  carry the record unchanged, except in `LineText`, where a text is a sequence of
  tokens: two for each SD-ID prefix, so that its pieces may stand apart and be
  joined by stripping, one for each character the scanners look at, and one for
  any other text. All three prefixes share their first token, as the three IDs
  share `[mmhashchainsigs`.
* `Rehash` writes one line of a copy anew: another message, the number of the
  next entry, and the digest of these after the line before, or after the
  well-known initial value on an INIT line. Line by line it turns any unsigned
  part of a copy into another that fits together.
* Errors of the verifier are kept by kind, because the exit code depends on
  them; wording is not.
* When `doAction` returns out of memory, rsyslog is done with the action: the
  message goes on as it came or not at all, and both are allowed.
* In `Signer` the state file is written and deleted in one step. `WorkerLife`
  takes this apart, and `ImplementsStateFile` is the reason one may do so as long
  as the power stays on.
* A file cut short keeps some whole lines and perhaps the beginning of one more.
  Only the state file as last renamed can be torn; a temporary file is emptied
  before it is used again, so its content is not followed.
* A digest in the state file is its width and the number of entries behind it.
  `ShortValues` lets a cut digest read as one of any other algorithm, which is
  more than the widths of the two allow.
* Numbers are natural numbers. On `uint64_t` the unsigned count may wrap; the
  code tests it for zero only, and `HasUnsigned` is that test.

## 3. The runs

State graphs are explored to the end.

| Run | Setting | Shows |
|-----|---------|-------|
| `HonestLog` | crashes, tolerated failures, plain verifier, interval 3, 6 lines | `NoFalseAlarm`, `StateFileMatchesLog`, `IInv`, `TailInv`, `ImplementsChainLog` |
| `StrictLog` | graceful restarts, `--strict`, interval 3, 7 lines, fairness | the same of a strict verifier; `TailHandedOver`; `SavedTailEventuallySigned` |
| `AllFaults` | every fault, two keys, two algorithms, `statefiledir` on and off, CA bundle, interval 2 | `TypeOK`, `CountersAgree` |
| `DamagedCopy` | two incidents of any kind to a copy of 4 lines, changed elements and recomputed digests included; failing digest, certificate store and `getline`; public key, `--strict` and CA bundle; interval 2 | `AuditTypeOK`, `UndamagedPasses`, `AcceptedIsAuthentic`, `StrictSegmentsSigned`, `SignedRangesTile`, `AuditIInv`, `HonestIInv` |
| `WorkerLife` | two threads, every call may fail, kills and power failures, a key with and without certificate, a file of the old layout, interval 2 | `LifeTypeOK`, `HeapIsOwned`, `RestsWithItsOwn`, `AtMostOneChain`, `CountsWorkers`, `LifeInv`, `ImplementsStateFile` |
| `LineText` | every header value of up to 2 characters, up to 2 client elements of 9 sorts (one with a value that does not end, two around which stripping joins a prefix), messages of up to 2 tokens and six that quote our elements or pieces of them, a signer and a relay | `TextTypeOK`, `TextInv`, `ReadsBackExactly`, `StripsOnlyOurs`, `ResigningIsStable` |

**Why the bounds are enough.** `MaxLog` 6 with interval 3 holds a whole cycle
(INIT, MSG, SIG) and a second one cut by a restart, with the SIG of the restored
chain and the first line of the next; 7 lets a strict run close two
segments. `MaxSeq` exceeds `MaxLog`, so it never cuts a behaviour of those runs
short except where entries are in no line. In `AllFaults` the state to explore
is in the worker and the file, not in the length of the log: with interval 2 two
lines reach INIT, SIG, restart and a foreign key. In `DamagedCopy` four lines
hold two segments, and two incidents suffice for the combinations that can
compensate for each other (lose one line and repeat another, move the range of
one SIG line and of the next). `MaxErrors` is 3 so that the error table fills
up. The signer itself does not fail there; `HonestLog` has that case.
In `WorkerLife` two threads are enough for a rejected worker next to an admitted
one, and threads are alike, so `AnyThread` is a symmetry (no property of the run
names a thread, and none is a liveness property); chains of up to 3 entries reach
INIT, SIG, and tails with one and with more entries. In `LineText`,
`HdrMaxLen` 9 and `MsgBufLen` 24 are small enough for both limits to be hit, and
two hops for a signed line to be signed again.
`MaxLog`, `MaxSeq`, `MaxIncidents` and `MaxHops` are the only bounds. At the
bound restarts stay enabled, so no other run needs to stop and deadlock is
checked, except in `LineText`, where a message that passed its last signer is
done.

**What the disk promises.** `StateFile` is one cell. Without a power failure it
changes in two ways only: a worker that stops leaves its whole tail, or the very
tail in it was taken by the worker that now drops it. `PowerFails` may undo the
last change or empty the cell, because nothing is synced; so a consumed tail can
come back after a power failure, and the next worker would extend a chain that is
closed. What is excluded is a tail nobody saved: a torn file is read as the whole
tail or refused. This rests on the order of the lines (the fingerprint, whose
width is fixed, comes last; a number last would lose digits unnoticed), and the
mutant `StateLinesSeqLast` shows it. The run has a state directory throughout.

**What the verifier hashes.** The comment at `mmhashchainsigs.c:659` says that
what the verifier hashes "is exactly these bytes". `ReadsBackExactly` gives the
exact condition, `Transparent`, on the payload: no newline in it and no carriage
return at its end, a line whose rest fits the verifier's buffer, and no
certificate element in it unless the signer put its own in front (the signer
strips two of the module's three element IDs, the verifier the third). Where the
condition fails the verifier reports an error, or hashes another text.

**What the signer keeps.** `StripsOnlyOurs` says what the signer takes out of a
client's structured data; it supposes that each element ends and that no prefix
of ours stands inside one, because the scanner finds the prefix there too. Under
the same condition `TextInv` says that nothing with a prefix of ours is kept, for
any number of relays. Without it the README's promise (446-456) that such
elements are removed does not hold: `hcs_strip_all_sd` is one pass
(`hcs_format.c` 526-538), and from
`[mmhashchainsigs[mmhashchainsigs@32473 x]@32473 y]` it leaves
`[mmhashchainsigs@32473 y]`, which is kept and hashed. The line itself still
verifies, since the verifier takes the first element of our ID, the signer's
(`ReadsBackExactly` has no such condition); but a relay strips what was joined and
hashes another payload. `ResigningIsStable` gives the exact condition: a relay
hashes what the signer before it hashed if and only if that one neither embedded
its certificate nor kept a text that holds a prefix of ours. The last
two sorts of elements in the run are such texts: with
`hops > 0 => ~HoldsOurs(Kept)` as an invariant `LineText` fails. A client can send
them: the module takes structured data from rsyslog as raw text.

**What the verifier vouches for.** With exit code 0, every counted signature
vouches for its segment up to itself: `AcceptedIsAuthentic` says that it and the
lines before it, back to an INIT line, are lines the signer emitted in a row,
unchanged, also if lines of the copy were rewritten with digests that fit. With
`--strict` every counted segment ends in a signature (`StrictSegmentsSigned`), so
that this covers everything counted. Without `--strict` the lines after the last
signature of a segment, and a segment with no signature at all, are only known to
fit each other: the chain hash has no key (`hcs_crypto.c` 102-146), so anyone who
changes such a line can recompute the digests from there on, and the run ends
with exit code 0. README 55-58 ("any modification ... breaks the chain") is true
of what a signature covers. `PassMeansNothingMissing` is the stronger reading of
those lines, and fails even for copies whose lines are all genuine.

### Disagreements

Each of these runs checks one statement of the documentation and ends in a
counterexample.

| Run | Statement | What the code does |
|-----|-----------|--------------------|
| `SignFailure` | a failing signature suspends, rsyslog retries (README 431) | the failed attempt stays in the chain; the retry is the next entry, and the log no longer verifies |
| `FinalSignFailure` | the first message after a restart signs the saved tail (README 369) | if signing it fails, the file is deleted and a new chain begins |
| `RotatedCertificate` | the verifier picks up the new certificate (docs/X509.md 88) | the first key stays installed; the new INIT is a fingerprint mismatch |
| `RepeatedLines` | deletion, insertion and replay break the chain (README 55-58) | a repeated INIT line, or a segment cut short before an INIT, passes without `--strict`; a whole signed segment repeated passes with it |
| `DigestFailure` | exit code 0: all signatures valid (README 219) | a failing digest ends the run with no error recorded, hence PASS |
| `WorkerRace` | a second worker is rejected (README 335) | two unprotected increments may both yield 1 |

`WorkerRace` supposes that rsyslog may call `createWrkrInstance` of one action
from two worker threads at once; `WorkerLife` supposes that it does not, and
then `AtMostOneChain` holds.

Two more statements are not true of the code and have no run of their own. README
412 says that a `signinterval` of 1 signs every message, and INIT lines are never
signed (`mmhashchainsigs.c:79`). README 446 says that elements with an ID of ours
are removed from what comes in, and one that stripping joins is kept (above, "What
the signer keeps"; the condition in `ResigningIsStable` is about it).

### Fairness

Only `StrictLog` checks liveness, and uses `FairSpec`. Weak fairness of `Start`
and `Store`: rsyslog creates the worker of a configured action and runs the
actions of a ruleset one after the other. Strong fairness of a `Sign` step that
yields a line: messages keep coming, and a call that fails (`init`, `hash`) is
retried and succeeds sooner or later, although the worker may be freed and
created again any number of times in between. Nothing is assumed of `Stop` and
`SignTail`.

## 4. The proofs

Proved for every value of the constants, hence for any sign interval, any number
of messages, keys and algorithms, and without bounds on restarts
(`Spec` still names `MaxLog` and `MaxSeq`, which may be any numbers), for any
number of worker threads, and for headers, structured data and messages of any
length on a way through any number of relays:

| Theorem | Statement |
|---------|-----------|
| `TypeCorrect` | `Spec => []TypeOK`, all faults |
| `CountersCorrect` | `Spec => []CountersAgree`, all faults |
| `VerifierProcessLineType` | the engine keeps its context typed on any line |
| `LogInvariant` | `Spec => [](TypeOK /\ IInv)`, if `Tolerable` |
| `HonestLogVerifies` | `Spec => []NoFalseAlarm`, if `Tolerable` |
| `StateFileAgrees` | `Spec => []StateFileMatchesLog`, if `Tolerable` |
| `LogRefinesChainLog` | `Spec => ImplementsChainLog`, if `Tolerable` |
| `StateRoundTrip` | `load_state` of what `save_state` wrote is the tail that was saved |
| `OldLayoutLoads` | a file without `hashalgo=` is the same tail of a SHA-256 chain |
| `TornRefused` | a file cut short anywhere is read as the saved tail or refused |
| `LifeInvariant`, `LifeTypeCorrect` | `LifeSpec => []LifeInv`, `[]LifeTypeOK` |
| `HeapAlwaysOwned`, `RestsClean` | `LifeSpec => []HeapIsOwned`, `[]RestsWithItsOwn` |
| `WorkersCounted`, `OneChain` | `LifeSpec => []CountsWorkers`, `[]AtMostOneChain` |
| `LifeImplementsStateFile` | `LifeSpec => ImplementsStateFile` |
| `TailInvariant` | `Spec => [](TypeOK /\ TailInv)`, if `OneTail` |
| `TailIsHandedOver` | `Spec => TailHandedOver`, if `OneTail` and neither `final` nor `newsd` fails |
| `AuditExtendsPipeline` | `AuditSpec => Spec` |
| `AuditTypeCorrect`, `AuditInvariant` | `AuditSpec => []AuditTypeOK`, `[]AuditIInv`, all faults |
| `StrictIsSigned`, `RangesTile` | `AuditSpec => []StrictSegmentsSigned`, `[]SignedRangesTile`, all faults |
| `AcceptedOfVerifiableLog` | `AuditSpec => [](NoFalseAlarm => AcceptedIsAuthentic)`, all faults |
| `Authentic` | `AuditSpec => []AcceptedIsAuthentic`, if `Tolerable` |
| `HonestInvariant` | `AuditSpec => []HonestIInv`, if `AuditTolerable` |
| `UndamagedCopyPasses` | `AuditSpec => []UndamagedPasses`, if `AuditTolerable` |
| `WholeFileIsRead` | `AuditSpec => PassReadsWholeFile`, if `AuditFaults = {}` |
| `TextTypeInvariant`, `SignedMessageShape` | `TextSpec => []TextTypeOK`, `[]TextInv` |
| `SignerStripsOnlyOurs` | `TextSpec => []StripsOnlyOurs` |
| `RelaySignsTheSameBytes` | `TextSpec => ResigningIsStable` |
| `VerifierReadsBack` | `TextSpec => []ReadsBackExactly` |

**Assumptions.** The named assumptions on constants in the modules, and, where
the table says so:

* `Tolerable`: no failure of the kinds the code does not recover from (`sign`,
  `payload`, `newsd`, `load`, `unlink`), a verifier started with the public key the
  signer uses, and a configuration whose key, algorithm and `statefiledir` do not
  change. A strict verifier also needs that no tail is lost: no crash, no failing
  `final` or `save`, and a state directory.
* `OneTail`: the file can be read and removed, and key, algorithm and
  `statefiledir` do not change. Signatures, digests and certificates may fail, and
  the process may crash.
* `AuditTolerable`: `Tolerable`, and each run of the verifier is started with the
  signer's key, or with a CA bundle if the key's certificate chains to it and every
  INIT line brings it.
* `AuditFaults = {}`: no call of the verifier fails.

None is decoration: of the excluded circumstances `SignFailure` and
`RotatedCertificate` (for `Tolerable`), `FinalSignFailure` (for
`TailIsHandedOver`) and `DigestFailure` (for `WholeFileIsRead`) show a
counterexample each. None says anything about incidents: the theorems of `Audit`
hold for any number of them, in any order, between and during runs.

**Argument for the log.** `NoFalseAlarm` is not inductive: whether the verifier will accept
the next line depends on the worker's chain, on the state file and on the line
that is on its way. `IInv` therefore speaks of `Ahead`, the verifier's context
once that line is stored, and says that the worker is `Synced` with it, that the
file, if there is one, is `Synced` with the stored log and belongs to no running
chain, that the pending state is the file, and that the line in hand is one step
of `ChainLog`. Storing then only moves `v` to `Ahead`; emitting a line is the
step that needs the arithmetic, done in `AcceptInit`, `AcceptMsg` and
`AcceptSig`: the verifier accepts exactly the entry the worker computed.
`NothingOwed` is the part a strict run needs: a segment is only opened when
nothing is unsigned. The refinement maps `segments`, `len` and `signed` to the
verifier's counters; `Store` is a step of the abstract log, all others stutter.
`CountersAgree` needs only that a pending state is gone once a worker is
initialised.

**Argument for the tail.** `TailHandedOver` does not depend on the log. Were there
ever a running chain beside a file, the next graceful stop would overwrite the file
unsigned; so `TailInv` says that a tail is in one place, the file, which a worker
that has not started holds as its pending state, or a running chain. It also says
that file and chain bear the key and algorithm of the configuration, for the
fingerprint check of `process_final` would otherwise skip the signature and delete
the file all the same. It holds however signing fails, but `TailHandedOver` then
does not: the file goes before the result is looked at.

**Argument for an accepted copy.** The verifier's context keeps one digest and five
numbers, and exit code 0 is to say something of every line read. `Tracks` is that
statement for a context without an error: each counted line is `Sound` (it
continues the line before it by one entry, digest included, and a SIG line is
signed by the trusted key over a range that begins where the signatures before
it in its segment `Reach`), and the fields sum up the last line and those
signatures. One line more keeps it (`LineClean`), whatever the line is, because an
error is never taken back. `StrictSegmentsSigned` and `SignedRangesTile` follow
from `Tracks` alone: they use nothing of where the lines came from.
`AcceptedIsAuthentic` needs two facts more: `Stems`, that a signature on a line of
the copy, wherever it was moved, is over the digest of an emitted line, for an
incident may make any digest but no signature; and that the log itself is `Sound`,
which is `Tracks` of the verifier that follows it, hence the hypothesis
`NoFalseAlarm`. A counted signature verified over the digest of its own line, which
is therefore an emitted one. Two sound lines with the same number and digest have
the same message, and the lines before them again the same number and digest,
since digests are injective (`SoundMatch`); so the segment of a counted signature
can be walked back in the log to its INIT. Nothing of the kind holds of a line
behind the last signature, whose digest may be anybody's.

**Argument for an undamaged copy.** `CopyIntact` says that what was read is a
beginning of the log. The converse of the argument above holds as well
(`SoundIsClean`): a line that is `Sound` after those before it adds no error to a
context that trusts the key. `HonestIInv` adds where that trust comes from: the
options, or the certificate of the first INIT line, which `CertsFit` says is the
signer's. A failing call ends a run early, but records nothing.
`WholeFileIsRead` is the other side of that: with no failing call the engine never
stops without an error, so exit code 0 means that `getline` reached the end.

**Argument for the worker's life.** That nothing leaks at `finalize_it` depends on
what each of the thirty-odd places of a worker's calls is reached with, so
`LifeInv` says it of every place: the signer context (`HoldsSigner`), the pending
state (`HoldsPending`), buffers and open files (`HoldsBuffers`), the counters
(`CountsEntries`). `OneAtWork` says that at most one thread is past the gate and
not yet past its last call, from which `AtMostOneChain` follows and without which
one worker's `delete_state` could remove what another has read; it rests on
`CountsWorkers`. `FilesFit` relates the files to that one worker: what is to be
renamed is its whole tail, and the file is the pending state's as long as there is
one. A step changes one worker, so `WorkerKeepsInv` reduces it to facts about that
worker, proved call by call; kills reset all of them; a power failure needs
`TornRefused`, which follows because the file demands its last line, and that
line cannot be shortened into another valid one. The refinement maps `stored` and
`durable` to what `load_state` makes of `path` and `stable`, `tail` to what the
worker at work would save, `taken` to its pending state: `Rename` is `Leave`,
`DeleteState` is `Drop`, `WriteBack` is `Settle`, all else `Work` or a stutter.

**Argument for the text.** The scanners are recursive functions on the positions
of a text, so what they do is proved by induction over positions. The library's
induction theorems are stated for a predicate and cannot be used;
`SetInduction` says the same of a set of positions, and follows from the least
element of a well-founded relation. From it come unfolding equations for each
scanner (`ValueEndUnfolds`, `ScanUnfolds`, `RemainingUnfolds`), their ranges, and
that a scan sees nothing but the text up to where it ends (`ValueEndLocal`,
`ScanLocal`). Hence stripping a text that is joined of whole elements strips each
of them (`StripFlatten`), which is `StripsOnlyOurs`, and the text behind them is
stripped as it would be alone (`StripReads`). `HeaderShape` is where the
escaping counts: whatever the header value, the header element is whole, and its
brackets and quotes do not end it early. `TextInv` is needed because what a relay
signs depends on what the signer before it kept: stripping a signed text takes our
element and the header and leaves the certificate, if there is one, and what the
two passes leave of that text. Of whole elements that quote nothing of ours the
first two passes leave no prefix, so the next two leave all (`WholeStrips`,
`TwoPassesSuffice`). Of any text a pass that finds something leaves less, so the
relay hashes the same exactly if there is nothing to find (`KeptWhole`, by
length), and never if a certificate stands before it (`CertNotKept`).
For `VerifierReadsBack`, the line begins with our own element, which is the first
the verifier finds, so cutting it out leaves what was hashed, with our
certificate in front of it or not; the certificate is then cut out as well, or the
first one in the payload is. Conversely a newline inside, carriage returns at the
end, or a certificate of the client leave a text shorter than the payload,
or an error.

**Only model-checked.**

* `SavedTailEventuallySigned`: liveness under fairness is outside what the prover
  does. Every other property of a passing run is stated by a theorem.
* The race in `WorkerGate`, and the other disagreements: a counterexample on a
  small instance is all there is to show.

## 5. Not modelled

* `sd_get_param` and the hexadecimal and base64 codecs, beyond the fact that a
  record comes back as it went out.
* Options of the verifier program; how `newActInst` parses the parameters of an
  action and what it reports (a configuration is one of `Confs`).
* An element of a type the verifier does not know (`verifier.c` 456-458): the
  branch records an error and changes nothing else.
* That `EVP_DecodeBlock` does not ask how large its buffer is (`hcs_format.c`
  234-236): codecs are left out.
* OpenSSL's insides: curves, certificate chains, revocation lists. That loading a
  key or a certificate may fail, and what is freed then, is in `WorkerLife`.
* A result nobody looks at: `hashchain_init` in `process_final`
  (`mmhashchainsigs.c:204`). The reset is taken as always done.
* A last line that is only partly written when the verifier reads it: a line
  reaches the stored copy whole.
* Which exit code a run ends with once the error table is full: the code keeps
  nothing but the recorded texts, so only its range is claimed.
* What rsyslog does with a message whose header element is longer than
  `HCS_SD_HDR_MAX_LEN`. `LineText` has the step (`Suspend`): it leads nowhere, and
  nothing in the module could let such a message pass.
* A state file edited by hand, other than by the older layout or a cut.
* The key generation script, the build, the tests: no state of the programs.

## 6. Plan

1. Proofs: how much of the log still verifies when a signature fails (`Tolerable`
   without `sign`).
2. A composition of `StateFile`'s power failures with the log: which logs verify
   after a consumed tail came back.
3. rsyslog's retry loop with messages that can never be signed, and its liveness.
4. Parameters inside an element (`sd_get_param`) over `LineText`'s tokens.
