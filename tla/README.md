# AdaptivePi in TLA+

Models, model-checking runs and machine-checked proofs for AdaptivePi: the
`ara::core` result type, the `ara::log` logging foundation, the sample
application, the scripts that run and debug it in QEMU, those that publish and
install the platform, and the proof gate of the build.

    tlc -config LoggerRegistry_calls.cfg MCLoggerRegistry     # one run
    tlapm LoggerRegistryProofs.tla                             # one proof module

The proof modules are those whose names end in `Proofs`.

`PROJECT.json` lists components, runs, mutants, the source lines behind every
definition, hazards, findings and theorems. Operators whose comment begins with
`MUTANT` are deliberately wrong versions of the operator that follows them. No
specification uses them: each shows that a property would notice that mistake.

## 1. Inventory

| Component | State | Operations | What is hard | What must hold |
|---|---|---|---|---|
| Logger registry (`logger_registry.cpp`, `ara_log.cpp`) | an intrusive list of heap-allocated loggers, a POSIX mutex, a function-local static | `TryCreateLogger`, `CreateLogger`, destruction at exit | threads, three allocations and five pthread calls that fail, duplicate IDs, shutdown | the list never breaks; each call is atomic; nothing leaks or dangles; references stay valid; calls end |
| Logger (`logger.cpp`, `logger.h`) | immutable context and threshold | `IsEnabled`, `LogX`, `Submit`, `Log`, `LogWith` | application code runs inside a call and logs again | filtered records cost nothing; one record per message |
| Log stream (`log_stream.cpp`) | a 4096-byte buffer, failed and enabled flags, a logger | insert, move, `Flush`, destructor | any sequence of these, the limit of the buffer, moved-from streams | a record is submitted whole and once, or not at all |
| Record pipeline (`linux_metadata_provider.cpp`, `console_record_formatter.cpp`, `record_buffer.cpp`, `console_sink.cpp`) | a record buffer per call, stdout shared by all | read metadata, render, write | every stage can fail, clocks at the limits of their types, text that looks like syntax, one `fwrite` per record from many threads | a line is a whole record that reads back as it was; no interleaving, no duplication |
| Modelled messages (`message_writer.h`, `modelled_message.h`, `trace_routing.h`, ...) | a writer per call | `Log`, `LogWith`, `Render`, `TraceArti` | nesting, routing of filtered or failed records, quoting | each destination exactly once, in order; attributes can be read back |
| Result (`result.h`) | two optional slots, the active index | construct, copy, move, emplace, access, `ValueOrThrow` | constructors that throw, take from what they replace, or look at the Result | replacement is atomic; access is checked; no empty state |
| Error codes and domains | none | comparison, conversion to exceptions | a converter that returns | an error never becomes a value |
| `hello-adaptive` | its exit status | initialise, log twice, exit | failures below it | it keeps the registry's contract |
| `platform-test-service` | none | prints its version | nothing | - |
| QEMU scripts (`scripts/qemu`) | a tmux session, the guest, a gdbserver, an SSH tunnel, two PID files | start, stop, deploy, enable, disable | checks that are stale when used, interrupts, SSH failures, processes that die | processes are recorded and can be stopped; scripts end |
| Platform release (`scripts/yocto`) | the checkout, the build, a remote tag, a GitHub release with six assets, `yocto/sdk`, `yocto/platform` | publish, install | failure or interrupt between two of many effects, assets that change under a download | no half-installed platform, no mixed release |
| ESBMC installer (`cmake/ESBMC.cmake`, `install-esbmc.sh`) | an install directory, a lock file | find, lock, download, move | configurations side by side, kills | one installation, never moved into another |
| ESBMC proof runner and cache (`RunESBMCProofs.cmake`) | a cache of logs by fingerprint | hash, reuse, run, store | edits, kills and other configurations between these | only evidence is reused; the gate is sound |
| ESBMC reports and coverage, SDK checksum script, platform runner | none | transform or execute once | nothing that persists | - |
| Build and Yocto configuration | none | - | - | - |

Interactions: applications call the registry and keep references to its
loggers; a logger makes streams, which call back its `Submit`; that calls the
registry's metadata provider and sink; all sinks share the process's stdout.
`LogWith` calls application code (`Render`, `TraceArti`), which may call
`LogWith`. Registration reports through `Result`. The QEMU scripts share only
files, the tmux session and what runs in the guest. Publisher and installer
meet in the GitHub release; configurations meet in the install directory, its
lock and the cache.

## 2. Modules

| Module | Models | Extends / uses |
|---|---|---|
| `ContextRegistry` | the contract of the registry | |
| `LoggerRegistry` | the registry, one shared access per step | |
| `RegistryRefinement` | the mapping from the registry to its contract | `LoggerRegistry`, instance of `ContextRegistry` |
| `MCLoggerRegistry` | instances | `RegistryRefinement` |
| `HelloAdaptive`, `MCHelloAdaptive` | `main.cpp` composed with the registry | `LoggerRegistry` |
| `LoggerRegistryProofs` | inductive invariants of the list, of ownership and of `main`, eight theorems and the refinement | `RegistryRefinement`, `HelloAdaptive` |
| `TextPieces` | text as pieces with a size | |
| `LogStream` | one stream as a value: insertion, move, flush, filter | |
| `RecordFormat` | clock conversion, timestamp, escaping and the bounded line, as operators; a reader of lines | `TextPieces` |
| `RecordLog` | the contract of concurrent logging | |
| `LogPipeline` | streams of several threads, `Submit`, stdout | `LogStream`, `RecordFormat` |
| `LogRefinement` | the mapping from the pipeline to its contract | `LogPipeline`, instance of `RecordLog` |
| `MCLogPipeline` | instances | `LogRefinement` |
| `SequenceFolds` | lemmas: what a fold over a sequence computes, induction on sequences | `TextPieces` |
| `LogPipelineProofs` | inductive invariants, four theorems and the refinement | `LogRefinement`, `SequenceFolds` |
| `ModelledMessage`, `MCModelledMessage` | `Log`/`LogWith` as a stack of calls | `LogStream`, `TextPieces` |
| `ModelledMessageProofs` | inductive invariant, five theorems | `ModelledMessage`, `SequenceFolds` |
| `CheckedResult` | the contract of `Result` | |
| `ResultStorage`, `MCResultStorage` | two-slot storage, refinement of `CheckedResult` | |
| `ResultStorageProofs` | inductive invariant, three theorems and the refinement | `MCResultStorage` |
| `QemuSession`, `MCQemuSession` | the five scripts and what they control | |
| `QemuSessionProofs` | inductive invariants, three theorems | `QemuSession` |
| `PlatformRelease`, `MCPlatformRelease` | maintainer, publisher, GitHub and installer | |
| `PlatformReleaseProofs` | inductive invariants of publisher and installer, five theorems | `PlatformRelease` |
| `EsbmcGate`, `MCEsbmcGate` | configurations that install ESBMC and run the gate | |
| `EsbmcGateProofs` | inductive invariant and three theorems | `EsbmcGate` |

How state corresponds to code:

- `LoggerRegistry`: `head`, `next` and `mutex` are `head_`, `next_` and
  `mutex_`; `contents[l]` is the object at an address, or Null if there is
  none; `pc` and `local` are each thread's place and variables in `Register` or
  `Find`. `published` and `obtained` are history: the publication order, and
  the references given out. Construction of the static registry belongs to the
  first call, since the language makes concurrent first calls wait for it.
  Steps are the statements that touch shared state or can fail. A failed lock in
  `Register` deletes the logger and reports an error; all other failed pthread
  calls terminate, as in the code.
- `LogStream` has `size_`, `failed_`, `enabled_`, `logger_` and `level_`; text
  is a sequence of pieces with a size in bytes. The characters that the
  formatter treats specially (backslash, newline, return, brackets) are pieces
  of their own.
- `RecordFormat` has C++ arithmetic on a narrow integer: division truncates,
  overflow wraps. `MinInteger..MaxInteger` stands for `std::int64_t`,
  `MsPerSecond` for 1000, `MinSecond..MaxSecond` for the years 0 to 9999. It
  also says how a reader takes a line apart again (`ReadLine`).
- `LogPipeline`: a `Flush` that submits goes through `Metadata`, `Render`,
  `Write`, two parts of one `fwrite`, and `Leave`; the other operations are one
  step, because a stream belongs to one thread. `fileLock` is the lock that
  stdio, not the program, holds for the length of one `fwrite`, on which
  the "one call per record" of `console_sink.cpp` relies. A write to a full pipe
  or a stopped terminal may take for ever, so nothing is said about when a `Flush`
  returns. A record cut by a short write stays where it is, and the next one
  continues its physical line, as AP-R3-LOG-008 allows: `LinesAreExact` is about
  each record's own text. `stdout` has the lines
  as they were rendered, and beside them what each stands for.
- `ModelledMessage`: `frames` is the C++ call stack reduced to `LogWith` calls.
- `ResultStorage`: `slots` and `active` are `slots_` and `active_`; `work` is
  the emplacement under way; observers run inside payload constructors and
  destructors.
- `QemuSession`: one action per command of a script. `tunnelPidFile` and
  `guestPidFile` are the two files; the guest, gdbserver and the tunnel may end
  in any state.
- `PlatformRelease`: `pub` and `inst` are a run of each script, one action per
  command that can fail or that others see; `tree`, `build`, `pushed`, `tag` and
  `release` are the checkout, the deploy directory and GitHub; `sdk` and
  `platform` are `yocto/sdk` and `yocto/platform`. Content is named by what it
  was made of: a bundle by its image build and the commit of its launcher. Image and SDK
  are built one by one, and `Metadata` is what the publisher compares of them: any
  function of a build. The maintainer may push, and tag, while the publisher runs;
  `raced` is history: the release was published by a run that had looked for the
  tag before it was there. A stop is possible between any two actions.
- `EsbmcGate`: `conf` is the configuration run in each build directory, with
  the fingerprint it took of each proof and the verdicts so far; `install`,
  `lock` and `cache` are shared, `source` is the version of all inputs.
  Edits set it to any version, so inputs are also restored. A killed installer may
  leave the command it had started, which has inherited the lock file: the lock is
  then held by `Children` until they end.
  `Holds` is what the verifier says: any function of proof, mode and version.

## 3. Runs, bounds and what they show

| Run | Question | Bounds and why they are enough |
|---|---|---|
| `registry_calls` | is the registry correct? | 2 threads, 2 calls each, 3 addresses, 2 IDs. One ID is unique, the other registered at will; inputs differ in description, in threshold and by an undefined threshold. A race needs two threads; a list of three has a first, a middle and a last element. |
| `registry_liveness` | does every call and every shutdown end? | 3 threads with one call each, so that two wait for the mutex at a time |
| `hello_main` | does the application keep the registry's contract? | the whole program |
| `stream_records` | is a stream right after any sequence of operations, and does every line read back as its record? | 1 thread, 2 streams, 2 records, 3 insertions each; a buffer of 2 bytes and pieces of 1 and 2 bytes and the null pointer: below, at and past the limit. A name with both brackets and a return, text that would be syntax if not escaped; six clocks: both ends of the years, one past each, just before 1970, and one that would wrap into a time that can be shown |
| `pipeline_threads` | do records of two threads arrive whole, once, in one piece? | 2 threads, 2 streams handed between them, 2 records of up to 3 insertions that fit or overflow the message buffer, or, once escaped, the record buffer; a clock that can be shown and one that cannot. Interference needs two records in the pipeline; more only repeat it |
| `message_calls` | what if `Render` or `TraceArti` logs again, and can attributes be read back? | 2 calls, the second after, or inside the `Render` or `TraceArti` of, the first; every routing; up to 2 values; one attribute, or two in either order that just fit, with quotes and backslashes at the start, the end and before each other |
| `result_value` | is replacement atomic and access checked? | 2 objects, 2 values, an error that converts to an exception and one whose converter returns |
| `qemu_sequential` | do the scripts, one at a time, keep track of their processes, and end? | any 5 scripts (a session needs start, enable and disable), one of which may be killed anywhere; no SSH failure while the guest is up |
| `qemu_transient` | does disable always end the session? It does not: see section 5 | up to 5 scripts, one at a time, SSH failures while the guest is up |
| `platform_release` | is what is published complete and of one commit and matching builds, and what is installed one release? | 2 commits, 2 images and 2 SDKs, of which one matches neither image, so that two can be mixed; 3 script runs: publish, replace, install, or two installs; a stop and a pushed tag anywhere |
| `platform_retry` | can an interrupted first upload be retried? It cannot: see section 5 | 2 commits, 2 runs |
| `esbmc_gate` | do configurations side by side install once, pass only on evidence, and end? | 2 configurations, 4 starts and edits in all (two at once, one after, and an edit between; or an edit that is undone), 2 modes, 2 proofs of which one fails in one mode and one on one version, 2 versions |

Deadlock is checked in every run but those of `PlatformRelease` and `EsbmcGate`,
where the system really stops: once everyone has ended there is nothing left to
do. Elsewhere states where everything has ended stutter explicitly (`Ended`,
`Finished`). All bounds are constants marked `BOUND`.
The theorems do not depend on `CallsPerThread` being small.

The three refinements (`ImplementsContextRegistry`, `ImplementsRecordLog`,
`ImplementsCheckedResult`) are the summary of their components:

- every `Register` and `Find` takes effect at one instant between call and
  return, a failed one not at all. A registration is effective with the store
  to `head_`, a lookup with its comparison;
- a record enters the log in one step with exactly the text inserted into its
  stream, or never. It is logged when its last part is on stdout;
- a Result holds what its active slot holds, and changes in one step.

Fairness. Only `EveryCallEnds`, `ShutdownEnds`, `HelloEnds`, `EveryScriptEnds`
and `EveryConfigurationEnds` depend on it. It is weak everywhere. A thread that is inside
the registry keeps running (`WF(Progress(t))`). Weak
fairness suffices for the locks because the number of competing calls is
bounded; under it a thread could starve behind an endless stream of
other callers, which POSIX mutexes do not exclude either. Nothing obliges a
thread to call, pthread to fail, or memory to be there. A script's next command
runs, which takes for granted that an SSH command ends once it is connected
(`ConnectTimeout` bounds only the connection), and waits are bounded by their attempts,
so `AwaitSsh` and `AwaitStop` can always give up; the guest is not fair: it may never boot or halt. A
configuration runs on (`WF(Step(c))`): ESBMC and the download have timeouts, and
`flock` wakes a waiter; what a killed installer leaves behind ends, too (`WF(ChildrenEnd)`:
the download has `--max-time`); since starts are bounded nobody waits for ever behind
new ones. Kills, edits, commits and script runs are never obliged to happen.

## 4. Proofs

The theorems hold for every value of the constants that the named assumptions
allow, so for any number of threads, addresses, calls, streams, configurations,
commits and runs. Each comes from an inductive invariant, with one lemma per
conjunct or per actor, one step per action under it, and a last temporal step.
Every safety invariant, action property and refinement that a passing run checks
is the subject of a theorem; two of them, about the QEMU scripts, under the
conditions of their run.

### The registry

`LoggerRegistryProofs` proves `TypeCorrect` (every logger has a defined
threshold), `ListGuarded` (mutual exclusion on the list) and `ListWellFormed`
(the list spells the published loggers, newest first, each once and alive). None
of the three is inductive alone. `Inv` adds

- `RequestsAreKept`: a thread in a call still has its arguments, and Register is
  past the range check only with a threshold in range (for the type of
  `contents`);
- `OwnersAreExclusive`: the logger that a Register has built and not published is
  live, not in the list, and no one else's. Without it the store to `next_` could
  break the list, and the delete on a failed lock could remove a listed logger;
- `LinkPrecedesHead`: between the two stores of a publication the new logger
  already points to `head_`, which stays true because, by `ListIsGuarded`,
  nobody else can be between lock and unlock;
- `ShutdownIsQuiet`: the destructor runs beside no call.

A second part strengthens it to `OwnershipInv` and proves
`BlocksOwned`, `ReferencesValid`, `RegisteredContextsAreFound` and
`ListedNeverChanges`. The parts it adds, and what each is for:

- `LiveLoggersAreOwned`, `BuffersAreOwned`, `NothingOutlivesTheProcess`: who
  owns each block, on every failure path and through shutdown;
- `TraversalIsExact`: a lookup has skipped only newer contexts with other IDs, so
  that it stops at a listed logger with its ID or has seen the whole list;
- `AnswersAreListed`: what a call is about to return is listed, with the inputs
  of the call; with it `ReferencesAreValid` survives the return;
- `UniqueIdsAreRegisteredOnce`, `PriorIsListed`: an ID that callers keep unique has
  at most one registration at a time and one logger, and a lookup made after an
  identical registration has something to find. Without both, a lookup might meet
  another context with its ID and terminate the process.

A third part proves `RegistryIsLinearizable`: every step of the
registry is a step of `ContextRegistry` or changes nothing that it sees. The
contract sees the store to `head_`, the comparison that ends a lookup, the
failures and the ends of the process; `OwnershipInv` gives the values.

Assumptions: Null is none of the threads, addresses and inputs; a threshold fits
eight bits; `kOperationFailed` is no address; unique IDs are IDs of inputs.

### The application

A last part of `LoggerRegistryProofs` proves `OnlyTheMutexEndsMain`: `main`
composes with the registry so that of the reasons for `std::terminate` only a
failing mutex is left. The steps of `main` are steps of the registry or leave it
alone, so `OwnershipInv` carries over. `MainInv` says where a registration and a lookup
of `main` are: a lookup follows a registration of the same context that has handed
out a logger, which is `RegisteredContextsAreFound` put to use.
`MainAssumption` (the context is the one of `main.cpp`, with the threshold Info
and an ID no one else uses) is cited only here, not by the theorems about the
registry.

### Result

`ResultStorageProofs` proves `TypeCorrect`, `ActiveSlotEngaged`,
`OtherSlotUnused` and the refinement `StorageIsChecked`. Its `Inv` is the three
properties and `WorkIsSound`: an emplacement works on a Result that exists, and
between construction and switch the new payload is in the inactive slot.
Without it the switch could activate an empty slot. In the refinement the switch is
the contract's replacement; construction and the reset of the old slot are
invisible. Assumptions: there is a value, and Empty is no payload.

### Log pipeline

`LogPipelineProofs` has four layers, each on top of the one before.

- `RecordsStayTogether`: no record is written into
  another. `Inv` adds `LockIsExact` (the FILE lock belongs to the thread inside
  `fwrite`), `FlushersOwnTheirStreams` (so that no one starts a new record in a
  stream that is being flushed), `HalfIsLast` (a half-written record is the last
  thing on stdout and is that of the writer) and the shape of the state. It depends
  on one `fwrite` per record and on stdio's lock, not on what is written.
- `StreamsHoldTheirRecords`, `TypeCorrect`: `StreamInv` says of every place that
  nothing lives there, or a stream that holds the text of its insertions
  or has failed because of them, or a stream that was moved from (`PlaceHolds`);
  that two streams never hold the same record; and that a record in `Flush` is one
  that may be logged. `StreamHoldsExactlyItsRecord` is not inductive: it is silent about
  streams that have failed or are disabled, which the next insertion reads.
- `LoggingIsAllOrNothing`: every step is a step of `RecordLog` or changes
  nothing that it sees. `LogInv` says that a record whose last part is on stdout
  has its stream still in `Flush`: so a record is logged once, and a stream
  begins its next record with nothing logged. `LogRefinement` assumes that Null is no record
  (`NullAssumption`).
- `LinesSayWhatWasLogged`: `LinesInv` follows the line from the clock to stdout. It
  rests on three facts about operators: the conversion of the clock to milliseconds and
  back is the identity when it does not overflow, and is refused when it would
  (division truncates, so times before 1970 are the delicate ones); escaping has no
  delimiter outside its escapes; and a reader in any state takes an escaped text in
  as the text it was.

What is computed by folds over text of any length is proved by induction:
`SequenceFolds` proves, for sets in place of predicates, induction on numbers and on
sequences, and that `FoldLeft` takes one step per element, for an operation given as
a function. `BytesFolds`, `TextFolds` and the folds of the proof modules are instances.

Assumptions: Null is no thread, logger or record; a logger's name is a sequence; a
clock's fraction is less than a second; the record buffer has a
size; `MsPerSecond` fits the integer type.

### Modelled messages

`ModelledMessageProofs` proves `RecordsMatchTheirCalls`, `CallsAreRoutedOnce`,
`RecordsAreOrdered`, `AttributesReadBack` and `TypeCorrect` for any message
types, attributes, texts, and depth of nesting. `Inv` has three parts (TLC found it
to hold on the instance of `message_calls` before it was proved).

- `FrameHolds`: the stream of a call that renders has gathered the text of its message
  so far, or has failed, and then because a null pointer was written or because the text does
  not fit (`Gathers`). Failure never heals, since text only grows. From
  this `SubmitsComplete` follows: at the end of `Render` a stream submits if and only
  if the record with its attributes is complete, and then exactly that text.
- `StackHolds`: an inner call has a higher number than the calls around it, and was
  made by the step its outer call is still in. So no event of another call can be
  mistaken for one of its own, and an outer record cannot be submitted while an
  inner call runs.
- `PastHolds`: what each call under way has done so far (nothing while it renders;
  its record and its trace, once each, when it traces), and that a call that has
  returned has done everything once.

`AttributesReadBack` needs no more of the behaviour than `RecordsMatch`: it is a
lemma about the text (`ReadsAttributes`, by induction on attributes and on
their characters): an escaped value has no bare quote, so the reader ends a value
exactly where its attribute ends.

Assumptions: bounds and sizes are natural numbers; routes are Booleans; a message ID is not
empty, as `IsValidMessageId` requires (`modelled_message.h:32-51`, a
`static_assert`); attributes are locations and tags, whose characters are bytes of
their own and whose lines are digits, so that neither is taken for the text the
logger adds between them.

### QEMU session

`QemuSessionProofs` proves `TypeCorrect` for any scripts at a time and any
behaviour of the connection: a PID file names a process that was started, a port is
held by a live one. `SessionsAreRecorded` and `SessionsAreEnded` are about scripts one
after another (`Slots` has one element) over a connection that works while the
guest is up (`~SshMayFail`): without these they are false, see section 5. Any number
of scripts, and the guest, gdbserver or tunnel ending at any command, are
included; so are interrupts, after which the properties promise nothing. `Sequential` says for every
command of every script what is known there: the tunnel is the one in the file
or the one in the script's hand (`TunnelIsKnown`), the gdbserver is the one in the
file, and there is none where another is started or the file removed, unless the
guest is going down (`GdbserverIsKnown`).

### Platform release

`PlatformReleaseProofs` proves `PublishedIsComplete`, `AssetsChangeOnlyDeliberately`,
`InstalledIsOneRelease`, `FailureIsAllOrNothing` and `TypeCorrect`. The
invariant of the publisher says what it has found out and nobody can have
changed since (`Checked`: the tag, the release and the pushed commit, since there is one
publisher; of the tag only that one pushed later makes the run a late one), and what it
has uploaded (`Uploaded`). That of the installer
(`InstallIsSound`, `GotIsSound`) chains the downloads: each file agrees with its
checksum, and bundle and SDK with the manifest that was accepted before them.
Of the publisher's it uses only that each manifest that is uploaded is of builds that
match: the installer is right even if assets change under it. Assumption: Missing is none of the contents, numbers and
releases.

### ESBMC gate

`EsbmcGateProofs` proves `TypeCorrect`, `InstallationExclusive` and `GateSound`.
`CacheIsSound` says that nothing is in the cache, not even in part, that does
not hold; `VerdictsAreSound`, `ProofInHandIsSound` and `EndIsSound` follow a run
from the fingerprint to the gate. `GateSound` assumes that inputs are not edited
between their fingerprint and the end of the proof, `~EditsDuringProof`. With
`EditsDuringProof = TRUE` TLC finds `GateIsSound` violated: the runner hashes
before it proves, and stores the verdict under that hash.

### Only model-checked

Liveness: `EveryCallEnds`, `ShutdownEnds`, `HelloEnds`, `EveryScriptEnds`
and `EveryConfigurationEnds` rest on fairness, which the provers cannot
reason about here. Beyond the assumptions of `SessionsAreRecorded`,
`SessionsAreEnded` and `GateSound` the runs show what happens.

## 5. Findings

- `qemu_transient`. The guide says of `disable-debug-session.sh` "This removes the
  host SSH tunnel and stops guest `gdbserver`"
  (`docs/guides/sdk-cross-build-and-qemu-deployment.md:246`). In sequence and with
  a working connection it does (`qemu_sequential`). But a single failed SSH command
  counts as "gdbserver is not running": the PID file is removed and
  gdbserver runs on, where no later disable finds it.
- `platform_retry`. The guide says "To retry an interrupted upload or
  deliberately replace assets for the same tag and source commit", use
  `--replace-assets` (`docs/guides/publish-platform-release.md:69-70`), and "Initial
  upload failures leave a draft" (76-77). But `publish-platform-release.py:114`
  requires a remote tag of every existing release, and GitHub makes no tag for a
  draft: unless someone pushes the tag by hand, every retry is refused.

Two weaknesses of the debug scripts are known and have no run. A disable beside an
enable can remove the guest PID file just after the enable has written it
(`enable-debug-session.sh:69`). An enable that is killed between starting the
tunnel and writing its PID (98-118, there is no trap) leaves a tunnel that
disable does not know of and that blocks port 2345. `EverySessionIsRecorded` and
`DisableEndsTheSession` exclude it by `interrupts = 0`.

## 6. What is not modelled

- Emplacement into a Result from inside the constructor of a payload that is
  being emplaced into the same Result, and data races on Results or streams: both
  are outside what the documentation allows.
- Uses of a moved-from stream other than its destruction, and calls during
  static destruction: excluded by `logger.h` and the requirements.
- The calendar (`gmtime_r`) and digits: a timestamp is a second in a range and
  its milliseconds. Numbers inserted into a stream are pieces of known size.
- Compile-time checks (`static_assert`, parameter matching, message IDs).
- Error codes beyond their conversion to exceptions: they are immutable pairs.
- Reuse of process IDs. Binaries with different names are debugged one at a time
  in the QEMU runs (`Binaries` has one element; the module allows more).
- Platform release: one version, one publisher and one installer at a time (the
  installer has no lock, so two beside each other can mix); a checkout that
  nobody touches while the publisher reads it. Tags are neither moved nor deleted.
  That image and SDK are built from the same layers, beyond the eight keys that the
  publisher compares (`publish-platform-release.py:46-47`), is the maintainer's duty
  (`docs/guides/publish-platform-release.md:62-64`): `Metadata` may agree for builds that
  do not belong together, and the properties promise no more than that it agrees.
- ESBMC: the inputs that proofs share are one version, hashed once per run. The
  arguments of `add_esbmc_proof` and the manifest are declarative.
- `platform-test-service`, the platform runner, the SDK checksum script, and the
  coverage and report tools run once over their inputs and keep no state.
  Build and Yocto files are configuration.

## 7. Plan

Done: every component that keeps state is modelled; the registry, Result and the log
pipeline are proved to implement their contracts; every safety property that a
run checks is proved, those of the QEMU session for scripts in sequence, that of
the gate for inputs that stay as they are.

Left, in this order:

1. the abstract specification of the release (matching builds, one commit, complete) that
   publisher and installer together implement, and its proof;
2. the same for `LogWith`: that nested calls implement one record and one trace per
   call;
3. two installers or publishers beside each other, once the scripts have a lock to
   be modelled.
