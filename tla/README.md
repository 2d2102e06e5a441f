# Models of workers-rs

TLA+ models of the Rust bindings for Cloudflare Workers, checked with TLC and,
where a property matters for every size of the system, proved with TLAPS. Every
definition is translated from the source; `PROJECT.json` maps each one to its
lines. This file is the inventory of the system, the plan, and the account of what
each module, run and theorem shows.

## The system

workers-rs turns a Rust crate into a Cloudflare Worker. It has two lives: a build
tool that runs on a developer's machine, often several times at once, and a library
that runs in a single-threaded JavaScript isolate in which promises, callbacks and
wasm re-instantiation supply the concurrency.

| Component | Where | State | Operations and interactions | Hard behaviour | What makes it correct |
|---|---|---|---|---|---|
| build lock | `worker-build/src/build_lock.rs` | `build/.tmp` and its mtime, `build/.oldtmp`, `build/`, one heartbeat thread per process | acquire, heartbeat, finish, drop; shares directories with every other worker-build | check-then-act on paths, leases, crashes, failing calls | exclusion while leases hold, own staging, whole publication, no endless wait |
| build pipeline | `worker-build/src/main.rs`, `build/mod.rs`, `build/utils.rs` | the staging directory, the options | pre-process, compile, bindgen, bundle, shim; under the lock | a step of many failing, steps that read what an earlier one wrote | each step's inputs exist, nothing half built is published |
| tool cache | `worker-build/src/binary.rs`, `versions.rs` | per-user cache directories | look up, download with retries, remove other versions | crash in the middle of an extraction, two processes on one cache | a tool that is found is whole |
| emscripten SDK | `worker-build/src/emscripten.rs` | SDK directory, stamp, patch, config | provision, patch, write the stamp | the same, plus a stamp that vouches for all steps | stamped means complete |
| manifest, lockfile, targets, producers | `worker-build/src/build/manifest.rs`, `lockfile.rs`, `build/target.rs`, `producers.rs` | the Rust toolchain of the machine | parse, validate, install parts, rewrite wasm sections | boundary cases of parsing, a machine that has some parts | cargo runs when all is there; a section survives |
| export wrappers and shims | `worker-build/src/main.rs`, `main_legacy.rs`, `js/*.js` | `criticalError`, `instanceId`, one proxy per object | construct, get, apply; reset of the wasm instance | an abort between a lookup and its call, objects older than the instance | no call runs on an object of a dead instance; recovery |
| wasm start-up | `worker/src/init.rs` | the same `initState` | start, panic hook, abort handler | both sides bump `instanceId` | as above |
| TCP socket | `worker/src/socket.rs` | a read, a write and a close that may be under way, stream locks, unread bytes | poll_read, poll_write, poll_flush, poll_shutdown over JavaScript streams | promises settle between polls, calls are abandoned, partial reads, errors | bytes exactly once in order, real end of file, shutdown after writes, no lost wake-up |
| WebSocket | `worker/src/websocket.rs` | event listeners, the event queue, closed flag | events, poll_next, send, close, drop | callbacks during polls, close and error races, memory handed to the runtime | a Close event is the last, messages arrive as they were |
| delay, abort signals | `worker/src/delay.rs`, `abort.rs` | timer, waker, done flag | poll, fire, drop | dropped or moved futures, durations beyond an `i32` of milliseconds | not early where the time fits, cancelled when dropped |
| streams and bodies | `worker/src/streams.rs`, `http/body.rs` | byte counts, inner stream | poll_next, poll_frame | length mismatch found mid-stream | an end without an error means all of it |
| router, request, response | `worker/src/router.rs`, `request.rs`, `response.rs`, `cors.rs`, `http/` | one radix tree per method; bodies that can be read once | add, run; read, clone, convert | fallbacks between methods and patterns, bodies consumed or cloned | the right handler runs, no body is read twice |
| durable objects | `worker/src/durable.rs` | storage, transactions, alarms, the gate | block_concurrency_while, transaction, alarm | futures nobody polls, handlers cancelled between awaits, failing closures | events wait, all or nothing |
| SQL, D1 | `worker/src/sql.rs`, `d1/` | the position of a cursor, bound statements | iterate, bind, batch, run | several iterators over one cursor, a JavaScript number for an i64 | each row once, each statement its own values |
| queues | `worker/src/queue.rs` | batch, ack and retry marks | send, iterate from both ends, ack, retry | raw and typed iterators, delays at two levels | each message once, as asked |
| workflows | `worker/src/workflows.rs` | steps, attempts, closures | do, sleep, wait for event | retries beside attempts that timed out, errors that must not be retried | a step that ended is not entered again |
| errors | `worker/src/error.rs` | none (pure) | from and to JavaScript values | cause cycles, codes | what `From<JsValue>` caught is thrown again the same |
| key-value, R2, cache, fetch options | `worker/src/kv`, `r2`, `cache.rs`, `request_init.rs` | request builders | one call into the runtime each | unset and default options, answers that are null | options survive the conversion |
| event and durable object macros | `worker-macros/src` | none (code generation) | wrap a handler | errors of handlers | the initialisation of an object is not lost |
| small bindings, headers, crypto, dates, FFI declarations, RPC code generation | `worker/src/*`, `worker-sys`, `worker-codegen` | none | one call or conversion each | none | not modelled |

Tests, examples, templates and the benchmark are not part of the program.

## The plan

The order is by what the program's users lose when the component is wrong. All of it
is modelled and checked; what is left is at the end of each line.

1. `BuildLock`, refining `StagedPublish`; proved.
2. `SocketRead` and `SocketWrite`, both refining `BytePipe`; proved.
3. `AbortRecovery`: shims and start-up; proved.
4. `ToolCache` and `Emsdk`, composed with `CrateConfig` and `WasmExports` into
   `BuildPipeline`; proved. Left: composing it with `BuildLock`, whose steps it takes as
   one.
5. `DurableObject`, `Workflow`, `Queue`, `WebSocket`, `Streams`, `Http`, `Databases`: the
   parts of an isolate, looked at one at a time by `MCRuntime`; proved.
6. Conversions: `Options` and `Errors`; `WasmSection`, in the hands of the tools of a
   build (`Producers`); proved. Left: headers, multipart uploads, R2's metadata.

| Module | Instance | Run |
|---|---|---|
| `BuildLock`, `StagedPublish` | `MCBuildLock` | `build_lock_*` |
| `SocketRead`, `SocketWrite`, `BytePipe` | the first two themselves | `socket_read`, `socket_write` |
| `AbortRecovery` | itself | `abort_recovery`, `abort_recovery_doc` |
| `BuildPipeline`, which extends `CrateConfig`, `WasmExports`, `ToolCache`, `Emsdk`; beside it `Producers`, which extends `WasmSection` | `MCBuildPipeline` | `build_pipeline`, `lockfile_doc` |
| `DurableObject`, `Queue`, `Workflow`, `WebSocket`, `Streams`, `Http`, `Databases`, `Options`, `Errors` | `MCRuntime` | `runtime` |

Modules that are proved about declare no RECURSIVE operator, keep one action per
operation, and state invariants as conjunctions of named parts; proofs live in a
module of their own, `...Proofs`. An operator whose comment starts with "Mutant of" is
its neighbour with a plausible mistake; `PROJECT.json` names one for each property, and
the others are there to be tried by hand: each breaks the property that its component
contributes to.

## BuildLock

**Model.** A process is a control point `pc`, the time `waited` in `wait_for_stale`,
the age `seen` of the mtime it last read, the entries it has `todo`, the one it is
moving (`cur`), and its heartbeat thread `hb`. The disk is `.tmp` (whether it exists,
the age of its mtime, the author of each entry), `.oldtmp`, and the author of each
entry of `build/`. Each file system call is one action, in program order: `Start`
(create_dir_all), `Stat`, `Judge` and `CheckDeadline` (a round of `wait_for_stale`: the
mtime, the clock read for its age, the clock read for the deadline), `CheckTmp`, `RemoveOldTmp`, `RenameTmp`, `RemoveTmp` (the
`or_else`), `CreateTmp` (which spawns the thread), `Heartbeat`, `CreatePkgDir`,
`WriteEntry`, `BuildFails`, `BeginFinish`, `JoinHeartbeat`, `ReadDir`, `ClearDest`,
`MoveEntry`, `RemoveTmpDir`. `Crash` kills a process and its thread at any point.
With `IoErrors` every call may also fail for no reason of the protocol. `Entries` says
which of the top-level names the build of each process produces: its arguments fix its
mode, and modes differ in what they publish. What a build writes and removes again within
its staging directory is not modelled here (it is in `BuildPipeline`).

**Time.** One tick is the heartbeat interval; ages saturate at the threshold they
are compared with, so time is unbounded and the state space finite. Thresholds are
scaled down from 5 and 300 ticks: what matters is that a lease outlives more than
one interval and that a wait outlives a lease, which is the assumption
`TimeAssumption`.

**Timing hazards.** Nothing in a file system excludes two processes for longer than
a call, so the lock is only right while things happen in time. The history variable
`hazards` records the four ways in which they may not: two processes take over at
once (`overlap`), a process acts on an mtime that is no longer there (`staleRead`),
the lease expires under a build (`lateBeat`) or under a finish, which has stopped its
heartbeat (`slowFinish`). Safety is stated for as long as none has happened; that the
four suffice is what the proofs establish, and run `build_lock_doc` shows that the
first is real.

**Runs.**

| Run | Instance | Shows |
|---|---|---|
| `build_lock_safety` | 2 processes, 2 entries, crashes, I/O errors | `TypeOK`, `Exclusive`, `OwnStaging` (a build finds its staging directory, live and its own), `WholeBuild` (a finish that succeeds has published every entry of its mode) |
| `build_lock_refines` | 2 processes, 2 entries | the lock implements `StagedPublish` |
| `build_lock_timely` | 2 processes, 2 entries, one heartbeat per interval, no I/O errors | `HeartbeatKeepsLease` |
| `build_lock_live` | 2 processes, 1 entry | `WaitEnds`, `AbandonedIsReclaimed` |
| `build_lock_doc` | 2 processes, 1 entry | violated: a process moves away a live `.tmp` without having waited for it |

Two entries are the least with which a publication can be half done; two processes
meet in every pair of control points, and for more of them there are the proofs. The lock
treats processes alike but their builds do not: where there are two entries, one process
produces both and the other only one, so that what the one published is still there
after the other's success, and no symmetry is used.

**Fairness.** Time passes; a process that has started and a heartbeat thread are
scheduled; a finish goes on. Nothing is assumed of the compiler, which may hang, nor
that anybody starts or crashes a build.

**Finding.** The module documentation says that a process that finds a recent `.tmp`
waits for it to go stale. `acquire` looks twice, and waits only at the first look: of two
processes that find no `.tmp`, the faster creates its own, the slower finds that one at
its second look and renames it away, though its lease is live and a build is working in
it (`build_lock_doc`; two that both judged an abandoned `.tmp` stale can do the same).

**Worth knowing.** `finish` replaces the entries that it staged and removes no other: what
an earlier build in another mode published, and this one does not produce, stays in
`build/`. `WholeBuild` and `StagedPublish` say so: success means all of one's own entries,
not that there are no others. And the age of `.tmp` and the deadline are judged by two
reads of the clock (`build_lock.rs:174`, `182`): a waiter that found the lease alive and
is then suspended until both the lease and the deadline are over gives up on a `.tmp` that
nobody holds. It is the one exception in `AbandonedIsReclaimed`
(`CaughtBetweenReads`), and only a suspension of at least the rest of the lease, at that
point and at the end of the wait, brings it about.

**Proved** (`BuildLockProofs`), for any sets of processes and entries, any thresholds
that satisfy the assumptions, with or without I/O errors: `TypeCorrect`,
`LockExcludes`, `StagingIsOwn`, `PublishesWholeBuild`, `LockRefinesPublish`, and,
without I/O errors, `HeartbeatSuffices`. The inductive invariant `IInv` is `TypeOK`,
`Authored` (an entry is only ever the work of a build whose mode produces it) and, while
no hazard has happened, `Good`: processes in takeover or holding are
alone (`Alone`), and each is as far as its control point says with `.tmp`, its lease,
its thread and its entries (`Progress`). `Exclusive` alone is not inductive: that a
newcomer does not pass `wait_for_stale` follows from the lease of the holder being
live, which follows from the history of what was written and when. `HeartbeatSuffices`
adds `Beats`: while the thread of a build sleeps, no time has passed since its touch.

## SocketRead and SocketWrite

**Model.** The two halves of `Socket` share nothing but the connection, so they are
two modules. Bytes are positions in the stream. In `SocketRead` the socket holds
`reading` (the `Reading` enum), the bytes `held` by a settled promise or by
`Reading::Ready`, and the stream's lock; `PollRead(k)` is one call of `poll_read` with
room for `k` bytes, its disjuncts the paths through it. In `SocketWrite`, `PollWrite`,
`PollFlush` and `PollShutdown` are one call each, built from the parts the code
shares (`EndWrite` is `handle_write_future` on a settled promise). The JavaScript
streams are external: chunks arrive, promises settle, the connection goes away.
A promise is never settled in the poll that made it, because its callbacks run as
microtasks; the code depends on it nowhere, but it makes the first poll pending.

The caller is modelled too. It may poll at any time, abandon a waiting call (as
`select!` does) and make another, with any buffer; `patient` is constant in a behaviour
and says that it does not. Two things come of impatience, recorded in `mishaps`: a flush that finishes
an abandoned write drops its length (`unreported`), and a later `poll_write` answers
with the length of the abandoned buffer, which may exceed its own (`overrun`).

**Runs.** `socket_read` (7 bytes, chunks of 1 and 3, buffers of 0 to 2: a chunk that
fits, one that needs two polls, an empty buffer) and `socket_write` (6 bytes, buffers of
0, 1 and 3, patient callers and others). The bounds are on data only: the control states
are all reached. A reading task may stop for good (the exception of the last
paragraph), so deadlock is not checked there.

**Fairness.** Promises of a stream that is gone settle and woken tasks are polled; the
peer need not send. For writes the stream is assumed to settle what it was given.

**Abstraction.** `BytePipe` is one direction of a socket without promises, locks or
buffers: bytes are put in, come out in order, and news (the end, an error, that nothing is
left) is told only when all bytes are out and for a reason. The reading half implements it
with the bytes the stream has `given` and the caller has `got` (`ReadsAPipe`); an
exception counts as an error. To the writing half's caller, what comes out is word of what
the stream has written: `sunk` is put in, `reported` comes out, a shutdown that is answered
is the end, and a flush says that nothing is left (`PatienceMakesAPipe`). Abandoned calls
break that, by `unreported` lengths, so it is claimed for a patient caller; what holds of
any is `Exact`, `WriterFree` and `CloseWaitsForWrite`.

**Proved**, for any sizes: `ReadsInOrder`, `ReadThrowsOnlyAfterError`, `WritesAreExact`,
`WriterIsFreed`, `ShutdownWaitsForWrite`, `PatienceSuffices`, both type invariants, and,
which no run checks, `ReadEndIsReal` and, of any caller, `ShutdownCloses`. The
strengthenings say that a read or write under way has a promise and the lock, and where
the bytes between stream and caller are. `ReaderIsAPipe` and `PatientWriterIsAPipe` are
the refinements, step by step: of the reader for streams without empty chunks, from the
same invariant, since no bytes are held where news is told (`NewsIsLast`); of the writer
from three facts more. A write under way is the call waited in (`WaitedIn`); a stream that
is closing does so for the close under way, so that a close that is refused or fails
found it closed or errored (`Refusals`); and so did a write that failed (`Failures`).

**Worth knowing.** A rejected `read()` leaves its reader locked, and `get_reader` has no
`catch`: polling again after an error throws instead of returning an error. That is
the one path to `thrown`, and `ThrowsOnlyAfterError` says so. Empty chunks, which byte
streams do not produce, would look like the end of file.

## AbortRecovery

**Model.** One JavaScript segment is one action: the runtime constructs an object
through the class proxy (`Construct`), looks a method up (`LookUp`, the `get` trap),
calls what it looked up, perhaps much later (`Apply`), resumes a call whose promise
has settled (`Resume`), delivers the rejection of an async method (`Rejected`),
cancels a call that can never end (`Cancel`), or evicts an object (`Evict`). The state
is `host` (the number of the wasm instance, whether it has aborted, whether
wasm-bindgen has a reinitialisation scheduled, and the `criticalError` and
`instanceId` of `initState`), the target of each proxy, and the calls under way. A
segment threads the host through its steps in program order: `CheckReinitialize`, the
exported constructor or method, `Get` for `this.__wbg_ptr` inside the method,
`HandleMaybeCritical` in the catch. Code may end with a value, an exception, a panic
or a trap at every point where it runs. An exception may be an error that the code
returned, which the glue throws, or one of JavaScript's that passes through wasm: without
unwinding that costs the instance as a trap does (`test/tests/panic.spec.ts:214-230`), and
a promise of that instance does not settle any more. `host.unwinds` is the build option and selects
the shim, and both are checked in one run.

**Assumed of wasm-bindgen**, which is not part of the repository: an abort calls the
registered handler (`main.rs` asks for `--force-enable-abort-handler`), a scheduled
reinitialisation happens before the next exported function or constructor runs, and
code of an instance that was replaced is not resumed. Whether `__wbg_reset_state`
forgets a scheduled reinitialisation is left open. An object's memory is reduced to
whether a method has run on it. `MaxGen` bounds the instances in which code still
fails; three are enough for a reset by either party after a reset by the other.

**Runs.** `abort_recovery`: `IdTellsInstance` (a proxy's number is current exactly when
its object is), `StartsInCurrent` (no call starts with a pointer into another
instance or in a dead one, however stale its lookup), `ObjectKept` (a used object is
given up only with its instance), `OthersAreSpared` (with unwinding, only an abort
replaces the instance), `Heals`. For `Heals`, requests are assumed to keep coming: the
code replaces a dead instance only when it is asked for something.
`abort_recovery_doc` is violated: the README says that without `--panic-unwind` a panic
terminates the isolate, but the default shim recovers.

**Proved** (`AbortRecoveryProofs`), for any number of objects, calls and instances:
`RecoveryTypeCorrect`, `IdIsTelling`, `CallsStartInCurrent`, `ObjectsAreKept`,
`OthersKeepTheirInstance`. The argument is that every step of a segment keeps instance
and number together or advances both (`Leads`), so that what fits a host fits every later
one (`Fits`), and that a dead instance always has a reinitialisation scheduled (`Sound`).
For `OthersKeepTheirInstance` the converse is needed where panics unwind: only a dead
instance has one scheduled (`Calm`), none has once an export was entered (`Settled`), and
from there to the end of a segment the instance stays (`Stays`), whatever the segment
constructs or runs.

**Worth knowing.** With the default shim a healthy instance can be reset: after an
exception in a constructor, and when the RuntimeError of an async method is seen only
after another request has already replaced the instance. Calls under way are lost
both times. The `get` trap does not look at `criticalError`, but the abort handler
covers it.

## BuildPipeline

**Model.** A build is the sequence `todo` of its steps, which `MainSteps` puts together
from the options as `main.rs`, `Build::init` and `Build::run` do. The staging directory
maps paths to files; a file is what it imports, what has been done to it, and how it
wires the names it exports. A step has its `Needs` (the files that the code opens), its
`Effect` on the directory, and the conditions under which it `Passes`; any step may fail
for reasons outside, and the process may be killed at any time and begun again with
another command line in a fresh directory, as the lock gives it one. Four parts have
modules of their own:

- `CrateConfig`: options, profiles, crate type, `Cargo.lock`, the `rustc` version, the
  target and the nightly parts. Whatever runs `rustup` is the set of possible results.
- `WasmExports`: how handlers, classes and workflow markers are told apart in generated
  JavaScript, and what the shim does for each. Text is abstracted to declarations.
- `ToolCache`: `get_binary` of concurrent builds. They share the cache without a lock;
  an executable is opened with truncation and then copied, errors of
  `remove_all_versions` are ignored, downloads are retried over what is there, and a
  process may be killed at every point. `cut` remembers which extraction was cut short.
- `Emsdk`: `provision`, each step of which may fail or be killed, removals in part.

**Run `build_pipeline`.** Fifteen builds (crate, command line and environment) in every
mode of the command line, one after another in any order, on a machine that has nearly
nothing and on one that has nearly everything. Either another build uses the tool cache
at the same time, or the SDK is provisioned; the two are independent, and `MCNext` keeps
them apart. Two versions and two patches are the least that can be taken for each other
or be applied in part; two attempts are the least with a retry. It shows:

| Property | Says |
|---|---|
| `InputsAreThere` | a step finds the files it opens, in every mode |
| `PublishedIsWhole` | what is published imports only what is published; beside that there are `package.json` and `.gitignore`, and no leftovers |
| `ShimFitsWasm` | the shim asks the wasm only for what it was built with |
| `EntrypointsAreWired` | every export is wired, and no workflow marker is taken for a method |
| `CompilerIsReady` | cargo runs when target and nightly parts are there |
| `ReturnedIsWhole` | a tool is handed out truncated only if an extraction was cut short for good or is going on |
| `PinnedIsPatched` | a build with the pinned frontend has it whole and patched |
| `FileStaysWhole` | entering the producers leaves the rest of a wasm file as it was |

`ReturnedIsWhole` states an exception because the code has it: nothing marks an
extraction as finished, so the next build takes the rest of one that was killed for the
tool.

In the same run, and instead of a build, `Producers` follows one wasm file byte by byte
through the tools of a build: others append custom sections, producers sections among
them, whole or cut short, and worker-build of two versions (`Releases`) enters itself,
which fails the build when the file cannot be parsed, or when a list got too long for its
length to be written as a u32. `FileStaysWhole`: the other bytes stay, the entry is there
once, the section is read back as it was written, and doing it again changes nothing.
A file and a name are sequences of bytes, and numbers have their 32 bits; that names are
UTF-8 is not modelled, and the names that the code knows are abbreviated. The entries,
which the code keeps in one list and groups when it writes, are kept by field. Three
sections put the producers first, in the middle, last or twice; the sections with 27, 28
and 30 entries and the `Sizes` lie on both sides of every change of width of a LEB128
number up to the largest signed one.

**Finding** (`lockfile_doc`): of several versions of `worker` in `Cargo.lock`, the one
that the crate depends on should be checked; an index that is off by one makes the code
take the first, or fail on a crate whose name is one letter longer.

**Proved** (`BuildPipelineProofs`) of the two parts that keep tools, for any users,
versions and attempts: `CacheTypeCorrect`, `ToolsAreWhole`. The inductive invariant adds `Accounted`: a `partial` file was cut short
for good, or some user is about to open it anew or is copying into it; it assumes only
that there is a version and an attempt. For any set of patches: `SdkTypeCorrect`,
`FrontendIsPatched`. There a stamp alone proves nothing, since
a removal that failed may leave it beside a damaged SDK. The invariant says that a stamp
vouches for the SDK only beside its clang and emcc (`StampVouches`), and what the
provision under way knows at each of its points (`Known`): one that is removing has seen
that one of the three is missing, so nothing that it leaves behind looks complete.

**Proved** (`BuildPipelineProofs`) of the build, for any arguments, environments and
crates:

- `UsesToolCache`, `ProvisionsSdk`: a behaviour of `BuildPipeline` is one of `CacheSpec`
  and one of `SdkSpec`, step by step, so that `BuildGetsWholeTools` and
  `BuildGetsPatchedSdk` follow from what is proved of the two. The version that a build
  asks the cache for is one of those that exist because `step_check_lib_versions` came
  before (`LibsChecked`).
- `CargoIsReady`, `TypeCorrect`, `InputsAreFound`, `WholeIsPublished`, `ShimsFit`,
  `EntrypointsWired`. None of these is inductive: a step is right only because of the
  steps before it, and those depend on the mode. So the order is stated first. `After`
  is the step that follows another for given options and environment, and `Leads` that a
  list of steps is a path along it; lists that `Build::run` and `main` put together from
  parts are paths because their parts are. The inductive invariant is `Ordered` (what is
  left to do leads from its first step to `finish`), `RustIsPrepared` (from the step
  `target` on the target is there, from `nightly` on the nightly parts are),
  `InputIsKnown`, and `DirIsStaged`: for each step the files that the staging directory
  has before it, what they import, how they are marked, and what they wire.

**Proved** (`ProducersProofs`), for every file, list and entry, not only those that the
run makes:

- `LengthsRoundTrip`: every u32 comes back, from as many bytes as were written.
- `ProducersRoundTrip`: `parse_producers` reads back the list that
  `encode_producers_section` wrote, wherever in a file it lies, if its payload is short
  enough for a length. That the lengths inside it are u32 too follows
  (`WrittenIsShort`), because every piece is shorter than the whole.
- `MergesAreClean`: `MergeIsClean` for any bytes and any entry, and so `FilesStayWhole`,
  the property of the run, of the specification. The invariant behind it is only that the
  file stays one of bytes (`IsFile`).

What is hard here is that reading is recursion: over the sections of a file, the fields of
a list, the values of a field, and in the writer's concatenations. Each of these recursive
functions is shown to exist, and to have the values that its equation says, by induction
on a set of numbers; of the library's concatenation (`FlattenSeq`) the same. That the
section is found again where it was written rests on the search depending on the bytes up
to the place it finds and on nothing behind it (`WalkOn`): the walk over the old file and
over the new one is the same up to the producers section, or, when there was none, up to
the end of the old file, and the new section is a `producers` by what was written first.
That entering it again changes nothing follows: what was read back has the entry, so the
list is the one that was written, and so are its bytes.

Assumed of the tools' file: `ReleasesAssumption` and `SizesAssumption`, versions are bytes
and sizes are numbers. Of the build: `SelfAssumption`, the build is one of the users; `InputsAssumption`, a JavaScript
module exports no name twice, or it would not be one; `MachinesAssumption`, the type of a
Rust toolchain.

**Worth knowing.** The comment at `emscripten.rs:80` says that when only `EMSDK` is given
the frontend comes from the pinned SDK; it comes from that `EMSDK`. With `COREDUMP` set,
`wasm_coredump` looks for `index.wasm`, which no step writes: the step fails in every
mode, and `InputsAreThere` leaves it out.

## The runtime library

**Model.** The parts of the `worker` crate share no state, so `MCRuntime` follows one
`subject` in a behaviour; the others stand still. JavaScript, the Cloudflare runtime and
peers are external and may settle, fail or call back at every point where the code
awaits. Values are abstracted to what conversions tell apart.

- `DurableObject`: construction (which may start an initialisation and discard its
  future), the gate, handlers that interleave and are cancelled, also while they hold the
  gate, storage, transactions with early errors and rollback, alarms, resets.
  `EventsWait`, `TransactionsAreAtomic`.
- `Queue`: builders and batch options, a batch read from both ends by typed and raw
  iterators, acknowledgement and retry, failing handlers. `EachOnce`, `ArrivesAsAsked`.
- `Workflow`: steps whose callbacks are closures that JavaScript calls for each attempt,
  also beside an attempt that timed out, an instance that is started again, errors that
  are retried or not. `StepsEndOnce`.
- `WebSocket`: listeners, the event queue, the stream and its drop; text and bytes that
  the runtime sends later than they are handed over. `CloseIsLast`, `SentAsGiven`.
- `Streams`: readers of every kind over chunks, errors and ends; `Delay` with its timer
  and closure, and a time that `as i32` cuts to its lower 32 bits (`MaxI32` stands for
  2^31 - 1); a fetch with an abort signal. `EndIsWhole`, `DelaysAreKept`: a delay whose
  time fits does not end early, any other lasts what is left of its time, or nothing.
- `Http`: routes of several methods and patterns; bodies of requests that are read,
  converted or cloned; responses built, cloned and passed on, and those that JavaScript
  refuses, where the worker panics. `RoutedRightly`, `BodiesAreKept`.
- `Databases`: handles and iterators on one SQL cursor, rows that do not convert, a query
  that throws half-way, which the raw iterator answers and the others do not catch, D1
  statements bound one by one and in batches, integers beyond what a JavaScript number
  holds (`MaxSafe` stands for 2^53 - 1). `RowsInOrder`, `StatementsStayApart`,
  `IntegersAreExact`.
- `Options`: setters in any order, the object the runtime reads, its answers.
  `OptionsArrive`, `AnswersAreHonest`, `RangeComesBack`, `BulkIsWhole`. `None` from KV
  means that nothing is there, or a JSON null that was read as JSON, not more.
- `Errors`: what is thrown becomes an `Error` and is thrown again, causes that are
  cycles. `Rethrown`: the same comes back of what `From<JsValue>` converts; what KV or D1
  wrapped in an error of its own comes back as a new one.

**Run `runtime`.** The properties are the conjunctions `EnginesKeepOrder`,
`MessagesKeepFaith`, `BodiesKeepFaith` and `ArgumentsArrive` of those named above. Two handlers and two steps are the least that interleave; three messages,
one of which cannot be written and one not be read, make batches of two that the
iterators can meet in; three rows, events and prepared statements are one more than two
handles need to disagree; four option calls set an option twice beside two others. Pure
conversions are `probe`s, each an initial state: what may be thrown, of three Error objects
whose causes are each other, themselves, other values or none; integers to four times the
safe range on both sides; ranges of up to three bytes; bulk answers of two keys. With
`MaxI32 = 1` the delays are of nothing, the longest time that fits, the shortest that does
not, and one that comes round to a short one. A subject stops when its event has been
handled or its bound is reached, so deadlock is not checked.

**Proved.** `RuntimeProofs` shows that a behaviour of the whole is, seen from each part, a
behaviour of that part alone (`PartsRun`), and so from one inductive invariant per part
that every promise is kept: `TypeCorrect`, `MessagesArrive`, `BodiesAreWhole`,
`ArgumentsAreMeant`, `EnginesAreOrdered`, for all constants. The invariants:

| Part | Invariant | Why the promise alone is not inductive |
|---|---|---|
| durable objects (`DurableProofs`: `ObjectTypeCorrect`, `EventsAreHeld`, `ObjectTransactionsAreAtomic`) | `Gated`, `Waiting`, `Started`, `Timely` | that no event comes in rests on an initialisation that is not over holding the gate; that an answer starts no idle handler on who holds gate or transaction awaiting it; all-or-nothing on a fulfilled promise being of a closure that returned `Ok` |
| workflows (`DurableProofs`: `WorkflowTypeCorrect`, `WorkflowStepsEndOnce`) | `Final`, `Closures` | a step of which an awaited attempt ended in a NonRetryableError is kept as an error; a future that is awaited has its closure as long as `run` goes on |
| queues | `InQueue`, `InBatch`, `Iterated` | what is in the queue or in the batch was sent as it is; what both ends yielded is exactly what lies outside of `lo..hi-1`, each index once |
| WebSocket | `Hooked`, `Received`, `ClosedByClose`, `OnTheWay` | the listeners are all there while the stream is; what the receiver got and has yet to get is, in order, what was dispatched; after `close` there is nothing; what arrived and what is on its way is, in order, what was sent |
| streams, bodies, delays | `Counted`, `EndsRightly`, `TimerIsOwned` | each item of the source is answered once and what was read is their sum; an end is told only at the length; an armed timer belongs to a delay that is held and has a live closure, and one that fired did so when the time left by `as i32` had passed |
| router, request, response | `Decided`, `IsRequest`, `IsResponse` | a request that a router ran was routed for its method and path among the routes that there are; a body that was read is known as used; of a response's bodies only a stream is ever read, so that what JavaScript does not refuse is whole |
| SQL and D1 | `TakenInOrder`, `BoundAsMeant` | the rows before the cursor were answered, each once, the others not, and `None` only after the last; a statement has the arguments that it was meant to have |
| options | `OptInv` | what would be sent now is what was asked for so far, which a setter preserves because no two options have the same name (`Apart`) |

Pure conversions are lemmas: integers within `MaxSafe` come back exactly and others are
rounded to a neighbour, never to a wrong one in the safe range; ranges and bulk answers
come back. `ErrorsComeBack` is stronger than the run: of any heap of JavaScript values in
which every cause exists, whatever is caught by `From<JsValue>` and thrown again is the same, and
its chain ends, also where causes go round in a circle. A chain is a recursive function, so this is
an induction: the library's induction theorems take an operator, but well-foundedness
(`WFMin`) takes a set, and `SetInduction` is what follows from it. That the function
exists is proved by the same induction (`LinksThereAre`), not assumed.

Assumed of the constants: bounds are numbers (`MaxI32` too), `Delays` are, `MaxSafe` is not zero, the
words that stand for no handler, value or step are none. TLC evaluates each on the run.

**Worth knowing.** Where the code departs from its own words or from what a caller would
expect, the models follow the code, and the properties say so or leave the case out:

- `CfProperties` options that were never set are sent, as their defaults
  (`request_init.rs`, from line 170).
- `SqlCursor::one` throws out of Rust when the query has not one row (`sql.rs:343`).
- `MultipartUpload::complete` answers an object as if it had a body (`r2/mod.rs:421`).
- D1's `all()` passes an error of the runtime on without the cast that the other methods
  make (`d1/mod.rs:415`); `D1Error` cannot be displayed when its cause is an Error object
  (`d1/mod.rs:551`).
- A map put into KV is stored as `{}` (`raw_kv_value`, `kv/mod.rs:260`).
- A `Delay` keeps the waker of its first poll (`delay.rs:40`), and converts milliseconds
  to `i32` (`delay.rs:57`): from 2^31 ms on, some 25 days, it ends at once or after what
  the lower 32 bits say. `DelaysAreKept` states both cases.
- `or_else_any_method` is documented to answer "all methods that are not handled
  explicitly" (`router.rs:199-200`), but a path that another method's route matches is
  answered with 405 before it is asked (`router.rs:401-410`). `RoutedRightly` states what
  the code does: a route for any method answers only where no route that counts does.
- `ByteStream` gives an aborted body as one that ended (`streams.rs:43`), which
  `EndIsWhole` allows for; the other readers give an error.
- A response whose stream was read, and one with a body and a status that has none,
  panics when it is passed on or cloned (`response.rs:575`, `596`).
- A JSON null that is stored in KV is answered `None` by `json` and its bulk form, like a
  key that is not there (`kv/builder.rs:15`, `227`, `403`).
- `KvError::JavaScript` and `D1Error` hold what JavaScript threw, but are thrown again as
  a new Error without its code (`error.rs:347`), of which D1's tells nothing but the cause.
- The SQL iterators other than the raw one, and `SqlCursor` itself, do not catch what
  JavaScript's `next` throws (`sql.rs:268`, `399`).
- Causes deeper than sixteen, or in a cycle, are cut (`error.rs:128`).

## Only model-checked, and not modelled

Liveness (`WaitEnds`, `AbandonedIsReclaimed`, `ReaderLearns`, `CallEnds`, `Heals`) is out
of reach of the prover, which does not reason about ENABLED, and is checked by TLC only.
Every other property of a passing run is a theorem.
There is no liveness in `build_pipeline` and `runtime`: a build and a handler may be given
up at any time, and nothing in the code answers for the network, the peer or the caller.

Not modelled, since nothing happens between their call and the runtime's answer: the
small bindings (mail, analytics, AI, Hyperdrive, secrets, rate limits, artifacts),
headers and forms, crypto and dates, containers, connection set-up of sockets, FFI
declarations. Code generation (`worker-codegen`, the event macro) makes text, which these
models do not look into. Of R2, multipart parts and metadata accessors, and of D1,
sessions and result metadata, are left out. `PROJECT.json` lists each with its status, and
`hazards` what is hard in the code that is modelled. Two hazards have no property: with
the default shim, an async method's error or a constructor's exception may reset an
instance that other requests use; that is what the code does, and nothing in the
repository promises otherwise.
