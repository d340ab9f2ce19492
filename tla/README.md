# A TLA+ model of the UEMPPlugin common library

The repository packages a small C++ library (`src/common`: a logger, a YAML
helper and an HTTPS client) with its third-party dependencies for use from an
Unreal Engine plugin. Its own logic, about 4,000 lines, is in `src/common`.
This directory models the parts of it that keep state, run in several threads
and survive crashes: the logger with its sinks and its queue, the YAML helper
and the HTTPS client.

## 1. Inventory

| Part | State | Operations | Talks to | What is hard | What makes it correct |
|---|---|---|---|---|---|
| `count_rotating_file_mt` sink | files `stem.log`, `stem.1.log`…, the open `FILE*` and its buffer, `log_count_`, `opened_`, `rotated_on_open_done_` | `sink_it_`, `flush_`, `rotate_files_`, `ensure_opened_for_write_` | file system, spdlog `file_helper` | a crash between two file operations, failures nobody reads, parameters that change between runs, torn lines | order, no duplicates, loss at the old end only, bounded files, enough history |
| `LogPrivate` (configuration) | `m_logger`, `m_configFilePath`, the YAML files | constructor, `setConfigPath`, `loadConfigFile`, `loadDefaultConfig`, `deleteOldConfig` | `YamlTool`, spdlog | exceptions half-way, a fallback that fails, what is left for the next call | there is a logger after a call that returned; a good file is not overwritten |
| `LogPrivate` (callbacks) | `m_callbackSinks`, the logger's sinks | `addCallBackSink`, `removeCallBackSink`, `setStreamOutPut` | `ID8Generator` | reload between add and remove, equal identifiers | no message logged after its removal reaches a callback, every attached one can be removed |
| Asynchronous logging | spdlog thread pool, its queue, workers, the registry's pointer | log calls, `shutdown`, reload | registry, sinks | who destroys the pool, full queue, terminate messages, replaced pools | drained before freed, freed once, calls return, order |
| `daily_size_rotating_file_mt` sink | dated files, size, next rotation time | as the count sink, with a clock | file system, clock | day change against size limit, clock changes | a message is in the file of its day, chain in order |
| `daily_count_rotating_file` sink | – | – | – | not included by any file | – |
| Message queue of the pool | ring buffer, two condition variables | `enqueue`, `dequeue` | log calls, workers | unlock before the notification, sizes 0 and −1, wrap-around | a FIFO queue of the configured size, no lost wake-up |
| Two sinks on one set of files | as the count sink, twice | a reload from asynchronous to synchronous logging | file system | no lock orders the two rotations; Windows refuses to move open files | order of each sink's messages, bounded files, no lasting damage |
| `ID8Generator` | counter | `operator()` | clock | counter and clock combined by xor | equal identifiers do no harm |
| `YamlTool`, `YamlNode` | singleton pointer, type registry, documents and files | get, set, setDef, setNull, addNode, pushBack, load, save | yaml-cpp | double-checked locking, look-ups that change a node, a death while saving | registry complete before use, values survive setNullDef, scalars survive setDef, failed calls lose nothing |
| `HttpsClient` | global settings, per-request handle | get, postJson, postForm, setters | libcurl, server | redirect hops, time limits, settings changed during a request | the last response, whole where its end is marked, verification all or nothing, requests return |
| Facades `Logger`, `YamlTool`, `HttpsClient` | none | forward | private classes | – | – |

The sinks are called under their own mutex (`base_sink`), `LogPrivate` and its
static members have no lock at all, and spdlog's queue has a mutex and two
condition variables. `PROJECT.json` lists every part, the hazards with their
source lines and the properties aimed at each.

## 2. Modules

| Module | Models | Run by |
|---|---|---|
| `CountRotatingSink` | `count_rotating_file_mt_sink.hpp` and spdlog's `file_helper`, one file operation per step | `MCCountRotatingSink` |
| `RetainedLog` | what a rotating sink promises, without files | refinement target of `CountRotatingSink` |
| `OverlappingSinks` | two count sinks over the same files, one operation per step, names and open files kept apart | itself |
| `DailySizeSink` | `daily_size_rotating_file_mt_sink.hpp`, with a clock | `MCDailySizeSink` |
| `LogPrivate` | `logger_p.cpp`: configuration, fallback, callbacks | `MCLogPrivate` |
| `AsyncLogger` | log calls, `shutdown` and reload over spdlog's `async_logger`, `thread_pool`, `registry` | `MCAsyncLogger` |
| `MpmcQueue` | spdlog's `mpmc_blocking_queue` over `circular_q`, in the way the thread pool uses it | `MCMpmcQueue` |
| `BoundedQueue` | the queue `AsyncLogger` takes for granted | refinement target of `MpmcQueue` |
| `YamlTool` | `yamltool_p.cpp`: singleton, type registry, operations on a document and its file | itself |
| `HttpsClient` | `httpclient_p.cpp`: requests, callbacks and global settings, with libcurl and the server as environment | `MCHttpsClient` |
| `CountRotatingSinkProofs`, `OverlappingSinksProofs`, `DailySizeSinkProofs`, `LogPrivateProofs`, `AsyncLoggerProofs`, `MpmcQueueProofs`, `YamlToolProofs`, `HttpsClientProofs` | the theorems about the module of that name | tlapm |

`AsyncLogger` composes log calls, pools and the registry and uses a bounded
queue as one step; `MpmcQueue` shows that the real queue is one.
`OverlappingSinks` takes up where `ReloadSync` of `AsyncLogger` leaves the old
pool writing.

Operators introduced by "Faulty variant" are deliberate defects: each replaces
the definition that follows it to show that a property can fail.

### CountRotatingSink

`disk[0]` is `stem.log` and `disk[i]` is `stem.i.log`. A file is the set of its
messages with its number of newlines and whether its last line is torn, all that
`count_lines_in_file_` can see. `buf` is what stdio still holds for `stem.log`.
`pc`, with the return labels `cont` and `ret`, walks through `sink_it_`:
`Log` (rotate_on_open), `CheckEntry`, `EnsureOpened`/`OpenFile`,
`CheckBeforeWrite`, `Write`, and `rotate_files_` as `Close`, `RemoveOldest`,
`Shift`, `Rename`. `FailingOps` names the operations that may fail; where the
code ignores the error code the model carries on, where it throws the message is
dropped. `Restart` destroys the sink and builds another, possibly with other
parameters; `Crash` does so at any step and loses `buf`. A failing `fflush` is
not modelled; a failing `fclose` is.

### DailySizeSink

`disk[d][i]` is file `i` of day `d`, `fd` the day whose base file is open, and
`base`, `next`, `size` are `current_basename_`, `next_rotation_` and
`current_size_bytes_`. `Log` reads the clock and changes the day
(`RotateByTime`), `RotateOnOpen`, `OpenFile`, `CheckSize` and `Write` follow the
rest of `sink_it_`, and `Close`, `RemoveOldest`, `Shift`, `Rename` are the size
chain. A date is the number of its day: the default `yyyy-MM-dd`; a
`date_format` that repeats is not covered. `Local` is what `localtime` makes of
the clock: its offset changes once, by −1, 0 or 1 tick, in the middle of the
first day. `compute_next_rotation_` hands `mktime` the offset of now and adds 24
hours, so the rotation after a day of 23 hours comes an hour late; `Groups`
says which days a message may be filed under. A day's group reaches from the
start of the day to the rotation time of the next one, because a sink that is
built before the rotation time already uses the new date and one that is running
keeps the old one. As in `CountRotatingSink`, exists, remove, rename, open, write
and fclose may fail, a failing `fflush` is not modelled. So may
`file_helper_.size()` (`SizeFails`), after `opened_` has been set: the sink then
takes a full file for an empty one. `stuck` remembers this, and a full base file
that was not moved before a write because exists or rename failed; `spilled`
counts the bytes failed writes left behind.

### LogPrivate

A configuration file is one of ten kinds, told apart by where `loadConfigFile`
leaves it; a file with asynchronous logging is one of them (`async`), the other
kinds have it off. `SinksBuilt` says whether its sinks can be built;
`AfterLoad` and `AfterDefaults` give the state the load and the
fallback leave behind, exceptions included. Calls run one after the other:
concurrent calls race on `m_logger` and are not modelled. What the levels and
the `showCodeLine` flags filter is left out. `Blocks` is the `int` product
`max_size * 8 * 1024` in units of 8 KiB: the default wraps to 0, so a
`rotating_file` sink without `max_size` is refused and its file replaced by the
defaults. `DieSavingDefaults` ends the process between the truncation of the
file and its contents. `NewIds` lets the identifier generator repeat itself.

An asynchronous logger only queues a message. `queued` says that messages wait,
`Deliver` that a worker logs them, and `PoolAfter` what a load does to them: a new
pool ends the old one, which logs what waits first; a load without one leaves
them, and they keep the replaced logger with its callback sinks (`left`) alive.
`gone` is what had been removed when the last of them was logged. A shutdown is a
`Deliver`, and the log calls after it queue nothing. `AsyncLogger` has the steps
inside.

### AsyncLogger

Each load with `async: true` makes a pool. A log call copies `m_logger`
(`Call`), locks the weak pointer (`Lock`), waits for room and posts (`Enqueue`)
and drops its pointer (`Release`). `Drop` decides who runs the destructor:
`PostTerminate` once per worker, then `Join`. Workers `Dequeue` and
`WriteAsync`. The configuring thread runs `Shutdown`, `ReloadAsync` with
`Install`, and `ReloadSync`, which leaves the old pool in the registry. A flush
request takes the same path as a message. A log call does not start during a
reload, when `m_logger` is null, but calls under way overlap it.

### OverlappingSinks

`dir` maps names to files and `fd` is the file each sink has open, so that a
rename or a remove acts on what the name means by then, and a handle keeps its
file. On `"windows"` a file somebody has open can be neither moved nor removed.
`Post` fills the old pool's queue, `Reload` brings the second sink, `Retire` is
the destructor of the old sink with the last queued message. Failures other than
these, crashes and partial buffering are in `CountRotatingSink`.

### MpmcQueue

What a thread does with the mutex held is one step (`Enqueue`, `Dequeue`, going
to sleep included); the notification after the unlock is another (`Notify`),
which wakes any one sleeper or nobody. `SpuriousWake` wakes a thread for no
reason. The size is an `int` converted to `size_t`, here modulo `Word`. Sizes
below −1 make `std::vector` throw in the constructor and belong to `LogPrivate`
(`badType`).

### YamlTool

`Enter`, `Lock` and `Register` are `getInstance` with its two looks at
`s_instance`; the constructor registers one type per step. The operations then
work on a document in one step: nodes are not synchronised, so a program must
take turns at them. A document is its kind, one child and a number of sequence
elements; a scalar is what it can be read as. A subscript of a node that is not
const makes a map of a null node or of a sequence, as in yaml-cpp. When `Crash`
hits `saveAsFile`, a part of the document is in the file (`Prefixes`): nothing, a
shorter document, one with another value for the child where its text was cut, or
something that does not parse.

### HttpsClient

One request per thread: `Start`, `LoadVerify` and `LoadTimeout`
(`applyGlobalConfig`), the transfer, `Finish`. The server redirects, answers,
breaks off or falls silent; a time limit may pass at any moment. A response may
mark the end of its body (`framed`: a length or chunks) or leave it to the end of
the connection; then a connection that breaks off ends the body without an error,
as libcurl sees it over plain HTTP. Headers and
body pieces carry the hop they came from. The setters run between any two steps.

## 3. Runs

| Run | Checks | Bounds and why they are enough |
|---|---|---|
| `CountSinkUniform` | `TypeOK`, `DiscardsOldestFirst`, `RefinesRetainedLog`, `LogReturns` | 3 backups (a chain with a first, a middle and a last link), 5 messages with max_count 0, 1, 2 so that the oldest file is discarded, one restart, one crash; open, write and remove may fail |
| `CountSinkFaults` | `ChainOrdered` | every operation may fail; max_count and max_files in 0..2 change at the restart and the crash |
| `CountSinkStrict` | `StrictLineBound`, `RetentionFloor` | single-line messages, max_count 2, 7 messages against a floor of 4, two restarts, two crashes |
| `DailySize` | `TypeOK`, `DaysOrdered`, `DayGroups`, `SizeBound` | two days of three ticks with the rotation at the second and the change of offset at the third, 3 messages of size 1 or 2 against a limit of 2, one failing operation of any kind, one restart or crash, the clock set back once where the offset does not change; max_files 1 or 2. Without size rotation (max_files 0) nothing is bounded, and messages larger than the limit, which rotate an empty file, are left to the proof |
| `LogPrivateCalls` | `TypeOK`, `DefaultsRescue`, `RemovedNotCalled`, `CallbacksRemovable`, `WorkingConfigKept` | two paths with every content and permission, two identifiers that may collide and are symmetric, two callbacks, messages that wait in the queue across reloads to either mode, one edit, one restart or death while saving |
| `OverlappingSinks` | `TypeOK`, `SinkOrder`, `OverlapBound`, `RecoversAfterOverlap` | 3 messages before the reload and 5 after it against files of 2 and 2 backups: both sinks rotate during the overlap and the new one goes through its whole chain afterwards; both platforms, rotate_on_open and strict on and off |
| `MpmcQueue` | `TypeOK`, `NoLostWakeup`, `ImplementsBoundedQueue`, `EnqueueReturns`, `ItemsTaken` | two producers with 3 messages each and two consumers, so that both sides can have two sleepers; sizes −1 to 3, words of 3 bits (the sizes and the wrap of −1 fit) |
| `HttpsClient` | `TypeOK`, `ResponseComplete`, `VerificationAsSet`, `RequestsReturn` | the real limit of 5 redirects, a header that a response may or may not have, a body of two pieces with or without a marked end, one status (nothing branches on it but `ok()`), no limit and a refused one against the 30 seconds at first, two requests of one thread and two calls of the setters from others; requests of several threads share nothing but the settings |
| `YamlTool` | `TypeOK`, `RegistrySettled`, `ValuesKept`, `CallReturns` | two threads making the first call, all four types and one that is not registered, one death of the process and so a second first call |
| `AsyncPools` | `TypeOK`, `DrainedWhenJoined`, `DestroyedOnce`, `QuietShutdownDrains` | two threads with two messages each, two workers, a queue of one, two pools, one shutdown; threads and workers are symmetric |
| `AsyncProgress` | `ThreadOrder`, `CallsReturn`, `PostedIsWritten` | one worker per pool, a queue of two that fills up, a reload and a shutdown |
| `AsyncShutdown` | `ShutdownDrains`, violated | one message per thread |

Deadlock is checked for the single sinks and the queue is covered by its
liveness properties. It is not checked where a program that has made all its
calls has nothing left to do; `CallsReturn`, `EnqueueReturns`, `RequestsReturn`
and `CallReturns` say that nobody is stuck inside a call.

`AsyncShutdown` is violated: `shutdown` returns at once when another thread is
inside a log call; that thread drains the queue later, although the header says
that shutdown waits for the queue. `QuietShutdownDrains` is the promise the code
does keep.

Behaviour the models contain, and that no property forbids because the code does
it:

* If the defaults cannot be loaded either (a log directory that cannot be
  written), `loadDefaultConfig` swallows the exception with `m_logger` null and
  the next log call dereferences it (`Log` of `LogPrivate`). `DefaultsRescue`
  states when this cannot happen.
* A reload of the configuration makes a logger without the registered callbacks,
  and an empty list of sinks one without the console sink that was just made.
* After a reload from asynchronous to synchronous logging a callback may get
  messages after its removal: those that waited in the queue still belong to the
  old logger, and `removeCallBackSink` takes the sink out of the new one.
  `RemovedNotCalled` is about messages logged after the removal.
* `setConfigPath` with the path in use and `isDeleteOldConfig` deletes the file
  just loaded.
* `strict_count_on_open` bounds messages; a message of two lines makes a file
  longer than `max_count` lines.
* A daily file exceeds `max_size` when exists or rename fails for the base file
  before a write, when `size()` throws, and by the head a failed write leaves;
  `SizeBound` says that nothing else does it.
* While two sinks overlap a file can reach twice `max_count` lines on POSIX, and
  more on Windows, where the full file may refuse to be moved; the stale removal
  of a rename's target can delete the newest backup. `RecoversAfterOverlap` says
  that this ends with the overlap.
* A queue size of 0 blocks the first log call for ever and −1 swallows all
  messages: `BoundedQueue` says so.
* `saveAsFile` does not notice that the file cannot be opened; an empty file
  loads as a null document and `loadFile` returns true. A death in `saveAsFile`
  may leave a part of the document, which loads as a shorter one or not at all.
* `setDef` throws on a scalar that cannot be read as the type of the default,
  where the comments at `yamltool_p.h:144` and `yamltool_p.cpp:181,186` announce a
  write, and replaces a map or a sequence. `ValuesKept` states both.
* A response whose body ends with the connection looks complete when it breaks
  off.
* Headers that only an earlier hop of a redirect sent stay in the response.
  Without a positive timeout a server that falls silent keeps a request for ever.

### Fairness

`LogReturns` assumes that a thread inside `sink_it_` goes on: straight-line code
under a mutex nobody else keeps. `CallsReturn` and `PostedIsWritten` assume weak
fairness for each thread inside a call, each destructor and each worker, as the
operating system's scheduler gives it; so do `EnqueueReturns` and `ItemsTaken`,
which assume nothing about spurious wake-ups or about the sleeper `notify_one`
picks. `CallReturns` assumes strong fairness for the mutex of `getInstance`: a
thread that finds it free again and again gets it. `RequestsReturn` assumes that
a server that has not fallen silent goes on answering and that a time limit
passes some time. No thread is assumed to start a call, except that a worker asks
for its next message. The
number of messages is bounded, so the runs do not speak of a thread that starves
at a full queue while others keep filling it.

## 4. Proofs

Every invariant and every action property of the passing runs is also a theorem,
for every value of the constants: any number of threads, workers, pools, sinks'
backups, messages, restarts, crashes and failures. `ConstantsAssumption` of each
module gives the types of its constants only. Further assumptions are
hypotheses of the theorem and named below; they restrict configurations and
failures, and the configuration of the run that checks the property satisfies
them.

In each module the types come first: `TypeOK`, with a control invariant that says
what a label implies (`ControlInv`, `LabelInv`), is inductive, and the other
invariants are proved relative to it.

### CountRotatingSink

* `TypeCorrect`: `ControlInv` bounds the index of `rotate_files_` by the number of
  backups while files are moved.
* `ChainAlwaysOrdered`: `ChainOrdered` needs nothing more than the types. The
  steps are reduced to six effects on the sets of messages (nothing changes,
  sync, append, lose, remove, move by one slot) and each effect keeps the order.
* `SinkImplementsRetainedLog`: every step is a step of `RetainedLog`. It assumes
  `MovesSucceed` (exists, rename and fclose do not fail) and `SameBackups` (all
  configurations have the same number of backups): without them a file in the
  middle of the chain can be overwritten and TLC finds the counterexample. The
  invariant `VacantInv` is what makes it true: the slot a file is about to be
  moved to is vacant unless it is the last one, so a rename that replaces a file
  only ever replaces the oldest, also when a crash interrupted an earlier
  rotation and left a gap.
* `OldestDiscardedFirst`: from the refinement argument, under the same
  assumptions.
* `LinesAlwaysBounded` assumes `OneLine` (messages of one line; exists, rename and
  write do not fail) and `StrictLimit` (every sink has strict_count_on_open, the
  same positive limit and a backup, and can read the file it counts). `LinesInv`
  adds to the bound that `log_count_` is never less than the lines of the open
  file, those another process left in it included; `ContentInv` that a file that
  is not there holds nothing and that the buffer holds whole lines.
* `HistoryAlwaysKept` assumes `OneLine` and `SameLimits` (the same limits for
  every sink, none with rotate_on_open). `FloorInv` says, for every i, that the
  open file and the i newest backups hold the newest `log_count_ + i * max_count`
  messages, and while files are moved where the i-th newest is, one slot further
  or not yet.

### OverlappingSinks

* `TypeCorrect`: names are distinct, and there are more files than names and
  handles, so that open finds an unused one (by counting).
* `SinksAlwaysOrdered`: `OrderInv` adds that files under newer names than the one
  a sink has open hold none of its messages. That is why a handle may be carried
  along the chain by the other sink's renames.
* `OverlapAlwaysBounded`: `BoundInv` adds that a sink's counter is not less than
  its own lines in the file it has open and that, on POSIX, it never opens a file
  that it has written to: after its rotation stem.log is another file.
* `HistoryAlwaysRecovers`: `RecoveryInv` has three parts. `SoloInv`: the old sink
  has nothing open when it is gone. `AloneInv`: from then on the open file is the
  one named stem.log, and each move finds its target free or last. `CoverInv`: the
  counting argument of `FloorInv`, over the messages since the new sink opened a
  file.

### DailySizeSink

* `TypeCorrect`.
* `DaysAlwaysOrdered`: `OrderInv` adds that while the clock is not set back the
  current day is not in the future and no later day has a message yet.
* `DayGroupsAlways`: `NextInv` says that every local time before `next_rotation_`
  lies in the group of the current day; lemma `Rotation` shows that
  `compute_next_rotation_` makes it so, for any length of the day, rotation time
  and change of offset by one tick. The group of the day with the change to
  daylight saving time ends one tick after the rotation time, as the code does.
* `SizesAlwaysBounded` assumes `SameSize` (the same max_size for every sink, and
  all of them rotate by size). Until the sink is `stuck`, `SizeInv` says that the
  open file and its buffer have no more bytes than `current_size_bytes_` and
  `spilled` together (`CountedInv`), that a message about to be written finds room
  or an empty file (`RoomInv`), and the bound itself (`FitsInv`). It needs that
  files that are not there have no bytes and files without bytes no messages
  (`Solid` in the type invariant).

### LogPrivate

* `TypeCorrect`.
* `DefaultsAlwaysRescue`: from the types and the effect of `AfterDefaults`, by
  cases over the configuration calls.
* `RemovedNeverCalled`, `CallbacksAlwaysRemovable`: `CallbackInv` adds that every
  sink is older than the next one, so that a new callback is not one that was
  removed, and that a sink is registered under the identifier it was given.
  `QueueInv` adds for the queue that a message was logged with the removals made
  by then and that an asynchronous logger leaves no replaced one to it: a logger
  is replaced with sinks that exclude all that was removed.
* `WorkingConfigAlwaysKept`: an action property, from the types.

### AsyncLogger

* `TypeCorrect`.
* `DestroyedAlwaysOnce`: `LifeInv` says that a pool without strong pointers is
  being destroyed by exactly one thread or has been, and only then.
* `DrainedAlwaysWhenJoined`: by `DrainInv` nothing but terminate messages follows
  a terminate message in a queue, because only a pool without strong pointers is
  sent them; so a worker ends after the last message, and a message that was
  posted is written, in a hand or in the queue.
* `QuietShutdownAlwaysDrains`: `OwedInv` says that what a shutdown that met no
  log call owes is written, or its thread is destroying the pool.
* `ThreadOrderAlways`: `OrderInv` orders a thread's messages from the written ones
  through the worker's hand to the end of the queue; `NumberInv` that each was
  posted to one pool at most.

### MpmcQueue

* `TypeCorrect`: `RingInv` relates the ring to the size (one spare slot, no
  overrun).
* `QueueImplementsBoundedQueue`: the contents of the ring, read from head to tail
  modulo its slots, are the abstract queue; lemmas about indices modulo the number
  of slots show what push and pop do to them.
* `WakeupsKept`: `NoLostWakeup` is inductive given the types and `RingInv`. Its two
  halves, workers and producers, are proved apart by counting sleepers and
  notifications.

### YamlTool

* `TypeCorrect`.
* `RegistryAlwaysSettled`: by `SingletonInv` a thread that registers types holds
  the lock, and once the pointer is set all types are registered and nobody
  registers.
* `ValuesAlwaysKept`: an action property, by cases over the operations: what
  `setNullDef`, `setDef` and calls that throw, decline or read keep.

### HttpsClient

* `TypeCorrect`.
* `VerificationAlwaysAsSet`: by `VerifyInv` both options have one value, which the
  setting has had during the request, from the load on.
* `ResponsesComplete`: by `ResponseInv` the headers are those of the last hop from
  the first piece of the body on, and a transfer that succeeded has all pieces if
  their end is marked.

### Only model-checked

The liveness properties (`LogReturns`, `CallsReturn`, `PostedIsWritten`,
`EnqueueReturns`, `ItemsTaken`, `CallReturns`, `RequestsReturn`): fairness is out
of the prover's reach. `ShutdownDrains` is violated.

## 5. Plan

1. `CountRotatingSink`, `RetainedLog`, `LogPrivate`, `AsyncLogger`,
   `DailySizeSink`, `OverlappingSinks`, `MpmcQueue`, `BoundedQueue`,
   `HttpsClient`, `YamlTool`: done.
2. Theorems for the invariants and action properties of the runs: done.
3. Callbacks that log, and the unsynchronised accesses of `LogPrivate`.
4. Weaker hypotheses where the code allows them: `SizesAlwaysBounded` and
   `LinesAlwaysBounded` for sinks whose limits only grow.

## 6. Not modelled

`daily_count_rotating_file_sink.hpp` (included nowhere), message formatting, the
hash of `ID8Generator` (whether two of 62^8 identifiers meet is a matter of
probability; the models let them meet), the facades (they only forward), build
scripts and tests. Callbacks that log and concurrent calls of the unsynchronised
methods of `LogPrivate` are undefined or unbounded by the code itself and are
listed as hazards. The vendored libraries (OpenSSL, curl, yaml-cpp,
nlohmann-json, spdlog), which make up almost all lines of the repository, are
third-party code; modelled are the parts this code's behaviour depends on,
spdlog's queue, thread pool and `file_helper` above all.
