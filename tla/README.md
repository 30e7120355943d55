# Verification of the build root

The repository is a Chromium-style `build/` directory (the *buildroot*): GN
templates and toolchains, one-shot build actions in Python, hooks that a checkout runs after each sync,
and, under `android/`, the programs that install a build on devices and run its
tests. Most of it transforms files once and exits. The parts that keep state,
share it between threads and processes, or have to survive failures are the
Python and Java programs under `android/` and the hooks; that is where these
specifications look. Nearly all lines of C and C++ in the repository are
vendored Vulkan headers, generated elsewhere; the rest are precompiled headers,
platform macros and the default options of sanitizers. None of it is this
project's own logic, and none is modelled.

Paths below are relative to `src/`.

## 1. Inventory

### Parts that are modelled

| part | source | state | operations | module |
|---|---|---|---|---|
| Test collection | `android/pylib/base/test_collection.py` | the list of waiting tests, the number of unfinished ones, an event | `add`, `_pop`, `test_completed`, `__iter__` | `TestCollection`, `CollectionWorkers`, `TaskPool` |
| Dispatcher | `android/pylib/base/test_dispatcher.py`, `utils/reraiser_thread.py`, `utils/watchdog_timer.py`, `base/base_test_result.py` | runners, one thread each, shared or own collections, results, exit code | `RunTests`, `_CreateRunners`, `_RunAllTests`, `_RunTestsFromQueue`, `_TearDownRunners`, `JoinAll` | `TestDispatcher`, `TestLedger` |
| Local device run | `android/pylib/local/device/local_device_test_run.py`, `gtest/local_device_gtest_run.py`, `utils/parallelizer.py` | tests left, the last result of each that is no pass, results of the try | `RunTests`, `run_tests_on_device`, `_CreateShards` | `LocalDeviceTestRun`, `TestLedger` |
| Timeouts and retries | `android/pylib/utils/timeout_retry.py`, `reraiser_thread.py` | the number of the try, a child thread and a watchdog per try, one shared result cell | `Run`, `WaitFor`, `JoinAll`, `LogTimeoutException` | `TimeoutRetry` |
| Port allocation | `android/pylib/ports.py` | a counter file and a lock file on disk | `AllocateTestServerPort`, `ResetTestServerPortAllocation` | `PortAllocation`, `PortPool` |
| Staleness check | `android/gyp/util/md5_check.py` | the record file of a build action | `CallAndRecordIfStale`, the queries of `Changes` | `Md5Check` |
| Incremental install | `android/incremental_install/installer.py` and the Java classes `BootstrapApplication`, `ClassLoaderPatcher`, `LockFile` | lock files and pushed files on the device, the host's device cache, the app's own copies with their runtime locks | `Install`, `Uninstall`, `attachBaseContext`, `safeCopyAllFiles`, `LockFile.*` | `IncrementalInstall` |
| Landmines and clobber | `landmines.py`, `clobber.py` | `.landmines`, the build directories with `args.gn`, `build.ninja` and `build.ninja.d` | the landmines hook: `main`, `clobber_if_necessary`, `clobber`, `delete_build_dir`, `delete_dir`, `extract_gn_build_commands` | `Checkout`, `Landmines`, `Hooks` |
| Sysroot | `linux/sysroot_scripts/install-sysroot.py` | the image and its `.stamp` | `InstallSysroot` | `Checkout`, `Sysroot`, `Hooks` |
| Flags | `android/pylib/flag_changer.py`, `android/pylib/instrumentation/test_runner.py` | the command line file of a device, `_orig_line`, `_current_flags` | `AddFlags`, `RemoveFlags`, `Restore`, `_TokenizeFlags`; the runner's `SetUp`, `TestSetup`, `TestTeardown`, `TearDown` | `FlagChanger`, `InstrumentationFlags` |

How they interact:

* `RunTests` gives every runner thread a `TestCollection` to iterate over: one
  for all of them when tests are sharded, one each when they are replicated.
  `TestDispatcher` and `LocalDeviceTestRun` therefore *extend*
  `TestCollection` and use its operators; `CollectionWorkers` studies the
  collection alone, with the most general threads.
* The threads are `ReraiserThread`s, joined by polling under a watchdog
  (`JoinAll`) in the dispatcher and in `timeout_retry.Run`, and without a
  watchdog in `SyncParallelizer.pMap`. An exception of a thread is kept and
  raised again in the joining thread.
* A device call (adb, a test on the device) is code outside the repository:
  it returns anything of its type, raises, or never returns.
* Ports and md5 records are files shared between processes. The installer and
  the app's processes share only files on the device.
* A sync runs the hooks one after the other, the landmines first, and ends at
  the first that fails; only then are the directories built. Both hooks decide
  from a file that an earlier run left (`.landmines`, `.stamp`) whether
  anything is to be done.
* The instrumentation runner changes the flags of its device through one
  `FlagChanger` per session; the file on the device outlives the session and
  is what the next one takes for the original.

### What makes them hard

* *Threads*: the collection's event is set and cleared under a lock but
  awaited outside it; a thread that dies has to hand its test back.
* *Timeouts*: an expired watchdog abandons a thread, it does not stop it; the
  abandoned thread goes on beside its successor and writes the same cell.
* *Failures*: a device disappears at any point of set-up, run or tear-down,
  and its tests must be run elsewhere or reported.
* *Files and crashes*: a process is killed between two writes; a lock file is
  unlinked while it is held; a copy is half written.
* *Order*: an install overtakes a starting process; two files have to be
  released in one order and taken in the other.
* *Stale records*: a stamp or a record is trusted although what it vouches for
  was taken apart by a script that did not finish.

### Parts that are not modelled

`PROJECT.json` lists all of them with the reason. In short:

* *Code that cannot run under Python 3*, which the repository otherwise
  requires. A model of it would describe states the program never reaches.
  - port forwarder: `forwarder.py:106` splits bytes at a `str`;
  - test server spawner: `chrome_test_server_spawner.py:301` calls
    `headers.getheader`;
  - symbolizer: `elf_symbolizer.py:323` writes text to a binary pipe;
  - remote devices: the configuration of a test is written as text to a binary
    temporary file;
  - perf tests and the upload to the flakiness dashboard: both use `file()`,
    and the dashboard's histories are bytes that `StripJSONWrapper` cannot strip.
* *Pure transformations and wrappers of other programs*: the other scripts of
  `android/gyp`, GN helpers and generators, Apple and Windows toolchain
  scripts, profile and lint conversion, emulator, adb commands.
* *Declarations* evaluated by GN or GYP; host set-up scripts; vendored headers.

## 2. Plan

The order is by how much depends on the part and how badly a test reaches it.

| step | modules | built on | state |
|---|---|---|---|
| 1 | `TestCollection`, `TaskPool`, `CollectionWorkers` | | checked and proved |
| 2 | `TestDispatcher`, implementing `TestLedger` | `TestCollection` | checked and proved |
| 3 | `LocalDeviceTestRun`, implementing `TestLedger` | `TestCollection` | checked and proved |
| 4 | `TimeoutRetry` | | checked and proved |
| 5 | `PortAllocation`, implementing `PortPool` | | checked and proved |
| 6 | `Md5Check` with the queries of `Changes` about paths | | checked and proved |
| 7 | `IncrementalInstall` | | checked and proved |
| 8 | `Checkout`, `Landmines`, `Sysroot`, `Hooks` | | checked and proved |
| 9 | `FlagChanger`, `InstrumentationFlags` | | checked (out of the prover's reach, section 5) |

What is left, in this order:

1. Abstract specifications: a *build step* (outputs reflect inputs) above
   `Md5Check`, an *atomic install* above `IncrementalInstall`.
2. The entries of zip files in `Md5Check`.
3. An install that finds a process of the previous one still starting (the
   histories `overlap` excludes today).

## 3. The modules

Every definition that models code is mapped to its lines in `PROJECT.json`.
Definitions whose comment begins with *Mutant* are plausible mistakes: put in
place of the definition that follows them, they break the property they are
listed with, which shows that the property depends on that piece of code.

### TestCollection, TaskPool, CollectionWorkers

A collection is a record of the three fields the class has; each
`with self._lock` block is one operator. `CollectionWorkers` lets any number
of threads iterate the way `_RunTestsFromQueue` does: the wait on the event
(`Wake`) and the locked part of `_pop` (`PopTest`, `PopBeaten`, `PopNone`) are
separate steps, because that is where threads meet; a loop body may add a
retry (`AddRetry`), hand its test back (`AddBack`) and complete (`Complete`,
`CompleteAndDie`). `TaskPool` says what this is for, without counter and
event: a task is waiting, with a worker, or finished, and workers are
dismissed only when nothing is left. `PoolSpec` is the refinement.

### TestDispatcher

One call of `RunTests`, from the `_SetUp` threads to the tear-down: `setup`
and `teardown` are the device calls of each device, `phase`, `held` and
`error` its runner thread, `coll` the collections, `alive` the threads the
`JoinAll` in progress has not seen end. `Observe` is one look of the polling
join at one thread; a watchdog may expire at any time while a thread lives
(`JoinRaises`). `Report` is the end of `_RunAllTests` with `UNKNOWN` results
for what nobody ran, and the exit code. Device calls return, raise
`DeviceUnreachableError` or something else, or never return. A test is the set
of names a filter `a:b` selects, so that a partial pass and its retry exist;
the tests of one call name different tests, which is what the callers pass
(`CallsAssumption`).

`TestLedger` is what a caller of either `RunTests` relies on, without devices,
queues or threads: a group of names is run, each name at most so many times and
only while it is not settled, and the call concludes once, reporting exactly
the names that are settled by a pass. `LedgerSpec` is the refinement. Here a
name is counted per collection (`Key` is the tag and the name), settled means
that a result of it is recorded, `Report` is what concludes, and a run that ends
in an exception is not counted, as the code does not count it either.

### LocalDeviceTestRun

`RunTests` of the newer runner: up to `max_tries` tries, each with a fresh
collection of shards, joined by `pMap` without a watchdog; `failures` is
`all_fail_results`, which keeps for a test the last type that was no pass:
a later `UNKNOWN` of an instrumentation test replaces an earlier failure there, and
a try whose output does not have the test replaces nothing. `kind` chooses between
the two subclasses, which shard differently; a stride of gtests longer than
`_MAX_SHARD_SIZE` (`MaxShardSize`) is cut in pieces. A result stands for its name
and type. The history `last` is the type in the latest output that had a test. It implements `TestLedger`
too: a test is settled by a pass, as soon as the thread that ran it has it, and
`Return` concludes. That the same ledger is kept by two programs
that have nothing but the collection in common is the point of it.

### TimeoutRetry

`Run` on the calling thread and one child per try. The states of a child keep
apart what the code does in two steps: `expired` (`_expired` is set, the
exception still on its way to `_exc_info`) and `written` (`ret[0]` is set, the
thread still alive). `WatchdogExpires`, `FilterAlive`, `LookUpStack` and
`Handle` follow the error path one read of shared state at a time. Watchdog and
child have a deadline only if the timeout is neither 0 nor `None` (`timed`).

### PortAllocation

Callers in processes of their own that may be killed. A lock belongs to an
inode and not to a name: `name` is where the lock file's name leads, `holder`
who holds each inode's lock, `fpLock` the inode a caller opened. Reading,
probing and writing are separate steps. Servers listen on ports at any time
after they got them. `PortPool` is the same without lock, inode or file: a
number that only grows, reserves the first free port for one caller in one step,
and refuses a caller only when no port is left or the counter was spoilt while it was made. In the mapping (`PoolUnlessReset`) a port is reserved for the caller that is
about to be given it, and a counter that is not there, or is being made again, is a pool not yet open.

### Md5Check

Any number of calls of `CallAndRecordIfStale` on one record, with edits of
files, of strings, and deletions of outputs between and *during* them. The
list of input paths grows and shrinks from call to call. A path itself is not
hashed: its place in the order of the list decides where its tag stands. The
function passed in is external: it reads all its inputs, writes its outputs
one by one, may raise, and the process may be killed anywhere (`Dies`). An
output is remembered as the inputs it reflects, so "fresh" is a comparison and
not a flag. `broken` is set while the function has run and no run of it has since
been recorded that read the inputs that were hashed. The queries
of `Changes` (`AddedPaths`, `ModifiedPaths`, `AddedOrModifiedOnly`) are what the
function is told; `ChangesTrue` compares them with what the outputs were really
made from, since a function that trusts them rebuilds only those parts.

### IncrementalInstall

The installer's tasks (`todo`) run in any order within a phase, as `_Execute`
runs them concurrently; sequential execution is one of the orders. An `Install`
may fail at any point, and the next begins from what is left. Processes of the
app start at any time once the apk is there, wait for the lock files, copy
under the runtime lock (an inode again, since `release` deletes the file) and
load. Modification times are the number of the push, or `Now` for a file being
written, which is never equal to an older time; that is how
`copyIfModified` sees them. The cache file (`cache`) survives the
installer; what DeviceUtils believes (`known`) does not. A cache file that was
opened and not written is `Empty`, and no Install gets past it.

File operations of the processes in `faulty` may raise. `LockFails` is an
`acquireRuntimeLock` that could not open the file, which the code treats like a
lock that somebody else has. `CopyRaises` and `Abort` are the `finally` of
`safeCopyAllFiles`: the lock is released and its file deleted, with the copy
incomplete, and the process ends. Two histories follow what this does to others:
`misled` marks a process that goes on without a copy of its own or anybody's,
`mishap` the directories whose lock file is gone because a copy raised, and
whether the lock file that was deleted was another's (`crossed`).

### Checkout, Landmines, Sysroot, Hooks

`Checkout` has what the two hooks share: the revision, and files that are
missing, empty or complete (each fits one buffer, so that a killed script leaves
nothing in between). `Landmines` is `landmines.py` with the clobber it calls,
in which every file operation on a directory is a step: the tree is removed,
made again, `args.gn`, `build.ninja` and `build.ninja.d` are written. `saved` is
what the script has read and holds in memory only. `Sysroot` is
`InstallSysroot`: comparing the stamp, removing the tree, downloads with
retries, the checksum, extracting, the stamp. `Hooks` composes them with
`Sync` to any revision, `GnGen` and `Build` between the hooks, and a kill at any
step. `objs` and `loose` remember under which landmines a build wrote its files,
so that stale outputs can be seen.

The history variables name what a kill took away: `cut` has the directories in
which a clobber was killed, `torn` says that an `rmtree` of a sysroot was.

### FlagChanger, InstrumentationFlags

`FlagChanger` works on the line itself, character by character, since what it
restores is what its tokenizer read. `InstrumentationFlags` is a
session on one device: construction with the caller's flags, the two
`AddFlags` of `SetUp`, `--disable-fre` taken away before a test about the first
run and put back after it *passed*, and `Restore`. Any update may raise,
before or after the file on the device was written, and a session may be
abandoned; the next session begins with the file it finds. The read of a new
`FlagChanger` may fail although the file is there, and gives an empty line then
(`OrigLines`, `unread`). When the join of the dispatcher has timed out, `RunTests`
tears down beside the test (`TearDownBeside`): the thread, `torn`, goes on with it
and with further tests, until the process ends, and what it does to the flags
after `Restore` stays there (`late`).

## 4. What the runs check

| run | instance | shows |
|---|---|---|
| `collection_workers` | 3 threads, 2 tests, 1 retry | the counter is exact, no wake-up and no test is lost, a thread leaves only when all is handled, the pool is implemented, every iteration ends |
| `dispatcher` | 2 devices; 2 shared tests, a shared group, a replicated test; 1 retry | no test lost or recorded twice, the ledger is kept (a test is run at most `num_retries` + 1 times and never once it is settled), no thread leaves before its tests are recorded, tear-down after tests unless a watchdog expired, complete verdict, `RunTests` ends |
| `local_device` | 2 devices, 3 tests, 2 tries | shards disjoint, one verdict per test, that of the latest output that had it, every unpassed test run in each try, the ledger is kept, ends if no call raises |
| `timeout_retry` | 3 tries, with and without a timeout | calls overlap only after a timeout, the value returned is that of a call, no try is lost but by a `TypeError` and the exception is that of the last one, `Run` ends unless there is no timeout and a call hangs |
| `ports` | 3 callers, 3 ports | distinct ports, the atomic pool is implemented, 0 only if exhausted, every call ends |
| `md5_check` | up to 2 paths, 2 contents, 2 outputs, 3 strings of which two are the same characters | a true record, fresh outputs, nothing built twice, changes reported truly |
| `incremental_install` | 2 processes, 1 library, 1 dex file, up to 2 installs, or a process whose copies may raise | first start waits, a finished install is complete, a process that was not misled loads the files of the install it began on, copies are true |
| `hooks` | 3 revisions, 2 build directories, a sysroot of 2 parts | nothing stale after the hooks, the user's arguments survive, the sysroot is whole |
| `instrumentation_flags` | every line of up to 5 characters after the program name, 1 abandoned session, reads that fail, tear-downs beside a test | the flags are restored, every test finds the flags it needs, with the exceptions of section 6 |

Three runs look for a violation and find one. Each shows a statement of the
source that the code does not keep:

| run | property | what happens |
|---|---|---|
| `local_hang` | `RunTestsEnds` | `_RunTest` raises on one device, its test stays counted, the other device waits for ever |
| `ports_fresh` | `DistinctPorts` | the first allocation on a machine unlinks the lock it holds, and two callers get one port |
| `hooks_raises` | `NeverRaises` | a clobber killed between the removal of `build.ninja` and that of `build.ninja.d` makes every later landmines hook raise |

Seen on the way, without a run of their own:

* *Dispatcher.* The exception of a later runner disappears behind the
  `DeviceUnreachableError` of an earlier one. A device lost for good leaves exit
  code 0 if another device passes its tests, though the comment at
  `test_dispatcher.py:191` announces a warning code; with sharding a test nobody
  ran is reported `UNKNOWN` once per runner; with no runner at all `RunTests`
  returns 0; `_CreateRunners` that raises leaves the runners it had set up
  without a tear-down; tags of replicated results are the last four characters of
  a serial, which two network devices share.
* *Local device run.* An `UNKNOWN` of an instrumentation test, whose output broke
  off, replaces the failure an earlier try had seen.
* *Timeouts.* A child whose own deadline passes just as the watchdog's does makes
  the error path itself fail with a `TypeError`, and the remaining tries are not
  made. A timeout of 0 means none, to `watchdog_timer.py:35` as to the deadline of
  `WaitFor`:
  `testTimeout` (`timeout_retry_unittest.py:35`) calls `Run` with 0 and a function
  that never ends, and expects a `TimeoutError` after 4 tries, where `Run` waits for
  the first for ever. `RunEnds` states what the code does.
* *Ports.* A killed reset leaves an empty port file, and every later allocation
  returns 0 until the next reset.
* *Staleness.* Strings are hashed without separators, so another split of the
  same characters counts as unchanged. Paths are not hashed: a renamed input with
  the same content is not noticed. Zip files without entries add nothing. An
  input listed twice makes `DescribeDifference` report "there is a bug". The
  function may leave half-written outputs beside an old record that fits again
  once the edit is undone.
* *Install.* A process that started under the previous install clears
  `firstrun.lock` after the next install has zeroed it; `LockFile.release` unlocks
  before it deletes, so that a second process can lock the file in between and
  then fail to delete it. A copy that raises releases the lock and deletes its file:
  a process that waits for the file to go loads an incomplete copy; if it did the
  first start it clears `firstrun.lock`, and isolated processes do the same; and the
  delete may hit the lock file that another process has just opened, so that a
  third one locks a fresh inode and two copy at once. A process that cannot open
  the lock file goes on without any copy as soon as there is no such file. An
  installer killed between opening the cache file and writing it leaves it empty:
  `LoadCacheData` raises on it, before the `os.unlink` that, says `installer.py:196`,
  lets any exception clear it, and so does every later Install with the cache, until
  an Uninstall.
* *Hooks.* A killed clobber loses the user's `args.gn`, which is in memory only.
  A killed `rmtree` of the sysroot that had not yet reached the stamp leaves a
  stamp that is trusted.
* *Flags.* A command line file that cannot be read without root passes for a
  missing one (`flag_changer.py:39`), is overwritten as root, and removed by
  `Restore`. After the join has timed out, a test about the first run that passes
  after the tear-down puts `--disable-fre` into the file that `Restore` had
  restored. `--disable-fre` is not put back after a test about the first run that
  failed. An escaped quotation mark is read as `"` and written back without its
  backslash. A line with an unterminated quotation mark swallows the flags added
  to it; the warning for such a line can never be printed.

### Bounds, and why they are enough

* Three threads are the smallest number for the race of `_pop`: one holds the
  last test, one is beaten and clears the event, one is woken. The theorems
  about the collection hold for any number.
* Two devices are enough for one to die while the other works or waits, and to
  pick up its test; `num_retries` and `max_tries` of 1 and 2 let a retry move to
  another device and come back. The three calls cover sharding, groups and
  replication.
* Three tests on two devices with `MaxShardSize` 2 give shards of one and of two
  tests. No stride is cut there: an assumption of the MC module (`StridesInPieces`)
  looks at a longer list, and the theorems are about any length.
* Three tries let an abandoned child meet two successors.
* Three callers: one holds the unlinked inode, one the new one, one comes late.
  Three ports let the range run out. Ports are numbered from 1.
* Two inputs and outputs: one may be edited or written without the other, and a
  path may come, go, or take the other's place. Two contents suffice to be equal or
  different; the third value of the strings has the characters of the second.
* Two processes: one copies and one waits or races. Two installs (`MaxInstalls`) on
  a device with dex copies where nothing raises, one on an older device where one
  process is isolated and the other may raise. Where both are primary and one of
  them raises there is no further install: the device begins fresh, installed, or
  broken by an install that failed, which stands for the calls before. The theorems
  hold for any of these together.
* Three revisions: two share their landmines, two their sysroot, so that a sync may
  change either alone. Two directories: one is cut off while the other is whole or
  not yet reached.
* Five characters hold two flags, a pair of quotation marks with a blank, or an
  escaped one. `MaxAbandoned` bounds the sessions
  that leave the flags without a `Restore` or after it.
  Tests and sessions are not bounded.

Symmetry is used in `incremental_install` (processes, contents) and `md5_check`
(contents, outputs), where no liveness is checked. `CHECK_DEADLOCK FALSE` is given where the program
ends or may really stop: `RunTests` has returned, every device hangs, no caller
is left, nobody installs.

### Fairness

* `CollectionWorkers`: weak fairness of each thread's steps: threads are
  scheduled, locks are held for a few statements, and each test run ends in
  some way, since the dispatcher's external calls are not part of this module.
* `TestDispatcher`: weak fairness of the main thread alone. Its joins poll and
  its watchdogs expire, since the default timeouts are finite; nothing is assumed of a device.
* `LocalDeviceTestRun`: the main thread and the device threads, whose
  `_RunTest` returns or raises: the calls below it have timeouts of their own.
* `TimeoutRetry`: the calling thread, whose watchdog expires if there is a timeout;
  `func` may hang, in which case nothing is promised without one.
* `PortAllocation`: each caller; the kernel grants a free lock.
* `Md5Check`, `IncrementalInstall`, `Hooks` and `InstrumentationFlags` state safety only.

### Assumptions about the environment

Python 3 before 3.9 (`JoinAll` calls `isAlive`, removed in 3.9). Two
`BaseTestResult` objects are never equal, which is what Python 3 makes of a
class without `__eq__`. Devices are told apart by their full serial. `md5` is
injective, tags have one length. The first port above the range is free.
DeviceUtils skips a file whose checksum it knows from the cache. A pushed file
gets a modification time that no earlier file had. The installer is run with
its cache, one installer at a time, for one package; no pushed file has the name
of one of the installer's tasks. The landmines hook is the
first of the two, and nobody builds unless all hooks have succeeded. The
files of the hooks fit one write. Whoever calls `CallAndRecordIfStale` with
`track_subpaths` trusts what `Changes` says.

## 5. What is proved

The proofs are in the modules `*_proofs`, checked by TLAPS for every value of
the constants; the assumptions used are the `ASSUME`s of the modules.

* **CollectionWorkers.** Any finite set of threads, any set of tests. The
  inductive invariant `IInv` joins the checked properties with three facts they
  need: `QueueDistinct` (a test is queued once), `QueuedNotHeld` (only a thread
  about to die holds a queued test) and `HandedBack` (the test of such a thread
  is queued, with another thread, or done). The counter is the heart: that it
  is the number of queued and held tests makes "zero" mean "all handled", so
  that a set event is never missed (`NoWaitWithoutARunner`) and nobody leaves early
  (`LeaveOnlyWhenDrained`). `HandedBack` is what keeps `NoTestLost` when a dying
  thread gives up its test. `Implementation` maps each step to one of
  `TaskPool` or to a stutter, from the same invariant.
* **TestDispatcher.** Any devices, calls, groups of tests and number of retries.
  For each collection, `Placed` is the heart: `Exclusive` (a name is in at
  most one place: queued, being run, or recorded), `Covered` (and in at least one) and
  `Counted` (a name was run no more often than the tries of the test that has
  it). They give `NoTestLost`, `RecordedOnce` and `RetriesBounded`. `RecordedOnce`
  and `RetriesBounded` are not inductive alone: nothing in them keeps a name from being
  queued that has its result already, or that is in another test with fewer tries. `JoinedFirst` (the main
  thread is past `_RunAllTests` only when it has seen every thread end, or
  its watchdog expired) gives `TearDownAfterTests`.
  `ReportInv` (every runner was set up, a recorded result speaks of one name)
  adds what `Report` needs: when all threads are over nobody runs a test, so that
  `Covered` leaves each name in the queue, hence `UNKNOWN`, or recorded; this is
  `VerdictComplete`. `CountInv` (the counter of a collection is that of its queued
  tests and of the devices that run one, and is 0 once a device has left) gives
  `LeftMeansRecorded`. It takes both halves of the sum: a thread that still runs a
  test may refill the queue, so an empty queue is no reason to leave.
  `QuietInv` (once a report has been returned nobody runs a test) and `Placed`
  give the refinement `RunTestsKeepsTheLedger`: each step of the threads is a
  `Run` of the ledger, its `Conclude`, or a stutter. `NewEntries` and
  `SettledKeys` say what one run adds to the ledger; that the names of a test being
  run are in no other place is what keeps a settled one from running.
* **LocalDeviceTestRun.** Any devices, tests, shards and tries. `StridePartition`
  and `Numbering` say what the two ways of sharding and the filter of the tests
  that are left do: every test that has not passed is in one shard, and in no
  other. From there `ResultsInv` (until the end, results are passes, one for each
  test not in `tests`), `JoinInv` (the counter, as in the dispatcher), `FoundInv`
  (a test is pending, or has its result of this try, and not both) and `RunsInv` (every
  try runs each test that has not passed) are inductive together with
  `ShardsDisjoint`, `OneVerdictPerTest` and `RunsBounded`. The counter matters here
  too: the results of a try are complete because a thread leaves
  only when nothing is pending. `CollectedInv` (a pass that a thread has
  found is in the results before the next one begins) gives
  `RunTestsKeepsTheLedger` here. `PieceFacts` says that the pieces of the strides
  share no test and miss none. `LastInv` (what was last seen of a test is in the
  results, with a thread of this try, or in `all_fail_results`) gives
  `OneVerdictPerTest`: without it a verdict could be one that a later output
  has replaced. `NoneAlive` (outside a try no thread of one is alive) is part of
  the invariant.
* **TimeoutRetry.** Any number of retries. `LeftTry` (a try is left only when
  its child ended or was abandoned) gives `NoOverlapWithoutTimeout`;
  `RetWritten` (the cell holds the value of a child that returned) gives
  `ReturnedValueIsAResult`; `FailsAfterItsTries` needs `LeftTry`
  for every earlier try and for each way the last one may have ended.
* **PortAllocation.** Any callers and ports. `LockInv` (who is inside holds the
  lock of the inode it opened), `ResetInv` (until the unlink everybody opened
  the same inode; afterwards no reset begins) and `PortInv` (the counter is
  past every port given out) give `PortsDistinct` and `CounterGrows`. Without
  `ResetInv` the lock would say nothing: it protects the counter only while
  all callers mean the same inode. `ProbedInv` (a caller has found busy every port
  between the counter and the one it probes) gives `ZeroMeansExhausted`: what was
  busy stays busy, so the caller that gives up speaks of the whole range.
  The refinement `PortsFromThePool` needs it too, with `ReadyInv` (the port that a
  caller is about to reserve stays free, and a call returns once): the write of the
  counter is what reserves a port, and reading, probing and locking stutter.
* **Md5Check.** Any paths, contents, strings and outputs. `RecordHolds` (a record
  describes what every output was made from), `Collected` (what a call has hashed
  so far was true when it read it), `Agrees`, `Rebuilt` and `Settled` (what is known
  after the decision, during the function and after it) give `RecordIsTrue`,
  `OutputsFresh`, `BuildsOnce` and `ChangesAreTrue`. The record must be
  removed or overwritten in time: the proof uses the order of the code there.
* **IncrementalInstall.** Any processes, files, contents and number of installs.
  `Shape` ties the lock inodes to the places of the processes. `PushInv` (how far an
  install has come, and why a file that the cache lets it skip is already the
  build's) gives `InstallComplete`. `LocksInv` (both locks are held while files are
  pushed, and nobody who was not past them before gets past them then) gives `FirstRunWaits`, and
  with `CleanInv` it gives `LoadsTheInstall`. For `CopiesTrue`, `TimesInv` says that
  no file has the time of a push yet to come, so that equal times mean equal
  contents unless the copy was cut short, in which case its time is `Now`. `CopyInv` adds
  that whoever is past a directory, or holds an inode that its lock file no longer leads
  to, shows that the directory has been copied; a second process that locks a
  new inode then finds nothing to write, so two never write the same copy. This is
  where `overlap` is excluded, and `crossed`: a copier that raised and deletes the
  lock file under another leaves an inode without a copy to show for it. Who was
  `misled` shows nothing either, and from there `LoadsTheInstall` is silent about it.
  `CopiesTrue` needs no exception for a copy that raised alone: what it left has the
  time `Now`, as after a kill.
* **Hooks.** Any revisions, directories, arguments and parts. `RecordKnows` (a
  `.landmines` that is complete names the landmines of everything built) and `ClobberPassed` (what the
  clobber has passed is clean) give `OutputsFresh`; `NoDirNoFile` and `UserArgs` (a
  directory being deleted can be put together from what is in memory) give
  `UserArgsKept` and `OnlyCutRaises`; `StampTrue` (a stamp is put on a whole image,
  and only an `rmtree` takes it apart) gives `ImageComplete`.

The `TypeOK` of these modules are theorems, and are not repeated in the runs.
Every other safety and action property of a passing run is stated by a theorem,
but for the two of `InstrumentationFlags`.

Only model-checked: `FlagsRestored` and `RightFlags`, since the tokenizer and the
quoting are folds over the characters of a line and what a fold computes for all
inputs needs induction over data; and every liveness property, as temporal
reasoning with fairness and ENABLED is out of this prover's reach. That a theorem
is about every value of the constants does not widen the model: what section 6
excludes is excluded in the theorems too.

## 6. Limits

* Inside a modelled part: logging, statistics, command lines and parsing are
  left out. The tags of directories, the entries of zip files and the queries
  about them are not in `Md5Check`. `Set` and `Get` are not in `FlagChanger`, nor
  `--all` in `Sysroot`. Class loading by reflection,
  symlinks of isolated processes and a second package are not in
  `IncrementalInstall`; dex files are loaded in one step, a library at any time
  while the process runs.
* `DistinctUnlessReset`, `NeverBack` and `PoolUnlessReset` exclude histories in which a reset
  unlinked the lock file; `ports_fresh` shows why.
  `LoadsTheInstall`, `CopiesTrue`, and for isolated processes `FirstRunWaits`
  exclude histories in which a process was starting during a push. After a copy that
  raised, `LoadsTheInstall` is silent about the processes that went on without a copy
  (`misled`), and both it and `CopiesTrue` about histories in which the lock file
  of another was deleted (`crossed`); the run fails without either exception.
  `TearDownAfterTests` excludes an expired watchdog.
  `ArgsKept` excludes a directory in which a clobber was killed (`cut`), and
  `SysrootComplete` grants an incomplete image after a killed `rmtree` (`torn`):
  there is nothing in the files by which the scripts could tell.
  `FlagsRestored` excludes lines with an escaped quotation mark (`Escaped`) and
  histories with a session that left its flags, since nobody tore it down or its
  test went on after that (`abandoned`), and those in which a file could not be read
  (`unread`); `RightFlags` excludes lines with an escaped or an unterminated
  quotation mark (`Plain`), sessions in which a test about the first run
  failed (`lifted`), and a test beside which its session was torn down (`torn`).
  A second session in the process of such a test is not modelled. `FreshOutputs` and `RecordTrue` speak of what the hashes can
  tell. `FailsOnlyAfterItsTries` names the `TypeError` of the error path as the one way in
  which tries are lost.
* `func` does not catch the `TimeoutError` of its own `WaitFor`. The clearing of
  `firstrun.lock` is one step, though the file is opened before it is written: who
  finds it empty in between only waits longer.
* Crashes are kills: what was written stays. Loss of written data by a power
  failure is not modelled.

## 7. Running

    tlc -config CollectionWorkers.cfg MCCollectionWorkers.tla
    tlapm CollectionWorkers_proofs.tla
    tlc -config Hooks.cfg MCHooks.tla
    tlapm Hooks_proofs.tla

`PROJECT.json` has every run with its module, its configuration and what it
shows, the mutants, and the hazards the properties answer to.
