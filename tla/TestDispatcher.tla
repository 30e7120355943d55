--------------------------- MODULE TestDispatcher ---------------------------
(***************************************************************************)
(* src/android/pylib/base/test_dispatcher.py: RunTests sets up a runner    *)
(* per device, lets one thread per runner draw tests from a collection     *)
(* (one shared collection when sharding, one per runner when replicating), *)
(* joins the threads under a watchdog, turns what they recorded into       *)
(* results and an exit code, and tears the runners down.                   *)
(*                                                                         *)
(* A test is the set of names a gtest filter 'a:b' selects.  A device call *)
(* (SetUp, IsOnline, RunTest, TearDown) is external: it may succeed, raise *)
(* or never return.  Python 3 is assumed, where two BaseTestResult objects *)
(* are never equal, so a TestRunResults is a bag of results.               *)
(***************************************************************************)
EXTENDS TestCollection, FiniteSets, Bags

CONSTANTS Device,      \* the attached devices
          TestName,    \* the names of tests
          Calls,       \* the calls of RunTests: tests_expanded, a sequence of
                       \* sets of names, and shard, or replicate
          NumRetries,  \* num_retries
          RunOutcome,  \* result types RunTest may produce
          None

ResultType == {"PASS", "SKIP", "FAIL", "CRASH", "TIMEOUT", "UNKNOWN"}

ASSUME DeviceAssumption == IsFiniteSet(Device)
ASSUME CallsAssumption ==
  \A c \in Calls :
    /\ c.shard \in BOOLEAN
    /\ c.tests \in Seq((SUBSET TestName) \ {{}}) /\ c.tests # <<>>
    /\ \A i, j \in 1..Len(c.tests) : i # j => c.tests[i] \cap c.tests[j] = {}
ASSUME ParameterAssumption ==
  /\ NumRetries \in Nat
  /\ RunOutcome \subseteq ResultType

Exception == {"unreachable", "other"}
Test(names, tries) == [names |-> names, tries |-> tries]
Tests == [names : (SUBSET TestName) \ {{}}, tries : Nat]

ASSUME NoneAssumption == None \notin Tests \cup Exception

VARIABLES call,      \* the arguments of RunTests
          main,      \* where RunTests is
          setup,     \* the _SetUp thread of each device
          runners,   \* runners, in the order they were appended
          coll,      \* the test collections
          phase,     \* the _RunTestsFromQueue thread of each device
          held,      \* the _Test it holds, or None
          error,     \* the exception that thread died of, or None
          alive,     \* alive_threads of the _JoinAll in progress
          results,   \* out_results, as a bag of results
          teardown,  \* the TearDown thread of each device
          outcome,   \* what RunTests returns or raises
          timedOut,  \* history: a watchdog expired while tests ran
          attempts   \* history: RunTest calls that returned, per result name

vars == <<call, main, setup, runners, coll, phase, held, error, alive, results,
          teardown, outcome, timedOut, attempts>>
runnerVars == <<coll, phase, held, error, results, attempts>>

Main == {"setup", "join", "report", "teardown", "end"}
Phase == {"idle", "waiting", "woken", "running", "recorded", "raising", "left", "dead"}

Name == UNION {call.tests[i] : i \in 1..Len(call.tests)}

CollId == IF call.shard THEN {"shared"} ELSE Device
CollOf(d) == IF call.shard THEN "shared" ELSE d
TagOf(c) == IF call.shard THEN "untagged" ELSE c
Tag(d) == TagOf(CollOf(d))
RunnerSet == {runners[i] : i \in 1..Len(runners)}

Result(d, n, type) == [tag |-> Tag(d), names |-> {n}, type |-> type]

\* The result names (tag and test name) a run is expected to report.
Expected == {Tag(d) : d \in RunnerSet} \X Name

Init ==
  /\ call \in Calls
  /\ main = "setup"
  /\ setup = [d \in Device |-> "running"]
  /\ runners = <<>>
  /\ coll = [c \in CollId |->
               NewCollection([i \in 1..Len(call.tests) |-> Test(call.tests[i], 0)])]
  /\ phase = [d \in Device |-> "idle"]
  /\ held = [d \in Device |-> None]
  /\ error = [d \in Device |-> None]
  /\ alive = Device
  /\ results = EmptyBag
  /\ teardown = [d \in Device |-> "idle"]
  /\ outcome = None
  /\ timedOut = FALSE
  /\ attempts = [k \in {TagOf(c) : c \in CollId} \X Name |-> 0]
-----------------------------------------------------------------------------
(* _SetUp, one thread per device.                                          *)

SetUpSucceeds(d) ==
  /\ setup[d] = "running"
  /\ setup' = [setup EXCEPT ![d] = "done"]
  /\ runners' = Append(runners, d)
  /\ UNCHANGED <<call, main, alive, teardown, outcome, timedOut, runnerVars>>

\* DeviceUnreachableError is caught, any other exception ends the thread.
SetUpRaises(d) ==
  /\ setup[d] = "running"
  /\ \E s \in {"done", "failed"} : setup' = [setup EXCEPT ![d] = s]
  /\ UNCHANGED <<call, main, runners, alive, teardown, outcome, timedOut, runnerVars>>

(* _JoinAll: the main thread notices, one by one, that threads ended; the  *)
(* watchdog is looked at before each of them, finished or not.             *)

ThreadEnded(d) ==
  CASE main = "setup"    -> setup[d] # "running"
    [] main = "join"     -> phase[d] \in {"left", "dead"}
    [] main = "teardown" -> teardown[d] # "running"
    [] OTHER             -> FALSE

Observe(d) ==
  /\ d \in alive
  /\ ThreadEnded(d)
  /\ alive' = alive \ {d}
  /\ UNCHANGED <<call, main, setup, runners, teardown, outcome, timedOut, runnerVars>>

(* _CreateRunners and what RunTests does with its outcome.                 *)

StartRunners ==
  /\ main = "setup"
  /\ alive = {}
  /\ \A d \in Device : setup[d] = "done"
  /\ main' = "join"
  /\ alive' = RunnerSet
  /\ phase' = [d \in Device |-> IF d \in RunnerSet THEN "waiting" ELSE "idle"]
  /\ UNCHANGED <<call, setup, runners, coll, held, error, results, attempts,
                 teardown, outcome, timedOut>>

\* An exception of _CreateRunners leaves RunTests before its try block: the
\* runners that were set up are not torn down.
SetUpFails ==
  /\ main = "setup"
  /\ alive # {} \/ \E d \in Device : setup[d] = "failed"  \* timeout or reraise
  /\ main' = "end"
  /\ outcome' = [kind |-> "raised", cause |-> "setup"]
  /\ UNCHANGED <<call, setup, runners, alive, teardown, timedOut, runnerVars>>
-----------------------------------------------------------------------------
(* _RunTestsFromQueue, one thread per runner.                              *)

Wake(d) ==
  /\ phase[d] = "waiting"
  /\ coll[CollOf(d)].signalled
  /\ phase' = [phase EXCEPT ![d] = "woken"]
  /\ UNCHANGED <<coll, held, error, results, attempts>>

PopTest(d) ==
  LET tc == coll[CollOf(d)] IN
  /\ phase[d] = "woken"
  /\ TestAvailable(tc)
  /\ coll' = [coll EXCEPT ![CollOf(d)] = Popped(tc)]
  /\ held' = [held EXCEPT ![d] = Head(tc.tests)]
  /\ phase' = [phase EXCEPT ![d] = "running"]
  /\ UNCHANGED <<error, results, attempts>>

PopNothing(d) ==
  LET tc == coll[CollOf(d)] IN
  /\ phase[d] = "woken"
  /\ \/ /\ Beaten(tc)
        /\ coll' = [coll EXCEPT ![CollOf(d)] = Cleared(tc)]
        /\ phase' = [phase EXCEPT ![d] = "waiting"]
     \/ /\ AllHandled(tc)
        /\ phase' = [phase EXCEPT ![d] = "left"]
        /\ UNCHANGED coll
  /\ UNCHANGED <<held, error, results, attempts>>

\* Mutants: a retry of the whole group, and a group that is recorded in full
\* although its failures are retried.
WholeRetry(test, passed) == Test(test.names, test.tries + 1)
RecordAll(test, passed, again) == test.names

\* The _Test added for a retry, and the names whose results are recorded.
Retry(test, passed) == Test(test.names \ passed, test.tries + 1)
Recorded(test, passed, again) == IF again THEN passed ELSE test.names

\* RunTest returns a result for every name of the test, and either nothing to
\* retry or the names that did not pass.
RunTest(d) ==
  /\ phase[d] = "running"
  /\ \E type \in [held[d].names -> RunOutcome] :
       LET passed == {n \in held[d].names : type[n] = "PASS"} IN
       \E retry \in {{}, held[d].names \ passed} :
         LET again == retry # {} /\ held[d].tries + 1 <= NumRetries IN
         /\ results' = results (+)
              SetToBag({Result(d, n, type[n]) : n \in Recorded(held[d], passed, again)})
         /\ coll' = IF again
                      THEN [coll EXCEPT ![CollOf(d)] = Add(@, Retry(held[d], passed))]
                      ELSE coll
  /\ attempts' = [k \in DOMAIN attempts |->
                    IF k \in {Tag(d)} \X held[d].names
                      THEN attempts[k] + 1 ELSE attempts[k]]
  /\ phase' = [phase EXCEPT ![d] = "recorded"]
  /\ UNCHANGED <<held, error>>

\* Mutant: the test of a runner that dies is dropped.
RunTestRaisesDropping(d) ==
  /\ phase[d] = "running"
  /\ \E e \in Exception : error' = [error EXCEPT ![d] = e]
  /\ phase' = [phase EXCEPT ![d] = "raising"]
  /\ UNCHANGED <<coll, held, results, attempts>>

\* The device is not online, or RunTest raises: the test goes back.
RunTestRaises(d) ==
  /\ phase[d] = "running"
  /\ \E e \in Exception : error' = [error EXCEPT ![d] = e]
  /\ coll' = [coll EXCEPT ![CollOf(d)] = Add(@, held[d])]
  /\ phase' = [phase EXCEPT ![d] = "raising"]
  /\ UNCHANGED <<held, results, attempts>>

\* finally: test_completed()
Complete(d) ==
  /\ phase[d] \in {"recorded", "raising"}
  /\ coll' = [coll EXCEPT ![CollOf(d)] = TestCompleted(@)]
  /\ held' = [held EXCEPT ![d] = None]
  /\ phase' = [phase EXCEPT ![d] = IF @ = "raising" THEN "dead" ELSE "waiting"]
  /\ UNCHANGED <<error, results, attempts>>

\* The steps of a runner thread, which go on even after RunTests gave up.
RunnerStep(d) ==
  /\ \/ Wake(d)
     \/ PopTest(d)
     \/ PopNothing(d)
     \/ RunTest(d)
     \/ RunTestRaises(d)
     \/ Complete(d)
  /\ UNCHANGED <<call, main, setup, runners, alive, teardown, outcome, timedOut>>
-----------------------------------------------------------------------------
(* _RunAllTests, on the main thread.                                       *)

TearDownStarts ==
  /\ main' = "teardown"
  /\ teardown' = [d \in Device |-> IF d \in RunnerSet THEN "running" ELSE "idle"]
  /\ alive' = RunnerSet

\* ReraiseIfException is called on the threads in order, so the first thread
\* that died decides what JoinAll raises.
FirstError ==
  IF \A i \in 1..Len(runners) : error[runners[i]] = None
    THEN None
    ELSE error[runners[CHOOSE i \in 1..Len(runners) :
                         /\ error[runners[i]] # None
                         /\ \A j \in 1..(i - 1) : error[runners[j]] = None]]

\* Every thread was joined: a DeviceUnreachableError is logged.
Joined ==
  /\ main = "join"
  /\ alive = {}
  /\ FirstError # "other"
  /\ main' = "report"
  /\ UNCHANGED <<call, setup, runners, alive, teardown, outcome, timedOut, runnerVars>>

\* Mutants: the first exception is reraised without waiting for the other
\* threads, and a join without a watchdog.
JoinRaisesEarly ==
  /\ main = "join"
  /\ FirstError = "other"
  /\ timedOut' = FALSE
  /\ outcome' = [kind |-> "raised", cause |-> "runner"]
  /\ TearDownStarts
  /\ UNCHANGED <<call, setup, runners, runnerVars>>
JoinRaisesUnwatched ==
  /\ main = "join"
  /\ alive = {} /\ FirstError = "other"
  /\ timedOut' = FALSE
  /\ outcome' = [kind |-> "raised", cause |-> "runner"]
  /\ TearDownStarts
  /\ UNCHANGED <<call, setup, runners, runnerVars>>

\* Any other exception, a runner's or the watchdog's, leaves _RunAllTests.
JoinRaises ==
  /\ main = "join"
  /\ alive = {} => FirstError = "other"
  /\ timedOut' = (alive # {})
  /\ outcome' = [kind |-> "raised", cause |-> IF alive # {} THEN "timeout" ELSE "runner"]
  /\ TearDownStarts
  /\ UNCHANGED <<call, setup, runners, runnerVars>>

\* Mutant: tests nobody ran are not reported.
UntestedIgnored(d) == {}

\* test_names() of each entry of test_collections, reported as UNKNOWN.
Untested(d) ==
  LET tests == coll[CollOf(d)].tests
  IN  {[tag |-> "untagged", names |-> tests[i].names, type |-> "UNKNOWN"] :
         i \in 1..Len(tests)}

\* There is an entry for each runner; when sharding, every one of them is the
\* same collection, whose tests are reported once for each.
RunResults ==
  LET untested == UNION {Untested(d) : d \in RunnerSet}
  IN  results (+) [r \in untested |-> Cardinality({d \in RunnerSet : r \in Untested(d)})]

DidRunPass(run) == \A r \in BagToSet(run) : r.type \in {"PASS", "SKIP"}

Report ==
  /\ main = "report"
  /\ outcome' = [kind |-> "returned", results |-> RunResults,
                 exit |-> IF DidRunPass(RunResults) THEN 0 ELSE 1]
  /\ TearDownStarts
  /\ UNCHANGED <<call, setup, runners, timedOut, runnerVars>>

(* _TearDownRunners, whose exceptions RunTests swallows.                   *)

TearDownEnds(d) ==
  /\ teardown[d] = "running"
  /\ \E t \in {"done", "failed"} : teardown' = [teardown EXCEPT ![d] = t]
  /\ UNCHANGED <<call, main, setup, runners, alive, outcome, timedOut, runnerVars>>

\* All joined, or the watchdog expired.
RunTestsEnds ==
  /\ main = "teardown"
  /\ main' = "end"
  /\ UNCHANGED <<call, setup, runners, alive, teardown, outcome, timedOut, runnerVars>>
-----------------------------------------------------------------------------
MainStep ==
  \/ \E d \in Device : Observe(d)
  \/ StartRunners
  \/ SetUpFails
  \/ Joined
  \/ JoinRaises
  \/ Report
  \/ RunTestsEnds

DeviceCall(d) ==
  SetUpSucceeds(d) \/ SetUpRaises(d) \/ TearDownEnds(d)

Next ==
  \/ MainStep
  \/ \E d \in Device : DeviceCall(d) \/ RunnerStep(d)

Spec == Init /\ [][Next]_vars

\* The main thread is scheduled and its watchdogs expire.  Nothing is assumed
\* of the devices: a call to one of them may never return.
FairSpec == Spec /\ WF_vars(MainStep)
-----------------------------------------------------------------------------
Executing == {"running", "recorded", "raising"}
Ended == main = "end"
Returned == Ended /\ outcome.kind = "returned"

Names(r) == {<<r.tag, n>> : n \in r.names}
QueuedNames(d) ==
  {<<Tag(d), n>> : n \in UNION {coll[CollOf(d)].tests[i].names :
                                 i \in 1..Len(coll[CollOf(d)].tests)}}
HeldNames(d) ==
  IF phase[d] = "running" THEN {<<Tag(d), n>> : n \in held[d].names} ELSE {}
RecordedNames == UNION {Names(r) : r \in BagToSet(results)}

\* Types, and the link between a thread's phase, its test and its exception.
TypeOK ==
  /\ call \in Calls
  /\ main \in Main
  /\ setup \in [Device -> {"running", "done", "failed"}]
  /\ runners \in Seq(Device)
  /\ coll \in [CollId -> Collection(Tests)]
  /\ phase \in [Device -> Phase]
  /\ held \in [Device -> Tests \cup {None}]
  /\ error \in [Device -> Exception \cup {None}]
  /\ \A d \in Device : held[d] # None <=> phase[d] \in Executing
  /\ \A d \in Device : error[d] # None <=> phase[d] \in {"raising", "dead"}
  /\ alive \subseteq Device
  /\ IsABag(results)
  /\ teardown \in [Device -> {"idle", "running", "done", "failed"}]
  /\ timedOut \in BOOLEAN

\* Whatever the runners do, including dying one after the other, every test
\* name a runner answers for is still queued, being run, or recorded.
NoTestLost ==
  \A d \in RunnerSet : \A n \in Name :
    main # "setup" =>
      <<Tag(d), n>> \in QueuedNames(d) \cup RecordedNames \cup
                        UNION {HeldNames(e) : e \in {f \in Device : Tag(f) = Tag(d)}}

\* A test name is recorded once: passes of a group that is retried are not
\* recorded again, and a test handed back by a dying runner was not recorded.
RecordedOnce ==
  \A r, s \in BagToSet(results) :
    /\ results[r] = 1
    /\ r # s => Names(r) \cap Names(s) = {}

\* num_retries bounds the runs of a test over all devices, whichever of them
\* picks up the retries.
RetriesBounded == \A k \in DOMAIN attempts : attempts[k] <= NumRetries + 1

\* Unless the watchdog expired, no runner is torn down while its thread or
\* another one still executes tests ("All threads are allowed to complete
\* before reraising exceptions").
TearDownAfterTests ==
  (\E d \in Device : teardown[d] # "idle") /\ ~timedOut =>
    \A d \in Device : phase[d] \in {"idle", "left", "dead"}

\* When some runner was created, the results returned speak of every test of
\* every runner, and exit code 0 means that all of them passed.
Verdict ==
  LET reported == BagToSet(outcome.results) IN
  /\ \A k \in Expected : \E r \in reported :
       k[2] \in r.names /\ r.tag \in {k[1], "untagged"}
  /\ outcome.exit = 0 =>
       \A k \in Expected : \E r \in reported :
         Names(r) = {k} /\ r.type \in {"PASS", "SKIP"}
VerdictComplete == Returned /\ RunnerSet # {} => Verdict

\* A runner's thread ends without an exception only when every test of its
\* collection is recorded: tests that nobody ran mean that all of them died
\* ("all devices are likely offline").
LeftMeansRecorded ==
  \A d \in Device : phase[d] = "left" =>
    \A n \in Name : <<Tag(d), n>> \in RecordedNames

(* What makes these inductive, collection by collection.                   *)

\* The devices that draw from a collection, what they run with how many tries
\* behind it, the names recorded, and how often a name was run.
Users(c) == {d \in Device : CollOf(d) = c}
Queue(c) == coll[c].tests
Running == [d \in Device |-> IF phase[d] = "running" THEN held[d].names ELSE {}]
Tries == [d \in Device |-> IF phase[d] = "running" THEN held[d].tries ELSE 0]
RecordedIn(c) == {n \in Name : <<TagOf(c), n>> \in RecordedNames}
AttemptsIn(c) == [n \in Name |-> attempts[<<TagOf(c), n>>]]

\* A name is in one place at most: in one test of the queue q, run by one
\* device of U, or recorded.
Exclusive(q, U, run, rec) ==
  /\ \A i \in 1..Len(q) : q[i].names \subseteq Name /\ q[i].names \cap rec = {}
  /\ \A i, j \in 1..Len(q) : i # j => q[i].names \cap q[j].names = {}
  /\ \A d \in U : run[d] \subseteq Name /\ run[d] \cap rec = {}
  /\ \A d \in U : \A i \in 1..Len(q) : run[d] \cap q[i].names = {}
  /\ \A d, e \in U : d # e => run[d] \cap run[e] = {}

\* And in one place at least.
Covered(q, U, run, rec) ==
  \A n \in Name :
    \/ n \in rec
    \/ \E i \in 1..Len(q) : n \in q[i].names
    \/ \E d \in U : n \in run[d]

\* A test's tries bound the runs of its names.
Counted(q, U, run, tries, count) ==
  /\ \A i \in 1..Len(q) :
       q[i].tries <= NumRetries /\ \A n \in q[i].names : count[n] <= q[i].tries
  /\ \A d \in U :
       tries[d] <= NumRetries /\ \A n \in run[d] : count[n] <= tries[d]
  /\ \A n \in Name : count[n] <= NumRetries + 1

Placed ==
  \A c \in CollId :
    /\ Exclusive(Queue(c), Users(c), Running, RecordedIn(c))
    /\ Covered(Queue(c), Users(c), Running, RecordedIn(c))
    /\ Counted(Queue(c), Users(c), Running, Tries, AttemptsIn(c))

\* A thread outlives the join only when the watchdog ended it, and no runner
\* is torn down before.
ThreadsOver == \A d \in Device : phase[d] \in {"idle", "left", "dead"}
JoinedFirst ==
  /\ main \in {"setup", "join", "report"} => \A d \in Device : teardown[d] = "idle"
  /\ main = "setup" => \A d \in Device : phase[d] = "idle"
  /\ main = "join" => \A d \in Device \ alive : phase[d] \in {"idle", "left", "dead"}
  /\ main = "report" => ThreadsOver
  /\ main \in {"teardown", "end"} => timedOut \/ ThreadsOver

\* The counter of a collection is that of its queued tests and of the devices
\* that run one, and a device that left has seen it at 0.
Busy(c) == {d \in Users(c) : phase[d] \in Executing}
CountInv ==
  \A c \in CollId :
    /\ coll[c].inProgress = Len(Queue(c)) + Cardinality(Busy(c))
    /\ (\E d \in Users(c) : phase[d] = "left") => coll[c].inProgress = 0

\* What a report is made of: every runner was set up before, each recorded
\* result is that of one name, and what was returned stays complete.
ReportInv ==
  /\ main \in {"join", "report"} => \A d \in Device : setup[d] = "done"
  /\ \A r \in BagToSet(results) : \E n \in Name : r.names = {n}
  /\ main \in {"teardown", "end"} /\ outcome.kind = "returned" =>
       /\ \A d \in Device : setup[d] = "done"
       /\ Verdict

IInv ==
  /\ TypeOK
  /\ attempts \in [{TagOf(c) : c \in CollId} \X Name -> Nat]
  /\ Placed
  /\ RecordedOnce
  /\ JoinedFirst

\* A report that was returned, and nothing runs after it.
Reported == main \in {"teardown", "end"} /\ outcome.kind = "returned"
QuietInv == Reported => ThreadsOver

(* The ledger of the tests: what is recorded settles a test, and a report  *)
(* that is returned is the verdict.                                        *)

Key == ({"untagged"} \cup Device) \X TestName
KeyRuns == [k \in Key |-> IF k \in DOMAIN attempts THEN attempts[k] ELSE 0]
KeySettled == UNION {[key : Names(r), type : {r.type}] : r \in BagToSet(results)}
PassingNames(reported) ==
  UNION {Names(r) : r \in {s \in reported : s.type \in {"PASS", "SKIP"}}}

Ledger == INSTANCE TestLedger WITH
            Type    <- ResultType,
            Passing <- {"PASS", "SKIP"},
            MaxRuns <- NumRetries + 1,
            runs    <- KeyRuns,
            settled <- KeySettled,
            passed  <- IF Reported THEN PassingNames(BagToSet(outcome.results)) ELSE None

\* Whatever the devices do, and whichever of them picks a test up, it is run
\* only while no result of it is recorded, not more than num_retries + 1 times
\* to an end, never after the report, and the report passes exactly the tests
\* whose recorded result is a pass.
LedgerSpec == Ledger!Spec

\* RunTests ends even if every device hangs.
RunTestsTerminates == <>Ended
=============================================================================
