------------------------- MODULE LocalDeviceTestRun -------------------------
(***************************************************************************)
(* src/android/pylib/local/device/local_device_test_run.py: RunTests tries *)
(* the tests up to max_tries times.  Each try shards the tests that have   *)
(* not passed yet into a fresh TestCollection, runs run_tests_on_device on *)
(* a thread per device (SyncParallelizer.pMap joins them without a         *)
(* watchdog) and collects their results; what is left at the end is        *)
(* reported with the last result that was no pass, or as UNKNOWN.  A       *)
(* result stands for its name and type; ShardsDisjoint shows that a try    *)
(* has at most one per test.                                               *)
(***************************************************************************)
EXTENDS TestCollection, FiniteSets

CONSTANTS Device,     \* the devices of the environment
          Tests,      \* _GetTests(): a sequence of test names
          MaxTries,   \* self._env.max_tries
          MaxShardSize,   \* _MAX_SHARD_SIZE of local_device_gtest_run.py
          None

Passing == {"PASS", "SKIP"}
Failing == {"FAIL", "CRASH", "UNKNOWN"}
Listed(s) == {s[i] : i \in 1..Len(s)}
Name == Listed(Tests)

ASSUME RunAssumption ==
  /\ IsFiniteSet(Device) /\ Device # {}
  /\ Tests \in Seq(Name) /\ Cardinality(Name) = Len(Tests)
  /\ None \notin Passing \cup Failing \cup {"returned", "raised"}
  /\ MaxTries \in Nat \ {0} /\ MaxShardSize \in Nat \ {0}

VARIABLES kind,     \* which subclass: LocalDeviceGtestRun ("gtest") or
                    \* LocalDeviceInstrumentationTestRun
          main,     \* "try", "join" or "end"
          tries, tests, results,
          failures, \* all_fail_results: the last result of a test that is no
                    \* pass (UNKNOWN is one of them), or None
          tc, phase, held,
          found,    \* r of each thread: its results of this try
          outcome,  \* "returned" or "raised"
          ran,      \* history: how often each test was run
          last      \* history: the type in the latest output that had the
                    \* test, None before the first

vars == <<kind, main, tries, tests, results, failures, tc, phase, held, found,
          outcome, ran, last>>
mainVars == <<kind, main, tries, tests, results, failures, outcome>>

Phase == {"idle", "waiting", "woken", "running", "left", "dead"}

(* _CreateShards of gtests: every device_count-th test, in pieces of at    *)
(* most _MAX_SHARD_SIZE tests; of instrumentation tests: one by one.       *)

\* The k-th smallest element of a set of integers.
Nth(S, k) == CHOOSE i \in S : Cardinality({j \in S : j <= i}) = k

\* Piece c of the stride of device i of n.
Piece(s, i, n, c) ==
  {s[j] : j \in {k \in 1..Len(s) : /\ (k - i) % n = 0
                                  /\ ((k - i) \div n) \div MaxShardSize = c}}
GtestShards(s, n) ==
  LET piece(x) == Piece(s, (x \div Len(s)) + 1, n, x % Len(s))
      full     == {x \in 0..(n * Len(s) - 1) : piece(x) # {}}
  IN  [k \in 1..Cardinality(full) |-> piece(Nth(full, k))]
CreateShards(s) ==
  IF kind = "gtest" THEN GtestShards(s, Cardinality(Device))
                    ELSE [i \in 1..Len(s) |-> {s[i]}]

Init ==
  /\ kind \in {"gtest", "instrumentation"}
  /\ main = "try"
  /\ tries = 0
  /\ tests = Tests
  /\ results = {}
  /\ failures = [n \in Name |-> None]
  /\ tc = NewCollection(<<>>)
  /\ phase = [d \in Device |-> "idle"]
  /\ held = [d \in Device |-> {}]
  /\ found = [d \in Device |-> {}]
  /\ outcome = None
  /\ ran = [n \in Name |-> 0]
  /\ last = [n \in Name |-> None]
-----------------------------------------------------------------------------
(* run_tests_on_device                                                     *)

Wake(d) ==
  /\ phase[d] = "waiting"
  /\ tc.signalled
  /\ phase' = [phase EXCEPT ![d] = "woken"]
  /\ UNCHANGED <<tc, held, found, ran, last>>

PopTest(d) ==
  /\ phase[d] = "woken"
  /\ TestAvailable(tc)
  /\ tc' = Popped(tc)
  /\ held' = [held EXCEPT ![d] = Head(tc.tests)]
  /\ phase' = [phase EXCEPT ![d] = "running"]
  /\ UNCHANGED <<found, ran, last>>

PopNothing(d) ==
  /\ phase[d] = "woken"
  /\ \/ /\ Beaten(tc)
        /\ tc' = Cleared(tc)
        /\ phase' = [phase EXCEPT ![d] = "waiting"]
     \/ /\ AllHandled(tc)
        /\ phase' = [phase EXCEPT ![d] = "left"]
        /\ UNCHANGED tc
  /\ UNCHANGED <<held, found, ran, last>>

\* What ParseGTestOutput and GenerateTestResults make of the output for a test:
\* an instrumentation test whose end is not in it is UNKNOWN, or a CRASH.
Types == IF kind = "gtest" THEN {"PASS", "FAIL"} ELSE Passing \cup Failing

\* _RunTest returns results for some of the tests of the shard, the others
\* being missing from its output; then test_completed().
RunTest(d) ==
  /\ phase[d] = "running"
  /\ \E reported \in SUBSET held[d] : \E type \in [reported -> Types] :
       /\ found' = [found EXCEPT ![d] = @ \cup {[name |-> n, type |-> type[n]] : n \in reported}]
       /\ last' = [n \in Name |-> IF n \in reported THEN type[n] ELSE last[n]]
  /\ ran' = [n \in Name |-> ran[n] + (IF n \in held[d] THEN 1 ELSE 0)]
  /\ tc' = TestCompleted(tc)
  /\ held' = [held EXCEPT ![d] = {}]
  /\ phase' = [phase EXCEPT ![d] = "waiting"]

\* _RunTest raises: the thread ends without test_completed().
RunTestRaises(d) ==
  /\ phase[d] = "running"
  /\ phase' = [phase EXCEPT ![d] = "dead"]
  /\ UNCHANGED <<tc, held, found, ran, last>>

DeviceStep(d) ==
  /\ Wake(d) \/ PopTest(d) \/ PopNothing(d) \/ RunTest(d) \/ RunTestRaises(d)
  /\ UNCHANGED mainVars
-----------------------------------------------------------------------------
(* RunTests                                                                *)

\* Mutant: one try too many.
StartTryOnceMore ==
  /\ main = "try"
  /\ tries <= MaxTries
  /\ tests # <<>>
  /\ main' = "join"
  /\ tc' = NewCollection(CreateShards(tests))
  /\ phase' = [d \in Device |-> "waiting"]
  /\ found' = [d \in Device |-> {}]
  /\ UNCHANGED <<kind, tries, tests, results, failures, outcome, held, ran,
                 last>>

StartTry ==
  /\ main = "try"
  /\ tries < MaxTries
  /\ tests # <<>>
  /\ main' = "join"
  /\ tc' = NewCollection(CreateShards(tests))
  /\ phase' = [d \in Device |-> "waiting"]
  /\ found' = [d \in Device |-> {}]
  /\ UNCHANGED <<kind, tries, tests, results, failures, outcome, held, ran,
                 last>>

\* Mutants: every test is retried, those that passed as well, and the results
\* of earlier tries are forgotten.
Keep(s, passed) == s
OnlyLast(old, new) == [n \in Name |-> IF n \in DOMAIN new THEN new[n] ELSE None]

\* The tests that have not passed yet, and all_fail_results updated.
Unpassed(s, passed) ==
  LET left == {i \in 1..Len(s) : s[i] \notin passed}
  IN  [k \in 1..Cardinality(left) |-> s[Nth(left, k)]]
Merge(old, new) == [n \in Name |-> IF n \in DOMAIN new THEN new[n] ELSE old[n]]

\* pGet(None) returns: every thread was joined and none had raised.
FinishTry ==
  LET try  == UNION {found[d] : d \in Device}
      good == {r \in try : r.type \in Passing}
      bad  == try \ good
  IN
  /\ main = "join"
  /\ \A d \in Device : phase[d] = "left"
  /\ results' = results \cup good
  /\ failures' = Merge(failures,
                   [n \in {r.name : r \in bad} |-> (CHOOSE r \in bad : r.name = n).type])
  /\ tests' = Unpassed(tests, {r.name : r \in results'})
  /\ tries' = tries + 1
  /\ main' = "try"
  /\ UNCHANGED <<kind, outcome, tc, phase, held, found, ran, last>>

\* JoinAll reraises only after every thread has ended.
TryRaises ==
  /\ main = "join"
  /\ \A d \in Device : phase[d] \in {"left", "dead"}
  /\ \E d \in Device : phase[d] = "dead"
  /\ main' = "end"
  /\ outcome' = "raised"
  /\ UNCHANGED <<kind, tries, tests, results, failures, tc, phase, held, found, ran, last>>

\* Mutant: a test that no try reported counts as skipped.
AsSkipped(left) ==
  {[name |-> n, type |-> IF failures[n] = None THEN "SKIP" ELSE failures[n]] : n \in left}

\* The results of the tests that never passed.
Remaining(left) ==
  {[name |-> n, type |-> IF failures[n] = None THEN "UNKNOWN" ELSE failures[n]] : n \in left}

Return ==
  /\ main = "try"
  /\ tries = MaxTries \/ tests = <<>>
  /\ results' = results \cup Remaining(Listed(tests))
  /\ main' = "end"
  /\ outcome' = "returned"
  /\ UNCHANGED <<kind, tries, tests, failures, tc, phase, held, found, ran, last>>

MainStep == StartTry \/ FinishTry \/ TryRaises \/ Return
Ended == main = "end" /\ UNCHANGED vars

Next == MainStep \/ (\E d \in Device : DeviceStep(d)) \/ Ended

Spec == Init /\ [][Next]_vars

\* The threads are scheduled, and every call of _RunTest returns or raises.
FairSpec ==
  Spec /\ WF_vars(MainStep) /\ \A d \in Device : WF_vars(DeviceStep(d))
-----------------------------------------------------------------------------
PassedNames == {r.name : r \in {q \in results : q.type \in Passing}}
Busy == {d \in Device : phase[d] \in {"running", "dead"}}

Result(types) == [name : Name, type : types]

TypeOK ==
  /\ main \in {"try", "join", "end"}
  /\ tries \in 0..MaxTries
  /\ tests \in Seq(Name)
  /\ results \subseteq Result(Passing \cup Failing)
  /\ failures \in [Name -> Failing \cup {None}]
  /\ tc \in Collection((SUBSET Name) \ {{}})
  /\ phase \in [Device -> Phase]
  /\ held \in [Device -> SUBSET Name]
  /\ \A d \in Device : held[d] # {} <=> d \in Busy
  /\ found \in [Device -> SUBSET Result(Passing \cup Failing)]
  /\ ran \in [Name -> Nat]
  /\ last \in [Name -> Passing \cup Failing \cup {None}]

\* Outside a try no thread is alive: pGet joined them all, and a thread that
\* raised ends the run.
NoneAlive == main # "join" =>
  \A d \in Device : phase[d] \in {"idle", "left"} \/ (phase[d] = "dead" /\ main = "end")

\* No test is in two shards at once, and none that passed in an earlier try is
\* sharded again.
ShardsDisjoint ==
  LET shards == tc.tests IN
  main = "join" =>
    /\ \A i, j \in 1..Len(shards) : i # j => shards[i] \cap shards[j] = {}
    /\ \A d \in Device : \A i \in 1..Len(shards) : held[d] \cap shards[i] = {}
    /\ \A d, e \in Device : d # e => held[d] \cap held[e] = {}
    /\ \A i \in 1..Len(shards) : shards[i] \cap PassedNames = {}

\* What RunTests returns holds one result for each test, with the type of the
\* latest output that had the test, whichever try and device it came from: a
\* failure survives later output without the test, an UNKNOWN replaces it, and a
\* test that no output had is UNKNOWN.
OneVerdictPerTest ==
  outcome = "returned" =>
    \A n \in Name :
      {r \in results : r.name = n} =
        {[name |-> n, type |-> IF last[n] = None THEN "UNKNOWN" ELSE last[n]]}

\* Every try of a test that did not pass runs it, unless an exception ends the
\* run; nothing is run more than max_tries times.
RunsBounded ==
  /\ \A n \in Name : ran[n] <= MaxTries
  /\ outcome = "returned" =>
       \A n \in Name \ PassedNames : ran[n] = MaxTries

\* RunTests ends when no call of _RunTest raises.
EndsUnlessRaised == <>(\E d \in Device : phase[d] = "dead") \/ <>(main = "end")

(* What makes these inductive.                                             *)

\* The tests of this try that nobody has run yet, or that are being run.
Pending == (UNION Listed(tc.tests)) \cup (UNION {held[d] : d \in Device})

Distinct(s) == \A i, j \in 1..Len(s) : i # j => s[i] # s[j]
OneEach(rs) == \A r, s \in rs : r.name = s.name => r = s

\* Until the end the results are passes, one for each test not in tests.
ResultsInv ==
  /\ main \in {"try", "join"} =>
       /\ outcome = None
       /\ Distinct(tests)
       /\ \A r \in results : r.type \in Passing
       /\ OneEach(results)
       /\ Listed(tests) = Name \ {r.name : r \in results}

\* The counter of the collection, and what a thread that left has seen.
JoinInv ==
  main = "join" =>
    /\ tries < MaxTries
    /\ \A d \in Device : phase[d] # "idle"
    /\ tc.inProgress = Len(tc.tests) + Cardinality(Busy)
    /\ (\E d \in Device : phase[d] = "left") => tc.inProgress = 0

\* Only tests that have not passed are pending, and a result of this try is the
\* only one of its test, which is not pending any more.
FoundInv ==
  main = "join" =>
    /\ Pending \subseteq Listed(tests)
    /\ OneEach(UNION {found[d] : d \in Device})
    /\ \A d \in Device : \A r \in found[d] : r.name \in Listed(tests) \ Pending

\* Every try has run, or will run, each test that has not passed.
RunsInv ==
  /\ main = "try" => \A n \in Name :
       ran[n] <= tries /\ (n \in Listed(tests) => ran[n] = tries)
  /\ main = "join" => \A n \in Name :
       /\ ran[n] <= tries + 1
       /\ n \in Listed(tests) => ran[n] = IF n \in Pending THEN tries ELSE tries + 1

\* What was last seen of a test is in the results, with a thread of this try, or
\* in all_fail_results.
LastInv ==
  main \in {"try", "join"} =>
    /\ \A r \in results : last[r.name] = r.type
    /\ main = "try" => \A n \in Listed(tests) : last[n] = failures[n]
    /\ main = "join" =>
         LET try == UNION {found[d] : d \in Device} IN
         /\ \A r \in try : last[r.name] = r.type
         /\ \A n \in Listed(tests) \ {r.name : r \in try} : last[n] = failures[n]

IInv ==
  /\ TypeOK
  /\ NoneAlive
  /\ ShardsDisjoint
  /\ ResultsInv
  /\ JoinInv
  /\ FoundInv
  /\ RunsInv
  /\ LastInv
  /\ OneVerdictPerTest
  /\ RunsBounded

\* Between two tries the passes a thread found are in the results.
CollectedInv ==
  main = "try" => \A d \in Device : {r \in found[d] : r.type \in Passing} \subseteq results

\* The ledger of the tests: a pass settles a test, as soon as a thread has it.
PassesFound == {r \in results \cup UNION {found[d] : d \in Device} : r.type \in Passing}
Entries(rs) == {[key |-> r.name, type |-> r.type] : r \in rs}
Ledger == INSTANCE TestLedger WITH
            Key     <- Name,
            Type    <- Passing,
            MaxRuns <- MaxTries,
            runs    <- ran,
            settled <- Entries(PassesFound),
            passed  <- IF outcome = "returned" THEN PassedNames ELSE None

\* Whatever the shards and the devices, a test is run only while no thread has
\* a pass of it, not more than max_tries times, never after RunTests returned,
\* and exactly the tests with a pass are reported as passed.
LedgerSpec == Ledger!Spec

\* What the docstrings of _pop ("Waits until a test is available or all tests
\* have been handled") and pGet ("Any exception raised by any of the called
\* functions") promise, and the code does not keep: RunTests ends, with an
\* exception if a call raised.
RunTestsEnds == <>(main = "end")
=============================================================================
