------------------------- MODULE CollectionWorkers --------------------------
(***************************************************************************)
(* Threads that iterate over one shared TestCollection the way             *)
(* _RunTestsFromQueue does (src/android/pylib/base/test_dispatcher.py):    *)
(* `for test in collection`, possibly add() a retry or, after an           *)
(* exception, the test itself, then always test_completed().               *)
(*                                                                         *)
(* A worker is in one of these phases:                                     *)
(*   waiting    in _item_available_or_all_done.wait()                      *)
(*   woken      past the wait, about to take the lock                      *)
(*   running    the loop body, holding the test _pop returned              *)
(*   submitted  a retry has been added, test_completed not yet called      *)
(*   raising    an exception: the test was added back, not yet completed   *)
(*   left       the iteration ended (_pop returned None)                   *)
(*   dead       the exception ended the thread                             *)
(***************************************************************************)
EXTENDS TestCollection, FiniteSets

CONSTANTS Worker,    \* the threads
          Task,      \* _Test objects, those of later retries included
          Initial,   \* the tests given to __init__, in order
          None       \* no test

ASSUME WorkerAssumption == IsFiniteSet(Worker)
ASSUME NoneAssumption == None \notin Task
ASSUME InitialAssumption ==
  /\ Initial \in Seq(Task)
  /\ Initial # <<>>
  /\ \A i, j \in 1..Len(Initial) : i # j => Initial[i] # Initial[j]

VARIABLES tc,        \* the collection
          phase,     \* what each worker does
          held,      \* the test each worker holds, or None
          added,     \* history: every test ever added
          done       \* history: tests completed without being added back

vars == <<tc, phase, held, added, done>>

Phase == {"waiting", "woken", "running", "submitted", "raising", "left", "dead"}

Elements(s) == {s[i] : i \in 1..Len(s)}

Init ==
  /\ tc = NewCollection(Initial)
  /\ phase = [w \in Worker |-> "waiting"]
  /\ held = [w \in Worker |-> None]
  /\ added = Elements(Initial)
  /\ done = {}

\* _pop: the wait on the event returns.
Wake(w) ==
  /\ phase[w] = "waiting"
  /\ tc.signalled
  /\ phase' = [phase EXCEPT ![w] = "woken"]
  /\ UNCHANGED <<tc, held, added, done>>

\* _pop: pop(0) finds a test.
PopTest(w) ==
  /\ phase[w] = "woken"
  /\ TestAvailable(tc)
  /\ tc' = Popped(tc)
  /\ held' = [held EXCEPT ![w] = Head(tc.tests)]
  /\ phase' = [phase EXCEPT ![w] = "running"]
  /\ UNCHANGED <<added, done>>

\* _pop: pop(0) raises IndexError, the event is cleared and the loop waits.
PopBeaten(w) ==
  /\ phase[w] = "woken"
  /\ Beaten(tc)
  /\ tc' = Cleared(tc)
  /\ phase' = [phase EXCEPT ![w] = "waiting"]
  /\ UNCHANGED <<held, added, done>>

\* _pop returns None and __iter__ ends.
PopNone(w) ==
  /\ phase[w] = "woken"
  /\ AllHandled(tc)
  /\ phase' = [phase EXCEPT ![w] = "left"]
  /\ UNCHANGED <<tc, held, added, done>>

\* The loop body adds a retry: a new _Test.
AddRetry(w) ==
  /\ phase[w] = "running"
  /\ \E t \in Task \ added :
       /\ tc' = Add(tc, t)
       /\ added' = added \cup {t}
  /\ phase' = [phase EXCEPT ![w] = "submitted"]
  /\ UNCHANGED <<held, done>>

\* Mutant: an exception loses the test.
AddBackForgotten(w) ==
  /\ phase[w] = "running"
  /\ phase' = [phase EXCEPT ![w] = "raising"]
  /\ UNCHANGED <<tc, held, added, done>>

\* The loop body raises: the test goes back for another worker.
AddBack(w) ==
  /\ phase[w] = "running"
  /\ tc' = Add(tc, held[w])
  /\ phase' = [phase EXCEPT ![w] = "raising"]
  /\ UNCHANGED <<held, added, done>>

\* finally: test_completed(), and on to the next test.
Complete(w) ==
  /\ phase[w] \in {"running", "submitted"}
  /\ tc' = TestCompleted(tc)
  /\ done' = done \cup {held[w]}
  /\ held' = [held EXCEPT ![w] = None]
  /\ phase' = [phase EXCEPT ![w] = "waiting"]
  /\ UNCHANGED added

\* finally: test_completed(), and the exception ends the thread.
CompleteAndDie(w) ==
  /\ phase[w] = "raising"
  /\ tc' = TestCompleted(tc)
  /\ held' = [held EXCEPT ![w] = None]
  /\ phase' = [phase EXCEPT ![w] = "dead"]
  /\ UNCHANGED <<added, done>>

WorkerStep(w) ==
  \/ Wake(w)
  \/ PopTest(w)
  \/ PopBeaten(w)
  \/ PopNone(w)
  \/ AddRetry(w)
  \/ AddBack(w)
  \/ Complete(w)
  \/ CompleteAndDie(w)

Over(w) == phase[w] \in {"left", "dead"}

\* Every thread has ended; this is no deadlock.
Terminated == (\A w \in Worker : Over(w)) /\ UNCHANGED vars

Next == (\E w \in Worker : WorkerStep(w)) \/ Terminated

Spec == Init /\ [][Next]_vars

\* Threads are scheduled, and every test run ends, one way or the other.
FairSpec == Spec /\ \A w \in Worker : WF_vars(WorkerStep(w))
-----------------------------------------------------------------------------
Holding == {"running", "submitted", "raising"}
Holders == {w \in Worker : phase[w] \in Holding}

\* Types: the fields of the collection, a phase per worker, and a held test
\* exactly in the phases between _pop and test_completed.
TypeOK ==
  /\ tc \in Collection(Task)
  /\ phase \in [Worker -> Phase]
  /\ held \in [Worker -> Task \cup {None}]
  /\ \A w \in Worker : held[w] # None <=> w \in Holders
  /\ added \subseteq Task
  /\ done \subseteq Task

\* _tests_in_progress counts the queued tests and the tests being run: the
\* invariant every early or missing test_completed() would break.
CountExact == tc.inProgress = Len(tc.tests) + Cardinality(Holders)

\* The event is unset only while some worker runs the last tests: no wake-up
\* is lost between add(), the clear() of a beaten worker and test_completed().
NoLostWakeup ==
  ~tc.signalled => tc.tests = <<>> /\ tc.inProgress # 0

\* A worker left the iteration only after every test had been handled, and
\* nothing is added afterwards ("A test or None if all tests have been
\* handled", _pop).
LeaveWhenDrained ==
  (\E w \in Worker : phase[w] = "left") =>
    tc.tests = <<>> /\ Holders = {}

\* A thread that waits on an unset event can rely on another that still has
\* to call test_completed() or add().
SomebodyWillSignal ==
  (\E w \in Worker : phase[w] = "waiting" /\ ~tc.signalled) => Holders # {}

\* add() and _pop() hand every test to one worker at a time; the only overlap
\* is a worker that already gave its test back and has yet to die.
OneHolderPerTest ==
  \A w1, w2 \in Holders :
    w1 # w2 /\ held[w1] = held[w2] => "raising" \in {phase[w1], phase[w2]}

\* No test is ever dropped: it is queued, held or done.
NoTestLost ==
  added = Elements(tc.tests) \cup {held[w] : w \in Holders} \cup done

\* What makes the sharing of tests inductive: a test is queued at most once,
\* and only a worker about to die may hold a test that is queued again.
QueueDistinct ==
  \A i, j \in 1..Len(tc.tests) : i # j => tc.tests[i] # tc.tests[j]
QueuedNotHeld ==
  \A w \in Holders : held[w] \in Elements(tc.tests) => phase[w] = "raising"
\* The test of a worker that is about to die is queued again, or already with
\* a worker that is not dying, or done.
HandedBack ==
  \A w \in Worker : phase[w] = "raising" =>
    held[w] \in Elements(tc.tests) \cup done \cup
                  {held[v] : v \in {u \in Holders : phase[u] # "raising"}}

\* The inductive invariant.
IInv ==
  /\ TypeOK
  /\ CountExact
  /\ NoLostWakeup
  /\ LeaveWhenDrained
  /\ QueueDistinct
  /\ QueuedNotHeld
  /\ OneHolderPerTest
  /\ HandedBack
  /\ NoTestLost

\* The collection implements the task pool.
Pool == INSTANCE TaskPool WITH
          Initial   <- Elements(Initial),
          waiting   <- Elements(tc.tests),
          running   <- held,
          returning <- {w \in Worker : phase[w] = "raising"},
          gone      <- {w \in Worker : phase[w] = "dead"},
          dismissed <- {w \in Worker : phase[w] = "left"},
          finished  <- done
PoolSpec == Pool!Spec

\* Every thread's iteration ends.
EveryWorkerEnds == <>(\A w \in Worker : Over(w))
=============================================================================
