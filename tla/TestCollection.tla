--------------------------- MODULE TestCollection ---------------------------
(***************************************************************************)
(* src/android/pylib/base/test_collection.py: the thread-safe collection   *)
(* of tests that runner threads iterate over.                              *)
(*                                                                         *)
(* A collection is a record:                                               *)
(*   tests       self._tests, the FIFO list of tests nobody works on       *)
(*   inProgress  self._tests_in_progress, tests added and not completed    *)
(*   signalled   the flag of self._item_available_or_all_done              *)
(*                                                                         *)
(* Each method's `with self._lock` block is one operator here.  That is    *)
(* sound: the three fields are written only inside such blocks, and what   *)
(* is read outside them (the wait on the event and __len__) reads a single *)
(* field.                                                                  *)
(***************************************************************************)
EXTENDS Integers, Sequences

\* __init__: the tests are added one by one, so an empty list leaves the
\* event unset.
NewCollection(tests) ==
  [tests |-> tests, inProgress |-> Len(tests), signalled |-> tests # <<>>]

\* Mutants: an add() that does not count the test, or does not set the event.
AddUncounted(tc, test) ==
  [tc EXCEPT !.tests = Append(@, test), !.signalled = TRUE]
AddSilent(tc, test) ==
  [tc EXCEPT !.tests = Append(@, test), !.inProgress = @ + 1]

\* add
Add(tc, test) ==
  [tests      |-> Append(tc.tests, test),
   inProgress |-> tc.inProgress + 1,
   signalled  |-> TRUE]

\* Mutant: the last test_completed() forgets to wake the waiting threads.
TestCompletedSilent(tc) == [tc EXCEPT !.inProgress = @ - 1]

\* test_completed
TestCompleted(tc) ==
  [tests      |-> tc.tests,
   inProgress |-> tc.inProgress - 1,
   signalled  |-> tc.signalled \/ tc.inProgress = 1]

\* Mutant: a thread leaves as soon as the list is empty.
NoneQueued(tc) == tc.tests = <<>>

\* _pop, inside the lock: the three ways out of the block.
AllHandled(tc)    == tc.inProgress = 0
TestAvailable(tc) == ~AllHandled(tc) /\ tc.tests # <<>>
Beaten(tc)        == ~AllHandled(tc) /\ tc.tests = <<>>

\* _pop: pop(0), and the clear() of a thread that was beaten to the test.
Popped(tc)  == [tc EXCEPT !.tests = Tail(@)]
Cleared(tc) == [tc EXCEPT !.signalled = FALSE]

\* The collections whose tests come from T.
Collection(T) ==
  [tests : Seq(T), inProgress : Int, signalled : BOOLEAN]
=============================================================================
