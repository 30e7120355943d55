----------------------------- MODULE TestLedger -----------------------------
(***************************************************************************)
(* What RunTests promises about each test it was given, without devices,   *)
(* threads, shards and queues: a test is run only while it is not settled, *)
(* and at most MaxRuns times; the result that settles it comes from a run  *)
(* of it and is never changed; and once the verdict is out nothing is run  *)
(* any more, and the tests reported as passed are those settled so.        *)
(***************************************************************************)
EXTENDS Naturals

CONSTANTS Key,      \* what identifies a test
          Type,     \* the types of results
          Passing,  \* those that count as a pass
          MaxRuns,
          None

VARIABLES runs,     \* how often each test was run
          settled,  \* the results that stand
          passed    \* the tests reported as passed, or None before the verdict

vars == <<runs, settled, passed>>

Settled == {r.key : r \in settled}

Init ==
  /\ runs = [k \in Key |-> 0]
  /\ settled = {}
  /\ passed = None

\* A group of tests is run; some of them are settled by it.
Run(group) ==
  /\ passed = None
  /\ \A k \in group : k \notin Settled /\ runs[k] < MaxRuns
  /\ runs' = [k \in Key |-> IF k \in group THEN runs[k] + 1 ELSE runs[k]]
  /\ \E done \in SUBSET group : \E type \in [done -> Type] :
       settled' = settled \cup {[key |-> k, type |-> type[k]] : k \in done}
  /\ UNCHANGED passed

Conclude ==
  /\ passed = None
  /\ passed' = {r.key : r \in {s \in settled : s.type \in Passing}}
  /\ UNCHANGED <<runs, settled>>

Next == Conclude \/ \E group \in SUBSET Key : Run(group)

Spec == Init /\ [][Next]_vars
=============================================================================
