------------------------ MODULE TimeoutRetry_proofs -------------------------
(***************************************************************************)
(* Proofs about TimeoutRetry, for any number of retries.                   *)
(***************************************************************************)
EXTENDS TimeoutRetry, TLAPS

\* Tries are numbered from 1, and None is no try.
LEMMA TryFacts ==
  /\ 1 \in Try
  /\ Try \subseteq Nat
  /\ None \notin Try
  /\ \A n \in Try : n > 1 => n - 1 \in Try
  /\ \A n \in Try : n <= Retries => n + 1 \in Try
  /\ \A n \in Try : 1..n \subseteq Try
BY RetryAssumption DEF Try

LEMMA InitIInv == Init => IInv
<1> SUFFICES ASSUME Init PROVE IInv
  OBVIOUS
<1>1. TypeOK
  BY TryFacts DEF Init, TypeOK, State, Try
<1>2. OverlapOnlyAfterTimeout
  BY DEF Init, OverlapOnlyAfterTimeout, Alive
<1>3. LeftTry /\ RetWritten
  BY TryFacts DEF Init, LeftTry, RetWritten, Try
<1>4. ReturnsAResult /\ FailsOnlyAfterItsTries
  BY DEF Init, ReturnsAResult, FailsOnlyAfterItsTries, Ended
<1> QED BY <1>1, <1>2, <1>3, <1>4 DEF IInv

\* A child thread's steps: only the child and, when func returns, ret change.
LEMMA ChildIInv ==
  ASSUME IInv, NEW n \in Try,
         FuncReturns(n) \/ FuncRaises(n) \/ WaitForExpires(n) \/ ChildEnds(n)
  PROVE  IInv'
<1> USE DEF Becomes
<1>1. /\ timed' = timed /\ main' = main /\ num' = num /\ pending' = pending
      /\ outcome' = outcome /\ abandoned' = abandoned
      /\ Alive(n)
      /\ child[n] # "written" => ret' = ret \/ ret' = n
  BY DEF FuncReturns, FuncRaises, WaitForExpires, ChildEnds, Alive
<1>2. \E s \in State \ {"new"} : child' = [child EXCEPT ![n] = s]
  BY DEF FuncReturns, FuncRaises, WaitForExpires, ChildEnds, State
<1>3. /\ child' \in [Try -> State]
      /\ child'[n] # "new" /\ child[n] # "new"
      /\ \A m \in Try : m # n => child'[m] = child[m]
  BY <1>1, <1>2 DEF IInv, TypeOK, Alive
<1>4. TypeOK'
  <2>1. ret' \in Try \cup {None}
    BY DEF IInv, TypeOK, FuncReturns, FuncRaises, WaitForExpires, ChildEnds
  <2> QED BY <1>1, <1>3, <2>1 DEF IInv, TypeOK
<1>5. OverlapOnlyAfterTimeout'
  BY <1>1, <1>3 DEF IInv, OverlapOnlyAfterTimeout, Alive
<1>6. LeftTry'
  BY <1>1, <1>3 DEF IInv, LeftTry, Alive, TypeOK
<1>7. RetWritten'
  BY TryFacts
  DEF IInv, TypeOK, RetWritten, FuncReturns, FuncRaises, WaitForExpires, ChildEnds
<1>8. ReturnsAResult'
  <2>1. child[n] \in {"written", "done"} => child'[n] \in {"written", "done"}
    BY DEF IInv, TypeOK, FuncReturns, FuncRaises, WaitForExpires, ChildEnds
  <2>2. child[n] # "done"
    BY <1>1 DEF Alive
  <2>3. num \in Try
    BY DEF IInv, TypeOK
  <2> SUFFICES ASSUME Ended', outcome'.kind = "returned"
               PROVE  /\ child'[num] = "done"
                      /\ outcome.value \in
                           {m \in Try : child'[m] \in {"written", "done"}}
    BY <1>1 DEF ReturnsAResult
  <2>4. /\ child[num] = "done"
        /\ outcome.value \in {m \in Try : child[m] \in {"written", "done"}}
    BY <1>1 DEF IInv, ReturnsAResult, Ended
  <2> QED BY <1>3, <2>1, <2>2, <2>3, <2>4
<1>9. FailsOnlyAfterItsTries'
  <2>1. /\ \A m \in Try : child[m] = "failed" => child'[m] = "failed"
        /\ \A m \in Try : ~Alive(m) => child'[m] = child[m]
        /\ \A m \in Try : child[m] = "expired" => child'[m] \in {"expired", "failed"}
    BY DEF IInv, TypeOK, Alive, FuncReturns, FuncRaises, WaitForExpires, ChildEnds
  <2>2. num \in Try /\ 1..num \subseteq Try
    BY TryFacts DEF IInv, TypeOK
  <2> QED BY <1>1, <2>1, <2>2 DEF IInv, FailsOnlyAfterItsTries, Ended, Alive
<1> QED BY <1>4, <1>5, <1>6, <1>7, <1>8, <1>9 DEF IInv

\* The calling thread starts, joins and abandons tries.
LEMMA StartTryIInv == IInv /\ StartTry => IInv'
<1> SUFFICES ASSUME IInv, StartTry PROVE IInv'
  OBVIOUS
<1>1. num \in Try /\ num \in Nat
  BY TryFacts DEF IInv, TypeOK
<1>2. child[num] = "new" /\ num # ret
  <2>1. child[num] = "new"
    BY <1>1 DEF IInv, TypeOK, StartTry
  <2>2. ret \in Try => child[ret] \in {"written", "done"}
    BY TryFacts DEF IInv, RetWritten
  <2> QED BY <1>1, <2>1, <2>2
<1>3. TypeOK'
  BY <1>1 DEF IInv, TypeOK, State, StartTry
<1>4. OverlapOnlyAfterTimeout'
  BY <1>1, TryFacts DEF IInv, TypeOK, OverlapOnlyAfterTimeout, Alive, StartTry
<1>5. ReturnsAResult' /\ FailsOnlyAfterItsTries'
  BY DEF ReturnsAResult, FailsOnlyAfterItsTries, Ended, StartTry
<1>6. RetWritten'
  BY <1>2 DEF IInv, TypeOK, RetWritten, StartTry
<1>7. LeftTry'
  <2>1. \A n \in Try : n < num => child'[n] = child[n]
    BY <1>1, TryFacts DEF IInv, TypeOK, StartTry
  <2> QED BY <2>1 DEF IInv, LeftTry, StartTry
<1> QED BY <1>3, <1>4, <1>5, <1>6, <1>7 DEF IInv

LEMMA JoinedIInv == IInv /\ Joined => IInv'
<1> SUFFICES ASSUME IInv, Joined PROVE IInv'
  OBVIOUS
<1>1. TypeOK'
  BY DEF IInv, TypeOK, Joined
<1>2. OverlapOnlyAfterTimeout' /\ LeftTry' /\ RetWritten'
  BY DEF IInv, OverlapOnlyAfterTimeout, Alive, LeftTry, RetWritten, Joined
<1>3. ReturnsAResult'
  BY DEF IInv, TypeOK, RetWritten, ReturnsAResult, Ended, Joined
<1>4. FailsOnlyAfterItsTries'
  BY DEF FailsOnlyAfterItsTries, Ended, Joined
<1> QED BY <1>1, <1>2, <1>3, <1>4 DEF IInv

LEMMA WatchdogIInv ==
  IInv /\ (WatchdogExpires \/ FilterAlive \/ LookUpStack) => IInv'
<1> SUFFICES ASSUME IInv, WatchdogExpires \/ FilterAlive \/ LookUpStack
             PROVE  IInv'
  OBVIOUS
<1>1. num \in 1..num
  BY TryFacts DEF IInv, TypeOK, Try
<1>2. TypeOK'
  BY <1>1 DEF IInv, TypeOK, WatchdogExpires, FilterAlive, LookUpStack
<1>3. OverlapOnlyAfterTimeout' /\ RetWritten'
  BY DEF IInv, OverlapOnlyAfterTimeout, Alive, RetWritten, WatchdogExpires,
         FilterAlive, LookUpStack
<1>4. LeftTry' /\ ReturnsAResult' /\ FailsOnlyAfterItsTries'
  BY <1>2 DEF IInv, LeftTry, Alive, ReturnsAResult, FailsOnlyAfterItsTries, Ended,
              WatchdogExpires, FilterAlive, LookUpStack
<1> QED BY <1>2, <1>3, <1>4 DEF IInv

LEMMA HandleIInv == IInv /\ Handle => IInv'
<1> SUFFICES ASSUME IInv, Handle PROVE IInv'
  OBVIOUS
<1>1. /\ timed' = timed /\ child' = child /\ ret' = ret /\ abandoned' = abandoned
      /\ \/ main' = "end" /\ num' = num /\ pending' = pending
            /\ outcome'.kind # "returned"
         \/ main' = "start" /\ num' = num + 1 /\ ~Exhausted(num)
            /\ pending' = None
  <2>1. pending # "returned"
    BY DEF IInv, LeftTry, Handle
  <2>2. CASE child[num] = "expired"
    BY <2>2 DEF Handle
  <2>3. CASE child[num] # "expired" /\ Exhausted(num)
    BY <2>1, <2>3 DEF Handle
  <2>4. CASE child[num] # "expired" /\ ~Exhausted(num)
    BY <2>4 DEF Handle
  <2> QED BY <2>2, <2>3, <2>4
<1>2. num \in Try /\ num \in Nat /\ num' \in Try
  BY <1>1, TryFacts, RetryAssumption DEF IInv, TypeOK, Exhausted
<1>3. TypeOK'
  <2>1. abandoned' \subseteq 1..num'
    BY <1>1, <1>2 DEF IInv, TypeOK
  <2>2. \A n \in Try : child'[n] = "new" <=> n > num' \/ (n = num' /\ main' = "start")
    BY <1>1, <1>2, TryFacts DEF IInv, TypeOK, Handle
  <2> QED BY <1>1, <1>2, <2>1, <2>2 DEF IInv, TypeOK
<1>4. OverlapOnlyAfterTimeout'
  <2>1. \A m \in Try : m < num' => m < num \/ m = num
    BY <1>1, <1>2, TryFacts
  <2>2. Alive(num) => num \in abandoned
    BY DEF IInv, LeftTry, Handle, Alive
  <2> QED BY <1>1, <2>1, <2>2 DEF IInv, OverlapOnlyAfterTimeout, Alive
<1>5. RetWritten' /\ ReturnsAResult'
  BY <1>1 DEF IInv, RetWritten, ReturnsAResult, Ended
<1>6. child[num] = "failed" \/ num \in abandoned
  BY DEF IInv, LeftTry, Handle
<1>7. LeftTry'
  <2>1. \A n \in Try : n < num' => n < num \/ n = num
    BY <1>1, <1>2, TryFacts
  <2> QED BY <1>1, <1>6, <2>1 DEF IInv, LeftTry
<1>8. FailsOnlyAfterItsTries'
  <2>1. CASE main' = "start"
    BY <2>1 DEF FailsOnlyAfterItsTries, Ended
  <2>2. CASE main' # "start"
    <3>1. num' = num /\ 1..num \subseteq Try
      BY <1>1, <1>2, <2>2, TryFacts
    <3>2. \A n \in 1..num : child[n] = "failed" \/ n \in abandoned
      <4>1. \A n \in 1..num : n \in Try /\ (n < num \/ n = num)
        BY <1>2, <3>1
      <4> QED BY <1>6, <4>1 DEF IInv, LeftTry
    <3>3. CASE child[num] = "expired"
      <4>1. num \in abandoned /\ outcome'.kind = "TypeError"
        BY <1>6, <3>3 DEF Handle
      <4> QED BY <1>1, <3>1, <3>2, <3>3, <4>1 DEF FailsOnlyAfterItsTries
    <3>4. CASE child[num] # "expired"
      <4>1. num = Retries + 1
        BY <1>1, <1>2, <2>2, <3>4, RetryAssumption DEF Handle, Exhausted, Try
      <4>2. outcome'.kind = pending
        BY <1>1, <2>2, <3>4 DEF Handle
      <4>3. \/ pending = "raised" /\ child[num] = "failed"
            \/ pending = "timeout" /\ num \in abandoned
            \/ pending = "KeyError" /\ num \in abandoned /\ ~Alive(num)
        BY DEF IInv, LeftTry, Handle
      <4> QED BY <1>1, <3>1, <3>2, <4>1, <4>2, <4>3 DEF FailsOnlyAfterItsTries, Alive
    <3> QED BY <3>3, <3>4
  <2> QED BY <2>1, <2>2
<1> QED BY <1>3, <1>4, <1>5, <1>7, <1>8 DEF IInv

THEOREM Invariance == Spec => []IInv
<1>1. IInv /\ [Next]_vars => IInv'
  <2> SUFFICES ASSUME IInv, [Next]_vars PROVE IInv'
    OBVIOUS
  <2>1. CASE UNCHANGED vars
    BY <2>1 DEF vars, IInv, TypeOK, OverlapOnlyAfterTimeout, Alive, LeftTry,
                RetWritten, ReturnsAResult, FailsOnlyAfterItsTries, Ended
  <2>2. CASE MainStep
    BY <2>2, StartTryIInv, JoinedIInv, WatchdogIInv, HandleIInv DEF MainStep
  <2> QED BY <2>1, <2>2, ChildIInv DEF Next
<1> QED BY <1>1, InitIInv, PTL DEF Spec

\* The values of the variables stay in their sets, for any number of retries.
THEOREM TypeCorrect == Spec => []TypeOK
<1>1. IInv => TypeOK
  BY DEF IInv
<1> QED BY <1>1, Invariance, PTL

\* A try is started only after the ones before it ended or were abandoned by
\* their watchdog.
THEOREM NoOverlapWithoutTimeout == Spec => []OverlapOnlyAfterTimeout
<1>1. IInv => OverlapOnlyAfterTimeout
  BY DEF IInv
<1> QED BY <1>1, Invariance, PTL

\* What Run returns is the value of a call of func that returned.
THEOREM ReturnedValueIsAResult == Spec => []ReturnsAResult
<1>1. IInv => ReturnsAResult
  BY DEF IInv
<1> QED BY <1>1, Invariance, PTL

\* Run raises only after every try failed or was abandoned, and gives up tries only
\* to a child that is met between its two steps of timing out.
THEOREM FailsAfterItsTries == Spec => []FailsOnlyAfterItsTries
<1>1. IInv => FailsOnlyAfterItsTries
  BY DEF IInv
<1> QED BY <1>1, Invariance, PTL
=============================================================================
