---------------------------- MODULE TimeoutRetry ----------------------------
(***************************************************************************)
(* src/android/pylib/utils/timeout_retry.py: Run(func, timeout, retries)   *)
(* calls func on a child thread per try, joins it under the child's own    *)
(* watchdog (reraiser_thread.py, watchdog_timer.py) and tries again after  *)
(* any exception.  A child whose watchdog expired is abandoned, not        *)
(* stopped: it goes on beside the next tries and writes the same ret[0].   *)
(* With a timeout of 0 or None no watchdog ever expires.                   *)
(*                                                                         *)
(* A child thread is                                                       *)
(*   new       not started                                                 *)
(*   running   inside func                                                 *)
(*   expired   GetRemainingTime set _expired and raised; the exception has *)
(*             not reached ReraiserThread.run, so _exc_info is still None  *)
(*   written   func returned and ret[0] is set; the thread is still alive  *)
(*   done      ended normally                                              *)
(*   failed    ended with _exc_info set                                    *)
(***************************************************************************)
EXTENDS Naturals

CONSTANTS Retries,   \* the number of retries
          None

ASSUME RetryAssumption == Retries \in Nat /\ None \notin Nat

Try == 1..(Retries + 1)

VARIABLES timed,     \* the timeout is neither 0 nor None
          main,      \* where Run is, on the calling thread
          num,       \* num_try
          child,     \* the state of each try's thread
          ret,       \* ret[0]: the try whose value it holds, or None
          pending,   \* the exception Run handles, or None
          outcome,   \* how Run ended, or None
          abandoned  \* history: the tries whose watchdog expired

vars == <<timed, main, num, child, ret, pending, outcome, abandoned>>

Alive(n) == child[n] \in {"running", "expired", "written"}

Init ==
  /\ timed \in BOOLEAN
  /\ main = "start"
  /\ num = 1
  /\ child = [n \in Try |-> "new"]
  /\ ret = None
  /\ pending = None
  /\ outcome = None
  /\ abandoned = {}
-----------------------------------------------------------------------------
(* The child threads.                                                      *)

Becomes(n, from, to) == child[n] = from /\ child' = [child EXCEPT ![n] = to]

FuncReturns(n) ==
  /\ Becomes(n, "running", "written")
  /\ ret' = n
  /\ UNCHANGED <<timed, main, num, pending, outcome, abandoned>>

FuncRaises(n) ==
  /\ Becomes(n, "running", "failed")
  /\ UNCHANGED <<timed, main, num, ret, pending, outcome, abandoned>>

\* func is in WaitFor, which asks for the time left before it sleeps again.
WaitForExpires(n) ==
  /\ timed
  /\ Becomes(n, "running", "expired")
  /\ UNCHANGED <<timed, main, num, ret, pending, outcome, abandoned>>

\* ReraiserThread.run returns, or stores the exception it caught.
ChildEnds(n) ==
  /\ Becomes(n, "written", "done") \/ Becomes(n, "expired", "failed")
  /\ UNCHANGED <<timed, main, num, ret, pending, outcome, abandoned>>
-----------------------------------------------------------------------------
(* Run, JoinAll and _JoinAll, on the calling thread.                       *)

StartTry ==
  /\ main = "start"
  /\ child' = [child EXCEPT ![num] = "running"]
  /\ main' = "join"
  /\ UNCHANGED <<timed, num, ret, pending, outcome, abandoned>>

\* Mutants: the join returns, or raises, without waiting for the child.
ReturnsEarly ==
  /\ main = "join"
  /\ main' = "end"
  /\ outcome' = [kind |-> "returned", value |-> ret]
  /\ UNCHANGED <<timed, num, child, ret, pending, abandoned>>
RaisesEarly ==
  /\ main = "join"
  /\ main' = "handle"
  /\ pending' = "raised"
  /\ UNCHANGED <<timed, num, child, ret, outcome, abandoned>>

\* The child was found dead: reraise its exception, or return.
Joined ==
  /\ main = "join"
  /\ \/ /\ child[num] = "done"
        /\ main' = "end"
        /\ outcome' = [kind |-> "returned", value |-> ret]
        /\ UNCHANGED pending
     \/ /\ child[num] = "failed"
        /\ main' = "handle"
        /\ pending' = "raised"
        /\ UNCHANGED outcome
  /\ UNCHANGED <<timed, num, child, ret, abandoned>>

\* Mutant: the child is joined without a watchdog.
NeverExpires == FALSE /\ UNCHANGED vars

\* The watchdog is asked before the child is: it may have ended already.
WatchdogExpires ==
  /\ main = "join"
  /\ timed
  /\ main' = "logging"
  /\ abandoned' = abandoned \cup {num}
  /\ UNCHANGED <<timed, num, child, ret, pending, outcome>>

\* JoinAll logs the stack of a thread that is alive.
FilterAlive ==
  /\ main = "logging"
  /\ IF Alive(num)
       THEN main' = "lookup" /\ UNCHANGED pending
       ELSE main' = "handle" /\ pending' = "timeout"
  /\ UNCHANGED <<timed, num, child, ret, outcome, abandoned>>

\* sys._current_frames() has no entry for a thread that ended meanwhile.
LookUpStack ==
  /\ main = "lookup"
  /\ main' = "handle"
  /\ pending' = IF Alive(num) THEN "timeout" ELSE "KeyError"
  /\ UNCHANGED <<timed, num, child, ret, outcome, abandoned>>

\* Mutant: no retry is made.
GiveUp(n) == TRUE

Exhausted(n) == n > Retries

\* The except clause.  LogTimeoutException subscripts _exc_info when _expired
\* is set; on a thread that has not stored it yet that raises TypeError.
Handle ==
  /\ main = "handle"
  /\ IF child[num] = "expired" THEN
       /\ main' = "end"
       /\ outcome' = [kind |-> "TypeError", value |-> None]
       /\ UNCHANGED <<num, pending>>
     ELSE IF Exhausted(num) THEN
       /\ main' = "end"
       /\ outcome' = [kind |-> pending, value |-> None]
       /\ UNCHANGED <<num, pending>>
     ELSE
       /\ main' = "start"
       /\ num' = num + 1
       /\ pending' = None
       /\ UNCHANGED outcome
  /\ UNCHANGED <<timed, child, ret, abandoned>>

MainStep ==
  StartTry \/ Joined \/ WatchdogExpires \/ FilterAlive \/ LookUpStack \/ Handle

Next ==
  \/ MainStep
  \/ \E n \in Try :
       FuncReturns(n) \/ FuncRaises(n) \/ WaitForExpires(n) \/ ChildEnds(n)

Spec == Init /\ [][Next]_vars

\* The calling thread is scheduled and its watchdog, if there is a timeout,
\* expires; func may hang.
FairSpec == Spec /\ WF_vars(MainStep)
-----------------------------------------------------------------------------
Ended == main = "end"
State == {"new", "running", "expired", "written", "done", "failed"}

TypeOK ==
  /\ timed \in BOOLEAN
  /\ main \in {"start", "join", "logging", "lookup", "handle", "end"}
  /\ num \in Try
  /\ child \in [Try -> State]
  /\ ret \in Try \cup {None}
  /\ pending \in {None, "raised", "timeout", "KeyError"}
  /\ abandoned \subseteq 1..num
  /\ \A n \in Try : child[n] = "new" <=> n > num \/ (n = num /\ main = "start")

\* Two calls of func run side by side only when the watchdog of the earlier
\* one expired: a retry after an ordinary exception never overlaps.
OverlapOnlyAfterTimeout ==
  \A m \in Try : m < num /\ Alive(m) => m \in abandoned

\* Run returns after the call of its last try returned, and the value is one
\* that some call of func returned.
ReturnsAResult ==
  Ended /\ outcome.kind = "returned" =>
    /\ child[num] = "done"
    /\ outcome.value \in {n \in Try : child[n] \in {"written", "done"}}

\* Run raises only when no try brought a result in time: each one failed or was
\* abandoned, and no try is left.  What it raises says what became of the last
\* one.  Tries are lost only when a child is met between its two steps of
\* timing out, _expired set and _exc_info not yet.
FailsOnlyAfterItsTries ==
  Ended /\ outcome.kind # "returned" =>
    /\ \A n \in 1..num : child[n] = "failed" \/ n \in abandoned
    /\ \/ num = Retries + 1 /\ outcome.kind = "raised" /\ child[num] = "failed"
       \/ num = Retries + 1 /\ outcome.kind = "timeout" /\ num \in abandoned
       \/ num = Retries + 1 /\ outcome.kind = "KeyError" /\ num \in abandoned /\ ~Alive(num)
       \/ outcome.kind = "TypeError" /\ num \in abandoned /\ child[num] \in {"expired", "failed"}

\* What makes them inductive: the calling thread leaves a try only when its
\* child failed or its watchdog expired, and ret[0] was set by a call that
\* returned.
LeftTry ==
  /\ main \in {"logging", "lookup"} => num \in abandoned
  /\ main = "handle" =>
       \/ pending = "raised" /\ child[num] = "failed"
       \/ pending = "timeout" /\ num \in abandoned
       \/ pending = "KeyError" /\ num \in abandoned /\ ~Alive(num)
  /\ \A n \in Try : n < num => child[n] = "failed" \/ n \in abandoned
RetWritten ==
  /\ ret # None => child[ret] \in {"written", "done"}
  /\ \A n \in Try : child[n] \in {"written", "done"} => ret # None

IInv ==
  /\ TypeOK
  /\ OverlapOnlyAfterTimeout
  /\ LeftTry
  /\ RetWritten
  /\ ReturnsAResult
  /\ FailsOnlyAfterItsTries

\* Run ends even if every call of func hangs; without a timeout it ends unless
\* the thread of a try never does.
RunEnds == <>Ended \/ (~timed /\ <>[](Alive(num)))
=============================================================================
