------------------------------ MODULE TaskPool ------------------------------
(***************************************************************************)
(* What TestCollection promises to the threads that iterate over it,       *)
(* without locks, events or counters: every task added is waiting, in the  *)
(* hands of a worker, or finished; a worker hands a task back before it    *)
(* dies; and a worker is told that everything has been handled only when   *)
(* nothing is waiting and nobody works.                                    *)
(***************************************************************************)
CONSTANTS Worker, Task, Initial, None

VARIABLES waiting,    \* tasks nobody works on
          running,    \* the task each worker works on, or None
          returning,  \* workers that handed their task back and are dying
          gone,       \* workers that died
          dismissed,  \* workers that were told everything has been handled
          finished    \* tasks a worker is through with

vars == <<waiting, running, returning, gone, dismissed, finished>>

Init ==
  /\ waiting = Initial
  /\ running = [w \in Worker |-> None]
  /\ returning = {}
  /\ gone = {}
  /\ dismissed = {}
  /\ finished = {}

Idle(w) == running[w] = None /\ w \notin gone \cup dismissed

Take(w) ==
  /\ Idle(w)
  /\ \E t \in waiting :
       /\ waiting' = waiting \ {t}
       /\ running' = [running EXCEPT ![w] = t]
  /\ UNCHANGED <<returning, gone, dismissed, finished>>

\* A retry is a new task, submitted while the worker still holds the old one.
Submit(w) ==
  /\ running[w] # None
  /\ w \notin returning
  /\ \E t \in Task \ (waiting \cup finished \cup {running[v] : v \in Worker}) :
       waiting' = waiting \cup {t}
  /\ UNCHANGED <<running, returning, gone, dismissed, finished>>

Finish(w) ==
  /\ running[w] # None
  /\ w \notin returning
  /\ running' = [running EXCEPT ![w] = None]
  /\ finished' = finished \cup {running[w]}
  /\ UNCHANGED <<waiting, returning, gone, dismissed>>

HandBack(w) ==
  /\ running[w] # None
  /\ w \notin returning
  /\ waiting' = waiting \cup {running[w]}
  /\ returning' = returning \cup {w}
  /\ UNCHANGED <<running, gone, dismissed, finished>>

Die(w) ==
  /\ w \in returning
  /\ running' = [running EXCEPT ![w] = None]
  /\ returning' = returning \ {w}
  /\ gone' = gone \cup {w}
  /\ UNCHANGED <<waiting, dismissed, finished>>

Dismiss(w) ==
  /\ Idle(w)
  /\ waiting = {}
  /\ \A v \in Worker : running[v] = None
  /\ dismissed' = dismissed \cup {w}
  /\ UNCHANGED <<waiting, running, returning, gone, finished>>

Next == \E w \in Worker :
          Take(w) \/ Submit(w) \/ Finish(w) \/ HandBack(w) \/ Die(w) \/ Dismiss(w)

Spec == Init /\ [][Next]_vars
=============================================================================
