------------------------------ MODULE PortPool ------------------------------
(***************************************************************************)
(* What ports.py promises to those who call AllocateTestServerPort,        *)
(* without files and locks: there is one counter, a call reserves the      *)
(* first free port from the counter on and moves the counter past it in a  *)
(* single step, and then returns it or dies with it.  A port is reserved   *)
(* once for all; a call is refused only when no port is left, or when the  *)
(* counter was spoilt while it was made.                                   *)
(***************************************************************************)
EXTENDS Naturals

CONSTANTS Caller,
          Last,     \* the last port; the first is 1
          Unset,    \* there is no counter yet
          Spoilt,   \* the maker of the counter died at its work
          None

VARIABLES next,      \* the counter, Unset or Spoilt
          reserved,  \* the port a call has reserved and not returned, or None
          given,     \* what each call returned
          busy       \* ports some server listens on

vars == <<next, reserved, given, busy>>

Ports == 1..Last

Init ==
  /\ next \in {Unset} \cup 1..(Last + 1)
  /\ reserved = [c \in Caller |-> None]
  /\ given = [c \in Caller |-> None]
  /\ busy \in SUBSET Ports

Create ==
  /\ next = Unset
  /\ next' = 1
  /\ UNCHANGED <<reserved, given, busy>>

Spoil ==
  /\ next = Unset
  /\ next' = Spoilt
  /\ UNCHANGED <<reserved, given, busy>>

\* Only the ports that were busy are passed over.
Reserve(c) ==
  /\ given[c] = None
  /\ \A d \in Caller : reserved[d] = None
  /\ next \in 1..Last
  /\ \E p \in next..Last :
       /\ p \notin busy
       /\ \A q \in next..(p - 1) : q \in busy
       /\ next' = p + 1
       /\ reserved' = [reserved EXCEPT ![c] = p]
  /\ UNCHANGED <<given, busy>>

Give(c) ==
  /\ reserved[c] # None
  /\ given[c] = None
  /\ given' = [given EXCEPT ![c] = reserved[c]]
  /\ reserved' = [reserved EXCEPT ![c] = None]
  /\ UNCHANGED <<next, busy>>

Lose(c) ==
  /\ reserved[c] # None
  /\ reserved' = [reserved EXCEPT ![c] = None]
  /\ UNCHANGED <<next, given, busy>>

Refuse(c) ==
  /\ given[c] = None
  /\ reserved[c] = None
  /\ \/ next = Spoilt
     \/ next \in 1..(Last + 1) /\ \A p \in next..Last : p \in busy
  /\ given' = [given EXCEPT ![c] = 0]
  /\ UNCHANGED <<next, reserved, busy>>

Listen(c) ==
  /\ given[c] \in Ports
  /\ busy' = busy \cup {given[c]}
  /\ UNCHANGED <<next, reserved, given>>

Next ==
  \/ Create \/ Spoil
  \/ \E c \in Caller : Reserve(c) \/ Give(c) \/ Lose(c) \/ Refuse(c) \/ Listen(c)

Spec == Init /\ [][Next]_vars
=============================================================================
