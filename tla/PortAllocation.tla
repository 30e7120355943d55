--------------------------- MODULE PortAllocation ---------------------------
(***************************************************************************)
(* src/android/pylib/ports.py: AllocateTestServerPort hands out ports from *)
(* a counter kept in a file, under flock on a second file.  The first call *)
(* on a machine finds no counter and calls ResetTestServerPortAllocation,  *)
(* which also unlinks the lock file it holds: whoever opens the lock file  *)
(* after that locks another inode.                                         *)
(*                                                                         *)
(* A caller is one call of AllocateTestServerPort, in a process or thread  *)
(* of its own, that may be killed at any point.                            *)
(***************************************************************************)
EXTENDS Naturals, FiniteSets

CONSTANTS Caller,
          Last,     \* TEST_SERVER_PORT_LAST; ports are numbered from 1
          Absent,   \* no TEST_SERVER_PORT_FILE
          Empty,    \* it was truncated and not written
          None

First == 1
Port == First..Last
Counter == First..(Last + 1)

ASSUME PortAssumption ==
  /\ Last \in Nat \ {0}
  /\ Absent \notin Nat /\ Empty \notin Nat /\ Absent # Empty
  /\ None \notin Caller /\ None \notin Nat

VARIABLES file,      \* the contents of the port file
          name,      \* the inode the lock file's name leads to, or 0
          inodes,    \* how many inodes the lock file has had
          holder,    \* who holds the lock of each inode
          pc, fpLock, port,
          busy,      \* ports some server listens on
          got,       \* what each call returned
          unlinked   \* history: a reset unlinked the lock file

vars == <<file, name, inodes, holder, pc, fpLock, port, busy, got, unlinked>>

\* Only the first reset can unlink the name: two inodes are enough, and a
\* third shows that no more are made.
Inode == 1..3

Init ==
  /\ file \in {Absent} \cup Counter
  /\ name \in {0, 1}
  /\ inodes = name
  /\ holder = [i \in Inode |-> None]
  /\ pc = [c \in Caller |-> "call"]
  /\ fpLock = [c \in Caller |-> 0]
  /\ port = [c \in Caller |-> 0]
  /\ busy \in SUBSET Port
  /\ got = [c \in Caller |-> None]
  /\ unlinked = FALSE

Goes(c, from, to) == pc[c] = from /\ pc' = [pc EXCEPT ![c] = to]
-----------------------------------------------------------------------------
\* open(TEST_SERVER_PORT_LOCKFILE, 'w')
OpenLock(c) ==
  /\ Goes(c, "call", "opened")
  /\ IF name = 0
       THEN inodes' = inodes + 1 /\ name' = inodes + 1
       ELSE UNCHANGED <<inodes, name>>
  /\ fpLock' = [fpLock EXCEPT ![c] = name']
  /\ UNCHANGED <<file, holder, port, busy, got, unlinked>>

\* Mutant: the lock is shared.
FlockShared(c) ==
  /\ Goes(c, "opened", IF file = Absent THEN "reset" ELSE "read")
  /\ UNCHANGED <<file, name, inodes, holder, fpLock, port, busy, got, unlinked>>

\* flock(LOCK_EX), and the test for the port file.
Flock(c) ==
  /\ Goes(c, "opened", IF file = Absent THEN "reset" ELSE "read")
  /\ holder[fpLock[c]] = None
  /\ holder' = [holder EXCEPT ![fpLock[c]] = c]
  /\ UNCHANGED <<file, name, inodes, fpLock, port, busy, got, unlinked>>

(* ResetTestServerPortAllocation                                           *)

ResetOpen(c) ==
  /\ Goes(c, "reset", "resetWrite")
  /\ file' = Empty
  /\ UNCHANGED <<name, inodes, holder, fpLock, port, busy, got, unlinked>>

ResetWrite(c) ==
  /\ Goes(c, "resetWrite", "resetUnlink")
  /\ file' = First
  /\ UNCHANGED <<name, inodes, holder, fpLock, port, busy, got, unlinked>>

ResetUnlink(c) ==
  /\ Goes(c, "resetUnlink", "read")
  /\ name' = 0
  /\ unlinked' = TRUE
  /\ UNCHANGED <<file, inodes, holder, fpLock, port, busy, got>>
-----------------------------------------------------------------------------
\* int('') raises ValueError, which leaves port at 0.
Read(c) ==
  /\ IF file = Empty
       THEN Goes(c, "read", "unlock") /\ UNCHANGED port
       ELSE Goes(c, "read", "probe") /\ port' = [port EXCEPT ![c] = file]
  /\ UNCHANGED <<file, name, inodes, holder, fpLock, busy, got, unlinked>>

\* Mutant: the upper bound is off by one.
InRangeShort(p) == p < Last
InRange(p) == First <= p /\ p <= Last

\* IsHostPortAvailable; a port above Last is assumed to be free.
Probe(c) ==
  /\ pc[c] = "probe"
  /\ IF port[c] \in busy THEN
       /\ port' = [port EXCEPT ![c] = @ + 1]
       /\ UNCHANGED pc
     ELSE IF InRange(port[c]) THEN
       /\ pc' = [pc EXCEPT ![c] = "write"]
       /\ UNCHANGED port
     ELSE
       /\ pc' = [pc EXCEPT ![c] = "unlock"]
       /\ port' = [port EXCEPT ![c] = 0]
  /\ UNCHANGED <<file, name, inodes, holder, fpLock, busy, got, unlinked>>

\* Mutant: the port itself is written.
Following(p) == p
NextPort(p) == p + 1

Write(c) ==
  /\ Goes(c, "write", "unlock")
  /\ file' = NextPort(port[c])
  /\ UNCHANGED <<name, inodes, holder, fpLock, port, busy, got, unlinked>>

\* Mutant: the lock is kept.
Keep(i) == UNCHANGED holder
Release(i) == holder' = [holder EXCEPT ![i] = None]

\* flock(LOCK_UN) and the return.
Unlock(c) ==
  /\ Goes(c, "unlock", "returned")
  /\ Release(fpLock[c])
  /\ got' = [got EXCEPT ![c] = port[c]]
  /\ UNCHANGED <<file, name, inodes, fpLock, port, busy, unlinked>>

CallerStep(c) ==
  \/ OpenLock(c) \/ Flock(c)
  \/ ResetOpen(c) \/ ResetWrite(c) \/ ResetUnlink(c)
  \/ Read(c) \/ Probe(c) \/ Write(c) \/ Unlock(c)

\* The kernel releases the locks of a process that is killed.
Killed(c) ==
  /\ pc[c] \notin {"call", "returned", "killed"}
  /\ pc' = [pc EXCEPT ![c] = "killed"]
  /\ holder' = [i \in Inode |-> IF holder[i] = c THEN None ELSE holder[i]]
  /\ UNCHANGED <<file, name, inodes, fpLock, port, busy, got, unlinked>>

\* The server the port was allocated for starts to listen.
Listen(c) ==
  /\ got[c] \in Port
  /\ busy' = busy \cup {got[c]}
  /\ UNCHANGED <<file, name, inodes, holder, pc, fpLock, port, got, unlinked>>

Next == \E c \in Caller : CallerStep(c) \/ Killed(c) \/ Listen(c)

Spec == Init /\ [][Next]_vars

\* Every process is scheduled, and the kernel grants a free lock.
FairSpec == Spec /\ \A c \in Caller : WF_vars(CallerStep(c))
-----------------------------------------------------------------------------
Inside == {"reset", "resetWrite", "resetUnlink", "read", "probe", "write", "unlock"}
At == Inside \cup {"call", "opened", "returned", "killed"}

TypeOK ==
  /\ file \in {Absent, Empty} \cup Counter
  /\ inodes \in {0} \cup Inode
  /\ name \in {0, inodes}
  /\ holder \in [Inode -> Caller \cup {None}]
  /\ pc \in [Caller -> At]
  /\ fpLock \in [Caller -> {0} \cup Inode]
  /\ \A c \in Caller : pc[c] # "call" => fpLock[c] \in Inode
  /\ port \in [Caller -> {0} \cup Counter]
  /\ busy \subseteq Port
  /\ got \in [Caller -> {None, 0} \cup Port]

\* "it's important to have a mechanism to allocate the port process-safe":
\* no two calls return the same port.
DistinctPorts ==
  \A c, d \in Caller : c # d /\ got[c] \in Port => got[c] # got[d]

\* The flock protocol keeps ports distinct, whoever is killed, as long as no
\* reset unlinks the lock file.
DistinctUnlessReset == unlinked \/ DistinctPorts

\* The counter never goes back, so that a port is not handed out again after
\* its server has stopped.
NeverBack ==
  [][~unlinked' /\ file \in Counter => file' \in Counter /\ file' >= file]_vars

\* "Returning 0 means no more valid port can be used", except for a counter
\* that a process killed in a reset left empty.
ZeroMeansExhausted ==
  ~unlinked /\ file # Empty /\ (\E c \in Caller : got[c] = 0) =>
    \A p \in Port : p < file \/ p \in busy

\* Every call returns, or its process is killed.
EveryCallEnds == \A c \in Caller : <>(pc[c] \in {"returned", "killed"})

(* What makes DistinctUnlessReset inductive.                               *)

InReset == {"reset", "resetWrite", "resetUnlink"}

\* Who is between flock and unlock holds the lock of the inode it opened.
LockInv ==
  /\ \A c \in Caller : pc[c] \in Inside => holder[fpLock[c]] = c
  /\ \A i \in Inode : holder[i] # None =>
       pc[holder[i]] \in Inside /\ fpLock[holder[i]] = i

\* Before the unlink every caller opened the same inode; after it the counter
\* exists, so no other reset begins.
ResetInv ==
  /\ ~unlinked => /\ inodes = name /\ name \in {0, 1}
                  /\ \A c \in Caller : fpLock[c] \in {0, name}
  /\ unlinked => /\ file # Absent /\ inodes \in {1, 2}
                 /\ name = 0 <=> inodes = 1
                 /\ \A c \in Caller : pc[c] \notin InReset
  /\ \A c \in Caller : pc[c] = "reset" => file = Absent
  /\ \A c \in Caller : pc[c] = "resetWrite" => file = Empty
  /\ \A c \in Caller : pc[c] \in Inside \ {"reset"} => file # Absent

\* The counter is past every port that was returned, and the holder of the
\* lock is about to return a new one.
PortInv ==
  /\ \A c \in Caller : pc[c] \in {"call", "opened", "read"} \cup InReset => port[c] = 0
  /\ \A c \in Caller : pc[c] = "write" => port[c] \in Port
  /\ \A c \in Caller : pc[c] = "unlock" => port[c] \in {0} \cup Port
  /\ ~unlinked =>
       /\ \A c \in Caller : got[c] \in Port => file \in Counter /\ got[c] < file
       /\ \A c \in Caller : pc[c] \in {"probe", "write"} =>
            file \in Counter /\ port[c] >= file
       /\ \A c, d \in Caller : pc[c] = "unlock" /\ port[c] # 0 =>
            file \in Counter /\ port[c] < file /\ got[d] # port[c]

IInv == TypeOK /\ LockInv /\ ResetInv /\ PortInv /\ DistinctUnlessReset

\* No port from p on is free.
NoneFrom(p) == \A q \in Port : q < p \/ q \in busy

\* What makes ZeroMeansExhausted inductive as well: a caller has found every
\* port busy that it passed, and nobody gives up while the counter is made.
ProbedInv ==
  /\ ~unlinked => \A c \in Caller :
       /\ pc[c] \in {"probe", "write"} =>
            \A p \in Port : file <= p /\ p < port[c] => p \in busy
       /\ pc[c] = "unlock" /\ port[c] = 0 /\ file # Empty => NoneFrom(file)
       /\ got[c] = 0 => /\ file # Absent
                        /\ file # Empty => NoneFrom(file)
                        /\ \A d \in Caller : pc[d] # "resetWrite"

\* The pool of ports: a port is reserved when the counter is written past it.
\* A counter that is being made is not there yet.
Pool == INSTANCE PortPool WITH
          Unset    <- Absent,
          Spoilt   <- Empty,
          next     <- IF file = Empty /\ \E c \in Caller : pc[c] = "resetWrite"
                        THEN Absent ELSE file,
          reserved <- [c \in Caller |->
                         IF pc[c] = "unlock" /\ port[c] # 0 THEN port[c] ELSE None],
          given    <- got

\* Callers get their ports as from the pool, in one atomic step each, until a
\* reset unlinks the lock file ("we implement the safe port allocation by
\* leveraging flock", ports.py:21).
PoolUnlessReset == Pool!Init /\ [][unlinked' \/ Pool!Next]_(Pool!vars)

\* What each step of the pool needs besides: a call returns once, and the port
\* that a caller is about to reserve stays free.
ReadyInv ==
  /\ \A c \in Caller : got[c] # None <=> pc[c] = "returned"
  /\ ~unlinked => \A c \in Caller : pc[c] = "write" => port[c] \notin busy
=============================================================================
