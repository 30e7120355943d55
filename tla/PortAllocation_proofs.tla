----------------------- MODULE PortAllocation_proofs ------------------------
(***************************************************************************)
(* Proofs about PortAllocation, for any callers and any range of ports.    *)
(***************************************************************************)
EXTENDS PortAllocation, TLAPS

LEMMA Numbers ==
  /\ \A p \in Port : p \in Nat /\ p \in Counter
  /\ \A p \in Counter : p \in Nat /\ p >= p
  /\ 0 \notin Counter /\ 1 \in Counter
  /\ \A p \in Port : p + 1 \in Counter
  /\ \A p \in Counter : InRange(p) <=> p \in Port
BY PortAssumption DEF Port, Counter, First, InRange

LEMMA Contents ==
  /\ Absent \notin Counter /\ Empty \notin Counter /\ Absent # Empty
  /\ None \notin Caller /\ None \notin Port /\ None # 0
<1>1. 0 \in Nat
  OBVIOUS
<1> QED BY <1>1, PortAssumption, Numbers

\* Before a reset unlinks the lock file, one caller at most is inside.
LEMMA OneInside ==
  ASSUME TypeOK, LockInv, ResetInv, ~unlinked,
         NEW c \in Caller, NEW d \in Caller, pc[c] \in Inside, pc[d] \in Inside
  PROVE  c = d
<1>1. fpLock[c] = 1 /\ fpLock[d] = 1
  BY DEF TypeOK, ResetInv, Inside, Inode
<1> QED BY <1>1 DEF LockInv

\* Only the one caller inside can change the counter, and what the others
\* know of it is only that it is there.
LEMMA InitIInv == Init => IInv
<1> SUFFICES ASSUME Init PROVE IInv
  OBVIOUS
<1>1. TypeOK
  BY Contents, Numbers DEF Init, TypeOK, Inode, At, Inside
<1>2. LockInv /\ ResetInv
  BY Contents DEF Init, LockInv, ResetInv, Inside, InReset
<1>3. PortInv /\ DistinctUnlessReset
  BY Contents DEF Init, PortInv, DistinctUnlessReset, DistinctPorts, Inside, InReset
<1> QED BY <1>1, <1>2, <1>3 DEF IInv

LEMMA OpenLockIInv ==
  ASSUME IInv, NEW c \in Caller, OpenLock(c)
  PROVE  IInv'
<1> USE DEF OpenLock, Goes, IInv
<1>1. name' \in Inode /\ inodes' \in Inode /\ name' = inodes'
  <2>1. CASE name = 0
    BY <2>1 DEF ResetInv, Inode
  <2>2. CASE name # 0
    BY <2>2 DEF TypeOK, Inode
  <2> QED BY <2>1, <2>2
<1>2. ~unlinked => name' = 1
  BY DEF ResetInv
<1>3. TypeOK'
  BY <1>1 DEF TypeOK, At, Inside
<1>4. LockInv'
  BY Contents DEF TypeOK, LockInv, Inside
<1>5. ResetInv'
  BY <1>1, <1>2 DEF TypeOK, ResetInv, Inside, InReset, Inode
<1>6. PortInv' /\ DistinctUnlessReset'
  BY DEF TypeOK, PortInv, DistinctUnlessReset, DistinctPorts, InReset
<1> QED BY <1>3, <1>4, <1>5, <1>6

LEMMA FlockIInv ==
  ASSUME IInv, NEW c \in Caller, Flock(c)
  PROVE  IInv'
<1> USE DEF Flock, Goes, IInv
<1>1. fpLock[c] \in Inode
  BY DEF TypeOK
<1>2. TypeOK'
  BY <1>1 DEF TypeOK, At, Inside
<1>3. LockInv'
  BY <1>1, Contents DEF TypeOK, LockInv, Inside
<1>4. ResetInv'
  BY Contents DEF TypeOK, ResetInv, Inside, InReset
<1>5. PortInv' /\ DistinctUnlessReset'
  BY DEF TypeOK, PortInv, DistinctUnlessReset, DistinctPorts, InReset
<1> QED BY <1>2, <1>3, <1>4, <1>5

LEMMA ResetIInv ==
  ASSUME IInv, NEW c \in Caller,
         ResetOpen(c) \/ ResetWrite(c) \/ ResetUnlink(c)
  PROVE  IInv'
<1> USE DEF ResetOpen, ResetWrite, ResetUnlink, Goes, IInv
<1>1. ~unlinked /\ pc[c] \in InReset /\ pc[c] \in Inside
  BY DEF ResetInv, InReset, Inside
<1>2. \A d \in Caller : d # c => pc[d] \notin Inside
  BY <1>1, OneInside
<1>3. TypeOK'
  BY Numbers DEF TypeOK, At, Inside, First
<1>4. LockInv'
  BY <1>1 DEF TypeOK, LockInv, Inside
<1>5. ResetInv'
  BY <1>1, <1>2, Contents, Numbers DEF TypeOK, ResetInv, Inside, InReset, First, Inode
<1>6. PortInv'
  <2>1. CASE ResetUnlink(c)
    BY <2>1 DEF TypeOK, PortInv, InReset
  <2>2. CASE ResetOpen(c) \/ ResetWrite(c)
    <3>1. file \notin Counter
      BY <2>2, Contents DEF ResetInv
    <3>2. \A d \in Caller : got[d] \notin Port
      BY <1>1, <3>1 DEF PortInv
    <3> QED BY <1>1, <1>2, <2>2, <3>2 DEF TypeOK, PortInv, InReset, Inside
  <2> QED BY <2>1, <2>2
<1>7. DistinctUnlessReset'
  BY DEF DistinctUnlessReset, DistinctPorts
<1> QED BY <1>3, <1>4, <1>5, <1>6, <1>7

LEMMA ReadIInv ==
  ASSUME IInv, NEW c \in Caller, Read(c)
  PROVE  IInv'
<1> USE DEF Read, Goes, IInv
<1>1. pc[c] = "read" /\ port[c] = 0 /\ file # Absent
  BY DEF PortInv, ResetInv, Inside
<1>2. TypeOK'
  BY <1>1 DEF TypeOK, At, Inside
<1>3. LockInv'
  BY DEF TypeOK, LockInv, Inside
<1>4. ResetInv'
  BY <1>1 DEF TypeOK, ResetInv, Inside, InReset
<1>5. PortInv'
  <2>1. file # Empty => file \in Counter /\ file >= file
    BY <1>1, Numbers DEF TypeOK
  <2> QED BY <1>1, <2>1 DEF TypeOK, PortInv, InReset
<1>6. DistinctUnlessReset'
  BY DEF DistinctUnlessReset, DistinctPorts
<1> QED BY <1>2, <1>3, <1>4, <1>5, <1>6

LEMMA ProbeIInv ==
  ASSUME IInv, NEW c \in Caller, Probe(c)
  PROVE  IInv'
<1> USE DEF Probe, IInv
<1>1. pc[c] = "probe" /\ pc[c] \in Inside
  BY DEF Inside
<1>2. /\ port'[c] \in {0} \cup Counter
      /\ pc'[c] = "write" => port'[c] \in Port
      /\ pc'[c] = "unlock" => port'[c] = 0
      /\ pc'[c] \in {"probe", "write", "unlock"}
      /\ pc' = [pc EXCEPT ![c] = pc'[c]]
      /\ port' = [port EXCEPT ![c] = port'[c]]
  <2>1. CASE port[c] \in busy
    BY <1>1, <2>1, Numbers DEF TypeOK
  <2>2. CASE port[c] \notin busy /\ InRange(port[c])
    <3>1. port[c] # 0
      BY <2>2 DEF InRange, First
    <3> QED BY <1>1, <2>2, <3>1, Numbers DEF TypeOK
  <2>3. CASE port[c] \notin busy /\ ~InRange(port[c])
    BY <1>1, <2>3 DEF TypeOK
  <2> QED BY <2>1, <2>2, <2>3
<1>3. TypeOK'
  BY <1>2 DEF TypeOK, At, Inside
<1>4. LockInv'
  BY <1>1, <1>2 DEF TypeOK, LockInv, Inside
<1>5. ResetInv'
  BY <1>1, <1>2 DEF TypeOK, ResetInv, Inside, InReset
<1>6. PortInv'
  <2>1. ~unlinked => file \in Counter /\ port[c] >= file
    BY <1>1 DEF PortInv
  <2>2. ~unlinked /\ pc'[c] \in {"probe", "write"} => port'[c] >= file
    BY <1>1, <1>2, <2>1, Numbers DEF TypeOK
  <2> QED BY <1>1, <1>2, <2>1, <2>2 DEF TypeOK, PortInv, InReset
<1>7. DistinctUnlessReset'
  BY DEF DistinctUnlessReset, DistinctPorts
<1> QED BY <1>3, <1>4, <1>5, <1>6, <1>7

LEMMA WriteIInv ==
  ASSUME IInv, NEW c \in Caller, Write(c)
  PROVE  IInv'
<1> USE DEF Write, Goes, NextPort, IInv
<1>1. /\ pc[c] = "write" /\ pc[c] \in Inside
      /\ port[c] \in Port /\ port[c] \in Nat /\ file' \in Counter
  BY Numbers DEF Inside, PortInv
<1>2. TypeOK'
  BY <1>1 DEF TypeOK, At, Inside
<1>3. LockInv'
  BY DEF TypeOK, LockInv, Inside
<1>4. ResetInv'
  <2>1. ~unlinked => \A d \in Caller : pc[d] \notin InReset
    BY <1>1, OneInside DEF InReset, Inside
  <2>2. \A d \in Caller : pc[d] \notin InReset
    BY <2>1 DEF ResetInv
  <2> QED BY <1>1, <2>2, Contents DEF TypeOK, ResetInv, Inside, InReset
<1>5. PortInv'
  <2>1. CASE unlinked
    BY <1>1, <2>1 DEF TypeOK, PortInv, InReset
  <2>2. CASE ~unlinked
    <3>1. \A d \in Caller : d # c => pc[d] \notin Inside
      BY <1>1, <2>2, OneInside
    <3>2. file \in Counter /\ file \in Nat /\ port[c] >= file /\ file' = port[c] + 1
      BY <1>1, <2>2, Numbers DEF PortInv
    <3>3. \A d \in Caller : got[d] \in Port =>
            got[d] \in Nat /\ got[d] < port[c] /\ got[d] < file'
      BY <1>1, <2>2, <3>2, Numbers DEF PortInv
    <3>4. \A d \in Caller : got[d] # port[c]
      BY <1>1, <3>3
    <3> QED BY <1>1, <2>2, <3>1, <3>2, <3>3, <3>4 DEF TypeOK, PortInv, InReset, Inside
  <2> QED BY <2>1, <2>2
<1>6. DistinctUnlessReset'
  BY DEF DistinctUnlessReset, DistinctPorts
<1> QED BY <1>2, <1>3, <1>4, <1>5, <1>6

LEMMA UnlockIInv ==
  ASSUME IInv, NEW c \in Caller, Unlock(c)
  PROVE  IInv'
<1> USE DEF Unlock, Release, Goes, IInv
<1>1. /\ pc[c] = "unlock" /\ pc[c] \in Inside
      /\ fpLock[c] \in Inode /\ holder[fpLock[c]] = c
      /\ port[c] \in {0} \cup Port
  BY DEF Inside, TypeOK, LockInv, PortInv
<1>2. TypeOK'
  BY <1>1 DEF TypeOK, At, Inside
<1>3. LockInv'
  BY <1>1, Contents DEF TypeOK, LockInv, Inside
<1>4. ResetInv'
  BY DEF TypeOK, ResetInv, Inside, InReset
<1>5. PortInv'
  <2>1. CASE unlinked
    BY <2>1 DEF TypeOK, PortInv, InReset
  <2>2. CASE ~unlinked
    <3>1. \A d \in Caller : d # c => pc[d] \notin Inside
      BY <1>1, <2>2, OneInside
    <3>2. port[c] \in Port => file \in Counter /\ port[c] < file
      BY <1>1, <2>2, Numbers DEF PortInv
    <3> QED BY <1>1, <2>2, <3>1, <3>2 DEF TypeOK, PortInv, InReset, Inside
  <2> QED BY <2>1, <2>2
<1>6. DistinctUnlessReset'
  <2>1. ~unlinked /\ port[c] # 0 => \A d \in Caller : got[d] # port[c]
    BY <1>1 DEF PortInv
  <2> QED BY <1>1, <2>1, Numbers DEF TypeOK, DistinctUnlessReset, DistinctPorts
<1> QED BY <1>2, <1>3, <1>4, <1>5, <1>6

LEMMA KilledIInv ==
  ASSUME IInv, NEW c \in Caller, Killed(c)
  PROVE  IInv'
<1> USE DEF Killed, IInv
<1>1. TypeOK'
  BY DEF TypeOK, At, Inside
<1>2. LockInv'
  BY Contents DEF TypeOK, LockInv, Inside
<1>3. ResetInv'
  BY DEF TypeOK, ResetInv, Inside, InReset
<1>4. PortInv' /\ DistinctUnlessReset'
  BY DEF TypeOK, PortInv, InReset, DistinctUnlessReset, DistinctPorts
<1> QED BY <1>1, <1>2, <1>3, <1>4

LEMMA ListenIInv ==
  ASSUME IInv, NEW c \in Caller, Listen(c)
  PROVE  IInv'
<1> USE DEF Listen, IInv
<1>1. TypeOK'
  BY DEF TypeOK
<1>2. LockInv' /\ ResetInv'
  BY DEF LockInv, ResetInv
<1>3. PortInv' /\ DistinctUnlessReset'
  BY DEF PortInv, DistinctUnlessReset, DistinctPorts
<1> QED BY <1>1, <1>2, <1>3

THEOREM Invariance == Spec => []IInv
<1>1. IInv /\ [Next]_vars => IInv'
  <2> SUFFICES ASSUME IInv, [Next]_vars PROVE IInv'
    OBVIOUS
  <2>1. CASE UNCHANGED vars
    BY <2>1 DEF vars, IInv, TypeOK, LockInv, ResetInv, PortInv,
                DistinctUnlessReset, DistinctPorts
  <2>2. ASSUME NEW c \in Caller, CallerStep(c) PROVE IInv'
    BY <2>2, OpenLockIInv, FlockIInv, ResetIInv, ReadIInv, ProbeIInv, WriteIInv,
       UnlockIInv DEF CallerStep
  <2> QED BY <2>1, <2>2, KilledIInv, ListenIInv DEF Next
<1> QED BY <1>1, InitIInv, PTL DEF Spec

\* Types, for any number of callers and ports: the lock file never has more
\* than two inodes.
THEOREM TypeCorrect == Spec => []TypeOK
<1>1. IInv => TypeOK
  BY DEF IInv
<1> QED BY <1>1, Invariance, PTL

\* As long as no reset unlinked the lock file, no port is returned twice.
THEOREM PortsDistinct == Spec => []DistinctUnlessReset
<1>1. IInv => DistinctUnlessReset
  BY DEF IInv
<1> QED BY <1>1, Invariance, PTL

\* As long as no reset unlinked the lock file, the counter never goes back.
THEOREM CounterGrows == Spec => NeverBack
<1>1. IInv /\ [Next]_vars =>
        [~unlinked' /\ file \in Counter => file' \in Counter /\ file' >= file]_vars
  <2> SUFFICES ASSUME IInv, Next, ~unlinked', file \in Counter
               PROVE  file' \in Counter /\ file' >= file
    BY DEF vars
  <2>1. file' = file => file' >= file
    BY Numbers
  <2>2. PICK c \in Caller : CallerStep(c) \/ Killed(c) \/ Listen(c)
    BY DEF Next
  <2>3. CASE Write(c)
    <3>1. ~unlinked /\ pc[c] = "write" /\ file' = port[c] + 1
      BY <2>3 DEF Write, Goes, NextPort
    <3>2. port[c] \in Port /\ port[c] >= file
      BY <3>1 DEF IInv, PortInv
    <3> QED BY <3>1, <3>2, Numbers
  <2>4. CASE ResetOpen(c) \/ ResetWrite(c)
    <3>1. file \notin Counter
      BY <2>4, Contents DEF IInv, ResetInv, ResetOpen, ResetWrite, Goes
    <3> QED BY <3>1
  <2>5. CASE OpenLock(c) \/ Flock(c) \/ ResetUnlink(c) \/ Read(c) \/ Probe(c)
               \/ Unlock(c) \/ Killed(c) \/ Listen(c)
    BY <2>1, <2>5 DEF OpenLock, Flock, ResetUnlink, Read, Probe, Unlock, Killed, Listen
  <2> QED BY <2>2, <2>3, <2>4, <2>5 DEF CallerStep
<1> QED BY <1>1, Invariance, PTL DEF Spec, NeverBack

(* Giving up: a caller that looks for a port passes only busy ones, the     *)
(* counter moves up only, and no server stops while the calls last.         *)

LEMMA LockStepProbed ==
  ASSUME IInv, ProbedInv, NEW c \in Caller,
         OpenLock(c) \/ Flock(c) \/ Killed(c)
  PROVE  ProbedInv'
<1>1. file' = file /\ busy' = busy /\ got' = got /\ port' = port /\ unlinked' = unlinked
  BY DEF OpenLock, Flock, Killed
<1>2. \A d \in Caller : pc'[d] \in {"probe", "write", "unlock", "resetWrite"} => pc'[d] = pc[d]
  BY DEF OpenLock, Flock, Killed, Goes, IInv, TypeOK
<1> QED BY <1>1, <1>2 DEF ProbedInv, NoneFrom

LEMMA ResetProbed ==
  ASSUME IInv, ProbedInv, NEW c \in Caller,
         ResetOpen(c) \/ ResetWrite(c) \/ ResetUnlink(c)
  PROVE  ProbedInv'
<1> USE DEF ResetOpen, ResetWrite, ResetUnlink, Goes, IInv
<1>1. CASE ResetUnlink(c)
  BY <1>1 DEF ProbedInv
<1>2. CASE ResetOpen(c) \/ ResetWrite(c)
  <2>1. ~unlinked /\ pc[c] \in Inside
    BY <1>2 DEF ResetInv, InReset, Inside
  <2>2. \A d \in Caller : d # c => pc[d] \notin Inside
    BY <2>1, OneInside
  <2>3. \A d \in Caller : pc'[d] \notin {"probe", "write", "unlock"}
    BY <1>2, <2>2 DEF TypeOK, Inside
  <2>4. \A d \in Caller : got'[d] # 0
    BY <1>2, <2>1 DEF ProbedInv, ResetInv
  <2> QED BY <2>3, <2>4 DEF ProbedInv
<1> QED BY <1>1, <1>2

LEMMA ReadProbed ==
  ASSUME IInv, ProbedInv, NEW c \in Caller, Read(c)
  PROVE  ProbedInv'
<1> USE DEF Read, Goes, IInv
<1>1. file' = file /\ busy' = busy /\ got' = got /\ unlinked' = unlinked
  OBVIOUS
<1>2. /\ \A d \in Caller \ {c} : pc'[d] = pc[d] /\ port'[d] = port[d]
      /\ \/ pc'[c] = "unlock" /\ file = Empty
         \/ pc'[c] = "probe" /\ port'[c] = file /\ file \in Counter
  BY DEF TypeOK, ResetInv, Inside
<1>3. file \in Counter => \A p \in Port : ~(file <= p /\ p < file)
  BY Numbers
<1> QED BY <1>1, <1>2, <1>3 DEF ProbedInv, NoneFrom

LEMMA ProbeProbed ==
  ASSUME IInv, ProbedInv, NEW c \in Caller, Probe(c)
  PROVE  ProbedInv'
<1> USE DEF Probe, IInv
<1>1. /\ pc[c] = "probe"
      /\ file' = file /\ busy' = busy /\ got' = got /\ unlinked' = unlinked
      /\ \A d \in Caller \ {c} : pc'[d] = pc[d] /\ port'[d] = port[d]
  BY DEF TypeOK
<1> SUFFICES ASSUME ~unlinked PROVE ProbedInv'
  BY <1>1 DEF ProbedInv
<1>2. file \in Counter /\ port[c] >= file /\ port[c] \in Counter
  <2>1. file \in Counter /\ port[c] >= file
    BY <1>1 DEF PortInv
  <2> QED BY <2>1, Numbers DEF TypeOK, Counter, First
<1>3. CASE port[c] \in busy
  <2>1. pc'[c] = "probe" /\ port'[c] = port[c] + 1
    BY <1>1, <1>3 DEF TypeOK
  <2>2. \A p \in Port : file <= p /\ p < port[c] + 1 => p \in busy
    BY <1>1, <1>2, <1>3, Numbers DEF ProbedInv
  <2> QED BY <1>1, <2>1, <2>2 DEF ProbedInv, NoneFrom
<1>4. CASE port[c] \notin busy /\ InRange(port[c])
  <2>1. pc'[c] = "write" /\ port'[c] = port[c]
    BY <1>4 DEF TypeOK
  <2> QED BY <1>1, <2>1 DEF ProbedInv, NoneFrom
<1>5. CASE port[c] \notin busy /\ ~InRange(port[c])
  <2>1. pc'[c] = "unlock"
    BY <1>5 DEF TypeOK
  <2>2. \A p \in Port : p < port[c]
    BY <1>2, <1>5, PortAssumption DEF InRange, Port, Counter, First
  <2>3. NoneFrom(file)
    BY <1>1, <1>2, <2>2, Numbers DEF ProbedInv, NoneFrom
  <2> QED BY <1>1, <2>1, <2>3 DEF ProbedInv, NoneFrom
<1> QED BY <1>3, <1>4, <1>5

LEMMA WriteProbed ==
  ASSUME IInv, ProbedInv, NEW c \in Caller, Write(c)
  PROVE  ProbedInv'
<1> USE DEF Write, Goes, NextPort, IInv
<1> SUFFICES ASSUME ~unlinked PROVE ProbedInv'
  BY DEF ProbedInv
<1>1. /\ pc[c] = "write" /\ pc[c] \in Inside
      /\ port[c] \in Port /\ port[c] # 0 /\ file \in Counter /\ port[c] >= file
  BY Numbers DEF Inside, PortInv
<1>2. \A d \in Caller : d # c => pc[d] \notin Inside
  BY <1>1, OneInside
<1>3. file' \in Counter /\ file < file'
  BY <1>1, Numbers
<1>4. \A d \in Caller : got[d] = 0 => NoneFrom(file')
  BY <1>1, <1>3, Contents, Numbers DEF ProbedInv, NoneFrom
<1> QED BY <1>1, <1>2, <1>3, <1>4, Contents DEF ProbedInv, NoneFrom, TypeOK, Inside

LEMMA UnlockProbed ==
  ASSUME IInv, ProbedInv, NEW c \in Caller, Unlock(c)
  PROVE  ProbedInv'
<1> USE DEF Unlock, Goes, IInv
<1> SUFFICES ASSUME ~unlinked PROVE ProbedInv'
  BY DEF ProbedInv
<1>1. pc[c] = "unlock" /\ pc[c] \in Inside /\ file # Absent
  BY DEF Inside, ResetInv
<1>2. \A d \in Caller : d # c => pc[d] \notin Inside
  BY <1>1, OneInside
<1> QED BY <1>1, <1>2 DEF ProbedInv, NoneFrom, TypeOK, Inside

LEMMA ListenProbed ==
  ASSUME IInv, ProbedInv, NEW c \in Caller, Listen(c)
  PROVE  ProbedInv'
BY DEF Listen, ProbedInv, NoneFrom

LEMMA ProbedInit == Init => ProbedInv
BY Contents DEF Init, ProbedInv

LEMMA ProbedNext == IInv /\ ProbedInv /\ [Next]_vars => ProbedInv'
<1> SUFFICES ASSUME IInv, ProbedInv, [Next]_vars PROVE ProbedInv'
  OBVIOUS
<1>1. CASE UNCHANGED vars
  BY <1>1 DEF vars, ProbedInv, NoneFrom
<1>2. ASSUME NEW c \in Caller, CallerStep(c) PROVE ProbedInv'
  BY <1>2, LockStepProbed, ResetProbed, ReadProbed, ProbeProbed, WriteProbed,
     UnlockProbed DEF CallerStep
<1> QED BY <1>1, <1>2, LockStepProbed, ListenProbed DEF Next

\* A call returns 0 only when no port was left, unless a process killed in a
\* reset left the counter empty.
THEOREM ZeroOnlyWhenExhausted == Spec => []ZeroMeansExhausted
<1>1. ProbedInv => ZeroMeansExhausted
  BY DEF ProbedInv, NoneFrom, ZeroMeansExhausted
<1> QED BY <1>1, ProbedInit, ProbedNext, Invariance, PTL DEF Spec

(* The pool of ports.                                                      *)

\* What the pool sees: its counter, and the ports reserved.
Counting == IF file = Empty /\ \E c \in Caller : pc[c] = "resetWrite" THEN Absent ELSE file
Reserved == [c \in Caller |-> IF pc[c] = "unlock" /\ port[c] # 0 THEN port[c] ELSE None]

LEMMA ReadyNext == IInv /\ ReadyInv /\ [Next]_vars => ReadyInv'
<1> SUFFICES ASSUME IInv, ReadyInv, [Next]_vars PROVE ReadyInv'
  OBVIOUS
<1>1. CASE UNCHANGED vars
  BY <1>1 DEF vars, ReadyInv
<1>2. ASSUME NEW c \in Caller, CallerStep(c) \/ Killed(c), ~Unlock(c), ~Probe(c)
      PROVE  ReadyInv'
  <2>1. /\ got' = got /\ busy' = busy
        /\ pc[c] # "returned" /\ pc'[c] \notin {"returned", "write"}
        /\ \A d \in Caller \ {c} : pc'[d] = pc[d] /\ port'[d] = port[d]
        /\ unlinked => unlinked'
    BY <1>2 DEF CallerStep, OpenLock, Flock, ResetOpen, ResetWrite, ResetUnlink, Read,
         Write, Killed, Goes, IInv, TypeOK
  <2> QED BY <2>1 DEF ReadyInv
<1>3. ASSUME NEW c \in Caller, Unlock(c) PROVE ReadyInv'
  <2>1. /\ pc[c] = "unlock" /\ pc'[c] = "returned" /\ got'[c] = port[c]
        /\ \A d \in Caller \ {c} : pc'[d] = pc[d] /\ got'[d] = got[d]
        /\ busy' = busy /\ port' = port /\ unlinked' = unlinked
    BY <1>3 DEF Unlock, Goes, IInv, TypeOK
  <2>2. port[c] # None
    BY <2>1, Contents DEF IInv, PortInv
  <2> QED BY <2>1, <2>2 DEF ReadyInv
<1>4. ASSUME NEW c \in Caller, Probe(c) PROVE ReadyInv'
  <2>1. /\ pc[c] = "probe" /\ pc'[c] # "returned"
        /\ pc'[c] = "write" => port'[c] = port[c] /\ port[c] \notin busy
        /\ \A d \in Caller \ {c} : pc'[d] = pc[d] /\ port'[d] = port[d]
        /\ got' = got /\ busy' = busy /\ unlinked' = unlinked
    BY <1>4 DEF Probe, IInv, TypeOK
  <2> QED BY <2>1 DEF ReadyInv
<1>5. ASSUME NEW c \in Caller, Listen(c) PROVE ReadyInv'
  <2> SUFFICES ASSUME ~unlinked, NEW d \in Caller, pc[d] = "write", port[d] = got[c]
               PROVE  FALSE
    BY <1>5 DEF Listen, ReadyInv
  <2>1. file \in Counter /\ port[d] >= file /\ port[d] \in Port
    BY DEF IInv, PortInv
  <2>2. got[c] < file
    BY <1>5 DEF Listen, IInv, PortInv
  <2> QED BY <2>1, <2>2, Numbers
<1> QED BY <1>1, <1>2, <1>3, <1>4, <1>5 DEF Next

\* Every step is one of the pool or none, until the lock file is unlinked.
LEMMA StepRefines ==
  ASSUME IInv, ProbedInv, ReadyInv, Next, ~unlinked'
  PROVE  Pool!Next \/ UNCHANGED <<Counting, Reserved, got, busy>>
<1>0. PICK c \in Caller : CallerStep(c) \/ Killed(c) \/ Listen(c)
  BY DEF Next
<1>1. ~unlinked
  BY <1>0 DEF CallerStep, OpenLock, Flock, ResetOpen, ResetWrite, ResetUnlink, Read, Probe,
       Write, Unlock, Killed, Listen
<1>2. TypeOK /\ LockInv /\ ResetInv /\ PortInv
  BY DEF IInv
<1>3. pc[c] \in Inside => \A d \in Caller : d # c => pc[d] \notin Inside
  BY <1>1, <1>2, OneInside
<1>4. \A d \in Caller : pc[d] = "resetWrite" => file = Empty
  BY <1>2 DEF ResetInv
<1>5. CASE OpenLock(c) \/ Flock(c) \/ Read(c) \/ Probe(c)
  <2>1. /\ file' = file /\ busy' = busy /\ got' = got
        /\ pc[c] \notin {"resetWrite", "unlock"} /\ pc'[c] # "resetWrite"
        /\ pc'[c] = "unlock" => port'[c] = 0
        /\ \A d \in Caller \ {c} : pc'[d] = pc[d] /\ port'[d] = port[d]
    BY <1>2, <1>5 DEF OpenLock, Flock, Read, Probe, Goes, TypeOK, PortInv
  <2>2. Counting' = Counting /\ Reserved' = Reserved
    BY <2>1 DEF Counting, Reserved
  <2> QED BY <2>1, <2>2
<1>6. CASE ResetOpen(c)
  <2>1. /\ file = Absent /\ file' = Empty /\ busy' = busy /\ got' = got /\ port' = port
        /\ pc[c] = "reset" /\ pc' = [pc EXCEPT ![c] = "resetWrite"]
    BY <1>2, <1>6 DEF ResetOpen, Goes, ResetInv
  <2>2. Counting = Absent /\ Counting' = Absent
    BY <1>2, <2>1, Contents DEF Counting, TypeOK
  <2>3. Reserved' = Reserved
    BY <1>2, <2>1 DEF Reserved, TypeOK
  <2> QED BY <2>1, <2>2, <2>3
<1>7. CASE ResetWrite(c)
  <2>1. /\ file = Empty /\ file' = 1 /\ busy' = busy /\ got' = got /\ port' = port
        /\ pc[c] = "resetWrite" /\ pc' = [pc EXCEPT ![c] = "resetUnlink"]
    BY <1>2, <1>4, <1>7 DEF ResetWrite, Goes, First
  <2>2. Counting = Absent /\ Counting' = 1
    BY <2>1, Contents, Numbers DEF Counting
  <2>3. Reserved' = Reserved
    BY <1>2, <2>1 DEF Reserved, TypeOK
  <2>4. Pool!Create
    BY <2>1, <2>2, <2>3 DEF Pool!Create, Counting, Reserved
  <2> QED BY <2>4 DEF Pool!Next
<1>8. CASE ResetUnlink(c)
  BY <1>8 DEF ResetUnlink
<1>9. CASE Write(c)
  <2>1. /\ pc[c] = "write" /\ pc' = [pc EXCEPT ![c] = "unlock"]
        /\ file' = port[c] + 1 /\ busy' = busy /\ got' = got /\ port' = port
    BY <1>9 DEF Write, Goes, NextPort
  <2>2. /\ port[c] \in Port /\ port[c] # 0 /\ port[c] # None
        /\ file \in Counter /\ port[c] >= file
    BY <1>1, <1>2, <2>1, Contents, Numbers DEF PortInv
  <2>3. pc[c] \in Inside /\ got[c] = None /\ port[c] \notin busy
    BY <1>1, <2>1 DEF ReadyInv, Inside
  <2>4. \A d \in Caller : Reserved[d] = None
    BY <1>3, <2>1, <2>3 DEF Reserved, Inside
  <2>5. Reserved' = [Reserved EXCEPT ![c] = port[c]]
    BY <1>2, <1>3, <2>1, <2>2, <2>3 DEF Reserved, TypeOK, Inside
  <2>6. Counting = file /\ Counting' = port[c] + 1
    BY <2>1, <2>2, Contents, Numbers DEF Counting
  <2>7. file \in 1..Last /\ port[c] \in file..Last
    BY <2>2, PortAssumption DEF Port, Counter, First
  <2>8. \A q \in file..(port[c] - 1) : q \in busy
    <3> SUFFICES ASSUME NEW q \in file..(port[c] - 1) PROVE q \in busy
      OBVIOUS
    <3>1. q \in Port /\ file <= q /\ q < port[c]
      BY <2>2, PortAssumption DEF Port, Counter, First
    <3> QED BY <1>1, <2>1, <3>1 DEF ProbedInv
  <2>9. Pool!Reserve(c)
    BY <2>1, <2>3, <2>4, <2>5, <2>6, <2>7, <2>8 DEF Pool!Reserve, Counting, Reserved
  <2> QED BY <2>9 DEF Pool!Next
<1>10. CASE Unlock(c)
  <2>1. /\ pc[c] = "unlock" /\ pc' = [pc EXCEPT ![c] = "returned"]
        /\ got' = [got EXCEPT ![c] = port[c]]
        /\ file' = file /\ busy' = busy /\ port' = port
    BY <1>10 DEF Unlock, Goes
  <2>2. pc[c] \in Inside /\ got[c] = None
    BY <2>1 DEF ReadyInv, Inside
  <2>3. \A d \in Caller : pc[d] # "resetWrite" /\ pc'[d] # "resetWrite"
    BY <1>2, <1>3, <2>1, <2>2 DEF Inside, TypeOK
  <2>4. Counting = file /\ Counting' = file
    BY <2>1, <2>3 DEF Counting
  <2>5. CASE port[c] # 0
    <3>1. Reserved[c] = port[c] /\ port[c] # None
      BY <1>2, <2>1, <2>5, Contents DEF Reserved, PortInv
    <3>2. Reserved' = [Reserved EXCEPT ![c] = None]
      BY <1>2, <2>1 DEF Reserved, TypeOK
    <3>3. Pool!Give(c)
      BY <2>1, <2>2, <2>4, <3>1, <3>2 DEF Pool!Give, Counting, Reserved
    <3> QED BY <3>3 DEF Pool!Next
  <2>6. CASE port[c] = 0
    <3>1. Reserved[c] = None /\ Reserved' = Reserved
      BY <1>2, <2>1, <2>6 DEF Reserved, TypeOK
    <3>2. file # Absent
      BY <1>2, <2>1 DEF ResetInv, Inside
    <3>3. file # Empty => file \in 1..(Last + 1) /\ \A p \in file..Last : p \in busy
      <4> SUFFICES ASSUME file # Empty
                   PROVE  file \in 1..(Last + 1) /\ \A p \in file..Last : p \in busy
        OBVIOUS
      <4>1. file \in Counter
        BY <1>2, <3>2 DEF TypeOK
      <4>2. NoneFrom(file)
        BY <1>1, <2>1, <2>6 DEF ProbedInv
      <4> QED BY <4>1, <4>2, PortAssumption DEF Counter, First, Port, NoneFrom
    <3>4. Pool!Refuse(c)
      BY <2>1, <2>2, <2>4, <2>6, <3>1, <3>3 DEF Pool!Refuse, Counting, Reserved
    <3> QED BY <3>4 DEF Pool!Next
  <2> QED BY <2>5, <2>6
<1>11. CASE Killed(c)
  <2>1. /\ pc' = [pc EXCEPT ![c] = "killed"]
        /\ file' = file /\ busy' = busy /\ port' = port /\ got' = got
    BY <1>11 DEF Killed
  <2>2. \A d \in Caller \ {c} : pc'[d] = pc[d]
    BY <1>2, <2>1 DEF TypeOK
  <2>3. CASE pc[c] = "resetWrite"
    <3>1. \A d \in Caller : pc'[d] # "resetWrite"
      BY <1>2, <1>3, <2>1, <2>3 DEF TypeOK, Inside
    <3>2. Counting = Absent /\ Counting' = Empty
      BY <1>4, <2>1, <2>3, <3>1 DEF Counting
    <3>3. Reserved' = Reserved
      BY <1>2, <2>1, <2>3 DEF Reserved, TypeOK
    <3>4. Pool!Spoil
      BY <2>1, <3>2, <3>3 DEF Pool!Spoil, Counting, Reserved
    <3> QED BY <3>4 DEF Pool!Next
  <2>4. CASE pc[c] # "resetWrite"
    <3>1. Counting' = Counting
      BY <1>2, <2>1, <2>2, <2>4 DEF Counting, TypeOK
    <3>2. CASE Reserved[c] = None
      <4>1. Reserved' = Reserved
        BY <1>2, <2>1, <3>2 DEF Reserved, TypeOK
      <4> QED BY <2>1, <3>1, <4>1
    <3>3. CASE Reserved[c] # None
      <4>1. Reserved' = [Reserved EXCEPT ![c] = None]
        BY <1>2, <2>1 DEF Reserved, TypeOK
      <4>2. Pool!Lose(c)
        BY <2>1, <3>1, <3>3, <4>1 DEF Pool!Lose, Counting, Reserved
      <4> QED BY <4>2 DEF Pool!Next
    <3> QED BY <3>2, <3>3
  <2> QED BY <2>3, <2>4
<1>12. CASE Listen(c)
  <2>1. /\ got[c] \in 1..Last /\ busy' = busy \cup {got[c]} /\ got' = got
        /\ file' = file /\ pc' = pc /\ port' = port
    BY <1>12 DEF Listen, Port, First
  <2>2. Counting' = Counting /\ Reserved' = Reserved
    BY <2>1 DEF Counting, Reserved
  <2>3. Pool!Listen(c)
    BY <2>1, <2>2 DEF Pool!Listen, Pool!Ports, Counting, Reserved
  <2> QED BY <2>3 DEF Pool!Next
<1> QED BY <1>0, <1>5, <1>6, <1>7, <1>8, <1>9, <1>10, <1>11, <1>12 DEF CallerStep

\* The callers get their ports as from one atomic pool, although they open,
\* lock, read, probe and write one after the other and may be killed in
\* between, as long as no reset has unlinked the lock file.
THEOREM PortsFromThePool == Spec => PoolUnlessReset
<1>1. Init => Pool!Init /\ ReadyInv
  <2> SUFFICES ASSUME Init PROVE Pool!Init /\ ReadyInv
    OBVIOUS
  <2>1. Counting = file /\ Reserved = [c \in Caller |-> None]
    BY Contents, Numbers DEF Init, Counting, Reserved
  <2>2. Counting \in {Absent} \cup 1..(Last + 1)
    BY <2>1 DEF Init, Counter, First
  <2>3. Pool!Init
    BY <2>1, <2>2 DEF Init, Pool!Init, Pool!Ports, Port, First, Counting, Reserved
  <2>4. ReadyInv
    BY DEF Init, ReadyInv
  <2> QED BY <2>3, <2>4
<1>2. IInv /\ ProbedInv /\ ReadyInv /\ [Next]_vars =>
        [unlinked' \/ Pool!Next]_(Pool!vars)
  <2> SUFFICES ASSUME IInv, ProbedInv, ReadyInv, [Next]_vars, ~unlinked'
               PROVE  Pool!Next \/ UNCHANGED Pool!vars
    OBVIOUS
  <2>1. CASE UNCHANGED vars
    BY <2>1 DEF vars, Pool!vars
  <2>2. CASE Next
    BY <2>2, StepRefines DEF Pool!vars, Counting, Reserved
  <2> QED BY <2>1, <2>2
<1> QED BY <1>1, <1>2, ReadyNext, ProbedInit, ProbedNext, Invariance, PTL DEF Spec, PoolUnlessReset
=============================================================================
