---------------------- MODULE CollectionWorkers_proofs ----------------------
(***************************************************************************)
(* Proofs about CollectionWorkers: the counter and the event of the        *)
(* collection, for any number of threads, tests and retries, and that the  *)
(* collection implements TaskPool.                                         *)
(***************************************************************************)
EXTENDS CollectionWorkers, FiniteSetTheorems, SequenceTheorems, TLAPS

\* What Append and Tail do to the length, the elements and the distinctness
\* of a queue.
LEMMA AppendFacts ==
  ASSUME NEW s \in Seq(Task), NEW t \in Task
  PROVE  /\ Append(s, t) \in Seq(Task)
         /\ Len(Append(s, t)) = Len(s) + 1
         /\ Append(s, t) # <<>>
         /\ Elements(Append(s, t)) = Elements(s) \cup {t}
<1> DEFINE a == Append(s, t)
<1>1. /\ a \in Seq(Task)
      /\ Len(a) = Len(s) + 1
      /\ a # <<>>
      /\ \A i \in 1..Len(s) : a[i] = s[i]
      /\ a[Len(s) + 1] = t
  BY AppendProperties
<1>2. Len(s) \in Nat
  BY LenProperties
<1>3. Elements(a) \subseteq Elements(s) \cup {t}
  BY <1>1, <1>2 DEF Elements
<1>4. Elements(s) \cup {t} \subseteq Elements(a)
  <2>1. 1..Len(s) \subseteq 1..Len(a) /\ Len(s) + 1 \in 1..Len(a)
    BY <1>1, <1>2
  <2> QED BY <1>1, <2>1 DEF Elements
<1> QED BY <1>1, <1>3, <1>4

LEMMA TailFacts ==
  ASSUME NEW s \in Seq(Task), s # <<>>
  PROVE  /\ Tail(s) \in Seq(Task)
         /\ Len(Tail(s)) = Len(s) - 1
         /\ Head(s) \in Task
         /\ Head(s) = s[1]
         /\ 1 \in 1..Len(s)
         /\ \A i \in 1..Len(Tail(s)) : Tail(s)[i] = s[i + 1] /\ i + 1 \in 1..Len(s)
         /\ Elements(s) = {Head(s)} \cup Elements(Tail(s))
<1>1. /\ Head(s) \in Task
      /\ Tail(s) \in Seq(Task)
      /\ Len(Tail(s)) = Len(s) - 1
      /\ \A i \in 1..Len(Tail(s)) : Tail(s)[i] = s[i + 1]
  BY HeadTailProperties
<1>2. Len(s) \in Nat \ {0}
  BY EmptySeq
<1>3. Head(s) = s[1]
  OBVIOUS
<1>4. 1 \in 1..Len(s) /\ \A i \in 1..Len(Tail(s)) : i + 1 \in 1..Len(s)
  BY <1>1, <1>2
<1>5. {Head(s)} \cup Elements(Tail(s)) \subseteq Elements(s)
  BY <1>1, <1>3, <1>4 DEF Elements
<1>6. ASSUME NEW i \in 1..Len(s), i # 1
      PROVE  s[i] \in Elements(Tail(s))
  <2>1. i - 1 \in 1..Len(Tail(s)) /\ Tail(s)[i - 1] = s[(i - 1) + 1]
    BY <1>1, <1>2, <1>6
  <2>2. s[(i - 1) + 1] = s[i]
    OBVIOUS
  <2> QED BY <2>1, <2>2 DEF Elements
<1>7. Elements(s) \subseteq {Head(s)} \cup Elements(Tail(s))
  BY <1>3, <1>6 DEF Elements
<1> QED BY <1>1, <1>3, <1>4, <1>5, <1>7

\* A queue without repetitions stays so when a new test is appended, and loses
\* its head for good when it is popped.
LEMMA DistinctAppend ==
  ASSUME NEW s \in Seq(Task), NEW t \in Task, t \notin Elements(s),
         \A i, j \in 1..Len(s) : i # j => s[i] # s[j]
  PROVE  \A i, j \in 1..Len(Append(s, t)) :
           i # j => Append(s, t)[i] # Append(s, t)[j]
<1>1. /\ Len(Append(s, t)) = Len(s) + 1
      /\ \A i \in 1..Len(s) : Append(s, t)[i] = s[i]
      /\ Append(s, t)[Len(s) + 1] = t
  BY AppendProperties
<1>2. Len(s) \in Nat
  BY LenProperties
<1>3. \A i \in 1..Len(s) : s[i] # t
  BY DEF Elements
<1>4. \A i \in 1..(Len(s) + 1) : i \in 1..Len(s) \/ i = Len(s) + 1
  BY <1>2
<1> QED BY <1>1, <1>3, <1>4

LEMMA DistinctTail ==
  ASSUME NEW s \in Seq(Task), s # <<>>,
         \A i, j \in 1..Len(s) : i # j => s[i] # s[j]
  PROVE  /\ \A i, j \in 1..Len(Tail(s)) : i # j => Tail(s)[i] # Tail(s)[j]
         /\ Head(s) \notin Elements(Tail(s))
<1>1. /\ Head(s) = s[1]
      /\ 1 \in 1..Len(s)
      /\ \A i \in 1..Len(Tail(s)) : Tail(s)[i] = s[i + 1] /\ i + 1 \in 1..Len(s)
  BY TailFacts
<1>2. \A i, j \in 1..Len(Tail(s)) : i # j => i + 1 # j + 1
  OBVIOUS
<1>3. \A i \in 1..Len(Tail(s)) : i + 1 # 1
  OBVIOUS
<1> QED BY <1>1, <1>2, <1>3 DEF Elements

\* There are finitely many holders, and entering or leaving Holders changes
\* their number by one.
LEMMA HoldersFinite ==
  IsFiniteSet(Holders) /\ Cardinality(Holders) \in Nat
<1>1. Holders \in SUBSET Worker
  BY DEF Holders
<1> QED BY <1>1, WorkerAssumption, FS_Subset, FS_CardinalityType

LEMMA HoldersEnter ==
  ASSUME NEW w \in Worker, w \notin Holders, Holders' = Holders \cup {w}
  PROVE  Cardinality(Holders') = Cardinality(Holders) + 1
BY HoldersFinite, FS_AddElement

LEMMA HoldersLeave ==
  ASSUME NEW w \in Worker, w \in Holders, Holders' = Holders \ {w}
  PROVE  Cardinality(Holders') = Cardinality(Holders) - 1
BY HoldersFinite, FS_RemoveElement
-----------------------------------------------------------------------------
\* The initial collection holds distinct tests, all counted, and is signalled.
LEMMA InitIInv == Init => IInv
<1> SUFFICES ASSUME Init PROVE IInv
  OBVIOUS
<1>1. /\ tc.tests = Initial /\ tc.inProgress = Len(Initial)
      /\ tc.signalled = TRUE
      /\ tc \in Collection(Task)
  <2>1. (Initial # <<>>) = TRUE
    BY InitialAssumption
  <2>2. tc = [tests |-> Initial, inProgress |-> Len(Initial), signalled |-> TRUE]
    BY <2>1 DEF Init, NewCollection
  <2>3. Initial \in Seq(Task) /\ Len(Initial) \in Int
    BY InitialAssumption, LenProperties
  <2> QED BY <2>2, <2>3 DEF Collection
<1>2. Holders = {}
  BY DEF Init, Holders, Holding
<1>3. Elements(Initial) \subseteq Task
  BY InitialAssumption, ElementOfSeq DEF Elements
<1>4. TypeOK
  BY <1>1, <1>2, <1>3 DEF Init, TypeOK, Phase
<1>5. CountExact
  BY <1>1, <1>2, FS_EmptySet, InitialAssumption, LenProperties DEF CountExact
<1>6. NoLostWakeup /\ LeaveWhenDrained
  BY <1>1 DEF Init, NoLostWakeup, LeaveWhenDrained
<1>7. QueueDistinct
  BY <1>1, InitialAssumption DEF QueueDistinct
<1>8. QueuedNotHeld /\ OneHolderPerTest /\ HandedBack
  BY <1>2 DEF Init, QueuedNotHeld, OneHolderPerTest, HandedBack
<1>9. NoTestLost
  BY <1>1, <1>2 DEF Init, NoTestLost
<1> QED BY <1>4, <1>5, <1>6, <1>7, <1>8, <1>9 DEF IInv

\* Steps that move a worker between phases without the collection or a test.
LEMMA WakeIInv ==
  ASSUME IInv, NEW w \in Worker, Wake(w)
  PROVE  IInv'
<1>1. Holders' = Holders
  BY DEF IInv, TypeOK, Wake, Holders, Holding
<1>2. TypeOK'
  BY <1>1 DEF IInv, TypeOK, Wake, Phase
<1>3. CountExact' /\ NoLostWakeup' /\ QueueDistinct'
  BY <1>1 DEF IInv, Wake, CountExact, NoLostWakeup, QueueDistinct
<1>4. LeaveWhenDrained'
  BY <1>1 DEF IInv, TypeOK, Wake, LeaveWhenDrained
<1>5. /\ \A v \in Holders : phase'[v] = phase[v]
      /\ \A v \in Worker : phase'[v] = "raising" <=> phase[v] = "raising"
  BY DEF IInv, TypeOK, Wake, Holders, Holding
<1>6. QueuedNotHeld' /\ OneHolderPerTest' /\ NoTestLost'
  BY <1>1, <1>5 DEF IInv, Wake, QueuedNotHeld, OneHolderPerTest, NoTestLost
<1>7. HandedBack'
  BY <1>1, <1>5 DEF IInv, Wake, HandedBack
<1> QED BY <1>2, <1>3, <1>4, <1>6, <1>7 DEF IInv

LEMMA PopBeatenIInv ==
  ASSUME IInv, NEW w \in Worker, PopBeaten(w)
  PROVE  IInv'
<1>1. Holders' = Holders
  BY DEF IInv, TypeOK, PopBeaten, Holders, Holding
<1>2. /\ tc'.tests = tc.tests /\ tc'.inProgress = tc.inProgress
      /\ tc.tests = <<>> /\ tc.inProgress # 0
      /\ tc' \in Collection(Task)
  BY DEF IInv, TypeOK, Collection, PopBeaten, Cleared, Beaten, AllHandled
<1>3. TypeOK'
  BY <1>1, <1>2 DEF IInv, TypeOK, PopBeaten, Phase
<1>4. CountExact' /\ NoLostWakeup' /\ QueueDistinct'
  BY <1>1, <1>2 DEF IInv, CountExact, NoLostWakeup, QueueDistinct
<1>5. LeaveWhenDrained'
  BY <1>1, <1>2 DEF IInv, TypeOK, PopBeaten, LeaveWhenDrained
<1>6. /\ \A v \in Holders : phase'[v] = phase[v]
      /\ \A v \in Worker : phase'[v] = "raising" <=> phase[v] = "raising"
  BY DEF IInv, TypeOK, PopBeaten, Holders, Holding
<1>7. QueuedNotHeld' /\ OneHolderPerTest' /\ NoTestLost'
  BY <1>1, <1>2, <1>6
  DEF IInv, PopBeaten, QueuedNotHeld, OneHolderPerTest, NoTestLost
<1>8. HandedBack'
  BY <1>1, <1>2, <1>6 DEF IInv, PopBeaten, HandedBack
<1> QED BY <1>3, <1>4, <1>5, <1>7, <1>8 DEF IInv

\* A counter of 0 means an empty queue and no holders: the worker may leave.
LEMMA PopNoneIInv ==
  ASSUME IInv, NEW w \in Worker, PopNone(w)
  PROVE  IInv'
<1>1. Holders' = Holders
  BY DEF IInv, TypeOK, PopNone, Holders, Holding
<1>2. tc.tests = <<>> /\ Holders = {}
  <2>1. tc.inProgress = 0 /\ tc.tests \in Seq(Task)
    BY DEF IInv, TypeOK, Collection, PopNone, AllHandled
  <2>2. Len(tc.tests) = 0 /\ Cardinality(Holders) = 0
    BY <2>1, HoldersFinite, LenProperties DEF IInv, CountExact
  <2> QED BY <2>1, <2>2, HoldersFinite, FS_EmptySet, EmptySeq
<1>3. TypeOK'
  BY <1>1 DEF IInv, TypeOK, PopNone, Phase
<1>4. CountExact' /\ NoLostWakeup' /\ QueueDistinct'
  BY <1>1 DEF IInv, PopNone, CountExact, NoLostWakeup, QueueDistinct
<1>5. LeaveWhenDrained'
  BY <1>1, <1>2 DEF PopNone, LeaveWhenDrained
<1>6. QueuedNotHeld' /\ OneHolderPerTest' /\ NoTestLost'
  BY <1>1, <1>2 DEF IInv, PopNone, QueuedNotHeld, OneHolderPerTest, NoTestLost
<1>7. HandedBack'
  BY <1>1, <1>2 DEF IInv, TypeOK, PopNone, HandedBack, Holders, Holding
<1> QED BY <1>3, <1>4, <1>5, <1>6, <1>7 DEF IInv

\* The popped test has no other holder but a dying one.
LEMMA PopTestIInv ==
  ASSUME IInv, NEW w \in Worker, PopTest(w)
  PROVE  IInv'
<1> DEFINE q == tc.tests
           t == Head(tc.tests)
<1>1. q \in Seq(Task) /\ q # <<>>
  BY DEF IInv, TypeOK, Collection, PopTest, TestAvailable
<1>2. /\ Tail(q) \in Seq(Task) /\ Len(Tail(q)) = Len(q) - 1
      /\ t \in Task /\ Elements(q) = {t} \cup Elements(Tail(q))
  BY <1>1, TailFacts
<1>3. /\ \A i, j \in 1..Len(Tail(q)) : i # j => Tail(q)[i] # Tail(q)[j]
      /\ t \notin Elements(Tail(q))
  BY <1>1, DistinctTail DEF IInv, QueueDistinct
<1>4. /\ tc' \in Collection(Task) /\ tc'.tests = Tail(q)
      /\ tc'.inProgress = tc.inProgress /\ tc'.signalled = tc.signalled
  BY <1>2 DEF IInv, TypeOK, Collection, PopTest, Popped
<1>5. w \notin Holders /\ Holders' = Holders \cup {w}
  BY DEF IInv, TypeOK, PopTest, Holders, Holding
<1>6. /\ held'[w] = t
      /\ \A v \in Holders : phase'[v] = phase[v] /\ held'[v] = held[v]
  BY <1>5 DEF IInv, TypeOK, PopTest
<1>7. TypeOK'
  <2>1. /\ phase' \in [Worker -> Phase] /\ held' \in [Worker -> Task \cup {None}]
        /\ added' \subseteq Task /\ done' \subseteq Task
    BY <1>2 DEF IInv, TypeOK, PopTest, Phase
  <2>2. \A v \in Worker : held'[v] # None <=> v \in Holders'
    BY <1>2, <1>5, NoneAssumption DEF IInv, TypeOK, PopTest
  <2> QED BY <1>4, <2>1, <2>2 DEF TypeOK
<1>8. CountExact'
  <2>1. Len(q) \in Nat
    BY <1>1, LenProperties
  <2>2. /\ Cardinality(Holders') = Cardinality(Holders) + 1
        /\ Cardinality(Holders) \in Nat
    BY <1>5, HoldersEnter, HoldersFinite
  <2> QED BY <1>2, <1>4, <2>1, <2>2 DEF IInv, CountExact
<1>9. NoLostWakeup' /\ LeaveWhenDrained'
  BY <1>1, <1>4 DEF IInv, TypeOK, PopTest, NoLostWakeup, LeaveWhenDrained
<1>10. QueueDistinct'
  BY <1>3, <1>4 DEF QueueDistinct
<1>11. QueuedNotHeld'
  BY <1>2, <1>3, <1>4, <1>5, <1>6 DEF IInv, QueuedNotHeld
<1>12. OneHolderPerTest'
  BY <1>2, <1>5, <1>6 DEF IInv, QueuedNotHeld, OneHolderPerTest
<1>13. NoTestLost'
  BY <1>2, <1>4, <1>5, <1>6 DEF IInv, NoTestLost, PopTest
<1>14. HandedBack'
  <2>1. \A v \in Worker : phase'[v] = "raising" => phase[v] = "raising" /\ v \in Holders
    BY DEF IInv, TypeOK, PopTest, Holders, Holding
  <2>2. phase'[w] # "raising"
    BY DEF IInv, TypeOK, PopTest
  <2> QED BY <1>2, <1>4, <1>5, <1>6, <2>1, <2>2 DEF IInv, HandedBack, PopTest
<1> QED BY <1>7, <1>8, <1>9, <1>10, <1>11, <1>12, <1>13, <1>14 DEF IInv

\* What adding a test does to the collection, whoever adds it.
LEMMA AddFacts ==
  ASSUME TypeOK, NEW t \in Task, tc' = Add(tc, t)
  PROVE  /\ tc' \in Collection(Task)
         /\ tc'.tests = Append(tc.tests, t)
         /\ Len(tc'.tests) = Len(tc.tests) + 1
         /\ Len(tc.tests) \in Nat
         /\ tc'.inProgress = tc.inProgress + 1
         /\ tc'.signalled
         /\ Elements(tc'.tests) = Elements(tc.tests) \cup {t}
<1>1. tc.tests \in Seq(Task) /\ tc.inProgress \in Int
  BY DEF TypeOK, Collection
<1>2. /\ Append(tc.tests, t) \in Seq(Task)
      /\ Len(Append(tc.tests, t)) = Len(tc.tests) + 1
      /\ Elements(Append(tc.tests, t)) = Elements(tc.tests) \cup {t}
  BY <1>1, AppendFacts
<1> QED BY <1>1, <1>2, LenProperties DEF Add, Collection

LEMMA AddRetryIInv ==
  ASSUME IInv, NEW w \in Worker, AddRetry(w)
  PROVE  IInv'
<1>1. PICK t \in Task \ added : tc' = Add(tc, t) /\ added' = added \cup {t}
  BY DEF AddRetry
<1>2. /\ tc' \in Collection(Task)
      /\ tc'.tests = Append(tc.tests, t)
      /\ Len(tc'.tests) = Len(tc.tests) + 1
      /\ Len(tc.tests) \in Nat
      /\ tc'.inProgress = tc.inProgress + 1
      /\ tc'.signalled
      /\ Elements(tc'.tests) = Elements(tc.tests) \cup {t}
  BY <1>1, AddFacts DEF IInv
<1>3. w \in Holders /\ Holders' = Holders /\ phase[w] = "running"
  BY DEF IInv, TypeOK, AddRetry, Holders, Holding
<1>4. /\ held' = held
      /\ \A v \in Holders : phase'[v] = "raising" <=> phase[v] = "raising"
  BY <1>3 DEF IInv, TypeOK, AddRetry, Holders
<1>5. t \notin Elements(tc.tests) /\ \A v \in Holders : held[v] # t
  BY <1>1 DEF IInv, NoTestLost
<1>6. TypeOK'
  BY <1>1, <1>2, <1>3 DEF IInv, TypeOK, AddRetry, Phase
<1>7. CountExact'
  BY <1>2, <1>3, HoldersFinite DEF IInv, CountExact
<1>8. NoLostWakeup' /\ LeaveWhenDrained'
  BY <1>2, <1>3 DEF IInv, TypeOK, AddRetry, NoLostWakeup, LeaveWhenDrained
<1>9. QueueDistinct'
  <2>1. tc.tests \in Seq(Task)
    BY DEF IInv, TypeOK, Collection
  <2>2. \A i, j \in 1..Len(Append(tc.tests, t)) :
          i # j => Append(tc.tests, t)[i] # Append(tc.tests, t)[j]
    BY <1>5, <2>1, DistinctAppend DEF IInv, QueueDistinct
  <2> QED BY <1>2, <2>2 DEF QueueDistinct
<1>10. QueuedNotHeld' /\ OneHolderPerTest'
  BY <1>2, <1>3, <1>4, <1>5 DEF IInv, QueuedNotHeld, OneHolderPerTest
<1>11. NoTestLost'
  BY <1>1, <1>2, <1>3, <1>4 DEF IInv, NoTestLost, AddRetry
<1>12. HandedBack'
  <2>1. \A v \in Worker : phase'[v] = "raising" <=> phase[v] = "raising"
    BY <1>3 DEF IInv, TypeOK, AddRetry
  <2> QED BY <1>2, <1>3, <1>4, <2>1 DEF IInv, HandedBack, AddRetry
<1> QED BY <1>6, <1>7, <1>8, <1>9, <1>10, <1>11, <1>12 DEF IInv

LEMMA AddBackIInv ==
  ASSUME IInv, NEW w \in Worker, AddBack(w)
  PROVE  IInv'
<1> DEFINE t == held[w]
<1>1. w \in Holders /\ Holders' = Holders /\ phase[w] = "running"
  BY DEF IInv, TypeOK, AddBack, Holders, Holding
<1>2. t \in Task
  BY <1>1 DEF IInv, TypeOK
<1>3. /\ tc' \in Collection(Task)
      /\ tc'.tests = Append(tc.tests, t)
      /\ Len(tc'.tests) = Len(tc.tests) + 1
      /\ Len(tc.tests) \in Nat
      /\ tc'.inProgress = tc.inProgress + 1
      /\ tc'.signalled
      /\ Elements(tc'.tests) = Elements(tc.tests) \cup {t}
  BY <1>2, AddFacts DEF IInv, AddBack
<1>4. /\ held' = held
      /\ phase'[w] = "raising"
      /\ \A v \in Holders : v # w => phase'[v] = phase[v]
  BY <1>1 DEF IInv, TypeOK, AddBack, Holders
<1>5. t \notin Elements(tc.tests)
  BY <1>1 DEF IInv, QueuedNotHeld
<1>6. \A v \in Holders : v # w /\ held[v] = t => phase[v] = "raising"
  BY <1>1 DEF IInv, OneHolderPerTest
<1>7. TypeOK'
  BY <1>1, <1>3 DEF IInv, TypeOK, AddBack, Phase
<1>8. CountExact'
  BY <1>1, <1>3, HoldersFinite DEF IInv, CountExact
<1>9. NoLostWakeup' /\ LeaveWhenDrained'
  BY <1>1, <1>3 DEF IInv, TypeOK, AddBack, NoLostWakeup, LeaveWhenDrained
<1>10. QueueDistinct'
  <2>1. tc.tests \in Seq(Task)
    BY DEF IInv, TypeOK, Collection
  <2> QED BY <1>2, <1>3, <1>5, <2>1, DistinctAppend DEF IInv, QueueDistinct
<1>11. QueuedNotHeld'
  BY <1>1, <1>3, <1>4, <1>6 DEF IInv, QueuedNotHeld
<1>12. OneHolderPerTest'
  BY <1>1, <1>4 DEF IInv, OneHolderPerTest
<1>13. NoTestLost'
  BY <1>1, <1>3, <1>4 DEF IInv, NoTestLost, AddBack
<1>14. HandedBack'
  <2>1. \A v \in Worker : v # w => phase'[v] = phase[v]
    BY DEF IInv, TypeOK, AddBack
  <2> QED BY <1>1, <1>3, <1>4, <2>1 DEF IInv, HandedBack, AddBack
<1> QED BY <1>7, <1>8, <1>9, <1>10, <1>11, <1>12, <1>13, <1>14 DEF IInv

\* What test_completed() does to the collection, whoever calls it.
LEMMA CompletedFacts ==
  ASSUME TypeOK, CountExact, NoLostWakeup, tc' = TestCompleted(tc)
  PROVE  /\ tc' \in Collection(Task)
         /\ tc'.tests = tc.tests
         /\ Len(tc.tests) \in Nat
         /\ tc.inProgress \in Int
         /\ tc'.inProgress = tc.inProgress - 1
         /\ NoLostWakeup'
<1>1. /\ tc.tests \in Seq(Task) /\ tc.inProgress \in Int
      /\ tc.signalled \in BOOLEAN /\ Len(tc.tests) \in Nat
  BY LenProperties DEF TypeOK, Collection
<1>2. /\ tc'.tests = tc.tests
      /\ tc'.inProgress = tc.inProgress - 1
      /\ tc'.signalled = (tc.signalled \/ tc.inProgress = 1)
  BY DEF TypeOK, Collection, TestCompleted
<1>3. tc' \in Collection(Task)
  <2>1. tc' = [tests |-> tc.tests, inProgress |-> tc.inProgress - 1,
               signalled |-> (tc.signalled \/ tc.inProgress = 1)]
    BY DEF TypeOK, Collection, TestCompleted
  <2>2. (tc.signalled \/ tc.inProgress = 1) \in BOOLEAN
    OBVIOUS
  <2> QED BY <1>1, <2>1, <2>2 DEF Collection
<1>4. NoLostWakeup'
  <2>1. tc'.signalled <=> (tc.signalled \/ tc.inProgress = 1)
    BY <1>2
  <2>2. ~tc'.signalled => tc.tests = <<>> /\ tc.inProgress # 0 /\ tc.inProgress # 1
    BY <2>1 DEF NoLostWakeup
  <2> QED BY <1>1, <1>2, <2>2 DEF NoLostWakeup
<1> QED BY <1>1, <1>2, <1>3, <1>4

LEMMA CompleteIInv ==
  ASSUME IInv, NEW w \in Worker, Complete(w)
  PROVE  IInv'
<1>1. /\ tc' \in Collection(Task) /\ tc'.tests = tc.tests
      /\ Len(tc.tests) \in Nat /\ tc.inProgress \in Int
      /\ tc'.inProgress = tc.inProgress - 1
      /\ NoLostWakeup'
  BY CompletedFacts DEF IInv, Complete
<1>2. w \in Holders /\ Holders' = Holders \ {w} /\ phase[w] # "raising"
  BY DEF IInv, TypeOK, Complete, Holders, Holding
<1>3. \A v \in Holders' : phase'[v] = phase[v] /\ held'[v] = held[v]
  BY <1>2 DEF IInv, TypeOK, Complete, Holders
<1>4. TypeOK'
  BY <1>1, <1>2 DEF IInv, TypeOK, Complete, Phase
<1>5. CountExact'
  <2>1. /\ Cardinality(Holders') = Cardinality(Holders) - 1
        /\ Cardinality(Holders) \in Nat
    BY <1>2, HoldersLeave, HoldersFinite
  <2> QED BY <1>1, <2>1 DEF IInv, CountExact
<1>6. LeaveWhenDrained'
  BY <1>1, <1>2 DEF IInv, TypeOK, Complete, LeaveWhenDrained
<1>7. QueueDistinct' /\ QueuedNotHeld' /\ OneHolderPerTest'
  BY <1>1, <1>2, <1>3 DEF IInv, QueueDistinct, QueuedNotHeld, OneHolderPerTest
<1>8. NoTestLost'
  BY <1>1, <1>2, <1>3 DEF IInv, NoTestLost, Complete
<1>9. HandedBack'
  <2>1. \A v \in Worker : phase'[v] = "raising" => v # w /\ phase[v] = "raising"
    BY DEF IInv, TypeOK, Complete
  <2>2. \A v \in Worker : v # w => held'[v] = held[v]
    BY DEF IInv, TypeOK, Complete
  <2> QED BY <1>1, <1>2, <1>3, <2>1, <2>2 DEF IInv, HandedBack, Complete
<1> QED BY <1>1, <1>4, <1>5, <1>6, <1>7, <1>8, <1>9 DEF IInv

LEMMA CompleteAndDieIInv ==
  ASSUME IInv, NEW w \in Worker, CompleteAndDie(w)
  PROVE  IInv'
<1>1. /\ tc' \in Collection(Task) /\ tc'.tests = tc.tests
      /\ Len(tc.tests) \in Nat /\ tc.inProgress \in Int
      /\ tc'.inProgress = tc.inProgress - 1
      /\ NoLostWakeup'
  BY CompletedFacts DEF IInv, CompleteAndDie
<1>2. w \in Holders /\ Holders' = Holders \ {w}
  BY DEF IInv, TypeOK, CompleteAndDie, Holders, Holding
<1>3. \A v \in Holders' : phase'[v] = phase[v] /\ held'[v] = held[v]
  BY <1>2 DEF IInv, TypeOK, CompleteAndDie, Holders
<1>4. TypeOK'
  BY <1>1, <1>2 DEF IInv, TypeOK, CompleteAndDie, Phase
<1>5. CountExact'
  <2>1. /\ Cardinality(Holders') = Cardinality(Holders) - 1
        /\ Cardinality(Holders) \in Nat
    BY <1>2, HoldersLeave, HoldersFinite
  <2> QED BY <1>1, <2>1 DEF IInv, CountExact
<1>6. LeaveWhenDrained'
  BY <1>1, <1>2 DEF IInv, TypeOK, CompleteAndDie, LeaveWhenDrained
<1>7. QueueDistinct' /\ QueuedNotHeld' /\ OneHolderPerTest'
  BY <1>1, <1>2, <1>3 DEF IInv, QueueDistinct, QueuedNotHeld, OneHolderPerTest
<1>8. NoTestLost'
  <2>1. held[w] \in Elements(tc.tests) \cup done \cup {held[v] : v \in Holders \ {w}}
    BY DEF IInv, HandedBack, CompleteAndDie
  <2>2. {held[v] : v \in Holders} = {held[w]} \cup {held[v] : v \in Holders \ {w}}
    BY <1>2
  <2>3. {held'[v] : v \in Holders'} = {held[v] : v \in Holders \ {w}}
    BY <1>2, <1>3
  <2> QED BY <1>1, <2>1, <2>2, <2>3 DEF IInv, NoTestLost, CompleteAndDie
<1>9. HandedBack'
  <2>1. phase'[w] # "raising"
    BY DEF IInv, TypeOK, CompleteAndDie
  <2>2. \A v \in Worker : v # w => phase'[v] = phase[v] /\ held'[v] = held[v]
    BY DEF IInv, TypeOK, CompleteAndDie
  <2>3. {u \in Holders' : phase'[u] # "raising"} = {u \in Holders : phase[u] # "raising"}
    BY <1>2, <2>2 DEF CompleteAndDie
  <2> QED BY <1>1, <1>2, <2>1, <2>2, <2>3 DEF IInv, HandedBack, CompleteAndDie
<1> QED BY <1>1, <1>4, <1>5, <1>6, <1>7, <1>8, <1>9 DEF IInv
-----------------------------------------------------------------------------
\* Every step of every worker preserves the invariant.
LEMMA NextIInv == IInv /\ [Next]_vars => IInv'
<1> SUFFICES ASSUME IInv, [Next]_vars PROVE IInv'
  OBVIOUS
<1>1. ASSUME NEW w \in Worker, WorkerStep(w)
      PROVE  IInv'
  BY <1>1, WakeIInv, PopTestIInv, PopBeatenIInv, PopNoneIInv, AddRetryIInv,
     AddBackIInv, CompleteIInv, CompleteAndDieIInv DEF WorkerStep
<1>2. CASE UNCHANGED vars
  <2>1. Holders' = Holders
    BY <1>2 DEF vars, Holders
  <2> QED
    BY <1>2, <2>1
    DEF vars, IInv, TypeOK, CountExact, NoLostWakeup, LeaveWhenDrained,
        QueueDistinct, QueuedNotHeld, OneHolderPerTest, HandedBack, NoTestLost
<1> QED BY <1>1, <1>2 DEF Next, Terminated

THEOREM Invariance == Spec => []IInv
<1> QED BY InitIInv, NextIInv, PTL DEF Spec

\* The collection, the phases and the held tests keep their types, and a
\* worker holds a test exactly between _pop and test_completed.
THEOREM TypeCorrect == Spec => []TypeOK
<1>1. IInv => TypeOK
  BY DEF IInv
<1> QED BY <1>1, Invariance, PTL

\* _tests_in_progress is the number of tests queued or being run, whatever the
\* interleaving of add, _pop and test_completed.
THEOREM CountIsExact == Spec => []CountExact
<1>1. IInv => CountExact
  BY DEF IInv
<1> QED BY <1>1, Invariance, PTL

\* A cleared event always has somebody left to set it: no thread waits in
\* _pop while nobody runs a test.
THEOREM NoWaitWithoutARunner == Spec => [](NoLostWakeup /\ SomebodyWillSignal)
<1>1. IInv => NoLostWakeup /\ SomebodyWillSignal
  <2> SUFFICES ASSUME IInv PROVE SomebodyWillSignal
    BY DEF IInv
  <2>1. ASSUME ~tc.signalled PROVE Holders # {}
    <3>1. tc.tests = <<>> /\ tc.inProgress # 0
      BY <2>1 DEF IInv, NoLostWakeup
    <3>2. Cardinality(Holders) # 0
      BY <3>1, HoldersFinite DEF IInv, CountExact
    <3> QED BY <3>2, FS_EmptySet
  <2> QED BY <2>1 DEF SomebodyWillSignal
<1> QED BY <1>1, Invariance, PTL

\* _pop returns None to a thread only when every test has been handled.
THEOREM LeaveOnlyWhenDrained == Spec => []LeaveWhenDrained
<1>1. IInv => LeaveWhenDrained
  BY DEF IInv
<1> QED BY <1>1, Invariance, PTL

\* No test is dropped, and none is run by two workers unless one of them gave
\* it back and is dying.
THEOREM TestsAreKept == Spec => [](NoTestLost /\ OneHolderPerTest)
<1>1. IInv => NoTestLost /\ OneHolderPerTest
  BY DEF IInv
<1> QED BY <1>1, Invariance, PTL
-----------------------------------------------------------------------------
\* The steps of the workers, seen through the refinement mapping.
LEMMA StepRefines ==
  ASSUME IInv, IInv', NEW w \in Worker, WorkerStep(w)
  PROVE  Pool!Next \/ UNCHANGED Pool!vars
<1> DEFINE raising == {v \in Worker : phase[v] = "raising"}
           dead    == {v \in Worker : phase[v] = "dead"}
           left    == {v \in Worker : phase[v] = "left"}
<1> USE DEF Pool!Next, Pool!vars
<1>0. phase \in [Worker -> Phase] /\ held \in [Worker -> Task \cup {None}]
  BY DEF IInv, TypeOK
<1>1. CASE Wake(w)
  BY <1>0, <1>1 DEF Wake
<1>2. CASE PopTest(w)
  <2>1. /\ tc.tests \in Seq(Task) /\ tc.tests # <<>>
        /\ tc'.tests = Tail(tc.tests)
    BY <1>2 DEF IInv, TypeOK, Collection, PopTest, TestAvailable, Popped
  <2>2. Elements(tc'.tests) = Elements(tc.tests) \ {Head(tc.tests)}
    BY <2>1, TailFacts, DistinctTail DEF IInv, QueueDistinct
  <2>3. Head(tc.tests) \in Elements(tc.tests)
    BY <2>1, TailFacts
  <2>4. held[w] = None /\ w \notin dead \cup left
    BY <1>2 DEF IInv, TypeOK, PopTest, Holders, Holding
  <2>5. raising' = raising /\ dead' = dead /\ left' = left
    BY <1>0, <1>2 DEF PopTest
  <2>6. Pool!Take(w)
    BY <1>2, <2>2, <2>3, <2>4, <2>5 DEF Pool!Take, Pool!Idle, PopTest
  <2> QED BY <2>6
<1>3. CASE PopBeaten(w)
  <2>1. tc'.tests = tc.tests
    BY <1>3 DEF IInv, TypeOK, Collection, PopBeaten, Cleared
  <2> QED BY <1>0, <1>3, <2>1 DEF PopBeaten
<1>4. CASE PopNone(w)
  <2>1. tc.tests = <<>> /\ Holders' = {}
    <3>1. left' # {}
      BY <1>0, <1>4 DEF PopNone
    <3> QED BY <1>4, <3>1 DEF IInv, LeaveWhenDrained, PopNone
  <2>2. Elements(tc.tests) = {}
    BY <2>1 DEF Elements
  <2>3. \A v \in Worker : held[v] = None
    BY <1>4, <2>1 DEF IInv, TypeOK, PopNone
  <2>4. w \notin dead \cup left
    BY <1>4 DEF PopNone
  <2>5. raising' = raising /\ dead' = dead /\ left' = left \cup {w}
    BY <1>0, <1>4 DEF PopNone
  <2>6. Pool!Dismiss(w)
    BY <1>4, <2>2, <2>3, <2>4, <2>5 DEF Pool!Dismiss, Pool!Idle, PopNone
  <2> QED BY <2>6
<1>5. CASE AddRetry(w)
  <2>1. PICK t \in Task \ added : tc' = Add(tc, t) /\ added' = added \cup {t}
    BY <1>5 DEF AddRetry
  <2>2. Elements(tc'.tests) = Elements(tc.tests) \cup {t}
    BY <2>1, AddFacts DEF IInv
  <2>3. t \notin Elements(tc.tests) \cup done \cup {held[v] : v \in Worker}
    BY <2>1, NoneAssumption DEF IInv, NoTestLost, TypeOK
  <2>4. held[w] # None /\ w \notin raising
    BY <1>5 DEF IInv, TypeOK, AddRetry, Holders, Holding
  <2>5. raising' = raising /\ dead' = dead /\ left' = left
    BY <1>0, <1>5 DEF AddRetry
  <2>6. Pool!Submit(w)
    BY <1>5, <2>2, <2>3, <2>4, <2>5 DEF Pool!Submit, AddRetry
  <2> QED BY <2>6
<1>6. CASE AddBack(w)
  <2>1. held[w] # None /\ held[w] \in Task /\ w \notin raising
    BY <1>6 DEF IInv, TypeOK, AddBack, Holders, Holding
  <2>2. Elements(tc'.tests) = Elements(tc.tests) \cup {held[w]}
    BY <1>6, <2>1, AddFacts DEF IInv, AddBack
  <2>3. raising' = raising \cup {w} /\ dead' = dead /\ left' = left
    BY <1>0, <1>6 DEF AddBack
  <2>4. Pool!HandBack(w)
    BY <1>6, <2>1, <2>2, <2>3 DEF Pool!HandBack, AddBack
  <2> QED BY <2>4
<1>7. CASE Complete(w)
  <2>1. tc'.tests = tc.tests
    BY <1>7, CompletedFacts DEF IInv, Complete
  <2>2. held[w] # None /\ w \notin raising
    BY <1>7 DEF IInv, TypeOK, Complete, Holders, Holding
  <2>3. raising' = raising /\ dead' = dead /\ left' = left
    BY <1>0, <1>7 DEF Complete
  <2>4. Pool!Finish(w)
    BY <1>7, <2>1, <2>2, <2>3 DEF Pool!Finish, Complete
  <2> QED BY <2>4
<1>8. CASE CompleteAndDie(w)
  <2>1. tc'.tests = tc.tests
    BY <1>8, CompletedFacts DEF IInv, CompleteAndDie
  <2>2. raising' = raising \ {w} /\ dead' = dead \cup {w} /\ left' = left
    BY <1>0, <1>8 DEF CompleteAndDie
  <2>3. Pool!Die(w)
    BY <1>8, <2>1, <2>2 DEF Pool!Die, CompleteAndDie
  <2> QED BY <2>3
<1> QED
  BY <1>1, <1>2, <1>3, <1>4, <1>5, <1>6, <1>7, <1>8 DEF WorkerStep

\* TestCollection, used the way the runner threads use it, implements the task
\* pool: locks, the event and the counter are invisible to its users.
THEOREM Implementation == Spec => PoolSpec
<1>1. Init => Pool!Init
  BY DEF Init, Pool!Init, NewCollection
<1>2. IInv /\ IInv' /\ [Next]_vars => [Pool!Next]_(Pool!vars)
  <2> SUFFICES ASSUME IInv, IInv', [Next]_vars
               PROVE  Pool!Next \/ UNCHANGED Pool!vars
    OBVIOUS
  <2>1. CASE UNCHANGED vars
    BY <2>1 DEF vars, Pool!vars
  <2>2. CASE Next
    BY <2>1, <2>2, StepRefines DEF Next, Terminated
  <2> QED BY <2>1, <2>2
<1> QED BY <1>1, <1>2, Invariance, PTL DEF Spec, PoolSpec, Pool!Spec
=============================================================================
