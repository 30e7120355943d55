------------------------ MODULE TestDispatcher_proofs ------------------------
(***************************************************************************)
(* Proofs about TestDispatcher, for any devices, tests and retries: types, *)
(* that no test name is lost or recorded twice or run too often, that no   *)
(* runner is torn down while a thread that was joined still runs tests,    *)
(* that a thread leaves only what is recorded, that the verdict speaks of  *)
(* every test, and that RunTests implements the ledger of its tests.       *)
(***************************************************************************)
EXTENDS TestDispatcher, SequenceTheorems, FiniteSetTheorems, TLAPS

(* Queues and bags.                                                        *)

\* What Append and Tail do to the tests of a queue.
LEMMA AppendFacts ==
  ASSUME NEW s \in Seq(Tests), NEW t \in Tests
  PROVE  /\ Append(s, t) \in Seq(Tests)
         /\ Len(s) \in Nat
         /\ Len(Append(s, t)) = Len(s) + 1
         /\ \A i \in 1..Len(s) : Append(s, t)[i] = s[i]
         /\ Append(s, t)[Len(s) + 1] = t
  BY AppendProperties, LenProperties

LEMMA TailFacts ==
  ASSUME NEW s \in Seq(Tests), s # <<>>
  PROVE  /\ Tail(s) \in Seq(Tests)
         /\ Head(s) \in Tests
         /\ Len(s) \in Nat \ {0}
         /\ Len(Tail(s)) = Len(s) - 1
         /\ Head(s) = s[1]
         /\ \A i \in 1..Len(Tail(s)) : Tail(s)[i] = s[i + 1]
<1>1. Head(s) = s[1]
  OBVIOUS
<1>2. Len(s) \in Nat \ {0}
  BY EmptySeq
<1> QED BY <1>1, <1>2, HeadTailProperties

\* Adding a set of results to a bag.
LEMMA BagAdd ==
  ASSUME NEW B, IsABag(B), NEW S
  PROVE  /\ IsABag(B (+) SetToBag(S))
         /\ BagToSet(B (+) SetToBag(S)) = BagToSet(B) \cup S
         /\ \A e \in S \ BagToSet(B) : (B (+) SetToBag(S))[e] = 1
         /\ \A e \in BagToSet(B) \ S : (B (+) SetToBag(S))[e] = B[e]
<1> DEFINE C == SetToBag(S)
<1>1. DOMAIN C = S /\ \A e \in S : C[e] = 1
  BY DEF SetToBag
<1>2. \A e \in DOMAIN B : B[e] \in Nat /\ B[e] > 0
  BY DEF IsABag
<1> HIDE DEF C
<1>3. B (+) C = [e \in (DOMAIN B) \cup S |->
         (IF e \in DOMAIN B THEN B[e] ELSE 0) + (IF e \in S THEN C[e] ELSE 0)]
  BY <1>1 DEF (+)
<1> QED BY <1>1, <1>2, <1>3 DEF IsABag, BagToSet, C

(* A name stays in one place.                                              *)

\* A device takes the head of the queue.
LEMMA PopPlaces ==
  ASSUME NEW q \in Seq(Tests), q # <<>>,
         NEW U, NEW run, NEW run2, NEW rec, NEW d \in U, run[d] = {},
         run2[d] = Head(q).names, \A e \in U \ {d} : run2[e] = run[e]
  PROVE  /\ Exclusive(q, U, run, rec) => Exclusive(Tail(q), U, run2, rec)
         /\ Covered(q, U, run, rec) => Covered(Tail(q), U, run2, rec)
<1>1. /\ Len(q) \in Nat \ {0} /\ Len(Tail(q)) = Len(q) - 1 /\ Head(q) = q[1]
      /\ \A i \in 1..Len(Tail(q)) : Tail(q)[i] = q[i + 1]
  BY TailFacts
<1>2. 1 \in 1..Len(q) /\ \A i \in 1..Len(Tail(q)) : i + 1 \in 1..Len(q) /\ i + 1 # 1
  BY <1>1
<1>3. \A i, j \in 1..Len(Tail(q)) : i # j => i + 1 # j + 1
  BY <1>1
<1>4. ASSUME Exclusive(q, U, run, rec)
      PROVE  Exclusive(Tail(q), U, run2, rec)
  <2>1. \A i \in 1..Len(Tail(q)) :
           Tail(q)[i].names \subseteq Name /\ Tail(q)[i].names \cap rec = {}
    BY <1>1, <1>2, <1>4 DEF Exclusive
  <2>2. \A i, j \in 1..Len(Tail(q)) :
           i # j => Tail(q)[i].names \cap Tail(q)[j].names = {}
    BY <1>1, <1>2, <1>3, <1>4 DEF Exclusive
  <2>3. \A e \in U : run2[e] \subseteq Name /\ run2[e] \cap rec = {}
    BY <1>1, <1>2, <1>4 DEF Exclusive
  <2>4. \A e \in U : \A i \in 1..Len(Tail(q)) : run2[e] \cap Tail(q)[i].names = {}
    BY <1>1, <1>2, <1>4 DEF Exclusive
  <2>5. \A e, f \in U : e # f => run2[e] \cap run2[f] = {}
    BY <1>1, <1>2, <1>4 DEF Exclusive
  <2> QED BY <2>1, <2>2, <2>3, <2>4, <2>5 DEF Exclusive
<1>5. ASSUME Covered(q, U, run, rec)
      PROVE  Covered(Tail(q), U, run2, rec)
  <2> SUFFICES ASSUME NEW n \in Name, n \notin rec, \A e \in U : n \notin run2[e]
               PROVE  \E i \in 1..Len(Tail(q)) : n \in Tail(q)[i].names
    BY DEF Covered
  <2>1. PICK i \in 1..Len(q) : n \in q[i].names
    BY <1>5 DEF Covered
  <2>2. i # 1
    BY <1>1, <2>1
  <2>3. i - 1 \in 1..Len(Tail(q)) /\ (i - 1) + 1 = i
    BY <1>1, <2>2
  <2> QED BY <1>1, <2>1, <2>3
<1> QED BY <1>4, <1>5

\* A device is done with its test: some of its names are recorded, and either
\* that is all of them or a test with the others is queued.
LEMMA SettlePlaces ==
  ASSUME NEW q \in Seq(Tests), NEW U, NEW run, NEW run2, NEW rec, NEW d \in U,
         run2[d] = {}, \A e \in U \ {d} : run2[e] = run[e],
         NEW good \in SUBSET run[d], NEW q2,
         \/ q2 = q /\ good = run[d]
         \/ \E t \in Tests : q2 = Append(q, t) /\ t.names = run[d] \ good
  PROVE  /\ Exclusive(q, U, run, rec) => Exclusive(q2, U, run2, rec \cup good)
         /\ Covered(q, U, run, rec) => Covered(q2, U, run2, rec \cup good)
<1>1. CASE q2 = q /\ good = run[d]
  BY <1>1 DEF Exclusive, Covered
<1>2. ASSUME NEW t \in Tests, q2 = Append(q, t), t.names = run[d] \ good
      PROVE  /\ Exclusive(q, U, run, rec) => Exclusive(q2, U, run2, rec \cup good)
             /\ Covered(q, U, run, rec) => Covered(q2, U, run2, rec \cup good)
  <2>1. /\ Len(q) \in Nat /\ Len(q2) = Len(q) + 1
        /\ \A i \in 1..Len(q) : q2[i] = q[i]
        /\ q2[Len(q) + 1] = t
    BY <1>2, AppendFacts
  <2>2. \A i \in 1..Len(q2) : i \in 1..Len(q) \/ i = Len(q) + 1
    BY <2>1
  <2>3. 1..Len(q) \subseteq 1..Len(q2) /\ Len(q) + 1 \in 1..Len(q2)
    BY <2>1
  <2>4. ASSUME Exclusive(q, U, run, rec)
        PROVE  Exclusive(q2, U, run2, rec \cup good)
    <3>1. \A i \in 1..Len(q2) :
             q2[i].names \subseteq Name /\ q2[i].names \cap (rec \cup good) = {}
      BY <1>2, <2>1, <2>2, <2>4 DEF Exclusive
    <3>2. \A i, j \in 1..Len(q2) : i # j => q2[i].names \cap q2[j].names = {}
      BY <1>2, <2>1, <2>2, <2>4 DEF Exclusive
    <3>3. \A e \in U : run2[e] \subseteq Name /\ run2[e] \cap (rec \cup good) = {}
      BY <1>2, <2>4 DEF Exclusive
    <3>4. \A e \in U : \A i \in 1..Len(q2) : run2[e] \cap q2[i].names = {}
      BY <1>2, <2>1, <2>2, <2>4 DEF Exclusive
    <3>5. \A e, f \in U : e # f => run2[e] \cap run2[f] = {}
      BY <2>4 DEF Exclusive
    <3> QED BY <3>1, <3>2, <3>3, <3>4, <3>5 DEF Exclusive
  <2>5. ASSUME Covered(q, U, run, rec)
        PROVE  Covered(q2, U, run2, rec \cup good)
    BY <1>2, <2>1, <2>3, <2>5 DEF Covered
  <2> QED BY <2>4, <2>5
<1> QED BY <1>1, <1>2

\* The bounds on the runs of a name follow its test from place to place.
LEMMA PopCounts ==
  ASSUME NEW q \in Seq(Tests), q # <<>>,
         NEW U, NEW run, NEW run2, NEW tries, NEW tries2, NEW count, NEW d \in U,
         run2[d] = Head(q).names, tries2[d] = Head(q).tries,
         \A e \in U \ {d} : run2[e] = run[e] /\ tries2[e] = tries[e],
         Counted(q, U, run, tries, count)
  PROVE  Counted(Tail(q), U, run2, tries2, count)
<1>1. /\ Len(q) \in Nat \ {0} /\ Len(Tail(q)) = Len(q) - 1 /\ Head(q) = q[1]
      /\ \A i \in 1..Len(Tail(q)) : Tail(q)[i] = q[i + 1]
  BY TailFacts
<1>2. 1 \in 1..Len(q) /\ \A i \in 1..Len(Tail(q)) : i + 1 \in 1..Len(q)
  BY <1>1
<1> QED BY <1>1, <1>2 DEF Counted

\* A device d is done with a test: its runs were counted or not (more is what
\* it ran, or empty), and what is queued of it has a try more or the same.
Settled(d, U, q, q2, run, run2, tries, tries2, more, count, count2) ==
  /\ d \in U /\ run2[d] = {} /\ tries2[d] = 0
  /\ \A e \in U \ {d} : run2[e] = run[e] /\ tries2[e] = tries[e]
  /\ \A e \in U : tries[e] \in Nat
  /\ more \in {run[d], {}}
  /\ \A n \in Name :
       /\ count[n] \in Nat
       /\ count2[n] = IF n \in more THEN count[n] + 1 ELSE count[n]
  /\ \/ q2 = q
     \/ \E t \in Tests :
          /\ q2 = Append(q, t)
          /\ t.names \subseteq run[d]
          /\ t.tries <= NumRetries
          /\ t.tries = tries[d] + (IF more = {} THEN 0 ELSE 1)

LEMMA SettleCounts ==
  ASSUME NEW q \in Seq(Tests), NEW q2, NEW U, NEW run, NEW run2, NEW rec,
         NEW tries, NEW tries2, NEW count, NEW count2, NEW more, NEW d,
         Settled(d, U, q, q2, run, run2, tries, tries2, more, count, count2),
         Exclusive(q, U, run, rec),
         Counted(q, U, run, tries, count)
  PROVE  Counted(q2, U, run2, tries2, count2)
<1> USE DEF Settled
<1>1. NumRetries \in Nat
  BY ParameterAssumption
<1>2. \A i \in 1..Len(q) :
         q[i].tries <= NumRetries /\ \A n \in q[i].names : count2[n] <= q[i].tries
  BY DEF Exclusive, Counted
<1>3. \A e \in U : tries2[e] <= NumRetries /\ \A n \in run2[e] : count2[n] <= tries2[e]
  <2> TAKE e \in U
  <2>1. CASE e = d
    BY <1>1, <2>1
  <2>2. CASE e # d
    BY <2>2 DEF Exclusive, Counted
  <2> QED BY <2>1, <2>2
<1>4. \A n \in run[d] : n \in Name /\ count[n] <= tries[d] /\ tries[d] <= NumRetries
  BY DEF Exclusive, Counted
<1>5. \A n \in Name : count2[n] <= NumRetries + 1
  <2> TAKE n \in Name
  <2>1. CASE n \in more
    BY <1>1, <1>4, <2>1
  <2>2. CASE n \notin more
    BY <2>2 DEF Counted
  <2> QED BY <2>1, <2>2
<1>6. CASE q2 = q
  BY <1>2, <1>3, <1>5, <1>6 DEF Counted
<1>7. ASSUME NEW t \in Tests, q2 = Append(q, t), t.names \subseteq run[d],
             t.tries <= NumRetries,
             t.tries = tries[d] + (IF more = {} THEN 0 ELSE 1)
      PROVE  Counted(q2, U, run2, tries2, count2)
  <2>1. /\ Len(q) \in Nat /\ Len(q2) = Len(q) + 1
        /\ \A i \in 1..Len(q) : q2[i] = q[i]
        /\ q2[Len(q) + 1] = t
    BY <1>7, AppendFacts
  <2>2. \A i \in 1..Len(q2) : i \in 1..Len(q) \/ i = Len(q) + 1
    BY <2>1
  <2>3. \A n \in t.names : count2[n] <= t.tries
    <3> TAKE n \in t.names
    <3>1. n \in Name /\ count[n] <= tries[d] /\ tries[d] \in Nat /\ count[n] \in Nat
      BY <1>4, <1>7
    <3>2. CASE more = {}
      BY <1>7, <3>1, <3>2
    <3>3. CASE more # {}
      BY <1>7, <3>1, <3>3
    <3> QED BY <3>2, <3>3
  <2> QED BY <1>2, <1>3, <1>5, <1>7, <2>1, <2>2, <2>3 DEF Counted
<1> QED BY <1>6, <1>7

(* From one collection to all of them.                                     *)

\* Every device draws from one collection, and its results bear the tag of
\* that collection.
LEMMA Tags ==
  ASSUME call \in Calls
  PROVE  /\ \A d \in Device : CollOf(d) \in CollId /\ Tag(d) = TagOf(CollOf(d))
         /\ \A c, e \in CollId : TagOf(c) = TagOf(e) => c = e
         /\ \A c \in CollId : \A d \in Users(c) : d \in Device /\ CollOf(d) = c
         /\ \A d \in Device : d \in Users(CollOf(d))
  BY DEF CollOf, CollId, Tag, TagOf, Users

\* What has to be shown of the next state, each part of it named.
LEMMA PlacedNext ==
  ASSUME call' = call,
         NEW Q, NEW R, NEW T, NEW G, NEW A,
         \A c \in CollId : coll'[c].tests = Q[c],
         R = Running', T = Tries',
         \A c \in CollId : RecordedIn(c)' = G[c] /\ AttemptsIn(c)' = A[c],
         \A c \in CollId : /\ Exclusive(Q[c], Users(c), R, G[c])
                           /\ Covered(Q[c], Users(c), R, G[c])
                           /\ Counted(Q[c], Users(c), R, T, A[c])
  PROVE  Placed'
<1>1. CollId' = CollId /\ Name' = Name /\ \A c : Users(c)' = Users(c)
  BY DEF CollId, Name, Users, CollOf
<1> SUFFICES ASSUME NEW c \in CollId
             PROVE  /\ Exclusive(Queue(c), Users(c), Running, RecordedIn(c))'
                    /\ Covered(Queue(c), Users(c), Running, RecordedIn(c))'
                    /\ Counted(Queue(c), Users(c), Running, Tries, AttemptsIn(c))'
  BY <1>1 DEF Placed
<1>2. Exclusive(Queue(c), Users(c), Running, RecordedIn(c))'
  BY <1>1 DEF Exclusive, Queue
<1>3. Covered(Queue(c), Users(c), Running, RecordedIn(c))'
  BY <1>1 DEF Covered, Queue
<1>4. Counted(Queue(c), Users(c), Running, Tries, AttemptsIn(c))'
  BY <1>1 DEF Counted, Queue
<1> QED BY <1>2, <1>3, <1>4

(* Types.                                                                  *)

LEMMA CollectionAdd ==
  ASSUME NEW tc \in Collection(Tests), NEW t \in Tests
  PROVE  Add(tc, t) \in Collection(Tests) /\ Add(tc, t).tests = Append(tc.tests, t)
<1>1. tc.tests \in Seq(Tests) /\ tc.inProgress \in Int
  BY DEF Collection
<1>2. Append(tc.tests, t) \in Seq(Tests)
  BY <1>1, AppendFacts
<1> QED BY <1>1, <1>2 DEF Collection, Add

LEMMA CollectionKeep ==
  ASSUME NEW tc \in Collection(Tests)
  PROVE  /\ TestCompleted(tc) \in Collection(Tests) /\ TestCompleted(tc).tests = tc.tests
         /\ Cleared(tc) \in Collection(Tests) /\ Cleared(tc).tests = tc.tests
<1>1. tc.tests \in Seq(Tests) /\ tc.inProgress \in Int
  BY DEF Collection
<1>2. (tc.signalled \/ tc.inProgress = 1) \in BOOLEAN
  OBVIOUS
<1>3. TestCompleted(tc) \in Collection(Tests) /\ TestCompleted(tc).tests = tc.tests
  BY <1>1, <1>2 DEF Collection, TestCompleted
<1>4. Cleared(tc) \in Collection(Tests) /\ Cleared(tc).tests = tc.tests
  BY DEF Collection, Cleared
<1> QED BY <1>3, <1>4

LEMMA CollectionPop ==
  ASSUME NEW tc \in Collection(Tests), TestAvailable(tc)
  PROVE  /\ tc.tests \in Seq(Tests) /\ tc.tests # <<>>
         /\ Popped(tc) \in Collection(Tests) /\ Popped(tc).tests = Tail(tc.tests)
         /\ Head(tc.tests) \in Tests
<1>1. tc.tests \in Seq(Tests) /\ tc.tests # <<>>
  BY DEF Collection, TestAvailable
<1>2. Tail(tc.tests) \in Seq(Tests) /\ Head(tc.tests) \in Tests
  BY <1>1, TailFacts
<1> QED BY <1>1, <1>2 DEF Collection, Popped

\* What RunTest does, whatever the outcome: some names are recorded, and
\* either that is all of them or a retry of the others is queued.
LEMMA RunTestEffect ==
  ASSUME TypeOK, NEW d \in Device, RunTest(d)
  PROVE  \E good \in SUBSET held[d].names, type \in [held[d].names -> RunOutcome] :
           /\ results' = results (+) SetToBag({Result(d, n, type[n]) : n \in good})
           /\ \/ coll' = coll /\ good = held[d].names
              \/ \E t \in Tests :
                   /\ coll' = [coll EXCEPT ![CollOf(d)] = Add(@, t)]
                   /\ t.names = held[d].names \ good
                   /\ t.tries = held[d].tries + 1
                   /\ t.tries <= NumRetries
<1>1. held[d] \in Tests
  BY DEF TypeOK, RunTest, Executing
<1>2. PICK type \in [held[d].names -> RunOutcome] :
        LET passed == {n \in held[d].names : type[n] = "PASS"} IN
        \E retry \in {{}, held[d].names \ passed} :
          LET again == retry # {} /\ held[d].tries + 1 <= NumRetries IN
          /\ results' = results (+)
               SetToBag({Result(d, n, type[n]) : n \in Recorded(held[d], passed, again)})
          /\ coll' = IF again
                       THEN [coll EXCEPT ![CollOf(d)] = Add(@, Retry(held[d], passed))]
                       ELSE coll
  BY DEF RunTest
<1> DEFINE passed == {n \in held[d].names : type[n] = "PASS"}
<1>3. PICK retry \in {{}, held[d].names \ passed} :
        LET again == retry # {} /\ held[d].tries + 1 <= NumRetries IN
        /\ results' = results (+)
             SetToBag({Result(d, n, type[n]) : n \in Recorded(held[d], passed, again)})
        /\ coll' = IF again
                     THEN [coll EXCEPT ![CollOf(d)] = Add(@, Retry(held[d], passed))]
                     ELSE coll
  BY <1>2
<1> DEFINE again == retry # {} /\ held[d].tries + 1 <= NumRetries
           t == Retry(held[d], passed)
<1>4. CASE again
  <2>1. /\ t \in Tests
        /\ t.names = held[d].names \ passed
        /\ t.tries = held[d].tries + 1
        /\ t.tries <= NumRetries
    BY <1>1, <1>4 DEF Retry, Test, Tests
  <2>2. results' = results (+) SetToBag({Result(d, n, type[n]) : n \in passed})
    BY <1>3, <1>4 DEF Recorded
  <2>3. coll' = [coll EXCEPT ![CollOf(d)] = Add(@, t)]
    BY <1>3, <1>4
  <2> HIDE DEF t
  <2> QED BY <2>1, <2>2, <2>3
<1>5. CASE ~again
  <2>1. results' = results (+) SetToBag({Result(d, n, type[n]) : n \in held[d].names})
    BY <1>3, <1>5 DEF Recorded
  <2>2. coll' = coll
    BY <1>3, <1>5
  <2> QED BY <2>1, <2>2
<1> QED BY <1>4, <1>5

LEMMA TypeRunner ==
  ASSUME TypeOK, NEW d \in Device, RunnerStep(d)
  PROVE  TypeOK'
<1> DEFINE c == CollOf(d)
<1>1. c \in CollId /\ coll[c] \in Collection(Tests) /\ call \in Calls
  BY Tags DEF TypeOK
<1>2. call' = call /\ CollId' = CollId
  BY DEF RunnerStep, CollId
<1>3. /\ main' = main /\ setup' = setup /\ runners' = runners /\ alive' = alive
      /\ teardown' = teardown /\ timedOut' = timedOut
  BY DEF RunnerStep
<1> HIDE DEF c
<1>4. CASE Wake(d)
  BY <1>1, <1>2, <1>3, <1>4 DEF Wake, TypeOK, Phase, Executing
<1>5. CASE PopTest(d)
  <2>1. Popped(coll[c]) \in Collection(Tests) /\ Head(coll[c].tests) \in Tests
    BY <1>1, <1>5, CollectionPop DEF PopTest, c
  <2>2. /\ coll' = [coll EXCEPT ![c] = Popped(coll[c])]
        /\ held' = [held EXCEPT ![d] = Head(coll[c].tests)]
        /\ phase' = [phase EXCEPT ![d] = "running"] /\ phase[d] = "woken"
        /\ error' = error /\ results' = results
    BY <1>5 DEF PopTest, c
  <2> QED BY <1>1, <1>2, <1>3, <2>1, <2>2, NoneAssumption DEF TypeOK, Phase, Executing
<1>6. CASE PopNothing(d)
  <2>1. Cleared(coll[c]) \in Collection(Tests)
    BY <1>1, CollectionKeep
  <2>2. /\ \/ coll' = [coll EXCEPT ![c] = Cleared(coll[c])]
              /\ phase' = [phase EXCEPT ![d] = "waiting"]
           \/ coll' = coll /\ phase' = [phase EXCEPT ![d] = "left"]
        /\ phase[d] = "woken" /\ held' = held /\ error' = error /\ results' = results
    BY <1>6 DEF PopNothing, c
  <2> QED BY <1>1, <1>2, <1>3, <2>1, <2>2 DEF TypeOK, Phase, Executing
<1>7. CASE RunTest(d)
  <2>1. PICK good \in SUBSET held[d].names, type \in [held[d].names -> RunOutcome] :
           /\ results' = results (+) SetToBag({Result(d, n, type[n]) : n \in good})
           /\ \/ coll' = coll
              \/ \E t \in Tests : coll' = [coll EXCEPT ![c] = Add(@, t)]
    BY <1>7, RunTestEffect DEF c
  <2>2. coll' \in [CollId -> Collection(Tests)]
    <3>1. \A t \in Tests : Add(coll[c], t) \in Collection(Tests)
      BY <1>1, CollectionAdd
    <3> QED BY <1>1, <2>1, <3>1 DEF TypeOK
  <2>3. IsABag(results')
    BY <2>1, BagAdd DEF TypeOK
  <2>4. /\ phase' = [phase EXCEPT ![d] = "recorded"] /\ phase[d] = "running"
        /\ held' = held /\ error' = error
    BY <1>7 DEF RunTest
  <2> QED BY <1>1, <1>2, <1>3, <2>2, <2>3, <2>4 DEF TypeOK, Phase, Executing
<1>8. CASE RunTestRaises(d)
  <2>1. held[d] \in Tests
    BY <1>8 DEF RunTestRaises, TypeOK, Executing
  <2>2. Add(coll[c], held[d]) \in Collection(Tests)
    BY <1>1, <2>1, CollectionAdd
  <2>3. /\ coll' = [coll EXCEPT ![c] = Add(coll[c], held[d])]
        /\ phase' = [phase EXCEPT ![d] = "raising"] /\ phase[d] = "running"
        /\ held' = held /\ results' = results
        /\ \E e \in Exception : error' = [error EXCEPT ![d] = e]
    BY <1>8 DEF RunTestRaises, c
  <2> QED BY <1>1, <1>2, <1>3, <2>2, <2>3, NoneAssumption DEF TypeOK, Phase, Executing
<1>9. CASE Complete(d)
  <2>1. TestCompleted(coll[c]) \in Collection(Tests)
    BY <1>1, CollectionKeep
  <2>2. /\ coll' = [coll EXCEPT ![c] = TestCompleted(coll[c])]
        /\ held' = [held EXCEPT ![d] = None]
        /\ phase[d] \in {"recorded", "raising"}
        /\ phase' = [phase EXCEPT ![d] = IF @ = "raising" THEN "dead" ELSE "waiting"]
        /\ error' = error /\ results' = results
    BY <1>9 DEF Complete, c
  <2> QED BY <1>1, <1>2, <1>3, <2>1, <2>2 DEF TypeOK, Phase, Executing
<1> QED BY <1>4, <1>5, <1>6, <1>7, <1>8, <1>9 DEF RunnerStep

LEMMA TypeOther ==
  ASSUME TypeOK, JoinedFirst, NEW d,
         \/ StartRunners \/ SetUpFails \/ Joined \/ JoinRaises \/ Report \/ RunTestsEnds
         \/ d \in Device /\ (Observe(d) \/ DeviceCall(d))
  PROVE  TypeOK' /\ coll' = coll /\ held' = held /\ results' = results
                 /\ attempts' = attempts /\ call' = call
<1>1. /\ coll' = coll /\ held' = held /\ results' = results /\ attempts' = attempts
      /\ call' = call /\ error' = error /\ CollId' = CollId
  BY DEF Observe, StartRunners, SetUpFails, Joined, JoinRaises, TearDownStarts, Report,
         RunTestsEnds, DeviceCall, SetUpSucceeds, SetUpRaises, TearDownEnds,
         runnerVars, CollId
<1>2. RunnerSet \subseteq Device
  BY ElementOfSeq DEF RunnerSet, TypeOK
<1>3. \/ phase' = phase
      \/ phase' = [e \in Device |-> IF e \in RunnerSet THEN "waiting" ELSE "idle"]
         /\ \A e \in Device : phase[e] = "idle"
  BY DEF JoinedFirst, Observe, StartRunners, SetUpFails, Joined, JoinRaises, TearDownStarts, Report,
         RunTestsEnds, DeviceCall, SetUpSucceeds, SetUpRaises, TearDownEnds, runnerVars
<1>4. runners' \in Seq(Device)
  <2>1. d \in Device => Append(runners, d) \in Seq(Device)
    BY AppendProperties DEF TypeOK
  <2> QED BY <2>1 DEF Observe, StartRunners, SetUpFails, Joined, JoinRaises, Report,
         RunTestsEnds, DeviceCall, SetUpSucceeds, SetUpRaises, TearDownEnds, TypeOK
<1>5. /\ main' \in Main /\ timedOut' \in BOOLEAN /\ alive' \subseteq Device
      /\ setup' \in [Device -> {"running", "done", "failed"}]
      /\ teardown' \in [Device -> {"idle", "running", "done", "failed"}]
  BY <1>2 DEF Observe, StartRunners, SetUpFails, Joined, JoinRaises, TearDownStarts,
         Report, RunTestsEnds, DeviceCall, SetUpSucceeds, SetUpRaises, TearDownEnds,
         TypeOK, Main
<1> QED BY <1>1, <1>3, <1>4, <1>5 DEF TypeOK, Phase, Executing

(* A name is in one place, and recorded once.                              *)

\* What a step of a device of another collection leaves as it was.
Agree(U, run, run2, tries, tries2, count, count2) ==
  /\ \A e \in U : run2[e] = run[e] /\ tries2[e] = tries[e]
  /\ \A n \in Name : count2[n] = count[n]

LEMMA SamePlaces ==
  ASSUME NEW q, NEW U, NEW run, NEW run2, NEW tries, NEW tries2, NEW rec,
         NEW count, NEW count2,
         Agree(U, run, run2, tries, tries2, count, count2),
         Exclusive(q, U, run, rec)
  PROVE  /\ Exclusive(q, U, run2, rec)
         /\ Covered(q, U, run, rec) => Covered(q, U, run2, rec)
         /\ Counted(q, U, run, tries, count) => Counted(q, U, run2, tries2, count2)
  BY DEF Agree, Exclusive, Covered, Counted

\* A step that leaves the queues, the tests being run and the results alone.
LEMMA KeepPlaces ==
  ASSUME Placed, call' = call, \A c \in CollId : coll'[c].tests = coll[c].tests,
         Running' = Running, Tries' = Tries, results' = results, attempts' = attempts
  PROVE  Placed'
<1> DEFINE Q == [c \in CollId |-> Queue(c)]
           G == [c \in CollId |-> RecordedIn(c)]
           A == [c \in CollId |-> AttemptsIn(c)]
<1>1. \A c \in CollId : coll'[c].tests = Q[c]
  BY DEF Queue
<1>2. \A c \in CollId : RecordedIn(c)' = G[c] /\ AttemptsIn(c)' = A[c]
  BY DEF RecordedIn, RecordedNames, Names, AttemptsIn, TagOf, Name
<1>3. \A c \in CollId : /\ Exclusive(Q[c], Users(c), Running, G[c])
                        /\ Covered(Q[c], Users(c), Running, G[c])
                        /\ Counted(Q[c], Users(c), Running, Tries, A[c])
  BY DEF Placed
<1> HIDE DEF Q, G, A
<1> QED BY <1>1, <1>2, <1>3, PlacedNext

LEMMA PopPlaced ==
  ASSUME TypeOK, Placed, NEW d \in Device, PopTest(d), call' = call
  PROVE  Placed'
<1> DEFINE c0 == CollOf(d)
           Q  == [c \in CollId |-> IF c = c0 THEN Tail(Queue(c)) ELSE Queue(c)]
           R  == [e \in Device |-> IF e = d THEN Head(Queue(c0)).names ELSE Running[e]]
           T  == [e \in Device |-> IF e = d THEN Head(Queue(c0)).tries ELSE Tries[e]]
           G  == [c \in CollId |-> RecordedIn(c)]
           A  == [c \in CollId |-> AttemptsIn(c)]
<1>1. c0 \in CollId /\ coll[c0] \in Collection(Tests) /\ TestAvailable(coll[c0])
  BY Tags DEF TypeOK, PopTest
<1>2. Queue(c0) \in Seq(Tests) /\ Queue(c0) # <<>> /\ Popped(coll[c0]).tests = Tail(Queue(c0))
  BY <1>1, CollectionPop DEF Queue
<1>3. \A c \in CollId : coll'[c].tests = Q[c]
  BY <1>1, <1>2 DEF PopTest, TypeOK, Queue
<1>4. Running[d] = {} /\ Running' = R /\ Tries' = T
  BY <1>1 DEF PopTest, TypeOK, Running, Tries, Queue
<1>5. \A c \in CollId : RecordedIn(c)' = G[c] /\ AttemptsIn(c)' = A[c]
  BY DEF PopTest, RecordedIn, RecordedNames, Names, AttemptsIn, TagOf, Name
<1>6. \A c \in CollId : /\ Exclusive(Queue(c), Users(c), Running, G[c])
                        /\ Covered(Queue(c), Users(c), Running, G[c])
                        /\ Counted(Queue(c), Users(c), Running, Tries, A[c])
  BY DEF Placed
<1>7. /\ \A c \in CollId : \A e \in Users(c) : e \in Device /\ (e = d => c = c0)
      /\ d \in Users(c0)
      /\ \A e \in Device \ {d} : R[e] = Running[e] /\ T[e] = Tries[e]
      /\ R[d] = Head(Queue(c0)).names /\ T[d] = Head(Queue(c0)).tries
  BY Tags DEF TypeOK
<1>8. Q[c0] = Tail(Queue(c0)) /\ \A c \in CollId \ {c0} : Q[c] = Queue(c)
  BY <1>1
<1> HIDE DEF c0, Q, R, T, G, A
<1>9. /\ Exclusive(Q[c0], Users(c0), R, G[c0])
      /\ Covered(Q[c0], Users(c0), R, G[c0])
  BY <1>1, <1>2, <1>4, <1>6, <1>7, <1>8, PopPlaces
<1>10. Counted(Q[c0], Users(c0), R, T, A[c0])
  BY <1>1, <1>2, <1>6, <1>7, <1>8, PopCounts
<1>11. ASSUME NEW c \in CollId \ {c0}
       PROVE  /\ Exclusive(Q[c], Users(c), R, G[c])
              /\ Covered(Q[c], Users(c), R, G[c])
              /\ Counted(Q[c], Users(c), R, T, A[c])
  <2>1. \A e \in Users(c) : R[e] = Running[e] /\ T[e] = Tries[e]
    BY <1>7
  <2>2. Q[c] = Queue(c)
    BY <1>8
  <2>3. Agree(Users(c), Running, R, Tries, T, A[c], A[c])
    BY <2>1 DEF Agree
  <2>4. /\ Exclusive(Queue(c), Users(c), Running, G[c])
        /\ Covered(Queue(c), Users(c), Running, G[c])
        /\ Counted(Queue(c), Users(c), Running, Tries, A[c])
    BY <1>6
  <2> QED BY <2>2, <2>3, <2>4, SamePlaces
<1> QED BY <1>3, <1>4, <1>5, <1>9, <1>10, <1>11, PlacedNext

AttemptsTyped == attempts \in [{TagOf(c) : c \in CollId} \X Name -> Nat]

\* RunTest, whatever its outcome, and an exception: the test that was run is
\* recorded in part or in full, and what is left of it queued.
LEMMA SettlePlaced ==
  ASSUME TypeOK, Placed, AttemptsTyped, call' = call,
         NEW d \in Device, phase[d] = "running", phase'[d] # "running",
         \A e \in Device \ {d} : phase'[e] = phase[e], held' = held,
         NEW good \in SUBSET held[d].names,
         RecordedNames' = RecordedNames \cup {<<Tag(d), n>> : n \in good},
         NEW more \in {held[d].names, {}},
         attempts' = [k \in DOMAIN attempts |-> IF k \in {Tag(d)} \X more
                                                  THEN attempts[k] + 1 ELSE attempts[k]],
         \/ coll' = coll /\ good = held[d].names
         \/ \E t \in Tests :
              /\ coll' = [coll EXCEPT ![CollOf(d)] = Add(@, t)]
              /\ t.names = held[d].names \ good
              /\ t.tries <= NumRetries
              /\ t.tries = held[d].tries + (IF more = {} THEN 0 ELSE 1)
  PROVE  Placed'
<1> DEFINE c0 == CollOf(d)
           Q  == [c \in CollId |-> coll'[c].tests]
           R  == [e \in Device |-> IF e = d THEN {} ELSE Running[e]]
           T  == [e \in Device |-> IF e = d THEN 0 ELSE Tries[e]]
           G  == [c \in CollId |-> IF c = c0 THEN RecordedIn(c) \cup good ELSE RecordedIn(c)]
           A  == [c \in CollId |-> AttemptsIn(c)']
<1>1. c0 \in CollId /\ coll[c0] \in Collection(Tests) /\ Queue(c0) \in Seq(Tests)
  BY Tags DEF TypeOK, Queue, Collection
<1>2. held[d] \in Tests /\ Running[d] = held[d].names /\ Tries[d] = held[d].tries
  BY DEF TypeOK, Executing, Running, Tries
<1>3. Running' = R /\ Tries' = T /\ \A e \in Device : Tries[e] \in Nat
  BY NoneAssumption DEF TypeOK, Executing, Running, Tries, Tests
<1>4. \A c \in CollId : /\ Exclusive(Queue(c), Users(c), Running, RecordedIn(c))
                        /\ Covered(Queue(c), Users(c), Running, RecordedIn(c))
                        /\ Counted(Queue(c), Users(c), Running, Tries, AttemptsIn(c))
  BY DEF Placed
<1>5. /\ \A c \in CollId : \A e \in Users(c) : e \in Device /\ (e = d => c = c0)
      /\ d \in Users(c0)
      /\ \A e \in Device \ {d} : R[e] = Running[e] /\ T[e] = Tries[e]
      /\ R[d] = {} /\ T[d] = 0
  BY Tags DEF TypeOK
<1>6. /\ Tag(d) = TagOf(c0)
      /\ \A c \in CollId \ {c0} : TagOf(c) # TagOf(c0)
      /\ \A c \in CollId : TagOf(c)' = TagOf(c)
      /\ Name' = Name
  BY <1>1, Tags DEF TypeOK, TagOf, Name
<1>7. good \subseteq Name /\ held[d].names \subseteq Name
  BY <1>1, <1>2, <1>4, <1>5 DEF Exclusive
<1>8. \A c \in CollId : RecordedIn(c)' = G[c]
  <2> TAKE c \in CollId
  <2>1. RecordedIn(c)' = {n \in Name : <<TagOf(c), n>> \in RecordedNames'}
    BY <1>6 DEF RecordedIn
  <2>2. CASE c = c0
    BY <1>6, <1>7, <2>1, <2>2 DEF RecordedIn
  <2>3. CASE c # c0
    BY <1>6, <2>1, <2>3 DEF RecordedIn
  <2> QED BY <2>2, <2>3
<1>9. \A c \in CollId : \A n \in Name :
        /\ <<TagOf(c), n>> \in DOMAIN attempts /\ AttemptsIn(c)[n] \in Nat
        /\ A[c][n] = attempts'[<<TagOf(c), n>>]
  <2> TAKE c \in CollId
  <2> TAKE n \in Name
  <2>1. <<TagOf(c), n>> \in DOMAIN attempts
    BY DEF AttemptsTyped
  <2> QED BY <1>6, <2>1 DEF AttemptsTyped, AttemptsIn
<1>10. \A n \in Name : A[c0][n] = IF n \in more THEN AttemptsIn(c0)[n] + 1 ELSE AttemptsIn(c0)[n]
  BY <1>1, <1>6, <1>9 DEF AttemptsIn
<1>11. \A c \in CollId \ {c0} : \A n \in Name : A[c][n] = AttemptsIn(c)[n]
  <2> TAKE c \in CollId \ {c0}
  <2> TAKE n \in Name
  <2>1. <<TagOf(c), n>> \notin {Tag(d)} \X more
    BY <1>6
  <2>2. attempts'[<<TagOf(c), n>>] = attempts[<<TagOf(c), n>>]
    BY <1>9, <2>1
  <2> QED BY <1>9, <2>2 DEF AttemptsIn
<1>12. \/ Q[c0] = Queue(c0) /\ good = Running[d]
       \/ \E t \in Tests :
            /\ Q[c0] = Append(Queue(c0), t)
            /\ t.names = Running[d] \ good
            /\ t.tries <= NumRetries
            /\ t.tries = Tries[d] + (IF more = {} THEN 0 ELSE 1)
  <2>1. CASE coll' = coll /\ good = held[d].names
    BY <1>1, <1>2, <2>1 DEF Queue
  <2>2. ASSUME NEW t \in Tests, coll' = [coll EXCEPT ![c0] = Add(@, t)]
        PROVE  Q[c0] = Append(Queue(c0), t)
    <3>1. coll'[c0] = Add(coll[c0], t)
      BY <1>1, <2>2 DEF TypeOK
    <3>2. coll'[c0].tests = Append(coll[c0].tests, t)
      BY <1>1, <3>1, CollectionAdd
    <3> QED BY <1>1, <3>2 DEF Queue
  <2>3. \A t \in Tests : coll' = [coll EXCEPT ![c0] = Add(@, t)] =>
                           Q[c0] = Append(Queue(c0), t)
    BY <2>2
  <2> HIDE DEF Q
  <2> QED BY <1>2, <2>1, <2>3
<1>13. \A c \in CollId \ {c0} : Q[c] = Queue(c)
  BY <1>1 DEF TypeOK, Queue
<1>14. \A c \in CollId : coll'[c].tests = Q[c] /\ AttemptsIn(c)' = A[c]
  OBVIOUS
<1>15. G[c0] = RecordedIn(c0) \cup good /\ \A c \in CollId \ {c0} : G[c] = RecordedIn(c)
  BY <1>1
<1> HIDE DEF c0, Q, R, T, G, A
<1>16. /\ Exclusive(Q[c0], Users(c0), R, G[c0])
       /\ Covered(Q[c0], Users(c0), R, G[c0])
  <2>1. /\ Running[d] = held[d].names /\ good \in SUBSET Running[d]
        /\ \A e \in Users(c0) \ {d} : R[e] = Running[e]
        /\ R[d] = {}
    BY <1>1, <1>2, <1>5
  <2>2. \/ Q[c0] = Queue(c0) /\ good = Running[d]
        \/ \E t \in Tests : Q[c0] = Append(Queue(c0), t) /\ t.names = Running[d] \ good
    BY <1>12
  <2>3. Exclusive(Q[c0], Users(c0), R, RecordedIn(c0) \cup good) /\
        Covered(Q[c0], Users(c0), R, RecordedIn(c0) \cup good)
    BY <1>1, <1>4, <1>5, <2>1, <2>2, SettlePlaces
  <2> QED BY <1>15, <2>3
<1>17. Counted(Q[c0], Users(c0), R, T, A[c0])
  <2>1. /\ more \in {Running[d], {}}
        /\ \A e \in Users(c0) : Tries[e] \in Nat
        /\ \A n \in Name : AttemptsIn(c0)[n] \in Nat
    BY <1>1, <1>2, <1>3, <1>5, <1>9
  <2>2. \/ Q[c0] = Queue(c0)
        \/ \E t \in Tests :
             /\ Q[c0] = Append(Queue(c0), t)
             /\ t.names \subseteq Running[d]
             /\ t.tries <= NumRetries
             /\ t.tries = Tries[d] + (IF more = {} THEN 0 ELSE 1)
    BY <1>12
  <2>3. \A e \in Users(c0) \ {d} : R[e] = Running[e] /\ T[e] = Tries[e]
    BY <1>1, <1>5
  <2>4. R[d] = {} /\ T[d] = 0 /\ d \in Users(c0)
    BY <1>5
  <2>5. /\ Exclusive(Queue(c0), Users(c0), Running, RecordedIn(c0))
        /\ Counted(Queue(c0), Users(c0), Running, Tries, AttemptsIn(c0))
        /\ Queue(c0) \in Seq(Tests)
    BY <1>1, <1>4
  <2>6. Settled(d, Users(c0), Queue(c0), Q[c0], Running, R, Tries, T,
                more, AttemptsIn(c0), A[c0])
    BY <1>10, <2>1, <2>2, <2>3, <2>4 DEF Settled
  <2> QED BY <2>5, <2>6, SettleCounts
<1>18. ASSUME NEW c \in CollId \ {c0}
       PROVE  /\ Exclusive(Q[c], Users(c), R, G[c])
              /\ Covered(Q[c], Users(c), R, G[c])
              /\ Counted(Q[c], Users(c), R, T, A[c])
  <2>1. \A e \in Users(c) : R[e] = Running[e] /\ T[e] = Tries[e]
    BY <1>5
  <2>2. Q[c] = Queue(c) /\ G[c] = RecordedIn(c)
    BY <1>13, <1>15
  <2>3. \A n \in Name : A[c][n] = AttemptsIn(c)[n]
    BY <1>11
  <2>4. /\ Exclusive(Queue(c), Users(c), Running, RecordedIn(c))
        /\ Covered(Queue(c), Users(c), Running, RecordedIn(c))
        /\ Counted(Queue(c), Users(c), Running, Tries, AttemptsIn(c))
    BY <1>4
  <2>5. Agree(Users(c), Running, R, Tries, T, AttemptsIn(c), A[c])
    BY <2>1, <2>3 DEF Agree
  <2> QED BY <2>2, <2>4, <2>5, SamePlaces
<1> QED BY <1>3, <1>8, <1>14, <1>16, <1>17, <1>18, PlacedNext

\* N holds one result for each of the names of good.
ResultsOf(N, d, good) ==
  /\ UNION {Names(r) : r \in N} = {<<Tag(d), n>> : n \in good}
  /\ \A r \in N : \E n \in good : Names(r) = {<<Tag(d), n>>}
  /\ \A r, s \in N : r # s => Names(r) \cap Names(s) = {}

LEMMA NewResults ==
  ASSUME NEW d, NEW good, NEW type
  PROVE  ResultsOf({Result(d, n, type[n]) : n \in good}, d, good)
<1>1. \A n : Names(Result(d, n, type[n])) = {<<Tag(d), n>>}
  BY DEF Names, Result
<1> DEFINE N == {Result(d, n, type[n]) : n \in good}
<1>2. \A r \in N : \E n \in good : r = Result(d, n, type[n]) /\ Names(r) = {<<Tag(d), n>>}
  BY <1>1
<1>3. \A n \in good : \E r \in N : Names(r) = {<<Tag(d), n>>}
  BY <1>1
<1> HIDE DEF N
<1>4. UNION {Names(r) : r \in N} = {<<Tag(d), n>> : n \in good}
  BY <1>2, <1>3
<1>5. \A r, s \in N : r # s => Names(r) \cap Names(s) = {}
  BY <1>2
<1>6. ResultsOf(N, d, good)
  BY <1>2, <1>4, <1>5 DEF ResultsOf
<1> QED BY <1>6 DEF N

\* New results of names that were not recorded.
LEMMA RecordResults ==
  ASSUME TypeOK, RecordedOnce, NEW d \in Device, NEW good, NEW N,
         ResultsOf(N, d, good), results' = results (+) SetToBag(N),
         \A n \in good : <<Tag(d), n>> \notin RecordedNames
  PROVE  RecordedOnce' /\ RecordedNames' = RecordedNames \cup {<<Tag(d), n>> : n \in good}
<1>1. /\ BagToSet(results') = BagToSet(results) \cup N
      /\ \A r \in N \ BagToSet(results) : results'[r] = 1
      /\ \A r \in BagToSet(results) \ N : results'[r] = results[r]
  BY BagAdd DEF TypeOK
<1>2. \A r \in BagToSet(results) : Names(r) \subseteq RecordedNames
  BY DEF RecordedNames
<1>3. \A r \in N : Names(r) # {} /\ Names(r) \cap RecordedNames = {}
  <2> TAKE r \in N
  <2>1. PICK n \in good : Names(r) = {<<Tag(d), n>>}
    BY DEF ResultsOf
  <2> HIDE DEF Names
  <2> QED BY <2>1
<1>4. N \cap BagToSet(results) = {}
  BY <1>2, <1>3
<1>5. RecordedNames' = RecordedNames \cup {<<Tag(d), n>> : n \in good}
  <2>1. RecordedNames' = UNION {Names(r) : r \in BagToSet(results')}
    BY DEF RecordedNames, Names
  <2>2. RecordedNames' = RecordedNames \cup UNION {Names(r) : r \in N}
    BY <1>1, <2>1 DEF RecordedNames
  <2> QED BY <2>2 DEF ResultsOf
<1>6. ASSUME NEW r \in BagToSet(results'), NEW s \in BagToSet(results')
      PROVE  results'[r] = 1 /\ (r # s => Names(r) \cap Names(s) = {})
  <2>1. r \in BagToSet(results) \/ r \in N
    BY <1>1
  <2>2. s \in BagToSet(results) \/ s \in N
    BY <1>1
  <2>3. results'[r] = 1
    BY <1>1, <1>4, <2>1 DEF RecordedOnce
  <2>4. CASE r \in BagToSet(results) /\ s \in BagToSet(results)
    BY <2>3, <2>4 DEF RecordedOnce
  <2>5. CASE r \in N /\ s \in N
    BY <2>3, <2>5 DEF ResultsOf
  <2>6. CASE r \in N /\ s \in BagToSet(results)
    BY <1>2, <1>3, <2>3, <2>6
  <2>7. CASE r \in BagToSet(results) /\ s \in N
    BY <1>2, <1>3, <2>3, <2>7
  <2> QED BY <2>1, <2>2, <2>4, <2>5, <2>6, <2>7
<1>7. RecordedOnce'
  BY <1>6 DEF RecordedOnce, Names
<1> QED BY <1>5, <1>7

LEMMA RunnerPlaced ==
  ASSUME TypeOK, Placed, AttemptsTyped, RecordedOnce, NEW d \in Device, RunnerStep(d)
  PROVE  Placed' /\ AttemptsTyped' /\ RecordedOnce'
<1>1. call' = call /\ CollId' = CollId
  BY DEF RunnerStep, CollId
<1>2. ASSUME attempts' = attempts, results' = results
      PROVE  AttemptsTyped' /\ RecordedOnce' /\ RecordedNames' = RecordedNames
  BY <1>1, <1>2 DEF AttemptsTyped, RecordedOnce, RecordedNames, TagOf, Name, Names
<1>3. CollOf(d) \in CollId /\ \A c \in CollId : coll[c] \in Collection(Tests)
  BY Tags DEF TypeOK
<1>4. CASE Wake(d) \/ PopNothing(d) \/ Complete(d)
  <2>1. \A c \in CollId : coll'[c].tests = coll[c].tests
    BY <1>3, <1>4, CollectionKeep DEF Wake, PopNothing, Complete, TypeOK
  <2>2. /\ phase[d] # "running" /\ phase'[d] # "running"
        /\ \A e \in Device \ {d} : phase'[e] = phase[e] /\ held'[e] = held[e]
        /\ attempts' = attempts /\ results' = results
    BY <1>4 DEF Wake, PopNothing, Complete, TypeOK
  <2>3. Running' = Running /\ Tries' = Tries
    BY <2>2 DEF Running, Tries
  <2> QED BY <1>1, <1>2, <2>1, <2>2, <2>3, KeepPlaces
<1>5. CASE PopTest(d)
  BY <1>1, <1>2, <1>5, PopPlaced DEF PopTest
<1>6. ASSUME phase[d] = "running"
      PROVE  /\ held[d] \in Tests /\ held[d].tries <= NumRetries
             /\ held[d].names \subseteq Name
             /\ \A n \in held[d].names : <<Tag(d), n>> \notin RecordedNames
  <2>1. held[d] \in Tests /\ Running[d] = held[d].names /\ Tries[d] = held[d].tries
    BY <1>6 DEF TypeOK, Executing, Running, Tries
  <2>2. /\ Exclusive(Queue(CollOf(d)), Users(CollOf(d)), Running, RecordedIn(CollOf(d)))
        /\ Counted(Queue(CollOf(d)), Users(CollOf(d)), Running, Tries, AttemptsIn(CollOf(d)))
        /\ d \in Users(CollOf(d)) /\ Tag(d) = TagOf(CollOf(d))
    BY <1>3, Tags DEF Placed, TypeOK
  <2>3. /\ Running[d] \subseteq Name /\ Running[d] \cap RecordedIn(CollOf(d)) = {}
        /\ Tries[d] <= NumRetries
    BY <2>2 DEF Exclusive, Counted
  <2> QED BY <2>1, <2>2, <2>3 DEF RecordedIn
<1>7. CASE RunTestRaises(d)
  <2>1. /\ phase[d] = "running" /\ phase'[d] # "running" /\ held' = held
        /\ \A e \in Device \ {d} : phase'[e] = phase[e]
        /\ attempts' = attempts /\ results' = results
        /\ coll' = [coll EXCEPT ![CollOf(d)] = Add(@, held[d])]
    BY <1>7 DEF RunTestRaises, TypeOK
  <2>2. held[d] \in Tests /\ held[d].tries <= NumRetries /\ held[d].tries \in Nat
    BY <1>6, <2>1 DEF Tests
  <2> DEFINE good == {}
  <2>3. RecordedNames' = RecordedNames \cup {<<Tag(d), n>> : n \in good}
    BY <1>2, <2>1
  <2>4. attempts' = [k \in DOMAIN attempts |-> IF k \in {Tag(d)} \X {}
                                                 THEN attempts[k] + 1 ELSE attempts[k]]
    BY <2>1 DEF AttemptsTyped
  <2>5. held[d].names = held[d].names \ good /\ held[d].tries = held[d].tries + 0
    BY <2>2
  <2>6. \E t \in Tests :
          /\ coll' = [coll EXCEPT ![CollOf(d)] = Add(@, t)]
          /\ t.names = held[d].names \ good
          /\ t.tries <= NumRetries
          /\ t.tries = held[d].tries + (IF {} = {} THEN 0 ELSE 1)
    BY <2>1, <2>2, <2>5
  <2>7. good \in SUBSET held[d].names
    OBVIOUS
  <2> HIDE DEF good
  <2>8. Placed'
    BY <1>1, <2>1, <2>3, <2>4, <2>6, <2>7, SettlePlaced
  <2> QED BY <1>2, <2>1, <2>8
<1>8. CASE RunTest(d)
  <2>1. PICK good \in SUBSET held[d].names, type \in [held[d].names -> RunOutcome] :
           /\ results' = results (+) SetToBag({Result(d, n, type[n]) : n \in good})
           /\ \/ coll' = coll /\ good = held[d].names
              \/ \E t \in Tests :
                   /\ coll' = [coll EXCEPT ![CollOf(d)] = Add(@, t)]
                   /\ t.names = held[d].names \ good
                   /\ t.tries = held[d].tries + 1
                   /\ t.tries <= NumRetries
    BY <1>8, RunTestEffect
  <2>2. /\ phase[d] = "running" /\ phase'[d] # "running" /\ held' = held
        /\ \A e \in Device \ {d} : phase'[e] = phase[e]
        /\ attempts' = [k \in DOMAIN attempts |->
                          IF k \in {Tag(d)} \X held[d].names
                            THEN attempts[k] + 1 ELSE attempts[k]]
    BY <1>8 DEF RunTest, TypeOK
  <2>3. RecordedOnce' /\ RecordedNames' = RecordedNames \cup {<<Tag(d), n>> : n \in good}
    <3> DEFINE N == {Result(d, n, type[n]) : n \in good}
    <3>1. ResultsOf(N, d, good) /\ results' = results (+) SetToBag(N)
      BY <2>1, NewResults
    <3>2. \A n \in good : <<Tag(d), n>> \notin RecordedNames
      BY <1>6, <2>2
    <3> HIDE DEF N
    <3> QED BY <3>1, <3>2, RecordResults
  <2>4. AttemptsTyped'
    BY <1>1, <2>2 DEF AttemptsTyped, TagOf, Name
  <2>5. held[d].names # {}
    BY <1>6, <2>2 DEF Tests
  <2>6. \/ coll' = coll /\ good = held[d].names
        \/ \E t \in Tests :
             /\ coll' = [coll EXCEPT ![CollOf(d)] = Add(@, t)]
             /\ t.names = held[d].names \ good
             /\ t.tries <= NumRetries
             /\ t.tries = held[d].tries + (IF held[d].names = {} THEN 0 ELSE 1)
    BY <2>1, <2>5
  <2>7. Placed'
    BY <1>1, <2>2, <2>3, <2>6, SettlePlaced
  <2> QED BY <2>3, <2>4, <2>7
<1> QED BY <1>4, <1>5, <1>7, <1>8 DEF RunnerStep

(* The invariant.                                                          *)

LEMMA Initially == Init => IInv
<1> SUFFICES ASSUME Init PROVE IInv
  OBVIOUS
<1> DEFINE q == [i \in 1..Len(call.tests) |-> Test(call.tests[i], 0)]
<1>1. /\ call \in Calls /\ call.tests \in Seq((SUBSET TestName) \ {{}})
      /\ Len(call.tests) \in Nat
      /\ \A i \in 1..Len(call.tests) : call.tests[i] \in (SUBSET TestName) \ {{}}
      /\ \A i, j \in 1..Len(call.tests) : i # j => call.tests[i] \cap call.tests[j] = {}
  BY CallsAssumption, ElementOfSeq, LenProperties DEF Init
<1>2. /\ q \in Seq(Tests) /\ Len(q) = Len(call.tests)
      /\ \A i \in 1..Len(q) : q[i].names = call.tests[i] /\ q[i].tries = 0
  <2>1. \A i \in 1..Len(call.tests) : Test(call.tests[i], 0) \in Tests
    BY <1>1 DEF Test, Tests
  <2>2. q \in Seq(Tests) /\ Len(q) = Len(call.tests)
    BY <1>1, <2>1, IsASeq
  <2> QED BY <1>1, <2>2 DEF Test
<1>3. \A c \in CollId : coll[c] = NewCollection(q)
  BY DEF Init
<1> HIDE DEF q
<1>4. NewCollection(q) \in Collection(Tests) /\ NewCollection(q).tests = q
  <2>1. (q # <<>>) \in BOOLEAN /\ Len(q) \in Int
    BY <1>1, <1>2
  <2> QED BY <1>2, <2>1 DEF NewCollection, Collection
<1>5. coll \in [CollId -> Collection(Tests)]
  <2>1. coll = [c \in CollId |-> NewCollection(q)]
    BY DEF Init, q
  <2> QED BY <1>4, <2>1
<1>6. RecordedNames = {} /\ IsABag(results) /\ BagToSet(results) = {}
  BY DEF Init, RecordedNames, IsABag, BagToSet, EmptyBag, SetToBag
<1>7. TypeOK
  <2>1. runners \in Seq(Device)
    BY EmptySeq DEF Init
  <2> QED BY <1>5, <1>6, <2>1 DEF Init, TypeOK, Main, Phase, Executing
<1>8. AttemptsTyped /\ RecordedOnce /\ JoinedFirst
  BY <1>6 DEF Init, AttemptsTyped, RecordedOnce, JoinedFirst
<1>9. Placed
  <2> SUFFICES ASSUME NEW c \in CollId
               PROVE  /\ Exclusive(Queue(c), Users(c), Running, RecordedIn(c))
                      /\ Covered(Queue(c), Users(c), Running, RecordedIn(c))
                      /\ Counted(Queue(c), Users(c), Running, Tries, AttemptsIn(c))
    BY DEF Placed
  <2>1. Queue(c) = q /\ RecordedIn(c) = {}
    BY <1>3, <1>4, <1>6 DEF Queue, RecordedIn
  <2>2. \A d \in Users(c) : Running[d] = {} /\ Tries[d] = 0
    BY DEF Init, Users, Running, Tries
  <2>3. \A n \in Name : AttemptsIn(c)[n] = 0
    BY DEF Init, AttemptsIn
  <2>4. Name = UNION {q[i].names : i \in 1..Len(q)}
    BY <1>2 DEF Name
  <2>5. NumRetries \in Nat
    BY ParameterAssumption
  <2>6. Exclusive(q, Users(c), Running, {})
    BY <1>1, <1>2, <2>2, <2>4 DEF Exclusive
  <2>7. Covered(q, Users(c), Running, {})
    BY <2>4 DEF Covered
  <2>8. Counted(q, Users(c), Running, Tries, AttemptsIn(c))
    BY <1>2, <2>2, <2>3, <2>4, <2>5 DEF Counted
  <2> QED BY <2>1, <2>6, <2>7, <2>8
<1> QED BY <1>7, <1>8, <1>9 DEF IInv, AttemptsTyped

\* The threads are over when the join is, unless the watchdog ended it.
LEMMA RunnerJoined ==
  ASSUME TypeOK, JoinedFirst, NEW d \in Device, RunnerStep(d)
  PROVE  JoinedFirst'
<1>1. /\ main' = main /\ teardown' = teardown /\ alive' = alive /\ timedOut' = timedOut
  BY DEF RunnerStep
<1>2. /\ phase[d] \notin {"idle", "left", "dead"}
      /\ \A e \in Device \ {d} : phase'[e] = phase[e]
  BY DEF RunnerStep, Wake, PopTest, PopNothing, RunTest, RunTestRaises, Complete, TypeOK
<1> QED BY <1>1, <1>2 DEF JoinedFirst, ThreadsOver

LEMMA OtherJoined ==
  ASSUME TypeOK, JoinedFirst, NEW d,
         \/ StartRunners \/ SetUpFails \/ Joined \/ JoinRaises \/ Report \/ RunTestsEnds
         \/ d \in Device /\ (Observe(d) \/ DeviceCall(d))
  PROVE  JoinedFirst'
<1>1. CASE Observe(d)
  BY <1>1 DEF Observe, ThreadEnded, runnerVars, JoinedFirst, ThreadsOver
<1>2. CASE StartRunners
  BY <1>2 DEF StartRunners, JoinedFirst, ThreadsOver
<1>3. CASE SetUpFails
  BY <1>3 DEF SetUpFails, runnerVars, JoinedFirst, ThreadsOver
<1>4. CASE Joined
  BY <1>4 DEF Joined, runnerVars, JoinedFirst, ThreadsOver
<1>5. CASE JoinRaises
  BY <1>5 DEF JoinRaises, TearDownStarts, runnerVars, JoinedFirst, ThreadsOver
<1>6. CASE Report
  BY <1>6 DEF Report, TearDownStarts, runnerVars, JoinedFirst, ThreadsOver
<1>7. CASE RunTestsEnds
  BY <1>7 DEF RunTestsEnds, runnerVars, JoinedFirst, ThreadsOver
<1>8. CASE SetUpSucceeds(d) \/ SetUpRaises(d)
  BY <1>8 DEF SetUpSucceeds, SetUpRaises, runnerVars, JoinedFirst, ThreadsOver
<1>9. CASE TearDownEnds(d)
  BY <1>9 DEF TearDownEnds, runnerVars, JoinedFirst, ThreadsOver
<1> QED BY <1>1, <1>2, <1>3, <1>4, <1>5, <1>6, <1>7, <1>8, <1>9 DEF DeviceCall

LEMMA Inductive == IInv /\ [Next]_vars => IInv'
<1> SUFFICES ASSUME IInv, [Next]_vars PROVE IInv'
  OBVIOUS
<1>1. /\ TypeOK /\ AttemptsTyped /\ Placed /\ RecordedOnce /\ JoinedFirst
  BY DEF IInv, AttemptsTyped
<1>2. ASSUME NEW d \in Device, RunnerStep(d)
      PROVE  IInv'
  BY <1>1, <1>2, TypeRunner, RunnerPlaced, RunnerJoined DEF IInv, AttemptsTyped
<1>3. ASSUME coll' = coll, results' = results, attempts' = attempts, call' = call,
             Running' = Running, Tries' = Tries
      PROVE  Placed' /\ AttemptsTyped' /\ RecordedOnce'
  <2>1. Placed'
    BY <1>1, <1>3, KeepPlaces
  <2>2. AttemptsTyped' /\ RecordedOnce'
    BY <1>1, <1>3 DEF AttemptsTyped, RecordedOnce, Names, TagOf, CollId, Name
  <2> QED BY <2>1, <2>2
<1>4. ASSUME MainStep \/ \E d \in Device : DeviceCall(d)
      PROVE  IInv'
  <2>1. PICK d : \/ StartRunners \/ SetUpFails \/ Joined \/ JoinRaises \/ Report \/ RunTestsEnds
                 \/ d \in Device /\ (Observe(d) \/ DeviceCall(d))
    BY <1>4 DEF MainStep
  <2>2. TypeOK' /\ coll' = coll /\ held' = held /\ results' = results
                /\ attempts' = attempts /\ call' = call
    BY <1>1, <2>1, TypeOther
  <2>3. JoinedFirst'
    BY <1>1, <2>1, OtherJoined
  <2>4. \A e \in Device : phase'[e] = "running" <=> phase[e] = "running"
    BY <1>1, <2>1 DEF Observe, StartRunners, SetUpFails, Joined, JoinRaises, Report,
         RunTestsEnds, DeviceCall, SetUpSucceeds, SetUpRaises, TearDownEnds,
         runnerVars, JoinedFirst
  <2>5. Running' = Running /\ Tries' = Tries
    BY <2>2, <2>4 DEF Running, Tries
  <2> QED BY <1>3, <2>2, <2>3, <2>5 DEF IInv, AttemptsTyped
<1>5. CASE UNCHANGED vars
  <2>1. /\ coll' = coll /\ results' = results /\ attempts' = attempts /\ call' = call
        /\ Running' = Running /\ Tries' = Tries
    BY <1>5 DEF vars, Running, Tries
  <2>2. TypeOK'
    BY <1>1, <1>5 DEF vars, TypeOK, CollId
  <2>3. JoinedFirst'
    BY <1>1, <1>5 DEF vars, JoinedFirst, ThreadsOver
  <2> QED BY <1>3, <2>1, <2>2, <2>3 DEF IInv, AttemptsTyped
<1> QED BY <1>2, <1>4, <1>5 DEF Next

\* What is proved below of the properties, from the invariant.
LEMMA NothingLost == IInv => NoTestLost
<1> SUFFICES ASSUME IInv, NEW d \in RunnerSet, NEW n \in Name
             PROVE  <<Tag(d), n>> \in QueuedNames(d) \cup RecordedNames \cup
                      UNION {HeldNames(e) : e \in {f \in Device : Tag(f) = Tag(d)}}
  BY DEF NoTestLost
<1> DEFINE c == CollOf(d)
<1>1. d \in Device
  BY ElementOfSeq DEF IInv, TypeOK, RunnerSet
<1>2. /\ c \in CollId /\ Tag(d) = TagOf(c)
      /\ \A e \in Users(c) : e \in Device /\ Tag(e) = Tag(d)
  BY <1>1, Tags DEF IInv, TypeOK, Tag
<1>3. Covered(Queue(c), Users(c), Running, RecordedIn(c))
  BY <1>2 DEF IInv, Placed
<1>4. CASE n \in RecordedIn(c)
  BY <1>2, <1>4 DEF RecordedIn
<1>5. CASE \E i \in 1..Len(Queue(c)) : n \in Queue(c)[i].names
  BY <1>5 DEF Queue, QueuedNames
<1>6. ASSUME NEW e \in Users(c), n \in Running[e]
      PROVE  <<Tag(d), n>> \in UNION {HeldNames(f) : f \in {g \in Device : Tag(g) = Tag(d)}}
  <2>1. e \in Device /\ Tag(e) = Tag(d) /\ <<Tag(e), n>> \in HeldNames(e)
    BY <1>2, <1>6 DEF Running, HeldNames
  <2> QED BY <2>1
<1> QED BY <1>3, <1>4, <1>5, <1>6 DEF Covered

LEMMA CountsBounded == IInv => RetriesBounded
<1> SUFFICES ASSUME IInv, NEW k \in DOMAIN attempts
             PROVE  attempts[k] <= NumRetries + 1
  BY DEF RetriesBounded
<1>1. PICK c \in CollId, n \in Name : k = <<TagOf(c), n>>
  BY DEF IInv
<1>2. AttemptsIn(c)[n] <= NumRetries + 1
  BY DEF IInv, Placed, Counted
<1> QED BY <1>1, <1>2 DEF AttemptsIn

(* What RunTests returns.                                                  *)

\* The bag that is returned holds what was recorded and what was not tested.
LEMMA ReportedResults ==
  BagToSet(RunResults) = BagToSet(results) \cup UNION {Untested(d) : d \in RunnerSet}
<1> DEFINE untested == UNION {Untested(d) : d \in RunnerSet}
           C == [r \in untested |-> Cardinality({d \in RunnerSet : r \in Untested(d)})]
<1>1. RunResults = results (+) C
  BY DEF RunResults
<1>2. DOMAIN C = untested
  OBVIOUS
<1> HIDE DEF C, untested
<1>3. DOMAIN (results (+) C) = DOMAIN results \cup DOMAIN C
  BY DEF (+)
<1> QED BY <1>1, <1>2, <1>3 DEF BagToSet, untested

\* When every thread is over, a name a runner answers for was recorded or is
\* left in the queue, so the report speaks of it, and passes only if it did.
LEMMA ReportIsComplete ==
  ASSUME IInv, ReportInv, Report
  PROVE  Verdict'
<1> DEFINE reported == BagToSet(RunResults)
<1>1. /\ outcome'.results = RunResults
      /\ outcome'.exit = IF DidRunPass(RunResults) THEN 0 ELSE 1
      /\ UNCHANGED <<call, runners>>
      /\ main = "report"
  BY DEF Report
<1>2. Expected' = Expected
  BY <1>1 DEF Expected, Tag, TagOf, CollOf, RunnerSet, Name
<1>3. \A d \in Device : Running[d] = {}
  BY <1>1 DEF IInv, JoinedFirst, ThreadsOver, Running
<1>4. reported = BagToSet(results) \cup UNION {Untested(d) : d \in RunnerSet}
  BY ReportedResults
<1> HIDE DEF reported
<1>5. ASSUME NEW k \in Expected
      PROVE  \/ \E r \in reported : Names(r) = {k} /\ k[2] \in r.names /\ r.tag = k[1]
             \/ \E r \in reported :
                  k[2] \in r.names /\ r.tag = "untagged" /\ r.type = "UNKNOWN"
  <2>1. PICK d \in RunnerSet, n \in Name : k = <<Tag(d), n>>
    BY DEF Expected
  <2> DEFINE c == CollOf(d)
  <2>2. d \in Device
    BY ElementOfSeq DEF IInv, TypeOK, RunnerSet
  <2>3. /\ c \in CollId /\ Tag(d) = TagOf(c)
        /\ \A e \in Users(c) : e \in Device
    BY <2>2, Tags DEF IInv, TypeOK
  <2>4. Covered(Queue(c), Users(c), Running, RecordedIn(c))
    BY <2>3 DEF IInv, Placed
  <2>5. n \in RecordedIn(c) \/ \E i \in 1..Len(Queue(c)) : n \in Queue(c)[i].names
    BY <1>3, <2>3, <2>4 DEF Covered
  <2>6. CASE n \in RecordedIn(c)
    <3>1. PICK r \in BagToSet(results) : k \in Names(r)
      BY <2>1, <2>3, <2>6 DEF RecordedIn, RecordedNames
    <3>2. PICK m \in Name : r.names = {m}
      BY DEF ReportInv
    <3>3. r.tag = Tag(d) /\ m = n
      BY <2>1, <3>1, <3>2 DEF Names
    <3>4. Names(r) = {k} /\ k[2] \in r.names /\ r.tag = k[1]
      BY <2>1, <3>2, <3>3 DEF Names
    <3> QED BY <1>4, <3>1, <3>4
  <2>7. CASE \E i \in 1..Len(Queue(c)) : n \in Queue(c)[i].names
    <3>1. PICK i \in 1..Len(Queue(c)) : n \in Queue(c)[i].names
      BY <2>7
    <3> DEFINE u == [tag |-> "untagged", names |-> Queue(c)[i].names, type |-> "UNKNOWN"]
    <3>2. u \in Untested(d)
      BY DEF Untested, Queue
    <3>3. u \in reported
      BY <1>4, <3>2
    <3> QED BY <2>1, <3>1, <3>3
  <2> QED BY <2>5, <2>6, <2>7
<1>6. \A k \in Expected : \E r \in reported : k[2] \in r.names /\ r.tag \in {k[1], "untagged"}
  BY <1>5
<1>7. ASSUME outcome'.exit = 0, NEW k \in Expected
      PROVE  \E r \in reported : Names(r) = {k} /\ r.type \in {"PASS", "SKIP"}
  <2>1. \A r \in reported : r.type \in {"PASS", "SKIP"}
    BY <1>1, <1>7 DEF DidRunPass, reported
  <2> QED BY <1>5, <2>1
<1> QED BY <1>1, <1>2, <1>6, <1>7 DEF Verdict, reported, Names

\* Nothing but Report gives a verdict, and it stays as it is.
LEMMA VerdictStays ==
  ASSUME UNCHANGED <<call, runners, outcome>>
  PROVE  Verdict' <=> Verdict
<1>1. Expected' = Expected
  BY DEF Expected, Tag, TagOf, CollOf, RunnerSet, Name
<1> QED BY <1>1 DEF Verdict, Names

LEMMA RunnerReports ==
  ASSUME IInv, ReportInv, NEW d \in Device, RunnerStep(d)
  PROVE  ReportInv'
<1>1. UNCHANGED <<call, main, setup, runners, outcome>>
  BY DEF RunnerStep
<1>2. Name' = Name
  BY <1>1 DEF Name
<1>3. \A r \in BagToSet(results') : \E n \in Name : r.names = {n}
  <2>1. CASE results' = results
    BY <2>1 DEF ReportInv
  <2>2. CASE RunTest(d)
    <3>1. PICK good \in SUBSET held[d].names, type \in [held[d].names -> RunOutcome] :
            results' = results (+) SetToBag({Result(d, n, type[n]) : n \in good})
      BY <2>2, RunTestEffect DEF IInv
    <3>2. held[d].names \subseteq Name
      <4>1. CollOf(d) \in CollId /\ d \in Users(CollOf(d))
        BY Tags DEF IInv, TypeOK
      <4> QED BY <2>2, <4>1 DEF IInv, Placed, Exclusive, Running, RunTest
    <3> DEFINE N == {Result(d, n, type[n]) : n \in good}
    <3>3. \A r \in N : \E n \in Name : r.names = {n}
      BY <3>2 DEF Result
    <3> HIDE DEF N
    <3>4. BagToSet(results') = BagToSet(results) \cup N
      BY <3>1, BagAdd DEF IInv, TypeOK, N
    <3> QED BY <3>3, <3>4 DEF ReportInv
  <2> QED BY <2>1, <2>2 DEF RunnerStep, Wake, PopTest, PopNothing, RunTestRaises, Complete
<1> QED BY <1>1, <1>2, <1>3, VerdictStays DEF ReportInv

LEMMA OtherReports ==
  ASSUME IInv, ReportInv, MainStep \/ \E d \in Device : DeviceCall(d)
  PROVE  ReportInv'
<1>1. PICK d : \/ StartRunners \/ SetUpFails \/ Joined \/ JoinRaises \/ Report \/ RunTestsEnds
               \/ d \in Device /\ (Observe(d) \/ DeviceCall(d))
  BY DEF MainStep
<1>2. results' = results /\ call' = call
  BY <1>1, TypeOther DEF IInv
<1>3. \A r \in BagToSet(results') : \E n \in Name' : r.names = {n}
  BY <1>2 DEF ReportInv, Name
<1>4. CASE Report
  BY <1>3, <1>4, ReportIsComplete DEF ReportInv, Report, TearDownStarts
<1>5. CASE SetUpFails \/ JoinRaises
  BY <1>3, <1>5 DEF ReportInv, SetUpFails, JoinRaises, TearDownStarts
<1>6. CASE StartRunners \/ Joined
  BY <1>3, <1>6 DEF ReportInv, StartRunners, Joined
<1>7. CASE RunTestsEnds \/ Observe(d) \/ TearDownEnds(d)
  <2>1. /\ UNCHANGED <<call, runners, outcome, setup>>
        /\ main' = main \/ (main = "teardown" /\ main' = "end")
    BY <1>7 DEF RunTestsEnds, Observe, TearDownEnds
  <2> QED BY <1>3, <2>1, VerdictStays DEF ReportInv
<1>8. CASE d \in Device /\ (SetUpSucceeds(d) \/ SetUpRaises(d))
  <2>1. setup[d] = "running" /\ main' = main /\ outcome' = outcome /\ d \in Device
    BY <1>8 DEF SetUpSucceeds, SetUpRaises
  <2>2. ~(\A e \in Device : setup[e] = "done")
    BY <2>1
  <2> QED BY <1>3, <2>1, <2>2 DEF ReportInv
<1> QED BY <1>1, <1>4, <1>5, <1>6, <1>7, <1>8 DEF DeviceCall

LEMMA ReportInductive == IInv /\ ReportInv /\ [Next]_vars => ReportInv'
<1> SUFFICES ASSUME IInv, ReportInv, [Next]_vars PROVE ReportInv'
  OBVIOUS
<1>1. CASE UNCHANGED vars
  BY <1>1, VerdictStays DEF vars, ReportInv, Name
<1>2. CASE Next
  BY <1>2, RunnerReports, OtherReports DEF Next
<1> QED BY <1>1, <1>2

(* A thread leaves when its collection is done.                            *)

\* The devices that run a test of a collection are finitely many, and one that
\* does is counted: its collection is not done, and nobody left it.
LEMMA BusyCounted ==
  ASSUME TypeOK, CountInv, NEW c \in CollId
  PROVE  /\ IsFiniteSet(Busy(c)) /\ Cardinality(Busy(c)) \in Nat
         /\ coll[c] \in Collection(Tests) /\ Len(Queue(c)) \in Nat
         /\ \A d \in Busy(c) : \A e \in Users(c) : phase[e] # "left"
<1>1. Busy(c) \subseteq Device
  BY DEF Busy, Users
<1>2. IsFiniteSet(Busy(c))
  BY <1>1, DeviceAssumption, FS_Subset
<1>3. Cardinality(Busy(c)) \in Nat
  BY <1>2, FS_CardinalityType
<1>4. coll[c] \in Collection(Tests)
  BY DEF TypeOK
<1>5. Queue(c) \in Seq(Tests)
  BY <1>4 DEF Collection, Queue
<1>6. Len(Queue(c)) \in Nat
  BY <1>5, LenProperties
<1>7. ASSUME NEW d \in Busy(c) PROVE Cardinality(Busy(c)) # 0
  BY <1>2, <1>7, FS_EmptySet
<1>8. coll[c].inProgress = Len(Queue(c)) + Cardinality(Busy(c))
  BY DEF CountInv
<1>9. ASSUME NEW d \in Busy(c) PROVE coll[c].inProgress # 0
  BY <1>3, <1>6, <1>7, <1>8, <1>9
<1>10. \A d \in Busy(c) : \A e \in Users(c) : phase[e] # "left"
  BY <1>9 DEF CountInv
<1> QED BY <1>2, <1>3, <1>4, <1>6, <1>10

\* What has to be shown of a step of d: its own collection.
LEMMA CountNext ==
  ASSUME TypeOK, CountInv, call' = call, NEW d \in Device, NEW b, b = CollOf(d),
         \A c \in CollId \ {b} : coll'[c] = coll[c],
         \A e \in Device \ {d} : phase'[e] = phase[e],
         coll'[b].inProgress = Len(coll'[b].tests) + Cardinality(Busy(b)'),
         (\E e \in Users(b) : phase'[e] = "left") => coll'[b].inProgress = 0
  PROVE  CountInv'
<1>1. CollId' = CollId /\ \A c : Users(c)' = Users(c)
  BY DEF CollId, Users, CollOf
<1> SUFFICES ASSUME NEW c \in CollId
             PROVE  /\ coll'[c].inProgress = Len(coll'[c].tests) + Cardinality(Busy(c)')
                    /\ (\E e \in Users(c) : phase'[e] = "left") => coll'[c].inProgress = 0
  BY <1>1 DEF CountInv, Queue
<1>2. CASE c = b
  <2>1. Busy(c)' = Busy(b)'
    BY <1>2
  <2> QED BY <1>2, <2>1
<1>3. CASE c # b
  <2>1. \A e \in Users(c) : phase'[e] = phase[e]
    BY <1>3 DEF Users
  <2>2. Busy(c)' = Busy(c)
    BY <1>1, <2>1 DEF Busy
  <2>3. coll'[c] = coll[c]
    BY <1>3
  <2> QED BY <2>1, <2>2, <2>3 DEF CountInv, Queue
<1> QED BY <1>2, <1>3

LEMMA RunnerCounts ==
  ASSUME TypeOK, CountInv, NEW d \in Device, RunnerStep(d)
  PROVE  CountInv'
<1>c. PICK c : c = CollOf(d)
  OBVIOUS
<1>t. PICK tc : tc = coll[c]
  OBVIOUS
<1>n. PICK n : n = Cardinality(Busy(c))
  OBVIOUS
<1>1. call' = call
  BY DEF RunnerStep
<1>2. c \in CollId /\ d \in Users(c) /\ \A e \in Users(c) : e \in Device
  BY <1>c, Tags DEF TypeOK
<1>3. \A x : Users(x)' = Users(x)
  BY <1>1 DEF Users, CollOf
<1>4. /\ IsFiniteSet(Busy(c)) /\ n \in Nat
      /\ tc \in Collection(Tests) /\ Len(tc.tests) \in Nat
      /\ d \in Busy(c) => \A e \in Users(c) : phase[e] # "left"
  BY <1>2, <1>t, <1>n, BusyCounted DEF Queue
<1>5. /\ tc.inProgress = Len(tc.tests) + n
      /\ (\E e \in Users(c) : phase[e] = "left") => tc.inProgress = 0
  BY <1>2, <1>t, <1>n DEF CountInv, Queue
<1>6. tc.tests \in Seq(Tests)
  BY <1>4 DEF Collection
<1>7. coll \in [CollId -> Collection(Tests)] /\ phase \in [Device -> Phase]
  BY DEF TypeOK
<1>8. d \in Busy(c) <=> phase[d] \in Executing
  BY <1>2 DEF Busy
<1>9. SUFFICES /\ \A x \in CollId \ {c} : coll'[x] = coll[x]
               /\ \A e \in Device \ {d} : phase'[e] = phase[e]
               /\ coll'[c].inProgress = Len(coll'[c].tests) + Cardinality(Busy(c)')
               /\ (\E e \in Users(c) : phase'[e] = "left") => coll'[c].inProgress = 0
  BY <1>1, <1>c, CountNext
<1>10. ASSUME \A e \in Device \ {d} : phase'[e] = phase[e]
       PROVE  Busy(c)' = IF phase'[d] \in Executing THEN Busy(c) \cup {d} ELSE Busy(c) \ {d}
  <2>1. Busy(c)' = {e \in Users(c) : phase'[e] \in Executing}
    BY <1>3 DEF Busy, Executing
  <2>2. Busy(c) = {e \in Users(c) : phase[e] \in Executing}
    BY DEF Busy
  <2>3. d \in Users(c) /\ \A e \in Users(c) \ {d} : phase'[e] = phase[e]
    BY <1>2, <1>10
  <2> QED BY <2>1, <2>2, <2>3
<1>11. CASE Wake(d)
  <2>1. /\ coll' = coll /\ phase[d] = "waiting" /\ phase'[d] = "woken"
        /\ \A e \in Device \ {d} : phase'[e] = phase[e]
    BY <1>7, <1>11 DEF Wake
  <2>2. Busy(c)' = Busy(c)
    BY <1>8, <1>10, <2>1 DEF Executing
  <2> QED BY <1>2, <1>5, <2>1, <2>2, <1>t, <1>n
<1>12. CASE PopTest(d)
  <2>1. /\ coll' = [coll EXCEPT ![c] = Popped(tc)] /\ TestAvailable(tc)
        /\ phase[d] = "woken" /\ phase'[d] = "running"
        /\ \A e \in Device \ {d} : phase'[e] = phase[e]
    BY <1>7, <1>12, <1>c, <1>t DEF PopTest
  <2>2. d \notin Busy(c) /\ Busy(c)' = Busy(c) \cup {d}
    BY <1>8, <1>10, <2>1 DEF Executing
  <2>3. Cardinality(Busy(c)') = n + 1
    BY <1>4, <2>2, FS_AddElement, <1>n
  <2>4. coll'[c] = Popped(tc) /\ \A x \in CollId \ {c} : coll'[x] = coll[x]
    BY <1>2, <1>7, <2>1
  <2>5. Popped(tc).inProgress = tc.inProgress /\ Popped(tc).tests = Tail(tc.tests)
    BY <1>4 DEF Popped, Collection
  <2>6. Len(Tail(tc.tests)) = Len(tc.tests) - 1
    BY <1>6, <2>1, TailFacts DEF TestAvailable
  <2>7. coll'[c].inProgress = Len(coll'[c].tests) + Cardinality(Busy(c)')
    <3>1. PICK k \in Nat : k = Len(tc.tests)
      BY <1>4
    <3>2. n \in Nat /\ tc.inProgress = k + n
      BY <1>4, <1>5, <3>1
    <3>3. \A i, j \in Nat : i + j = (i - 1) + (j + 1)
      OBVIOUS
    <3>4. coll'[c].inProgress = k + n /\ Len(coll'[c].tests) = k - 1
      BY <2>4, <2>5, <2>6, <3>1, <3>2
    <3> QED BY <2>3, <3>1, <3>2, <3>3, <3>4
  <2>8. (\E e \in Users(c) : phase'[e] = "left") => coll'[c].inProgress = 0
    BY <1>2, <1>5, <2>1, <2>4, <2>5
  <2> QED BY <2>1, <2>4, <2>7, <2>8
<1>13. CASE PopNothing(d)
  <2>1. /\ phase[d] = "woken"
        /\ \A e \in Device \ {d} : phase'[e] = phase[e]
        /\ \/ coll' = [coll EXCEPT ![c] = Cleared(tc)] /\ phase'[d] = "waiting"
           \/ coll' = coll /\ phase'[d] = "left" /\ AllHandled(tc)
    BY <1>7, <1>13, <1>c, <1>t DEF PopNothing
  <2>2. Busy(c)' = Busy(c)
    BY <1>8, <1>10, <2>1 DEF Executing
  <2>3. coll'[c] \in {tc, Cleared(tc)} /\ \A x \in CollId \ {c} : coll'[x] = coll[x]
    BY <1>2, <1>7, <2>1, <1>t
  <2>4. Cleared(tc).inProgress = tc.inProgress /\ Cleared(tc).tests = tc.tests
    BY <1>4 DEF Cleared, Collection
  <2>5. coll'[c].inProgress = tc.inProgress /\ coll'[c].tests = tc.tests
    BY <2>3, <2>4
  <2>6. (\E e \in Users(c) : phase'[e] = "left") => coll'[c].inProgress = 0
    BY <1>2, <1>5, <2>1, <2>5 DEF AllHandled
  <2> QED BY <1>5, <2>1, <2>2, <2>3, <2>5, <2>6, <1>n
<1>14. CASE RunTest(d) \/ RunTestRaises(d)
  <2>1. /\ phase[d] = "running" /\ phase'[d] \in {"recorded", "raising"}
        /\ \A e \in Device \ {d} : phase'[e] = phase[e]
    BY <1>7, <1>14 DEF RunTest, RunTestRaises
  <2>2. Busy(c)' = Busy(c) /\ d \in Busy(c)
    BY <1>8, <1>10, <2>1 DEF Executing
  <2>3. \A e \in Users(c) : phase'[e] # "left"
    BY <1>2, <1>4, <2>1, <2>2
  <2>4. coll' = coll \/ \E t : coll' = [coll EXCEPT ![c] = Add(tc, t)]
    BY <1>14, <1>c, <1>t DEF RunTest, RunTestRaises
  <2>5. CASE coll' = coll
    BY <1>5, <2>1, <2>2, <2>3, <2>5, <1>t, <1>n
  <2>6. ASSUME NEW t, coll' = [coll EXCEPT ![c] = Add(tc, t)]
        PROVE  /\ \A x \in CollId \ {c} : coll'[x] = coll[x]
               /\ coll'[c].inProgress = Len(coll'[c].tests) + Cardinality(Busy(c)')
    <3>1. coll'[c] = Add(tc, t) /\ \A x \in CollId \ {c} : coll'[x] = coll[x]
      BY <1>2, <1>7, <2>6
    <3>2. Len(Append(tc.tests, t)) = Len(tc.tests) + 1
      BY <1>6
    <3> QED BY <1>4, <1>5, <2>2, <3>1, <3>2, <1>n DEF Add
  <2> QED BY <2>1, <2>3, <2>4, <2>5, <2>6
<1>15. CASE Complete(d)
  <2>1. /\ coll' = [coll EXCEPT ![c] = TestCompleted(tc)]
        /\ phase[d] \in {"recorded", "raising"} /\ phase'[d] \in {"dead", "waiting"}
        /\ \A e \in Device \ {d} : phase'[e] = phase[e]
    BY <1>7, <1>15, <1>c, <1>t DEF Complete
  <2>2. Busy(c)' = Busy(c) \ {d} /\ d \in Busy(c)
    BY <1>8, <1>10, <2>1 DEF Executing
  <2>3. Cardinality(Busy(c)') = n - 1
    BY <1>4, <2>2, FS_RemoveElement, <1>n
  <2>4. coll'[c] = TestCompleted(tc) /\ \A x \in CollId \ {c} : coll'[x] = coll[x]
    BY <1>2, <1>7, <2>1
  <2>5. \A e \in Users(c) : phase'[e] # "left"
    BY <1>2, <1>4, <2>1, <2>2
  <2>6. coll'[c].inProgress = tc.inProgress - 1 /\ coll'[c].tests = tc.tests
    BY <2>4 DEF TestCompleted
  <2> QED BY <1>4, <1>5, <2>1, <2>3, <2>4, <2>5, <2>6
<1> QED BY <1>11, <1>12, <1>13, <1>14, <1>15 DEF RunnerStep

\* The other steps leave the collections alone, and no thread starts a test,
\* ends one or leaves.
LEMMA CountInductive == IInv /\ CountInv /\ [Next]_vars => CountInv'
<1> SUFFICES ASSUME IInv, CountInv, [Next]_vars PROVE CountInv'
  OBVIOUS
<1>1. TypeOK /\ JoinedFirst
  BY DEF IInv
<1>2. ASSUME NEW d \in Device, RunnerStep(d) PROVE CountInv'
  BY <1>1, <1>2, RunnerCounts
<1>3. ASSUME call' = call, coll' = coll,
             \A e \in Device : /\ phase'[e] \in Executing <=> phase[e] \in Executing
                               /\ phase'[e] = "left" <=> phase[e] = "left"
      PROVE  CountInv'
  <2>1. CollId' = CollId /\ \A c : Users(c)' = Users(c)
    BY <1>3 DEF CollId, Users, CollOf
  <2>2. \A c \in CollId : Queue(c)' = Queue(c) /\ Users(c) \subseteq Device
    BY <1>3 DEF Queue, Users
  <2>3. \A c \in CollId : Busy(c)' = Busy(c)
    BY <1>3, <2>1, <2>2 DEF Busy
  <2> QED BY <1>3, <2>1, <2>2, <2>3 DEF CountInv
<1>4. ASSUME MainStep \/ \E d \in Device : DeviceCall(d) PROVE CountInv'
  <2>1. PICK d : \/ StartRunners \/ SetUpFails \/ Joined \/ JoinRaises \/ Report \/ RunTestsEnds
                 \/ d \in Device /\ (Observe(d) \/ DeviceCall(d))
    BY <1>4 DEF MainStep
  <2>2. coll' = coll /\ call' = call
    BY <1>1, <2>1, TypeOther
  <2>3. CASE StartRunners
    <3>1. \A e \in Device : phase[e] = "idle" /\ phase'[e] \in {"idle", "waiting"}
      BY <1>1, <2>3 DEF StartRunners, JoinedFirst
    <3> QED BY <1>3, <2>2, <3>1 DEF Executing
  <2>4. CASE ~StartRunners
    <3>1. phase' = phase
      BY <2>1, <2>4 DEF Observe, SetUpFails, Joined, JoinRaises, Report,
           RunTestsEnds, DeviceCall, SetUpSucceeds, SetUpRaises, TearDownEnds, runnerVars
    <3> QED BY <1>3, <2>2, <3>1
  <2> QED BY <2>3, <2>4
<1>5. CASE UNCHANGED vars
  BY <1>3, <1>5 DEF vars
<1> QED BY <1>2, <1>4, <1>5 DEF Next

\* A device that left saw the counter at 0: no test of its collection is
\* queued or being run, so each of its names is recorded.
LEMMA LeftRecorded == IInv /\ CountInv => LeftMeansRecorded
<1> SUFFICES ASSUME IInv, CountInv, NEW d \in Device, phase[d] = "left", NEW n \in Name
             PROVE  <<Tag(d), n>> \in RecordedNames
  BY DEF LeftMeansRecorded
<1> DEFINE c == CollOf(d)
<1>1. c \in CollId /\ Tag(d) = TagOf(c) /\ d \in Users(c)
  BY Tags DEF IInv, TypeOK
<1>2. /\ IsFiniteSet(Busy(c)) /\ Cardinality(Busy(c)) \in Nat /\ Len(Queue(c)) \in Nat
  BY <1>1, BusyCounted DEF IInv
<1>3. Len(Queue(c)) + Cardinality(Busy(c)) = 0
  BY <1>1 DEF CountInv
<1>4. Len(Queue(c)) = 0 /\ Cardinality(Busy(c)) = 0
  BY <1>2, <1>3
<1>5. Busy(c) = {}
  BY <1>2, <1>4, FS_EmptySet
<1>6. \A e \in Users(c) : e \in Device /\ Running[e] = {}
  BY <1>5 DEF Busy, Executing, Running, Users
<1>7. Covered(Queue(c), Users(c), Running, RecordedIn(c))
  BY <1>1 DEF IInv, Placed
<1>8. n \in RecordedIn(c)
  BY <1>4, <1>6, <1>7 DEF Covered
<1> QED BY <1>1, <1>8 DEF RecordedIn

\* Types are preserved.
THEOREM TypeCorrect == Spec => []TypeOK
<1>1. IInv => TypeOK
  BY DEF IInv
<1> QED BY Initially, Inductive, <1>1, PTL DEF Spec

\* Whichever threads die, and in whatever order, a test name that a runner
\* answers for is queued, being run or recorded: test_dispatcher.py puts the
\* test back before it lets the exception go.
THEOREM TestsKept == Spec => []NoTestLost
BY Initially, Inductive, NothingLost, PTL DEF Spec

\* No test name gets two results, although groups are retried in part and the
\* tests of dying runners are handed on.
THEOREM RecordedAtMostOnce == Spec => []RecordedOnce
<1>1. IInv => RecordedOnce
  BY DEF IInv
<1> QED BY Initially, Inductive, <1>1, PTL DEF Spec

\* num_retries bounds the runs of a test over all devices.
THEOREM RetriesAreBounded == Spec => []RetriesBounded
BY Initially, Inductive, CountsBounded, PTL DEF Spec

\* Unless a watchdog expired, RunTests tears runners down only when no thread
\* executes tests any more.
THEOREM TearDownLast == Spec => []TearDownAfterTests
<1>1. IInv => TearDownAfterTests
  BY DEF IInv, TypeOK, Main, JoinedFirst, ThreadsOver, TearDownAfterTests
<1> QED BY Initially, Inductive, <1>1, PTL DEF Spec

\* What RunTests returns speaks of every test of every runner, and its exit
\* code is 0 only if a pass or a skip was recorded for each of them.
THEOREM NoTestUnreported == Spec => []VerdictComplete
<1>1. Init => ReportInv
  BY DEF Init, ReportInv, EmptyBag, SetToBag, BagToSet
<1>2. ReportInv => VerdictComplete
  BY DEF ReportInv, VerdictComplete, Returned, Ended
<1> QED BY Initially, Inductive, ReportInductive, <1>1, <1>2, PTL DEF Spec

\* A thread that ends without an exception leaves no test behind: when RunTests
\* finds a collection with tests left, every one of its threads died.
THEOREM LeavesWhenRecorded == Spec => []LeftMeansRecorded
<1>1. ASSUME Init PROVE CountInv
  <2> SUFFICES ASSUME NEW c \in CollId
               PROVE  /\ coll[c].inProgress = Len(Queue(c)) + Cardinality(Busy(c))
                      /\ ~\E d \in Users(c) : phase[d] = "left"
    BY DEF CountInv
  <2>1. Busy(c) = {} /\ ~\E d \in Users(c) : phase[d] = "left"
    BY <1>1 DEF Init, Busy, Users, Executing
  <2>2. Cardinality(Busy(c)) = 0
    BY <2>1, FS_EmptySet
  <2> DEFINE q == [i \in 1..Len(call.tests) |-> Test(call.tests[i], 0)]
  <2>3. coll[c] = NewCollection(q)
    BY <1>1 DEF Init
  <2>4. call.tests \in Seq((SUBSET TestName) \ {{}})
    BY <1>1, CallsAssumption DEF Init
  <2>5. Len(call.tests) \in Nat
    BY <2>4, LenProperties
  <2>6. q \in Seq({q[i] : i \in 1..Len(call.tests)}) /\ Len(q) \in Nat
    BY <2>5
  <2> HIDE DEF q
  <2>7. coll[c].inProgress = Len(Queue(c))
    BY <2>3 DEF NewCollection, Queue
  <2> QED BY <2>1, <2>2, <2>3, <2>6, <2>7 DEF NewCollection, Queue
<1> QED BY Initially, Inductive, CountInductive, LeftRecorded, <1>1, PTL DEF Spec

(* The ledger.                                                             *)

\* A runner that takes a step is one whose thread is not over: the report was
\* not returned yet.
LEMMA QuietInductive == IInv /\ QuietInv /\ [Next]_vars => QuietInv'
<1> SUFFICES ASSUME IInv, QuietInv, [Next]_vars PROVE QuietInv'
  OBVIOUS
<1>1. ASSUME NEW d \in Device, RunnerStep(d) PROVE QuietInv'
  <2>1. main' = main /\ outcome' = outcome
    BY <1>1 DEF RunnerStep
  <2>2. ~ThreadsOver
    BY <1>1 DEF RunnerStep, Wake, PopTest, PopNothing, RunTest, RunTestRaises,
       Complete, ThreadsOver
  <2> QED BY <2>1, <2>2 DEF QuietInv, Reported
<1>2. CASE Report
  BY <1>2 DEF Report, runnerVars, IInv, JoinedFirst, ThreadsOver, QuietInv
<1>3. CASE SetUpFails \/ JoinRaises
  BY <1>3 DEF SetUpFails, JoinRaises, QuietInv, Reported
<1>4. CASE StartRunners \/ Joined
  BY <1>4 DEF StartRunners, Joined, QuietInv, Reported
<1>5. ASSUME UNCHANGED <<outcome, phase>>,
             main' = main \/ (main = "teardown" /\ main' = "end")
      PROVE  QuietInv'
  BY <1>5 DEF QuietInv, Reported, ThreadsOver
<1>6. CASE UNCHANGED vars
  BY <1>5, <1>6 DEF vars
<1>7. CASE RunTestsEnds \/ \E d \in Device : Observe(d) \/ DeviceCall(d)
  BY <1>5, <1>7 DEF RunTestsEnds, Observe, DeviceCall, SetUpSucceeds, SetUpRaises,
     TearDownEnds, runnerVars
<1> QED BY <1>1, <1>2, <1>3, <1>4, <1>6, <1>7 DEF Next, MainStep

\* The keys that are settled are the names that were recorded.
LEMMA SettledKeys == {r.key : r \in KeySettled} = RecordedNames
<1>1. \A r \in BagToSet(results) : \A k \in Names(r) :
         [key |-> k, type |-> r.type] \in KeySettled
  BY DEF KeySettled
<1>2. \A s \in KeySettled : \E r \in BagToSet(results) : s.key \in Names(r)
  BY DEF KeySettled
<1>3. ASSUME NEW k PROVE k \in {r.key : r \in KeySettled} <=> k \in RecordedNames
  <2>1. ASSUME NEW s \in KeySettled, k = s.key PROVE k \in RecordedNames
    BY <1>2, <2>1 DEF RecordedNames
  <2>2. ASSUME NEW r \in BagToSet(results), k \in Names(r)
        PROVE  \E s \in KeySettled : k = s.key
    <3>1. [key |-> k, type |-> r.type] \in KeySettled
      BY <1>1, <2>2
    <3> QED BY <3>1
  <2> HIDE DEF KeySettled
  <2> QED BY <2>1, <2>2 DEF RecordedNames
<1> QED BY <1>3

\* The entries of some results, and those of one result for each name of good.
EntriesOf(N) == UNION {[key : Names(r), type : {r.type}] : r \in N}

LEMMA NewEntries ==
  ASSUME NEW d, NEW good, NEW type, NEW N,
         \A r \in N : \E n \in good : r = Result(d, n, type[n]),
         \A n \in good : Result(d, n, type[n]) \in N
  PROVE  \A e : e \in EntriesOf(N) <=>
                 \E n \in good : e = [key |-> <<Tag(d), n>>, type |-> type[n]]
<1>1. ASSUME NEW x, NEW y PROVE [key : {x}, type : {y}] = {[key |-> x, type |-> y]}
  <2>1. ASSUME NEW e \in [key : {x}, type : {y}] PROVE e = [key |-> x, type |-> y]
    BY <2>1
  <2>2. [key |-> x, type |-> y] \in [key : {x}, type : {y}]
    OBVIOUS
  <2> QED BY <2>1, <2>2
<1>2. ASSUME NEW n \in good
      PROVE  [key : Names(Result(d, n, type[n])), type : {Result(d, n, type[n]).type}]
               = {[key |-> <<Tag(d), n>>, type |-> type[n]]}
  <2>1. [key : {<<Tag(d), n>>}, type : {type[n]}] = {[key |-> <<Tag(d), n>>, type |-> type[n]]}
    BY <1>1
  <2>2. /\ Names(Result(d, n, type[n])) = {<<Tag(d), n>>}
        /\ Result(d, n, type[n]).type = type[n]
    BY DEF Names, Result
  <2> QED BY <2>1, <2>2, Zenon
<1>3. ASSUME NEW e, NEW r \in N, e \in [key : Names(r), type : {r.type}]
      PROVE  \E n \in good : e = [key |-> <<Tag(d), n>>, type |-> type[n]]
  <2>1. PICK n \in good : r = Result(d, n, type[n])
    OBVIOUS
  <2> QED BY <1>2, <1>3, <2>1
<1>4. ASSUME NEW e, NEW n \in good, e = [key |-> <<Tag(d), n>>, type |-> type[n]]
      PROVE  \E r \in N : e \in [key : Names(r), type : {r.type}]
  <2>1. e \in [key : Names(Result(d, n, type[n])), type : {Result(d, n, type[n]).type}]
    BY <1>2, <1>4
  <2> QED BY <2>1
<1> QED BY <1>3, <1>4 DEF EntriesOf

\* RunTest runs the group of names a thread holds: none of them is settled or
\* was run too often, and some of them are settled by it.
LEMMA RunTestIsRun ==
  ASSUME IInv, QuietInv, NEW d \in Device, RunTest(d),
         UNCHANGED <<call, main, outcome>>
  PROVE  Ledger!Next
<1> DEFINE group == {<<Tag(d), n>> : n \in held[d].names}
           b == CollOf(d)
<1>1. TypeOK /\ Placed /\ AttemptsTyped
  BY DEF IInv, AttemptsTyped
<1>2. /\ b \in CollId /\ Tag(d) = TagOf(b) /\ d \in Users(b)
      /\ Tag(d) \in {"untagged"} \cup Device
  BY <1>1, Tags DEF TypeOK, TagOf, CollId
<1>3. phase[d] = "running" /\ held[d] \in Tests
  BY <1>1 DEF RunTest, TypeOK, Executing
<1>4. Running[d] = held[d].names /\ Tries[d] = held[d].tries
  BY <1>3 DEF Running, Tries
<1>5. /\ held[d].names \subseteq Name /\ held[d].names \subseteq TestName
      /\ held[d].names \cap RecordedIn(b) = {}
      /\ held[d].tries <= NumRetries
      /\ \A n \in held[d].names : AttemptsIn(b)[n] <= held[d].tries
  BY <1>1, <1>2, <1>3, <1>4 DEF Placed, Exclusive, Counted, Tests
<1>6. ~Reported /\ ~Reported'
  <2>1. ~ThreadsOver
    BY <1>3 DEF ThreadsOver
  <2>2. ~Reported
    BY <2>1 DEF QuietInv
  <2> QED BY <2>2 DEF Reported
<1>7. \A k \in group : k \in Key /\ k \in DOMAIN attempts /\ attempts[k] <= NumRetries
                       /\ k \notin RecordedNames
  <2> SUFFICES ASSUME NEW n \in held[d].names
               PROVE  /\ <<Tag(d), n>> \in Key /\ <<Tag(d), n>> \in DOMAIN attempts
                      /\ attempts[<<Tag(d), n>>] <= NumRetries
                      /\ <<Tag(d), n>> \notin RecordedNames
    OBVIOUS
  <2>1. n \in Name /\ n \in TestName
    BY <1>5
  <2>2. <<Tag(d), n>> \in Key
    BY <1>2, <2>1 DEF Key
  <2>3. <<Tag(d), n>> \in DOMAIN attempts /\ attempts[<<Tag(d), n>>] \in Nat
    BY <1>1, <1>2, <2>1 DEF AttemptsTyped
  <2>4. <<Tag(d), n>> \notin RecordedNames
    BY <1>2, <1>5, <2>1 DEF RecordedIn
  <2>5. attempts[<<Tag(d), n>>] <= held[d].tries
    BY <1>2, <1>5, <2>1 DEF AttemptsIn
  <2> QED BY <1>3, <1>5, <2>2, <2>3, <2>4, <2>5, ParameterAssumption DEF Tests
<1>8. PICK good \in SUBSET held[d].names, type \in [held[d].names -> RunOutcome] :
         results' = results (+) SetToBag({Result(d, n, type[n]) : n \in good})
  BY <1>1, RunTestEffect
<1>9. KeySettled' = KeySettled \cup
         {[key |-> <<Tag(d), n>>, type |-> type[n]] : n \in good}
  <2> DEFINE N == {Result(d, n, type[n]) : n \in good}
  <2>1. EntriesOf(N) = {[key |-> <<Tag(d), n>>, type |-> type[n]] : n \in good}
    <3>1. /\ \A r \in N : \E n \in good : r = Result(d, n, type[n])
          /\ \A n \in good : Result(d, n, type[n]) \in N
      OBVIOUS
    <3> HIDE DEF N
    <3>2. \A e : e \in EntriesOf(N) <=>
                 \E n \in good : e = [key |-> <<Tag(d), n>>, type |-> type[n]]
      BY <3>1, NewEntries
    <3> QED BY <3>2
  <2>2. IsABag(results) /\ results' = results (+) SetToBag(N)
    BY <1>1, <1>8 DEF TypeOK
  <2> HIDE DEF N
  <2>3. BagToSet(results') = BagToSet(results) \cup N
    BY <2>2, BagAdd
  <2>4. KeySettled' = EntriesOf(BagToSet(results')) /\ KeySettled = EntriesOf(BagToSet(results))
    BY DEF KeySettled, EntriesOf, Names
  <2>5. EntriesOf(BagToSet(results) \cup N) = EntriesOf(BagToSet(results)) \cup EntriesOf(N)
    BY DEF EntriesOf
  <2> QED BY <2>1, <2>3, <2>4, <2>5
<1> DEFINE done == {<<Tag(d), n>> : n \in good}
           typed == [k \in done |-> type[k[2]]]
<1>10. done \in SUBSET group /\ typed \in [done -> ResultType]
  <2>1. \A k \in done : k[2] \in good /\ type[k[2]] \in ResultType
    BY <1>8, ParameterAssumption
  <2> QED BY <2>1
<1>11. {[key |-> <<Tag(d), n>>, type |-> type[n]] : n \in good}
         = {[key |-> k, type |-> typed[k]] : k \in done}
  <2>1. \A n \in good : <<Tag(d), n>> \in done /\ typed[<<Tag(d), n>>] = type[n]
    OBVIOUS
  <2>2. \A k \in done : \E n \in good : k = <<Tag(d), n>>
    OBVIOUS
  <2> HIDE DEF done, typed
  <2> QED BY <2>1, <2>2
<1>12. KeyRuns' = [k \in Key |-> IF k \in group THEN KeyRuns[k] + 1 ELSE KeyRuns[k]]
  <2>1. attempts' = [k \in DOMAIN attempts |-> IF k \in {Tag(d)} \X held[d].names
                                                 THEN attempts[k] + 1 ELSE attempts[k]]
    BY DEF RunTest
  <2>2. group = {Tag(d)} \X held[d].names
    OBVIOUS
  <2>3. Key' = Key
    BY DEF Key
  <2> HIDE DEF group
  <2>4. \A k \in Key : (IF k \in DOMAIN attempts' THEN attempts'[k] ELSE 0)
                         = IF k \in group THEN KeyRuns[k] + 1 ELSE KeyRuns[k]
    BY <1>7, <2>1, <2>2 DEF KeyRuns
  <2> QED BY <2>3, <2>4 DEF KeyRuns
<1> HIDE DEF group, done, typed
<1>13. group \in SUBSET Key
  BY <1>7
<1>14. \A k \in group : k \notin Ledger!Settled /\ KeyRuns[k] < NumRetries + 1
  <2>1. Ledger!Settled = RecordedNames
    BY SettledKeys DEF Ledger!Settled
  <2>2. \A k \in group : KeyRuns[k] \in Nat /\ KeyRuns[k] <= NumRetries
    BY <1>1, <1>7, <1>13 DEF KeyRuns, AttemptsTyped
  <2> QED BY <1>7, <2>1, <2>2, ParameterAssumption
<1>15. Ledger!Run(group)
  BY <1>6, <1>9, <1>10, <1>11, <1>12, <1>14 DEF Ledger!Run
<1> QED BY <1>13, <1>15 DEF Ledger!Next

\* Report concludes: what nobody ran is reported as UNKNOWN, and no pass.
LEMMA ReportIsConclude ==
  ASSUME IInv, Report
  PROVE  Ledger!Next
<1>1. /\ main = "report" /\ main' = "teardown" /\ outcome'.kind = "returned"
      /\ outcome'.results = RunResults /\ results' = results /\ attempts' = attempts
  BY DEF Report, TearDownStarts, runnerVars
<1>2. ~Reported /\ Reported'
  BY <1>1 DEF Reported
<1>3. KeyRuns' = KeyRuns /\ KeySettled' = KeySettled
  BY <1>1 DEF KeyRuns, Key, KeySettled, Names
<1> DEFINE passes == {s \in BagToSet(RunResults) : s.type \in {"PASS", "SKIP"}}
<1>4. passes = {s \in BagToSet(results) : s.type \in {"PASS", "SKIP"}}
  <2>1. \A d \in RunnerSet : \A u \in Untested(d) : u.type = "UNKNOWN"
    BY DEF Untested
  <2> QED BY <2>1, ReportedResults
<1>5. \A k : k \in PassingNames(BagToSet(RunResults)) <=>
               \E r \in BagToSet(results) : k \in Names(r) /\ r.type \in {"PASS", "SKIP"}
  BY <1>4 DEF PassingNames
<1>6. \A k : k \in {s.key : s \in {t \in KeySettled : t.type \in {"PASS", "SKIP"}}} <=>
               \E r \in BagToSet(results) : k \in Names(r) /\ r.type \in {"PASS", "SKIP"}
  <2>1. \A s \in KeySettled : \E r \in BagToSet(results) : s.key \in Names(r) /\ s.type = r.type
    BY DEF KeySettled
  <2>2. \A r \in BagToSet(results) : \A k \in Names(r) :
           \E s \in KeySettled : s.key = k /\ s.type = r.type
    <3> TAKE r \in BagToSet(results)
    <3> TAKE k \in Names(r)
    <3>1. [key |-> k, type |-> r.type] \in KeySettled
      BY DEF KeySettled
    <3> QED BY <3>1
  <2> HIDE DEF KeySettled
  <2> QED BY <2>1, <2>2
<1>7. PassingNames(BagToSet(RunResults)) =
        {s.key : s \in {t \in KeySettled : t.type \in {"PASS", "SKIP"}}}
  BY <1>5, <1>6
<1>8. PassingNames(BagToSet(outcome.results))' = PassingNames(BagToSet(RunResults))
  BY <1>1 DEF PassingNames, Names, BagToSet
<1>9. Ledger!Conclude
  BY <1>2, <1>3, <1>7, <1>8 DEF Ledger!Conclude
<1> QED BY <1>9 DEF Ledger!Next

\* The other steps leave the ledger alone.
LEMMA LedgerStays ==
  ASSUME attempts' = attempts, results' = results,
         \/ ~Reported /\ ~Reported'
         \/ outcome' = outcome /\ (Reported' <=> Reported)
  PROVE  UNCHANGED Ledger!vars
<1>1. KeyRuns' = KeyRuns /\ KeySettled' = KeySettled
  BY DEF KeyRuns, Key, KeySettled, Names
<1>2. outcome' = outcome =>
        PassingNames(BagToSet(outcome.results))' = PassingNames(BagToSet(outcome.results))
  BY DEF PassingNames, Names, BagToSet
<1> QED BY <1>1, <1>2 DEF Ledger!vars

\* Every step runs tests that are open, concludes, or says nothing of a test.
LEMMA StepRefines ==
  ASSUME IInv, QuietInv, [Next]_vars
  PROVE  Ledger!Next \/ UNCHANGED Ledger!vars
<1>1. ASSUME NEW d \in Device, RunnerStep(d)
      PROVE  Ledger!Next \/ UNCHANGED Ledger!vars
  <2>1. UNCHANGED <<call, main, outcome>>
    BY <1>1 DEF RunnerStep
  <2>2. CASE RunTest(d)
    BY <2>1, <2>2, RunTestIsRun
  <2>3. CASE ~RunTest(d)
    <3>1. attempts' = attempts /\ results' = results
      BY <1>1, <2>3 DEF RunnerStep, Wake, PopTest, PopNothing, RunTestRaises, Complete
    <3> QED BY <2>1, <3>1, LedgerStays DEF Reported
  <2> QED BY <2>2, <2>3
<1>2. CASE Report
  BY <1>2, ReportIsConclude
<1>3. CASE SetUpFails \/ JoinRaises \/ StartRunners \/ Joined
  <2>1. attempts' = attempts /\ results' = results /\ ~Reported /\ ~Reported'
    BY <1>3 DEF SetUpFails, JoinRaises, StartRunners, Joined, TearDownStarts,
       runnerVars, Reported
  <2> QED BY <2>1, LedgerStays
<1>4. CASE \/ RunTestsEnds \/ UNCHANGED vars
           \/ \E d \in Device : Observe(d) \/ DeviceCall(d)
  <2>1. /\ UNCHANGED <<attempts, results, outcome>>
        /\ main' = main \/ (main = "teardown" /\ main' = "end")
    BY <1>4 DEF RunTestsEnds, Observe, DeviceCall, SetUpSucceeds, SetUpRaises,
       TearDownEnds, runnerVars, vars
  <2> QED BY <2>1, LedgerStays DEF Reported
<1> QED BY <1>1, <1>2, <1>3, <1>4 DEF Next, MainStep

\* RunTests keeps the ledger of its tests: whatever order the threads of the
\* devices draw, run, hand back and retry them in, each is run only while no
\* result of it is recorded and not more than num_retries + 1 times to an end,
\* and the report passes exactly those whose recorded result is a pass.
THEOREM RunTestsKeepsTheLedger == Spec => LedgerSpec
<1>1. Init => Ledger!Init /\ QuietInv
  <2> SUFFICES ASSUME Init PROVE Ledger!Init /\ QuietInv
    OBVIOUS
  <2>1. ~Reported /\ BagToSet(results) = {}
    BY DEF Init, Reported, EmptyBag, SetToBag, BagToSet
  <2>2. \A k \in DOMAIN attempts : attempts[k] = 0
    BY DEF Init
  <2>3. KeyRuns = [k \in Key |-> 0] /\ KeySettled = {}
    BY <2>1, <2>2 DEF KeyRuns, KeySettled
  <2> QED BY <2>1, <2>3 DEF Ledger!Init, QuietInv
<1>2. IInv /\ QuietInv /\ [Next]_vars => [Ledger!Next]_(Ledger!vars)
  BY StepRefines
<1> QED BY <1>1, <1>2, Initially, Inductive, QuietInductive, PTL DEF Spec, LedgerSpec, Ledger!Spec
=============================================================================
