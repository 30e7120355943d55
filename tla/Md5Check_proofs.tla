-------------------------- MODULE Md5Check_proofs --------------------------
(***************************************************************************)
(* Proofs about Md5Check, for any inputs, outputs and strings.             *)
(***************************************************************************)
EXTENDS Md5Check, TLAPS

\* The hash of inputs, and what it is never taken for.
LEMMA HashFacts ==
  ASSUME NEW i \in Inputs0
  PROVE  /\ Hash(i) \in Hashes /\ Hash(i) \notin {Missing, Partial}
         /\ i \notin {Missing, Partial}
BY Md5Assumption DEF Hashes

\* The metadata of the present inputs.
LEMMA HashOfInputs == Hash(Inputs) = [strings |-> StringsMd5(strings), files |-> files]
BY DEF Hash, Inputs

\* Files are a function on some paths.
LEMMA FilesFacts ==
  /\ \A f \in Files : DOMAIN f \subseteq Path /\ f \in [DOMAIN f -> Content]
  /\ \A P \in SUBSET Path : [P -> Content] \subseteq Files
BY DEF Files

\* When all paths are hashed, there are inputs with these metadata.
LEMMA AllHashed ==
  ASSUME NEW s \in Strings, NEW f \in Files
  PROVE  [strings |-> StringsMd5(s), files |-> f] \in Hashes
<1> DEFINE i == [strings |-> s, files |-> f]
<1>1. i \in Inputs0
  BY DEF Inputs0
<1>2. Hash(i) = [strings |-> StringsMd5(s), files |-> f]
  BY DEF Hash
<1> QED BY <1>1, <1>2, HashFacts

LEMMA InitIInv == Init => IInv
<1> SUFFICES ASSUME Init PROVE IInv
  OBVIOUS
<1> USE Md5Assumption DEF Init
<1>1. TypeOK
  BY DEF TypeOK, Inputs, Inputs0, Comparing, Writing
<1>2. RecordHolds /\ Collected /\ Agrees /\ Rebuilt
  BY DEF RecordHolds, Collected, Agrees, Rebuilt, Comparing, Writing
<1>3. Settled /\ FreshOutputs /\ NothingTwice
  BY DEF Settled, FreshOutputs, NothingTwice
<1> QED BY <1>1, <1>2, <1>3 DEF IInv

LEMMA CallIInv ==
  ASSUME IInv, Call
  PROVE  IInv'
<1> USE Md5Assumption DEF IInv, Call, world
<1>2. TypeOK'
  BY DEF TypeOK, Comparing, Writing, Inputs, Inputs0
<1>3. RecordHolds'
  BY DEF RecordHolds
<1>4. Collected'
  <2>1. strings \in Strings
    BY DEF TypeOK, Inputs, Inputs0
  <2>2. [p \in {} |-> Missing] \in [Path \ Path -> Content]
    OBVIOUS
  <2> QED BY <2>1, <2>2 DEF Collected
<1>5. Agrees'
  BY DEF Agrees, Comparing, TypeOK, Inputs, Hash, FilesMd5
<1>6. Rebuilt'
  BY DEF Rebuilt, Writing, Comparing
<1>7. Settled'
  BY DEF Settled, Recorded, Inputs, Hash
<1>8. FreshOutputs'
  BY DEF FreshOutputs, Inputs, Hash
<1>9. NothingTwice'
  BY DEF NothingTwice
<1> QED BY <1>2, <1>3, <1>4, <1>5, <1>6, <1>7, <1>8, <1>9

LEMMA HashFileIInv ==
  ASSUME IInv, HashFile
  PROVE  IInv'
<1> USE Md5Assumption DEF IInv, HashFile, world, history, Tag
<1>2. TypeOK'
  BY DEF TypeOK, Comparing, Writing, Inputs, Inputs0
<1>3. RecordHolds'
  BY DEF RecordHolds
<1>4. Collected'
  <2>1. PICK p \in todo :
          /\ new' = [new EXCEPT !.files =
                       [q \in DOMAIN new.files \cup {p} |->
                          IF q = p THEN files[p] ELSE new.files[q]]]
          /\ todo' = todo \ {p}
    OBVIOUS
  <2>2. /\ todo \subseteq DOMAIN files /\ files \in [DOMAIN files -> Content]
        /\ new \in [strings : {StringsMd5(t) : t \in Strings},
                   files : [DOMAIN files \ todo -> Content]]
    BY FilesFacts DEF Collected, TypeOK, Inputs, Inputs0
  <2>3. DOMAIN new.files \cup {p} = DOMAIN files \ todo'
    BY <2>1, <2>2
  <2>4. [q \in DOMAIN new.files \cup {p} |-> IF q = p THEN files[p] ELSE new.files[q]]
          \in [DOMAIN files \ todo' -> Content]
    BY <2>2, <2>3
  <2> QED BY <2>1, <2>2, <2>4 DEF Collected
<1>5. Agrees'
  <2>1. PICK p \in todo :
          /\ new' = [new EXCEPT !.files =
                       [q \in DOMAIN new.files \cup {p} |->
                          IF q = p THEN files[p] ELSE new.files[q]]]
          /\ todo' = todo \ {p}
    OBVIOUS
  <2>2. /\ new \in [strings : {StringsMd5(t) : t \in Strings},
                   files : [DOMAIN files \ todo -> Content]]
        /\ todo \subseteq DOMAIN files
    BY DEF Collected
  <2>3. /\ new'.strings = new.strings
        /\ \A q \in DOMAIN files \ todo' :
             new'.files[q] = IF q = p THEN files[p] ELSE new.files[q]
    BY <2>1, <2>2
  <2> QED BY <2>1, <2>3 DEF Agrees, Comparing
<1>6. Rebuilt'
  BY DEF Rebuilt, Writing, Comparing
<1>7. Settled'
  BY DEF Settled, Recorded, Inputs, Hash
<1>8. FreshOutputs'
  BY DEF FreshOutputs, Inputs, Hash
<1>9. NothingTwice'
  BY DEF NothingTwice
<1> QED BY <1>2, <1>3, <1>4, <1>5, <1>6, <1>7, <1>8, <1>9

\* What Compare has in hand, and what it knows when nothing has changed.
LEMMA CompareKnows ==
  ASSUME IInv, pc = "hash", todo = {}
  PROVE  /\ new \in Hashes
         /\ ~edited => new = Hash(Inputs)
         /\ ~HasChanges(OldMetadata) =>
              /\ Md5(record) = Md5(new) /\ record \notin {Missing, Partial}
              /\ \A o \in Output : output[o] # Missing
<1>1. /\ new \in [strings : {StringsMd5(t) : t \in Strings}, files : [DOMAIN files -> Content]]
      /\ files \in Files
  BY DEF IInv, Collected, TypeOK, Inputs, Inputs0
<1>2. new \in Hashes
  <2>1. new.files \in Files
    BY <1>1, FilesFacts
  <2>2. PICK s \in Strings : new = [strings |-> StringsMd5(s), files |-> new.files]
    BY <1>1
  <2> QED BY <2>1, <2>2, AllHashed
<1>3. ASSUME ~edited PROVE new = Hash(Inputs)
  <2>1. new.strings = StringsMd5(strings) /\ \A p \in DOMAIN files : new.files[p] = files[p]
    BY <1>3 DEF IInv, Agrees
  <2>2. new.files = files
    BY <1>1, <2>1, FilesFacts
  <2> QED BY <1>1, <2>1, <2>2, HashOfInputs
<1>4. ASSUME ~HasChanges(OldMetadata)
      PROVE  /\ Md5(record) = Md5(new) /\ record \notin {Missing, Partial}
             /\ \A o \in Output : output[o] # Missing
  BY <1>4 DEF HasChanges, OldMetadata
<1> QED BY <1>2, <1>3, <1>4

LEMMA CompareIInv ==
  ASSUME IInv, Compare
  PROVE  IInv'
<1> USE Md5Assumption DEF IInv, Compare, world, history, Ends
<1>2. TypeOK'
  BY CompareKnows DEF TypeOK, Comparing, Writing, Inputs, Inputs0
<1>3. RecordHolds'
  BY DEF RecordHolds
<1>4. Collected'
  BY DEF Collected
<1>5. Agrees'
  BY CompareKnows, HashOfInputs DEF Agrees, Comparing, Inputs, Hash
<1>6. Rebuilt'
  BY DEF Rebuilt, Writing, Comparing
<1>7. Settled'
  BY CompareKnows DEF Settled, Recorded, Inputs, Hash
<1>8. FreshOutputs'
  <2>1. CASE HasChanges(OldMetadata)
    BY <2>1 DEF FreshOutputs
  <2>2. CASE ~HasChanges(OldMetadata)
    <3>1. broken \/ \A o \in Output :
            output[o] \notin {Missing, Partial} /\ Md5(Hash(output[o])) = Md5(new)
      BY <2>2, CompareKnows DEF RecordHolds
    <3>2. Hash(Inputs)' = Hash(Inputs)
      BY DEF Hash, Inputs
    <3>3. UNCHANGED <<output, edited, broken>>
      OBVIOUS
    <3>4. edited \/ new = Hash(Inputs)
      BY CompareKnows
    <3>5. ASSUME NEW o \in Output PROVE Hash(output[o])' = Hash(output[o])
      BY <3>3 DEF Hash
    <3> QED BY <3>1, <3>2, <3>3, <3>4, <3>5 DEF FreshOutputs
  <2> QED BY <2>1, <2>2
<1>9. NothingTwice'
  <2>1. ASSUME calm, ~force PROVE ~HasChanges(OldMetadata)
    <3>1. Recorded /\ ~edited
      BY <2>1 DEF Settled
    <3>2. Md5(record) = Md5(new) /\ record \notin {Missing, Partial}
      BY <3>1, CompareKnows DEF Recorded
    <3> QED BY <2>1, <3>1, <3>2 DEF HasChanges, OldMetadata, Recorded
  <2> QED BY <2>1 DEF NothingTwice
<1> QED BY <1>2, <1>3, <1>4, <1>5, <1>6, <1>7, <1>8, <1>9

LEMMA FunctionReadsIInv ==
  ASSUME IInv, FunctionReads
  PROVE  IInv'
<1> USE Md5Assumption DEF IInv, FunctionReads, world
<1>2. TypeOK'
  BY DEF TypeOK, Comparing, Writing, Inputs, Inputs0
<1>3. RecordHolds'
  BY DEF RecordHolds
<1>4. Collected'
  BY DEF Collected
<1>5. Agrees'
  BY DEF Agrees, Comparing, TypeOK, Inputs, Hash, FilesMd5
<1>6. Rebuilt'
  BY DEF Rebuilt, Writing, Comparing
<1>7. Settled'
  BY DEF Settled, Recorded, Inputs, Hash
<1>8. FreshOutputs'
  BY DEF FreshOutputs, Inputs, Hash
<1>9. NothingTwice'
  BY DEF NothingTwice
<1> QED BY <1>2, <1>3, <1>4, <1>5, <1>6, <1>7, <1>8, <1>9

LEMMA FunctionWritesIInv ==
  ASSUME IInv, FunctionWrites
  PROVE  IInv'
<1> USE Md5Assumption DEF IInv, FunctionWrites, world, history
<1>2. TypeOK'
  BY DEF TypeOK, Comparing, Writing, Inputs, Inputs0
<1>3. RecordHolds'
  BY DEF RecordHolds, Rebuilt, Writing, Comparing
<1>4. Collected'
  BY DEF Collected
<1>5. Agrees'
  BY DEF Agrees, Comparing, TypeOK, Inputs, Hash, FilesMd5
<1>6. Rebuilt'
  <2>1. broken /\ seen' = seen /\ broken' = broken /\ pc = "write" /\ pc' = "write"
    BY DEF Rebuilt, Writing, Comparing
  <2>2. \A o \in Output : output[o] = seen \/ o \in todo
    BY <2>1 DEF Rebuilt, Writing, Comparing
  <2>3. PICK p \in todo :
          \/ output' = [output EXCEPT ![p] = Partial] /\ todo' = todo
          \/ output' = [output EXCEPT ![p] = seen] /\ todo' = todo \ {p}
    OBVIOUS
  <2>4. output \in [Output -> {Missing, Partial} \cup Inputs0]
    BY DEF TypeOK
  <2>5. \A o \in Output : output'[o] = seen \/ o \in todo'
    BY <2>2, <2>3, <2>4
  <2> QED BY <2>1, <2>5 DEF Rebuilt
<1>7. Settled'
  BY DEF Settled, Recorded, Inputs, Hash
<1>8. FreshOutputs'
  BY DEF FreshOutputs, Inputs, Hash
<1>9. NothingTwice'
  BY DEF NothingTwice
<1> QED BY <1>2, <1>3, <1>4, <1>5, <1>6, <1>7, <1>8, <1>9

LEMMA FunctionReturnsIInv ==
  ASSUME IInv, FunctionReturns
  PROVE  IInv'
<1> USE Md5Assumption DEF IInv, FunctionReturns, world, history
<1>2. TypeOK'
  BY DEF TypeOK, Comparing, Writing, Inputs, Inputs0
<1>3. RecordHolds'
  BY DEF RecordHolds
<1>4. Collected'
  BY DEF Collected
<1>5. Agrees'
  BY DEF Agrees, Comparing, TypeOK, Inputs, Hash, FilesMd5
<1>6. Rebuilt'
  BY DEF Rebuilt, Writing, Comparing
<1>7. Settled'
  BY DEF Settled, Recorded, Inputs, Hash
<1>8. FreshOutputs'
  BY DEF FreshOutputs, Inputs, Hash
<1>9. NothingTwice'
  BY DEF NothingTwice
<1> QED BY <1>2, <1>3, <1>4, <1>5, <1>6, <1>7, <1>8, <1>9

LEMMA OpenRecordIInv ==
  ASSUME IInv, OpenRecord
  PROVE  IInv'
<1> USE Md5Assumption DEF IInv, OpenRecord, world, history
<1>2. TypeOK'
  BY DEF TypeOK, Comparing, Writing, Inputs, Inputs0
<1>3. RecordHolds'
  BY DEF RecordHolds
<1>4. Collected'
  BY DEF Collected
<1>5. Agrees'
  BY DEF Agrees, Comparing, TypeOK, Inputs, Hash, FilesMd5
<1>6. Rebuilt'
  BY DEF Rebuilt, Writing, Comparing
<1>7. Settled'
  BY DEF Settled, Recorded, Inputs, Hash
<1>8. FreshOutputs'
  BY DEF FreshOutputs, Inputs, Hash
<1>9. NothingTwice'
  BY DEF NothingTwice
<1> QED BY <1>2, <1>3, <1>4, <1>5, <1>6, <1>7, <1>8, <1>9

LEMMA WriteRecordIInv ==
  ASSUME IInv, WriteRecord
  PROVE  IInv'
<1>1. /\ record' = new /\ output' = output /\ edited' = edited
      /\ broken' = (Hash(seen) # new) /\ Inputs' = Inputs
      /\ \A o \in Output : output[o] = seen
      /\ seen \in Inputs0 /\ seen \notin {Missing, Partial}
      /\ edited \/ new = Hash(Inputs)
  BY Md5Assumption DEF IInv, TypeOK, Agrees, Rebuilt, Writing, Comparing, WriteRecord,
     world, Dumped, Ends, Inputs
<1> USE Md5Assumption DEF IInv, WriteRecord, world, Dumped, Ends
<1>2. TypeOK'
  BY DEF TypeOK, Comparing, Writing, Inputs, Inputs0
<1>3. RecordHolds'
  BY <1>1 DEF RecordHolds, Hash
<1>4. Collected'
  BY DEF Collected
<1>5. Agrees'
  BY DEF Agrees, Comparing, TypeOK, Inputs, Hash, FilesMd5
<1>6. Rebuilt'
  BY DEF Rebuilt, Writing, Comparing
<1>7. Settled'
  BY <1>1, HashFacts DEF Settled, Recorded, Hash, TypeOK, Writing
<1>8. FreshOutputs'
  <2>1. ASSUME ~edited, ~broken', NEW o \in Output
        PROVE  output'[o] = seen /\ Hash(seen) = Hash(Inputs)
    BY <1>1, <2>1
  <2>2. Hash(Inputs)' = Hash(Inputs) /\ \A o \in Output : Hash(output[o])' = Hash(output'[o])
    BY <1>1 DEF Hash
  <2> QED BY ONLY <1>1, <2>1, <2>2 DEF FreshOutputs
<1>9. NothingTwice'
  BY DEF NothingTwice
<1> QED BY <1>2, <1>3, <1>4, <1>5, <1>6, <1>7, <1>8, <1>9

LEMMA DiesIInv ==
  ASSUME IInv, Dies
  PROVE  IInv'
<1> USE Md5Assumption DEF IInv, Dies, world, history, Ends
<1>2. TypeOK'
  BY DEF TypeOK, Comparing, Writing, Inputs, Inputs0
<1>3. RecordHolds'
  BY DEF RecordHolds
<1>4. Collected'
  BY DEF Collected
<1>5. Agrees'
  BY DEF Agrees, Comparing, TypeOK, Inputs, Hash, FilesMd5
<1>6. Rebuilt'
  BY DEF Rebuilt, Writing, Comparing
<1>7. Settled'
  BY DEF Settled, Recorded, Inputs, Hash
<1>8. FreshOutputs'
  BY DEF FreshOutputs, Inputs, Hash
<1>9. NothingTwice'
  BY DEF NothingTwice
<1> QED BY <1>2, <1>3, <1>4, <1>5, <1>6, <1>7, <1>8, <1>9

LEMMA EditFileIInv ==
  ASSUME IInv, EditFile
  PROVE  IInv'
<1> USE Md5Assumption DEF IInv, EditFile, Edited
<1>2. TypeOK'
  <2>1. files' \in Files /\ strings' = strings
    BY FilesFacts DEF TypeOK, Inputs, Inputs0
  <2>2. Inputs' \in Inputs0
    BY <2>1 DEF TypeOK, Inputs, Inputs0
  <2> QED BY <2>2 DEF TypeOK
<1>3. RecordHolds'
  BY DEF RecordHolds
<1>4. Collected'
  BY DEF Collected
<1>5. Agrees'
  BY DEF Agrees, Comparing, TypeOK, Inputs, Hash, FilesMd5
<1>6. Rebuilt'
  BY DEF Rebuilt, Writing, Comparing
<1>7. Settled'
  BY DEF Settled, Recorded, Inputs, Hash
<1>8. FreshOutputs'
  BY DEF FreshOutputs, Inputs, Hash
<1>9. NothingTwice'
  BY DEF NothingTwice
<1> QED BY <1>2, <1>3, <1>4, <1>5, <1>6, <1>7, <1>8, <1>9

LEMMA EditPathsIInv ==
  ASSUME IInv, EditPaths
  PROVE  IInv'
<1> USE Md5Assumption DEF IInv, EditPaths, Edited
<1>2. TypeOK'
  <2>1. files' \in Files /\ strings' = strings
    <3>1. files \in Files
      BY DEF TypeOK, Inputs, Inputs0
    <3> QED BY <3>1, FilesFacts
  <2>2. Inputs' \in Inputs0
    BY <2>1 DEF TypeOK, Inputs, Inputs0
  <2> QED BY <2>2 DEF TypeOK
<1>3. RecordHolds'
  BY DEF RecordHolds
<1>4. Collected'
  BY DEF Collected
<1>5. Agrees'
  BY DEF Agrees, Comparing, TypeOK, Inputs, Hash, FilesMd5
<1>6. Rebuilt'
  BY DEF Rebuilt, Writing, Comparing
<1>7. Settled'
  BY DEF Settled, Recorded, Inputs, Hash
<1>8. FreshOutputs'
  BY DEF FreshOutputs, Inputs, Hash
<1>9. NothingTwice'
  BY DEF NothingTwice
<1> QED BY <1>2, <1>3, <1>4, <1>5, <1>6, <1>7, <1>8, <1>9

LEMMA EditStringsIInv ==
  ASSUME IInv, EditStrings
  PROVE  IInv'
<1> USE Md5Assumption DEF IInv, EditStrings, Edited
<1>2. TypeOK'
  BY DEF TypeOK, Comparing, Writing, Inputs, Inputs0
<1>3. RecordHolds'
  BY DEF RecordHolds
<1>4. Collected'
  BY DEF Collected
<1>5. Agrees'
  BY DEF Agrees, Comparing, TypeOK, Inputs, Hash, FilesMd5
<1>6. Rebuilt'
  BY DEF Rebuilt, Writing, Comparing
<1>7. Settled'
  BY DEF Settled, Recorded, Inputs, Hash
<1>8. FreshOutputs'
  BY DEF FreshOutputs, Inputs, Hash
<1>9. NothingTwice'
  BY DEF NothingTwice
<1> QED BY <1>2, <1>3, <1>4, <1>5, <1>6, <1>7, <1>8, <1>9

LEMMA DeleteOutputIInv ==
  ASSUME IInv, DeleteOutput
  PROVE  IInv'
<1> USE Md5Assumption DEF IInv, DeleteOutput, Edited, world
<1>2. TypeOK'
  BY DEF TypeOK, Comparing, Writing, Inputs, Inputs0
<1>3. RecordHolds'
  BY DEF RecordHolds
<1>4. Collected'
  BY DEF Collected
<1>5. Agrees'
  BY DEF Agrees, Comparing, TypeOK, Inputs, Hash, FilesMd5
<1>6. Rebuilt'
  BY DEF Rebuilt, Writing, Comparing
<1>7. Settled'
  BY DEF Settled, Recorded, Inputs, Hash
<1>8. FreshOutputs'
  BY DEF FreshOutputs, Inputs, Hash
<1>9. NothingTwice'
  BY DEF NothingTwice
<1> QED BY <1>2, <1>3, <1>4, <1>5, <1>6, <1>7, <1>8, <1>9

LEMMA StutterIInv ==
  ASSUME IInv, UNCHANGED vars
  PROVE  IInv'
<1> USE Md5Assumption DEF IInv, vars
<1>2. TypeOK'
  BY DEF TypeOK, Comparing, Writing, Inputs, Inputs0
<1>3. RecordHolds'
  BY DEF RecordHolds
<1>4. Collected'
  BY DEF Collected
<1>5. Agrees'
  BY DEF Agrees, Comparing, TypeOK, Inputs, Hash, FilesMd5
<1>6. Rebuilt'
  BY DEF Rebuilt, Writing, Comparing
<1>7. Settled'
  BY DEF Settled, Recorded, Inputs, Hash
<1>8. FreshOutputs'
  BY DEF FreshOutputs, Inputs, Hash
<1>9. NothingTwice'
  BY DEF NothingTwice
<1> QED BY <1>2, <1>3, <1>4, <1>5, <1>6, <1>7, <1>8, <1>9

(* Every step of a call, and of the world around, keeps IInv.              *)
THEOREM Inductive == Spec => []IInv
<1>1. IInv /\ [Next]_vars => IInv'
  BY CallIInv, HashFileIInv, CompareIInv, FunctionReadsIInv, FunctionWritesIInv,
     FunctionReturnsIInv, OpenRecordIInv, WriteRecordIInv, DiesIInv, EditFileIInv,
     EditPathsIInv, EditStringsIInv, DeleteOutputIInv, StutterIInv DEF Next, Step
<1> QED BY <1>1, InitIInv, PTL DEF Spec

(* The values of the variables stay in their sets.                         *)
THEOREM TypeCorrect == Spec => []TypeOK
<1>1. IInv => TypeOK
  BY DEF IInv
<1> QED BY <1>1, Inductive, PTL

(* CallAndRecordIfStale: between calls, the outputs there are were made    *)
(* from inputs with the hashes in the record.                              *)
THEOREM RecordIsTrue == Spec => []RecordTrue
<1>1. IInv => RecordTrue
  BY DEF IInv, RecordHolds, RecordTrue
<1> QED BY <1>1, Inductive, PTL

(* CallAndRecordIfStale: after a call that returned, whether it called     *)
(* function or not, the outputs are those of the present inputs.           *)
THEOREM OutputsFresh == Spec => []FreshOutputs
<1>1. IInv => FreshOutputs
  BY DEF IInv
<1> QED BY <1>1, Inductive, PTL

(* CallAndRecordIfStale: with nothing edited since a successful call,      *)
(* function is called only when forced.                                    *)
THEOREM BuildsOnce == Spec => []NothingTwice
<1>1. IInv => NothingTwice
  BY DEF IInv
<1> QED BY <1>1, Inductive, PTL

(* Changes: what function is told of the paths is what the present inputs  *)
(* and those the outputs were made from differ in.                         *)
THEOREM ChangesAreTrue == Spec => []ChangesTrue
<1>1. IInv => ChangesTrue
  <2> SUFFICES ASSUME IInv, pc = "function", ~edited, ~broken,
                      AddedOrModifiedOnly(OldMetadata), NEW o \in Output
               PROVE  LET made == output[o]
                          listed == AddedPaths(OldMetadata) \cup ModifiedPaths(OldMetadata) IN
                      /\ StringsMd5(made.strings) = StringsMd5(strings)
                      /\ DOMAIN made.files \subseteq DOMAIN files
                      /\ \A p \in DOMAIN files \ listed :
                           p \in DOMAIN made.files /\ made.files[p] = files[p]
    BY DEF ChangesTrue
  <2>1. /\ OldMetadata = record /\ record \notin {Missing, Partial}
        /\ output[o] # Missing /\ record.strings = new.strings
        /\ RemovedPaths(record) = {}
    BY DEF AddedOrModifiedOnly, OldMetadata
  <2>2. record = [strings |-> StringsMd5(output[o].strings), files |-> output[o].files]
    BY <2>1 DEF IInv, RecordHolds, Hash
  <2>3. new = [strings |-> StringsMd5(strings), files |-> files]
    BY HashOfInputs DEF IInv, Agrees, Comparing
  <2> QED BY <2>1, <2>2, <2>3 DEF RemovedPaths, AddedPaths, ModifiedPaths
<1> QED BY <1>1, Inductive, PTL
=============================================================================
