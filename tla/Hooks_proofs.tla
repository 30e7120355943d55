---------------------------- MODULE Hooks_proofs ----------------------------
(***************************************************************************)
(* Proofs about Hooks, for any revisions, build directories, arguments and *)
(* parts of an image.                                                      *)
(***************************************************************************)
EXTENDS Hooks, TLAPS

LEMMA Values ==
  /\ Missing # Empty
  /\ Missing \notin Mines /\ Empty \notin Mines
  /\ Missing \notin Args /\ Empty \notin Args
  /\ Missing \notin Ninja /\ Empty \notin Ninja
  /\ Missing \notin Dir /\ Loose \notin Dir
  /\ Missing \notin Urls /\ Empty \notin Urls
  /\ Missing # "good" /\ Missing # "other" /\ Empty # "good"
  /\ Missing \notin [args : FileOf(Args), ninja : Ninja]
  /\ Missing # "ok" /\ Missing # "died" /\ Missing # "raised" /\ Missing # "failed"
BY CheckoutAssumption, LandminesAssumption, SysrootAssumption DEF Outcome

LEMMA OfRevision ==
  ASSUME TypeOK
  PROVE  landmines \in Mines /\ url \in Urls
BY DEF TypeOK, landmines, Mines, url, Urls

LEMMA InitDirTypes == LandminesInit => DirTypes
BY DEF LandminesInit, DirTypes, FileOf

LEMMA InitIInv == HooksInit => IInv
<1> SUFFICES ASSUME HooksInit PROVE IInv
  OBVIOUS
<1>1. TypeOK
  <2>1. DirTypes
    BY InitDirTypes DEF HooksInit
  <2>2. MineTypes
    BY DEF HooksInit, LandminesInit, MineTypes, FileOf
  <2>3. tries \in 0 .. MaxTries - 1
    BY DEF HooksInit, SysrootInit, MaxTries
  <2>4. RootTypes
    BY <2>3 DEF HooksInit, SysrootInit, RootTypes, FileOf
  <2> QED BY <2>1, <2>2, <2>4 DEF HooksInit, TypeOK
<1>2. Phases /\ NoDirNoFile
  BY Values DEF HooksInit, LandminesInit, SysrootInit, Phases, NoDirNoFile, IsEmptyDir, InDir
<1>3. RecordKnows /\ ClobberPassed
  BY Values DEF HooksInit, LandminesInit, RecordKnows, ClobberPassed, InDir
<1>4. UserArgs /\ RaisesOnlyAfterCut
  BY Values DEF HooksInit, LandminesInit, UserArgs, Whole, RaisesOnlyAfterCut
<1>5. StampTrue
  BY Values DEF HooksInit, SysrootInit, StampTrue
<1> QED BY <1>1, <1>2, <1>3, <1>4, <1>5 DEF IInv

\* The hooks leave one another's part of the invariant alone.
LEMMA RootUnchanged ==
  ASSUME IInv, UNCHANGED <<revision, rootVars>>
  PROVE  RootTypes' /\ StampTrue'
BY DEF IInv, TypeOK, RootTypes, StampTrue, rootVars, sysrootFiles, FileOf, Urls, ImageOf, url

LEMMA MineUnchanged ==
  ASSUME IInv, UNCHANGED <<revision, mineVars>>
  PROVE  /\ DirTypes' /\ MineTypes' /\ NoDirNoFile'
         /\ RecordKnows' /\ ClobberPassed' /\ UserArgs' /\ RaisesOnlyAfterCut'
<1> USE DEF IInv, TypeOK, mineVars, onDisk
<1>1. DirTypes' /\ MineTypes' /\ NoDirNoFile'
  BY DEF DirTypes, MineTypes, NoDirNoFile, IsEmptyDir, FileOf, Mines
<1>2. RecordKnows' /\ ClobberPassed'
  BY DEF RecordKnows, ClobberPassed, Mines, landmines
<1>3. UserArgs' /\ RaisesOnlyAfterCut'
  BY DEF UserArgs, Whole, Restorable, RaisesOnlyAfterCut
<1> QED BY <1>1, <1>2, <1>3

LEMMA UnlinkFileIInv ==
  ASSUME IInv, UnlinkFile, UNCHANGED <<revision, rootVars>>
  PROVE  IInv'
<1>1. TypeOK /\ Phases /\ landmines' = landmines /\ Mines' = Mines
  BY DEF IInv, landmines, Mines
<1> USE DEF UnlinkFile
<1>2. DirTypes'
  BY <1>1, Values DEF TypeOK, DirTypes, MineTypes, FileOf, Phases, InDir
<1>3. MineTypes'
  BY <1>1, Values DEF TypeOK, DirTypes, MineTypes, FileOf, Phases, InDir, Outcome
<1>4. Phases'
  BY <1>1, Values DEF TypeOK, MineTypes, Phases, InDir, rootVars, sysrootFiles
<1>5. NoDirNoFile'
  BY <1>1, Values DEF IInv, TypeOK, DirTypes, MineTypes, Phases, NoDirNoFile, IsEmptyDir, InDir
<1>6. RecordKnows'
  BY <1>1, Values DEF IInv, TypeOK, DirTypes, MineTypes, RecordKnows, ClobberPassed, FileOf
<1>7. ClobberPassed'
  BY <1>1, Values DEF IInv, TypeOK, DirTypes, MineTypes, Phases, RecordKnows, ClobberPassed, InDir, IsEmptyDir
<1>8. UserArgs'
  BY <1>1, Values DEF IInv, TypeOK, DirTypes, MineTypes, Phases, UserArgs, Whole, Restorable, InDir, FileOf, IsEmptyDir
<1>9. RaisesOnlyAfterCut'
  BY <1>1, Values DEF IInv, TypeOK, DirTypes, Phases, UserArgs, Whole, RaisesOnlyAfterCut
<1> QED BY <1>1, <1>2, <1>3, <1>4, <1>5, <1>6, <1>7, <1>8, <1>9, RootUnchanged DEF IInv, TypeOK

LEMMA RemoveFileIInv ==
  ASSUME IInv, RemoveFile, UNCHANGED <<revision, rootVars>>
  PROVE  IInv'
<1>1. TypeOK /\ Phases /\ landmines' = landmines /\ Mines' = Mines
  BY DEF IInv, landmines, Mines
<1> USE DEF RemoveFile
<1>2. DirTypes'
  <2>1. exists' \in [Dir -> BOOLEAN] /\ deps' \in [Dir -> BOOLEAN]
    BY <1>1 DEF TypeOK, DirTypes
  <2>2. args' \in [Dir -> FileOf(Args)] /\ ninja' \in [Dir -> FileOf(Ninja)]
    BY <1>1 DEF TypeOK, DirTypes, FileOf
  <2>3. objs' \in [Dir -> SUBSET Mines]
    BY <1>1 DEF TypeOK, DirTypes
  <2> QED BY <1>1, <2>1, <2>2, <2>3 DEF TypeOK, DirTypes
<1>3. MineTypes'
  BY <1>1, Values DEF TypeOK, DirTypes, MineTypes, FileOf, Phases, InDir, Outcome
<1>4. Phases'
  BY <1>1, Values DEF TypeOK, MineTypes, Phases, InDir, rootVars, sysrootFiles
<1>5. NoDirNoFile'
  BY <1>1, Values DEF IInv, TypeOK, DirTypes, MineTypes, Phases, NoDirNoFile, IsEmptyDir, InDir
<1>6. RecordKnows'
  BY <1>1, Values DEF IInv, TypeOK, DirTypes, MineTypes, RecordKnows, ClobberPassed, FileOf
<1>7. ClobberPassed'
  BY <1>1, Values DEF IInv, TypeOK, DirTypes, MineTypes, Phases, RecordKnows, ClobberPassed, InDir, IsEmptyDir
<1>8. UserArgs'
  BY <1>1, Values DEF IInv, TypeOK, DirTypes, MineTypes, Phases, UserArgs, Whole, Restorable, InDir, FileOf, IsEmptyDir
<1>9. RaisesOnlyAfterCut'
  BY <1>1, Values DEF IInv, TypeOK, DirTypes, Phases, UserArgs, Whole, RaisesOnlyAfterCut
<1> QED BY <1>1, <1>2, <1>3, <1>4, <1>5, <1>6, <1>7, <1>8, <1>9, RootUnchanged DEF IInv, TypeOK

LEMMA ReadDirIInv ==
  ASSUME IInv, ReadDir, UNCHANGED <<revision, rootVars>>
  PROVE  IInv'
<1>1. TypeOK /\ Phases /\ landmines' = landmines /\ Mines' = Mines
  BY DEF IInv, landmines, Mines
<1> USE DEF ReadDir, BuildCommands, MineEnds, Ninja, onDisk
<1>2. DirTypes'
  BY <1>1, Values DEF TypeOK, DirTypes, MineTypes, FileOf, Phases, InDir
<1>3. MineTypes'
  BY <1>1, Values DEF TypeOK, DirTypes, MineTypes, FileOf, Phases, InDir, Outcome
<1>4. Phases'
  BY <1>1, Values DEF TypeOK, MineTypes, Phases, InDir, rootVars, sysrootFiles
<1>5. NoDirNoFile'
  BY <1>1, Values DEF IInv, TypeOK, DirTypes, MineTypes, Phases, NoDirNoFile, IsEmptyDir, InDir
<1>6. RecordKnows'
  BY <1>1, Values DEF IInv, TypeOK, DirTypes, MineTypes, RecordKnows, ClobberPassed, FileOf
<1>7. ClobberPassed'
  BY <1>1, Values DEF IInv, TypeOK, DirTypes, MineTypes, Phases, RecordKnows, ClobberPassed, InDir, IsEmptyDir
<1>8. PICK d \in clobbered \cap Dir :
        IF deps[d] /\ ninja[d] = Missing
          THEN MineEnds("raised")
          ELSE /\ saved' = IF deps[d]
                             THEN [args |-> args[d], ninja |-> BuildCommands(ninja[d])]
                             ELSE Missing
               /\ dir' = d /\ minePc' = "rmtree" /\ UNCHANGED mineResult
  OBVIOUS
<1>9. dir = Missing /\ d # dir /\ mineResult = Missing
  BY <1>1, Values DEF Phases, InDir
<1>10. d \in cut \/ Whole(d)
  BY <1>9 DEF IInv, UserArgs
<1>11. CASE deps[d] /\ ninja[d] = Missing
  <2>1. UserArgs' /\ d \in cut
    BY <1>8, <1>9, <1>10, <1>11, Values DEF IInv, UserArgs, Whole
  <2>2. RaisesOnlyAfterCut'
    BY <1>11, <2>1 DEF RaisesOnlyAfterCut
  <2> QED BY <1>1, <1>2, <1>3, <1>4, <1>5, <1>6, <1>7, <2>1, <2>2, RootUnchanged DEF IInv, TypeOK
<1>12. CASE ~(deps[d] /\ ninja[d] = Missing)
  <2>1. saved' # Missing \/ ~deps[d]
    BY <1>1, <1>3, <1>8, <1>12, Values DEF TypeOK, DirTypes, FileOf
  <2>2. d \in cut \/ Restorable(d)'
    BY <1>1, <1>8, <1>10, <1>12, <2>1, Values DEF TypeOK, DirTypes, Whole, Restorable
  <2>3. UserArgs'
    BY <1>8, <1>9, <1>12, <2>2, Values DEF IInv, UserArgs, Whole
  <2>4. RaisesOnlyAfterCut'
    BY <1>8, <1>9, <1>12, Values DEF RaisesOnlyAfterCut
  <2> QED BY <1>1, <1>2, <1>3, <1>4, <1>5, <1>6, <1>7, <2>3, <2>4, RootUnchanged DEF IInv, TypeOK
<1> QED BY <1>11, <1>12

LEMMA RemoveDirIInv ==
  ASSUME IInv, RemoveDir, UNCHANGED <<revision, rootVars>>
  PROVE  IInv'
<1>1. TypeOK /\ Phases /\ landmines' = landmines /\ Mines' = Mines
  BY DEF IInv, landmines, Mines
<1> USE DEF RemoveDir, IsEmptyDir
<1>2. DirTypes'
  BY <1>1, Values DEF TypeOK, DirTypes, MineTypes, FileOf, Phases, InDir
<1>3. MineTypes'
  BY <1>1, Values DEF TypeOK, DirTypes, MineTypes, FileOf, Phases, InDir, Outcome
<1>4. Phases'
  BY <1>1, Values DEF TypeOK, MineTypes, Phases, InDir, rootVars, sysrootFiles
<1>5. NoDirNoFile'
  BY <1>1, Values DEF IInv, TypeOK, DirTypes, MineTypes, Phases, NoDirNoFile, IsEmptyDir, InDir
<1>6. RecordKnows'
  BY <1>1, Values DEF IInv, TypeOK, DirTypes, MineTypes, RecordKnows, ClobberPassed, FileOf
<1>7. ClobberPassed'
  BY <1>1, Values DEF IInv, TypeOK, DirTypes, MineTypes, Phases, RecordKnows, ClobberPassed, InDir, IsEmptyDir
<1>8. UserArgs'
  BY <1>1, Values DEF IInv, TypeOK, DirTypes, MineTypes, Phases, UserArgs, Whole, Restorable, InDir, FileOf, IsEmptyDir
<1>9. RaisesOnlyAfterCut'
  BY <1>1, Values DEF IInv, TypeOK, DirTypes, Phases, UserArgs, Whole, RaisesOnlyAfterCut
<1> QED BY <1>1, <1>2, <1>3, <1>4, <1>5, <1>6, <1>7, <1>8, <1>9, RootUnchanged DEF IInv, TypeOK

LEMMA MakeDirIInv ==
  ASSUME IInv, MakeDir, UNCHANGED <<revision, rootVars>>
  PROVE  IInv'
<1>1. TypeOK /\ Phases /\ landmines' = landmines /\ Mines' = Mines
  BY DEF IInv, landmines, Mines
<1> USE DEF MakeDir, HasArgs
<1>2. DirTypes'
  BY <1>1, Values DEF TypeOK, DirTypes, MineTypes, FileOf, Phases, InDir
<1>3. MineTypes'
  BY <1>1, Values DEF TypeOK, DirTypes, MineTypes, FileOf, Phases, InDir, Outcome
<1>4. Phases'
  BY <1>1, Values DEF TypeOK, MineTypes, Phases, InDir, rootVars, sysrootFiles
<1>5. NoDirNoFile'
  BY <1>1, Values DEF IInv, TypeOK, DirTypes, MineTypes, Phases, NoDirNoFile, IsEmptyDir, InDir
<1>6. RecordKnows'
  BY <1>1, Values DEF IInv, TypeOK, DirTypes, MineTypes, RecordKnows, ClobberPassed, FileOf
<1>7. ClobberPassed'
  BY <1>1, Values DEF IInv, TypeOK, DirTypes, MineTypes, Phases, RecordKnows, ClobberPassed, InDir, IsEmptyDir
<1>8. UserArgs'
  BY <1>1, Values DEF IInv, TypeOK, DirTypes, MineTypes, Phases, UserArgs, Whole, Restorable, InDir, FileOf, IsEmptyDir
<1>9. RaisesOnlyAfterCut'
  BY <1>1, Values DEF IInv, TypeOK, DirTypes, Phases, UserArgs, Whole, RaisesOnlyAfterCut
<1> QED BY <1>1, <1>2, <1>3, <1>4, <1>5, <1>6, <1>7, <1>8, <1>9, RootUnchanged DEF IInv, TypeOK

LEMMA WriteArgsIInv ==
  ASSUME IInv, WriteArgs, UNCHANGED <<revision, rootVars>>
  PROVE  IInv'
<1>1. TypeOK /\ Phases /\ landmines' = landmines /\ Mines' = Mines
  BY DEF IInv, landmines, Mines
<1> USE DEF WriteArgs, Written
<1>2. DirTypes'
  BY <1>1, Values DEF TypeOK, DirTypes, MineTypes, FileOf, Phases, InDir
<1>3. MineTypes'
  BY <1>1, Values DEF TypeOK, DirTypes, MineTypes, FileOf, Phases, InDir, Outcome
<1>4. Phases'
  BY <1>1, Values DEF TypeOK, MineTypes, Phases, InDir, rootVars, sysrootFiles
<1>5. NoDirNoFile'
  BY <1>1, Values DEF IInv, TypeOK, DirTypes, MineTypes, Phases, NoDirNoFile, IsEmptyDir, InDir
<1>6. RecordKnows'
  BY <1>1, Values DEF IInv, TypeOK, DirTypes, MineTypes, RecordKnows, ClobberPassed, FileOf
<1>7. ClobberPassed'
  BY <1>1, Values DEF IInv, TypeOK, DirTypes, MineTypes, Phases, RecordKnows, ClobberPassed, InDir, IsEmptyDir
<1>8. UserArgs'
  BY <1>1, Values DEF IInv, TypeOK, DirTypes, MineTypes, Phases, UserArgs, Whole, Restorable, InDir, FileOf, IsEmptyDir
<1>9. RaisesOnlyAfterCut'
  BY <1>1, Values DEF IInv, TypeOK, DirTypes, Phases, UserArgs, Whole, RaisesOnlyAfterCut
<1> QED BY <1>1, <1>2, <1>3, <1>4, <1>5, <1>6, <1>7, <1>8, <1>9, RootUnchanged DEF IInv, TypeOK

LEMMA WriteNinjaIInv ==
  ASSUME IInv, WriteNinja, UNCHANGED <<revision, rootVars>>
  PROVE  IInv'
<1>1. TypeOK /\ Phases /\ landmines' = landmines /\ Mines' = Mines
  BY DEF IInv, landmines, Mines
<1> USE DEF WriteNinja, Written, Ninja
<1>2. DirTypes'
  BY <1>1, Values DEF TypeOK, DirTypes, MineTypes, FileOf, Phases, InDir
<1>3. MineTypes'
  BY <1>1, Values DEF TypeOK, DirTypes, MineTypes, FileOf, Phases, InDir, Outcome
<1>4. Phases'
  BY <1>1, Values DEF TypeOK, MineTypes, Phases, InDir, rootVars, sysrootFiles
<1>5. NoDirNoFile'
  BY <1>1, Values DEF IInv, TypeOK, DirTypes, MineTypes, Phases, NoDirNoFile, IsEmptyDir, InDir
<1>6. RecordKnows'
  BY <1>1, Values DEF IInv, TypeOK, DirTypes, MineTypes, RecordKnows, ClobberPassed, FileOf
<1>7. ClobberPassed'
  BY <1>1, Values DEF IInv, TypeOK, DirTypes, MineTypes, Phases, RecordKnows, ClobberPassed, InDir, IsEmptyDir
<1>8. UserArgs'
  BY <1>1, Values DEF IInv, TypeOK, DirTypes, MineTypes, Phases, UserArgs, Whole, Restorable, InDir, FileOf, IsEmptyDir
<1>9. RaisesOnlyAfterCut'
  BY <1>1, Values DEF IInv, TypeOK, DirTypes, Phases, UserArgs, Whole, RaisesOnlyAfterCut
<1> QED BY <1>1, <1>2, <1>3, <1>4, <1>5, <1>6, <1>7, <1>8, <1>9, RootUnchanged DEF IInv, TypeOK

LEMMA WriteDepsIInv ==
  ASSUME IInv, WriteDeps, UNCHANGED <<revision, rootVars>>
  PROVE  IInv'
<1>1. TypeOK /\ Phases /\ landmines' = landmines /\ Mines' = Mines
  BY DEF IInv, landmines, Mines
<1> USE DEF WriteDeps
<1>2. DirTypes'
  BY <1>1, Values DEF TypeOK, DirTypes, MineTypes, FileOf, Phases, InDir
<1>3. MineTypes'
  BY <1>1, Values DEF TypeOK, DirTypes, MineTypes, FileOf, Phases, InDir, Outcome
<1>4. Phases'
  BY <1>1, Values DEF TypeOK, MineTypes, Phases, InDir, rootVars, sysrootFiles
<1>5. NoDirNoFile'
  BY <1>1, Values DEF IInv, TypeOK, DirTypes, MineTypes, Phases, NoDirNoFile, IsEmptyDir, InDir
<1>6. RecordKnows'
  BY <1>1, Values DEF IInv, TypeOK, DirTypes, MineTypes, RecordKnows, ClobberPassed, FileOf
<1>7. ClobberPassed'
  BY <1>1, Values DEF IInv, TypeOK, DirTypes, MineTypes, Phases, RecordKnows, ClobberPassed, InDir, IsEmptyDir
<1>8. UserArgs'
  BY <1>1, Values DEF IInv, TypeOK, DirTypes, MineTypes, Phases, UserArgs, Whole, Restorable, InDir, FileOf, IsEmptyDir
<1>9. RaisesOnlyAfterCut'
  BY <1>1, Values DEF IInv, TypeOK, DirTypes, Phases, UserArgs, Whole, RaisesOnlyAfterCut
<1> QED BY <1>1, <1>2, <1>3, <1>4, <1>5, <1>6, <1>7, <1>8, <1>9, RootUnchanged DEF IInv, TypeOK

LEMMA ClobberedIInv ==
  ASSUME IInv, Clobbered, UNCHANGED <<revision, rootVars>>
  PROVE  IInv'
<1>1. TypeOK /\ Phases /\ landmines' = landmines /\ Mines' = Mines
  BY DEF IInv, landmines, Mines
<1> USE DEF Clobbered, onDisk
<1>2. DirTypes'
  BY <1>1, Values DEF TypeOK, DirTypes, MineTypes, FileOf, Phases, InDir
<1>3. MineTypes'
  BY <1>1, Values DEF TypeOK, DirTypes, MineTypes, FileOf, Phases, InDir, Outcome
<1>4. Phases'
  BY <1>1, Values DEF TypeOK, MineTypes, Phases, InDir, rootVars, sysrootFiles
<1>5. NoDirNoFile'
  BY <1>1, Values DEF IInv, TypeOK, DirTypes, MineTypes, Phases, NoDirNoFile, IsEmptyDir, InDir
<1>6. RecordKnows'
  BY <1>1, Values DEF IInv, TypeOK, DirTypes, MineTypes, RecordKnows, ClobberPassed, FileOf
<1>7. ClobberPassed'
  BY <1>1, Values DEF IInv, TypeOK, DirTypes, MineTypes, Phases, RecordKnows, ClobberPassed, InDir, IsEmptyDir
<1>8. UserArgs'
  BY <1>1, Values DEF IInv, TypeOK, DirTypes, MineTypes, Phases, UserArgs, Whole, Restorable, InDir, FileOf, IsEmptyDir
<1>9. RaisesOnlyAfterCut'
  BY <1>1, Values DEF IInv, TypeOK, DirTypes, Phases, UserArgs, Whole, RaisesOnlyAfterCut
<1> QED BY <1>1, <1>2, <1>3, <1>4, <1>5, <1>6, <1>7, <1>8, <1>9, RootUnchanged DEF IInv, TypeOK

LEMMA WriteRecordIInv ==
  ASSUME IInv, WriteRecord, UNCHANGED <<revision, rootVars>>
  PROVE  IInv'
<1>1. TypeOK /\ Phases /\ landmines' = landmines /\ Mines' = Mines
  BY DEF IInv, landmines, Mines
<1> USE DEF WriteRecord, Written, MineEnds
<1>2. DirTypes'
  BY <1>1, Values DEF TypeOK, DirTypes, MineTypes, FileOf, Phases, InDir
<1>3. MineTypes'
  BY <1>1, Values, OfRevision DEF TypeOK, MineTypes, FileOf, Outcome
<1>4. Phases'
  BY <1>1, Values DEF TypeOK, MineTypes, Phases, InDir, rootVars, sysrootFiles
<1>5. NoDirNoFile'
  BY <1>1, Values DEF IInv, TypeOK, DirTypes, MineTypes, Phases, NoDirNoFile, IsEmptyDir, InDir
<1>6. RecordKnows'
  BY <1>1, Values DEF IInv, TypeOK, DirTypes, MineTypes, RecordKnows, ClobberPassed, FileOf
<1>7. ClobberPassed'
  BY <1>1, Values DEF IInv, TypeOK, DirTypes, MineTypes, Phases, RecordKnows, ClobberPassed, InDir, IsEmptyDir
<1>8. UserArgs'
  BY <1>1, Values DEF IInv, TypeOK, DirTypes, MineTypes, Phases, UserArgs, Whole, Restorable, InDir, FileOf, IsEmptyDir
<1>9. RaisesOnlyAfterCut'
  BY <1>1, Values DEF IInv, TypeOK, DirTypes, Phases, UserArgs, Whole, RaisesOnlyAfterCut
<1> QED BY <1>1, <1>2, <1>3, <1>4, <1>5, <1>6, <1>7, <1>8, <1>9, RootUnchanged DEF IInv, TypeOK

LEMMA MineDiesIInv ==
  ASSUME IInv, MineDies, UNCHANGED <<revision, rootVars>>
  PROVE  IInv'
<1>1. TypeOK /\ Phases /\ landmines' = landmines /\ Mines' = Mines
  BY DEF IInv, landmines, Mines
<1> USE DEF MineDies, MineEnds, onDisk
<1>2. DirTypes'
  BY <1>1, Values DEF TypeOK, DirTypes, MineTypes, FileOf, Phases, InDir
<1>3. MineTypes'
  BY <1>1, Values DEF TypeOK, DirTypes, MineTypes, FileOf, Phases, InDir, Outcome
<1>4. Phases'
  BY <1>1, Values DEF TypeOK, MineTypes, Phases, InDir, rootVars, sysrootFiles
<1>5. NoDirNoFile'
  BY <1>1, Values DEF IInv, TypeOK, DirTypes, MineTypes, Phases, NoDirNoFile, IsEmptyDir, InDir
<1>6. RecordKnows'
  BY <1>1, Values DEF IInv, TypeOK, DirTypes, MineTypes, RecordKnows, ClobberPassed, FileOf
<1>7. ClobberPassed'
  BY <1>1, Values DEF IInv, TypeOK, DirTypes, MineTypes, Phases, RecordKnows, ClobberPassed, InDir, IsEmptyDir
<1>8. UserArgs'
  BY <1>1, Values DEF IInv, TypeOK, DirTypes, MineTypes, Phases, UserArgs, Whole, Restorable, InDir, FileOf, IsEmptyDir
<1>9. RaisesOnlyAfterCut'
  BY <1>1, Values DEF IInv, TypeOK, DirTypes, Phases, UserArgs, Whole, RaisesOnlyAfterCut
<1> QED BY <1>1, <1>2, <1>3, <1>4, <1>5, <1>6, <1>7, <1>8, <1>9, RootUnchanged DEF IInv, TypeOK

LEMMA RunHooksIInv ==
  ASSUME IInv, RunHooks
  PROVE  IInv'
<1>1. TypeOK /\ Phases /\ landmines' = landmines /\ Mines' = Mines /\ url' = url /\ Urls' = Urls
  BY DEF IInv, landmines, Mines, url, Urls, RunHooks, StartLandmines, Tripped, Idle, onDisk
<1> USE DEF RunHooks, StartLandmines, Tripped, Idle, onDisk
<1>2. DirTypes'
  BY <1>1, OfRevision, Values DEF TypeOK, DirTypes, FileOf
<1>3. MineTypes'
  BY <1>1, OfRevision, Values DEF TypeOK, DirTypes, MineTypes, FileOf, Phases, InDir, Outcome, Entries
<1>4. RootTypes' /\ StampTrue' /\ revision' \in Revision
  BY <1>1, Values DEF IInv, TypeOK, RootTypes, StampTrue, FileOf, rootVars, sysrootFiles, ImageOf, Outcome
<1>5. Phases'
  BY <1>1, Values DEF TypeOK, MineTypes, RootTypes, Phases, InDir, rootVars, sysrootFiles
<1>6. NoDirNoFile'
  BY <1>1, Values DEF IInv, TypeOK, DirTypes, MineTypes, Phases, NoDirNoFile, IsEmptyDir, InDir
<1>7. RecordKnows'
  BY <1>1, Values DEF IInv, TypeOK, DirTypes, MineTypes, RecordKnows, Phases
<1>8. ClobberPassed'
  <2>1. CASE Tripped
    <3>1. \A d \in Dir : d \notin Entries => objs[d] = {}
      BY DEF IInv, NoDirNoFile, IsEmptyDir, Entries
    <3>2. Loose \notin Entries => loose = {}
      BY DEF Entries
    <3> QED BY <2>1, <3>1, <3>2 DEF ClobberPassed, InDir
  <2>2. CASE ~Tripped
    <3>1. loose \subseteq {landmines} /\ \A d \in Dir : objs[d] \subseteq {landmines}
      BY <1>1, <2>2, OfRevision DEF IInv, RecordKnows
    <3> QED BY <1>1, <2>2, <3>1 DEF ClobberPassed, InDir
  <2> QED BY <2>1, <2>2
<1>9. UserArgs'
  BY <1>1, Values DEF IInv, TypeOK, DirTypes, MineTypes, Phases, UserArgs, Whole, InDir, Ninja
<1>10. RaisesOnlyAfterCut'
  BY <1>1, Values DEF IInv, TypeOK, DirTypes, Phases, RaisesOnlyAfterCut
<1> QED BY <1>2, <1>3, <1>4, <1>5, <1>6, <1>7, <1>8, <1>9, <1>10 DEF IInv, TypeOK

LEMMA GnGenIInv ==
  ASSUME IInv, NEW d \in Dir, NEW a \in Args, GnGen(d, a)
  PROVE  IInv'
<1>1. TypeOK /\ Phases /\ landmines' = landmines /\ Mines' = Mines /\ url' = url /\ Urls' = Urls
  BY DEF IInv, landmines, Mines, url, Urls, GnGen, Ready, Idle
<1> USE DEF GnGen, Ready, Idle
<1>2. DirTypes'
  <2>1. exists' \in [Dir -> BOOLEAN] /\ deps' \in [Dir -> BOOLEAN]
    BY <1>1 DEF TypeOK, DirTypes
  <2>2. args' \in [Dir -> FileOf(Args)] /\ wanted' \in [Dir -> Args \cup {Missing}]
    BY <1>1 DEF TypeOK, DirTypes, FileOf
  <2>3. ninja' \in [Dir -> FileOf(Ninja)]
    BY <1>1 DEF TypeOK, DirTypes, FileOf, Ninja
  <2>4. objs' \in [Dir -> SUBSET Mines]
    BY <1>1, OfRevision DEF TypeOK, DirTypes
  <2> QED BY <1>1, <2>1, <2>2, <2>3, <2>4 DEF DirTypes
<1>3. MineTypes'
  BY <1>1, OfRevision, Values DEF TypeOK, DirTypes, MineTypes, FileOf, Phases, InDir, Outcome, Entries
<1>4. RootTypes' /\ StampTrue' /\ revision' \in Revision
  BY <1>1, Values DEF IInv, TypeOK, RootTypes, StampTrue, FileOf, rootVars, sysrootFiles, ImageOf, Outcome
<1>5. Phases'
  BY <1>1, Values DEF TypeOK, MineTypes, RootTypes, Phases, InDir, rootVars, sysrootFiles
<1>6. NoDirNoFile'
  BY <1>1, Values DEF IInv, TypeOK, DirTypes, MineTypes, Phases, NoDirNoFile, IsEmptyDir, InDir
<1>7. RecordKnows'
  BY <1>1, Values DEF IInv, TypeOK, DirTypes, MineTypes, RecordKnows, Phases
<1>8. ClobberPassed'
  BY <1>1, Values DEF IInv, TypeOK, DirTypes, MineTypes, Phases, RecordKnows, ClobberPassed, InDir, IsEmptyDir, Entries, Loose, NoDirNoFile
<1>9. UserArgs'
  BY <1>1, Values DEF IInv, TypeOK, DirTypes, MineTypes, Phases, UserArgs, Whole, InDir, Ninja
<1>10. RaisesOnlyAfterCut'
  BY <1>1, Values DEF IInv, TypeOK, DirTypes, Phases, RaisesOnlyAfterCut
<1> QED BY <1>2, <1>3, <1>4, <1>5, <1>6, <1>7, <1>8, <1>9, <1>10 DEF IInv, TypeOK

LEMMA BuildIInv ==
  ASSUME IInv, NEW d \in Dir, Build(d)
  PROVE  IInv'
<1>1. TypeOK /\ Phases /\ landmines' = landmines /\ Mines' = Mines /\ url' = url /\ Urls' = Urls
  BY DEF IInv, landmines, Mines, url, Urls, Build, Ready, Idle
<1> USE DEF Build, Ready, Idle
<1>2. DirTypes'
  <2>1. exists' \in [Dir -> BOOLEAN] /\ deps' \in [Dir -> BOOLEAN]
    BY <1>1 DEF TypeOK, DirTypes
  <2>2. args' \in [Dir -> FileOf(Args)] /\ wanted' \in [Dir -> Args \cup {Missing}]
    BY <1>1 DEF TypeOK, DirTypes, FileOf
  <2>3. ninja' \in [Dir -> FileOf(Ninja)]
    BY <1>1 DEF TypeOK, DirTypes, FileOf, Ninja
  <2>4. objs' \in [Dir -> SUBSET Mines]
    BY <1>1, OfRevision DEF TypeOK, DirTypes
  <2> QED BY <1>1, <2>1, <2>2, <2>3, <2>4 DEF DirTypes
<1>3. MineTypes'
  BY <1>1, OfRevision, Values DEF TypeOK, DirTypes, MineTypes, FileOf, Phases, InDir, Outcome, Entries
<1>4. RootTypes' /\ StampTrue' /\ revision' \in Revision
  BY <1>1, Values DEF IInv, TypeOK, RootTypes, StampTrue, FileOf, rootVars, sysrootFiles, ImageOf, Outcome
<1>5. Phases'
  BY <1>1, Values DEF TypeOK, MineTypes, RootTypes, Phases, InDir, rootVars, sysrootFiles
<1>6. NoDirNoFile'
  BY <1>1, Values DEF IInv, TypeOK, DirTypes, MineTypes, Phases, NoDirNoFile, IsEmptyDir, InDir
<1>7. RecordKnows'
  <2>1. record = landmines /\ landmines \in Mines /\ record # Missing
    BY <1>1, OfRevision, Values DEF Phases
  <2> QED BY <1>1, <2>1 DEF IInv, TypeOK, DirTypes, RecordKnows
<1>8. ClobberPassed'
  BY <1>1, Values DEF IInv, TypeOK, DirTypes, MineTypes, Phases, RecordKnows, ClobberPassed, InDir, IsEmptyDir, Entries, Loose, NoDirNoFile
<1>9. UserArgs'
  BY <1>1, Values DEF IInv, TypeOK, DirTypes, MineTypes, Phases, UserArgs, Whole, InDir, Ninja
<1>10. RaisesOnlyAfterCut'
  BY <1>1, Values DEF IInv, TypeOK, DirTypes, Phases, RaisesOnlyAfterCut
<1> QED BY <1>2, <1>3, <1>4, <1>5, <1>6, <1>7, <1>8, <1>9, <1>10 DEF IInv, TypeOK

LEMMA SyncIInv ==
  ASSUME IInv, Sync
  PROVE  IInv'
<1> USE DEF IInv, TypeOK, Sync, Idle, onDisk, sysrootFiles
<1>1. DirTypes' /\ MineTypes' /\ NoDirNoFile'
  BY DEF DirTypes, MineTypes, NoDirNoFile, IsEmptyDir, FileOf, Mines, Outcome
<1>2. RootTypes' /\ StampTrue'
  BY Values DEF RootTypes, StampTrue, FileOf, Urls, ImageOf, Outcome
<1>3. Phases'
  BY Values DEF Phases, InDir
<1>4. RecordKnows' /\ ClobberPassed'
  BY DEF RecordKnows, ClobberPassed, Mines, InDir
<1>5. UserArgs' /\ RaisesOnlyAfterCut'
  BY Values DEF UserArgs, Whole, Restorable, RaisesOnlyAfterCut
<1> QED BY <1>1, <1>2, <1>3, <1>4, <1>5

LEMMA StartSysrootIInv ==
  ASSUME IInv, Idle, mineResult = "ok", rootResult = Missing, StartSysroot, UNCHANGED <<revision, mineVars>>
  PROVE  IInv'
<1>1. TypeOK /\ Phases /\ url \in Urls /\ url' = url /\ Urls' = Urls
  BY OfRevision DEF IInv, url, Urls
<1> USE DEF StartSysroot, UpToDate, RootEnds, sysrootFiles
<1>2. RootTypes'
  BY <1>1, Values DEF TypeOK, RootTypes, FileOf, Outcome, MaxTries
<1>3. StampTrue'
  BY <1>1, Values DEF IInv, TypeOK, RootTypes, Phases, StampTrue, FileOf, ImageOf
<1>4. Phases'
  BY <1>1, Values DEF TypeOK, RootTypes, Phases, Idle, mineVars, onDisk, landmines
<1> QED BY <1>1, <1>2, <1>3, <1>4, MineUnchanged DEF IInv, TypeOK

LEMMA RemoveInstalledIInv ==
  ASSUME IInv, RemoveInstalled, UNCHANGED <<revision, mineVars>>
  PROVE  IInv'
<1>1. TypeOK /\ Phases /\ url \in Urls /\ url' = url /\ Urls' = Urls
  BY OfRevision DEF IInv, url, Urls
<1> USE DEF RemoveInstalled, sysrootFiles
<1>2. RootTypes'
  BY <1>1, Values DEF TypeOK, RootTypes, FileOf, Outcome, MaxTries
<1>3. StampTrue'
  BY <1>1, Values DEF IInv, TypeOK, RootTypes, Phases, StampTrue, FileOf, ImageOf
<1>4. Phases'
  BY <1>1, Values DEF TypeOK, RootTypes, Phases, Idle, mineVars, onDisk, landmines
<1> QED BY <1>1, <1>2, <1>3, <1>4, MineUnchanged DEF IInv, TypeOK

LEMMA MakeSysrootDirIInv ==
  ASSUME IInv, MakeSysrootDir, UNCHANGED <<revision, mineVars>>
  PROVE  IInv'
<1>1. TypeOK /\ Phases /\ url \in Urls /\ url' = url /\ Urls' = Urls
  BY OfRevision DEF IInv, url, Urls
<1> USE DEF MakeSysrootDir, sysrootFiles
<1>2. RootTypes'
  BY <1>1, Values DEF TypeOK, RootTypes, FileOf, Outcome, MaxTries
<1>3. StampTrue'
  BY <1>1, Values DEF IInv, TypeOK, RootTypes, Phases, StampTrue, FileOf, ImageOf
<1>4. Phases'
  BY <1>1, Values DEF TypeOK, RootTypes, Phases, Idle, mineVars, onDisk, landmines
<1> QED BY <1>1, <1>2, <1>3, <1>4, MineUnchanged DEF IInv, TypeOK

LEMMA DownloadIInv ==
  ASSUME IInv, Download, UNCHANGED <<revision, mineVars>>
  PROVE  IInv'
<1>1. TypeOK /\ Phases /\ url \in Urls /\ url' = url /\ Urls' = Urls
  BY OfRevision DEF IInv, url, Urls
<1> USE DEF Download, sysrootFiles
<1>2. RootTypes'
  BY <1>1, Values DEF TypeOK, RootTypes, FileOf, Outcome, MaxTries
<1>3. StampTrue'
  BY <1>1, Values DEF IInv, TypeOK, RootTypes, Phases, StampTrue, FileOf, ImageOf
<1>4. Phases'
  BY <1>1, Values DEF TypeOK, RootTypes, Phases, Idle, mineVars, onDisk, landmines
<1> QED BY <1>1, <1>2, <1>3, <1>4, MineUnchanged DEF IInv, TypeOK

LEMMA DownloadRaisesIInv ==
  ASSUME IInv, DownloadRaises, UNCHANGED <<revision, mineVars>>
  PROVE  IInv'
<1>1. TypeOK /\ Phases /\ url \in Urls /\ url' = url /\ Urls' = Urls
  BY OfRevision DEF IInv, url, Urls
<1> USE DEF DownloadRaises, RootEnds, MaxTries, sysrootFiles
<1>2. RootTypes'
  BY <1>1, Values DEF TypeOK, RootTypes, FileOf, Outcome
<1>3. StampTrue'
  BY <1>1, Values DEF IInv, TypeOK, RootTypes, Phases, StampTrue, FileOf, ImageOf
<1>4. Phases'
  BY <1>1, Values DEF TypeOK, RootTypes, Phases, Idle, mineVars, onDisk, landmines
<1> QED BY <1>1, <1>2, <1>3, <1>4, MineUnchanged DEF IInv, TypeOK

LEMMA VerifyIInv ==
  ASSUME IInv, Verify, UNCHANGED <<revision, mineVars>>
  PROVE  IInv'
<1>1. TypeOK /\ Phases /\ url \in Urls /\ url' = url /\ Urls' = Urls
  BY OfRevision DEF IInv, url, Urls
<1> USE DEF Verify, RootEnds, sysrootFiles
<1>2. RootTypes'
  BY <1>1, Values DEF TypeOK, RootTypes, FileOf, Outcome, MaxTries
<1>3. StampTrue'
  BY <1>1, Values DEF IInv, TypeOK, RootTypes, Phases, StampTrue, FileOf, ImageOf
<1>4. Phases'
  BY <1>1, Values DEF TypeOK, RootTypes, Phases, Idle, mineVars, onDisk, landmines
<1> QED BY <1>1, <1>2, <1>3, <1>4, MineUnchanged DEF IInv, TypeOK

LEMMA ExtractIInv ==
  ASSUME IInv, Extract, UNCHANGED <<revision, mineVars>>
  PROVE  IInv'
<1>1. TypeOK /\ Phases /\ url \in Urls /\ url' = url /\ Urls' = Urls
  BY OfRevision DEF IInv, url, Urls
<1> USE DEF Extract, sysrootFiles
<1>2. RootTypes'
  BY <1>1, Values DEF TypeOK, RootTypes, FileOf, Outcome, MaxTries
<1>3. StampTrue'
  BY <1>1, Values DEF IInv, TypeOK, RootTypes, Phases, StampTrue, FileOf, ImageOf
<1>4. Phases'
  BY <1>1, Values DEF TypeOK, RootTypes, Phases, Idle, mineVars, onDisk, landmines
<1> QED BY <1>1, <1>2, <1>3, <1>4, MineUnchanged DEF IInv, TypeOK

LEMMA ExtractedIInv ==
  ASSUME IInv, Extracted, UNCHANGED <<revision, mineVars>>
  PROVE  IInv'
<1>1. TypeOK /\ Phases /\ url \in Urls /\ url' = url /\ Urls' = Urls
  BY OfRevision DEF IInv, url, Urls
<1> USE DEF Extracted, sysrootFiles
<1>2. RootTypes'
  BY <1>1, Values DEF TypeOK, RootTypes, FileOf, Outcome, MaxTries
<1>3. StampTrue'
  BY <1>1, Values DEF IInv, TypeOK, RootTypes, Phases, StampTrue, FileOf, ImageOf
<1>4. Phases'
  BY <1>1, Values DEF TypeOK, RootTypes, Phases, Idle, mineVars, onDisk, landmines
<1> QED BY <1>1, <1>2, <1>3, <1>4, MineUnchanged DEF IInv, TypeOK

LEMMA WriteStampIInv ==
  ASSUME IInv, WriteStamp, UNCHANGED <<revision, mineVars>>
  PROVE  IInv'
<1>1. TypeOK /\ Phases /\ url \in Urls /\ url' = url /\ Urls' = Urls
  BY OfRevision DEF IInv, url, Urls
<1> USE DEF WriteStamp, Written, RootEnds, sysrootFiles
<1>2. RootTypes'
  BY <1>1, Values DEF TypeOK, RootTypes, FileOf, Outcome, MaxTries
<1>3. StampTrue'
  BY <1>1, Values DEF IInv, TypeOK, RootTypes, Phases, StampTrue, FileOf, ImageOf
<1>4. Phases'
  BY <1>1, Values DEF TypeOK, RootTypes, Phases, Idle, mineVars, onDisk, landmines
<1> QED BY <1>1, <1>2, <1>3, <1>4, MineUnchanged DEF IInv, TypeOK

LEMMA RootDiesIInv ==
  ASSUME IInv, RootDies, UNCHANGED <<revision, mineVars>>
  PROVE  IInv'
<1>1. TypeOK /\ Phases /\ url \in Urls /\ url' = url /\ Urls' = Urls
  BY OfRevision DEF IInv, url, Urls
<1> USE DEF RootDies, RootEnds, sysrootFiles
<1>2. RootTypes'
  BY <1>1, Values DEF TypeOK, RootTypes, FileOf, Outcome, MaxTries
<1>3. StampTrue'
  BY <1>1, Values DEF IInv, TypeOK, RootTypes, Phases, StampTrue, FileOf, ImageOf
<1>4. Phases'
  BY <1>1, Values DEF TypeOK, RootTypes, Phases, Idle, mineVars, onDisk, landmines
<1> QED BY <1>1, <1>2, <1>3, <1>4, MineUnchanged DEF IInv, TypeOK

(* Every step of the hooks, and of the world around, keeps IInv.           *)
THEOREM Inductive == Spec => []IInv
<1>1. IInv /\ [Next]_vars => IInv'
  <2> SUFFICES ASSUME IInv, [Next]_vars PROVE IInv'
    OBVIOUS
  <2>1. CASE Sync
    BY <2>1, SyncIInv
  <2>2. CASE RunHooks
    BY <2>2, RunHooksIInv
  <2>3. CASE NextHook
    BY <2>3, StartSysrootIInv DEF NextHook
  <2>4. ASSUME NEW d \in Dir, Build(d) PROVE IInv'
    BY <2>4, BuildIInv
  <2>5. ASSUME NEW d \in Dir, NEW a \in Args, GnGen(d, a) PROVE IInv'
    BY <2>5, GnGenIInv
  <2>6. CASE LandminesRun
    BY <2>6, UnlinkFileIInv, RemoveFileIInv, ReadDirIInv, RemoveDirIInv, MakeDirIInv,
       WriteArgsIInv, WriteNinjaIInv, WriteDepsIInv, ClobberedIInv, WriteRecordIInv,
       MineDiesIInv DEF LandminesRun, LandminesStep
  <2>7. CASE SysrootRun
    BY <2>7, RemoveInstalledIInv, MakeSysrootDirIInv, DownloadIInv, DownloadRaisesIInv,
       VerifyIInv, ExtractIInv, ExtractedIInv, WriteStampIInv, RootDiesIInv
       DEF SysrootRun, SysrootStep
  <2>8. CASE UNCHANGED vars
    <3>1. UNCHANGED <<revision, mineVars, rootVars>>
      BY <2>8 DEF vars
    <3>2. Phases'
      BY <3>1 DEF IInv, Phases, mineVars, rootVars, onDisk, sysrootFiles, landmines
    <3> QED BY <3>1, <3>2, MineUnchanged, RootUnchanged DEF IInv, TypeOK
  <2> QED BY <2>1, <2>2, <2>3, <2>4, <2>5, <2>6, <2>7, <2>8 DEF Next
<1> QED BY <1>1, InitIInv, PTL DEF Spec

(* The values of the variables stay in their sets, for any checkout.       *)
THEOREM TypeCorrect == Spec => []TypeOK
<1>1. IInv => TypeOK
  BY DEF IInv
<1> QED BY <1>1, Inductive, PTL

(* Nothing that was built under other landmines is left when the hooks     *)
(* have succeeded, for any revisions and build directories.                *)
THEOREM OutputsFresh == Spec => []NoStaleOutputs
<1>1. IInv => NoStaleOutputs
  <2> SUFFICES ASSUME IInv, Ready PROVE NoStaleOutputs
    BY DEF NoStaleOutputs
  <2>1. record = landmines /\ landmines \in Mines
    BY OfRevision DEF IInv, Phases, Ready
  <2> QED BY <2>1 DEF IInv, RecordKnows, NoStaleOutputs
<1> QED BY <1>1, Inductive, PTL

(* The arguments of every directory that no clobber was cut off in are     *)
(* kept, with what Ninja needs to run GN.                                  *)
THEOREM UserArgsKept == Spec => []ArgsKept
<1>1. IInv => ArgsKept
  BY Values DEF IInv, TypeOK, Phases, UserArgs, Whole, ArgsKept, Idle, InDir
<1> QED BY <1>1, Inductive, PTL

(* The hook raises over a missing build.ninja only in a directory in which *)
(* an earlier clobber was cut off.                                         *)
THEOREM OnlyCutRaises == Spec => []RaisesOnlyAfterCut
<1>1. IInv => RaisesOnlyAfterCut
  BY DEF IInv
<1> QED BY <1>1, Inductive, PTL

(* The stamp and the image are those of the revision, for any images.      *)
THEOREM ImageComplete == Spec => []SysrootComplete
<1>1. IInv => SysrootComplete
  <2> SUFFICES ASSUME IInv, Ready PROVE SysrootComplete
    BY DEF SysrootComplete
  <2>1. stamp = url /\ url \in Urls /\ rootPc # "rmtree"
    BY OfRevision DEF IInv, StampTrue, Ready, Idle
  <2> QED BY <2>1 DEF IInv, StampTrue, SysrootComplete
<1> QED BY <1>1, Inductive, PTL
=============================================================================
