--------------------- MODULE IncrementalInstall_proofs ----------------------
(***************************************************************************)
(* Proofs about IncrementalInstall, for any files, any build, any number   *)
(* of processes and of installs.                                           *)
(***************************************************************************)
EXTENDS IncrementalInstall, FiniteSetTheorems, TLAPS

Files == config.files
Phase == {"idle", "setup", "push", "finalize", "dropCache", "removeDir"}
Lock == {"install.lock", "firstrun.lock", "restore"}
Final == {"release", "save"}

LEMMA Constants ==
  /\ MaxInstalls \in Nat /\ IsFiniteSet(Process)
  /\ LibFile \cap DexFile = {} /\ None \notin Process \cup File \cup Content
  /\ Absent \notin Content /\ Partial \notin Content /\ Absent # Partial
  /\ Now \notin Round /\ 0 \in Round
BY InstallAssumption DEF Round

LEMMA ConfigTyped ==
  ASSUME config \in Configuration
  PROVE  /\ config.oreo \in BOOLEAN /\ config.isolated \subseteq Process
         /\ Files \subseteq File /\ config.installs \in 0..MaxInstalls
         /\ config.oreo => config.isolated = {}
<1>1. config \in [oreo : BOOLEAN, isolated : SUBSET Process,
                  files : SUBSET File, installs : 0..MaxInstalls,
                  faulty : SUBSET Process]
  BY InstallAssumption
<1>2. config.oreo => config.isolated = {}
  BY InstallAssumption
<1> QED BY <1>1, <1>2 DEF Files

LEMMA OffTyped == Off \in Proc /\ Off.pc = "off" /\ Off.fd = 0
BY Constants DEF Off, Proc, At, Dir

LEMMA Tasks ==
  /\ TasksOf("setup") = Lock
  /\ TasksOf("push") = {"apk"} \cup Files
  /\ TasksOf("finalize") = Final
  /\ TasksOf("idle") = {} /\ TasksOf("dropCache") = {} /\ TasksOf("removeDir") = {}
  /\ DOMAIN After = {"setup", "push", "finalize"}
  /\ After["setup"] = "push" /\ After["push"] = "finalize" /\ After["finalize"] = "idle"
BY DEF TasksOf, After, Lock, Final, Files

\* A task tells the phase it belongs to.
LEMMA TaskPhase ==
  ASSUME StateOK, NEW task \in todo
  PROVE  /\ task \in Lock => phase = "setup"
         /\ task \in {"apk"} \cup Files => phase = "push"
         /\ task \in Final => phase = "finalize"
         /\ phase \in DOMAIN After
<1>1. task \in TasksOf(phase) /\ phase \in Phase
  BY DEF StateOK, Phase
<1>2. Files \cap (Lock \cup {"apk"} \cup Final) = {}
  <2>1. Files \subseteq File
    BY ConfigTyped DEF StateOK
  <2> QED BY <2>1, InstallAssumption DEF Lock, Final
<1> QED BY <1>1, <1>2, Tasks DEF Phase, Lock, Final

\* What the end of a task does.
LEMMA Finished ==
  ASSUME StateOK, NEW task \in todo, Finish(task), config' = config
  PROVE  \/ /\ phase' = phase /\ todo' = todo \ {task} /\ whole' = whole
            /\ todo' # {}
         \/ /\ phase = "setup" /\ phase' = "push" /\ todo' = {"apk"} \cup Files
            /\ todo = {task} /\ whole' = FALSE
         \/ /\ phase = "push" /\ phase' = "finalize" /\ todo' = Final
            /\ todo = {task} /\ whole' = FALSE
         \/ /\ phase = "finalize" /\ phase' = "idle" /\ todo' = {}
            /\ todo = {task} /\ whole' = TRUE
<1>1. phase \in DOMAIN After
  BY TaskPhase
<1>2. CASE todo # {task}
  BY <1>2 DEF Finish
<1>3. CASE todo = {task}
  <2>1. phase' = After[phase] /\ todo' = TasksOf(phase') /\ whole' = (phase' = "idle")
    BY <1>3 DEF Finish
  <2>2. CASE phase = "setup"
    BY <1>3, <2>1, <2>2, Tasks
  <2>3. CASE phase = "push"
    BY <1>3, <2>1, <2>3, Tasks
  <2>4. CASE phase = "finalize"
    BY <1>3, <2>1, <2>4, Tasks
  <2> QED BY <1>1, <2>2, <2>3, <2>4, Tasks
<1> QED BY <1>2, <1>3
-----------------------------------------------------------------------------
(* Types and shape.  First what the two sides leave of them.               *)

Typed == StateOK /\ Shape

\* The part of StateOK that is about the installer and the device, and the
\* part that is about the processes.
DeviceTyped ==
  /\ phase \in Phase /\ todo \subseteq TasksOf(phase)
  /\ round \in 0..config.installs
  /\ host \in [config.files -> Content]
  /\ known \in [config.files -> Content] \cup {None}
  /\ cache \in [config.files -> Content] \cup {None, Empty}
  /\ config \in Configuration
  /\ apk \in BOOLEAN /\ whole \in BOOLEAN /\ overlap \in BOOLEAN
  /\ installLock \in LockState /\ firstrunLock \in LockState
  /\ dev \in [config.files -> FileState]

DataTyped ==
  /\ local \in [config.files -> FileState]
  /\ lockName \in [Dir -> {0} \cup Inode]
  /\ lockHolder \in [Dir -> [Inode -> Process \cup {None}]]

Holds(p) == app[p].pc \in Copying => lockHolder[app[p].dir][app[p].fd] = p

AppTyped == app \in [Process -> Proc] /\ \A p \in Process : Holds(p)

LEMMA TypeParts ==
  /\ StateOK <=> DeviceTyped /\ DataTyped /\ AppTyped
  /\ StateOK' <=> (DeviceTyped /\ DataTyped /\ AppTyped)'
BY DEF StateOK, DeviceTyped, DataTyped, AppTyped, Holds, Phase

\* What Shape says of one process.
Shaped(proc) ==
  /\ proc.fd # 0 <=> proc.pc \in Locked
  /\ proc.dir = "dex" =>
       config.oreo /\ proc.pc \in Locked \cup {"open", "delete", "abort", "await"}
  /\ proc.pc \in Copying => proc.left \subseteq FilesOf(proc.dir)
  /\ proc.pc \in Writing => proc.cur \in proc.left

LEMMA ShapeParts ==
  /\ Shape <=> \A p \in Process : Shaped(app[p])
  /\ Shape' <=> (\A p \in Process : Shaped(app[p]))'
BY DEF Shape, Shaped

LEMMA OffShaped == Shaped(Off)
BY DEF Shaped, Off, Locked, Copying, Writing

LEMMA SetApp ==
  ASSUME app \in [Process -> Proc], NEW p \in Process, NEW proc \in Proc,
         Set(p, proc)
  PROVE  /\ app' \in [Process -> Proc] /\ app'[p] = proc
         /\ \A q \in Process : q # p => app'[q] = app[q]
BY DEF Set

\* A process moves, and keeps the lock it had or needs none.
LEMMA MoveTyped ==
  ASSUME Typed, NEW p \in Process, NEW proc \in Proc, Set(p, proc), Shaped(proc),
         UNCHANGED <<hostVars, config, apk, installLock, dev, whole, lockHolder>>,
         overlap' \in BOOLEAN, firstrunLock' \in LockState,
         local' \in [Files -> FileState], lockName' \in [Dir -> {0} \cup Inode],
         proc.pc \in Copying => app[p].pc \in Copying /\ proc.dir = app[p].dir
                                /\ proc.fd = app[p].fd
  PROVE  Typed'
<1>1. /\ app \in [Process -> Proc] /\ \A q \in Process : Holds(q) /\ Shaped(app[q])
      /\ DeviceTyped /\ DataTyped
  BY TypeParts, ShapeParts DEF Typed, AppTyped
<1>2. /\ app' \in [Process -> Proc] /\ app'[p] = proc
      /\ \A q \in Process : q # p => app'[q] = app[q]
  BY <1>1, SetApp
<1>3. Proc' = Proc /\ Files' = Files /\ config' = config
  BY DEF Proc, Files
<1>4. \A q \in Process : Holds(q)'
  BY <1>1, <1>2 DEF Holds
<1>5. \A q \in Process : Shaped(app'[q])
  BY <1>1, <1>2
<1>6. \A q \in Process : Shaped(app[q])'
  BY <1>5, <1>3 DEF Shaped, FilesOf, Libs, Dexes
<1>7. DeviceTyped'
  BY <1>1, <1>3, Tasks DEF DeviceTyped, hostVars, TasksOf
<1>8. DataTyped'
  BY <1>1, <1>3 DEF DataTyped, Files
<1> QED BY <1>2, <1>3, <1>4, <1>6, <1>7, <1>8, TypeParts, ShapeParts DEF Typed, AppTyped

LEMMA InitTyped == Init => Typed
<1> SUFFICES ASSUME Init PROVE Typed
  OBVIOUS
<1>1. Files \subseteq File /\ config.installs \in Nat /\ config \in Configuration
  BY ConfigTyped, Constants DEF Init, Files
<1>2. Files' = Files' /\ NoFile \in FileState
  BY Constants DEF NoFile, FileState, Data
<1>3. dev \in [Files -> FileState] /\ local \in [Files -> FileState]
  <2>1. Nothing \in [Files -> FileState]
    BY <1>2 DEF Nothing, Files
  <2>2. CASE Fresh
    BY <2>1, <2>2 DEF Init, Fresh
  <2>3. CASE Installed
    BY <2>1, <2>3, Constants DEF Init, Installed, FileState, Data, Files
  <2>4. CASE Broken
    BY <2>1, <2>4, Constants DEF Init, Broken, FileState, Data, Files
  <2> QED BY <2>2, <2>3, <2>4 DEF Init
<1>4. DeviceTyped
  <2>1. /\ phase \in Phase /\ todo \subseteq TasksOf(phase)
        /\ host \in [Files -> Content] /\ known = None /\ overlap \in BOOLEAN
    BY DEF Init, Phase, Files
  <2>3. round \in 0..config.installs
    BY <1>1 DEF Init
  <2>2. /\ cache \in [Files -> Content] \cup {None} /\ apk \in BOOLEAN /\ whole \in BOOLEAN
        /\ installLock \in LockState /\ firstrunLock \in LockState
    BY <2>1 DEF Init, Fresh, Installed, Broken, LockState
  <2> QED BY <1>1, <1>3, <2>1, <2>2, <2>3 DEF DeviceTyped, Files
<1>5. DataTyped
  BY <1>3 DEF Init, DataTyped, Files
<1>6. app \in [Process -> Proc] /\ \A p \in Process : Holds(p) /\ Shaped(app[p])
  BY OffTyped, OffShaped DEF Init, Holds, Copying
<1> QED BY <1>4, <1>5, <1>6, TypeParts, ShapeParts DEF Typed, AppTyped

LEMMA StartTyped ==
  ASSUME Typed, NEW p \in Process, Start(p)
  PROVE  Typed'
<1> DEFINE first == firstrunLock # "clear"
           proc == [Off EXCEPT !.pc = IF first THEN "wait" ELSE "lib",
                               !.first = first, !.clean = Settled,
                               !.paused = first /\ LocksHeld,
                               !.misled = ~first /\ Trusting(p)]
<1>1. Set(p, proc) /\ overlap' = (overlap \/ (~first /\ Pushing))
  BY DEF Start
<1>2. Settled \in BOOLEAN /\ LocksHeld \in BOOLEAN /\ (~first /\ Trusting(p)) \in BOOLEAN
  BY DEF Settled, LocksHeld, Typed, StateOK
<1>3. proc \in Proc /\ Shaped(proc)
  <2>1. ASSUME NEW pc \in {"wait", "lib"}, NEW was \in BOOLEAN, NEW clean \in BOOLEAN,
               NEW paused \in BOOLEAN, NEW misled \in BOOLEAN
        PROVE  LET new == [Off EXCEPT !.pc = pc, !.first = was, !.clean = clean,
                                      !.paused = paused, !.misled = misled]
               IN  new \in Proc /\ Shaped(new)
    <3> DEFINE new == [Off EXCEPT !.pc = pc, !.first = was, !.clean = clean,
                                  !.paused = paused, !.misled = misled]
    <3>1. Off \in Proc /\ Off.fd = 0 /\ Off.dir = "lib"
      BY OffTyped DEF Off
    <3> DEFINE half == [Off EXCEPT !.pc = pc, !.first = was, !.clean = clean]
    <3>2. half \in Proc /\ half.pc = pc /\ half.fd = 0 /\ half.dir = "lib"
      BY <3>1 DEF Proc, At
    <3>3. new = [half EXCEPT !.paused = paused, !.misled = misled]
      BY <3>1 DEF Proc
    <3>4. new \in Proc /\ new.pc = pc /\ new.fd = 0 /\ new.dir = "lib"
      <4> HIDE DEF half
      <4> QED BY <3>2, <3>3 DEF Proc
    <3>5. Shaped(new)
      BY <3>4 DEF Shaped, Locked, Copying, Writing
    <3> QED BY <3>4, <3>5
  <2>2. /\ (IF first THEN "wait" ELSE "lib") \in {"wait", "lib"}
        /\ first \in BOOLEAN /\ (first /\ LocksHeld) \in BOOLEAN
    OBVIOUS
  <2> QED BY <1>2, <2>1, <2>2, Zenon
<1>4. proc.pc \notin Copying
  BY DEF Off, Copying
<1> HIDE DEF proc
<1> QED BY <1>1, <1>3, <1>4, MoveTyped
     DEF Start, Typed, StateOK, hostVars, devVars, dataVars, Files, Pushing

\* A process moves, and nothing else changes.
LEMMA WalkTyped ==
  ASSUME Typed, NEW p \in Process, NEW proc \in Proc, Set(p, proc), Shaped(proc),
         UNCHANGED <<hostVars, devVars, dataVars, whole>>, overlap' \in BOOLEAN,
         proc.pc \in Copying => app[p].pc \in Copying /\ proc.dir = app[p].dir
                                /\ proc.fd = app[p].fd
  PROVE  Typed'
<1>1. /\ firstrunLock' \in LockState /\ local' \in [Files -> FileState]
      /\ lockName' \in [Dir -> {0} \cup Inode]
  BY DEF Typed, StateOK, devVars, dataVars, Files
<1>2. UNCHANGED <<hostVars, config, apk, installLock, dev, whole, lockHolder>>
  BY DEF devVars, dataVars
<1> QED BY <1>1, <1>2, MoveTyped

LEMMA ProcTyped ==
  ASSUME Typed, NEW p \in Process
  PROVE  app[p] \in Proc /\ Shaped(app[p]) /\ Holds(p)
BY TypeParts, ShapeParts DEF Typed, AppTyped

LEMMA WaitTyped ==
  ASSUME Typed, NEW p \in Process, Wait(p)
  PROVE  Typed'
<1> DEFINE proc == [app[p] EXCEPT !.pc = "lib", !.clean = Settled, !.misled = Trusting(p)]
<1>1. app[p] \in Proc /\ Shaped(app[p])
  BY ProcTyped
<1>2. Settled \in BOOLEAN /\ Trusting(p) \in BOOLEAN
  BY DEF Settled, Trusting, Typed, StateOK
<1>3. proc \in Proc /\ Shaped(proc) /\ proc.pc \notin Copying
  BY <1>1, <1>2 DEF Wait, Shaped, Proc, At, Locked, Copying, Writing
<1>4. Set(p, proc) /\ overlap' \in BOOLEAN
  BY DEF Wait, Pushing, Typed, StateOK
<1> HIDE DEF proc
<1> QED BY <1>3, <1>4, WalkTyped DEF Wait

LEMMA ImportTyped ==
  ASSUME Typed, NEW p \in Process, ImportLibs(p) \/ ImportDex(p)
  PROVE  Typed'
<1>1. app[p] \in Proc /\ Shaped(app[p]) /\ app[p].pc \in {"lib", "dex"}
  BY ProcTyped DEF ImportLibs, ImportDex
<1>2. config.oreo \in BOOLEAN
  BY ConfigTyped DEF Typed, StateOK
<1>3. PICK at \in {"await", "open", "dex", "load"}, d \in Dir :
        /\ d = "dex" => config.oreo /\ at \in {"await", "open"}
        /\ Set(p, [app[p] EXCEPT !.pc = at, !.dir = d])
  <2>1. app[p].dir = "lib" /\ [app[p] EXCEPT !.dir = "lib"] = app[p]
    BY <1>1 DEF Shaped, Proc, Dir, Locked, Copying
  <2>2. \A at \in At : [app[p] EXCEPT !.pc = at] = [app[p] EXCEPT !.pc = at, !.dir = "lib"]
    BY <1>1, <2>1 DEF Proc
  <2> QED BY <1>1, <2>2 DEF ImportLibs, ImportDex, Copy, Dir, At
<1> DEFINE proc == [app[p] EXCEPT !.pc = at, !.dir = d]
<1>4. proc \in Proc /\ Shaped(proc) /\ proc.pc \notin Copying
  BY <1>1, <1>3 DEF Shaped, Proc, At, Locked, Copying, Writing
<1>5. Set(p, proc) /\ overlap' \in BOOLEAN
  BY <1>3 DEF ImportLibs, ImportDex, Typed, StateOK
<1> HIDE DEF proc
<1> QED BY <1>4, <1>5, WalkTyped DEF ImportLibs, ImportDex

\* There is an inode that no process has open in that directory.
LEMMA InodeLeft ==
  ASSUME Typed, NEW p \in Process, app[p].fd = 0, NEW dir \in Dir
  PROVE  /\ FreshInode(dir) \in Inode
         /\ \A q \in Process : app[q].dir = dir => app[q].fd # FreshInode(dir)
<1> DEFINE Unused(i) == \A q \in Process : app[q].dir = dir => app[q].fd # i
           opener == [i \in Inode |-> CHOOSE q \in Process \ {p} : app[q].fd = i]
<1>1. IsFiniteSet(Process \ {p}) /\ Cardinality(Process \ {p}) = Cardinality(Process) - 1
      /\ Cardinality(Process) \in Nat
  BY Constants, FS_RemoveElement, FS_CardinalityType
<1>2. IsFiniteSet(Inode) /\ Cardinality(Inode) = Cardinality(Process)
  <2>1. Cardinality(Process) # 0
    BY Constants, FS_EmptySet
  <2> QED BY <1>1, <2>1, FS_Interval DEF Inode
<1>3. \E i \in Inode : Unused(i)
  <2> SUFFICES ASSUME \A i \in Inode : \E q \in Process : app[q].fd = i
               PROVE  FALSE
    OBVIOUS
  <2>1. \A i \in Inode : \E q \in Process \ {p} : app[q].fd = i
    BY DEF Inode
  <2>2. /\ opener \in [Inode -> Process \ {p}]
        /\ \A i \in Inode : app[opener[i]].fd = i
    BY <2>1
  <2>3. \A i, j \in Inode : opener[i] = opener[j] => i = j
    BY <2>2
  <2>4. Cardinality(Process \ {p}) < Cardinality(Inode)
    BY <1>1, <1>2
  <2> HIDE DEF opener
  <2>5. \E i, j \in Inode : i # j /\ opener[i] = opener[j]
    BY <1>1, <1>2, <2>2, <2>4, FS_PigeonHole
  <2> QED BY <2>3, <2>5
<1> QED BY <1>3 DEF FreshInode

LEMMA OpenTyped ==
  ASSUME Typed, NEW p \in Process, OpenLock(p)
  PROVE  Typed'
<1> DEFINE dir == app[p].dir
           inode == IF lockName[dir] = 0 THEN FreshInode(dir) ELSE lockName[dir]
           proc == [app[p] EXCEPT !.pc = "try", !.fd = inode]
<1>1. app[p] \in Proc /\ Shaped(app[p]) /\ app[p].pc = "open" /\ dir \in Dir
  BY ProcTyped DEF OpenLock, Proc
<1>2. inode \in Inode
  <2>1. app[p].fd = 0
    BY <1>1 DEF Shaped, Locked, Copying
  <2>2. lockName[dir] \in {0} \cup Inode
    BY <1>1 DEF Typed, StateOK
  <2> QED BY <1>1, <2>1, <2>2, InodeLeft
<1>3. inode # 0 /\ inode \in {0} \cup Inode
  BY <1>2 DEF Inode
<1> HIDE DEF inode
<1>4. proc \in Proc /\ Shaped(proc) /\ proc.pc \notin Copying
  BY <1>1, <1>3 DEF Shaped, Proc, At, Locked, Copying, Writing
<1>5. Set(p, proc) /\ lockName' = [lockName EXCEPT ![dir] = inode]
  BY DEF OpenLock, inode
<1>6. lockName' \in [Dir -> {0} \cup Inode]
  BY <1>3, <1>5 DEF Typed, StateOK
<1> HIDE DEF proc
<1> QED BY <1>4, <1>5, <1>6, MoveTyped
     DEF OpenLock, Typed, StateOK, hostVars, devVars, dataVars, Files

LEMMA CheckTyped ==
  ASSUME Typed, NEW p \in Process, NEW f \in Files, CheckFile(p, f)
  PROVE  Typed'
<1> DEFINE proc == IF Unchanged(f) THEN [app[p] EXCEPT !.left = @ \ {f}]
                   ELSE [app[p] EXCEPT !.pc = "truncate", !.cur = f,
                                       !.srcTime = dev[f].mtime]
<1>1. /\ app[p] \in Proc /\ Shaped(app[p]) /\ app[p].pc = "copy"
      /\ f \in app[p].left /\ dev[f].mtime \in Round \cup {Now}
  BY ProcTyped DEF CheckFile, Typed, StateOK, FileState, Files
<1>2. /\ proc \in Proc /\ Shaped(proc) /\ proc.dir = app[p].dir /\ proc.fd = app[p].fd
      /\ app[p].pc \in Copying
  BY <1>1 DEF Shaped, Proc, At, Locked, Copying, Writing, Files
<1>3. Set(p, proc) /\ overlap' \in BOOLEAN
  BY DEF CheckFile, Typed, StateOK
<1> HIDE DEF proc
<1> QED BY <1>2, <1>3, WalkTyped DEF CheckFile

LEMMA TryTyped ==
  ASSUME Typed, NEW p \in Process, TryLock(p)
  PROVE  Typed'
<1> DEFINE dir == app[p].dir
           inode == app[p].fd
           present == {f \in FilesOf(dir) : dev[f].data # Absent}
<1>1. app[p] \in Proc /\ Shaped(app[p]) /\ app[p].pc = "try" /\ dir \in Dir
  BY ProcTyped DEF TryLock, Proc
<1>2. inode \in Inode
  BY <1>1 DEF Shaped, Proc, Locked
<1>3. present \subseteq FilesOf(dir) /\ present \subseteq Files
  BY DEF FilesOf, Libs, Dexes, Files
<1>4. CASE ~Free(dir, inode)
  <2> DEFINE proc == [app[p] EXCEPT !.pc = "await", !.fd = 0]
  <2>1. proc \in Proc /\ Shaped(proc) /\ proc.pc \notin Copying
    BY <1>1 DEF Shaped, Proc, At, Locked, Copying, Writing
  <2>2. Set(p, proc) /\ lockHolder' = lockHolder /\ overlap' \in BOOLEAN
    BY <1>4 DEF TryLock, Typed, StateOK
  <2> HIDE DEF proc
  <2> QED BY <2>1, <2>2, WalkTyped DEF TryLock, dataVars
<1>5. CASE Free(dir, inode)
  <2> DEFINE proc == [app[p] EXCEPT !.pc = "copy", !.left = present]
  <2> HIDE DEF present
  <2>1. proc \in Proc /\ Shaped(proc) /\ proc.pc = "copy" /\ proc.dir = dir
        /\ proc.fd = inode
    BY <1>1, <1>3 DEF Shaped, Proc, At, Locked, Copying, Writing, Files
  <2>2. Set(p, proc) /\ lockHolder' = [lockHolder EXCEPT ![dir][inode] = p]
    BY <1>5 DEF TryLock, present
  <2> HIDE DEF proc
  <2>3. /\ lockHolder \in [Dir -> [Inode -> Process \cup {None}]]
        /\ lockHolder[dir][inode] = None /\ None \notin Process
    BY <1>5, Constants DEF Free, Typed, StateOK
  <2>4. DeviceTyped /\ DataTyped /\ AppTyped /\ \A q \in Process : Shaped(app[q])
    BY TypeParts, ShapeParts DEF Typed
  <2>5. /\ app' \in [Process -> Proc] /\ app'[p] = proc
        /\ \A q \in Process : q # p => app'[q] = app[q]
    BY <2>1, <2>2, <2>4, SetApp DEF AppTyped
  <2>6. UNCHANGED <<hostVars, devVars, local, lockName, whole, overlap>>
    BY DEF TryLock
  <2>7. Proc' = Proc
    BY <2>6 DEF Proc, devVars
  <2>8. \A q \in Process : Holds(q)'
    <3> SUFFICES ASSUME NEW q \in Process, app'[q].pc \in Copying
                 PROVE  lockHolder'[app'[q].dir][app'[q].fd] = q
      BY DEF Holds
    <3>1. CASE q = p
      BY <1>1, <1>2, <2>1, <2>2, <2>3, <2>5, <3>1
    <3>2. CASE q # p
      <4>1. app[q] \in Proc /\ Shaped(app[q]) /\ app[q].pc \in Copying /\ Holds(q)
        BY <2>4, <2>5, <3>2 DEF AppTyped
      <4>2. app[q].dir \in Dir /\ app[q].fd \in Inode
            /\ lockHolder[app[q].dir][app[q].fd] = q
        BY <4>1 DEF Proc, Shaped, Locked, Holds
      <4> QED BY <1>1, <1>2, <2>2, <2>3, <2>5, <3>2, <4>2
    <3> QED BY <3>1, <3>2
  <2>9. \A q \in Process : Shaped(app[q])'
    <3>1. \A q \in Process : Shaped(app'[q])
      BY <2>1, <2>4, <2>5
    <3> QED BY <2>6, <3>1 DEF Shaped, FilesOf, Libs, Dexes, devVars
  <2>10. DeviceTyped'
    BY <2>4, <2>6, Tasks DEF DeviceTyped, hostVars, devVars, TasksOf
  <2>11. DataTyped'
    BY <1>1, <1>2, <2>2, <2>4, <2>6 DEF DataTyped, devVars
  <2> QED BY <2>5, <2>7, <2>8, <2>9, <2>10, <2>11, TypeParts, ShapeParts DEF Typed, AppTyped
<1> QED BY <1>4, <1>5

LEMMA LockFailsTyped ==
  ASSUME Typed, NEW p \in Process, LockFails(p)
  PROVE  Typed'
<1> DEFINE proc == [app[p] EXCEPT !.pc = "await", !.fd = 0, !.misled = TRUE]
<1>1. app[p] \in Proc /\ Shaped(app[p]) /\ app[p].pc \in {"open", "try"}
  BY ProcTyped DEF LockFails
<1>2. proc \in Proc /\ Shaped(proc) /\ proc.pc \notin Copying
  BY <1>1 DEF Shaped, Proc, At, Locked, Copying, Writing
<1>3. Set(p, proc) /\ overlap' \in BOOLEAN
  BY DEF LockFails, Typed, StateOK
<1> HIDE DEF proc
<1> QED BY <1>2, <1>3, WalkTyped DEF LockFails

LEMMA WriteTyped ==
  ASSUME Typed, NEW p \in Process, Truncate(p) \/ Transfer(p) \/ Stamp(p)
  PROVE  Typed'
<1> DEFINE f == app[p].cur
<1>1. /\ app[p] \in Proc /\ Shaped(app[p]) /\ app[p].pc \in Writing
      /\ app[p].pc \in Copying
  BY ProcTyped DEF Truncate, Transfer, Stamp, Writing, Copying
<1>2. f \in Files
  BY <1>1 DEF Shaped, Writing, Copying, FilesOf, Libs, Dexes, Files
<1>3. PICK proc \in Proc :
        Set(p, proc) /\ Shaped(proc) /\ proc.dir = app[p].dir /\ proc.fd = app[p].fd
  <2>1. CASE Truncate(p)
    <3> DEFINE proc == [app[p] EXCEPT !.pc = "transfer"]
    <3>1. proc \in Proc /\ Shaped(proc) /\ proc.dir = app[p].dir /\ proc.fd = app[p].fd
      BY <1>1, <2>1 DEF Shaped, Proc, At, Locked, Copying, Writing
    <3> QED BY <2>1, <3>1 DEF Truncate
  <2>2. CASE Transfer(p)
    <3> DEFINE proc == [app[p] EXCEPT !.pc = "stamp"]
    <3>1. proc \in Proc /\ Shaped(proc) /\ proc.dir = app[p].dir /\ proc.fd = app[p].fd
      BY <1>1, <2>2 DEF Shaped, Proc, At, Locked, Copying, Writing
    <3> QED BY <2>2, <3>1 DEF Transfer
  <2>3. CASE Stamp(p)
    <3> DEFINE proc == [app[p] EXCEPT !.pc = "copy", !.left = @ \ {app[p].cur},
                                      !.cur = None, !.srcTime = 0]
    <3>1. proc \in Proc /\ Shaped(proc) /\ proc.dir = app[p].dir /\ proc.fd = app[p].fd
      BY <1>1, <2>3, Constants DEF Shaped, Proc, At, Locked, Copying, Writing
    <3> QED BY <2>3, <3>1 DEF Stamp
  <2> QED BY <2>1, <2>2, <2>3
<1>4. local' \in [Files -> FileState]
  <2>1. /\ local \in [Files -> FileState] /\ dev[f].data \in Data
        /\ Partial \in Data /\ app[p].srcTime \in Round \cup {Now}
    BY <1>1, <1>2 DEF Typed, StateOK, Files, FileState, Data, Proc
  <2>2. PICK t \in FileState : local' = [local EXCEPT ![f] = t]
    BY <1>2, <2>1 DEF Truncate, Transfer, Stamp, TimeMeanwhile, FileState
  <2> QED BY <2>1, <2>2
<1>5. UNCHANGED <<hostVars, devVars, lockName, lockHolder, whole, overlap>>
  BY DEF Truncate, Transfer, Stamp
<1>6. /\ firstrunLock' \in LockState /\ overlap' \in BOOLEAN
      /\ lockName' \in [Dir -> {0} \cup Inode]
  BY <1>5 DEF Typed, StateOK, devVars
<1> QED BY <1>1, <1>3, <1>4, <1>5, <1>6, MoveTyped DEF devVars

\* A process gives up its lock, or ends.
LEMMA LeaveTyped ==
  ASSUME Typed, NEW p \in Process, NEW proc \in Proc, Set(p, proc), Shaped(proc),
         proc.pc \notin Copying,
         UNCHANGED <<hostVars, devVars, local, lockName, whole, overlap>>,
         lockHolder' \in [Dir -> [Inode -> Process \cup {None}]],
         \A d \in Dir, i \in Inode :
           lockHolder[d][i] # p => lockHolder'[d][i] = lockHolder[d][i]
  PROVE  Typed'
<1>1. DeviceTyped /\ DataTyped /\ AppTyped /\ \A q \in Process : Shaped(app[q])
  BY TypeParts, ShapeParts DEF Typed
<1>2. /\ app' \in [Process -> Proc] /\ app'[p] = proc
      /\ \A q \in Process : q # p => app'[q] = app[q]
  BY <1>1, SetApp DEF AppTyped
<1>3. Proc' = Proc
  BY DEF Proc, devVars
<1>4. \A q \in Process : Holds(q)'
  <2> SUFFICES ASSUME NEW q \in Process, app'[q].pc \in Copying
               PROVE  lockHolder'[app'[q].dir][app'[q].fd] = q
    BY DEF Holds
  <2>1. q # p /\ app'[q] = app[q]
    BY <1>2
  <2>2. app[q] \in Proc /\ Shaped(app[q]) /\ app[q].pc \in Copying /\ Holds(q)
    BY <1>1, <2>1 DEF AppTyped
  <2>3. app[q].dir \in Dir /\ app[q].fd \in Inode
        /\ lockHolder[app[q].dir][app[q].fd] = q
    BY <2>2 DEF Proc, Shaped, Locked, Holds
  <2> QED BY <2>1, <2>3
<1>5. \A q \in Process : Shaped(app[q])'
  <2>1. \A q \in Process : Shaped(app'[q])
    BY <1>1, <1>2
  <2> QED BY <2>1 DEF Shaped, FilesOf, Libs, Dexes, devVars
<1>6. DeviceTyped'
  BY <1>1, Tasks DEF DeviceTyped, hostVars, devVars, TasksOf
<1>7. DataTyped'
  BY <1>1 DEF DataTyped, devVars
<1> QED BY <1>2, <1>3, <1>4, <1>5, <1>6, <1>7, TypeParts, ShapeParts DEF Typed, AppTyped

LEMMA ReleaseTyped ==
  ASSUME Typed, NEW p \in Process, ReleaseLock(p) \/ CopyRaises(p)
  PROVE  Typed'
<1>1. /\ app[p] \in Proc /\ Shaped(app[p]) /\ app[p].pc \in Copying
      /\ lockHolder[app[p].dir][app[p].fd] = p
  BY ProcTyped DEF ReleaseLock, CopyRaises, Holds, Copying
<1>2. app[p].dir \in Dir /\ app[p].fd \in Inode
  BY <1>1 DEF Proc, Shaped, Locked
<1>3. PICK proc \in Proc : Set(p, proc) /\ Shaped(proc) /\ proc.pc \notin Copying
  <2>1. CASE ReleaseLock(p)
    <3> DEFINE proc == [app[p] EXCEPT !.pc = "delete", !.fd = 0]
    <3>1. proc \in Proc /\ Shaped(proc) /\ proc.pc \notin Copying
      BY <1>1 DEF Shaped, Proc, At, Locked, Copying, Writing
    <3> QED BY <2>1, <3>1 DEF ReleaseLock
  <2>2. CASE CopyRaises(p)
    <3> DEFINE proc == [app[p] EXCEPT !.pc = "abort", !.fd = 0, !.left = {},
                                      !.cur = None, !.srcTime = 0]
    <3>1. proc \in Proc /\ Shaped(proc) /\ proc.pc \notin Copying
      BY <1>1, Constants DEF Shaped, Proc, At, Locked, Copying, Writing
    <3> QED BY <2>2, <3>1 DEF CopyRaises
  <2> QED BY <2>1, <2>2
<1>4. /\ lockHolder' = [lockHolder EXCEPT ![app[p].dir][app[p].fd] = None]
      /\ lockHolder \in [Dir -> [Inode -> Process \cup {None}]]
      /\ UNCHANGED <<hostVars, devVars, local, lockName, whole, overlap>>
  BY DEF ReleaseLock, CopyRaises, Unlock, Typed, StateOK
<1>5. /\ lockHolder' \in [Dir -> [Inode -> Process \cup {None}]]
      /\ \A d \in Dir, i \in Inode :
           lockHolder[d][i] # p => lockHolder'[d][i] = lockHolder[d][i]
  BY <1>1, <1>2, <1>4
<1> QED BY <1>3, <1>4, <1>5, LeaveTyped

LEMMA KilledTyped ==
  ASSUME Typed, NEW p \in Process, Killed(p)
  PROVE  Typed'
<1>1. /\ Off \in Proc /\ Shaped(Off) /\ Off.pc \notin Copying
  BY OffTyped, OffShaped DEF Copying
<1>2. /\ Set(p, Off)
      /\ lockHolder' = [d \in Dir |-> [i \in Inode |->
           IF lockHolder[d][i] = p THEN None ELSE lockHolder[d][i]]]
      /\ lockHolder \in [Dir -> [Inode -> Process \cup {None}]]
      /\ UNCHANGED <<hostVars, devVars, local, lockName, whole, overlap>>
  BY DEF Killed, Typed, StateOK
<1>3. /\ lockHolder' \in [Dir -> [Inode -> Process \cup {None}]]
      /\ \A d \in Dir, i \in Inode :
           lockHolder[d][i] # p => lockHolder'[d][i] = lockHolder[d][i]
  BY <1>2
<1> QED BY <1>1, <1>2, <1>3, LeaveTyped

LEMMA AfterTyped ==
  ASSUME Typed, NEW p \in Process, DeleteLock(p) \/ AwaitLock(p)
  PROVE  Typed'
<1>1. /\ app[p] \in Proc /\ Shaped(app[p]) /\ app[p].dir \in Dir
      /\ app[p].pc \in {"delete", "await"}
  BY ProcTyped DEF DeleteLock, AwaitLock, Proc
<1>2. AfterCopy(p) \in {"dex", "load"}
  BY DEF AfterCopy
<1>6. PICK misled \in BOOLEAN :
        Set(p, [app[p] EXCEPT !.pc = AfterCopy(p), !.dir = "lib", !.misled = misled])
  <2>1. app[p].misled \in BOOLEAN
    BY <1>1 DEF Proc
  <2>2. [app[p] EXCEPT !.pc = AfterCopy(p), !.dir = "lib"] =
          [app[p] EXCEPT !.pc = AfterCopy(p), !.dir = "lib", !.misled = app[p].misled]
    BY <1>1 DEF Proc
  <2>3. (app[p].misled \/ app[p].dir \in mishap) \in BOOLEAN
    OBVIOUS
  <2> QED BY <2>1, <2>2, <2>3 DEF DeleteLock, AwaitLock
<1> DEFINE proc == [app[p] EXCEPT !.pc = AfterCopy(p), !.dir = "lib", !.misled = misled]
<1>3. proc \in Proc /\ Shaped(proc) /\ proc.pc \notin Copying
  BY <1>1, <1>2 DEF Shaped, Proc, At, Dir, Locked, Copying, Writing
<1>4. Set(p, proc) /\ lockName' \in [Dir -> {0} \cup Inode]
  BY <1>1, <1>6 DEF DeleteLock, AwaitLock, Typed, StateOK, dataVars
<1> HIDE DEF proc
<1> QED BY <1>3, <1>4, MoveTyped
     DEF DeleteLock, AwaitLock, Typed, StateOK, hostVars, devVars, dataVars, Files

LEMMA RunningTyped ==
  ASSUME Typed, NEW p \in Process
  PROVE  Running(p) \in Proc /\ Shaped(Running(p)) /\ Running(p).pc = "run"
<1>1. (app[p].clean /\ ~app[p].misled) \in BOOLEAN
  OBVIOUS
<1> QED BY <1>1, OffTyped DEF Running, Shaped, Proc, At, Off, Locked, Copying, Writing

LEMMA LoadTyped ==
  ASSUME Typed, NEW p \in Process,
         LoadDex(p) \/ ClearFirstrun(p) \/ TimesOut(p) \/ DeleteFails(p) \/ Abort(p)
  PROVE  Typed'
<1>1. /\ app[p] \in Proc /\ Shaped(app[p])
  BY ProcTyped
<1>2. PICK proc \in Proc : Set(p, proc) /\ Shaped(proc) /\ proc.pc \notin Copying
  <2>1. CASE Set(p, Off)
    BY <2>1, OffTyped, OffShaped DEF Copying
  <2>2. CASE Set(p, Running(p))
    BY <2>2, RunningTyped DEF Copying
  <2>3. CASE app[p].pc = "load" /\ Set(p, [app[p] EXCEPT !.pc = "clear"])
    <3> DEFINE proc == [app[p] EXCEPT !.pc = "clear"]
    <3>1. proc \in Proc /\ Shaped(proc) /\ proc.pc \notin Copying
      BY <1>1, <2>3 DEF Shaped, Proc, At, Locked, Copying, Writing
    <3> QED BY <2>3, <3>1
  <2> QED BY <2>1, <2>2, <2>3 DEF LoadDex, ClearFirstrun, TimesOut, DeleteFails, Abort
<1>3. firstrunLock' \in LockState /\ lockName' \in [Dir -> {0} \cup Inode]
  BY DEF LoadDex, ClearFirstrun, TimesOut, DeleteFails, Abort, Typed, StateOK, LockState,
     devVars, dataVars
<1> QED BY <1>2, <1>3, MoveTyped
     DEF LoadDex, ClearFirstrun, TimesOut, DeleteFails, Abort, Typed, StateOK, hostVars,
         devVars, dataVars, Files

\* The installer's steps: the next phase, and the processes it leaves alone.
LEMMA FinishTyped ==
  ASSUME Typed, NEW task \in todo, Finish(task), config' = config
  PROVE  phase' \in Phase /\ todo' \subseteq TasksOf(phase)' /\ whole' \in BOOLEAN
<1>1. /\ StateOK /\ todo \subseteq TasksOf(phase) /\ phase \in Phase /\ whole \in BOOLEAN
  BY DEF Typed, StateOK, Phase
<1>2. TasksOf(phase)' = TasksOf(phase')
  BY DEF TasksOf
<1> QED BY <1>1, <1>2, Finished, Tasks DEF Phase

\* The processes stay where they are, but for what is recorded of them, or
\* they all end.
Stays ==
  /\ UNCHANGED <<config, lockHolder>>
  /\ app' = [p \in Process |-> app'[p]]
  /\ \A p \in Process : \E clean, paused \in BOOLEAN :
       app'[p] = [app[p] EXCEPT !.clean = clean, !.paused = paused]
Stopped ==
  /\ config' = config
  /\ app' = [p \in Process |-> Off]
  /\ lockHolder' = [d \in Dir |-> [i \in Inode |-> None]]

LEMMA StaysTyped ==
  ASSUME Typed, Stays \/ Stopped,
         local' \in [Files -> FileState], lockName' \in [Dir -> {0} \cup Inode]
  PROVE  DataTyped' /\ AppTyped' /\ Shape'
<1>1. DeviceTyped /\ DataTyped /\ AppTyped /\ \A q \in Process : Shaped(app[q])
  BY TypeParts, ShapeParts DEF Typed
<1>2. config' = config /\ Proc' = Proc
  BY DEF Proc, Stays, Stopped
<1>3. lockHolder' \in [Dir -> [Inode -> Process \cup {None}]]
  <2>1. CASE lockHolder' = lockHolder
    BY <1>1, <2>1 DEF DataTyped
  <2>2. CASE Stopped
    BY <2>2 DEF Stopped
  <2> QED BY <2>1, <2>2 DEF Stays
<1>4. app' \in [Process -> Proc] /\ \A q \in Process : Shaped(app'[q]) /\ Holds(q)'
  <2>1. CASE Stays
    <3>1. ASSUME NEW q \in Process
          PROVE  app'[q] \in Proc /\ Shaped(app'[q]) /\ Holds(q)'
      <4>1. app[q] \in Proc /\ Shaped(app[q]) /\ Holds(q)
        BY <1>1 DEF AppTyped
      <4>2. PICK clean \in BOOLEAN, paused \in BOOLEAN :
              app'[q] = [app[q] EXCEPT !.clean = clean, !.paused = paused]
        BY <2>1, Zenon DEF Stays
      <4>3. lockHolder' = lockHolder
        BY <2>1 DEF Stays
      <4>4. app'[q] \in Proc /\ Shaped(app'[q])
        BY <4>1, <4>2 DEF Proc, Shaped
      <4>5. /\ app'[q].pc = app[q].pc /\ app'[q].dir = app[q].dir
            /\ app'[q].fd = app[q].fd
        BY <4>1, <4>2 DEF Proc
      <4> QED BY <4>1, <4>3, <4>4, <4>5 DEF Holds
    <3>2. app' = [p \in Process |-> app'[p]]
      BY <2>1 DEF Stays
    <3> QED BY <3>1, <3>2
  <2>2. CASE Stopped
    BY <2>2, OffTyped, OffShaped DEF Stopped, Holds, Copying
  <2> QED BY <2>1, <2>2
<1>5. \A q \in Process : Shaped(app[q])'
  BY <1>2, <1>4 DEF Shaped, FilesOf, Libs, Dexes
<1> QED BY <1>2, <1>3, <1>4, <1>5, ShapeParts DEF DataTyped, AppTyped, Files

LEMMA UnchangedStays ==
  ASSUME Typed, UNCHANGED <<config, dataVars, app>>
  PROVE  DataTyped' /\ AppTyped' /\ Shape'
BY TypeParts, ShapeParts
   DEF Typed, DataTyped, AppTyped, dataVars, Proc, Holds, Shaped, FilesOf, Libs, Dexes

LEMMA InstallTyped ==
  ASSUME Typed, Install
  PROVE  Typed'
<1>1. DeviceTyped /\ DataTyped /\ AppTyped
  BY TypeParts DEF Typed
<1>2. Stays
  <2>1. app' = [p \in Process |-> [app[p] EXCEPT !.clean = FALSE, !.paused = FALSE]]
    BY DEF Install
  <2> QED BY <2>1 DEF Install, Stays, devVars, dataVars
<1>3. DataTyped' /\ AppTyped' /\ Shape'
  BY <1>1, <1>2, StaysTyped DEF Install, DataTyped, dataVars, Files
<1>4. DeviceTyped'
  <2>1. config' = config /\ config.installs \in Nat /\ overlap' \in BOOLEAN
    <3>1. config.installs \in 0..MaxInstalls
      BY <1>1, ConfigTyped DEF DeviceTyped
    <3>2. overlap' \in BOOLEAN
      <4>1. overlap' = TRUE \/ overlap' = FALSE
        BY Zenon DEF Install
      <4> QED BY <4>1
    <3>3. config.installs \in Nat
      BY <3>1, Constants
    <3> QED BY <3>2, <3>3 DEF Install, devVars
  <2>2. round' \in 0..config.installs
    <3>1. round \in 0..config.installs /\ round < config.installs /\ round' = round + 1
      BY <1>1 DEF DeviceTyped, Install
    <3> QED BY <2>1, <3>1
  <2>3. phase' \in Phase /\ todo' \subseteq TasksOf(phase)'
    BY <2>1 DEF Install, Phase, TasksOf
  <2> QED BY <1>1, <2>1, <2>2, <2>3 DEF DeviceTyped, Install, devVars
<1> QED BY <1>3, <1>4, TypeParts DEF Typed

LEMMA SetupTyped ==
  ASSUME Typed, LockInstall \/ LockFirstrun \/ RestoreCache
  PROVE  Typed'
<1>1. DeviceTyped
  BY TypeParts DEF Typed
<1>2. config' = config /\ phase' \in Phase /\ todo' \subseteq TasksOf(phase)'
      /\ whole' \in BOOLEAN
  BY FinishTyped DEF LockInstall, LockFirstrun, RestoreCache, devVars
<1>3. DeviceTyped'
  BY <1>1, <1>2 DEF DeviceTyped, LockInstall, LockFirstrun, RestoreCache, CacheLeft,
     LockState, devVars
<1>4. DataTyped' /\ AppTyped' /\ Shape'
  BY <1>2, UnchangedStays DEF LockInstall, LockFirstrun, RestoreCache, devVars
<1> QED BY <1>3, <1>4, TypeParts DEF Typed

LEMMA ApkTyped ==
  ASSUME Typed, InstallApk
  PROVE  Typed'
<1>1. DeviceTyped /\ DataTyped
  BY TypeParts DEF Typed
<1>2. config' = config /\ phase' \in Phase /\ todo' \subseteq TasksOf(phase)'
      /\ whole' \in BOOLEAN
  BY FinishTyped DEF InstallApk
<1>3. DeviceTyped'
  BY <1>1, <1>2 DEF DeviceTyped, InstallApk
<1>4. DataTyped' /\ AppTyped' /\ Shape'
  <2>1. CASE UNCHANGED <<app, lockHolder>>
    BY <1>2, <2>1, UnchangedStays DEF InstallApk, dataVars
  <2>2. CASE Stopped
    BY <1>1, <2>2, StaysTyped DEF InstallApk, DataTyped, Files
  <2> QED BY <1>2, <2>1, <2>2 DEF InstallApk, Stopped
<1> QED BY <1>3, <1>4, TypeParts DEF Typed

LEMMA PushTyped ==
  ASSUME Typed, NEW f \in Files, PushNothing(f) \/ PushBegin(f) \/ PushEnd(f)
  PROVE  Typed'
<1>1. DeviceTyped
  BY TypeParts DEF Typed
<1>2. config' = config /\ UNCHANGED <<dataVars, app>>
  BY DEF PushNothing, PushBegin, PushEnd, devVars
<1>3. phase' \in Phase /\ todo' \subseteq TasksOf(phase)' /\ whole' \in BOOLEAN
  <2>1. CASE PushBegin(f)
    BY <1>1, <1>2, <2>1 DEF PushBegin, DeviceTyped, hostVars, TasksOf
  <2>2. CASE PushNothing(f) \/ PushEnd(f)
    BY <1>2, <2>2, FinishTyped DEF PushNothing, PushEnd, Turn
  <2> QED BY <2>1, <2>2
<1>4. dev' \in [Files -> FileState]
  <2>1. PICK s \in FileState : dev' \in {dev, [dev EXCEPT ![f] = s]}
    <3>1. [data |-> Partial, mtime |-> Now] \in FileState
      BY DEF FileState, Data
    <3>2. round \in Round
      <4>1. config.installs \in 0..MaxInstalls
        BY <1>1, ConfigTyped DEF DeviceTyped
      <4> QED BY <1>1, <4>1, Constants DEF DeviceTyped, Round
    <3>3. [data |-> host[f], mtime |-> round] \in FileState
      BY <1>1, <3>2 DEF FileState, Data, DeviceTyped, Files
    <3> QED BY <3>1, <3>3 DEF PushNothing, PushBegin, PushEnd, devVars
  <2> QED BY <1>1, <2>1 DEF DeviceTyped, Files
<1>5. DeviceTyped'
  BY <1>1, <1>2, <1>3, <1>4
     DEF DeviceTyped, PushNothing, PushBegin, PushEnd, hostVars, devVars, Files
<1>6. DataTyped' /\ AppTyped' /\ Shape'
  BY <1>2, UnchangedStays
<1> QED BY <1>5, <1>6, TypeParts DEF Typed

LEMMA ReleaseInstallerTyped ==
  ASSUME Typed, ReleaseInstallerLock \/ SaveCache
  PROVE  Typed'
<1>1. DeviceTyped /\ DataTyped /\ AppTyped
  BY TypeParts DEF Typed
<1>2. config' = config /\ phase' \in Phase /\ todo' \subseteq TasksOf(phase)'
      /\ whole' \in BOOLEAN
  BY FinishTyped DEF ReleaseInstallerLock, SaveCache, devVars
<1>3. DeviceTyped'
  BY <1>1, <1>2 DEF DeviceTyped, ReleaseInstallerLock, SaveCache, LockState, devVars
<1>4. DataTyped' /\ AppTyped' /\ Shape'
  <2>1. CASE ReleaseInstallerLock
    <3>1. app' = [p \in Process |-> [app[p] EXCEPT !.paused = FALSE]]
      BY <2>1 DEF ReleaseInstallerLock
    <3>2. \A p \in Process :
            app[p].clean \in BOOLEAN /\ app'[p] = [app[p] EXCEPT !.clean = @, !.paused = FALSE]
      BY <1>1, <3>1 DEF AppTyped, Proc
    <3>4. Stays
      BY <1>2, <2>1, <3>1, <3>2 DEF ReleaseInstallerLock, Stays, dataVars
    <3> QED BY <1>1, <2>1, <3>4, StaysTyped DEF ReleaseInstallerLock, DataTyped, dataVars, Files
  <2>2. CASE SaveCache
    BY <1>2, <2>2, UnchangedStays DEF SaveCache
  <2> QED BY <2>1, <2>2
<1> QED BY <1>3, <1>4, TypeParts DEF Typed

LEMMA EndTyped ==
  ASSUME Typed,
         InstallFails \/ UninstallApp \/ DropCache \/ RemoveDir \/ UninstallFails
  PROVE  Typed'
<1>1. DeviceTyped /\ DataTyped
  BY TypeParts DEF Typed
<1>2. config' = config
  BY DEF InstallFails, UninstallApp, DropCache, RemoveDir, UninstallFails, devVars
<1>3. Nothing \in [Files -> FileState]
  BY Constants DEF Nothing, NoFile, FileState, Data, Files
<1>4. phase' \in Phase /\ todo' \subseteq TasksOf(phase)'
  <2>1. todo' = {} \/ (todo' = todo /\ todo \subseteq TasksOf(phase) /\ TasksOf(phase) = {})
    BY <1>1, Tasks DEF InstallFails, UninstallApp, DropCache, RemoveDir, UninstallFails,
       DeviceTyped
  <2> QED BY <2>1 DEF InstallFails, UninstallApp, DropCache, RemoveDir, UninstallFails, Phase
<1>5. DeviceTyped'
  BY <1>1, <1>2, <1>3, <1>4 DEF InstallFails, UninstallApp, DropCache, RemoveDir,
     UninstallFails, DeviceTyped, LockState, devVars, Files
<1>6. DataTyped' /\ AppTyped' /\ Shape'
  <2>1. CASE UninstallApp
    <3>1. Stopped
      BY <1>2, <2>1 DEF UninstallApp, Stopped
    <3>2. local' \in [Files -> FileState] /\ lockName' \in [Dir -> {0} \cup Inode]
      BY <1>3, <2>1 DEF UninstallApp
    <3> QED BY <3>1, <3>2, StaysTyped
  <2>2. CASE ~UninstallApp
    BY <1>2, <2>2, UnchangedStays
       DEF InstallFails, DropCache, RemoveDir, UninstallFails, dataVars, devVars
  <2> QED BY <2>1, <2>2
<1> QED BY <1>5, <1>6, TypeParts DEF Typed

LEMMA StutterTyped ==
  ASSUME Typed, UNCHANGED vars
  PROVE  Typed'
<1>1. DeviceTyped
  BY TypeParts DEF Typed
<1>2. DeviceTyped'
  BY <1>1, Tasks DEF DeviceTyped, vars, hostVars, devVars, TasksOf
<1>3. DataTyped' /\ AppTyped' /\ Shape'
  BY UnchangedStays DEF vars, devVars
<1> QED BY <1>2, <1>3, TypeParts DEF Typed

LEMMA NextTyped ==
  ASSUME Typed, [Next]_vars
  PROVE  Typed'
<1>1. CASE InstallerStep
  BY <1>1, InstallTyped, SetupTyped, ApkTyped, PushTyped, ReleaseInstallerTyped,
     EndTyped DEF InstallerStep, Files
<1>2. ASSUME NEW p \in Process, ProcessStep(p) PROVE Typed'
  BY <1>2, StartTyped, WaitTyped, ImportTyped, OpenTyped, TryTyped, CheckTyped,
     LockFailsTyped, WriteTyped, ReleaseTyped, AfterTyped, LoadTyped, KilledTyped
     DEF ProcessStep, Files
<1> QED BY <1>1, <1>2, StutterTyped DEF Next

MishapTyped == mishap \subseteq Dir \cup {"firstrun", "crossed"}

LEMMA NextMishap ==
  ASSUME Typed, MishapTyped, [Next]_vars
  PROVE  MishapTyped'
<1>1. CASE InstallerStep
  BY <1>1 DEF InstallerStep, Install, LockInstall, LockFirstrun, RestoreCache, InstallApk,
     PushNothing, PushBegin, PushEnd, ReleaseInstallerLock, SaveCache, InstallFails,
     UninstallApp, DropCache, RemoveDir, UninstallFails, MishapTyped
<1>2. ASSUME NEW p \in Process, ProcessStep(p) PROVE MishapTyped'
  <2>1. app[p].dir \in Dir
    BY ProcTyped DEF Proc
  <2>2. CASE OpenLock(p)
    BY <2>2 DEF OpenLock, MishapTyped
  <2>3. CASE Abort(p)
    BY <2>1, <2>3 DEF Abort, MishapTyped
  <2>4. CASE ClearFirstrun(p)
    BY <2>4 DEF ClearFirstrun, MishapTyped
  <2>5. CASE mishap' = mishap
    BY <2>5 DEF MishapTyped
  <2> QED BY <1>2, <2>2, <2>3, <2>4, <2>5
       DEF ProcessStep, Start, Wait, ImportLibs, ImportDex, TryLock, LockFails, CheckFile,
           Truncate, Transfer, Stamp, ReleaseLock, DeleteLock, DeleteFails, AwaitLock,
           CopyRaises, LoadDex, TimesOut, Killed
<1> QED BY <1>1, <1>2 DEF Next, vars, MishapTyped

\* The state of the installer, the device and the processes is of the types
\* above, and who copies files holds the lock of the inode it opened.
THEOREM TypeCorrect == Spec => []TypeOK
<1>1. Init => Typed /\ MishapTyped
  BY InitTyped DEF Init, MishapTyped
<1>2. Typed /\ MishapTyped /\ [Next]_vars => (Typed /\ MishapTyped)'
  BY NextTyped, NextMishap
<1>3. Typed /\ MishapTyped => TypeOK
  BY DEF Typed, TypeOK, MishapTyped
<1> QED BY <1>1, <1>2, <1>3, PTL DEF Spec
-----------------------------------------------------------------------------
(* What a step of a process changes.                                       *)

LEMMA SetAt ==
  ASSUME Typed, NEW p \in Process, NEW proc, Set(p, proc)
  PROVE  app'[p] = proc /\ \A q \in Process : q # p => app'[q] = app[q]
BY DEF Set, Typed, StateOK

ProcessFrame(p) ==
  /\ UNCHANGED <<hostVars, config, apk, installLock, dev, whole>>
  /\ \A q \in Process : q # p => app'[q] = app[q]

LEMMA Frame ==
  ASSUME Typed, NEW p \in Process, ProcessStep(p)
  PROVE  ProcessFrame(p)
<1>1. UNCHANGED <<hostVars, config, apk, installLock, dev, whole>>
  BY DEF ProcessStep, Start, Wait, ImportLibs, ImportDex, OpenLock, TryLock, CheckFile,
     LockFails, Truncate, Transfer, Stamp, ReleaseLock, DeleteLock, DeleteFails, AwaitLock,
     CopyRaises, Abort, LoadDex, ClearFirstrun, TimesOut, Killed, hostVars, devVars
<1>2. \E proc : Set(p, proc)
  BY Zenon DEF ProcessStep, Start, Wait, ImportLibs, ImportDex, Copy, OpenLock, TryLock,
     LockFails, CheckFile, Truncate, Transfer, Stamp, ReleaseLock, DeleteLock, DeleteFails,
     AwaitLock, CopyRaises, Abort, LoadDex, ClearFirstrun, TimesOut, Killed
<1> QED BY <1>1, <1>2, SetAt DEF ProcessFrame

\* Past the wait for the installer, whose locks a process then leaves alone
\* but for clearing firstrun.lock.
GoesOn(p) ==
  /\ overlap' = overlap /\ app[p].pc # "off"
  /\ app'[p].clean => app[p].clean
  /\ app'[p].paused => app[p].paused
  /\ app'[p].pc \notin {"off", "run"} => Starting(p) /\ app'[p].pc # "wait"
  /\ app[p].pc = "wait" => app'[p].pc = "off"
  /\ app'[p].srcTime \in {0, app[p].srcTime} \cup {dev[f].mtime : f \in Files}
  /\ firstrunLock' = firstrunLock \/ (Starting(p) /\ firstrunLock' = "clear")
  /\ \A f \in Files :
       \/ local'[f] = local[f]
       \/ Starting(p) /\ local'[f].mtime \in {Now, app[p].srcTime}

LEMMA Onwards ==
  ASSUME Typed, NEW p \in Process, ProcessStep(p), ~Start(p), ~Wait(p)
  PROVE  GoesOn(p)
<1>1. app[p] \in Proc /\ Shaped(app[p])
  BY ProcTyped
<1> DEFINE Keeps(pc) == /\ app'[p].pc = pc /\ app'[p].clean = app[p].clean
                        /\ app'[p].paused = app[p].paused
                        /\ app'[p].srcTime = app[p].srcTime
           Same == UNCHANGED <<overlap, firstrunLock, local>>
<1>2. ASSUME NEW pc \in At \ {"off", "wait"}, Starting(p), Keeps(pc), Same
      PROVE  GoesOn(p)
  BY <1>1, <1>2 DEF GoesOn, Starting, At
<1>3. CASE ImportLibs(p) \/ ImportDex(p)
  <2>1. PICK pc \in {"await", "open", "dex", "load"}, dir \in Dir :
          app'[p] \in {[app[p] EXCEPT !.pc = pc], [app[p] EXCEPT !.pc = pc, !.dir = dir]}
    <3>1. \A proc : Set(p, proc) => app'[p] = proc
      BY SetAt
    <3> QED BY <1>3, <3>1 DEF ImportLibs, ImportDex, Copy, Dir
  <2>2. Keeps(pc)
    BY <1>1, <2>1 DEF Proc
  <2>3. Starting(p) /\ Same
    BY <1>3 DEF ImportLibs, ImportDex, Starting, devVars, dataVars
  <2> QED BY <1>2, <2>1, <2>2, <2>3 DEF At
<1>4. CASE OpenLock(p) \/ TryLock(p) \/ LockFails(p) \/ ReleaseLock(p)
  <2>1. \/ \E fd : app'[p] = [app[p] EXCEPT !.pc = "try", !.fd = fd]
        \/ \E left : app'[p] = [app[p] EXCEPT !.pc = "copy", !.left = left]
        \/ app'[p] = [app[p] EXCEPT !.pc = "await", !.fd = 0]
        \/ app'[p] = [app[p] EXCEPT !.pc = "await", !.fd = 0, !.misled = TRUE]
        \/ app'[p] = [app[p] EXCEPT !.pc = "delete", !.fd = 0]
    <3>1. \A proc : Set(p, proc) => app'[p] = proc
      BY SetAt
    <3>2. CASE OpenLock(p)
      BY <3>1, <3>2, Zenon DEF OpenLock
    <3>3. CASE TryLock(p)
      BY <3>1, <3>3, Zenon DEF TryLock
    <3>4. CASE LockFails(p)
      BY <3>1, <3>4, Zenon DEF LockFails
    <3>5. CASE ReleaseLock(p)
      BY <3>1, <3>5, Zenon DEF ReleaseLock
    <3> QED BY <1>4, <3>2, <3>3, <3>4, <3>5
  <2>2. \E pc \in {"try", "copy", "await", "delete"} : Keeps(pc)
    BY <1>1, <2>1 DEF Proc
  <2>3. Starting(p) /\ Same
    BY <1>4 DEF OpenLock, TryLock, LockFails, ReleaseLock, Starting, devVars, dataVars
  <2> QED BY <1>2, <2>2, <2>3 DEF At
<1>5. CASE DeleteLock(p) \/ AwaitLock(p)
  <2>1. app'[p] \in {[app[p] EXCEPT !.pc = AfterCopy(p), !.dir = "lib"],
                     [app[p] EXCEPT !.pc = AfterCopy(p), !.dir = "lib",
                                    !.misled = @ \/ app[p].dir \in mishap]}
    BY <1>5, SetAt DEF DeleteLock, AwaitLock
  <2>2. AfterCopy(p) \in {"dex", "load"} /\ Keeps(AfterCopy(p))
    BY <1>1, <2>1 DEF AfterCopy, Proc
  <2>3. Starting(p) /\ Same
    BY <1>5 DEF DeleteLock, AwaitLock, Starting, devVars, dataVars
  <2> QED BY <1>2, <2>2, <2>3 DEF At
<1>6. CASE \E f \in Files : CheckFile(p, f)
  <2>1. PICK f \in Files : CheckFile(p, f)
    BY <1>6
  <2>2. app[p].pc = "copy" /\ Starting(p) /\ Same
    BY <2>1 DEF CheckFile, Starting, devVars, dataVars
  <2>3. \/ app'[p] = [app[p] EXCEPT !.left = @ \ {f}]
        \/ app'[p] = [app[p] EXCEPT !.pc = "truncate", !.cur = f, !.srcTime = dev[f].mtime]
    BY <2>1, SetAt DEF CheckFile
  <2>4. /\ app'[p].pc \in {"copy", "truncate"} /\ app'[p].clean = app[p].clean
        /\ app'[p].paused = app[p].paused
        /\ app'[p].srcTime \in {app[p].srcTime, dev[f].mtime}
    BY <1>1, <2>2, <2>3 DEF Proc
  <2> QED BY <2>2, <2>4 DEF GoesOn, Starting
<1>7. CASE Truncate(p) \/ Transfer(p) \/ Stamp(p)
  <2> DEFINE g == app[p].cur
  <2>1. /\ app[p].pc \in Writing /\ Starting(p)
        /\ UNCHANGED <<overlap, firstrunLock>>
    BY <1>7 DEF Truncate, Transfer, Stamp, Writing, Copying, Starting, devVars
  <2>2. app'[p].pc \in {"transfer", "stamp", "copy"} /\ app'[p].clean = app[p].clean
        /\ app'[p].paused = app[p].paused /\ app'[p].srcTime \in {0, app[p].srcTime}
    <3>1. \A proc : Set(p, proc) => app'[p] = proc
      BY SetAt
    <3>2. CASE Truncate(p)
      BY <1>1, <3>1, <3>2 DEF Truncate, Proc
    <3>3. CASE Transfer(p)
      BY <1>1, <3>1, <3>3 DEF Transfer, Proc
    <3>4. CASE Stamp(p)
      <4>1. app'[p] = [app[p] EXCEPT !.pc = "copy", !.left = @ \ {app[p].cur},
                                      !.cur = None, !.srcTime = 0]
        BY <3>4, SetAt DEF Stamp
      <4> QED BY <1>1, <4>1 DEF Proc
    <3> QED BY <1>7, <3>2, <3>3, <3>4
  <2>3. /\ local \in [Files -> FileState] /\ g \in Files
        /\ \A f \in Files : f # g => local'[f] = local[f]
        /\ local'[g].mtime \in {Now, app[p].srcTime}
    <3>1. local \in [Files -> FileState]
      BY DEF Typed, StateOK, Files
    <3>2. g \in Files
      BY <1>1, <2>1 DEF Shaped, Writing, Copying, FilesOf, Libs, Dexes, Files
    <3> QED BY <1>7, <3>1, <3>2 DEF Truncate, Transfer, Stamp, TimeMeanwhile, FileState
  <2> QED BY <1>1, <2>1, <2>2, <2>3 DEF GoesOn, Starting, Writing, Copying
<1>8. CASE Set(p, Off) /\ app[p].pc # "off" /\ Same
  <2>1. app'[p] = Off
    BY <1>8, SetAt
  <2> QED BY <1>8, <2>1 DEF GoesOn, Off
<1>9. CASE DeleteFails(p) \/ TimesOut(p) \/ Killed(p) \/ Abort(p)
  BY <1>8, <1>9 DEF DeleteFails, TimesOut, Killed, Abort, devVars, dataVars
<1>11. CASE CopyRaises(p)
  <2>1. /\ app'[p] = [app[p] EXCEPT !.pc = "abort", !.fd = 0, !.left = {}, !.cur = None,
                                     !.srcTime = 0]
        /\ Starting(p) /\ Same
    BY <1>11, SetAt DEF CopyRaises, Copying, Starting, devVars
  <2>2. /\ app'[p].pc = "abort" /\ app'[p].clean = app[p].clean
        /\ app'[p].paused = app[p].paused /\ app'[p].srcTime = 0
    BY <1>1, <2>1 DEF Proc
  <2> QED BY <2>1, <2>2 DEF GoesOn, Starting
<1>10. CASE LoadDex(p) \/ ClearFirstrun(p)
  <2>1. /\ app[p].pc \in {"load", "clear"} /\ overlap' = overlap /\ local' = local
        /\ firstrunLock' = firstrunLock \/ firstrunLock' = "clear"
    BY <1>10 DEF LoadDex, ClearFirstrun, devVars, dataVars
  <2>2. app'[p] \in {Off, [app[p] EXCEPT !.pc = "clear"], Running(p)}
    <3>1. \A proc : Set(p, proc) => app'[p] = proc
      BY SetAt
    <3> QED BY <1>10, <3>1 DEF LoadDex, ClearFirstrun
  <2>3. CASE app'[p] = Off
    BY <2>1, <2>3 DEF GoesOn, Off, Starting
  <2>4. CASE app'[p] = [app[p] EXCEPT !.pc = "clear"]
    BY <1>1, <2>1, <2>4 DEF GoesOn, Starting, Proc
  <2>5. CASE app'[p] = Running(p)
    BY <2>1, <2>5 DEF GoesOn, Starting, Running, Off
  <2> QED BY <2>2, <2>3, <2>4, <2>5
<1> QED BY <1>3, <1>4, <1>5, <1>6, <1>7, <1>9, <1>10, <1>11 DEF ProcessStep, Files
-----------------------------------------------------------------------------
(* InstallInv, with what it gives of FirstRunWaits.                        *)

Safe == Typed /\ InstallInv /\ FirstRunWaits

LEMMA TimesTyped ==
  ASSUME Typed
  PROVE  /\ round \in Nat /\ round \in Round /\ config.installs \in Nat
         /\ Now \notin 0..round /\ 0 \in 0..round /\ 0 # Now
         /\ \A f \in Files : host[f] \in Content
         /\ (round < config.installs => Now \notin 0..(round + 1))
<1>1. /\ config \in Configuration /\ round \in 0..config.installs
      /\ host \in [Files -> Content]
  BY DEF Typed, StateOK, Files
<1>2. config.installs \in 0..MaxInstalls /\ MaxInstalls \in Nat
  BY <1>1, ConfigTyped, Constants
<1> QED BY <1>1, <1>2, Constants DEF Round

LEMMA InitSafe == Init => Safe
<1> SUFFICES ASSUME Init PROVE Safe
  OBVIOUS
<1>1. Typed
  BY InitTyped
<1>2. \A f \in Files : /\ dev[f].mtime \in {0, Now}
                       /\ dev[f].mtime = Now <=> dev[f].data = Partial
                       /\ whole => dev[f].data = host[f]
                       /\ cache # None => cache = host /\ dev[f].data = host[f]
  <2> SUFFICES ASSUME NEW f \in Files
               PROVE  /\ dev[f].mtime \in {0, Now}
                      /\ dev[f].mtime = Now <=> dev[f].data = Partial
                      /\ whole => dev[f].data = host[f]
                      /\ cache # None => cache = host /\ dev[f].data = host[f]
    OBVIOUS
  <2>1. CASE Fresh
    BY <2>1, <1>1, TimesTyped, Constants DEF Fresh, Nothing, NoFile, Files
  <2>2. CASE Installed
    BY <2>2, <1>1, TimesTyped, Constants DEF Installed, Files
  <2>3. CASE Broken
    <3>1. dev[f] \in [data : {Partial}, mtime : {Now}] \cup [data : Content, mtime : {0}]
      BY <2>3 DEF Broken, Files
    <3> QED BY <2>3, <3>1, <1>1, TimesTyped, Constants DEF Broken
  <2> QED BY <2>1, <2>2, <2>3 DEF Init
<1>3. \A p \in Process : app[p] = Off
  BY DEF Init
<1>4. GoneInv
  BY <1>3 DEF GoneInv, Init
<1>5. PushInv
  BY <1>2 DEF PushInv, Init, Files
<1>6. LocksInv
  <2>1. installLock = "clear" \/ firstrunLock = "clear" => whole
    BY DEF Init, Fresh, Installed, Broken
  <2>2. \A f \in Files : host[f] # Partial
    BY <1>1, TimesTyped, Constants
  <2> QED BY <1>2, <1>3, <2>1, <2>2
       DEF LocksInv, LocksHeld, Pushing, Starting, Init, Off, Files
<1>7. TimesInv
  <2>1. \A f \in Files : local[f].mtime = 0
    BY DEF Init, Nothing, NoFile, Files
  <2> QED BY <1>1, <1>2, <1>3, <2>1, TimesTyped DEF TimesInv, Init, Off, Files
<1>8. CleanInv /\ FirstRunWaits
  BY <1>3 DEF CleanInv, FirstRunWaits, Off
<1> QED BY <1>1, <1>4, <1>5, <1>6, <1>7, <1>8 DEF Safe, InstallInv

\* Who starts needs the apk, and a process that goes on has it.
LEMMA ProcessGone ==
  ASSUME Safe, NEW p \in Process, ProcessStep(p)
  PROVE  GoneInv' /\ PushInv'
<1>1. ProcessFrame(p)
  BY Frame DEF Safe
<1>2. apk
  <2>1. CASE Start(p)
    BY <2>1 DEF Start
  <2>2. CASE Wait(p)
    BY <2>2 DEF Wait, Safe, InstallInv, GoneInv, Off
  <2>3. CASE GoesOn(p)
    BY <2>3 DEF GoesOn, Safe, InstallInv, GoneInv, Off
  <2> QED BY <2>1, <2>2, <2>3, Onwards DEF Safe
<1>3. GoneInv'
  BY <1>1, <1>2 DEF GoneInv, ProcessFrame, Safe, InstallInv, hostVars
<1>4. PushInv'
  BY <1>1 DEF PushInv, ProcessFrame, Safe, InstallInv, hostVars
<1> QED BY <1>3, <1>4

\* What holds of the processes after a step of p, when it holds of p and no
\* lock or time has changed but to what it may be.
LEMMA OnwardsSafe ==
  ASSUME Safe, NEW p \in Process, GoesOn(p), ProcessFrame(p)
  PROVE  LocksInv' /\ TimesInv' /\ CleanInv' /\ FirstRunWaits'
<1> USE DEF Safe, InstallInv, GoesOn, ProcessFrame, hostVars
<1>1. \A q \in Process : Starting(q)' => Starting(q)
  BY DEF Starting
<1>2. UNCHANGED <<Pushing, LocksHeld>>
  BY DEF Pushing, LocksHeld
<1>3. \A q \in Process : app'[q].paused => app[q].paused
  OBVIOUS
<1>4. LocksInv'
  <2>1. CASE firstrunLock' = firstrunLock
    BY <1>1, <1>2, <1>3, <2>1 DEF LocksInv
  <2>2. CASE Starting(p) /\ firstrunLock' = "clear"
    <3>1. LocksHeld \/ (\E q \in Process : app[q].paused) => overlap
      BY <2>2 DEF LocksInv
    <3>2. overlap \/ \A f \in config.files : dev[f].data # Partial
      BY <2>2 DEF LocksInv
    <3> QED BY <1>1, <1>2, <1>3, <2>2, <3>1, <3>2 DEF LocksInv
  <2> QED BY <2>1, <2>2
<1>5. TimesInv'
  <2>1. /\ \A f \in config.files : dev[f].mtime \in 0..round \cup {Now}
        /\ \A q \in Process : app[q].srcTime \in 0..round \cup {Now}
        /\ 0 \in 0..round
    BY TimesTyped DEF TimesInv
  <2>2. Starting(p) /\ Pushing => overlap
    BY DEF LocksInv
  <2>3. \A q \in Process : app'[q].srcTime \in 0..round \cup {Now}
    BY <2>1 DEF Files
  <2>4. \A f \in config.files : local'[f].mtime \in 0..round \cup {Now}
    BY <2>1 DEF Files, TimesInv
  <2>5. \A f \in config.files : Pushing /\ ~overlap => local'[f] = local[f]
    BY <2>2 DEF Files
  <2> QED BY <2>1, <2>3, <2>4, <2>5 DEF TimesInv, Pushing
<1>6. CleanInv'
  BY <1>2 DEF CleanInv
<1>7. FirstRunWaits'
  BY DEF FirstRunWaits, Starting
<1> QED BY <1>4, <1>5, <1>6, <1>7

\* A process that starts, or finds the lock it waited for released.
Enters(p) ==
  /\ UNCHANGED <<firstrunLock, local>>
  /\ overlap => overlap'
  /\ app'[p].srcTime \in 0..round \cup {Now}
  /\ app'[p].clean => Settled
  /\ \/ app'[p].pc = "wait" /\ (app'[p].paused => LocksHeld)
     \/ /\ ~app'[p].paused \/ (p \in config.isolated /\ overlap)
        /\ app'[p].paused => app[p].paused
        /\ Pushing => overlap'
        /\ installLock = "clear" \/ firstrunLock = "clear"

LEMMA StartEnters ==
  ASSUME Safe, NEW p \in Process, Start(p) \/ Wait(p)
  PROVE  Enters(p)
<1>1. app[p] \in Proc /\ 0 \in 0..round /\ app[p].srcTime \in 0..round \cup {Now}
  BY ProcTyped, TimesTyped DEF Safe, InstallInv, TimesInv
<1>2. UNCHANGED <<firstrunLock, local>>
  BY DEF Start, Wait, devVars, dataVars
<1>3. CASE Start(p)
  <2> DEFINE first == firstrunLock # "clear"
  <2>1. /\ app'[p] = [Off EXCEPT !.pc = IF first THEN "wait" ELSE "lib",
                                 !.first = first, !.clean = Settled,
                                 !.paused = first /\ LocksHeld,
                                 !.misled = ~first /\ Trusting(p)]
        /\ overlap' = (overlap \/ (~first /\ Pushing))
    BY <1>3, SetAt DEF Start, Safe
  <2>2. /\ app'[p].pc = (IF first THEN "wait" ELSE "lib") /\ app'[p].clean = Settled
        /\ app'[p].paused = (first /\ LocksHeld) /\ app'[p].srcTime = 0
    BY <2>1 DEF Off
  <2> QED BY <1>1, <1>2, <2>1, <2>2 DEF Enters
<1>4. CASE Wait(p)
  <2>1. /\ app'[p] = [app[p] EXCEPT !.pc = "lib", !.clean = Settled, !.misled = Trusting(p)]
        /\ app[p].pc = "wait" /\ LockToWaitFor(p) = "clear"
        /\ overlap' = (overlap \/ Pushing)
    BY <1>4, SetAt DEF Wait, Safe
  <2>2. /\ app'[p].clean = Settled /\ app'[p].paused = app[p].paused
        /\ app'[p].srcTime = app[p].srcTime
    BY <1>1, <2>1 DEF Proc
  <2>3. app[p].paused => p \in config.isolated /\ overlap
    BY <2>1 DEF Safe, InstallInv, LocksInv, LockToWaitFor
  <2>4. installLock = "clear" \/ firstrunLock = "clear"
    BY <2>1 DEF LockToWaitFor
  <2> QED BY <1>1, <1>2, <2>1, <2>2, <2>3, <2>4 DEF Enters
<1> QED BY <1>3, <1>4

LEMMA EntersSafe ==
  ASSUME Safe, NEW p \in Process, Enters(p), ProcessFrame(p)
  PROVE  LocksInv' /\ TimesInv' /\ CleanInv' /\ FirstRunWaits'
<1> USE DEF Safe, InstallInv, Enters, ProcessFrame, hostVars
<1>1. UNCHANGED <<Pushing, LocksHeld, Settled>>
  BY DEF Pushing, LocksHeld, Settled
<1>2. LocksInv'
  <2>1. \A q \in Process : app'[q].paused => app[q].paused \/ (q = p /\ LocksHeld)
    OBVIOUS
  <2>2. \A q \in Process : Starting(q)' =>
          \/ Starting(q)
          \/ q = p /\ (Pushing => overlap') /\ (installLock = "clear" \/ firstrunLock = "clear")
    BY DEF Starting
  <2> QED BY <1>1, <2>1, <2>2 DEF LocksInv
<1>3. TimesInv'
  BY DEF TimesInv
<1>4. CleanInv'
  <2>1. Settled => ~Pushing /\ \A f \in config.files : dev[f].data = host[f]
    BY DEF Settled, Pushing, PushInv
  <2> QED BY <1>1, <2>1 DEF CleanInv
<1>5. FirstRunWaits'
  BY DEF FirstRunWaits
<1> QED BY <1>2, <1>3, <1>4, <1>5

LEMMA ProcessSafe ==
  ASSUME Safe, NEW p \in Process, ProcessStep(p)
  PROVE  Safe'
<1>1. Typed' /\ ProcessFrame(p)
  <2>1. Next
    BY DEF Next
  <2> QED BY <2>1, Frame, NextTyped DEF Safe
<1>2. GoneInv' /\ PushInv'
  BY ProcessGone
<1>3. LocksInv' /\ TimesInv' /\ CleanInv' /\ FirstRunWaits'
  <2>1. CASE Start(p) \/ Wait(p)
    BY <1>1, <2>1, StartEnters, EntersSafe
  <2>2. CASE ~Start(p) /\ ~Wait(p)
    BY <1>1, <2>2, Onwards, OnwardsSafe DEF Safe
  <2> QED BY <2>1, <2>2
<1> QED BY <1>1, <1>2, <1>3 DEF Safe, InstallInv

LEMMA InstallSafe ==
  ASSUME Safe, Install
  PROVE  Safe'
<1> USE DEF Safe, InstallInv, Install, devVars, dataVars
<1>1. Typed' /\ app \in [Process -> Proc]
  BY InstallTyped, TypeParts DEF Typed, AppTyped
<1>2. /\ phase = "idle" /\ phase' = "setup" /\ todo' = Lock /\ ~whole' /\ known = None
      /\ round' = round + 1 /\ round < config.installs
      /\ UNCHANGED <<known, cache, config, apk, installLock, firstrunLock, dev, local>>
  BY Tasks DEF PushInv
<1>3. \A p \in Process : /\ app'[p] = [app[p] EXCEPT !.clean = FALSE, !.paused = FALSE]
                         /\ app'[p].pc = app[p].pc /\ app'[p].srcTime = app[p].srcTime
                         /\ ~app'[p].clean /\ ~app'[p].paused
  BY <1>1 DEF Proc
<1>4. GoneInv'
  <2>1. [Off EXCEPT !.clean = FALSE, !.paused = FALSE] = Off
    <3>1. \A proc \in Proc : ~proc.clean /\ ~proc.paused =>
            [proc EXCEPT !.clean = FALSE, !.paused = FALSE] = proc
      BY DEF Proc
    <3>2. Off \in Proc /\ Off.clean = FALSE /\ Off.paused = FALSE
      BY OffTyped DEF Off
    <3> QED BY <3>1, <3>2
  <2>2. \A p \in Process : ~apk => app'[p] = Off
    BY <1>3, <2>1 DEF GoneInv
  <2>3. Nothing' = Nothing
    BY <1>2 DEF Nothing
  <2>4. ~apk => local = Nothing
    BY DEF GoneInv
  <2> HIDE DEF Safe, InstallInv, Install
  <2> QED BY <1>2, <2>2, <2>3, <2>4 DEF GoneInv
<1>5. PushInv'
  BY <1>2 DEF PushInv, Lock
<1>6. LocksInv'
  <2>1. overlap' \/ \A p \in Process : ~Starting(p)'
    BY <1>3 DEF Starting
  <2>2. overlap => overlap'
    OBVIOUS
  <2>3. ~LocksHeld'
    BY <1>2 DEF LocksHeld, Lock
  <2> QED BY <1>2, <1>3, <2>1, <2>2, <2>3 DEF LocksInv, Lock, Pushing
<1>7. TimesInv'
  <2>1. Now \notin 0..round' /\ 0..round \subseteq 0..round' /\ round' \notin 0..round
        /\ round' # Now
    <3> HIDE DEF Safe, InstallInv, Install
    <3>1. round \in Nat /\ round' = round + 1 /\ Now \notin 0..(round + 1)
      BY <1>2, TimesTyped DEF Safe
    <3> QED BY <3>1
  <2>2. \A f \in config.files : /\ dev[f].mtime \in 0..round \cup {Now}
                               /\ local[f].mtime \in 0..round \cup {Now}
    BY DEF TimesInv
  <2>3. \A p \in Process : app[p].srcTime \in 0..round \cup {Now}
    BY DEF TimesInv
  <2> HIDE DEF Safe, InstallInv, Install
  <2> QED BY <1>2, <1>3, <2>1, <2>2, <2>3 DEF TimesInv
<1>8. CleanInv' /\ FirstRunWaits'
  BY <1>3 DEF CleanInv, FirstRunWaits
<1> QED BY <1>1, <1>4, <1>5, <1>6, <1>7, <1>8

\* The tasks of the first phase: the locks are taken in order, and the last
\* task to end finds both taken.
LEMMA SetupSafe ==
  ASSUME Safe, LockInstall \/ LockFirstrun \/ RestoreCache
  PROVE  InstallInv' /\ FirstRunWaits'
<1> DEFINE task == IF LockInstall THEN "install.lock"
                   ELSE IF LockFirstrun THEN "firstrun.lock" ELSE "restore"
<1>1. /\ UNCHANGED <<round, host, config, apk, dev, local, app, overlap>>
      /\ task \in todo /\ task \in Lock /\ Finish(task)
  BY DEF LockInstall, LockFirstrun, RestoreCache, devVars, dataVars, Lock
<1>2. /\ phase = "setup" /\ ~whole /\ ~whole'
      /\ \/ phase' = "setup" /\ todo' = todo \ {task}
         \/ phase' = "push" /\ todo' = {"apk"} \cup Files /\ todo = {task}
  <2>1. phase = "setup" /\ ~whole
    BY <1>1, TaskPhase DEF Safe, Typed, InstallInv, PushInv
  <2> QED BY <1>1, <2>1, Finished DEF Safe, Typed
<1>3. \A p \in Process : ~app[p].clean
  BY <1>2 DEF Safe, InstallInv, CleanInv, Pushing
<1>4. GoneInv'
  <2>1. Nothing' = Nothing
    BY <1>1 DEF Nothing
  <2> QED BY <1>1, <1>2, <2>1 DEF GoneInv, Safe, InstallInv
<1>5. TimesInv'
  BY <1>1, <1>2 DEF TimesInv, Safe, InstallInv
<1>6. CleanInv' /\ FirstRunWaits'
  BY <1>1, <1>3 DEF CleanInv, FirstRunWaits, Safe
<1>7. /\ LockFirstrun => "install.lock" \notin todo
      /\ LockInstall => todo # {"install.lock"}
      /\ "firstrun.lock" \notin todo => "install.lock" \notin todo
  BY <1>2 DEF Safe, InstallInv, LocksInv, LockFirstrun, InOrder
<1>8. /\ installLock' = (IF task = "install.lock" THEN "locked" ELSE installLock)
      /\ firstrunLock' = (IF task = "firstrun.lock" THEN "locked" ELSE firstrunLock)
      /\ task = "install.lock" <=> LockInstall
      /\ task = "firstrun.lock" => LockFirstrun
      /\ task = "restore" => known' = cache /\ cache # Empty /\ cache' = None
      /\ task # "restore" => known' = known /\ cache' = cache
  BY DEF LockInstall, LockFirstrun, RestoreCache, CacheLeft, devVars
<1> HIDE DEF task
<1>9. PushInv'
  <2>1. \A f \in config.files : cache \notin {None, Empty} => dev[f].data = cache[f]
    BY DEF Safe, InstallInv, PushInv
  <2>2. \A f \in config.files : known # None => dev[f].data = known[f]
    BY <1>2 DEF Safe, InstallInv, PushInv
  <2>3. cache' # None => phase' = "setup" /\ "restore" \in todo'
    BY <1>2, <1>8 DEF Safe, InstallInv, PushInv, Lock
  <2>4. \A f \in config.files : known' # None => dev[f].data = known'[f]
    BY <1>1, <1>8, <2>1, <2>2 DEF Lock
  <2>5. phase' = "push" => config.files \ todo' = {}
    BY <1>2 DEF Files
  <2>6. cache' # None => cache' = cache
    BY <1>8
  <2>7. phase' \in DOMAIN After
    BY <1>2, Tasks
  <2>8. \A f \in config.files : dev[f].mtime = Now <=> dev[f].data = Partial
    BY DEF Safe, InstallInv, PushInv
  <2> QED BY <1>1, <1>2, <2>1, <2>3, <2>4, <2>5, <2>6, <2>7, <2>8 DEF PushInv
<1>10. LocksInv'
  <2>1. /\ "install.lock" \notin todo => installLock = "locked"
        /\ "firstrun.lock" \notin todo => installLock = "locked"
                                          /\ (overlap \/ firstrunLock = "locked")
        /\ overlap \/ \A p \in Process : ~Starting(p)
        /\ \A p \in Process : app[p].paused =>
             installLock = "locked" /\ (overlap \/ firstrunLock = "locked")
        /\ installLock = "clear" \/ (firstrunLock = "clear" /\ ~overlap) =>
             \A f \in config.files : dev[f].data # Partial
    BY <1>2 DEF Safe, InstallInv, LocksInv, LocksHeld, Pushing
  <2>2. /\ "install.lock" \notin todo' => installLock' = "locked"
        /\ "firstrun.lock" \notin todo' \/ phase' = "push" =>
             /\ installLock' = "locked" /\ (overlap \/ firstrunLock' = "locked")
             /\ phase' = "setup" => "install.lock" \notin todo'
    BY <1>1, <1>2, <1>7, <1>8, <2>1 DEF Lock
  <2>3. /\ installLock' \in {installLock, "locked"}
        /\ firstrunLock' \in {firstrunLock, "locked"}
    BY <1>8
  <2>4. LocksHeld' => "firstrun.lock" \notin todo' \/ phase' = "push"
    BY <1>2 DEF LocksHeld
  <2>5. \A p \in Process : Starting(p)' = Starting(p)
    BY <1>1 DEF Starting
  <2> QED BY <1>1, <1>2, <2>1, <2>2, <2>3, <2>4, <2>5 DEF LocksInv
<1> QED BY <1>4, <1>5, <1>6, <1>9, <1>10 DEF InstallInv

LEMMA ApkSafe ==
  ASSUME Safe, InstallApk
  PROVE  InstallInv' /\ FirstRunWaits'
<1>1. /\ UNCHANGED <<round, host, known, cache, config, installLock, firstrunLock, dev,
                     local, overlap>>
      /\ apk' = TRUE /\ "apk" \in todo /\ Finish("apk")
  BY DEF InstallApk
<1>2. /\ phase = "push" /\ ~whole /\ ~whole'
      /\ \/ phase' = "push" /\ todo' = todo \ {"apk"}
         \/ phase' = "finalize" /\ todo' = Final /\ todo = {"apk"}
  <2>1. phase = "push" /\ ~whole
    BY <1>1, TaskPhase DEF Safe, Typed, InstallInv, PushInv
  <2> QED BY <1>1, <2>1, Finished DEF Safe, Typed
<1>3. "apk" \notin Files
  <2>1. Files \subseteq File
    BY ConfigTyped DEF Safe, Typed, StateOK
  <2> QED BY <2>1, InstallAssumption
<1>4. \A p \in Process : app'[p] = app[p] \/ app'[p] = Off
  BY DEF InstallApk
<1>5. \A p \in Process : ~app[p].clean /\ ~app'[p].clean
  BY <1>2, <1>4 DEF Safe, InstallInv, CleanInv, Pushing, Off
<1>6. GoneInv'
  BY <1>1, <1>2 DEF GoneInv
<1>7. TimesInv'
  <2>1. \A p \in Process : app'[p].srcTime \in 0..round \cup {Now}
    BY <1>4, TimesTyped DEF Safe, InstallInv, TimesInv, Off
  <2>2. \A f \in config.files : phase' = "push" /\ f \in todo' => f \in todo
    BY <1>2
  <2> QED BY <1>1, <1>2, <2>1, <2>2 DEF TimesInv, Safe, InstallInv
<1>8. CleanInv' /\ FirstRunWaits'
  <2>1. FirstRunWaits'
    BY <1>1, <1>4 DEF FirstRunWaits, Safe, Off
  <2> QED BY <1>5, <2>1 DEF CleanInv
<1>9. PushInv'
  <2>1. \A f \in config.files : f \in todo' /\ phase' = "push" <=> f \in todo
    BY <1>2, <1>3 DEF Files
  <2>2. phase' = "finalize" => "save" \in todo'
    BY <1>2 DEF Final
  <2> QED BY <1>1, <1>2, <2>1, <2>2, Tasks DEF PushInv, Safe, InstallInv, Files
<1>10. LocksInv'
  <2>1. /\ installLock = "locked" /\ (overlap \/ firstrunLock = "locked")
        /\ overlap \/ \A p \in Process : ~Starting(p)
    BY <1>2 DEF Safe, InstallInv, LocksInv, LocksHeld, Pushing
  <2>2. \A p \in Process : Starting(p)' => Starting(p)
    BY <1>4 DEF Starting, Off
  <2>3. \A p \in Process : app'[p].paused => app[p].paused
    BY <1>4 DEF Off
  <2> QED BY <1>1, <1>2, <2>1, <2>2, <2>3 DEF LocksInv, Safe, InstallInv
<1> QED BY <1>6, <1>7, <1>8, <1>9, <1>10 DEF InstallInv

\* While files are pushed both locks are held, nobody is starting that was
\* not seen to, and no process counts on what the device has.
LEMMA WhilePushing ==
  ASSUME Safe, phase = "push"
  PROVE  /\ installLock = "locked" /\ (overlap \/ firstrunLock = "locked")
         /\ overlap \/ \A p \in Process : ~Starting(p)
         /\ \A p \in Process : ~app[p].clean
         /\ ~whole /\ cache = None
         /\ \A f \in Files \ todo : dev[f].data = host[f]
BY DEF Safe, InstallInv, LocksInv, LocksHeld, Pushing, CleanInv, PushInv, Files

\* A file is done: nothing to push, or the push ends.
LEMMA PushedSafe ==
  ASSUME Safe, NEW f \in Files, PushNothing(f) \/ PushEnd(f)
  PROVE  InstallInv' /\ FirstRunWaits'
<1>1. /\ UNCHANGED <<round, host, known, cache, config, apk, installLock, firstrunLock,
                     local, app, overlap>>
      /\ f \in todo /\ Finish(f)
  BY DEF PushNothing, PushEnd, Turn, devVars, dataVars
<1>2. /\ phase = "push" /\ ~whole'
      /\ \/ phase' = "push" /\ todo' = todo \ {f}
         \/ phase' = "finalize" /\ todo' = Final /\ todo = {f}
  <2>1. phase = "push"
    BY <1>1, TaskPhase DEF Safe, Typed
  <2> QED BY <1>1, <2>1, WhilePushing, Finished DEF Safe, Typed
<1>3. /\ installLock = "locked" /\ (overlap \/ firstrunLock = "locked")
      /\ overlap \/ \A p \in Process : ~Starting(p)
      /\ \A p \in Process : ~app[p].clean
      /\ cache = None
      /\ \A g \in Files \ todo : dev[g].data = host[g]
  BY <1>2, WhilePushing
<1>4. /\ \A g \in Files : g # f => dev'[g] = dev[g]
      /\ dev'[f].data = host[f]
      /\ dev'[f] = dev[f] \/ (dev'[f].mtime = round /\ host[f] \in Content)
  <2>1. CASE PushNothing(f)
    <3>1. dev[f].data = host[f]
      BY <1>1, <1>2, <2>1 DEF PushNothing, UpToDate, Safe, InstallInv, PushInv, Files
    <3> QED BY <2>1, <3>1 DEF PushNothing, devVars
  <2>2. CASE PushEnd(f)
    <3>1. dev' = [dev EXCEPT ![f] = [data |-> host[f], mtime |-> round]]
      BY <2>2 DEF PushEnd
    <3>2. dev \in [Files -> FileState] /\ host[f] \in Content
      BY DEF Safe, Typed, StateOK, Files
    <3> QED BY <3>1, <3>2
  <2> QED BY <2>1, <2>2
<1>5. GoneInv'
  <2>1. Nothing' = Nothing
    BY <1>1 DEF Nothing
  <2> QED BY <1>1, <1>2, <2>1 DEF GoneInv, Safe, InstallInv
<1>6. TimesInv'
  <2>1. \A g \in config.files : dev'[g].mtime \in 0..round \cup {Now}
    <3>1. round \in 0..round
      BY TimesTyped DEF Safe
    <3> QED BY <1>4, <3>1 DEF TimesInv, Safe, InstallInv, Files
  <2>2. \A g \in config.files : phase' = "push" /\ g \in todo' => g \in todo /\ g # f
    BY <1>2
  <2> QED BY <1>1, <1>2, <1>4, <2>1, <2>2 DEF TimesInv, Safe, InstallInv, Files
<1>7. CleanInv' /\ FirstRunWaits'
  BY <1>1, <1>3 DEF CleanInv, FirstRunWaits, Safe
<1>8. PushInv'
  <2>1. \A g \in config.files : dev'[g].mtime = Now <=> dev'[g].data = Partial
    <3>1. round # Now
      BY TimesTyped DEF Safe
    <3> QED BY <1>4, <3>1, Constants DEF PushInv, Safe, InstallInv, Files
  <2>2. phase' = "push" => \A g \in config.files \ todo' : dev'[g].data = host[g]
    BY <1>2, <1>3, <1>4 DEF Files
  <2>3. phase' = "finalize" => \A g \in config.files : dev'[g].data = host[g]
    BY <1>2, <1>3, <1>4 DEF Files
  <2>4. known # None /\ phase' = "push" => \A g \in config.files \cap todo' :
          dev'[g].data = known[g] \/ (dev'[g].data = Partial /\ known[g] # host[g])
    <3>1. known # None => \A g \in config.files \cap todo :
            dev[g].data = known[g] \/ (dev[g].data = Partial /\ known[g] # host[g])
      BY <1>2 DEF PushInv, Safe, InstallInv
    <3> QED BY <1>2, <1>4, <3>1 DEF Files
  <2>5. phase' \in DOMAIN After /\ (phase' = "finalize" => "save" \in todo')
    BY <1>2, Tasks DEF Final
  <2> QED BY <1>1, <1>2, <1>3, <2>1, <2>2, <2>3, <2>4, <2>5 DEF PushInv
<1>9. LocksInv'
  <2>1. \A p \in Process : Starting(p)' = Starting(p)
    BY <1>1 DEF Starting
  <2> QED BY <1>1, <1>2, <1>3, <2>1 DEF LocksInv, Safe, InstallInv
<1> QED BY <1>5, <1>6, <1>7, <1>8, <1>9 DEF InstallInv

LEMMA PushBeginSafe ==
  ASSUME Safe, NEW f \in Files, PushBegin(f)
  PROVE  InstallInv' /\ FirstRunWaits'
<1>1. /\ UNCHANGED <<phase, todo, round, host, known, cache, config, apk, installLock,
                     firstrunLock, local, app, overlap, whole>>
      /\ f \in todo /\ ~UpToDate(f)
      /\ dev' = [dev EXCEPT ![f] = [data |-> Partial, mtime |-> Now]]
  BY DEF PushBegin, Turn, hostVars, dataVars
<1>2. phase = "push"
  BY <1>1, TaskPhase DEF Safe, Typed
<1>3. /\ installLock = "locked" /\ (overlap \/ firstrunLock = "locked")
      /\ overlap \/ \A p \in Process : ~Starting(p)
      /\ \A p \in Process : ~app[p].clean
      /\ ~whole /\ cache = None
  BY <1>2, WhilePushing
<1>4. /\ \A g \in Files : g # f => dev'[g] = dev[g]
      /\ dev'[f].data = Partial /\ dev'[f].mtime = Now
  <2>1. dev \in [Files -> FileState]
    BY DEF Safe, Typed, StateOK, Files
  <2> QED BY <1>1, <2>1
<1>5. GoneInv'
  <2>1. Nothing' = Nothing
    BY <1>1 DEF Nothing
  <2> QED BY <1>1, <2>1 DEF GoneInv, Safe, InstallInv
<1>6. TimesInv'
  <2>1. round # Now
    BY TimesTyped DEF Safe
  <2> QED BY <1>1, <1>4, <2>1 DEF TimesInv, Safe, InstallInv, Files
<1>7. CleanInv' /\ FirstRunWaits'
  BY <1>1, <1>3 DEF CleanInv, FirstRunWaits, Safe
<1>8. PushInv'
  <2>1. known # None => known[f] # host[f]
    BY <1>1 DEF UpToDate
  <2> QED BY <1>1, <1>2, <1>3, <1>4, <2>1 DEF PushInv, Safe, InstallInv, Files
<1>9. LocksInv'
  <2>1. \A p \in Process : Starting(p)' = Starting(p)
    BY <1>1 DEF Starting
  <2> QED BY <1>1, <1>2, <1>3, <2>1 DEF LocksInv, Safe, InstallInv
<1> QED BY <1>5, <1>6, <1>7, <1>8, <1>9 DEF InstallInv

\* The tasks of the last phase: the device has the build, and nobody pushes.
LEMMA FinalSafe ==
  ASSUME Safe, ReleaseInstallerLock \/ SaveCache
  PROVE  InstallInv' /\ FirstRunWaits'
<1> DEFINE task == IF ReleaseInstallerLock THEN "release" ELSE "save"
<1>1. /\ UNCHANGED <<round, host, config, apk, firstrunLock, dev, local, overlap>>
      /\ task \in todo /\ task \in Final /\ Finish(task)
  BY DEF ReleaseInstallerLock, SaveCache, devVars, dataVars, Final
<1>2. /\ phase = "finalize"
      /\ \/ phase' = "finalize" /\ todo' = todo \ {task} /\ whole' = whole
         \/ phase' = "idle" /\ todo' = {} /\ todo = {task} /\ whole' = TRUE
  <2>1. phase = "finalize"
    BY <1>1, TaskPhase DEF Safe, Typed
  <2> QED BY <1>1, <2>1, Finished DEF Safe, Typed
<1>3. \/ /\ task = "release" /\ installLock' = "clear" /\ UNCHANGED <<known, cache>>
         /\ \A p \in Process : app'[p] = [app[p] EXCEPT !.paused = FALSE]
      \/ task = "save" /\ cache' = host /\ known' = None /\ UNCHANGED <<app, installLock>>
  BY DEF ReleaseInstallerLock, SaveCache, devVars, dataVars
<1> HIDE DEF task
<1>4. \A p \in Process :
        /\ UNCHANGED <<app[p].pc, app[p].srcTime, app[p].clean>>
        /\ app'[p].paused => app[p].paused /\ task = "save"
  <2>1. \A p \in Process : app[p] \in Proc
    BY ProcTyped DEF Safe
  <2> QED BY <1>3, <2>1 DEF Proc
<1>5. \A f \in config.files : dev[f].data = host[f] /\ dev[f].data # Partial
  <2>1. \A f \in config.files : dev[f].data = host[f]
    BY <1>2 DEF PushInv, Safe, InstallInv
  <2> QED BY <2>1, TimesTyped, Constants DEF Safe, Files
<1>6. GoneInv'
  <2>1. Nothing' = Nothing
    BY <1>1 DEF Nothing
  <2>2. apk \/ \A p \in Process : app[p] = Off /\ app'[p] = Off
    <3>1. [Off EXCEPT !.paused = FALSE] = Off
      <4>1. \A proc \in Proc : ~proc.paused => [proc EXCEPT !.paused = FALSE] = proc
        BY DEF Proc
      <4>2. Off \in Proc /\ Off.paused = FALSE
        BY OffTyped DEF Off
      <4> QED BY <4>1, <4>2
    <3> QED BY <1>3, <3>1 DEF GoneInv, Safe, InstallInv
  <2> QED BY <1>1, <1>2, <2>1, <2>2 DEF GoneInv, Safe, InstallInv
<1>7. TimesInv'
  BY <1>1, <1>2, <1>4 DEF TimesInv, Safe, InstallInv
<1>8. CleanInv' /\ FirstRunWaits'
  <2>1. CleanInv'
    BY <1>1, <1>2, <1>4, <1>5 DEF CleanInv, Pushing
  <2> QED BY <1>1, <1>4, <2>1 DEF FirstRunWaits, Safe
<1>9. PushInv'
  <2>1. known' # None => phase' = "finalize" /\ "save" \in todo'
    BY <1>2, <1>3 DEF PushInv, Safe, InstallInv
  <2>2. cache' \notin {None, Empty} => \A f \in config.files : dev[f].data = cache'[f]
    BY <1>3, <1>5 DEF PushInv, Safe, InstallInv
  <2> QED BY <1>1, <1>2, <1>5, <2>1, <2>2, Tasks DEF PushInv, Safe, InstallInv
<1>10. LocksInv'
  <2>1. \A p \in Process : Starting(p)' = Starting(p)
    BY <1>4 DEF Starting
  <2>2. LocksHeld' => task = "save" /\ LocksHeld
    BY <1>2, <1>3 DEF LocksHeld
  <2> QED BY <1>1, <1>2, <1>3, <1>4, <1>5, <2>1, <2>2 DEF LocksInv, Safe, InstallInv, Pushing
<1> QED BY <1>6, <1>7, <1>8, <1>9, <1>10 DEF InstallInv

\* The installer stops, or an uninstall goes on: nobody pushes any more.
LEMMA StopSafe ==
  ASSUME Safe, InstallFails \/ DropCache \/ UninstallFails
  PROVE  InstallInv' /\ FirstRunWaits'
<1>1. /\ UNCHANGED <<round, host, config, apk, installLock, firstrunLock, dev, local, app,
                     overlap, whole>>
      /\ phase' \in {"idle", "removeDir"} /\ phase # "idle"
      /\ phase' = "removeDir" => phase = "dropCache"
      /\ cache' \in {cache, None, Empty} /\ (phase' = "removeDir" => cache' = None)
      /\ known' \in {known, None} /\ (phase \in DOMAIN After => known' = None)
  BY Tasks DEF InstallFails, DropCache, UninstallFails, devVars, dataVars
<1>2. ~whole /\ known' = None
  BY <1>1 DEF PushInv, Safe, InstallInv
<1>3. GoneInv'
  <2>1. Nothing' = Nothing
    BY <1>1 DEF Nothing
  <2> QED BY <1>1, <2>1 DEF GoneInv, Safe, InstallInv
<1>4. TimesInv' /\ FirstRunWaits'
  BY <1>1 DEF TimesInv, FirstRunWaits, Safe, InstallInv
<1>5. CleanInv'
  BY <1>1 DEF CleanInv, Pushing, Safe, InstallInv
<1>6. PushInv'
  BY <1>1, <1>2 DEF PushInv, Safe, InstallInv
<1>7. LocksInv'
  <2>1. \A p \in Process : Starting(p)' = Starting(p)
    BY <1>1 DEF Starting
  <2>2. ~LocksHeld' /\ ~Pushing'
    BY <1>1 DEF LocksHeld, Pushing
  <2> QED BY <1>1, <2>1, <2>2 DEF LocksInv, Safe, InstallInv
<1> QED BY <1>3, <1>4, <1>5, <1>6, <1>7 DEF InstallInv

\* The app goes, with its processes and its data.
LEMMA UninstallSafe ==
  ASSUME Safe, UninstallApp
  PROVE  InstallInv' /\ FirstRunWaits'
<1>1. /\ UNCHANGED <<todo, round, host, known, cache, config, installLock, firstrunLock,
                     dev, overlap>>
      /\ phase = "idle" /\ phase' = "dropCache" /\ ~apk' /\ ~whole' /\ local' = Nothing
      /\ \A p \in Process : app'[p] = Off
  BY DEF UninstallApp
<1>2. Nothing' = Nothing
  BY <1>1 DEF Nothing
<1>3. GoneInv'
  BY <1>1, <1>2 DEF GoneInv
<1>4. TimesInv'
  <2>1. \A f \in config.files : local'[f].mtime = 0
    BY <1>1 DEF Nothing, NoFile
  <2> QED BY <1>1, <2>1, TimesTyped DEF TimesInv, Safe, InstallInv, Off
<1>5. CleanInv' /\ FirstRunWaits'
  BY <1>1 DEF CleanInv, FirstRunWaits, Off
<1>6. PushInv'
  BY <1>1, Tasks DEF PushInv, Safe, InstallInv
<1>7. LocksInv'
  BY <1>1 DEF LocksInv, LocksHeld, Pushing, Starting, Off, Safe, InstallInv
<1> QED BY <1>3, <1>4, <1>5, <1>6, <1>7 DEF InstallInv

\* The directory of the device goes.
LEMMA RemoveSafe ==
  ASSUME Safe, RemoveDir
  PROVE  InstallInv' /\ FirstRunWaits'
<1>1. /\ UNCHANGED <<todo, round, host, known, cache, config, apk, local, app, whole,
                     overlap>>
      /\ phase = "removeDir" /\ phase' = "idle"
      /\ installLock' = "missing" /\ firstrunLock' = "missing"
      /\ dev' = Nothing
  BY DEF RemoveDir, dataVars
<1>2. /\ ~apk /\ local = Nothing /\ (\A p \in Process : app[p] = Off)
      /\ cache = None /\ known = None /\ ~whole
  BY <1>1, Tasks DEF Safe, InstallInv, GoneInv, PushInv
<1>3. \A f \in config.files :
        dev'[f].data = Absent /\ dev'[f].mtime = 0 /\ dev'[f].data # Partial
  BY <1>1, Constants DEF Nothing, NoFile
<1>4. GoneInv'
  <2>1. Nothing' = Nothing
    BY <1>1 DEF Nothing
  <2> QED BY <1>1, <1>2, <2>1 DEF GoneInv
<1>5. TimesInv'
  BY <1>1, <1>2, <1>3, TimesTyped DEF TimesInv, Safe, InstallInv
<1>6. CleanInv' /\ FirstRunWaits'
  BY <1>1, <1>2 DEF CleanInv, FirstRunWaits, Off
<1>7. PushInv'
  BY <1>1, <1>2, <1>3, TimesTyped DEF PushInv, Safe
<1>8. LocksInv'
  BY <1>1, <1>2, <1>3 DEF LocksInv, LocksHeld, Pushing, Starting, Off
<1> QED BY <1>4, <1>5, <1>6, <1>7, <1>8 DEF InstallInv

LEMMA StutterSafe ==
  ASSUME Safe, UNCHANGED vars
  PROVE  InstallInv' /\ FirstRunWaits'
BY DEF Safe, InstallInv, vars, hostVars, devVars, dataVars, GoneInv, PushInv, LocksInv,
   TimesInv, CleanInv, FirstRunWaits, LocksHeld, Pushing, Starting, Nothing

LEMMA NextSafe ==
  ASSUME Safe, [Next]_vars
  PROVE  Safe'
<1>1. Typed'
  BY NextTyped DEF Safe
<1>2. CASE InstallerStep
  BY <1>1, <1>2, InstallSafe, SetupSafe, ApkSafe, PushedSafe, PushBeginSafe, FinalSafe,
     StopSafe, UninstallSafe, RemoveSafe DEF InstallerStep, Files, Safe
<1>3. ASSUME NEW p \in Process, ProcessStep(p) PROVE Safe'
  BY <1>3, ProcessSafe
<1>4. CASE UNCHANGED vars
  BY <1>1, <1>4, StutterSafe DEF Safe
<1> QED BY <1>2, <1>3, <1>4 DEF Next

LEMMA SafeAlways == Spec => []Safe
BY InitSafe, NextSafe, PTL DEF Spec

\* When Install returns, or has released install.lock, the device has every
\* file of its build, whatever the cache said and whatever failed before.
THEOREM InstallLeavesTheBuild == Spec => []InstallComplete
<1>1. Safe => InstallComplete
  BY DEF Safe, InstallInv, PushInv, InstallComplete, Settled
<1> QED BY <1>1, SafeAlways, PTL

\* A process that finds firstrun.lock as an Install left it does not go on
\* before that Install has released install.lock.
THEOREM PausedProcessesWait == Spec => []FirstRunWaits
<1>1. Safe => FirstRunWaits
  BY DEF Safe
<1> QED BY <1>1, SafeAlways, PTL
-----------------------------------------------------------------------------
(* The copies, while no process was starting during a push.                *)

\* What the copies are excused from: a process was starting during a push, or a
\* lock file was deleted that another process had open.
Excused == overlap \/ "crossed" \in mishap

\* A process that finds firstrun.lock clear takes the libraries for copied.
LibTrusted ==
  apk /\ firstrunLock = "clear" /\ "firstrun" \notin mishap /\ config.isolated # {}

Copies ==
  /\ \A p \in Process : CopyingInv(p)
  /\ \A p \in Process, dir \in Dir : ShowsCopied(p, dir) => Copied(dir)
  /\ LibTrusted => Copied("lib")
  /\ \A f \in Files : Unchanged(f) => local[f].data = dev[f].data

CopySafe == Safe /\ (Excused \/ Copies)

LEMMA CopyParts == CopyInv /\ CopiesTrue <=> Excused \/ Copies
BY DEF CopyInv, CopiesTrue, Copies, Files, Excused, LibTrusted

LEMMA FilesApart ==
  ASSUME Typed
  PROVE  /\ FilesOf("lib") \cap FilesOf("dex") = {}
         /\ FilesOf("lib") = Libs /\ FilesOf("dex") = Dexes
         /\ Libs \subseteq Files /\ Dexes \subseteq Files
BY Constants DEF FilesOf, Libs, Dexes, Files

\* A process that is not starting shows nothing, unless it runs and began on
\* a finished install.
LEMMA IdleShows ==
  ASSUME Typed, NEW p \in Process, ~Starting(p)
  PROVE  /\ app[p].pc \notin Copying
         /\ \A dir \in Dir : ShowsCopied(p, dir) =>
              dir = "lib" /\ app[p].pc = "run" /\ app[p].clean
<1>1. app[p] \in Proc /\ Shaped(app[p])
  BY ProcTyped
<1>2. app[p].pc \in {"off", "wait", "run"}
  BY DEF Starting
<1>3. app[p].fd = 0 /\ app[p].dir # "dex"
  BY <1>1, <1>2 DEF Shaped, Locked, Copying
<1> QED BY <1>2, <1>3 DEF ShowsCopied, PastLib, Starting, Copying

\* Where the copies and their sources stay as they are.
LEMMA SameCopies ==
  ASSUME UNCHANGED <<config, dev, local>>
  PROVE  /\ \A f : Unchanged(f)' = Unchanged(f) /\ TrueCopy(f)' = TrueCopy(f)
         /\ \A dir : Copied(dir)' = Copied(dir) /\ FilesOf(dir)' = FilesOf(dir)
BY DEF Unchanged, TrueCopy, Copied, FilesOf, Libs, Dexes

LEMMA SameCopying ==
  ASSUME UNCHANGED <<config, dev, local>>, NEW q \in Process, CopyingInv(q), app'[q] = app[q]
  PROVE  CopyingInv(q)'
<1>1. /\ \A f : Unchanged(f)' = Unchanged(f) /\ TrueCopy(f)' = TrueCopy(f)
      /\ FilesOf(app[q].dir)' = FilesOf(app[q].dir)
  BY SameCopies DEF FilesOf, Libs, Dexes
<1> QED BY <1>1 DEF CopyingInv

\* The installer, without the files: each process stays or ends, and what is
\* recorded of it is at most forgotten.
LEMMA QuietCopies ==
  ASSUME Safe, Safe', Excused \/ Copies, Excused => Excused',
         UNCHANGED <<config, dev, local, lockName>>,
         \A dir \in Dir : dir \in mishap' <=> dir \in mishap,
         Excused' \/ (LibTrusted' => LibTrusted),
         \A p \in Process :
           \/ app'[p] = Off
           \/ /\ UNCHANGED <<app[p].pc, app[p].dir, app[p].fd, app[p].left, app[p].cur,
                             app[p].srcTime, app[p].misled>>
              /\ app'[p].clean => app[p].clean
  PROVE  Excused' \/ Copies'
<1> SUFFICES ASSUME ~Excused', Copies PROVE Copies'
  OBVIOUS
<1>1. /\ \A f : Unchanged(f)' = Unchanged(f) /\ TrueCopy(f)' = TrueCopy(f)
      /\ \A dir : Copied(dir)' = Copied(dir) /\ FilesOf(dir)' = FilesOf(dir)
  BY SameCopies
<1>2. ASSUME NEW p \in Process
      PROVE  CopyingInv(p)' /\ \A dir \in Dir : ShowsCopied(p, dir)' => Copied(dir)
  <2>1. CASE app'[p] = Off
    BY <2>1 DEF CopyingInv, ShowsCopied, PastLib, Starting, Off, Copying, Writing
  <2>2. CASE /\ UNCHANGED <<app[p].pc, app[p].dir, app[p].fd, app[p].left, app[p].cur,
                            app[p].srcTime, app[p].misled>>
             /\ app'[p].clean => app[p].clean
    <3>1. \A dir \in Dir : ShowsCopied(p, dir)' => ShowsCopied(p, dir)
      BY <2>2 DEF ShowsCopied, PastLib, Starting
    <3>2. CopyingInv(p)'
      BY <1>1, <2>2 DEF CopyingInv, Copies
    <3> QED BY <3>1, <3>2 DEF Copies
  <2> QED BY <2>1, <2>2
<1> QED BY <1>1, <1>2 DEF Copies, Files

LEMMA QuietSteps ==
  ASSUME CopySafe, Safe',
         \/ Install \/ LockInstall \/ LockFirstrun \/ RestoreCache \/ InstallApk
         \/ (\E f \in Files : PushNothing(f))
         \/ ReleaseInstallerLock \/ SaveCache \/ InstallFails \/ DropCache \/ UninstallFails
         \/ UNCHANGED vars
  PROVE  Excused' \/ Copies'
<1>1. /\ UNCHANGED <<config, dev, local, lockName>> /\ (Excused => Excused')
      /\ \A dir \in Dir \cup {"crossed"} : dir \in mishap' <=> dir \in mishap
  <2>1. CASE Install
    BY <2>1 DEF Install, devVars, dataVars, Excused
  <2>2. CASE LockFirstrun
    BY <2>2 DEF LockFirstrun, devVars, dataVars, Excused, Dir
  <2>3. CASE ~Install /\ ~LockFirstrun
    BY <2>3 DEF LockInstall, RestoreCache, InstallApk, PushNothing,
       ReleaseInstallerLock, SaveCache, InstallFails, DropCache, UninstallFails, vars,
       devVars, dataVars, Excused
  <2> QED BY <2>1, <2>2, <2>3
<1>2. Excused' \/ (LibTrusted' => LibTrusted)
  <2>1. CASE InstallApk
    <3>1. phase = "push"
      BY <2>1, TaskPhase DEF InstallApk, CopySafe, Safe, Typed
    <3>2. overlap \/ firstrunLock = "locked"
      BY <3>1, WhilePushing DEF CopySafe
    <3> QED BY <2>1, <3>2 DEF InstallApk, Excused, LibTrusted
  <2>2. CASE LockFirstrun
    BY <2>2 DEF LockFirstrun, LibTrusted
  <2>3. CASE UNCHANGED <<config, apk, firstrunLock, mishap>>
    BY <2>3 DEF LibTrusted
  <2> QED BY <2>1, <2>2, <2>3 DEF Install, LockInstall, RestoreCache, PushNothing,
       ReleaseInstallerLock, SaveCache, InstallFails, DropCache, UninstallFails, vars, devVars
<1>3. ASSUME NEW p \in Process
      PROVE  \/ app'[p] = Off
             \/ /\ UNCHANGED <<app[p].pc, app[p].dir, app[p].fd, app[p].left, app[p].cur,
                               app[p].srcTime, app[p].misled>>
                /\ app'[p].clean => app[p].clean
  <2>1. app[p] \in Proc
    BY ProcTyped DEF CopySafe, Safe
  <2>2. \/ app'[p] = Off \/ app'[p] = app[p]
        \/ app'[p] = [app[p] EXCEPT !.clean = FALSE, !.paused = FALSE]
        \/ app'[p] = [app[p] EXCEPT !.paused = FALSE]
    BY DEF Install, LockInstall, LockFirstrun, RestoreCache, InstallApk, PushNothing,
       ReleaseInstallerLock, SaveCache, InstallFails, DropCache, UninstallFails, vars
  <2> QED BY <2>1, <2>2 DEF Proc
<1> QED BY <1>1, <1>2, <1>3, QuietCopies DEF CopySafe

\* Nobody is starting while files are pushed, and none of them will pass for
\* a copy that was made before.
LEMMA PushCopies ==
  ASSUME CopySafe, Safe', NEW f \in Files, PushBegin(f) \/ PushEnd(f)
  PROVE  Excused' \/ Copies'
<1> SUFFICES ASSUME ~Excused' PROVE Copies'
  OBVIOUS
<1>1. /\ UNCHANGED <<config, local, lockName, app, round, overlap, firstrunLock, mishap>>
      /\ f \in todo /\ ~overlap /\ ~Excused
  BY DEF Excused, PushBegin, PushEnd, Turn, hostVars, dataVars
<1>2. phase = "push"
  BY <1>1, TaskPhase DEF CopySafe, Safe, Typed
<1>3. /\ firstrunLock = "locked"
      /\ \A p \in Process : ~Starting(p) /\ ~app[p].clean
  BY <1>1, <1>2, WhilePushing DEF CopySafe
<1>4. ASSUME NEW p \in Process
      PROVE  CopyingInv(p)' /\ \A dir \in Dir : ~ShowsCopied(p, dir)'
  <2>1. app'[p] = app[p] /\ ~Starting(p)'
    BY <1>1, <1>3 DEF Starting
  <2>2. app'[p].pc \notin Copying /\ ~app'[p].clean
    BY <1>1, <1>3, <2>1, IdleShows DEF CopySafe, Safe
  <2>3. \A dir \in Dir : ShowsCopied(p, dir)' => ShowsCopied(p, dir)
    BY <1>1 DEF ShowsCopied, PastLib, Starting
  <2>4. \A dir \in Dir : ~ShowsCopied(p, dir)
    BY <1>3, IdleShows DEF CopySafe, Safe
  <2> QED BY <2>2, <2>3, <2>4 DEF CopyingInv, Copying, Writing
<1>5. ASSUME NEW g \in Files, Unchanged(g)' PROVE local'[g].data = dev'[g].data
  <2>1. dev \in [Files -> FileState]
    BY DEF CopySafe, Safe, Typed, StateOK, Files
  <2>2. CASE g = f
    <3>1. dev'[f].mtime \in {Now, round}
      BY <2>1 DEF PushBegin, PushEnd
    <3>2. local[f].mtime # round
      BY <1>1, <1>2 DEF CopySafe, Safe, InstallInv, TimesInv, Files
    <3> QED BY <1>1, <1>5, <2>2, <3>1, <3>2 DEF Unchanged
  <2>3. CASE g # f
    <3>1. dev'[g] = dev[g]
      BY <2>1, <2>3 DEF PushBegin, PushEnd
    <3>2. Unchanged(g)
      BY <1>1, <1>5, <3>1 DEF Unchanged
    <3> QED BY <1>1, <3>1, <3>2 DEF CopySafe, Copies
  <2> QED BY <2>2, <2>3
<1> QED BY <1>1, <1>3, <1>4, <1>5 DEF Copies, Files, LibTrusted

\* Without the app there is no copy.
LEMMA GoneCopies ==
  ASSUME CopySafe, Safe', UninstallApp \/ RemoveDir
  PROVE  Excused' \/ Copies'
<1>1. config' = config /\ ~apk' /\ local' = Nothing /\ \A p \in Process : app'[p] = Off
  <2>1. CASE UninstallApp
    BY <2>1 DEF UninstallApp
  <2>2. CASE RemoveDir
    <3>1. ~apk
      BY <2>2 DEF RemoveDir, CopySafe, Safe, InstallInv, GoneInv
    <3> QED BY <2>2, <3>1 DEF RemoveDir, CopySafe, Safe, InstallInv, GoneInv, dataVars
  <2> QED BY <2>1, <2>2
<1>2. \A f \in Files : local'[f].data = Absent
  BY <1>1 DEF Nothing, NoFile, Files
<1>3. \A p \in Process : CopyingInv(p)' /\ \A dir \in Dir : ~ShowsCopied(p, dir)'
  BY <1>1 DEF CopyingInv, ShowsCopied, PastLib, Starting, Off, Copying, Writing
<1> QED BY <1>1, <1>2, <1>3 DEF Copies, Unchanged, Files, LibTrusted

LEMMA InstallerCopies ==
  ASSUME CopySafe, Safe', InstallerStep
  PROVE  Excused' \/ Copies'
BY QuietSteps, PushCopies, GoneCopies DEF InstallerStep, Files

\* A process moves: what it has copied, and what it shows by then.
Fits(p) ==
  /\ CopyingInv(p)'
  /\ \A dir \in Dir : ShowsCopied(p, dir)' => Copied(dir)
  /\ LibTrusted' => LibTrusted \/ Copied("lib")

LEMMA MoveCopies ==
  ASSUME CopySafe, NEW p \in Process, ProcessFrame(p), UNCHANGED <<local, lockName>>,
         \A dir \in Dir : dir \in mishap' <=> dir \in mishap,
         Excused => Excused', ~Excused' => Fits(p)
  PROVE  Excused' \/ Copies'
<1> SUFFICES ASSUME ~Excused' PROVE Copies'
  OBVIOUS
<1>1. /\ \A f : Unchanged(f)' = Unchanged(f) /\ TrueCopy(f)' = TrueCopy(f)
      /\ \A dir : Copied(dir)' = Copied(dir) /\ FilesOf(dir)' = FilesOf(dir)
      /\ UNCHANGED <<config, dev, apk>>
  BY SameCopies DEF ProcessFrame
<1>2. Copies /\ Fits(p)
  BY DEF CopySafe
<1>3. ASSUME NEW q \in Process, q # p
      PROVE  CopyingInv(q)' /\ \A dir \in Dir : ShowsCopied(q, dir)' => ShowsCopied(q, dir)
  <2>1. app'[q] = app[q]
    BY <1>3 DEF ProcessFrame
  <2>2. CopyingInv(q)'
    BY <1>1, <1>2, <2>1, SameCopying DEF Copies
  <2>3. \A dir \in Dir : ShowsCopied(q, dir)' => ShowsCopied(q, dir)
    BY <1>1, <2>1 DEF ShowsCopied, PastLib, Starting
  <2> QED BY <2>2, <2>3
<1> QED BY <1>1, <1>2, <1>3 DEF Copies, Fits, Files

\* A process that ends, and one that waits, shows nothing.
LEMMA OffFits ==
  ASSUME NEW p \in Process, app'[p] = Off, UNCHANGED <<firstrunLock, mishap, config, apk>>
  PROVE  Fits(p)
BY DEF LibTrusted, Fits, CopyingInv, ShowsCopied, PastLib, Starting, Off, Copying, Writing

LEMMA EnterCopies ==
  ASSUME CopySafe, NEW p \in Process, Start(p) \/ Wait(p)
  PROVE  Excused' \/ Copies'
<1>1. app[p] \in Proc /\ Shaped(app[p])
  BY ProcTyped DEF CopySafe, Safe
<1>2. /\ UNCHANGED <<local, lockName, firstrunLock, mishap>> /\ (Excused => Excused')
      /\ ProcessFrame(p)
  <2>1. ProcessStep(p)
    BY DEF ProcessStep
  <2> QED BY <2>1, Frame DEF Start, Wait, devVars, dataVars, CopySafe, Safe, Excused
<1>3. apk
  <2>1. CASE Start(p)
    BY <2>1 DEF Start
  <2>2. CASE Wait(p)
    BY <2>2 DEF Wait, CopySafe, Safe, InstallInv, GoneInv, Off
  <2> QED BY <2>1, <2>2
<1>4. /\ app'[p].pc \in {"wait", "lib"} /\ app'[p].fd = 0 /\ app'[p].dir = "lib"
      /\ app'[p].pc = "lib" /\ p \in config.isolated /\ ~app'[p].misled =>
           firstrunLock = "clear" /\ "firstrun" \notin mishap
  <2>1. CASE Start(p)
    <3>1. app'[p] = [Off EXCEPT !.pc = IF firstrunLock # "clear" THEN "wait" ELSE "lib",
                                !.first = firstrunLock # "clear", !.clean = Settled,
                                !.paused = firstrunLock # "clear" /\ LocksHeld,
                                !.misled = firstrunLock = "clear" /\ Trusting(p)]
      BY <2>1, SetAt DEF Start, CopySafe, Safe
    <3> QED BY <3>1 DEF Off, Trusting
  <2>2. CASE Wait(p)
    <3>1. app'[p] = [app[p] EXCEPT !.pc = "lib", !.clean = Settled, !.misled = Trusting(p)]
      BY <2>2, SetAt DEF Wait, CopySafe, Safe
    <3>2. app[p].pc = "wait" /\ LockToWaitFor(p) = "clear"
      BY <2>2 DEF Wait
    <3>3. app[p].fd = 0 /\ app[p].dir = "lib"
      BY <1>1, <3>2 DEF Shaped, Locked, Copying, Proc, Dir
    <3> QED BY <1>1, <3>1, <3>2, <3>3 DEF Proc, LockToWaitFor, Trusting
  <2> QED BY <2>1, <2>2
<1>5. ASSUME ~Excused' PROVE Fits(p)
  <2>1. firstrunLock = "clear" /\ "firstrun" \notin mishap /\ p \in config.isolated =>
          Copied("lib")
    BY <1>2, <1>3, <1>5 DEF CopySafe, Copies, LibTrusted
  <2>2. CopyingInv(p)'
    BY <1>4 DEF CopyingInv, Copying, Writing
  <2>3. config' = config
    BY <1>2 DEF ProcessFrame
  <2>4. \A dir \in Dir : ShowsCopied(p, dir)' =>
          /\ dir = "lib" /\ p \in config.isolated
          /\ firstrunLock = "clear" /\ "firstrun" \notin mishap
    BY <1>4, <2>3 DEF ShowsCopied, PastLib, Starting
  <2>5. LibTrusted' => LibTrusted
    BY <1>2, <2>3 DEF LibTrusted, ProcessFrame
  <2> QED BY <2>1, <2>2, <2>4, <2>5 DEF Fits
<1> QED BY <1>2, <1>5, MoveCopies

\* What a process shows where it is, while no process started during a push.
LEMMA Shown ==
  ASSUME CopySafe, ~Excused, NEW p \in Process
  PROVE  /\ app[p] \in Proc /\ Shaped(app[p]) /\ app[p].dir \in Dir
         /\ CopyingInv(p)
         /\ \A dir \in Dir : ShowsCopied(p, dir) => Copied(dir)
         /\ PastLib(p) /\ ~app[p].misled => Copied("lib")
         /\ Starting(p) /\ p \in config.isolated /\ ~app[p].misled => Copied("lib")
         /\ Starting(p) => \A f \in Files : dev[f].data # Partial /\ dev[f].mtime # Now
         /\ config.oreo => p \notin config.isolated
<1>1. app[p] \in Proc /\ Shaped(app[p]) /\ app[p].dir \in Dir
  BY ProcTyped DEF CopySafe, Safe, Proc
<1>2. CopyingInv(p) /\ \A dir \in Dir : ShowsCopied(p, dir) => Copied(dir)
  BY DEF CopySafe, Copies
<1>3. (PastLib(p) \/ (Starting(p) /\ p \in config.isolated)) /\ ~app[p].misled =>
        ShowsCopied(p, "lib")
  BY DEF ShowsCopied
<1>4. Starting(p) => \A f \in Files : dev[f].data # Partial /\ dev[f].mtime # Now
  BY DEF CopySafe, Safe, InstallInv, LocksInv, PushInv, Files, Excused
<1>5. config.oreo => p \notin config.isolated
  BY ConfigTyped DEF CopySafe, Safe, Typed, StateOK
<1> QED BY <1>1, <1>2, <1>3, <1>4, <1>5 DEF Dir

LEMMA ImportCopies ==
  ASSUME CopySafe, NEW p \in Process, ImportLibs(p) \/ ImportDex(p)
  PROVE  Excused' \/ Copies'
<1>1. /\ UNCHANGED <<local, lockName, firstrunLock, overlap, mishap>>
      /\ app[p].pc \in {"lib", "dex"} /\ Starting(p)
  BY DEF ImportLibs, ImportDex, devVars, dataVars, Starting
<1>2. ProcessFrame(p)
  <2>1. ProcessStep(p)
    BY DEF ProcessStep
  <2> QED BY <2>1, Frame DEF CopySafe, Safe
<1>3. ASSUME ~Excused PROVE Fits(p)
  <2>1. /\ app[p] \in Proc /\ app[p].fd = 0 /\ app[p].dir = "lib"
    BY <1>1, <1>3, Shown DEF Shaped, Locked, Copying, Dir
  <2>2. /\ app'[p].fd = 0 /\ app'[p].pc \in {"open", "await", "dex", "load"}
        /\ app'[p].misled = app[p].misled
        /\ app'[p].pc = "await" => p \in config.isolated
        /\ app'[p].dir = "dex" \/ app'[p].pc = "load" => app[p].pc = "dex"
        /\ app'[p].dir = "dex" => config.oreo
        /\ app'[p].pc = "load" => ~config.oreo
        /\ app'[p].pc = "dex" => ~Exists("lib")
    <3>1. CASE ImportLibs(p)
      <4>1. app'[p] = (IF Exists("lib")
                       THEN [app[p] EXCEPT !.pc = IF p \in config.isolated
                                                  THEN "await" ELSE "open", !.dir = "lib"]
                       ELSE [app[p] EXCEPT !.pc = "dex"])
        BY <3>1, SetAt DEF ImportLibs, Copy, CopySafe, Safe
      <4> QED BY <2>1, <4>1 DEF Proc
    <3>2. CASE ImportDex(p)
      <4>1. app'[p] = (IF config.oreo
                       THEN [app[p] EXCEPT !.pc = IF p \in config.isolated
                                                  THEN "await" ELSE "open", !.dir = "dex"]
                       ELSE [app[p] EXCEPT !.pc = "load"])
            /\ app[p].pc = "dex"
        BY <3>2, SetAt DEF ImportDex, Copy, CopySafe, Safe
      <4> QED BY <2>1, <4>1 DEF Proc
    <3> QED BY <3>1, <3>2
  <2>3. /\ app[p].pc = "dex" /\ ~app[p].misled => Copied("lib")
        /\ p \in config.isolated /\ ~app[p].misled => Copied("lib")
        /\ ~Exists("lib") => Copied("lib")
    BY <1>1, <1>3, Shown DEF PastLib, Exists, Copied
  <2>4. config' = config
    BY <1>2 DEF ProcessFrame
  <2>5. config.oreo => p \notin config.isolated
    BY <1>3, Shown
  <2>6. \A dir \in Dir : ShowsCopied(p, dir)' => Copied(dir)
    BY <2>2, <2>3, <2>4, <2>5 DEF ShowsCopied, PastLib, Dir
  <2> QED BY <1>1, <1>2, <2>2, <2>6
       DEF Fits, CopyingInv, Copying, Writing, LibTrusted, ProcessFrame
<1> QED BY <1>1, <1>2, <1>3, MoveCopies DEF Excused

LEMMA TryCopies ==
  ASSUME CopySafe, NEW p \in Process, TryLock(p)
  PROVE  Excused' \/ Copies'
<1> DEFINE dir == app[p].dir
           present == {f \in FilesOf(dir) : dev[f].data # Absent}
<1>1. /\ UNCHANGED <<local, lockName, firstrunLock, overlap, mishap>>
      /\ app[p].pc = "try" /\ Starting(p)
  BY DEF TryLock, devVars, Starting
<1>2. ProcessFrame(p)
  <2>1. ProcessStep(p)
    BY DEF ProcessStep
  <2> QED BY <2>1, Frame DEF CopySafe, Safe
<1>3. ASSUME ~Excused PROVE Fits(p)
  <2>1. app[p] \in Proc /\ app[p].fd # 0 /\ dir \in Dir
    BY <1>1, <1>3, Shown DEF Shaped, Locked
  <2>2. \/ app'[p] = [app[p] EXCEPT !.pc = "copy", !.left = present]
        \/ app'[p] = [app[p] EXCEPT !.pc = "await", !.fd = 0]
    BY SetAt DEF TryLock, CopySafe, Safe
  <2> HIDE DEF present
  <2>3. /\ app'[p].dir = dir /\ app'[p].misled = app[p].misled
        /\ \/ app'[p].pc = "copy" /\ app'[p].left = present /\ app'[p].fd = app[p].fd
           \/ app'[p].pc = "await" /\ app'[p].fd = 0
    BY <2>1, <2>2 DEF Proc
  <2>4. config' = config /\ dev' = dev
    BY <1>2 DEF ProcessFrame
  <2>5. \A d \in Dir : ShowsCopied(p, d)' => ShowsCopied(p, d)
    BY <1>1, <2>1, <2>3, <2>4 DEF ShowsCopied, PastLib, Starting
  <2>6. CopyingInv(p)'
    <3>2. CASE app'[p].pc = "copy" /\ app'[p].left = present
      <4>1. \A f \in present : dev[f].data # Absent
        BY DEF present
      <4>2. \A f \in FilesOf(dir) \ present : dev[f].data = Absent
        BY DEF present
      <4>3. FilesOf(app[p].dir)' = FilesOf(dir)
        BY <2>3, <2>4 DEF FilesOf, Libs, Dexes
      <4> QED BY <2>3, <2>4, <3>2, <4>1, <4>2, <4>3 DEF CopyingInv, Copying, Writing
    <3>3. CASE app'[p].pc = "await"
      BY <3>3 DEF CopyingInv, Copying, Writing
    <3> QED BY <2>3, <3>2, <3>3
  <2> QED BY <1>1, <1>2, <1>3, <2>5, <2>6, Shown DEF Fits, LibTrusted, ProcessFrame
<1> QED BY <1>1, <1>2, <1>3, MoveCopies DEF Excused

LEMMA CheckCopies ==
  ASSUME CopySafe, NEW p \in Process, NEW f \in Files, CheckFile(p, f)
  PROVE  Excused' \/ Copies'
<1>1. /\ UNCHANGED <<local, lockName, firstrunLock, overlap, mishap>>
      /\ app[p].pc = "copy" /\ f \in app[p].left
  BY DEF CheckFile, devVars, dataVars
<1>2. ProcessFrame(p)
  <2>1. ProcessStep(p)
    BY DEF ProcessStep, Files
  <2> QED BY <2>1, Frame DEF CopySafe, Safe
<1>3. ASSUME ~Excused PROVE Fits(p)
  <2>1. app[p] \in Proc /\ Shaped(app[p]) /\ CopyingInv(p)
    BY <1>3, Shown
  <2>2. app'[p] = (IF Unchanged(f) THEN [app[p] EXCEPT !.left = @ \ {f}]
                   ELSE [app[p] EXCEPT !.pc = "truncate", !.cur = f,
                                       !.srcTime = dev[f].mtime])
    BY SetAt DEF CheckFile, CopySafe, Safe
  <2>3. /\ app'[p].dir = app[p].dir /\ app'[p].fd = app[p].fd
        /\ app'[p].misled = app[p].misled
        /\ \/ Unchanged(f) /\ app'[p].pc = "copy" /\ app'[p].left = app[p].left \ {f}
           \/ /\ ~Unchanged(f) /\ app'[p].pc = "truncate" /\ app'[p].left = app[p].left
              /\ app'[p].cur = f /\ app'[p].srcTime = dev[f].mtime
    BY <1>1, <2>1, <2>2 DEF Proc
  <2>4. /\ config' = config /\ dev' = dev
        /\ \A g : Unchanged(g)' = Unchanged(g) /\ TrueCopy(g)' = TrueCopy(g)
        /\ FilesOf(app[p].dir)' = FilesOf(app[p].dir)
    BY <1>1, <1>2, <2>3, SameCopies DEF ProcessFrame, FilesOf, Libs, Dexes
  <2>5. \A d \in Dir : ShowsCopied(p, d)' => ShowsCopied(p, d)
    BY <1>1, <2>3, <2>4 DEF ShowsCopied, PastLib, Starting
  <2>6. CopyingInv(p)'
    <3>1. Unchanged(f) => TrueCopy(f)
      BY <1>3 DEF CopySafe, Copies, TrueCopy
    <3>2. \A g \in app[p].left : dev[g].data # Absent
      BY <1>1, <2>1 DEF CopyingInv, Copying
    <3>3. \A g \in FilesOf(app[p].dir) \ app[p].left : dev[g].data # Absent => TrueCopy(g)
      BY <1>1, <2>1 DEF CopyingInv, Copying
    <3>4. app'[p].pc \in Writing => app'[p].pc = "truncate"
      BY <2>3 DEF Writing, Copying
    <3> QED BY <2>3, <2>4, <3>1, <3>2, <3>3, <3>4 DEF CopyingInv
  <2> QED BY <1>1, <1>2, <1>3, <2>5, <2>6, Shown DEF Fits, LibTrusted, ProcessFrame
<1> QED BY <1>1, <1>2, <1>3, MoveCopies DEF Excused

LEMMA ReleaseCopies ==
  ASSUME CopySafe, NEW p \in Process, ReleaseLock(p)
  PROVE  Excused' \/ Copies'
<1>1. /\ UNCHANGED <<local, lockName, firstrunLock, overlap, mishap>>
      /\ app[p].pc = "copy" /\ app[p].left = {}
  BY DEF ReleaseLock, devVars
<1>2. ProcessFrame(p)
  <2>1. ProcessStep(p)
    BY DEF ProcessStep
  <2> QED BY <2>1, Frame DEF CopySafe, Safe
<1>3. ASSUME ~Excused PROVE Fits(p)
  <2>1. app[p] \in Proc /\ CopyingInv(p)
    BY <1>3, Shown
  <2>2. app'[p] = [app[p] EXCEPT !.pc = "delete", !.fd = 0]
    BY SetAt DEF ReleaseLock, CopySafe, Safe
  <2>3. /\ app'[p].dir = app[p].dir /\ app'[p].pc = "delete" /\ app'[p].fd = 0
        /\ app'[p].misled = app[p].misled
    BY <2>1, <2>2 DEF Proc
  <2>4. Copied(app[p].dir)
    BY <1>1, <2>1 DEF CopyingInv, Copying, Copied
  <2>5. config' = config
    BY <1>2 DEF ProcessFrame
  <2>6. \A d \in Dir : ShowsCopied(p, d)' => d = app[p].dir \/ ShowsCopied(p, d)
    BY <1>1, <2>3, <2>5 DEF ShowsCopied, PastLib, Starting
  <2>7. CopyingInv(p)'
    BY <2>3 DEF CopyingInv, Copying, Writing
  <2> QED BY <1>1, <1>2, <1>3, <2>4, <2>6, <2>7, Shown DEF Fits, LibTrusted, ProcessFrame
<1> QED BY <1>1, <1>2, <1>3, MoveCopies DEF Excused

\* A process is past a directory: it deleted the lock file, or saw it gone.
LEMMA PastCopied ==
  ASSUME CopySafe, ~Excused, NEW p \in Process, DeleteLock(p) \/ AwaitLock(p)
  PROVE  /\ ~app'[p].misled => Copied("lib") /\ Copied(app[p].dir)
         /\ DeleteLock(p) => Copied(app[p].dir)
         /\ app'[p].dir = "lib" /\ app'[p].fd = 0
         /\ app'[p].pc = (IF app[p].dir = "lib" THEN "dex" ELSE "load")
         /\ app'[p].pc = "load" /\ config.oreo /\ ~app'[p].misled => Copied("dex")
<1>1. /\ app[p].pc \in {"delete", "await"} /\ Starting(p)
      /\ app[p].pc = "await" => lockName[app[p].dir] = 0
      /\ DeleteLock(p) => app[p].pc = "delete"
      /\ AwaitLock(p) => app[p].pc = "await"
  BY DEF DeleteLock, AwaitLock, LockGone, Starting
<1>2. /\ app[p] \in Proc /\ app[p].dir \in Dir /\ app[p].fd = 0
      /\ app[p].dir = "dex" => config.oreo /\ p \notin config.isolated
  BY <1>1, Shown DEF Shaped, Locked, Copying
<1>3. app'[p] = (IF DeleteLock(p) THEN [app[p] EXCEPT !.pc = AfterCopy(p), !.dir = "lib"]
                 ELSE [app[p] EXCEPT !.pc = AfterCopy(p), !.dir = "lib",
                                     !.misled = @ \/ app[p].dir \in mishap])
  BY SetAt DEF DeleteLock, AwaitLock, CopySafe, Safe
<1>4. /\ app'[p].dir = "lib" /\ app'[p].fd = 0
      /\ app'[p].pc = (IF app[p].dir = "lib" THEN "dex" ELSE "load")
      /\ ~app'[p].misled => ~app[p].misled /\ (DeleteLock(p) \/ app[p].dir \notin mishap)
  BY <1>2, <1>3 DEF Proc, AfterCopy
<1>5. DeleteLock(p) \/ ~app'[p].misled => Copied(app[p].dir)
  <2>1. CASE DeleteLock(p)
    <3>1. ShowsCopied(p, app[p].dir)
      BY <1>1, <2>1 DEF ShowsCopied
    <3> QED BY <1>2, <3>1, Shown
  <2>2. CASE ~app'[p].misled /\ p \in config.isolated
    BY <1>1, <1>2, <1>4, <2>2, Shown DEF Dir
  <2>3. CASE ~app'[p].misled /\ ~DeleteLock(p) /\ p \notin config.isolated
    <3>1. ShowsCopied(p, app[p].dir)
      BY <1>1, <1>4, <2>3 DEF ShowsCopied
    <3> QED BY <1>2, <3>1, Shown
  <2> QED BY <2>1, <2>2, <2>3
<1>6. ~app'[p].misled => Copied("lib")
  BY <1>2, <1>4, <1>5, Shown DEF PastLib, Dir
<1> QED BY <1>2, <1>4, <1>5, <1>6 DEF Dir

LEMMA AwaitCopies ==
  ASSUME CopySafe, NEW p \in Process, AwaitLock(p)
  PROVE  Excused' \/ Copies'
<1>1. UNCHANGED <<local, lockName, firstrunLock, overlap, mishap>>
  BY DEF AwaitLock, devVars, dataVars
<1>2. ProcessFrame(p)
  <2>1. ProcessStep(p)
    BY DEF ProcessStep
  <2> QED BY <2>1, Frame DEF CopySafe, Safe
<1>3. ASSUME ~Excused PROVE Fits(p)
  <2>1. config' = config
    BY <1>2 DEF ProcessFrame
  <2> QED BY <1>1, <1>2, <1>3, <2>1, PastCopied
       DEF Fits, CopyingInv, ShowsCopied, PastLib, Copying, Writing, LibTrusted, ProcessFrame
<1> QED BY <1>1, <1>2, <1>3, MoveCopies DEF Excused

LEMMA LoadCopies ==
  ASSUME CopySafe, NEW p \in Process, LoadDex(p) \/ ClearFirstrun(p)
  PROVE  Excused' \/ Copies'
<1>1. /\ UNCHANGED <<local, lockName, overlap>> /\ app[p].pc \in {"load", "clear"}
      /\ LoadDex(p) => UNCHANGED <<firstrunLock, mishap>>
      /\ ClearFirstrun(p) /\ app[p].misled /\ config.isolated # {} => "firstrun" \in mishap'
      /\ \A x \in Dir \cup {"crossed"} : x \in mishap' <=> x \in mishap
  BY DEF LoadDex, ClearFirstrun, devVars, dataVars, Dir
<1>2. ProcessFrame(p)
  <2>1. ProcessStep(p)
    BY DEF ProcessStep
  <2> QED BY <2>1, Frame DEF CopySafe, Safe
<1>3. ASSUME ~Excused PROVE Fits(p)
  <2>1. app[p] \in Proc /\ (~app[p].misled => Copied("lib")) /\ config' = config
    BY <1>1, <1>2, <1>3, Shown DEF PastLib, ProcessFrame
  <2>6. LibTrusted' => LibTrusted \/ Copied("lib")
    BY <1>1, <1>2, <2>1 DEF LibTrusted, ProcessFrame
  <2>2. \/ app'[p] = Off
        \/ app[p].pc = "load" /\ app'[p] = [app[p] EXCEPT !.pc = "clear"]
        \/ app'[p] = Running(p)
    <3>1. CASE LoadDex(p)
      <4>1. \/ Set(p, Off) \/ Set(p, Running(p))
            \/ app[p].pc = "load" /\ Set(p, [app[p] EXCEPT !.pc = "clear"])
        BY <3>1 DEF LoadDex
      <4> QED BY <4>1, SetAt DEF CopySafe, Safe
    <3>2. CASE ClearFirstrun(p)
      BY <3>2, SetAt DEF ClearFirstrun, CopySafe, Safe
    <3> QED BY <3>1, <3>2
  <2>3. CASE app'[p] = Off
    BY <2>1, <2>3, <2>6
       DEF Fits, CopyingInv, ShowsCopied, PastLib, Starting, Off, Copying, Writing
  <2>4. CASE app[p].pc = "load" /\ app'[p] = [app[p] EXCEPT !.pc = "clear"]
    <3>1. /\ app'[p].pc = "clear" /\ app'[p].dir = app[p].dir /\ app'[p].fd = app[p].fd
          /\ app'[p].misled = app[p].misled
      BY <2>1, <2>4 DEF Proc
    <3>2. \A d \in Dir : ShowsCopied(p, d)' => ShowsCopied(p, d)
      BY <1>1, <2>1, <2>4, <3>1 DEF ShowsCopied, PastLib, Starting
    <3>3. CopyingInv(p)'
      BY <3>1 DEF CopyingInv, Copying, Writing
    <3> QED BY <1>3, <2>1, <2>6, <3>2, <3>3, Shown DEF Fits
  <2>5. CASE app'[p] = Running(p)
    <3>1. /\ app'[p].pc = "run" /\ app'[p].dir = "lib" /\ app'[p].fd = 0
          /\ app'[p].clean => ~app[p].misled
      BY <2>5 DEF Running, Off
    <3>2. \A d \in Dir : ShowsCopied(p, d)' => d = "lib" /\ ~app[p].misled
      BY <3>1 DEF ShowsCopied, PastLib, Starting
    <3>3. CopyingInv(p)'
      BY <3>1 DEF CopyingInv, Copying, Writing
    <3> QED BY <2>1, <2>6, <3>2, <3>3 DEF Fits
  <2> QED BY <2>2, <2>3, <2>4, <2>5
<1> QED BY <1>1, <1>2, <1>3, MoveCopies DEF Excused

LEMMA EndCopies ==
  ASSUME CopySafe, NEW p \in Process, DeleteFails(p) \/ TimesOut(p) \/ Killed(p)
  PROVE  Excused' \/ Copies'
<1>1. UNCHANGED <<local, lockName, firstrunLock, overlap, mishap>> /\ app'[p] = Off
  BY SetAt DEF DeleteFails, TimesOut, Killed, devVars, dataVars, CopySafe, Safe
<1>2. ProcessFrame(p)
  <2>1. ProcessStep(p)
    BY DEF ProcessStep
  <2> QED BY <2>1, Frame DEF CopySafe, Safe
<1> QED BY <1>1, <1>2, OffFits, MoveCopies DEF Excused, ProcessFrame

\* A process that cannot have the lock, or whose copy raises, shows no more.
LEMMA RaiseCopies ==
  ASSUME CopySafe, NEW p \in Process, LockFails(p) \/ CopyRaises(p)
  PROVE  Excused' \/ Copies'
<1>1. /\ UNCHANGED <<local, lockName, firstrunLock, overlap, mishap>> /\ Starting(p)
  BY DEF LockFails, CopyRaises, Copying, Starting, devVars, dataVars
<1>2. ProcessFrame(p)
  <2>1. ProcessStep(p)
    BY DEF ProcessStep
  <2> QED BY <2>1, Frame DEF CopySafe, Safe
<1>3. ASSUME ~Excused PROVE Fits(p)
  <2>1. app[p] \in Proc
    BY <1>3, Shown
  <2>2. \/ app'[p] = [app[p] EXCEPT !.pc = "await", !.fd = 0, !.misled = TRUE]
        \/ app'[p] = [app[p] EXCEPT !.pc = "abort", !.fd = 0, !.left = {}, !.cur = None,
                                    !.srcTime = 0]
    BY SetAt DEF LockFails, CopyRaises, CopySafe, Safe
  <2>3. /\ app'[p].dir = app[p].dir /\ app'[p].fd = 0
        /\ \/ app'[p].pc = "await" /\ app'[p].misled = TRUE
           \/ app'[p].pc = "abort" /\ app'[p].misled = app[p].misled
    BY <2>1, <2>2 DEF Proc
  <2>4. config' = config
    BY <1>2 DEF ProcessFrame
  <2>5. \A d \in Dir : ShowsCopied(p, d)' => ShowsCopied(p, d)
    BY <1>1, <2>3, <2>4 DEF ShowsCopied, PastLib, Starting
  <2>6. CopyingInv(p)'
    BY <2>3 DEF CopyingInv, Copying, Writing
  <2> QED BY <1>1, <1>2, <1>3, <2>5, <2>6, Shown DEF Fits, LibTrusted, ProcessFrame
<1> QED BY <1>1, <1>2, <1>3, MoveCopies DEF Excused

\* It deletes the lock file: who had it open is a second copier, and who waited
\* for it does not show a copy.
LEMMA AbortCopies ==
  ASSUME CopySafe, NEW p \in Process, Abort(p)
  PROVE  Excused' \/ Copies'
<1> DEFINE dir == app[p].dir
<1>1. /\ UNCHANGED <<local, firstrunLock, overlap>> /\ app'[p] = Off
      /\ lockName' = [lockName EXCEPT ![dir] = 0]
      /\ mishap' = mishap \cup {dir} \cup (IF Crosses(dir) THEN {"crossed"} ELSE {})
  BY SetAt DEF Abort, devVars, CopySafe, Safe
<1>2. ProcessFrame(p)
  <2>1. ProcessStep(p)
    BY DEF ProcessStep
  <2> QED BY <2>1, Frame DEF CopySafe, Safe
<1> SUFFICES ASSUME ~Excused' PROVE Copies'
  OBVIOUS
<1>3. Copies /\ ~Excused /\ ~Crosses(dir)
  BY <1>1 DEF CopySafe, Excused
<1>4. dir \in Dir
  BY <1>3, Shown
<1>5. /\ lockName'[dir] = 0 /\ \A d \in Dir : d # dir => lockName'[d] = lockName[d]
      /\ dir \in mishap' /\ mishap \subseteq mishap'
  BY <1>1, <1>4 DEF CopySafe, Safe, Typed, StateOK
<1>6. /\ UNCHANGED <<config, dev, apk>>
      /\ \A f : Unchanged(f)' = Unchanged(f) /\ TrueCopy(f)' = TrueCopy(f)
      /\ \A d : Copied(d)' = Copied(d) /\ FilesOf(d)' = FilesOf(d)
  BY <1>1, <1>2, SameCopies DEF ProcessFrame
<1>7. CopyingInv(p)' /\ \A d \in Dir : ~ShowsCopied(p, d)'
  BY <1>1 DEF CopyingInv, ShowsCopied, PastLib, Starting, Off, Copying, Writing
<1>8. ASSUME NEW q \in Process, q # p
      PROVE  CopyingInv(q)' /\ \A d \in Dir : ShowsCopied(q, d)' => ShowsCopied(q, d)
  <2>1. app'[q] = app[q]
    BY <1>2, <1>8 DEF ProcessFrame
  <2>2. CopyingInv(q)'
    BY <1>1, <1>3, <1>6, <2>1, SameCopying DEF Copies
  <2>3. app[q].dir = dir /\ app[q].fd # 0 => app[q].fd # lockName[dir]
    BY <1>3 DEF Crosses
  <2>4. \A d \in Dir : ShowsCopied(q, d)' => ShowsCopied(q, d)
    BY <1>5, <1>6, <2>1, <2>3 DEF ShowsCopied, PastLib, Starting
  <2> QED BY <2>2, <2>4
<1>9. LibTrusted' => LibTrusted
  BY <1>1, <1>5, <1>6 DEF LibTrusted
<1> QED BY <1>1, <1>3, <1>6, <1>7, <1>8, <1>9 DEF Copies, Files

\* The name of the lock leads to a new inode, or to none.  Who has another
\* one open shows that the directory has been copied, and did so before.
LEMMA OpenCopies ==
  ASSUME CopySafe, NEW p \in Process, OpenLock(p)
  PROVE  Excused' \/ Copies'
<1> DEFINE dir == app[p].dir
           inode == IF lockName[dir] = 0 THEN FreshInode(dir) ELSE lockName[dir]
<1>1. /\ UNCHANGED <<local, firstrunLock, overlap>> /\ mishap' = mishap \ {dir}
      /\ app[p].pc = "open" /\ Starting(p)
      /\ lockName' = [lockName EXCEPT ![dir] = inode]
      /\ app'[p] = [app[p] EXCEPT !.pc = "try", !.fd = inode]
  BY SetAt DEF OpenLock, devVars, Starting, CopySafe, Safe
<1>2. ProcessFrame(p)
  <2>1. ProcessStep(p)
    BY DEF ProcessStep
  <2> QED BY <2>1, Frame DEF CopySafe, Safe
<1> SUFFICES ASSUME ~Excused' PROVE Copies'
  OBVIOUS
<1>3. Copies /\ ~Excused
  <2>1. dir \in Dir
    BY ProcTyped DEF CopySafe, Safe, Proc
  <2> QED BY <1>1, <2>1 DEF CopySafe, Excused, Dir
<1>4. app[p] \in Proc /\ dir \in Dir /\ app[p].fd = 0
  BY <1>1, <1>3, Shown DEF Shaped, Locked, Copying
<1> HIDE DEF inode
<1>5. /\ app'[p].pc = "try" /\ app'[p].dir = dir /\ app'[p].fd = inode
      /\ app'[p].misled = app[p].misled
  BY <1>1, <1>4 DEF Proc
<1>6. /\ lockName'[dir] = inode /\ \A d \in Dir : d # dir => lockName'[d] = lockName[d]
      /\ lockName[dir] # 0 => inode = lockName[dir]
      /\ lockName[dir] = 0 => inode # 0
      /\ lockName'[dir] # 0
      /\ \A d \in Dir : d # dir => (d \in mishap' <=> d \in mishap)
  <2>1. lockName \in [Dir -> {0} \cup Inode]
    BY DEF CopySafe, Safe, Typed, StateOK
  <2>2. lockName[dir] = 0 => inode \in Inode
    BY <1>4, InodeLeft DEF inode, CopySafe, Safe
  <2> QED BY <1>1, <1>4, <2>1, <2>2 DEF inode, Inode
<1>7. /\ UNCHANGED <<config, dev, apk>>
      /\ \A f : Unchanged(f)' = Unchanged(f) /\ TrueCopy(f)' = TrueCopy(f)
      /\ \A d : Copied(d)' = Copied(d) /\ FilesOf(d)' = FilesOf(d)
  BY <1>1, <1>2, SameCopies DEF ProcessFrame
<1>8. ASSUME NEW q \in Process
      PROVE  CopyingInv(q)' /\ \A d \in Dir : ShowsCopied(q, d)' => ShowsCopied(q, d)
  <2>1. CASE q = p
    <3>1. CopyingInv(p)'
      BY <1>5 DEF CopyingInv, Copying, Writing
    <3>2. \A d \in Dir : ShowsCopied(p, d)' => ShowsCopied(p, d)
      BY <1>1, <1>4, <1>5, <1>6, <1>7 DEF ShowsCopied, PastLib, Starting
    <3> QED BY <2>1, <3>1, <3>2
  <2>2. CASE q # p
    <3>1. app'[q] = app[q]
      BY <1>2, <2>2 DEF ProcessFrame
    <3>2. CopyingInv(q)'
      BY <1>1, <1>3, <1>7, <3>1, SameCopying DEF Copies
    <3>3. \A d \in Dir : ShowsCopied(q, d)' => ShowsCopied(q, d)
      BY <1>6, <1>7, <3>1 DEF ShowsCopied, PastLib, Starting
    <3> QED BY <3>2, <3>3
  <2> QED BY <2>1, <2>2
<1>9. LibTrusted' => LibTrusted
  BY <1>1, <1>4, <1>7 DEF LibTrusted, Dir
<1> QED BY <1>1, <1>3, <1>7, <1>8, <1>9 DEF Copies, Files

LEMMA DeleteCopies ==
  ASSUME CopySafe, NEW p \in Process, DeleteLock(p)
  PROVE  Excused' \/ Copies'
<1> DEFINE dir == app[p].dir
<1>1. /\ UNCHANGED <<local, firstrunLock, overlap, mishap>>
      /\ lockName' = [lockName EXCEPT ![dir] = 0]
  BY DEF DeleteLock, devVars
<1>2. ProcessFrame(p)
  <2>1. ProcessStep(p)
    BY DEF ProcessStep
  <2> QED BY <2>1, Frame DEF CopySafe, Safe
<1> SUFFICES ASSUME ~Excused' PROVE Copies'
  OBVIOUS
<1>3. Copies /\ ~Excused
  BY <1>1 DEF CopySafe, Excused
<1>4. \A d \in Dir : d # dir => lockName'[d] = lockName[d]
  BY <1>1 DEF CopySafe, Safe, Typed, StateOK
<1>5. /\ UNCHANGED <<config, dev, apk>>
      /\ \A f : Unchanged(f)' = Unchanged(f) /\ TrueCopy(f)' = TrueCopy(f)
      /\ \A d : Copied(d)' = Copied(d) /\ FilesOf(d)' = FilesOf(d)
  BY <1>1, <1>2, SameCopies DEF ProcessFrame
<1>6. Copied(dir)
  BY <1>3, PastCopied
<1>7. CopyingInv(p)' /\ \A d \in Dir : ShowsCopied(p, d)' => Copied(d)
  BY <1>3, <1>5, PastCopied DEF CopyingInv, ShowsCopied, PastLib, Copying, Writing
<1>8. ASSUME NEW q \in Process, q # p
      PROVE  CopyingInv(q)' /\ \A d \in Dir : ShowsCopied(q, d)' => d = dir \/ ShowsCopied(q, d)
  <2>1. app'[q] = app[q]
    BY <1>2, <1>8 DEF ProcessFrame
  <2>2. CopyingInv(q)'
    BY <1>1, <1>3, <1>5, <2>1, SameCopying DEF Copies
  <2>3. \A d \in Dir : ShowsCopied(q, d)' => d = dir \/ ShowsCopied(q, d)
    BY <1>1, <1>4, <1>5, <2>1 DEF ShowsCopied, PastLib, Starting
  <2> QED BY <2>2, <2>3
<1>9. LibTrusted' => LibTrusted
  BY <1>1, <1>5 DEF LibTrusted
<1> QED BY <1>1, <1>3, <1>5, <1>6, <1>7, <1>8, <1>9 DEF Copies, Files

\* Who writes a file is the only one that copies its directory, which nobody
\* shows to be copied: the file is not.
LEMMA WritesAlone ==
  ASSUME CopySafe, ~Excused, NEW p \in Process, app[p].pc \in Writing
  PROVE  /\ app[p].dir \in Dir /\ app[p].cur \in app[p].left
         /\ app[p].left \subseteq FilesOf(app[p].dir)
         /\ dev[app[p].cur].data # Absent /\ ~Copied(app[p].dir)
         /\ \A q \in Process : ~ShowsCopied(q, app[p].dir)
         /\ \A q \in Process : q # p /\ app[q].pc \in Copying => app[q].dir # app[p].dir
<1> DEFINE dir == app[p].dir
           f == app[p].cur
<1>1. /\ app[p] \in Proc /\ dir \in Dir /\ app[p].pc \in Copying
      /\ f \in app[p].left /\ app[p].left \subseteq FilesOf(dir) /\ CopyingInv(p)
  BY Shown DEF Shaped, Writing
<1>2. dev[f].data # Absent /\ ~TrueCopy(f)
  BY <1>1 DEF CopyingInv, TrueCopy
<1>3. ~Copied(dir)
  BY <1>1, <1>2 DEF Copied
<1>4. \A q \in Process : ~ShowsCopied(q, dir)
  BY <1>1, <1>3, Shown
<1>5. ASSUME NEW q \in Process, app[q].pc \in Copying, app[q].dir = dir PROVE q = p
  <2>1. /\ app[q].fd # 0 /\ app[p].fd # 0
        /\ lockHolder[dir][app[q].fd] = q /\ lockHolder[dir][app[p].fd] = p
    BY <1>1, <1>5, ProcTyped DEF Shaped, Holds, Locked, CopySafe, Safe
  <2>2. app[q].fd = lockName[dir] /\ app[p].fd = lockName[dir]
    BY <1>4, <1>5, <2>1 DEF ShowsCopied
  <2> QED BY <2>1, <2>2
<1> QED BY <1>1, <1>2, <1>3, <1>4, <1>5

LEMMA WriteCopies ==
  ASSUME CopySafe, NEW p \in Process, Truncate(p) \/ Transfer(p) \/ Stamp(p)
  PROVE  Excused' \/ Copies'
<1> DEFINE dir == app[p].dir
<1>0. PICK f : f = app[p].cur
  OBVIOUS
<1>1. /\ UNCHANGED <<lockName, firstrunLock, overlap, mishap>>
      /\ app[p].pc \in Writing /\ app[p].pc \in Copying /\ Starting(p)
  BY DEF Truncate, Transfer, Stamp, devVars, Writing, Copying, Starting
<1>2. ProcessFrame(p)
  <2>1. ProcessStep(p)
    BY DEF ProcessStep
  <2> QED BY <2>1, Frame DEF CopySafe, Safe
<1> SUFFICES ASSUME ~Excused' PROVE Copies'
  OBVIOUS
<1>3. Copies /\ ~Excused
  BY <1>1 DEF CopySafe, Excused
<1>4. /\ app[p] \in Proc /\ dir \in Dir /\ CopyingInv(p)
      /\ f \in app[p].left /\ app[p].left \subseteq FilesOf(dir)
      /\ dev[f].data # Absent /\ ~Copied(dir)
      /\ \A q \in Process : ~ShowsCopied(q, dir)
      /\ \A q \in Process : q # p /\ app[q].pc \in Copying => app[q].dir # dir
  BY <1>0, <1>1, <1>3, Shown, WritesAlone
<1>5. /\ f \in Files /\ FilesOf(dir) \subseteq Files
      /\ \A d \in Dir : d # dir => f \notin FilesOf(d)
      /\ dev[f].mtime # Now
  <2>1. FilesOf(dir) \subseteq Files /\ \A d \in Dir : d # dir => f \notin FilesOf(d)
    BY <1>4, FilesApart DEF Dir, CopySafe, Safe
  <2> QED BY <1>1, <1>3, <1>4, <2>1, Shown
<1>6. UNCHANGED <<config, dev, apk>> /\ \A d : FilesOf(d)' = FilesOf(d)
  BY <1>2 DEF ProcessFrame, FilesOf, Libs, Dexes
\* What the step does to the file, and to the process.
<1>7. /\ \A g \in Files : g # f => local'[g] = local[g]
      /\ app'[p].dir = dir /\ app'[p].fd = app[p].fd /\ app'[p].misled = app[p].misled
      /\ \/ /\ app'[p].pc \in {"transfer", "stamp"} /\ local'[f].mtime = Now
            /\ app'[p].cur = f /\ app'[p].left = app[p].left
            /\ app'[p].srcTime = app[p].srcTime
            /\ app'[p].pc = "stamp" => local'[f].data = dev[f].data
         \/ /\ app[p].pc = "stamp" /\ app'[p].pc = "copy"
            /\ app'[p].left = app[p].left \ {f}
            /\ local'[f].mtime = dev[f].mtime /\ local'[f].data = dev[f].data
  <2>1. local \in [Files -> FileState]
    BY DEF CopySafe, Safe, Typed, StateOK, Files
  <2>2. CASE Truncate(p)
    <3>1. /\ app'[p] = [app[p] EXCEPT !.pc = "transfer"]
          /\ local' = [local EXCEPT ![f] = [data |-> Partial, mtime |-> Now]]
      BY <1>0, <2>2, SetAt DEF Truncate, TimeMeanwhile, CopySafe, Safe
    <3> QED BY <1>0, <1>4, <1>5, <2>1, <3>1 DEF Proc
  <2>3. CASE Transfer(p)
    <3>1. /\ app'[p] = [app[p] EXCEPT !.pc = "stamp"]
          /\ local' = [local EXCEPT ![f] = [data |-> dev[f].data, mtime |-> Now]]
      BY <1>0, <2>3, SetAt DEF Transfer, CopySafe, Safe
    <3> QED BY <1>0, <1>4, <1>5, <2>1, <3>1 DEF Proc
  <2>4. CASE Stamp(p)
    <3>1. /\ app[p].pc = "stamp"
          /\ app'[p] = [app[p] EXCEPT !.pc = "copy", !.left = @ \ {app[p].cur},
                                      !.cur = None, !.srcTime = 0]
          /\ local' = [local EXCEPT ![f].mtime = app[p].srcTime]
      BY <1>0, <2>4, SetAt DEF Stamp, CopySafe, Safe
    <3>2. /\ app[p].srcTime = dev[f].mtime /\ local[f].data = dev[f].data
      BY <1>0, <1>1, <1>4, <3>1 DEF CopyingInv
    <3>3. app'[p].dir = dir /\ app'[p].fd = app[p].fd /\ app'[p].pc = "copy"
          /\ app'[p].left = app[p].left \ {f} /\ app'[p].misled = app[p].misled
      BY <1>0, <1>4, <3>1 DEF Proc
    <3>4. /\ \A g \in Files : g # f => local'[g] = local[g]
          /\ local'[f].mtime = app[p].srcTime /\ local'[f].data = local[f].data
      BY <1>5, <2>1, <3>1 DEF FileState
    <3> QED BY <3>1, <3>2, <3>3, <3>4
  <2> QED BY <2>2, <2>3, <2>4
<1>8. \A g \in Files : g # f => /\ Unchanged(g)' = Unchanged(g)
                                /\ TrueCopy(g)' = TrueCopy(g)
  BY <1>6, <1>7 DEF Unchanged, TrueCopy
<1>9. \A d \in Dir : d # dir /\ Copied(d) => Copied(d)'
  BY <1>5, <1>6, <1>8, FilesApart DEF Copied, Dir, CopySafe, Safe
<1>10. /\ Unchanged(f)' => local'[f].data = dev'[f].data
       /\ app'[p].pc = "copy" => TrueCopy(f)'
       /\ app'[p].pc # "copy" => ~Unchanged(f)'
  BY <1>4, <1>5, <1>6, <1>7 DEF Unchanged, TrueCopy
<1>11. CopyingInv(p)'
  <2>1. /\ \A g \in app[p].left : dev[g].data # Absent
        /\ \A g \in FilesOf(dir) \ app[p].left : dev[g].data # Absent => TrueCopy(g)
        /\ app[p].srcTime = dev[f].mtime
    BY <1>0, <1>1, <1>4 DEF CopyingInv
  <2>2. \A g \in app'[p].left : dev'[g].data # Absent
    BY <1>6, <1>7, <2>1
  <2>3. \A g \in FilesOf(dir) \ app'[p].left : dev'[g].data # Absent => TrueCopy(g)'
    <3> SUFFICES ASSUME NEW g \in FilesOf(dir) \ app'[p].left, dev'[g].data # Absent
                 PROVE  TrueCopy(g)'
      OBVIOUS
    <3>1. CASE g = f
      BY <1>4, <1>7, <1>10, <3>1
    <3>2. CASE g # f
      BY <1>5, <1>6, <1>7, <1>8, <2>1, <3>2
    <3> QED BY <3>1, <3>2
  <2>4. FilesOf(app[p].dir)' = FilesOf(dir)
    BY <1>6, <1>7 DEF FilesOf, Libs, Dexes
  <2>5. app'[p].pc \in Writing =>
          /\ app'[p].srcTime = dev'[app'[p].cur].mtime /\ ~Unchanged(app[p].cur)'
          /\ local'[app'[p].cur].mtime = Now
          /\ app'[p].pc = "stamp" => local'[app'[p].cur].data = dev'[app'[p].cur].data
    <3>1. CASE app'[p].pc \in Writing
      <4>1. app'[p].pc # "copy"
        BY <3>1 DEF Writing, Copying
      <4>2. app'[p].cur = f /\ ~Unchanged(f)'
        BY <1>7, <1>10, <4>1
      <4>3. ~Unchanged(app[p].cur)'
        BY <4>2 DEF Unchanged
      <4> QED BY <1>6, <1>7, <2>1, <4>1, <4>2, <4>3
    <3> QED BY <3>1
  <2> QED BY <2>2, <2>3, <2>4, <2>5 DEF CopyingInv
<1>12. \A d \in Dir : ShowsCopied(p, d)' => ShowsCopied(p, d) /\ d # dir
  <2>1. \A d \in Dir : ShowsCopied(p, d)' => ShowsCopied(p, d)
    BY <1>1, <1>6, <1>7 DEF ShowsCopied, PastLib, Starting
  <2> QED BY <1>4, <2>1
<1>13. ASSUME NEW q \in Process, q # p
       PROVE  /\ CopyingInv(q)'
              /\ \A d \in Dir : ShowsCopied(q, d)' => ShowsCopied(q, d) /\ d # dir
  <2>1. app'[q] = app[q]
    BY <1>2, <1>13 DEF ProcessFrame
  <2>2. \A d \in Dir : ShowsCopied(q, d)' => ShowsCopied(q, d)
    BY <1>1, <1>6, <2>1 DEF ShowsCopied, PastLib, Starting
  <2>3. CASE app[q].pc \notin Copying
    BY <1>4, <2>1, <2>2, <2>3 DEF CopyingInv, Writing
  <2>4. CASE app[q].pc \in Copying
    <3>1. /\ app[q].dir \in Dir /\ app[q].dir # dir /\ CopyingInv(q)
          /\ app[q].left \subseteq FilesOf(app[q].dir) /\ f \notin FilesOf(app[q].dir)
          /\ app[q].pc \in Writing => app[q].cur \in app[q].left
      BY <1>3, <1>4, <1>5, <1>13, <2>4, Shown DEF Shaped
    <3>2. FilesOf(app[q].dir) \subseteq Files /\ FilesOf(app[q].dir)' = FilesOf(app[q].dir)
      BY <1>6, <2>1, <3>1, FilesApart DEF FilesOf, Libs, Dexes, Dir, CopySafe, Safe
    <3>3. \A g \in FilesOf(app[q].dir) : /\ local'[g] = local[g] /\ dev'[g] = dev[g]
                                        /\ TrueCopy(g)' = TrueCopy(g)
                                        /\ Unchanged(g)' = Unchanged(g)
      BY <1>6, <1>7, <1>8, <3>1, <3>2
    <3>4. app[q].pc \in Writing => Unchanged(app[q].cur)' = Unchanged(app[q].cur)
      BY <2>1, <3>1, <3>3 DEF Unchanged
    <3>5. CopyingInv(q)'
      BY <2>1, <3>1, <3>2, <3>3, <3>4 DEF CopyingInv
    <3> QED BY <1>4, <2>2, <3>5
  <2> QED BY <2>3, <2>4
<1>14. LibTrusted' => Copied("lib")'
  <2>1. LibTrusted' => Copied("lib") /\ "lib" \in Dir
    BY <1>1, <1>3, <1>6 DEF Copies, Dir, LibTrusted
  <2> QED BY <1>4, <1>9, <2>1
<1>15. \A g \in Files : Unchanged(g)' => local'[g].data = dev'[g].data
  BY <1>3, <1>6, <1>7, <1>8, <1>10 DEF Copies
<1>16. \A q \in Process, d \in Dir : ShowsCopied(q, d)' => Copied(d)'
  BY <1>3, <1>9, <1>12, <1>13 DEF Copies
<1> QED BY <1>6, <1>11, <1>13, <1>14, <1>15, <1>16 DEF Copies, Files

LEMMA NextCopies ==
  ASSUME CopySafe, [Next]_vars
  PROVE  CopySafe'
<1>1. Safe'
  BY NextSafe DEF CopySafe
<1>2. CASE InstallerStep
  BY <1>1, <1>2, InstallerCopies DEF CopySafe
<1>3. ASSUME NEW p \in Process, ProcessStep(p) PROVE Excused' \/ Copies'
  BY <1>3, EnterCopies, ImportCopies, OpenCopies, TryCopies, CheckCopies, WriteCopies,
     ReleaseCopies, RaiseCopies, AbortCopies, DeleteCopies, AwaitCopies, LoadCopies, EndCopies
     DEF ProcessStep, Files
<1>4. CASE UNCHANGED vars
  BY <1>1, <1>4, QuietSteps DEF CopySafe
<1> QED BY <1>1, <1>2, <1>3, <1>4 DEF Next, CopySafe

LEMMA InitCopies == Init => CopySafe
<1> SUFFICES ASSUME Init PROVE CopySafe
  OBVIOUS
<1>1. Safe
  BY InitSafe
<1>2. \A f \in Files : local[f].data = Absent
  BY DEF Init, Nothing, NoFile, Files
<1>3. \A p \in Process : CopyingInv(p) /\ \A dir \in Dir : ~ShowsCopied(p, dir)
  BY DEF Init, CopyingInv, ShowsCopied, PastLib, Starting, Off, Copying, Writing
<1>4. firstrunLock # "clear"
  BY DEF Init, Fresh, Installed, Broken
<1> QED BY <1>1, <1>2, <1>3, <1>4 DEF CopySafe, Copies, Unchanged, LibTrusted

LEMMA CopiesAlways == Spec => []CopySafe
BY InitCopies, NextCopies, PTL DEF Spec

\* All that the proofs above rest on holds together, in every state.
THEOREM InductiveInvariant == Spec => []IInv
<1>1. CopySafe /\ TypeOK => IInv
  BY CopyParts DEF CopySafe, Safe, Typed, IInv
<1> QED BY <1>1, TypeCorrect, CopiesAlways, PTL

\* A file of the app's data directory that copyIfModified takes for a copy
\* of the file on the device, by its time, has the contents of that file.
THEOREM UnchangedMeansTheSame == Spec => []CopiesTrue
<1>1. CopySafe => CopiesTrue
  BY CopyParts DEF CopySafe
<1> QED BY <1>1, CopiesAlways, PTL

\* A process that began on a finished install loads the dex files, and then
\* the libraries, of that install, unless a process started during a push.
THEOREM ProcessesLoadTheInstall == Spec => []LoadsTheInstall
<1>1. ASSUME CopySafe PROVE LoadsTheInstall
  <2> SUFFICES ASSUME NEW p \in Process, app[p].clean, ~app[p].misled, ~Excused
               PROVE  /\ app[p].pc = "load" => \A f \in Dexes : Seen(f) = host[f]
                      /\ app[p].pc = "run" => \A f \in Libs : Seen(f) = host[f]
    BY DEF LoadsTheInstall, Excused
  <2>1. \A f \in Files : dev[f].data = host[f] /\ dev[f].data # Absent
    <3>1. \A f \in Files : dev[f].data = host[f]
      BY <1>1 DEF CopySafe, Safe, InstallInv, CleanInv, Files
    <3> QED BY <1>1, <3>1, TimesTyped, Constants DEF CopySafe, Safe
  <2>2. /\ Libs \subseteq Files /\ Dexes \subseteq Files
        /\ FilesOf("lib") = Libs /\ FilesOf("dex") = Dexes
        /\ \A f \in Libs : f \in LibFile
        /\ \A f \in Dexes : f \notin LibFile
    BY <1>1, FilesApart, Constants DEF Libs, Dexes, CopySafe, Safe
  <2>3. CASE app[p].pc = "load"
    <3>1. config.oreo => Copied("dex")
      BY <1>1, <2>3, Shown DEF ShowsCopied, Dir
    <3> QED BY <2>1, <2>2, <2>3, <3>1 DEF Copied, TrueCopy, Seen
  <2>4. CASE app[p].pc = "run"
    <3>1. Copied("lib")
      BY <1>1, <2>4, Shown DEF ShowsCopied, Dir
    <3> QED BY <2>1, <2>2, <2>4, <3>1 DEF Copied, TrueCopy, Seen
  <2> QED BY <2>3, <2>4
<1> QED BY <1>1, CopiesAlways, PTL
=============================================================================
