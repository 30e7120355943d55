------------------------- MODULE IncrementalInstall -------------------------
(***************************************************************************)
(* src/android/incremental_install: installer.py pushes .so and .dex files *)
(* to a directory of the device while processes of the app may be starting *)
(* (BootstrapApplication, ClassLoaderPatcher, LockFile).  The two sides    *)
(* meet in the files install.lock and firstrun.lock; the processes of the  *)
(* app copy the files to the app's data directory under a third lock, the  *)
(* runtime lock of that directory, which exists while somebody copies.     *)
(*                                                                         *)
(* One package, its device cache enabled.  A process is primary when it    *)
(* runs as the app's user; isolated processes exist before Lollipop only   *)
(* (check_selinux).                                                        *)
(***************************************************************************)
EXTENDS Naturals, FiniteSets

CONSTANTS Process,
          LibFile, DexFile,
          Content,          \* what a build may put in a file
          Configuration,    \* the devices and apps to look at
          MaxInstalls,      \* bound on their calls of Install
          Absent, Partial,  \* a file that does not exist, or is half written
          Now,              \* the modification time of a file just written
          Empty,            \* a cache file that was opened and not yet written
          None

File == LibFile \cup DexFile
Dir == {"lib", "dex"}
Round == 0..MaxInstalls

\* A new inode is made when none is named, so one per process is enough.
Inode == 1..Cardinality(Process)

ASSUME InstallAssumption ==
  /\ MaxInstalls \in Nat
  /\ IsFiniteSet(Process)
  /\ Configuration \subseteq
       [oreo : BOOLEAN, isolated : SUBSET Process, files : SUBSET File,
        installs : 0..MaxInstalls, faulty : SUBSET Process]
  /\ \A c \in Configuration : c.oreo => c.isolated = {}
  /\ LibFile \cap DexFile = {}
  /\ File \cap {"install.lock", "firstrun.lock", "restore", "apk", "release", "save"} = {}
  /\ Empty # None /\ Empty \notin [File -> Content]
  /\ None \notin Process \cup File \cup Content
  /\ Absent \notin Content /\ Partial \notin Content /\ Absent # Partial
  /\ Now \notin Round

VARIABLES config,     \* the device runs Android O or later; the processes
                      \* that are not primary; the files of the app; its
                      \* bound on the calls of Install; the processes whose
                      \* operations on files may raise
          phase, todo,      \* the installer: where Install is, tasks left
          round,            \* calls of Install so far
          host,             \* the files of the build to install
          known,            \* the files DeviceUtils believes on the device
          cache,            \* the device cache file, or None if there is none
          apk,              \* the app is installed
          installLock, firstrunLock,
          dev,              \* the files in the directory of the device
          local,            \* the copies in the app's data directory
          lockName,   \* the inode each runtime lock's name leads to, or 0
          lockHolder, \* who holds the lock of each inode
          app,        \* the processes
          whole,      \* history: the last Install returned
          overlap,    \* history: a process was starting during a push
          mishap      \* history: the directories whose lock file is gone because
                      \* a copy raised; "firstrun" if firstrun.lock was cleared
                      \* by a process that was misled; "crossed" if one whose
                      \* copy raised deleted a lock file another had opened

hostVars == <<phase, todo, round, host, known, cache>>
devVars == <<config, apk, installLock, firstrunLock, dev>>
Libs == config.files \cap LibFile
Dexes == config.files \cap DexFile
FilesOf(dir) == IF dir = "lib" THEN Libs ELSE Dexes

dataVars == <<local, lockName, lockHolder>>
vars == <<hostVars, devVars, dataVars, app, whole, overlap, mishap>>

NoFile == [data |-> Absent, mtime |-> 0]
Nothing == [f \in config.files |-> NoFile]

\* A process that is not running.  cur and srcTime belong to copyIfModified;
\* clean, paused and misled are history: it began on a finished install, and was
\* not misled if it runs; it found firstrun.lock as this Install left it; it goes
\* on without a copy, its own or another's, because one raised or a lock could
\* not be had.
Off == [pc |-> "off", first |-> FALSE, dir |-> "lib", fd |-> 0, left |-> {},
        cur |-> None, srcTime |-> 0, clean |-> FALSE, paused |-> FALSE,
        misled |-> FALSE]

Fresh ==
  /\ cache = None /\ apk = FALSE /\ whole = FALSE
  /\ installLock = "missing" /\ firstrunLock = "missing"
  /\ dev = Nothing

Installed ==
  /\ cache \in {None, host} /\ apk = TRUE /\ whole = TRUE
  /\ installLock = "clear" /\ firstrunLock = "locked"
  /\ dev = [f \in config.files |-> [data |-> host[f], mtime |-> 0]]

\* An Install failed, somewhere in its pushes.
Broken ==
  /\ cache = None /\ apk = TRUE /\ whole = FALSE
  /\ installLock = "locked" /\ firstrunLock = "locked"
  /\ dev \in [config.files -> [data : {Partial}, mtime : {Now}]
                            \cup [data : Content, mtime : {0}]]

Init ==
  /\ config \in Configuration
  /\ phase = "idle" /\ todo = {} /\ round = 0 /\ known = None
  /\ host \in [config.files -> Content]
  /\ Fresh \/ Installed \/ Broken
  /\ local = Nothing
  /\ lockName = [d \in Dir |-> 0]
  /\ lockHolder = [d \in Dir |-> [i \in Inode |-> None]]
  /\ app = [p \in Process |-> Off]
  /\ overlap = FALSE /\ mishap = {}
-----------------------------------------------------------------------------
(* The installer.  _Execute runs the tasks of a phase concurrently.        *)

TasksOf(ph) ==
  CASE ph = "setup"    -> {"install.lock", "firstrun.lock", "restore"}
    [] ph = "push"     -> {"apk"} \cup config.files
    [] ph = "finalize" -> {"release", "save"}
    [] OTHER           -> {}

After == [setup |-> "push", push |-> "finalize", finalize |-> "idle"]

\* The task is done; when it was the last one the next phase begins.
Finish(task) ==
  IF todo # {task}
    THEN todo' = todo \ {task} /\ UNCHANGED <<phase, whole>>
    ELSE /\ phase' = After[phase]
         /\ todo' = TasksOf(phase')
         /\ whole' = (phase' = "idle")

\* The process is between its look at firstrun.lock and the end of its start.
Starting(p) == app[p].pc \notin {"off", "wait", "run"}

Install ==
  /\ phase = "idle" /\ round < config.installs
  /\ phase' = "setup" /\ todo' = TasksOf("setup")
  /\ round' = round + 1
  /\ host' \in [config.files -> Content]
  /\ whole' = FALSE
  /\ overlap' = (overlap \/ \E p \in Process : Starting(p))
  /\ app' = [p \in Process |->
               [app[p] EXCEPT !.clean = FALSE, !.paused = FALSE]]
  /\ UNCHANGED <<known, cache, devVars, dataVars, mishap>>

\* Mutant: firstrun.lock may be zeroed before install.lock.
AnyOrder == TRUE
InOrder == "install.lock" \notin todo

\* create_lock_files: the shell opens install.lock, then firstrun.lock.
LockInstall ==
  /\ "install.lock" \in todo
  /\ installLock' = "locked"
  /\ Finish("install.lock")
  /\ UNCHANGED <<round, host, known, cache, config, apk, firstrunLock, dev,
                 dataVars, app, overlap, mishap>>

LockFirstrun ==
  /\ "firstrun.lock" \in todo
  /\ InOrder
  /\ firstrunLock' = "locked"
  /\ mishap' = mishap \ {"firstrun"}
  /\ Finish("firstrun.lock")
  /\ UNCHANGED <<round, host, known, cache, config, apk, installLock, dev,
                 dataVars, app, overlap>>

\* Mutant: the cache file is kept.
KeptCache == cache
CacheLeft == None

\* LoadCacheData raises on an empty file, before the file is deleted.
RestoreCache ==
  /\ "restore" \in todo
  /\ cache # Empty
  /\ known' = cache
  /\ cache' = CacheLeft
  /\ Finish("restore")
  /\ UNCHANGED <<round, host, devVars, dataVars, app, overlap, mishap>>

\* device.Install replaces the apk, and the system kills the app, unless the
\* device has that apk already.
InstallApk ==
  /\ "apk" \in todo
  /\ Finish("apk")
  /\ apk' = TRUE
  /\ \/ apk /\ UNCHANGED <<app, lockHolder>>
     \/ /\ app' = [p \in Process |-> Off]
        /\ lockHolder' = [d \in Dir |-> [i \in Inode |-> None]]
  /\ UNCHANGED <<round, host, known, cache, config, installLock,
                 firstrunLock, dev, local, lockName, overlap, mishap>>

\* PushChangedFiles compares checksums, those of the cache if it has them.
UpToDate(f) ==
  IF known # None THEN known[f] = host[f] ELSE dev[f].data = host[f]

\* The libraries are pushed first.
Turn(f) == f \in todo /\ (f \in DexFile => Libs \cap todo = {})

PushNothing(f) ==
  /\ Turn(f) /\ UpToDate(f)
  /\ Finish(f)
  /\ UNCHANGED <<round, host, known, cache, devVars, dataVars, app, overlap, mishap>>

PushBegin(f) ==
  /\ Turn(f) /\ ~UpToDate(f)
  /\ dev[f].data # Partial
  /\ dev' = [dev EXCEPT ![f] = [data |-> Partial, mtime |-> Now]]
  /\ UNCHANGED <<hostVars, config, apk, installLock, firstrunLock, dataVars,
                 app, whole, overlap, mishap>>

PushEnd(f) ==
  /\ Turn(f) /\ ~UpToDate(f)
  /\ dev[f].data = Partial
  /\ dev' = [dev EXCEPT ![f] = [data |-> host[f], mtime |-> round]]
  /\ Finish(f)
  /\ UNCHANGED <<round, host, known, cache, config, apk, installLock,
                 firstrunLock, dataVars, app, overlap, mishap>>

ReleaseInstallerLock ==
  /\ "release" \in todo
  /\ installLock' = "clear"
  /\ app' = [p \in Process |-> [app[p] EXCEPT !.paused = FALSE]]
  /\ Finish("release")
  /\ UNCHANGED <<round, host, known, cache, config, apk, firstrunLock, dev,
                 dataVars, overlap, mishap>>

\* DumpCacheData: the device now has the files of the build.
SaveCache ==
  /\ "save" \in todo
  /\ cache' = host
  /\ known' = None
  /\ Finish("save")
  /\ UNCHANGED <<round, host, devVars, dataVars, app, overlap, mishap>>

\* A task raises, or the installer is killed.  save_cache opens the file, which
\* empties it, before it writes.
InstallFails ==
  /\ phase \in DOMAIN After
  /\ phase' = "idle" /\ todo' = {} /\ known' = None
  /\ cache' \in {cache} \cup {c \in {Empty} : "save" \in todo}
  /\ UNCHANGED <<round, host, devVars, dataVars, app, whole, overlap, mishap>>

\* Uninstall removes the app with its data, the cache, then the directory.
UninstallApp ==
  /\ phase = "idle"
  /\ phase' = "dropCache"
  /\ apk' = FALSE /\ whole' = FALSE
  /\ local' = Nothing
  /\ lockName' = [d \in Dir |-> 0]
  /\ lockHolder' = [d \in Dir |-> [i \in Inode |-> None]]
  /\ app' = [p \in Process |-> Off]
  /\ mishap' = {}
  /\ UNCHANGED <<todo, round, host, known, cache, config, installLock,
                 firstrunLock, dev, overlap>>

DropCache ==
  /\ phase = "dropCache"
  /\ phase' = "removeDir"
  /\ cache' = None
  /\ UNCHANGED <<todo, round, host, known, devVars, dataVars, app, whole,
                 overlap, mishap>>

RemoveDir ==
  /\ phase = "removeDir"
  /\ phase' = "idle"
  /\ dev' = Nothing
  /\ installLock' = "missing" /\ firstrunLock' = "missing"
  /\ UNCHANGED <<todo, round, host, known, cache, config, apk, dataVars, app,
                 whole, overlap, mishap>>

UninstallFails ==
  /\ phase \in {"dropCache", "removeDir"}
  /\ phase' = "idle"
  /\ UNCHANGED <<todo, round, host, known, cache, devVars, dataVars, app,
                 whole, overlap, mishap>>
-----------------------------------------------------------------------------
(* A process of the app: BootstrapApplication.attachBaseContext.           *)

\* Nobody pushes, and the device has the files of a finished install.
Settled == whole \/ (phase = "finalize" /\ "release" \notin todo)
Pushing == phase \in {"setup", "push"}

\* firstrun.lock has been zeroed by this Install, and nothing is released yet.
LocksHeld ==
  \/ phase = "setup" /\ "firstrun.lock" \notin todo
  \/ phase = "push"
  \/ phase = "finalize" /\ "release" \in todo

Set(p, proc) == app' = [app EXCEPT ![p] = proc]

\* An isolated process takes the libraries for copied once firstrun.lock is clear.
Trusting(p) == p \in config.isolated /\ "firstrun" \in mishap

\* installerLockExists(firstrun.lock)
Start(p) ==
  /\ apk
  /\ app[p].pc = "off"
  /\ LET first == firstrunLock # "clear" IN
     /\ Set(p, [Off EXCEPT !.pc = IF first THEN "wait" ELSE "lib",
                           !.first = first,
                           !.clean = Settled,
                           !.paused = first /\ LocksHeld,
                           !.misled = ~first /\ Trusting(p)])
     /\ overlap' = (overlap \/ (~first /\ Pushing))
  /\ UNCHANGED <<hostVars, devVars, dataVars, whole, mishap>>

LockToWaitFor(p) == IF p \in config.isolated THEN firstrunLock ELSE installLock

Wait(p) ==
  /\ app[p].pc = "wait"
  /\ LockToWaitFor(p) = "clear"
  /\ Set(p, [app[p] EXCEPT !.pc = "lib", !.clean = Settled, !.misled = Trusting(p)])
  /\ overlap' = (overlap \/ Pushing)
  /\ UNCHANGED <<hostVars, devVars, dataVars, whole, mishap>>

Exists(dir) == \E f \in FilesOf(dir) : dev[f].data # Absent

\* safeCopyAllFiles of a directory begins.
Copy(p, dir) ==
  LET at == IF p \in config.isolated THEN "await" ELSE "open" IN
  Set(p, [app[p] EXCEPT !.pc = at, !.dir = dir])

\* importNativeLibs
ImportLibs(p) ==
  /\ app[p].pc = "lib"
  /\ IF Exists("lib") THEN Copy(p, "lib")
     ELSE Set(p, [app[p] EXCEPT !.pc = "dex"])
  /\ UNCHANGED <<hostVars, devVars, dataVars, whole, overlap, mishap>>

\* loadDexFiles: since O the system keeps optimized files beside the dex
\* files, so these are copied too.
ImportDex(p) ==
  /\ app[p].pc = "dex"
  /\ IF config.oreo THEN Copy(p, "dex")
     ELSE Set(p, [app[p] EXCEPT !.pc = "load"])
  /\ UNCHANGED <<hostVars, devVars, dataVars, whole, overlap, mishap>>

AfterCopy(p) == IF app[p].dir = "lib" THEN "dex" ELSE "load"

(* acquireRuntimeLock                                                      *)

FreshInode(dir) ==
  CHOOSE i \in Inode : \A q \in Process : app[q].dir = dir => app[q].fd # i

OpenLock(p) ==
  LET dir == app[p].dir
      inode == IF lockName[dir] = 0 THEN FreshInode(dir) ELSE lockName[dir]
  IN
  /\ app[p].pc = "open"
  /\ lockName' = [lockName EXCEPT ![dir] = inode]
  /\ mishap' = mishap \ {dir}
  /\ Set(p, [app[p] EXCEPT !.pc = "try", !.fd = inode])
  /\ UNCHANGED <<hostVars, devVars, local, lockHolder, whole, overlap>>

\* An IOException of the opening or of tryLock counts as a lock not granted: the
\* process waits for a file that may not be there, and goes on.
LockFails(p) ==
  /\ p \in config.faulty
  /\ app[p].pc \in {"open", "try"}
  /\ Set(p, [app[p] EXCEPT !.pc = "await", !.fd = 0, !.misled = TRUE])
  /\ UNCHANGED <<hostVars, devVars, dataVars, whole, overlap, mishap>>

Free(dir, inode) == lockHolder[dir][inode] = None

\* tryLock, and the list of the files to copy; or the lock is not granted.
TryLock(p) ==
  LET dir == app[p].dir
      inode == app[p].fd
      present == {f \in FilesOf(dir) : dev[f].data # Absent}
  IN
  /\ app[p].pc = "try"
  /\ IF Free(dir, inode)
       THEN /\ lockHolder' = [lockHolder EXCEPT ![dir][inode] = p]
            /\ Set(p, [app[p] EXCEPT !.pc = "copy", !.left = present])
       ELSE /\ UNCHANGED lockHolder
            /\ Set(p, [app[p] EXCEPT !.pc = "await", !.fd = 0])
  /\ UNCHANGED <<hostVars, devVars, local, lockName, whole, overlap, mishap>>

(* copyChangedFiles and copyIfModified                                     *)

Copying == {"copy", "truncate", "transfer", "stamp"}
Unchanged(f) ==
  local[f].data # Absent /\ local[f].mtime = dev[f].mtime /\ dev[f].mtime # Now

CheckFile(p, f) ==
  /\ app[p].pc = "copy" /\ f \in app[p].left
  /\ Set(p, IF Unchanged(f)
              THEN [app[p] EXCEPT !.left = @ \ {f}]
              ELSE [app[p] EXCEPT !.pc = "truncate", !.cur = f,
                                  !.srcTime = dev[f].mtime])
  /\ UNCHANGED <<hostVars, devVars, dataVars, whole, overlap, mishap>>

\* Mutant: the copy gets the time of its source before the contents.
EarlyTime(p) == app[p].srcTime
TimeMeanwhile(p) == Now

Truncate(p) ==
  /\ app[p].pc = "truncate"
  /\ local' = [local EXCEPT ![app[p].cur] =
                 [data |-> Partial, mtime |-> TimeMeanwhile(p)]]
  /\ Set(p, [app[p] EXCEPT !.pc = "transfer"])
  /\ UNCHANGED <<hostVars, devVars, lockName, lockHolder, whole, overlap, mishap>>

Transfer(p) ==
  /\ app[p].pc = "transfer"
  /\ local' = [local EXCEPT ![app[p].cur] =
                 [data |-> dev[app[p].cur].data, mtime |-> Now]]
  /\ Set(p, [app[p] EXCEPT !.pc = "stamp"])
  /\ UNCHANGED <<hostVars, devVars, lockName, lockHolder, whole, overlap, mishap>>

\* setLastModified
Stamp(p) ==
  /\ app[p].pc = "stamp"
  /\ local' = [local EXCEPT ![app[p].cur].mtime = app[p].srcTime]
  /\ Set(p, [app[p] EXCEPT !.pc = "copy", !.left = @ \ {app[p].cur},
                           !.cur = None, !.srcTime = 0])
  /\ UNCHANGED <<hostVars, devVars, lockName, lockHolder, whole, overlap, mishap>>

\* LockFile.release: the lock is released before its file is deleted.
Unlock(p) == lockHolder' = [lockHolder EXCEPT ![app[p].dir][app[p].fd] = None]
ReleaseLock(p) ==
  /\ app[p].pc = "copy" /\ app[p].left = {}
  /\ Unlock(p)
  /\ Set(p, [app[p] EXCEPT !.pc = "delete", !.fd = 0])
  /\ UNCHANGED <<hostVars, devVars, local, lockName, whole, overlap, mishap>>

DeleteLock(p) ==
  /\ app[p].pc = "delete"
  /\ lockName[app[p].dir] # 0
  /\ lockName' = [lockName EXCEPT ![app[p].dir] = 0]
  /\ Set(p, [app[p] EXCEPT !.pc = AfterCopy(p), !.dir = "lib"])
  /\ UNCHANGED <<hostVars, devVars, local, lockHolder, whole, overlap, mishap>>

\* "Failed to delete lock file": the IOException ends the process.
DeleteFails(p) ==
  /\ app[p].pc = "delete"
  /\ lockName[app[p].dir] = 0
  /\ Set(p, Off)
  /\ UNCHANGED <<hostVars, devVars, dataVars, whole, overlap, mishap>>

\* A file cannot be listed, opened, read or written: the finally clause releases
\* the lock as well, with the copy as it is.
CopyRaises(p) ==
  /\ p \in config.faulty
  /\ app[p].pc \in Copying
  /\ Unlock(p)
  /\ Set(p, [app[p] EXCEPT !.pc = "abort", !.fd = 0, !.left = {}, !.cur = None,
                           !.srcTime = 0])
  /\ UNCHANGED <<hostVars, devVars, local, lockName, whole, overlap, mishap>>

\* It deletes the lock file, if it is there, and the exception ends the process.
Crosses(dir) == \E q \in Process :
  lockName[dir] # 0 /\ app[q].dir = dir /\ app[q].fd = lockName[dir]
Abort(p) ==
  /\ app[p].pc = "abort"
  /\ lockName' = [lockName EXCEPT ![app[p].dir] = 0]
  /\ mishap' = mishap \cup {app[p].dir} \cup
                 (IF Crosses(app[p].dir) THEN {"crossed"} ELSE {})
  /\ Set(p, Off)
  /\ UNCHANGED <<hostVars, devVars, local, lockHolder, whole, overlap>>

\* Mutant: a process whose lock is refused does not wait.
NoWait(dir) == TRUE
LockGone(dir) == lockName[dir] = 0

\* waitForRuntimeLock
AwaitLock(p) ==
  /\ app[p].pc = "await"
  /\ LockGone(app[p].dir)
  /\ Set(p, [app[p] EXCEPT !.pc = AfterCopy(p), !.dir = "lib",
                           !.misled = @ \/ app[p].dir \in mishap])
  /\ UNCHANGED <<hostVars, devVars, dataVars, whole, overlap, mishap>>
-----------------------------------------------------------------------------
\* What a process gets when it loads f: a library, at any time from then on.
Seen(f) == IF f \in LibFile \/ config.oreo THEN local[f].data ELSE dev[f].data

Running(p) == [Off EXCEPT !.pc = "run", !.clean = app[p].clean /\ ~app[p].misled]

\* The dex files are loaded; if there are none the process ends.
LoadDex(p) ==
  /\ app[p].pc = "load"
  /\ Set(p, IF \A f \in Dexes : Seen(f) = Absent THEN Off
            ELSE IF app[p].first /\ p \notin config.isolated
              THEN [app[p] EXCEPT !.pc = "clear"]
            ELSE Running(p))
  /\ UNCHANGED <<hostVars, devVars, dataVars, whole, overlap, mishap>>

\* clearInstallerLock(firstrun.lock)
ClearFirstrun(p) ==
  /\ app[p].pc = "clear"
  /\ firstrunLock' = "clear"
  /\ mishap' = IF app[p].misled /\ config.isolated # {} THEN mishap \cup {"firstrun"}
               ELSE mishap \ {"firstrun"}
  /\ Set(p, Running(p))
  /\ UNCHANGED <<hostVars, config, apk, installLock, dev, dataVars, whole, overlap>>

\* pollingWait throws after its timeout.
TimesOut(p) ==
  /\ \/ app[p].pc = "wait" /\ LockToWaitFor(p) # "clear"
     \/ app[p].pc = "await" /\ ~LockGone(app[p].dir)
  /\ Set(p, Off)
  /\ UNCHANGED <<hostVars, devVars, dataVars, whole, overlap, mishap>>

\* The process ends, and the kernel releases its lock.
Killed(p) ==
  /\ app[p].pc # "off"
  /\ Set(p, Off)
  /\ lockHolder' = [d \in Dir |-> [i \in Inode |->
       IF lockHolder[d][i] = p THEN None ELSE lockHolder[d][i]]]
  /\ UNCHANGED <<hostVars, devVars, local, lockName, whole, overlap, mishap>>

InstallerStep ==
  \/ Install \/ LockInstall \/ LockFirstrun \/ RestoreCache \/ InstallApk
  \/ \E f \in config.files : PushNothing(f) \/ PushBegin(f) \/ PushEnd(f)
  \/ ReleaseInstallerLock \/ SaveCache \/ InstallFails
  \/ UninstallApp \/ DropCache \/ RemoveDir \/ UninstallFails

ProcessStep(p) ==
  \/ Start(p) \/ Wait(p) \/ ImportLibs(p) \/ ImportDex(p)
  \/ OpenLock(p) \/ TryLock(p) \/ LockFails(p)
  \/ \E f \in config.files : CheckFile(p, f)
  \/ Truncate(p) \/ Transfer(p) \/ Stamp(p)
  \/ ReleaseLock(p) \/ DeleteLock(p) \/ DeleteFails(p) \/ AwaitLock(p)
  \/ CopyRaises(p) \/ Abort(p)
  \/ LoadDex(p) \/ ClearFirstrun(p)
  \/ TimesOut(p) \/ Killed(p)

Next == InstallerStep \/ \E p \in Process : ProcessStep(p)

Spec == Init /\ [][Next]_vars
-----------------------------------------------------------------------------
Data == Content \cup {Absent, Partial}
FileState == [data : Data, mtime : Round \cup {Now}]
LockState == {"missing", "locked", "clear"}
At == {"off", "wait", "lib", "dex", "open", "try", "copy", "truncate",
       "transfer", "stamp", "delete", "abort", "await", "load", "clear", "run"}
Writing == Copying \ {"copy"}
Locked == {"try"} \cup Copying

Proc ==
  [pc : At, first : BOOLEAN, dir : Dir, fd : {0} \cup Inode, left : SUBSET config.files,
   cur : config.files \cup {None}, srcTime : Round \cup {Now},
   clean : BOOLEAN, paused : BOOLEAN, misled : BOOLEAN]

\* Who copies holds the lock of the inode it opened.
StateOK ==
  /\ phase \in {"idle", "setup", "push", "finalize", "dropCache", "removeDir"}
  /\ todo \subseteq TasksOf(phase)
  /\ round \in 0..config.installs
  /\ host \in [config.files -> Content]
  /\ known \in [config.files -> Content] \cup {None}
  /\ cache \in [config.files -> Content] \cup {None, Empty}
  /\ config \in Configuration
  /\ apk \in BOOLEAN /\ whole \in BOOLEAN /\ overlap \in BOOLEAN
  /\ installLock \in LockState /\ firstrunLock \in LockState
  /\ dev \in [config.files -> FileState]
  /\ local \in [config.files -> FileState]
  /\ lockName \in [Dir -> {0} \cup Inode]
  /\ lockHolder \in [Dir -> [Inode -> Process \cup {None}]]
  /\ app \in [Process -> Proc]
  /\ \A p \in Process :
       app[p].pc \in Copying => lockHolder[app[p].dir][app[p].fd] = p

TypeOK == StateOK /\ mishap \subseteq Dir \cup {"firstrun", "crossed"}

\* "install.lock tells the app to pause on start-up (until we release it)":
\* a process that finds firstrun.lock as an installer left it goes no further
\* before that installer's files are complete.
FirstRunWaits ==
  \A p \in Process : app[p].paused /\ (p \in config.isolated => ~overlap) =>
    app[p].pc \in {"off", "wait"}

\* An Install that returns leaves the files of its build on the device,
\* whatever failed before it and whatever it took from the cache.
InstallComplete == Settled => \A f \in config.files : dev[f].data = host[f]

\* Unless a process was starting during a push, one that begins on a finished
\* install loads the files of that install, whole, whoever copies them, and
\* whoever is killed or raises.  Left out is what the code does not keep: a
\* process that goes on because the copier it waited for raised, or because its
\* lock could not be had; and two copiers at once, after a raising one deleted
\* the lock file of another.
LoadsTheInstall ==
  \A p \in Process : app[p].clean /\ ~app[p].misled /\ ~overlap /\ "crossed" \notin mishap =>
    /\ app[p].pc = "load" => \A f \in Dexes : Seen(f) = host[f]
    /\ app[p].pc = "run" => \A f \in Libs : Seen(f) = host[f]

\* A copy that copyIfModified will leave alone is the file it was made from,
\* though copiers are killed or raise, but for two copiers at once.
CopiesTrue ==
  ~overlap /\ "crossed" \notin mishap =>
    \A f \in config.files : Unchanged(f) => local[f].data = dev[f].data
-----------------------------------------------------------------------------
(* What makes these inductive.                                             *)

\* What a process has at each point of its start.
Shape ==
  \A p \in Process :
    /\ app[p].fd # 0 <=> app[p].pc \in Locked
    /\ app[p].dir = "dex" =>
         config.oreo /\ app[p].pc \in Locked \cup {"open", "delete", "abort", "await"}
    /\ app[p].pc \in Copying => app[p].left \subseteq FilesOf(app[p].dir)
    /\ app[p].pc \in Writing => app[p].cur \in app[p].left

\* Without the apk nothing of the app is there.
GoneInv ==
  /\ phase \in {"dropCache", "removeDir"} => ~apk
  /\ ~apk => local = Nothing /\ \A p \in Process : app[p] = Off

\* How far Install has come: what it pushed is the build's, and what it took
\* from the cache is on the device until it pushes another.
PushInv ==
  /\ \A f \in config.files : dev[f].mtime = Now <=> dev[f].data = Partial
  /\ phase = "push" => \A f \in config.files \ todo : dev[f].data = host[f]
  /\ phase = "finalize" \/ whole => \A f \in config.files : dev[f].data = host[f]
  /\ whole => phase = "idle"
  /\ cache # None => /\ phase \notin {"push", "removeDir"}
                     /\ phase = "setup" => "restore" \in todo
                     /\ cache # Empty => \A f \in config.files : dev[f].data = cache[f]
  /\ known # None =>
       /\ phase \in DOMAIN After
       /\ phase = "finalize" => "save" \in todo
       /\ phase = "setup" => \A f \in config.files : dev[f].data = known[f]
       /\ phase = "push" => \A f \in config.files \cap todo :
            dev[f].data = known[f] \/ (dev[f].data = Partial /\ known[f] # host[f])

\* The locks: install.lock is taken first, both are held while files are
\* pushed, and then nobody gets past them, who had not before; so who is past
\* them finds no file half pushed.
LocksInv ==
  /\ phase = "setup" /\ "install.lock" \notin todo => installLock = "locked"
  /\ phase = "setup" /\ "firstrun.lock" \notin todo => "install.lock" \notin todo
  /\ LocksHeld => installLock = "locked" /\ (overlap \/ firstrunLock = "locked")
  /\ \A p \in Process : app[p].paused =>
       installLock = "locked" /\ (overlap \/ firstrunLock = "locked")
  /\ Pushing \/ (installLock = "locked" /\ firstrunLock = "locked") =>
       overlap \/ \A p \in Process : ~Starting(p)
  /\ installLock = "clear" \/ (firstrunLock = "clear" /\ ~overlap) =>
       \A f \in config.files : dev[f].data # Partial
  /\ (\E p \in Process : Starting(p)) =>
       overlap \/ \A f \in config.files : dev[f].data # Partial

\* Times are of this push or an earlier one, and no file has that of a push
\* that is yet to come.
TimesInv ==
  /\ \A f \in config.files :
       /\ dev[f].mtime \in 0..round \cup {Now}
       /\ local[f].mtime \in 0..round \cup {Now}
       /\ phase = "setup" \/ (phase = "push" /\ f \in todo) =>
            dev[f].mtime # round /\ (overlap \/ local[f].mtime # round)
  /\ \A p \in Process : app[p].srcTime \in 0..round \cup {Now}

\* A process that began on a finished install has it still.
CleanInv ==
  \A p \in Process : app[p].clean =>
    ~Pushing /\ \A f \in config.files : dev[f].data = host[f]

InstallInv == GoneInv /\ PushInv /\ LocksInv /\ TimesInv /\ CleanInv

(* The copies, unless a process was starting during a push, or two copy.   *)

TrueCopy(f) == Unchanged(f) /\ local[f].data = dev[f].data
Copied(dir) == \A f \in FilesOf(dir) : dev[f].data # Absent => TrueCopy(f)

\* Where p is shows that dir has been copied: p has an inode that the lock
\* file no longer leads to, or has copied or awaited the copy, or is past it and
\* was not misled.
PastLib(p) == app[p].pc \in {"dex", "load", "clear"} \/ app[p].dir = "dex"
ShowsCopied(p, dir) ==
  \/ /\ app[p].dir = dir
     /\ \/ app[p].fd \notin {0, lockName[dir]}
        \/ app[p].pc = "delete"
        \/ /\ app[p].pc = "await" /\ p \notin config.isolated /\ lockName[dir] = 0
           /\ ~app[p].misled /\ dir \notin mishap
  \/ /\ dir = "lib" /\ ~app[p].misled
     /\ \/ PastLib(p)
        \/ Starting(p) /\ p \in config.isolated
        \/ app[p].pc = "run" /\ app[p].clean
  \/ /\ dir = "dex" /\ ~app[p].misled
     /\ config.oreo /\ app[p].pc \in {"load", "clear"}

\* What the process has to copy, has copied so far, and is copying.
CopyingInv(p) ==
  /\ app[p].pc \in Copying =>
       /\ \A f \in app[p].left : dev[f].data # Absent
       /\ \A f \in FilesOf(app[p].dir) \ app[p].left : dev[f].data # Absent => TrueCopy(f)
  /\ app[p].pc \in Writing =>
       /\ app[p].srcTime = dev[app[p].cur].mtime
       /\ ~Unchanged(app[p].cur)
       /\ app[p].pc # "truncate" => local[app[p].cur].mtime = Now
       /\ app[p].pc = "stamp" => local[app[p].cur].data = dev[app[p].cur].data

CopyInv ==
  ~overlap /\ "crossed" \notin mishap =>
    /\ \A p \in Process : CopyingInv(p)
    /\ \A p \in Process, dir \in Dir : ShowsCopied(p, dir) => Copied(dir)
    /\ apk /\ firstrunLock = "clear" /\ "firstrun" \notin mishap /\ config.isolated # {} => Copied("lib")

IInv == TypeOK /\ Shape /\ InstallInv /\ CopyInv /\ CopiesTrue
=============================================================================
