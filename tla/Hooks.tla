------------------------------ MODULE Hooks ------------------------------
(***************************************************************************)
(* A checkout and its build directories, between the hooks: sync checks    *)
(* out a revision, the hooks run in their order and a failed one ends      *)
(* them, and when all have succeeded the developer builds.  Anything may   *)
(* be killed, and the developer may go back to an earlier revision.        *)
(***************************************************************************)
EXTENDS Landmines, Sysroot

vars == <<revision, mineVars, rootVars>>

HooksInit ==
  /\ revision \in Revision
  /\ LandminesInit
  /\ SysrootInit

Idle == minePc = "idle" /\ rootPc = "idle"
InDir == {"rmtree", "mkdir", "args", "ninja", "deps"}
Ready == Idle /\ mineResult = "ok" /\ rootResult = "ok"

DirTypes ==
  /\ exists \in [Dir -> BOOLEAN]
  /\ args \in [Dir -> FileOf(Args)] /\ wanted \in [Dir -> Args \cup {Missing}]
  /\ ninja \in [Dir -> FileOf(Ninja)]
  /\ deps \in [Dir -> BOOLEAN]
  /\ objs \in [Dir -> SUBSET Mines]

MineTypes ==
  /\ record \in FileOf(Mines)
  /\ loose \subseteq Mines
  /\ minePc \in {"idle", "clobber", "record"} \cup InDir
  /\ mineResult \in Outcome \cup {Missing}
  /\ clobbered \subseteq Dir \cup {Loose}
  /\ dir \in Dir \cup {Missing}
  /\ saved \in [args : FileOf(Args), ninja : Ninja] \cup {Missing}
  /\ cut \subseteq Dir

RootTypes ==
  /\ stamp \in FileOf(Urls)
  /\ image \subseteq Urls \X Part
  /\ tarball \in FileOf({"good", "other"})
  /\ tries \in 0 .. MaxTries - 1
  /\ rootPc \in {"idle", "rmtree", "download", "verify", "extract", "stamp"}
  /\ rootResult \in Outcome \cup {Missing}
  /\ torn \in BOOLEAN

TypeOK == revision \in Revision /\ DirTypes /\ MineTypes /\ RootTypes
-----------------------------------------------------------------------------
\* External: gclient sync checks out another revision.
Sync ==
  /\ Idle
  /\ revision' \in Revision \ {revision}
  /\ mineResult' = Missing /\ rootResult' = Missing
  /\ UNCHANGED <<onDisk, minePc, clobbered, dir, saved, wanted, cut,
                 sysrootFiles, tries, rootPc, torn>>

\* External: the hooks start over.
RunHooks ==
  /\ Idle
  /\ rootResult' = Missing
  /\ StartLandmines
  /\ UNCHANGED <<revision, sysrootFiles, tries, rootPc, torn>>

\* External: the next hook, if the first has succeeded.
NextHook ==
  /\ Idle /\ mineResult = "ok" /\ rootResult = Missing
  /\ StartSysroot
  /\ UNCHANGED <<revision, mineVars>>

\* External: `gn args`, with which a directory is also sound again.
GnGen(d, a) ==
  /\ Ready
  /\ exists' = [exists EXCEPT ![d] = TRUE]
  /\ args' = [args EXCEPT ![d] = a]
  /\ wanted' = [wanted EXCEPT ![d] = a]
  /\ ninja' = [ninja EXCEPT ![d] = "gn"]
  /\ deps' = [deps EXCEPT ![d] = TRUE]
  /\ cut' = cut \ {d}
  /\ UNCHANGED <<revision, record, loose, objs, minePc, mineResult, clobbered, dir,
                 saved, rootVars>>

\* External: Ninja, which first runs GN in a directory that was clobbered, and
\* writes some files next to the directory.
Build(d) ==
  /\ Ready
  /\ ninja[d] \in Ninja /\ args[d] # Empty
  /\ ninja' = [ninja EXCEPT ![d] = "gn"]
  /\ deps' = [deps EXCEPT ![d] = TRUE]
  /\ objs' = [objs EXCEPT ![d] = @ \cup {landmines}]
  /\ loose' = loose \cup {landmines}
  /\ UNCHANGED <<revision, record, exists, args, minePc, mineResult, clobbered, dir,
                 saved, wanted, cut, rootVars>>

LandminesRun == (LandminesStep \/ MineDies) /\ UNCHANGED <<revision, rootVars>>
SysrootRun == (SysrootStep \/ RootDies) /\ UNCHANGED <<revision, mineVars>>

Next ==
  \/ Sync \/ RunHooks \/ NextHook
  \/ \E d \in Dir : Build(d) \/ \E a \in Args : GnGen(d, a)
  \/ LandminesRun \/ SysrootRun

Spec == HooksInit /\ [][Next]_vars
-----------------------------------------------------------------------------
(* After the hooks everything that is left was built under the landmines   *)
(* of this revision, however the hooks of other revisions ended: what      *)
(* landmines.py is for.                                                    *)
NoStaleOutputs ==
  Ready => /\ loose \subseteq {landmines}
           /\ \A d \in Dir : objs[d] \subseteq {landmines}

(* A directory that clobber has emptied, and in which it was not cut off,  *)
(* still has the args.gn of its user, and what Ninja needs to run GN.      *)
ArgsKept ==
  Idle => \A d \in Dir \ cut : /\ args[d] = wanted[d]
                               /\ wanted[d] # Missing => deps[d] /\ ninja[d] \in Ninja

(* extract_gn_build_commands raises on a build.ninja that is not there,    *)
(* but only after an earlier clobber was cut off in that very directory.   *)
RaisesOnlyAfterCut ==
  mineResult = "raised" => \E d \in cut : deps[d] /\ ninja[d] = Missing

(* "On error, returns the empty string", says its docstring, and clobber   *)
(* writes a default thing then: the hook never raises for want of one.     *)
NeverRaises == mineResult # "raised"

(* A stamp vouches for the whole image, of the revision that is checked    *)
(* out, unless an rmtree was cut off that had left the stamp for last.     *)
SysrootComplete ==
  Ready => /\ stamp = url
           /\ image \subseteq ImageOf(url)
           /\ torn \/ image = ImageOf(url)
-----------------------------------------------------------------------------
(* The inductive invariant.                                                *)

\* Where the two scripts can be.
Phases ==
  /\ minePc = "idle" \/ rootPc = "idle"
  /\ (dir # Missing) = (minePc \in InDir)
  /\ saved # Missing => minePc \in InDir
  /\ minePc \in InDir \ {"rmtree"} => saved # Missing
  /\ minePc \in {"idle", "record"} => clobbered = {}
  /\ mineResult # Missing => minePc = "idle"
  /\ mineResult = "ok" => record = landmines
  /\ rootResult # Missing => rootPc = "idle"

\* Nothing is in a directory that is not there.
NoDirNoFile ==
  /\ \A d \in Dir : exists[d] \/ IsEmptyDir(d)
  /\ minePc \in {"args", "ninja", "deps"} => exists[dir]

\* The record, complete or not there, knows what was built.
RecordKnows ==
  /\ record = Missing => loose = {} /\ \A d \in Dir : objs[d] = {}
  /\ record \in Mines => loose \subseteq {record} /\ \A d \in Dir : objs[d] \subseteq {record}

\* What the clobber has passed is clean, and what it leaves is of today.
ClobberPassed ==
  /\ minePc \in {"clobber"} \cup InDir =>
       /\ Loose \notin clobbered => loose = {}
       /\ \A d \in Dir : d \notin clobbered /\ d # dir => objs[d] = {}
       /\ minePc # "rmtree" => \A d \in Dir : d \notin clobbered => objs[d] = {}
  /\ minePc = "record" => loose \subseteq {landmines} /\ \A d \in Dir : objs[d] \subseteq {landmines}

\* A directory that was never cut off is whole, and the one being deleted can
\* be put together from what was saved.
Whole(d) == /\ args[d] = wanted[d]
            /\ wanted[d] # Missing => deps[d] /\ ninja[d] \in Ninja
            /\ wanted[d] = Missing => ~deps[d] /\ ninja[d] = Missing

Restorable(d) ==
  /\ saved = Missing => wanted[d] = Missing /\ args[d] = Missing /\ ~deps[d]
  /\ saved # Missing => /\ wanted[d] \in Args /\ saved.args = wanted[d]
  /\ minePc = "mkdir" => args[d] = Missing /\ ninja[d] = Missing
  /\ minePc = "args" => args[d] \in {Missing, Empty} /\ ninja[d] = Missing
  /\ minePc \in {"ninja", "deps"} => args[d] = wanted[d]
  /\ minePc = "ninja" => ninja[d] \in {Missing, Empty}
  /\ minePc = "deps" => ninja[d] \in Ninja

UserArgs == \A d \in Dir \ cut : IF d = dir THEN Restorable(d) ELSE Whole(d)

\* A stamp is put on a whole image, which only an rmtree takes apart.
StampTrue ==
  /\ stamp \in Urls => /\ image \subseteq ImageOf(stamp)
                       /\ torn \/ rootPc = "rmtree" \/ image = ImageOf(stamp)
  /\ rootPc \in {"download", "verify", "extract"} => stamp = Missing /\ image \subseteq ImageOf(url)
  /\ rootPc = "extract" => tarball = "good"
  /\ rootPc = "stamp" => stamp \in {Missing, Empty} /\ image = ImageOf(url)
  /\ rootResult = "ok" => stamp = url

IInv ==
  /\ TypeOK /\ Phases /\ NoDirNoFile
  /\ RecordKnows /\ ClobberPassed
  /\ UserArgs /\ RaisesOnlyAfterCut
  /\ StampTrue
=============================================================================
