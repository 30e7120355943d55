---------------------------- MODULE Landmines ----------------------------
(***************************************************************************)
(* src/landmines.py and src/clobber.py, the first hook of every build: if  *)
(* the landmines differ from the recorded ones, the build directories are  *)
(* deleted, except for what GN needs to set them up again, and then the    *)
(* landmines are recorded.  The hook may be killed, or one of its system   *)
(* calls fail, between any two steps.                                      *)
(*                                                                         *)
(* A file built is remembered by the landmines it was built under.         *)
(***************************************************************************)
EXTENDS Checkout

CONSTANTS Dir,         \* the build directories under out_dir
          Args,        \* contents of an args.gn
          LandminesOf  \* what the landmine scripts print at each revision

VARIABLES record,  \* .landmines
          loose,   \* the files directly in out_dir
          exists,  \* which build directories exist, and in each of them:
          args,    \*   args.gn
          ninja,   \*   build.ninja
          deps,    \*   is there a build.ninja.d
          objs,    \*   everything that was built
          minePc, mineResult,
          clobbered, \* entries of out_dir that clobber has still to delete
          dir,     \* the one it is at
          saved,   \* what delete_build_dir read and will write back
          wanted,  \* history: the args.gn its user wrote
          cut      \* history: directories whose deletion was cut off

onDisk == <<record, loose, exists, args, ninja, deps, objs>>
mineVars == <<onDisk, minePc, mineResult, clobbered, dir, saved, wanted, cut>>

landmines == LandminesOf[revision]
Mines == {LandminesOf[r] : r \in Revision}

\* build.ninja as GN writes it, its first two sections, or the default thing.
Ninja == {"gn", "commands", "default"}

Loose == "loose"

ASSUME LandminesAssumption ==
  /\ {Missing, Empty} \cap (Mines \cup Args \cup Ninja) = {}
  /\ {Missing, Loose} \cap Dir = {}
  /\ Missing \notin [args : FileOf(Args), ninja : Ninja]

Entries == {d \in Dir : exists[d]} \cup (IF loose = {} THEN {} ELSE {Loose})

LandminesInit ==
  /\ record = Missing
  /\ loose = {}
  /\ exists = [d \in Dir |-> FALSE]
  /\ args = [d \in Dir |-> Missing]
  /\ ninja = [d \in Dir |-> Missing]
  /\ deps = [d \in Dir |-> FALSE]
  /\ objs = [d \in Dir |-> {}]
  /\ minePc = "idle" /\ mineResult = Missing
  /\ clobbered = {} /\ dir = Missing /\ saved = Missing
  /\ wanted = [d \in Dir |-> Missing]
  /\ cut = {}
-----------------------------------------------------------------------------
\* The script is over.
MineEnds(how) ==
  /\ minePc' = "idle"
  /\ mineResult' = how
  /\ clobbered' = {} /\ dir' = Missing /\ saved' = Missing

\* Mutant: the old landmines are only looked for among the new ones, as when the
\* record was just truncated.
TrippedByAnother == record \in Mines /\ record # landmines

\* A record that was only opened differs, one that is not there does not.
Tripped == record # Missing /\ record # landmines

\* clobber_if_necessary
StartLandmines ==
  /\ minePc = "idle"
  /\ IF Tripped
       THEN minePc' = "clobber" /\ clobbered' = Entries
       ELSE minePc' = "record" /\ clobbered' = {}
  /\ mineResult' = Missing
  /\ UNCHANGED <<onDisk, dir, saved, wanted, cut>>

\* clobber: a file is unlinked.
UnlinkFile ==
  /\ minePc = "clobber"
  /\ Loose \in clobbered
  /\ loose' = {}
  /\ clobbered' = clobbered \ {Loose}
  /\ UNCHANGED <<record, exists, args, ninja, deps, objs, minePc, mineResult,
                 dir, saved, wanted, cut>>

\* extract_gn_build_commands: the default thing has no second blank line.
BuildCommands(text) == IF text \in {"gn", "commands"} THEN "commands" ELSE "default"

\* delete_build_dir, as far as it only reads.  Without a build.ninja.d nothing
\* is kept; a build.ninja that is not there raises.
ReadDir ==
  /\ minePc = "clobber"
  /\ \E d \in clobbered \cap Dir :
       IF deps[d] /\ ninja[d] = Missing
         THEN MineEnds("raised")
         ELSE /\ saved' = IF deps[d]
                            THEN [args |-> args[d], ninja |-> BuildCommands(ninja[d])]
                            ELSE Missing
              /\ dir' = d
              /\ clobbered' = clobbered \ {d}
              /\ minePc' = "rmtree"
              /\ UNCHANGED mineResult
  /\ UNCHANGED <<onDisk, wanted, cut>>

\* shutil.rmtree, one file at a time in any order.
RemoveFile ==
  /\ minePc = "rmtree"
  /\ \/ /\ args[dir] # Missing
        /\ args' = [args EXCEPT ![dir] = Missing]
        /\ UNCHANGED <<ninja, deps, objs>>
     \/ /\ ninja[dir] # Missing
        /\ ninja' = [ninja EXCEPT ![dir] = Missing]
        /\ UNCHANGED <<args, deps, objs>>
     \/ /\ deps[dir]
        /\ deps' = [deps EXCEPT ![dir] = FALSE]
        /\ UNCHANGED <<args, ninja, objs>>
     \/ /\ \E l \in objs[dir] : objs' = [objs EXCEPT ![dir] = @ \ {l}]
        /\ UNCHANGED <<args, ninja, deps>>
  /\ UNCHANGED <<record, loose, exists, minePc, mineResult, clobbered, dir,
                 saved, wanted, cut>>

IsEmptyDir(d) == args[d] = Missing /\ ninja[d] = Missing /\ ~deps[d] /\ objs[d] = {}

RemoveDir ==
  /\ minePc = "rmtree"
  /\ IsEmptyDir(dir)
  /\ exists' = [exists EXCEPT ![dir] = FALSE]
  /\ IF saved = Missing
       THEN minePc' = "clobber" /\ dir' = Missing
       ELSE minePc' = "mkdir" /\ UNCHANGED dir
  /\ UNCHANGED <<record, loose, args, ninja, deps, objs, mineResult, clobbered,
                 saved, wanted, cut>>

\* Mutant: the args file is forgotten.
NoArgs == FALSE

\* An args.gn that could not be read, or was empty, is not written.
HasArgs == saved.args \in Args

\* os.mkdir
MakeDir ==
  /\ minePc = "mkdir"
  /\ exists' = [exists EXCEPT ![dir] = TRUE]
  /\ minePc' = IF HasArgs THEN "args" ELSE "ninja"
  /\ UNCHANGED <<record, loose, args, ninja, deps, objs, mineResult, clobbered,
                 dir, saved, wanted, cut>>

WriteArgs ==
  /\ minePc = "args"
  /\ args' = [args EXCEPT ![dir] = Written(@, saved.args)]
  /\ minePc' = IF args[dir] = Empty THEN "ninja" ELSE "args"
  /\ UNCHANGED <<record, loose, exists, ninja, deps, objs, mineResult, clobbered,
                 dir, saved, wanted, cut>>

WriteNinja ==
  /\ minePc = "ninja"
  /\ ninja' = [ninja EXCEPT ![dir] = Written(@, saved.ninja)]
  /\ minePc' = IF ninja[dir] = Empty THEN "deps" ELSE "ninja"
  /\ UNCHANGED <<record, loose, exists, args, deps, objs, mineResult, clobbered,
                 dir, saved, wanted, cut>>

\* The build.ninja.d that makes Ninja run GN first.  Nobody reads its text.
WriteDeps ==
  /\ minePc = "deps"
  /\ deps' = [deps EXCEPT ![dir] = TRUE]
  /\ minePc' = "clobber"
  /\ dir' = Missing
  /\ saved' = Missing
  /\ UNCHANGED <<record, loose, exists, args, ninja, objs, mineResult, clobbered,
                 wanted, cut>>

Clobbered ==
  /\ minePc = "clobber"
  /\ clobbered = {}
  /\ minePc' = "record"
  /\ UNCHANGED <<onDisk, mineResult, clobbered, dir, saved, wanted, cut>>

\* "Save current set of landmines for next time."
WriteRecord ==
  /\ minePc = "record"
  /\ record' = Written(record, landmines)
  /\ IF record = Empty THEN MineEnds("ok")
                       ELSE UNCHANGED <<minePc, mineResult, clobbered, dir, saved>>
  /\ UNCHANGED <<loose, exists, args, ninja, deps, objs, wanted, cut>>

\* Killed, or a system call raises.
MineDies ==
  /\ minePc # "idle"
  /\ MineEnds("died")
  /\ cut' = IF dir = Missing THEN cut ELSE cut \cup {dir}
  /\ UNCHANGED <<onDisk, wanted>>

LandminesStep ==
  \/ UnlinkFile \/ ReadDir \/ RemoveFile \/ RemoveDir \/ MakeDir
  \/ WriteArgs \/ WriteNinja \/ WriteDeps \/ Clobbered \/ WriteRecord
=============================================================================
