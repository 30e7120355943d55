------------------------------ MODULE Md5Check ------------------------------
(***************************************************************************)
(* src/android/gyp/util/md5_check.py: CallAndRecordIfStale hashes the      *)
(* inputs, compares the hash with the one in the record file, calls        *)
(* function when they differ (or outputs or the record are missing) and    *)
(* then writes the record.  Function is external: it reads the inputs and  *)
(* writes the outputs one by one, and may raise.  The process may be       *)
(* killed at any point, and somebody edits inputs and deletes outputs.     *)
(*                                                                         *)
(* The tag of a file is its content: md5 is taken to be injective, and     *)
(* tags have one length.  Input strings have any length and are hashed     *)
(* concatenated, so a string is a sequence of characters here.  The paths  *)
(* of the inputs are not hashed, but they decide the order of the tags.    *)
(***************************************************************************)
EXTENDS Naturals, SequencesExt

CONSTANTS Path,      \* what input_paths may hold, as numbers in their order
          Content,   \* contents of an input file
          Strings,   \* the values of input_strings: sequences of strings
          Output,    \* output_paths
          Missing,   \* no such file
          Partial    \* a file that was not written completely

VARIABLES files,     \* input_paths, and the content of each
          strings,   \* the input_strings the build passes
          output,    \* each output: Missing, Partial or the inputs it reflects
          record,    \* the record: Missing, Partial, or metadata
          pc, force,
          new,       \* new_metadata
          todo,      \* what the current step has left: paths or outputs
          seen,      \* what function read
          result,    \* how the last call ended
          edited,    \* history: something was edited since the call began
          calm,      \* history: nothing was, since the call before succeeded
          broken     \* history: function was run, and no run of it has since
                     \* been recorded that read the inputs that were hashed

vars == <<files, strings, output, record, pc, force, new, todo, seen, result,
          edited, calm, broken>>
world == <<files, strings>>
history == <<edited, calm, broken>>

Inputs == [files |-> files, strings |-> strings]

\* _ComputeInlineMd5 of the strings, and the tags in the order of the paths.
StringsMd5(s) == FlattenSeq(s)
FilesMd5(tags) ==
  LET paths == SetToSortSeq(DOMAIN tags, <) IN [i \in DOMAIN paths |-> tags[paths[i]]]

\* The inputs there can be, and the metadata of inputs: files are compared by
\* FilesMd5 and recorded with their paths.
Files == UNION {[P -> Content] : P \in SUBSET Path}
Inputs0 == [strings : Strings, files : Files]
Hash(inputs) == [strings |-> StringsMd5(inputs.strings), files |-> inputs.files]
Hashes == {Hash(inputs) : inputs \in Inputs0}
Md5(meta) == <<meta.strings, FilesMd5(meta.files)>>

ASSUME Md5Assumption ==
  /\ Path \subseteq Nat /\ Output # {} /\ Missing # Partial
  /\ Strings \subseteq Seq(Seq(Nat))
  /\ {Missing, Partial} \cap (Inputs0 \cup Hashes) = {}
  /\ Missing \notin {"ran", "skipped"}

Init ==
  /\ files \in Files
  /\ strings \in Strings
  /\ output = [o \in Output |-> Missing]
  /\ record = Missing
  /\ pc = "idle"
  /\ force = FALSE
  /\ new = Missing
  /\ todo = {}
  /\ seen = Missing
  /\ result = Missing
  /\ edited = FALSE
  /\ calm = FALSE
  /\ broken = FALSE
-----------------------------------------------------------------------------
\* The call is over; its local variables are gone.
Ends(how) ==
  /\ pc' = "idle"
  /\ result' = how
  /\ force' = FALSE
  /\ new' = Missing
  /\ todo' = {}
  /\ seen' = Missing

Call ==
  /\ pc = "idle"
  /\ pc' = "hash"
  /\ force' \in BOOLEAN
  /\ new' = [strings |-> StringsMd5(strings), files |-> [p \in {} |-> Missing]]
  /\ todo' = DOMAIN files
  /\ result' = Missing
  /\ edited' = FALSE
  /\ calm' = (result \in {"ran", "skipped"} /\ ~edited)
  /\ UNCHANGED <<world, output, record, seen, broken>>

\* _Md5ForPath, which md5 makes as good as the content.
Tag(p) == files[p]

HashFile ==
  /\ pc = "hash"
  /\ \E p \in todo :
       /\ new' = [new EXCEPT !.files =
                    [q \in DOMAIN @ \cup {p} |-> IF q = p THEN Tag(p) ELSE @[q]]]
       /\ todo' = todo \ {p}
  /\ UNCHANGED <<world, output, record, pc, force, seen, result, history>>

\* Mutant: only the strings are compared.
StringsOnly(old) == force \/ old = Missing \/ old.strings # new.strings

\* Changes.HasChanges
HasChanges(old) == force \/ old = Missing \/ Md5(old) # Md5(new)

\* The record is read only when no output is missing, which all are under
\* force; one that does not parse counts as none.
OldMetadata ==
  IF force \/ (\E o \in Output : output[o] = Missing) \/ record = Partial
    THEN Missing ELSE record

\* Mutant: nothing counts as removed.
NeverRemoved(old) == {}

\* The queries of Changes about paths, of an old record.
RemovedPaths(old) == DOMAIN old.files \ DOMAIN new.files
AddedPaths(old) == DOMAIN new.files \ DOMAIN old.files
ModifiedPaths(old) ==
  {p \in DOMAIN old.files \cap DOMAIN new.files : old.files[p] # new.files[p]}

AddedOrModifiedOnly(old) ==
  ~force /\ old # Missing /\ old.strings = new.strings /\ RemovedPaths(old) = {}

Compare ==
  /\ pc = "hash"
  /\ todo = {}
  /\ IF HasChanges(OldMetadata)
       THEN pc' = "function" /\ UNCHANGED <<force, new, todo, seen, result>>
       ELSE Ends("skipped")
  /\ UNCHANGED <<world, output, record, history>>
-----------------------------------------------------------------------------
(* function, which is external.                                            *)

FunctionReads ==
  /\ pc = "function"
  /\ pc' = "write"
  /\ seen' = Inputs
  /\ todo' = Output
  /\ broken' = TRUE
  /\ UNCHANGED <<world, output, record, force, new, result, edited, calm>>

FunctionWrites ==
  /\ pc = "write"
  /\ \E o \in todo :
       \/ /\ output[o] # Partial
          /\ output' = [output EXCEPT ![o] = Partial]
          /\ UNCHANGED todo
       \/ /\ output[o] = Partial
          /\ output' = [output EXCEPT ![o] = seen]
          /\ todo' = todo \ {o}
  /\ UNCHANGED <<world, record, pc, force, new, seen, result, history>>

FunctionReturns ==
  /\ pc = "write"
  /\ todo = {}
  /\ pc' = "record"
  /\ UNCHANGED <<world, output, record, force, new, todo, seen, result, history>>
-----------------------------------------------------------------------------
\* open(record_path, 'w')
OpenRecord ==
  /\ pc = "record"
  /\ pc' = "dump"
  /\ record' = Partial
  /\ UNCHANGED <<world, output, force, new, todo, seen, result, history>>

\* Mutants: the record is of the inputs as they are when function returned,
\* or leaves the files out.
Current(meta) == Hash(Inputs)
WithoutFiles(meta) == [meta EXCEPT !.files = [p \in {} |-> Missing]]

Dumped(meta) == meta

\* ToFile
WriteRecord ==
  /\ pc = "dump"
  /\ record' = Dumped(new)
  /\ Ends("ran")
  /\ broken' = (Hash(seen) # new)
  /\ UNCHANGED <<world, output, edited, calm>>

\* Function raises, or the process is killed.
Dies ==
  /\ pc # "idle"
  /\ Ends("died")
  /\ UNCHANGED <<world, output, record, history>>

(* The world around.                                                       *)

Edited ==
  /\ edited' = TRUE
  /\ calm' = FALSE
  /\ UNCHANGED <<record, pc, force, new, todo, seen, result, broken>>

EditFile ==
  /\ \E p \in DOMAIN files : \E v \in Content \ {files[p]} : files' = [files EXCEPT ![p] = v]
  /\ Edited
  /\ UNCHANGED <<strings, output>>

\* The build passes one path more or less; a call under way keeps its own.
EditPaths ==
  /\ pc = "idle"
  /\ \/ \E p \in DOMAIN files : files' = [q \in DOMAIN files \ {p} |-> files[q]]
     \/ \E p \in Path \ DOMAIN files : \E v \in Content :
          files' = [q \in DOMAIN files \cup {p} |-> IF q = p THEN v ELSE files[q]]
  /\ Edited
  /\ UNCHANGED <<strings, output>>

\* The build passes other input_strings; a call under way keeps its own.
EditStrings ==
  /\ pc = "idle"
  /\ strings' \in Strings \ {strings}
  /\ Edited
  /\ UNCHANGED <<files, output>>

DeleteOutput ==
  /\ pc = "idle"
  /\ \E o \in Output : output' = [output EXCEPT ![o] = Missing]
  /\ Edited
  /\ UNCHANGED world

Step ==
  \/ Call \/ HashFile \/ Compare
  \/ FunctionReads \/ FunctionWrites \/ FunctionReturns
  \/ OpenRecord \/ WriteRecord

Next == Step \/ Dies \/ EditFile \/ EditPaths \/ EditStrings \/ DeleteOutput

Spec == Init /\ [][Next]_vars
-----------------------------------------------------------------------------
Comparing == {"function", "write", "record", "dump"}
Writing == Comparing \ {"function"}

TypeOK ==
  /\ Inputs \in Inputs0
  /\ output \in [Output -> {Missing, Partial} \cup Inputs0]
  /\ record \in {Missing, Partial} \cup Hashes
  /\ pc \in {"idle", "hash"} \cup Comparing
  /\ pc \in Comparing => new \in Hashes
  /\ pc \in Writing => seen \in Inputs0
  /\ force \in BOOLEAN
  /\ result \in {Missing, "ran", "skipped", "died"}
  /\ <<edited, calm, broken>> \in BOOLEAN \X BOOLEAN \X BOOLEAN

\* The record tells the truth: the outputs that exist were made from inputs
\* with the hashes it holds.  A killed process, a function that raises and
\* edits at any point may only take the record away, or leave it as it was
\* when a run of function is cut off before its record is written.
RecordTrue ==
  pc = "idle" /\ ~broken /\ record \notin {Missing, Partial} =>
    \A o \in Output : output[o] # Missing =>
      output[o] # Partial /\ Hash(output[o]) = record

\* After a call that returned, the outputs are those of the present inputs,
\* as far as their hashes tell them apart, whether function was called or not.
FreshOutputs ==
  pc = "idle" /\ result \in {"ran", "skipped"} /\ ~edited /\ ~broken =>
    \A o \in Output :
      output[o] \notin {Missing, Partial} /\ Md5(Hash(output[o])) = Md5(Hash(Inputs))

\* A call that follows a successful one, with nothing edited in between, does
\* not call function again.
NothingTwice == pc = "function" /\ calm => force

\* "Returns whether the only changes were from added or modified (sub)files":
\* when Changes tells function so, every output was made from inputs that are
\* all still there and differ from the present ones only in the paths that
\* Changes lists, so that function may rebuild those alone.
ChangesTrue ==
  pc = "function" /\ ~edited /\ ~broken /\ AddedOrModifiedOnly(OldMetadata) =>
    \A o \in Output :
      LET made == output[o]
          listed == AddedPaths(OldMetadata) \cup ModifiedPaths(OldMetadata) IN
      /\ StringsMd5(made.strings) = StringsMd5(strings)
      /\ DOMAIN made.files \subseteq DOMAIN files
      /\ \A p \in DOMAIN files \ listed :
           p \in DOMAIN made.files /\ made.files[p] = files[p]

(* What makes them inductive.                                              *)

\* What the record says, at any time.
RecordHolds == ~broken /\ record \notin {Missing, Partial} =>
  \A o \in Output : output[o] # Missing =>
    output[o] # Partial /\ Hash(output[o]) = record

\* Where the loop over the paths is, and what it has collected.
Collected ==
  pc = "hash" =>
    /\ todo \subseteq DOMAIN files
    /\ new \in [strings : {StringsMd5(s) : s \in Strings}, files : [DOMAIN files \ todo -> Content]]

\* Unless something was edited, what was hashed is still there.
Agrees ==
  ~edited =>
    /\ pc = "hash" => /\ new.strings = StringsMd5(strings)
                      /\ \A p \in DOMAIN files \ todo : new.files[p] = files[p]
    /\ pc \in Comparing => new = Hash(Inputs)

\* What function has written is what it read, and no record was made of it.
Rebuilt ==
  pc \in Writing =>
    /\ broken
    /\ \A o \in Output : output[o] = seen \/ (pc = "write" /\ o \in todo)

\* A call that succeeded leaves a record of its inputs, which keeps the next
\* one from calling function.
Recorded ==
  /\ record \notin {Missing, Partial} /\ Md5(record) = Md5(Hash(Inputs))
  /\ \A o \in Output : output[o] # Missing
Settled ==
  /\ pc = "idle" /\ result \in {"ran", "skipped"} /\ ~edited => Recorded
  /\ pc = "hash" /\ calm => Recorded /\ ~edited

IInv ==
  /\ TypeOK /\ RecordHolds /\ Collected /\ Agrees /\ Rebuilt
  /\ Settled /\ FreshOutputs /\ NothingTwice
=============================================================================
