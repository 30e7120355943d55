----------------------- MODULE InstrumentationFlags -----------------------
(***************************************************************************)
(* The flags of instrumentation tests (pylib/instrumentation/              *)
(* test_runner.py): a session of a TestRunner on one device disables the   *)
(* first run experience, except for the tests that are about it, and       *)
(* restores the flags in the end.  The tests come in any order, as often   *)
(* as the dispatcher retries them, and sessions follow one another.        *)
(***************************************************************************)
EXTENDS FlagChanger

CONSTANTS Lines,           \* what may be in the file before the first session
          DisableFre,      \* --disable-fre
          TestIntents,     \* --enable-test-intents
          AdditionalFlags, \* of the caller
          DeviceFlags,     \* the lines of the file of --device-flags
          MaxAbandoned     \* bound on abandoned

VARIABLES pc,         \* where the session is
          test,       \* the test that runs
          torn,       \* the session is torn down, and its runner's thread is alive
          before,     \* history: the file before the first session
          abandoned,  \* history: sessions that left the flags without a Restore,
                      \* or whose thread wrote them after it
          late,       \* history: this session is one of those, and not yet over
          unread,     \* history: a FlagChanger could not read a file that was there
          lifted      \* history: a test about the first run did not pass

tearVars == <<torn, late, abandoned>>
vars == <<flagVars, pc, test, tearVars, before, unread, lifted>>

Test == {"fre", "other"}
IsFreTest(t) == t = "fre"

Init ==
  /\ file \in Lines /\ before = file
  /\ orig = <<>> /\ current = <<>>
  /\ pc = "none" /\ test = Missing
  /\ torn = FALSE /\ late = FALSE /\ abandoned = 0
  /\ unread = FALSE /\ lifted = FALSE
-----------------------------------------------------------------------------
LeavesFlags ==
  IF late THEN UNCHANGED abandoned
          ELSE abandoned < MaxAbandoned /\ abandoned' = abandoned + 1

Over == pc' = "none" /\ test' = Missing /\ torn' = FALSE /\ late' = FALSE /\ lifted' = FALSE

Kept == UNCHANGED <<before, unread>>

\* A session that nobody tears down: SetUp raises, or the process is killed.
Abandoned == LeavesFlags /\ Over

\* TestRunner(...)
Construct ==
  /\ pc = "none"
  /\ orig' \in OrigLines
  /\ unread' = (unread \/ orig' # Strip(Line(file)))
  /\ current' = WithFlags(TokenizeFlags(orig'), AdditionalFlags)
  /\ \/ /\ IF AdditionalFlags = <<>> THEN UNCHANGED file ELSE Update
        /\ pc' = "made"
        /\ UNCHANGED <<test, tearVars, lifted>>
     \/ AdditionalFlags # <<>> /\ UpdateRaises /\ Abandoned
  /\ UNCHANGED before

\* SetUp, with the flags of every test and then those of the options.
SetUpAdds(from, flags, to) ==
  /\ pc = from
  /\ AddFlags(flags)
  /\ \/ Update /\ pc' = to /\ UNCHANGED <<test, tearVars, lifted>>
     \/ UpdateRaises /\ Abandoned
  /\ Kept

SetUp == \/ SetUpAdds("made", <<DisableFre, TestIntents>>, "flags")
         \/ SetUpAdds("flags", DeviceFlags, "ready")

\* What a thread that outlived the Restore does to the flags counts as left there.
Writes(t) ==
  /\ IF torn /\ IsFreTest(t) THEN LeavesFlags /\ late' = TRUE
                             ELSE UNCHANGED <<abandoned, late>>
  /\ UNCHANGED torn

\* TestSetup: for a test about the first run the flag goes.
TestSetup(t) ==
  /\ pc = "ready"
  /\ IF IsFreTest(t) THEN RemoveFlags(<<DisableFre>>) /\ Update ELSE UNCHANGED flagVars
  /\ pc' = "running" /\ test' = t
  /\ Writes(t)
  /\ UNCHANGED lifted /\ Kept

\* The update raises: a timeout and an unreachable device are a failed test,
\* anything else ends the runner.
TestSetupRaises ==
  /\ pc = "ready"
  /\ RemoveFlags(<<DisableFre>>) /\ UpdateRaises
  /\ pc' \in {"ready", "over"}
  /\ lifted' = TRUE
  /\ Writes("fre")
  /\ UNCHANGED test /\ Kept

\* TestTeardown of a test that did not pass.
TestFails ==
  /\ pc = "running"
  /\ pc' = "ready" /\ test' = Missing
  /\ lifted' = (lifted \/ IsFreTest(test))
  /\ UNCHANGED <<flagVars, tearVars>> /\ Kept

\* Mutant: the flag is not put back.
Forget(t) == UNCHANGED flagVars

PutBack(t) == IF IsFreTest(t) THEN AddFlags(<<DisableFre>>) /\ Update ELSE UNCHANGED flagVars

\* TestTeardown of a test that passed.
TestPasses ==
  /\ pc = "running"
  /\ PutBack(test)
  /\ pc' = "ready" /\ test' = Missing
  /\ lifted' = (lifted /\ ~IsFreTest(test))
  /\ Writes(test) /\ Kept

\* Something else raises in RunTest, the update of TestTeardown for instance.
RunnerEnds ==
  /\ pc = "running"
  /\ \/ UNCHANGED <<flagVars, tearVars>>
     \/ /\ IsFreTest(test) /\ AddFlags(<<DisableFre>>) /\ UpdateRaises
        /\ Writes(test)
  /\ pc' = "over" /\ test' = Missing
  /\ UNCHANGED lifted /\ Kept

\* The runner's thread has ended.
TearDown ==
  /\ pc \in {"ready", "over"} /\ ~torn
  /\ Restore
  /\ \/ Update /\ Over /\ UNCHANGED abandoned
     \/ UpdateRaises /\ Abandoned
  /\ Kept

\* An update that the runner's thread may be at.
Underway ==
  \/ pc = "running" /\ IsFreTest(test) /\ file' = CommandLine(WithFlags(current, <<DisableFre>>))
  \/ pc = "ready" /\ file' = CommandLine(WithoutFlags(current, <<DisableFre>>))

\* The join has timed out: RunTests tears down beside the thread, which goes on.
\* Restore may raise, or be overtaken by an update that began before it.
TearDownBeside ==
  /\ pc \in {"ready", "running"} /\ ~torn
  /\ Restore
  /\ torn' = TRUE
  /\ \/ Update /\ UNCHANGED <<abandoned, late>>
     \/ (UpdateRaises \/ Underway) /\ LeavesFlags /\ late' = TRUE
  /\ UNCHANGED <<pc, test, lifted>> /\ Kept

\* The thread, a daemon, ends with the process.
ProcessEnds ==
  /\ torn
  /\ Over
  /\ UNCHANGED <<flagVars, abandoned>> /\ Kept

Killed ==
  /\ pc # "none" /\ ~torn
  /\ Abandoned
  /\ UNCHANGED flagVars /\ Kept

Next ==
  \/ Construct \/ SetUp
  \/ (\E t \in Test : TestSetup(t)) \/ TestSetupRaises
  \/ TestFails \/ TestPasses \/ RunnerEnds
  \/ TearDown \/ TearDownBeside \/ ProcessEnds \/ Killed

Spec == Init /\ [][Next]_vars
-----------------------------------------------------------------------------
\* A line that is read the same way after flags were appended to it.
Escaped(line) == \E i \in 2 .. Len(line) : line[i] = Quote /\ line[i - 1] = Backslash
Closed(line) == Cardinality({i \in DOMAIN line : line[i] = Quote}) % 2 = 0
Plain == Closed(Line(before)) /\ ~Escaped(Line(before))

Twice(flag, flags) == Cardinality({i \in DOMAIN flags : flags[i] = flag}) > 1

(* "Restores the flags to their original state": after any number of       *)
(* sessions Chrome reads the flags it read before the first.  Left out is   *)
(* what the code does not keep: a session that left its flags, killed or    *)
(* overtaken by its own test after the tear-down; a file that was there and *)
(* could not be read, which Restore removes; an escaped quotation mark.     *)
FlagsRestored ==
  pc = "none" /\ abandoned = 0 /\ ~unread /\ ~Escaped(Line(before))
    => TokenizeFlags(Line(file)) = TokenizeFlags(Line(before))

(* Whatever was run before it, a test about the first run does not find    *)
(* --disable-fre, unless the line has it twice, and any other test finds   *)
(* all flags of the session, unless a test about the first run failed.     *)
(* A test beside which the session was torn down is left out.              *)
RightFlags ==
  pc = "running" /\ ~torn /\ Plain =>
    IF IsFreTest(test)
      THEN DisableFre \notin FlagsSeen \/ Twice(DisableFre, TokenizeFlags(orig))
      ELSE {DisableFre, TestIntents} \cup ToSet(AdditionalFlags \o DeviceFlags) \subseteq FlagsSeen
           \/ lifted
=============================================================================
