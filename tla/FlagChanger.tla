---------------------------- MODULE FlagChanger ----------------------------
(***************************************************************************)
(* pylib/flag_changer.py: the flags Chrome is started with, in a file of   *)
(* the device, which a FlagChanger reads when it is made, rewrites with    *)
(* every change and restores in the end.  The line is the text itself,     *)
(* because what is restored is its tokens.                                 *)
(***************************************************************************)
EXTENDS SequencesExt

CONSTANT Missing  \* no such file

VARIABLES file,    \* the command line file of the device
          orig,    \* _orig_line
          current  \* _current_flags

flagVars == <<file, orig, current>>

Blank == " "
Quote == "\""
Backslash == "\\"
Program == <<"_">>

\* str.strip
Strip(line) ==
  LET Inside == {i \in DOMAIN line : line[i] # Blank}
  IN  IF Inside = {} THEN <<>> ELSE SubSeq(line, Min(Inside), Max(Inside))

\* One turn of the loop of _TokenizeFlags.
Literal(flag, c) == c = Quote /\ flag # <<>> /\ Last(flag) = Backslash

\* Mutant: quotation marks are dropped, as in the Java version.
TokenizeUnquoted(t, c) ==
  CASE c = Quote ->
         [t EXCEPT !.within = ~@]
    [] c = Blank /\ ~t.within ->
         IF t.flag = <<>> THEN t ELSE [t EXCEPT !.flags = Append(@, t.flag), !.flag = <<>>]
    [] OTHER ->
         [t EXCEPT !.flag = Append(@, c)]

TokenizeChar(t, c) ==
  CASE Literal(t.flag, c) ->
         [t EXCEPT !.flag = Append(Front(@), Quote)]
    [] c = Quote /\ ~Literal(t.flag, c) ->
         [t EXCEPT !.within = ~@, !.flag = Append(@, c)]
    [] c = Blank /\ ~t.within ->
         IF t.flag = <<>> THEN t ELSE [t EXCEPT !.flags = Append(@, t.flag), !.flag = <<>>]
    [] OTHER ->
         [t EXCEPT !.flag = Append(@, c)]

\* _TokenizeFlags: everything but the program name.
TokenizeFlags(line) ==
  LET t == FoldLeft(TokenizeChar, [flags |-> <<>>, flag |-> <<>>, within |-> FALSE], Strip(line))
      all == IF t.flag = <<>> THEN t.flags ELSE Append(t.flags, t.flag)
  IN  IF all = <<>> THEN <<>> ELSE Tail(all)

\* What _UpdateCommandLineFile leaves.
CommandLine(flags) ==
  IF flags = <<>> THEN Missing
                  ELSE FoldLeft(LAMBDA line, flag : line \o <<Blank>> \o flag, Program, flags)

\* What Chrome makes of the file, by the logic that _TokenizeFlags follows.
Line(f) == IF f = Missing THEN <<>> ELSE f
FlagsSeen == ToSet(TokenizeFlags(Line(file)))
-----------------------------------------------------------------------------
\* The original flags, as they may be read when a FlagChanger is made: every
\* CommandFailedError is taken for a missing file, that of a file which cannot be
\* read without root as well.
OrigLines == {Strip(Line(file)), <<>>}

Added(flags, f) == IF f \in ToSet(flags) THEN flags ELSE Append(flags, f)

Removed(flags, f) == RemoveFirst(flags, f)

WithFlags(flags, new) == FoldLeft(Added, flags, new)
WithoutFlags(flags, old) == FoldLeft(Removed, flags, old)

\* _UpdateCommandLineFile succeeds, or raises at the write or after it.
Update == file' = CommandLine(current')
UpdateRaises == file' \in {file, CommandLine(current')}

AddFlags(new) == current' = WithFlags(current, new) /\ UNCHANGED orig
RemoveFlags(old) == current' = WithoutFlags(current, old) /\ UNCHANGED orig

Restore == current' = TokenizeFlags(orig) /\ UNCHANGED orig
=============================================================================
