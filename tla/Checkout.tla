----------------------------- MODULE Checkout -----------------------------
(***************************************************************************)
(* What the hooks of a checkout share: the revision that is checked out,   *)
(* and the two values a file may have that is not there or was only        *)
(* opened.  Every file these hooks write fits one buffer, so that a        *)
(* killed script leaves it as it was, empty, or complete.                  *)
(***************************************************************************)
CONSTANTS Revision, \* revisions that can be checked out
          Missing,  \* no such file
          Empty     \* a file that was opened for writing and not yet closed

\* How a hook ends, if it has run at all.
Outcome == {"ok", "died", "raised", "failed"}

ASSUME CheckoutAssumption == Missing # Empty /\ Missing \notin Outcome

VARIABLE revision

\* What a file holds, of the contents in S.
FileOf(S) == S \cup {Missing, Empty}

\* open(f, 'w') and the end of the with block: f is Empty in between.
Written(file, content) == IF file = Empty THEN content ELSE Empty
=============================================================================
