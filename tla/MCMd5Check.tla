----------------------------- MODULE MCMd5Check -----------------------------
(***************************************************************************)
(* Two paths, and three values of the strings, two of which are the same   *)
(* characters.  Contents and outputs are only compared, so that they may   *)
(* be permuted.                                                            *)
(***************************************************************************)
EXTENDS Md5Check

MCStrings == {<<<<1>>>>, <<<<1>>, <<2>>>>, <<<<1, 2>>>>}
Symmetry == Permutations(Content) \cup Permutations(Output)
=============================================================================
