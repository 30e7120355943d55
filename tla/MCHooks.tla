------------------------------ MODULE MCHooks ------------------------------
(***************************************************************************)
(* Three revisions: the last two have the same landmines, the first two    *)
(* the same sysroot.                                                       *)
(***************************************************************************)
EXTENDS Hooks, TLC

MCLandminesOf == [r \in Revision |-> IF r = 1 THEN "m1" ELSE "m2"]
MCUrlOf == [r \in Revision |-> IF r = 3 THEN "u3" ELSE "u1"]
=============================================================================
