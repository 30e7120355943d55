------------------------ MODULE MCIncrementalInstall ------------------------
(* IncrementalInstall with two processes.  On O, with an app that has dex   *)
(* files only, two primary processes copy, over two installs, or one of     *)
(* them raises.  On an older device one of two primary processes raises;    *)
(* or the one that is primary beside an isolated one, over an install.      *)
EXTENDS IncrementalInstall, TLC

CONSTANTS lib, dex

One == {{p} : p \in Process}
Configurations ==
  [oreo : {TRUE}, isolated : {{}}, files : {{dex}}, installs : {2}, faulty : {{}}] \cup
  [oreo : {TRUE}, isolated : {{}}, files : {{dex}}, installs : {0}, faulty : One] \cup
  [oreo : {FALSE}, isolated : {{}}, files : {{lib, dex}}, installs : {0}, faulty : One] \cup
  {c \in [oreo : {FALSE}, isolated : One, files : {{lib, dex}}, installs : {1},
          faulty : One] : c.faulty # c.isolated}

Symmetry == Permutations(Process) \cup Permutations(Content)
=============================================================================
