------------------------ MODULE MCLocalDeviceTestRun ------------------------
(* Small instances of LocalDeviceTestRun.                                  *)
EXTENDS LocalDeviceTestRun
CONSTANTS a, b, c
TwoTests == <<a, b>>
ThreeTests == <<a, b, c>>

\* Two devices have shards of several tests in the run; a list that is long
\* enough for their strides to be cut into pieces is looked at here.
ASSUME StridesInPieces ==
  GtestShards(<<1, 2, 3, 4, 5, 6, 7>>, 2) = <<{1, 3}, {5, 7}, {2, 4}, {6}>>
=============================================================================
