-------------------------- MODULE MCPortAllocation --------------------------
(* PortAllocation with three callers and three ports.                      *)
EXTENDS PortAllocation
=============================================================================
