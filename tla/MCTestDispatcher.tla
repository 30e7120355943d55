-------------------------- MODULE MCTestDispatcher --------------------------
(* Small instances of TestDispatcher: two tests shared by two devices, a   *)
(* group of two tests shared, and one test replicated.                     *)
EXTENDS TestDispatcher
CONSTANTS a, b
SharedTests == [tests |-> <<{a}, {b}>>, shard |-> TRUE]
SharedGroup == [tests |-> <<{a, b}>>, shard |-> TRUE]
OneReplicated == [tests |-> <<{a}>>, shard |-> FALSE]
AllCalls == {SharedTests, SharedGroup, OneReplicated}
=============================================================================
