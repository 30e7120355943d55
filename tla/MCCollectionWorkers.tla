------------------------ MODULE MCCollectionWorkers -------------------------
(* A small instance of CollectionWorkers: two tests at the start and room  *)
(* for the retries that fit in Task.                                       *)
EXTENDS CollectionWorkers, TLC
CONSTANTS t1, t2
MCInitial == <<t1, t2>>
=============================================================================
