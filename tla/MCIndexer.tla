------------------------------ MODULE MCIndexer ------------------------------
(***************************************************************************)
(* Small instances of the indexer: every chain of a few blocks of events.  *)
(***************************************************************************)
EXTENDS IndexerProperties
=============================================================================
