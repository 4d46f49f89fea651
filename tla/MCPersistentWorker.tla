------------------------- MODULE MCPersistentWorker -------------------------
(* Small instances of PersistentWorker for TLC.                             *)
EXTENDS PersistentWorker, TLC

\* Clients are interchangeable: the safety runs use it, the liveness run has
\* one client.
ClientSymmetry == Permutations(Clients)
=============================================================================
