--------------------------- MODULE MCCachedSolve ----------------------------
(* Small instances of CachedSolve for TLC.                                  *)
EXTENDS CachedSolve, TLC

CONSTANTS linux, osx

Plain(keys, retain) == [kind |-> "plain", keys |-> keys, retain |-> retain]
Workspace == [kind |-> "workspace", keys |-> {linux}, retain |-> TRUE]

MCRequests == {Plain({linux}, TRUE), Plain({osx}, FALSE), Workspace}
MCPoolRequests == {Plain({linux, osx}, TRUE)}

HandlerSymmetry == Permutations(Handlers)
=============================================================================
