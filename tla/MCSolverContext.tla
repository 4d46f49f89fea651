-------------------------- MODULE MCSolverContext ---------------------------
(* A small instance of SolverContext for TLC: two platforms, two targets    *)
(* that share the subdir of the native one, variables that one of them and  *)
(* both of them override.                                                   *)
EXTENDS SolverContext, TLC

CONSTANTS linux, osx, cpu, gpu, glibc, cuda, host

MCSubdirOf == [t \in Targets |-> linux]
MCVariablesOf == [t \in Targets |-> IF t = gpu THEN {glibc, cuda} ELSE {glibc}]
MCAmbient == [n \in Variables |-> IF n = cuda THEN host ELSE None]

ContextSymmetry == Permutations(Threads)
=============================================================================
