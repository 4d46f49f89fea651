------------------------- MODULE MCIsolatedProcess --------------------------
(* A small instance of IsolatedProcess for TLC: two tasks for one slot, the *)
(* waiting one of every kind beside one of another kind.                    *)
EXTENDS IsolatedProcess

CONSTANTS one, two

MCMixes == {[t \in Tasks |-> IF t = one THEN mix[1] ELSE mix[2]] :
            mix \in {<<"solve", "parse">>, <<"sign", "verify">>}}
=============================================================================
