------------------------------ MODULE MCRefresh ------------------------------
(* Instances of RefreshService for TLC.                                      *)
EXTENDS RefreshService, TLC

CONSTANTS f1, p1

OneFmspcOf == p1 :> f1

\* Callers of POST /refresh are alike.
Callers == Permutations(Requests)
=============================================================================
