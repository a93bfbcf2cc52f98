--------------------------- MODULE MCRegistration ---------------------------
(* Instances of PlatformRegistration for TLC.  Calls are alike and so are   *)
(* registrations: no property is temporal, so they may be permuted.         *)
EXTENDS PlatformRegistration, TLC

Symmetric == Permutations(Regs) \cup Permutations(Posts) \cup Permutations(Gets)
=============================================================================
