--------------------------- MODULE MCPckCertCache ---------------------------
(* Instances of PckCertCache for TLC.  The TCBMs the PCS has certificates   *)
(* for change from a publication to the next: one is added, one is gone,    *)
(* and in the end there is none.                                            *)
EXTENDS PckCertCache, Sequences, TLC

TwoTcbs     == {1, 2}
GrowShrink  == <<{1}, {1, 2}, {2}>>
ThenNone    == GrowShrink \o <<{}>>
NeverLacks  == <<{}, {}, {}>>
FirstLacks  == <<{2}, {}, {}, {}>>

Symmetric == Permutations(Requests)
=============================================================================
