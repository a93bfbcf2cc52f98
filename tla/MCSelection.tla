----------------------------- MODULE MCSelection -----------------------------
(* Instances of PckCertSelection for TLC: TCBs of two components, three of  *)
(* them in a chain, one beside the chain and one above all.                 *)
EXTENDS PckCertSelection

Two         == {1, 2}
Chain       == {<<1, 0>>, <<2, 0>>, <<3, 0>>}
ChainBeside == Chain \cup {<<0, 3>>}
AllFive     == ChainBeside \cup {<<3, 3>>}
LowLevels   == {<<0, 0>>, <<2, 0>>, <<0, 3>>}
Lowest      == {<<0, 0>>}
=============================================================================
