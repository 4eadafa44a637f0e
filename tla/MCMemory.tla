------------------------------- MODULE MCMemory -------------------------------
(* Instances of Memory for TLC: pages of four units, addresses with two      *)
(* values of each index, among them two that share all their tables, one     *)
(* that shares some and one that shares only the root.                       *)
EXTENDS Memory

TheVAddrs   == {<<0, 0, 0, 0>>, <<0, 0, 0, 1>>, <<0, 1, 0, 0>>}
TheRequests == {[size |-> 3, align |-> 2]}
=============================================================================
