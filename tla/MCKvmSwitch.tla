---------------------------- MODULE MCKvmSwitch ----------------------------
(***************************************************************************)
(* KvmSwitch on the memory of MCKvm.                                       *)
(***************************************************************************)
EXTENDS KvmSwitch

MCMagic == [frame |-> 126, flags |-> Flag]

MCGarbage == {[p \in Page |-> [i \in Index |-> Zero]]}

=============================================================================
