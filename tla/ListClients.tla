----------------------------- MODULE ListClients -----------------------------
(***************************************************************************)
(* The clients of utils/include/list.h: those of list_head (Lists) or      *)
(* those of hlist_head (HLists).  The two kinds share no pointer, so a     *)
(* behaviour has one of them, chosen at its start.                         *)
(***************************************************************************)
EXTENDS Lists, HLists

VARIABLE kind

ClientInit == kind \in {"list", "hlist"} /\ Init /\ HInit

ClientNext ==
  /\ kind' = kind
  /\ \/ kind = "list" /\ Next /\ UNCHANGED hvars
     \/ kind = "hlist" /\ HNext /\ UNCHANGED vars

ClientSpec == ClientInit /\ [][ClientNext]_<<kind, vars, hvars>>

=============================================================================
