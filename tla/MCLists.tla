------------------------------- MODULE MCLists -------------------------------
(***************************************************************************)
(* Both kinds of lists with two heads and four entries: every length, none *)
(* to four, neighbours on every side, and a second list to move to.        *)
(***************************************************************************)
EXTENDS ListClients

\* The entries are interchangeable, and so are the heads.
Symmetric == Permutations(Entries) \cup Permutations(ListHeads)

=============================================================================
