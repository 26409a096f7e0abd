------------------------------- MODULE MCPages -------------------------------
(***************************************************************************)
(* Pages with two-byte pages and four-entry tables: memory is 32 bytes, the *)
(* kernel half starts at 16, and the 4 MB window after it is four pages.   *)
(***************************************************************************)
EXTENDS Pages

\* A caller leaves zeros, or the address of a node of the list, in its page.
MCJunk == {NULL, pr_freepages}

-----------------------------------------------------------------------------
(* A sentence of the code. *)

\* kvm.c:31 and kvm.c:226 assert that the page kpalloc returned is not NULL,
\* and pages.c:34 tests it: with no page left kpalloc returns NULL.
ExhaustionReported == status # "null_page"

=============================================================================
