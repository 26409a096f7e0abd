------------------------------- MODULE MCTrap -------------------------------
(***************************************************************************)
(* Trap with one exception with and one without an error code, the timer,  *)
(* a line of the second controller, two letters and the release of a key.  *)
(***************************************************************************)
EXTENDS Trap

\* Nothing masked, or the keyboard and a line of the second controller.
MCMasks == {{}, {1, 15}}

\* The descriptors of the loader of qemu -kernel: null, code and data.
MCLoaderTable == 0 :> NullEntry @@ 1 :> Flat(154) @@ 2 :> Flat(146)

MCTSS == <<32784, 4096>>

=============================================================================
