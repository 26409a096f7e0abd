------------------------------ MODULE KvmSwitch ------------------------------
(***************************************************************************)
(* The switch to the kernel's directory: kmv_switch of kernel/mm/kvm.c and *)
(* x86_set_cr3 of arch/i386/include/x86.h.  kvm_init ends with the call    *)
(* commented out; this is the function as mm/vm.h offers it, called once   *)
(* kvm_init has returned.                                                  *)
(***************************************************************************)
EXTENDS Kvm, Bitwise

VARIABLE switched    \* kmv_switch has returned

svars == <<bvars, switched>>

SwitchInit == BootInit /\ switched = FALSE

x86_set_cr3(value) == control' = [control EXCEPT !.cr3 = @ | value]

kmv_switch ==
  /\ pc = "done" /\ ~switched
  /\ x86_set_cr3(MM_PHYSADDR(kpagedir_))
  /\ switched' = TRUE
  /\ UNCHANGED <<vars, layout, pc, half, low, kpagedir_>>

SwitchNext ==
  \/ BootNext /\ UNCHANGED switched
  \/ kmv_switch

SwitchSpec == SwitchInit /\ [][SwitchNext]_svars

\* vm.h:16, "Switches into the kernel page directory": the processor walks the
\* directory kvm_create built.
KernelDirectoryLoaded == switched => control.cr3 = MM_PHYSADDR(kpagedir_)

=============================================================================
