-------------------------- MODULE AllocationRuntime --------------------------
(***************************************************************************)
(* What one host promises about the processes of one allocation.  The      *)
(* controller and the database reason about an allocation only through     *)
(* this contract: its virtual machine is started at most once, it ends at  *)
(* most once, and the allocation is released only when no process of it    *)
(* exists and none can be started any more.  Guardian, HostSupervisor and  *)
(* Retirement are shown to implement it; Lifecycle, which is about the     *)
(* chain above the host, takes its moves as the host's machine.            *)
(***************************************************************************)

VARIABLE runtime    \* "unstarted", "live", "ended" or "released"

RuntimeStates == {"unstarted", "live", "ended", "released"}

RuntimeInit == runtime = "unstarted"

(* The one launch of the allocation.                                       *)
Launch == runtime = "unstarted" /\ runtime' = "live"

(* Every process of the allocation has exited.                             *)
End == runtime = "live" /\ runtime' = "ended"

(* The durable proof that nothing of the allocation remains.  A release    *)
(* without a launch forbids the launch for good.                           *)
Release == runtime \in {"unstarted", "ended"} /\ runtime' = "released"

RuntimeNext == Launch \/ End \/ Release

RuntimeSpec == RuntimeInit /\ [][RuntimeNext]_runtime
=============================================================================
