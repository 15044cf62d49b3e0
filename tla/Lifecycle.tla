----------------------------- MODULE Lifecycle -----------------------------
(***************************************************************************)
(* What ShutdownCoordinator (lifecycle.hpp) promises: the server's phase   *)
(* moves Running -> Draining -> Stopped, one step at a time and never      *)
(* back.  GracefulServer uses these two actions for the calls its threads  *)
(* make; ShutdownCoordinator shows that the lock-free code implements them. *)
(***************************************************************************)
VARIABLE phase

Phases == {"Running", "Draining", "Stopped"}

LifecycleInit == phase = "Running"

(* What the event loop asks. *)
ShouldAcceptNewConnections == phase = "Running"
ShouldPollNetwork == phase # "Stopped"

(* request_shutdown: only the first call changes the phase. *)
RequestShutdown == phase = "Running" /\ phase' = "Draining"

(* try_advance_to_stopped_if_drained, called by a drained server. *)
AdvanceToStopped == phase = "Draining" /\ phase' = "Stopped"

LifecycleSpec == LifecycleInit /\ [][RequestShutdown \/ AdvanceToStopped]_phase

=============================================================================
