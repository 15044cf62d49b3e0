------------------------ MODULE ShutdownCoordinator ------------------------
(***************************************************************************)
(* src/src/core/lifecycle.cpp: an atomic phase that several threads load   *)
(* and compare-and-swap.  One step per atomic access; an assertion is the  *)
(* access that evaluates it (a Debug build).  request_shutdown uses        *)
(* compare_exchange_weak, which may fail although the phase matches.       *)
(***************************************************************************)
CONSTANTS
    Requesters,  \* threads that call request_shutdown, once each
    Advancers    \* threads that call try_advance_to_stopped_if_drained

VARIABLES
    phase,       \* phase_
    requester,   \* where each requester is in request_shutdown
    advancer,    \* where each advancer is in try_advance_to_stopped_if_drained
    drained,     \* the arguments of an advancer's call: do they say drained?
    stoppedBy    \* history: whose compare-and-swap stopped the server

vars == <<phase, requester, advancer, drained, stoppedBy>>

Abstract == INSTANCE Lifecycle

RequesterAt == {"idle", "load", "cas", "assert_draining", "returned"}
AdvancerAt == {"idle", "load", "args", "assert_draining", "cas", "assert_stopped"}

TypeOK ==
    /\ phase \in Abstract!Phases
    /\ requester \in [Requesters -> RequesterAt]
    /\ advancer \in [Advancers -> AdvancerAt]
    /\ drained \in [Advancers -> BOOLEAN]
    /\ stoppedBy \in SUBSET Advancers

Init ==
    /\ phase = "Running"
    /\ requester = [r \in Requesters |-> "idle"]
    /\ advancer = [a \in Advancers |-> "idle"]
    /\ drained = [a \in Advancers |-> FALSE]
    /\ stoppedBy = {}

RequesterGoes(r, label) == requester' = [requester EXCEPT ![r] = label]
AdvancerGoes(a, label) == advancer' = [advancer EXCEPT ![a] = label]

(***************************************************************************)
(* request_shutdown.                                                       *)
(***************************************************************************)
RequestCall(r) ==
    /\ requester[r] = "idle"
    /\ RequesterGoes(r, "load")
    /\ UNCHANGED <<phase, advancer, drained, stoppedBy>>

RequestLoad(r) ==
    /\ requester[r] = "load"
    /\ RequesterGoes(r, IF phase = "Running" THEN "cas" ELSE "returned")
    /\ UNCHANGED <<phase, advancer, drained, stoppedBy>>

(* Fault: a plain store after the load instead of a compare-and-swap. *)
RequestStore(r) ==
    /\ requester[r] = "cas"
    /\ phase' = "Draining"
    /\ RequesterGoes(r, "assert_draining")
    /\ UNCHANGED <<advancer, drained, stoppedBy>>

RequestCasWins(r) ==
    /\ requester[r] = "cas"
    /\ phase = "Running"
    /\ phase' = "Draining"
    /\ RequesterGoes(r, "assert_draining")
    /\ UNCHANGED <<advancer, drained, stoppedBy>>

(* Fault: a failed compare-and-swap gives up, as if it could not be spurious. *)
RequestCasGivesUp(r) ==
    /\ requester[r] = "cas"
    /\ RequesterGoes(r, "returned")
    /\ UNCHANGED <<phase, advancer, drained, stoppedBy>>

(* Fault: the loop retries the compare-and-swap without a new load. *)
RequestCasSpins(r) ==
    /\ requester[r] = "cas"
    /\ UNCHANGED vars

(* Another thread was first, or a spurious failure: around the loop. *)
RequestCasFails(r) ==
    /\ requester[r] = "cas"
    /\ RequesterGoes(r, "load")
    /\ UNCHANGED <<phase, advancer, drained, stoppedBy>>

RequestAssert(r) ==
    /\ requester[r] = "assert_draining"
    /\ RequesterGoes(r, "returned")
    /\ UNCHANGED <<phase, advancer, drained, stoppedBy>>

(***************************************************************************)
(* try_advance_to_stopped_if_drained.  The caller computes the arguments   *)
(* before the call; here they are any.                                     *)
(***************************************************************************)
AdvanceCall(a) ==
    /\ advancer[a] = "idle"
    /\ \E d \in BOOLEAN : drained' = [drained EXCEPT ![a] = d]
    /\ AdvancerGoes(a, "load")
    /\ UNCHANGED <<phase, requester, stoppedBy>>

(* Fault: the early return on the phase is missing. *)
AdvanceLoadIgnored(a) ==
    /\ advancer[a] = "load"
    /\ AdvancerGoes(a, "args")
    /\ UNCHANGED <<phase, requester, drained, stoppedBy>>

AdvanceLoad(a) ==
    /\ advancer[a] = "load"
    /\ AdvancerGoes(a, IF phase = "Draining" THEN "args" ELSE "idle")
    /\ UNCHANGED <<phase, requester, drained, stoppedBy>>

AdvanceCheckArgs(a) ==
    /\ advancer[a] = "args"
    /\ AdvancerGoes(a, IF drained[a] THEN "assert_draining" ELSE "idle")
    /\ UNCHANGED <<phase, requester, drained, stoppedBy>>

AdvanceAssertDraining(a) ==
    /\ advancer[a] = "assert_draining"
    /\ AdvancerGoes(a, "cas")
    /\ UNCHANGED <<phase, requester, drained, stoppedBy>>

(* compare_exchange_strong fails only when the phase differs. *)
AdvanceCas(a) ==
    /\ advancer[a] = "cas"
    /\ phase' = IF phase = "Draining" THEN "Stopped" ELSE phase
    /\ stoppedBy' = IF phase = "Draining" THEN {a} ELSE stoppedBy
    /\ AdvancerGoes(a, "assert_stopped")
    /\ UNCHANGED <<requester, drained>>

AdvanceAssertStopped(a) ==
    /\ advancer[a] = "assert_stopped"
    /\ AdvancerGoes(a, "idle")
    /\ UNCHANGED <<phase, requester, drained, stoppedBy>>

-----------------------------------------------------------------------------
RequestRest(r) ==
    RequestLoad(r) \/ RequestCasWins(r) \/ RequestCasFails(r) \/ RequestAssert(r)

AdvanceRest(a) ==
    \/ AdvanceLoad(a) \/ AdvanceCheckArgs(a) \/ AdvanceAssertDraining(a)
    \/ AdvanceCas(a) \/ AdvanceAssertStopped(a)

Next ==
    \/ \E r \in Requesters : RequestCall(r) \/ RequestRest(r)
    \/ \E a \in Advancers : AdvanceCall(a) \/ AdvanceRest(a)

Spec == Init /\ [][Next]_vars

(* A started call keeps running; compare_exchange_weak does not fail       *)
(* spuriously for ever.                                                    *)
FairSpec ==
    /\ Spec
    /\ \A r \in Requesters : WF_vars(RequestRest(r)) /\ SF_vars(RequestCasWins(r))
    /\ \A a \in Advancers : WF_vars(AdvanceRest(a))

-----------------------------------------------------------------------------
(* When a call of request_shutdown has returned, the server no longer      *)
(* accepts: the call changed the phase, or saw that another one had,       *)
(* however often its compare-and-swap failed.                              *)
RequestTakesEffect ==
    \A r \in Requesters : requester[r] = "returned" => phase # "Running"

(* The assertions of try_advance_to_stopped_if_drained: the one of line 46 *)
(* holds, unless another thread's compare-and-swap has stopped the server  *)
(* since this one loaded the phase; the one of line 56 holds whoever won.  *)
AdvanceAsserts ==
    \A a \in Advancers :
       /\ advancer[a] = "assert_draining" =>
             phase = "Draining" \/ (phase = "Stopped" /\ \E b \in stoppedBy : b # a)
       /\ advancer[a] = "assert_stopped" => phase = "Stopped"

(* INVARIANTS.md: "After a successful Running -> Draining CAS in           *)
(* request_shutdown(), phase is Draining" (the assertion of line 18).      *)
DrainingAfterRequest ==
    \A r \in Requesters : requester[r] = "assert_draining" => phase = "Draining"

(* The lock-free code implements Lifecycle: whatever the interleaving of   *)
(* loads and swaps, the phase only moves forward, one phase at a time.     *)
ImplementsLifecycle == Abstract!LifecycleSpec

(* Every call of request_shutdown returns.                                 *)
RequestReturns ==
    \A r \in Requesters : (requester[r] = "load") ~> (requester[r] = "returned")

=============================================================================
