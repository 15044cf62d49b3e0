--------------------- MODULE ShutdownCoordinatorProofs ---------------------
(***************************************************************************)
(* For any number of threads, the lock-free code of lifecycle.cpp breaks   *)
(* an assertion of its advance only when a peer was faster, makes every    *)
(* request take effect and implements Lifecycle.                           *)
(***************************************************************************)
EXTENDS ShutdownCoordinator, TLAPS

(* A thread past a load knows a lower bound of the phase; that is enough,  *)
(* because the phase never moves back.                                     *)
CoordinatorInv ==
    /\ TypeOK
    /\ RequestTakesEffect
    /\ AdvanceAsserts
    /\ \A r \in Requesters : requester[r] = "assert_draining" => phase # "Running"
    /\ \A a \in Advancers :
          advancer[a] \in {"args", "assert_draining", "cas"} =>
             phase = "Draining" \/ (phase = "Stopped" /\ \E b \in stoppedBy : b # a)

LEMMA InitCoordinator == Init => CoordinatorInv
  BY DEF Init, CoordinatorInv, TypeOK, Abstract!Phases, RequesterAt, AdvancerAt,
         RequestTakesEffect, AdvanceAsserts

(* Every atomic access of every call preserves what the threads know. *)
LEMMA NextCoordinator == CoordinatorInv /\ [Next]_vars => CoordinatorInv'
<1> SUFFICES ASSUME CoordinatorInv, [Next]_vars PROVE CoordinatorInv' OBVIOUS
<1> USE DEF CoordinatorInv, TypeOK, RequestTakesEffect, AdvanceAsserts,
            Abstract!Phases, RequesterAt, AdvancerAt, RequesterGoes, AdvancerGoes
<1>1. CASE UNCHANGED vars BY <1>1 DEF vars
<1>2. ASSUME NEW r \in Requesters, RequestCall(r) PROVE CoordinatorInv'
  BY <1>2 DEF RequestCall
<1>3. ASSUME NEW r \in Requesters, RequestLoad(r) PROVE CoordinatorInv'
  BY <1>3 DEF RequestLoad
<1>4. ASSUME NEW r \in Requesters, RequestCasWins(r) PROVE CoordinatorInv'
  BY <1>4 DEF RequestCasWins
<1>5. ASSUME NEW r \in Requesters, RequestCasFails(r) PROVE CoordinatorInv'
  BY <1>5 DEF RequestCasFails
<1>6. ASSUME NEW r \in Requesters, RequestAssert(r) PROVE CoordinatorInv'
  BY <1>6 DEF RequestAssert
<1>7. ASSUME NEW a \in Advancers, AdvanceCall(a) PROVE CoordinatorInv'
  BY <1>7 DEF AdvanceCall
<1>8. ASSUME NEW a \in Advancers, AdvanceLoad(a) PROVE CoordinatorInv'
  BY <1>8 DEF AdvanceLoad
<1>9. ASSUME NEW a \in Advancers, AdvanceCheckArgs(a) PROVE CoordinatorInv'
  BY <1>9 DEF AdvanceCheckArgs
<1>10. ASSUME NEW a \in Advancers, AdvanceAssertDraining(a) PROVE CoordinatorInv'
  BY <1>10 DEF AdvanceAssertDraining
<1>11. ASSUME NEW a \in Advancers, AdvanceCas(a) PROVE CoordinatorInv'
  BY <1>11 DEF AdvanceCas
<1>12. ASSUME NEW a \in Advancers, AdvanceAssertStopped(a) PROVE CoordinatorInv'
  BY <1>12 DEF AdvanceAssertStopped
<1> QED
  BY <1>1, <1>2, <1>3, <1>4, <1>5, <1>6, <1>7, <1>8, <1>9, <1>10, <1>11, <1>12
  DEF Next, RequestRest, AdvanceRest

LEMMA CoordinatorInvariant == Spec => []CoordinatorInv
  BY InitCoordinator, NextCoordinator, PTL DEF Spec

(* With any number of concurrent peers, the assertion of line 46 fails only *)
(* for a thread that another one has beaten, and that of line 56 never.    *)
THEOREM AdvanceAssertsUnlessBeaten == Spec => []AdvanceAsserts
  BY CoordinatorInvariant, PTL DEF CoordinatorInv

(* A server that advances from a single thread, as run_server does, keeps  *)
(* the assertion of line 46, whatever the requesters do.                   *)
THEOREM SoleAdvancerAsserts ==
  ASSUME NEW io, Advancers = {io}
  PROVE  Spec => [](advancer[io] = "assert_draining" => phase = "Draining")
<1>1. CoordinatorInv => (advancer[io] = "assert_draining" => phase = "Draining")
  BY DEF CoordinatorInv, AdvanceAsserts, TypeOK
<1> QED BY <1>1, CoordinatorInvariant, PTL

(* After any call of request_shutdown has returned, nothing is accepted.   *)
THEOREM RequestsTakeEffect == Spec => []RequestTakesEffect
  BY CoordinatorInvariant, PTL DEF CoordinatorInv

(* Each atomic access is a step of Lifecycle or leaves the phase alone.    *)
THEOREM LifecycleImplemented == Spec => ImplementsLifecycle
<1>1. Init => Abstract!LifecycleInit
  BY DEF Init, Abstract!LifecycleInit
<1>2. [Next]_vars =>
        [Abstract!RequestShutdown \/ Abstract!AdvanceToStopped]_phase
  BY DEF Next, vars, RequestRest, AdvanceRest, RequestCall, RequestLoad,
         RequestCasWins, RequestCasFails, RequestAssert, AdvanceCall, AdvanceLoad,
         AdvanceCheckArgs, AdvanceAssertDraining, AdvanceCas, AdvanceAssertStopped,
         Abstract!RequestShutdown, Abstract!AdvanceToStopped
<1> QED
  BY <1>1, <1>2, PTL
  DEF Spec, ImplementsLifecycle, Abstract!LifecycleSpec

=============================================================================
