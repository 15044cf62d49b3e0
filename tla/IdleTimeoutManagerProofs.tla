---------------------- MODULE IdleTimeoutManagerProofs ----------------------
(***************************************************************************)
(* IdleInv is inductive for any set of handles, any idle time and any      *)
(* polling period.                                                         *)
(***************************************************************************)
EXTENDS IdleTimeoutManager, TLAPS

LEMMA InitIdle == Init => IdleInv
  BY IdleAssumption DEF Init, IdleInv, TypeOK, EvictsOnlyIdle, NobodyOverstays

(* Every call of the manager and every tick preserves the invariant. *)
LEMMA NextIdle == IdleInv /\ [Next]_vars => IdleInv'
<1> SUFFICES ASSUME IdleInv, [Next]_vars PROVE IdleInv' OBVIOUS
<1> USE IdleAssumption DEF IdleInv, TypeOK, EvictsOnlyIdle, NobodyOverstays
<1>1. CASE UNCHANGED vars BY <1>1 DEF vars
<1>2. ASSUME NEW h \in Handles, RegisterConnection(h) PROVE IdleInv'
  BY <1>2 DEF RegisterConnection
<1>3. ASSUME NEW h \in Handles, UnregisterConnection(h) PROVE IdleInv'
  BY <1>3 DEF UnregisterConnection
<1>4. ASSUME NEW h \in Handles, TouchActivity(h) PROVE IdleInv'
  BY <1>4 DEF TouchActivity
<1>5. ASSUME NEW h \in Handles, CloseExpired(h) PROVE IdleInv'
  BY <1>5 DEF CloseExpired
<1>6. CASE PollExpired
  BY <1>6 DEF PollExpired, IsIdle
<1>7. CASE Tick
  BY <1>7 DEF Tick
<1> QED BY <1>1, <1>2, <1>3, <1>4, <1>5, <1>6, <1>7 DEF Next

LEMMA IdleInvariant == Spec => []IdleInv
  BY InitIdle, NextIdle, PTL DEF Spec

(* An open connection is never idle for idle_after + PollPeriod or longer. *)
THEOREM IdleTimeIsBounded == Spec => []NobodyOverstays
  BY IdleInvariant, PTL DEF IdleInv

(* poll_expired never returns a connection that was active too recently.   *)
THEOREM ActiveIsKept == Spec => []EvictsOnlyIdle
  BY IdleInvariant, PTL DEF IdleInv

=============================================================================
