------------------------- MODULE IdleTimeoutManager -------------------------
(***************************************************************************)
(* src/src/net/idle_timeout_manager.cpp: the registry of last activities   *)
(* and the eviction of idle sockets, with the event loop its header asks   *)
(* for: register on accept, touch on progress, unregister on close, and    *)
(* close what poll_expired returns before anything else happens.  Time is  *)
(* discrete, and the loop polls at least every PollPeriod ticks.           *)
(***************************************************************************)
EXTENDS Integers

CONSTANTS
    Handles,     \* native handles, reused by later connections
    IdleTimes,   \* values of idle_after, 0 disables eviction
    PollPeriod,  \* ticks between two calls of poll_expired, at most
    MaxTime      \* bound: ticks of a behaviour

ASSUME IdleAssumption ==
    /\ IdleTimes \subseteq Nat /\ PollPeriod \in Nat \ {0} /\ MaxTime \in Nat

VARIABLES
    idle_after,     \* idle_after_
    last_activity,  \* last_activity_, for the registered handles
    registered,     \* the keys of last_activity_
    expired,        \* returned by poll_expired and not closed yet
    open,           \* handles of open connections
    seen,           \* history: when a connection was opened or last active
    now, polled     \* the clock, and the time of the last poll

vars == <<idle_after, last_activity, registered, expired, open, seen, now, polled>>

TypeOK ==
    /\ idle_after \in IdleTimes
    /\ last_activity \in [Handles -> Nat] /\ seen \in [Handles -> Nat]
    /\ registered \subseteq Handles /\ expired \subseteq Handles /\ open \subseteq Handles
    /\ now \in Nat /\ polled \in Nat

Init ==
    /\ idle_after \in IdleTimes
    /\ last_activity = [h \in Handles |-> 0] /\ seen = [h \in Handles |-> 0]
    /\ registered = {} /\ expired = {} /\ open = {}
    /\ now = 0 /\ polled = 0

(* Fault: the entry of an earlier connection with the handle is kept. *)
RegisterKeepsOld(h) ==
    /\ expired = {} /\ h \notin open
    /\ open' = open \cup {h}
    /\ registered' = registered \cup {h}
    /\ seen' = [seen EXCEPT ![h] = now]
    /\ UNCHANGED <<idle_after, last_activity, expired, now, polled>>

(* A connection is accepted; an entry the handle had before is replaced. *)
RegisterConnection(h) ==
    /\ expired = {} /\ h \notin open
    /\ open' = open \cup {h}
    /\ registered' = registered \cup {h}
    /\ last_activity' = [last_activity EXCEPT ![h] = now]
    /\ seen' = [seen EXCEPT ![h] = now]
    /\ UNCHANGED <<idle_after, expired, now, polled>>

(* The peer closed the connection. *)
UnregisterConnection(h) ==
    /\ expired = {} /\ h \in open
    /\ open' = open \ {h}
    /\ registered' = registered \ {h}
    /\ UNCHANGED <<idle_after, last_activity, expired, seen, now, polled>>

(* Progress on a connection; an unknown handle is ignored. *)
TouchActivity(h) ==
    /\ expired = {} /\ h \in open
    /\ seen' = [seen EXCEPT ![h] = now]
    /\ last_activity' = IF h \in registered THEN [last_activity EXCEPT ![h] = now]
                                            ELSE last_activity
    /\ UNCHANGED <<idle_after, registered, expired, open, now, polled>>

(* Fault: a handle idle for exactly idle_after is not expired yet. *)
IdleStrictly(h) == idle_after # 0 /\ now - last_activity[h] > idle_after

IsIdle(h) == idle_after # 0 /\ now - last_activity[h] >= idle_after

PollExpired ==
    /\ expired = {}
    /\ expired' = {h \in registered : IsIdle(h)}
    /\ registered' = {h \in registered : ~IsIdle(h)}
    /\ polled' = now
    /\ UNCHANGED <<idle_after, last_activity, open, seen, now>>

(* The caller closes an expired handle and erases it from its poller. *)
CloseExpired(h) ==
    /\ h \in expired
    /\ expired' = expired \ {h}
    /\ open' = open \ {h}
    /\ UNCHANGED <<idle_after, last_activity, registered, seen, now, polled>>

Tick ==
    /\ expired = {}
    /\ now < MaxTime /\ now - polled < PollPeriod
    /\ now' = now + 1
    /\ UNCHANGED <<idle_after, last_activity, registered, expired, open, seen, polled>>

Next ==
    \/ \E h \in Handles : \/ RegisterConnection(h) \/ UnregisterConnection(h)
                          \/ TouchActivity(h) \/ CloseExpired(h)
    \/ PollExpired \/ Tick

Spec == Init /\ [][Next]_vars

-----------------------------------------------------------------------------
(* No connection outstays its time: with a poll every PollPeriod, an open  *)
(* connection was active less than idle_after + PollPeriod ago, also on a  *)
(* handle that earlier connections used.                                   *)
NobodyOverstays ==
    idle_after # 0 => \A h \in open : now - seen[h] < idle_after + PollPeriod

(* Only idle connections are closed: what poll_expired returns is open and *)
(* was not active for idle_after; with idle_after 0 it returns nothing.    *)
EvictsOnlyIdle ==
    \A h \in expired : /\ h \in open
                       /\ idle_after # 0
                       /\ now - seen[h] >= idle_after

(* The inductive invariant: the registry is exactly the open connections   *)
(* that did not just expire, and its times are the true ones.              *)
IdleInv ==
    /\ TypeOK
    /\ registered = open \ expired /\ expired \subseteq open
    /\ \A h \in open : last_activity[h] = seen[h] /\ seen[h] <= now
    /\ polled <= now /\ now - polled <= PollPeriod
    /\ idle_after # 0 =>
          \A h \in registered : polled - seen[h] < idle_after
    /\ expired # {} => now = polled
    /\ EvictsOnlyIdle
    /\ NobodyOverstays

=============================================================================
