------------------------------- MODULE Infra -------------------------------
(***************************************************************************)
(* The two process-wide facilities that every thread may call at any time: *)
(* metrics (metrics.cpp) and logging (logging.cpp).  Each has an atomic    *)
(* setting that a call looks at before it takes the facility's mutex, and  *)
(* that configure() may change in between.                                 *)
(*                                                                         *)
(* What a call does under the mutex is split where another thread could    *)
(* see it half done: `+=` on a counter is a load and a store, and a line   *)
(* goes to stderr piece by piece.                                          *)
(*                                                                         *)
(* Data.  There is one counter and one gauge: calls for different names    *)
(* share only the mutex.  A line is its thread and the pieces log() writes *)
(* one after the other; quoting and escaping within a piece are left out.  *)
(***************************************************************************)
EXTENDS Naturals, Sequences

CONSTANTS
    Threads, Nobody,
    Deltas,       \* arguments of counter_add
    Wrap,         \* 2^64, scaled
    Levels,       \* an interval of LogLevel
    FieldLists,   \* fields given to log(): "field", or "no_key" if its key is empty
    MaxCalls      \* bound: calls of each thread

ASSUME InfraAssumption ==
    /\ Nobody \notin Threads
    /\ Deltas \subseteq Nat /\ Wrap \in Nat \ {0}
    /\ Levels \subseteq Nat /\ MaxCalls \in Nat
    /\ FieldLists \subseteq Seq({"field", "no_key"})

VARIABLES
    enabled,    \* enabled_flag
    level,      \* level_ref
    counter,    \* counters_ref()[name]
    gauge,      \* gauges_ref()[name]
    stderr,     \* pieces written, of lines that are not complete
    lock,       \* lock_ref: the thread that holds it
    sink_lock,  \* sink_mutex_ref
    at,         \* where each thread is
    arg,        \* its delta, gauge value, or the pieces it has still to write
    seen,       \* the counter as it loaded it
    calls,      \* history: calls each thread has made
    added       \* history: sum of the deltas of the calls that returned

settings == <<enabled, level>>
metrics == <<counter, gauge, lock, added>>
logging == <<stderr, sink_lock>>
locals == <<at, arg, seen, calls>>
vars == <<settings, metrics, logging, locals>>

Init ==
    /\ enabled = FALSE /\ level \in Levels
    /\ counter = 0 /\ gauge = 0 /\ stderr = <<>>
    /\ lock = Nobody /\ sink_lock = Nobody
    /\ at = [t \in Threads |-> "idle"]
    /\ arg = [t \in Threads |-> <<>>]
    /\ seen = [t \in Threads |-> 0]
    /\ calls = [t \in Threads |-> 0] /\ added = 0

(* A thread enters a function, and moves on in it. *)
Call(t, label, a) ==
    /\ at[t] = "idle" /\ calls[t] < MaxCalls
    /\ calls' = [calls EXCEPT ![t] = @ + 1]
    /\ at' = [at EXCEPT ![t] = label]
    /\ arg' = [arg EXCEPT ![t] = a]
    /\ UNCHANGED seen

GoOn(t, from, to) == at[t] = from /\ at' = [at EXCEPT ![t] = to]

(* It returns, and its local state is gone. *)
Return(t, from) ==
    /\ GoOn(t, from, "idle")
    /\ arg' = [arg EXCEPT ![t] = <<>>]
    /\ seen' = [seen EXCEPT ![t] = 0]
    /\ UNCHANGED calls

(***************************************************************************)
(* metrics.                                                                *)
(***************************************************************************)
ConfigureMetrics(t) ==
    /\ Call(t, "idle", <<>>)
    /\ enabled' \in BOOLEAN
    /\ UNCHANGED <<level, metrics, logging>>

(* The calls that find metrics disabled return without any effect. *)
CounterAdd(t) ==
    /\ enabled
    /\ \E delta \in Deltas : Call(t, "add_lock", <<delta>>)
    /\ UNCHANGED <<settings, metrics, logging>>

GaugeSet(t) ==
    /\ enabled
    /\ \E value \in Deltas : Call(t, "gauge_lock", <<value>>)
    /\ UNCHANGED <<settings, metrics, logging>>

(* Fault: the mutex is left out. *)
AddUnlocked(t) ==
    /\ GoOn(t, "add_lock", "add_store")
    /\ seen' = [seen EXCEPT ![t] = counter]
    /\ UNCHANGED <<settings, counter, gauge, lock, added, logging, arg, calls>>

AddLoad(t) ==
    /\ lock = Nobody
    /\ GoOn(t, "add_lock", "add_store")
    /\ lock' = t
    /\ seen' = [seen EXCEPT ![t] = counter]
    /\ UNCHANGED <<settings, counter, gauge, added, logging, arg, calls>>

AddStore(t) ==
    /\ Return(t, "add_store")
    /\ counter' = (seen[t] + arg[t][1]) % Wrap
    /\ added' = added + arg[t][1]
    /\ lock' = Nobody
    /\ UNCHANGED <<settings, gauge, logging>>

GaugeStore(t) ==
    /\ lock = Nobody
    /\ Return(t, "gauge_lock")
    /\ gauge' = arg[t][1]
    /\ UNCHANGED <<settings, counter, lock, added, logging>>

(* counter_get and gauge_get read under the mutex, enabled or not. *)
Get(t) ==
    /\ lock = Nobody
    /\ Call(t, "idle", <<>>)
    /\ UNCHANGED <<settings, metrics, logging>>

(***************************************************************************)
(* logging.                                                                *)
(***************************************************************************)
ConfigureLogging(t) ==
    /\ Call(t, "idle", <<>>)
    /\ level' \in Levels
    /\ UNCHANGED <<enabled, metrics, logging>>

(* What log() goes through: level, message, the fields, the end of line. *)
Pieces(fields) == <<"level", "msg">> \o fields \o <<"newline">>

(* The calls below the level return without any effect. *)
Log(t) ==
    /\ \E l \in Levels, fields \in FieldLists :
          l >= level /\ Call(t, "log_lock", Pieces(fields))
    /\ UNCHANGED <<settings, metrics, logging>>

(* Fault: the mutex is left out. *)
SinkUnlocked(t) ==
    /\ GoOn(t, "log_lock", "log_write")
    /\ UNCHANGED <<settings, metrics, stderr, sink_lock, arg, seen, calls>>

SinkLock(t) ==
    /\ sink_lock = Nobody
    /\ GoOn(t, "log_lock", "log_write")
    /\ sink_lock' = t
    /\ UNCHANGED <<settings, metrics, stderr, arg, seen, calls>>

(* A piece that is not the last; a field without a key is skipped.         *)
(* (stderr also shows whose a piece is.)                                   *)
WritePiece(t) ==
    /\ at[t] = "log_write" /\ Len(arg[t]) > 1
    /\ stderr' = IF Head(arg[t]) = "no_key" THEN stderr
                                            ELSE Append(stderr, <<t, Head(arg[t])>>)
    /\ arg' = [arg EXCEPT ![t] = Tail(@)]
    /\ UNCHANGED <<settings, metrics, sink_lock, at, seen, calls>>

(* The end of the line: what stands there is taken for one line. *)
EndLine(t) ==
    /\ Return(t, "log_write")
    /\ Len(arg[t]) = 1
    /\ stderr' = <<>>
    /\ sink_lock' = Nobody
    /\ UNCHANGED <<settings, metrics>>

-----------------------------------------------------------------------------
Begin(t) ==
    \/ ConfigureMetrics(t) \/ CounterAdd(t) \/ GaugeSet(t) \/ Get(t)
    \/ ConfigureLogging(t) \/ Log(t)

Continue(t) ==
    \/ AddLoad(t) \/ AddStore(t) \/ GaugeStore(t)
    \/ SinkLock(t) \/ WritePiece(t) \/ EndLine(t)

Next == \E t \in Threads : Begin(t) \/ Continue(t)

Spec == Init /\ [][Next]_vars

-----------------------------------------------------------------------------
(* The counter is the sum, modulo its width, of every counter_add that has *)
(* returned: no update is lost between threads, whatever configure() does  *)
(* to the setting while calls are under way.                               *)
CounterExact == counter = added % Wrap

(* "Guard writes to keep lines intact": what has been written since the    *)
(* last end of line is the beginning of the line of one thread.            *)
LinesIntact ==
    \A i, j \in DOMAIN stderr :
        /\ stderr[i][1] = stderr[j][1]
        /\ stderr[i][2] = "level" <=> i = 1

=============================================================================
