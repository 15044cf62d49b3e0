---------------------------- MODULE InfraProofs ----------------------------
(***************************************************************************)
(* Metrics and logging for any number of threads and calls: the mutexes    *)
(* make counter_add exact and keep log lines intact, whatever configure()  *)
(* does between the check of a setting and the lock.                       *)
(***************************************************************************)
EXTENDS Infra, SequenceTheorems, TLAPS

Places == {"idle", "add_lock", "add_store", "gauge_lock", "log_lock", "log_write"}
Piece == {"level", "msg", "field", "no_key", "newline"}

InfraTypes ==
    /\ counter \in Nat /\ added \in Nat
    /\ at \in [Threads -> Places]
    /\ arg = [t \in Threads |-> arg[t]]
    /\ seen \in [Threads -> Nat]
    /\ stderr \in Seq(Threads \X Piece)

(* A thread is in a critical section exactly while it holds the mutex. *)
LocksHeld ==
    \A t \in Threads : /\ at[t] = "add_store" <=> lock = t
                       /\ at[t] = "log_write" <=> sink_lock = t

(* The counter does not change under a thread that has loaded it. *)
LoadIsCurrent == \A t \in Threads : at[t] = "add_store" => seen[t] = counter

ArgumentsFit ==
    \A t \in Threads :
        /\ at[t] \in {"add_lock", "add_store", "gauge_lock"} =>
              arg[t][1] \in Nat
        /\ at[t] \in {"log_lock", "log_write"} =>
              /\ arg[t] \in Seq(Piece) /\ arg[t] # <<>>
              /\ \A i \in 2..Len(arg[t]) : arg[t][i] # "level"

(* What stands on stderr is the beginning of the line of the thread that   *)
(* holds the mutex, and that thread writes "level" if nothing stands there. *)
LineHasOwner ==
    /\ \A t \in Threads : at[t] = "log_lock" => arg[t][1] = "level"
    /\ \A t \in Threads :
          at[t] = "log_write" => (arg[t][1] = "level" <=> stderr = <<>>)
    /\ \A i \in 1..Len(stderr) : /\ stderr[i][1] = sink_lock
                                 /\ stderr[i][2] = "level" <=> i = 1

InfraInv ==
    /\ InfraTypes /\ LocksHeld /\ LoadIsCurrent /\ ArgumentsFit /\ LineHasOwner
    /\ CounterExact

(***************************************************************************)
(* Addition modulo the width of the counter.                               *)
(***************************************************************************)
LEMMA Division ==
  ASSUME NEW a \in Nat, NEW w \in Nat \ {0}
  PROVE  /\ a \div w \in Nat /\ a % w \in 0..(w - 1)
         /\ a = w * (a \div w) + (a % w)
<1>1. a \div w \in Nat OBVIOUS
<1>2. a % w \in 0..(w - 1) OBVIOUS
<1>3. a = w * (a \div w) + (a % w) OBVIOUS
<1> QED BY <1>1, <1>2, <1>3

LEMMA Remainder ==
  ASSUME NEW q \in Nat, NEW w \in Nat \ {0}, NEW r \in 0..(w - 1)
  PROVE  (w * q + r) % w = r
  OBVIOUS

LEMMA ModuloSum ==
  ASSUME NEW a \in Nat, NEW d \in Nat, NEW w \in Nat \ {0}
  PROVE  ((a % w) + d) % w = (a + d) % w
<1> DEFINE q == a \div w
           r == a % w
           p == (r + d) \div w
           s == (r + d) % w
<1>1. q \in Nat /\ r \in 0..(w - 1) /\ a = w * q + r BY Division
<1>2. r + d \in Nat BY <1>1
<1>3. p \in Nat /\ s \in 0..(w - 1) /\ r + d = w * p + s BY <1>2, Division
<1> HIDE DEF q, r, p, s
<1>4. a + d = w * (q + p) + s BY <1>1, <1>3
<1>5. q + p \in Nat BY <1>1, <1>3
<1>6. (a + d) % w = s BY <1>3, <1>4, <1>5, Remainder
<1> QED BY <1>6 DEF r, s

(***************************************************************************)
(* Sequences: what a line is made of, and what is left after its head.     *)
(***************************************************************************)
LEMMA NonEmpty == ASSUME NEW S, NEW q \in Seq(S), Len(q) > 0 PROVE q # <<>>
  OBVIOUS

LEMMA PiecesOfLine ==
  ASSUME NEW fields \in FieldLists
  PROVE  /\ Pieces(fields) \in Seq(Piece) /\ Pieces(fields) # <<>>
         /\ Pieces(fields)[1] = "level"
         /\ \A i \in 2..Len(Pieces(fields)) : Pieces(fields)[i] # "level"
<1> DEFINE start == <<"level", "msg">>
           rest == fields \o <<"newline">>
<1>1. fields \in Seq({"field", "no_key"}) BY InfraAssumption
<1>2. /\ rest \in Seq({"field", "no_key", "newline"}) /\ Len(rest) \in Nat
      /\ \A i \in 1..Len(rest) : rest[i] \in {"field", "no_key", "newline"}
  BY <1>1, ConcatProperties, ElementOfSeq
<1> HIDE DEF rest
<1>3. /\ start \in Seq(Piece) /\ rest \in Seq(Piece)
      /\ Len(start) = 2 /\ start[1] = "level" /\ start[2] = "msg"
  BY <1>2 DEF Piece
<1>4. Pieces(fields) = start \o rest
  BY <1>1, <1>3, ConcatAssociative DEF Pieces, rest, Piece
<1>5. /\ start \o rest \in Seq(Piece)
      /\ Len(start \o rest) = 2 + Len(rest)
      /\ \A i \in 1..(2 + Len(rest)) :
            (start \o rest)[i] = IF i <= 2 THEN start[i] ELSE rest[i - 2]
  BY <1>2, <1>3, ConcatProperties
<1> HIDE DEF start
<1>6. \A i \in 2..(2 + Len(rest)) : (start \o rest)[i] # "level"
  BY <1>2, <1>3, <1>5
<1> QED BY <1>2, <1>3, <1>4, <1>5, <1>6

(***************************************************************************)
(* Every step preserves the invariant.                                     *)
(***************************************************************************)
LEMMA InitInfra == Init => InfraInv
<1> SUFFICES ASSUME Init PROVE InfraInv OBVIOUS
<1> USE InfraAssumption DEF Init
<1>1. InfraTypes BY DEF InfraTypes, Places
<1>2. LocksHeld BY DEF LocksHeld
<1>3. LoadIsCurrent /\ ArgumentsFit BY DEF LoadIsCurrent, ArgumentsFit
<1>4. LineHasOwner BY DEF LineHasOwner
<1>5. CounterExact BY DEF CounterExact
<1> QED BY <1>1, <1>2, <1>3, <1>4, <1>5 DEF InfraInv

(* A call that has not taken its mutex yet changes only its own place. *)
LEMMA CallStep ==
  ASSUME InfraInv, NEW t \in Threads, NEW label \in {"idle", "add_lock", "gauge_lock", "log_lock"},
         NEW a, Call(t, label, a), UNCHANGED <<metrics, logging>>,
         label \in {"add_lock", "gauge_lock"} => a[1] \in Nat,
         label = "log_lock" => /\ a \in Seq(Piece) /\ a # <<>> /\ a[1] = "level"
                               /\ \A i \in 2..Len(a) : a[i] # "level"
  PROVE  InfraInv'
<1> USE DEF InfraInv, Call, metrics, logging
<1>1. InfraTypes' BY DEF InfraTypes, Places
<1>2. LocksHeld' BY DEF InfraTypes, LocksHeld
<1>3. LoadIsCurrent' BY DEF InfraTypes, LoadIsCurrent
<1>4. ArgumentsFit' BY DEF InfraTypes, ArgumentsFit
<1>5. LineHasOwner' BY DEF InfraTypes, LineHasOwner
<1>6. CounterExact' BY DEF CounterExact
<1> QED BY <1>1, <1>2, <1>3, <1>4, <1>5, <1>6

LEMMA BeginStep == ASSUME InfraInv, NEW t \in Threads, Begin(t) PROVE InfraInv'
<1>1. CASE ConfigureMetrics(t) BY <1>1, CallStep DEF ConfigureMetrics
<1>2. CASE CounterAdd(t)
  <2>1. PICK delta \in Deltas : Call(t, "add_lock", <<delta>>)
    BY <1>2 DEF CounterAdd
  <2>2. <<delta>>[1] \in Nat BY InfraAssumption
  <2> QED BY <1>2, <2>1, <2>2, CallStep DEF CounterAdd
<1>3. CASE GaugeSet(t)
  <2>1. PICK delta \in Deltas : Call(t, "gauge_lock", <<delta>>)
    BY <1>3 DEF GaugeSet
  <2>2. <<delta>>[1] \in Nat BY InfraAssumption
  <2> QED BY <1>3, <2>1, <2>2, CallStep DEF GaugeSet
<1>4. CASE Get(t) BY <1>4, CallStep DEF Get
<1>5. CASE ConfigureLogging(t) BY <1>5, CallStep DEF ConfigureLogging
<1>6. CASE Log(t)
  <2>1. PICK fields \in FieldLists : Call(t, "log_lock", Pieces(fields))
    BY <1>6 DEF Log
  <2> QED BY <1>6, <2>1, PiecesOfLine, CallStep DEF Log
<1> QED BY <1>1, <1>2, <1>3, <1>4, <1>5, <1>6 DEF Begin

LEMMA AddLoadStep == ASSUME InfraInv, NEW t \in Threads, AddLoad(t) PROVE InfraInv'
<1> USE InfraAssumption DEF InfraInv, AddLoad, GoOn, settings, logging
<1>1. InfraTypes' BY DEF InfraTypes, Places
<1>2. LocksHeld' BY DEF InfraTypes, LocksHeld
<1>3. LoadIsCurrent' BY DEF InfraTypes, LoadIsCurrent
<1>4. ArgumentsFit' BY DEF InfraTypes, ArgumentsFit
<1>5. LineHasOwner' BY DEF InfraTypes, LineHasOwner
<1>6. CounterExact' BY DEF CounterExact
<1> QED BY <1>1, <1>2, <1>3, <1>4, <1>5, <1>6

(* The holder of the mutex adds to the current value: no update is lost. *)
LEMMA AddStoreStep == ASSUME InfraInv, NEW t \in Threads, AddStore(t) PROVE InfraInv'
<1> USE InfraAssumption DEF InfraInv, AddStore, Return, GoOn, settings, logging
<1>1. arg[t][1] \in Nat /\ seen[t] = counter /\ counter = added % Wrap
  BY DEF ArgumentsFit, LoadIsCurrent, CounterExact
<1>2. counter' = (added + arg[t][1]) % Wrap
  BY <1>1, ModuloSum DEF InfraTypes
<1>3. CounterExact' BY <1>2 DEF CounterExact
<1>4. InfraTypes'
  <2>1. added' = added + arg[t][1] /\ added' \in Nat BY <1>1 DEF InfraTypes
  <2>2. \A n \in Nat : n % Wrap \in 0..(Wrap - 1) BY Division
  <2>3. added + arg[t][1] \in Nat BY <2>1
  <2>4. (added + arg[t][1]) % Wrap \in 0..(Wrap - 1) BY ONLY <2>2, <2>3
  <2>5. counter' \in 0..(Wrap - 1) BY ONLY <1>2, <2>4
  <2>6. counter' \in Nat BY <2>5, InfraAssumption
  <2>7. at' \in [Threads -> Places] /\ seen' \in [Threads -> Nat]
    BY DEF InfraTypes, Places
  <2>8. arg' = [u \in Threads |-> arg'[u]] BY DEF InfraTypes
  <2> QED BY <2>1, <2>6, <2>7, <2>8 DEF InfraTypes
<1>5. LocksHeld' BY DEF InfraTypes, LocksHeld
<1>6. LoadIsCurrent' BY DEF InfraTypes, LoadIsCurrent, LocksHeld
<1>7. ArgumentsFit' BY DEF InfraTypes, ArgumentsFit
<1>8. LineHasOwner' BY DEF InfraTypes, LineHasOwner
<1> QED BY <1>3, <1>4, <1>5, <1>6, <1>7, <1>8

LEMMA GaugeStoreStep == ASSUME InfraInv, NEW t \in Threads, GaugeStore(t) PROVE InfraInv'
<1> USE DEF InfraInv, GaugeStore, Return, GoOn, settings, logging
<1>1. InfraTypes' BY DEF InfraTypes, Places
<1>2. LocksHeld' BY DEF InfraTypes, LocksHeld
<1>3. LoadIsCurrent' BY DEF InfraTypes, LoadIsCurrent
<1>4. ArgumentsFit' BY DEF InfraTypes, ArgumentsFit
<1>5. LineHasOwner' BY DEF InfraTypes, LineHasOwner
<1>6. CounterExact' BY DEF CounterExact
<1> QED BY <1>1, <1>2, <1>3, <1>4, <1>5, <1>6

LEMMA SinkLockStep == ASSUME InfraInv, NEW t \in Threads, SinkLock(t) PROVE InfraInv'
<1> USE InfraAssumption DEF InfraInv, SinkLock, GoOn, settings, metrics
<1>1. InfraTypes' BY DEF InfraTypes, Places
<1>2. LocksHeld' BY DEF InfraTypes, LocksHeld
<1>3. LoadIsCurrent' BY DEF InfraTypes, LoadIsCurrent
<1>4. ArgumentsFit' BY DEF InfraTypes, ArgumentsFit
<1>5. LineHasOwner'
  <2>1. /\ at[t] = "log_lock" /\ arg[t][1] = "level" /\ arg' = arg /\ stderr' = stderr
        /\ \A u \in Threads \ {t} : at'[u] = at[u]
        /\ sink_lock' = t /\ at'[t] = "log_write"
    BY DEF InfraTypes, LineHasOwner
  <2>2. stderr = <<>> /\ \A i \in 1..Len(stderr) : FALSE
    <3>1. sink_lock = Nobody /\ stderr \in Seq(Threads \X Piece) /\ Len(stderr) \in Nat
      BY LenProperties DEF InfraTypes
    <3>2. \A i \in 1..Len(stderr) : stderr[i][1] \in Threads /\ stderr[i][1] = sink_lock
      BY <3>1, ElementOfSeq DEF LineHasOwner
    <3>3. \A i \in 1..Len(stderr) : FALSE BY <3>1, <3>2
    <3> QED BY <3>1, <3>3, EmptySeq
  <2>3. \A u \in Threads \ {t} : at[u] # "log_write" BY DEF LocksHeld
  <2> QED BY <2>1, <2>2, <2>3 DEF LineHasOwner
<1>6. CounterExact' BY DEF CounterExact
<1> QED BY <1>1, <1>2, <1>3, <1>4, <1>5, <1>6

(* The holder of the mutex continues its own line. *)
LEMMA WritePieceStep == ASSUME InfraInv, NEW t \in Threads, WritePiece(t) PROVE InfraInv'
<1> USE DEF InfraInv, WritePiece, settings, metrics
<1> DEFINE p == Head(arg[t])
<1>1. arg[t] \in Seq(Piece) /\ arg[t] # <<>> BY DEF ArgumentsFit
<1>2. /\ p = arg[t][1] /\ p \in Piece
      /\ Tail(arg[t]) \in Seq(Piece) /\ Len(Tail(arg[t])) = Len(arg[t]) - 1
      /\ \A i \in 1..(Len(arg[t]) - 1) : Tail(arg[t])[i] = arg[t][i + 1]
      /\ Len(arg[t]) \in Nat
  BY <1>1, HeadTailProperties, ElementOfSeq, LenProperties
<1>3. /\ Tail(arg[t]) # <<>> /\ Tail(arg[t])[1] # "level"
      /\ \A i \in 2..Len(Tail(arg[t])) : Tail(arg[t])[i] # "level"
  <2>1. \A i \in 2..Len(arg[t]) : arg[t][i] # "level" BY DEF ArgumentsFit
  <2>2. Len(Tail(arg[t])) > 0 BY <1>2
  <2>3. \A i \in 1..Len(Tail(arg[t])) : Tail(arg[t])[i] # "level"
    BY <1>2, <2>1
  <2>4. Tail(arg[t]) # <<>> BY ONLY <1>2, <2>2, NonEmpty
  <2>5. 1 \in 1..Len(Tail(arg[t])) /\ 2..Len(Tail(arg[t])) \subseteq 1..Len(Tail(arg[t]))
    BY <1>2, <2>2
  <2> QED BY <2>3, <2>4, <2>5
<1>4. /\ arg' = [arg EXCEPT ![t] = Tail(arg[t])]
      /\ arg'[t] = Tail(arg[t]) /\ \A u \in Threads : u # t => arg'[u] = arg[u]
  BY DEF InfraTypes
<1>5. sink_lock = t /\ sink_lock' = t /\ at' = at BY DEF LocksHeld
<1>6. /\ stderr' \in Seq(Threads \X Piece) /\ stderr' # <<>>
      /\ \A i \in 1..Len(stderr') : /\ stderr'[i][1] = t
                                    /\ stderr'[i][2] = "level" <=> i = 1
  <2>1. CASE p = "no_key"
    <3>1. stderr' = stderr BY <2>1
    <3>2. stderr # <<>> BY <1>2, <2>1 DEF LineHasOwner
    <3> QED BY <1>5, <3>1, <3>2 DEF LineHasOwner, InfraTypes
  <2>2. CASE p # "no_key"
    <3>1. stderr' = Append(stderr, <<t, p>>) BY <2>2
    <3>2. <<t, p>> \in Threads \X Piece BY <1>2
    <3>3. /\ stderr' \in Seq(Threads \X Piece) /\ stderr' # <<>>
          /\ Len(stderr') = Len(stderr) + 1 /\ Len(stderr) \in Nat
          /\ \A i \in 1..Len(stderr) : stderr'[i] = stderr[i]
          /\ stderr'[Len(stderr) + 1] = <<t, p>>
      BY <3>1, <3>2, AppendProperties, LenProperties DEF InfraTypes
    <3>4. p = "level" <=> Len(stderr) = 0
      BY <1>2, EmptySeq DEF LineHasOwner, InfraTypes
    <3>5. ASSUME NEW i \in 1..Len(stderr')
          PROVE  stderr'[i][1] = t /\ (stderr'[i][2] = "level" <=> i = 1)
      <4>1. CASE i = Len(stderr) + 1 BY <3>3, <3>4, <4>1
      <4>2. CASE i \in 1..Len(stderr) BY <1>5, <3>3, <4>2 DEF LineHasOwner
      <4> QED BY <3>3, <4>1, <4>2
    <3> QED BY <3>3, <3>5
  <2> QED BY <2>1, <2>2
<1>7. InfraTypes' BY <1>4, <1>6 DEF InfraTypes
<1>8. LocksHeld' BY <1>5 DEF LocksHeld
<1>9. LoadIsCurrent' BY DEF LoadIsCurrent
<1>10. ArgumentsFit'
  <2>1. \A u \in Threads : u # t => arg'[u] = arg[u] BY <1>4
  <2> QED BY <1>2, <1>3, <1>4, <1>5, <2>1 DEF ArgumentsFit
<1>11. LineHasOwner'
  <2>1. \A u \in Threads : at'[u] = "log_lock" => arg'[u][1] = "level"
    BY <1>4, <1>5 DEF LineHasOwner
  <2>2. \A u \in Threads : at'[u] = "log_write" => u = t BY <1>5 DEF LocksHeld
  <2>3. arg'[t][1] # "level" BY <1>3, <1>4
  <2> QED BY <1>5, <1>6, <2>1, <2>2, <2>3 DEF LineHasOwner
<1>12. CounterExact' BY DEF CounterExact
<1> QED BY <1>7, <1>8, <1>9, <1>10, <1>11, <1>12

LEMMA EndLineStep == ASSUME InfraInv, NEW t \in Threads, EndLine(t) PROVE InfraInv'
<1> USE InfraAssumption DEF InfraInv, EndLine, Return, GoOn, settings, metrics
<1>1. InfraTypes'
  <2>1. stderr' \in Seq(Threads \X Piece) OBVIOUS
  <2>2. at' \in [Threads -> Places] /\ seen' \in [Threads -> Nat]
    BY DEF InfraTypes, Places
  <2>3. arg' = [u \in Threads |-> arg'[u]] BY DEF InfraTypes
  <2> QED BY <2>1, <2>2, <2>3 DEF InfraTypes
<1>2. LocksHeld' BY DEF InfraTypes, LocksHeld
<1>3. LoadIsCurrent' BY DEF InfraTypes, LoadIsCurrent
<1>4. ArgumentsFit' BY DEF InfraTypes, ArgumentsFit
<1>5. LineHasOwner' BY DEF InfraTypes, LocksHeld, LineHasOwner
<1>6. CounterExact' BY DEF CounterExact
<1> QED BY <1>1, <1>2, <1>3, <1>4, <1>5, <1>6

LEMMA NextInfra == InfraInv /\ [Next]_vars => InfraInv'
<1> SUFFICES ASSUME InfraInv, [Next]_vars PROVE InfraInv' OBVIOUS
<1>1. CASE UNCHANGED vars
  BY <1>1 DEF vars, metrics, logging, locals, InfraInv, InfraTypes, LocksHeld,
              LoadIsCurrent, ArgumentsFit, LineHasOwner, CounterExact
<1>2. ASSUME NEW t \in Threads, Continue(t) PROVE InfraInv'
  BY <1>2, AddLoadStep, AddStoreStep, GaugeStoreStep, SinkLockStep, WritePieceStep,
     EndLineStep DEF Continue
<1> QED BY <1>1, <1>2, BeginStep DEF Next

LEMMA InfraInvariant == Spec => []InfraInv
  BY InitInfra, NextInfra, PTL DEF Spec

(***************************************************************************)
(* The theorems.                                                           *)
(***************************************************************************)
(* counter_add never loses an update of another thread, with any number of *)
(* threads, and wraps around exactly.                                      *)
THEOREM CountersAreExact == Spec => []CounterExact
  BY InfraInvariant, PTL DEF InfraInv

(* log() never mixes the lines of two threads. *)
THEOREM LogLinesAreIntact == Spec => []LinesIntact
<1>1. ASSUME InfraInv PROVE LinesIntact
  <2>1. \A i \in 1..Len(stderr) : /\ stderr[i][1] = sink_lock
                                  /\ stderr[i][2] = "level" <=> i = 1
    BY <1>1 DEF InfraInv, LineHasOwner
  <2>2. DOMAIN stderr = 1..Len(stderr) BY <1>1, LenProperties DEF InfraInv, InfraTypes
  <2> QED BY <2>1, <2>2 DEF LinesIntact
<1> QED BY <1>1, InfraInvariant, PTL

=============================================================================
