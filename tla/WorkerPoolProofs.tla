-------------------------- MODULE WorkerPoolProofs --------------------------
(***************************************************************************)
(* WorkerPool, for every number of threads, every capacity and every       *)
(* combination of overflow policies, in three parts: PoolInv (where the    *)
(* threads are) is inductive; OrderInv (where the tasks are) is, given     *)
(* PoolInv; and with both every step is a step of PoolContract.            *)
(***************************************************************************)
EXTENDS WorkerPool, SequenceTheorems, FiniteSetTheorems, TLAPS

(* The effective capacity of results_ is never zero, so the constructor's  *)
(* third check cannot fire once the second has passed.                     *)
LEMMA ResultCapacityPositive == ResultCapacity \in Nat \ {0}
  BY PoolAssumption DEF ResultCapacity

(* The eviction loop drops at most the oldest result and leaves room. *)
LEMMA EvictedFacts ==
  ASSUME TypeOK, WithinCapacity
  PROVE  /\ Evicted \in Seq(1..MaxTasks)
         /\ Len(Evicted) <= Len(results)
         /\ ~Blocking => Len(Evicted) < ResultCapacity
         /\ Blocking => Evicted = results
         /\ Evicted # results => results # <<>> /\ Evicted = Tail(results)
<1> USE ResultCapacityPositive
<1>1. CASE Blocking \/ HasRoom
  BY <1>1 DEF Evicted, HasRoom, TypeOK
<1>2. CASE ~(Blocking \/ HasRoom)
  <2>1. Len(results) = ResultCapacity /\ Len(results) \in Nat \ {0} /\ results # <<>>
    BY <1>2 DEF HasRoom, TypeOK, WithinCapacity
  <2>2. Evicted = SubSeq(results, 2, Len(results))
    BY <1>2, <2>1 DEF Evicted
  <2>3. Evicted = Tail(results)
    BY <2>1, <2>2, TailIsSubSeq DEF TypeOK
  <2>4. Evicted \in Seq(1..MaxTasks) /\ Len(Evicted) = Len(results) - 1
    BY <2>1, <2>3, HeadTailProperties DEF TypeOK
  <2> QED BY <1>2, <2>1, <2>3, <2>4
<1> QED BY <1>1, <1>2

(* The constructor establishes the invariant. *)
LEMMA InitPoolInv == Init => PoolInv
<1> SUFFICES ASSUME Init PROVE PoolInv OBVIOUS
<1> USE PoolAssumption, ResultCapacityPositive DEF Init
<1>1. TypeOK
  <2>1. tasks \in Seq(1..MaxTasks) /\ results \in Seq(1..MaxTasks) OBVIOUS
  <2>2. accepted \in 0..MaxTasks OBVIOUS
  <2>3. answered \in SUBSET (1..MaxTasks) /\ missed \in SUBSET Workers OBVIOUS
  <2>4. stop \in BOOLEAN OBVIOUS
  <2> QED BY <2>1, <2>2, <2>3, <2>4 DEF TypeOK, WorkerAt, CallerAt, StopperAt
<1>2. HandMatchesPlace BY DEF HandMatchesPlace
<1>3. WindowIsClosed BY DEF WindowIsClosed, At
<1>4. StopHasOwner BY DEF StopHasOwner
<1>5. WithinCapacity BY DEF WithinCapacity
<1>6. NoMissedTaskWakeup BY DEF NoMissedTaskWakeup
<1>7. NoMissedResultWakeup BY DEF NoMissedResultWakeup, At
<1>8. SleepersWereMissed BY DEF SleepersWereMissed
<1> QED BY <1>1, <1>2, <1>3, <1>4, <1>5, <1>6, <1>7, <1>8 DEF PoolInv

(***************************************************************************)
(* Submitting threads.                                                     *)
(***************************************************************************)
LEMMA TrySubmitStep ==
  ASSUME PoolInv, NEW s \in Submitters, TrySubmit(s)
  PROVE  PoolInv'
<1> USE PoolAssumption, ResultCapacityPositive DEF PoolInv, TrySubmit, At, TypeOK, TaskMutexFree
<1>1. TypeOK'
  <2>1. tasks' \in Seq(1..MaxTasks)
    <3>1. accepted + 1 \in 1..MaxTasks OBVIOUS
    <3>2. CASE Len(tasks) < QueueCapacity
      <4>1. tasks' = Append(tasks, accepted + 1) BY <3>2
      <4> QED BY <3>1, <4>1, AppendProperties
    <3>3. CASE Len(tasks) >= QueueCapacity
      <4>1. tasks # <<>> BY <3>3
      <4>2. Tail(tasks) \in Seq(1..MaxTasks) BY <4>1, HeadTailProperties
      <4>3. tasks' = Append(Tail(tasks), accepted + 1) BY <3>3
      <4> QED BY <3>1, <4>2, <4>3, AppendProperties
    <3> QED BY <3>2, <3>3
  <2>2. accepted' \in 0..MaxTasks /\ submitter' \in [Submitters -> CallerAt]
    BY DEF CallerAt
  <2> QED BY <2>1, <2>2
<1>2. HandMatchesPlace' BY DEF HandMatchesPlace
<1>3. WindowIsClosed' BY DEF WindowIsClosed, HasRoom, Blocking
<1>4. StopHasOwner' BY DEF StopHasOwner
<1>5. WithinCapacity' BY DEF WithinCapacity
<1>6. NoMissedTaskWakeup' BY DEF NoMissedTaskWakeup
<1>7. NoMissedResultWakeup' BY DEF NoMissedResultWakeup, HasRoom
<1>8. SleepersWereMissed' BY DEF SleepersWereMissed
<1> QED BY <1>1, <1>2, <1>3, <1>4, <1>5, <1>6, <1>7, <1>8

LEMMA SubmitNotifyStep ==
  ASSUME PoolInv, NEW s \in Submitters, SubmitNotify(s)
  PROVE  PoolInv'
<1> USE PoolAssumption, ResultCapacityPositive DEF PoolInv, SubmitNotify, At, TypeOK, NotifyOne, Move
<1>1. TypeOK' BY DEF WorkerAt, CallerAt, StopperAt
<1>2. HandMatchesPlace' BY DEF HandMatchesPlace
<1>3. WindowIsClosed' BY DEF WindowIsClosed, HasRoom, Blocking
<1>4. StopHasOwner' BY DEF StopHasOwner
<1>5. WithinCapacity' BY DEF WithinCapacity
<1>6. NoMissedTaskWakeup' BY DEF NoMissedTaskWakeup
<1>7. NoMissedResultWakeup' BY DEF NoMissedResultWakeup, HasRoom
<1>8. SleepersWereMissed' BY DEF SleepersWereMissed
<1> QED BY <1>1, <1>2, <1>3, <1>4, <1>5, <1>6, <1>7, <1>8

(***************************************************************************)
(* Popping threads.                                                        *)
(***************************************************************************)
LEMMA TryPopResultStep ==
  ASSUME PoolInv, NEW p \in Poppers, TryPopResult(p)
  PROVE  PoolInv'
<1> USE PoolAssumption, ResultCapacityPositive DEF PoolInv, TryPopResult, At, TypeOK, ResultMutexFree
<1>1. TypeOK'
  <2>1. results' \in Seq(1..MaxTasks) /\ Head(results) \in 1..MaxTasks
    BY HeadTailProperties
  <2>2. popper' \in [Poppers -> CallerAt]
    BY DEF CallerAt
  <2> QED BY <2>1, <2>2
<1>2. HandMatchesPlace' BY HeadTailProperties DEF HandMatchesPlace
<1>3. WindowIsClosed' BY HeadTailProperties DEF WindowIsClosed, HasRoom, Blocking
<1>4. StopHasOwner' BY HeadTailProperties DEF StopHasOwner
<1>5. WithinCapacity' BY HeadTailProperties DEF WithinCapacity
<1>6. NoMissedTaskWakeup' BY HeadTailProperties DEF NoMissedTaskWakeup
<1>7. NoMissedResultWakeup' BY HeadTailProperties DEF NoMissedResultWakeup, HasRoom
<1>8. SleepersWereMissed' BY HeadTailProperties DEF SleepersWereMissed
<1> QED BY <1>1, <1>2, <1>3, <1>4, <1>5, <1>6, <1>7, <1>8

LEMMA PopNotifyStep ==
  ASSUME PoolInv, NEW p \in Poppers, PopNotify(p)
  PROVE  PoolInv'
<1> USE PoolAssumption, ResultCapacityPositive DEF PoolInv, PopNotify, At, TypeOK, NotifyAll
<1>1. TypeOK' BY DEF WorkerAt, CallerAt, StopperAt
<1>2. HandMatchesPlace' BY DEF HandMatchesPlace
<1>3. WindowIsClosed' BY DEF WindowIsClosed, HasRoom, Blocking
<1>4. StopHasOwner' BY DEF StopHasOwner
<1>5. WithinCapacity' BY DEF WithinCapacity
<1>6. NoMissedTaskWakeup' BY DEF NoMissedTaskWakeup
<1>7. NoMissedResultWakeup' BY DEF NoMissedResultWakeup, HasRoom
<1>8. SleepersWereMissed' BY DEF SleepersWereMissed
<1> QED BY <1>1, <1>2, <1>3, <1>4, <1>5, <1>6, <1>7, <1>8

(***************************************************************************)
(* Stopping threads.                                                       *)
(***************************************************************************)
LEMMA ShutdownExchangeStep ==
  ASSUME PoolInv, NEW x \in Stoppers, ShutdownExchange(x)
  PROVE  PoolInv'
<1> USE PoolAssumption, ResultCapacityPositive DEF PoolInv, ShutdownExchange, At, TypeOK
<1>1. TypeOK' BY DEF WorkerAt, CallerAt, StopperAt
<1>2. HandMatchesPlace' BY DEF HandMatchesPlace
<1>3. WindowIsClosed' BY DEF WindowIsClosed, HasRoom, Blocking
<1>4. StopHasOwner' BY DEF StopHasOwner
<1>5. WithinCapacity' BY DEF WithinCapacity
<1>6. NoMissedTaskWakeup' BY DEF NoMissedTaskWakeup
<1>7. NoMissedResultWakeup' BY DEF NoMissedResultWakeup, HasRoom
<1>8. SleepersWereMissed' BY DEF SleepersWereMissed
<1> QED BY <1>1, <1>2, <1>3, <1>4, <1>5, <1>6, <1>7, <1>8

LEMMA ShutdownNotifyTasksStep ==
  ASSUME PoolInv, NEW x \in Stoppers, ShutdownNotifyTasks(x)
  PROVE  PoolInv'
<1> USE PoolAssumption, ResultCapacityPositive DEF PoolInv, ShutdownNotifyTasks, At, TypeOK, NotifyAll
<1>1. TypeOK' BY DEF WorkerAt, CallerAt, StopperAt
<1>2. HandMatchesPlace' BY DEF HandMatchesPlace
<1>3. WindowIsClosed' BY DEF WindowIsClosed, HasRoom, Blocking
<1>4. StopHasOwner' BY DEF StopHasOwner
<1>5. WithinCapacity' BY DEF WithinCapacity
<1>6. NoMissedTaskWakeup' BY DEF NoMissedTaskWakeup
<1>7. NoMissedResultWakeup' BY DEF NoMissedResultWakeup, HasRoom
<1>8. SleepersWereMissed' BY DEF SleepersWereMissed
<1> QED BY <1>1, <1>2, <1>3, <1>4, <1>5, <1>6, <1>7, <1>8

LEMMA ShutdownNotifyResultsStep ==
  ASSUME PoolInv, NEW x \in Stoppers, ShutdownNotifyResults(x)
  PROVE  PoolInv'
<1> USE PoolAssumption, ResultCapacityPositive DEF PoolInv, ShutdownNotifyResults, At, TypeOK, NotifyAll
<1>1. TypeOK' BY DEF WorkerAt, CallerAt, StopperAt
<1>2. HandMatchesPlace' BY DEF HandMatchesPlace
<1>3. WindowIsClosed' BY DEF WindowIsClosed, HasRoom, Blocking
<1>4. StopHasOwner' BY DEF StopHasOwner
<1>5. WithinCapacity' BY DEF WithinCapacity
<1>6. NoMissedTaskWakeup' BY DEF NoMissedTaskWakeup
<1>7. NoMissedResultWakeup' BY DEF NoMissedResultWakeup, HasRoom
<1>8. SleepersWereMissed' BY DEF SleepersWereMissed
<1> QED BY <1>1, <1>2, <1>3, <1>4, <1>5, <1>6, <1>7, <1>8

LEMMA ShutdownJoinStep ==
  ASSUME PoolInv, NEW x \in Stoppers, ShutdownJoin(x)
  PROVE  PoolInv'
<1> USE PoolAssumption, ResultCapacityPositive DEF PoolInv, ShutdownJoin, At, TypeOK
<1>1. TypeOK' BY DEF WorkerAt, CallerAt, StopperAt
<1>2. HandMatchesPlace' BY DEF HandMatchesPlace
<1>3. WindowIsClosed' BY DEF WindowIsClosed, HasRoom, Blocking
<1>4. StopHasOwner' BY DEF StopHasOwner
<1>5. WithinCapacity' BY DEF WithinCapacity
<1>6. NoMissedTaskWakeup' BY DEF NoMissedTaskWakeup
<1>7. NoMissedResultWakeup' BY DEF NoMissedResultWakeup, HasRoom
<1>8. SleepersWereMissed' BY DEF SleepersWereMissed
<1> QED BY <1>1, <1>2, <1>3, <1>4, <1>5, <1>6, <1>7, <1>8

(***************************************************************************)
(* Workers.                                                                *)
(***************************************************************************)
LEMMA WaitForTaskStep ==
  ASSUME PoolInv, NEW w \in Workers, WaitForTask(w)
  PROVE  PoolInv'
<1> USE PoolAssumption, ResultCapacityPositive DEF PoolInv, WaitForTask, At, TypeOK, TaskMutexFree, Move
<1>1. TypeOK' BY DEF WorkerAt, CallerAt, StopperAt
<1>2. HandMatchesPlace' BY DEF HandMatchesPlace
<1>3. WindowIsClosed' BY DEF WindowIsClosed, HasRoom, Blocking
<1>4. StopHasOwner' BY DEF StopHasOwner
<1>5. WithinCapacity' BY DEF WithinCapacity
<1>6. NoMissedTaskWakeup' BY DEF NoMissedTaskWakeup
<1>7. NoMissedResultWakeup' BY DEF NoMissedResultWakeup, HasRoom
<1>8. SleepersWereMissed' BY DEF SleepersWereMissed, StopHasOwner
<1> QED BY <1>1, <1>2, <1>3, <1>4, <1>5, <1>6, <1>7, <1>8

LEMMA SleepOnTaskStep ==
  ASSUME PoolInv, NEW w \in Workers, SleepOnTask(w)
  PROVE  PoolInv'
<1> USE PoolAssumption, ResultCapacityPositive DEF PoolInv, SleepOnTask, At, TypeOK, Move
<1>1. TypeOK' BY DEF WorkerAt, CallerAt, StopperAt
<1>2. HandMatchesPlace' BY DEF HandMatchesPlace
<1>3. WindowIsClosed' BY DEF WindowIsClosed, HasRoom, Blocking
<1>4. StopHasOwner' BY DEF StopHasOwner
<1>5. WithinCapacity' BY DEF WithinCapacity
<1>6. NoMissedTaskWakeup' BY DEF NoMissedTaskWakeup, WindowIsClosed
<1>7. NoMissedResultWakeup' BY DEF NoMissedResultWakeup, HasRoom
<1>8. SleepersWereMissed' BY DEF SleepersWereMissed
<1> QED BY <1>1, <1>2, <1>3, <1>4, <1>5, <1>6, <1>7, <1>8

LEMMA ExitIdleStep ==
  ASSUME PoolInv, NEW w \in Workers, ExitIdle(w)
  PROVE  PoolInv'
<1> USE PoolAssumption, ResultCapacityPositive DEF PoolInv, ExitIdle, At, TypeOK, TaskMutexFree, Move
<1>1. TypeOK' BY DEF WorkerAt, CallerAt, StopperAt
<1>2. HandMatchesPlace' BY DEF HandMatchesPlace
<1>3. WindowIsClosed' BY DEF WindowIsClosed, HasRoom, Blocking
<1>4. StopHasOwner' BY DEF StopHasOwner
<1>5. WithinCapacity' BY DEF WithinCapacity
<1>6. NoMissedTaskWakeup' BY DEF NoMissedTaskWakeup
<1>7. NoMissedResultWakeup' BY DEF NoMissedResultWakeup, HasRoom
<1>8. SleepersWereMissed' BY DEF SleepersWereMissed
<1> QED BY <1>1, <1>2, <1>3, <1>4, <1>5, <1>6, <1>7, <1>8

LEMMA TakeTaskStep ==
  ASSUME PoolInv, NEW w \in Workers, TakeTask(w)
  PROVE  PoolInv'
<1> USE PoolAssumption, ResultCapacityPositive DEF PoolInv, TakeTask, At, TypeOK, TaskMutexFree, Move
<1>1. TypeOK' BY HeadTailProperties DEF WorkerAt, CallerAt, StopperAt
<1>2. HandMatchesPlace' BY HeadTailProperties DEF HandMatchesPlace
<1>3. WindowIsClosed' BY HeadTailProperties DEF WindowIsClosed, HasRoom, Blocking
<1>4. StopHasOwner' BY HeadTailProperties DEF StopHasOwner
<1>5. WithinCapacity' BY HeadTailProperties DEF WithinCapacity
<1>6. NoMissedTaskWakeup' BY HeadTailProperties DEF NoMissedTaskWakeup
<1>7. NoMissedResultWakeup' BY HeadTailProperties DEF NoMissedResultWakeup, HasRoom
<1>8. SleepersWereMissed' BY HeadTailProperties DEF SleepersWereMissed
<1> QED BY <1>1, <1>2, <1>3, <1>4, <1>5, <1>6, <1>7, <1>8

LEMMA TakeNotifyStep ==
  ASSUME PoolInv, NEW w \in Workers, TakeNotify(w)
  PROVE  PoolInv'
<1> USE PoolAssumption, ResultCapacityPositive DEF PoolInv, TakeNotify, At, TypeOK
<1>1. TypeOK' BY DEF WorkerAt, CallerAt, StopperAt
<1>2. HandMatchesPlace' BY DEF HandMatchesPlace
<1>3. WindowIsClosed' BY DEF WindowIsClosed, HasRoom, Blocking
<1>4. StopHasOwner' BY DEF StopHasOwner
<1>5. WithinCapacity' BY DEF WithinCapacity
<1>6. NoMissedTaskWakeup' BY DEF NoMissedTaskWakeup
<1>7. NoMissedResultWakeup' BY DEF NoMissedResultWakeup, HasRoom
<1>8. SleepersWereMissed' BY DEF SleepersWereMissed
<1> QED BY <1>1, <1>2, <1>3, <1>4, <1>5, <1>6, <1>7, <1>8

LEMMA DispatchStep ==
  ASSUME PoolInv, NEW w \in Workers, Dispatch(w)
  PROVE  PoolInv'
<1> USE PoolAssumption, ResultCapacityPositive DEF PoolInv, Dispatch, At, TypeOK, Move
<1>1. TypeOK' BY DEF WorkerAt, CallerAt, StopperAt
<1>2. HandMatchesPlace' BY DEF HandMatchesPlace
<1>3. WindowIsClosed' BY DEF WindowIsClosed, HasRoom, Blocking
<1>4. StopHasOwner' BY DEF StopHasOwner
<1>5. WithinCapacity' BY DEF WithinCapacity
<1>6. NoMissedTaskWakeup' BY DEF NoMissedTaskWakeup
<1>7. NoMissedResultWakeup' BY DEF NoMissedResultWakeup, HasRoom
<1>8. SleepersWereMissed' BY DEF SleepersWereMissed
<1> QED BY <1>1, <1>2, <1>3, <1>4, <1>5, <1>6, <1>7, <1>8

LEMMA WaitForRoomStep ==
  ASSUME PoolInv, NEW w \in Workers, WaitForRoom(w)
  PROVE  PoolInv'
<1> USE PoolAssumption, ResultCapacityPositive DEF PoolInv, WaitForRoom, At, TypeOK, ResultMutexFree, Move
<1>1. TypeOK' BY DEF WorkerAt, CallerAt, StopperAt
<1>2. HandMatchesPlace' BY DEF HandMatchesPlace
<1>3. WindowIsClosed' BY DEF WindowIsClosed, HasRoom, Blocking
<1>4. StopHasOwner' BY DEF StopHasOwner
<1>5. WithinCapacity' BY DEF WithinCapacity
<1>6. NoMissedTaskWakeup' BY DEF NoMissedTaskWakeup
<1>7. NoMissedResultWakeup' BY DEF NoMissedResultWakeup, HasRoom
<1>8. SleepersWereMissed' BY DEF SleepersWereMissed, StopHasOwner
<1> QED BY <1>1, <1>2, <1>3, <1>4, <1>5, <1>6, <1>7, <1>8

LEMMA SleepOnResultStep ==
  ASSUME PoolInv, NEW w \in Workers, SleepOnResult(w)
  PROVE  PoolInv'
<1> USE PoolAssumption, ResultCapacityPositive DEF PoolInv, SleepOnResult, At, TypeOK, Move
<1>1. TypeOK' BY DEF WorkerAt, CallerAt, StopperAt
<1>2. HandMatchesPlace' BY DEF HandMatchesPlace
<1>3. WindowIsClosed' BY DEF WindowIsClosed, HasRoom, Blocking
<1>4. StopHasOwner' BY DEF StopHasOwner
<1>5. WithinCapacity' BY DEF WithinCapacity
<1>6. NoMissedTaskWakeup' BY DEF NoMissedTaskWakeup
<1>7. NoMissedResultWakeup' BY DEF NoMissedResultWakeup, HasRoom, WindowIsClosed
<1>8. SleepersWereMissed' BY DEF SleepersWereMissed
<1> QED BY <1>1, <1>2, <1>3, <1>4, <1>5, <1>6, <1>7, <1>8

LEMMA PushResultStep ==
  ASSUME PoolInv, NEW w \in Workers, PushResult(w)
  PROVE  PoolInv'
<1> USE PoolAssumption, ResultCapacityPositive DEF PoolInv, PushResult, At, TypeOK, ResultMutexFree, Move
<1>1. TypeOK' BY EvictedFacts DEF WorkerAt, CallerAt, StopperAt, HandMatchesPlace
<1>2. HandMatchesPlace' BY EvictedFacts DEF HandMatchesPlace
<1>3. WindowIsClosed' BY EvictedFacts DEF WindowIsClosed, HasRoom, Blocking
<1>4. StopHasOwner' BY EvictedFacts DEF StopHasOwner
<1>5. WithinCapacity'
  <2>1. Evicted \in Seq(1..MaxTasks) /\ Len(Evicted) < ResultCapacity
    BY EvictedFacts DEF HasRoom
  <2>2. Len(results') = Len(Evicted) + 1 /\ tasks' = tasks BY <2>1
  <2>3. Len(Evicted) \in Nat BY <2>1, LenProperties
  <2> QED BY ONLY <2>1, <2>2, <2>3, ResultCapacityPositive, WithinCapacity DEF WithinCapacity
<1>6. NoMissedTaskWakeup' BY EvictedFacts DEF NoMissedTaskWakeup
<1>7. NoMissedResultWakeup'
  <2>1. popper' = popper /\ At("result_wait")' \subseteq At("result_wait")
    OBVIOUS
  <2>2. CASE Blocking BY <2>1, <2>2 DEF NoMissedResultWakeup
  <2>3. CASE ~Blocking
    <3>1. At("result_wait") = {} BY <2>3 DEF WindowIsClosed
    <3> QED BY <2>1, <3>1 DEF NoMissedResultWakeup
  <2> QED BY <2>2, <2>3
<1>8. SleepersWereMissed' BY EvictedFacts DEF SleepersWereMissed
<1> QED BY <1>1, <1>2, <1>3, <1>4, <1>5, <1>6, <1>7, <1>8

LEMMA ExitWithResultStep ==
  ASSUME PoolInv, NEW w \in Workers, ExitWithResult(w)
  PROVE  PoolInv'
<1> USE PoolAssumption, ResultCapacityPositive DEF PoolInv, ExitWithResult, At, TypeOK, ResultMutexFree, Move
<1>1. TypeOK' BY EvictedFacts DEF WorkerAt, CallerAt, StopperAt, HandMatchesPlace
<1>2. HandMatchesPlace' BY EvictedFacts DEF HandMatchesPlace
<1>3. WindowIsClosed' BY EvictedFacts DEF WindowIsClosed, HasRoom, Blocking
<1>4. StopHasOwner' BY EvictedFacts DEF StopHasOwner
<1>5. WithinCapacity' BY EvictedFacts DEF WithinCapacity, HasRoom
<1>6. NoMissedTaskWakeup' BY EvictedFacts DEF NoMissedTaskWakeup
<1>7. NoMissedResultWakeup' BY EvictedFacts DEF NoMissedResultWakeup, HasRoom, WindowIsClosed
<1>8. SleepersWereMissed' BY EvictedFacts DEF SleepersWereMissed
<1> QED BY <1>1, <1>2, <1>3, <1>4, <1>5, <1>6, <1>7, <1>8

LEMMA PushNotifyStep ==
  ASSUME PoolInv, NEW w \in Workers, PushNotify(w)
  PROVE  PoolInv'
<1> USE PoolAssumption, ResultCapacityPositive DEF PoolInv, PushNotify, At, TypeOK, Move
<1>1. TypeOK' BY DEF WorkerAt, CallerAt, StopperAt
<1>2. HandMatchesPlace' BY DEF HandMatchesPlace
<1>3. WindowIsClosed' BY DEF WindowIsClosed, HasRoom, Blocking
<1>4. StopHasOwner' BY DEF StopHasOwner
<1>5. WithinCapacity' BY DEF WithinCapacity
<1>6. NoMissedTaskWakeup' BY DEF NoMissedTaskWakeup
<1>7. NoMissedResultWakeup' BY DEF NoMissedResultWakeup, HasRoom
<1>8. SleepersWereMissed' BY DEF SleepersWereMissed
<1> QED BY <1>1, <1>2, <1>3, <1>4, <1>5, <1>6, <1>7, <1>8

LEMMA SpuriousWakeStep ==
  ASSUME PoolInv, NEW w \in Workers, SpuriousWake(w)
  PROVE  PoolInv'
<1> USE PoolAssumption, ResultCapacityPositive DEF PoolInv, SpuriousWake, At, TypeOK, Move
<1>1. TypeOK' BY DEF WorkerAt, CallerAt, StopperAt
<1>2. HandMatchesPlace' BY DEF HandMatchesPlace
<1>3. WindowIsClosed' BY DEF WindowIsClosed, HasRoom, Blocking
<1>4. StopHasOwner' BY DEF StopHasOwner
<1>5. WithinCapacity' BY DEF WithinCapacity
<1>6. NoMissedTaskWakeup' BY DEF NoMissedTaskWakeup
<1>7. NoMissedResultWakeup' BY DEF NoMissedResultWakeup, HasRoom
<1>8. SleepersWereMissed' BY DEF SleepersWereMissed
<1> QED BY <1>1, <1>2, <1>3, <1>4, <1>5, <1>6, <1>7, <1>8

(***************************************************************************)
(* The invariant.                                                          *)
(***************************************************************************)
(* A step that changes nothing preserves the invariant. *)
LEMMA StutterStep ==
  ASSUME PoolInv, UNCHANGED vars
  PROVE  PoolInv'
  BY DEF PoolInv, vars, TypeOK, HandMatchesPlace, WindowIsClosed, StopHasOwner,
         WithinCapacity, NoMissedTaskWakeup, NoMissedResultWakeup,
         SleepersWereMissed, At, HasRoom, Blocking

(* Every step of every thread preserves the invariant. *)
LEMMA NextPoolInv == PoolInv /\ [Next]_vars => PoolInv'
<1> SUFFICES ASSUME PoolInv, [Next]_vars PROVE PoolInv' OBVIOUS
<1>1. CASE UNCHANGED vars BY <1>1, StutterStep
<1>2. ASSUME NEW s \in Submitters, TrySubmit(s) \/ SubmitNotify(s) PROVE PoolInv'
  BY <1>2, TrySubmitStep, SubmitNotifyStep
<1>3. ASSUME NEW p \in Poppers, TryPopResult(p) \/ PopNotify(p) PROVE PoolInv'
  BY <1>3, TryPopResultStep, PopNotifyStep
<1>4. ASSUME NEW x \in Stoppers, ShutdownExchange(x) \/ ShutdownRest(x) PROVE PoolInv'
  BY <1>4, ShutdownExchangeStep, ShutdownNotifyTasksStep, ShutdownNotifyResultsStep,
     ShutdownJoinStep DEF ShutdownRest
<1>5. ASSUME NEW w \in Workers, WorkerLoop(w) \/ SpuriousWake(w) PROVE PoolInv'
  BY <1>5, WaitForTaskStep, SleepOnTaskStep, ExitIdleStep, TakeTaskStep,
     TakeNotifyStep, DispatchStep, WaitForRoomStep, SleepOnResultStep,
     PushResultStep, ExitWithResultStep, PushNotifyStep, SpuriousWakeStep
  DEF WorkerLoop
<1> QED BY <1>1, <1>2, <1>3, <1>4, <1>5 DEF Next

(* The inductive invariant holds in every reachable state of the pool.     *)
THEOREM PoolInvariant == Spec => []PoolInv
  BY InitPoolInv, NextPoolInv, PTL DEF Spec

(* Types, for every pool.                                                  *)
THEOREM TypeCorrect == Spec => []TypeOK
  BY PoolInvariant, PTL DEF PoolInv

(* The assertions of worker_pool.cpp about the sizes of its deques hold.   *)
THEOREM CapacityRespected == Spec => []WithinCapacity
  BY PoolInvariant, PTL DEF PoolInv

(* No wake-up between submitters, workers and poppers is lost.             *)
THEOREM NoTaskWakeupMissed == Spec => []NoMissedTaskWakeup
  BY PoolInvariant, PTL DEF PoolInv

(* No worker sleeps for room that a pop has made and announced.            *)
THEOREM NoResultWakeupMissed == Spec => []NoMissedResultWakeup
  BY PoolInvariant, PTL DEF PoolInv

(* A worker that sleeps through a shutdown was in the window between its   *)
(* predicate and its wait: there is no other way to be missed.             *)
THEOREM OnlyTheWindowIsMissed == Spec => []SleepersWereMissed
  BY PoolInvariant, PTL DEF PoolInv

(* When all calls of shutdown() have returned, the pool is quiet.          *)
THEOREM ShutdownIsQuiet == Spec => []QuietAfterShutdown
<1>1. PoolInv => QuietAfterShutdown
  BY DEF PoolInv, TypeOK, StopHasOwner, HandMatchesPlace, QuietAfterShutdown, At, InHand
<1> QED BY <1>1, PoolInvariant, PTL

(***************************************************************************)
(* What the pool does with its tasks: they are started in the order of     *)
(* their acceptance, answered at most once, and under the default policies *)
(* never lost.  Only five actions move an id, and the proofs are about     *)
(* these; PoolInv provides the types and the places of the threads.        *)
(***************************************************************************)
(* Where ids are. *)
places == <<tasks, results, task, accepted, answered>>

(* The five actions that move an id. *)
Moves ==
    \/ \E s \in Submitters : TrySubmit(s)
    \/ \E p \in Poppers : TryPopResult(p)
    \/ \E w \in Workers : TakeTask(w) \/ PushResult(w) \/ ExitWithResult(w)

(* Every other step leaves all ids where they are. *)
LEMMA OthersMoveNothing == [Next]_vars => Moves \/ UNCHANGED places
<1> USE DEF places
<1> SUFFICES ASSUME [Next]_vars, ~Moves PROVE UNCHANGED places OBVIOUS
<1>1. CASE UNCHANGED vars BY <1>1 DEF vars
<1>2. ASSUME NEW s \in Submitters, TrySubmit(s) \/ SubmitNotify(s)
      PROVE  UNCHANGED places
  BY <1>2 DEF Moves, SubmitNotify
<1>3. ASSUME NEW p \in Poppers, TryPopResult(p) \/ PopNotify(p)
      PROVE  UNCHANGED places
  BY <1>3 DEF Moves, PopNotify
<1>4. ASSUME NEW x \in Stoppers, ShutdownExchange(x) \/ ShutdownRest(x)
      PROVE  UNCHANGED places
  BY <1>4 DEF ShutdownExchange, ShutdownRest, ShutdownNotifyTasks,
              ShutdownNotifyResults, ShutdownJoin
<1>5. ASSUME NEW w \in Workers, WorkerLoop(w) \/ SpuriousWake(w)
      PROVE  UNCHANGED places
  BY <1>5 DEF Moves, WorkerLoop, WaitForTask, SleepOnTask, ExitIdle, TakeNotify,
              Dispatch, WaitForRoom, SleepOnResult, PushNotify, SpuriousWake
<1> QED BY <1>1, <1>2, <1>3, <1>4, <1>5 DEF Next

(***************************************************************************)
(* The elements of a deque after a push and after a pop.                   *)
(***************************************************************************)
LEMMA Elements ==
  ASSUME NEW S, NEW q \in Seq(S)
  PROVE  /\ Len(q) \in Nat /\ DOMAIN q = 1..Len(q)
         /\ \A i \in DOMAIN q : q[i] \in S
  BY LenProperties, ElementOfSeq

LEMMA AppendElements ==
  ASSUME NEW S, NEW q \in Seq(S), NEW x \in S
  PROVE  /\ DOMAIN Append(q, x) = 1..(Len(q) + 1)
         /\ DOMAIN q = 1..Len(q)
         /\ \A i \in 1..Len(q) : Append(q, x)[i] = q[i]
         /\ Append(q, x)[Len(q) + 1] = x
  BY AppendProperties

LEMMA TailElements ==
  ASSUME NEW S, NEW q \in Seq(S), q # <<>>
  PROVE  /\ Tail(q) \in Seq(S) /\ Head(q) = q[1] /\ Len(q) \in Nat \ {0}
         /\ DOMAIN q = 1..Len(q) /\ DOMAIN Tail(q) = 1..(Len(q) - 1)
         /\ \A i \in 1..(Len(q) - 1) : Tail(q)[i] = q[i + 1]
  BY HeadTailProperties

(* All ids are numbers, and the ones in a deque are not 0. *)
LEMMA IdTypes ==
  ASSUME PoolInv
  PROVE  /\ accepted \in Nat /\ task \in [Workers -> 0..MaxTasks]
         /\ tasks \in Seq(1..MaxTasks) /\ results \in Seq(1..MaxTasks)
         /\ Len(tasks) \in Nat /\ DOMAIN tasks = 1..Len(tasks)
         /\ Len(results) \in Nat /\ DOMAIN results = 1..Len(results)
         /\ \A w \in Workers : task[w] \in Nat
         /\ \A i \in DOMAIN tasks : tasks[i] \in Nat \ {0}
         /\ \A j \in DOMAIN results : results[j] \in Nat \ {0}
         /\ \A id \in answered : id \in Nat \ {0}
<1>1. TypeOK /\ MaxTasks \in Nat BY PoolAssumption DEF PoolInv
<1>2. \A n \in 1..MaxTasks : n \in Nat \ {0} BY <1>1
<1>3. /\ Len(tasks) \in Nat /\ DOMAIN tasks = 1..Len(tasks)
      /\ \A i \in DOMAIN tasks : tasks[i] \in Nat \ {0}
  BY <1>1, <1>2, Elements DEF TypeOK
<1>4. /\ Len(results) \in Nat /\ DOMAIN results = 1..Len(results)
      /\ \A i \in DOMAIN results : results[i] \in Nat \ {0}
  BY <1>1, <1>2, Elements DEF TypeOK
<1>5. /\ accepted \in Nat /\ \A w \in Workers : task[w] \in Nat
      /\ \A id \in answered : id \in Nat \ {0}
  BY <1>1, <1>2 DEF TypeOK
<1> QED BY <1>1, <1>3, <1>4, <1>5 DEF TypeOK

(***************************************************************************)
(* The five moves preserve OrderInv.                                       *)
(***************************************************************************)
(* The new id is larger than all before it; an evicted one just goes. *)
LEMMA SubmitKeepsOrder ==
  ASSUME PoolInv, OrderInv, NEW s \in Submitters, TrySubmit(s)
  PROVE  OrderInv'
<1> DEFINE id == accepted + 1
<1>1. /\ id \in 1..MaxTasks /\ accepted' = id
      /\ results' = results /\ task' = task /\ answered' = answered
  BY IdTypes, PoolAssumption DEF TrySubmit
<1>2. PICK q \in Seq(1..MaxTasks) :
        /\ tasks' = Append(q, id)
        /\ \A i, j \in DOMAIN q : i < j => q[i] < q[j]
        /\ \A i \in DOMAIN q : \E k \in DOMAIN tasks : q[i] = tasks[k]
  <2>1. CASE Len(tasks) < QueueCapacity
    <3>1. tasks' = Append(tasks, id) BY <2>1, IdTypes, PoolAssumption DEF TrySubmit
    <3> QED BY <3>1, IdTypes DEF OrderInv, PendingAscend
  <2>2. CASE Len(tasks) >= QueueCapacity
    <3>1. tasks # <<>> BY <2>2, PoolAssumption
    <3>2. tasks' = Append(Tail(tasks), id) BY <2>2, IdTypes, PoolAssumption DEF TrySubmit
    <3>3. /\ Tail(tasks) \in Seq(1..MaxTasks)
          /\ Len(tasks) \in Nat \ {0} /\ DOMAIN Tail(tasks) = 1..(Len(tasks) - 1)
          /\ \A i \in 1..(Len(tasks) - 1) : Tail(tasks)[i] = tasks[i + 1]
      BY <3>1, IdTypes, TailElements
    <3>4. \A i, j \in DOMAIN Tail(tasks) : i < j => Tail(tasks)[i] < Tail(tasks)[j]
      BY <3>3, IdTypes DEF OrderInv, PendingAscend
    <3>5. \A i \in DOMAIN Tail(tasks) : \E k \in DOMAIN tasks : Tail(tasks)[i] = tasks[k]
      BY <3>3, IdTypes
    <3> QED BY <3>2, <3>3, <3>4, <3>5
  <2>3. Len(tasks) < QueueCapacity \/ Len(tasks) >= QueueCapacity
    BY IdTypes, PoolAssumption
  <2> QED BY <2>1, <2>2, <2>3
<1>3. /\ DOMAIN tasks' = 1..(Len(q) + 1) /\ DOMAIN q = 1..Len(q) /\ Len(q) \in Nat
      /\ \A i \in 1..Len(q) : tasks'[i] = q[i]
      /\ tasks'[Len(q) + 1] = id
  BY <1>1, <1>2, AppendElements, Elements
<1>4. \A i \in DOMAIN q : q[i] \in Nat /\ q[i] <= accepted
  BY <1>2, IdTypes DEF OrderInv, IdsWereAccepted
<1>5. \A i \in DOMAIN q :
        /\ \A w \in Workers : task[w] < q[i]
        /\ \A j \in DOMAIN results : results[j] < q[i]
        /\ \A a \in answered : a < q[i]
  BY <1>2 DEF OrderInv, PendingAreYounger
<1>6. PendingAscend'
  BY <1>1, <1>2, <1>3, <1>4, IdTypes DEF PendingAscend
<1>7. PendingAreYounger'
  BY <1>1, <1>3, <1>5, IdTypes DEF OrderInv, PendingAreYounger, IdsWereAccepted
<1>8. IdsWereAccepted'
  BY <1>1, <1>3, <1>4, IdTypes DEF OrderInv, IdsWereAccepted
<1>9. OnePlaceEach'
  BY <1>1 DEF OrderInv, OnePlaceEach
<1> QED BY <1>6, <1>7, <1>8, <1>9 DEF OrderInv

(* The front of results_ is handed out. *)
LEMMA PopKeepsOrder ==
  ASSUME PoolInv, OrderInv, NEW p \in Poppers, TryPopResult(p)
  PROVE  OrderInv'
<1>1. /\ results # <<>> /\ results' = Tail(results) /\ task' = task
      /\ tasks' = tasks /\ accepted' = accepted
      /\ answered' = answered \cup {Head(results)}
  BY DEF TryPopResult
<1>2. /\ Head(results) = results[1] /\ Len(results) \in Nat \ {0}
      /\ DOMAIN results = 1..Len(results) /\ DOMAIN results' = 1..(Len(results) - 1)
      /\ \A i \in DOMAIN results' : results'[i] = results[i + 1]
  BY <1>1, IdTypes, TailElements
<1>3. PendingAscend' BY <1>1 DEF OrderInv, PendingAscend
<1>4. PendingAreYounger' BY <1>1, <1>2 DEF OrderInv, PendingAreYounger
<1>5. IdsWereAccepted' BY <1>1, <1>2 DEF OrderInv, IdsWereAccepted
<1>6. OnePlaceEach' BY <1>1, <1>2 DEF OrderInv, OnePlaceEach
<1> QED BY <1>3, <1>4, <1>5, <1>6 DEF OrderInv

(* The oldest pending task goes to a worker. *)
LEMMA TakeKeepsOrder ==
  ASSUME PoolInv, OrderInv, NEW w \in Workers, TakeTask(w)
  PROVE  OrderInv'
<1>1. /\ tasks # <<>> /\ tasks' = Tail(tasks)
      /\ task' = [task EXCEPT ![w] = Head(tasks)]
      /\ results' = results /\ accepted' = accepted /\ answered' = answered
  BY DEF TakeTask
<1>2. /\ Head(tasks) = tasks[1] /\ Len(tasks) \in Nat \ {0}
      /\ DOMAIN tasks = 1..Len(tasks) /\ DOMAIN tasks' = 1..(Len(tasks) - 1)
      /\ \A i \in DOMAIN tasks' : tasks'[i] = tasks[i + 1]
  BY <1>1, IdTypes, TailElements
<1>3. /\ task'[w] = tasks[1]
      /\ \A v \in Workers : v # w => task'[v] = task[v]
  BY <1>1, <1>2, IdTypes
<1>4. PendingAscend' BY <1>1, <1>2, IdTypes DEF OrderInv, PendingAscend
<1>5. PendingAreYounger'
  <2> SUFFICES ASSUME NEW i \in DOMAIN tasks'
               PROVE  /\ \A v \in Workers : task'[v] < tasks'[i]
                      /\ \A j \in DOMAIN results : results[j] < tasks'[i]
                      /\ \A id \in answered : id < tasks'[i]
    BY <1>1 DEF PendingAreYounger
  <2>1. 1 \in DOMAIN tasks /\ i + 1 \in DOMAIN tasks /\ 1 < i + 1
    BY <1>2
  <2>2. tasks'[i] = tasks[i + 1] BY <1>2
  <2>3. task'[w] < tasks'[i]
    BY <1>3, <2>1, <2>2 DEF OrderInv, PendingAscend
  <2> QED BY <1>3, <2>1, <2>2, <2>3 DEF OrderInv, PendingAreYounger
<1>6. IdsWereAccepted' BY <1>1, <1>2, <1>3, IdTypes DEF OrderInv, IdsWereAccepted
<1>7. OnePlaceEach'
  BY <1>1, <1>2, <1>3, IdTypes DEF OrderInv, OnePlaceEach, PendingAreYounger
<1> QED BY <1>4, <1>5, <1>6, <1>7 DEF OrderInv

(* What the eviction loop leaves is part of what was there, in its order. *)
LEMMA EvictedElements ==
  ASSUME PoolInv
  PROVE  \E k \in Nat : /\ DOMAIN Evicted = 1..Len(Evicted)
                        /\ Len(Evicted) \in Nat
                        /\ \A i \in DOMAIN Evicted :
                              i + k \in DOMAIN results /\ Evicted[i] = results[i + k]
<1>1. DOMAIN Evicted = 1..Len(Evicted) /\ Len(Evicted) \in Nat
  BY EvictedFacts, Elements DEF PoolInv
<1>2. CASE Evicted = results
  <2>1. \A i \in DOMAIN Evicted :
          i + 0 \in DOMAIN results /\ Evicted[i] = results[i + 0]
    BY <1>2, IdTypes
  <2> QED BY <1>1, <2>1
<1>3. CASE Evicted # results
  <2>1. results # <<>> /\ Evicted = Tail(results)
    BY <1>3, EvictedFacts DEF PoolInv
  <2>2. \A i \in DOMAIN Evicted :
          i + 1 \in DOMAIN results /\ Evicted[i] = results[i + 1]
    BY <2>1, IdTypes, TailElements
  <2> QED BY <1>1, <2>2
<1> QED BY <1>2, <1>3

(* A result is pushed behind what the eviction left. *)
LEMMA PushKeepsOrder ==
  ASSUME PoolInv, OrderInv, NEW w \in Workers, PushResult(w)
  PROVE  OrderInv'
<1>1. /\ results' = Append(Evicted, task[w]) /\ tasks' = tasks
      /\ task' = [task EXCEPT ![w] = 0]
      /\ accepted' = accepted /\ answered' = answered
  BY DEF PushResult
<1>2. task[w] \in 1..MaxTasks
  BY DEF PushResult, PoolInv, TypeOK, HandMatchesPlace
<1>3. PICK k \in Nat :
        \A i \in DOMAIN Evicted :
            i + k \in DOMAIN results /\ Evicted[i] = results[i + k]
  BY EvictedElements
<1>4. /\ DOMAIN results' = 1..(Len(Evicted) + 1) /\ Len(Evicted) \in Nat
      /\ DOMAIN Evicted = 1..Len(Evicted)
      /\ \A i \in 1..Len(Evicted) : results'[i] = Evicted[i]
      /\ results'[Len(Evicted) + 1] = task[w]
  BY <1>1, <1>2, EvictedFacts, AppendElements DEF PoolInv
<1>5. /\ task'[w] = 0
      /\ \A v \in Workers : v # w => task'[v] = task[v]
  BY <1>1, IdTypes
<1>6. PendingAscend' BY <1>1 DEF OrderInv, PendingAscend
<1>7. PendingAreYounger'
  BY <1>1, <1>3, <1>4, <1>5, IdTypes DEF OrderInv, PendingAreYounger
<1>8. IdsWereAccepted'
  BY <1>1, <1>3, <1>4, <1>5, IdTypes DEF OrderInv, IdsWereAccepted
<1>9. OnePlaceEach'
  <2>1. \A i, j \in DOMAIN results' : i # j => results'[i] # results'[j]
    BY <1>3, <1>4 DEF OrderInv, OnePlaceEach
  <2>2. \A v \in Workers, j \in DOMAIN results' : task'[v] # results'[j]
    <3> SUFFICES ASSUME NEW v \in Workers, NEW j \in DOMAIN results'
                 PROVE  task'[v] # results'[j]
      OBVIOUS
    <3>1. CASE j = Len(Evicted) + 1
      BY <1>2, <1>4, <1>5, <3>1, IdTypes DEF OrderInv, OnePlaceEach
    <3>2. CASE j \in 1..Len(Evicted)
      <4>1. results'[j] = results[j + k] /\ j + k \in DOMAIN results
        BY <1>3, <1>4, <3>2
      <4> QED BY <1>5, <4>1, IdTypes DEF OrderInv, OnePlaceEach
    <3> QED BY <1>4, <3>1, <3>2
  <2>3. \A v \in Workers : task'[v] \notin answered'
    BY <1>1, <1>5, IdTypes DEF OrderInv, OnePlaceEach
  <2>4. \A j \in DOMAIN results' : results'[j] \notin answered'
    BY <1>1, <1>3, <1>4 DEF OrderInv, OnePlaceEach
  <2>5. \A u, v \in Workers : u # v /\ task'[u] # 0 => task'[u] # task'[v]
    BY <1>1, <1>5 DEF OrderInv, OnePlaceEach
  <2> QED BY <2>1, <2>2, <2>3, <2>4, <2>5 DEF OnePlaceEach
<1> QED BY <1>6, <1>7, <1>8, <1>9 DEF OrderInv

(* A worker that finds the pool stopped drops its result. *)
LEMMA ExitKeepsOrder ==
  ASSUME PoolInv, OrderInv, NEW w \in Workers, ExitWithResult(w)
  PROVE  OrderInv'
<1>1. /\ results' = Evicted /\ tasks' = tasks
      /\ task' = [task EXCEPT ![w] = 0]
      /\ accepted' = accepted /\ answered' = answered
  BY DEF ExitWithResult
<1>2. PICK k \in Nat :
        /\ DOMAIN Evicted \subseteq Nat
        /\ \A i \in DOMAIN Evicted :
            i + k \in DOMAIN results /\ Evicted[i] = results[i + k]
  BY EvictedElements
<1>3. /\ task'[w] = 0
      /\ \A v \in Workers : v # w => task'[v] = task[v]
  BY <1>1, IdTypes
<1>4. PendingAscend' BY <1>1 DEF OrderInv, PendingAscend
<1>5. PendingAreYounger'
  BY <1>1, <1>2, <1>3, IdTypes DEF OrderInv, PendingAreYounger
<1>6. IdsWereAccepted'
  BY <1>1, <1>2, <1>3, IdTypes DEF OrderInv, IdsWereAccepted
<1>7. OnePlaceEach'
  BY <1>1, <1>2, <1>3, IdTypes DEF OrderInv, OnePlaceEach
<1> QED BY <1>4, <1>5, <1>6, <1>7 DEF OrderInv

LEMMA InitOrder == Init => OrderInv /\ AllLocated
<1> SUFFICES ASSUME Init PROVE OrderInv /\ AllLocated OBVIOUS
<1>1. PendingAscend /\ PendingAreYounger BY DEF Init, PendingAscend, PendingAreYounger
<1>2. IdsWereAccepted BY DEF Init, IdsWereAccepted
<1>3. OnePlaceEach BY DEF Init, OnePlaceEach
<1>4. AllLocated BY DEF Init, AllLocated
<1> QED BY <1>1, <1>2, <1>3, <1>4 DEF OrderInv

LEMMA NextOrder == PoolInv /\ OrderInv /\ [Next]_vars => OrderInv'
<1> SUFFICES ASSUME PoolInv, OrderInv, [Next]_vars PROVE OrderInv' OBVIOUS
<1>1. CASE Moves
  BY <1>1, SubmitKeepsOrder, PopKeepsOrder, TakeKeepsOrder, PushKeepsOrder, ExitKeepsOrder
  DEF Moves
<1>2. CASE UNCHANGED places
  BY <1>2 DEF places, OrderInv, PendingAscend, PendingAreYounger, IdsWereAccepted, OnePlaceEach
<1> QED BY <1>1, <1>2, OthersMoveNothing

(***************************************************************************)
(* Nothing is lost.                                                        *)
(***************************************************************************)
(* Nothing takes a stop back, and the policies are fixed. *)
LEMMA StopIsFinal ==
  ASSUME [Next]_vars
  PROVE  (stop => stop') /\ (stop' = stop \/ stop' = TRUE) /\ options' = options
<1> DEFINE Kept == (stop => stop') /\ (stop' = stop \/ stop' = TRUE) /\ options' = options
<1>1. CASE UNCHANGED vars BY <1>1 DEF vars
<1>2. ASSUME NEW s \in Submitters, TrySubmit(s) \/ SubmitNotify(s) PROVE Kept
  BY <1>2 DEF TrySubmit, SubmitNotify
<1>3. ASSUME NEW p \in Poppers, TryPopResult(p) \/ PopNotify(p) PROVE Kept
  BY <1>3 DEF TryPopResult, PopNotify
<1>4. ASSUME NEW x \in Stoppers, ShutdownExchange(x) \/ ShutdownRest(x) PROVE Kept
  BY <1>4 DEF ShutdownExchange, ShutdownRest, ShutdownNotifyTasks,
              ShutdownNotifyResults, ShutdownJoin
<1>5. ASSUME NEW w \in Workers, WorkerLoop(w) \/ SpuriousWake(w) PROVE Kept
  BY <1>5 DEF WorkerLoop, WaitForTask, SleepOnTask, ExitIdle, TakeTask, TakeNotify,
              Dispatch, WaitForRoom, SleepOnResult, PushResult, ExitWithResult,
              PushNotify, SpuriousWake
<1> QED BY <1>1, <1>2, <1>3, <1>4, <1>5 DEF Next

(* Under the default policies an id that is somewhere goes nowhere else    *)
(* than to its next place, and an accepted one is somewhere.               *)
LEMMA NextLocated == PoolInv /\ AllLocated /\ [Next]_vars => AllLocated'
<1> SUFFICES ASSUME PoolInv, AllLocated, [Next]_vars, Lossless, ~stop', NEW id \in 1..accepted'
             PROVE  Located(id)'
  BY StopIsFinal DEF AllLocated, Lossless, Blocking
<1>1. ~stop /\ \A n \in 1..accepted : Located(n)
  BY StopIsFinal DEF AllLocated
<1>2. ASSUME NEW s \in Submitters, TrySubmit(s) PROVE Located(id)'
  <2>1. /\ tasks' = Append(tasks, accepted + 1) /\ accepted + 1 \in 1..MaxTasks
        /\ results' = results /\ task' = task /\ answered' = answered
        /\ accepted' = accepted + 1
    BY <1>2, IdTypes, PoolAssumption DEF TrySubmit, Lossless
  <2>2. /\ DOMAIN tasks' = 1..(Len(tasks) + 1)
        /\ \A i \in DOMAIN tasks : tasks'[i] = tasks[i]
        /\ tasks'[Len(tasks) + 1] = accepted + 1
    BY <2>1, IdTypes, AppendElements
  <2>3. CASE id = accepted + 1 BY <2>2, <2>3, IdTypes DEF Located
  <2>4. CASE id \in 1..accepted
    <3>1. \A i \in DOMAIN tasks : i \in DOMAIN tasks' BY <2>2, IdTypes
    <3>2. Located(id) BY <1>1, <2>4
    <3> QED BY <2>1, <2>2, <3>1, <3>2 DEF Located
  <2> QED BY <2>1, <2>3, <2>4, IdTypes
<1>3. ASSUME NEW p \in Poppers, TryPopResult(p) PROVE Located(id)'
  <2>1. /\ results # <<>> /\ results' = Tail(results) /\ task' = task
        /\ tasks' = tasks /\ accepted' = accepted
        /\ answered' = answered \cup {Head(results)}
    BY <1>3 DEF TryPopResult
  <2>2. /\ Head(results) = results[1]
        /\ \A j \in DOMAIN results :
              j = 1 \/ (j - 1 \in DOMAIN results' /\ results'[j - 1] = results[j])
    BY <2>1, IdTypes, TailElements
  <2>3. Located(id) BY <1>1, <2>1
  <2> QED BY <2>1, <2>2, <2>3 DEF Located
<1>4. ASSUME NEW w \in Workers, TakeTask(w) PROVE Located(id)'
  <2>1. /\ tasks # <<>> /\ tasks' = Tail(tasks) /\ worker[w] = "task_lock"
        /\ task' = [task EXCEPT ![w] = Head(tasks)]
        /\ results' = results /\ accepted' = accepted /\ answered' = answered
    BY <1>4 DEF TakeTask
  <2>2. /\ Head(tasks) = tasks[1]
        /\ \A i \in DOMAIN tasks :
              i = 1 \/ (i - 1 \in DOMAIN tasks' /\ tasks'[i - 1] = tasks[i])
    BY <2>1, IdTypes, TailElements
  <2>3. task[w] = 0 BY <2>1 DEF PoolInv, HandMatchesPlace
  <2>4. task'[w] = tasks[1] /\ \A v \in Workers : v # w => task'[v] = task[v]
    BY <2>1, <2>2, IdTypes
  <2>5. Located(id) /\ id # 0 BY <1>1, <2>1, IdTypes
  <2>6. ASSUME NEW i \in DOMAIN tasks, tasks[i] = id PROVE Located(id)'
    BY <2>2, <2>4, <2>6 DEF Located
  <2>7. ASSUME NEW v \in Workers, task[v] = id PROVE Located(id)'
    BY <2>3, <2>4, <2>5, <2>7 DEF Located
  <2> QED BY <2>1, <2>5, <2>6, <2>7 DEF Located
<1>5. ASSUME NEW w \in Workers, PushResult(w) PROVE Located(id)'
  <2>1. Blocking BY DEF Lossless, Blocking
  <2>2. /\ results' = Append(results, task[w]) /\ tasks' = tasks
        /\ task' = [task EXCEPT ![w] = 0]
        /\ accepted' = accepted /\ answered' = answered
    BY <1>5, <2>1 DEF PushResult, Evicted
  <2>3. task[w] \in 1..MaxTasks
    BY <1>5, IdTypes DEF PushResult, PoolInv, HandMatchesPlace
  <2>4. /\ DOMAIN results' = 1..(Len(results) + 1)
        /\ \A j \in DOMAIN results : results'[j] = results[j]
        /\ results'[Len(results) + 1] = task[w]
    BY <2>2, <2>3, IdTypes, AppendElements
  <2>5. \A v \in Workers : v # w => task'[v] = task[v]
    BY <2>2, IdTypes
  <2>6. \A j \in DOMAIN results : j \in DOMAIN results'
    BY <2>4, IdTypes
  <2>7. Len(results) + 1 \in DOMAIN results' BY <2>4, IdTypes
  <2>8. Located(id) BY <1>1, <2>2
  <2> QED BY <2>2, <2>4, <2>5, <2>6, <2>7, <2>8 DEF Located
<1>6. ASSUME NEW w \in Workers, ExitWithResult(w) PROVE FALSE
  BY <1>1, <1>6 DEF ExitWithResult
<1>7. CASE UNCHANGED places
  BY <1>1, <1>7 DEF places, Located
<1> QED BY <1>2, <1>3, <1>4, <1>5, <1>6, <1>7, OthersMoveNothing DEF Moves

(***************************************************************************)
(* Overtaking is bounded.                                                  *)
(***************************************************************************)
(* A worker that pushes is free, and one that takes gets an id larger than *)
(* every completed one: each is a witness for all results.                 *)
LEMMA NextPassed ==
  PoolInv /\ OrderInv /\ ResultsWerePassed /\ [Next]_vars => ResultsWerePassed'
<1> SUFFICES ASSUME PoolInv, OrderInv, ResultsWerePassed, [Next]_vars
             PROVE  ResultsWerePassed'
  OBVIOUS
<1>1. ASSUME NEW s \in Submitters, TrySubmit(s) PROVE ResultsWerePassed'
  BY <1>1 DEF TrySubmit, ResultsWerePassed, Passed
<1>2. ASSUME NEW p \in Poppers, TryPopResult(p) PROVE ResultsWerePassed'
  <2>1. /\ results # <<>> /\ results' = Tail(results) /\ task' = task
        /\ answered' = answered \cup {Head(results)}
    BY <1>2 DEF TryPopResult
  <2>2. /\ 1 \in DOMAIN results /\ Head(results) = results[1]
        /\ \A j \in DOMAIN results' : j + 1 \in DOMAIN results /\ results'[j] = results[j + 1]
    BY <2>1, IdTypes, TailElements
  <2> QED BY <2>1, <2>2 DEF ResultsWerePassed, Passed
<1>3. ASSUME NEW w \in Workers, TakeTask(w) PROVE ResultsWerePassed'
  <2>1. /\ tasks # <<>> /\ task' = [task EXCEPT ![w] = Head(tasks)]
        /\ results' = results /\ answered' = answered
    BY <1>3 DEF TakeTask
  <2>2. 1 \in DOMAIN tasks /\ task'[w] = tasks[1]
    BY <2>1, IdTypes, TailElements
  <2>3. /\ \A j \in DOMAIN results : task'[w] > results[j]
        /\ \A id \in answered : task'[w] > id
    BY <2>2, IdTypes DEF OrderInv, PendingAreYounger
  <2> QED BY <2>1, <2>3 DEF ResultsWerePassed, Passed
<1>4. ASSUME NEW w \in Workers, PushResult(w) \/ ExitWithResult(w) PROVE ResultsWerePassed'
  <2>1. task'[w] = 0 BY <1>4, IdTypes DEF PushResult, ExitWithResult
  <2> QED BY <2>1 DEF ResultsWerePassed, Passed
<1>5. CASE UNCHANGED places
  BY <1>5 DEF places, ResultsWerePassed, Passed
<1> QED BY <1>1, <1>2, <1>3, <1>4, <1>5, OthersMoveNothing DEF Moves

(***************************************************************************)
(* The theorems.                                                           *)
(***************************************************************************)
(* Order and places of all ids in every reachable state.                   *)
THEOREM OrderInvariant == Spec => [](PoolInv /\ OrderInv /\ AllLocated)
<1>1. PoolInv /\ OrderInv /\ AllLocated /\ [Next]_vars
        => (PoolInv /\ OrderInv /\ AllLocated)'
  BY NextPoolInv, NextOrder, NextLocated
<1> QED BY <1>1, InitPoolInv, InitOrder, PTL DEF Spec

(* try_submit and worker_loop start tasks in the order of acceptance, with *)
(* any number of workers and under every overflow policy.                  *)
THEOREM TasksStartInOrder == Spec => []StartedInOrder
<1>1. PoolInv /\ OrderInv => StartedInOrder
  BY IdTypes DEF OrderInv, StartedInOrder, PendingAscend, PendingAreYounger,
                 IdsWereAccepted, InHand, Ready
<1> QED BY <1>1, OrderInvariant, PTL

(* No task is in the hands of two workers, and no result is delivered      *)
(* twice, under every overflow policy.                                     *)
THEOREM TasksAreAnsweredOnce == Spec => []AnsweredOnce
<1>1. PoolInv /\ OrderInv => AnsweredOnce
  BY IdTypes DEF OrderInv, OnePlaceEach, AnsweredOnce, InHand, Ready
<1> QED BY <1>1, OrderInvariant, PTL

(* With the default policies every accepted task is pending, running,      *)
(* ready or answered until the pool is shut down.                          *)
THEOREM NoTaskIsLost == Spec => []NothingLost
<1>1. PoolInv /\ OrderInv /\ AllLocated => NothingLost
  <2> SUFFICES ASSUME PoolInv, OrderInv, AllLocated, Lossless, ~stop
               PROVE  Queued \cup InHand \cup Ready \cup answered = 1..accepted
    BY DEF NothingLost
  <2>1. ASSUME NEW id \in 1..accepted PROVE id \in Queued \cup InHand \cup Ready \cup answered
    <3>1. Located(id) /\ id # 0 BY IdTypes DEF AllLocated
    <3> QED BY <3>1 DEF Located, Queued, InHand, Ready
  <2>2. ASSUME NEW id \in Queued \cup InHand \cup Ready \cup answered PROVE id \in 1..accepted
    <3>1. id \in Nat \ {0} /\ id <= accepted
      BY IdTypes DEF OrderInv, IdsWereAccepted, Queued, InHand, Ready
    <3> QED BY <3>1, IdTypes
  <2> QED BY <2>1, <2>2
<1> QED BY <1>1, OrderInvariant, PTL

(* A completed result has overtaken fewer tasks than there are workers; a  *)
(* pool with one worker answers in the order of submission.                *)
THEOREM OvertakingIsBounded == Spec => []BoundedOvertaking
<1>1. Init => ResultsWerePassed BY DEF Init, ResultsWerePassed
<1>2. Spec => []ResultsWerePassed
  BY <1>1, NextPassed, OrderInvariant, PTL DEF Spec
<1>3. PoolInv /\ ResultsWerePassed => BoundedOvertaking
  <2> SUFFICES ASSUME PoolInv, ResultsWerePassed, NEW id \in Ready \cup answered
               PROVE  Cardinality({w \in Workers : task[w] \in 1..(id - 1)})
                          < Cardinality(Workers)
    BY DEF BoundedOvertaking
  <2> DEFINE Older == {w \in Workers : task[w] \in 1..(id - 1)}
  <2>1. id \in Nat /\ Passed(id) BY IdTypes DEF ResultsWerePassed, Ready
  <2>2. PICK w \in Workers : task[w] = 0 \/ task[w] > id BY <2>1 DEF Passed
  <2>3. w \notin Older BY <2>1, <2>2, IdTypes
  <2>4. Older \subseteq Workers /\ Older # Workers BY <2>2, <2>3
  <2>5. Cardinality(Older) < Cardinality(Workers)
    BY <2>4, PoolAssumption, FS_Subset, FS_CardinalityType
  <2> QED BY <2>5
<1> QED BY <1>2, <1>3, PoolInvariant, PTL

(***************************************************************************)
(* The contract.  What PoolContract calls the status of an id is the place *)
(* it is in, so that each move of an id is a step of the contract.         *)
(***************************************************************************)
abstractStatus == [id \in 1..MaxTasks |-> StatusOf(id)]

(* No id is in two places, and no place has an id that was not accepted. *)
PlacesApart ==
    /\ accepted \in 0..MaxTasks /\ MaxTasks \in Nat
    /\ Queued \subseteq 1..accepted /\ InHand \subseteq 1..accepted
    /\ Ready \subseteq 1..accepted /\ answered \subseteq 1..accepted
    /\ Queued \cap InHand = {} /\ Queued \cap Ready = {} /\ Queued \cap answered = {}
    /\ InHand \cap Ready = {} /\ InHand \cap answered = {} /\ Ready \cap answered = {}

LEMMA PlacesDisjoint == PoolInv /\ OrderInv => PlacesApart
<1> SUFFICES ASSUME PoolInv, OrderInv PROVE PlacesApart OBVIOUS
<1> USE IdTypes
<1>1. accepted \in 0..MaxTasks /\ MaxTasks \in Nat BY PoolAssumption DEF PoolInv, TypeOK
<1>2. Queued \subseteq 1..accepted BY DEF Queued, OrderInv, IdsWereAccepted
<1>3. InHand \subseteq 1..accepted BY DEF InHand, OrderInv, IdsWereAccepted
<1>4. Ready \subseteq 1..accepted BY DEF Ready, OrderInv, IdsWereAccepted
<1>5. answered \subseteq 1..accepted BY DEF OrderInv, IdsWereAccepted
<1>6. Queued \cap InHand = {} /\ Queued \cap Ready = {} /\ Queued \cap answered = {}
  BY DEF Queued, InHand, Ready, OrderInv, PendingAreYounger
<1>7. InHand \cap Ready = {} /\ InHand \cap answered = {} /\ Ready \cap answered = {}
  BY DEF InHand, Ready, OrderInv, OnePlaceEach
<1> QED BY <1>1, <1>2, <1>3, <1>4, <1>5, <1>6, <1>7 DEF PlacesApart

LEMMA PlacesDisjointNext == PoolInv /\ OrderInv /\ [Next]_vars => PlacesApart'
  BY PlacesDisjoint, NextPoolInv, NextOrder, PTL

LEMMA StatusIsPlace ==
  ASSUME PlacesApart
  PROVE  /\ Contract!In("new") = (accepted + 1)..MaxTasks
         /\ Contract!In("queued") = Queued /\ Contract!In("running") = InHand
<1>1. \A id \in 1..MaxTasks : /\ StatusOf(id) = "new" <=> id > accepted
                              /\ StatusOf(id) = "queued" <=> id \in Queued
                              /\ StatusOf(id) = "running" <=> id \in InHand
  BY DEF StatusOf, PlacesApart
<1>2. \A label : Contract!In(label) = {id \in 1..MaxTasks : StatusOf(id) = label}
  BY DEF Contract!In, Contract!Ids
<1>3. 1..accepted \subseteq 1..MaxTasks /\ accepted \in Nat /\ MaxTasks \in Nat
  BY DEF PlacesApart
<1>4. Contract!In("new") = (accepted + 1)..MaxTasks
  <2>1. Contract!In("new") = {id \in 1..MaxTasks : id > accepted} BY <1>1, <1>2
  <2>2. \A id : id \in (accepted + 1)..MaxTasks <=> id \in 1..MaxTasks /\ id > accepted
    BY <1>3
  <2> QED BY <2>1, <2>2
<1> QED BY <1>1, <1>2, <1>3, <1>4 DEF PlacesApart

(* The smallest number of a set. *)
LEMMA OldestIs ==
  ASSUME NEW S \in SUBSET Nat, NEW n \in S, \A m \in S : n <= m
  PROVE  Contract!Oldest(S) = n
<1>1. \A k \in S : (\A m \in S : k <= m) => k = n OBVIOUS
<1> QED BY <1>1 DEF Contract!Oldest

(* A deque without repetitions is as long as its set of elements is large. *)
LEMMA DequeSize ==
  ASSUME NEW S, NEW q \in Seq(S), \A i, j \in DOMAIN q : i # j => q[i] # q[j]
  PROVE  Cardinality({q[i] : i \in DOMAIN q}) = Len(q)
<1> DEFINE T == {q[i] : i \in DOMAIN q}
           f == [i \in 1..Len(q) |-> q[i]]
<1>1. Len(q) \in Nat /\ DOMAIN q = 1..Len(q) BY Elements
<1>2. f \in Bijection(1..Len(q), T)
  <2>1. f \in [1..Len(q) -> T] BY <1>1
  <2>2. \A i, j \in 1..Len(q) : f[i] = f[j] => i = j BY <1>1
  <2>3. \A t \in T : \E i \in 1..Len(q) : f[i] = t BY <1>1
  <2> QED BY <2>1, <2>2, <2>3 DEF Bijection, Injection, Surjection, IsInjective
<1>3. ExistsBijection(1..Len(q), T) BY <1>2 DEF ExistsBijection
<1> QED BY <1>1, <1>3, FS_CountingElements

LEMMA QueuedSize ==
  ASSUME PoolInv, OrderInv
  PROVE  Cardinality(Queued) = Len(tasks)
<1> USE IdTypes
<1>1. \A i, j \in DOMAIN tasks : i # j => tasks[i] # tasks[j]
  BY DEF OrderInv, PendingAscend
<1> QED BY <1>1, DequeSize DEF Queued

(* A worker without a task is one that may take the next. *)
LEMMA IdleWorker ==
  ASSUME PoolInv, NEW w \in Workers, task[w] = 0
  PROVE  Cardinality(InHand) < Cardinality(Workers)
<1> DEFINE busy == {v \in Workers : task[v] # 0}
<1>1. IsFiniteSet(Workers) /\ busy \in SUBSET Workers /\ w \notin busy
  BY PoolAssumption
<1>2. /\ IsFiniteSet(busy) /\ Cardinality(busy) <= Cardinality(Workers)
      /\ Cardinality(Workers) = Cardinality(busy) => Workers = busy
  BY <1>1, FS_Subset
<1>3. Cardinality(busy) \in Nat /\ Cardinality(Workers) \in Nat
  BY <1>1, <1>2, FS_CardinalityType
<1>4. [v \in busy |-> task[v]] \in Surjection(busy, InHand)
  BY DEF Surjection, InHand
<1>5. IsFiniteSet(InHand) /\ Cardinality(InHand) <= Cardinality(busy)
  BY <1>2, <1>4, FS_Surjection
<1>6. Cardinality(InHand) \in Nat BY <1>5, FS_CardinalityType
<1> HIDE DEF busy
<1> QED BY <1>1, <1>2, <1>3, <1>5, <1>6

(***************************************************************************)
(* The five moves are steps of the contract.                               *)
(***************************************************************************)
LEMMA StatusAt ==
  ASSUME PlacesApart, NEW id \in 1..MaxTasks
  PROVE  StatusOf(id) = IF id > accepted THEN "new"
                        ELSE IF id \in Queued THEN "queued"
                        ELSE IF id \in InHand THEN "running"
                        ELSE IF id \in Ready THEN "ready"
                        ELSE IF id \in answered THEN "delivered" ELSE "lost"
  BY DEF StatusOf, PlacesApart

LEMMA StatusAtNext ==
  ASSUME PlacesApart', NEW id \in 1..MaxTasks
  PROVE  StatusOf(id)' = IF id > accepted' THEN "new"
                         ELSE IF id \in Queued' THEN "queued"
                         ELSE IF id \in InHand' THEN "running"
                         ELSE IF id \in Ready' THEN "ready"
                         ELSE IF id \in answered' THEN "delivered" ELSE "lost"
  BY DEF StatusOf, PlacesApart

LEMMA FrontOfTasks ==
  ASSUME PoolInv, OrderInv, tasks # <<>>
  PROVE  /\ Head(tasks) \in Queued /\ Contract!Oldest(Queued) = Head(tasks)
         /\ {Tail(tasks)[i] : i \in DOMAIN Tail(tasks)} = Queued \ {Head(tasks)}
<1>1. /\ Head(tasks) = tasks[1] /\ Len(tasks) \in Nat \ {0} /\ DOMAIN tasks = 1..Len(tasks)
      /\ DOMAIN Tail(tasks) = 1..(Len(tasks) - 1)
      /\ \A i \in 1..(Len(tasks) - 1) : Tail(tasks)[i] = tasks[i + 1]
  BY IdTypes, TailElements
<1>2. 1 \in DOMAIN tasks /\ \A i \in DOMAIN tasks : i # 1 => tasks[1] < tasks[i]
  BY <1>1 DEF OrderInv, PendingAscend
<1>3. \A i \in DOMAIN tasks : tasks[i] \in Nat BY IdTypes
<1>4. Contract!Oldest(Queued) = tasks[1]
  <2>1. Queued \in SUBSET Nat /\ tasks[1] \in Queued BY <1>2, <1>3 DEF Queued
  <2>2. \A m \in Queued : tasks[1] <= m BY <1>2, <1>3 DEF Queued
  <2> QED BY <2>1, <2>2, OldestIs
<1>5. ASSUME NEW id \in Queued, id # tasks[1]
      PROVE  \E i \in 1..(Len(tasks) - 1) : id = tasks[i + 1]
  <2>1. PICK k \in 1..Len(tasks) : id = tasks[k] BY <1>1 DEF Queued
  <2>2. k - 1 \in 1..(Len(tasks) - 1) /\ (k - 1) + 1 = k BY <1>1, <1>5, <2>1
  <2> QED BY <2>1, <2>2
<1>6. \A i \in 1..(Len(tasks) - 1) : tasks[i + 1] \in Queued /\ tasks[i + 1] # tasks[1]
  BY <1>1, <1>2, <1>3 DEF Queued
<1>7. {Tail(tasks)[i] : i \in DOMAIN Tail(tasks)} = Queued \ {tasks[1]}
  <2>1. {Tail(tasks)[i] : i \in DOMAIN Tail(tasks)} = {tasks[i + 1] : i \in 1..(Len(tasks) - 1)}
    BY <1>1
  <2> QED BY <1>5, <1>6, <2>1
<1> QED BY <1>1, <1>2, <1>4, <1>7 DEF Queued

LEMMA FrontOfResults ==
  ASSUME PoolInv, OrderInv, results # <<>>
  PROVE  /\ Head(results) \in Ready
         /\ {Tail(results)[i] : i \in DOMAIN Tail(results)} = Ready \ {Head(results)}
<1>1. /\ Head(results) = results[1] /\ Len(results) \in Nat \ {0}
      /\ DOMAIN results = 1..Len(results) /\ DOMAIN Tail(results) = 1..(Len(results) - 1)
      /\ \A i \in 1..(Len(results) - 1) : Tail(results)[i] = results[i + 1]
  BY IdTypes, TailElements
<1>2. 1 \in DOMAIN results /\ \A i \in DOMAIN results : i # 1 => results[1] # results[i]
  BY <1>1 DEF OrderInv, OnePlaceEach
<1>3. ASSUME NEW id \in Ready, id # results[1]
      PROVE  \E i \in 1..(Len(results) - 1) : id = results[i + 1]
  <2>1. PICK k \in 1..Len(results) : id = results[k] BY <1>1 DEF Ready
  <2>2. k - 1 \in 1..(Len(results) - 1) /\ (k - 1) + 1 = k BY <1>1, <1>3, <2>1
  <2> QED BY <2>1, <2>2
<1>4. \A i \in 1..(Len(results) - 1) : results[i + 1] \in Ready /\ results[i + 1] # results[1]
  BY <1>1, <1>2 DEF Ready
<1>5. {Tail(results)[i] : i \in DOMAIN Tail(results)} = Ready \ {results[1]}
  <2>1. {Tail(results)[i] : i \in DOMAIN Tail(results)}
          = {results[i + 1] : i \in 1..(Len(results) - 1)}
    BY <1>1
  <2> QED BY <1>3, <1>4, <2>1
<1> QED BY <1>1, <1>2, <1>5 DEF Ready

(* The elements after a push. *)
LEMMA PushedElements ==
  ASSUME NEW S, NEW q \in Seq(S), NEW x \in S
  PROVE  {Append(q, x)[i] : i \in DOMAIN Append(q, x)} = {q[i] : i \in DOMAIN q} \cup {x}
<1>1. /\ DOMAIN Append(q, x) = 1..(Len(q) + 1) /\ DOMAIN q = 1..Len(q) /\ Len(q) \in Nat
      /\ \A i \in 1..Len(q) : Append(q, x)[i] = q[i]
      /\ Append(q, x)[Len(q) + 1] = x
  BY AppendElements, Elements
<1>2. 1..(Len(q) + 1) = (1..Len(q)) \cup {Len(q) + 1} BY <1>1
<1> QED BY <1>1, <1>2

(* What a worker takes in hand and what it puts down. *)
LEMMA HandChanges ==
  ASSUME PoolInv, OrderInv, NEW w \in Workers
  PROVE  /\ \A id \in Nat \ {0} : task[w] = 0 /\ task' = [task EXCEPT ![w] = id]
                                     => InHand' = InHand \cup {id}
         /\ task[w] # 0 /\ task' = [task EXCEPT ![w] = 0]
                => task[w] \in InHand /\ InHand' = InHand \ {task[w]}
<1> USE IdTypes
<1>1. ASSUME NEW id \in Nat \ {0}, task[w] = 0, task' = [task EXCEPT ![w] = id]
      PROVE  InHand' = InHand \cup {id}
  <2>1. task'[w] = id /\ \A v \in Workers \ {w} : task'[v] = task[v] BY <1>1
  <2> QED BY <1>1, <2>1 DEF InHand
<1>2. ASSUME task[w] # 0, task' = [task EXCEPT ![w] = 0]
      PROVE  task[w] \in InHand /\ InHand' = InHand \ {task[w]}
  <2>1. task'[w] = 0 /\ \A v \in Workers \ {w} : task'[v] = task[v] BY <1>2
  <2>2. \A v \in Workers \ {w} : task[v] # task[w] BY <1>2 DEF OrderInv, OnePlaceEach
  <2> QED BY <1>2, <2>1, <2>2 DEF InHand
<1> QED BY <1>1, <1>2

(* The results after the eviction loop: all, or all but the oldest of a    *)
(* full lossy deque.                                                       *)
LEMMA EvictedSet ==
  ASSUME PoolInv, OrderInv
  PROVE  \/ /\ Evicted = results /\ (Blocking \/ HasRoom)
            /\ {Evicted[i] : i \in DOMAIN Evicted} = Ready
         \/ /\ ~Blocking /\ Len(results) = ResultCapacity /\ results # <<>>
            /\ Evicted = Tail(results)
            /\ {Evicted[i] : i \in DOMAIN Evicted} = Ready \ {Head(results)}
<1>1. CASE Blocking \/ HasRoom BY <1>1 DEF Evicted, Ready
<1>2. CASE ~(Blocking \/ HasRoom)
  <2>1. Len(results) = ResultCapacity /\ ResultCapacity \in Nat \ {0} /\ Len(results) \in Nat
    <3>1. ResultCapacity \in Nat \ {0} /\ Len(results) \in Nat
      BY IdTypes, ResultCapacityPositive
    <3>2. Len(results) <= ResultCapacity /\ ~(Len(results) < ResultCapacity)
      BY <1>2 DEF HasRoom, PoolInv, WithinCapacity
    <3> QED BY <3>1, <3>2
  <2>2. Len(Evicted) < ResultCapacity BY <1>2, EvictedFacts DEF PoolInv
  <2>3. Evicted # results BY <2>1, <2>2
  <2>4. results # <<>> /\ Evicted = Tail(results) BY <2>3, EvictedFacts DEF PoolInv
  <2> QED BY <1>2, <2>1, <2>4, FrontOfResults
<1> QED BY <1>1, <1>2

(* PoolContract counts with its own copy of Cardinality. *)
LEMMA SameCount == ASSUME NEW S PROVE Contract!Cardinality(S) = Cardinality(S)
  BY DEF Contract!Cardinality, Cardinality

LEMMA PoliciesKept ==
  ASSUME options' = options, stop' = stop
  PROVE  UNCHANGED <<Contract!policies, stop>>
  BY DEF Contract!policies, Blocking

(* A task accepted takes the next number; an evicted one is lost. *)
LEMMA SubmitImplements ==
  ASSUME PoolInv, OrderInv, PlacesApart, PlacesApart', NEW s \in Submitters, TrySubmit(s)
  PROVE  Contract!Submit
<1>1. PICK n \in Nat : n = accepted + 1 BY DEF PlacesApart
<1>2. /\ ~stop /\ stop' = stop /\ options' = options /\ accepted < MaxTasks /\ accepted' = n
      /\ Ready' = Ready /\ InHand' = InHand /\ answered' = answered /\ results' = results
  BY <1>1 DEF TrySubmit, Ready, InHand
<1>3. /\ n \in 1..MaxTasks /\ n > accepted
      /\ \A id \in 1..MaxTasks : id > accepted' <=> id > accepted /\ id # n
      /\ \A id \in Queued : id # n /\ id \in 1..MaxTasks /\ ~(id > accepted)
  BY <1>1, <1>2 DEF PlacesApart
<1>4. Contract!In("new") # {} /\ Contract!Oldest(Contract!In("new")) = n
  <2>1. Contract!In("new") = n..MaxTasks BY <1>1, StatusIsPlace
  <2>2. n..MaxTasks \in SUBSET Nat /\ n \in n..MaxTasks /\ \A m \in n..MaxTasks : n <= m
    BY <1>3 DEF PlacesApart
  <2> QED BY <2>1, <2>2, OldestIs
<1>5. /\ Contract!In("queued") = Queued
      /\ Contract!Cardinality(Contract!In("queued")) = Len(tasks)
  BY StatusIsPlace, QueuedSize, SameCount
<1>6. Len(tasks) \in Nat /\ tasks \in Seq(1..MaxTasks) /\ Len(tasks) <= QueueCapacity
  BY IdTypes DEF PoolInv, WithinCapacity
<1>7. UNCHANGED <<Contract!policies, stop>> BY <1>2, PoliciesKept
<1>8. CASE Len(tasks) < QueueCapacity
  <2>1. Queued' = Queued \cup {n}
    <3>1. tasks' = Append(tasks, n) BY <1>1, <1>6, <1>8, PoolAssumption DEF TrySubmit
    <3> QED BY <1>3, <1>6, <3>1, PushedElements DEF Queued
  <2>2. \A id \in 1..MaxTasks : StatusOf(id)' = IF id = n THEN "queued" ELSE StatusOf(id)
    BY <1>2, <1>3, <2>1, StatusAt, StatusAtNext
  <2>3. abstractStatus' = [abstractStatus EXCEPT ![n] = "queued"]
    BY <1>3, <2>2 DEF abstractStatus
  <2> QED BY <1>2, <1>4, <1>5, <1>7, <1>8, <2>3 DEF Contract!Submit, abstractStatus
<1>9. CASE ~(Len(tasks) < QueueCapacity)
  <2>1. /\ Len(tasks) = QueueCapacity /\ tasks # <<>>
        /\ options.task_queue_overflow = "DropOldestPendingTask"
        /\ tasks' = Append(Tail(tasks), n)
    BY <1>1, <1>6, <1>9, PoolAssumption DEF TrySubmit
  <2>2. PICK old \in Queued : old = Head(tasks) BY <2>1, FrontOfTasks
  <2>3. Queued' = (Queued \ {old}) \cup {n}
    <3>1. Tail(tasks) \in Seq(1..MaxTasks) BY <1>6, <2>1, TailElements
    <3>2. {Tail(tasks)[i] : i \in DOMAIN Tail(tasks)} = Queued \ {old}
      BY <2>1, <2>2, FrontOfTasks
    <3>3. {Append(Tail(tasks), n)[i] : i \in DOMAIN Append(Tail(tasks), n)}
            = {Tail(tasks)[i] : i \in DOMAIN Tail(tasks)} \cup {n}
      BY <1>3, <3>1, PushedElements
    <3> QED BY <2>1, <3>2, <3>3 DEF Queued
  <2>4. \A id \in 1..MaxTasks :
          StatusOf(id)' = IF id = n THEN "queued" ELSE IF id = old THEN "lost" ELSE StatusOf(id)
    <3>1. old \notin InHand /\ old \notin Ready /\ old \notin answered
      BY DEF PlacesApart
    <3> QED BY <1>2, <1>3, <2>3, <3>1, StatusAt, StatusAtNext
  <2>5. abstractStatus' = [abstractStatus EXCEPT ![n] = "queued", ![old] = "lost"]
    BY <1>3, <2>4 DEF abstractStatus
  <2>6. Contract!Oldest(Contract!In("queued")) = old BY <1>5, <2>1, <2>2, FrontOfTasks
  <2> QED BY <1>2, <1>4, <1>5, <1>7, <2>1, <2>5, <2>6 DEF Contract!Submit, abstractStatus
<1> QED BY <1>8, <1>9

(* A worker takes the oldest pending task. *)
LEMMA TakeImplements ==
  ASSUME PoolInv, OrderInv, PlacesApart, PlacesApart', NEW w \in Workers, TakeTask(w)
  PROVE  Contract!Start
<1>1. /\ tasks # <<>> /\ tasks' = Tail(tasks) /\ task' = [task EXCEPT ![w] = Head(tasks)]
      /\ Ready' = Ready /\ answered' = answered /\ accepted' = accepted
      /\ stop' = stop /\ options' = options /\ task[w] = 0 /\ results' = results
  BY DEF TakeTask, Ready, PoolInv, HandMatchesPlace
<1>2. PICK old \in Queued : old = Head(tasks) BY <1>1, FrontOfTasks
<1>3. Queued' = Queued \ {old} BY <1>1, <1>2, FrontOfTasks DEF Queued
<1>4. /\ old \in Nat \ {0} /\ old \in 1..MaxTasks /\ ~(old > accepted)
      /\ old \notin InHand /\ old \notin Ready /\ old \notin answered
  BY DEF PlacesApart
<1>5. InHand' = InHand \cup {old} BY <1>1, <1>2, <1>4, HandChanges
<1>6. \A id \in 1..MaxTasks : StatusOf(id)' = IF id = old THEN "running" ELSE StatusOf(id)
  BY <1>1, <1>3, <1>4, <1>5, StatusAt, StatusAtNext
<1>7. abstractStatus' = [abstractStatus EXCEPT ![old] = "running"]
  BY <1>4, <1>6 DEF abstractStatus
<1>8. /\ Contract!In("queued") # {} /\ Contract!Oldest(Contract!In("queued")) = old
      /\ Contract!Cardinality(Contract!In("running")) < Cardinality(Workers)
  BY <1>1, <1>2, StatusIsPlace, FrontOfTasks, SameCount, IdleWorker
<1>9. UNCHANGED <<Contract!policies, stop>> BY <1>1, PoliciesKept
<1> QED BY <1>1, <1>7, <1>8, <1>9 DEF Contract!Start, abstractStatus

(* The oldest result is handed to the caller. *)
LEMMA PopImplements ==
  ASSUME PoolInv, OrderInv, PlacesApart, PlacesApart', NEW p \in Poppers, TryPopResult(p)
  PROVE  Contract!Deliver
<1>1. /\ results # <<>> /\ results' = Tail(results) /\ answered' = answered \cup {Head(results)}
      /\ Queued' = Queued /\ InHand' = InHand /\ accepted' = accepted
      /\ stop' = stop /\ options' = options
  BY DEF TryPopResult, Queued, InHand
<1>2. PICK old \in Ready : old = Head(results) BY <1>1, FrontOfResults
<1>3. Ready' = Ready \ {old} BY <1>1, <1>2, FrontOfResults DEF Ready
<1>4. /\ old \in 1..MaxTasks /\ ~(old > accepted)
      /\ old \notin InHand /\ old \notin Queued /\ old \notin answered
  BY DEF PlacesApart
<1>5. \A id \in 1..MaxTasks : StatusOf(id)' = IF id = old THEN "delivered" ELSE StatusOf(id)
  BY <1>1, <1>2, <1>3, <1>4, StatusAt, StatusAtNext
<1>6. abstractStatus' = [abstractStatus EXCEPT ![old] = "delivered"]
  BY <1>4, <1>5 DEF abstractStatus
<1>7. UNCHANGED <<Contract!policies, stop>> BY <1>1, PoliciesKept
<1> QED BY <1>1, <1>2, <1>6, <1>7 DEF Contract!Deliver, abstractStatus

(* A result is pushed, at the cost of the oldest one of a full lossy deque. *)
LEMMA PushImplements ==
  ASSUME PoolInv, OrderInv, PlacesApart, PlacesApart', NEW w \in Workers, PushResult(w)
  PROVE  \E id \in Contract!Ids : Contract!Finish(id)
<1>1. /\ ~stop /\ results' = Append(Evicted, task[w]) /\ task' = [task EXCEPT ![w] = 0]
      /\ Queued' = Queued /\ accepted' = accepted /\ answered' = answered
      /\ stop' = stop /\ options' = options /\ task[w] # 0 /\ (Blocking => HasRoom)
  BY DEF PushResult, Queued, PoolInv, HandMatchesPlace
<1>2. PICK id \in InHand : id = task[w] BY <1>1, HandChanges
<1>3. InHand' = InHand \ {id} BY <1>1, <1>2, HandChanges
<1>4. /\ id \in 1..MaxTasks /\ ~(id > accepted)
      /\ id \notin Ready /\ id \notin Queued /\ id \notin answered
  BY DEF PlacesApart
<1>5. Ready' = {Evicted[i] : i \in DOMAIN Evicted} \cup {id}
  <2>1. PICK q \in Seq(1..MaxTasks) : q = Evicted BY EvictedFacts DEF PoolInv
  <2>2. {Append(q, id)[i] : i \in DOMAIN Append(q, id)} = {q[i] : i \in DOMAIN q} \cup {id}
    <3>1. PICK S : S = 1..MaxTasks OBVIOUS
    <3>2. q \in Seq(S) /\ id \in S BY ONLY <1>4, <3>1, q \in Seq(1..MaxTasks)
    <3> QED BY ONLY <3>2, PushedElements
  <2>3. results' = Append(q, id) BY <1>1, <1>2, <2>1
  <2> QED BY ONLY <2>1, <2>2, <2>3 DEF Ready
<1>6. abstractStatus[id] = "running" BY <1>4, StatusAt DEF abstractStatus
<1>7. UNCHANGED <<Contract!policies, stop>> BY <1>1, PoliciesKept
<1>8. CASE /\ Evicted = results /\ (Blocking \/ HasRoom)
           /\ {Evicted[i] : i \in DOMAIN Evicted} = Ready
  <2>1. \A n \in 1..MaxTasks : StatusOf(n)' = IF n = id THEN "ready" ELSE StatusOf(n)
    BY <1>1, <1>3, <1>4, <1>5, <1>8, StatusAt, StatusAtNext
  <2>2. abstractStatus' = [abstractStatus EXCEPT ![id] = "ready"]
    BY <1>4, <2>1 DEF abstractStatus
  <2>3. Len(results) < ResultCapacity BY <1>1, <1>8 DEF HasRoom
  <2>4. results' = Append(results, id) BY <1>1, <1>2, <1>8
  <2>5. Contract!Finish(id)
    BY <1>1, <1>6, <1>7, <2>2, <2>3, <2>4 DEF Contract!Finish, abstractStatus
  <2> QED BY <1>4, <2>5 DEF Contract!Ids
<1>9. CASE /\ ~Blocking /\ Len(results) = ResultCapacity /\ results # <<>>
           /\ Evicted = Tail(results)
           /\ {Evicted[i] : i \in DOMAIN Evicted} = Ready \ {Head(results)}
  <2>1. PICK old \in Ready : old = Head(results) BY <1>9, FrontOfResults
  <2>2. /\ old \in 1..MaxTasks /\ ~(old > accepted) /\ old # id
        /\ old \notin InHand /\ old \notin Queued /\ old \notin answered
    BY <1>4 DEF PlacesApart
  <2>3. \A n \in 1..MaxTasks :
          StatusOf(n)' = IF n = id THEN "ready" ELSE IF n = old THEN "lost" ELSE StatusOf(n)
    BY <1>1, <1>3, <1>4, <1>5, <1>9, <2>1, <2>2, StatusAt, StatusAtNext
  <2>4. abstractStatus' = [abstractStatus EXCEPT ![id] = "ready", ![old] = "lost"]
    BY <1>4, <2>2, <2>3 DEF abstractStatus
  <2>5. results' = Append(Tail(results), id) BY <1>1, <1>2, <1>9
  <2>6. Contract!Finish(id)
    BY <1>1, <1>6, <1>7, <1>9, <2>1, <2>4, <2>5 DEF Contract!Finish, abstractStatus
  <2> QED BY <1>4, <2>6 DEF Contract!Ids
<1> QED BY <1>8, <1>9, EvictedSet

(* A worker that finds the pool stopped drops its result, after the        *)
(* eviction loop has dropped the oldest one of a full lossy deque.         *)
LEMMA ExitImplements ==
  ASSUME PoolInv, OrderInv, PlacesApart, PlacesApart', NEW w \in Workers, ExitWithResult(w)
  PROVE  \E id \in Contract!Ids : Contract!Abandon(id)
<1>1. /\ stop /\ results' = Evicted /\ task' = [task EXCEPT ![w] = 0]
      /\ Queued' = Queued /\ accepted' = accepted /\ answered' = answered
      /\ stop' = stop /\ options' = options /\ task[w] # 0
  BY DEF ExitWithResult, Queued, PoolInv, HandMatchesPlace
<1>2. PICK id \in InHand : id = task[w] BY <1>1, HandChanges
<1>3. InHand' = InHand \ {id} BY <1>1, <1>2, HandChanges
<1>4. /\ id \in 1..MaxTasks /\ ~(id > accepted)
      /\ id \notin Ready /\ id \notin Queued /\ id \notin answered
  BY DEF PlacesApart
<1>5. Ready' = {Evicted[i] : i \in DOMAIN Evicted} BY <1>1 DEF Ready
<1>6. abstractStatus[id] = "running" BY <1>4, StatusAt DEF abstractStatus
<1>7. UNCHANGED <<Contract!policies, stop>> BY <1>1, PoliciesKept
<1>8. CASE /\ Evicted = results /\ (Blocking \/ HasRoom)
           /\ {Evicted[i] : i \in DOMAIN Evicted} = Ready
  <2>1. \A n \in 1..MaxTasks : StatusOf(n)' = IF n = id THEN "lost" ELSE StatusOf(n)
    BY <1>1, <1>3, <1>4, <1>5, <1>8, StatusAt, StatusAtNext
  <2>2. abstractStatus' = [abstractStatus EXCEPT ![id] = "lost"]
    BY <1>4, <2>1 DEF abstractStatus
  <2>3. Contract!Abandon(id)
    BY <1>1, <1>6, <1>7, <1>8, <2>2 DEF Contract!Abandon, abstractStatus
  <2> QED BY <1>4, <2>3 DEF Contract!Ids
<1>9. CASE /\ ~Blocking /\ Len(results) = ResultCapacity /\ results # <<>>
           /\ Evicted = Tail(results)
           /\ {Evicted[i] : i \in DOMAIN Evicted} = Ready \ {Head(results)}
  <2>1. PICK old \in Ready : old = Head(results) BY <1>9, FrontOfResults
  <2>2. /\ old \in 1..MaxTasks /\ ~(old > accepted) /\ old # id
        /\ old \notin InHand /\ old \notin Queued /\ old \notin answered
    BY <1>4 DEF PlacesApart
  <2>3. \A n \in 1..MaxTasks :
          StatusOf(n)' = IF n = id THEN "lost" ELSE IF n = old THEN "lost" ELSE StatusOf(n)
    BY <1>1, <1>3, <1>4, <1>5, <1>9, <2>1, <2>2, StatusAt, StatusAtNext
  <2>4. abstractStatus' = [abstractStatus EXCEPT ![id] = "lost", ![old] = "lost"]
    BY <1>4, <2>2, <2>3 DEF abstractStatus
  <2>5. Contract!Abandon(id)
    BY <1>1, <1>6, <1>7, <1>9, <2>1, <2>4 DEF Contract!Abandon, abstractStatus
  <2> QED BY <1>4, <2>5 DEF Contract!Ids
<1> QED BY <1>8, <1>9, EvictedSet

(***************************************************************************)
(* Every other step is a stop of the contract or changes nothing of it.    *)
(***************************************************************************)
LEMMA RestImplements ==
  ASSUME PoolInv, [Next]_vars, UNCHANGED places
  PROVE  Contract!Stop \/ UNCHANGED <<Contract!policies, abstractStatus, stop, results>>
<1>1. Queued' = Queued /\ InHand' = InHand /\ Ready' = Ready
  BY DEF places, Queued, InHand, Ready
<1>2. abstractStatus' = abstractStatus
  BY <1>1 DEF places, abstractStatus, StatusOf
<1>3. UNCHANGED Contract!policies BY StopIsFinal DEF Contract!policies, Blocking
<1>4. stop' = stop \/ stop' = TRUE BY StopIsFinal
<1>5. results' = results BY DEF places
<1> QED BY <1>2, <1>3, <1>4, <1>5 DEF Contract!Stop, abstractStatus

LEMMA NextImplements ==
  PoolInv /\ OrderInv /\ [Next]_vars
    => [Contract!ContractNext]_<<Contract!policies, abstractStatus, stop, results>>
<1> SUFFICES ASSUME PoolInv, OrderInv, [Next]_vars
             PROVE  Contract!ContractNext \/ UNCHANGED <<Contract!policies, abstractStatus, stop, results>>
  OBVIOUS
<1>1. PlacesApart /\ PlacesApart' BY PlacesDisjoint, PlacesDisjointNext
<1>2. CASE Moves
  BY <1>1, <1>2, SubmitImplements, TakeImplements, PopImplements, PushImplements, ExitImplements
  DEF Moves, Contract!ContractNext
<1>3. CASE UNCHANGED places
  BY <1>3, RestImplements DEF Contract!ContractNext
<1> QED BY <1>2, <1>3, OthersMoveNothing

LEMMA InitImplements == Init => Contract!ContractInit
<1> SUFFICES ASSUME Init PROVE Contract!ContractInit OBVIOUS
<1>1. \A id \in 1..MaxTasks : StatusOf(id) = "new"
  BY InitPoolInv, InitOrder, PlacesDisjoint, StatusAt DEF Init
<1> QED BY <1>1 DEF Init, Contract!ContractInit, Contract!Ids, Blocking

(* The pool implements PoolContract: with any number of threads and under  *)
(* every policy, ids change status only as the contract allows.            *)
THEOREM ContractImplemented == Spec => ImplementsContract
<1> USE DEF abstractStatus
<1>1. PoolInv /\ OrderInv /\ [Next]_vars
        => [Contract!ContractNext]_<<Contract!policies, abstractStatus, stop, results>>
  BY NextImplements
<1>2. Init => Contract!ContractInit BY InitImplements
<1> QED BY <1>1, <1>2, OrderInvariant, PTL DEF Spec, ImplementsContract, Contract!ContractSpec

=============================================================================
