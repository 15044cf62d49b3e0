----------------------------- MODULE WorkerPool -----------------------------
(***************************************************************************)
(* The handler pool of src/src/runtime/worker_pool.cpp: I/O threads submit *)
(* tasks to a bounded deque, worker threads run the dispatcher on them and *)
(* push the results to a second bounded deque, which I/O threads pop.      *)
(*                                                                         *)
(* Atomicity.  A critical section of task_mutex_ or result_mutex_ is one   *)
(* step, except for the window that matters: a worker that has evaluated a *)
(* wait predicate to FALSE still holds the mutex until it is asleep on the *)
(* condition variable ("task_block", "result_block").  stop_ is an atomic  *)
(* that shutdown() writes WITHOUT a mutex, so its write can fall into that *)
(* window.  Everything else a critical section reads is protected by its   *)
(* mutex and stop_ never becomes FALSE again, so the whole section takes   *)
(* effect at its last read of stop_.                                       *)
(* Notifications are sent after the mutex is released: separate steps.     *)
(*                                                                         *)
(* Data.  A task is its correlation id; ids number the accepted tasks in   *)
(* the order try_submit accepted them.  The payload and the outcome of the *)
(* dispatcher (value, error, exception caught) do not influence the pool.  *)
(* Calls that return FALSE (queue full or stopped, no result) change       *)
(* nothing and are the stuttering steps of this specification.             *)
(***************************************************************************)
EXTENDS Naturals, Sequences, FiniteSets

CONSTANTS
    Workers,                \* the jthreads of workers_
    Submitters,             \* threads that call try_submit
    Poppers,                \* threads that call try_pop_result
    Stoppers,               \* threads that call shutdown (or the destructor)
    QueueCapacity,          \* task_capacity_
    ResultCapacityOverride, \* options.result_queue_capacity_override, 0: none
    MaxTasks                \* bound: tasks accepted in one behaviour

TaskQueueOverflowPolicy == {"RejectNewTask", "DropOldestPendingTask"}
ResultQueueOverflowPolicy == {"BlockWorkerUntilPopped", "DropOldestCompletedResult"}

WorkerPoolOptions == [task_queue_overflow : TaskQueueOverflowPolicy,
                      result_queue_overflow : ResultQueueOverflowPolicy]

(* The constructor throws std::invalid_argument outside these. *)
ASSUME PoolAssumption ==
    /\ IsFiniteSet(Workers) /\ Workers # {}
    /\ QueueCapacity \in Nat \ {0}
    /\ ResultCapacityOverride \in Nat
    /\ MaxTasks \in Nat

ResultCapacity == IF ResultCapacityOverride # 0 THEN ResultCapacityOverride
                                                ELSE QueueCapacity

VARIABLES
    options,    \* the overflow policies, const members of the pool
    tasks,      \* tasks_: accepted and not taken, oldest first
    results,    \* results_: completed and not popped, oldest first
    stop,       \* stop_
    worker,     \* where each worker is in worker_loop
    task,       \* the id a worker has in hand, 0 when it has none
    submitter,  \* where each submitting thread is in try_submit
    popper,     \* where each popping thread is in try_pop_result
    stopper,    \* where each stopping thread is in shutdown
    accepted,   \* history: number of tasks accepted
    answered,   \* history: ids handed to a caller of try_pop_result
    missed      \* history: workers inside the window when shutdown notified

vars == <<options, tasks, results, stop, worker, task, submitter, popper, stopper,
          accepted, answered, missed>>

WorkerAt == {"task_lock", "task_block", "task_wait", "popped", "dispatch",
             "result_lock", "result_block", "result_wait", "pushed", "done"}
CallerAt == {"idle", "notify"}
StopperAt == {"idle", "notify_task", "notify_result", "joining", "returned"}

TypeOK ==
    /\ options \in WorkerPoolOptions
    /\ tasks \in Seq(1..MaxTasks)
    /\ results \in Seq(1..MaxTasks)
    /\ stop \in BOOLEAN
    /\ worker \in [Workers -> WorkerAt]
    /\ task \in [Workers -> 0..MaxTasks]
    /\ submitter \in [Submitters -> CallerAt]
    /\ popper \in [Poppers -> CallerAt]
    /\ stopper \in [Stoppers -> StopperAt]
    /\ accepted \in 0..MaxTasks
    /\ answered \in SUBSET (1..MaxTasks)
    /\ missed \in SUBSET Workers

(* The constructor: any policies, empty deques, every worker started. *)
Init ==
    /\ options \in WorkerPoolOptions
    /\ tasks = <<>>
    /\ results = <<>>
    /\ stop = FALSE
    /\ worker = [w \in Workers |-> "task_lock"]
    /\ task = [w \in Workers |-> 0]
    /\ submitter = [s \in Submitters |-> "idle"]
    /\ popper = [p \in Poppers |-> "idle"]
    /\ stopper = [x \in Stoppers |-> "idle"]
    /\ accepted = 0
    /\ answered = {}
    /\ missed = {}

(***************************************************************************)
(* Mutexes and condition variables.                                        *)
(***************************************************************************)
At(label) == {w \in Workers : worker[w] = label}

TaskMutexFree == At("task_block") = {}
ResultMutexFree == At("result_block") = {}

Move(w, label) == worker' = [worker EXCEPT ![w] = label]

(* A woken worker competes for the mutex again and re-evaluates its predicate. *)
NotifyOne(asleep, awake) ==
    \/ At(asleep) = {} /\ UNCHANGED worker
    \/ \E w \in At(asleep) : Move(w, awake)

NotifyAll(asleep, awake) ==
    worker' = [w \in Workers |-> IF worker[w] = asleep THEN awake ELSE worker[w]]

(***************************************************************************)
(* try_submit, for the calls that return TRUE.                             *)
(***************************************************************************)
TrySubmit(s) ==
    /\ submitter[s] = "idle"
    /\ TaskMutexFree
    /\ ~stop
    /\ accepted < MaxTasks
    /\ \/ /\ Len(tasks) < QueueCapacity
          /\ tasks' = Append(tasks, accepted + 1)
       \/ /\ Len(tasks) >= QueueCapacity
          /\ options.task_queue_overflow = "DropOldestPendingTask"
          /\ tasks' = Append(Tail(tasks), accepted + 1)
    /\ accepted' = accepted + 1
    /\ submitter' = [submitter EXCEPT ![s] = "notify"]
    /\ UNCHANGED <<options, results, stop, worker, task, popper, stopper, answered, missed>>

(* Fault: the notification is forgotten. *)
SubmitSilently(s) ==
    /\ submitter[s] = "notify"
    /\ submitter' = [submitter EXCEPT ![s] = "idle"]
    /\ UNCHANGED <<options, tasks, results, stop, worker, task, popper, stopper, accepted, answered, missed>>

SubmitNotify(s) ==
    /\ submitter[s] = "notify"
    /\ NotifyOne("task_wait", "task_lock")
    /\ submitter' = [submitter EXCEPT ![s] = "idle"]
    /\ UNCHANGED <<options, tasks, results, stop, task, popper, stopper, accepted, answered, missed>>

(***************************************************************************)
(* try_pop_result, for the calls that return TRUE.                         *)
(***************************************************************************)
(* Fault: the front of results_ is moved out but not popped. *)
PeekResult(p) ==
    /\ popper[p] = "idle"
    /\ ResultMutexFree
    /\ results # <<>>
    /\ answered' = answered \cup {Head(results)}
    /\ popper' = [popper EXCEPT ![p] = "notify"]
    /\ UNCHANGED <<options, tasks, results, stop, worker, task, submitter, stopper, accepted, missed>>

TryPopResult(p) ==
    /\ popper[p] = "idle"
    /\ ResultMutexFree
    /\ results # <<>>
    /\ answered' = answered \cup {Head(results)}
    /\ results' = Tail(results)
    /\ popper' = [popper EXCEPT ![p] = "notify"]
    /\ UNCHANGED <<options, tasks, stop, worker, task, submitter, stopper, accepted, missed>>

(* Fault: notify_one instead of notify_all. *)
PopNotifyOne(p) ==
    /\ popper[p] = "notify"
    /\ NotifyOne("result_wait", "result_lock")
    /\ popper' = [popper EXCEPT ![p] = "idle"]
    /\ UNCHANGED <<options, tasks, results, stop, task, submitter, stopper, accepted, answered, missed>>

PopNotify(p) ==
    /\ popper[p] = "notify"
    /\ NotifyAll("result_wait", "result_lock")
    /\ popper' = [popper EXCEPT ![p] = "idle"]
    /\ UNCHANGED <<options, tasks, results, stop, task, submitter, stopper, accepted, answered, missed>>

(***************************************************************************)
(* shutdown.                                                               *)
(***************************************************************************)
ShutdownExchange(x) ==
    /\ stopper[x] = "idle"
    /\ stop' = TRUE
    /\ stopper' = [stopper EXCEPT ![x] = IF stop THEN "returned" ELSE "notify_task"]
    /\ UNCHANGED <<options, tasks, results, worker, task, submitter, popper, accepted, answered, missed>>

ShutdownNotifyTasks(x) ==
    /\ stopper[x] = "notify_task"
    /\ NotifyAll("task_wait", "task_lock")
    /\ missed' = missed \cup At("task_block")
    /\ stopper' = [stopper EXCEPT ![x] = "notify_result"]
    /\ UNCHANGED <<options, tasks, results, stop, task, submitter, popper, accepted, answered>>

ShutdownNotifyResults(x) ==
    /\ stopper[x] = "notify_result"
    /\ NotifyAll("result_wait", "result_lock")
    /\ missed' = missed \cup At("result_block")
    /\ stopper' = [stopper EXCEPT ![x] = "joining"]
    /\ UNCHANGED <<options, tasks, results, stop, task, submitter, popper, accepted, answered>>

(* Fault: the workers are detached instead of joined. *)
ShutdownDetach(x) ==
    /\ stopper[x] = "joining"
    /\ stopper' = [stopper EXCEPT ![x] = "returned"]
    /\ UNCHANGED <<options, tasks, results, stop, worker, task, submitter, popper, accepted, answered, missed>>

(* workers_.clear(): the destructor of every jthread joins it. *)
ShutdownJoin(x) ==
    /\ stopper[x] = "joining"
    /\ At("done") = Workers
    /\ stopper' = [stopper EXCEPT ![x] = "returned"]
    /\ UNCHANGED <<options, tasks, results, stop, worker, task, submitter, popper, accepted, answered, missed>>

(***************************************************************************)
(* worker_loop, first critical section.                                    *)
(***************************************************************************)
(* Fault: the predicate of the wait leaves out stop_. *)
WaitForTaskOnly(w) ==
    /\ worker[w] = "task_lock"
    /\ TaskMutexFree
    /\ tasks = <<>>
    /\ Move(w, "task_block")
    /\ UNCHANGED <<options, tasks, results, stop, task, submitter, popper, stopper, accepted, answered, missed>>

WaitForTask(w) ==
    /\ worker[w] = "task_lock"
    /\ TaskMutexFree
    /\ ~stop /\ tasks = <<>>
    /\ Move(w, "task_block")
    /\ UNCHANGED <<options, tasks, results, stop, task, submitter, popper, stopper, accepted, answered, missed>>

(* The atomic release of the mutex and the wait on the condition variable. *)
SleepOnTask(w) ==
    /\ worker[w] = "task_block"
    /\ Move(w, "task_wait")
    /\ UNCHANGED <<options, tasks, results, stop, task, submitter, popper, stopper, accepted, answered, missed>>

ExitIdle(w) ==
    /\ worker[w] = "task_lock"
    /\ TaskMutexFree
    /\ stop /\ tasks = <<>>
    /\ Move(w, "done")
    /\ UNCHANGED <<options, tasks, results, stop, task, submitter, popper, stopper, accepted, answered, missed>>

(* Fault: the worker takes the back of the deque. *)
TakeNewest(w) ==
    /\ worker[w] = "task_lock"
    /\ TaskMutexFree
    /\ tasks # <<>>
    /\ task' = [task EXCEPT ![w] = tasks[Len(tasks)]]
    /\ tasks' = SubSeq(tasks, 1, Len(tasks) - 1)
    /\ Move(w, "popped")
    /\ UNCHANGED <<options, results, stop, submitter, popper, stopper, accepted, answered, missed>>

(* A pending task is taken whether or not stop_ is set. *)
TakeTask(w) ==
    /\ worker[w] = "task_lock"
    /\ TaskMutexFree
    /\ tasks # <<>>
    /\ task' = [task EXCEPT ![w] = Head(tasks)]
    /\ tasks' = Tail(tasks)
    /\ Move(w, "popped")
    /\ UNCHANGED <<options, results, stop, submitter, popper, stopper, accepted, answered, missed>>

TakeNotify(w) ==
    /\ worker[w] = "popped"
    /\ worker' = [v \in Workers |-> IF v = w THEN "dispatch"
                                    ELSE IF worker[v] = "task_wait" THEN "task_lock"
                                    ELSE worker[v]]
    /\ UNCHANGED <<options, tasks, results, stop, task, submitter, popper, stopper, accepted, answered, missed>>

(* Fault: an exception of the dispatcher ends the worker. *)
DispatchUncaught(w) ==
    /\ worker[w] = "dispatch"
    /\ \/ Move(w, "result_lock") /\ UNCHANGED task
       \/ Move(w, "done") /\ task' = [task EXCEPT ![w] = 0]
    /\ UNCHANGED <<options, tasks, results, stop, submitter, popper, stopper, accepted, answered, missed>>

(* Fault: the correlation id is read after the task was moved from. *)
DispatchMovedFrom(w) ==
    /\ worker[w] = "dispatch"
    /\ Move(w, "result_lock")
    /\ task' = [task EXCEPT ![w] = 0]
    /\ UNCHANGED <<options, tasks, results, stop, submitter, popper, stopper, accepted, answered, missed>>

(* The dispatcher runs; an exception becomes an Internal error outcome. *)
Dispatch(w) ==
    /\ worker[w] = "dispatch"
    /\ Move(w, "result_lock")
    /\ UNCHANGED <<options, tasks, results, stop, task, submitter, popper, stopper, accepted, answered, missed>>

(***************************************************************************)
(* worker_loop, second critical section.                                   *)
(***************************************************************************)
Blocking == options.result_queue_overflow = "BlockWorkerUntilPopped"
(* Fault: one result too many. *)
HasRoomOffByOne == Len(results) <= ResultCapacity

HasRoom == Len(results) < ResultCapacity

(* Fault: the predicate of the wait leaves out stop_. *)
WaitForRoomOnly(w) ==
    /\ worker[w] = "result_lock"
    /\ ResultMutexFree
    /\ Blocking /\ ~HasRoom
    /\ Move(w, "result_block")
    /\ UNCHANGED <<options, tasks, results, stop, task, submitter, popper, stopper, accepted, answered, missed>>

WaitForRoom(w) ==
    /\ worker[w] = "result_lock"
    /\ ResultMutexFree
    /\ Blocking /\ ~stop /\ ~HasRoom
    /\ Move(w, "result_block")
    /\ UNCHANGED <<options, tasks, results, stop, task, submitter, popper, stopper, accepted, answered, missed>>

SleepOnResult(w) ==
    /\ worker[w] = "result_block"
    /\ Move(w, "result_wait")
    /\ UNCHANGED <<options, tasks, results, stop, task, submitter, popper, stopper, accepted, answered, missed>>

(* Fault: the eviction loop pops the back. *)
EvictedNewest == IF Blocking \/ HasRoom
                   THEN results
                   ELSE SubSeq(results, 1, ResultCapacity - 1)

(* The deque after the eviction loop of DropOldestCompletedResult. *)
Evicted == IF Blocking \/ HasRoom
             THEN results
             ELSE SubSeq(results, Len(results) - ResultCapacity + 2, Len(results))

PushResult(w) ==
    /\ worker[w] = "result_lock"
    /\ ResultMutexFree
    /\ ~stop
    /\ Blocking => HasRoom
    /\ results' = Append(Evicted, task[w])
    /\ task' = [task EXCEPT ![w] = 0]
    /\ Move(w, "pushed")
    /\ UNCHANGED <<options, tasks, stop, submitter, popper, stopper, accepted, answered, missed>>

(* The worker returns with its result; the eviction has already happened. *)
ExitWithResult(w) ==
    /\ worker[w] = "result_lock"
    /\ ResultMutexFree
    /\ stop
    /\ results' = Evicted
    /\ task' = [task EXCEPT ![w] = 0]
    /\ Move(w, "done")
    /\ UNCHANGED <<options, tasks, stop, submitter, popper, stopper, accepted, answered, missed>>

PushNotify(w) ==
    /\ worker[w] = "pushed"
    /\ \/ /\ At("result_wait") = {}
          /\ Move(w, "task_lock")
       \/ \E v \in At("result_wait") :
              worker' = [worker EXCEPT ![w] = "task_lock", ![v] = "result_lock"]
    /\ UNCHANGED <<options, tasks, results, stop, task, submitter, popper, stopper, accepted, answered, missed>>

(* A condition variable may wake a waiter that nobody notified. *)
SpuriousWake(w) ==
    /\ \/ worker[w] = "task_wait" /\ Move(w, "task_lock")
       \/ worker[w] = "result_wait" /\ Move(w, "result_lock")
    /\ UNCHANGED <<options, tasks, results, stop, task, submitter, popper, stopper, accepted, answered, missed>>

-----------------------------------------------------------------------------
WorkerLoop(w) ==
    \/ WaitForTask(w) \/ SleepOnTask(w) \/ ExitIdle(w)
    \/ TakeTask(w) \/ TakeNotify(w) \/ Dispatch(w)
    \/ WaitForRoom(w) \/ SleepOnResult(w)
    \/ PushResult(w) \/ ExitWithResult(w) \/ PushNotify(w)

ShutdownRest(x) ==
    ShutdownNotifyTasks(x) \/ ShutdownNotifyResults(x) \/ ShutdownJoin(x)

Next ==
    \/ \E s \in Submitters : TrySubmit(s) \/ SubmitNotify(s)
    \/ \E p \in Poppers : TryPopResult(p) \/ PopNotify(p)
    \/ \E x \in Stoppers : ShutdownExchange(x) \/ ShutdownRest(x)
    \/ \E w \in Workers : WorkerLoop(w) \/ SpuriousWake(w)

Spec == Init /\ [][Next]_vars

(***************************************************************************)
(* Fairness.  A started call or worker keeps being scheduled, the          *)
(* dispatcher returns, and no thread starves at a mutex others keep        *)
(* releasing (strong fairness).  Nobody has to call try_submit or          *)
(* shutdown, and nothing promises a spurious wake-up.                      *)
(***************************************************************************)
ThreadFairness ==
    /\ \A w \in Workers : SF_vars(WorkerLoop(w))
    /\ \A s \in Submitters : WF_vars(SubmitNotify(s))
    /\ \A p \in Poppers : WF_vars(PopNotify(p))
    /\ \A x \in Stoppers : WF_vars(ShutdownRest(x))

(* The I/O thread polls for results in every turn of its loop: not assumed *)
(* of a pool, whose shutdown must not depend on it.                        *)
PollingFairness == \A p \in Poppers : SF_vars(TryPopResult(p))

FairSpec == Spec /\ ThreadFairness

-----------------------------------------------------------------------------
(***************************************************************************)
(* Properties.                                                             *)
(***************************************************************************)
Queued == {tasks[i] : i \in DOMAIN tasks}
InHand == {task[w] : w \in Workers} \ {0}
Ready == {results[i] : i \in DOMAIN results}
Lossless == options.task_queue_overflow = "RejectNewTask" /\ Blocking

(* Neither deque ever exceeds its capacity: the assertions try_submit,     *)
(* try_pop_result and worker_loop make about their sizes.                  *)
WithinCapacity ==
    /\ Len(tasks) <= QueueCapacity
    /\ Len(results) <= ResultCapacity

(* Tasks are started in the order try_submit accepted them: the deque is   *)
(* sorted, and whatever a worker has taken is older than all it holds.     *)
StartedInOrder ==
    /\ \A i, j \in DOMAIN tasks : i < j => tasks[i] < tasks[j]
    /\ \A i \in DOMAIN tasks :
          /\ tasks[i] <= accepted
          /\ \A id \in InHand \cup Ready \cup answered : id < tasks[i]

(* A task is run once and answered at most once: no id is in the hands of  *)
(* two workers, twice among the results, or in two of the three places a   *)
(* taken task goes through.                                                *)
AnsweredOnce ==
    /\ \A v, w \in Workers : v # w /\ task[v] # 0 => task[v] # task[w]
    /\ \A i, j \in DOMAIN results : i # j => results[i] # results[j]
    /\ InHand \cap Ready = {}
    /\ InHand \cap answered = {}
    /\ Ready \cap answered = {}

(* Under the default policies, and until shutdown, no accepted task is     *)
(* ever lost: it is queued, being run, ready or answered, whatever the     *)
(* dispatcher did with it.                                                 *)
NothingLost ==
    Lossless /\ ~stop => Queued \cup InHand \cup Ready \cup answered = 1..accepted

(* Results may overtake each other, but a completed result has overtaken   *)
(* fewer tasks than there are workers (with one worker: results come in    *)
(* the order of submission).                                               *)
BoundedOvertaking ==
    \A id \in Ready \cup answered :
        Cardinality({w \in Workers : task[w] \in 1..(id - 1)}) < Cardinality(Workers)

(* No task wake-up is lost: while a task is pending and a worker sleeps on *)
(* task_cv_, a submitter still owes its notify_one, or some worker is awake *)
(* and will look at the deque or notify after having looked.               *)
NoMissedTaskWakeup ==
    tasks # <<>> /\ At("task_wait") # {} =>
        \/ \E s \in Submitters : submitter[s] = "notify"
        \/ At("task_lock") \cup At("popped") # {}

(* No result wake-up is lost: while there is room and a worker sleeps on   *)
(* result_cv_, the thread that made the room still owes its notify_all.    *)
NoMissedResultWakeup ==
    HasRoom /\ At("result_wait") # {} =>
        \E p \in Poppers : popper[p] = "notify"

(* Once shutdown has notified a condition variable, only a worker that was *)
(* between its predicate and its wait at that moment can sleep on it.      *)
SleepersWereMissed ==
    \A x \in Stoppers :
        /\ stopper[x] \in {"notify_result", "joining"} =>
              At("task_block") \cup At("task_wait") \subseteq missed
        /\ stopper[x] = "joining" =>
              At("result_block") \cup At("result_wait") \subseteq missed

(* When every call of shutdown() has returned, no worker runs any more and *)
(* none has a task in hand, so that the dispatcher may be destroyed.  (One *)
(* call alone may return early: the second caller does not join.)          *)
QuietAfterShutdown ==
    /\ \E x \in Stoppers : stopper[x] = "returned"
    /\ \A x \in Stoppers : stopper[x] \in {"idle", "returned"}
    => At("done") = Workers /\ InHand = {}

(***************************************************************************)
(* The inductive invariant behind these: which threads hold what while     *)
(* they are where.                                                         *)
(***************************************************************************)
(* A worker has a task in hand exactly from taking it to pushing it. *)
HandMatchesPlace ==
    \A w \in Workers : task[w] # 0 <=>
        worker[w] \in {"popped", "dispatch", "result_lock", "result_block", "result_wait"}

(* A predicate that was FALSE stays so while its evaluator holds the mutex *)
(* (except for stop_, which no mutex protects); only the blocking policy   *)
(* ever waits for room.                                                    *)
WindowIsClosed ==
    /\ At("task_block") # {} => tasks = <<>>
    /\ At("result_block") # {} => ~HasRoom
    /\ At("result_block") \cup At("result_wait") # {} => Blocking

(* Only shutdown sets stop_, and the call that did is at work until every  *)
(* worker is done.                                                         *)
StopHasOwner ==
    /\ \A x \in Stoppers : stopper[x] # "idle" => stop
    /\ stop => \/ \E x \in Stoppers : stopper[x] \in {"notify_task", "notify_result", "joining"}
               \/ At("done") = Workers

PoolInv ==
    /\ TypeOK
    /\ HandMatchesPlace
    /\ WindowIsClosed
    /\ StopHasOwner
    /\ WithinCapacity
    /\ NoMissedTaskWakeup
    /\ NoMissedResultWakeup
    /\ SleepersWereMissed

(* The inductive invariant behind StartedInOrder and AnsweredOnce, element *)
(* by element: pending ids ascend and are younger than every taken one,    *)
(* taken ids were accepted, and no id is in two places at once.            *)
PendingAscend ==
    \A i, j \in DOMAIN tasks : i < j => tasks[i] < tasks[j]

PendingAreYounger ==
    \A i \in DOMAIN tasks :
        /\ \A w \in Workers : task[w] < tasks[i]
        /\ \A j \in DOMAIN results : results[j] < tasks[i]
        /\ \A id \in answered : id < tasks[i]

IdsWereAccepted ==
    /\ \A i \in DOMAIN tasks : tasks[i] <= accepted
    /\ \A w \in Workers : task[w] <= accepted
    /\ \A j \in DOMAIN results : results[j] <= accepted
    /\ \A id \in answered : id <= accepted

OnePlaceEach ==
    /\ \A v, w \in Workers : v # w /\ task[v] # 0 => task[v] # task[w]
    /\ \A i, j \in DOMAIN results : i # j => results[i] # results[j]
    /\ \A w \in Workers, j \in DOMAIN results : task[w] # results[j]
    /\ \A w \in Workers : task[w] \notin answered
    /\ \A j \in DOMAIN results : results[j] \notin answered

OrderInv == PendingAscend /\ PendingAreYounger /\ IdsWereAccepted /\ OnePlaceEach

(* NothingLost, id by id. *)
Located(id) ==
    \/ \E i \in DOMAIN tasks : tasks[i] = id
    \/ \E w \in Workers : task[w] = id
    \/ \E j \in DOMAIN results : results[j] = id
    \/ id \in answered

AllLocated == Lossless /\ ~stop => \A id \in 1..accepted : Located(id)

(* BoundedOvertaking without counting: for every completed result there is *)
(* a worker that is not running an older task.                             *)
Passed(id) == \E w \in Workers : task[w] = 0 \/ task[w] > id

ResultsWerePassed ==
    /\ \A j \in DOMAIN results : Passed(results[j])
    /\ \A id \in answered : Passed(id)

(* The pool implements its contract: ids change status only as PoolContract *)
(* allows: results are delivered oldest first, and entries are lost only   *)
(* by a lossy policy, oldest first, or by a stop.                          *)
StatusOf(id) ==
    CASE id > accepted -> "new"
      [] id \in Queued -> "queued"
      [] id \in InHand -> "running"
      [] id \in Ready -> "ready"
      [] id \in answered -> "delivered"
      [] OTHER -> "lost"

Contract == INSTANCE PoolContract WITH
    NumWorkers <- Cardinality(Workers),
    dropsTasks <- options.task_queue_overflow = "DropOldestPendingTask",
    dropsResults <- ~Blocking,
    status <- [id \in 1..MaxTasks |-> StatusOf(id)],
    stopped <- stop,
    ready <- results

ImplementsContract == Contract!ContractSpec

(* With the default policies and an I/O thread that keeps polling, every   *)
(* accepted task is answered unless the pool is shut down.                 *)
EventuallyAnswered ==
    PollingFairness /\ Lossless =>
        \A id \in 1..MaxTasks : (accepted >= id) ~> (id \in answered \/ stop)

(* shutdown() "stops workers and joins threads": the call returns.         *)
ShutdownJoins ==
    \A x \in Stoppers : (stopper[x] = "notify_task") ~> (stopper[x] = "returned")

(* A lost wake-up is the only thing that can keep shutdown() from          *)
(* returning: full queues, running handlers and blocked workers cannot.    *)
JoinsUnlessMissed ==
    \A x \in Stoppers :
        (stopper[x] = "notify_task") ~> (stopper[x] = "returned" \/ missed # {})

=============================================================================
