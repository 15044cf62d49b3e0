---------------------------- MODULE PoolContract ----------------------------
(***************************************************************************)
(* What WorkerPool (worker_pool.hpp) promises its caller, without threads, *)
(* mutexes or notifications: every accepted task moves from queued to      *)
(* running to ready to delivered, is started in order of acceptance, is    *)
(* delivered in order of completion, and is lost only where the documented *)
(* policies or a stop allow it, the oldest first.                          *)
(***************************************************************************)
EXTENDS Naturals, FiniteSets, Sequences

CONSTANTS NumWorkers, QueueCapacity, ResultCapacity, MaxTasks

VARIABLES
    dropsTasks, dropsResults,   \* the policies, fixed for the life of a pool
    status, stopped,
    ready                       \* ids of available results, oldest first

policies == <<dropsTasks, dropsResults>>

Ids == 1..MaxTasks
Status == {"new", "queued", "running", "ready", "delivered", "lost"}
In(st) == {id \in Ids : status[id] = st}
Oldest(S) == CHOOSE id \in S : \A other \in S : id <= other

ContractInit ==
    /\ dropsTasks \in BOOLEAN /\ dropsResults \in BOOLEAN
    /\ status = [id \in Ids |-> "new"] /\ stopped = FALSE /\ ready = <<>>

(* try_submit returned TRUE. *)
Submit ==
    /\ ~stopped
    /\ In("new") # {}
    /\ \/ /\ Cardinality(In("queued")) < QueueCapacity
          /\ status' = [status EXCEPT ![Oldest(In("new"))] = "queued"]
       \/ /\ dropsTasks /\ Cardinality(In("queued")) = QueueCapacity
          /\ status' = [status EXCEPT ![Oldest(In("new"))] = "queued",
                                      ![Oldest(In("queued"))] = "lost"]
    /\ UNCHANGED <<policies, stopped, ready>>

(* A worker takes the task that has waited longest. *)
Start ==
    /\ In("queued") # {}
    /\ Cardinality(In("running")) < NumWorkers
    /\ status' = [status EXCEPT ![Oldest(In("queued"))] = "running"]
    /\ UNCHANGED <<policies, stopped, ready>>

(* The result of the handler becomes available; a full lossy result queue *)
(* loses its oldest one.                                                  *)
Finish(id) ==
    /\ status[id] = "running"
    /\ ~stopped
    /\ \/ /\ Len(ready) < ResultCapacity
          /\ status' = [status EXCEPT ![id] = "ready"]
          /\ ready' = Append(ready, id)
       \/ /\ dropsResults /\ Len(ready) = ResultCapacity
          /\ status' = [status EXCEPT ![id] = "ready", ![Head(ready)] = "lost"]
          /\ ready' = Append(Tail(ready), id)
    /\ UNCHANGED <<policies, stopped>>

(* After a stop a running handler's result is discarded; a full lossy     *)
(* result queue loses its oldest result with it.                          *)
Abandon(id) ==
    /\ status[id] = "running"
    /\ stopped
    /\ \/ /\ status' = [status EXCEPT ![id] = "lost"]
          /\ UNCHANGED ready
       \/ /\ dropsResults /\ Len(ready) = ResultCapacity
          /\ status' = [status EXCEPT ![id] = "lost", ![Head(ready)] = "lost"]
          /\ ready' = Tail(ready)
    /\ UNCHANGED <<policies, stopped>>

(* try_pop_result returned TRUE, with the oldest result; results stay      *)
(* available after a stop.                                                 *)
Deliver ==
    /\ ready # <<>>
    /\ status' = [status EXCEPT ![Head(ready)] = "delivered"]
    /\ ready' = Tail(ready)
    /\ UNCHANGED <<policies, stopped>>

Stop == stopped' = TRUE /\ UNCHANGED <<policies, status, ready>>

ContractNext ==
    \/ Submit \/ Start \/ Deliver \/ Stop
    \/ \E id \in Ids : Finish(id) \/ Abandon(id)

ContractSpec == ContractInit /\ [][ContractNext]_<<policies, status, stopped, ready>>

=============================================================================
