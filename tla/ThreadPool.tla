----------------------------- MODULE ThreadPool -----------------------------
(***************************************************************************)
(* The thread pool of thread_folder/thread_pool.c: one mutex, one          *)
(* condition variable, a list of tasks and a list of workers.  A step ends *)
(* where another thread can come between: at a lock, at a read of stop     *)
(* (written without the mutex), at a wait and at a signal.                 *)
(*                                                                         *)
(* Threads: the owner (creates the pool, may delete it), one caller of     *)
(* nthreadpool_push per task, and the workers.                             *)
(***************************************************************************)
EXTENDS LinkedList

CONSTANTS Workers,        \* the workernum workers, one identity per malloc
          Tasks,          \* the tasks that are pushed, each by one caller
          NONE,           \* a free mutex, an empty pointer
          StopGarbage,    \* what malloc may leave in the field stop
          CreateMayFail,  \* malloc or pthread_create may fail
          MaxSpurious     \* bound on spurious wake-ups of a condition wait

ASSUME PoolAssumption ==
    /\ Workers \cap Tasks = {} /\ NONE \notin Workers \cup Tasks
    /\ StopGarbage \subseteq {0, 1} /\ StopGarbage # {}
    /\ CreateMayFail \in BOOLEAN /\ MaxSpurious \in Nat

VARIABLES task_list,    \* pool->task_list, head first
          worker_list,  \* pool->worker_list, head first
          mutex,        \* the worker or caller that holds pool->mutex, or NONE
          sleepers,     \* the workers blocked on pool->cond
          stop,         \* worker->stop
          wpc, wtask,   \* a worker's place in its loop, and its local t
          tpc,          \* a caller's place in nthreadpool_push
          opc, ow,      \* the owner's place, and its local w (an index)
          done,         \* tasks whose task_func has returned
          spurious      \* spurious wake-ups so far

workVars == <<wpc, wtask, done>>
ownerVars == <<worker_list, stop, opc, ow>>
vars == <<task_list, mutex, sleepers, workVars, tpc, ownerVars, spurious>>

Init == /\ task_list = <<>> /\ worker_list = <<>>
        /\ mutex = NONE /\ sleepers = {} /\ done = {}
        /\ stop \in [Workers -> StopGarbage]
        /\ wpc = [w \in Workers |-> "none"]
        /\ wtask = [w \in Workers |-> NONE]
        /\ tpc = [t \in Tasks |-> "idle"]
        /\ opc = "create" /\ ow = 0 /\ spurious = 0

-----------------------------------------------------------------------------
(* pthread primitives.                                                     *)

Acquire(th) == mutex = NONE /\ mutex' = th
Release(th) == mutex = th /\ mutex' = NONE

\* The sleepers in S wake up: they must take the mutex again.
Wake(S) == /\ sleepers' = sleepers \ S
           /\ wpc' = [w \in Workers |-> IF w \in S THEN "lock" ELSE wpc[w]]

\* Mutant: the signal is forgotten.
NoSignal == UNCHANGED <<sleepers, wpc>>

CondSignal == \/ sleepers = {} /\ UNCHANGED <<sleepers, wpc>>
              \/ \E w \in sleepers : Wake({w})

CondBroadcast == Wake(sleepers)

-----------------------------------------------------------------------------
(* nthreadpool_callback, the loop of worker w.                             *)

Goto(w, from, to) == wpc[w] = from /\ wpc' = [wpc EXCEPT ![w] = to]

\* lock (or the end of the wait), then the condition of the inner loop
WorkerTest(w) ==
    /\ Acquire(w)
    /\ Goto(w, "lock", IF task_list = <<>> /\ stop[w] # 1 THEN "wait" ELSE "check")
    /\ UNCHANGED <<task_list, sleepers, wtask, done, tpc, ownerVars, spurious>>

\* pthread_cond_wait releases the mutex and blocks in one step
WorkerWait(w) ==
    /\ wpc[w] = "wait" /\ w \notin sleepers
    /\ Release(w)
    /\ sleepers' = sleepers \cup {w}
    /\ UNCHANGED <<task_list, workVars, tpc, ownerVars, spurious>>

SpuriousWake(w) ==
    /\ w \in sleepers /\ spurious < MaxSpurious
    /\ Wake({w})
    /\ spurious' = spurious + 1
    /\ UNCHANGED <<task_list, mutex, wtask, done, tpc, ownerVars>>

\* Mutant: the task is left in the list.
WorkerTakeKeeps(w) ==
    /\ stop[w] # 1
    /\ Goto(w, "check", "run")
    /\ wtask' = [wtask EXCEPT ![w] = Head(task_list)]
    /\ Release(w)
    /\ UNCHANGED <<task_list, sleepers, done, tpc, ownerVars, spurious>>

WorkerTake(w) ==
    /\ stop[w] # 1
    /\ Goto(w, "check", "run")
    /\ wtask' = [wtask EXCEPT ![w] = Head(task_list)]
    /\ task_list' = Delete(Head(task_list), task_list)
    /\ Release(w)
    /\ UNCHANGED <<sleepers, done, tpc, ownerVars, spurious>>

WorkerLeave(w) ==
    /\ stop[w] = 1
    /\ Goto(w, "check", "exited")
    /\ Release(w)
    /\ UNCHANGED <<task_list, sleepers, wtask, done, tpc, ownerVars, spurious>>

\* t->task_func(t), which ends by freeing t
WorkerRun(w) ==
    /\ Goto(w, "run", "lock")
    /\ done' = done \cup {wtask[w]}
    /\ wtask' = [wtask EXCEPT ![w] = NONE]
    /\ UNCHANGED <<task_list, mutex, sleepers, tpc, ownerVars, spurious>>

Worker(w) == \/ WorkerTest(w) \/ WorkerWait(w) \/ WorkerTake(w)
             \/ WorkerLeave(w) \/ WorkerRun(w)

-----------------------------------------------------------------------------
(* nthreadpool_push, called for task t once nthreadpool_creat has returned *)
(* (main ignores what it returned).                                        *)

PushInsert(t) ==
    /\ tpc[t] = "idle" /\ opc # "create"
    /\ Acquire(t)
    /\ task_list' = Insert(t, task_list)
    /\ tpc' = [tpc EXCEPT ![t] = "signal"]
    /\ UNCHANGED <<sleepers, workVars, ownerVars, spurious>>

PushSignal(t) ==
    /\ tpc[t] = "signal"
    /\ CondSignal
    /\ Release(t)
    /\ tpc' = [tpc EXCEPT ![t] = "pushed"]
    /\ UNCHANGED <<task_list, wtask, done, ownerVars, spurious>>

-----------------------------------------------------------------------------
(* nthreadpool_creat: the memset clears sizeof(workers), the size of a     *)
(* pointer, so the field stop keeps what malloc left there (Init).         *)

Listed == Members(worker_list)

CreateWorker(w) ==
    /\ opc = "create" /\ w \notin Listed
    /\ worker_list' = Insert(w, worker_list)
    /\ wpc' = [wpc EXCEPT ![w] = "lock"]
    /\ opc' = IF Listed \cup {w} = Workers THEN "created" ELSE "create"
    /\ UNCHANGED <<task_list, mutex, sleepers, wtask, done, tpc, stop, ow, spurious>>

\* -1: no memory for the worker, or pthread_create fails with the worker listed
CreateFails(w) ==
    /\ CreateMayFail /\ opc = "create" /\ w \notin Listed
    /\ worker_list' \in {worker_list, Insert(w, worker_list)}
    /\ opc' = "failed"
    /\ UNCHANGED <<task_list, mutex, sleepers, workVars, tpc, stop, ow, spurious>>

(* nthreadpool_delete, for a pool whose creation succeeded.                *)

DeleteCall ==
    /\ opc = "created"
    /\ opc' = "stopping" /\ ow' = 1
    /\ UNCHANGED <<task_list, mutex, sleepers, workVars, tpc, worker_list, stop,
                   spurious>>

SetStop(w) == stop' = [stop EXCEPT ![w] = 1]

\* w->stop = 1 for each worker, without the mutex
DeleteStop ==
    /\ opc = "stopping"
    /\ SetStop(worker_list[ow])
    /\ IF ow = Len(worker_list) THEN opc' = "closing" /\ ow' = 1
                                ELSE opc' = opc /\ ow' = ow + 1
    /\ UNCHANGED <<task_list, mutex, sleepers, workVars, tpc, worker_list, spurious>>

\* lock, broadcast, unlock
DeleteBroadcast ==
    /\ opc = "closing" /\ mutex = NONE
    /\ CondBroadcast
    /\ opc' = "joining"
    /\ UNCHANGED <<task_list, mutex, wtask, done, tpc, worker_list, stop, ow, spurious>>

\* Mutant: the owner goes on after the last worker.
DeleteJoinOn ==
    /\ opc = "joining"
    /\ wpc[worker_list[ow]] = "exited"
    /\ ow' = ow + 1
    /\ UNCHANGED <<task_list, mutex, sleepers, workVars, tpc, worker_list, stop, opc,
                   spurious>>

\* join, free, and the next worker, whose link the allocator leaves in place
DeleteJoin ==
    /\ opc = "joining"
    /\ wpc[worker_list[ow]] = "exited"
    /\ IF ow = Len(worker_list)
         THEN opc' = "deleted" /\ worker_list' = <<>> /\ ow' = 0
         ELSE ow' = ow + 1 /\ UNCHANGED <<opc, worker_list>>
    /\ UNCHANGED <<task_list, mutex, sleepers, workVars, tpc, stop, spurious>>

DeleteStep == DeleteStop \/ DeleteBroadcast \/ DeleteJoin

-----------------------------------------------------------------------------
Next == \/ \E w \in Workers : \/ Worker(w) \/ SpuriousWake(w)
                              \/ CreateWorker(w) \/ CreateFails(w)
        \/ \E t \in Tasks : PushInsert(t) \/ PushSignal(t)
        \/ DeleteCall \/ DeleteStep

Spec == Init /\ [][Next]_vars

\* Every thread that is running keeps running; nobody is obliged to call
\* nthreadpool_push or nthreadpool_delete.
Fairness == /\ \A w \in Workers : WF_vars(Worker(w))
            /\ \A t \in Tasks : WF_vars(PushSignal(t))
            /\ WF_vars(\E w \in Workers : CreateWorker(w))
            /\ WF_vars(DeleteStep)

FairSpec == Spec /\ Fairness

-----------------------------------------------------------------------------
(* Properties.                                                             *)

PendingTasks == Members(task_list)

\* Types of the pool's state; the owner never points past the end of its list of
\* workers, which nthreadpool_delete walks twice.
TypeOK ==
    /\ task_list \in Seq(Tasks) /\ worker_list \in Seq(Workers)
    /\ mutex \in Workers \cup Tasks \cup {NONE}
    /\ sleepers \subseteq Workers
    /\ stop \in [Workers -> {0, 1}]
    /\ wpc \in [Workers -> {"none", "lock", "wait", "check", "run", "exited"}]
    /\ wtask \in [Workers -> Tasks \cup {NONE}]
    /\ tpc \in [Tasks -> {"idle", "signal", "pushed"}]
    /\ opc \in {"create", "failed", "created", "stopping", "closing", "joining",
                "deleted"}
    /\ ow \in 0 .. Len(worker_list) /\ done \subseteq Tasks /\ spurious \in 0 .. MaxSpurious

\* The comment at thread_pool.c:118-122: because the broadcast is sent under
\* the mutex of the workers' test, a worker told to stop never sleeps through
\* it: whoever sleeps with stop set still has the broadcast to come.
NoLostStop == \A w \in sleepers : stop[w] = 1 => opc \in {"stopping", "closing"}

\* A task waits, a worker sleeps, and no caller has yet to signal.
TaskWaits == /\ task_list # <<>> /\ sleepers # {}
             /\ opc \in {"created", "failed"}
             /\ \A t \in Tasks : tpc[t] # "signal"

\* w will look at the list again before it sleeps.
Attentive(w) == stop[w] = 0 /\ wpc[w] \in {"lock", "check", "run"}

\* nthreadpool_push signals under the mutex: while a task is in the list and a
\* worker sleeps, either the caller that inserted a task has yet to signal, or
\* a worker that is not stopped is awake and will look at the list, or the
\* pool is being deleted.
NoLostTask == TaskWaits => \E w \in Workers : Attentive(w)

\* The pool implements TaskPool: a task is taken once, by one worker, and none
\* is taken once nthreadpool_delete has sent its broadcast.
Running == {wtask[w] : w \in {v \in Workers : wpc[v] = "run"}}
Closed == opc \in {"joining", "deleted"}

Promise == INSTANCE TaskPool WITH
             pending <- PendingTasks, running <- Running, finished <- done,
             closed <- Closed
ImplementsTaskPool == Promise!Spec

\* A call of nthreadpool_delete returns: every worker wakes up, leaves and is
\* joined.
DeleteReturns == (opc = "stopping") ~> (opc = "deleted")

\* thread_pool.c:134: a pushed task is put in the task list and a worker is told
\* to fetch it, so it is executed unless the pool is deleted first or no worker
\* could be created.
PushedIsExecuted ==
    \A t \in Tasks :
        (t \in PendingTasks) ~> \/ t \in done
                                \/ opc \notin {"created", "failed"}
                                \/ \A w \in Workers : wpc[w] = "none"
=============================================================================
