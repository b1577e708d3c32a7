--------------------------- MODULE ThreadPoolProofs ---------------------------
(***************************************************************************)
(* Proofs about ThreadPool, for any number of workers and tasks.  IInv is  *)
(* an inductive invariant: who holds the mutex, what a worker knows of the *)
(* list while it holds it, how far the owner is, and where each task is.   *)
(***************************************************************************)
EXTENDS ThreadPool, LinkedListProofs

\* Whoever is between a lock and its unlock holds the mutex.
MutexInv ==
    /\ \A w \in Workers :
          wpc[w] = "check" \/ (wpc[w] = "wait" /\ w \notin sleepers) => mutex = w
    /\ \A t \in Tasks : tpc[t] = "signal" => mutex = t

\* Sleepers are in pthread_cond_wait.
SleepInv == \A w \in sleepers : wpc[w] = "wait"

\* What a worker has seen of the list is still true while it holds the mutex.
ListInv ==
    \A w \in Workers :
        /\ wpc[w] = "wait" /\ w \notin sleepers => task_list = <<>>
        /\ wpc[w] = "check" => task_list # <<>> \/ stop[w] = 1
        /\ wpc[w] = "run" => wtask[w] \in Tasks

\* How far nthreadpool_creat and nthreadpool_delete are.
OwnerInv ==
    /\ opc = "create" => /\ task_list = <<>>
                         /\ \A t \in Tasks : tpc[t] = "idle"
                         /\ \A w \in Workers \ Listed : wpc[w] = "none"
    /\ opc = "created" => worker_list # <<>>
    /\ opc \in {"stopping", "closing", "joining"} => ow \in 1 .. Len(worker_list)

\* A worker that waits with stop set still has the broadcast to come.
StopInv == \A w \in Workers :
    wpc[w] = "wait" /\ stop[w] = 1 => opc \in {"stopping", "closing"}

\* Every worker is told to stop before the broadcast.
CloseInv ==
    /\ opc \in {"created", "stopping"} => Listed = Workers
    /\ opc = "stopping" => \A i \in 1 .. ow - 1 : stop[worker_list[i]] = 1
    /\ opc \in {"closing", "joining", "deleted"} => \A w \in Workers : stop[w] = 1

\* A task is in one place: with its caller, in the list, with one worker, or done.
TaskInv ==
    /\ Distinct(task_list)
    /\ \A t \in PendingTasks : tpc[t] # "idle" /\ t \notin done
    /\ \A t \in done : tpc[t] # "idle"
    /\ \A w \in Workers : wpc[w] = "run" =>
          /\ tpc[wtask[w]] # "idle" /\ wtask[w] \notin PendingTasks \cup done
          /\ \A v \in Workers : wpc[v] = "run" /\ wtask[v] = wtask[w] => v = w

LockInv == MutexInv /\ SleepInv /\ ListInv /\ OwnerInv /\ StopInv
IInv == TypeOK /\ LockInv /\ CloseInv /\ TaskInv
-----------------------------------------------------------------------------
\* The state before nthreadpool_creat.
LEMMA InitIInv == Init => IInv
<1> SUFFICES ASSUME Init PROVE IInv
  OBVIOUS
<1>1. TypeOK
  <2>1. stop \in [Workers -> {0, 1}]
    BY PoolAssumption DEF Init
  <2>2. task_list \in Seq(Tasks) /\ worker_list \in Seq(Workers)
    BY DEF Init
  <2> QED BY <2>1, <2>2, PoolAssumption DEF Init, TypeOK
<1>2. LockInv
  BY DEF Init, LockInv, MutexInv, SleepInv, ListInv, OwnerInv, StopInv
<1>3. CloseInv /\ TaskInv
  BY DEF Init, CloseInv, TaskInv, PendingTasks, Members, Distinct
<1> QED BY <1>1, <1>2, <1>3 DEF IInv

\* Every step keeps the types.
LEMMA StepTypeOK == IInv /\ [Next]_vars => TypeOK'
<1> SUFFICES ASSUME IInv, [Next]_vars PROVE TypeOK'
  OBVIOUS
<1> USE PoolAssumption DEF IInv, LockInv, workVars, ownerVars
<1>1. ASSUME NEW w \in Workers, WorkerTest(w) PROVE TypeOK'
  BY <1>1 DEF WorkerTest, Acquire, Goto, TypeOK
<1>2. ASSUME NEW w \in Workers, WorkerWait(w) PROVE TypeOK'
  BY <1>2 DEF WorkerWait, Release, TypeOK
<1>3. ASSUME NEW w \in Workers, SpuriousWake(w) PROVE TypeOK'
  BY <1>3 DEF SpuriousWake, Wake, TypeOK
<1>4. ASSUME NEW w \in Workers, WorkerTake(w) PROVE TypeOK'
  <2>1. Head(task_list) \in Tasks /\ task_list' \in Seq(Tasks)
    BY <1>4, DeleteItems DEF WorkerTake, Goto, TypeOK, ListInv
  <2> QED BY <1>4, <2>1 DEF WorkerTake, Goto, Release, TypeOK
<1>5. ASSUME NEW w \in Workers, WorkerLeave(w) PROVE TypeOK'
  BY <1>5 DEF WorkerLeave, Goto, Release, TypeOK
<1>6. ASSUME NEW w \in Workers, WorkerRun(w) PROVE TypeOK'
  BY <1>6 DEF WorkerRun, Goto, TypeOK, ListInv
<1>7. ASSUME NEW t \in Tasks, PushInsert(t) PROVE TypeOK'
  BY <1>7, InsertType DEF PushInsert, Acquire, TypeOK
<1>8. ASSUME NEW t \in Tasks, PushSignal(t) PROVE TypeOK'
  BY <1>8 DEF PushSignal, CondSignal, Wake, Release, TypeOK
<1>9. ASSUME NEW w \in Workers, CreateWorker(w) PROVE TypeOK'
  <2>1. Len(worker_list') = Len(worker_list) + 1
    BY <1>9 DEF CreateWorker, Insert, TypeOK
  <2>2. ow' \in 0 .. Len(worker_list')
    BY <1>9, <2>1 DEF CreateWorker, TypeOK
  <2>3. worker_list' \in Seq(Workers)
    BY <1>9, InsertType DEF CreateWorker, TypeOK
  <2> QED BY <1>9, <2>2, <2>3 DEF CreateWorker, TypeOK
<1>10. ASSUME NEW w \in Workers, CreateFails(w) PROVE TypeOK'
  <2>1. Len(worker_list') \in {Len(worker_list), Len(worker_list) + 1}
    BY <1>10 DEF CreateFails, Insert, TypeOK
  <2>2. ow' \in 0 .. Len(worker_list')
    BY <1>10, <2>1 DEF CreateFails, TypeOK
  <2>3. worker_list' \in Seq(Workers)
    BY <1>10, InsertType DEF CreateFails, TypeOK
  <2> QED BY <1>10, <2>2, <2>3 DEF CreateFails, TypeOK
<1>11. ASSUME DeleteCall PROVE TypeOK'
  BY <1>11 DEF DeleteCall, TypeOK, OwnerInv
<1>12. ASSUME DeleteStop PROVE TypeOK'
  <2>1. worker_list[ow] \in Workers
    BY <1>12 DEF DeleteStop, TypeOK, OwnerInv
  <2> QED BY <1>12, <2>1 DEF DeleteStop, SetStop, TypeOK, OwnerInv
<1>13. ASSUME DeleteBroadcast PROVE TypeOK'
  BY <1>13 DEF DeleteBroadcast, CondBroadcast, Wake, TypeOK
<1>14. ASSUME DeleteJoin PROVE TypeOK'
  <2>1. CASE ow = Len(worker_list)
    BY <1>14, <2>1 DEF DeleteJoin, TypeOK
  <2>2. CASE ow # Len(worker_list)
    BY <1>14, <2>2 DEF DeleteJoin, TypeOK
  <2> QED BY <2>1, <2>2
<1>15. ASSUME UNCHANGED vars PROVE TypeOK'
  BY <1>15 DEF vars, TypeOK
<1> QED BY <1>1, <1>2, <1>3, <1>4, <1>5, <1>6, <1>7, <1>8, <1>9, <1>10,
           <1>11, <1>12, <1>13, <1>14, <1>15
           DEF Next, Worker, DeleteStep

\* Every step keeps the order of mutex, list and flags.
LEMMA StepLockInv == IInv /\ [Next]_vars => LockInv'
<1> SUFFICES ASSUME IInv, [Next]_vars PROVE LockInv'
  OBVIOUS
<1> USE PoolAssumption DEF IInv, LockInv, workVars, ownerVars
<1>1. ASSUME NEW w \in Workers, WorkerTest(w) PROVE LockInv'
  BY <1>1
     DEF WorkerTest, Acquire, Goto, TypeOK, MutexInv, SleepInv, ListInv, OwnerInv,
         StopInv, Listed
<1>2. ASSUME NEW w \in Workers, WorkerWait(w) PROVE LockInv'
  BY <1>2
     DEF WorkerWait, Release, TypeOK, MutexInv, SleepInv, ListInv, OwnerInv,
         StopInv, Listed
<1>3. ASSUME NEW w \in Workers, SpuriousWake(w) PROVE LockInv'
  BY <1>3
     DEF SpuriousWake, Wake, TypeOK, MutexInv, SleepInv, ListInv, OwnerInv,
         StopInv, Listed
<1>4. ASSUME NEW w \in Workers, WorkerTake(w) PROVE LockInv'
  <2>1. Head(task_list) \in Tasks
    BY <1>4 DEF WorkerTake, Goto, TypeOK, ListInv
  <2>2. MutexInv' /\ SleepInv' /\ OwnerInv' /\ StopInv'
    BY <1>4 DEF WorkerTake, Goto, Release, TypeOK, MutexInv, SleepInv, OwnerInv,
                ListInv, StopInv, Listed, Delete, Members
  <2>3. ListInv'
    BY <1>4, <2>1 DEF WorkerTake, Goto, Release, TypeOK, MutexInv, ListInv, SleepInv
  <2> QED BY <2>2, <2>3
<1>5. ASSUME NEW w \in Workers, WorkerLeave(w) PROVE LockInv'
  BY <1>5
     DEF WorkerLeave, Goto, Release, TypeOK, MutexInv, SleepInv, ListInv, OwnerInv,
         StopInv, Listed
<1>6. ASSUME NEW w \in Workers, WorkerRun(w) PROVE LockInv'
  BY <1>6
     DEF WorkerRun, Goto, TypeOK, MutexInv, SleepInv, ListInv, OwnerInv, StopInv,
         Listed
<1>7. ASSUME NEW t \in Tasks, PushInsert(t) PROVE LockInv'
  <2>1. task_list' # <<>>
    BY <1>7 DEF PushInsert, Insert
  <2> QED BY <1>7, <2>1 DEF PushInsert, Acquire, TypeOK, MutexInv, SleepInv, ListInv,
                            OwnerInv, StopInv, Listed
<1>8. ASSUME NEW t \in Tasks, PushSignal(t) PROVE LockInv'
  BY <1>8
     DEF PushSignal, CondSignal, Wake, Release, TypeOK, MutexInv, SleepInv,
         ListInv, OwnerInv, StopInv, Listed
<1>9. ASSUME NEW w \in Workers, CreateWorker(w) PROVE LockInv'
  <2>1. Listed' = Listed \cup {w}
    BY <1>9, InsertItems DEF CreateWorker, TypeOK, Listed
  <2>2. worker_list' # <<>>
    BY <1>9 DEF CreateWorker, Insert
  <2>3. MutexInv' /\ SleepInv' /\ ListInv' /\ StopInv'
    BY <1>9 DEF CreateWorker, TypeOK, MutexInv, SleepInv, ListInv, OwnerInv, StopInv
  <2>4. OwnerInv'
    BY <1>9, <2>1, <2>2 DEF CreateWorker, TypeOK, OwnerInv
  <2> QED BY <2>3, <2>4
<1>10. ASSUME NEW w \in Workers, CreateFails(w) PROVE LockInv'
  BY <1>10
     DEF CreateFails, TypeOK, MutexInv, SleepInv, ListInv, OwnerInv, StopInv,
         Listed
<1>11. ASSUME DeleteCall PROVE LockInv'
  BY <1>11
     DEF DeleteCall, TypeOK, MutexInv, SleepInv, ListInv, OwnerInv, StopInv, Listed
<1>12. ASSUME DeleteStop PROVE LockInv'
  <2>1. worker_list[ow] \in Workers
    BY <1>12 DEF DeleteStop, TypeOK, OwnerInv
  <2> QED BY <1>12, <2>1 DEF DeleteStop, SetStop, TypeOK, MutexInv, SleepInv, ListInv,
                            OwnerInv, StopInv, Listed
<1>13. ASSUME DeleteBroadcast PROVE LockInv'
  BY <1>13
     DEF DeleteBroadcast, CondBroadcast, Wake, TypeOK, MutexInv, SleepInv, ListInv,
         OwnerInv, StopInv, Listed
<1>14. ASSUME DeleteJoin PROVE LockInv'
  BY <1>14
     DEF DeleteJoin, TypeOK, MutexInv, SleepInv, ListInv, OwnerInv, StopInv, Listed
<1>15. ASSUME UNCHANGED vars PROVE LockInv'
  BY <1>15 DEF vars, TypeOK, MutexInv, SleepInv, ListInv, OwnerInv, StopInv, Listed
<1> QED BY <1>1, <1>2, <1>3, <1>4, <1>5, <1>6, <1>7, <1>8, <1>9, <1>10,
           <1>11, <1>12, <1>13, <1>14, <1>15
           DEF Next, Worker, DeleteStep

\* The steps of the owner; the others leave its variables alone.
LEMMA OwnerSteps ==
    [Next]_vars => \/ UNCHANGED ownerVars
                   \/ \E w \in Workers : CreateWorker(w) \/ CreateFails(w)
                   \/ DeleteCall \/ DeleteStop \/ DeleteBroadcast \/ DeleteJoin
BY DEF Next, DeleteStep, Worker, WorkerTest, WorkerWait, WorkerTake, WorkerLeave,
       WorkerRun, SpuriousWake, PushInsert, PushSignal, vars

\* The owner tells every worker to stop before it sends the broadcast.
LEMMA StepCloseInv == IInv /\ [Next]_vars => CloseInv'
<1> SUFFICES ASSUME IInv, [Next]_vars PROVE CloseInv'
  OBVIOUS
<1> USE PoolAssumption DEF IInv, LockInv
<1>1. ASSUME UNCHANGED ownerVars PROVE CloseInv'
  BY <1>1 DEF ownerVars, CloseInv, Listed
<1>2. ASSUME NEW w \in Workers, CreateWorker(w) PROVE CloseInv'
  <2>1. Listed' = Listed \cup {w}
    BY <1>2, InsertItems DEF CreateWorker, TypeOK, Listed
  <2> QED BY <1>2, <2>1 DEF CreateWorker, CloseInv
<1>3. ASSUME NEW w \in Workers, CreateFails(w) PROVE CloseInv'
  BY <1>3 DEF CreateFails, CloseInv
<1>4. ASSUME DeleteCall PROVE CloseInv'
  BY <1>4 DEF DeleteCall, CloseInv, Listed
<1>5. ASSUME DeleteStop PROVE CloseInv'
  <2>1. /\ ow \in 1 .. Len(worker_list) /\ opc = "stopping" /\ Listed = Workers
        /\ stop' = [stop EXCEPT ![worker_list[ow]] = 1] /\ worker_list' = worker_list
    BY <1>5 DEF DeleteStop, SetStop, OwnerInv, CloseInv
  <2>2. \A i \in 1 .. ow : stop'[worker_list[i]] = 1
    BY <2>1 DEF CloseInv, TypeOK
  <2>3. CASE ow = Len(worker_list)
    <3>1. opc' = "closing"
      BY <1>5, <2>3 DEF DeleteStop
    <3>2. \A w \in Workers : stop'[w] = 1
      BY <2>1, <2>2, <2>3 DEF Listed, Members
    <3> QED BY <3>1, <3>2 DEF CloseInv
  <2>4. CASE ow # Len(worker_list)
    <3>1. opc' = "stopping" /\ ow' = ow + 1
      BY <1>5, <2>1, <2>4 DEF DeleteStop
    <3> QED BY <2>1, <2>2, <3>1 DEF CloseInv, Listed, TypeOK
  <2> QED BY <2>3, <2>4
<1>6. ASSUME DeleteBroadcast \/ DeleteJoin PROVE CloseInv'
  BY <1>6 DEF DeleteBroadcast, DeleteJoin, CloseInv
<1> QED BY <1>1, <1>2, <1>3, <1>4, <1>5, <1>6, OwnerSteps

\* What a step does to the tasks: one of the steps of TaskPool, or nothing.
KeepsRunners == \A w \in Workers : wpc'[w] = "run" <=> wpc[w] = "run"
Idle == /\ UNCHANGED <<task_list, done, wtask>> /\ KeepsRunners
        /\ \A t \in Tasks : tpc[t] # "idle" <=> tpc'[t] # "idle"

\* The steps that are not about a task.
LEMMA IdleSteps ==
    ASSUME IInv, [Next]_vars
    PROVE  \/ Idle
           \/ \E w \in Workers : WorkerTake(w) \/ WorkerRun(w)
           \/ \E t \in Tasks : PushInsert(t)
<1> USE PoolAssumption DEF IInv, LockInv, Idle, KeepsRunners, workVars, ownerVars
<1>1. ASSUME NEW w \in Workers, WorkerTest(w) \/ WorkerWait(w) \/ WorkerLeave(w)
      PROVE  Idle
  BY <1>1 DEF WorkerTest, WorkerWait, WorkerLeave, Goto, TypeOK
<1>2. ASSUME NEW w \in Workers, SpuriousWake(w) PROVE Idle
  BY <1>2 DEF SpuriousWake, Wake, SleepInv, TypeOK
<1>3. ASSUME NEW t \in Tasks, PushSignal(t) PROVE Idle
  BY <1>3 DEF PushSignal, CondSignal, Wake, SleepInv, TypeOK
<1>4. ASSUME NEW w \in Workers, CreateWorker(w) \/ CreateFails(w) PROVE Idle
  BY <1>4 DEF CreateWorker, CreateFails, OwnerInv, TypeOK
<1>5. ASSUME DeleteCall \/ DeleteStop \/ DeleteJoin PROVE Idle
  BY <1>5 DEF DeleteCall, DeleteStop, DeleteJoin
<1>6. ASSUME DeleteBroadcast PROVE Idle
  BY <1>6 DEF DeleteBroadcast, CondBroadcast, Wake, SleepInv, TypeOK
<1>7. ASSUME UNCHANGED vars PROVE Idle
  BY <1>7 DEF vars
<1> QED BY <1>1, <1>2, <1>3, <1>4, <1>5, <1>6, <1>7 DEF Next, Worker, DeleteStep

\* A worker takes a task: it leaves the list for that worker.
LEMMA TakeMoves ==
    ASSUME IInv, NEW w \in Workers, WorkerTake(w)
    PROVE  LET t == Head(task_list)
           IN  /\ t \in PendingTasks /\ t \in Tasks
               /\ PendingTasks' = PendingTasks \ {t} /\ Distinct(task_list')
               /\ wtask' = [wtask EXCEPT ![w] = t] /\ wpc' = [wpc EXCEPT ![w] = "run"]
               /\ wpc[w] = "check" /\ UNCHANGED <<done, tpc, opc>> /\ ~Closed
<1> USE DEF IInv, LockInv
<1>1. stop[w] # 1 /\ wpc[w] = "check" /\ task_list # <<>>
  BY DEF WorkerTake, Goto, ListInv
<1>2. Head(task_list) \in PendingTasks /\ Head(task_list) \in Tasks
  BY <1>1 DEF PendingTasks, Members, TypeOK
<1>3. PendingTasks' = PendingTasks \ {Head(task_list)} /\ Distinct(task_list')
  BY DeleteMembers DEF WorkerTake, PendingTasks, TaskInv, TypeOK
<1>4. ~Closed
  BY <1>1 DEF Closed, CloseInv
<1> QED BY <1>1, <1>2, <1>3, <1>4 DEF WorkerTake, Goto, ownerVars

\* A caller adds its task, which is nowhere yet.
LEMMA InsertAdds ==
    ASSUME IInv, NEW t \in Tasks, PushInsert(t)
    PROVE  /\ PendingTasks' = PendingTasks \cup {t} /\ Distinct(task_list')
           /\ tpc[t] = "idle" /\ tpc' = [tpc EXCEPT ![t] = "signal"]
           /\ t \notin PendingTasks /\ UNCHANGED <<done, wpc, wtask, opc>>
<1> USE DEF IInv, TaskInv
<1>1. tpc[t] = "idle" /\ task_list' = Insert(t, task_list)
  BY DEF PushInsert
<1>2. t \notin PendingTasks
  BY <1>1
<1>3. PendingTasks' = PendingTasks \cup {t}
  BY <1>1, InsertItems DEF PendingTasks, TypeOK
<1>4. Distinct(task_list')
  BY <1>1, <1>2, InsertDistinct DEF PendingTasks, TypeOK
<1> QED BY <1>1, <1>2, <1>3, <1>4 DEF PushInsert, workVars, ownerVars

\* A task stays in one place.
LEMMA StepTaskInv == IInv /\ [Next]_vars => TaskInv'
<1> SUFFICES ASSUME IInv, [Next]_vars PROVE TaskInv'
  OBVIOUS
<1> USE DEF IInv, LockInv
<1>1. ASSUME Idle PROVE TaskInv'
  BY <1>1 DEF Idle, KeepsRunners, TaskInv, PendingTasks, TypeOK, ListInv, Members
<1>2. ASSUME NEW w \in Workers, WorkerTake(w) PROVE TaskInv'
  <2>1. /\ wpc \in [Workers -> {"none", "lock", "wait", "check", "run", "exited"}]
        /\ wtask \in [Workers -> Tasks \cup {NONE}]
    BY DEF TypeOK
  <2> QED BY <1>2, <2>1, TakeMoves DEF TaskInv
<1>3. ASSUME NEW w \in Workers, WorkerRun(w) PROVE TaskInv'
  BY <1>3 DEF WorkerRun, Goto, TaskInv, TypeOK, ListInv, PendingTasks
<1>4. ASSUME NEW t \in Tasks, PushInsert(t) PROVE TaskInv'
  <2>1. \A u \in PendingTasks' : tpc'[u] # "idle" /\ u \notin done'
    <3>1. PendingTasks \subseteq Tasks
      BY DEF PendingTasks, Members, TypeOK
    <3> QED BY <1>4, <3>1, InsertAdds DEF TaskInv, TypeOK
  <2>2. \A u \in done' : tpc'[u] # "idle"
    BY <1>4, InsertAdds DEF TaskInv, TypeOK
  <2>3. \A w \in Workers : wpc[w] = "run" => wtask[w] \in Tasks \ {t}
    BY <1>4, InsertAdds DEF TaskInv, ListInv
  <2> QED BY <1>4, <2>1, <2>2, <2>3, InsertAdds DEF TaskInv, TypeOK
<1> QED BY <1>1, <1>2, <1>3, <1>4, IdleSteps

\* The inductive invariant holds of every behaviour.
LEMMA Invariant == Spec => []IInv
<1>1. IInv /\ [Next]_vars => IInv'
  BY StepTypeOK, StepLockInv, StepCloseInv, StepTaskInv DEF IInv
<1> QED BY <1>1, InitIInv, PTL DEF Spec

\* Types of the pool's state, for every number of workers and tasks.
THEOREM TypeCorrect == Spec => []TypeOK
<1>1. IInv => TypeOK
  BY DEF IInv
<1> QED BY <1>1, Invariant, PTL

\* thread_pool.c:118-122: a worker told to stop never sleeps through the
\* broadcast of nthreadpool_delete.
THEOREM StopIsNotLost == Spec => []NoLostStop
<1>1. IInv => NoLostStop
  BY DEF IInv, LockInv, TypeOK, SleepInv, StopInv, NoLostStop
<1> QED BY <1>1, Invariant, PTL

\* A step keeps somebody attentive.  Only three steps matter: a worker that goes
\* to sleep has seen an empty list, a worker that leaves was not attentive, and
\* the one a caller wakes is.
LEMMA StepNoLostTask == IInv /\ NoLostTask /\ [Next]_vars => NoLostTask'
<1> SUFFICES ASSUME IInv, NoLostTask, [Next]_vars, TaskWaits'
             PROVE  \E v \in Workers : Attentive(v)'
  BY DEF NoLostTask
<1> USE DEF IInv, LockInv, workVars, ownerVars
<1>1. ASSUME TaskWaits, \A v \in Workers : Attentive(v) => Attentive(v)'
      PROVE  \E v \in Workers : Attentive(v)'
  BY <1>1 DEF NoLostTask
<1>2. ASSUME NEW w \in Workers, WorkerWait(w) PROVE FALSE
  BY <1>2 DEF WorkerWait, ListInv, TaskWaits
<1>3. ASSUME NEW w \in Workers, WorkerTest(w) \/ WorkerRun(w) \/ WorkerLeave(w)
      PROVE  TaskWaits /\ \A v \in Workers : Attentive(v) => Attentive(v)'
  BY <1>3 DEF WorkerTest, WorkerRun, WorkerLeave, Goto, TypeOK, TaskWaits, Attentive
<1>4. ASSUME NEW w \in Workers, WorkerTake(w)
      PROVE  TaskWaits /\ \A v \in Workers : Attentive(v) => Attentive(v)'
  BY <1>4 DEF WorkerTake, Goto, TypeOK, TaskWaits, Attentive, ListInv
<1>5. ASSUME NEW w \in Workers, SpuriousWake(w)
      PROVE  TaskWaits /\ \A v \in Workers : Attentive(v) => Attentive(v)'
  BY <1>5 DEF SpuriousWake, Wake, TypeOK, TaskWaits, Attentive
<1>6. ASSUME NEW w \in Workers, CreateWorker(w) \/ CreateFails(w) PROVE FALSE
  BY <1>6 DEF CreateWorker, CreateFails, TaskWaits, OwnerInv
<1>7. ASSUME NEW t \in Tasks, PushInsert(t) PROVE FALSE
  BY <1>7 DEF PushInsert, TypeOK, TaskWaits
<1>8. ASSUME NEW t \in Tasks, PushSignal(t) PROVE \E v \in Workers : Attentive(v)'
  <2>1. PICK w \in sleepers : Wake({w})
    BY <1>8 DEF PushSignal, CondSignal, TaskWaits
  <2>2. w \in Workers /\ stop[w] = 0
    BY <1>8, <2>1 DEF PushSignal, TypeOK, SleepInv, StopInv, TaskWaits
  <2>3. Attentive(w)'
    BY <1>8, <2>1, <2>2 DEF PushSignal, Wake, Attentive
  <2> QED BY <2>2, <2>3
<1>9. ASSUME DeleteCall \/ DeleteStep PROVE FALSE
  BY <1>9 DEF DeleteCall, DeleteStep, DeleteStop, DeleteBroadcast, DeleteJoin, TaskWaits
<1>10. ASSUME UNCHANGED vars
       PROVE  TaskWaits /\ \A v \in Workers : Attentive(v) => Attentive(v)'
  BY <1>10 DEF vars, TaskWaits, Attentive
<1> QED BY <1>1, <1>2, <1>3, <1>4, <1>5, <1>6, <1>7, <1>8, <1>9, <1>10
           DEF Next, Worker

\* nthreadpool_push: a signal is never wasted while a worker sleeps and a task
\* waits, whatever malloc left in the stop flags.
THEOREM TaskIsNotLost == Spec => []NoLostTask
<1>1. Init => NoLostTask
  BY DEF Init, NoLostTask, TaskWaits
<1>2. IInv /\ NoLostTask /\ [Next]_vars => NoLostTask'
  BY StepNoLostTask
<1> QED BY <1>1, <1>2, Invariant, PTL DEF Spec
-----------------------------------------------------------------------------
\* Every step of the pool is a step of TaskPool, or changes nothing there.
LEMMA StepPromise == IInv /\ [Next]_vars => [Promise!Next]_(Promise!vars)
<1> SUFFICES ASSUME IInv, [Next]_vars, ~ UNCHANGED Promise!vars PROVE Promise!Next
  OBVIOUS
<1> USE DEF IInv, LockInv
<1>1. ASSUME Idle PROVE UNCHANGED <<PendingTasks, Running, done>>
  BY <1>1 DEF Idle, KeepsRunners, PendingTasks, Running
<1>2. ASSUME Idle PROVE Promise!Next
  <2>1. Closed' # Closed
    BY <1>1, <1>2 DEF Promise!vars
  <2>2. Closed' = TRUE
    BY <2>1, OwnerSteps
       DEF CreateWorker, CreateFails, DeleteCall, DeleteStop, DeleteBroadcast,
           DeleteJoin, ownerVars, Closed
  <2> QED BY <1>1, <1>2, <2>2 DEF Promise!Next, Promise!Close
<1>3. ASSUME NEW w \in Workers, WorkerTake(w) PROVE Promise!Next
  <2> DEFINE t == Head(task_list)
  <2>1. Running' = Running \cup {t}
    BY <1>3, TakeMoves DEF Running, TypeOK
  <2>2. Promise!Start(t)
    BY <1>3, <2>1, TakeMoves DEF Promise!Start, Closed
  <2> QED BY <1>3, <2>2, TakeMoves DEF Promise!Next
<1>4. ASSUME NEW w \in Workers, WorkerRun(w) PROVE Promise!Next
  <2>1. wtask[w] \in Tasks /\ wtask[w] \in Running
    BY <1>4 DEF WorkerRun, Goto, ListInv, Running
  <2>2. Running' = Running \ {wtask[w]}
    BY <1>4 DEF WorkerRun, Goto, Running, TaskInv, TypeOK
  <2>3. Promise!Finish(wtask[w])
    BY <1>4, <2>1, <2>2 DEF WorkerRun, Promise!Finish, PendingTasks, ownerVars, Closed
  <2> QED BY <2>1, <2>3 DEF Promise!Next
<1>5. ASSUME NEW t \in Tasks, PushInsert(t) PROVE Promise!Next
  <2>1. t \notin PendingTasks \cup Running \cup done
    BY <1>5, InsertAdds DEF TaskInv, Running
  <2>2. Promise!Submit(t)
    BY <1>5, <2>1, InsertAdds DEF Promise!Submit, Running, Closed
  <2> QED BY <2>2 DEF Promise!Next
<1> QED BY <1>2, <1>3, <1>4, <1>5, IdleSteps

\* The pool keeps TaskPool's promise, for every number of workers and tasks: a
\* task is started at most once, and none after the broadcast.
THEOREM Refinement == Spec => ImplementsTaskPool
<1>1. Init => Promise!Init
  BY DEF Init, Promise!Init, PendingTasks, Running, Closed, Members
<1> QED BY <1>1, StepPromise, Invariant, PTL DEF Spec, ImplementsTaskPool, Promise!Spec
=============================================================================
