------------------------------ MODULE TaskPool ------------------------------
(***************************************************************************)
(* What a thread pool promises its callers: a submitted task is started at *)
(* most once, a started task finishes, and once the pool is closed no new   *)
(* task is started.  ThreadPool (thread_folder/thread_pool.c) implements    *)
(* this specification.                                                      *)
(***************************************************************************)
CONSTANT Tasks

VARIABLES pending,   \* tasks submitted and not started
          running,   \* tasks being executed
          finished,  \* tasks executed
          closed     \* the pool takes no more task to a worker

vars == <<pending, running, finished, closed>>

Init == /\ pending = {} /\ running = {} /\ finished = {}
        /\ closed = FALSE

Submit(t) == /\ t \notin pending \cup running \cup finished
             /\ pending' = pending \cup {t}
             /\ UNCHANGED <<running, finished, closed>>

Start(t) == /\ ~closed
            /\ t \in pending
            /\ pending' = pending \ {t}
            /\ running' = running \cup {t}
            /\ UNCHANGED <<finished, closed>>

Finish(t) == /\ t \in running
             /\ running' = running \ {t}
             /\ finished' = finished \cup {t}
             /\ UNCHANGED <<pending, closed>>

Close == /\ closed' = TRUE
         /\ UNCHANGED <<pending, running, finished>>

Next == \/ \E t \in Tasks : Submit(t) \/ Start(t) \/ Finish(t)
        \/ Close

Spec == Init /\ [][Next]_vars
=============================================================================
