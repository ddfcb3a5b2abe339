----------------------------- MODULE ThreadPool -----------------------------
(***************************************************************************)
(* The thread pool of a worker process (ngx_thread_pool.c): the worker     *)
(* posts tasks, the threads run them, the worker is notified and runs the  *)
(* completion handlers; at its end the worker stops the threads one by     *)
(* one.  What a process does with the pool's mutex held is one step, as is *)
(* what it does with the spin lock of the list of done tasks.              *)
(***************************************************************************)
EXTENDS Integers, Sequences, FiniteSets

CONSTANTS
    Task,       \* ngx_thread_task_t
    Thread,     \* the pool's threads
    max_queue,  \* from the configuration
    ExitTask    \* the task of ngx_thread_pool_destroy, on its stack

VARIABLES
    queue,     \* tp->queue
    waiting,   \* tp->waiting
    threads,   \* threads[h] : [at, task]
    active,    \* active[t] : task->event.active
    done,      \* ngx_thread_pool_done
    notified,  \* an event of the eventfd has not been reported yet
    worker,    \* [at, list, left] : the worker's own control state
    owed       \* history: completions less posts of each task
vars == <<queue, waiting, threads, active, done, notified, worker, owed>>

Tasks == Task \cup {ExitTask}
At(label) == {h \in Thread : threads[h].at = label}

Init ==
    /\ queue = <<>> /\ waiting = 0 /\ done = <<>> /\ notified = FALSE
    /\ threads = [h \in Thread |-> [at |-> "start", task |-> ExitTask]]
    /\ active = [t \in Tasks |-> FALSE] /\ owed = [t \in Task |-> 0]
    /\ worker = [at |-> "loop", list |-> <<>>, left |-> 0]

-----------------------------------------------------------------------------
(* ngx_thread_task_post: the signal goes to one of the threads that sleep  *)
(* in ngx_thread_cond_wait, if there is one.                               *)

Overflow == waiting >= max_queue

Signalled(h) == [threads EXCEPT ![h].at = "signalled"]

Post(t) ==
    /\ active' = [active EXCEPT ![t] = TRUE]
    /\ queue' = Append(queue, t) /\ waiting' = waiting + 1
    /\ IF At("asleep") = {} THEN UNCHANGED threads
       ELSE \E h \in At("asleep") : threads' = Signalled(h)

PostTask(t) ==
    /\ worker.at = "loop" /\ ~active[t] /\ ~Overflow
    /\ Post(t) /\ owed' = [owed EXCEPT ![t] = @ - 1]
    /\ UNCHANGED <<done, notified, worker>>

-----------------------------------------------------------------------------
(* ngx_thread_pool_cycle.                                                  *)

\* The first task, or to sleep; a thread that wakes tests again.
TakeTask(h) ==
    IF queue = <<>>
    THEN /\ threads' = [threads EXCEPT ![h].at = "asleep"] /\ UNCHANGED queue
    ELSE /\ threads' = [threads EXCEPT ![h] = [at |-> "run", task |-> Head(queue)]]
         /\ queue' = Tail(queue)

Start(h) ==
    /\ threads[h].at = "start"
    /\ waiting' = waiting - 1
    /\ TakeTask(h)
    /\ UNCHANGED <<active, done, notified, worker, owed>>

\* pthread_cond_wait() may also return without a signal.
WakeUp(h) ==
    /\ threads[h].at \in {"signalled", "asleep"} /\ TakeTask(h)
    /\ UNCHANGED <<waiting, active, done, notified, worker, owed>>

\* The handler of an ordinary task, and then the list of done tasks.
RunTask(h) ==
    /\ threads[h].at = "run" /\ threads[h].task # ExitTask
    /\ done' = Append(done, threads[h].task)
    /\ threads' = [threads EXCEPT ![h].at = "notify"]
    /\ UNCHANGED <<queue, waiting, active, notified, worker, owed>>

\* Faulty variant: the worker is notified for the first task of the list only.
NotifyFirst(h) ==
    /\ threads[h].at = "notify"
    /\ notified' = (notified \/ Len(done) = 1)
    /\ threads' = [threads EXCEPT ![h].at = "start"]
    /\ UNCHANGED <<queue, waiting, active, done, worker, owed>>

Notify(h) ==
    /\ threads[h].at = "notify"
    /\ notified' = TRUE
    /\ threads' = [threads EXCEPT ![h].at = "start"]
    /\ UNCHANGED <<queue, waiting, active, done, worker, owed>>

\* ngx_thread_pool_exit_handler
Exit(h) ==
    /\ threads[h].at = "run" /\ threads[h].task = ExitTask
    /\ threads' = [threads EXCEPT ![h].at = "ended"]
    /\ worker' = [worker EXCEPT !.at = "stopping"]
    /\ active' = [active EXCEPT ![ExitTask] = FALSE]
    /\ UNCHANGED <<queue, waiting, done, notified, owed>>

-----------------------------------------------------------------------------
(* ngx_thread_pool_handler, called for the eventfd: it takes the whole     *)
(* list and then runs the handlers one after the other.  A handler may     *)
(* post its own task again.                                                *)

\* Faulty variant: the list of done tasks is emptied after the handlers.
HandlerClearsLate ==
    /\ worker.at = "loop" /\ notified
    /\ notified' = FALSE
    /\ worker' = [worker EXCEPT !.at = "handler", !.list = done]
    /\ UNCHANGED <<queue, waiting, threads, active, done, owed>>

Handler ==
    /\ worker.at = "loop" /\ notified
    /\ notified' = FALSE /\ done' = <<>>
    /\ worker' = [worker EXCEPT !.at = IF done = <<>> THEN "loop" ELSE "handler",
                                !.list = done]
    /\ UNCHANGED <<queue, waiting, threads, active, owed>>

Completed ==
    LET t == Head(worker.list)
        rest == Tail(worker.list)
    IN  /\ worker.at = "handler"
        /\ worker' = [worker EXCEPT !.at = IF rest = <<>> THEN "loop" ELSE "handler",
                                    !.list = rest]
        /\ \/ /\ active' = [active EXCEPT ![t] = FALSE]
              /\ owed' = [owed EXCEPT ![t] = @ + 1]
              /\ UNCHANGED <<queue, waiting, threads>>
           \/ /\ ~Overflow
              /\ Post(t) /\ UNCHANGED owed
        /\ UNCHANGED <<done, notified>>

-----------------------------------------------------------------------------
(* ngx_thread_pool_exit_worker, when the worker has no requests left but   *)
(* perhaps tasks whose requests are gone.                                  *)

Destroy ==
    /\ worker.at = "loop"
    /\ worker' = [worker EXCEPT !.at = "stopping", !.left = Cardinality(Thread)]
    /\ UNCHANGED <<queue, waiting, threads, active, done, notified, owed>>

\* Up to the loop on lock, which ends in Exit.  When the queue is full the
\* threads are left alone.
StopOne ==
    /\ worker.at = "stopping" /\ worker.left > 0
    /\ IF Overflow
       THEN /\ worker' = [worker EXCEPT !.at = "gave up"]
            /\ UNCHANGED <<queue, waiting, threads, active>>
       ELSE /\ worker' = [worker EXCEPT !.at = "joining", !.left = @ - 1]
            /\ Post(ExitTask)
    /\ UNCHANGED <<done, notified, owed>>

StopLast ==
    /\ worker.at = "stopping" /\ worker.left = 0
    /\ worker' = [worker EXCEPT !.at = "destroyed"]
    /\ UNCHANGED <<queue, waiting, threads, active, done, notified, owed>>

ThreadStep(h) == Start(h) \/ RunTask(h) \/ Notify(h) \/ Exit(h)
WorkerStep == Handler \/ Completed \/ StopOne \/ StopLast

Next ==
    \/ \E t \in Task : PostTask(t)
    \/ WorkerStep \/ Destroy
    \/ \E h \in Thread : ThreadStep(h) \/ WakeUp(h)

Spec == Init /\ [][Next]_vars

\* The system runs every thread that can run, pthread_cond_wait() returns
\* after a signal, and the worker looks at its events: weak fairness, with what
\* enables a step written out.
CanWork == (worker.at = "loop" /\ notified) \/ worker.at \in {"handler", "stopping"}
CanRun(h) == threads[h].at \in {"start", "run", "notify", "signalled"}
Run(h) == ThreadStep(h) \/ (threads[h].at = "signalled" /\ WakeUp(h))
Fairness ==
    /\ <>[]CanWork => []<><<WorkerStep>>_vars
    /\ \A h \in Thread : <>[]CanRun(h) => []<><<Run(h)>>_vars
FairSpec == Spec /\ Fairness

-----------------------------------------------------------------------------
(* Properties.                                                             *)

\* tp->waiting is the tasks in the queue less the threads that wait for one
\* ("the number may become negative"), so that max_queue bounds what waits
\* beyond the idle threads.
WaitingCounts ==
    waiting = Len(queue) - Cardinality(At("asleep") \cup At("signalled"))

\* An active task is in one place: in the queue, with a thread, in the list of
\* done tasks or with the completion handler; the others are nowhere.
OnePlace ==
    \A t \in Task :
        LET places == Cardinality({i \in DOMAIN queue : queue[i] = t})
                + Cardinality({h \in At("run") : threads[h].task = t})
                + Cardinality({i \in DOMAIN done : done[i] = t})
                + Cardinality({i \in DOMAIN worker.list : worker.list[i] = t})
        IN  places = (IF active[t] THEN 1 ELSE 0) /\ owed[t] = -places

\* No thread sleeps beside a task that nobody is on the way to: as many threads
\* are about to look at the queue as it has tasks.
NoIdleThread ==
    At("asleep") # {} =>
        Len(queue) <= Cardinality(At("signalled") \cup At("start") \cup At("notify"))

\* ngx_thread_pool_destroy comes to its end with no thread left that could
\* still take the mutex it destroys.
DestroyedUnused == worker.at = "destroyed" => At("ended") = Thread

\* Every task that is posted gets to its completion handler, if the worker is
\* not stopped before; and stopping ends.
Completes ==
    /\ \A t \in Task : active[t] ~> \/ \E i \in DOMAIN worker.list : worker.list[i] = t
                                  \/ worker.at \notin {"loop", "handler"}
    /\ worker.at = "stopping" ~> worker.at \in {"destroyed", "gave up"}

\* The pool accounts for its tasks and threads (ngx_thread_pool.c).
TasksAccounted == WaitingCounts /\ OnePlace /\ NoIdleThread /\ DestroyedUnused
=============================================================================
