------------------------ MODULE WorkerThreadExecutor ------------------------
(***************************************************************************)
(* worker_thread_executor: one thread, created by the first task, that     *)
(* takes the whole public queue at once, runs it from a private queue and  *)
(* sleeps on a binary semaphore in between.  Tasks that it runs may enqueue*)
(* more, or shut the executor down.                                        *)
(*                                                                         *)
(* What happens under m_lock is one step.  A release of a binary semaphore *)
(* that already holds a permit is outside its contract: depending on the   *)
(* library it adds a second permit or does nothing, and either is possible *)
(* here.                                                                   *)
(***************************************************************************)
EXTENDS Naturals, Sequences

CONSTANTS Clients,    \* threads other than the worker
          Shutters,   \* who may call shutdown
          MaxTasks    \* bound on the number of tasks

Worker == "worker"

ASSUME WorkerThreadAssumption ==
    /\ Worker \notin Clients
    /\ Shutters \subseteq Clients \cup {Worker}
    /\ MaxTasks \in Nat

Tasks == 1..MaxTasks

VARIABLES
    m_private_queue, m_public_queue,
    m_private_atomic_abort, m_atomic_abort, m_abort,
    m_semaphore,
    worker,     \* where the work loop is
    pc,         \* where each thread is inside enqueue or shutdown
    current,    \* the task the worker runs, 0 for none
    created,    \* number of tasks handed to enqueue so far
    foreign,    \* those that came from outside
    status      \* what became of each task

vars == <<m_private_queue, m_public_queue, m_private_atomic_abort,
          m_atomic_abort, m_abort, m_semaphore, worker, pc, current, created,
          foreign, status>>

abortVars == <<m_private_atomic_abort, m_atomic_abort, m_abort>>

TypeOK ==
    /\ m_private_queue \in Seq(Tasks)
    /\ m_public_queue \in Seq(Tasks)
    /\ m_private_atomic_abort \in BOOLEAN /\ m_atomic_abort \in BOOLEAN /\ m_abort \in BOOLEAN
    /\ m_semaphore \in Nat
    /\ worker \in {"none", "lock", "acquire", "drain", "task", "exited", "joined"}
    /\ pc \in [Clients \cup {Worker} ->
                  {"idle", "release", "abort", "private_abort", "sd_release",
                   "join", "clear", "returned", "threw"}]
    /\ current \in 0..MaxTasks
    /\ created \in 0..MaxTasks
    /\ foreign \subseteq Tasks
    /\ status \in [Tasks -> {"new", "queued", "running", "done", "destroyed",
                             "refused"}]

Init ==
    /\ m_private_queue = <<>> /\ m_public_queue = <<>>
    /\ m_private_atomic_abort = FALSE /\ m_atomic_abort = FALSE /\ m_abort = FALSE
    /\ m_semaphore = 0
    /\ worker = "none"
    /\ pc = [c \in Clients \cup {Worker} |-> "idle"]
    /\ current = 0
    /\ created = 0
    /\ foreign = {}
    /\ status = [t \in Tasks |-> "new"]

goto(c, where) == pc' = [pc EXCEPT ![c] = where]

\* Where a thread is when it is inside neither enqueue nor shutdown.
resting == {"idle", "returned", "threw"}

elements(s) == {s[k] : k \in 1..Len(s)}

become(S, what) == status' = [t \in Tasks |-> IF t \in S THEN what ELSE status[t]]

\* m_semaphore.release().
permits == {m_semaphore + 1} \cup (IF m_semaphore > 0 THEN {m_semaphore} ELSE {})

-----------------------------------------------------------------------------
(* The worker *)

\* drain_queue up to the swap: under m_lock, leave, take the public queue or
\* go to sleep.  wait_for_task comes back here after every permit.
drain_queue ==
    /\ worker = "lock"
    /\ \/ m_abort /\ worker' = "exited" /\ UNCHANGED <<m_private_queue, m_public_queue>>
       \/ /\ ~m_abort /\ m_public_queue # <<>>
          /\ m_private_queue' = m_public_queue
          /\ m_public_queue' = <<>>
          /\ worker' = "drain"
       \/ /\ ~m_abort /\ m_public_queue = <<>>
          /\ worker' = "acquire"
          /\ UNCHANGED <<m_private_queue, m_public_queue>>
    /\ UNCHANGED <<abortVars, m_semaphore, pc, current, created, foreign, status>>

acquire ==
    /\ worker = "acquire"
    /\ m_semaphore > 0
    /\ m_semaphore' = m_semaphore - 1
    /\ worker' = "lock"
    /\ UNCHANGED <<m_private_queue, m_public_queue, abortVars, pc, current,
                   created, foreign, status>>

\* Mutant: the abort flag is not looked at between tasks.
drain_queue_impl_unchecked ==
    /\ worker = "drain"
    /\ IF m_private_queue = <<>>
         THEN worker' = "lock" /\ UNCHANGED <<m_private_queue, current, status>>
         ELSE /\ m_private_queue' = Tail(m_private_queue)
              /\ worker' = "task"
              /\ become({Head(m_private_queue)}, "running")
              /\ current' = Head(m_private_queue)
    /\ UNCHANGED <<m_public_queue, abortVars, m_semaphore, pc, created, foreign>>

\* One round of drain_queue_impl: the task is popped before the abort flag is
\* looked at, and destroyed with the local variable if the flag is set.
drain_queue_impl ==
    /\ worker = "drain"
    /\ IF m_private_queue = <<>>
         THEN worker' = "lock" /\ UNCHANGED <<m_private_queue, current, status>>
         ELSE LET task == Head(m_private_queue)
              IN  /\ m_private_queue' = Tail(m_private_queue)
                  /\ IF m_private_atomic_abort
                       THEN /\ worker' = "exited"
                            /\ become({task}, "destroyed")
                            /\ UNCHANGED current
                       ELSE /\ worker' = "task"
                            /\ become({task}, "running")
                            /\ current' = task
    /\ UNCHANGED <<m_public_queue, abortVars, m_semaphore, pc, created, foreign>>

\* The functor returns; it is not inside enqueue or shutdown any more.
task_returns ==
    /\ worker = "task"
    /\ pc[Worker] \in resting
    /\ worker' = "drain"
    /\ become({current}, "done")
    /\ current' = 0
    /\ UNCHANGED <<m_private_queue, m_public_queue, abortVars, m_semaphore, pc,
                   created, foreign>>

-----------------------------------------------------------------------------
(* enqueue of one task or of several *)

fresh(n) == created + 1..created + n

handed(n) == created + n <= MaxTasks /\ created' = created + n

sequence(n) == [k \in 1..n |-> created + k]

\* A task that the worker runs enqueues: the private queue, without a lock.
enqueue_local(n) ==
    /\ worker = "task" /\ pc[Worker] \in resting
    /\ handed(n)
    /\ IF m_private_atomic_abort
         THEN become(fresh(n), "refused") /\ UNCHANGED m_private_queue
         ELSE /\ become(fresh(n), "queued")
              /\ m_private_queue' = m_private_queue \o sequence(n)
    /\ UNCHANGED <<m_public_queue, abortVars, m_semaphore, worker, pc, current, foreign>>

\* Mutant: emptiness is asked for after the insertion.
enqueue_foreign_empty_late(c, n) ==
    /\ pc[c] \in resting
    /\ handed(n)
    /\ foreign' = foreign \cup fresh(n)
    /\ IF m_abort
         THEN become(fresh(n), "refused") /\ UNCHANGED <<m_public_queue, worker, pc>>
         ELSE /\ become(fresh(n), "queued")
              /\ m_public_queue' = m_public_queue \o sequence(n)
              /\ \/ worker = "none" /\ worker' = "lock" /\ UNCHANGED pc
                 \/ /\ worker # "none" /\ UNCHANGED worker
                    /\ goto(c, IF m_public_queue' = <<>> THEN "release" ELSE pc[c])
    /\ UNCHANGED <<m_private_queue, abortVars, m_semaphore, current>>

\* Mutant: tasks are inserted at the front.
enqueue_foreign_front(c, n) ==
    /\ pc[c] \in resting
    /\ handed(n)
    /\ foreign' = foreign \cup fresh(n)
    /\ IF m_abort
         THEN become(fresh(n), "refused") /\ UNCHANGED <<m_public_queue, worker, pc>>
         ELSE /\ become(fresh(n), "queued")
              /\ m_public_queue' = sequence(n) \o m_public_queue
              /\ \/ worker = "none" /\ worker' = "lock" /\ UNCHANGED pc
                 \/ /\ worker # "none" /\ UNCHANGED worker
                    /\ goto(c, IF m_public_queue = <<>> THEN "release" ELSE pc[c])
    /\ UNCHANGED <<m_private_queue, abortVars, m_semaphore, current>>

\* Another thread enqueues: the first task creates the thread, and one that
\* finds the queue empty has to wake it up.
enqueue_foreign(c, n) ==
    /\ pc[c] \in resting
    /\ handed(n)
    /\ foreign' = foreign \cup fresh(n)
    /\ IF m_abort
         THEN become(fresh(n), "refused") /\ UNCHANGED <<m_public_queue, worker, pc>>
         ELSE /\ become(fresh(n), "queued")
              /\ m_public_queue' = m_public_queue \o sequence(n)
              /\ \/ worker = "none" /\ worker' = "lock" /\ UNCHANGED pc
                 \/ /\ worker # "none" /\ UNCHANGED worker
                    /\ goto(c, IF m_public_queue = <<>> THEN "release" ELSE pc[c])
    /\ UNCHANGED <<m_private_queue, abortVars, m_semaphore, current>>

release(c) ==
    /\ pc[c] = "release"
    /\ m_semaphore' \in permits
    /\ goto(c, "idle")
    /\ UNCHANGED <<m_private_queue, m_public_queue, abortVars, worker, current,
                   created, foreign, status>>

-----------------------------------------------------------------------------
(* shutdown.  A caller that is not the first returns at once. *)

shutdown(c) ==
    /\ pc[c] = "idle" /\ (c = Worker => worker = "task")
    /\ c \in Shutters
    /\ ~m_atomic_abort
    /\ m_atomic_abort' = TRUE
    /\ goto(c, "abort")
    /\ UNCHANGED <<m_private_queue, m_public_queue, m_private_atomic_abort, m_abort,
                   m_semaphore, worker, current, created, foreign, status>>

set_abort(c) ==
    /\ pc[c] = "abort"
    /\ m_abort' = TRUE
    /\ goto(c, "private_abort")
    /\ UNCHANGED <<m_private_queue, m_public_queue, m_private_atomic_abort,
                   m_atomic_abort, m_semaphore, worker, current, created, foreign, status>>

set_private_abort(c) ==
    /\ pc[c] = "private_abort"
    /\ m_private_atomic_abort' = TRUE
    /\ goto(c, "sd_release")
    /\ UNCHANGED <<m_private_queue, m_public_queue, m_atomic_abort, m_abort,
                   m_semaphore, worker, current, created, foreign, status>>

\* Mutant: shutdown does not release the semaphore.
shutdown_without_release(c) ==
    /\ pc[c] = "sd_release"
    /\ goto(c, "join")
    /\ UNCHANGED <<m_private_queue, m_public_queue, abortVars, m_semaphore, worker,
                   current, created, foreign, status>>

release_for_shutdown(c) ==
    /\ pc[c] = "sd_release"
    /\ m_semaphore' \in permits
    /\ goto(c, "join")
    /\ UNCHANGED <<m_private_queue, m_public_queue, abortVars, worker, current,
                   created, foreign, status>>

\* Mutant: the thread is detached instead of joined.
join_detach(c) ==
    /\ pc[c] = "join"
    /\ goto(c, "clear")
    /\ UNCHANGED <<m_private_queue, m_public_queue, abortVars, m_semaphore, worker,
                   current, created, foreign, status>>

\* A thread that joins itself gets an exception, which leaves shutdown.
join(c) ==
    /\ pc[c] = "join"
    /\ \/ worker = "none" /\ goto(c, "clear") /\ UNCHANGED worker
       \/ c = Worker /\ goto(c, "threw") /\ UNCHANGED worker
       \/ worker = "exited" /\ goto(c, "clear") /\ worker' = "joined"
    /\ UNCHANGED <<m_private_queue, m_public_queue, abortVars, m_semaphore, current,
                   created, foreign, status>>

\* Mutant: only the private queue is cleared.
clear_private(c) ==
    /\ pc[c] = "clear"
    /\ become(elements(m_private_queue), "destroyed")
    /\ m_private_queue' = <<>>
    /\ goto(c, "returned")
    /\ UNCHANGED <<m_public_queue, abortVars, m_semaphore, worker, current, created,
                   foreign>>

clear(c) ==
    /\ pc[c] = "clear"
    /\ become(elements(m_private_queue \o m_public_queue), "destroyed")
    /\ m_private_queue' = <<>> /\ m_public_queue' = <<>>
    /\ goto(c, "returned")
    /\ UNCHANGED <<abortVars, m_semaphore, worker, current, created, foreign>>

-----------------------------------------------------------------------------
work_loop == drain_queue \/ acquire \/ drain_queue_impl \/ task_returns

\* The rest of a shutdown that has begun.
shutdown_step(c) ==
    \/ set_abort(c)
    \/ set_private_abort(c)
    \/ release_for_shutdown(c)
    \/ join(c)
    \/ clear(c)

\* Bulk calls hand over two tasks; larger spans behave the same.
Bulk == 1..2

Next ==
    \/ work_loop
    \/ \E n \in Bulk : enqueue_local(n) \/ \E c \in Clients : enqueue_foreign(c, n)
    \/ \E c \in Clients : release(c)
    \/ \E c \in Clients \cup {Worker} : shutdown(c) \/ shutdown_step(c)

Spec == Init /\ [][Next]_vars

\* Threads are scheduled and tasks return; nobody has to enqueue or to shut down.
FairSpec ==
    /\ Spec
    /\ WF_vars(work_loop)
    /\ \A c \in Clients : WF_vars(release(c))
    /\ \A c \in Clients \cup {Worker} : WF_vars(shutdown_step(c))

-----------------------------------------------------------------------------
(* Properties *)

\* Whenever the work loop sleeps on m_semaphore beside a task or an abort,
\* somebody is still on the way to releasing it.
NoLostWakeup ==
    worker = "acquire" /\ m_semaphore = 0 /\ (m_public_queue # <<>> \/ m_abort)
        => \E c \in Clients \cup {Worker} :
               pc[c] \in {"release", "private_abort", "sd_release"}

\* When the shutdown that does the work returns, the thread is joined and no
\* task is queued or running, nor can one be later.
QuietAfterShutdown ==
    \A c \in Clients : pc[c] = "returned" =>
        /\ worker \in {"none", "joined"}
        /\ \A t \in Tasks : status[t] \notin {"queued", "running"}

\* Tasks from outside start in the order they were enqueued in, and so do the
\* tasks that tasks enqueue, across any number of swaps.
StartedInOrder ==
    [][\A t, u \in Tasks :
          status[t] = "queued" /\ status'[t] = "running" /\ u < t
              /\ (t \in foreign <=> u \in foreign) => status[u] # "queued"]_vars

\* Of the two queues one after the other: foreign tasks keep their order, and so
\* do local ones, which only the private queue holds.
QueuedInOrder ==
    /\ \A i, j \in 1..Len(m_private_queue) :
          i < j /\ (m_private_queue[i] \in foreign <=> m_private_queue[j] \in foreign)
              => m_private_queue[i] < m_private_queue[j]
    /\ \A i, j \in 1..Len(m_public_queue) :
          i < j => m_public_queue[i] < m_public_queue[j]
    /\ \A i \in 1..Len(m_private_queue), j \in 1..Len(m_public_queue) :
          m_private_queue[i] \in foreign => m_private_queue[i] < m_public_queue[j]
    /\ \A j \in 1..Len(m_public_queue) : m_public_queue[j] \in foreign

\* The queues hold exactly the tasks that are queued, the worker runs the only
\* task that is running, and tasks are numbered as they come.
StatusIsPlace ==
    /\ \A t \in Tasks :
          /\ status[t] = "queued" => \/ \E i \in 1..Len(m_private_queue) : m_private_queue[i] = t
                                     \/ \E i \in 1..Len(m_public_queue) : m_public_queue[i] = t
          /\ status[t] = "running" <=> worker = "task" /\ t = current
          /\ t > created => status[t] = "new" /\ t \notin foreign
    /\ \A i \in 1..Len(m_private_queue) : status[m_private_queue[i]] = "queued"
    /\ \A i \in 1..Len(m_public_queue) : status[m_public_queue[i]] = "queued"
    /\ worker = "task" => current \in Tasks
    /\ worker \in {"none", "lock", "acquire"} => m_private_queue = <<>>

\* One thread at most is past the exchange of m_atomic_abort, and the flags
\* follow its place.
ShutdownIsOrdered ==
    /\ m_private_atomic_abort => m_abort
    /\ m_abort => m_atomic_abort
    /\ \A c \in Clients \cup {Worker} :
          /\ pc[c] \notin {"idle", "release"} => m_atomic_abort
          /\ pc[c] \in {"private_abort", "sd_release", "join", "clear", "returned"} => m_abort
          /\ pc[c] \in {"clear", "returned"} => worker \in {"none", "joined"}
          /\ pc[c] = "returned" => m_private_queue = <<>> /\ m_public_queue = <<>>
    /\ pc[Worker] \notin {"idle", "threw"} => worker = "task"

Inv == TypeOK /\ NoLostWakeup /\ QueuedInOrder /\ StatusIsPlace /\ ShutdownIsOrdered

Contract == INSTANCE Executor WITH Clearable <- FALSE,
                                   closing <- m_atomic_abort,
                                   closed <- m_private_atomic_abort

\* The executor keeps the contract of module Executor: a task is refused only
\* after a shutdown began, starts at most once, and never after the private
\* abort flag is set.
ImplementsExecutor == Contract!Spec

ended(t) == status[t] \in {"done", "destroyed"}

\* Every accepted task is run or, if a shutdown comes first, destroyed, as long
\* as no task shuts down the executor that runs it: then shutdown leaves
\* with an exception and what is queued stays there.
EndsUnlessShutFromWithin ==
    \A t \in Tasks : status[t] = "queued" ~> ended(t) \/ pc[Worker] = "threw"

\* A shutdown from outside returns: the worker is always woken up to be joined.
ShutdownReturns == \A c \in Clients : pc[c] = "abort" ~> pc[c] = "returned"
=============================================================================
