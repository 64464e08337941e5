--------------------------- MODULE ThreadExecutor ---------------------------
(***************************************************************************)
(* thread_executor: a thread of its own for every task.  A thread that has *)
(* run its task retires: it takes the place of the thread that retired     *)
(* before it and joins that one, so that shutdown only has to join the     *)
(* last.  A thread is named by its task.                                   *)
(***************************************************************************)
EXTENDS Naturals

CONSTANT Tasks

VARIABLES
    m_workers, m_last_retired,   \* the two lists of threads
    m_abort, m_atomic_abort,
    thread,         \* where each thread is
    last_retired,   \* the local list of a thread that retires
    shutter,        \* where shutdown is
    status          \* what became of each task

vars == <<m_workers, m_last_retired, m_abort, m_atomic_abort, thread,
          last_retired, shutter, status>>

Init ==
    /\ m_workers = {} /\ m_last_retired = {}
    /\ m_abort = FALSE /\ m_atomic_abort = FALSE
    /\ thread = [t \in Tasks |-> "none"]
    /\ last_retired = [t \in Tasks |-> {}]
    /\ shutter = "out"
    /\ status = [t \in Tasks |-> "new"]

become(S, what) == [t \in Tasks |-> IF t \in S THEN what ELSE status[t]]

\* Mutant: the flag of shutdown is not looked at.
enqueue_unchecked(tasks) ==
    /\ shutter # "join"
    /\ status' = become(tasks, "queued")
    /\ m_workers' = m_workers \cup tasks
    /\ thread' = [t \in Tasks |-> IF t \in tasks THEN "started" ELSE thread[t]]
    /\ UNCHANGED <<m_last_retired, m_abort, m_atomic_abort, last_retired, shutter>>

\* One task, or a span of them.  shutdown keeps the lock while it joins.
enqueue(tasks) ==
    /\ shutter # "join"
    /\ IF m_abort
       THEN status' = become(tasks, "refused") /\ UNCHANGED <<m_workers, thread>>
       ELSE /\ status' = become(tasks, "queued")
            /\ m_workers' = m_workers \cup tasks
            /\ thread' = [t \in Tasks |-> IF t \in tasks THEN "started" ELSE thread[t]]
    /\ UNCHANGED <<m_last_retired, m_abort, m_atomic_abort, last_retired, shutter>>

task_starts(t) ==
    /\ thread[t] = "started"
    /\ thread' = [thread EXCEPT ![t] = "task"]
    /\ status' = [status EXCEPT ![t] = "running"]
    /\ UNCHANGED <<m_workers, m_last_retired, m_abort, m_atomic_abort, last_retired, shutter>>

\* Mutant: the thread that retired before is forgotten.
retire_worker_detach(t) ==
    /\ thread[t] = "task"
    /\ status' = [status EXCEPT ![t] = "done"]
    /\ m_last_retired' = {t}
    /\ m_workers' = m_workers \ {t}
    /\ thread' = [thread EXCEPT ![t] = "notify"]
    /\ UNCHANGED <<m_abort, m_atomic_abort, last_retired, shutter>>

\* The task returns; the section of retire_worker under the lock.
retire_worker(t) ==
    /\ thread[t] = "task"
    /\ status' = [status EXCEPT ![t] = "done"]
    /\ last_retired' = [last_retired EXCEPT ![t] = m_last_retired]
    /\ m_last_retired' = {t}
    /\ m_workers' = m_workers \ {t}
    /\ thread' = [thread EXCEPT ![t] = "notify"]
    /\ UNCHANGED <<m_abort, m_atomic_abort, shutter>>

\* m_condition.notify_one(): only shutdown waits.
notify_one(t) ==
    /\ thread[t] = "notify"
    /\ shutter' = IF shutter = "asleep" THEN "wait" ELSE shutter
    /\ thread' = [thread EXCEPT ![t] = "join"]
    /\ UNCHANGED <<m_workers, m_last_retired, m_abort, m_atomic_abort, last_retired, status>>

\* The thread joins the one it replaced and ends.
join(t) ==
    /\ thread[t] = "join"
    /\ \A p \in last_retired[t] : thread[p] = "ended"
    /\ thread' = [p \in Tasks |-> IF p = t THEN "ended"
                                  ELSE IF p \in last_retired[t] THEN "joined" ELSE thread[p]]
    /\ last_retired' = [last_retired EXCEPT ![t] = {}]
    /\ UNCHANGED <<m_workers, m_last_retired, m_abort, m_atomic_abort, shutter, status>>

\* A second call returns at once.
shutdown ==
    /\ ~m_atomic_abort
    /\ m_atomic_abort' = TRUE
    /\ shutter' = "wait"
    /\ UNCHANGED <<m_workers, m_last_retired, m_abort, thread, last_retired, status>>

\* m_abort is set, and shutdown sleeps until no thread is at work.
wait_for_workers ==
    /\ shutter = "wait"
    /\ m_abort' = TRUE
    /\ shutter' = IF m_workers = {} THEN "join" ELSE "asleep"
    /\ UNCHANGED <<m_workers, m_last_retired, m_atomic_abort, thread, last_retired, status>>

join_last_retired ==
    /\ shutter = "join"
    /\ \A p \in m_last_retired : thread[p] = "ended"
    /\ thread' = [p \in Tasks |-> IF p \in m_last_retired THEN "joined" ELSE thread[p]]
    /\ m_last_retired' = {}
    /\ shutter' = "returned"
    /\ UNCHANGED <<m_workers, m_abort, m_atomic_abort, last_retired, status>>

thread_step(t) ==
    task_starts(t) \/ retire_worker(t) \/ notify_one(t) \/ join(t)

shutdown_step == wait_for_workers \/ join_last_retired

Contract == INSTANCE Executor WITH Clearable <- FALSE,
                                   closing <- m_atomic_abort,
                                   closed <- shutter \in {"join", "returned"}
-----------------------------------------------------------------------------
TypeOK ==
    /\ m_workers \subseteq Tasks /\ m_last_retired \subseteq Tasks
    /\ m_abort \in BOOLEAN /\ m_atomic_abort \in BOOLEAN
    /\ thread \in [Tasks -> {"none", "started", "task", "notify", "join", "ended", "joined"}]
    /\ last_retired \in [Tasks -> SUBSET Tasks]
    /\ shutter \in {"out", "wait", "asleep", "join", "returned"}
    /\ status \in [Tasks -> Contract!Statuses]

\* m_workers lists the threads whose task has not returned.
WorkersAtWork ==
    \A t \in Tasks :
        /\ t \in m_workers <=> thread[t] \in {"started", "task"}
        /\ thread[t] = "none" <=> status[t] \in {"new", "refused"}
        /\ thread[t] = "started" <=> status[t] = "queued"
        /\ thread[t] = "task" <=> status[t] = "running"

\* shutdown waits until no thread is at work, and none starts after that.
ShutdownInOrder ==
    /\ shutter = "out" <=> ~m_atomic_abort
    /\ shutter \in {"asleep", "join", "returned"} => m_abort
    /\ shutter = "out" => ~m_abort
    /\ shutter \in {"join", "returned"} => m_workers = {}

retiring == {t \in Tasks : thread[t] \in {"notify", "join"}}
unjoined == {t \in Tasks : thread[t] \in {"notify", "join", "ended"}}

\* The thread of every task that has returned is in one list from which it will be
\* joined: m_last_retired or the list of a thread that retired after it.
JoinedByOne ==
    /\ m_last_retired \subseteq unjoined
    /\ \A u \in Tasks : \A p \in last_retired[u] :
          /\ u \in retiring /\ p \in unjoined /\ p \notin m_last_retired
          /\ \A v \in Tasks \ {u} : p \notin last_retired[v]
    /\ \A p \in unjoined : p \in m_last_retired \/ \E u \in Tasks : p \in last_retired[u]

\* No threads wait for one another in a circle: of any that retire, one is awaited
\* by none of them, the one that retired last.
NoCircle ==
    \A S \in SUBSET retiring :
        S # {} => \E u \in S : \A v \in S : u \notin last_retired[v]

\* Every thread has been joined when shutdown returns.
AllJoined == shutter = "returned" => \A t \in Tasks : thread[t] \in {"none", "joined"}

Inv == TypeOK /\ WorkersAtWork /\ ShutdownInOrder /\ JoinedByOne /\ NoCircle /\ AllJoined
=============================================================================
