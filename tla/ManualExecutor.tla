--------------------------- MODULE ManualExecutor ---------------------------
(***************************************************************************)
(* manual_executor: a queue under m_lock that threads of the application   *)
(* (Loopers) drain with the loop and wait families, while other threads    *)
(* (Callers) enqueue and shut it down.  What happens under m_lock is one   *)
(* step, and notify_all, called after the unlock, is another.  A spurious  *)
(* wakeup leads back to sleep through the predicate and is left out.       *)
(***************************************************************************)
EXTENDS Naturals, Sequences

CONSTANTS Loopers, Callers, Tasks,
          Ops,        \* the operations that loopers use
          MaxCount    \* bound on the number of tasks they ask for

VARIABLES
    m_tasks, m_abort, m_atomic_abort,
    looper,    \* of each looper: where it is, its operation, the tasks still
               \* asked for and the task it runs
    calling,   \* where each caller is inside enqueue or shutdown
    status     \* what became of each task

vars == <<m_tasks, m_abort, m_atomic_abort, looper, calling, status>>

none == <<>>
out == [pc |-> "out", op |-> "none", count |-> 0, task |-> none]

Init ==
    /\ m_tasks = <<>> /\ m_abort = FALSE /\ m_atomic_abort = FALSE
    /\ looper = [l \in Loopers |-> out]
    /\ calling = [c \in Callers |-> "idle"]
    /\ status = [t \in Tasks |-> "new"]

elements(s) == {s[k] : k \in 1..Len(s)}
become(S, what) == [t \in Tasks |-> IF t \in S THEN what ELSE status[t]]

timed(r) == r.op \in {"loop_for", "wait_for_tasks_for"}
loops(r) == r.op \in {"loop", "loop_for"}
become_looper(l, r) == looper' = [looper EXCEPT ![l] = r]
leave(l) == become_looper(l, out) /\ UNCHANGED <<m_tasks, status>>
sleep(l, r) == become_looper(l, [r EXCEPT !.pc = "asleep"]) /\ UNCHANGED <<m_tasks, status>>

\* The front of the queue is taken out under the lock and then run.
pop(l, r) ==
    /\ become_looper(l, [r EXCEPT !.pc = "running", !.task = Head(m_tasks)])
    /\ m_tasks' = Tail(m_tasks)
    /\ status' = become({Head(m_tasks)}, "running")

\* One round of loop_impl, which leaves when there is nothing to run.
loop_impl(l, r) ==
    /\ r.op = "loop"
    /\ IF m_abort \/ m_tasks = <<>> THEN leave(l) ELSE pop(l, r)

\* One round of loop_until_impl, which sleeps when there is nothing to run, and
\* leaves before it looks when its deadline has passed.
loop_until_impl(l, r) ==
    /\ r.op = "loop_for"
    /\ \/ leave(l)
       \/ IF m_abort THEN leave(l) ELSE IF m_tasks = <<>> THEN sleep(l, r) ELSE pop(l, r)

\* The wait of wait_for_tasks_impl, which returns or throws.
wait_for_tasks_impl(l, r) ==
    /\ ~loops(r)
    /\ IF m_abort \/ Len(m_tasks) >= r.count THEN leave(l) ELSE sleep(l, r)

round(l, r) ==
    /\ loop_impl(l, r) \/ loop_until_impl(l, r) \/ wait_for_tasks_impl(l, r)
    /\ UNCHANGED <<m_abort, m_atomic_abort, calling>>

\* loop_once, loop, loop_once_for, loop_for, wait_for_task(s) and
\* wait_for_task(s)_for with their first round: with a count of 0 they return.
call(l, op, n) ==
    /\ looper[l].pc = "out" /\ n > 0
    /\ round(l, [out EXCEPT !.op = op, !.count = n])

\* A further round, after a wakeup or a task.
again(l) == looper[l].pc = "check" /\ round(l, looper[l])

\* The deadline passes in a sleep, after which the looper looks once more.
time_out(l) ==
    /\ looper[l].pc = "asleep" /\ timed(looper[l])
    /\ IF loops(looper[l]) /\ ~m_abort /\ m_tasks # <<>> THEN pop(l, looper[l]) ELSE leave(l)
    /\ UNCHANGED <<m_abort, m_atomic_abort, calling>>

task_returns(l) ==
    /\ looper[l].pc = "running"
    /\ status' = become({looper[l].task}, "done")
    /\ become_looper(l, IF looper[l].count = 1 THEN out
                        ELSE [looper[l] EXCEPT !.pc = "check", !.task = none, !.count = @ - 1])
    /\ UNCHANGED <<m_tasks, m_abort, m_atomic_abort, calling>>

\* clear() throws when the executor is shut down.
clear(l) ==
    /\ looper[l].pc = "out" /\ ~m_abort
    /\ status' = become(elements(m_tasks), "destroyed")
    /\ m_tasks' = <<>>
    /\ UNCHANGED <<m_abort, m_atomic_abort, looper, calling>>

\* One task, or a span of them.
enqueue(c, tasks) ==
    /\ calling[c] = "idle"
    /\ IF m_abort
       THEN status' = become(elements(tasks), "refused") /\ UNCHANGED <<m_tasks, calling>>
       ELSE /\ status' = become(elements(tasks), "queued")
            /\ m_tasks' = m_tasks \o tasks
            /\ calling' = [calling EXCEPT ![c] = "notify"]
    /\ UNCHANGED <<m_abort, m_atomic_abort, looper>>

asleep == {l \in Loopers : looper[l].pc = "asleep"}

wake(S) ==
    looper' = [l \in Loopers |->
                  IF l \in S THEN [looper[l] EXCEPT !.pc = "check"] ELSE looper[l]]

\* Mutant: notify_one.
notify_one(c) ==
    /\ calling[c] \in {"notify", "sd_notify"}
    /\ calling' = [calling EXCEPT ![c] = IF @ = "notify" THEN "idle" ELSE "clear"]
    /\ IF asleep = {} THEN UNCHANGED looper ELSE \E l \in asleep : wake({l})
    /\ UNCHANGED <<m_tasks, m_abort, m_atomic_abort, status>>

\* The last step of enqueue, and of shutdown before it clears the tasks.
notify_all(c) ==
    /\ calling[c] \in {"notify", "sd_notify"}
    /\ calling' = [calling EXCEPT ![c] = IF @ = "notify" THEN "idle" ELSE "clear"]
    /\ wake(asleep)
    /\ UNCHANGED <<m_tasks, m_abort, m_atomic_abort, status>>

\* A second call returns at once.
shutdown(c) ==
    /\ calling[c] = "idle" /\ ~m_atomic_abort
    /\ m_atomic_abort' = TRUE
    /\ calling' = [calling EXCEPT ![c] = "abort"]
    /\ UNCHANGED <<m_tasks, m_abort, looper, status>>

\* The section under the lock; the queue moves into a local of shutdown.
set_abort(c) ==
    /\ calling[c] = "abort"
    /\ m_abort' = TRUE
    /\ m_tasks' = <<>>
    /\ calling' = [calling EXCEPT ![c] = "sd_notify"]
    /\ UNCHANGED <<m_atomic_abort, looper, status>>

\* The tasks that were queued at set_abort are destroyed.
destroy_tasks(c) ==
    /\ calling[c] = "clear"
    /\ status' = become({t \in Tasks : status[t] = "queued"}, "destroyed")
    /\ calling' = [calling EXCEPT ![c] = "idle"]
    /\ UNCHANGED <<m_tasks, m_abort, m_atomic_abort, looper>>

\* What a looper does on its own once it is inside an operation.
looper_step(l) == again(l) \/ task_returns(l)

caller_step(c) == notify_all(c) \/ set_abort(c) \/ destroy_tasks(c)

Contract == INSTANCE Executor WITH Clearable <- TRUE,
                                   closing <- m_atomic_abort, closed <- m_abort
-----------------------------------------------------------------------------
LooperStates == [pc : {"out", "asleep", "check", "running"}, op : Ops \cup {"none"},
                 count : Nat, task : Tasks \cup {none}]

TypeOK ==
    /\ m_tasks \in Seq(Tasks) /\ m_abort \in BOOLEAN /\ m_atomic_abort \in BOOLEAN
    /\ looper \in [Loopers -> LooperStates]
    /\ \A l \in Loopers : looper[l].pc # "out" => looper[l].count > 0
    /\ calling \in [Callers -> {"idle", "notify", "abort", "sd_notify", "clear"}]
    /\ status \in [Tasks -> Contract!Statuses]

distinct(s) == \A i, j \in 1..Len(s) : s[i] = s[j] => i = j

\* The queue holds each queued task once, until shutdown takes all of them.
QueueHoldsQueued ==
    /\ distinct(m_tasks)
    /\ IF m_abort THEN m_tasks = <<>>
       ELSE \A t \in Tasks : status[t] = "queued" <=> t \in elements(m_tasks)

\* A looper runs a task that no other one runs.
OneRunner ==
    \A l \in Loopers : looper[l].pc = "running" =>
        /\ looper[l].task \in Tasks /\ status[looper[l].task] = "running"
        /\ \A k \in Loopers \ {l} :
              looper[k].pc = "running" => looper[k].task # looper[l].task

shutting(c) == calling[c] \in {"abort", "sd_notify", "clear"}

\* One caller shuts the executor down, and what was queued is destroyed when it is
\* through (manual_executor.cpp:202-222).
OneShutdown ==
    /\ m_abort => m_atomic_abort
    /\ \A c \in Callers : shutting(c) =>
          /\ m_atomic_abort /\ (calling[c] = "abort" <=> ~m_abort)
          /\ \A d \in Callers \ {c} : ~shutting(d)
    /\ m_atomic_abort /\ (\A c \in Callers : ~shutting(c)) =>
          m_abort /\ \A t \in Tasks : status[t] # "queued"

Inv == TypeOK /\ QueueHoldsQueued /\ OneRunner /\ OneShutdown
=============================================================================
