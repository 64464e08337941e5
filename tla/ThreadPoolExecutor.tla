------------------------- MODULE ThreadPoolExecutor -------------------------
(***************************************************************************)
(* thread_pool_executor: N workers, each with a private queue that only    *)
(* its thread touches, a public queue under m_lock and a binary semaphore. *)
(* A thread is created by the first task of its worker, gives up after     *)
(* m_max_idle_time without work and is created again when needed.  Idle    *)
(* workers are found through relaxed flags; a worker with two tasks or     *)
(* more donates some of them to idle ones.                                 *)
(*                                                                         *)
(* What happens under m_lock is one step; flags and semaphores are stepped *)
(* through one access at a time.  A stale thread of a worker has nothing   *)
(* left to do but to return, so each worker needs only one thread here.    *)
(***************************************************************************)
EXTENDS Integers, Sequences, FiniteSets

CONSTANTS N,          \* pool_size
          Clients,    \* threads outside the pool that enqueue
          Strangers,  \* worker threads of another pool that enqueue
          Shutters,   \* the threads that may call shutdown
          MaxTasks    \* bound on the number of tasks

ASSUME ThreadPoolAssumption == N \in Nat \ {0} /\ MaxTasks \in Nat

Workers == 0..N - 1
Actors == Clients \cup Strangers \cup Shutters \cup Workers
Tasks == 1..MaxTasks

VARIABLES
    m_private_queue, m_public_queue, m_idle_worker_list,
    m_atomic_abort, m_abort, m_task_found_or_abort, m_semaphore, m_idle,
    m_idle_flags, m_approx_size, m_round_robin_cursor,
    m_pool_abort,   \* m_abort of the executor
    pc,
    hand,           \* the tasks an enqueue has still to place one by one
    probe,          \* the workers a search has still to look at
    room,           \* how many workers the search of balance_work may still take
    plan,           \* the deliveries still to be made, [to, tasks, last]
    stage,          \* the worker that a shutdown has reached
    current,        \* the task each worker runs, 0 for none
    created, status,
    strayed         \* tasks that went to the pool of their caller instead

queueVars == <<m_private_queue, m_public_queue, m_idle_worker_list>>
abortVars == <<m_atomic_abort, m_abort, m_pool_abort>>
wakeVars == <<m_task_found_or_abort, m_semaphore, m_idle>>
idleVars == <<m_idle_flags, m_approx_size, m_round_robin_cursor>>
localVars == <<hand, probe, room, plan>>
taskVars == <<current, created, status, strayed>>

vars == <<queueVars, abortVars, wakeVars, idleVars, pc, localVars, stage, taskVars>>

Init ==
    /\ m_private_queue = [w \in Workers |-> <<>>]
    /\ m_public_queue = [w \in Workers |-> <<>>]
    /\ m_idle_worker_list = [w \in Workers |-> <<>>]
    /\ m_atomic_abort = [w \in Workers |-> FALSE]
    /\ m_abort = [w \in Workers |-> FALSE]
    /\ m_pool_abort = FALSE
    /\ m_task_found_or_abort = [w \in Workers |-> FALSE]
    /\ m_semaphore = [w \in Workers |-> 0]
    /\ m_idle = [w \in Workers |-> TRUE]
    /\ m_idle_flags = [w \in Workers |-> TRUE]
    /\ m_approx_size = N
    /\ m_round_robin_cursor = 0
    /\ pc = [a \in Actors |-> IF a \in Workers THEN "exited" ELSE "idle"]
    /\ hand = [a \in Actors |-> <<>>]
    /\ probe = [a \in Actors |-> <<>>]
    /\ room = [w \in Workers |-> 0]
    /\ plan = [a \in Actors |-> <<>>]
    /\ stage = 0
    /\ current = [w \in Workers |-> 0]
    /\ created = 0
    /\ status = [t \in Tasks |-> "new"]
    /\ strayed = {}

goto(a, where) == pc' = [pc EXCEPT ![a] = where]

elements(s) == {s[k] : k \in 1..Len(s)}

become(S, what) == status' = [t \in Tasks |-> IF t \in S THEN what ELSE status[t]]

\* Where an actor goes on when it is inside neither enqueue nor shutdown.
outside(a) == IF a \in Workers THEN "task" ELSE "idle"

minimum(m, n) == IF m < n THEN m ELSE n

\* m_semaphore.release(): with a permit there already, outside its contract.
permits(w) == {m_semaphore[w] + 1} \cup (IF m_semaphore[w] > 0 THEN {m_semaphore[w]} ELSE {})

\* The end of the k-th of `total` shares of `count` tasks: donation_count each,
\* and one of the extra ones for each of the first.
upto(k, count, total) == k * (count \div total) + minimum(k, count % total)

\* The delivery of the k-th share of `tasks` to worker `to`; its last task is
\* at place `last`.
delivery(to, k, tasks, total) ==
    LET begin == upto(k - 1, Len(tasks), total)
        end == upto(k, Len(tasks), total)
    IN  [to |-> to, tasks |-> SubSeq(tasks, begin + 1, end), last |-> end]

\* m_idle becomes TRUE under m_lock and the thread returns.
retire(w) == m_idle' = [m_idle EXCEPT ![w] = TRUE] /\ goto(w, "exited")

-----------------------------------------------------------------------------
(* The work loop of worker w: waiting *)

\* The loop of drain_queue_impl ends.
drained(w) == m_private_queue[w] = <<>>

\* Mutant: the public queue is copied instead of swapped.
take_queue_copy(w) ==
    /\ m_task_found_or_abort' = [m_task_found_or_abort EXCEPT ![w] = FALSE]
    /\ IF m_abort[w]
         THEN retire(w) /\ UNCHANGED m_private_queue
         ELSE /\ m_private_queue' = [m_private_queue EXCEPT ![w] = m_public_queue[w]]
              /\ goto(w, "drain")
              /\ UNCHANGED m_idle
    /\ UNCHANGED m_public_queue

\* drain_queue once it holds m_lock and has a task or an abort.
take_queue(w) ==
    /\ m_task_found_or_abort' = [m_task_found_or_abort EXCEPT ![w] = FALSE]
    /\ IF m_abort[w]
         THEN retire(w) /\ UNCHANGED <<m_private_queue, m_public_queue>>
         ELSE /\ m_private_queue' = [m_private_queue EXCEPT ![w] = m_public_queue[w]]
              /\ m_public_queue' = [m_public_queue EXCEPT ![w] = m_private_queue[w]]
              /\ goto(w, "drain")
              /\ UNCHANGED m_idle

\* The next drain_queue, of a new thread or when the private queue is drained.
drain_queue(w) ==
    /\ pc[w] = "lock" \/ (pc[w] = "drain" /\ drained(w))
    /\ IF m_public_queue[w] # <<>> \/ m_abort[w]
         THEN take_queue(w)
         ELSE /\ goto(w, "set_idle")
              /\ UNCHANGED <<m_private_queue, m_public_queue, m_task_found_or_abort, m_idle>>
    /\ UNCHANGED <<m_idle_worker_list, abortVars, m_semaphore, idleVars, localVars,
                   stage, taskVars>>

\* mark_worker_idle: the exchange, then the counter unless it was idle before.
set_idle(w) ==
    /\ pc[w] = "set_idle"
    /\ m_idle_flags' = [m_idle_flags EXCEPT ![w] = TRUE]
    /\ goto(w, IF m_idle_flags[w] THEN "acquire" ELSE "add")
    /\ UNCHANGED <<queueVars, abortVars, wakeVars, m_approx_size, m_round_robin_cursor,
                   localVars, stage, taskVars>>

fetch_add(w) ==
    /\ pc[w] = "add"
    /\ m_approx_size' = m_approx_size + 1
    /\ goto(w, "acquire")
    /\ UNCHANGED <<queueVars, abortVars, wakeVars, m_idle_flags, m_round_robin_cursor,
                   localVars, stage, taskVars>>

\* try_acquire_until obtains a permit...
acquire(w) ==
    /\ pc[w] = "acquire"
    /\ m_semaphore[w] > 0
    /\ m_semaphore' = [m_semaphore EXCEPT ![w] = @ - 1]
    /\ goto(w, "woken")
    /\ UNCHANGED <<queueVars, abortVars, m_task_found_or_abort, m_idle, idleVars,
                   localVars, stage, taskVars>>

\* ... or fails past the deadline.
time_out(w) ==
    /\ pc[w] = "acquire"
    /\ m_semaphore[w] = 0
    /\ goto(w, "timed_out")
    /\ UNCHANGED <<queueVars, abortVars, wakeVars, idleVars, localVars, stage, taskVars>>

\* After a permit: back to sleep unless there is a task or an abort.  The flag
\* is only cleared by this thread, so reading it can wait for m_lock.
\* mark_worker_active is one step here: who reads the counter before it is
\* decremented probes the flags later and finds them cleared.
woken(w) ==
    /\ pc[w] = "woken"
    /\ IF m_task_found_or_abort[w] /\ (m_public_queue[w] # <<>> \/ m_abort[w])
         THEN IF m_abort[w]
                THEN /\ retire(w)
                     /\ UNCHANGED <<m_private_queue, m_public_queue, idleVars,
                                    m_task_found_or_abort>>
                ELSE /\ take_queue(w)
                     /\ m_idle_flags' = [m_idle_flags EXCEPT ![w] = FALSE]
                     /\ m_approx_size' = m_approx_size - (IF m_idle_flags[w] THEN 1 ELSE 0)
                     /\ UNCHANGED m_round_robin_cursor
         ELSE /\ goto(w, "acquire")
              /\ UNCHANGED <<m_private_queue, m_public_queue, idleVars,
                             m_task_found_or_abort, m_idle>>
    /\ UNCHANGED <<m_idle_worker_list, abortVars, m_semaphore, localVars, stage, taskVars>>

\* After the deadline the thread ends, without another look at m_public_queue.
give_up(w) ==
    /\ pc[w] = "timed_out"
    /\ retire(w)
    /\ UNCHANGED <<queueVars, abortVars, m_task_found_or_abort, m_semaphore, idleVars,
                   localVars, stage, taskVars>>

-----------------------------------------------------------------------------
(* The work loop of worker w: balance_work and running tasks *)

\* The other workers, in the order in which a search from `start` visits them.
others(start, caller) ==
    SelectSeq([i \in 1..N |-> (start + i - 1) % N], LAMBDA index : index # caller)

\* The deliveries of balance_work for the idle workers in `list`.
donations(w, list) ==
    [k \in 1..Len(list) |->
        delivery(list[k], k, m_private_queue[w], Len(list) + 1)]

\* With fewer tasks or workers than two, balance_work does nothing.
worth_donating(w) == Len(m_private_queue[w]) >= 2 /\ N > 1

\* What balance_work does when the search is over.
donate_to(w, list) ==
    /\ goto(w, IF list = <<>> THEN "pop" ELSE "donate")
    /\ plan' = [plan EXCEPT ![w] = donations(w, list)]

\* balance_work up to its search for idle workers, which looks at m_approx_size
\* first.
balance_work(w) ==
    /\ pc[w] = "drain" /\ worth_donating(w)
    /\ IF m_approx_size <= 0
         THEN donate_to(w, m_idle_worker_list[w]) /\ UNCHANGED <<probe, room>>
         ELSE /\ probe' = [probe EXCEPT ![w] = others(w, w)]
              /\ room' = [room EXCEPT ![w] =
                    minimum(m_approx_size, minimum(N - 1, Len(m_private_queue[w]) - 1))]
              /\ goto(w, "look")
              /\ UNCHANGED plan
    /\ UNCHANGED <<queueVars, abortVars, wakeVars, idleVars, hand, stage, taskVars>>

\* find_idle_workers: take the idle flags one after the other.
find_idle_workers(w) ==
    /\ pc[w] = "look"
    /\ IF probe[w] = <<>> \/ room[w] = 0
         THEN /\ donate_to(w, m_idle_worker_list[w])
              /\ probe' = [probe EXCEPT ![w] = <<>>]
              /\ room' = [room EXCEPT ![w] = 0]
              /\ UNCHANGED <<m_idle_flags, m_idle_worker_list>>
         ELSE LET index == Head(probe[w])
              IN  /\ probe' = [probe EXCEPT ![w] = Tail(@)]
                  /\ m_idle_flags' = [m_idle_flags EXCEPT ![index] = FALSE]
                  /\ IF m_idle_flags[index]
                       THEN /\ m_idle_worker_list' =
                                   [m_idle_worker_list EXCEPT ![w] = Append(@, index)]
                            /\ room' = [room EXCEPT ![w] = @ - 1]
                            /\ goto(w, "donate_sub")
                       ELSE UNCHANGED <<m_idle_worker_list, room, pc>>
                  /\ UNCHANGED plan
    /\ UNCHANGED <<m_private_queue, m_public_queue, abortVars, wakeVars, m_approx_size,
                   m_round_robin_cursor, hand, stage, taskVars>>

fetch_sub(a) ==
    /\ pc[a] \in {"sub", "donate_sub"}
    /\ m_approx_size' = m_approx_size - 1
    /\ goto(a, IF pc[a] = "sub" THEN "foreign" ELSE "look")
    /\ UNCHANGED <<queueVars, abortVars, wakeVars, m_idle_flags, m_round_robin_cursor,
                   localVars, stage, taskVars>>

\* Mutant: a sleeping worker is not woken up.
append_silent(a, to, tasks, next, releasing) ==
    /\ m_task_found_or_abort' = [m_task_found_or_abort EXCEPT ![to] = TRUE]
    /\ m_public_queue' = [m_public_queue EXCEPT ![to] = @ \o tasks]
    /\ m_idle' = [m_idle EXCEPT ![to] = FALSE]
    /\ pc' = [pc EXCEPT ![a] = next, ![to] = IF m_idle[to] THEN "lock" ELSE @]

\* enqueue_foreign of a worker that is not aborting, called by a: append and
\* ensure_worker_active.  `next` is where a goes on, `releasing` where it goes
\* to release the semaphore first.
append(a, to, tasks, next, releasing) ==
    /\ m_task_found_or_abort' = [m_task_found_or_abort EXCEPT ![to] = TRUE]
    /\ m_public_queue' = [m_public_queue EXCEPT ![to] = @ \o tasks]
    /\ m_idle' = [m_idle EXCEPT ![to] = FALSE]
    /\ pc' = [pc EXCEPT ![a] = IF ~m_idle[to] /\ m_public_queue[to] = <<>>
                                 THEN releasing ELSE next,
                        ![to] = IF m_idle[to] THEN "lock" ELSE @]

\* One delivery of balance_work.  What was moved leaves empty tasks behind (0),
\* erased with the last delivery.  If the other worker is shutting down, the
\* exception ends this thread with the private queue and the list as they are.
donate(w) ==
    /\ pc[w] = "donate"
    /\ LET to == Head(plan[w]).to
           tasks == Head(plan[w]).tasks
           last == Head(plan[w]).last
           done == Tail(plan[w]) = <<>>
           kept == SubSeq(m_private_queue[w], last + 1, Len(m_private_queue[w]))
       IN  IF m_abort[to]
             THEN /\ retire(w)
                  /\ plan' = [plan EXCEPT ![w] = <<>>]
                  /\ UNCHANGED <<queueVars, m_task_found_or_abort>>
             ELSE /\ append(w, to, tasks, IF done THEN "pop" ELSE "donate", "donate_release")
                  /\ m_private_queue' = [m_private_queue EXCEPT ![w] =
                        IF done THEN kept ELSE [k \in 1..last |-> 0] \o kept]
                  /\ m_idle_worker_list' = [m_idle_worker_list EXCEPT ![w] =
                                               IF done THEN <<>> ELSE @]
                  /\ plan' = [plan EXCEPT ![w] = IF pc'[w] = "donate_release" THEN @ ELSE Tail(@)]
    /\ UNCHANGED <<abortVars, m_semaphore, idleVars, hand, probe, room, stage, taskVars>>

\* The rest of a round of drain_queue_impl: m_atomic_abort is looked at after
\* balance_work, and tasks are taken from the back.
drain_queue_impl(w) ==
    /\ \/ pc[w] = "pop"
       \/ pc[w] = "drain" /\ ~drained(w) /\ ~worth_donating(w)
    /\ IF m_atomic_abort[w]
         THEN retire(w) /\ UNCHANGED <<m_private_queue, current, status>>
         ELSE LET n == Len(m_private_queue[w])
                  task == m_private_queue[w][n]
              IN  /\ m_private_queue' = [m_private_queue EXCEPT ![w] = SubSeq(@, 1, n - 1)]
                  /\ IF task = 0
                       THEN goto(w, "drain") /\ UNCHANGED <<current, status>>
                       ELSE /\ goto(w, "task")
                            /\ current' = [current EXCEPT ![w] = task]
                            /\ become({task}, "running")
                  /\ UNCHANGED m_idle
    /\ UNCHANGED <<m_public_queue, m_idle_worker_list, abortVars, m_task_found_or_abort,
                   m_semaphore, idleVars, localVars, stage, created, strayed>>

task_returns(w) ==
    /\ pc[w] = "task"
    /\ goto(w, "drain")
    /\ current' = [current EXCEPT ![w] = 0]
    /\ become({current[w]}, "done")
    /\ UNCHANGED <<queueVars, abortVars, wakeVars, idleVars, localVars, stage, created,
                   strayed>>

-----------------------------------------------------------------------------
(* enqueue, from a client or from a task of a worker *)

fresh(n) == created + 1..created + n

handed(n) == created + n <= MaxTasks /\ created' = created + n

sequence(n) == [k \in 1..n |-> created + k]

\* Mutant: the abort flag is not looked at.
enqueue_local_unchecked(w, new) ==
    /\ become(elements(new), "queued")
    /\ m_private_queue' = [m_private_queue EXCEPT ![w] = @ \o new]

\* enqueue_local of the tasks `new` by the worker itself.
enqueue_local(w, new) ==
    IF m_atomic_abort[w]
      THEN become(elements(new), "refused") /\ UNCHANGED m_private_queue
      ELSE /\ become(elements(new), "queued")
           /\ m_private_queue' = [m_private_queue EXCEPT ![w] = @ \o new]

\* enqueue(span) in a worker: everything goes to its private queue.  A single
\* task does too if the worker appears empty.
enqueue_in_worker(w, n) ==
    /\ pc[w] = "task"
    /\ handed(n)
    /\ enqueue_local(w, sequence(n))
    /\ UNCHANGED <<m_public_queue, m_idle_worker_list, abortVars, wakeVars, idleVars, pc,
                   localVars, stage, current, strayed>>

\* enqueue(task) in a worker that does not appear empty.
enqueue_from_worker(w) ==
    /\ pc[w] = "task"
    /\ m_private_queue[w] # <<>> \/ m_task_found_or_abort[w]
    /\ handed(1)
    /\ hand' = [hand EXCEPT ![w] = sequence(1)]
    /\ goto(w, "find")
    /\ UNCHANGED <<queueVars, abortVars, wakeVars, idleVars, probe, room, plan, stage,
                   current, status, strayed>>

\* enqueue by a client: a span of N tasks or more is shared out over all
\* workers, a smaller one is placed task by task.
enqueue(c, n) ==
    /\ pc[c] = "idle"
    /\ handed(n)
    /\ IF n < N
         THEN /\ hand' = [hand EXCEPT ![c] = sequence(n)]
              /\ goto(c, "find")
              /\ UNCHANGED plan
         ELSE /\ plan' = [plan EXCEPT ![c] =
                             [k \in 1..N |-> delivery(k - 1, k, sequence(n), N)]]
              /\ goto(c, "foreign")
              /\ UNCHANGED hand
    /\ UNCHANGED <<queueVars, abortVars, wakeVars, idleVars, probe, room, stage,
                   current, status, strayed>>

\* this_worker is a thread-local of all pools: what a worker of another pool
\* enqueues here goes to its own private queue, several tasks in any case and a
\* single one if that worker appears empty; otherwise idle workers come first.
enqueue_by_stranger(s, n) ==
    /\ pc[s] = "idle"
    /\ handed(n)
    /\ \/ strayed' = strayed \cup fresh(n) /\ UNCHANGED <<hand, pc>>
       \/ /\ n = 1
          /\ hand' = [hand EXCEPT ![s] = sequence(1)]
          /\ goto(s, "find")
          /\ UNCHANGED strayed
    /\ UNCHANGED <<queueVars, abortVars, wakeVars, idleVars, probe, room, plan, stage,
                   current, status>>

\* find_idle_worker looks at m_approx_size, then at the flags, from the hash of
\* the thread or, leaving it out, from this_thread_index, be it of this pool.
find_idle_worker(a) ==
    /\ pc[a] = "find"
    /\ IF m_approx_size <= 0
         THEN goto(a, "round_robin") /\ UNCHANGED probe
         ELSE /\ goto(a, "probe")
              /\ \E start \in 0..N :
                    LET caller == IF a \in Clients THEN N ELSE start
                    IN  /\ a \in Workers => start = a
                        /\ probe' = [probe EXCEPT ![a] = others(start, caller)]
    /\ UNCHANGED <<queueVars, abortVars, wakeVars, idleVars, hand, room, plan, stage, taskVars>>

\* The first task in hand, for worker `to`.
deliver(to, a) == <<delivery(to, 1, <<Head(hand[a])>>, 1)>>

try_acquire_flag(a) ==
    /\ pc[a] = "probe"
    /\ IF probe[a] = <<>>
         THEN goto(a, "round_robin") /\ UNCHANGED <<m_idle_flags, probe, hand, plan>>
         ELSE LET index == Head(probe[a])
              IN  /\ m_idle_flags' = [m_idle_flags EXCEPT ![index] = FALSE]
                  /\ IF m_idle_flags[index]
                       THEN /\ goto(a, "sub")
                            /\ probe' = [probe EXCEPT ![a] = <<>>]
                            /\ plan' = [plan EXCEPT ![a] = deliver(index, a)]
                            /\ hand' = [hand EXCEPT ![a] = Tail(@)]
                       ELSE /\ probe' = [probe EXCEPT ![a] = Tail(@)]
                            /\ UNCHANGED <<pc, hand, plan>>
    /\ UNCHANGED <<queueVars, abortVars, wakeVars, m_approx_size, m_round_robin_cursor,
                   room, stage, taskVars>>

\* Nobody is idle: a worker keeps the task, of whichever pool it is; any other
\* thread takes the next worker in turn.
no_idle_worker(a) ==
    /\ pc[a] = "round_robin"
    /\ \/ /\ a \in Workers
          /\ enqueue_local(a, hand[a])
          /\ UNCHANGED <<plan, m_round_robin_cursor, strayed>>
       \/ /\ a \in Strangers
          /\ strayed' = strayed \cup elements(hand[a])
          /\ UNCHANGED <<plan, m_round_robin_cursor, m_private_queue, status>>
       \/ /\ a \in Clients
          /\ plan' = [plan EXCEPT ![a] = deliver(m_round_robin_cursor, a)]
          /\ m_round_robin_cursor' = (m_round_robin_cursor + 1) % N
          /\ UNCHANGED <<m_private_queue, status, strayed>>
    /\ hand' = [hand EXCEPT ![a] = Tail(@)]
    /\ goto(a, IF a \in Clients THEN "foreign" ELSE outside(a))
    /\ UNCHANGED <<m_public_queue, m_idle_worker_list, abortVars, wakeVars, m_idle_flags,
                   m_approx_size, probe, room, stage, current, created>>

\* Where an enqueue goes on after a delivery, with `left` deliveries to make.
onward(a, left) ==
    IF left # <<>> THEN "foreign" ELSE IF hand[a] # <<>> THEN "find" ELSE outside(a)

\* enqueue_foreign: a worker that is shutting down refuses, and with it all the
\* tasks of the call that have not been placed.
enqueue_foreign(a) ==
    /\ pc[a] = "foreign"
    /\ LET to == Head(plan[a]).to
           tasks == Head(plan[a]).tasks
           unplaced == UNION {elements(plan[a][k].tasks) : k \in 1..Len(plan[a])}
       IN  IF m_abort[to]
             THEN /\ become(unplaced \cup elements(hand[a]), "refused")
                  /\ plan' = [plan EXCEPT ![a] = <<>>]
                  /\ hand' = [hand EXCEPT ![a] = <<>>]
                  /\ goto(a, outside(a))
                  /\ UNCHANGED <<m_public_queue, m_task_found_or_abort, m_idle>>
             ELSE /\ append(a, to, tasks, onward(a, Tail(plan[a])), "release")
                  /\ become(elements(tasks), "queued")
                  /\ plan' = [plan EXCEPT ![a] = IF pc'[a] = "release" THEN @ ELSE Tail(@)]
                  /\ UNCHANGED hand
    /\ UNCHANGED <<m_private_queue, m_idle_worker_list, abortVars, m_semaphore, idleVars,
                   probe, room, stage, current, created, strayed>>

release(a) ==
    /\ pc[a] \in {"release", "donate_release"}
    /\ LET to == Head(plan[a]).to
           left == Tail(plan[a])
       IN  /\ \E n \in permits(to) : m_semaphore' = [m_semaphore EXCEPT ![to] = n]
           /\ plan' = [plan EXCEPT ![a] = left]
           /\ goto(a, IF pc[a] = "release" THEN onward(a, left)
                      ELSE IF left = <<>> THEN "pop" ELSE "donate")
    /\ UNCHANGED <<queueVars, abortVars, m_task_found_or_abort, m_idle, idleVars, hand,
                   probe, room, stage, taskVars>>

-----------------------------------------------------------------------------
(* shutdown: one worker after the other.  A caller that is not the first      *)
(* returns at once.                                                           *)

shutdown(a) ==
    /\ a \in Shutters
    /\ pc[a] = outside(a)
    /\ ~m_pool_abort
    /\ m_pool_abort' = TRUE
    /\ goto(a, "atomic_abort")
    /\ UNCHANGED <<queueVars, m_atomic_abort, m_abort, wakeVars, idleVars, localVars,
                   stage, taskVars>>

set_atomic_abort(a) ==
    /\ pc[a] = "atomic_abort"
    /\ m_atomic_abort' = [m_atomic_abort EXCEPT ![stage] = TRUE]
    /\ goto(a, "abort")
    /\ UNCHANGED <<queueVars, m_abort, m_pool_abort, wakeVars, idleVars, localVars,
                   stage, taskVars>>

\* Mutant: only the atomic flag is set.
set_abort_not(a) ==
    /\ pc[a] = "abort"
    /\ goto(a, "notify")
    /\ UNCHANGED <<queueVars, abortVars, wakeVars, idleVars, localVars, stage, taskVars>>

set_abort(a) ==
    /\ pc[a] = "abort"
    /\ m_abort' = [m_abort EXCEPT ![stage] = TRUE]
    /\ goto(a, "notify")
    /\ UNCHANGED <<queueVars, m_atomic_abort, m_pool_abort, wakeVars, idleVars, localVars,
                   stage, taskVars>>

\* Mutant: the semaphore is released, the flag is not set.
notify_without_flag(a) ==
    /\ pc[a] = "notify"
    /\ \E n \in permits(stage) : m_semaphore' = [m_semaphore EXCEPT ![stage] = n]
    /\ goto(a, "join")
    /\ UNCHANGED <<queueVars, abortVars, m_task_found_or_abort, m_idle, idleVars, localVars,
                   stage, taskVars>>

notify(a) ==
    /\ pc[a] = "notify"
    /\ m_task_found_or_abort' = [m_task_found_or_abort EXCEPT ![stage] = TRUE]
    /\ \E n \in permits(stage) : m_semaphore' = [m_semaphore EXCEPT ![stage] = n]
    /\ goto(a, "join")
    /\ UNCHANGED <<queueVars, abortVars, m_idle, idleVars, localVars, stage, taskVars>>

\* Join the thread and clear both queues, which nobody else can reach any more.
\* A worker that joins itself gets an exception and leaves the shutdown there.
join(a) ==
    /\ pc[a] = "join"
    /\ \/ /\ a = stage
          /\ goto(a, "task")
          /\ UNCHANGED <<m_private_queue, m_public_queue, stage, status>>
       \/ /\ a # stage /\ pc[stage] = "exited"
          /\ become(elements(m_private_queue[stage] \o m_public_queue[stage]), "destroyed")
          /\ m_private_queue' = [m_private_queue EXCEPT ![stage] = <<>>]
          /\ m_public_queue' = [m_public_queue EXCEPT ![stage] = <<>>]
          /\ stage' = stage + 1
          /\ goto(a, IF stage + 1 < N THEN "atomic_abort"
                     ELSE IF a \in Workers THEN "task" ELSE "returned")
    /\ UNCHANGED <<m_idle_worker_list, abortVars, wakeVars, idleVars, localVars, current,
                   created, strayed>>

-----------------------------------------------------------------------------
work_loop(w) ==
    \/ drain_queue(w)
    \/ set_idle(w)
    \/ fetch_add(w)
    \/ acquire(w)
    \/ woken(w)
    \/ give_up(w)
    \/ balance_work(w)
    \/ find_idle_workers(w)
    \/ donate(w)
    \/ drain_queue_impl(w)
    \/ task_returns(w)

\* The rest of an enqueue that has begun.
enqueue_step(a) ==
    \/ find_idle_worker(a)
    \/ try_acquire_flag(a)
    \/ fetch_sub(a)
    \/ no_idle_worker(a)
    \/ enqueue_foreign(a)
    \/ release(a)

shutdown_step(a) ==
    \/ set_atomic_abort(a)
    \/ set_abort(a)
    \/ notify(a)
    \/ join(a)

Next ==
    \/ \E w \in Workers : work_loop(w) \/ time_out(w) \/ enqueue_from_worker(w)
    \/ \E n \in 1..N : \/ \E c \in Clients : enqueue(c, n)
                       \/ \E s \in Strangers : enqueue_by_stranger(s, n)
                       \/ \E w \in Workers : enqueue_in_worker(w, n)
    \/ \E a \in Actors : enqueue_step(a) \/ shutdown(a) \/ shutdown_step(a)

Spec == Init /\ [][Next]_vars

\* What thread a does once it has begun.
thread_step(a) == (a \in Workers /\ work_loop(a)) \/ enqueue_step(a) \/ shutdown_step(a)

\* Threads are scheduled and tasks return; nobody has to enqueue, to shut down or
\* to time out.
FairSpec == Spec /\ \A a \in Actors : WF_vars(thread_step(a))

-----------------------------------------------------------------------------
(* Properties *)

queued_in(w) == m_private_queue[w] \o m_public_queue[w]

\* Donations, swaps and shares neither lose nor duplicate a task: a task that
\* was accepted and has not started is at exactly one place of exactly one
\* queue, and a queue holds no other tasks.
QueuedExactlyOnce ==
    \A t \in Tasks :
        LET places == {<<w, k>> \in Workers \X (1..2 * MaxTasks) :
                          k <= Len(queued_in(w)) /\ queued_in(w)[k] = t}
        IN  Cardinality(places) = IF status[t] = "queued" THEN 1 ELSE 0

\* When the shutdown that does the work returns, every thread has ended and no
\* task is queued or running.
QuietAfterShutdown ==
    \A c \in Actors \ Workers : pc[c] = "returned" =>
        /\ \A w \in Workers : m_idle[w] /\ pc[w] = "exited"
        /\ \A t \in Tasks : status[t] \notin {"queued", "running"}

Contract == INSTANCE Executor WITH Clearable <- FALSE,
                                   closing <- m_pool_abort,
                                   closed <- \A w \in Workers : m_abort[w]

\* The pool keeps the contract of module Executor, whichever worker a task is
\* placed in or donated to; it is closed when m_abort is set in every worker.
ImplementsExecutor == Contract!Spec

\* Every task that is handed to the pool is refused, run or, if a shutdown comes
\* first, destroyed, as enqueue "schedules a task to run in this executor".
EveryTaskEnds ==
    \A t \in Tasks : t <= created ~> status[t] \in {"done", "destroyed", "refused"}

\* A task in a queue whose worker has no thread, with no shutdown from outside
\* under way to clear it; or a task that went to the pool of its caller.
left_behind(t) ==
    \/ t \in strayed
    \/ /\ \E w \in Workers : m_idle[w] /\ t \in elements(queued_in(w))
       /\ \A c \in Actors \ Workers :
             pc[c] \notin {"atomic_abort", "abort", "notify", "join"}

\* The same, except for a task whose worker's thread timed out or left beside it
\* (thread_pool_executor.cpp:306), and for one that another pool took because
\* this_worker is a worker of that pool (:564).
EndsUnlessLeftBehind ==
    \A t \in Tasks : t <= created ~>
        status[t] \in {"done", "destroyed", "refused"} \/ left_behind(t)

\* A shutdown from outside the pool returns: every worker is woken up to be joined.
ShutdownReturns ==
    \A c \in Shutters \ Workers : pc[c] = "atomic_abort" ~> pc[c] = "returned"
=============================================================================
