------------------------------- MODULE Runtime ------------------------------
(***************************************************************************)
(* runtime: the timer queue fires timers into executors while threads of   *)
(* the application make and cancel timers, post tasks and drain a manual   *)
(* executor, and the destructor shuts everything down in its order.  The   *)
(* composition has one executor of each kind that is not modelled on its   *)
(* own: a thread_executor and a manual_executor, which the application     *)
(* made, so that it comes after the executors of the runtime.  Servers and *)
(* calls of the network run on the io pool of the runtime.                 *)
(***************************************************************************)
EXTENDS RuntimeParts, Network

CONSTANT
    Programs    \* what the application may do: the executor it uses, the
                \* timers it makes, whether it posts, its loopers, whether it
                \* shuts the manual executor down on its own, the peers of its
                \* server; and whether signals, faults and an end may come

ASSUME RuntimeAssumption ==
    Programs \subseteq [home : {"manual", "thread"}, timers : SUBSET Timers,
                        loopers : SUBSET Loopers, posts : BOOLEAN,
                        shuts : BOOLEAN, peers : SUBSET Peers,
                        signals : BOOLEAN, faults : BOOLEAN, ends : BOOLEAN]

VARIABLES
    program,   \* the one of Programs that this behaviour is of
    called,    \* the firings whose callable was called
    rt         \* where the destructor is

vars == <<timer_vars, manual_vars, thread_vars, network_vars, program, called, rt>>

Init ==
    /\ Timer!Init /\ Manual!Init /\ Thread!Init /\ NetworkInit
    /\ program \in Programs
    /\ called = {}
    /\ rt = "up"

\* An exception that leaves the timer thread ends the process.
alive == tq_worker # "terminated"

\* A step of one part of a process that is alive leaves the others alone.
timer_only == alive /\ UNCHANGED <<manual_vars, thread_vars, network_vars, program, called, rt>>
manual_only == alive /\ UNCHANGED <<timer_vars, thread_vars, network_vars, program, rt>>
thread_only == alive /\ UNCHANGED <<timer_vars, manual_vars, network_vars, program, rt>>
network_only == alive /\ UNCHANGED <<timer_vars, manual_vars, thread_vars, program, called, rt>>

\* timer_state::execute: the callable is called unless the timer is cancelled.
execute(x) == called' = IF x \in posted \/ cancelled[x[1]] THEN called ELSE called \cup {x}

\* A user starts an operation; it has finished the one before.
free(u) == user[u].pc = "idle" /\ calling[u] = "idle"

may_make(u, t) == t \in program.timers /\ free(u)
make_timer(u, t) == t \notin Delays /\ may_make(u, t) /\ Timer!add_timer(u, t) /\ timer_only

\* co_await of a delay object, whose coroutine the timer resumes; it has no timer
\* handle, and is resumed with an error if the timer is refused or dropped.
make_delay_object(u, t) ==
    t \in Delays /\ may_make(u, t) /\ Timer!add_timer(u, t) /\ timer_only

cancel_timer(u, t) == free(u) /\ Timer!cancel(u, t) /\ timer_only

bulk_post(u) ==
    /\ program.posts /\ free(u)
    /\ IF program.home = "manual"
       THEN /\ man_status[Posts[1]] = "new" /\ Manual!enqueue(u, Posts)
            /\ manual_only
       ELSE /\ thr_status[Posts[1]] = "new" /\ Thread!enqueue(posted)
            /\ thread_only
    /\ UNCHANGED called

shutdown_by_owner(u) ==
    /\ program.shuts /\ free(u) /\ Manual!shutdown(u)
    /\ manual_only /\ UNCHANGED called

user_step(u) ==
    \/ Timer!user_step(u) /\ timer_only
    \/ Manual!caller_step(u) /\ manual_only /\ UNCHANGED called

\* The timer thread goes on when its post has returned.
timer_thread_step ==
    \/ calling["timer_thread"] = "idle" /\ Timer!worker_step /\ timer_only
    \/ Manual!caller_step("timer_thread") /\ manual_only /\ UNCHANGED called

\* fire posts to the executor of the timer, which throws after its shutdown.
fire ==
    LET x == <<tq_firing, fires[tq_firing] + 1>> IN
    /\ calling["timer_thread"] = "idle" /\ tq_worker = "fire"
    /\ IF program.home = "manual"
       THEN /\ Timer!fire(man_abort) /\ Manual!enqueue("timer_thread", <<x>>)
            /\ UNCHANGED thread_vars
       ELSE /\ Timer!fire(thr_abort) /\ Thread!enqueue({x})
            /\ UNCHANGED manual_vars
    /\ UNCHANGED <<network_vars, program, called, rt>>

deadline(t) == Timer!deadline(t) /\ timer_only
idle_time_out == Timer!idle_time_out /\ timer_only

starts(l) == IF looper'[l].pc = "running" /\ looper[l].pc # "running"
             THEN execute(looper'[l].task) ELSE UNCHANGED called

looper_calls(l) ==
    /\ l \in program.loopers
    /\ \/ \E op \in Ops, n \in 1..MaxCount : Manual!call(l, op, n)
       \/ Manual!clear(l)
    /\ starts(l) /\ manual_only

looper_step(l) == Manual!looper_step(l) /\ starts(l) /\ manual_only
looper_times_out(l) == Manual!time_out(l) /\ starts(l) /\ manual_only

thread_step(x) ==
    /\ Thread!thread_step(x)
    /\ IF thread[x] = "started" THEN execute(x) ELSE UNCHANGED called
    /\ thread_only

\* The application starts its server and its calls while the runtime is up.
start_network ==
    /\ program.peers # {} /\ rt = "up"
    /\ \/ start
       \/ \E p \in program.peers \cap Calls : call_starts(p)
    /\ network_only

outside(p) ==
    /\ p \in program.peers
    /\ \/ program_step(p)
       \/ p \in Calls /\ arrives(p)
       \/ program.faults /\ fault(p)
       \/ program.signals /\ raise
    /\ network_only

\* Handlers on the threads of the io pool, and a caller that looks up its host.
accept_step == (async_accept \/ accepted) /\ network_only
signal_step == close_acceptor /\ network_only
connection_runs(p) == connection_step(p) /\ network_only
call_runs(p) == call_step(p) /\ network_only
call_timer_runs(p) == timer_step(p) /\ network_only

\* The destructor begins with the timer queue; no thread of the application is at
\* the beginning of a call then.
shutdown_timer_queue ==
    /\ alive /\ rt = "up" /\ rt' = "timer_queue"
    /\ program.ends /\ \A p \in Calls : call[p] # "resolving"
    /\ Timer!shutdown
    /\ UNCHANGED <<manual_vars, thread_vars, network_vars, program, called>>

\* Mutant: the executors do not wait for the timer thread to be joined.
shutdown_thread_executor_early ==
    /\ alive /\ rt = "timer_queue" /\ rt' = "thread_executor"
    /\ Thread!shutdown
    /\ UNCHANGED <<timer_vars, manual_vars, network_vars, program, called>>

\* shutdown_all goes through the executors in the order of their registration.
shutdown_thread_executor ==
    /\ alive /\ rt = "timer_queue" /\ tq_shutter = "returned" /\ rt' = "thread_executor"
    /\ Thread!shutdown
    /\ UNCHANGED <<timer_vars, manual_vars, network_vars, program, called>>

shutdown_manual_executor ==
    /\ alive /\ rt = "thread_executor" /\ thr_shutter = "returned" /\ rt' = "manual_executor"
    /\ IF man_atomic_abort THEN UNCHANGED manual_vars ELSE Manual!shutdown("main")
    /\ UNCHANGED <<timer_vars, thread_vars, network_vars, program, called>>

\* The io pool is stopped and joined last.
join_io_pool ==
    /\ alive /\ rt = "manual_executor" /\ calling["main"] = "idle" /\ rt' = "gone"
    /\ stop
    /\ UNCHANGED <<timer_vars, manual_vars, thread_vars, program, called>>

\* ~runtime, once it has begun.
destructor_step ==
    \/ Timer!shutdown_step /\ timer_only
    \/ Thread!shutdown_step /\ thread_only /\ UNCHANGED called
    \/ Manual!caller_step("main") /\ manual_only /\ UNCHANGED called
    \/ shutdown_thread_executor \/ shutdown_manual_executor
    \/ join_io_pool

Next ==
    \/ \E u \in Users :
         \/ \E t \in Timers :
              make_timer(u, t) \/ make_delay_object(u, t) \/ cancel_timer(u, t)
         \/ bulk_post(u) \/ shutdown_by_owner(u) \/ user_step(u)
    \/ timer_thread_step \/ fire \/ idle_time_out
    \/ \E t \in Timers : deadline(t)
    \/ \E l \in Loopers : looper_calls(l) \/ looper_step(l) \/ looper_times_out(l)
    \/ \E x \in Firings \cup posted : thread_step(x)
    \/ start_network \/ accept_step \/ signal_step
    \/ \E p \in Peers : outside(p) \/ connection_runs(p)
    \/ \E p \in Calls : call_runs(p) \/ call_timer_runs(p)
    \/ shutdown_timer_queue \/ destructor_step

Spec == Init /\ [][Next]_vars

\* The threads of the library and the destructor go on when they can, and so do
\* users and loopers inside an operation.  Nothing forces an operation to begin, a
\* deadline to pass, a wait to time out or the destructor to be called.  What the
\* network owes is stated of the states in which no handler is ready, because a
\* connection and a call take finitely many steps.
FairSpec ==
    /\ Spec
    /\ \A u \in Users : WF_vars(user_step(u))
    /\ WF_vars(timer_thread_step \/ fire)
    /\ \A l \in Loopers : WF_vars(looper_step(l))
    /\ WF_vars(\E x \in Firings \cup posted : thread_step(x))
    /\ WF_vars(destructor_step)
-----------------------------------------------------------------------------
\* After cancel() has raised the flag, the timer fires at most once more, because
\* the thread was past its look at the flag (timer_queue.cpp:117), and the
\* callable is not called for that firing.
CancelStopsTimer ==
    \A t \in Timers :
        /\ late[t] <= 1
        /\ late[t] = 1 => <<t, fires[t]>> \notin called

\* A delay object that suspended its coroutine has not resumed it yet.
pending(t) ==
    \/ t \in Timer!requested("add") \cup tq_timers
    \/ fires[t] = 1 /\ IF program.home = "manual"
                           THEN man_status[<<t, 1>>] = "queued"
                           ELSE thr_status[<<t, 1>>] = "queued"

\* When the destructor of the runtime returns, every thread the runtime started
\* has ended and was joined, no task is left in an executor, and the coroutine of
\* every delay object has been resumed, with or without an error; unless the
\* application is itself inside a shutdown of the manual executor, for which the
\* destructor does not wait.
NothingOutlivesRuntime ==
    rt = "gone" /\ (\A u \in Users : calling[u] = "idle") =>
        /\ tq_worker \in {"none", "exited"}
        /\ \A x \in DOMAIN thread : thread[x] \in {"none", "joined"}
        /\ man_tasks = <<>> /\ \A x \in DOMAIN thread : thr_status[x] # "queued"
        /\ \A t \in Delays : ~pending(t)

\* The post of a firing throws, and with it the timer thread, only if the
\* application shut down an executor with timers on its own: the destructor
\* joins the timer thread before it shuts down any executor.
TimerThreadSurvives ==
    ~alive => rt \in {"up", "timer_queue"} /\ man_atomic_abort

\* Both executors keep the contract of module Executor; the manual one may be
\* cleared by its owner, and the thread executor is closed when shutdown has
\* found that the last thread has retired.
ExecutorsKeepContract == Manual!Contract!Spec /\ Thread!Contract!Spec

\* A timer that is due and that the queue still has to serve.
overdue(t) == due[t] /\ ~cancelled[t] /\ ~tq_atomic_abort /\ alive

\* The queue catches up: whenever a timer's deadline has passed, a time comes at
\* which no timer is left that should have fired, was not cancelled and was not
\* overtaken by the shutdown (timer_queue.cpp:193-227).
DueTimersFire ==
    (\E t \in Timers : overdue(t)) ~> (\A t \in Timers : ~overdue(t))

\* The destructor returns and nobody stays asleep in the manual executor,
\* unless a delay that uses the queue again was resumed under its lock
\* (timer_queue.cpp:247), or an executor was shut down under its timers.
DestructorReturns ==
    (rt # "up") ~> (\/ rt = "gone" /\ \A l \in Loopers : looper[l].pc # "asleep"
                    \/ tq_shutter = "stuck" \/ ~alive)
-----------------------------------------------------------------------------
\* What makes the properties of the timers, the executors and the destructor
\* inductive, besides the invariants of the parts.

TypeOK ==
    /\ program \in Programs
    /\ called \subseteq Firings
    /\ rt \in {"up", "timer_queue", "thread_executor", "manual_executor", "gone"}

\* The destructor goes through the parts in order, each shut down by it alone; only
\* the manual executor may have been shut down by its owner before.
PartsInOrder ==
    /\ rt = "up" <=> tq_shutter = "out"
    /\ rt \in {"up", "timer_queue"} <=> thr_shutter = "out"
    /\ rt \in {"thread_executor", "manual_executor", "gone"} => tq_shutter = "returned"
    /\ rt \in {"manual_executor", "gone"} => thr_shutter = "returned" /\ man_atomic_abort
    /\ rt # "manual_executor" => calling["main"] = "idle"
    /\ calling["timer_thread"] \in {"idle", "notify"}

\* The executors know nothing of a firing to come, and posted tasks come together.
TasksAreFresh ==
    /\ \A x \in Firings : x[2] > fires[x[1]] => man_status[x] = "new" /\ thr_status[x] = "new"
    /\ man_status[Posts[1]] = "new" => \A x \in posted : man_status[x] = "new"
    /\ thr_status[Posts[1]] = "new" => \A x \in posted : thr_status[x] = "new"

\* A callable is called for a firing that has happened.
CalledHaveFired == \A x \in called : x[2] <= fires[x[1]]

Inv ==
    /\ Timer!Inv /\ Manual!Inv /\ Thread!Inv
    /\ TypeOK /\ PartsInOrder /\ TasksAreFresh /\ CalledHaveFired
    /\ TimerThreadSurvives /\ CancelStopsTimer
=============================================================================
