# A TLA+ model of concurrencpp-X

concurrencpp runs C++20 coroutines on executors and passes their outcomes
through result objects; this fork adds a small network layer on asio. The modules
here model its concurrent core, its executors and timers, the shutdown of the
runtime and the network layer. TLC checks them on small instances, and TLAPS
proves the safety of the core for every instance. `PROJECT.json` maps every
definition to the lines it models and lists the components, the runs, the
hazards and the theorems.

## The parts of the system

| part | what it does | modelled by |
| --- | --- | --- |
| `result`, `result_promise` | one `result_state` per asynchronous value; the producer and the consumer agree through the atomic `m_pc_state` on who waits, who resumes whom and who deletes | `ResultState` |
| `when_any` | registers one `when_any_context` with several states; the first to finish resumes the coroutine | `WhenAny` |
| `shared_result` | a reference-counted state behind a result, with any number of waiting threads and coroutines | `SharedResult` |
| `async_lock` | a lock that suspends coroutines; `unlock` retries the first waiter on its own stack | `AsyncLock` |
| `async_condition_variable` | on top of `async_lock`, with a `std::mutex` of its own | `AsyncConditionVariable` |
| `resume_on` | moves a coroutine to an executor | steps of the two above |
| `worker_thread_executor` | one thread, a public and a private queue, a semaphore | `WorkerThreadExecutor` |
| `thread_pool_executor` | workers that sleep with a timeout, donate tasks to idle ones, retire and start again | `ThreadPoolExecutor` |
| `manual_executor` | a queue that threads of the application drain, wait for and clear | `ManualExecutor` |
| `thread_executor` | a thread for each task; each joins the one that retired before it | `ThreadExecutor` |
| `inline_executor` | runs the task inside `enqueue` | the constant `Inline` |
| `timer_queue`, `timer` | a thread that fires timers and delay objects on executors, retires when idle and is started again | `TimerQueue` |
| `request_parser`, `http_request` | the state machine that reads a request | `RequestParser` |
| `http_server`, `connection`, `tcp_server`, `http_client`, `tcp_client` | coroutines over asio sockets on the `io_context_pool` | `Network` |
| `runtime` | owns all of them and shuts them down in an order | `Runtime` |

A coroutine that awaits a result leaves its handle in the result's state. The
thread that finishes the producer resumes it, inline or through `resume_on` on an
executor. A closed executor destroys the tasks it still has, and a destroyed
`await_via_functor` resumes its coroutine with an error. Timers post to
executors; the destructor of the runtime joins the timer thread, then shuts the
executors down in the order of their registration, then stops the io pool. Every
part thus meets the shutdown of the executors.

## How the modules are written

Each thread or task has a program counter. One action is one atomic access, or
one section under a mutex, or one completion handler, and bears the name of the
function it belongs to. Values are abstracted to "a value" or "an exception";
times to a step that may happen at any moment. A definition marked `Mutant`
changes the definition that follows it the way a plausible mistake would; nothing
uses it in the specifications. An `MC` module gives one of them its constants.

- **`Future`** is the abstract result: one publication, at most one delivery.
- **`ResultState`** has the producer (`set_result`, `set_exception`, dropping the
  promise, `complete_producer`, `resume_consumer`) and the consumer (`status`,
  `wait`, `wait_for`, `get`, `await`, `resolve`, `when_any`, `share`, the
  destructor). `Ops` is the set of operations the application uses. The loads and
  the compare-exchanges are steps of their own, so that the producer can finish
  between them; so can the timeout of `wait_for`.
- **`WhenAny`** has `N` results and `MaxCalls` successive calls, each on the
  results that are left. The status word of the context, the registration loop
  and the rewinding loop are taken apart.
- **`SharedResult`** has any finite set of consumer threads against one producer,
  from the construction of the `shared_result` to the last copy dropped. The
  destructor's rewind is one step here; `ResultState` takes it apart.
- **`Mutex`** is the abstract lock. **`AsyncLock`** implements it. A task that is
  resumed runs on the stack of the one that resumed it: `caller[t]` names that
  task, and a task takes no step while another runs on its stack. Tasks of
  `Inline` resume without leaving that stack. `unlock` is called by the owner
  only; the misuse that `scoped_async_lock` reports is left out.
- **`AsyncConditionVariable`** uses the actions of `AsyncLock` through `INSTANCE`.
- **`Executor`** is the contract of executors: a task is accepted, or refused once
  a shutdown has begun; it starts at most once, or is destroyed; none starts when
  the executor is closed. The constant `Clearable` admits an owner that destroys
  queued tasks at any time (`manual_executor::clear`). All four executors
  implement it.
- **`WorkerThreadExecutor`** maps `closing` to `m_atomic_abort` and `closed` to
  `m_private_atomic_abort`. A `release` of a `binary_semaphore` that already has a
  permit breaks its precondition; the model lets it add a permit or do nothing.
  The code does reach that state, when the worker swaps the queue without having
  slept. A task may shut its own executor down: `shutdown` then joins its own
  thread, throws, and leaves the queues uncleared.
- **`ThreadPoolExecutor`** has `N` workers, the bitmap of idle ones with its
  counter, `balance_work`, and enqueuers that are clients, workers of the pool, or
  workers of another pool (`Strangers`), whose thread-local worker is not of this
  pool. `Shutters` names who may call `shutdown`; a number is a worker's task.
- **`ManualExecutor`** has loopers that call the loop and wait families with a
  count up to `MaxCount`, callers that enqueue or shut down, and the sleeps and
  notifications of `m_condition`.
- **`ThreadExecutor`** has one thread per task and the chain of retired threads.
- **`TimerQueue`** has users that make and cancel timers, the request queue, the
  timer thread with its idle timeout, and the shutdown, which resumes delay
  objects under the lock of the queue. A deadline is a flag (`due`). `Reentrant`
  delays belong to coroutines that use the queue when they are resumed.
- **`RequestParser`** is `consume` as a table of states and classes of characters,
  `parse` over one buffer, `url_decode` and `handle_request`.
- **`Network`** has the accept loop with its signal handler; one connection per
  peer (read, parse, write, keep or close, reset of the parser) or, for the peers
  in `Echoed`, one `session` of a `tcp_server`, of which the model keeps which bytes
  it has answered and not what the callback made of them; `http_call` and
  `tcp_client::call` with every operation they await and their timer. The system
  is external: a text arrives in pieces or stays away, links break, a pending
  operation completes with an error when its socket is cancelled, and one that has
  completed already does not.
- **`RuntimeParts`** puts `TimerQueue`, `ManualExecutor` and `ThreadExecutor` side by
  side through `INSTANCE`: they share the tasks, which are firings of timers and what
  users post. **`Runtime`** extends it and `Network` with the steps in which a part
  calls another, under `~runtime`; **`NetworkProperties`** states what the servers
  and calls of such a runtime owe. `Programs` lists what the
  application may do in a behaviour.

Undefined behaviour: after a result state is deleted, `notify_one` on it uses the
address only, and a late read of its consumer context sees the old content. The
property `ContextOutlivesResume` says when such a read can happen. An exception
that leaves the timer thread ends the process (`alive`).

## Runs

| run | instance | shows |
| --- | --- | --- |
| `result_all_ops` | all operations | the state is deleted once, no wakeup is lost, the assertions in the code hold, every wait ends, and the protocol implements `Future` |
| `result_rewind_lifetime` | `wait_for`, destructor | **violated**: finding 1 |
| `when_any` | 3 results, 3 calls | one resumption per call; every call ends with a ready result and leaves nothing registered; a registered coroutine is resumed |
| `when_any_ready` | 2 results, 1 call | **violated**: finding 2 |
| `shared_result` | 3 consumers | nobody stays blocked or suspended, awaiters are resumed in order, each timed waiter gets a permit, the state outlives `on_result_finished` |
| `async_lock` | 4 tasks, one inline | mutual exclusion, no waiter asleep beside a free lock, refinement of `Mutex`, service unless overtaken for ever |
| `cv` | 3 tasks, one inline | unlocking and queueing are atomic, each awaiter is resumed by one notification, `await` returns with the lock, notifications return unless one is nested in an `await` |
| `cv_notify_inline` | 2 tasks, one inline | **violated**: finding 3 |
| `worker_thread` | 2 clients and the tasks themselves, 4 tasks | no lost wakeup, order of tasks, nothing left after a shutdown, refinement of `Executor`, every task ends unless the executor is shut down by its own task, shutdown returns |
| `thread_pool` | 2 workers, a client, a stranger, 3 tasks | no task is lost or duplicated by donations, nothing is left after a shutdown, refinement of `Executor`, shutdown returns, every task ends except in the two ways `EndsUnlessLeftBehind` names |
| `thread_pool_stranded` | 2 workers, a client, 2 tasks | **violated**: finding 4 |
| `runtime` | 13 programs | see below |

`runtime` has six programs of timers and tasks: a periodic timer, a delay beside a
bulk post, and two delays, one of them reentrant, on a `thread_executor`; a
one-shot timer with a looper, a bulk post with two loopers, and a delay whose
executor the owner shuts down, on a `manual_executor`. `CancelStopsTimer`,
`TimerThreadSurvives`, `NothingOutlivesRuntime`, `DueTimersFire` and
`DestructorReturns` are about these, and both executors keep their contract in all
of them. Seven programs of the network have an `http_call` with faults, with
a signal to the server and with the end of the runtime, a `tcp_client::call`,
clients outside that wait for answers or do not, and one that talks to a
`tcp_server` while links break. `AnswersMatchRequests` says that what a request is
answered does not depend on how its text is cut into reads nor on the requests
before it, and that a session answers the bytes it was sent in order and none
twice; `ServerKeepsUp` and `CallEndsUnlessUnnoticed` say what
must have happened when no handler is left to run.

Three statements of the documentation hold with an exception, which the property
names:

- `src/README.md:1425-1427` says that a cancelled timer is not scheduled again. It
  is scheduled at most once more, when the timer thread was past its look at the
  flag (`timer_queue.cpp:117`); the callable is not called (`CancelStopsTimer`).
- The example servers say "Press Ctrl+C to stop". If an accept had completed, but
  its handler had not run, when the signal handler closed the acceptor, the loop
  goes on to accept on a closed acceptor, fails at once and tries again for ever
  (`ServerKeepsUp`).
- `http_client.hpp:30` announces a simple 10-second timeout. The timer cancels the
  socket, but errors are ignored at lines 59, 62 and 79, and an operation that had
  completed is not cancelled: then the call runs on without a timer
  (`CallEndsUnlessUnnoticed`).

Others are left behind by design of the code and named likewise: the destructor of
the runtime does not return if a reentrant delay is resumed under the lock of the
queue (`timer_queue.cpp:247`, `DestructorReturns`); a timer that fires into an
executor its owner has shut down ends the process (`timer.cpp:30`,
`TimerThreadSurvives`); a task that shuts down its `worker_thread_executor` leaves
the tasks behind it (`EndsUnlessShutFromWithin`); during a shutdown the assertion
at `thread_pool_executor.cpp:359` can fail, and a task that is enqueued at line 564
after its worker was shut down stays (`EndsUnlessLeftBehind`).

### Bounds

Two ends are all a result has, so `ResultState` has no bound but `Ops`. Three
results let two producers race for the status word while a third is registered,
and three calls use up all of them. Three consumers are the fewest that show an
order of resumption with a thread blocked beside. Four tasks are a holder, two
waiters and one that barges in. Four tasks of the worker, handed over by ones and
twos, give two swaps of the queues with a local task between them and a stale
permit. Two workers of a pool can donate to each other, and a third task arrives
while one works, one times out and the shutdown walks over both. A periodic timer
fires at most twice (`MaxFires`), once before and once after its cancellation;
loopers ask for at most two tasks (`MaxCount`), so that a wait can be half served.
A client sends at most two requests on a connection (`MaxRequests`), the fewest
that show what the first leaves behind. `BufferSize` is 32 symbols, for the 4096
bytes of `read_buf_` and of a session's buffer: longer than each of the requests, so that a buffer can end
anywhere and can hold the end of one request and the beginning of the next. Four
requests cover a plain one, keep-alive, a path that is decoded to an illegal one,
and a malformed header.

Deadlock checking is off where the system may really stop: tasks that await with
nobody left to notify, a coroutine of `when_any` with no call left, executors
without tasks, a runtime that nobody destroys.

### Fairness

A thread inside the library keeps running, deadlines of waits expire, and a
mutex-protected section ends: weak fairness of those steps. Nobody has to call an
operation, to enqueue or to shut down. Beyond that each liveness property states
what it needs: `EveryWaitEnds` speaks of an outcome that is built; `SharedResult`,
`WhenAny` and the executors assume that the tasks they run end, and `AsyncLock`
that critical sections do. The compare-exchange with which an awaiter joins a
`shared_result` is a weak one and may fail for no reason each time; it is only
assumed to be tried, so that nothing is claimed of the loop around it before the
outcome is there. In `AsyncConditionVariable` the steps that lock the `std::mutex`
have strong fairness: a mutex that is released again and again is granted in the
end. `async_lock` gives no such guarantee, as newcomers may overtake a resumed
waiter for ever; `ServedUnlessOvertaken` says so.

`Runtime` assumes weak fairness of its threads, of users and loopers inside a call
and of the destructor, and none of deadlines, timeouts or the network. What the
network owes is stated of the states in which no handler is enabled: a connection
and a call take finitely many steps, so that such a state is reached whenever the
io pool goes on, and the invariant says what holds there. `DueTimersFire` speaks
of all timers at once, which is more than it says of each, and is owed to the
bound of firings: with periodic timers without end the queue need not be idle.

## Findings

1. `result_state.h:140`. A `wait_for` whose timeout races with the producer
   returns while the producer, past its exchange, has yet to read `m_consumer`;
   the consumer may then delete the state under it.
2. `result_state.cpp:77`. `result_state_base::when_any` returns the state loaded
   before its compare-exchange. When that fails because the producer has just
   finished, the caller is told idle; if every input finishes so, the coroutine
   is never resumed.
3. `async_condition_variable.cpp:22`. `await` unlocks the `async_lock` under the
   mutex of the condition variable, and the next owner may run there; if that
   owner notifies, it locks the mutex again on the same thread.
4. `thread_pool_executor.cpp:306`. A worker whose wait has timed out marks itself
   idle without another look at its queue. A task that was enqueued between the
   timeout and the lock found the worker not idle and released the semaphore
   instead of starting a thread; it stays queued until somebody else enqueues on
   this worker or shuts the pool down.

## Proofs

Six modules prove the safety of one component each, and two that of the runtime,
for every value of the constants. Each component has an inductive invariant `Inv`, a lemma per action or group of
actions that it is preserved, the theorem `Invariance`, and one theorem for each
property that follows. TLC checks the same properties on the runs above.

`ResultStateProofs` assumes `Ops \subseteq AllOps`. The properties are not
inductive: what the producer may do after its exchange depends on which state it
exchanged and whose context was there. `Inv` adds what `m_pc_state` can be given
where the two ends are (`PcStateInv`, `OpInv`), whose context is in `m_consumer`
(`ContextInv`), what the producer still owes (`DutyInv`), when the shared state is
told (`SharedInv`) and that the outcome is there once published (`OutcomeInv`).
From `Inv` follow type correctness, deletion exactly once, no lost wakeup, signals
to the right owner, the code's assertions, observation, the shared state told
once, the finality of a publication, and the refinement of `Future`.
`ContextLifetime` needs the additional assumption that `wait_for`, `when_any` and
`share`, the operations that take a context back, are not used; finding 1 shows
why.

`WhenAnyProofs` has any number of results and of calls (both positive).
`StatusOfCall` says that the context of every earlier call is completed, so that a
producer that comes late with it leaves it alone; `ContextOfCall` that only inputs
of the current call hold its context; `RegisteredIsInput` and `LoopsInRange`
follow the registration and the rewinding loop over the inputs. It follows that a
call is resumed once, while it is suspended, and ends with a ready result and
nothing registered.

`SharedResultProofs` has any finite set of threads (`Threads` does not contain the
two names of runners). `Inv` says who runs `on_result_finished` (`OneRunner`), who
holds a reference at each place (`HoldersArePlaces`), that every awaiter was resumed
or is in a list, in order (`AwaitersInOrder`), that the semaphore has a permit for
each timed waiter (`PermitsSuffice`), and when the state has been told
(`ToldWhenBothAreDone`). The lifetime
of the state, that it is always told, and that nobody stays asleep follow.

`AsyncLockProofs` assumes `Inline \subseteq Tasks` and `None \notin Tasks`. `Inv`
joins mutual exclusion, the no-lost-unlock property, that the queue holds exactly
the suspended tasks once each, that inline calls nest, and that whoever is queued
will be resumed asynchronously (`WaitersWaited`). `ReleaseInv` serves both places
that release the lock, `unlock` and the handler of a broken resumption. The lock
implements `Mutex`.

`AsyncConditionVariableProofs` makes the assumptions of the lock. It proves that a
suspended task is once in the queue or in the list of one notifying task
(`SuspendedIsQueuedOnce`), and that `await` returns with the lock
(`AwaitKeepsExclusion`). Both need `QueuesInOrder`: whoever is popped from the queue
of the lock was suspended there and not by the condition variable, and a task that
begins to resume others has no list left.

`WorkerThreadExecutorProofs` assumes that the worker is no client and that clients
or the worker shut the executor down. It proves the order of tasks, that no wakeup is lost,
that nothing is left after a shutdown, and the refinement of `Executor`. That no
wakeup is lost needs `ShutdownIsOrdered`, which ties the two abort flags to the
place of the one thread that shuts down; the order of starts needs `QueuedInOrder`
across the swap of the queues; the contract needs that the status of a task says
in which queue it is (`StatusIsPlace`).

`RuntimePartsProofs` and `RuntimeProofs` are about the composition. The first shows
that each part keeps an invariant of its own under every step that a composition may
make it take (`TimerStep`, `ManualStep`, `ThreadStep`), from `PartsAssumption` and
`TasksAssumption`: the posted tasks differ from each other and from the firings. In
`TimerQueue` a timer is requested, kept or fired, and never twice (`QueuedOnce`), the
ones found expired are still kept (`ExpiredAreKept`), a queue without a thread keeps
no timers (`NoThreadNoTimers`), and a cancelled timer is late once (`LateOnce`). In
`ManualExecutor` the queue holds each queued task once, a task is run by one looper,
and one thread shuts down. In `ThreadExecutor` every thread whose task returned is in
exactly one list from which it will be joined (`JoinedByOne`). That shutdown, which
joins only the last, leaves no thread behind would follow along the chain of joins by
induction; `NoCircle` replaces it: among any threads that retire, one is awaited by
none of them, and taken for the set of all that still retire this says that the last
one to retire ends last.

`RuntimeProofs` shows that a step of the runtime is a step of each part or leaves it
alone (`NextIsPartSteps`), and adds to the invariants of the parts the order of the
destructor (`PartsInOrder`) and that an executor has not met a task before it comes
(`TasksAreFresh`, `CalledHaveFired`). It follows that cancelling a timer is final,
that the destructor never makes the timer thread throw, that nothing outlives the
runtime, and that both executors implement `Executor`.

Only model-checked are liveness and the invariants that speak of `ENABLED`
(`ServerKeepsUp`, `CallEndsUnlessUnnoticed`), which TLAPS cannot treat;
`AnswersMatchRequests`, which rests on what the recursive parser computes; and the
properties of `ThreadPoolExecutor`, whose even shares of a span need nonlinear
arithmetic.

## Not modelled

- `asio` is a third-party library, vendored as it is: about 170 of the 178 thousand
  lines of C++ under `src/`. Its sockets, timers and handlers appear as the
  network layer uses them.
- `lazy_result`, `generator`, `task`, the coroutine promises and `when_all` are
  sequential: one thread at a time runs them, and what they share with others is
  the result state. `post`, `submit` and their bulk forms are templates that call
  `enqueue`.
- `inline_executor` has no state; its effect is the constant `Inline`.
- `timer::set_frequency` moves deadlines, which are flags here. Failures to create
  a thread, and a `thread_executor` that its own task shuts down, are left out.
- The pools that `runtime` registers before the `thread_executor` have no timers in
  `Runtime`. Which `io_context` a socket belongs to is not modelled: handlers of
  different connections share no state, except the index in `get_io_context`,
  which the hazards list.
- The texts of responses, the contents of files, what is printed, the names and
  callbacks of threads, and the bookkeeping of `scoped_async_lock` (`move`, `swap`,
  `release`, its error checks) are left out. `PeriodTimer`, `async_read` and the
  blocking functions of `asio_util.hpp` are used by nothing in the library.
