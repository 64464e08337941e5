----------------------------- MODULE AsyncLock -----------------------------
(***************************************************************************)
(* async_lock: a lock whose waiters are suspended coroutines.  unlock pops *)
(* one waiter and resumes it on its own thread, inside the call; the waiter*)
(* tries again, may find that somebody else was faster and queue up once   *)
(* more, or takes the lock and moves to its resume executor.               *)
(*                                                                         *)
(* What happens under m_awaiter_lock is one step.  A coroutine resumed     *)
(* inside a call runs on the stack of the task that made the call, which   *)
(* goes on when the coroutine suspends or ends: caller says whose stack.   *)
(***************************************************************************)
EXTENDS Naturals, Sequences

CONSTANTS Tasks,    \* the coroutines that use the lock
          Inline,   \* those whose resume executor is an inline_executor
          None      \* no task

ASSUME TasksAssumption == Inline \subseteq Tasks /\ None \notin Tasks

VARIABLES
    m_locked,
    m_awaiters,   \* the queue of suspended coroutines
    pc,           \* where each task is
    waited,       \* ~resume_synchronously
    caller,       \* the task on whose stack a resumed task runs
    shut          \* the resume executors were shut down

vars == <<m_locked, m_awaiters, pc, waited, caller, shut>>

\* lock_impl between the two steps that take and give back the lock, and the
\* critical section itself.
Holding == {"resume_on", "posted", "broken", "critical"}

LockPcs == {"outside", "try", "suspended"} \cup Holding

TypeOK ==
    /\ m_locked \in BOOLEAN
    /\ m_awaiters \in Seq(Tasks)
    /\ pc \in [Tasks -> LockPcs]
    /\ waited \in [Tasks -> BOOLEAN]
    /\ caller \in [Tasks -> Tasks \cup {None}]
    /\ shut \in BOOLEAN

Init ==
    /\ m_locked = FALSE
    /\ m_awaiters = <<>>
    /\ pc = [t \in Tasks |-> "outside"]
    /\ waited = [t \in Tasks |-> FALSE]
    /\ caller = [t \in Tasks |-> None]
    /\ shut = FALSE

\* Task t is where p says, and nobody runs on its stack.
at(t, p) == pc[t] = p /\ \A u \in Tasks : caller[u] # t

goto(t, p) == pc' = [pc EXCEPT ![t] = p]

\* Task t leaves the stack it runs on.
leave(t) == caller' = [caller EXCEPT ![t] = None]

-----------------------------------------------------------------------------
(* lock_impl *)

lock(t) ==
    /\ at(t, "outside")
    /\ goto(t, "try")
    /\ waited' = [waited EXCEPT ![t] = FALSE]
    /\ UNCHANGED <<m_locked, m_awaiters, caller, shut>>

\* Mutant: one that was resumed believes that the lock was handed to it.
lock_after_waiting(t) ==
    /\ at(t, "try")
    /\ \/ /\ ~m_locked \/ waited[t]
          /\ m_locked' = TRUE
          /\ goto(t, IF waited[t] THEN "resume_on" ELSE "critical")
          /\ UNCHANGED <<m_awaiters, waited, caller>>
       \/ /\ m_locked /\ ~waited[t]
          /\ m_awaiters' = Append(m_awaiters, t)
          /\ waited' = [waited EXCEPT ![t] = TRUE]
          /\ goto(t, "suspended")
          /\ leave(t)
          /\ UNCHANGED m_locked
    /\ UNCHANGED shut

\* One round of the loop: take the lock, or queue up and suspend.
lock_or_suspend(t) ==
    /\ at(t, "try")
    /\ \/ /\ ~m_locked
          /\ m_locked' = TRUE
          /\ goto(t, IF waited[t] THEN "resume_on" ELSE "critical")
          /\ UNCHANGED <<m_awaiters, waited, caller>>
       \/ /\ m_locked
          /\ m_awaiters' = Append(m_awaiters, t)
          /\ waited' = [waited EXCEPT ![t] = TRUE]
          /\ goto(t, "suspended")
          /\ leave(t)
          /\ UNCHANGED m_locked
    /\ UNCHANGED shut

\* resume_on: an inline executor runs the task at once, another one queues it,
\* and a closed one throws, which breaks the task and resumes it where it is.
resume_on(t) ==
    /\ at(t, "resume_on")
    /\ \/ ~shut /\ t \notin Inline /\ goto(t, "posted") /\ leave(t)
       \/ ~shut /\ t \in Inline /\ goto(t, "critical") /\ UNCHANGED caller
       \/ shut /\ goto(t, "broken") /\ UNCHANGED caller
    /\ UNCHANGED <<m_locked, m_awaiters, waited, shut>>

\* The executor runs the task, or destroys it when it shuts down.
run_posted(t) ==
    /\ at(t, "posted")
    /\ goto(t, "critical") \/ (shut /\ goto(t, "broken"))
    /\ UNCHANGED <<m_locked, m_awaiters, waited, caller, shut>>

\* The lock is given back, and the first waiter, if there is one, resumed on the
\* stack of t, which is at next when that is over.
release(t, next) ==
    /\ m_locked' = FALSE
    /\ IF m_awaiters = <<>>
         THEN goto(t, next) /\ UNCHANGED <<m_awaiters, caller>>
         ELSE /\ m_awaiters' = Tail(m_awaiters)
              /\ pc' = [pc EXCEPT ![t] = next, ![Head(m_awaiters)] = "try"]
              /\ caller' = [caller EXCEPT ![Head(m_awaiters)] = t]
    /\ UNCHANGED <<waited, shut>>

\* Mutant: the lock is given back and nobody resumed.
catch_without_retry(t) ==
    /\ at(t, "broken")
    /\ m_locked' = FALSE
    /\ goto(t, "outside")
    /\ UNCHANGED <<m_awaiters, waited, caller, shut>>

\* The catch block: broken_task is rethrown to the task that wanted the lock.
catch(t) == at(t, "broken") /\ release(t, "outside")

-----------------------------------------------------------------------------
(* try_lock and unlock.  A try_lock that fails, and the unlock of a lock that *)
(* is not locked, which throws, change nothing.                               *)

\* Mutant: m_locked is not looked at.
try_lock_unchecked(t) ==
    /\ at(t, "outside")
    /\ m_locked' = TRUE
    /\ goto(t, "critical")
    /\ UNCHANGED <<m_awaiters, waited, caller, shut>>

try_lock(t) ==
    /\ at(t, "outside")
    /\ ~m_locked
    /\ m_locked' = TRUE
    /\ goto(t, "critical")
    /\ UNCHANGED <<m_awaiters, waited, caller, shut>>

\* Mutant: unlock resumes nobody.
unlock_without_retry(t) ==
    /\ at(t, "critical")
    /\ m_locked' = FALSE
    /\ goto(t, "outside")
    /\ UNCHANGED <<m_awaiters, waited, caller, shut>>

\* unlock, or the destructor of the scoped_async_lock that owns the lock.
unlock(t) == at(t, "critical") /\ release(t, "outside")

\* A task that runs on another one's stack ends, or awaits something else.
yield(t) ==
    /\ at(t, "outside")
    /\ caller[t] # None
    /\ leave(t)
    /\ UNCHANGED <<m_locked, m_awaiters, pc, waited, shut>>

shutdown ==
    /\ ~shut
    /\ shut' = TRUE
    /\ UNCHANGED <<m_locked, m_awaiters, pc, waited, caller>>

-----------------------------------------------------------------------------
arrive(t) == lock(t) \/ try_lock(t)

step(t) ==
    \/ lock_or_suspend(t)
    \/ resume_on(t)
    \/ run_posted(t)
    \/ catch(t)
    \/ unlock(t)
    \/ yield(t)

Next == shutdown \/ \E t \in Tasks : arrive(t) \/ step(t)

Spec == Init /\ [][Next]_vars

\* Threads run, executors run what they queued, and critical sections end.
FairSpec == Spec /\ \A t \in Tasks : WF_vars(step(t))

-----------------------------------------------------------------------------
(* Properties *)

\* Two tasks never own the lock together, and m_locked says whether one does,
\* also while the owner is on its way to its resume executor.
MutualExclusion ==
    /\ \A t, u \in Tasks : pc[t] \in Holding /\ pc[u] \in Holding => t = u
    /\ m_locked <=> \E t \in Tasks : pc[t] \in Holding

\* Nobody sleeps beside a free lock: while the lock is free and tasks wait, one
\* that was popped from the queue is on its way to try again.
NobodySleepsBesideAFreeLock ==
    ~m_locked /\ m_awaiters # <<>> =>
        \E t \in Tasks : pc[t] = "try" /\ waited[t]

\* The queue holds exactly the suspended tasks, each of them once.
QueueIsTheSuspended ==
    /\ \A t \in Tasks :
          pc[t] = "suspended" <=> \E k \in 1..Len(m_awaiters) : m_awaiters[k] = t
    /\ \A j, k \in 1..Len(m_awaiters) : m_awaiters[j] = m_awaiters[k] => j = k

\* Calls of retry nest: a task waits for at most one other, and never for one
\* that is suspended or queued in an executor, so that no stack is stuck.
CallsNest ==
    /\ \A t, u \in Tasks : caller[t] = caller[u] /\ caller[t] # None => t = u
    /\ \A t \in Tasks : caller[t] # t
    /\ \A t \in Tasks : pc[t] \in {"suspended", "posted"} =>
          caller[t] = None /\ \A u \in Tasks : caller[u] # t

\* Whoever is in the queue will not be resumed synchronously.
WaitersWaited == \A t \in Tasks : pc[t] = "suspended" => waited[t]

\* The inductive invariant.
Inv ==
    /\ TypeOK
    /\ MutualExclusion
    /\ NobodySleepsBesideAFreeLock
    /\ QueueIsTheSuspended
    /\ CallsNest
    /\ WaitersWaited

\* The lock is the abstract one.
Abstract == INSTANCE Mutex WITH holders <- {t \in Tasks : pc[t] \in Holding}
ImplementsMutex == Abstract!Spec

\* Unless tasks go on arriving for ever, and overtake it, a task that waits for
\* the lock gets it, or is told that its executor was shut down.
ServedUnlessOvertaken ==
    <>[][~\E t \in Tasks : arrive(t)]_vars =>
        \A t \in Tasks : pc[t] = "suspended" ~> pc[t] \in {"critical", "outside"}
=============================================================================
