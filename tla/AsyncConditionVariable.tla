----------------------- MODULE AsyncConditionVariable -----------------------
(***************************************************************************)
(* async_condition_variable over an async_lock.  await takes the mutex of  *)
(* the condition variable, unlocks the async_lock, which may resume a      *)
(* waiter of that lock on the spot, and only then queues itself and lets   *)
(* go of the mutex.  notify_one and notify_all resume on their own stack.  *)
(***************************************************************************)
EXTENDS Naturals, Sequences

CONSTANTS Tasks, Inline, None

ASSUME CvTasksAssumption == Inline \subseteq Tasks /\ None \notin Tasks

VARIABLES
    m_locked, m_awaiters, pc, waited, caller, shut,   \* of the async_lock
    m_lock,        \* the task that holds the mutex of the condition variable
    cv_awaiters,   \* its queue of suspended tasks
    list,          \* what a notifying task has taken off the queue
    back           \* where a notifying task was: outside or critical

lockVars == <<m_locked, m_awaiters, pc, waited, caller, shut>>
cvVars == <<m_lock, cv_awaiters, list, back>>
vars == <<lockVars, cvVars>>

Lock == INSTANCE AsyncLock

Notifying == {"notify_one", "notify_all", "resuming"}

CvPcs == {"cv_await", "cv_push", "cv_suspended", "cv_resume_on", "cv_posted"}
         \cup Notifying

Init ==
    /\ Lock!Init
    /\ m_lock = None
    /\ cv_awaiters = <<>>
    /\ list = [t \in Tasks |-> <<>>]
    /\ back = [t \in Tasks |-> "outside"]

-----------------------------------------------------------------------------
(* await.  The overload with a predicate calls it in a loop. *)

await(t) ==
    /\ Lock!at(t, "critical")
    /\ Lock!goto(t, "cv_await")
    /\ UNCHANGED <<m_locked, m_awaiters, waited, caller, shut, cvVars>>

\* Mutant: the mutex is taken after the lock was unlocked.
await_suspend_late(t) ==
    /\ Lock!at(t, "cv_await")
    /\ Lock!release(t, "cv_push")
    /\ UNCHANGED cvVars

\* cv_awaiter::await_suspend takes the mutex and unlocks the async_lock, ...
await_suspend(t) ==
    /\ Lock!at(t, "cv_await")
    /\ m_lock = None
    /\ m_lock' = t
    /\ Lock!release(t, "cv_push")
    /\ UNCHANGED <<cv_awaiters, list, back>>

\* Mutant: the mutex is kept.
push_and_keep_mutex(t) ==
    /\ Lock!at(t, "cv_push")
    /\ cv_awaiters' = Append(cv_awaiters, t)
    /\ Lock!goto(t, "cv_suspended")
    /\ Lock!leave(t)
    /\ UNCHANGED <<m_locked, m_awaiters, waited, shut, m_lock, list, back>>

\* ... and queues the task when the unlock has returned.
push_back(t) ==
    /\ Lock!at(t, "cv_push")
    /\ cv_awaiters' = Append(cv_awaiters, t)
    /\ m_lock' = None
    /\ Lock!goto(t, "cv_suspended")
    /\ Lock!leave(t)
    /\ UNCHANGED <<m_locked, m_awaiters, waited, shut, list, back>>

\* Mutant: the lock is taken to be held again.
relock_assumed(t) == pc' = [pc EXCEPT ![t] = "critical"] /\ UNCHANGED waited

\* lock.lock(resume_executor), the last line of await_impl.
relock(t) ==
    /\ Lock!goto(t, "try")
    /\ waited' = [waited EXCEPT ![t] = FALSE]

\* resume_on in await_impl, after a notification: a closed executor makes await
\* throw, and the lock is not taken again.
cv_resume_on(t) ==
    /\ Lock!at(t, "cv_resume_on")
    /\ \/ /\ ~shut /\ t \notin Inline
          /\ Lock!goto(t, "cv_posted") /\ Lock!leave(t)
          /\ UNCHANGED waited
       \/ ~shut /\ t \in Inline /\ relock(t) /\ UNCHANGED caller
       \/ shut /\ Lock!goto(t, "outside") /\ UNCHANGED <<caller, waited>>
    /\ UNCHANGED <<m_locked, m_awaiters, shut, cvVars>>

cv_run_posted(t) ==
    /\ Lock!at(t, "cv_posted")
    /\ relock(t) \/ (shut /\ Lock!goto(t, "outside") /\ UNCHANGED waited)
    /\ UNCHANGED <<m_locked, m_awaiters, caller, shut, cvVars>>

-----------------------------------------------------------------------------
(* notify_one and notify_all, with or without the async_lock *)

notify(t, which) ==
    /\ pc[t] \in {"outside", "critical"}
    /\ Lock!at(t, pc[t])
    /\ back' = [back EXCEPT ![t] = pc[t]]
    /\ Lock!goto(t, which)
    /\ UNCHANGED <<m_locked, m_awaiters, waited, caller, shut, m_lock, cv_awaiters, list>>

\* Under the mutex, awaiters are taken off the queue.
take(t, taken, left) ==
    /\ m_lock = None
    /\ list' = [list EXCEPT ![t] = taken]
    /\ cv_awaiters' = left
    /\ Lock!goto(t, "resuming")
    /\ UNCHANGED <<m_locked, m_awaiters, waited, caller, shut, m_lock, back>>

notify_one(t) ==
    /\ Lock!at(t, "notify_one")
    /\ IF cv_awaiters = <<>>
         THEN take(t, <<>>, <<>>)
         ELSE take(t, <<Head(cv_awaiters)>>, Tail(cv_awaiters))

notify_all(t) ==
    /\ Lock!at(t, "notify_all")
    /\ take(t, cv_awaiters, <<>>)

\* awaiter->resume(), on the stack of the notifying task.
resume(t) ==
    /\ Lock!at(t, "resuming")
    /\ list[t] # <<>>
    /\ list' = [list EXCEPT ![t] = Tail(@)]
    /\ Lock!goto(Head(list[t]), "cv_resume_on")
    /\ caller' = [caller EXCEPT ![Head(list[t])] = t]
    /\ UNCHANGED <<m_locked, m_awaiters, waited, shut, m_lock, cv_awaiters, back>>

notified(t) ==
    /\ Lock!at(t, "resuming")
    /\ list[t] = <<>>
    /\ Lock!goto(t, back[t])
    /\ back' = [back EXCEPT ![t] = "outside"]
    /\ UNCHANGED <<m_locked, m_awaiters, waited, caller, shut, m_lock, cv_awaiters, list>>

-----------------------------------------------------------------------------
lock_step(t) == Lock!step(t) /\ UNCHANGED cvVars

cv_step(t) ==
    \/ await_suspend(t)
    \/ push_back(t)
    \/ cv_resume_on(t)
    \/ cv_run_posted(t)
    \/ notify_one(t)
    \/ notify_all(t)
    \/ resume(t)
    \/ notified(t)

call(t) ==
    \/ Lock!lock(t) /\ UNCHANGED cvVars
    \/ Lock!try_lock(t) /\ UNCHANGED cvVars
    \/ await(t)
    \/ notify(t, "notify_one")
    \/ notify(t, "notify_all")

shutdown == Lock!shutdown /\ UNCHANGED cvVars

Next == shutdown \/ \E t \in Tasks : lock_step(t) \/ cv_step(t) \/ call(t)

Spec == Init /\ [][Next]_vars

\* As for the lock.  A std::mutex that is released again and again is granted in
\* the end to everyone who waits for it, hence strong fairness for those who do.
FairSpec ==
    /\ Spec
    /\ \A t \in Tasks :
          /\ WF_vars(lock_step(t))
          /\ WF_vars(cv_step(t))
          /\ SF_vars(await_suspend(t))
          /\ SF_vars(notify_one(t))
          /\ SF_vars(notify_all(t))

-----------------------------------------------------------------------------
(* Properties *)

elements(s) == {s[k] : k \in 1..Len(s)}

\* No element twice.
once(s) == \A j, k \in 1..Len(s) : s[j] = s[k] => j = k

\* Nobody who awaits is forgotten or resumed twice: a task that has unlocked the
\* async_lock keeps the mutex until it is queued, so that no notification falls in
\* the gap, and a suspended task is once in the queue or once in the list of exactly
\* one notifying task.
SuspendedIsQueuedOnce ==
    /\ \A t \in Tasks : pc[t] = "cv_push" <=> m_lock = t
    /\ \A t \in Tasks : pc[t] = "cv_suspended" <=>
          t \in elements(cv_awaiters) \/ \E u \in Tasks : t \in elements(list[u])
    /\ \A u, v \in Tasks :
          /\ elements(list[u]) \cap elements(cv_awaiters) = {}
          /\ u # v => elements(list[u]) \cap elements(list[v]) = {}
    /\ once(cv_awaiters) /\ \A u \in Tasks : once(list[u])

\* The task owns the async_lock, also while it waits for the mutex of the
\* condition variable or notifies inside its critical section.
holds(t) ==
    \/ pc[t] \in Lock!Holding \cup {"cv_await"}
    \/ pc[t] \in Notifying /\ back[t] = "critical"

\* await returns with the lock: it excludes the others before and after, and
\* the lock is free exactly while nobody owns it.
AwaitKeepsExclusion ==
    /\ \A t, u \in Tasks : holds(t) /\ holds(u) => t = u
    /\ m_locked <=> \E t \in Tasks : holds(t)

\* The types of what the two properties above speak of.
TypeOK ==
    /\ m_awaiters \in Seq(Tasks)
    /\ pc \in [Tasks -> Lock!LockPcs \cup CvPcs]
    /\ m_lock \in Tasks \cup {None}
    /\ cv_awaiters \in Seq(Tasks)
    /\ list \in [Tasks -> Seq(Tasks)]
    /\ back \in [Tasks -> {"outside", "critical"}]

\* The queue of the lock holds who is suspended there, and only a task that is
\* about to resume others has a list of them.
QueuesInOrder ==
    /\ once(m_awaiters)
    /\ \A t \in Tasks : pc[t] = "suspended" <=> t \in elements(m_awaiters)
    /\ \A t \in Tasks : list[t] # <<>> => pc[t] = "resuming"

\* It is proved to be inductive in AsyncConditionVariableProofs.
Inv == TypeOK /\ QueuesInOrder /\ SuspendedIsQueuedOnce /\ AwaitKeepsExclusion

\* As long as the executors are open, notify_one and notify_all dequeue and
\* resume what they were called for, and return.
NotifyReturns ==
    []~shut => \A t \in Tasks : pc[t] \in Notifying ~> pc[t] \notin Notifying

\* A task runs on the stack of another that unlocked the lock, notified or, under
\* the mutex, awaits (async_condition_variable.cpp:22).
Nested == \E t \in Tasks : caller[t] # None

\* The same whatever the executors, unless tasks keep being resumed on the stack of
\* others, or one of them blocked itself there and never comes back.
NotifyReturnsUnlessNested ==
    []~shut => \/ []<>Nested
               \/ \A t \in Tasks : pc[t] \in Notifying ~> pc[t] \notin Notifying
=============================================================================
