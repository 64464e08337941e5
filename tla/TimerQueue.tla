----------------------------- MODULE TimerQueue -----------------------------
(***************************************************************************)
(* timer_queue and timer: requests to add and remove timers go through a   *)
(* queue under m_lock to one thread, which keeps the timers, posts the     *)
(* expired ones to their executors and retires when it has been idle for   *)
(* too long.                                                               *)
(*                                                                         *)
(* Deadlines are abstracted to a flag, due, that is raised when the        *)
(* deadline of a timer passes; which of several expired timers comes first *)
(* is left open.  Posting to the executor is the business of the module    *)
(* that composes this one: fire says what the queue does, given whether    *)
(* the post threw.                                                         *)
(***************************************************************************)
EXTENDS Naturals, Sequences

CONSTANTS Timers,
          OneShot,      \* the timers that fire once
          Delays,       \* those behind a delay object, which have no handle
          Reentrant,    \* delays whose coroutine uses the queue when interrupted
          Users,        \* threads that make and cancel timers
          MaxFires      \* bound on the firings of a timer

VARIABLES
    m_request_queue, m_idle, m_abort, m_atomic_abort,
    m_timers,      \* the timers the thread keeps
    expired,       \* those it found expired and has yet to process
    firing,        \* the one it is about to fire
    worker,        \* where the thread is
    shutter,       \* where shutdown is
    user,          \* where each user is, and the timer it cancels
    made,          \* what became of the call that makes each timer
    m_cancelled, due, fires,
    late           \* the number of firings after the cancellation, kept by no code

vars == <<m_request_queue, m_idle, m_abort, m_atomic_abort, m_timers, expired,
          firing, worker, shutter, user, made, m_cancelled, due, fires, late>>
flagVars == <<m_abort, m_atomic_abort>>
keptVars == <<m_timers, expired, firing>>
timerVars == <<made, m_cancelled, due, fires, late>>

unlocked == shutter # "stuck"   \* else shutdown never gives m_lock back

none == "none"
resting == [pc |-> "idle", timer |-> none]

Init ==
    /\ m_request_queue = <<>> /\ m_idle = TRUE
    /\ m_abort = FALSE /\ m_atomic_abort = FALSE
    /\ m_timers = {} /\ expired = {}
    /\ firing = none /\ worker = "none" /\ shutter = "out"
    /\ user = [u \in Users |-> resting]
    /\ made = [t \in Timers |-> "new"]
    /\ m_cancelled = [t \in Timers |-> FALSE]
    /\ due = [t \in Timers |-> FALSE]
    /\ fires = [t \in Timers |-> 0]
    /\ late = [t \in Timers |-> 0]

at(u, where) == user' = [user EXCEPT ![u].pc = where]
requested(what) == {t \in Timers : \E k \in 1..Len(m_request_queue) :
                                       m_request_queue[k] = <<t, what>>}

\* Mutant: a thread that has retired is not replaced.
add_timer_no_thread(u, t) ==
    /\ unlocked /\ user[u].pc = "idle" /\ made[t] = "new"
    /\ IF m_abort
       THEN /\ made' = [made EXCEPT ![t] = "refused"]
            /\ UNCHANGED <<m_request_queue, m_idle, worker, user>>
       ELSE /\ made' = [made EXCEPT ![t] = "made"]
            /\ worker' = IF worker = "none" THEN "lock" ELSE worker
            /\ m_idle' = FALSE
            /\ m_request_queue' = Append(m_request_queue, <<t, "add">>)
            /\ at(u, "notify")
    /\ UNCHANGED <<flagVars, keptVars, shutter, m_cancelled, due, fires, late>>

\* make_timer, make_one_shot_timer or a co_awaited delay object: under the
\* lock, add_timer throws after a shutdown, and otherwise makes sure of a thread.
\* The thread that retired has nothing left to do when it is joined.
add_timer(u, t) ==
    /\ unlocked /\ user[u].pc = "idle" /\ made[t] = "new"
    /\ IF m_abort
       THEN /\ made' = [made EXCEPT ![t] = "refused"]
            /\ UNCHANGED <<m_request_queue, m_idle, worker, user>>
       ELSE /\ made' = [made EXCEPT ![t] = "made"]
            /\ worker' = IF m_idle THEN "lock" ELSE worker
            /\ m_idle' = FALSE
            /\ m_request_queue' = Append(m_request_queue, <<t, "add">>)
            /\ at(u, "notify")
    /\ UNCHANGED <<flagVars, keptVars, shutter, m_cancelled, due, fires, late>>

\* timer::cancel, also by the destructor or an assignment: the flag first.
cancel(u, t) ==
    /\ user[u].pc = "idle" /\ made[t] = "made" /\ t \notin Delays /\ ~m_cancelled[t]
    /\ m_cancelled' = [m_cancelled EXCEPT ![t] = TRUE]
    /\ user' = [user EXCEPT ![u] = [pc |-> "remove", timer |-> t]]
    /\ UNCHANGED <<m_request_queue, m_idle, flagVars, keptVars, worker, shutter,
                   made, due, fires, late>>

remove_internal_timer(u) ==
    /\ unlocked /\ user[u].pc = "remove"
    /\ m_request_queue' = Append(m_request_queue, <<user[u].timer, "remove">>)
    /\ user' = [user EXCEPT ![u] = [resting EXCEPT !.pc = "notify"]]
    /\ UNCHANGED <<m_idle, flagVars, keptVars, worker, shutter, timerVars>>

awake == IF worker = "asleep" THEN "lock" ELSE worker

\* m_condition.notify_one() after a request: only the thread waits.
notify_one(u) ==
    /\ user[u].pc = "notify"
    /\ worker' = awake
    /\ at(u, "idle")
    /\ UNCHANGED <<m_request_queue, m_idle, flagVars, keptVars, shutter, timerVars>>

\* The deadline of a timer that the queue holds passes.
deadline(t) ==
    /\ t \in m_timers \cup requested("add") /\ ~due[t] /\ fires[t] < MaxFires
    /\ due' = [due EXCEPT ![t] = TRUE]
    /\ UNCHANGED <<m_request_queue, m_idle, flagVars, keptVars, worker, shutter,
                   user, made, m_cancelled, fires, late>>

overdue == \E t \in m_timers : due[t]
wanted == m_request_queue # <<>> \/ m_abort

\* process_request_queue: requests come in the order add, remove, and the
\* removal of a timer that is already gone does nothing.
process_request_queue == (m_timers \cup requested("add")) \ requested("remove")

\* The thread has m_lock.  With nothing to do it sleeps; after a shutdown it ends
\* and drops its timers; else it takes the requests and looks what has expired.
work_loop ==
    /\ unlocked /\ worker = "lock"
    /\ IF ~(wanted \/ overdue)
       THEN worker' = "asleep" /\ UNCHANGED <<m_request_queue, m_timers, expired>>
       ELSE IF m_abort
       THEN worker' = "exited" /\ m_timers' = {} /\ UNCHANGED <<m_request_queue, expired>>
       ELSE /\ m_request_queue' = <<>>
            /\ m_timers' = process_request_queue
            /\ expired' = {t \in m_timers' : due[t]}
            /\ worker' = IF expired' = {} THEN "lock" ELSE "process"
    /\ UNCHANGED <<m_idle, flagVars, firing, shutter, user, timerVars>>

\* wait_until ends at the closest deadline.
deadline_wakes ==
    /\ worker = "asleep" /\ overdue
    /\ worker' = "lock"
    /\ UNCHANGED <<m_request_queue, m_idle, flagVars, keptVars, shutter, user,
                   timerVars>>

\* wait_for ends after max_waiting_time; its predicate is looked at once more.
idle_time_out ==
    /\ unlocked /\ worker = "asleep" /\ m_timers = {}
    /\ IF wanted THEN worker' = "lock" /\ UNCHANGED m_idle
                 ELSE worker' = "exited" /\ m_idle' = TRUE
    /\ UNCHANGED <<m_request_queue, flagVars, keptVars, shutter, user,
                   timerVars>>

after(S) == IF S = {} THEN "lock" ELSE "process"

\* Mutant: the flag of a cancelled timer is not looked at.
process_timer_deaf(t) ==
    /\ worker = "process" /\ t \in expired
    /\ worker' = "fire" /\ firing' = t
    /\ UNCHANGED <<m_request_queue, m_idle, flagVars, expired, m_timers, shutter,
                   user, timerVars>>

\* An expired timer is dropped if it is cancelled by now; else it will be fired.
process_timer(t) ==
    /\ worker = "process" /\ t \in expired
    /\ IF m_cancelled[t]
       THEN /\ expired' = expired \ {t}
            /\ m_timers' = m_timers \ {t}
            /\ worker' = after(expired')
            /\ UNCHANGED firing
       ELSE worker' = "fire" /\ firing' = t /\ UNCHANGED <<expired, m_timers>>
    /\ UNCHANGED <<m_request_queue, m_idle, flagVars, shutter, user, timerVars>>

\* fire() sets the next deadline and posts.  An exception of the post leaves
\* the thread function, which terminates the process.  A timer that fires once
\* is dropped.
fire(threw) ==
    LET t == firing IN
    /\ worker = "fire"
    /\ fires' = [fires EXCEPT ![t] = @ + 1]
    /\ late' = [late EXCEPT ![t] = IF m_cancelled[t] THEN @ + 1 ELSE @]
    /\ due' = [due EXCEPT ![t] = FALSE]
    /\ expired' = expired \ {t}
    /\ m_timers' = IF t \in OneShot THEN m_timers \ {t} ELSE m_timers
    /\ worker' = IF threw THEN "terminated" ELSE after(expired')
    /\ firing' = none
    /\ UNCHANGED <<m_request_queue, m_idle, flagVars, shutter, user, made,
                   m_cancelled>>

\* A second call returns at once.
shutdown ==
    /\ ~m_atomic_abort
    /\ m_atomic_abort' = TRUE
    /\ shutter' = "lock"
    /\ UNCHANGED <<m_request_queue, m_idle, m_abort, keptVars, worker, user,
                   timerVars>>

\* The section of shutdown under the lock.  Clearing the requests resumes the
\* coroutines of delays among them there and then, with the lock still held.
set_abort ==
    /\ shutter = "lock"
    /\ m_abort' = TRUE
    /\ IF worker = "none" THEN shutter' = "returned" /\ UNCHANGED m_request_queue
       ELSE /\ m_request_queue' = <<>>
            /\ shutter' = IF requested("add") \cap Reentrant # {} THEN "stuck" ELSE "notify"
    /\ UNCHANGED <<m_idle, m_atomic_abort, keptVars, worker, user, timerVars>>

notify_all ==
    /\ shutter = "notify"
    /\ worker' = awake
    /\ shutter' = "join"
    /\ UNCHANGED <<m_request_queue, m_idle, flagVars, keptVars, user, timerVars>>

join ==
    /\ shutter = "join" /\ worker = "exited"
    /\ shutter' = "returned"
    /\ UNCHANGED <<m_request_queue, m_idle, flagVars, keptVars, worker,
                   user, timerVars>>

user_step(u) == remove_internal_timer(u) \/ notify_one(u)
worker_step == work_loop \/ deadline_wakes \/ \E t \in Timers : process_timer(t)
shutdown_step == set_abort \/ notify_all \/ join
-----------------------------------------------------------------------------
TimerTypes ==
    /\ made \in [Timers -> {"new", "made", "refused"}]
    /\ m_cancelled \in [Timers -> BOOLEAN] /\ due \in [Timers -> BOOLEAN]
    /\ fires \in [Timers -> Nat] /\ late \in [Timers -> Nat]

TypeOK ==
    /\ m_request_queue \in Seq(Timers \X {"add", "remove"})
    /\ m_idle \in BOOLEAN /\ m_abort \in BOOLEAN /\ m_atomic_abort \in BOOLEAN
    /\ m_timers \subseteq Timers /\ expired \subseteq Timers
    /\ firing \in Timers \cup {none}
    /\ worker \in {"none", "lock", "asleep", "process", "fire", "exited", "terminated"}
    /\ shutter \in {"out", "lock", "stuck", "notify", "join", "returned"}
    /\ user \in [Users -> [pc : {"idle", "remove", "notify"}, timer : Timers \cup {none}]]
    /\ \A u \in Users : user[u].pc = "remove" => user[u].timer \in Timers
    /\ TimerTypes

\* The thread works on expired timers that it keeps, and only between its look at
\* the deadlines and its next round.
ExpiredAreKept ==
    /\ expired \subseteq {t \in m_timers : due[t]}
    /\ worker \notin {"process", "fire", "terminated"} => expired = {}
    /\ worker = "fire" => firing \in expired

\* A timer is requested or kept, never both, and only after add_timer took it; it
\* is within its bound when it is due, and one that fires once is gone when it has.
QueuedOnce ==
    \A t \in Timers :
        /\ t \in m_timers \cup requested("add") \/ due[t] => made[t] = "made"
        /\ ~(t \in m_timers /\ t \in requested("add"))
        /\ fires[t] <= MaxFires /\ (due[t] => fires[t] < MaxFires)
        /\ made[t] # "made" => fires[t] = 0
        /\ t \in OneShot =>
              fires[t] <= 1 /\ (t \in m_timers \cup requested("add") => fires[t] = 0)

\* A queue without a thread has no timer and no request for one: ensure_worker_thread
\* starts a thread with the first request, and the thread retires only when it
\* found nothing left (timer_queue.cpp:169-219).
NoThreadNoTimers ==
    /\ m_idle => worker \in {"none", "exited"}
    /\ worker \in {"none", "exited"} => (m_abort \/ m_idle) /\ m_timers = {}
    /\ m_abort \/ worker \in {"none", "exited"} => requested("add") = {}

\* shutdown sets the flag under the lock and returns when there is no thread.
ShutdownInOrder ==
    /\ shutter = "out" <=> ~m_atomic_abort
    /\ shutter \in {"out", "lock"} <=> ~m_abort
    /\ shutter = "returned" => worker \in {"none", "exited"}

\* A timer fires at most once after its flag was raised, and is not fired again.
LateOnce ==
    \A t \in Timers :
        /\ late[t] <= 1
        /\ late[t] > 0 => m_cancelled[t] /\ ~(worker = "fire" /\ firing = t)

Inv ==
    TypeOK /\ ExpiredAreKept /\ QueuedOnce /\ NoThreadNoTimers /\ ShutdownInOrder /\ LateOnce
=============================================================================
