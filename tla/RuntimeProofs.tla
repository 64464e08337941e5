--------------------------- MODULE RuntimeProofs ----------------------------
(***************************************************************************)
(* The runtime as a whole: timers that are cancelled stop, the timer       *)
(* thread survives the destructor, nothing is left when the destructor has *)
(* returned, and the manual and the thread executor keep the contract of   *)
(* module Executor, for any timers, tasks, threads and programs.           *)
(*                                                                         *)
(* A step of the runtime is a step of each part or leaves it alone, so the *)
(* invariants of the parts (RuntimePartsProofs) hold; what the invariant   *)
(* Inv of Runtime adds is the order in which the destructor goes through   *)
(* the parts, and that an executor has not met the tasks that come to it.  *)
(***************************************************************************)
EXTENDS Runtime, RuntimePartsProofs

\* The steps of the composition, by the parts they touch.

\* The timer queue, except that it fires a timer or that its shutdown begins.
TimerMoves ==
    /\ \/ \E u \in Users, t \in Timers : Timer!add_timer(u, t) \/ Timer!cancel(u, t)
       \/ \E u \in Users : Timer!user_step(u)
       \/ \E t \in Timers : Timer!deadline(t)
       \/ Timer!worker_step \/ Timer!idle_time_out \/ Timer!shutdown_step
    /\ timer_only

LooperMoves(l) ==
    /\ \/ \E op \in Ops, n \in 1..MaxCount : Manual!call(l, op, n)
       \/ Manual!clear(l) \/ Manual!looper_step(l) \/ Manual!time_out(l)
    /\ starts(l) /\ manual_only

CallerMoves(c) == Manual!caller_step(c) /\ manual_only /\ UNCHANGED called
ShutterMoves == Thread!shutdown_step /\ thread_only /\ UNCHANGED called

\* The cases of Next, by the parts they touch.
LEMMA NextCases ==
    ASSUME Next
    PROVE  \/ TimerMoves \/ fire
           \/ \E u \in Users : bulk_post(u) \/ shutdown_by_owner(u)
           \/ \E l \in Loopers : LooperMoves(l)
           \/ \E c \in Callers : CallerMoves(c)
           \/ \E x \in Firings \cup posted : thread_step(x)
           \/ ShutterMoves \/ network_only
           \/ shutdown_timer_queue \/ shutdown_thread_executor
           \/ shutdown_manual_executor \/ join_io_pool
  <1>1. ASSUME NEW u \in Users, NEW t \in Timers,
               make_timer(u, t) \/ make_delay_object(u, t) \/ cancel_timer(u, t)
        PROVE  TimerMoves
    BY <1>1, Zenon DEF make_timer, make_delay_object, cancel_timer, TimerMoves
  <1>2. ASSUME NEW u \in Users, user_step(u)
        PROVE  TimerMoves \/ \E c \in Callers : CallerMoves(c)
    BY <1>2, Zenon DEF user_step, TimerMoves, CallerMoves, Callers
  <1>3. ASSUME timer_thread_step \/ idle_time_out \/ \E t \in Timers : deadline(t)
        PROVE  TimerMoves \/ \E c \in Callers : CallerMoves(c)
    BY <1>3, Zenon DEF timer_thread_step, idle_time_out, deadline, TimerMoves, CallerMoves, Callers
  <1>4. ASSUME NEW l \in Loopers, looper_calls(l) \/ looper_step(l) \/ looper_times_out(l)
        PROVE  LooperMoves(l)
    BY <1>4, Zenon DEF looper_calls, looper_step, looper_times_out, LooperMoves
  <1>5. ASSUME \/ start_network \/ accept_step \/ signal_step
               \/ \E p \in Peers : outside(p) \/ connection_runs(p)
               \/ \E p \in Calls : call_runs(p) \/ call_timer_runs(p)
        PROVE  network_only
    BY <1>5, Zenon
    DEF start_network, accept_step, signal_step, outside, connection_runs,
        call_runs, call_timer_runs
  <1>6. ASSUME destructor_step
        PROVE  \/ TimerMoves \/ ShutterMoves \/ \E c \in Callers : CallerMoves(c)
               \/ shutdown_thread_executor \/ shutdown_manual_executor \/ join_io_pool
    BY <1>6, Zenon DEF destructor_step, TimerMoves, ShutterMoves, CallerMoves, Callers
  <1> QED BY <1>1, <1>2, <1>3, <1>4, <1>5, <1>6, Zenon DEF Next

\* The task of the firing that comes is one the executors know nothing of.
LEMMA FiringIsFresh ==
    ASSUME Inv, tq_worker = "fire"
    PROVE  /\ tq_firing \in Timers
           /\ <<tq_firing, fires[tq_firing] + 1>> \in Firings
           /\ man_status[<<tq_firing, fires[tq_firing] + 1>>] = "new"
           /\ thr_status[<<tq_firing, fires[tq_firing] + 1>>] = "new"
  <1> DEFINE t == tq_firing
             n == fires[tq_firing] + 1
  <1>1. t \in Timers /\ t \in tq_timers /\ due[t]
    BY SMTT(30) DEF Inv, Timer!Inv, Timer!ExpiredAreKept, Timer!TypeOK
  <1>2. fires[t] \in Nat
    BY <1>1, SMTT(30) DEF Inv, Timer!Inv, Timer!TimerTypes, Timer!TypeOK
  <1>3. fires[t] < MaxFires /\ (t \in OneShot => fires[t] = 0)
    BY <1>1, SMTT(30) DEF Inv, Timer!Inv, Timer!QueuedOnce
  <1>4. n \in 1..MaxFires /\ (t \in OneShot => n = 1)
    BY <1>2, <1>3, PartsAssumption, SMTT(30)
  <1>5. <<t, n>> \in Firings
    BY <1>1, <1>4, SMTT(30) DEF Firings
  <1>6. \A x \in Firings : x[2] > fires[x[1]] => man_status[x] = "new" /\ thr_status[x] = "new"
    BY DEF Inv, TasksAreFresh
  <1>7. n > fires[t]
    BY <1>2
  <1> HIDE DEF n, t
  <1>8. <<t, n>>[2] = n /\ <<t, n>>[1] = t
    BY SMTT(30)
  <1>9. man_status[<<t, n>>] = "new" /\ thr_status[<<t, n>>] = "new"
    BY <1>5, <1>6, <1>7, <1>8, SMTT(30)
  <1> QED BY <1>1, <1>5, <1>9, SMTT(30) DEF n, t

\* What a looper, a caller and a thread do is a step of their executor.
LEMMA MovesAreSteps ==
    /\ TimerMoves => TimerStep /\ UNCHANGED <<manual_vars, thread_vars>>
    /\ \A l \in Loopers : LooperMoves(l) => ManualStep /\ UNCHANGED <<timer_vars, thread_vars>>
    /\ \A c \in Callers : CallerMoves(c) => ManualStep /\ UNCHANGED <<timer_vars, thread_vars>>
    /\ \A x \in Firings \cup posted :
          thread_step(x) => ThreadStep /\ UNCHANGED <<timer_vars, manual_vars>>
    /\ ShutterMoves => ThreadStep /\ UNCHANGED <<timer_vars, manual_vars>>
  <1>1. TimerMoves => TimerStep /\ UNCHANGED <<manual_vars, thread_vars>>
    BY SMTT(30) DEF TimerMoves, TimerStep, timer_only, Timer!user_step, Timer!worker_step,
           Timer!shutdown_step
  <1>2. \A l \in Loopers : LooperMoves(l) => ManualStep /\ UNCHANGED <<timer_vars, thread_vars>>
    BY SMTT(30) DEF LooperMoves, ManualStep, manual_only, Manual!looper_step
  <1>3. \A c \in Callers : CallerMoves(c) => ManualStep /\ UNCHANGED <<timer_vars, thread_vars>>
    BY SMTT(30) DEF CallerMoves, ManualStep, manual_only, Manual!caller_step
  <1>4. \A x \in Firings \cup posted :
           thread_step(x) => ThreadStep /\ UNCHANGED <<timer_vars, manual_vars>>
    BY ZenonT(30) DEF thread_step, ThreadStep, thread_only, Thread!thread_step
  <1>5. ShutterMoves => ThreadStep /\ UNCHANGED <<timer_vars, manual_vars>>
    BY SMTT(30) DEF ShutterMoves, ThreadStep, thread_only, Thread!shutdown_step
  <1> QED BY <1>1, <1>2, <1>3, <1>4, <1>5, SMTT(30)

\* The posted tasks are posted once, to an executor that knows nothing of them.
LEMMA PostsAreFresh ==
    ASSUME Inv, NEW u \in Users, bulk_post(u)
    PROVE  \/ /\ ManualStep /\ UNCHANGED <<timer_vars, thread_vars>>
              /\ man_status[Posts[1]] = "new" /\ Manual!enqueue(u, Posts)
           \/ /\ ThreadStep /\ UNCHANGED <<timer_vars, manual_vars>>
              /\ thr_status[Posts[1]] = "new" /\ Thread!enqueue(posted)
  <1>1. posted = Manual!elements(Posts) /\ Posts \in Seq(Firings \cup posted)
        /\ Manual!distinct(Posts)
    BY TasksAssumption DEF Manual!elements, Manual!distinct, posted
  <1>2. u \in Callers
    BY SMTT(30) DEF Callers
  <1>3. CASE program.home = "manual"
    <2>1. man_status[Posts[1]] = "new" /\ Manual!enqueue(u, Posts) /\ manual_only
      BY <1>3, Zenon DEF bulk_post
    <2>2. \A x \in Manual!elements(Posts) : man_status[x] = "new"
      BY <1>1, <2>1, Zenon DEF Inv, TasksAreFresh
    <2>3. ManualStep
      BY <1>1, <1>2, <2>1, <2>2, Zenon DEF ManualStep
    <2> QED BY <2>1, <2>3, ZenonT(30) DEF manual_only
  <1>4. CASE program.home # "manual"
    <2>1. thr_status[Posts[1]] = "new" /\ Thread!enqueue(posted) /\ thread_only
      BY <1>4, Zenon DEF bulk_post
    <2>2. \A x \in posted : thr_status[x] = "new"
      BY <2>1 DEF Inv, TasksAreFresh
    <2>3. posted \in SUBSET (Firings \cup posted)
      OBVIOUS
    <2>4. ThreadStep
      BY <2>1, <2>2, <2>3, Zenon DEF ThreadStep
    <2> QED BY <2>1, <2>4, Zenon DEF thread_only
  <1> QED BY <1>3, <1>4, ZenonT(30)

\* fire is a step of the timer queue and of the executor it posts to, which is given
\* a new task.
LEMMA FireIsStep ==
    ASSUME Inv, fire
    PROVE  LET x == <<tq_firing, fires[tq_firing] + 1>> IN
           /\ TimerStep
           /\ \/ /\ ManualStep /\ UNCHANGED thread_vars
                 /\ Timer!fire(man_abort) /\ Manual!enqueue("timer_thread", <<x>>)
              \/ /\ ThreadStep /\ UNCHANGED manual_vars
                 /\ Timer!fire(thr_abort) /\ Thread!enqueue({x})
  <1> DEFINE x == <<tq_firing, fires[tq_firing] + 1>>
  <1>1. x \in Firings /\ man_status[x] = "new" /\ thr_status[x] = "new"
    BY FiringIsFresh, ZenonT(30) DEF fire
  <1>2. man_abort \in BOOLEAN /\ thr_abort \in BOOLEAN
    BY DEF Inv, Manual!Inv, Manual!TypeOK, Thread!Inv, Thread!TypeOK
  <1>3. "timer_thread" \in Callers
    BY DEF Callers
  <1>4. CASE program.home = "manual"
    <2>1. /\ Timer!fire(man_abort) /\ Manual!enqueue("timer_thread", <<x>>)
          /\ UNCHANGED thread_vars
      BY <1>4, Zenon DEF fire
    <2> HIDE DEF x
    <2>2. <<x>> \in Seq(Firings \cup posted) /\ Manual!distinct(<<x>>)
          /\ Manual!elements(<<x>>) = {x}
      BY <1>1, OneElement, SMTT(30)
    <2>3. ManualStep
      BY <1>1, <1>3, <2>1, <2>2, ZenonT(30) DEF ManualStep
    <2>4. TimerStep
      BY <1>2, <2>1, Zenon DEF TimerStep
    <2> QED BY <2>1, <2>3, <2>4, Zenon DEF x
  <1>5. CASE program.home # "manual"
    <2>1. /\ Timer!fire(thr_abort) /\ Thread!enqueue({x}) /\ UNCHANGED manual_vars
      BY <1>5, Zenon DEF fire
    <2> HIDE DEF x
    <2>2. {x} \in SUBSET (Firings \cup posted)
      BY <1>1
    <2>3. ThreadStep
      BY <1>1, <2>1, <2>2, Zenon DEF ThreadStep
    <2>4. TimerStep
      BY <1>2, <2>1, Zenon DEF TimerStep
    <2> QED BY <2>1, <2>3, <2>4, Zenon DEF x
  <1> QED BY <1>4, <1>5, Zenon

\* Every step of the composition is a step of each part, or leaves it alone.
LEMMA NextIsPartSteps ==
    ASSUME Inv, Next
    PROVE  /\ TimerStep \/ UNCHANGED timer_vars
           /\ ManualStep \/ UNCHANGED manual_vars
           /\ ThreadStep \/ UNCHANGED thread_vars
  <1> DEFINE Goal == /\ TimerStep \/ UNCHANGED timer_vars
                     /\ ManualStep \/ UNCHANGED manual_vars
                     /\ ThreadStep \/ UNCHANGED thread_vars
  <1>1. ASSUME TimerMoves
        PROVE  Goal
    BY <1>1, MovesAreSteps
  <1>2. ASSUME fire
        PROVE  Goal
    BY <1>2, FireIsStep, Zenon
  <1>3. ASSUME NEW u \in Users, bulk_post(u)
        PROVE  Goal
    BY <1>3, PostsAreFresh, ZenonT(30)
  <1>4. ASSUME NEW u \in Users, shutdown_by_owner(u)
        PROVE  Goal
    BY <1>4, SMTT(30) DEF shutdown_by_owner, ManualStep, manual_only, Callers
  <1>5. ASSUME \/ \E l \in Loopers : LooperMoves(l)
               \/ \E c \in Callers : CallerMoves(c)
               \/ \E x \in Firings \cup posted : thread_step(x)
               \/ ShutterMoves
        PROVE  Goal
    BY <1>5, MovesAreSteps, SMTT(30)
  <1>6. ASSUME network_only \/ join_io_pool
        PROVE  Goal
    BY <1>6, SMTT(30) DEF network_only, join_io_pool
  <1>7. ASSUME shutdown_timer_queue
        PROVE  Goal
    BY <1>7, SMTT(30) DEF shutdown_timer_queue, TimerStep
  <1>8. ASSUME shutdown_thread_executor
        PROVE  Goal
    BY <1>8, SMTT(30) DEF shutdown_thread_executor, ThreadStep
  <1>9. ASSUME shutdown_manual_executor
        PROVE  Goal
    BY <1>9, SMTT(30) DEF shutdown_manual_executor, ManualStep, Callers
  <1> HIDE DEF Goal
  <1>10. Goal
    BY <1>1, <1>2, <1>3, <1>4, <1>5, <1>6, <1>7, <1>8, <1>9, NextCases, SMTT(30)
  <1> QED BY <1>10, SMTT(30) DEF Goal

\* So each part keeps its invariant.
LEMMA PartsInv ==
    ASSUME Inv, Next
    PROVE  Timer!Inv' /\ Manual!Inv' /\ Thread!Inv'
  <1>1. Timer!Inv /\ Manual!Inv /\ Thread!Inv
    BY SMTT(30) DEF Inv
  <1> QED
    BY SMTT(30), <1>1, NextIsPartSteps, TimerInv, TimerStutter, ManualInv, ManualStutter, ThreadInv,
       ThreadStutter
-----------------------------------------------------------------------------
\* What the steps leave as it is.

\* The timer queue fires nothing in these steps, and the thread does not end by an
\* exception.
LEMMA TimerMovesKeep ==
    ASSUME TimerMoves
    PROVE  /\ UNCHANGED <<fires, late>> /\ alive /\ alive'
           /\ tq_shutter' = "out" <=> tq_shutter = "out"
           /\ tq_shutter = "returned" => tq_shutter' = "returned"
           /\ UNCHANGED <<manual_vars, thread_vars, program, called, rt>>
  <1>0. alive /\ UNCHANGED <<manual_vars, thread_vars, program, called, rt>>
    BY SMTT(30) DEF TimerMoves, timer_only
  <1> DEFINE Keep == /\ UNCHANGED <<fires, late>> /\ alive'
                     /\ tq_shutter' = "out" <=> tq_shutter = "out"
                     /\ tq_shutter = "returned" => tq_shutter' = "returned"
  <1>1. ASSUME NEW u \in Users, NEW t \in Timers, Timer!add_timer(u, t) \/ Timer!cancel(u, t)
        PROVE  Keep
    BY <1>0, <1>1, ZenonT(30) DEF Timer!add_timer, Timer!cancel, alive, Timer!keptVars
  <1>2. ASSUME NEW u \in Users, Timer!user_step(u)
        PROVE  Keep
    BY <1>0, <1>2, SMTT(30)
    DEF Timer!user_step, Timer!remove_internal_timer, Timer!notify_one, Timer!awake, alive,
        Timer!timerVars
  <1>3. ASSUME NEW t \in Timers, Timer!deadline(t) \/ Timer!process_timer(t)
        PROVE  Keep
    BY <1>0, <1>3, ZenonT(30) DEF Timer!deadline, Timer!process_timer, Timer!after, alive, Timer!timerVars
  <1>4. ASSUME Timer!work_loop
        PROVE  Keep
    BY <1>0, <1>4, SMTT(30) DEF Timer!work_loop, alive, Timer!timerVars
  <1>5. ASSUME Timer!deadline_wakes \/ Timer!idle_time_out
        PROVE  Keep
    BY <1>0, <1>5, SMTT(30) DEF Timer!deadline_wakes, Timer!idle_time_out, alive, Timer!timerVars
  <1>6. ASSUME Timer!shutdown_step
        PROVE  Keep
    BY <1>0, <1>6, SMTT(30)
    DEF Timer!shutdown_step, Timer!set_abort, Timer!notify_all, Timer!join, Timer!awake, alive,
        Timer!timerVars
  <1> HIDE DEF Keep
  <1>7. Keep
    BY <1>1, <1>2, <1>3, <1>4, <1>5, <1>6, Zenon DEF TimerMoves, Timer!worker_step
  <1> QED BY <1>0, <1>7, SMTT(30) DEF Keep

\* A caller inside enqueue or shutdown goes on, and no task becomes or ceases to be
\* new.
LEMMA CallerMovesKeep ==
    ASSUME Inv, NEW c \in Callers, CallerMoves(c)
    PROVE  /\ UNCHANGED <<man_atomic_abort, called, rt, program>>
           /\ UNCHANGED <<timer_vars, thread_vars>> /\ alive
           /\ calling[c] # "idle" /\ (calling[c] = "notify" => calling'[c] = "idle")
           /\ \A d \in Callers \ {c} : calling'[d] = calling[d]
           /\ \A x \in Firings \cup posted : man_status'[x] = "new" <=> man_status[x] = "new"
  <1>1. calling \in [Callers -> {"idle", "notify", "abort", "sd_notify", "clear"}]
    BY DEF Inv, Manual!Inv, Manual!TypeOK
  <1>2. Manual!notify_all(c) \/ Manual!set_abort(c) \/ Manual!destroy_tasks(c)
    BY DEF CallerMoves, Manual!caller_step
  <1>3. \/ man_status' = man_status
        \/ man_status' = Manual!become({t \in Firings \cup posted : man_status[t] = "queued"},
                                       "destroyed")
    BY <1>2, Zenon DEF Manual!notify_all, Manual!set_abort, Manual!destroy_tasks
  <1>4. \A x \in Firings \cup posted : man_status'[x] = "new" <=> man_status[x] = "new"
    BY <1>3, SMTT(30) DEF Manual!become
  <1>5. /\ calling[c] # "idle" /\ (calling[c] = "notify" => calling'[c] = "idle")
        /\ \A d \in Callers \ {c} : calling'[d] = calling[d]
        /\ UNCHANGED man_atomic_abort
    BY <1>1, <1>2, SMTT(30) DEF Manual!notify_all, Manual!set_abort, Manual!destroy_tasks
  <1> QED BY <1>4, <1>5, ZenonT(30) DEF CallerMoves, manual_only

\* At most one more callable is called, of a firing that the executor was given, and
\* whose timer is not cancelled.
CalledGrows ==
    \/ called' = called
    \/ \E x \in Firings : /\ called' = called \cup {x} /\ ~cancelled[x[1]]
                          /\ man_status[x] # "new" \/ thr_status[x] # "new"

\* A looper changes nothing but the queue and its tasks, and calls the callable of
\* the task that it starts.
LEMMA LooperMovesKeep ==
    ASSUME Inv, NEW l \in Loopers, LooperMoves(l)
    PROVE  /\ UNCHANGED <<man_atomic_abort, calling, rt, program>>
           /\ UNCHANGED <<timer_vars, thread_vars>> /\ alive
           /\ \A x \in Firings \cup posted : man_status'[x] = "new" <=> man_status[x] = "new"
           /\ CalledGrows
  <1>0. Manual!TypeOK /\ Manual!QueueHoldsQueued /\ Manual!OneRunner
    BY SMTT(30) DEF Inv, Manual!Inv
  <1>a. looper \in [Loopers -> Manual!LooperStates] /\ man_tasks \in Seq(Firings \cup posted)
    BY <1>0, SMTT(30) DEF Manual!TypeOK
  <1>b. /\ ~man_abort => \A t \in Firings \cup posted :
                            man_status[t] = "queued" <=> t \in Manual!elements(man_tasks)
        /\ Manual!distinct(man_tasks)
    BY <1>0, SMTT(30) DEF Manual!QueueHoldsQueued
  <1>c. starts(l) /\ UNCHANGED <<timer_vars, thread_vars, rt, program>> /\ alive
    BY DEF LooperMoves, manual_only
  <1> DEFINE News == \A x \in Firings \cup posted : man_status'[x] = "new" <=> man_status[x] = "new"
             Flags == UNCHANGED <<man_atomic_abort, calling>>
  <1>1. ASSUME Rests(l)
        PROVE  Flags /\ News /\ CalledGrows
    <2>1. looper'[l].pc # "running"
      BY <1>1, <1>a DEF Rests
    <2> QED BY <1>1, <1>c, <2>1, Zenon DEF Rests, starts, CalledGrows
  <1>2. ASSUME Pops(l)
        PROVE  Flags /\ News /\ CalledGrows
    <2>1. Head(man_tasks) \in Firings \cup posted /\ man_status[Head(man_tasks)] = "queued"
      BY <1>0, <1>2, <1>a, <1>b, ElementsOfTail, HeadIsTask, SMTT(30) DEF Pops
    <2>2. looper'[l].task = Head(man_tasks)
      BY <1>2, <1>a, SMTT(30) DEF Pops
    <2>3. News
      BY <1>2, <2>1, PoppedRuns, SMTT(30)
    <2>4. called' = called \/ execute(Head(man_tasks))
      BY <1>c, <2>2, Zenon DEF starts
    <2>5. CalledGrows
      BY <2>1, <2>4, SMTT(30) DEF execute, CalledGrows
    <2> QED BY <1>2, <2>3, <2>5, Zenon DEF Pops
  <1>3. ASSUME Manual!task_returns(l)
        PROVE  Flags /\ News /\ CalledGrows
    <2>1. looper[l].pc = "running" /\ Flags
          /\ man_status' = Manual!become({looper[l].task}, "done")
      BY <1>3, SMTT(30) DEF Manual!task_returns
    <2>2. man_status[looper[l].task] = "running"
      BY <1>0, <2>1, ZenonT(30) DEF Manual!OneRunner
    <2>3. \A t \in Firings \cup posted :
             man_status'[t] = IF t = looper[l].task THEN "done" ELSE man_status[t]
      BY <2>1, ManualBecomes, SMTT(30)
    <2>4. News
      BY <2>2, <2>3, ZenonT(30)
    <2> QED BY <1>c, <2>1, <2>4, Zenon DEF starts, CalledGrows
  <1>4. ASSUME Manual!clear(l)
        PROVE  Flags /\ News /\ CalledGrows
    <2>1. looper' = looper /\ ~man_abort /\ Flags
          /\ man_status' = Manual!become(Manual!elements(man_tasks), "destroyed")
      BY <1>4, ZenonT(30) DEF Manual!clear
    <2>2. News
      BY <1>b, <2>1, ManualBecomes, SMTT(30)
    <2> QED BY <1>c, <2>1, <2>2, Zenon DEF starts, CalledGrows
  <1> HIDE DEF News, Flags
  <1>5. Flags /\ News /\ CalledGrows
    BY <1>0, <1>1, <1>2, <1>3, <1>4, LooperActs, Zenon DEF LooperMoves, Manual!looper_step
  <1> QED BY <1>c, <1>5, SMTT(30) DEF News, Flags

\* A thread of the thread executor runs its task and retires.
LEMMA ThreadStepKeeps ==
    ASSUME Inv, NEW x \in Firings \cup posted, thread_step(x)
    PROVE  /\ UNCHANGED <<rt, program>>
           /\ UNCHANGED <<timer_vars, manual_vars>> /\ alive
           /\ thr_shutter' = "out" <=> thr_shutter = "out"
           /\ thr_shutter = "returned" => thr_shutter' = "returned"
           /\ \A y \in Firings \cup posted : thr_status'[y] = "new" <=> thr_status[y] = "new"
           /\ CalledGrows
  <1>0. Thread!TypeOK /\ Thread!WorkersAtWork
    BY SMTT(30) DEF Inv, Thread!Inv
  <1>1. thr_status \in [Firings \cup posted -> Thread!Contract!Statuses]
    BY <1>0, SMTT(30) DEF Thread!TypeOK
  <1>2. /\ thread[x] = "started" <=> thr_status[x] = "queued"
        /\ thread[x] = "task" <=> thr_status[x] = "running"
    BY <1>0, SMTT(30) DEF Thread!WorkersAtWork
  <1>3. Thread!task_starts(x) \/ Thread!retire_worker(x) \/ Thread!notify_one(x) \/ Thread!join(x)
    BY SMTT(30) DEF thread_step, Thread!thread_step
  <1>4. \A y \in Firings \cup posted : thr_status'[y] = "new" <=> thr_status[y] = "new"
    BY <1>1, <1>2, <1>3, SMTT(30)
    DEF Thread!task_starts, Thread!retire_worker, Thread!notify_one, Thread!join
  <1>5. /\ thr_shutter' = "out" <=> thr_shutter = "out"
        /\ thr_shutter = "returned" => thr_shutter' = "returned"
    BY <1>3, SMTT(30) DEF Thread!task_starts, Thread!retire_worker, Thread!notify_one, Thread!join
  <1>6. CalledGrows
    BY <1>2, ZenonT(30) DEF thread_step, execute, CalledGrows
  <1> QED BY <1>4, <1>5, <1>6, Zenon DEF thread_step, thread_only

\* shutdown of the thread executor goes on, and touches no task.
LEMMA ShutterMovesKeep ==
    ASSUME ShutterMoves
    PROVE  /\ UNCHANGED <<called, rt, program, thr_status>>
           /\ UNCHANGED <<timer_vars, manual_vars>> /\ alive
           /\ thr_shutter' = "out" <=> thr_shutter = "out"
           /\ thr_shutter = "returned" => thr_shutter' = "returned"
  BY SMTT(30) DEF ShutterMoves, thread_only, Thread!shutdown_step, Thread!wait_for_workers,
         Thread!join_last_retired

\* What the steps that enqueue do, and what they leave as it is.
LEMMA EnqueueKeeps ==
    ASSUME Inv
    PROVE  /\ \A c \in Callers : \A tasks : Manual!enqueue(c, tasks) =>
                 /\ UNCHANGED man_atomic_abort /\ calling[c] = "idle"
                 /\ calling'[c] \in {"idle", "notify"}
                 /\ \A d \in Callers \ {c} : calling'[d] = calling[d]
                 /\ \A x \in Firings \cup posted : x \notin Manual!elements(tasks) =>
                        man_status'[x] = man_status[x]
                 /\ \A x \in Firings \cup posted : x \in Manual!elements(tasks) =>
                        man_status'[x] # "new"
           /\ \A tasks : Thread!enqueue(tasks) =>
                 /\ UNCHANGED thr_shutter
                 /\ \A x \in Firings \cup posted : x \notin tasks => thr_status'[x] = thr_status[x]
                 /\ \A x \in Firings \cup posted : x \in tasks => thr_status'[x] # "new"
  <1>0. calling \in [Callers -> {"idle", "notify", "abort", "sd_notify", "clear"}]
    BY SMTT(30) DEF Inv, Manual!Inv, Manual!TypeOK
  <1>1. ASSUME NEW c \in Callers, NEW tasks, Manual!enqueue(c, tasks)
        PROVE  /\ UNCHANGED man_atomic_abort /\ calling[c] = "idle"
               /\ calling'[c] \in {"idle", "notify"}
               /\ \A d \in Callers \ {c} : calling'[d] = calling[d]
    BY <1>0, <1>1, SMTT(30) DEF Manual!enqueue
  <1>2. ASSUME NEW c \in Callers, NEW tasks, Manual!enqueue(c, tasks)
        PROVE  /\ \A x \in Firings \cup posted : x \notin Manual!elements(tasks) =>
                     man_status'[x] = man_status[x]
               /\ \A x \in Firings \cup posted : x \in Manual!elements(tasks) =>
                     man_status'[x] # "new"
    <2>1. PICK what \in {"refused", "queued"} :
             man_status' = Manual!become(Manual!elements(tasks), what)
      BY <1>2, Zenon DEF Manual!enqueue
    <2> QED BY <2>1, ManualBecomes, ZenonT(30)
  <1>3. ASSUME NEW tasks, Thread!enqueue(tasks)
        PROVE  /\ UNCHANGED thr_shutter
               /\ \A x \in Firings \cup posted : x \notin tasks => thr_status'[x] = thr_status[x]
               /\ \A x \in Firings \cup posted : x \in tasks => thr_status'[x] # "new"
    BY <1>3, SMTT(30) DEF Thread!enqueue, Thread!become
  <1> QED BY <1>1, <1>2, <1>3, ZenonT(30)

\* fire counts the firing, and ends the thread if the post threw.
LEMMA FireKeeps ==
    ASSUME Inv, NEW threw \in BOOLEAN, Timer!fire(threw)
    PROVE  /\ UNCHANGED <<tq_shutter, cancelled>> /\ tq_worker = "fire"
           /\ tq_worker' = "terminated" <=> threw
           /\ \A t \in Timers :
                 fires'[t] = IF t = tq_firing THEN fires[t] + 1 ELSE fires[t]
           /\ \A t \in Timers \ {tq_firing} : late'[t] = late[t]
  <1>1. fires \in [Timers -> Nat] /\ late \in [Timers -> Nat]
    BY DEF Inv, Timer!Inv, Timer!TypeOK, Timer!TimerTypes
  <1> QED BY <1>1, ZenonT(30) DEF Timer!fire, Timer!after

\* Every step keeps the types of the composition.
LEMMA RuntimeTypeOK ==
    ASSUME Inv, Next
    PROVE  TypeOK'
  <1>0. TypeOK
    BY SMTT(30) DEF Inv
  <1>1. ASSUME \/ TimerMoves \/ ShutterMoves \/ \E c \in Callers : CallerMoves(c)
        PROVE  TypeOK'
    BY <1>0, <1>1, TimerMovesKeep, ShutterMovesKeep, CallerMovesKeep, ZenonT(30) DEF TypeOK
  <1>2. ASSUME \/ \E l \in Loopers : LooperMoves(l)
               \/ \E x \in Firings \cup posted : thread_step(x)
        PROVE  TypeOK'
    <2>1. CalledGrows /\ UNCHANGED <<rt, program>>
      BY <1>2, LooperMovesKeep, ThreadStepKeeps, ZenonT(30)
    <2> QED BY <1>0, <2>1, SMTT(30) DEF TypeOK, CalledGrows
  <1>3. ASSUME fire \/ network_only \/ \E u \in Users : bulk_post(u) \/ shutdown_by_owner(u)
        PROVE  TypeOK'
    <2>1. UNCHANGED <<called, rt, program>>
      BY <1>3, Zenon DEF fire, network_only, bulk_post, shutdown_by_owner, manual_only, thread_only
    <2> QED BY <1>0, <2>1, SMTT(30) DEF TypeOK
  <1>4. ASSUME \/ shutdown_timer_queue \/ shutdown_thread_executor
               \/ shutdown_manual_executor \/ join_io_pool
        PROVE  TypeOK'
    BY <1>0, <1>4, SMTT(30) DEF TypeOK, shutdown_timer_queue, shutdown_thread_executor,
                      shutdown_manual_executor, join_io_pool
  <1> QED BY <1>1, <1>2, <1>3, <1>4, NextCases, Zenon

\* The destructor begins with the next part when it has finished the one before, and
\* nobody else touches what it waits for.
LEMMA RuntimePartsInOrder ==
    ASSUME Inv, Next
    PROVE  PartsInOrder'
  <1>0. PartsInOrder /\ TypeOK
    BY SMTT(30) DEF Inv
  <1>a. /\ "main" \in Callers /\ "timer_thread" \in Callers
        /\ \A u \in Users : u \in Callers /\ u # "main" /\ u # "timer_thread"
    BY TasksAssumption, SMTT(30) DEF Callers
  <1>b. /\ tq_shutter = "out" <=> ~tq_atomic_abort
        /\ thr_shutter = "out" <=> ~thr_atomic_abort
    BY SMTT(30) DEF Inv, Timer!Inv, Timer!ShutdownInOrder, Thread!Inv, Thread!ShutdownInOrder
  <1>c. calling \in [Callers -> {"idle", "notify", "abort", "sd_notify", "clear"}]
    BY SMTT(30) DEF Inv, Manual!Inv, Manual!TypeOK
  <1>1. ASSUME TimerMoves
        PROVE  PartsInOrder'
    BY <1>0, <1>1, TimerMovesKeep, SMTT(30) DEF PartsInOrder, manual_vars, thread_vars
  <1>2. ASSUME fire
        PROVE  PartsInOrder'
    <2>1. UNCHANGED tq_shutter /\ UNCHANGED rt
      BY <1>2, FireIsStep, FireKeeps, ZenonT(30) DEF fire, Timer!fire
    <2>2. UNCHANGED <<thr_shutter, man_atomic_abort>> /\ calling'["main"] = calling["main"]
          /\ calling'["timer_thread"] \in {"idle", "notify"}
      <3>1. CASE UNCHANGED thread_vars
                 /\ Manual!enqueue("timer_thread", <<<<tq_firing, fires[tq_firing] + 1>>>>)
        BY <1>a, <3>1, EnqueueKeeps, SMTT(30) DEF thread_vars
      <3>2. CASE UNCHANGED manual_vars
                 /\ Thread!enqueue({<<tq_firing, fires[tq_firing] + 1>>})
        BY <1>0, <3>2, EnqueueKeeps, Zenon DEF manual_vars, PartsInOrder
      <3> QED BY <1>2, <3>1, <3>2, FireIsStep, Zenon
    <2> QED BY <1>0, <2>1, <2>2, SMTT(30) DEF PartsInOrder
  <1>3. ASSUME NEW u \in Users, bulk_post(u)
        PROVE  PartsInOrder'
    <2>1. UNCHANGED <<tq_shutter, rt>>
      BY <1>3, ZenonT(30) DEF bulk_post, manual_only, thread_only, timer_vars
    <2>2. UNCHANGED <<thr_shutter, man_atomic_abort>> /\ calling'["main"] = calling["main"]
          /\ calling'["timer_thread"] = calling["timer_thread"]
      <3>1. CASE UNCHANGED thread_vars /\ Manual!enqueue(u, Posts)
        BY <1>a, <3>1, EnqueueKeeps, SMTT(30) DEF thread_vars
      <3>2. CASE UNCHANGED manual_vars /\ Thread!enqueue(posted)
        BY <3>2, EnqueueKeeps, Zenon DEF manual_vars
      <3> QED BY <1>3, <3>1, <3>2, PostsAreFresh, ZenonT(30)
    <2> QED BY <1>0, <2>1, <2>2, SMTT(30) DEF PartsInOrder
  <1>4. ASSUME NEW u \in Users, shutdown_by_owner(u)
        PROVE  PartsInOrder'
    <2>1. UNCHANGED <<tq_shutter, thr_shutter, rt>> /\ man_atomic_abort'
      BY <1>4, SMTT(30) DEF shutdown_by_owner, manual_only, timer_vars, thread_vars, Manual!shutdown
    <2>2. calling'["main"] = calling["main"] /\ calling'["timer_thread"] = calling["timer_thread"]
      BY <1>4, <1>a, <1>c, SMTT(30) DEF shutdown_by_owner, Manual!shutdown
    <2> QED BY <1>0, <2>1, <2>2, SMTT(30) DEF PartsInOrder
  <1>5. ASSUME NEW l \in Loopers, LooperMoves(l)
        PROVE  PartsInOrder'
    BY <1>0, <1>5, LooperMovesKeep, ZenonT(30) DEF PartsInOrder, timer_vars, thread_vars
  <1>6. ASSUME NEW c \in Callers, CallerMoves(c)
        PROVE  PartsInOrder'
    <2>1. UNCHANGED <<tq_shutter, thr_shutter, rt, man_atomic_abort>>
      BY <1>6, CallerMovesKeep, ZenonT(30) DEF timer_vars, thread_vars
    <2>2. /\ calling["main"] = "idle" => calling'["main"] = "idle"
          /\ calling["timer_thread"] \in {"idle", "notify"} =>
                calling'["timer_thread"] \in {"idle", "notify"}
      BY <1>6, <1>a, CallerMovesKeep, ZenonT(30)
    <2> QED BY <1>0, <2>1, <2>2, SMTT(30) DEF PartsInOrder
  <1>7. ASSUME NEW x \in Firings \cup posted, thread_step(x)
        PROVE  PartsInOrder'
    BY <1>0, <1>7, ThreadStepKeeps, ZenonT(30) DEF PartsInOrder, timer_vars, manual_vars
  <1>8. ASSUME ShutterMoves
        PROVE  PartsInOrder'
    BY <1>0, <1>8, ShutterMovesKeep, SMTT(30) DEF PartsInOrder, timer_vars, manual_vars
  <1>9. ASSUME network_only
        PROVE  PartsInOrder'
    BY <1>0, <1>9, SMTT(30) DEF PartsInOrder, network_only, timer_vars, manual_vars, thread_vars
  <1>10. ASSUME shutdown_timer_queue
         PROVE  PartsInOrder'
    BY <1>0, <1>10, SMTT(30)
    DEF PartsInOrder, shutdown_timer_queue, Timer!shutdown, manual_vars, thread_vars
  <1>11. ASSUME shutdown_thread_executor
         PROVE  PartsInOrder'
    BY <1>0, <1>11, SMTT(30)
    DEF PartsInOrder, shutdown_thread_executor, Thread!shutdown, manual_vars, timer_vars
  <1>12. ASSUME shutdown_manual_executor
         PROVE  PartsInOrder'
    <2>1. UNCHANGED <<tq_shutter, thr_shutter>> /\ rt = "thread_executor" /\ rt' = "manual_executor"
          /\ thr_shutter = "returned"
      BY <1>12, SMTT(30) DEF shutdown_manual_executor, timer_vars, thread_vars
    <2>2. man_atomic_abort' /\ calling'["timer_thread"] = calling["timer_thread"]
      BY <1>12, <1>a, <1>c, SMTT(30) DEF shutdown_manual_executor, Manual!shutdown, manual_vars
    <2> QED BY <1>0, <2>1, <2>2, SMTT(30) DEF PartsInOrder
  <1>13. ASSUME join_io_pool
         PROVE  PartsInOrder'
    BY <1>0, <1>13, SMTT(30) DEF PartsInOrder, join_io_pool, timer_vars, manual_vars, thread_vars
  <1> QED
    BY <1>1, <1>2, <1>3, <1>4, <1>5, <1>6, <1>7, <1>8, <1>9, <1>10, <1>11, <1>12, <1>13,
       NextCases, Zenon

\* TasksAreFresh depends on the firings and on which tasks are new.
LEMMA NewsKept ==
    ASSUME TasksAreFresh, UNCHANGED fires,
           \A x \in Firings \cup posted : man_status'[x] = "new" <=> man_status[x] = "new",
           \A x \in Firings \cup posted : thr_status'[x] = "new" <=> thr_status[x] = "new"
    PROVE  TasksAreFresh'
  <1>1. Posts[1] \in posted
    BY TasksAssumption DEF posted
  <1> QED BY <1>1, Zenon DEF TasksAreFresh

\* A firing is a new task because the counter of its timer is, and the posted tasks
\* come in one call.
LEMMA RuntimeTasksAreFresh ==
    ASSUME Inv, Next
    PROVE  TasksAreFresh'
  <1>0. TasksAreFresh
    BY SMTT(30) DEF Inv
  <1>a. Posts[1] \in posted /\ posted \cap Firings = {} /\ posted = Manual!elements(Posts)
    BY TasksAssumption, SMTT(30) DEF posted, Manual!elements
  <1>b. /\ \A x \in Firings : x[2] > fires[x[1]] => man_status[x] = "new" /\ thr_status[x] = "new"
        /\ man_status[Posts[1]] = "new" => \A x \in posted : man_status[x] = "new"
        /\ thr_status[Posts[1]] = "new" => \A x \in posted : thr_status[x] = "new"
    BY <1>0, SMTT(30) DEF TasksAreFresh
  <1>1. ASSUME TimerMoves
        PROVE  TasksAreFresh'
    BY <1>0, <1>1, TimerMovesKeep, NewsKept, ZenonT(30) DEF manual_vars, thread_vars
  <1>2. ASSUME fire
        PROVE  TasksAreFresh'
    <2> DEFINE t == tq_firing
               n == fires[tq_firing] + 1
               x == <<t, n>>
    <2>1. x \in Firings /\ t \in Timers
      BY <1>2, FiringIsFresh, ZenonT(30) DEF fire
    <2>2. fires \in [Timers -> Nat]
      BY SMTT(30) DEF Inv, Timer!Inv, Timer!TypeOK, Timer!TimerTypes
    <2>3. \A s \in Timers : fires'[s] = IF s = t THEN n ELSE fires[s]
      <3>1. man_abort \in BOOLEAN /\ thr_abort \in BOOLEAN
        BY DEF Inv, Manual!Inv, Manual!TypeOK, Thread!Inv, Thread!TypeOK
      <3> QED BY <1>2, <3>1, FireIsStep, FireKeeps, SMTT(30)
    <2>4. /\ \A y \in Firings \cup posted : y # x => man_status'[y] = man_status[y]
          /\ \A y \in Firings \cup posted : y # x => thr_status'[y] = thr_status[y]
      <3>0. Manual!elements(<<x>>) = {x} /\ "timer_thread" \in Callers
        BY OneElement, Zenon DEF Callers
      <3> HIDE DEF x
      <3>1. CASE UNCHANGED thread_vars /\ Manual!enqueue("timer_thread", <<x>>)
        BY <3>0, <3>1, EnqueueKeeps, SMTT(30) DEF thread_vars
      <3>2. CASE UNCHANGED manual_vars /\ Thread!enqueue({x})
        <4>1. \A y \in Firings \cup posted : y \notin {x} => thr_status'[y] = thr_status[y]
          BY <3>2, EnqueueKeeps, Zenon
        <4> QED BY <3>2, <4>1, Zenon DEF manual_vars
      <3> QED BY <1>2, <3>1, <3>2, FireIsStep, Zenon DEF x
    <2>5. ASSUME NEW y \in Firings, y[2] > fires'[y[1]]
          PROVE  man_status'[y] = "new" /\ thr_status'[y] = "new"
      <3>1. y[1] \in Timers /\ y[2] \in Nat /\ y = <<y[1], y[2]>>
        BY SMTT(30) DEF Firings
      <3>2. y[2] > fires[y[1]] /\ y # x
        <4>1. CASE y[1] = t
          BY <2>1, <2>2, <2>3, <2>5, <3>1, <4>1, SMTT(30)
        <4>2. CASE y[1] # t
          BY <2>3, <2>5, <3>1, <4>2, SMTT(30)
        <4> QED BY <4>1, <4>2, SMTT(30)
      <3> HIDE DEF x
      <3> QED BY <1>b, <2>4, <3>2, Zenon
    <2>6. \A y \in posted : man_status'[y] = man_status[y] /\ thr_status'[y] = thr_status[y]
      <3> HIDE DEF x
      <3> QED BY <1>a, <2>1, <2>4, SMTT(30)
    <2> QED BY <1>a, <1>b, <2>5, <2>6, ZenonT(30) DEF TasksAreFresh
  <1>3. ASSUME NEW u \in Users, bulk_post(u)
        PROVE  TasksAreFresh'
    <2>0. UNCHANGED fires /\ u \in Callers
      BY <1>3, ZenonT(30) DEF bulk_post, manual_only, thread_only, timer_vars, Callers
    <2>1. CASE UNCHANGED thread_vars /\ Manual!enqueue(u, Posts)
      <3>1. /\ \A y \in Firings : man_status'[y] = man_status[y]
            /\ man_status'[Posts[1]] # "new" /\ thr_status' = thr_status
        BY <1>a, <2>0, <2>1, EnqueueKeeps, ZenonT(30) DEF thread_vars
      <3> QED BY <1>b, <2>0, <3>1, ZenonT(30) DEF TasksAreFresh
    <2>2. CASE UNCHANGED manual_vars /\ Thread!enqueue(posted)
      <3>1. /\ \A y \in Firings : thr_status'[y] = thr_status[y]
            /\ thr_status'[Posts[1]] # "new" /\ man_status' = man_status
        BY <1>a, <2>2, EnqueueKeeps, ZenonT(30) DEF manual_vars
      <3> QED BY <1>b, <2>0, <3>1, ZenonT(30) DEF TasksAreFresh
    <2> QED BY <1>3, <2>1, <2>2, PostsAreFresh, ZenonT(30)
  <1>4. ASSUME NEW u \in Users, shutdown_by_owner(u)
        PROVE  TasksAreFresh'
    BY <1>0, <1>4, NewsKept, ZenonT(30)
    DEF shutdown_by_owner, manual_only, Manual!shutdown, timer_vars, thread_vars
  <1>5. ASSUME NEW l \in Loopers, LooperMoves(l)
        PROVE  TasksAreFresh'
    BY <1>0, <1>5, LooperMovesKeep, NewsKept, ZenonT(30) DEF timer_vars, thread_vars
  <1>6. ASSUME NEW c \in Callers, CallerMoves(c)
        PROVE  TasksAreFresh'
    BY <1>0, <1>6, CallerMovesKeep, NewsKept, ZenonT(30) DEF timer_vars, thread_vars
  <1>7. ASSUME NEW x \in Firings \cup posted, thread_step(x)
        PROVE  TasksAreFresh'
    BY <1>0, <1>7, ThreadStepKeeps, NewsKept, ZenonT(30) DEF timer_vars, manual_vars
  <1>8. ASSUME ShutterMoves
        PROVE  TasksAreFresh'
    <2>1. UNCHANGED <<fires, man_status, thr_status>>
      BY <1>8, ShutterMovesKeep, ZenonT(30) DEF timer_vars, manual_vars
    <2> QED BY <1>0, <2>1, NewsKept, Zenon
  <1>9. ASSUME \/ network_only \/ join_io_pool \/ shutdown_timer_queue
               \/ shutdown_thread_executor \/ shutdown_manual_executor
        PROVE  TasksAreFresh'
    <2>1. UNCHANGED <<fires, man_status, thr_status>>
      BY <1>9, Zenon
      DEF network_only, join_io_pool, shutdown_timer_queue, shutdown_thread_executor,
          shutdown_manual_executor, timer_vars, manual_vars, thread_vars, Timer!shutdown,
          Manual!shutdown, Thread!shutdown, Timer!timerVars
    <2> QED BY <1>0, <2>1, NewsKept, Zenon
  <1> QED
    BY <1>1, <1>2, <1>3, <1>4, <1>5, <1>6, <1>7, <1>8, <1>9, NextCases, Zenon

\* A step fires a timer and calls nothing, or it fires none and calls at most one.
LEMMA FiresOrCalls ==
    ASSUME Inv, Next
    PROVE  fire \/ (alive /\ alive' /\ UNCHANGED <<fires, late>> /\ CalledGrows)
  <1>1. ASSUME TimerMoves
        PROVE  alive /\ alive' /\ UNCHANGED <<fires, late>> /\ CalledGrows
    BY <1>1, TimerMovesKeep, SMTT(30) DEF CalledGrows
  <1>2. ASSUME NEW u \in Users, bulk_post(u) \/ shutdown_by_owner(u)
        PROVE  alive /\ alive' /\ UNCHANGED <<fires, late>> /\ CalledGrows
    BY <1>2, Zenon
    DEF bulk_post, shutdown_by_owner, manual_only, thread_only, timer_vars, alive, CalledGrows
  <1>3. ASSUME NEW l \in Loopers, LooperMoves(l)
        PROVE  alive /\ alive' /\ UNCHANGED <<fires, late>> /\ CalledGrows
    BY <1>3, LooperMovesKeep, ZenonT(30) DEF timer_vars, alive
  <1>4. ASSUME NEW c \in Callers, CallerMoves(c)
        PROVE  alive /\ alive' /\ UNCHANGED <<fires, late>> /\ CalledGrows
    BY <1>4, CallerMovesKeep, ZenonT(30) DEF timer_vars, alive, CalledGrows
  <1>5. ASSUME NEW x \in Firings \cup posted, thread_step(x)
        PROVE  alive /\ alive' /\ UNCHANGED <<fires, late>> /\ CalledGrows
    BY <1>5, ThreadStepKeeps, SMTT(30) DEF timer_vars, alive
  <1>6. ASSUME ShutterMoves
        PROVE  alive /\ alive' /\ UNCHANGED <<fires, late>> /\ CalledGrows
    BY <1>6, ShutterMovesKeep, ZenonT(30) DEF timer_vars, alive, CalledGrows
  <1>7. ASSUME \/ network_only \/ join_io_pool \/ shutdown_thread_executor
               \/ shutdown_manual_executor \/ shutdown_timer_queue
        PROVE  alive /\ alive' /\ UNCHANGED <<fires, late>> /\ CalledGrows
    BY <1>7, Zenon
    DEF network_only, join_io_pool, shutdown_timer_queue, shutdown_thread_executor,
        shutdown_manual_executor, timer_vars, Timer!shutdown, Timer!timerVars, alive, CalledGrows
  <1> QED BY <1>1, <1>2, <1>3, <1>4, <1>5, <1>6, <1>7, NextCases, Zenon

\* The firings called before and after a step have happened.
LEMMA RuntimeCalledHaveFired ==
    ASSUME Inv, Next
    PROVE  CalledHaveFired'
  <1>0. CalledHaveFired /\ TasksAreFresh /\ TypeOK
    BY SMTT(30) DEF Inv
  <1>a. fires \in [Timers -> Nat]
    BY DEF Inv, Timer!Inv, Timer!TypeOK, Timer!TimerTypes
  <1>b. \A x \in Firings : x[1] \in Timers /\ x[2] \in Nat
    BY SMTT(30) DEF Firings
  <1>1. CASE fire
    <2>1. UNCHANGED called
      BY <1>1, SMTT(30) DEF fire
    <2>2. man_abort \in BOOLEAN /\ thr_abort \in BOOLEAN
      BY DEF Inv, Manual!Inv, Manual!TypeOK, Thread!Inv, Thread!TypeOK
    <2>3. \A t \in Timers : fires'[t] = IF t = tq_firing THEN fires[t] + 1 ELSE fires[t]
      BY <1>1, <2>2, FireIsStep, FireKeeps, ZenonT(30)
    <2> QED BY <1>0, <1>a, <1>b, <2>1, <2>3, SMTT(30) DEF CalledHaveFired, TypeOK
  <1>2. CASE UNCHANGED fires /\ CalledGrows
    <2>1. \A x \in Firings :
             man_status[x] # "new" \/ thr_status[x] # "new" => x[2] <= fires[x[1]]
      BY <1>0, <1>a, <1>b, SMTT(30) DEF TasksAreFresh
    <2> QED BY <1>0, <1>2, <2>1, SMTT(30) DEF CalledHaveFired, CalledGrows
  <1> QED BY <1>1, <1>2, FiresOrCalls, SMTT(30)

\* The firing that comes late has a number no callable was called for, and a task
\* that starts after cancel() finds the flag raised.
LEMMA RuntimeCancelStopsTimer ==
    ASSUME Inv, Next
    PROVE  CancelStopsTimer'
  <1>0. CancelStopsTimer /\ CalledHaveFired
    BY SMTT(30) DEF Inv
  <1>a. fires \in [Timers -> Nat] /\ late \in [Timers -> Nat]
    BY SMTT(30) DEF Inv, Timer!Inv, Timer!TypeOK, Timer!TimerTypes
  <1>b. \A t \in Timers : late'[t] <= 1
    BY PartsInv, SMTT(30) DEF Timer!Inv, Timer!LateOnce
  <1>1. CASE fire
    <2>1. UNCHANGED called
      BY <1>1 DEF fire
    <2>2. man_abort \in BOOLEAN /\ thr_abort \in BOOLEAN
      BY DEF Inv, Manual!Inv, Manual!TypeOK, Thread!Inv, Thread!TypeOK
    <2>3. /\ \A t \in Timers : fires'[t] = IF t = tq_firing THEN fires[t] + 1 ELSE fires[t]
          /\ \A t \in Timers \ {tq_firing} : late'[t] = late[t]
      BY <1>1, <2>2, FireIsStep, FireKeeps, ZenonT(30)
    <2>4. ASSUME NEW t \in Timers, late'[t] = 1
          PROVE  <<t, fires'[t]>> \notin called
      <3>1. CASE t = tq_firing
        <4>1. fires'[t] = fires[t] + 1 /\ fires[t] \in Nat
          BY <1>a, <2>3, <3>1, SMTT(30)
        <4> QED BY <1>0, <4>1, SMTT(30) DEF CalledHaveFired
      <3>2. CASE t # tq_firing
        BY <1>0, <2>3, <2>4, <3>2, SMTT(30) DEF CancelStopsTimer
      <3> QED BY <3>1, <3>2, SMTT(30)
    <2> QED BY <1>b, <2>1, <2>4, ZenonT(30) DEF CancelStopsTimer
  <1>2. CASE UNCHANGED <<fires, late>> /\ CalledGrows
    <2>1. ASSUME NEW t \in Timers, late[t] = 1
          PROVE  <<t, fires[t]>> \notin called'
      <3>1. cancelled[t]
        BY <2>1, SMTT(30) DEF Inv, Timer!Inv, Timer!LateOnce
      <3>2. <<t, fires[t]>> \notin called
        BY <1>0, <2>1, SMTT(30) DEF CancelStopsTimer
      <3>3. ASSUME NEW x \in Firings, ~cancelled[x[1]]
            PROVE  x # <<t, fires[t]>>
        BY <3>1, <3>3, SMTT(30)
      <3> QED BY <1>2, <3>2, <3>3, SMTT(30) DEF CalledGrows
    <2> QED BY <1>b, <1>2, <2>1, ZenonT(30) DEF CancelStopsTimer
  <1> QED BY <1>1, <1>2, FiresOrCalls, SMTT(30)

\* fire throws into the timer thread only from an executor that its owner shut
\* down: the destructor has not come to any.
LEMMA RuntimeTimerThreadSurvives ==
    ASSUME Inv, Next
    PROVE  TimerThreadSurvives'
  <1>1. CASE fire
    <2>0. man_abort \in BOOLEAN /\ thr_abort \in BOOLEAN
      BY DEF Inv, Manual!Inv, Manual!TypeOK, Thread!Inv, Thread!TypeOK
    <2>1. tq_worker = "fire" /\ UNCHANGED rt
      BY <1>1, SMTT(30) DEF fire
    <2>2. rt \in {"up", "timer_queue"} /\ thr_shutter = "out"
      BY <2>1, SMTT(30) DEF Inv, Timer!Inv, Timer!ShutdownInOrder, PartsInOrder, TypeOK
    <2>3. ~thr_abort /\ (man_abort => man_atomic_abort)
      BY <2>2, SMTT(30) DEF Inv, Thread!Inv, Thread!ShutdownInOrder, Manual!Inv, Manual!OneShutdown
    <2>4. CASE Timer!fire(man_abort)
               /\ Manual!enqueue("timer_thread", <<<<tq_firing, fires[tq_firing] + 1>>>>)
      <3>1. tq_worker' = "terminated" <=> man_abort
        BY <2>0, <2>4, FireKeeps, ZenonT(30)
      <3>2. UNCHANGED man_atomic_abort
        BY <2>4, EnqueueKeeps, ZenonT(30) DEF Callers
      <3> QED BY <2>1, <2>2, <2>3, <3>1, <3>2, SMTT(30) DEF TimerThreadSurvives, alive
    <2>5. CASE Timer!fire(thr_abort)
      <3>1. tq_worker' # "terminated"
        BY <2>0, <2>3, <2>5, FireKeeps, SMTT(30)
      <3> QED BY <3>1, SMTT(30) DEF TimerThreadSurvives, alive
    <2> QED BY <1>1, <2>4, <2>5, FireIsStep, SMTT(30)
  <1>2. CASE alive'
    BY <1>2 DEF TimerThreadSurvives, alive
  <1> QED BY <1>1, <1>2, FiresOrCalls, SMTT(30)

\* The invariant holds when the runtime is made.
LEMMA RuntimeInit == Init => Inv
  <1> SUFFICES ASSUME Init
               PROVE  Inv
    OBVIOUS
  <1>1. Timer!Inv /\ Manual!Inv /\ Thread!Inv
    BY TimerInit, ManualInit, ThreadInit, SMTT(30) DEF Init
  <1>2. TypeOK
    BY SMTT(30) DEF Init, TypeOK
  <1>3. PartsInOrder
    BY SMTT(30) DEF Init, PartsInOrder, Timer!Init, Thread!Init, Manual!Init, Callers
  <1>4. TasksAreFresh
    <2>1. Posts[1] \in posted
      BY TasksAssumption, SMTT(30) DEF posted
    <2> QED BY <2>1, SMTT(30) DEF Init, TasksAreFresh, Manual!Init, Thread!Init
  <1>5. CalledHaveFired
    BY SMTT(30) DEF Init, CalledHaveFired
  <1>6. TimerThreadSurvives
    BY DEF Init, Timer!Init, TimerThreadSurvives, alive
  <1>7. CancelStopsTimer
    <2>1. \A t \in Timers : late[t] = 0
      BY Zenon DEF Init, Timer!Init
    <2>2. 0 <= 1 /\ 0 # 1
      BY SMT
    <2> QED BY <2>1, <2>2, Zenon DEF CancelStopsTimer
  <1> QED BY <1>1, <1>2, <1>3, <1>4, <1>5, <1>6, <1>7, SMTT(30) DEF Inv

\* It is kept when nothing changes.
LEMMA RuntimeStutter == Inv /\ UNCHANGED vars => Inv'
  <1> SUFFICES ASSUME Inv, UNCHANGED vars
               PROVE  Inv'
    OBVIOUS
  <1>1. UNCHANGED <<timer_vars, manual_vars, thread_vars, program, called, rt>>
    BY DEF vars
  <1>2. Timer!Inv' /\ Manual!Inv' /\ Thread!Inv'
    BY <1>1, TimerStutter, ManualStutter, ThreadStutter, SMTT(30) DEF Inv
  <1>3. UNCHANGED <<fires, late, tq_worker, tq_shutter>>
    BY <1>1, SMTT(30) DEF timer_vars
  <1>4. UNCHANGED <<man_status, man_atomic_abort, calling, thr_status, thr_shutter>>
    BY <1>1, SMTT(30) DEF manual_vars, thread_vars
  <1>5. TypeOK' /\ CalledHaveFired' /\ CancelStopsTimer' /\ TimerThreadSurvives'
    BY <1>1, <1>3, <1>4, Zenon
    DEF Inv, TypeOK, CalledHaveFired, CancelStopsTimer, TimerThreadSurvives, alive
  <1>6. TasksAreFresh'
    BY <1>3, <1>4, NewsKept, Zenon DEF Inv
  <1>7. PartsInOrder'
    BY <1>1, <1>3, <1>4, SMTT(30) DEF Inv, PartsInOrder
  <1> QED BY <1>2, <1>5, <1>6, <1>7, SMTT(30) DEF Inv

\* The inductive invariant: the invariants of the timer queue and of the two
\* executors, and what ties them to the destructor and to one another.
THEOREM RuntimeInv == Spec => []Inv
  <1>1. Inv /\ [Next]_vars => Inv'
    <2> SUFFICES ASSUME Inv, [Next]_vars
                 PROVE  Inv'
      BY SMTT(30)
    <2>1. CASE Next
      BY SMTT(30), <2>1, PartsInv, RuntimeTypeOK, RuntimePartsInOrder, RuntimeTasksAreFresh,
         RuntimeCalledHaveFired, RuntimeCancelStopsTimer, RuntimeTimerThreadSurvives
      DEF Inv
    <2>2. CASE UNCHANGED vars
      BY <2>2, RuntimeStutter, SMTT(30)
    <2> QED BY <2>1, <2>2, SMTT(30)
  <1> QED BY <1>1, RuntimeInit, PTL DEF Spec

\* A timer fires at most once after cancel() has raised its flag, and its callable
\* is not called for that firing.
THEOREM CancelIsFinal == Spec => []CancelStopsTimer
  <1>1. Inv => CancelStopsTimer
    BY SMTT(30) DEF Inv
  <1> QED BY <1>1, RuntimeInv, PTL

\* The timer thread is ended by an exception of a post only if the application shut
\* the executor of a timer down on its own; ~runtime, which joins the thread before
\* it comes to the executors, never does this.
THEOREM DestructorSparesTimerThread == Spec => []TimerThreadSurvives
  <1>1. Inv => TimerThreadSurvives
    BY SMTT(30) DEF Inv
  <1> QED BY <1>1, RuntimeInv, PTL

\* Both shutdowns have returned when the destructor has, and with them the threads.
LEMMA ThreadsJoined ==
    ASSUME Inv, rt = "gone"
    PROVE  /\ tq_worker \in {"none", "exited"}
           /\ tq_timers = {} /\ Timer!requested("add") = {}
           /\ \A x \in Firings \cup posted : thread[x] \in {"none", "joined"}
           /\ \A x \in Firings \cup posted : thr_status[x] # "queued"
  <1>1. tq_shutter = "returned" /\ thr_shutter = "returned"
    BY DEF Inv, PartsInOrder
  <1>2. tq_worker \in {"none", "exited"}
    BY <1>1, SMTT(30) DEF Inv, Timer!Inv, Timer!ShutdownInOrder
  <1>3. tq_timers = {} /\ Timer!requested("add") = {}
    BY <1>2, SMTT(30) DEF Inv, Timer!Inv, Timer!NoThreadNoTimers
  <1>4. \A x \in Firings \cup posted : thread[x] \in {"none", "joined"}
    BY <1>1, SMTT(30) DEF Inv, Thread!Inv, Thread!AllJoined
  <1>5. \A x \in Firings \cup posted : thr_status[x] # "queued"
    BY <1>4, SMTT(30) DEF Inv, Thread!Inv, Thread!WorkersAtWork
  <1> QED BY <1>2, <1>3, <1>4, <1>5, SMTT(30)

\* Nobody is inside shutdown of the manual executor, which has begun: so it is
\* through, and what was queued is destroyed.
LEMMA QueueEmptied ==
    ASSUME Inv, rt = "gone", \A u \in Users : calling[u] = "idle"
    PROVE  man_tasks = <<>> /\ \A x \in Firings \cup posted : man_status[x] # "queued"
  <1>1. man_atomic_abort
    BY SMTT(30) DEF Inv, PartsInOrder
  <1>2. \A c \in Callers : ~Manual!shutting(c)
    BY SMTT(30) DEF Inv, PartsInOrder, Callers, Manual!shutting
  <1>3. man_abort /\ \A x \in Firings \cup posted : man_status[x] # "queued"
    BY <1>1, <1>2, SMTT(30) DEF Inv, Manual!Inv, Manual!OneShutdown
  <1> QED BY <1>3, SMTT(30) DEF Inv, Manual!Inv, Manual!QueueHoldsQueued

\* When ~runtime has returned, the timer thread has ended, every thread of the thread
\* executor was joined, no executor holds a task and no coroutine of a delay object
\* is left suspended.
THEOREM DestructorLeavesNothing == Spec => []NothingOutlivesRuntime
  <1>1. Inv => NothingOutlivesRuntime
    <2> SUFFICES ASSUME Inv, rt = "gone", \A u \in Users : calling[u] = "idle"
                 PROVE  /\ tq_worker \in {"none", "exited"}
                        /\ \A x \in DOMAIN thread : thread[x] \in {"none", "joined"}
                        /\ man_tasks = <<>> /\ \A x \in DOMAIN thread : thr_status[x] # "queued"
                        /\ \A t \in Delays : ~pending(t)
      BY Zenon DEF NothingOutlivesRuntime
    <2>1. DOMAIN thread = Firings \cup posted
      BY SMTT(30) DEF Inv, Thread!Inv, Thread!TypeOK
    <2>2. ASSUME NEW t \in Delays
          PROVE  ~pending(t)
      <3>1. t \in Timers /\ t \in OneShot
        BY PartsAssumption, SMTT(30)
      <3>2. ASSUME fires[t] = 1
            PROVE  <<t, 1>> \in Firings
        <4>1. 1 <= MaxFires
          BY <3>1, <3>2, SMTT(30) DEF Inv, Timer!Inv, Timer!QueuedOnce
        <4>2. 1 \in 1..MaxFires
          BY <4>1, PartsAssumption, SMTT(30)
        <4> QED BY <3>1, <4>2, SMTT(30) DEF Firings
      <3>3. fires[t] = 1 => man_status[<<t, 1>>] # "queued" /\ thr_status[<<t, 1>>] # "queued"
        BY <3>2, ThreadsJoined, QueueEmptied, SMTT(30)
      <3> QED BY <3>3, ThreadsJoined, SMTT(30) DEF pending
    <2> QED BY <2>1, <2>2, ThreadsJoined, QueueEmptied, Zenon
  <1> QED BY <1>1, RuntimeInv, PTL
-----------------------------------------------------------------------------
\* The steps of the executors are steps of their contract.

\* A step of the manual executor is one of the contract, or changes nothing in it.
LEMMA ManualKeepsContract ==
    ASSUME Manual!Inv, ManualStep
    PROVE  [Manual!Contract!Next]_<<man_status, man_atomic_abort, man_abort>>
  <1>0. Manual!TypeOK /\ Manual!QueueHoldsQueued /\ Manual!OneRunner /\ Manual!OneShutdown
    BY SMTT(30) DEF Manual!Inv
  <1>a. man_status \in [Firings \cup posted -> Manual!Contract!Statuses]
        /\ man_status' \in [Firings \cup posted -> Manual!Contract!Statuses]
    BY <1>0, ManualTypeOK, SMTT(30) DEF Manual!TypeOK
  <1>b. /\ ~man_abort => \A t \in Firings \cup posted :
                            man_status[t] = "queued" <=> t \in Manual!elements(man_tasks)
        /\ Manual!distinct(man_tasks)
    BY <1>0, SMTT(30) DEF Manual!QueueHoldsQueued
  <1>c. ASSUME NEW x \in Firings \cup posted, NEW to,
               \A t \in Firings \cup posted : man_status'[t] = IF t = x THEN to ELSE man_status[t]
        PROVE  man_status' = [man_status EXCEPT ![x] = to]
    BY <1>a, <1>c, SMTT(30)
  <1>1. ASSUME NEW l \in Loopers, Rests(l)
        PROVE  UNCHANGED <<man_status, man_atomic_abort, man_abort>>
    BY <1>1, Zenon DEF Rests
  <1>2. ASSUME NEW l \in Loopers, Pops(l)
        PROVE  Manual!Contract!Start
    <2>1. Head(man_tasks) \in Firings \cup posted /\ man_status[Head(man_tasks)] = "queued"
      <3>1. man_tasks \in Seq(Firings \cup posted)
        BY <1>0, SMTT(30) DEF Manual!TypeOK
      <3> QED BY <1>0, <1>2, <1>b, <3>1, ElementsOfTail, HeadIsTask, SMTT(30) DEF Pops
    <2>2. man_status' = [man_status EXCEPT ![Head(man_tasks)] = "running"]
      BY <1>2, <1>c, <2>1, PoppedRuns, SMTT(30)
    <2>3. ~man_abort /\ UNCHANGED <<man_atomic_abort, man_abort>>
      BY <1>2, Zenon DEF Pops
    <2> QED BY <2>1, <2>2, <2>3, Zenon DEF Manual!Contract!Start, Manual!Contract!MoveOne
  <1>3. ASSUME NEW l \in Loopers, Manual!task_returns(l)
        PROVE  Manual!Contract!Finish
    <2>1. looper[l].task \in Firings \cup posted /\ man_status[looper[l].task] = "running"
      BY <1>0, <1>3, SMTT(30) DEF Manual!OneRunner, Manual!task_returns
    <2>2. \A t \in Firings \cup posted :
             man_status'[t] = IF t = looper[l].task THEN "done" ELSE man_status[t]
      BY <1>3, ManualBecomes, SMTT(30) DEF Manual!task_returns
    <2>3. man_status' = [man_status EXCEPT ![looper[l].task] = "done"]
      BY <1>c, <2>1, <2>2, SMTT(30)
    <2>4. UNCHANGED <<man_atomic_abort, man_abort>>
      BY <1>3, SMTT(30) DEF Manual!task_returns
    <2> QED BY <2>1, <2>3, <2>4, Zenon DEF Manual!Contract!Finish, Manual!Contract!MoveOne
  <1>4. ASSUME NEW l \in Loopers, Manual!clear(l)
        PROVE  Manual!Contract!Destroy
    <2>1. \A t \in Firings \cup posted :
             man_status'[t] = IF t \in Manual!elements(man_tasks) THEN "destroyed"
                              ELSE man_status[t]
      BY <1>4, ManualBecomes, SMTT(30) DEF Manual!clear
    <2>2. ~man_abort /\ UNCHANGED <<man_atomic_abort, man_abort>>
      BY <1>4, SMTT(30) DEF Manual!clear
    <2> QED BY <1>a, <1>b, <2>1, <2>2, SMTT(30) DEF Manual!Contract!Destroy, Manual!Contract!Move
  <1>5. ASSUME NEW c \in Callers, NEW tasks \in Seq(Firings \cup posted),
               \A x \in Manual!elements(tasks) : man_status[x] = "new",
               Manual!enqueue(c, tasks)
        PROVE  Manual!Contract!Accept \/ Manual!Contract!Refuse
    <2>1. UNCHANGED <<man_atomic_abort, man_abort>>
      BY <1>5, SMTT(30) DEF Manual!enqueue
    <2>2. CASE man_abort
      <3>1. \A t \in Firings \cup posted :
               man_status'[t] = IF t \in Manual!elements(tasks) THEN "refused" ELSE man_status[t]
        BY <1>5, <2>2, ManualBecomes, SMTT(30) DEF Manual!enqueue
      <3>2. man_atomic_abort
        BY <1>0, <2>2, SMTT(30) DEF Manual!OneShutdown
      <3> QED BY <1>a, <1>5, <2>1, <3>1, <3>2, SMTT(30) DEF Manual!Contract!Refuse, Manual!Contract!Move
    <2>3. CASE ~man_abort
      <3>1. \A t \in Firings \cup posted :
               man_status'[t] = IF t \in Manual!elements(tasks) THEN "queued" ELSE man_status[t]
        BY <1>5, <2>3, ManualBecomes, SMTT(30) DEF Manual!enqueue
      <3> QED BY <1>a, <1>5, <2>1, <2>3, <3>1, SMTT(30) DEF Manual!Contract!Accept, Manual!Contract!Move
    <2> QED BY <2>2, <2>3, SMTT(30)
  <1>6. ASSUME NEW c \in Callers, Manual!notify_all(c)
        PROVE  UNCHANGED <<man_status, man_atomic_abort, man_abort>>
    BY <1>6, SMTT(30) DEF Manual!notify_all
  <1>7. ASSUME NEW c \in Callers, Manual!shutdown(c) \/ Manual!set_abort(c)
        PROVE  Manual!Contract!Shutdown
    <2>1. man_abort \in BOOLEAN
      BY <1>0, SMTT(30) DEF Manual!TypeOK
    <2>2. /\ man_atomic_abort' /\ (man_abort => man_abort') /\ man_abort' \in BOOLEAN
          /\ UNCHANGED man_status
      BY <1>0, <1>7, <2>1, ZenonT(30) DEF Manual!shutdown, Manual!set_abort, Manual!OneShutdown, Manual!shutting
    <2> QED BY <2>2, Zenon DEF Manual!Contract!Shutdown
  <1>8. ASSUME NEW c \in Callers, Manual!destroy_tasks(c)
        PROVE  Manual!Contract!Destroy
    <2>1. \A t \in Firings \cup posted :
             man_status'[t] = IF man_status[t] = "queued" THEN "destroyed" ELSE man_status[t]
      BY <1>8, ManualBecomes, SMTT(30) DEF Manual!destroy_tasks
    <2>2. UNCHANGED <<man_atomic_abort, man_abort>>
      BY <1>8 DEF Manual!destroy_tasks
    <2> QED BY <1>a, <2>1, <2>2, SMTT(30) DEF Manual!Contract!Destroy, Manual!Contract!Move
  <1> QED
    BY <1>0, <1>1, <1>2, <1>3, <1>4, <1>5, <1>6, <1>7, <1>8, LooperActs, Zenon
    DEF ManualStep, Manual!Contract!Next

\* A step of the thread executor is one of the contract, or changes nothing in it.
LEMMA ThreadKeepsContract ==
    ASSUME Thread!Inv, ThreadStep
    PROVE  [Thread!Contract!Next]_<<thr_status, thr_atomic_abort,
                                    thr_shutter \in {"join", "returned"}>>
  <1>0. Thread!TypeOK /\ Thread!WorkersAtWork /\ Thread!ShutdownInOrder
    BY SMTT(30) DEF Thread!Inv
  <1>a. thr_status \in [Firings \cup posted -> Thread!Contract!Statuses]
        /\ thr_status' \in [Firings \cup posted -> Thread!Contract!Statuses]
    BY <1>0, ThreadTypeOK, SMTT(30) DEF Thread!TypeOK
  <1> DEFINE closed == thr_shutter \in {"join", "returned"}
             same == UNCHANGED <<thr_atomic_abort, closed>>
  <1>1. ASSUME NEW tasks \in SUBSET (Firings \cup posted), \A x \in tasks : thr_status[x] = "new",
               Thread!enqueue(tasks)
        PROVE  Thread!Contract!Accept \/ Thread!Contract!Refuse
    <2>1. same
      BY <1>1, SMTT(30) DEF Thread!enqueue
    <2>2. CASE thr_abort
      <3>1. \A t \in Firings \cup posted :
               thr_status'[t] = IF t \in tasks THEN "refused" ELSE thr_status[t]
        BY <1>1, <2>2, SMTT(30) DEF Thread!enqueue, Thread!become
      <3>2. thr_atomic_abort
        BY <1>0, <2>2, SMTT(30) DEF Thread!ShutdownInOrder
      <3> QED BY <1>a, <1>1, <2>1, <3>1, <3>2, SMTT(30) DEF Thread!Contract!Refuse, Thread!Contract!Move
    <2>3. CASE ~thr_abort
      <3>1. \A t \in Firings \cup posted :
               thr_status'[t] = IF t \in tasks THEN "queued" ELSE thr_status[t]
        BY <1>1, <2>3, SMTT(30) DEF Thread!enqueue, Thread!become
      <3>2. ~closed
        BY <1>0, <2>3, SMTT(30) DEF Thread!ShutdownInOrder
      <3> QED BY <1>a, <1>1, <2>1, <3>1, <3>2, SMTT(30) DEF Thread!Contract!Accept, Thread!Contract!Move
    <2> QED BY <2>2, <2>3, SMTT(30)
  <1>2. ASSUME NEW t \in Firings \cup posted, Thread!task_starts(t)
        PROVE  Thread!Contract!Start
    <2>1. thr_status[t] = "queued" /\ t \in thr_workers
      BY <1>0, <1>2, SMTT(30) DEF Thread!WorkersAtWork, Thread!task_starts
    <2>2. ~closed
      BY <1>0, <2>1, SMTT(30) DEF Thread!ShutdownInOrder
    <2>3. same /\ thr_status' = [thr_status EXCEPT ![t] = "running"]
      BY <1>2, SMTT(30) DEF Thread!task_starts
    <2> QED BY <2>1, <2>2, <2>3, Zenon DEF Thread!Contract!Start, Thread!Contract!MoveOne
  <1>3. ASSUME NEW t \in Firings \cup posted, Thread!retire_worker(t)
        PROVE  Thread!Contract!Finish
    <2>1. thr_status[t] = "running"
      BY <1>0, <1>3, SMTT(30) DEF Thread!WorkersAtWork, Thread!retire_worker
    <2>2. same /\ thr_status' = [thr_status EXCEPT ![t] = "done"]
      BY <1>3, SMTT(30) DEF Thread!retire_worker
    <2> QED BY <2>1, <2>2, Zenon DEF Thread!Contract!Finish, Thread!Contract!MoveOne
  <1>4. ASSUME \/ \E t \in Firings \cup posted : Thread!notify_one(t) \/ Thread!join(t)
               \/ Thread!join_last_retired
        PROVE  UNCHANGED thr_status /\ same
    BY <1>4, SMTT(30) DEF Thread!notify_one, Thread!join, Thread!join_last_retired
  <1>5. ASSUME Thread!shutdown \/ Thread!wait_for_workers
        PROVE  Thread!Contract!Shutdown
    <2>1. thr_atomic_abort' /\ (closed => closed') /\ UNCHANGED thr_status
      BY <1>0, <1>5, SMTT(30) DEF Thread!shutdown, Thread!wait_for_workers, Thread!ShutdownInOrder
    <2>2. closed' \in BOOLEAN
      OBVIOUS
    <2> QED BY <2>1, <2>2, Zenon DEF Thread!Contract!Shutdown
  <1> QED
    BY <1>1, <1>2, <1>3, <1>4, <1>5, Zenon DEF ThreadStep, Thread!Contract!Next

\* The manual executor and the thread executor implement the specification of an
\* executor, whatever the timer queue, the application and ~runtime do with them.
THEOREM ExecutorsImplementContract == Spec => ExecutorsKeepContract
  <1>1. Init => Manual!Contract!Init /\ Thread!Contract!Init
    BY SMTT(30) DEF Init, Manual!Init, Thread!Init, Manual!Contract!Init, Thread!Contract!Init
  <1>2. Inv /\ [Next]_vars =>
            [Manual!Contract!Next]_<<man_status, man_atomic_abort, man_abort>>
    <2> SUFFICES ASSUME Inv, [Next]_vars
                 PROVE  [Manual!Contract!Next]_<<man_status, man_atomic_abort, man_abort>>
      BY SMTT(30)
    <2>1. ManualStep \/ UNCHANGED manual_vars
      BY NextIsPartSteps, SMTT(30) DEF vars
    <2>2. CASE UNCHANGED manual_vars
      BY <2>2, SMTT(30) DEF manual_vars
    <2> QED BY <2>1, <2>2, ManualKeepsContract, SMTT(30) DEF Inv
  <1>3. Inv /\ [Next]_vars =>
            [Thread!Contract!Next]_<<thr_status, thr_atomic_abort,
                                     thr_shutter \in {"join", "returned"}>>
    <2> SUFFICES ASSUME Inv, [Next]_vars
                 PROVE  [Thread!Contract!Next]_<<thr_status, thr_atomic_abort,
                                                 thr_shutter \in {"join", "returned"}>>
      BY SMTT(30)
    <2>1. ThreadStep \/ UNCHANGED thread_vars
      BY NextIsPartSteps, SMTT(30) DEF vars
    <2>2. CASE UNCHANGED thread_vars
      BY <2>2 DEF thread_vars
    <2> QED BY <2>1, <2>2, ThreadKeepsContract, SMTT(30) DEF Inv
  <1> QED
    BY <1>1, <1>2, <1>3, RuntimeInv, PTL
    DEF Spec, ExecutorsKeepContract, Manual!Contract!Spec, Thread!Contract!Spec
=============================================================================
