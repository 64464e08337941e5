------------------------- MODULE RuntimePartsProofs -------------------------
(***************************************************************************)
(* The timer queue, the manual executor and the thread executor as parts   *)
(* of a composition: each has an inductive invariant of its own, kept by   *)
(* every step that the threads of a composition may make it take           *)
(* (TimerStep, ManualStep, ThreadStep), whatever the other parts do.       *)
(***************************************************************************)
EXTENDS RuntimeParts, TLAPS

\* What the threads of a composition do to the timer queue.
TimerStep ==
    \/ \E u \in Users, t \in Timers : Timer!add_timer(u, t) \/ Timer!cancel(u, t)
    \/ \E u \in Users : Timer!remove_internal_timer(u) \/ Timer!notify_one(u)
    \/ \E t \in Timers : Timer!deadline(t) \/ Timer!process_timer(t)
    \/ Timer!work_loop \/ Timer!deadline_wakes \/ Timer!idle_time_out
    \/ \E threw \in BOOLEAN : Timer!fire(threw)
    \/ Timer!shutdown \/ Timer!set_abort \/ Timer!notify_all \/ Timer!join

\* A request at the end of the queue adds its timer to the requested ones.
LEMMA RequestAppended ==
    ASSUME Timer!TypeOK, NEW t \in Timers, NEW what \in {"add", "remove"},
           tq_requests' = Append(tq_requests, <<t, what>>)
    PROVE  Timer!requested("add")' = IF what = "add" THEN Timer!requested("add") \cup {t}
                                                     ELSE Timer!requested("add")
  <1> DEFINE q == tq_requests
             n == Len(q)
  <1>1. /\ q \in Seq(Timers \X {"add", "remove"}) /\ n \in Nat
        /\ \A k \in 1..n : q[k] \in Timers \X {"add", "remove"}
    BY DEF Timer!TypeOK
  <1>2. /\ Len(q') = n + 1
        /\ \A k \in 1..n : q'[k] = q[k]
        /\ q'[n + 1] = <<t, what>>
    BY <1>1
  <1>3. ASSUME NEW s \in Timers
        PROVE  s \in Timer!requested("add")' <=>
                   s \in Timer!requested("add") \/ (what = "add" /\ s = t)
    <2>1. CASE s \in Timer!requested("add")'
      <3>1. PICK k \in 1..(n + 1) : q'[k] = <<s, "add">>
        BY <2>1, <1>2, SMTT(30) DEF Timer!requested
      <3>2. CASE k = n + 1
        <4>1. <<t, what>> = <<s, "add">>
          BY <3>1, <3>2, <1>2
        <4>2. what = "add" /\ s = t
          BY <4>1
        <4> QED BY <4>2, <2>1
      <3>3. CASE k \in 1..n
        <4>1. q[k] = <<s, "add">>
          BY <3>1, <3>3, <1>2
        <4> QED BY <4>1, <3>3, SMTT(30) DEF Timer!requested
      <3> QED BY <3>2, <3>3, <1>1
    <2>2. CASE s \in Timer!requested("add")
      <3>1. PICK k \in 1..n : q[k] = <<s, "add">>
        BY <2>2 DEF Timer!requested
      <3>2. k \in 1..Len(q') /\ q'[k] = <<s, "add">>
        BY <3>1, <1>1, <1>2
      <3> QED BY <3>2, <2>2, SMTT(30) DEF Timer!requested
    <2>3. CASE what = "add" /\ s = t
      <3>1. n + 1 \in 1..Len(q') /\ q'[n + 1] = <<s, "add">>
        BY <2>3, <1>1, <1>2
      <3> QED BY <3>1, <2>3 DEF Timer!requested
    <2> QED BY <2>1, <2>2, <2>3
  <1>4. Timer!requested("add") \subseteq Timers /\ Timer!requested("add")' \subseteq Timers
    BY DEF Timer!requested
  <1> QED
    BY <1>3, <1>4, Zenon

\* A queue that is cleared requests no timer.
LEMMA RequestsCleared == tq_requests' = <<>> => Timer!requested("add")' = {}
  BY DEF Timer!requested

\* The requested timers are those of the queue of requests.
LEMMA RequestsUnchanged == UNCHANGED tq_requests => Timer!requested("add")' = Timer!requested("add")
  BY DEF Timer!requested

\* An empty queue requests no timer.
LEMMA NoRequests == tq_requests = <<>> => Timer!requested("add") = {}
  BY DEF Timer!requested

\* The removal of a timer is no request to add one.
LEMMA RequestRemoves ==
    ASSUME Timer!Inv, NEW u \in Users, Timer!remove_internal_timer(u)
    PROVE  Timer!requested("add")' = Timer!requested("add")
  <1>1. user[u].timer \in Timers
    BY DEF Timer!Inv, Timer!TypeOK, Timer!remove_internal_timer
  <1> QED
    BY <1>1, RequestAppended, SMTT(30) DEF Timer!Inv, Timer!remove_internal_timer

\* The empty queue is a queue of requests.
LEMMA EmptyRequests == <<>> \in Seq(Timers \X {"add", "remove"})
  <1>1. \A S : <<>> \in Seq(S)
    OBVIOUS
  <1> QED BY <1>1

\* Every step of the timer queue keeps its types.
LEMMA TimerTypeOK ==
    ASSUME Timer!Inv, TimerStep
    PROVE  Timer!TypeOK'
  <1>0. Timer!TypeOK
    BY DEF Timer!Inv
  <1>1. ASSUME NEW u \in Users, NEW t \in Timers, Timer!add_timer(u, t)
        PROVE  Timer!TypeOK'
    <2>1. tq_requests' \in Seq(Timers \X {"add", "remove"})
      <3>1. /\ tq_requests \in Seq(Timers \X {"add", "remove"})
            /\ <<t, "add">> \in Timers \X {"add", "remove"}
        BY <1>0 DEF Timer!TypeOK
      <3>2. tq_requests' = tq_requests \/ tq_requests' = Append(tq_requests, <<t, "add">>)
        BY <1>1 DEF Timer!add_timer
      <3> QED BY <3>1, <3>2, SMTT(30)
    <2>2. Timer!TimerTypes'
      BY <1>0, <1>1, Zenon DEF Timer!TypeOK, Timer!TimerTypes, Timer!add_timer
    <2>3. tq_worker' \in {"none", "lock", "asleep", "process", "fire", "exited", "terminated"}
      BY <1>0, <1>1 DEF Timer!TypeOK, Timer!add_timer
    <2>4. /\ user' \in [Users -> [pc : {"idle", "remove", "notify"},
                                  timer : Timers \cup {Timer!none}]]
          /\ \A v \in Users : user'[v].pc = "remove" => user'[v].timer \in Timers
      BY <1>0, <1>1, ZenonT(30) DEF Timer!TypeOK, Timer!add_timer, Timer!at
    <2> QED
      BY <1>0, <1>1, <2>1, <2>2, <2>3, <2>4, Zenon
      DEF Timer!TypeOK, Timer!add_timer, Timer!flagVars, Timer!keptVars
  <1>2. ASSUME NEW u \in Users, NEW t \in Timers, Timer!cancel(u, t)
        PROVE  Timer!TypeOK'
    BY <1>0, <1>2
    DEF Timer!TypeOK, Timer!none, Timer!TimerTypes, Timer!cancel, Timer!flagVars, Timer!keptVars
  <1>3. ASSUME NEW u \in Users, Timer!remove_internal_timer(u)
        PROVE  Timer!TypeOK'
    BY <1>0, <1>3
    DEF Timer!TypeOK, Timer!none, Timer!TimerTypes, Timer!remove_internal_timer, Timer!resting,
        Timer!flagVars, Timer!keptVars, Timer!timerVars
  <1>4. ASSUME NEW u \in Users, Timer!notify_one(u)
        PROVE  Timer!TypeOK'
    BY <1>0, <1>4
    DEF Timer!TypeOK, Timer!none, Timer!TimerTypes, Timer!notify_one, Timer!awake, Timer!at,
        Timer!flagVars, Timer!keptVars, Timer!timerVars
  <1>5. ASSUME NEW t \in Timers, Timer!deadline(t)
        PROVE  Timer!TypeOK'
    BY <1>0, <1>5
    DEF Timer!TypeOK, Timer!none, Timer!TimerTypes, Timer!deadline, Timer!flagVars, Timer!keptVars
  <1>6. ASSUME NEW t \in Timers, Timer!process_timer(t)
        PROVE  Timer!TypeOK'
    BY <1>0, <1>6
    DEF Timer!TypeOK, Timer!none, Timer!TimerTypes, Timer!process_timer, Timer!after,
        Timer!flagVars, Timer!timerVars
  <1>7. ASSUME Timer!work_loop
        PROVE  Timer!TypeOK'
    <2>1. tq_requests' \in Seq(Timers \X {"add", "remove"})
      <3>1. tq_requests' = tq_requests \/ tq_requests' = <<>>
        BY <1>7 DEF Timer!work_loop
      <3>2. tq_requests \in Seq(Timers \X {"add", "remove"})
        BY <1>0 DEF Timer!TypeOK
      <3> QED BY <3>1, <3>2, EmptyRequests, Zenon
    <2>2. tq_timers' \subseteq Timers /\ tq_expired' \subseteq Timers
      BY <1>0, <1>7 DEF Timer!TypeOK, Timer!work_loop, Timer!process_request_queue, Timer!requested
    <2>3. tq_worker' \in {"none", "lock", "asleep", "process", "fire", "exited", "terminated"}
      BY <1>0, <1>7 DEF Timer!TypeOK, Timer!work_loop
    <2> QED
      BY <1>0, <1>7, <2>1, <2>2, <2>3
      DEF Timer!TypeOK, Timer!TimerTypes, Timer!work_loop, Timer!flagVars, Timer!timerVars
  <1>8. ASSUME Timer!deadline_wakes
        PROVE  Timer!TypeOK'
    BY <1>0, <1>8, SMTT(30)
    DEF Timer!TypeOK, Timer!none, Timer!TimerTypes, Timer!deadline_wakes, Timer!flagVars,
        Timer!keptVars, Timer!timerVars
  <1>9. ASSUME Timer!idle_time_out
        PROVE  Timer!TypeOK'
    BY <1>0, <1>9, ZenonT(30)
    DEF Timer!TypeOK, Timer!none, Timer!TimerTypes, Timer!idle_time_out, Timer!wanted,
        Timer!flagVars, Timer!keptVars, Timer!timerVars
  <1>10. ASSUME NEW threw \in BOOLEAN, Timer!fire(threw)
        PROVE  Timer!TypeOK'
    <2>1. fires' \in [Timers -> Nat] /\ late' \in [Timers -> Nat]
      <3>1. fires \in [Timers -> Nat] /\ late \in [Timers -> Nat]
        BY <1>0 DEF Timer!TypeOK, Timer!TimerTypes
      <3>4. tq_firing \in Timers
        BY <1>0, <1>10 DEF Timer!TypeOK, Timer!Inv, Timer!ExpiredAreKept, Timer!fire
      <3>2. fires' = [fires EXCEPT ![tq_firing] = fires[tq_firing] + 1]
        BY <1>10 DEF Timer!fire
      <3>3. \/ late' = [late EXCEPT ![tq_firing] = late[tq_firing] + 1]
            \/ late' = [late EXCEPT ![tq_firing] = late[tq_firing]]
        BY <1>10, Zenon DEF Timer!fire
      <3> QED BY <3>1, <3>2, <3>3, <3>4
    <2>2. due' \in [Timers -> BOOLEAN]
      BY <1>0, <1>10, ZenonT(30) DEF Timer!TypeOK, Timer!TimerTypes, Timer!fire
    <2>3. tq_timers' \subseteq Timers /\ tq_expired' \subseteq Timers
      BY <1>0, <1>10 DEF Timer!TypeOK, Timer!fire
    <2>4. tq_worker' \in {"none", "lock", "asleep", "process", "fire", "exited", "terminated"}
      BY <1>10, SMTT(30) DEF Timer!fire, Timer!after
    <2> QED
      BY <1>0, <1>10, <2>1, <2>2, <2>3, <2>4
      DEF Timer!TypeOK, Timer!TimerTypes, Timer!fire, Timer!flagVars
  <1>11. ASSUME Timer!shutdown
        PROVE  Timer!TypeOK'
    BY <1>0, <1>11, SMTT(30)
    DEF Timer!TypeOK, Timer!none, Timer!TimerTypes, Timer!shutdown, Timer!keptVars,
        Timer!timerVars
  <1>12. ASSUME Timer!set_abort
        PROVE  Timer!TypeOK'
    <2>1. tq_requests' \in Seq(Timers \X {"add", "remove"})
      <3>1. tq_requests' = tq_requests \/ tq_requests' = <<>>
        BY <1>12 DEF Timer!set_abort
      <3>2. tq_requests \in Seq(Timers \X {"add", "remove"})
        BY <1>0 DEF Timer!TypeOK
      <3> QED BY <3>1, <3>2, EmptyRequests, Zenon
    <2>2. tq_shutter' \in {"out", "lock", "stuck", "notify", "join", "returned"}
      BY <1>12 DEF Timer!set_abort
    <2> QED
      BY <1>0, <1>12, <2>1, <2>2, SMTT(30)
      DEF Timer!TypeOK, Timer!TimerTypes, Timer!set_abort, Timer!keptVars, Timer!timerVars
  <1>13. ASSUME Timer!notify_all
        PROVE  Timer!TypeOK'
    BY <1>0, <1>13
    DEF Timer!TypeOK, Timer!none, Timer!TimerTypes, Timer!notify_all, Timer!awake, Timer!flagVars,
        Timer!keptVars, Timer!timerVars
  <1>14. ASSUME Timer!join
        PROVE  Timer!TypeOK'
    BY <1>0, <1>14, SMTT(30)
    DEF Timer!TypeOK, Timer!none, Timer!TimerTypes, Timer!join, Timer!flagVars, Timer!keptVars,
        Timer!timerVars
  <1> QED
    BY <1>1, <1>2, <1>3, <1>4, <1>5, <1>6, <1>7, <1>8, <1>9, <1>10, <1>11, <1>12, <1>13, <1>14, SMTT(30)
    DEF TimerStep

\* The thread works on expired timers that it keeps: only its own steps take a timer
\* out, and work_loop looks for expired ones anew.
LEMMA TimerExpiredAreKept ==
    ASSUME Timer!Inv, TimerStep
    PROVE  Timer!ExpiredAreKept'
  <1>0. Timer!ExpiredAreKept /\ Timer!NoThreadNoTimers /\ Timer!TimerTypes
        /\ tq_timers \subseteq Timers /\ tq_expired \subseteq Timers
    BY DEF Timer!Inv, Timer!TypeOK
  <1>1. ASSUME NEW u \in Users, NEW t \in Timers, Timer!add_timer(u, t)
        PROVE  Timer!ExpiredAreKept'
    BY <1>0, <1>1
    DEF Timer!ExpiredAreKept, Timer!NoThreadNoTimers, Timer!TimerTypes, Timer!add_timer, Timer!at,
        Timer!flagVars, Timer!keptVars
  <1>2. ASSUME NEW u \in Users, NEW t \in Timers, Timer!cancel(u, t)
        PROVE  Timer!ExpiredAreKept'
    BY <1>0, <1>2
    DEF Timer!ExpiredAreKept, Timer!TimerTypes, Timer!cancel, Timer!flagVars, Timer!keptVars
  <1>3. ASSUME NEW u \in Users, Timer!remove_internal_timer(u)
        PROVE  Timer!ExpiredAreKept'
    BY <1>0, <1>3
    DEF Timer!ExpiredAreKept, Timer!TimerTypes, Timer!remove_internal_timer, Timer!resting,
        Timer!none, Timer!flagVars, Timer!keptVars, Timer!timerVars
  <1>4. ASSUME NEW u \in Users, Timer!notify_one(u)
        PROVE  Timer!ExpiredAreKept'
    BY <1>0, <1>4
    DEF Timer!ExpiredAreKept, Timer!TimerTypes, Timer!notify_one, Timer!awake, Timer!at,
        Timer!flagVars, Timer!keptVars, Timer!timerVars
  <1>5. ASSUME NEW t \in Timers, Timer!deadline(t)
        PROVE  Timer!ExpiredAreKept'
    BY <1>0, <1>5
    DEF Timer!ExpiredAreKept, Timer!TimerTypes, Timer!deadline, Timer!flagVars, Timer!keptVars
  <1>6. ASSUME NEW t \in Timers, Timer!process_timer(t)
        PROVE  Timer!ExpiredAreKept'
    BY <1>0, <1>6
    DEF Timer!ExpiredAreKept, Timer!TimerTypes, Timer!process_timer, Timer!after, Timer!flagVars,
        Timer!timerVars
  <1>7. ASSUME Timer!work_loop
        PROVE  Timer!ExpiredAreKept'
    BY <1>0, <1>7
    DEF Timer!ExpiredAreKept, Timer!TimerTypes, Timer!work_loop, Timer!process_request_queue,
        Timer!flagVars, Timer!timerVars
  <1>8. ASSUME Timer!deadline_wakes
        PROVE  Timer!ExpiredAreKept'
    BY <1>0, <1>8
    DEF Timer!ExpiredAreKept, Timer!TimerTypes, Timer!deadline_wakes, Timer!flagVars,
        Timer!keptVars, Timer!timerVars
  <1>9. ASSUME Timer!idle_time_out
        PROVE  Timer!ExpiredAreKept'
    BY <1>0, <1>9
    DEF Timer!ExpiredAreKept, Timer!TimerTypes, Timer!idle_time_out, Timer!wanted, Timer!flagVars,
        Timer!keptVars, Timer!timerVars
  <1>10. ASSUME NEW threw \in BOOLEAN, Timer!fire(threw)
        PROVE  Timer!ExpiredAreKept'
    BY <1>0, <1>10
    DEF Timer!ExpiredAreKept, Timer!TimerTypes, Timer!fire, Timer!after, Timer!none,
        Timer!flagVars
  <1>11. ASSUME Timer!shutdown
        PROVE  Timer!ExpiredAreKept'
    BY <1>0, <1>11
    DEF Timer!ExpiredAreKept, Timer!TimerTypes, Timer!shutdown, Timer!keptVars, Timer!timerVars
  <1>12. ASSUME Timer!set_abort
        PROVE  Timer!ExpiredAreKept'
    BY <1>0, <1>12
    DEF Timer!ExpiredAreKept, Timer!TimerTypes, Timer!set_abort, Timer!keptVars, Timer!timerVars
  <1>13. ASSUME Timer!notify_all
        PROVE  Timer!ExpiredAreKept'
    BY <1>0, <1>13
    DEF Timer!ExpiredAreKept, Timer!TimerTypes, Timer!notify_all, Timer!awake, Timer!flagVars,
        Timer!keptVars, Timer!timerVars
  <1>14. ASSUME Timer!join
        PROVE  Timer!ExpiredAreKept'
    BY <1>0, <1>14, SMTT(30)
    DEF Timer!ExpiredAreKept, Timer!TimerTypes, Timer!join, Timer!flagVars, Timer!keptVars,
        Timer!timerVars
  <1> QED
    BY <1>1, <1>2, <1>3, <1>4, <1>5, <1>6, <1>7, <1>8, <1>9, <1>10, <1>11, <1>12, <1>13, <1>14
    DEF TimerStep

\* A timer is requested or kept, never both: add_timer takes a timer once, and
\* work_loop empties the requests that it has taken over.
LEMMA TimerQueuedOnce ==
    ASSUME Timer!Inv, TimerStep
    PROVE  Timer!QueuedOnce'
  <1>0. Timer!QueuedOnce /\ Timer!ExpiredAreKept /\ Timer!TimerTypes
        /\ tq_timers \subseteq Timers /\ tq_expired \subseteq Timers
    BY DEF Timer!Inv, Timer!TypeOK
  <1>1. ASSUME NEW u \in Users, NEW t \in Timers, Timer!add_timer(u, t)
        PROVE  Timer!QueuedOnce'
    <2>1. CASE tq_abort
      BY <1>0, <1>1, <2>1, RequestsUnchanged, SMTT(30)
      DEF Timer!QueuedOnce, Timer!add_timer, Timer!flagVars, Timer!keptVars, Timer!TimerTypes
    <2>2. CASE ~tq_abort
      <3>1. /\ Timer!requested("add")' = Timer!requested("add") \cup {t}
            /\ UNCHANGED <<tq_timers, due, fires>>
            /\ made[t] = "new" /\ made' = [made EXCEPT ![t] = "made"]
        BY <1>1, <2>2, RequestAppended, SMTT(30) DEF Timer!add_timer, Timer!Inv, Timer!keptVars
      <3>2. t \notin tq_timers /\ t \notin Timer!requested("add") /\ fires[t] = 0
        BY <1>0, <3>1, SMTT(30) DEF Timer!QueuedOnce
      <3> QED BY <1>0, <3>1, <3>2, SMTT(30) DEF Timer!QueuedOnce, Timer!TimerTypes
    <2> QED BY <2>1, <2>2, SMTT(30)
  <1>2. ASSUME NEW u \in Users, NEW t \in Timers, Timer!cancel(u, t)
        PROVE  Timer!QueuedOnce'
    BY <1>0, <1>2, RequestsUnchanged, SMTT(30)
    DEF Timer!QueuedOnce, Timer!TimerTypes, Timer!cancel, Timer!flagVars, Timer!keptVars
  <1>3. ASSUME NEW u \in Users, Timer!remove_internal_timer(u)
        PROVE  Timer!QueuedOnce'
    BY <1>0, <1>3, RequestRemoves, ZenonT(30)
    DEF Timer!QueuedOnce, Timer!TimerTypes, Timer!remove_internal_timer, Timer!flagVars,
        Timer!keptVars, Timer!timerVars
  <1>4. ASSUME NEW u \in Users, Timer!notify_one(u)
        PROVE  Timer!QueuedOnce'
    BY <1>0, <1>4, RequestsUnchanged
    DEF Timer!QueuedOnce, Timer!TimerTypes, Timer!notify_one, Timer!awake, Timer!at,
        Timer!flagVars, Timer!keptVars, Timer!timerVars
  <1>5. ASSUME NEW t \in Timers, Timer!deadline(t)
        PROVE  Timer!QueuedOnce'
    BY <1>0, <1>5, RequestsUnchanged
    DEF Timer!QueuedOnce, Timer!TimerTypes, Timer!deadline, Timer!flagVars, Timer!keptVars
  <1>6. ASSUME NEW t \in Timers, Timer!process_timer(t)
        PROVE  Timer!QueuedOnce'
    BY <1>0, <1>6, RequestsUnchanged, SMTT(30)
    DEF Timer!QueuedOnce, Timer!TimerTypes, Timer!process_timer, Timer!after, Timer!flagVars,
        Timer!timerVars
  <1>7. ASSUME Timer!work_loop
        PROVE  Timer!QueuedOnce'
    BY <1>0, <1>7, RequestsUnchanged, RequestsCleared, SMTT(30)
    DEF Timer!QueuedOnce, Timer!TimerTypes, Timer!work_loop, Timer!process_request_queue,
        Timer!flagVars, Timer!timerVars
  <1>8. ASSUME Timer!deadline_wakes
        PROVE  Timer!QueuedOnce'
    BY <1>0, <1>8, RequestsUnchanged, SMTT(30)
    DEF Timer!QueuedOnce, Timer!TimerTypes, Timer!deadline_wakes, Timer!flagVars, Timer!keptVars,
        Timer!timerVars
  <1>9. ASSUME Timer!idle_time_out
        PROVE  Timer!QueuedOnce'
    BY <1>0, <1>9, RequestsUnchanged, NoRequests, SMTT(30)
    DEF Timer!QueuedOnce, Timer!TimerTypes, Timer!idle_time_out, Timer!wanted, Timer!flagVars,
        Timer!keptVars, Timer!timerVars
  <1>10. ASSUME NEW threw \in BOOLEAN, Timer!fire(threw)
        PROVE  Timer!QueuedOnce'
    <2>1. /\ tq_firing \in tq_timers /\ due[tq_firing] /\ tq_firing \in Timers
          /\ tq_timers' \subseteq tq_timers
          /\ tq_firing \in OneShot => tq_firing \notin tq_timers'
          /\ fires' = [fires EXCEPT ![tq_firing] = @ + 1]
          /\ due' = [due EXCEPT ![tq_firing] = FALSE]
          /\ UNCHANGED made /\ Timer!requested("add")' = Timer!requested("add")
      BY <1>0, <1>10, RequestsUnchanged DEF Timer!ExpiredAreKept, Timer!fire
    <2>2. made[tq_firing] = "made" /\ tq_firing \notin Timer!requested("add")
      BY <1>0, <2>1 DEF Timer!QueuedOnce
    <2> QED BY <1>0, <2>1, <2>2, PartsAssumption, SMTT(30) DEF Timer!QueuedOnce, Timer!TimerTypes
  <1>11. ASSUME Timer!shutdown
        PROVE  Timer!QueuedOnce'
    BY <1>0, <1>11, RequestsUnchanged, SMTT(30)
    DEF Timer!QueuedOnce, Timer!TimerTypes, Timer!shutdown, Timer!keptVars, Timer!timerVars
  <1>12. ASSUME Timer!set_abort
        PROVE  Timer!QueuedOnce'
    BY <1>0, <1>12, RequestsUnchanged, RequestsCleared, SMTT(30)
    DEF Timer!QueuedOnce, Timer!TimerTypes, Timer!set_abort, Timer!keptVars, Timer!timerVars
  <1>13. ASSUME Timer!notify_all
        PROVE  Timer!QueuedOnce'
    BY <1>0, <1>13, RequestsUnchanged, SMTT(30)
    DEF Timer!QueuedOnce, Timer!TimerTypes, Timer!notify_all, Timer!awake, Timer!flagVars,
        Timer!keptVars, Timer!timerVars
  <1>14. ASSUME Timer!join
        PROVE  Timer!QueuedOnce'
    BY <1>0, <1>14, RequestsUnchanged, SMTT(30)
    DEF Timer!QueuedOnce, Timer!TimerTypes, Timer!join, Timer!flagVars, Timer!keptVars,
        Timer!timerVars
  <1> QED
    BY <1>1, <1>2, <1>3, <1>4, <1>5, <1>6, <1>7, <1>8, <1>9, <1>10, <1>11, <1>12, <1>13, <1>14
    DEF TimerStep

\* A queue without a thread has no timers: add_timer starts a thread, which retires
\* only with nothing left, and shutdown clears the requests.
LEMMA TimerNoThreadNoTimers ==
    ASSUME Timer!Inv, TimerStep
    PROVE  Timer!NoThreadNoTimers'
  <1>0. Timer!NoThreadNoTimers /\ Timer!TimerTypes
        /\ tq_timers \subseteq Timers /\ tq_expired \subseteq Timers
    BY DEF Timer!Inv, Timer!TypeOK
  <1>1. ASSUME NEW u \in Users, NEW t \in Timers, Timer!add_timer(u, t)
        PROVE  Timer!NoThreadNoTimers'
    BY <1>0, <1>1, RequestAppended, RequestsUnchanged, SMTT(30)
    DEF Timer!NoThreadNoTimers, Timer!Inv, Timer!TimerTypes, Timer!add_timer, Timer!at,
        Timer!flagVars, Timer!keptVars
  <1>2. ASSUME NEW u \in Users, NEW t \in Timers, Timer!cancel(u, t)
        PROVE  Timer!NoThreadNoTimers'
    BY <1>0, <1>2, RequestsUnchanged
    DEF Timer!NoThreadNoTimers, Timer!TimerTypes, Timer!cancel, Timer!flagVars, Timer!keptVars
  <1>3. ASSUME NEW u \in Users, Timer!remove_internal_timer(u)
        PROVE  Timer!NoThreadNoTimers'
    BY <1>0, <1>3, RequestRemoves, ZenonT(30)
    DEF Timer!NoThreadNoTimers, Timer!TimerTypes, Timer!remove_internal_timer, Timer!flagVars,
        Timer!keptVars, Timer!timerVars
  <1>4. ASSUME NEW u \in Users, Timer!notify_one(u)
        PROVE  Timer!NoThreadNoTimers'
    BY <1>0, <1>4, RequestsUnchanged, SMTT(30)
    DEF Timer!NoThreadNoTimers, Timer!TimerTypes, Timer!notify_one, Timer!awake, Timer!at,
        Timer!flagVars, Timer!keptVars, Timer!timerVars
  <1>5. ASSUME NEW t \in Timers, Timer!deadline(t)
        PROVE  Timer!NoThreadNoTimers'
    BY <1>0, <1>5, RequestsUnchanged
    DEF Timer!NoThreadNoTimers, Timer!TimerTypes, Timer!deadline, Timer!flagVars, Timer!keptVars
  <1>6. ASSUME NEW t \in Timers, Timer!process_timer(t)
        PROVE  Timer!NoThreadNoTimers'
    BY <1>0, <1>6, RequestsUnchanged
    DEF Timer!NoThreadNoTimers, Timer!TimerTypes, Timer!process_timer, Timer!after,
        Timer!flagVars, Timer!timerVars
  <1>7. ASSUME Timer!work_loop
        PROVE  Timer!NoThreadNoTimers'
    BY <1>0, <1>7, RequestsUnchanged, RequestsCleared
    DEF Timer!NoThreadNoTimers, Timer!TimerTypes, Timer!work_loop, Timer!process_request_queue,
        Timer!flagVars, Timer!timerVars
  <1>8. ASSUME Timer!deadline_wakes
        PROVE  Timer!NoThreadNoTimers'
    BY <1>0, <1>8, RequestsUnchanged, SMTT(30)
    DEF Timer!NoThreadNoTimers, Timer!TimerTypes, Timer!deadline_wakes, Timer!flagVars,
        Timer!keptVars, Timer!timerVars
  <1>9. ASSUME Timer!idle_time_out
        PROVE  Timer!NoThreadNoTimers'
    BY <1>0, <1>9, RequestsUnchanged, NoRequests, SMTT(30)
    DEF Timer!NoThreadNoTimers, Timer!TimerTypes, Timer!idle_time_out, Timer!wanted,
        Timer!flagVars, Timer!keptVars, Timer!timerVars
  <1>10. ASSUME NEW threw \in BOOLEAN, Timer!fire(threw)
        PROVE  Timer!NoThreadNoTimers'
    BY <1>0, <1>10, RequestsUnchanged, SMTT(30)
    DEF Timer!NoThreadNoTimers, Timer!TimerTypes, Timer!fire, Timer!after, Timer!none,
        Timer!flagVars
  <1>11. ASSUME Timer!shutdown
        PROVE  Timer!NoThreadNoTimers'
    BY <1>0, <1>11, RequestsUnchanged, SMTT(30)
    DEF Timer!NoThreadNoTimers, Timer!TimerTypes, Timer!shutdown, Timer!keptVars, Timer!timerVars
  <1>12. ASSUME Timer!set_abort
        PROVE  Timer!NoThreadNoTimers'
    BY <1>0, <1>12, RequestsUnchanged, RequestsCleared, SMTT(30)
    DEF Timer!NoThreadNoTimers, Timer!TimerTypes, Timer!set_abort, Timer!keptVars, Timer!timerVars
  <1>13. ASSUME Timer!notify_all
        PROVE  Timer!NoThreadNoTimers'
    BY <1>0, <1>13, RequestsUnchanged, SMTT(30)
    DEF Timer!NoThreadNoTimers, Timer!TimerTypes, Timer!notify_all, Timer!awake, Timer!flagVars,
        Timer!keptVars, Timer!timerVars
  <1>14. ASSUME Timer!join
        PROVE  Timer!NoThreadNoTimers'
    BY <1>0, <1>14, RequestsUnchanged, SMTT(30)
    DEF Timer!NoThreadNoTimers, Timer!TimerTypes, Timer!join, Timer!flagVars, Timer!keptVars,
        Timer!timerVars
  <1> QED
    BY <1>1, <1>2, <1>3, <1>4, <1>5, <1>6, <1>7, <1>8, <1>9, <1>10, <1>11, <1>12, <1>13, <1>14
    DEF TimerStep

\* shutdown passes through its sections once and returns when the thread has ended.
LEMMA TimerShutdownInOrder ==
    ASSUME Timer!Inv, TimerStep
    PROVE  Timer!ShutdownInOrder'
  <1>0. Timer!ShutdownInOrder /\ Timer!TimerTypes
        /\ tq_timers \subseteq Timers /\ tq_expired \subseteq Timers
    BY DEF Timer!Inv, Timer!TypeOK
  <1>1. ASSUME NEW u \in Users, NEW t \in Timers, Timer!add_timer(u, t)
        PROVE  Timer!ShutdownInOrder'
    BY <1>0, <1>1, SMTT(30)
    DEF Timer!ShutdownInOrder, Timer!TimerTypes, Timer!add_timer, Timer!at, Timer!flagVars,
        Timer!keptVars
  <1>2. ASSUME NEW u \in Users, NEW t \in Timers, Timer!cancel(u, t)
        PROVE  Timer!ShutdownInOrder'
    BY <1>0, <1>2
    DEF Timer!ShutdownInOrder, Timer!TimerTypes, Timer!cancel, Timer!flagVars, Timer!keptVars
  <1>3. ASSUME NEW u \in Users, Timer!remove_internal_timer(u)
        PROVE  Timer!ShutdownInOrder'
    BY <1>0, <1>3
    DEF Timer!ShutdownInOrder, Timer!TimerTypes, Timer!remove_internal_timer, Timer!resting,
        Timer!none, Timer!flagVars, Timer!keptVars, Timer!timerVars
  <1>4. ASSUME NEW u \in Users, Timer!notify_one(u)
        PROVE  Timer!ShutdownInOrder'
    BY <1>0, <1>4, SMTT(30)
    DEF Timer!ShutdownInOrder, Timer!TimerTypes, Timer!notify_one, Timer!awake, Timer!at,
        Timer!flagVars, Timer!keptVars, Timer!timerVars
  <1>5. ASSUME NEW t \in Timers, Timer!deadline(t)
        PROVE  Timer!ShutdownInOrder'
    BY <1>0, <1>5, SMTT(30)
    DEF Timer!ShutdownInOrder, Timer!TimerTypes, Timer!deadline, Timer!flagVars, Timer!keptVars
  <1>6. ASSUME NEW t \in Timers, Timer!process_timer(t)
        PROVE  Timer!ShutdownInOrder'
    BY <1>0, <1>6, SMTT(30)
    DEF Timer!ShutdownInOrder, Timer!TimerTypes, Timer!process_timer, Timer!after, Timer!flagVars,
        Timer!timerVars
  <1>7. ASSUME Timer!work_loop
        PROVE  Timer!ShutdownInOrder'
    BY <1>0, <1>7, SMTT(30)
    DEF Timer!ShutdownInOrder, Timer!TimerTypes, Timer!work_loop, Timer!process_request_queue,
        Timer!flagVars, Timer!timerVars
  <1>8. ASSUME Timer!deadline_wakes
        PROVE  Timer!ShutdownInOrder'
    BY <1>0, <1>8, SMTT(30)
    DEF Timer!ShutdownInOrder, Timer!TimerTypes, Timer!deadline_wakes, Timer!flagVars,
        Timer!keptVars, Timer!timerVars
  <1>9. ASSUME Timer!idle_time_out
        PROVE  Timer!ShutdownInOrder'
    BY <1>0, <1>9, SMTT(30)
    DEF Timer!ShutdownInOrder, Timer!TimerTypes, Timer!idle_time_out, Timer!wanted,
        Timer!flagVars, Timer!keptVars, Timer!timerVars
  <1>10. ASSUME NEW threw \in BOOLEAN, Timer!fire(threw)
        PROVE  Timer!ShutdownInOrder'
    BY <1>0, <1>10, SMTT(30)
    DEF Timer!ShutdownInOrder, Timer!TimerTypes, Timer!fire, Timer!after, Timer!none,
        Timer!flagVars
  <1>11. ASSUME Timer!shutdown
        PROVE  Timer!ShutdownInOrder'
    BY <1>0, <1>11, SMTT(30)
    DEF Timer!ShutdownInOrder, Timer!TimerTypes, Timer!shutdown, Timer!keptVars, Timer!timerVars
  <1>12. ASSUME Timer!set_abort
        PROVE  Timer!ShutdownInOrder'
    BY <1>0, <1>12, SMTT(30)
    DEF Timer!ShutdownInOrder, Timer!TimerTypes, Timer!set_abort, Timer!keptVars, Timer!timerVars
  <1>13. ASSUME Timer!notify_all
        PROVE  Timer!ShutdownInOrder'
    BY <1>0, <1>13, SMTT(30)
    DEF Timer!ShutdownInOrder, Timer!TimerTypes, Timer!notify_all, Timer!awake, Timer!flagVars,
        Timer!keptVars, Timer!timerVars
  <1>14. ASSUME Timer!join
        PROVE  Timer!ShutdownInOrder'
    BY <1>0, <1>14, SMTT(30)
    DEF Timer!ShutdownInOrder, Timer!TimerTypes, Timer!join, Timer!flagVars, Timer!keptVars,
        Timer!timerVars
  <1> QED
    BY <1>1, <1>2, <1>3, <1>4, <1>5, <1>6, <1>7, <1>8, <1>9, <1>10, <1>11, <1>12, <1>13, <1>14
    DEF TimerStep

\* process_timer drops a cancelled timer, so that only the firing that it had decided
\* on before comes late.
LEMMA TimerLateOnce ==
    ASSUME Timer!Inv, TimerStep
    PROVE  Timer!LateOnce'
  <1>0. Timer!LateOnce /\ Timer!TimerTypes
        /\ tq_timers \subseteq Timers /\ tq_expired \subseteq Timers
    BY DEF Timer!Inv, Timer!TypeOK
  <1>1. ASSUME NEW u \in Users, NEW t \in Timers, Timer!add_timer(u, t)
        PROVE  Timer!LateOnce'
    BY <1>0, <1>1, SMTT(30)
    DEF Timer!LateOnce, Timer!TimerTypes, Timer!add_timer, Timer!at, Timer!flagVars,
        Timer!keptVars
  <1>2. ASSUME NEW u \in Users, NEW t \in Timers, Timer!cancel(u, t)
        PROVE  Timer!LateOnce'
    BY <1>0, <1>2 DEF Timer!LateOnce, Timer!TimerTypes, Timer!cancel, Timer!flagVars, Timer!keptVars
  <1>3. ASSUME NEW u \in Users, Timer!remove_internal_timer(u)
        PROVE  Timer!LateOnce'
    BY <1>0, <1>3
    DEF Timer!LateOnce, Timer!TimerTypes, Timer!remove_internal_timer, Timer!resting, Timer!none,
        Timer!flagVars, Timer!keptVars, Timer!timerVars
  <1>4. ASSUME NEW u \in Users, Timer!notify_one(u)
        PROVE  Timer!LateOnce'
    BY <1>0, <1>4, SMTT(30)
    DEF Timer!LateOnce, Timer!TimerTypes, Timer!notify_one, Timer!awake, Timer!at, Timer!flagVars,
        Timer!keptVars, Timer!timerVars
  <1>5. ASSUME NEW t \in Timers, Timer!deadline(t)
        PROVE  Timer!LateOnce'
    BY <1>0, <1>5, SMTT(30)
    DEF Timer!LateOnce, Timer!TimerTypes, Timer!deadline, Timer!flagVars, Timer!keptVars
  <1>6. ASSUME NEW t \in Timers, Timer!process_timer(t)
        PROVE  Timer!LateOnce'
    BY <1>0, <1>6, SMTT(30)
    DEF Timer!LateOnce, Timer!TimerTypes, Timer!process_timer, Timer!after, Timer!flagVars,
        Timer!timerVars
  <1>7. ASSUME Timer!work_loop
        PROVE  Timer!LateOnce'
    BY <1>0, <1>7
    DEF Timer!LateOnce, Timer!TimerTypes, Timer!work_loop, Timer!process_request_queue,
        Timer!flagVars, Timer!timerVars
  <1>8. ASSUME Timer!deadline_wakes
        PROVE  Timer!LateOnce'
    BY <1>0, <1>8, SMTT(30)
    DEF Timer!LateOnce, Timer!TimerTypes, Timer!deadline_wakes, Timer!flagVars, Timer!keptVars,
        Timer!timerVars
  <1>9. ASSUME Timer!idle_time_out
        PROVE  Timer!LateOnce'
    BY <1>0, <1>9, SMTT(30)
    DEF Timer!LateOnce, Timer!TimerTypes, Timer!idle_time_out, Timer!wanted, Timer!flagVars,
        Timer!keptVars, Timer!timerVars
  <1>10. ASSUME NEW threw \in BOOLEAN, Timer!fire(threw)
        PROVE  Timer!LateOnce'
    BY <1>0, <1>10, SMTT(30)
    DEF Timer!LateOnce, Timer!TimerTypes, Timer!fire, Timer!after, Timer!none, Timer!flagVars
  <1>11. ASSUME Timer!shutdown
        PROVE  Timer!LateOnce'
    BY <1>0, <1>11, SMTT(30)
    DEF Timer!LateOnce, Timer!TimerTypes, Timer!shutdown, Timer!keptVars, Timer!timerVars
  <1>12. ASSUME Timer!set_abort
        PROVE  Timer!LateOnce'
    BY <1>0, <1>12, SMTT(30)
    DEF Timer!LateOnce, Timer!TimerTypes, Timer!set_abort, Timer!keptVars, Timer!timerVars
  <1>13. ASSUME Timer!notify_all
        PROVE  Timer!LateOnce'
    BY <1>0, <1>13, SMTT(30)
    DEF Timer!LateOnce, Timer!TimerTypes, Timer!notify_all, Timer!awake, Timer!flagVars,
        Timer!keptVars, Timer!timerVars
  <1>14. ASSUME Timer!join
        PROVE  Timer!LateOnce'
    BY <1>0, <1>14
    DEF Timer!LateOnce, Timer!TimerTypes, Timer!join, Timer!flagVars, Timer!keptVars,
        Timer!timerVars
  <1> QED
    BY <1>1, <1>2, <1>3, <1>4, <1>5, <1>6, <1>7, <1>8, <1>9, <1>10, <1>11, <1>12, <1>13, <1>14
    DEF TimerStep

\* The invariant of the timer queue is inductive.
LEMMA TimerInv ==
    ASSUME Timer!Inv, TimerStep
    PROVE  Timer!Inv'
  BY TimerTypeOK, TimerExpiredAreKept, TimerQueuedOnce, TimerNoThreadNoTimers,
     TimerShutdownInOrder, TimerLateOnce, ZenonT(30)
  DEF Timer!Inv

\* It is kept by steps of the other parts.
LEMMA TimerStutter ==
    ASSUME Timer!Inv, UNCHANGED timer_vars
    PROVE  Timer!Inv'
  <1>1. UNCHANGED <<tq_requests, tq_idle, tq_abort, tq_atomic_abort, tq_timers, tq_expired,
                    tq_firing, tq_worker, tq_shutter>>
    BY Zenon DEF timer_vars
  <1>2. UNCHANGED <<user, made, cancelled, due, fires, late>>
    BY Zenon DEF timer_vars
  <1>3. Timer!TypeOK'
    BY <1>1, <1>2, ZenonT(30) DEF Timer!Inv, Timer!TypeOK, Timer!TimerTypes, Timer!none
  <1>4. Timer!requested("add")' = Timer!requested("add")
    BY <1>1, RequestsUnchanged
  <1>5. Timer!ExpiredAreKept'
    BY <1>1, <1>2, ZenonT(30) DEF Timer!Inv, Timer!ExpiredAreKept, Timer!none
  <1>6. Timer!QueuedOnce'
    BY <1>1, <1>2, <1>4, ZenonT(30) DEF Timer!Inv, Timer!QueuedOnce
  <1>7. Timer!NoThreadNoTimers' /\ Timer!ShutdownInOrder'
    BY <1>1, <1>2, <1>4, ZenonT(30)
    DEF Timer!Inv, Timer!NoThreadNoTimers, Timer!ShutdownInOrder, Timer!none
  <1>8. Timer!LateOnce'
    BY <1>1, <1>2, ZenonT(30) DEF Timer!Inv, Timer!LateOnce
  <1> QED BY <1>3, <1>5, <1>6, <1>7, <1>8, Zenon DEF Timer!Inv

\* It holds of a new timer queue.
LEMMA TimerInit == Timer!Init => Timer!Inv
  <1> SUFFICES ASSUME Timer!Init
               PROVE  Timer!Inv
    OBVIOUS
  <1>1. tq_requests \in Seq(Timers \X {"add", "remove"}) /\ Timer!requested("add") = {}
    BY EmptyRequests, NoRequests DEF Timer!Init
  <1>2. Timer!TimerTypes
    BY DEF Timer!Init, Timer!TimerTypes
  <1>3. Timer!TypeOK
    <2>1. Timer!resting \in [pc : {"idle", "remove", "notify"}, timer : Timers \cup {Timer!none}]
          /\ Timer!resting.pc = "idle"
      BY DEF Timer!resting, Timer!none
    <2> QED BY <1>1, <1>2, <2>1, ZenonT(30) DEF Timer!Init, Timer!TypeOK
  <1>4. Timer!ExpiredAreKept /\ Timer!NoThreadNoTimers /\ Timer!ShutdownInOrder
    BY <1>1 DEF Timer!Init, Timer!ExpiredAreKept, Timer!NoThreadNoTimers, Timer!ShutdownInOrder
  <1>5. Timer!QueuedOnce /\ Timer!LateOnce
    BY <1>1, PartsAssumption DEF Timer!Init, Timer!QueuedOnce, Timer!LateOnce
  <1> QED BY <1>2, <1>3, <1>4, <1>5 DEF Timer!Inv
-----------------------------------------------------------------------------
\* What the threads of a composition do to the manual executor.
ManualStep ==
    \/ \E l \in Loopers : \/ \E op \in Ops, n \in 1..MaxCount : Manual!call(l, op, n)
                          \/ Manual!again(l) \/ Manual!time_out(l)
                          \/ Manual!task_returns(l) \/ Manual!clear(l)
    \/ \E c \in Callers : \/ \E tasks \in Seq(Firings \cup posted) :
                                 /\ Manual!distinct(tasks)
                                 /\ \A x \in Manual!elements(tasks) : man_status[x] = "new"
                                 /\ Manual!enqueue(c, tasks)
                          \/ Manual!notify_all(c) \/ Manual!shutdown(c)
                          \/ Manual!set_abort(c) \/ Manual!destroy_tasks(c)

\* A looper that found nothing to run leaves or sleeps.
Rests(l) ==
    /\ \E r \in Manual!LooperStates :
          /\ r.pc \in {"out", "asleep"} /\ (r.pc # "out" => r.count > 0)
          /\ looper' = [looper EXCEPT ![l] = r]
    /\ UNCHANGED <<man_tasks, man_abort, man_atomic_abort, calling, man_status>>

\* A looper takes the front of the queue.
Pops(l) ==
    /\ man_tasks # <<>> /\ ~man_abort
    /\ \E r \in Manual!LooperStates :
          /\ r.pc = "running" /\ r.task = Head(man_tasks) /\ r.count > 0
          /\ looper' = [looper EXCEPT ![l] = r]
    /\ man_tasks' = Tail(man_tasks)
    /\ man_status' = Manual!become({Head(man_tasks)}, "running")
    /\ UNCHANGED <<man_abort, man_atomic_abort, calling>>

\* The front of the queue is a task.
LEMMA HeadIsTask == Manual!TypeOK /\ man_tasks # <<>> => Head(man_tasks) \in Firings \cup posted
  BY DEF Manual!TypeOK

\* Every round of a looper comes to one of the two.
LEMMA LooperRound ==
    ASSUME Manual!TypeOK, NEW l \in Loopers,
           NEW r \in Manual!LooperStates, r.count > 0, Manual!round(l, r)
    PROVE  Rests(l) \/ Pops(l)
  <1>1. Manual!out \in Manual!LooperStates /\ Manual!out.pc = "out"
    BY DEF Manual!LooperStates, Manual!out, Manual!none
  <1>2. /\ [r EXCEPT !.pc = "asleep"] \in Manual!LooperStates
        /\ [r EXCEPT !.pc = "asleep"].pc = "asleep" /\ [r EXCEPT !.pc = "asleep"].count = r.count
    BY DEF Manual!LooperStates
  <1>3. ASSUME man_tasks # <<>>
        PROVE  LET q == [r EXCEPT !.pc = "running", !.task = Head(man_tasks)] IN
               /\ q \in Manual!LooperStates
               /\ q.pc = "running" /\ q.task = Head(man_tasks) /\ q.count = r.count
    BY <1>3, HeadIsTask, Zenon DEF Manual!LooperStates
  <1>4. Manual!leave(l) => Rests(l)
    BY <1>1, Zenon DEF Manual!leave, Manual!become_looper, Rests, Manual!round
  <1>5. Manual!sleep(l, r) => Rests(l)
    BY <1>2, Zenon DEF Manual!sleep, Manual!become_looper, Rests, Manual!round
  <1>6. man_tasks # <<>> /\ ~man_abort /\ Manual!pop(l, r) => Pops(l)
    BY <1>3, ZenonT(30) DEF Manual!pop, Manual!become_looper, Pops, Manual!round
  <1> QED
    BY <1>4, <1>5, <1>6
    DEF Manual!round, Manual!loop_impl, Manual!loop_until_impl, Manual!wait_for_tasks_impl

\* So does every operation of a looper but the return of a task and clear.
LEMMA LooperActs ==
    ASSUME Manual!TypeOK, NEW l \in Loopers,
           \/ \E op \in Ops, n \in 1..MaxCount : Manual!call(l, op, n)
           \/ Manual!again(l) \/ Manual!time_out(l)
    PROVE  Rests(l) \/ Pops(l)
  <1>1. ASSUME NEW op \in Ops, NEW n \in 1..MaxCount, Manual!call(l, op, n)
        PROVE  Rests(l) \/ Pops(l)
    <2> DEFINE r == [Manual!out EXCEPT !.op = op, !.count = n]
    <2>0. n \in Nat /\ n > 0
      BY PartsAssumption
    <2>1. r \in Manual!LooperStates /\ r.count = n
      <3>1. Manual!out \in Manual!LooperStates
        BY DEF Manual!LooperStates, Manual!out, Manual!none
      <3> QED BY <2>0, <3>1, ZenonT(30) DEF Manual!LooperStates
    <2>2. Manual!round(l, r)
      BY <1>1, Zenon DEF Manual!call
    <2> HIDE DEF r
    <2> QED BY <2>0, <2>1, <2>2, LooperRound
  <1>2. ASSUME Manual!again(l)
        PROVE  Rests(l) \/ Pops(l)
    <2>1. looper[l] \in Manual!LooperStates /\ looper[l].count > 0 /\ Manual!round(l, looper[l])
      BY <1>2, SMTT(30) DEF Manual!again, Manual!TypeOK
    <2> QED BY <2>1, LooperRound, SMTT(30)
  <1>3. ASSUME Manual!time_out(l)
        PROVE  Rests(l) \/ Pops(l)
    <2>1. looper[l] \in Manual!LooperStates /\ looper[l].count > 0
      BY <1>3, SMTT(30) DEF Manual!time_out, Manual!TypeOK
    <2>2. Manual!out \in Manual!LooperStates /\ Manual!out.pc = "out"
      BY SMTT(30) DEF Manual!LooperStates, Manual!out, Manual!none
    <2>3. CASE Manual!leave(l)
      BY <1>3, <2>2, <2>3, Zenon DEF Manual!leave, Manual!become_looper, Rests, Manual!time_out
    <2>4. CASE man_tasks # <<>> /\ ~man_abort /\ Manual!pop(l, looper[l])
      <3>1. LET q == [looper[l] EXCEPT !.pc = "running", !.task = Head(man_tasks)] IN
            /\ q \in Manual!LooperStates
            /\ q.pc = "running" /\ q.task = Head(man_tasks) /\ q.count = looper[l].count
        BY <2>1, <2>4, HeadIsTask, ZenonT(30) DEF Manual!LooperStates
      <3> QED
        BY <1>3, <2>1, <2>4, <3>1, Zenon DEF Manual!pop, Manual!become_looper, Pops, Manual!time_out
    <2> QED BY <1>3, <2>3, <2>4, SMTT(30) DEF Manual!time_out
  <1> QED BY <1>1, <1>2, <1>3

\* Without its front, a queue holds the other tasks, each once.
LEMMA ElementsOfTail ==
    ASSUME NEW S, NEW s \in Seq(S), s # <<>>, Manual!distinct(s)
    PROVE  /\ Head(s) \in Manual!elements(s) /\ Tail(s) \in Seq(S)
           /\ Manual!distinct(Tail(s))
           /\ Manual!elements(Tail(s)) = Manual!elements(s) \ {Head(s)}
  <1>1. /\ Len(s) \in Nat /\ Len(s) > 0 /\ Head(s) = s[1] /\ Tail(s) \in Seq(S)
        /\ Len(Tail(s)) = Len(s) - 1
        /\ \A k \in 1..Len(Tail(s)) : Tail(s)[k] = s[k + 1]
    OBVIOUS
  <1>2. Manual!distinct(Tail(s))
    BY <1>1, SMTT(30) DEF Manual!distinct
  <1>3. ASSUME NEW x \in Manual!elements(Tail(s))
        PROVE  x \in Manual!elements(s) /\ x # Head(s)
    <2>1. PICK k \in 1..Len(Tail(s)) : x = Tail(s)[k]
      BY DEF Manual!elements
    <2>2. k + 1 \in 1..Len(s) /\ x = s[k + 1] /\ 1 \in 1..Len(s) /\ k + 1 # 1
      BY <1>1, <2>1, SMTT(30)
    <2> QED BY <1>1, <2>2, SMTT(30) DEF Manual!elements, Manual!distinct
  <1>4. ASSUME NEW x \in Manual!elements(s), x # Head(s)
        PROVE  x \in Manual!elements(Tail(s))
    <2>1. PICK k \in 1..Len(s) : x = s[k]
      BY SMTT(30) DEF Manual!elements
    <2>2. k - 1 \in 1..Len(Tail(s)) /\ x = Tail(s)[k - 1]
      BY <1>1, <1>4, <2>1, SMTT(30)
    <2> QED BY <2>2, SMTT(30) DEF Manual!elements
  <1>5. Head(s) \in Manual!elements(s)
    BY <1>1, SMTT(30) DEF Manual!elements
  <1> QED BY <1>1, <1>2, <1>3, <1>4, <1>5

\* Two queues with different tasks make one that holds the tasks of both.
LEMMA ElementsOfConcat ==
    ASSUME NEW S, NEW s \in Seq(S), NEW t \in Seq(S), Manual!distinct(s), Manual!distinct(t),
           Manual!elements(s) \cap Manual!elements(t) = {}
    PROVE  /\ s \o t \in Seq(S) /\ Manual!distinct(s \o t)
           /\ Manual!elements(s \o t) = Manual!elements(s) \cup Manual!elements(t)
  <1>1. /\ Len(s) \in Nat /\ Len(t) \in Nat /\ Len(s \o t) = Len(s) + Len(t) /\ s \o t \in Seq(S)
        /\ \A k \in 1..Len(s) : (s \o t)[k] = s[k]
        /\ \A k \in 1..Len(t) : (s \o t)[Len(s) + k] = t[k]
    BY SMTT(30)
  <1>2. ASSUME NEW k \in 1..Len(s \o t)
        PROVE  \/ k \in 1..Len(s) /\ (s \o t)[k] = s[k]
               \/ k - Len(s) \in 1..Len(t) /\ (s \o t)[k] = t[k - Len(s)]
    <2>1. k > Len(s) => k - Len(s) \in 1..Len(t) /\ k = Len(s) + (k - Len(s))
      BY <1>1, SMTT(30)
    <2> QED BY <1>1, <2>1, SMTT(30)
  <1>3. Manual!distinct(s \o t)
    <2> SUFFICES ASSUME NEW i \in 1..Len(s \o t), NEW j \in 1..Len(s \o t),
                        (s \o t)[i] = (s \o t)[j]
                 PROVE  i = j
      BY SMTT(30) DEF Manual!distinct
    <2>1. \A k \in 1..Len(s), l \in 1..Len(t) : s[k] # t[l]
      BY SMTT(30) DEF Manual!elements
    <2>2. CASE i \in 1..Len(s) /\ (s \o t)[i] = s[i]
      <3>1. j \in 1..Len(s) /\ (s \o t)[j] = s[j]
        BY <1>2, <2>1, <2>2, Zenon
      <3> QED BY <2>2, <3>1, Zenon DEF Manual!distinct
    <2>3. CASE i - Len(s) \in 1..Len(t) /\ (s \o t)[i] = t[i - Len(s)]
      <3>1. j - Len(s) \in 1..Len(t) /\ (s \o t)[j] = t[j - Len(s)]
        BY <1>2, <2>1, <2>3, Zenon
      <3>2. i - Len(s) = j - Len(s)
        BY <2>3, <3>1, ZenonT(30) DEF Manual!distinct
      <3> QED BY <1>1, <3>2
    <2> QED BY <1>2, <2>2, <2>3, SMTT(30)
  <1>4. ASSUME NEW x \in Manual!elements(s \o t)
        PROVE  x \in Manual!elements(s) \cup Manual!elements(t)
    BY <1>2 DEF Manual!elements
  <1>5. ASSUME NEW x \in Manual!elements(s)
        PROVE  x \in Manual!elements(s \o t)
    <2>1. PICK k \in 1..Len(s) : x = s[k]
      BY SMTT(30) DEF Manual!elements
    <2>2. k \in 1..Len(s \o t) /\ (s \o t)[k] = x
      BY <1>1, <2>1, SMTT(30)
    <2> QED BY <2>2, SMTT(30) DEF Manual!elements
  <1>6. ASSUME NEW x \in Manual!elements(t)
        PROVE  x \in Manual!elements(s \o t)
    <2>1. PICK k \in 1..Len(t) : x = t[k]
      BY SMTT(30) DEF Manual!elements
    <2>2. Len(s) + k \in 1..Len(s \o t) /\ (s \o t)[Len(s) + k] = x
      BY <1>1, <2>1
    <2> QED BY <2>2, SMTT(30) DEF Manual!elements
  <1> QED BY <1>1, <1>3, <1>4, <1>5, <1>6, SMTT(30)

\* The empty queue holds no task.
LEMMA NoElements ==
    ASSUME NEW S
    PROVE  /\ <<>> \in Seq(S) /\ Manual!distinct(<<>>) /\ Manual!elements(<<>>) = {}
  BY DEF Manual!distinct, Manual!elements

\* A queue of tasks holds tasks.
LEMMA ElementsAreMembers ==
    ASSUME NEW S, NEW s \in Seq(S)
    PROVE  Manual!elements(s) \subseteq S
  BY DEF Manual!elements

\* What a task becomes.
LEMMA ManualBecomes ==
    ASSUME NEW S, NEW what, man_status' = Manual!become(S, what)
    PROVE  \A t \in Firings \cup posted : man_status'[t] = IF t \in S THEN what ELSE man_status[t]
  BY DEF Manual!become

\* A task that becomes something has a status again.
LEMMA ManualStatuses ==
    ASSUME NEW S, NEW what \in Manual!Contract!Statuses, man_status' = Manual!become(S, what),
           man_status \in [Firings \cup posted -> Manual!Contract!Statuses]
    PROVE  man_status' \in [Firings \cup posted -> Manual!Contract!Statuses]
  BY SMTT(30) DEF Manual!become

\* The task that a looper takes out runs, and the others are as before.
LEMMA PoppedRuns ==
    ASSUME NEW l \in Loopers, Pops(l)
    PROVE  \A t \in Firings \cup posted :
              man_status'[t] = IF t = Head(man_tasks) THEN "running" ELSE man_status[t]
  <1>1. man_status' = Manual!become({Head(man_tasks)}, "running")
    BY Zenon DEF Pops
  <1> DEFINE h == Head(man_tasks)
  <1>2. man_status' = Manual!become({h}, "running")
    BY <1>1, SMTT(30)
  <1> HIDE DEF h
  <1>3. \A t \in Firings \cup posted :
           man_status'[t] = IF t \in {h} THEN "running" ELSE man_status[t]
    BY <1>2, ManualBecomes, SMTT(30)
  <1> QED BY <1>3 DEF h

\* A span of one task.
LEMMA OneElement ==
    ASSUME NEW S, NEW x \in S
    PROVE  <<x>> \in Seq(S) /\ Manual!distinct(<<x>>) /\ Manual!elements(<<x>>) = {x}
  <1>1. <<x>> \in Seq(S) /\ Len(<<x>>) = 1 /\ <<x>>[1] = x
    OBVIOUS
  <1> QED BY <1>1 DEF Manual!distinct, Manual!elements

\* Every step of the manual executor keeps its types.
LEMMA ManualTypeOK == Manual!Inv /\ ManualStep => Manual!TypeOK'
  <1> SUFFICES ASSUME Manual!Inv, ManualStep
               PROVE  Manual!TypeOK'
    OBVIOUS
  <1>0. Manual!TypeOK
    BY DEF Manual!Inv
  <1>a. man_tasks \in Seq(Firings \cup posted)
    BY <1>0, SMTT(30) DEF Manual!TypeOK
  <1>b. looper \in [Loopers -> Manual!LooperStates]
    BY <1>0, SMTT(30) DEF Manual!TypeOK
  <1>c. \A l \in Loopers : looper[l].pc # "out" => looper[l].count > 0
    BY <1>0, SMTT(30) DEF Manual!TypeOK
  <1>d. man_status \in [Firings \cup posted -> Manual!Contract!Statuses]
    BY <1>0 DEF Manual!TypeOK
  <1>e. {"new", "queued", "running", "done", "refused", "destroyed"} \subseteq
           Manual!Contract!Statuses
    BY SMTT(30) DEF Manual!Contract!Statuses
  <1>f. calling \in [Callers -> {"idle", "notify", "abort", "sd_notify", "clear"}]
    BY <1>0 DEF Manual!TypeOK
  <1>g. ASSUME NEW l \in Loopers, NEW r \in Manual!LooperStates, r.pc # "out" => r.count > 0,
               looper' = [looper EXCEPT ![l] = r]
        PROVE  /\ looper' \in [Loopers -> Manual!LooperStates]
               /\ \A k \in Loopers : looper'[k].pc # "out" => looper'[k].count > 0
    BY <1>b, <1>c, <1>g, Zenon
  <1>1. ASSUME NEW l \in Loopers, Rests(l)
        PROVE  Manual!TypeOK'
    <2>1. /\ looper' \in [Loopers -> Manual!LooperStates]
          /\ \A k \in Loopers : looper'[k].pc # "out" => looper'[k].count > 0
      BY <1>1, <1>g, Zenon DEF Rests
    <2> QED BY <1>0, <1>1, <2>1, Zenon DEF Manual!TypeOK, Rests
  <1>2. ASSUME NEW l \in Loopers, Pops(l)
        PROVE  Manual!TypeOK'
    <2>1. /\ looper' \in [Loopers -> Manual!LooperStates]
          /\ \A k \in Loopers : looper'[k].pc # "out" => looper'[k].count > 0
      BY <1>2, <1>g, Zenon DEF Pops
    <2>2. man_tasks' \in Seq(Firings \cup posted)
      BY <1>2, <1>a DEF Pops
    <2>3. man_status' \in [Firings \cup posted -> Manual!Contract!Statuses]
      BY <1>2, <1>d, <1>e, ManualStatuses, Zenon DEF Pops
    <2> QED BY <1>0, <1>2, <2>1, <2>2, <2>3, Zenon DEF Manual!TypeOK, Pops
  <1>3. ASSUME NEW l \in Loopers, Manual!task_returns(l)
        PROVE  Manual!TypeOK'
    <2> DEFINE r == IF looper[l].count = 1 THEN Manual!out
                    ELSE [looper[l] EXCEPT !.pc = "check", !.task = Manual!none, !.count = @ - 1]
    <2>1. looper[l] \in Manual!LooperStates /\ looper[l].count > 0
      BY <1>3, <1>b, <1>c DEF Manual!task_returns
    <2>2. r \in Manual!LooperStates /\ (r.pc # "out" => r.count > 0)
      <3>1. CASE looper[l].count = 1
        BY <3>1 DEF Manual!LooperStates, Manual!out, Manual!none
      <3>2. CASE looper[l].count # 1
        <4>1. looper[l].count - 1 \in Nat /\ looper[l].count - 1 > 0
          BY <2>1, <3>2 DEF Manual!LooperStates
        <4> DEFINE n == looper[l].count - 1
        <4>2. r = [looper[l] EXCEPT !.pc = "check", !.task = Manual!none, !.count = n]
          BY <3>2
        <4> HIDE DEF n, r
        <4>3. n \in Nat /\ n > 0
          BY <4>1 DEF n
        <4> QED BY <2>1, <4>2, <4>3, Zenon DEF Manual!LooperStates, Manual!none
      <3> QED BY <3>1, <3>2
    <2>3. looper' = [looper EXCEPT ![l] = r]
      BY <1>3, SMTT(30) DEF Manual!task_returns, Manual!become_looper
    <2> HIDE DEF r
    <2>4. /\ looper' \in [Loopers -> Manual!LooperStates]
          /\ \A k \in Loopers : looper'[k].pc # "out" => looper'[k].count > 0
      BY <2>2, <2>3, <1>g, ZenonT(30)
    <2>5. man_status' \in [Firings \cup posted -> Manual!Contract!Statuses]
      BY <1>3, <1>d, <1>e, ManualStatuses, SMTT(30) DEF Manual!task_returns
    <2> QED BY <1>0, <1>3, <2>4, <2>5, Zenon DEF Manual!TypeOK, Manual!task_returns
  <1>4. ASSUME NEW l \in Loopers, Manual!clear(l)
        PROVE  Manual!TypeOK'
    <2>1. man_status' \in [Firings \cup posted -> Manual!Contract!Statuses]
      BY <1>4, <1>d, <1>e, ManualStatuses, SMTT(30) DEF Manual!clear
    <2>2. man_tasks' \in Seq(Firings \cup posted)
      BY <1>4, NoElements DEF Manual!clear
    <2> QED BY <1>0, <1>4, <2>1, <2>2, Zenon DEF Manual!TypeOK, Manual!clear
  <1>5. ASSUME NEW c \in Callers, NEW tasks \in Seq(Firings \cup posted), Manual!enqueue(c, tasks)
        PROVE  Manual!TypeOK'
    <2>1. man_status' \in [Firings \cup posted -> Manual!Contract!Statuses]
      BY <1>5, <1>d, <1>e, ManualStatuses, SMTT(30) DEF Manual!enqueue
    <2>2. man_tasks' \in Seq(Firings \cup posted)
      <3>1. man_tasks \o tasks \in Seq(Firings \cup posted)
        BY <1>a
      <3> QED BY <1>5, <1>a, <3>1, Zenon DEF Manual!enqueue
    <2>3. calling' \in [Callers -> {"idle", "notify", "abort", "sd_notify", "clear"}]
      <3>1. [calling EXCEPT ![c] = "notify"]
               \in [Callers -> {"idle", "notify", "abort", "sd_notify", "clear"}]
        BY <1>f
      <3> QED BY <1>5, <1>f, <3>1, Zenon DEF Manual!enqueue
    <2> QED BY <1>0, <1>5, <2>1, <2>2, <2>3, Zenon DEF Manual!TypeOK, Manual!enqueue
  <1>6. ASSUME NEW c \in Callers, Manual!notify_all(c)
        PROVE  Manual!TypeOK'
    <2>1. ASSUME NEW l \in Loopers
          PROVE  /\ [looper[l] EXCEPT !.pc = "check"] \in Manual!LooperStates
                 /\ [looper[l] EXCEPT !.pc = "check"].count = looper[l].count
      BY <1>b DEF Manual!LooperStates
    <2>2. looper' \in [Loopers -> Manual!LooperStates]
      BY <1>6, <1>b, <2>1, SMTT(30) DEF Manual!notify_all, Manual!wake
    <2>3. \A l \in Loopers : looper'[l].pc # "out" => looper'[l].count > 0
      BY <1>6, <1>c, <2>1, SMTT(30) DEF Manual!notify_all, Manual!wake, Manual!asleep
    <2>4. calling' \in [Callers -> {"idle", "notify", "abort", "sd_notify", "clear"}]
      BY <1>6, <1>f DEF Manual!notify_all
    <2> QED BY <1>0, <1>6, <2>2, <2>3, <2>4, Zenon DEF Manual!TypeOK, Manual!notify_all
  <1>7. ASSUME NEW c \in Callers, Manual!shutdown(c)
        PROVE  Manual!TypeOK'
    <2>1. calling' \in [Callers -> {"idle", "notify", "abort", "sd_notify", "clear"}]
      BY <1>7, <1>f DEF Manual!shutdown
    <2> QED BY <1>0, <1>7, <2>1, Zenon DEF Manual!TypeOK, Manual!shutdown
  <1>8. ASSUME NEW c \in Callers, Manual!set_abort(c)
        PROVE  Manual!TypeOK'
    <2>1. calling' \in [Callers -> {"idle", "notify", "abort", "sd_notify", "clear"}]
      BY <1>8, <1>f, SMTT(30) DEF Manual!set_abort
    <2>2. man_tasks' \in Seq(Firings \cup posted)
      BY <1>8, NoElements DEF Manual!set_abort
    <2> QED BY <1>0, <1>8, <2>1, <2>2, Zenon DEF Manual!TypeOK, Manual!set_abort
  <1>9. ASSUME NEW c \in Callers, Manual!destroy_tasks(c)
        PROVE  Manual!TypeOK'
    <2>1. calling' \in [Callers -> {"idle", "notify", "abort", "sd_notify", "clear"}]
      BY <1>9, <1>f, SMTT(30) DEF Manual!destroy_tasks
    <2>2. man_status' \in [Firings \cup posted -> Manual!Contract!Statuses]
      BY <1>9, <1>d, <1>e, ManualStatuses DEF Manual!destroy_tasks
    <2> QED BY <1>0, <1>9, <2>1, <2>2, Zenon DEF Manual!TypeOK, Manual!destroy_tasks
  <1> QED
    BY <1>0, <1>1, <1>2, <1>3, <1>4, <1>5, <1>6, <1>7, <1>8, <1>9, LooperActs, Zenon
    DEF ManualStep

\* QueueHoldsQueued of the next state, with the prime moved inside.
LEMMA QueueHoldsQueuedNext ==
    ASSUME Manual!distinct(man_tasks'), man_abort' => man_tasks' = <<>>,
           ~man_abort' => \A t \in Firings \cup posted :
                              man_status'[t] = "queued" <=> t \in Manual!elements(man_tasks')
    PROVE  Manual!QueueHoldsQueued'
  BY Zenon DEF Manual!QueueHoldsQueued, Manual!elements, Manual!distinct

\* The queue holds the queued tasks, each once: enqueue appends new ones, a looper
\* takes one out and runs it, and clear destroys what it takes out.
LEMMA ManualQueueHoldsQueued == Manual!Inv /\ ManualStep => Manual!QueueHoldsQueued'
  <1> SUFFICES ASSUME Manual!Inv, ManualStep
               PROVE  Manual!QueueHoldsQueued'
    OBVIOUS
  <1>0. Manual!TypeOK /\ Manual!OneRunner /\ Manual!OneShutdown
    BY DEF Manual!Inv
  <1>a. man_tasks \in Seq(Firings \cup posted)
    BY <1>0, SMTT(30) DEF Manual!TypeOK
  <1>b. /\ Manual!distinct(man_tasks)
        /\ man_abort => man_tasks = <<>>
        /\ ~man_abort => \A t \in Firings \cup posted :
                            man_status[t] = "queued" <=> t \in Manual!elements(man_tasks)
    BY DEF Manual!Inv, Manual!QueueHoldsQueued
  <1>1. ASSUME NEW l \in Loopers, Rests(l)
        PROVE  Manual!QueueHoldsQueued'
    BY <1>1, <1>b, QueueHoldsQueuedNext, Zenon DEF Rests
  <1>2. ASSUME NEW l \in Loopers, Pops(l)
        PROVE  Manual!QueueHoldsQueued'
    <2>1. /\ Manual!distinct(man_tasks')
          /\ Manual!elements(man_tasks') = Manual!elements(man_tasks) \ {Head(man_tasks)}
      BY <1>2, <1>a, <1>b, ElementsOfTail, SMTT(30) DEF Pops
    <2>2. \A t \in Firings \cup posted :
             man_status'[t] = IF t = Head(man_tasks) THEN "running" ELSE man_status[t]
      BY <1>2, PoppedRuns, SMTT(30)
    <2>3. ~man_abort /\ ~man_abort'
      BY <1>2, SMTT(30) DEF Pops
    <2> QED BY <1>b, <2>1, <2>2, <2>3, QueueHoldsQueuedNext, SMTT(30)
  <1>3. ASSUME NEW l \in Loopers, Manual!task_returns(l)
        PROVE  Manual!QueueHoldsQueued'
    <2>1. \A t \in Firings \cup posted :
             man_status'[t] = IF t = looper[l].task THEN "done" ELSE man_status[t]
      BY <1>3, ManualBecomes DEF Manual!task_returns
    <2>2. man_status[looper[l].task] = "running"
      BY <1>0, <1>3 DEF Manual!OneRunner, Manual!task_returns
    <2>3. UNCHANGED <<man_tasks, man_abort>>
      BY <1>3, SMTT(30) DEF Manual!task_returns
    <2> QED BY <1>b, <2>1, <2>2, <2>3, QueueHoldsQueuedNext
  <1>4. ASSUME NEW l \in Loopers, Manual!clear(l)
        PROVE  Manual!QueueHoldsQueued'
    <2>1. \A t \in Firings \cup posted :
             man_status'[t] = IF t \in Manual!elements(man_tasks) THEN "destroyed"
                              ELSE man_status[t]
      BY <1>4, ManualBecomes, SMTT(30) DEF Manual!clear
    <2>2. /\ Manual!distinct(man_tasks') /\ Manual!elements(man_tasks') = {}
          /\ ~man_abort /\ ~man_abort'
      BY <1>4, NoElements, SMTT(30) DEF Manual!clear
    <2> QED BY <1>b, <2>1, <2>2, QueueHoldsQueuedNext, SMTT(30)
  <1>5. ASSUME NEW c \in Callers, NEW tasks \in Seq(Firings \cup posted), Manual!distinct(tasks),
               \A x \in Manual!elements(tasks) : man_status[x] = "new",
               Manual!enqueue(c, tasks)
        PROVE  Manual!QueueHoldsQueued'
    <2>1. CASE man_abort
      BY <1>5, <1>b, <2>1, QueueHoldsQueuedNext, Zenon DEF Manual!enqueue
    <2>2. CASE ~man_abort
      <3>1. Manual!elements(tasks) \subseteq Firings \cup posted
        BY ElementsAreMembers, SMTT(30)
      <3>2. Manual!elements(man_tasks) \cap Manual!elements(tasks) = {}
        BY <1>5, <1>b, <2>2, <3>1, SMTT(30)
      <3>3. man_tasks' = man_tasks \o tasks /\ ~man_abort'
        BY <1>5, <2>2, SMTT(30) DEF Manual!enqueue
      <3>4. /\ Manual!distinct(man_tasks')
            /\ Manual!elements(man_tasks') = Manual!elements(man_tasks) \cup Manual!elements(tasks)
        BY <1>5, <1>a, <1>b, <3>2, <3>3, ElementsOfConcat, SMTT(30)
      <3>5. \A t \in Firings \cup posted :
               man_status'[t] = IF t \in Manual!elements(tasks) THEN "queued" ELSE man_status[t]
        BY <1>5, <2>2, ManualBecomes DEF Manual!enqueue
      <3> QED BY <1>b, <2>2, <3>3, <3>4, <3>5, QueueHoldsQueuedNext, SMTT(30)
    <2> QED BY <2>1, <2>2
  <1>6. ASSUME NEW c \in Callers, Manual!notify_all(c)
        PROVE  Manual!QueueHoldsQueued'
    BY <1>6, <1>b, QueueHoldsQueuedNext, Zenon DEF Manual!notify_all
  <1>7. ASSUME NEW c \in Callers, Manual!shutdown(c)
        PROVE  Manual!QueueHoldsQueued'
    BY <1>7, <1>b, QueueHoldsQueuedNext, Zenon DEF Manual!shutdown
  <1>8. ASSUME NEW c \in Callers, Manual!set_abort(c)
        PROVE  Manual!QueueHoldsQueued'
    BY <1>8, NoElements, QueueHoldsQueuedNext, Zenon DEF Manual!set_abort
  <1>9. ASSUME NEW c \in Callers, Manual!destroy_tasks(c)
        PROVE  Manual!QueueHoldsQueued'
    <2>1. man_abort
      BY <1>0, <1>9, SMTT(30) DEF Manual!OneShutdown, Manual!shutting, Manual!destroy_tasks
    <2> QED BY <1>9, <1>b, <2>1, QueueHoldsQueuedNext, Zenon DEF Manual!destroy_tasks
  <1> QED
    BY <1>0, <1>1, <1>2, <1>3, <1>4, <1>5, <1>6, <1>7, <1>8, <1>9, LooperActs, Zenon
    DEF ManualStep

\* OneRunner survives when the loopers that run and their tasks are as before.
LEMMA RunnersUnchanged ==
    ASSUME Manual!OneRunner,
           \A l \in Loopers : looper'[l].pc = "running" =>
               looper[l].pc = "running" /\ looper'[l].task = looper[l].task,
           \A t \in Firings \cup posted : man_status[t] = "running" => man_status'[t] = "running"
    PROVE  Manual!OneRunner'
  BY DEF Manual!OneRunner

\* A task is taken out of the queue by one looper, and nobody else touches it while
\* it runs.
LEMMA ManualOneRunner == Manual!Inv /\ ManualStep => Manual!OneRunner'
  <1> SUFFICES ASSUME Manual!Inv, ManualStep
               PROVE  Manual!OneRunner'
    OBVIOUS
  <1>0. Manual!TypeOK /\ Manual!OneRunner /\ Manual!QueueHoldsQueued
    BY DEF Manual!Inv
  <1>a. man_tasks \in Seq(Firings \cup posted)
    BY <1>0, SMTT(30) DEF Manual!TypeOK
  <1>b. looper \in [Loopers -> Manual!LooperStates]
    BY <1>0, SMTT(30) DEF Manual!TypeOK
  <1>c. ~man_abort => \A t \in Firings \cup posted :
                         man_status[t] = "queued" <=> t \in Manual!elements(man_tasks)
    BY <1>0, SMTT(30) DEF Manual!QueueHoldsQueued
  <1>d. Manual!distinct(man_tasks)
    BY <1>0, SMTT(30) DEF Manual!QueueHoldsQueued
  <1>1. ASSUME NEW l \in Loopers, Rests(l)
        PROVE  Manual!OneRunner'
    <2>1. \A k \in Loopers : looper'[k].pc = "running" => looper'[k] = looper[k]
      BY <1>1, <1>b, SMTT(30) DEF Rests
    <2> QED BY <1>0, <1>1, <2>1, RunnersUnchanged, SMTT(30) DEF Rests
  <1>2. ASSUME NEW l \in Loopers, Pops(l)
        PROVE  Manual!OneRunner'
    <2>1. Head(man_tasks) \in Firings \cup posted /\ man_status[Head(man_tasks)] = "queued"
      BY <1>0, <1>2, <1>a, <1>c, <1>d, ElementsOfTail, HeadIsTask, SMTT(30) DEF Pops
    <2>2. \A k \in Loopers : looper[k].pc = "running" => looper[k].task # Head(man_tasks)
      BY <1>0, <2>1, SMTT(30) DEF Manual!OneRunner
    <2>3. /\ looper'[l].pc = "running" /\ looper'[l].task = Head(man_tasks)
          /\ \A k \in Loopers \ {l} : looper'[k] = looper[k]
      BY <1>2, <1>b, SMTT(30) DEF Pops
    <2>4. \A t \in Firings \cup posted :
             man_status'[t] = IF t = Head(man_tasks) THEN "running" ELSE man_status[t]
      BY <1>2, PoppedRuns
    <2> QED BY <1>0, <2>1, <2>2, <2>3, <2>4, SMTT(30) DEF Manual!OneRunner
  <1>3. ASSUME NEW l \in Loopers, Manual!task_returns(l)
        PROVE  Manual!OneRunner'
    <2>1. \A t \in Firings \cup posted :
             man_status'[t] = IF t = looper[l].task THEN "done" ELSE man_status[t]
      BY <1>3, ManualBecomes DEF Manual!task_returns
    <2>2. looper'[l].pc # "running" /\ \A k \in Loopers \ {l} : looper'[k] = looper[k]
      <3>1. looper[l] \in Manual!LooperStates
        BY <1>b
      <3>2. PICK r : /\ looper' = [looper EXCEPT ![l] = r]
                     /\ r = IF looper[l].count = 1 THEN Manual!out
                            ELSE [looper[l] EXCEPT !.pc = "check", !.task = Manual!none,
                                                   !.count = @ - 1]
        BY <1>3, Zenon DEF Manual!task_returns, Manual!become_looper
      <3>3. r.pc # "running"
        BY <3>1, <3>2 DEF Manual!out, Manual!LooperStates
      <3> QED BY <1>b, <3>2, <3>3, Zenon
    <2>3. looper[l].pc = "running"
      BY <1>3, SMTT(30) DEF Manual!task_returns
    <2>4. \A k \in Loopers \ {l} : looper[k].pc = "running" => looper[k].task # looper[l].task
      BY <1>0, <2>3, SMTT(30) DEF Manual!OneRunner
    <2> QED BY <1>0, <2>1, <2>2, <2>4, SMTT(30) DEF Manual!OneRunner
  <1>4. ASSUME NEW l \in Loopers, Manual!clear(l)
        PROVE  Manual!OneRunner'
    <2>1. \A t \in Firings \cup posted :
             man_status'[t] = IF t \in Manual!elements(man_tasks) THEN "destroyed"
                              ELSE man_status[t]
      BY <1>4, ManualBecomes DEF Manual!clear
    <2>2. ~man_abort /\ looper' = looper
      BY <1>4, SMTT(30) DEF Manual!clear
    <2>3. \A t \in Firings \cup posted : man_status[t] = "running" => man_status'[t] = "running"
      BY <1>c, <2>1, <2>2, SMTT(30)
    <2> QED BY <1>0, <2>2, <2>3, RunnersUnchanged, SMTT(30)
  <1>5. ASSUME NEW c \in Callers, NEW tasks \in Seq(Firings \cup posted),
               \A x \in Manual!elements(tasks) : man_status[x] = "new",
               Manual!enqueue(c, tasks)
        PROVE  Manual!OneRunner'
    <2>1. PICK what : man_status' = Manual!become(Manual!elements(tasks), what)
      BY <1>5, Zenon DEF Manual!enqueue
    <2>2. looper' = looper
      BY <1>5, SMTT(30) DEF Manual!enqueue
    <2>3. \A t \in Firings \cup posted : man_status[t] = "running" => man_status'[t] = "running"
      BY <1>5, <2>1, ManualBecomes, SMTT(30)
    <2> QED BY <1>0, <2>2, <2>3, RunnersUnchanged
  <1>6. ASSUME NEW c \in Callers, Manual!notify_all(c)
        PROVE  Manual!OneRunner'
    <2>1. ASSUME NEW l \in Loopers, looper'[l].pc = "running"
          PROVE  looper'[l] = looper[l]
      <3>1. [looper[l] EXCEPT !.pc = "check"].pc = "check"
        BY <1>b DEF Manual!LooperStates
      <3>2. looper'[l] = IF l \in Manual!asleep THEN [looper[l] EXCEPT !.pc = "check"]
                         ELSE looper[l]
        BY <1>6, SMTT(30) DEF Manual!notify_all, Manual!wake
      <3> QED BY <2>1, <3>1, <3>2, Zenon
    <2>2. man_status' = man_status
      BY <1>6, SMTT(30) DEF Manual!notify_all
    <2> QED BY <1>0, <2>1, <2>2, RunnersUnchanged, SMTT(30)
  <1>7. ASSUME NEW c \in Callers, Manual!shutdown(c) \/ Manual!set_abort(c)
        PROVE  Manual!OneRunner'
    BY <1>0, <1>7, RunnersUnchanged, SMTT(30) DEF Manual!shutdown, Manual!set_abort
  <1>8. ASSUME NEW c \in Callers, Manual!destroy_tasks(c)
        PROVE  Manual!OneRunner'
    <2>1. \A t \in Firings \cup posted : man_status[t] = "running" => man_status'[t] = "running"
      BY <1>8, ManualBecomes DEF Manual!destroy_tasks
    <2> QED BY <1>0, <1>8, <2>1, RunnersUnchanged, SMTT(30) DEF Manual!destroy_tasks
  <1> QED
    BY <1>0, <1>1, <1>2, <1>3, <1>4, <1>5, <1>6, <1>7, <1>8, LooperActs, Zenon
    DEF ManualStep

\* The exchange of the atomic flag lets one caller into shutdown, and that one
\* destroys what was queued.
LEMMA ManualOneShutdown == Manual!Inv /\ ManualStep => Manual!OneShutdown'
  <1> SUFFICES ASSUME Manual!Inv, ManualStep
               PROVE  Manual!OneShutdown'
    OBVIOUS
  <1>0. Manual!TypeOK /\ Manual!OneShutdown /\ Manual!QueueHoldsQueued
    BY SMTT(30) DEF Manual!Inv
  <1>a. calling \in [Callers -> {"idle", "notify", "abort", "sd_notify", "clear"}]
    BY <1>0, SMTT(30) DEF Manual!TypeOK
  <1>1. ASSUME UNCHANGED <<man_abort, man_atomic_abort>>,
               \A c \in Callers : Manual!shutting(c)' <=> Manual!shutting(c),
               \A c \in Callers : calling'[c] = "abort" <=> calling[c] = "abort",
               \A t \in Firings \cup posted :
                  man_status'[t] = "queued" => man_status[t] = "queued" \/ ~man_abort
        PROVE  Manual!OneShutdown'
    <2>1. \A c \in Callers :
             (calling'[c] \in {"abort", "sd_notify", "clear"}) <=> Manual!shutting(c)
      BY <1>1, Zenon DEF Manual!shutting
    <2> QED BY <1>0, <1>1, <2>1, ZenonT(30) DEF Manual!OneShutdown, Manual!shutting
  <1>2. ASSUME NEW l \in Loopers, Rests(l)
        PROVE  Manual!OneShutdown'
    BY <1>1, <1>2, Zenon DEF Rests, Manual!shutting
  <1>3. ASSUME NEW l \in Loopers, Pops(l)
        PROVE  Manual!OneShutdown'
    <2>1. ~man_abort /\ UNCHANGED <<man_abort, man_atomic_abort, calling>>
      BY <1>3, Zenon DEF Pops
    <2> QED BY <1>1, <2>1, Zenon DEF Manual!shutting
  <1>4. ASSUME NEW l \in Loopers, Manual!task_returns(l)
        PROVE  Manual!OneShutdown'
    <2>1. \A t \in Firings \cup posted : man_status'[t] = "queued" => man_status[t] = "queued"
      BY <1>4, ManualBecomes DEF Manual!task_returns
    <2>2. UNCHANGED <<man_abort, man_atomic_abort, calling>>
      BY <1>4, SMTT(30) DEF Manual!task_returns
    <2> QED BY <1>1, <2>1, <2>2, Zenon DEF Manual!shutting
  <1>5. ASSUME NEW l \in Loopers, Manual!clear(l)
        PROVE  Manual!OneShutdown'
    <2>1. ~man_abort /\ UNCHANGED <<man_abort, man_atomic_abort, calling>>
      BY <1>5 DEF Manual!clear
    <2> QED BY <1>1, <2>1, Zenon DEF Manual!shutting
  <1>6. ASSUME NEW c \in Callers, NEW tasks \in Seq(Firings \cup posted), Manual!enqueue(c, tasks)
        PROVE  Manual!OneShutdown'
    <2>1. CASE man_abort
      <3>1. \A t \in Firings \cup posted : man_status'[t] = "queued" => man_status[t] = "queued"
        BY <1>6, <2>1, ManualBecomes, SMTT(30) DEF Manual!enqueue
      <3>2. UNCHANGED <<man_abort, man_atomic_abort, calling>>
        BY <1>6, <2>1, SMTT(30) DEF Manual!enqueue
      <3> QED BY <1>1, <3>1, <3>2, Zenon DEF Manual!shutting
    <2>2. CASE ~man_abort
      <3>1. /\ UNCHANGED <<man_abort, man_atomic_abort>>
            /\ calling[c] = "idle" /\ calling' = [calling EXCEPT ![c] = "notify"]
        BY <1>6, <2>2, SMTT(30) DEF Manual!enqueue
      <3> QED BY <1>1, <1>a, <2>2, <3>1, SMTT(30) DEF Manual!shutting
    <2> QED BY <2>1, <2>2
  <1>7. ASSUME NEW c \in Callers, Manual!notify_all(c)
        PROVE  Manual!OneShutdown'
    <2>1. /\ UNCHANGED <<man_abort, man_atomic_abort, man_status>>
          /\ calling[c] \in {"notify", "sd_notify"}
          /\ calling' = [calling EXCEPT ![c] = IF @ = "notify" THEN "idle" ELSE "clear"]
      BY <1>7, SMTT(30) DEF Manual!notify_all
    <2> QED BY <1>1, <1>a, <2>1, SMTT(30) DEF Manual!shutting
  <1>8. ASSUME NEW c \in Callers, Manual!shutdown(c)
        PROVE  Manual!OneShutdown'
    BY <1>0, <1>a, <1>8, SMTT(30) DEF Manual!OneShutdown, Manual!shutting, Manual!shutdown
  <1>9. ASSUME NEW c \in Callers, Manual!set_abort(c)
        PROVE  Manual!OneShutdown'
    BY <1>0, <1>a, <1>9, SMTT(30) DEF Manual!OneShutdown, Manual!shutting, Manual!set_abort
  <1>10. ASSUME NEW c \in Callers, Manual!destroy_tasks(c)
         PROVE  Manual!OneShutdown'
    <2>1. \A t \in Firings \cup posted : man_status'[t] # "queued"
      BY <1>10, ManualBecomes, SMTT(30) DEF Manual!destroy_tasks
    <2>2. /\ UNCHANGED <<man_abort, man_atomic_abort>>
          /\ calling[c] = "clear" /\ calling' = [calling EXCEPT ![c] = "idle"]
      BY <1>10, SMTT(30) DEF Manual!destroy_tasks
    <2> QED BY <1>0, <1>a, <2>1, <2>2, ZenonT(30) DEF Manual!OneShutdown, Manual!shutting
  <1> QED
    BY <1>0, <1>2, <1>3, <1>4, <1>5, <1>6, <1>7, <1>8, <1>9, <1>10, LooperActs, Zenon
    DEF ManualStep

\* The invariant of the manual executor is inductive.
LEMMA ManualInv == Manual!Inv /\ ManualStep => Manual!Inv'
  BY ManualTypeOK, ManualQueueHoldsQueued, ManualOneRunner, ManualOneShutdown, SMTT(30) DEF Manual!Inv

\* It is kept by steps of the other parts.
LEMMA ManualStutter == Manual!Inv /\ UNCHANGED manual_vars => Manual!Inv'
  <1> SUFFICES ASSUME Manual!Inv, UNCHANGED manual_vars
               PROVE  Manual!Inv'
    OBVIOUS
  <1>1. UNCHANGED <<man_tasks, man_abort, man_atomic_abort, looper, calling, man_status>>
    BY DEF manual_vars
  <1>2. Manual!TypeOK'
    BY <1>1, Zenon DEF Manual!Inv, Manual!TypeOK
  <1>3. Manual!QueueHoldsQueued'
    BY <1>1, QueueHoldsQueuedNext, Zenon DEF Manual!Inv, Manual!QueueHoldsQueued
  <1>4. Manual!OneRunner'
    BY <1>1, RunnersUnchanged, Zenon DEF Manual!Inv
  <1>5. Manual!OneShutdown'
    BY <1>1, Zenon DEF Manual!Inv, Manual!OneShutdown, Manual!shutting
  <1> QED BY <1>2, <1>3, <1>4, <1>5, SMTT(30) DEF Manual!Inv

\* It holds of a new manual executor.
LEMMA ManualInit == Manual!Init => Manual!Inv
  <1> SUFFICES ASSUME Manual!Init
               PROVE  Manual!Inv
    OBVIOUS
  <1>1. Manual!out \in Manual!LooperStates /\ Manual!out.pc = "out"
    BY DEF Manual!out, Manual!none, Manual!LooperStates
  <1>2. "new" \in Manual!Contract!Statuses
    BY SMTT(30) DEF Manual!Contract!Statuses
  <1>3. man_tasks \in Seq(Firings \cup posted) /\ Manual!distinct(man_tasks)
        /\ Manual!elements(man_tasks) = {}
    BY NoElements, SMTT(30) DEF Manual!Init
  <1>4. \A l \in Loopers : looper[l] = Manual!out
    BY SMTT(30) DEF Manual!Init
  <1>5. Manual!TypeOK
    BY <1>1, <1>2, <1>3, <1>4, ZenonT(30) DEF Manual!TypeOK, Manual!Init
  <1>6. Manual!QueueHoldsQueued
    BY <1>3 DEF Manual!QueueHoldsQueued, Manual!Init
  <1>7. Manual!OneRunner
    BY <1>1, <1>4 DEF Manual!OneRunner
  <1>8. Manual!OneShutdown
    BY DEF Manual!OneShutdown, Manual!shutting, Manual!Init
  <1> QED BY <1>5, <1>6, <1>7, <1>8, SMTT(30) DEF Manual!Inv
-----------------------------------------------------------------------------
\* What the threads of a composition do to the thread executor.
ThreadStep ==
    \/ \E tasks \in SUBSET (Firings \cup posted) :
          (\A x \in tasks : thr_status[x] = "new") /\ Thread!enqueue(tasks)
    \/ \E t \in Firings \cup posted :
          \/ Thread!task_starts(t) \/ Thread!retire_worker(t)
          \/ Thread!notify_one(t) \/ Thread!join(t)
    \/ Thread!shutdown \/ Thread!wait_for_workers \/ Thread!join_last_retired

ThreadStates == {"none", "started", "task", "notify", "join", "ended", "joined"}

\* Every step of the thread executor keeps its types.
LEMMA ThreadTypeOK == Thread!Inv /\ ThreadStep => Thread!TypeOK'
  <1> SUFFICES ASSUME Thread!Inv, ThreadStep
               PROVE  Thread!TypeOK'
    OBVIOUS
  <1>0. Thread!TypeOK
    BY DEF Thread!Inv
  <1>a. thread \in [Firings \cup posted -> ThreadStates]
    BY <1>0, SMTT(30) DEF Thread!TypeOK, ThreadStates
  <1>b. thr_local \in [Firings \cup posted -> SUBSET (Firings \cup posted)]
    BY <1>0, SMTT(30) DEF Thread!TypeOK
  <1>c. thr_status \in [Firings \cup posted -> Thread!Contract!Statuses]
    BY <1>0 DEF Thread!TypeOK
  <1>d. {"new", "queued", "running", "done", "refused", "destroyed"} \subseteq
           Thread!Contract!Statuses
    BY DEF Thread!Contract!Statuses
  <1>e. {"none", "started", "task", "notify", "join", "ended", "joined"} \subseteq ThreadStates
    BY DEF ThreadStates
  <1>1. ASSUME NEW tasks \in SUBSET (Firings \cup posted), Thread!enqueue(tasks)
        PROVE  Thread!TypeOK'
    <2>1. thr_status' \in [Firings \cup posted -> Thread!Contract!Statuses]
      <3>1. ASSUME NEW what \in {"refused", "queued"}
            PROVE  Thread!become(tasks, what) \in [Firings \cup posted -> Thread!Contract!Statuses]
        BY <1>c, <1>d DEF Thread!become
      <3> QED BY <1>1, <3>1, Zenon DEF Thread!enqueue
    <2>2. thread' \in [Firings \cup posted -> ThreadStates]
      <3>1. [t \in Firings \cup posted |-> IF t \in tasks THEN "started" ELSE thread[t]]
               \in [Firings \cup posted -> ThreadStates]
        BY <1>a, <1>e
      <3> QED BY <1>1, <1>a, <3>1, Zenon DEF Thread!enqueue
    <2>3. thr_workers' \subseteq Firings \cup posted
      BY <1>0, <1>1, Zenon DEF Thread!TypeOK, Thread!enqueue
    <2> QED BY <1>0, <1>1, <2>1, <2>2, <2>3, Zenon DEF Thread!TypeOK, Thread!enqueue, ThreadStates
  <1>2. ASSUME NEW t \in Firings \cup posted, Thread!task_starts(t)
        PROVE  Thread!TypeOK'
    <2>1. thr_status' \in [Firings \cup posted -> Thread!Contract!Statuses]
      BY <1>2, <1>c, <1>d, SMTT(30) DEF Thread!task_starts
    <2>2. thread' \in [Firings \cup posted -> ThreadStates]
      BY <1>2, <1>a, <1>e, SMTT(30) DEF Thread!task_starts
    <2> QED BY <1>0, <1>2, <2>1, <2>2, Zenon DEF Thread!TypeOK, Thread!task_starts, ThreadStates
  <1>3. ASSUME NEW t \in Firings \cup posted, Thread!retire_worker(t)
        PROVE  Thread!TypeOK'
    <2>1. thr_status' \in [Firings \cup posted -> Thread!Contract!Statuses]
      BY <1>3, <1>c, <1>d, SMTT(30) DEF Thread!retire_worker
    <2>2. thread' \in [Firings \cup posted -> ThreadStates]
      BY <1>3, <1>a, <1>e, SMTT(30) DEF Thread!retire_worker
    <2>3. thr_local' \in [Firings \cup posted -> SUBSET (Firings \cup posted)]
      <3>1. thr_last_retired \in SUBSET (Firings \cup posted)
        BY <1>0 DEF Thread!TypeOK
      <3> QED BY <1>3, <1>b, <3>1, SMTT(30) DEF Thread!retire_worker
    <2>4. /\ thr_workers' \subseteq Firings \cup posted
          /\ thr_last_retired' \subseteq Firings \cup posted
      BY <1>0, <1>3, Zenon DEF Thread!TypeOK, Thread!retire_worker
    <2> QED BY <1>0, <1>3, <2>1, <2>2, <2>3, <2>4, Zenon
            DEF Thread!TypeOK, Thread!retire_worker, ThreadStates
  <1>4. ASSUME NEW t \in Firings \cup posted, Thread!notify_one(t)
        PROVE  Thread!TypeOK'
    <2>1. thread' \in [Firings \cup posted -> ThreadStates]
      BY <1>4, <1>a, <1>e, SMTT(30) DEF Thread!notify_one
    <2>2. thr_shutter' \in {"out", "wait", "asleep", "join", "returned"}
      BY <1>0, <1>4 DEF Thread!TypeOK, Thread!notify_one
    <2> QED BY <1>0, <1>4, <2>1, <2>2, Zenon DEF Thread!TypeOK, Thread!notify_one, ThreadStates
  <1>5. ASSUME NEW t \in Firings \cup posted, Thread!join(t)
        PROVE  Thread!TypeOK'
    <2>1. thread' \in [Firings \cup posted -> ThreadStates]
      BY <1>5, <1>a, <1>e, SMTT(30) DEF Thread!join
    <2>2. thr_local' \in [Firings \cup posted -> SUBSET (Firings \cup posted)]
      BY <1>5, <1>b DEF Thread!join
    <2> QED BY <1>0, <1>5, <2>1, <2>2, Zenon DEF Thread!TypeOK, Thread!join, ThreadStates
  <1>6. ASSUME Thread!shutdown
        PROVE  Thread!TypeOK'
    BY <1>0, <1>6, Zenon DEF Thread!TypeOK, Thread!shutdown
  <1>7. ASSUME Thread!wait_for_workers
        PROVE  Thread!TypeOK'
    BY <1>0, <1>7, Zenon DEF Thread!TypeOK, Thread!wait_for_workers
  <1>8. ASSUME Thread!join_last_retired
        PROVE  Thread!TypeOK'
    <2>1. thread' \in [Firings \cup posted -> ThreadStates]
      BY <1>8, <1>a, <1>e DEF Thread!join_last_retired
    <2> QED BY <1>0, <1>8, <2>1, Zenon DEF Thread!TypeOK, Thread!join_last_retired, ThreadStates
  <1> QED
    BY <1>1, <1>2, <1>3, <1>4, <1>5, <1>6, <1>7, <1>8, Zenon DEF ThreadStep

\* m_workers lists the threads at work: enqueue lists the threads it starts, and
\* retire_worker takes a thread out when its task has returned.
LEMMA ThreadWorkersAtWork == Thread!Inv /\ ThreadStep => Thread!WorkersAtWork'
  <1> SUFFICES ASSUME Thread!Inv, ThreadStep
               PROVE  Thread!WorkersAtWork'
    OBVIOUS
  <1>0. Thread!TypeOK /\ Thread!WorkersAtWork /\ Thread!JoinedByOne
    BY SMTT(30) DEF Thread!Inv
  <1>a. /\ DOMAIN thread = Firings \cup posted /\ DOMAIN thr_status = Firings \cup posted
        /\ thread = [t \in Firings \cup posted |-> thread[t]]
        /\ thr_status = [t \in Firings \cup posted |-> thr_status[t]]
    BY <1>0, SMTT(30) DEF Thread!TypeOK
  <1>1. ASSUME NEW tasks \in SUBSET (Firings \cup posted), \A x \in tasks : thr_status[x] = "new",
               Thread!enqueue(tasks)
        PROVE  Thread!WorkersAtWork'
    BY <1>0, <1>1, SMTT(30) DEF Thread!WorkersAtWork, Thread!enqueue, Thread!become
  <1>2. ASSUME NEW t \in Firings \cup posted, Thread!task_starts(t)
        PROVE  Thread!WorkersAtWork'
    BY <1>0, <1>a, <1>2, SMTT(30) DEF Thread!WorkersAtWork, Thread!task_starts
  <1>3. ASSUME NEW t \in Firings \cup posted, Thread!retire_worker(t)
        PROVE  Thread!WorkersAtWork'
    BY <1>0, <1>a, <1>3, Zenon DEF Thread!WorkersAtWork, Thread!retire_worker
  <1>4. ASSUME NEW t \in Firings \cup posted, Thread!notify_one(t)
        PROVE  Thread!WorkersAtWork'
    BY <1>0, <1>a, <1>4, SMTT(30) DEF Thread!WorkersAtWork, Thread!notify_one
  <1>5. ASSUME NEW t \in Firings \cup posted, Thread!join(t)
        PROVE  Thread!WorkersAtWork'
    BY <1>0, <1>5 DEF Thread!WorkersAtWork, Thread!join
  <1>6. ASSUME Thread!shutdown \/ Thread!wait_for_workers
        PROVE  Thread!WorkersAtWork'
    BY <1>0, <1>6, Zenon DEF Thread!WorkersAtWork, Thread!shutdown, Thread!wait_for_workers
  <1>7. ASSUME Thread!join_last_retired
        PROVE  Thread!WorkersAtWork'
    BY <1>0, <1>7 DEF Thread!WorkersAtWork, Thread!join_last_retired
  <1> QED
    BY <1>1, <1>2, <1>3, <1>4, <1>5, <1>6, <1>7, Zenon DEF ThreadStep

\* shutdown passes through its sections in order; once m_abort is set the list of
\* workers only shrinks.
LEMMA ThreadShutdownInOrder == Thread!Inv /\ ThreadStep => Thread!ShutdownInOrder'
  <1> SUFFICES ASSUME Thread!Inv, ThreadStep
               PROVE  Thread!ShutdownInOrder'
    OBVIOUS
  <1>0. Thread!TypeOK /\ Thread!ShutdownInOrder
    BY SMTT(30) DEF Thread!Inv
  <1>1. ASSUME NEW tasks \in SUBSET (Firings \cup posted), Thread!enqueue(tasks)
        PROVE  Thread!ShutdownInOrder'
    BY <1>0, <1>1, SMTT(30) DEF Thread!ShutdownInOrder, Thread!enqueue
  <1>2. ASSUME NEW t \in Firings \cup posted, Thread!task_starts(t) \/ Thread!join(t)
        PROVE  Thread!ShutdownInOrder'
    BY <1>0, <1>2, SMTT(30) DEF Thread!ShutdownInOrder, Thread!task_starts, Thread!join
  <1>3. ASSUME NEW t \in Firings \cup posted, Thread!retire_worker(t)
        PROVE  Thread!ShutdownInOrder'
    BY <1>0, <1>3, SMTT(30) DEF Thread!ShutdownInOrder, Thread!retire_worker
  <1>4. ASSUME NEW t \in Firings \cup posted, Thread!notify_one(t)
        PROVE  Thread!ShutdownInOrder'
    BY <1>0, <1>4, SMTT(30) DEF Thread!ShutdownInOrder, Thread!notify_one
  <1>5. ASSUME Thread!shutdown \/ Thread!wait_for_workers \/ Thread!join_last_retired
        PROVE  Thread!ShutdownInOrder'
    BY <1>0, <1>5, SMTT(30)
    DEF Thread!ShutdownInOrder, Thread!shutdown, Thread!wait_for_workers, Thread!join_last_retired
  <1> QED
    BY <1>1, <1>2, <1>3, <1>4, <1>5, Zenon DEF ThreadStep

\* What a step does to where a thread is.
LEMMA ThreadMoves ==
    ASSUME Thread!TypeOK, NEW t \in Firings \cup posted, NEW where,
           thread' = [thread EXCEPT ![t] = where]
    PROVE  \A p \in Firings \cup posted : thread'[p] = IF p = t THEN where ELSE thread[p]
  BY DEF Thread!TypeOK

\* JoinedByOne depends on the lists, and on which threads retire or have ended.
LEMMA ListsUnchanged ==
    ASSUME Thread!JoinedByOne, UNCHANGED <<thr_last_retired, thr_local>>,
           Thread!retiring' = Thread!retiring, Thread!unjoined' = Thread!unjoined
    PROVE  Thread!JoinedByOne'
  BY Zenon DEF Thread!JoinedByOne

\* Fewer threads that retire, with shorter lists, wait for one another in no circle
\* either.
LEMMA NoCircleKept ==
    ASSUME Thread!NoCircle, Thread!retiring' \subseteq Thread!retiring,
           \A v \in Thread!retiring' : thr_local'[v] \subseteq thr_local[v]
    PROVE  Thread!NoCircle'
  <1> SUFFICES ASSUME NEW S \in SUBSET (Thread!retiring'), S # {}
               PROVE  \E u \in S : \A v \in S : u \notin thr_local'[v]
    BY Zenon DEF Thread!NoCircle
  <1>1. PICK u \in S : \A v \in S : u \notin thr_local[v]
    BY Zenon DEF Thread!NoCircle
  <1> QED BY <1>1

\* The steps that leave the threads that retire, and their lists, as they are.
LEMMA NobodyRetires ==
    ASSUME Thread!Inv,
           \/ \E tasks \in SUBSET (Firings \cup posted) :
                 (\A x \in tasks : thr_status[x] = "new") /\ Thread!enqueue(tasks)
           \/ \E t \in Firings \cup posted : Thread!task_starts(t) \/ Thread!notify_one(t)
           \/ Thread!shutdown \/ Thread!wait_for_workers
    PROVE  /\ UNCHANGED <<thr_last_retired, thr_local>>
           /\ Thread!retiring' = Thread!retiring /\ Thread!unjoined' = Thread!unjoined
  <1>0. Thread!TypeOK /\ Thread!WorkersAtWork
    BY SMTT(30) DEF Thread!Inv
  <1> DEFINE Kept == \A p \in Firings \cup posted :
                  /\ thread'[p] \in {"notify", "join"} <=> thread[p] \in {"notify", "join"}
                  /\ thread'[p] \in {"notify", "join", "ended"} <=>
                        thread[p] \in {"notify", "join", "ended"}
  <1>1. ASSUME NEW tasks \in SUBSET (Firings \cup posted), \A x \in tasks : thr_status[x] = "new",
               Thread!enqueue(tasks)
        PROVE  UNCHANGED <<thr_last_retired, thr_local>> /\ Kept
    BY <1>0, <1>1, SMTT(30) DEF Thread!WorkersAtWork, Thread!enqueue
  <1>2. ASSUME NEW t \in Firings \cup posted, Thread!task_starts(t) \/ Thread!notify_one(t)
        PROVE  UNCHANGED <<thr_last_retired, thr_local>> /\ Kept
    BY <1>0, <1>2, ThreadMoves, SMTT(30) DEF Thread!task_starts, Thread!notify_one
  <1>3. ASSUME Thread!shutdown \/ Thread!wait_for_workers
        PROVE  UNCHANGED <<thr_last_retired, thr_local>> /\ Kept
    BY <1>3, ZenonT(30) DEF Thread!shutdown, Thread!wait_for_workers
  <1>4. UNCHANGED <<thr_last_retired, thr_local>> /\ Kept
    BY <1>1, <1>2, <1>3, ZenonT(30)
  <1>5. Thread!retiring' = Thread!retiring
    BY <1>4, ZenonT(30) DEF Thread!retiring
  <1>6. Thread!unjoined' = Thread!unjoined
    BY <1>4, ZenonT(30) DEF Thread!unjoined
  <1> QED BY <1>4, <1>5, <1>6, Zenon

\* What retire_worker does to the lists and to the threads that retire.
LEMMA RetireWorker ==
    ASSUME Thread!Inv, NEW t \in Firings \cup posted, Thread!retire_worker(t)
    PROVE  /\ t \notin Thread!unjoined /\ t \notin Thread!retiring
           /\ t \notin thr_last_retired /\ \A v \in Firings \cup posted : t \notin thr_local[v]
           /\ Thread!unjoined' = Thread!unjoined \cup {t}
           /\ Thread!retiring' = Thread!retiring \cup {t}
           /\ thr_last_retired' = {t}
           /\ \A v \in Firings \cup posted :
                 thr_local'[v] = IF v = t THEN thr_last_retired ELSE thr_local[v]
           /\ thr_local[t] = {}
  <1>0. Thread!TypeOK /\ Thread!JoinedByOne
    BY SMTT(30) DEF Thread!Inv
  <1>1. \A p \in Firings \cup posted : thread'[p] = IF p = t THEN "notify" ELSE thread[p]
    BY <1>0, ThreadMoves, ZenonT(30) DEF Thread!retire_worker
  <1>2. thread[t] = "task"
    BY DEF Thread!retire_worker
  <1>3. t \notin Thread!unjoined /\ t \notin Thread!retiring
    BY <1>2 DEF Thread!unjoined, Thread!retiring
  <1>4. /\ t \notin thr_last_retired /\ \A v \in Firings \cup posted : t \notin thr_local[v]
        /\ thr_local[t] = {}
    BY <1>0, <1>3, SMTT(30) DEF Thread!JoinedByOne
  <1>5. /\ Thread!unjoined' = Thread!unjoined \cup {t}
        /\ Thread!retiring' = Thread!retiring \cup {t}
    BY <1>1, SMTT(30) DEF Thread!unjoined, Thread!retiring
  <1>6. \A v \in Firings \cup posted :
           thr_local'[v] = IF v = t THEN thr_last_retired ELSE thr_local[v]
    BY <1>0, SMTT(30) DEF Thread!TypeOK, Thread!retire_worker
  <1>7. thr_last_retired' = {t}
    BY SMTT(30) DEF Thread!retire_worker
  <1> QED BY <1>3, <1>4, <1>5, <1>6, <1>7, ZenonT(30)

\* What join does to them.
LEMMA JoinEnds ==
    ASSUME Thread!Inv, NEW t \in Firings \cup posted, Thread!join(t)
    PROVE  /\ t \in Thread!retiring /\ thr_local[t] \cap Thread!retiring = {}
           /\ t \notin thr_local[t]
           /\ Thread!unjoined' = Thread!unjoined \ thr_local[t]
           /\ Thread!retiring' = Thread!retiring \ {t}
           /\ thr_last_retired' = thr_last_retired
           /\ \A v \in Firings \cup posted : thr_local'[v] = IF v = t THEN {} ELSE thr_local[v]
  <1>0. Thread!TypeOK /\ Thread!JoinedByOne
    BY DEF Thread!Inv
  <1>1. \A p \in Firings \cup posted :
           thread'[p] = IF p = t THEN "ended"
                        ELSE IF p \in thr_local[t] THEN "joined" ELSE thread[p]
    BY SMTT(30) DEF Thread!join
  <1>2. thread[t] = "join" /\ \A p \in thr_local[t] : thread[p] = "ended"
    BY SMTT(30) DEF Thread!join
  <1>3. t \in Thread!retiring /\ thr_local[t] \cap Thread!retiring = {} /\ t \notin thr_local[t]
    BY <1>2, SMTT(30) DEF Thread!retiring
  <1>4. /\ Thread!unjoined' = Thread!unjoined \ thr_local[t]
        /\ Thread!retiring' = Thread!retiring \ {t}
    BY <1>1, <1>2, <1>3, SMTT(30) DEF Thread!unjoined, Thread!retiring
  <1>5. \A v \in Firings \cup posted : thr_local'[v] = IF v = t THEN {} ELSE thr_local[v]
    BY <1>0, SMTT(30) DEF Thread!TypeOK, Thread!join
  <1>6. thr_last_retired' = thr_last_retired
    BY SMTT(30) DEF Thread!join
  <1> QED BY <1>3, <1>4, <1>5, <1>6, ZenonT(30)

\* What the join of shutdown does to them.
LEMMA JoinOfShutdown ==
    ASSUME Thread!Inv, Thread!join_last_retired
    PROVE  /\ Thread!unjoined' = Thread!unjoined \ thr_last_retired
           /\ Thread!retiring' = Thread!retiring
           /\ thr_last_retired \cap Thread!retiring = {}
           /\ thr_last_retired' = {} /\ thr_local' = thr_local
  <1>1. \A p \in Firings \cup posted :
           thread'[p] = IF p \in thr_last_retired THEN "joined" ELSE thread[p]
    BY SMTT(30) DEF Thread!join_last_retired
  <1>2. \A p \in thr_last_retired : thread[p] = "ended"
    BY SMTT(30) DEF Thread!join_last_retired
  <1>3. /\ Thread!unjoined' = Thread!unjoined \ thr_last_retired
        /\ Thread!retiring' = Thread!retiring /\ thr_last_retired \cap Thread!retiring = {}
    BY <1>1, <1>2 DEF Thread!unjoined, Thread!retiring
  <1> QED BY <1>3, SMTT(30) DEF Thread!join_last_retired

\* retire_worker moves the thread that retired before into the list of the thread
\* that retires now, and a thread leaves a list when it is joined.
LEMMA ThreadJoinedByOne == Thread!Inv /\ ThreadStep => Thread!JoinedByOne'
  <1> SUFFICES ASSUME Thread!Inv, ThreadStep
               PROVE  Thread!JoinedByOne'
    OBVIOUS
  <1>0. Thread!JoinedByOne
    BY DEF Thread!Inv
  <1>a. /\ thr_last_retired \subseteq Thread!unjoined
        /\ \A u \in Firings \cup posted : \A p \in thr_local[u] :
              /\ u \in Thread!retiring /\ p \in Thread!unjoined /\ p \notin thr_last_retired
              /\ \A v \in (Firings \cup posted) \ {u} : p \notin thr_local[v]
        /\ \A p \in Thread!unjoined :
              p \in thr_last_retired \/ \E u \in Firings \cup posted : p \in thr_local[u]
    BY <1>0, Zenon DEF Thread!JoinedByOne
  <1>1. ASSUME NEW t \in Firings \cup posted, Thread!retire_worker(t)
        PROVE  Thread!JoinedByOne'
    <2>1. thr_last_retired' \subseteq Thread!unjoined'
      BY <1>1, RetireWorker, SMTT(30)
    <2>2. ASSUME NEW u \in Firings \cup posted, NEW p \in thr_local'[u]
          PROVE  /\ u \in Thread!retiring' /\ p \in Thread!unjoined' /\ p \notin thr_last_retired'
                 /\ \A v \in (Firings \cup posted) \ {u} : p \notin thr_local'[v]
      BY <1>1, <1>a, <2>2, RetireWorker, SMTT(30)
    <2>3. ASSUME NEW p \in Thread!unjoined'
          PROVE  p \in thr_last_retired' \/ \E u \in Firings \cup posted : p \in thr_local'[u]
      BY <1>1, <1>a, <2>3, RetireWorker, SMTT(30)
    <2> QED BY <2>1, <2>2, <2>3, Zenon DEF Thread!JoinedByOne
  <1>2. ASSUME NEW t \in Firings \cup posted, Thread!join(t)
        PROVE  Thread!JoinedByOne'
    <2>1. thr_last_retired' \subseteq Thread!unjoined'
      BY <1>2, <1>a, JoinEnds, ZenonT(30)
    <2>2. ASSUME NEW u \in Firings \cup posted, NEW p \in thr_local'[u]
          PROVE  /\ u \in Thread!retiring' /\ p \in Thread!unjoined' /\ p \notin thr_last_retired'
                 /\ \A v \in (Firings \cup posted) \ {u} : p \notin thr_local'[v]
      BY <1>2, <1>a, <2>2, JoinEnds, SMTT(30)
    <2>3. ASSUME NEW p \in Thread!unjoined'
          PROVE  p \in thr_last_retired' \/ \E u \in Firings \cup posted : p \in thr_local'[u]
      BY <1>2, <1>a, <2>3, JoinEnds, SMTT(30)
    <2> QED BY <2>1, <2>2, <2>3, Zenon DEF Thread!JoinedByOne
  <1>3. ASSUME Thread!join_last_retired
        PROVE  Thread!JoinedByOne'
    <2>1. thr_last_retired' \subseteq Thread!unjoined'
      BY <1>3, <1>a, JoinOfShutdown, SMTT(30)
    <2>2. ASSUME NEW u \in Firings \cup posted, NEW p \in thr_local'[u]
          PROVE  /\ u \in Thread!retiring' /\ p \in Thread!unjoined' /\ p \notin thr_last_retired'
                 /\ \A v \in (Firings \cup posted) \ {u} : p \notin thr_local'[v]
      BY <1>3, <1>a, <2>2, JoinOfShutdown, SMTT(30)
    <2>3. ASSUME NEW p \in Thread!unjoined'
          PROVE  p \in thr_last_retired' \/ \E u \in Firings \cup posted : p \in thr_local'[u]
      BY <1>3, <1>a, <2>3, JoinOfShutdown, SMTT(30)
    <2> QED BY <2>1, <2>2, <2>3, Zenon DEF Thread!JoinedByOne
  <1> QED
    BY <1>0, <1>1, <1>2, <1>3, NobodyRetires, ListsUnchanged, Zenon DEF ThreadStep

\* A thread that retires is in no list yet, so that it is awaited by none of those
\* that retired before it.
LEMMA ThreadNoCircle == Thread!Inv /\ ThreadStep => Thread!NoCircle'
  <1> SUFFICES ASSUME Thread!Inv, ThreadStep
               PROVE  Thread!NoCircle'
    OBVIOUS
  <1>0. Thread!NoCircle
    BY SMTT(30) DEF Thread!Inv
  <1>1. ASSUME NEW t \in Firings \cup posted, Thread!retire_worker(t)
        PROVE  Thread!NoCircle'
    <2> SUFFICES ASSUME NEW S \in SUBSET (Thread!retiring'), S # {}
                 PROVE  \E u \in S : \A v \in S : u \notin thr_local'[v]
      BY Zenon DEF Thread!NoCircle
    <2>0. Thread!retiring' \subseteq Firings \cup posted
      BY SMTT(30) DEF Thread!retiring
    <2>1. CASE t \in S
      <3>1. \A v \in S : t \notin thr_local'[v]
        BY <1>1, <2>0, RetireWorker, SMTT(30)
      <3> QED BY <2>1, <3>1, SMTT(30)
    <2>2. CASE t \notin S
      <3>1. S \subseteq Thread!retiring /\ \A v \in S : thr_local'[v] = thr_local[v]
        BY <1>1, <2>0, <2>2, RetireWorker, ZenonT(30)
      <3>2. PICK u \in S : \A v \in S : u \notin thr_local[v]
        BY <1>0, <3>1, Zenon DEF Thread!NoCircle
      <3> QED BY <3>1, <3>2, SMTT(30)
    <2> QED BY <2>1, <2>2
  <1>2. ASSUME NEW t \in Firings \cup posted, Thread!join(t)
        PROVE  Thread!NoCircle'
    <2>1. Thread!retiring \subseteq Firings \cup posted
      BY SMTT(30) DEF Thread!retiring
    <2> QED BY <1>0, <1>2, <2>1, JoinEnds, NoCircleKept, SMTT(30)
  <1>3. ASSUME Thread!join_last_retired
        PROVE  Thread!NoCircle'
    BY <1>0, <1>3, JoinOfShutdown, NoCircleKept, SMTT(30)
  <1>4. ASSUME UNCHANGED <<thr_last_retired, thr_local>>, Thread!retiring' = Thread!retiring
        PROVE  Thread!NoCircle'
    BY <1>0, <1>4, NoCircleKept, SMTT(30)
  <1> QED
    BY <1>1, <1>2, <1>3, <1>4, NobodyRetires, Zenon DEF ThreadStep

\* When shutdown joins the last thread, no other is left: one that still retires
\* would be awaited by another one that retires, and those do not wait in a circle.
LEMMA ThreadAllJoined == Thread!Inv /\ ThreadStep => Thread!AllJoined'
  <1> SUFFICES ASSUME Thread!Inv, ThreadStep, thr_shutter' = "returned",
                      NEW x \in Firings \cup posted
               PROVE  thread'[x] \in {"none", "joined"}
    BY DEF Thread!AllJoined
  <1>0. Thread!TypeOK /\ Thread!WorkersAtWork /\ Thread!ShutdownInOrder /\ Thread!JoinedByOne
        /\ Thread!NoCircle /\ Thread!AllJoined
    BY SMTT(30) DEF Thread!Inv
  <1>1. CASE thr_shutter = "returned"
    <2>1. thr_abort /\ \A t \in Firings \cup posted : thread[t] \in {"none", "joined"}
      BY <1>0, <1>1, SMTT(30) DEF Thread!AllJoined, Thread!ShutdownInOrder
    <2>2. ASSUME NEW tasks \in SUBSET (Firings \cup posted), Thread!enqueue(tasks)
          PROVE  thread' = thread
      BY <2>1, <2>2, SMTT(30) DEF Thread!enqueue
    <2>3. ASSUME NEW t \in Firings \cup posted
          PROVE  /\ ~Thread!task_starts(t) /\ ~Thread!retire_worker(t)
                 /\ ~Thread!notify_one(t) /\ ~Thread!join(t)
      BY <2>1, ZenonT(30) DEF Thread!task_starts, Thread!retire_worker, Thread!notify_one, Thread!join
    <2>4. ~Thread!wait_for_workers /\ ~Thread!join_last_retired
      BY <1>1 DEF Thread!wait_for_workers, Thread!join_last_retired
    <2>5. Thread!shutdown => thread' = thread
      BY DEF Thread!shutdown
    <2> QED BY <2>1, <2>2, <2>3, <2>4, <2>5, ZenonT(30) DEF ThreadStep
  <1>2. CASE thr_shutter # "returned"
    <2>1. Thread!join_last_retired
      BY <1>2, SMTT(30) DEF ThreadStep, Thread!enqueue, Thread!task_starts, Thread!retire_worker,
                  Thread!notify_one, Thread!join, Thread!shutdown, Thread!wait_for_workers
    <2>2. Thread!retiring = {}
      <3> SUFFICES ASSUME Thread!retiring # {}
                   PROVE  FALSE
        BY SMTT(30)
      <3>1. PICK u \in Thread!retiring : \A v \in Thread!retiring : u \notin thr_local[v]
        BY <1>0, SMTT(30) DEF Thread!NoCircle
      <3>2. u \in Thread!unjoined /\ u \notin thr_last_retired
        BY <2>1, JoinOfShutdown, ZenonT(30) DEF Thread!retiring, Thread!unjoined
      <3>3. PICK v \in Firings \cup posted : u \in thr_local[v]
        BY <1>0, <3>2, SMTT(30) DEF Thread!JoinedByOne
      <3>4. v \in Thread!retiring
        BY <1>0, <3>3, SMTT(30) DEF Thread!JoinedByOne
      <3> QED BY <3>1, <3>3, <3>4, SMTT(30)
    <2>3. Thread!unjoined \subseteq thr_last_retired
      BY <1>0, <2>2, SMTT(30) DEF Thread!JoinedByOne
    <2>4. thr_workers = {}
      BY <1>0, <2>1, SMTT(30) DEF Thread!ShutdownInOrder, Thread!join_last_retired
    <2>5. thread[x] \notin {"started", "task"}
      BY <1>0, <2>4, SMTT(30) DEF Thread!WorkersAtWork
    <2>6. thread'[x] = IF x \in thr_last_retired THEN "joined" ELSE thread[x]
      BY <2>1, SMTT(30) DEF Thread!join_last_retired
    <2>7. thread[x] \in {"none", "started", "task", "notify", "join", "ended", "joined"}
      BY <1>0, SMTT(30) DEF Thread!TypeOK
    <2> QED BY <2>3, <2>5, <2>6, <2>7, SMTT(30) DEF Thread!unjoined
  <1> QED BY <1>1, <1>2, SMTT(30)

\* The invariant of the thread executor is inductive.
LEMMA ThreadInv == Thread!Inv /\ ThreadStep => Thread!Inv'
  BY ThreadTypeOK, ThreadWorkersAtWork, ThreadShutdownInOrder, ThreadJoinedByOne,
     ThreadNoCircle, ThreadAllJoined, SMTT(30)
  DEF Thread!Inv

\* It is kept by steps of the other parts.
LEMMA ThreadStutter == Thread!Inv /\ UNCHANGED thread_vars => Thread!Inv'
  <1> SUFFICES ASSUME Thread!Inv, UNCHANGED thread_vars
               PROVE  Thread!Inv'
    OBVIOUS
  <1>1. UNCHANGED <<thr_workers, thr_last_retired, thr_abort, thr_atomic_abort, thread, thr_local,
                    thr_shutter, thr_status>>
    BY SMTT(30) DEF thread_vars
  <1>2. Thread!retiring' = Thread!retiring /\ Thread!unjoined' = Thread!unjoined
    BY <1>1 DEF Thread!retiring, Thread!unjoined
  <1>3. Thread!TypeOK'
    BY <1>1, Zenon DEF Thread!Inv, Thread!TypeOK
  <1>4. Thread!WorkersAtWork' /\ Thread!AllJoined'
    BY <1>1, Zenon DEF Thread!Inv, Thread!WorkersAtWork, Thread!AllJoined
  <1>5. Thread!ShutdownInOrder'
    BY <1>1, SMTT(30) DEF Thread!Inv, Thread!ShutdownInOrder
  <1>6. Thread!JoinedByOne'
    BY <1>1, <1>2, ListsUnchanged, SMTT(30) DEF Thread!Inv
  <1>7. Thread!NoCircle'
    BY <1>1, <1>2, NoCircleKept, SMTT(30) DEF Thread!Inv
  <1> QED BY <1>3, <1>4, <1>5, <1>6, <1>7, SMTT(30) DEF Thread!Inv

\* It holds of a new thread executor.
LEMMA ThreadInit == Thread!Init => Thread!Inv
  <1> SUFFICES ASSUME Thread!Init
               PROVE  Thread!Inv
    OBVIOUS
  <1>1. "new" \in Thread!Contract!Statuses
    BY DEF Thread!Contract!Statuses
  <1>2. Thread!retiring = {} /\ Thread!unjoined = {}
    BY SMTT(30) DEF Thread!Init, Thread!retiring, Thread!unjoined
  <1>3. Thread!TypeOK
    BY <1>1, ZenonT(30) DEF Thread!Init, Thread!TypeOK
  <1>4. Thread!WorkersAtWork /\ Thread!AllJoined /\ Thread!ShutdownInOrder
    BY DEF Thread!Init, Thread!WorkersAtWork, Thread!AllJoined, Thread!ShutdownInOrder
  <1>5. Thread!JoinedByOne /\ Thread!NoCircle
    BY <1>2 DEF Thread!Init, Thread!JoinedByOne, Thread!NoCircle
  <1> QED BY <1>3, <1>4, <1>5, SMTT(30) DEF Thread!Inv
=============================================================================
