--------------------------- MODULE AsyncLockProofs ---------------------------
(***************************************************************************)
(* Proofs about AsyncLock for every set of tasks and every choice of       *)
(* executors.  Inv is inductive: that a popped waiter counts as one needs  *)
(* to know that whoever is in the queue has waited (WaitersWaited), and    *)
(* popping the queue needs to know that it holds the suspended tasks, each *)
(* of them once (QueueIsTheSuspended).                                     *)
(***************************************************************************)
EXTENDS AsyncLock, SequenceTheorems, TLAPS

\* Inv holds when the lock is constructed.
LEMMA InitInv == Init => Inv
<1> SUFFICES ASSUME Init PROVE Inv
  OBVIOUS
<1> USE DEF Init, Holding, LockPcs
<1>1. TypeOK
  <2>1. waited \in [Tasks -> BOOLEAN] /\ m_locked \in BOOLEAN /\ shut \in BOOLEAN
    BY Zenon
  <2>2. m_awaiters \in Seq(Tasks) /\ pc \in [Tasks -> LockPcs] /\ caller \in [Tasks -> Tasks \cup {None}]
    OBVIOUS
  <2> QED BY <2>1, <2>2 DEF TypeOK
<1>2. MutualExclusion /\ NobodySleepsBesideAFreeLock /\ WaitersWaited
  BY DEF MutualExclusion, NobodySleepsBesideAFreeLock, WaitersWaited
<1>3. QueueIsTheSuspended
  BY DEF QueueIsTheSuspended
<1>4. CallsNest
  BY TasksAssumption DEF CallsNest
<1> QED BY <1>1, <1>2, <1>3, <1>4 DEF Inv

\* Giving the lock back, as unlock and the catch block do, preserves Inv.
LEMMA ReleaseInv ==
  ASSUME Inv, NEW t \in Tasks, pc[t] \in Holding,
         \A u \in Tasks : caller[u] # t, pc[t] # "posted",
         release(t, "outside")
  PROVE  Inv'
<1> USE DEF Inv, Holding, LockPcs
<1>1. CASE m_awaiters = <<>>
  <2>1. pc' = [pc EXCEPT ![t] = "outside"] /\ UNCHANGED <<m_awaiters, caller, waited, shut>> /\ m_locked' = FALSE
    BY <1>1 DEF release, goto
  <2>2. TypeOK'
    BY <2>1, Zenon DEF TypeOK
  <2>3. MutualExclusion'
    BY <2>1 DEF TypeOK, MutualExclusion
  <2>4. NobodySleepsBesideAFreeLock' /\ QueueIsTheSuspended' /\ CallsNest' /\ WaitersWaited'
    BY <2>1, <1>1 DEF TypeOK, NobodySleepsBesideAFreeLock, QueueIsTheSuspended,
                      CallsNest, WaitersWaited
  <2> QED BY <2>2, <2>3, <2>4
<1>2. CASE m_awaiters # <<>>
  <2> DEFINE h == Head(m_awaiters)
  <2>1. /\ h \in Tasks /\ h = m_awaiters[1] /\ Len(m_awaiters) \in Nat \ {0}
        /\ Tail(m_awaiters) \in Seq(Tasks)
        /\ Len(Tail(m_awaiters)) = Len(m_awaiters) - 1
        /\ \A k \in 1..Len(m_awaiters) - 1 : Tail(m_awaiters)[k] = m_awaiters[k + 1]
    BY <1>2 DEF TypeOK
  <2>2. pc[h] = "suspended" /\ h # t /\ waited[h]
    BY <2>1 DEF QueueIsTheSuspended, WaitersWaited
  <2>3. /\ m_awaiters' = Tail(m_awaiters) /\ m_locked' = FALSE
        /\ pc' = [pc EXCEPT ![t] = "outside", ![h] = "try"]
        /\ caller' = [caller EXCEPT ![h] = t]
        /\ UNCHANGED <<waited, shut>>
    BY <1>2 DEF release
  <2> HIDE DEF h
  <2>4. TypeOK'
    BY <2>1, <2>2, <2>3, Zenon DEF TypeOK
  <2>5. MutualExclusion'
    BY <2>2, <2>3, <2>1, SMTT(30) DEF TypeOK, MutualExclusion
  <2>6. NobodySleepsBesideAFreeLock'
    BY <2>1, <2>2, <2>3 DEF TypeOK, NobodySleepsBesideAFreeLock
  <2>7. QueueIsTheSuspended'
    <3>1. ASSUME NEW u \in Tasks
          PROVE  (pc[u] = "suspended" <=> \E k \in 1..Len(m_awaiters) : m_awaiters[k] = u)'
      <4>1. CASE u = h
        BY <2>1, <2>2, <2>3, <4>1 DEF TypeOK, QueueIsTheSuspended
      <4>2. CASE u # h
        <5>1. pc'[u] = "suspended" <=> pc[u] = "suspended"
          BY <2>1, <2>2, <2>3, <4>2 DEF TypeOK
        <5>2. (\E k \in 1..Len(m_awaiters) : m_awaiters[k] = u)
                 <=> \E k \in 1..Len(m_awaiters) - 1 : m_awaiters[k + 1] = u
          <6>1. ASSUME NEW k \in 1..Len(m_awaiters), m_awaiters[k] = u
                PROVE  k - 1 \in 1..Len(m_awaiters) - 1 /\ m_awaiters[(k - 1) + 1] = u
            BY <6>1, <2>1, <4>2
          <6>2. ASSUME NEW k \in 1..Len(m_awaiters) - 1, m_awaiters[k + 1] = u
                PROVE  k + 1 \in 1..Len(m_awaiters)
            BY <6>2, <2>1
          <6> QED BY <6>1, <6>2
        <5> QED BY <5>1, <5>2, <2>1, <2>3 DEF QueueIsTheSuspended
      <4> QED BY <4>1, <4>2
    <3>2. (\A j, k \in 1..Len(m_awaiters) : m_awaiters[j] = m_awaiters[k] => j = k)'
      BY <2>1, <2>3 DEF QueueIsTheSuspended
    <3> QED BY <3>1, <3>2 DEF QueueIsTheSuspended
  <2>8. CallsNest'
    BY <2>1, <2>2, <2>3, TasksAssumption DEF TypeOK, CallsNest
  <2>9. WaitersWaited'
    BY <2>1, <2>2, <2>3 DEF TypeOK, WaitersWaited
  <2> QED BY <2>4, <2>5, <2>6, <2>7, <2>8, <2>9
<1> QED BY <1>1, <1>2

\* Every step preserves Inv.
LEMMA StepInv == Inv /\ [Next]_vars => Inv'
<1> SUFFICES ASSUME Inv, [Next]_vars PROVE Inv'
  OBVIOUS
<1> USE DEF Inv, Holding, LockPcs
<1>1. ASSUME NEW t \in Tasks, lock(t) PROVE Inv'
  BY <1>1, TasksAssumption
  DEF lock, at, goto, TypeOK, MutualExclusion, NobodySleepsBesideAFreeLock,
      QueueIsTheSuspended, CallsNest, WaitersWaited
<1>2. ASSUME NEW t \in Tasks, try_lock(t) PROVE Inv'
  BY <1>2, TasksAssumption
  DEF try_lock, at, goto, TypeOK, MutualExclusion, NobodySleepsBesideAFreeLock,
      QueueIsTheSuspended, CallsNest, WaitersWaited
<1>3. ASSUME NEW t \in Tasks, lock_or_suspend(t) PROVE Inv'
  <2>1. CASE ~m_locked
    <3>1. PICK p \in {"resume_on", "critical"} :
             /\ pc' = [pc EXCEPT ![t] = p] /\ pc[t] = "try" /\ m_locked' = TRUE
             /\ UNCHANGED <<m_awaiters, waited, caller, shut>>
      BY <1>3, <2>1 DEF lock_or_suspend, at, goto
    <3>2. TypeOK'
      BY <3>1 DEF TypeOK
    <3>3. MutualExclusion' /\ NobodySleepsBesideAFreeLock'
      BY <2>1, <3>1 DEF TypeOK, MutualExclusion, NobodySleepsBesideAFreeLock
    <3>4. QueueIsTheSuspended' /\ CallsNest' /\ WaitersWaited'
      BY <3>1 DEF TypeOK, QueueIsTheSuspended, CallsNest, WaitersWaited
    <3> QED BY <3>2, <3>3, <3>4
  <2>2. CASE m_locked
    <3>1. /\ m_awaiters' = Append(m_awaiters, t) /\ pc[t] = "try"
          /\ waited' = [waited EXCEPT ![t] = TRUE]
          /\ pc' = [pc EXCEPT ![t] = "suspended"]
          /\ caller' = [caller EXCEPT ![t] = None]
          /\ \A u \in Tasks : caller[u] # t
          /\ m_locked' = m_locked /\ shut' = shut
      BY <1>3, <2>2 DEF lock_or_suspend, at, goto, leave
    <3>2. /\ Len(m_awaiters) \in Nat /\ m_awaiters' \in Seq(Tasks)
          /\ Len(m_awaiters') = Len(m_awaiters) + 1
          /\ m_awaiters'[Len(m_awaiters) + 1] = t
          /\ \A k \in 1..Len(m_awaiters) : m_awaiters'[k] = m_awaiters[k]
      BY <3>1 DEF TypeOK
    <3>3. TypeOK'
      BY <3>1, <3>2 DEF TypeOK
    <3>4. MutualExclusion' /\ NobodySleepsBesideAFreeLock' /\ WaitersWaited'
      BY <2>2, <3>1 DEF TypeOK, MutualExclusion, NobodySleepsBesideAFreeLock, WaitersWaited
    <3>5. CallsNest'
      BY <3>1, TasksAssumption DEF TypeOK, CallsNest
    <3>6. \A k \in 1..Len(m_awaiters) : m_awaiters[k] # t
      BY <3>1 DEF QueueIsTheSuspended
    <3>7. QueueIsTheSuspended'
      BY <3>1, <3>2, <3>6 DEF TypeOK, QueueIsTheSuspended
    <3> QED BY <3>3, <3>4, <3>5, <3>7
  <2> QED BY <2>1, <2>2 DEF TypeOK
<1>4. ASSUME NEW t \in Tasks, resume_on(t) PROVE Inv'
  BY <1>4, TasksAssumption
  DEF resume_on, at, goto, leave, TypeOK, MutualExclusion,
      NobodySleepsBesideAFreeLock, QueueIsTheSuspended, CallsNest, WaitersWaited
<1>5. ASSUME NEW t \in Tasks, run_posted(t) PROVE Inv'
  BY <1>5, TasksAssumption, SMTT(30)
  DEF run_posted, at, goto, TypeOK, MutualExclusion,
      NobodySleepsBesideAFreeLock, QueueIsTheSuspended, CallsNest, WaitersWaited
<1>6. ASSUME NEW t \in Tasks, catch(t) PROVE Inv'
  BY <1>6, ReleaseInv DEF catch, at
<1>7. ASSUME NEW t \in Tasks, unlock(t) PROVE Inv'
  BY <1>7, ReleaseInv DEF unlock, at
<1>8. ASSUME NEW t \in Tasks, yield(t) PROVE Inv'
  BY <1>8, TasksAssumption
  DEF yield, at, leave, TypeOK, MutualExclusion,
      NobodySleepsBesideAFreeLock, QueueIsTheSuspended, CallsNest, WaitersWaited
<1>9. CASE shutdown
  BY <1>9 DEF shutdown, TypeOK, MutualExclusion,
      NobodySleepsBesideAFreeLock, QueueIsTheSuspended, CallsNest, WaitersWaited
<1>10. CASE UNCHANGED vars
  BY <1>10 DEF vars, TypeOK, MutualExclusion,
      NobodySleepsBesideAFreeLock, QueueIsTheSuspended, CallsNest, WaitersWaited
<1> QED
  BY <1>1, <1>2, <1>3, <1>4, <1>5, <1>6, <1>7, <1>8, <1>9, <1>10
  DEF Next, arrive, step

\* Inv holds in every state of every behaviour of async_lock.
THEOREM Invariance == Spec => []Inv
  BY InitInv, StepInv, PTL DEF Spec

\* Type correctness.
THEOREM TypeCorrect == Spec => []TypeOK
<1>1. Inv => TypeOK
  BY DEF Inv
<1> QED BY <1>1, Invariance, PTL

\* One task at a time owns the lock, and m_locked says whether one does.
THEOREM Exclusion == Spec => []MutualExclusion
<1>1. Inv => MutualExclusion
  BY DEF Inv
<1> QED BY <1>1, Invariance, PTL

\* unlock and the catch block of lock_impl leave nobody asleep beside a free
\* lock.
THEOREM NoLostUnlock == Spec => []NobodySleepsBesideAFreeLock
<1>1. Inv => NobodySleepsBesideAFreeLock
  BY DEF Inv
<1> QED BY <1>1, Invariance, PTL

\* m_awaiters holds the suspended tasks, each of them once.
THEOREM Queue == Spec => []QueueIsTheSuspended
<1>1. Inv => QueueIsTheSuspended
  BY DEF Inv
<1> QED BY <1>1, Invariance, PTL

\* Calls of retry nest, and none waits for a task that left its stack.
THEOREM Nesting == Spec => []CallsNest
<1>1. Inv => CallsNest
  BY DEF Inv
<1> QED BY <1>1, Invariance, PTL

\* async_lock implements the abstract lock of module Mutex.
THEOREM Implementation == Spec => ImplementsMutex
<1> DEFINE H == {t \in Tasks : pc[t] \in Holding}
<1>1. Init => Abstract!Init
  BY DEF Init, Abstract!Init, Holding
<1>2. Inv /\ [Next]_vars => [Abstract!Next]_H
  <2> SUFFICES ASSUME Inv, [Next]_vars PROVE [Abstract!Next]_H
    OBVIOUS
  <2> USE DEF Inv, TypeOK, Holding, Abstract!Next, Abstract!Acquire, Abstract!Release
  <2>1. ASSUME NEW t \in Tasks, lock(t) \/ resume_on(t) \/ run_posted(t) \/ yield(t)
        PROVE  H' = H
    BY <2>1 DEF lock, resume_on, run_posted, yield, at, goto
  <2>2. ASSUME NEW t \in Tasks, try_lock(t) PROVE H = {} /\ H' = {t}
    BY <2>2 DEF try_lock, at, goto, MutualExclusion
  <2>3. ASSUME NEW t \in Tasks, lock_or_suspend(t)
        PROVE  (H = {} /\ H' = {t}) \/ H' = H
    <3>1. CASE ~m_locked
      BY <2>3, <3>1 DEF lock_or_suspend, at, goto, MutualExclusion
    <3>2. CASE m_locked
      BY <2>3, <3>2 DEF lock_or_suspend, at, goto, MutualExclusion
    <3> QED BY <3>1, <3>2
  <2>4. ASSUME NEW t \in Tasks, catch(t) \/ unlock(t) PROVE H = {t} /\ H' = {}
    <3>1. pc[t] \in Holding /\ release(t, "outside")
      BY <2>4 DEF catch, unlock, at
    <3>2. H = {t}
      BY <3>1 DEF MutualExclusion
    <3>3. CASE m_awaiters = <<>>
      BY <3>1, <3>2, <3>3 DEF release, goto
    <3>4. CASE m_awaiters # <<>>
      <4>1. Head(m_awaiters) \in Tasks
        BY <3>4
      <4> QED BY <3>1, <3>2, <3>4, <4>1 DEF release
    <3> QED BY <3>2, <3>3, <3>4
  <2>5. CASE shutdown
    BY <2>5 DEF shutdown
  <2>6. CASE UNCHANGED vars
    BY <2>6 DEF vars
  <2> QED BY <2>1, <2>2, <2>3, <2>4, <2>5, <2>6 DEF Next, arrive, step
<1> QED BY <1>1, <1>2, Invariance, PTL DEF Spec, ImplementsMutex, Abstract!Spec
=============================================================================
