----------------------------- MODULE KernelProofs -----------------------------
(***************************************************************************)
(* Proofs about the kernel's scheduler and its mutual exclusion.           *)
(*                                                                         *)
(* Scheduler, for every size of the task table: at most the current slot is*)
(* Running, and the search finds the nearest Ready slot.                   *)
(*                                                                         *)
(* Semaphore and Mutex, for any number of threads and any initial count of *)
(* the semaphore: the spinlock excludes, no update of the count is lost,   *)
(* and no unit is handed out that is not there; the mutex excludes, and the*)
(* unlocked accesses to owner_tid are harmless.  The argument for the mutex*)
(* follows the one unit of the semaphore: it is in the semaphore or with   *)
(* exactly one thread, from the store in wait to the store in signal, and  *)
(* only the thread that has it writes owner_tid.                           *)
(***************************************************************************)
EXTENDS Scheduler, Mutex, BasicLemmas

-----------------------------------------------------------------------------
(* The scheduler.                                                           *)

(* A search that finds something finds a slot in use that is Ready.         *)
LEMMA NextReadyIsReady ==
  ASSUME SchTypeOK, NEW st, ReadyAt(st) # {}
  PROVE  /\ NextReady(st) \in 0 .. taskCount - 1
         /\ NextReady(st) \in Slots
         /\ st[NextReady(st)] = "Ready"
  <1>1. ReadyAt(st) \subseteq Nat
    BY DEF ReadyAt, SchTypeOK
  <1>2. \E d \in ReadyAt(st) : \A e \in ReadyAt(st) : d <= e
    BY <1>1, LeastElement
  <1> DEFINE nearest == CHOOSE d \in ReadyAt(st) : \A e \in ReadyAt(st) : d <= e
  <1>3. nearest \in ReadyAt(st)
    BY <1>2
  <1>4. NextReady(st) = (current + nearest) % taskCount
    BY DEF NextReady
  <1> HIDE DEF nearest
  <1>5. nearest \in 1 .. taskCount /\ st[(current + nearest) % taskCount] = "Ready"
    BY <1>3 DEF ReadyAt
  <1>6. taskCount \in Nat /\ taskCount > 0 /\ taskCount <= MaxTasks /\ current \in Nat
    BY <1>5, MaxTasksAssumption DEF SchTypeOK, Slots
  <1>7. (current + nearest) % taskCount \in 0 .. taskCount - 1
    BY <1>5, <1>6
  <1> QED
    BY <1>4, <1>5, <1>6, <1>7, MaxTasksAssumption DEF Slots

-----------------------------------------------------------------------------

(* What schedule() does to the invariant, whatever Ready-or-not states st   *)
(* it is called with, as long as only the current slot can be Running.      *)
LEMMA RescheduleKeepsInv ==
  ASSUME SchedInv, NEW st \in [Slots -> TaskState],
         \A i \in Slots : st[i] = "Running" => i = current,
         Reschedule(st), taskCount' = taskCount,
         halted' \subseteq Slots
  PROVE  SchedInv'
  <1>1. CASE taskCount = 0 \/ ReadyAt(st) = {} \/ NextReady(st) = current
    BY <1>1 DEF Reschedule, SchedInv, SchTypeOK, OnlyCurrentRuns
  <1>2. CASE ~ (taskCount = 0 \/ ReadyAt(st) = {} \/ NextReady(st) = current)
    <2> DEFINE next == NextReady(st)
    <2>1. /\ next \in 0 .. taskCount - 1
          /\ next \in Slots
          /\ next # current
      BY <1>2, NextReadyIsReady DEF SchedInv
    <2>2. /\ state' = [st EXCEPT ![current] = "Ready", ![next] = "Running"]
          /\ current' = next
      BY <1>2 DEF Reschedule
    <2> HIDE DEF next
    <2>3. taskCount \in 0 .. MaxTasks /\ current \in Slots
      BY DEF SchedInv, SchTypeOK
    <2>4. SchTypeOK'
      BY <2>1, <2>2, <2>3 DEF SchTypeOK, TaskState
    <2>5. current' = 0 \/ current' < taskCount'
      BY <2>1, <2>2, <2>3, MaxTasksAssumption
    <2>6. OnlyCurrentRuns'
      BY <2>1, <2>2, <2>3 DEF OnlyCurrentRuns, TaskState
    <2> QED
      BY <2>4, <2>5, <2>6 DEF SchedInv
  <1> QED
    BY <1>1, <1>2

(* The invariant holds at first and every operation keeps it.               *)
LEMMA SchedInvInductive == SchSpec => []SchedInv
  <1>1. SchInit => SchedInv
    BY MaxTasksAssumption
    DEF SchInit, SchedInv, SchTypeOK, OnlyCurrentRuns, Slots, TaskState
  <1>2. SchedInv /\ [SchNext]_schVars => SchedInv'
    <2> SUFFICES ASSUME SchedInv, [SchNext]_schVars PROVE SchedInv'
      OBVIOUS
    <2>0. /\ SchTypeOK /\ OnlyCurrentRuns
          /\ state \in [Slots -> TaskState]
          /\ taskCount \in 0 .. MaxTasks /\ current \in Slots
          /\ halted \subseteq Slots
      BY DEF SchedInv, SchTypeOK
    <2>1. CASE AddTask
      <3>1. taskCount \in Slots /\ taskCount + 1 \in 0 .. MaxTasks
        BY <2>0, <2>1, MaxTasksAssumption DEF AddTask, Slots
      <3>2. SchTypeOK'
        BY <2>0, <2>1, <3>1 DEF AddTask, SchTypeOK, TaskState
      <3>3. current' = 0 \/ current' < taskCount'
        BY <2>0, <2>1, MaxTasksAssumption DEF AddTask, SchedInv, Slots
      <3>4. OnlyCurrentRuns'
        BY <2>0, <2>1, <3>1 DEF AddTask, OnlyCurrentRuns
      <3> QED
        BY <3>2, <3>3, <3>4 DEF SchedInv
    <2>2. CASE Schedule
      BY <2>0, <2>2, RescheduleKeepsInv DEF Schedule, OnlyCurrentRuns
    <2>3. CASE BlockCurrent
      <3> DEFINE st == [state EXCEPT ![current] = "Blocked"]
      <3>1. st \in [Slots -> TaskState] /\ \A i \in Slots : st[i] = "Running" => i = current
        BY <2>0 DEF OnlyCurrentRuns, TaskState
      <3>2. Reschedule(st) /\ taskCount' = taskCount
        BY <2>3 DEF BlockCurrent
      <3>3. halted' \subseteq Slots
        BY <2>0, <2>3 DEF BlockCurrent
      <3> HIDE DEF st
      <3> QED
        BY <3>1, <3>2, <3>3, RescheduleKeepsInv
    <2>4. ASSUME NEW pid \in 1 .. MaxTasks, Unblock(pid) PROVE SchedInv'
      <3>1. state' = [state EXCEPT ![pid - 1] = "Ready"]
        BY <2>4 DEF Unblock
      <3>2. SchTypeOK' /\ OnlyCurrentRuns'
        BY <2>0, <2>4, <3>1 DEF Unblock, SchTypeOK, OnlyCurrentRuns, TaskState
      <3> QED
        BY <3>2, <2>4 DEF Unblock, SchedInv
    <2>5. CASE ExitCurrent
      <3> DEFINE st == [state EXCEPT ![current] = "Dead"]
      <3>1. st \in [Slots -> TaskState] /\ \A i \in Slots : st[i] = "Running" => i = current
        BY <2>0 DEF OnlyCurrentRuns, TaskState
      <3>2. Reschedule(st) /\ taskCount' = taskCount
        BY <2>5 DEF ExitCurrent
      <3>3. halted' \subseteq Slots
        BY <2>0, <2>5 DEF ExitCurrent
      <3> HIDE DEF st
      <3> QED
        BY <3>1, <3>2, <3>3, RescheduleKeepsInv
    <2>6. CASE UNCHANGED schVars
      BY <2>6 DEF schVars, SchedInv, SchTypeOK, OnlyCurrentRuns
    <2> QED
      BY <2>1, <2>2, <2>3, <2>4, <2>5, <2>6 DEF SchNext
  <1> QED
    BY <1>1, <1>2, PTL DEF SchSpec

(* Every variable keeps its type, whatever the size of the table.           *)
THEOREM SchedulerTypeCorrect == SchSpec => []SchTypeOK
  <1>1. SchedInv => SchTypeOK
    BY DEF SchedInv
  <1> QED
    BY <1>1, SchedInvInductive, PTL

(* Never two tasks Running, and a Running one is the current one.           *)
THEOREM AtMostOneRunning == SchSpec => []OnlyCurrentRuns
  <1>1. SchedInv => OnlyCurrentRuns
    BY DEF SchedInv
  <1> QED
    BY <1>1, SchedInvInductive, PTL

-----------------------------------------------------------------------------

(* The search finds the nearest Ready slot: whatever lies before the slot it*)
(* finds is not Ready.                                                      *)
LEMMA NextReadyIsNearest ==
  ASSUME SchTypeOK, NEW st, ReadyAt(st) # {}, NEW k, Before(k, NextReady(st))
  PROVE  st[k] # "Ready"
  <1>1. ReadyAt(st) \subseteq Nat
    BY DEF ReadyAt, SchTypeOK
  <1> DEFINE least == CHOOSE d \in ReadyAt(st) : \A e \in ReadyAt(st) : d <= e
  <1>2. least \in ReadyAt(st) /\ \A e \in ReadyAt(st) : least <= e
    <2>1. \E d \in ReadyAt(st) : \A e \in ReadyAt(st) : d <= e
      BY <1>1, LeastElement
    <2> QED
      BY <2>1
  <1>3. NextReady(st) = (current + least) % taskCount
    BY DEF NextReady
  <1> HIDE DEF least
  <1>4. PICK nearest \in 1 .. taskCount :
          /\ nearest = least /\ NextReady(st) = (current + nearest) % taskCount
          /\ \A e \in ReadyAt(st) : nearest <= e
    BY <1>2, <1>3 DEF ReadyAt
  <1>5. PICK d \in 1 .. taskCount, e \in 1 .. taskCount :
          /\ d < e
          /\ (current + d) % taskCount = k
          /\ (current + e) % taskCount = NextReady(st)
    BY DEF Before
  <1>6. taskCount \in Nat \ {0} /\ current \in Nat
    BY <1>5, MaxTasksAssumption DEF SchTypeOK, Slots
  <1>7. e = nearest
    <2>0. /\ e \in Nat /\ nearest \in Nat
          /\ nearest - e < taskCount /\ e - nearest < taskCount
      BY <1>6
    <2>1. ~ (e < nearest)
      <3> SUFFICES ASSUME e < nearest PROVE FALSE
        OBVIOUS
      <3>1. (current + e) % taskCount # (current + nearest) % taskCount
        BY <1>6, <2>0, ModInjective
      <3> QED
        BY <3>1, <1>4, <1>5
    <2>2. ~ (nearest < e)
      <3> SUFFICES ASSUME nearest < e PROVE FALSE
        OBVIOUS
      <3>1. (current + nearest) % taskCount # (current + e) % taskCount
        BY <1>6, <2>0, ModInjective
      <3> QED
        BY <3>1, <1>4, <1>5
    <2> QED
      BY <2>1, <2>2, <1>6
  <1>8. d \notin ReadyAt(st)
    BY <1>4, <1>5, <1>6, <1>7
  <1> QED
    BY <1>5, <1>8 DEF ReadyAt

(* A switch out of schedule(), called with the states st that differ from   *)
(* those of the tasks in the current slot only.                             *)
LEMMA RescheduleSwitchesToNext ==
  ASSUME SchTypeOK, NEW st, \A i \in Slots \ {current} : st[i] = state[i],
         Reschedule(st), current' # current
  PROVE  /\ state[current'] = "Ready"
         /\ \A k \in 0 .. taskCount - 1 :
              Before(k, current') /\ k # current => state[k] # "Ready"
  <1>1. ReadyAt(st) # {} /\ current' = NextReady(st)
    BY DEF Reschedule
  <1>2. current' \in Slots \ {current} /\ st[current'] = "Ready"
    BY <1>1, NextReadyIsReady
  <1>3. ASSUME NEW k \in 0 .. taskCount - 1, Before(k, current'), k # current
        PROVE  state[k] # "Ready"
    <2>1. st[k] # "Ready"
      BY <1>1, <1>3, NextReadyIsNearest
    <2>2. k \in Slots \ {current}
      BY <1>3, MaxTasksAssumption DEF SchTypeOK, Slots
    <2> QED
      BY <2>1, <2>2
  <1> QED
    BY <1>2, <1>3

(* The CPU goes to a Ready task, and in the order of the table no Ready task*)
(* is passed over, whatever the size of the table.                          *)
THEOREM NoReadyTaskSkipped == SchSpec => SwitchToNextReady
  <1> DEFINE Switched ==
        current' # current =>
          /\ state[current'] = "Ready"
          /\ \A k \in 0 .. taskCount - 1 :
               Before(k, current') /\ k # current => state[k] # "Ready"
  <1>1. SchedInv /\ [SchNext]_schVars => [Switched]_schVars
    <2> SUFFICES ASSUME SchedInv, SchNext PROVE Switched
      OBVIOUS
    <2>1. SchTypeOK /\ state \in [Slots -> TaskState] /\ current \in Slots
      BY DEF SchedInv, SchTypeOK
    <2>2. CASE Schedule
      BY <2>1, <2>2, RescheduleSwitchesToNext DEF Schedule
    <2>3. CASE BlockCurrent
      <3>1. \A i \in Slots \ {current} : [state EXCEPT ![current] = "Blocked"][i] = state[i]
        BY <2>1
      <3> QED
        BY <2>1, <2>3, <3>1, RescheduleSwitchesToNext DEF BlockCurrent
    <2>4. CASE ExitCurrent
      <3>1. \A i \in Slots \ {current} : [state EXCEPT ![current] = "Dead"][i] = state[i]
        BY <2>1
      <3> QED
        BY <2>1, <2>4, <3>1, RescheduleSwitchesToNext DEF ExitCurrent
    <2>5. CASE AddTask \/ \E pid \in 1 .. MaxTasks : Unblock(pid)
      BY <2>5 DEF AddTask, Unblock
    <2> QED
      BY <2>2, <2>3, <2>4, <2>5 DEF SchNext
  <1> QED
    BY <1>1, SchedInvInductive, PTL DEF SchSpec, SwitchToNextReady

-----------------------------------------------------------------------------
(* The semaphore.                                                           *)

USE SemaphoreAssumption

(* The part of the invariant that a step of one thread can disturb for      *)
(* another: what a thread on its way to the store knows.                    *)
Fresh(t) == pc[t] = "store" => seen[t] = count /\ (op[t] # "signal" => count > 0)

(* Entering a call changes neither the count nor the lock.                  *)
LEMMA CallKeepsInv ==
  ASSUME SemInv, NEW t \in Threads, NEW o \in Ops, Call(t, o)
  PROVE  SemInv'
<1>1. TypeOK' BY DEF SemInv, TypeOK, Call, Ops
<1>2. LockExcludes' BY DEF SemInv, TypeOK, LockExcludes, Inside, Call
<1>3. NoUpdateLost' /\ NeverNegative'
  BY DEF SemInv, NoUpdateLost, NeverNegative, Call
<1>4. ASSUME NEW u \in Threads PROVE Fresh(u)'
  BY DEF SemInv, TypeOK, Fresh, Call
<1>5. QED BY <1>1, <1>2, <1>3, <1>4 DEF SemInv, Fresh

(* The exchange lets a thread in only when nobody is inside.                *)
LEMMA AcquireKeepsInv ==
  ASSUME SemInv, NEW t \in Threads, Acquire(t)
  PROVE  SemInv'
<1>1. TypeOK' BY DEF SemInv, TypeOK, Acquire
<1>2. \A u \in Threads : ~ Inside(u) BY DEF SemInv, LockExcludes, Acquire
<1>3. LockExcludes' BY <1>2 DEF SemInv, TypeOK, LockExcludes, Inside, Acquire
<1>4. NoUpdateLost' /\ NeverNegative'
  BY DEF SemInv, NoUpdateLost, NeverNegative, Acquire
<1>5. ASSUME NEW u \in Threads PROVE Fresh(u)'
  BY DEF SemInv, TypeOK, Fresh, Acquire
<1>6. QED BY <1>1, <1>3, <1>4, <1>5 DEF SemInv, Fresh

(* What a thread loads inside the lock is current, and the test of wait and *)
(* try_wait leads to the store only when there is a unit.                   *)
LEMMA LoadKeepsInv ==
  ASSUME SemInv, NEW t \in Threads, Load(t)
  PROVE  SemInv'
<1>1. TypeOK' BY DEF SemInv, TypeOK, Load
<1>2. LockExcludes' BY DEF SemInv, TypeOK, LockExcludes, Inside, Load
<1>3. NoUpdateLost' /\ NeverNegative'
  BY DEF SemInv, NoUpdateLost, NeverNegative, Load
<1>4. ASSUME NEW u \in Threads PROVE Fresh(u)'
  BY DEF SemInv, TypeOK, Fresh, Load
<1>5. QED BY <1>1, <1>2, <1>3, <1>4 DEF SemInv, Fresh

(* The store writes the successor of the current count; no other thread is  *)
(* between its load and its store.                                          *)
LEMMA StoreKeepsInv ==
  ASSUME SemInv, NEW t \in Threads, Store(t)
  PROVE  SemInv'
<1>1. seen[t] = count /\ (op[t] # "signal" => count > 0)
  BY DEF SemInv, Store
<1>2. TypeOK' BY DEF SemInv, TypeOK, Store, Delta
<1>3. LockExcludes' BY DEF SemInv, TypeOK, LockExcludes, Inside, Store
<1>4. NoUpdateLost' BY <1>1 DEF SemInv, TypeOK, NoUpdateLost, Store, Delta
<1>5. NeverNegative' BY <1>1 DEF SemInv, TypeOK, NeverNegative, Store, Delta
<1>6. ASSUME NEW u \in Threads PROVE Fresh(u)'
  <2>1. CASE u = t BY <2>1 DEF SemInv, TypeOK, Fresh, Store
  <2>2. CASE u # t
    <3>1. pc[u] # "store" BY <2>2 DEF SemInv, LockExcludes, Inside, Store
    <3>2. QED BY <2>2, <3>1 DEF SemInv, TypeOK, Fresh, Store
  <2>3. QED BY <2>1, <2>2
<1>7. QED BY <1>2, <1>3, <1>4, <1>5, <1>6 DEF SemInv, Fresh

(* The thread that releases the lock is the only one inside.                *)
LEMMA ReleaseKeepsInv ==
  ASSUME SemInv, NEW t \in Threads, Release(t)
  PROVE  SemInv'
<1>1. TypeOK' BY DEF SemInv, TypeOK, Release
<1>2. \A u \in Threads : ~ Inside(u)'
  <2>1. \A u \in Threads \ {t} : ~ Inside(u)
    BY DEF SemInv, LockExcludes, Inside, Release
  <2>2. QED BY <2>1 DEF SemInv, TypeOK, Inside, Release
<1>3. LockExcludes' BY <1>2 DEF LockExcludes
<1>4. NoUpdateLost' /\ NeverNegative'
  BY DEF SemInv, NoUpdateLost, NeverNegative, Release
<1>5. ASSUME NEW u \in Threads PROVE Fresh(u)'
  BY DEF SemInv, TypeOK, Fresh, Release
<1>6. QED BY <1>1, <1>3, <1>4, <1>5 DEF SemInv, Fresh

(* Every state of the semaphore satisfies its inductive invariant.          *)
THEOREM SemaphoreInvariant == Spec => []SemInv
<1>1. Init => SemInv
  BY DEF Init, SemInv, TypeOK, LockExcludes, Inside, NoUpdateLost, NeverNegative, Ops
<1>2. SemInv /\ [Next]_vars => SemInv'
  <2>1. SUFFICES ASSUME SemInv, [Next]_vars PROVE SemInv'
    OBVIOUS
  <2>2. CASE UNCHANGED vars
    BY <2>1, <2>2 DEF SemInv, TypeOK, LockExcludes, Inside, NoUpdateLost,
                      NeverNegative, vars
  <2>3. CASE Next
    <3>1. PICK t \in Threads : (\E o \in Ops : Call(t, o)) \/ Step(t)
      BY <2>3 DEF Next
    <3>2. CASE \E o \in Ops : Call(t, o) BY <2>1, <3>2, CallKeepsInv
    <3>3. CASE Acquire(t) BY <2>1, <3>3, AcquireKeepsInv
    <3>4. CASE Load(t) BY <2>1, <3>4, LoadKeepsInv
    <3>5. CASE Store(t) BY <2>1, <3>5, StoreKeepsInv
    <3>6. CASE Release(t) BY <2>1, <3>6, ReleaseKeepsInv
    <3>7. QED BY <3>1, <3>2, <3>3, <3>4, <3>5, <3>6 DEF Step
  <2>4. QED BY <2>1, <2>2, <2>3
<1>3. QED BY <1>1, <1>2, PTL DEF Spec

(* At most one thread is inside the spinlock of a semaphore.                *)
THEOREM SemaphoreLockExcludes == Spec => []LockExcludes
<1>1. SemInv => LockExcludes BY DEF SemInv
<1>2. QED BY <1>1, SemaphoreInvariant, PTL

(* No interleaving of wait, try_wait and signal loses an update of count.   *)
THEOREM SemaphoreCountExact == Spec => []NoUpdateLost
<1>1. SemInv => NoUpdateLost BY DEF SemInv
<1>2. QED BY <1>1, SemaphoreInvariant, PTL

(* The count never goes below zero: there are never more holders than       *)
(* units.                                                                   *)
THEOREM SemaphoreNeverNegative == Spec => []NeverNegative
<1>1. SemInv => NeverNegative BY DEF SemInv
<1>2. QED BY <1>1, SemaphoreInvariant, PTL

-----------------------------------------------------------------------------
(* The mutex.                                                               *)

USE MutexAssumption

UnitInv ==
  \/ units = 1 /\ \A t \in Threads : ~ HasUnit(t)
  \/ units = 0 /\ \E t \in Threads : \A u \in Threads : HasUnit(u) <=> u = t

(* Where each thread is agrees with the semaphore call it is in.            *)
Consistent(t) ==
  /\ mpc[t] = "idle" \/ mpc[t] = "clear" => pc[t] = "idle"
  /\ mpc[t] = "taking" => op[t] \in {"wait", "try_wait"}
  /\ mpc[t] = "giving" => op[t] = "signal"
  /\ pc[t] = "store" => ret[t]
  /\ t \in holders => mpc[t] \in {"idle", "taking"}

OwnerHasUnit(t) == owner = t => t \in holders \/ mpc[t] = "clear"

LEMMA MutexInvParts ==
  MutexInv <=> /\ SemInv /\ MutexTypeOK /\ UnitInv /\ ClearsOnlyOwn /\ HolderIsOwner
               /\ \A t \in Threads : Consistent(t)
               /\ \A t \in Threads : OwnerHasUnit(t)
  BY DEF MutexInv, UnitInv, Consistent, OwnerHasUnit

(* A step that gives the unit to nobody and takes it from nobody.           *)
LEMMA UnitStays ==
  ASSUME UnitInv, units' = units, \A u \in Threads : HasUnit(u)' <=> HasUnit(u)
  PROVE  UnitInv'
  BY DEF UnitInv

(* Two threads that have the unit are the same thread.                      *)
LEMMA OneUnit ==
  ASSUME UnitInv, NEW t \in Threads, NEW u \in Threads, HasUnit(t), HasUnit(u)
  PROVE  t = u
  BY DEF UnitInv

(* The semaphore's own invariant needs nothing from the mutex.              *)
LEMMA SemInvSteps ==
  ASSUME SemInv, NEW t \in Threads,
         \/ \E o \in Ops : Call(t, o)
         \/ Step(t)
         \/ UNCHANGED vars
  PROVE  SemInv'
<1>1. CASE \E o \in Ops : Call(t, o) BY <1>1, CallKeepsInv
<1>2. CASE Step(t)
  BY <1>2, AcquireKeepsInv, LoadKeepsInv, StoreKeepsInv, ReleaseKeepsInv DEF Step
<1>3. CASE UNCHANGED vars
  BY <1>3 DEF SemInv, TypeOK, LockExcludes, Inside, NoUpdateLost, NeverNegative, vars
<1>4. QED BY <1>1, <1>2, <1>3

-----------------------------------------------------------------------------

LEMMA LockKeepsInv ==
  ASSUME MutexInv, NEW t \in Threads, NEW o \in {"wait", "try_wait"}, Lock(t, o)
  PROVE  MutexInv'
<1> USE MutexInvParts
<1>1. SemInv' BY SemInvSteps DEF Lock, Ops
<1>2. MutexTypeOK' BY <1>1 DEF MutexTypeOK, SemInv, Lock
<1>3. \A u \in Threads : HasUnit(u)' <=> HasUnit(u)
  BY DEF MutexTypeOK, TypeOK, Consistent, HasUnit, Lock, Call
<1>4. UnitInv' BY <1>3, UnitStays DEF Lock, Call
<1>5. ClearsOnlyOwn' /\ HolderIsOwner'
  BY DEF MutexTypeOK, ClearsOnlyOwn, HolderIsOwner, Lock, Call
<1>6. \A u \in Threads : Consistent(u)' /\ OwnerHasUnit(u)'
  BY DEF MutexTypeOK, TypeOK, Consistent, OwnerHasUnit, Lock, Call
<1>7. QED BY <1>1, <1>2, <1>4, <1>5, <1>6
     DEF MutexInv, UnitInv, Consistent, OwnerHasUnit

(* Only the store moves the unit.                                           *)
LEMMA SemStepKeepsUnit ==
  ASSUME MutexInv, NEW t \in Threads, SemStep(t)
  PROVE  UnitInv'
<1> USE MutexInvParts
<1>1. CASE Acquire(t) \/ Load(t) \/ Release(t)
  <2>1. \A u \in Threads \ {t} : HasUnit(u)' <=> HasUnit(u)
    BY <1>1 DEF MutexTypeOK, TypeOK, HasUnit, SemStep, mutexVars, Acquire, Load, Release
  <2>2. CASE Acquire(t)
    BY <2>1, <2>2, UnitStays
       DEF MutexTypeOK, TypeOK, HasUnit, SemStep, mutexVars, Acquire
  <2>3. CASE Load(t)
    <3>1. HasUnit(t)' <=> HasUnit(t)
      BY <2>3 DEF MutexTypeOK, TypeOK, Consistent, HasUnit, SemStep, mutexVars, Load
    <3>2. QED BY <2>1, <2>3, <3>1, UnitStays DEF Load
  <2>4. CASE Release(t)
    <3>1. HasUnit(t)' <=> HasUnit(t)
      BY <2>4 DEF MutexTypeOK, TypeOK, Consistent, HasUnit, SemStep, mutexVars, Release
    <3>2. QED BY <2>1, <2>4, <3>1, UnitStays DEF Release
  <2>5. QED BY <1>1, <2>2, <2>3, <2>4
<1>2. CASE Store(t)
  <2>1. /\ pc[t] = "store" /\ pc' = [pc EXCEPT ![t] = "release"]
        /\ units' = units + Delta(op[t])
        /\ UNCHANGED <<owner, mpc, holders, ret, op>>
    BY <1>2 DEF Store, SemStep, mutexVars
  <2>2. mpc[t] \in {"taking", "giving"} /\ ret[t]
    BY <2>1 DEF MutexTypeOK, Consistent
  <2>3. \A u \in Threads \ {t} : HasUnit(u)' <=> HasUnit(u)
    BY <2>1 DEF MutexTypeOK, TypeOK, HasUnit
  <2>4. CASE mpc[t] = "taking"
    <3>1. op[t] # "signal" BY <2>4 DEF Consistent
    <3>2. units > 0 BY <2>1, <3>1 DEF SemInv, NoUpdateLost
    <3>3. units = 1 /\ \A u \in Threads : ~ HasUnit(u) BY <3>2 DEF UnitInv
    <3>4. units' = 0 BY <2>1, <3>1, <3>3 DEF Delta
    <3>5. HasUnit(t)' BY <2>1, <2>2, <2>4 DEF MutexTypeOK, TypeOK, HasUnit
    <3>6. QED BY <2>3, <3>3, <3>4, <3>5 DEF UnitInv
  <2>5. CASE mpc[t] = "giving"
    <3>1. op[t] = "signal" /\ t \notin holders BY <2>5 DEF Consistent
    <3>2. HasUnit(t) BY <2>1, <2>5 DEF HasUnit
    <3>3. units = 0 /\ \A u \in Threads \ {t} : ~ HasUnit(u) BY <3>2 DEF UnitInv
    <3>4. units' = 1 BY <2>1, <3>1, <3>3 DEF Delta
    <3>5. ~ HasUnit(t)' BY <2>1, <2>5, <3>1 DEF MutexTypeOK, TypeOK, HasUnit
    <3>6. QED BY <2>3, <3>3, <3>4, <3>5 DEF UnitInv
  <2>6. QED BY <2>2, <2>4, <2>5
<1>3. QED BY <1>1, <1>2 DEF SemStep, Step

LEMMA SemStepKeepsInv ==
  ASSUME MutexInv, NEW t \in Threads, SemStep(t)
  PROVE  MutexInv'
<1> USE MutexInvParts
<1>1. SemInv' BY SemInvSteps DEF SemStep
<1>2. UNCHANGED <<owner, mpc, holders>> BY DEF SemStep, mutexVars
<1>3. MutexTypeOK' BY <1>1, <1>2 DEF MutexTypeOK, SemInv
<1>4. UnitInv' BY SemStepKeepsUnit
<1>5. ClearsOnlyOwn' /\ HolderIsOwner' BY <1>2 DEF ClearsOnlyOwn, HolderIsOwner
<1>6. \A u \in Threads : OwnerHasUnit(u)' BY <1>2 DEF OwnerHasUnit
<1>7. mpc[t] \in {"taking", "giving"}
  BY DEF MutexTypeOK, Consistent, SemStep, Step, Acquire, Load, Store, Release
<1>8. ASSUME NEW u \in Threads PROVE Consistent(u)'
  <2>1. CASE Acquire(t)
    BY <1>2, <1>7, <2>1 DEF MutexTypeOK, TypeOK, Consistent, Acquire
  <2>2. CASE Load(t)
    BY <1>2, <1>7, <2>2 DEF MutexTypeOK, TypeOK, Consistent, Load
  <2>3. CASE Store(t)
    BY <1>2, <1>7, <2>3 DEF MutexTypeOK, TypeOK, Consistent, Store
  <2>4. CASE Release(t)
    BY <1>2, <1>7, <2>4 DEF MutexTypeOK, TypeOK, Consistent, Release
  <2>5. QED BY <2>1, <2>2, <2>3, <2>4 DEF SemStep, Step
<1>9. QED BY <1>1, <1>3, <1>4, <1>5, <1>6, <1>8
     DEF MutexInv, UnitInv, Consistent, OwnerHasUnit

(* The thread that writes owner_tid after wait has the unit, so nobody else *)
(* is a holder.                                                             *)
LEMMA TakeOwnerKeepsInv ==
  ASSUME MutexInv, NEW t \in Threads, TakeOwner(t)
  PROVE  MutexInv'
<1> USE MutexInvParts
<1>1. SemInv' BY SemInvSteps DEF TakeOwner, semVars
<1>2. /\ mpc[t] = "taking" /\ pc[t] = "idle"
      /\ mpc' = [mpc EXCEPT ![t] = "idle"]
      /\ UNCHANGED <<pc, op, ret, units>>
  BY DEF TakeOwner, semVars, vars
<1>3. MutexTypeOK' BY <1>1, <1>2 DEF MutexTypeOK, SemInv, TakeOwner
<1>4. CASE ret[t]
  <2>1. owner' = t /\ holders' = holders \cup {t} BY <1>4 DEF TakeOwner
  <2>2. HasUnit(t) BY <1>2, <1>4 DEF HasUnit
  <2>3. \A u \in Threads : u # t => u \notin holders /\ mpc[u] # "clear"
    BY <2>2, OneUnit DEF HasUnit
  <2>4. \A u \in Threads : HasUnit(u)' <=> HasUnit(u)
    BY <1>2, <2>1, <2>2 DEF MutexTypeOK, HasUnit
  <2>5. UnitInv' BY <1>2, <2>4, UnitStays
  <2>6. ClearsOnlyOwn' /\ HolderIsOwner'
    BY <1>2, <2>1, <2>3 DEF MutexTypeOK, ClearsOnlyOwn, HolderIsOwner
  <2>7. \A u \in Threads : Consistent(u)' /\ OwnerHasUnit(u)'
    BY <1>2, <2>1 DEF MutexTypeOK, Consistent, OwnerHasUnit
  <2>8. QED BY <1>1, <1>3, <2>5, <2>6, <2>7
       DEF MutexInv, UnitInv, Consistent, OwnerHasUnit
<1>5. CASE ~ ret[t]
  <2>1. owner' = owner /\ holders' = holders BY <1>5 DEF TakeOwner
  <2>2. \A u \in Threads : HasUnit(u)' <=> HasUnit(u)
    BY <1>2, <1>5, <2>1 DEF MutexTypeOK, HasUnit
  <2>3. UnitInv' BY <1>2, <2>2, UnitStays
  <2>4. ClearsOnlyOwn' /\ HolderIsOwner'
    BY <1>2, <2>1 DEF MutexTypeOK, ClearsOnlyOwn, HolderIsOwner
  <2>5. \A u \in Threads : Consistent(u)' /\ OwnerHasUnit(u)'
    BY <1>2, <2>1 DEF MutexTypeOK, Consistent, OwnerHasUnit
  <2>6. QED BY <1>1, <1>3, <2>3, <2>4, <2>5
       DEF MutexInv, UnitInv, Consistent, OwnerHasUnit
<1>6. QED BY <1>4, <1>5

LEMMA UnlockKeepsInv ==
  ASSUME MutexInv, NEW t \in Threads, Unlock(t)
  PROVE  MutexInv'
<1> USE MutexInvParts
<1>1. SemInv' BY SemInvSteps DEF Unlock, semVars
<1>2. /\ mpc[t] = "idle" /\ owner = t /\ owner' = owner
      /\ mpc' = [mpc EXCEPT ![t] = "clear"]
      /\ holders' = holders \ {t}
      /\ UNCHANGED <<pc, op, ret, units>>
  BY DEF Unlock, semVars, vars
<1>3. t \in holders BY <1>2 DEF OwnerHasUnit
<1>4. MutexTypeOK' BY <1>1, <1>2 DEF MutexTypeOK, SemInv
<1>5. \A u \in Threads : HasUnit(u)' <=> HasUnit(u)
  BY <1>2, <1>3 DEF MutexTypeOK, HasUnit
<1>6. UnitInv' BY <1>2, <1>5, UnitStays
<1>7. ClearsOnlyOwn' /\ HolderIsOwner'
  BY <1>2 DEF MutexTypeOK, ClearsOnlyOwn, HolderIsOwner
<1>8. \A u \in Threads : Consistent(u)' /\ OwnerHasUnit(u)'
  BY <1>2 DEF MutexTypeOK, Consistent, OwnerHasUnit
<1>9. QED BY <1>1, <1>4, <1>6, <1>7, <1>8
     DEF MutexInv, UnitInv, Consistent, OwnerHasUnit

(* The thread that clears owner_tid still has the unit, so nobody can have  *)
(* become a holder since its check.                                         *)
LEMMA ClearOwnerKeepsInv ==
  ASSUME MutexInv, NEW t \in Threads, ClearOwner(t)
  PROVE  MutexInv'
<1> USE MutexInvParts
<1>1. SemInv' BY SemInvSteps DEF ClearOwner, Ops
<1>2. /\ mpc[t] = "clear" /\ owner' = Nobody
      /\ mpc' = [mpc EXCEPT ![t] = "giving"]
      /\ pc' = [pc EXCEPT ![t] = "acquire"]
      /\ op' = [op EXCEPT ![t] = "signal"]
      /\ UNCHANGED <<holders, ret, units>>
  BY DEF ClearOwner, Call
<1>3. MutexTypeOK' BY <1>1, <1>2 DEF MutexTypeOK, SemInv
<1>4. HasUnit(t) BY <1>2 DEF HasUnit
<1>5. \A u \in Threads : u # t => u \notin holders /\ mpc[u] # "clear"
  BY <1>4, OneUnit DEF HasUnit
<1>6. t \notin holders BY <1>2 DEF Consistent
<1>7. \A u \in Threads : HasUnit(u)' <=> HasUnit(u)
  BY <1>2, <1>4 DEF MutexTypeOK, TypeOK, HasUnit
<1>8. UnitInv' BY <1>2, <1>7, UnitStays
<1>9. holders' = {} /\ \A u \in Threads : mpc'[u] # "clear"
  BY <1>2, <1>5, <1>6 DEF MutexTypeOK
<1>10. ClearsOnlyOwn' /\ HolderIsOwner'
  BY <1>9 DEF ClearsOnlyOwn, HolderIsOwner
<1>11. \A u \in Threads : OwnerHasUnit(u)' BY <1>2 DEF OwnerHasUnit
<1>12. \A u \in Threads : Consistent(u)'
  BY <1>2, <1>9 DEF MutexTypeOK, TypeOK, Consistent
<1>13. QED BY <1>1, <1>3, <1>8, <1>10, <1>11, <1>12
     DEF MutexInv, UnitInv, Consistent, OwnerHasUnit

LEMMA UnlockReturnKeepsInv ==
  ASSUME MutexInv, NEW t \in Threads, UnlockReturn(t)
  PROVE  MutexInv'
<1> USE MutexInvParts
<1>1. SemInv' BY SemInvSteps DEF UnlockReturn, semVars
<1>2. /\ mpc[t] = "giving" /\ pc[t] = "idle"
      /\ mpc' = [mpc EXCEPT ![t] = "idle"]
      /\ UNCHANGED <<owner, holders, pc, op, ret, units>>
  BY DEF UnlockReturn, semVars, vars
<1>3. MutexTypeOK' BY <1>1, <1>2 DEF MutexTypeOK, SemInv
<1>4. \A u \in Threads : HasUnit(u)' <=> HasUnit(u)
  BY <1>2 DEF MutexTypeOK, HasUnit
<1>5. UnitInv' BY <1>2, <1>4, UnitStays
<1>6. ClearsOnlyOwn' /\ HolderIsOwner'
  BY <1>2 DEF MutexTypeOK, ClearsOnlyOwn, HolderIsOwner
<1>7. \A u \in Threads : Consistent(u)' /\ OwnerHasUnit(u)'
  BY <1>2 DEF MutexTypeOK, Consistent, OwnerHasUnit
<1>8. QED BY <1>1, <1>3, <1>5, <1>6, <1>7
     DEF MutexInv, UnitInv, Consistent, OwnerHasUnit

-----------------------------------------------------------------------------

(* Every state of the mutex satisfies its inductive invariant.              *)
THEOREM MutexInvariant == MutexSpec => []MutexInv
<1>1. MutexInit => MutexInv
  <2>1. SUFFICES ASSUME MutexInit PROVE MutexInv OBVIOUS
  <2>2. SemInv
    BY <2>1 DEF MutexInit, Init, SemInv, TypeOK, LockExcludes, Inside, NoUpdateLost,
                NeverNegative, Ops
  <2>3. MutexTypeOK BY <2>1, <2>2 DEF MutexInit, MutexTypeOK, SemInv
  <2>4. UnitInv BY <2>1 DEF MutexInit, Init, UnitInv, HasUnit
  <2>5. QED
    BY <2>1, <2>2, <2>3, <2>4, MutexInvParts
       DEF MutexInit, Init, ClearsOnlyOwn, HolderIsOwner, Consistent, OwnerHasUnit
<1>2. MutexInv /\ [MutexNext]_<<semVars, mutexVars>> => MutexInv'
  <2>1. SUFFICES ASSUME MutexInv, [MutexNext]_<<semVars, mutexVars>> PROVE MutexInv'
    OBVIOUS
  <2>2. CASE MutexNext
    <3>1. PICK t \in Threads :
            Lock(t, "wait") \/ Lock(t, "try_wait") \/ Unlock(t) \/ Run(t)
      BY <2>2 DEF MutexNext
    <3>2. CASE Lock(t, "wait") \/ Lock(t, "try_wait") BY <2>1, <3>2, LockKeepsInv
    <3>3. CASE Unlock(t) BY <2>1, <3>3, UnlockKeepsInv
    <3>4. CASE SemStep(t) BY <2>1, <3>4, SemStepKeepsInv
    <3>5. CASE TakeOwner(t) BY <2>1, <3>5, TakeOwnerKeepsInv
    <3>6. CASE ClearOwner(t) BY <2>1, <3>6, ClearOwnerKeepsInv
    <3>7. CASE UnlockReturn(t) BY <2>1, <3>7, UnlockReturnKeepsInv
    <3>8. QED BY <3>1, <3>2, <3>3, <3>4, <3>5, <3>6, <3>7 DEF Run
  <2>3. CASE UNCHANGED <<semVars, mutexVars>>
    BY <2>1, <2>3
       DEF MutexInv, SemInv, TypeOK, LockExcludes, Inside, NoUpdateLost, NeverNegative,
           MutexTypeOK, HasUnit, ClearsOnlyOwn, HolderIsOwner, semVars, vars, mutexVars
  <2>4. QED BY <2>1, <2>2, <2>3
<1>3. QED BY <1>1, <1>2, PTL DEF MutexSpec

(* No two threads hold the mutex, however lock, try_lock and unlock of any  *)
(* number of threads interleave.                                            *)
THEOREM MutexExcludes == MutexSpec => []MutualExclusion
<1>1. MutexInv => MutualExclusion
  BY DEF MutexInv, HolderIsOwner, MutualExclusion
<1>2. QED BY <1>1, MutexInvariant, PTL

(* The check of unlock, made without a lock, is never stale when it is used.*)
THEOREM UnlockCheckNotStale == MutexSpec => []ClearsOnlyOwn
<1>1. MutexInv => ClearsOnlyOwn BY DEF MutexInv
<1>2. QED BY <1>1, MutexInvariant, PTL

(* The holder of the mutex is the recorded owner until it unlocks.          *)
THEOREM HolderRecorded == MutexSpec => []HolderIsOwner
<1>1. MutexInv => HolderIsOwner BY DEF MutexInv
<1>2. QED BY <1>1, MutexInvariant, PTL

(* No lock, try_lock or unlock loses an update of the semaphore's count.    *)
THEOREM MutexCountExact == MutexSpec => []NoUpdateLost
<1>1. MutexInv => NoUpdateLost BY DEF MutexInv, SemInv
<1>2. QED BY <1>1, MutexInvariant, PTL

=============================================================================
