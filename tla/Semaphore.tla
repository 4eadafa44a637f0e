------------------------------ MODULE Semaphore ------------------------------
(***************************************************************************)
(* The counting semaphore of stdlib/kernel/ipc.qp: a count and a spinlock  *)
(* around every use of it.  Threads run at the same time; a step is one    *)
(* access to shared memory.  count is a plain variable, so that its test   *)
(* and its update are two accesses: only the spinlock keeps them together. *)
(***************************************************************************)
EXTENDS Integers

CONSTANTS
  Threads,   (* The threads that use the semaphore.                        *)
  Initial,   (* The argument of Semaphore::new.                            *)
  MaxCount   (* No signal is called while the count is at MaxCount or more:*)
             (* bounds the model.                                          *)

ASSUME SemaphoreAssumption == Initial \in Nat /\ MaxCount \in Nat

VARIABLES
  count,     (* count.                                                     *)
  locked,    (* lock.locked.                                               *)
  pc,        (* The next step of each thread's call; "idle" outside one.   *)
  op,        (* The operation each thread is in, or was in last.           *)
  seen,      (* The value of count that the thread has loaded.             *)
  ret,       (* Whether the thread's call has taken or given a unit.       *)
  units      (* History: Initial, plus one for every signal and minus one  *)
             (* for every wait or try_wait that has succeeded.             *)

vars == <<count, locked, pc, op, seen, ret, units>>

Ops == {"wait", "try_wait", "signal"}

Init ==
  /\ count  = Initial
  /\ locked = 0
  /\ pc     = [t \in Threads |-> "idle"]
  /\ op     = [t \in Threads |-> "wait"]
  /\ seen   = [t \in Threads |-> 0]
  /\ ret    = [t \in Threads |-> FALSE]
  /\ units  = Initial

-----------------------------------------------------------------------------

(* The entry of wait, try_wait and signal.                                  *)
Call(t, o) ==
  /\ pc[t] = "idle"
  /\ o = "signal" => units < MaxCount
  /\ pc' = [pc EXCEPT ![t] = "acquire"]
  /\ op' = [op EXCEPT ![t] = o]
  /\ UNCHANGED <<count, locked, seen, ret, units>>

(* Mutant: the lock is taken without a look at its old value.               *)
AcquireBlindly(t) ==
  /\ pc[t] = "acquire"
  /\ locked' = 1
  /\ pc' = [pc EXCEPT ![t] = "load"]
  /\ UNCHANGED <<count, op, seen, ret, units>>

(* lock.acquire(): the exchange that finds the lock free ends the spinning. *)
(* One that finds it held writes the value that is there already.           *)
Acquire(t) ==
  /\ pc[t] = "acquire"
  /\ locked = 0
  /\ locked' = 1
  /\ pc' = [pc EXCEPT ![t] = "load"]
  /\ UNCHANGED <<count, op, seen, ret, units>>

(* The load of count, and for wait and try_wait the test count > 0.         *)
Load(t) ==
  /\ pc[t] = "load"
  /\ seen' = [seen EXCEPT ![t] = count]
  /\ LET goes == op[t] = "signal" \/ count > 0
     IN  /\ ret' = [ret EXCEPT ![t] = goes]
         /\ pc' = [pc EXCEPT ![t] = IF goes THEN "store" ELSE "release"]
  /\ UNCHANGED <<count, locked, op, units>>

Delta(o) == IF o = "signal" THEN 1 ELSE -1

(* count -= 1, or count += 1.                                               *)
Store(t) ==
  /\ pc[t] = "store"
  /\ count' = seen[t] + Delta(op[t])
  /\ units' = units + Delta(op[t])
  /\ pc' = [pc EXCEPT ![t] = "release"]
  /\ UNCHANGED <<locked, op, seen, ret>>

(* Mutant: the path on which wait finds no unit keeps the lock.             *)
ReleaseUnlessRetry(t) ==
  /\ pc[t] = "release"
  /\ locked' = IF op[t] = "wait" /\ ~ ret[t] THEN locked ELSE 0
  /\ pc' = [pc EXCEPT ![t] = IF op[t] = "wait" /\ ~ ret[t] THEN "acquire" ELSE "idle"]
  /\ UNCHANGED <<count, op, seen, ret, units>>

(* lock.release(); a wait that found no unit starts again, every other call *)
(* returns.                                                                 *)
Release(t) ==
  /\ pc[t] = "release"
  /\ locked' = 0
  /\ pc' = [pc EXCEPT ![t] = IF op[t] = "wait" /\ ~ ret[t] THEN "acquire" ELSE "idle"]
  /\ UNCHANGED <<count, op, seen, ret, units>>

Step(t) == Acquire(t) \/ Load(t) \/ Store(t) \/ Release(t)

Next == \E t \in Threads : (\E o \in Ops : Call(t, o)) \/ Step(t)

Spec == Init /\ [][Next]_vars

(* Every thread runs, and a thread that spins while the lock is free again  *)
(* and again gets it in the end: the exchange is not promised more than     *)
(* that by the bus, and with less a thread can spin for ever.               *)
FairSpec ==
  /\ Spec
  /\ \A t \in Threads : WF_vars(Step(t)) /\ SF_vars(Acquire(t))

-----------------------------------------------------------------------------

TypeOK ==
  /\ count \in Int
  /\ locked \in {0, 1}
  /\ pc \in [Threads -> {"idle", "acquire", "load", "store", "release"}]
  /\ op \in [Threads -> Ops]
  /\ seen \in [Threads -> Int]
  /\ ret \in [Threads -> BOOLEAN]
  /\ units \in Int

Inside(t) == pc[t] \in {"load", "store", "release"}

(* At most one thread is between acquire and release, and then the lock is  *)
(* held.                                                                    *)
LockExcludes ==
  /\ \A t, u \in Threads : Inside(t) /\ Inside(u) => t = u
  /\ (\E t \in Threads : Inside(t)) => locked = 1

(* No update is lost: the count is what the completed operations make it.   *)
NoUpdateLost == count = units

(* No unit is handed out that is not there, whatever the interleaving.      *)
NeverNegative == count >= 0

(* The inductive invariant: inside the lock a loaded value stays current,   *)
(* and a wait or try_wait on its way to the store has seen a unit.          *)
SemInv ==
  /\ TypeOK
  /\ LockExcludes
  /\ NoUpdateLost
  /\ NeverNegative
  /\ \A t \in Threads :
       pc[t] = "store" => seen[t] = count /\ (op[t] # "signal" => count > 0)

(* A signal or a try_wait returns: neither depends on anything but the      *)
(* lock, which nobody keeps.                                                *)
CallsReturn ==
  \A t \in Threads : pc[t] # "idle" /\ op[t] # "wait" ~> pc[t] = "idle"

(* A wait returns, or the count is zero again and again: a waiting thread   *)
(* cannot be passed over for ever while there are units.                    *)
WaitReturns ==
  \A t \in Threads :
    pc[t] = "acquire" /\ op[t] = "wait" ~> pc[t] = "idle" \/ count = 0

=============================================================================
