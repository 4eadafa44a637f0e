-------------------------------- MODULE Mutex --------------------------------
(***************************************************************************)
(* The mutex of stdlib/kernel/ipc.qp: a semaphore of one unit, Semaphore,  *)
(* and the id of the thread that owns it.  The owner is read and written   *)
(* outside the spinlock of the semaphore, so that its check in unlock, its *)
(* reset and the signal are steps that other threads' steps come between.  *)
(***************************************************************************)
EXTENDS Semaphore

CONSTANT Nobody   (* owner_tid = 0.                                        *)

ASSUME MutexAssumption == Nobody \notin Threads

VARIABLES
  owner,     (* owner_tid.                                                 *)
  mpc,       (* Where each thread is in lock, try_lock or unlock.          *)
  holders    (* History: the threads to which lock or try_lock returned    *)
             (* with success and whose unlock has not gone past its check. *)

semVars   == vars
mutexVars == <<owner, mpc, holders>>

(* Mutex::new, with a semaphore of one unit.                                *)
MutexInit ==
  /\ Init /\ count = 1
  /\ owner   = Nobody
  /\ mpc     = [t \in Threads |-> "idle"]
  /\ holders = {}

-----------------------------------------------------------------------------

(* lock, o being "wait", and try_lock, o being "try_wait", begin.           *)
Lock(t, o) ==
  /\ mpc[t] = "idle"
  /\ Call(t, o)
  /\ mpc' = [mpc EXCEPT ![t] = "taking"]
  /\ UNCHANGED <<owner, holders>>

(* A step of the semaphore operation that a thread is in.                   *)
SemStep(t) == Step(t) /\ UNCHANGED mutexVars

(* The semaphore operation of lock or try_lock has returned: with a unit,   *)
(* the thread writes its id and returns; without one try_lock returns.      *)
TakeOwner(t) ==
  /\ mpc[t] = "taking"
  /\ pc[t] = "idle"
  /\ owner' = IF ret[t] THEN t ELSE owner
  /\ holders' = IF ret[t] THEN holders \cup {t} ELSE holders
  /\ mpc' = [mpc EXCEPT ![t] = "idle"]
  /\ UNCHANGED semVars

(* Mutant: unlock does not compare the owner with the caller.               *)
UnlockByAnyone(t) ==
  /\ mpc[t] = "idle"
  /\ owner # Nobody
  /\ mpc' = [mpc EXCEPT ![t] = "clear"]
  /\ holders' = holders \ {t}
  /\ UNCHANGED <<owner, semVars>>

(* unlock, called by the owner.  Called by any other thread it returns      *)
(* false and changes nothing.                                               *)
Unlock(t) ==
  /\ mpc[t] = "idle"
  /\ owner = t
  /\ mpc' = [mpc EXCEPT ![t] = "clear"]
  /\ holders' = holders \ {t}
  /\ UNCHANGED <<owner, semVars>>

(* Mutant: the owner is cleared and the unit is not given back.             *)
ClearOwnerWithoutSignal(t) ==
  /\ mpc[t] = "clear"
  /\ owner' = Nobody
  /\ mpc' = [mpc EXCEPT ![t] = "idle"]
  /\ UNCHANGED <<holders, semVars>>

(* owner_tid = 0, and the call of signal.                                   *)
ClearOwner(t) ==
  /\ mpc[t] = "clear"
  /\ owner' = Nobody
  /\ Call(t, "signal")
  /\ mpc' = [mpc EXCEPT ![t] = "giving"]
  /\ UNCHANGED holders

(* Mutant: the owner is cleared after the signal as well.                   *)
UnlockReturnClears(t) ==
  /\ mpc[t] = "giving"
  /\ pc[t] = "idle"
  /\ owner' = Nobody
  /\ mpc' = [mpc EXCEPT ![t] = "idle"]
  /\ UNCHANGED <<holders, semVars>>

(* signal has returned, and unlock returns true.                            *)
UnlockReturn(t) ==
  /\ mpc[t] = "giving"
  /\ pc[t] = "idle"
  /\ mpc' = [mpc EXCEPT ![t] = "idle"]
  /\ UNCHANGED <<owner, holders, semVars>>

Run(t) == SemStep(t) \/ TakeOwner(t) \/ ClearOwner(t) \/ UnlockReturn(t)

MutexNext ==
  \E t \in Threads : Lock(t, "wait") \/ Lock(t, "try_wait") \/ Unlock(t) \/ Run(t)

MutexSpec == MutexInit /\ [][MutexNext]_<<semVars, mutexVars>>

(* Every thread inside a call runs, and gets a spinlock that is free again  *)
(* and again; nobody has to call unlock.                                    *)
FairMutexSpec ==
  /\ MutexSpec
  /\ \A t \in Threads :
       /\ WF_<<semVars, mutexVars>>(Run(t))
       /\ SF_<<semVars, mutexVars>>(Acquire(t) /\ UNCHANGED mutexVars)

-----------------------------------------------------------------------------

MutexTypeOK ==
  /\ TypeOK
  /\ owner \in Threads \cup {Nobody}
  /\ mpc \in [Threads -> {"idle", "taking", "clear", "giving"}]
  /\ holders \subseteq Threads

(* No two threads hold the mutex.                                           *)
MutualExclusion == \A t, u \in holders : t = u

(* The unlocked check of unlock is good enough: a thread that went past it  *)
(* is still the owner when it clears the owner, so that it never takes the  *)
(* mutex away from a thread that has got it meanwhile.                      *)
ClearsOnlyOwn == \A t \in Threads : mpc[t] = "clear" => owner = t

(* A holder that is not inside unlock is the recorded owner, so that its    *)
(* own unlock is never refused.                                             *)
HolderIsOwner == \A t \in holders : owner = t

(* The thread has the unit of the semaphore: its wait or try_wait has taken *)
(* it, and its signal has not given it back.                                *)
HasUnit(t) ==
  \/ mpc[t] = "taking" /\ pc[t] \in {"release", "idle"} /\ ret[t]
  \/ t \in holders
  \/ mpc[t] = "clear"
  \/ mpc[t] = "giving" /\ pc[t] \in {"acquire", "load", "store"}

(* The inductive invariant: the unit is in the semaphore or with exactly one*)
(* thread, and only the thread that has it is recorded as the owner.        *)
MutexInv ==
  /\ SemInv
  /\ MutexTypeOK
  /\ \/ units = 1 /\ \A t \in Threads : ~ HasUnit(t)
     \/ units = 0 /\ \E t \in Threads : \A u \in Threads : HasUnit(u) <=> u = t
  /\ \A t \in Threads :
       /\ mpc[t] = "idle" \/ mpc[t] = "clear" => pc[t] = "idle"
       /\ mpc[t] = "taking" => op[t] \in {"wait", "try_wait"}
       /\ mpc[t] = "giving" => op[t] = "signal"
       /\ pc[t] = "store" => ret[t]
       /\ t \in holders => mpc[t] \in {"idle", "taking"}
  /\ ClearsOnlyOwn
  /\ HolderIsOwner
  /\ \A t \in Threads : owner = t => t \in holders \/ mpc[t] = "clear"

(* If a thread waits for the mutex, some thread gets it: an unlock never    *)
(* leaves it with nobody while there are threads in lock.                   *)
SomebodyGetsIt ==
  \A t \in Threads : mpc[t] = "taking" /\ op[t] = "wait" ~> holders # {}

=============================================================================
