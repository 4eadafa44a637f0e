------------------------------- MODULE Channel -------------------------------
(***************************************************************************)
(* Channel<T> of stdlib/kernel/ipc.qp: a ring buffer, RingAccess, behind a *)
(* spinlock.  Any number of threads send and receive; some of the contexts *)
(* may be interrupt handlers, which run on the CPU of a thread and keep it *)
(* from running until they return.                                         *)
(***************************************************************************)
EXTENDS RingAccess

CONSTANTS
  Messages,    (* The values that are sent.                                *)
  Handlers,    (* The contexts that are interrupt handlers.                *)
  Host         (* The thread on whose CPU each handler runs.               *)

ASSUME HandlerAssumption ==
  Handlers \subseteq Contexts /\ Host \in [Handlers -> Contexts \ Handlers]

VARIABLES
  locked,    (* lock.locked.                                               *)
  where,     (* Where each context is: "idle", "acquire" or "inside".      *)
  answer     (* History: the answer of the latest send or recv whose ring  *)
             (* operation is complete.                                     *)

channelVars == <<ringVars, locked, where, answer>>

ChannelInit ==
  /\ RingInit
  /\ locked = 0
  /\ where = [c \in Contexts |-> "idle"]
  /\ answer = None

(* An interrupt handler that has begun runs before the thread it interrupted*)
(* does anything.                                                           *)
CanRun(c) == \A h \in Handlers : Host[h] = c => where[h] = "idle"

-----------------------------------------------------------------------------

(* The entry of send(v), and of recv() with v = Zero.                       *)
Call(c, o, v) ==
  /\ CanRun(c)
  /\ where[c] = "idle"
  /\ where' = [where EXCEPT ![c] = "acquire"]
  /\ doing' = [doing EXCEPT ![c] = o]
  /\ val'   = [val EXCEPT ![c] = v]
  /\ UNCHANGED <<buf, head, tail, len, at, seen, ok, locked, answer>>

(* Mutant: the lock is taken without a look at its old value.               *)
AcquireBlindly(c) ==
  /\ CanRun(c)
  /\ where[c] = "acquire"
  /\ locked' = 1
  /\ Enter(c, doing[c], val[c])
  /\ where' = [where EXCEPT ![c] = "inside"]
  /\ UNCHANGED answer

(* lock.acquire(), whose last exchange finds the lock free, and the call of *)
(* push or pop.                                                             *)
Acquire(c) ==
  /\ CanRun(c)
  /\ where[c] = "acquire"
  /\ locked = 0
  /\ locked' = 1
  /\ Enter(c, doing[c], val[c])
  /\ where' = [where EXCEPT ![c] = "inside"]
  /\ UNCHANGED answer

(* A step of push or pop.                                                   *)
Inside(c) ==
  /\ CanRun(c)
  /\ where[c] = "inside"
  /\ RingStep(c)
  /\ answer' = IF at'[c] = "out" THEN Answer(c)' ELSE answer
  /\ UNCHANGED <<locked, where>>

(* Mutant: the lock is released only when the operation has succeeded.      *)
ReleaseOnSuccess(c) ==
  /\ CanRun(c)
  /\ where[c] = "inside"
  /\ at[c] = "out"
  /\ locked' = IF ok[c] THEN 0 ELSE locked
  /\ where' = [where EXCEPT ![c] = "idle"]
  /\ Forget(c)
  /\ UNCHANGED answer

(* lock.release(), and the return.                                          *)
Release(c) ==
  /\ CanRun(c)
  /\ where[c] = "inside"
  /\ at[c] = "out"
  /\ locked' = 0
  /\ where' = [where EXCEPT ![c] = "idle"]
  /\ Forget(c)
  /\ UNCHANGED answer

Run(c) == Acquire(c) \/ Inside(c) \/ Release(c)

ChannelNext ==
  \E c \in Contexts :
    \/ \E v \in Messages : Call(c, "push", v)
    \/ Call(c, "pop", Zero)
    \/ Run(c)

(* A call once begun goes on, and a lock that is free again and again is    *)
(* taken in the end.                                                        *)
ChannelSpec ==
  /\ ChannelInit /\ [][ChannelNext]_channelVars
  /\ \A c \in Contexts : WF_channelVars(Run(c)) /\ SF_channelVars(Acquire(c))

-----------------------------------------------------------------------------

ChannelFifo == INSTANCE BoundedFifo
  WITH Values <- Messages, queue <- queued, result <- answer, Capacity <- N

(* A channel is one bounded FIFO queue for all its users: every send and    *)
(* every recv takes effect at one moment between its call and its return,   *)
(* values come out once each in the order they went in, and send refuses a  *)
(* value only while the queue is full.                                      *)
ChannelIsFifo == ChannelFifo!Spec

(* Every send and every recv returns: neither of them waits for the other   *)
(* side, only for the lock.                                                 *)
CallsReturn == \A c \in Contexts : where[c] # "idle" ~> where[c] = "idle"

(* "Spinlock (busy-wait, interrupt-safe)", ipc.qp:9: a handler that waits   *)
(* for the lock does not wait for the very thread that it keeps from        *)
(* running.                                                                 *)
InterruptSafe ==
  \A h \in Handlers : ~ (where[h] = "acquire" /\ where[Host[h]] = "inside")

=============================================================================
