------------------------------ MODULE Scheduler ------------------------------
(***************************************************************************)
(* The round-robin scheduler of the kernel library,                        *)
(* stdlib/kernel/scheduler.qp.  It is cooperative: nothing in the timer or *)
(* interrupt code calls it, so every operation below is made by the one    *)
(* flow of control that is on the CPU, and runs to its end.                *)
(*                                                                         *)
(* This module is about the table of tasks: which slot gets the CPU.  The  *)
(* call of switch_context is left out, and nothing is said of the flow that*)
(* runs after it.  The calls are those of the flow of the slot current, as *)
(* if every switch resumed the flow of the new slot.  The body of          *)
(* switch_context in regs.qp does not do that: it never loads rip, and it  *)
(* loads r13 to r15 through a register that it has just overwritten.       *)
(***************************************************************************)
EXTENDS Naturals

CONSTANT MaxTasks    (* MAX_TASKS, the length of the task array.           *)

ASSUME MaxTasksAssumption == MaxTasks \in Nat \ {0}

Slots     == 0 .. MaxTasks - 1
TaskState == {"Ready", "Running", "Blocked", "Dead"}

VARIABLES
  taskCount, (* task_count: slots 0 .. taskCount-1 hold tasks.             *)
  current,   (* current: the slot the scheduler takes to be on the CPU, at *)
             (* first slot 0, whose place the boot flow takes.             *)
  state,     (* tasks[i].state.                                            *)
  halted     (* Slots whose flow is in the hlt loop of exit_current, or    *)
             (* enters it when it gets the CPU back.                       *)

schVars == <<taskCount, current, state, halted>>

SchInit ==
  /\ taskCount = 0
  /\ current   = 0
  /\ state     = [i \in Slots |-> "Ready"]
  /\ halted    = {}

-----------------------------------------------------------------------------

(* The search of schedule() walks the slots after current, wraps around and *)
(* ends with current itself: ReadyAt is the set of distances at which it    *)
(* would stop, st being the states it sees.                                 *)
ReadyAt(st) == {d \in 1 .. taskCount : st[(current + d) % taskCount] = "Ready"}

(* Mutant: the search starts at slot 0 instead of after current.            *)
NextReadyFromZero(st) ==
  LET others == {i \in 0 .. taskCount - 1 : st[i] = "Ready"} \ {current}
  IN  IF others = {} THEN current
      ELSE CHOOSE i \in others : \A j \in others : i <= j

(* The slot at which the search stops.                                      *)
NextReady(st) ==
  LET nearest == CHOOSE d \in ReadyAt(st) : \A e \in ReadyAt(st) : d <= e
  IN  (current + nearest) % taskCount

(* Mutant: the slot that is left keeps its state.                           *)
RescheduleKeepsRunning(st) ==
  IF taskCount = 0 \/ ReadyAt(st) = {} \/ NextReady(st) = current
  THEN /\ state' = st
       /\ UNCHANGED current
  ELSE /\ state' = [st EXCEPT ![NextReady(st)] = "Running"]
       /\ current' = NextReady(st)

(* schedule(), called when the task states are st.  It returns without a    *)
(* switch when there is no task, when no slot is ready, and when the only   *)
(* ready slot is the current one, whose state is then left alone; the slot  *)
(* it leaves becomes Ready whatever its state was.                          *)
Reschedule(st) ==
  IF taskCount = 0 \/ ReadyAt(st) = {} \/ NextReady(st) = current
  THEN /\ state' = st
       /\ UNCHANGED current
  ELSE /\ state' = [st EXCEPT ![current] = "Ready", ![NextReady(st)] = "Running"]
       /\ current' = NextReady(st)

-----------------------------------------------------------------------------

(* add_task: pid taskCount+1 in the first unused slot, or 0 when the table  *)
(* is full.                                                                 *)
AddTask ==
  /\ current \notin halted
  /\ taskCount < MaxTasks
  /\ state' = [state EXCEPT ![taskCount] = "Ready"]
  /\ taskCount' = taskCount + 1
  /\ UNCHANGED <<current, halted>>

(* schedule, called by a flow that gives up the CPU.                        *)
Schedule ==
  /\ current \notin halted
  /\ Reschedule(state)
  /\ UNCHANGED <<taskCount, halted>>

(* block_current.                                                           *)
BlockCurrent ==
  /\ current \notin halted
  /\ Reschedule([state EXCEPT ![current] = "Blocked"])
  /\ UNCHANGED <<taskCount, halted>>

(* unblock(pid): the slot of that pid, pids being slot numbers plus one,    *)
(* becomes Ready, whatever it was; an unknown pid is ignored.               *)
Unblock(pid) ==
  /\ current \notin halted
  /\ pid - 1 \in 0 .. taskCount - 1
  /\ state' = [state EXCEPT ![pid - 1] = "Ready"]
  /\ UNCHANGED <<taskCount, current, halted>>

(* exit_current: when schedule returns to the exited flow, at once or after *)
(* a later switch back to it, that flow stays in its hlt loop.              *)
ExitCurrent ==
  /\ current \notin halted
  /\ halted' = halted \cup {current}
  /\ Reschedule([state EXCEPT ![current] = "Dead"])
  /\ UNCHANGED taskCount

SchNext ==
  \/ AddTask
  \/ Schedule
  \/ BlockCurrent
  \/ \E pid \in 1 .. MaxTasks : Unblock(pid)
  \/ ExitCurrent

SchSpec == SchInit /\ [][SchNext]_schVars

(* A cooperative system lives on every flow yielding in the end.            *)
SchFairSpec == SchSpec /\ WF_schVars(Schedule)

-----------------------------------------------------------------------------

SchTypeOK ==
  /\ taskCount \in 0 .. MaxTasks
  /\ current \in Slots
  /\ state \in [Slots -> TaskState]
  /\ halted \subseteq Slots

(* At most one task is Running, and it is the one in the slot current:      *)
(* block_current and exit_current, which act on tasks[current], never hit a *)
(* task while another one is marked as running.                             *)
OnlyCurrentRuns == \A i \in Slots : state[i] = "Running" => i = current

(* The inductive invariant: besides, the current slot is in use once any is.*)
SchedInv ==
  /\ SchTypeOK
  /\ current = 0 \/ current < taskCount
  /\ OnlyCurrentRuns

(* Slot k comes before slot new when one walks the table from current.      *)
Before(k, new) ==
  \E d, e \in 1 .. taskCount : /\ d < e
                              /\ (current + d) % taskCount = k
                              /\ (current + e) % taskCount = new

(* A switch goes to a Ready task, and skips none: between the slot that is  *)
(* left and the one that gets the CPU, in the order of the table, there is  *)
(* no Ready task ("Switch to next ready task", SPEC.md:491).                *)
SwitchToNextReady ==
  [][current' # current =>
       /\ state[current'] = "Ready"
       /\ \A k \in 0 .. taskCount - 1 :
            Before(k, current') /\ k # current => state[k] # "Ready"]_schVars

(* Under round robin no Ready task waits for ever, as long as every flow    *)
(* yields: it gets the CPU, unless the CPU has been taken for good by a     *)
(* flow in the hlt loop of exit_current.                                    *)
ReadyRuns ==
  \A i \in Slots :
    i < taskCount /\ state[i] = "Ready" ~> current = i \/ current \in halted
=============================================================================
