------------------------------- MODULE Keyboard -------------------------------
(***************************************************************************)
(* The keyboard driver, stdlib/drivers/keyboard.qp: an interrupt handler   *)
(* that turns scan codes into events and queues them in a ring buffer, and *)
(* one thread that reads them with poll or getchar.  The handler runs on   *)
(* the thread's CPU and is not interrupted, so it is one step, and its push*)
(* is that of RingBuffer.  The thread is interrupted anywhere: its peek and*)
(* its pop take a step for each access to a field of the buffer, and the   *)
(* update of len reads and writes it.                                      *)
(*                                                                         *)
(* External: the keyboard controller, which holds one scan code until it is*)
(* read; the entry stub, which acknowledges the interrupt; the timer, whose*)
(* interrupt also ends a hlt.                                              *)
(***************************************************************************)
EXTENDS RingBuffer, Selection

CONSTANTS
  Letters,    (* Keys that SCANCODE_MAP gives a letter.                    *)
  Silent,     (* Keys that it gives 0.                                     *)
  ModKeys,    (* The modifier keys in use.                                 *)
  TimerRuns,  (* Whether timer interrupts arrive.                          *)
  MaxKeys     (* How many scan codes arrive: bounds the model.             *)

ModifierOf == [lshift |-> "shift", rshift |-> "shift", ctrl |-> "ctrl", alt |-> "alt"]

Keys      == Letters \cup Silent \cup ModKeys
ScanCodes == [key : Keys, press : BOOLEAN]
KeyEvents == [key : Letters \cup Silent, press : BOOLEAN, upper : BOOLEAN]

(* The buffer has 64 slots (keyboard.qp:47), which divide 2^32.             *)
ASSUME KeyboardAssumption ==
  /\ ModKeys \subseteq DOMAIN ModifierOf
  /\ TimerRuns \in BOOLEAN /\ MaxKeys \in Nat
  /\ Values = KeyEvents /\ {Zero, None} \cap KeyEvents = {}
  /\ None \notin ScanCodes
  /\ IndexLimit % N = 0

VARIABLES
  latch,     (* The controller: the scan code it holds, or None.           *)
  typed,     (* How many scan codes have arrived.                          *)
  down,      (* The keys that are down, as far as the controller has sent. *)
  held,      (* shift_held, ctrl_held, alt_held.                           *)
  pc,        (* The thread: "idle", or its next step in poll or getchar.   *)
  call,      (* "poll" or "getchar".                                       *)
  ev,        (* The event that getchar has peeked at.                      *)
  loaded,    (* The value of len that is_empty has loaded in pop.          *)
  taken,     (* The local val of pop.                                      *)
  accepted,  (* History: the characters that were queued, ...              *)
  read,      (* ... and the ones that poll or getchar has handed out.      *)
  missed,    (* History: how many increments of len were lost.             *)
  overrun    (* History: an event was written over one not yet read.       *)

kbVars == <<latch, typed, down, held, pc, call, ev, loaded, taken, accepted, read,
            missed, overrun>>

(* What belongs to the thread, to the keyboard, and to the history.         *)
thread   == <<pc, call, ev, loaded, taken>>
keyboard == <<latch, typed, down, held>>
history  == <<accepted, read, missed, overrun>>

KbInit ==
  /\ Init
  /\ latch = None
  /\ typed = 0
  /\ down = {}
  /\ held = [m \in {"shift", "ctrl", "alt"} |-> FALSE]
  /\ pc = "idle" /\ call = "poll" /\ ev = Zero /\ loaded = 0 /\ taken = Zero
  /\ accepted = <<>>
  /\ read = <<>>
  /\ missed = 0 /\ overrun = FALSE

-----------------------------------------------------------------------------
(* The keyboard and its interrupt.                                          *)

(* A key goes down, repeats while it is down, or goes up.                   *)
Type(sc) ==
  /\ latch = None
  /\ typed < MaxKeys
  /\ sc.press \/ sc.key \in down
  /\ latch' = sc
  /\ typed' = typed + 1
  /\ down' = IF sc.press THEN down \cup {sc.key} ELSE down \ {sc.key}
  /\ UNCHANGED <<vars, held, thread, history>>

EventOf(sc) ==
  [key |-> sc.key, press |-> sc.press, upper |-> held["shift"] /\ sc.key \in Letters]

(* getchar returns an event of this kind; it discards the others.           *)
Chars == {e \in KeyEvents : e.press /\ e.key \in Letters}

AddChar(chars, e) == IF e \in Chars THEN Append(chars, e) ELSE chars

(* The interrupt ends a hlt.                                                *)
Woken == IF pc = "hlt" THEN "peek" ELSE pc

(* Mutant: the handler returns at once when the buffer is full.             *)
TrackUnlessFull ==
  /\ latch # None
  /\ latch.key \in ModKeys
  /\ held' = IF IsFull THEN held ELSE [held EXCEPT ![ModifierOf[latch.key]] = latch.press]
  /\ latch' = None
  /\ pc' = Woken
  /\ UNCHANGED <<vars, typed, down, call, ev, loaded, taken, history>>

(* handle_irq with the scan code of a modifier key.                         *)
TrackModifier ==
  /\ latch # None
  /\ latch.key \in ModKeys
  /\ held' = [held EXCEPT ![ModifierOf[latch.key]] = latch.press]
  /\ latch' = None
  /\ pc' = Woken
  /\ UNCHANGED <<vars, typed, down, call, ev, loaded, taken, history>>

(* Mutant: when the buffer is full the oldest event makes room.             *)
QueueDroppingOldest ==
  /\ latch # None
  /\ latch.key \notin ModKeys
  /\ buf'  = [buf EXCEPT ![Slot(head)] = EventOf(latch)]
  /\ head' = Plus(head, 1)
  /\ tail' = IF IsFull THEN Plus(tail, 1) ELSE tail
  /\ len'  = IF IsFull THEN len ELSE len + 1
  /\ result' = Accepted
  /\ accepted' = AddChar(accepted, EventOf(latch))
  /\ latch' = None
  /\ pc' = Woken
  /\ UNCHANGED <<typed, down, held, call, ev, loaded, taken, read, missed, overrun>>

(* handle_irq with any other scan code: the event is queued, or lost when   *)
(* the buffer is full.                                                      *)
QueueEvent ==
  /\ latch # None
  /\ latch.key \notin ModKeys
  /\ \/ /\ Push(EventOf(latch))
        /\ accepted' = AddChar(accepted, EventOf(latch))
        /\ overrun' = (overrun \/ len + missed >= N)
     \/ PushFull /\ UNCHANGED <<accepted, overrun>>
  /\ latch' = None
  /\ pc' = Woken
  /\ UNCHANGED <<typed, down, held, call, ev, loaded, taken, read, missed>>

(* The timer interrupt.                                                     *)
Tick ==
  /\ TimerRuns
  /\ pc = "hlt"
  /\ pc' = Woken
  /\ UNCHANGED <<vars, keyboard, call, ev, loaded, taken, history>>

-----------------------------------------------------------------------------
(* The thread.                                                              *)

(* poll() is called, which is pop().                                        *)
Poll ==
  /\ pc = "idle"
  /\ pc' = "pop"
  /\ call' = "poll"
  /\ UNCHANGED <<vars, keyboard, ev, loaded, taken, history>>

(* getchar() is called.                                                     *)
GetChar ==
  /\ pc = "idle"
  /\ pc' = "peek"
  /\ call' = "getchar"
  /\ UNCHANGED <<vars, keyboard, ev, loaded, taken, history>>

(* is_empty() in the peek of getchar: with nothing there it goes on to hlt. *)
PeekTest ==
  /\ pc = "peek"
  /\ pc' = IF IsEmpty THEN "sleep" ELSE "look"
  /\ UNCHANGED <<vars, keyboard, call, ev, loaded, taken, history>>

(* Mutant: getchar does not pop what it discards.                           *)
LookWithoutPop ==
  /\ pc = "look"
  /\ ev' = buf[Slot(tail)]
  /\ pc' = IF ev' \in Chars THEN "pop" ELSE "peek"
  /\ UNCHANGED <<vars, keyboard, call, loaded, taken, history>>

(* The rest of the peek: the event at tail is copied; getchar pops it       *)
(* whether it is a character or not.                                        *)
PeekCopy ==
  /\ pc = "look"
  /\ ev' = buf[Slot(tail)]
  /\ pc' = "pop"
  /\ UNCHANGED <<vars, keyboard, call, loaded, taken, history>>

(* The thread after a pop that answers v: poll returns it; getchar returns  *)
(* the character that it has peeked at, or looks again.                     *)
Return(v) ==
  LET handed == IF call = "poll" THEN v ELSE ev
  IN  /\ read' = AddChar(read, handed)
      /\ pc' = IF call = "poll" \/ handed \in Chars THEN "idle" ELSE "peek"

(* is_empty() in pop.                                                       *)
PopTest ==
  /\ pc = "pop"
  /\ loaded' = len
  /\ IF IsEmpty THEN Return(None) ELSE pc' = "copy" /\ UNCHANGED read
  /\ UNCHANGED <<vars, keyboard, call, ev, taken, accepted, missed, overrun>>

(* let val = self.buf[self.tail % N].                                       *)
PopCopy ==
  /\ pc = "copy"
  /\ taken' = buf[Slot(tail)]
  /\ pc' = "index"
  /\ UNCHANGED <<vars, keyboard, call, ev, loaded, history>>

(* Mutant: the read index is not advanced.                                  *)
TailStays ==
  /\ pc = "index"
  /\ pc' = "count"
  /\ UNCHANGED <<vars, keyboard, call, ev, loaded, taken, history>>

(* self.tail += 1.                                                          *)
PopAdvance ==
  /\ pc = "index"
  /\ tail' = Plus(tail, 1)
  /\ pc' = "count"
  /\ UNCHANGED <<buf, head, len, result, keyboard, call, ev, loaded, taken, history>>

(* self.len -= 1, and the return.  The update starts from a value that len  *)
(* has had since is_empty(): the build may use the one that is_empty() has  *)
(* loaded, load len again, or update it with one instruction.  The handler  *)
(* only adds to len, one by one.                                            *)
PopCount ==
  /\ pc = "count"
  /\ \E old \in loaded .. len :
       /\ len' = old - 1
       /\ missed' = missed + (len - old)
  /\ Return(taken)
  /\ UNCHANGED <<buf, head, tail, result, keyboard, call, ev, loaded, taken, accepted, overrun>>

(* The hlt of getchar.                                                      *)
Halt ==
  /\ pc = "sleep"
  /\ pc' = "hlt"
  /\ UNCHANGED <<vars, keyboard, call, ev, loaded, taken, history>>

Interrupt == TrackModifier \/ QueueEvent
Reader    == PeekTest \/ PeekCopy \/ PopTest \/ PopCopy \/ PopAdvance \/ PopCount \/ Halt

KbNext ==
  \/ \E sc \in ScanCodes : Type(sc)
  \/ Interrupt
  \/ Tick
  \/ Poll
  \/ GetChar
  \/ Reader

(* Interrupts are delivered, a thread that is not halted runs, and the      *)
(* program calls getchar again and again.                                   *)
KbSpec ==
  /\ KbInit /\ [][KbNext]_<<vars, kbVars>>
  /\ WF_<<vars, kbVars>>(Interrupt)
  /\ WF_<<vars, kbVars>>(Tick)
  /\ WF_<<vars, kbVars>>(GetChar)
  /\ WF_<<vars, kbVars>>(Reader)

-----------------------------------------------------------------------------

(* The index of the oldest event that counts as stored, a pop taking effect *)
(* with its update of len, ...                                              *)
first == IF pc = "count" THEN Plus(tail, IndexLimit - 1) ELSE tail

(* ... and the events from there on, with those that len has lost.          *)
outstanding == Stored(buf, first, len + missed)

(* The pop of getchar takes the event it has peeked at, although the handler*)
(* may have run in between, several times: what it returns or discards is   *)
(* what leaves the buffer.  A buffer that was overrun is excepted.          *)
PopsWhatItPeeked ==
  ~ overrun /\ call = "getchar" /\ pc \in {"index", "count"} => taken = ev

(* Increments of len that the thread overwrites delay events and do no more,*)
(* until there are more events than slots: the characters that were queued  *)
(* are the ones handed out followed by the ones between tail and head; none *)
(* is doubled, stale or out of order.                                       *)
CharsInOrder == ~ overrun => accepted = read \o Only(outstanding, Chars)

(* No modifier is stuck: when every scan code has been handled, a modifier  *)
(* that is held has a key that is down.                                     *)
NoStuckModifier ==
  latch = None =>
    \A m \in DOMAIN held :
      held[m] => \E k \in down \cap ModKeys : ModifierOf[k] = m

(* An event that len counts is taken out in the end, although the check of  *)
(* the buffer and the hlt are two steps: at worst it takes until the next   *)
(* tick.                                                                    *)
EventsTaken == len > 0 ~> pc = "count"

-----------------------------------------------------------------------------
(* What the documentation says and the code does not do.                    *)

(* "SPSC-safe (Single Producer Single Consumer) when head/tail are u32",    *)
(* ringbuffer.qp:7: with one handler that pushes and one thread that pops   *)
(* the counters agree whenever the thread is not inside of pop.             *)
SpscSafe == pc \notin {"copy", "index", "count"} => head = Plus(tail, len)

=============================================================================
