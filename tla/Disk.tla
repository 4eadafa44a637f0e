--------------------------------- MODULE Disk ---------------------------------
(***************************************************************************)
(* disk.qp: reading sectors of an ATA drive by polling.  A step is a round  *)
(* of the loop of read_sectors: wait_ready, and the words of one sector.  A *)
(* sector that was read is named by its number; what was in it is up to its *)
(* reader.  The drive is external: it works on one command at a time, and a *)
(* command that it gets while it is busy is lost.                           *)
(***************************************************************************)
EXTENDS Integers, Sequences

CONSTANTS
  LastSector,  (* The drive has the sectors 0 to LastSector.                *)
  MaxLate      (* Bound: how often the drive is busy for 100000 polls.      *)

ASSUME DiskAssumption == LastSector \in Nat /\ MaxLate \in Nat

VARIABLES
  present,   (* AtaDisk.present                                             *)
  drive,     (* the sector that the drive delivers next, how many are left  *)
             (* of its command, and whether it was still busy               *)
  io,        (* the call of read_sectors: its state, how many sectors it    *)
             (* still has to read, and what it has put into the buffer      *)
  lates,     (* how often a poll has run out                                *)
  doubtful   (* the drive has not kept time since the caller began          *)

diskVars == <<present, drive, io, lates, doubtful>>

(* What is no sector: the words of a drive that is not ready, and what the  *)
(* drive says of itself.                                                    *)
Junk == -1
NoIo == [state |-> "none", left |-> 0, buffer |-> <<>>]

DiskInit ==
  /\ present = FALSE
  /\ drive = [next |-> 0, left |-> 0, busy |-> FALSE]
  /\ io = NoIo
  /\ lates = 0
  /\ doubtful = FALSE

(* The drive after a command for count sectors; it gets the command only if *)
(* it has become ready since its answer was late.                           *)
Commanded(first, count, busy) ==
  IF busy THEN drive ELSE [next |-> first, left |-> count, busy |-> FALSE]

(* The drive after 256 words were read from it.                             *)
Emptied(d) ==
  IF d.left > 0 THEN [next |-> d.next + 1, left |-> d.left - 1, busy |-> FALSE]
  ELSE [d EXCEPT !.busy = FALSE]

(* identify.  A failure leaves present as it was: there is no drive, it     *)
(* finds an error, which ends the command, or is of another kind.           *)
Identify ==
  /\ \E busy \in {drive.busy, FALSE} :
       LET asked == Commanded(Junk, 1, busy)
       IN  \/ /\ drive' \in {drive, [asked EXCEPT !.left = 0, !.busy = FALSE]}
              /\ UNCHANGED <<present, lates>>
           \/ /\ drive' = Emptied(asked)
              /\ present' = TRUE
              /\ UNCHANGED lates
           \/ /\ lates < MaxLate
              /\ lates' = lates + 1
              /\ drive' = [asked EXCEPT !.busy = TRUE]
              /\ present' = TRUE
  /\ UNCHANGED <<io, doubtful>>

(* read_sectors, up to its loop.                                            *)
Read(lba, count) ==
  /\ io' = [state  |-> CASE ~present -> "failed"
                         [] present /\ count = 0 -> "ok"
                         [] present /\ count > 0 -> "reading",
            left |-> count, buffer |-> <<>>]
  /\ IF present /\ count > 0
     THEN \E busy \in {drive.busy, FALSE} :
            /\ drive' = Commanded(lba, count, busy)
            /\ doubtful' = (doubtful \/ busy)
     ELSE UNCHANGED <<drive, doubtful>>
  /\ UNCHANGED <<present, lates>>

Put(source) ==
  io' = [state |-> IF io.left = 1 THEN "ok" ELSE "reading",
         left |-> io.left - 1, buffer |-> Append(io.buffer, source)]

Reading == io.state = "reading"

(* The drive is ready in time.                                              *)
Deliver ==
  /\ Reading
  /\ drive.left > 0 => drive.next <= LastSector
  /\ Put(IF drive.left > 0 THEN drive.next ELSE Junk)
  /\ drive' = Emptied(drive)
  /\ UNCHANGED <<present, lates, doubtful>>

(* wait_ready gives up and returns true: the data register is read although *)
(* the drive is still busy.                                                 *)
Late ==
  /\ Reading
  /\ lates < MaxLate
  /\ lates' = lates + 1
  /\ Put(Junk)
  /\ drive' = [drive EXCEPT !.busy = TRUE]
  /\ doubtful' = TRUE
  /\ UNCHANGED present

(* wait_ready finds an error, or the sector is none of the drive's; the     *)
(* command is over.                                                         *)
Fault ==
  /\ Reading
  /\ io' = [io EXCEPT !.state = "failed"]
  /\ drive' = [drive EXCEPT !.left = 0, !.busy = FALSE]
  /\ UNCHANGED <<present, lates, doubtful>>
=============================================================================
