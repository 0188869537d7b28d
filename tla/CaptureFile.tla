----------------------------- MODULE CaptureFile -----------------------------
(***************************************************************************)
(* capture/telemetry.py: one telemetry capture file, the writer that adds  *)
(* datagrams to it within its limits, the strict reader, and the recovery  *)
(* of a torn tail.  The writer hands a record to a buffered file, flushes  *)
(* it and lets the system make it durable: each may fail, and the process  *)
(* or the machine may stop at any time.  What a failed flush could not     *)
(* write stays in the buffer, in front of the next record.                 *)
(***************************************************************************)
EXTENDS Integers, Sequences, SequencesExt

CONSTANTS MaxRecords,  \* max_records of the writer
          MaxBytes,    \* max_bytes, in units, without the header
          MaxTime,     \* bound: the latest receive time
          MaxAppends   \* bound: calls of append()

VARIABLES
  header,   \* of the file: "none" (no file), "torn" or "whole"
  disk,     \* the whole records in the file
  torn,     \* a part of one more record follows them
  durable,  \* how many of the records survive a loss of power
  writer,   \* "none", "open" or "closed"
  buffer,   \* records written and not flushed yet
  count,    \* the writer's count
  last,     \* its _last_timestamp
  calls,    \* append() has been called so often
  acked     \* the calls that returned

file == <<header, disk, torn, durable>>
state == <<writer, buffer, count, last>>
vars == <<file, state, calls, acked>>

\* A record: the call that wrote it, its time and its size.  A datagram of the
\* game has size 1; the writer takes other sizes too.
Record == [call : 1..MaxAppends, time : 1..MaxTime, size : {1, 2}]

Init == /\ header = "none" /\ disk = <<>> /\ torn = FALSE /\ durable = 0
        /\ writer = "none" /\ buffer = <<>> /\ count = 0 /\ last = 0
        /\ calls = 0 /\ acked = {}

Size(records) ==
  LET total[n \in 0..Len(records)] ==
        IF n = 0 THEN 0 ELSE total[n - 1] + records[n].size
  IN  total[Len(records)]

InTimeOrder(records) ==
  \A i, j \in DOMAIN records : i < j => records[i].time <= records[j].time

\* Wrong: the reader stops in front of a partial record, as the recovery does.
TailIgnored == TRUE

NoTail == ~torn

\* CaptureReader: any truncation, foreign size or decrease of time raises.
Accepted == /\ header = "whole"
            /\ NoTail
            /\ InTimeOrder(disk)
            /\ \A i \in DOMAIN disk : disk[i].size = 1

-----------------------------------------------------------------------------
(* The writer. *)

\* A new file: open("xb"), and the header, which is made durable.  On an error
\* the file is removed again, if that succeeds.
Create ==
  /\ writer # "open" /\ header = "none"
  /\ \/ /\ header' = "whole"
        /\ writer' = "open"
        /\ count' = 0 /\ last' = 0
     \/ header' \in {"none", "torn"} /\ UNCHANGED <<writer, count, last>>
  /\ UNCHANGED <<disk, torn, durable, buffer, calls, acked>>

\* Wrong: a writer that continues a file knows of no earlier record.
NoEarlier == 0

LatestTime == IF disk = <<>> THEN 0 ELSE Last(disk).time

\* append=True: an existing file must be accepted as a whole.
Reopen ==
  /\ writer # "open" /\ Accepted
  /\ Len(disk) <= MaxRecords
  /\ writer' = "open"
  /\ count' = Len(disk)
  /\ last' = LatestTime
  /\ UNCHANGED <<file, buffer, calls, acked>>

\* Wrong: the bytes that wait in the buffer are forgotten.
Flushed == Size(disk)

\* _file.tell() counts what is in the buffer.
Tell == Size(disk) + Size(buffer)

\* The flush writes the whole buffer, or fails half-way.
Flush(records) == /\ disk' = disk \o records
                  /\ buffer' = <<>>
                  /\ torn' = FALSE

FlushFails(records) ==
  \E k \in 0..Len(records) - 1 :
    /\ disk' = disk \o SubSeq(records, 1, k)
    /\ buffer' = SubSeq(records, k + 1, Len(records))
    /\ torn' \in {TRUE, torn /\ k = 0}

Failed == UNCHANGED <<durable, count, last, acked>>

\* Wrong: a record is acknowledged before it is durable.
NotSynced == durable

Synced == Len(disk')

\* append() and append_datagram_ns(); a call that is refused has no effect.
Write(r) ==
  /\ writer = "open"
  /\ r.time >= last
  /\ count < MaxRecords
  /\ Tell + r.size <= MaxBytes
  /\ calls' = r.call
  /\ LET records == Append(buffer, r)
     IN  \/ /\ Flush(records)
            /\ \/ /\ durable' = Synced
                  /\ count' = count + 1
                  /\ last' = r.time
                  /\ acked' = acked \cup {r.call}
               \/ Failed
         \/ FlushFails(records) /\ Failed
  /\ UNCHANGED <<header, writer>>

AppendRecord == \E r \in Record : r.call = calls + 1 /\ Write(r)

\* A close() that fails can be called again.
Close ==
  /\ writer = "open"
  /\ \/ /\ Flush(buffer)
        /\ \/ durable' = Len(disk') /\ writer' = "closed"
           \/ UNCHANGED <<durable, writer>>
     \/ FlushFails(buffer) /\ UNCHANGED <<durable, writer>>
  /\ UNCHANGED <<header, count, last, calls, acked>>

-----------------------------------------------------------------------------
(* Crashes and the recovery. *)

\* The process ends, perhaps while it creates the file.
Kill == /\ \/ writer = "open" /\ UNCHANGED header
           \/ header = "none" /\ writer # "open" /\ header' = "torn"
        /\ writer' = "none"
        /\ buffer' = <<>>
        /\ UNCHANGED <<disk, torn, durable, count, last, calls, acked>>

\* The machine stops: of what is not durable any part is left.
PowerLoss ==
  /\ \E k \in durable..Len(disk) : /\ disk' = SubSeq(disk, 1, k)
                                   /\ torn' \in {FALSE, torn \/ k < Len(disk)}
  /\ writer' = "none"
  /\ buffer' = <<>>
  /\ UNCHANGED <<header, durable, count, last, calls, acked>>

\* recover_capture_tail, with no writer at work; without a whole header it
\* raises.
Recover == /\ writer # "open" /\ header = "whole"
           /\ torn' = FALSE
           /\ UNCHANGED <<header, disk, durable, state, calls, acked>>

Next == Create \/ Reopen \/ AppendRecord \/ Close \/ Kill \/ PowerLoss \/ Recover

Spec == Init /\ [][Next]_vars

-----------------------------------------------------------------------------
(* Properties. *)

\* Every datagram that append() has acknowledged is in the file, once and in
\* the order of the calls, after any failures, crashes and recoveries.
AckedRecovered ==
  /\ acked \subseteq {disk[i].call : i \in DOMAIN disk}
  /\ \A i, j \in DOMAIN disk : i < j => disk[i].call < disk[j].call

\* The file never grows beyond max_bytes, retries after failed flushes and
\* writers that continue the file included.
BytesRespected == Size(disk \o buffer) <= MaxBytes

\* A writer never continues behind a torn record, which would make everything
\* after it unreadable: the part in front of a new record is always that of the
\* record which still waits in the same writer's buffer.
TornNeverExtended == writer = "open" /\ torn => buffer # <<>>

\* What the writer acknowledged the reader accepts: a closed file that holds
\* nothing but acknowledged datagrams of the game is read to its end.
ClosedReadable ==
  /\ writer = "closed" /\ \A i \in DOMAIN disk : disk[i].size = 1
  /\ {disk[i].call : i \in DOMAIN disk} = acked
  => Accepted
=============================================================================
