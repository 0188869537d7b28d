-------------------------- MODULE CaptureFileProofs --------------------------
(* What CaptureFile guarantees for any limits and any number of appends.    *)
EXTENDS CaptureFile, SequenceTheorems, NaturalsInduction,
        WellFoundedInduction, TLAPS

InCallOrder(s) == \A i, j \in 1..Len(s) : i < j => s[i].call < s[j].call

\* A writer at work has a file; one that continues behind a torn record has the
\* rest of it in its buffer.
FileInv == /\ disk \in Seq(Record) /\ buffer \in Seq(Record)
           /\ torn \in BOOLEAN
           /\ header # "whole" => disk = <<>> /\ torn = FALSE
           /\ writer \in {"open", "closed"} => header = "whole"
           /\ writer # "open" => buffer = <<>>
           /\ TornNeverExtended

\* File and buffer together are in the order of the calls; what is acknowledged
\* is among the durable records.
OrderInv == /\ calls \in Nat
            /\ durable \in 0..Len(disk)
            /\ InCallOrder(disk \o buffer)
            /\ \A i \in 1..Len(disk \o buffer) : (disk \o buffer)[i].call <= calls
            /\ \A c \in acked : \E i \in 1..durable : disk[i].call = c

CaptureInv == FileInv /\ OrderInv

-----------------------------------------------------------------------------
\* Cutting a sequence and moving its front to the end of another one.
LEMMA MoveFront ==
  ASSUME NEW d \in Seq(Record), NEW r \in Seq(Record), NEW k \in 0..Len(r)
  PROVE  /\ d \o SubSeq(r, 1, k) \in Seq(Record)
         /\ SubSeq(r, k + 1, Len(r)) \in Seq(Record)
         /\ Len(d \o SubSeq(r, 1, k)) = Len(d) + k
         /\ Len(SubSeq(r, k + 1, Len(r))) = Len(r) - k
         /\ \A i \in 1..Len(d) : (d \o SubSeq(r, 1, k))[i] = d[i]
         /\ (d \o SubSeq(r, 1, k)) \o SubSeq(r, k + 1, Len(r)) = d \o r
<1> DEFINE a == SubSeq(r, 1, k)
           b == SubSeq(r, k + 1, Len(r))
<1>1. /\ Len(r) \in Nat /\ Len(d) \in Nat /\ k \in Int /\ 0 <= k /\ k <= Len(r)
      /\ \A i \in 1..Len(r) : r[i] \in Record
  BY LenProperties, ElementOfSeq
<1>2. a \in Seq(Record) /\ Len(a) = k
  BY <1>1, SubSeqProperties
<1>3. b \in Seq(Record) /\ Len(b) = Len(r) - k
  BY <1>1, SubSeqProperties
<1>4. a \o b = r
  <2>1. 1 \in 1..Len(r) + 1 /\ k \in 1 - 1..Len(r) /\ Len(r) \in k..Len(r)
    BY <1>1
  <2>2. SubSeq(r, 1, k) \o SubSeq(r, k + 1, Len(r)) = SubSeq(r, 1, Len(r))
    BY <2>1, ConcatAdjacentSubSeq, Zenon
  <2> QED
    BY <2>2, SubSeqFull, Zenon
<1> HIDE DEF a, b
<1>5. (d \o a) \o b = d \o r
  <2>1. \A t, u \in Seq(Record) : (d \o t) \o u = d \o (t \o u)
    BY ConcatAssociative
  <2>2. (d \o a) \o b = d \o (a \o b)
    BY <1>2, <1>3, <2>1, Zenon
  <2> QED
    BY <1>4, <2>2, Zenon
<1>6. /\ d \o a \in Seq(Record)
      /\ Len(d \o a) = Len(d) + k
      /\ \A i \in 1..Len(d) : (d \o a)[i] = d[i]
  <2>1. /\ d \o a \in Seq(Record)
        /\ Len(d \o a) = Len(d) + Len(a)
        /\ \A i \in 1..Len(d) + Len(a) :
             (d \o a)[i] = IF i <= Len(d) THEN d[i] ELSE a[i - Len(d)]
    BY <1>2, ConcatProperties, Zenon
  <2> QED
    BY <1>1, <1>2, <2>1
<1> QED
  BY <1>3, <1>5, <1>6 DEF a, b

\* A flush, whole or not, moves records from the buffer to the file.
LEMMA FlushMoves ==
  ASSUME FileInv, NEW records \in Seq(Record),
         Flush(records) \/ FlushFails(records)
  PROVE  /\ disk' \in Seq(Record) /\ buffer' \in Seq(Record)
         /\ torn' \in BOOLEAN /\ (torn' => buffer' # <<>>)
         /\ Len(disk') >= Len(disk)
         /\ \A i \in 1..Len(disk) : disk'[i] = disk[i]
         /\ disk' \o buffer' = disk \o records
<1>1. CASE Flush(records)
  <2>1. disk' = disk \o records /\ buffer' = <<>> /\ torn' = FALSE
    BY <1>1 DEF Flush
  <2>2. disk \o records \in Seq(Record)
        /\ (disk \o records) \o <<>> = disk \o records
    BY ConcatProperties, ConcatEmptySeq DEF FileInv
  <2>3. /\ Len(disk \o records) >= Len(disk)
        /\ \A i \in 1..Len(disk) : (disk \o records)[i] = disk[i]
    BY ConcatProperties, LenProperties DEF FileInv
  <2> QED
    BY <2>1, <2>2, <2>3, EmptySeq
<1>2. CASE FlushFails(records)
  <2>1. PICK k \in 0..Len(records) - 1 :
          /\ disk' = disk \o SubSeq(records, 1, k)
          /\ buffer' = SubSeq(records, k + 1, Len(records))
          /\ torn' \in {TRUE, torn /\ k = 0}
    BY <1>2 DEF FlushFails
  <2>2. Len(records) \in Nat /\ Len(disk) \in Nat
    BY LenProperties DEF FileInv
  <2>3. k \in 0..Len(records) /\ Len(records) - k >= 1
    BY <2>1, <2>2
  <2> HIDE DEF FileInv
  <2>4. /\ disk' \in Seq(Record) /\ buffer' \in Seq(Record)
        /\ Len(disk') = Len(disk) + k
        /\ Len(buffer') = Len(records) - k
        /\ \A i \in 1..Len(disk) : disk'[i] = disk[i]
        /\ disk' \o buffer' = disk \o records
    <3>1. disk \in Seq(Record)
      BY DEF FileInv
    <3>2. /\ disk \o SubSeq(records, 1, k) \in Seq(Record)
          /\ SubSeq(records, k + 1, Len(records)) \in Seq(Record)
          /\ Len(disk \o SubSeq(records, 1, k)) = Len(disk) + k
          /\ Len(SubSeq(records, k + 1, Len(records))) = Len(records) - k
          /\ \A i \in 1..Len(disk) :
               (disk \o SubSeq(records, 1, k))[i] = disk[i]
          /\ (disk \o SubSeq(records, 1, k))
                \o SubSeq(records, k + 1, Len(records)) = disk \o records
      BY <2>3, <3>1, MoveFront, Zenon
    <3> QED
      BY <2>1, <3>2, Zenon
  <2>5. buffer' # <<>>
    <3>1. Len(buffer') # 0
      BY <2>2, <2>3, <2>4
    <3> QED
      BY <3>1
  <2>6. torn' \in BOOLEAN
    <3>1. (torn /\ k = 0) \in BOOLEAN
      BY Zenon DEF FileInv
    <3> QED
      BY <2>1, <3>1
  <2> QED
    BY <2>2, <2>3, <2>4, <2>5, <2>6
<1> QED
  BY <1>1, <1>2

LEMMA WriteStep ==
  ASSUME CaptureInv, NEW r \in Record, r.call = calls + 1, Write(r)
  PROVE  CaptureInv'
<1> DEFINE records == Append(buffer, r)
<1>0. /\ writer = "open" /\ header = "whole"
      /\ calls' = calls + 1
      /\ UNCHANGED <<header, writer>>
      /\ \/ Flush(records) /\ durable' = Len(disk')
              /\ acked' = acked \cup {calls + 1}
         \/ (Flush(records) \/ FlushFails(records))
              /\ UNCHANGED <<durable, acked>>
  BY DEF Write, CaptureInv, FileInv, Failed, Synced
<1>1. /\ records \in Seq(Record)
      /\ buffer \in Seq(Record) /\ disk \in Seq(Record) /\ <<r>> \in Seq(Record)
      /\ records = buffer \o <<r>>
  BY DEF CaptureInv, FileInv
<1>2. /\ disk' \in Seq(Record) /\ buffer' \in Seq(Record)
      /\ torn' \in BOOLEAN /\ (torn' => buffer' # <<>>)
      /\ Len(disk') >= Len(disk)
      /\ \A i \in 1..Len(disk) : disk'[i] = disk[i]
      /\ disk' \o buffer' = disk \o records
  BY <1>0, <1>1, FlushMoves DEF CaptureInv
<1>3. FileInv'
  BY <1>0, <1>2 DEF FileInv, TornNeverExtended
<1> DEFINE old == disk \o buffer
           new == disk' \o buffer'
<1>4. /\ new = old \o <<r>>
      /\ old \in Seq(Record) /\ Len(old) \in Nat
      /\ Len(new) = Len(old) + 1
      /\ \A i \in 1..Len(old) : new[i] = old[i]
      /\ new[Len(old) + 1] = r
  <2>1. new = old \o <<r>>
    BY <1>1, <1>2, ConcatAssociative
  <2>2. old \in Seq(Record) /\ Len(old) \in Nat
    BY <1>1, ConcatProperties, LenProperties
  <2> QED
    BY <1>1, <2>1, <2>2, ConcatProperties
<1>5. calls \in Nat /\ InCallOrder(old)
      /\ \A i \in 1..Len(old) : old[i].call <= calls
  BY DEF CaptureInv, OrderInv
<1>6. \A i \in 1..Len(old) : old[i].call \in Int
  <2>1. \A i \in 1..Len(old) : old[i] \in Record
    BY <1>4, ElementOfSeq, Zenon
  <2>2. \A x \in Record : x.call \in Int
    BY DEF Record
  <2> QED
    BY <2>1, <2>2, Zenon
<1> HIDE DEF old, new, records
<1>7. /\ \A i \in 1..Len(new) : new[i].call <= calls'
      /\ InCallOrder(new)
  <2>1. \A i \in 1..Len(new) : i \in 1..Len(old) \/ i = Len(old) + 1
    BY <1>4
  <2>2. \A i \in 1..Len(old) : new[i].call \in Int /\ new[i].call <= calls
    BY <1>4, <1>5, <1>6, Zenon
  <2>3. new[Len(old) + 1].call = calls + 1 /\ calls' = calls + 1
    BY <1>0, <1>4
  <2>4. ASSUME NEW i \in 1..Len(new)
        PROVE  new[i].call <= calls'
    <3>1. CASE i \in 1..Len(old)
      BY <1>5, <2>2, <2>3, <3>1
    <3>2. CASE i = Len(old) + 1
      BY <1>5, <2>3, <3>2
    <3> QED
      BY <2>1, <3>1, <3>2
  <2>5. ASSUME NEW i \in 1..Len(new), NEW j \in 1..Len(new), i < j
        PROVE  new[i].call < new[j].call
    <3>1. i \in 1..Len(old)
      BY <1>4, <2>5
    <3>2. CASE j \in 1..Len(old)
      BY <1>4, <1>5, <2>5, <3>1, <3>2 DEF InCallOrder
    <3>3. CASE j = Len(old) + 1
      BY <1>5, <2>2, <2>3, <3>1, <3>3
    <3> QED
      BY <2>1, <3>2, <3>3
  <2> QED
    BY <2>4, <2>5 DEF InCallOrder
<1>8. durable' \in 0..Len(disk')
  BY <1>0, <1>1, <1>2, LenProperties DEF CaptureInv, OrderInv
<1>9. ASSUME NEW c \in acked'
      PROVE  \E i \in 1..durable' : disk'[i].call = c
  <2>1. CASE c \in acked
    <3>1. PICK i \in 1..durable : disk[i].call = c
      BY <2>1 DEF CaptureInv, OrderInv
    <3>2. durable' >= durable /\ durable \in 0..Len(disk) /\ Len(disk) \in Nat
      BY <1>0, <1>1, <1>2, LenProperties DEF CaptureInv, OrderInv
    <3>3. i \in 1..durable' /\ i \in 1..Len(disk)
      BY <1>8, <3>2, <1>2, LenProperties
    <3> QED
      BY <1>2, <3>1, <3>3
  <2>2. CASE c \notin acked
    <3>1. /\ c = calls + 1 /\ buffer' = <<>> /\ durable' = Len(disk')
      BY <1>0, <2>2 DEF Flush
    <3>2. new = disk'
      BY <3>1, <1>2, ConcatEmptySeq DEF new
    <3>3. Len(old) + 1 \in 1..durable' /\ disk'[Len(old) + 1].call = c
      BY <1>4, <3>1, <3>2
    <3> QED
      BY <3>3
  <2> QED
    BY <2>1, <2>2
<1> QED
  BY <1>0, <1>3, <1>5, <1>7, <1>8, <1>9 DEF CaptureInv, OrderInv, new

LEMMA CloseStep ==
  ASSUME CaptureInv, Close
  PROVE  CaptureInv'
<1>0. /\ writer = "open" /\ header' = header /\ calls' = calls /\ acked' = acked
      /\ Flush(buffer) \/ FlushFails(buffer)
      /\ durable' \in {durable, Len(disk')}
      /\ writer' = "open" \/ (writer' = "closed" /\ Flush(buffer))
  BY DEF Close
<1>1. /\ disk' \in Seq(Record) /\ buffer' \in Seq(Record)
      /\ torn' \in BOOLEAN /\ (torn' => buffer' # <<>>)
      /\ Len(disk') >= Len(disk)
      /\ \A i \in 1..Len(disk) : disk'[i] = disk[i]
      /\ disk' \o buffer' = disk \o buffer
  <2>1. FileInv /\ buffer \in Seq(Record)
    BY DEF CaptureInv, FileInv
  <2> QED
    BY <1>0, <2>1, FlushMoves
<1>2. FileInv'
  BY <1>0, <1>1 DEF CaptureInv, FileInv, TornNeverExtended, Flush
<1>3. durable' \in durable..Len(disk') /\ durable \in 0..Len(disk)
  <2>1. disk \in Seq(Record)
    BY DEF CaptureInv, FileInv
  <2> QED
    BY <1>0, <1>1, <2>1, LenProperties DEF CaptureInv, OrderInv
<1>4. OrderInv'
  <2>1. \A c \in acked' : \E i \in 1..durable' : disk'[i].call = c
    BY <1>0, <1>1, <1>3 DEF CaptureInv, OrderInv
  <2>2. durable' \in 0..Len(disk')
    BY <1>3
  <2> QED
    BY <1>0, <1>1, <2>1, <2>2 DEF CaptureInv, OrderInv, InCallOrder
<1> QED
  BY <1>2, <1>4 DEF CaptureInv

\* What a crash leaves: a front of the file, and no buffer.
LEMMA CrashStep ==
  ASSUME CaptureInv, NEW k \in durable..Len(disk),
         disk' = SubSeq(disk, 1, k), buffer' = <<>>,
         UNCHANGED <<durable, calls, acked>>
  PROVE  OrderInv' /\ disk' \in Seq(Record) /\ (disk = <<>> => disk' = <<>>)
<1>1. /\ disk \in Seq(Record) /\ buffer \in Seq(Record)
      /\ Len(disk) \in Nat /\ Len(buffer) \in Nat
      /\ k \in 0..Len(disk) /\ durable \in 0..k
  BY LenProperties DEF CaptureInv, FileInv, OrderInv
<1>2. /\ disk' \in Seq(Record) /\ Len(disk') = k
      /\ \A i \in 1..k : disk'[i] = disk[i]
  <2>1. \A i \in 1..k : disk[i] \in Record
    BY <1>1, ElementOfSeq
  <2> QED
    BY <1>1, <2>1, SubSeqProperties
<1>3. disk' \o buffer' = disk'
  BY <1>2, ConcatEmptySeq
<1>4. /\ Len(disk \o buffer) = Len(disk) + Len(buffer)
      /\ \A i \in 1..Len(disk) : (disk \o buffer)[i] = disk[i]
  BY <1>1, ConcatProperties
<1>5. \A i \in 1..k : i \in 1..Len(disk) /\ i \in 1..Len(disk \o buffer)
  BY <1>1, <1>4
<1>6. /\ InCallOrder(disk')
      /\ \A i \in 1..Len(disk') : disk'[i].call <= calls'
  BY <1>2, <1>4, <1>5 DEF CaptureInv, OrderInv, InCallOrder
<1>7. \A c \in acked' : \E i \in 1..durable' : disk'[i].call = c
  BY <1>1, <1>2 DEF CaptureInv, OrderInv
<1>8. OrderInv'
  BY <1>1, <1>2, <1>3, <1>6, <1>7 DEF CaptureInv, OrderInv
<1>9. disk = <<>> => disk' = <<>>
  BY <1>1, <1>2, EmptySeq
<1> QED
  BY <1>2, <1>8, <1>9

LEMMA CrashesStep ==
  ASSUME CaptureInv, Kill \/ PowerLoss
  PROVE  CaptureInv'
<1>1. CASE Kill
  <2>1. /\ disk' = disk /\ buffer' = <<>> /\ torn' = torn /\ writer' = "none"
        /\ UNCHANGED <<durable, calls, acked>>
        /\ header' # "whole" => header # "whole"
    BY <1>1 DEF Kill
  <2>2. disk \in Seq(Record) /\ Len(disk) \in durable..Len(disk)
    BY LenProperties DEF CaptureInv, FileInv, OrderInv
  <2>3. disk' = SubSeq(disk, 1, Len(disk))
    BY <2>1, <2>2, SubSeqFull
  <2>4. OrderInv' /\ disk' \in Seq(Record)
    BY <2>1, <2>2, <2>3, CrashStep
  <2>5. FileInv'
    BY <2>1, <2>4 DEF CaptureInv, FileInv, TornNeverExtended
  <2> QED
    BY <2>4, <2>5 DEF CaptureInv
<1>2. CASE PowerLoss
  <2>1. PICK k \in durable..Len(disk) :
          disk' = SubSeq(disk, 1, k) /\ torn' \in {FALSE, torn \/ k < Len(disk)}
    BY <1>2 DEF PowerLoss
  <2>2. /\ buffer' = <<>> /\ writer' = "none"
        /\ UNCHANGED <<header, durable, calls, acked>>
    BY <1>2 DEF PowerLoss
  <2>3. OrderInv' /\ disk' \in Seq(Record) /\ (disk = <<>> => disk' = <<>>)
    BY <2>1, <2>2, CrashStep
  <2>4. torn' \in BOOLEAN
    <3>1. (torn \/ k < Len(disk)) \in BOOLEAN
      BY Zenon
    <3> QED
      BY <2>1, <3>1, Zenon
  <2>5. disk = <<>> /\ torn = FALSE => torn' = FALSE
    <3>1. SUFFICES ASSUME disk = <<>>, torn = FALSE PROVE torn' = FALSE
      OBVIOUS
    <3>2. ~(k < Len(disk))
      BY <2>1, <3>1 DEF CaptureInv, OrderInv
    <3>3. (torn \/ k < Len(disk)) = FALSE
      BY <3>1, <3>2, Zenon
    <3> QED
      BY <2>1, <3>3, Zenon
  <2>6. FileInv'
    BY <2>2, <2>3, <2>4, <2>5 DEF CaptureInv, FileInv, TornNeverExtended
  <2> QED
    BY <2>3, <2>6 DEF CaptureInv
<1> QED
  BY <1>1, <1>2

LEMMA OtherSteps ==
  ASSUME CaptureInv, Create \/ Reopen \/ Recover \/ UNCHANGED vars
  PROVE  CaptureInv'
<1>1. UNCHANGED <<disk, durable, buffer, calls, acked>>
  BY DEF Create, Reopen, Recover, file, state, vars
<1>2. OrderInv'
  BY <1>1 DEF CaptureInv, OrderInv, InCallOrder
<1>3. FileInv'
  <2> USE DEF CaptureInv, FileInv, TornNeverExtended
  <2>1. CASE Create
    BY <1>1, <2>1 DEF Create
  <2>2. CASE Reopen
    BY <1>1, <2>2 DEF Reopen, Accepted, NoTail, file
  <2>3. CASE Recover
    BY <1>1, <2>3 DEF Recover, state
  <2>4. CASE UNCHANGED vars
    BY <1>1, <2>4 DEF vars, file, state
  <2> QED
    BY <2>1, <2>2, <2>3, <2>4
<1> QED
  BY <1>2, <1>3 DEF CaptureInv

LEMMA InitialFile == Init => CaptureInv
<1> SUFFICES ASSUME Init PROVE CaptureInv
  OBVIOUS
<1>1. disk \in Seq(Record) /\ disk \o buffer = disk /\ Len(disk) = 0
  BY ConcatEmptySeq, EmptySeq DEF Init
<1>2. 1..Len(disk) = {} /\ 1..Len(disk \o buffer) = {}
  BY <1>1
<1>3. OrderInv
  BY <1>1, <1>2 DEF Init, OrderInv, InCallOrder
<1>4. FileInv
  BY <1>1 DEF Init, FileInv, TornNeverExtended
<1> QED
  BY <1>3, <1>4 DEF CaptureInv

\* The two safety properties follow from the invariant.
LEMMA InvariantSuffices ==
  ASSUME CaptureInv
  PROVE  AckedRecovered /\ TornNeverExtended
<1>1. /\ disk \in Seq(Record) /\ buffer \in Seq(Record)
      /\ Len(disk) \in Nat /\ Len(buffer) \in Nat
      /\ durable \in 0..Len(disk) /\ DOMAIN disk = 1..Len(disk)
  BY LenProperties DEF CaptureInv, FileInv, OrderInv
<1>2. /\ Len(disk \o buffer) = Len(disk) + Len(buffer)
      /\ \A i \in 1..Len(disk) : (disk \o buffer)[i] = disk[i]
  BY <1>1, ConcatProperties
<1>3. \A i, j \in 1..Len(disk) : i < j => disk[i].call < disk[j].call
  BY <1>1, <1>2 DEF CaptureInv, OrderInv, InCallOrder
<1>4. acked \subseteq {disk[i].call : i \in 1..Len(disk)}
  BY <1>1 DEF CaptureInv, OrderInv
<1> QED
  BY <1>1, <1>3, <1>4 DEF AckedRecovered, CaptureInv, FileInv

LEMMA CaptureInvariance == Spec => []CaptureInv
<1>1. CaptureInv /\ [Next]_vars => CaptureInv'
  <2> SUFFICES ASSUME CaptureInv, [Next]_vars PROVE CaptureInv'
    OBVIOUS
  <2>1. CASE AppendRecord
    BY <2>1, WriteStep DEF AppendRecord
  <2> QED
    BY <2>1, CloseStep, CrashesStep, OtherSteps DEF Next
<1> QED
  BY <1>1, InitialFile, PTL DEF Spec

\* AckedRecovered and TornNeverExtended, after any sequence of appends, failed
\* flushes, crashes, recoveries and writers that continue the file, whatever
\* the limits are.
THEOREM CaptureFileCorrect == Spec => [](AckedRecovered /\ TornNeverExtended)
<1>1. CaptureInv => AckedRecovered /\ TornNeverExtended
  BY InvariantSuffices
<1> QED
  BY <1>1, CaptureInvariance, PTL

-----------------------------------------------------------------------------
(* What a closed file is read for.  A call that failed leaves a record of    *)
(* which the writer does not know the time; those it acknowledged it holds   *)
(* in order, and the file of a closed writer has no torn end.                *)

TimesInv ==
  /\ last \in Int
  /\ writer = "closed" => torn = FALSE
  /\ \A i, j \in 1..Len(disk) :
       /\ i < j /\ disk[i].call \in acked /\ disk[j].call \in acked
       => disk[i].time <= disk[j].time
  /\ writer = "open" =>
       \A i \in 1..Len(disk) : disk[i].call \in acked => disk[i].time <= last

\* The file alone: its records are in the order of the calls.
DiskOrdered == /\ disk \in Seq(Record) /\ Len(disk) \in Nat
               /\ InCallOrder(disk)
               /\ \A i \in 1..Len(disk) : disk[i].call \in Int
                                            /\ disk[i].call <= calls

LEMMA DiskInOrder == CaptureInv => DiskOrdered
<1> SUFFICES ASSUME CaptureInv PROVE DiskOrdered
  OBVIOUS
<1>1. /\ disk \in Seq(Record) /\ buffer \in Seq(Record)
      /\ Len(disk) \in Nat /\ Len(buffer) \in Nat
  BY LenProperties DEF CaptureInv, FileInv
<1>2. /\ Len(disk \o buffer) = Len(disk) + Len(buffer)
      /\ \A i \in 1..Len(disk) : (disk \o buffer)[i] = disk[i]
  BY <1>1, ConcatProperties
<1>3. \A i \in 1..Len(disk) : disk[i].call \in Int
  <2>1. \A i \in 1..Len(disk) : disk[i] \in Record
    BY <1>1, ElementOfSeq, Zenon
  <2>2. \A x \in Record : x.call \in Int
    BY DEF Record
  <2> QED
    BY <2>1, <2>2, Zenon
<1>4. \A i \in 1..Len(disk) : i \in 1..Len(disk \o buffer)
  BY <1>1, <1>2
<1>5. InCallOrder(disk)
  BY <1>2, <1>4 DEF CaptureInv, OrderInv, InCallOrder
<1>6. \A i \in 1..Len(disk) : disk[i].call <= calls
  BY <1>2, <1>4, Zenon DEF CaptureInv, OrderInv
<1> QED
  BY <1>1, <1>3, <1>5, <1>6 DEF DiskOrdered

\* What is added to the file so far is none of the acknowledged records.
LEMMA AckedBefore ==
  ASSUME CaptureInv, DiskOrdered', Len(disk') >= Len(disk),
         \A i \in 1..Len(disk) : disk'[i] = disk[i]
  PROVE  \A i \in 1..Len(disk') : disk'[i].call \in acked => i \in 1..Len(disk)
<1> SUFFICES ASSUME NEW i \in 1..Len(disk'), disk'[i].call \in acked,
                    ~(i \in 1..Len(disk))
             PROVE  FALSE
  OBVIOUS
<1>1. /\ Len(disk) \in Nat /\ Len(disk') \in Nat /\ durable \in 0..Len(disk)
  <2>1. disk \in Seq(Record)
    BY DEF CaptureInv, FileInv
  <2> QED
    BY <2>1, LenProperties DEF CaptureInv, OrderInv, DiskOrdered
<1>2. PICK j \in 1..durable : disk[j].call = disk'[i].call
  BY DEF CaptureInv, OrderInv
<1>3. j \in 1..Len(disk') /\ j \in 1..Len(disk) /\ j < i
  BY <1>1, <1>2
<1>4. disk'[j].call < disk'[i].call /\ disk'[i].call \in Int
  BY <1>3 DEF DiskOrdered, InCallOrder
<1> QED
  BY <1>2, <1>3, <1>4

\* A file that grows, or is cut behind what is acknowledged, keeps the times of
\* the acknowledged records.
LEMMA TimesKept ==
  ASSUME TimesInv, acked' = acked,
         \A i \in 1..Len(disk') : disk'[i].call \in acked =>
           i \in 1..Len(disk) /\ disk'[i] = disk[i],
         writer' = "closed" => torn' = FALSE,
         last' = last, writer' = "open" => writer = "open"
  PROVE  TimesInv'
<1>1. ASSUME NEW i \in 1..Len(disk'), NEW j \in 1..Len(disk'), i < j,
             disk'[i].call \in acked, disk'[j].call \in acked
      PROVE  disk'[i].time <= disk'[j].time
  <2>1. /\ i \in 1..Len(disk) /\ disk'[i] = disk[i]
        /\ j \in 1..Len(disk) /\ disk'[j] = disk[j]
    BY <1>1
  <2> QED
    BY <1>1, <2>1 DEF TimesInv
<1>2. ASSUME writer' = "open", NEW i \in 1..Len(disk'), disk'[i].call \in acked
      PROVE  disk'[i].time <= last'
  BY <1>2 DEF TimesInv
<1> QED
  BY <1>1, <1>2 DEF TimesInv

LEMMA WriteTimes ==
  ASSUME CaptureInv, DiskOrdered', TimesInv, NEW r \in Record,
         r.call = calls + 1, Write(r)
  PROVE  TimesInv'
<1> DEFINE records == Append(buffer, r)
<1>1. /\ writer = "open" /\ writer' = "open" /\ last <= r.time
      /\ \/ /\ Flush(records) /\ last' = r.time
            /\ acked' = acked \cup {calls + 1}
         \/ /\ Flush(records) \/ FlushFails(records)
            /\ UNCHANGED <<last, acked>>
  BY DEF Write, CaptureInv, FileInv, Failed
<1>2. /\ records \in Seq(Record) /\ buffer \in Seq(Record)
      /\ disk \in Seq(Record) /\ Len(disk) \in Nat /\ Len(buffer) \in Nat
      /\ Len(records) = Len(buffer) + 1 /\ records[Len(buffer) + 1] = r
      /\ \A i \in 1..Len(buffer) : records[i] = buffer[i]
  BY LenProperties DEF CaptureInv, FileInv
<1>3. /\ Len(disk') >= Len(disk)
      /\ \A i \in 1..Len(disk) : disk'[i] = disk[i]
  BY <1>1, <1>2, FlushMoves DEF CaptureInv
<1>4. \A i \in 1..Len(disk') : disk'[i].call \in acked => i \in 1..Len(disk)
  BY <1>3, AckedBefore
<1> HIDE DEF records
<1>5. CASE UNCHANGED <<last, acked>>
  BY <1>1, <1>3, <1>4, <1>5, TimesKept
<1>6. CASE /\ Flush(records) /\ last' = r.time
           /\ acked' = acked \cup {calls + 1}
  <2>1. disk' = disk \o records
    BY <1>6 DEF Flush
  <2>2. /\ Len(disk') = Len(disk) + Len(records)
        /\ disk'[Len(disk) + Len(records)] = r
    <3>1. /\ Len(disk \o records) = Len(disk) + Len(records)
          /\ \A i \in 1..Len(disk) + Len(records) :
               (disk \o records)[i] =
                 IF i <= Len(disk) THEN disk[i] ELSE records[i - Len(disk)]
      BY <1>2, ConcatProperties, Zenon
    <3>2. Len(disk) + Len(records) \in 1..Len(disk) + Len(records)
      BY <1>2
    <3>3. /\ ~(Len(disk) + Len(records) <= Len(disk))
          /\ Len(disk) + Len(records) - Len(disk) = Len(buffer) + 1
      BY <1>2
    <3> DEFINE m == Len(disk) + Len(records)
    <3>4. (disk \o records)[m] = IF m <= Len(disk) THEN disk[m]
                                                   ELSE records[m - Len(disk)]
      BY <3>1, <3>2, Zenon
    <3>5. records[m - Len(disk)] = r /\ ~(m <= Len(disk))
      BY <1>2, <3>3
    <3> HIDE DEF m
    <3> QED
      BY <2>1, <3>1, <3>4, <3>5 DEF m
  <2> DEFINE n == Len(disk')
  <2>3. n \in Nat /\ n \in 1..n /\ disk'[n] = r
    BY <1>2, <2>2
  \* Only the last of the new records is acknowledged, and it is the latest.
  <2>4. ASSUME NEW i \in 1..n, disk'[i].call \in acked'
        PROVE  i = n \/ (/\ i \in 1..Len(disk) /\ disk'[i] = disk[i]
                         /\ disk[i].call \in acked)
    <3>1. CASE disk'[i].call \in acked
      BY <1>3, <1>4, <3>1
    <3>2. CASE disk'[i].call = calls + 1
      <4> SUFFICES ASSUME i < n PROVE FALSE
        BY <2>3
      <4>1. disk'[i].call < disk'[n].call /\ disk'[i].call \in Int
        BY <2>3 DEF DiskOrdered, InCallOrder
      <4> QED
        BY <2>3, <3>2, <4>1
    <3> QED
      BY <1>6, <2>4, <3>1, <3>2
  <2>5. \A x \in Record : x.time \in Int
    BY DEF Record
  <2>6. ASSUME NEW i \in 1..n, disk'[i].call \in acked'
        PROVE  disk'[i].time <= r.time
    <3>1. CASE i = n
      BY <2>3, <2>5, <3>1
    <3>2. CASE i \in 1..Len(disk) /\ disk'[i] = disk[i]
                 /\ disk[i].call \in acked
      <4>1. disk[i].time <= last /\ disk[i].time \in Int
        <5>1. disk[i] \in Record
          BY <1>2, <3>2, ElementOfSeq, Zenon
        <5> QED
          BY <1>1, <2>5, <3>2, <5>1 DEF TimesInv
      <4>2. last \in Int
        BY DEF TimesInv
      <4> QED
        BY <1>1, <2>5, <3>2, <4>1, <4>2
    <3> QED
      BY <2>4, <2>6, <3>1, <3>2
  <2>7. ASSUME NEW i \in 1..n, NEW j \in 1..n, i < j,
               disk'[i].call \in acked', disk'[j].call \in acked'
        PROVE  disk'[i].time <= disk'[j].time
    <3>1. CASE j = n
      BY <2>3, <2>6, <2>7, <3>1
    <3>2. CASE j # n
      <4>1. i # n
        BY <2>3, <2>7
      <4>2. /\ i \in 1..Len(disk) /\ disk'[i] = disk[i]
                 /\ disk[i].call \in acked
            /\ j \in 1..Len(disk) /\ disk'[j] = disk[j]
                 /\ disk[j].call \in acked
        BY <2>4, <2>7, <3>2, <4>1
      <4> QED
        BY <2>7, <4>2 DEF TimesInv
    <3> QED
      BY <3>1, <3>2
  <2>8. last' \in Int
    BY <1>6, <2>5
  <2> QED
    BY <1>1, <1>6, <2>6, <2>7, <2>8 DEF TimesInv
<1> QED
  BY <1>1, <1>5, <1>6

LEMMA TimesStep ==
  CaptureInv /\ DiskOrdered' /\ TimesInv /\ [Next]_vars => TimesInv'
<1> SUFFICES ASSUME CaptureInv, DiskOrdered', TimesInv, [Next]_vars
             PROVE  TimesInv'
  OBVIOUS
<1>0. disk \in Seq(Record) /\ Len(disk) \in Nat
  BY LenProperties DEF CaptureInv, FileInv
<1>1. CASE AppendRecord
  BY <1>1, WriteTimes DEF AppendRecord
<1>2. CASE Close
  <2>1. /\ writer = "open" /\ UNCHANGED <<last, acked>>
        /\ Flush(buffer) \/ FlushFails(buffer)
        /\ writer' = "closed" => Flush(buffer)
    BY <1>2 DEF Close
  <2>2. /\ Len(disk') >= Len(disk)
        /\ \A i \in 1..Len(disk) : disk'[i] = disk[i]
    BY <2>1, FlushMoves DEF CaptureInv, FileInv
  <2>3. \A i \in 1..Len(disk') : disk'[i].call \in acked => i \in 1..Len(disk)
    BY <2>2, AckedBefore
  <2> QED
    BY <2>1, <2>2, <2>3, TimesKept DEF Flush
<1>3. CASE Kill
  BY <1>3, TimesKept DEF Kill
<1>4. CASE PowerLoss
  <2>1. PICK k \in durable..Len(disk) : disk' = SubSeq(disk, 1, k)
    BY <1>4 DEF PowerLoss
  <2>2. writer' = "none" /\ UNCHANGED <<last, acked>>
    BY <1>4 DEF PowerLoss
  <2>3. k \in 0..Len(disk)
    BY <1>0, <2>1 DEF CaptureInv, OrderInv
  <2>4. Len(disk') = k /\ \A i \in 1..k : disk'[i] = disk[i]
    <3>1. \A i \in 1..k : disk[i] \in Record
      BY <1>0, <2>3, ElementOfSeq
    <3> QED
      BY <2>1, <2>3, <3>1, SubSeqProperties
  <2>5. \A i \in 1..Len(disk') : i \in 1..Len(disk) /\ disk'[i] = disk[i]
    BY <1>0, <2>3, <2>4
  <2> QED
    BY <2>2, <2>5, TimesKept
<1>5. CASE Create
  <2>1. /\ header = "none" /\ UNCHANGED <<disk, torn, acked>>
        /\ \/ last' = 0 /\ writer' = "open"
           \/ UNCHANGED <<last, writer>>
    BY <1>5 DEF Create
  <2>2. Len(disk) = 0
    BY <2>1, EmptySeq DEF CaptureInv, FileInv
  <2> QED
    BY <2>1, <2>2 DEF TimesInv
<1>6. CASE Reopen
  <2>1. /\ InTimeOrder(disk) /\ UNCHANGED <<disk, acked>>
        /\ writer' = "open" /\ last' = LatestTime
    BY <1>6 DEF Reopen, Accepted, file
  <2>2. CASE disk = <<>>
    BY <2>1, <2>2, EmptySeq DEF LatestTime, TimesInv
  <2>3. CASE disk # <<>>
    <3>1. Len(disk) \in 1..Len(disk) /\ DOMAIN disk = 1..Len(disk)
      BY <1>0, <2>3, EmptySeq, LenProperties
    <3>2. last' = disk[Len(disk)].time
      BY <2>1, <2>3 DEF LatestTime, Last
    <3>3. \A i \in 1..Len(disk) : disk[i].time \in Int
      <4>1. \A x \in Record : x.time \in Int
        BY DEF Record
      <4>2. \A i \in 1..Len(disk) : disk[i] \in Record
        BY <1>0, ElementOfSeq, Zenon
      <4> QED
        BY <4>1, <4>2, Zenon
    <3>4. \A i \in 1..Len(disk) : disk[i].time <= last'
      <4> SUFFICES ASSUME NEW i \in 1..Len(disk) PROVE disk[i].time <= last'
        OBVIOUS
      <4>1. CASE i = Len(disk)
        BY <3>1, <3>2, <3>3, <4>1
      <4>2. CASE i < Len(disk)
        BY <2>1, <3>1, <3>2, <4>2 DEF InTimeOrder
      <4> QED
        BY <1>0, <4>1, <4>2
    <3> QED
      BY <2>1, <3>1, <3>2, <3>3, <3>4 DEF TimesInv
  <2> QED
    BY <2>2, <2>3
<1>7. CASE Recover
  BY <1>7 DEF Recover, state, TimesInv
<1>8. CASE UNCHANGED vars
  BY <1>8 DEF vars, file, state, TimesInv
<1> QED
  BY <1>1, <1>2, <1>3, <1>4, <1>5, <1>6, <1>7, <1>8 DEF Next

\* The reader accepts every closed file that holds nothing but what append()
\* acknowledged, after any failures, crashes and recoveries before.
THEOREM ClosedFileReadable == Spec => []ClosedReadable
<1>1. Init => TimesInv
  <2> SUFFICES ASSUME Init PROVE TimesInv
    OBVIOUS
  <2>1. Len(disk) = 0 /\ last = 0 /\ writer = "none"
    BY EmptySeq DEF Init
  <2> QED
    BY <2>1 DEF TimesInv
<1>2. CaptureInv /\ DiskOrdered /\ TimesInv => ClosedReadable
  <2> SUFFICES ASSUME CaptureInv, DiskOrdered, TimesInv, writer = "closed",
                      \A i \in DOMAIN disk : disk[i].size = 1,
                      {disk[i].call : i \in DOMAIN disk} = acked
               PROVE  Accepted
    BY DEF ClosedReadable
  <2>1. DOMAIN disk = 1..Len(disk)
    BY LenProperties DEF DiskOrdered
  <2>2. \A i \in 1..Len(disk) : disk[i].call \in acked
    BY <2>1
  <2>3. InTimeOrder(disk)
    BY <2>1, <2>2 DEF TimesInv, InTimeOrder
  <2>4. header = "whole" /\ ~torn
    BY DEF CaptureInv, FileInv, TimesInv
  <2> QED
    BY <2>3, <2>4 DEF Accepted, NoTail
<1> QED
  BY <1>1, <1>2, CaptureInvariance, DiskInOrder, TimesStep, PTL DEF Spec

-----------------------------------------------------------------------------
(* How large the file is: the sum over its records, which is built up from  *)
(* the front, adds up over parts.                                           *)

\* A set of numbers has a least one.
LEMMA SmallestExists ==
  ASSUME NEW T, T \subseteq Nat, T # {}
  PROVE  \E x \in T : \A y \in T : x <= y
<1>1. IsWellFoundedOn(OpToRel(<, Nat), Nat)
  BY NatLessThanWellFounded
<1>2. PICK R : R = {ss \in Nat \X Nat : ss[1] < ss[2]}
  OBVIOUS
<1>3. R = OpToRel(<, Nat)
  BY <1>2 DEF OpToRel
<1>4. IsWellFoundedOn(R, Nat)
  BY <1>1, <1>3, Zenon
<1>5. PICK x \in T : \A y \in T : <<y, x>> \notin R
  BY <1>4, WFMin
<1>6. ASSUME NEW y \in T PROVE x <= y
  <2>1. <<y, x>> \notin R /\ x \in Nat /\ y \in Nat
    BY <1>5
  <2> QED
    BY <1>2, <2>1
<1> QED
  BY <1>6

\* f holds the sizes of the first n records of q, for every n up to k.
Sums(q, k, f) == /\ f \in [0..k -> Nat] /\ f[0] = 0
                 /\ \A n \in 1..k : f[n] = f[n - 1] + q[n].size

LEMMA SizesAreNumbers ==
  ASSUME NEW q \in Seq(Record)
  PROVE  /\ Len(q) \in Nat /\ DOMAIN q = 1..Len(q)
         /\ \A n \in 1..Len(q) : q[n].size \in Nat
<1>1. Len(q) \in Nat /\ DOMAIN q = 1..Len(q)
      /\ \A n \in 1..Len(q) : q[n] \in Record
  BY LenProperties, ElementOfSeq
<1>2. \A r \in Record : r.size \in Nat
  BY DEF Record
<1> QED
  BY <1>1, <1>2

LEMMA SumsExist ==
  ASSUME NEW q \in Seq(Record)
  PROVE  \E f : Sums(q, Len(q), f)
<1>1. Len(q) \in Nat /\ \A n \in 1..Len(q) : q[n].size \in Nat
  BY SizesAreNumbers
<1> DEFINE T == {k \in 0..Len(q) : ~(\E f : Sums(q, k, f))}
<1>2. SUFFICES ASSUME T # {} PROVE FALSE
  BY <1>1
<1>3. PICK k \in T : \A j \in T : k <= j
  <2>1. T \subseteq Nat
    BY <1>1
  <2> HIDE DEF T
  <2> QED
    BY <1>2, <2>1, SmallestExists
<1>4. k \in 0..Len(q) /\ ~(\E f : Sums(q, k, f))
  BY <1>3
<1>5. CASE k = 0
  <2>1. Sums(q, 0, [n \in 0..0 |-> 0])
    BY DEF Sums
  <2> QED
    BY <1>4, <1>5, <2>1
<1>6. CASE k # 0
  <2>1. k - 1 \in 0..Len(q) /\ ~(k <= k - 1) /\ k \in 1..Len(q)
    BY <1>1, <1>4, <1>6
  <2>2. k - 1 \notin T
    BY <1>3, <2>1
  <2>3. PICK f : Sums(q, k - 1, f)
    BY <2>1, <2>2
  <2>4. PICK g : g = [n \in 0..k |-> IF n
        = k THEN f[k - 1] + q[k].size ELSE f[n]]
    OBVIOUS
  <2>5. /\ f \in [0..(k - 1) -> Nat] /\ f[0] = 0
        /\ \A n \in 1..(k - 1) : f[n] = f[n - 1] + q[n].size
        /\ k \in Nat /\ q[k].size \in Nat
    BY <1>1, <2>1, <2>3 DEF Sums
  <2>6. g \in [0..k -> Nat] /\ g[0] = 0 /\ g[k] = f[k - 1] + q[k].size
        /\ \A n \in 0..(k - 1) : g[n] = f[n]
    BY <1>6, <2>4, <2>5
  <2>7. ASSUME NEW n \in 1..k PROVE g[n] = g[n - 1] + q[n].size
    <3>1. n - 1 \in 0..(k - 1)
      BY <2>5
    <3>2. CASE n = k
      BY <2>6, <3>1, <3>2
    <3>3. CASE n # k
      <4>1. n \in 1..(k - 1) /\ n \in 0..(k - 1)
        BY <2>5, <3>3
      <4> QED
        BY <2>5, <2>6, <3>1, <4>1
    <3> QED
      BY <3>2, <3>3
  <2>8. Sums(q, k, g)
    BY <2>6, <2>7 DEF Sums
  <2> QED
    BY <1>4, <2>8
<1> QED
  BY <1>5, <1>6

LEMMA SizeIs ==
  ASSUME NEW q \in Seq(Record), NEW f, Sums(q, Len(q), f)
  PROVE  Size(q) = f[Len(q)] /\ Size(q) \in Nat
<1>1. Len(q) \in Nat /\ \A n \in 1..Len(q) : q[n].size \in Nat
  BY SizesAreNumbers
<1>2. PICK m : m = Len(q)
  OBVIOUS
<1>3. /\ f \in [0..m -> Nat] /\ f[0] = 0 /\ m \in Nat
      /\ \A n \in 1..m : f[n] = f[n - 1] + q[n].size
  BY <1>1, <1>2 DEF Sums
<1> DEFINE Fits(g) == g = [n \in 0..m |-> IF n = 0 THEN 0
                                             ELSE g[n - 1] + q[n].size]
<1>4. Fits(f)
  <2>1. f = [n \in 0..m |-> f[n]]
    BY <1>3
  <2>2. \A n \in 0..m : f[n] = IF n = 0 THEN 0 ELSE f[n - 1] + q[n].size
    BY <1>3
  <2> QED
    BY <2>1, <2>2
<1>5. PICK g : g = CHOOSE h : Fits(h)
  OBVIOUS
<1>6. Fits(g)
  BY <1>4, <1>5, Zenon
<1>7. g[0] = 0 /\ \A n \in 1..m : g[n] = g[n - 1] + q[n].size
  BY <1>3, <1>6
<1>8. ASSUME NEW n \in 0..m, g[n] # f[n] PROVE FALSE
  <2> DEFINE T == {x \in 0..m : g[x] # f[x]}
  <2>1. PICK x \in T : \A y \in T : x <= y
    <3>1. T \subseteq Nat /\ n \in T
      BY <1>3, <1>8
    <3> HIDE DEF T
    <3> QED
      BY <3>1, SmallestExists
  <2>2. x \in 1..m /\ x - 1 \in 0..m /\ ~(x <= x - 1)
    BY <1>3, <1>7, <2>1
  <2>3. g[x - 1] = f[x - 1]
    BY <2>1, <2>2
  <2> QED
    BY <1>3, <1>7, <2>1, <2>2, <2>3
<1>9. Size(q) = g[m]
  BY <1>2, <1>5, Zenon DEF Size
<1>10. m \in 0..m
  BY <1>3
<1> QED
  BY <1>2, <1>3, <1>8, <1>9, <1>10

LEMMA SizeAddsUp ==
  ASSUME NEW a \in Seq(Record), NEW b \in Seq(Record)
  PROVE  Size(a \o b) = Size(a) + Size(b) /\ Size(a) \in Nat /\ Size(b) \in Nat
<1>1. PICK m, n : m = Len(a) /\ n = Len(b)
  OBVIOUS
<1>2. /\ m \in Nat /\ n \in Nat
      /\ a \o b \in Seq(Record) /\ Len(a \o b) = m + n
      /\ \A i \in 1..(m + n) : (a \o b)[i] = IF i <= m THEN a[i] ELSE b[i - m]
  BY <1>1, ConcatProperties, SizesAreNumbers
<1>3. PICK f : Sums(a, m, f)
  BY <1>1, SumsExist
<1>4. PICK g : Sums(b, n, g)
  BY <1>1, SumsExist
<1>5. /\ f \in [0..m -> Nat] /\ f[0] = 0
      /\ \A i \in 1..m : f[i] = f[i - 1] + a[i].size
      /\ g \in [0..n -> Nat] /\ g[0] = 0
      /\ \A i \in 1..n : g[i] = g[i - 1] + b[i].size
  BY <1>3, <1>4 DEF Sums
<1>6. PICK h : h = [i
      \in 0..(m + n) |-> IF i <= m THEN f[i] ELSE f[m] + g[i - m]]
  OBVIOUS
<1>7. /\ h \in [0..(m + n) -> Nat] /\ h[0] = 0
      /\ \A i \in 0..m : h[i] = f[i]
      /\ \A i \in 0..n : h[m + i] = f[m] + g[i]
  <2>1. ASSUME NEW i \in 0..(m + n) PROVE h[i] \in Nat
    <3>1. m \in 0..m /\ f[m] \in Nat
      BY <1>2, <1>5
    <3>2. CASE i <= m
      <4>1. i \in 0..m /\ f[i] \in Nat
        BY <1>2, <1>5, <3>2
      <4> QED
        BY <1>6, <3>2, <4>1
    <3>3. CASE ~(i <= m)
      <4>1. i - m \in 0..n /\ g[i - m] \in Nat
        BY <1>2, <1>5, <3>3
      <4> QED
        BY <1>6, <3>1, <3>3, <4>1
    <3> QED
      BY <3>2, <3>3
  <2>2. h = [i \in 0..(m + n) |-> h[i]]
    BY <1>6
  <2>3. h \in [0..(m + n) -> Nat]
    BY <2>1, <2>2
  <2>4. ASSUME NEW i \in 0..m PROVE h[i] = f[i]
    BY <1>2, <1>6
  <2>5. ASSUME NEW i \in 0..n PROVE h[m + i] = f[m] + g[i]
    <3>1. CASE i = 0
      <4>1. m \in 0..m /\ f[m] \in Nat
        BY <1>2, <1>5
      <4> QED
        BY <1>2, <1>5, <2>4, <3>1, <4>1
    <3>2. CASE i # 0
      <4>1. m + i \in 0..(m + n) /\ ~(m + i <= m) /\ (m + i) - m = i
        BY <1>2, <3>2
      <4> QED
        BY <1>6, <4>1
    <3> QED
      BY <3>1, <3>2
  <2> QED
    BY <1>2, <1>5, <2>3, <2>4, <2>5
<1>8. ASSUME NEW i \in 1..(m + n) PROVE h[i] = h[i - 1] + (a \o b)[i].size
  <2>1. CASE i <= m
    <3>1. i \in 1..m /\ i - 1 \in 0..m /\ i \in 0..m
      BY <1>2, <2>1
    <3>2. (a \o b)[i] = a[i]
      BY <1>2, <2>1
    <3> QED
      BY <1>5, <1>7, <3>1, <3>2
  <2>2. CASE ~(i <= m)
    <3>1. PICK j : j = i - m
      OBVIOUS
    <3>2. j \in 1..n /\ j \in 0..n /\ j - 1 \in 0..n /\ i = m + j
          /\ i - 1 = m + (j - 1)
      BY <1>2, <2>2, <3>1
    <3>3. (a \o b)[i] = b[j]
      BY <1>2, <2>2, <3>1
    <3>4. h[i] = f[m] + g[j] /\ h[i - 1] = f[m] + g[j - 1]
      BY <1>7, <3>2
    <3>5. g[j] = g[j - 1] + b[j].size
      BY <1>5, <3>2
    <3>6. g[j] \in Nat /\ g[j - 1] \in Nat /\ b[j].size \in Nat /\ f[m] \in Nat
      BY <1>1, <1>2, <1>5, <3>2, SizesAreNumbers
    <3> QED
      BY <3>3, <3>4, <3>5, <3>6
  <2> QED
    BY <2>1, <2>2
<1>9. Sums(a \o b, m + n, h)
  BY <1>7, <1>8 DEF Sums
<1>10. Size(a \o b) = h[m + n]
  BY <1>2, <1>9, SizeIs
<1>11. Size(a) = f[m] /\ Size(b) = g[n] /\ Size(a) \in Nat /\ Size(b) \in Nat
  BY <1>1, <1>3, <1>4, SizeIs
<1>12. n \in 0..n
  BY <1>2
<1> QED
  BY <1>7, <1>10, <1>11, <1>12

LEMMA SizeOfOne ==
  ASSUME NEW r \in Record
  PROVE  Size(<<r>>) = r.size /\ r.size \in Nat /\ <<r>> \in Seq(Record)
<1>1. <<r>> \in Seq(Record) /\ Len(<<r>>) = 1 /\ <<r>>[1] = r
  OBVIOUS
<1>2. r.size \in Nat
  BY DEF Record
<1>3. PICK f : f = [n \in 0..1 |-> IF n = 0 THEN 0 ELSE r.size]
  OBVIOUS
<1>4. Sums(<<r>>, 1, f)
  BY <1>1, <1>2, <1>3 DEF Sums
<1>5. Size(<<r>>) = f[1]
  BY <1>1, <1>4, SizeIs
<1> QED
  BY <1>1, <1>2, <1>3, <1>5

LEMMA FrontIsSmaller ==
  ASSUME NEW q \in Seq(Record), NEW k \in 0..Len(q)
  PROVE  /\ Size(SubSeq(q, 1, k)) <= Size(q)
         /\ SubSeq(q, 1, k) \in Seq(Record)
         /\ Size(SubSeq(q, 1, k)) \in Nat /\ Size(q) \in Nat
<1>1. <<>> \in Seq(Record)
  OBVIOUS
<1>2. /\ <<>> \o SubSeq(q, 1, k) \in Seq(Record)
      /\ SubSeq(q, k + 1, Len(q)) \in Seq(Record)
      /\ (<<>> \o SubSeq(q, 1, k)) \o SubSeq(q, k + 1, Len(q)) = <<>> \o q
  BY <1>1, MoveFront, Zenon
<1>3. SubSeq(q, 1, k) \in Seq(Record)
  <2>1. Len(q) \in Nat /\ \A i \in 1..Len(q) : q[i] \in Record
    BY LenProperties, ElementOfSeq
  <2> QED
    BY <2>1, SubSeqProperties
<1>4. <<>> \o SubSeq(q, 1, k) = SubSeq(q, 1, k) /\ <<>> \o q = q
  BY <1>3, ConcatEmptySeq
<1>5. SubSeq(q, 1, k) \o SubSeq(q, k + 1, Len(q)) = q
  BY <1>2, <1>4
<1>6. /\ Size(q) = Size(SubSeq(q, 1, k)) + Size(SubSeq(q, k + 1, Len(q)))
      /\ Size(SubSeq(q, 1, k)) \in Nat /\ Size(SubSeq(q, k + 1, Len(q))) \in Nat
  BY <1>2, <1>3, <1>5, SizeAddsUp
<1> QED
  BY <1>3, <1>6

LEMMA BytesStep ==
  ASSUME MaxBytes \in Nat, CaptureInv, CaptureInv', BytesRespected, [Next]_vars
  PROVE  BytesRespected'
<1>1. /\ disk \in Seq(Record) /\ buffer \in Seq(Record)
      /\ disk' \in Seq(Record) /\ buffer' \in Seq(Record)
  BY DEF CaptureInv, FileInv
<1>2. /\ Size(disk \o buffer) = Size(disk) + Size(buffer)
      /\ Size(disk) \in Nat /\ Size(buffer) \in Nat
      /\ Size(disk \o buffer) <= MaxBytes
  BY <1>1, SizeAddsUp DEF BytesRespected
<1>3. CASE disk' = disk /\ buffer' = buffer
  BY <1>3 DEF BytesRespected
<1>4. ASSUME NEW r \in Record, Write(r) PROVE BytesRespected'
  <2>1. /\ Flush(Append(buffer, r)) \/ FlushFails(Append(buffer, r))
        /\ Tell + r.size <= MaxBytes
    BY <1>4, Zenon DEF Write
  <2>2. Append(buffer, r) \in Seq(Record) /\ Append(buffer, r) = buffer \o <<r>>
    BY <1>1, <1>4, AppendProperties, AppendIsConcat
  <2>3. disk' \o buffer' = disk \o Append(buffer, r)
    BY <2>1, <2>2, FlushMoves DEF CaptureInv
  <2>4. Size(Append(buffer, r)) = Size(buffer) + r.size /\ r.size \in Nat
    BY <1>1, <2>2, SizeAddsUp, SizeOfOne
  <2>5. Size(disk \o Append(buffer, r)) = Size(disk) + (Size(buffer) + r.size)
    BY <1>1, <2>2, <2>4, SizeAddsUp
  <2> QED
    BY <1>2, <2>1, <2>3, <2>4, <2>5 DEF Tell, BytesRespected
<1>5. CASE Close
  <2>1. Flush(buffer) \/ FlushFails(buffer)
    BY <1>5, Zenon DEF Close
  <2>2. disk' \o buffer' = disk \o buffer
    BY <1>1, <2>1, FlushMoves DEF CaptureInv
  <2> QED
    BY <1>2, <2>2 DEF BytesRespected
<1>6. ASSUME NEW k \in 0..Len(disk), disk' = SubSeq(disk, 1, k), buffer' = <<>>
      PROVE  BytesRespected'
  <2>1. disk' \o buffer' = disk'
    BY <1>1, <1>6, ConcatEmptySeq
  <2>2. /\ Size(SubSeq(disk, 1, k)) <= Size(disk)
        /\ Size(SubSeq(disk, 1, k)) \in Nat
    BY <1>1, FrontIsSmaller
  <2>3. Size(disk') <= Size(disk) /\ Size(disk') \in Nat
    BY <1>6, <2>2
  <2>4. Size(disk') <= MaxBytes
    BY <1>2, <2>3
  <2> QED
    BY <2>1, <2>4 DEF BytesRespected
<1>7. CASE Kill
  <2>1. Len(disk) \in Nat /\ SubSeq(disk, 1, Len(disk)) = disk
    BY <1>1, SubSeqFull, LenProperties
  <2>2. disk' = disk /\ buffer' = <<>>
    BY <1>7 DEF Kill
  <2>3. Len(disk) \in 0..Len(disk) /\ disk' = SubSeq(disk, 1, Len(disk))
    BY <2>1, <2>2
  <2> QED
    BY <1>6, <2>2, <2>3
<1>8. CASE PowerLoss
  <2>1. PICK k \in durable..Len(disk) : disk' = SubSeq(disk, 1, k)
    BY <1>8, Zenon DEF PowerLoss
  <2>2. k \in 0..Len(disk) /\ buffer' = <<>>
    BY <1>1, <1>8, LenProperties DEF PowerLoss, CaptureInv, OrderInv
  <2> QED
    BY <1>6, <2>1, <2>2
<1>9. Create \/ Reopen \/ Recover \/ UNCHANGED vars
        => disk' = disk /\ buffer' = buffer
  BY DEF Create, Reopen, Recover, file, state, vars
<1>10. AppendRecord => \E r \in Record : Write(r)
  BY Zenon DEF AppendRecord
<1> QED
  BY <1>3, <1>4, <1>5, <1>7, <1>8, <1>9, <1>10, Zenon DEF Next

\* The file and what waits to be flushed into it stay within max_bytes, through
\* retries after failed flushes, crashes and writers that continue the file.
THEOREM FileWithinBytes ==
  ASSUME MaxBytes \in Nat
  PROVE  Spec => []BytesRespected
<1>1. Init => BytesRespected
  <2> SUFFICES ASSUME Init PROVE BytesRespected
    OBVIOUS
  <2>1. disk \o buffer = <<>> /\ <<>> \in Seq(Record) /\ Len(<<>>) = 0
    BY ConcatEmptySeq DEF Init
  <2>2. Sums(<<>>, 0, [n \in 0..0 |-> 0])
    BY DEF Sums
  <2>3. Size(<<>>) = 0
    BY <2>1, <2>2, SizeIs
  <2> QED
    BY <2>1, <2>3 DEF BytesRespected
<1>2. CaptureInv /\ CaptureInv' /\ BytesRespected /\ [Next]_vars
      => BytesRespected'
  BY BytesStep
<1> QED
  BY <1>1, <1>2, CaptureInvariance, PTL DEF Spec
=============================================================================
