------------------------ MODULE SessionRecorderProofs ------------------------
(* What the five files of SessionRecorder hold through failing writes,      *)
(* crashes and a recovery, for any number of them.                          *)
EXTENDS SessionRecorder, TLAPS

USE DEF counters

FileState == [good : Nat, synced : Nat, buffered : Nat, tail : Tails]

RecorderTypes ==
  /\ phase \in {"recording", "finalizing", "closing", "ended", "down",
                "recovering", "recovered", "refused"}
  /\ step \in 1..8
  /\ failed \in BOOLEAN /\ half \in BOOLEAN /\ powerLost \in BOOLEAN
  /\ open \subseteq Files
  /\ health \in Nat /\ total \in Nat
  /\ noted \in [Workers -> Nat \cup {None}] /\ overlapped \in BOOLEAN
  /\ file \in [Files -> FileState]
  /\ manifest \in {"none", "temporary", "renamed", "durable"}
  /\ sums \in [Files -> Nat] /\ acked \in [Files -> Nat]

\* The lines of health.jsonl, those in the buffer included.
Lines == file["health"].good + file["health"].buffered

\* The counter accounts for the lines, and so does what a worker has read of it;
\* unless two workers overlap, only one has, and that is up to date.
CounterInv ==
  /\ Accounts(health, Lines)
  /\ \A w \in Workers : Counting(w) => noted[w] <= Lines
  /\ ~overlapped =>
       /\ \A w \in Workers : Counting(w) => noted[w] = health
       /\ \A v, w \in Workers : Counting(v) /\ Counting(w) => v = w

\* While the process lives, bytes that are no record yet wait in the buffer of
\* their file, or belong to a torn frame, which has made the session fail.
BufferInv ==
  Running =>
    /\ ~powerLost
    /\ half => phase = "recording"
    /\ file["frames"].buffered = 0
    /\ \A f \in Files \ {"frames"} :
         file[f].tail # "clean" => file[f].buffered > 0
    /\ CounterInv
    /\ ~failed => \A f \in Files \ {"health"} :
                    file[f].buffered = 0 /\ file[f].tail = "clean"

\* What was acknowledged is readable, and the two telemetry files are one
\* datagram apart at most, until a write fails or the machine stops.
AckedInv ==
  ~failed /\ ~powerLost =>
    /\ \A f \in Files : file[f].good >= acked[f]
    /\ SidecarBehindBinary
    /\ Running => file["binary"].good - file["sidecar"].good
                    = IF half THEN 1 ELSE 0

\* A closed file: everything is on the disk.
Complete(f) == /\ f \notin open
               /\ file[f].synced = file[f].good
               /\ file[f].buffered = 0 /\ file[f].tail = "clean"

\* What the next manifest says is what the files hold.
Described == /\ \A f \in Files : sums[f] = file[f].good
             /\ total = health

\* finalize() has closed the files behind it and none before it, and nothing
\* has failed.
FinalizeInv ==
  /\ phase = "recording" => step = 1 /\ open = Files
  /\ phase = "finalizing" =>
       /\ ~failed
       /\ \A i \in 1..5 : IF i < step THEN Complete(CloseOrder[i])
                                        ELSE CloseOrder[i] \in open
       /\ step >= 7 => Described
       /\ step <= 7 => ~Sealed

\* A manifest in place vouches for closed files, which nothing changes.
SealInv == Sealed => /\ phase # "recording"
                     /\ \A f \in Files : /\ Complete(f)
                                         /\ sums[f] = file[f].good
                                         /\ sums[f] >= acked[f]
                     /\ StreamsAgree

RecoveryInv ==
  /\ phase \in {"down", "recovering"} =>
       /\ step <= 5
       /\ \A i \in 1..5 : i < step => file[RecoverOrder[i]].tail = "clean"
  /\ RecoveredReadable

RecorderInv == /\ RecorderTypes /\ BufferInv /\ AckedInv
               /\ FinalizeInv /\ SealInv /\ RecoveryInv

-----------------------------------------------------------------------------
(* What the operations on one file leave behind. *)

\* A flush behind a torn record reads nothing new; any other makes all that was
\* written readable.
LEMMA FlushedState ==
  ASSUME NEW x \in FileState, NEW n \in Nat
  PROVE  /\ Flushed(x, n) \in FileState
         /\ Flushed(x, n).synced = x.synced
         /\ Flushed(x, n).buffered = 0
         /\ Torn(x) => /\ Flushed(x, n).good = x.good
                       /\ Flushed(x, n).tail # "clean"
         /\ ~Torn(x) => /\ Flushed(x, n).good = x.good + x.buffered + n
                        /\ Flushed(x, n).tail = "clean"
<1>1. CASE Torn(x)
  <2> DEFINE t == IF n = 0 THEN x.tail ELSE "garbage"
  <2>1. Flushed(x, n) = [x EXCEPT !.tail = t]
    BY <1>1 DEF Flushed
  <2>2. t \in Tails /\ t # "clean" /\ x.buffered = 0
    BY <1>1 DEF Torn, FileState, Tails
  <2> HIDE DEF t
  <2> QED  BY <1>1, <2>1, <2>2 DEF FileState
<1>2. CASE ~Torn(x)
  <2> DEFINE all == x.good + x.buffered + n
  <2>1. Flushed(x, n) = [x EXCEPT !.good = all, !.buffered = 0, !.tail = "clean"]
    BY <1>2 DEF Flushed
  <2>2. all \in Nat
    BY DEF FileState
  <2>3. /\ Flushed(x, n) \in FileState
        /\ Flushed(x, n).synced = x.synced /\ Flushed(x, n).buffered = 0
        /\ Flushed(x, n).good = all /\ Flushed(x, n).tail = "clean"
    <3> HIDE DEF all
    <3>1. Flushed(x, n) = [good |-> all, synced |-> x.synced,
                           buffered |-> 0, tail |-> "clean"]
      BY <2>1 DEF FileState
    <3>2. "clean" \in Tails
      BY DEF Tails
    <3> QED  BY <2>2, <3>1, <3>2 DEF FileState
  <2> QED  BY <1>2, <2>3
<1> QED  BY <1>1, <1>2

\* flush and fsync: the same, and all of it is on the disk.
LEMMA SyncedState ==
  ASSUME NEW x \in FileState
  PROVE  /\ Synced(x) \in FileState
         /\ Synced(x).synced = Synced(x).good
         /\ Synced(x).buffered = 0
         /\ Torn(x) => Synced(x).good = x.good
         /\ ~Torn(x) => /\ Synced(x).good = x.good + x.buffered
                        /\ Synced(x).tail = "clean"
<1> DEFINE y == Flushed(x, 0)
<1>1. /\ y \in FileState /\ y.buffered = 0
      /\ Torn(x) => y.good = x.good
      /\ ~Torn(x) => y.good = x.good + x.buffered /\ y.tail = "clean"
  <2>1. /\ y \in FileState /\ y.buffered = 0
        /\ Torn(x) => y.good = x.good
        /\ ~Torn(x) => y.good = x.good + x.buffered + 0 /\ y.tail = "clean"
    BY FlushedState
  <2>2. x.good + x.buffered + 0 = x.good + x.buffered
    BY DEF FileState
  <2> QED  BY <2>1, <2>2
<1>2. Synced(x) = [y EXCEPT !.synced = y.good]
  BY DEF Synced
<1> HIDE DEF y
<1>3. QED  BY <1>1, <1>2 DEF FileState

\* A write that fails makes nothing readable, and leaves its record in the
\* buffer if the buffer can hold it.
LEMMA HalfWrittenState ==
  ASSUME NEW f \in Files, file \in [Files -> FileState], NEW x \in HalfWritten(f)
  PROVE  /\ x \in FileState
         /\ x.good = file[f].good
         /\ x.buffered = file[f].buffered + (IF f = "frames" THEN 0 ELSE 1)
<1> DEFINE t == IF Torn(file[f]) THEN "garbage" ELSE "short"
           cut == [file[f] EXCEPT !.tail = t]
<1>1. /\ file[f] \in FileState /\ cut \in FileState
      /\ cut.good = file[f].good /\ cut.buffered = file[f].buffered
  <2>1. t \in Tails
    BY DEF Tails
  <2> HIDE DEF t
  <2> QED  BY <2>1 DEF FileState
<1>2. HalfWritten(f) = IF f = "frames"
                         THEN {file[f], cut}
                         ELSE {[y EXCEPT !.buffered = @ + 1] : y \in {file[f], cut}}
  BY DEF HalfWritten
<1> HIDE DEF cut
<1>3. CASE f = "frames"
  <2>1. x \in {file[f], cut}
    BY <1>2, <1>3
  <2>2. file[f].buffered + 0 = file[f].buffered
    BY <1>1 DEF FileState
  <2> QED  BY <1>1, <1>3, <2>1, <2>2
<1>4. CASE f # "frames"
  <2>1. PICK y \in {file[f], cut} : x = [y EXCEPT !.buffered = y.buffered + 1]
    BY <1>2, <1>4
  <2> QED  BY <1>1, <1>4, <2>1 DEF FileState
<1> QED  BY <1>3, <1>4

\* The same of an append, as the invariant needs it: the file it is made to,
\* and the others.
LEMMA AppendState ==
  ASSUME NEW f \in Files, RecorderTypes, Written(f) \/ WriteFails(f)
  PROVE  /\ file' \in [Files -> FileState]
         /\ acked' \in [Files -> Nat]
         /\ \A g \in Files : g # f => file'[g] = file[g] /\ acked'[g] = acked[g]
         /\ Written(f) => /\ file'[f] = Flushed(file[f], 1)
                          /\ acked'[f] = acked[f] + 1
         /\ WriteFails(f) => file'[f] \in HalfWritten(f) /\ acked' = acked
<1> USE DEF RecorderTypes
<1>1. CASE Written(f)
  <2>1. Flushed(file[f], 1) \in FileState
    BY FlushedState
  <2>2. ~WriteFails(f) \/ acked' = acked
    BY DEF WriteFails
  <2>3. acked'[f] # acked[f]
    BY <1>1 DEF Written
  <2> QED  BY <1>1, <2>1, <2>2, <2>3 DEF Written
<1>2. CASE WriteFails(f)
  <2>1. PICK x \in HalfWritten(f) : file' = [file EXCEPT ![f] = x]
    BY <1>2 DEF WriteFails
  <2>2. x \in FileState
    BY HalfWrittenState
  <2>3. acked' = acked
    BY <1>2 DEF WriteFails
  <2>4. ~Written(f)
    BY <2>3 DEF Written
  <2> QED  BY <2>1, <2>2, <2>3, <2>4
<1> QED  BY <1>1, <1>2

\* What survives a power loss is a file again; of one that was synced to its
\* end, everything does.
LEMMA SurvivalState ==
  ASSUME NEW x \in FileState, NEW y \in Survivals(x)
  PROVE  /\ y \in FileState
         /\ x.synced = x.good /\ x.tail = "clean" /\ x.buffered = 0 => y = x
<1>1. PICK n \in x.synced..x.good, t \in Tails :
        y = [good |-> n, synced |-> n, buffered |-> 0, tail |-> t]
  BY DEF Survivals
<1>2. y \in FileState
  BY <1>1 DEF FileState
<1>3. ASSUME x.synced = x.good, x.tail = "clean", x.buffered = 0
      PROVE  y = x
  <2>1. n = x.good
    BY <1>1, <1>3 DEF FileState
  <2>2. x = [good |-> x.good, synced |-> x.good, buffered |-> 0, tail |-> "clean"]
    BY <1>3 DEF FileState
  <2>3. CASE t = "clean"
    BY <1>1, <2>1, <2>2, <2>3
  <2>4. CASE t \in {"short", "garbage"}
    <3>1. y \in {[good |-> x.good, synced |-> x.good, buffered |-> 0, tail |-> u] :
                   u \in {"short", "garbage"}}
      BY <1>1, <2>1, <2>4
    <3> QED  BY <3>1, <1>3 DEF Survivals
  <2> QED  BY <2>3, <2>4 DEF Tails
<1> QED  BY <1>2, <1>3

-----------------------------------------------------------------------------
(* The invariant is inductive. *)

LEMMA RecorderInit == Init => RecorderInv
<1> SUFFICES ASSUME Init PROVE RecorderInv
  OBVIOUS
<1> USE DEF Init
<1>1. RecorderTypes
  <2>1. [good |-> 0, synced |-> 0, buffered |-> 0, tail |-> "clean"] \in FileState
    BY DEF FileState, Tails
  <2>2. file \in [Files -> FileState]
    BY <2>1
  <2>3. sums \in [Files -> Nat] /\ acked \in [Files -> Nat] /\ open \subseteq Files
    OBVIOUS
  <2>4. /\ phase = "recording" /\ step = 1 /\ health = 0 /\ total = 0
        /\ manifest = "none"
    OBVIOUS
  <2>5. failed \in BOOLEAN /\ half \in BOOLEAN /\ powerLost \in BOOLEAN
    OBVIOUS
  <2>6. noted \in [Workers -> Nat \cup {None}] /\ overlapped \in BOOLEAN
    OBVIOUS
  <2> HIDE DEF Init
  <2> QED  BY <2>2, <2>3, <2>4, <2>5, <2>6 DEF RecorderTypes
<1>2. BufferInv
  <2>1. CounterInv
    BY DEF CounterInv, Accounts, Lines, Counting, Files
  <2> QED  BY <2>1 DEF BufferInv, Files
<1>3. AckedInv
  <2>1. 0 - 0 \in 0..1 /\ 0 - 0 = 0 /\ 0 >= 0
    OBVIOUS
  <2>2. \A f \in Files : file[f].good = 0 /\ acked[f] = 0
    OBVIOUS
  <2>3. file["binary"].good = 0 /\ file["sidecar"].good = 0 /\ ~half
    BY <2>2 DEF Files
  <2> QED  BY <2>1, <2>2, <2>3 DEF AckedInv, SidecarBehindBinary
<1>4. FinalizeInv /\ SealInv /\ RecoveryInv
  BY DEF FinalizeInv, SealInv, RecoveryInv, Sealed, RecoveredReadable
<1> QED  BY <1>1, <1>2, <1>3, <1>4 DEF RecorderInv

\* A line more, and the counter a worker had read of it written back.
LEMMA LineCounted ==
  ASSUME CounterInv, Lines \in Nat, Lines' = Lines + 1, overlapped' = overlapped,
         health \in Nat, noted \in [Workers -> Nat \cup {None}],
         \E w \in Workers : /\ Counting(w)
                            /\ health' = noted[w] + 1
                            /\ noted' = [noted EXCEPT ![w] = None]
  PROVE  CounterInv'
<1>1. PICK w \in Workers : /\ Counting(w)
                           /\ health' = noted[w] + 1
                           /\ noted' = [noted EXCEPT ![w] = None]
  OBVIOUS
<1>2. noted[w] \in Nat /\ noted[w] <= Lines
  BY <1>1 DEF CounterInv, Counting
<1>3. ~overlapped => noted[w] = health /\ health = Lines
  BY <1>1 DEF CounterInv, Accounts
<1>4. Accounts(health, Lines)'
  BY <1>1, <1>2, <1>3 DEF Accounts
<1>5. \A v \in Workers : Counting(v)' => Counting(v) /\ v # w /\ noted'[v] = noted[v]
  BY <1>1 DEF Counting
<1>6. \A v \in Workers : Counting(v)' => noted'[v] <= Lines'
  <2> SUFFICES ASSUME NEW v \in Workers, Counting(v)' PROVE noted'[v] <= Lines'
    OBVIOUS
  <2>1. Counting(v) /\ noted'[v] = noted[v]
    BY <1>5
  <2>2. noted[v] \in Nat /\ noted[v] <= Lines
    BY <2>1 DEF CounterInv, Counting
  <2> QED  BY <2>1, <2>2
<1>7. ~overlapped => \A v \in Workers : ~Counting(v)'
  BY <1>1, <1>5 DEF CounterInv
<1> QED  BY <1>4, <1>6, <1>7 DEF CounterInv

\* An append to one file, as append_frame, append_controller, the two halves of
\* append_telemetry and _health_event make it.
LEMMA AppendKeeps ==
  ASSUME RecorderInv, phase = "recording", NEW f \in Files,
         \/ Written(f) /\ failed' = failed
         \/ WriteFails(f) /\ failed' \in BOOLEAN /\ (failed' \/ f = "health"),
         failed => failed',
         UNCHANGED <<phase, step, open, document, powerLost, overlapped>>,
         IF f = "health"
           THEN \E w \in Workers : /\ Counting(w)
                                   /\ health' = noted[w] + 1
                                   /\ noted' = [noted EXCEPT ![w] = None]
           ELSE UNCHANGED <<health, noted>>,
         half' \in BOOLEAN,
         f = "binary" => ~half,
         f = "sidecar" => half,
         ~failed' => half' = CASE f = "binary" -> TRUE
                               [] f = "sidecar" -> FALSE
                               [] OTHER -> half
  PROVE  RecorderInv'
<1> DEFINE x == file[f]
           y == file'[f]
<1>1. /\ RecorderTypes /\ BufferInv /\ AckedInv /\ FinalizeInv /\ SealInv
      /\ RecoveryInv /\ Running
  BY DEF RecorderInv, Running
<1>2. /\ file' \in [Files -> FileState] /\ acked' \in [Files -> Nat]
      /\ \A g \in Files : g # f => file'[g] = file[g] /\ acked'[g] = acked[g]
      /\ Written(f) => /\ y = Flushed(x, 1)
                       /\ acked'[f] = acked[f] + 1
      /\ WriteFails(f) => y \in HalfWritten(f) /\ acked' = acked
  BY <1>1, AppendState
<1>3. /\ x \in FileState /\ y \in FileState
      /\ acked[f] \in Nat /\ health \in Nat
  BY <1>1, <1>2 DEF RecorderTypes
<1>9. health' \in Nat /\ noted' \in [Workers -> Nat \cup {None}]
  <2>1. CASE f = "health"
    <3>1. PICK w \in Workers : /\ Counting(w)
                               /\ health' = noted[w] + 1
                               /\ noted' = [noted EXCEPT ![w] = None]
      BY <2>1
    <3>2. noted[w] \in Nat
      BY <1>1, <3>1 DEF RecorderTypes, Counting
    <3> QED  BY <1>1, <3>1, <3>2 DEF RecorderTypes
  <2>2. CASE f # "health"
    BY <1>1, <2>2 DEF RecorderTypes
  <2> QED  BY <2>1, <2>2
<1>4. RecorderTypes'
  BY <1>1, <1>2, <1>3, <1>9 DEF RecorderTypes, document
\* Behind a torn frame an append changes nothing; elsewhere it is readable or
\* waits in the buffer.
<1>5. \/ /\ Written(f) /\ failed' = failed
         /\ y.buffered = 0
         /\ y.good = x.good + x.buffered + 1 /\ y.tail = "clean"
      \/ /\ f = "frames" /\ failed /\ failed' /\ y.buffered = 0
      \/ /\ WriteFails(f) /\ (failed' \/ f = "health")
         /\ y.good = x.good
         /\ y.buffered = x.buffered + (IF f = "frames" THEN 0 ELSE 1)
  <2>1. CASE Written(f) /\ failed' = failed
    <3>1. /\ y.buffered = 0
          /\ ~Torn(x) => y.good = x.good + x.buffered + 1 /\ y.tail = "clean"
      <4> HIDE DEF x, y
      <4>1. 1 \in Nat /\ x \in FileState /\ y = Flushed(x, 1)
        BY <1>2, <1>3, <2>1
      <4> QED  BY <4>1, FlushedState
    <3>2. Torn(x) => f = "frames" /\ failed
      <4>1. f # "frames" /\ x.tail # "clean" => x.buffered > 0
        BY <1>1 DEF BufferInv
      <4>2. f # "health" /\ ~failed => x.tail = "clean"
        BY <1>1 DEF BufferInv
      <4> QED  BY <1>3, <4>1, <4>2 DEF Torn, FileState
    <3> QED  BY <2>1, <3>1, <3>2
  <2>2. CASE WriteFails(f) /\ (failed' \/ f = "health")
    BY <1>1, <1>2, <2>2, HalfWrittenState DEF RecorderTypes
  <2> QED  BY <2>1, <2>2
<1> HIDE DEF x, y
<1>6. BufferInv'
  <2>1. ~powerLost' /\ (half' => phase' = "recording")
    BY <1>1 DEF BufferInv
  <2>2. (file["frames"].buffered = 0)'
    <3>1. "frames" \in Files
      BY DEF Files
    <3>2. CASE f = "frames"
      BY <1>1, <1>5, <3>2 DEF BufferInv, x, y
    <3>3. CASE f # "frames"
      BY <1>1, <1>2, <3>1, <3>3 DEF BufferInv
    <3> QED  BY <3>2, <3>3
  <2>3. ASSUME NEW g \in Files \ {"frames"}, (file[g].tail # "clean")'
        PROVE  (file[g].buffered > 0)'
    <3>1. CASE g = f
      <4>1. y.tail # "clean" /\ f # "frames"
        BY <2>3, <3>1 DEF y
      <4>2. y.buffered = x.buffered + 1
        BY <1>5, <4>1
      <4>3. y.buffered > 0
        BY <1>3, <4>2 DEF FileState
      <4> QED  BY <4>3, <3>1 DEF y
    <3>2. CASE g # f
      BY <1>1, <1>2, <2>3, <3>2 DEF BufferInv
    <3> QED  BY <3>1, <3>2
  <2>4. CounterInv'
    <3>1. "health" \in Files
      BY DEF Files
    <3>2. CASE f = "health"
      <4>1. Lines = x.good + x.buffered /\ Lines' = y.good + y.buffered
        BY <3>2 DEF Lines, x, y
      <4>2. y.good + y.buffered = x.good + x.buffered + 1
        <5>1. \/ y.buffered = 0 /\ y.good = x.good + x.buffered + 1
              \/ y.good = x.good /\ y.buffered = x.buffered + 1
          BY <1>5, <3>2
        <5> QED  BY <1>3, <5>1 DEF FileState
      <4>3. Lines \in Nat /\ Lines' = Lines + 1
        BY <1>3, <4>1, <4>2 DEF FileState
      <4>4. CounterInv
        BY <1>1 DEF BufferInv
      <4> QED  BY <1>1, <3>2, <4>3, <4>4, LineCounted DEF RecorderTypes
    <3>3. CASE f # "health"
      <4>1. file'["health"] = file["health"]
        BY <1>2, <3>1, <3>3
      <4>2. CounterInv /\ UNCHANGED <<health, noted, overlapped>>
        BY <1>1, <3>3 DEF BufferInv
      <4> QED  BY <4>1, <4>2 DEF CounterInv, Accounts, Lines, Counting
    <3> QED  BY <3>2, <3>3
  <2>5. ASSUME ~failed', NEW g \in Files \ {"health"}
        PROVE  (file[g].buffered = 0 /\ file[g].tail = "clean")'
    <3>0. ~failed
      BY <1>5, <2>5 DEF WriteFails
    <3>1. CASE g = f
      BY <1>5, <2>5, <3>0, <3>1 DEF y
    <3>2. CASE g # f
      BY <1>1, <1>2, <2>5, <3>0, <3>2 DEF BufferInv
    <3> QED  BY <3>1, <3>2
  <2> QED  BY <2>1, <2>2, <2>3, <2>4, <2>5 DEF BufferInv
<1>7. AckedInv'
  <2> SUFFICES ASSUME ~failed', ~powerLost' PROVE AckedInv'
    BY DEF AckedInv
  <2>1. ~failed /\ ~powerLost
    OBVIOUS
  <2>2. /\ \A g \in Files : file[g].good \in Nat /\ acked[g] \in Nat
        /\ \A g \in Files : file[g].good >= acked[g]
        /\ file["binary"].good - file["sidecar"].good = IF half THEN 1 ELSE 0
    BY <1>1, <2>1 DEF AckedInv, RecorderTypes, FileState
  <2>3. \/ /\ Written(f) /\ y.good = x.good + x.buffered + 1
           /\ f # "health" => y.good = x.good + 1
        \/ f = "health" /\ WriteFails(f) /\ y.good = x.good
    <3>1. f # "health" => x.buffered = 0
      BY <1>1, <2>1 DEF BufferInv, x
    <3>2. x.good + 0 + 1 = x.good + 1
      BY <1>3 DEF FileState
    <3> QED  BY <1>5, <3>1, <3>2
  <2>4. ASSUME NEW g \in Files PROVE (file[g].good >= acked[g])'
    <3>1. CASE g = f /\ Written(f) /\ y.good = x.good + x.buffered + 1
      <4>1. acked'[g] = acked[g] + 1 /\ x.good >= acked[g]
        BY <1>2, <2>2, <3>1 DEF x
      <4>2. y.good >= acked[g] + 1
        BY <1>3, <2>2, <3>1, <4>1 DEF FileState
      <4> QED  BY <3>1, <4>1, <4>2 DEF y
    <3>2. CASE g = f /\ WriteFails(f) /\ y.good = x.good
      BY <1>2, <2>2, <3>2 DEF x, y
    <3>3. CASE g # f
      BY <1>2, <2>2, <3>3
    <3> QED  BY <2>3, <3>1, <3>2, <3>3
  <2>5. (file["binary"].good - file["sidecar"].good = IF half THEN 1 ELSE 0)'
    <3>1. "binary" \in Files /\ "sidecar" \in Files /\ "binary" # "sidecar"
      BY DEF Files
    <3>2. CASE f = "binary"
      <4>1. /\ file'["binary"].good = file["binary"].good + 1
            /\ file'["sidecar"] = file["sidecar"]
            /\ half' = TRUE /\ ~half
        BY <1>2, <2>3, <3>1, <3>2 DEF x, y
      <4> QED  BY <2>2, <3>1, <4>1
    <3>3. CASE f = "sidecar"
      <4>1. /\ file'["sidecar"].good = file["sidecar"].good + 1
            /\ file'["binary"] = file["binary"]
            /\ half' = FALSE /\ half
        BY <1>2, <2>3, <3>1, <3>3 DEF x, y
      <4> QED  BY <2>2, <3>1, <4>1
    <3>4. CASE f # "binary" /\ f # "sidecar"
      BY <1>2, <2>2, <3>1, <3>4
    <3> QED  BY <3>2, <3>3, <3>4
  <2>6. (file["binary"].good - file["sidecar"].good \in 0..1)'
    BY <2>5
  <2> QED  BY <2>4, <2>5, <2>6 DEF AckedInv, SidecarBehindBinary
<1>8. FinalizeInv' /\ SealInv' /\ RecoveryInv'
  BY <1>1 DEF FinalizeInv, SealInv, RecoveryInv, Sealed, document, RecoveredReadable
<1> QED  BY <1>4, <1>6, <1>7, <1>8 DEF RecorderInv

LEMMA RecordStep == RecorderInv /\ Record => RecorderInv'
<1> SUFFICES ASSUME RecorderInv, Record PROVE RecorderInv'
  OBVIOUS
<1>1. /\ failed \in BOOLEAN /\ half \in BOOLEAN
      /\ {"frames", "controller", "binary", "sidecar", "health"} = Files
  BY DEF RecorderInv, RecorderTypes, Files
<1>2. ASSUME NEW f \in {"frames", "controller"}, AppendOne(f) PROVE RecorderInv'
  <2>1. \/ Written(f) /\ failed' = failed
        \/ WriteFails(f) /\ failed' = TRUE
    BY <1>2 DEF AppendOne, Append1
  <2> QED  BY <1>1, <1>2, <2>1, AppendKeeps DEF AppendOne, Begin
<1>3. ASSUME AppendTelemetry PROVE RecorderInv'
  <2> DEFINE f == "binary"
  <2>1. \/ Written(f) /\ failed' = failed
        \/ WriteFails(f) /\ failed' = TRUE
    BY <1>3 DEF AppendTelemetry, Append1, TelemetryOrder
  <2>2. Written(f) => half' = TRUE
    <3>1. Written(f) => acked'[f] = acked[f] + 1 /\ acked[f] \in Nat
      BY <1>1 DEF Written, RecorderInv, RecorderTypes
    <3>2. Written(f) => acked' # acked
      BY <3>1
    <3> QED  BY <1>3, <3>2 DEF AppendTelemetry
  <2>3. half' \in BOOLEAN
    BY <1>3 DEF AppendTelemetry
  <2> QED  BY <1>1, <1>3, <2>1, <2>2, <2>3, AppendKeeps DEF AppendTelemetry, Begin
<1>4. ASSUME AppendSidecar PROVE RecorderInv'
  <2> DEFINE f == "sidecar"
  <2>1. \/ Written(f) /\ failed' = failed
        \/ WriteFails(f) /\ failed' = TRUE
    BY <1>4 DEF AppendSidecar, Append1, TelemetryOrder
  <2> QED  BY <1>1, <1>4, <2>1, AppendKeeps DEF AppendSidecar
<1>5. ASSUME NEW w \in Workers, HealthEvent(w) PROVE RecorderInv'
  <2> DEFINE f == "health"
  <2>1. \/ Written(f) /\ failed' = failed
        \/ WriteFails(f) /\ failed' \in {failed, TRUE}
    BY <1>5 DEF HealthEvent
  <2>2. /\ Counting(w) /\ health' = noted[w] + 1
        /\ noted' = [noted EXCEPT ![w] = None]
    BY <1>5 DEF HealthEvent, CountedFirst
  <2> QED  BY <1>1, <1>5, <2>1, <2>2, AppendKeeps DEF HealthEvent
<1>6. ASSUME NEW w \in Workers, ReadCounter(w) PROVE RecorderInv'
  <2>1. /\ noted' = [noted EXCEPT ![w] = health] /\ ~Counting(w)
        /\ UNCHANGED <<phase, step, failed, open, half, health, file, manifest,
                       sums, total, acked, powerLost>>
        /\ phase = "recording"
    BY <1>6 DEF ReadCounter, document
  <2>2. overlapped' <=> overlapped \/ \E v \in Workers : Counting(v)
    BY <1>6, Zenon DEF ReadCounter
  <2>3. overlapped' \in BOOLEAN
    BY <1>6, Zenon DEF ReadCounter
  <2>4. /\ RecorderTypes /\ BufferInv /\ AckedInv /\ FinalizeInv /\ SealInv
        /\ RecoveryInv /\ Running
    BY <2>1 DEF RecorderInv, Running
  <2>5. RecorderTypes'
    <3>1. noted' \in [Workers -> Nat \cup {None}]
      BY <2>1, <2>4 DEF RecorderTypes
    <3> QED  BY <2>1, <2>3, <2>4, <3>1 DEF RecorderTypes
  <2>6. CounterInv'
    <3>1. /\ CounterInv /\ Lines' = Lines /\ health \in Nat
          /\ noted \in [Workers -> Nat \cup {None}]
      BY <2>1, <2>4 DEF BufferInv, Lines, RecorderTypes
    <3>2. Accounts(health, Lines)'
      BY <2>1, <2>2, <3>1 DEF CounterInv, Accounts
    <3>3. \A v \in Workers : v # w => /\ noted'[v] = noted[v]
                                      /\ Counting(v)' <=> Counting(v)
      BY <2>1, <3>1 DEF Counting
    <3>4. noted'[w] = health
      BY <2>1, <3>1
    <3>5. \A v \in Workers : Counting(v)' => noted'[v] <= Lines'
      BY <3>1, <3>3, <3>4 DEF CounterInv, Accounts
    <3>6. ~overlapped' => \A v \in Workers : Counting(v)' => v = w
      BY <2>2, <3>3
    <3> QED  BY <2>1, <2>2, <3>2, <3>4, <3>5, <3>6 DEF CounterInv
  <2>7. BufferInv' /\ AckedInv'
    BY <2>1, <2>4, <2>6
       DEF BufferInv, AckedInv, SidecarBehindBinary, Running
  <2>8. FinalizeInv' /\ RecoveryInv'
    BY <2>1, <2>4 DEF FinalizeInv, RecoveryInv, RecoveredReadable
  <2>9. SealInv'
    BY <2>1, <2>4 DEF SealInv, Sealed
  <2> QED  BY <2>5, <2>7, <2>8, <2>9 DEF RecorderInv
<1> QED  BY <1>2, <1>3, <1>4, <1>5, <1>6 DEF Record

\* A step that only ends the writing: EndRecording after a fault, EndClose, and
\* an exception out of finalize() or close().
LEMMA StopKeeps ==
  ASSUME RecorderInv, Running, ~half,
         phase' \in {"closing", "ended"}, step' \in 1..8,
         failed' \in BOOLEAN, failed => failed',
         UNCHANGED <<open, half, counters, file, document, acked, powerLost>>
  PROVE  RecorderInv'
<1> USE DEF RecorderInv, document
<1>1. RecorderTypes'
  BY DEF RecorderTypes
<1>2. BufferInv'
  BY DEF BufferInv, CounterInv, Accounts, Lines, Counting, Running
<1>3. AckedInv'
  BY DEF AckedInv, SidecarBehindBinary, Running
<1>4. FinalizeInv' /\ RecoveryInv'
  BY DEF FinalizeInv, RecoveryInv, RecoveredReadable
<1>5. SealInv'
  BY DEF SealInv, Sealed, StreamsAgree, Accounts, Complete
<1> QED  BY <1>1, <1>2, <1>3, <1>4, <1>5

LEMMA CloseOrderIsFiles ==
  /\ Len(CloseOrder) = 5
  /\ \A i \in 1..5 : CloseOrder[i] \in Files
  /\ \A f \in Files : \E i \in 1..5 : CloseOrder[i] = f
  /\ \A i, j \in 1..5 : CloseOrder[i] = CloseOrder[j] => i = j
<1>1. /\ Len(CloseOrder) = 5
      /\ CloseOrder[1] = "frames" /\ CloseOrder[2] = "controller"
      /\ CloseOrder[3] = "sidecar" /\ CloseOrder[4] = "health"
      /\ CloseOrder[5] = "binary"
  BY DEF CloseOrder
<1>2. \A i \in 1..5 : i = 1 \/ i = 2 \/ i = 3 \/ i = 4 \/ i = 5
  OBVIOUS
<1>3. 1 \in 1..5 /\ 2 \in 1..5 /\ 3 \in 1..5 /\ 4 \in 1..5 /\ 5 \in 1..5
  OBVIOUS
<1> QED  BY <1>1, <1>2, <1>3 DEF Files

\* Flushing the next file moves what was buffered for it among its records.
LEMMA CloseKeeps == RecorderInv /\ CloseFile => RecorderInv'
<1> SUFFICES ASSUME RecorderInv, CloseFile PROVE RecorderInv'
  OBVIOUS
<1> DEFINE c == CloseOrder[step]
           x == file[c]
<1>1. /\ RecorderTypes /\ BufferInv /\ AckedInv /\ FinalizeInv /\ SealInv
      /\ RecoveryInv
  BY DEF RecorderInv
<1>2. /\ phase \in {"finalizing", "closing"} /\ Running
      /\ step \in 1..5 /\ c \in Files /\ x \in FileState
      /\ phase' = phase /\ step' = step + 1 /\ step' \in 1..6
      /\ UNCHANGED <<failed, half, counters, acked, powerLost, manifest, sums, total>>
      /\ open' = open \ {c}
      /\ file' = IF c \in open THEN [file EXCEPT ![c] = Synced(@)] ELSE file
      /\ Running' = Running
  BY <1>1, CloseOrderIsFiles
     DEF CloseFile, Closing, Current, Running, document, history, RecorderTypes
<1> HIDE DEF c
<1>3. /\ file' \in [Files -> FileState]
      /\ \A f \in Files : f # c \/ c \notin open => file'[f] = file[f]
  <2>1. Synced(x) \in FileState
    BY <1>2, SyncedState
  <2> QED  BY <1>1, <1>2, <2>1 DEF RecorderTypes
\* Only a frame of a session that has failed already is torn.
<1>4. c \in open => /\ file'[c].synced = file'[c].good /\ file'[c].buffered = 0
                    /\ Torn(x) => file'[c].good = x.good
                    /\ ~Torn(x) => /\ file'[c].good = x.good + x.buffered
                                   /\ file'[c].tail = "clean"
  BY <1>1, <1>2, SyncedState DEF RecorderTypes
<1>5. Torn(x) => c = "frames" /\ failed
  <2>1. c # "frames" /\ x.tail # "clean" => x.buffered > 0
    BY <1>1, <1>2 DEF BufferInv
  <2>2. c # "health" /\ ~failed => x.tail = "clean"
    BY <1>1, <1>2 DEF BufferInv
  <2> QED  BY <1>2, <2>1, <2>2 DEF Torn, FileState
<1> HIDE DEF x
<1>6. RecorderTypes'
  BY <1>1, <1>2, <1>3 DEF RecorderTypes
<1>7. BufferInv'
  <2>1. ~powerLost' /\ (half' => phase' = "recording")
    BY <1>1, <1>2 DEF BufferInv
  <2>2. (file["frames"].buffered = 0)'
    BY <1>1, <1>2, <1>3, <1>4 DEF BufferInv, Files
  <2>3. ASSUME NEW g \in Files \ {"frames"}, (file[g].tail # "clean")'
        PROVE  (file[g].buffered > 0)'
    BY <1>1, <1>2, <1>3, <1>4, <1>5, <2>3 DEF BufferInv
  <2>4. CounterInv'
    <3>1. Lines' = Lines
      <4>1. "health" \in Files
        BY DEF Files
      <4>2. CASE c = "health" /\ c \in open
        <5>1. file'[c].good = x.good + x.buffered /\ file'[c].buffered = 0
          BY <1>4, <1>5, <4>2
        <5>2. Lines = x.good + x.buffered /\ Lines' = file'[c].good + 0
          BY <4>2, <5>1 DEF x, Lines
        <5> QED  BY <1>2, <5>1, <5>2 DEF FileState
      <4>3. CASE ~(c = "health" /\ c \in open)
        BY <1>3, <4>1, <4>3 DEF Lines
      <4> QED  BY <4>2, <4>3
    <3>2. CounterInv
      BY <1>1, <1>2 DEF BufferInv
    <3> QED  BY <1>2, <3>1, <3>2 DEF CounterInv, Accounts, Counting
  <2>5. ASSUME ~failed', NEW g \in Files \ {"health"}
        PROVE  (file[g].buffered = 0 /\ file[g].tail = "clean")'
    BY <1>1, <1>2, <1>3, <1>4, <1>5, <2>5 DEF BufferInv
  <2> QED  BY <2>1, <2>2, <2>3, <2>4, <2>5 DEF BufferInv
<1>8. AckedInv'
  <2> SUFFICES ASSUME ~failed', ~powerLost' PROVE AckedInv'
    BY DEF AckedInv
  <2>1. ~failed /\ ~powerLost
    BY <1>2
  <2>2. /\ \A f \in Files : file[f].good >= acked[f]
        /\ file["binary"].good - file["sidecar"].good = IF half THEN 1 ELSE 0
    BY <1>1, <1>2, <2>1 DEF AckedInv
  <2>3. ASSUME NEW g \in Files
        PROVE  /\ file'[g].good >= file[g].good
               /\ g # "health" => file'[g].good = file[g].good
    <3>1. file[g] \in FileState
      BY <1>1 DEF RecorderTypes
    <3>2. CASE g = c /\ c \in open
      <4>1. file'[c].good = x.good + x.buffered
        BY <1>4, <1>5, <2>1, <3>2
      <4>2. c # "health" => x.buffered = 0
        BY <1>1, <1>2, <2>1 DEF BufferInv, x
      <4> QED  BY <1>2, <3>2, <4>1, <4>2 DEF FileState, x
    <3>3. CASE ~(g = c /\ c \in open)
      BY <1>3, <3>1, <3>3 DEF FileState
    <3> QED  BY <3>2, <3>3
  <2>4. ASSUME NEW g \in Files PROVE (file[g].good >= acked[g])'
    <3>1. /\ file'[g].good \in Nat /\ file[g].good \in Nat /\ acked[g] \in Nat
          /\ acked'[g] = acked[g]
      BY <1>1, <1>2, <1>3 DEF RecorderTypes, FileState
    <3> QED  BY <2>2, <2>3, <3>1
  <2>5. (file["binary"].good - file["sidecar"].good = IF half THEN 1 ELSE 0)'
    BY <1>2, <2>2, <2>3 DEF Files
  <2>6. (file["binary"].good - file["sidecar"].good \in 0..1)'
    BY <2>5
  <2> QED  BY <2>4, <2>5, <2>6 DEF AckedInv, SidecarBehindBinary
<1>9. FinalizeInv'
  <2> SUFFICES ASSUME phase = "finalizing" PROVE FinalizeInv'
    BY <1>2 DEF FinalizeInv
  <2>1. /\ ~failed /\ ~Sealed
        /\ \A i \in 1..5 : i < step => Complete(CloseOrder[i])
        /\ \A i \in 1..5 : i >= step => CloseOrder[i] \in open
    BY <1>1, <1>2 DEF FinalizeInv
  <2>2. ASSUME NEW i \in 1..5, i < step' PROVE Complete(CloseOrder[i])'
    <3>1. CASE i = step
      <4>1. c \in open
        BY <1>2, <2>1 DEF c
      <4> QED  BY <1>2, <1>4, <1>5, <2>1, <3>1, <4>1 DEF Complete, c
    <3>2. CASE i # step
      <4>1. i < step /\ CloseOrder[i] \in Files /\ CloseOrder[i] # c
        BY <1>2, <2>2, <3>2, CloseOrderIsFiles DEF c
      <4>2. file'[CloseOrder[i]] = file[CloseOrder[i]]
        BY <1>3, <4>1
      <4> QED  BY <1>2, <2>1, <4>1, <4>2 DEF Complete
    <3> QED  BY <3>1, <3>2
  <2>3. ASSUME NEW i \in 1..5, ~(i < step') PROVE CloseOrder[i] \in open'
    <3>1. i >= step /\ i # step
      BY <1>2, <2>3
    <3> QED  BY <1>2, <2>1, <3>1, CloseOrderIsFiles DEF c
  <2>4. ~(step' >= 7) /\ ~failed' /\ ~Sealed' /\ phase' # "recording"
    BY <1>2, <2>1 DEF Sealed
  <2> QED  BY <2>2, <2>3, <2>4 DEF FinalizeInv
<1>10. SealInv'
  <2> SUFFICES ASSUME Sealed PROVE SealInv'
    BY <1>2 DEF SealInv, Sealed
  <2>1. c \notin open
    BY <1>1, <1>2 DEF SealInv, Complete
  <2>2. file' = file
    BY <1>2, <2>1
  <2> QED  BY <1>1, <1>2, <2>2 DEF SealInv, Sealed, StreamsAgree, Accounts, Complete
<1>11. RecoveryInv'
  BY <1>2 DEF RecoveryInv, RecoveredReadable
<1> QED  BY <1>6, <1>7, <1>8, <1>9, <1>10, <1>11 DEF RecorderInv

LEMMA EndStep == RecorderInv /\ End => RecorderInv'
<1> SUFFICES ASSUME RecorderInv, End PROVE RecorderInv'
  OBVIOUS
<1>1. /\ RecorderTypes /\ BufferInv /\ AckedInv /\ FinalizeInv /\ SealInv
      /\ RecoveryInv
  BY DEF RecorderInv
<1>2. /\ failed \in BOOLEAN
      /\ phase \in {"finalizing", "closing"} => Running /\ ~half
  BY <1>1 DEF RecorderTypes, BufferInv, Running
<1>3. ASSUME EndRecording PROVE RecorderInv'
  <2>1. /\ phase = "recording" /\ ~half /\ Running
        /\ phase' = IF failed THEN "closing" ELSE "finalizing"
        /\ UNCHANGED <<step, failed, open, half, counters, file, document, acked,
                       powerLost>>
    BY <1>3 DEF EndRecording, Running, Faulted, history
  <2>2. CASE failed
    <3>1. step' \in 1..8 /\ failed' \in BOOLEAN
      BY <1>1, <1>2, <2>1 DEF RecorderTypes
    <3> QED  BY <1>1, <1>2, <2>1, <2>2, <3>1, StopKeeps
  <2>3. CASE ~failed
    <3>1. /\ phase' = "finalizing" /\ step' = 1 /\ ~failed' /\ ~Sealed'
          /\ open' = Files
      BY <1>1, <2>1, <2>3 DEF FinalizeInv, SealInv, Sealed, document
    <3>2. FinalizeInv' /\ SealInv' /\ RecoveryInv'
      BY <3>1, CloseOrderIsFiles DEF FinalizeInv, SealInv, RecoveryInv, RecoveredReadable
    <3>3. RecorderTypes'
      BY <1>1, <2>1, <3>1 DEF RecorderTypes, document
    <3>4. BufferInv' /\ AckedInv'
      BY <1>1, <2>1, <3>1 DEF BufferInv, CounterInv, Accounts, Lines, Counting,
                              AckedInv, SidecarBehindBinary, Running
    <3> QED  BY <3>2, <3>3, <3>4 DEF RecorderInv
  <2> QED  BY <2>2, <2>3
<1>4. ASSUME CloseFile PROVE RecorderInv'
  BY <1>4, CloseKeeps
<1>5. ASSUME CloseFails \/ CloseTwice PROVE RecorderInv'
  <2>1. /\ phase \in {"finalizing", "closing"} /\ failed' = TRUE /\ step' = 1
        /\ phase' \in {"closing", "ended"}
        /\ UNCHANGED <<open, half, counters, file, document, acked, powerLost>>
    BY <1>5 DEF CloseFails, CloseTwice, Closing, Unwind, history
  <2> QED  BY <1>2, <2>1, StopKeeps
<1>6. ASSUME EndClose PROVE RecorderInv'
  <2>1. /\ phase = "closing" /\ phase' = "ended" /\ step' \in 1..8
        /\ failed' = failed
        /\ UNCHANGED <<open, half, counters, file, document, acked, powerLost>>
    BY <1>1, <1>6 DEF EndClose, history, RecorderTypes
  <2> QED  BY <1>2, <2>1, StopKeeps
<1> QED  BY <1>3, <1>4, <1>5, <1>6 DEF End

LEMMA PublishStep == RecorderInv /\ Publish => RecorderInv'
<1> SUFFICES ASSUME RecorderInv, Publish PROVE RecorderInv'
  OBVIOUS
<1>1. /\ RecorderTypes /\ BufferInv /\ AckedInv /\ FinalizeInv /\ SealInv
      /\ RecoveryInv
  BY DEF RecorderInv
<1>2. /\ phase = "finalizing" /\ step \in 6..8 /\ ~failed /\ ~half /\ ~powerLost
      /\ Running
  BY <1>1, CloseOrderIsFiles
     DEF Publish, Publishing, WriteManifest, Rename, EndFinalize, PublishFails,
         FinalizeInv, BufferInv, Running
\* All files are complete, and what they hold agrees.
<1>3. \A f \in Files : Complete(f)
  <2>1. \A i \in 1..5 : Complete(CloseOrder[i])
    BY <1>1, <1>2 DEF FinalizeInv
  <2> QED  BY <2>1, CloseOrderIsFiles
<1>4. /\ \A f \in Files : file[f].good >= acked[f]
      /\ file["sidecar"].good = file["binary"].good
      /\ Accounts(health, file["health"].good)
  <2>1. /\ \A f \in Files : file[f] \in FileState /\ file[f].buffered = 0
        /\ "sidecar" \in Files /\ "binary" \in Files /\ "health" \in Files
        /\ health \in Nat
    BY <1>1, <1>3 DEF RecorderTypes, Complete, Files
  <2>2. /\ \A f \in Files : file[f].good >= acked[f]
        /\ file["binary"].good - file["sidecar"].good = 0
        /\ Accounts(health, Lines)
    BY <1>1, <1>2 DEF AckedInv, BufferInv, CounterInv
  <2>3. /\ file["sidecar"].good \in Nat /\ file["binary"].good \in Nat
        /\ file["health"].good \in Nat /\ file["health"].buffered = 0
    BY <2>1 DEF FileState
  <2>4. Lines = file["health"].good
    BY <2>3 DEF Lines
  <2>5. file["sidecar"].good = file["binary"].good
    BY <2>2, <2>3
  <2> QED  BY <2>2, <2>4, <2>5
\* So a manifest that describes the files may be put in place.
<1>5. ASSUME step >= 7, phase' # "recording",
             UNCHANGED <<open, file, sums, total, acked, overlapped>>
      PROVE  SealInv'
  <2>1. Described
    BY <1>1, <1>2, <1>5 DEF FinalizeInv
  <2>2. "sidecar" \in Files /\ "binary" \in Files /\ "health" \in Files
    BY DEF Files
  <2>3. StreamsAgree'
    BY <1>4, <1>5, <2>1, <2>2 DEF StreamsAgree, Accounts, Described
  <2>4. ASSUME NEW f \in Files
        PROVE  (Complete(f) /\ sums[f] = file[f].good /\ sums[f] >= acked[f])'
    BY <1>3, <1>4, <1>5, <2>1 DEF Complete, Described
  <2> QED  BY <1>5, <2>3, <2>4 DEF SealInv
<1>6. ASSUME Running', powerLost' = powerLost, half' = half, failed' = failed,
             file' = file, UNCHANGED counters, acked' = acked
      PROVE  BufferInv' /\ AckedInv'
  BY <1>1, <1>2, <1>6 DEF BufferInv, CounterInv, Accounts, Lines, Counting,
                          AckedInv, SidecarBehindBinary
<1>7. ASSUME WriteManifest PROVE RecorderInv'
  <2>1. /\ step = 6 /\ phase' = phase /\ step' = 7
        /\ sums' = [f \in Files |-> file[f].good] /\ total' = health
        /\ manifest' = "temporary"
        /\ UNCHANGED <<failed, half, counters, open, file, acked, powerLost>>
    BY <1>2, <1>7, CloseOrderIsFiles
       DEF WriteManifest, Publishing, recorder, history
  <2>2. RecorderTypes'
    <3>1. sums' \in [Files -> Nat]
      BY <1>1, <2>1 DEF RecorderTypes, FileState
    <3> QED  BY <1>1, <2>1, <3>1 DEF RecorderTypes
  <2>3. BufferInv' /\ AckedInv'
    BY <1>2, <1>6, <2>1 DEF Running
  <2>4. FinalizeInv'
    <3>1. \A i \in 1..5 : Complete(CloseOrder[i])'
      BY <1>3, <2>1, CloseOrderIsFiles DEF Complete
    <3>2. Described'
      BY <2>1 DEF Described
    <3> QED  BY <1>2, <2>1, <3>1, <3>2 DEF FinalizeInv, Sealed
  <2>5. SealInv' /\ RecoveryInv'
    BY <1>2, <2>1 DEF SealInv, Sealed, RecoveryInv, RecoveredReadable
  <2> QED  BY <2>2, <2>3, <2>4, <2>5 DEF RecorderInv
<1>8. ASSUME Rename PROVE RecorderInv'
  <2>1. /\ step = 7 /\ phase' = phase /\ step' = 8
        /\ manifest' = "renamed"
        /\ UNCHANGED <<failed, half, counters, open, file, acked, powerLost, sums,
                       total>>
    BY <1>2, <1>8, CloseOrderIsFiles DEF Rename, Publishing, recorder, history
  <2>2. RecorderTypes'
    BY <1>1, <2>1 DEF RecorderTypes
  <2>3. BufferInv' /\ AckedInv'
    BY <1>2, <1>6, <2>1 DEF Running
  <2>4. FinalizeInv'
    <3>1. \A i \in 1..5 : Complete(CloseOrder[i])'
      BY <1>3, <2>1, CloseOrderIsFiles DEF Complete
    <3>2. Described'
      BY <1>1, <1>2, <2>1 DEF Described, FinalizeInv
    <3> QED  BY <1>2, <2>1, <3>1, <3>2 DEF FinalizeInv
  <2>5. SealInv'
    BY <1>2, <1>5, <2>1
  <2>6. RecoveryInv'
    BY <1>2, <2>1 DEF RecoveryInv, RecoveredReadable
  <2> QED  BY <2>2, <2>3, <2>4, <2>5, <2>6 DEF RecorderInv
<1>9. ASSUME EndFinalize PROVE RecorderInv'
  <2>1. /\ step = 8 /\ phase' = "ended" /\ step' = 8
        /\ manifest' \in {"renamed", "durable"}
        /\ UNCHANGED <<failed, half, counters, open, file, acked, powerLost, sums,
                       total>>
    BY <1>2, <1>9, CloseOrderIsFiles DEF EndFinalize, Publishing, history
  <2>2. RecorderTypes'
    BY <1>1, <2>1 DEF RecorderTypes
  <2>3. BufferInv' /\ AckedInv'
    BY <1>6, <2>1 DEF Running
  <2>4. SealInv'
    BY <1>5, <2>1
  <2>5. FinalizeInv' /\ RecoveryInv'
    BY <2>1 DEF FinalizeInv, RecoveryInv, RecoveredReadable
  <2> QED  BY <2>2, <2>3, <2>4, <2>5 DEF RecorderInv
<1>10. ASSUME PublishFails PROVE RecorderInv'
  <2>1. /\ failed' = TRUE /\ step' = 1 /\ phase' \in {"closing", "ended"}
        /\ UNCHANGED <<open, half, counters, file, document, acked, powerLost>>
    BY <1>10 DEF PublishFails, Unwind
  <2> QED  BY <1>2, <2>1, StopKeeps
<1> QED  BY <1>7, <1>8, <1>9, <1>10 DEF Publish

-----------------------------------------------------------------------------
(* A crash leaves a sealed session alone. *)

\* What both crashes do to the rest of the state.
LEMMA DownKeeps ==
  ASSUME RecorderInv, Down, file' \in [Files -> FileState],
         manifest' \in {manifest,
                        IF manifest = "renamed" THEN "temporary" ELSE manifest},
         powerLost' \in BOOLEAN,
         Sealed => file' = file,
         ~powerLost' => ~powerLost
                        /\ \A f \in Files : file'[f].good = file[f].good
  PROVE  RecorderInv'
<1>1. /\ RecorderTypes /\ AckedInv /\ SealInv
  BY DEF RecorderInv
<1>2. /\ phase' = "down" /\ step' = 1 /\ open' = {} /\ half' = FALSE
      /\ UNCHANGED <<failed, counters, sums, total, acked>>
  BY DEF Down
<1>3. manifest' \in {"none", "temporary", "renamed", "durable"}
  BY <1>1 DEF RecorderTypes
<1>4. RecorderTypes'
  <2>1. step' \in 1..8 /\ open' \subseteq Files
    BY <1>2
  <2>2. failed' \in BOOLEAN /\ half' \in BOOLEAN
    BY <1>1, <1>2 DEF RecorderTypes
  <2>3. /\ health' \in Nat /\ total' \in Nat
        /\ noted' \in [Workers -> Nat \cup {None}] /\ overlapped' \in BOOLEAN
        /\ sums' \in [Files -> Nat] /\ acked' \in [Files -> Nat]
    BY <1>1, <1>2 DEF RecorderTypes
  <2> QED  BY <1>2, <1>3, <2>1, <2>2, <2>3 DEF RecorderTypes
<1>5. BufferInv' /\ FinalizeInv' /\ RecoveryInv'
  BY <1>2 DEF BufferInv, FinalizeInv, RecoveryInv, RecoveredReadable, Running
<1>6. AckedInv'
  <2> SUFFICES ASSUME ~failed', ~powerLost' PROVE AckedInv'
    BY DEF AckedInv
  <2>1. /\ ~failed /\ ~powerLost
        /\ \A f \in Files : file'[f].good = file[f].good
    BY <1>2
  <2>2. /\ \A f \in Files : file[f].good >= acked[f]
        /\ file["binary"].good - file["sidecar"].good \in 0..1
        /\ "binary" \in Files /\ "sidecar" \in Files
    BY <1>1, <2>1 DEF AckedInv, SidecarBehindBinary, Files
  <2> QED  BY <1>2, <2>1, <2>2 DEF AckedInv, SidecarBehindBinary, Running
<1>7. SealInv'
  <2> SUFFICES ASSUME Sealed' PROVE SealInv'
    BY DEF SealInv
  <2>1. Sealed
    BY DEF Sealed
  <2> QED  BY <1>1, <1>2, <2>1 DEF SealInv, StreamsAgree, Accounts, Complete,
                Sealed
<1> QED  BY <1>4, <1>5, <1>6, <1>7 DEF RecorderInv

LEMMA KillStep == RecorderInv /\ Kill => RecorderInv'
<1> SUFFICES ASSUME RecorderInv, Kill PROVE RecorderInv'
  OBVIOUS
<1>1. /\ RecorderTypes /\ SealInv
  BY DEF RecorderInv
<1>2. PICK cut \in SUBSET open :
        file' = [f \in Files |->
                   [file[f] EXCEPT
                      !.buffered = 0,
                      !.tail = IF f \in cut /\ @ = "clean" THEN "short" ELSE @]]
  BY DEF Kill
<1>3. ASSUME NEW f \in Files
      PROVE  /\ file'[f] \in FileState
             /\ file'[f].good = file[f].good
             /\ Complete(f) => file'[f] = file[f]
  <2> DEFINE x == file[f]
             t == IF f \in cut /\ x.tail = "clean" THEN "short" ELSE x.tail
  <2>1. x \in FileState /\ file'[f] = [x EXCEPT !.buffered = 0, !.tail = t]
    BY <1>1, <1>2 DEF RecorderTypes
  <2>2. t \in Tails
    BY <2>1 DEF FileState, Tails
  <2>3. Complete(f) => t = x.tail /\ x.buffered = 0
    BY DEF Complete
  <2> HIDE DEF x, t
  <2>4. file'[f] = [good |-> x.good, synced |-> x.synced, buffered |-> 0, tail |-> t]
    BY <2>1 DEF FileState
  <2>5. x = [good |-> x.good, synced |-> x.synced, buffered |-> x.buffered,
             tail |-> x.tail]
    BY <2>1 DEF FileState
  <2>6. file'[f] \in FileState /\ file'[f].good = x.good
    BY <2>1, <2>2, <2>4 DEF FileState
  <2>7. Complete(f) => file'[f] = x
    BY <2>3, <2>4, <2>5
  <2> QED  BY <2>6, <2>7 DEF x
<1>4. file' \in [Files -> FileState]
  BY <1>2, <1>3
<1>5. Sealed => file' = file
  BY <1>1, <1>2, <1>3 DEF SealInv, RecorderTypes
<1>6. Down /\ manifest' = manifest /\ powerLost' = powerLost /\ powerLost \in BOOLEAN
  BY <1>1 DEF Kill, RecorderTypes
<1> QED  BY <1>3, <1>4, <1>5, <1>6, DownKeeps

LEMMA PowerLossStep == RecorderInv /\ PowerLoss => RecorderInv'
<1> SUFFICES ASSUME RecorderInv, PowerLoss PROVE RecorderInv'
  OBVIOUS
<1>1. /\ RecorderTypes /\ SealInv
  BY DEF RecorderInv
<1>2. PICK frames \in Survivals(file["frames"]),
           controller \in Survivals(file["controller"]),
           binary \in Survivals(file["binary"]),
           sidecar \in Survivals(file["sidecar"]),
           events \in Survivals(file["health"]) :
        file' = [frames |-> frames, controller |-> controller,
                 binary |-> binary, sidecar |-> sidecar, health |-> events]
  BY DEF PowerLoss
<1>3. \A f \in Files : file'[f] \in Survivals(file[f])
  BY <1>2 DEF Files
<1>4. file' \in [Files -> FileState]
  <2>1. \A f \in Files : file'[f] \in FileState
    BY <1>1, <1>3, SurvivalState DEF RecorderTypes
  <2>2. file' = [f \in Files |-> file'[f]]
    BY <1>2 DEF Files
  <2> QED  BY <2>1, <2>2
<1>5. ASSUME Sealed PROVE file' = file
  <2>1. ASSUME NEW f \in Files PROVE file'[f] = file[f]
    <3>1. Complete(f) /\ file[f] \in FileState
      BY <1>1, <1>5 DEF SealInv, RecorderTypes
    <3> QED  BY <1>3, <3>1, SurvivalState DEF Complete
  <2> QED  BY <1>1, <1>4, <2>1 DEF RecorderTypes
<1>6. /\ Down /\ powerLost' = TRUE
      /\ manifest' \in {manifest, IF manifest = "renamed" THEN "temporary"
                                                          ELSE manifest}
  BY DEF PowerLoss
<1> QED  BY <1>4, <1>5, <1>6, DownKeeps

LEMMA RecoverStep == RecorderInv /\ Recover => RecorderInv'
<1> SUFFICES ASSUME RecorderInv, Recover PROVE RecorderInv'
  OBVIOUS
<1>1. /\ RecorderTypes /\ AckedInv /\ SealInv /\ RecoveryInv
  BY DEF RecorderInv
<1>2. /\ Len(RecoverOrder) = 5
      /\ \A i \in 1..5 : RecoverOrder[i] \in Files
      /\ \A f \in Files : \E i \in 1..5 : RecoverOrder[i] = f
  <2>1. /\ Len(RecoverOrder) = 5
        /\ RecoverOrder[1] = "frames" /\ RecoverOrder[2] = "controller"
        /\ RecoverOrder[3] = "sidecar" /\ RecoverOrder[4] = "binary"
        /\ RecoverOrder[5] = "health"
    BY DEF RecoverOrder
  <2>2. \A i \in 1..5 : i = 1 \/ i = 2 \/ i = 3 \/ i = 4 \/ i = 5
    OBVIOUS
  <2>3. 1 \in 1..5 /\ 2 \in 1..5 /\ 3 \in 1..5 /\ 4 \in 1..5 /\ 5 \in 1..5
    OBVIOUS
  <2> QED  BY <2>1, <2>2, <2>3 DEF Files
<1>3. /\ phase \in {"down", "recovering"} /\ step \in 1..5
      /\ UNCHANGED <<failed, open, half, counters, manifest, sums, total, acked,
                     powerLost>>
  BY <1>1, <1>2
     DEF Recover, RecoverFile, RecoverRaises, Recovers, recorder, document,
         history, RecorderTypes
<1>4. ASSUME RecoverFile PROVE RecorderInv'
  <2> DEFINE c == RecoverOrder[step]
  <2>1. /\ file' = [file EXCEPT ![c].tail = "clean"] /\ step' = step + 1
        /\ phase' = IF step = 5 THEN "recovered" ELSE "recovering"
        /\ c \in Files
    BY <1>2, <1>3, <1>4 DEF RecoverFile
  <2> HIDE DEF c
  <2>2. ASSUME NEW f \in Files
        PROVE  /\ file'[f] \in FileState /\ file'[f].good = file[f].good
               /\ f = c => file'[f].tail = "clean"
               /\ f # c => file'[f] = file[f]
               /\ file[f].tail = "clean" => file'[f] = file[f]
    <3>1. file[f] \in FileState
      BY <1>1 DEF RecorderTypes
    <3>2. CASE f = c
      BY <1>1, <2>1, <3>1, <3>2 DEF RecorderTypes, FileState, Tails
    <3>3. CASE f # c
      BY <1>1, <2>1, <3>1, <3>3 DEF RecorderTypes
    <3> QED  BY <3>2, <3>3
  <2>3. RecorderTypes'
    <3>1. file' \in [Files -> FileState]
      BY <1>1, <2>1, <2>2 DEF RecorderTypes
    <3> QED  BY <1>1, <1>3, <2>1, <3>1 DEF RecorderTypes
  <2>4. BufferInv' /\ FinalizeInv'
    BY <1>3, <2>1 DEF BufferInv, FinalizeInv, Running
  <2>5. AckedInv'
    <3> SUFFICES ASSUME ~failed', ~powerLost' PROVE AckedInv'
      BY DEF AckedInv
    <3>1. /\ \A f \in Files : file[f].good >= acked[f]
          /\ file["binary"].good - file["sidecar"].good \in 0..1
          /\ "binary" \in Files /\ "sidecar" \in Files
      BY <1>1, <1>3 DEF AckedInv, SidecarBehindBinary, Files
    <3> QED  BY <1>3, <2>1, <2>2, <3>1 DEF AckedInv, SidecarBehindBinary, Running
  <2>6. SealInv'
    <3> SUFFICES ASSUME Sealed PROVE SealInv'
      BY <1>3 DEF SealInv, Sealed
    <3>1. \A f \in Files : file'[f] = file[f]
      BY <1>1, <2>2 DEF SealInv, Complete
    <3> QED  BY <1>1, <1>3, <2>1, <3>1 DEF SealInv, StreamsAgree, Accounts, Complete,
                Sealed
  <2>7. RecoveryInv'
    <3>1. ASSUME NEW i \in 1..5, i < step' PROVE file'[RecoverOrder[i]].tail = "clean"
      <4>1. CASE i = step
        BY <1>2, <2>2, <4>1 DEF c
      <4>2. CASE i # step
        <5>1. i < step /\ RecoverOrder[i] \in Files
          BY <1>2, <1>3, <2>1, <3>1, <4>2
        <5>2. file[RecoverOrder[i]].tail = "clean"
          BY <1>1, <1>3, <5>1 DEF RecoveryInv
        <5> QED  BY <2>2, <5>1, <5>2
      <4> QED  BY <4>1, <4>2
    <3>2. CASE step = 5
      <4>1. \A i \in 1..5 : file'[RecoverOrder[i]].tail = "clean"
        BY <2>1, <3>1, <3>2
      <4> QED  BY <1>2, <2>1, <3>2, <4>1 DEF RecoveryInv, RecoveredReadable
    <3>3. CASE step # 5
      BY <1>3, <2>1, <3>1, <3>3 DEF RecoveryInv, RecoveredReadable
    <3> QED  BY <3>2, <3>3
  <2> QED  BY <2>3, <2>4, <2>5, <2>6, <2>7 DEF RecorderInv
<1>5. ASSUME RecoverRaises PROVE RecorderInv'
  <2>1. phase' = "refused" /\ step' = step /\ file' = file
    BY <1>5 DEF RecoverRaises
  <2>2. RecorderTypes'
    BY <1>1, <1>3, <2>1 DEF RecorderTypes
  <2>3. BufferInv' /\ FinalizeInv' /\ RecoveryInv'
    BY <2>1 DEF BufferInv, FinalizeInv, RecoveryInv, RecoveredReadable, Running
  <2>4. AckedInv'
    BY <1>1, <1>3, <2>1 DEF AckedInv, SidecarBehindBinary, Running
  <2>5. SealInv'
    BY <1>1, <1>3, <2>1 DEF SealInv, StreamsAgree, Accounts, Complete,
                Sealed
  <2> QED  BY <2>2, <2>3, <2>4, <2>5 DEF RecorderInv
<1> QED  BY <1>4, <1>5 DEF Recover

LEMMA RecorderNext == RecorderInv /\ [Next]_vars => RecorderInv'
<1> SUFFICES ASSUME RecorderInv, [Next]_vars PROVE RecorderInv'
  OBVIOUS
<1>1. CASE Record
  BY <1>1, RecordStep
<1>2. CASE End
  BY <1>2, EndStep
<1>3. CASE Publish
  BY <1>3, PublishStep
<1>4. CASE Kill
  BY <1>4, KillStep
<1>5. CASE PowerLoss
  BY <1>5, PowerLossStep
<1>6. CASE Recover
  BY <1>6, RecoverStep
<1>7. CASE UNCHANGED vars
  <2>1. UNCHANGED <<phase, step, failed, open, half, counters, file, manifest,
                    sums, total, acked, powerLost>>
    BY <1>7 DEF vars, recorder, document, history
  <2>2. RecorderTypes' /\ BufferInv' /\ AckedInv'
    BY <2>1 DEF RecorderInv, RecorderTypes, BufferInv, CounterInv, Accounts,
                Lines, Counting, AckedInv, SidecarBehindBinary, Running
  <2>3. FinalizeInv' /\ SealInv' /\ RecoveryInv'
    BY <2>1 DEF RecorderInv, FinalizeInv, SealInv, RecoveryInv, Described,
                Complete, Sealed, StreamsAgree, Accounts, RecoveredReadable
  <2> QED  BY <2>2, <2>3 DEF RecorderInv
<1> QED  BY <1>1, <1>2, <1>3, <1>4, <1>5, <1>6, <1>7 DEF Next, Terminated

\* In every execution of recording, finalize(), close(), crash and recovery the
\* files are what the invariant says.
THEOREM RecorderInvariance == Spec => []RecorderInv
<1>1. Init => RecorderInv
  BY RecorderInit
<1>2. RecorderInv /\ [Next]_vars => RecorderInv'
  BY RecorderNext
<1> QED  BY <1>1, <1>2, PTL DEF Spec

\* A manifest that finalize() has put in place is true of the files, and of all
\* that was appended, whatever fails or crashes afterwards.
THEOREM ManifestAlwaysTrue == Spec => []ManifestTrue
<1>1. RecorderInv => ManifestTrue
  BY DEF RecorderInv, SealInv, ManifestTrue, Valid, Complete
<1> QED  BY <1>1, RecorderInvariance, PTL

\* In a session with a manifest the sidecar has a line for every datagram, and
\* the health counter accounts for the lines in health.jsonl: it is exact unless
\* two workers counted at a time, and never zero or too high over them.
THEOREM StreamsAlwaysAgree == Spec => []StreamsAgree
<1>1. RecorderInv => StreamsAgree
  BY DEF RecorderInv, SealInv, StreamsAgree
<1> QED  BY <1>1, RecorderInvariance, PTL

\* A kill of the process loses no record whose append has returned.
THEOREM KillNeverLoses == Spec => []KillLosesNothing
<1>1. RecorderInv => KillLosesNothing
  BY DEF RecorderInv, AckedInv, KillLosesNothing
<1> QED  BY <1>1, RecorderInvariance, PTL

\* While only the process is killed, the sidecar is at most one line behind the
\* binary stream, and never ahead of it.
THEOREM SidecarNeverAhead == Spec => []SidecarBehindBinary
<1>1. RecorderInv => SidecarBehindBinary
  BY DEF RecorderInv, AckedInv, SidecarBehindBinary
<1> QED  BY <1>1, RecorderInvariance, PTL

\* When recover_session returns, every stream is readable to its end.
THEOREM RecoveryAlwaysReadable == Spec => []RecoveredReadable
<1>1. RecorderInv => RecoveredReadable
  BY DEF RecorderInv, RecoveryInv
<1> QED  BY <1>1, RecorderInvariance, PTL
=============================================================================
