-------------------------- MODULE ComponentsProofs --------------------------
(* The parts as MCComponents composes them, where the other parts stay as   *)
(* they are while one is at work: what is proved of each alone holds of all *)
(* of them.  The supervisor, the lifecycle, the selection of a controller,  *)
(* the tracker and the replay are proved about here, the file in            *)
(* CaptureFileProofs and the lap machine in LapStateMachineProofs.          *)
EXTENDS MCComponents, FiniteSetTheorems, SequenceTheorems, TLAPS

FP == INSTANCE CaptureFileProofs
        WITH MaxRecords <- FileRecords, MaxBytes <- FileBytes,
             MaxTime <- FileTime, MaxAppends <- FileAppends, last <- latest

LP == INSTANCE LapStateMachineProofs
        WITH Modulus <- LapModulus, MaxPackets <- LapPackets,
             packets <- lapPackets

\* A closed backend holds nothing: its close() released the controls, and it
\* accepts no action afterwards, whatever the supervisor's state has become.
SilentInv == /\ Supervisor!TypeOK
             /\ Supervisor!NeutralUnlessArmed
             /\ backendClosed => output = Neutral

\* TypeOK and NeutralUnlessArmed of SafetySupervisor hold after every sequence
\* of calls.
THEOREM NeutralAlways ==
  Supervisor!Spec => [](Supervisor!TypeOK /\ Supervisor!NeutralUnlessArmed)
<1>1. Supervisor!Init => SilentInv
  BY DEF Supervisor!Init, SilentInv, Supervisor!TypeOK,
     Supervisor!NeutralUnlessArmed, Supervisor!Actions
<1>2. SilentInv /\ [Supervisor!Next]_Supervisor!vars => SilentInv'
  <2> SUFFICES ASSUME SilentInv, [Supervisor!Next]_Supervisor!vars
               PROVE  SilentInv'
    OBVIOUS
  <2> USE DEF SilentInv, Supervisor!TypeOK, Supervisor!NeutralUnlessArmed,
              Supervisor!Actions
  <2>1. ASSUME NEW m, NEW s \in {"disarmed", "faulted"}, NEW r,
               Supervisor!Unarmed(m, s, r)
        PROVE  SilentInv'
    <3>1. CASE r \in Blank
      BY <2>1, <3>1 DEF Supervisor!Unarmed
    <3>2. CASE r \notin Blank
      <4>1. /\ arming' = s /\ backendClosed' = backendClosed
            /\ output' = IF backendClosed THEN output ELSE Neutral
        BY <2>1, <3>2 DEF Supervisor!Unarmed, Supervisor!Send
      <4> QED
        BY <4>1
    <3> QED
      BY <3>1, <3>2
  <2>2. CASE Supervisor!Arm
    <3>1. CASE arming' = "armed" /\ UNCHANGED <<output, backendClosed>>
      BY <3>1
    <3>2. CASE /\ arming' = "disarmed" /\ Supervisor!Send(Neutral)
               /\ UNCHANGED backendClosed
      BY <3>2 DEF Supervisor!Send
    <3>3. CASE UNCHANGED <<arming, output, backendClosed>>
      BY <3>3
    <3> HIDE DEF SilentInv, Supervisor!TypeOK, Supervisor!NeutralUnlessArmed,
                 Supervisor!Actions
    <3> QED
      BY <2>2, <3>1, <3>2, <3>3, Zenon DEF Supervisor!Arm
  <2>3. CASE Supervisor!Submit
    <3>1. ASSUME NEW a \in Supervisor!Actions,
                 Supervisor!Send(IF Supervisor!CanEmit THEN a ELSE Neutral),
                 UNCHANGED <<arming, backendClosed>>
          PROVE  SilentInv'
      BY <3>1 DEF Supervisor!Send, Supervisor!CanEmit
    <3>2. CASE UNCHANGED <<arming, output, backendClosed>>
      BY <3>2
    <3> HIDE DEF SilentInv, Supervisor!TypeOK, Supervisor!NeutralUnlessArmed,
                 Supervisor!Actions
    <3> QED
      BY <2>3, <3>1, <3>2, Zenon DEF Supervisor!Submit
  <2>4. CASE Supervisor!Close
    BY <2>4 DEF Supervisor!Close
  <2>5. CASE UNCHANGED Supervisor!vars
    BY <2>5 DEF Supervisor!vars
  <2> QED
    BY <2>1, <2>2, <2>3, <2>4, <2>5
       DEF Supervisor!Next, Supervisor!Disarm, Supervisor!Fault
<1> QED
  BY <1>1, <1>2, PTL DEF Supervisor!Spec, SilentInv

\* No control is held while the supervisor is not armed.
THEOREM NeutralInParts == PartsSpec => []NeutralUnlessArmed
<1>1. PartsInit => Supervisor!Init
  BY DEF PartsInit
<1>2. UNCHANGED supervisorVars => UNCHANGED Supervisor!vars
  BY DEF supervisorVars, Supervisor!vars
<1>3. [PartsNext]_<<which, continuityVars, supervisorVars, fileVars,
                    lifecycleVars, replayVars, selectionVars, lapVars>>
        => [Supervisor!Next]_Supervisor!vars
  BY <1>2, Zenon DEF PartsNext, ContinuityStep, SupervisorStep, FileStep,
     LifecycleStep, ReplayStep, SelectionStep, LapStep
<1>4. PartsSpec => Supervisor!Spec
  BY <1>1, <1>3, PTL DEF PartsSpec, Supervisor!Spec
<1> QED
  BY <1>4, NeutralAlways, PTL DEF NeutralUnlessArmed

\* The same module twice, once with its theorems: its operators are the same.
LEMMA SameOperators ==
  /\ \A records : File!Size(records) = FP!Size(records)
  /\ File!Record = FP!Record
  /\ File!Accepted = FP!Accepted
<1>1. ASSUME NEW records PROVE File!Size(records) = FP!Size(records)
  BY Zenon DEF File!Size, FP!Size
<1>2. ASSUME NEW records
      PROVE  File!InTimeOrder(records) = FP!InTimeOrder(records)
  BY Zenon DEF File!InTimeOrder, FP!InTimeOrder
<1>3. File!Record = FP!Record
  BY Zenon DEF File!Record, FP!Record
<1>4. File!Accepted = FP!Accepted
  BY <1>2 DEF File!Accepted, FP!Accepted, File!NoTail, FP!NoTail
<1> QED
  BY <1>1, <1>3, <1>4

\* In the composition the file goes through steps of its own, or none.
LEMMA FileIsAPart == PartsSpec => FP!Spec
<1>1. PartsInit => FP!Init
  BY DEF PartsInit, File!Init, FP!Init
<1>2. File!Next => FP!Next
  <2>1. File!Create => FP!Create
    BY Zenon DEF File!Create, FP!Create
  <2>2. File!Reopen => FP!Reopen
    BY SameOperators, Zenon DEF File!Reopen, FP!Reopen, File!LatestTime,
         FP!LatestTime,
       File!Last, FP!Last, File!file, FP!file
  <2>3. ASSUME NEW r, File!Write(r) PROVE FP!Write(r)
    BY SameOperators, <2>3, Zenon DEF File!Write, FP!Write, File!Tell, FP!Tell,
       File!Flush, FP!Flush, File!FlushFails, FP!FlushFails,
       File!Failed, FP!Failed, File!Synced, FP!Synced
  <2>4. File!AppendRecord => FP!AppendRecord
    BY SameOperators, <2>3, Zenon DEF File!AppendRecord, FP!AppendRecord
  <2>5. File!Close => FP!Close
    BY Zenon DEF File!Close, FP!Close, File!Flush, FP!Flush,
       File!FlushFails, FP!FlushFails
  <2>6. /\ File!Kill => FP!Kill
        /\ File!PowerLoss => FP!PowerLoss
        /\ File!Recover => FP!Recover
    BY Zenon DEF File!Kill, FP!Kill, File!PowerLoss, FP!PowerLoss,
       File!Recover, FP!Recover, File!state, FP!state
  <2> QED
    BY <2>1, <2>2, <2>4, <2>5, <2>6, Zenon DEF File!Next, FP!Next
<1>3. UNCHANGED fileVars => UNCHANGED FP!vars
  BY DEF fileVars, FP!vars, FP!file, FP!state
<1>4. [PartsNext]_<<which, continuityVars, supervisorVars, fileVars,
                    lifecycleVars, replayVars, selectionVars, lapVars>>
        => [FP!Next]_FP!vars
  BY <1>2, <1>3, Zenon DEF PartsNext, ContinuityStep, SupervisorStep, FileStep,
     LifecycleStep, ReplayStep, SelectionStep, LapStep
<1> QED
  BY <1>1, <1>4, PTL DEF PartsSpec, FP!Spec

\* An acknowledged datagram is never lost, doubled or moved.
THEOREM AckedAlwaysRecovered == PartsSpec => []AckedRecovered
<1>1. FP!AckedRecovered => AckedRecovered
  BY DEF FP!AckedRecovered, AckedRecovered, File!AckedRecovered
<1> QED
  BY <1>1, FileIsAPart, FP!CaptureFileCorrect, PTL

\* No writer continues behind a torn record.
THEOREM TornAlwaysLast == PartsSpec => []TornNeverExtended
<1>1. FP!TornNeverExtended => TornNeverExtended
  BY DEF FP!TornNeverExtended, TornNeverExtended, File!TornNeverExtended
<1> QED
  BY <1>1, FileIsAPart, FP!CaptureFileCorrect, PTL

\* What a writer acknowledged and closed is readable to its end.
THEOREM ClosedAlwaysReadable == PartsSpec => []ClosedReadable
<1>1. FP!ClosedReadable => ClosedReadable
  BY SameOperators, Zenon DEF FP!ClosedReadable, ClosedReadable,
     File!ClosedReadable
<1> QED
  BY <1>1, FileIsAPart, FP!ClosedFileReadable, PTL

\* The file stays within max_bytes.
THEOREM BytesAlwaysRespected == PartsSpec => []BytesRespected
<1>1. FP!BytesRespected => BytesRespected
  BY SameOperators, Zenon DEF FP!BytesRespected, BytesRespected,
     File!BytesRespected
<1>2. FileBytes \in Nat
  BY BoundsAssumption
<1>3. FP!Spec => []FP!BytesRespected
  BY <1>2, FP!FileWithinBytes
<1> QED
  BY <1>1, <1>3, FileIsAPart, PTL

-----------------------------------------------------------------------------
(* The session on disk, for any number of threads and any limit.             *)

Labels == {"idle", "check", "write", "count", "enter", "abort", "recorder",
           "frames", "rest", "hash", "publish", "closed", "end"}

Locked == {"check", "write", "count"}

LEMMA LifecycleConstants ==
  MaxFrames \in Nat /\ MaxFailures \in Nat /\ "none" \notin Callers
BY BoundsAssumption, CallersAssumption

\* The threads that hold the lock: one at most.
LockInv == /\ pc \in [Callers -> Labels]
           /\ openFrames \in BOOLEAN
           /\ \A t \in Callers : pc[t] \in Locked => holder = t

\* The file and the buffer hold what was counted, the frame of a thread between
\* the write and the count, and one more with each failure; all that was counted
\* is in the file unless a torn frame hides it.  A closed file has no buffer.
CountInv == /\ frames \in Nat /\ written \in Nat /\ buffered \in Nat
            /\ failures \in Nat /\ cut \in BOOLEAN
            /\ written + buffered <= MaxFrames + failures
            /\ frames <= MaxFrames
            /\ ~cut => frames <= written
            /\ ~openFrames => buffered = 0
            /\ \A t \in Callers : pc[t] = "write" => frames < MaxFrames
            /\ \A t \in Callers :
                 pc[t] = "count" =>
                   /\ frames < MaxFrames
                   /\ written + buffered <= frames + 1 + failures
                   /\ ~cut => frames + 1 <= written + buffered
            /\ openFrames /\ (\A t \in Callers : pc[t] # "count")
                 => written + buffered <= frames + failures

\* Nothing is written any more once a thread is about to hash the file.
SealInv == /\ \A t \in Callers :
                pc[t] \in {"rest", "hash", "publish"} => ~openFrames
           /\ \A t \in Callers : pc[t] = "publish" => hashed = written
           /\ sealed # -1 => sealed = written /\ ~openFrames

LifecycleInv == LockInv /\ CountInv /\ SealInv

frameVars == <<frames, written, buffered, cut, failures>>
USE DEF frameVars

\* What arithmetic needs of CountInv.
LEMMA CountTypes ==
  ASSUME LifecycleInv
  PROVE  /\ MaxFrames \in Nat /\ frames \in Nat /\ written \in Nat
         /\ buffered \in Nat /\ failures \in Nat
         /\ written + buffered <= MaxFrames + failures
         /\ frames <= MaxFrames
         /\ ~cut => frames <= written
BY LifecycleConstants DEF LifecycleInv, CountInv

\* A flush of a closed file has nothing to write.
LEMMA FlushIdle ==
  ASSUME LifecycleInv, Lifecycle!Flush
  PROVE  /\ written' \in Nat /\ buffered' = 0
         /\ written <= written' /\ written' <= written + buffered
         /\ ~cut => written' = written + buffered
         /\ ~openFrames => written' = written
BY DEF Lifecycle!Flush, LifecycleInv, CountInv

\* A step that moves t to an unlocked label, and touches neither the frames nor
\* what is published.
LEMMA ClosingStep ==
  ASSUME LifecycleInv, NEW t \in Callers, NEW l \in Labels \ Locked,
         pc[t] \notin Locked, Lifecycle!Goto(t, l), holder' = holder,
         UNCHANGED <<frameVars, openFrames, hashed, sealed>>,
         l \in {"rest", "hash", "publish"} => ~openFrames,
         l # "publish"
  PROVE  LifecycleInv'
<1> USE DEF LifecycleInv, Lifecycle!Goto, Labels, Locked
<1>1. LockInv'
  BY DEF LockInv
<1>2. CountInv'
  BY DEF LockInv, CountInv
<1>3. SealInv'
  BY DEF LockInv, SealInv
<1> QED
  BY <1>1, <1>2, <1>3

\* The frame file is closed, for the first time or again.
LEMMA CloseFramesStep ==
  ASSUME LifecycleInv, NEW t \in Callers, Lifecycle!CloseFrames(t)
  PROVE  LifecycleInv'
<1> USE DEF LifecycleInv, Lifecycle!Goto, Labels, Locked
<1>0. /\ pc[t] = "frames" /\ Lifecycle!Goto(t, "rest") /\ openFrames' = FALSE
      /\ Lifecycle!Flush
      /\ UNCHANGED <<frames, cut, failures, holder, hashed, sealed>>
  BY DEF Lifecycle!CloseFrames, Lifecycle!publishing
<1>1. LockInv'
  BY <1>0 DEF LockInv
<1>2. CountInv'
  <2>1. /\ written' \in Nat /\ buffered' = 0
        /\ written <= written' /\ written' <= written + buffered
        /\ ~cut => written' = written + buffered
    BY <1>0, FlushIdle
  <2>2. \A u \in Callers : pc'[u] \in Locked => u # t /\ pc'[u] = pc[u]
    BY <1>0 DEF LockInv
  <2>3. \A u \in Callers : pc'[u] = "write" => frames < MaxFrames
    BY <2>2 DEF CountInv
  <2>4. \A u \in Callers :
          pc'[u] = "count" => /\ frames < MaxFrames
                              /\ written' + buffered' <= frames + 1 + failures
                              /\ ~cut => frames + 1 <= written' + buffered'
    BY <2>1, <2>2 DEF CountInv
  <2>5. /\ written' + buffered' <= MaxFrames + failures
        /\ ~cut => frames <= written'
    BY <2>1, CountTypes
  <2> QED
    BY <1>0, <2>1, <2>3, <2>4, <2>5 DEF CountInv
<1>3. SealInv'
  BY <1>0, FlushIdle DEF LockInv, SealInv
<1> QED
  BY <1>1, <1>2, <1>3

\* The end of a call that held the lock, and counted nothing.
LEMMA LockedOver ==
  ASSUME LifecycleInv, NEW t \in Callers, pc[t] \in {"check", "write"},
         Lifecycle!Goto(t, "idle"), holder' = "none",
         UNCHANGED <<frameVars, openFrames, hashed, sealed>>
  PROVE  LifecycleInv'
<1> USE DEF LifecycleInv, Lifecycle!Goto, Labels, Locked
<1>1. LockInv'
  BY DEF LockInv
<1>2. CountInv'
  BY DEF LockInv, CountInv
<1>3. SealInv'
  BY DEF LockInv, SealInv
<1> QED
  BY <1>1, <1>2, <1>3

LEMMA EnterStep ==
  ASSUME LifecycleInv, NEW t \in Callers,
         Lifecycle!Enter(t)
  PROVE  LifecycleInv'
<1> USE DEF LifecycleInv, Lifecycle!Goto, Labels, Locked
<1>0. UNCHANGED <<frameVars, openFrames, hashed, sealed>>
  BY DEF Lifecycle!Enter, Lifecycle!files, Lifecycle!frameFile,
     Lifecycle!publishing
<1>1. CASE Lifecycle!Acquire(t) /\ Lifecycle!Goto(t, "check")
  <2>0. \A u \in Callers : pc[u] \notin Locked
    BY <1>1, LifecycleConstants DEF Lifecycle!Acquire, LockInv
  <2>1. LockInv'
    BY <1>0, <1>1, <2>0 DEF LockInv, Lifecycle!Acquire
  <2>2. CountInv'
    BY <1>0, <1>1, <2>0 DEF LockInv, CountInv
  <2>3. SealInv'
    BY <1>0, <1>1, <2>0 DEF LockInv, SealInv
  <2> QED
    BY <2>1, <2>2, <2>3
<1>2. CASE Lifecycle!Goto(t, "enter") /\ UNCHANGED holder
  BY <1>0, <1>2, ClosingStep DEF Lifecycle!Enter
<1> QED
  BY <1>1, <1>2 DEF Lifecycle!Enter

LEMMA CheckAppendStep ==
  ASSUME LifecycleInv, NEW t \in Callers, Lifecycle!CheckAppend(t)
  PROVE  LifecycleInv'
<1> USE DEF LifecycleInv, Lifecycle!Goto, Labels, Locked
<1>0. UNCHANGED <<frameVars, openFrames, hashed, sealed>>
  BY DEF Lifecycle!CheckAppend, Lifecycle!files, Lifecycle!frameFile,
     Lifecycle!publishing
<1>1. CASE Lifecycle!MayAppend
  <2>1. LockInv'
    BY <1>0, <1>1 DEF LockInv, Lifecycle!CheckAppend
  <2>2. CountInv'
    BY <1>0, <1>1 DEF LockInv, CountInv, Lifecycle!CheckAppend,
       Lifecycle!MayAppend
  <2>3. SealInv'
    BY <1>0, <1>1 DEF LockInv, SealInv, Lifecycle!CheckAppend
  <2> QED
    BY <2>1, <2>2, <2>3
<1>2. CASE ~Lifecycle!MayAppend
  BY <1>0, <1>2, LockedOver DEF Lifecycle!CheckAppend, Lifecycle!Over
<1> QED
  BY <1>1, <1>2

LEMMA WriteFrameStep ==
  ASSUME LifecycleInv, NEW t \in Callers,
         Lifecycle!WriteFrame(t)
  PROVE  LifecycleInv'
<1> USE DEF LifecycleInv, Lifecycle!Goto, Labels, Locked
<1>0. /\ UNCHANGED <<frames, openFrames, hashed, sealed>>
      /\ pc[t] = "write" /\ failures \in Nat
  BY DEF Lifecycle!WriteFrame, Lifecycle!publishing, Lifecycle!Rejected,
     CountInv
<1>1. \A u \in Callers : pc[u] # "count"
  BY <1>0 DEF LockInv
<1>2. CASE /\ openFrames /\ buffered' = buffered + 1
           /\ Lifecycle!Goto(t, "count")
           /\ UNCHANGED <<call, holder, frames, written, cut, failures>>
  <2>1. LockInv'
    BY <1>0, <1>2 DEF LockInv
  <2>2. CountInv'
    BY <1>0, <1>1, <1>2, LifecycleConstants DEF LockInv, CountInv
  <2>3. SealInv'
    BY <1>0, <1>2 DEF LockInv, SealInv
  <2> QED
    BY <2>1, <2>2, <2>3
<1>3. CASE /\ ~openFrames /\ Lifecycle!Rejected(t)
           /\ UNCHANGED <<Lifecycle!frameFile, failures>>
  BY <1>0, <1>3, LockedOver DEF Lifecycle!Rejected, Lifecycle!Over,
     Lifecycle!frameFile
<1>4. CASE /\ openFrames /\ Lifecycle!Fails /\ Lifecycle!Rejected(t)
           /\ \/ UNCHANGED Lifecycle!frameFile
              \/ Lifecycle!Flush /\ cut' = TRUE
  <2>0. /\ openFrames /\ failures' = failures + 1 /\ holder' = "none"
        /\ Lifecycle!Goto(t, "idle")
    BY <1>4 DEF Lifecycle!Fails, Lifecycle!Rejected, Lifecycle!Over
  <2>1. /\ written' \in Nat /\ buffered' \in Nat /\ cut' \in BOOLEAN
        /\ written' + buffered' <= written + buffered
        /\ written <= written' /\ (~cut' => ~cut)
    <3>1. CASE UNCHANGED Lifecycle!frameFile
      BY <3>1 DEF Lifecycle!frameFile, CountInv
    <3>2. CASE Lifecycle!Flush /\ cut' = TRUE
      BY <3>2, FlushIdle DEF CountInv
    <3> QED
      BY <1>4, <3>1, <3>2
  <2>2. LockInv'
    BY <1>0, <2>0 DEF LockInv
  <2>3. CountInv'
    <3>1. written + buffered <= frames + failures
      BY <1>1, <2>0 DEF CountInv
    <3>2. \A u \in Callers : pc'[u] # "count" /\ pc'[u] # "write"
      BY <1>0, <2>0 DEF LockInv
    <3>3. /\ written' + buffered' <= frames + failures'
          /\ written' + buffered' <= MaxFrames + failures'
          /\ failures' \in Nat
      BY <2>0, <2>1, <3>1, CountTypes
    <3>4. ~cut' => frames <= written'
      BY <2>1 DEF CountInv
    <3> QED
      BY <1>0, <2>0, <2>1, <3>2, <3>3, <3>4 DEF CountInv
  <2>4. SealInv'
    BY <1>0, <2>0 DEF LockInv, SealInv
  <2> QED
    BY <2>2, <2>3, <2>4
<1> QED
  BY <1>2, <1>3, <1>4 DEF Lifecycle!WriteFrame

LEMMA CountFrameStep ==
  ASSUME LifecycleInv, NEW t \in Callers, Lifecycle!CountFrame(t)
  PROVE  LifecycleInv'
<1> USE DEF LifecycleInv, Lifecycle!Goto, Labels, Locked
<1>0. /\ UNCHANGED <<cut, openFrames, hashed, sealed>>
      /\ Lifecycle!Goto(t, "idle") /\ pc[t] = "count" /\ holder' = "none"
  BY DEF Lifecycle!CountFrame, Lifecycle!Rejected, Lifecycle!publishing,
     Lifecycle!Over
<1>1. \A u \in Callers : u # t => pc[u] \notin Locked
  BY <1>0 DEF LockInv
<1>2. LockInv'
  BY <1>0 DEF LockInv
<1>3. CountInv' /\ (~openFrames => written' = written)
  <2>1. CASE frames' = frames + 1 /\ Lifecycle!Flush /\ UNCHANGED failures
    BY <1>0, <1>1, <2>1, FlushIdle, LifecycleConstants DEF LockInv, CountInv
  <2>2. CASE /\ openFrames /\ failures' = failures + 1
             /\ UNCHANGED <<frames, written, buffered>>
    BY <1>0, <1>1, <2>2, LifecycleConstants DEF LockInv, CountInv
  <2>3. CASE ~openFrames /\ UNCHANGED <<frames, written, buffered, failures>>
    BY <1>0, <1>1, <2>3, LifecycleConstants DEF LockInv, CountInv
  <2> QED
    BY <2>1, <2>2, <2>3
       DEF Lifecycle!CountFrame, Lifecycle!Fails, Lifecycle!Rejected
<1>4. SealInv'
  BY <1>0, <1>3 DEF LockInv, SealInv
<1> QED
  BY <1>2, <1>3, <1>4

LEMMA PublishStep ==
  ASSUME LifecycleInv, NEW t \in Callers,
         Lifecycle!Hash(t) \/ Lifecycle!Publish(t)
  PROVE  LifecycleInv'
<1> USE DEF LifecycleInv, Lifecycle!Goto, Labels, Locked
<1>1. CASE Lifecycle!Hash(t)
  <2>1. LockInv'
    BY <1>1 DEF LockInv, Lifecycle!Hash, Lifecycle!files, Lifecycle!frameFile
  <2>2. CountInv'
    BY <1>1 DEF LockInv, CountInv, Lifecycle!Hash, Lifecycle!files,
         Lifecycle!frameFile
  <2>3. SealInv'
    BY <1>1 DEF LockInv, SealInv, Lifecycle!Hash, Lifecycle!files,
         Lifecycle!frameFile,
       Lifecycle!AsRead
  <2> QED
    BY <2>1, <2>2, <2>3
<1>2. CASE Lifecycle!Publish(t)
  <2>1. LockInv'
    BY <1>2 DEF LockInv, Lifecycle!Publish, Lifecycle!files, Lifecycle!frameFile
  <2>2. CountInv'
    BY <1>2 DEF LockInv, CountInv, Lifecycle!Publish, Lifecycle!files,
         Lifecycle!frameFile
  <2>3. SealInv'
    BY <1>2 DEF LockInv, SealInv, Lifecycle!Publish, Lifecycle!files,
         Lifecycle!frameFile
  <2> QED
    BY <2>1, <2>2, <2>3
<1> QED
  BY <1>1, <1>2

\* The steps of finalize(), abort() and close() around the publication.
LEMMA EndingStep ==
  ASSUME LifecycleInv, NEW t \in Callers,

         \/ Lifecycle!Check(t) \/ Lifecycle!Abort(t) \/ Lifecycle!Recorder(t)
         \/ Lifecycle!CloseRest(t)
         \/ Lifecycle!Closed(t) \/ Lifecycle!Raise(t) \/ Lifecycle!End(t)
  PROVE  LifecycleInv'
<1> DEFINE Same == UNCHANGED <<holder, frameVars, hashed, sealed>>
<1>0. openFrames \in BOOLEAN /\ (pc[t] = "rest" => ~openFrames)
  BY DEF LifecycleInv, LockInv, SealInv
<1>1. ASSUME NEW l \in {"idle", "abort", "recorder", "frames", "closed",
                         "end"},
             Lifecycle!Goto(t, l), pc[t] \notin Locked, Same,
             UNCHANGED openFrames
      PROVE  LifecycleInv'
  BY <1>0, <1>1, ClosingStep DEF Labels, Locked
<1>2. CASE \/ Lifecycle!Check(t) \/ Lifecycle!Abort(t) \/ Lifecycle!Closed(t)
           \/ Lifecycle!Raise(t) \/ Lifecycle!End(t)
  <2>1. Same /\ UNCHANGED openFrames /\ pc[t] \notin Locked
    BY <1>2 DEF Lifecycle!Check, Lifecycle!Abort, Lifecycle!Closed,
       Lifecycle!Raise, Lifecycle!End, Lifecycle!Over, Lifecycle!files,
       Lifecycle!frameFile,
       Lifecycle!publishing, Locked
  <2>2. \E l \in {"idle", "abort", "recorder", "end"} : Lifecycle!Goto(t, l)
    BY <1>2 DEF Lifecycle!Check, Lifecycle!Abort, Lifecycle!Closed,
       Lifecycle!Raise, Lifecycle!End, Lifecycle!Over
  <2> QED
    BY <1>1, <2>1, <2>2
<1>3. CASE Lifecycle!Recorder(t)
  <2>1. Same /\ UNCHANGED openFrames /\ pc[t] \notin Locked
    BY <1>3 DEF Lifecycle!Recorder, Lifecycle!files, Lifecycle!frameFile,
         Lifecycle!publishing,
       Locked
  <2>2. \E l \in {"frames", "idle", "end"} : Lifecycle!Goto(t, l)
    <3>1. CASE ~recorderClosed
      BY <1>3, <3>1 DEF Lifecycle!Recorder
    <3>2. CASE recorderClosed
      BY <1>3, <3>2 DEF Lifecycle!Recorder
    <3> QED
      BY <3>1, <3>2
  <2> QED
    BY <1>1, <2>1, <2>2
<1>4. CASE Lifecycle!CloseRest(t)
  <2>1. Same /\ UNCHANGED openFrames /\ pc[t] \notin Locked /\ ~openFrames
    BY <1>0, <1>4 DEF Lifecycle!CloseRest, Lifecycle!frameFile,
         Lifecycle!publishing,
       Locked
  <2>2. \E l \in {"idle", "hash", "closed"} : Lifecycle!Goto(t, l)
    <3>1. CASE ~openRest
      BY <1>4, <3>1 DEF Lifecycle!CloseRest
    <3>2. CASE openRest
      BY <1>4, <3>2 DEF Lifecycle!CloseRest
    <3> QED
      BY <3>1, <3>2
  <2>3. ASSUME NEW l \in {"idle", "hash", "closed"}, Lifecycle!Goto(t, l)
        PROVE  LifecycleInv'
    BY <1>0, <2>1, <2>3, ClosingStep DEF Labels, Locked
  <2> QED
    BY <2>2, <2>3
<1> QED
  BY <1>2, <1>3, <1>4

LEMMA LifecycleInductive ==
  ASSUME LifecycleInv, [Lifecycle!Next]_Lifecycle!vars
  PROVE  LifecycleInv'
<1>1. CASE Lifecycle!Expire \/ UNCHANGED Lifecycle!vars
  <2>1. UNCHANGED <<frameVars, openFrames, hashed, sealed, pc, holder>>
    BY <1>1 DEF Lifecycle!Expire, Lifecycle!vars, Lifecycle!files,
         Lifecycle!frameFile,
       Lifecycle!publishing
  <2> QED
    BY <2>1 DEF LifecycleInv, LockInv, CountInv, SealInv
<1>2. ASSUME NEW t \in Callers, Lifecycle!Start(t)
      PROVE  LifecycleInv'
  BY <1>2, LockedOver DEF Lifecycle!Start, Lifecycle!Over, Lifecycle!files,
       Lifecycle!frameFile,
     Lifecycle!publishing
<1>3. CASE \E t \in Callers :
             \/ Lifecycle!Enter(t) \/ Lifecycle!CheckAppend(t)
             \/ Lifecycle!WriteFrame(t) \/ Lifecycle!CountFrame(t)
             \/ Lifecycle!CloseFrames(t)
             \/ Lifecycle!Hash(t) \/ Lifecycle!Publish(t)
  BY <1>3, EnterStep, CheckAppendStep, WriteFrameStep, CountFrameStep,
     CloseFramesStep, PublishStep
<1>4. CASE \E t \in Callers :
             \/ Lifecycle!Check(t) \/ Lifecycle!Abort(t)
                  \/ Lifecycle!Recorder(t)
             \/ Lifecycle!CloseRest(t)
             \/ Lifecycle!Closed(t) \/ Lifecycle!Raise(t) \/ Lifecycle!End(t)
  BY <1>4, EndingStep
<1> QED
  BY <1>1, <1>2, <1>3, <1>4 DEF Lifecycle!Next

\* FramesBounded and ManifestKept, for any number of threads and any limit.
THEOREM LifecycleCorrect ==
  Lifecycle!Spec => [](Lifecycle!FramesBounded /\ Lifecycle!ManifestKept)
<1>1. Lifecycle!Init => LifecycleInv
  <2> SUFFICES ASSUME Lifecycle!Init PROVE LifecycleInv
    OBVIOUS
  <2>1. LockInv /\ SealInv
    BY DEF Lifecycle!Init, LockInv, SealInv, Labels, Locked
  <2>2. CountInv
    <3>1. \A t \in Callers : pc[t] = "idle"
      BY DEF Lifecycle!Init
    <3>2. /\ frames = 0 /\ written = 0 /\ buffered = 0 /\ failures = 0
          /\ cut = FALSE /\ openFrames = TRUE
      BY DEF Lifecycle!Init
    <3>3. /\ written + buffered <= MaxFrames + failures
          /\ written + buffered <= frames + failures
          /\ frames <= MaxFrames /\ frames <= written
      BY <3>2, LifecycleConstants
    <3>4. \A t \in Callers : pc[t] # "write" /\ pc[t] # "count"
      BY <3>1
    <3> QED
      BY <3>2, <3>3, <3>4 DEF CountInv
  <2> QED
    BY <2>1, <2>2 DEF LifecycleInv
<1>2. LifecycleInv /\ [Lifecycle!Next]_Lifecycle!vars => LifecycleInv'
  BY LifecycleInductive
<1>3. LifecycleInv => Lifecycle!FramesBounded /\ Lifecycle!ManifestKept
  BY DEF LifecycleInv, CountInv, SealInv, Lifecycle!FramesBounded,
     Lifecycle!ManifestKept
<1> QED
  BY <1>1, <1>2, <1>3, PTL DEF Lifecycle!Spec

LEMMA LifecycleInParts == PartsSpec => [](FramesBounded /\ ManifestKept)
<1>1. PartsInit => Lifecycle!Init
  BY DEF PartsInit
<1>2. UNCHANGED lifecycleVars => UNCHANGED Lifecycle!vars
  BY DEF lifecycleVars, Lifecycle!vars, Lifecycle!files, Lifecycle!frameFile,
           Lifecycle!publishing
<1>3. [PartsNext]_<<which, continuityVars, supervisorVars, fileVars,
                    lifecycleVars, replayVars, selectionVars, lapVars>>
        => [Lifecycle!Next]_Lifecycle!vars
  BY <1>2, Zenon DEF PartsNext, ContinuityStep, SupervisorStep, FileStep,
     LifecycleStep, ReplayStep, SelectionStep, LapStep
<1>4. PartsSpec => Lifecycle!Spec
  BY <1>1, <1>3, PTL DEF PartsSpec, Lifecycle!Spec
<1>5. Lifecycle!FramesBounded /\ Lifecycle!ManifestKept
        => FramesBounded /\ ManifestKept
  BY DEF FramesBounded, ManifestKept
<1> QED
  BY <1>4, <1>5, LifecycleCorrect, PTL

\* max_frames bounds the frames of any number of threads.
THEOREM FramesAlwaysBounded == PartsSpec => []FramesBounded
BY LifecycleInParts, PTL

\* A manifest vouches for the frames as they are and stay.
THEOREM ManifestAlwaysKept == PartsSpec => []ManifestKept
BY LifecycleInParts, PTL

-----------------------------------------------------------------------------
(* The choice of a controller.  While the slots are read one by one, those   *)
(* found had a controller at some time, and those that had one all the time  *)
(* and have been read were found.                                            *)

ScanInv ==
  /\ phase \in {"idle", "scan", "resolve", "gate", "started", "ungated",
                "refused"}
  /\ requested \in Selection!Slots \cup {Selection!None}
  /\ phase \in {"idle", "scan"} => slot \in Selection!Slots
  /\ phase = "idle" => slot = 0 /\ found = {}
  /\ phase = "scan" => /\ always \subseteq connected /\ connected \subseteq ever
                       /\ \A s \in always : s < slot => s \in found
  /\ connected \subseteq Selection!Slots /\ ever \subseteq Selection!Slots
  /\ found \subseteq ever
  /\ phase = "resolve" => always \subseteq found

\* The gate has seen A down only if it is held, or has been.
GateInv ==
  /\ pressed \in BOOLEAN /\ armed \in BOOLEAN
  /\ phase \in {"idle", "scan", "resolve"} => ~armed
  /\ phase = "gate" => /\ pressed => moved = "held"
                       /\ ~pressed => moved \in {"none", "released"}
                       /\ armed => moved # "none"

SelectionInv == ScanInv /\ GateInv /\ Selection!StartJustified

LEMMA SelectionScan ==
  ScanInv /\ [Selection!Next]_Selection!vars => ScanInv'
<1> SUFFICES ASSUME ScanInv, [Selection!Next]_Selection!vars PROVE ScanInv'
  OBVIOUS
<1>0. Selection!Slots = 0..3 /\ Selection!None = 4
  BY DEF Selection!Slots, Selection!None
<1>1. CASE Selection!Plug
  <2>1. UNCHANGED <<phase, requested, slot, found>>
    BY <1>1 DEF Selection!Plug, Selection!choice
  <2>2. PICK s \in Selection!Slots :
          connected' = (connected \ {s}) \cup ({s} \ connected)
    BY <1>1 DEF Selection!Plug
  <2>3. connected' \subseteq Selection!Slots
    BY <2>2 DEF ScanInv
  <2>4. CASE phase = "scan"
    <3>1. always' = always \cap connected' /\ ever' = ever \cup connected'
      BY <1>1, <2>4 DEF Selection!Plug
    <3> QED
      BY <2>1, <2>3, <2>4, <3>1 DEF ScanInv
  <2>5. CASE phase # "scan"
    <3>1. always' = always /\ ever' = ever
      BY <1>1, <2>5 DEF Selection!Plug
    <3> QED
      BY <2>1, <2>3, <2>5, <3>1 DEF ScanInv
  <2> QED
    BY <2>4, <2>5
<1>2. CASE Selection!Button
  BY <1>2 DEF Selection!Button, Selection!choice, ScanInv
<1>3. CASE Selection!Resolve
  <2>1. /\ phase = "idle" /\ phase' = "scan"
             /\ UNCHANGED <<connected, slot, found>>
        /\ requested' \in Selection!Slots \cup {Selection!None}
        /\ always' = connected /\ ever' = connected
    BY <1>3 DEF Selection!Resolve
  <2> QED
    BY <1>0, <2>1 DEF ScanInv
<1>4. CASE Selection!ReadSlot
  <2>1. /\ phase = "scan" /\ UNCHANGED <<connected, requested, always, ever>>
        /\ found' = IF slot \in connected THEN found \cup {slot} ELSE found
        /\ slot' = slot + 1
        /\ phase' = IF slot = 3 THEN "resolve" ELSE "scan"
    BY <1>4 DEF Selection!ReadSlot, Selection!history
  <2>2. /\ always \subseteq connected /\ connected \subseteq ever
        /\ ever \subseteq 0..3 /\ slot \in 0..3 /\ found \subseteq ever
        /\ \A s \in always : s < slot => s \in found
    BY <1>0, <2>1 DEF ScanInv
  <2>3. found' \subseteq ever'
    BY <2>1, <2>2
  <2>4. \A s \in always' : s < slot' => s \in found'
    <3> SUFFICES ASSUME NEW s \in always, s < slot + 1 PROVE s \in found'
      BY <2>1
    <3>1. s \in 0..3 /\ s \in connected
      BY <2>2
    <3>2. s < slot \/ s = slot
      BY <2>2, <3>1
    <3> QED
      BY <2>1, <2>2, <3>1, <3>2
  <2>5. CASE slot = 3
    <3>1. always \subseteq 0..3 /\ slot' = 4
      BY <2>1, <2>2, <2>5
    <3>2. always' \subseteq found'
      BY <2>1, <2>4, <3>1
    <3>3. phase' = "resolve"
      BY <2>1, <2>5
    <3> QED
      BY <1>0, <2>1, <2>2, <2>3, <3>2, <3>3 DEF ScanInv
  <2>6. CASE slot # 3
    <3>1. phase' = "scan" /\ slot' \in 0..3
      BY <2>1, <2>2, <2>6
    <3> QED
      BY <1>0, <2>1, <2>2, <2>3, <2>4, <3>1 DEF ScanInv
  <2> QED
    BY <2>5, <2>6
<1>5. CASE Selection!Choose \/ Selection!Refuse
  BY <1>5 DEF Selection!Choose, Selection!Refuse, Selection!choice,
     Selection!history, ScanInv
<1>6. CASE Selection!Poll
  <2>1. /\ UNCHANGED <<connected, requested, slot, found, always, ever>>
        /\ phase = "gate" /\ phase' \in {"refused", "started", "gate"}
    BY <1>6 DEF Selection!Poll, Selection!choice, Selection!history
  <2> QED
    BY <2>1 DEF ScanInv
<1>7. CASE UNCHANGED Selection!vars
  BY <1>7 DEF Selection!vars, Selection!choice, Selection!history, ScanInv
<1> QED
  BY <1>1, <1>2, <1>3, <1>4, <1>5, <1>6, <1>7 DEF Selection!Next

LEMMA SelectionGate ==
  GateInv /\ [Selection!Next]_Selection!vars => GateInv'
<1> SUFFICES ASSUME GateInv, [Selection!Next]_Selection!vars PROVE GateInv'
  OBVIOUS
<1>1. CASE Selection!Plug \/ UNCHANGED Selection!vars
  <2>1. UNCHANGED <<pressed, phase, armed, moved>>
    BY <1>1 DEF Selection!Plug, Selection!vars, Selection!history
  <2> QED
    BY <2>1 DEF GateInv
<1>2. CASE Selection!Button
  <2>1. UNCHANGED <<phase, armed>> /\ phase = "gate"
    BY <1>2 DEF Selection!Button
  <2>2. pressed' \in BOOLEAN /\ (pressed' <=> ~pressed)
    BY <1>2, Zenon DEF Selection!Button
  <2>3. moved' = IF pressed' THEN "held"
                 ELSE IF moved = "held" THEN "released" ELSE moved
    BY <1>2 DEF Selection!Button
  <2>4. CASE pressed'
    <3>1. moved' = "held"
      BY <2>1, <2>2, <2>3, <2>4, Zenon DEF GateInv
    <3> QED
      BY <2>1, <2>2, <2>4, <3>1 DEF GateInv
  <2>5. CASE ~pressed'
    <3>1. moved = "held" /\ moved' = "released"
      BY <2>1, <2>2, <2>3, <2>5 DEF GateInv
    <3> QED
      BY <2>1, <2>2, <2>5, <3>1 DEF GateInv
  <2> QED
    BY <2>4, <2>5
<1>3. CASE Selection!Resolve \/ Selection!ReadSlot \/ Selection!Refuse
  <2>1. /\ UNCHANGED <<pressed, armed>> /\ phase \in {"idle", "scan", "resolve"}
        /\ phase' \in {"scan", "resolve", "refused"}
    BY <1>3 DEF Selection!Resolve, Selection!ReadSlot, Selection!Refuse
  <2> QED
    BY <2>1 DEF GateInv
<1>4. CASE Selection!Choose
  <2>1. /\ phase = "resolve" /\ phase' \in {"gate", "ungated"} /\ armed' = armed
        /\ pressed' \in BOOLEAN
        /\ moved' = IF pressed' THEN "held" ELSE "none"
    BY <1>4 DEF Selection!Choose
  <2> QED
    BY <2>1 DEF GateInv
<1>5. CASE Selection!Poll
  <2>1. /\ phase = "gate" /\ UNCHANGED <<pressed, moved>>
        /\ phase' \in {"refused", "started", "gate"}
    BY <1>5 DEF Selection!Poll, Selection!history
  <2>2. armed' \in BOOLEAN /\ (armed' => armed \/ pressed)
    BY <1>5, Zenon DEF Selection!Poll
  <2> QED
    BY <2>1, <2>2 DEF GateInv
<1> QED
  BY <1>1, <1>2, <1>3, <1>4, <1>5 DEF Selection!Next

\* A refusal is deserved: what was found tells of all the scan.
LEMMA RefusalDeserved ==
  ASSUME SelectionInv, Selection!Refuse
  PROVE  Selection!StartJustified'
<1>0. Selection!Slots = 0..3 /\ Selection!None = 4
  BY DEF Selection!Slots, Selection!None
<1>1. /\ phase = "resolve" /\ phase' = "refused" /\ Selection!Acceptable = {}
      /\ UNCHANGED <<requested, slot, found, always, ever>>
  BY DEF Selection!Refuse, Selection!choice, Selection!history
<1>2. /\ always \subseteq found /\ found \subseteq ever /\ ever \subseteq 0..3
      /\ requested \in (0..3) \cup {4}
  BY <1>0, <1>1 DEF SelectionInv, ScanInv
<1>3. CASE requested # 4
  <2>1. requested \notin found
    BY <1>0, <1>1, <1>2, <1>3 DEF Selection!Acceptable
  <2> QED
    BY <1>0, <1>1, <1>2, <1>3, <2>1 DEF Selection!StartJustified
<1>4. CASE requested = 4
  <2>1. \A s \in found : found # {s}
    BY <1>0, <1>1, <1>2, <1>4 DEF Selection!Acceptable
  <2>2. CASE found = {}
    BY <1>0, <1>1, <1>2, <1>4, <2>2 DEF Selection!StartJustified
  <2>3. CASE found # {}
    <3>1. PICK s, t \in found : s # t
      BY <2>1, <2>3
    <3>2. IsFiniteSet(ever)
      <4>1. IsFiniteSet(0..3)
        <5>1. 0 \in Int /\ 3 \in Int
          OBVIOUS
        <5> QED
          BY <5>1, FS_Interval, Zenon
      <4> QED
        BY <1>2, <4>1, FS_Subset, Zenon
    <3>3. {s, t} \in SUBSET ever
      BY <1>2
    <3>4. Cardinality({s, t}) = 2
      <4>1. IsFiniteSet({s}) /\ Cardinality({s}) = 1
        BY FS_Singleton
      <4>2. {s, t} = {s} \cup {t} /\ t \notin {s}
        BY <3>1
      <4> QED
        BY <4>1, <4>2, FS_AddElement
    <3>5. Cardinality(ever) \in Nat /\ Cardinality({s, t}) <= Cardinality(ever)
      BY <3>2, <3>3, FS_Subset, FS_CardinalityType
    <3>6. Selection!Cardinality(ever) = Cardinality(ever)
      BY Zenon DEF Selection!Cardinality, Cardinality
    <3>7. Selection!Cardinality(ever) > 1
      BY <3>4, <3>5, <3>6
    <3> QED
      BY <1>0, <1>1, <1>4, <3>7 DEF Selection!StartJustified
  <2> QED
    BY <2>2, <2>3
<1> QED
  BY <1>3, <1>4

LEMMA SelectionStart ==
  SelectionInv /\ [Selection!Next]_Selection!vars => Selection!StartJustified'
<1> SUFFICES ASSUME SelectionInv, [Selection!Next]_Selection!vars
             PROVE  Selection!StartJustified'
  OBVIOUS
<1>0. Selection!Slots = 0..3 /\ Selection!None = 4
  BY DEF Selection!Slots, Selection!None
<1>1. ScanInv /\ GateInv /\ Selection!StartJustified
  BY DEF SelectionInv
<1>2. CASE UNCHANGED <<phase, requested, slot, always, ever, moved>>
  BY <1>1, <1>2 DEF Selection!StartJustified
<1>3. CASE phase' \in {"scan", "resolve"}
  BY <1>3 DEF Selection!StartJustified
<1>4. CASE Selection!Plug
  <2>1. CASE phase = "scan"
    BY <1>3, <1>4, <2>1 DEF Selection!Plug
  <2>2. CASE phase # "scan"
    BY <1>2, <1>4, <2>2 DEF Selection!Plug, Selection!choice
  <2> QED
    BY <2>1, <2>2
<1>5. CASE Selection!Button
  <2>1. /\ UNCHANGED <<phase, requested, slot, always, ever>> /\ phase = "gate"
    BY <1>5 DEF Selection!Button, Selection!choice
  <2> QED
    BY <1>1, <2>1 DEF Selection!StartJustified
<1>6. CASE Selection!Resolve \/ Selection!ReadSlot
  BY <1>3, <1>6 DEF Selection!Resolve, Selection!ReadSlot
<1>7. CASE Selection!Choose
  <2>1. /\ phase = "resolve" /\ phase' \in {"gate", "ungated"}
        /\ slot' \in Selection!Acceptable
        /\ UNCHANGED <<requested, found, always, ever>>
    BY <1>7 DEF Selection!Choose
  <2>2. /\ slot' \in found
        /\ requested = slot' \/ (requested = 4 /\ found = {slot'})
    BY <1>0, <2>1 DEF Selection!Acceptable
  <2>3. always \subseteq found /\ found \subseteq ever /\ ever \subseteq 0..3
    BY <1>0, <1>1, <2>1 DEF ScanInv
  <2> QED
    BY <1>0, <2>1, <2>2, <2>3 DEF Selection!StartJustified
<1>8. CASE Selection!Refuse
  BY <1>8, RefusalDeserved
<1>9. CASE Selection!Poll
  <2>1. /\ UNCHANGED <<pressed, moved, requested, slot, always, ever>>
        /\ phase = "gate" /\ phase' \in {"refused", "started", "gate"}
    BY <1>9 DEF Selection!Poll, Selection!choice, Selection!history
  <2>2. phase' = "started" => armed /\ ~pressed
    BY <1>9 DEF Selection!Poll, Selection!Released
  <2>3. armed /\ ~pressed => moved = "released"
    BY <1>1, <2>1 DEF GateInv
  <2>4. slot \in ever /\ ever \subseteq 0..3
    BY <1>0, <1>1, <2>1 DEF ScanInv, Selection!StartJustified
  <2>5. slot # 4
    BY <2>4
  <2> QED
    BY <1>0, <1>1, <2>1, <2>2, <2>3, <2>5 DEF Selection!StartJustified
<1> QED
  BY <1>2, <1>4, <1>5, <1>6, <1>7, <1>8, <1>9
  DEF Selection!Next, Selection!vars, Selection!choice, Selection!history

\* A controller is chosen, refused and started from for a reason that held of
\* the scan, however the controllers come and go while it reads the slots.
THEOREM StartAlwaysJustified == PartsSpec => []StartJustified
<1>1. PartsInit => SelectionInv
  <2> SUFFICES ASSUME Selection!Init PROVE SelectionInv
    BY DEF PartsInit
  <2>1. ScanInv
    BY DEF Selection!Init, ScanInv, Selection!Slots, Selection!None
  <2>2. GateInv
    BY Zenon DEF Selection!Init, GateInv
  <2>3. Selection!StartJustified
    BY DEF Selection!Init, Selection!StartJustified
  <2> QED
    BY <2>1, <2>2, <2>3 DEF SelectionInv
<1>2. UNCHANGED selectionVars => UNCHANGED Selection!vars
  BY DEF selectionVars, Selection!vars, Selection!choice, Selection!history
<1>3. [PartsNext]_<<which, continuityVars, supervisorVars, fileVars,
                    lifecycleVars, replayVars, selectionVars, lapVars>>
        => [Selection!Next]_Selection!vars
  BY <1>2, Zenon DEF PartsNext, ContinuityStep, SupervisorStep, FileStep,
     LifecycleStep, ReplayStep, SelectionStep, LapStep
<1>4. SelectionInv /\ [Selection!Next]_Selection!vars => SelectionInv'
  BY SelectionScan, SelectionGate, SelectionStart DEF SelectionInv
<1> QED
  BY <1>1, <1>3, <1>4, PTL DEF PartsSpec, SelectionInv, StartJustified

-----------------------------------------------------------------------------
(* The tracker: arithmetic on a clock that wraps. *)

LEMMA Division ==
  ASSUME NEW m \in Nat \ {0}, NEW a \in Int
  PROVE  /\ a \div m \in Int /\ a % m \in 0..(m - 1)
         /\ a = m * (a \div m) + (a % m)
OBVIOUS

LEMMA Multiple ==
  ASSUME NEW m \in Nat \ {0}, NEW k \in Int
  PROVE  /\ m * k \in Int
         /\ k >= 1 => m * k >= m
         /\ k >= 2 => m * k >= 2 * m
         /\ k <= -1 => m * k <= -m
OBVIOUS

\* A quotient and a remainder are the only ones.
LEMMA DivisionUnique ==
  ASSUME NEW m \in Nat \ {0}, NEW q \in Int, NEW r \in 0..(m - 1),
         NEW a \in Int,
         a = m * q + r
  PROVE  a \div m = q /\ a % m = r
<1>1. /\ a \div m \in Int /\ a % m \in 0..(m - 1)
      /\ a = m * (a \div m) + (a % m)
  BY Division
<1>2. m * ((a \div m) - q) = r - (a % m)
  BY <1>1
<1>3. (a \div m) - q = 0
  BY <1>1, <1>2, Multiple
<1> QED
  BY <1>1, <1>3

\* Two times less than half the range apart: what their clock values tell.
LEMMA ModularDistance ==
  ASSUME NEW a \in Int, NEW b \in Int,
         a - b < Half, b - a <= Half
  PROVE  /\ a >= b => ((a % Modulus) - (b % Modulus)) % Modulus = a - b
         /\ a < b => ((a % Modulus) - (b % Modulus)) % Modulus = a - b + Modulus
         /\ a >= b /\ a % Modulus < b % Modulus
              => a \div Modulus = (b \div Modulus) + 1
         /\ a >= b /\ ~(a % Modulus < b % Modulus)
              => a \div Modulus = b \div Modulus
<1> DEFINE m == Modulus
           qa == a \div m
           qb == b \div m
           ra == a % m
           rb == b % m
<1>1. m \in Nat \ {0} /\ Half \in Nat /\ m = 2 * Half
  BY ClockAssumption DEF Half
<1>2. /\ qa \in Int /\ ra \in 0..(m - 1) /\ a = m * qa + ra
      /\ qb \in Int /\ rb \in 0..(m - 1) /\ b = m * qb + rb
  BY <1>1, Division
<1> HIDE DEF m, qa, qb, ra, rb
<1>3. ra - rb = m * (qb - qa) + (a - b)
  BY <1>1, <1>2
<1>4. a >= b => (ra - rb) % m = a - b
  <2> SUFFICES ASSUME a >= b PROVE (ra - rb) % m = a - b
    OBVIOUS
  <2>1. a - b \in 0..(m - 1) /\ qb - qa \in Int /\ ra - rb \in Int
    BY <1>1, <1>2
  <2> QED
    BY <1>1, <1>3, <2>1, DivisionUnique
<1>5. a < b => (ra - rb) % m = a - b + m
  <2> SUFFICES ASSUME a < b PROVE (ra - rb) % m = a - b + m
    OBVIOUS
  <2>1. ra - rb = m * (qb - qa - 1) + (a - b + m)
    BY <1>1, <1>2, <1>3
  <2>2. a - b + m \in 0..(m - 1) /\ qb - qa - 1 \in Int /\ ra - rb \in Int
    BY <1>1, <1>2
  <2> QED
    BY <1>1, <2>1, <2>2, DivisionUnique
<1>6. ASSUME a >= b PROVE (ra < rb => qa = qb + 1) /\ (~(ra < rb) => qa = qb)
  <2>1. m * (qa - qb) = (a - b) - (ra - rb) /\ qa - qb \in Int
    BY <1>1, <1>2, <1>3
  <2>2. m * (qa - qb) < 2 * m /\ m * (qa - qb) > -m
    BY <1>1, <1>2, <1>6, <2>1
  <2>3. qa - qb \in {0, 1}
    BY <1>1, <2>1, <2>2, Multiple
  <2>4. m * 0 = 0 /\ m * 1 = m
    BY <1>1
  <2>5. CASE qa - qb = 0
    BY <1>1, <1>2, <1>6, <2>1, <2>4, <2>5
  <2>6. CASE qa - qb = 1
    BY <1>1, <1>2, <1>6, <2>1, <2>4, <2>6
  <2> QED
    BY <2>3, <2>5, <2>6
<1> QED
  BY <1>4, <1>5, <1>6 DEF m, qa, qb, ra, rb

\* What is nearer to a multiple than half the divisor is rounded to it.
LEMMA RoundedNear ==
  ASSUME NEW k \in Int, NEW j \in Int, NEW d \in Nat \ {0},
         2 * j < d, -d < 2 * j
  PROVE  Rounded(d * k + j, d) = k
<1>1. CASE j >= 0
  <2>1. (d * k + j) \div d = k /\ (d * k + j) % d = j
    BY <1>1, DivisionUnique
  <2> QED
    BY <1>1, <2>1 DEF Rounded
<1>2. CASE j < 0
  <2> DEFINE n == d * k + j
             q == k - 1
             r == d + j
  <2>1. n = d * q + r /\ n \in Int /\ q \in Int /\ r \in 0..(d - 1)
    BY <1>2
  <2>2. 2 * r > d /\ q + 1 = k
    BY <1>2
  <2> HIDE DEF n, q, r
  <2>3. n \div d = q /\ n % d = r
    BY <2>1, DivisionUnique
  <2>4. Rounded(n, d) = k
    BY <2>2, <2>3 DEF Rounded
  <2> QED
    BY <2>4 DEF n
<1> QED
  BY <1>1, <1>2

\* The estimate for k intervals, give or take the jitter, is k - 1 packets.
LEMMA MissingIs ==
  ASSUME NEW k \in Nat \ {0}, NEW j \in (-Jitter)..Jitter
  PROVE  MissingWithin(Interval * k + j) = k - 1
<1>1. /\ Interval \in Nat \ {0} /\ Tolerance \in Nat /\ Jitter \in Nat
      /\ Jitter + Tolerance < Interval /\ 2 * Jitter < Interval
  BY ClockAssumption, JitterAssumption
<1>2. Rounded(Interval * k + j, Interval) = k
  <2>1. k \in Int /\ j \in Int /\ 2 * j < Interval /\ -Interval < 2 * j
    BY <1>1
  <2> QED
    BY <1>1, <2>1, RoundedNear
<1>3. k >= 2 => Interval * k + j > Interval + Tolerance
  BY <1>1, Multiple
<1> QED
  BY <1>1, <1>2, <1>3 DEF MissingWithin

-----------------------------------------------------------------------------
(* The inductive invariant: the sender stamps each packet in its interval;    *)
(* the tracker's baseline is the clock of the newest packet received, and     *)
(* nothing has been counted since the last reset while there is none.         *)

SendingInv ==
  /\ Cardinality(Ticks) \in Nat \ {0}
  /\ Ticks = 0..(Cardinality(Ticks) - 1)
  /\ \A t \in Ticks : /\ sent[t] \in Int
                      /\ sent[t] - Phase - Interval * t \in 0..Jitter

CountersInv ==
  /\ outOfOrder \in Nat /\ wraps \in Nat /\ missing \in Nat
  /\ base \in [outOfOrder : Nat, wraps : Nat, missing : Nat]
  /\ base.outOfOrder <= outOfOrder

NothingReceived ==
  /\ newest = NoPacket /\ previous = NoPacket /\ seen = {}
  /\ base = [outOfOrder |-> outOfOrder, wraps |-> wraps, missing |-> missing]

Baseline ==
  /\ newest \in Ticks /\ first \in Ticks /\ first <= newest
  /\ newest \in seen /\ \A t \in seen : t \in Ticks /\ t <= newest
  /\ previous = Clock(newest)

ContinuityInv ==
  /\ SendingInv
  /\ CountersInv
  /\ NothingReceived \/ Baseline
  /\ WrapsCounted
  /\ LossEstimated

\* Two packets are as far apart as their ticks, give or take the jitter; so
\* they leave in the order of their ticks.
LEMMA TicksApart ==
  ASSUME SendingInv, NEW t \in Ticks, NEW u \in Ticks
  PROVE  /\ sent[t] \in Int /\ sent[u] \in Int /\ t \in Int /\ u \in Int
         /\ (sent[u] - sent[t]) - Interval * (u - t) \in (-Jitter)..Jitter
         /\ t < u => sent[t] < sent[u]
<1>1. t \in Nat /\ u \in Nat
  BY DEF SendingInv
<1>2. /\ sent[t] \in Int /\ sent[u] \in Int
      /\ sent[t] - Phase - Interval * t \in 0..Jitter
      /\ sent[u] - Phase - Interval * u \in 0..Jitter
  BY DEF SendingInv
<1>3. /\ Interval \in Nat \ {0} /\ Jitter \in Nat /\ 2 * Jitter < Interval
      /\ Phase \in Nat
  BY ClockAssumption, JitterAssumption
<1>4. /\ Interval * t \in Int /\ Interval * u \in Int
      /\ Interval * (u - t) = Interval * u - Interval * t
  BY <1>1, <1>3
<1>5. (sent[u] - sent[t]) - Interval * (u - t) \in (-Jitter)..Jitter
  BY <1>2, <1>3, <1>4
<1>6. t < u => Interval * (u - t) >= Interval
  BY <1>1, <1>3, Multiple
<1>7. t < u => sent[t] < sent[u]
  BY <1>2, <1>3, <1>4, <1>5, <1>6
<1> QED
  BY <1>1, <1>2, <1>5, <1>7

\* What the tracker takes a packet for is what it is.
LEMMA KindIsRight ==
  ASSUME SendingInv, Baseline, NEW tick \in Ticks, Near(tick)
  PROVE  /\ tick = newest => KindOf(Clock(tick)) = "duplicate"
         /\ tick < newest => KindOf(Clock(tick)) = "out_of_order"
         /\ tick > newest =>
              /\ Delta(Clock(tick)) = sent[tick] - sent[newest]
              /\ \/ /\ KindOf(Clock(tick)) = "wrap"
                    /\ sent[tick] \div Modulus = (sent[newest] \div Modulus) + 1
                 \/ /\ KindOf(Clock(tick)) = "forward"
                    /\ sent[tick] \div Modulus = sent[newest] \div Modulus
<1> DEFINE a == sent[tick]
           b == sent[newest]
<1>1. /\ a \in Int /\ b \in Int
      /\ tick \in Int /\ newest \in Int
      /\ tick < newest => a < b
      /\ newest < tick => b < a
  BY TicksApart DEF Baseline
<1>2. Modulus \in Nat \ {0} /\ Half \in Nat /\ Modulus = 2 * Half
  BY ClockAssumption DEF Half
<1>3. /\ Clock(tick) = a % Modulus /\ previous = b % Modulus
      /\ a % Modulus \in Nat /\ b % Modulus \in Nat
  <2>1. a % Modulus \in 0..(Modulus - 1) /\ b % Modulus \in 0..(Modulus - 1)
    BY <1>1, <1>2, Division
  <2>2. Clock(tick) = a % Modulus /\ previous = b % Modulus
    BY Zenon DEF Baseline, Clock
  <2> HIDE DEF a, b
  <2> QED
    BY <1>2, <2>1, <2>2
<1>4. previous # NoPacket
  BY <1>3 DEF NoPacket
<1>5. newest # NoPacket
  BY DEF Baseline, SendingInv, NoPacket
<1>6. a - b < Half /\ b - a <= Half
  BY <1>5 DEF Near
<1> DEFINE delta == Delta(Clock(tick))
<1>7. delta = ((a % Modulus) - (b % Modulus)) % Modulus
  BY <1>3 DEF Delta
<1> HIDE DEF a, b, delta
<1>8. CASE tick = newest
  <2>1. a = b
    BY <1>8 DEF a, b
  <2>2. delta = 0 /\ ~(delta >= Half)
    BY <1>1, <1>2, <1>6, <1>7, <2>1, ModularDistance
  <2> QED
    BY <1>1, <1>4, <1>8, <2>2 DEF KindOf, delta
<1>9. CASE tick < newest
  <2>1. delta = a - b + Modulus
    BY <1>1, <1>2, <1>6, <1>7, <1>9, ModularDistance
  <2>2. delta >= Half /\ delta # 0
    BY <1>1, <1>2, <1>6, <1>9, <2>1
  <2> QED
    BY <1>1, <1>4, <1>9, <2>2 DEF KindOf, delta
<1>10. CASE tick > newest
  <2>1. delta = a - b
    BY <1>1, <1>6, <1>7, <1>10, ModularDistance
  <2>2. delta # 0 /\ ~(delta >= Half)
    BY <1>1, <1>2, <1>6, <1>10, <2>1
  <2>3. KindOf(Clock(tick)) = IF Clock(tick) < previous THEN "wrap"
                                                        ELSE "forward"
    BY <1>4, <2>2 DEF KindOf, delta
  <2>4. IF Clock(tick) < previous THEN a \div Modulus = (b \div Modulus) + 1
                                  ELSE a \div Modulus = b \div Modulus
    BY <1>1, <1>3, <1>6, <1>10, ModularDistance
  <2> QED
    BY <1>1, <1>10, <2>1, <2>3, <2>4 DEF a, b, delta
<1> QED
  BY <1>1, <1>8, <1>9, <1>10

\* The packets lost between two received ones are finitely many.
LEMMA LostFinite ==
  ASSUME SendingInv, Baseline
  PROVE  IsFiniteSet(Lost) /\ Cardinality(Lost) \in Nat
<1>1. first \in Int /\ newest \in Int
  BY DEF SendingInv, Baseline
<1>2. IsFiniteSet(first..newest)
  BY <1>1, FS_Interval
<1>3. IsFiniteSet(Lost)
  BY <1>2, FS_Subset DEF Lost
<1> QED
  BY <1>3, FS_CardinalityType

LEMMA SendStep ==
  ASSUME ContinuityInv, Send
  PROVE  ContinuityInv'
<1> DEFINE next == Cardinality(Ticks)
<1>1. next \in Nat \ {0} /\ Ticks = 0..(next - 1)
  BY DEF ContinuityInv, SendingInv
<1>2. PICK delay \in 0..Jitter :
        sent' = [t \in Ticks \cup {next} |->
                   IF t = next THEN Phase + next * Interval + delay ELSE sent[t]]
  BY DEF Send
<1>3. /\ previous' = previous /\ outOfOrder' = outOfOrder /\ wraps' = wraps
      /\ missing' = missing /\ seen' = seen /\ first' = first
      /\ newest' = newest /\ base' = base
  BY DEF Send, counters, history
<1> HIDE DEF next
<1>4. /\ Ticks' = Ticks \cup {next} /\ \A t \in Ticks : sent'[t] = sent[t]
      /\ sent'[next] = Phase + next * Interval + delay
  BY <1>1, <1>2 DEF Ticks
<1>5. SendingInv'
  <2>1. Ticks' = 0..next
    BY <1>1, <1>4
  <2>2. Cardinality(Ticks') = next + 1
    <3>1. 0 \in Int /\ next \in Int
      BY <1>1
    <3>2. Cardinality(0..next) = IF 0 > next THEN 0 ELSE next - 0 + 1
      BY <3>1, FS_Interval, Zenon
    <3> QED
      BY <1>1, <2>1, <3>2
  <2>3. ASSUME NEW t \in Ticks'
        PROVE  sent'[t] \in Int /\ sent'[t] - Phase - Interval * t \in 0..Jitter
    <3>1. CASE t = next
      <4>1. /\ Phase \in Nat /\ Interval \in Nat /\ Jitter \in Nat
            /\ next * Interval = Interval * next /\ Interval * next \in Nat
        BY <1>1, ClockAssumption, JitterAssumption
      <4> QED
        BY <1>4, <3>1, <4>1
    <3>2. CASE t \in Ticks
      BY <1>4, <3>2 DEF ContinuityInv, SendingInv
    <3> QED
      BY <1>4, <2>3, <3>1, <3>2
  <2>4. Cardinality(Ticks') \in Nat \ {0}
        /\ Ticks' = 0..(Cardinality(Ticks') - 1)
    BY <1>1, <2>1, <2>2
  <2> QED
    BY <2>3, <2>4 DEF SendingInv
<1>6. CountersInv'
  BY <1>3 DEF ContinuityInv, CountersInv
<1>7. NothingReceived => NothingReceived'
  BY <1>3 DEF NothingReceived
<1>8. Baseline => Baseline'
  BY <1>3, <1>4 DEF Baseline, Clock
<1>9. WrapsCounted'
  <2>1. newest # NoPacket => newest \in Ticks /\ first \in Ticks
    BY DEF ContinuityInv, NothingReceived, Baseline
  <2> QED
    BY <1>3, <1>4, <2>1 DEF ContinuityInv, WrapsCounted
<1>10. LossEstimated'
  BY <1>3 DEF ContinuityInv, LossEstimated, Lost
<1> QED
  BY <1>5, <1>6, <1>7, <1>8, <1>9, <1>10 DEF ContinuityInv

LEMMA ResetStep ==
  ASSUME ContinuityInv, Reset
  PROVE  ContinuityInv'
<1>1. /\ sent' = sent /\ outOfOrder' = outOfOrder /\ wraps' = wraps
      /\ missing' = missing /\ previous' = NoPacket /\ newest' = NoPacket
      /\ seen' = {}
      /\ base' = [outOfOrder |-> outOfOrder, wraps |-> wraps,
           missing |-> missing]
  BY DEF Reset, counters
<1>2. SendingInv'
  BY <1>1 DEF ContinuityInv, SendingInv, Ticks
<1>3. CountersInv'
  BY <1>1 DEF ContinuityInv, CountersInv
<1>4. NothingReceived'
  BY <1>1 DEF NothingReceived, NoPacket
<1>5. WrapsCounted' /\ LossEstimated'
  BY <1>1 DEF WrapsCounted, LossEstimated, NoPacket
<1> QED
  BY <1>2, <1>3, <1>4, <1>5 DEF ContinuityInv

\* The first packet after a reset counts nothing.
LEMMA FirstStep ==
  ASSUME ContinuityInv, NothingReceived, NEW tick \in Ticks,
         Update(Clock(tick)),
         seen' = seen \cup {tick}, newest = NoPacket => first' = tick,
         newest' = IF tick > newest THEN tick ELSE newest,
         UNCHANGED <<sent, base>>
  PROVE  ContinuityInv'
<1>1. tick \in Nat /\ newest = -1
  BY DEF ContinuityInv, SendingInv, NothingReceived, NoPacket
<1>2. KindOf(Clock(tick)) = "first"
  BY DEF KindOf, NothingReceived
<1>3. /\ outOfOrder' = outOfOrder /\ wraps' = wraps /\ missing' = missing
      /\ previous' = Clock(tick)
  BY <1>2 DEF Update
<1>4. first' = tick /\ newest' = tick /\ seen' = {tick}
  BY <1>1 DEF NothingReceived, NoPacket
<1>5. SendingInv'
  BY DEF ContinuityInv, SendingInv, Ticks
<1>6. CountersInv'
  BY <1>3 DEF ContinuityInv, CountersInv
<1>7. Baseline'
  <2>1. previous' = Clock(tick)'
    BY <1>3 DEF Clock
  <2>2. Ticks' = Ticks
    BY DEF Ticks
  <2> QED
    BY <1>1, <1>4, <2>1, <2>2 DEF Baseline
<1>8. /\ wraps' - base'.wraps = 0 /\ missing' - base'.missing = 0
  BY <1>3 DEF NothingReceived, ContinuityInv, CountersInv
<1>9. WrapsCounted'
  <2>1. sent[tick] \div Modulus \in Int
    BY ClockAssumption, Division DEF ContinuityInv, SendingInv
  <2> QED
    BY <1>4, <1>8, <2>1 DEF WrapsCounted
<1>10. LossEstimated'
  <2>1. Lost' = {}
    BY <1>1, <1>4 DEF Lost
  <2>2. Cardinality(Lost') = 0
    BY <2>1, FS_EmptySet
  <2> QED
    BY <1>8, <2>2 DEF LossEstimated
<1> QED
  BY <1>5, <1>6, <1>7, <1>9, <1>10 DEF ContinuityInv

\* A newer packet: the ticks between it and the newest one are those that the
\* estimate adds.
LEMMA NewerStep ==
  ASSUME ContinuityInv, Baseline, NEW tick \in Ticks, Near(tick), tick > newest,
         Update(Clock(tick)), seen' = seen \cup {tick}, first' = first,
         newest' = tick, UNCHANGED <<sent, base>>
  PROVE  ContinuityInv'
<1>1. /\ tick \in Nat /\ newest \in Nat /\ first \in Nat
      /\ sent[tick] \in Int /\ sent[newest] \in Int /\ sent[first] \in Int
  BY DEF ContinuityInv, SendingInv, Baseline
<1> DEFINE k == tick - newest
           j == (sent[tick] - sent[newest]) - Interval * k
<1>2. k \in Nat \ {0} /\ j \in (-Jitter)..Jitter
  BY <1>1, TicksApart DEF ContinuityInv, Baseline
<1>3. MissingWithin(Delta(Clock(tick))) = k - 1
  <2>1. Delta(Clock(tick)) = sent[tick] - sent[newest]
    BY KindIsRight DEF ContinuityInv
  <2>2. Interval * k + j = sent[tick] - sent[newest]
    <3>1. Interval * k \in Int
      BY <1>2, ClockAssumption
    <3> QED
      BY <1>1, <3>1
  <2> HIDE DEF j, k
  <2> QED
    BY <1>2, <2>1, <2>2, MissingIs
<1>4. \/ /\ KindOf(Clock(tick)) = "wrap" /\ wraps' = wraps + 1
         /\ sent[tick] \div Modulus = (sent[newest] \div Modulus) + 1
      \/ /\ KindOf(Clock(tick)) = "forward" /\ wraps' = wraps
         /\ sent[tick] \div Modulus = sent[newest] \div Modulus
  BY KindIsRight DEF ContinuityInv, Update
<1>5. /\ outOfOrder' = outOfOrder /\ previous' = Clock(tick)
      /\ missing' = missing + (k - 1)
  BY <1>3, <1>4, Zenon DEF Update
<1>6. SendingInv'
  BY DEF ContinuityInv, SendingInv, Ticks
<1>7. CountersInv'
  <2>1. wraps' \in Nat
    BY <1>4 DEF ContinuityInv, CountersInv
  <2> QED
    BY <1>2, <1>5, <2>1 DEF ContinuityInv, CountersInv
<1>8. Baseline'
  <2>1. previous' = Clock(tick)'
    BY <1>5 DEF Clock
  <2>2. Ticks' = Ticks
    BY DEF Ticks
  <2>3. \A t \in seen' : t \in Ticks /\ t <= tick
    BY <1>1 DEF Baseline, ContinuityInv, SendingInv
  <2> QED
    BY <1>1, <2>1, <2>2, <2>3 DEF Baseline
<1>9. newest # NoPacket /\ newest' # NoPacket
  BY <1>1 DEF NoPacket
<1>10. WrapsCounted'
  <2>1. /\ sent[tick] \div Modulus \in Int /\ sent[newest] \div Modulus \in Int
        /\ sent[first] \div Modulus \in Int
    BY <1>1, ClockAssumption, Division
  <2>2. wraps - base.wraps
        = (sent[newest] \div Modulus) - (sent[first] \div Modulus)
    BY <1>9 DEF ContinuityInv, WrapsCounted
  <2>3. wraps \in Nat /\ base.wraps \in Nat
    BY DEF ContinuityInv, CountersInv
  <2>4. wraps' - base.wraps
        = (sent[tick] \div Modulus) - (sent[first] \div Modulus)
    BY <1>4, <2>1, <2>2, <2>3
  <2> QED
    BY <2>4 DEF WrapsCounted
<1>11. LossEstimated'
  <2> DEFINE added == (newest + 1)..(tick - 1)
  <2>1. Lost' = Lost \cup added /\ Lost \cap added = {}
    BY <1>1 DEF Lost, Baseline, ContinuityInv, SendingInv
  <2>2. IsFiniteSet(added) /\ Cardinality(added) = k - 1
    <3>1. newest + 1 \in Int /\ tick - 1 \in Int
      BY <1>1
    <3>2. /\ IsFiniteSet(added)
          /\ Cardinality(added) = IF newest + 1 > tick - 1 THEN 0
                                  ELSE (tick - 1) - (newest + 1) + 1
      BY <3>1, FS_Interval, Zenon
    <3> QED
      BY <1>1, <3>2
  <2>3. IsFiniteSet(Lost) /\ Cardinality(Lost) \in Nat
    BY LostFinite DEF ContinuityInv
  <2> HIDE DEF added
  <2>4. Cardinality(Lost') = Cardinality(Lost) + (k - 1)
    <3>1. Cardinality(Lost \cup added)
            = Cardinality(Lost) + Cardinality(added) - Cardinality(Lost \cap added)
      BY <2>2, <2>3, FS_Union
    <3>2. Cardinality({}) = 0
      BY FS_EmptySet
    <3>3. k \in Nat
      BY <1>2
    <3> HIDE DEF k
    <3>4. Cardinality(Lost') = Cardinality(Lost) + Cardinality(added)
                                 - Cardinality({})
      BY <2>1, <3>1, Zenon
    <3> QED
      BY <2>2, <2>3, <3>2, <3>3, <3>4
  <2>5. /\ missing - base.missing >= Cardinality(Lost)
        /\ outOfOrder = base.outOfOrder
             => missing - base.missing = Cardinality(Lost)
    BY <1>9 DEF ContinuityInv, LossEstimated
  <2>6. missing \in Nat /\ base.missing \in Nat
    BY DEF ContinuityInv, CountersInv
  <2> HIDE DEF k
  <2> QED
    BY <1>2, <1>5, <2>3, <2>4, <2>5, <2>6 DEF LossEstimated
<1> QED
  BY <1>6, <1>7, <1>8, <1>10, <1>11 DEF ContinuityInv

\* A packet that is not newer leaves the baseline; when it is no duplicate,
\* one that was counted as missing may have come.
LEMMA OlderStep ==
  ASSUME ContinuityInv, Baseline, NEW tick \in Ticks, Near(tick),
         ~(tick > newest),
         Update(Clock(tick)), seen' = seen \cup {tick}, first' = first,
         newest' = newest, UNCHANGED <<sent, base>>
  PROVE  ContinuityInv'
<1>1. tick \in Nat /\ newest \in Nat /\ first \in Nat
  BY DEF ContinuityInv, SendingInv, Baseline
<1>2. \/ KindOf(Clock(tick)) = "duplicate" /\ tick = newest
      \/ KindOf(Clock(tick)) = "out_of_order" /\ tick < newest
  BY <1>1, KindIsRight DEF ContinuityInv
<1>3. wraps' = wraps /\ missing' = missing /\ previous' = previous
  BY <1>2 DEF Update
<1>4. \/ tick = newest /\ outOfOrder' = outOfOrder
      \/ tick < newest /\ outOfOrder' = outOfOrder + 1
  BY <1>2 DEF Update
<1>5. SendingInv'
  BY DEF ContinuityInv, SendingInv, Ticks
<1>6. CountersInv'
  BY <1>3, <1>4 DEF ContinuityInv, CountersInv
<1>7. Baseline'
  <2>1. previous' = Clock(newest)'
    BY <1>3 DEF Clock, Baseline
  <2>2. Ticks' = Ticks
    BY DEF Ticks
  <2>3. \A t \in seen' : t \in Ticks /\ t <= newest
    BY <1>1 DEF Baseline
  <2> QED
    BY <2>1, <2>2, <2>3 DEF Baseline
<1>8. newest # NoPacket
  BY <1>1 DEF NoPacket
<1>9. WrapsCounted'
  BY <1>3 DEF ContinuityInv, WrapsCounted
<1>10. LossEstimated'
  <2>1. Lost' = Lost \ {tick}
    BY DEF Lost
  <2>2. IsFiniteSet(Lost) /\ Cardinality(Lost) \in Nat
    BY LostFinite DEF ContinuityInv
  <2>3. /\ missing - base.missing >= Cardinality(Lost)
        /\ outOfOrder = base.outOfOrder
             => missing - base.missing = Cardinality(Lost)
    BY <1>8 DEF ContinuityInv, LossEstimated
  <2>4. /\ missing \in Nat /\ outOfOrder \in Nat
        /\ base.missing \in Nat /\ base.outOfOrder \in Nat
        /\ base.outOfOrder <= outOfOrder
    BY DEF ContinuityInv, CountersInv
  <2>5. CASE tick = newest
    <3>1. Lost' = Lost
      BY <2>1, <2>5 DEF Lost, Baseline
    <3>2. outOfOrder' = outOfOrder
      BY <1>1, <1>4, <2>5
    <3> QED
      BY <1>3, <1>8, <2>3, <3>1, <3>2 DEF LossEstimated
  <2>6. CASE tick < newest
    <3>1. Cardinality(Lost') <= Cardinality(Lost) /\ Cardinality(Lost') \in Nat
      BY <2>1, <2>2, FS_Subset, FS_CardinalityType
    <3>2. outOfOrder' # base.outOfOrder
      BY <1>1, <1>4, <2>4, <2>6
    <3>3. missing - base.missing >= Cardinality(Lost')
      BY <2>2, <2>3, <2>4, <3>1
    <3> QED
      BY <1>3, <3>2, <3>3 DEF LossEstimated
  <2> QED
    BY <1>2, <2>5, <2>6
<1> QED
  BY <1>5, <1>6, <1>7, <1>9, <1>10 DEF ContinuityInv

\* The inductive invariant of the tracker and its sender.
THEOREM ContinuityInvariance == Spec => []ContinuityInv
<1>1. Init => ContinuityInv
  <2> SUFFICES ASSUME Init PROVE ContinuityInv
    OBVIOUS
  <2>1. SendingInv
    <3>1. Ticks = {0} /\ sent[0] = Phase
      BY DEF Init, Ticks
    <3>2. Cardinality(Ticks) = 1
      BY <3>1, FS_Singleton
    <3>3. Phase \in Nat /\ Interval * 0 = 0 /\ Jitter \in Nat
      BY ClockAssumption, JitterAssumption
    <3>4. \A t \in Ticks : /\ sent[t] \in Int
                          /\ sent[t] - Phase - Interval * t \in 0..Jitter
      BY <3>1, <3>3
    <3> QED
      BY <3>1, <3>2, <3>4 DEF SendingInv
  <2>2. CountersInv /\ NothingReceived
    BY DEF Init, CountersInv, NothingReceived
  <2>3. WrapsCounted /\ LossEstimated
    BY DEF Init, WrapsCounted, LossEstimated
  <2> QED
    BY <2>1, <2>2, <2>3 DEF ContinuityInv
<1>2. ContinuityInv /\ [Next]_vars => ContinuityInv'
  <2> SUFFICES ASSUME ContinuityInv, [Next]_vars PROVE ContinuityInv'
    OBVIOUS
  <2>1. CASE Receive
    <3>1. PICK tick \in Ticks :
            /\ Near(tick)
            /\ Update(Clock(tick))
            /\ seen' = seen \cup {tick}
            /\ first' = IF newest = NoPacket THEN tick ELSE first
            /\ newest' = IF tick > newest THEN tick ELSE newest
      BY <2>1 DEF Receive
    <3>2. UNCHANGED <<sent, base>>
      BY <2>1 DEF Receive
    <3>3. CASE NothingReceived
      BY <3>1, <3>2, <3>3, FirstStep
    <3>4. CASE Baseline
      <4>1. newest # NoPacket
        BY <3>4 DEF ContinuityInv, SendingInv, Baseline, NoPacket
      <4> QED
        BY <3>1, <3>2, <3>4, <4>1, NewerStep, OlderStep
    <3> QED
      BY <3>3, <3>4 DEF ContinuityInv
  <2>2. CASE UNCHANGED vars
    BY <2>2 DEF vars, counters, history, ContinuityInv, SendingInv, CountersInv,
       NothingReceived, Baseline, WrapsCounted, LossEstimated, Lost, Clock,
       Ticks
  <2> QED
    BY <2>1, <2>2, SendStep, ResetStep DEF Next
<1> QED
  BY <1>1, <1>2, PTL DEF Spec

LEMMA ContinuityInParts == PartsSpec => []ContinuityInv
<1>1. PartsInit => Init
  BY DEF PartsInit
<1>2. UNCHANGED continuityVars => UNCHANGED vars
  BY DEF continuityVars
<1>3. [PartsNext]_<<which, continuityVars, supervisorVars, fileVars,
                    lifecycleVars, replayVars, selectionVars, lapVars>>
        => [Next]_vars
  BY <1>2, Zenon DEF PartsNext, ContinuityStep, SupervisorStep, FileStep,
     LifecycleStep, ReplayStep, SelectionStep, LapStep
<1>4. PartsSpec => Spec
  BY <1>1, <1>3, PTL DEF PartsSpec, Spec
<1> QED
  BY <1>4, ContinuityInvariance, PTL

\* The wraps counted are the sender's, in whatever order packets arrive, for any
\* modulus of the clock, interval and jitter.
THEOREM WrapsAlwaysCounted == PartsSpec => []WrapsCounted
<1>1. ContinuityInv => WrapsCounted
  BY DEF ContinuityInv
<1> QED
  BY <1>1, ContinuityInParts, PTL

\* The estimate misses no lost packet, and is exact while none came late.
THEOREM LossAlwaysEstimated == PartsSpec => []LossEstimated
<1>1. ContinuityInv => LossEstimated
  BY DEF ContinuityInv
<1> QED
  BY <1>1, ContinuityInParts, PTL

-----------------------------------------------------------------------------
(* The replay: a merge that reads one record of every stream ahead.          *)

Items(q) == {q[i] : i \in DOMAIN q}
Distinct(q) == \A i, j \in DOMAIN q : q[i] = q[j] => i = j

\* Event e does not come behind event f.
UpTo(e, f) == \/ Replay!Before(e, f)
              \/ e.stream = f.stream /\ e.index <= f.index

EventsOf(s) == {i \in DOMAIN out : out[i].stream = s}

ReplayTypes ==
  /\ \A s \in Replay!Streams : session[s] \in Seq(Int)
  /\ read \in [Replay!Streams -> Nat]
  /\ heap \subseteq Replay!Streams
  /\ todo \in Seq(Replay!Streams)
  /\ out \in Seq([stream : Replay!Streams, index : Nat])
  /\ ended \in {"no", "done", "raised"}

\* A stream waits with a record, is to be read, or has been read to its end.
TurnInv ==
  /\ Distinct(todo) /\ Items(todo) \cap heap = {}
  /\ ended # "raised" =>
       \A s \in Replay!Streams :
         s \in heap \cup Items(todo) \/ read[s] = Len(session[s])
  /\ ended = "done" => heap \cup Items(todo) = {}

\* What has been read was accepted, and was given out but for what waits.
ReadInv ==
  \A s \in Replay!Streams :
    /\ read[s] <= Len(session[s])
    /\ \A i \in 1..read[s] : Replay!Good(s, i)
    /\ IsFiniteSet(EventsOf(s))
    /\ read[s] = Cardinality(EventsOf(s)) + (IF s \in heap THEN 1 ELSE 0)

\* What has been given out is in front of what waits and, because a stream does
\* not go back, of what is read next.
OrderInv ==
  \A i \in DOMAIN out :
    /\ 1 <= out[i].index
    /\ out[i].index <= Cardinality(EventsOf(out[i].stream))
    /\ \A s \in heap \cup Items(todo) :
         read[s] > 0 /\ UpTo(out[i], Replay!Event(s, read[s]))

ReplayInv == /\ ReplayTypes /\ TurnInv /\ ReadInv /\ OrderInv
             /\ Replay!ReplayFaithful

LEMMA ReplayConstants == ReplayTime \in Nat /\ ReplayRecords \in Nat
BY BoundsAssumption

LEMMA StreamsAre ==
  /\ Replay!Streams = {"controller", "frame", "health", "telemetry"}
  /\ Replay!Opened \in Seq(Replay!Streams)
       /\ Items(Replay!Opened) = Replay!Streams /\ Distinct(Replay!Opened)
<1>1. Replay!Streams = {"controller", "frame", "health", "telemetry"}
  BY DEF Replay!Streams, Replay!Named, Replay!ToSet
<1>2. Replay!Opened \in Seq(Replay!Streams) /\ DOMAIN Replay!Opened = 1..4
  BY <1>1 DEF Replay!Opened
<1>3. Items(Replay!Opened) = Replay!Streams
  BY <1>1, <1>2 DEF Replay!Opened, Items
<1>4. Distinct(Replay!Opened)
  BY <1>2 DEF Replay!Opened, Distinct
<1> QED
  BY <1>1, <1>2, <1>3, <1>4

LEMMA TailItems ==
  ASSUME NEW S, NEW q \in Seq(S), q # <<>>, Distinct(q)
  PROVE  /\ Tail(q) \in Seq(S) /\ Distinct(Tail(q)) /\ Head(q) \in S
         /\ Items(q) = Items(Tail(q)) \cup {Head(q)}
         /\ Head(q) \notin Items(Tail(q))
<1>1. PICK n : n = Len(q)
  OBVIOUS
<1>2. /\ n \in Nat /\ n > 0 /\ DOMAIN q = 1..n /\ Head(q) = q[1] /\ q[1] \in S
      /\ Tail(q) \in Seq(S) /\ DOMAIN Tail(q) = 1..(n - 1)
      /\ \A i \in 1..(n - 1) : Tail(q)[i] = q[i + 1]
  BY <1>1, EmptySeq
<1>3. \A i, j \in 1..n : q[i] = q[j] => i = j
  BY <1>2 DEF Distinct
<1>4. Distinct(Tail(q))
  <2> SUFFICES ASSUME NEW i \in 1..(n - 1), NEW j \in 1..(n - 1),
                      Tail(q)[i] = Tail(q)[j]
               PROVE  i = j
    BY <1>2 DEF Distinct
  <2>1. i + 1 \in 1..n /\ j + 1 \in 1..n /\ q[i + 1] = q[j + 1]
    BY <1>2
  <2>2. i + 1 = j + 1
    BY <1>3, <2>1
  <2> QED
    BY <1>2, <2>2
<1>5. Head(q) \notin Items(Tail(q))
  <2> SUFFICES ASSUME NEW i \in 1..(n - 1), Tail(q)[i] = q[1]
               PROVE  FALSE
    BY <1>2 DEF Items
  <2>1. i + 1 \in 1..n /\ 1 \in 1..n /\ q[i + 1] = q[1] /\ i + 1 # 1
    BY <1>2
  <2> QED
    BY <1>3, <2>1
<1>6. ASSUME NEW x \in Items(q)
      PROVE  x \in Items(Tail(q)) \cup {Head(q)}
  <2>1. PICK i \in 1..n : x = q[i]
    BY <1>2, <1>6 DEF Items
  <2>2. CASE i = 1
    BY <1>2, <2>1, <2>2
  <2>3. CASE i # 1
    <3>1. i - 1 \in 1..(n - 1) /\ (i - 1) + 1 = i
      BY <1>2, <2>3
    <3>2. Tail(q)[i - 1] = x
      BY <1>2, <2>1, <3>1
    <3> QED
      BY <1>2, <3>1, <3>2, Zenon DEF Items
  <2> QED
    BY <2>2, <2>3
<1>7. ASSUME NEW x \in Items(Tail(q)) \cup {Head(q)}
      PROVE  x \in Items(q)
  <2>1. CASE x = Head(q)
    <3>1. 1 \in 1..n
      BY <1>2
    <3> QED
      BY <1>2, <2>1, <3>1 DEF Items
  <2>2. CASE x \in Items(Tail(q))
    <3>1. PICK i \in 1..(n - 1) : x = Tail(q)[i]
      BY <1>2, <2>2, Zenon DEF Items
    <3>2. i + 1 \in 1..n /\ x = q[i + 1]
      BY <1>2, <3>1
    <3> QED
      BY <1>2, <3>2, Zenon DEF Items
  <2> QED
    BY <1>7, <2>1, <2>2
<1> QED
  BY <1>2, <1>4, <1>5, <1>6, <1>7

LEMMA EventsTyped ==
  ASSUME NEW q \in Seq([stream : Replay!Streams, index : Nat])
  PROVE  \A i \in DOMAIN q : q[i].stream \in Replay!Streams
           /\ q[i].index \in Nat
<1>1. \A i \in DOMAIN q : q[i] \in [stream : Replay!Streams, index : Nat]
  <2>1. PICK S : S = [stream : Replay!Streams, index : Nat]
    OBVIOUS
  <2>2. q \in Seq(S)
    BY <2>1
  <2>3. \A i \in DOMAIN q : q[i] \in S
    BY <2>2
  <2> QED
    BY <2>1, <2>3
<1>2. \A e \in [stream : Replay!Streams, index : Nat] :
        e.stream \in Replay!Streams /\ e.index \in Nat
  OBVIOUS
<1> QED
  BY <1>1, <1>2

\* An event that is given out is one more of its stream and none of another.
LEMMA EventGiven ==
  ASSUME out \in Seq([stream : Replay!Streams, index : Nat]),
         NEW e \in [stream : Replay!Streams, index : Nat], out' = Append(out,
               e),
         NEW n, n = Len(out)
  PROVE  /\ out' \in Seq([stream : Replay!Streams, index : Nat])
         /\ n \in Nat /\ DOMAIN out = 1..n /\ DOMAIN out' = 1..(n + 1)
         /\ out'[n + 1] = e
         /\ \A i \in 1..n : out'[i] = out[i]
         /\ \A s : EventsOf(s)' = IF s = e.stream
                                    THEN EventsOf(s) \cup {n + 1}
                                    ELSE EventsOf(s)
         /\ \A s : n + 1 \notin EventsOf(s)
<1>1. /\ out' \in Seq([stream : Replay!Streams, index : Nat])
      /\ n \in Nat /\ DOMAIN out = 1..n /\ DOMAIN out' = 1..(n + 1)
      /\ out'[n + 1] = e
      /\ \A i \in 1..n : out'[i] = out[i]
  OBVIOUS
<1>2. \A i \in 1..(n + 1) : i \in 1..n \/ i = n + 1
  BY <1>1
<1>3. n + 1 \in 1..(n + 1) /\ n + 1 \notin 1..n /\ 1..n \subseteq 1..(n + 1)
  BY <1>1
<1>4. ASSUME NEW s
      PROVE  EventsOf(s)' = IF s = e.stream THEN EventsOf(s) \cup {n + 1}
                                            ELSE EventsOf(s)
  BY <1>1, <1>2, <1>3 DEF EventsOf
<1>5. ASSUME NEW s PROVE n + 1 \notin EventsOf(s)
  BY <1>1, <1>3 DEF EventsOf
<1> QED
  BY <1>1, <1>4, <1>5

Merged == \A i, j \in DOMAIN out : i < j =>
            \/ Replay!Before(out[i], out[j])
            \/ out[i].stream = out[j].stream /\ out[i].index < out[j].index

Numbered == \A i \in DOMAIN out : out[i].index =
              Cardinality({j \in 1..i : out[j].stream = out[i].stream})

Ended == /\ ended = "done" =>
              \A s \in Replay!Streams :
                /\ Cardinality(EventsOf(s)) = Len(session[s])
                /\ Replay!Whole(s)
         /\ ended = "raised" => \E s \in Replay!Streams : ~Replay!Whole(s)

\* The module is an instance, whose Cardinality is a name of its own.
LEMMA SameCardinality == \A S : Replay!Cardinality(S) = Cardinality(S)
BY Zenon DEF Replay!Cardinality, Cardinality

LEMMA FaithfulIs == Replay!ReplayFaithful <=> Merged /\ Numbered /\ Ended
BY SameCardinality, Zenon DEF Replay!ReplayFaithful, Merged, Numbered, Ended,
   EventsOf

LEMMA RecordsAreNumbers ==
  ASSUME NEW s, NEW q \in Replay!BoundedSeq(Replay!Times(s), ReplayRecords)
  PROVE  q \in Seq(Int)
<1>1. PICK n \in 0..ReplayRecords : q \in [1..n -> Replay!Times(s)]
  BY DEF Replay!BoundedSeq, Replay!SeqOf
<1>2. n \in Nat /\ Replay!Times(s) \subseteq Int
  BY ReplayConstants DEF Replay!Times, Replay!Bad
<1>3. q \in [1..n -> Int]
  BY <1>1, <1>2
<1> QED
  BY <1>2, <1>3

LEMMA OpenStep == ReplayInv /\ Replay!Open => ReplayInv'
<1> SUFFICES ASSUME ReplayInv, Replay!Open PROVE ReplayInv'
  OBVIOUS
<1>1. /\ todo = <<>> /\ heap = {} /\ out = <<>> /\ ended = "no"
      /\ todo' = Replay!Opened /\ UNCHANGED <<read, heap, out, ended>>
  BY Zenon DEF Replay!Open
<1>2. PICK f \in Replay!BoundedSeq(Replay!Times("frame"), ReplayRecords),
           c \in Replay!BoundedSeq(Replay!Times("controller"), ReplayRecords),
           t \in Replay!BoundedSeq(Replay!Times("controller"), ReplayRecords),
           h \in Replay!BoundedSeq(Replay!Times("health"), ReplayRecords) :
        session' = [frame |-> f, controller |-> c, telemetry |-> t,
        health |-> h]
  BY Zenon DEF Replay!Open
<1>3. f \in Seq(Int) /\ c \in Seq(Int) /\ t \in Seq(Int) /\ h \in Seq(Int)
  BY RecordsAreNumbers
<1>4. \A s \in Replay!Streams : session'[s] \in Seq(Int)
  BY <1>2, <1>3, StreamsAre
<1>5. \A s \in Replay!Streams : read[s] = 0 /\ EventsOf(s) = {}
  <2>1. \A s : EventsOf(s) = {}
    BY <1>1 DEF EventsOf
  <2> QED
    BY <1>1, <2>1, FS_EmptySet DEF ReplayInv, ReadInv
<1>6. ReplayTypes'
  BY <1>1, <1>4, StreamsAre DEF ReplayInv, ReplayTypes
<1>7. TurnInv'
  BY <1>1, StreamsAre DEF TurnInv
<1>8. \A s : EventsOf(s)' = EventsOf(s)
  BY <1>1 DEF EventsOf
<1>9. ReadInv'
  <2> SUFFICES ASSUME NEW s \in Replay!Streams
               PROVE  /\ read'[s] <= Len(session'[s])
                      /\ \A i \in 1..read'[s] : Replay!Good(s, i)'
                      /\ IsFiniteSet(EventsOf(s)')
                      /\ read'[s] = Cardinality(EventsOf(s)')
                                      + (IF s \in heap' THEN 1 ELSE 0)
    BY Zenon DEF ReadInv
  <2>1. read'[s] = 0 /\ EventsOf(s)' = {} /\ heap' = {}
    BY <1>1, <1>5, <1>8
  <2>2. Len(session'[s]) \in Nat /\ 1..0 = {}
    BY <1>4
  <2> QED
    BY <2>1, <2>2, FS_EmptySet
<1>10. OrderInv' /\ (Merged /\ Numbered /\ Ended)'
  BY <1>1 DEF OrderInv, Merged, Numbered, Ended
<1> QED
  BY <1>6, <1>7, <1>9, <1>10, SameCardinality, Zenon DEF ReplayInv,
     Replay!ReplayFaithful, Merged, Numbered, Ended, EventsOf

\* While nothing is given out and no other session opened.
LEMMA SameOutput ==
  ASSUME UNCHANGED <<session, out>>
  PROVE  /\ \A s : EventsOf(s)' = EventsOf(s)
         /\ \A s, i : Replay!Good(s, i) => Replay!Good(s, i)'
         /\ \A s : Replay!Whole(s)' <=> Replay!Whole(s)
         /\ \A i \in DOMAIN out : \A s, k :
              UpTo(out[i], Replay!Event(s, k))
              => UpTo(out[i], Replay!Event(s, k))'
         /\ out' = out /\ session' = session
<1>1. session' = session /\ out' = out
  OBVIOUS
<1>2. \A s : EventsOf(s)' = EventsOf(s)
  BY <1>1, Zenon DEF EventsOf
<1>3. \A s, i : Replay!Good(s, i) => Replay!Good(s, i)'
  BY <1>1, Zenon DEF Replay!Good
<1>4. \A s : Replay!Whole(s)' <=> Replay!Whole(s)
  BY <1>1, Zenon DEF Replay!Whole
<1>5. ASSUME NEW i \in DOMAIN out, NEW s, NEW k, UpTo(out[i], Replay!Event(s,
                   k))
      PROVE  UpTo(out[i], Replay!Event(s, k))'
  BY <1>1, <1>5, Zenon DEF UpTo, Replay!Before, Replay!Event
<1> QED
  BY <1>1, <1>2, <1>3, <1>4, <1>5


\* What is to be shown of a step that gives nothing out.
LEMMA WithoutOutput ==
  ASSUME ReplayInv, UNCHANGED <<session, out>>,
         ReplayTypes', TurnInv',
         \A s \in Replay!Streams :
           /\ read'[s] <= Len(session[s])
           /\ \A i \in 1..read'[s] : Replay!Good(s, i)
           /\ read'[s] = Cardinality(EventsOf(s)) + (IF s
                \in heap' THEN 1 ELSE 0),
         \A i \in DOMAIN out : \A s \in heap' \cup Items(todo') :
           read'[s] > 0 /\ UpTo(out[i], Replay!Event(s, read'[s])),
         ended' = "done" => \A s \in Replay!Streams :
           /\ Cardinality(EventsOf(s)) = Len(session[s])
           /\ Replay!Whole(s),
         ended' = "raised" => \E s \in Replay!Streams : ~Replay!Whole(s)
  PROVE  ReplayInv'
<1>1. /\ session' = session /\ out' = out
      /\ \A s : EventsOf(s)' = EventsOf(s)
      /\ \A s, i : Replay!Good(s, i) => Replay!Good(s, i)'
      /\ \A s : Replay!Whole(s)' <=> Replay!Whole(s)
  BY SameOutput
<1>2. ReadInv'
  <2>1. \A s \in Replay!Streams : IsFiniteSet(EventsOf(s))
    BY DEF ReplayInv, ReadInv
  <2> QED
    BY <1>1, <2>1, Zenon DEF ReadInv
<1>3. ASSUME NEW i \in DOMAIN out
      PROVE  /\ (/\ 1 <= out[i].index
                 /\ out[i].index <= Cardinality(EventsOf(out[i].stream)))'
             /\ \A s \in heap' \cup Items(todo') :
                  read'[s] > 0 /\ UpTo(out[i], Replay!Event(s, read[s]))'
  <2>1. (/\ 1 <= out[i].index
         /\ out[i].index <= Cardinality(EventsOf(out[i].stream)))'
    <3>1. /\ 1 <= out[i].index
          /\ out[i].index <= Cardinality(EventsOf(out[i].stream))
      BY <1>3, Zenon DEF ReplayInv, OrderInv
    <3> QED
      BY <1>1, <3>1 DEF EventsOf
  <2>2. ASSUME NEW s \in heap' \cup Items(todo')
        PROVE  read'[s] > 0 /\ UpTo(out[i], Replay!Event(s, read[s]))'
    <3>1. read'[s] > 0 /\ UpTo(out[i], Replay!Event(s, read'[s]))
      BY <1>3, <2>2
    <3>2. PICK k : k = read'[s]
      OBVIOUS
    <3>3. UpTo(out[i], Replay!Event(s, k))'
      BY <1>1, <1>3, <3>1, <3>2, SameOutput
    <3> QED
      BY <3>1, <3>2, <3>3, Zenon DEF UpTo, Replay!Before, Replay!Event
  <2> QED
    BY <2>1, <2>2
<1>4. OrderInv'
  BY <1>1, <1>3, Zenon DEF OrderInv, EventsOf
<1>5. Merged' /\ Numbered'
  <2>1. Merged /\ Numbered
    BY FaithfulIs DEF ReplayInv
  <2> QED
    BY <1>1, <2>1 DEF Merged, Numbered, Replay!Before
<1>6. Ended'
  BY <1>1, Zenon DEF Ended
<1> QED
  BY <1>2, <1>4, <1>5, <1>6, SameCardinality, Zenon DEF ReplayInv,
     Replay!ReplayFaithful, Merged, Numbered, Ended, EventsOf

LEMMA ReadStep == ReplayInv /\ Replay!Read => ReplayInv'
<1> SUFFICES ASSUME ReplayInv, Replay!Read PROVE ReplayInv'
  OBVIOUS
<1> DEFINE hd == Head(todo)
<1>1. /\ todo # <<>> /\ ended = "no" /\ todo' = Tail(todo)
      /\ UNCHANGED <<session, out>>
  BY Zenon DEF Replay!Read
<1>2. ReplayTypes /\ TurnInv /\ ReadInv /\ OrderInv
  BY Zenon DEF ReplayInv
<1>3. /\ todo' \in Seq(Replay!Streams) /\ Distinct(todo')
           /\ hd \in Replay!Streams
      /\ Items(todo) = Items(todo') \cup {hd} /\ hd \notin Items(todo')
      /\ hd \notin heap
  <2>1. todo \in Seq(Replay!Streams) /\ Distinct(todo)
        /\ Items(todo) \cap heap = {}
    BY <1>2 DEF ReplayTypes, TurnInv
  <2>2. /\ Tail(todo) \in Seq(Replay!Streams) /\ Distinct(Tail(todo))
             /\ hd \in Replay!Streams
        /\ Items(todo) = Items(Tail(todo)) \cup {hd}
             /\ hd \notin Items(Tail(todo))
    BY <1>1, <2>1, TailItems, Zenon
  <2> QED
    BY <1>1, <2>1, <2>2
<1>4. \/ /\ read[hd] + 1 > Len(session[hd])
         /\ UNCHANGED <<read, heap, ended>>
      \/ /\ ~(read[hd] + 1 > Len(session[hd])) /\ Replay!Good(hd, read[hd] + 1)
         /\ read' = [read EXCEPT ![hd] = read[hd] + 1]
         /\ heap' = heap \cup {hd} /\ UNCHANGED ended
      \/ /\ ~(read[hd] + 1 > Len(session[hd])) /\ ~Replay!Good(hd, read[hd] + 1)
         /\ ended' = "raised" /\ UNCHANGED <<read, heap>>
  BY Zenon DEF Replay!Read
<1> HIDE DEF hd
<1>5. \A s \in Replay!Streams :
        /\ session[s] \in Seq(Int) /\ Len(session[s]) \in Nat /\ read[s] \in Nat
        /\ read[s] <= Len(session[s])
        /\ \A i \in 1..read[s] : Replay!Good(s, i)
        /\ read[s] = Cardinality(EventsOf(s)) + (IF s \in heap THEN 1 ELSE 0)
        /\ Cardinality(EventsOf(s)) \in Nat
  BY <1>2, FS_CardinalityType DEF ReplayTypes, ReadInv
<1>6. \A i \in DOMAIN out : \A s \in heap \cup Items(todo) :
        read[s] > 0 /\ UpTo(out[i], Replay!Event(s, read[s]))
  BY <1>2, Zenon DEF OrderInv
<1>7. CASE /\ read[hd] + 1 > Len(session[hd])
           /\ UNCHANGED <<read, heap, ended>>
  <2>1. read' = read /\ heap' = heap /\ ended' = "no" /\ session' = session
    BY <1>1, <1>7
  <2>2. read[hd] = Len(session[hd])
    BY <1>3, <1>5, <1>7
  <2>3. ReplayTypes'
    BY <1>1, <1>2, <1>3, <2>1 DEF ReplayTypes
  <2>4. TurnInv'
    BY <1>2, <1>3, <2>1, <2>2, <1>1, Zenon DEF TurnInv
  <2>5. \A i \in DOMAIN out : \A s \in heap' \cup Items(todo') :
          read'[s] > 0 /\ UpTo(out[i], Replay!Event(s, read'[s]))
    BY <1>3, <1>6, <2>1
  <2>6. ended' # "done" /\ ended' # "raised"
    BY <2>1
  <2> QED
    BY <1>1, <1>5, <2>1, <2>3, <2>4, <2>5, <2>6, WithoutOutput, Zenon
<1>8. CASE /\ ~(read[hd] + 1 > Len(session[hd]))
                /\ Replay!Good(hd, read[hd] + 1)
           /\ read' = [read EXCEPT ![hd] = read[hd] + 1]
           /\ heap' = heap \cup {hd} /\ UNCHANGED ended
  <2>1. ended' = "no" /\ session' = session /\ out' = out
    BY <1>1, <1>8
  <2>2. /\ read' \in [Replay!Streams -> Nat] /\ read'[hd] = read[hd] + 1
        /\ \A s \in Replay!Streams : s # hd => read'[s] = read[s]
    BY <1>2, <1>3, <1>8 DEF ReplayTypes
  <2>3. ReplayTypes'
    BY <1>2, <1>3, <1>8, <2>1, <2>2 DEF ReplayTypes
  <2>4. TurnInv'
    <3>1. Items(todo') \cap heap' = {}
          /\ heap' \cup Items(todo') = heap \cup Items(todo)
      BY <1>2, <1>3, <1>8 DEF TurnInv
    <3>2. ASSUME NEW s \in Replay!Streams
          PROVE  s \in heap' \cup Items(todo') \/ read'[s] = Len(session'[s])
      BY <1>1, <1>2, <1>8, <2>1, <2>2, <3>1, <3>2 DEF TurnInv
    <3> QED
      BY <1>3, <2>1, <3>1, <3>2 DEF TurnInv
  <2>5. ASSUME NEW s \in Replay!Streams
        PROVE  /\ read'[s] <= Len(session[s])
               /\ \A i \in 1..read'[s] : Replay!Good(s, i)
               /\ read'[s] = Cardinality(EventsOf(s))
                               + (IF s \in heap' THEN 1 ELSE 0)
    <3>1. CASE s = hd
      <4>1. /\ read'[s] = read[s] + 1 /\ read[s] \in Nat
            /\ read[s] + 1 <= Len(session[s])
            /\ read[s] = Cardinality(EventsOf(s))
            /\ s \in heap'
        BY <1>3, <1>5, <1>8, <2>2, <2>5, <3>1
      <4>2. ASSUME NEW i \in 1..read'[s] PROVE Replay!Good(s, i)
        <5>1. i \in 1..read[s] \/ i = read[s] + 1
          BY <4>1, <4>2
        <5> QED
          BY <1>5, <1>8, <2>5, <3>1, <5>1, Zenon
      <4> QED
        BY <4>1, <4>2
    <3>2. CASE s # hd
      <4>1. read'[s] = read[s] /\ (s \in heap' <=> s \in heap)
        BY <1>8, <2>2, <2>5, <3>2
      <4> QED
        BY <1>5, <2>5, <4>1
    <3> QED
      BY <3>1, <3>2
  <2>6. ASSUME NEW i \in DOMAIN out, NEW s \in heap' \cup Items(todo')
        PROVE  read'[s] > 0 /\ UpTo(out[i], Replay!Event(s, read'[s]))
    <3>1. s \in heap \cup Items(todo) /\ s \in Replay!Streams
      <4>1. heap \subseteq Replay!Streams
            /\ Items(todo') \subseteq Replay!Streams
        BY <1>2, <1>3 DEF ReplayTypes, Items
      <4> QED
        BY <1>3, <1>8, <2>6, <4>1
    <3>2. read[s] > 0 /\ UpTo(out[i], Replay!Event(s, read[s]))
      BY <1>6, <2>6, <3>1
    <3>5. out[i].stream \in Replay!Streams /\ out[i].index \in Nat
      BY <1>2, <2>6, EventsTyped DEF ReplayTypes
    <3>3. CASE s # hd
      BY <2>2, <3>1, <3>2, <3>3
    <3>4. CASE s = hd
      <4>1. PICK k : k = read[s]
        OBVIOUS
      <4>2. /\ k \in Nat /\ k > 0 /\ read'[s] = k + 1 /\ read'[s] > 0
            /\ k + 1 <= Len(session[s])
        BY <1>5, <1>8, <2>2, <3>1, <3>2, <3>4, <4>1
      <4>3. session[s][k] <= session[s][k + 1]
        BY <1>8, <3>4, <4>1, <4>2 DEF Replay!Good
      <4>4. session[s][k] \in Int /\ session[s][k + 1] \in Int
        BY <1>5, <3>1, <4>2
      <4>5. UpTo(out[i], Replay!Event(s, k))
        BY <3>2, <4>1
      <4>6. Replay!Event(s, k).stream = s /\ Replay!Event(s, k).index = k
            /\ Replay!Event(s, k + 1).stream = s
                 /\ Replay!Event(s, k + 1).index = k + 1
        BY DEF Replay!Event
      <4>7. CASE out[i].stream = s /\ out[i].index <= k
        <5>1. out[i].index <= k + 1
          BY <3>5, <4>2, <4>7
        <5> QED
          BY <4>2, <4>6, <4>7, <5>1, Zenon DEF UpTo
      <4>8. CASE Replay!Before(out[i], Replay!Event(s, k))
        <5>1. PICK t : t = session[out[i].stream][out[i].index]
          OBVIOUS
        <5>2. \/ t < session[s][k]
              \/ t = session[s][k]
                   /\ Replay!Rank(out[i].stream) < Replay!Rank(s)
          BY <4>6, <4>8, <5>1, Zenon DEF Replay!Before
        <5>3. t \in Int
          <6>1. /\ 1 <= out[i].index
                /\ out[i].index <= Cardinality(EventsOf(out[i].stream))
            BY <1>2, <2>6, Zenon DEF OrderInv
          <6>2. out[i].index \in 1..Len(session[out[i].stream])
            BY <1>5, <3>5, <6>1
          <6> QED
            BY <1>5, <3>5, <5>1, <6>2
        <5>4. \/ t < session[s][k + 1]
              \/ t = session[s][k + 1]
                   /\ Replay!Rank(out[i].stream) < Replay!Rank(s)
          BY <4>3, <4>4, <5>2, <5>3
        <5>5. Replay!Before(out[i], Replay!Event(s, k + 1))
          BY <4>6, <5>1, <5>4, Zenon DEF Replay!Before
        <5> QED
          BY <4>2, <5>5, Zenon DEF UpTo
      <4> QED
        BY <4>5, <4>6, <4>7, <4>8, Zenon DEF UpTo
    <3> QED
      BY <3>3, <3>4
  <2>7. ended' # "done" /\ ended' # "raised"
    BY <2>1
  <2> QED
    BY <1>1, <2>3, <2>4, <2>5, <2>6, <2>7, WithoutOutput, Zenon
<1>9. CASE /\ ~(read[hd] + 1 > Len(session[hd]))
                /\ ~Replay!Good(hd, read[hd] + 1)
           /\ ended' = "raised" /\ UNCHANGED <<read, heap>>
  <2>1. read' = read /\ heap' = heap /\ session' = session /\ ended' # "done"
    BY <1>1, <1>9
  <2>2. ReplayTypes'
    BY <1>1, <1>2, <1>3, <1>9, <2>1 DEF ReplayTypes
  <2>3. TurnInv'
    BY <1>2, <1>3, <1>9, <2>1 DEF TurnInv
  <2>4. \A i \in DOMAIN out : \A s \in heap' \cup Items(todo') :
          read'[s] > 0 /\ UpTo(out[i], Replay!Event(s, read'[s]))
    BY <1>3, <1>6, <2>1
  <2>5. ~Replay!Whole(hd)
    <3>1. PICK k : k = read[hd] + 1
      OBVIOUS
    <3>2. k \in DOMAIN session[hd] /\ ~Replay!Good(hd, k)
      BY <1>3, <1>5, <1>9, <3>1
    <3> QED
      BY <3>2, Zenon DEF Replay!Whole, Replay!Good
  <2> QED
    BY <1>1, <1>3, <1>5, <2>1, <2>2, <2>3, <2>4, <2>5, WithoutOutput, Zenon
<1> QED
  BY <1>4, <1>7, <1>8, <1>9, Zenon


LEMMA YieldStep == ReplayInv /\ Replay!Yield => ReplayInv'
<1> SUFFICES ASSUME ReplayInv, Replay!Yield PROVE ReplayInv'
  OBVIOUS
<1>1. /\ todo = <<>> /\ ended = "no" /\ UNCHANGED <<session, read, ended>>
  BY Zenon DEF Replay!Yield
<1>2. PICK s \in heap :
        /\ \A r \in heap \ {s} : Replay!Before(Replay!Event(s, read[s]),
             Replay!Event(r, read[r]))
        /\ out' = Append(out, Replay!Event(s, read[s]))
        /\ heap' = heap \ {s}
        /\ todo' = <<s>>
  BY Zenon DEF Replay!Yield
<1>3. ReplayTypes /\ TurnInv /\ ReadInv /\ OrderInv /\ Merged /\ Numbered
  BY FaithfulIs DEF ReplayInv
<1>4. PICK n : n = Len(out)
  OBVIOUS
<1>5. PICK e : e = Replay!Event(s, read[s])
  OBVIOUS
<1>6. /\ s \in Replay!Streams /\ \A r \in Replay!Streams : read[r] \in Nat
      /\ e \in [stream : Replay!Streams, index : Nat]
      /\ e.stream = s /\ e.index = read[s]
  BY <1>3, <1>5 DEF ReplayTypes, Replay!Event
<1>7. /\ out' \in Seq([stream : Replay!Streams, index : Nat])
      /\ n \in Nat /\ DOMAIN out = 1..n /\ DOMAIN out' = 1..(n + 1)
      /\ out'[n + 1] = e
      /\ \A i \in 1..n : out'[i] = out[i]
      /\ \A r : EventsOf(r)' = IF r = s THEN EventsOf(r) \cup {n + 1}
                                        ELSE EventsOf(r)
      /\ \A r : n + 1 \notin EventsOf(r)
  <2>1. out \in Seq([stream : Replay!Streams, index : Nat])
        /\ out' = Append(out, e)
    BY <1>2, <1>3, <1>5 DEF ReplayTypes
  <2> QED
    BY <1>4, <1>6, <2>1, EventGiven
<1>8. \A r \in Replay!Streams :
        /\ IsFiniteSet(EventsOf(r)) /\ Cardinality(EventsOf(r)) \in Nat
        /\ read[r] <= Len(session[r])
        /\ \A i \in 1..read[r] : Replay!Good(r, i)
        /\ read[r] = Cardinality(EventsOf(r)) + (IF r \in heap THEN 1 ELSE 0)
  BY <1>3, FS_CardinalityType DEF ReadInv
<1>9. \A r \in Replay!Streams : /\ IsFiniteSet(EventsOf(r)')
                         /\ Cardinality(EventsOf(r)')
                              = Cardinality(EventsOf(r)) + (IF r
                              = s THEN 1 ELSE 0)
  <2> SUFFICES ASSUME NEW r \in Replay!Streams
               PROVE  /\ IsFiniteSet(EventsOf(r)')
                      /\ Cardinality(EventsOf(r)')
                           = Cardinality(EventsOf(r)) + (IF r = s THEN 1 ELSE 0)
    OBVIOUS
  <2>1. CASE r = s
    <3>1. EventsOf(r)' = EventsOf(r) \cup {n + 1} /\ n + 1 \notin EventsOf(r)
      BY <1>7, <2>1
    <3>2. IsFiniteSet(EventsOf(r))
      BY <1>8
    <3>3. /\ IsFiniteSet(EventsOf(r) \cup {n + 1})
          /\ Cardinality(EventsOf(r) \cup {n + 1})
               = Cardinality(EventsOf(r)) + 1
      BY <3>1, <3>2, FS_AddElement
    <3> QED
      BY <2>1, <3>1, <3>3
  <2>2. CASE r # s
    BY <1>7, <1>8, <2>2
  <2> QED
    BY <2>1, <2>2
<1>10. session' = session /\ read' = read /\ ended' = "no"
  BY <1>1
<1>11. Items(todo) = {} /\ Items(todo') = {s} /\ Distinct(todo')
  BY <1>1, <1>2 DEF Items, Distinct
<1>12. ReplayTypes'
  <2>1. heap' \subseteq Replay!Streams /\ todo' \in Seq(Replay!Streams)
    BY <1>2, <1>3, <1>6 DEF ReplayTypes
  <2> QED
    BY <1>3, <1>7, <1>10, <2>1 DEF ReplayTypes
<1>13. heap' \cup Items(todo') = heap \cup Items(todo)
       /\ Items(todo') \cap heap' = {}
  BY <1>2, <1>11
<1>14. TurnInv'
  <2>1. \A r \in Replay!Streams : r \in heap \cup Items(todo)
        \/ read[r] = Len(session[r])
    BY <1>1, <1>3 DEF TurnInv
  <2>2. ended' # "done"
    BY <1>10
  <2> QED
    BY <1>10, <1>11, <1>13, <2>1, <2>2, Zenon DEF TurnInv
<1>15. ReadInv'
  <2> SUFFICES ASSUME NEW r \in Replay!Streams
               PROVE  /\ read'[r] <= Len(session'[r])
                      /\ \A i \in 1..read'[r] : Replay!Good(r, i)'
                      /\ IsFiniteSet(EventsOf(r)')
                      /\ read'[r] = Cardinality(EventsOf(r)')
                                      + (IF r \in heap' THEN 1 ELSE 0)
    BY Zenon DEF ReadInv
  <2>1. \A i \in 1..read'[r] : Replay!Good(r, i)'
    BY <1>8, <1>10 DEF Replay!Good
  <2>2. read'[r] = Cardinality(EventsOf(r)') + (IF r \in heap' THEN 1 ELSE 0)
    <3>1. CASE r = s
      BY <1>2, <1>8, <1>9, <1>10, <3>1
    <3>2. CASE r # s
      BY <1>2, <1>8, <1>9, <1>10, <3>2
    <3> QED
      BY <3>1, <3>2
  <2> QED
    BY <1>8, <1>9, <1>10, <2>1, <2>2
<1>16. \A i \in 1..n :
         /\ out[i].stream \in Replay!Streams /\ out[i].index \in Nat
              /\ 1 <= out[i].index
         /\ out[i].index <= Cardinality(EventsOf(out[i].stream))
         /\ \A r \in heap : read[r] > 0
              /\ UpTo(out[i], Replay!Event(r, read[r]))
  <2> SUFFICES ASSUME NEW i \in 1..n
               PROVE  /\ out[i].stream \in Replay!Streams
                           /\ out[i].index \in Nat
                      /\ 1 <= out[i].index
                      /\ out[i].index <= Cardinality(EventsOf(out[i].stream))
                      /\ \A r \in heap : /\ read[r] > 0
                                         /\ UpTo(out[i], Replay!Event(r,
                                              read[r]))
    OBVIOUS
  <2>1. out[i].stream \in Replay!Streams /\ out[i].index \in Nat
    BY <1>3, <1>7, EventsTyped DEF ReplayTypes
  <2> QED
    BY <1>3, <1>7, <1>11, <2>1, Zenon DEF OrderInv
<1>17. read[s] > 0 /\ \A r \in heap : read[r] > 0
  <2>1. ASSUME NEW r \in heap PROVE read[r] > 0
    <3>1. r \in Replay!Streams
      BY <1>3, <2>1 DEF ReplayTypes
    <3> QED
      BY <1>8, <2>1, <3>1
  <2> QED
    BY <2>1
<1>18. \A r \in heap : UpTo(e, Replay!Event(r, read[r]))
  <2> SUFFICES ASSUME NEW r \in heap PROVE UpTo(e, Replay!Event(r, read[r]))
    OBVIOUS
  <2>1. CASE r = s
    BY <1>5, <1>6, <2>1 DEF UpTo
  <2>2. CASE r # s
    BY <1>2, <1>5, <2>2, Zenon DEF UpTo
  <2> QED
    BY <2>1, <2>2
<1>19. OrderInv'
  <2>1. ASSUME NEW i \in 1..(n + 1), NEW x, x = out'[i]
        PROVE  /\ 1 <= x.index
               /\ x.index <= Cardinality(EventsOf(x.stream)')
               /\ \A r \in heap' \cup Items(todo') :
                    read'[r] > 0 /\ UpTo(x, Replay!Event(r, read[r]))
    <3>1. CASE i \in 1..n
      <4>1. x = out[i]
        BY <1>7, <2>1, <3>1
      <4>2. /\ x.stream \in Replay!Streams /\ x.index \in Nat /\ 1 <= x.index
            /\ x.index <= Cardinality(EventsOf(x.stream))
            /\ \A r \in heap : read[r] > 0 /\ UpTo(x, Replay!Event(r, read[r]))
        BY <1>16, <3>1, <4>1
      <4>3. x.index <= Cardinality(EventsOf(x.stream)')
        BY <1>8, <1>9, <4>2
      <4> QED
        BY <1>10, <1>11, <1>13, <4>2, <4>3
    <3>2. CASE i = n + 1
      <4>1. x = e
        BY <1>7, <2>1, <3>2
      <4>2. x.index <= Cardinality(EventsOf(x.stream)') /\ 1 <= x.index
        BY <1>2, <1>6, <1>8, <1>9, <1>17, <4>1
      <4> QED
        BY <1>10, <1>11, <1>13, <1>17, <1>18, <4>1, <4>2
    <3> QED
      BY <1>7, <2>1, <3>1, <3>2
  <2>2. \A x, r, k : UpTo(x, Replay!Event(r, k)) => UpTo(x, Replay!Event(r, k))'
    BY <1>10 DEF UpTo, Replay!Before, Replay!Event
  <2>3. ASSUME NEW i \in 1..(n + 1)
        PROVE  (/\ 1 <= out[i].index
                /\ out[i].index <= Cardinality(EventsOf(out[i].stream))
                /\ \A r \in heap \cup Items(todo) :
                     read[r] > 0 /\ UpTo(out[i], Replay!Event(r, read[r])))'
    <3>1. PICK x : x = out'[i]
      OBVIOUS
    <3>2. /\ 1 <= x.index
          /\ x.index <= Cardinality(EventsOf(x.stream)')
          /\ \A r \in heap' \cup Items(todo') :
               read'[r] > 0 /\ UpTo(x, Replay!Event(r, read[r]))
      BY <2>1, <2>3, <3>1
    <3>3. (out[i].index <= Cardinality(EventsOf(out[i].stream)))'
      <4>1. x.index <= Cardinality(EventsOf(x.stream))'
        BY <3>2
      <4> QED
        BY <3>1, <4>1, Zenon DEF EventsOf
    <3>4. ASSUME NEW r \in heap' \cup Items(todo')
          PROVE  UpTo(out[i], Replay!Event(r, read[r]))'
      <4>1. PICK k : k = read[r]
        OBVIOUS
      <4>2. UpTo(x, Replay!Event(r, k))'
        BY <2>2, <3>2, <3>4, <4>1
      <4>3. k = read'[r]
        BY <1>10, <4>1
      <4> QED
        BY <3>1, <4>2, <4>3, Zenon DEF UpTo, Replay!Before, Replay!Event
    <3> QED
      BY <3>1, <3>2, <3>3, <3>4, Zenon
  <2> QED
    BY <1>7, <2>3, Zenon DEF OrderInv
<1>20. \A x, y : Replay!Before(x, y)' <=> Replay!Before(x, y)
  BY <1>10 DEF Replay!Before
<1>21. Merged'
  <2>1. ASSUME NEW i \in 1..(n + 1), NEW j \in 1..(n + 1), i < j,
               NEW x, x = out'[i], NEW y, y = out'[j]
        PROVE  \/ Replay!Before(x, y)
               \/ x.stream = y.stream /\ x.index < y.index
    <3>1. i \in 1..n /\ (j \in 1..n \/ j = n + 1)
      BY <1>7, <2>1
    <3>2. x = out[i]
      BY <1>7, <2>1, <3>1
    <3>3. CASE j \in 1..n
      <4>1. y = out[j]
        BY <1>7, <2>1, <3>3
      <4>2. i \in DOMAIN out /\ j \in DOMAIN out
        BY <1>7, <3>1, <3>3
      <4>3. \/ Replay!Before(out[i], out[j])
            \/ out[i].stream = out[j].stream /\ out[i].index < out[j].index
        BY <1>3, <2>1, <4>2, Zenon DEF Merged
      <4> QED
        BY <3>2, <4>1, <4>3
    <3>4. CASE j = n + 1
      <4>1. y = e /\ UpTo(x, e)
        BY <1>2, <1>5, <1>7, <1>16, <2>1, <3>1, <3>2, <3>4
      <4>2. CASE x.stream = e.stream
        <5>1. x.index <= Cardinality(EventsOf(s)) /\ x.index \in Nat
          BY <1>6, <1>16, <3>1, <3>2, <4>2
        <5>2. read[s] = Cardinality(EventsOf(s)) + 1
              /\ Cardinality(EventsOf(s)) \in Nat
          BY <1>2, <1>6, <1>8
        <5>3. x.index < y.index
          BY <1>6, <4>1, <5>1, <5>2
        <5> QED
          BY <4>1, <4>2, <5>3
      <4>3. CASE x.stream # e.stream
        BY <4>1, <4>3, Zenon DEF UpTo
      <4> QED
        BY <4>2, <4>3
    <3> QED
      BY <3>1, <3>3, <3>4
  <2>2. ASSUME NEW i \in 1..(n + 1), NEW j \in 1..(n + 1), i < j
        PROVE  (\/ Replay!Before(out[i], out[j])
                \/ out[i].stream = out[j].stream
                     /\ out[i].index < out[j].index)'
    <3>1. PICK x, y : x = out'[i] /\ y = out'[j]
      OBVIOUS
    <3>2. Replay!Before(x, y)' \/ (x.stream = y.stream /\ x.index < y.index)
      BY <1>20, <2>1, <2>2, <3>1
    <3> QED
      BY <3>1, <3>2, Zenon DEF Replay!Before
  <2> QED
    BY <1>7, <2>2, Zenon DEF Merged
<1>22. Numbered'
  <2>1. ASSUME NEW i \in 1..(n + 1)
        PROVE  out'[i].index = Cardinality({j \in 1..i : out'[j].stream
                 = out'[i].stream})
    <3>1. CASE i \in 1..n
      <4>1. \A j \in 1..i : j \in 1..n
        BY <1>7, <3>1
      <4>2. {j \in 1..i : out'[j].stream = out'[i].stream}
              = {j \in 1..i : out[j].stream = out[i].stream}
        BY <1>7, <3>1, <4>1
      <4>3. out[i].index = Cardinality({j \in 1..i : out[j].stream
            = out[i].stream})
        BY <1>3, <1>7, <3>1, Zenon DEF Numbered
      <4>4. out'[i].index = out[i].index
        BY <1>7, <3>1
      <4> QED
        BY <4>2, <4>3, <4>4
    <3>2. CASE i = n + 1
      <4>1. EventsOf(s)' = {j \in 1..i : out'[j].stream = s}
        BY <1>7, <3>2 DEF EventsOf
      <4>2. out'[i].stream = s /\ out'[i].index = read[s]
        BY <1>6, <1>7, <3>2
      <4>3. Cardinality(EventsOf(s)') = read[s]
        BY <1>2, <1>6, <1>8, <1>9
      <4> QED
        BY <4>1, <4>2, <4>3
    <3> QED
      BY <1>7, <2>1, <3>1, <3>2
  <2> QED
    BY <1>7, <2>1, Zenon DEF Numbered
<1>23. Ended'
  BY <1>10 DEF Ended
<1> QED
  BY <1>12, <1>14, <1>15, <1>19, <1>21, <1>22, <1>23, SameCardinality, Zenon
     DEF ReplayInv, Replay!ReplayFaithful, Merged, Numbered, Ended, EventsOf

LEMMA FinishStep == ReplayInv /\ Replay!Finish => ReplayInv'
<1> SUFFICES ASSUME ReplayInv, Replay!Finish PROVE ReplayInv'
  OBVIOUS
<1>1. /\ todo = <<>> /\ heap = {} /\ ended' = "done" /\ ended = "no"
      /\ UNCHANGED <<session, out>> /\ read' = read /\ heap' = heap
           /\ todo' = todo
      /\ session' = session /\ out' = out
  BY DEF Replay!Finish
<1>2. ReplayTypes /\ TurnInv /\ ReadInv
  BY Zenon DEF ReplayInv
<1>3. Items(todo) = {} /\ heap \cup Items(todo) = {}
  BY <1>1 DEF Items
<1>4. ASSUME NEW s \in Replay!Streams
      PROVE  /\ read[s] = Len(session[s]) /\ read[s] = Cardinality(EventsOf(s))
             /\ read[s] <= Len(session[s])
             /\ \A i \in 1..read[s] : Replay!Good(s, i)
             /\ Replay!Whole(s)
  <2>1. read[s] = Len(session[s])
    BY <1>1, <1>2, <1>3 DEF TurnInv
  <2>2. /\ read[s] <= Len(session[s])
        /\ \A i \in 1..read[s] : Replay!Good(s, i)
        /\ Cardinality(EventsOf(s)) \in Nat
        /\ read[s] = Cardinality(EventsOf(s)) + (IF s \in heap THEN 1 ELSE 0)
    BY <1>2, FS_CardinalityType DEF ReadInv
  <2>3. read[s] = Cardinality(EventsOf(s))
    BY <1>1, <2>2
  <2>4. DOMAIN session[s] = 1..read[s]
    BY <1>2, <2>1 DEF ReplayTypes
  <2>5. Replay!Whole(s)
    BY <2>2, <2>4, Zenon DEF Replay!Whole, Replay!Good
  <2> QED
    BY <2>1, <2>2, <2>3, <2>5
<1>5. ReplayTypes'
  BY <1>1, <1>2 DEF ReplayTypes
<1>6. TurnInv'
  BY <1>1, <1>2, <1>3 DEF TurnInv
<1>7. \A s \in Replay!Streams :
        /\ read'[s] <= Len(session[s])
        /\ \A i \in 1..read'[s] : Replay!Good(s, i)
        /\ read'[s] = Cardinality(EventsOf(s)) + (IF s \in heap' THEN 1 ELSE 0)
  BY <1>1, <1>2, <1>4 DEF ReadInv
<1>8. heap' \cup Items(todo') = {} /\ ended' # "raised"
  BY <1>1, <1>3
<1>9. \A s \in Replay!Streams : Cardinality(EventsOf(s)) = Len(session[s])
      /\ Replay!Whole(s)
  BY <1>4
<1> QED
  BY <1>1, <1>5, <1>6, <1>7, <1>8, <1>9, WithoutOutput, Zenon

\* A replay is the merge of the streams, and whole or refused.
THEOREM ReplayAlwaysFaithful == PartsSpec => []ReplayFaithful
<1>1. PartsInit => ReplayInv
  <2> SUFFICES ASSUME Replay!Init PROVE ReplayInv
    BY DEF PartsInit
  <2>1. /\ session = [s \in Replay!Streams |-> <<>>]
             /\ read = [s \in Replay!Streams |-> 0]
        /\ heap = {} /\ todo = <<>> /\ out = <<>> /\ ended = "no"
    BY DEF Replay!Init
  <2>2. ReplayTypes
    BY <2>1 DEF ReplayTypes
  <2>3. \A s \in Replay!Streams : read[s] = 0 /\ session[s] = <<>>
        /\ Len(session[s]) = 0
    BY <2>1
  <2>4. TurnInv
    BY <2>1, <2>3 DEF TurnInv, Distinct, Items
  <2>5. \A s : EventsOf(s) = {}
    BY <2>1 DEF EventsOf
  <2>6. ReadInv
    BY <2>1, <2>3, <2>5, FS_EmptySet DEF ReadInv
  <2>7. OrderInv /\ Merged /\ Numbered /\ Ended
    BY <2>1 DEF OrderInv, Merged, Numbered, Ended
  <2> QED
    BY <2>2, <2>4, <2>6, <2>7, FaithfulIs DEF ReplayInv
<1>2. ReplayInv /\ UNCHANGED Replay!vars => ReplayInv'
  <2> SUFFICES ASSUME ReplayInv, UNCHANGED Replay!vars PROVE ReplayInv'
    OBVIOUS
  <2>1. /\ UNCHANGED <<session, out>> /\ read' = read /\ heap' = heap
        /\ todo' = todo /\ ended' = ended /\ session' = session /\ out' = out
    BY DEF Replay!vars
  <2>2. ReplayTypes' /\ TurnInv'
    BY <2>1 DEF ReplayInv, ReplayTypes, TurnInv
  <2>3. \A s \in Replay!Streams :
          /\ read'[s] <= Len(session[s])
          /\ \A i \in 1..read'[s] : Replay!Good(s, i)
          /\ read'[s] = Cardinality(EventsOf(s)) + (IF s
               \in heap' THEN 1 ELSE 0)
    BY <2>1 DEF ReplayInv, ReadInv
  <2>4. \A i \in DOMAIN out : \A s \in heap' \cup Items(todo') :
          read'[s] > 0 /\ UpTo(out[i], Replay!Event(s, read'[s]))
    BY <2>1 DEF ReplayInv, OrderInv
  <2>5. Ended
    BY FaithfulIs DEF ReplayInv
  <2>6. /\ ended' = "done" => \A s \in Replay!Streams :
             Cardinality(EventsOf(s)) = Len(session[s]) /\ Replay!Whole(s)
        /\ ended' = "raised" => \E s \in Replay!Streams : ~Replay!Whole(s)
    BY <2>1, <2>5, Zenon DEF Ended
  <2> QED
    BY <2>1, <2>2, <2>3, <2>4, <2>6, WithoutOutput
<1>3. ReplayInv /\ [Replay!Next]_Replay!vars => ReplayInv'
  BY <1>2, OpenStep, ReadStep, YieldStep, FinishStep DEF Replay!Next
<1>4. ReplayInv => Replay!ReplayFaithful
  BY DEF ReplayInv
<1>5. UNCHANGED replayVars => UNCHANGED Replay!vars
  BY DEF replayVars, Replay!vars
<1>6. [PartsNext]_<<which, continuityVars, supervisorVars, fileVars,
                    lifecycleVars, replayVars, selectionVars, lapVars>>
        => [Replay!Next]_Replay!vars
  BY <1>5, Zenon DEF PartsNext, ContinuityStep, SupervisorStep, FileStep,
     LifecycleStep, ReplayStep, SelectionStep, LapStep
<1> QED
  BY <1>1, <1>3, <1>4, <1>6, PTL DEF PartsSpec, ReplayFaithful

-----------------------------------------------------------------------------
(* The laps.                                                                 *)

\* The lap machine as the composition and its proofs instantiate it.
LEMMA SameLaps ==
  /\ Laps!Init => LP!Init
  /\ Laps!Next => LP!Next
  /\ LP!CandidatesAreWholeLaps => CandidatesAreWholeLaps
<1> USE DEF Laps!GameClockRegressed, LP!GameClockRegressed
<1>1. Laps!Init => LP!Init
  BY DEF Laps!Init, LP!Init
<1>2. ASSUME NEW k PROVE Laps!Continues(k) = LP!Continues(k)
  BY DEF Laps!Continues, LP!Continues
<1>3. LP!CandidatesAreWholeLaps => CandidatesAreWholeLaps
  BY <1>2, Zenon DEF CandidatesAreWholeLaps, Laps!CandidatesAreWholeLaps,
     LP!CandidatesAreWholeLaps, Laps!WholeLap, LP!WholeLap, Laps!Boundary,
     LP!Boundary, Laps!Lap, LP!Lap
<1>4. ASSUME NEW p, Laps!Update(p) PROVE LP!Update(p)
  BY <1>4, Zenon DEF Laps!Update, LP!Update, Laps!ResetLap, LP!ResetLap,
     Laps!StartPartial, LP!StartPartial, Laps!Follow, LP!Follow,
     Laps!Regressed, LP!Regressed, Laps!Now, LP!Now, Laps!NextBoundary,
     LP!NextBoundary, Laps!Completed, LP!Completed, Laps!StartOfNext,
     LP!StartOfNext
<1>5. Laps!NextPackets = LP!NextPackets
  <2>1. ASSUME NEW step PROVE Laps!GameAfter(step) = LP!GameAfter(step)
    BY Zenon DEF Laps!GameAfter, LP!GameAfter
  <2> QED
    BY <2>1, SMT DEF Laps!NextPackets, LP!NextPackets
<1>6. Laps!Falls' = LP!Falls'
  <2>1. \A S : Laps!Cardinality(S) = LP!Cardinality(S)
    BY Zenon DEF Laps!Cardinality, LP!Cardinality
  <2> QED
    BY <2>1 DEF Laps!Falls, LP!Falls
<1> QED
  BY <1>1, <1>3, <1>4, <1>5, <1>6, Zenon DEF Laps!Next, LP!Next, Laps!Receive,
     LP!Receive

\* The candidates are the whole laps, for any packets, any number of them and
\* any modulus of the clock.
THEOREM LapsAlwaysWhole == PartsSpec => []CandidatesAreWholeLaps
<1>1. LP!LapAssumption
  BY LapConstants DEF LP!LapAssumption, Laps!LapAssumption
<1>2. LP!Spec => []LP!CandidatesAreWholeLaps
  BY <1>1, LP!LapsWhole
<1>3. PartsInit => LP!Init
  BY SameLaps DEF PartsInit
<1>4. UNCHANGED lapVars => UNCHANGED LP!vars
  BY DEF lapVars, LP!vars, LP!machine
<1>5. [PartsNext]_<<which, continuityVars, supervisorVars, fileVars,
                    lifecycleVars, replayVars, selectionVars, lapVars>>
        => [LP!Next]_LP!vars
  BY <1>4, SameLaps, Zenon DEF PartsNext, ContinuityStep, SupervisorStep,
     FileStep, LifecycleStep, ReplayStep, SelectionStep, LapStep
<1>6. LP!CandidatesAreWholeLaps => CandidatesAreWholeLaps
  BY SameLaps
<1> QED
  BY <1>2, <1>3, <1>5, <1>6, PTL DEF PartsSpec, LP!Spec
=============================================================================
