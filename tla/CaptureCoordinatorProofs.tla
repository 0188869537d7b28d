---------------------- MODULE CaptureCoordinatorProofs ----------------------
(* What CaptureCoordinator guarantees for any queue capacities, any number  *)
(* of items and any number of interrupts.                                   *)
EXTENDS CaptureCoordinator, SequenceTheorems, TLAPS

LEMMA StreamNames ==
  /\ "camera" \in Streams /\ "controller" \in Streams /\ "telemetry" \in Streams
  /\ "camera" \in Lossy /\ "controller" \in Lossy /\ "telemetry" \notin Lossy
  /\ Lossy \subseteq Streams
  /\ {"dropped", "stale", "disconnects", "writer_faults"} \subseteq Counters
BY DEF Streams, Lossy, Counters

LEMMA OrderStreams ==
  /\ \A i \in 1..3 : Order[i] \in Streams
  /\ \A s \in Streams : \E i \in 1..3 : Order[i] = s
BY DEF Order, Streams

-----------------------------------------------------------------------------
(* Types. *)

LEMMA FlagsCorrect == Spec => []FlagsOK
<1> USE DEF FlagsOK, mainVars, recorderVars
<1>1. Init => FlagsOK
  BY DEF Init
<1>2. FlagsOK /\ [Next]_vars => FlagsOK'
  <2> SUFFICES ASSUME FlagsOK, [Next]_vars PROVE FlagsOK'
    OBVIOUS
  <2>1. ASSUME NEW s \in Streams, SourceStep(s) PROVE FlagsOK'
    BY <2>1 DEF SourceStep, Yield, Exhausted, SourceRaises, Judge, RaiseFault,
       Put, PutFull
  <2>2. ASSUME NEW s \in Streams, LossyStep(s) PROVE FlagsOK'
    BY <2>2 DEF LossyStep, Evict, ReadDrops, CountDrop, Requeue
  <2>3. CASE CameraDeadline \/ CloseCamera \/ Disconnect \/ RecordStale \/ Overload
    BY <2>3 DEF CameraDeadline, CloseCamera, Disconnect, RecordStale, Overload
  <2>4. CASE Run
    BY <2>4 DEF Run, StartThread, LastTurn, StartFails, LoopTest, DrainTake,
       DrainEmpty, DrainWrite, DrainFails, DrainPass, PassAgain, CheckAlive,
       SetStop, CloseSources, Join, JoinTimesOut, Abandon, CloseRecorder,
       Finalize, FinalizeFails
  <2>5. CASE Interrupt
    BY <2>5 DEF Interrupt, Interrupted, InterruptedCleanup, InterruptedFinalize
  <2>6. CASE Deadline \/ Terminated \/ UNCHANGED vars
    BY <2>6 DEF Deadline, Terminated, vars
  <2> QED
    BY <2>1, <2>2, <2>3, <2>4, <2>5, <2>6, StreamNames
       DEF Next, Camera, Controller, Telemetry
<1> QED
  BY <1>1, <1>2, PTL DEF Spec

LEMMA Incremented ==
  ASSUME NEW S, NEW f \in [S -> Nat], NEW s \in S
  PROVE  [f EXCEPT ![s] = @ + 1] \in [S -> Nat]
OBVIOUS

LEMMA Appended ==
  ASSUME NEW S, NEW f \in [S -> Seq(Nat)], NEW s \in S, NEW n \in Nat
  PROVE  [f EXCEPT ![s] = Append(@, n)] \in [S -> Seq(Nat)]
OBVIOUS

LEMMA Dequeued ==
  ASSUME NEW S, NEW f \in [S -> Seq(Nat)], NEW s \in S, f[s] # <<>>
  PROVE  [f EXCEPT ![s] = Tail(@)] \in [S -> Seq(Nat)]
OBVIOUS

\* The lines of one kind, in the file or in the buffer in front of it.
Lines(c) == events[c] + unflushed[c]

\* A line is written, waits in the buffer, or is lost with a file that is
\* closed; the others keep.
LEMMA LineEffect ==
  ASSUME events \in [Counters -> Nat], unflushed \in [Counters -> Nat],
         NEW kind \in Counters, LineWritten(kind) \/ LineFails(kind)
  PROVE  /\ events' \in [Counters -> Nat] /\ unflushed' \in [Counters -> Nat]
         /\ \A c \in Counters \ {kind} : Lines(c)' = Lines(c)
         /\ recorder = "open" => Lines(kind)' = Lines(kind) + 1
<1>1. CASE LineWritten(kind)
  <2> DEFINE flushed == [c \in Counters |-> events[c] + unflushed[c]]
  <2>1. /\ flushed \in [Counters -> Nat]
        /\ \A c \in Counters : flushed[c] = Lines(c) /\ flushed[c] \in Nat
    BY DEF Lines
  <2>2. /\ events' = [flushed EXCEPT ![kind] = @ + 1]
        /\ unflushed' = [c \in Counters |-> 0]
    BY <1>1 DEF LineWritten, Bumped
  <2> HIDE DEF flushed
  <2>3. events' \in [Counters -> Nat] /\ unflushed' \in [Counters -> Nat]
    BY <2>1, <2>2, Incremented
  <2>4. \A c \in Counters : /\ unflushed'[c] = 0
                            /\ events'[c] = IF c = kind THEN flushed[c] + 1
                                                        ELSE flushed[c]
    BY <2>1, <2>2
  <2> QED  BY <2>1, <2>3, <2>4 DEF Lines
<1>2. CASE recorder # "open" /\ UNCHANGED lines
  BY <1>2 DEF lines, Lines
<1>3. CASE unflushed' = Bumped(unflushed, kind) /\ events' = events
  BY <1>3, Incremented DEF Bumped, Lines
<1> QED  BY <1>1, <1>2, <1>3 DEF LineFails

LEMMA HealthEffect ==
  ASSUME health \in [Counters -> Nat],
         events \in [Counters -> Nat], unflushed \in [Counters -> Nat],
         NEW kind \in Counters, NEW succeeds \in BOOLEAN,
         HealthEvent(kind, succeeds)
  PROVE  /\ health' \in [Counters -> Nat]
         /\ events' \in [Counters -> Nat] /\ unflushed' \in [Counters -> Nat]
         /\ \A c \in Counters \ {kind} : Lines(c)' = Lines(c)
<1>1. CASE UNCHANGED <<health, lines>>
  BY <1>1 DEF lines, Lines
<1>2. CASE /\ health' = Bumped(health, kind)
           /\ LineWritten(kind) \/ LineFails(kind)
  <2>1. health' \in [Counters -> Nat]
    BY <1>2, Incremented DEF Bumped
  <2> QED  BY <1>2, <2>1, LineEffect
<1> QED  BY <1>1, <1>2 DEF HealthEvent

LEMMA FlushEffect ==
  ASSUME events \in [Counters -> Nat], unflushed \in [Counters -> Nat], Flush
  PROVE  /\ events' \in [Counters -> Nat] /\ unflushed' \in [Counters -> Nat]
         /\ \A c \in Counters : events'[c] = Lines(c) /\ unflushed'[c] = 0
BY DEF Flush, Lines

LEMMA DataCorrectInit == Init => DataOK
BY MaxInterruptsAssumption DEF Init, DataOK, Labels

\* The domains of the functions, which the steps of a thread write one by one.
LEMMA DataOfThread ==
  ASSUME DataOK, NEW t \in Streams,
         SourceStep(t) \/ (t \in Lossy /\ LossyStep(t))
  PROVE  DataOK'
<1> USE DEF mainVars, recorderVars, lines, Goto, Loses
<1>1. /\ queue \in [Streams -> Seq(Nat)] /\ taken \in [Streams -> Nat]
      /\ pc \in [Streams -> Labels] /\ fault \in Streams \cup {"main", NoFault}
      /\ abandoned \subseteq Streams /\ taken[t] \in Nat
      /\ health \in [Counters -> Nat] /\ read \in [Lossy -> Nat]
      /\ evicted \in [Lossy -> Nat]
      /\ events \in [Counters -> Nat] /\ unflushed \in [Counters -> Nat]
  BY DEF DataOK
<1>2. CASE Yield(t)
  <2>1. taken' \in [Streams -> Nat]
    <3>1. CASE taken' = taken
      BY <1>1, <3>1
    <3>2. CASE taken' = [taken EXCEPT ![t] = @ + 1]
      BY <1>1, <3>2, Incremented
    <3> QED  BY <1>2, <3>1, <3>2 DEF Yield
  <2>2. pc' \in [Streams -> Labels]
    BY <1>1, <1>2 DEF Yield, Leave, Labels
  <2> QED  BY <1>2, <2>1, <2>2 DEF DataOK, Yield
<1>3. CASE Exhausted(t) \/ SourceRaises(t) \/ Judge(t) \/ PutFull(t)
  <2>1. pc' \in [Streams -> Labels]
    BY <1>1, <1>3 DEF Exhausted, SourceRaises, Judge, PutFull, Leave, Labels
  <2> QED  BY <1>3, <2>1 DEF DataOK, Exhausted, SourceRaises, Judge, PutFull
<1>4. CASE RaiseFault(t)
  <2>1. pc' \in [Streams -> Labels] /\ fault' \in Streams \cup {"main", NoFault}
    BY <1>1, <1>4 DEF RaiseFault, Leave, Labels, Remembered
  <2> QED  BY <1>4, <2>1 DEF DataOK, RaiseFault
<1>5. CASE Put(t)
  <2>1. pc' \in [Streams -> Labels]
    BY <1>1, <1>5 DEF Put, AfterPut, Labels
  <2>2. queue' = [queue EXCEPT ![t] = Append(@, taken[t])]
    BY <1>5 DEF Put, Enqueue
  <2>3. queue' \in [Streams -> Seq(Nat)]
    BY <1>1, <2>2, Appended
  <2> QED  BY <1>5, <2>1, <2>3 DEF DataOK, Put
<1>6. CASE t \in Lossy /\ Evict(t)
  <2>1. pc' \in [Streams -> Labels]
    BY <1>1, <1>6 DEF Evict, Labels
  <2>2. queue' \in [Streams -> Seq(Nat)] /\ evicted' \in [Lossy -> Nat]
    <3>1. CASE queue[t] = <<>>
      BY <1>1, <1>6, <3>1 DEF Evict
    <3>2. CASE queue[t] # <<>>
      <4>1. /\ queue' = [queue EXCEPT ![t] = Tail(@)]
            /\ evicted' = [evicted EXCEPT ![t] = @ + 1]
        BY <1>6, <3>2 DEF Evict, DropOldest
      <4> QED  BY <1>1, <1>6, <3>2, <4>1, Dequeued, Incremented
    <3> QED  BY <3>1, <3>2
  <2> QED  BY <1>6, <2>1, <2>2 DEF DataOK, Evict
<1>7. CASE t \in Lossy /\ ReadDrops(t)
  <2>1. pc' \in [Streams -> Labels] /\ abandoned' \subseteq Streams
    BY <1>1, <1>7 DEF ReadDrops, Labels
  <2>2. health["dropped"] \in Nat
    BY <1>1, StreamNames
  <2>3. read' \in [Lossy -> Nat]
    BY <1>1, <1>7, <2>2 DEF ReadDrops
  <2> QED  BY <1>7, <2>1, <2>3 DEF DataOK, ReadDrops
<1>8. CASE t \in Lossy /\ CountDrop(t)
  <2>1. pc' \in [Streams -> Labels] /\ abandoned' \subseteq Streams
    BY <1>1, <1>8 DEF CountDrop, Labels
  <2>2. read[t] + 1 \in Nat
    BY <1>1, <1>8
  <2>3. health' \in [Counters -> Nat]
    BY <1>1, <1>8, <2>2 DEF CountDrop
  <2>4. events' \in [Counters -> Nat] /\ unflushed' \in [Counters -> Nat]
    <3>1. LineWritten("dropped") \/ LineFails("dropped")
      BY <1>8 DEF CountDrop
    <3> QED  BY <1>1, <3>1, LineEffect, StreamNames
  <2> QED  BY <1>8, <2>1, <2>3, <2>4 DEF DataOK, CountDrop
<1>9. CASE t \in Lossy /\ Requeue(t)
  <2>1. pc' \in [Streams -> Labels] /\ abandoned' \subseteq Streams
    BY <1>1, <1>9 DEF Requeue, AfterPut, Labels
  <2>2. queue' = [queue EXCEPT ![t] = Append(@, taken[t])] \/ queue' = queue
    BY <1>9 DEF Requeue, Enqueue
  <2>3. queue' \in [Streams -> Seq(Nat)]
    <3>1. CASE queue' = [queue EXCEPT ![t] = Append(@, taken[t])]
      BY <1>1, <3>1, Appended
    <3> QED  BY <1>1, <2>2, <3>1
  <2> QED  BY <1>9, <2>1, <2>3 DEF DataOK, Requeue
<1> QED
  BY <1>2, <1>3, <1>4, <1>5, <1>6, <1>7, <1>8, <1>9 DEF SourceStep, LossyStep

LEMMA DataOfOthers ==
  ASSUME DataOK,
         CameraDeadline \/ CloseCamera \/ Disconnect \/ RecordStale \/ Overload
  PROVE  DataOK'
<1> USE DEF mainVars, recorderVars, lines, Goto, Loses
<1>1. /\ pc \in [Streams -> Labels] /\ fault \in Streams \cup {"main", NoFault}
      /\ abandoned \subseteq Streams /\ health \in [Counters -> Nat]
      /\ events \in [Counters -> Nat] /\ unflushed \in [Counters -> Nat]
  BY DEF DataOK
<1>2. CASE CameraDeadline \/ CloseCamera
  <2>1. pc' \in [Streams -> Labels] /\ fault' \in Streams \cup {"main", NoFault}
    BY <1>1, <1>2, StreamNames DEF CameraDeadline, CloseCamera, Labels, Remembered
  <2> QED  BY <1>2, <2>1 DEF DataOK, CameraDeadline, CloseCamera
<1>3. CASE Disconnect \/ RecordStale \/ Overload
  <2>1. /\ pc' \in [Streams -> Labels] /\ abandoned' \subseteq Streams
        /\ fault' \in Streams \cup {"main", NoFault}
    BY <1>1, <1>3, StreamNames DEF Disconnect, RecordStale, Overload, Labels
  <2>2. \E kind \in Counters, succeeds \in BOOLEAN : HealthEvent(kind, succeeds)
    BY <1>3, StreamNames DEF Disconnect, RecordStale, Overload
  <2>3. /\ health' \in [Counters -> Nat] /\ events' \in [Counters -> Nat]
        /\ unflushed' \in [Counters -> Nat]
    BY <1>1, <2>2, HealthEffect
  <2> QED  BY <1>3, <2>1, <2>3 DEF DataOK, Disconnect, RecordStale, Overload
<1> QED  BY <1>2, <1>3

LEMMA DataOfDrain ==
  ASSUME DataOK, DrainTake \/ DrainEmpty \/ DrainWrite \/ DrainFails \/ DrainPass
  PROVE  DataOK'
<1> USE DEF mainVars, recorderVars, threadVars, lines, MainGoto
<1>1. /\ queue \in [Streams -> Seq(Nat)] /\ log \in [Streams -> Seq(Nat)]
      /\ fault \in Streams \cup {"main", NoFault} /\ hand \in Seq(Nat) /\ Len(hand) <= 1
      /\ mainPc # "start" => turn \in 1..4
      /\ hand # <<>> => turn <= 3
  BY SMTT(30) DEF DataOK
<1>2. turn \in 1..4 /\ mainPc \in {"drain", "final"}
  BY <1>1 DEF DrainTake, DrainEmpty, DrainWrite, DrainFails, DrainPass, Draining
<1>3. CASE DrainTake
  <2> DEFINE s == Order[turn]
  <2>1. s \in Streams /\ turn <= 3
    BY <1>2, <1>3, OrderStreams DEF DrainTake
  <2>2. /\ queue[s] # <<>> /\ hand' = <<Head(queue[s])>>
        /\ queue' = [queue EXCEPT ![s] = Tail(@)]
    BY <1>3 DEF DrainTake
  <2> HIDE DEF s
  <2>3. hand' \in Seq(Nat) /\ Len(hand') <= 1 /\ queue' \in [Streams -> Seq(Nat)]
    BY <1>1, <2>1, <2>2, Dequeued
  <2> QED  BY <1>3, <2>1, <2>3 DEF DataOK, DrainTake
<1>4. CASE DrainEmpty
  <2>1. turn' \in 1..4 /\ mainPc' # "start" /\ hand' = <<>>
    BY <1>2, <1>4 DEF DrainEmpty
  <2> QED  BY <1>4, <2>1 DEF DataOK, DrainEmpty
<1>5. CASE DrainWrite
  <2>1. turn' \in 1..4 /\ mainPc' # "start" /\ hand' = <<>>
    BY <1>1, <1>2, <1>5 DEF DrainWrite
  <2>2. log' = log \/ log' = [log EXCEPT ![Order[turn]] = Append(@, Head(hand))]
    BY <1>5 DEF DrainWrite
  <2>3. turn \in 1..3
    BY <1>1, <1>2, <1>5 DEF DrainWrite
  <2>4. log' \in [Streams -> Seq(Nat)]
    <3>1. Order[turn] \in Streams
      BY <2>3, OrderStreams
    <3>2. CASE log' = [log EXCEPT ![Order[turn]] = Append(@, Head(hand))]
      <4>1. Head(hand) \in Nat
        BY <1>1, <1>5 DEF DrainWrite
      <4> QED  BY <1>1, <3>1, <3>2, <4>1, Appended
    <3> QED  BY <1>1, <2>2, <3>2
  <2>5. hand' \in Seq(Nat) /\ Len(hand') <= 1
    BY <2>1
  <2> QED  BY <1>5, <2>1, <2>4, <2>5 DEF DataOK, DrainWrite
<1>6. CASE DrainFails
  <2>1. /\ turn' \in 1..4 /\ mainPc' \in {"stop", "decide"} /\ hand' = <<>>
        /\ fault' \in Streams \cup {"main", NoFault}
    BY <1>1, <1>2, <1>6 DEF DrainFails, Remembered
  <2> QED  BY <1>6, <2>1 DEF DataOK, DrainFails
<1>7. CASE DrainPass
  <2>1. /\ turn' = 1 /\ hand' = hand /\ hand = <<>>
        /\ mainPc' \in {"drain", "final", "alive", "decide"}
    BY <1>1, <1>2, <1>7 DEF DrainPass, PassAgain
  <2> QED  BY <1>7, <2>1 DEF DataOK, DrainPass
<1> QED  BY <1>3, <1>4, <1>5, <1>6, <1>7

LEMMA DataOfMain ==
  ASSUME DataOK,
         \/ StartThread \/ StartFails \/ LoopTest \/ CheckAlive \/ SetStop
         \/ CloseSources \/ Join
  PROVE  DataOK'
<1> USE DEF mainVars, recorderVars, threadVars, lines, MainGoto
<1>1. /\ pc \in [Streams -> Labels] /\ fault \in Streams \cup {"main", NoFault}
      /\ hand \in Seq(Nat) /\ Len(hand) <= 1 /\ turn \in 1..4
      /\ mainPc = "start" => turn \in 1..3
      /\ hand # <<>> => turn <= 3
  BY SMTT(30) DEF DataOK
<1>2. CASE StartThread
  <2>1. turn \in 1..3 /\ Order[turn] \in Streams
    <3>1. turn \in 1..3
      BY <1>1, <1>2 DEF StartThread
    <3> QED  BY <3>1, OrderStreams
  <2>2. pc' \in [Streams -> Labels]
    BY <1>1, <1>2, <2>1 DEF StartThread, Goto, Labels
  <2>3. \/ mainPc' = "start" /\ turn' = turn + 1 /\ turn' \in 1..3
        \/ mainPc' = "loop" /\ turn' = 1
    BY <1>2, <2>1 DEF StartThread, LastTurn
  <2> QED  BY <1>1, <1>2, <2>2, <2>3 DEF DataOK, StartThread
<1>3. CASE \/ StartFails \/ LoopTest \/ CheckAlive \/ SetStop \/ CloseSources
           \/ Join
  <2>1. fault' \in Streams \cup {"main", NoFault}
    BY <1>1, <1>3 DEF StartFails, LoopTest, CheckAlive, SetStop, CloseSources,
       Join, Remembered
  <2>2. /\ turn' \in {turn, 1}
        /\ mainPc' \in {"stop", "drain", "loop", "close", "join", "final"}
    BY <1>3 DEF StartFails, LoopTest, CheckAlive, SetStop, CloseSources, Join
  <2>3. UNCHANGED <<hand, threadVars, queue, recorderVars, interrupts, evicted>>
    BY <1>3 DEF StartFails, LoopTest, CheckAlive, SetStop, CloseSources, Join
  <2> QED  BY <1>1, <2>1, <2>2, <2>3 DEF DataOK
<1> QED  BY <1>2, <1>3

LEMMA DataOfEnd ==
  ASSUME DataOK,
         \/ Abandon \/ CloseRecorder \/ Finalize \/ FinalizeFails \/ Interrupt
  PROVE  DataOK'
<1> USE DEF mainVars, recorderVars, threadVars, lines, MainGoto
<1>1. /\ fault \in Streams \cup {"main", NoFault}
      /\ hand \in Seq(Nat) /\ Len(hand) <= 1 /\ turn \in 1..4
      /\ recorder \in {"open", "broken", "closed"}
      /\ interrupts \in 0..MaxInterrupts
      /\ events \in [Counters -> Nat] /\ unflushed \in [Counters -> Nat]
  BY SMTT(30) DEF DataOK
<1>2. mainPc' \in {"closing", "done", "stop"} /\ turn' = turn /\ hand' \in {hand, <<>>}
  BY DEF Abandon, CloseRecorder, Finalize, FinalizeFails, Interrupt, Interrupted,
     InterruptedCleanup, InterruptedFinalize
<1>8. /\ hand' \in Seq(Nat) /\ Len(hand') <= 1
      /\ hand' # <<>> => turn <= 3
  <2>1. CASE hand' = hand
    <3>1. hand # <<>> => turn <= 3
      BY DEF DataOK
    <3> QED  BY <1>1, <2>1, <3>1
  <2>2. CASE hand' = <<>>
    BY <2>2
  <2> QED  BY <1>2, <2>1, <2>2
<1>3. fault' \in Streams \cup {"main", NoFault}
  BY <1>1 DEF Abandon, CloseRecorder, Finalize, FinalizeFails, Interrupt,
     Interrupted, InterruptedCleanup, InterruptedFinalize, Remembered
<1>4. recorder' \in {"open", "broken", "closed"}
  BY <1>1 DEF Abandon, CloseRecorder, Finalize, FinalizeFails, Interrupt,
     Interrupted, InterruptedCleanup, InterruptedFinalize
<1>5. interrupts' \in 0..MaxInterrupts
  BY <1>1, MaxInterruptsAssumption
     DEF Abandon, CloseRecorder, Finalize, FinalizeFails, Interrupt, Interrupted,
         InterruptedCleanup, InterruptedFinalize
<1>6. events' \in [Counters -> Nat] /\ unflushed' \in [Counters -> Nat]
  <2>1. Flush \/ UNCHANGED lines
    BY DEF Abandon, CloseRecorder, Finalize, FinalizeFails, Interrupt,
       Interrupted, InterruptedCleanup, InterruptedFinalize
  <2> QED  BY <1>1, <2>1, FlushEffect
<1>7. UNCHANGED <<threadVars, queue, log, health, evicted>>
  BY DEF Abandon, CloseRecorder, Finalize, FinalizeFails, Interrupt, Interrupted,
     InterruptedCleanup, InterruptedFinalize
<1> QED  BY <1>1, <1>2, <1>3, <1>4, <1>5, <1>6, <1>7, <1>8 DEF DataOK

LEMMA DataCorrect == Spec => []DataOK
<1>1. DataOK /\ [Next]_vars => DataOK'
  <2> SUFFICES ASSUME DataOK, [Next]_vars PROVE DataOK'
    OBVIOUS
  <2>1. CASE Deadline \/ Terminated \/ UNCHANGED vars
    BY <2>1 DEF DataOK, Deadline, Terminated, vars, mainVars, threadVars,
       recorderVars, lines
  <2>2. CASE Camera \/ Controller \/ Telemetry
    <3>1. ASSUME NEW t \in Streams, SourceStep(t) PROVE DataOK'
      BY <3>1, DataOfThread
    <3>2. ASSUME NEW t \in Lossy, LossyStep(t) PROVE DataOK'
      BY <3>2, DataOfThread, StreamNames
    <3>3. CASE \/ CameraDeadline \/ CloseCamera \/ Disconnect \/ RecordStale
               \/ Overload
      BY <3>3, DataOfOthers
    <3> QED
      BY <2>2, <3>1, <3>2, <3>3, StreamNames DEF Camera, Controller, Telemetry
  <2>3. CASE Run \/ Interrupt
    BY <2>3, DataOfDrain, DataOfMain, DataOfEnd DEF Run
  <2> QED  BY <2>1, <2>2, <2>3 DEF Next
<1> QED
  BY <1>1, DataCorrectInit, PTL DEF Spec

\* The type invariant holds in every reachable state: no handler writes a
\* position, a label, a counter or an item outside its domain.
THEOREM TypeCorrect == Spec => []TypeOK
  BY FlagsCorrect, DataCorrect, PTL DEF TypeOK

-----------------------------------------------------------------------------
(* What one step can do: a step of a source thread, or one of run(). *)

\* A step of the thread of stream t.
ThreadStep(t) == \/ SourceStep(t)
                 \/ t \in Lossy /\ LossyStep(t)
                 \/ t = "camera" /\ (CameraDeadline \/ CloseCamera)
                 \/ t = "controller" /\ (Disconnect \/ RecordStale)
                 \/ t = "telemetry" /\ Overload

MainStep == Run \/ Interrupt \/ Deadline \/ Terminated \/ UNCHANGED vars

LEMMA StepSplit ==
  ASSUME [Next]_vars
  PROVE  MainStep \/ \E t \in Streams : ThreadStep(t)
<1>2. Camera => ThreadStep("camera")
  BY StreamNames DEF Camera, ThreadStep
<1>3. Controller => ThreadStep("controller")
  BY StreamNames DEF Controller, ThreadStep
<1>4. Telemetry => ThreadStep("telemetry")
  BY StreamNames DEF Telemetry, ThreadStep
<1> QED  BY <1>2, <1>3, <1>4, StreamNames DEF Next, MainStep

\* A thread touches nothing of the other streams, and nothing of run().
ThreadEffect(t) ==
  /\ UNCHANGED <<mainVars, log, recorder, manifest>>
  /\ stop => stop'
  /\ fault' = NoFault => fault = NoFault
  /\ Alive(t) /\ pc'[t] # "unstarted"
  /\ \A s \in Streams \ {t} :
       /\ UNCHANGED <<queue[s], pc[s], taken[s]>>
       /\ s \in abandoned' <=> s \in abandoned
       /\ s \in Lossy => evicted'[s] = evicted[s]

LEMMA ThreadFrame ==
  ASSUME DataOK, NEW t \in Streams, ThreadStep(t)
  PROVE  ThreadEffect(t)
<1> USE DEF recorderVars, Goto, Loses, ThreadEffect, Alive
<1>1. /\ pc \in [Streams -> Labels] /\ queue \in [Streams -> Seq(Nat)]
      /\ taken \in [Streams -> Nat] /\ evicted \in [Lossy -> Nat]
  BY DEF DataOK
<1>2. CASE Yield(t) \/ Exhausted(t) \/ SourceRaises(t) \/ Judge(t) \/ PutFull(t)
  BY <1>1, <1>2 DEF Yield, Exhausted, SourceRaises, Judge, PutFull, Leave
<1>3. CASE RaiseFault(t)
  BY <1>1, <1>3 DEF RaiseFault, Leave, Remembered, NoFault, Streams
<1>4. CASE Put(t)
  BY <1>1, <1>4 DEF Put, Enqueue, AfterPut
<1>5. CASE t \in Lossy /\ Evict(t)
  <2>1. CASE queue[t] = <<>>
    BY <1>1, <1>5, <2>1 DEF Evict
  <2>2. CASE queue[t] # <<>>
    BY <1>1, <1>5, <2>2 DEF Evict
  <2> QED  BY <2>1, <2>2
<1>6. CASE t \in Lossy /\ (ReadDrops(t) \/ CountDrop(t))
  BY <1>1, <1>6 DEF ReadDrops, CountDrop
<1>7. CASE t \in Lossy /\ Requeue(t)
  BY <1>1, <1>7 DEF Requeue, Enqueue, AfterPut
<1>8. CASE t = "camera" /\ (CameraDeadline \/ CloseCamera)
  <2>1. /\ UNCHANGED <<mainVars, log, recorder, manifest, queue, taken, abandoned,
                        evicted>>
        /\ fault' = NoFault => fault = NoFault
    BY <1>8 DEF CameraDeadline, CloseCamera, Remembered, NoFault
  <2>3. stop => stop'
    BY Zenon, <1>8 DEF CameraDeadline, CloseCamera
  <2>2. /\ pc[t] \in {"limit", "close"}
        /\ \E label \in {"close", "next", "dead"} : pc' = [pc EXCEPT ![t] = label]
    BY <1>8 DEF CameraDeadline, CloseCamera
  <2> QED  BY <1>1, <2>1, <2>2, <2>3
<1>9. CASE t = "controller" /\ (Disconnect \/ RecordStale)
  <2>1. UNCHANGED <<mainVars, log, recorder, manifest, queue, taken, abandoned,
                    stop, fault, evicted>>
    BY <1>9 DEF Disconnect, RecordStale
  <2>2. /\ pc[t] \in {"next", "stale"}
        /\ \E label \in {"stale", "dead"} : pc' = [pc EXCEPT ![t] = label]
    BY <1>9 DEF Disconnect, RecordStale
  <2> QED  BY <1>1, <2>1, <2>2
<1>10. CASE t = "telemetry" /\ Overload
  BY <1>1, <1>10 DEF Overload, NoFault
<1> QED
  BY <1>2, <1>3, <1>4, <1>5, <1>6, <1>7, <1>8, <1>9, <1>10
     DEF ThreadStep, SourceStep, LossyStep

-----------------------------------------------------------------------------
(* Publication.  PublishedClean is not inductive: it rests on where run() is *)
(* when it learns that the threads have ended and the queues are empty.      *)

\* Every thread is started before run() enters its loop.
ThreadsStarted ==
  /\ mainPc = "start" =>
       \A i \in 1..3 : pc[Order[i]] = "unstarted" <=> i >= turn
  /\ mainPc \notin {"start", "done"} /\ fault = NoFault =>
       \A s \in Streams : pc[s] # "unstarted"

\* A join without a fault leaves no thread that could still put an item.
Joined ==
  mainPc \in {"final", "decide"} /\ fault = NoFault =>
    \A s \in Streams : ~Alive(s)

\* In a pass of the final drain without progress the queues behind are empty.
Drained ==
  /\ mainPc = "final" /\ fault = NoFault /\ ~progressed =>
       \A i \in 1..(turn - 1) : queue[Order[i]] = <<>>
  /\ mainPc = "decide" /\ fault = NoFault =>
       \A s \in Streams : queue[s] = <<>>

\* Only a pass of _drain, or an interrupt in the final one, has an item in hand.
HandInv == hand # <<>> => mainPc \in {"drain", "final", "done"}

PublicationInv == /\ DataOK
                  /\ ThreadsStarted
                  /\ Joined
                  /\ Drained
                  /\ HandInv
                  /\ manifest => mainPc = "done"
                  /\ PublishedClean

LEMMA PublicationOfThread ==
  ASSUME PublicationInv, DataOK', NEW t \in Streams, ThreadStep(t)
  PROVE  PublicationInv'
<1> USE DEF PublicationInv
<1>1. ThreadEffect(t)
  BY ThreadFrame
<1>2. /\ UNCHANGED <<mainPc, turn, progressed, hand, manifest>>
      /\ fault' = NoFault => fault = NoFault
      /\ Alive(t)
      /\ \A s \in Streams : pc[s] = "unstarted" <=> pc'[s] = "unstarted"
  BY <1>1 DEF ThreadEffect, mainVars, Alive
<1>3. ThreadsStarted'
  BY <1>2, OrderStreams DEF ThreadsStarted
<1>4. ~(mainPc \in {"final", "decide"} /\ fault = NoFault) /\ ~manifest
  BY <1>2 DEF Joined, PublishedClean, Alive
<1> QED
  BY <1>2, <1>3, <1>4 DEF Joined, Drained, HandInv, PublishedClean

LEMMA PublicationOfDrain ==
  ASSUME PublicationInv, DataOK',
         DrainTake \/ DrainEmpty \/ DrainWrite \/ DrainFails \/ DrainPass
  PROVE  PublicationInv'
<1> USE DEF PublicationInv, threadVars, recorderVars, mainVars, MainGoto
<1>1. /\ mainPc \in {"drain", "final"} /\ UNCHANGED <<pc, manifest>> /\ ~manifest
      /\ queue \in [Streams -> Seq(Nat)] /\ turn \in 1..4
  BY DEF DrainTake, DrainEmpty, DrainWrite, DrainFails, DrainPass, Draining, DataOK
<1>2. CASE DrainTake
  <2>1. turn \in 1..3 /\ Order[turn] \in Streams
    BY <1>1, <1>2, OrderStreams DEF DrainTake
  <2>2. /\ queue' = [queue EXCEPT ![Order[turn]] = Tail(@)]
        /\ UNCHANGED <<mainPc, turn, progressed, fault>>
    BY <1>2 DEF DrainTake
  <2>3. \A i \in 1..(turn - 1) : i \in 1..3 /\ Order[i] # Order[turn]
    BY <2>1 DEF Order
  <2>4. \A i \in 1..(turn - 1) : queue'[Order[i]] = queue[Order[i]]
    BY <1>1, <2>1, <2>2, <2>3, OrderStreams
  <2>5. Drained'
    BY <1>1, <2>2, <2>4 DEF Drained
  <2> QED
    BY <1>1, <2>2, <2>5 DEF ThreadsStarted, Joined, HandInv, PublishedClean, Alive
<1>3. CASE DrainEmpty
  <2>1. /\ turn \in 1..3 /\ turn' = turn + 1 /\ queue[Order[turn]] = <<>>
        /\ UNCHANGED <<mainPc, progressed, hand, queue, fault>>
    BY <1>1, <1>3 DEF DrainEmpty
  <2>2. Drained'
    BY <1>1, <2>1 DEF Drained
  <2> QED
    BY <1>1, <2>1, <2>2 DEF ThreadsStarted, Joined, HandInv, PublishedClean, Alive
<1>4. CASE DrainWrite
  BY <1>1, <1>4
     DEF DrainWrite, ThreadsStarted, Joined, Drained, HandInv, PublishedClean, Alive
<1>5. CASE DrainFails
  <2>1. mainPc' \in {"stop", "decide"} /\ fault' # NoFault /\ hand' = <<>>
    BY <1>5 DEF DrainFails, Remembered, NoFault
  <2> QED
    BY <1>1, <2>1 DEF ThreadsStarted, Joined, Drained, HandInv, PublishedClean
<1>6. CASE DrainPass
  <2>1. turn = 4 /\ turn' = 1 /\ UNCHANGED <<hand, queue, fault>> /\ hand = <<>>
    BY <1>6 DEF DrainPass, DataOK
  <2>2. CASE progressed
    <3>1. mainPc' = mainPc
      BY <1>6, <2>2 DEF DrainPass, PassAgain
    <3> QED
      BY <1>1, <2>1, <3>1
         DEF ThreadsStarted, Joined, Drained, HandInv, PublishedClean, Alive
  <2>3. CASE ~progressed
    <3>1. mainPc' = IF mainPc = "drain" THEN "alive" ELSE "decide"
      BY <1>6, <2>3 DEF DrainPass, PassAgain
    <3>2. mainPc = "final" /\ fault = NoFault =>
            \A s \in Streams : queue[s] = <<>>
      BY <2>1, <2>3, OrderStreams DEF Drained
    <3> QED
      BY <1>1, <2>1, <3>1, <3>2
         DEF ThreadsStarted, Joined, Drained, HandInv, PublishedClean, Alive
  <2> QED  BY <2>2, <2>3
<1> QED  BY <1>2, <1>3, <1>4, <1>5, <1>6

LEMMA PublicationOfStart ==
  ASSUME PublicationInv, DataOK', StartThread
  PROVE  PublicationInv'
<1> USE DEF PublicationInv, recorderVars
<1>1. /\ turn \in 1..3 /\ pc \in [Streams -> Labels] /\ Order[turn] \in Streams
      /\ mainPc = "start" /\ ~manifest
  BY SMTT(30), OrderStreams DEF StartThread, DataOK
<1>2. /\ pc' = [pc EXCEPT ![Order[turn]] = "next"]
      /\ UNCHANGED <<hand, queue, fault, manifest>>
  BY DEF StartThread, Goto
<1>3. \A i \in 1..3 : pc'[Order[i]] = "unstarted" <=> i >= turn + 1
  BY <1>1, <1>2, OrderStreams DEF ThreadsStarted, Order
<1>4. CASE turn < 3
  <2>1. turn' = turn + 1 /\ mainPc' = mainPc
    BY <1>4 DEF StartThread, LastTurn
  <2> QED
    BY <1>1, <1>2, <1>3, <2>1
       DEF ThreadsStarted, Joined, Drained, HandInv, PublishedClean
<1>5. CASE ~(turn < 3)
  <2>1. turn' = 1 /\ mainPc' = "loop" /\ turn = 3
    BY <1>1, <1>5 DEF StartThread, LastTurn, MainGoto
  <2>2. \A s \in Streams : pc'[s] # "unstarted"
    BY <1>3, <2>1, OrderStreams
  <2> QED
    BY <1>1, <1>2, <2>1, <2>2
       DEF ThreadsStarted, Joined, Drained, HandInv, PublishedClean
<1> QED  BY <1>4, <1>5

LEMMA PublicationInductive ==
  PublicationInv /\ DataOK' /\ [Next]_vars => PublicationInv'
<1> SUFFICES ASSUME PublicationInv, DataOK', [Next]_vars
             PROVE  PublicationInv'
  OBVIOUS
<1> USE DEF PublicationInv, mainVars, recorderVars, threadVars, MainGoto
<1>1. ASSUME NEW t \in Streams, ThreadStep(t) PROVE PublicationInv'
  BY <1>1, PublicationOfThread
<1>2. CASE StartThread
  BY <1>2, PublicationOfStart
<1>3. CASE DrainTake \/ DrainEmpty \/ DrainWrite \/ DrainFails \/ DrainPass
  BY <1>3, PublicationOfDrain
<1>4. CASE StartFails \/ Interrupted
  <2>1. /\ mainPc' = "stop" /\ mainPc # "done" /\ UNCHANGED <<pc, manifest>>
        /\ fault' # NoFault /\ (hand' # <<>> => hand # <<>>)
    BY <1>4 DEF StartFails, Interrupted, Remembered, NoFault
  <2>2. hand' = <<>>
    BY <1>4, <2>1 DEF StartFails, Interrupted, HandInv
  <2> QED
    BY <2>1, <2>2 DEF ThreadsStarted, Joined, Drained, HandInv, PublishedClean
<1>5. CASE LoopTest \/ CheckAlive \/ SetStop \/ CloseSources
  <2>1. /\ mainPc \notin {"start", "drain", "final", "done"}
        /\ mainPc' \in {"stop", "drain", "loop", "close", "join"}
        /\ UNCHANGED <<pc, hand, manifest>>
        /\ fault' = NoFault => fault = NoFault
    BY <1>5 DEF LoopTest, CheckAlive, SetStop, CloseSources, Remembered, NoFault
  <2> QED
    BY <2>1 DEF ThreadsStarted, Joined, Drained, HandInv, PublishedClean
<1>6. CASE Join
  BY <1>6 DEF Join, JoinTimesOut, ThreadsStarted, Joined, Drained, HandInv,
     PublishedClean, Alive, Remembered, NoFault
<1>7. CASE Abandon \/ CloseRecorder \/ FinalizeFails \/ InterruptedCleanup
  <2>1. /\ mainPc \notin {"start", "done"} /\ mainPc' \in {"closing", "done"}
        /\ UNCHANGED <<pc, hand, fault, manifest>>
        /\ mainPc' = "closing" => mainPc = "decide" /\ fault # NoFault
    BY <1>7 DEF Abandon, CloseRecorder, FinalizeFails, InterruptedCleanup
  <2> QED
    BY <2>1 DEF ThreadsStarted, Joined, Drained, HandInv, PublishedClean
<1>8. CASE Finalize \/ InterruptedFinalize
  <2>1. /\ mainPc = "decide" /\ mainPc' = "done" /\ fault = NoFault
        /\ UNCHANGED <<pc, hand, queue, fault>>
    BY <1>8 DEF Finalize, InterruptedFinalize
  <2>2. \A s \in Streams : pc[s] = "dead" /\ queue[s] = <<>>
    BY <2>1 DEF ThreadsStarted, Joined, Drained, Alive
  <2> QED
    BY <2>1, <2>2 DEF ThreadsStarted, Joined, Drained, HandInv, PublishedClean
<1>9. CASE Deadline \/ Terminated \/ UNCHANGED vars
  BY <1>9 DEF Deadline, Terminated, vars, ThreadsStarted, Joined, Drained,
     HandInv, PublishedClean, Alive
<1> QED
  BY <1>1, <1>2, <1>3, <1>4, <1>5, <1>6, <1>7, <1>8, <1>9, StepSplit
     DEF MainStep, Run, Interrupt

LEMMA PublicationInit == Init => PublicationInv
  BY DataCorrectInit, OrderStreams DEF Init, PublicationInv, ThreadsStarted,
     Joined, Drained, HandInv, PublishedClean

\* No session that met a fault, or whose thread outlived the join, is ever
\* published, and what is published has been drained and written completely.
THEOREM PublicationCorrect == Spec => []PublishedClean
<1>1. PublicationInv => PublishedClean
  BY DEF PublicationInv
<1> QED
  BY <1>1, PublicationInit, DataCorrect, PublicationInductive, PTL DEF Spec

-----------------------------------------------------------------------------
(* What a step of run() does to the streams. *)

MainEffect ==
  /\ UNCHANGED <<taken, abandoned, evicted>>
  /\ stop => stop'
  /\ fault' = NoFault => fault = NoFault
  /\ \A s \in Streams : \/ pc'[s] = pc[s]
                        \/ pc[s] = "unstarted" /\ pc'[s] = "next"
  /\ ~DrainTake => queue' = queue
  /\ ~DrainWrite => log' = log

LEMMA MainFrame ==
  ASSUME DataOK, ThreadsStarted, MainStep
  PROVE  MainEffect
<1> USE DEF MainEffect, threadVars, recorderVars
<1>1. CASE StartThread
  <2>1. turn \in 1..3 /\ pc \in [Streams -> Labels] /\ mainPc = "start"
    BY SMTT(30), <1>1 DEF StartThread, DataOK
  <2>2. Order[turn] \in Streams /\ pc[Order[turn]] = "unstarted"
    BY <2>1, OrderStreams DEF ThreadsStarted
  <2>3. /\ UNCHANGED <<queue, log, taken, abandoned, evicted, fault, stop>>
        /\ pc' = [pc EXCEPT ![Order[turn]] = "next"]
    BY <1>1 DEF StartThread, Goto
  <2> QED  BY <2>1, <2>2, <2>3
<1>2. CASE DrainTake \/ DrainWrite
  <2>1. UNCHANGED <<taken, abandoned, evicted, pc, fault>>
    BY <1>2 DEF DrainTake, DrainWrite
  <2>2. /\ stop => stop'
        /\ ~DrainTake => queue' = queue
        /\ ~DrainWrite => log' = log
    BY <1>2 DEF DrainTake, DrainWrite
  <2> QED  BY <2>1, <2>2
<1>3. CASE Run /\ ~StartThread /\ ~DrainTake /\ ~DrainWrite
  <2>1. UNCHANGED <<threadVars, queue, log, evicted>>
    BY <1>3 DEF Run, StartFails, LoopTest, DrainEmpty, DrainFails, DrainPass,
       CheckAlive, SetStop, CloseSources, Join, Abandon, CloseRecorder, Finalize,
       FinalizeFails
  <2>2. stop => stop'
    BY <1>3 DEF Run, StartFails, LoopTest, DrainEmpty, DrainFails, DrainPass,
       CheckAlive, SetStop, CloseSources, Join, Abandon, CloseRecorder, Finalize,
       FinalizeFails
  <2>3. fault' = NoFault => fault = NoFault
    BY <1>3 DEF Run, StartFails, LoopTest, DrainEmpty, DrainFails, DrainPass,
       CheckAlive, SetStop, CloseSources, Join, Abandon, CloseRecorder, Finalize,
       FinalizeFails, Remembered
  <2> QED  BY <2>1, <2>2, <2>3
<1>4. CASE Interrupt \/ Deadline \/ Terminated \/ UNCHANGED vars
  <2>1. UNCHANGED <<threadVars, queue, log, evicted, stop>>
    BY <1>4 DEF Interrupt, Interrupted, InterruptedCleanup, InterruptedFinalize,
       Deadline, Terminated, vars
  <2>2. fault' = NoFault => fault = NoFault
    BY <1>4 DEF Interrupt, Interrupted, InterruptedCleanup, InterruptedFinalize,
       Deadline, Terminated, vars, Remembered
  <2> QED  BY <2>1, <2>2
<1> QED  BY <1>1, <1>2, <1>3, <1>4 DEF MainStep

\* The item in the hand of _drain is that of one stream, until it is written,
\* refused or lost.
LEMMA HeldFrame ==
  ASSUME DataOK, HandInv, MainStep,
         ~(DrainTake \/ DrainWrite \/ DrainFails \/ Interrupted),
         NEW s \in Streams
  PROVE  Held(s)' = Held(s)
<1> USE DEF mainVars
<1>1. hand' = hand
  BY DEF MainStep, Run, StartThread, StartFails, LoopTest, DrainEmpty, DrainPass,
     CheckAlive, SetStop, CloseSources, Join, Abandon, CloseRecorder, Finalize,
     FinalizeFails, Interrupt, InterruptedCleanup, InterruptedFinalize, Deadline,
     Terminated, vars
<1>2. hand # <<>> => turn' = turn
  <2>1. CASE StartThread \/ LoopTest \/ Join
    BY <2>1 DEF StartThread, LoopTest, Join, HandInv
  <2>2. CASE DrainEmpty
    BY <2>2 DEF DrainEmpty
  <2>3. CASE DrainPass
    BY <2>3 DEF DrainPass, DataOK
  <2>4. CASE ~(StartThread \/ LoopTest \/ Join \/ DrainEmpty \/ DrainPass)
    BY <2>4 DEF MainStep, Run, StartFails, CheckAlive, SetStop, CloseSources,
       Abandon, CloseRecorder, Finalize, FinalizeFails, Interrupt,
       InterruptedCleanup, InterruptedFinalize, Deadline, Terminated, vars
  <2> QED  BY <2>1, <2>2, <2>3, <2>4
<1> QED  BY <1>1, <1>2 DEF Held

LEMMA DrainFrame ==
  ASSUME DataOK, DrainTake \/ DrainWrite
  PROVE  turn \in 1..3 /\ Order[turn] \in Streams
<1>1. turn \in 1..4 /\ (hand # <<>> => turn <= 3)
  BY SMTT(30) DEF DrainTake, DrainWrite, Draining, DataOK
<1>2. turn \in 1..3
  BY <1>1 DEF DrainTake, DrainWrite
<1> QED  BY <1>2, OrderStreams

-----------------------------------------------------------------------------
(* The second put_nowait finds room.                                         *)

\* A queue keeps to its bound, and the thread that has just evicted from it
\* finds room, because nobody else puts anything on it.
Room(s) == /\ Len(queue[s]) <= Capacity[s]
           /\ pc[s] \in {"record", "count", "requeue"} => Len(queue[s]) < Capacity[s]

RoomInv == \A s \in Streams : Room(s)

LEMMA RoomInit == Init => RoomInv
  BY CapacityAssumption DEF Init, RoomInv, Room

LEMMA RoomInductive ==
  DataOK /\ ThreadsStarted /\ RoomInv /\ [Next]_vars => RoomInv'
<1> SUFFICES ASSUME DataOK, ThreadsStarted, RoomInv, [Next]_vars, NEW s \in Streams
             PROVE  Room(s)'
  BY DEF RoomInv
<1>1. /\ Room(s) /\ queue[s] \in Seq(Nat) /\ Len(queue[s]) \in Nat
      /\ Capacity[s] \in Nat /\ Capacity[s] > 0 /\ taken[s] \in Nat
      /\ queue \in [Streams -> Seq(Nat)] /\ pc \in [Streams -> Labels]
  BY CapacityAssumption DEF RoomInv, DataOK
<1>2. /\ queue[s] # <<>> => /\ Len(Tail(queue[s])) = Len(queue[s]) - 1
                            /\ Len(queue[s]) > 0
      /\ Len(Append(queue[s], taken[s])) = Len(queue[s]) + 1
  BY <1>1
<1>3. CASE MainStep
  <2>1. MainEffect
    BY <1>3, MainFrame
  <2>2. pc'[s] \in {"record", "count", "requeue"} => pc'[s] = pc[s]
    BY <2>1 DEF MainEffect
  <2>3. \/ queue'[s] = queue[s]
        \/ queue[s] # <<>> /\ queue'[s] = Tail(queue[s])
    <3>1. CASE DrainTake
      <4>1. /\ Order[turn] \in Streams /\ queue[Order[turn]] # <<>>
            /\ queue' = [queue EXCEPT ![Order[turn]] = Tail(@)]
        BY <3>1, DrainFrame DEF DrainTake
      <4> QED  BY <1>1, <4>1
    <3> QED  BY <2>1, <3>1 DEF MainEffect
  <2> QED  BY <1>1, <1>2, <2>2, <2>3 DEF Room
<1>4. ASSUME NEW t \in Streams, ThreadStep(t), t # s
      PROVE  Room(s)'
  <2>1. UNCHANGED <<queue[s], pc[s]>>
    BY <1>4, ThreadFrame DEF ThreadEffect
  <2> QED  BY <1>1, <2>1 DEF Room
<1>5. CASE ThreadStep(s)
  <2> USE DEF Goto, Loses
  <2>1. CASE \/ Yield(s) \/ Exhausted(s) \/ SourceRaises(s) \/ Judge(s)
             \/ RaiseFault(s) \/ PutFull(s)
             \/ s = "camera" /\ (CameraDeadline \/ CloseCamera)
             \/ s = "controller" /\ (Disconnect \/ RecordStale)
             \/ s = "telemetry" /\ Overload
    <3>1. queue' = queue
      BY <2>1 DEF Yield, Exhausted, SourceRaises, Judge, RaiseFault, PutFull,
         CameraDeadline, CloseCamera, Disconnect, RecordStale, Overload
    <3>2. pc'[s] \notin {"record", "count", "requeue"}
      BY <1>1, <2>1 DEF Yield, Exhausted, SourceRaises, Judge, RaiseFault, PutFull,
         CameraDeadline, CloseCamera, Disconnect, RecordStale, Overload, Leave
    <3> QED  BY <1>1, <3>1, <3>2 DEF Room
  <2>2. CASE Put(s)
    <3>1. /\ Len(queue[s]) < Capacity[s]
          /\ pc'[s] \notin {"record", "count", "requeue"}
          /\ queue'[s] = Append(queue[s], taken[s])
      BY <1>1, <2>2 DEF Put, Full, Enqueue, AfterPut
    <3> QED  BY <1>1, <1>2, <3>1 DEF Room
  <2>3. CASE Evict(s)
    <3>1. CASE queue[s] = <<>>
      <4>1. Len(queue'[s]) = 0
        BY <1>1, <2>3, <3>1 DEF Evict
      <4> QED  BY <1>1, <4>1 DEF Room
    <3>2. CASE queue[s] # <<>>
      <4>1. queue'[s] = Tail(queue[s])
        BY <1>1, <2>3, <3>2 DEF Evict, DropOldest
      <4> QED  BY <1>1, <1>2, <3>2, <4>1 DEF Room
    <3> QED  BY <3>1, <3>2
  <2>4. CASE ReadDrops(s) \/ CountDrop(s)
    <3>1. queue' = queue /\ Len(queue[s]) < Capacity[s]
      BY <1>1, <2>4 DEF ReadDrops, CountDrop, Room
    <3> QED  BY <1>1, <3>1 DEF Room
  <2>5. CASE Requeue(s)
    <3>1. /\ Len(queue[s]) < Capacity[s]
          /\ pc'[s] \notin {"record", "count", "requeue"}
          /\ queue'[s] \in {queue[s], Append(queue[s], taken[s])}
      BY <1>1, <2>5 DEF Requeue, Room, Enqueue, AfterPut
    <3> QED  BY <1>1, <1>2, <3>1 DEF Room
  <2> QED
    BY <1>5, <2>1, <2>2, <2>3, <2>4, <2>5 DEF ThreadStep, SourceStep, LossyStep
<1> QED  BY <1>3, <1>4, <1>5, StepSplit

\* _put_drop_oldest never meets a full queue the second time, in spite of the
\* main thread and of the threads of the other streams.
THEOREM RequeueFindsRoom == Spec => []RequeueHasRoom
<1>1. Init => PublicationInv /\ RoomInv
  BY PublicationInit, RoomInit
<1>2. PublicationInv => DataOK /\ ThreadsStarted
  BY DEF PublicationInv
<1>3. DataOK /\ RoomInv => RequeueHasRoom
  <2> SUFFICES ASSUME DataOK, RoomInv, NEW s \in Lossy, pc[s] = "requeue"
               PROVE  ~Full(s)
    BY DEF RequeueHasRoom
  <2>1. s \in Streams
    BY StreamNames
  <2>2. Len(queue[s]) \in Nat /\ Capacity[s] \in Nat
    BY <2>1, CapacityAssumption DEF DataOK
  <2> QED  BY <2>1, <2>2 DEF RoomInv, Room, Full
<1> QED
  BY <1>1, <1>2, <1>3, DataCorrect, PublicationInductive, RoomInductive, PTL DEF Spec

-----------------------------------------------------------------------------
(* What becomes of the items of one stream in a step.                        *)

\* A thread that loses the item in its hand takes no other; without a fault it
\* ends only because the session is stopping.
Abandoned(s) ==
  s \in abandoned => /\ pc[s] \in {"caught", "raise", "close", "dead"}
                     /\ LostWhileStopping(s) \/ fault # NoFault

AbandonInv == \A s \in Streams : Abandoned(s)

LEMMA AbandonInductive ==
  DataOK /\ ThreadsStarted /\ AbandonInv /\ [Next]_vars => AbandonInv'
<1> SUFFICES ASSUME DataOK, ThreadsStarted, AbandonInv, [Next]_vars,
                    NEW s \in Streams, s \in abandoned'
             PROVE  /\ pc'[s] \in {"caught", "raise", "close", "dead"}
                    /\ LostWhileStopping(s)' \/ fault' # NoFault
  BY DEF AbandonInv, Abandoned
<1> USE DEF LostWhileStopping
<1>1. Abandoned(s) /\ pc \in [Streams -> Labels]
  BY DEF AbandonInv, DataOK
<1>2. CASE MainStep
  BY <1>1, <1>2, MainFrame DEF MainEffect, Abandoned
<1>3. ASSUME NEW t \in Streams, ThreadStep(t)
      PROVE  /\ pc'[s] \in {"caught", "raise", "close", "dead"}
             /\ LostWhileStopping(s)' \/ fault' # NoFault
  <2>1. ThreadEffect(t)
    BY <1>3, ThreadFrame
  <2>2. CASE s # t
    BY <1>1, <2>1, <2>2 DEF ThreadEffect, Abandoned
  <2>3. CASE s = t
    <3> USE DEF Goto, Loses, Leave
    <3>1. ASSUME pc'[s] = "caught"
          PROVE  /\ pc'[s] \in {"caught", "raise", "close", "dead"}
                 /\ LostWhileStopping(s)' \/ fault' # NoFault
      BY <3>1
    <3>2. CASE pc[s] = "caught" \/ pc[s] = "raise"
      <4>1. Judge(s) \/ RaiseFault(s)
        BY <1>3, <2>3, <3>2
           DEF ThreadStep, SourceStep, LossyStep, Yield, Exhausted, SourceRaises,
               Put, PutFull, Evict, ReadDrops, CountDrop, Requeue, CameraDeadline,
               CloseCamera, Disconnect, RecordStale, Overload
      <4>2. CASE Judge(s)
        <5>1. /\ pc'[s] \in {"raise", "close", "dead"} /\ stop' = stop
              /\ pc'[s] # "raise" => stop
          BY <1>1, <4>2 DEF Judge
        <5> QED  BY <5>1
      <4>3. CASE RaiseFault(s)
        <5>1. pc'[s] \in {"close", "dead"} /\ fault' # NoFault
          BY <1>1, <4>3 DEF RaiseFault, Remembered, NoFault, Streams
        <5> QED  BY <5>1
      <4> QED  BY <4>1, <4>2, <4>3
    <3>3. CASE pc[s] = "close" \/ pc[s] = "dead"
      <4>1. pc[s] = "close" /\ CloseCamera /\ s = "camera"
        BY <1>3, <2>3, <3>3
           DEF ThreadStep, SourceStep, LossyStep, Yield, Exhausted, SourceRaises,
               Judge, RaiseFault, Put, PutFull, Evict, ReadDrops, CountDrop,
               Requeue, CameraDeadline, CloseCamera, Disconnect, RecordStale,
               Overload
      <4>2. pc'[s] = "dead" /\ abandoned' = abandoned
        BY <1>1, <4>1 DEF CloseCamera
      <4> QED  BY <1>1, <2>1, <3>3, <4>2 DEF ThreadEffect, Abandoned
    <3>4. CASE s \notin abandoned
      <4>1. pc'[s] = "caught"
        BY <1>1, <1>3, <2>3, <3>4
           DEF ThreadStep, SourceStep, LossyStep, Yield, Exhausted, SourceRaises,
               Judge, RaiseFault, Put, PutFull, Evict, ReadDrops, CountDrop,
               Requeue, CameraDeadline, CloseCamera, Disconnect, RecordStale,
               Overload
      <4> QED  BY <3>1, <4>1
    <3> QED  BY <1>1, <3>2, <3>3, <3>4 DEF Abandoned
  <2> QED  BY <2>2, <2>3
<1> QED  BY <1>2, <1>3, StepSplit

KeepsEvicted(s) == s \in Lossy => evicted'[s] = evicted[s]

Unmoved(s) == /\ UNCHANGED <<queue[s], log[s], Held(s), Arrived(s)>>
              /\ KeepsEvicted(s)

Enqueues(s) == /\ s \notin abandoned
               /\ queue'[s] = Append(queue[s], Arrived(s) + 1)
               /\ Arrived(s)' = Arrived(s) + 1
               /\ UNCHANGED <<log[s], Held(s)>> /\ KeepsEvicted(s)

Dequeues(s) == queue[s] # <<>> /\ queue'[s] = Tail(queue[s])

Evicts(s) == /\ s \in Lossy /\ Dequeues(s)
             /\ evicted'[s] = evicted[s] + 1
             /\ UNCHANGED <<log[s], Held(s), Arrived(s)>>

Takes(s) == /\ Dequeues(s)
            /\ Held(s) = <<>> /\ Held(s)' = <<Head(queue[s])>>
            /\ UNCHANGED <<log[s], Arrived(s)>> /\ KeepsEvicted(s)

Stores(s) == /\ mainPc \in {"drain", "final"} /\ ~FrameLimit(s)
             /\ hand # <<>> /\ Held(s) = hand /\ Held(s)' = <<>>
             /\ log'[s] = Append(log[s], Head(hand))
             /\ UNCHANGED <<queue[s], Arrived(s)>> /\ KeepsEvicted(s)

\* Beyond the frame limit, or with a fault.
Discards(s) == /\ FrameLimit(s) \/ fault' # NoFault
               /\ hand # <<>> /\ Held(s) = hand /\ Held(s)' = <<>>
               /\ UNCHANGED <<queue[s], log[s], Arrived(s)>> /\ KeepsEvicted(s)

OwnStep(s) == Unmoved(s) \/ Enqueues(s) \/ Evicts(s)

DrainStep(s) == Takes(s) \/ Stores(s) \/ Discards(s)

\* What a thread does to its own stream; it gives up one item at most.
LEMMA ThreadOwn ==
  ASSUME DataOK, RoomInv, AbandonInv, NEW t \in Streams, ThreadStep(t)
  PROVE  /\ OwnStep(t)
         /\ \/ abandoned' = abandoned
            \/ /\ abandoned' = abandoned \cup {t} /\ t \notin abandoned
               /\ Unmoved(t)
<1> USE DEF Goto, KeepsEvicted, recorderVars
<1>1. /\ Room(t) /\ pc \in [Streams -> Labels] /\ taken[t] \in Nat
      /\ taken[t] - 1 + 1 = taken[t] /\ taken[t] + 1 - 1 = taken[t]
      /\ queue \in [Streams -> Seq(Nat)] /\ taken \in [Streams -> Nat]
      /\ queue[t] \in Seq(Nat) /\ Len(queue[t]) \in Nat
      /\ evicted \in [Lossy -> Nat] /\ Capacity[t] \in Nat
  BY CapacityAssumption DEF RoomInv, DataOK
<1>2. pc[t] \notin {"caught", "raise", "close", "dead"} => t \notin abandoned
  BY DEF AbandonInv, Abandoned
<1>3. UNCHANGED <<log[t], Held(t)>>
  BY ThreadFrame DEF ThreadEffect, mainVars, Held
<1>4. CASE Yield(t)
  <2>1. UNCHANGED <<queue, evicted, abandoned>> /\ pc[t] = "next"
    BY <1>4 DEF Yield
  <2>2. Arrived(t)' = Arrived(t)
    <3>1. CASE stop
      <4>1. taken' = taken /\ pc'[t] \in {"close", "dead"}
        BY <1>1, <1>4, <3>1 DEF Yield, Leave
      <4> QED  BY <1>2, <2>1, <4>1 DEF Arrived, InHand
    <3>2. CASE ~stop
      <4>1. taken'[t] = taken[t] + 1 /\ pc'[t] = "put"
        BY <1>1, <1>4, <3>2 DEF Yield
      <4> QED  BY <1>1, <1>2, <2>1, <4>1 DEF Arrived, InHand
    <3> QED  BY <3>1, <3>2
  <2> QED  BY <1>3, <2>1, <2>2 DEF OwnStep, Unmoved
<1>5. CASE \/ Exhausted(t) \/ SourceRaises(t) \/ Judge(t) \/ RaiseFault(t)
           \/ PutFull(t)
           \/ t = "camera" /\ (CameraDeadline \/ CloseCamera)
           \/ t = "controller" /\ (Disconnect \/ RecordStale)
  <2>1. UNCHANGED <<queue, evicted, taken, abandoned>>
    BY <1>5 DEF Exhausted, SourceRaises, Judge, RaiseFault, PutFull,
       CameraDeadline, CloseCamera, Disconnect, RecordStale
  <2>2. InHand(t)' <=> InHand(t)
    BY <1>1, <1>5 DEF Exhausted, SourceRaises, Judge, RaiseFault, PutFull,
       CameraDeadline, CloseCamera, Disconnect, RecordStale, InHand, Leave
  <2> QED  BY <1>3, <2>1, <2>2 DEF OwnStep, Unmoved, Arrived
<1>6. CASE \/ Put(t)
           \/ Requeue(t) /\ ~Full(t)
  <2>1. /\ queue'[t] = Append(queue[t], taken[t])
        /\ UNCHANGED <<evicted, taken, abandoned>>
        /\ InHand(t) /\ pc'[t] \in {"limit", "next"}
    BY <1>1, <1>6 DEF Put, Requeue, Enqueue, AfterPut, InHand
  <2>2. t \notin abandoned
    BY <1>2, <2>1 DEF InHand
  <2>3. Arrived(t) = taken[t] - 1 /\ Arrived(t)' = taken[t]
    BY <2>1, <2>2 DEF Arrived, InHand
  <2> QED  BY <1>1, <1>3, <2>1, <2>2, <2>3 DEF OwnStep, Enqueues
<1>7. CASE t \in Lossy /\ Evict(t)
  <2>1. /\ pc[t] = "evict" /\ pc'[t] = "record" /\ UNCHANGED <<taken, abandoned>>
    BY <1>1, <1>7 DEF Evict
  <2>2. Arrived(t)' = Arrived(t)
    BY <2>1 DEF Arrived, InHand
  <2>3. CASE queue[t] = <<>>
    <3>1. UNCHANGED <<queue, evicted>>
      BY <1>7, <2>3 DEF Evict
    <3> QED  BY <1>3, <2>1, <2>2, <3>1 DEF OwnStep, Unmoved
  <2>4. CASE queue[t] # <<>>
    <3>1. queue'[t] = Tail(queue[t]) /\ evicted'[t] = evicted[t] + 1
      BY <1>1, <1>7, <2>4 DEF Evict, DropOldest
    <3> QED  BY <1>3, <1>7, <2>1, <2>2, <2>4, <3>1 DEF OwnStep, Evicts, Dequeues
  <2> QED  BY <2>3, <2>4
\* The item in hand counts neither before nor after it is given up.
<1>8. ASSUME UNCHANGED <<queue, evicted, taken>>, InHand(t), t \notin abandoned,
             \/ Loses(t)
             \/ UNCHANGED abandoned /\ InHand(t)'
      PROVE  Unmoved(t)
  <2>1. Arrived(t) = taken[t] - 1
    BY <1>8 DEF Arrived
  <2>2. Arrived(t)' = taken[t] - 1
    BY <1>8 DEF Arrived, Loses
  <2> QED  BY <1>3, <1>8, <2>1, <2>2 DEF Unmoved
<1>9. CASE \/ ReadDrops(t) \/ CountDrop(t)
           \/ t = "telemetry" /\ Overload
  <2>1. UNCHANGED <<queue, evicted, taken>> /\ InHand(t)
    BY <1>9 DEF ReadDrops, CountDrop, Overload, InHand
  <2>2. t \notin abandoned
    BY <1>2, <2>1 DEF InHand
  <2>3. Loses(t) \/ (UNCHANGED abandoned /\ \E l \in {"count", "requeue"} : Goto(t, l))
    BY <1>9 DEF ReadDrops, CountDrop, Overload
  <2>4. Loses(t) \/ (UNCHANGED abandoned /\ InHand(t)')
    BY <1>1, <2>3 DEF InHand
  <2>5. Unmoved(t)
    BY <1>8, <2>1, <2>2, <2>4
  <2> QED  BY <2>2, <2>4, <2>5 DEF OwnStep, Loses
<1>10. CASE Requeue(t) /\ Full(t)
  BY <1>1, <1>10 DEF Requeue, Room, Full
<1> QED
  BY <1>4, <1>5, <1>6, <1>7, <1>9, <1>10 DEF ThreadStep, SourceStep, LossyStep

\* One step moves the items of one stream at most.
LEMMA StreamStep ==
  ASSUME DataOK, ThreadsStarted, HandInv, RoomInv, AbandonInv, [Next]_vars
  PROVE  \/ \A s \in Streams : Unmoved(s)
         \/ \E t \in Streams : /\ \/ OwnStep(t) /\ Alive(t)
                                  \/ DrainStep(t)
                               /\ \A s \in Streams \ {t} : Unmoved(s)
<1>1. ASSUME NEW t \in Streams, ThreadStep(t)
      PROVE  /\ OwnStep(t) /\ Alive(t)
             /\ \A s \in Streams \ {t} : Unmoved(s)
  BY <1>1, ThreadFrame, ThreadOwn
     DEF ThreadEffect, mainVars, Unmoved, Held, KeepsEvicted, Arrived, InHand
<1>2. CASE MainStep
  <2>1. MainEffect
    BY <1>2, MainFrame
  <2>2. \A s \in Streams : Arrived(s)' = Arrived(s) /\ KeepsEvicted(s)
    BY <2>1 DEF MainEffect, Arrived, InHand, KeepsEvicted
  <2>3. queue \in [Streams -> Seq(Nat)] /\ log \in [Streams -> Seq(Nat)]
    BY DEF DataOK
  <2>4. CASE DrainTake \/ DrainWrite
    <3>1. PICK t \in Streams : t = Order[turn] /\ turn \in 1..3
      BY <2>4, DrainFrame
    <3>2. \A s \in Streams \ {t} : Held(s) = <<>>
      BY <3>1 DEF Held
    <3>3. CASE DrainTake
      <4>1. /\ hand = <<>> /\ hand' = <<Head(queue[t])>> /\ turn' = turn
            /\ queue[t] # <<>> /\ queue' = [queue EXCEPT ![t] = Tail(@)]
            /\ log' = log
        BY <3>1, <3>3 DEF DrainTake, recorderVars
      <4>2. hand' # <<>>
        BY <4>1
      <4>3. Held(t) = <<>> /\ Held(t)' = <<Head(queue[t])>>
        BY <3>1, <4>1, <4>2 DEF Held
      <4>4. \A s \in Streams \ {t} : Held(s)' = <<>>
        BY <3>1, <4>1 DEF Held
      <4>5. \A s \in Streams \ {t} : Unmoved(s)
        BY <2>2, <2>3, <3>1, <3>2, <4>1, <4>4 DEF Unmoved
      <4>6. Takes(t)
        BY <2>2, <2>3, <3>1, <4>1, <4>3 DEF Takes, Dequeues
      <4> QED  BY <3>1, <4>5, <4>6 DEF DrainStep
    <3>4. CASE DrainWrite
      <4>1. /\ hand # <<>> /\ hand' = <<>> /\ queue' = queue
            /\ mainPc \in {"drain", "final"}
            /\ \/ ~FrameLimit(t) /\ log' = [log EXCEPT ![t] = Append(@, Head(hand))]
               \/ FrameLimit(t) /\ log' = log
        BY <3>1, <3>4 DEF DrainWrite, Draining
      <4>2. Held(t) = hand /\ \A s \in Streams : Held(s)' = <<>>
        BY <3>1, <4>1 DEF Held
      <4>3. \A s \in Streams \ {t} : Unmoved(s)
        BY <2>2, <2>3, <3>1, <3>2, <4>1, <4>2 DEF Unmoved
      <4>4. queue'[t] = queue[t] /\ Held(t)' = <<>>
        BY <3>1, <4>1, <4>2
      <4>5. Arrived(t)' = Arrived(t) /\ KeepsEvicted(t)
        BY <2>2, <3>1
      <4>6. ASSUME FrameLimit(t) PROVE Discards(t)
        <5>1. log'[t] = log[t]
          BY <4>1, <4>6
        <5> QED
          BY <4>1, <4>2, <4>4, <4>5, <4>6, <5>1, Zenon DEF Discards
      <4>7. ASSUME ~FrameLimit(t) PROVE Stores(t)
        <5>1. log'[t] = Append(log[t], Head(hand))
          BY <2>3, <3>1, <4>1, <4>7
        <5> QED
          BY <4>1, <4>2, <4>4, <4>5, <4>7, <5>1, Zenon DEF Stores
      <4>8. Stores(t) \/ Discards(t)
        BY <4>6, <4>7
      <4> QED  BY <3>1, <4>3, <4>8 DEF DrainStep
    <3> QED  BY <2>4, <3>3, <3>4
  <2>5. CASE (DrainFails \/ Interrupted) /\ ~(DrainTake \/ DrainWrite)
    <3>1. /\ hand' = <<>> /\ fault' # NoFault /\ UNCHANGED <<queue, log>>
      BY <2>1, <2>5 DEF DrainFails, Interrupted, MainEffect, Remembered, NoFault
    <3>2. \A s \in Streams : Held(s)' = <<>>
      BY <3>1 DEF Held
    <3>3. CASE hand = <<>>
      BY <2>2, <3>1, <3>2, <3>3 DEF Unmoved, Held
    <3>4. CASE hand # <<>>
      <4>1. turn \in 1..3
        BY <2>5, <3>4 DEF DrainFails, Interrupted, HandInv, DataOK
      <4>2. PICK t \in Streams : t = Order[turn]
        BY <4>1, OrderStreams
      <4>3. Held(t) = hand /\ \A s \in Streams \ {t} : Held(s) = <<>>
        BY <3>4, <4>2 DEF Held
      <4>4. \A s \in Streams \ {t} : Unmoved(s)
        BY <2>2, <3>1, <3>2, <4>2, <4>3 DEF Unmoved
      <4>5. Arrived(t)' = Arrived(t) /\ KeepsEvicted(t) /\ Held(t)' = <<>>
        BY <2>2, <3>2, <4>2
      <4>6. queue'[t] = queue[t] /\ log'[t] = log[t]
        BY <3>1
      <4>7. Discards(t)
        <5> QED
          BY <3>1, <3>4, <4>3, <4>5, <4>6, Zenon DEF Discards
      <4> QED  BY <4>2, <4>4, <4>7 DEF DrainStep
    <3> QED  BY <3>3, <3>4
  <2>6. CASE ~(DrainTake \/ DrainWrite \/ DrainFails \/ Interrupted)
    BY <1>2, <2>1, <2>2, <2>6, HeldFrame DEF MainEffect, Unmoved
  <2> QED  BY <2>4, <2>5, <2>6
<1> QED  BY <1>1, <1>2, StepSplit

-----------------------------------------------------------------------------
(* All that the invariants of the streams rest on. *)

\* The recorder is open until run() has decided.
OpenInv == mainPc \notin {"closing", "done"} => recorder = "open"

CoordInv == PublicationInv /\ RoomInv /\ AbandonInv /\ OpenInv

LEMMA CoordInit == Init => CoordInv
  BY PublicationInit, RoomInit DEF CoordInv, AbandonInv, Abandoned, OpenInv, Init

LEMMA OpenInductive == DataOK /\ OpenInv /\ [Next]_vars => OpenInv'
<1> SUFFICES ASSUME DataOK, OpenInv, [Next]_vars PROVE OpenInv'
  OBVIOUS
<1> USE DEF recorderVars, mainVars
<1>1. ASSUME NEW t \in Streams, ThreadStep(t) PROVE OpenInv'
  BY <1>1, ThreadFrame DEF ThreadEffect, OpenInv
<1>2. CASE Abandon \/ CloseRecorder \/ Finalize \/ FinalizeFails
           \/ InterruptedFinalize
  BY <1>2 DEF Abandon, CloseRecorder, Finalize, FinalizeFails,
     InterruptedFinalize, MainGoto, OpenInv
<1>3. CASE /\ MainStep
           /\ ~(Abandon \/ CloseRecorder \/ Finalize \/ FinalizeFails
                  \/ InterruptedFinalize)
  <2>1. /\ recorder' = recorder
        /\ mainPc \in {"closing", "done"} => mainPc' = mainPc
    BY <1>3 DEF MainStep, Run, StartThread, StartFails, LoopTest, DrainTake,
       DrainEmpty, DrainWrite, DrainFails, DrainPass, CheckAlive, SetStop,
       CloseSources, Join, Interrupt, Interrupted, InterruptedCleanup, Deadline,
       Terminated, vars, Draining
  <2> QED  BY <2>1 DEF OpenInv
<1> QED  BY <1>1, <1>2, <1>3, StepSplit

LEMMA CoordFacts ==
  CoordInv => /\ DataOK /\ ThreadsStarted /\ HandInv /\ RoomInv /\ AbandonInv
              /\ OpenInv /\ Drained /\ Joined /\ PublishedClean
              /\ (manifest => mainPc = "done")
  BY DEF CoordInv, PublicationInv

LEMMA CoordInductive == CoordInv /\ DataOK' /\ [Next]_vars => CoordInv'
  BY CoordFacts, PublicationInductive, RoomInductive, AbandonInductive,
     OpenInductive DEF CoordInv

LEMMA FaultStays == DataOK /\ ThreadsStarted /\ [Next]_vars /\ fault' = NoFault
                      => fault = NoFault
<1> SUFFICES ASSUME DataOK, ThreadsStarted, [Next]_vars, fault' = NoFault
             PROVE  fault = NoFault
  OBVIOUS
<1>1. ASSUME NEW t \in Streams, ThreadStep(t) PROVE fault = NoFault
  BY <1>1, ThreadFrame DEF ThreadEffect
<1>2. CASE MainStep
  BY <1>2, MainFrame DEF MainEffect
<1> QED  BY <1>1, <1>2, StepSplit

-----------------------------------------------------------------------------
(* The items of a stream as two sequences: what is written or about to be,   *)
(* and what is queued.                                                       *)

Written(s) == log[s] \o Held(s)

LEMMA OneItem ==
  ASSUME NEW l \in Seq(Nat), NEW h \in Seq(Nat), h # <<>>, Len(h) <= 1
  PROVE  Head(h) \in Nat /\ l \o h = Append(l, Head(h))
<1>0. Len(h) \in Nat /\ Len(h) # 0
  BY EmptySeq
<1>1. Len(h) = 1 /\ h[1] \in Nat /\ Head(h) = h[1]
  <2>0. \A n \in Nat : n # 0 /\ n <= 1 => n = 1
    OBVIOUS
  <2>1. Len(h) = 1
    BY <1>0, <2>0, Zenon
  <2>2. h[1] \in Nat
    BY <2>1, ElementOfSeq
  <2>3. Head(h) = h[1]
    OBVIOUS
  <2> QED  BY <2>1, <2>2, <2>3
<1>2. h = <<h[1]>>
  BY <1>1
<1>3. Append(l, h[1]) = l \o <<h[1]>>
  BY <1>1, AppendIsConcat
<1> QED  BY <1>1, <1>2, <1>3

LEMMA WrittenFacts ==
  ASSUME DataOK, NEW s \in Streams
  PROVE  /\ log[s] \in Seq(Nat) /\ queue[s] \in Seq(Nat) /\ Held(s) \in Seq(Nat)
         /\ Written(s) \in Seq(Nat)
         /\ Len(Written(s)) = Len(log[s]) + Len(Held(s))
         /\ Held(s) = <<>> => Written(s) = log[s]
         /\ Held(s) # <<>> => /\ Held(s) = hand /\ Head(hand) \in Nat
                              /\ Written(s) = Append(log[s], Head(hand))
<1>1. /\ log[s] \in Seq(Nat) /\ queue[s] \in Seq(Nat) /\ Held(s) \in Seq(Nat)
      /\ Held(s) = <<>> \/ Held(s) = hand
      /\ hand \in Seq(Nat) /\ Len(hand) <= 1
  BY DEF DataOK, Held
<1>2. Held(s) = <<>> => Written(s) = log[s]
  BY <1>1, ConcatEmptySeq DEF Written
<1>3. Held(s) # <<>> => /\ Held(s) = hand /\ Head(hand) \in Nat
                        /\ Written(s) = Append(log[s], Head(hand))
  BY <1>1, OneItem DEF Written
<1>4. Written(s) \in Seq(Nat) /\ Len(Written(s)) = Len(log[s]) + Len(Held(s))
  BY <1>1, ConcatProperties DEF Written
<1> QED  BY <1>1, <1>2, <1>3, <1>4

LEMMA WrittenNext ==
  ASSUME DataOK', NEW s \in Streams
  PROVE  /\ Written(s)' \in Seq(Nat)
         /\ Held(s)' = <<>> => Written(s)' = log'[s]
<1>1. log'[s] \in Seq(Nat) /\ Held(s)' \in Seq(Nat)
  BY DEF DataOK, Held
<1>2. Written(s)' = log'[s] \o Held(s)'
  BY DEF Written
<1> QED  BY <1>1, <1>2, ConcatProperties, ConcatEmptySeq

ArrivedOK == \A s \in Streams : Arrived(s) \in Nat

\* What a step does to the two sequences, and to the number of items put.
LEMMA WrittenStep ==
  ASSUME CoordInv, DataOK', [Next]_vars, NEW s \in Streams
  PROVE  \/ UNCHANGED <<Written(s), queue[s], Arrived(s)>> /\ KeepsEvicted(s)
         \/ /\ queue'[s] = Append(queue[s], Arrived(s) + 1)
            /\ Arrived(s)' = Arrived(s) + 1
            /\ Written(s)' = Written(s) /\ KeepsEvicted(s)
         \/ /\ s \in Lossy /\ queue[s] # <<>> /\ queue'[s] = Tail(queue[s])
            /\ evicted'[s] = evicted[s] + 1
            /\ UNCHANGED <<Written(s), Arrived(s)>>
         \/ /\ queue[s] # <<>> /\ queue'[s] = Tail(queue[s])
            /\ Written(s)' = Append(Written(s), Head(queue[s]))
            /\ log'[s] = log[s]
            /\ Arrived(s)' = Arrived(s) /\ KeepsEvicted(s)
         \/ /\ \E x \in Nat : Written(s) = Append(Written(s)', x)
            /\ FrameLimit(s) \/ fault' # NoFault
            /\ log'[s] = log[s]
            /\ UNCHANGED <<queue[s], Arrived(s)>> /\ KeepsEvicted(s)
<1> DEFINE Goal ==
         \/ UNCHANGED <<Written(s), queue[s], Arrived(s)>> /\ KeepsEvicted(s)
         \/ /\ queue'[s] = Append(queue[s], Arrived(s) + 1)
            /\ Arrived(s)' = Arrived(s) + 1
            /\ Written(s)' = Written(s) /\ KeepsEvicted(s)
         \/ /\ s \in Lossy /\ queue[s] # <<>> /\ queue'[s] = Tail(queue[s])
            /\ evicted'[s] = evicted[s] + 1
            /\ UNCHANGED <<Written(s), Arrived(s)>>
         \/ /\ queue[s] # <<>> /\ queue'[s] = Tail(queue[s])
            /\ Written(s)' = Append(Written(s), Head(queue[s]))
            /\ log'[s] = log[s]
            /\ Arrived(s)' = Arrived(s) /\ KeepsEvicted(s)
         \/ /\ \E x \in Nat : Written(s) = Append(Written(s)', x)
            /\ FrameLimit(s) \/ fault' # NoFault
            /\ log'[s] = log[s]
            /\ UNCHANGED <<queue[s], Arrived(s)>> /\ KeepsEvicted(s)
<1>1. Unmoved(s) \/ OwnStep(s) \/ DrainStep(s)
  BY CoordFacts, StreamStep
<1>2. /\ Held(s) = <<>> => Written(s) = log[s]
      /\ Held(s) # <<>> => /\ Held(s) = hand /\ Head(hand) \in Nat
                           /\ Written(s) = Append(log[s], Head(hand))
  BY CoordFacts, WrittenFacts
<1>3. log'[s] = log[s] /\ Held(s)' = Held(s) => Written(s)' = Written(s)
  BY DEF Written
<1>4. /\ log[s] \in Seq(Nat) /\ log'[s] \in Seq(Nat)
      /\ queue[s] # <<>> => Head(queue[s]) \in Nat
  <2>1. log \in [Streams -> Seq(Nat)] /\ log' \in [Streams -> Seq(Nat)]
    BY CoordFacts DEF DataOK
  <2>2. queue[s] \in Seq(Nat)
    BY CoordFacts DEF DataOK
  <2>3. queue[s] # <<>> => Head(queue[s]) \in Nat
    BY <2>2
  <2> QED  BY <2>1, <2>3
<1>5. Held(s)' = <<>> => Written(s)' = log'[s]
  BY <1>4, ConcatEmptySeq DEF Written
<1>6. CASE Unmoved(s)
  BY <1>3, <1>6 DEF Unmoved
<1>7. CASE Enqueues(s)
  BY <1>3, <1>7 DEF Enqueues
<1>8. CASE Evicts(s)
  BY <1>3, <1>8 DEF Evicts, Dequeues
<1>9. CASE Takes(s)
  <2>1. Written(s) = log[s] /\ log'[s] = log[s]
    BY <1>2, <1>9 DEF Takes
  <2>2. Written(s)' = log[s] \o <<Head(queue[s])>>
    BY <1>9 DEF Takes, Written
  <2>3. Written(s)' = Append(log[s], Head(queue[s]))
    BY <1>4, <1>9, <2>2, AppendIsConcat DEF Takes, Dequeues
  <2> QED  BY <1>9, <2>1, <2>3 DEF Takes, Dequeues
<1>10. CASE Stores(s)
  <2>1. Written(s) = Append(log[s], Head(hand)) /\ Written(s)' = log'[s]
    BY <1>2, <1>5, <1>10 DEF Stores
  <2> QED  BY <1>10, <2>1 DEF Stores
<1>11. CASE Discards(s)
  <2>1. /\ Written(s) = Append(log[s], Head(hand)) /\ Written(s)' = log'[s]
        /\ Head(hand) \in Nat
    BY <1>2, <1>5, <1>11 DEF Discards
  <2> QED  BY <1>11, <2>1 DEF Discards
<1> QED
  BY <1>1, <1>6, <1>7, <1>8, <1>9, <1>10, <1>11 DEF OwnStep, DrainStep

LEMMA ArrivedInductive ==
  CoordInv /\ DataOK' /\ ArrivedOK /\ [Next]_vars => ArrivedOK'
<1> SUFFICES ASSUME CoordInv, DataOK', ArrivedOK, [Next]_vars, NEW s \in Streams
             PROVE  (Arrived(s) \in Nat)'
  BY DEF ArrivedOK
<1>1. Arrived(s)' = Arrived(s) \/ Arrived(s)' = Arrived(s) + 1
  BY WrittenStep
<1>2. Arrived(s) \in Nat
  BY DEF ArrivedOK
<1> QED  BY <1>1, <1>2
-----------------------------------------------------------------------------
(* No datagram is lost, repeated or reordered without a fault. *)

Numbered(logged, queued, n) ==
  /\ Len(logged) + Len(queued) = n
  /\ \A i \in 1..Len(logged) : logged[i] = i
  /\ \A i \in 1..Len(queued) : queued[i] = Len(logged) + i

LosslessInv ==
  fault = NoFault =>
    Numbered(Written("telemetry"), queue["telemetry"], Arrived("telemetry"))

LEMMA NumberedMove ==
  ASSUME NEW l \in Seq(Nat), NEW q \in Seq(Nat), q # <<>>, NEW n,
         Numbered(l, q, n)
  PROVE  Numbered(Append(l, Head(q)), Tail(q), n)
<1>1. /\ Len(Tail(q)) = Len(q) - 1 /\ Len(Append(l, Head(q))) = Len(l) + 1
      /\ \A i \in 1..(Len(q) - 1) : Tail(q)[i] = q[i + 1]
      /\ \A i \in 1..Len(l) : Append(l, Head(q))[i] = l[i]
      /\ Append(l, Head(q))[Len(l) + 1] = q[1]
      /\ Len(q) \in Nat \ {0} /\ Len(l) \in Nat
  OBVIOUS
<1>2. q[1] = Len(l) + 1
  BY <1>1 DEF Numbered
<1>3. \A i \in 1..(Len(q) - 1) : q[i + 1] = Len(l) + 1 + i
  BY <1>1 DEF Numbered
<1>4. \A i \in 1..(Len(l) + 1) : Append(l, Head(q))[i] = i
  BY <1>1, <1>2 DEF Numbered
<1> QED
  BY <1>1, <1>3, <1>4 DEF Numbered

LEMMA NumberedAppend ==
  ASSUME NEW l \in Seq(Nat), NEW q \in Seq(Nat), NEW n \in Nat,
         Numbered(l, q, n - 1)
  PROVE  Numbered(l, Append(q, n), n)
<1>1. /\ Len(Append(q, n)) = Len(q) + 1
      /\ \A i \in 1..Len(q) : Append(q, n)[i] = q[i]
      /\ Append(q, n)[Len(q) + 1] = n
      /\ Len(q) \in Nat /\ Len(l) \in Nat
  OBVIOUS
<1>2. n = Len(l) + Len(q) + 1
  BY <1>1 DEF Numbered
<1>3. \A i \in 1..(Len(q) + 1) : Append(q, n)[i] = Len(l) + i
  BY <1>1, <1>2 DEF Numbered
<1> QED
  BY <1>1, <1>2, <1>3 DEF Numbered

LEMMA LosslessInductive ==
  CoordInv /\ DataOK' /\ ArrivedOK /\ LosslessInv /\ [Next]_vars => LosslessInv'
<1> SUFFICES ASSUME CoordInv, DataOK', ArrivedOK, LosslessInv, [Next]_vars,
                    fault' = NoFault
             PROVE  Numbered(Written("telemetry"), queue["telemetry"],
                             Arrived("telemetry"))'
  BY DEF LosslessInv
<1> DEFINE w == Written("telemetry")
           q == queue["telemetry"]
           n == Arrived("telemetry")
<1>1. "telemetry" \in Streams /\ "telemetry" \notin Lossy
  BY StreamNames
<1>2. w \in Seq(Nat) /\ q \in Seq(Nat) /\ n \in Nat
  BY <1>1, CoordFacts, WrittenFacts DEF ArrivedOK
<1>3. Numbered(w, q, n)
  BY CoordFacts, FaultStays DEF LosslessInv
<1>4. ~FrameLimit("telemetry")
  BY DEF FrameLimit
<1>5. \/ UNCHANGED <<w, q, n>>
      \/ q' = Append(q, n + 1) /\ n' = n + 1 /\ w' = w
      \/ q # <<>> /\ q' = Tail(q) /\ w' = Append(w, Head(q)) /\ n' = n
  BY <1>1, <1>4, WrittenStep
<1> HIDE DEF w, q, n
<1>6. Numbered(w, Append(q, n + 1), n + 1)
  <2>1. n + 1 \in Nat /\ (n + 1) - 1 = n
    BY <1>2
  <2> QED  BY <1>2, <1>3, <2>1, NumberedAppend
<1>7. q # <<>> => Numbered(Append(w, Head(q)), Tail(q), n)
  BY <1>2, <1>3, NumberedMove
<1>8. Numbered(w', q', n')
  BY <1>3, <1>5, <1>6, <1>7
<1> QED  BY <1>8 DEF w, q, n

LEMMA LosslessStated ==
  DataOK /\ AbandonInv /\ LosslessInv => TelemetryLossless
<1> SUFFICES ASSUME DataOK, AbandonInv, LosslessInv, fault = NoFault
             PROVE  /\ log["telemetry"] \o Held("telemetry") \o queue["telemetry"]
                         = [i \in 1..Arrived("telemetry") |-> i]
                    /\ LostWhileStopping("telemetry")
  BY DEF TelemetryLossless
<1> DEFINE l == Written("telemetry")
           q == queue["telemetry"]
<1>1. l \in Seq(Nat) /\ q \in Seq(Nat)
  BY StreamNames, WrittenFacts
<1>2. Numbered(l, q, Arrived("telemetry"))
  BY DEF LosslessInv
<1> HIDE DEF l, q
<1>3. Len(l \o q) = Arrived("telemetry")
  BY <1>1, <1>2 DEF Numbered
<1>4. \A i \in 1..Len(l \o q) : (l \o q)[i] = i
  <2> SUFFICES ASSUME NEW i \in 1..Len(l \o q)
               PROVE  (l \o q)[i] = i
    OBVIOUS
  <2>1. Len(l) \in Nat /\ Len(q) \in Nat /\ Len(l \o q) = Len(l) + Len(q)
    BY <1>1
  <2>2. CASE i <= Len(l)
    <3>1. (l \o q)[i] = l[i]
      BY <1>1, <2>1, <2>2
    <3> QED
      BY <3>1, <1>2, <2>1, <2>2 DEF Numbered
  <2>3. CASE i > Len(l)
    <3>1. (l \o q)[i] = q[i - Len(l)]
      BY <1>1, <2>1, <2>3
    <3>2. q[i - Len(l)] = Len(l) + (i - Len(l))
      BY <1>2, <2>1, <2>3 DEF Numbered
    <3> QED
      BY <3>1, <3>2, <2>1
  <2> QED
    BY <2>1, <2>2, <2>3
<1>5. l \o q = [i \in 1..Len(l \o q) |-> (l \o q)[i]]
  <2>1. l \o q \in Seq(Nat)
    BY <1>1
  <2> QED
    BY <2>1, LenProperties, Zenon
<1>6. l \o q = [i \in 1..Arrived("telemetry") |-> i]
  BY <1>3, <1>4, <1>5
<1>7. LostWhileStopping("telemetry")
  BY StreamNames DEF AbandonInv, Abandoned, LostWhileStopping
<1> QED
  BY <1>6, <1>7 DEF l, q, Written

\* At the start nothing has been written, queued or put.
LEMMA StreamsInit ==
  Init => \A s \in Streams : /\ Written(s) = <<>> /\ queue[s] = <<>>
                             /\ log[s] = <<>> /\ Held(s) = <<>>
                             /\ Arrived(s) = 0
<1> SUFFICES ASSUME Init, NEW s \in Streams
             PROVE  /\ Written(s) = <<>> /\ queue[s] = <<>>
                    /\ log[s] = <<>> /\ Held(s) = <<>> /\ Arrived(s) = 0
  OBVIOUS
<1>1. queue[s] = <<>> /\ log[s] = <<>> /\ Held(s) = <<>>
  BY DEF Init, Held
<1>2. Written(s) = <<>>
  BY <1>1, DataCorrectInit, WrittenFacts
<1>3. Arrived(s) = 0
  BY DEF Init, Arrived, InHand
<1> QED  BY <1>1, <1>2, <1>3

LEMMA ArrivedInit == Init => ArrivedOK
  BY StreamsInit DEF ArrivedOK

LEMMA LosslessInit == Init => LosslessInv
<1> SUFFICES ASSUME Init
             PROVE  Numbered(Written("telemetry"), queue["telemetry"],
                             Arrived("telemetry"))
  BY DEF LosslessInv
<1>1. /\ Written("telemetry") = <<>> /\ queue["telemetry"] = <<>>
      /\ Arrived("telemetry") = 0
  BY StreamsInit, StreamNames
<1> QED  BY <1>1 DEF Numbered

\* A fault-free session has every datagram its thread put, in order, in the
\* log, in the hand of _drain or still on the queue, and a datagram is given up
\* only when the session was stopping: overload, a health file that cannot be
\* written, the drain and the interrupts never lose or reorder another one.
THEOREM LosslessCorrect == Spec => []TelemetryLossless
<1>1. Init => CoordInv /\ ArrivedOK /\ LosslessInv
  BY CoordInit, ArrivedInit, LosslessInit
<1>2. CoordInv /\ LosslessInv => TelemetryLossless
  BY CoordFacts, LosslessStated
<1> QED
  BY <1>1, <1>2, DataCorrect, CoordInductive, ArrivedInductive,
     LosslessInductive, PTL
     DEF Spec

-----------------------------------------------------------------------------
(* A lossy queue keeps the newest items.                                     *)

NewestOf(l, q, n) ==
  /\ \A i \in 1..Len(q) : q[i] = n - Len(q) + i
  /\ \A i \in 1..Len(l) : l[i] < IF i < Len(l) THEN l[i + 1] ELSE n - Len(q) + 1

LEMMA TailFacts ==
  ASSUME NEW q \in Seq(Nat), q # <<>>
  PROVE  /\ Tail(q) \in Seq(Nat) /\ Len(q) \in Nat \ {0}
         /\ Len(Tail(q)) = Len(q) - 1
         /\ Head(q) = q[1] /\ q[1] \in Nat
         /\ \A i \in 1..(Len(q) - 1) : Tail(q)[i] = q[i + 1]
OBVIOUS

LEMMA AppendFacts ==
  ASSUME NEW q \in Seq(Nat), NEW n \in Nat
  PROVE  /\ Append(q, n) \in Seq(Nat) /\ Len(q) \in Nat
         /\ Len(Append(q, n)) = Len(q) + 1
         /\ \A i \in 1..Len(q) : Append(q, n)[i] = q[i] /\ q[i] \in Nat
         /\ Append(q, n)[Len(q) + 1] = n
OBVIOUS

LEMMA NewestEnqueue ==
  ASSUME NEW l \in Seq(Nat), NEW q \in Seq(Nat), NEW n \in Nat, NewestOf(l, q, n)
  PROVE  NewestOf(l, Append(q, n + 1), n + 1)
<1> DEFINE a == Append(q, n + 1)
<1>1. /\ Len(a) = Len(q) + 1 /\ Len(q) \in Nat /\ Len(l) \in Nat
      /\ \A i \in 1..Len(q) : a[i] = q[i]
      /\ a[Len(q) + 1] = n + 1
  BY AppendFacts
<1> HIDE DEF a
<1>2. \A i \in 1..(Len(q) + 1) : a[i] = (n + 1) - (Len(q) + 1) + i
  <2> SUFFICES ASSUME NEW i \in 1..(Len(q) + 1)
               PROVE  a[i] = (n + 1) - (Len(q) + 1) + i
    OBVIOUS
  <2>1. CASE i <= Len(q)
    <3>1. q[i] = n - Len(q) + i /\ a[i] = q[i]
      BY <1>1, <2>1 DEF NewestOf
    <3> QED  BY <1>1, <3>1
  <2>2. CASE i = Len(q) + 1
    BY <1>1, <2>2
  <2> QED  BY <1>1, <2>1, <2>2
<1>3. (n + 1) - (Len(q) + 1) + 1 = n - Len(q) + 1
  BY <1>1
<1> QED  BY <1>1, <1>2, <1>3 DEF NewestOf, a

LEMMA NewestEvict ==
  ASSUME NEW l \in Seq(Nat), NEW q \in Seq(Nat), NEW n \in Nat, NewestOf(l, q, n),
         q # <<>>
  PROVE  NewestOf(l, Tail(q), n)
<1>1. /\ Len(q) \in Nat \ {0} /\ Len(Tail(q)) = Len(q) - 1 /\ Len(l) \in Nat
      /\ \A i \in 1..(Len(q) - 1) : Tail(q)[i] = q[i + 1]
  BY TailFacts
<1>2. \A i \in 1..(Len(q) - 1) : Tail(q)[i] = n - (Len(q) - 1) + i
  BY <1>1 DEF NewestOf
<1>3. \A i \in 1..Len(l) : l[i] < IF i < Len(l) THEN l[i + 1]
                                               ELSE n - (Len(q) - 1) + 1
  <2> SUFFICES ASSUME NEW i \in 1..Len(l)
               PROVE  l[i] < IF i < Len(l) THEN l[i + 1] ELSE n - (Len(q) - 1) + 1
    OBVIOUS
  <2>1. l[i] \in Nat
    OBVIOUS
  <2> QED  BY <1>1, <2>1 DEF NewestOf
<1> QED  BY <1>1, <1>2, <1>3 DEF NewestOf

LEMMA NewestStore ==
  ASSUME NEW l \in Seq(Nat), NEW q \in Seq(Nat), NEW n \in Nat, NewestOf(l, q, n),
         q # <<>>
  PROVE  NewestOf(Append(l, Head(q)), Tail(q), n)
<1> DEFINE a == Append(l, Head(q))
<1>1. /\ Len(q) \in Nat \ {0} /\ Len(Tail(q)) = Len(q) - 1 /\ Len(l) \in Nat
      /\ Head(q) = q[1] /\ q[1] \in Nat
      /\ \A i \in 1..(Len(q) - 1) : Tail(q)[i] = q[i + 1]
  BY TailFacts
<1>2. /\ Len(a) = Len(l) + 1
      /\ \A i \in 1..Len(l) : a[i] = l[i] /\ l[i] \in Nat
      /\ a[Len(l) + 1] = q[1]
  BY <1>1, AppendFacts
<1> HIDE DEF a
<1>3. q[1] = n - Len(q) + 1
  BY <1>1 DEF NewestOf
<1>4. \A i \in 1..(Len(q) - 1) : Tail(q)[i] = n - (Len(q) - 1) + i
  BY <1>1 DEF NewestOf
<1>5. \A i \in 1..(Len(l) + 1) :
        a[i] < IF i < Len(l) + 1 THEN a[i + 1] ELSE n - (Len(q) - 1) + 1
  <2> SUFFICES ASSUME NEW i \in 1..(Len(l) + 1)
               PROVE  a[i] < IF i < Len(l) + 1 THEN a[i + 1]
                                               ELSE n - (Len(q) - 1) + 1
    OBVIOUS
  <2>1. CASE i < Len(l)
    <3>1. i \in 1..Len(l) /\ i + 1 \in 1..Len(l)
      BY <1>1, <2>1
    <3>2. l[i] < l[i + 1] /\ a[i] = l[i] /\ a[i + 1] = l[i + 1]
      BY <1>2, <2>1, <3>1 DEF NewestOf
    <3> QED  BY <1>1, <2>1, <3>2
  <2>2. CASE i = Len(l)
    <3>1. a[i] = l[i] /\ a[i + 1] = q[1] /\ i \in 1..Len(l)
      BY <1>1, <1>2, <2>2
    <3>2. l[i] < q[1]
      BY <1>1, <1>3, <2>2, <3>1 DEF NewestOf
    <3> QED  BY <1>1, <2>2, <3>1, <3>2
  <2>3. CASE i = Len(l) + 1
    BY <1>1, <1>2, <1>3, <2>3
  <2> QED  BY <1>1, <2>1, <2>2, <2>3
<1> QED  BY <1>1, <1>2, <1>4, <1>5 DEF NewestOf, a

LEMMA NewestDiscard ==
  ASSUME NEW l \in Seq(Nat), NEW q \in Seq(Nat), NEW n \in Nat, NEW x \in Nat,
         NewestOf(Append(l, x), q, n)
  PROVE  NewestOf(l, q, n)
<1> DEFINE a == Append(l, x)
<1>1. /\ Len(a) = Len(l) + 1 /\ Len(l) \in Nat /\ Len(q) \in Nat
      /\ \A i \in 1..Len(l) : a[i] = l[i] /\ l[i] \in Nat
      /\ a[Len(l) + 1] = x
  BY AppendFacts
<1> HIDE DEF a
<1>2. /\ \A i \in 1..Len(q) : q[i] = n - Len(q) + i
      /\ \A i \in 1..Len(a) : a[i] < IF i < Len(a) THEN a[i + 1]
                                                   ELSE n - Len(q) + 1
  BY DEF NewestOf, a
<1>3. x < n - Len(q) + 1
  <2>1. Len(l) + 1 \in 1..Len(a) /\ ~(Len(l) + 1 < Len(a))
    BY <1>1
  <2>2. a[Len(l) + 1] < n - Len(q) + 1
    BY <1>2, <2>1
  <2> QED  BY <1>1, <2>2
<1>4. ASSUME NEW i \in 1..Len(l)
      PROVE  l[i] < IF i < Len(l) THEN l[i + 1] ELSE n - Len(q) + 1
  <2>1. a[i] < a[i + 1] /\ a[i] = l[i] /\ l[i] \in Nat
    BY <1>1, <1>2
  <2>2. CASE i < Len(l)
    BY <1>1, <2>1, <2>2
  <2>3. CASE i = Len(l)
    BY <1>1, <1>3, <2>1, <2>3
  <2> QED  BY <1>1, <2>2, <2>3
<1> QED  BY <1>2, <1>4 DEF NewestOf

LEMMA OldestInductive ==
  CoordInv /\ DataOK' /\ ArrivedOK /\ OldestDropped /\ [Next]_vars
    => OldestDropped'
<1> SUFFICES ASSUME CoordInv, DataOK', ArrivedOK, OldestDropped, [Next]_vars,
                    NEW s \in Lossy
             PROVE  NewestOf(Written(s), queue[s], Arrived(s))'
  BY DEF OldestDropped, NewestOf, Written
<1>1. s \in Streams
  BY StreamNames
<1> DEFINE l == Written(s)
           q == queue[s]
           n == Arrived(s)
<1>2. l \in Seq(Nat) /\ q \in Seq(Nat) /\ n \in Nat
  BY <1>1, CoordFacts, WrittenFacts DEF ArrivedOK
<1>3. NewestOf(l, q, n)
  BY DEF OldestDropped, NewestOf, Written
<1>4. l' \in Seq(Nat)
  BY <1>1, WrittenNext
<1>5. \/ UNCHANGED <<l, q, n>>
      \/ l' = l /\ q' = Append(q, n + 1) /\ n' = n + 1
      \/ l' = l /\ q # <<>> /\ q' = Tail(q) /\ n' = n
      \/ l' = Append(l, Head(q)) /\ q # <<>> /\ q' = Tail(q) /\ n' = n
      \/ (\E x \in Nat : l = Append(l', x)) /\ q' = q /\ n' = n
  BY <1>1, WrittenStep
<1> HIDE DEF l, q, n
<1>6. ASSUME NEW x \in Nat, l = Append(l', x), q' = q, n' = n
      PROVE  NewestOf(l', q', n')
  BY <1>2, <1>3, <1>4, <1>6, NewestDiscard
<1>7. NewestOf(l', q', n')
  BY <1>2, <1>3, <1>5, <1>6, NewestEnqueue, NewestEvict, NewestStore
<1> QED  BY <1>7 DEF l, q, n

LEMMA OldestInit == Init => OldestDropped
<1> SUFFICES ASSUME Init, NEW s \in Lossy
             PROVE  NewestOf(Written(s), queue[s], Arrived(s))
  BY DEF OldestDropped, NewestOf, Written
<1>1. Written(s) = <<>> /\ queue[s] = <<>>
  BY StreamsInit, StreamNames
<1>2. Len(Written(s)) = 0 /\ Len(queue[s]) = 0
  BY <1>1
<1> QED  BY <1>2 DEF NewestOf

\* A camera or controller queue is always the newest items of its thread without
\* a gap, and everything logged or in the hand of _drain is older and in order,
\* however puts, evictions, failing health lines and the drain interleave.
THEOREM OldestAlwaysDropped == Spec => []OldestDropped
<1>1. Init => CoordInv /\ ArrivedOK /\ OldestDropped
  BY CoordInit, ArrivedInit, OldestInit
<1> QED
  BY <1>1, DataCorrect, CoordInductive, ArrivedInductive, OldestInductive, PTL
     DEF Spec

-----------------------------------------------------------------------------
(* No item disappears unaccounted.                                           *)

Kept(s) == Len(Written(s)) + Len(queue[s]) + evicted[s]

Balance(s) == IF FrameLimit(s) THEN Kept(s) <= Arrived(s) ELSE Kept(s) = Arrived(s)

ConservedInv == fault = NoFault => \A s \in Lossy : Balance(s)

LEMMA ConservedInductive ==
  CoordInv /\ DataOK' /\ ArrivedOK /\ ConservedInv /\ [Next]_vars
    => ConservedInv'
<1> SUFFICES ASSUME CoordInv, DataOK', ArrivedOK, ConservedInv, [Next]_vars,
                    fault' = NoFault, NEW s \in Lossy
             PROVE  Balance(s)'
  BY DEF ConservedInv
<1>1. s \in Streams
  BY StreamNames
<1> DEFINE w == Written(s)
           q == queue[s]
           e == evicted[s]
           n == Arrived(s)
           k == Kept(s)
<1>2. /\ w \in Seq(Nat) /\ q \in Seq(Nat) /\ n \in Nat /\ e \in Nat
      /\ w' \in Seq(Nat)
  BY <1>1, CoordFacts, WrittenFacts, WrittenNext DEF DataOK, ArrivedOK
<1>3. Balance(s)
  BY CoordFacts, FaultStays DEF ConservedInv
<1>4. log'[s] = log[s] => FrameLimit(s)' = FrameLimit(s)
  BY DEF FrameLimit
<1>5. /\ Len(w) \in Nat /\ Len(q) \in Nat /\ k = Len(w) + Len(q) + e
      /\ k' = Len(w') + Len(q') + e' /\ Len(w') \in Nat
      /\ Len(Append(q, n + 1)) = Len(q) + 1
      /\ q # <<>> => /\ Len(Tail(q)) = Len(q) - 1
                     /\ Len(Append(w, Head(q))) = Len(w) + 1
      /\ \A x \in Nat : Len(Append(w', x)) = Len(w') + 1
  <2>1. k = Len(w) + Len(q) + e /\ k' = Len(w') + Len(q') + e'
    BY DEF Kept
  <2> HIDE DEF w, q, e, n, k
  <2> QED  BY <1>2, <2>1
\* The frame limit is passed by _write_one alone, which keeps the sum.
<1>6. ASSUME log'[s] # log[s] PROVE Stores(s)
  <2>1. Unmoved(s) \/ OwnStep(s) \/ DrainStep(s)
    BY <1>1, CoordFacts, StreamStep
  <2> QED
    BY <1>6, <2>1 DEF OwnStep, DrainStep, Unmoved, Enqueues, Evicts, Takes, Discards
<1>7. CASE log'[s] # log[s]
  <2>1. Stores(s)
    BY <1>6, <1>7
  <2>2. ~FrameLimit(s) /\ q' = q /\ n' = n /\ e' = e
    BY <2>1 DEF Stores, KeepsEvicted
  <2>3. w' = w
    <3>1. w = Append(log[s], Head(hand)) /\ w' = log'[s]
      <4>1. Held(s) # <<>>
        BY <2>1 DEF Stores
      <4>2. w = Append(log[s], Head(hand))
        BY <1>1, <4>1, CoordFacts, WrittenFacts
      <4>3. Held(s)' = <<>> => Written(s)' = log'[s]
        BY <1>1, WrittenNext
      <4> QED  BY <2>1, <4>2, <4>3 DEF Stores
    <3> QED  BY <2>1, <3>1 DEF Stores
  <2>4. k' = k
    BY <2>2, <2>3 DEF Kept
  <2>5. k = n
    BY <1>3, <2>2 DEF Balance
  <2>6. k' = n' /\ n' \in Nat
    BY <1>2, <2>2, <2>4, <2>5
  <2> QED  BY <2>6 DEF Balance
<1>8. CASE log'[s] = log[s]
  <2>1. FrameLimit(s)' = FrameLimit(s)
    BY <1>4, <1>8
  <2>2. \/ k' = k /\ n' = n
        \/ k' = k + 1 /\ n' = n + 1
        \/ k' = k - 1 /\ n' = n /\ FrameLimit(s)
    <3>1. \/ UNCHANGED <<w, q, n>> /\ e' = e
          \/ q' = Append(q, n + 1) /\ n' = n + 1 /\ w' = w /\ e' = e
          \/ q # <<>> /\ q' = Tail(q) /\ e' = e + 1 /\ w' = w /\ n' = n
          \/ q # <<>> /\ q' = Tail(q) /\ w' = Append(w, Head(q)) /\ n' = n /\ e' = e
          \/ /\ \E x \in Nat : w = Append(w', x)
             /\ FrameLimit(s) /\ q' = q /\ n' = n /\ e' = e
      BY <1>1, WrittenStep DEF KeepsEvicted
    <3> HIDE DEF w, q, e, n, k
    <3>2. ASSUME UNCHANGED <<w, q, n>>, e' = e PROVE k' = k
      BY <1>5, <3>2
    <3>3. ASSUME q' = Append(q, n + 1), w' = w, e' = e PROVE k' = k + 1
      BY <1>2, <1>5, <3>3
    <3>4. ASSUME q # <<>>, q' = Tail(q), e' = e + 1, w' = w PROVE k' = k
      BY <1>2, <1>5, <3>4
    <3>5. ASSUME q # <<>>, q' = Tail(q), w' = Append(w, Head(q)), e' = e PROVE k' = k
      BY <1>2, <1>5, <3>5
    <3>6. ASSUME NEW x \in Nat, w = Append(w', x), q' = q, e' = e PROVE k' = k - 1
      <4>1. Len(w) = Len(w') + 1
        BY <1>5, <3>6
      <4> QED  BY <1>2, <1>5, <3>6, <4>1
    <3> QED  BY <3>1, <3>2, <3>3, <3>4, <3>5, <3>6
  <2>3. k \in Nat /\ n \in Nat
    <3> HIDE DEF w, q, e, n, k
    <3> QED  BY <1>2, <1>5
  <2>4. IF FrameLimit(s) THEN k <= n ELSE k = n
    BY <1>3 DEF Balance
  <2>5. IF FrameLimit(s)' THEN k' <= n' ELSE k' = n'
    <3> HIDE DEF w, q, e, n, k
    <3> QED  BY <2>1, <2>2, <2>3, <2>4
  <2> QED  BY <2>5 DEF Balance
<1> QED  BY <1>7, <1>8

LEMMA ConservedInit == Init => ConservedInv
<1> SUFFICES ASSUME Init, NEW s \in Lossy PROVE Balance(s)
  BY DEF ConservedInv
<1>1. /\ Written(s) = <<>> /\ queue[s] = <<>> /\ log[s] = <<>> /\ Arrived(s) = 0
  BY StreamsInit, StreamNames
<1>2. Len(Written(s)) = 0 /\ Len(queue[s]) = 0 /\ evicted[s] = 0
  BY <1>1 DEF Init
<1>3. Kept(s) = 0
  BY <1>2 DEF Kept
<1> QED  BY <1>1, <1>3 DEF Balance

\* In a session without a fault every camera and controller item a thread has
\* put is logged, in the hand of _drain, queued or counted as evicted, until the
\* frame limit; one that was never put was given up by a stopping session.
THEOREM NothingLostUnseen == Spec => []Conserved
<1>1. Init => CoordInv /\ ArrivedOK /\ ConservedInv
  BY CoordInit, ArrivedInit, ConservedInit
<1>2. CoordInv /\ ConservedInv => Conserved
  <2> SUFFICES ASSUME CoordInv, ConservedInv, fault = NoFault, NEW s \in Lossy
               PROVE  /\ IF FrameLimit(s)
                           THEN Len(log[s]) + Len(Held(s)) + Len(queue[s])
                                  + evicted[s] <= Arrived(s)
                           ELSE Len(log[s]) + Len(Held(s)) + Len(queue[s])
                                  + evicted[s] = Arrived(s)
                      /\ LostWhileStopping(s)
    BY DEF Conserved
  <2>1. s \in Streams
    BY StreamNames
  <2>2. Len(Written(s)) = Len(log[s]) + Len(Held(s))
    BY <2>1, CoordFacts, WrittenFacts
  <2>3. Balance(s)
    BY DEF ConservedInv
  <2>4. LostWhileStopping(s)
    BY <2>1, CoordFacts DEF AbandonInv, Abandoned, LostWhileStopping
  <2> QED  BY <2>2, <2>3, <2>4 DEF Balance, Kept
<1> QED
  BY <1>1, <1>2, DataCorrect, CoordInductive, ArrivedInductive,
     ConservedInductive, PTL
     DEF Spec

-----------------------------------------------------------------------------
(* Every eviction is written down.                                           *)

Unrecorded(s) == IF pc[s] \in {"record", "count"} THEN 1 ELSE 0

Evictions == evicted["camera"] + evicted["controller"]

EvictionsInv ==
  /\ recorder = "open" =>
       Evictions <= Lines("dropped") + Unrecorded("camera")
                      + Unrecorded("controller")
  /\ manifest => Evictions <= events["dropped"]

LEMMA EvictionFacts ==
  DataOK => /\ "dropped" \in Counters
            /\ evicted["camera"] \in Nat /\ evicted["controller"] \in Nat
            /\ Evictions \in Nat
            /\ events["dropped"] \in Nat /\ unflushed["dropped"] \in Nat
            /\ Lines("dropped") \in Nat
            /\ Lines("dropped") = events["dropped"] + unflushed["dropped"]
<1> SUFFICES ASSUME DataOK
             PROVE  /\ "dropped" \in Counters
                    /\ evicted["camera"] \in Nat /\ evicted["controller"] \in Nat
                    /\ Evictions \in Nat
                    /\ events["dropped"] \in Nat /\ unflushed["dropped"] \in Nat
                    /\ Lines("dropped") \in Nat
                    /\ Lines("dropped") = events["dropped"] + unflushed["dropped"]
  OBVIOUS
<1>1. /\ evicted \in [Lossy -> Nat] /\ events \in [Counters -> Nat]
      /\ unflushed \in [Counters -> Nat]
  BY DEF DataOK
<1> QED  BY <1>1, StreamNames DEF Evictions, Lines

\* A thread adds to both sides alike, or to the side of the lines more.
LEMMA EvictionsOfThread ==
  ASSUME DataOK, recorder = "open", NEW t \in Streams, ThreadStep(t)
  PROVE  \/ /\ t \in Lossy /\ evicted'[t] \in {evicted[t], evicted[t] + 1}
            /\ Unrecorded(t)' = 1 /\ Unrecorded(t) = 0
            /\ Lines("dropped")' = Lines("dropped")
         \/ /\ t \in Lossy /\ evicted'[t] = evicted[t]
            /\ Unrecorded(t)' = 0 /\ Unrecorded(t) = 1
            /\ Lines("dropped")' = Lines("dropped") + 1
         \/ /\ t \in Lossy => /\ evicted'[t] = evicted[t]
                              /\ Unrecorded(t)' = Unrecorded(t)
            /\ Lines("dropped")' = Lines("dropped")
<1> USE DEF Goto, Loses, recorderVars, lines
<1>1. /\ pc \in [Streams -> Labels] /\ evicted \in [Lossy -> Nat]
      /\ events \in [Counters -> Nat] /\ unflushed \in [Counters -> Nat]
      /\ health \in [Counters -> Nat]
  BY DEF DataOK
<1>2. CASE t \in Lossy /\ Evict(t)
  <2>1. evicted'[t] \in {evicted[t], evicted[t] + 1}
    BY <1>1, <1>2 DEF Evict
  <2>2. pc[t] = "evict" /\ pc'[t] = "record" /\ UNCHANGED lines
    BY <1>1, <1>2 DEF Evict
  <2> QED  BY <1>2, <2>1, <2>2 DEF Unrecorded, Lines
<1>3. CASE t \in Lossy /\ CountDrop(t)
  <2>1. evicted' = evicted /\ (LineWritten("dropped") \/ LineFails("dropped"))
    BY <1>3 DEF CountDrop
  <2>2. pc[t] = "count" /\ pc'[t] \in {"requeue", "caught"}
    BY <1>1, <1>3 DEF CountDrop
  <2>3. Lines("dropped")' = Lines("dropped") + 1
    BY <1>1, <2>1, StreamNames, LineEffect
  <2> QED  BY <1>3, <2>1, <2>2, <2>3 DEF Unrecorded
<1>4. CASE t \in Lossy /\ ReadDrops(t)
  <2>1. evicted' = evicted /\ UNCHANGED lines
    BY <1>4 DEF ReadDrops
  <2>2. pc[t] = "record" /\ pc'[t] = "count"
    BY <1>1, <1>4 DEF ReadDrops
  <2> QED  BY <2>1, <2>2 DEF Unrecorded, Lines
<1>5. CASE \/ SourceStep(t)
           \/ t \in Lossy /\ Requeue(t)
           \/ t = "camera" /\ (CameraDeadline \/ CloseCamera)
  <2>1. UNCHANGED <<evicted, lines>>
    BY <1>5 DEF SourceStep, Yield, Exhausted, SourceRaises, Judge, RaiseFault,
       Put, PutFull, Requeue, CameraDeadline, CloseCamera
  <2>2. pc[t] \notin {"record", "count"} /\ pc'[t] \notin {"record", "count"}
    BY <1>1, <1>5 DEF SourceStep, Yield, Exhausted, SourceRaises, Judge,
       RaiseFault, Put, PutFull, Requeue, CameraDeadline, CloseCamera, Leave,
       AfterPut
  <2> QED  BY <2>1, <2>2 DEF Unrecorded, Lines
<1>6. CASE \/ t = "controller" /\ (Disconnect \/ RecordStale)
           \/ t = "telemetry" /\ Overload
  <2>1. evicted' = evicted
    BY <1>6 DEF Disconnect, RecordStale, Overload
  <2>2. pc[t] \notin {"record", "count"} /\ pc'[t] \notin {"record", "count"}
    BY <1>1, <1>6 DEF Disconnect, RecordStale, Overload
  <2>3. \E kind \in Counters \ {"dropped"}, succeeds \in BOOLEAN :
          HealthEvent(kind, succeeds)
    BY <1>6, StreamNames DEF Disconnect, RecordStale, Overload
  <2>4. Lines("dropped")' = Lines("dropped")
    BY <1>1, <2>3, StreamNames, HealthEffect
  <2> QED  BY <2>1, <2>2, <2>4 DEF Unrecorded
<1> QED
  BY <1>2, <1>3, <1>4, <1>5, <1>6 DEF ThreadStep, LossyStep

LEMMA EvictionsInductive ==
  CoordInv /\ DataOK' /\ EvictionsInv /\ [Next]_vars => EvictionsInv'
<1> SUFFICES ASSUME CoordInv, DataOK', EvictionsInv, [Next]_vars PROVE EvictionsInv'
  OBVIOUS
<1>1. DataOK /\ ThreadsStarted
  BY CoordFacts
<1>2. /\ evicted["camera"] \in Nat /\ evicted["controller"] \in Nat
      /\ Evictions \in Nat
      /\ events["dropped"] \in Nat /\ Lines("dropped") \in Nat
      /\ events["dropped"] <= Lines("dropped")
  BY <1>1, EvictionFacts
<1>3. \A s \in Streams : Unrecorded(s) \in {0, 1}
  BY DEF Unrecorded
<1>4. ASSUME NEW t \in Streams, ThreadStep(t)
      PROVE  EvictionsInv'
  <2>1. ThreadEffect(t)
    BY <1>1, <1>4, ThreadFrame
  <2>2. /\ UNCHANGED <<recorder, manifest>> /\ Alive(t)
        /\ \A s \in Streams \ {t} : /\ Unrecorded(s)' = Unrecorded(s)
                                    /\ s \in Lossy => evicted'[s] = evicted[s]
    BY <2>1 DEF ThreadEffect, Unrecorded
  <2>3. ~manifest
    BY <2>2, CoordFacts DEF PublishedClean, Alive
  <2> SUFFICES ASSUME recorder = "open"
               PROVE  Evictions' <= Lines("dropped")' + Unrecorded("camera")'
                                      + Unrecorded("controller")'
    BY <2>2, <2>3 DEF EvictionsInv
  <2>4. Evictions <= Lines("dropped") + Unrecorded("camera")
                       + Unrecorded("controller")
    BY DEF EvictionsInv
  <2>5. /\ Unrecorded("camera") \in {0, 1} /\ Unrecorded("controller") \in {0, 1}
        /\ Evictions = evicted["camera"] + evicted["controller"]
        /\ Evictions' = evicted'["camera"] + evicted'["controller"]
    BY <1>3, StreamNames DEF Evictions
  <2>6. CASE t = "camera"
    <3>1. /\ evicted'["controller"] = evicted["controller"]
          /\ Unrecorded("controller")' = Unrecorded("controller")
      BY <2>2, <2>6, StreamNames
    <3> QED
      BY <1>1, <1>2, <1>4, <2>4, <2>5, <2>6, <3>1, StreamNames, EvictionsOfThread
  <2>7. CASE t = "controller"
    <3>1. /\ evicted'["camera"] = evicted["camera"]
          /\ Unrecorded("camera")' = Unrecorded("camera")
      BY <2>2, <2>7, StreamNames
    <3> QED
      BY <1>1, <1>2, <1>4, <2>4, <2>5, <2>7, <3>1, StreamNames, EvictionsOfThread
  <2>8. CASE t = "telemetry"
    <3>1. /\ evicted'["camera"] = evicted["camera"]
          /\ evicted'["controller"] = evicted["controller"]
          /\ Unrecorded("camera")' = Unrecorded("camera")
          /\ Unrecorded("controller")' = Unrecorded("controller")
      BY <2>2, <2>8, StreamNames
    <3>2. Lines("dropped")' = Lines("dropped")
      BY <1>1, <1>4, <2>8, StreamNames, EvictionsOfThread
    <3> QED  BY <2>4, <2>5, <3>1, <3>2
  <2> QED  BY <2>6, <2>7, <2>8 DEF Streams
<1>5. CASE MainStep
  <2>1. MainEffect
    BY <1>1, <1>5, MainFrame
  <2>2. Evictions' = Evictions
    BY <2>1 DEF MainEffect, Evictions
  <2>3. /\ Unrecorded("camera")' = Unrecorded("camera")
        /\ Unrecorded("controller")' = Unrecorded("controller")
    BY <2>1, StreamNames DEF MainEffect, Unrecorded
  <2>4. CASE Finalize \/ FinalizeFails \/ InterruptedFinalize
    <3>1. /\ mainPc = "decide" /\ fault = NoFault /\ recorder' # "open"
          /\ manifest' => manifest \/ Flush
          /\ Flush \/ UNCHANGED lines
      BY <2>4 DEF Finalize, FinalizeFails, InterruptedFinalize
    <3>2. recorder = "open" /\ ~manifest
      BY <3>1, CoordFacts DEF OpenInv
    <3>3. Unrecorded("camera") = 0 /\ Unrecorded("controller") = 0
      BY <3>1, CoordFacts, StreamNames DEF Joined, Alive, Unrecorded
    <3>4. Evictions <= Lines("dropped")
      BY <1>2, <3>2, <3>3 DEF EvictionsInv
    <3>5. Flush => events'["dropped"] = Lines("dropped")
      BY <1>1, StreamNames, FlushEffect DEF DataOK
    <3> QED  BY <2>2, <3>1, <3>2, <3>4, <3>5 DEF EvictionsInv
  <2>5. CASE ~(Finalize \/ FinalizeFails \/ InterruptedFinalize)
    <3>1. /\ UNCHANGED <<lines, manifest>>
          /\ recorder' = "open" => recorder = "open"
      BY <1>5, <2>5 DEF MainStep, Run, StartThread, StartFails, LoopTest, DrainTake,
         DrainEmpty, DrainWrite, DrainFails, DrainPass, CheckAlive, SetStop,
         CloseSources, Join, Abandon, CloseRecorder, Interrupt, Interrupted,
         InterruptedCleanup, Deadline, Terminated, vars, recorderVars
    <3>2. Lines("dropped")' = Lines("dropped") /\ events' = events
      BY <3>1 DEF lines, Lines
    <3> QED  BY <2>2, <2>3, <3>1, <3>2 DEF EvictionsInv
  <2> QED  BY <2>4, <2>5
<1> QED  BY <1>4, <1>5, StepSplit

LEMMA EvictionsInit == Init => EvictionsInv
<1> SUFFICES ASSUME Init PROVE EvictionsInv
  OBVIOUS
<1>1. /\ evicted["camera"] = 0 /\ evicted["controller"] = 0
      /\ events["dropped"] = 0 /\ unflushed["dropped"] = 0
      /\ Unrecorded("camera") = 0 /\ Unrecorded("controller") = 0
      /\ ~manifest
  BY StreamNames DEF Init, Unrecorded
<1> QED  BY <1>1 DEF EvictionsInv, Evictions, Lines

\* The lines of health.jsonl, with those that wait in its buffer after a failed
\* flush, account for every eviction from the camera and the controller queue,
\* also while both threads write such lines at once.
THEOREM EvictionsAlwaysRecorded == Spec => []EvictionsRecorded
<1>1. Init => CoordInv /\ EvictionsInv
  BY CoordInit, EvictionsInit
<1>2. EvictionsInv => EvictionsRecorded
  BY DEF EvictionsInv, EvictionsRecorded, Unrecorded, Evictions, Lines
<1> QED
  BY <1>1, <1>2, DataCorrect, CoordInductive, EvictionsInductive, PTL DEF Spec

-----------------------------------------------------------------------------
(* The coordinator implements CaptureSession.                                *)

\* Items are written and queued in the order the thread took them, whatever is
\* thrown out in between.
Ascending(l, q, n) ==
  /\ \A i \in 1..Len(l) : l[i] \in 1..n
  /\ \A i, j \in 1..Len(l) : i < j => l[i] < l[j]
  /\ \A i \in 1..Len(q) : q[i] \in 1..n
  /\ \A i, j \in 1..Len(q) : i < j => q[i] < q[j]
  /\ \A i \in 1..Len(l), j \in 1..Len(q) : l[i] < q[j]

AscendingInv == \A s \in Streams : Ascending(Written(s), queue[s], Arrived(s))

LEMMA AscendingMore ==
  ASSUME NEW l \in Seq(Nat), NEW q \in Seq(Nat), NEW n \in Nat, Ascending(l, q, n)
  PROVE  Ascending(l, Append(q, n + 1), n + 1)
<1> DEFINE a == Append(q, n + 1)
<1>1. /\ Len(a) = Len(q) + 1 /\ Len(q) \in Nat /\ Len(l) \in Nat
      /\ \A i \in 1..Len(q) : a[i] = q[i] /\ q[i] \in Nat
      /\ a[Len(q) + 1] = n + 1
      /\ \A i \in 1..Len(l) : l[i] \in Nat
  BY AppendFacts
<1> HIDE DEF a
<1>3. \A i \in 1..Len(a) : \/ i \in 1..Len(q) /\ a[i] = q[i]
                           \/ i = Len(q) + 1 /\ a[i] = n + 1
  BY <1>1
<1>4. \A i \in 1..Len(q) : q[i] \in 1..n /\ q[i] < n + 1
  BY <1>1 DEF Ascending
<1>5. \A i \in 1..Len(a) : a[i] \in 1..(n + 1)
  BY <1>3, <1>4
<1>6. ASSUME NEW i \in 1..Len(a), NEW j \in 1..Len(a), i < j
      PROVE  a[i] < a[j]
  <2>1. i \in 1..Len(q) /\ a[i] = q[i]
    BY <1>1, <1>6
  <2>2. CASE j \in 1..Len(q)
    BY <1>1, <1>6, <2>1, <2>2 DEF Ascending
  <2>3. CASE j = Len(q) + 1
    BY <1>1, <1>4, <2>1, <2>3
  <2> QED  BY <1>3, <2>2, <2>3
<1>7. ASSUME NEW i \in 1..Len(l), NEW j \in 1..Len(a)
      PROVE  l[i] < a[j]
  <2>1. l[i] \in Nat /\ l[i] < n + 1
    BY <1>1 DEF Ascending
  <2>2. CASE j \in 1..Len(q)
    BY <1>1, <2>2 DEF Ascending
  <2>3. CASE j = Len(q) + 1
    BY <1>1, <2>1, <2>3
  <2> QED  BY <1>3, <2>2, <2>3
<1>8. \A i \in 1..Len(l) : l[i] \in 1..(n + 1)
  BY <1>1 DEF Ascending
<1>9. \A i, j \in 1..Len(l) : i < j => l[i] < l[j]
  BY DEF Ascending
<1>10. Ascending(l, a, n + 1)
  BY <1>5, <1>6, <1>7, <1>8, <1>9 DEF Ascending
<1> QED  BY <1>10 DEF a

LEMMA AscendingTail ==
  ASSUME NEW l \in Seq(Nat), NEW q \in Seq(Nat), NEW n \in Nat, Ascending(l, q, n),
         q # <<>>
  PROVE  Ascending(l, Tail(q), n)
<1> DEFINE t == Tail(q)
<1>1. /\ Len(q) \in Nat \ {0} /\ Len(t) = Len(q) - 1
      /\ \A i \in 1..Len(t) : t[i] = q[i + 1]
  BY TailFacts
<1> HIDE DEF t
<1>2. \A i \in 1..Len(t) : i + 1 \in 1..Len(q) /\ t[i] = q[i + 1]
  BY <1>1
<1>3. \A i, j \in 1..Len(t) : i < j => t[i] < t[j]
  <2> SUFFICES ASSUME NEW i \in 1..Len(t), NEW j \in 1..Len(t), i < j
               PROVE  t[i] < t[j]
    OBVIOUS
  <2>1. i + 1 < j + 1
    OBVIOUS
  <2> QED  BY <1>2, <2>1 DEF Ascending
<1>4. Ascending(l, t, n)
  BY <1>2, <1>3 DEF Ascending
<1> QED  BY <1>4 DEF t

LEMMA AscendingMove ==
  ASSUME NEW l \in Seq(Nat), NEW q \in Seq(Nat), NEW n \in Nat, Ascending(l, q, n),
         q # <<>>
  PROVE  Ascending(Append(l, Head(q)), Tail(q), n)
<1> DEFINE a == Append(l, Head(q))
           t == Tail(q)
<1>1. /\ Len(q) \in Nat \ {0} /\ Len(t) = Len(q) - 1 /\ Len(l) \in Nat
      /\ Head(q) = q[1] /\ q[1] \in Nat
      /\ \A i \in 1..Len(t) : t[i] = q[i + 1]
  BY TailFacts
<1>2. /\ Len(a) = Len(l) + 1
      /\ \A i \in 1..Len(l) : a[i] = l[i] /\ l[i] \in Nat
      /\ a[Len(l) + 1] = q[1]
  BY <1>1, AppendFacts
<1>3. Ascending(l, t, n)
  BY AscendingTail
<1> HIDE DEF a, t
<1>4. 1 \in 1..Len(q)
  BY <1>1
<1>5. q[1] \in 1..n /\ \A i \in 1..Len(l) : l[i] < q[1]
  BY <1>4 DEF Ascending
<1>6. \A i \in 1..Len(a) : \/ i \in 1..Len(l) /\ a[i] = l[i]
                           \/ i = Len(l) + 1 /\ a[i] = q[1]
  BY <1>1, <1>2
<1>7. \A i \in 1..Len(a) : a[i] \in 1..n
  BY <1>5, <1>6 DEF Ascending
<1>8. ASSUME NEW i \in 1..Len(a), NEW j \in 1..Len(a), i < j
      PROVE  a[i] < a[j]
  <2>1. i \in 1..Len(l) /\ a[i] = l[i]
    BY <1>1, <1>2, <1>8
  <2>2. CASE j \in 1..Len(l)
    BY <1>2, <1>8, <2>1, <2>2 DEF Ascending
  <2>3. CASE j = Len(l) + 1
    BY <1>2, <1>5, <2>1, <2>3
  <2> QED  BY <1>6, <2>2, <2>3
<1>9. ASSUME NEW i \in 1..Len(a), NEW j \in 1..Len(t)
      PROVE  a[i] < t[j]
  <2>1. j + 1 \in 1..Len(q) /\ t[j] = q[j + 1] /\ 1 < j + 1
    BY <1>1
  <2>2. q[1] < t[j]
    BY <1>4, <2>1 DEF Ascending
  <2>3. \A k \in 1..Len(l) : l[k] < t[j]
    BY <1>3 DEF Ascending
  <2> QED  BY <1>6, <2>2, <2>3
<1>10. Ascending(a, t, n)
  BY <1>3, <1>7, <1>8, <1>9 DEF Ascending
<1> QED  BY <1>10 DEF a, t

LEMMA AscendingDiscard ==
  ASSUME NEW l \in Seq(Nat), NEW q \in Seq(Nat), NEW n \in Nat, NEW x \in Nat,
         Ascending(Append(l, x), q, n)
  PROVE  Ascending(l, q, n)
<1> DEFINE a == Append(l, x)
<1>1. /\ Len(a) = Len(l) + 1 /\ Len(l) \in Nat
      /\ \A i \in 1..Len(l) : a[i] = l[i]
  BY AppendFacts
<1>2. Ascending(a, q, n)
  OBVIOUS
<1> HIDE DEF a
<1>3. \A i \in 1..Len(l) : i \in 1..Len(a) /\ a[i] = l[i]
  BY <1>1
<1> QED  BY <1>2, <1>3 DEF Ascending

LEMMA AscendingInductive ==
  CoordInv /\ DataOK' /\ ArrivedOK /\ AscendingInv /\ [Next]_vars => AscendingInv'
<1> SUFFICES ASSUME CoordInv, DataOK', ArrivedOK, AscendingInv, [Next]_vars,
                    NEW s \in Streams
             PROVE  Ascending(Written(s), queue[s], Arrived(s))'
  BY DEF AscendingInv
<1> DEFINE l == Written(s)
           q == queue[s]
           n == Arrived(s)
<1>1. l \in Seq(Nat) /\ q \in Seq(Nat) /\ n \in Nat /\ l' \in Seq(Nat)
  BY CoordFacts, WrittenFacts, WrittenNext DEF ArrivedOK
<1>2. Ascending(l, q, n)
  BY DEF AscendingInv
<1>3. \/ UNCHANGED <<l, q, n>>
      \/ l' = l /\ q' = Append(q, n + 1) /\ n' = n + 1
      \/ l' = l /\ q # <<>> /\ q' = Tail(q) /\ n' = n
      \/ l' = Append(l, Head(q)) /\ q # <<>> /\ q' = Tail(q) /\ n' = n
      \/ (\E x \in Nat : l = Append(l', x)) /\ q' = q /\ n' = n
  BY WrittenStep
<1> HIDE DEF l, q, n
<1>4. ASSUME NEW x \in Nat, l = Append(l', x), q' = q, n' = n
      PROVE  Ascending(l', q', n')
  BY <1>1, <1>2, <1>4, AscendingDiscard
<1>5. Ascending(l', q', n')
  BY <1>1, <1>2, <1>3, <1>4, AscendingMore, AscendingTail, AscendingMove
<1> QED  BY <1>5 DEF l, q, n

SessionInv == CoordInv /\ ArrivedOK /\ AscendingInv /\ LosslessInv

LEMMA SessionInit == Init => SessionInv
<1> SUFFICES ASSUME Init PROVE SessionInv
  OBVIOUS
<1>1. ASSUME NEW s \in Streams PROVE Ascending(Written(s), queue[s], Arrived(s))
  <2>1. Len(Written(s)) = 0 /\ Len(queue[s]) = 0
    BY StreamsInit
  <2> QED  BY <2>1 DEF Ascending
<1> QED
  BY <1>1, CoordInit, ArrivedInit, LosslessInit DEF SessionInv, AscendingInv

LEMMA SessionInductive == SessionInv /\ DataOK' /\ [Next]_vars => SessionInv'
  BY CoordInductive, ArrivedInductive, AscendingInductive, LosslessInductive
     DEF SessionInv

\* The session's variables in terms of the coordinator's.
Status == IF manifest THEN "published"
          ELSE IF mainPc \in {"closing", "done"} THEN "failed"
          ELSE "recording"
Admitted == [s \in Streams |-> Arrived(s)]
streamVars == <<pc, queue, taken, log, abandoned>>

\* What a step can do to the session's status.
LEMMA StatusStep ==
  ASSUME SessionInv, [Next]_vars
  PROVE  \/ Status' = Status
         \/ /\ Status = "recording" /\ Status' = "failed"
            /\ UNCHANGED streamVars
         \/ /\ Status = "recording" /\ Status' = "published"
            /\ mainPc = "decide" /\ fault = NoFault
            /\ UNCHANGED streamVars
<1> DEFINE Goal == \/ Status' = Status
                   \/ /\ Status = "recording" /\ Status' = "failed"
                      /\ UNCHANGED streamVars
                   \/ /\ Status = "recording" /\ Status' = "published"
                      /\ mainPc = "decide" /\ fault = NoFault
                      /\ UNCHANGED streamVars
<1> USE DEF streamVars, mainVars, threadVars, recorderVars
<1>1. DataOK /\ (manifest => mainPc = "done")
  BY CoordFacts DEF SessionInv
<1>2. ASSUME NEW t \in Streams, ThreadStep(t) PROVE Goal
  BY <1>1, <1>2, ThreadFrame DEF ThreadEffect, Status
<1>3. CASE Abandon \/ FinalizeFails \/ InterruptedCleanup
  BY <1>1, <1>3 DEF Abandon, FinalizeFails, InterruptedCleanup, MainGoto, Status
<1>4. CASE Finalize \/ InterruptedFinalize
  BY <1>1, <1>4 DEF Finalize, InterruptedFinalize, MainGoto, Status
<1>5. CASE CloseRecorder
  BY <1>1, <1>5 DEF CloseRecorder, MainGoto, Status
<1>6. CASE /\ MainStep
           /\ ~(Abandon \/ FinalizeFails \/ InterruptedCleanup \/ Finalize
                  \/ InterruptedFinalize \/ CloseRecorder)
  <2>1. /\ manifest' = manifest
        /\ mainPc' \in {"closing", "done"} <=> mainPc \in {"closing", "done"}
    BY <1>6 DEF MainStep, Run, StartThread, StartFails, LoopTest, DrainTake,
       DrainEmpty, DrainWrite, DrainFails, DrainPass, CheckAlive, SetStop,
       CloseSources, Join, Interrupt, Interrupted, Deadline, Terminated, vars,
       Draining, MainGoto
  <2> QED  BY <2>1 DEF Status
<1> QED  BY <1>2, <1>3, <1>4, <1>5, <1>6, StepSplit

\* A stream refuses an item in a step that moves no other.
LEMMA AbandonStep ==
  ASSUME CoordInv, [Next]_vars
  PROVE  \/ abandoned' = abandoned
         \/ \E t \in Streams : /\ Alive(t) /\ t \notin abandoned
                               /\ abandoned' = abandoned \cup {t}
                               /\ \A s \in Streams : Unmoved(s)
<1>1. DataOK /\ ThreadsStarted /\ RoomInv /\ AbandonInv
  BY CoordFacts
<1>2. ASSUME NEW t \in Streams, ThreadStep(t), abandoned' # abandoned
      PROVE  /\ Alive(t) /\ t \notin abandoned
             /\ abandoned' = abandoned \cup {t}
             /\ \A s \in Streams : Unmoved(s)
  <2>1. t \notin abandoned /\ abandoned' = abandoned \cup {t} /\ Unmoved(t)
    BY <1>1, <1>2, ThreadOwn
  <2>2. Alive(t) /\ \A s \in Streams \ {t} : Unmoved(s)
    BY <1>1, <1>2, ThreadFrame
       DEF ThreadEffect, mainVars, Unmoved, Held, KeepsEvicted, Arrived, InHand
  <2> QED  BY <2>1, <2>2
<1>3. CASE MainStep
  BY <1>1, <1>3, MainFrame DEF MainEffect
<1> QED  BY <1>2, <1>3, StepSplit

LEMMA SessionStep ==
  SessionInv /\ DataOK' /\ [Next]_vars => [Session!Next]_(Session!vars)
<1> SUFFICES ASSUME SessionInv, DataOK', [Next]_vars,
                    UNCHANGED <<Status, Admitted, abandoned, log>> => FALSE
             PROVE  Session!Next
  BY DEF Session!vars, Status, Admitted
<1>1. CoordInv /\ ArrivedOK /\ AscendingInv /\ LosslessInv
  BY DEF SessionInv
<1>2. /\ DataOK /\ ThreadsStarted /\ HandInv /\ RoomInv /\ AbandonInv
      /\ Drained /\ PublishedClean /\ (manifest => mainPc = "done")
      /\ log \in [Streams -> Seq(Nat)] /\ log' \in [Streams -> Seq(Nat)]
  BY <1>1, CoordFacts DEF DataOK
<1>3. \A t \in Streams : Alive(t) => Status # "published"
  BY <1>2 DEF PublishedClean, Alive, Status
<1>4. ASSUME \A s \in Streams : Unmoved(s)
      PROVE  log' = log /\ Admitted' = Admitted
  BY <1>2, <1>4 DEF Unmoved, Admitted
<1>5. ASSUME UNCHANGED streamVars
      PROVE  log' = log /\ Admitted' = Admitted /\ abandoned' = abandoned
  BY <1>5 DEF streamVars, Admitted, Arrived, InHand
\* An item is given up.
<1>6. CASE abandoned' # abandoned
  <2>1. PICK t \in Streams : /\ Alive(t) /\ t \notin abandoned
                             /\ abandoned' = abandoned \cup {t}
                             /\ \A s \in Streams : Unmoved(s)
    BY <1>1, <1>6, AbandonStep
  <2>2. Status' = Status
    BY <1>5, <1>6, StatusStep
  <2>3. Session!Refuse(t)
    BY <1>3, <1>4, <2>1, <2>2 DEF Session!Refuse, Status, Admitted
  <2> QED  BY <2>1, <2>3 DEF Session!Next
\* An item is put, stored, or only moved.
<1>7. CASE abandoned' = abandoned /\ Status' = Status
  <2>1. ~\A s \in Streams : Unmoved(s)
    BY <1>4, <1>7
  <2>2. PICK t \in Streams : /\ \/ OwnStep(t) /\ Alive(t)
                                \/ DrainStep(t)
                             /\ \A s \in Streams \ {t} : Unmoved(s)
    BY <1>2, <2>1, StreamStep
  <2>3. ASSUME log'[t] = log[t] PROVE log' = log
    BY <1>2, <2>2, <2>3 DEF Unmoved
  <2>4. ASSUME Arrived(t)' = Arrived(t) PROVE Admitted' = Admitted
    BY <2>2, <2>4 DEF Unmoved, Admitted
  <2>5. CASE Enqueues(t) /\ Alive(t)
    <3>1. Admitted' = [Admitted EXCEPT ![t] = @ + 1]
      BY <2>2, <2>5 DEF Enqueues, Unmoved, Admitted
    <3>2. log' = log /\ t \notin abandoned
      BY <2>3, <2>5 DEF Enqueues
    <3>3. Session!Admit(t)
      BY <1>3, <1>7, <2>5, <3>1, <3>2 DEF Session!Admit, Status, Admitted
    <3> QED  BY <3>3 DEF Session!Next
  <2>6. CASE Unmoved(t) \/ Evicts(t) \/ Takes(t) \/ Discards(t)
    <3>1. log'[t] = log[t] /\ Arrived(t)' = Arrived(t)
      BY <2>6 DEF Unmoved, Evicts, Takes, Discards
    <3> QED  BY <1>7, <2>3, <2>4, <3>1
  <2>7. CASE Stores(t)
    <3>1. /\ log[t] \in Seq(Nat) /\ Head(hand) \in Nat
          /\ Written(t) = Append(log[t], Head(hand))
      <4>1. Held(t) # <<>>
        BY <2>7 DEF Stores
      <4> QED  BY <1>2, <4>1, WrittenFacts
    <3>2. PICK i \in Nat : i = Head(hand)
      BY <3>1
    <3>3. /\ Len(Written(t)) = Len(log[t]) + 1 /\ Len(log[t]) \in Nat
          /\ \A k \in 1..Len(log[t]) : Written(t)[k] = log[t][k]
          /\ Written(t)[Len(log[t]) + 1] = i
      BY <3>1, <3>2, AppendFacts
    <3>4. Ascending(Written(t), queue[t], Arrived(t))
      BY <1>1 DEF AscendingInv
    <3>5. i \in 1..Admitted[t]
      BY <3>3, <3>4 DEF Ascending, Admitted
    <3>6. \A k \in 1..Len(log[t]) : log[t][k] < i
      <4>1. PICK w : w = Written(t)
        OBVIOUS
      <4>2. PICK n \in Nat : n = Len(log[t])
        BY <3>3
      <4>3. Len(w) = n + 1 /\ w[n + 1] = i /\ \A k \in 1..n : w[k] = log[t][k]
        BY <3>3, <4>1, <4>2
      <4>4. \A k, j \in 1..Len(w) : k < j => w[k] < w[j]
        BY <3>4, <4>1 DEF Ascending
      <4>5. ASSUME NEW k \in 1..n PROVE log[t][k] < i
        <5>1. k \in 1..Len(w) /\ n + 1 \in 1..Len(w) /\ k < n + 1
          BY <4>2, <4>3
        <5> QED
          BY <4>3, <4>4, <4>5, <5>1
      <4> QED
        BY <4>2, <4>5
    <3>7. log' = [log EXCEPT ![t] = Append(@, i)]
      BY <1>2, <2>2, <2>7, <3>2 DEF Stores, Unmoved
    <3>8. Status = "recording"
      BY <1>2, <2>7 DEF Stores, Status
    <3>9. Admitted' = Admitted
      BY <2>4, <2>7 DEF Stores
    <3>10. Session!Store(t)
      BY <1>7, <3>5, <3>6, <3>7, <3>8, <3>9 DEF Session!Store, Status, Admitted
    <3> QED  BY <3>10 DEF Session!Next
  <2> QED
    BY <2>2, <2>5, <2>6, <2>7 DEF OwnStep, DrainStep
<1>8. CASE Status = "recording" /\ Status' = "failed" /\ UNCHANGED streamVars
  <2>1. Session!Fail
    BY <1>5, <1>8 DEF Session!Fail, Status, Admitted
  <2> QED  BY <2>1 DEF Session!Next
\* A session that is published has its telemetry queue drained into the log.
<1>9. CASE /\ Status = "recording" /\ Status' = "published"
           /\ mainPc = "decide" /\ fault = NoFault
           /\ UNCHANGED streamVars
  <2>1. log["telemetry"] = [i \in 1..Arrived("telemetry") |-> i]
    <3>1. TelemetryLossless
      BY <1>1, <1>2, LosslessStated
    <3>2. log["telemetry"] \o Held("telemetry") \o queue["telemetry"]
            = [i \in 1..Arrived("telemetry") |-> i]
      BY <1>9, <3>1 DEF TelemetryLossless
    <3>3. queue["telemetry"] = <<>>
      BY <1>2, <1>9, StreamNames DEF Drained
    <3>4. Held("telemetry") = <<>>
      BY <1>2, <1>9 DEF HandInv, Held
    <3>5. log["telemetry"] \o <<>> \o <<>> = log["telemetry"]
      BY <1>2, StreamNames, ConcatEmptySeq
    <3> QED  BY <3>2, <3>3, <3>4, <3>5
  <2>2. \A s \in {"telemetry"} : Session!Complete(s)
    BY <2>1, StreamNames DEF Session!Complete
  <2>3. Session!Publish
    BY <1>5, <1>9, <2>2 DEF Session!Publish, Status, Admitted
  <2> QED  BY <2>3 DEF Session!Next
<1> QED  BY <1>6, <1>7, <1>8, <1>9, StatusStep

\* The coordinator with its threads, queues, faults and interrupts is a
\* CaptureSession: a published session is sealed and complete up to a datagram
\* that was refused, and no stream is ever stored out of order.
THEOREM SessionImplemented == Spec => ImplementsSession
<1>1. Init => Session!Init
  <2> SUFFICES ASSUME Init PROVE Session!Init
    OBVIOUS
  <2>1. Admitted = [s \in Streams |-> 0] /\ Status = "recording"
    BY StreamsInit DEF Init, Admitted, Status
  <2> QED  BY <2>1 DEF Init, Session!Init, Admitted, Status
<1> QED
  BY <1>1, SessionInit, DataCorrect, SessionInductive, SessionStep, PTL
     DEF Spec, ImplementsSession, Session!Spec
=============================================================================
