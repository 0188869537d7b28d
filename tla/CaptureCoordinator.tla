------------------------- MODULE CaptureCoordinator -------------------------
(***************************************************************************)
(* capture/coordinator.py: three source threads put items on bounded       *)
(* queues, the main thread drains them into the session recorder, stops    *)
(* the threads, and either publishes the session's manifest or raises.     *)
(*                                                                         *)
(* One step of the model is one access to an object that another thread    *)
(* uses as well (a queue, the stop event, the fault, a health counter);    *)
(* accesses that commute with those of the other threads are merged with   *)
(* the step before or after them.  The i-th item the loop of a thread      *)
(* takes is the number i.  The source iterators (camera, controller,       *)
(* receiver) may at any call yield, end or raise: they block for a bounded *)
(* time only.  The recorder's files are modelled in SessionRecorder.       *)
(***************************************************************************)
EXTENDS Integers, Sequences

CONSTANTS Capacity,      \* queue capacity of each stream
          MaxFrames,     \* frames the recorder takes at most
          SourceItems,   \* bound: items each source yields at most
          MaxInterrupts  \* bound: KeyboardInterrupts delivered at most

Streams == {"camera", "controller", "telemetry"}
Lossy == {"camera", "controller"}
Order == <<"camera", "controller", "telemetry">>

ASSUME CapacityAssumption == Capacity \in [Streams -> Nat \ {0}]
ASSUME MaxFramesAssumption == MaxFrames \in Nat \ {0}
ASSUME SourceItemsAssumption == SourceItems \in [Streams -> Nat]
ASSUME MaxInterruptsAssumption == MaxInterrupts \in Nat

VARIABLES
  mainPc,      \* where the thread in run() is
  turn,        \* position in a loop over the three streams
  progressed,  \* _drain's flag of the current pass
  hand,        \* what _drain has taken and not written: <<item>> or <<>>
  pc,          \* where each source thread is
  queue,       \* the bounded queue of each stream
  taken,       \* items each loop body has begun to put on its queue
  abandoned,   \* history: streams whose thread ended with an item in hand
  read,        \* the health counter value a thread has read to increment
  stop,        \* the _stop event
  expired,     \* the clock has reached the deadline
  fault,       \* _fault: which part raised it, or NoFault
  log,         \* what the recorder has appended to each stream
  health,      \* HealthCounters of the recorder
  events,      \* lines of each kind in health.jsonl
  unflushed,   \* lines of each kind that a failed flush left in its buffer
  recorder,    \* "open", "broken" (some files are closed), or "closed"
  manifest,    \* manifest.json exists
  interrupts,  \* KeyboardInterrupts delivered
  evicted      \* history: items thrown out of each lossy queue

mainVars == <<mainPc, turn, progressed, hand>>
lines == <<events, unflushed>>
recorderVars == <<log, health, lines, recorder, manifest>>
threadVars == <<pc, taken, read, abandoned>>
vars == <<mainVars, threadVars, queue, stop, expired, fault, recorderVars,
          interrupts, evicted>>

NoFault == "none"
Counters == {"dropped", "stale", "disconnects", "writer_faults"}

\* start() has not created the threads yet; SessionRecorder.__init__ has run.
Init == /\ mainPc = "start"
        /\ turn = 1
        /\ progressed = FALSE
        /\ hand = <<>>
        /\ pc = [s \in Streams |-> "unstarted"]
        /\ queue = [s \in Streams |-> <<>>]
        /\ taken = [s \in Streams |-> 0]
        /\ abandoned = {}
        /\ read = [s \in Lossy |-> 0]
        /\ stop = FALSE
        /\ expired = FALSE
        /\ fault = NoFault
        /\ log = [s \in Streams |-> <<>>]
        /\ health = [c \in Counters |-> 0]
        /\ events = [c \in Counters |-> 0]
        /\ unflushed = [c \in Counters |-> 0]
        /\ recorder = "open"
        /\ manifest = FALSE
        /\ interrupts = 0
        /\ evicted = [s \in Lossy |-> 0]

Alive(s) == pc[s] \notin {"unstarted", "dead"}
Full(s) == Len(queue[s]) >= Capacity[s]

\* start() holds _lock until every thread is started, so no fault is noted then.
LockFree == mainPc # "start"

\* _remember_fault: the first fault is kept.
Remembered(who) == IF fault = NoFault THEN who ELSE fault

-----------------------------------------------------------------------------
(* health.jsonl. *)

\* The counts with one more of this kind.
Bumped(counts, kind) == [counts EXCEPT ![kind] = @ + 1]

\* Wrong: what waits in the buffer is given up.
FlushForgets == UNCHANGED events /\ unflushed' = [c \in Counters |-> 0]

\* A flush writes the lines that wait in the buffer.
Flush == /\ events' = [c \in Counters |-> events[c] + unflushed[c]]
         /\ unflushed' = [c \in Counters |-> 0]

\* A line is written and flushed, unless its file is closed.
LineWritten(kind) ==
  /\ recorder # "closed"
  /\ events' = Bumped([c \in Counters |-> events[c] + unflushed[c]], kind)
  /\ unflushed' = [c \in Counters |-> 0]

\* The write raises: its file is closed, or the flush fails (the disk is full)
\* and the line waits in the buffer for the next one.
LineFails(kind) == \/ /\ recorder # "closed"
                      /\ unflushed' = Bumped(unflushed, kind)
                      /\ UNCHANGED events
                   \/ recorder # "open" /\ UNCHANGED lines

\* _health_event for a counter that one thread alone writes: the counter is
\* increased before the line is written; a closed recorder raises before both.
HealthEvent(kind, succeeds) ==
  \/ /\ health' = Bumped(health, kind)
     /\ IF succeeds THEN LineWritten(kind) ELSE LineFails(kind)
  \/ recorder = "closed" /\ ~succeeds /\ UNCHANGED <<health, lines>>

-----------------------------------------------------------------------------
(* The source threads. *)

Goto(s, label) == pc' = [pc EXCEPT ![s] = label]

\* Leaving the loop: only the camera thread has a finally clause.
Leave(s) == IF s = "camera" THEN "close" ELSE "dead"

Enqueue(s) == queue' = [queue EXCEPT ![s] = Append(@, taken[s])]

\* The source yields an item and the loop body reads the stop event.
Yield(s) == /\ pc[s] = "next"
            /\ taken[s] < SourceItems[s]
            /\ IF stop
                 THEN Goto(s, Leave(s)) /\ UNCHANGED taken
                 ELSE Goto(s, "put") /\ taken' = [taken EXCEPT ![s] = @ + 1]
            /\ UNCHANGED <<mainVars, queue, read, abandoned, stop, expired,
                           fault, recorderVars, interrupts, evicted>>

Exhausted(s) == /\ pc[s] = "next"
                /\ Goto(s, Leave(s))
                /\ UNCHANGED <<mainVars, queue, taken, read, abandoned, stop,
                               expired, fault, recorderVars, interrupts,
                               evicted>>

SourceRaises(s) == /\ pc[s] = "next"
                   /\ Goto(s, "caught")
                   /\ UNCHANGED <<mainVars, queue, taken, read, abandoned, stop,
                                  expired, fault, recorderVars, interrupts,
                                  evicted>>

\* The thread's handler reads the stop event (and in the telemetry thread the
\* fault) to decide whether the exception is a fault.
Judge(s) == /\ pc[s] = "caught"
            /\ Goto(s, IF stop /\ (s = "telemetry" => fault = NoFault)
                         THEN Leave(s) ELSE "raise")
            /\ UNCHANGED <<mainVars, queue, taken, read, abandoned, stop,
                           expired, fault, recorderVars, interrupts, evicted>>

\* It is one: the camera and the controller thread overwrite an earlier fault,
\* the telemetry thread does not.
RaiseFault(s) == /\ pc[s] = "raise"
                 /\ LockFree
                 /\ fault' = IF s = "telemetry" THEN Remembered(s) ELSE s
                 /\ stop' = TRUE
                 /\ Goto(s, Leave(s))
                 /\ UNCHANGED <<mainVars, queue, taken, read, abandoned,
                                expired, recorderVars, interrupts, evicted>>

AfterPut(s) == IF s = "camera" THEN "limit" ELSE "next"

\* An exception on the way to the queue: the item in hand is never put.
Loses(s) == Goto(s, "caught") /\ abandoned' = abandoned \cup {s}

\* put_nowait on a queue with room.
Put(s) == /\ pc[s] = "put"
          /\ ~Full(s)
          /\ Enqueue(s)
          /\ Goto(s, AfterPut(s))
          /\ UNCHANGED <<mainVars, taken, read, abandoned, stop, expired, fault,
                         recorderVars, interrupts, evicted>>

\* put_nowait on a full queue raises Full.
PutFull(s) == /\ pc[s] = "put"
              /\ Full(s)
              /\ Goto(s, IF s = "telemetry" THEN "overload" ELSE "evict")
              /\ UNCHANGED <<mainVars, queue, taken, read, abandoned, stop,
                             expired, fault, recorderVars, interrupts, evicted>>

\* Wrong: the newest item is thrown out, or none at all.
DropNewest(q) == SubSeq(q, 1, Len(q) - 1)
DropNothing(q) == q

\* get_nowait takes the oldest item.
DropOldest(q) == Tail(q)

\* get_nowait, Empty ignored.
Evict(s) == /\ pc[s] = "evict"
            /\ IF queue[s] = <<>>
                 THEN UNCHANGED <<queue, evicted>>
                 ELSE /\ queue' = [queue EXCEPT ![s] = DropOldest(@)]
                      /\ evicted' = [evicted EXCEPT ![s] = @ + 1]
            /\ Goto(s, "record")
            /\ UNCHANGED <<mainVars, taken, read, abandoned, stop, expired,
                           fault, recorderVars, interrupts>>

\* The first half of record_drop: the recorder must be open, and the counter
\* is read.
ReadDrops(s) == /\ pc[s] = "record"
                /\ \/ /\ recorder # "closed"
                      /\ read' = [read EXCEPT ![s] = health["dropped"]]
                      /\ Goto(s, "count")
                      /\ UNCHANGED abandoned
                   \/ recorder = "closed" /\ Loses(s) /\ UNCHANGED read
                /\ UNCHANGED <<mainVars, queue, taken, stop, expired, fault,
                               recorderVars, interrupts, evicted>>

\* The second half writes the counter and the health line.
CountDrop(s) ==
  /\ pc[s] = "count"
  /\ health' = [health EXCEPT !["dropped"] = read[s] + 1]
  /\ \/ LineWritten("dropped") /\ Goto(s, "requeue") /\ UNCHANGED abandoned
     \/ LineFails("dropped") /\ Loses(s)
  /\ UNCHANGED <<mainVars, queue, taken, read, stop, expired, fault, log,
                 recorder, manifest, interrupts, evicted>>

\* Wrong: the item that met the full queue is not put again.
RequeueForgotten(s) ==
  /\ pc[s] = "requeue"
  /\ Goto(s, AfterPut(s))
  /\ UNCHANGED <<mainVars, queue, taken, read, abandoned, stop, expired, fault,
                 recorderVars, interrupts, evicted>>

\* The item is put again; a full queue would raise.
Requeue(s) ==
  /\ pc[s] = "requeue"
  /\ \/ ~Full(s) /\ Enqueue(s) /\ Goto(s, AfterPut(s)) /\ UNCHANGED abandoned
     \/ Full(s) /\ Loses(s) /\ UNCHANGED queue
  /\ UNCHANGED <<mainVars, taken, read, stop, expired, fault, recorderVars,
                 interrupts, evicted>>

\* The camera thread alone compares the clock with the deadline.
CameraDeadline == /\ pc["camera"] = "limit"
                  /\ stop' = (stop \/ expired)
                  /\ Goto("camera", IF expired THEN "close" ELSE "next")
                  /\ UNCHANGED <<mainVars, queue, taken, read, abandoned,
                                 expired, fault, recorderVars, interrupts,
                                 evicted>>

\* The finally clause: close() succeeds, or its exception is a fault.
CloseCamera == /\ pc["camera"] = "close"
               /\ \/ UNCHANGED <<fault, stop>>
                  \/ /\ LockFree
                     /\ fault' = Remembered("camera")
                     /\ stop' = TRUE
               /\ Goto("camera", "dead")
               /\ UNCHANGED <<mainVars, queue, taken, read, abandoned, expired,
                              recorderVars, interrupts, evicted>>

\* ControllerDisconnected: the disconnect is recorded, and a stale stream too
\* unless the session is stopping.  Both are written inside a handler: what they
\* raise ends the thread and is no fault.
Disconnect ==
  /\ pc["controller"] = "next"
  /\ \/ /\ HealthEvent("disconnects", TRUE)
        /\ Goto("controller", IF stop THEN "dead" ELSE "stale")
     \/ HealthEvent("disconnects", FALSE) /\ Goto("controller", "dead")
  /\ UNCHANGED <<mainVars, queue, taken, read, abandoned, stop, expired, fault,
                 log, recorder, manifest, interrupts, evicted>>

RecordStale ==
  /\ pc["controller"] = "stale"
  /\ \E succeeds \in BOOLEAN : HealthEvent("stale", succeeds)
  /\ Goto("controller", "dead")
  /\ UNCHANGED <<mainVars, queue, taken, read, abandoned, stop, expired, fault,
                 log, recorder, manifest, interrupts, evicted>>

\* Wrong: a datagram that meets a full queue is skipped like a frame.
OverloadSkips ==
  /\ pc["telemetry"] = "overload"
  /\ Goto("telemetry", "next")
  /\ UNCHANGED <<mainVars, queue, taken, read, abandoned, stop, expired, fault,
                 recorderVars, interrupts, evicted>>

\* The writer fault is recorded, and then noted as the fault.  If recording it
\* raises, that exception reaches the handler with no fault noted.
Overload ==
  /\ pc["telemetry"] = "overload"
  /\ \/ HealthEvent("writer_faults", TRUE) /\ LockFree /\ fault' = "telemetry"
     \/ HealthEvent("writer_faults", FALSE) /\ UNCHANGED fault
  /\ Loses("telemetry")
  /\ UNCHANGED <<mainVars, queue, taken, read, stop, expired, log, recorder,
                 manifest, interrupts, evicted>>

SourceStep(s) == Yield(s) \/ Exhausted(s) \/ SourceRaises(s) \/ Judge(s)
                   \/ RaiseFault(s) \/ Put(s) \/ PutFull(s)
LossyStep(s) == Evict(s) \/ ReadDrops(s) \/ CountDrop(s) \/ Requeue(s)

Camera == SourceStep("camera") \/ LossyStep("camera") \/ CameraDeadline
            \/ CloseCamera
Controller == SourceStep("controller") \/ LossyStep("controller")
                \/ Disconnect \/ RecordStale
Telemetry == SourceStep("telemetry") \/ Overload

-----------------------------------------------------------------------------
(* The thread in run(). *)

MainGoto(label) == mainPc' = label

LastTurn == turn = 3

\* thread.start() for the next thread, or its failure.
StartThread == /\ mainPc = "start"
               /\ Goto(Order[turn], "next")
               /\ IF ~LastTurn THEN turn' = turn + 1 /\ UNCHANGED mainPc
                              ELSE turn' = 1 /\ MainGoto("loop")
               /\ UNCHANGED <<progressed, hand, queue, taken, read, abandoned,
                              stop, expired, fault, recorderVars, interrupts,
                              evicted>>

StartFails == /\ mainPc = "start"
              /\ fault' = Remembered("main")
              /\ MainGoto("stop")
              /\ UNCHANGED <<turn, progressed, hand, threadVars, queue, stop,
                             expired, recorderVars, interrupts, evicted>>

\* while not stop.is_set() and clock() < deadline
LoopTest == /\ mainPc = "loop"
            /\ MainGoto(IF stop \/ expired THEN "stop" ELSE "drain")
            /\ turn' = 1
            /\ progressed' = FALSE
            /\ UNCHANGED <<hand, threadVars, queue, stop, expired, fault,
                           recorderVars, interrupts, evicted>>

Draining == mainPc \in {"drain", "final"}

FrameLimit(s) == s = "camera" /\ Len(log[s]) >= MaxFrames

\* get_nowait of the queue whose turn it is takes an item,
DrainTake == /\ Draining
             /\ turn <= 3 /\ hand = <<>>
             /\ LET s == Order[turn]
                IN  /\ queue[s] # <<>>
                    /\ hand' = <<Head(queue[s])>>
                    /\ queue' = [queue EXCEPT ![s] = Tail(@)]
             /\ UNCHANGED <<mainPc, turn, progressed, threadVars, stop, expired,
                            fault, recorderVars, interrupts, evicted>>

\* or raises Empty.
DrainEmpty == /\ Draining
              /\ turn <= 3 /\ hand = <<>>
              /\ queue[Order[turn]] = <<>>
              /\ turn' = turn + 1
              /\ UNCHANGED <<mainPc, progressed, hand, threadVars, queue, stop,
                             expired, fault, recorderVars, interrupts, evicted>>

\* _write_one: a frame beyond max_frames sets the stop event and is discarded.
DrainWrite == /\ Draining
              /\ hand # <<>>
              /\ LET s == Order[turn]
                 IN  IF FrameLimit(s)
                       THEN stop' = TRUE /\ UNCHANGED log
                       ELSE /\ log' = [log EXCEPT ![s] = Append(@, Head(hand))]
                            /\ UNCHANGED stop
              /\ hand' = <<>>
              /\ turn' = turn + 1
              /\ progressed' = TRUE
              /\ UNCHANGED <<mainPc, threadVars, queue, expired, fault, health,
                             lines, recorder, manifest, interrupts, evicted>>

\* The recorder refuses the item (its timestamp decreases, the disk is full).
DrainFails == /\ Draining
              /\ hand # <<>>
              /\ ~FrameLimit(Order[turn])
              /\ hand' = <<>>
              /\ fault' = Remembered("main")
              /\ MainGoto(IF mainPc = "drain" THEN "stop" ELSE "decide")
              /\ UNCHANGED <<turn, progressed, threadVars, queue, stop, expired,
                             recorderVars, interrupts, evicted>>

\* Wrong: _drain makes one pass only, or never ends.
PassOnce == FALSE
PassForever == TRUE

PassAgain == progressed

\* The end of a pass: another one unless every queue was found empty.
DrainPass == /\ Draining
             /\ turn = 4
             /\ turn' = 1
             /\ progressed' = FALSE
             /\ IF PassAgain
                  THEN UNCHANGED mainPc
                  ELSE MainGoto(IF mainPc = "drain" THEN "alive" ELSE "decide")
             /\ UNCHANGED <<hand, threadVars, queue, stop, expired, fault,
                            recorderVars, interrupts, evicted>>

\* Every source thread has ended: the session stops before its deadline.
CheckAlive == /\ mainPc = "alive"
              /\ IF \A s \in Streams : ~Alive(s)
                   THEN stop' = TRUE /\ MainGoto("stop")
                   ELSE UNCHANGED stop /\ MainGoto("loop")
              /\ UNCHANGED <<turn, progressed, hand, threadVars, queue, expired,
                             fault, recorderVars, interrupts, evicted>>

\* stop(): the event first, then close() of the three sources.
SetStop == /\ mainPc = "stop"
           /\ stop' = TRUE
           /\ MainGoto("close")
           /\ UNCHANGED <<turn, progressed, hand, threadVars, queue, expired,
                          fault, recorderVars, interrupts, evicted>>

CloseSources == /\ mainPc = "close"
                /\ \/ UNCHANGED fault
                   \/ fault' = Remembered("main")
                /\ MainGoto("join")
                /\ UNCHANGED <<turn, progressed, hand, threadVars, queue, stop,
                               expired, recorderVars, interrupts, evicted>>

\* Wrong: the deadline of join() passes unnoticed.
JoinForgives == FALSE

JoinTimesOut == \E s \in Streams : Alive(s)

\* join(): all threads end before the join deadline, or TimeoutError.
Join == /\ mainPc = "join"
        /\ IF JoinTimesOut THEN fault' = Remembered("main")
                           ELSE UNCHANGED fault
        /\ MainGoto("final")
        /\ turn' = 1
        /\ progressed' = FALSE
        /\ UNCHANGED <<hand, threadVars, queue, stop, expired, recorderVars,
                       interrupts, evicted>>

\* A fault: run() closes the recorder file by file and raises.
Abandon == /\ mainPc = "decide"
           /\ fault # NoFault
           /\ recorder' = "broken"
           /\ MainGoto("closing")
           /\ UNCHANGED <<turn, progressed, hand, threadVars, queue, stop,
                          expired, fault, log, health, lines, manifest,
                          interrupts, evicted>>

\* close() comes to its end, or fails on the way.
CloseRecorder == /\ mainPc = "closing"
                 /\ recorder' \in {"broken", "closed"}
                 /\ MainGoto("done")
                 /\ UNCHANGED <<turn, progressed, hand, threadVars, queue, stop,
                                expired, fault, log, health, lines, manifest,
                                interrupts, evicted>>

\* finalize() flushes and closes every file, or fails.
Finalize == /\ mainPc = "decide"
            /\ fault = NoFault
            /\ Flush
            /\ recorder' = "closed"
            /\ manifest' = TRUE
            /\ MainGoto("done")
            /\ UNCHANGED <<turn, progressed, hand, threadVars, queue, stop,
                           expired, fault, log, health, interrupts, evicted>>

\* It raises before the manifest is in place; then recorder.close().
FinalizeFails == /\ mainPc = "decide"
                 /\ fault = NoFault
                 /\ Flush \/ UNCHANGED lines
                 /\ recorder' \in {"broken", "closed"}
                 /\ MainGoto("done")
                 /\ UNCHANGED <<turn, progressed, hand, threadVars, queue, stop,
                                expired, fault, log, health, manifest,
                                interrupts, evicted>>

\* KeyboardInterrupt in the try block of run() is a fault like any other.  An
\* item that _drain has in hand is lost.
Interrupted == /\ mainPc \in {"start", "loop", "drain", "alive"}
               /\ interrupts < MaxInterrupts
               /\ interrupts' = interrupts + 1
               /\ fault' = Remembered("main")
               /\ hand' = <<>>
               /\ MainGoto("stop")
               /\ UNCHANGED <<turn, progressed, threadVars, queue, stop,
                              expired, recorderVars, evicted>>

\* In the finally block it leaves run() at once, without a fault; what _drain
\* has in hand is lost, and stays in hand here.
InterruptedCleanup == /\ mainPc \in {"stop", "close", "join", "final"}
                      /\ interrupts < MaxInterrupts
                      /\ interrupts' = interrupts + 1
                      /\ MainGoto("done")
                      /\ UNCHANGED <<turn, progressed, hand, threadVars, queue,
                                     stop, expired, fault, recorderVars,
                                     evicted>>

\* In finalize() it may come after the manifest has been put in place.
InterruptedFinalize == /\ mainPc = "decide"
                       /\ fault = NoFault
                       /\ interrupts < MaxInterrupts
                       /\ interrupts' = interrupts + 1
                       /\ Flush
                       /\ manifest' = TRUE
                       /\ recorder' \in {"broken", "closed"}
                       /\ MainGoto("done")
                       /\ UNCHANGED <<turn, progressed, hand, threadVars, queue,
                                      stop, expired, fault, log, health,
                                      evicted>>

Run == \/ StartThread \/ StartFails \/ LoopTest \/ DrainTake \/ DrainEmpty
       \/ DrainWrite \/ DrainFails \/ DrainPass \/ CheckAlive \/ SetStop
       \/ CloseSources \/ Join \/ Abandon \/ CloseRecorder \/ Finalize
       \/ FinalizeFails

Interrupt == Interrupted \/ InterruptedCleanup \/ InterruptedFinalize

\* The clock reaches origin + max_seconds.
Deadline == /\ ~expired
            /\ expired' = TRUE
            /\ UNCHANGED <<mainVars, threadVars, queue, stop, fault,
                           recorderVars, interrupts, evicted>>

\* run() has returned or raised and no source thread is left.
Terminated == /\ mainPc = "done"
              /\ \A s \in Streams : ~Alive(s)
              /\ UNCHANGED vars

Next == Camera \/ Controller \/ Telemetry \/ Run \/ Interrupt \/ Deadline
          \/ Terminated

Spec == Init /\ [][Next]_vars

\* The operating system schedules every thread and the clock advances.  The
\* calls of the controller and of the receiver return: the one polls, the other
\* times out.  That of the camera may wait for a frame for ever, so nothing is
\* assumed of the camera thread while it is in its source.
CameraWorks == pc["camera"] # "next" /\ Camera

Fairness == /\ WF_vars(CameraWorks) /\ WF_vars(Controller) /\ WF_vars(Telemetry)
            /\ WF_vars(Run) /\ WF_vars(Deadline)

FairSpec == Spec /\ Fairness

-----------------------------------------------------------------------------
(* Properties. *)

FlagsOK == {progressed, stop, expired, manifest} \subseteq BOOLEAN

Labels == {"unstarted", "next", "put", "overload", "evict", "record", "count",
           "requeue", "limit", "stale", "caught", "raise", "close", "dead"}

DataOK ==
  /\ mainPc \in {"start", "loop", "drain", "alive", "stop", "close", "join",
                 "final", "decide", "closing", "done"}
  /\ turn \in IF mainPc = "start" THEN 1..3 ELSE 1..4
  /\ hand \in Seq(Nat) /\ Len(hand) <= 1
  /\ hand # <<>> => turn <= 3
  /\ pc \in [Streams -> Labels]
  /\ queue \in [Streams -> Seq(Nat)]
  /\ taken \in [Streams -> Nat]
  /\ abandoned \subseteq Streams
  /\ read \in [Lossy -> Nat]
  /\ fault \in Streams \cup {"main", NoFault}
  /\ log \in [Streams -> Seq(Nat)]
  /\ health \in [Counters -> Nat]
  /\ events \in [Counters -> Nat] /\ unflushed \in [Counters -> Nat]
  /\ recorder \in {"open", "broken", "closed"}
  /\ interrupts \in 0..MaxInterrupts
  /\ evicted \in [Lossy -> Nat]

TypeOK == DataOK /\ FlagsOK

\* The thread's loop has an item that is not on its queue yet.
InHand(s) == pc[s] \in {"put", "overload", "evict", "record", "count",
                         "requeue"}

\* Items of the stream that have been put on its queue.  A thread that fails to
\* put one takes no other.
Arrived(s) == IF InHand(s) \/ s \in abandoned THEN taken[s] - 1 ELSE taken[s]

\* The item that _drain has taken from the queue of the stream.
Held(s) == IF hand # <<>> /\ s = Order[turn] THEN hand ELSE <<>>

\* A thread whose handler has let an exception pass that cost it the item in
\* its hand: the session was stopping.
LostWhileStopping(s) ==
  s \in abandoned /\ pc[s] \notin {"caught", "raise"} => stop

\* A manifest is put in place only after every source thread has ended, with
\* every queue drained and written, and never for a session that met a fault:
\* the join and the fault test of run() cannot be overtaken by a thread.
PublishedClean ==
  manifest => /\ fault = NoFault
              /\ hand = <<>>
              /\ \A s \in Streams : pc[s] = "dead" /\ queue[s] = <<>>

\* As long as there is no fault, the telemetry log, the datagram _drain has in
\* hand and the telemetry queue are together every datagram that was put, once
\* and in order; what was not put is at most the last one taken, whose writer
\* fault could not be recorded, and then the session was stopping.
TelemetryLossless ==
  fault = NoFault =>
    /\ log["telemetry"] \o Held("telemetry") \o queue["telemetry"]
         = [i \in 1..Arrived("telemetry") |-> i]
    /\ LostWhileStopping("telemetry")

\* Camera and controller queues drop the oldest items: a queue always holds the
\* newest ones that were put, and what has been logged, or is in the hand of
\* _drain, is older than what is queued and in order.
OldestDropped ==
  \A s \in Lossy :
    LET written == log[s] \o Held(s)
    IN  /\ \A i \in 1..Len(queue[s]) :
             queue[s][i] = Arrived(s) - Len(queue[s]) + i
        /\ \A i \in 1..Len(written) :
             written[i] < IF i < Len(written) THEN written[i + 1]
                          ELSE Arrived(s) - Len(queue[s]) + 1

\* Without a fault no camera or controller item disappears but by an eviction,
\* by the frame limit once it is reached, or with a thread that could not record
\* an eviction while the session was stopping.
Conserved ==
  fault = NoFault =>
    \A s \in Lossy :
      LET kept == Len(log[s]) + Len(Held(s)) + Len(queue[s]) + evicted[s]
      IN  /\ IF FrameLimit(s) THEN kept <= Arrived(s) ELSE kept = Arrived(s)
          /\ LostWhileStopping(s)

\* Every eviction has its line in health.jsonl, or in the buffer in front of it,
\* at the latest when the thread that evicted has finished record_drop; and in
\* a session that is published it has it in the file, also when a flush failed.
EvictionsRecorded ==
  LET unrecorded(s) == IF pc[s] \in {"record", "count"} THEN 1 ELSE 0
      evictions == evicted["camera"] + evicted["controller"]
  IN  /\ recorder = "open" =>
           evictions <= events["dropped"] + unflushed["dropped"]
                          + unrecorded("camera") + unrecorded("controller")
      /\ manifest => evictions <= events["dropped"]

\* The second put_nowait of _put_drop_oldest, which no handler expects to fail,
\* always finds room, whatever main and the other threads do meanwhile.
RequeueHasRoom == \A s \in Lossy : pc[s] = "requeue" => ~Full(s)

\* Once the stop event is set run() comes to its end, and so does every source
\* thread but a camera thread that waits for a frame: the final drain, whose
\* loop has no bound of its own, finds the queues empty although sources that
\* have not seen the event refill them, and a thread takes at most the item it
\* is waiting for.
StopEndsSession ==
  stop ~> /\ mainPc = "done"
          /\ \A s \in Streams : Alive(s) => s = "camera" /\ pc[s] = "next"

Session ==
  INSTANCE CaptureSession
    WITH Lossless <- {"telemetry"},
         status <- IF manifest THEN "published"
                   ELSE IF mainPc \in {"closing", "done"} THEN "failed"
                   ELSE "recording",
         admitted <- [s \in Streams |-> Arrived(s)],
         refused <- abandoned,
         stored <- log

\* The coordinator keeps the promise of CaptureSession: a published session is
\* sealed and its telemetry is complete, up to a datagram that was refused.
ImplementsSession == Session!Spec

\* test_phase2_adversarial.py:363 asserts that the drop counter equals the
\* number of items evicted from the camera and the controller queue.
NoDropUncounted ==
  manifest => health["dropped"] >= evicted["camera"] + evicted["controller"]

\* "telemetry rejects overload and faults the session because it is lossless"
\* (coordinator.py:64): no session that is published has refused a datagram.
OverloadFaults == manifest => "telemetry" \notin abandoned
=============================================================================
